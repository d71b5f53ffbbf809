--------------------------- MODULE ImageResources ---------------------------
(***************************************************************************)
(* The resources of an image client (image-rs): its configuration, the     *)
(* secure channel with its files of what was downloaded before, and        *)
(* ClientBuilder::build, which reads credentials, sigstore configuration,  *)
(* policy and registry rules in turn. Validators read keys over the same   *)
(* channel, at the same time as each other. The program may crash.         *)
(*                                                                         *)
(* What is read is <<uri, version>>; version 0 stands for a file that was  *)
(* truncated and not (wholly) written, which is no JSON. The KBS and the   *)
(* local files that are read are external.                                 *)
(***************************************************************************)
EXTENDS Naturals, Sequences, FiniteSets, TLC

CONSTANTS
  ConfigFiles,  \* the image client's configurations in files; [legal |-> FALSE, ...] cannot be parsed
  KernelLines,  \* kernel command lines: functions of the parameters that are there
  ResourceUris, \* records [scheme, host, name] of URIs
  Readers,      \* callers of the resource provider once the client is built
  KbsFeature,   \* BOOLEAN: built with `kbs`
  MaxVersion    \* bound: versions of a resource

None == [scheme |-> "none", host |-> "", name |-> ""]
NoContent == <<None, 0>>
Inline == [scheme |-> "inline", host |-> "", name |-> ""]

VARIABLES
  resPc,      \* "down", "building", "ready", "failed"
  imageCfg,   \* ImageConfig
  step,       \* build: what is read next
  taken,      \* build: what was read, by step
  calls,      \* the calls of get_resource under way: a record for each caller
  downloads,  \* the files under image-security/kbs: a function from URIs to contents
  published   \* the KBS and the file system: a function from URIs to versions, 0 none

resVars == <<resPc, imageCfg, step, taken, calls, downloads, published>>

NoCall == [pc |-> "idle", uri |-> None, data |-> NoContent]
Callers == Readers \cup {"builder"}
NothingTaken == [s \in {"auth", "sigstore", "policy", "registry"} |-> NoContent]

ImageConfigDefault ==
  [legal |-> TRUE, policy_uri |-> None, policy |-> FALSE, sigstore_uri |-> None, sigstore |-> FALSE,
   auth_uri |-> None, registry_uri |-> None, registry |-> FALSE, proxy |-> {}]

ResourcesInit ==
  /\ resPc = "down"
  /\ imageCfg = ImageConfigDefault
  /\ step = "auth"
  /\ taken = NothingTaken
  /\ calls = [c \in Callers |-> NoCall]
  /\ downloads = <<>>
  /\ published = [u \in ResourceUris |-> 0]

\* The owner of a resource gives it out, or a newer one.
PublishResource(u) ==
  /\ published[u] < MaxVersion
  /\ published' = [published EXCEPT ![u] = @ + 1]
  /\ UNCHANGED <<resPc, imageCfg, step, taken, calls, downloads>>

IsKbs(u) == u.scheme \in {"kbs", "kbs+plugin"}
\* No scheme is "file://"; of a relative path that makes a host, which is left out.
IsFile(u) == u.scheme \in {"file", ""}

-----------------------------------------------------------------------------
(* Configuration *)

Parameter(line, p) == IF p \in DOMAIN line THEN line[p] ELSE None

\* from_kernel_cmdline: a policy counts only where verification is enabled ("true").
FromKernelCmdline(line) ==
  [ImageConfigDefault EXCEPT
     !.auth_uri = Parameter(line, "agent.image_registry_auth"),
     !.policy_uri = IF Parameter(line, "agent.enable_signature_verification").name = "true"
                    THEN Parameter(line, "agent.image_policy_file") ELSE None,
     !.proxy = DOMAIN line \cap {"agent.https_proxy", "agent.http_proxy", "agent.no_proxy"}]

LegalConfigs == {c \in ConfigFiles : c.legal} \cup {FromKernelCmdline(k) : k \in KernelLines}
                \cup {ImageConfigDefault}
UrisOf(c) == {c.auth_uri, c.sigstore_uri, c.policy_uri, c.registry_uri}

\* Every URI that can be read is one of a resource; Inline is none.
ASSUME ImageResourcesAssumption ==
  /\ "builder" \notin Readers
  /\ \A c \in LegalConfigs :
       /\ c.policy \in BOOLEAN /\ c.policy_uri # Inline
       /\ \A u \in UrisOf(c) : IsKbs(u) \/ IsFile(u) => u \in ResourceUris

\* SecureChannel::new makes the directory of the downloads, which may fail.
StartBuild(c, made) ==
  /\ resPc \in {"down", "failed"} /\ c.legal
  /\ imageCfg' = c
  /\ resPc' = IF made \/ ~ KbsFeature THEN "building" ELSE "failed"
  /\ step' = "auth" /\ taken' = NothingTaken
  /\ UNCHANGED <<calls, downloads, published>>

\* A configuration file that cannot be opened or parsed.
ConfigFails(c) ==
  /\ resPc \in {"down", "failed"} /\ ~ c.legal
  /\ resPc' = "failed" /\ UNCHANGED <<imageCfg, step, taken, calls, downloads, published>>

-----------------------------------------------------------------------------
(* get_resource *)

Content(u) == <<u, published[u]>>
Answered(c, data) == calls' = [calls EXCEPT ![c].pc = "done", ![c].data = data]
CallFails(c) == calls' = [calls EXCEPT ![c].pc = "failed"]
Lookup(c, u) == calls' = [calls EXCEPT ![c] = [pc |-> "called", uri |-> u, data |-> NoContent]]

ReadFile(c) ==
  /\ calls[c].pc = "called" /\ IsFile(calls[c].uri)
  /\ IF calls[c].uri.host # "" \/ published[calls[c].uri] = 0
     THEN CallFails(c) ELSE Answered(c, Content(calls[c].uri))

RefuseScheme(c) ==
  /\ calls[c].pc = "called" /\ ~ IsFile(calls[c].uri)
  /\ ~ (IsKbs(calls[c].uri) /\ KbsFeature)
  /\ CallFails(c)

\* check_local: the file is named by a hash of the URI; it is read at one go.
CheckLocal(c) ==
  /\ calls[c].pc = "called" /\ IsKbs(calls[c].uri) /\ KbsFeature
  /\ IF calls[c].uri \in DOMAIN downloads
     THEN Answered(c, downloads[calls[c].uri])
     ELSE calls' = [calls EXCEPT ![c].pc = "missed"]

\* The client of the channel: gRPC, ttRPC or a KBC; it may fail at any time.
Download(c, ok) ==
  /\ calls[c].pc = "missed"
  /\ IF ok /\ published[calls[c].uri] > 0
     THEN calls' = [calls EXCEPT ![c].pc = "downloaded", ![c].data = Content(calls[c].uri)]
     ELSE CallFails(c)

CallSteps(c) ==
  /\ \/ ReadFile(c) \/ RefuseScheme(c) \/ CheckLocal(c)
     \/ \E ok \in BOOLEAN : Download(c, ok)
  /\ UNCHANGED <<resPc, imageCfg, step, taken, downloads, published>>

\* fs::write: the file is created or truncated, then written.
OpenFile(c, ok) ==
  /\ calls[c].pc = "downloaded"
  /\ IF ok THEN /\ downloads' = [u \in DOMAIN downloads \cup {calls[c].uri} |->
                                   IF u = calls[c].uri THEN <<u, 0>> ELSE downloads[u]]
                /\ calls' = [calls EXCEPT ![c].pc = "writing"]
     ELSE CallFails(c) /\ UNCHANGED downloads
  /\ UNCHANGED <<resPc, imageCfg, step, taken, published>>

\* Of what another caller has just written the end may remain.
WriteFile(c, ok, remains) ==
  LET u == calls[c].uri
      others == downloads[u] \notin {<<u, 0>>, calls[c].data} IN
  /\ calls[c].pc = "writing"
  /\ remains => ok /\ others
  /\ IF ok THEN /\ downloads' = [downloads EXCEPT ![u] = IF remains THEN <<u, 0>> ELSE calls[c].data]
                /\ calls' = [calls EXCEPT ![c].pc = "done"]
     ELSE CallFails(c) /\ UNCHANGED downloads
  /\ UNCHANGED <<resPc, imageCfg, step, taken, published>>

-----------------------------------------------------------------------------
(* build *)

\* A URI comes before what the configuration itself holds, but not for the registry.
UriOf(s) ==
  CASE s = "auth" -> imageCfg.auth_uri
    [] s = "sigstore" -> imageCfg.sigstore_uri
    [] s = "policy" -> imageCfg.policy_uri
    [] s = "registry" -> IF imageCfg.registry THEN None ELSE imageCfg.registry_uri

HasInline(s) ==
  CASE s = "auth" -> FALSE
    [] s = "sigstore" -> imageCfg.sigstore
    [] s = "policy" -> imageCfg.policy
    [] s = "registry" -> imageCfg.registry

StepAfter(s) == CASE s = "auth" -> "sigstore" [] s = "sigstore" -> "policy"
              [] s = "policy" -> "registry" [] s = "registry" -> "stores"

\* What was read may be illegal; a torn JSON file is, a torn list of rules need not be.
\* The sigstore configuration is looked at with the policy.
MayParse(s, data) == data[2] # 0 \/ data[1] \in {None, Inline} \/ s \in {"sigstore", "registry"}

Take(data, legal) ==
  /\ IF legal THEN /\ taken' = [taken EXCEPT ![step] = data]
                   /\ step' = StepAfter(step)
                   /\ UNCHANGED resPc
     ELSE resPc' = "failed" /\ UNCHANGED <<taken, step>>
  /\ UNCHANGED <<imageCfg, downloads, published>>

BuildReads ==
  /\ resPc = "building" /\ step # "stores" /\ UriOf(step) # None
  /\ calls["builder"].pc = "idle"
  /\ Lookup("builder", UriOf(step))
  /\ UNCHANGED <<resPc, imageCfg, step, taken, downloads, published>>

BuildTakesInline(legal) ==
  /\ resPc = "building" /\ step # "stores" /\ UriOf(step) = None
  /\ ~ legal => HasInline(step) /\ step # "sigstore"
  /\ Take(IF HasInline(step) THEN <<Inline, 1>> ELSE NoContent, legal)
  /\ UNCHANGED calls

BuildTakesResource(legal) ==
  /\ resPc = "building" /\ calls["builder"].pc = "done"
  /\ legal => MayParse(step, calls["builder"].data)
  /\ ~ legal => step # "sigstore"
  /\ Take(calls["builder"].data, legal)
  /\ calls' = [calls EXCEPT !["builder"] = NoCall]

\* Mutant of FailsBuild: only credentials are worth an error.
FailsBuildForAuth(s) == s = "auth"

\* A resource that cannot be had is an error of the build.
FailsBuild(s) == s \in DOMAIN NothingTaken

BuildGetsNothing ==
  /\ resPc = "building" /\ calls["builder"].pc = "failed"
  /\ Take(NoContent, ~ FailsBuild(step))
  /\ calls' = [calls EXCEPT !["builder"] = NoCall]

\* The stores: metadata that cannot be read is made anew; the directory of the layers
\* must be.
BuildEnds(ok) ==
  /\ resPc = "building" /\ step = "stores"
  /\ resPc' = IF ok THEN "ready" ELSE "failed"
  /\ UNCHANGED <<imageCfg, step, taken, calls, downloads, published>>

-----------------------------------------------------------------------------
\* The keys of a policy are read while images are pulled.
ReadKey(c, u) ==
  /\ resPc = "ready" /\ c \in Readers /\ calls[c].pc \notin {"called", "missed", "downloaded", "writing"}
  /\ Lookup(c, u)
  /\ UNCHANGED <<resPc, imageCfg, step, taken, downloads, published>>

\* The program stops; what was downloaded stays until the guest does.
CrashClient ==
  /\ resPc # "down"
  /\ resPc' = "down" /\ step' = "auth" /\ taken' = NothingTaken
  /\ calls' = [c \in Callers |-> NoCall]
  /\ UNCHANGED <<imageCfg, downloads, published>>

ResourcesNext ==
  \/ \E u \in ResourceUris : PublishResource(u) \/ \E c \in Readers : ReadKey(c, u)
  \/ \E c \in ConfigFiles : ConfigFails(c) \/ \E made \in BOOLEAN : StartBuild(c, made)
  \/ \E k \in KernelLines, made \in BOOLEAN : StartBuild(FromKernelCmdline(k), made)
  \/ \E c \in Callers :
       \/ CallSteps(c)
       \/ \E ok \in BOOLEAN : OpenFile(c, ok) \/ \E remains \in BOOLEAN : WriteFile(c, ok, remains)
  \/ BuildReads \/ BuildGetsNothing
  \/ \E legal \in BOOLEAN : BuildTakesInline(legal) \/ BuildTakesResource(legal) \/ BuildEnds(legal)
  \/ CrashClient

ResourcesSpec == ResourcesInit /\ [][ResourcesNext]_resVars

-----------------------------------------------------------------------------
(* Properties *)

\* The client that comes of a configuration that names a policy enforces one, and it is
\* a whole version of it, the one at the URI rather than the one in the configuration:
\* no error on the way, crash or torn file leaves a client that allows everything.
PolicyInUse ==
  resPc = "ready" =>
    /\ (taken["policy"] = NoContent) <=> (imageCfg.policy_uri = None /\ ~ imageCfg.policy)
    /\ imageCfg.policy_uri # None => /\ taken["policy"][1] = imageCfg.policy_uri
                                     /\ taken["policy"][2] > 0

=============================================================================

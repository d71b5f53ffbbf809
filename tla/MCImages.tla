------------------------------ MODULE MCImages ------------------------------
(***************************************************************************)
(* Instances for TLC of the components an image goes through by itself:    *)
(* where it is pulled from, what its signatures must be, the resources and *)
(* configuration of image-rs, the stream and the unpacking of a layer, and *)
(* the bundle.  MCParts gives their behaviours.                            *)
(***************************************************************************)
EXTENDS LayerUnpack, LayerStream, SignaturePolicy, RegistryTasks, ImageResources, ImageBundle

\* Entries of archives: files, directories of both header formats, links, whiteouts.
EntryAt(path, label) ==
  [type |-> "file", name |-> "plain", ustar |-> TRUE, slash |-> FALSE, legal |-> TRUE,
   path |-> path, link |-> <<>>, label |-> label]

MCEntries ==
  { EntryAt(<<"f">>, 1), EntryAt(<<"d", "f">>, 2), EntryAt(<<>>, 1),
    [EntryAt(<<"d">>, 3) EXCEPT !.type = "dir"],
    [EntryAt(<<"d">>, 4) EXCEPT !.ustar = FALSE, !.slash = TRUE],
    [EntryAt(<<"f">>, 1) EXCEPT !.name = "opaque"],
    [EntryAt(<<>>, 5) EXCEPT !.type = "dir"],
    [EntryAt(<<"s">>, 6) EXCEPT !.type = "symlink", !.link = <<"f">>],
    [EntryAt(<<"d", "h">>, 7) EXCEPT !.type = "hardlink", !.link = <<"f">>],
    [EntryAt(<<"h">>, 8) EXCEPT !.type = "hardlink", !.link = <<"s">>],
    [EntryAt(<<"f">>, 1) EXCEPT !.name = "whiteout"],
    EntryAt(<<"d", "h">>, 9),
    [EntryAt(<<"d">>, 1) EXCEPT !.name = "whiteout", !.type = "dir"],
    [EntryAt(<<"d", "g">>, 1) EXCEPT !.name = "whiteout"],
    [EntryAt(<<"d">>, 1) EXCEPT !.name = "opaque"],
    [EntryAt(<<"g">>, 1) EXCEPT !.legal = FALSE] }

MCLowerTree == [p \in {<<>>, <<"d">>, <<"d", "f">>, <<"d", "g">>, <<"f">>, <<"e">>} |-> "any"]

\* An archive that goes on after its end, and one without an end.
MCArchives == {<<"a", "end">>, <<"a", "end", "b">>, <<"a">>}

-----------------------------------------------------------------------------
(* Signatures *)

MCNameParts == STRING
AppOf(ns) == <<"a", ".", "b", "/", ns, "/", "app">>
Tagged == [name |-> AppOf("n"), tag |-> "v1", digest |-> ""]
ByDigest == [Tagged EXCEPT !.tag = "", !.digest = "sha256:1"]
OnPort == [Tagged EXCEPT !.name = <<"a", ".", "b", ":", "8443", "/", "n", "/", "app">>]

MCImageDigests == (1 :> [algorithm |-> "sha256", hex |-> TRUE, length |-> 64])
             @@ (2 :> [algorithm |-> "sha512", hex |-> TRUE, length |-> 128])
             @@ (3 :> [algorithm |-> "sha256", hex |-> TRUE, length |-> 63])

NoIdentity == [type |-> "none"]
SignedBy == [type |-> "signedBy", keyType |-> "GPGKeys", keyPath |-> "ring", keyData |-> <<>>,
             identity |-> NoIdentity]
SigstoreSigned == [type |-> "sigstoreSigned", keyPath |-> "", keyData |-> <<"k1">>,
                   identity |-> NoIdentity]
AcceptAnything == [type |-> "insecureAcceptAnything"]
Rejecting == [type |-> "reject"]
PolicyOf(scopes, default) == [scopes |-> scopes, default |-> default]

MCIdentities ==
  { NoIdentity, [type |-> "matchExact"], [type |-> "matchRepository"],
    [type |-> "exactReference", reference |-> Whole(Tagged)],
    [type |-> "exactRepository", repository |-> AppOf("n")],
    [type |-> "remapIdentity", prefix |-> <<"a", ".", "b", "/", "n">>,
     signedPrefix |-> <<"a", ".", "b", "/", "m">>] }

MCPolicies ==
  { PolicyOf(<<>>, <<>>), PolicyOf((<<>> :> <<Rejecting>>), <<AcceptAnything>>),
    PolicyOf((<<"a", ".", "b", "/", "n">> :> <<SignedBy, SigstoreSigned>>)
             @@ (<<"a", ".", "b">> :> <<AcceptAnything>>) @@ (<<"*", ".", "b">> :> <<Rejecting>>),
             <<Rejecting>>),
    PolicyOf((Whole(Tagged) :> <<[SigstoreSigned EXCEPT !.keyData = <<>>]>>)
             @@ (AppOf("n") :> <<SigstoreSigned>>), <<AcceptAnything>>),
    PolicyOf((<<"*", ".", "b">> :> <<SignedBy>>), <<[SignedBy EXCEPT !.keyType = "other"]>>) }
  \cup { PolicyOf(<<>>, <<[SignedBy EXCEPT !.identity = id]>>) : id \in MCIdentities }
  \cup { PolicyOf(<<>>, <<[SigstoreSigned EXCEPT !.identity = id]>>) : id \in MCIdentities }

MCSigstoreFiles ==
  { << <<>> >>, << (<<>> :> "file"), <<>> >>, << (<<>> :> "file"), (<<>> :> "http") >>,
    << (<<"a", ".", "b">> :> "http"), (<<>> :> "file"), (<<"*", ".", "b">> :> "file") >>,
    << (AppOf("n") :> "file"), (AppOf("n") :> "file") @@ (<<>> :> "http") >> }

Signature == [key |-> "k1", issuer |-> "k1", packets |-> TRUE, json |-> TRUE, digest |-> 1,
              identity |-> Whole(Tagged)]
Signatures == { Signature, [Signature EXCEPT !.digest = 2],
                [Signature EXCEPT !.key = "k2", !.issuer = "k3"],
                [Signature EXCEPT !.identity = Whole([Tagged EXCEPT !.name = AppOf("m")])] }
Payload == [key |-> "k1", of |-> 1, digest |-> 1, identity |-> AppOf("n")]
PayloadLists ==
  { <<>>, <<Payload>>, <<[Payload EXCEPT !.key = "k2"], Payload>>,
    <<[Payload EXCEPT !.of = 2, !.digest = 2]>>, <<[Payload EXCEPT !.identity = AppOf("m")]>> }

Unsigned == [ref |-> Tagged, digest |-> 1, list |-> 0, auth |-> "basic", registry |-> {},
             store |-> {}, cosign |-> <<>>]
MCChecks ==
  { [Unsigned EXCEPT !.ref = r, !.store = {s}] : r \in {Tagged, ByDigest, OnPort}, s \in Signatures }
  \cup { [Unsigned EXCEPT !.registry = {s}, !.auth = a] : s \in Signatures, a \in {"anonymous", "basic"} }
  \cup { [Unsigned EXCEPT !.list = l, !.cosign = c] : l \in {0, 2, 3}, c \in PayloadLists }
  \cup { [Unsigned EXCEPT !.store = {Signature}, !.cosign = <<Payload>>], [Unsigned EXCEPT !.digest = 3] }

MCKeyRings == [p \in {"ring"} |-> <<"k1", "k2">>]

-----------------------------------------------------------------------------
(* Registries and credentials *)

HostCom(h) == <<h, ".", "com">>
RefOf(name) == [name |-> name, tag |-> "v1", digest |-> ""]

\* "ns2" is another namespace than "ns", and a host may be part of another's path.
MCReferences ==
  { RefOf(DockerIo \o <<"/", "library", "/", "app">>), RefOf(DockerIo \o <<"/", "ns", "/", "app">>),
    RefOf(HostCom("a") \o <<"/", "ns", "/", "app">>), RefOf(HostCom("a") \o <<"/", "ns", "2", "/", "app">>),
    [RefOf(HostCom("a") \o <<":", "5000", "/", "ns", "/", "app">>) EXCEPT !.digest = "d"],
    [RefOf(HostCom("b") \o <<"/">> \o HostCom("a") \o <<"/", "app">>) EXCEPT !.tag = "", !.digest = "d"] }

Rule(prefix, location) ==
  [prefix |-> prefix, location |-> location, blocked |-> FALSE, insecure |-> FALSE, mirrors |-> <<>>]
Blocked(prefix) == [Rule(prefix, <<>>) EXCEPT !.blocked = TRUE]
Mirrored(prefix, location, ms) ==
  [Rule(prefix, location) EXCEPT !.mirrors = [i \in DOMAIN ms |-> [location |-> ms[i], insecure |-> TRUE]]]
Searching(hosts, rules) == [search |-> hosts, rules |-> rules]

MCConfigs ==
  { Searching(<<DockerIo>>, <<>>), Searching(<<>>, <<>>), Searching(<<DockerIo>>, <<Blocked(<<>>)>>),
    Searching(<<DockerIo, HostCom("b")>>,
              <<Rule(HostCom("a"), HostCom("c")), Blocked(HostCom("a") \o <<"/", "ns">>)>>),
    Searching(<<HostCom("b")>>,
              <<Mirrored(HostCom("b"), DockerIo, <<HostCom("c"), HostCom("d")>>),
                [Rule(<<"*", ".", "com">>, HostCom("d")) EXCEPT !.insecure = TRUE]>>),
    Searching(<<DockerIo>>, <<Mirrored(DockerIo, <<>>, <<HostCom("c") \o <<"/", "cache">> >>),
                              Rule(<<>>, HostCom("a")), Rule(HostCom("a"), DockerIo)>>),
    Searching(<<DockerIo, HostCom("a")>>,
              <<Rule(<<"*", ".", "com">>, HostCom("d")), Mirrored(HostCom("a"), <<"mirror">>, <<HostCom("c")>>)>>),
    Searching(<<DockerIo>>, <<Rule(<<"*", ".", "com">>, <<>>)>>),
    Searching(<<DockerIo>>, <<Rule(HostCom("a") \o <<"/", "ns", "/", "app", ":", "v1">>, <<"x">>)>>) }

MCAuthFiles ==
  { <<>>, (HostCom("a") :> "c1") @@ (HostCom("a") \o <<"/", "ns">> :> "c2"),
    (<<"https://">> \o DockerIndex \o <<"/", "v1", "/">> :> "c3")
      @@ (<<"http://">> \o HostCom("c") :> "c4") @@ (HostCom("b") \o <<"/", "x">> :> "c5"),
    (HostCom("a") :> "illegal") @@ (DockerIo :> "c6") }

-----------------------------------------------------------------------------
(* Resources, configuration and bundle *)

Uri(scheme, host, name) == [scheme |-> scheme, host |-> host, name |-> name]
PolicyUri == Uri("kbs", "", "policy")
RulesFile == Uri("", "", "rules")
MCResourceUris == {PolicyUri, RulesFile}

MCConfigFiles ==
  LET d == ImageConfigDefault IN
  { d, [d EXCEPT !.policy_uri = PolicyUri, !.policy = TRUE, !.registry_uri = RulesFile],
    [d EXCEPT !.policy = TRUE, !.registry = TRUE, !.auth_uri = RulesFile, !.sigstore_uri = PolicyUri],
    [d EXCEPT !.policy_uri = Uri("https", "", "x"), !.sigstore = TRUE], [d EXCEPT !.legal = FALSE] }

MCKernelLines ==
  { ("agent.enable_signature_verification" :> Uri("", "", "true"))
      @@ ("agent.image_policy_file" :> PolicyUri) @@ ("agent.no_proxy" :> None),
    ("agent.image_policy_file" :> PolicyUri) @@ ("agent.image_registry_auth" :> RulesFile) }

Configuration(hasConfig, labels, fields) ==
  [hasConfig |-> hasConfig, labels |-> labels, fields |-> ("os" :> "linux") @@ fields,
   entrypoint |-> <<"e">>, cmd |-> <<"c">>, volumes |-> <<"v">>]
MCImageConfigurations ==
  { Configuration(h, ("variant" :> "label") @@ ("exposedPorts" :> "label"), f) :
      h \in BOOLEAN, f \in {<<>>, ("variant" :> "v8") @@ ("stopSignal" :> "9") @@ ("exposedPorts" :> "80")} }
  \cup { [Configuration(TRUE, <<>>, <<>>) EXCEPT !.entrypoint = <<>>, !.cmd = <<>>] }

\* Hash "b" has the length of SHA-1, "x" is no hexadecimal number.
RootHash(n) == [name |-> n, length |-> IF n = "b" THEN 40 ELSE 64, hex |-> n # "x"]
Verity(n, blocks, offset) ==
  [form |-> "json", hashtype |-> "sha256", hash |-> RootHash(n), blocknum |-> blocks, blocksize |-> 4096,
   hashsize |-> 4096, offset |-> offset]
MCVerityOptions ==
  { Verity("a", n, off) : n \in {0, 1, 2, 17}, off \in {4096, 8192, 8000} }
  \cup { [Verity("c", 8, 4096) EXCEPT !.form = f, !.blocksize = b] : f \in {"tarfs", "other"}, b \in {500, 4096} }
  \cup { [Verity(n, 1, 4096) EXCEPT !.hashtype = t] : n \in {"b", "x"}, t \in {"sha1", "md5", "sha256"} }
=============================================================================

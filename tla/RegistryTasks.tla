---------------------------- MODULE RegistryTasks ----------------------------
(***************************************************************************)
(* Where an image is pulled from, and with which credentials (image-rs,    *)
(* registry, auth, ImageClient::pull_image).  A reference becomes a list   *)
(* of tasks: the registries searched for an unqualified name, each sent to *)
(* the mirrors and the location of the rule with the longest match, or     *)
(* dropped when that blocks it; the tasks are tried one after the other    *)
(* until one succeeds.                                                     *)
(*                                                                         *)
(* What a task pulls is external here (ImagePull has it).                  *)
(***************************************************************************)
EXTENDS ImageReference, FiniteSetsExt, TLC

CONSTANTS
  Images,      \* references users ask for
  Configs,     \* registry configurations: search (names of registries) and rules
  AuthFiles,   \* auth.json: functions from keys (names, a scheme before them) to credentials
  Inputs       \* credentials given with a call: "none", "user:pass" or "user"

\* host[:port], of a port that is one part.
IsRegistry(h) ==
  /\ h \in Seq(Parts) /\ h # <<>>
  /\ \A i \in DOMAIN h : h[i] \notin {"/", "@"} /\ (h[i] = ":" => i = Len(h) - 1 /\ h[i + 1] # ".")
IsRule(rule) ==
  /\ DOMAIN rule = {"prefix", "location", "blocked", "insecure", "mirrors"}
  /\ {rule.prefix, rule.location} \subseteq Seq(Parts) /\ IsSeqOf(rule.mirrors)
  /\ \A i \in DOMAIN rule.mirrors : rule.mirrors[i].location \in Seq(Parts)

\* Names start with registries, those of images and those they are searched by; a
\* credential of the file has a key.
ASSUME RegistryAssumption ==
  /\ \A r \in Images : IsReference(r) /\ IsRegistry(RegistryOf(r))
  /\ \A c \in Configs :
       /\ c.search \in Seq(Seq(Parts)) /\ \A i \in DOMAIN c.search : IsRegistry(c.search[i])
       /\ IsSeqOf(c.rules) /\ \A i \in DOMAIN c.rules : IsRule(c.rules[i])
  /\ \A a \in AuthFiles : <<>> \notin DOMAIN a

DockerHosts == {DockerIo, <<"registry-1", ".", "docker", ".", "io">>}

VARIABLES
  taskPc,    \* "begin", "ready", "trying", "pulled" or "failed"
  config,    \* RegistryHandler: its configuration; auths, the credentials
  asked,     \* the reference and the credentials of the call
  tasks,     \* the tasks still to be tried
  tried      \* history: the tasks tried, the credentials used, and whether they were sent

taskVars == <<taskPc, config, asked, tasks, tried>>

TaskInit ==
  /\ taskPc = "begin"
  /\ config = [search |-> <<>>, rules |-> <<>>, auths |-> <<>>]
  /\ asked = [ref |-> [name |-> <<>>, tag |-> Absent, digest |-> Absent], input |-> "none"]
  /\ tasks = <<>>
  /\ tried = <<>>

-----------------------------------------------------------------------------
(* The configuration *)

\* validate_and_tidy: a rule without a prefix is for its location.
IsWild(prefix) == Len(prefix) > 1 /\ prefix[1] = "*" /\ prefix[2] = "."
Tidy(rule) == IF rule.prefix = <<>> THEN [rule EXCEPT !.prefix = rule.location] ELSE rule
LegalRule(rule) ==
  /\ Tidy(rule).prefix # <<>>
  /\ IsWild(Tidy(rule).prefix) => rule.location # <<>>
  /\ \A i \in DOMAIN rule.mirrors : rule.mirrors[i].location # <<>>

Configure(c, auths) ==
  /\ taskPc = "begin"
  /\ IF \A i \in DOMAIN c.rules : LegalRule(c.rules[i])
     THEN /\ config' = [search |-> c.search, auths |-> auths,
                        rules |-> [i \in DOMAIN c.rules |-> Tidy(c.rules[i])]]
          /\ taskPc' = "ready"
     ELSE taskPc' = "failed" /\ UNCHANGED config
  /\ UNCHANGED <<asked, tasks, tried>>

-----------------------------------------------------------------------------
(* The tasks *)

\* str::find: where one string is first found in another; 0 is nowhere.
FoundAt(s, sub) == {i \in 1 .. Len(s) : IsPrefix(sub, SubSeq(s, i, Len(s)))}
Find(s, sub) == IF FoundAt(s, sub) = {} THEN 0 ELSE Min(FoundAt(s, sub))

EndsAt(s, n) == n = Len(s) \/ s[n + 1] \in {":", "/", "@"}

\* Mutant of MatchedLength: a prefix may end inside a component.
MatchedLengthLoose(s, prefix) ==
  LET i == Find(s, prefix) IN IF i # 0 THEN i + Len(prefix) - 1 ELSE 0

\* match_reference_prefix: the length of what a rule matches; 0 is no match.
MatchedLength(s, prefix) ==
  LET wild == IsWild(prefix)
      sub == IF wild THEN Tail(prefix) ELSE prefix
      i == Find(s, sub)
      n == i + Len(sub) - 1 IN
  IF /\ i # 0
     /\ wild => "/" \notin ToSet(SubSeq(s, 1, i - 1))
     /\ EndsAt(s, n)
  THEN n ELSE 0

\* generate_unqualified_search_tasks.
Unqualified(search, r) ==
  LET repository == IF IsPrefix(<<"library", "/">>, RepositoryOf(r))
                    THEN SubSeq(RepositoryOf(r), 3, Len(RepositoryOf(r))) ELSE RepositoryOf(r) IN
  [i \in DOMAIN search |->
     [ref |-> IF search[i] = DockerIo THEN r
              ELSE [name |-> search[i] \o <<"/">> \o repository, tag |-> r.tag,
                    digest |-> IF r.tag = Absent THEN r.digest ELSE Absent],
      http |-> FALSE, type |-> "unqualified"]]

Candidates(search, r) == IF RegistryOf(r) = DockerIo THEN Unqualified(search, r)
                         ELSE <<[ref |-> r, http |-> FALSE, type |-> "original"]>>

\* How much of a reference each rule matches.
MatchesOfRules(rules, r) == [i \in DOMAIN rules |-> MatchedLength(Whole(r), rules[i].prefix)]

\* The rule with the longest match, the last of several; 0 is none.
RuleFor(matches) ==
  LET longest == Max(Range(matches) \cup {0}) IN
  IF longest = 0 THEN 0 ELSE Max({i \in DOMAIN matches : matches[i] = longest})

\* What is left of the reference after a match, somewhere else.
Moved(location, r, n) == location \o SubSeq(Whole(r), n + 1, Len(Whole(r)))

\* What a rule that matches so much of a task makes of it: mirrors first, then its
\* location; ok tells whether all the names they make are references.
Redirected(rule, task, n) ==
  LET names == [i \in DOMAIN rule.mirrors |-> Moved(rule.mirrors[i].location, task.ref, n)]
               \o (IF rule.location = <<>> THEN <<>> ELSE <<Moved(rule.location, task.ref, n)>>)
      mirror(i) == [ref |-> Parse(names[i]), http |-> rule.mirrors[i].insecure, type |-> "mirror"]
      there == [ref |-> Parse(Last(names)), http |-> rule.insecure,
                type |-> IF rule.location = DockerIo THEN task.type ELSE "remapped"] IN
  IF rule.blocked THEN [ok |-> TRUE, tasks |-> <<>>]
  ELSE IF \E i \in DOMAIN names : ~ IsName(names[i]) THEN [ok |-> FALSE, tasks |-> <<>>]
  ELSE [ok |-> TRUE, tasks |-> [i \in DOMAIN rule.mirrors |-> mirror(i)]
                               \o <<IF rule.location = <<>> THEN task ELSE there>>]

\* What becomes of a task under rule k, or under none.
Under(k, rules, task, matches) ==
  IF k = 0 THEN [ok |-> TRUE, tasks |-> <<[task EXCEPT !.http = FALSE]>>]
  ELSE Redirected(rules[k], task, matches[k])

\* handle_registry_tasks for one task.
Handle(rules, task) ==
  LET matches == MatchesOfRules(rules, task.ref) IN Under(RuleFor(matches), rules, task, matches)

\* RegistryHandler::process: no task at all is an error, and so is one bad name.
Process(r, input) ==
  LET candidates == Candidates(config.search, r)
      handled == [i \in DOMAIN candidates |-> Handle(config.rules, candidates[i])]
      final == FlattenSeq([i \in DOMAIN handled |-> handled[i].tasks]) IN
  /\ taskPc = "ready"
  /\ asked' = [ref |-> r, input |-> input]
  /\ tasks' = final
  /\ taskPc' = IF (\A i \in DOMAIN handled : handled[i].ok) /\ final # <<>> THEN "trying" ELSE "failed"
  /\ UNCHANGED <<config, tried>>

-----------------------------------------------------------------------------
(* The credentials *)

\* normalize_key_to_registry: of a key with a scheme the host alone.
KeyHost(key) ==
  LET bare == IF key[1] \in {"http://", "https://"} THEN Tail(key) ELSE key
      host == IF bare # key /\ "/" \in ToSet(bare) THEN Before(bare, FirstAt(bare, "/")) ELSE bare IN
  IF host \in DockerHosts THEN DockerIndex ELSE host

NormalRegistry(r) == IF RegistryOf(r) \in DockerHosts THEN DockerIndex ELSE RegistryOf(r)

\* credential_from_auth_config: the key that is the name or the longest of its parents;
\* without one, any key of the same registry.
KeysFor(auths, r) ==
  LET parents == Parents(RepositoryFullName(r))
      i == SelectInSeq(parents, LAMBDA n : n \in DOMAIN auths) IN
  IF i # 0 THEN {parents[i]}
  ELSE {k \in DOMAIN auths : KeyHost(k) = NormalRegistry(r)}

\* pull_task: the credentials of the call, of the file, or none.
Credentials(r) ==
  IF asked.input # "none" THEN {[key |-> <<>>, cred |-> asked.input]}
  ELSE IF KeysFor(config.auths, r) = {} THEN {[key |-> <<>>, cred |-> "anonymous"]}
  ELSE {[key |-> k, cred |-> config.auths[k]] : k \in KeysFor(config.auths, r)}

\* What is no "user:password".
Unusable == {"user", "illegal"}

\* One task; credentials of no use stop it before anything is sent.
Try(success) ==
  /\ taskPc = "trying"
  /\ tasks # <<>>
  /\ tasks' = Tail(tasks)
  /\ \E c \in Credentials(Head(tasks).ref) :
       LET sent == c.cred \notin Unusable IN
       /\ tried' = Append(tried, [task |-> Head(tasks), key |-> c.key, sent |-> sent])
       /\ taskPc' = IF sent /\ success THEN "pulled" ELSE taskPc
  /\ UNCHANGED <<config, asked>>

AllTasksTried ==
  /\ taskPc = "trying"
  /\ tasks = <<>>
  /\ taskPc' = "failed"
  /\ UNCHANGED <<config, asked, tasks, tried>>

TaskNext ==
  \/ \E c \in Configs, a \in AuthFiles : Configure(c, a)
  \/ \E r \in Images, input \in Inputs : Process(r, input)
  \/ \E success \in BOOLEAN : Try(success)
  \/ AllTasksTried

TaskSpec == TaskInit /\ [][TaskNext]_taskVars

-----------------------------------------------------------------------------
(* Properties *)

\* What a rule's prefix is meant to match: the start of the reference, up to a separator,
\* or a domain its host is in.
AnchoredLength(s, prefix) ==
  LET host == Before(s, Min({i \in 1 .. Len(s) : s[i] \in {"/", ":"}})) IN
  IF IsWild(prefix)
  THEN IF IsSuffix(Tail(prefix), host) THEN Len(host) ELSE 0
  ELSE IF IsPrefix(prefix, s) /\ EndsAt(s, Len(prefix)) THEN Len(prefix) ELSE 0

\* No rule's prefix is found in a candidate where it is not meant to be: a name's only
\* at the start, a domain's only once, and a domain has no path behind it.
RulesAreAnchored(c, r) ==
  \A i \in DOMAIN Candidates(c.search, r), k \in DOMAIN c.rules :
    LET s == Whole(Candidates(c.search, r)[i].ref)
        prefix == c.rules[k].prefix IN
    IF IsWild(prefix)
    THEN {"/", ":"} \cap ToSet(prefix) = {} /\ \A j1, j2 \in FoundAt(s, Tail(prefix)) : j1 = j2
    ELSE FoundAt(s, prefix) \subseteq {1}

MeantMatches(rules, r) == [i \in DOMAIN rules |-> AnchoredLength(Whole(r), rules[i].prefix)]

\* Of two prefixes a name says more than a domain its host is in, and the longer name, or
\* domain, more than the shorter.
SaysMore(p, q) == IF IsWild(p) <=> IsWild(q) THEN Len(p) > Len(q) ELSE IsWild(q)

\* The code compares only where matches end, and takes the last rule of the file where
\* several end at the same place: each of them has to say more than those before it.
RulesAreOrdered(c, r) ==
  \A i \in DOMAIN Candidates(c.search, r) :
    LET matches == MeantMatches(c.rules, Candidates(c.search, r)[i].ref) IN
    \A j, k \in DOMAIN c.rules :
      j < k /\ matches[j] = matches[k] /\ matches[j] # 0 => SaysMore(c.rules[k].prefix, c.rules[j].prefix)

\* The rules that say most of a reference; none for one that no rule is meant for.
MeantRules(rules, r) ==
  LET meant == {k \in DOMAIN rules : MeantMatches(rules, r)[k] # 0} IN
  {k \in meant : \A j \in meant \ {k} : SaysMore(rules[k].prefix, rules[j].prefix)}
MeantTasks(c, r) ==
  LET candidates == Candidates(c.search, r)
      meant(task) == LET of == MeantRules(c.rules, task.ref) IN
                     Under(IF of = {} THEN 0 ELSE CHOOSE k \in of : TRUE, c.rules, task,
                           MeantMatches(c.rules, task.ref)) IN
  FlattenSeq([i \in DOMAIN candidates |-> meant(candidates[i]).tasks])

TriedTasks == [i \in DOMAIN tried |-> tried[i].task]

\* Under rules whose prefixes are found only where they are meant to be, and that come
\* after those they say more than, an image is only asked for where the most specific
\* rule for it (or for the name it is searched by) sends it, in that order, and not at
\* all when that rule blocks it.
TriedAsRulesSay ==
  taskPc \in {"trying", "pulled"} /\ RulesAreAnchored(config, asked.ref) /\ RulesAreOrdered(config, asked.ref) =>
    IsPrefix(TriedTasks, MeantTasks(config, asked.ref))

\* A task comes to nothing before anything is sent only for credentials of its own.
SkippedForItsOwn ==
  \A i \in DOMAIN tried :
    tried[i].sent <=> (IF tried[i].key = <<>> THEN asked.input \notin Unusable
                       ELSE asked.input = "none" /\ config.auths[tried[i].key] \notin Unusable)

\* A credential of the file goes to no registry but its own, with the names Docker's
\* registry has being one, and one for a part of a registry to nothing outside it.
CredentialsStayHome ==
  \A i \in DOMAIN tried : tried[i].key # <<>> =>
    LET r == tried[i].task.ref
        key == tried[i].key IN
    \/ IsPrefix(key, r.name) /\ (key = r.name \/ r.name[Len(key) + 1] = "/")
    \/ KeyHost(key) = NormalRegistry(r)

\* A pull asks where the configuration sends it and shows each registry what is for it
\* alone (registry/mod.rs, auth/auth_config.rs).
TriedAsConfigured == TriedAsRulesSay /\ SkippedForItsOwn /\ CredentialsStayHome
=============================================================================

--------------------------- MODULE ImageReference ---------------------------
(***************************************************************************)
(* Image references and the names that policies, signature stores,         *)
(* registry rules and credentials are looked up by (image-rs,              *)
(* signature/image).  A name is the sequence of its parts and separators,  *)
(* <<"example", ".", "com", "/", "ns", "/", "app">>, so that what the code *)
(* cuts at a separator, or finds anywhere in a string, is cut and found    *)
(* here.  A reference has a name, which starts with the registry, and a    *)
(* tag, a digest or both.                                                  *)
(***************************************************************************)
EXTENDS Naturals, Sequences, SequencesExt, FiniteSets

CONSTANT Parts   \* what names are sequences of: separators, and what is between them

\* The tag or digest of a reference that has none.
Absent == ""

Separators == {"/", ":", "@", ".", "*"}

ASSUME PartsAssumption == Separators \cup {"docker", "index", "io", "library"} \subseteq Parts

DockerIo == <<"docker", ".", "io">>
DockerIndex == <<"index", ".", "docker", ".", "io">>

\* A list of something.
IsSeqOf(s) == s \in Seq(ToSet(s))

\* Reference::whole.
Whole(r) == r.name \o (IF r.tag = Absent THEN <<>> ELSE <<":", r.tag>>)
                   \o (IF r.digest = Absent THEN <<>> ELSE <<"@", r.digest>>)

FirstAt(s, sep) == SelectInSeq(s, LAMBDA x : x = sep)
LastAt(s, sep) == SelectLastInSeq(s, LAMBDA x : x = sep)
Before(s, i) == SubSeq(s, 1, i - 1)
After(s, i) == SubSeq(s, i + 1, Len(s))

RegistryOf(r) == Before(r.name, FirstAt(r.name, "/"))
RepositoryOf(r) == After(r.name, FirstAt(r.name, "/"))

\* get_image_repository_full_name.
RepositoryFullName(r) == r.name

\* A first component is a registry if it has a domain or a port, or is this host.
IsHost(s) == {".", ":"} \cap ToSet(s) # {} \/ s = <<"localhost">>

\* A name with its registry: Docker's for one without, where what is in no namespace is
\* in "library".
FullName(name) ==
  LET slash == FirstAt(name, "/")
      hosted == slash # 0 /\ IsHost(Before(name, slash))
      registry == IF hosted /\ Before(name, slash) # DockerIndex THEN Before(name, slash) ELSE DockerIo
      repository == IF hosted THEN After(name, slash) ELSE name
      library == IF registry = DockerIo /\ "/" \notin ToSet(repository) THEN <<"library", "/">> ELSE <<>> IN
  registry \o <<"/">> \o (library \o repository)

\* A reference: its registry in its name, no "@" there and no ":" in its last part, and a
\* tag, a digest or both.
IsReference(r) ==
  /\ r.name \in Seq(Parts) /\ {r.tag, r.digest} \subseteq Parts \ Separators
  /\ Len(r.name) > 0 /\ Head(r.name) \notin Separators /\ "@" \notin ToSet(r.name)
  /\ \E i \in DOMAIN r.name : r.name[i] = "/" /\ \A j \in i .. Len(r.name) : r.name[j] # ":"
  /\ FullName(r.name) = r.name
  /\ r.tag # Absent \/ r.digest # Absent

\* What is before a digest; where a tag starts, 0 without one; the name before both.
Undigested(s) == IF LastAt(s, "@") = 0 THEN s ELSE Before(s, LastAt(s, "@"))
TagAt(s) == IF LastAt(s, ":") > LastAt(s, "/") THEN LastAt(s, ":") ELSE 0
NameOf(s) ==
  LET front == Undigested(s) IN IF TagAt(front) = 0 THEN front ELSE Before(front, TagAt(front))

\* Names Reference::try_from reads: separators only between parts, a ":" in a name only
\* before the port of its registry, a digest and a tag of one part.
IsName(s) ==
  LET name == NameOf(s)
      front == Undigested(s) IN
  /\ name # <<>> /\ {Head(name), Last(name), Last(s)} \cap Separators = {}
  /\ {"@", "*"} \cap ToSet(name) = {}
  /\ \A i \in 1 .. Len(name) - 1 : ~ {name[i], name[i + 1]} \subseteq Separators
  /\ \A i \in DOMAIN name : name[i] = ":" => i = LastAt(name, ":") /\ FirstAt(name, "/") = i + 2
  /\ LastAt(s, "@") \in {0, Len(s) - 1} /\ TagAt(front) \in {0, Len(front) - 1}

\* Reference::try_from: the full name, and a digest and a tag; without both, "latest".
Parse(s) ==
  LET front == Undigested(s) IN
  [name |-> FullName(NameOf(s)),
   tag |-> IF TagAt(front) # 0 THEN Last(front) ELSE IF front = s THEN "latest" ELSE Absent,
   digest |-> IF front = s THEN Absent ELSE Last(s)]

\* Where a separator is, from the start on.
Cuts(s, sep) ==
  LET at == {i \in 1 .. Len(s) : s[i] = sep} IN
  [k \in 1 .. Cardinality(at) |-> CHOOSE i \in at : Cardinality({j \in at : j <= i}) = k]

\* A name and what is before each of its "/", longest first.
Parents(s) ==
  LET cuts == Cuts(s, "/") IN
  <<s>> \o [k \in 1 .. Len(cuts) |-> Before(s, cuts[Len(cuts) + 1 - k])]

\* "*." and what follows each "." of a host, longest first.
Wildcards(host) ==
  LET cuts == Cuts(host, ".") IN
  [k \in 1 .. Len(cuts) |-> <<"*">> \o SubSeq(host, cuts[k], Len(host))]

\* The registry without its port.
HostOf(r) ==
  LET reg == RegistryOf(r) IN
  IF LastAt(reg, ":") # 0 THEN Before(reg, LastAt(reg, ":")) ELSE reg

\* get_image_namespaces: the repository, the namespaces it is in, its registry, and the
\* domains its host is in.
Namespaces(r) == Parents(RepositoryFullName(r)) \o Wildcards(HostOf(r))
=============================================================================

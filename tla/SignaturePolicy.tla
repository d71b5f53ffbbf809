--------------------------- MODULE SignaturePolicy ---------------------------
(***************************************************************************)
(* The check of an image's signatures (image-rs, signature): the policy    *)
(* gives the requirements of the most specific scope the image is in, and  *)
(* each is met in turn: simple signing looks for one good signature in the *)
(* registry and in a signature store, cosign asks the registry what the    *)
(* image's name stands for now and judges the payloads signed for it.      *)
(*                                                                         *)
(* Keys, digests and URLs are model values; a signature is what its        *)
(* packets say.  The registry, the key ring library and sigstore-rs are    *)
(* external.  A build without the feature of a requirement rejects it.     *)
(***************************************************************************)
EXTENDS ImageReference, FiniteSetsExt, TLC

CONSTANTS
  ImageDigests,       \* digests: a function to records of algorithm, hex and length
  Policies,      \* policies: scopes (a function from names, <<>> being "") and default
  SigstoreFiles, \* sequences of sigstore configurations: the one given, then the files
  Checks,        \* what is checked: reference, digests (0 is none), credentials, and the
                 \* signatures in the registry, in the store, and in cosign's image
  Resources      \* what the resource provider has: a function from paths to key rings

\* Scopes are names, requirements are in sequences, and what is checked has a reference.
ASSUME SignatureAssumption ==
  /\ \A p \in Policies : /\ DOMAIN p.scopes \subseteq Seq(Parts) /\ IsSeqOf(p.default)
                         /\ \A n \in DOMAIN p.scopes : IsSeqOf(p.scopes[n])
  /\ \A c \in Checks : IsReference(c.ref)

VARIABLES
  sigPc,         \* "begin", "ready", "checking", "cosign", "allowed", "denied" or "error"
  validator,     \* SignatureValidator: policy, the files merged, and the configuration
  image,         \* Image: reference, manifest and list digests, credentials, signatures
  todo,          \* the requirements still to be met
  named,         \* what the registry says the image's name stands for: the digests
  payloads       \* cosign: the layers of the signature image, a set

sigVars == <<sigPc, validator, image, todo, named, payloads>>

NoImage == [ref |-> [name |-> <<>>, tag |-> Absent, digest |-> Absent], digest |-> 0, list |-> 0,
            auth |-> "", registry |-> {}, store |-> {}, cosign |-> <<>>]

SignatureInit ==
  /\ sigPc = "begin"
  /\ validator = [policy |-> [scopes |-> <<>>, default |-> <<>>], files |-> <<>>, store |-> <<>>]
  /\ image = NoImage
  /\ todo = <<>>
  /\ named = {}
  /\ payloads = {}

-----------------------------------------------------------------------------
(* The validator *)

\* SigstoreConfig::update_self: <<>> stands for the default location; what both have
\* must be the same.
Merge(config, more) == more @@ config
Mergeable(config, more) == \A n \in DOMAIN config \cap DOMAIN more : config[n] = more[n]

\* new_from_configs merges the files of the directory as it finds them, and
\* update_from_path what comes out into the configuration given.
MergeAll(files) ==
  LET step(acc, f) == IF acc.ok /\ Mergeable(acc.config, f)
                      THEN [ok |-> TRUE, config |-> Merge(acc.config, f)]
                      ELSE [acc EXCEPT !.ok = FALSE] IN
  FoldLeft(step, [ok |-> TRUE, config |-> <<>>], Tail(files) \o <<Head(files)>>)

\* SignatureValidator::new: a policy that cannot be parsed, or stores that contradict
\* one another, and there is no validator.
NewValidator(policy, files, legal) ==
  /\ sigPc = "begin"
  /\ LET merged == MergeAll(files) IN
     IF legal /\ merged.ok
     THEN /\ validator' = [policy |-> policy, files |-> files, store |-> merged.config]
          /\ sigPc' = "ready"
     ELSE sigPc' = "error" /\ UNCHANGED validator
  /\ UNCHANGED <<image, todo, named, payloads>>

-----------------------------------------------------------------------------
(* Which requirements *)

DigestLengths == [sha256 |-> 64, sha384 |-> 96, sha512 |-> 128]
IsDigest(d) == d.hex /\ d.algorithm \in DOMAIN DigestLengths /\ d.length = DigestLengths[d.algorithm]

\* The first of the names that has an entry.
Entry(names, table) == names[Min({i \in DOMAIN names : names[i] \in DOMAIN table})]
HasEntry(names, table) == \E i \in DOMAIN names : names[i] \in DOMAIN table

\* The image itself first, then the namespaces it is in.
LookupNames(r) == <<Whole(r)>> \o Namespaces(r)

\* Policy::requirements_for_image.
RequirementsFor(policy, r) ==
  LET scopes == policy.scopes IN
  IF HasEntry(LookupNames(r), scopes) THEN scopes[Entry(LookupNames(r), scopes)]
  ELSE IF <<>> \in DOMAIN scopes THEN scopes[<<>>]
  ELSE policy.default

\* check_image_signature of an image whose manifest (and list of manifests) was pulled.
CheckImage(c) ==
  /\ sigPc = "ready"
  /\ named' = {c.digest, c.list} \ {0}
  /\ IF \A d \in named' : IsDigest(ImageDigests[d])
     THEN /\ image' = c
          /\ todo' = RequirementsFor(validator.policy, c.ref)
          /\ sigPc' = "checking"
     ELSE /\ sigPc' = "error"
          /\ UNCHANGED <<image, todo>>
  /\ UNCHANGED <<validator, payloads>>

\* The image is given another manifest in the registry while it is checked.
Retag(d) ==
  /\ sigPc = "checking"
  /\ named' = {d}
  /\ d \notin named
  /\ UNCHANGED <<sigPc, validator, image, todo, payloads>>

Deny == sigPc' = "denied" /\ UNCHANGED <<validator, image, todo, named, payloads>>
Met == /\ todo' = Tail(todo)
       /\ sigPc' = "checking"
       /\ UNCHANGED <<validator, image, named, payloads>>

Allowed ==
  /\ sigPc = "checking"
  /\ todo = <<>>
  /\ sigPc' = "allowed"
  /\ UNCHANGED <<validator, image, todo, named, payloads>>

Due(type) == sigPc = "checking" /\ todo # <<>> /\ Head(todo).type = type
Accept == Due("insecureAcceptAnything") /\ Met
Reject == Due("reject") /\ Deny

-----------------------------------------------------------------------------
(* What a signature is of *)

\* remapIdentity: the prefix is one of the string.
Remapped(rule, r) ==
  IF IsPrefix(rule.prefix, Whole(r))
  THEN rule.signedPrefix \o SubSeq(Whole(r), Len(rule.prefix) + 1, Len(Whole(r)))
  ELSE Whole(r)

\* The reference has a tag and is the one signed, or has a digest and its repository.
SameOrOfRepository(r, signed) ==
  /\ r.tag # Absent => Whole(r) = signed
  /\ r.digest # Absent => IsName(signed) /\ r.name = Parse(signed).name

\* PolicyReqMatchType::matches_docker_reference.
Matches(rule, r, signed) ==
  CASE rule.type = "matchExact" -> r.digest = Absent /\ Whole(r) = signed
    [] rule.type = "matchRepoDigestOrExact" -> SameOrOfRepository(r, signed)
    [] rule.type = "matchRepository" -> IsName(signed) /\ r.name = Parse(signed).name
    [] rule.type = "exactReference" -> signed = rule.reference
    [] rule.type = "exactRepository" -> IsName(signed) /\ Parse(signed).name = rule.repository
    [] rule.type = "remapIdentity" -> IsName(Remapped(rule, r))
                                      /\ SameOrOfRepository(Parse(Remapped(rule, r)), signed)

Identity(req) == IF req.identity.type = "none" THEN [type |-> "matchRepoDigestOrExact"] ELSE req.identity

\* The keys of a requirement are at a path or in its data, never both.
HasKey(req) == (req.keyPath = "") # (req.keyData = <<>>)
KeysOf(req) == IF req.keyData # <<>> THEN req.keyData
               ELSE IF req.keyPath \in DOMAIN Resources THEN Resources[req.keyPath] ELSE <<>>

-----------------------------------------------------------------------------
(* Simple signing *)

\* get_sigs_from_specific_sigstore: files only.
StoreOf == IF HasEntry(LookupNames(image.ref), validator.store)
           THEN validator.store[Entry(LookupNames(image.ref), validator.store)]
           ELSE IF <<>> \in DOMAIN validator.store THEN validator.store[<<>>] ELSE "none"

\* get_signatures: with X-R-S-S the registry's signatures, which cost credentials; the
\* store's, unless there is no store configured and the registry has some.
RegistryServes == image.registry # {}
SignaturesFound ==
  IF RegistryServes /\ image.auth # "basic" THEN [ok |-> FALSE, sigs |-> {}]
  ELSE IF validator.store = <<>> THEN [ok |-> RegistryServes, sigs |-> image.registry]
  ELSE [ok |-> StoreOf = "file", sigs |-> image.registry \cup image.store]

\* verify_sig_and_extract_payload: the first key of the ring that verifies it must be
\* the one it names as its issuer.
Verified(s, ring) == s.packets /\ s.key \in ToSet(ring) /\ s.issuer = s.key /\ s.json

\* judge_single_signature.
Judged(s, req, ring) ==
  /\ Verified(s, ring)
  /\ Matches(Identity(req), image.ref, s.identity)
  /\ s.digest = image.digest

\* simple_signing_allows_image: one good signature is enough.
SimpleSigning ==
  /\ Due("signedBy")
  /\ LET req == Head(todo) IN
     IF /\ req.keyType = "GPGKeys" /\ HasKey(req) /\ KeysOf(req) # <<>>
        /\ SignaturesFound.ok
        /\ \E s \in SignaturesFound.sigs : Judged(s, req, KeysOf(req))
     THEN Met ELSE Deny

-----------------------------------------------------------------------------
(* Cosign *)

\* check_reference_rule_types: a cosign signature names a repository only.
CosignRule(req) == req.identity.type \in {"none", "matchRepository", "exactRepository"}

\* verify_signature_and_get_payload: the signatures of what the name stands for now, one
\* of which the key must have made; the payloads of all of them are looked at.
FetchPayloads(d) ==
  /\ Due("sigstoreSigned")
  /\ d \in named
  /\ LET req == Head(todo)
         layers == {s \in ToSet(image.cosign) : s.of = d} IN
     IF /\ CosignRule(req) /\ HasKey(req) /\ KeysOf(req) # <<>>
        /\ \E s \in layers : s.key = Head(KeysOf(req))
     THEN /\ payloads' = layers
          /\ sigPc' = "cosign"
          /\ UNCHANGED <<validator, image, todo, named>>
     ELSE Deny

\* Mutant of JudgePayloads: the digests of the payloads are those just looked up.
JudgeStalePayloads ==
  /\ sigPc = "cosign"
  /\ IF \A s \in payloads : s.digest \in named THEN Met ELSE Deny

\* check_image_signature: each payload is of this manifest, or of the list it is in.
JudgePayloads ==
  /\ sigPc = "cosign"
  /\ IF \A s \in payloads :
          /\ Head(todo).identity.type # "none" => Matches(Head(todo).identity, image.ref, s.identity)
          /\ s.digest \in {image.digest, image.list} \ {0}
     THEN Met ELSE Deny

-----------------------------------------------------------------------------

SignatureNext ==
  \/ \E p \in Policies, f \in SigstoreFiles, legal \in BOOLEAN : NewValidator(p, f, legal)
  \/ \E c \in Checks : CheckImage(c)
  \/ \E d \in DOMAIN ImageDigests : Retag(d) \/ FetchPayloads(d)
  \/ Accept \/ Reject \/ SimpleSigning \/ JudgePayloads \/ Allowed

SignatureSpec == SignatureInit /\ [][SignatureNext]_sigVars

-----------------------------------------------------------------------------
(* Properties *)

\* The scope of the policy that says most about an image: of those that are the image,
\* a prefix of its name that ends at a "/" or at its end, or a domain of its host, the
\* longest (a domain is less than any prefix).
Covers(scope, r) ==
  \/ scope = Whole(r)
  \/ IsPrefix(scope, r.name) /\ scope # <<>> /\ (Len(scope) = Len(r.name) \/ r.name[Len(scope) + 1] = "/")
  \/ /\ Len(scope) > 1 /\ scope[1] = "*" /\ scope[2] = "."
     /\ \E n \in 1 .. Len(HostOf(r)) - 1 : Tail(scope) = After(HostOf(r), n)
SaysNoMore(s, t) ==
  \/ s[1] = "*" /\ t[1] # "*"
  \/ (s[1] = "*" <=> t[1] = "*") /\ Len(s) <= Len(t)

MeantRequirements(policy, r) ==
  LET covering == {s \in DOMAIN policy.scopes \ {<<>>} : Covers(s, r)} IN
  IF covering # {} THEN policy.scopes[CHOOSE s \in covering : \A t \in covering : SaysNoMore(t, s)]
  ELSE IF <<>> \in DOMAIN policy.scopes THEN policy.scopes[<<>>] ELSE policy.default

\* The names a signature may be of for the image, unless the requirement itself names
\* another: the one asked for, or, when that is by digest, any of its repository.
OfName(req, s) ==
  /\ req.identity.type \in {"none", "matchExact", "matchRepoDigestOrExact", "matchRepository"} =>
       Parse(s.identity).name = image.ref.name
  /\ \/ req.identity.type = "matchExact"
     \/ (req.identity.type \in {"none", "matchRepoDigestOrExact"} /\ image.ref.digest = Absent)
     => s.identity = Whole(image.ref)

IsMet(req) ==
  /\ req.type # "reject"
  /\ req.type = "signedBy" =>
       \E s \in image.registry \cup image.store :
         /\ s.key \in ToSet(KeysOf(req)) /\ s.issuer = s.key
         /\ s.digest = image.digest
         /\ OfName(req, s)
  /\ req.type = "sigstoreSigned" =>
       \E s \in ToSet(image.cosign) :
         /\ s.key = Head(KeysOf(req))
         /\ s.digest \in {image.digest, image.list}
         /\ req.identity.type # "none" => OfName(req, s)

\* An image that is allowed meets every requirement of the most specific scope it is in:
\* none rejects it, and for each there is a signature by a key of the requirement that
\* is of this very manifest (or its list) and of the name the image is asked for by,
\* whatever the name has come to stand for in the registry meanwhile.
AllowedMeetsPolicy ==
  sigPc = "allowed" =>
    LET reqs == MeantRequirements(validator.policy, image.ref) IN
    \A i \in DOMAIN reqs : IsMet(reqs[i])
=============================================================================

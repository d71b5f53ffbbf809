-------------------------- MODULE ImagePartsProofs --------------------------
(***************************************************************************)
(* What holds of the parts of image-rs for every value of their constants: *)
(* the policy a client is built with, the stream of a layer, the devices   *)
(* of mounted layers, the requirements an allowed image meets, where an    *)
(* image is asked for.                                                     *)
(***************************************************************************)
EXTENDS ImageResources, LayerStream, ImageBundle, SignaturePolicy, RegistryTasks,
        SequenceTheorems, FiniteSetTheorems, WellFoundedInduction, TLAPS

-----------------------------------------------------------------------------
(* Part 1: resources.  A call carries what it read under the URI it was    *)
(* asked for, the call of the builder is for the step it is at, and once   *)
(* the step of the policy is past there is a whole policy if one is named. *)

KnownUris == ResourceUris \cup {None, Inline} \cup UNION {UrisOf(c) : c \in LegalConfigs}
Readable == KnownUris \X Nat
Reads == {"auth", "sigstore", "policy", "registry"}
CallPcs == {"idle", "called", "missed", "downloaded", "writing", "done", "failed"}

ResTypeOK ==
  /\ resPc \in {"down", "building", "ready", "failed"}
  /\ imageCfg \in LegalConfigs
  /\ step \in Reads \cup {"stores"}
  /\ taken \in [Reads -> Readable]
  /\ calls \in [Callers -> [pc : CallPcs, uri : KnownUris, data : Readable]]
  /\ published \in [ResourceUris -> Nat]

\* A file holds what was read under its own URI, or is torn.
Kept == \A u \in DOMAIN downloads : downloads[u] \in Readable /\ downloads[u][1] = u

\* What a call has read it was asked for.
Asked ==
  \A c \in Callers :
    /\ calls[c].pc = "called" /\ (IsKbs(calls[c].uri) \/ IsFile(calls[c].uri)) => calls[c].uri \in ResourceUris
    /\ calls[c].pc \in {"missed", "downloaded", "writing"} => calls[c].uri \in ResourceUris
    /\ calls[c].pc \in {"downloaded", "writing", "done"} => calls[c].data[1] = calls[c].uri

\* The builder reads for the step it is at.
Building ==
  /\ calls["builder"].pc # "idle" =>
       /\ resPc = "building" /\ step \in Reads
       /\ calls["builder"].uri = UriOf(step) /\ UriOf(step) # None
  /\ resPc = "ready" => step = "stores"

PolicyTaken ==
  /\ (taken["policy"] = NoContent) <=> (imageCfg.policy_uri = None /\ ~ imageCfg.policy)
  /\ imageCfg.policy_uri # None => /\ taken["policy"][1] = imageCfg.policy_uri
                                   /\ taken["policy"][2] > 0

PolicyRead == resPc \in {"building", "ready"} /\ step \in {"registry", "stores"} => PolicyTaken

ResInv == ResTypeOK /\ Kept /\ Asked /\ Building /\ PolicyRead
-----------------------------------------------------------------------------

LEMMA UrisKnown ==
  ResTypeOK => /\ UrisOf(imageCfg) \subseteq KnownUris
               /\ \A s \in Reads : UriOf(s) \in KnownUris
               /\ \A s \in Reads : IsKbs(UriOf(s)) \/ IsFile(UriOf(s)) => UriOf(s) \in ResourceUris
<1> SUFFICES ASSUME ResTypeOK
             PROVE  /\ UrisOf(imageCfg) \subseteq KnownUris
                    /\ \A s \in Reads : UriOf(s) \in KnownUris
                    /\ \A s \in Reads : IsKbs(UriOf(s)) \/ IsFile(UriOf(s)) => UriOf(s) \in ResourceUris
  OBVIOUS
<1>1. imageCfg \in LegalConfigs
  BY DEF ResTypeOK
<1>2. UrisOf(imageCfg) \subseteq KnownUris
  BY <1>1 DEF KnownUris
<1>3. \A s \in Reads : UriOf(s) \in UrisOf(imageCfg) \cup {None}
  BY DEF UriOf, UrisOf, Reads
<1>4. None \in KnownUris /\ ~ (IsKbs(None) \/ IsFile(None))
  BY DEF KnownUris, None, IsKbs, IsFile
<1>5. \A u \in UrisOf(imageCfg) : IsKbs(u) \/ IsFile(u) => u \in ResourceUris
  BY <1>1, ImageResourcesAssumption
<1> QED
  BY <1>2, <1>3, <1>4, <1>5

LEMMA NothingIsReadable == NoContent \in Readable /\ <<Inline, 1>> \in Readable
BY DEF NoContent, Readable, KnownUris, None, Inline

LEMMA ResInitInv == ResourcesInit => ResInv
<1> SUFFICES ASSUME ResourcesInit PROVE ResInv
  OBVIOUS
<1> USE DEF ResourcesInit
<1>1. ResTypeOK
  <2>1. None \in KnownUris
    BY DEF KnownUris
  <2>2. taken \in [Reads -> Readable]
    BY NothingIsReadable DEF NothingTaken, Reads
  <2>3. calls \in [Callers -> [pc : CallPcs, uri : KnownUris, data : Readable]]
    BY <2>1, NothingIsReadable DEF NoCall, CallPcs
  <2> QED
    BY <2>2, <2>3 DEF ResTypeOK, LegalConfigs, Reads
<1>2. Kept
  BY DEF Kept
<1>3. Asked
  BY DEF Asked, NoCall
<1>4. Building /\ PolicyRead
  BY DEF Building, PolicyRead, NoCall, Callers
<1> QED
  BY <1>1, <1>2, <1>3, <1>4 DEF ResInv

\* The steps of calls: what becomes of one caller's record.
CallOk(r) ==
  /\ r \in [pc : CallPcs, uri : KnownUris, data : Readable]
  /\ r.pc = "called" /\ (IsKbs(r.uri) \/ IsFile(r.uri)) => r.uri \in ResourceUris
  /\ r.pc \in {"missed", "downloaded", "writing"} => r.uri \in ResourceUris
  /\ r.pc \in {"downloaded", "writing", "done"} => r.data[1] = r.uri

LEMMA CallsOk == ResTypeOK /\ Asked => \A c \in Callers : CallOk(calls[c])
BY DEF ResTypeOK, Asked, CallOk

\* Where all that a step changes of the calls is one of them, and it stays for what the
\* builder reads, the invariant of the calls stays.
LEMMA OneCall ==
  ASSUME ResTypeOK, Asked, Building, NEW c \in Callers, NEW r,
         calls' = [calls EXCEPT ![c] = r], CallOk(r),
         UNCHANGED <<resPc, imageCfg, step, taken, published>>,
         c = "builder" => r.pc # "idle" /\ r.uri = calls[c].uri /\ calls[c].pc # "idle"
  PROVE  ResTypeOK' /\ Asked' /\ Building'
<1>1. calls \in [Callers -> [pc : CallPcs, uri : KnownUris, data : Readable]]
  BY DEF ResTypeOK
<1>2. r \in [pc : CallPcs, uri : KnownUris, data : Readable]
  BY DEF CallOk
<1>3. calls' \in [Callers -> [pc : CallPcs, uri : KnownUris, data : Readable]]
  BY <1>1, <1>2
<1>4. \A d \in Callers : calls'[d] = IF d = c THEN r ELSE calls[d]
  BY <1>1
<1>5. ResTypeOK'
  BY <1>3 DEF ResTypeOK
<1>6. Asked'
  BY <1>4 DEF Asked, CallOk
<1>7. Building'
  <2>1. "builder" \in Callers
    BY DEF Callers
  <2>2. UriOf(step)' = UriOf(step)
    BY DEF UriOf
  <2>3. CASE c = "builder"
    BY <2>1, <2>2, <2>3, <1>4 DEF Building
  <2>4. CASE c # "builder"
    BY <2>1, <2>2, <2>4, <1>4 DEF Building
  <2> QED
    BY <2>3, <2>4
<1> QED
  BY <1>5, <1>6, <1>7

LEMMA CallRecords ==
  ASSUME ResTypeOK, NEW c \in Callers
  PROVE  /\ \A d : Answered(c, d) =>
              calls' = [calls EXCEPT ![c] = [pc |-> "done", uri |-> calls[c].uri, data |-> d]]
         /\ CallFails(c) => calls' = [calls EXCEPT ![c] = [pc |-> "failed", uri |-> calls[c].uri,
                                                           data |-> calls[c].data]]
         /\ \A p, d : calls' = [calls EXCEPT ![c].pc = p, ![c].data = d] =>
              calls' = [calls EXCEPT ![c] = [pc |-> p, uri |-> calls[c].uri, data |-> d]]
         /\ \A p : calls' = [calls EXCEPT ![c].pc = p] =>
              calls' = [calls EXCEPT ![c] = [pc |-> p, uri |-> calls[c].uri, data |-> calls[c].data]]
<1>1. calls \in [Callers -> [pc : CallPcs, uri : KnownUris, data : Readable]]
  BY DEF ResTypeOK
<1>2. calls[c] \in [pc : CallPcs, uri : KnownUris, data : Readable]
  BY <1>1
<1>3. ASSUME NEW p, NEW d
      PROVE  [calls EXCEPT ![c].pc = p, ![c].data = d] =
             [calls EXCEPT ![c] = [pc |-> p, uri |-> calls[c].uri, data |-> d]]
  <2> DEFINE r == [pc |-> p, uri |-> calls[c].uri, data |-> calls[c].data]
  <2>1. [calls EXCEPT ![c].pc = p, ![c].data = d] =
        [[calls EXCEPT ![c].pc = p] EXCEPT ![c].data = d]
    OBVIOUS
  <2>2. [calls EXCEPT ![c].pc = p] = [calls EXCEPT ![c] = r]
    <3>1. [calls[c] EXCEPT !.pc = p] = r
      BY <1>2
    <3> QED
      BY <1>1, <3>1
  <2>3. [r EXCEPT !.data = d] = [pc |-> p, uri |-> calls[c].uri, data |-> d]
    OBVIOUS
  <2> HIDE DEF r
  <2>4. [[calls EXCEPT ![c] = r] EXCEPT ![c].data = d] = [calls EXCEPT ![c] = [r EXCEPT !.data = d]]
    BY <1>1
  <2> QED
    BY <2>1, <2>2, <2>3, <2>4
<1>4. ASSUME NEW p
      PROVE  [calls EXCEPT ![c].pc = p] =
             [calls EXCEPT ![c] = [pc |-> p, uri |-> calls[c].uri, data |-> calls[c].data]]
  <2>1. [calls[c] EXCEPT !.pc = p] = [pc |-> p, uri |-> calls[c].uri, data |-> calls[c].data]
    BY <1>2
  <2> QED
    BY <1>1, <2>1
<1> QED
  BY <1>3, <1>4 DEF Answered, CallFails

LEMMA ContentReadable ==
  ResTypeOK => \A u \in ResourceUris : Content(u) \in Readable /\ Content(u)[1] = u
BY DEF ResTypeOK, Content, Readable, KnownUris

LEMMA StepOfPublish ==
  ASSUME ResInv, NEW u \in ResourceUris, PublishResource(u)
  PROVE  ResInv'
<1>1. ResTypeOK'
  BY DEF ResInv, ResTypeOK, PublishResource
<1>2. Kept' /\ Asked' /\ Building' /\ PolicyRead'
  BY DEF ResInv, PublishResource, Kept, Asked, Building, PolicyRead, PolicyTaken, UriOf
<1> QED
  BY <1>1, <1>2 DEF ResInv

LEMMA StepOfCall ==
  ASSUME ResInv, NEW c \in Callers, CallSteps(c)
  PROVE  ResInv'
<1> USE DEF ResInv
<1>1. UNCHANGED <<resPc, imageCfg, step, taken, downloads, published>>
  BY DEF CallSteps
<1>2. CallOk(calls[c])
  BY CallsOk
<1>3. calls[c].pc \in {"called", "missed"}
  BY DEF CallSteps, ReadFile, RefuseScheme, CheckLocal, Download
<1> DEFINE u == calls[c].uri
           Kept3 == ResTypeOK' /\ Asked' /\ Building'
           Failed == [pc |-> "failed", uri |-> u, data |-> calls[c].data]
           Missed == [pc |-> "missed", uri |-> u, data |-> calls[c].data]
           Done(d) == [pc |-> "done", uri |-> u, data |-> d]
           Downloaded(d) == [pc |-> "downloaded", uri |-> u, data |-> d]
<1>4. u \in KnownUris /\ calls[c].data \in Readable
  BY <1>2 DEF CallOk
<1>a. ASSUME NEW r, calls' = [calls EXCEPT ![c] = r], CallOk(r), r.uri = u, r.pc # "idle"
      PROVE  Kept3
  BY <1>a, <1>1, <1>3, OneCall
<1> HIDE DEF Kept3
<1>5. CallFails(c) => Kept3
  <2>1. CallOk(Failed)
    BY <1>4 DEF CallOk, CallPcs
  <2>2. CallFails(c) => calls' = [calls EXCEPT ![c] = Failed]
    BY CallRecords
  <2>3. Failed.uri = u /\ Failed.pc # "idle"
    OBVIOUS
  <2> HIDE DEF Failed
  <2> QED
    BY <2>1, <2>2, <2>3, <1>a
<1>6. ASSUME NEW d \in Readable, d[1] = u, Answered(c, d) PROVE Kept3
  <2>1. CallOk(Done(d))
    BY <1>4, <1>6 DEF CallOk, CallPcs
  <2>2. calls' = [calls EXCEPT ![c] = Done(d)]
    BY <1>6, CallRecords
  <2>3. Done(d).uri = u /\ Done(d).pc # "idle"
    OBVIOUS
  <2> HIDE DEF Done
  <2> QED
    BY <2>1, <2>2, <2>3, <1>a
<1>7. ASSUME ReadFile(c) PROVE Kept3
  <2>1. u \in ResourceUris
    BY <1>2, <1>7 DEF CallOk, ReadFile
  <2>2. Content(u) \in Readable /\ Content(u)[1] = u
    BY <2>1, ContentReadable
  <2>3. CallFails(c) \/ Answered(c, Content(u))
    BY <1>7 DEF ReadFile
  <2> QED
    BY <2>2, <2>3, <1>5, <1>6
<1>8. ASSUME RefuseScheme(c) PROVE Kept3
  BY <1>5, <1>8 DEF RefuseScheme
<1>9. ASSUME CheckLocal(c) PROVE Kept3
  <2>1. CASE u \in DOMAIN downloads
    <3>1. Answered(c, downloads[u])
      BY <1>9, <2>1 DEF CheckLocal
    <3>2. downloads[u] \in Readable /\ downloads[u][1] = u
      BY <2>1 DEF Kept
    <3> QED
      BY <3>1, <3>2, <1>6
  <2>2. CASE u \notin DOMAIN downloads
    <3>1. calls' = [calls EXCEPT ![c] = Missed]
      BY <1>9, <2>2, CallRecords DEF CheckLocal
    <3>2. CallOk(Missed)
      BY <1>2, <1>4, <1>9 DEF CallOk, CallPcs, CheckLocal
    <3>3. Missed.uri = u /\ Missed.pc # "idle"
      OBVIOUS
    <3> HIDE DEF Missed
    <3> QED
      BY <3>1, <3>2, <3>3, <1>a
  <2> QED
    BY <2>1, <2>2
<1>10. ASSUME \E ok \in BOOLEAN : Download(c, ok) PROVE Kept3
  <2>1. u \in ResourceUris
    BY <1>2, <1>10 DEF CallOk, Download
  <2>2. Content(u) \in Readable /\ Content(u)[1] = u
    BY <2>1, ContentReadable
  <2>3. CallOk(Downloaded(Content(u)))
    BY <2>1, <2>2, <1>4 DEF CallOk, CallPcs
  <2>4. CallFails(c) \/ calls' = [calls EXCEPT ![c] = Downloaded(Content(u))]
    BY <1>10, CallRecords DEF Download
  <2>5. Downloaded(Content(u)).uri = u /\ Downloaded(Content(u)).pc # "idle"
    OBVIOUS
  <2> HIDE DEF Downloaded
  <2> QED
    BY <2>3, <2>4, <2>5, <1>5, <1>a
<1>11. Kept3
  BY <1>7, <1>8, <1>9, <1>10 DEF CallSteps
<1>12. ResTypeOK' /\ Asked' /\ Building'
  BY <1>11 DEF Kept3
<1>13. Kept' /\ PolicyRead'
  BY <1>1 DEF Kept, PolicyRead, PolicyTaken
<1> QED
  BY <1>12, <1>13

LEMMA StepOfFailure ==
  ASSUME ResInv, NEW c \in Callers, CallFails(c), calls[c].pc # "idle",
         UNCHANGED <<resPc, imageCfg, step, taken, downloads, published>>
  PROVE  ResInv'
<1> DEFINE r == [pc |-> "failed", uri |-> calls[c].uri, data |-> calls[c].data]
<1>1. CallOk(calls[c])
  BY CallsOk DEF ResInv
<1>2. CallOk(r) /\ r.pc # "idle" /\ r.uri = calls[c].uri
  BY <1>1 DEF CallOk, CallPcs
<1>3. calls' = [calls EXCEPT ![c] = r]
  BY CallRecords DEF ResInv
<1> HIDE DEF r
<1>4. ResTypeOK' /\ Asked' /\ Building'
  BY <1>2, <1>3, OneCall DEF ResInv
<1>5. Kept' /\ PolicyRead'
  BY DEF ResInv, Kept, PolicyRead, PolicyTaken
<1> QED
  BY <1>4, <1>5 DEF ResInv

LEMMA StepOfOpenFile ==
  ASSUME ResInv, NEW c \in Callers, NEW ok \in BOOLEAN, OpenFile(c, ok)
  PROVE  ResInv'
<1> DEFINE u == calls[c].uri
           r == [pc |-> "writing", uri |-> u, data |-> calls[c].data]
<1>1. CallOk(calls[c]) /\ calls[c].pc = "downloaded"
  BY CallsOk DEF ResInv, OpenFile
<1>2. CASE ~ ok
  BY <1>1, <1>2, StepOfFailure DEF OpenFile
<1>3. CASE ok
  <2>1. CallOk(r) /\ r.pc # "idle" /\ r.uri = calls[c].uri
    BY <1>1 DEF CallOk, CallPcs
  <2>2. calls' = [calls EXCEPT ![c] = r]
    BY <1>3, CallRecords DEF ResInv, OpenFile
  <2> HIDE DEF r
  <2>3. ResTypeOK' /\ Asked' /\ Building'
    BY <1>1, <2>1, <2>2, OneCall DEF ResInv, OpenFile
  <2>4. Kept'
    <3>1. downloads' = [v \in DOMAIN downloads \cup {u} |-> IF v = u THEN <<v, 0>> ELSE downloads[v]]
      BY <1>3 DEF OpenFile
    <3>2. <<u, 0>> \in Readable
      BY <1>1 DEF CallOk, Readable
    <3> QED
      BY <3>1, <3>2 DEF ResInv, Kept
  <2>5. PolicyRead'
    BY DEF ResInv, OpenFile, PolicyRead, PolicyTaken
  <2> QED
    BY <2>3, <2>4, <2>5 DEF ResInv
<1> QED
  BY <1>2, <1>3

LEMMA StepOfWriteFile ==
  ASSUME ResInv, NEW c \in Callers, NEW ok \in BOOLEAN, NEW remains \in BOOLEAN, WriteFile(c, ok, remains)
  PROVE  ResInv'
<1> DEFINE u == calls[c].uri
           r == [pc |-> "done", uri |-> u, data |-> calls[c].data]
           d == IF remains THEN <<u, 0>> ELSE calls[c].data
<1>1. CallOk(calls[c]) /\ calls[c].pc = "writing"
  BY CallsOk DEF ResInv, WriteFile
<1>2. CASE ~ ok
  BY <1>1, <1>2, StepOfFailure DEF WriteFile
<1>3. CASE ok
  <2>1. CallOk(r) /\ r.pc # "idle" /\ r.uri = calls[c].uri
    BY <1>1 DEF CallOk, CallPcs
  <2>2. calls' = [calls EXCEPT ![c] = r]
    BY <1>3, CallRecords DEF ResInv, WriteFile
  <2> HIDE DEF r
  <2>3. ResTypeOK' /\ Asked' /\ Building'
    BY <1>1, <2>1, <2>2, OneCall DEF ResInv, WriteFile
  <2>4. Kept'
    <3>1. downloads' = [downloads EXCEPT ![u] = d]
      BY <1>3 DEF WriteFile
    <3>2. d \in Readable /\ d[1] = u
      BY <1>1 DEF CallOk, Readable
    <3> HIDE DEF d
    <3> QED
      BY <3>1, <3>2 DEF ResInv, Kept
  <2>5. PolicyRead'
    BY DEF ResInv, WriteFile, PolicyRead, PolicyTaken
  <2> QED
    BY <2>3, <2>4, <2>5 DEF ResInv
<1> QED
  BY <1>2, <1>3

LEMMA BuilderCalls == "builder" \in Callers /\ CallOk(NoCall)
<1>1. None \in KnownUris
  BY DEF KnownUris
<1> QED
  BY <1>1, NothingIsReadable DEF Callers, CallOk, NoCall, CallPcs

LEMMA StepOfBegin ==
  ASSUME ResInv, NEW c,
         \/ ConfigFails(c)
         \/ c \in LegalConfigs /\ \E made \in BOOLEAN : StartBuild(c, made)
  PROVE  ResInv'
<1>1. CASE ConfigFails(c)
  BY <1>1 DEF ResInv, ResTypeOK, Kept, Asked, Building, PolicyRead, PolicyTaken, UriOf, ConfigFails
<1>2. CASE c \in LegalConfigs /\ \E made \in BOOLEAN : StartBuild(c, made)
  <2>1. PICK made \in BOOLEAN : StartBuild(c, made)
    BY <1>2
  <2>2. taken' \in [Reads -> Readable]
    BY <2>1, NothingIsReadable DEF StartBuild, NothingTaken, Reads
  <2>3. ResTypeOK'
    BY <1>2, <2>1, <2>2 DEF ResInv, ResTypeOK, StartBuild, Reads
  <2>4. Kept' /\ Asked'
    BY <2>1 DEF ResInv, Kept, Asked, StartBuild
  <2>5. Building' /\ PolicyRead'
    BY <2>1 DEF ResInv, Building, PolicyRead, StartBuild
  <2> QED
    BY <2>3, <2>4, <2>5 DEF ResInv
<1> QED
  BY <1>1, <1>2

LEMMA StepOfCrash == ASSUME ResInv, CrashClient PROVE ResInv'
<1> USE DEF ResInv, CrashClient
<1>1. taken' \in [Reads -> Readable]
  BY NothingIsReadable DEF NothingTaken, Reads
<1>2. calls' \in [Callers -> [pc : CallPcs, uri : KnownUris, data : Readable]]
  BY BuilderCalls DEF CallOk
<1>3. ResTypeOK'
  BY <1>1, <1>2 DEF ResTypeOK, Reads
<1>4. Kept' /\ Asked'
  BY DEF Kept, Asked, NoCall
<1>5. Building' /\ PolicyRead'
  BY BuilderCalls DEF Building, PolicyRead, NoCall
<1> QED
  BY <1>3, <1>4, <1>5

\* A call that begins.
LEMMA Called ==
  ASSUME NEW u \in KnownUris, IsKbs(u) \/ IsFile(u) => u \in ResourceUris
  PROVE  CallOk([pc |-> "called", uri |-> u, data |-> NoContent])
BY NothingIsReadable DEF CallOk, CallPcs

LEMMA StepOfReadKey ==
  ASSUME ResInv, NEW u \in ResourceUris, NEW c \in Readers, ReadKey(c, u)
  PROVE  ResInv'
<1> DEFINE r == [pc |-> "called", uri |-> u, data |-> NoContent]
<1>1. CallOk(r)
  BY Called DEF KnownUris
<1>2. calls' = [calls EXCEPT ![c] = r] /\ UNCHANGED <<resPc, imageCfg, step, taken, downloads, published>>
  BY DEF ReadKey, Lookup
<1>3. c \in Callers /\ c # "builder"
  BY ImageResourcesAssumption DEF Callers
<1> HIDE DEF r
<1>4. ResTypeOK' /\ Asked' /\ Building'
  BY <1>1, <1>2, <1>3, OneCall DEF ResInv
<1>5. Kept' /\ PolicyRead'
  BY <1>2 DEF ResInv, Kept, PolicyRead, PolicyTaken
<1> QED
  BY <1>4, <1>5 DEF ResInv

LEMMA StepOfBuildReads == ASSUME ResInv, BuildReads PROVE ResInv'
<1> USE DEF ResInv
<1> DEFINE u == UriOf(step)
           r == [pc |-> "called", uri |-> u, data |-> NoContent]
<1>1. step \in Reads
  BY DEF BuildReads, ResTypeOK
<1>2. u \in KnownUris /\ (IsKbs(u) \/ IsFile(u) => u \in ResourceUris)
  BY <1>1, UrisKnown
<1>3. CallOk(r)
  BY <1>2, Called
<1>4. calls' = [calls EXCEPT !["builder"] = r] /\ UNCHANGED <<resPc, imageCfg, step, taken, downloads, published>>
  BY DEF BuildReads, Lookup
<1>5. r.uri = u /\ r.pc = "called"
  OBVIOUS
<1>6. resPc = "building" /\ u # None
  BY DEF BuildReads
<1>7. u' = u
  BY <1>4 DEF UriOf
<1> HIDE DEF r
<1>8. calls \in [Callers -> [pc : CallPcs, uri : KnownUris, data : Readable]] /\ "builder" \in Callers
  BY BuilderCalls DEF ResTypeOK
<1>9. ResTypeOK'
  BY <1>3, <1>4, <1>8 DEF ResTypeOK, CallOk
<1>10. Asked'
  BY <1>3, <1>4, <1>8 DEF Asked, CallOk
<1>11. Building'
  BY <1>1, <1>4, <1>5, <1>6, <1>7, <1>8 DEF Building
<1>12. Kept' /\ PolicyRead'
  BY <1>4 DEF Kept, PolicyRead, PolicyTaken
<1> QED
  BY <1>9, <1>10, <1>11, <1>12

LEMMA StepOfBuildEnds == ASSUME ResInv, NEW ok \in BOOLEAN, BuildEnds(ok) PROVE ResInv'
<1>1. ResTypeOK' /\ Kept' /\ Asked'
  BY DEF ResInv, ResTypeOK, Kept, Asked, BuildEnds
<1>2. Building'
  BY DEF ResInv, Building, BuildEnds, Reads, UriOf
<1>3. PolicyRead'
  BY DEF ResInv, PolicyRead, PolicyTaken, BuildEnds
<1> QED
  BY <1>1, <1>2, <1>3 DEF ResInv

\* What the builder takes is a whole policy when it is at the policy.
LEMMA StepOfTake ==
  ASSUME ResInv, NEW data \in Readable, NEW legal \in BOOLEAN, Take(data, legal),
         resPc = "building", step \in Reads,
         \/ calls' = [calls EXCEPT !["builder"] = NoCall]
         \/ calls["builder"].pc = "idle" /\ UNCHANGED calls,
         legal /\ step = "policy" =>
           /\ (data = NoContent) <=> (imageCfg.policy_uri = None /\ ~ imageCfg.policy)
           /\ imageCfg.policy_uri # None => data[1] = imageCfg.policy_uri /\ data[2] > 0
  PROVE  ResInv'
<1> USE DEF ResInv
<1>1. UNCHANGED <<imageCfg, downloads, published>>
  BY DEF Take
<1>2. taken \in [Reads -> Readable] /\ calls \in [Callers -> [pc : CallPcs, uri : KnownUris, data : Readable]]
  BY DEF ResTypeOK
<1>3. CallOk(NoCall) /\ "builder" \in Callers /\ NoCall.pc = "idle"
  BY BuilderCalls DEF NoCall
<1>4. /\ calls' \in [Callers -> [pc : CallPcs, uri : KnownUris, data : Readable]]
      /\ calls'["builder"].pc = "idle"
      /\ \A c \in Callers : calls'[c] = calls[c] \/ calls'[c] = NoCall
  BY <1>2, <1>3 DEF CallOk
<1>5. Asked'
  BY <1>1, <1>3, <1>4 DEF Asked
<1>6. Kept'
  BY <1>1 DEF Kept
<1>7. CASE ~ legal
  <2>1. resPc' = "failed" /\ UNCHANGED <<taken, step>>
    BY <1>7 DEF Take
  <2> QED
    BY <2>1, <1>1, <1>4, <1>5, <1>6 DEF ResTypeOK, Building, PolicyRead
<1>8. CASE legal
  <2>1. taken' = [taken EXCEPT ![step] = data] /\ step' = StepAfter(step) /\ UNCHANGED resPc
    BY <1>8 DEF Take
  <2>2. step' \in {"sigstore", "policy", "registry", "stores"}
    BY <2>1 DEF StepAfter, Reads
  <2>3. taken' \in [Reads -> Readable]
    BY <2>1, <1>2
  <2>4. ResTypeOK'
    BY <2>1, <2>2, <2>3, <1>1, <1>4 DEF ResTypeOK, Reads
  <2>5. Building'
    BY <2>1, <1>4 DEF Building
  <2>6. PolicyRead'
    <3>1. CASE step = "policy"
      <4>1. taken'["policy"] = data
        BY <2>1, <1>2, <3>1 DEF Reads
      <4> QED
        BY <4>1, <3>1, <1>1, <1>8 DEF PolicyRead, PolicyTaken
    <3>2. CASE step \in {"auth", "sigstore"}
      BY <2>1, <3>2 DEF PolicyRead, StepAfter
    <3>3. CASE step = "registry"
      <4>1. taken'["policy"] = taken["policy"]
        BY <2>1, <1>2, <3>3 DEF Reads
      <4>2. PolicyTaken
        BY <3>3 DEF PolicyRead
      <4> QED
        BY <4>1, <4>2, <1>1 DEF PolicyRead, PolicyTaken
    <3> QED
      BY <3>1, <3>2, <3>3 DEF Reads
  <2> QED
    BY <2>4, <2>5, <2>6, <1>5, <1>6
<1> QED
  BY <1>7, <1>8

LEMMA StepOfInline == ASSUME ResInv, NEW legal \in BOOLEAN, BuildTakesInline(legal) PROVE ResInv'
<1> DEFINE data == IF HasInline(step) THEN <<Inline, 1>> ELSE NoContent
<1>1. data \in Readable
  BY NothingIsReadable
<1>2. Take(data, legal) /\ resPc = "building" /\ step \in Reads /\ UNCHANGED calls /\ UriOf(step) = None
  BY DEF BuildTakesInline, ResInv, ResTypeOK
<1>3. calls["builder"].pc = "idle"
  BY <1>2 DEF ResInv, Building
<1>4. ASSUME step = "policy"
      PROVE  /\ (data = NoContent) <=> (imageCfg.policy_uri = None /\ ~ imageCfg.policy)
             /\ imageCfg.policy_uri = None
  <2>1. HasInline(step) = imageCfg.policy /\ UriOf(step) = imageCfg.policy_uri
    BY <1>4 DEF HasInline, UriOf
  <2>2. imageCfg.policy \in BOOLEAN
    BY ImageResourcesAssumption DEF ResInv, ResTypeOK
  <2>3. <<Inline, 1>> # NoContent
    BY DEF NoContent
  <2> QED
    BY <1>2, <2>1, <2>2, <2>3
<1> HIDE DEF data
<1> QED
  BY <1>1, <1>2, <1>3, <1>4, StepOfTake

LEMMA StepOfResource == ASSUME ResInv, NEW legal \in BOOLEAN, BuildTakesResource(legal) PROVE ResInv'
<1> DEFINE data == calls["builder"].data
<1>1. CallOk(calls["builder"])
  BY CallsOk, BuilderCalls DEF ResInv
<1>2. /\ resPc = "building" /\ calls["builder"].pc = "done"
      /\ legal => MayParse(step, data)
      /\ Take(data, legal) /\ calls' = [calls EXCEPT !["builder"] = NoCall]
  BY DEF BuildTakesResource
<1>3. data \in Readable /\ data[1] = calls["builder"].uri
  BY <1>1, <1>2 DEF CallOk
<1>4. step \in Reads /\ calls["builder"].uri = UriOf(step) /\ UriOf(step) # None
  BY <1>2 DEF ResInv, Building
<1> HIDE DEF data
<1>5. ASSUME legal, step = "policy"
      PROVE  /\ (data = NoContent) <=> (imageCfg.policy_uri = None /\ ~ imageCfg.policy)
             /\ imageCfg.policy_uri # None => data[1] = imageCfg.policy_uri /\ data[2] > 0
  <2>1. UriOf(step) = imageCfg.policy_uri
    BY <1>5 DEF UriOf
  <2>2. imageCfg.policy_uri # Inline
    BY ImageResourcesAssumption DEF ResInv, ResTypeOK
  <2>3. data[2] # 0
    BY <1>2, <1>3, <1>4, <1>5, <2>1, <2>2 DEF MayParse
  <2>4. data[2] \in Nat
    BY <1>3 DEF Readable
  <2>5. data # NoContent
    BY <2>3 DEF NoContent
  <2> QED
    BY <1>3, <1>4, <2>1, <2>3, <2>4, <2>5
<1> QED
  BY <1>2, <1>3, <1>4, <1>5, StepOfTake

LEMMA StepOfNothing == ASSUME ResInv, BuildGetsNothing PROVE ResInv'
<1>1. /\ resPc = "building" /\ calls["builder"].pc = "failed"
      /\ Take(NoContent, ~ FailsBuild(step)) /\ calls' = [calls EXCEPT !["builder"] = NoCall]
  BY DEF BuildGetsNothing
<1>2. step \in Reads
  BY <1>1 DEF ResInv, Building
<1>3. FailsBuild(step)
  BY <1>2 DEF FailsBuild, NothingTaken, Reads
<1>4. Take(NoContent, FALSE)
  BY <1>1, <1>3
<1> QED
  BY <1>1, <1>2, <1>4, NothingIsReadable, StepOfTake

LEMMA ResNextInv == ResInv /\ [ResourcesNext]_resVars => ResInv'
<1> SUFFICES ASSUME ResInv, [ResourcesNext]_resVars PROVE ResInv'
  OBVIOUS
<1>1. CASE UNCHANGED resVars
  BY <1>1 DEF resVars, ResInv, ResTypeOK, Kept, Asked, Building, PolicyRead, PolicyTaken, UriOf
<1>2. ASSUME NEW u \in ResourceUris, PublishResource(u) \/ \E c \in Readers : ReadKey(c, u)
      PROVE  ResInv'
  BY <1>2, StepOfPublish, StepOfReadKey
<1>3. ASSUME NEW c \in ConfigFiles, ConfigFails(c) \/ \E made \in BOOLEAN : StartBuild(c, made)
      PROVE  ResInv'
  <2>1. CASE ConfigFails(c)
    BY <2>1, StepOfBegin
  <2>2. CASE \E made \in BOOLEAN : StartBuild(c, made)
    <3>1. c \in LegalConfigs
      BY <2>2 DEF LegalConfigs, StartBuild
    <3> QED
      BY <2>2, <3>1, StepOfBegin
  <2> QED
    BY <1>3, <2>1, <2>2
<1>4. ASSUME NEW k \in KernelLines, NEW made \in BOOLEAN, StartBuild(FromKernelCmdline(k), made)
      PROVE  ResInv'
  <2>1. FromKernelCmdline(k) \in LegalConfigs
    BY DEF LegalConfigs
  <2> HIDE DEF FromKernelCmdline
  <2> QED
    BY <1>4, <2>1, StepOfBegin
<1>5. ASSUME NEW c \in Callers,
             \/ CallSteps(c)
             \/ \E ok \in BOOLEAN : OpenFile(c, ok) \/ \E remains \in BOOLEAN : WriteFile(c, ok, remains)
      PROVE  ResInv'
  BY <1>5, StepOfCall, StepOfOpenFile, StepOfWriteFile
<1>6. ASSUME NEW legal \in BOOLEAN, BuildTakesInline(legal) \/ BuildTakesResource(legal) \/ BuildEnds(legal)
      PROVE  ResInv'
  BY <1>6, StepOfInline, StepOfResource, StepOfBuildEnds
<1>7. ASSUME BuildReads \/ BuildGetsNothing \/ CrashClient PROVE ResInv'
  BY <1>7, StepOfBuildReads, StepOfNothing, StepOfCrash
<1> QED
  BY <1>1, <1>2, <1>3, <1>4, <1>5, <1>6, <1>7 DEF ResourcesNext

\* The client that is built enforces the policy its configuration names: not one of the
\* four reads of build, of the errors, the torn files and the crashes between them leaves
\* a client without it, whatever the configurations, the callers and the resources are
\* (builder.rs, resource/mod.rs).
THEOREM PolicyEnforced == ResourcesSpec => []PolicyInUse
<1>1. ResInv => PolicyInUse
  BY DEF ResInv, Building, PolicyRead, PolicyTaken, PolicyInUse
<1> QED
  BY <1>1, ResInitInv, ResNextInv, PTL DEF ResourcesSpec

-----------------------------------------------------------------------------
(* Part 2: layers over dm-verity.  What is mounted was made by a mount     *)
(* whose calls all succeeded, from options that were found legal; and no   *)
(* device is removed or made anew under a mount.                           *)

SizesOfBlocks == {512 * m : m \in {1, 2, 4, 8, 16, 32, 64, 128, 256, 512, 1024}}

\* A hash tree that starts at the block its offset is rounded up to.
LEMMA RoundedUp ==
  ASSUME NEW o \in Nat, NEW h \in SizesOfBlocks
  PROVE  /\ (o + h - 1) \div h \in Nat
         /\ ((o + h - 1) \div h) * h >= o
BY DEF SizesOfBlocks

\* The sectors of a whole number of blocks.
LEMMA Sectors ==
  ASSUME NEW n \in Nat, n > 0, NEW b \in SizesOfBlocks
  PROVE  /\ (n * b) \div 512 \in Nat
         /\ (n * b) \div 512 > 0
         /\ ((n * b) \div 512) * 512 = n * b
BY DEF SizesOfBlocks

LEMMA ParsedTyped == ASSUME NEW o \in VerityOption PROVE Parsed(o) \in VerityOption
<1> DEFINE p == [o EXCEPT !.hashtype = "sha256"]
           q == [p EXCEPT !.blocksize = 512]
           r == [q EXCEPT !.hashsize = 4096]
<1>1. p \in VerityOption
  BY DEF VerityOption
<1>2. Parsed(o) \in {o, r}
  BY DEF Parsed
<1> HIDE DEF p
<1>3. q \in VerityOption
  BY <1>1 DEF VerityOption
<1> HIDE DEF q
<1>4. r \in VerityOption
  BY <1>3 DEF VerityOption
<1> QED
  BY <1>2, <1>4

\* The table of options that are legal has its hashes after its data.
LEMMA TableIsSound ==
  ASSUME NEW o \in VerityOption, Valid(o)
  PROVE  Table(o).active /\ Table(o).sectors > 0 /\ Table(o).hashStart * Table(o).hashsize >= Table(o).sectors * 512
<1>1. /\ o.blocksize \in SizesOfBlocks /\ o.hashsize \in SizesOfBlocks
      /\ o.blocknum \in Nat /\ o.blocknum > 0 /\ o.offset \in Nat
      /\ o.offset >= o.blocksize * o.blocknum
  BY DEF Valid, IsValidBlockSize, OffsetOk, SizesOfBlocks, VerityOption
<1> DEFINE sectors == (o.blocknum * o.blocksize) \div 512
           start == (o.offset + o.hashsize - 1) \div o.hashsize
<1>2. start \in Nat /\ start * o.hashsize >= o.offset
  BY <1>1, RoundedUp
<1>3. sectors \in Nat /\ sectors > 0 /\ sectors * 512 = o.blocknum * o.blocksize
  BY <1>1, Sectors
<1>4. o.blocknum * o.blocksize = o.blocksize * o.blocknum
  BY <1>1 DEF SizesOfBlocks
<1>5. o.blocksize \in Nat /\ o.hashsize \in Nat
  BY <1>1 DEF SizesOfBlocks
<1>6. o.blocksize * o.blocknum \in Nat /\ start * o.hashsize \in Nat
  BY <1>1, <1>2, <1>5
<1>7. Table(o) = [sectors |-> sectors, hashStart |-> start, hashsize |-> o.hashsize, root |-> o.hash,
                  active |-> TRUE]
  BY DEF Table
<1> HIDE DEF sectors, start
<1>8. start * o.hashsize >= sectors * 512
  BY <1>1, <1>2, <1>3, <1>4, <1>6
<1> QED
  BY <1>3, <1>7, <1>8

BundleNames == [name : STRING, length : Nat, hex : BOOLEAN]
BundleInv == verityMounts \in [MountPaths -> Seq(BundleNames)] /\ MountsAreVerified

LEMMA StepOfMount ==
  ASSUME BundleInv, NEW opt \in VerityOptions, NEW path \in MountPaths,
         NEW failed \in {"none", "load", "resume", "mount"}, MountImageBlock(opt, path, failed)
  PROVE  BundleInv'
<1> DEFINE o == Parsed(opt)
<1>1. o \in VerityOption /\ Valid(o) /\ o.hash \notin DOMAIN dmDevices /\ o.hash \in BundleNames
  BY ImageBundleAssumption, ParsedTyped DEF MountImageBlock, VerityOption, BundleNames
<1>2. /\ dmDevices' = [d \in DOMAIN dmDevices \cup {o.hash} |->
                         IF d = o.hash THEN Made(o, failed) ELSE dmDevices[d]]
      /\ verityMounts' = IF failed = "none" THEN [verityMounts EXCEPT ![path] = Append(@, o.hash)]
                         ELSE verityMounts
  BY DEF MountImageBlock
<1>3. failed = "none" => Made(o, failed) = Table(o)
  BY DEF Made
<1> HIDE DEF o
<1>4. \A p \in MountPaths : verityMounts[p] \in Seq(BundleNames)
  BY DEF BundleInv
<1>5. verityMounts' \in [MountPaths -> Seq(BundleNames)]
  BY <1>1, <1>2 DEF BundleInv
<1>6. ASSUME NEW p \in MountPaths, NEW i \in 1 .. Len(verityMounts'[p])
      PROVE  \/ i \in 1 .. Len(verityMounts[p]) /\ verityMounts'[p][i] = verityMounts[p][i]
             \/ failed = "none" /\ verityMounts'[p][i] = o.hash
  <2>1. CASE failed = "none" /\ p = path
    <3>1. verityMounts'[p] = Append(verityMounts[p], o.hash)
      BY <1>2, <2>1 DEF BundleInv
    <3> QED
      BY <1>1, <1>4, <1>6, <2>1, <3>1
  <2>2. CASE ~ (failed = "none" /\ p = path)
    <3>1. verityMounts'[p] = verityMounts[p]
      BY <1>2, <2>2 DEF BundleInv
    <3> QED
      BY <1>6, <3>1
  <2> QED
    BY <2>1, <2>2
<1>7. MountsAreVerified'
  <2> SUFFICES ASSUME NEW p \in MountPaths, NEW i \in 1 .. Len(verityMounts'[p])
               PROVE  /\ verityMounts'[p][i] \in DOMAIN dmDevices'
                      /\ LET d == dmDevices'[verityMounts'[p][i]] IN
                         /\ d.active /\ d.sectors > 0
                         /\ d.hashStart * d.hashsize >= d.sectors * 512
    BY DEF MountsAreVerified
  <2> DEFINE n == verityMounts'[p][i]
  <2>1. CASE i \in 1 .. Len(verityMounts[p]) /\ n = verityMounts[p][i]
    <3>1. n \in DOMAIN dmDevices
      BY <2>1 DEF BundleInv, MountsAreVerified
    <3>2. n \in DOMAIN dmDevices' /\ dmDevices'[n] = dmDevices[n]
      BY <1>1, <1>2, <3>1
    <3> HIDE DEF n
    <3> QED
      BY <2>1, <3>2 DEF BundleInv, MountsAreVerified, n
  <2>2. CASE failed = "none" /\ n = o.hash
    <3>1. n \in DOMAIN dmDevices' /\ dmDevices'[n] = Table(o)
      BY <1>2, <1>3, <2>2
    <3> HIDE DEF n
    <3> QED
      BY <1>1, <3>1, TableIsSound DEF n
  <2> QED
    BY <1>6, <2>1, <2>2
<1> QED
  BY <1>5, <1>7 DEF BundleInv

LEMMA StepOfUmount ==
  ASSUME BundleInv, NEW path \in MountPaths, NEW name, UmountImageBlock(path, name)
  PROVE  BundleInv'
<1>1. /\ verityMounts[path] \in Seq(BundleNames) /\ verityMounts[path] # <<>>
      /\ verityMounts' = [verityMounts EXCEPT ![path] = SubSeq(@, 1, Len(@) - 1)]
      /\ dmDevices' = IF IsMounted(verityMounts', name) THEN dmDevices
                      ELSE [d \in DOMAIN dmDevices \ {name} |-> dmDevices[d]]
  BY DEF BundleInv, UmountImageBlock
<1> DEFINE left == SubSeq(verityMounts[path], 1, Len(verityMounts[path]) - 1)
<1>2. /\ left \in Seq(BundleNames)
      /\ \A i \in 1 .. Len(left) : i \in 1 .. Len(verityMounts[path]) /\ left[i] = verityMounts[path][i]
  <2>1. Len(verityMounts[path]) \in Nat /\ Len(verityMounts[path]) > 0
    BY <1>1, EmptySeq
  <2>2. Len(left) = Len(verityMounts[path]) - 1 /\ left \in Seq(BundleNames)
    BY <1>1, <2>1, SubSeqProperties
  <2>3. \A i \in 1 .. Len(left) : left[i] = verityMounts[path][i]
    BY <1>1, <2>1, <2>2, SubSeqProperties
  <2> HIDE DEF left
  <2> QED
    BY <2>1, <2>2, <2>3
<1> HIDE DEF left
<1>3. verityMounts' = [verityMounts EXCEPT ![path] = left]
  BY <1>1 DEF left
<1>4. verityMounts' \in [MountPaths -> Seq(BundleNames)]
  BY <1>2, <1>3 DEF BundleInv
<1>5. \A p \in MountPaths : \A i \in 1 .. Len(verityMounts'[p]) :
        i \in 1 .. Len(verityMounts[p]) /\ verityMounts'[p][i] = verityMounts[p][i]
  BY <1>2, <1>3 DEF BundleInv
<1>6. ASSUME NEW p \in MountPaths, NEW i \in 1 .. Len(verityMounts'[p])
      PROVE  verityMounts'[p][i] \in DOMAIN dmDevices' /\ dmDevices'[verityMounts'[p][i]] = dmDevices[verityMounts[p][i]]
  <2>1. verityMounts'[p][i] = verityMounts[p][i] /\ verityMounts[p][i] \in DOMAIN dmDevices
    BY <1>5, <1>6 DEF BundleInv, MountsAreVerified
  <2>2. CASE IsMounted(verityMounts', name)
    BY <1>1, <2>1, <2>2
  <2>3. CASE ~ IsMounted(verityMounts', name)
    <3>1. verityMounts'[p][i] # name
      BY <1>6, <2>3 DEF IsMounted
    <3> QED
      BY <1>1, <2>1, <2>3, <3>1
  <2> QED
    BY <2>2, <2>3
<1>7. MountsAreVerified'
  BY <1>5, <1>6 DEF BundleInv, MountsAreVerified
<1> QED
  BY <1>4, <1>7 DEF BundleInv

LEMMA BundleNextInv == BundleInv /\ [BundleNext]_bundleVars => BundleInv'
<1> SUFFICES ASSUME BundleInv, [BundleNext]_bundleVars PROVE BundleInv'
  OBVIOUS
<1>1. ASSUME UNCHANGED <<dmDevices, verityMounts>> PROVE BundleInv'
  BY <1>1 DEF BundleInv, MountsAreVerified
<1>2. ASSUME NEW opt \in VerityOptions, NEW path \in MountPaths, NEW failed \in {"none", "load", "resume", "mount"},
             MountImageBlock(opt, path, failed)
      PROVE  BundleInv'
  BY <1>2, StepOfMount
<1>3. ASSUME NEW path \in MountPaths, NEW name \in DOMAIN dmDevices, UmountImageBlock(path, name)
      PROVE  BundleInv'
  BY <1>3, StepOfUmount
<1> QED
  BY <1>1, <1>2, <1>3 DEF BundleNext, bundleVars, CreateRuntimeConfig, RemoveBundle, MountRefused

\* Nothing is served from a block device of a layer but what its hash tree covers: every
\* mount is on an active device whose data, not empty, end before its hashes begin,
\* whatever is mounted and taken down, and whichever of the calls fails (dmverity.rs).
THEOREM MountsVerified == BundleSpec => []MountsAreVerified
<1>1. BundleInit => BundleInv
  BY DEF BundleInit, BundleInv, MountsAreVerified
<1>2. BundleInv => MountsAreVerified
  BY DEF BundleInv
<1> QED
  BY <1>1, <1>2, BundleNextInv, PTL DEF BundleSpec

-----------------------------------------------------------------------------
(* Part 3: the stream of a layer.  While it is read, what the HMAC was     *)
(* taken over is the blob as far as it was read; of a layer that is as it  *)
(* was published, what reached the archive reader is the archive so far.   *)

ArchiveBlocks == UNION {{a[i] : i \in DOMAIN a} : a \in Archives}
ArchiveData == ArchiveBlocks \cup {"garbage"}
PackedBlock == [packing : Packings \cup {"garbage"}, data : ArchiveData, last : BOOLEAN]
CipherBlock == [key : Nat, nonce : Nat, pos : Nat, data : PackedBlock]
HmacParts == Nat \cup CipherBlock

StreamTypeOK ==
  /\ streamPc \in {"begin", "encrypting", "published", "reading", "stored", "plaintext", "failed"}
  /\ source \in [archive : Archives \cup {<<>>}, packing : Packings, encrypted : BOOLEAN, hash : Hashes]
  /\ opts \in [cipherType : Ciphers \cup {"none"}, hmac : Seq(HmacParts), publicNonce : Nat, key : Nat, nonce : Nat]
  /\ cipher \in [encrypt : BOOLEAN, done : BOOLEAN, mac : Seq(CipherBlock), expHmac : Seq(HmacParts),
                 key : Nat, nonce : Nat]
  /\ received \in Seq(ArchiveData)
  /\ member \in {"open", "closed"}
  /\ layerDir \in BOOLEAN /\ damaged \in BOOLEAN /\ faulty \in BOOLEAN

\* A blob is of packed blocks, which are encrypted once it is published.
BlobTyped ==
  /\ streamPc = "encrypting" => blob \in Seq(PackedBlock)
  /\ streamPc \in {"published", "reading"} =>
       blob \in Seq(IF source.encrypted THEN CipherBlock ELSE PackedBlock)

\* Blocks that are an archive, packed.
PackingOf == IF source.packing = "docker" THEN "gzip" ELSE source.packing
IsPacked(bs) ==
  /\ source.archive \in Archives
  /\ Len(bs) = Len(source.archive)
  /\ \A i \in 1 .. Len(bs) : bs[i].packing = PackingOf /\ bs[i].data = source.archive[i]
  /\ bs[Len(bs)].last

\* Ciphertext of the blocks so far.
Sealed(bs, clear) ==
  \A i \in 1 .. Len(bs) : bs[i].key = 1 /\ bs[i].nonce = 1 /\ bs[i].pos = i /\ bs[i].data = clear[i]

Encrypting ==
  streamPc = "encrypting" =>
    /\ source.encrypted /\ ~ damaged /\ ~ faulty
    /\ IsPacked(blob)
    /\ \/ opts = NoOpts /\ cipher = NoCipher
       \/ opts = NewOpts /\ cipher.encrypt
    /\ cipher.encrypt =>
         /\ cipher.key = 1 /\ cipher.nonce = 1
         /\ Len(cipher.mac) <= Len(blob) /\ Sealed(cipher.mac, blob)
         /\ cipher.done => Len(cipher.mac) = Len(blob) /\ cipher.expHmac = <<1>> \o cipher.mac

Clear == IF source.encrypted THEN [i \in 1 .. Len(blob) |-> blob[i].data] ELSE blob

Unread == streamPc \in {"begin", "encrypting", "published"} =>
            received = <<>> /\ member = "closed" /\ ~ layerDir
Uncounted == /\ streamPc \in {"begin", "published"} => cipher = NoCipher
             /\ streamPc = "begin" => opts = NoOpts /\ ~ damaged /\ ~ faulty

AsPublished ==
  streamPc \in {"published", "reading"} /\ ~ damaged =>
    /\ IsPacked(Clear)
    /\ source.encrypted =>
         /\ Sealed(blob, Clear)
         /\ opts.cipherType = AES256CTR /\ opts.hmac = <<1>> \o blob
         /\ opts.key = 1 /\ opts.nonce = 1 /\ opts.publicNonce = 0

\* What the HMAC was taken over so far, and what it is compared with.
Authenticating ==
  streamPc = "reading" =>
    /\ source.encrypted => IsEncrypted
    /\ Len(received) <= Len(blob)
    /\ IsEncrypted => /\ Len(cipher.mac) = Len(received)
                      /\ \A i \in 1 .. Len(received) : cipher.mac[i] = blob[i]
                      /\ cipher.expHmac = opts.hmac

Unpacking ==
  streamPc = "reading" /\ ~ damaged /\ ~ faulty =>
    /\ layerDir /\ Decoder # "other"
    /\ \A i \in 1 .. Len(received) : received[i] = source.archive[i]
    /\ member = "closed" <=> (Len(received) = 0 \/ Clear[Len(received)].last)
    /\ IsEncrypted => cipher.key = 1 /\ cipher.nonce = 1

StreamInv ==
  /\ StreamTypeOK /\ BlobTyped /\ Encrypting /\ Unread /\ Uncounted /\ AsPublished
  /\ Authenticating /\ Unpacking /\ StoredIsPublished

\* A stream that is over, or not yet begun, has little to keep.
LEMMA StreamOver ==
  ASSUME StreamTypeOK', StoredIsPublished', streamPc' \in {"stored", "plaintext", "failed"}
  PROVE  StreamInv'
BY DEF StreamInv, BlobTyped, Encrypting, Unread, Uncounted, AsPublished, Authenticating, Unpacking

LEMMA StillGoing ==
  streamPc \notin {"stored", "plaintext", "failed"} => StoredIsPublished
BY DEF StoredIsPublished, EndIsAuthenticated, PublishedIsStored

LEMMA StreamInitInv == StreamInit => StreamInv
<1> SUFFICES ASSUME StreamInit PROVE StreamInv
  OBVIOUS
<1>1. StreamTypeOK
  <2>1. opts \in [cipherType : Ciphers \cup {"none"}, hmac : Seq(HmacParts), publicNonce : Nat, key : Nat, nonce : Nat]
    BY DEF StreamInit, NoOpts
  <2>2. cipher \in [encrypt : BOOLEAN, done : BOOLEAN, mac : Seq(CipherBlock), expHmac : Seq(HmacParts),
                    key : Nat, nonce : Nat]
    BY DEF StreamInit, NoCipher
  <2>3. source \in [archive : Archives \cup {<<>>}, packing : Packings, encrypted : BOOLEAN, hash : Hashes]
    BY DEF StreamInit, NoSource, Packings, Hashes
  <2>4. received \in Seq(ArchiveData)
    BY DEF StreamInit
  <2> HIDE DEF ArchiveData
  <2>5. /\ streamPc \in {"begin", "encrypting", "published", "reading", "stored", "plaintext", "failed"}
        /\ member \in {"open", "closed"}
        /\ layerDir \in BOOLEAN /\ damaged \in BOOLEAN /\ faulty \in BOOLEAN
    BY DEF StreamInit
  <2> QED
    BY <2>1, <2>2, <2>3, <2>4, <2>5 DEF StreamTypeOK
<1>2. BlobTyped /\ Encrypting /\ Unread /\ Uncounted /\ AsPublished /\ Authenticating /\ Unpacking
  BY DEF StreamInit, BlobTyped, Encrypting, Unread, Uncounted, AsPublished, Authenticating, Unpacking
<1>3. StoredIsPublished
  BY StillGoing DEF StreamInit
<1> QED
  BY <1>1, <1>2, <1>3 DEF StreamInv

LEMMA ArchiveTyped == ASSUME NEW a \in Archives PROVE a \in Seq(ArchiveData)
<1>1. Len(a) \in Nat /\ DOMAIN a = 1 .. Len(a) /\ a = [i \in 1 .. Len(a) |-> a[i]]
  BY StreamAssumption
<1>2. \A i \in 1 .. Len(a) : a[i] \in {a[j] : j \in DOMAIN a}
  BY <1>1
<1>3. {a[j] : j \in DOMAIN a} \subseteq ArchiveData
  BY DEF ArchiveData, ArchiveBlocks
<1>4. \A i \in 1 .. Len(a) : a[i] \in ArchiveData
  BY <1>2, <1>3
<1> HIDE DEF ArchiveData
<1>5. a \in [1 .. Len(a) -> ArchiveData]
  BY <1>1, <1>4
<1> QED
  BY <1>1, <1>5

LEMMA PackedArchive ==
  ASSUME NEW a \in Archives, NEW packing \in Packings, NEW cut
  PROVE  /\ Pack(a, packing, cut) \in Seq(PackedBlock)
         /\ Len(Pack(a, packing, cut)) = Len(a)
         /\ Len(a) \in Nat /\ Len(a) > 0
         /\ \A i \in 1 .. Len(a) :
              /\ Pack(a, packing, cut)[i].packing = IF packing = "docker" THEN "gzip" ELSE packing
              /\ Pack(a, packing, cut)[i].data = a[i]
         /\ Pack(a, packing, cut)[Len(a)].last
<1>1. Len(a) \in Nat /\ Len(a) > 0 /\ DOMAIN a = 1 .. Len(a)
  BY StreamAssumption
<1> DEFINE p == IF packing = "docker" THEN "gzip" ELSE packing
           e(i) == [packing |-> p, data |-> a[i], last |-> i \in {cut, Len(a)}]
<1>2. p \in Packings
  BY DEF Packings
<1>3. \A i \in 1 .. Len(a) : a[i] \in ArchiveData
  <2>1. \A i \in DOMAIN a : a[i] \in {a[j] : j \in DOMAIN a}
    OBVIOUS
  <2>2. {a[j] : j \in DOMAIN a} \subseteq ArchiveData
    BY DEF ArchiveData, ArchiveBlocks
  <2> QED
    BY <1>1, <2>1, <2>2
<1> HIDE DEF p
<1>4. \A i \in 1 .. Len(a) : e(i) \in PackedBlock
  BY <1>2, <1>3 DEF PackedBlock
<1>5. \A i \in 1 .. Len(a) : e(i).packing = p /\ e(i).data = a[i] /\ e(i).last = (i \in {cut, Len(a)})
  OBVIOUS
<1> HIDE DEF e
<1>6. Pack(a, packing, cut) = [i \in 1 .. Len(a) |-> e(i)]
  BY <1>1 DEF Pack, e, p
<1>7. Pack(a, packing, cut) \in [1 .. Len(a) -> PackedBlock]
  BY <1>4, <1>6
<1>8. Pack(a, packing, cut) \in Seq(PackedBlock) /\ Len(Pack(a, packing, cut)) = Len(a)
  BY <1>1, <1>7
<1>9. \A i \in 1 .. Len(a) : Pack(a, packing, cut)[i] = e(i)
  BY <1>6
<1>10. Len(a) \in 1 .. Len(a)
  BY <1>1
<1> QED
  BY <1>1, <1>5, <1>8, <1>9, <1>10 DEF p

LEMMA StepOfStreamPublish ==
  ASSUME StreamInv, NEW a \in Archives, NEW p \in Packings, NEW h \in Hashes, NEW enc \in BOOLEAN,
         NEW cut \in {1, Len(a)}, Publish(a, p, cut, h, enc)
  PROVE  StreamInv'
<1>1. /\ streamPc = "begin" /\ streamPc' = IF enc THEN "encrypting" ELSE "published"
      /\ source' = [archive |-> a, packing |-> p, encrypted |-> enc, hash |-> h]
      /\ blob' = Pack(a, p, cut)
      /\ UNCHANGED <<opts, cipher, received, member, layerDir, damaged, faulty>>
  BY DEF Publish
<1>2. StreamTypeOK'
  BY <1>1 DEF StreamInv, StreamTypeOK
<1>3. BlobTyped'
  BY <1>1, PackedArchive DEF BlobTyped
<1>4. IsPacked(blob)'
  BY <1>1, PackedArchive DEF IsPacked, PackingOf
<1>5. Encrypting'
  BY <1>1, <1>4 DEF StreamInv, Uncounted, Encrypting, NoCipher
<1>6. Unread' /\ Uncounted'
  BY <1>1 DEF StreamInv, Unread, Uncounted
<1>7. AsPublished'
  BY <1>1, <1>4 DEF AsPublished, Clear
<1>8. Authenticating' /\ Unpacking' /\ StoredIsPublished'
  BY <1>1 DEF Authenticating, Unpacking, StoredIsPublished, EndIsAuthenticated, PublishedIsStored
<1> QED
  BY <1>2, <1>3, <1>5, <1>6, <1>7, <1>8 DEF StreamInv

\* A step to a failure for which the layer is not to blame.
LEMMA StepOfFault ==
  ASSUME StreamInv, streamPc' = "failed", faulty' = TRUE,
         UNCHANGED <<source, received, member, damaged>>,
         layerDir' \in BOOLEAN, opts' = opts, cipher' = cipher \/ cipher' = NoCipher
  PROVE  StreamInv'
<1>1. NoCipher \in [encrypt : BOOLEAN, done : BOOLEAN, mac : Seq(CipherBlock), expHmac : Seq(HmacParts),
                    key : Nat, nonce : Nat]
  BY DEF NoCipher
<1>2. StreamTypeOK'
  BY <1>1 DEF StreamInv, StreamTypeOK
<1>3. StoredIsPublished'
  BY DEF StoredIsPublished, EndIsAuthenticated, PublishedIsStored
<1> QED
  BY <1>2, <1>3, StreamOver

LEMMA StepOfEncrypt == ASSUME StreamInv, NEW typ \in Ciphers, Encrypt(typ) PROVE StreamInv'
<1>1. CASE typ # AES256CTR
  BY <1>1, StepOfFault DEF Encrypt, StreamInv, StreamTypeOK
<1>2. CASE typ = AES256CTR
  <2>1. /\ streamPc = "encrypting" /\ cipher = NoCipher
        /\ opts' = NewOpts /\ cipher' = InitCipher(TRUE, NewOpts)
        /\ UNCHANGED <<streamPc, faulty, source, blob, received, member, layerDir, damaged>>
    BY <1>2 DEF Encrypt
  <2>3. cipher' = [encrypt |-> TRUE, done |-> FALSE, mac |-> <<>>, expHmac |-> <<>>, key |-> 1, nonce |-> 1]
    BY <2>1 DEF InitCipher, GetOptNonce, NewOpts
  <2>4. NewOpts \in [cipherType : Ciphers \cup {"none"}, hmac : Seq(HmacParts), publicNonce : Nat, key : Nat,
                     nonce : Nat]
    BY StreamAssumption DEF NewOpts
  <2>5. cipher' \in [encrypt : BOOLEAN, done : BOOLEAN, mac : Seq(CipherBlock), expHmac : Seq(HmacParts),
                     key : Nat, nonce : Nat]
    BY <2>3
  <2>7. /\ cipher'.encrypt /\ ~ cipher'.done /\ cipher'.key = 1 /\ cipher'.nonce = 1
        /\ cipher'.mac = <<>> /\ Len(cipher'.mac) = 0
    BY <2>3
  <2>8. StreamTypeOK'
    BY <2>1, <2>4, <2>5 DEF StreamInv, StreamTypeOK
  <2>9. Encrypting'
    <3>1. source.encrypted /\ ~ damaged /\ ~ faulty /\ IsPacked(blob) /\ Len(blob) \in Nat
      BY <2>1 DEF StreamInv, Encrypting, BlobTyped
    <3>2. IsPacked(blob)'
      BY <2>1, <3>1 DEF IsPacked, PackingOf
    <3>3. Len(cipher'.mac) <= Len(blob') /\ Sealed(cipher'.mac, blob')
      <4>1. Len(cipher'.mac) = 0 /\ blob' = blob
        BY <2>1, <2>7
      <4>2. 1 .. Len(cipher'.mac) = {}
        BY <4>1
      <4> QED
        BY <3>1, <4>1, <4>2 DEF Sealed
    <3> QED
      BY <2>1, <2>7, <3>1, <3>2, <3>3 DEF Encrypting
  <2>10. BlobTyped' /\ Unread' /\ Uncounted' /\ AsPublished' /\ Authenticating' /\ Unpacking'
    BY <2>1 DEF StreamInv, BlobTyped, Unread, Uncounted, AsPublished, Authenticating, Unpacking
  <2>11. StoredIsPublished'
    BY <2>1, StillGoing DEF StoredIsPublished, EndIsAuthenticated, PublishedIsStored
  <2> QED
    BY <2>8, <2>9, <2>10, <2>11 DEF StreamInv
<1> QED
  BY <1>1, <1>2

\* The fields of the two records, in their types.
LEMMA StreamFields ==
  StreamTypeOK =>
    /\ cipher.mac \in Seq(CipherBlock) /\ cipher.key \in Nat /\ cipher.nonce \in Nat
    /\ cipher.encrypt \in BOOLEAN /\ cipher.done \in BOOLEAN /\ cipher.expHmac \in Seq(HmacParts)
    /\ opts.hmac \in Seq(HmacParts) /\ opts.key \in Nat /\ opts.nonce \in Nat /\ opts.publicNonce \in Nat
    /\ Len(received) \in Nat
BY DEF StreamTypeOK

LEMMA KeyedHmac ==
  ASSUME NEW k \in Nat, NEW mac \in Seq(CipherBlock)
  PROVE  <<k>> \o mac \in Seq(HmacParts) /\ <<k>> \o mac # <<>>
<1>1. mac \in Seq(HmacParts)
  BY SeqMonotonic DEF HmacParts
<1>2. <<k>> \in Seq(HmacParts) /\ Len(<<k>>) = 1
  BY DEF HmacParts
<1>3. Len(<<k>> \o mac) = 1 + Len(mac) /\ Len(mac) \in Nat /\ <<k>> \o mac \in Seq(HmacParts)
  BY <1>1, <1>2
<1>4. Len(<<k>> \o mac) # 0
  BY <1>3
<1> QED
  BY <1>3, <1>4, EmptySeq

LEMMA StepOfEncryptRead == ASSUME StreamInv, EncryptRead PROVE StreamInv'
<1> DEFINE pos == Len(cipher.mac) + 1
           c == [key |-> cipher.key, nonce |-> cipher.nonce, pos |-> pos, data |-> blob[pos]]
<1>1. /\ streamPc = "encrypting" /\ cipher.encrypt /\ ~ cipher.done
      /\ UNCHANGED <<streamPc, source, blob, opts, received, member, layerDir, damaged, faulty>>
  BY DEF EncryptRead
<1>2. /\ source.encrypted /\ ~ damaged /\ ~ faulty /\ IsPacked(blob)
      /\ (opts = NoOpts /\ cipher = NoCipher) \/ (opts = NewOpts /\ cipher.encrypt)
      /\ cipher.key = 1 /\ cipher.nonce = 1
      /\ Len(cipher.mac) <= Len(blob) /\ Sealed(cipher.mac, blob)
      /\ blob \in Seq(PackedBlock)
  BY <1>1 DEF StreamInv, Encrypting, BlobTyped
<1>3. opts = NewOpts
  BY <1>1, <1>2 DEF NoCipher
<1>4. /\ cipher.mac \in Seq(CipherBlock) /\ Len(cipher.mac) \in Nat /\ Len(blob) \in Nat
      /\ cipher \in [encrypt : BOOLEAN, done : BOOLEAN, mac : Seq(CipherBlock), expHmac : Seq(HmacParts),
                     key : Nat, nonce : Nat]
  BY <1>2 DEF StreamInv, StreamTypeOK
<1>5. IsPacked(blob)'
  BY <1>1, <1>2 DEF IsPacked, PackingOf
<1>6. ASSUME cipher' \in [encrypt : BOOLEAN, done : BOOLEAN, mac : Seq(CipherBlock), expHmac : Seq(HmacParts),
                          key : Nat, nonce : Nat],
             cipher'.encrypt, cipher'.key = 1, cipher'.nonce = 1,
             Len(cipher'.mac) <= Len(blob), Sealed(cipher'.mac, blob),
             cipher'.done => Len(cipher'.mac) = Len(blob) /\ cipher'.expHmac = <<cipher'.key>> \o cipher'.mac
      PROVE  StreamInv'
  <2>1. StreamTypeOK'
    BY <1>1, <1>6 DEF StreamInv, StreamTypeOK
  <2>2. Encrypting'
    BY <1>1, <1>2, <1>3, <1>5, <1>6 DEF Encrypting
  <2>3. BlobTyped' /\ Unread' /\ Uncounted' /\ AsPublished' /\ Authenticating' /\ Unpacking'
    BY <1>1 DEF StreamInv, BlobTyped, Unread, Uncounted, AsPublished, Authenticating, Unpacking
  <2>4. StoredIsPublished'
    BY <1>1 DEF StoredIsPublished, EndIsAuthenticated, PublishedIsStored
  <2> QED
    BY <2>1, <2>2, <2>3, <2>4 DEF StreamInv
<1>7. CASE pos <= Len(blob)
  <2>1. cipher' = [cipher EXCEPT !.mac = Append(@, c)]
    BY <1>7 DEF EncryptRead
  <2>2. blob[pos] \in PackedBlock /\ pos \in Nat
    BY <1>2, <1>4, <1>7
  <2>3. c \in CipherBlock /\ c.key = 1 /\ c.nonce = 1 /\ c.pos = pos /\ c.data = blob[pos]
    BY <1>2, <2>2 DEF CipherBlock
  <2> HIDE DEF c
  <2> DEFINE mac == Append(cipher.mac, c)
  <2>4. mac \in Seq(CipherBlock) /\ Len(mac) = pos /\ mac[pos] = c /\ \A i \in 1 .. Len(cipher.mac) : mac[i] = cipher.mac[i]
    BY <1>4, <2>3, AppendProperties
  <2>5. Sealed(mac, blob)
    BY <1>2, <1>4, <2>3, <2>4 DEF Sealed
  <2> HIDE DEF mac
  <2>6. cipher' = [cipher EXCEPT !.mac = mac]
    BY <2>1 DEF mac
  <2>7. /\ cipher' \in [encrypt : BOOLEAN, done : BOOLEAN, mac : Seq(CipherBlock), expHmac : Seq(HmacParts),
                        key : Nat, nonce : Nat]
        /\ cipher'.mac = mac /\ cipher'.encrypt = cipher.encrypt /\ cipher'.done = cipher.done
        /\ cipher'.key = cipher.key /\ cipher'.nonce = cipher.nonce
    BY <1>4, <2>4, <2>6
  <2> QED
    BY <1>1, <1>2, <1>6, <1>7, <2>4, <2>5, <2>7
<1>8. CASE ~ (pos <= Len(blob))
  <2> DEFINE e == <<cipher.key>> \o cipher.mac
  <2>1. cipher' = [cipher EXCEPT !.done = TRUE, !.expHmac = e]
    BY <1>8 DEF EncryptRead
  <2>2. e \in Seq(HmacParts) /\ e = <<1>> \o cipher.mac
    BY <1>2, <1>4, KeyedHmac
  <2> HIDE DEF e
  <2>3. cipher' = [encrypt |-> cipher.encrypt, done |-> TRUE, mac |-> cipher.mac, expHmac |-> e,
                   key |-> cipher.key, nonce |-> cipher.nonce]
    BY <1>4, <2>1
  <2>4. Len(cipher.mac) = Len(blob)
    BY <1>2, <1>4, <1>8
  <2>5. /\ cipher' \in [encrypt : BOOLEAN, done : BOOLEAN, mac : Seq(CipherBlock), expHmac : Seq(HmacParts),
                        key : Nat, nonce : Nat]
        /\ cipher'.mac = cipher.mac /\ cipher'.encrypt = cipher.encrypt /\ cipher'.expHmac = e
        /\ cipher'.key = cipher.key /\ cipher'.nonce = cipher.nonce
    BY <1>4, <2>2, <2>3
  <2> QED
    BY <1>1, <1>2, <1>6, <2>2, <2>4, <2>5
<1> QED
  BY <1>7, <1>8

LEMMA StepOfFinalize == ASSUME StreamInv, FinalizeLayer PROVE StreamInv'
<1>1. /\ streamPc = "encrypting" /\ cipher.encrypt /\ cipher' = NoCipher
      /\ UNCHANGED <<source, received, member, layerDir, damaged>>
  BY DEF FinalizeLayer
<1>2. CASE ~ cipher.done
  BY <1>1, <1>2, StepOfFault DEF FinalizeLayer, StreamInv, StreamTypeOK
<1>3. CASE cipher.done
  <2> DEFINE mac == cipher.mac
             clear == [i \in 1 .. Len(mac) |-> mac[i].data]
             e == cipher.expHmac
  <2>1. opts' = [opts EXCEPT !.hmac = e] /\ blob' = mac /\ streamPc' = "published" /\ UNCHANGED faulty
    BY <1>3 DEF FinalizeLayer
  <2>2. /\ source.encrypted /\ ~ damaged /\ ~ faulty /\ IsPacked(blob)
        /\ (opts = NoOpts /\ cipher = NoCipher) \/ (opts = NewOpts /\ cipher.encrypt)
        /\ Len(mac) = Len(blob) /\ Sealed(mac, blob) /\ e = <<1>> \o mac
        /\ blob \in Seq(PackedBlock)
    BY <1>1, <1>3 DEF StreamInv, Encrypting, BlobTyped
  <2>3. opts = NewOpts
    BY <1>1, <2>2 DEF NoCipher
  <2>4. mac \in Seq(CipherBlock) /\ e \in Seq(HmacParts) /\ Len(mac) \in Nat
    BY StreamFields DEF StreamInv
  <2>5. opts' = [cipherType |-> AES256CTR, hmac |-> e, publicNonce |-> 0, key |-> 1, nonce |-> 1]
    BY <2>1, <2>3 DEF NewOpts
  <2>6. \A i \in 1 .. Len(mac) : clear[i] = blob[i]
    BY <2>2 DEF Sealed
  <2>7. Len(clear) = Len(mac)
    BY <2>4
  <2>8. Clear' = clear
    BY <1>1, <2>1, <2>2 DEF Clear
  <2> HIDE DEF clear, mac, e
  <2>9. Sealed(mac, clear)
    BY <2>2, <2>6 DEF Sealed
  <2>10. IsPacked(clear)
    <3>1. Len(mac) \in 1 .. Len(mac)
      <4>1. \A a \in Archives : Len(a) \in Nat /\ Len(a) > 0
        BY StreamAssumption
      <4> QED
        BY <4>1, <2>2, <2>4 DEF IsPacked
    <3> QED
      BY <2>2, <2>6, <2>7, <3>1 DEF IsPacked
  <2>11. /\ opts'.cipherType = AES256CTR /\ opts'.hmac = <<1>> \o mac
         /\ opts'.key = 1 /\ opts'.nonce = 1 /\ opts'.publicNonce = 0
    BY <2>2, <2>5
  <2>12. IsPacked(Clear)'
    BY <1>1, <2>8, <2>10 DEF IsPacked, PackingOf
  <2>13. Sealed(blob, Clear)'
    BY <2>1, <2>8, <2>9 DEF Sealed, mac
  <2>14. AsPublished'
    BY <1>1, <2>1, <2>11, <2>12, <2>13 DEF AsPublished, mac
  <2>15. opts' \in [cipherType : Ciphers \cup {"none"}, hmac : Seq(HmacParts), publicNonce : Nat, key : Nat,
                    nonce : Nat]
    BY <2>4, <2>5, StreamAssumption
  <2>16. cipher' \in [encrypt : BOOLEAN, done : BOOLEAN, mac : Seq(CipherBlock), expHmac : Seq(HmacParts),
                      key : Nat, nonce : Nat]
    BY <1>1 DEF NoCipher
  <2>17. StreamTypeOK' /\ BlobTyped'
    BY <1>1, <2>1, <2>2, <2>4, <2>15, <2>16 DEF StreamInv, StreamTypeOK, BlobTyped, mac
  <2>18. Encrypting' /\ Unread' /\ Uncounted' /\ Authenticating' /\ Unpacking' /\ StoredIsPublished'
    BY <1>1, <2>1 DEF StreamInv, Encrypting, Unread, Uncounted, Authenticating, Unpacking, StoredIsPublished,
                      EndIsAuthenticated, PublishedIsStored
  <2> QED
    BY <2>14, <2>17, <2>18 DEF StreamInv
<1> QED
  BY <1>2, <1>3

LEMMA DamagedBlobs ==
  ASSUME NEW S, NEW s \in Seq(S), NEW i \in DOMAIN s
  PROVE  /\ RemoveAt(s, i) \in Seq(S)
         /\ Append(s, s[i]) \in Seq(S)
         /\ [s EXCEPT ![1] = s[i], ![i] = s[1]] \in Seq(S)
<1>1. Len(s) \in Nat /\ i \in 1 .. Len(s) /\ 1 \in 1 .. Len(s) /\ s[i] \in S /\ s[1] \in S
  BY LenProperties, ElementOfSeq
<1>2. RemoveAt(s, i) \in Seq(S)
  <2>1. SubSeq(s, 1, i - 1) \in Seq(S) /\ SubSeq(s, i + 1, Len(s)) \in Seq(S)
    BY <1>1
  <2> QED
    BY <2>1 DEF RemoveAt
<1>3. [s EXCEPT ![1] = s[i], ![i] = s[1]] \in Seq(S)
  <2> DEFINE t == [s EXCEPT ![1] = s[i]]
  <2>1. t \in Seq(S) /\ Len(t) = Len(s)
    BY <1>1, ExceptSeq
  <2> HIDE DEF t
  <2>2. [t EXCEPT ![i] = s[1]] \in Seq(S)
    BY <1>1, <2>1, ExceptSeq
  <2>3. [s EXCEPT ![1] = s[i], ![i] = s[1]] = [t EXCEPT ![i] = s[1]]
    BY DEF t
  <2> QED
    BY <2>2, <2>3
<1> QED
  BY <1>1, <1>2, <1>3

LEMMA StepOfDamage ==
  ASSUME StreamInv, NEW d \in Damages, Damage(d[1], d[2])
  PROVE  StreamInv'
<1>1. /\ streamPc = "published" /\ blob' = d[1] /\ opts' = d[2] /\ damaged' = TRUE
      /\ UNCHANGED <<streamPc, source, cipher, received, member, layerDir, faulty>>
  BY DEF Damage
<1>2. opts \in [cipherType : Ciphers \cup {"none"}, hmac : Seq(HmacParts), publicNonce : Nat, key : Nat,
                nonce : Nat]
  BY DEF StreamInv, StreamTypeOK
<1> DEFINE S == IF source.encrypted THEN CipherBlock ELSE PackedBlock
<1>3. blob \in Seq(S)
  BY <1>1 DEF StreamInv, BlobTyped
<1> HIDE DEF S
<1>4. d[1] \in Seq(S)
  <2>1. \A i \in DOMAIN blob : /\ RemoveAt(blob, i) \in Seq(S)
                               /\ Append(blob, blob[i]) \in Seq(S)
                               /\ [blob EXCEPT ![1] = blob[i], ![i] = blob[1]] \in Seq(S)
    BY <1>3, DamagedBlobs
  <2> DEFINE blobs == {RemoveAt(blob, i) : i \in DOMAIN blob}
                      \cup {Append(blob, blob[i]) : i \in DOMAIN blob}
                      \cup {[blob EXCEPT ![1] = blob[i], ![i] = blob[1]] : i \in DOMAIN blob}
  <2>2. blobs \subseteq Seq(S)
    BY <2>1
  <2>3. d[1] \in blobs \cup {blob}
    BY DEF Damages
  <2> QED
    BY <1>3, <2>2, <2>3
<1>5. d[2] \in [cipherType : Ciphers \cup {"none"}, hmac : Seq(HmacParts), publicNonce : Nat, key : Nat,
                nonce : Nat]
  <2> DEFINE keyed == <<1>>
  <2>1. ASSUME NEW h \in {opts.hmac, <<>>, keyed}, NEW n \in {0, 2}
        PROVE  [opts EXCEPT !.hmac = h, !.publicNonce = n] \in
                 [cipherType : Ciphers \cup {"none"}, hmac : Seq(HmacParts), publicNonce : Nat, key : Nat,
                  nonce : Nat]
    <3>1. h \in Seq(HmacParts)
      <4>1. 1 \in HmacParts
        BY DEF HmacParts
      <4>2. <<1>> \in Seq(HmacParts)
        BY <4>1
      <4>3. <<>> \in Seq(HmacParts) /\ opts.hmac \in Seq(HmacParts)
        BY <1>2
      <4> QED
        BY <4>2, <4>3
    <3>2. n \in Nat
      OBVIOUS
    <3> QED
      BY <1>2, <3>1, <3>2
  <2>2. ASSUME NEW c \in Ciphers
        PROVE  [opts EXCEPT !.cipherType = c] \in
                 [cipherType : Ciphers \cup {"none"}, hmac : Seq(HmacParts), publicNonce : Nat, key : Nat,
                  nonce : Nat]
    BY <1>2
  <2>3. \/ d[2] = opts
        \/ \E h \in {opts.hmac, <<>>, <<1>>}, n \in {0, 2} : d[2] = [opts EXCEPT !.hmac = h, !.publicNonce = n]
        \/ \E c \in Ciphers : d[2] = [opts EXCEPT !.cipherType = c]
    BY DEF Damages
  <2> QED
    BY <1>2, <2>1, <2>2, <2>3
<1>6. StreamTypeOK' /\ BlobTyped'
  BY <1>1, <1>4, <1>5 DEF StreamInv, StreamTypeOK, BlobTyped, S
<1>7. /\ Encrypting' /\ Unread' /\ Uncounted' /\ AsPublished' /\ Authenticating' /\ Unpacking'
      /\ StoredIsPublished'
  BY <1>1 DEF StreamInv, Encrypting, Unread, Uncounted, AsPublished, Authenticating, Unpacking,
              StoredIsPublished, EndIsAuthenticated, PublishedIsStored
<1> QED
  BY <1>6, <1>7 DEF StreamInv

\* The cipher a layer is opened with.
LEMMA OpenedCipher ==
  ASSUME StreamTypeOK, NEW key \in Nat,
         cipher' = [encrypt |-> FALSE, done |-> FALSE, mac |-> <<>>, expHmac |-> opts.hmac, key |-> key,
                    nonce |-> GetOptNonce(opts)]
  PROVE  /\ cipher' \in [encrypt : BOOLEAN, done : BOOLEAN, mac : Seq(CipherBlock), expHmac : Seq(HmacParts),
                         key : Nat, nonce : Nat]
         /\ cipher'.mac = <<>> /\ cipher'.expHmac = opts.hmac /\ cipher'.key = key
         /\ opts.publicNonce = 0 => cipher'.nonce = opts.nonce
<1>1. opts.hmac \in Seq(HmacParts) /\ opts.nonce \in Nat /\ opts.publicNonce \in Nat
  BY StreamFields
<1>2. GetOptNonce(opts) \in Nat /\ (opts.publicNonce = 0 => GetOptNonce(opts) = opts.nonce)
  BY <1>1 DEF GetOptNonce
<1> QED
  BY <1>1, <1>2

LEMMA OpeningCipher ==
  ASSUME StreamTypeOK, NEW key \in Nat
  PROVE  InitCipher(FALSE, [opts EXCEPT !.key = key]) =
         [encrypt |-> FALSE, done |-> FALSE, mac |-> <<>>, expHmac |-> opts.hmac, key |-> key,
          nonce |-> GetOptNonce(opts)]
BY DEF InitCipher, GetOptNonce, StreamTypeOK

LEMMA StepOfOpenLayer == ASSUME StreamInv, NEW key \in {0, 1, 2}, OpenLayer(key) PROVE StreamInv'
<1> DEFINE o == [opts EXCEPT !.key = key]
<1>1. /\ streamPc = "published" /\ faulty' = (IsEncrypted /\ key # opts.key)
      /\ UNCHANGED <<source, blob, opts, received, member, damaged>>
  BY DEF OpenLayer
<1>2. /\ received = <<>> /\ member = "closed" /\ cipher = NoCipher
      /\ blob \in Seq(IF source.encrypted THEN CipherBlock ELSE PackedBlock)
  BY <1>1 DEF StreamInv, Unread, Uncounted, BlobTyped
<1>3. faulty' \in BOOLEAN
  BY <1>1
<1>4. CASE ~ ((IsEncrypted => Decryptable(o)) /\ Decoder # "other" /\ Hashed)
  <2>1. streamPc' = "failed" /\ UNCHANGED <<cipher, layerDir>>
    BY <1>4 DEF OpenLayer
  <2>2. StreamTypeOK'
    BY <1>1, <1>3, <2>1 DEF StreamInv, StreamTypeOK
  <2>3. ASSUME ~ damaged, ~ faulty', source.hash # "md5:", source.packing # "other",
               source.packing \in {"zstd", "docker"} => ~ source.encrypted
        PROVE  FALSE
    <3>1. source.packing \in Packings /\ source.encrypted \in BOOLEAN /\ source.hash \in Hashes
      BY DEF StreamInv, StreamTypeOK
    <3>2. source.encrypted => IsEncrypted
      BY <2>3, <3>1 DEF IsEncrypted, Packings
    <3>3. Hashed /\ Decoder # "other"
      BY <2>3, <3>1, <3>2 DEF Hashed, Hashes, Decoder
    <3>4. ASSUME IsEncrypted PROVE Decryptable(o)
      <4>1. key = opts.key /\ source.encrypted
        BY <1>1, <2>3, <3>4 DEF IsEncrypted
      <4>2. opts.cipherType = AES256CTR /\ opts.hmac = <<1>> \o blob /\ opts.key = 1
        BY <1>1, <2>3, <4>1 DEF StreamInv, AsPublished
      <4>3. <<1>> \o blob # <<>>
        BY <1>2, <4>1, KeyedHmac
      <4>4. o.key = key /\ o.hmac = opts.hmac /\ o.cipherType = opts.cipherType
        BY DEF StreamInv, StreamTypeOK
      <4> QED
        BY <4>1, <4>2, <4>3, <4>4 DEF Decryptable
    <3> QED
      BY <1>4, <3>3, <3>4
  <2>4. StoredIsPublished'
    BY <1>1, <2>1, <2>3 DEF StoredIsPublished, EndIsAuthenticated, PublishedIsStored
  <2> QED
    BY <2>1, <2>2, <2>4, StreamOver
<1>5. CASE (IsEncrypted => Decryptable(o)) /\ Decoder # "other" /\ Hashed
  <2>1. /\ cipher' = IF IsEncrypted THEN InitCipher(FALSE, o) ELSE cipher
        /\ layerDir' = TRUE /\ streamPc' = "reading"
    BY <1>5 DEF OpenLayer
  <2>2. /\ cipher' \in [encrypt : BOOLEAN, done : BOOLEAN, mac : Seq(CipherBlock), expHmac : Seq(HmacParts),
                        key : Nat, nonce : Nat]
        /\ IsEncrypted => /\ cipher'.mac = <<>> /\ cipher'.expHmac = opts.hmac /\ cipher'.key = key
                          /\ opts.publicNonce = 0 => cipher'.nonce = opts.nonce
    <3>1. CASE IsEncrypted
      <4>1. cipher' = [encrypt |-> FALSE, done |-> FALSE, mac |-> <<>>, expHmac |-> opts.hmac, key |-> key,
                       nonce |-> GetOptNonce(opts)]
        BY <2>1, <3>1, OpeningCipher DEF StreamInv
      <4> QED
        BY <4>1, OpenedCipher DEF StreamInv
    <3>2. CASE ~ IsEncrypted
      BY <2>1, <3>2 DEF StreamInv, StreamTypeOK
    <3> QED
      BY <3>1, <3>2
  <2> HIDE DEF o
  <2>3. StreamTypeOK' /\ BlobTyped'
    BY <1>1, <1>2, <1>3, <2>1, <2>2 DEF StreamInv, StreamTypeOK, BlobTyped
  <2>4. IsEncrypted' = IsEncrypted /\ Decoder' = Decoder /\ Clear' = Clear
    BY <1>1 DEF IsEncrypted, Decoder, Clear
  <2>5. source.encrypted => IsEncrypted
    BY <1>5 DEF Decoder
  <2>6. Len(received') = 0 /\ 1 .. Len(received') = {} /\ Len(blob') \in Nat
    BY <1>1, <1>2
  <2>7. Authenticating'
    BY <1>1, <2>2, <2>4, <2>5, <2>6 DEF Authenticating
  <2>8. AsPublished'
    BY <1>1, <2>1, <2>4 DEF StreamInv, AsPublished, IsPacked, PackingOf, Sealed
  <2>9. Unpacking'
    <3>1. ASSUME ~ damaged, ~ faulty', IsEncrypted PROVE cipher'.key = 1 /\ cipher'.nonce = 1
      <4>1. source.encrypted /\ key = opts.key
        BY <1>1, <3>1 DEF IsEncrypted
      <4>2. opts.key = 1 /\ opts.nonce = 1 /\ opts.publicNonce = 0
        BY <1>1, <3>1, <4>1 DEF StreamInv, AsPublished
      <4> QED
        BY <2>2, <3>1, <4>1, <4>2
    <3> QED
      BY <1>1, <1>2, <1>5, <2>1, <2>4, <2>6, <3>1 DEF Unpacking
  <2>10. Encrypting' /\ Unread' /\ Uncounted' /\ StoredIsPublished'
    BY <2>1 DEF Encrypting, Unread, Uncounted, StoredIsPublished, EndIsAuthenticated, PublishedIsStored
  <2> QED
    BY <2>3, <2>7, <2>8, <2>9, <2>10 DEF StreamInv
<1> QED
  BY <1>4, <1>5

LEMMA StepOfOpenPlaintext == ASSUME StreamInv, NEW key \in {0, 1, 2}, OpenPlaintext(key) PROVE StreamInv'
<1> DEFINE o == [opts EXCEPT !.key = key]
<1>1. /\ streamPc = "published" /\ faulty' = TRUE
      /\ UNCHANGED <<source, blob, opts, received, member, layerDir, damaged>>
  BY DEF OpenPlaintext
<1>2. CASE ~ (IsEncrypted /\ Decryptable(o))
  <2>1. streamPc' = "failed" /\ UNCHANGED cipher
    BY <1>2 DEF OpenPlaintext
  <2> QED
    BY <1>1, <2>1, StepOfFault DEF StreamInv, StreamTypeOK
<1>3. CASE IsEncrypted /\ Decryptable(o)
  <2>1. streamPc' = "reading" /\ cipher' = InitCipher(FALSE, o)
    BY <1>3 DEF OpenPlaintext
  <2>2. cipher' = [encrypt |-> FALSE, done |-> FALSE, mac |-> <<>>, expHmac |-> opts.hmac, key |-> key,
                   nonce |-> GetOptNonce(opts)]
    BY <2>1, OpeningCipher DEF StreamInv
  <2>3. /\ cipher' \in [encrypt : BOOLEAN, done : BOOLEAN, mac : Seq(CipherBlock), expHmac : Seq(HmacParts),
                        key : Nat, nonce : Nat]
        /\ cipher'.mac = <<>> /\ cipher'.expHmac = opts.hmac
    BY <2>2, OpenedCipher DEF StreamInv
  <2>4. streamPc' = "reading"
    BY <2>1
  <2>5. received = <<>> /\ blob \in Seq(IF source.encrypted THEN CipherBlock ELSE PackedBlock)
    BY <1>1 DEF StreamInv, Unread, BlobTyped
  <2>6. StreamTypeOK' /\ BlobTyped'
    BY <1>1, <2>3, <2>4, <2>5 DEF StreamInv, StreamTypeOK, BlobTyped
  <2>7. Len(received') = 0 /\ 1 .. Len(received') = {} /\ Len(blob') \in Nat
    BY <1>1, <2>5
  <2>8. IsEncrypted' = IsEncrypted /\ Clear' = Clear
    BY <1>1 DEF IsEncrypted, Clear
  <2>9. Authenticating'
    BY <1>1, <1>3, <2>3, <2>7, <2>8 DEF Authenticating
  <2>10. AsPublished'
    BY <1>1, <2>4, <2>8 DEF StreamInv, AsPublished, IsPacked, PackingOf, Sealed
  <2>11. Encrypting' /\ Unread' /\ Uncounted' /\ Unpacking' /\ StoredIsPublished'
    BY <1>1, <2>4 DEF Encrypting, Unread, Uncounted, Unpacking, StoredIsPublished, EndIsAuthenticated, PublishedIsStored
  <2> QED
    BY <2>6, <2>9, <2>10, <2>11 DEF StreamInv
<1> QED
  BY <1>2, <1>3

\* The next block is one of the archive's, when the layer is as it was published.
LEMMA NextBlocks ==
  ASSUME StreamInv, streamPc = "reading", Taken # Len(blob)
  PROVE  /\ Taken + 1 \in 1 .. Len(blob) /\ Taken \in Nat /\ Len(blob) \in Nat
         /\ NextBlock \in PackedBlock
         /\ IsEncrypted => blob[Taken + 1] \in CipherBlock
         /\ ~ damaged /\ ~ faulty => NextBlock = Clear[Taken + 1]
<1>1. /\ Taken <= Len(blob) /\ (source.encrypted => IsEncrypted) /\ (IsEncrypted => source.encrypted)
      /\ blob \in Seq(IF source.encrypted THEN CipherBlock ELSE PackedBlock)
      /\ received \in Seq(ArchiveData)
  BY DEF StreamInv, Authenticating, BlobTyped, StreamTypeOK, Taken, IsEncrypted
<1>2. Taken \in Nat /\ Len(blob) \in Nat /\ Taken + 1 \in 1 .. Len(blob)
  BY <1>1 DEF Taken
<1>3. Garbage \in PackedBlock
  <2>1. "garbage" \in ArchiveData
    BY DEF ArchiveData
  <2> QED
    BY <2>1 DEF Garbage, PackedBlock
<1>4. CASE ~ source.encrypted
  <2>1. NextBlock = blob[Taken + 1] /\ blob[Taken + 1] \in PackedBlock
    BY <1>1, <1>2, <1>4 DEF NextBlock
  <2>2. Clear = blob
    BY <1>4 DEF Clear
  <2> QED
    BY <1>1, <1>2, <1>4, <2>1, <2>2
<1>5. CASE source.encrypted
  <2> DEFINE c == blob[Taken + 1]
  <2>1. c \in CipherBlock /\ NextBlock = Decrypted(c, Taken + 1)
    BY <1>1, <1>2, <1>5 DEF NextBlock
  <2>2. Decrypted(c, Taken + 1) \in {c.data, Garbage} /\ c.data \in PackedBlock
    BY <2>1 DEF Decrypted, CipherBlock
  <2>3. ASSUME ~ damaged, ~ faulty PROVE NextBlock = Clear[Taken + 1]
    <3>1. Sealed(blob, Clear) /\ cipher.key = 1 /\ cipher.nonce = 1
      BY <1>1, <1>5, <2>3 DEF StreamInv, AsPublished, Unpacking
    <3>2. c.key = 1 /\ c.nonce = 1 /\ c.pos = Taken + 1 /\ c.data = Clear[Taken + 1]
      BY <1>2, <3>1 DEF Sealed
    <3> QED
      BY <2>1, <3>1, <3>2 DEF Decrypted
  <2> QED
    BY <1>1, <1>2, <1>3, <1>5, <2>1, <2>2, <2>3
<1> QED
  BY <1>4, <1>5

\* The blocks of a layer that is as it was published decode.
LEMMA PublishedDecodes ==
  ASSUME StreamInv, streamPc = "reading", Taken # Len(blob), ~ damaged, ~ faulty,
         source.packing # "other"
  PROVE  Decodes(NextBlock) /\ NextBlock # Garbage
<1>1. NextBlock = Clear[Taken + 1] /\ Taken + 1 \in 1 .. Len(blob)
  BY NextBlocks
<1>2. IsPacked(Clear) /\ Decoder # "other" /\ source.packing \in Packings /\ (source.encrypted => IsEncrypted)
  BY DEF StreamInv, AsPublished, Unpacking, StreamTypeOK, Authenticating
<1>3. Len(Clear) = Len(blob)
  BY NextBlocks DEF Clear
<1>4. NextBlock.packing = PackingOf
  BY <1>1, <1>2, <1>3 DEF IsPacked
<1>5. PackingOf # "garbage"
  BY <1>2 DEF PackingOf, Packings
<1>6. Garbage.packing = "garbage"
  BY DEF Garbage
<1>7. Decoder = PackingOf
  BY <1>2 DEF Decoder, PackingOf
<1> QED
  BY <1>4, <1>5, <1>6, <1>7 DEF Decodes

LEMMA StepOfReadBlock == ASSUME StreamInv, ReadBlock PROVE StreamInv'
<1> DEFINE n == Taken + 1
           mac == Append(cipher.mac, blob[n])
<1>1. /\ streamPc = "reading" /\ ~ AtEnd
      /\ received' = Append(received, NextBlock.data)
      /\ member' = IF NextBlock.last THEN "closed" ELSE "open"
      /\ cipher' = IF IsEncrypted THEN [cipher EXCEPT !.mac = mac] ELSE cipher
      /\ UNCHANGED <<streamPc, source, blob, opts, layerDir, damaged, faulty>>
  BY DEF ReadBlock
<1>2. Taken # Len(blob)
  BY <1>1 DEF AtEnd
<1>3. /\ n \in 1 .. Len(blob) /\ Taken \in Nat /\ Len(blob) \in Nat
      /\ NextBlock \in PackedBlock /\ NextBlock.data \in ArchiveData
      /\ IsEncrypted => blob[n] \in CipherBlock
      /\ ~ damaged /\ ~ faulty => NextBlock = Clear[n]
  BY <1>1, <1>2, NextBlocks DEF PackedBlock
<1>4. /\ cipher \in [encrypt : BOOLEAN, done : BOOLEAN, mac : Seq(CipherBlock), expHmac : Seq(HmacParts),
                     key : Nat, nonce : Nat]
      /\ cipher.mac \in Seq(CipherBlock) /\ received \in Seq(ArchiveData)
  BY StreamFields DEF StreamInv, StreamTypeOK
<1>5. /\ received' \in Seq(ArchiveData) /\ Len(received') = n /\ received'[n] = NextBlock.data
      /\ \A i \in 1 .. Taken : received'[i] = received[i]
  BY <1>1, <1>3, <1>4, AppendProperties DEF Taken
<1>6. IsEncrypted' = IsEncrypted /\ Clear' = Clear /\ Decoder' = Decoder
  BY <1>1 DEF IsEncrypted, Clear, Decoder
<1>7. /\ source.encrypted => IsEncrypted
      /\ IsEncrypted => /\ Len(cipher.mac) = Taken /\ \A i \in 1 .. Taken : cipher.mac[i] = blob[i]
                        /\ cipher.expHmac = opts.hmac
  BY <1>1 DEF StreamInv, Authenticating, Taken
<1>8. /\ cipher' \in [encrypt : BOOLEAN, done : BOOLEAN, mac : Seq(CipherBlock), expHmac : Seq(HmacParts),
                      key : Nat, nonce : Nat]
      /\ cipher'.key = cipher.key /\ cipher'.nonce = cipher.nonce
      /\ IsEncrypted => /\ Len(cipher'.mac) = n /\ \A i \in 1 .. n : cipher'.mac[i] = blob[i]
                        /\ cipher'.expHmac = opts.hmac
  <2>1. CASE IsEncrypted
    <3>1. mac \in Seq(CipherBlock) /\ Len(mac) = n /\ mac[n] = blob[n] /\ \A i \in 1 .. Taken : mac[i] = cipher.mac[i]
      BY <1>3, <1>4, <1>7, <2>1, AppendProperties
    <3>2. \A i \in 1 .. n : mac[i] = blob[i]
      BY <1>3, <1>7, <2>1, <3>1
    <3> HIDE DEF mac
    <3>3. cipher' = [cipher EXCEPT !.mac = mac]
      BY <1>1, <2>1
    <3>4. cipher' \in [encrypt : BOOLEAN, done : BOOLEAN, mac : Seq(CipherBlock), expHmac : Seq(HmacParts),
                       key : Nat, nonce : Nat]
      BY <1>4, <3>1, <3>3
    <3>5. cipher'.mac = mac /\ cipher'.key = cipher.key /\ cipher'.nonce = cipher.nonce /\ cipher'.expHmac = cipher.expHmac
      BY <1>4, <3>3
    <3> QED
      BY <1>7, <2>1, <3>1, <3>2, <3>4, <3>5
  <2>2. CASE ~ IsEncrypted
    BY <1>1, <1>4, <2>2
  <2> QED
    BY <2>1, <2>2
<1> HIDE DEF n, mac
<1>9. StreamTypeOK' /\ BlobTyped'
  BY <1>1, <1>5, <1>8 DEF StreamInv, StreamTypeOK, BlobTyped
<1>10. Authenticating'
  BY <1>1, <1>3, <1>5, <1>6, <1>7, <1>8 DEF Authenticating
<1>11. AsPublished'
  BY <1>1, <1>6 DEF StreamInv, AsPublished, IsPacked, PackingOf, Sealed
<1>12. Unpacking'
  <2> SUFFICES ASSUME ~ damaged, ~ faulty
               PROVE  /\ layerDir /\ Decoder # "other"
                      /\ \A i \in 1 .. n : received'[i] = source.archive[i]
                      /\ member' = "closed" <=> Clear[n].last
                      /\ IsEncrypted => cipher'.key = 1 /\ cipher'.nonce = 1
    BY <1>1, <1>3, <1>5, <1>6 DEF Unpacking
  <2>1. /\ layerDir /\ Decoder # "other"
        /\ \A i \in 1 .. Taken : received[i] = source.archive[i]
        /\ IsEncrypted => cipher.key = 1 /\ cipher.nonce = 1
    BY <1>1 DEF StreamInv, Unpacking, Taken
  <2>2. IsPacked(Clear)
    BY <1>1 DEF StreamInv, AsPublished
  <2>3. Len(Clear) = Len(blob)
    BY <1>3 DEF Clear
  <2>4. NextBlock.data = source.archive[n]
    BY <1>3, <2>2, <2>3 DEF IsPacked
  <2>5. \A i \in 1 .. n : received'[i] = source.archive[i]
    BY <1>3, <1>5, <2>1, <2>4 DEF n
  <2> QED
    BY <1>1, <1>3, <1>8, <2>1, <2>5
<1>13. Encrypting' /\ Unread' /\ Uncounted' /\ StoredIsPublished'
  BY <1>1 DEF Encrypting, Unread, Uncounted, StoredIsPublished, EndIsAuthenticated, PublishedIsStored
<1> QED
  BY <1>9, <1>10, <1>11, <1>12, <1>13 DEF StreamInv

\* A failed read, a failed removal or the refusal of a build: steps of no blame.
LEMMA StepOfReadFails == ASSUME StreamInv, NEW removed \in BOOLEAN, ReadFails(removed) PROVE StreamInv'
BY StepOfFault DEF ReadFails, RollBack, StreamInv, StreamTypeOK

LEMMA StepOfRefuseEncrypted == ASSUME StreamInv, RefuseEncrypted PROVE StreamInv'
BY StepOfFault DEF RefuseEncrypted, StreamInv, StreamTypeOK

\* Unpacking fails: the layer must be to blame.
LEMMA RolledBack ==
  ASSUME StreamInv, NEW removed \in BOOLEAN, RollBack(removed), UNCHANGED faulty, PublishedIsStored'
  PROVE  StreamInv'
<1>1. /\ streamPc' = "failed" /\ layerDir' \in BOOLEAN
      /\ UNCHANGED <<source, blob, opts, cipher, received, member, damaged, faulty>>
  BY DEF RollBack, StreamInv, StreamTypeOK
<1>2. StreamTypeOK'
  BY <1>1 DEF StreamInv, StreamTypeOK
<1>3. StoredIsPublished'
  BY <1>1 DEF StoredIsPublished, EndIsAuthenticated
<1> QED
  BY <1>1, <1>2, <1>3, StreamOver

LEMMA StepOfBadBlock == ASSUME StreamInv, NEW removed \in BOOLEAN, BadBlock(removed) PROVE StreamInv'
<1>1. /\ streamPc = "reading" /\ ~ AtEnd /\ RollBack(removed) /\ UNCHANGED <<source, damaged, faulty>>
      /\ ~ Decodes(NextBlock) \/ NextBlock = Garbage
  BY DEF BadBlock, RollBack
<1>2. Taken # Len(blob)
  BY <1>1 DEF AtEnd
<1>3. PublishedIsStored'
  BY <1>1, <1>2, PublishedDecodes DEF PublishedIsStored
<1> QED
  BY <1>1, <1>3, RolledBack

\* At the end of an encrypted blob the HMAC was taken over all of it.
LEMMA EncryptedEnd ==
  ASSUME StreamInv, streamPc = "reading", AtEnd, IsEncrypted
  PROVE  cipher.mac = blob /\ cipher.expHmac = opts.hmac /\ Taken = Len(blob)
<1>1. /\ Taken <= Len(blob) /\ Len(cipher.mac) = Taken
      /\ \A i \in 1 .. Taken : cipher.mac[i] = blob[i]
      /\ cipher.expHmac = opts.hmac /\ blob \in Seq(CipherBlock) /\ cipher.mac \in Seq(CipherBlock)
  BY StreamFields DEF StreamInv, Authenticating, BlobTyped, Taken, IsEncrypted
<1>2. Decoder # "zstd"
  BY DEF Decoder, IsEncrypted
<1>3. Taken = Len(blob)
  BY <1>2 DEF AtEnd
<1>4. cipher.mac = blob
  BY <1>1, <1>3, SeqEqual
<1> QED
  BY <1>1, <1>3, <1>4

\* The end of a layer that is as it was published, in one frame when it is zstd, is the
\* end of the archive.
LEMMA PublishedEnd ==
  ASSUME StreamInv, streamPc = "reading", AtEnd, ~ damaged, ~ faulty,
         source.packing = "zstd" => \A i \in 1 .. Len(blob) - 1 : ~ blob[i].last
  PROVE  Complete /\ received = source.archive
<1>1. /\ layerDir /\ IsPacked(Clear)
      /\ \A i \in 1 .. Len(received) : received[i] = source.archive[i]
      /\ member = "closed" <=> (Len(received) = 0 \/ Clear[Len(received)].last)
      /\ IsEncrypted => cipher.key = 1 /\ source.encrypted /\ opts.hmac = <<1>> \o blob
  BY DEF StreamInv, Unpacking, AsPublished, IsEncrypted
<1>2. /\ Len(blob) \in Nat /\ Taken \in Nat /\ Taken <= Len(blob) /\ received \in Seq(ArchiveData)
      /\ source.encrypted => IsEncrypted
      /\ member \in {"open", "closed"}
  BY DEF StreamInv, BlobTyped, Authenticating, StreamTypeOK, Taken
<1>3. Len(Clear) = Len(blob)
  BY <1>2 DEF Clear
<1>4. Taken = Len(blob)
  <2> SUFFICES ASSUME Taken # Len(blob) PROVE FALSE
    OBVIOUS
  <2>1. Decoder = "zstd" /\ Taken > 0 /\ member = "closed"
    BY DEF AtEnd
  <2>2. source.packing = "zstd" /\ ~ source.encrypted
    BY <2>1, <1>2 DEF Decoder, IsEncrypted
  <2>3. Clear = blob /\ Taken \in 1 .. Len(blob) - 1
    BY <1>2, <2>1, <2>2 DEF Clear
  <2>4. Clear[Taken].last
    BY <1>1, <2>1, <1>2 DEF Taken
  <2> QED
    BY <2>2, <2>3, <2>4
<1>5. source.archive \in Archives /\ Len(source.archive) = Taken /\ Clear[Taken].last
  BY <1>1, <1>3, <1>4 DEF IsPacked
<1>6. received = source.archive
  <2>1. source.archive \in Seq(ArchiveData)
    BY <1>5, ArchiveTyped
  <2> QED
    BY <1>1, <1>2, <1>5, <2>1, SeqEqual DEF Taken
<1>7. MacVerified
  BY <1>1, EncryptedEnd DEF MacVerified
<1>8. member = "closed"
  BY <1>1, <1>5 DEF Taken
<1> QED
  BY <1>6, <1>7, <1>8 DEF Complete

LEMMA StepOfEndFails == ASSUME StreamInv, NEW removed \in BOOLEAN, EndFails(removed) PROVE StreamInv'
<1>1. /\ streamPc = "reading" /\ AtEnd /\ ~ Complete /\ RollBack(removed)
      /\ UNCHANGED <<source, blob, damaged, faulty>>
  BY DEF EndFails, RollBack
<1>2. PublishedIsStored'
  BY <1>1, PublishedEnd DEF PublishedIsStored
<1> QED
  BY <1>1, <1>2, RolledBack

LEMMA StepOfEndOfStream == ASSUME StreamInv, EndOfStream PROVE StreamInv'
<1>1. /\ streamPc = "reading" /\ AtEnd /\ Complete
      /\ streamPc' = IF ~ layerDir THEN "plaintext"
                     ELSE IF received = source.archive THEN "stored" ELSE "failed"
      /\ cipher' = [cipher EXCEPT !.done = TRUE]
      /\ UNCHANGED <<source, blob, opts, received, member, layerDir, damaged, faulty>>
  BY DEF EndOfStream
<1>2. cipher \in [encrypt : BOOLEAN, done : BOOLEAN, mac : Seq(CipherBlock), expHmac : Seq(HmacParts),
                  key : Nat, nonce : Nat]
  BY DEF StreamInv, StreamTypeOK
<1>3. /\ cipher' \in [encrypt : BOOLEAN, done : BOOLEAN, mac : Seq(CipherBlock), expHmac : Seq(HmacParts),
                      key : Nat, nonce : Nat]
      /\ cipher'.mac = cipher.mac /\ cipher'.key = cipher.key
  BY <1>1, <1>2
<1>4. StreamTypeOK' /\ streamPc' \in {"stored", "plaintext", "failed"}
  BY <1>1, <1>3 DEF StreamInv, StreamTypeOK
<1>5. IsEncrypted' = IsEncrypted
  BY <1>1 DEF IsEncrypted
<1>6. EndIsAuthenticated'
  <2> SUFFICES ASSUME IsEncrypted PROVE cipher.mac = blob /\ opts.hmac = <<cipher.key>> \o blob
    BY <1>1, <1>3, <1>5 DEF EndIsAuthenticated
  <2>1. cipher.mac = blob /\ cipher.expHmac = opts.hmac
    BY <1>1, EncryptedEnd
  <2> QED
    BY <1>1, <2>1 DEF Complete, MacVerified
<1>7. PublishedIsStored'
  BY <1>1, PublishedEnd DEF PublishedIsStored
<1> QED
  BY <1>4, <1>6, <1>7, StreamOver DEF StoredIsPublished

LEMMA StreamNextInv == StreamInv /\ [StreamNext]_streamVars => StreamInv'
<1> SUFFICES ASSUME StreamInv, [StreamNext]_streamVars PROVE StreamInv'
  OBVIOUS
<1>1. ASSUME NEW a \in Archives, NEW p \in Packings, NEW h \in Hashes, NEW enc \in BOOLEAN,
             NEW cut \in {1, Len(a)}, Publish(a, p, cut, h, enc)
      PROVE  StreamInv'
  BY <1>1, StepOfStreamPublish
<1>2. ASSUME NEW typ \in Ciphers, Encrypt(typ) PROVE StreamInv'
  BY <1>2, StepOfEncrypt
<1>3. ASSUME NEW d \in Damages, Damage(d[1], d[2]) PROVE StreamInv'
  BY <1>3, StepOfDamage
<1>4. ASSUME NEW key \in {0, 1, 2}, OpenLayer(key) \/ OpenPlaintext(key) PROVE StreamInv'
  BY <1>4, StepOfOpenLayer, StepOfOpenPlaintext
<1>5. ASSUME NEW removed \in BOOLEAN, BadBlock(removed) \/ ReadFails(removed) \/ EndFails(removed)
      PROVE  StreamInv'
  BY <1>5, StepOfBadBlock, StepOfReadFails, StepOfEndFails
<1>6. CASE EncryptRead \/ FinalizeLayer \/ RefuseEncrypted \/ ReadBlock \/ EndOfStream
  BY <1>6, StepOfEncryptRead, StepOfFinalize, StepOfRefuseEncrypted, StepOfReadBlock, StepOfEndOfStream
<1>7. ASSUME UNCHANGED streamVars PROVE StreamInv'
  <2>1. UNCHANGED <<streamPc, source, blob, opts, cipher, received, member, layerDir, damaged, faulty>>
    BY <1>7 DEF streamVars
  <2>2. /\ IsEncrypted' = IsEncrypted /\ Decoder' = Decoder /\ Clear' = Clear /\ PackingOf' = PackingOf
        /\ EndIsAuthenticated' = EndIsAuthenticated /\ PublishedIsStored' = PublishedIsStored
    BY <2>1 DEF IsEncrypted, Decoder, Clear, PackingOf, EndIsAuthenticated, PublishedIsStored
  <2>3. StreamTypeOK' /\ BlobTyped' /\ Unread' /\ Uncounted'
    BY <2>1 DEF StreamInv, StreamTypeOK, BlobTyped, Unread, Uncounted
  <2>4. Encrypting'
    BY <2>1, <2>2 DEF StreamInv, Encrypting, IsPacked, Sealed
  <2>5. AsPublished'
    BY <2>1, <2>2 DEF StreamInv, AsPublished, IsPacked, Sealed
  <2>6. Authenticating' /\ Unpacking' /\ StoredIsPublished'
    BY <2>1, <2>2 DEF StreamInv, Authenticating, Unpacking, StoredIsPublished
  <2> QED
    BY <2>3, <2>4, <2>5, <2>6 DEF StreamInv
<1> QED
  BY <1>1, <1>2, <1>3, <1>4, <1>5, <1>6, <1>7 DEF StreamNext

\* Nothing comes out of an encrypted layer before its HMAC was compared over the whole
\* blob, and a layer that is as it was published is not refused, for archives of any
\* number of blocks (decrypt.rs, decoder, stream, pull.rs, blockcipher).
THEOREM StreamSound == StreamSpec => []StoredIsPublished
<1>1. StreamInv => StoredIsPublished
  BY DEF StreamInv
<1> QED
  BY <1>1, StreamInitInv, StreamNextInv, PTL DEF StreamSpec

-----------------------------------------------------------------------------
(* Part 4: names.  What a search through a name or a list finds.           *)

Less == {p \in Nat \X Nat : p[1] < p[2]}

LEMMA LeastNumber == ASSUME NEW T, T \subseteq Nat, T # {} PROVE Min(T) \in T /\ \A y \in T : Min(T) <= y
<1>1. IsWellFoundedOn(Less, Nat)
  BY NatLessThanWellFounded DEF OpToRel, Less
<1>2. PICK x \in T : \A y \in T : <<y, x>> \notin Less
  BY <1>1, WFMin
<1>3. \A y \in T : x <= y
  <2> TAKE y \in T
  <2>1. <<y, x>> \in Nat \X Nat /\ <<y, x>>[1] = y /\ <<y, x>>[2] = x
    OBVIOUS
  <2> QED
    BY <1>2, <2>1 DEF Less
<1> QED
  BY <1>3 DEF Min

LEMMA GreatestNumber ==
  ASSUME NEW n \in Nat, NEW T, T \subseteq 0 .. n, T # {}
  PROVE  Max(T) \in T /\ \A y \in T : y <= Max(T)
<1> DEFINE U == {n - x : x \in T}
<1>1. U \subseteq Nat /\ U # {}
  <2>1. \A x \in T : n - x \in Nat
    OBVIOUS
  <2>2. PICK x \in T : TRUE
    OBVIOUS
  <2>3. n - x \in U
    OBVIOUS
  <2> QED
    BY <2>1, <2>3
<1>2. PICK u \in U : \A y \in U : u <= y
  BY <1>1, LeastNumber
<1>3. PICK x \in T : u = n - x
  OBVIOUS
<1>4. \A y \in T : y <= x
  <2> TAKE y \in T
  <2>1. u <= n - y
    BY <1>2
  <2> QED
    BY <1>3, <2>1
<1> QED
  BY <1>4 DEF Max

\* The first and the last place of a separator.
LEMMA FirstFacts ==
  ASSUME NEW S, NEW s \in Seq(S), NEW sep
  PROVE  /\ FirstAt(s, sep) \in 0 .. Len(s)
         /\ FirstAt(s, sep) # 0 => s[FirstAt(s, sep)] = sep
         /\ FirstAt(s, sep) = 0 => \A j \in 1 .. Len(s) : s[j] # sep
         /\ FirstAt(s, sep) # 0 => \A j \in 1 .. FirstAt(s, sep) - 1 : s[j] # sep
<1> DEFINE T == {i \in 1 .. Len(s) : s[i] = sep}
           f == FirstAt(s, sep)
<1>1. f = IF T # {} THEN Min(T) ELSE 0
  BY DEF FirstAt, SelectInSeq
<1>2. T \subseteq 1 .. Len(s) /\ Len(s) \in Nat
  OBVIOUS
<1> HIDE DEF f
<1>3. T # {} => f \in T /\ \A y \in T : f <= y
  <2> HIDE DEF T
  <2>1. T \subseteq Nat /\ T \subseteq 0 .. Len(s)
    BY <1>2
  <2> QED
    BY <2>1, <1>1, <1>2, LeastNumber
<1>4. T = {} => f = 0
  BY <1>1
<1> QED
  BY <1>2, <1>3, <1>4 DEF f

LEMMA LastFacts ==
  ASSUME NEW S, NEW s \in Seq(S), NEW sep
  PROVE  /\ LastAt(s, sep) \in 0 .. Len(s)
         /\ LastAt(s, sep) # 0 => s[LastAt(s, sep)] = sep
         /\ \A j \in 1 .. Len(s) : j > LastAt(s, sep) => s[j] # sep
<1> DEFINE T == {i \in 1 .. Len(s) : s[i] = sep}
           f == LastAt(s, sep)
<1>1. f = IF T # {} THEN Max(T) ELSE 0
  BY DEF LastAt, SelectLastInSeq
<1>2. T \subseteq 1 .. Len(s) /\ Len(s) \in Nat
  OBVIOUS
<1> HIDE DEF f
<1>3. T # {} => f \in T /\ \A y \in T : y <= f
  <2> HIDE DEF T
  <2>1. T \subseteq Nat /\ T \subseteq 0 .. Len(s)
    BY <1>2
  <2> QED
    BY <2>1, <1>1, <1>2, GreatestNumber
<1>4. T = {} => f = 0
  BY <1>1
<1> QED
  BY <1>2, <1>3, <1>4 DEF f

\* The cuts at a separator are its places, in order.
Places(s, sep) == {i \in 1 .. Len(s) : s[i] = sep}
UpTo(s, sep, i) == {j \in Places(s, sep) : j <= i}

LEMMA CutsFacts ==
  ASSUME NEW S, NEW s \in Seq(S), NEW sep
  PROVE  /\ Cuts(s, sep) \in Seq(Places(s, sep))
         /\ \A i \in Places(s, sep) : \E k \in 1 .. Len(Cuts(s, sep)) : Cuts(s, sep)[k] = i
         /\ \A j, k \in 1 .. Len(Cuts(s, sep)) : j < k => Cuts(s, sep)[j] < Cuts(s, sep)[k]
<1> DEFINE at == Places(s, sep)
           n == Cardinality(at)
           rank(i) == Cardinality(UpTo(s, sep, i))
           f == [i \in at |-> rank(i)]
           cut == [k \in 1 .. n |-> CHOOSE i \in at : rank(i) = k]
<1>1. at \subseteq 1 .. Len(s) /\ Len(s) \in Nat
  BY DEF Places
<1>2. IsFiniteSet(at) /\ n \in Nat
  <2> HIDE DEF at
  <2>1. IsFiniteSet(1 .. Len(s)) /\ at \in SUBSET (1 .. Len(s))
    BY <1>1, FS_Interval
  <2>2. IsFiniteSet(at)
    BY <2>1, FS_Subset
  <2> QED
    BY <2>2, FS_CardinalityType
<1>3. \A i \in at : UpTo(s, sep, i) \in SUBSET at /\ i \in UpTo(s, sep, i)
  BY <1>1 DEF UpTo, Places
<1>4. \A i \in at : rank(i) \in 1 .. n
  <2> SUFFICES ASSUME NEW i \in at PROVE rank(i) \in 1 .. n
    OBVIOUS
  <2>1. IsFiniteSet(UpTo(s, sep, i)) /\ rank(i) <= n /\ rank(i) \in Nat
    BY <1>2, <1>3, FS_Subset, FS_CardinalityType
  <2>2. rank(i) # 0
    BY <1>3, <2>1, FS_EmptySet
  <2> QED
    BY <1>2, <2>1, <2>2
<1>5. \A i, j \in at : i < j => rank(i) < rank(j)
  <2> SUFFICES ASSUME NEW i \in at, NEW j \in at, i < j PROVE rank(i) < rank(j)
    OBVIOUS
  <2>1. UpTo(s, sep, i) \in SUBSET UpTo(s, sep, j) /\ j \notin UpTo(s, sep, i) /\ j \in UpTo(s, sep, j)
    BY <1>1 DEF UpTo, Places
  <2>2. IsFiniteSet(UpTo(s, sep, j))
    BY <1>2, <1>3, FS_Subset
  <2>3. rank(i) <= rank(j) /\ rank(i) # rank(j)
    BY <2>1, <2>2, FS_Subset
  <2> QED
    BY <1>4, <2>3
<1> HIDE DEF rank, at, n
<1>6. \A i, j \in at : rank(i) = rank(j) => i = j
  <2> SUFFICES ASSUME NEW i \in at, NEW j \in at, rank(i) = rank(j), i # j PROVE FALSE
    OBVIOUS
  <2>1. i \in Nat /\ j \in Nat /\ rank(i) \in Nat
    BY <1>1, <1>4
  <2>2. i < j \/ j < i
    BY <2>1
  <2> QED
    BY <1>5, <2>1, <2>2
<1>7. f \in Injection(at, 1 .. n)
  BY <1>4, <1>6 DEF Injection, IsInjective
<1>8. IsFiniteSet(1 .. n) /\ Cardinality(1 .. n) = n
  BY <1>2, FS_Interval
<1>9. f \in Surjection(at, 1 .. n)
  BY <1>7, <1>8, FS_Injection DEF n
<1>10. \A k \in 1 .. n : \E i \in at : rank(i) = k
  BY <1>9 DEF Surjection
<1>11. \A k \in 1 .. n : cut[k] \in at /\ rank(cut[k]) = k
  BY <1>10
<1>12. Cuts(s, sep) = cut
  BY DEF Cuts, at, n, rank, UpTo, Places
<1> HIDE DEF f
<1>13. cut \in Seq(at) /\ Len(cut) = n
  <2>1. cut \in [1 .. n -> at]
    BY <1>10
  <2> HIDE DEF cut
  <2> QED
    BY <1>2, <2>1
<1> HIDE DEF cut
<1>14. \A i \in at : \E k \in 1 .. n : cut[k] = i
  BY <1>4, <1>6, <1>11
<1>15. \A j, k \in 1 .. n : j < k => cut[j] < cut[k]
  <2> SUFFICES ASSUME NEW j \in 1 .. n, NEW k \in 1 .. n, j < k, ~ (cut[j] < cut[k]) PROVE FALSE
    OBVIOUS
  <2>1. cut[j] \in at /\ cut[k] \in at /\ rank(cut[j]) = j /\ rank(cut[k]) = k
    BY <1>11
  <2> HIDE DEF cut, rank
  <2>2. cut[j] \in Nat /\ cut[k] \in Nat
    <3>1. \A x \in at : x \in Nat
      BY <1>1
    <3> QED
      BY <2>1, <3>1
  <2>3. cut[k] = cut[j] \/ cut[k] < cut[j]
    BY <2>2
  <2> QED
    BY <1>2, <1>5, <2>1, <2>3
<1> QED
  BY <1>12, <1>13, <1>14, <1>15 DEF at


-----------------------------------------------------------------------------
(* Part 5: references.  The registry and the host are at the start of a    *)
(* reference, whose name is found again behind whatever tag and digest.    *)

LEMMA SeparatorParts ==
  /\ \A x \in Separators : x \in Parts
  /\ {"docker", "index", "io", "library"} \subseteq Parts
BY PartsAssumption

LEMMA Joined ==
  ASSUME NEW S, NEW s \in Seq(S), NEW t \in Seq(S)
  PROVE  /\ s \o t \in Seq(S) /\ Len(s \o t) = Len(s) + Len(t) /\ Len(s) \in Nat /\ Len(t) \in Nat
         /\ \A j \in 1 .. Len(s) : (s \o t)[j] = s[j]
         /\ \A j \in 1 .. Len(t) : (s \o t)[Len(s) + j] = t[j]
<1>1. s \o t \in Seq(S)
  OBVIOUS
<1>2. Len(s \o t) = Len(s) + Len(t) /\ Len(s) \in Nat /\ Len(t) \in Nat
  OBVIOUS
<1>3. \A j \in 1 .. Len(s) : (s \o t)[j] = s[j]
  OBVIOUS
<1>4. \A j \in 1 .. Len(t) : (s \o t)[Len(s) + j] = t[j]
  <2> TAKE j \in 1 .. Len(t)
  <2>1. Len(s) + j \in 1 .. Len(s) + Len(t) /\ Len(s) + j > Len(s) /\ Len(s) + j - Len(s) = j
    BY <1>2
  <2> QED
    BY <2>1
<1> QED
  BY <1>1, <1>2, <1>3, <1>4

\* Two parts, a separator and what follows it, behind a name.
LEMMA Lengthened ==
  ASSUME NEW S, NEW s \in Seq(S), NEW a \in S, NEW b \in S
  PROVE  /\ <<a, b>> \in Seq(S) /\ Len(<<a, b>>) = 2
         /\ s \o <<a, b>> \in Seq(S) /\ Len(s \o <<a, b>>) = Len(s) + 2 /\ Len(s) \in Nat
         /\ (s \o <<a, b>>)[Len(s) + 1] = a /\ (s \o <<a, b>>)[Len(s) + 2] = b
         /\ \A j \in 1 .. Len(s) : (s \o <<a, b>>)[j] = s[j]
<1> DEFINE t == <<a, b>>
<1>1. t \in Seq(S)
  OBVIOUS
<1>2. Len(t) = 2 /\ t[1] = a /\ t[2] = b
  OBVIOUS
<1> HIDE DEF t
<1>3. /\ s \o t \in Seq(S) /\ Len(s \o t) = Len(s) + Len(t) /\ Len(s) \in Nat
      /\ \A j \in 1 .. Len(s) : (s \o t)[j] = s[j]
      /\ \A j \in 1 .. Len(t) : (s \o t)[Len(s) + j] = t[j]
  BY <1>1, Joined
<1> QED
  BY <1>1, <1>2, <1>3 DEF t

\* What is written of a reference starts with its name.
LEMMA WholeFacts ==
  ASSUME NEW r, r.name \in Seq(Parts), {r.tag, r.digest} \ {Absent} \subseteq Parts
  PROVE  /\ Whole(r) \in Seq(Parts) /\ Len(r.name) \in Nat /\ Len(Whole(r)) \in Nat
         /\ Len(r.name) <= Len(Whole(r))
         /\ r.tag # Absent \/ r.digest # Absent => Len(r.name) < Len(Whole(r))
         /\ \A j \in 1 .. Len(r.name) : Whole(r)[j] = r.name[j]
<1> DEFINE ofTag == IF r.tag = Absent THEN <<>> ELSE <<":", r.tag>>
           ofDigest == IF r.digest = Absent THEN <<>> ELSE <<"@", r.digest>>
<1>1. r.name \in Seq(Parts) /\ (r.tag # Absent => r.tag \in Parts) /\ (r.digest # Absent => r.digest \in Parts)
  OBVIOUS
<1>2. ofTag \in Seq(Parts) /\ ofDigest \in Seq(Parts) /\ Len(ofTag \o ofDigest) \in Nat
      /\ (r.tag # Absent \/ r.digest # Absent => Len(ofTag \o ofDigest) > 0)
  <2>1. ofTag \in Seq(Parts) /\ Len(ofTag) \in {0, 2} /\ (r.tag # Absent => Len(ofTag) = 2)
    <3>1. ":" \in Parts
      BY SeparatorParts DEF Separators
    <3>2. r.tag # Absent => <<":", r.tag>> \in Seq(Parts) /\ Len(<<":", r.tag>>) = 2
      BY <1>1, <3>1, Lengthened
    <3>3. <<>> \in Seq(Parts) /\ Len(<<>>) = 0
      OBVIOUS
    <3> QED
      BY <3>2, <3>3
  <2>2. ofDigest \in Seq(Parts) /\ Len(ofDigest) \in {0, 2} /\ (r.digest # Absent => Len(ofDigest) = 2)
    <3>1. "@" \in Parts
      BY SeparatorParts DEF Separators
    <3>2. r.digest # Absent => <<"@", r.digest>> \in Seq(Parts) /\ Len(<<"@", r.digest>>) = 2
      BY <1>1, <3>1, Lengthened
    <3>3. <<>> \in Seq(Parts) /\ Len(<<>>) = 0
      OBVIOUS
    <3> QED
      BY <3>2, <3>3
  <2> HIDE DEF ofTag, ofDigest
  <2>3. Len(ofTag \o ofDigest) = Len(ofTag) + Len(ofDigest)
    BY <2>1, <2>2
  <2>4. r.tag # Absent \/ r.digest # Absent => Len(ofTag) = 2 \/ Len(ofDigest) = 2
    BY <1>1, <2>1, <2>2
  <2>5. Len(ofTag) \in Nat /\ Len(ofDigest) \in Nat
    BY <2>1, <2>2
  <2>6. Len(ofTag \o ofDigest) \in Nat
    BY <2>3, <2>5
  <2>7. r.tag # Absent \/ r.digest # Absent => Len(ofTag \o ofDigest) > 0
    BY <2>3, <2>4, <2>5
  <2> QED
    BY <2>1, <2>2, <2>6, <2>7
<1>3. Whole(r) = r.name \o (ofTag \o ofDigest)
  <2>1. Whole(r) = (r.name \o ofTag) \o ofDigest
    BY DEF Whole
  <2> HIDE DEF ofTag, ofDigest
  <2>2. (r.name \o ofTag) \o ofDigest = r.name \o (ofTag \o ofDigest)
    <3>1. r.name \in Seq(Parts) /\ ofTag \in Seq(Parts) /\ ofDigest \in Seq(Parts)
      BY <1>1, <1>2
    <3>2. \A a, b, c \in Seq(Parts) : (a \o b) \o c = a \o (b \o c)
      BY ConcatAssociative
    <3> QED
      BY ONLY <3>1, <3>2
  <2> QED
    BY <2>1, <2>2
<1>4. ofTag \o ofDigest \in Seq(Parts)
  BY <1>2
<1> DEFINE rest == ofTag \o ofDigest
<1> HIDE DEF rest
<1>5. /\ Whole(r) \in Seq(Parts) /\ Len(Whole(r)) = Len(r.name) + Len(rest)
      /\ \A j \in 1 .. Len(r.name) : Whole(r)[j] = r.name[j]
  <2> HIDE DEF ofTag, ofDigest
  <2>1. rest \in Seq(Parts) /\ Whole(r) = r.name \o rest
    BY <1>3, <1>4 DEF rest
  <2> QED
    BY <1>1, <2>1
<1>6. Len(r.name) \in Nat /\ Len(rest) \in Nat /\ (r.tag # Absent \/ r.digest # Absent => Len(rest) > 0)
  BY <1>1, <1>2, <1>4 DEF rest
<1> QED
  BY <1>1, <1>5, <1>6

LEMMA ReferenceFacts ==
  ASSUME NEW r, IsReference(r)
  PROVE  /\ r.name \in Seq(Parts) /\ Whole(r) \in Seq(Parts)
         /\ Len(r.name) \in Nat \ {0} /\ Len(Whole(r)) \in Nat /\ Len(r.name) < Len(Whole(r))
         /\ \A j \in 1 .. Len(r.name) : Whole(r)[j] = r.name[j] /\ r.name[j] # "@"
         /\ r.name[1] \notin Separators
<1>1. /\ r.name \in Seq(Parts) /\ {r.tag, r.digest} \ {Absent} \subseteq Parts
      /\ r.tag # Absent \/ r.digest # Absent
  BY DEF IsReference
<1>2. Len(r.name) \in Nat /\ Len(r.name) > 0
  BY <1>1 DEF IsReference
<1>3. \A j \in 1 .. Len(r.name) : r.name[j] # "@"
  BY <1>1 DEF IsReference, ToSet
<1>4. r.name[1] \notin Separators
  BY <1>1, <1>2 DEF IsReference
<1>5. /\ Whole(r) \in Seq(Parts) /\ Len(Whole(r)) \in Nat /\ Len(r.name) < Len(Whole(r))
      /\ \A j \in 1 .. Len(r.name) : Whole(r)[j] = r.name[j]
  BY <1>1, WholeFacts
<1> QED
  BY <1>1, <1>2, <1>3, <1>4, <1>5

\* What is cut off what Reference::whole gives.
LEMMA NameIsCut == ASSUME NEW r, IsReference(r) PROVE NameOf(Whole(r)) = r.name
<1> DEFINE s == Whole(r)
           n == Len(r.name)
           at == LastAt(s, "@")
           front == IF at = 0 THEN s ELSE Before(s, at)
           colon == TagAt(front)
           tagged == IF r.tag = Absent THEN r.name ELSE r.name \o <<":", r.tag>>
<1>1. /\ r.name \in Seq(Parts) /\ n \in Nat \ {0} /\ s \in Seq(Parts)
      /\ r.tag \in Parts /\ r.digest \in Parts /\ r.tag \notin Separators /\ r.digest \notin Separators
      /\ r.tag # Absent \/ r.digest # Absent
      /\ \A j \in 1 .. n : r.name[j] # "@"
  BY ReferenceFacts DEF IsReference
<1>2. PICK i \in 1 .. n : r.name[i] = "/" /\ \A j \in i .. n : r.name[j] # ":"
  BY <1>1 DEF IsReference
<1>3. /\ tagged \in Seq(Parts) /\ Len(tagged) = IF r.tag = Absent THEN n ELSE n + 2
      /\ \A j \in 1 .. n : tagged[j] = r.name[j]
      /\ r.tag # Absent => tagged[n + 1] = ":" /\ tagged[n + 2] = r.tag
  <2>1. CASE r.tag = Absent
    BY <1>1, <2>1
  <2>2. CASE r.tag # Absent
    <3>1. tagged = r.name \o <<":", r.tag>>
      BY <2>2
    <3> HIDE DEF tagged
    <3> QED
      BY <1>1, <2>2, <3>1, Lengthened, SeparatorParts DEF Separators
  <2> QED
    BY <2>1, <2>2
<1>4. \A j \in 1 .. Len(tagged) : tagged[j] # "@"
  <2> HIDE DEF tagged, n
  <2> SUFFICES ASSUME NEW j \in 1 .. Len(tagged) PROVE tagged[j] # "@"
    OBVIOUS
  <2>1. CASE j \in 1 .. n
    BY <1>1, <1>3, <2>1
  <2>2. CASE j \notin 1 .. n
    <3>1. r.tag # Absent /\ (j = n + 1 \/ j = n + 2)
      BY <1>1, <1>3, <2>2
    <3> QED
      BY <1>1, <1>3, <3>1 DEF Separators
  <2> QED
    BY <2>1, <2>2
<1>5. s = tagged \o (IF r.digest = Absent THEN <<>> ELSE <<"@", r.digest>>)
  <2>1. r.name = r.name \o <<>>
    BY <1>1
  <2>2. tagged = r.name \o (IF r.tag = Absent THEN <<>> ELSE <<":", r.tag>>)
    <3>1. CASE r.tag = Absent
      BY <2>1, <3>1
    <3>2. CASE r.tag # Absent
      BY <3>2
    <3> QED
      BY <3>1, <3>2
  <2> HIDE DEF tagged
  <2> QED
    BY <2>2 DEF Whole
<1> HIDE DEF tagged
<1>6. front = tagged
  <2>1. CASE r.digest = Absent
    <3>1. s = tagged
      BY <1>3, <1>5, <2>1
    <3>2. at = 0
      BY <1>3, <1>4, <3>1, LastFacts
    <3> QED
      BY <3>1, <3>2
  <2>2. CASE r.digest # Absent
    <3> DEFINE m == Len(tagged)
    <3>1. /\ Len(s) = m + 2 /\ s[m + 1] = "@" /\ s[m + 2] = r.digest
          /\ m \in Nat /\ \A j \in 1 .. m : s[j] = tagged[j]
      <4>1. s = tagged \o <<"@", r.digest>>
        BY <1>5, <2>2
      <4>2. tagged \in Seq(Parts) /\ r.digest \in Parts /\ "@" \in Parts
        BY <1>1, <1>3, SeparatorParts DEF Separators
      <4> HIDE DEF s
      <4> QED
        BY ONLY <4>1, <4>2, Lengthened
    <3> HIDE DEF m, s
    <3>2. at = m + 1
      <4>1. s[m + 2] # "@"
        BY <1>1, <3>1 DEF Separators
      <4>2. at \in 0 .. m + 2 /\ at # m + 2 /\ ~ (m + 1 > at)
        BY <1>1, <3>1, <4>1, LastFacts
      <4> QED
        BY <3>1, <4>2
    <3>3. front = SubSeq(s, 1, m)
      BY <3>1, <3>2 DEF Before
    <3>4. SubSeq(s, 1, m) = tagged
      BY <1>1, <1>3, <3>1 DEF m
    <3> QED
      BY <3>3, <3>4
  <2> QED
    BY <2>1, <2>2
<1>7. LastAt(tagged, "/") \in 1 .. n
  <2>1. LastAt(tagged, "/") \in 0 .. Len(tagged) /\ ~ (i > LastAt(tagged, "/"))
    BY <1>2, <1>3, LastFacts
  <2>2. \A j \in n + 1 .. Len(tagged) : tagged[j] # "/"
    BY <1>1, <1>3 DEF Separators
  <2>3. LastAt(tagged, "/") # 0 => tagged[LastAt(tagged, "/")] = "/"
    BY <1>3, LastFacts
  <2> QED
    BY <1>1, <1>2, <1>3, <2>1, <2>2, <2>3
<1>8. CASE r.tag = Absent
  <2>1. tagged = r.name
    BY <1>8 DEF tagged
  <2>2. ~ (LastAt(tagged, ":") > LastAt(tagged, "/"))
    <3>1. LastAt(tagged, "/") >= i /\ LastAt(tagged, "/") \in 1 .. n
      BY <1>2, <1>3, <1>7, LastFacts
    <3>2. LastAt(tagged, ":") \in 0 .. n /\ (LastAt(tagged, ":") # 0 => tagged[LastAt(tagged, ":")] = ":")
      BY <1>1, <2>1, LastFacts
    <3> QED
      BY <1>1, <1>2, <2>1, <3>1, <3>2
  <2>3. colon = 0
    BY <1>6, <2>2 DEF TagAt
  <2>4. NameOf(s) = front
    <3> HIDE DEF colon
    <3>1. NameOf(s) = IF colon = 0 THEN front ELSE Before(front, colon)
      BY DEF NameOf, Undigested, colon
    <3> QED
      BY <2>3, <3>1
  <2> QED
    BY <1>6, <2>1, <2>4
<1>9. CASE r.tag # Absent
  <2>1. LastAt(tagged, ":") = n + 1
    <3>1. tagged[n + 2] # ":" /\ tagged[n + 1] = ":" /\ Len(tagged) = n + 2
      BY <1>1, <1>3, <1>9 DEF Separators
    <3>2. LastAt(tagged, ":") \in 0 .. n + 2 /\ LastAt(tagged, ":") # n + 2 /\ ~ (n + 1 > LastAt(tagged, ":"))
      BY <1>1, <1>3, <3>1, LastFacts
    <3> QED
      BY <1>1, <3>2
  <2>2. colon = n + 1
    <3>1. n + 1 > LastAt(tagged, "/") /\ colon = TagAt(tagged)
      BY <1>1, <1>6, <1>7
    <3> QED
      BY <2>1, <3>1 DEF TagAt
  <2>3. NameOf(s) = Before(front, n + 1)
    <3> HIDE DEF colon
    <3>1. NameOf(s) = IF colon = 0 THEN front ELSE Before(front, colon)
      BY DEF NameOf, Undigested, colon
    <3> QED
      BY <1>1, <2>2, <3>1
  <2>4. SubSeq(tagged, 1, n) = r.name
    <3> HIDE DEF n
    <3> QED
      BY <1>1, <1>3, <1>9 DEF n
  <2>5. Before(tagged, n + 1) = SubSeq(tagged, 1, n)
    BY <1>1 DEF Before
  <2> QED
    BY <1>6, <2>3, <2>4, <2>5
<1> QED
  BY <1>8, <1>9

\* Reference::try_from of what Reference::whole gives.
LEMMA NameIsParsed == ASSUME NEW r, IsReference(r) PROVE Parse(Whole(r)).name = r.name
<1>1. Parse(Whole(r)).name = FullName(NameOf(Whole(r)))
  BY DEF Parse
<1>2. FullName(r.name) = r.name
  BY DEF IsReference
<1> QED
  BY <1>1, <1>2, NameIsCut

\* The registry is what is before the first "/", the host that without a port.
LEMMA HostFacts ==
  ASSUME NEW r, IsReference(r)
  PROVE  /\ HostOf(r) \in Seq(Parts) /\ Len(HostOf(r)) \in Nat \ {0}
         /\ HostOf(r)[1] \notin Separators
<1> DEFINE slash == FirstAt(r.name, "/")
           reg == RegistryOf(r)
<1>1. r.name \in Seq(Parts) /\ Len(r.name) \in Nat \ {0} /\ r.name[1] \notin Separators
  BY ReferenceFacts
<1>2. slash \in 2 .. Len(r.name)
  <2>1. \E i \in 1 .. Len(r.name) : r.name[i] = "/"
    BY <1>1 DEF IsReference
  <2>2. slash \in 0 .. Len(r.name) /\ slash # 0 /\ r.name[slash] = "/"
    BY <1>1, <2>1, FirstFacts
  <2> QED
    BY <1>1, <2>2 DEF Separators
<1> HIDE DEF slash
<1>3. reg = SubSeq(r.name, 1, slash - 1)
  BY DEF RegistryOf, Before, slash
<1>4. reg \in Seq(Parts) /\ Len(reg) = slash - 1 /\ reg[1] = r.name[1] /\ Len(reg) \in Nat \ {0}
  BY <1>1, <1>2, <1>3
<1> DEFINE colon == LastAt(reg, ":")
<1> HIDE DEF reg
<1>5. colon \in 0 .. Len(reg) /\ colon # 1
  BY <1>1, <1>4, LastFacts DEF Separators
<1>6. HostOf(r) = IF colon # 0 THEN SubSeq(reg, 1, colon - 1) ELSE reg
  BY DEF HostOf, Before, reg
<1> HIDE DEF colon
<1>7. CASE colon = 0
  BY <1>1, <1>4, <1>6, <1>7
<1>8. CASE colon # 0
  <2>1. SubSeq(reg, 1, colon - 1) \in Seq(Parts) /\ Len(SubSeq(reg, 1, colon - 1)) = colon - 1
        /\ SubSeq(reg, 1, colon - 1)[1] = reg[1]
    BY <1>4, <1>5, <1>8
  <2> QED
    BY <1>1, <1>4, <1>5, <1>6, <1>8, <2>1
<1> QED
  BY <1>7, <1>8


-----------------------------------------------------------------------------
(* Part 6: the requirements of a policy.  The names an image is looked up  *)
(* by are those of the scopes it is in, those that say most first.         *)

LEMMA PrefixFacts ==
  ASSUME NEW S, NEW s \in Seq(S), NEW n \in 0 .. Len(s)
  PROVE  /\ SubSeq(s, 1, n) \in Seq(S) /\ Len(SubSeq(s, 1, n)) = n
         /\ \A j \in 1 .. n : SubSeq(s, 1, n)[j] = s[j]
         /\ SubSeq(s, 1, Len(s)) = s
         /\ \A m \in 0 .. n : SubSeq(SubSeq(s, 1, n), 1, m) = SubSeq(s, 1, m)
<1>1. SubSeq(s, 1, n) \in Seq(S) /\ Len(SubSeq(s, 1, n)) = n /\ \A j \in 1 .. n : SubSeq(s, 1, n)[j] = s[j]
  OBVIOUS
<1>2. SubSeq(s, 1, Len(s)) = s
  OBVIOUS
<1>3. \A m \in 0 .. n : SubSeq(SubSeq(s, 1, n), 1, m) = SubSeq(s, 1, m)
  <2> TAKE m \in 0 .. n
  <2> DEFINE p == SubSeq(s, 1, n)
  <2>1. p \in Seq(S) /\ Len(p) = n /\ \A j \in 1 .. n : p[j] = s[j]
    BY <1>1
  <2> HIDE DEF p
  <2>2. SubSeq(p, 1, m) = SubSeq(s, 1, m)
    BY <2>1
  <2> QED
    BY <2>2 DEF p
<1> QED
  BY <1>1, <1>2, <1>3

LEMMA ListOf == ASSUME NEW S, NEW n \in Nat, NEW f \in [1 .. n -> S] PROVE f \in Seq(S) /\ Len(f) = n
OBVIOUS

\* One more in front of a list.
LEMMA Preceded ==
  ASSUME NEW S, NEW x \in S, NEW t \in Seq(S)
  PROVE  /\ <<x>> \o t \in Seq(S) /\ Len(<<x>> \o t) = Len(t) + 1 /\ Len(t) \in Nat
         /\ (<<x>> \o t)[1] = x
         /\ \A j \in 1 .. Len(t) : (<<x>> \o t)[j + 1] = t[j]
<1> DEFINE o == <<x>>
<1>1. o \in Seq(S) /\ Len(o) = 1 /\ o[1] = x
  OBVIOUS
<1> HIDE DEF o
<1>2. /\ o \o t \in Seq(S) /\ Len(o \o t) = Len(o) + Len(t) /\ Len(t) \in Nat
      /\ \A j \in 1 .. Len(o) : (o \o t)[j] = o[j]
      /\ \A j \in 1 .. Len(t) : (o \o t)[Len(o) + j] = t[j]
  BY <1>1, Joined
<1>3. (o \o t)[1] = x /\ Len(o \o t) = Len(t) + 1
  BY <1>1, <1>2
<1>4. \A j \in 1 .. Len(t) : (o \o t)[j + 1] = t[j]
  <2> TAKE j \in 1 .. Len(t)
  <2>1. Len(o) + j = j + 1
    BY <1>1
  <2> QED
    BY <1>2, <2>1
<1> QED
  BY <1>2, <1>3, <1>4 DEF o

LEMMA ParentsFacts ==
  ASSUME NEW s \in Seq(Parts)
  PROVE  /\ Parents(s) \in Seq(Seq(Parts)) /\ Len(Parents(s)) \in Nat \ {0} /\ Parents(s)[1] = s
         /\ \A k \in 1 .. Len(Parents(s)) : LET n == Len(Parents(s)[k]) IN
              /\ n \in 0 .. Len(s) /\ Parents(s)[k] = SubSeq(s, 1, n)
              /\ n = Len(s) \/ s[n + 1] = "/"
         /\ \A i \in Places(s, "/") : \E k \in 1 .. Len(Parents(s)) : Parents(s)[k] = Before(s, i)
         /\ \A j, k \in 1 .. Len(Parents(s)) : j < k => Len(Parents(s)[j]) > Len(Parents(s)[k])
<1> DEFINE cuts == Cuts(s, "/")
           m == Len(cuts)
           rest == [k \in 1 .. m |-> Before(s, cuts[m + 1 - k])]
           P == Parents(s)
           at == Places(s, "/")
<1>1. /\ cuts \in Seq(at) /\ m \in Nat
      /\ \A i \in at : \E k \in 1 .. m : cuts[k] = i
      /\ \A j, k \in 1 .. m : j < k => cuts[j] < cuts[k]
  BY CutsFacts
<1>2. \A i \in at : i \in 1 .. Len(s) /\ s[i] = "/"
  BY DEF Places
<1>3. P = <<s>> \o rest
  BY DEF Parents
<1> HIDE DEF cuts, P, at
<1>4. \A k \in 1 .. m : cuts[k] \in at
  BY <1>1
<1>5. \A k \in 1 .. m : m + 1 - k \in 1 .. m /\ rest[k] = SubSeq(s, 1, cuts[m + 1 - k] - 1)
  <2> HIDE DEF m
  <2>1. \A k \in 1 .. m : m + 1 - k \in 1 .. m
    BY <1>1
  <2>2. \A k \in 1 .. m : rest[k] = SubSeq(s, 1, cuts[m + 1 - k] - 1)
    BY DEF Before
  <2> QED
    BY <2>1, <2>2
<1>6. \A k \in 1 .. m : /\ rest[k] \in Seq(Parts) /\ Len(rest[k]) = cuts[m + 1 - k] - 1
                        /\ cuts[m + 1 - k] \in 1 .. Len(s) /\ s[cuts[m + 1 - k]] = "/"
  <2> TAKE k \in 1 .. m
  <2> DEFINE c == cuts[m + 1 - k]
  <2>1. c \in at
    BY <1>4, <1>5
  <2>2. c \in 1 .. Len(s) /\ s[c] = "/"
    BY <1>2, <2>1
  <2>3. rest[k] = SubSeq(s, 1, c - 1)
    BY <1>5
  <2> HIDE DEF c, rest
  <2>4. c - 1 \in 0 .. Len(s)
    BY <2>2
  <2> QED
    BY <2>2, <2>3, <2>4, PrefixFacts DEF c
<1>7. rest \in Seq(Seq(Parts)) /\ Len(rest) = m
  <2>1. rest \in [1 .. m -> Seq(Parts)]
    BY <1>6
  <2> HIDE DEF rest
  <2> QED
    BY <1>1, <2>1, ListOf
<1>8. \A j, k \in 1 .. m : j < k => Len(rest[j]) > Len(rest[k])
  <2> SUFFICES ASSUME NEW j \in 1 .. m, NEW k \in 1 .. m, j < k PROVE Len(rest[j]) > Len(rest[k])
    OBVIOUS
  <2> HIDE DEF rest, m
  <2>1. m + 1 - k \in 1 .. m /\ m + 1 - j \in 1 .. m /\ m + 1 - k < m + 1 - j
    BY <1>1
  <2>2. cuts[m + 1 - k] < cuts[m + 1 - j]
    BY <1>1, <2>1
  <2> QED
    BY <1>6, <2>2
<1>9. \A i \in at : \E k \in 1 .. m : rest[k] = Before(s, i)
  <2> SUFFICES ASSUME NEW i \in at PROVE \E k \in 1 .. m : rest[k] = Before(s, i)
    OBVIOUS
  <2>1. PICK k \in 1 .. m : cuts[k] = i
    BY <1>1
  <2>2. m + 1 - k \in 1 .. m /\ m + 1 - (m + 1 - k) = k
    BY <1>1
  <2> QED
    BY <1>5, <2>1, <2>2 DEF Before
<1> HIDE DEF rest, m
<1>10. /\ P \in Seq(Seq(Parts)) /\ Len(P) = m + 1 /\ P[1] = s
       /\ \A k \in 1 .. m : P[k + 1] = rest[k]
  BY <1>3, <1>7, Preceded
<1>11. \A k \in 2 .. Len(P) : k - 1 \in 1 .. m /\ P[k] = rest[k - 1]
  BY <1>1, <1>10
<1>12. ASSUME NEW k \in 1 .. Len(P)
       PROVE  LET n == Len(P[k]) IN
              /\ n \in 0 .. Len(s) /\ P[k] = SubSeq(s, 1, n)
              /\ n = Len(s) \/ s[n + 1] = "/"
  <2>1. CASE k = 1
    BY <1>10, <2>1, PrefixFacts
  <2>2. CASE k # 1
    <3>1. k - 1 \in 1 .. m /\ P[k] = rest[k - 1]
      BY <1>10, <1>11, <1>1, <2>2
    <3> DEFINE c == cuts[m + 1 - (k - 1)]
    <3>2. c \in 1 .. Len(s) /\ s[c] = "/" /\ Len(P[k]) = c - 1 /\ P[k] = SubSeq(s, 1, c - 1)
      BY <1>5, <1>6, <3>1
    <3> HIDE DEF c
    <3> QED
      BY <3>2
  <2> QED
    BY <2>1, <2>2
<1>13. ASSUME NEW j \in 1 .. Len(P), NEW k \in 1 .. Len(P), j < k PROVE Len(P[j]) > Len(P[k])
  <2>1. k - 1 \in 1 .. m /\ P[k] = rest[k - 1]
    BY <1>1, <1>10, <1>11, <1>13
  <2>2. CASE j = 1
    <3>1. Len(rest[k - 1]) = cuts[m + 1 - (k - 1)] - 1 /\ cuts[m + 1 - (k - 1)] \in 1 .. Len(s)
      BY <1>6, <2>1
    <3> QED
      BY <1>10, <2>1, <2>2, <3>1
  <2>3. CASE j # 1
    <3>1. j - 1 \in 1 .. m /\ P[j] = rest[j - 1] /\ j - 1 < k - 1
      BY <1>1, <1>10, <1>11, <1>13, <2>3
    <3> QED
      BY <1>8, <2>1, <3>1
  <2> QED
    BY <2>2, <2>3
<1>14. ASSUME NEW i \in at PROVE \E k \in 1 .. Len(P) : P[k] = Before(s, i)
  <2>1. PICK k \in 1 .. m : rest[k] = Before(s, i)
    BY <1>9
  <2>2. k + 1 \in 1 .. Len(P) /\ P[k + 1] = rest[k]
    BY <1>1, <1>10
  <2> QED
    BY <2>1, <2>2
<1> QED
  BY <1>1, <1>10, <1>12, <1>13, <1>14 DEF P, at

\* A wildcard: what is before a place in a host is replaced by "*".
Star(host, i) == <<"*">> \o SubSeq(host, i, Len(host))

LEMMA StarFacts ==
  ASSUME NEW h \in Seq(Parts), NEW i \in 1 .. Len(h)
  PROVE  /\ Star(h, i) \in Seq(Parts) /\ Len(Star(h, i)) = Len(h) + 2 - i
         /\ Star(h, i)[1] = "*" /\ Star(h, i)[2] = h[i]
         /\ Tail(Star(h, i)) = SubSeq(h, i, Len(h))
<1> DEFINE t == SubSeq(h, i, Len(h))
           u == <<"*">> \o t
<1>1. t \in Seq(Parts) /\ Len(t) = Len(h) + 1 - i /\ t[1] = h[i] /\ Len(t) \in Nat \ {0}
  OBVIOUS
<1>2. "*" \in Parts
  BY SeparatorParts DEF Separators
<1> HIDE DEF t
<1>3. /\ u \in Seq(Parts) /\ Len(u) = Len(t) + 1 /\ u[1] = "*"
      /\ \A j \in 1 .. Len(t) : u[j + 1] = t[j]
  <2>1. u \in Seq(Parts) /\ Len(u) = Len(t) + 1
    BY <1>1, <1>2, Preceded
  <2>2. u[1] = "*"
    BY <1>1, <1>2, Preceded
  <2>3. \A j \in 1 .. Len(t) : u[j + 1] = t[j]
    BY <1>1, <1>2, Preceded
  <2> HIDE DEF u
  <2> QED
    BY <2>1, <2>2, <2>3
<1> HIDE DEF u
<1>4. u[2] = t[1]
  <2>1. 1 \in 1 .. Len(t) /\ 1 + 1 = 2
    BY <1>1
  <2> QED
    BY <1>3, <2>1
<1>5. Tail(u) = t
  <2>1. Tail(u) \in Seq(Parts) /\ Len(Tail(u)) = Len(t) /\ \A j \in 1 .. Len(t) : Tail(u)[j] = u[j + 1]
    <3>1. u # <<>> /\ Len(u) - 1 = Len(t)
      BY <1>1, <1>3
    <3> QED
      BY <1>3, <3>1, HeadTailProperties
  <2> DEFINE v == Tail(u)
  <2> HIDE DEF v
  <2>2. v \in Seq(Parts) /\ Len(v) = Len(t) /\ \A j \in 1 .. Len(t) : v[j] = t[j]
    BY <1>3, <2>1 DEF v
  <2>3. v = t
    BY <1>1, <2>2
  <2> QED
    BY <2>3 DEF v
<1>6. Star(h, i) = u
  BY DEF Star, u, t
<1>7. Len(u) = Len(h) + 2 - i
  BY <1>1, <1>3
<1> QED
  BY <1>1, <1>3, <1>4, <1>5, <1>6, <1>7 DEF t

LEMMA WildcardFacts ==
  ASSUME NEW h \in Seq(Parts)
  PROVE  /\ Wildcards(h) \in Seq(Seq(Parts)) /\ Len(Wildcards(h)) \in Nat
         /\ \A k \in 1 .. Len(Wildcards(h)) : \E i \in Places(h, ".") : Wildcards(h)[k] = Star(h, i)
         /\ \A i \in Places(h, ".") : \E k \in 1 .. Len(Wildcards(h)) : Wildcards(h)[k] = Star(h, i)
         /\ \A j, k \in 1 .. Len(Wildcards(h)) : j < k => Len(Wildcards(h)[j]) > Len(Wildcards(h)[k])
<1> DEFINE cuts == Cuts(h, ".")
           m == Len(cuts)
           at == Places(h, ".")
           W == Wildcards(h)
<1>1. /\ cuts \in Seq(at) /\ m \in Nat
      /\ \A i \in at : \E k \in 1 .. m : cuts[k] = i
      /\ \A j, k \in 1 .. m : j < k => cuts[j] < cuts[k]
  BY CutsFacts
<1>2. W = [k \in 1 .. m |-> Star(h, cuts[k])]
  BY DEF Wildcards, Star
<1>3. at \subseteq 1 .. Len(h)
  BY DEF Places
<1> HIDE DEF W, cuts, at
<1>4. \A k \in 1 .. m : cuts[k] \in at /\ cuts[k] \in 1 .. Len(h)
  <2>1. \A k \in 1 .. m : cuts[k] \in at
    BY <1>1
  <2> QED
    BY <1>3, <2>1
<1>5. \A k \in 1 .. m : W[k] = Star(h, cuts[k]) /\ W[k] \in Seq(Parts) /\ Len(W[k]) = Len(h) + 2 - cuts[k]
  BY <1>2, <1>4, StarFacts
<1> HIDE DEF m
<1>6. W \in Seq(Seq(Parts)) /\ Len(W) = m
  <2>1. W \in [1 .. m -> Seq(Parts)]
    BY <1>2, <1>5
  <2> QED
    BY <1>1, <2>1
<1>7. ASSUME NEW j \in 1 .. m, NEW k \in 1 .. m, j < k PROVE Len(W[j]) > Len(W[k])
  <2>1. cuts[j] < cuts[k]
    BY <1>1, <1>7 DEF m
  <2> QED
    BY <1>4, <1>5, <2>1
<1> QED
  BY <1>1, <1>4, <1>5, <1>6, <1>7 DEF W, at


LEMMA LookupFacts ==
  ASSUME NEW r, IsReference(r)
  PROVE  /\ LookupNames(r) \in Seq(Seq(Parts)) /\ Len(LookupNames(r)) \in Nat
         /\ \A k \in 1 .. Len(LookupNames(r)) : LookupNames(r)[k] # <<>> /\ Covers(LookupNames(r)[k], r)
         /\ \A s \in Seq(Parts) : Covers(s, r) => \E k \in 1 .. Len(LookupNames(r)) : LookupNames(r)[k] = s
         /\ \A j, k \in 1 .. Len(LookupNames(r)) : j <= k => SaysNoMore(LookupNames(r)[k], LookupNames(r)[j])
         /\ \A j, k \in 1 .. Len(LookupNames(r)) :
              SaysNoMore(LookupNames(r)[j], LookupNames(r)[k]) /\ SaysNoMore(LookupNames(r)[k], LookupNames(r)[j])
              => LookupNames(r)[j] = LookupNames(r)[k]
<1> DEFINE w == Whole(r)
           nm == r.name
           h == HostOf(r)
           P == Parents(nm)
           W == Wildcards(h)
           p == Len(P)
           L == LookupNames(r)
           dots == Places(h, ".")
           slashes == Places(nm, "/")
<1>1. /\ nm \in Seq(Parts) /\ w \in Seq(Parts) /\ Len(nm) \in Nat \ {0} /\ Len(w) \in Nat /\ Len(nm) < Len(w)
      /\ \A j \in 1 .. Len(nm) : w[j] = nm[j]
      /\ nm[1] \notin Separators
  BY ReferenceFacts
<1>2. h \in Seq(Parts) /\ Len(h) \in Nat \ {0} /\ h[1] \notin Separators
  BY HostFacts
<1>3. /\ P \in Seq(Seq(Parts)) /\ p \in Nat \ {0}
      /\ \A k \in 1 .. p : LET n == Len(P[k]) IN
           /\ n \in 0 .. Len(nm) /\ P[k] = SubSeq(nm, 1, n)
           /\ n = Len(nm) \/ nm[n + 1] = "/"
      /\ P[1] = nm
      /\ \A i \in slashes : \E k \in 1 .. p : P[k] = Before(nm, i)
      /\ \A j, k \in 1 .. p : j < k => Len(P[j]) > Len(P[k])
  BY <1>1, ParentsFacts
<1>4. /\ W \in Seq(Seq(Parts)) /\ Len(W) \in Nat
      /\ \A k \in 1 .. Len(W) : \E i \in dots : W[k] = Star(h, i)
      /\ \A i \in dots : \E k \in 1 .. Len(W) : W[k] = Star(h, i)
      /\ \A j, k \in 1 .. Len(W) : j < k => Len(W[j]) > Len(W[k])
  BY <1>2, WildcardFacts
<1>5. \A i \in dots : i \in 2 .. Len(h) /\ h[i] = "."
  BY <1>2 DEF Places, Separators
<1>6. L = <<w>> \o (P \o W)
  BY DEF LookupNames, Namespaces, RepositoryFullName
<1> HIDE DEF w, nm, h, P, W, L, dots, slashes
<1> DEFINE T == P \o W
<1>7. /\ T \in Seq(Seq(Parts)) /\ Len(T) = p + Len(W)
      /\ \A j \in 1 .. p : T[j] = P[j]
      /\ \A j \in 1 .. Len(W) : T[p + j] = W[j]
  BY <1>3, <1>4, Joined
<1> HIDE DEF T
<1>8. /\ L \in Seq(Seq(Parts)) /\ Len(L) = Len(T) + 1 /\ L[1] = w
      /\ \A j \in 1 .. Len(T) : L[j + 1] = T[j]
  BY <1>1, <1>6, <1>7, Preceded DEF T
<1> HIDE DEF p
<1>9. ASSUME NEW k \in 1 .. Len(L)
      PROVE  \/ k = 1
             \/ k - 1 \in 1 .. p /\ L[k] = P[k - 1]
             \/ k - 1 - p \in 1 .. Len(W) /\ L[k] = W[k - 1 - p]
  <2>1. CASE k - 1 \in 1 .. p
    <3>1. k - 1 \in 1 .. Len(T) /\ (k - 1) + 1 = k
      BY <1>3, <1>4, <1>7, <2>1
    <3> QED
      BY <1>7, <1>8, <2>1, <3>1
  <2>2. CASE k - 1 > p
    <3>1. /\ k - 1 - p \in 1 .. Len(W) /\ p + (k - 1 - p) = k - 1
          /\ k - 1 \in 1 .. Len(T) /\ (k - 1) + 1 = k
      BY <1>3, <1>4, <1>7, <1>8, <2>2
    <3>2. L[k] = T[k - 1] /\ T[k - 1] = W[k - 1 - p]
      BY <1>7, <1>8, <3>1
    <3> QED
      BY <3>1, <3>2
  <2> QED
    BY <1>3, <1>8, <2>1, <2>2
\* The names up to p + 1 are at the start of the reference, the others are domains.
<1>10. ASSUME NEW k \in 1 .. Len(L), k <= p + 1
       PROVE  /\ Len(L[k]) \in 1 .. Len(w) /\ L[k] = SubSeq(w, 1, Len(L[k])) /\ L[k][1] = w[1]
              /\ k = 1 => L[k] = w
              /\ k # 1 => k - 1 \in 1 .. p /\ L[k] = P[k - 1] /\ Len(L[k]) \in 1 .. Len(nm)
  <2>1. CASE k = 1
    <3>1. SubSeq(w, 1, Len(w)) = w /\ Len(w) > 0
      BY <1>1, PrefixFacts
    <3> QED
      BY <1>1, <1>8, <2>1, <3>1
  <2>2. CASE k # 1
    <3>1. k - 1 \in 1 .. p /\ L[k] = P[k - 1]
      BY <1>3, <1>4, <1>9, <1>10, <2>2
    <3> DEFINE n == Len(P[k - 1])
    <3>2. n \in 0 .. Len(nm) /\ P[k - 1] = SubSeq(nm, 1, n) /\ (n = Len(nm) \/ nm[n + 1] = "/")
      BY <1>3, <3>1
    <3>3. n # 0
      BY <1>1, <3>2 DEF Separators
    <3> HIDE DEF n
    <3>4. SubSeq(nm, 1, n) = SubSeq(w, 1, n)
      BY <1>1, <3>2
    <3>5. SubSeq(w, 1, n)[1] = w[1]
      BY <1>1, <3>2, <3>3
    <3> QED
      BY <1>1, <2>2, <3>1, <3>2, <3>3, <3>4, <3>5 DEF n
  <2> QED
    BY <2>1, <2>2
<1>11. ASSUME NEW k \in 1 .. Len(L), k > p + 1
       PROVE  k - 1 - p \in 1 .. Len(W) /\ L[k] = W[k - 1 - p] /\ \E i \in dots : L[k] = Star(h, i)
  <2>1. k - 1 - p \in 1 .. Len(W) /\ L[k] = W[k - 1 - p]
    BY <1>3, <1>9, <1>11
  <2> QED
    BY <1>4, <2>1
<1>12. ASSUME NEW i \in dots
       PROVE  /\ Star(h, i) \in Seq(Parts) /\ Len(Star(h, i)) = Len(h) + 2 - i
              /\ Star(h, i)[1] = "*" /\ Star(h, i)[2] = "."
              /\ Tail(Star(h, i)) = After(h, i - 1)
  <2>1. i \in 1 .. Len(h) /\ h[i] = "." /\ i - 1 + 1 = i
    BY <1>2, <1>5
  <2> QED
    BY <1>2, <2>1, StarFacts DEF After
<1>13. w[1] # "*"
  BY <1>1 DEF Separators
<1>14. ASSUME NEW k \in 1 .. Len(L) PROVE L[k][1] = "*" <=> k > p + 1
  <2>1. CASE k <= p + 1
    BY <1>3, <1>10, <1>13, <2>1
  <2>2. CASE k > p + 1
    BY <1>11, <1>12, <2>2
  <2> QED
    BY <1>3, <2>1, <2>2
<1>15. ASSUME NEW k \in 1 .. Len(L) PROVE L[k] # <<>> /\ Covers(L[k], r)
  <2>1. CASE k = 1
    <3>1. L[k] # <<>>
      BY <1>1, <1>8, <2>1
    <3> QED
      BY <1>8, <2>1, <3>1 DEF Covers, w
  <2>2. CASE k # 1 /\ k <= p + 1
    <3> DEFINE n == Len(L[k])
    <3>1. k - 1 \in 1 .. p /\ L[k] = P[k - 1] /\ n \in 1 .. Len(nm)
      BY <1>10, <2>2
    <3>2. L[k] = SubSeq(nm, 1, n) /\ (n = Len(nm) \/ nm[n + 1] = "/")
      BY <1>3, <3>1
    <3>3. SubSeq(L[k], 1, n) = SubSeq(nm, 1, n)
      <4> HIDE DEF n
      <4>1. n \in 0 .. Len(nm) /\ n \in 0 .. n
        BY <1>1, <3>1
      <4> QED
        BY <1>1, <3>2, <4>1, PrefixFacts
    <3>4. L[k] # <<>>
      BY <3>1
    <3>5. IsPrefix(L[k], nm)
      BY <1>1, <3>1, <3>3 DEF IsPrefix
    <3> QED
      BY <3>2, <3>4, <3>5 DEF Covers, nm
  <2>3. CASE k > p + 1
    <3>1. PICK i \in dots : L[k] = Star(h, i)
      BY <1>11, <2>3
    <3>2. i - 1 \in 1 .. Len(h) - 1 /\ Tail(L[k]) = After(h, i - 1) /\ L[k][1] = "*" /\ L[k][2] = "." /\ Len(L[k]) > 1
      BY <1>2, <1>5, <1>12, <3>1
    <3>3. \E n \in 1 .. Len(h) - 1 : Tail(L[k]) = After(h, n)
      BY <3>2
    <3>4. L[k] # <<>>
      BY <1>8, <3>2
    <3> QED
      BY <3>2, <3>3, <3>4 DEF Covers, h
  <2> QED
    BY <1>3, <2>1, <2>2, <2>3
<1>16. ASSUME NEW s \in Seq(Parts), Covers(s, r) PROVE \E k \in 1 .. Len(L) : L[k] = s
  <2>1. CASE s = w
    BY <1>7, <1>8, <2>1, <1>3, <1>4
  <2>2. CASE IsPrefix(s, nm) /\ s # <<>> /\ (Len(s) = Len(nm) \/ nm[Len(s) + 1] = "/")
    <3>1. Len(s) \in 1 .. Len(nm) /\ s = SubSeq(nm, 1, Len(s))
      <4>1. Len(s) <= Len(nm) /\ SubSeq(s, 1, Len(s)) = SubSeq(nm, 1, Len(s)) /\ Len(s) \in Nat /\ Len(s) # 0
        BY <1>1, <2>2 DEF IsPrefix
      <4>2. SubSeq(s, 1, Len(s)) = s
        BY PrefixFacts, <4>1
      <4> QED
        BY <1>1, <4>1, <4>2
    <3>2. \E k \in 1 .. p : P[k] = s
      <4>1. CASE Len(s) = Len(nm)
        <5>1. s = nm
          BY <1>1, <3>1, <4>1, PrefixFacts
        <5> QED
          BY <1>3, <5>1
      <4>2. CASE Len(s) # Len(nm)
        <5>1. Len(s) + 1 \in slashes /\ Before(nm, Len(s) + 1) = s
          BY <1>1, <2>2, <3>1, <4>2 DEF Places, slashes, Before
        <5> QED
          BY <1>3, <5>1
      <4> QED
        BY <4>1, <4>2
    <3>3. PICK k \in 1 .. p : P[k] = s
      BY <3>2
    <3>4. k \in 1 .. Len(T) /\ k + 1 \in 1 .. Len(L)
      BY <1>3, <1>4, <1>7, <1>8
    <3>5. L[k + 1] = T[k] /\ T[k] = P[k]
      BY <1>7, <1>8, <3>4
    <3> QED
      BY <3>3, <3>4, <3>5
  <2>3. CASE Len(s) > 1 /\ s[1] = "*" /\ s[2] = "." /\ \E n \in 1 .. Len(h) - 1 : Tail(s) = After(h, n)
    <3>1. PICK n \in 1 .. Len(h) - 1 : Tail(s) = After(h, n)
      BY <2>3
    <3> DEFINE i == n + 1
               star == Star(h, i)
    <3>2. i \in 1 .. Len(h)
      BY <1>2
    <3>3. /\ star \in Seq(Parts) /\ Len(star) = Len(h) + 2 - i /\ star[1] = "*" /\ star[2] = h[i]
          /\ Tail(star) = SubSeq(h, i, Len(h))
      BY <1>2, <3>2, StarFacts
    <3>4. Tail(star) = Tail(s)
      BY <3>1, <3>3 DEF After
    <3> HIDE DEF star
    <3>5. star # <<>> /\ s # <<>> /\ Len(star) \in Nat \ {0} /\ Len(s) \in Nat \ {0}
      BY <1>2, <2>3, <3>2, <3>3
    <3>6. Len(star) = Len(s) /\ \A j \in 1 .. Len(s) - 1 : star[j + 1] = s[j + 1]
      <4>1. Len(Tail(star)) = Len(star) - 1 /\ Len(Tail(s)) = Len(s) - 1
        BY <3>3, <3>5, HeadTailProperties
      <4>2. /\ \A j \in 1 .. Len(Tail(s)) : Tail(s)[j] = s[j + 1]
            /\ \A j \in 1 .. Len(Tail(star)) : Tail(star)[j] = star[j + 1]
        BY <3>3, <3>5, HeadTailProperties
      <4>3. Len(star) = Len(s) /\ Len(Tail(star)) = Len(s) - 1 /\ Len(Tail(s)) = Len(s) - 1
        <5>1. Len(Tail(star)) = Len(Tail(s))
          BY <3>4
        <5>2. Len(star) - 1 = Len(s) - 1
          BY <4>1, <5>1
        <5>3. Len(star) = Len(s)
          BY <3>5, <5>2
        <5> QED
          BY <4>1, <5>2, <5>3
      <4>4. ASSUME NEW j \in 1 .. Len(s) - 1 PROVE star[j + 1] = s[j + 1]
        <5>1. Tail(s)[j] = s[j + 1] /\ Tail(star)[j] = star[j + 1]
          BY <4>2, <4>3
        <5> QED
          BY <3>4, <5>1
      <4> QED
        BY <4>3, <4>4
    <3>7. star = s
      <4>1. \A j \in 1 .. Len(s) : star[j] = s[j]
        <5> TAKE j \in 1 .. Len(s)
        <5>1. CASE j = 1
          BY <2>3, <3>3, <5>1
        <5>2. CASE j # 1
          <6>1. j - 1 \in 1 .. Len(s) - 1 /\ (j - 1) + 1 = j
            BY <3>5, <5>2
          <6> QED
            BY <3>6, <6>1
        <5> QED
          BY <5>1, <5>2
      <4> QED
        BY <3>3, <3>6, <4>1
    <3>8. i \in dots
      BY <2>3, <3>2, <3>3, <3>7 DEF dots, Places
    <3>9. PICK k \in 1 .. Len(W) : W[k] = star
      BY <1>4, <3>8 DEF star
    <3>10. p + k \in 1 .. Len(T) /\ p + k + 1 \in 1 .. Len(L) /\ L[p + k + 1] = T[p + k] /\ T[p + k] = W[k]
      BY <1>3, <1>4, <1>7, <1>8
    <3> QED
      BY <3>7, <3>9, <3>10
  <2> QED
    BY <1>16, <2>1, <2>2, <2>3 DEF Covers, w, nm, h
<1>17. ASSUME NEW j \in 1 .. Len(L), NEW k \in 1 .. Len(L), j < k
       PROVE  \/ L[k][1] = "*" /\ L[j][1] # "*"
              \/ (L[k][1] = "*" <=> L[j][1] = "*") /\ Len(L[k]) < Len(L[j])
  <2>1. CASE k <= p + 1
    <3>1. k # 1 /\ Len(L[k]) \in 1 .. Len(nm) /\ k - 1 \in 1 .. p /\ L[k] = P[k - 1] /\ j <= p + 1
      BY <1>3, <1>10, <1>17, <2>1
    <3>2. CASE j = 1
      <4>1. L[j] = w /\ Len(L[k]) < Len(L[j])
        BY <1>1, <1>8, <3>1, <3>2
      <4>2. L[k][1] # "*" /\ L[j][1] # "*"
        BY <1>3, <1>14, <2>1, <3>1
      <4> QED
        BY <4>1, <4>2
    <3>3. CASE j # 1
      <4>1. j - 1 \in 1 .. p /\ L[j] = P[j - 1] /\ j - 1 < k - 1
        BY <1>10, <1>17, <3>1, <3>3
      <4>2. Len(P[k - 1]) < Len(P[j - 1])
        BY <1>3, <3>1, <4>1
      <4>3. L[k][1] # "*" /\ L[j][1] # "*"
        BY <1>3, <1>14, <2>1, <3>1
      <4> QED
        BY <3>1, <4>1, <4>2, <4>3
    <3> QED
      BY <3>2, <3>3
  <2>2. CASE k > p + 1 /\ j <= p + 1
    BY <1>3, <1>14, <2>2
  <2>3. CASE k > p + 1 /\ j > p + 1
    <3>1. /\ k - 1 - p \in 1 .. Len(W) /\ L[k] = W[k - 1 - p]
          /\ j - 1 - p \in 1 .. Len(W) /\ L[j] = W[j - 1 - p]
      BY <1>11, <2>3
    <3>2. j - 1 - p < k - 1 - p
      BY <1>3, <1>17
    <3>3. Len(W[k - 1 - p]) < Len(W[j - 1 - p])
      BY <1>4, <3>1, <3>2
    <3> QED
      BY <1>14, <2>3, <3>1, <3>3
  <2> QED
    BY <1>3, <2>1, <2>2, <2>3
<1>18. \A k \in 1 .. Len(L) : Len(L[k]) \in Nat
  BY <1>8
<1>19. ASSUME NEW j \in 1 .. Len(L), NEW k \in 1 .. Len(L), j <= k PROVE SaysNoMore(L[k], L[j])
  <2>1. CASE j < k
    BY <1>17, <1>18, <2>1 DEF SaysNoMore
  <2>2. CASE j = k
    BY <1>18, <2>2 DEF SaysNoMore
  <2> QED
    BY <1>19, <2>1, <2>2
<1>20. ASSUME NEW j \in 1 .. Len(L), NEW k \in 1 .. Len(L), SaysNoMore(L[j], L[k]), SaysNoMore(L[k], L[j])
       PROVE  L[j] = L[k]
  <2>1. ~ (j < k)
    BY <1>17, <1>18, <1>20 DEF SaysNoMore
  <2>2. ~ (k < j)
    BY <1>17, <1>18, <1>20 DEF SaysNoMore
  <2>3. j \in Nat /\ k \in Nat
    BY <1>8
  <2>4. j = k
    BY <2>1, <2>2, <2>3
  <2> QED
    BY <2>4
<1>21. Len(L) \in Nat
  BY <1>8
<1> QED
  BY <1>8, <1>15, <1>16, <1>19, <1>20, <1>21 DEF L


\* Policy::requirements_for_image: the first of the names that the policy has is the
\* scope that says most.
LEMMA RequirementsMeant ==
  ASSUME NEW policy \in Policies, NEW r, IsReference(r)
  PROVE  /\ RequirementsFor(policy, r) = MeantRequirements(policy, r)
         /\ IsSeqOf(RequirementsFor(policy, r))
<1> DEFINE scopes == policy.scopes
           L == LookupNames(r)
           T == {i \in DOMAIN L : L[i] \in DOMAIN scopes}
           e == Entry(L, scopes)
           covering == {s \in DOMAIN scopes \ {<<>>} : Covers(s, r)}
           most(s) == \A t \in covering : SaysNoMore(t, s)
<1>1. /\ DOMAIN scopes \subseteq Seq(Parts) /\ IsSeqOf(policy.default)
      /\ \A n \in DOMAIN scopes : IsSeqOf(scopes[n])
  BY SignatureAssumption
<1>2. /\ L \in Seq(Seq(Parts)) /\ Len(L) \in Nat /\ DOMAIN L = 1 .. Len(L)
      /\ \A k \in 1 .. Len(L) : L[k] # <<>> /\ Covers(L[k], r)
      /\ \A s \in Seq(Parts) : Covers(s, r) => \E k \in 1 .. Len(L) : L[k] = s
      /\ \A j, k \in 1 .. Len(L) : j <= k => SaysNoMore(L[k], L[j])
      /\ \A j, k \in 1 .. Len(L) : SaysNoMore(L[j], L[k]) /\ SaysNoMore(L[k], L[j]) => L[j] = L[k]
  <2>1. L \in Seq(Seq(Parts)) /\ Len(L) \in Nat /\ DOMAIN L = 1 .. Len(L)
    BY LookupFacts
  <2>2. \A k \in 1 .. Len(L) : L[k] # <<>> /\ Covers(L[k], r)
    BY LookupFacts
  <2>3. \A s \in Seq(Parts) : Covers(s, r) => \E k \in 1 .. Len(L) : L[k] = s
    BY LookupFacts
  <2>4. \A j, k \in 1 .. Len(L) : j <= k => SaysNoMore(L[k], L[j])
    BY LookupFacts
  <2>5. \A j, k \in 1 .. Len(L) : SaysNoMore(L[j], L[k]) /\ SaysNoMore(L[k], L[j]) => L[j] = L[k]
    BY LookupFacts
  <2> HIDE DEF L
  <2> QED
    BY <2>1, <2>2, <2>3, <2>4, <2>5
<1>3. HasEntry(L, scopes) <=> T # {}
  BY DEF HasEntry
<1>4. e = L[Min(T)]
  BY DEF Entry
<1> HIDE DEF L, e, scopes
<1>5. \A s \in covering : \E k \in T : L[k] = s
  BY <1>1, <1>2
<1>6. \A k \in T : L[k] \in covering
  BY <1>2
<1>7. CASE T # {}
  <2> DEFINE m == Min(T)
  <2>1. m \in T /\ \A k \in T : m <= k
    <3>1. T \subseteq Nat
      BY <1>2
    <3> QED
      BY <1>7, <3>1, LeastNumber
  <2> HIDE DEF m
  <2>2. e = L[m] /\ e \in covering
    BY <1>4, <1>6, <2>1 DEF m
  <2>3. most(e)
    BY <1>2, <1>5, <2>1, <2>2
  <2>4. \A s \in covering : most(s) => s = e
    <3> SUFFICES ASSUME NEW s \in covering, most(s) PROVE s = e
      OBVIOUS
    <3>1. PICK k \in T : L[k] = s
      BY <1>5
    <3>2. SaysNoMore(e, s) /\ SaysNoMore(s, e)
      BY <2>2, <2>3
    <3> QED
      BY <1>2, <2>1, <2>2, <3>1, <3>2
  <2> HIDE DEF most, covering
  <2>5. (CHOOSE s \in covering : most(s)) = e
    BY <2>2, <2>3, <2>4
  <2>6. covering # {}
    BY <2>2
  <2>7. MeantRequirements(policy, r) = scopes[e]
    <3>1. MeantRequirements(policy, r) =
            IF covering # {} THEN scopes[CHOOSE s \in covering : most(s)]
            ELSE IF <<>> \in DOMAIN scopes THEN scopes[<<>>] ELSE policy.default
      BY DEF MeantRequirements, covering, most, scopes
    <3> QED
      BY <2>5, <2>6, <3>1
  <2>8. RequirementsFor(policy, r) = scopes[e]
    BY <1>3, <1>7 DEF RequirementsFor, scopes, e, L
  <2>9. e \in DOMAIN scopes
    BY <2>2 DEF covering
  <2> QED
    BY <1>1, <2>7, <2>8, <2>9
<1>8. CASE T = {}
  <2>1. covering = {}
    BY <1>5, <1>8
  <2>2. MeantRequirements(policy, r) = IF <<>> \in DOMAIN scopes THEN scopes[<<>>] ELSE policy.default
    BY <2>1 DEF MeantRequirements, scopes
  <2>3. RequirementsFor(policy, r) = IF <<>> \in DOMAIN scopes THEN scopes[<<>>] ELSE policy.default
    BY <1>3, <1>8 DEF RequirementsFor, scopes, L
  <2> QED
    BY <1>1, <2>2, <2>3
<1> QED
  BY <1>7, <1>8

(***************************************************************************)
(* What is met stays so: a requirement is either still due or is met by a  *)
(* signature of the image that is checked.                                 *)
(***************************************************************************)

Checked == RequirementsFor(validator.policy, image.ref)

Progress ==
  /\ validator.policy \in Policies /\ image \in Checks
  /\ \E n \in 0 .. Len(Checked) : /\ todo = SubSeq(Checked, n + 1, Len(Checked))
                                  /\ \A i \in 1 .. n : IsMet(Checked[i])

JudgedByCosign ==
  /\ todo # <<>> /\ Head(todo).type = "sigstoreSigned" /\ CosignRule(Head(todo))
  /\ payloads \subseteq ToSet(image.cosign)
  /\ \E s \in payloads : s.key = Head(KeysOf(Head(todo)))

SigInv ==
  /\ sigPc = "ready" => validator.policy \in Policies
  /\ sigPc \in {"checking", "cosign", "allowed"} => Progress
  /\ sigPc = "cosign" => JudgedByCosign
  /\ sigPc = "allowed" => todo = <<>>

\* A signature of the reference, or of its repository, has the name of the image.
LEMMA MatchIsOfName ==
  ASSUME image \in Checks, NEW req, NEW s, Matches(Identity(req), image.ref, s.identity)
  PROVE  OfName(req, s)
<1> DEFINE r == image.ref
           rule == Identity(req)
           type == req.identity.type
<1>1. IsReference(r) /\ Parse(Whole(r)).name = r.name /\ (r.tag # Absent \/ r.digest # Absent)
  BY SignatureAssumption, NameIsParsed DEF IsReference
<1>2. rule.type = IF type = "none" THEN "matchRepoDigestOrExact" ELSE type
  BY DEF Identity
<1>3. CASE type = "matchExact"
  <2>1. Whole(r) = s.identity
    BY <1>2, <1>3 DEF Matches
  <2> QED
    BY <1>1, <1>3, <2>1 DEF OfName
<1>4. CASE type \in {"none", "matchRepoDigestOrExact"}
  <2>1. SameOrOfRepository(r, s.identity)
    BY <1>2, <1>4 DEF Matches
  <2>2. Parse(s.identity).name = r.name /\ (r.digest = Absent => s.identity = Whole(r))
    BY <1>1, <2>1 DEF SameOrOfRepository
  <2> QED
    BY <1>4, <2>2 DEF OfName
<1>5. CASE type = "matchRepository"
  <2>1. r.name = Parse(s.identity).name
    BY <1>2, <1>5 DEF Matches
  <2> QED
    BY <1>5, <2>1 DEF OfName
<1>6. CASE type \notin {"none", "matchExact", "matchRepoDigestOrExact", "matchRepository"}
  BY <1>6 DEF OfName
<1> QED
  BY <1>3, <1>4, <1>5, <1>6

\* Meeting the first requirement that is due.
LEMMA OneMoreMet ==
  ASSUME Progress, todo # <<>>, IsMet(Head(todo)), Met
  PROVE  SigInv'
<1>1. IsSeqOf(Checked)
  BY SignatureAssumption, RequirementsMeant DEF Progress, Checked
<1>2. PICK n \in 0 .. Len(Checked) : /\ todo = SubSeq(Checked, n + 1, Len(Checked))
                                     /\ \A i \in 1 .. n : IsMet(Checked[i])
  BY DEF Progress
<1>3. UNCHANGED <<validator, image>> /\ todo' = Tail(todo) /\ sigPc' = "checking"
  BY DEF Met
<1>4. Checked' = Checked /\ \A req : IsMet(req)' <=> IsMet(req)
  BY <1>3 DEF Checked, IsMet, OfName
<1> DEFINE c == Checked
           m == Len(c)
<1>5. c \in Seq(ToSet(c)) /\ m \in Nat
  BY <1>1 DEF IsSeqOf
<1> HIDE DEF c
<1>6. todo = SubSeq(c, n + 1, m) /\ n \in 0 .. m
  BY <1>2 DEF c
<1>7. n < m
  <2>1. n = m => todo = <<>>
    BY <1>5, <1>6
  <2> QED
    BY <1>5, <1>6, <2>1
<1>8. Head(todo) = c[n + 1] /\ Tail(todo) = SubSeq(c, n + 2, m)
  <2>1. /\ todo \in Seq(ToSet(c)) /\ Len(todo) = m - n
        /\ \A j \in 1 .. m - n : todo[j] = c[n + j]
    BY <1>5, <1>6
  <2>2. Head(todo) = c[n + 1]
    BY <1>5, <1>7, <1>6, <2>1
  <2> DEFINE t == Tail(todo)
             u == SubSeq(c, n + 2, m)
  <2>3. /\ t \in Seq(ToSet(c)) /\ Len(t) = m - n - 1
        /\ \A j \in 1 .. m - n - 1 : t[j] = todo[j + 1]
    BY <1>5, <1>6, <1>7, <2>1, HeadTailProperties
  <2>4. \A j \in 1 .. m - n - 1 : t[j] = c[n + 1 + j]
    <3> TAKE j \in 1 .. m - n - 1
    <3>1. j + 1 \in 1 .. m - n /\ n + (j + 1) = n + 1 + j
      BY <1>5, <1>6, <1>7
    <3> QED
      BY <2>1, <2>3, <3>1
  <2>5. u \in Seq(ToSet(c)) /\ Len(u) = m - n - 1 /\ \A j \in 1 .. m - n - 1 : u[j] = c[n + 1 + j]
    BY <1>5, <1>6, <1>7
  <2> HIDE DEF t, u
  <2>6. t = u
    BY <2>3, <2>4, <2>5
  <2> QED
    BY <2>2, <2>6 DEF t, u
<1>9. \A i \in 1 .. n + 1 : IsMet(c[i])
  <2> TAKE i \in 1 .. n + 1
  <2>1. i \in 1 .. n \/ i = n + 1
    BY <1>5, <1>6
  <2> QED
    BY <1>2, <1>8, <2>1 DEF c
<1>10. Progress'
  <2>1. n + 1 \in 0 .. m /\ n + 1 + 1 = n + 2
    BY <1>5, <1>6, <1>7
  <2>2. Checked' = c
    BY <1>4 DEF c
  <2>3. todo' = SubSeq(Checked', (n + 1) + 1, Len(Checked'))
    BY <1>3, <1>8, <2>1, <2>2
  <2>4. \A i \in 1 .. n + 1 : IsMet(Checked[i])'
    <3> TAKE i \in 1 .. n + 1
    <3>1. IsMet(Checked[i])
      BY <1>9 DEF c
    <3> QED
      BY <1>3, <1>4, <3>1 DEF IsMet, OfName
  <2>5. validator'.policy \in Policies /\ image' \in Checks
    BY <1>3 DEF Progress
  <2>6. n + 1 \in 0 .. Len(Checked')
    BY <2>1, <2>2
  <2> HIDE DEF m
  <2> QED
    BY <2>3, <2>4, <2>5, <2>6 DEF Progress
<1> QED
  BY <1>3, <1>10 DEF SigInv

LEMMA SigInitInv == SignatureInit => SigInv
BY DEF SignatureInit, SigInv

LEMMA SigStep == SigInv /\ [SignatureNext]_sigVars => SigInv'
<1> SUFFICES ASSUME SigInv, [SignatureNext]_sigVars PROVE SigInv'
  OBVIOUS
<1>1. ASSUME NEW p \in Policies, NEW f, NEW legal, NewValidator(p, f, legal) PROVE SigInv'
  BY <1>1 DEF NewValidator, SigInv
<1>2. ASSUME NEW c \in Checks, CheckImage(c) PROVE SigInv'
  <2>1. CASE sigPc' = "error"
    BY <2>1 DEF SigInv
  <2>2. CASE sigPc' # "error"
    <3>1. /\ validator' = validator /\ validator.policy \in Policies
          /\ image' = c /\ todo' = RequirementsFor(validator.policy, c.ref) /\ sigPc' = "checking"
      BY <1>2, <2>2 DEF CheckImage, SigInv
    <3> DEFINE q == RequirementsFor(validator.policy, c.ref)
    <3>2. q \in Seq(ToSet(q))
      BY <3>1, SignatureAssumption, RequirementsMeant DEF IsSeqOf
    <3>3. Checked' = q
      BY <3>1 DEF Checked
    <3> HIDE DEF q
    <3>4. q = SubSeq(q, 1, Len(q)) /\ 0 \in 0 .. Len(q)
      BY <3>2
    <3>5. Progress'
      <4>1. todo' = SubSeq(Checked', 0 + 1, Len(Checked')) /\ 0 \in 0 .. Len(Checked')
        BY <3>1, <3>3, <3>4 DEF q
      <4>2. \A i \in 1 .. 0 : IsMet(Checked[i])'
        OBVIOUS
      <4> QED
        BY <3>1, <4>1, <4>2 DEF Progress
    <3> QED
      BY <3>1, <3>5 DEF SigInv
  <2> QED
    BY <2>1, <2>2
\* Nothing but the state of the check changes, or what the name stands for.
<1>3. ASSUME UNCHANGED <<validator, image, todo, payloads>>
      PROVE  (Progress <=> Progress') /\ (JudgedByCosign <=> JudgedByCosign')
  BY <1>3 DEF Progress, Checked, IsMet, OfName, JudgedByCosign
<1>13. ASSUME UNCHANGED <<validator, image, todo>>, Progress PROVE Progress'
  <2>1. Checked' = Checked
    BY <1>13 DEF Checked
  <2>2. ASSUME NEW i, IsMet(Checked[i]) PROVE IsMet(Checked[i])'
    BY <1>13, <2>1, <2>2 DEF IsMet, OfName
  <2>3. PICK n \in 0 .. Len(Checked) : /\ todo = SubSeq(Checked, n + 1, Len(Checked))
                                       /\ \A i \in 1 .. n : IsMet(Checked[i])
    BY <1>13 DEF Progress
  <2>4. \A i \in 1 .. n : IsMet(Checked[i])'
    BY <2>2, <2>3
  <2>5. n \in 0 .. Len(Checked') /\ todo' = SubSeq(Checked', n + 1, Len(Checked'))
    BY <1>13, <2>1, <2>3
  <2>6. validator'.policy \in Policies /\ image' \in Checks
    BY <1>13 DEF Progress
  <2> QED
    BY <2>4, <2>5, <2>6 DEF Progress
<1>4. ASSUME NEW d, Retag(d) PROVE SigInv'
  BY <1>3, <1>4 DEF Retag, SigInv
<1>5. ASSUME Deny PROVE SigInv'
  BY <1>5 DEF Deny, SigInv
<1>6. ASSUME NEW d, FetchPayloads(d) PROVE SigInv'
  <2>1. Progress /\ Due("sigstoreSigned")
    BY <1>6 DEF FetchPayloads, Due, SigInv
  <2>2. CASE ~ Deny
    <3> DEFINE layers == {s \in ToSet(image.cosign) : s.of = d}
    <3>1. /\ CosignRule(Head(todo)) /\ \E s \in layers : s.key = Head(KeysOf(Head(todo)))
          /\ payloads' = layers /\ sigPc' = "cosign" /\ UNCHANGED <<validator, image, todo>>
      BY <1>6, <2>2 DEF FetchPayloads
    <3>2. Progress'
      BY <1>13, <2>1, <3>1
    <3>3. JudgedByCosign'
      BY <2>1, <3>1 DEF JudgedByCosign, Due
    <3> QED
      BY <3>1, <3>2, <3>3 DEF SigInv
  <2> QED
    BY <1>5, <2>2
<1>7. ASSUME Accept PROVE SigInv'
  <2>1. Progress /\ todo # <<>> /\ Head(todo).type = "insecureAcceptAnything" /\ Met
    BY <1>7 DEF Accept, Due, SigInv
  <2>2. IsMet(Head(todo))
    BY <2>1 DEF IsMet
  <2> QED
    BY <2>1, <2>2, OneMoreMet
<1>8. ASSUME SimpleSigning PROVE SigInv'
  <2>1. Progress /\ todo # <<>> /\ Head(todo).type = "signedBy" /\ (Met \/ Deny)
    BY <1>8 DEF SimpleSigning, Due, SigInv
  <2>2. CASE ~ Deny
    <3> DEFINE req == Head(todo)
    <3>1. Met /\ \E s \in SignaturesFound.sigs : Judged(s, req, KeysOf(req))
      BY <1>8, <2>2 DEF SimpleSigning
    <3>2. PICK s \in SignaturesFound.sigs : Judged(s, req, KeysOf(req))
      BY <3>1
    <3>3. s \in image.registry \cup image.store
      BY <3>2 DEF SignaturesFound
    <3>4. s.key \in ToSet(KeysOf(req)) /\ s.issuer = s.key /\ s.digest = image.digest
      BY <3>2 DEF Judged, Verified
    <3>5. OfName(req, s)
      BY <2>1, <3>2, MatchIsOfName DEF Judged, Progress
    <3>6. IsMet(req)
      BY <2>1, <3>3, <3>4, <3>5 DEF IsMet
    <3> QED
      BY <2>1, <3>1, <3>6, OneMoreMet
  <2> QED
    BY <1>5, <2>2
<1>9. ASSUME JudgePayloads PROVE SigInv'
  <2>1. Progress /\ JudgedByCosign /\ (Met \/ Deny)
    BY <1>9 DEF JudgePayloads, SigInv
  <2>2. CASE ~ Deny
    <3> DEFINE req == Head(todo)
    <3>1. /\ Met
          /\ \A s \in payloads :
               /\ req.identity.type # "none" => Matches(req.identity, image.ref, s.identity)
               /\ s.digest \in {image.digest, image.list} \ {0}
      BY <1>9, <2>2 DEF JudgePayloads
    <3>2. PICK s \in payloads : s.key = Head(KeysOf(req))
      BY <2>1 DEF JudgedByCosign
    <3>3. s \in ToSet(image.cosign) /\ s.digest \in {image.digest, image.list}
      BY <2>1, <3>1 DEF JudgedByCosign
    <3>4. req.identity.type # "none" => OfName(req, s)
      <4> SUFFICES ASSUME req.identity.type # "none" PROVE OfName(req, s)
        OBVIOUS
      <4>1. Matches(Identity(req), image.ref, s.identity)
        BY <3>1 DEF Identity
      <4> QED
        BY <2>1, <4>1, MatchIsOfName DEF Progress
    <3>5. IsMet(req)
      BY <2>1, <3>2, <3>3, <3>4 DEF IsMet, JudgedByCosign
    <3> QED
      BY <2>1, <3>1, <3>5, OneMoreMet DEF JudgedByCosign
  <2> QED
    BY <1>5, <2>2
<1>10. ASSUME Allowed PROVE SigInv'
  BY <1>3, <1>10 DEF Allowed, SigInv
<1>11. ASSUME Reject PROVE SigInv'
  BY <1>5, <1>11 DEF Reject
<1>12. CASE UNCHANGED sigVars
  BY <1>3, <1>12 DEF sigVars, SigInv
<1> QED
  BY <1>1, <1>2, <1>4, <1>6, <1>7, <1>8, <1>9, <1>10, <1>11, <1>12 DEF SignatureNext

LEMMA AllRequirementsMet == SigInv => AllowedMeetsPolicy
<1> SUFFICES ASSUME SigInv, sigPc = "allowed"
             PROVE  LET reqs == MeantRequirements(validator.policy, image.ref) IN
                    \A i \in DOMAIN reqs : IsMet(reqs[i])
  BY DEF AllowedMeetsPolicy
<1>1. Progress /\ todo = <<>>
  BY DEF SigInv
<1>2. Checked = MeantRequirements(validator.policy, image.ref) /\ IsSeqOf(Checked)
  BY <1>1, SignatureAssumption, RequirementsMeant DEF Progress, Checked
<1>3. PICK n \in 0 .. Len(Checked) : /\ todo = SubSeq(Checked, n + 1, Len(Checked))
                                     /\ \A i \in 1 .. n : IsMet(Checked[i])
  BY <1>1 DEF Progress
<1> DEFINE c == Checked
<1>4. c \in Seq(ToSet(c)) /\ Len(c) \in Nat /\ DOMAIN c = 1 .. Len(c)
  BY <1>2 DEF IsSeqOf
<1> HIDE DEF c
<1>5. n = Len(c)
  <2> DEFINE m == Len(c)
             u == SubSeq(c, n + 1, m)
  <2>1. m \in Nat /\ n \in 0 .. m /\ u = todo
    BY <1>3, <1>4 DEF c
  <2>2. \A i, j \in Nat : i + 1 <= j /\ j <= Len(c) => Len(SubSeq(c, i + 1, j)) = j - i
    BY <1>4
  <2>3. n \in Nat /\ n + 1 <= m => Len(u) = m - n
    BY <2>1, <2>2
  <2> HIDE DEF m, u
  <2>4. Len(u) = 0
    BY <1>1, <2>1
  <2>5. n = m
    BY <2>1, <2>3, <2>4
  <2> QED
    BY <2>5 DEF m
<1> QED
  BY <1>2, <1>3, <1>4, <1>5 DEF c

\* An image that is allowed meets every requirement of the most specific scope it is in,
\* by signatures of this manifest and of the name it is asked for by, whatever the name
\* has come to stand for meanwhile (signature/mod.rs, check_image_signature).
THEOREM SignaturesMeetPolicy == SignatureSpec => []AllowedMeetsPolicy
BY SigInitInv, SigStep, AllRequirementsMet, PTL DEF SignatureSpec

-----------------------------------------------------------------------------
(* Part 7: registries.  A rule matches where it is meant to, for its       *)
(* prefix is found nowhere else; so the tasks of a call are those meant,   *)
(* and those tried with those still to be tried are the same list all      *)
(* along.  A key found for a name is of its registry.                      *)

\* Prefixes and suffixes, place by place.
LEMMA PrefixPlaces ==
  ASSUME NEW S, NEW s \in Seq(S), NEW t \in Seq(S)
  PROVE  IsPrefix(s, t) <=> Len(s) <= Len(t) /\ \A j \in 1 .. Len(s) : t[j] = s[j]
<1>1. Len(s) \in Nat /\ Len(t) \in Nat /\ SubSeq(s, 1, Len(s)) = s
  BY PrefixFacts
<1>2. ASSUME Len(s) <= Len(t) PROVE SubSeq(t, 1, Len(s)) = s <=> \A j \in 1 .. Len(s) : t[j] = s[j]
  <2> DEFINE u == SubSeq(t, 1, Len(s))
  <2>1. u \in Seq(S) /\ Len(u) = Len(s) /\ \A j \in 1 .. Len(s) : u[j] = t[j]
    BY <1>1, <1>2, PrefixFacts
  <2> HIDE DEF u
  <2>2. u = s <=> \A j \in 1 .. Len(s) : u[j] = s[j]
    BY <2>1
  <2>3. u = s <=> \A j \in 1 .. Len(s) : t[j] = s[j]
    BY <2>1, <2>2
  <2> QED
    BY <2>3 DEF u
<1> QED
  BY <1>1, <1>2 DEF IsPrefix

LEMMA ReversedFacts ==
  ASSUME NEW S, NEW s \in Seq(S)
  PROVE  /\ Reverse(s) \in Seq(S) /\ Len(Reverse(s)) = Len(s) /\ Len(s) \in Nat
         /\ \A j \in 1 .. Len(s) : Reverse(s)[j] = s[(Len(s) - j) + 1]
<1>1. Len(s) \in Nat /\ \A j \in 1 .. Len(s) : s[(Len(s) - j) + 1] \in S
  OBVIOUS
<1>2. Reverse(s) \in [1 .. Len(s) -> S]
  BY <1>1 DEF Reverse
<1> QED
  BY <1>1, <1>2, ListOf DEF Reverse

LEMMA SuffixPlaces ==
  ASSUME NEW S, NEW s \in Seq(S), NEW t \in Seq(S)
  PROVE  IsSuffix(s, t) <=> Len(s) <= Len(t) /\ \A j \in 1 .. Len(s) : t[Len(t) - Len(s) + j] = s[j]
<1> DEFINE u == Reverse(s)
           v == Reverse(t)
           m == Len(s)
           n == Len(t)
<1>1. u \in Seq(S) /\ Len(u) = m /\ m \in Nat /\ \A j \in 1 .. m : u[j] = s[(m - j) + 1]
  BY ReversedFacts
<1>2. v \in Seq(S) /\ Len(v) = n /\ n \in Nat /\ \A j \in 1 .. n : v[j] = t[(n - j) + 1]
  BY ReversedFacts
<1>3. IsSuffix(s, t) <=> IsPrefix(u, v)
  BY DEF IsSuffix
<1> HIDE DEF u, v
<1>4. IsSuffix(s, t) <=> m <= n /\ \A j \in 1 .. m : v[j] = u[j]
  BY <1>1, <1>2, <1>3, PrefixPlaces
<1> HIDE DEF m, n
<1>5. ASSUME m <= n PROVE (\A j \in 1 .. m : v[j] = u[j]) <=> (\A j \in 1 .. m : t[n - m + j] = s[j])
  <2>1. ASSUME \A j \in 1 .. m : v[j] = u[j], NEW j \in 1 .. m PROVE t[n - m + j] = s[j]
    <3> DEFINE k == m - j + 1
    <3>1. k \in 1 .. m /\ k \in 1 .. n /\ (m - k) + 1 = j /\ (n - k) + 1 = n - m + j
      BY <1>1, <1>2, <1>5
    <3> HIDE DEF k
    <3> QED
      BY <1>1, <1>2, <2>1, <3>1
  <2>2. ASSUME \A j \in 1 .. m : t[n - m + j] = s[j], NEW j \in 1 .. m PROVE v[j] = u[j]
    <3> DEFINE k == m - j + 1
    <3>1. k \in 1 .. m /\ j \in 1 .. n /\ (m - j) + 1 = k /\ (n - j) + 1 = n - m + k
      BY <1>1, <1>2, <1>5
    <3> HIDE DEF k
    <3>2. v[j] = t[n - m + k] /\ u[j] = s[k]
      BY <1>1, <1>2, <3>1
    <3> QED
      BY <2>2, <3>1, <3>2
  <2> QED
    BY <2>1, <2>2
<1> QED
  BY <1>4, <1>5 DEF m, n

\* Where one name is found in another.
LEMMA FoundFacts ==
  ASSUME NEW s \in Seq(Parts), NEW sub \in Seq(Parts), NEW i \in 1 .. Len(s)
  PROVE  i \in FoundAt(s, sub) <=>
           /\ i + Len(sub) <= Len(s) + 1
           /\ \A j \in 1 .. Len(sub) : s[i + j - 1] = sub[j]
<1> DEFINE u == SubSeq(s, i, Len(s))
<1>1. /\ u \in Seq(Parts) /\ Len(u) = Len(s) + 1 - i /\ Len(s) \in Nat /\ Len(sub) \in Nat
      /\ \A j \in 1 .. Len(s) + 1 - i : u[j] = s[i + j - 1]
  OBVIOUS
<1>2. i \in FoundAt(s, sub) <=> IsPrefix(sub, u)
  BY DEF FoundAt
<1> HIDE DEF u
<1>3. i \in FoundAt(s, sub) <=> Len(sub) <= Len(u) /\ \A j \in 1 .. Len(sub) : u[j] = sub[j]
  BY <1>1, <1>2, PrefixPlaces
<1>4. Len(sub) <= Len(u) <=> i + Len(sub) <= Len(s) + 1
  BY <1>1
<1>5. Len(sub) <= Len(u) => \A j \in 1 .. Len(sub) : u[j] = s[i + j - 1]
  BY <1>1
<1> QED
  BY <1>3, <1>4, <1>5

LEMMA FindFacts ==
  ASSUME NEW s \in Seq(Parts), NEW sub \in Seq(Parts)
  PROVE  /\ Find(s, sub) \in 0 .. Len(s) /\ FoundAt(s, sub) \subseteq 1 .. Len(s)
         /\ Find(s, sub) = 0 => FoundAt(s, sub) = {}
         /\ Find(s, sub) # 0 => Find(s, sub) \in FoundAt(s, sub)
<1>1. FoundAt(s, sub) \subseteq 1 .. Len(s)
  BY DEF FoundAt
<1>2. FoundAt(s, sub) \subseteq Nat
  BY <1>1
<1>3. FoundAt(s, sub) # {} => Min(FoundAt(s, sub)) \in FoundAt(s, sub)
  BY <1>2, LeastNumber
<1>4. Len(s) \in Nat
  OBVIOUS
<1> QED
  BY <1>1, <1>3, <1>4 DEF Find

\* The host[:port] that a name starts with ends at c.
HostEnds(s, c) ==
  /\ c \in 2 .. Len(s) /\ s[c] = "/"
  /\ \A j \in 1 .. c - 1 : s[j] \notin {"/", "@"} /\ (s[j] = ":" => j = c - 2 /\ s[j + 1] # ".")

LEMMA WildFacts ==
  ASSUME NEW prefix \in Seq(Parts), IsWild(prefix)
  PROVE  /\ Tail(prefix) \in Seq(Parts) /\ Len(Tail(prefix)) \in Nat \ {0} /\ Tail(prefix)[1] = "."
         /\ \A j \in 1 .. Len(Tail(prefix)) : Tail(prefix)[j] \in ToSet(prefix)
<1> DEFINE t == Tail(prefix)
<1>1. Len(prefix) \in Nat /\ Len(prefix) > 1 /\ prefix[2] = "." /\ prefix # <<>>
  BY DEF IsWild
<1>2. t \in Seq(Parts) /\ Len(t) = Len(prefix) - 1 /\ \A j \in 1 .. Len(t) : t[j] = prefix[j + 1]
  BY <1>1, HeadTailProperties
<1> HIDE DEF t
<1>3. Len(t) \in Nat \ {0} /\ t[1] = "."
  <2>1. Len(t) \in Nat \ {0} /\ 1 \in 1 .. Len(t) /\ 1 + 1 = 2
    BY <1>1, <1>2
  <2> QED
    BY <1>1, <1>2, <2>1
<1>4. \A j \in 1 .. Len(t) : t[j] \in ToSet(prefix)
  <2> TAKE j \in 1 .. Len(t)
  <2>1. j + 1 \in 1 .. Len(prefix)
    BY <1>1, <1>2
  <2> QED
    BY <1>2, <2>1 DEF ToSet
<1> QED
  BY <1>2, <1>3, <1>4 DEF t

\* How long a match is, and that it is where it is meant to be.
LEMMA MatchedIsAnchored ==
  ASSUME NEW s \in Seq(Parts), NEW c, HostEnds(s, c), NEW prefix \in Seq(Parts), prefix # <<>>,
         IF IsWild(prefix)
         THEN {"/", ":"} \cap ToSet(prefix) = {} /\ \A j1, j2 \in FoundAt(s, Tail(prefix)) : j1 = j2
         ELSE FoundAt(s, prefix) \subseteq {1}
  PROVE  MatchedLength(s, prefix) = AnchoredLength(s, prefix)
<1>1. Len(s) \in Nat /\ c \in 2 .. Len(s) /\ 1 \in 1 .. Len(s)
  BY DEF HostEnds
<1>2. CASE ~ IsWild(prefix)
  <2> DEFINE i == Find(s, prefix)
             m == Len(prefix)
  <2>1. m \in Nat \ {0}
    BY EmptySeq
  <2>2. MatchedLength(s, prefix) = IF i # 0 /\ EndsAt(s, i + m - 1) THEN i + m - 1 ELSE 0
    BY <1>2 DEF MatchedLength
  <2>3. AnchoredLength(s, prefix) = IF IsPrefix(prefix, s) /\ EndsAt(s, m) THEN m ELSE 0
    BY <1>2 DEF AnchoredLength
  <2>4. i \in 0 .. Len(s) /\ (i = 0 => FoundAt(s, prefix) = {}) /\ (i # 0 => i \in FoundAt(s, prefix))
    BY FindFacts
  <2>5. 1 \in FoundAt(s, prefix) <=> IsPrefix(prefix, s)
    <3>1. 1 \in FoundAt(s, prefix) <=> 1 + m <= Len(s) + 1 /\ \A j \in 1 .. m : s[1 + j - 1] = prefix[j]
      BY <1>1, FoundFacts
    <3>2. IsPrefix(prefix, s) <=> m <= Len(s) /\ \A j \in 1 .. m : s[j] = prefix[j]
      BY PrefixPlaces
    <3>3. \A j \in 1 .. m : 1 + j - 1 = j
      BY <2>1
    <3> QED
      BY <1>1, <2>1, <3>1, <3>2, <3>3
  <2> HIDE DEF i, m
  <2>6. i # 0 => i = 1
    BY <1>2, <2>4
  <2>7. i # 0 <=> IsPrefix(prefix, s)
    BY <2>4, <2>5, <2>6
  <2>8. 1 + m - 1 = m
    BY <2>1
  <2> QED
    BY <2>2, <2>3, <2>6, <2>7, <2>8
<1>3. CASE IsWild(prefix)
  <2> DEFINE sub == Tail(prefix)
             m == Len(sub)
             i == Find(s, sub)
             n == i + m - 1
             ends == {k \in 1 .. Len(s) : s[k] \in {"/", ":"}}
             d == Min(ends)
             host == Before(s, d)
  <2>1. sub \in Seq(Parts) /\ m \in Nat \ {0} /\ sub[1] = "." /\ \A j \in 1 .. m : sub[j] \notin {"/", ":"}
    BY <1>3, WildFacts
  <2>2. MatchedLength(s, prefix) =
          IF i # 0 /\ "/" \notin ToSet(SubSeq(s, 1, i - 1)) /\ EndsAt(s, n) THEN n ELSE 0
    BY <1>3 DEF MatchedLength
  <2>3. AnchoredLength(s, prefix) = IF IsSuffix(sub, host) THEN Len(host) ELSE 0
    BY <1>3 DEF AnchoredLength
  <2>4. i \in 0 .. Len(s) /\ (i = 0 => FoundAt(s, sub) = {}) /\ (i # 0 => i \in FoundAt(s, sub))
    BY <2>1, FindFacts
  <2>5. \A j1, j2 \in FoundAt(s, sub) : j1 = j2
    BY <1>3
  <2>6. d \in ends /\ \A k \in ends : d <= k
    <3>1. ends \subseteq Nat /\ c \in ends
      BY <1>1 DEF HostEnds
    <3> HIDE DEF ends
    <3> QED
      BY <3>1, LeastNumber
  <2>7. \A k \in 1 .. Len(s) : s[k] \in {"/", ":"} => d <= k
    BY <2>6
  <2>8. d \in 1 .. Len(s) /\ s[d] \in {"/", ":"}
    BY <2>6
  <2> HIDE DEF d, sub
  <2>9. host \in Seq(Parts) /\ Len(host) = d - 1 /\ \A j \in 1 .. d - 1 : host[j] = s[j]
    <3>1. d - 1 \in 0 .. Len(s)
      BY <1>1, <2>8
    <3> QED
      BY <3>1, PrefixFacts DEF Before
  <2> HIDE DEF host, m, i, ends
  <2>10. IsSuffix(sub, host) <=> m <= d - 1 /\ \A j \in 1 .. m : s[(d - m) + j - 1] = sub[j]
    <3>1. IsSuffix(sub, host) <=> m <= Len(host) /\ \A j \in 1 .. m : host[Len(host) - m + j] = sub[j]
      BY <2>1, <2>9, SuffixPlaces DEF m
    <3>2. ASSUME m <= d - 1, NEW j \in 1 .. m PROVE host[Len(host) - m + j] = s[(d - m) + j - 1]
      <4>1. Len(host) - m + j = (d - m) + j - 1 /\ (d - m) + j - 1 \in 1 .. d - 1
        BY <1>1, <2>1, <2>8, <2>9, <3>2
      <4> QED
        BY <2>9, <4>1
    <3> QED
      BY <2>9, <3>1, <3>2
  <2>11. CASE IsSuffix(sub, host)
    <3>1. d - m \in 1 .. Len(s) /\ (d - m) + m <= Len(s) + 1
      BY <1>1, <2>1, <2>8, <2>10, <2>11
    <3>2. d - m \in FoundAt(s, sub)
      BY <2>1, <2>10, <2>11, <3>1, FoundFacts DEF m
    <3>3. i = d - m /\ i # 0 /\ n = d - 1
      <4>1. i # 0
        BY <2>4, <3>2
      <4>2. i = d - m
        BY <2>4, <2>5, <3>2, <4>1
      <4> QED
        BY <1>1, <2>1, <2>8, <4>1, <4>2
    <3>4. "/" \notin ToSet(SubSeq(s, 1, i - 1))
      <4>1. i - 1 \in 0 .. Len(s) /\ \A j \in 1 .. i - 1 : s[j] # "/"
        BY <1>1, <2>1, <2>7, <2>8, <3>1, <3>3
      <4> DEFINE u == SubSeq(s, 1, i - 1)
      <4>2. u \in Seq(Parts) /\ Len(u) = i - 1 /\ \A j \in 1 .. i - 1 : u[j] = s[j]
        BY <4>1, PrefixFacts
      <4> HIDE DEF u
      <4>3. \A j \in DOMAIN u : u[j] # "/"
        BY <4>1, <4>2
      <4> QED
        BY <4>3 DEF ToSet, u
    <3>5. EndsAt(s, n)
      <4>1. n + 1 = d
        BY <1>1, <2>8, <3>3
      <4> QED
        BY <2>8, <4>1 DEF EndsAt
    <3> QED
      BY <2>2, <2>3, <2>9, <2>11, <3>3, <3>4, <3>5
  <2>12. CASE ~ IsSuffix(sub, host)
    <3> SUFFICES ASSUME i # 0, "/" \notin ToSet(SubSeq(s, 1, i - 1)), EndsAt(s, n) PROVE FALSE
      BY <2>2, <2>3, <2>12
    <3>1. i \in 1 .. Len(s) /\ i \in FoundAt(s, sub)
      BY <1>1, <2>4
    <3>2. i + m <= Len(s) + 1 /\ \A j \in 1 .. m : s[i + j - 1] = sub[j]
      BY <2>1, <3>1, FoundFacts DEF m
    <3>3. n \in i .. Len(s) /\ s[i] = "."
      BY <1>1, <2>1, <3>1, <3>2
    <3>4. \A k \in i .. n : s[k] \notin {"/", ":"}
      <4> TAKE k \in i .. n
      <4>1. k - i + 1 \in 1 .. m /\ i + (k - i + 1) - 1 = k
        BY <1>1, <2>1, <3>1, <3>3
      <4> QED
        BY <2>1, <3>2, <4>1
    <3>5. \A k \in 1 .. i - 1 : s[k] # "/"
      <4> DEFINE u == SubSeq(s, 1, i - 1)
      <4>1. u \in Seq(Parts) /\ Len(u) = i - 1 /\ \A j \in 1 .. i - 1 : u[j] = s[j]
        <5>1. i - 1 \in 0 .. Len(s)
          BY <1>1, <3>1
        <5> QED
          BY <5>1, PrefixFacts
      <4>2. "/" \notin ToSet(u)
        OBVIOUS
      <4> HIDE DEF u
      <4>3. \A j \in 1 .. i - 1 : u[j] # "/"
        BY <4>1, <4>2 DEF ToSet
      <4> QED
        BY <4>1, <4>3
    <3>6. n < c
      BY <1>1, <3>1, <3>3, <3>4, <3>5 DEF HostEnds
    <3>7. \A k \in 1 .. n : s[k] \notin {"/", ":"}
      <4> TAKE k \in 1 .. n
      <4>1. CASE k \in i .. n
        BY <3>4, <4>1
      <4>2. CASE k \notin i .. n
        <5>1. k \in 1 .. i - 1 /\ k \in 1 .. c - 1 /\ k + 1 <= i /\ i <= c - 1
          BY <1>1, <3>1, <3>3, <3>6, <4>2
        <5>2. s[k] # ":"
          <6> SUFFICES ASSUME s[k] = ":" PROVE FALSE
            OBVIOUS
          <6>1. k = c - 2 /\ s[k + 1] # "."
            BY <5>1 DEF HostEnds
          <6>2. k + 1 = i
            BY <1>1, <3>1, <5>1, <6>1
          <6> QED
            BY <3>3, <6>1, <6>2
        <5> QED
          BY <3>5, <5>1, <5>2
      <4> QED
        BY <4>1, <4>2
    <3>8. s[n + 1] \in {"/", ":"}
      <4>1. n # Len(s) /\ n + 1 \in 1 .. c
        BY <1>1, <3>1, <3>3, <3>6
      <4>2. s[n + 1] \in {":", "/", "@"}
        BY <4>1 DEF EndsAt
      <4>3. s[n + 1] # "@"
        BY <1>1, <4>1 DEF HostEnds
      <4> QED
        BY <4>2, <4>3
    <3>9. d = n + 1
      <4>1. n + 1 \in 1 .. Len(s)
        BY <1>1, <3>1, <3>3, <3>6
      <4>2. d <= n + 1
        BY <2>7, <3>8, <4>1
      <4>3. ~ d <= n
        BY <2>8, <3>7, <1>1, <3>1, <3>3
      <4> QED
        BY <1>1, <2>8, <3>1, <3>3, <4>2, <4>3
    <3>10. d - m = i /\ m <= d - 1
      BY <1>1, <2>1, <3>1, <3>9
    <3> QED
      BY <2>10, <2>12, <3>2, <3>10
  <2> QED
    BY <2>11, <2>12
<1> QED
  BY <1>2, <1>3

LEMMA MatchIsInside ==
  ASSUME NEW s \in Seq(Parts), NEW prefix \in Seq(Parts), prefix # <<>>
  PROVE  MatchedLength(s, prefix) \in 0 .. Len(s)
<1> DEFINE sub == IF IsWild(prefix) THEN Tail(prefix) ELSE prefix
           i == Find(s, sub)
<1>1. Len(s) \in Nat
  OBVIOUS
<1>2. sub \in Seq(Parts) /\ Len(sub) \in Nat \ {0}
  <2>1. CASE IsWild(prefix)
    BY <2>1, WildFacts
  <2>2. CASE ~ IsWild(prefix)
    BY <2>2, EmptySeq
  <2> QED
    BY <2>1, <2>2
<1>3. MatchedLength(s, prefix) \in {0, i + Len(sub) - 1}
  BY DEF MatchedLength
<1>4. MatchedLength(s, prefix) # 0 => i # 0
  BY DEF MatchedLength
<1> HIDE DEF sub
<1>5. i \in 0 .. Len(s) /\ (i # 0 => i \in FoundAt(s, sub))
  BY <1>2, FindFacts
<1>6. i # 0 => i + Len(sub) <= Len(s) + 1
  BY <1>2, <1>5, FoundFacts
<1> HIDE DEF i
<1> QED
  BY <1>1, <1>2, <1>3, <1>4, <1>5, <1>6

LEMMA ListIsSeqOf ==
  ASSUME NEW S, NEW s \in Seq(S)
  PROVE  /\ IsSeqOf(s) /\ ToSet(s) \subseteq S /\ Len(s) \in Nat /\ DOMAIN s = 1 .. Len(s)
         /\ \A i \in 1 .. Len(s) : s[i] \in ToSet(s)
<1>1. Len(s) \in Nat /\ DOMAIN s = 1 .. Len(s) /\ \A i \in 1 .. Len(s) : s[i] \in S
  OBVIOUS
<1>2. ToSet(s) \subseteq S /\ \A i \in 1 .. Len(s) : s[i] \in ToSet(s)
  BY <1>1 DEF ToSet
<1>3. s \in [1 .. Len(s) -> ToSet(s)]
  BY <1>1, <1>2
<1>4. s \in Seq(ToSet(s))
  BY <1>1, <1>3
<1> QED
  BY <1>1, <1>2, <1>4 DEF IsSeqOf

\* Lists of lists, one behind the other.
LEMMA FlattenTyped ==
  ASSUME NEW T, NEW ss \in Seq(Seq(T))
  PROVE  FlattenSeq(ss) \in Seq(T)
<1> DEFINE n == Len(ss)
           e(g, i) == IF i = 1 THEN ss[i] ELSE g[i - 1] \o ss[i]
           f == CHOOSE g : g = [i \in 1 .. n |-> e(g, i)]
           upTo(g, k) == g \in [1 .. k -> Seq(T)] /\ \A i \in 1 .. k : g[i] = e(g, i)
           without == {k \in 0 .. n : ~ \E g : upTo(g, k)}
<1>1. n \in Nat /\ \A i \in 1 .. n : ss[i] \in Seq(T)
  OBVIOUS
<1>2. FlattenSeq(ss) = IF n = 0 THEN ss ELSE f[n]
  BY DEF FlattenSeq
<1> HIDE DEF n
<1>3. without = {}
  <2> SUFFICES ASSUME without # {} PROVE FALSE
    OBVIOUS
  <2>1. PICK k \in without : \A l \in without : k <= l
    <3>1. without \subseteq Nat
      BY <1>1
    <3> HIDE DEF without
    <3> QED
      BY <3>1, LeastNumber
  <2>2. k # 0
    <3> DEFINE g == [i \in 1 .. 0 |-> <<>>]
    <3>1. g \in [1 .. 0 -> Seq(T)] /\ \A i \in 1 .. 0 : g[i] = e(g, i)
      OBVIOUS
    <3>2. upTo(g, 0)
      BY <3>1
    <3> HIDE DEF g, upTo
    <3> QED
      BY <3>2
  <2>3. k - 1 \in 0 .. n /\ k \in 1 .. n
    <3>1. k \in 0 .. n
      BY <2>1
    <3> QED
      BY <1>1, <2>2, <3>1
  <2>4. PICK g : upTo(g, k - 1)
    <3> DEFINE P(l) == \E g : upTo(g, l)
    <3>1. \A l : l \in without <=> l \in 0 .. n /\ ~ P(l)
      OBVIOUS
    <3> HIDE DEF P, without
    <3>2. k - 1 \notin without
      BY <2>1, <2>3
    <3>3. P(k - 1)
      BY <2>3, <3>1, <3>2
    <3> QED
      BY <3>3 DEF P
  <2> DEFINE h == [i \in 1 .. k |-> IF i = k THEN e(g, k) ELSE g[i]]
  <2>5. e(g, k) \in Seq(T)
    <3>1. CASE k = 1
      BY <1>1, <2>3, <3>1
    <3>2. CASE k # 1
      <4>1. k - 1 \in 1 .. k - 1
        BY <2>3, <3>2
      <4>2. g[k - 1] \in Seq(T) /\ ss[k] \in Seq(T)
        BY <1>1, <2>3, <2>4, <4>1
      <4>3. g[k - 1] \o ss[k] \in Seq(T)
        BY <4>2
      <4> QED
        BY <3>2, <4>3
    <3> QED
      BY <3>1, <3>2
  <2>6. h \in [1 .. k -> Seq(T)]
    <3> SUFFICES ASSUME NEW i \in 1 .. k PROVE h[i] \in Seq(T)
      OBVIOUS
    <3>1. i # k => i \in 1 .. k - 1
      BY <2>3
    <3> HIDE DEF e
    <3> QED
      BY <2>4, <2>5, <3>1
  <2>7. \A i \in 1 .. k : h[i] = e(h, i)
    <3> TAKE i \in 1 .. k
    <3>1. i = 1 \/ h[i - 1] = g[i - 1]
      BY <2>3
    <3>2. e(h, i) = e(g, i)
      BY <3>1
    <3>3. CASE i = k
      <4> HIDE DEF e
      <4>1. h[k] = e(g, k)
        BY <2>3
      <4> HIDE DEF h
      <4> QED
        BY <3>2, <3>3, <4>1
    <3>4. CASE i # k
      <4>1. i \in 1 .. k - 1
        BY <2>3, <3>4
      <4>2. g[i] = e(g, i)
        BY <2>4, <4>1
      <4> HIDE DEF e
      <4>3. h[i] = g[i]
        BY <3>4
      <4> HIDE DEF h
      <4> QED
        BY <3>2, <4>2, <4>3
    <3> QED
      BY <3>3, <3>4
  <2>8. upTo(h, k)
    BY <2>6, <2>7
  <2> HIDE DEF h, upTo
  <2> QED
    BY <2>1, <2>8
<1>4. PICK g : upTo(g, n)
  <2> DEFINE P(l) == \E g : upTo(g, l)
  <2>1. \A l : l \in without <=> l \in 0 .. n /\ ~ P(l)
    OBVIOUS
  <2> HIDE DEF P, without
  <2>2. P(n)
    BY <1>1, <1>3, <2>1
  <2> QED
    BY <2>2 DEF P
<1>5. g = [i \in 1 .. n |-> e(g, i)]
  BY <1>4
<1>6. f = [i \in 1 .. n |-> e(f, i)]
  <2> DEFINE P(x) == x = [i \in 1 .. n |-> e(x, i)]
  <2>1. P(g)
    BY <1>5
  <2>2. f = CHOOSE x : P(x)
    OBVIOUS
  <2> HIDE DEF P, f
  <2>3. P(f)
    BY <2>1, <2>2
  <2> QED
    BY <2>3 DEF P
<1> HIDE DEF f
<1>7. \A i \in 1 .. n : f[i] \in Seq(T)
  <2> DEFINE bad == {i \in 1 .. n : f[i] \notin Seq(T)}
  <2> SUFFICES ASSUME bad # {} PROVE FALSE
    OBVIOUS
  <2>1. PICK k \in bad : \A l \in bad : k <= l
    <3>1. bad \subseteq Nat
      BY <1>1
    <3> HIDE DEF bad
    <3> QED
      BY <3>1, LeastNumber
  <2>2. f[k] = e(f, k) /\ k \in 1 .. n /\ ss[k] \in Seq(T)
    BY <1>1, <1>6, <2>1
  <2>3. CASE k = 1
    BY <2>1, <2>2, <2>3
  <2>4. CASE k # 1
    <3>1. k - 1 \in 1 .. n /\ k - 1 \notin bad
      BY <1>1, <2>1, <2>2, <2>4
    <3>2. f[k - 1] \in Seq(T)
      BY <3>1
    <3>3. f[k] = f[k - 1] \o ss[k]
      BY <2>2, <2>4
    <3>4. f[k - 1] \o ss[k] \in Seq(T)
      BY <2>2, <3>2
    <3> QED
      BY <2>1, <3>3, <3>4
  <2> QED
    BY <2>3, <2>4
<1>8. n = 0 => ss \in Seq(T)
  <2> SUFFICES ASSUME n = 0 PROVE ss \in Seq(T)
    OBVIOUS
  <2>1. ss = <<>>
    BY DEF n
  <2> QED
    BY <2>1
<1>9. n # 0 => f[n] \in Seq(T)
  BY <1>1, <1>7
<1> QED
  BY <1>2, <1>8, <1>9

\* A task that can be handled: it is of a name that starts with a registry.
IsTask(t) ==
  /\ "ref" \in DOMAIN t /\ t.ref.name \in Seq(Parts) /\ Whole(t.ref) \in Seq(Parts)
  /\ \E c : HostEnds(Whole(t.ref), c)

LEMMA NameIsTask ==
  ASSUME NEW t, "ref" \in DOMAIN t, t.ref.name \in Seq(Parts), {t.ref.tag, t.ref.digest} \ {Absent} \subseteq Parts,
         NEW c, HostEnds(t.ref.name, c)
  PROVE  IsTask(t)
<1> DEFINE w == Whole(t.ref)
           nm == t.ref.name
<1>1. /\ w \in Seq(Parts) /\ Len(nm) \in Nat /\ Len(w) \in Nat /\ Len(nm) <= Len(w)
      /\ \A j \in 1 .. Len(nm) : w[j] = nm[j]
  BY WholeFacts
<1> HIDE DEF w, nm
<1>2. c \in 2 .. Len(nm) /\ c \in 2 .. Len(w) /\ w[c] = "/"
  <2>1. c \in 2 .. Len(nm) /\ nm[c] = "/"
    BY DEF HostEnds, nm
  <2> QED
    BY <1>1, <2>1
<1>3. \A j \in 1 .. c - 1 : w[j] \notin {"/", "@"} /\ (w[j] = ":" => j = c - 2 /\ w[j + 1] # ".")
  <2> TAKE j \in 1 .. c - 1
  <2>1. nm[j] \notin {"/", "@"} /\ (nm[j] = ":" => j = c - 2 /\ nm[j + 1] # ".")
    BY DEF HostEnds, nm
  <2>2. j \in 1 .. Len(nm) /\ (j = c - 2 => j + 1 \in 1 .. Len(nm))
    BY <1>1, <1>2
  <2> QED
    BY <1>1, <2>1, <2>2
<1>4. HostEnds(w, c)
  BY <1>2, <1>3 DEF HostEnds
<1> QED
  BY <1>1, <1>4 DEF IsTask, w, nm

LEMMA ReferenceStarts ==
  ASSUME NEW r, IsReference(r), IsRegistry(RegistryOf(r))
  PROVE  HostEnds(r.name, FirstAt(r.name, "/"))
<1> DEFINE s == r.name
           c == FirstAt(s, "/")
           h == Before(s, c)
<1>1. s \in Seq(Parts) /\ Len(s) \in Nat /\ \E i \in 1 .. Len(s) : s[i] = "/"
  BY ReferenceFacts DEF IsReference
<1> HIDE DEF s
<1>2. c \in 0 .. Len(s) /\ (c # 0 => s[c] = "/") /\ (c = 0 => \A j \in 1 .. Len(s) : s[j] # "/")
  BY <1>1, FirstFacts
<1>3. IsRegistry(h)
  BY DEF RegistryOf, s
<1> HIDE DEF c
<1>4. c \in 1 .. Len(s) /\ s[c] = "/" /\ c - 1 \in 0 .. Len(s)
  BY <1>1, <1>2
<1>5. h \in Seq(Parts) /\ Len(h) = c - 1 /\ \A j \in 1 .. c - 1 : h[j] = s[j]
  BY <1>1, <1>4, PrefixFacts DEF Before
<1> HIDE DEF h
<1>6. h # <<>> /\ \A j \in 1 .. c - 1 : h[j] \notin {"/", "@"} /\ (h[j] = ":" => j = Len(h) - 1 /\ h[j + 1] # ".")
  BY <1>3, <1>5 DEF IsRegistry
<1>7. c # 1
  BY <1>5, <1>6, EmptySeq
<1>8. \A j \in 1 .. c - 1 : s[j] \notin {"/", "@"} /\ (s[j] = ":" => j = c - 2 /\ s[j + 1] # ".")
  <2> TAKE j \in 1 .. c - 1
  <2>1. Len(h) - 1 = c - 2 /\ (j = c - 2 => j + 1 \in 1 .. c - 1)
    BY <1>4, <1>5
  <2> QED
    BY <1>5, <1>6, <2>1
<1>9. HostEnds(s, c)
  BY <1>1, <1>4, <1>7, <1>8 DEF HostEnds
<1> QED
  BY <1>9 DEF s, c

LEMMA Followed ==
  ASSUME NEW S, NEW s \in Seq(S), NEW x \in S
  PROVE  /\ s \o <<x>> \in Seq(S) /\ Len(s \o <<x>>) = Len(s) + 1 /\ (s \o <<x>>)[Len(s) + 1] = x
         /\ \A j \in 1 .. Len(s) : (s \o <<x>>)[j] = s[j]
OBVIOUS

LEMMA RegistryStarts ==
  ASSUME NEW h, IsRegistry(h), NEW rest \in Seq(Parts)
  PROVE  h \o <<"/">> \o rest \in Seq(Parts) /\ HostEnds(h \o <<"/">> \o rest, Len(h) + 1)
<1> DEFINE c == Len(h) + 1
           front == h \o <<"/">>
           s == front \o rest
           slash == <<"/">>
<1>1. h \in Seq(Parts) /\ Len(h) \in Nat \ {0}
  BY EmptySeq DEF IsRegistry
<1>2. "/" \in Parts
  BY SeparatorParts DEF Separators
<1> HIDE DEF slash
<1>3. front = h \o slash
  BY DEF slash
<1> HIDE DEF front
<1>4. /\ front \in Seq(Parts) /\ Len(front) = c /\ \A j \in 1 .. Len(h) : front[j] = h[j]
      /\ front[c] = "/"
  <2>1. /\ h \o slash \in Seq(Parts) /\ Len(h \o slash) = Len(h) + 1 /\ (h \o slash)[Len(h) + 1] = "/"
        /\ \A j \in 1 .. Len(h) : (h \o slash)[j] = h[j]
    BY <1>1, <1>2, Followed DEF slash
  <2> QED
    BY <1>1, <1>2, <1>3, <2>1 DEF c
<1>5. /\ s \in Seq(Parts) /\ Len(s) = Len(front) + Len(rest) /\ Len(rest) \in Nat
      /\ \A j \in 1 .. Len(front) : s[j] = front[j]
  BY <1>4, Joined
<1> HIDE DEF s, c
<1>6. c \in 2 .. Len(s) /\ s[c] = "/" /\ Len(h) = c - 1
  BY <1>1, <1>4, <1>5 DEF c
<1>7. \A j \in 1 .. c - 1 : s[j] = h[j]
  <2> TAKE j \in 1 .. c - 1
  <2>1. j \in 1 .. Len(h) /\ j \in 1 .. Len(front)
    BY <1>1, <1>4, <1>6
  <2> QED
    BY <1>4, <1>5, <2>1
<1>8. \A j \in 1 .. c - 1 : s[j] \notin {"/", "@"} /\ (s[j] = ":" => j = c - 2 /\ s[j + 1] # ".")
  <2> TAKE j \in 1 .. c - 1
  <2>1. h[j] \notin {"/", "@"} /\ (h[j] = ":" => j = Len(h) - 1 /\ h[j + 1] # ".")
    <3>1. \A i \in DOMAIN h : h[i] \notin {"/", "@"} /\ (h[i] = ":" => i = Len(h) - 1 /\ h[i + 1] # ".")
      BY DEF IsRegistry
    <3>2. j \in DOMAIN h
      BY <1>1, <1>6
    <3> QED
      BY <3>1, <3>2
  <2>2. Len(h) - 1 = c - 2 /\ (j = c - 2 => j + 1 \in 1 .. c - 1)
    BY <1>1, <1>6
  <2> QED
    BY <1>7, <2>1, <2>2
<1>9. HostEnds(s, c)
  BY <1>6, <1>8 DEF HostEnds
<1> QED
  BY <1>3, <1>5, <1>9 DEF s, c, front, slash

\* What an image is searched as.
LEMMA CandidateFacts ==
  ASSUME NEW search \in Seq(Seq(Parts)), \A i \in DOMAIN search : IsRegistry(search[i]),
         NEW r, IsReference(r), IsRegistry(RegistryOf(r))
  PROVE  /\ Len(Candidates(search, r)) \in Nat
         /\ DOMAIN Candidates(search, r) = 1 .. Len(Candidates(search, r))
         /\ \A i \in DOMAIN Candidates(search, r) : IsTask(Candidates(search, r)[i])
<1>1. \A t : "ref" \in DOMAIN t /\ t.ref = r => IsTask(t)
  <2> SUFFICES ASSUME NEW t, "ref" \in DOMAIN t, t.ref = r PROVE IsTask(t)
    OBVIOUS
  <2>1. r.name \in Seq(Parts) /\ {r.tag, r.digest} \ {Absent} \subseteq Parts
    BY DEF IsReference
  <2> QED
    BY <2>1, NameIsTask, ReferenceStarts
<1>2. CASE RegistryOf(r) # DockerIo
  <2> DEFINE t == [ref |-> r, http |-> FALSE, type |-> "original"]
  <2>1. Candidates(search, r) = <<t>>
    BY <1>2 DEF Candidates
  <2>2. IsTask(t)
    BY <1>1
  <2> HIDE DEF t
  <2>3. Len(<<t>>) = 1 /\ DOMAIN <<t>> = 1 .. 1 /\ <<t>>[1] = t
    OBVIOUS
  <2> QED
    BY <2>1, <2>2, <2>3
<1>3. CASE RegistryOf(r) = DockerIo
  <2> DEFINE rest == RepositoryOf(r)
             repository == IF IsPrefix(<<"library", "/">>, rest) THEN SubSeq(rest, 3, Len(rest)) ELSE rest
             ref(i) == IF search[i] = DockerIo THEN r
                       ELSE [name |-> search[i] \o <<"/">> \o repository, tag |-> r.tag,
                             digest |-> IF r.tag = Absent THEN r.digest ELSE Absent]
             t(i) == [ref |-> ref(i), http |-> FALSE, type |-> "unqualified"]
             all == [i \in DOMAIN search |-> t(i)]
  <2>1. Candidates(search, r) = all
    BY <1>3 DEF Candidates, Unqualified
  <2>2. Len(search) \in Nat /\ DOMAIN search = 1 .. Len(search)
    OBVIOUS
  <2>3. rest \in Seq(Parts)
    <3>1. r.name \in Seq(Parts) /\ FirstAt(r.name, "/") \in 0 .. Len(r.name)
      BY FirstFacts DEF IsReference
    <3> QED
      BY <3>1 DEF RepositoryOf, After
  <2> HIDE DEF rest
  <2>4. repository \in Seq(Parts)
    BY <2>3
  <2> HIDE DEF repository
  <2>5. ASSUME NEW i \in DOMAIN search PROVE IsTask(t(i))
    <3>1. "ref" \in DOMAIN t(i) /\ t(i).ref = ref(i)
      OBVIOUS
    <3> HIDE DEF t
    <3>2. CASE search[i] = DockerIo
      BY <1>1, <3>1, <3>2
    <3>3. CASE search[i] # DockerIo
      <4> DEFINE nm == search[i] \o <<"/">> \o repository
      <4>1. nm \in Seq(Parts) /\ HostEnds(nm, Len(search[i]) + 1)
        BY <2>4, RegistryStarts
      <4> HIDE DEF nm
      <4>2. ref(i) = [name |-> nm, tag |-> r.tag, digest |-> IF r.tag = Absent THEN r.digest ELSE Absent]
        BY <3>3 DEF nm
      <4> HIDE DEF ref
      <4>3. ref(i).name = nm /\ {ref(i).tag, ref(i).digest} \ {Absent} \subseteq Parts
        BY <4>2 DEF IsReference
      <4> QED
        BY <3>1, <4>1, <4>3, NameIsTask
    <3> QED
      BY <3>2, <3>3
  <2> DEFINE S == {t(i) : i \in DOMAIN search}
  <2>6. all \in [1 .. Len(search) -> S]
    BY <2>2
  <2>7. \A i \in DOMAIN search : all[i] = t(i)
    OBVIOUS
  <2> HIDE DEF t
  <2>8. all \in Seq(S) /\ Len(all) = Len(search)
    BY <2>2, <2>6, ListOf
  <2>9. \A i \in DOMAIN search : IsTask(all[i])
    BY <2>5, <2>7
  <2>10. DOMAIN all = 1 .. Len(search)
    BY <2>2
  <2> HIDE DEF all
  <2> QED
    BY <2>1, <2>2, <2>8, <2>9, <2>10
<1> QED
  BY <1>2, <1>3

\* The rule with the longest match is the last of those, or no rule matches.
LEMMA RuleForFacts ==
  ASSUME NEW n \in Nat, NEW b \in Nat, NEW matches \in [1 .. n -> 0 .. b]
  PROVE  /\ RuleFor(matches) \in 0 .. n
         /\ RuleFor(matches) = 0 => \A j \in 1 .. n : matches[j] = 0
         /\ RuleFor(matches) # 0 =>
              /\ matches[RuleFor(matches)] # 0
              /\ \A j \in 1 .. n : matches[j] <= matches[RuleFor(matches)]
              /\ \A j \in 1 .. n : matches[j] = matches[RuleFor(matches)] => j <= RuleFor(matches)
<1> DEFINE lengths == Range(matches) \cup {0}
           longest == Max(lengths)
           of == {i \in DOMAIN matches : matches[i] = longest}
           k == RuleFor(matches)
<1>1. lengths \subseteq 0 .. b /\ lengths # {} /\ \A j \in 1 .. n : matches[j] \in lengths
  BY DEF Range
<1>2. longest \in lengths /\ \A x \in lengths : x <= longest
  <2> HIDE DEF lengths
  <2> QED
    BY <1>1, GreatestNumber
<1>3. k = IF longest = 0 THEN 0 ELSE Max(of)
  BY DEF RuleFor
<1>4. ASSUME longest # 0 PROVE of # {} /\ of \subseteq 1 .. n
  <2>1. PICK i \in 1 .. n : matches[i] = longest
    <3> HIDE DEF longest
    <3> QED
      BY <1>2, <1>4 DEF Range
  <2> QED
    BY <2>1
<1>5. longest # 0 => Max(of) \in of /\ \A x \in of : x <= Max(of)
  <2> HIDE DEF of, longest
  <2>1. longest # 0 => of # {} /\ of \subseteq 0 .. n
    BY <1>4
  <2> QED
    BY <2>1, GreatestNumber
<1>6. \A j \in 1 .. n : matches[j] <= longest
  BY <1>1, <1>2
<1> HIDE DEF longest, k
<1>7. CASE longest = 0
  <2>1. \A j \in 1 .. n : matches[j] = 0
    BY <1>6, <1>7
  <2> QED
    BY <1>3, <1>7, <2>1 DEF k
<1>8. CASE longest # 0
  <2>1. k \in of /\ \A x \in of : x <= k
    BY <1>3, <1>5, <1>8
  <2>2. k \in 1 .. n /\ matches[k] = longest
    BY <1>4, <1>8, <2>1
  <2>3. \A j \in 1 .. n : matches[j] = matches[k] => j <= k
    BY <2>1, <2>2
  <2> QED
    BY <1>6, <1>8, <2>2, <2>3 DEF k
<1> QED
  BY <1>7, <1>8

\* What is before the first "/" or ":" has this length.
HostLength(s) == Min({i \in 1 .. Len(s) : s[i] \in {"/", ":"}}) - 1

\* A domain is matched up to the end of the host, a name no shorter than that to its own.
LEMMA AnchoredFacts ==
  ASSUME NEW s \in Seq(Parts), NEW c, HostEnds(s, c), NEW prefix \in Seq(Parts), prefix # <<>>,
         AnchoredLength(s, prefix) # 0
  PROVE  /\ Len(prefix) \in Nat /\ HostLength(s) \in Nat
         /\ IsWild(prefix) => AnchoredLength(s, prefix) = HostLength(s)
         /\ ~ IsWild(prefix) => AnchoredLength(s, prefix) = Len(prefix) /\ HostLength(s) <= Len(prefix)
<1> DEFINE ends == {i \in 1 .. Len(s) : s[i] \in {"/", ":"}}
           d == Min(ends)
           host == Before(s, d)
           n == Len(prefix)
<1>1. Len(s) \in Nat /\ n \in Nat \ {0} /\ c \in 2 .. Len(s) /\ s[c] = "/"
  BY EmptySeq DEF HostEnds
<1>2. d \in ends /\ \A i \in ends : d <= i
  <2>1. ends \subseteq Nat /\ c \in ends
    BY <1>1
  <2> HIDE DEF ends
  <2> QED
    BY <2>1, LeastNumber
<1>3. d \in 1 .. Len(s) /\ d <= c /\ HostLength(s) = d - 1 /\ \A i \in 1 .. Len(s) : s[i] \in {"/", ":"} => d <= i
  BY <1>1, <1>2 DEF HostLength
<1>4. CASE IsWild(prefix)
  <2>1. AnchoredLength(s, prefix) = IF IsSuffix(Tail(prefix), host) THEN Len(host) ELSE 0
    BY <1>4 DEF AnchoredLength
  <2> HIDE DEF d
  <2>2. Len(host) = d - 1
    <3>1. d - 1 \in 0 .. Len(s)
      BY <1>1, <1>3
    <3> QED
      BY <3>1, PrefixFacts DEF Before
  <2> QED
    BY <1>1, <1>3, <1>4, <2>1, <2>2
<1>5. CASE ~ IsWild(prefix)
  <2>1. AnchoredLength(s, prefix) = n /\ IsPrefix(prefix, s) /\ EndsAt(s, n)
    BY <1>5 DEF AnchoredLength
  <2>2. n <= Len(s)
    BY <2>1, PrefixPlaces
  <2> HIDE DEF n, d
  <2>3. d - 1 <= n
    <3> SUFFICES ASSUME n < d - 1 PROVE FALSE
      BY <1>1, <1>3
    <3>1. n + 1 \in 1 .. c - 1 /\ n + 1 \in 1 .. Len(s) /\ n # Len(s) /\ ~ d <= n + 1
      BY <1>1, <1>3
    <3>2. s[n + 1] \in {":", "/", "@"}
      BY <2>1, <3>1 DEF EndsAt
    <3>3. s[n + 1] # "@"
      BY <3>1 DEF HostEnds
    <3> QED
      BY <1>3, <3>1, <3>2, <3>3
  <2> QED
    BY <1>1, <1>3, <1>5, <2>1, <2>3 DEF n
<1> QED
  BY <1>4, <1>5

\* Whatever a name is read from, it has parts.
LEMMA FullNameTyped == ASSUME NEW name \in Seq(Parts) PROVE FullName(name) \in Seq(Parts)
<1> DEFINE slash == FirstAt(name, "/")
           hosted == slash # 0 /\ IsHost(Before(name, slash))
           registry == IF hosted /\ Before(name, slash) # DockerIndex THEN Before(name, slash) ELSE DockerIo
           repository == IF hosted THEN After(name, slash) ELSE name
           library == IF registry = DockerIo /\ "/" \notin ToSet(repository) THEN <<"library", "/">> ELSE <<>>
<1>1. FullName(name) = registry \o <<"/">> \o (library \o repository)
  BY DEF FullName
<1>2. slash \in 0 .. Len(name) /\ Len(name) \in Nat
  BY FirstFacts
<1>3. "docker" \in Parts /\ "." \in Parts /\ "io" \in Parts /\ "library" \in Parts /\ "/" \in Parts
  BY SeparatorParts DEF Separators
<1>4. DockerIo \in Seq(Parts) /\ <<"library", "/">> \in Seq(Parts) /\ <<"/">> \in Seq(Parts) /\ <<>> \in Seq(Parts)
  BY <1>3 DEF DockerIo
<1> HIDE DEF slash
<1>5. Before(name, slash) \in Seq(Parts) /\ After(name, slash) \in Seq(Parts)
  BY <1>2 DEF Before, After
<1> HIDE DEF hosted
<1>6. registry \in Seq(Parts) /\ repository \in Seq(Parts)
  BY <1>4, <1>5
<1> HIDE DEF registry, repository
<1>7. library \in Seq(Parts)
  BY <1>4
<1> HIDE DEF library
<1>8. registry \o <<"/">> \in Seq(Parts) /\ library \o repository \in Seq(Parts)
  BY <1>4, <1>6, <1>7, Joined
<1>9. (registry \o <<"/">>) \o (library \o repository) \in Seq(Parts)
  BY <1>8, Joined
<1> QED
  BY <1>1, <1>9

LEMMA ParsedName == ASSUME NEW s \in Seq(Parts) PROVE Parse(s).name \in Seq(Parts)
<1> DEFINE at == LastAt(s, "@")
           front == Undigested(s)
           colon == TagAt(front)
<1>1. at \in 0 .. Len(s) /\ Len(s) \in Nat
  BY LastFacts
<1>2. front \in Seq(Parts)
  BY <1>1 DEF Before, Undigested
<1>3. NameOf(s) = IF colon = 0 THEN front ELSE Before(front, colon)
  BY DEF NameOf
<1> HIDE DEF front
<1>4. LastAt(front, ":") \in 0 .. Len(front) /\ Len(front) \in Nat
  BY <1>2, LastFacts
<1>5. colon \in 0 .. Len(front)
  BY <1>4 DEF TagAt
<1> HIDE DEF colon
<1>6. NameOf(s) \in Seq(Parts)
  BY <1>2, <1>3, <1>4, <1>5 DEF Before
<1>7. Parse(s).name = FullName(NameOf(s))
  BY DEF Parse
<1> QED
  BY <1>6, <1>7, FullNameTyped

LEMMA MovedName ==
  ASSUME NEW location \in Seq(Parts), NEW r, Whole(r) \in Seq(Parts), NEW n \in Nat
  PROVE  Moved(location, r, n) \in Seq(Parts)
BY DEF Moved

\* The rules of a configuration that was accepted.
AreRules(rules) ==
  /\ DOMAIN rules = 1 .. Len(rules) /\ Len(rules) \in Nat
  /\ \A k \in DOMAIN rules : IsRule(rules[k]) /\ rules[k].prefix # <<>>

Named(ts) == IsSeqOf(ts) /\ \A t \in ToSet(ts) : t.ref.name \in Seq(Parts)

LEMMA NamedList ==
  ASSUME NEW S, NEW s \in Seq(S), \A t \in S : t.ref.name \in Seq(Parts)
  PROVE  Named(s)
BY ListIsSeqOf DEF Named

LEMMA UnderTasks ==
  ASSUME NEW rules, AreRules(rules), NEW task, IsTask(task), NEW k \in 0 .. Len(rules),
         NEW b \in Nat, NEW matches \in [1 .. Len(rules) -> 0 .. b]
  PROVE  Named(Under(k, rules, task, matches).tasks)
<1> DEFINE rule == rules[k]
           n == matches[k]
           ms == rule.mirrors
           moved == [i \in DOMAIN ms |-> Moved(ms[i].location, task.ref, n)]
           names == moved \o (IF rule.location = <<>> THEN <<>> ELSE <<Moved(rule.location, task.ref, n)>>)
           mirror(i) == [ref |-> Parse(names[i]), http |-> ms[i].insecure, type |-> "mirror"]
           there == [ref |-> Parse(Last(names)), http |-> rule.insecure,
                     type |-> IF rule.location = DockerIo THEN task.type ELSE "remapped"]
           kept == [task EXCEPT !.http = FALSE]
           mirrored == [i \in DOMAIN ms |-> mirror(i)]
           last == IF rule.location = <<>> THEN task ELSE there
<1>1. Under(k, rules, task, matches).tasks \in {<<kept>>, <<>>, mirrored \o <<last>>}
  BY DEF Under, Redirected
<1>2. k = 0 => Under(k, rules, task, matches).tasks = <<kept>>
  BY DEF Under
<1>3. Len(rules) \in Nat
  BY DEF AreRules
<1>4. Named(<<>>)
  <2>1. <<>> \in Seq({})
    OBVIOUS
  <2> DEFINE e == <<>>
             S == {}
  <2>3. e \in Seq(S)
    BY <2>1
  <2> HIDE DEF e, S
  <2>4. IsSeqOf(e) /\ ToSet(e) \subseteq S
    BY <2>3, ListIsSeqOf
  <2>2. IsSeqOf(<<>>) /\ ToSet(<<>>) \subseteq {}
    BY <2>4 DEF e, S
  <2> QED
    BY <2>2 DEF Named
<1>5. Named(<<kept>>)
  <2>1. kept.ref = task.ref
    BY DEF IsTask
  <2> HIDE DEF kept
  <2>2. kept.ref.name \in Seq(Parts) /\ <<kept>> \in Seq({kept})
    BY <2>1 DEF IsTask
  <2> QED
    BY <2>2, NamedList
<1>6. ASSUME k # 0 PROVE Named(mirrored \o <<last>>)
  <2>1. IsRule(rule) /\ n \in Nat
    <3>1. k \in 1 .. Len(rules)
      BY <1>3, <1>6
    <3> QED
      BY <3>1 DEF AreRules
  <2> HIDE DEF rule, n
  <2>2. /\ Len(ms) \in Nat /\ DOMAIN ms = 1 .. Len(ms) /\ rule.location \in Seq(Parts)
        /\ \A i \in DOMAIN ms : ms[i].location \in Seq(Parts)
    <3>1. IsSeqOf(ms) /\ rule.location \in Seq(Parts) /\ \A i \in DOMAIN ms : ms[i].location \in Seq(Parts)
      BY <2>1 DEF IsRule
    <3> HIDE DEF ms
    <3>2. ms \in Seq(ToSet(ms))
      BY <3>1 DEF IsSeqOf
    <3> QED
      BY <3>1, <3>2, ListIsSeqOf
  <2> HIDE DEF ms
  <2>3. Whole(task.ref) \in Seq(Parts)
    BY DEF IsTask
  <2>4. moved \in Seq(Seq(Parts)) /\ Len(moved) = Len(ms)
    <3>1. moved \in [1 .. Len(ms) -> Seq(Parts)]
      BY <2>1, <2>2, <2>3, MovedName
    <3> HIDE DEF moved
    <3> QED
      BY <2>2, <3>1, ListOf
  <2> HIDE DEF moved
  <2> DEFINE there1 == Moved(rule.location, task.ref, n)
             behind == IF rule.location = <<>> THEN <<>> ELSE <<there1>>
  <2>5. there1 \in Seq(Parts)
    BY <2>1, <2>2, <2>3, MovedName
  <2>6. names = moved \o behind
    OBVIOUS
  <2> HIDE DEF there1, names
  <2>7. behind \in Seq(Seq(Parts)) /\ (rule.location # <<>> => Len(behind) = 1)
    BY <2>5
  <2> HIDE DEF behind
  <2>8. /\ names \in Seq(Seq(Parts)) /\ Len(names) = Len(ms) + Len(behind)
        /\ Len(behind) \in Nat /\ Len(names) \in Nat
    <3> DEFINE N == Seq(Parts)
    <3> HIDE DEF N
    <3>1. moved \in Seq(N) /\ behind \in Seq(N)
      BY <2>4, <2>7 DEF N
    <3>2. names \in Seq(N) /\ Len(names) = Len(moved) + Len(behind) /\ Len(behind) \in Nat
      BY <2>6, <3>1, Joined
    <3> QED
      BY <2>2, <2>4, <3>2 DEF N
  <2>9. \A i \in 1 .. Len(names) : names[i] \in Seq(Parts)
    BY <2>8
  <2>10. ASSUME NEW i \in DOMAIN ms PROVE mirror(i).ref.name \in Seq(Parts)
    <3>1. i \in 1 .. Len(names)
      BY <2>2, <2>8
    <3>2. names[i] \in Seq(Parts)
      BY <2>9, <3>1
    <3> QED
      BY <3>2, ParsedName
  <2>11. last.ref.name \in Seq(Parts)
    <3>1. CASE rule.location = <<>>
      BY <3>1 DEF IsTask
    <3>2. CASE rule.location # <<>>
      <4>1. Len(names) \in 1 .. Len(names)
        <5>1. Len(behind) = 1
          BY <2>7, <3>2
        <5> QED
          BY <2>2, <2>8, <5>1
      <4>2. Last(names) \in Seq(Parts)
        BY <2>9, <4>1 DEF Last
      <4>3. there.ref.name \in Seq(Parts)
        BY <4>2, ParsedName
      <4> HIDE DEF there
      <4> QED
        BY <3>2, <4>3
    <3> QED
      BY <3>1, <3>2
  <2> DEFINE S == {mirror(i) : i \in DOMAIN ms} \cup {last}
  <2>12. \A t \in S : t.ref.name \in Seq(Parts)
    <3> HIDE DEF mirror, last
    <3> QED
      BY <2>10, <2>11
  <2>13. mirrored \in Seq(S)
    <3>1. mirrored \in [1 .. Len(ms) -> S]
      <4> HIDE DEF mirror, last
      <4> QED
        BY <2>2
    <3> HIDE DEF mirrored, S
    <3> QED
      BY <2>2, <3>1, ListOf
  <2>14. <<last>> \in Seq(S)
    <3> HIDE DEF mirror, last
    <3> QED
      OBVIOUS
  <2> DEFINE o == <<last>>
  <2> HIDE DEF S, mirrored, last, o
  <2>15. mirrored \o o \in Seq(S)
    BY <2>13, <2>14, Joined DEF o
  <2>16. Named(mirrored \o o)
    BY <2>12, <2>15, NamedList
  <2> QED
    BY <2>16 DEF o
<1> HIDE DEF kept, mirrored, last
<1> QED
  BY <1>1, <1>2, <1>4, <1>5, <1>6

\* What matches is what is meant to, for each candidate.
LEMMA MeantIsMatched ==
  ASSUME NEW c, AreRules(c.rules), NEW r, RulesAreAnchored(c, r),
         NEW i \in DOMAIN Candidates(c.search, r), IsTask(Candidates(c.search, r)[i])
  PROVE  MatchesOfRules(c.rules, Candidates(c.search, r)[i].ref)
           = MeantMatches(c.rules, Candidates(c.search, r)[i].ref)
<1> DEFINE s == Whole(Candidates(c.search, r)[i].ref)
<1>1. s \in Seq(Parts) /\ \E e : HostEnds(s, e)
  BY DEF IsTask
<1>2. ASSUME NEW k \in DOMAIN c.rules
      PROVE  MatchedLength(s, c.rules[k].prefix) = AnchoredLength(s, c.rules[k].prefix)
  <2> DEFINE prefix == c.rules[k].prefix
  <2>1. prefix \in Seq(Parts) /\ prefix # <<>>
    BY DEF AreRules, IsRule
  <2>2. IF IsWild(prefix)
        THEN {"/", ":"} \cap ToSet(prefix) = {} /\ \A j1, j2 \in FoundAt(s, Tail(prefix)) : j1 = j2
        ELSE FoundAt(s, prefix) \subseteq {1}
    BY DEF RulesAreAnchored
  <2> HIDE DEF prefix, s
  <2>3. MatchedLength(s, prefix) = AnchoredLength(s, prefix)
    BY <1>1, <2>1, <2>2, MatchedIsAnchored
  <2> QED
    BY <2>3 DEF prefix
<1> QED
  BY <1>2 DEF MatchesOfRules, MeantMatches

\* Among rules each of which says more than those before it that match as far, the one
\* taken is the one that says most.
LEMMA MostIsSaid ==
  ASSUME NEW rules, AreRules(rules), NEW r, Whole(r) \in Seq(Parts), NEW c, HostEnds(Whole(r), c),
         NEW b \in Nat, NEW matches \in [1 .. Len(rules) -> 0 .. b], matches = MeantMatches(rules, r),
         \A j, k \in DOMAIN rules :
           j < k /\ matches[j] = matches[k] /\ matches[j] # 0 => SaysMore(rules[k].prefix, rules[j].prefix)
  PROVE  RuleFor(matches) = IF MeantRules(rules, r) = {} THEN 0 ELSE CHOOSE k \in MeantRules(rules, r) : TRUE
<1> DEFINE s == Whole(r)
           k == RuleFor(matches)
           meant == {i \in DOMAIN rules : matches[i] # 0}
           of == {i \in meant : \A j \in meant \ {i} : SaysMore(rules[i].prefix, rules[j].prefix)}
<1>1. Len(rules) \in Nat /\ DOMAIN rules = 1 .. Len(rules)
  BY DEF AreRules
<1>2. /\ k \in 0 .. Len(rules)
      /\ k = 0 => \A j \in 1 .. Len(rules) : matches[j] = 0
      /\ k # 0 => matches[k] # 0
      /\ k # 0 => \A j \in 1 .. Len(rules) : matches[j] <= matches[k] /\ (matches[j] = matches[k] => j <= k)
  <2> DEFINE n == Len(rules)
  <2>1. n \in Nat /\ matches \in [1 .. n -> 0 .. b]
    BY <1>1
  <2> HIDE DEF n
  <2>2. /\ k \in 0 .. n
        /\ k = 0 => \A j \in 1 .. n : matches[j] = 0
        /\ k # 0 => /\ matches[k] # 0
                    /\ \A j \in 1 .. n : matches[j] <= matches[k]
                    /\ \A j \in 1 .. n : matches[j] = matches[k] => j <= k
    BY ONLY <2>1, b \in Nat, RuleForFacts
  <2> QED
    BY <2>2 DEF n
<1>3. MeantRules(rules, r) = of
  BY DEF MeantRules
<1> HIDE DEF k
<1>4. ASSUME NEW i \in meant
      PROVE  LET p == rules[i].prefix IN
             /\ Len(p) \in Nat /\ HostLength(s) \in Nat
             /\ IsWild(p) => matches[i] = HostLength(s)
             /\ ~ IsWild(p) => matches[i] = Len(p) /\ HostLength(s) <= Len(p)
  <2> DEFINE p == rules[i].prefix
  <2>1. p \in Seq(Parts) /\ p # <<>>
    BY DEF AreRules, IsRule
  <2>2. matches[i] = AnchoredLength(s, p) /\ matches[i] # 0
    BY DEF MeantMatches
  <2> HIDE DEF s, p
  <2>3. /\ Len(p) \in Nat /\ HostLength(s) \in Nat
        /\ IsWild(p) => AnchoredLength(s, p) = HostLength(s)
        /\ ~ IsWild(p) => AnchoredLength(s, p) = Len(p) /\ HostLength(s) <= Len(p)
    BY <2>1, <2>2, AnchoredFacts DEF s
  <2> QED
    BY <2>2, <2>3 DEF p
<1>5. CASE k = 0
  <2>1. of = {}
    BY <1>1, <1>2, <1>5
  <2> HIDE DEF of
  <2> QED
    BY <1>3, <1>5, <2>1 DEF k
<1>6. CASE k # 0
  <2>1. k \in meant
    BY <1>1, <1>2, <1>6
  <2>2. ASSUME NEW j \in meant \ {k} PROVE SaysMore(rules[k].prefix, rules[j].prefix)
    <3> DEFINE p == rules[k].prefix
               q == rules[j].prefix
    <3>1. j \in DOMAIN rules /\ j \in 1 .. Len(rules) /\ j # k /\ k \in 1 .. Len(rules)
      BY <1>1, <1>2, <1>6
    <3>2. matches[j] <= matches[k] /\ (matches[j] = matches[k] => j < k)
      BY <1>2, <1>6, <3>1
    <3>3. CASE matches[j] = matches[k]
      <4>1. j < k /\ matches[j] # 0
        BY <3>2, <3>3
      <4> QED
        BY <1>1, <3>1, <3>3, <4>1
    <3>4. CASE matches[j] # matches[k]
      <4>1. /\ Len(p) \in Nat /\ HostLength(s) \in Nat
            /\ IsWild(p) => matches[k] = HostLength(s)
            /\ ~ IsWild(p) => matches[k] = Len(p) /\ HostLength(s) <= Len(p)
        BY <1>4, <2>1
      <4>2. /\ Len(q) \in Nat
            /\ IsWild(q) => matches[j] = HostLength(s)
            /\ ~ IsWild(q) => matches[j] = Len(q) /\ HostLength(s) <= Len(q)
        BY <1>4
      <4>3. matches[j] \in Nat /\ matches[k] \in Nat
        BY <3>1
      <4> HIDE DEF p, q, s
      <4>4. SaysMore(p, q)
        BY <3>2, <3>4, <4>1, <4>2, <4>3 DEF SaysMore
      <4> QED
        BY <4>4 DEF p, q
    <3> QED
      BY <3>3, <3>4
  <2>3. k \in of
    BY <2>1, <2>2
  <2>4. ASSUME NEW i \in of, i # k PROVE FALSE
    <3> DEFINE p == rules[k].prefix
               q == rules[i].prefix
    <3>1. SaysMore(q, p) /\ SaysMore(p, q)
      BY <2>1, <2>3, <2>4
    <3>2. Len(p) \in Nat /\ Len(q) \in Nat
      BY <1>4, <2>1
    <3> HIDE DEF p, q
    <3> QED
      BY <3>1, <3>2 DEF SaysMore
  <2> HIDE DEF of
  <2>5. of = {k}
    BY <2>3, <2>4
  <2> QED
    BY <1>3, <2>5 DEF k
<1> QED
  BY <1>5, <1>6

LEMMA TidyFacts ==
  ASSUME NEW rule, IsRule(rule), LegalRule(rule)
  PROVE  IsRule(Tidy(rule)) /\ Tidy(rule).prefix # <<>>
<1>1. Tidy(rule).prefix # <<>>
  BY DEF LegalRule
<1>2. CASE rule.prefix # <<>>
  BY <1>1, <1>2 DEF Tidy
<1>3. CASE rule.prefix = <<>>
  <2> DEFINE t == [rule EXCEPT !.prefix = rule.location]
  <2>1. Tidy(rule) = t
    BY <1>3 DEF Tidy
  <2>2. /\ DOMAIN t = {"prefix", "location", "blocked", "insecure", "mirrors"}
        /\ t.prefix = rule.location /\ t.location = rule.location /\ t.mirrors = rule.mirrors
    BY DEF IsRule
  <2> HIDE DEF t
  <2> QED
    BY <1>1, <2>1, <2>2 DEF IsRule
<1> QED
  BY <1>2, <1>3

\* The key whose credential is used is there, and is that of the registry.
IsHome(key, r) ==
  \/ IsPrefix(key, r.name) /\ (key = r.name \/ r.name[Len(key) + 1] = "/")
  \/ KeyHost(key) = NormalRegistry(r)

LEMMA KeysAreHome ==
  ASSUME NEW auths, NEW r, r.name \in Seq(Parts), NEW key \in KeysFor(auths, r)
  PROVE  key \in DOMAIN auths /\ IsHome(key, r)
<1> DEFINE P == Parents(r.name)
           T == {i \in 1 .. Len(P) : P[i] \in DOMAIN auths}
           i == SelectInSeq(P, LAMBDA n : n \in DOMAIN auths)
<1>1. KeysFor(auths, r) = IF i # 0 THEN {P[i]} ELSE {k \in DOMAIN auths : KeyHost(k) = NormalRegistry(r)}
  BY DEF KeysFor, RepositoryFullName
<1>2. i = IF T # {} THEN Min(T) ELSE 0
  BY DEF SelectInSeq
<1>3. T # {} => i \in T
  <2>1. T \subseteq Nat
    OBVIOUS
  <2> HIDE DEF T, i
  <2> QED
    BY <1>2, <2>1, LeastNumber
<1>4. CASE i # 0
  <2>1. i \in 1 .. Len(P) /\ P[i] \in DOMAIN auths
    BY <1>2, <1>3, <1>4
  <2> HIDE DEF i
  <2>2. key = P[i]
    BY <1>1, <1>4
  <2>3. /\ Len(P[i]) \in 0 .. Len(r.name) /\ P[i] = SubSeq(r.name, 1, Len(P[i]))
        /\ Len(P[i]) = Len(r.name) \/ r.name[Len(P[i]) + 1] = "/"
    BY <2>1, ParentsFacts
  <2> HIDE DEF P
  <2>4. /\ Len(key) \in 0 .. Len(r.name) /\ key = SubSeq(r.name, 1, Len(key))
        /\ Len(key) = Len(r.name) \/ r.name[Len(key) + 1] = "/"
    BY <2>2, <2>3
  <2>5. key \in Seq(Parts) /\ \A j \in 1 .. Len(key) : r.name[j] = key[j]
    <3> DEFINE n == Len(key)
               u == SubSeq(r.name, 1, n)
    <3>1. u \in Seq(Parts) /\ \A j \in 1 .. n : u[j] = r.name[j]
      BY <2>4, PrefixFacts
    <3>2. u = key
      BY <2>4
    <3> HIDE DEF u, n
    <3>3. key \in Seq(Parts) /\ \A j \in 1 .. n : key[j] = r.name[j]
      BY <3>1, <3>2
    <3> QED
      BY <3>3 DEF n
  <2>6. IsPrefix(key, r.name)
    <3>1. Len(key) <= Len(r.name)
      BY <2>4
    <3> QED
      BY <2>5, <3>1, PrefixPlaces
  <2>7. Len(key) = Len(r.name) => key = r.name
    BY <2>5
  <2> QED
    BY <2>1, <2>2, <2>4, <2>6, <2>7 DEF IsHome
<1>5. CASE i = 0
  BY <1>1, <1>5 DEF IsHome
<1> QED
  BY <1>4, <1>5

\* One more of a list is moved to another.
LEMMA MovesOn ==
  ASSUME NEW S, NEW a \in Seq(S), NEW b \in Seq(S), b # <<>>
  PROVE  Append(a, Head(b)) \o Tail(b) = a \o b
<1> DEFINE x == Head(b)
           t == Tail(b)
           r == a \o b
<1>1. /\ x \in S /\ x = b[1] /\ t \in Seq(S) /\ Len(b) \in Nat \ {0} /\ Len(t) = Len(b) - 1
      /\ \A j \in 1 .. Len(t) : t[j] = b[j + 1]
  BY HeadTailProperties, EmptySeq
<1>2. Len(a) \in Nat
  OBVIOUS
<1> HIDE DEF x, t
<1> DEFINE y == Append(a, x)
<1>3. /\ y \in Seq(S) /\ Len(y) = Len(a) + 1 /\ y[Len(a) + 1] = x
      /\ \A j \in 1 .. Len(a) : y[j] = a[j]
  BY <1>1, AppendProperties
<1> HIDE DEF y, r
<1> DEFINE l == y \o t
<1>4. /\ l \in Seq(S) /\ Len(l) = Len(y) + Len(t)
      /\ \A j \in 1 .. Len(y) : l[j] = y[j]
      /\ \A j \in 1 .. Len(t) : l[Len(y) + j] = t[j]
  <2>1. y \in Seq(S) /\ t \in Seq(S)
    BY <1>1, <1>3
  <2>2. l \in Seq(S) /\ Len(l) = Len(y) + Len(t)
    BY ONLY <2>1, Joined
  <2>3. \A j \in 1 .. Len(y) : l[j] = y[j]
    BY ONLY <2>1, Joined
  <2>4. \A j \in 1 .. Len(t) : l[Len(y) + j] = t[j]
    BY ONLY <2>1, Joined
  <2> QED
    BY <2>2, <2>3, <2>4
<1>5. /\ r \in Seq(S) /\ Len(r) = Len(a) + Len(b)
      /\ \A j \in 1 .. Len(a) : r[j] = a[j]
      /\ \A j \in 1 .. Len(b) : r[Len(a) + j] = b[j]
  BY Joined DEF r
<1> HIDE DEF l, r
<1>6. Len(l) = Len(r)
  BY <1>1, <1>2, <1>3, <1>4, <1>5
<1>7. ASSUME NEW k \in 1 .. Len(r) PROVE l[k] = r[k]
  <2>1. CASE k \in 1 .. Len(a)
    BY <1>2, <1>3, <1>4, <1>5, <2>1
  <2>2. CASE k = Len(a) + 1
    BY <1>1, <1>2, <1>3, <1>4, <1>5, <2>2
  <2>3. CASE k > Len(a) + 1
    <3> DEFINE j == k - Len(a) - 1
    <3>1. j \in 1 .. Len(t) /\ j + 1 \in 1 .. Len(b) /\ Len(y) + j = k /\ Len(a) + (j + 1) = k
      BY <1>1, <1>2, <1>3, <1>5, <2>3
    <3> HIDE DEF j
    <3>2. l[k] = t[j] /\ r[k] = b[j + 1]
      BY <1>4, <1>5, <3>1
    <3> QED
      BY <1>1, <3>1, <3>2
  <2> QED
    BY <1>2, <1>5, <2>1, <2>2, <2>3
<1>8. l = r
  BY <1>4, <1>5, <1>6, <1>7
<1> QED
  BY <1>8 DEF l, r, x, t, y

\* The tasks tried and those still to be tried are those meant.
OnItsWay ==
  taskPc \in {"trying", "pulled"} /\ RulesAreAnchored(config, asked.ref) /\ RulesAreOrdered(config, asked.ref) =>
    TriedTasks \o tasks = MeantTasks(config, asked.ref)

ConfigTyped ==
  /\ config.search \in Seq(Seq(Parts)) /\ \A i \in DOMAIN config.search : IsRegistry(config.search[i])
  /\ AreRules(config.rules) /\ <<>> \notin DOMAIN config.auths

TaskInv ==
  /\ ConfigTyped
  /\ Named(tasks) /\ IsSeqOf(tried)
  /\ taskPc \in {"begin", "ready"} => tried = <<>>
  /\ OnItsWay /\ SkippedForItsOwn /\ CredentialsStayHome

LEMMA EmptyIsSeqOf == IsSeqOf(<<>>) /\ ToSet(<<>>) = {} /\ Named(<<>>)
<1> DEFINE e == <<>>
           S == {}
<1>1. e \in Seq(S)
  OBVIOUS
<1> HIDE DEF e, S
<1>2. IsSeqOf(e) /\ ToSet(e) \subseteq S
  BY <1>1, ListIsSeqOf
<1> QED
  BY <1>2 DEF e, S, Named

LEMMA TaskInitInv == TaskInit => TaskInv
<1> SUFFICES ASSUME TaskInit PROVE TaskInv
  OBVIOUS
<1>1. /\ taskPc = "begin" /\ tasks = <<>> /\ tried = <<>>
      /\ config.search = <<>> /\ config.rules = <<>> /\ config.auths = <<>>
  BY DEF TaskInit
<1>2. ConfigTyped
  <2>1. <<>> \in Seq(Seq(Parts)) /\ DOMAIN <<>> = {} /\ Len(<<>>) = 0 /\ DOMAIN <<>> = 1 .. 0
    OBVIOUS
  <2> QED
    BY <1>1, <2>1 DEF ConfigTyped, AreRules
<1>3. CredentialsStayHome /\ SkippedForItsOwn
  BY <1>1 DEF CredentialsStayHome, SkippedForItsOwn
<1>4. OnItsWay
  BY <1>1 DEF OnItsWay
<1> QED
  BY <1>1, <1>2, <1>3, <1>4, EmptyIsSeqOf DEF TaskInv

LEMMA StepOfConfigure ==
  ASSUME TaskInv, NEW c \in Configs, NEW a \in AuthFiles, Configure(c, a)
  PROVE  TaskInv'
<1>1. taskPc = "begin" /\ UNCHANGED <<asked, tasks, tried>> /\ tried = <<>> /\ taskPc' \in {"ready", "failed"}
  BY DEF Configure, TaskInv
<1>2. CASE UNCHANGED config
  BY <1>1, <1>2 DEF TaskInv, ConfigTyped, OnItsWay, CredentialsStayHome, SkippedForItsOwn
<1>3. CASE \A i \in DOMAIN c.rules : LegalRule(c.rules[i])
  <2> DEFINE rules == [i \in DOMAIN c.rules |-> Tidy(c.rules[i])]
  <2>1. config' = [search |-> c.search, auths |-> a, rules |-> rules]
    BY <1>3 DEF Configure
  <2>2. /\ c.search \in Seq(Seq(Parts)) /\ \A i \in DOMAIN c.search : IsRegistry(c.search[i])
        /\ IsSeqOf(c.rules) /\ \A i \in DOMAIN c.rules : IsRule(c.rules[i])
        /\ <<>> \notin DOMAIN a
    BY RegistryAssumption
  <2>3. Len(c.rules) \in Nat /\ DOMAIN c.rules = 1 .. Len(c.rules)
    BY <2>2, ListIsSeqOf DEF IsSeqOf
  <2>4. \A i \in DOMAIN c.rules : IsRule(rules[i]) /\ rules[i].prefix # <<>>
    BY <1>3, <2>2, TidyFacts
  <2> DEFINE S == {Tidy(c.rules[i]) : i \in DOMAIN c.rules}
  <2>5. rules \in [1 .. Len(c.rules) -> S] /\ DOMAIN rules = DOMAIN c.rules
    BY <2>3
  <2> HIDE DEF rules, S
  <2>6. Len(rules) = Len(c.rules)
    BY <2>3, <2>5, ListOf
  <2>7. AreRules(rules)
    BY <2>3, <2>4, <2>5, <2>6 DEF AreRules
  <2>8. ConfigTyped'
    BY <2>1, <2>2, <2>7 DEF ConfigTyped
  <2>9. OnItsWay' /\ CredentialsStayHome' /\ SkippedForItsOwn'
    BY <1>1 DEF OnItsWay, CredentialsStayHome, SkippedForItsOwn
  <2> QED
    BY <1>1, <2>8, <2>9 DEF TaskInv
<1> QED
  BY <1>2, <1>3 DEF Configure

LEMMA StepOfProcess ==
  ASSUME TaskInv, NEW r \in Images, NEW input \in Inputs, Process(r, input)
  PROVE  TaskInv'
<1> DEFINE C == Candidates(config.search, r)
           handled == [i \in DOMAIN C |-> Handle(config.rules, C[i])]
           all == [i \in DOMAIN handled |-> handled[i].tasks]
           final == FlattenSeq(all)
<1>1. /\ taskPc = "ready" /\ asked' = [ref |-> r, input |-> input] /\ tasks' = final
      /\ UNCHANGED <<config, tried>> /\ tried = <<>> /\ taskPc' \in {"trying", "failed"}
  BY DEF Process, TaskInv
<1>2. ConfigTyped /\ CredentialsStayHome /\ SkippedForItsOwn /\ IsSeqOf(tried)
  BY DEF TaskInv
<1>3. IsReference(r) /\ IsRegistry(RegistryOf(r))
  BY RegistryAssumption
<1>4. /\ Len(C) \in Nat /\ DOMAIN C = 1 .. Len(C) /\ \A i \in DOMAIN C : IsTask(C[i])
      /\ AreRules(config.rules)
  BY <1>2, <1>3, CandidateFacts DEF ConfigTyped
<1>5. \A i \in DOMAIN C : all[i] = Handle(config.rules, C[i]).tasks
  OBVIOUS
<1>6. DOMAIN all = DOMAIN C /\ all = [i \in DOMAIN C |-> all[i]]
  OBVIOUS
<1> HIDE DEF C, all
<1> DEFINE matches(i) == MatchesOfRules(config.rules, C[i].ref)
<1>7. ASSUME NEW i \in DOMAIN C
       PROVE  /\ Len(Whole(C[i].ref)) \in Nat
              /\ matches(i) \in [1 .. Len(config.rules) -> 0 .. Len(Whole(C[i].ref))]
  <2> DEFINE w == Whole(C[i].ref)
  <2>1. w \in Seq(Parts) /\ Len(w) \in Nat
    <3>1. w \in Seq(Parts)
      BY <1>4 DEF IsTask
    <3> HIDE DEF w
    <3> QED
      BY <3>1
  <2>2. ASSUME NEW k \in DOMAIN config.rules PROVE MatchedLength(w, config.rules[k].prefix) \in 0 .. Len(w)
    <3>1. config.rules[k].prefix \in Seq(Parts) /\ config.rules[k].prefix # <<>>
      BY <1>4 DEF AreRules, IsRule
    <3> HIDE DEF w
    <3> QED
      BY <2>1, <3>1, MatchIsInside
  <2>3. DOMAIN config.rules = 1 .. Len(config.rules)
    BY <1>4 DEF AreRules
  <2> QED
    BY <2>1, <2>2, <2>3 DEF MatchesOfRules
<1>8. \A i \in DOMAIN C : all[i] = Under(RuleFor(matches(i)), config.rules, C[i], matches(i)).tasks
  BY <1>5 DEF Handle
<1> HIDE DEF matches
<1>9. ASSUME NEW i \in DOMAIN C PROVE Named(all[i])
  <2> DEFINE b == Len(Whole(C[i].ref))
  <2>1. b \in Nat /\ matches(i) \in [1 .. Len(config.rules) -> 0 .. b] /\ Len(config.rules) \in Nat
    BY <1>4, <1>7 DEF AreRules
  <2> HIDE DEF b
  <2>2. RuleFor(matches(i)) \in 0 .. Len(config.rules)
    BY <2>1, RuleForFacts
  <2>3. Named(Under(RuleFor(matches(i)), config.rules, C[i], matches(i)).tasks)
    BY <1>4, <2>1, <2>2, UnderTasks
  <2> QED
    BY <1>8, <2>3
<1>10. Named(final)
  <2> DEFINE T == UNION {ToSet(all[i]) : i \in DOMAIN C}
  <2>1. \A i \in DOMAIN C : all[i] \in Seq(T)
    <3> SUFFICES ASSUME NEW i \in DOMAIN C PROVE all[i] \in Seq(T)
      OBVIOUS
    <3> DEFINE h == all[i]
    <3>1. h \in Seq(ToSet(h)) /\ ToSet(h) \subseteq T
      BY <1>9 DEF Named, IsSeqOf
    <3> HIDE DEF h, T
    <3>2. h \in Seq(T)
      BY <3>1
    <3> QED
      BY <3>2 DEF h
  <2>2. \A t \in T : t.ref.name \in Seq(Parts)
    BY <1>9 DEF Named
  <2> HIDE DEF T
  <2>3. all \in Seq(Seq(T))
    <3> DEFINE N == Seq(T)
    <3> HIDE DEF N
    <3>1. all \in [1 .. Len(C) -> N]
      BY <1>4, <1>6, <2>1 DEF N
    <3> QED
      BY <1>4, <3>1, ListOf DEF N
  <2>4. final \in Seq(T)
    BY <2>3, FlattenTyped
  <2> HIDE DEF final
  <2> QED
    BY <2>2, <2>4, NamedList
<1>11. ASSUME RulesAreAnchored(config, r), RulesAreOrdered(config, r) PROVE final = MeantTasks(config, r)
  <2> DEFINE of(i) == MeantRules(config.rules, C[i].ref)
             k(i) == IF of(i) = {} THEN 0 ELSE CHOOSE l \in of(i) : TRUE
             meant == [i \in DOMAIN C |->
                         Under(k(i), config.rules, C[i], MeantMatches(config.rules, C[i].ref)).tasks]
  <2>1. MeantTasks(config, r) = FlattenSeq(meant)
    BY DEF MeantTasks, C
  <2>2. ASSUME NEW i \in DOMAIN C
        PROVE  matches(i) = MeantMatches(config.rules, C[i].ref) /\ RuleFor(matches(i)) = k(i)
    <3>1. matches(i) = MeantMatches(config.rules, C[i].ref)
      BY <1>4, <1>11, MeantIsMatched DEF C, matches
    <3>2. \A j, l \in DOMAIN config.rules :
            j < l /\ matches(i)[j] = matches(i)[l] /\ matches(i)[j] # 0
              => SaysMore(config.rules[l].prefix, config.rules[j].prefix)
      BY <1>11, <3>1 DEF RulesAreOrdered, C
    <3>3. IsTask(C[i]) /\ AreRules(config.rules)
      BY <1>4
    <3> DEFINE t == C[i].ref
               b == Len(Whole(t))
               m == matches(i)
    <3>4. Whole(t) \in Seq(Parts) /\ \E c : HostEnds(Whole(t), c)
      BY <3>3 DEF IsTask
    <3>5. b \in Nat /\ m \in [1 .. Len(config.rules) -> 0 .. b] /\ m = MeantMatches(config.rules, t)
      BY <1>7, <3>1
    <3> HIDE DEF t, b, m
    <3>6. RuleFor(m) = IF MeantRules(config.rules, t) = {} THEN 0 ELSE CHOOSE l \in MeantRules(config.rules, t) : TRUE
      <4>1. PICK c : HostEnds(Whole(t), c)
        BY <3>4
      <4>2. \A j, l \in DOMAIN config.rules :
              j < l /\ m[j] = m[l] /\ m[j] # 0 => SaysMore(config.rules[l].prefix, config.rules[j].prefix)
        BY <3>2 DEF m
      <4> QED
        BY <3>3, <3>4, <3>5, <4>1, <4>2, MostIsSaid
    <3> QED
      BY <3>1, <3>6 DEF t, m
  <2>3. all = meant
    <3> HIDE DEF k
    <3> QED
      BY <1>6, <1>8, <2>2
  <2> HIDE DEF meant
  <2> QED
    BY <2>1, <2>3
<1> HIDE DEF final
<1>12. TriedTasks' \o tasks' = final
  <2>1. TriedTasks' = <<>>
    BY <1>1 DEF TriedTasks
  <2>2. final \in Seq(ToSet(final))
    BY <1>10 DEF Named, IsSeqOf
  <2>3. <<>> \o final = final
    BY <2>2
  <2> QED
    BY <1>1, <2>1, <2>3
<1>13. OnItsWay'
  <2>1. /\ RulesAreAnchored(config, asked.ref)' => RulesAreAnchored(config, r)
        /\ RulesAreOrdered(config, asked.ref)' => RulesAreOrdered(config, r)
    <3>1. config' = config /\ asked'.ref = r
      BY <1>1
    <3> QED
      BY <3>1
  <2>2. MeantTasks(config, asked.ref)' = MeantTasks(config, r)
    BY <1>1
  <2> QED
    BY <1>11, <1>12, <2>1, <2>2 DEF OnItsWay
<1> QED
  BY <1>1, <1>2, <1>10, <1>13 DEF TaskInv, ConfigTyped, CredentialsStayHome, SkippedForItsOwn

LEMMA StepOfTry ==
  ASSUME TaskInv, NEW success \in BOOLEAN, Try(success)
  PROVE  TaskInv'
<1>1. /\ taskPc = "trying" /\ tasks # <<>> /\ tasks' = Tail(tasks) /\ UNCHANGED <<config, asked>>
      /\ taskPc' \in {"trying", "pulled"}
  BY DEF Try
<1>2. PICK c \in Credentials(Head(tasks).ref) :
        tried' = Append(tried, [task |-> Head(tasks), key |-> c.key, sent |-> c.cred \notin Unusable])
  BY DEF Try
<1>3. ConfigTyped /\ Named(tasks) /\ IsSeqOf(tried) /\ OnItsWay /\ SkippedForItsOwn /\ CredentialsStayHome
  BY DEF TaskInv
<1> DEFINE S == ToSet(tasks)
           x == Head(tasks)
           r == x.ref
<1>4. tasks \in Seq(S) /\ x \in S /\ r.name \in Seq(Parts)
  <2>1. tasks \in Seq(S)
    BY <1>3 DEF Named, IsSeqOf
  <2> HIDE DEF S
  <2>2. x \in S
    BY <1>1, <2>1
  <2> HIDE DEF x
  <2> QED
    BY <1>3, <2>1, <2>2 DEF Named, S
<1>5. Named(tasks')
  <2>1. \A t \in S : t.ref.name \in Seq(Parts)
    BY <1>3 DEF Named
  <2> HIDE DEF S
  <2>2. Tail(tasks) \in Seq(S)
    BY <1>1, <1>4
  <2> QED
    BY <1>1, <2>1, <2>2, NamedList
<1>6. ConfigTyped'
  BY <1>1, <1>3 DEF ConfigTyped
<1>7. /\ RulesAreAnchored(config, asked.ref)' => RulesAreAnchored(config, asked.ref)
      /\ RulesAreOrdered(config, asked.ref)' => RulesAreOrdered(config, asked.ref)
      /\ MeantTasks(config, asked.ref)' = MeantTasks(config, asked.ref)
  BY <1>1
<1> HIDE DEF x
<1> DEFINE y == [task |-> x, key |-> c.key, sent |-> c.cred \notin Unusable]
           D == ToSet(tried) \cup {y}
<1>8. tried' = Append(tried, y) /\ y \in D /\ y.task = x /\ y.key = c.key
       /\ (y.sent <=> c.cred \notin Unusable)
  BY <1>2 DEF x
<1>9. tried \in Seq(D)
  <2>1. tried \in Seq(ToSet(tried)) /\ ToSet(tried) \subseteq D
    BY <1>3 DEF IsSeqOf
  <2> HIDE DEF D
  <2> QED
    BY <2>1
<1> HIDE DEF y, D
<1>10. /\ tried' \in Seq(D) /\ Len(tried') = Len(tried) + 1 /\ tried'[Len(tried) + 1] = y
      /\ \A j \in 1 .. Len(tried) : tried'[j] = tried[j]
      /\ Len(tried) \in Nat /\ DOMAIN tried = 1 .. Len(tried) /\ DOMAIN tried' = 1 .. Len(tried) + 1
  BY <1>8, <1>9, AppendProperties
<1>11. IsSeqOf(tried')
  BY <1>10, ListIsSeqOf
<1>12. c.key # <<>> => IsHome(c.key, r)
  <2>1. c.key = <<>> \/ c.key \in KeysFor(config.auths, r)
    BY <1>2 DEF Credentials, x
  <2> QED
    BY <1>4, <2>1, KeysAreHome
<1>13. CredentialsStayHome'
  <2> SUFFICES ASSUME NEW i \in DOMAIN tried', tried'[i].key # <<>> PROVE IsHome(tried'[i].key, tried'[i].task.ref)
    BY DEF CredentialsStayHome, IsHome
  <2>1. CASE i \in 1 .. Len(tried)
    BY <1>3, <1>10, <2>1 DEF CredentialsStayHome, IsHome
  <2>2. CASE i = Len(tried) + 1
    BY <1>8, <1>10, <1>12, <2>2
  <2> QED
    BY <1>10, <2>1, <2>2
<1>14. y.sent <=> (IF c.key = <<>> THEN asked.input \notin Unusable
                  ELSE asked.input = "none" /\ config.auths[c.key] \notin Unusable)
  <2>1. CASE asked.input # "none"
    BY <1>2, <1>8, <2>1 DEF Credentials, x
  <2>2. CASE asked.input = "none" /\ KeysFor(config.auths, r) = {}
    BY <1>2, <1>8, <2>2 DEF Credentials, Unusable, x
  <2>3. CASE asked.input = "none" /\ KeysFor(config.auths, r) # {}
    <3>1. PICK k \in KeysFor(config.auths, r) : c = [key |-> k, cred |-> config.auths[k]]
      BY <1>2, <2>3 DEF Credentials, x
    <3>2. k \in DOMAIN config.auths
      BY <1>4, <3>1, KeysAreHome
    <3>3. c.key = k /\ c.key # <<>> /\ c.cred = config.auths[k]
      BY <1>3, <3>1, <3>2 DEF ConfigTyped
    <3> QED
      BY <1>8, <2>3, <3>3
  <2> QED
    BY <2>1, <2>2, <2>3
<1>15. SkippedForItsOwn'
  <2> SUFFICES ASSUME NEW i \in DOMAIN tried'
               PROVE  tried'[i].sent <=> (IF tried'[i].key = <<>> THEN asked.input \notin Unusable
                                          ELSE asked.input = "none" /\ config.auths[tried'[i].key] \notin Unusable)
    BY <1>1 DEF SkippedForItsOwn
  <2>1. CASE i \in 1 .. Len(tried)
    <3>1. i \in DOMAIN tried /\ tried'[i] = tried[i]
      BY <1>10, <2>1
    <3> QED
      BY <1>3, <3>1 DEF SkippedForItsOwn
  <2>2. CASE i = Len(tried) + 1
    <3>1. tried'[i] = y /\ y.key = c.key
      BY <1>8, <1>10, <2>2
    <3> QED
      BY <1>14, <3>1
  <2> QED
    BY <1>10, <2>1, <2>2
<1>16. TriedTasks' = Append(TriedTasks, x)
  <2> DEFINE Q == {tried[i].task : i \in DOMAIN tried} \cup {x}
             b == TriedTasks
             a == TriedTasks'
  <2>1. b \in [1 .. Len(tried) -> Q] /\ \A i \in 1 .. Len(tried) : b[i] = tried[i].task
    BY <1>10 DEF TriedTasks
  <2>2. a = [i \in 1 .. Len(tried) + 1 |-> tried'[i].task]
    BY <1>10 DEF TriedTasks
  <2> HIDE DEF b, a
  <2>3. \A i \in 1 .. Len(tried) + 1 : a[i] = IF i = Len(tried) + 1 THEN x ELSE b[i]
    <3> TAKE i \in 1 .. Len(tried) + 1
    <3>1. CASE i = Len(tried) + 1
      BY <1>8, <1>10, <2>2, <3>1
    <3>2. CASE i \in 1 .. Len(tried)
      <4>1. a[i] = tried'[i].task /\ tried'[i] = tried[i] /\ b[i] = tried[i].task /\ i # Len(tried) + 1
        BY <1>10, <2>1, <2>2, <3>2
      <4> QED
        BY <4>1
    <3> QED
      BY <1>10, <3>1, <3>2
  <2>4. x \in Q
    OBVIOUS
  <2> HIDE DEF Q
  <2>5. b \in Seq(Q) /\ Len(b) = Len(tried)
    BY <1>10, <2>1, ListOf
  <2>6. /\ Append(b, x) \in Seq(Q) /\ Len(Append(b, x)) = Len(tried) + 1 /\ Append(b, x)[Len(tried) + 1] = x
        /\ \A i \in 1 .. Len(tried) : Append(b, x)[i] = b[i]
    BY <2>4, <2>5, AppendProperties
  <2> DEFINE z == Append(b, x)
  <2>7. z \in Seq(Q) /\ Len(z) = Len(tried) + 1 /\ z[Len(tried) + 1] = x /\ \A i \in 1 .. Len(tried) : z[i] = b[i]
    BY <2>6
  <2> HIDE DEF z
  <2>8. a \in [1 .. Len(tried) + 1 -> Q]
    <3>1. \A i \in 1 .. Len(tried) + 1 : a[i] \in Q
      BY <1>10, <2>1, <2>3, <2>4
    <3> QED
      BY <2>2, <3>1
  <2>9. a \in Seq(Q) /\ Len(a) = Len(tried) + 1
    BY <1>10, <2>8, ListOf
  <2>10. \A i \in 1 .. Len(tried) + 1 : a[i] = z[i]
    BY <1>10, <2>3, <2>7
  <2>11. a = z
    BY <2>7, <2>9, <2>10
  <2> QED
    BY <2>11 DEF a, b, z
<1>17. TriedTasks' \o tasks' = TriedTasks \o tasks
  <2> DEFINE Q == {tried[i].task : i \in DOMAIN tried} \cup S
             b == TriedTasks
  <2>1. b \in [1 .. Len(tried) -> Q]
    BY <1>10 DEF TriedTasks
  <2>2. S \subseteq Q
    OBVIOUS
  <2> HIDE DEF Q, S, b
  <2>3. b \in Seq(Q)
    BY <1>10, <2>1, ListOf
  <2>4. tasks \in Seq(Q)
    BY <1>4, <2>2
  <2>5. Append(b, Head(tasks)) \o Tail(tasks) = b \o tasks
    BY <1>1, <2>3, <2>4, MovesOn
  <2> QED
    BY <1>1, <1>16, <2>5 DEF b, x
<1>18. OnItsWay'
  BY <1>1, <1>3, <1>7, <1>17 DEF OnItsWay
<1> QED
  BY <1>1, <1>5, <1>6, <1>11, <1>13, <1>18, <1>15 DEF TaskInv

LEMMA TaskStep == TaskInv /\ [TaskNext]_taskVars => TaskInv'
<1> SUFFICES ASSUME TaskInv, [TaskNext]_taskVars PROVE TaskInv'
  OBVIOUS
<1>1. ASSUME UNCHANGED <<config, asked, tasks, tried>>, taskPc' = taskPc \/ taskPc' = "failed" PROVE TaskInv'
  BY <1>1 DEF TaskInv, ConfigTyped, OnItsWay, CredentialsStayHome, SkippedForItsOwn, TriedTasks
<1>2. CASE AllTasksTried
  BY <1>1, <1>2 DEF AllTasksTried
<1>3. CASE UNCHANGED taskVars
  BY <1>1, <1>3 DEF taskVars
<1> QED
  BY <1>2, <1>3, StepOfConfigure, StepOfProcess, StepOfTry DEF TaskNext

LEMMA TriedIsMeant == TaskInv => TriedAsConfigured
<1> SUFFICES ASSUME TaskInv PROVE TriedAsConfigured
  OBVIOUS
<1>1. Named(tasks) /\ IsSeqOf(tried) /\ OnItsWay /\ SkippedForItsOwn /\ CredentialsStayHome
  BY DEF TaskInv
<1>2. IsPrefix(TriedTasks, TriedTasks \o tasks)
  <2> DEFINE Q == {tried[i].task : i \in DOMAIN tried} \cup ToSet(tasks)
             b == TriedTasks
  <2>1. Len(tried) \in Nat /\ DOMAIN tried = 1 .. Len(tried)
    BY <1>1, ListIsSeqOf DEF IsSeqOf
  <2>2. b \in [1 .. Len(tried) -> Q]
    BY <2>1 DEF TriedTasks
  <2>3. tasks \in Seq(ToSet(tasks)) /\ ToSet(tasks) \subseteq Q
    BY <1>1 DEF Named, IsSeqOf
  <2> HIDE DEF Q, b
  <2>4. b \in Seq(Q) /\ tasks \in Seq(Q)
    BY <2>1, <2>2, <2>3, ListOf
  <2>5. b \o tasks \in Seq(Q) /\ Len(b \o tasks) = Len(b) + Len(tasks) /\ Len(b) \in Nat /\ Len(tasks) \in Nat
        /\ \A j \in 1 .. Len(b) : (b \o tasks)[j] = b[j]
    BY <2>4, Joined
  <2>6. IsPrefix(b, b \o tasks)
    <3>1. Len(b) <= Len(b \o tasks)
      BY <2>5
    <3> QED
      BY <2>4, <2>5, <3>1, PrefixPlaces
  <2> QED
    BY <2>6 DEF b
<1> QED
  BY <1>1, <1>2 DEF TriedAsConfigured, TriedAsRulesSay, OnItsWay

\* A pull asks where its most specific rules send it, in their order, and shows each
\* registry only what is for it (registry/mod.rs, auth/auth_config.rs).
THEOREM TasksAsConfigured == TaskSpec => []TriedAsConfigured
BY TaskInitInv, TaskStep, TriedIsMeant, PTL DEF TaskSpec

=============================================================================

--------------------------- MODULE ImagePullProofs ---------------------------
(***************************************************************************)
(* Proofs about ImagePull, for any references, manifests and faults:       *)
(* types, what the databases answer with was checked, and an answered pull *)
(* is on file; and, for a client that cannot come up with a layer store    *)
(* that does not know the indices in use, that directories are never       *)
(* shared, that what is stored or mounted is whole, and in order.          *)
(***************************************************************************)
EXTENDS ImagePull, FiniteSetTheorems, TLAPS

-----------------------------------------------------------------------------
(* The inductive invariants *)

Working == {"known", "meta", "layers", "save", "saving"}
Judged  == {"meta", "layers", "save", "saving"}

\* A pull belongs to a client that is up.  The task it works on is the first one
\* left, its manifest is known, and accepted before it is acted upon.  Futures run
\* only while layers are pulled, for the layers of the manifest.
TaskInv ==
  /\ pull.pc # "idle" => up
  /\ pull.pc \in Working => /\ pull.tasks # <<>>
                            /\ pull.ref \in Refs
                            /\ pull.manifest \in Manifests
  /\ pull.pc \in Judged => <<pull.ref, pull.manifest>> \in Accepted
  /\ pull.pc = "layers" =>
       /\ Todo \subseteq Slots
       /\ Len(DiffIdsOf[ConfigOf[pull.manifest]]) = Len(LayersOf[pull.manifest])
  /\ \A i \in Slots : lay[i].st # "waiting" => pull.pc = "layers" /\ i \in Todo

TypeInv == TypeOK /\ TaskInv

\* A future that is done has had its digest compared, by this pull or an earlier one.
Checked == \A i \in Slots : lay[i].st = "done" => Vouched(Blob(i))

\* The file has what image_db has, unless it could not be written or is about to be.
Filed ==
  /\ metaFile.state # "full" => metaFile.images = {} /\ metaFile.layers = {}
  /\ up /\ ~unsaved /\ pull.pc \notin {"save", "saving"} => images = metaFile.images
  /\ pull.pc \in {"save", "saving"} => \E img \in images : img.id = ConfigOf[pull.manifest]

AnswerInv == TypeInv /\ Checked /\ Filed /\ StoredImagesAreRight /\ AnsweredIsSaved

\* The client has the indices of all directories behind it.
Indexed == Builder \/ "stray" \notin Faults

IndexInv ==
  /\ stray => "stray" \in Faults
  /\ up => /\ store.root = "layers"
           /\ \A n \in Indices : n >= store.next => dir[<<"layers", n>>] = "absent"

\* What a future has made of its directory.  A layer that is in layer_db is taken
\* from there.
FutureInv == \A i \in Slots :
  /\ lay[i].st \in {"opened", "unpacking"} =>
       /\ \E n \in Indices : n < store.next /\ lay[i].path = <<"layers", n>>
       /\ dir[lay[i].path] \in {"absent", "partial"}
       /\ \A j \in Slots \ {i} :
            lay[j].st \in {"opened", "unpacking"} => lay[j].path # lay[i].path
       /\ \A m \in layers : m.digest # Blob(i)
  /\ lay[i].st = "opened" => dir[lay[i].path] = "absent"
  /\ lay[i].st = "done" =>
       /\ dir[lay[i].path] = Blob(i)
       /\ \A m \in layers : m.digest = Blob(i) => m.path = lay[i].path

\* layer_db is a map, in memory and in the file.
KeyedByDigest(db) == \A m, n \in db : m.digest = n.digest => m = n

\* An image has the layers of its manifest, each where it occurs first.
InOrder(img) ==
  /\ DOMAIN img.metas = Firsts(img.manifest)
  /\ \A k \in DOMAIN img.metas : img.metas[k].digest = LayersOf[img.manifest][k]

StoredInv ==
  /\ KeyedByDigest(layers) /\ KeyedByDigest(metaFile.layers)
  /\ \A img \in Stored : InOrder(img)

DiskInv == AnswerInv /\ IndexInv /\ FutureInv /\ StoredInv
           /\ DatabasesAreTrue /\ MountsHoldTheirImage

-----------------------------------------------------------------------------
(* Types *)

PullType == [pc : Points, url : Urls \cup {NoUrl}, tasks : Seq(Refs),
             ref : Refs \cup {NoRef}, manifest : Manifests \cup {NoManifest}]
FileType == [state : {"none", "torn", "full"}, images : SUBSET Image, layers : SUBSET Meta]

\* Going on to another point of the pull keeps what the pull is about.
LEMMA AtKeeps ==
  ASSUME pull \in PullType, NEW p \in Points
  PROVE  /\ At(p) \in PullType
         /\ At(p).pc = p /\ At(p).url = pull.url /\ At(p).tasks = pull.tasks
         /\ At(p).ref = pull.ref /\ At(p).manifest = pull.manifest
  BY DEF At, PullType

\* A task that failed leaves those behind it.
LEMMA FailedKeeps ==
  ASSUME pull \in PullType, pull.tasks # <<>>
  PROVE  Failed(pull) \in PullType /\ Failed(pull).pc = "task"
<1>1. Tail(pull.tasks) \in Seq(Refs)
  BY DEF PullType
<1> QED BY <1>1 DEF Failed, PullType, Points

\* An idle pull is one that asks for nothing.
LEMMA NoPullType == NoPull \in PullType /\ NoPull.pc = "idle"
BY DEF NoPull, PullType, Points

LEMMA WaitingType == Waiting \in [Slots -> LayerType] /\ \A i \in Slots : Waiting[i].st = "waiting"
<1>1. ASSUME NEW i \in Slots PROVE [st |-> "waiting", path |-> <<"layers", 0>>] \in LayerType
  BY ImagePullAssumption DEF LayerType, LayerPoints, Paths, Roots, Indices, ImagePullAssumption
<1> QED BY <1>1 DEF Waiting

\* The layers to pull are positions of the manifest.
LEMMA FirstsAreLayers ==
  ASSUME NEW m \in Manifests, NEW i \in Firsts(m)
  PROVE  i \in Nat /\ i \in 1 .. Len(LayersOf[m]) /\ LayersOf[m][i] \in Digests
<1>1. LayersOf[m] \in Seq(Digests)
  BY ImagePullAssumption DEF ImagePullAssumption
<1>2. i \in 1 .. Len(LayersOf[m])
  BY DEF Firsts
<1> QED BY <1>1, <1>2

\* The position of a layer says which it is: none occurs twice.
LEMMA FirstsDiffer ==
  ASSUME NEW m \in Manifests, NEW i \in Firsts(m), NEW j \in Firsts(m),
         LayersOf[m][i] = LayersOf[m][j]
  PROVE  i = j
<1>1. i \in Nat /\ j \in Nat
  BY FirstsAreLayers
<1>2. i \in 1 .. Len(LayersOf[m]) /\ j \in 1 .. Len(LayersOf[m])
  BY FirstsAreLayers
<1>3. ~(i < j)
  <2> SUFFICES ASSUME i < j PROVE FALSE
    OBVIOUS
  <2>1. i \in 1 .. j - 1
    BY <1>1, <1>2
  <2> QED BY <2>1 DEF Firsts
<1>4. ~(j < i)
  <2> SUFFICES ASSUME j < i PROVE FALSE
    OBVIOUS
  <2>1. j \in 1 .. i - 1
    BY <1>1, <1>2
  <2> QED BY <2>1 DEF Firsts
<1> QED BY <1>1, <1>3, <1>4

\* What is recorded of an image, once its layers are all there.
LEMMA NewImageType ==
  ASSUME TypeInv, AllDone
  PROVE  NewImage \in Image /\ MetasOf(NewImage) \subseteq Meta
<1>1. pull.ref \in Refs /\ pull.manifest \in Manifests /\ Todo \subseteq Slots
  BY DEF TypeInv, TaskInv, AllDone, InLayers, Working
<1>2. ASSUME NEW k \in Todo PROVE [digest |-> Blob(k), path |-> lay[k].path] \in Meta
  <2>1. Blob(k) \in Digests
    BY <1>1, FirstsAreLayers DEF Blob, Todo
  <2>2. lay[k].path \in Paths
    BY <1>1 DEF TypeInv, TypeOK, LayerType
  <2> QED BY <2>1, <2>2 DEF Meta
<1>3. Pulled \in [Todo -> Meta]
  BY <1>2 DEF Pulled
<1>4. Pulled \in UNION {[S -> Meta] : S \in SUBSET Slots}
  BY <1>1, <1>3
<1>5. ConfigOf[pull.manifest] \in Configs
  BY <1>1, ImagePullAssumption DEF ImagePullAssumption
<1>6. NewImage \in Image
  BY <1>1, <1>4, <1>5 DEF NewImage, Image
<1>7. MetasOf(NewImage) \subseteq Meta
  <2>1. NewImage.metas = Pulled
    BY DEF NewImage
  <2> QED BY <2>1, <1>3 DEF MetasOf
<1> QED BY <1>6, <1>7

\* A mount adds an overlay of the image.
LEMMA MountType ==
  ASSUME TypeOK, NEW img \in Image, Mount(img) \/ UNCHANGED mounts
  PROVE  mounts' \subseteq [bundle : Nat, image : Image]
BY DEF Mount, TypeOK

\* The futures are dropped, or there are none.
LEMMA NoFutures ==
  ASSUME TypeInv, lay' = Waiting \/ (lay' = lay /\ pull.pc # "layers")
  PROVE  lay' \in [Slots -> LayerType] /\ \A i \in Slots : lay'[i].st = "waiting"
BY WaitingType DEF TypeInv, TypeOK, TaskInv

LEMMA TypeInit == Init => TypeInv
<1> SUFFICES ASSUME Init PROVE TypeInv
  OBVIOUS
<1>1. dir \in [Paths -> Content]
  BY DEF Init, Content
<1>2. metaFile \in FileType
  BY DEF Init, NoFile, FileType
<1>3. store \in [root : Roots, next : Nat]
  BY DEF Init, Roots
<1>4. lay \in [Slots -> LayerType]
  BY WaitingType DEF Init
<1>5. pull \in PullType /\ pull.pc = "idle"
  BY NoPullType DEF Init
<1>6. TypeOK
  BY <1>1, <1>2, <1>3, <1>4, <1>5 DEF TypeOK, Init, FileType, PullType
<1> QED BY <1>5, <1>6, WaitingType DEF TypeInv, TaskInv, Working, Judged, Init

\* A step that is the pull's own, or gives the task up: only pull changes of what
\* TaskInv is about, to a point that asks for nothing.
LEMMA TypeFails ==
  ASSUME TypeInv, pull.pc \in Working \/ (pull.pc = "task" /\ pull.tasks # <<>>),
         pull' = Failed(pull), UNCHANGED <<stray, metaFile, up, store, made>>,
         dir' \in [Paths -> Content], layers' \subseteq Meta, images' = images, unsaved' \in BOOLEAN,
         mounts' \subseteq [bundle : Nat, image : Image],
         lay' = Waiting \/ (lay' = lay /\ pull.pc # "layers")
  PROVE  TypeInv'
<1> USE NoFutures
<1>1. pull \in PullType /\ pull.tasks # <<>>
  BY DEF TypeInv, TypeOK, TaskInv, PullType
<1>2. pull' \in PullType /\ pull'.pc = "task"
  BY <1>1, FailedKeeps
<1>3. up
  BY DEF TypeInv, TaskInv, Working
<1>4. TypeOK'
  BY <1>2 DEF TypeInv, TypeOK, PullType
<1> QED BY <1>2, <1>3, <1>4 DEF TypeInv, TaskInv, Working, Judged

\* The same for a step that ends the pull or answers it.
LEMMA TypeRests ==
  ASSUME TypeInv, pull' \in PullType, pull'.pc \in {"idle", "task", "ok", "failed"},
         pull'.pc # "idle" => up,
         UNCHANGED <<dir, stray, up, images, layers, store>>, metaFile' \in FileType,
         unsaved' \in BOOLEAN, made' \in Nat,
         mounts' \subseteq [bundle : Nat, image : Image],
         lay' = Waiting \/ (lay' = lay /\ pull.pc # "layers")
  PROVE  TypeInv'
<1> USE NoFutures
<1>1. TypeOK'
  BY DEF TypeInv, TypeOK, PullType, FileType
<1> QED BY <1>1 DEF TypeInv, TaskInv, Working, Judged

\* A step of a future leaves the pull as it is.
LEMMA TypeFuture ==
  ASSUME TypeInv, UNCHANGED <<stray, metaFile, mounts, up, images, layers, pull, history>>,
         dir' \in [Paths -> Content], store' \in [root : Roots, next : Nat],
         lay' \in [Slots -> LayerType], pull.pc = "layers",
         NEW i \in Slots, i \in Todo, \A j \in Slots \ {i} : lay'[j] = lay[j]
  PROVE  TypeInv'
<1>1. TypeOK'
  BY DEF TypeInv, TypeOK, history
<1> QED BY <1>1 DEF TypeInv, TaskInv, Todo

\* A future goes on, or is told its directory.
LEMMA LayMoves ==
  ASSUME TypeOK, NEW i \in Slots, NEW s \in LayerPoints,
         lay' = [lay EXCEPT ![i] = [@ EXCEPT !.st = s]]
  PROVE  /\ lay' \in [Slots -> LayerType] /\ \A j \in Slots \ {i} : lay'[j] = lay[j]
         /\ lay'[i].st = s /\ lay'[i].path = lay[i].path
<1>1. lay \in [Slots -> LayerType] /\ lay[i] \in LayerType
  BY DEF TypeOK
<1>2. [lay[i] EXCEPT !.st = s] \in LayerType
  BY <1>1 DEF LayerType
<1> QED BY <1>1, <1>2 DEF LayerType

LEMMA LayPlaced ==
  ASSUME TypeOK, NEW i \in Slots, NEW s \in LayerPoints, NEW p \in Paths,
         lay' = [lay EXCEPT ![i] = [st |-> s, path |-> p]]
  PROVE  /\ lay' \in [Slots -> LayerType] /\ \A j \in Slots \ {i} : lay'[j] = lay[j]
         /\ lay'[i].st = s /\ lay'[i].path = p
<1>1. lay \in [Slots -> LayerType]
  BY DEF TypeOK
<1>2. [st |-> s, path |-> p] \in LayerType
  BY DEF LayerType
<1> QED BY <1>1, <1>2

LEMMA TypeNext == TypeInv /\ [Next]_vars => TypeInv'
<1> SUFFICES ASSUME TypeInv, [Next]_vars PROVE TypeInv'
  OBVIOUS
<1> USE DEF disk, client, history
<1>0. /\ pull \in PullType /\ lay \in [Slots -> LayerType] /\ metaFile \in FileType
      /\ TypeOK /\ unsaved \in BOOLEAN /\ made \in Nat /\ layers \subseteq Meta
      /\ mounts \subseteq [bundle : Nat, image : Image] /\ dir \in [Paths -> Content]
      /\ images \subseteq Image /\ store \in [root : Roots, next : Nat]
  BY DEF TypeInv, TypeOK, PullType, FileType
<1>28. ASSUME NEW i \in Slots, lay[i].st # "waiting" PROVE i \in Todo
  BY <1>28 DEF TypeInv, TaskInv
<1>1. CASE UNCHANGED vars
  BY <1>1 DEF TypeInv, TypeOK, TaskInv, Todo, vars
<1>2. CASE Start
  <2>1. store' \in [root : Roots, next : Nat]
    BY <1>2, ImagePullAssumption DEF Start, LayerStoreNew, Roots, ImagePullAssumption
  <2>2. images' \subseteq Image /\ layers' \subseteq Meta /\ up' = TRUE
    BY <1>2, <1>0 DEF Start, FileType
  <2>3. TypeOK'
    BY <1>2, <2>1, <2>2 DEF Start, TypeInv, TypeOK
  <2> QED BY <1>2, <2>2, <2>3 DEF Start, TypeInv, TaskInv, Todo
<1>3. CASE Crash
  <2>1. store' \in [root : Roots, next : Nat]
    BY <1>3 DEF Crash, Roots
  <2>2. pull' \in PullType /\ pull'.pc = "idle" /\ lay' \in [Slots -> LayerType]
    BY <1>3, NoPullType, WaitingType DEF Crash
  <2>3. TypeOK'
    BY <1>3, <2>1, <2>2 DEF Crash, TypeInv, TypeOK, PullType
  <2>4. \A i \in Slots : lay'[i].st = "waiting"
    BY <1>3, WaitingType DEF Crash
  <2> QED BY <2>2, <2>3, <2>4 DEF TypeInv, TaskInv, Working, Judged
<1>4. CASE StrayEntry
  BY <1>4 DEF StrayEntry, TypeInv, TypeOK, TaskInv, Todo
<1>5. ASSUME NEW u \in Urls, Request(u) PROVE TypeInv'
  <2>1. TasksOf[u] \in Seq(Refs)
    BY ImagePullAssumption DEF ImagePullAssumption
  <2>2. pull' \in PullType /\ pull'.pc = "task"
    BY <1>5, <2>1, NoPullType DEF Request, NoPull, PullType, Points
  <2>3. made' \in Nat
    BY <1>5, <1>0 DEF Request
  <2> QED BY <1>5, <1>0, <2>2, <2>3, TypeRests DEF Request
<1>6. CASE NoTaskLeft
  <2>1. pull' \in PullType /\ pull'.pc = "failed"
    BY <1>6, <1>0, AtKeeps DEF NoTaskLeft, Points
  <2>2. up
    BY <1>6 DEF NoTaskLeft, TypeInv, TaskInv
  <2> QED BY <1>6, <1>0, <2>1, <2>2, TypeRests DEF NoTaskLeft
<1>7. ASSUME NEW m \in Manifests, PullManifest(m) PROVE TypeInv'
  <2>1. Head(pull.tasks) \in Refs
    BY <1>7, <1>0 DEF PullManifest, PullType
  <2>2. /\ pull' \in PullType /\ pull'.pc = "known" /\ pull'.tasks = pull.tasks
        /\ pull'.ref = Head(pull.tasks) /\ pull'.manifest = m
    BY <1>7, <1>0, <2>1 DEF PullManifest, PullType, Points
  <2>3. TypeOK'
    BY <1>7, <1>0, <2>2 DEF PullManifest, TypeOK, PullType
  <2>4. up' /\ pull.tasks # <<>>
    BY <1>7 DEF PullManifest, TypeInv, TaskInv
  <2>5. \A i \in Slots : lay'[i].st = "waiting"
    BY <1>7, NoFutures DEF PullManifest
  <2> QED BY <2>1, <2>2, <2>3, <2>4, <2>5 DEF TypeInv, TaskInv, Judged
<1>8. CASE ManifestFails
  BY <1>8, <1>0, TypeFails DEF ManifestFails
<1>9. CASE Reply
  BY <1>9, <1>0, NoPullType, TypeRests DEF Reply
<1>10. CASE Cancel
  BY <1>10, <1>0, NoPullType, TypeRests DEF Cancel
<1>11. CASE Populated
  <2>1. pull' \in PullType /\ pull'.pc = "ok"
    BY <1>11, <1>0, AtKeeps DEF Populated, Points
  <2>2. up
    BY <1>11 DEF Populated, TypeInv, TaskInv
  <2>3. mounts' \subseteq [bundle : Nat, image : Image]
    BY <1>11, <1>0, MountType DEF Populated, Known
  <2> QED BY <1>11, <1>0, <2>1, <2>2, <2>3, TypeRests DEF Populated
<1>12. CASE PopulatedFails
  <2>1. PICK img \in Known : BundleFails(img)
    BY <1>12 DEF PopulatedFails
  <2>2. mounts' \subseteq [bundle : Nat, image : Image]
    BY <2>1, <1>0, MountType DEF BundleFails, Known, Mount
  <2>3. pull' = Failed(pull) /\ pull.pc = "known"
    BY <1>12, <2>1 DEF PopulatedFails, BundleFails
  <2>4. UNCHANGED <<dir, stray, metaFile, client, lay, history>>
    BY <2>1 DEF BundleFails
  <2> QED BY <1>0, <2>2, <2>3, <2>4, TypeFails DEF Working
<1>13. CASE CheckSignature
  <2>1. CASE <<pull.ref, pull.manifest>> \in Accepted
    <3>1. /\ pull' \in PullType /\ pull'.pc = "meta" /\ pull'.tasks = pull.tasks
          /\ pull'.ref = pull.ref /\ pull'.manifest = pull.manifest
      BY <1>13, <2>1, <1>0, AtKeeps DEF CheckSignature, Points
    <3>2. TypeOK'
      BY <1>13, <1>0, <3>1 DEF CheckSignature, TypeOK, PullType
    <3>3. up' /\ pull.tasks # <<>> /\ pull.ref \in Refs /\ pull.manifest \in Manifests
      BY <1>13 DEF CheckSignature, TypeInv, TaskInv, Working
    <3>4. \A i \in Slots : lay'[i].st = "waiting"
      BY <1>13, NoFutures DEF CheckSignature
    <3> QED BY <2>1, <3>1, <3>2, <3>3, <3>4 DEF TypeInv, TaskInv
  <2>2. CASE <<pull.ref, pull.manifest>> \notin Accepted
    BY <1>13, <2>2, <1>0, TypeFails DEF CheckSignature, Working
  <2> QED BY <2>1, <2>2
<1>14. CASE CreateImageMeta
  <2> DEFINE pairs == Len(DiffIdsOf[ConfigOf[pull.manifest]]) = Len(LayersOf[pull.manifest])
  <2>1. CASE pairs
    <3>1. /\ pull' \in PullType /\ pull'.pc = "layers" /\ pull'.tasks = pull.tasks
          /\ pull'.ref = pull.ref /\ pull'.manifest = pull.manifest
      BY <1>14, <2>1, <1>0, AtKeeps DEF CreateImageMeta, Points
    <3>2. TypeOK'
      BY <1>14, <1>0, <3>1 DEF CreateImageMeta, TypeOK, PullType
    <3>3. /\ up' /\ pull.tasks # <<>> /\ pull.ref \in Refs /\ pull.manifest \in Manifests
          /\ Todo \subseteq Slots /\ <<pull.ref, pull.manifest>> \in Accepted
      BY <1>14 DEF CreateImageMeta, TypeInv, TaskInv, Working, Judged
    <3>4. Todo' = Todo
      BY <3>1 DEF Todo
    <3>5. \A i \in Slots : lay'[i].st = "waiting"
      BY <1>14, NoFutures DEF CreateImageMeta
    <3> QED BY <2>1, <3>1, <3>2, <3>3, <3>4, <3>5 DEF TypeInv, TaskInv
  <2>2. CASE ~pairs
    BY <1>14, <2>2, <1>0, TypeFails DEF CreateImageMeta, Working
  <2> QED BY <2>1, <2>2
<1>15. ASSUME NEW i \in Slots, RequestBlob(i) PROVE TypeInv'
  <2>1. lay' \in [Slots -> LayerType] /\ \A j \in Slots \ {i} : lay'[j] = lay[j]
    BY <1>15, <1>0, LayMoves DEF RequestBlob, LayerPoints
  <2>2. pull.pc = "layers" /\ i \in Todo
    BY <1>15 DEF RequestBlob, InLayers
  <2> QED BY <1>15, <1>0, <2>1, <2>2, TypeFuture DEF RequestBlob
<1>16. ASSUME NEW i \in Slots, BlobAnswers(i) PROVE TypeInv'
  <2>0. pull.pc = "layers" /\ i \in Todo
    BY <1>16, <1>28 DEF BlobAnswers, InLayers
  <2>1. CASE \E m \in layers : /\ m.digest = Blob(i)
                               /\ lay' = [lay EXCEPT ![i] = [st |-> "done", path |-> m.path]]
                               /\ UNCHANGED store
    <3>1. PICK m \in layers : lay' = [lay EXCEPT ![i] = [st |-> "done", path |-> m.path]]
      BY <2>1
    <3>2. m.path \in Paths
      BY <1>0 DEF Meta
    <3>3. lay' \in [Slots -> LayerType] /\ \A j \in Slots \ {i} : lay'[j] = lay[j]
      BY <1>0, <3>1, <3>2, LayPlaced DEF LayerPoints
    <3> QED BY <1>16, <1>0, <2>0, <2>1, <3>3, TypeFuture DEF BlobAnswers
  <2>2. CASE NewPath(i)
    <3>1. <<store.root, store.next>> \in Paths
      BY <1>0, <2>2 DEF NewPath, Paths
    <3>2. lay' \in [Slots -> LayerType] /\ \A j \in Slots \ {i} : lay'[j] = lay[j]
      BY <1>0, <2>2, <3>1, LayPlaced DEF NewPath, LayerPoints
    <3>3. store' \in [root : Roots, next : Nat]
      BY <1>0, <2>2 DEF NewPath
    <3> QED BY <1>16, <1>0, <2>0, <3>2, <3>3, TypeFuture DEF BlobAnswers
  <2> QED BY <1>16, <2>1, <2>2 DEF BlobAnswers
<1>17. ASSUME NEW i \in Slots, BlobRefused(i) PROVE TypeInv'
  BY <1>17, <1>0, TypeFails DEF BlobRefused, LayerFails, InLayers, Working
<1>18. ASSUME NEW i \in Slots, Unpack(i) PROVE TypeInv'
  <2>1. lay' \in [Slots -> LayerType] /\ \A j \in Slots \ {i} : lay'[j] = lay[j]
    BY <1>18, <1>0, LayMoves DEF Unpack, LayerPoints
  <2>2. dir' \in [Paths -> Content]
    BY <1>18, <1>0 DEF Unpack, Content
  <2>3. pull.pc = "layers" /\ i \in Todo
    BY <1>18, <1>28 DEF Unpack, InLayers
  <2> QED BY <1>18, <1>0, <2>1, <2>2, <2>3, TypeFuture DEF Unpack
<1>19. ASSUME NEW i \in Slots, UnpackFails(i) PROVE TypeInv'
  <2>1. dir' \in [Paths -> Content]
    BY <1>19, <1>0 DEF UnpackFails, Content
  <2> QED BY <1>19, <1>0, <2>1, TypeFails DEF UnpackFails, LayerFails, InLayers, Working
<1>20. ASSUME NEW i \in Slots, UnpackEnds(i) PROVE TypeInv'
  <2>1. pull.pc = "layers" /\ i \in Todo
    BY <1>20, <1>28 DEF UnpackEnds, InLayers
  <2>2. Blob(i) \in Digests
    BY <2>1, FirstsAreLayers DEF Blob, Todo, TypeInv, TaskInv, Working
  <2>3. dir' \in [Paths -> Content]
    BY <1>20, <1>0, <2>2 DEF UnpackEnds, Content
  <2>4. CASE DiffIdHolds(i)
    <3>1. lay' \in [Slots -> LayerType] /\ \A j \in Slots \ {i} : lay'[j] = lay[j]
      BY <1>20, <1>0, <2>4, LayMoves DEF UnpackEnds, LayerPoints
    <3> QED BY <1>20, <1>0, <2>1, <2>3, <2>4, <3>1, TypeFuture DEF UnpackEnds
  <2>5. CASE ~DiffIdHolds(i)
    BY <1>20, <1>0, <2>1, <2>3, <2>5, TypeFails DEF UnpackEnds, LayerFails, Working
  <2> QED BY <2>4, <2>5
<1>21. CASE LayersPulled
  <2>1. NewImage \in Image /\ MetasOf(NewImage) \subseteq Meta
    BY <1>21, NewImageType DEF LayersPulled
  <2>2. /\ pull' \in PullType /\ pull'.pc = "save" /\ pull'.tasks = pull.tasks
        /\ pull'.ref = pull.ref /\ pull'.manifest = pull.manifest
    BY <1>21, <1>0, AtKeeps DEF LayersPulled, Points
  <2>3. layers' \subseteq Meta /\ images' \subseteq Image
    BY <1>21, <1>0, <2>1 DEF LayersPulled, Extend
  <2>4. mounts' \subseteq [bundle : Nat, image : Image]
    BY <1>21, <1>0, <2>1, MountType DEF LayersPulled
  <2>5. TypeOK'
    BY <1>21, <1>0, <2>2, <2>3, <2>4, WaitingType DEF LayersPulled, TypeOK, PullType
  <2>6. /\ up' /\ pull.tasks # <<>> /\ pull.ref \in Refs /\ pull.manifest \in Manifests
        /\ <<pull.ref, pull.manifest>> \in Accepted
    BY <1>21 DEF LayersPulled, AllDone, InLayers, TypeInv, TaskInv, Working, Judged
  <2>7. \A i \in Slots : lay'[i].st = "waiting"
    BY <1>21, WaitingType DEF LayersPulled
  <2> QED BY <2>2, <2>5, <2>6, <2>7 DEF TypeInv, TaskInv
<1>22. CASE LayersPulledOnly
  <2>1. NewImage \in Image /\ MetasOf(NewImage) \subseteq Meta
    BY <1>22, NewImageType DEF LayersPulledOnly
  <2>2. layers' \subseteq Meta
    BY <1>22, <1>0, <2>1 DEF LayersPulledOnly, Extend
  <2>3. mounts' \subseteq [bundle : Nat, image : Image]
    BY <1>22, <1>0, <2>1, MountType DEF LayersPulledOnly
  <2> QED BY <1>22, <1>0, <2>2, <2>3, TypeFails
          DEF LayersPulledOnly, AllDone, InLayers, Working
<1>23. CASE SaveTruncates
  <2>1. /\ pull' \in PullType /\ pull'.pc = "saving" /\ pull'.tasks = pull.tasks
        /\ pull'.ref = pull.ref /\ pull'.manifest = pull.manifest
    BY <1>23, <1>0, AtKeeps DEF SaveTruncates, Points
  <2>2. TypeOK'
    BY <1>23, <1>0, <2>1 DEF SaveTruncates, TypeOK, PullType, Torn
  <2>3. /\ up' /\ pull.tasks # <<>> /\ pull.ref \in Refs /\ pull.manifest \in Manifests
        /\ <<pull.ref, pull.manifest>> \in Accepted
    BY <1>23 DEF SaveTruncates, TypeInv, TaskInv, Working, Judged
  <2>4. \A i \in Slots : lay'[i].st = "waiting"
    BY <1>23, NoFutures DEF SaveTruncates
  <2> QED BY <2>1, <2>2, <2>3, <2>4 DEF TypeInv, TaskInv
<1>24. CASE SaveEnds
  <2>1. pull' \in PullType /\ pull'.pc = "ok" /\ up
    BY <1>24, <1>0, AtKeeps DEF SaveEnds, Points, TypeInv, TaskInv
  <2>2. metaFile' \in FileType
    BY <1>24, <1>0 DEF SaveEnds, FileType
  <2> QED BY <1>24, <1>0, <2>1, <2>2, TypeRests DEF SaveEnds
<1>25. CASE SaveFails
  BY <1>25, <1>0, TypeFails DEF SaveFails, Working
<1>26. ASSUME NEW i \in Slots, LayerStep(i) PROVE TypeInv'
  BY <1>26, <1>15, <1>16, <1>17, <1>18, <1>19, <1>20 DEF LayerStep
<1>27. CASE PullStep
  BY <1>27, <1>6, <1>7, <1>8, <1>9, <1>11, <1>12, <1>13, <1>14, <1>26, <1>21, <1>22,
     <1>23, <1>24, <1>25 DEF PullStep, Fetch
<1> QED BY <1>1, <1>2, <1>3, <1>4, <1>5, <1>10, <1>27 DEF Next, Ask

-----------------------------------------------------------------------------
(* What the databases answer with was checked, and an answered pull is saved *)

LEMMA AnswerInit == Init => AnswerInv
<1> SUFFICES ASSUME Init PROVE AnswerInv
  OBVIOUS
<1>1. TypeInv
  BY TypeInit
<1>2. Checked
  BY WaitingType DEF Init, Checked
<1>3. Filed /\ AnsweredIsSaved
  BY NoPullType DEF Init, Filed, NoFile, AnsweredIsSaved
<1>4. StoredImagesAreRight
  BY DEF Init, NoFile, StoredImagesAreRight, StoredImagesWereAccepted, StoredLayersAreVouched,
         Stored, StoredLayers
<1> QED BY <1>1, <1>2, <1>3, <1>4 DEF AnswerInv

LEMMA NoneDone ==
  ASSUME TypeInv, lay' = Waiting \/ (lay' = lay /\ pull.pc # "layers")
  PROVE  Checked'
BY NoFutures DEF Checked

\* A step that leaves memory and file alone, and neither enters the image nor answers.
LEMMA AnswerQuiet ==
  ASSUME AnswerInv, TypeInv', Checked', UNCHANGED <<metaFile, up, images, layers, unsaved>>,
         pull.pc \notin {"save", "saving"}, pull'.pc \notin {"save", "saving", "ok"}
  PROVE  AnswerInv'
<1>1. Filed' /\ AnsweredIsSaved'
  BY DEF AnswerInv, Filed, AnsweredIsSaved
<1>2. StoredImagesAreRight'
  BY DEF AnswerInv, StoredImagesAreRight, StoredImagesWereAccepted, StoredLayersAreVouched,
         Stored, StoredLayers
<1> QED BY <1>1, <1>2 DEF AnswerInv

\* The layers in the databases are vouched for when those of layer_db, the file and
\* the images are.
LEMMA VouchedParts ==
  StoredLayersAreVouched <=> /\ \A m \in layers : Vouched(m.digest)
                             /\ \A m \in metaFile.layers : Vouched(m.digest)
                             /\ \A img \in images : \A m \in MetasOf(img) : Vouched(m.digest)
                             /\ \A img \in metaFile.images : \A m \in MetasOf(img) : Vouched(m.digest)
BY DEF StoredLayersAreVouched, StoredLayers, Stored

LEMMA AcceptedParts ==
  StoredImagesWereAccepted <=>
    \A img \in images \cup metaFile.images :
      <<img.ref, img.manifest>> \in Accepted /\ img.id = ConfigOf[img.manifest]
BY DEF StoredImagesWereAccepted, Stored

\* The image that is recorded is accepted, and its layers are vouched for.
LEMMA NewImageIsRight ==
  ASSUME AnswerInv, AllDone
  PROVE  /\ <<NewImage.ref, NewImage.manifest>> \in Accepted
         /\ NewImage.id = ConfigOf[NewImage.manifest]
         /\ \A m \in MetasOf(NewImage) : Vouched(m.digest)
<1>1. <<pull.ref, pull.manifest>> \in Accepted /\ Todo \subseteq Slots
  BY DEF AnswerInv, TypeInv, TaskInv, AllDone, InLayers, Judged
<1>2. ASSUME NEW k \in Todo PROVE Vouched(Blob(k))
  BY <1>1, <1>2 DEF AnswerInv, Checked, AllDone
<1>3. NewImage.metas = Pulled /\ DOMAIN Pulled = Todo /\ \A k \in Todo : Pulled[k].digest = Blob(k)
  BY DEF NewImage, Pulled
<1>4. ASSUME NEW m \in MetasOf(NewImage) PROVE Vouched(m.digest)
  <2>1. PICK k \in Todo : m = Pulled[k]
    BY <1>3 DEF MetasOf
  <2> QED BY <1>2, <1>3, <2>1
<1> QED BY <1>1, <1>4 DEF NewImage

\* A comparison that succeeds vouches for the blob.
LEMMA ComparedIsVouched ==
  ASSUME TypeInv, pull.pc = "layers", NEW i \in Todo, DiffIdHolds(i)
  PROVE  Vouched(Blob(i))
<1> DEFINE a == <<pull.ref, pull.manifest>>
<1>1. a \in Accepted
  BY DEF TypeInv, TaskInv, Judged
<1>2. a[2] = pull.manifest
  OBVIOUS
<1>3. /\ i \in Firsts(a[2]) /\ LayersOf[a[2]][i] = Blob(i)
      /\ DiffIdsOf[ConfigOf[a[2]]][i] = BlobOf[Blob(i)]
  BY <1>2 DEF Todo, Blob, DiffIdHolds
<1> QED BY <1>1, <1>3 DEF Vouched

LEMMA AnswerNext == AnswerInv /\ [Next]_vars => AnswerInv'
<1> SUFFICES ASSUME AnswerInv, [Next]_vars PROVE AnswerInv'
  OBVIOUS
<1> USE DEF disk, client, history
<1>0. TypeInv /\ TypeInv'
  BY TypeNext DEF AnswerInv
<1>a. /\ pull \in PullType /\ lay \in [Slots -> LayerType] /\ TypeOK
  BY <1>0 DEF TypeInv, TypeOK, PullType
<1>b. /\ Checked /\ Filed /\ AnsweredIsSaved
      /\ StoredImagesWereAccepted /\ StoredLayersAreVouched
  BY DEF AnswerInv, StoredImagesAreRight
<1>c. ASSUME Checked', Filed', StoredImagesWereAccepted', StoredLayersAreVouched', AnsweredIsSaved'
      PROVE  AnswerInv'
  BY <1>0, <1>c DEF AnswerInv, StoredImagesAreRight
<1>d. ASSUME \A img \in images' \cup metaFile'.images :
               <<img.ref, img.manifest>> \in Accepted /\ img.id = ConfigOf[img.manifest]
      PROVE  StoredImagesWereAccepted'
  BY <1>d DEF StoredImagesWereAccepted, Stored
<1>e. ASSUME \A m \in layers' : Vouched(m.digest),
             \A m \in metaFile'.layers : Vouched(m.digest),
             \A img \in images' : \A m \in MetasOf(img) : Vouched(m.digest),
             \A img \in metaFile'.images : \A m \in MetasOf(img) : Vouched(m.digest)
      PROVE  StoredLayersAreVouched'
  BY <1>e DEF StoredLayersAreVouched, StoredLayers, Stored
<1>1. ASSUME UNCHANGED <<metaFile, up, images, layers, unsaved, pull, lay>> PROVE AnswerInv'
  <2>1. Checked' /\ Filed' /\ AnsweredIsSaved'
    BY <1>1, <1>b DEF Checked, Blob, Filed, AnsweredIsSaved
  <2>2. StoredImagesWereAccepted' /\ StoredLayersAreVouched'
    BY <1>1, <1>b DEF StoredImagesWereAccepted, StoredLayersAreVouched, Stored, StoredLayers
  <2> QED BY <1>c, <2>1, <2>2
<1>2. CASE Start
  <2>1. pull.pc = "idle" /\ ~up
    BY <1>2, <1>0 DEF Start, TypeInv, TaskInv
  <2>2. Checked'
    BY <1>2, <1>0, <2>1, NoneDone DEF Start
  <2>3. Filed' /\ AnsweredIsSaved'
    BY <1>2, <1>b, <2>1 DEF Start, Filed, AnsweredIsSaved
  <2>4. StoredImagesWereAccepted'
    BY <1>2, <1>b, AcceptedParts, <1>d DEF Start
  <2>5. StoredLayersAreVouched'
    BY <1>2, <1>b, VouchedParts, <1>e DEF Start
  <2> QED BY <1>c, <2>2, <2>3, <2>4, <2>5
<1>3. CASE Crash
  <2>1. Checked'
    BY <1>3, <1>0, NoneDone DEF Crash
  <2>2. Filed' /\ AnsweredIsSaved'
    BY <1>3, <1>b, NoPullType DEF Crash, Filed, AnsweredIsSaved
  <2>3. StoredImagesWereAccepted' /\ StoredLayersAreVouched'
    BY <1>3, <1>b DEF Crash, StoredImagesWereAccepted, StoredLayersAreVouched, Stored, StoredLayers
  <2> QED BY <1>c, <2>1, <2>2, <2>3
<1>4. ASSUME NEW u \in Urls, Request(u) PROVE AnswerInv'
  BY <1>4, <1>0, NoneDone, AnswerQuiet DEF Request
<1>5. CASE NoTaskLeft
  BY <1>5, <1>0, <1>a, AtKeeps, NoneDone, AnswerQuiet DEF NoTaskLeft, Points
<1>6. ASSUME NEW m \in Manifests, PullManifest(m) PROVE AnswerInv'
  <2>1. pull'.pc = "known"
    BY <1>6, <1>a DEF PullManifest, PullType
  <2> QED BY <1>6, <1>0, <2>1, NoneDone, AnswerQuiet DEF PullManifest
<1>7. CASE ManifestFails
  BY <1>7, <1>0, <1>a, FailedKeeps, NoneDone, AnswerQuiet DEF ManifestFails
<1>8. CASE Reply
  BY <1>8, <1>0, NoPullType, NoneDone, AnswerQuiet DEF Reply
<1>9. CASE Cancel
  BY <1>9, <1>0, NoPullType, NoneDone, AnswerQuiet DEF Cancel
<1>10. CASE Populated
  <2>1. pull.pc = "known" /\ pull'.pc = "ok" /\ pull'.manifest = pull.manifest
    BY <1>10, <1>a, AtKeeps DEF Populated, Points
  <2>2. Checked'
    BY <1>10, <1>0, <2>1, NoneDone DEF Populated
  <2>3. Filed'
    BY <1>10, <1>b, <2>1 DEF Populated, Filed
  <2>4. \E img \in images : img.id = ConfigOf[pull.manifest]
    BY <1>10 DEF Populated, Known
  <2>5. up
    BY <1>0, <2>1 DEF TypeInv, TaskInv
  <2>6. AnsweredIsSaved'
    <3>1. metaFile.state = "full" \/ metaFile.images = {}
      BY <1>b DEF Filed
    <3>2. unsaved \/ images = metaFile.images
      BY <1>b, <2>1, <2>5 DEF Filed
    <3> QED BY <1>10, <2>1, <2>4, <3>1, <3>2 DEF Populated, AnsweredIsSaved
  <2>7. StoredImagesWereAccepted' /\ StoredLayersAreVouched'
    BY <1>10, <1>b DEF Populated, StoredImagesWereAccepted, StoredLayersAreVouched, Stored, StoredLayers
  <2> QED BY <1>c, <2>2, <2>3, <2>6, <2>7
<1>11. CASE PopulatedFails
  <2>1. pull.pc = "known" /\ pull' = Failed(pull) /\ UNCHANGED <<metaFile, client, lay, history>>
    BY <1>11 DEF PopulatedFails, BundleFails
  <2>2. pull'.pc = "task"
    BY <1>0, <1>a, <2>1, FailedKeeps DEF TypeInv, TaskInv, Working
  <2> QED BY <1>0, <2>1, <2>2, NoneDone, AnswerQuiet
<1>12. CASE CheckSignature
  <2>1. pull'.pc \in {"meta", "task"}
    BY <1>12, <1>0, <1>a, AtKeeps, FailedKeeps DEF CheckSignature, Points, TypeInv, TaskInv, Working
  <2> QED BY <1>12, <1>0, <2>1, NoneDone, AnswerQuiet DEF CheckSignature
<1>13. CASE CreateImageMeta
  <2>1. pull'.pc \in {"layers", "task"}
    BY <1>13, <1>0, <1>a, AtKeeps, FailedKeeps DEF CreateImageMeta, Points, TypeInv, TaskInv, Working
  <2> QED BY <1>13, <1>0, <2>1, NoneDone, AnswerQuiet DEF CreateImageMeta
\* A step of one future, which may have come to its end.
<1>14. ASSUME NEW i \in Slots, UNCHANGED <<metaFile, up, images, layers, unsaved, pull>>,
              pull.pc = "layers", \A j \in Slots \ {i} : lay'[j] = lay[j],
              lay'[i].st = "done" => Vouched(Blob(i))
       PROVE  AnswerInv'
  <2>1. Checked'
    BY <1>14, <1>b DEF Checked, Blob
  <2> QED BY <1>14, <1>0, <2>1, AnswerQuiet
<1>15. ASSUME NEW i \in Slots, RequestBlob(i) PROVE AnswerInv'
  BY <1>15, <1>a, <1>14, LayMoves DEF RequestBlob, LayerPoints, InLayers
<1>16. ASSUME NEW i \in Slots, BlobAnswers(i) PROVE AnswerInv'
  <2>1. pull.pc = "layers" /\ UNCHANGED <<metaFile, up, images, layers, unsaved, pull>>
    BY <1>16 DEF BlobAnswers, InLayers
  <2>2. CASE NewPath(i)
    <3>1. <<store.root, store.next>> \in Paths
      BY <1>a, <2>2 DEF NewPath, Paths, TypeOK
    <3> QED BY <1>a, <2>1, <2>2, <3>1, <1>14, LayPlaced DEF NewPath, LayerPoints
  <2>3. CASE \E m \in layers : /\ m.digest = Blob(i)
                               /\ lay' = [lay EXCEPT ![i] = [st |-> "done", path |-> m.path]]
    <3>1. PICK m \in layers : /\ m.digest = Blob(i)
                              /\ lay' = [lay EXCEPT ![i] = [st |-> "done", path |-> m.path]]
      BY <2>3
    <3>2. m.path \in Paths
      BY <1>a DEF Meta, TypeOK
    <3>3. Vouched(Blob(i))
      BY <1>b, <3>1, VouchedParts
    <3> QED BY <1>a, <2>1, <3>1, <3>2, <3>3, <1>14, LayPlaced DEF LayerPoints
  <2> QED BY <1>16, <2>2, <2>3 DEF BlobAnswers
<1>17. ASSUME UNCHANGED <<metaFile, up, images, layers, unsaved>>, pull.pc = "layers", LayerFails
       PROVE  AnswerInv'
  <2>1. pull'.pc = "task" /\ lay' = Waiting
    BY <1>17, <1>0, <1>a, FailedKeeps DEF LayerFails, TypeInv, TaskInv, Working
  <2> QED BY <1>17, <1>0, <2>1, NoneDone, AnswerQuiet
<1>18. ASSUME NEW i \in Slots, BlobRefused(i) PROVE AnswerInv'
  BY <1>18, <1>17 DEF BlobRefused, InLayers, LayerFails
<1>19. ASSUME NEW i \in Slots, Unpack(i) PROVE AnswerInv'
  BY <1>19, <1>a, <1>14, LayMoves DEF Unpack, LayerPoints, InLayers
<1>20. ASSUME NEW i \in Slots, UnpackFails(i) PROVE AnswerInv'
  BY <1>20, <1>17 DEF UnpackFails, InLayers, LayerFails
<1>21. ASSUME NEW i \in Slots, UnpackEnds(i) PROVE AnswerInv'
  <2>1. pull.pc = "layers" /\ i \in Todo
    BY <1>21, <1>0 DEF UnpackEnds, InLayers, TypeInv, TaskInv
  <2>2. CASE DiffIdHolds(i)
    <3>1. Vouched(Blob(i))
      BY <1>0, <2>1, <2>2, ComparedIsVouched
    <3> QED BY <1>21, <1>a, <2>1, <2>2, <3>1, <1>14, LayMoves DEF UnpackEnds, LayerPoints
  <2>3. CASE ~DiffIdHolds(i)
    BY <1>21, <1>17, <2>1, <2>3 DEF UnpackEnds, LayerFails
  <2> QED BY <2>2, <2>3
\* The layers enter layer_db.
<1>22. ASSUME AllDone, layers' = Extend(layers, MetasOf(NewImage))
       PROVE  \A m \in layers' : Vouched(m.digest)
  BY <1>22, <1>b, NewImageIsRight, VouchedParts DEF Extend
<1>23. CASE LayersPulled
  <2>1. AllDone /\ UNCHANGED <<metaFile, unsaved>>
    BY <1>23 DEF LayersPulled
  <2>2. pull'.pc = "save" /\ pull'.manifest = pull.manifest
    BY <1>23, <1>a, AtKeeps DEF LayersPulled, Points
  <2>3. Checked'
    BY <1>23, <1>0, NoneDone DEF LayersPulled
  <2>4. Filed' /\ AnsweredIsSaved'
    BY <1>23, <1>b, <2>2 DEF LayersPulled, Filed, AnsweredIsSaved, NewImage
  <2>5. StoredImagesWereAccepted'
    BY <1>23, <1>b, <2>1, NewImageIsRight, AcceptedParts, <1>d DEF LayersPulled
  <2>6. StoredLayersAreVouched'
    BY <1>23, <1>b, <2>1, <1>22, NewImageIsRight, VouchedParts, <1>e DEF LayersPulled
  <2> QED BY <1>c, <2>3, <2>4, <2>5, <2>6
<1>24. CASE LayersPulledOnly
  <2>1. AllDone /\ UNCHANGED <<metaFile, up, images, unsaved>> /\ pull.pc = "layers"
    BY <1>24 DEF LayersPulledOnly, AllDone, InLayers
  <2>2. pull'.pc = "task"
    BY <1>24, <1>0, <1>a, <2>1, FailedKeeps DEF LayersPulledOnly, TypeInv, TaskInv, Working
  <2>3. Checked'
    BY <1>24, <1>0, NoneDone DEF LayersPulledOnly
  <2>4. Filed' /\ AnsweredIsSaved'
    BY <1>b, <2>1, <2>2 DEF Filed, AnsweredIsSaved
  <2>5. StoredImagesWereAccepted'
    BY <1>b, <2>1, AcceptedParts, <1>d
  <2>6. StoredLayersAreVouched'
    BY <1>24, <1>b, <2>1, <1>22, VouchedParts, <1>e DEF LayersPulledOnly
  <2> QED BY <1>c, <2>3, <2>4, <2>5, <2>6
<1>25. CASE SaveTruncates
  <2>1. pull.pc = "save" /\ pull'.pc = "saving" /\ pull'.manifest = pull.manifest
    BY <1>25, <1>a, AtKeeps DEF SaveTruncates, Points
  <2>2. Checked'
    BY <1>25, <1>0, NoneDone DEF SaveTruncates
  <2>3. Filed' /\ AnsweredIsSaved'
    BY <1>25, <1>b, <2>1 DEF SaveTruncates, Filed, AnsweredIsSaved, Torn
  <2>4. StoredImagesWereAccepted' /\ StoredLayersAreVouched'
    BY <1>25, <1>b DEF SaveTruncates, Torn, StoredImagesWereAccepted, StoredLayersAreVouched,
                       Stored, StoredLayers
  <2> QED BY <1>c, <2>2, <2>3, <2>4
<1>26. CASE SaveEnds
  <2>1. pull.pc = "saving" /\ pull'.pc = "ok" /\ pull'.manifest = pull.manifest
    BY <1>26, <1>a, AtKeeps DEF SaveEnds, Points
  <2>2. Checked'
    BY <1>26, <1>0, <2>1, NoneDone DEF SaveEnds
  <2>3. Filed' /\ AnsweredIsSaved'
    BY <1>26, <1>b, <2>1 DEF SaveEnds, Filed, AnsweredIsSaved
  <2>4. StoredImagesWereAccepted'
    BY <1>26, <1>b, AcceptedParts, <1>d DEF SaveEnds
  <2>5. StoredLayersAreVouched'
    BY <1>26, <1>b, VouchedParts, <1>e DEF SaveEnds
  <2> QED BY <1>c, <2>2, <2>3, <2>4, <2>5
<1>27. CASE SaveFails
  <2>1. pull.pc \in {"save", "saving"} /\ pull'.pc = "task"
    BY <1>27, <1>0, <1>a, FailedKeeps DEF SaveFails, TypeInv, TaskInv, Working
  <2>2. Checked'
    BY <1>27, <1>0, <2>1, NoneDone DEF SaveFails
  <2>3. Filed' /\ AnsweredIsSaved'
    BY <1>27, <1>b, <2>1 DEF SaveFails, Filed, AnsweredIsSaved
  <2>4. StoredImagesWereAccepted' /\ StoredLayersAreVouched'
    BY <1>27, <1>b DEF SaveFails, StoredImagesWereAccepted, StoredLayersAreVouched, Stored, StoredLayers
  <2> QED BY <1>c, <2>2, <2>3, <2>4
<1>28. CASE UNCHANGED vars
  BY <1>28, <1>1 DEF vars
<1>29. CASE StrayEntry
  BY <1>29, <1>1 DEF StrayEntry
<1>30. ASSUME NEW i \in Slots, LayerStep(i) PROVE AnswerInv'
  BY <1>30, <1>15, <1>16, <1>18, <1>19, <1>20, <1>21 DEF LayerStep
<1>31. CASE PullStep
  BY <1>31, <1>5, <1>6, <1>7, <1>8, <1>10, <1>11, <1>12, <1>13, <1>30, <1>23, <1>24, <1>25,
     <1>26, <1>27 DEF PullStep, Fetch
<1> QED BY <1>2, <1>3, <1>4, <1>9, <1>28, <1>29, <1>31 DEF Next, Ask

\* The type invariant of the client and its disk holds, under every fault.
THEOREM PullTyped == Spec => []TypeOK
<1>1. TypeInv /\ [Next]_vars => TypeInv'
  BY TypeNext
<1>2. TypeInv => TypeOK
  BY DEF TypeInv
<1> QED BY TypeInit, <1>1, <1>2, PTL DEF Spec

\* What image_db and layer_db answer with, in memory or read back from the file, has
\* passed the policy and a comparison with the diff ids of an accepted image, under
\* every fault and for either way to build the client.
THEOREM AnswersAreRight == Spec => []StoredImagesAreRight
<1>1. AnswerInv => StoredImagesAreRight
  BY DEF AnswerInv
<1> QED BY AnswerInit, AnswerNext, <1>1, PTL DEF Spec

\* A pull that pull_image answers with success is in meta_store.json, unless a save
\* has failed and none has succeeded since.
THEOREM AnswersAreKept == Spec => []AnsweredIsSaved
<1>1. AnswerInv => AnsweredIsSaved
  BY DEF AnswerInv
<1> QED BY AnswerInit, AnswerNext, <1>1, PTL DEF Spec

-----------------------------------------------------------------------------
(* Directories are never shared, and what is stored or mounted is whole *)

LEMMA DiskInit == Init => DiskInv
<1> SUFFICES ASSUME Init PROVE DiskInv
  OBVIOUS
<1>1. AnswerInv
  BY AnswerInit
<1>2. IndexInv /\ FutureInv
  BY WaitingType DEF Init, IndexInv, FutureInv
<1>3. StoredInv /\ DatabasesAreTrue /\ MountsHoldTheirImage
  BY DEF Init, NoFile, StoredInv, Stored, KeyedByDigest, DatabasesAreTrue, StoredLayersAreWhole,
         StoredLayers, ImagesKnowTheirLayers, MountsHoldTheirImage
<1> QED BY <1>1, <1>2, <1>3 DEF DiskInv

\* What the databases, memory and file, have to be for the invariant.
StoreIsSound(im, la) ==
  /\ KeyedByDigest(la)
  /\ \A m \in la : dir[m.path] = m.digest
  /\ \A img \in im : InOrder(img) /\ MetasOf(img) \subseteq la

LEMMA StoresAreSound ==
  StoredInv /\ DatabasesAreTrue <=>
    StoreIsSound(images, layers) /\ StoreIsSound(metaFile.images, metaFile.layers)
BY DEF StoredInv, DatabasesAreTrue, StoreIsSound, StoredLayersAreWhole, StoredLayers, Stored,
       ImagesKnowTheirLayers

\* A directory that nobody relies on changes.
LEMMA OthersStayWhole ==
  ASSUME TypeOK, NEW p \in Paths, dir[p] \in {"absent", "partial"}, NEW c,
         dir' = [dir EXCEPT ![p] = c], NEW q \in Paths, dir[q] \in Digests
  PROVE  dir'[q] = dir[q]
<1>1. dir[p] \notin Digests
  BY ImagePullAssumption DEF ImagePullAssumption
<1> QED BY <1>1 DEF TypeOK

LEMMA DatabasesStay ==
  ASSUME DiskInv,
         \/ UNCHANGED dir
         \/ \E p \in Paths, c \in Content :
              dir[p] \in {"absent", "partial"} /\ dir' = [dir EXCEPT ![p] = c],
         UNCHANGED <<metaFile, images, layers>>
  PROVE  StoredInv' /\ DatabasesAreTrue'
<1>1. /\ StoreIsSound(images, layers) /\ StoreIsSound(metaFile.images, metaFile.layers)
      /\ layers \subseteq Meta /\ metaFile.layers \subseteq Meta /\ TypeOK
  BY StoresAreSound DEF DiskInv, AnswerInv, TypeInv, TypeOK
<1>2. ASSUME NEW m \in Meta, dir[m.path] = m.digest PROVE dir'[m.path] = m.digest
  <2>1. m.path \in Paths /\ m.digest \in Digests
    BY DEF Meta
  <2> QED BY <1>1, <1>2, <2>1, OthersStayWhole
<1>3. StoredInv'
  BY DEF DiskInv, StoredInv, Stored
<1>4. \A m \in layers \cup metaFile.layers : dir'[m.path] = m.digest
  BY <1>1, <1>2 DEF StoreIsSound
<1>5. StoredLayers' = StoredLayers /\ StoredLayers \subseteq layers \cup metaFile.layers
  BY <1>1 DEF StoredLayers, Stored, StoreIsSound
<1>6. StoredLayersAreWhole'
  BY <1>4, <1>5 DEF StoredLayersAreWhole
<1>7. ImagesKnowTheirLayers'
  BY DEF DiskInv, DatabasesAreTrue, ImagesKnowTheirLayers
<1> QED BY <1>3, <1>6, <1>7 DEF DatabasesAreTrue

LEMMA MountsStay ==
  ASSUME DiskInv,
         \/ UNCHANGED dir
         \/ \E p \in Paths, c \in Content :
              dir[p] \in {"absent", "partial"} /\ dir' = [dir EXCEPT ![p] = c],
         UNCHANGED mounts
  PROVE  MountsHoldTheirImage'
<1>1. MountsHoldTheirImage /\ TypeOK
  BY DEF DiskInv, AnswerInv, TypeInv
<1> SUFFICES ASSUME NEW mt \in mounts, NEW k \in DOMAIN mt.image.metas
             PROVE  dir'[mt.image.metas[k].path] = LayersOf[mt.image.manifest][k]
  BY <1>1 DEF MountsHoldTheirImage
<1>2. mt.image \in Image
  BY <1>1 DEF TypeOK
<1>3. mt.image.manifest \in Manifests /\ mt.image.metas[k].path \in Paths
  <2>1. mt.image.metas \in UNION {[S -> Meta] : S \in SUBSET Slots}
    BY <1>2 DEF Image
  <2>2. mt.image.metas[k] \in Meta
    BY <2>1
  <2> QED BY <1>2, <2>2 DEF Image, Meta
<1>4. LayersOf[mt.image.manifest][k] \in Digests
  BY <1>1, <1>3, FirstsAreLayers DEF MountsHoldTheirImage
<1>5. dir[mt.image.metas[k].path] = LayersOf[mt.image.manifest][k]
  BY <1>1 DEF MountsHoldTheirImage
<1> QED BY <1>1, <1>3, <1>4, <1>5, OthersStayWhole

\* An image is mounted whose layers are whole and in order.
LEMMA MountIsSound ==
  ASSUME MountsHoldTheirImage, NEW img \in Image, InOrder(img),
         \A m \in MetasOf(img) : dir[m.path] = m.digest,
         Mount(img) \/ UNCHANGED mounts, UNCHANGED dir
  PROVE  MountsHoldTheirImage'
<1>1. ASSUME NEW k \in DOMAIN img.metas
      PROVE  dir[img.metas[k].path] = LayersOf[img.manifest][k]
  BY DEF InOrder, MetasOf
<1> QED BY <1>1 DEF MountsHoldTheirImage, Mount, InOrder

\* No future runs.
LEMMA FuturesRest ==
  ASSUME TypeInv, lay' = Waiting \/ (lay' = lay /\ pull.pc # "layers")
  PROVE  FutureInv'
BY NoFutures DEF FutureInv

\* A step of the pull that changes neither disk nor memory, no future running after it.
LEMMA DiskQuiet ==
  ASSUME DiskInv, AnswerInv', UNCHANGED <<dir, stray, metaFile, mounts, client>>,
         lay' = Waiting \/ (lay' = lay /\ pull.pc # "layers")
  PROVE  DiskInv'
<1>1. FutureInv'
  BY FuturesRest DEF DiskInv, AnswerInv
<1>2. IndexInv'
  BY DEF DiskInv, IndexInv, client
<1> QED BY <1>1, <1>2, DatabasesStay, MountsStay DEF DiskInv, client

\* The pull is over, and what a future was working on may have changed or gone.
LEMMA DiskDropped ==
  ASSUME DiskInv, AnswerInv', UNCHANGED <<stray, metaFile, mounts, client>>, lay' = Waiting,
         NEW i \in Slots, lay[i].st = "unpacking",
         UNCHANGED dir \/ \E c \in Content : dir' = [dir EXCEPT ![lay[i].path] = c]
  PROVE  DiskInv'
<1>1. /\ \E n \in Indices : n < store.next /\ lay[i].path = <<"layers", n>>
      /\ dir[lay[i].path] \in {"absent", "partial"} /\ lay[i].path \in Paths
  BY DEF DiskInv, FutureInv, AnswerInv, TypeInv, TypeOK, LayerType
<1>2. FutureInv'
  BY FuturesRest DEF DiskInv, AnswerInv
<1>3. IndexInv'
  <2>1. ASSUME NEW n \in Indices, n >= store.next PROVE dir'[<<"layers", n>>] = dir[<<"layers", n>>]
    <3>1. lay[i].path # <<"layers", n>>
      BY <1>1, <2>1, ImagePullAssumption
         DEF Indices, ImagePullAssumption, DiskInv, AnswerInv, TypeInv, TypeOK
    <3>2. <<"layers", n>> \in Paths
      BY DEF Paths, Roots
    <3> QED BY <3>1, <3>2 DEF DiskInv, AnswerInv, TypeInv, TypeOK
  <2> QED BY <2>1 DEF DiskInv, IndexInv, client
<1> QED BY <1>1, <1>2, <1>3, DatabasesStay, MountsStay DEF DiskInv, client

\* The layers that have been pulled: whole, in order, and no others than those
\* layer_db had of the same digests.
LEMMA PulledIsSound ==
  ASSUME DiskInv, AllDone
  PROVE  /\ InOrder(NewImage)
         /\ \A m \in MetasOf(NewImage) : dir[m.path] = m.digest
         /\ layers \subseteq Extend(layers, MetasOf(NewImage))
         /\ KeyedByDigest(Extend(layers, MetasOf(NewImage)))
         /\ MetasOf(NewImage) \subseteq Meta /\ NewImage \in Image
<1> DEFINE new == MetasOf(NewImage)
<1>1. /\ TypeInv /\ FutureInv /\ layers \subseteq Meta /\ KeyedByDigest(layers)
      /\ Todo \subseteq Slots /\ pull.manifest \in Manifests /\ \A k \in Todo : lay[k].st = "done"
  BY DEF DiskInv, AnswerInv, TypeInv, TypeOK, StoredInv, TaskInv, AllDone, InLayers, Working
<1>2. new \subseteq Meta /\ NewImage \in Image
  BY <1>1, NewImageType
<1>3. /\ NewImage.manifest = pull.manifest /\ NewImage.metas = Pulled /\ DOMAIN Pulled = Todo
      /\ \A k \in Todo : Pulled[k].digest = Blob(k) /\ Pulled[k].path = lay[k].path
  BY DEF NewImage, Pulled
<1>4. InOrder(NewImage)
  BY <1>3 DEF InOrder, Blob, Todo
<1>5. ASSUME NEW m \in new
      PROVE  \E k \in Todo : m = Pulled[k]
  BY <1>3 DEF MetasOf
<1>6. \A m \in new : dir[m.path] = m.digest
  BY <1>1, <1>3, <1>5 DEF FutureInv
<1>7. ASSUME NEW m \in layers, NEW n \in new, m.digest = n.digest PROVE m = n
  <2>1. PICK k \in Todo : n = Pulled[k]
    BY <1>5
  <2>2. m.path = n.path
    BY <1>1, <1>3, <1>7, <2>1 DEF FutureInv
  <2> QED BY <1>1, <1>2, <1>7, <2>2 DEF Meta
<1>8. ASSUME NEW m \in new, NEW n \in new, m.digest = n.digest PROVE m = n
  <2>1. PICK k \in Todo, j \in Todo : m = Pulled[k] /\ n = Pulled[j]
    BY <1>5
  <2>2. k = j
    BY <1>1, <1>3, <1>8, <2>1, FirstsDiffer DEF Blob, Todo
  <2> QED BY <2>1, <2>2
<1>9. Extend(layers, new) = layers \cup new
  BY <1>7 DEF Extend
<1>10. KeyedByDigest(layers \cup new)
  BY <1>1, <1>7, <1>8 DEF KeyedByDigest
<1> QED BY <1>2, <1>4, <1>6, <1>9, <1>10

\* A step of one future that stays in the pull: what it does to its own place.
LEMMA FutureSteps ==
  ASSUME DiskInv, AnswerInv', NEW i \in Slots, UNCHANGED <<layers, pull>>,
         \A j \in Slots \ {i} : lay'[j] = lay[j],
         \A j \in Slots \ {i} :
           /\ lay[j].st \in {"opened", "unpacking", "done"} => dir'[lay[j].path] = dir[lay[j].path]
           /\ lay[j].st \in {"opened", "unpacking"} /\ lay'[i].st \in {"opened", "unpacking"}
                => lay[j].path # lay'[i].path,
         store.next <= store'.next,
         lay'[i].st \in {"opened", "unpacking"} =>
           /\ \E n \in Indices : n < store'.next /\ lay'[i].path = <<"layers", n>>
           /\ dir'[lay'[i].path] \in {"absent", "partial"}
           /\ \A m \in layers : m.digest # Blob(i),
         lay'[i].st = "opened" => dir'[lay'[i].path] = "absent",
         lay'[i].st = "done" => /\ dir'[lay'[i].path] = Blob(i)
                                /\ \A m \in layers : m.digest = Blob(i) => m.path = lay'[i].path
  PROVE  FutureInv'
<1>1. FutureInv /\ store.next \in Nat /\ store'.next \in Nat
  BY DEF DiskInv, AnswerInv, TypeInv, TypeOK
<1>2. \A j \in Slots : Blob(j)' = Blob(j)
  BY DEF Blob
<1>3. ASSUME NEW n \in Indices, n < store.next PROVE n < store'.next
  BY <1>1, <1>3, ImagePullAssumption DEF Indices, ImagePullAssumption
<1>4. ASSUME NEW j \in Slots, j # i
      PROVE  /\ lay'[j].st \in {"opened", "unpacking"} =>
                  /\ \E n \in Indices : n < store'.next /\ lay'[j].path = <<"layers", n>>
                  /\ dir'[lay'[j].path] \in {"absent", "partial"}
                  /\ \A k \in Slots \ {j} :
                       lay'[k].st \in {"opened", "unpacking"} => lay'[k].path # lay'[j].path
                  /\ \A m \in layers' : m.digest # Blob(j)'
             /\ lay'[j].st = "opened" => dir'[lay'[j].path] = "absent"
             /\ lay'[j].st = "done" =>
                  /\ dir'[lay'[j].path] = Blob(j)'
                  /\ \A m \in layers' : m.digest = Blob(j)' => m.path = lay'[j].path
  <2>1. lay'[j] = lay[j] /\ layers' = layers /\ Blob(j)' = Blob(j)
    BY <1>2, <1>4
  <2>2. ASSUME lay[j].st \in {"opened", "unpacking"}
        PROVE  /\ \E n \in Indices : n < store'.next /\ lay[j].path = <<"layers", n>>
               /\ dir'[lay[j].path] \in {"absent", "partial"}
               /\ \A m \in layers : m.digest # Blob(j)
    <3>1. PICK n \in Indices : n < store.next /\ lay[j].path = <<"layers", n>>
      BY <1>1, <2>2 DEF FutureInv
    <3>2. n < store'.next
      BY <1>3, <3>1
    <3> QED BY <1>1, <1>4, <2>2, <3>1, <3>2 DEF FutureInv
  <2>3. ASSUME lay[j].st \in {"opened", "unpacking"}, NEW k \in Slots \ {j},
               lay'[k].st \in {"opened", "unpacking"}
        PROVE  lay'[k].path # lay[j].path
    <3>1. CASE k = i
      BY <1>4, <2>3, <3>1
    <3>2. CASE k # i
      BY <1>1, <2>3, <3>2 DEF FutureInv
    <3> QED BY <3>1, <3>2
  <2>4. lay[j].st = "opened" => dir'[lay[j].path] = "absent"
    BY <1>1, <1>4 DEF FutureInv
  <2>5. lay[j].st = "done" => /\ dir'[lay[j].path] = Blob(j)
                              /\ \A m \in layers : m.digest = Blob(j) => m.path = lay[j].path
    BY <1>1, <1>4 DEF FutureInv
  <2> QED BY <2>1, <2>2, <2>3, <2>4, <2>5
<1>5. /\ lay'[i].st \in {"opened", "unpacking"} =>
           /\ \E n \in Indices : n < store'.next /\ lay'[i].path = <<"layers", n>>
           /\ dir'[lay'[i].path] \in {"absent", "partial"}
           /\ \A k \in Slots \ {i} :
                lay'[k].st \in {"opened", "unpacking"} => lay'[k].path # lay'[i].path
           /\ \A m \in layers' : m.digest # Blob(i)'
      /\ lay'[i].st = "opened" => dir'[lay'[i].path] = "absent"
      /\ lay'[i].st = "done" =>
           /\ dir'[lay'[i].path] = Blob(i)'
           /\ \A m \in layers' : m.digest = Blob(i)' => m.path = lay'[i].path
  BY <1>2
<1> QED BY <1>4, <1>5 DEF FutureInv

LEMMA DiskNext == Indexed /\ DiskInv /\ [Next]_vars => DiskInv'
<1> SUFFICES ASSUME Indexed, DiskInv, [Next]_vars PROVE DiskInv'
  OBVIOUS
<1> USE DEF disk, client, history
<1>0. AnswerInv /\ AnswerInv' /\ TypeInv /\ TypeOK /\ TaskInv
  BY AnswerNext DEF DiskInv, AnswerInv, TypeInv
<1>a. /\ IndexInv /\ FutureInv /\ StoredInv /\ DatabasesAreTrue /\ MountsHoldTheirImage
      /\ StoreIsSound(images, layers) /\ StoreIsSound(metaFile.images, metaFile.layers)
  BY StoresAreSound DEF DiskInv
<1>b. ASSUME StoreIsSound(images', layers')
             /\ StoreIsSound(metaFile'.images, metaFile'.layers), UNCHANGED dir
      PROVE  StoredInv' /\ DatabasesAreTrue'
  BY <1>b DEF StoredInv, DatabasesAreTrue, StoreIsSound, StoredLayersAreWhole, StoredLayers,
              Stored, ImagesKnowTheirLayers
<1>1. CASE UNCHANGED vars \/ StrayEntry
  <2>1. UNCHANGED <<dir, metaFile, mounts, up, images, layers, store, pull, lay>>
    BY <1>1 DEF vars, StrayEntry
  <2>2. IndexInv'
    BY <1>1, <1>a DEF vars, StrayEntry, IndexInv
  <2>3. FutureInv'
    BY <1>a, <2>1 DEF FutureInv, Blob
  <2> QED BY <1>0, <2>1, <2>2, <2>3, DatabasesStay, MountsStay DEF DiskInv
<1>2. CASE Start
  <2>1. UNCHANGED <<dir, mounts, stray, metaFile, lay>> /\ pull.pc # "layers"
    BY <1>2, <1>0 DEF Start, TaskInv
  <2>2. FutureInv'
    BY <1>0, <2>1, FuturesRest
  <2>3. ~stray
    BY <1>2, <1>a DEF Start, LayerStoreNew, Indexed, IndexInv
  <2>4. IndexInv'
    <3>1. PICK n \in 0 .. MaxIndex + 1 : NextIndex(n) /\ store' = [root |-> "layers", next |-> n]
      BY <1>2, <2>3 DEF Start, LayerStoreNew
    <3>2. ASSUME NEW k \in Indices, k >= n PROVE dir[<<"layers", k>>] = "absent"
      <4>1. ~(k < n)
        BY <3>2, ImagePullAssumption DEF Indices, ImagePullAssumption
      <4> QED BY <3>1, <4>1 DEF NextIndex
    <3> QED BY <1>a, <2>1, <3>1, <3>2 DEF IndexInv
  <2>5. StoredInv' /\ DatabasesAreTrue'
    BY <1>2, <1>a, <1>b DEF Start
  <2> QED BY <1>0, <2>1, <2>2, <2>4, <2>5, MountsStay DEF DiskInv
<1>3. CASE Crash
  <2>1. UNCHANGED <<dir, mounts, stray, metaFile>> /\ up' = FALSE /\ lay' = Waiting
    BY <1>3 DEF Crash
  <2>2. FutureInv' /\ IndexInv'
    BY <1>0, <1>a, <2>1, FuturesRest DEF IndexInv
  <2>3. StoreIsSound({}, {})
    BY DEF StoreIsSound, KeyedByDigest
  <2>4. StoredInv' /\ DatabasesAreTrue'
    BY <1>3, <1>a, <1>b, <2>3 DEF Crash
  <2> QED BY <1>0, <2>1, <2>2, <2>4, MountsStay DEF DiskInv
<1>4. CASE Ask \/ NoTaskLeft \/ Fetch \/ ManifestFails \/ Reply \/ Cancel \/ CheckSignature
           \/ CreateImageMeta \/ SaveFails
  <2>1. UNCHANGED <<dir, stray, metaFile, mounts, client>>
    BY <1>4 DEF Ask, Request, NoTaskLeft, Fetch, PullManifest, ManifestFails, Reply, Cancel,
                CheckSignature, CreateImageMeta, SaveFails
  <2>2. lay' = Waiting \/ (lay' = lay /\ pull.pc # "layers")
    BY <1>4 DEF Ask, Request, NoTaskLeft, Fetch, PullManifest, ManifestFails, Reply, Cancel,
                CheckSignature, CreateImageMeta, SaveFails
  <2> QED BY <1>0, <2>1, <2>2, DiskQuiet
<1>5. CASE Populated \/ PopulatedFails
  <2>1. PICK img \in Known : Mount(img) \/ UNCHANGED mounts
    BY <1>5 DEF Populated, PopulatedFails, BundleFails, Mount
  <2>2. /\ UNCHANGED <<dir, stray, metaFile, up, images, layers, store, lay>>
        /\ pull.pc = "known"
    BY <1>5 DEF Populated, PopulatedFails, BundleFails
  <2>3. img \in Image /\ InOrder(img) /\ \A m \in MetasOf(img) : dir[m.path] = m.digest
    BY <1>0, <1>a DEF Known, TypeOK, StoreIsSound
  <2>4. MountsHoldTheirImage'
    BY <1>a, <2>1, <2>2, <2>3, MountIsSound
  <2>5. FutureInv' /\ IndexInv'
    BY <1>0, <1>a, <2>2, FuturesRest DEF IndexInv
  <2> QED BY <1>0, <2>2, <2>4, <2>5, DatabasesStay DEF DiskInv
<1>6. ASSUME NEW i \in Slots, RequestBlob(i) PROVE DiskInv'
  <2>1. UNCHANGED <<dir, stray, metaFile, mounts, up, images, layers, store, pull>>
    BY <1>6 DEF RequestBlob
  <2>2. lay'[i].st = "requested" /\ \A j \in Slots \ {i} : lay'[j] = lay[j]
    BY <1>6, <1>0, LayMoves DEF RequestBlob, LayerPoints
  <2>3. store.next <= store'.next
    BY <1>0, <2>1 DEF TypeOK
  <2>4. FutureInv'
    BY <1>0, <2>1, <2>2, <2>3, FutureSteps
  <2>5. IndexInv'
    BY <1>a, <2>1 DEF IndexInv
  <2> QED BY <1>0, <2>1, <2>4, <2>5, DatabasesStay, MountsStay DEF DiskInv
<1>7. ASSUME NEW i \in Slots, BlobAnswers(i) PROVE DiskInv'
  <2>1. UNCHANGED <<dir, stray, metaFile, mounts, up, images, layers, pull>> /\ up
    BY <1>7, <1>0 DEF BlobAnswers, InLayers, TaskInv
  <2>3. ASSUME NEW m \in layers, m.digest = Blob(i), store' = store,
               lay' = [lay EXCEPT ![i] = [st |-> "done", path |-> m.path]]
        PROVE  FutureInv' /\ IndexInv'
    <3>1. m.path \in Paths
      BY <1>0 DEF TypeOK, Meta
    <3>2. lay'[i].st = "done" /\ lay'[i].path = m.path /\ \A j \in Slots \ {i} : lay'[j] = lay[j]
      BY <1>0, <2>3, <3>1, LayPlaced DEF LayerPoints
    <3>3. store.next <= store'.next
      BY <1>0, <2>3 DEF TypeOK
    <3>4. dir'[m.path] = Blob(i) /\ \A n \in layers : n.digest = Blob(i) => n.path = m.path
      BY <1>a, <2>1, <2>3 DEF StoreIsSound, KeyedByDigest
    <3>5. FutureInv'
      BY <1>0, <2>1, <3>2, <3>3, <3>4, FutureSteps
    <3> QED BY <1>a, <2>1, <2>3, <3>5 DEF IndexInv
  <2>4. ASSUME \A m \in layers : m.digest # Blob(i), NewPath(i)
        PROVE  FutureInv' /\ IndexInv'
    <3>1. /\ store.root = "layers" /\ store.next \in Indices /\ store.next \in Nat
          /\ <<"layers", store.next>> \in Paths /\ dir[<<"layers", store.next>>] = "absent"
      BY <1>0, <1>a, <2>1, <2>4 DEF NewPath, IndexInv, TypeOK, Paths, Roots
    <3>2. store'.root = store.root /\ store'.next = store.next + 1
      BY <1>0, <2>4 DEF NewPath, TypeOK
    <3>3. /\ lay'[i].st = "opened" /\ lay'[i].path = <<"layers", store.next>>
          /\ \A j \in Slots \ {i} : lay'[j] = lay[j]
      BY <1>0, <2>4, <3>1, LayPlaced DEF NewPath, LayerPoints
    <3>4. ASSUME NEW j \in Slots \ {i}, lay[j].st \in {"opened", "unpacking"}
          PROVE  lay[j].path # lay'[i].path
      <4>1. PICK n \in Indices : n < store.next /\ lay[j].path = <<"layers", n>>
        BY <1>a, <3>4 DEF FutureInv
      <4> QED BY <3>1, <3>3, <4>1
    <3>5. \E n \in Indices : n < store'.next /\ lay'[i].path = <<"layers", n>>
      BY <3>1, <3>2, <3>3
    <3>6. FutureInv'
      BY <1>0, <2>1, <2>4, <3>1, <3>2, <3>3, <3>4, <3>5, FutureSteps
    <3>7. IndexInv'
      BY <1>a, <2>1, <3>1, <3>2, ImagePullAssumption DEF IndexInv, Indices, ImagePullAssumption
    <3> QED BY <3>6, <3>7
  <2>5. FutureInv' /\ IndexInv'
    BY <1>7, <2>3, <2>4 DEF BlobAnswers
  <2> QED BY <1>0, <2>1, <2>5, DatabasesStay, MountsStay DEF DiskInv
<1>8. ASSUME NEW i \in Slots, BlobRefused(i) PROVE DiskInv'
  BY <1>8, <1>0, DiskQuiet DEF BlobRefused, LayerFails
\* The directory of future i changes: nobody else looks at it.
<1>9. ASSUME NEW i \in Slots, lay[i].st \in {"opened", "unpacking"}, NEW c \in Content,
             dir' = [dir EXCEPT ![lay[i].path] = c]
      PROVE  /\ lay[i].path \in Paths /\ dir[lay[i].path] \in {"absent", "partial"}
             /\ dir'[lay[i].path] = c
             /\ \A j \in Slots \ {i} : lay[j].st \in {"opened", "unpacking", "done"}
                  => dir'[lay[j].path] = dir[lay[j].path]
             /\ UNCHANGED <<stray, up, store>> => IndexInv'
  <2>1. PICK n \in Indices : n < store.next /\ lay[i].path = <<"layers", n>>
    BY <1>9, <1>a DEF FutureInv
  <2>2. lay[i].path \in Paths /\ dir[lay[i].path] \in {"absent", "partial"}
    BY <1>0, <1>9, <1>a DEF FutureInv, TypeOK, LayerType
  <2>3. dir'[lay[i].path] = c /\ \A q \in Paths : q # lay[i].path => dir'[q] = dir[q]
    BY <1>0, <1>9, <2>2 DEF TypeOK
  <2>4. ASSUME NEW j \in Slots \ {i}, lay[j].st \in {"opened", "unpacking"}
        PROVE  dir'[lay[j].path] = dir[lay[j].path]
    <3>1. lay[j].path \in Paths /\ lay[j].path # lay[i].path
      BY <1>0, <1>9, <1>a, <2>4 DEF TypeOK, LayerType, FutureInv
    <3> QED BY <2>3, <3>1
  <2>5. ASSUME NEW j \in Slots \ {i}, lay[j].st = "done"
        PROVE  dir'[lay[j].path] = dir[lay[j].path]
    <3>1. lay[j].path \in Paths
      BY <1>0 DEF TypeOK, LayerType
    <3>2. pull.manifest \in Manifests /\ j \in Todo
      BY <1>0, <2>5 DEF TaskInv, Working
    <3>3. dir[lay[j].path] \in Digests
      BY <1>a, <2>5, <3>2, FirstsAreLayers DEF FutureInv, Blob, Todo
    <3> QED BY <1>0, <1>9, <2>2, <3>1, <3>3, OthersStayWhole
  <2>6. ASSUME UNCHANGED <<stray, up, store>> PROVE IndexInv'
    <3>1. ASSUME NEW k \in Indices, k >= store.next PROVE dir'[<<"layers", k>>] = dir[<<"layers", k>>]
      <4>1. <<"layers", k>> # lay[i].path
        BY <1>0, <2>1, <3>1, ImagePullAssumption DEF Indices, ImagePullAssumption, TypeOK
      <4>2. <<"layers", k>> \in Paths
        BY DEF Paths, Roots
      <4> QED BY <2>3, <4>1, <4>2
    <3> QED BY <1>a, <2>6, <3>1 DEF IndexInv
  <2> QED BY <2>2, <2>3, <2>4, <2>5, <2>6
<1>10. ASSUME NEW i \in Slots, Unpack(i) PROVE DiskInv'
  <2>1. /\ lay[i].st = "opened" /\ dir' = [dir EXCEPT ![lay[i].path] = "partial"]
        /\ UNCHANGED <<stray, metaFile, mounts, up, images, layers, store, pull>>
    BY <1>10 DEF Unpack
  <2>2. "partial" \in Content
    BY DEF Content
  <2>3. /\ lay'[i].st = "unpacking" /\ lay'[i].path = lay[i].path
        /\ \A j \in Slots \ {i} : lay'[j] = lay[j]
    BY <1>10, <1>0, LayMoves DEF Unpack, LayerPoints
  <2>4. store.next <= store'.next
    BY <1>0, <2>1 DEF TypeOK
  <2>5. /\ \E n \in Indices : n < store.next /\ lay[i].path = <<"layers", n>>
        /\ \A m \in layers : m.digest # Blob(i)
        /\ \A j \in Slots \ {i} : lay[j].st \in {"opened", "unpacking"} => lay[j].path # lay[i].path
    BY <1>a, <2>1 DEF FutureInv
  <2>6. /\ dir'[lay[i].path] = "partial"
        /\ \A j \in Slots \ {i} : lay[j].st \in {"opened", "unpacking", "done"}
             => dir'[lay[j].path] = dir[lay[j].path]
    BY <1>9, <2>1, <2>2
  <2>7. FutureInv'
    BY <1>0, <2>1, <2>3, <2>4, <2>5, <2>6, FutureSteps
  <2> QED BY <1>0, <1>9, <2>1, <2>2, <2>7, DatabasesStay, MountsStay DEF DiskInv
<1>11. ASSUME NEW i \in Slots, UnpackFails(i) PROVE DiskInv'
  BY <1>11, <1>0, DiskDropped DEF UnpackFails, LayerFails, Content
<1>12. ASSUME NEW i \in Slots, UnpackEnds(i) PROVE DiskInv'
  <2>1. lay[i].st = "unpacking" /\ dir' = [dir EXCEPT ![lay[i].path] = Blob(i)]
    BY <1>12 DEF UnpackEnds
  <2>2. Blob(i) \in Content
    BY <1>0, <2>1, FirstsAreLayers DEF TaskInv, Working, Blob, Todo, Content
  <2>3. CASE DiffIdHolds(i)
    <3>1. UNCHANGED <<stray, metaFile, mounts, up, images, layers, store, pull>>
      BY <1>12, <2>3 DEF UnpackEnds
    <3>2. /\ lay'[i].st = "done" /\ lay'[i].path = lay[i].path
          /\ \A j \in Slots \ {i} : lay'[j] = lay[j]
      BY <1>12, <1>0, <2>3, LayMoves DEF UnpackEnds, LayerPoints
    <3>3. store.next <= store'.next
      BY <1>0, <3>1 DEF TypeOK
    <3>4. \A m \in layers : m.digest # Blob(i)
      BY <1>a, <2>1 DEF FutureInv
    <3>5. /\ dir'[lay[i].path] = Blob(i)
          /\ \A j \in Slots \ {i} : lay[j].st \in {"opened", "unpacking", "done"}
               => dir'[lay[j].path] = dir[lay[j].path]
      BY <1>9, <2>1, <2>2
    <3>6. FutureInv'
      BY <1>0, <3>1, <3>2, <3>3, <3>4, <3>5, FutureSteps
    <3> QED BY <1>0, <1>9, <2>1, <2>2, <3>1, <3>6, DatabasesStay, MountsStay DEF DiskInv
  <2>4. CASE ~DiffIdHolds(i)
    BY <1>12, <1>0, <2>1, <2>2, <2>4, DiskDropped DEF UnpackEnds, LayerFails
  <2> QED BY <2>3, <2>4
<1>13. CASE LayersPulled
  <2>1. AllDone /\ lay' = Waiting /\ UNCHANGED <<dir, stray, metaFile, up, store>>
    BY <1>13 DEF LayersPulled
  <2>2. FutureInv' /\ IndexInv'
    BY <1>0, <1>a, <2>1, FuturesRest DEF IndexInv
  <2>3. MountsHoldTheirImage'
    BY <1>13, <1>a, <2>1, PulledIsSound, MountIsSound DEF LayersPulled
  <2>4. MetasOf(NewImage) \subseteq layers'
    BY <1>13 DEF LayersPulled, Extend
  <2>5. StoreIsSound(images', layers')
    BY <1>13, <1>a, <2>1, <2>4, PulledIsSound DEF LayersPulled, StoreIsSound, Extend
  <2>6. StoredInv' /\ DatabasesAreTrue'
    BY <1>a, <1>b, <2>1, <2>5
  <2> QED BY <1>0, <2>2, <2>3, <2>6 DEF DiskInv
<1>14. CASE LayersPulledOnly
  <2>1. AllDone /\ lay' = Waiting /\ UNCHANGED <<dir, stray, metaFile, up, images, store>>
    BY <1>14 DEF LayersPulledOnly
  <2>2. FutureInv' /\ IndexInv'
    BY <1>0, <1>a, <2>1, FuturesRest DEF IndexInv
  <2>3. MountsHoldTheirImage'
    BY <1>14, <1>a, <2>1, PulledIsSound, MountIsSound DEF LayersPulledOnly
  <2>4. StoreIsSound(images', layers')
    BY <1>14, <1>a, <2>1, PulledIsSound DEF LayersPulledOnly, StoreIsSound, Extend
  <2>5. StoredInv' /\ DatabasesAreTrue'
    BY <1>a, <1>b, <2>1, <2>4
  <2> QED BY <1>0, <2>2, <2>3, <2>5 DEF DiskInv
<1>15. CASE SaveTruncates \/ SaveEnds
  <2>1. /\ UNCHANGED <<dir, stray, mounts, up, images, layers, store, lay>>
        /\ pull.pc # "layers"
    BY <1>15 DEF SaveTruncates, SaveEnds
  <2>2. FutureInv' /\ IndexInv'
    BY <1>0, <1>a, <2>1, FuturesRest DEF IndexInv
  <2>3. StoreIsSound({}, {})
    BY DEF StoreIsSound, KeyedByDigest
  <2>4. StoreIsSound(metaFile'.images, metaFile'.layers)
    BY <1>15, <1>a, <2>3 DEF SaveTruncates, SaveEnds, Torn
  <2>5. StoredInv' /\ DatabasesAreTrue'
    BY <1>a, <1>b, <2>1, <2>4
  <2> QED BY <1>0, <2>1, <2>2, <2>5, MountsStay DEF DiskInv
<1>16. ASSUME NEW i \in Slots, LayerStep(i) PROVE DiskInv'
  BY <1>16, <1>6, <1>7, <1>8, <1>10, <1>11, <1>12 DEF LayerStep
<1>17. CASE PullStep
  BY <1>17, <1>4, <1>5, <1>16, <1>13, <1>14, <1>15 DEF PullStep
<1> QED BY <1>1, <1>2, <1>3, <1>4, <1>17 DEF Next

\* The three theorems that follow are for a client that is built by ClientBuilder, or
\* whose layers directory nobody else writes to: ImageClient::new falls back to
\* a store that starts again from index 0 in the working directory, so that a
\* second client hands out the directories of the first again.
LEMMA DiskAlways == Indexed => (Spec => []DiskInv)
<1> SUFFICES ASSUME Indexed PROVE Spec => []DiskInv
  OBVIOUS
<1>1. DiskInv /\ [Next]_vars => DiskInv'
  BY DiskNext
<1> QED BY DiskInit, <1>1, PTL DEF Spec

\* No two futures of async_pull_layers unpack into one directory, and none into one
\* that held something before, over all restarts, failures and dropped pulls.
THEOREM LayersApart == ASSUME Indexed PROVE Spec => []LayersUnpackAlone
<1>1. DiskInv => LayersUnpackAlone
  BY DEF DiskInv, FutureInv, LayersUnpackAlone
<1> QED BY DiskAlways, <1>1, PTL

\* Each layer that layer_db or an image names is whole in its directory, and the layers
\* of an image are all in layer_db, in memory and in meta_store.json.
THEOREM DatabasesTrue == ASSUME Indexed PROVE Spec => []DatabasesAreTrue
<1>1. DiskInv => DatabasesAreTrue
  BY DEF DiskInv
<1> QED BY DiskAlways, <1>1, PTL

\* An overlay shows the unique layers of its image's manifest, in order, and for
\* as long as it is mounted.
THEOREM MountsTrue == ASSUME Indexed PROVE Spec => []MountsHoldTheirImage
<1>1. DiskInv => MountsHoldTheirImage
  BY DEF DiskInv
<1> QED BY DiskAlways, <1>1, PTL
=============================================================================

------------------------------ MODULE ImagePull ------------------------------
(***************************************************************************)
(* ImageClient of image-rs: an image reference is turned into a mounted    *)
(* bundle.  A pull tries its tasks (the reference and its mirrors) one     *)
(* after the other; a task fetches the manifest, has the signature policy  *)
(* decide on it, downloads and unpacks the layers concurrently into fresh  *)
(* directories of the layer store, mounts them, and records the image in   *)
(* the meta store, which is saved to a file and read back when the client  *)
(* is built again.                                                         *)
(*                                                                         *)
(* The module models image.rs (ImageClient), pull.rs (PullClient),         *)
(* layer_store.rs, meta_store.rs and the parts of stream and overlay that  *)
(* change the disk.  The client is behind a Mutex in the confidential data *)
(* hub and pull_image takes &mut self, so one pull runs at a time; its     *)
(* layers interleave.                                                      *)
(*                                                                         *)
(* Abstractions.  The registry serves for a reference any of a set of      *)
(* manifests.  A blob is named by its digest and holds the layer whose     *)
(* uncompressed digest is BlobOf.  The directory of a layer is absent,     *)
(* partly unpacked, or holds all of one blob.                              *)
(***************************************************************************)
EXTENDS Naturals, Sequences, FiniteSets

CONSTANTS
  Urls,           \* the image references callers ask for
  Refs,           \* the references of the tasks made from them
  Manifests, Configs, Digests, DiffIds,
  TasksOf,        \* RegistryHandler::process: the tasks of a reference
  Served,         \* the manifests the registry may serve for a reference
  ConfigOf,       \* manifest.config.digest, the image id
  LayersOf,       \* manifest.layers
  DiffIdsOf,      \* rootfs.diff_ids of an image configuration
  BlobOf,         \* the digest of the uncompressed plaintext of a blob
  Accepted,       \* the pairs of reference and manifest the policy accepts
  Linux,          \* the configurations whose os is linux
  Builder,        \* made by ClientBuilder::build, not by ImageClient::new
  MaxConcurrent,  \* max_concurrent_layer_downloads_per_image
  Faults,         \* the faults of the environment that may happen
  MaxLayers,      \* bound: the position of the last unique layer of an image
  MaxIndex,       \* bound: the largest layer index
  MaxRequests,    \* bound: the pulls asked for
  NoUrl, NoRef, NoManifest

FaultNames == {"crash", "stray", "network", "layer", "rollback", "mount", "save",
               "cancel"}

ASSUME ImagePullAssumption ==
  /\ TasksOf \in [Urls -> Seq(Refs)]
  /\ Served \in [Refs -> SUBSET Manifests]
  /\ ConfigOf \in [Manifests -> Configs]
  /\ LayersOf \in [Manifests -> Seq(Digests)]
  /\ DiffIdsOf \in [Configs -> Seq(DiffIds)]
  /\ BlobOf \in [Digests -> DiffIds]
  /\ Accepted \subseteq Refs \X Manifests
  /\ Linux \subseteq Configs
  /\ Builder \in BOOLEAN
  /\ Faults \subseteq FaultNames
  /\ {MaxConcurrent, MaxLayers, MaxIndex, MaxRequests} \subseteq Nat
  /\ {"absent", "partial"} \cap Digests = {}
  /\ NoUrl \notin Urls /\ NoRef \notin Refs /\ NoManifest \notin Manifests

VARIABLES
  dir,       \* the layer directories on disk
  stray,     \* the layers directory has an entry whose name is no index
  metaFile,  \* meta_store.json
  mounts,    \* the overlays mounted, which outlive the client
  up,        \* the client has been built
  images,    \* MetaStore.image_db
  layers,    \* MetaStore.layer_db
  store,     \* LayerStore: data_dir and layers_index
  pull,      \* the pull under way
  lay,       \* the futures of its layers
  made,      \* history: the pulls asked for
  unsaved    \* history: a save failed since the client was built or last saved

disk   == <<dir, stray, metaFile, mounts>>
client == <<up, images, layers, store>>
history == <<made, unsaved>>
vars   == <<disk, client, pull, lay, history>>

-----------------------------------------------------------------------------
Points == {"idle", "task", "known", "meta", "layers", "bundle", "save", "saving",
           "ok", "failed"}
LayerPoints == {"waiting", "requested", "opened", "unpacking", "done"}

\* Layers go by their position in the manifest.
Slots    == 1 .. MaxLayers
Indices  == 0 .. MaxIndex
\* LayerStore::default has the empty path for data_dir: its layers go to the
\* working directory of the process.
Roots    == {"layers", "cwd"}
Paths    == Roots \X Indices
Content  == Digests \cup {"absent", "partial"}

\* LayerMeta and ImageMeta, as far as they are read again.
Meta  == [digest : Digests, path : Paths]
Image == [id : Configs, ref : Refs, manifest : Manifests,
          metas : UNION {[S -> Meta] : S \in SUBSET Slots}]
Db(im, la) == [images |-> im, layers |-> la]

NoFile  == [state |-> "none", images |-> {}, layers |-> {}]
Torn    == [state |-> "torn", images |-> {}, layers |-> {}]
NoPull  == [pc |-> "idle", url |-> NoUrl, tasks |-> <<>>, ref |-> NoRef,
            manifest |-> NoManifest]
Waiting == [i \in Slots |-> [st |-> "waiting", path |-> <<"layers", 0>>]]

\* create_image_meta: the layers to pull, each digest where it occurs first; the
\* layer's diff id is the one at the same position.
Firsts(m) == {i \in 1 .. Len(LayersOf[m]) : \A j \in 1 .. i - 1 : LayersOf[m][j] # LayersOf[m][i]}
Todo      == Firsts(pull.manifest)
Blob(i)   == LayersOf[pull.manifest][i]

Init ==
  /\ dir = [p \in Paths |-> "absent"]
  /\ stray = FALSE
  /\ metaFile = NoFile
  /\ mounts = {}
  /\ up = FALSE
  /\ images = {}
  /\ layers = {}
  /\ store = [root |-> "layers", next |-> 0]
  /\ pull = NoPull
  /\ lay = Waiting
  /\ made = 0
  /\ unsaved = FALSE

-----------------------------------------------------------------------------
(* The client is built: ClientBuilder::build, ImageClient::new. *)

\* get_layer_index: one more than the largest index among the directories.
NextIndex(n) ==
  /\ \A i \in Indices : dir[<<"layers", i>>] # "absent" => i < n
  /\ n > 0 => dir[<<"layers", n - 1>>] # "absent"

\* An entry that is no index makes get_layer_index fail: the builder gives up
\* (and stays down), new carries on with LayerStore::default.
LayerStoreNew ==
  IF stray THEN ~Builder /\ store' = [root |-> "cwd", next |-> 0]
  ELSE \E n \in 0 .. MaxIndex + 1 :
         NextIndex(n) /\ store' = [root |-> "layers", next |-> n]

\* A meta store that is missing or cannot be parsed counts as an empty one.
Start ==
  /\ ~up
  /\ up' = TRUE
  /\ images' = metaFile.images
  /\ layers' = metaFile.layers
  /\ LayerStoreNew
  /\ UNCHANGED <<disk, pull, lay, history>>

\* The process that holds the client ends.  The disk and the mounts stay.
Crash ==
  /\ "crash" \in Faults
  /\ up
  /\ up' = FALSE
  /\ images' = {}
  /\ layers' = {}
  /\ store' = [root |-> "layers", next |-> 0]
  /\ pull' = NoPull
  /\ lay' = Waiting
  /\ unsaved' = FALSE
  /\ UNCHANGED <<disk, made>>

\* Something else puts an entry into the layers directory.
StrayEntry ==
  /\ "stray" \in Faults
  /\ ~stray
  /\ stray' = TRUE
  /\ UNCHANGED <<dir, metaFile, mounts, client, pull, lay, history>>

-----------------------------------------------------------------------------
(* pull_image: the tasks are tried in order until one succeeds. *)

Request(u) ==
  /\ up
  /\ pull.pc = "idle"
  /\ made < MaxRequests
  /\ made' = made + 1
  /\ pull' = [NoPull EXCEPT !.pc = "task", !.url = u, !.tasks = TasksOf[u]]
  /\ UNCHANGED <<disk, client, lay, unsaved>>

\* Mutant of Failed: the task that failed is tried again.
FailedRetries(p) == [p EXCEPT !.pc = "task", !.ref = NoRef, !.manifest = NoManifest]

\* pull_task returned an error: the next task.
Failed(p) == [p EXCEPT !.pc = "task", !.tasks = Tail(@), !.ref = NoRef,
                       !.manifest = NoManifest]

At(pc) == [pull EXCEPT !.pc = pc]

\* The reference is blocked, or AllTasksTried.
NoTaskLeft ==
  /\ pull.pc = "task"
  /\ pull.tasks = <<>>
  /\ pull' = At("failed")
  /\ UNCHANGED <<disk, client, lay, history>>

\* The credential is chosen and the manifest and configuration are fetched.
PullManifest(m) ==
  /\ pull.pc = "task"
  /\ pull.tasks # <<>>
  /\ m \in Served[Head(pull.tasks)]
  /\ pull' = [pull EXCEPT !.pc = "known", !.ref = Head(pull.tasks),
                         !.manifest = m]
  /\ UNCHANGED <<disk, client, lay, history>>

\* An illegal credential, no such manifest, or no answer.
ManifestFails ==
  /\ pull.pc = "task"
  /\ pull.tasks # <<>>
  /\ "network" \in Faults \/ Served[Head(pull.tasks)] = {}
  /\ pull' = Failed(pull)
  /\ UNCHANGED <<disk, client, lay, history>>

Reply ==
  /\ pull.pc \in {"ok", "failed"}
  /\ pull' = NoPull
  /\ UNCHANGED <<disk, client, lay, history>>

\* The future of the pull is dropped at an await of the network: so are the
\* futures of its layers, and what they have unpacked stays on disk.
Cancel ==
  /\ "cancel" \in Faults
  /\ pull.pc \in {"task", "known", "layers"}
  /\ pull' = NoPull
  /\ lay' = Waiting
  /\ UNCHANGED <<disk, client, history>>

-----------------------------------------------------------------------------
(* What is done with a manifest. *)

\* create_bundle: the layers are mounted, the first at the bottom, then the
\* configuration is checked and the runtime configuration written.  A bundle
\* directory belongs to one request.
Mount(img) == mounts' = mounts \cup {[bundle |-> made, image |-> img]}

BundleFails(img) ==
  /\ \/ "mount" \in Faults /\ mounts' \in {mounts, mounts \cup {[bundle |-> made, image |-> img]}}
     \/ img.id \notin Linux /\ Mount(img)
  /\ pull' = Failed(pull)
  /\ UNCHANGED <<dir, stray, metaFile, client, lay, history>>

Known == {img \in images : img.id = ConfigOf[pull.manifest]}

\* The image has been populated: its bundle is all there is to make.
Populated ==
  /\ pull.pc = "known"
  /\ \E img \in Known :
       /\ img.id \in Linux
       /\ Mount(img)
  /\ pull' = At("ok")
  /\ UNCHANGED <<dir, stray, metaFile, client, lay, history>>

PopulatedFails ==
  /\ pull.pc = "known"
  /\ \E img \in Known : BundleFails(img)

CheckSignature ==
  /\ pull.pc = "known"
  /\ Known = {}
  /\ pull' = IF <<pull.ref, pull.manifest>> \in Accepted THEN At("meta") ELSE Failed(pull)
  /\ UNCHANGED <<disk, client, lay, history>>

\* create_image_meta refuses an image whose layers and diff ids do not pair up.
CreateImageMeta ==
  /\ pull.pc = "meta"
  /\ Todo \subseteq Slots
  /\ pull' = IF Len(DiffIdsOf[ConfigOf[pull.manifest]]) = Len(LayersOf[pull.manifest])
             THEN At("layers") ELSE Failed(pull)
  /\ UNCHANGED <<disk, client, lay, history>>

-----------------------------------------------------------------------------
(* async_pull_layers: the futures of the layers run in order, at most       *)
(* MaxConcurrent at a time, until all are done or one has failed.           *)

InLayers == pull.pc = "layers"
Running == {i \in Slots : lay[i].st \in {"requested", "opened", "unpacking"}}

\* The first error ends try_collect: the other futures are dropped, and what
\* they have unpacked stays on disk.
LayerFails ==
  /\ pull' = Failed(pull)
  /\ lay' = Waiting
  /\ UNCHANGED <<stray, metaFile, mounts, client, history>>

\* pull_blob_stream is called.
RequestBlob(i) ==
  /\ InLayers
  /\ i \in Todo
  /\ lay[i].st = "waiting"
  /\ \A j \in Todo : j < i => lay[j].st # "waiting"
  /\ Cardinality(Running) < MaxConcurrent
  /\ lay' = [lay EXCEPT ![i] = [@ EXCEPT !.st = "requested"]]
  /\ UNCHANGED <<disk, client, pull, history>>

\* Mutant of NewPath: a load and a store, the store made with the layer's data.
NewPathLoad(i) ==
  /\ store.next \in Indices
  /\ lay' = [lay EXCEPT ![i] = [st |-> "opened", path |-> <<store.root, store.next>>]]
  /\ store' = store

\* new_layer_store_path: fetch_add on layers_index.
NewPath(i) ==
  /\ store.next \in Indices
  /\ lay' = [lay EXCEPT ![i] = [st |-> "opened", path |-> <<store.root, store.next>>]]
  /\ store' = [store EXCEPT !.next = @ + 1]

\* The blob answers.  A layer of layer_db is taken from there, diff id and all;
\* any other gets a new directory.
BlobAnswers(i) ==
  /\ InLayers
  /\ lay[i].st = "requested"
  /\ \/ \E m \in layers :
          /\ m.digest = Blob(i)
          /\ lay' = [lay EXCEPT ![i] = [st |-> "done", path |-> m.path]]
          /\ UNCHANGED store
     \/ /\ \A m \in layers : m.digest # Blob(i)
        /\ NewPath(i)
  /\ UNCHANGED <<disk, up, images, layers, pull, history>>

\* No blob; or it is of an unknown media type or digest algorithm, or its key
\* cannot be unwrapped.
BlobRefused(i) ==
  /\ InLayers
  /\ \/ "network" \in Faults /\ lay[i].st = "requested"
     \/ "layer" \in Faults /\ lay[i].st = "opened"
  /\ UNCHANGED dir
  /\ LayerFails

\* unpack: what is in the directory is deleted, and the directory made again.
Unpack(i) ==
  /\ InLayers
  /\ lay[i].st = "opened"
  /\ dir' = [dir EXCEPT ![lay[i].path] = "partial"]
  /\ lay' = [lay EXCEPT ![i] = [@ EXCEPT !.st = "unpacking"]]
  /\ UNCHANGED <<stray, metaFile, mounts, client, pull, history>>

\* The archive ends early or cannot be unpacked: the directory is removed,
\* unless that fails as well.
UnpackFails(i) ==
  /\ InLayers
  /\ "layer" \in Faults
  /\ lay[i].st = "unpacking"
  /\ \/ dir' = [dir EXCEPT ![lay[i].path] = "absent"]
     \/ "rollback" \in Faults /\ UNCHANGED dir
  /\ LayerFails

\* Mutant of DiffIdHolds: the digest of the unpacked layer is not compared.
DiffIdIgnored(i) == TRUE

DiffIdHolds(i) == BlobOf[Blob(i)] = DiffIdsOf[ConfigOf[pull.manifest]][i]

\* All is unpacked and the digest of the stream is the diff id; or it is not,
\* and the directory stays.
UnpackEnds(i) ==
  /\ InLayers
  /\ lay[i].st = "unpacking"
  /\ dir' = [dir EXCEPT ![lay[i].path] = Blob(i)]
  /\ IF DiffIdHolds(i)
     THEN /\ lay' = [lay EXCEPT ![i] = [@ EXCEPT !.st = "done"]]
          /\ UNCHANGED <<stray, metaFile, mounts, client, pull, history>>
     ELSE LayerFails

-----------------------------------------------------------------------------
(* The layers are there: meta store, bundle, and the file. *)

\* Mutant of Pulled: the results are not sorted by their position.
PulledReversed == [k \in Todo |->
  LET r == CHOOSE r \in Todo : Cardinality({j \in Todo : j < r}) = Cardinality({j \in Todo : j > k})
  IN  [digest |-> Blob(r), path |-> lay[r].path]]

Pulled == [k \in Todo |-> [digest |-> Blob(k), path |-> lay[k].path]]

MetasOf(img) == {img.metas[k] : k \in DOMAIN img.metas}
NewImage == [id |-> ConfigOf[pull.manifest], ref |-> pull.ref, manifest |-> pull.manifest,
             metas |-> Pulled]

\* layer_db.extend
Extend(db, new) == {m \in db : \A n \in new : n.digest # m.digest} \cup new

\* Mutant of AllDone: some layers are not waited for.
SomeDone == InLayers /\ \E k \in Todo : lay[k].st = "done"

AllDone == InLayers /\ \A k \in Todo : lay[k].st = "done"

\* All futures are done: the layers are known, the bundle is made, the image
\* is entered into image_db.
LayersPulled ==
  /\ AllDone
  /\ layers' = Extend(layers, MetasOf(NewImage))
  /\ NewImage.id \in Linux
  /\ Mount(NewImage)
  /\ images' = images \cup {NewImage}
  /\ pull' = At("save")
  /\ lay' = Waiting
  /\ UNCHANGED <<dir, stray, metaFile, up, store, history>>

\* The layers are known, the bundle cannot be made.
LayersPulledOnly ==
  /\ AllDone
  /\ layers' = Extend(layers, MetasOf(NewImage))
  /\ \/ "mount" \in Faults /\ (UNCHANGED mounts \/ Mount(NewImage))
     \/ NewImage.id \notin Linux /\ Mount(NewImage)
  /\ pull' = Failed(pull)
  /\ lay' = Waiting
  /\ UNCHANGED <<dir, stray, metaFile, up, images, store, history>>

\* write_to_file: File::create truncates what was saved before.
SaveTruncates ==
  /\ pull.pc = "save"
  /\ metaFile' = Torn
  /\ pull' = At("saving")
  /\ UNCHANGED <<dir, stray, mounts, client, lay, history>>

\* Mutant of SaveEnds: the store is written as it was before the pull.
SaveStale ==
  /\ pull.pc = "saving"
  /\ metaFile' = [state |-> "full", images |-> images \ Known, layers |-> layers]
  /\ pull' = At("ok")
  /\ unsaved' = FALSE
  /\ UNCHANGED <<dir, stray, mounts, client, lay, made>>

SaveEnds ==
  /\ pull.pc = "saving"
  /\ metaFile' = [state |-> "full", images |-> images, layers |-> layers]
  /\ pull' = At("ok")
  /\ unsaved' = FALSE
  /\ UNCHANGED <<dir, stray, mounts, client, lay, made>>

\* The file cannot be created, or not be written: an error, although the bundle
\* is mounted and image_db has the image.
SaveFails ==
  /\ "save" \in Faults
  /\ pull.pc \in {"save", "saving"}
  /\ pull' = Failed(pull)
  /\ unsaved' = TRUE
  /\ UNCHANGED <<disk, client, lay, made>>

-----------------------------------------------------------------------------
Ask   == \E u \in Urls : Request(u)
Fetch == \E m \in Manifests : PullManifest(m)

LayerStep(i) == \/ RequestBlob(i) \/ BlobAnswers(i) \/ BlobRefused(i)
                \/ Unpack(i) \/ UnpackFails(i) \/ UnpackEnds(i)

PullStep == \/ NoTaskLeft \/ Fetch \/ ManifestFails \/ Reply
            \/ Populated \/ PopulatedFails \/ CheckSignature \/ CreateImageMeta
            \/ \E i \in Slots : LayerStep(i)
            \/ LayersPulled \/ LayersPulledOnly
            \/ SaveTruncates \/ SaveEnds \/ SaveFails

Next == Start \/ Crash \/ StrayEntry \/ Ask \/ PullStep \/ Cancel

Spec == Init /\ [][Next]_vars

\* The registry answers or the connection is given up, and the runtime polls
\* every future that is ready.
FairSpec == Spec /\ WF_vars(PullStep) /\ WF_vars(Start)

-----------------------------------------------------------------------------
(* Properties *)

LayerType == [st : LayerPoints, path : Paths]

\* Every variable has its type.
TypeOK ==
  /\ dir \in [Paths -> Content]
  /\ stray \in BOOLEAN
  /\ metaFile \in [state : {"none", "torn", "full"}, images : SUBSET Image,
                   layers : SUBSET Meta]
  /\ mounts \subseteq [bundle : Nat, image : Image]
  /\ up \in BOOLEAN
  /\ images \subseteq Image
  /\ layers \subseteq Meta
  /\ store \in [root : Roots, next : Nat]
  /\ pull \in [pc : Points, url : Urls \cup {NoUrl}, tasks : Seq(Refs),
               ref : Refs \cup {NoRef}, manifest : Manifests \cup {NoManifest}]
  /\ lay \in [Slots -> LayerType]
  /\ made \in Nat
  /\ unsaved \in BOOLEAN

Stored == images \cup metaFile.images
StoredLayers == layers \cup metaFile.layers \cup UNION {MetasOf(img) : img \in Stored}

\* A layer that the databases name, in memory or in the file, is all in its
\* directory: no other layer, no restart, no failed or cancelled pull gets at a
\* directory that somebody relies on.
StoredLayersAreWhole == \A m \in StoredLayers : dir[m.path] = m.digest

\* The overlay of a bundle stacks the unique layers of its image's manifest, the
\* first at the bottom, and each of them is still whole.
MountsHoldTheirImage == \A mt \in mounts :
  /\ DOMAIN mt.image.metas = Firsts(mt.image.manifest)
  /\ \A k \in DOMAIN mt.image.metas :
       dir[mt.image.metas[k].path] = LayersOf[mt.image.manifest][k]

\* What image_db holds under an image id was accepted by the policy, as the
\* reference and manifest it came from.
StoredImagesWereAccepted == \A img \in Stored :
  <<img.ref, img.manifest>> \in Accepted /\ img.id = ConfigOf[img.manifest]

\* The layers of an image in image_db are those its configuration lists: the
\* uncompressed digest of each is the diff id (comment in async_handle_layer).
StoredImagesMatchConfig == \A img \in Stored :
  \A k \in DOMAIN img.metas : BlobOf[img.metas[k].digest] = DiffIdsOf[img.id][k]

\* Some image the policy accepts lists blob d with the diff id it really has.
Vouched(d) == \E a \in Accepted : \E k \in Firsts(a[2]) :
  LayersOf[a[2]][k] = d /\ DiffIdsOf[ConfigOf[a[2]]][k] = BlobOf[d]

\* No layer is in a database but by way of an accepted image whose configuration
\* lists what was unpacked, although other images use it with no comparison.
StoredLayersAreVouched == \A m \in StoredLayers : Vouched(m.digest)

\* What the databases answer with, now or after a restart, passed the checks of the
\* pull that stored it: the policy's and the comparison with the diff ids.
StoredImagesAreRight == StoredImagesWereAccepted /\ StoredLayersAreVouched

\* An image is in image_db only if all its layers are in layer_db: what a later
\* pull shares with it is not fetched again.
ImagesKnowTheirLayers ==
  /\ \A img \in images : MetasOf(img) \subseteq layers
  /\ \A img \in metaFile.images : MetasOf(img) \subseteq metaFile.layers

\* What the databases say of layers is true (meta_store.rs, store of layers).
DatabasesAreTrue == StoredLayersAreWhole /\ ImagesKnowTheirLayers

\* A pull that has been answered with success is in the file, and survives a restart
\* of the client, unless the file could not be written since.
AnsweredIsSaved == pull.pc = "ok" =>
  \/ unsaved
  \/ metaFile.state = "full" /\ \E img \in metaFile.images : img.id = ConfigOf[pull.manifest]

\* No two layers of a pull are unpacked into one directory, and none into a
\* directory that held something before.
LayersUnpackAlone == \A i \in Slots : lay[i].st = "opened" =>
  /\ dir[lay[i].path] = "absent"
  /\ \A j \in Slots \ {i} : lay[j].st \in {"opened", "unpacking"} => lay[j].path # lay[i].path

\* A pull ends with an answer, however many of its tasks and layers fail.
RequestsEnd == pull.pc # "idle" ~> pull.pc = "idle"
=============================================================================

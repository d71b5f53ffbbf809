----------------------------- MODULE ImageBundle -----------------------------
(***************************************************************************)
(* What image-rs makes of an image that is there: the runtime              *)
(* configuration of a bundle (bundle.rs), and block devices of layers that *)
(* are mounted over dm-verity (verity). Device mapper and mounts are the   *)
(* kernel's; each of their calls may fail, and what earlier calls did      *)
(* stays.                                                                  *)
(***************************************************************************)
EXTENDS Naturals, Sequences, FiniteSets, TLC

CONSTANTS
  ImageConfigurations, \* image configurations
  VerityOptions,       \* options of mount_image_block_with_integrity, parsed
  MountPaths,          \* where layers are mounted
  MaxBlocks            \* u32::MAX, in small

\* "other" is no form options have, and "md5" stands for the hashes that are not known.
VerityOption ==
  [form : {"tarfs", "json", "base64", "other"}, hashtype : {"sha256", "sha1", "md5"},
   hash : [name : STRING, length : Nat, hex : BOOLEAN],
   blocknum : Nat, blocksize : Nat, hashsize : Nat, offset : Nat]

ASSUME ImageBundleAssumption == VerityOptions \subseteq VerityOption

VARIABLES
  runtimeConfig, \* config.json in the bundle, or NoSpec
  dmDevices,     \* device mapper: a function from names (root hashes) to tables, state
  verityMounts   \* for each path, the names of the devices mounted there, the last on top

bundleVars == <<runtimeConfig, dmDevices, verityMounts>>

NoSpec == [saved |-> FALSE]

BundleInit ==
  /\ runtimeConfig = NoSpec
  /\ dmDevices = <<>>
  /\ verityMounts = [p \in MountPaths |-> <<>>]

-----------------------------------------------------------------------------
(* create_runtime_config *)

\* The annotations an image implies: a field that is not there implies none. Those of
\* stop signal and exposed ports need a `config`, which may be missing.
ImplicitKeys == {"os", "os.version", "os.features", "architecture", "variant", "author", "created"}

\* The label of the same name stays; exposed ports are written in any case.
KeepsLabel(labels, key) == key \in DOMAIN labels

Labels(img) == IF img.hasConfig THEN img.labels ELSE <<>>

Annotations(img) ==
  LET fields == (DOMAIN img.fields \cap ImplicitKeys)
                \cup IF img.hasConfig THEN DOMAIN img.fields \cap {"stopSignal", "exposedPorts"} ELSE {}
      written == {k \in fields : k = "exposedPorts" \/ ~ KeepsLabel(Labels(img), k)} IN
  [k \in written |-> img.fields[k]] @@ Labels(img)

DefaultSpec == [saved |-> TRUE, hostname |-> "image-rs", args |-> <<"sh">>, mounts |-> <<"default">>]

\* Entrypoint and Cmd, one after the other; without both the default of the runtime spec.
Args(img) == IF img.hasConfig /\ img.entrypoint \o img.cmd # <<>> THEN img.entrypoint \o img.cmd
             ELSE DefaultSpec.args

\* A volume is a tmpfs before the default mounts.
SpecMounts(img) == (IF img.hasConfig THEN img.volumes ELSE <<>>) \o DefaultSpec.mounts

\* An existing config.json is not written over; create may fail.
CreateRuntimeConfig(img, saved) ==
  /\ IF ~ runtimeConfig.saved /\ saved
     THEN runtimeConfig' = [DefaultSpec EXCEPT !.args = Args(img), !.mounts = SpecMounts(img)]
                           @@ [annotations |-> Annotations(img), image |-> img]
     ELSE UNCHANGED runtimeConfig
  /\ UNCHANGED <<dmDevices, verityMounts>>

\* The bundle is removed with its container.
RemoveBundle ==
  /\ runtimeConfig.saved
  /\ runtimeConfig' = NoSpec /\ UNCHANGED <<dmDevices, verityMounts>>

-----------------------------------------------------------------------------
(* dm-verity *)

\* 2^9 to 2^19.
IsValidBlockSize(size) == size \in {512 * m : m \in {1, 2, 4, 8, 16, 32, 64, 128, 256, 512, 1024}}

\* Mutant of OffsetOk: hashes that start among the data are let through.
OffsetAligned(o) == o.offset % o.hashsize = 0

OffsetOk(o) == o.offset % o.hashsize = 0 /\ o.offset >= o.blocksize * o.blocknum

HashLength(hashtype) == IF hashtype = "sha256" THEN 64 ELSE 40

\* TryFrom<&str>: the options of tarfs have sizes of their own; too few of them are a panic.
Parsed(o) == IF o.form = "tarfs" THEN [o EXCEPT !.hashtype = "sha256", !.blocksize = 512, !.hashsize = 4096]
             ELSE o

\* validate
Valid(o) == /\ o.form \in {"tarfs", "json", "base64"}
            /\ o.hashtype \in {"sha256", "sha1"} /\ o.hash.length = HashLength(o.hashtype) /\ o.hash.hex
            /\ o.blocknum > 0 /\ o.blocknum <= MaxBlocks
            /\ IsValidBlockSize(o.blocksize) /\ IsValidBlockSize(o.hashsize)
            /\ OffsetOk(o)

\* The table: sectors of 512 bytes, and the block of the hash device the tree starts at.
Table(o) == [sectors |-> (o.blocknum * o.blocksize) \div 512,
             hashStart |-> (o.offset + o.hashsize - 1) \div o.hashsize, hashsize |-> o.hashsize,
             root |-> o.hash, active |-> TRUE]
NoTable == [sectors |-> 0, hashStart |-> 0, hashsize |-> 0, root |-> "none", active |-> FALSE]

\* The device when a call failed.
Made(o, failed) == CASE failed = "load" -> NoTable
                     [] failed = "resume" -> [Table(o) EXCEPT !.active = FALSE]
                     [] OTHER -> Table(o)

\* mount_image_block_with_integrity: create, load and resume, then mount; failed names
\* the call that fails, and what was made before it stays.
MountImageBlock(opt, path, failed) ==
  LET o == Parsed(opt) IN
  /\ Valid(o) /\ o.hash \notin DOMAIN dmDevices
  /\ dmDevices' = [d \in DOMAIN dmDevices \cup {o.hash} |->
                     IF d = o.hash THEN Made(o, failed) ELSE dmDevices[d]]
  /\ verityMounts' = IF failed = "none" THEN [verityMounts EXCEPT ![path] = Append(@, o.hash)]
                     ELSE verityMounts
  /\ UNCHANGED runtimeConfig

\* Options that are no options, a device of the name, or the first call fails.
MountRefused(opt) ==
  /\ ~ (Valid(Parsed(opt)) /\ Parsed(opt).hash \notin DOMAIN dmDevices)
  /\ UNCHANGED bundleVars

\* umount_image_block_with_integrity: what is on top goes, and the device that is named,
\* if nothing has it mounted.
IsMounted(mounts, name) == \E p \in MountPaths : \E i \in 1 .. Len(mounts[p]) : mounts[p][i] = name
UmountImageBlock(path, name) ==
  /\ verityMounts[path] # <<>>
  /\ verityMounts' = [verityMounts EXCEPT ![path] = SubSeq(@, 1, Len(@) - 1)]
  /\ dmDevices' = IF IsMounted(verityMounts', name) THEN dmDevices
                  ELSE [d \in DOMAIN dmDevices \ {name} |-> dmDevices[d]]
  /\ UNCHANGED runtimeConfig

BundleNext ==
  \/ \E img \in ImageConfigurations, saved \in BOOLEAN : CreateRuntimeConfig(img, saved)
  \/ RemoveBundle
  \/ \E opt \in VerityOptions :
       \/ MountRefused(opt)
       \/ \E path \in MountPaths, failed \in {"none", "load", "resume", "mount"} :
            MountImageBlock(opt, path, failed)
  \/ \E path \in MountPaths, name \in DOMAIN dmDevices : UmountImageBlock(path, name)

BundleSpec == BundleInit /\ [][BundleNext]_bundleVars

-----------------------------------------------------------------------------
(* Properties *)

\* What is mounted is checked block by block: its device is active, and no block of
\* data lies where the hash tree is read.
MountsAreVerified ==
  \A p \in MountPaths : \A i \in 1 .. Len(verityMounts[p]) :
    /\ verityMounts[p][i] \in DOMAIN dmDevices
    /\ LET d == dmDevices[verityMounts[p][i]] IN
       /\ d.active /\ d.sectors > 0
       /\ d.hashStart * d.hashsize >= d.sectors * 512
=============================================================================

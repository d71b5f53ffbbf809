---------------------------- MODULE BlockDevice ----------------------------
(***************************************************************************)
(* The secure mount of block devices by the Confidential Data Hub: one     *)
(* BlockDevice object per request, real_mount with its LUKS2 and ZFS       *)
(* drivers, and umount.  Requests interleave command by command: every     *)
(* handler runs cryptsetup, mkfs, zpool and zfs on a thread of its own,    *)
(* and nothing in the hub excludes two of them.                            *)
(*                                                                         *)
(* The kernel and the tools are what the code makes of them: a mapping or  *)
(* a pool name is taken once, a device that is part of a mapping or of an  *)
(* imported pool is in use, cryptsetup opens a device with the key its     *)
(* header was made with, mount points stack and a symlink does not.  What  *)
(* is on a device is known by the request that made it.                    *)
(***************************************************************************)
EXTENDS Naturals, Sequences, SequencesExt, FiniteSets

CONSTANTS
  Mounts,    \* the requests; also their BlockDevice objects and random names
  Params,    \* what a request may ask for
  Devices,   \* block devices
  DeviceAt,  \* the device a path leads to
  Disk0,     \* what is on the devices at boot
  Faults,    \* the faults that may happen
  None       \* no key, no name, no device

FaultNames == {"command", "crash"}

ASSUME BlockDeviceAssumption ==
  /\ Faults \subseteq FaultNames
  /\ Mounts \cap Devices = {} /\ None \notin Mounts \cup Devices
  /\ \A p \in Params : p.path \in DOMAIN DeviceAt /\ DeviceAt[p.path] \in Devices
  \* A pool and a mapping are not confused by their names.
  /\ \A p, q \in Params : p.name = q.name /\ p.name # None =>
       p.encryption = q.encryption /\ p.name \notin Mounts
  /\ \A p \in Params : p.encryption = "luks2" \/ (p.encryption = "zfs" /\ p.name # None)

VARIABLES
  op,        \* the requests and their objects
  header,    \* the detached LUKS headers in /run, by path
  disk,      \* what is on the devices
  attached,  \* mappings and imported pools: the device behind a name
  target     \* the mount points: what is mounted, the topmost last

vars == <<op, header, disk, attached, target>>

Paths == DOMAIN DeviceAt
Targets == {p.target : p \in Params}
Names == Mounts \cup ({p.name : p \in Params} \ {None})
Keys == Mounts \cup ({p.key : p \in Params} \ {None})
NoParams == [encryption |-> "none"]

Contents == [form : {"blank", "luks2", "zfs", "detached"}, key : Keys \cup {None},
             pool : Names \cup {None}, data : Mounts \cup Devices]

ASSUME DiskAssumption == Disk0 \in [Devices -> Contents]

\* The lists of a BlockDevice: what umount takes down.
NewOp == [pc |-> "idle", p |-> NoParams, mounts |-> {}, temps |-> {}, pairs |-> {},
          pools |-> {}, data |-> None]

Init ==
  /\ op = [b \in Mounts |-> NewOp]
  /\ header = [h \in Paths |-> None]
  /\ disk = Disk0
  /\ attached = [n \in Names |-> None]
  /\ target = [t \in Targets |-> <<>>]

Working == {"key", "header", "format", "open", "link", "mkfs", "mount",
            "zpool", "dataset", "import", "loadKey"}
Undoing == {"umount", "remove", "close", "export"}
Ended == {"failed", "unmounted", "stuck", "gone"}

Goto(b, pc) == op' = [op EXCEPT ![b].pc = pc]
Fail(b) == Goto(b, "failed") /\ UNCHANGED <<header, disk, attached, target>>

Dev(b) == DeviceAt[op[b].p.path]
Empty(b) == op[b].p.source = "empty"

\* A key that is not given is random, and so is the name of the mapping.
Key(b) == IF op[b].p.key = None THEN b ELSE op[b].p.key
Name(b) == IF op[b].p.name = None THEN b ELSE op[b].p.name

InUse(d) == \E n \in Names : attached[n] = d
Serve(b) == target' = [target EXCEPT ![op[b].p.target] = Append(@, [by |-> b, name |-> Name(b)])]

\* The request is answered: its caller sees what is on the device behind the name.
Served(b) == op' = [op EXCEPT ![b].pc = "mounted", ![b].data = disk[attached[Name(b)]].data]

-----------------------------------------------------------------------------
(* real_mount *)

\* A request: the caller does not give a mount point to two requests at a time.
Begin(b, p) ==
  /\ op[b].pc = "idle"
  /\ ~ \E o \in Mounts : op[o].pc \notin Ended \cup {"idle"} /\ op[o].p.target = p.target
  /\ op' = [op EXCEPT ![b].pc = "key", ![b].p = p]
  /\ UNCHANGED <<header, disk, attached, target>>

\* The device and the key are found; what the driver will make is put on the
\* lists of the object before the driver runs.
GetKey(b) ==
  LET p == op[b].p
      luks == p.encryption = "luks2" IN
  /\ op[b].pc = "key"
  /\ op' = [op EXCEPT
       ![b].pc = CASE luks /\ Empty(b) -> "header"
                   [] luks /\ ~Empty(b) -> "open"
                   [] ~luks /\ Empty(b) -> "zpool"
                   [] OTHER -> "import",
       ![b].temps = IF luks /\ p.kind = "device" THEN @ \cup {p.target} ELSE @,
       ![b].mounts = IF luks /\ p.kind # "device" THEN @ \cup {p.target} ELSE @,
       ![b].pools = IF luks THEN @ ELSE @ \cup {p.name}]
  /\ UNCHANGED <<header, disk, attached, target>>

\* The device, the key or a command fails, and the request with it: nothing of
\* what was done is undone.
CommandFails(b) ==
  /\ "command" \in Faults
  /\ op[b].pc \in Working
  /\ Fail(b)

-----------------------------------------------------------------------------
(* Luks2MountParameters::do_mount *)

\* Mutant of PrepareHeader: a header that is there is used again.
ReuseHeader(b) ==
  /\ op[b].pc = "header"
  /\ header' = [header EXCEPT ![op[b].p.path] = b]
  /\ Goto(b, "format")
  /\ UNCHANGED <<disk, attached, target>>

\* Mutant of PrepareHeader: another request's header is waited for.
WaitForHeader(b) ==
  /\ op[b].pc = "header"
  /\ header[op[b].p.path] = None
  /\ header' = [header EXCEPT ![op[b].p.path] = b]
  /\ Goto(b, "format")
  /\ UNCHANGED <<disk, attached, target>>

\* prepare_luks_header_file: the file is created, or the request fails.
PrepareHeader(b) ==
  LET h == op[b].p.path IN
  /\ op[b].pc = "header"
  /\ IF header[h] # None THEN Fail(b)
     ELSE /\ header' = [header EXCEPT ![h] = b]
          /\ Goto(b, "format")
          /\ UNCHANGED <<disk, attached, target>>

\* encrypt_device: the header is made with the key; with integrity the device is
\* written too, and must not be in use.
EncryptDevice(b) ==
  /\ op[b].pc = "format"
  /\ IF op[b].p.integrity /\ InUse(Dev(b)) THEN Fail(b)
     ELSE /\ header' = [header EXCEPT ![op[b].p.path] = Key(b)]
          /\ disk' = IF op[b].p.integrity
                     THEN [disk EXCEPT ![Dev(b)] = [form |-> "detached", key |-> None,
                                                    pool |-> None, data |-> b]]
                     ELSE disk
          /\ Goto(b, "open")
          /\ UNCHANGED <<attached, target>>

\* With a detached header its key counts, otherwise that of the header on the
\* device.
KeyOpens(b) ==
  IF Empty(b) THEN header[op[b].p.path] = Key(b)
  ELSE disk[Dev(b)].form = "luks2" /\ disk[Dev(b)].key = Key(b)

\* Mutant of OpenDevice: a name that is taken is taken to be ours.
OpenAnyway(b) ==
  /\ op[b].pc = "open"
  /\ attached' = IF attached[Name(b)] = None /\ ~InUse(Dev(b)) /\ KeyOpens(b)
                 THEN [attached EXCEPT ![Name(b)] = Dev(b)] ELSE attached
  /\ IF attached'[Name(b)] = None THEN Fail(b)
     ELSE /\ Goto(b, CASE op[b].p.kind = "device" -> "link"
                       [] op[b].p.kind # "device" /\ Empty(b) -> "mkfs"
                       [] OTHER -> "mount")
          /\ UNCHANGED <<header, disk, target>>

\* open_device: the name is free, the device is not in use and the key fits.
OpenDevice(b) ==
  /\ op[b].pc = "open"
  /\ IF attached[Name(b)] # None \/ InUse(Dev(b)) \/ ~KeyOpens(b) THEN Fail(b)
     ELSE /\ attached' = [attached EXCEPT ![Name(b)] = Dev(b)]
          /\ Goto(b, CASE op[b].p.kind = "device" -> "link"
                       [] op[b].p.kind # "device" /\ Empty(b) -> "mkfs"
                       [] OTHER -> "mount")
          /\ UNCHANGED <<header, disk, target>>

\* The target is a symlink to the mapping.
Link(b) ==
  /\ op[b].pc = "link"
  /\ IF target[op[b].p.target] # <<>> THEN Fail(b)
     ELSE Serve(b) /\ Served(b) /\ UNCHANGED <<header, disk, attached>>

\* FsFormatter: a filesystem is made on the device behind the mapping.
Format(b) ==
  /\ op[b].pc = "mkfs"
  /\ disk' = [disk EXCEPT ![attached[Name(b)]] = [form |-> "detached", key |-> None,
                                                  pool |-> None, data |-> b]]
  /\ Goto(b, "mount")
  /\ UNCHANGED <<header, attached, target>>

MountMapping(b) ==
  /\ op[b].pc = "mount"
  /\ Serve(b)
  /\ Served(b)
  /\ UNCHANGED <<header, disk, attached>>

-----------------------------------------------------------------------------
(* ZfsParameters::do_mount *)

\* create_zpool: -f takes any device that is not in use.
CreateZpool(b) ==
  /\ op[b].pc = "zpool"
  /\ IF attached[Name(b)] # None \/ InUse(Dev(b)) THEN Fail(b)
     ELSE /\ attached' = [attached EXCEPT ![Name(b)] = Dev(b)]
          /\ disk' = [disk EXCEPT ![Dev(b)] = [form |-> "zfs", key |-> None, pool |-> Name(b),
                                               data |-> b]]
          /\ Goto(b, "dataset")
          /\ UNCHANGED <<header, target>>

\* create_zdataset encrypts the dataset with the key and mounts it.
CreateZdataset(b) ==
  /\ op[b].pc = "dataset"
  /\ disk' = [disk EXCEPT ![attached[Name(b)]].key = Key(b)]
  /\ Serve(b)
  /\ Served(b)
  /\ UNCHANGED <<header, attached>>

\* import_zpool: the device has a pool of that name, and none is imported.
ImportZpool(b) ==
  /\ op[b].pc = "import"
  /\ IF attached[Name(b)] # None \/ InUse(Dev(b)) \/ disk[Dev(b)].pool # Name(b) THEN Fail(b)
     ELSE /\ attached' = [attached EXCEPT ![Name(b)] = Dev(b)]
          /\ Goto(b, "loadKey")
          /\ UNCHANGED <<header, disk, target>>

\* load_key and mount_dataset.
LoadKey(b) ==
  /\ op[b].pc = "loadKey"
  /\ IF disk[attached[Name(b)]].key # Key(b) THEN Fail(b)
     ELSE Serve(b) /\ Served(b) /\ UNCHANGED <<header, disk, attached>>

-----------------------------------------------------------------------------
(* umount, on an object whose mount has succeeded: first its mounts, then its *)
(* links, mappings and pools; the first error ends it.                        *)

Umount(b) ==
  /\ op[b].pc = "mounted"
  /\ Goto(b, "umount")
  /\ UNCHANGED <<header, disk, attached, target>>

UmountFails(b) ==
  /\ "command" \in Faults
  /\ op[b].pc \in Undoing
  /\ Goto(b, "stuck")
  /\ UNCHANGED <<header, disk, attached, target>>

UmountTargets(b) ==
  /\ op[b].pc = "umount"
  /\ target' = [t \in Targets |-> IF t \in op[b].mounts THEN Front(target[t]) ELSE target[t]]
  /\ Goto(b, "remove")
  /\ UNCHANGED <<header, disk, attached>>

RemovePaths(b) ==
  /\ op[b].pc = "remove"
  /\ target' = [t \in Targets |-> IF t \in op[b].temps THEN <<>> ELSE target[t]]
  /\ Goto(b, "close")
  /\ UNCHANGED <<header, disk, attached>>

CloseDevices(b) ==
  /\ op[b].pc = "close"
  /\ attached' = [n \in Names |-> IF n \in op[b].pairs THEN None ELSE attached[n]]
  /\ Goto(b, "export")
  /\ UNCHANGED <<header, disk, target>>

\* The mount points a dataset of the object's pools is mounted on.
OfPools(b) == {t \in Targets : \E i \in DOMAIN target[t] : target[t][i].name \in op[b].pools}

\* Mutant of ExportZpools: the pools stay.
KeepZpools(b) ==
  /\ op[b].pc = "export"
  /\ Goto(b, "unmounted")
  /\ UNCHANGED <<header, disk, attached, target>>

\* export_zpool: the datasets of the pool are unmounted; below another mount they
\* are busy.
ExportZpools(b) ==
  /\ op[b].pc = "export"
  /\ UNCHANGED <<header, disk>>
  /\ IF \E t \in OfPools(b) : Last(target[t]).name \notin op[b].pools
     THEN Goto(b, "stuck") /\ UNCHANGED <<attached, target>>
     ELSE /\ attached' = [n \in Names |-> IF n \in op[b].pools THEN None ELSE attached[n]]
          /\ target' = [t \in Targets |-> IF t \in OfPools(b) THEN Front(target[t]) ELSE target[t]]
          /\ Goto(b, "unmounted")

-----------------------------------------------------------------------------
\* The hub dies and is started again: its requests and objects are gone, what the
\* kernel and /run hold remains.
Crash ==
  /\ "crash" \in Faults
  /\ op' = [b \in Mounts |-> IF op[b].pc \in Working \cup Undoing \cup {"mounted"}
                             THEN [op[b] EXCEPT !.pc = "gone"] ELSE op[b]]
  /\ op' # op
  /\ UNCHANGED <<header, disk, attached, target>>

Step(b) ==
  \/ GetKey(b) \/ PrepareHeader(b) \/ EncryptDevice(b) \/ OpenDevice(b) \/ Link(b)
  \/ Format(b) \/ MountMapping(b)
  \/ CreateZpool(b) \/ CreateZdataset(b) \/ ImportZpool(b) \/ LoadKey(b)
  \/ UmountTargets(b) \/ RemovePaths(b) \/ CloseDevices(b) \/ ExportZpools(b)

Next ==
  \/ Crash
  \/ \E b \in Mounts : \/ \E p \in Params : Begin(b, p)
                       \/ Step(b) \/ CommandFails(b) \/ Umount(b) \/ UmountFails(b)

Spec == Init /\ [][Next]_vars

\* A command that was started ends.
FairSpec == Spec /\ \A b \in Mounts : WF_vars(Step(b))

-----------------------------------------------------------------------------
(* Properties *)

Points == Working \cup Undoing \cup Ended \cup {"idle", "mounted"}
Ops == [pc : Points, p : Params \cup {NoParams}, mounts : SUBSET Targets,
        temps : SUBSET Targets, pairs : SUBSET Names, pools : SUBSET Names,
        data : Mounts \cup Devices \cup {None}]
Entries == [by : Mounts, name : Names]

\* Every variable has its type.
TypeOK ==
  /\ op \in [Mounts -> Ops]
  /\ header \in [Paths -> Keys \cup {None}]
  /\ disk \in [Devices -> Contents]
  /\ attached \in [Names -> Devices \cup {None}]
  /\ target \in [Targets -> Seq(Entries)]

\* The mount point of a request that was answered leads to the device the request
\* named, whatever other requests use the same mapping name, pool or device.
TargetShowsItsDevice == \A b \in Mounts : op[b].pc = "mounted" =>
  \E i \in DOMAIN target[op[b].p.target] :
     LET e == target[op[b].p.target][i] IN e.by = b /\ attached[e.name] = Dev(b)

\* What is on a mounted device stays on it: no request that comes in meanwhile, for
\* the same device or another, formats it.
MountedDataIsKept == \A b \in Mounts : op[b].pc = "mounted" => disk[Dev(b)].data = op[b].data

\* A device the hub is about to open with the header it has made opens with its key:
\* no other request for the device has made the header anew in between.
OwnHeaderOpens == \A b \in Mounts :
  op[b].pc = "open" /\ Empty(b) => header[op[b].p.path] = Key(b)

\* Neither a mounted device nor one about to be opened loses what its request has
\* put there to another request that formats the same device or makes its header.
DataIsKept == MountedDataIsKept /\ OwnHeaderOpens

\* A request that was not answered yet or is refused has left nothing at its mount
\* point, and an umount that succeeds has taken the device off it, whichever of the
\* lists of the object it was on.
OnlyMountedIsServed == \A b \in Mounts, t \in Targets :
  op[b].pc \in Working \cup {"failed", "unmounted"} =>
    \A i \in DOMAIN target[t] : target[t][i].by # b

\* umount takes down all that the mount has made (blockdevice/mod.rs:126 and 133): the
\* header files and the mappings too.
UmountCleansUp == \A b \in Mounts : op[b].pc = "unmounted" =>
  /\ Name(b) = b => attached[b] = None
  /\ op[b].p.encryption = "luks2" /\ Empty(b) => header[op[b].p.path] = None

\* Every request is answered.
MountsEnd == \A b \in Mounts : op[b].pc \in Working ~> op[b].pc \notin Working
=============================================================================

------------------------- MODULE BlockDeviceProofs -------------------------
(***************************************************************************)
(* Proofs about BlockDevice, for any number of requests, whatever devices, *)
(* paths, names, keys and mount points they name.                          *)
(***************************************************************************)
EXTENDS BlockDevice, TLAPS

-----------------------------------------------------------------------------
(* The inductive invariant.  A request that has attached its name holds it *)
(* and the device behind it until it fails or has been taken down; the     *)
(* three properties follow from no two requests holding the same.          *)

Holding == {"link", "mkfs", "mount", "dataset", "loadKey", "mounted"} \cup Undoing
Heading == {"format", "open"}
Active == Working \cup Undoing \cup {"mounted"}

\* Every request asks for something it may ask for, and its object lists nothing
\* but what it asks for.
Own == \A b \in Mounts :
  /\ op[b].pc = "idle" => op[b] = NewOp
  /\ op[b].pc # "idle" =>
       /\ op[b].p \in Params
       /\ op[b].mounts \cup op[b].temps \subseteq {op[b].p.target}
       /\ op[b].pools \subseteq {Name(b)}
       /\ op[b].pairs = {}

\* The caller's rule about mount points.
TargetsApart == \A b, c \in Mounts :
  b # c /\ op[b].pc \in Active /\ op[c].pc \in Active => op[b].p.target # op[c].p.target

Held == \A b \in Mounts : op[b].pc \in Holding => attached[Name(b)] = Dev(b)

HeldApart == \A b, c \in Mounts :
  b # c /\ op[b].pc \in Holding /\ op[c].pc \in Holding => Name(b) # Name(c) /\ Dev(b) # Dev(c)

\* At the mount point of a request that is answered there is an entry of its own.
Entry(b, i) == target[op[b].p.target][i].by = b /\ target[op[b].p.target][i].name = Name(b)
Shown == \A b \in Mounts : op[b].pc = "mounted" =>
  \E i \in DOMAIN target[op[b].p.target] : Entry(b, i)

\* The headers under way: each has one request.
Headers ==
  /\ \A b \in Mounts : op[b].pc \in Heading /\ Empty(b) => header[op[b].p.path] # None
  /\ \A b, c \in Mounts :
       b # c /\ op[b].pc \in Heading /\ op[c].pc \in Heading /\ Empty(b) /\ Empty(c) =>
         op[b].p.path # op[c].p.path

Formatting == \A b \in Mounts : op[b].pc \in {"header", "format", "mkfs"} => Empty(b)

IInv == /\ TypeOK /\ Own /\ TargetsApart /\ Held /\ HeldApart /\ Shown
        /\ Headers /\ Formatting /\ MountedDataIsKept /\ OwnHeaderOpens

-----------------------------------------------------------------------------
(* What a step of one request leaves alone. *)

Moves(b, pc) ==
  /\ op'[b].pc = pc
  /\ \A c \in Mounts :
       /\ op'[c].p = op[c].p /\ op'[c].mounts = op[c].mounts /\ op'[c].temps = op[c].temps
       /\ op'[c].pools = op[c].pools /\ op'[c].pairs = op[c].pairs
       /\ c # b => op'[c] = op[c]

\* What is asked for can be asked for.
LEMMA Asked ==
  ASSUME TypeOK, Own, NEW b \in Mounts, op[b].pc # "idle"
  PROVE  /\ op[b].p \in Params /\ op[b].p.path \in Paths /\ op[b].p.target \in Targets
         /\ Dev(b) \in Devices /\ Dev(b) # None
         /\ Name(b) \in Names /\ Key(b) \in Keys /\ Key(b) # None
<1>1. op[b].p \in Params
  BY DEF Own
<1>2. op[b].p.path \in Paths /\ Dev(b) \in Devices /\ Dev(b) # None
  BY <1>1, BlockDeviceAssumption DEF Paths, Dev
<1>3. op[b].p.target \in Targets
  BY <1>1 DEF Targets
<1>4. Name(b) \in Names
  BY <1>1 DEF Name, Names
<1>5. Key(b) \in Keys /\ Key(b) # None
  BY <1>1, BlockDeviceAssumption DEF Key, Keys
<1>6. QED
  BY <1>1, <1>2, <1>3, <1>4, <1>5

LEMMA GotoMoves ==
  ASSUME TypeOK, NEW b \in Mounts, NEW pc, Goto(b, pc)
  PROVE  Moves(b, pc) /\ op'[b].data = op[b].data
BY DEF TypeOK, Goto, Moves

LEMMA ServedMoves ==
  ASSUME TypeOK, NEW b \in Mounts, Served(b)
  PROVE  Moves(b, "mounted") /\ op'[b].data = disk[attached[Name(b)]].data
BY DEF TypeOK, Served, Moves

LEMMA SameRequest ==
  ASSUME NEW b \in Mounts, NEW pc, Moves(b, pc), NEW c \in Mounts
  PROVE  /\ Name(c)' = Name(c) /\ Dev(c)' = Dev(c) /\ Key(c)' = Key(c)
         /\ Empty(c)' = Empty(c)
BY DEF Moves, Name, Dev, Key, Empty

\* A step of an active request keeps every part of the invariant whose variable it
\* does not change.
LEMMA Frame ==
  ASSUME IInv, NEW b \in Mounts, NEW pc, Moves(b, pc), op[b].pc \in Active, pc # "idle"
  PROVE  /\ Own' /\ TargetsApart'
         /\ (pc \in Holding => op[b].pc \in Holding) /\ attached' = attached =>
              Held' /\ HeldApart'
         /\ pc # "mounted" /\ target' = target => Shown'
         /\ pc # "mounted" /\ disk' = disk => MountedDataIsKept'
         /\ (pc \in Heading => op[b].pc \in Heading) /\ header' = header => Headers'
         /\ pc # "open" /\ header' = header => OwnHeaderOpens'
         /\ pc \notin {"header", "format", "mkfs"} => Formatting'
<1>. USE DEF IInv
<1>1. \A c \in Mounts : /\ Name(c)' = Name(c) /\ Dev(c)' = Dev(c) /\ Key(c)' = Key(c)
                        /\ Empty(c)' = Empty(c)
  BY SameRequest
<1>2. op[b].pc # "idle"
  BY DEF Active, Working, Undoing
<1>3. \A c \in Mounts : c # b => op'[c] = op[c]
  BY DEF Moves
<1>4. op'[b].pc = pc /\ \A c \in Mounts : op'[c].p = op[c].p
  BY DEF Moves
<1>5. Own'
  BY <1>1, <1>2, <1>3 DEF Own, Moves
<1>6. TargetsApart'
  BY <1>3, <1>4 DEF TargetsApart
<1>7. ASSUME pc \in Holding => op[b].pc \in Holding, attached' = attached
      PROVE  Held' /\ HeldApart'
  BY <1>1, <1>3, <1>4, <1>7 DEF Held, HeldApart
<1>8. ASSUME pc # "mounted", target' = target PROVE Shown'
  BY <1>1, <1>3, <1>4, <1>8 DEF Shown, Entry
<1>9. ASSUME pc # "mounted", disk' = disk PROVE MountedDataIsKept'
  BY <1>1, <1>3, <1>4, <1>9 DEF MountedDataIsKept
<1>10. ASSUME pc \in Heading => op[b].pc \in Heading, header' = header PROVE Headers'
  BY <1>1, <1>3, <1>4, <1>10 DEF Headers
<1>11. ASSUME pc # "open", header' = header PROVE OwnHeaderOpens'
  BY <1>1, <1>3, <1>4, <1>11 DEF OwnHeaderOpens
<1>12. ASSUME pc \notin {"header", "format", "mkfs"} PROVE Formatting'
  BY <1>1, <1>3, <1>4, <1>12 DEF Formatting
<1>13. QED
  BY <1>5, <1>6, <1>7, <1>8, <1>9, <1>10, <1>11, <1>12

\* The points a step must bring something about to enter.
Starts == {"idle", "mounted", "open", "header", "format", "mkfs"}

LEMMA GotoType ==
  ASSUME TypeOK, NEW b \in Mounts, NEW pc \in Points, Goto(b, pc)
  PROVE  op' \in [Mounts -> Ops]
<1>1. op[b] \in Ops
  BY DEF TypeOK
<1>2. [op[b] EXCEPT !.pc = pc] \in Ops
  BY <1>1 DEF Ops
<1>3. op' = [op EXCEPT ![b] = [op[b] EXCEPT !.pc = pc]]
  BY DEF Goto, TypeOK
<1>4. QED
  BY <1>2, <1>3 DEF TypeOK

LEMMA ServedType ==
  ASSUME TypeOK, NEW b \in Mounts, Served(b), attached[Name(b)] \in Devices
  PROVE  op' \in [Mounts -> Ops]
<1> DEFINE x == disk[attached[Name(b)]].data
<1>1. x \in Mounts \cup Devices \cup {None}
  BY DEF TypeOK, Contents
<1>2. "mounted" \in Points
  BY DEF Points
<1>3. op' = [op EXCEPT ![b] = [op[b] EXCEPT !.pc = "mounted", !.data = x]]
  BY DEF Served, TypeOK
<1>. HIDE DEF x
<1>4. op[b] \in Ops
  BY DEF TypeOK
<1>5. [op[b] EXCEPT !.pc = "mounted", !.data = x] \in Ops
  BY <1>1, <1>2, <1>4 DEF Ops
<1>6. QED
  BY <1>3, <1>5 DEF TypeOK

\* A mount point that is served gets an entry of the request on top.
LEMMA Serves ==
  ASSUME TypeOK, NEW b \in Mounts, op[b].p.target \in Targets, Name(b) \in Names, Serve(b)
  PROVE  /\ target' \in [Targets -> Seq(Entries)]
         /\ \A t \in Targets : \A i \in DOMAIN target[t] :
              i \in DOMAIN target'[t] /\ target'[t][i] = target[t][i]
         /\ \E i \in DOMAIN target'[op[b].p.target] :
              /\ target'[op[b].p.target][i].by = b
              /\ target'[op[b].p.target][i].name = Name(b)
<1> DEFINE e == [by |-> b, name |-> Name(b)]
           s == target[op[b].p.target]
<1>1. e \in Entries /\ e.by = b /\ e.name = Name(b)
  BY DEF Entries
<1>2. target \in [Targets -> Seq(Entries)] /\ s \in Seq(Entries)
  BY DEF TypeOK
<1>3. target' = [target EXCEPT ![op[b].p.target] = Append(s, e)]
  BY DEF Serve
<1>. HIDE DEF e, s
<1>4. /\ Append(s, e) \in Seq(Entries)
      /\ Len(s) + 1 \in DOMAIN Append(s, e) /\ Append(s, e)[Len(s) + 1] = e
      /\ \A i \in DOMAIN s : i \in DOMAIN Append(s, e) /\ Append(s, e)[i] = s[i]
  BY <1>1, <1>2
<1>5. target' \in [Targets -> Seq(Entries)]
  BY <1>2, <1>3, <1>4
<1>6. target'[op[b].p.target] = Append(s, e)
  BY <1>2, <1>3
<1>7. ASSUME NEW t \in Targets, NEW i \in DOMAIN target[t]
      PROVE  i \in DOMAIN target'[t] /\ target'[t][i] = target[t][i]
  <2>1. CASE t = op[b].p.target
    BY <1>4, <1>6, <2>1 DEF s
  <2>2. CASE t # op[b].p.target
    BY <1>2, <1>3, <2>2
  <2>3. QED
    BY <2>1, <2>2
<1>8. QED
  BY <1>1, <1>4, <1>5, <1>6, <1>7

\* A step that only moves on keeps the invariant, unless it enters a phase.
LEMMA QuietStep ==
  ASSUME IInv, NEW b \in Mounts, NEW pc \in Points \ Starts,
         op[b].pc \in Active, pc \in Holding => op[b].pc \in Holding,
         Goto(b, pc), UNCHANGED <<header, disk, attached, target>>
  PROVE  IInv'
<1>1. Moves(b, pc)
  BY GotoMoves DEF IInv
<1>2. TypeOK'
  BY GotoType DEF IInv, TypeOK
<1>3. pc \notin Heading
  BY DEF Heading, Starts
<1>4. QED
  BY <1>1, <1>2, <1>3, Frame DEF IInv, Starts

LEMMA FailStep ==
  ASSUME IInv, NEW b \in Mounts, op[b].pc \in Working, Fail(b)
  PROVE  IInv'
<1>1. op[b].pc \in Active
  BY DEF Active
<1>2. "failed" \in Points \ Starts /\ "failed" \notin Holding
  BY DEF Points, Ended, Holding, Undoing, Starts
<1>3. QED
  BY <1>1, <1>2, QuietStep DEF Fail

\* A name that is free and a device that is not in use are taken.
LEMMA AttachStep ==
  ASSUME IInv, NEW b \in Mounts, NEW pc \in {"link", "mkfs", "mount", "dataset", "loadKey"},
         op[b].pc \in Working, Goto(b, pc), pc = "mkfs" => Empty(b),
         attached[Name(b)] = None, ~InUse(Dev(b)),
         attached' = [attached EXCEPT ![Name(b)] = Dev(b)],
         disk' \in [Devices -> Contents],
         \A d \in Devices : d # Dev(b) => disk'[d].data = disk[d].data,
         UNCHANGED <<header, target>>
  PROVE  IInv'
<1>. USE DEF IInv
<1>1. Moves(b, pc) /\ op[b].pc \in Active /\ op[b].pc # "idle" /\ op'[b].data = op[b].data
  BY GotoMoves DEF Active, Working
<1>2. \A c \in Mounts : Name(c)' = Name(c) /\ Dev(c)' = Dev(c) /\ Empty(c)' = Empty(c)
  BY <1>1, SameRequest
<1>3. pc \in Points /\ pc \notin Heading \cup {"idle", "mounted", "open", "header", "format"}
  BY DEF Points, Working, Heading
<1>4. Dev(b) \in Devices /\ Dev(b) # None /\ Name(b) \in Names
  BY <1>1, Asked
<1>5. TypeOK'
  BY <1>3, <1>4, GotoType DEF TypeOK
<1>6. \A c \in Mounts : c # b => op'[c] = op[c]
  BY <1>1 DEF Moves
<1>7. op'[b].pc = pc
  BY <1>1 DEF Moves
<1>8. ASSUME NEW c \in Mounts, c # b, op[c].pc \in Holding
      PROVE  /\ Name(c) \in Names /\ Name(c) # Name(b) /\ Dev(c) # Dev(b)
             /\ attached'[Name(c)] = Dev(c)
  <2>1. op[c].pc # "idle"
    BY <1>8 DEF Holding, Undoing
  <2>2. Name(c) \in Names /\ Dev(c) # None
    BY <2>1, Asked
  <2>3. attached[Name(c)] = Dev(c)
    BY <1>8 DEF Held
  <2>4. Name(c) # Name(b) /\ Dev(c) # Dev(b)
    BY <2>2, <2>3 DEF InUse
  <2>5. QED
    BY <1>4, <2>2, <2>3, <2>4 DEF TypeOK
<1>9. attached'[Name(b)] = Dev(b)
  BY <1>4 DEF TypeOK
<1>10. Held' /\ HeldApart'
  BY <1>2, <1>6, <1>8, <1>9 DEF Held, HeldApart
<1>11. MountedDataIsKept'
  <2>1. SUFFICES ASSUME NEW c \in Mounts, op'[c].pc = "mounted"
                 PROVE  disk'[Dev(c)].data = op'[c].data
    BY <1>2 DEF MountedDataIsKept
  <2>2. c # b /\ op[c].pc = "mounted"
    BY <1>3, <1>6, <1>7, <2>1
  <2>3. op[c].pc # "idle" /\ op[c].pc \in Holding
    BY <2>2 DEF Holding
  <2>4. Dev(c) \in Devices /\ Dev(c) # Dev(b)
    BY <1>8, <2>2, <2>3, Asked
  <2>5. QED
    BY <1>6, <2>2, <2>4 DEF MountedDataIsKept
<1>12. Formatting'
  BY <1>2, <1>3, <1>6, <1>7 DEF Formatting
<1>13. QED
  BY <1>1, <1>3, <1>5, <1>10, <1>11, <1>12, Frame

\* A request is answered: what it holds is served.
LEMMA ServeStep ==
  ASSUME IInv, NEW b \in Mounts, op[b].pc \in Holding \cap Working, Serve(b), Served(b),
         disk' \in [Devices -> Contents],
         \A d \in Devices : disk'[d].data = disk[d].data,
         UNCHANGED <<header, attached>>
  PROVE  IInv'
<1>. USE DEF IInv
<1>1. Moves(b, "mounted") /\ op'[b].data = disk[attached[Name(b)]].data
  BY ServedMoves
<1>2. op[b].pc \in Active /\ op[b].pc # "idle"
  BY DEF Active, Working
<1>3. \A c \in Mounts : Name(c)' = Name(c) /\ Dev(c)' = Dev(c) /\ Empty(c)' = Empty(c)
  BY <1>1, SameRequest
<1>4. /\ Dev(b) \in Devices /\ Name(b) \in Names /\ op[b].p.target \in Targets
      /\ attached[Name(b)] = Dev(b)
  BY <1>2, Asked DEF Held
<1>5. TypeOK'
  BY <1>4, ServedType, Serves DEF TypeOK
<1>6. \A c \in Mounts : c # b => op'[c] = op[c]
  BY <1>1 DEF Moves
<1>7. op'[b].pc = "mounted" /\ \A c \in Mounts : op'[c].p = op[c].p
  BY <1>1 DEF Moves
<1>8. Shown'
  <2>. SUFFICES ASSUME NEW c \in Mounts, op'[c].pc = "mounted"
                PROVE  \E i \in DOMAIN target'[op'[c].p.target] : Entry(c, i)'
    BY DEF Shown
  <2>1. SUFFICES \E i \in DOMAIN target'[op[c].p.target] :
                   /\ target'[op[c].p.target][i].by = c
                   /\ target'[op[c].p.target][i].name = Name(c)
    BY <1>3, <1>7 DEF Entry
  <2>2. CASE c = b
    BY <1>4, <2>2, Serves
  <2>3. CASE c # b
    <3>1. op[c].pc = "mounted" /\ op[c].pc # "idle"
      BY <1>6, <2>3
    <3>2. op[c].p.target \in Targets
      BY <3>1, Asked
    <3>3. PICK i \in DOMAIN target[op[c].p.target] : Entry(c, i)
      BY <3>1 DEF Shown
    <3>4. QED
      BY <1>4, <3>2, <3>3, Serves DEF Entry
  <2>4. QED
    BY <2>2, <2>3
<1>9. MountedDataIsKept'
  <2>1. SUFFICES ASSUME NEW c \in Mounts, op'[c].pc = "mounted"
                 PROVE  disk'[Dev(c)].data = op'[c].data
    BY <1>3 DEF MountedDataIsKept
  <2>2. CASE c = b
    BY <1>1, <1>4, <2>2
  <2>3. CASE c # b
    <3>1. op[c].pc = "mounted" /\ op[c].pc # "idle" /\ op'[c].data = op[c].data
      BY <1>6, <2>1, <2>3
    <3>2. Dev(c) \in Devices
      BY <3>1, Asked
    <3>3. QED
      BY <3>1, <3>2 DEF MountedDataIsKept
  <2>4. QED
    BY <2>2, <2>3
<1>10. "mounted" \notin Heading \cup {"idle", "open", "header", "format", "mkfs"}
  BY DEF Heading
<1>11. op[b].pc \in Holding
  OBVIOUS
<1>12. QED
  BY <1>1, <1>2, <1>5, <1>8, <1>9, <1>10, <1>11, Frame

-----------------------------------------------------------------------------
(* The steps. *)

LEMMA InitInv ==
  ASSUME Init
  PROVE  IInv
<1>1. "idle" \in Points
  BY DEF Points
<1>2. NewOp \in Ops
  BY <1>1 DEF NewOp, Ops
<1>3. TypeOK
  BY <1>2, DiskAssumption DEF Init, TypeOK
<1>4. \A b \in Mounts : op[b] = NewOp /\ op[b].pc = "idle"
  BY DEF Init, NewOp
<1>5. "idle" \notin Active \cup Holding \cup Heading \cup {"open", "mounted", "header", "format", "mkfs"}
  BY DEF Active, Working, Undoing, Holding, Heading
<1>6. QED
  BY <1>3, <1>4, <1>5
     DEF IInv, Own, TargetsApart, Held, HeldApart, Shown, Headers, Formatting,
         MountedDataIsKept, OwnHeaderOpens

LEMMA BeginStep ==
  ASSUME IInv, NEW b \in Mounts, NEW p \in Params, Begin(b, p)
  PROVE  IInv'
<1>. USE DEF IInv
<1>1. op[b] = NewOp
  BY DEF Begin, Own
<1>2. "key" \in Points /\ "key" \in Active
  BY DEF Points, Active, Working
<1>3. "key" \notin Holding \cup Heading \cup {"idle", "open", "mounted", "header", "format", "mkfs"}
  BY DEF Holding, Heading, Undoing
<1>4. op' = [op EXCEPT ![b] = [op[b] EXCEPT !.pc = "key", !.p = p]]
  BY DEF Begin, TypeOK
<1>5. op[b] \in Ops /\ [op[b] EXCEPT !.pc = "key", !.p = p] \in Ops
  BY <1>2 DEF TypeOK, Ops
<1>6. TypeOK'
  BY <1>4, <1>5 DEF Begin, TypeOK
<1>7. \A c \in Mounts : c # b => op'[c] = op[c]
  BY <1>4 DEF TypeOK
<1>8. /\ op'[b].pc = "key" /\ op'[b].p = p /\ op'[b].pairs = {}
      /\ op'[b].mounts = {} /\ op'[b].temps = {} /\ op'[b].pools = {}
  BY <1>1, <1>4, <1>5 DEF TypeOK, Ops, NewOp
<1>9. \A c \in Mounts : c # b =>
        Name(c)' = Name(c) /\ Dev(c)' = Dev(c) /\ Key(c)' = Key(c) /\ Empty(c)' = Empty(c)
  BY <1>7 DEF Name, Dev, Key, Empty
<1>10. Own'
  BY <1>3, <1>7, <1>8, <1>9 DEF Own
<1>11. TargetsApart'
  <2>1. Active \cap (Ended \cup {"idle"}) = {}
    BY DEF Active, Working, Undoing, Ended
  <2>2. \A c \in Mounts : op[c].pc \in Active => op[c].p.target # p.target
    BY <2>1 DEF Begin
  <2>3. QED
    BY <1>7, <1>8, <2>2 DEF TargetsApart
<1>12. UNCHANGED <<header, disk, attached, target>>
  BY DEF Begin
<1>13. Held' /\ HeldApart' /\ Shown'
  BY <1>3, <1>7, <1>8, <1>9, <1>12 DEF Held, HeldApart, Shown, Entry
<1>14. Headers' /\ Formatting' /\ MountedDataIsKept' /\ OwnHeaderOpens'
  BY <1>3, <1>7, <1>8, <1>9, <1>12 DEF Headers, Formatting, MountedDataIsKept, OwnHeaderOpens
<1>15. QED
  BY <1>6, <1>10, <1>11, <1>13, <1>14

LEMMA GetKeyStep ==
  ASSUME IInv, NEW b \in Mounts, GetKey(b)
  PROVE  IInv'
<1>. USE DEF IInv
<1> DEFINE p == op[b].p
           luks == p.encryption = "luks2"
           pc == CASE luks /\ Empty(b) -> "header"
                   [] luks /\ ~Empty(b) -> "open"
                   [] ~luks /\ Empty(b) -> "zpool"
                   [] OTHER -> "import"
           temps == IF luks /\ p.kind = "device" THEN op[b].temps \cup {p.target} ELSE op[b].temps
           mounts == IF luks /\ p.kind # "device" THEN op[b].mounts \cup {p.target}
                     ELSE op[b].mounts
           pools == IF luks THEN op[b].pools ELSE op[b].pools \cup {p.name}
<1>1. op[b].pc = "key" /\ op[b].pc # "idle" /\ op[b].pc \in Active
  BY DEF GetKey, Active, Working
<1>2. /\ p \in Params /\ p.target \in Targets /\ Name(b) \in Names
      /\ ~luks => p.name = Name(b)
  <2>1. p \in Params /\ p.target \in Targets /\ Name(b) \in Names
    BY <1>1, Asked
  <2>2. ASSUME ~luks PROVE p.name # None
    BY <2>1, <2>2, BlockDeviceAssumption
  <2>3. QED
    BY <2>1, <2>2 DEF Name
<1>3. /\ pc \in {"header", "open", "zpool", "import"}
      /\ pc = "header" => Empty(b)
      /\ pc = "open" => ~Empty(b)
  OBVIOUS
<1>4. /\ temps \subseteq {p.target} /\ mounts \subseteq {p.target} /\ pools \subseteq {Name(b)}
  BY <1>1, <1>2 DEF Own
<1>5. op' = [op EXCEPT ![b] = [op[b] EXCEPT !.pc = pc, !.temps = temps, !.mounts = mounts,
                                            !.pools = pools]]
  BY DEF GetKey, TypeOK
<1>. HIDE DEF pc, temps, mounts, pools, luks
<1>6. pc \in Points \cap Active /\ pc \notin Holding \cup {"idle", "format", "mkfs", "mounted"}
  BY <1>3 DEF Points, Active, Working, Holding, Undoing
<1>7. op[b] \in Ops
  BY DEF TypeOK
<1>8. [op[b] EXCEPT !.pc = pc, !.temps = temps, !.mounts = mounts, !.pools = pools] \in Ops
  BY <1>2, <1>4, <1>6, <1>7 DEF Ops
<1>9. UNCHANGED <<header, disk, attached, target>>
  BY DEF GetKey
<1>10. TypeOK'
  BY <1>5, <1>8, <1>9 DEF TypeOK
<1>11. \A c \in Mounts : c # b => op'[c] = op[c]
  BY <1>5 DEF TypeOK
<1>12. /\ op'[b].pc = pc /\ op'[b].p = p /\ op'[b].pairs = op[b].pairs
       /\ op'[b].mounts = mounts /\ op'[b].temps = temps /\ op'[b].pools = pools
  BY <1>5, <1>7 DEF TypeOK, Ops
<1>13. \A c \in Mounts : /\ Name(c)' = Name(c) /\ Dev(c)' = Dev(c) /\ Key(c)' = Key(c)
                         /\ Empty(c)' = Empty(c)
  BY <1>11, <1>12 DEF Name, Dev, Key, Empty
<1>14. Own'
  BY <1>1, <1>2, <1>4, <1>6, <1>11, <1>12, <1>13 DEF Own
<1>15. TargetsApart'
  BY <1>1, <1>11, <1>12 DEF TargetsApart
<1>16. Held' /\ HeldApart' /\ Shown'
  BY <1>6, <1>9, <1>11, <1>12, <1>13 DEF Held, HeldApart, Shown, Entry
<1>17. MountedDataIsKept' /\ Formatting'
  BY <1>3, <1>6, <1>9, <1>11, <1>12, <1>13 DEF Formatting, MountedDataIsKept
<1>18. pc \in Heading => ~Empty(b)
  BY <1>3 DEF Heading
<1>19. Headers' /\ OwnHeaderOpens'
  BY <1>3, <1>9, <1>11, <1>12, <1>13, <1>18 DEF Headers, OwnHeaderOpens
<1>20. QED
  BY <1>10, <1>14, <1>15, <1>16, <1>17, <1>19

LEMMA PrepareHeaderStep ==
  ASSUME IInv, NEW b \in Mounts, PrepareHeader(b)
  PROVE  IInv'
<1>. USE DEF IInv
<1> DEFINE h == op[b].p.path
<1>1. op[b].pc \in Working \cap Active /\ op[b].pc # "idle" /\ op[b].pc = "header"
  BY DEF PrepareHeader, Active, Working
<1>2. CASE header[h] # None
  BY <1>1, <1>2, FailStep DEF PrepareHeader
<1>3. CASE header[h] = None
  <2>1. /\ header' = [header EXCEPT ![h] = b] /\ Goto(b, "format")
        /\ UNCHANGED <<disk, attached, target>>
    BY <1>3 DEF PrepareHeader
  <2>2. Moves(b, "format")
    BY <2>1, GotoMoves
  <2>3. "format" \in Points /\ "format" \notin Holding \cup {"idle", "open", "mounted"}
    BY DEF Points, Working, Holding, Undoing
  <2>4. h \in Paths /\ b \in Keys /\ b # None
    BY <1>1, Asked, BlockDeviceAssumption DEF Keys
  <2>5. TypeOK'
    BY <2>1, <2>3, <2>4, GotoType DEF TypeOK
  <2>6. \A c \in Mounts : /\ Key(c)' = Key(c) /\ Empty(c)' = Empty(c) /\ op'[c].p = op[c].p
                          /\ c # b => op'[c] = op[c]
    BY <2>2, SameRequest DEF Moves
  <2>7. op'[b].pc = "format"
    BY <2>2 DEF Moves
  <2>8. ASSUME NEW c \in Mounts, c # b, op[c].pc \in Heading, Empty(c)
        PROVE  op[c].p.path # h /\ header'[op[c].p.path] = header[op[c].p.path]
    <3>1. op[c].p.path \in Paths
      BY <2>8, Asked DEF Heading
    <3>2. header[op[c].p.path] # None
      BY <2>8 DEF Headers
    <3>3. QED
      BY <1>3, <2>1, <3>1, <3>2 DEF TypeOK
  <2>9. header'[h] = b
    BY <2>1, <2>4 DEF TypeOK
  <2>10. Headers'
    <3>1. \A c \in Mounts : op'[c].pc \in Heading /\ Empty(c)' => header'[op'[c].p.path] # None
      <4>1. SUFFICES ASSUME NEW c \in Mounts, op'[c].pc \in Heading, Empty(c)
                     PROVE  header'[op[c].p.path] # None
        BY <2>6
      <4>2. CASE c = b
        BY <2>4, <2>9, <4>2
      <4>3. CASE c # b
        BY <2>6, <2>8, <4>1, <4>3 DEF Headers
      <4>4. QED
        BY <4>2, <4>3
    <3>2. \A c, d \in Mounts :
            c # d /\ op'[c].pc \in Heading /\ op'[d].pc \in Heading /\ Empty(c)' /\ Empty(d)' =>
              op'[c].p.path # op'[d].p.path
      BY <2>6, <2>8 DEF Headers
    <3>3. QED
      BY <3>1, <3>2 DEF Headers
  <2>11. OwnHeaderOpens'
    <3>1. SUFFICES ASSUME NEW c \in Mounts, op'[c].pc = "open", Empty(c)
                   PROVE  header'[op[c].p.path] = Key(c)
      BY <2>6 DEF OwnHeaderOpens
    <3>2. c # b /\ op[c].pc = "open" /\ op[c].pc \in Heading
      BY <2>6, <2>7, <3>1 DEF Heading
    <3>3. QED
      BY <2>8, <3>1, <3>2 DEF OwnHeaderOpens
  <2>12. Formatting'
    BY <1>1, <2>6, <2>7 DEF Formatting
  <2>13. QED
    BY <1>1, <2>1, <2>2, <2>3, <2>5, <2>10, <2>11, <2>12, Frame
<1>4. QED
  BY <1>2, <1>3

\* What is on a device in use stays, and so does the data of every request answered.
LEMMA DataStays ==
  ASSUME IInv, NEW b \in Mounts, NEW pc \in Points \ {"mounted"}, Moves(b, pc), NEW d \in Devices,
         \A c \in Mounts : c # b /\ op[c].pc \in Holding => Dev(c) # d,
         \A e \in Devices : e # d => disk'[e].data = disk[e].data
  PROVE  MountedDataIsKept'
<1>. USE DEF IInv
<1>1. SUFFICES ASSUME NEW c \in Mounts, op'[c].pc = "mounted"
               PROVE  disk'[Dev(c)].data = op'[c].data
  BY SameRequest DEF MountedDataIsKept
<1>2. c # b /\ op'[c] = op[c] /\ op[c].pc = "mounted"
  BY <1>1 DEF Moves
<1>3. op[c].pc # "idle" /\ op[c].pc \in Holding
  BY <1>2 DEF Holding
<1>4. Dev(c) \in Devices /\ Dev(c) # d
  BY <1>2, <1>3, Asked
<1>5. QED
  BY <1>2, <1>4 DEF MountedDataIsKept

LEMMA EncryptDeviceStep ==
  ASSUME IInv, NEW b \in Mounts, EncryptDevice(b)
  PROVE  IInv'
<1>. USE DEF IInv
<1> DEFINE h == op[b].p.path
           new == [form |-> "detached", key |-> None, pool |-> None, data |-> b]
<1>1. op[b].pc \in Working \cap Active /\ op[b].pc # "idle" /\ op[b].pc = "format" /\ Empty(b)
  BY DEF EncryptDevice, Active, Working, Formatting
<1>2. CASE op[b].p.integrity /\ InUse(Dev(b))
  BY <1>1, <1>2, FailStep DEF EncryptDevice
<1>3. CASE ~(op[b].p.integrity /\ InUse(Dev(b)))
  <2>1. /\ header' = [header EXCEPT ![h] = Key(b)] /\ Goto(b, "open")
        /\ disk' = IF op[b].p.integrity THEN [disk EXCEPT ![Dev(b)] = new] ELSE disk
        /\ UNCHANGED <<attached, target>>
    BY <1>3 DEF EncryptDevice
  <2>2. Moves(b, "open")
    BY <2>1, GotoMoves
  <2>3. "open" \in Points /\ "open" \notin Holding \cup {"idle", "header", "format", "mkfs", "mounted"}
    BY DEF Points, Working, Holding, Undoing
  <2>4. h \in Paths /\ Key(b) \in Keys /\ Key(b) # None /\ Dev(b) \in Devices
    BY <1>1, Asked
  <2>5. new \in Contents
    BY DEF Contents
  <2>. HIDE DEF new
  <2>6. disk' \in [Devices -> Contents]
    BY <2>1, <2>5 DEF TypeOK
  <2>7. TypeOK'
    BY <2>1, <2>3, <2>4, <2>6, GotoType DEF TypeOK
  <2>8. \A c \in Mounts : /\ Key(c)' = Key(c) /\ Empty(c)' = Empty(c) /\ op'[c].p = op[c].p
                          /\ c # b => op'[c] = op[c]
    BY <2>2, SameRequest DEF Moves
  <2>9. op'[b].pc = "open"
    BY <2>2 DEF Moves
  <2>10. ASSUME NEW c \in Mounts, c # b, op[c].pc \in Heading, Empty(c)
         PROVE  op[c].p.path # h /\ header'[op[c].p.path] = header[op[c].p.path]
    <3>1. op[c].p.path \in Paths
      BY <2>10, Asked DEF Heading
    <3>2. op[c].p.path # h
      BY <1>1, <2>10 DEF Headers, Heading
    <3>3. QED
      BY <2>1, <3>1, <3>2 DEF TypeOK
  <2>11. header'[h] = Key(b)
    BY <2>1, <2>4 DEF TypeOK
  <2>12. Headers'
    <3>1. \A c \in Mounts : op'[c].pc \in Heading /\ Empty(c)' => header'[op'[c].p.path] # None
      <4>1. SUFFICES ASSUME NEW c \in Mounts, op'[c].pc \in Heading, Empty(c)
                     PROVE  header'[op[c].p.path] # None
        BY <2>8
      <4>2. CASE c = b
        BY <2>4, <2>11, <4>2
      <4>3. CASE c # b
        BY <2>8, <2>10, <4>1, <4>3 DEF Headers
      <4>4. QED
        BY <4>2, <4>3
    <3>2. \A c, d \in Mounts :
            c # d /\ op'[c].pc \in Heading /\ op'[d].pc \in Heading /\ Empty(c)' /\ Empty(d)' =>
              op'[c].p.path # op'[d].p.path
      BY <2>8, <2>10 DEF Headers
    <3>3. QED
      BY <3>1, <3>2 DEF Headers
  <2>13. OwnHeaderOpens'
    <3>1. SUFFICES ASSUME NEW c \in Mounts, op'[c].pc = "open", Empty(c)
                   PROVE  header'[op[c].p.path] = Key(c)
      BY <2>8 DEF OwnHeaderOpens
    <3>2. CASE c = b
      BY <2>11, <3>2
    <3>3. CASE c # b
      <4>1. op[c].pc = "open" /\ op[c].pc \in Heading
        BY <2>8, <3>1, <3>3 DEF Heading
      <4>2. QED
        BY <2>10, <3>1, <3>3, <4>1 DEF OwnHeaderOpens
    <3>4. QED
      BY <3>2, <3>3
  <2>14. MountedDataIsKept'
    <3>1. CASE op[b].p.integrity
      <4>1. \A c \in Mounts : c # b /\ op[c].pc \in Holding => Dev(c) # Dev(b)
        <5>1. SUFFICES ASSUME NEW c \in Mounts, op[c].pc \in Holding PROVE Dev(c) # Dev(b)
          OBVIOUS
        <5>2. op[c].pc # "idle"
          BY <5>1 DEF Holding, Undoing
        <5>3. Name(c) \in Names /\ attached[Name(c)] = Dev(c)
          BY <5>1, <5>2, Asked DEF Held
        <5>4. QED
          BY <1>3, <3>1, <5>3 DEF InUse
      <4>2. \A e \in Devices : e # Dev(b) => disk'[e].data = disk[e].data
        BY <2>1, <3>1 DEF TypeOK
      <4>3. QED
        BY <2>2, <2>3, <2>4, <4>1, <4>2, DataStays
    <3>2. CASE ~op[b].p.integrity
      BY <1>1, <2>1, <2>2, <2>3, <3>2, Frame
    <3>3. QED
      BY <3>1, <3>2
  <2>15. QED
    BY <1>1, <2>1, <2>2, <2>3, <2>7, <2>12, <2>13, <2>14, Frame
<1>4. QED
  BY <1>2, <1>3

LEMMA OpenDeviceStep ==
  ASSUME IInv, NEW b \in Mounts, OpenDevice(b)
  PROVE  IInv'
<1>1. op[b].pc \in Working /\ Dev(b) = Dev(b)
  BY DEF OpenDevice, Working
<1>2. CASE attached[Name(b)] # None \/ InUse(Dev(b)) \/ ~KeyOpens(b)
  BY <1>1, <1>2, FailStep DEF OpenDevice
<1>3. CASE ~(attached[Name(b)] # None \/ InUse(Dev(b)) \/ ~KeyOpens(b))
  <2> DEFINE pc == CASE op[b].p.kind = "device" -> "link"
                     [] op[b].p.kind # "device" /\ Empty(b) -> "mkfs"
                     [] OTHER -> "mount"
  <2>1. pc \in {"link", "mkfs", "mount", "dataset", "loadKey"} /\ (pc = "mkfs" => Empty(b))
    OBVIOUS
  <2>2. /\ attached' = [attached EXCEPT ![Name(b)] = Dev(b)] /\ Goto(b, pc)
        /\ UNCHANGED <<header, disk, target>>
    BY <1>3 DEF OpenDevice
  <2>. HIDE DEF pc
  <2>3. disk' \in [Devices -> Contents]
    BY <2>2 DEF IInv, TypeOK
  <2>4. QED
    BY <1>1, <1>3, <2>1, <2>2, <2>3, AttachStep
<1>4. QED
  BY <1>2, <1>3

LEMMA CreateZpoolStep ==
  ASSUME IInv, NEW b \in Mounts, CreateZpool(b)
  PROVE  IInv'
<1>1. op[b].pc \in Working /\ op[b].pc # "idle"
  BY DEF CreateZpool, Working
<1>2. CASE attached[Name(b)] # None \/ InUse(Dev(b))
  BY <1>1, <1>2, FailStep DEF CreateZpool
<1>3. CASE ~(attached[Name(b)] # None \/ InUse(Dev(b)))
  <2> DEFINE new == [form |-> "zfs", key |-> None, pool |-> Name(b), data |-> b]
  <2>1. /\ attached' = [attached EXCEPT ![Name(b)] = Dev(b)] /\ Goto(b, "dataset")
        /\ disk' = [disk EXCEPT ![Dev(b)] = new]
        /\ UNCHANGED <<header, target>>
    BY <1>3 DEF CreateZpool
  <2>2. Name(b) \in Names
    BY <1>1, Asked DEF IInv
  <2>3. new \in Contents
    BY <2>2 DEF Contents
  <2>. HIDE DEF new
  <2>4. /\ disk' \in [Devices -> Contents]
        /\ \A d \in Devices : d # Dev(b) => disk'[d].data = disk[d].data
    BY <2>1, <2>3 DEF IInv, TypeOK
  <2>5. QED
    BY <1>1, <1>3, <2>1, <2>4, AttachStep
<1>4. QED
  BY <1>2, <1>3

LEMMA ImportZpoolStep ==
  ASSUME IInv, NEW b \in Mounts, ImportZpool(b)
  PROVE  IInv'
<1>1. op[b].pc \in Working
  BY DEF ImportZpool, Working
<1>2. CASE attached[Name(b)] # None \/ InUse(Dev(b)) \/ disk[Dev(b)].pool # Name(b)
  BY <1>1, <1>2, FailStep DEF ImportZpool
<1>3. CASE ~(attached[Name(b)] # None \/ InUse(Dev(b)) \/ disk[Dev(b)].pool # Name(b))
  <2>1. /\ attached' = [attached EXCEPT ![Name(b)] = Dev(b)] /\ Goto(b, "loadKey")
        /\ UNCHANGED <<header, disk, target>>
    BY <1>3 DEF ImportZpool
  <2>2. disk' \in [Devices -> Contents]
    BY <2>1 DEF IInv, TypeOK
  <2>3. QED
    BY <1>1, <1>3, <2>1, <2>2, AttachStep
<1>4. QED
  BY <1>2, <1>3

LEMMA ServeSteps ==
  ASSUME IInv, NEW b \in Mounts,
         Link(b) \/ MountMapping(b) \/ CreateZdataset(b) \/ LoadKey(b)
  PROVE  IInv'
<1>1. op[b].pc \in Holding \cap Working /\ op[b].pc # "idle"
  BY DEF Link, MountMapping, CreateZdataset, LoadKey, Holding, Working
<1>2. CASE Fail(b)
  BY <1>1, <1>2, FailStep
<1>3. CASE CreateZdataset(b)
  <2>1. Key(b) \in Keys
    BY <1>1, Asked DEF IInv
  <2>2. /\ disk' = [disk EXCEPT ![attached[Name(b)]].key = Key(b)] /\ Serve(b) /\ Served(b)
        /\ UNCHANGED <<header, attached>>
    BY <1>3 DEF CreateZdataset
  <2>3. disk \in [Devices -> Contents]
    BY DEF IInv, TypeOK
  <2> DEFINE x == attached[Name(b)]
             new == [disk[x] EXCEPT !.key = Key(b)]
  <2>4. x = Dev(b) /\ x \in Devices
    BY <1>1, Asked DEF IInv, Held
  <2>5. new \in Contents /\ new.data = disk[x].data
    BY <2>1, <2>3, <2>4 DEF Contents
  <2>6. disk' = [disk EXCEPT ![x] = new]
    BY <2>2, <2>3
  <2>. HIDE DEF x, new
  <2>7. /\ disk' \in [Devices -> Contents]
        /\ \A d \in Devices : disk'[d].data = disk[d].data
    BY <2>3, <2>4, <2>5, <2>6
  <2>8. QED
    BY <1>1, <2>2, <2>7, ServeStep
<1>4. CASE ~Fail(b) /\ ~CreateZdataset(b)
  <2>1. Serve(b) /\ Served(b) /\ UNCHANGED <<header, disk, attached>>
    BY <1>4 DEF Link, MountMapping, LoadKey
  <2>2. disk' \in [Devices -> Contents] /\ \A d \in Devices : disk'[d].data = disk[d].data
    BY <2>1 DEF IInv, TypeOK
  <2>3. QED
    BY <1>1, <2>1, <2>2, ServeStep
<1>5. QED
  BY <1>2, <1>3, <1>4

LEMMA FormatStep ==
  ASSUME IInv, NEW b \in Mounts, Format(b)
  PROVE  IInv'
<1>. USE DEF IInv
<1> DEFINE new == [form |-> "detached", key |-> None, pool |-> None, data |-> b]
<1>1. op[b].pc = "mkfs" /\ op[b].pc \in Holding \cap Active /\ op[b].pc # "idle"
  BY DEF Format, Holding, Active, Working
<1>2. Goto(b, "mount") /\ UNCHANGED <<header, attached, target>>
  BY DEF Format
<1>3. attached[Name(b)] = Dev(b) /\ Dev(b) \in Devices
  BY <1>1, Asked DEF Held
<1>4. disk' = [disk EXCEPT ![Dev(b)] = new]
  BY <1>3 DEF Format
<1>5. new \in Contents
  BY DEF Contents
<1>. HIDE DEF new
<1>6. "mount" \in Points \ {"mounted"} /\ "mount" \notin Heading \cup Starts
  BY DEF Points, Working, Heading, Starts
<1>7. TypeOK'
  BY <1>2, <1>4, <1>5, <1>6, GotoType DEF TypeOK
<1>8. Moves(b, "mount")
  BY <1>2, GotoMoves
<1>9. /\ \A c \in Mounts : c # b /\ op[c].pc \in Holding => Dev(c) # Dev(b)
      /\ \A d \in Devices : d # Dev(b) => disk'[d].data = disk[d].data
  BY <1>1, <1>4 DEF HeldApart, TypeOK
<1>10. MountedDataIsKept'
  BY <1>3, <1>6, <1>8, <1>9, DataStays
<1>11. QED
  BY <1>1, <1>2, <1>6, <1>7, <1>8, <1>10, Frame DEF Starts

\* While a request is answered, what other requests take down is theirs.
LEMMA ShownStays ==
  ASSUME IInv, NEW b \in Mounts, NEW pc \in Points \ {"mounted"}, Moves(b, pc),
         \A c \in Mounts : c # b /\ op[c].pc = "mounted" =>
           \A i \in DOMAIN target[op[c].p.target] : Entry(c, i) =>
             /\ i \in DOMAIN target'[op[c].p.target]
             /\ target'[op[c].p.target][i] = target[op[c].p.target][i]
  PROVE  Shown'
<1>1. \A c \in Mounts : op'[c].pc = "mounted" => c # b /\ op'[c] = op[c]
  BY DEF Moves
<1>2. \A c \in Mounts : Name(c)' = Name(c)
  BY SameRequest
<1>3. SUFFICES ASSUME NEW c \in Mounts, op'[c].pc = "mounted"
               PROVE  \E i \in DOMAIN target'[op[c].p.target] :
                        /\ target'[op[c].p.target][i].by = c
                        /\ target'[op[c].p.target][i].name = Name(c)
  BY <1>1, <1>2 DEF Shown, Entry
<1>4. c # b /\ op[c].pc = "mounted"
  BY <1>1, <1>3
<1>5. PICK i \in DOMAIN target[op[c].p.target] : Entry(c, i)
  BY <1>4 DEF IInv, Shown
<1>6. QED
  BY <1>4, <1>5 DEF Entry

LEMMA FrontOf ==
  ASSUME NEW s \in Seq(Entries)
  PROVE  /\ Front(s) \in Seq(Entries)
         /\ \A i \in DOMAIN s : i # Len(s) => i \in DOMAIN Front(s) /\ Front(s)[i] = s[i]
BY DEF Front

LEMMA UmountStep ==
  ASSUME IInv, NEW b \in Mounts,
         Umount(b) \/ UmountFails(b) \/ CloseDevices(b) \/ CommandFails(b)
  PROVE  IInv'
<1>1. CASE CommandFails(b)
  BY <1>1, FailStep DEF CommandFails
<1>2. CASE Umount(b)
  <2>1. op[b].pc \in Active \cap Holding
    BY <1>2 DEF Umount, Active, Holding
  <2>2. "umount" \in Points \ Starts
    BY DEF Points, Undoing, Starts
  <2>3. QED
    BY <1>2, <2>1, <2>2, QuietStep DEF Umount
<1>3. CASE UmountFails(b)
  <2>1. op[b].pc \in Active
    BY <1>3 DEF UmountFails, Active
  <2>2. "stuck" \in Points \ Starts /\ "stuck" \notin Holding
    BY DEF Points, Ended, Holding, Undoing, Starts
  <2>3. QED
    BY <1>3, <2>1, <2>2, QuietStep DEF UmountFails
<1>4. CASE CloseDevices(b)
  <2>1. op[b].pc \in Active \cap Holding /\ op[b].pc # "idle"
    BY <1>4 DEF CloseDevices, Active, Holding, Undoing
  <2>2. "export" \in Points \ Starts
    BY DEF Points, Undoing, Starts
  <2>3. op[b].pairs = {}
    BY <2>1 DEF IInv, Own
  <2>4. attached' = [n \in Names |-> attached[n]]
    BY <1>4, <2>3 DEF CloseDevices
  <2>5. attached' = attached
    BY <2>4 DEF IInv, TypeOK
  <2>6. QED
    BY <1>4, <2>1, <2>2, <2>5, QuietStep DEF CloseDevices
<1>5. QED
  BY <1>1, <1>2, <1>3, <1>4

\* Taking entries off the mount point of its own request only.
LEMMA TakeDownStep ==
  ASSUME IInv, NEW b \in Mounts, UmountTargets(b) \/ RemovePaths(b)
  PROVE  IInv'
<1>. USE DEF IInv
<1>1. op[b].pc \in Active \cap Holding /\ op[b].pc # "idle"
  BY DEF UmountTargets, RemovePaths, Active, Holding, Undoing
<1>2. PICK pc \in {"remove", "close"} : Goto(b, pc)
  BY DEF UmountTargets, RemovePaths
<1>3. pc \in Points \ {"mounted"} /\ pc \notin Starts \cup Heading
  BY DEF Points, Undoing, Starts, Heading
<1>4. UNCHANGED <<header, disk, attached>>
  BY DEF UmountTargets, RemovePaths
<1>5. Moves(b, pc)
  BY <1>2, GotoMoves
<1>6. target \in [Targets -> Seq(Entries)]
  BY DEF TypeOK
<1>7. /\ target' \in [Targets -> Seq(Entries)]
      /\ \A t \in Targets : t # op[b].p.target => target'[t] = target[t]
  <2>1. CASE UmountTargets(b)
    <3>1. target' = [t \in Targets |-> IF t \in op[b].mounts THEN Front(target[t]) ELSE target[t]]
      BY <2>1 DEF UmountTargets
    <3>2. \A t \in Targets : Front(target[t]) \in Seq(Entries) /\ target[t] \in Seq(Entries)
      BY <1>6, FrontOf
    <3>3. op[b].mounts \subseteq {op[b].p.target}
      BY <1>1 DEF Own
    <3>4. QED
      BY <3>1, <3>2, <3>3
  <2>2. CASE RemovePaths(b)
    <3>1. target' = [t \in Targets |-> IF t \in op[b].temps THEN <<>> ELSE target[t]]
      BY <2>2 DEF RemovePaths
    <3>2. op[b].temps \subseteq {op[b].p.target}
      BY <1>1 DEF Own
    <3>3. QED
      BY <1>6, <3>1, <3>2
  <2>3. QED
    BY <2>1, <2>2
<1>8. \A c \in Mounts : c # b /\ op[c].pc = "mounted" =>
        op[c].p.target \in Targets /\ op[c].p.target # op[b].p.target
  <2>1. SUFFICES ASSUME NEW c \in Mounts, c # b, op[c].pc = "mounted"
                 PROVE  op[c].p.target \in Targets /\ op[c].p.target # op[b].p.target
    OBVIOUS
  <2>2. op[c].pc # "idle" /\ op[c].pc \in Active
    BY <2>1 DEF Active
  <2>3. QED
    BY <1>1, <2>1, <2>2, Asked DEF TargetsApart
<1>9. Shown'
  BY <1>3, <1>5, <1>7, <1>8, ShownStays
<1>10. TypeOK'
  BY <1>2, <1>3, <1>4, <1>7, GotoType DEF TypeOK
<1>11. QED
  BY <1>1, <1>3, <1>4, <1>5, <1>9, <1>10, Frame DEF Starts

LEMMA ExportStep ==
  ASSUME IInv, NEW b \in Mounts, ExportZpools(b)
  PROVE  IInv'
<1>. USE DEF IInv
<1>1. op[b].pc \in Active \cap Holding /\ op[b].pc # "idle" /\ UNCHANGED <<header, disk>>
  BY DEF ExportZpools, Active, Holding, Undoing
<1>2. CASE \E t \in OfPools(b) : Last(target[t]).name \notin op[b].pools
  <2>1. "stuck" \in Points \ Starts /\ "stuck" \notin Holding
    BY DEF Points, Ended, Holding, Undoing, Starts
  <2>2. QED
    BY <1>1, <1>2, <2>1, QuietStep DEF ExportZpools
<1>3. CASE ~ \E t \in OfPools(b) : Last(target[t]).name \notin op[b].pools
  <2>1. /\ attached' = [n \in Names |-> IF n \in op[b].pools THEN None ELSE attached[n]]
        /\ target' = [t \in Targets |-> IF t \in OfPools(b) THEN Front(target[t]) ELSE target[t]]
        /\ Goto(b, "unmounted")
    BY <1>3 DEF ExportZpools
  <2>2. "unmounted" \in Points \ {"mounted"} /\ "unmounted" \notin Holding \cup Heading \cup Starts
    BY DEF Points, Ended, Holding, Undoing, Heading, Starts
  <2>3. Moves(b, "unmounted")
    BY <2>1, GotoMoves
  <2>4. op[b].pools \subseteq {Name(b)}
    BY <1>1 DEF Own
  <2>5. target \in [Targets -> Seq(Entries)] /\ attached \in [Names -> Devices \cup {None}]
    BY DEF TypeOK
  <2>6. target' \in [Targets -> Seq(Entries)] /\ attached' \in [Names -> Devices \cup {None}]
    BY <2>1, <2>5, FrontOf
  <2>7. TypeOK'
    BY <1>1, <2>1, <2>2, <2>6, GotoType DEF TypeOK
  <2>8. ASSUME NEW c \in Mounts, c # b, op[c].pc \in Holding
        PROVE  /\ Name(c) \notin op[b].pools /\ Name(c) \in Names /\ op[c].p.target \in Targets
               /\ attached'[Name(c)] = Dev(c)
    <3>1. op[c].pc # "idle"
      BY <2>8 DEF Holding, Undoing
    <3>2. Name(c) \in Names /\ op[c].p.target \in Targets
      BY <3>1, Asked
    <3>3. Name(c) \notin op[b].pools
      BY <1>1, <2>4, <2>8 DEF HeldApart
    <3>4. QED
      BY <2>1, <2>8, <3>2, <3>3 DEF Held
  <2>9. Held' /\ HeldApart'
    <3>1. \A c \in Mounts : Name(c)' = Name(c) /\ Dev(c)' = Dev(c)
      BY <2>3, SameRequest
    <3>2. \A c \in Mounts : op'[c].pc \in Holding => c # b /\ op'[c] = op[c]
      BY <2>2, <2>3 DEF Moves
    <3>3. QED
      BY <2>8, <3>1, <3>2 DEF Held, HeldApart
  <2>10. Shown'
    <3>1. SUFFICES ASSUME NEW c \in Mounts, c # b, op[c].pc = "mounted",
                          NEW i \in DOMAIN target[op[c].p.target], Entry(c, i)
                   PROVE  /\ i \in DOMAIN target'[op[c].p.target]
                          /\ target'[op[c].p.target][i] = target[op[c].p.target][i]
      BY <2>2, <2>3, ShownStays
    <3> DEFINE t == op[c].p.target
    <3>2. t \in Targets /\ Name(c) \notin op[b].pools
      BY <2>8, <3>1 DEF Holding
    <3>3. CASE t \in OfPools(b)
      <4>1. target[t][Len(target[t])].name \in op[b].pools
        BY <1>3, <3>3 DEF Last
      <4>2. i # Len(target[t])
        BY <3>1, <3>2, <4>1 DEF Entry
      <4>3. QED
        BY <2>1, <2>5, <3>1, <3>2, <3>3, <4>2, FrontOf
    <3>4. CASE t \notin OfPools(b)
      BY <2>1, <3>1, <3>2, <3>4
    <3>5. QED
      BY <3>3, <3>4
  <2>11. QED
    BY <1>1, <2>2, <2>3, <2>7, <2>9, <2>10, Frame DEF Starts
<1>4. QED
  BY <1>2, <1>3

LEMMA CrashStep ==
  ASSUME IInv, Crash
  PROVE  IInv'
<1>. USE DEF IInv
<1>1. /\ op' = [b \in Mounts |-> IF op[b].pc \in Active THEN [op[b] EXCEPT !.pc = "gone"] ELSE op[b]]
      /\ UNCHANGED <<header, disk, attached, target>>
  BY DEF Crash, Active
<1>2. "gone" \in Points /\ "gone" # "idle"
      /\ "gone" \notin Active \cup Holding \cup Heading \cup Starts
  BY DEF Points, Ended, Active, Working, Holding, Undoing, Heading, Starts
<1>3. Holding \cup Heading \cup (Starts \ {"idle"}) \subseteq Active
  BY DEF Active, Working, Holding, Heading, Starts
<1>4. \A b \in Mounts : op[b] \in Ops /\ [op[b] EXCEPT !.pc = "gone"] \in Ops
  BY <1>2 DEF TypeOK, Ops
<1>5. TypeOK'
  BY <1>1, <1>4 DEF TypeOK
<1>6. \A b \in Mounts :
        /\ op'[b].p = op[b].p /\ op'[b].mounts = op[b].mounts /\ op'[b].temps = op[b].temps
        /\ op'[b].pools = op[b].pools /\ op'[b].pairs = op[b].pairs
        /\ op'[b].pc \in Active => FALSE
        /\ op'[b].pc = "idle" => op'[b] = op[b]
        /\ op[b].pc = "idle" => op'[b].pc = "idle"
  BY <1>1, <1>2, <1>4 DEF Ops, Active, Working, Undoing
<1>7. \A b \in Mounts : Name(b)' = Name(b)
  BY <1>6 DEF Name
<1>8. Own'
  BY <1>6, <1>7 DEF Own
<1>9. TargetsApart' /\ Held' /\ HeldApart' /\ Shown'
  BY <1>3, <1>6 DEF TargetsApart, Held, HeldApart, Shown, Starts
<1>10. Headers' /\ Formatting' /\ MountedDataIsKept' /\ OwnHeaderOpens'
  BY <1>3, <1>6 DEF Headers, Formatting, MountedDataIsKept, OwnHeaderOpens, Starts
<1>11. QED
  BY <1>5, <1>8, <1>9, <1>10

-----------------------------------------------------------------------------
(* The theorems. *)

\* The inductive invariant holds throughout.
THEOREM Invariance == Spec => []IInv
<1>1. Init => IInv
  BY InitInv
<1>2. IInv /\ [Next]_vars => IInv'
  <2>1. SUFFICES ASSUME IInv, [Next]_vars PROVE IInv'
    OBVIOUS
  <2>2. CASE UNCHANGED vars
    BY <2>1, <2>2
       DEF vars, IInv, TypeOK, Own, TargetsApart, Held, HeldApart, Shown, Entry, Headers,
           Formatting, MountedDataIsKept, OwnHeaderOpens, Name, Dev, Key, Empty
  <2>3. CASE Crash
    BY <2>1, <2>3, CrashStep
  <2>4. ASSUME NEW b \in Mounts,
               (\E p \in Params : Begin(b, p)) \/ Step(b) \/ CommandFails(b) \/ Umount(b)
               \/ UmountFails(b)
        PROVE  IInv'
    BY <2>1, <2>4, BeginStep, GetKeyStep, PrepareHeaderStep, EncryptDeviceStep, OpenDeviceStep,
       FormatStep, CreateZpoolStep, ImportZpoolStep, ServeSteps, UmountStep, TakeDownStep,
       ExportStep DEF Step
  <2>5. QED
    BY <2>1, <2>2, <2>3, <2>4 DEF Next
<1>3. QED
  BY <1>1, <1>2, PTL DEF Spec

\* Whatever requests the hub is sent and however they interleave, the mount point of an
\* answered request leads to the device it named.
THEOREM TargetsAreRight == Spec => []TargetShowsItsDevice
<1>1. IInv => TargetShowsItsDevice
  <2>1. SUFFICES ASSUME IInv, NEW b \in Mounts, op[b].pc = "mounted"
                 PROVE  \E i \in DOMAIN target[op[b].p.target] :
                          LET e == target[op[b].p.target][i] IN e.by = b /\ attached[e.name] = Dev(b)
    BY DEF TargetShowsItsDevice
  <2>2. PICK i \in DOMAIN target[op[b].p.target] : Entry(b, i)
    BY <2>1 DEF IInv, Shown
  <2>3. attached[Name(b)] = Dev(b)
    BY <2>1 DEF IInv, Held, Holding
  <2>4. QED
    BY <2>2, <2>3 DEF Entry
<1>2. QED
  BY <1>1, Invariance, PTL

\* No request formats a device that is mounted, and none spoils the header another is
\* about to open its device with.
THEOREM DataIsSafe == Spec => []DataIsKept
<1>1. IInv => DataIsKept
  BY DEF IInv, DataIsKept
<1>2. QED
  BY <1>1, Invariance, PTL

-----------------------------------------------------------------------------
(* What is served.  The entry of a request is on top of its own mount point *)
(* from its answer on, until the list of its object that names the mount    *)
(* point or its pool has been worked through.                              *)

NoneOf(b, t) == \A i \in DOMAIN target[t] : target[t][i].by # b

Unserved == \A b \in Mounts, t \in Targets :
  op[b].pc \in Working \cup {"idle", "failed", "unmounted"} => NoneOf(b, t)

OnTop(b, t) == \A i \in DOMAIN target[t] : target[t][i].by = b =>
  t = op[b].p.target /\ i = Len(target[t]) /\ target[t][i].name = Name(b)
Topmost == \A b \in Mounts, t \in Targets : op[b].pc \in {"mounted"} \cup Undoing => OnTop(b, t)

Down(b) ==
  /\ op[b].pc \in {"remove", "close", "export"} /\ op[b].p.target \in op[b].mounts =>
       NoneOf(b, op[b].p.target)
  /\ op[b].pc \in {"close", "export"} /\ op[b].p.target \in op[b].temps =>
       NoneOf(b, op[b].p.target)
TakenDown == \A b \in Mounts : Down(b)

Listed == \A b \in Mounts : op[b].pc \in Active \ {"key"} =>
  op[b].p.target \in op[b].mounts \cup op[b].temps \/ Name(b) \in op[b].pools

ServedInv == Unserved /\ Topmost /\ TakenDown /\ Listed

LEMMA ServedInit == Init => ServedInv
<1> SUFFICES ASSUME Init PROVE ServedInv
  OBVIOUS
<1>1. \A b \in Mounts : op[b].pc = "idle"
  BY DEF Init, NewOp
<1>2. \A b \in Mounts, t \in Targets : NoneOf(b, t)
  BY DEF Init, NoneOf
<1> QED BY <1>1, <1>2 DEF ServedInv, Unserved, Topmost, TakenDown, Down, Listed, Undoing, Active, Working

\* The points at which a request has something at its mount point.
Serving == {"mounted"} \cup Undoing

\* A step that leaves the mount points alone.
LEMMA ServedFrame ==
  ASSUME IInv, ServedInv, NEW b \in Mounts, NEW pc, Moves(b, pc), UNCHANGED target,
         op[b].pc \in Active, pc \in Active => op[b].pc # "key" /\ pc # "key",
         pc \in Working \cup {"failed"} => op[b].pc \in Working,
         pc \notin {"idle", "unmounted", "remove", "close"},
         pc \in Serving => op[b].pc \in Serving, pc = "export" => op[b].pc = "close"
  PROVE  ServedInv'
<1>1. \A c \in Mounts : Name(c)' = Name(c)
  BY SameRequest
<1>2. op'[b].pc = pc /\ \A c \in Mounts : c # b => op'[c] = op[c]
  BY DEF Moves
<1>3. \A c \in Mounts : /\ op'[c].p = op[c].p /\ op'[c].mounts = op[c].mounts
                        /\ op'[c].temps = op[c].temps /\ op'[c].pools = op[c].pools
  BY DEF Moves
<1>4. \A c \in Mounts : \A t : (NoneOf(c, t)' <=> NoneOf(c, t)) /\ (OnTop(c, t)' <=> OnTop(c, t))
  BY <1>1, <1>3 DEF NoneOf, OnTop
<1>5. Unserved'
  <2>1. ASSUME NEW c \in Mounts, NEW t \in Targets,
               op'[c].pc \in Working \cup {"idle", "failed", "unmounted"}
        PROVE  NoneOf(c, t)
    BY <1>2, <2>1 DEF ServedInv, Unserved
  <2> QED BY <1>4, <2>1 DEF Unserved
<1>6. Topmost'
  BY <1>2, <1>4 DEF ServedInv, Topmost, Serving
<1>7. TakenDown'
  <2>1. ASSUME NEW c \in Mounts PROVE Down(c)'
    <3>1. Down(c)
      BY DEF ServedInv, TakenDown
    <3>2. NoneOf(c, op[c].p.target)' <=> NoneOf(c, op[c].p.target)
      BY <1>3 DEF NoneOf
    <3> QED BY <1>2, <1>3, <3>1, <3>2 DEF Down
  <2> QED BY <2>1 DEF TakenDown
<1>8. Listed'
  BY <1>1, <1>2, <1>3 DEF ServedInv, Listed
<1> QED BY <1>5, <1>6, <1>7, <1>8 DEF ServedInv

LEMMA ServedFail ==
  ASSUME IInv, ServedInv, NEW b \in Mounts, op[b].pc \in Working, Fail(b)
  PROVE  ServedInv'
<1>1. Moves(b, "failed") /\ UNCHANGED target
  BY GotoMoves DEF IInv, Fail
<1>2. "failed" \notin Active \cup Serving
  BY DEF Active, Working, Undoing, Serving
<1> QED BY <1>1, <1>2, ServedFrame DEF Active

\* The commands before the mount, and those of umount that leave the mount points alone.
LEMMA ServedQuiet ==
  ASSUME IInv, ServedInv, NEW b \in Mounts,
         \/ CommandFails(b) \/ PrepareHeader(b) \/ EncryptDevice(b) \/ OpenDevice(b) \/ Format(b)
         \/ CreateZpool(b) \/ ImportZpool(b) \/ Umount(b) \/ UmountFails(b) \/ CloseDevices(b)
  PROVE  ServedInv'
<1>1. CASE Fail(b)
  <2>1. CASE op[b].pc \in Working
    BY <1>1, <2>1, ServedFail
  <2>2. CASE op[b].pc \notin Working
    <3>1. Umount(b) \/ UmountFails(b) \/ CloseDevices(b)
      BY <2>2 DEF CommandFails, PrepareHeader, EncryptDevice, OpenDevice, Format, CreateZpool,
                  ImportZpool, Working
    <3>2. op'[b].pc = "failed"
      BY <1>1, GotoMoves DEF IInv, Fail, Moves
    <3>3. op'[b].pc # "failed"
      BY <3>1, GotoMoves DEF IInv, Umount, UmountFails, CloseDevices, Moves
    <3> QED BY <3>2, <3>3
  <2> QED BY <2>1, <2>2
<1>2. ASSUME NEW pc \in {"format", "open", "link", "mkfs", "mount", "dataset", "loadKey"},
             Goto(b, pc), UNCHANGED target,
             op[b].pc \in {"header", "format", "open", "mkfs", "zpool", "import"}
      PROVE  ServedInv'
  <2>1. Moves(b, pc)
    BY <1>2, GotoMoves DEF IInv
  <2>2. pc \notin Serving /\ pc \in Working /\ op[b].pc \in Working /\ op[b].pc \in Active
    BY <1>2 DEF Serving, Undoing, Working, Active
  <2> QED BY <1>2, <2>1, <2>2, ServedFrame
<1>3. ASSUME NEW pc \in {"umount", "stuck", "export"}, Goto(b, pc), UNCHANGED target,
             op[b].pc \in Serving, pc = "export" => op[b].pc = "close"
      PROVE  ServedInv'
  <2>1. Moves(b, pc)
    BY <1>3, GotoMoves DEF IInv
  <2>2. pc \notin Working /\ op[b].pc \in Active /\ op[b].pc # "key"
    BY <1>3 DEF Serving, Undoing, Working, Active
  <2> QED BY <1>3, <2>1, <2>2, ServedFrame
<1>4. CASE Umount(b) \/ UmountFails(b) \/ CloseDevices(b)
  BY <1>3, <1>4 DEF Umount, UmountFails, CloseDevices, Serving, Undoing
<1>5. CASE ~ Fail(b) /\ ~ (Umount(b) \/ UmountFails(b) \/ CloseDevices(b))
  BY <1>2, <1>5 DEF CommandFails, PrepareHeader, EncryptDevice, OpenDevice, Format, CreateZpool,
                    ImportZpool
<1> QED BY <1>1, <1>4, <1>5

\* A request that begins, or whose lists are made, has nothing at any mount point.
LEMMA ServedBegins ==
  ASSUME IInv, ServedInv, NEW b \in Mounts, (\E p \in Params : Begin(b, p)) \/ GetKey(b)
  PROVE  ServedInv'
<1>1. /\ op[b].pc \in {"idle", "key"} /\ UNCHANGED target
      /\ op'[b].pc \in {"key", "header", "open", "zpool", "import"}
      /\ \A c \in Mounts \ {b} : op'[c] = op[c]
  <2>1. op \in [Mounts -> Ops] /\ op[b] \in Ops
    BY DEF IInv, TypeOK
  <2>2. CASE \E p \in Params : Begin(b, p)
    BY <2>1, <2>2 DEF Begin, Ops
  <2>3. CASE GetKey(b)
    BY <2>1, <2>3 DEF GetKey, Ops
  <2> QED BY <2>2, <2>3
<1>2. \A t \in Targets : NoneOf(b, t)
  BY <1>1 DEF ServedInv, Unserved, Working
<1>3. \A c \in Mounts : \A t : NoneOf(c, t)' <=> NoneOf(c, t)
  BY <1>1 DEF NoneOf
<1>4. Unserved'
  BY <1>1, <1>2, <1>3 DEF ServedInv, Unserved
<1>5. Topmost' /\ TakenDown'
  <2>1. op'[b].pc \notin {"mounted"} \cup Undoing
    BY <1>1 DEF Undoing
  <2>2. \A c \in Mounts \ {b} : Name(c)' = Name(c)
    BY <1>1 DEF Name
  <2>3. \A c \in Mounts \ {b} : \A t : OnTop(c, t)' <=> OnTop(c, t)
    BY <1>1, <2>2 DEF OnTop
  <2>4. \A c \in Mounts \ {b} : Down(c)' <=> Down(c)
    BY <1>1, <1>3 DEF Down
  <2>5. Down(b)'
    BY <2>1 DEF Down, Undoing
  <2> QED BY <1>1, <2>1, <2>3, <2>4, <2>5 DEF ServedInv, Topmost, TakenDown
<1>6. Listed'
  <2>1. ASSUME op'[b].pc # "key"
        PROVE  op'[b].p.target \in op'[b].mounts \cup op'[b].temps \/ Name(b)' \in op'[b].pools
    <3>1. GetKey(b) /\ op[b].p \in Params
      <4>1. ASSUME NEW p \in Params, Begin(b, p) PROVE FALSE
        BY <2>1, <4>1 DEF Begin, IInv, TypeOK, Ops
      <4>2. GetKey(b)
        BY <4>1
      <4>3. op[b].pc = "key"
        BY <4>2 DEF GetKey
      <4> QED BY <4>2, <4>3 DEF IInv, Own
    <3>2. /\ op'[b].p = op[b].p
          /\ op'[b].temps = IF op[b].p.encryption = "luks2" /\ op[b].p.kind = "device"
                            THEN op[b].temps \cup {op[b].p.target} ELSE op[b].temps
          /\ op'[b].mounts = IF op[b].p.encryption = "luks2" /\ op[b].p.kind # "device"
                             THEN op[b].mounts \cup {op[b].p.target} ELSE op[b].mounts
          /\ op'[b].pools = IF op[b].p.encryption = "luks2" THEN op[b].pools
                            ELSE op[b].pools \cup {op[b].p.name}
      BY <3>1 DEF GetKey, IInv, TypeOK
    <3>3. op[b].p.encryption # "luks2" => op[b].p.name # None
      BY <3>1, BlockDeviceAssumption
    <3> QED BY <3>2, <3>3 DEF Name
  <2>2. \A c \in Mounts \ {b} : Name(c)' = Name(c)
    BY <1>1 DEF Name
  <2> QED BY <1>1, <2>1, <2>2 DEF ServedInv, Listed
<1> QED BY <1>4, <1>5, <1>6 DEF ServedInv

\* The answer of a request puts its entry on top of its mount point.
LEMMA ServedServes ==
  ASSUME IInv, ServedInv, NEW b \in Mounts, Serve(b), Served(b),
         op[b].pc \in {"link", "mount", "dataset", "loadKey"}
  PROVE  ServedInv'
<1> DEFINE T == op[b].p.target
           e == [by |-> b, name |-> Name(b)]
<1>0. op[b].pc \in Working /\ op[b].pc \in Active \ {"key"} /\ op[b].pc # "idle"
  BY DEF Working, Active
<1>1. T \in Targets /\ target \in [Targets -> Seq(Entries)] /\ e \in Entries
  BY <1>0, Asked DEF IInv, TypeOK, Entries
<1>2. Moves(b, "mounted")
  BY ServedMoves DEF IInv
<1>3. /\ op'[b].pc = "mounted" /\ \A c \in Mounts \ {b} : op'[c] = op[c]
      /\ \A c \in Mounts : /\ op'[c].p = op[c].p /\ op'[c].mounts = op[c].mounts
                           /\ op'[c].temps = op[c].temps /\ op'[c].pools = op[c].pools
  BY <1>2 DEF Moves
<1>4. \A c \in Mounts : Name(c)' = Name(c)
  BY <1>2, SameRequest
<1>5. \A t \in Targets : t # T => target'[t] = target[t]
  BY <1>1 DEF Serve
<1>6. target'[T] = Append(target[T], e)
  BY <1>1 DEF Serve
<1>. HIDE DEF e
<1>7. /\ target[T] \in Seq(Entries) /\ Len(target'[T]) = Len(target[T]) + 1
      /\ DOMAIN target'[T] = 1 .. Len(target[T]) + 1 /\ DOMAIN target[T] = 1 .. Len(target[T])
      /\ target'[T][Len(target[T]) + 1] = e /\ Len(target[T]) \in Nat
      /\ \A i \in 1 .. Len(target[T]) : target'[T][i] = target[T][i]
  BY <1>1, <1>6
<1>8. e.by = b /\ e.name = Name(b)
  BY DEF e
<1>. HIDE DEF T
<1>9. \A t \in Targets : NoneOf(b, t)
  BY <1>0 DEF ServedInv, Unserved
<1>10. ASSUME NEW c \in Mounts \ {b}, NEW t \in Targets, NoneOf(c, t) PROVE NoneOf(c, t)'
  <2>1. CASE t = T
    BY <1>7, <1>8, <1>10, <2>1 DEF NoneOf
  <2>2. CASE t # T
    BY <1>5, <1>10, <2>2 DEF NoneOf
  <2> QED BY <2>1, <2>2
<1>11. Unserved'
  BY <1>3, <1>10 DEF ServedInv, Unserved, Working
<1>12. \A t \in Targets : OnTop(b, t)'
  <2>1. SUFFICES ASSUME NEW t \in Targets, NEW i \in DOMAIN target'[t], target'[t][i].by = b
                 PROVE  t = T /\ i = Len(target'[t]) /\ target'[t][i].name = Name(b)
    BY <1>3, <1>4 DEF OnTop, T
  <2>2. t = T
    BY <1>5, <1>9, <2>1 DEF NoneOf
  <2>3. i = Len(target[T]) + 1
    BY <1>7, <1>9, <1>1, <2>1, <2>2 DEF NoneOf
  <2> QED BY <1>7, <1>8, <2>2, <2>3
<1>13. ASSUME NEW c \in Mounts \ {b}, op[c].pc \in {"mounted"} \cup Undoing
       PROVE  op[c].p.target # T /\ op[c].p.target \in Targets
  BY <1>0, <1>13, Asked DEF IInv, TargetsApart, Active, Undoing, T
<1>14. ASSUME NEW c \in Mounts \ {b}, NEW t \in Targets, op[c].pc \in {"mounted"} \cup Undoing
       PROVE  OnTop(c, t)'
  <2>1. OnTop(c, t)
    BY <1>14 DEF ServedInv, Topmost
  <2>2. CASE t # T
    BY <1>3, <1>4, <1>5, <2>1, <2>2 DEF OnTop
  <2>3. CASE t = T
    <3>1. NoneOf(c, t)
      BY <1>13, <1>14, <2>1, <2>3 DEF OnTop, NoneOf
    <3> QED BY <1>10, <3>1 DEF OnTop, NoneOf
  <2> QED BY <2>2, <2>3
<1>15. Topmost'
  BY <1>3, <1>12, <1>14 DEF Topmost
<1>16. TakenDown'
  <2>1. ASSUME NEW c \in Mounts PROVE Down(c)'
    <3>1. CASE c = b
      BY <1>3, <3>1 DEF Down
    <3>2. CASE c # b /\ op[c].pc \in {"remove", "close", "export"}
      <4>1. op[c].p.target # T /\ op[c].p.target \in Targets
        BY <1>13, <3>2 DEF Undoing
      <4>2. NoneOf(c, op[c].p.target)' <=> NoneOf(c, op[c].p.target)
        BY <1>3, <1>5, <4>1 DEF NoneOf
      <4>3. Down(c)
        BY DEF ServedInv, TakenDown
      <4> QED BY <1>3, <3>2, <4>2, <4>3 DEF Down
    <3>3. CASE c # b /\ op[c].pc \notin {"remove", "close", "export"}
      BY <1>3, <3>3 DEF Down
    <3> QED BY <3>1, <3>2, <3>3
  <2> QED BY <2>1 DEF TakenDown
<1>17. Listed'
  BY <1>0, <1>3, <1>4 DEF ServedInv, Listed
<1> QED BY <1>11, <1>15, <1>16, <1>17 DEF ServedInv

\* What comes off a mount point leaves the entries below it.
LEMMA FrontBelow ==
  ASSUME NEW s \in Seq(Entries)
  PROVE  \A i \in DOMAIN Front(s) : i \in DOMAIN s /\ Front(s)[i] = s[i] /\ i < Len(s)
BY DEF Front

\* umount works through the lists of its object: entries come off, the others keep theirs.
LEMMA ServedTakesDown ==
  ASSUME IInv, ServedInv, NEW b \in Mounts, UmountTargets(b) \/ RemovePaths(b)
  PROVE  ServedInv'
<1> DEFINE T == op[b].p.target
<1>1. /\ op[b].pc \in {"umount", "remove"} /\ op[b].pc \in Active /\ op[b].pc # "idle"
      /\ target \in [Targets -> Seq(Entries)]
  BY DEF UmountTargets, RemovePaths, Active, Undoing, IInv, TypeOK
<1>2. PICK pc \in {"remove", "close"} : Goto(b, pc) /\ (pc = "close" => op[b].pc = "remove")
                                        /\ (pc = "remove" <=> UmountTargets(b))
                                        /\ (pc = "close" <=> RemovePaths(b))
  BY <1>1 DEF UmountTargets, RemovePaths
<1>3. Moves(b, pc)
  BY <1>2, GotoMoves DEF IInv
<1>4. /\ op'[b].pc = pc /\ \A c \in Mounts \ {b} : op'[c] = op[c]
      /\ \A c \in Mounts : /\ op'[c].p = op[c].p /\ op'[c].mounts = op[c].mounts
                           /\ op'[c].temps = op[c].temps /\ op'[c].pools = op[c].pools
  BY <1>3 DEF Moves
<1>5. \A c \in Mounts : Name(c)' = Name(c)
  BY <1>3, SameRequest
<1>6. op[b].mounts \cup op[b].temps \subseteq {T} /\ T \in Targets
  BY <1>1, Asked DEF IInv, Own
<1>7. /\ \A t \in Targets : t # T => target'[t] = target[t]
      /\ target'[T] = IF pc = "remove" /\ T \in op[b].mounts THEN Front(target[T])
                      ELSE IF pc = "close" /\ T \in op[b].temps THEN <<>> ELSE target[T]
  <2>1. CASE pc = "remove"
    BY <1>2, <1>6, <2>1 DEF UmountTargets
  <2>2. CASE pc = "close"
    BY <1>2, <1>6, <2>2 DEF RemovePaths
  <2> QED BY <2>1, <2>2
<1>8. \A i \in DOMAIN target'[T] : i \in DOMAIN target[T] /\ target'[T][i] = target[T][i]
  BY <1>1, <1>6, <1>7, FrontBelow
<1>9. OnTop(b, T)
  BY <1>1, <1>6 DEF ServedInv, Topmost, Undoing
<1>10. pc = "remove" /\ T \in op[b].mounts => \A i \in DOMAIN target'[T] : target'[T][i].by # b
  BY <1>1, <1>6, <1>7, <1>9, FrontBelow DEF OnTop
<1>11. pc = "close" /\ T \in op[b].temps => \A i \in DOMAIN target'[T] : target'[T][i].by # b
  BY <1>6, <1>7
<1>. HIDE DEF T
<1>12. ASSUME NEW c \in Mounts, NEW t \in Targets, NoneOf(c, t) PROVE NoneOf(c, t)'
  BY <1>7, <1>8, <1>12 DEF NoneOf
<1>13. Unserved'
  BY <1>2, <1>4, <1>12 DEF ServedInv, Unserved, Working
<1>14. ASSUME NEW c \in Mounts \ {b}, op[c].pc \in {"mounted"} \cup Undoing
       PROVE  op[c].p.target # T /\ op[c].p.target \in Targets
  BY <1>1, <1>14, Asked DEF IInv, TargetsApart, Active, Undoing, T
<1>15. ASSUME NEW t \in Targets PROVE OnTop(b, t)'
  <2>1. OnTop(b, t)
    BY <1>1 DEF ServedInv, Topmost, Undoing
  <2>2. CASE t # T
    BY <1>4, <1>5, <1>7, <2>1, <2>2 DEF OnTop
  <2>3. CASE t = T /\ target'[T] = target[T]
    BY <1>4, <1>5, <2>1, <2>3 DEF OnTop
  <2>4. CASE t = T /\ target'[T] # target[T]
    BY <1>7, <1>10, <1>11, <2>4 DEF OnTop
  <2> QED BY <2>2, <2>3, <2>4
<1>16. ASSUME NEW c \in Mounts \ {b}, NEW t \in Targets, op[c].pc \in {"mounted"} \cup Undoing
       PROVE  OnTop(c, t)'
  <2>1. OnTop(c, t)
    BY <1>16 DEF ServedInv, Topmost
  <2>2. CASE t # T
    BY <1>4, <1>5, <1>7, <2>1, <2>2 DEF OnTop
  <2>3. CASE t = T
    <3>1. NoneOf(c, t)
      BY <1>14, <1>16, <2>1, <2>3 DEF OnTop, NoneOf
    <3> QED BY <1>12, <3>1 DEF OnTop, NoneOf
  <2> QED BY <2>2, <2>3
<1>17. Topmost'
  BY <1>2, <1>4, <1>15, <1>16 DEF Topmost
<1>18. TakenDown'
  <2>1. ASSUME NEW c \in Mounts \ {b} PROVE Down(c)'
    <3>1. CASE op[c].pc \in {"remove", "close", "export"}
      <4>1. op[c].p.target \in Targets
        BY <1>14, <3>1 DEF Undoing
      <4>2. NoneOf(c, op[c].p.target) => NoneOf(c, op[c].p.target)'
        BY <1>4, <1>12, <4>1 DEF NoneOf
      <4>3. Down(c)
        BY DEF ServedInv, TakenDown
      <4> QED BY <1>4, <3>1, <4>2, <4>3 DEF Down
    <3>2. CASE op[c].pc \notin {"remove", "close", "export"}
      BY <1>4, <3>2 DEF Down
    <3> QED BY <3>1, <3>2
  <2>2. Down(b)'
    <3>1. pc = "close" /\ T \in op[b].mounts => NoneOf(b, T)
      BY <1>2 DEF ServedInv, TakenDown, Down, T
    <3>2. pc = "close" /\ T \in op[b].mounts => \A i \in DOMAIN target'[T] : target'[T][i].by # b
      BY <1>8, <3>1 DEF NoneOf
    <3>3. op'[b].p.target = T
      BY <1>4 DEF T
    <3> QED BY <1>4, <1>10, <1>11, <3>2, <3>3 DEF Down, NoneOf
  <2> QED BY <2>1, <2>2 DEF TakenDown
<1>19. Listed'
  BY <1>1, <1>4, <1>5 DEF ServedInv, Listed
<1> QED BY <1>13, <1>17, <1>18, <1>19 DEF ServedInv

\* A pool that is exported takes its dataset off; what another request has on top keeps it.
LEMMA ServedExports ==
  ASSUME IInv, ServedInv, NEW b \in Mounts, ExportZpools(b)
  PROVE  ServedInv'
<1> DEFINE T == op[b].p.target
<1>1. /\ op[b].pc = "export" /\ op[b].pc \in Active \cap Holding /\ op[b].pc # "idle"
      /\ target \in [Targets -> Seq(Entries)]
  BY DEF ExportZpools, Active, Holding, Undoing, IInv, TypeOK
<1>2. CASE \E t \in OfPools(b) : Last(target[t]).name \notin op[b].pools
  <2>1. Moves(b, "stuck") /\ UNCHANGED target
    BY <1>2, GotoMoves DEF IInv, ExportZpools
  <2>2. "stuck" \notin Active \cup Serving
    BY DEF Active, Working, Undoing, Serving
  <2> QED BY <1>1, <2>1, <2>2, ServedFrame DEF Working
<1>3. CASE ~ \E t \in OfPools(b) : Last(target[t]).name \notin op[b].pools
  <2>1. /\ target' = [t \in Targets |-> IF t \in OfPools(b) THEN Front(target[t]) ELSE target[t]]
        /\ Goto(b, "unmounted")
    BY <1>3 DEF ExportZpools
  <2>2. Moves(b, "unmounted")
    BY <2>1, GotoMoves DEF IInv
  <2>3. /\ op'[b].pc = "unmounted" /\ \A c \in Mounts \ {b} : op'[c] = op[c]
        /\ \A c \in Mounts : /\ op'[c].p = op[c].p /\ op'[c].mounts = op[c].mounts
                             /\ op'[c].temps = op[c].temps /\ op'[c].pools = op[c].pools
    BY <2>2 DEF Moves
  <2>4. \A c \in Mounts : Name(c)' = Name(c)
    BY <2>2, SameRequest
  <2>5. op[b].pools \subseteq {Name(b)} /\ T \in Targets
    BY <1>1, Asked DEF IInv, Own
  <2>6. ASSUME NEW t \in Targets, NEW i \in DOMAIN target'[t]
        PROVE  i \in DOMAIN target[t] /\ target'[t][i] = target[t][i]
               /\ (t \in OfPools(b) => i < Len(target[t]))
    BY <1>1, <2>1, FrontBelow
  <2>7. ASSUME NEW c \in Mounts, NEW t \in Targets, NoneOf(c, t) PROVE NoneOf(c, t)'
    BY <2>6, <2>7 DEF NoneOf
  <2>8. ASSUME NEW t \in Targets PROVE NoneOf(b, t)'
    <3>1. OnTop(b, t)
      BY <1>1 DEF ServedInv, Topmost, Undoing
    <3>2. CASE NoneOf(b, t)
      BY <2>7, <3>2
    <3>3. CASE ~ NoneOf(b, t)
      <4>1. PICK i \in DOMAIN target[t] : target[t][i].by = b
        BY <3>3 DEF NoneOf
      <4>2. t = T /\ i = Len(target[t]) /\ target[t][i].name = Name(b)
        BY <3>1, <4>1 DEF OnTop
      <4>3. T \notin op[b].mounts \cup op[b].temps
        BY <1>1, <3>3, <4>2 DEF ServedInv, TakenDown, Down
      <4>4. Name(b) \in op[b].pools
        BY <1>1, <4>3 DEF ServedInv, Listed
      <4>5. t \in OfPools(b)
        BY <4>1, <4>2, <4>4 DEF OfPools
      <4>6. ASSUME NEW j \in DOMAIN target'[t], target'[t][j].by = b PROVE FALSE
        <5>1. j \in DOMAIN target[t] /\ target[t][j].by = b /\ j < Len(target[t])
          BY <2>6, <4>5, <4>6
        <5>2. j = Len(target[t])
          BY <3>1, <5>1 DEF OnTop
        <5> QED BY <5>1, <5>2
      <4> QED BY <4>6 DEF NoneOf
    <3> QED BY <3>2, <3>3
  <2>9. Unserved'
    BY <2>3, <2>7, <2>8 DEF ServedInv, Unserved
  <2>10. ASSUME NEW c \in Mounts \ {b}, NEW t \in Targets, op[c].pc \in {"mounted"} \cup Undoing
         PROVE  OnTop(c, t)'
    <3>1. OnTop(c, t)
      BY <2>10 DEF ServedInv, Topmost
    <3>2. CASE t \notin OfPools(b)
      <4>1. target'[t] = target[t]
        BY <2>1, <3>2
      <4> QED BY <2>3, <2>4, <3>1, <4>1 DEF OnTop
    <3>3. CASE t \in OfPools(b)
      <4>1. target[t][Len(target[t])].name \in op[b].pools
        BY <1>3, <3>3 DEF Last
      <4>2. Name(c) \notin op[b].pools
        BY <1>1, <2>5, <2>10 DEF IInv, HeldApart, Holding
      <4>3. NoneOf(c, t)
        BY <3>1, <4>1, <4>2 DEF OnTop, NoneOf
      <4> QED BY <2>7, <4>3 DEF OnTop, NoneOf
    <3> QED BY <3>2, <3>3
  <2>11. Topmost'
    BY <2>3, <2>10 DEF Topmost, Undoing
  <2>12. TakenDown'
    <3>1. ASSUME NEW c \in Mounts \ {b} PROVE Down(c)'
      <4>1. CASE op[c].pc \in {"remove", "close", "export"}
        <5>1. op[c].p.target \in Targets
          BY <4>1, Asked DEF IInv
        <5>2. NoneOf(c, op[c].p.target) => NoneOf(c, op[c].p.target)'
          BY <2>3, <2>7, <5>1 DEF NoneOf
        <5>3. Down(c)
          BY DEF ServedInv, TakenDown
        <5> QED BY <2>3, <4>1, <5>2, <5>3 DEF Down
      <4>2. CASE op[c].pc \notin {"remove", "close", "export"}
        BY <2>3, <4>2 DEF Down
      <4> QED BY <4>1, <4>2
    <3>2. Down(b)'
      BY <2>3 DEF Down
    <3> QED BY <3>1, <3>2 DEF TakenDown
  <2>13. Listed'
    BY <2>3, <2>4 DEF ServedInv, Listed, Active, Working, Undoing
  <2> QED BY <2>9, <2>11, <2>12, <2>13 DEF ServedInv
<1> QED BY <1>2, <1>3

LEMMA ServedCrash ==
  ASSUME IInv, ServedInv, Crash
  PROVE  ServedInv'
<1>1. /\ op' = [b \in Mounts |-> IF op[b].pc \in Active THEN [op[b] EXCEPT !.pc = "gone"] ELSE op[b]]
      /\ UNCHANGED target
  BY DEF Crash, Active
<1>2. "gone" \notin Active \cup Serving /\ "gone" \notin {"idle", "failed", "unmounted"}
  BY DEF Active, Working, Undoing, Serving
<1>3. \A b \in Mounts : op'[b].pc \in {"idle", "failed", "unmounted"} => op[b].pc = op'[b].pc
  BY <1>1, <1>2 DEF IInv, TypeOK, Ops
<1>4. \A b \in Mounts : op'[b].pc \notin Active
  BY <1>1, <1>2 DEF IInv, TypeOK, Ops
<1>5. \A b \in Mounts : \A t : NoneOf(b, t)' <=> NoneOf(b, t)
  BY <1>1 DEF NoneOf
<1>6. Working \subseteq Active /\ Undoing \subseteq Active /\ "mounted" \in Active
      /\ {"remove", "close", "export"} \subseteq Undoing
  BY DEF Active, Undoing
<1>7. Unserved'
  BY <1>3, <1>4, <1>5, <1>6 DEF ServedInv, Unserved
<1> QED BY <1>4, <1>6, <1>7 DEF ServedInv, Topmost, TakenDown, Down, Listed

LEMMA ServedNext ==
  ASSUME IInv, ServedInv, [Next]_vars
  PROVE  ServedInv'
<1>1. CASE UNCHANGED vars
  BY <1>1 DEF vars, ServedInv, Unserved, NoneOf, Topmost, OnTop, TakenDown, Down, Listed, Name
<1>2. ASSUME NEW b \in Mounts, Link(b) \/ MountMapping(b) \/ CreateZdataset(b) \/ LoadKey(b)
      PROVE  ServedInv'
  <2>1. op[b].pc \in {"link", "mount", "dataset", "loadKey"}
    BY <1>2 DEF Link, MountMapping, CreateZdataset, LoadKey
  <2>2. CASE Fail(b)
    BY <2>1, <2>2, ServedFail DEF Working
  <2>3. CASE ~ Fail(b)
    BY <1>2, <2>1, <2>3, ServedServes DEF Link, MountMapping, CreateZdataset, LoadKey
  <2> QED BY <2>2, <2>3
<1>3. ASSUME NEW b \in Mounts,
             (\E p \in Params : Begin(b, p)) \/ Step(b) \/ CommandFails(b) \/ Umount(b)
             \/ UmountFails(b)
      PROVE  ServedInv'
  BY <1>2, <1>3, ServedBegins, ServedQuiet, ServedTakesDown, ServedExports DEF Step
<1> QED BY <1>1, <1>3, ServedCrash DEF Next

\* Nothing is served at any mount point in the name of a request that was refused or not
\* answered yet, and an umount that succeeds has taken its device off, whichever of the
\* lists of the object (mounts, temporary paths, pools) it was on.
THEOREM ServedIsMounted == Spec => []OnlyMountedIsServed
<1>1. ServedInv => OnlyMountedIsServed
  BY DEF ServedInv, Unserved, NoneOf, OnlyMountedIsServed
<1>2. Spec => [](IInv /\ ServedInv)
  <2>1. Spec => []IInv
    BY Invariance
  <2>2. IInv /\ ServedInv /\ [Next]_vars => ServedInv'
    BY ServedNext
  <2> QED BY <2>1, <2>2, ServedInit, PTL DEF Spec
<1>3. QED
  BY <1>1, <1>2, PTL
=============================================================================

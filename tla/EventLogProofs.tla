--------------------------- MODULE EventLogProofs ---------------------------
(***************************************************************************)
(* Proofs about EventLog, for every set of clients, events and registers   *)
(* and any number of calls.                                                *)
(***************************************************************************)
EXTENDS EventLog, SequenceTheorems, FiniteSetTheorems, TLAPS

-----------------------------------------------------------------------------
(* Part 1: types.  TypeOK alone is not inductive: what the WAL cache and a  *)
(* request carry must be an event whenever it is extended or written.       *)

Recovering == {"reread", "check"} \cup Replaying

Held == {"read", "wal", "fill", "event", "extend", "head", "tail", "clean"}

\* The Mutex: only its holder is inside extend_entry, and only while serving.
Ownership ==
  /\ \A c \in Clients : pc[c] \in Held <=> lock = c
  /\ \A c \in Clients : pc[c] # "idle" => phase = "serving"

Carriers ==
  /\ wal.state = "full" => wal.ev \in Events
  /\ phase \in Recovering => wal.state \in {"short", "full"}
  /\ phase \in Replaying => wal.ev \in Events
  /\ \A c \in Clients : pc[c] # "idle" => req[c].ev \in Events

\* No write leaves a gap in the file.
Positions ==
  /\ cursor <= Len(file) /\ pos <= cursor
  /\ wal.off <= Len(file)
  /\ \A c \in Clients : req[c].off <= Len(file)
  /\ phase = "retail" => pos + 1 <= cursor
  /\ \A c \in Clients : pc[c] = "tail" => pos + 1 <= cursor

TypeInv == TypeOK /\ Ownership /\ Carriers /\ Positions

LEMMA CellType ==
  ASSUME NEW e \in Events, NEW r \in Ccmrs, NEW h \in {"head", "tail"}
  PROVE  Cell(e, r, h) \in Cells
BY DEF Cell, Cells

LEMMA LogRegType == LogReg \in Ccmrs
BY EventLogAssumption DEF LogReg

\* Writing a cell at an offset inside the file or at its end keeps it a
\* sequence of cells, of the length one would expect.
LEMMA WriteAtType ==
  ASSUME NEW f \in Seq(Cells), NEW o \in Nat, o <= Len(f), NEW x \in Cells
  PROVE  /\ WriteAt(f, o, x) \in Seq(Cells)
         /\ Len(WriteAt(f, o, x)) = IF o < Len(f) THEN Len(f) ELSE o + 1
         /\ Len(WriteAt(f, o, x)) >= Len(f) /\ Len(WriteAt(f, o, x)) >= o + 1
         /\ WriteAt(f, o, x)[o + 1] = x
         /\ \A i \in 1 .. Len(f) : i # o + 1 => WriteAt(f, o, x)[i] = f[i]
<1> DEFINE n == IF o < Len(f) THEN Len(f) ELSE o + 1
<1>1. n \in Nat /\ n >= o + 1 /\ n >= Len(f) /\ (n > Len(f) => n = o + 1)
  OBVIOUS
<1>2. WriteAt(f, o, x) = [i \in 1 .. n |-> IF i = o + 1 THEN x ELSE f[i]]
  BY DEF WriteAt
<1>3. ASSUME NEW i \in 1 .. n PROVE (IF i = o + 1 THEN x ELSE f[i]) \in Cells
  BY <1>1
<1>. HIDE DEF n
<1>4. WriteAt(f, o, x) \in [1 .. n -> Cells]
  BY <1>2, <1>3
<1>5. WriteAt(f, o, x) \in Seq(Cells) /\ Len(WriteAt(f, o, x)) = n
  BY <1>1, <1>4
<1>6. o + 1 \in 1 .. n /\ \A i \in 1 .. Len(f) : i \in 1 .. n
  BY <1>1
<1>7. QED
  BY <1>2, <1>5, <1>6 DEF n

LEMMA WalType ==
  ASSUME NEW s \in {"none", "torn"}
  PROVE  Wal(s) \in WalFile /\ Wal(s).state = s /\ Wal(s).off = 0
BY DEF Wal, WalFile

LEMMA NoRequestType == NoRequest \in Request /\ NoRequest.off = 0
BY EventLogAssumption DEF NoRequest, Request

LEMMA TypeInit == Init => TypeInv
<1>. SUFFICES ASSUME Init PROVE TypeInv
  OBVIOUS
<1>. USE EventLogAssumption DEF Init
<1>1. TypeOK
  BY WalType, NoRequestType DEF TypeOK, Phases, Replaying, Points
<1>2. Ownership
  BY DEF Ownership, Held
<1>3. Carriers
  BY WalType DEF Carriers, Recovering, Replaying
<1>4. Positions
  BY WalType, NoRequestType DEF Positions
<1>5. QED
  BY <1>1, <1>2, <1>3, <1>4 DEF TypeInv

\* Every action keeps the types, ownership, carriers and positions.
LEMMA TypeStep == TypeInv /\ [Next]_vars => TypeInv'
<1>. SUFFICES ASSUME TypeInv, [Next]_vars PROVE TypeInv'
  OBVIOUS
<1>0. TypeOK /\ Ownership /\ Carriers /\ Positions
  BY DEF TypeInv
<1>a. /\ Len(file) \in Nat /\ cursor \in Nat /\ pos \in Nat /\ wal.off \in Nat
      /\ wal.state \in {"none", "torn", "short", "full"}
      /\ \A c \in Clients : req[c].off \in Nat /\ req[c].pcr \in Pcrs
  BY <1>0 DEF TypeOK, WalFile, Request
<1>b. file \in Seq(Cells) /\ cursor <= Len(file) /\ wal.off <= Len(file)
  BY <1>0 DEF TypeOK, Positions
<1>. USE <1>0, <1>a, EventLogAssumption
<1>1. CASE Start
  <2>1. TypeOK'
    BY <1>1 DEF TypeOK, Start, Phases, Replaying, Points
  <2>2. Ownership'
    BY <1>1 DEF Ownership, TypeOK, Start, Held
  <2>3. Carriers'
    BY <1>1 DEF Carriers, TypeOK, Start, Recovering, Replaying
  <2>4. Positions'
    BY <1>1 DEF Positions, TypeOK, Start, Ownership
  <2>5. QED
    BY <2>1, <2>2, <2>3, <2>4 DEF TypeInv
<1>2. CASE DeleteWal
  <2>1. TypeOK'
    BY <1>2, WalType DEF TypeOK, DeleteWal, Phases, Replaying, Points
  <2>2. Ownership'
    BY <1>2, WalType DEF Ownership, TypeOK, DeleteWal, Held
  <2>3. Carriers'
    BY <1>2, WalType DEF Carriers, TypeOK, DeleteWal, Recovering, Replaying
  <2>4. Positions'
    BY <1>2, WalType DEF Positions, TypeOK, DeleteWal
  <2>5. QED
    BY <2>1, <2>2, <2>3, <2>4 DEF TypeInv
<1>3. CASE Reread \/ Check
  <2>0. /\ UNCHANGED <<pc, req, lock, wal, file, cursor, pos, rtmr, calls, acks>>
        /\ phase \in {"reread", "check"} /\ phase' \in {"down", "check", "rehead", "reextend"}
        /\ phase' \in Replaying => wal.ev # NoEvent
    BY <1>3 DEF Reread, Check, Replaying
  <2>1. TypeOK'
    BY <2>0 DEF TypeOK, Phases, Replaying
  <2>2. Ownership'
    BY <2>0 DEF Ownership, TypeOK
  <2>3. Carriers'
    BY <2>0 DEF Carriers, TypeOK, WalFile, Recovering, Replaying
  <2>4. Positions'
    BY <2>0 DEF Positions, TypeOK
  <2>5. QED
    BY <2>1, <2>2, <2>3, <2>4 DEF TypeInv
<1>4. CASE Reextend
  <2>1. Append(rtmr[LogReg], wal.ev) \in Seq(Events)
    BY <1>4, LogRegType DEF Reextend, TypeOK, Carriers, Recovering, Replaying
  <2>2. rtmr' \in [Ccmrs -> Seq(Events)]
    BY <1>4, <2>1, LogRegType DEF Reextend, TypeOK
  <2>3. TypeOK'
    BY <1>4, <2>1, <2>2 DEF TypeOK, Reextend, Phases, Replaying, Points
  <2>4. Ownership'
    BY <1>4, <2>1, <2>2 DEF Ownership, TypeOK, Reextend, Held
  <2>5. Carriers'
    BY <1>4, <2>1, <2>2 DEF Carriers, TypeOK, Reextend, Recovering, Replaying
  <2>6. Positions'
    BY <1>4, <2>1, <2>2 DEF Positions, TypeOK, Reextend
  <2>7. QED
    BY <2>3, <2>4, <2>5, <2>6 DEF TypeInv
<1>5. CASE Rehead
  <2>1. Cell(wal.ev, LogReg, "head") \in Cells
    BY <1>5, LogRegType, CellType DEF Rehead, Carriers, Recovering, Replaying
  <2>2. wal.off \in Nat /\ wal.off <= Len(file)
    BY DEF TypeOK, WalFile, Positions
  <2>3. file' \in Seq(Cells) /\ Len(file') >= Len(file) /\ Len(file') >= wal.off + 1
    BY <1>5, <2>1, <2>2, WriteAtType, <1>b DEF Rehead
  <2>4. TypeOK'
    BY <1>5, <2>1, <2>2, <2>3 DEF TypeOK, Rehead, Phases, Replaying, Points
  <2>5. Ownership'
    BY <1>5, <2>1, <2>2, <2>3 DEF Ownership, TypeOK, Rehead, Held
  <2>6. Carriers'
    BY <1>5, <2>1, <2>2, <2>3 DEF Carriers, TypeOK, Rehead, Recovering, Replaying
  <2>7. Positions'
    BY <1>5, <2>1, <2>2, <2>3 DEF Positions, TypeOK, Rehead, Ownership, Held
  <2>8. QED
    BY <2>4, <2>5, <2>6, <2>7 DEF TypeInv
<1>6. CASE Retail
  <2>1. Cell(wal.ev, LogReg, "tail") \in Cells
    BY <1>6, LogRegType, CellType DEF Retail, Carriers, Recovering, Replaying
  <2>2. file' \in Seq(Cells) /\ Len(file') >= Len(file) /\ Len(file') >= cursor + 1
    BY <1>6, <2>1, WriteAtType, <1>b DEF Retail
  <2>3. TypeOK'
    BY <1>6, <2>1, <2>2 DEF TypeOK, Retail, Phases, Replaying, Points
  <2>4. Ownership'
    BY <1>6, <2>1, <2>2 DEF Ownership, TypeOK, Retail, Held
  <2>5. Carriers'
    BY <1>6, <2>1, <2>2 DEF Carriers, TypeOK, Retail, Recovering, Replaying
  <2>6. Positions'
    BY <1>6, <2>1, <2>2 DEF Positions, TypeOK, Retail, Ownership, Held
  <2>7. QED
    BY <2>3, <2>4, <2>5, <2>6 DEF TypeInv
<1>7. CASE Reclean
  <2>1. TypeOK'
    BY <1>7, WalType DEF TypeOK, Reclean, Phases, Replaying, Points
  <2>2. Ownership'
    BY <1>7, WalType DEF Ownership, TypeOK, Reclean, Held
  <2>3. Carriers'
    BY <1>7, WalType DEF Carriers, TypeOK, Reclean, Recovering, Replaying
  <2>4. Positions'
    BY <1>7, WalType DEF Positions, TypeOK, Reclean
  <2>5. QED
    BY <2>1, <2>2, <2>3, <2>4 DEF TypeInv
<1>8. CASE RewriteFails
  <2>1. TypeOK'
    BY <1>8 DEF TypeOK, RewriteFails, Phases, Replaying, Points
  <2>2. Ownership'
    BY <1>8 DEF Ownership, TypeOK, RewriteFails, Held
  <2>3. Carriers'
    BY <1>8 DEF Carriers, TypeOK, RewriteFails, Recovering, Replaying
  <2>4. Positions'
    BY <1>8 DEF Positions, TypeOK, RewriteFails
  <2>5. QED
    BY <2>1, <2>2, <2>3, <2>4 DEF TypeInv
<1>9. CASE Crash
  <2>1. TypeOK'
    BY <1>9, NoRequestType DEF TypeOK, Crash, Phases, Replaying, Points
  <2>2. Ownership'
    BY <1>9, NoRequestType DEF Ownership, TypeOK, Crash, Held
  <2>3. Carriers'
    BY <1>9, NoRequestType DEF Carriers, TypeOK, Crash, Recovering, Replaying
  <2>4. Positions'
    BY <1>9, NoRequestType DEF Positions, TypeOK, Crash
  <2>5. QED
    BY <2>1, <2>2, <2>3, <2>4 DEF TypeInv
<1>10. ASSUME NEW c \in Clients, NEW e \in Events, NEW p \in RequestPcrs, Call(c, e, p)
       PROVE  TypeInv'
  <2>1. [NoRequest EXCEPT !.ev = e, !.pcr = p] \in Request
    BY <1>10, NoRequestType DEF Request
  <2>2. /\ [NoRequest EXCEPT !.ev = e, !.pcr = p].ev = e
        /\ [NoRequest EXCEPT !.ev = e, !.pcr = p].off = 0
    BY DEF NoRequest
  <2>3. TypeOK'
    BY <1>10, <2>1, <2>2 DEF TypeOK, Call, Phases, Replaying, Points
  <2>4. Ownership'
    BY <1>10, <2>1, <2>2 DEF Ownership, TypeOK, Call, Held, Points
  <2>5. Carriers'
    BY <1>10, <2>1, <2>2 DEF Carriers, TypeOK, Call, Recovering, Replaying
  <2>6. Positions'
    BY <1>10, <2>1, <2>2 DEF Positions, TypeOK, Call
  <2>7. QED
    BY <2>3, <2>4, <2>5, <2>6 DEF TypeInv
<1>11. ASSUME NEW c \in Clients, Lock(c) PROVE TypeInv'
  <2>1. TypeOK'
    BY <1>11 DEF TypeOK, Lock, Phases, Replaying, Points
  <2>2. Ownership'
    BY <1>11 DEF Ownership, TypeOK, Lock, Held
  <2>3. Carriers'
    BY <1>11 DEF Carriers, TypeOK, Lock, Recovering, Replaying
  <2>4. Positions'
    BY <1>11 DEF Positions, TypeOK, Lock
  <2>5. QED
    BY <2>1, <2>2, <2>3, <2>4 DEF TypeInv
<1>12. ASSUME NEW c \in Clients, Return(c), pc[c] \in Held, phase' = phase PROVE
         /\ lock' = NoClient
         /\ pc' \in [Clients -> Points] /\ req' \in [Clients -> Request]
         /\ Ownership'
         /\ \A d \in Clients : pc'[d] # "idle" => req'[d].ev \in Events
         /\ \A d \in Clients : /\ pc'[d] # "tail"
                               /\ req'[d].off \in Nat /\ req'[d].off <= Len(file)
  <2>1. pc' \in [Clients -> Points] /\ req' \in [Clients -> Request]
    BY <1>12, NoRequestType DEF Return, TypeOK, Points
  <2>2. \A d \in Clients : pc'[d] = IF d = c THEN "idle" ELSE pc[d]
    BY <1>12 DEF Return, TypeOK
  <2>3. \A d \in Clients : req'[d] = IF d = c THEN NoRequest ELSE req[d]
    BY <1>12 DEF Return, TypeOK
  <2>4. lock = c /\ lock' = NoClient
    BY <1>12 DEF Return, Ownership
  <2>5. \A d \in Clients : pc'[d] \notin Held
    BY <2>2, <2>4 DEF Ownership, Held
  <2>6. Ownership'
    BY <1>12, <2>2, <2>4, <2>5 DEF Ownership
  <2>7. \A d \in Clients : pc'[d] # "idle" => req'[d].ev \in Events
    BY <2>2, <2>3 DEF Carriers
  <2>8. \A d \in Clients : /\ pc'[d] # "tail"
                           /\ req'[d].off \in Nat /\ req'[d].off <= Len(file)
    BY <2>3, <2>5, NoRequestType DEF Positions, Held
  <2>9. QED
    BY <2>1, <2>4, <2>6, <2>7, <2>8
<1>13. ASSUME NEW c \in Clients, ReadPcr(c) PROVE TypeInv'
  <2>1. CASE Return(c)
    <3>1. pc[c] \in Held /\ phase' = phase
      BY <1>13 DEF ReadPcr, Held
    <3>2. TypeOK'
      BY <1>13, <2>1, <1>12, <3>1 DEF TypeOK, Points, ReadPcr
    <3>3. Ownership'
      BY <1>13, <2>1, <1>12, <3>1 DEF ReadPcr
    <3>4. Carriers'
      BY <1>13, <2>1, <1>12, <3>1 DEF Carriers, ReadPcr, Recovering, Replaying
    <3>5. Positions'
      BY <1>13, <2>1, <1>12, <3>1 DEF Positions, ReadPcr
    <3>6. QED
      BY <3>2, <3>3, <3>4, <3>5 DEF TypeInv
  <2>2. CASE ~Return(c)
    <3>1. Ccmr[req[c].pcr] \in Ccmrs /\ req[c].ev \in Events
      BY <1>13 DEF ReadPcr, Request, TypeOK, Carriers
    <3>2. Append(rtmr[Ccmr[req[c].pcr]], req[c].ev) \in Seq(Events)
      BY <3>1 DEF TypeOK
    <3>. DEFINE q == [req[c] EXCEPT
                        !.expected = Append(rtmr[Ccmr[req[c].pcr]], req[c].ev), !.off = pos]
    <3>q. q \in Request /\ q.ev = req[c].ev /\ q.off = pos
      BY <3>1, <3>2 DEF Request, TypeOK
    <3>r. req' = [req EXCEPT ![c] = q]
      BY <1>13, <2>2 DEF ReadPcr
    <3>. HIDE DEF q
    <3>3. /\ req' \in [Clients -> Request]
          /\ \A d \in Clients : req'[d].ev = req[d].ev /\ (d # c => req'[d] = req[d])
          /\ req'[c].off = pos
      BY <3>q, <3>r DEF TypeOK
    <3>4. TypeOK'
      BY <1>13, <2>2, <3>1, <3>2, <3>3 DEF TypeOK, Points, ReadPcr
    <3>5. Ownership'
      BY <1>13, <2>2, <3>1, <3>2, <3>3 DEF Ownership, TypeOK, ReadPcr, Held, Points
    <3>6. Carriers'
      BY <1>13, <2>2, <3>1, <3>2, <3>3 DEF Carriers, TypeOK, ReadPcr, Recovering, Replaying, Ownership
    <3>7. Positions'
      <4>1. \A d \in Clients : req'[d].off <= Len(file)
        BY <3>3, <1>b DEF Positions
      <4>2. \A d \in Clients : pc'[d] # "tail"
        BY <1>13, <2>2 DEF ReadPcr, Ownership, TypeOK, Held
      <4>3. QED
        BY <1>13, <4>1, <4>2 DEF ReadPcr, Positions
    <3>8. QED
      BY <3>4, <3>5, <3>6, <3>7 DEF TypeInv
  <2>3. QED
    BY <2>1, <2>2
<1>14. ASSUME NEW c \in Clients, CreateWal(c) PROVE TypeInv'
  <2>1. CASE Return(c) /\ UNCHANGED wal
    <3>1. pc[c] \in Held /\ phase' = phase
      BY <1>14 DEF CreateWal, Held
    <3>2. TypeOK'
      BY <1>14, <2>1, <1>12, WalType, <3>1 DEF TypeOK, Points, CreateWal
    <3>3. Ownership'
      BY <1>14, <2>1, <1>12, WalType, <3>1 DEF CreateWal
    <3>4. Carriers'
      BY <1>14, <2>1, <1>12, WalType, <3>1 DEF Carriers, CreateWal, Recovering, Replaying
    <3>5. Positions'
      BY <1>14, <2>1, <1>12, WalType, <3>1 DEF Positions, CreateWal
    <3>6. QED
      BY <3>2, <3>3, <3>4, <3>5 DEF TypeInv
  <2>2. CASE ~(Return(c) /\ UNCHANGED wal)
    <3>1. TypeOK'
      BY <1>14, <2>2, WalType DEF TypeOK, Points, CreateWal
    <3>2. Ownership'
      BY <1>14, <2>2, WalType DEF Ownership, TypeOK, CreateWal, Held, Points
    <3>3. Carriers'
      BY <1>14, <2>2, WalType DEF Carriers, TypeOK, CreateWal, Recovering, Replaying, Ownership
    <3>4. Positions'
      BY <1>14, <2>2, WalType DEF Positions, TypeOK, CreateWal, Ownership, Held
    <3>5. QED
      BY <3>1, <3>2, <3>3, <3>4 DEF TypeInv
  <2>3. QED
    BY <2>1, <2>2
<1>15. ASSUME NEW c \in Clients, FillHeader(c) \/ FillEvent(c) PROVE TypeInv'
  <2>0. /\ pc[c] \in Held /\ pc[c] \in {"fill", "event"} /\ pc[c] # "idle" /\ phase = "serving"
        /\ UNCHANGED <<phase, file, cursor, pos, rtmr, calls, acks>>
    BY <1>15 DEF FillHeader, FillEvent, Held, Ownership
  <2>1. /\ wal' \in WalFile /\ wal'.off <= Len(file)
        /\ wal'.state = "full" => wal'.ev \in Events
    <3>1. CASE wal' = wal
      BY <3>1 DEF TypeOK, Carriers, Positions
    <3>2. ASSUME NEW s \in {"short", "full"}, NEW x \in Events \cup {NoEvent}, wal' = WalOf(c, s, x)
          PROVE  wal' \in WalFile /\ wal'.off <= Len(file) /\ wal'.state = s /\ wal'.ev = x
      BY <3>2 DEF WalOf, WalFile, Request, TypeOK, Positions
    <3>3. req[c].ev \in Events /\ Cut[req[c].ev] \in SUBSET Events
      BY <2>0 DEF Carriers
    <3>4. CASE wal' # wal /\ FillHeader(c)
      <4>1. PICK x \in Events \cup {NoEvent} : wal' = WalOf(c, "short", x)
        BY <3>3, <3>4 DEF FillHeader
      <4> QED BY <3>2, <4>1
    <3>5. CASE wal' # wal /\ FillEvent(c)
      <4>1. wal' = WalOf(c, "full", req[c].ev)
        BY <3>5 DEF FillEvent
      <4> QED BY <3>2, <3>3, <4>1
    <3> QED BY <1>15, <3>1, <3>4, <3>5
  <2>2. CASE Return(c)
    <3>2. TypeOK'
      BY <2>0, <2>1, <2>2, <1>12 DEF TypeOK, Points
    <3>3. Ownership'
      BY <2>0, <2>2, <1>12
    <3>4. Carriers'
      BY <2>0, <2>1, <2>2, <1>12 DEF Carriers, Recovering, Replaying
    <3>5. Positions'
      BY <2>0, <2>1, <2>2, <1>12 DEF Positions
    <3>6. QED
      BY <3>2, <3>3, <3>4, <3>5 DEF TypeInv
  <2>3. CASE ~Return(c)
    <3>1. /\ req' = req /\ lock' = lock /\ \A d \in Clients \ {c} : pc'[d] = pc[d]
          /\ pc' \in [Clients -> Points] /\ pc'[c] \in {"event", "extend"}
      BY <1>15, <2>3 DEF FillHeader, FillEvent, TypeOK, Points
    <3>2. TypeOK'
      BY <2>0, <2>1, <3>1 DEF TypeOK
    <3>3. Ownership'
      BY <2>0, <3>1 DEF Ownership, Held
    <3>4. Carriers'
      BY <2>0, <2>1, <3>1 DEF Carriers, Recovering, Replaying
    <3>5. Positions'
      BY <2>0, <2>1, <3>1 DEF Positions
    <3>6. QED
      BY <3>2, <3>3, <3>4, <3>5 DEF TypeInv
  <2>4. QED
    BY <2>2, <2>3
<1>16. ASSUME NEW c \in Clients, ExtendPcr(c) PROVE TypeInv'
  <2>1. CASE Return(c) /\ UNCHANGED rtmr
    <3>1. pc[c] \in Held /\ phase' = phase
      BY <1>16 DEF ExtendPcr, Held
    <3>2. TypeOK'
      BY <1>16, <2>1, <1>12, <3>1 DEF TypeOK, Points, ExtendPcr
    <3>3. Ownership'
      BY <1>16, <2>1, <1>12, <3>1 DEF ExtendPcr
    <3>4. Carriers'
      BY <1>16, <2>1, <1>12, <3>1 DEF Carriers, ExtendPcr, Recovering, Replaying
    <3>5. Positions'
      BY <1>16, <2>1, <1>12, <3>1 DEF Positions, ExtendPcr
    <3>6. QED
      BY <3>2, <3>3, <3>4, <3>5 DEF TypeInv
  <2>2. CASE ~(Return(c) /\ UNCHANGED rtmr)
    <3>1. Ccmr[req[c].pcr] \in Ccmrs /\ req[c].ev \in Events
      BY <1>16 DEF ExtendPcr, Request, TypeOK, Carriers
    <3>2. Append(rtmr[Ccmr[req[c].pcr]], req[c].ev) \in Seq(Events)
      BY <3>1 DEF TypeOK
    <3>3. rtmr' \in [Ccmrs -> Seq(Events)]
      BY <1>16, <2>2, <3>1, <3>2 DEF ExtendPcr, TypeOK
    <3>4. TypeOK'
      BY <1>16, <2>2, <3>1, <3>2, <3>3 DEF TypeOK, Points, ExtendPcr
    <3>5. Ownership'
      BY <1>16, <2>2, <3>1, <3>2, <3>3 DEF Ownership, TypeOK, ExtendPcr, Held, Points
    <3>6. Carriers'
      BY <1>16, <2>2, <3>1, <3>2, <3>3 DEF Carriers, TypeOK, ExtendPcr, Recovering, Replaying, Ownership
    <3>7. Positions'
      BY <1>16, <2>2, <3>1, <3>2, <3>3 DEF Positions, TypeOK, ExtendPcr, Ownership, Held
    <3>8. QED
      BY <3>4, <3>5, <3>6, <3>7 DEF TypeInv
  <2>3. QED
    BY <2>1, <2>2
<1>17. ASSUME NEW c \in Clients, WriteHead(c) PROVE TypeInv'
  <2>1. Cell(req[c].ev, LogReg, "head") \in Cells
    BY <1>17, LogRegType, CellType DEF WriteHead, Carriers
  <2>2. file' \in Seq(Cells) /\ Len(file') >= Len(file) /\ Len(file') >= cursor + 1
    BY <1>17, <2>1, WriteAtType, <1>b DEF WriteHead
  <2>3. TypeOK'
    BY <1>17, <2>1, <2>2 DEF TypeOK, WriteHead, Phases, Replaying, Points
  <2>4. Ownership'
    BY <1>17, <2>1, <2>2 DEF Ownership, TypeOK, WriteHead, Held, Points
  <2>5. Carriers'
    BY <1>17, <2>1, <2>2 DEF Carriers, TypeOK, WriteHead, Recovering, Replaying, Ownership
  <2>6. Positions'
    BY <1>17, <2>1, <2>2 DEF Positions, TypeOK, WriteHead, Ownership, Held
  <2>7. QED
    BY <2>3, <2>4, <2>5, <2>6 DEF TypeInv
<1>18. ASSUME NEW c \in Clients, WriteTail(c) PROVE TypeInv'
  <2>1. Cell(req[c].ev, LogReg, "tail") \in Cells
    BY <1>18, LogRegType, CellType DEF WriteTail, Carriers
  <2>2. file' \in Seq(Cells) /\ Len(file') >= Len(file) /\ Len(file') >= cursor + 1
    BY <1>18, <2>1, WriteAtType, <1>b DEF WriteTail
  <2>3. \A d \in Clients \ {c} : pc[d] \notin Held
    BY <1>18 DEF WriteTail, Held, Ownership
  <2>4. CASE Return(c) /\ UNCHANGED pos
    <3>1. pc[c] \in Held /\ phase' = phase
      BY <1>18 DEF WriteTail, Held
    <3>2. TypeOK'
      BY <1>18, <2>1, <2>2, <2>3, <2>4, <1>12, <3>1 DEF TypeOK, Points, WriteTail
    <3>3. Ownership'
      BY <1>18, <2>1, <2>2, <2>3, <2>4, <1>12, <3>1 DEF WriteTail
    <3>4. Carriers'
      BY <1>18, <2>1, <2>2, <2>3, <2>4, <1>12, <3>1 DEF Carriers, WriteTail, Recovering, Replaying
    <3>5. Positions'
      BY <1>18, <2>1, <2>2, <2>3, <2>4, <1>12, <3>1 DEF Positions, WriteTail
    <3>6. QED
      BY <3>2, <3>3, <3>4, <3>5 DEF TypeInv
  <2>5. CASE ~(Return(c) /\ UNCHANGED pos)
    <3>0. /\ pos' = pos + 2 /\ cursor' = cursor + 1 /\ pc' = [pc EXCEPT ![c] = "clean"]
          /\ UNCHANGED <<phase, req, lock, wal, rtmr, calls, acks>>
      BY <1>18, <2>5 DEF WriteTail
    <3>1. TypeOK'
      BY <2>2, <3>0 DEF TypeOK, Points
    <3>2. Ownership'
      BY <1>18, <2>1, <2>2, <2>3, <2>5 DEF Ownership, TypeOK, WriteTail, Held, Points
    <3>3. Carriers'
      BY <1>18, <2>1, <2>2, <2>3, <2>5 DEF Carriers, TypeOK, WriteTail, Recovering, Replaying, Ownership
    <3>4. Positions'
      <4>1. pos + 1 <= cursor
        BY <1>18 DEF Positions, WriteTail
      <4>2. \A d \in Clients : pc'[d] # "tail"
        BY <2>3, <3>0 DEF TypeOK, Held
      <4>3. phase # "retail"
        BY <1>18 DEF Ownership, WriteTail
      <4>4. QED
        BY <2>2, <3>0, <4>1, <4>2, <4>3 DEF Positions
    <3>5. QED
      BY <3>1, <3>2, <3>3, <3>4 DEF TypeInv
  <2>6. QED
    BY <2>4, <2>5
<1>19. ASSUME NEW c \in Clients, CleanWal(c) PROVE TypeInv'
  <2>1. pc[c] \in Held /\ phase' = phase /\ Return(c)
    BY <1>19 DEF CleanWal, Held
  <2>2. req[c].ev \in Events
    BY <1>19 DEF CleanWal, Carriers
  <2>3. acks' \in [Events -> Nat]
    <3>1. acks \in [Events -> Nat] /\ acks[req[c].ev] + 1 \in Nat
      BY <2>2 DEF TypeOK
    <3>2. acks' = acks \/ acks' = [acks EXCEPT ![req[c].ev] = acks[req[c].ev] + 1]
      BY <1>19 DEF CleanWal
    <3>3. QED
      BY <2>2, <3>1, <3>2
  <2>4. TypeOK'
    BY <1>19, <2>1, <2>2, <2>3, <1>12, WalType DEF TypeOK, CleanWal, Phases, Replaying, Points
  <2>5. Ownership'
    BY <1>19, <2>1, <2>2, <2>3, <1>12, WalType DEF Ownership, TypeOK, CleanWal, Held
  <2>6. Carriers'
    BY <1>19, <2>1, <2>2, <2>3, <1>12, WalType DEF Carriers, TypeOK, CleanWal, Recovering, Replaying, Ownership
  <2>7. Positions'
    BY <1>19, <2>1, <2>2, <2>3, <1>12, WalType DEF Positions, TypeOK, CleanWal
  <2>8. QED
    BY <2>4, <2>5, <2>6, <2>7 DEF TypeInv
<1>20. ASSUME NEW c \in Clients, LogFails(c) PROVE TypeInv'
  <2>1. pc[c] \in Held /\ phase' = phase /\ Return(c)
    BY <1>20 DEF LogFails, Held
  <2>2. TypeOK'
    BY <1>20, <2>1, <1>12 DEF TypeOK, LogFails, Phases, Replaying, Points
  <2>3. Ownership'
    BY <1>20, <2>1, <1>12 DEF Ownership, TypeOK, LogFails, Held
  <2>4. Carriers'
    BY <1>20, <2>1, <1>12 DEF Carriers, TypeOK, LogFails, Recovering, Replaying, Ownership
  <2>5. Positions'
    BY <1>20, <2>1, <1>12 DEF Positions, TypeOK, LogFails
  <2>6. QED
    BY <2>2, <2>3, <2>4, <2>5 DEF TypeInv
<1>21. ASSUME NEW c \in Clients, Cancel(c) PROVE TypeInv'
  <2>1. /\ req' \in [Clients -> Request] /\ req'[c].off <= Len(file)
        /\ \A d \in Clients : pc'[d] # "idle" => req'[d] = req[d] /\ pc[d] # "idle"
        /\ \A d \in Clients \ {c} : req'[d] = req[d]
    <3>1. \/ /\ req' = req
             /\ pc' = [pc EXCEPT ![c] = "orphan"]
          \/ /\ req' = [req EXCEPT ![c] = NoRequest]
             /\ pc' = [pc EXCEPT ![c] = "idle"]
      BY <1>21 DEF Cancel
    <3>2. pc[c] # "idle" /\ req \in [Clients -> Request] /\ pc \in [Clients -> Points]
      BY <1>21 DEF Cancel, TypeOK
    <3>3. \A d \in Clients : req[d].off <= Len(file)
      BY DEF Positions
    <3>4. QED
      BY <3>1, <3>2, <3>3, NoRequestType
  <2>2. TypeOK'
    BY <1>21, <2>1 DEF TypeOK, Cancel, Phases, Replaying, Points
  <2>3. Ownership'
    BY <1>21, <2>1 DEF Ownership, TypeOK, Cancel, Held, Points
  <2>4. Carriers'
    BY <1>21, <2>1 DEF Carriers, TypeOK, Cancel, Recovering, Replaying, Ownership
  <2>5. Positions'
    BY <1>21, <2>1 DEF Positions, TypeOK, Cancel
  <2>6. QED
    BY <2>2, <2>3, <2>4, <2>5 DEF TypeInv
<1>22. ASSUME NEW c \in Clients, OrphanExtend(c) PROVE TypeInv'
  <2>1. Ccmr[req[c].pcr] \in Ccmrs /\ req[c].ev \in Events
    BY <1>22 DEF OrphanExtend, Request, TypeOK, Carriers
  <2>2. rtmr' \in [Ccmrs -> Seq(Events)]
    BY <1>22, <2>1 DEF OrphanExtend, TypeOK
  <2>3. req' \in [Clients -> Request] /\ req'[c].off = 0
        /\ \A d \in Clients \ {c} : req'[d] = req[d]
    BY <1>22, NoRequestType DEF OrphanExtend, TypeOK
  <2>4. TypeOK'
    BY <1>22, <2>1, <2>2, <2>3 DEF TypeOK, OrphanExtend, Phases, Replaying, Points
  <2>5. Ownership'
    BY <1>22, <2>1, <2>2, <2>3 DEF Ownership, TypeOK, OrphanExtend, Held, Points
  <2>6. Carriers'
    BY <1>22, <2>1, <2>2, <2>3 DEF Carriers, TypeOK, OrphanExtend, Recovering, Replaying, Ownership
  <2>7. Positions'
    BY <1>22, <2>1, <2>2, <2>3 DEF Positions, TypeOK, OrphanExtend
  <2>8. QED
    BY <2>4, <2>5, <2>6, <2>7 DEF TypeInv
<1>23. CASE UNCHANGED vars
  BY <1>23 DEF vars, TypeInv, TypeOK, Ownership, Carriers, Positions
<1>24. QED
  BY <1>1, <1>2, <1>3, <1>4, <1>5, <1>6, <1>7, <1>8, <1>9, <1>10, <1>11, <1>12, <1>13, <1>14, <1>15, <1>16, <1>17, <1>18, <1>19, <1>20, <1>21, <1>22, <1>23
  DEF Next, Recovery, ExtendEntry

\* Whatever fails, the variables keep their types: in particular no write ever
\* leaves a gap in the log file.
THEOREM TypeCorrect == Spec => []TypeOK
<1>1. TypeInv => TypeOK
  BY DEF TypeInv
<1>2. QED
  BY <1>1, TypeInit, TypeStep, PTL DEF Spec

-----------------------------------------------------------------------------
(* Part 2: atomicity.  It holds where the log names the register that is    *)
(* extended, no write of the log fails and no handler is dropped; every     *)
(* other fault may happen, crashes of the agent included.                   *)

Contained ==
  /\ \A p \in RequestPcrs : Ccmr[p] = LogReg
  /\ Faults \cap {"logFail", "cancel"} = {}

\* File f is the log of the events m, up to the last entry.
LogOf(f, m) ==
  /\ Len(f) <= 2 * Len(m)
  /\ 2 * Len(m) <= Len(f) + 2
  /\ \A k \in 1 .. Len(m) :
       /\ 2 * k - 1 <= Len(f) => f[2 * k - 1] = Cell(m[k], LogReg, "head")
       /\ 2 * k <= Len(f) => f[2 * k] = Cell(m[k], LogReg, "tail")

LogIsPrefix == LogOf(file, Measured)

\* Nothing is missing from the file, and the writer stands at its end.
Settled ==
  /\ Len(file) = 2 * Len(Measured)
  /\ cursor = Len(file)
  /\ pos = Len(file)

\* A WAL cache whose event is cut short was to be one event ahead, and its text
\* does not read as that event.
CutInv ==
  wal.state = "short" =>
    \E e \in Events : /\ wal.expected = Append(Measured, e)
                     /\ wal.ev \in Cut[e] \cup {NoEvent}

RecoveryInv ==
  /\ phase \in Replaying => wal.state = "full"
  /\ phase = "reextend" => Ahead
  /\ phase \in {"rehead", "retail", "reclean"} => Behind
  /\ phase = "retail" => /\ Len(file) >= wal.off + 1
                         /\ cursor = wal.off + 1
                         /\ pos = wal.off
  /\ phase = "reclean" => Settled

RequestInv(c) ==
  /\ pc[c] \in {"lock", "orphan"} \cup Held => req[c].pcr \in RequestPcrs
  /\ pc[c] # "orphan"
  /\ pc[c] \in {"read", "wal", "fill", "event", "extend", "clean"} => Settled
  /\ pc[c] \in {"wal", "fill", "event", "extend"} =>
       /\ req[c].expected = Append(Measured, req[c].ev)
       /\ req[c].off = Len(file)
  /\ pc[c] \in {"extend", "head", "tail"} =>
       wal.state = "full" /\ wal.ev = req[c].ev
  /\ pc[c] = "extend" => Ahead
  /\ pc[c] \in {"head", "tail"} => Behind /\ pos = wal.off
  /\ pc[c] = "head" => Len(file) = wal.off /\ cursor = wal.off
  /\ pc[c] = "tail" => Len(file) = wal.off + 1 /\ cursor = wal.off + 1

AtomicInv ==
  /\ \A r \in Ccmrs \ {LogReg} : rtmr[r] = <<>>
  /\ LogIsPrefix
  /\ WalProtects
  /\ RecoveryInv
  /\ \A c \in Clients : RequestInv(c)
  /\ phase = "serving" /\ lock = NoClient => Settled

\* Writing a half of the last entry where it belongs.
LEMMA WriteHeadOfLast ==
  ASSUME NEW m \in Seq(Events), m # <<>>, NEW f \in Seq(Cells), LogOf(f, m),
         NEW o, o = 2 * (Len(m) - 1)
  PROVE  LET g == WriteAt(f, o, Cell(m[Len(m)], LogReg, "head"))
         IN  LogOf(g, m) /\ Len(g) = IF o < Len(f) THEN Len(f) ELSE o + 1
<1>. DEFINE x == Cell(m[Len(m)], LogReg, "head")
            g == WriteAt(f, o, x)
<1>1. Len(m) \in Nat \ {0} /\ Len(f) \in Nat /\ o \in Nat
  OBVIOUS
<1>2. o <= Len(f) /\ Len(f) <= o + 2
  BY <1>1 DEF LogOf
<1>3. x \in Cells
  BY <1>1, CellType, LogRegType
<1>4. /\ Len(g) = IF o < Len(f) THEN Len(f) ELSE o + 1
      /\ g[o + 1] = x
      /\ \A i \in 1 .. Len(f) : i # o + 1 => g[i] = f[i]
  BY <1>1, <1>2, <1>3, WriteAtType
<1>5. ASSUME NEW k \in 1 .. Len(m), 2 * k - 1 <= Len(g)
      PROVE  g[2 * k - 1] = Cell(m[k], LogReg, "head")
  <2>. HIDE DEF g
  <2>1. CASE k = Len(m)
    BY <1>1, <1>4, <2>1 DEF x
  <2>2. CASE k # Len(m)
    <3>1. 2 * k - 1 \in 1 .. Len(f) /\ 2 * k - 1 # o + 1
      BY <1>1, <1>2, <2>2
    <3>2. g[2 * k - 1] = f[2 * k - 1]
      BY <1>4, <3>1
    <3>3. f[2 * k - 1] = Cell(m[k], LogReg, "head")
      BY <3>1 DEF LogOf
    <3>4. QED
      BY <3>2, <3>3
  <2>3. QED
    BY <2>1, <2>2
<1>6. ASSUME NEW k \in 1 .. Len(m), 2 * k <= Len(g)
      PROVE  g[2 * k] = Cell(m[k], LogReg, "tail")
  <2>. HIDE DEF g
  <2>1. 2 * k <= Len(f) /\ 2 * k # o + 1
    BY <1>1, <1>2, <1>4, <1>6
  <2>2. QED
    BY <1>1, <1>4, <2>1 DEF LogOf
<1>7. Len(g) <= 2 * Len(m) /\ 2 * Len(m) <= Len(g) + 2
  BY <1>1, <1>2, <1>4
<1>8. QED
  BY <1>4, <1>5, <1>6, <1>7 DEF LogOf

LEMMA WriteTailOfLast ==
  ASSUME NEW m \in Seq(Events), m # <<>>, NEW f \in Seq(Cells), LogOf(f, m),
         NEW o, o = 2 * Len(m) - 1, o <= Len(f)
  PROVE  LET g == WriteAt(f, o, Cell(m[Len(m)], LogReg, "tail"))
         IN  LogOf(g, m) /\ Len(g) = 2 * Len(m)
<1>. DEFINE x == Cell(m[Len(m)], LogReg, "tail")
            g == WriteAt(f, o, x)
<1>1. Len(m) \in Nat \ {0} /\ Len(f) \in Nat /\ o \in Nat
  OBVIOUS
<1>2. Len(f) <= o + 1
  BY <1>1 DEF LogOf
<1>3. x \in Cells
  BY <1>1, CellType, LogRegType
<1>4. /\ Len(g) = o + 1
      /\ g[o + 1] = x
      /\ \A i \in 1 .. Len(f) : i # o + 1 => g[i] = f[i]
  <2>1. /\ Len(g) = IF o < Len(f) THEN Len(f) ELSE o + 1
        /\ g[o + 1] = x
        /\ \A i \in 1 .. Len(f) : i # o + 1 => g[i] = f[i]
    BY <1>1, <1>3, WriteAtType
  <2>2. QED
    BY <1>1, <1>2, <2>1
<1>5. ASSUME NEW k \in 1 .. Len(m), 2 * k - 1 <= Len(g)
      PROVE  g[2 * k - 1] = Cell(m[k], LogReg, "head")
  <2>. HIDE DEF g
  <2>1. 2 * k - 1 <= Len(f) /\ 2 * k - 1 # o + 1
    BY <1>1
  <2>2. QED
    BY <1>1, <1>4, <2>1 DEF LogOf
<1>6. ASSUME NEW k \in 1 .. Len(m), 2 * k <= Len(g)
      PROVE  g[2 * k] = Cell(m[k], LogReg, "tail")
  <2>. HIDE DEF g
  <2>1. CASE k = Len(m)
    BY <1>1, <1>4, <2>1 DEF x
  <2>2. CASE k # Len(m)
    BY <1>1, <1>2, <1>4, <2>2 DEF LogOf
  <2>3. QED
    BY <2>1, <2>2
<1>7. Len(g) = 2 * Len(m)
  BY <1>1, <1>4
<1>8. QED
  BY <1>1, <1>5, <1>6, <1>7 DEF LogOf

\* Extending the register leaves the log one entry short.
LEMMA ExtendOfLog ==
  ASSUME NEW m \in Seq(Events), NEW e \in Events, NEW f \in Seq(Cells),
         LogOf(f, m), Len(f) = 2 * Len(m)
  PROVE  LogOf(f, Append(m, e))
<1>1. Len(m) \in Nat /\ Len(Append(m, e)) = Len(m) + 1
  OBVIOUS
<1>2. ASSUME NEW k \in 1 .. Len(Append(m, e)), 2 * k - 1 <= Len(f)
      PROVE  k \in 1 .. Len(m) /\ Append(m, e)[k] = m[k]
  BY <1>1, <1>2
<1>3. QED
  BY <1>1, <1>2 DEF LogOf

LEMMA AtomicInit == Init => AtomicInv
<1>. SUFFICES ASSUME Init PROVE AtomicInv
  OBVIOUS
<1>1. Measured = <<>> /\ file = <<>> /\ cursor = 0 /\ pos = 0 /\ wal.state = "none"
  BY LogRegType, WalType DEF Init, Measured
<1>2. LogIsPrefix
  BY <1>1 DEF LogIsPrefix, LogOf
<1>3. WalProtects /\ Settled
  BY <1>1 DEF WalProtects, Settled
<1>4. RecoveryInv /\ \A c \in Clients : RequestInv(c)
  BY DEF Init, RecoveryInv, Replaying, RequestInv, Held
<1>5. QED
  BY <1>2, <1>3, <1>4 DEF AtomicInv, Init

\* What a step that touches neither the files nor the registers keeps.
LEMMA Quiet ==
  ASSUME AtomicInv, UNCHANGED <<wal, file, rtmr>>
  PROVE  /\ \A r \in Ccmrs \ {LogReg} : rtmr'[r] = <<>>
         /\ LogIsPrefix' /\ WalProtects'
         /\ Measured' = Measured
         /\ (Ahead' <=> Ahead) /\ (Behind' <=> Behind)
BY DEF AtomicInv, LogIsPrefix, LogOf, WalProtects, Ahead, Behind, Measured

\* A request that does not hold the Mutex has nothing to say of the files.
Bystander(d) == pc[d] \in {"idle", "lock"} /\ (pc[d] = "lock" => req[d].pcr \in RequestPcrs)

LEMMA BystanderInv ==
  ASSUME NEW d \in Clients
  PROVE  /\ Bystander(d) => RequestInv(d)
         /\ Bystander(d)' => RequestInv(d)'
BY DEF Bystander, RequestInv, Held

LEMMA NotHeld ==
  ASSUME TypeInv, AtomicInv, NEW d \in Clients, pc[d] \notin Held
  PROVE  Bystander(d)
BY DEF TypeInv, TypeOK, AtomicInv, RequestInv, Bystander, Points, Held

\* While the holder moves, the others are bystanders and stay so.
LEMMA OthersStand ==
  ASSUME TypeInv, AtomicInv, NEW c \in Clients, pc[c] \in Held,
         \A d \in Clients \ {c} : pc'[d] = pc[d] /\ req'[d] = req[d]
  PROVE  \A d \in Clients \ {c} : RequestInv(d)'
<1>. SUFFICES ASSUME NEW d \in Clients \ {c} PROVE RequestInv(d)'
  OBVIOUS
<1>1. pc[d] \notin Held
  BY DEF TypeInv, Ownership
<1>2. Bystander(d)'
  BY <1>1, NotHeld DEF Bystander
<1>3. QED
  BY <1>2, BystanderInv

\* While the agent does not serve there is no request.
LEMMA NobodyWhenDown ==
  ASSUME TypeInv, phase # "serving", pc' = pc
  PROVE  \A d \in Clients : RequestInv(d)'
<1>. SUFFICES ASSUME NEW d \in Clients PROVE RequestInv(d)'
  OBVIOUS
<1>1. pc[d] = "idle"
  BY DEF TypeInv, Ownership
<1>2. QED
  BY <1>1, BystanderInv DEF Bystander

\* The way out of extend_entry: the Mutex is free and the request is gone.
LEMMA AfterReturn ==
  ASSUME TypeInv, AtomicInv, NEW c \in Clients, pc[c] \in Held, Return(c)
  PROVE  \A d \in Clients : RequestInv(d)'
<1>1. /\ pc'[c] = "idle"
      /\ \A d \in Clients \ {c} : pc'[d] = pc[d] /\ req'[d] = req[d]
  BY DEF Return, TypeInv, TypeOK
<1>2. Bystander(c)'
  BY <1>1 DEF Bystander
<1>3. QED
  BY <1>1, <1>2, OthersStand, BystanderInv

\* Recovery: the register and the log are brought back together.
LEMMA AtomicRecoveryStep ==
  ASSUME Contained, TypeInv, AtomicInv, CutInv,
         Start \/ DeleteWal \/ Recovery \/ Crash
  PROVE  AtomicInv'
<1>a. /\ Measured \in Seq(Events) /\ Len(Measured) \in Nat
      /\ file \in Seq(Cells) /\ Len(file) \in Nat /\ wal.off \in Nat
      /\ rtmr \in [Ccmrs -> Seq(Events)]
      /\ wal.state \in {"none", "torn", "short", "full"}
  BY LogRegType DEF TypeInv, TypeOK, Measured, WalFile
<1>b. /\ LogOf(file, Measured)
      /\ \A r \in Ccmrs \ {LogReg} : rtmr[r] = <<>>
  BY DEF AtomicInv, LogIsPrefix
<1>1. CASE Start
  <2>1. phase # "serving" /\ pc' = pc /\ UNCHANGED <<wal, file, rtmr>>
    BY <1>1 DEF Start
  <2>2. wal.state = "none" => Len(file) = 2 * Len(Measured)
    BY DEF AtomicInv, WalProtects
  <2>3. phase' = "serving" => Settled'
    BY <1>1, <2>1, <2>2, Quiet DEF Start, Settled
  <2>4. RecoveryInv'
    BY <1>1 DEF Start, RecoveryInv, Replaying
  <2>5. QED
    BY <2>1, <2>3, <2>4, Quiet, NobodyWhenDown DEF AtomicInv
<1>2. CASE DeleteWal
  <2>1. /\ phase # "serving" /\ phase' = phase /\ phase = "down" /\ pc' = pc
        /\ UNCHANGED <<file, rtmr>>
    BY <1>2 DEF DeleteWal
  <2>2. Measured' = Measured /\ LogIsPrefix'
    BY <1>b, <2>1 DEF Measured, LogIsPrefix
  <2>3. Len(file) = 2 * Len(Measured)
    BY <1>2 DEF AtomicInv, WalProtects, DeleteWal
  <2>4. WalProtects'
    BY <1>2, <2>1, <2>2, <2>3, WalType DEF WalProtects, DeleteWal
  <2>5. RecoveryInv'
    BY <2>1 DEF RecoveryInv, Replaying
  <2>6. QED
    BY <1>b, <2>1, <2>2, <2>4, <2>5, NobodyWhenDown DEF AtomicInv
<1>3. CASE Reread \/ Check
  <2>1. phase # "serving" /\ pc' = pc /\ UNCHANGED <<wal, file, rtmr>> /\ phase' # "serving"
    BY <1>3 DEF Reread, Check
  <2>2. wal.state = "full" => Ahead \/ Behind
    BY DEF AtomicInv, WalProtects
  <2>3. Ahead => Measured # wal.expected
    <3>1. ASSUME NEW e \in Events PROVE Measured # Append(Measured, e)
      <4>1. Len(Append(Measured, e)) = Len(Measured) + 1
        BY <1>a
      <4> QED BY <1>a, <4>1
    <3>2. Ahead => wal.expected = Append(Measured, wal.ev)
      BY DEF Ahead
    <3>3. wal.ev = NoEvent => Append(Measured, wal.ev) # Measured
      <4>1. Len(Append(Measured, NoEvent)) = Len(Measured) + 1
        BY <1>a
      <4> QED BY <1>a, <4>1
    <3>4. wal.ev \in Events \cup {NoEvent}
      BY DEF TypeInv, TypeOK, WalFile
    <3> QED BY <3>1, <3>2, <3>3, <3>4
  <2>4. Behind => Measured = wal.expected
    BY DEF Behind
  <2>5. ASSUME wal.state = "short", phase' # "check" PROVE phase' = "down"
    <3>1. PICK e \in Events : wal.expected = Append(Measured, e) /\ wal.ev \in Cut[e] \cup {NoEvent}
      BY <2>5 DEF CutInv
    <3>2. Measured # wal.expected
      <4>1. Len(Append(Measured, e)) = Len(Measured) + 1
        BY <1>a
      <4> QED BY <1>a, <3>1, <4>1
    <3>3. wal.ev # NoEvent => wal.ev \in Events /\ wal.ev # e
      BY <3>1, EventLogAssumption
    <3>4. \A x \in Events : Append(Measured, x) = Append(Measured, e) => x = e
      BY <1>a
    <3> QED BY <1>3, <2>5, <3>1, <3>2, <3>3, <3>4 DEF Reread, Check, Measured
  <2>6. phase' \in Replaying => wal.state = "full"
    <3>1. wal.state \in {"short", "full"}
      BY <1>3 DEF Reread, Check, TypeInv, Carriers, Recovering
    <3> QED BY <2>5, <3>1 DEF Replaying
  <2>7. phase' = "reextend" => Ahead
    BY <1>3, <2>2, <2>4, <2>6 DEF Reread, Check, Measured, Replaying
  <2>8. phase' \in {"rehead", "retail", "reclean"} => phase' = "rehead" /\ Behind
    BY <1>3, <2>2, <2>3, <2>6 DEF Reread, Check, Measured, Replaying
  <2>9. RecoveryInv'
    BY <2>1, <2>6, <2>7, <2>8, Quiet DEF RecoveryInv
  <2> QED
    BY <2>1, <2>9, Quiet, NobodyWhenDown DEF AtomicInv
<1>4. CASE Reextend
  <2>0. /\ phase # "serving" /\ pc' = pc /\ phase' # "serving" /\ Ahead
        /\ UNCHANGED <<wal, file>> /\ wal.state = "full" /\ wal.ev \in Events
    BY <1>4 DEF Reextend, AtomicInv, RecoveryInv, TypeInv, Carriers, Recovering, Replaying
  <2>1. CASE phase' = "down" /\ UNCHANGED rtmr
    <3>1. RecoveryInv'
      BY <2>1 DEF RecoveryInv, Replaying
    <3>2. QED
      BY <2>0, <2>1, <3>1, Quiet, NobodyWhenDown DEF AtomicInv
  <2>2. CASE phase' = "rehead" /\ rtmr' = [rtmr EXCEPT ![LogReg] = Append(@, wal.ev)]
    <3>1. /\ Measured' = Append(Measured, wal.ev)
          /\ \A r \in Ccmrs \ {LogReg} : rtmr'[r] = <<>>
      BY <1>a, <1>b, <2>2, LogRegType DEF Measured
    <3>2. /\ Len(Measured') = Len(Measured) + 1 /\ Measured' # <<>>
          /\ Measured'[Len(Measured')] = wal.ev
      BY <1>a, <2>0, <3>1
    <3>3. LogIsPrefix'
      BY <1>a, <1>b, <2>0, <3>1, ExtendOfLog DEF LogIsPrefix, Ahead
    <3>4. Behind'
      BY <1>a, <2>0, <3>1, <3>2 DEF Behind, Ahead
    <3>5. WalProtects' /\ RecoveryInv'
      BY <2>0, <2>2, <3>4 DEF WalProtects, RecoveryInv
    <3>6. QED
      BY <2>0, <3>1, <3>3, <3>5, NobodyWhenDown DEF AtomicInv
  <2>3. QED
    BY <1>4, <2>1, <2>2 DEF Reextend
<1>5. CASE Rehead
  <2>0. /\ phase # "serving" /\ pc' = pc /\ phase' = "retail" /\ Behind
        /\ UNCHANGED <<wal, rtmr>> /\ wal.state = "full"
        /\ cursor' = wal.off + 1 /\ pos' = wal.off
    BY <1>5 DEF Rehead, AtomicInv, RecoveryInv, TypeInv, Carriers, Recovering, Replaying
  <2>1. file' = WriteAt(file, wal.off, Cell(Measured[Len(Measured)], LogReg, "head"))
    BY <1>5, <2>0 DEF Rehead, Behind
  <2>2. LogOf(file', Measured) /\ Len(file') = IF wal.off < Len(file) THEN Len(file) ELSE wal.off + 1
    BY <1>a, <1>b, <2>0, <2>1, WriteHeadOfLast DEF Behind
  <2>3. Measured' = Measured /\ Behind' /\ Len(file') >= wal.off + 1
    BY <1>a, <2>0, <2>2 DEF Measured, Behind
  <2>4. LogIsPrefix' /\ WalProtects' /\ RecoveryInv'
    BY <2>0, <2>2, <2>3 DEF LogIsPrefix, WalProtects, RecoveryInv
  <2>5. QED
    BY <1>b, <2>0, <2>4, NobodyWhenDown DEF AtomicInv
<1>6. CASE Retail
  <2>0. /\ phase # "serving" /\ pc' = pc /\ phase' = "reclean" /\ Behind
        /\ UNCHANGED <<wal, rtmr>> /\ wal.state = "full"
        /\ cursor = wal.off + 1 /\ pos = wal.off /\ Len(file) >= wal.off + 1
        /\ cursor' = cursor + 1 /\ pos' = pos + 2
    BY <1>6 DEF Retail, AtomicInv, RecoveryInv, TypeInv, Carriers, Recovering, Replaying
  <2>1. file' = WriteAt(file, cursor, Cell(Measured[Len(Measured)], LogReg, "tail"))
    BY <1>6, <2>0 DEF Retail, Behind
  <2>2. Measured # <<>> /\ cursor = 2 * Len(Measured) - 1 /\ cursor <= Len(file)
    BY <1>a, <2>0 DEF Behind
  <2>3. LogOf(file', Measured) /\ Len(file') = 2 * Len(Measured)
    BY <1>a, <1>b, <2>1, <2>2, WriteTailOfLast
  <2>4. Measured' = Measured /\ Behind' /\ Settled'
    BY <1>a, <2>0, <2>2, <2>3 DEF Measured, Behind, Settled
  <2>5. LogIsPrefix' /\ WalProtects' /\ RecoveryInv'
    BY <2>0, <2>3, <2>4 DEF LogIsPrefix, WalProtects, RecoveryInv
  <2>6. QED
    BY <1>b, <2>0, <2>5, NobodyWhenDown DEF AtomicInv
<1>7. CASE Reclean
  <2>0. phase # "serving" /\ pc' = pc /\ Settled /\ UNCHANGED <<file, rtmr, cursor, pos>>
    BY <1>7 DEF Reclean, AtomicInv, RecoveryInv
  <2>1. Measured' = Measured /\ Settled' /\ LogIsPrefix'
    BY <1>b, <2>0 DEF Measured, Settled, LogIsPrefix
  <2>2. wal' = Wal("none") \/ wal' = wal
    BY <1>7 DEF Reclean
  <2>3. WalProtects'
    BY <2>0, <2>1, <2>2, WalType DEF AtomicInv, WalProtects, Settled, Ahead, Behind
  <2>4. RecoveryInv'
    BY <1>7 DEF Reclean, RecoveryInv, Replaying
  <2>5. QED
    BY <1>b, <2>0, <2>1, <2>3, <2>4, NobodyWhenDown DEF AtomicInv
<1>8. CASE Crash
  <2>1. /\ UNCHANGED <<wal, file, rtmr>> /\ phase' = "down"
        /\ \A d \in Clients : pc'[d] = "idle"
    BY <1>8 DEF Crash
  <2>2. RecoveryInv' /\ \A d \in Clients : RequestInv(d)'
    BY <2>1, BystanderInv DEF RecoveryInv, Replaying, Bystander
  <2>3. QED
    BY <2>1, <2>2, Quiet DEF AtomicInv
<1>9. QED
  BY <1>1, <1>2, <1>3, <1>4, <1>5, <1>6, <1>7, <1>8 DEF Recovery

\* Requests: under the Mutex, one entry at a time.
LEMMA AtomicRequestStep ==
  ASSUME Contained, TypeInv, AtomicInv, NEW c \in Clients,
         \/ \E e \in Events, p \in RequestPcrs : Call(c, e, p)
         \/ Lock(c) \/ ExtendEntry(c)
  PROVE  AtomicInv'
<1>a. /\ Measured \in Seq(Events) /\ Len(Measured) \in Nat
      /\ file \in Seq(Cells) /\ Len(file) \in Nat /\ wal.off \in Nat
      /\ cursor \in Nat /\ pos \in Nat
      /\ rtmr \in [Ccmrs -> Seq(Events)]
      /\ pc \in [Clients -> Points] /\ req \in [Clients -> Request]
  BY LogRegType DEF TypeInv, TypeOK, Measured, WalFile
<1>b. /\ LogOf(file, Measured)
      /\ \A r \in Ccmrs \ {LogReg} : rtmr[r] = <<>>
      /\ WalProtects /\ RequestInv(c)
  BY DEF AtomicInv, LogIsPrefix
<1>c. /\ pc[c] # "idle" => phase = "serving" /\ req[c].ev \in Events
      /\ pc[c] \in Held <=> lock = c
      /\ c # NoClient
  BY EventLogAssumption DEF TypeInv, Ownership, Carriers
<1>d. pc[c] \in Held => req[c].pcr \in RequestPcrs /\ Ccmr[req[c].pcr] = LogReg
  BY <1>b DEF RequestInv, Contained
<1>e. ASSUME phase' = "serving" PROVE RecoveryInv'
  BY <1>e DEF RecoveryInv, Replaying
<1>1. ASSUME NEW e \in Events, NEW p \in RequestPcrs, Call(c, e, p) PROVE AtomicInv'
  <2>1. /\ UNCHANGED <<wal, file, rtmr, cursor, pos, lock, phase>> /\ phase = "serving"
        /\ pc[c] = "idle" /\ pc' = [pc EXCEPT ![c] = "lock"]
        /\ req' = [req EXCEPT ![c] = [NoRequest EXCEPT !.ev = e, !.pcr = p]]
    BY <1>1 DEF Call
  <2>2. [NoRequest EXCEPT !.ev = e, !.pcr = p].pcr = p
    BY DEF NoRequest
  <2>3. RequestInv(c)'
    BY <1>a, <2>1, <2>2, BystanderInv DEF Bystander
  <2>4. ASSUME NEW d \in Clients \ {c} PROVE RequestInv(d)'
    <3>1. pc'[d] = pc[d] /\ req'[d] = req[d] /\ RequestInv(d)
      BY <1>a, <2>1 DEF AtomicInv
    <3>2. QED
      BY <2>1, <3>1, Quiet DEF RequestInv, Settled
  <2>5. lock = NoClient => Settled'
    BY <2>1, Quiet DEF AtomicInv, Settled
  <2>6. QED
    BY <1>e, <2>1, <2>3, <2>4, <2>5, Quiet DEF AtomicInv
<1>2. CASE Lock(c)
  <2>1. /\ UNCHANGED <<wal, file, rtmr, cursor, pos, req, phase>>
        /\ lock = NoClient /\ lock' = c
        /\ pc[c] = "lock" /\ pc' = [pc EXCEPT ![c] = "read"]
    BY <1>2 DEF Lock
  <2>2. Settled' /\ phase = "serving"
    BY <1>c, <2>1, Quiet DEF AtomicInv, Settled
  <2>3. RequestInv(c)'
    BY <1>a, <1>b, <2>1, <2>2 DEF RequestInv
  <2>4. ASSUME NEW d \in Clients \ {c} PROVE RequestInv(d)'
    <3>1. pc[d] \notin Held
      BY <2>1, EventLogAssumption DEF TypeInv, Ownership
    <3>2. Bystander(d)'
      BY <1>a, <2>1, <3>1, NotHeld DEF Bystander
    <3>3. QED
      BY <3>2, BystanderInv
  <2>5. QED
    BY <1>c, <1>e, <2>1, <2>2, <2>3, <2>4, Quiet DEF AtomicInv
\* Leaving extend_entry with the log and the register settled.
<1>3. ASSUME pc[c] \in Held, Return(c), Settled, UNCHANGED <<phase, file, rtmr, cursor, pos>>,
             WalProtects'
      PROVE  AtomicInv'
  <2>1. phase' = "serving" /\ Measured' = Measured
    BY <1>3, <1>c, EventLogAssumption DEF Measured, Held
  <2>2. LogIsPrefix' /\ Settled' /\ \A r \in Ccmrs \ {LogReg} : rtmr'[r] = <<>>
    BY <1>3, <1>b, <2>1 DEF LogIsPrefix, Settled
  <2>3. QED
    BY <1>3, <1>e, <2>1, <2>2, AfterReturn DEF AtomicInv
\* Moving on inside extend_entry.
<1>4. ASSUME pc[c] \in Held, phase' = phase, lock' = lock,
             \A d \in Clients \ {c} : pc'[d] = pc[d] /\ req'[d] = req[d],
             \A r \in Ccmrs \ {LogReg} : rtmr'[r] = <<>>,
             LogIsPrefix', WalProtects', RequestInv(c)'
      PROVE  AtomicInv'
  <2>1. phase' = "serving" /\ lock' = c
    BY <1>4, <1>c DEF Held
  <2>2. QED
    BY <1>4, <1>c, <1>e, <2>1, OthersStand DEF AtomicInv
<1>5. CASE ReadPcr(c)
  <2>1. /\ pc[c] \in Held /\ pc[c] = "read" /\ Settled
        /\ UNCHANGED <<phase, wal, file, cursor, pos, rtmr>>
    BY <1>5, <1>b DEF ReadPcr, Held, RequestInv
  <2>2. CASE Return(c)
    BY <1>3, <2>1, <2>2, Quiet
  <2>3. CASE ~Return(c)
    <3>. DEFINE q == [req[c] EXCEPT
                        !.expected = Append(rtmr[Ccmr[req[c].pcr]], req[c].ev), !.off = pos]
    <3>1. /\ pc' = [pc EXCEPT ![c] = "wal"] /\ req' = [req EXCEPT ![c] = q] /\ lock' = lock
      BY <1>5, <2>3 DEF ReadPcr
    <3>2. q.ev = req[c].ev /\ q.pcr = req[c].pcr /\ q.off = pos
          /\ q.expected = Append(Measured, req[c].ev)
      BY <1>a, <1>d, <2>1 DEF Request, Measured
    <3>. HIDE DEF q
    <3>3. Measured' = Measured /\ Settled'
      BY <2>1, Quiet DEF Settled
    <3>4. RequestInv(c)'
      BY <1>a, <1>d, <2>1, <3>1, <3>2, <3>3 DEF RequestInv, Settled
    <3>5. QED
      BY <1>4, <1>a, <2>1, <3>1, <3>4, Quiet
  <2>4. QED
    BY <2>2, <2>3
<1>6. CASE CreateWal(c)
  <2>1. /\ pc[c] \in Held /\ pc[c] = "wal" /\ Settled
        /\ UNCHANGED <<phase, file, cursor, pos, rtmr>>
    BY <1>6, <1>b DEF CreateWal, Held, RequestInv
  <2>2. CASE Return(c) /\ UNCHANGED wal
    BY <1>3, <2>1, <2>2, Quiet
  <2>3. CASE ~(Return(c) /\ UNCHANGED wal)
    <3>1. /\ pc' = [pc EXCEPT ![c] = "fill"] /\ req' = req /\ lock' = lock
          /\ wal' = Wal("torn")
      BY <1>6, <2>3 DEF CreateWal
    <3>2. Measured' = Measured /\ Settled' /\ LogIsPrefix'
      BY <1>b, <2>1 DEF Measured, Settled, LogIsPrefix
    <3>3. WalProtects'
      BY <3>1, <3>2, WalType DEF WalProtects, Settled
    <3>4. RequestInv(c)'
      BY <1>a, <1>b, <1>d, <2>1, <3>1, <3>2 DEF RequestInv
    <3>5. QED
      BY <1>4, <1>a, <1>b, <2>1, <3>1, <3>2, <3>3, <3>4
  <2>4. QED
    BY <2>2, <2>3
<1>7. CASE FillHeader(c)
  <2>1. /\ pc[c] \in Held /\ pc[c] = "fill" /\ Settled
        /\ UNCHANGED <<phase, file, cursor, pos, rtmr>>
    BY <1>7, <1>b DEF FillHeader, Held, RequestInv
  <2>2. CASE Return(c) /\ UNCHANGED wal
    BY <1>3, <2>1, <2>2, Quiet
  <2>3. CASE ~(Return(c) /\ UNCHANGED wal)
    <3>1. /\ pc' = [pc EXCEPT ![c] = "event"] /\ req' = req /\ lock' = lock
          /\ wal'.state = "short"
      BY <1>7, <2>3 DEF FillHeader, WalOf
    <3>2. Measured' = Measured /\ Settled' /\ LogIsPrefix'
      BY <1>b, <2>1 DEF Measured, Settled, LogIsPrefix
    <3>3. WalProtects'
      BY <3>1, <3>2 DEF WalProtects, Settled
    <3>4. RequestInv(c)'
      BY <1>a, <1>b, <1>d, <2>1, <3>1, <3>2 DEF RequestInv
    <3>5. QED
      BY <1>4, <1>a, <1>b, <2>1, <3>1, <3>2, <3>3, <3>4
  <2>4. QED
    BY <2>2, <2>3
<1>13. CASE FillEvent(c)
  <2>1. /\ pc[c] \in Held /\ pc[c] = "event" /\ Settled
        /\ UNCHANGED <<phase, file, cursor, pos, rtmr>>
        /\ req[c].expected = Append(Measured, req[c].ev) /\ req[c].off = Len(file)
    BY <1>13, <1>b DEF FillEvent, Held, RequestInv
  <2>2. CASE Return(c) /\ UNCHANGED wal
    BY <1>3, <2>1, <2>2, Quiet
  <2>3. CASE wal' = WalOf(c, "full", req[c].ev)
    <3>2. Measured' = Measured /\ Settled' /\ LogIsPrefix'
      BY <1>b, <2>1 DEF Measured, Settled, LogIsPrefix
    <3>3. Ahead' /\ wal'.state = "full" /\ wal'.ev = req[c].ev
      BY <2>1, <2>3, <3>2 DEF Ahead, Settled, WalOf
    <3>4. WalProtects'
      BY <3>2, <3>3 DEF WalProtects, Settled
    <3>5. CASE Return(c)
      BY <1>3, <2>1, <3>4, <3>5
    <3>6. CASE ~Return(c)
      <4>1. pc' = [pc EXCEPT ![c] = "extend"] /\ req' = req /\ lock' = lock
        BY <1>13, <3>6 DEF FillEvent
      <4>2. RequestInv(c)'
        BY <1>a, <1>b, <1>d, <2>1, <3>2, <3>3, <4>1 DEF RequestInv
      <4> QED BY <1>4, <1>a, <1>b, <2>1, <3>2, <3>4, <4>1, <4>2
    <3> QED BY <3>5, <3>6
  <2>4. QED
    BY <1>13, <2>2, <2>3 DEF FillEvent
<1>8. CASE ExtendPcr(c)
  <2>1. /\ pc[c] \in Held /\ pc[c] = "extend" /\ Settled /\ Ahead
        /\ wal.state = "full" /\ wal.ev = req[c].ev
        /\ UNCHANGED <<phase, wal, file, cursor, pos>>
    BY <1>8, <1>b DEF ExtendPcr, Held, RequestInv
  <2>2. CASE Return(c) /\ UNCHANGED rtmr
    BY <1>3, <2>1, <2>2, Quiet
  <2>3. CASE ~(Return(c) /\ UNCHANGED rtmr)
    <3>1. /\ pc' = [pc EXCEPT ![c] = "head"] /\ req' = req /\ lock' = lock
          /\ rtmr' = [rtmr EXCEPT ![LogReg] = Append(@, wal.ev)]
      BY <1>8, <1>d, <2>1, <2>3 DEF ExtendPcr
    <3>2. /\ Measured' = Append(Measured, wal.ev)
          /\ \A r \in Ccmrs \ {LogReg} : rtmr'[r] = <<>>
      BY <1>a, <1>b, <3>1, LogRegType DEF Measured
    <3>3. wal.ev \in Events
      BY <1>c, <2>1
    <3>4. /\ Len(Measured') = Len(Measured) + 1 /\ Measured' # <<>>
          /\ Measured'[Len(Measured')] = wal.ev
      BY <1>a, <3>2, <3>3
    <3>5. LogIsPrefix'
      BY <1>a, <1>b, <2>1, <3>2, <3>3, ExtendOfLog DEF LogIsPrefix, Ahead
    <3>6. Behind'
      BY <1>a, <2>1, <3>2, <3>4 DEF Behind, Ahead
    <3>7. WalProtects'
      BY <2>1, <3>6 DEF WalProtects
    <3>8. RequestInv(c)'
      BY <1>a, <1>d, <2>1, <3>1, <3>6 DEF RequestInv, Settled, Ahead
    <3>9. QED
      BY <1>4, <1>a, <2>1, <3>1, <3>2, <3>5, <3>7, <3>8
  <2>4. QED
    BY <2>2, <2>3
<1>9. CASE WriteHead(c)
  <2>1. /\ pc[c] \in Held /\ pc[c] = "head" /\ Behind
        /\ Len(file) = wal.off /\ cursor = wal.off /\ pos = wal.off
        /\ wal.state = "full" /\ wal.ev = req[c].ev
        /\ UNCHANGED <<phase, req, lock, wal, pos, rtmr>>
        /\ cursor' = cursor + 1 /\ pc' = [pc EXCEPT ![c] = "tail"]
    BY <1>9, <1>b DEF WriteHead, Held, RequestInv
  <2>2. file' = WriteAt(file, wal.off, Cell(Measured[Len(Measured)], LogReg, "head"))
    BY <1>9, <2>1 DEF WriteHead, Behind
  <2>3. LogOf(file', Measured) /\ Len(file') = IF wal.off < Len(file) THEN Len(file) ELSE wal.off + 1
    BY <1>a, <1>b, <2>1, <2>2, WriteHeadOfLast DEF Behind
  <2>4. Measured' = Measured /\ Behind' /\ Len(file') = wal.off + 1
    <3>1. Measured' = Measured /\ wal' = wal
      BY <2>1 DEF Measured
    <3>2. Behind'
      BY <2>1, <3>1 DEF Behind
    <3>3. Len(file') = wal.off + 1
      BY <1>a, <2>1, <2>3
    <3>4. QED
      BY <3>1, <3>2, <3>3
  <2>5. LogIsPrefix' /\ WalProtects'
    BY <2>1, <2>3, <2>4 DEF LogIsPrefix, WalProtects
  <2>6. RequestInv(c)'
    BY <1>a, <1>d, <2>1, <2>4 DEF RequestInv
  <2>7. QED
    BY <1>4, <1>a, <1>b, <2>1, <2>5, <2>6
<1>10. CASE WriteTail(c)
  <2>1. /\ pc[c] \in Held /\ pc[c] = "tail" /\ Behind
        /\ Len(file) = wal.off + 1 /\ cursor = wal.off + 1 /\ pos = wal.off
        /\ wal.state = "full" /\ wal.ev = req[c].ev
        /\ UNCHANGED <<phase, req, lock, wal, rtmr>>
        /\ cursor' = cursor + 1 /\ pos' = pos + 2 /\ pc' = [pc EXCEPT ![c] = "clean"]
    BY <1>10, <1>b DEF WriteTail, Held, RequestInv, Contained
  <2>2. file' = WriteAt(file, cursor, Cell(Measured[Len(Measured)], LogReg, "tail"))
    BY <1>10, <2>1 DEF WriteTail, Behind
  <2>3. Measured # <<>> /\ cursor = 2 * Len(Measured) - 1 /\ cursor <= Len(file)
    BY <1>a, <2>1 DEF Behind
  <2>4. LogOf(file', Measured) /\ Len(file') = 2 * Len(Measured)
    BY <1>a, <1>b, <2>2, <2>3, WriteTailOfLast
  <2>5. Measured' = Measured /\ Behind' /\ Settled'
    <3>1. Measured' = Measured /\ wal' = wal /\ pos' = pos + 2 /\ cursor' = cursor + 1
      BY <2>1 DEF Measured
    <3>2. Behind'
      BY <2>1, <3>1 DEF Behind
    <3>3. wal.off = 2 * Len(Measured) - 2
      BY <1>a, <2>1 DEF Behind
    <3>4. cursor' = 2 * Len(Measured) /\ pos' = 2 * Len(Measured)
      BY <1>a, <2>1, <2>3, <3>1, <3>3
    <3>5. QED
      BY <2>4, <3>1, <3>2, <3>4 DEF Settled
  <2>6. LogIsPrefix' /\ WalProtects'
    BY <2>1, <2>4, <2>5 DEF LogIsPrefix, WalProtects
  <2>7. RequestInv(c)'
    BY <1>a, <1>d, <2>1, <2>5 DEF RequestInv
  <2>8. QED
    BY <1>4, <1>a, <1>b, <2>1, <2>6, <2>7
<1>11. CASE CleanWal(c)
  <2>1. /\ pc[c] \in Held /\ Return(c) /\ Settled
        /\ UNCHANGED <<phase, file, cursor, pos, rtmr>>
        /\ wal' = Wal("none") \/ wal' = wal
    BY <1>11, <1>b DEF CleanWal, Held, RequestInv
  <2>2. WalProtects'
    BY <1>b, <2>1, WalType DEF WalProtects, Settled, Ahead, Behind, Measured
  <2>3. QED
    BY <1>3, <2>1, <2>2
<1>12. QED
  BY <1>1, <1>2, <1>5, <1>6, <1>7, <1>8, <1>9, <1>10, <1>11, <1>13 DEF ExtendEntry

\* Nothing extends the register while a WAL cache is short.
LEMMA CutStep ==
  ASSUME Contained, TypeInv, AtomicInv, CutInv, [Next]_vars
  PROVE  CutInv'
<1>1. CASE UNCHANGED <<wal, rtmr>>
  BY <1>1 DEF CutInv, Measured
<1>2. CASE wal'.state # "short"
  BY <1>2 DEF CutInv
<1>3. ASSUME NEW c \in Clients, FillHeader(c), wal' # wal PROVE CutInv'
  <2>1. /\ pc[c] = "fill" /\ UNCHANGED rtmr
        /\ \E x \in Cut[req[c].ev] \cup {NoEvent} : wal' = WalOf(c, "short", x)
    BY <1>3 DEF FillHeader
  <2>2. /\ req[c].ev \in Events /\ req[c].expected = Append(Measured, req[c].ev)
        /\ Measured' = Measured
    BY <2>1 DEF TypeInv, Carriers, AtomicInv, RequestInv, Measured
  <2>3. PICK x \in Cut[req[c].ev] \cup {NoEvent} : wal' = WalOf(c, "short", x)
    BY <2>1
  <2>4. wal'.expected = Append(Measured', req[c].ev) /\ wal'.ev \in Cut[req[c].ev] \cup {NoEvent}
    BY <2>2, <2>3 DEF WalOf
  <2> QED BY <2>2, <2>4 DEF CutInv
<1>4. ASSUME Reextend \/ \E c \in Clients : ExtendPcr(c) PROVE wal'.state = "full"
  BY <1>4 DEF Reextend, ExtendPcr, AtomicInv, RecoveryInv, RequestInv, Replaying
<1>5. ASSUME DeleteWal \/ Reclean \/ \E c \in Clients : CreateWal(c) \/ FillEvent(c) \/ CleanWal(c)
      PROVE  wal'.state # "short" \/ UNCHANGED <<wal, rtmr>>
  BY <1>5, WalType DEF DeleteWal, Reclean, CreateWal, FillEvent, CleanWal, WalOf
<1>6. ASSUME NEW c \in Clients, OrphanExtend(c) PROVE FALSE
  BY <1>6 DEF OrphanExtend, AtomicInv, RequestInv
<1>7. CASE \/ Start \/ Reread \/ Check \/ Rehead \/ Retail \/ RewriteFails \/ Crash \/ UNCHANGED vars
           \/ \E c \in Clients :
                \/ \E e \in Events, p \in RequestPcrs : Call(c, e, p)
                \/ Lock(c) \/ ReadPcr(c) \/ WriteHead(c) \/ WriteTail(c) \/ LogFails(c) \/ Cancel(c)
  <2>1. UNCHANGED <<wal, rtmr>>
    BY <1>7 DEF Start, Reread, Check, Rehead, Retail, RewriteFails, Crash, Call, Lock,
                ReadPcr, WriteHead, WriteTail, LogFails, Cancel, vars
  <2> QED BY <1>1, <2>1
<1>8. ASSUME NEW c \in Clients, FillHeader(c) PROVE CutInv'
  <2>1. UNCHANGED rtmr
    BY <1>8 DEF FillHeader
  <2> QED BY <1>1, <1>3, <1>8, <2>1
<1> QED BY <1>1, <1>2, <1>4, <1>5, <1>6, <1>7, <1>8 DEF Next, Recovery, ExtendEntry

\* Under Contained the strengthened invariant is inductive.
LEMMA AtomicStep ==
  ASSUME Contained, TypeInv, AtomicInv, CutInv, [Next]_vars
  PROVE  AtomicInv'
<1>1. CASE UNCHANGED vars
  BY <1>1 DEF vars, AtomicInv, LogIsPrefix, LogOf, WalProtects, RecoveryInv, RequestInv,
              Settled, Ahead, Behind, Measured
<1>2. ASSUME RewriteFails PROVE FALSE
  BY <1>2 DEF RewriteFails, Contained
<1>3. ASSUME NEW c \in Clients, LogFails(c) \/ Cancel(c) PROVE FALSE
  BY <1>3 DEF LogFails, Cancel, Contained
<1>4. ASSUME NEW c \in Clients, OrphanExtend(c) PROVE FALSE
  BY <1>4 DEF OrphanExtend, AtomicInv, RequestInv
<1>5. QED
  BY <1>1, <1>2, <1>3, <1>4, AtomicRecoveryStep, AtomicRequestStep DEF Next

LEMMA AtomicAlways ==
  ASSUME Contained
  PROVE  Spec => [](TypeInv /\ AtomicInv /\ CutInv)
<1>1. Init => CutInv
  BY WalType DEF Init, CutInv
<1>2. QED
  BY <1>1, TypeInit, TypeStep, AtomicInit, AtomicStep, CutStep, PTL DEF Spec

\* extend_entry is atomic: whenever the agent serves at rest with no WAL cache,
\* the log replays to the registers, across any number of crashes and failures
\* of the register and of the WAL cache.
THEOREM Atomicity ==
  ASSUME Contained
  PROVE  Spec => []ExtendIsAtomic
<1>1. TypeInv /\ AtomicInv => ExtendIsAtomic
  <2>. SUFFICES ASSUME TypeInv, AtomicInv, phase = "serving", lock = NoClient
                PROVE  LogMatches
    BY DEF ExtendIsAtomic
  <2>1. LogOf(file, Measured) /\ Len(file) = 2 * Len(Measured)
    BY DEF AtomicInv, LogIsPrefix, Settled
  <2>2. Len(Measured) \in Nat
    BY LogRegType DEF TypeInv, TypeOK, Measured
  <2>3. ASSUME NEW k \in 1 .. Len(Measured) PROVE EntryIs(k, Measured[k])
    BY <2>1, <2>2 DEF EntryIs, LogOf
  <2>4. QED
    BY <2>1, <2>3 DEF LogMatches, AtomicInv, Measured
<1>2. QED
  BY <1>1, AtomicAlways, PTL

\* While the log is short of the register, the WAL cache holds what is missing.
THEOREM WalIsEnough ==
  ASSUME Contained
  PROVE  Spec => []WalProtects
<1>1. AtomicInv => WalProtects
  BY DEF AtomicInv
<1>2. QED
  BY <1>1, AtomicAlways, PTL

\* The agent never takes a whole WAL cache for one it cannot place, and never
\* replays one whose event is cut short: that one meets the fatal error.
THEOREM RecoveryPlaces ==
  ASSUME Contained
  PROVE  Spec => []RecoveryDecides
<1>1. AtomicInv => RecoveryDecides
  BY DEF AtomicInv, WalProtects, RecoveryInv, Ahead, Behind, Measured, RecoveryDecides, Replaying
<1>2. QED
  BY <1>1, AtomicAlways, PTL

-----------------------------------------------------------------------------
(* Part 3: registers and log hold what was requested, under every fault,    *)
(* where the requests extend the register that recovery reads.              *)

OneRegister == \A p \in RequestPcrs : Ccmr[p] = LogReg

\* A request whose event has not been extended yet, an orphan included.
ToExtend == {"lock", "read", "wal", "fill", "event", "extend", "orphan"}
Pending(e) == {c \in Clients : pc[c] \in ToExtend /\ req[c].ev = e}

\* Each call is good for one extension, made or to be made.
Counted(e) ==
  /\ IsFiniteSet(Extended(e)) /\ IsFiniteSet(Pending(e))
  /\ Cardinality(Extended(e)) + Cardinality(Pending(e)) <= calls[e]

\* The WAL cache of a call that has not extended is good for one as well, the same.
\* An extension of any request makes it useless.
Replayable == wal.state = "full" /\ wal.expected = Append(Measured, wal.ev)
WalCounted == Replayable => Cardinality(Extended(wal.ev)) < calls[wal.ev]

\* What a WAL cache expects was once one event ahead of the register.
OnceAhead(expected, e) ==
  /\ expected # <<>> /\ expected[Len(expected)] = e
  /\ Len(expected) <= Len(Measured) + 1

\* The same of a WAL cache: its text is the event it was written for, or that cut short.
WalExpects ==
  wal.state \in {"short", "full"} =>
    \E e \in Events : /\ OnceAhead(wal.expected, e)
                     /\ IF wal.state = "full" THEN wal.ev = e ELSE wal.ev \in Cut[e] \cup {NoEvent}

Expectations ==
  /\ WalExpects
  /\ \A c \in Clients : pc[c] \in {"wal", "fill", "event"} => OnceAhead(req[c].expected, req[c].ev)
  /\ \A c \in Clients : pc[c] # "idle" => req[c].pcr \in RequestPcrs

Replays ==
  /\ phase = "reextend" => Replayable
  /\ phase \in {"rehead", "retail"} => wal.expected = Measured

\* What the log may name: an event in a register, or what one reads as when cut short.
InRegister(e) == \E r \in Ccmrs : \E k \in DOMAIN rtmr[r] : e \in {rtmr[r][k]} \cup Cut[rtmr[r][k]]

CountInv ==
  /\ \A e \in Events : Counted(e)
  /\ WalCounted /\ Expectations /\ Replays
  /\ LogIsMeasured
  /\ \A c \in Clients : pc[c] \in {"head", "tail"} => InRegister(req[c].ev)

\* Extending a register adds one place to those that hold the event, and none to those
\* that hold another.
LEMMA ExtendedOnce ==
  ASSUME rtmr \in [Ccmrs -> Seq(Events)], NEW r \in Ccmrs, NEW x \in Events,
         rtmr' = [rtmr EXCEPT ![r] = Append(@, x)], NEW e \in Events,
         IsFiniteSet(Extended(e))
  PROVE  /\ IsFiniteSet(Extended(e)')
         /\ Cardinality(Extended(e)') = Cardinality(Extended(e)) + IF x = e THEN 1 ELSE 0
<1> DEFINE n == Len(rtmr[r]) + 1
<1>1. rtmr[r] \in Seq(Events) /\ Len(rtmr[r]) \in Nat /\ DOMAIN rtmr[r] = 1 .. Len(rtmr[r])
  OBVIOUS
<1>2. /\ rtmr'[r] = Append(rtmr[r], x) /\ DOMAIN rtmr'[r] = 1 .. n /\ rtmr'[r][n] = x
      /\ \A k \in 1 .. Len(rtmr[r]) : rtmr'[r][k] = rtmr[r][k]
  BY <1>1
<1>3. \A q \in Ccmrs \ {r} : rtmr'[q] = rtmr[q]
  OBVIOUS
<1>4. ASSUME NEW q \in Ccmrs, NEW k
      PROVE  k \in DOMAIN rtmr'[q] /\ rtmr'[q][k] = e
               <=> (k \in DOMAIN rtmr[q] /\ rtmr[q][k] = e) \/ (q = r /\ k = n /\ x = e)
  <2>1. CASE q = r
    BY <1>1, <1>2, <2>1
  <2>2. CASE q # r
    BY <1>3, <2>2
  <2> QED BY <2>1, <2>2
<1>5. \A y : y \in Extended(e) <=> \E q \in Ccmrs : \E k \in DOMAIN rtmr[q] : y = <<q, k>> /\ rtmr[q][k] = e
  BY DEF Extended
<1>6. \A y : y \in Extended(e)' <=> \E q \in Ccmrs : \E k \in DOMAIN rtmr'[q] : y = <<q, k>> /\ rtmr'[q][k] = e
  BY DEF Extended
<1>7. <<r, n>> \notin Extended(e)
  BY <1>1, <1>5
<1>8. Cardinality(Extended(e)) \in Nat
  BY FS_CardinalityType
<1>9. CASE x = e
  <2>1. Extended(e)' = Extended(e) \cup {<<r, n>>}
    BY <1>4, <1>5, <1>6, <1>9
  <2> QED BY <1>7, <1>9, <2>1, FS_AddElement
<1>10. CASE x # e
  <2>1. Extended(e)' = Extended(e)
    <3>1. \A q \in Ccmrs : \A k : (k \in DOMAIN rtmr'[q] /\ rtmr'[q][k] = e)
                                 <=> (k \in DOMAIN rtmr[q] /\ rtmr[q][k] = e)
      BY <1>4, <1>10
    <3>2. ASSUME NEW y \in Extended(e)' PROVE y \in Extended(e)
      <4>1. PICK q \in Ccmrs : \E k \in DOMAIN rtmr'[q] : y = <<q, k>> /\ rtmr'[q][k] = e
        BY <1>6
      <4>2. PICK k \in DOMAIN rtmr'[q] : y = <<q, k>> /\ rtmr'[q][k] = e
        BY <4>1
      <4>3. k \in DOMAIN rtmr[q] /\ rtmr[q][k] = e
        BY <3>1, <4>2
      <4> QED BY <1>5, <4>2, <4>3
    <3>3. ASSUME NEW y \in Extended(e) PROVE y \in Extended(e)'
      <4>1. PICK q \in Ccmrs : \E k \in DOMAIN rtmr[q] : y = <<q, k>> /\ rtmr[q][k] = e
        BY <1>5
      <4>2. PICK k \in DOMAIN rtmr[q] : y = <<q, k>> /\ rtmr[q][k] = e
        BY <4>1
      <4>3. k \in DOMAIN rtmr'[q] /\ rtmr'[q][k] = e
        BY <3>1, <4>2
      <4> QED BY <1>6, <4>2, <4>3
    <3> QED BY <3>2, <3>3
  <2>2. IsFiniteSet(Extended(e)') /\ Cardinality(Extended(e)') = Cardinality(Extended(e))
    BY <2>1
  <2>3. Cardinality(Extended(e)') = Cardinality(Extended(e)) + 0
    BY <1>8, <2>2
  <2> QED BY <1>10, <2>2, <2>3
<1> QED BY <1>9, <1>10

\* What a register holds it keeps.
LEMMA RegistersGrow ==
  ASSUME rtmr \in [Ccmrs -> Seq(Events)], NEW r \in Ccmrs, NEW x \in Events,
         rtmr' = [rtmr EXCEPT ![r] = Append(@, x)]
  PROVE  InRegister(x)' /\ \A e \in Events : InRegister(e) => InRegister(e)'
<1>1. rtmr[r] \in Seq(Events) /\ Len(rtmr[r]) \in Nat /\ DOMAIN rtmr[r] = 1 .. Len(rtmr[r])
  OBVIOUS
<1>2. /\ Len(rtmr[r]) + 1 \in DOMAIN rtmr'[r] /\ rtmr'[r][Len(rtmr[r]) + 1] = x
      /\ \A k \in DOMAIN rtmr[r] : k \in DOMAIN rtmr'[r] /\ rtmr'[r][k] = rtmr[r][k]
  BY <1>1
<1>3. \A q \in Ccmrs : \A k \in DOMAIN rtmr[q] : k \in DOMAIN rtmr'[q] /\ rtmr'[q][k] = rtmr[q][k]
  BY <1>2
<1> QED BY <1>2, <1>3 DEF InRegister

\* The register stays and no request is added to those that have to extend.
LEMMA CountedStays ==
  ASSUME TypeOK, \A e \in Events : Counted(e), UNCHANGED <<rtmr, calls>>,
         \A c \in Clients : pc'[c] \in ToExtend => pc[c] \in ToExtend /\ req'[c].ev = req[c].ev
  PROVE  \A e \in Events : Counted(e)'
<1> SUFFICES ASSUME NEW e \in Events PROVE Counted(e)'
  OBVIOUS
<1>1. Pending(e)' \subseteq Pending(e) /\ Extended(e)' = Extended(e)
  BY DEF Pending, Extended
<1>2. IsFiniteSet(Pending(e)') /\ Cardinality(Pending(e)') <= Cardinality(Pending(e))
  BY <1>1, FS_Subset DEF Counted
<1>3. /\ Cardinality(Pending(e)') \in Nat /\ Cardinality(Pending(e)) \in Nat
      /\ Cardinality(Extended(e)) \in Nat /\ calls[e] \in Nat
  BY <1>2, FS_CardinalityType DEF Counted, TypeOK
<1> QED BY <1>1, <1>2, <1>3 DEF Counted

\* A request that has to extend leaves room for it.
LEMMA PendingIsPaid ==
  ASSUME TypeOK, NEW c \in Clients, pc[c] \in ToExtend, req[c].ev \in Events, Counted(req[c].ev)
  PROVE  Cardinality(Extended(req[c].ev)) < calls[req[c].ev]
<1> DEFINE e == req[c].ev
<1>1. c \in Pending(e)
  BY DEF Pending
<1>2. Cardinality(Pending(e)) \in Nat /\ Cardinality(Pending(e)) # 0
  BY <1>1, FS_CardinalityType, FS_EmptySet DEF Counted
<1>3. Cardinality(Extended(e)) \in Nat /\ calls[e] \in Nat
  BY FS_CardinalityType DEF Counted, TypeOK
<1> QED BY <1>2, <1>3 DEF Counted

\* One request extends: its call is used up.
LEMMA CountedExtends ==
  ASSUME TypeOK, \A e \in Events : Counted(e), NEW c \in Clients, pc[c] \in ToExtend,
         req[c].ev \in Events, NEW r \in Ccmrs,
         rtmr' = [rtmr EXCEPT ![r] = Append(@, req[c].ev)], UNCHANGED calls,
         pc'[c] \notin ToExtend, \A d \in Clients \ {c} : pc'[d] = pc[d] /\ req'[d] = req[d]
  PROVE  \A e \in Events : Counted(e)'
<1> SUFFICES ASSUME NEW e \in Events PROVE Counted(e)'
  OBVIOUS
<1> DEFINE x == req[c].ev
<1>1. /\ IsFiniteSet(Extended(e)')
      /\ Cardinality(Extended(e)') = Cardinality(Extended(e)) + IF x = e THEN 1 ELSE 0
  BY ExtendedOnce DEF TypeOK, Counted
<1>2. Pending(e)' = Pending(e) \ {c} /\ (c \in Pending(e) <=> x = e)
  BY DEF Pending
<1>3. /\ IsFiniteSet(Pending(e)')
      /\ Cardinality(Pending(e)') = Cardinality(Pending(e)) - IF x = e THEN 1 ELSE 0
  <2>1. Cardinality(Pending(e)) \in Nat
    BY FS_CardinalityType DEF Counted
  <2> QED BY <1>2, <2>1, FS_RemoveElement DEF Counted
<1>4. /\ Cardinality(Pending(e)) \in Nat /\ Cardinality(Extended(e)) \in Nat /\ calls[e] \in Nat
  BY FS_CardinalityType DEF Counted, TypeOK
<1> QED BY <1>1, <1>3, <1>4 DEF Counted

\* A new request pays for its extension.
LEMMA CountedCall ==
  ASSUME TypeOK, \A e \in Events : Counted(e), NEW c \in Clients, pc[c] = "idle", NEW x \in Events,
         calls' = [calls EXCEPT ![x] = @ + 1], UNCHANGED rtmr, pc'[c] = "lock", req'[c].ev = x,
         \A d \in Clients \ {c} : pc'[d] = pc[d] /\ req'[d] = req[d]
  PROVE  \A e \in Events : Counted(e)'
<1> SUFFICES ASSUME NEW e \in Events PROVE Counted(e)'
  OBVIOUS
<1>1. Extended(e)' = Extended(e) /\ c \notin Pending(e)
  BY DEF Extended, Pending, ToExtend
<1>2. Pending(e)' = IF x = e THEN Pending(e) \cup {c} ELSE Pending(e)
  BY DEF Pending, ToExtend
<1>3. /\ IsFiniteSet(Pending(e)')
      /\ Cardinality(Pending(e)') = Cardinality(Pending(e)) + IF x = e THEN 1 ELSE 0
  <2>1. Cardinality(Pending(e)) \in Nat
    BY FS_CardinalityType DEF Counted
  <2>2. CASE x = e
    BY <1>1, <1>2, <2>1, <2>2, FS_AddElement DEF Counted
  <2>3. CASE x # e
    <3>1. Pending(e)' = Pending(e)
      BY <1>2, <2>3
    <3>2. IsFiniteSet(Pending(e)') /\ Cardinality(Pending(e)') = Cardinality(Pending(e))
      BY <3>1 DEF Counted
    <3> QED BY <2>1, <2>3, <3>2
  <2> QED BY <2>2, <2>3
<1>4. /\ Cardinality(Pending(e)) \in Nat /\ Cardinality(Extended(e)) \in Nat /\ calls[e] \in Nat
      /\ calls'[e] = calls[e] + IF x = e THEN 1 ELSE 0
  BY FS_CardinalityType DEF Counted, TypeOK
<1> QED BY <1>1, <1>3, <1>4 DEF Counted

\* Steps that leave the registers alone, add no request that has to extend and write no
\* new WAL cache keep the count.
LEMMA CountQuiet ==
  ASSUME TypeInv, CountInv, UNCHANGED <<rtmr, calls>>, wal' = wal \/ (wal'.state # "full" /\ WalExpects'),
         \A c \in Clients : pc'[c] \in ToExtend => pc[c] \in ToExtend /\ req'[c].ev = req[c].ev
  PROVE  /\ \A e \in Events : Counted(e)'
         /\ WalCounted'
         /\ WalExpects'
         /\ Measured' = Measured
         /\ \A e : InRegister(e)' <=> InRegister(e)
<1>1. \A e \in Events : Counted(e)'
  BY CountedStays DEF TypeInv, CountInv
<1>2. Measured' = Measured /\ \A e : InRegister(e)' <=> InRegister(e)
  BY DEF Measured, InRegister
<1>3. WalCounted'
  BY <1>2 DEF CountInv, WalCounted, Replayable, Extended
<1>4. WalExpects'
  <2>1. CASE wal' = wal
    BY <1>2, <2>1 DEF CountInv, Expectations, WalExpects, OnceAhead
  <2> QED BY <2>1
<1> QED BY <1>1, <1>2, <1>3, <1>4

\* Writing a cell of a measured event.
LEMMA WrittenIsMeasured ==
  ASSUME TypeInv, LogIsMeasured, NEW o \in Nat, o <= Len(file), NEW e \in Events,
         NEW h \in {"head", "tail"}, InRegister(e), UNCHANGED rtmr,
         file' = WriteAt(file, o, Cell(e, LogReg, h))
  PROVE  LogIsMeasured'
<1> DEFINE x == Cell(e, LogReg, h)
<1>1. x \in Cells /\ x.ev = e
  BY CellType, LogRegType DEF Cell
<1>2. file \in Seq(Cells) /\ Len(file) \in Nat /\ DOMAIN file = 1 .. Len(file)
  BY DEF TypeInv, TypeOK
<1>3. /\ file' \in Seq(Cells)
      /\ Len(file') = IF o < Len(file) THEN Len(file) ELSE o + 1
      /\ file'[o + 1] = x
      /\ \A i \in 1 .. Len(file) : i # o + 1 => file'[i] = file[i]
  BY <1>1, <1>2, WriteAtType
<1> DEFINE y(i) == file'[i].ev
<1>4. SUFFICES ASSUME NEW i \in DOMAIN file' PROVE InRegister(y(i))
  <2>1. \A i \in DOMAIN file' : \E r \in Ccmrs : \E k \in DOMAIN rtmr[r] : file'[i].ev \in {rtmr[r][k]} \cup Cut[rtmr[r][k]]
    BY DEF InRegister
  <2> QED BY <2>1 DEF LogIsMeasured
<1>5. i = o + 1 \/ (i # o + 1 /\ i \in 1 .. Len(file))
  BY <1>2, <1>3
<1>6. CASE i = o + 1
  BY <1>1, <1>3, <1>6
<1>7. CASE i # o + 1 /\ i \in 1 .. Len(file)
  <2>1. file'[i] = file[i] /\ InRegister(file[i].ev)
    BY <1>2, <1>3, <1>7 DEF LogIsMeasured, InRegister
  <2> QED BY <2>1
<1> QED BY <1>5, <1>6, <1>7

\* One event more in the register: what was expected is no longer ahead of it.
LEMMA ExtensionOverruns ==
  ASSUME TypeInv, CountInv, NEW x \in Events, UNCHANGED <<wal, file>>,
         rtmr' = [rtmr EXCEPT ![LogReg] = Append(@, x)]
  PROVE  /\ Measured' = Append(Measured, x) /\ Len(Measured') = Len(Measured) + 1
         /\ WalCounted' /\ LogIsMeasured'
         /\ WalExpects'
         /\ InRegister(x)' /\ \A e \in Events : InRegister(e) => InRegister(e)'
<1>1. /\ rtmr \in [Ccmrs -> Seq(Events)] /\ LogReg \in Ccmrs
      /\ file \in Seq(Cells) /\ wal.expected \in Seq(Events)
  BY LogRegType DEF TypeInv, TypeOK, WalFile
<1>2. Measured' = Append(Measured, x) /\ Measured \in Seq(Events)
  BY <1>1 DEF Measured
<1>3. Len(Measured') = Len(Measured) + 1 /\ Len(Measured) \in Nat
  BY <1>2
<1>4. InRegister(x)' /\ \A e \in Events : InRegister(e) => InRegister(e)'
  BY <1>1, RegistersGrow
<1>5. WalExpects /\ (wal.state = "full" => OnceAhead(wal.expected, wal.ev))
  BY DEF CountInv, Expectations, WalExpects
<1>6. ~ Replayable'
  <2>1. Len(Append(Measured', wal.ev)) = Len(Measured) + 2
    BY <1>2, <1>3
  <2>2. wal.state = "full" => Len(wal.expected) <= Len(Measured) + 1
    BY <1>5 DEF OnceAhead
  <2>3. Len(wal.expected) \in Nat
    BY <1>1
  <2> QED BY <1>3, <2>1, <2>2, <2>3 DEF Replayable
<1>7. WalExpects'
  <2>1. Len(wal.expected) \in Nat
    BY <1>1
  <2>2. ASSUME NEW e \in Events, OnceAhead(wal.expected, e) PROVE OnceAhead(wal.expected, e)'
    BY <1>3, <2>1, <2>2 DEF OnceAhead
  <2> QED BY <1>5, <2>2 DEF WalExpects
<1>8. LogIsMeasured'
  <2>1. SUFFICES ASSUME NEW i \in DOMAIN file PROVE InRegister(file[i].ev)'
    BY DEF LogIsMeasured, InRegister
  <2>2. file[i].ev \in Events
    <3>1. file[i] \in Cells
      BY <1>1
    <3> QED BY <3>1 DEF Cells
  <2>3. InRegister(file[i].ev)
    BY DEF CountInv, LogIsMeasured, InRegister
  <2> QED BY <1>4, <2>2, <2>3
<1> QED BY <1>2, <1>3, <1>4, <1>6, <1>7, <1>8 DEF WalCounted

LEMMA CountInit == Init => CountInv
<1> SUFFICES ASSUME Init PROVE CountInv
  OBVIOUS
<1>1. \A e \in Events : Extended(e) = {} /\ Pending(e) = {}
  BY DEF Init, Extended, Pending, ToExtend
<1>2. ASSUME NEW e \in Events PROVE Counted(e)
  <2>1. IsFiniteSet({}) /\ Cardinality({}) = 0
    BY FS_EmptySet
  <2>2. calls[e] = 0 /\ Extended(e) = {} /\ Pending(e) = {}
    BY <1>1 DEF Init
  <2>3. /\ IsFiniteSet(Extended(e)) /\ IsFiniteSet(Pending(e))
        /\ Cardinality(Extended(e)) = 0 /\ Cardinality(Pending(e)) = 0
    BY <2>1, <2>2
  <2> QED BY <2>2, <2>3 DEF Counted
<1>3. WalCounted /\ Expectations /\ Replays
  BY WalType DEF Init, WalCounted, Replayable, Expectations, WalExpects, Replays
<1>4. LogIsMeasured /\ \A c \in Clients : pc[c] \notin {"head", "tail"}
  BY DEF Init, LogIsMeasured
<1> QED BY <1>2, <1>3, <1>4 DEF CountInv

\* Recovery extends only what the WAL cache of a call that has not extended asks for, and
\* writes only what the register holds.
LEMMA CountRecovery ==
  ASSUME TypeInv, CountInv, Start \/ DeleteWal \/ Recovery \/ RewriteFails \/ Crash
  PROVE  CountInv'
<1>a. /\ phase \in Recovering => wal.state \in {"short", "full"}
      /\ phase \in Replaying => wal.ev \in Events /\ phase \in Recovering
      /\ wal.expected \in Seq(Events)
      /\ LogReg \in Ccmrs /\ rtmr \in [Ccmrs -> Seq(Events)] /\ Measured \in Seq(Events)
      /\ wal.off \in Nat /\ wal.off <= Len(file) /\ cursor \in Nat /\ cursor <= Len(file)
  BY LogRegType DEF TypeInv, TypeOK, Carriers, Positions, WalFile, Measured, Recovering, Replaying
<1>b. phase # "serving" => \A c \in Clients : pc[c] = "idle"
  BY DEF TypeInv, Ownership
<1>1. ASSUME Start \/ Reread \/ Check \/ RewriteFails
      PROVE  CountInv'
  <2>1. UNCHANGED <<pc, req, wal, file, rtmr, calls>> /\ phase # "serving"
    BY <1>1 DEF Start, Reread, Check, RewriteFails
  <2>2. /\ \A e \in Events : Counted(e)'
        /\ WalCounted'
        /\ WalExpects'
        /\ Measured' = Measured
    BY <2>1, CountQuiet
  <2>3. Expectations' /\ \A c \in Clients : pc'[c] \notin {"head", "tail"}
    BY <1>b, <2>1, <2>2 DEF Expectations
  <2>4. LogIsMeasured'
    BY <2>1 DEF CountInv, LogIsMeasured
  <2>5. Replays'
    <3>1. phase' = "reextend" => /\ wal.expected = Append(Measured, wal.ev) /\ wal.ev # NoEvent
                                 /\ phase \in Recovering
      BY <1>1 DEF Start, Reread, Check, RewriteFails, Measured, Recovering
    <3>2. phase' \in {"rehead", "retail"} => wal.expected = Measured
      BY <1>1 DEF Start, Reread, Check, RewriteFails, Measured
    <3>3. phase' = "reextend" => wal.state = "full"
      <4>1. SUFFICES ASSUME wal.state = "short", wal.expected = Append(Measured, wal.ev),
                            wal.ev # NoEvent
                     PROVE  FALSE
        BY <1>a, <3>1
      <4>2. PICK e \in Events : OnceAhead(wal.expected, e) /\ wal.ev \in Cut[e] \cup {NoEvent}
        BY <4>1 DEF CountInv, Expectations, WalExpects
      <4>3. wal.ev \in Events /\ wal.ev # e
        BY <4>1, <4>2, EventLogAssumption
      <4>4. \A x \in Events : Append(Measured, x)[Len(Append(Measured, x))] = x
        BY <1>a
      <4> QED BY <4>1, <4>2, <4>3, <4>4 DEF OnceAhead
    <3> QED BY <1>a, <2>1, <2>2, <3>1, <3>2, <3>3 DEF Replays, Replayable
  <2> QED BY <2>2, <2>3, <2>4, <2>5 DEF CountInv
<1>2. ASSUME Crash PROVE CountInv'
  <2>1. /\ UNCHANGED <<wal, file, rtmr, calls>> /\ phase' = "down"
        /\ \A c \in Clients : pc'[c] = "idle"
    BY <1>2 DEF Crash
  <2>2. /\ \A e \in Events : Counted(e)'
        /\ WalCounted'
        /\ WalExpects'
    BY <2>1, CountQuiet DEF ToExtend
  <2>3. Expectations' /\ Replays' /\ \A c \in Clients : pc'[c] \notin {"head", "tail"}
    BY <2>1, <2>2 DEF Expectations, Replays
  <2>4. LogIsMeasured'
    BY <2>1 DEF CountInv, LogIsMeasured
  <2> QED BY <2>2, <2>3, <2>4 DEF CountInv
<1>3. ASSUME DeleteWal \/ Reclean PROVE CountInv'
  <2>1. /\ UNCHANGED <<pc, req, file, rtmr, calls>> /\ phase # "serving"
        /\ phase' \notin {"reextend", "rehead", "retail"}
        /\ wal' = wal \/ (wal'.state # "full" /\ WalExpects')
    BY <1>3, WalType DEF DeleteWal, Reclean, WalExpects
  <2>2. /\ \A e \in Events : Counted(e)'
        /\ WalCounted'
        /\ WalExpects'
    BY <2>1, CountQuiet
  <2>3. Expectations' /\ Replays' /\ \A c \in Clients : pc'[c] \notin {"head", "tail"}
    BY <1>b, <2>1, <2>2 DEF Expectations, Replays
  <2>4. LogIsMeasured'
    BY <2>1 DEF CountInv, LogIsMeasured
  <2> QED BY <2>2, <2>3, <2>4 DEF CountInv
<1>4. ASSUME Reextend PROVE CountInv'
  <2>1. CASE rtmr' = rtmr
    <3>1. UNCHANGED <<pc, req, wal, file, rtmr, calls>> /\ phase = "reextend" /\ phase' \in {"down", "rehead"}
      BY <1>4, <2>1 DEF Reextend
    <3>2. phase' = "down"
      <4>1. SUFFICES ASSUME rtmr' = [rtmr EXCEPT ![LogReg] = Append(@, wal.ev)] PROVE FALSE
        BY <1>4, <2>1 DEF Reextend
      <4>2. rtmr[LogReg] = Append(rtmr[LogReg], wal.ev) /\ rtmr[LogReg] \in Seq(Events)
        BY <1>a, <2>1, <4>1
      <4>3. Len(Append(rtmr[LogReg], wal.ev)) = Len(rtmr[LogReg]) + 1 /\ Len(rtmr[LogReg]) \in Nat
        BY <4>2
      <4> QED BY <4>2, <4>3
    <3>3. /\ \A e \in Events : Counted(e)'
          /\ WalCounted'
          /\ WalExpects'
      BY <3>1, CountQuiet
    <3>4. Expectations' /\ Replays' /\ \A c \in Clients : pc'[c] \notin {"head", "tail"}
      BY <1>b, <3>1, <3>2, <3>3 DEF Expectations, Replays
    <3>5. LogIsMeasured'
      BY <3>1 DEF CountInv, LogIsMeasured
    <3> QED BY <3>3, <3>4, <3>5 DEF CountInv
  <2>2. CASE rtmr' # rtmr
    <3>1. /\ UNCHANGED <<pc, req, wal, file, calls>> /\ phase = "reextend" /\ phase' = "rehead"
          /\ rtmr' = [rtmr EXCEPT ![LogReg] = Append(@, wal.ev)]
      BY <1>4, <2>2 DEF Reextend
    <3>2. wal.ev \in Events /\ Replayable
      BY <1>a, <3>1 DEF CountInv, Replays, Recovering, Replaying
    <3>3. /\ Measured' = Append(Measured, wal.ev) /\ WalCounted' /\ LogIsMeasured'
          /\ WalExpects'
      BY <3>1, <3>2, ExtensionOverruns
    <3>4. Expectations' /\ \A c \in Clients : pc'[c] \notin {"head", "tail"}
      BY <1>b, <3>1, <3>3 DEF Expectations
    <3>5. Replays'
      BY <3>1, <3>2, <3>3 DEF Replays, Replayable
    <3>6. ASSUME NEW e \in Events PROVE Counted(e)'
      <4>1. Pending(e) = {} /\ Pending(e)' = {}
        BY <1>b, <3>1 DEF Pending, ToExtend
      <4>2. /\ IsFiniteSet(Extended(e)')
            /\ Cardinality(Extended(e)') = Cardinality(Extended(e)) + IF wal.ev = e THEN 1 ELSE 0
        BY <1>a, <3>1, <3>2, ExtendedOnce DEF CountInv, Counted
      <4>3. Cardinality(Extended(e)) + 0 <= calls[e] /\ calls'[e] = calls[e]
        BY <3>1, <4>1, FS_EmptySet DEF CountInv, Counted
      <4>4. wal.ev = e => Cardinality(Extended(e)) < calls[e]
        BY <3>2 DEF CountInv, WalCounted
      <4>5. Cardinality(Extended(e)) \in Nat /\ calls[e] \in Nat
        BY FS_CardinalityType DEF CountInv, Counted, TypeInv, TypeOK
      <4>6. Cardinality(Extended(e)') + 0 <= calls'[e]
        BY <4>2, <4>3, <4>4, <4>5
      <4> QED BY <4>1, <4>2, <4>6, FS_EmptySet DEF Counted
    <3> QED BY <3>3, <3>4, <3>5, <3>6 DEF CountInv
  <2> QED BY <2>1, <2>2
<1>5. ASSUME Rehead \/ Retail PROVE CountInv'
  <2>1. /\ UNCHANGED <<pc, req, wal, rtmr, calls>> /\ phase \in {"rehead", "retail"}
        /\ phase' \in {"retail", "reclean"}
    BY <1>5 DEF Rehead, Retail
  <2>2. /\ \A e \in Events : Counted(e)'
        /\ WalCounted'
        /\ WalExpects'
        /\ Measured' = Measured
    BY <2>1, CountQuiet
  <2>3. Expectations' /\ Replays' /\ \A c \in Clients : pc'[c] \notin {"head", "tail"}
    BY <1>b, <2>1, <2>2 DEF Expectations, Replays, CountInv
  <2>4. wal.ev \in Events /\ InRegister(wal.ev)
    <3>1. /\ wal.expected = Measured /\ Measured # <<>> /\ wal.ev # NoEvent
          /\ wal.ev \in {Measured[Len(Measured)]} \cup Cut[Measured[Len(Measured)]]
      <4>1. wal.expected = Measured /\ wal.ev \in Events /\ wal.state \in {"short", "full"}
        BY <1>a, <2>1 DEF CountInv, Replays, Replaying
      <4>2. PICK e \in Events : /\ OnceAhead(wal.expected, e)
                               /\ wal.ev \in {e} \cup Cut[e] \cup {NoEvent}
        BY <4>1 DEF CountInv, Expectations, WalExpects
      <4> QED BY <4>1, <4>2, EventLogAssumption DEF OnceAhead
    <3>2. Len(Measured) \in DOMAIN Measured
      BY <1>a, <3>1
    <3> QED BY <1>a, <2>1, <3>1, <3>2 DEF InRegister, Replaying, Measured
  <2>5. LogIsMeasured'
    <3>1. CASE Rehead
      BY <1>a, <2>1, <2>4, <3>1, WrittenIsMeasured DEF Rehead, CountInv
    <3>2. CASE Retail
      BY <1>a, <2>1, <2>4, <3>2, WrittenIsMeasured DEF Retail, CountInv
    <3> QED BY <1>5, <3>1, <3>2
  <2> QED BY <2>2, <2>3, <2>5 DEF CountInv
<1> QED BY <1>1, <1>2, <1>3, <1>4, <1>5 DEF Recovery

\* What is left to show for a step of a request that neither extends nor writes: the
\* request itself.
LEMMA CountQuietRequest ==
  ASSUME TypeInv, CountInv, NEW c \in Clients, UNCHANGED <<phase, file, rtmr, calls>>,
         phase = "serving", wal' = wal \/ (wal'.state # "full" /\ WalExpects'),
         \A d \in Clients \ {c} : pc'[d] = pc[d] /\ req'[d] = req[d],
         \/ pc'[c] = "idle"
         \/ /\ pc[c] # "idle" /\ req'[c].ev = req[c].ev /\ req'[c].pcr = req[c].pcr
            /\ pc'[c] \in ToExtend => pc[c] \in ToExtend
            /\ pc'[c] \in {"wal", "fill", "event"} => OnceAhead(req'[c].expected, req[c].ev)
            /\ pc'[c] \in {"head", "tail"} => InRegister(req[c].ev)
  PROVE  CountInv'
<1>1. \A d \in Clients : pc'[d] \in ToExtend => pc[d] \in ToExtend /\ req'[d].ev = req[d].ev
  BY DEF ToExtend
<1>2. /\ \A e \in Events : Counted(e)'
      /\ WalCounted'
      /\ WalExpects'
      /\ Measured' = Measured
      /\ \A e : InRegister(e)' <=> InRegister(e)
  BY <1>1, CountQuiet
<1>3. \A d \in Clients : pc'[d] \in {"wal", "fill", "event"} => OnceAhead(req[d].expected, req[d].ev)'
  BY <1>2 DEF CountInv, Expectations, OnceAhead
<1>4. \A d \in Clients : pc'[d] # "idle" => req'[d].pcr \in RequestPcrs
  BY DEF CountInv, Expectations
<1>5. \A d \in Clients : pc'[d] \in {"head", "tail"} => InRegister(req[d].ev)'
  BY <1>2 DEF CountInv
<1>6. LogIsMeasured' /\ Replays'
  BY DEF CountInv, LogIsMeasured, Replays
<1> QED BY <1>2, <1>3, <1>4, <1>5, <1>6 DEF CountInv, Expectations

\* A request is counted when it is made, uses its call up when it extends, and writes
\* only what it has extended.
LEMMA CountRequest ==
  ASSUME OneRegister, TypeInv, CountInv, NEW c \in Clients,
         \/ \E e \in Events, p \in RequestPcrs : Call(c, e, p)
         \/ Lock(c) \/ ExtendEntry(c) \/ LogFails(c) \/ Cancel(c) \/ OrphanExtend(c)
  PROVE  CountInv'
<1>a. /\ pc \in [Clients -> Points] /\ req \in [Clients -> Request]
      /\ LogReg \in Ccmrs /\ rtmr \in [Ccmrs -> Seq(Events)] /\ Measured \in Seq(Events)
      /\ cursor \in Nat /\ cursor <= Len(file)
      /\ calls \in [Events -> Nat]
  BY LogRegType DEF TypeInv, TypeOK, Positions, Measured
<1>b. \A d \in Clients : pc[d] # "idle" =>
        /\ phase = "serving" /\ req[d].ev \in Events
        /\ req[d].pcr \in RequestPcrs /\ Ccmr[req[d].pcr] = LogReg
  BY DEF TypeInv, Ownership, Carriers, CountInv, Expectations, OneRegister
<1>1. ASSUME NEW e \in Events, NEW p \in RequestPcrs, Call(c, e, p) PROVE CountInv'
  <2>1. /\ phase = "serving" /\ pc[c] = "idle" /\ UNCHANGED <<phase, wal, file, rtmr>>
        /\ pc'[c] = "lock" /\ req'[c].ev = e /\ req'[c].pcr = p
        /\ calls' = [calls EXCEPT ![e] = @ + 1]
        /\ \A d \in Clients \ {c} : pc'[d] = pc[d] /\ req'[d] = req[d]
    BY <1>a, <1>1 DEF Call, NoRequest
  <2>2. \A x \in Events : Counted(x)'
    BY <2>1, CountedCall DEF TypeInv, CountInv
  <2>3. WalCounted'
    <3>1. Replayable' => Replayable /\ wal.ev \in Events
      BY <2>1 DEF Replayable, Measured, TypeInv, Carriers
    <3>2. Replayable' => Cardinality(Extended(wal.ev)) < calls[wal.ev] /\ calls[wal.ev] \in Nat
                         /\ calls'[wal.ev] \in {calls[wal.ev], calls[wal.ev] + 1}
      BY <1>a, <2>1, <3>1 DEF CountInv, WalCounted
    <3>3. Replayable' => Cardinality(Extended(wal.ev)) \in Nat
      BY <3>1, FS_CardinalityType DEF CountInv, Counted
    <3>4. Replayable' => Cardinality(Extended(wal.ev)) < calls'[wal.ev]
      BY <3>2, <3>3
    <3> QED BY <2>1, <3>4 DEF WalCounted, Extended
  <2>4. Expectations'
    BY <2>1 DEF CountInv, Expectations, WalExpects, OnceAhead, Measured
  <2>5. LogIsMeasured' /\ Replays'
    BY <2>1 DEF CountInv, LogIsMeasured, Replays
  <2>6. \A d \in Clients : pc'[d] \in {"head", "tail"} => InRegister(req[d].ev)'
    BY <2>1 DEF CountInv, InRegister
  <2> QED BY <2>2, <2>3, <2>4, <2>5, <2>6 DEF CountInv
<1>2. ASSUME pc[c] # "idle", Return(c), UNCHANGED <<phase, file, rtmr, calls>>,
             wal' = wal \/ (wal'.state # "full" /\ WalExpects')
      PROVE  CountInv'
  <2>1. /\ pc'[c] = "idle" /\ \A d \in Clients \ {c} : pc'[d] = pc[d] /\ req'[d] = req[d]
        /\ phase = "serving" /\ (wal' = wal \/ (wal'.state # "full" /\ WalExpects'))
    BY <1>a, <1>b, <1>2 DEF Return
  <2> QED BY <1>2, <2>1, CountQuietRequest
<1>3. ASSUME Lock(c) PROVE CountInv'
  <2>1. /\ pc'[c] = "read" /\ pc[c] = "lock" /\ req' = req
        /\ UNCHANGED <<phase, wal, file, rtmr, calls>>
        /\ \A d \in Clients \ {c} : pc'[d] = pc[d]
    BY <1>a, <1>3 DEF Lock
  <2> QED BY <1>b, <2>1, CountQuietRequest DEF ToExtend
<1>4. ASSUME ReadPcr(c) PROVE CountInv'
  <2>1. CASE Return(c)
    BY <1>2, <1>4, <2>1 DEF ReadPcr
  <2>2. CASE ~ Return(c)
    <3>1. /\ pc'[c] = "wal" /\ pc[c] = "read"
          /\ req'[c].ev = req[c].ev /\ req'[c].pcr = req[c].pcr
          /\ req'[c].expected = Append(rtmr[Ccmr[req[c].pcr]], req[c].ev)
          /\ UNCHANGED <<phase, wal, file, rtmr, calls>>
          /\ \A d \in Clients \ {c} : pc'[d] = pc[d] /\ req'[d] = req[d]
      BY <1>a, <1>4, <2>2 DEF ReadPcr, Request
    <3>2. req'[c].expected = Append(Measured, req[c].ev) /\ req[c].ev \in Events
      BY <1>b, <3>1 DEF Measured
    <3>3. OnceAhead(req'[c].expected, req[c].ev)
      <4>1. \A m \in Seq(Events), e \in Events :
              /\ Append(m, e) # <<>> /\ Append(m, e)[Len(Append(m, e))] = e
              /\ Len(Append(m, e)) <= Len(m) + 1
        OBVIOUS
      <4> QED BY <1>a, <3>2, <4>1 DEF OnceAhead
    <3> QED BY <1>b, <3>1, <3>3, CountQuietRequest DEF ToExtend
  <2> QED BY <2>1, <2>2
<1>5. ASSUME CreateWal(c) PROVE CountInv'
  <2>1. CASE Return(c)
    BY <1>2, <1>5, <2>1, WalType DEF CreateWal, WalExpects
  <2>2. CASE ~ Return(c)
    <3>1. /\ pc'[c] = "fill" /\ pc[c] = "wal" /\ req' = req
          /\ wal'.state # "full" /\ WalExpects'
          /\ UNCHANGED <<phase, file, rtmr, calls>>
          /\ \A d \in Clients \ {c} : pc'[d] = pc[d]
      BY <1>a, <1>5, <2>2, WalType DEF CreateWal, WalExpects
    <3>2. OnceAhead(req[c].expected, req[c].ev)
      BY <3>1 DEF CountInv, Expectations
    <3> QED BY <1>b, <3>1, <3>2, CountQuietRequest DEF ToExtend
  <2> QED BY <2>1, <2>2
<1>6. ASSUME FillHeader(c) PROVE CountInv'
  <2>1. CASE Return(c) /\ wal' = wal
    BY <1>2, <1>6, <2>1 DEF FillHeader
  <2>2. CASE ~ (Return(c) /\ wal' = wal)
    <3>1. /\ pc'[c] = "event" /\ pc[c] = "fill" /\ req' = req
          /\ \E x \in Cut[req[c].ev] \cup {NoEvent} : wal' = WalOf(c, "short", x)
          /\ UNCHANGED <<phase, file, rtmr, calls>>
          /\ \A d \in Clients \ {c} : pc'[d] = pc[d]
      BY <1>a, <1>6, <2>2 DEF FillHeader
    <3>2. OnceAhead(req[c].expected, req[c].ev) /\ req[c].ev \in Events /\ Measured' = Measured
      BY <1>b, <3>1 DEF CountInv, Expectations, Measured
    <3>3. PICK x \in Cut[req[c].ev] \cup {NoEvent} : wal' = WalOf(c, "short", x)
      BY <3>1
    <3>4. /\ wal'.state = "short" /\ wal'.expected = req[c].expected
          /\ wal'.ev \in Cut[req[c].ev] \cup {NoEvent}
      BY <3>3 DEF WalOf
    <3>5. WalExpects'
      BY <3>2, <3>4 DEF WalExpects, OnceAhead
    <3> QED BY <1>b, <3>1, <3>2, <3>4, <3>5, CountQuietRequest DEF ToExtend
  <2> QED BY <2>1, <2>2
<1>11. ASSUME FillEvent(c) PROVE CountInv'
  <2>1. CASE Return(c) /\ wal' = wal
    BY <1>2, <1>11, <2>1 DEF FillEvent
  <2>2. CASE ~ (Return(c) /\ wal' = wal)
    <3>1. /\ pc[c] = "event"
          /\ wal'.state = "full" /\ wal'.expected = req[c].expected /\ wal'.ev = req[c].ev
          /\ UNCHANGED <<phase, file, rtmr, calls>>
          /\ pc'[c] = "idle" \/ (pc'[c] = "extend" /\ req' = req)
          /\ \A d \in Clients \ {c} : pc'[d] = pc[d] /\ req'[d] = req[d]
      BY <1>a, <1>11, <2>2 DEF FillEvent, WalOf, Return
    <3>2. WalExpects'
      BY <1>b, <3>1 DEF CountInv, Expectations, WalExpects, OnceAhead, Measured
    <3>3. Cardinality(Extended(wal.ev)') < calls'[wal'.ev]
      <4>1. Cardinality(Extended(req[c].ev)) < calls[req[c].ev]
        BY <1>b, <3>1, PendingIsPaid DEF TypeInv, CountInv, ToExtend
      <4>2. Extended(wal.ev)' = Extended(req[c].ev)
        BY <3>1 DEF Extended
      <4> QED BY <3>1, <4>1, <4>2
    <3>4. \A e \in Events : Counted(e)'
      BY <3>1, CountedStays DEF TypeInv, CountInv, ToExtend
    <3>5. Expectations'
      BY <1>b, <3>1, <3>2 DEF CountInv, Expectations, OnceAhead, Measured
    <3>6. LogIsMeasured' /\ Replays'
      BY <1>b, <3>1 DEF CountInv, LogIsMeasured, Replays
    <3>7. \A d \in Clients : pc'[d] \in {"head", "tail"} => InRegister(req[d].ev)'
      BY <3>1 DEF CountInv, InRegister
    <3> QED BY <3>3, <3>4, <3>5, <3>6, <3>7 DEF CountInv, WalCounted
  <2> QED BY <2>1, <2>2
<1>7. ASSUME ExtendPcr(c) \/ OrphanExtend(c) PROVE CountInv'
  <2>1. CASE Return(c) /\ rtmr' = rtmr
    <3>1. pc[c] # "idle" /\ UNCHANGED <<phase, wal, file, calls>>
      BY <1>7 DEF ExtendPcr, OrphanExtend
    <3> QED BY <1>2, <2>1, <3>1
  <2>2. CASE ~ (Return(c) /\ rtmr' = rtmr)
    <3> DEFINE InNext(e) == \E r \in Ccmrs : \E k \in DOMAIN rtmr'[r] : e \in {rtmr'[r][k]} \cup Cut[rtmr'[r][k]]
    <3>1. /\ pc[c] \in {"extend", "orphan"}
          /\ pc'[c] \in {"head", "idle"} /\ (pc'[c] = "head" => req'[c] = req[c])
          /\ rtmr' = [rtmr EXCEPT ![Ccmr[req[c].pcr]] = Append(@, req[c].ev)]
          /\ UNCHANGED <<phase, wal, file, calls>>
          /\ \A d \in Clients \ {c} : pc'[d] = pc[d] /\ req'[d] = req[d]
      BY <1>a, <1>7, <2>2 DEF ExtendPcr, OrphanExtend
    <3>2. req[c].ev \in Events /\ phase = "serving"
          /\ rtmr' = [rtmr EXCEPT ![LogReg] = Append(@, req[c].ev)]
      BY <1>b, <3>1
    <3>3. /\ Measured' = Append(Measured, req[c].ev) /\ Len(Measured') = Len(Measured) + 1
          /\ WalCounted' /\ LogIsMeasured'
          /\ WalExpects'
      BY <3>1, <3>2, ExtensionOverruns
    <3>9. InNext(req[c].ev) /\ \A e \in Events : InRegister(e) => InNext(e)
      <4>1. ASSUME NEW x \in Events, rtmr' = [rtmr EXCEPT ![LogReg] = Append(@, x)]
            PROVE  InNext(x) /\ \A e \in Events : InRegister(e) => InNext(e)
        BY <1>a, <4>1, RegistersGrow DEF InRegister
      <4> QED BY <3>2, <4>1
    <3>4. \A e \in Events : Counted(e)'
      BY <1>a, <3>1, <3>2, CountedExtends DEF TypeInv, CountInv, ToExtend
    <3>5. \A d \in Clients : pc'[d] \in {"wal", "fill", "event"} => OnceAhead(req[d].expected, req[d].ev)'
      <4>1. SUFFICES ASSUME NEW d \in Clients, pc'[d] \in {"wal", "fill", "event"}
                     PROVE  OnceAhead(req[d].expected, req[d].ev)'
        OBVIOUS
      <4>2. pc[d] = pc'[d] /\ req'[d] = req[d] /\ OnceAhead(req[d].expected, req[d].ev)
        BY <3>1, <4>1 DEF CountInv, Expectations
      <4>3. Len(req[d].expected) \in Nat /\ Len(Measured) \in Nat
        BY <1>a DEF Request
      <4> QED BY <3>3, <4>2, <4>3 DEF OnceAhead
    <3>6. \A d \in Clients : pc'[d] # "idle" => req'[d].pcr \in RequestPcrs
      BY <1>b, <3>1
    <3>7. \A d \in Clients : pc'[d] \in {"head", "tail"} => InRegister(req[d].ev)'
      <4>1. SUFFICES ASSUME NEW d \in Clients, pc'[d] \in {"head", "tail"}
                     PROVE  InNext(req'[d].ev)
        BY DEF InRegister
      <4>2. CASE d = c
        <5>1. req'[c].ev = req[c].ev
          BY <3>1, <4>1, <4>2
        <5> QED BY <3>9, <4>2, <5>1
      <4>3. CASE d # c
        <5>1. req'[d].ev = req[d].ev /\ InRegister(req[d].ev) /\ req[d].ev \in Events
          BY <1>b, <3>1, <4>1, <4>3 DEF CountInv
        <5> QED BY <3>9, <5>1
      <4> QED BY <4>2, <4>3
    <3>8. Replays'
      BY <3>1, <3>2 DEF Replays
    <3> QED BY <3>3, <3>4, <3>5, <3>6, <3>7, <3>8 DEF CountInv, Expectations
  <2> QED BY <2>1, <2>2
<1>8. ASSUME WriteHead(c) \/ WriteTail(c) PROVE CountInv'
  <2>1. /\ pc[c] \in {"head", "tail"} /\ UNCHANGED <<phase, wal, rtmr, calls>>
        /\ pc'[c] \in {"tail", "clean", "idle"} /\ (pc'[c] # "idle" => req'[c] = req[c])
        /\ \A d \in Clients \ {c} : pc'[d] = pc[d] /\ req'[d] = req[d]
    BY <1>a, <1>8 DEF WriteHead, WriteTail, Return
  <2>2. InRegister(req[c].ev) /\ req[c].ev \in Events /\ phase = "serving"
    BY <1>b, <2>1 DEF CountInv
  <2>3. LogIsMeasured'
    <3>1. CASE WriteHead(c)
      BY <1>a, <2>1, <2>2, <3>1, WrittenIsMeasured DEF WriteHead, CountInv
    <3>2. CASE WriteTail(c)
      BY <1>a, <2>1, <2>2, <3>2, WrittenIsMeasured DEF WriteTail, CountInv
    <3> QED BY <1>8, <3>1, <3>2
  <2>4. /\ \A e \in Events : Counted(e)'
        /\ WalCounted'
        /\ WalExpects'
        /\ Measured' = Measured
        /\ \A e : InRegister(e)' <=> InRegister(e)
    BY <2>1, CountQuiet DEF ToExtend
  <2>5. Expectations'
    BY <1>b, <2>1, <2>4 DEF CountInv, Expectations, OnceAhead
  <2>6. \A d \in Clients : pc'[d] \in {"head", "tail"} => InRegister(req[d].ev)'
    BY <2>1, <2>2, <2>4 DEF CountInv
  <2>7. Replays'
    BY <2>1, <2>2 DEF Replays
  <2> QED BY <2>3, <2>4, <2>5, <2>6, <2>7 DEF CountInv
<1>9. ASSUME CleanWal(c) \/ LogFails(c) PROVE CountInv'
  <2>1. /\ pc[c] # "idle" /\ Return(c) /\ UNCHANGED <<phase, file, rtmr, calls>>
        /\ wal' = wal \/ (wal'.state # "full" /\ WalExpects')
    BY <1>9, WalType DEF CleanWal, LogFails, WalExpects
  <2> QED BY <1>2, <2>1
<1>10. ASSUME Cancel(c) PROVE CountInv'
  <2>1. /\ pc[c] \in {"lock", "read", "extend"} /\ UNCHANGED <<phase, wal, file, rtmr, calls>>
        /\ pc'[c] = "idle" \/ (pc[c] = "extend" /\ pc'[c] = "orphan" /\ req'[c] = req[c])
        /\ \A d \in Clients \ {c} : pc'[d] = pc[d] /\ req'[d] = req[d]
    BY <1>a, <1>10 DEF Cancel
  <2> QED BY <1>b, <2>1, CountQuietRequest DEF ToExtend
<1> QED BY <1>1, <1>3, <1>4, <1>5, <1>6, <1>7, <1>8, <1>9, <1>10, <1>11 DEF ExtendEntry

LEMMA CountNext ==
  ASSUME OneRegister, TypeInv, CountInv, [Next]_vars
  PROVE  CountInv'
<1>1. CASE UNCHANGED vars
  <2>1. UNCHANGED <<phase, pc, req, wal, file, rtmr, calls>>
    BY <1>1 DEF vars
  <2>2. /\ \A e \in Events : Counted(e)'
        /\ WalCounted' /\ WalExpects'
        /\ Measured' = Measured
        /\ \A e : InRegister(e)' <=> InRegister(e)
    BY <2>1, CountQuiet
  <2> QED BY <2>1, <2>2 DEF CountInv, Expectations, OnceAhead, Replays, Replayable, LogIsMeasured
<1>2. CASE Next
  BY <1>2, CountRecovery, CountRequest DEF Next
<1> QED BY <1>1, <1>2

\* Whatever fails, is dropped or is replayed: where the requests extend the register that
\* recovery reads, no event is in the registers more often than it was requested, and the
\* log file names no event that no register was extended with.
THEOREM OnlyRequested ==
  ASSUME OneRegister
  PROVE  Spec => []OnlyRequestedIsMeasured
<1>1. TypeInv /\ CountInv => OnlyRequestedIsMeasured
  <2> SUFFICES ASSUME TypeInv, CountInv PROVE OnlyRequestedIsMeasured
    OBVIOUS
  <2>1. ASSUME NEW e \in Events PROVE Cardinality(Extended(e)) <= calls[e]
    <3>1. /\ IsFiniteSet(Extended(e)) /\ IsFiniteSet(Pending(e)) /\ calls[e] \in Nat
          /\ Cardinality(Extended(e)) + Cardinality(Pending(e)) <= calls[e]
      BY DEF CountInv, Counted, TypeInv, TypeOK
    <3>2. Cardinality(Extended(e)) \in Nat /\ Cardinality(Pending(e)) \in Nat
      BY <3>1, FS_CardinalityType
    <3> QED BY <3>1, <3>2
  <2> QED BY <2>1 DEF OnlyRequestedIsMeasured, MeasuredOncePerCall, CountInv
<1>2. Spec => [](TypeInv /\ CountInv)
  BY TypeInit, TypeStep, CountInit, CountNext, PTL DEF Spec
<1>3. QED
  BY <1>1, <1>2, PTL

-----------------------------------------------------------------------------
(* Part 4: the agent implements the measured log.  Every step of the agent  *)
(* measures one event, records the event that is missing, answers for one   *)
(* that is recorded, or leaves register, log and answers as they are.       *)

\* What a verifier reads in a file.
LoggedOf(f) == [k \in 1 .. Len(f) \div 2 |-> f[2 * k].ev]

Times(m, e) == Cardinality({k \in DOMAIN m : m[k] = e})

\* An event is not answered for more often than it was measured, and the request that
\* has measured it and not been answered is not among those that were.
AnswerInv ==
  /\ \A e \in Events : acks[e] <= Times(Measured, e)
  /\ \A c \in Clients : pc[c] \in {"head", "tail", "clean"} =>
       acks[req[c].ev] < Times(Measured, req[c].ev)

LEMMA Halves ==
  ASSUME NEW a \in Nat
  PROVE  a \div 2 \in Nat /\ 2 * (a \div 2) <= a /\ a <= 2 * (a \div 2) + 1
OBVIOUS

\* The log of m, up to the last entry, is read as a prefix of m.
LEMMA LoggedIsPrefix ==
  ASSUME NEW m \in Seq(Events), NEW f \in Seq(Cells), LogOf(f, m)
  PROVE  LoggedOf(f) = [k \in 1 .. Len(f) \div 2 |-> m[k]]
<1> DEFINE n == Len(f) \div 2
<1>1. Len(f) \in Nat /\ Len(m) \in Nat /\ n \in Nat /\ 2 * n <= Len(f) /\ Len(f) <= 2 * Len(m)
  BY Halves DEF LogOf
<1> HIDE DEF n
<1>2. ASSUME NEW k \in 1 .. n PROVE f[2 * k].ev = m[k]
  <2>1. k \in 1 .. Len(m) /\ 2 * k <= Len(f)
    BY <1>1
  <2>2. f[2 * k] = Cell(m[k], LogReg, "tail")
    BY <2>1 DEF LogOf
  <2> QED BY <2>2 DEF Cell
<1>3. [k \in 1 .. n |-> f[2 * k].ev] = [k \in 1 .. n |-> m[k]]
  BY <1>2
<1> QED BY <1>3 DEF LoggedOf, n

LEMMA LoggedAll ==
  ASSUME NEW m \in Seq(Events), NEW f \in Seq(Cells), LogOf(f, m), Len(f) = 2 * Len(m)
  PROVE  LoggedOf(f) = m
<1>1. Len(m) \in Nat /\ Len(f) \in Nat
  OBVIOUS
<1>2. Len(f) \div 2 = Len(m)
  BY <1>1, Halves
<1>3. m = [k \in 1 .. Len(m) |-> m[k]]
  OBVIOUS
<1> QED BY <1>2, <1>3, LoggedIsPrefix

LEMMA LoggedByLength ==
  ASSUME NEW m \in Seq(Events), NEW f \in Seq(Cells), NEW g \in Seq(Cells),
         LogOf(f, m), LogOf(g, m), Len(f) \div 2 = Len(g) \div 2
  PROVE  LoggedOf(f) = LoggedOf(g)
BY LoggedIsPrefix

\* An event more is measured once more.
LEMMA TimesAppend ==
  ASSUME NEW m \in Seq(Events), NEW x \in Events, NEW e \in Events
  PROVE  /\ Times(m, e) \in Nat
         /\ Times(Append(m, x), e) = Times(m, e) + IF x = e THEN 1 ELSE 0
<1> DEFINE S == {k \in DOMAIN m : m[k] = e}
           T == {k \in DOMAIN Append(m, x) : Append(m, x)[k] = e}
<1>1. /\ Len(m) \in Nat /\ DOMAIN m = 1 .. Len(m)
      /\ DOMAIN Append(m, x) = 1 .. Len(m) + 1 /\ Append(m, x)[Len(m) + 1] = x
      /\ \A k \in 1 .. Len(m) : Append(m, x)[k] = m[k]
  OBVIOUS
<1>2. IsFiniteSet(S) /\ Cardinality(S) \in Nat
  <2>1. IsFiniteSet(1 .. Len(m))
    BY <1>1, FS_Interval
  <2>2. S \subseteq 1 .. Len(m)
    BY <1>1
  <2>3. IsFiniteSet(S)
    BY <2>1, <2>2, FS_Subset
  <2> QED BY <2>3, FS_CardinalityType
<1>3. Len(m) + 1 \notin S
  BY <1>1
<1>4. CASE x = e
  <2>1. T = S \cup {Len(m) + 1}
    BY <1>1, <1>4
  <2> QED BY <1>2, <1>3, <1>4, <2>1, FS_AddElement DEF Times
<1>5. CASE x # e
  <2>1. T = S
    BY <1>1, <1>5
  <2>2. Times(Append(m, x), e) = Times(m, e) /\ Times(m, e) \in Nat
    BY <1>2, <2>1 DEF Times
  <2> QED BY <1>5, <2>2
<1> QED BY <1>4, <1>5

LEMMA AnswerInit == Init => AnswerInv
<1> SUFFICES ASSUME Init PROVE AnswerInv
  OBVIOUS
<1>1. Measured = <<>> /\ \A e \in Events : acks[e] = 0
  BY LogRegType DEF Init, Measured
<1>2. ASSUME NEW e \in Events PROVE Times(<<>>, e) = 0
  BY FS_EmptySet DEF Times
<1>3. \A c \in Clients : pc[c] = "idle"
  BY DEF Init
<1> QED BY <1>1, <1>2, <1>3 DEF AnswerInv

\* The register that the log follows is extended by the event of a request, or of the WAL
\* cache that recovery replays, or it stays.
LEMMA MeasuredStep ==
  ASSUME Contained, TypeInv, AtomicInv, [Next]_vars
  PROVE  \/ UNCHANGED rtmr
         \/ \E e \in Events : Measured' = Append(Measured, e) /\ UNCHANGED <<file, acks>>
                              /\ Len(file) = 2 * Len(Measured)
                              /\ \A c \in Clients :
                                   pc'[c] \in {"head", "tail", "clean"} =>
                                     \/ pc[c] = pc'[c] /\ req'[c] = req[c]
                                     \/ req'[c].ev = e
<1>a. /\ LogReg \in Ccmrs /\ rtmr \in [Ccmrs -> Seq(Events)] /\ pc \in [Clients -> Points]
      /\ req \in [Clients -> Request]
  BY LogRegType DEF TypeInv, TypeOK
<1>1. CASE Reextend
  <2>1. CASE UNCHANGED rtmr
    BY <2>1
  <2>2. CASE rtmr' # rtmr
    <3>1. /\ rtmr' = [rtmr EXCEPT ![LogReg] = Append(@, wal.ev)] /\ phase = "reextend"
          /\ UNCHANGED <<pc, req, file, acks>>
      BY <1>1, <2>2 DEF Reextend
    <3>2. wal.ev \in Events /\ Ahead
      BY <3>1 DEF TypeInv, Carriers, Recovering, Replaying, AtomicInv, RecoveryInv
    <3>3. Measured' = Append(Measured, wal.ev) /\ Len(file) = 2 * Len(Measured)
      BY <1>a, <3>1, <3>2 DEF Measured, Ahead
    <3> QED BY <3>1, <3>2, <3>3
  <2> QED BY <2>1, <2>2
<1>2. ASSUME NEW c \in Clients, ExtendPcr(c)
      PROVE  \/ UNCHANGED rtmr
             \/ \E e \in Events : Measured' = Append(Measured, e) /\ UNCHANGED <<file, acks>>
                              /\ Len(file) = 2 * Len(Measured)
                              /\ \A d \in Clients :
                                   pc'[d] \in {"head", "tail", "clean"} =>
                                     \/ pc[d] = pc'[d] /\ req'[d] = req[d]
                                     \/ req'[d].ev = e
  <2>1. CASE UNCHANGED rtmr
    BY <2>1
  <2>2. CASE rtmr' # rtmr
    <3>1. /\ rtmr' = [rtmr EXCEPT ![Ccmr[req[c].pcr]] = Append(@, req[c].ev)] /\ pc[c] = "extend"
          /\ UNCHANGED <<req, file, acks>> /\ \A d \in Clients \ {c} : pc'[d] = pc[d]
      BY <1>a, <1>2, <2>2 DEF ExtendPcr
    <3>2. req[c].ev \in Events /\ Ahead /\ Ccmr[req[c].pcr] = LogReg
      BY <3>1 DEF TypeInv, Carriers, AtomicInv, RequestInv, Held, Contained
    <3>3. Measured' = Append(Measured, req[c].ev) /\ Len(file) = 2 * Len(Measured)
      BY <1>a, <3>1, <3>2 DEF Measured, Ahead
    <3> QED BY <3>1, <3>2, <3>3
  <2> QED BY <2>1, <2>2
<1>3. ASSUME NEW c \in Clients, OrphanExtend(c) PROVE FALSE
  BY <1>3 DEF OrphanExtend, AtomicInv, RequestInv
<1>4. CASE \/ Start \/ DeleteWal \/ Reread \/ Check \/ Rehead \/ Retail \/ Reclean \/ RewriteFails \/ Crash
           \/ \E c \in Clients :
                \/ \E e \in Events, p \in RequestPcrs : Call(c, e, p)
                \/ Lock(c) \/ ReadPcr(c) \/ CreateWal(c) \/ FillHeader(c) \/ FillEvent(c)
                \/ WriteHead(c) \/ WriteTail(c) \/ CleanWal(c) \/ LogFails(c) \/ Cancel(c)
           \/ UNCHANGED vars
  BY <1>4 DEF Start, DeleteWal, Reread, Check, Rehead, Retail, Reclean, RewriteFails, Crash, Call, Lock,
              ReadPcr, CreateWal, FillHeader, FillEvent, WriteHead, WriteTail, CleanWal, LogFails, Cancel, vars
<1> QED BY <1>1, <1>2, <1>3, <1>4 DEF Next, Recovery, ExtendEntry

\* Only clean_wal_cache answers with success, for the event of a request that was measured.
LEMMA AnswerStep ==
  ASSUME Contained, TypeInv, AtomicInv, AnswerInv, [Next]_vars
  PROVE  AnswerInv'
<1>a. /\ LogReg \in Ccmrs /\ rtmr \in [Ccmrs -> Seq(Events)] /\ pc \in [Clients -> Points]
      /\ req \in [Clients -> Request] /\ acks \in [Events -> Nat] /\ Measured \in Seq(Events)
  BY LogRegType DEF TypeInv, TypeOK, Measured
<1>b. \A e \in Events : Times(Measured, e) \in Nat /\ acks[e] \in Nat
  BY <1>a, TimesAppend
<1>c. \A c \in Clients : pc[c] # "idle" => req[c].ev \in Events
  BY DEF TypeInv, Carriers
<1>1. CASE UNCHANGED acks /\ rtmr' # rtmr
  <2>1. PICK x \in Events :
          /\ Measured' = Append(Measured, x) /\ UNCHANGED <<file, acks>>
          /\ \A c \in Clients : pc'[c] \in {"head", "tail", "clean"} =>
               \/ pc[c] = pc'[c] /\ req'[c] = req[c]
               \/ req'[c].ev = x
    BY <1>1, MeasuredStep
  <2>2. \A e \in Events : Times(Measured', e) = Times(Measured, e) + IF x = e THEN 1 ELSE 0
    BY <1>a, <2>1, TimesAppend
  <2>3. \A e \in Events : acks'[e] <= Times(Measured', e)
    BY <1>b, <1>1, <2>2 DEF AnswerInv
  <2>4. ASSUME NEW c \in Clients, pc'[c] \in {"head", "tail", "clean"}
        PROVE  acks'[req'[c].ev] < Times(Measured', req'[c].ev)
    <3>1. CASE pc[c] = pc'[c] /\ req'[c] = req[c]
      <4>1. req[c].ev \in Events /\ acks[req[c].ev] < Times(Measured, req[c].ev)
        BY <1>c, <2>4, <3>1 DEF AnswerInv
      <4> QED BY <1>b, <1>1, <2>2, <3>1, <4>1
    <3>2. CASE req'[c].ev = x
      BY <1>b, <1>1, <2>2, <3>2 DEF AnswerInv
    <3> QED BY <2>1, <2>4, <3>1, <3>2
  <2> QED BY <2>3, <2>4 DEF AnswerInv, Times
<1>2. CASE UNCHANGED acks /\ rtmr' = rtmr
  <2>1. \A c \in Clients : pc'[c] \in {"head", "tail", "clean"} =>
                             pc[c] \in {"head", "tail", "clean"} /\ req'[c] = req[c]
    <3>1. ASSUME NEW c \in Clients, ExtendPcr(c) PROVE pc'[c] = "idle"
      <4>1. rtmr' # [rtmr EXCEPT ![Ccmr[req[c].pcr]] = Append(@, req[c].ev)]
        <5>1. pc[c] = "extend"
          BY <3>1 DEF ExtendPcr
        <5>2. Ccmr[req[c].pcr] = LogReg
          BY <5>1 DEF AtomicInv, RequestInv, Held, Contained
        <5>3. Measured # Append(Measured, req[c].ev)
          <6>1. Len(Append(Measured, req[c].ev)) = Len(Measured) + 1 /\ Len(Measured) \in Nat
            BY <1>a
          <6> QED BY <6>1
        <5> QED BY <1>2, <1>a, <5>2, <5>3 DEF Measured
      <4> QED BY <1>a, <3>1, <4>1 DEF ExtendPcr, Return
    <3>2. ASSUME NEW c \in Clients, ExtendPcr(c), NEW d \in Clients \ {c}
          PROVE  pc'[d] = pc[d] /\ req'[d] = req[d]
      BY <1>a, <3>2 DEF ExtendPcr, Return
    <3>3. ASSUME NEW c \in Clients, NEW d \in Clients, pc'[d] \in {"head", "tail", "clean"},
                 \/ \E e \in Events, p \in RequestPcrs : Call(c, e, p)
                 \/ Lock(c) \/ ReadPcr(c) \/ CreateWal(c) \/ FillHeader(c) \/ FillEvent(c)
                 \/ LogFails(c) \/ Cancel(c) \/ OrphanExtend(c) \/ CleanWal(c)
          PROVE  pc'[d] = pc[d] /\ req'[d] = req[d]
      BY <1>a, <3>3 DEF Call, Lock, ReadPcr, CreateWal, FillHeader, FillEvent, LogFails, Cancel, OrphanExtend,
                        CleanWal, Return
    <3>4. ASSUME NEW c \in Clients, NEW d \in Clients, pc'[d] \in {"head", "tail", "clean"},
                 WriteHead(c) \/ WriteTail(c)
          PROVE  pc[d] \in {"head", "tail", "clean"} /\ req'[d] = req[d]
      BY <1>a, <3>4 DEF WriteHead, WriteTail, Return
    <3>5. CASE Start \/ DeleteWal \/ Recovery \/ RewriteFails \/ Crash \/ UNCHANGED vars
      BY <3>5 DEF Start, DeleteWal, Recovery, Reread, Check, Reextend, Rehead, Retail, Reclean,
                  RewriteFails, Crash, vars
    <3> QED BY <3>1, <3>2, <3>3, <3>4, <3>5 DEF Next, ExtendEntry
  <2>2. Measured' = Measured
    BY <1>2 DEF Measured
  <2> QED BY <1>2, <2>1, <2>2 DEF AnswerInv, Times
<1>3. ASSUME NEW c \in Clients, CleanWal(c), acks' # acks PROVE AnswerInv'
  <2>1. /\ pc[c] = "clean" /\ pc'[c] = "idle" /\ acks' = [acks EXCEPT ![req[c].ev] = @ + 1]
        /\ \A d \in Clients \ {c} : pc'[d] = pc[d] /\ req'[d] = req[d]
        /\ Measured' = Measured
    BY <1>a, <1>3 DEF CleanWal, Return, Measured
  <2>2. req[c].ev \in Events /\ acks[req[c].ev] < Times(Measured, req[c].ev)
    BY <1>c, <2>1 DEF AnswerInv
  <2>3. \A e \in Events : acks'[e] <= Times(Measured, e)
    BY <1>a, <1>b, <2>1, <2>2 DEF AnswerInv
  <2>4. \A d \in Clients : pc'[d] \notin {"head", "tail", "clean"}
    BY <2>1 DEF TypeInv, Ownership, Held
  <2> QED BY <2>1, <2>3, <2>4 DEF AnswerInv, Times
<1>4. UNCHANGED acks \/ \E c \in Clients : CleanWal(c)
  BY DEF Next, Recovery, ExtendEntry, vars, Start, DeleteWal, Reread, Check, Reextend, Rehead, Retail,
         Reclean, RewriteFails, Crash, Call, Lock, ReadPcr, CreateWal, FillHeader, FillEvent, ExtendPcr, WriteHead,
         WriteTail, LogFails, Cancel, OrphanExtend
<1> QED BY <1>1, <1>2, <1>3, <1>4

LEMMA WriteLength ==
  ASSUME file \in Seq(Cells), NEW o \in Nat, o <= Len(file), NEW e \in Events,
         NEW h \in {"head", "tail"}, file' = WriteAt(file, o, Cell(e, LogReg, h))
  PROVE  Len(file') = IF o < Len(file) THEN Len(file) ELSE o + 1
<1>1. ASSUME NEW x \in Cells, file' = WriteAt(file, o, x)
      PROVE  Len(file') = IF o < Len(file) THEN Len(file) ELSE o + 1
  BY <1>1, WriteAtType
<1> QED BY <1>1, CellType, LogRegType

\* The file keeps the complete entries that it has, but for the one that the last write of
\* a request or of recovery completes.
LEMMA LoggedStep ==
  ASSUME Contained, TypeInv, AtomicInv, CutInv, [Next]_vars, UNCHANGED rtmr
  PROVE  LoggedOf(file)' = LoggedOf(file) \/ (LoggedOf(file)' = Measured /\ UNCHANGED acks)
<1>a. /\ LogReg \in Ccmrs /\ Measured \in Seq(Events) /\ file \in Seq(Cells)
      /\ Len(file) \in Nat /\ Len(Measured) \in Nat /\ wal.off \in Nat /\ cursor \in Nat
      /\ cursor <= Len(file) /\ wal.off <= Len(file)
  BY LogRegType DEF TypeInv, TypeOK, WalFile, Positions, Measured
<1>b. Measured' = Measured /\ LogOf(file, Measured)
  BY DEF Measured, AtomicInv, LogIsPrefix
<1>c. LogOf(file', Measured) /\ file' \in Seq(Cells) /\ LoggedOf(file)' = LoggedOf(file')
  <2>1. TypeInv' /\ AtomicInv'
    BY TypeStep, AtomicStep
  <2> QED BY <1>b, <2>1 DEF TypeInv, TypeOK, AtomicInv, LogIsPrefix, LogOf, LoggedOf
<1>1. CASE file' = file
  BY <1>1, <1>c
<1>2. CASE Len(file') = 2 * Len(Measured) /\ UNCHANGED acks
  BY <1>2, <1>a, <1>c, LoggedAll
<1>3. CASE Len(file) = 2 * Len(Measured) - 2 /\ Len(file') = 2 * Len(Measured) - 1
  <2>1. Len(file) \div 2 = Len(file') \div 2
    BY <1>3, <1>a, Halves
  <2> QED BY <2>1, <1>a, <1>b, <1>c, LoggedByLength
<1>4. CASE Len(file') = Len(file)
  BY <1>4, <1>a, <1>b, <1>c, LoggedByLength
<1>5. ASSUME Rehead
      PROVE  \/ Len(file') = Len(file)
             \/ Len(file) = 2 * Len(Measured) - 2 /\ Len(file') = 2 * Len(Measured) - 1
  <2>1. /\ file' = WriteAt(file, wal.off, Cell(wal.ev, LogReg, "head"))
        /\ wal.ev \in Events /\ Behind
    BY <1>5 DEF Rehead, TypeInv, Carriers, Recovering, Replaying, AtomicInv, RecoveryInv
  <2>2. Len(file') = IF wal.off < Len(file) THEN Len(file) ELSE wal.off + 1
    BY <1>a, <2>1, CellType, WriteLength
  <2> QED BY <1>a, <2>1, <2>2 DEF Behind
<1>6. ASSUME Retail
      PROVE  Len(file') = 2 * Len(Measured) /\ UNCHANGED acks
  <2>1. /\ file' = WriteAt(file, cursor, Cell(wal.ev, LogReg, "tail")) /\ UNCHANGED acks
        /\ wal.ev \in Events /\ Behind /\ cursor = wal.off + 1 /\ Len(file) >= wal.off + 1
    BY <1>6 DEF Retail, TypeInv, Carriers, Recovering, Replaying, AtomicInv, RecoveryInv
  <2>2. Len(file') = IF cursor < Len(file) THEN Len(file) ELSE cursor + 1
    BY <1>a, <2>1, CellType, WriteLength
  <2>3. Len(file) <= 2 * Len(Measured)
    BY <1>b DEF LogOf
  <2> QED BY <1>a, <2>1, <2>2, <2>3 DEF Behind
<1>7. ASSUME NEW c \in Clients, WriteHead(c)
      PROVE  Len(file) = 2 * Len(Measured) - 2 /\ Len(file') = 2 * Len(Measured) - 1
  <2>1. /\ file' = WriteAt(file, cursor, Cell(req[c].ev, LogReg, "head"))
        /\ req[c].ev \in Events /\ Behind /\ cursor = wal.off /\ Len(file) = wal.off
    BY <1>7 DEF WriteHead, TypeInv, Carriers, AtomicInv, RequestInv
  <2>2. Len(file') = cursor + 1
    BY <1>a, <2>1, CellType, WriteLength
  <2> QED BY <1>a, <2>1, <2>2 DEF Behind
<1>8. ASSUME NEW c \in Clients, WriteTail(c)
      PROVE  Len(file') = 2 * Len(Measured) /\ UNCHANGED acks
  <2>1. /\ file' = WriteAt(file, cursor, Cell(req[c].ev, LogReg, "tail")) /\ UNCHANGED acks
        /\ req[c].ev \in Events /\ Behind /\ cursor = wal.off + 1 /\ Len(file) = wal.off + 1
    BY <1>8 DEF WriteTail, TypeInv, Carriers, AtomicInv, RequestInv
  <2>2. Len(file') = cursor + 1
    BY <1>a, <2>1, CellType, WriteLength
  <2> QED BY <1>a, <2>1, <2>2 DEF Behind
<1>9. \/ file' = file \/ Rehead \/ Retail \/ \E c \in Clients : WriteHead(c) \/ WriteTail(c)
  BY DEF Next, Recovery, ExtendEntry, vars, Start, DeleteWal, Reread, Check, Reextend, Reclean,
         RewriteFails, Crash, Call, Lock, ReadPcr, CreateWal, FillHeader, FillEvent, ExtendPcr, CleanWal,
         LogFails, Cancel, OrphanExtend
<1> QED BY <1>1, <1>2, <1>3, <1>4, <1>5, <1>6, <1>7, <1>8, <1>9

\* An answer is given for an entry of the log.
LEMMA AnswersAreLogged ==
  ASSUME Contained, TypeInv, AtomicInv, AnswerInv, [Next]_vars, acks' # acks
  PROVE  /\ UNCHANGED <<rtmr, file>>
         /\ \E e \in Events : /\ acks[e] < Times(LoggedOf(file), e)
                              /\ acks' = [acks EXCEPT ![e] = @ + 1]
<1>1. PICK c \in Clients : CleanWal(c)
  BY DEF Next, Recovery, ExtendEntry, vars, Start, DeleteWal, Reread, Check, Reextend, Rehead, Retail,
         Reclean, RewriteFails, Crash, Call, Lock, ReadPcr, CreateWal, FillHeader, FillEvent, ExtendPcr, WriteHead,
         WriteTail, LogFails, Cancel, OrphanExtend
<1>2. /\ pc[c] = "clean" /\ UNCHANGED <<rtmr, file>> /\ acks' = [acks EXCEPT ![req[c].ev] = @ + 1]
  BY <1>1 DEF CleanWal
<1>3. /\ req[c].ev \in Events /\ acks[req[c].ev] < Times(Measured, req[c].ev)
      /\ Len(file) = 2 * Len(Measured) /\ LogOf(file, Measured)
  BY <1>2 DEF TypeInv, Carriers, AnswerInv, AtomicInv, RequestInv, LogIsPrefix, Settled
<1>4. LoggedOf(file) = Measured
  BY <1>3, LogRegType, LoggedAll DEF TypeInv, TypeOK, Measured
<1> QED BY <1>2, <1>3, <1>4

\* MeasuredLog counts as this module does.
LEMMA SameCardinality == ASSUME NEW S PROVE Abstract!Cardinality(S) = Cardinality(S)
BY DEF Abstract!Cardinality, Cardinality

\* The agent implements the measured log of MeasuredLog: across any number of crashes and
\* failed calls, events are measured and recorded one after the other, nothing recorded is
\* taken back, and a request is answered with success only for a recorded event.
THEOREM Refinement ==
  ASSUME Contained
  PROVE  Spec => ImplementsMeasuredLog
<1>1. Init => Abstract!Init
  <2> SUFFICES ASSUME Init PROVE Abstract!Init
    OBVIOUS
  <2>1. rtmr[LogReg] = <<>> /\ file = <<>> /\ acks = [e \in Events |-> 0]
    BY LogRegType DEF Init
  <2>2. LoggedOf(file) = <<>>
    <3>1. ASSUME NEW m \in Seq(Events), m = <<>>, NEW f \in Seq(Cells), f = <<>>
          PROVE  LoggedOf(f) = m
      <4>1. LogOf(f, m) /\ Len(f) = 2 * Len(m)
        BY <3>1 DEF LogOf
      <4> QED BY <4>1, LoggedAll
    <3>2. <<>> \in Seq(Events) /\ <<>> \in Seq(Cells)
      OBVIOUS
    <3> QED BY <2>1, <3>1, <3>2
  <2> QED BY <2>1, <2>2 DEF Abstract!Init, LoggedOf
<1>2. TypeInv /\ AtomicInv /\ CutInv /\ AnswerInv /\ [Next]_vars => [Abstract!Next]_(Abstract!vars)
  <2> SUFFICES ASSUME TypeInv, AtomicInv, CutInv, AnswerInv, [Next]_vars
               PROVE  [Abstract!Next]_(Abstract!vars)
    OBVIOUS
  <2>0. LoggedOf(file)' = LoggedOf(file')
    BY DEF LoggedOf
  <2>1. CASE acks' # acks
    <3>1. PICK e \in Events : /\ UNCHANGED <<rtmr, file>>
                              /\ acks[e] < Times(LoggedOf(file), e)
                              /\ acks' = [acks EXCEPT ![e] = @ + 1]
      BY <2>1, AnswersAreLogged
    <3> DEFINE lg == LoggedOf(file)
    <3>3. acks[e] < Cardinality({k \in DOMAIN lg : lg[k] = e})
      BY <3>1 DEF Times
    <3>4. LoggedOf(file') = LoggedOf(file)
      BY <3>1
    <3>5. UNCHANGED <<rtmr[LogReg], lg>>
      BY <3>1, <3>4
    <3>6. acks[e] < Abstract!Cardinality({k \in DOMAIN lg : lg[k] = e})
      BY <3>3, SameCardinality
    <3>7. Abstract!Answer(e)
      BY <3>1, <3>5, <3>6 DEF Abstract!Answer, LoggedOf
    <3> QED BY <3>7 DEF Abstract!Next
  <2>2. CASE acks' = acks /\ UNCHANGED rtmr
    <3>1. CASE LoggedOf(file)' = LoggedOf(file)
      BY <2>2, <3>1 DEF Abstract!vars, LoggedOf
    <3>2. CASE LoggedOf(file)' = Measured /\ LoggedOf(file) # Measured
      <4>1. Abstract!Record
        BY <2>2, <3>2 DEF Abstract!Record, LoggedOf, Measured
      <4> QED BY <4>1 DEF Abstract!Next
    <3> QED BY <2>2, <3>1, <3>2, LoggedStep
  <2>3. CASE acks' = acks /\ ~ UNCHANGED rtmr
    <3>1. PICK e \in Events : /\ Measured' = Append(Measured, e) /\ UNCHANGED file
                              /\ Len(file) = 2 * Len(Measured)
      BY <2>3, MeasuredStep
    <3>2. LoggedOf(file) = Measured
      BY <3>1, LogRegType, LoggedAll DEF TypeInv, TypeOK, AtomicInv, LogIsPrefix, Measured
    <3>3. Abstract!Measure(e)
      BY <2>3, <3>1, <3>2 DEF Abstract!Measure, LoggedOf, Measured
    <3> QED BY <3>3 DEF Abstract!Next
  <2> QED BY <2>1, <2>2, <2>3
<1>3. Spec => [](TypeInv /\ AtomicInv /\ CutInv /\ AnswerInv)
  BY AtomicAlways, AnswerInit, AnswerStep, PTL DEF Spec
<1>4. QED
  BY <1>1, <1>2, <1>3, PTL DEF Spec, ImplementsMeasuredLog, Abstract!Spec
=============================================================================

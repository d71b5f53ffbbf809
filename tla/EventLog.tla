------------------------------ MODULE EventLog ------------------------------
(***************************************************************************)
(* The event log of the attestation agent (AAEL): every runtime event is   *)
(* extended into a measurement register of the TEE and written to the log  *)
(* file, so that a verifier can replay the file against the register.      *)
(* A write-ahead file (the WAL cache) ties the two together across a crash *)
(* of the agent.  The module models eventlog/mod.rs (EventLog, FileWriter) *)
(* and the callers of it in lib.rs (init, extend_runtime_measurement).     *)
(*                                                                         *)
(* Abstractions.  A register holds the sequence of the events extended     *)
(* into it: the hash chain is taken to be injective.  An entry of the log  *)
(* file is two cells, its head and its tail, so that a write can stop in   *)
(* between.  A request is an event whose content has no newline (anything  *)
(* else is refused by Event::new before the lock is taken), made to an     *)
(* agent whose event log is enabled on a platform that supports it.        *)
(***************************************************************************)
EXTENDS Naturals, Sequences, FiniteSets

CONSTANTS
  Clients,      \* slots for requests in flight on the agent's RPC server
  Events,       \* the events (domain, operation, content)
  Cut,          \* the events that the text of an event, cut short, may read as
  Pcrs,         \* PCR indices
  Ccmrs,        \* measurement registers of the platform
  Ccmr,         \* pcr_to_ccmr: the register that backs a PCR index
  InitPcr,      \* eventlog_config.init_pcr
  RequestPcrs,  \* the register_index values clients send (InitPcr if none)
  Faults,       \* the faults of the environment that may happen
  MaxCalls,     \* bound: how many requests are made for one event
  NoClient, NoEvent

FaultNames == {"crash", "readFail", "walFail", "extendFail", "logFail",
               "cleanFail", "cancel"}

\* A text cut short is another text: it is never read as the event it was.
ASSUME EventLogAssumption ==
  /\ Cut \in [Events -> SUBSET Events]
  /\ \A e \in Events : e \notin Cut[e]
  /\ InitPcr \in Pcrs
  /\ RequestPcrs \subseteq Pcrs
  /\ Ccmr \in [Pcrs -> Ccmrs]
  /\ Faults \subseteq FaultNames
  /\ MaxCalls \in Nat
  /\ NoClient \notin Clients
  /\ NoEvent \notin Events

VARIABLES
  phase,   \* where the agent is: down, in EventLog::new, or serving
  pc,      \* where each request is in extend_runtime_measurement
  req,     \* what each request carries, and what it has computed
  lock,    \* holder of the Mutex around the EventLog
  wal,     \* the WAL cache file
  file,    \* the eventlog file
  cursor,  \* the offset of the file descriptor, kept by the kernel
  pos,     \* FileWriter.pos, kept by the agent
  rtmr,    \* the measurement registers
  calls,   \* history: how often each event was requested
  acks     \* history: how often each event was answered with success

vars == <<phase, pc, req, lock, wal, file, cursor, pos, rtmr, calls, acks>>

-----------------------------------------------------------------------------
Replaying == {"reextend", "rehead", "retail", "reclean"}
Phases  == {"down", "reread", "check", "serving"} \cup Replaying
Points  == {"idle", "lock", "read", "wal", "fill", "event", "extend", "head", "tail",
            "clean", "orphan"}

\* An entry of the log: the event and the register it is said to be in.
Cell(e, r, h) == [ev |-> e, reg |-> r, half |-> h]
Cells == [ev : Events, reg : Ccmrs, half : {"head", "tail"}]

\* The WAL cache is torn while its header (offset and expected value) is not
\* whole or its text ends inside a character, and short while its event is cut
\* elsewhere: ev is then what the text reads as, NoEvent if it does not parse.
WalFile == [state : {"none", "torn", "short", "full"},
            expected : Seq(Events), ev : Events \cup {NoEvent}, off : Nat]
Wal(s) == [state |-> s, expected |-> <<>>, ev |-> NoEvent, off |-> 0]

Request == [ev : Events \cup {NoEvent}, pcr : Pcrs, expected : Seq(Events), off : Nat]
NoRequest == [ev |-> NoEvent, pcr |-> InitPcr, expected |-> <<>>, off |-> 0]

\* The register the log names in every entry: extend_entry and new both take
\* it from the configured PCR, not from the one the request extends.
LogReg == Ccmr[InitPcr]

\* One cell written at offset o of the file, over what is there.
WriteAt(f, o, x) == [i \in 1 .. (IF o < Len(f) THEN Len(f) ELSE o + 1) |->
                       IF i = o + 1 THEN x ELSE f[i]]

Init ==
  /\ phase = "down"
  /\ pc = [c \in Clients |-> "idle"]
  /\ req = [c \in Clients |-> NoRequest]
  /\ lock = NoClient
  /\ wal = Wal("none")
  /\ file = <<>>
  /\ cursor = 0
  /\ pos = 0
  /\ rtmr = [r \in Ccmrs |-> <<>>]
  /\ calls = [e \in Events |-> 0]
  /\ acks = [e \in Events |-> 0]

-----------------------------------------------------------------------------
(* The agent starts: AttestationAgent::init, EventLog::new.  Whatever makes *)
(* new return an error ends the process: phase goes back to "down".         *)

\* The log is opened at its end.  No WAL cache: the agent serves.  A torn one
\* is an error of read_wal_cache; any other is recovered from.
Start ==
  /\ phase = "down"
  /\ wal.state # "torn"
  /\ phase' = IF wal.state = "none" THEN "serving" ELSE "reread"
  /\ cursor' = Len(file)
  /\ pos' = Len(file)
  /\ UNCHANGED <<pc, req, lock, wal, file, rtmr, calls, acks>>

\* The operator deletes a WAL cache the agent does not start with: a torn one
\* as the message says, a short one unasked, since the fatal error names the
\* log file and other processes instead.
DeleteWal ==
  /\ phase = "down"
  /\ wal.state \in {"torn", "short"}
  /\ wal' = Wal("none")
  /\ UNCHANGED <<phase, pc, req, lock, file, cursor, pos, rtmr, calls, acks>>

\* get_runtime_measurement of the configured PCR.
Reread ==
  /\ phase = "reread"
  /\ \/ phase' = "check"
     \/ "readFail" \in Faults /\ phase' = "down"
  /\ UNCHANGED <<pc, req, lock, wal, file, cursor, pos, rtmr, calls, acks>>

\* Mutants of Check: without the extend, without the comparison that finds the
\* event already extended, and without the case for it.
CheckNeverExtends ==
  /\ phase = "check"
  /\ phase' = IF wal.ev = NoEvent THEN "down" ELSE "rehead"
  /\ UNCHANGED <<pc, req, lock, wal, file, cursor, pos, rtmr, calls, acks>>

CheckAlwaysExtends ==
  /\ phase = "check"
  /\ phase' = IF wal.ev = NoEvent THEN "down" ELSE "reextend"
  /\ UNCHANGED <<pc, req, lock, wal, file, cursor, pos, rtmr, calls, acks>>

CheckNotExtendedOnly ==
  /\ phase = "check"
  /\ phase' = IF wal.ev # NoEvent /\ Append(rtmr[LogReg], wal.ev) = wal.expected
              THEN "reextend" ELSE "down"
  /\ UNCHANGED <<pc, req, lock, wal, file, cursor, pos, rtmr, calls, acks>>

\* The event is parsed, then the register says: already extended, still to be
\* extended, or neither, which is the fatal error.
Check ==
  /\ phase = "check"
  /\ phase' = IF wal.ev = NoEvent THEN "down"
              ELSE IF rtmr[LogReg] = wal.expected THEN "rehead"
              ELSE IF Append(rtmr[LogReg], wal.ev) = wal.expected THEN "reextend"
              ELSE "down"
  /\ UNCHANGED <<pc, req, lock, wal, file, cursor, pos, rtmr, calls, acks>>

Reextend ==
  /\ phase = "reextend"
  /\ \/ /\ rtmr' = [rtmr EXCEPT ![LogReg] = Append(@, wal.ev)]
        /\ phase' = "rehead"
     \/ /\ "extendFail" \in Faults
        /\ phase' = "down"
        /\ UNCHANGED rtmr
  /\ UNCHANGED <<pc, req, lock, wal, file, cursor, pos, calls, acks>>

\* Mutant of Rehead: the entry is written where the file ends.
ReheadAtEnd ==
  /\ phase = "rehead"
  /\ file' = WriteAt(file, cursor, Cell(wal.ev, LogReg, "head"))
  /\ cursor' = cursor + 1
  /\ phase' = "retail"
  /\ UNCHANGED <<pc, req, lock, wal, pos, rtmr, calls, acks>>

\* seek to the recorded offset, then write the entry again.
Rehead ==
  /\ phase = "rehead"
  /\ file' = WriteAt(file, wal.off, Cell(wal.ev, LogReg, "head"))
  /\ cursor' = wal.off + 1
  /\ pos' = wal.off
  /\ phase' = "retail"
  /\ UNCHANGED <<pc, req, lock, wal, rtmr, calls, acks>>

Retail ==
  /\ phase = "retail"
  /\ file' = WriteAt(file, cursor, Cell(wal.ev, LogReg, "tail"))
  /\ cursor' = cursor + 1
  /\ pos' = pos + 2
  /\ phase' = "reclean"
  /\ UNCHANGED <<pc, req, lock, wal, rtmr, calls, acks>>

Reclean ==
  /\ phase = "reclean"
  /\ \/ wal' = Wal("none") /\ phase' = "serving"
     \/ "cleanFail" \in Faults /\ phase' = "down" /\ UNCHANGED wal
  /\ UNCHANGED <<pc, req, lock, file, cursor, pos, rtmr, calls, acks>>

\* The recovery's write of the log fails: new returns the error.
RewriteFails ==
  /\ "logFail" \in Faults
  /\ phase \in {"rehead", "retail"}
  /\ phase' = "down"
  /\ UNCHANGED <<pc, req, lock, wal, file, cursor, pos, rtmr, calls, acks>>

\* The process ends anywhere: requests, lock and writer are gone; the two
\* files and the registers stay (the guest itself goes on).
Crash ==
  /\ "crash" \in Faults
  /\ phase # "down"
  /\ phase' = "down"
  /\ pc' = [c \in Clients |-> "idle"]
  /\ req' = [c \in Clients |-> NoRequest]
  /\ lock' = NoClient
  /\ cursor' = 0
  /\ pos' = 0
  /\ UNCHANGED <<wal, file, rtmr, calls, acks>>

-----------------------------------------------------------------------------
(* extend_runtime_measurement and, under the Mutex, extend_entry.          *)

Call(c, e, p) ==
  /\ phase = "serving"
  /\ pc[c] = "idle"
  /\ calls[e] < MaxCalls
  /\ calls' = [calls EXCEPT ![e] = @ + 1]
  /\ pc' = [pc EXCEPT ![c] = "lock"]
  /\ req' = [req EXCEPT ![c] = [NoRequest EXCEPT !.ev = e, !.pcr = p]]
  /\ UNCHANGED <<phase, lock, wal, file, cursor, pos, rtmr, acks>>

\* Mutant of Lock: no mutual exclusion.
LockShared(c) ==
  /\ pc[c] = "lock"
  /\ lock' = c
  /\ pc' = [pc EXCEPT ![c] = "read"]
  /\ UNCHANGED <<phase, req, wal, file, cursor, pos, rtmr, calls, acks>>

Lock(c) ==
  /\ pc[c] = "lock"
  /\ lock = NoClient
  /\ lock' = c
  /\ pc' = [pc EXCEPT ![c] = "read"]
  /\ UNCHANGED <<phase, req, wal, file, cursor, pos, rtmr, calls, acks>>

\* Mutant of Return: the guard is not dropped.
ReturnLocked(c) ==
  /\ lock' = lock
  /\ pc' = [pc EXCEPT ![c] = "idle"]
  /\ req' = [req EXCEPT ![c] = NoRequest]

\* Every way out of extend_entry drops the guard and ends the request.
Return(c) ==
  /\ lock' = NoClient
  /\ pc' = [pc EXCEPT ![c] = "idle"]
  /\ req' = [req EXCEPT ![c] = NoRequest]

\* get_runtime_measurement, and what the WAL cache will say.
ReadPcr(c) ==
  /\ pc[c] = "read"
  /\ \/ /\ req' = [req EXCEPT ![c] = [@ EXCEPT
              !.expected = Append(rtmr[Ccmr[req[c].pcr]], req[c].ev), !.off = pos]]
        /\ pc' = [pc EXCEPT ![c] = "wal"]
        /\ UNCHANGED lock
     \/ "readFail" \in Faults /\ Return(c)
  /\ UNCHANGED <<phase, wal, file, cursor, pos, rtmr, calls, acks>>

\* write_wal_cache: the file is created or truncated, then filled.
CreateWal(c) ==
  /\ pc[c] = "wal"
  /\ \/ /\ wal' = Wal("torn")
        /\ pc' = [pc EXCEPT ![c] = "fill"]
        /\ UNCHANGED <<req, lock>>
     \/ "walFail" \in Faults /\ Return(c) /\ UNCHANGED wal
  /\ UNCHANGED <<phase, file, cursor, pos, rtmr, calls, acks>>

WalOf(c, s, e) == [state |-> s, expected |-> req[c].expected, ev |-> e, off |-> req[c].off]

\* The header is written, and of the event nothing or a part.
FillHeader(c) ==
  /\ pc[c] = "fill"
  /\ \/ /\ \E x \in Cut[req[c].ev] \cup {NoEvent} : wal' = WalOf(c, "short", x)
        /\ pc' = [pc EXCEPT ![c] = "event"]
        /\ UNCHANGED <<req, lock>>
     \/ "walFail" \in Faults /\ Return(c) /\ UNCHANGED wal
  /\ UNCHANGED <<phase, file, cursor, pos, rtmr, calls, acks>>

\* The rest of the event, and sync_data, which may fail with the file whole.
FillEvent(c) ==
  /\ pc[c] = "event"
  /\ \/ /\ wal' = WalOf(c, "full", req[c].ev)
        /\ \/ /\ pc' = [pc EXCEPT ![c] = "extend"]
              /\ UNCHANGED <<req, lock>>
           \/ "walFail" \in Faults /\ Return(c)
     \/ "walFail" \in Faults /\ Return(c) /\ UNCHANGED wal
  /\ UNCHANGED <<phase, file, cursor, pos, rtmr, calls, acks>>

ExtendPcr(c) ==
  /\ pc[c] = "extend"
  /\ \/ /\ rtmr' = [rtmr EXCEPT ![Ccmr[req[c].pcr]] = Append(@, req[c].ev)]
        /\ pc' = [pc EXCEPT ![c] = "head"]
        /\ UNCHANGED <<req, lock>>
     \/ "extendFail" \in Faults /\ Return(c) /\ UNCHANGED rtmr
  /\ UNCHANGED <<phase, wal, file, cursor, pos, calls, acks>>

\* FileWriter::write goes where the descriptor is; only a write that succeeds,
\* its sync included, moves the agent's own idea of the position.
WriteHead(c) ==
  /\ pc[c] = "head"
  /\ file' = WriteAt(file, cursor, Cell(req[c].ev, LogReg, "head"))
  /\ cursor' = cursor + 1
  /\ pc' = [pc EXCEPT ![c] = "tail"]
  /\ UNCHANGED <<phase, req, lock, wal, pos, rtmr, calls, acks>>

WriteTail(c) ==
  /\ pc[c] = "tail"
  /\ file' = WriteAt(file, cursor, Cell(req[c].ev, LogReg, "tail"))
  /\ cursor' = cursor + 1
  /\ \/ /\ pos' = pos + 2
        /\ pc' = [pc EXCEPT ![c] = "clean"]
        /\ UNCHANGED <<req, lock>>
     \/ "logFail" \in Faults /\ Return(c) /\ UNCHANGED pos
  /\ UNCHANGED <<phase, wal, rtmr, calls, acks>>

\* The write of the log fails, with nothing or only the head on file.
LogFails(c) ==
  /\ "logFail" \in Faults
  /\ pc[c] \in {"head", "tail"}
  /\ Return(c)
  /\ UNCHANGED <<phase, wal, file, cursor, pos, rtmr, calls, acks>>

\* clean_wal_cache, and the answer to the client.
CleanWal(c) ==
  /\ pc[c] = "clean"
  /\ Return(c)
  /\ \/ /\ wal' = Wal("none")
        /\ acks' = [acks EXCEPT ![req[c].ev] = @ + 1]
     \/ "cleanFail" \in Faults /\ UNCHANGED <<wal, acks>>
  /\ UNCHANGED <<phase, file, cursor, pos, rtmr, calls>>

\* The RPC server drops the handler at an await (deadline of the client, lost
\* connection).  The vTPM attesters extend in spawn_blocking: dropping the
\* handler releases the Mutex and leaves the blocking task to extend alone.
Cancel(c) ==
  /\ "cancel" \in Faults
  /\ pc[c] \in {"lock", "read", "extend"}
  /\ lock' = IF lock = c THEN NoClient ELSE lock
  /\ \/ /\ pc[c] # "extend"
        /\ pc' = [pc EXCEPT ![c] = "idle"]
        /\ req' = [req EXCEPT ![c] = NoRequest]
     \/ /\ pc[c] = "extend"
        /\ pc' = [pc EXCEPT ![c] = "orphan"]
        /\ UNCHANGED req
  /\ UNCHANGED <<phase, wal, file, cursor, pos, rtmr, calls, acks>>

OrphanExtend(c) ==
  /\ pc[c] = "orphan"
  /\ rtmr' = [rtmr EXCEPT ![Ccmr[req[c].pcr]] = Append(@, req[c].ev)]
  /\ pc' = [pc EXCEPT ![c] = "idle"]
  /\ req' = [req EXCEPT ![c] = NoRequest]
  /\ UNCHANGED <<phase, lock, wal, file, cursor, pos, calls, acks>>

-----------------------------------------------------------------------------
Recovery == Reread \/ Check \/ Reextend \/ Rehead \/ Retail \/ Reclean

ExtendEntry(c) ==
  \/ ReadPcr(c) \/ CreateWal(c) \/ FillHeader(c) \/ FillEvent(c)
  \/ ExtendPcr(c) \/ WriteHead(c) \/ WriteTail(c) \/ CleanWal(c)

Next ==
  \/ Start \/ DeleteWal \/ Recovery \/ RewriteFails \/ Crash
  \/ \E c \in Clients :
       \/ \E e \in Events, p \in RequestPcrs : Call(c, e, p)
       \/ Lock(c) \/ ExtendEntry(c) \/ LogFails(c) \/ Cancel(c) \/ OrphanExtend(c)

Spec == Init /\ [][Next]_vars

\* The agent is restarted when it ends, its steps are taken, and the Mutex of
\* tokio is fair: it is granted in the order of the requests.
Fairness ==
  /\ WF_vars(Start) /\ WF_vars(Recovery)
  /\ \A c \in Clients : WF_vars(ExtendEntry(c)) /\ WF_vars(OrphanExtend(c)) /\ SF_vars(Lock(c))

FairSpec == Spec /\ Fairness

-----------------------------------------------------------------------------
(* Properties.                                                             *)

\* Types of the variables: where the agent and its requests are, what the
\* files and the registers hold.
TypeOK ==
  /\ phase \in Phases
  /\ pc \in [Clients -> Points]
  /\ req \in [Clients -> Request]
  /\ lock \in Clients \cup {NoClient}
  /\ wal \in WalFile
  /\ file \in Seq(Cells)
  /\ cursor \in Nat
  /\ pos \in Nat
  /\ rtmr \in [Ccmrs -> Seq(Events)]
  /\ calls \in [Events -> Nat]
  /\ acks \in [Events -> Nat]

\* The k-th entry of the file is complete and records event e.
EntryIs(k, e) ==
  /\ 2 * k \in 1 .. Len(file)
  /\ file[2 * k - 1] = Cell(e, LogReg, "head")
  /\ file[2 * k] = Cell(e, LogReg, "tail")

\* Replaying the file gives the registers.  Every entry names LogReg, so no
\* other register may have been extended.
LogMatches ==
  /\ Len(file) = 2 * Len(rtmr[LogReg])
  /\ \A k \in 1 .. Len(rtmr[LogReg]) : EntryIs(k, rtmr[LogReg][k])
  /\ \A r \in Ccmrs \ {LogReg} : rtmr[r] = <<>>

\* "This an atomic operation, which will both extend the PCR and write the
\* eventlog to disk": when the agent serves, no request is in extend_entry and
\* no WAL cache is left to be replayed, the log file replays to the registers.
ExtendIsAtomic ==
  (phase = "serving" /\ lock = NoClient /\ wal.state = "none") => LogMatches

\* Where the WAL cache stands to the register: one event ahead of it, the log
\* being complete, or at it, the last event being the one to be logged.
Measured == rtmr[LogReg]

Ahead ==
  /\ wal.expected = Append(Measured, wal.ev)
  /\ Len(file) = 2 * Len(Measured)
  /\ wal.off = Len(file)

Behind ==
  /\ Measured # <<>>
  /\ wal.expected = Measured
  /\ wal.ev = Measured[Len(Measured)]
  /\ wal.off = 2 * (Len(Measured) - 1)

\* "this would do help when there is a crash between extending PCR and logging
\* event": whenever the log is short of the register, the WAL cache is whole
\* and says which event is missing and where; and a whole WAL cache is never
\* one that recovery could not place.
WalProtects ==
  /\ wal.state = "full" => Ahead \/ Behind
  /\ Len(file) # 2 * Len(Measured) => wal.state = "full" /\ Behind

\* An event is never extended more often than it was requested, whatever is
\* replayed by recovery, as long as the requests are for the register that
\* recovery reads.
Extended(e) == {x \in UNION {{r} \X DOMAIN rtmr[r] : r \in Ccmrs} : rtmr[x[1]][x[2]] = e}

MeasuredOncePerCall == \A e \in Events : Cardinality(Extended(e)) <= calls[e]

\* Recovery decides right: a whole WAL cache is placed, at the register or one
\* event ahead of it, and never taken for the log that is "probably corrupted, or
\* other process has extend the target PCR"; one whose event is cut short is never
\* replayed, although it is read without an error (it meets that fatal error).
RecoveryDecides ==
  /\ phase = "check" /\ wal.state = "full" =>
       \/ rtmr[LogReg] = wal.expected
       \/ Append(rtmr[LogReg], wal.ev) = wal.expected
  /\ phase \in Replaying => wal.state = "full"

\* The log never claims what was not measured: each cell of the file is of an
\* event that some register was extended with, or of what is read when the text
\* of such an event was cut short.
LogIsMeasured ==
  \A i \in DOMAIN file :
    \E r \in Ccmrs : \E k \in DOMAIN rtmr[r] : file[i].ev \in {rtmr[r][k]} \cup Cut[rtmr[r][k]]

\* Registers and log hold what was asked for and nothing else, whatever failed, was
\* dropped or was replayed (eventlog/mod.rs).
OnlyRequestedIsMeasured == MeasuredOncePerCall /\ LogIsMeasured

\* The agent implements the abstract measured log: the register is what was
\* measured, the complete entries of the file are what was logged, and a request
\* is answered with success only when its event is among them.  A crash, the
\* recovery and every failed call are stutters or the steps they stand for.
Abstract == INSTANCE MeasuredLog WITH
  measured <- rtmr[LogReg],
  logged   <- [k \in 1 .. Len(file) \div 2 |-> file[2 * k].ev],
  answered <- acks

ImplementsMeasuredLog == Abstract!Spec

\* A request that waits for the Mutex is answered, or lost with the agent.
RequestsEnd == \A c \in Clients : (pc[c] = "lock") ~> (pc[c] = "idle")

\* The agent serves again and again, unless it is killed, or a system call of its
\* recovery fails, again and again, or a WAL cache that was not written to its end
\* waits for the operator.  A whole one is no excuse: it never leads to the fatal
\* error (Check may not end the process with it).
ServesAgain ==
  \/ []<>(phase = "serving")
  \/ <>[](phase = "down" /\ wal.state = "torn")
  \/ <>[](phase \in {"down", "reread", "check"} /\ wal.state = "short")
  \/ []<><<Crash>>_vars
  \/ []<><<phase \in {"reread"} \cup Replaying /\ phase' = "down">>_vars

=============================================================================

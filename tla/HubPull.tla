------------------------------ MODULE HubPull ------------------------------
(***************************************************************************)
(* The confidential data hub as a process (hub.rs, auth/kbs.rs): it starts *)
(* with the credentials it fetches from the KBS, and then answers requests *)
(* to pull images.  A pull goes through the one image client of the hub,   *)
(* and what was pulled is measured: the hub asks the attestation agent to  *)
(* extend the runtime measurement.  Image client and connection to the     *)
(* agent are made when they are first needed and kept (OnceCell).          *)
(*                                                                         *)
(* What image-rs does inside a pull is ImagePull's, and how the agent      *)
(* extends is EventLog's; here a pull ends well or not, and the agent      *)
(* extends in one step, also after the hub has stopped waiting for it.     *)
(* The KBS, the agent and the ttrpc library are external: a connection     *)
(* dies with the agent, and a call on a dead one fails.                    *)
(***************************************************************************)
EXTENDS Naturals

CONSTANTS
  Pulls,        \* slots for requests to pull an image
  Credentials,  \* [[credentials]] and cdh.kbs_resources, all with legal paths
  HubFaults,       \* the faults of the environment that may happen
  MaxPulls,     \* bound: the pulls asked for
  NoPull

HubFaultNames == {"fetch", "hubDown", "agentDown", "build", "pull", "timeout", "cancel"}

ASSUME HubAssumption ==
  /\ HubFaults \subseteq HubFaultNames
  /\ MaxPulls \in Nat
  /\ NoPull \notin Pulls

VARIABLES
  phase,    \* down, fetching its credentials, serving
  todo,     \* the credentials init_kbs_resources has still to fetch
  files,    \* what is under the storage directory of each credential
  built,    \* the image client was initialised
  lock,     \* holder of its Mutex
  agent,    \* Hub.aa_client: unset, no agent, or a connection
  agentUp,  \* the agent runs
  socket,   \* the agent's socket file exists
  mode,     \* what the agent answers to an extension
  kbc,      \* where credentials come from: the KBS, or a file of the guest
  pl,       \* the pulls
  late,     \* extensions the agent is at although nobody waits for them
  asked     \* history: the pulls asked for

hub     == <<phase, todo, built, lock, agent>>
aa      == <<agentUp, socket, mode, kbc>>
hubVars == <<hub, aa, files, pl, late, asked>>

PullPoints == {"idle", "client", "lock", "pull", "agent", "extend", "sent", "answered", "done"}

\* result: the answer; history: the image was pulled, how often it was measured.
NewPull == [pc |-> "idle", result |-> "none", pulled |-> FALSE, measured |-> 0]

HubInit ==
  /\ phase = "down"
  /\ todo = {}
  /\ files = [c \in Credentials |-> "absent"]
  /\ built = FALSE
  /\ lock = NoPull
  /\ agent = "unset"
  /\ agentUp = FALSE
  /\ socket = FALSE
  /\ mode \in {"ok", "notEnabled"}
  /\ kbc \in {"cc_kbc", "offline_fs_kbc"}
  /\ pl = [p \in Pulls |-> NewPull]
  /\ late = {}
  /\ asked = 0

SetPull(p, r) == pl' = [pl EXCEPT ![p] = r]
PullTo(p, pc) == SetPull(p, [pl[p] EXCEPT !.pc = pc])
Finish(p, result) == SetPull(p, [pl[p] EXCEPT !.pc = "done", !.result = result])

\* The slot is free; what the agent is still at is remembered with it.
Free(p) == SetPull(p, IF p \in late' THEN [pl[p] EXCEPT !.pc = "idle", !.result = "none"] ELSE NewPull)

-----------------------------------------------------------------------------
(* Start of the hub: Hub::new and init_kbs_resources *)

StartHub ==
  /\ phase = "down"
  /\ phase' = "keys"
  /\ todo' = Credentials
  /\ files' = [c \in Credentials |-> IF files[c] = "fresh" THEN "old" ELSE files[c]]
  /\ UNCHANGED <<built, lock, agent, aa, pl, late, asked>>

\* The token for the KBS comes from the agent.
CanFetch == agentUp \/ kbc = "offline_fs_kbc"

FetchKey(c) ==
  /\ phase = "keys"
  /\ c \in todo
  /\ CanFetch
  /\ files' = [files EXCEPT ![c] = "fresh"]
  /\ todo' = todo \ {c}
  /\ UNCHANGED <<phase, built, lock, agent, aa, pl, late, asked>>

\* Mutant of FetchFails: what cannot be fetched is left out.
FetchSkips ==
  /\ phase = "keys"
  /\ ~ CanFetch \/ "fetch" \in HubFaults
  /\ \E c \in todo : todo' = todo \ {c}
  /\ UNCHANGED <<phase, built, lock, agent, aa, files, pl, late, asked>>

\* One that cannot be fetched, or written, ends the start; those written before
\* stay.
FetchFails ==
  /\ phase = "keys"
  /\ ~ CanFetch \/ "fetch" \in HubFaults
  /\ \E c \in todo : files' \in {files, [files EXCEPT ![c] = "partial"]}
  /\ phase' = "down"
  /\ todo' = {}
  /\ UNCHANGED <<built, lock, agent, aa, pl, late, asked>>

Serve ==
  /\ phase = "keys"
  /\ todo = {}
  /\ phase' = "serving"
  /\ UNCHANGED <<todo, built, lock, agent, aa, files, pl, late, asked>>

\* The hub ends: its cells and its pulls are lost, and what the agent was asked
\* for goes on.
HubDown ==
  /\ "hubDown" \in HubFaults
  /\ phase # "down"
  /\ phase' = "down"
  /\ todo' = {}
  /\ built' = FALSE
  /\ lock' = NoPull
  /\ agent' = "unset"
  /\ pl' = [p \in Pulls |-> NewPull]
  /\ late' = {}
  /\ UNCHANGED <<aa, files, asked>>

-----------------------------------------------------------------------------
(* pull_image *)

Request(p) ==
  /\ phase = "serving"
  /\ pl[p].pc = "idle" /\ p \notin late
  /\ asked < MaxPulls
  /\ asked' = asked + 1
  /\ SetPull(p, [NewPull EXCEPT !.pc = "client"])
  /\ UNCHANGED <<hub, aa, files, late>>

\* image_client.get_or_try_init: a client that could not be built is built anew
\* by the next pull.
GetClient(p) ==
  /\ pl[p].pc = "client"
  /\ built' = TRUE
  /\ PullTo(p, "lock")
  /\ UNCHANGED <<phase, todo, lock, agent, aa, files, late, asked>>

BuildFails(p) ==
  /\ "build" \in HubFaults
  /\ pl[p].pc = "client"
  /\ ~ built
  /\ Finish(p, "error")
  /\ UNCHANGED <<hub, aa, files, late, asked>>

LockClient(p) ==
  /\ pl[p].pc = "lock"
  /\ lock = NoPull
  /\ lock' = p
  /\ PullTo(p, "pull")
  /\ UNCHANGED <<phase, todo, built, agent, aa, files, late, asked>>

\* The guard of the Mutex lives as long as the call.
Pulled(p) ==
  /\ pl[p].pc = "pull"
  /\ lock' = NoPull
  /\ SetPull(p, [pl[p] EXCEPT !.pc = "agent", !.pulled = TRUE])
  /\ UNCHANGED <<phase, todo, built, agent, aa, files, late, asked>>

PullFails(p) ==
  /\ "pull" \in HubFaults
  /\ pl[p].pc = "pull"
  /\ lock' = NoPull
  /\ Finish(p, "error")
  /\ UNCHANGED <<phase, todo, built, agent, aa, files, late, asked>>

\* aa_client.get_or_try_init: no socket file means no agent, for as long as the
\* hub runs; a connection that is refused is tried again by the next pull.
NoAgent(p) ==
  /\ pl[p].pc = "agent"
  /\ agent = "none" \/ (agent = "unset" /\ ~ socket)
  /\ agent' = "none"
  /\ Finish(p, "ok")
  /\ UNCHANGED <<phase, todo, built, lock, aa, files, late, asked>>

ConnectAgent(p) ==
  /\ pl[p].pc = "agent"
  /\ agent = "unset" /\ socket
  /\ IF agentUp THEN PullTo(p, "extend") /\ agent' = "live"
           ELSE Finish(p, "error") /\ UNCHANGED agent
  /\ UNCHANGED <<phase, todo, built, lock, aa, files, late, asked>>

HasAgent(p) ==
  /\ pl[p].pc = "agent"
  /\ agent \in {"live", "dead"}
  /\ PullTo(p, "extend")
  /\ UNCHANGED <<hub, aa, files, late, asked>>

Extend(p) ==
  /\ pl[p].pc = "extend"
  /\ IF agent = "live" THEN PullTo(p, "sent") ELSE Finish(p, "error")
  /\ UNCHANGED <<hub, aa, files, late, asked>>

\* NOT_SUPPORTED and NOT_ENABLED are passed over with a warning.
Answered(p) ==
  /\ pl[p].pc = "answered"
  /\ Finish(p, IF agent = "live" THEN "ok" ELSE "error")
  /\ UNCHANGED <<hub, aa, files, late, asked>>

\* Mutants of ExtendFails: an extension given up is as good as one made, and
\* nothing ends the wait for an agent that does not answer.
ExtendFailsWell(p) ==
  /\ pl[p].pc = "sent"
  /\ agent = "dead" \/ "timeout" \in HubFaults
  /\ Finish(p, "ok")
  /\ late' = IF agent = "live" THEN late \cup {p} ELSE late
  /\ UNCHANGED <<hub, aa, files, asked>>

ExtendWaits(p) ==
  /\ pl[p].pc = "sent"
  /\ agent = "dead"
  /\ Finish(p, "error")
  /\ UNCHANGED <<hub, aa, files, late, asked>>

\* The connection died, or EXTEND_RUNTIME_MEASUREMENT_TIMEOUT has passed, and
\* the agent may still be at it: the pull is answered with an error, although
\* the image was pulled.
ExtendFails(p) ==
  /\ pl[p].pc = "sent"
  /\ agent = "dead" \/ "timeout" \in HubFaults
  /\ Finish(p, "error")
  /\ late' = IF agent = "live" THEN late \cup {p} ELSE late
  /\ UNCHANGED <<hub, aa, files, asked>>

\* The caller's deadline: the handler is dropped where it waits.
Cancel(p) ==
  /\ "cancel" \in HubFaults
  /\ pl[p].pc \in PullPoints \ {"idle", "done"}
  /\ lock' = IF lock = p THEN NoPull ELSE lock
  /\ late' = IF pl[p].pc = "sent" /\ agent = "live" THEN late \cup {p} ELSE late
  /\ Free(p)
  /\ UNCHANGED <<phase, todo, built, agent, aa, files, asked>>

Reply(p) ==
  /\ pl[p].pc = "done"
  /\ UNCHANGED <<hub, aa, files, late, asked>>
  /\ Free(p)

-----------------------------------------------------------------------------
(* The agent *)

StartAgent ==
  /\ ~ agentUp
  /\ agentUp' = TRUE
  /\ socket' = TRUE
  /\ UNCHANGED <<hub, mode, kbc, files, pl, late, asked>>

\* The socket file stays; the connections do not.
AgentDown ==
  /\ "agentDown" \in HubFaults
  /\ agentUp
  /\ agentUp' = FALSE
  /\ agent' = IF agent = "live" THEN "dead" ELSE agent
  /\ late' = {}
  /\ UNCHANGED <<phase, todo, built, lock, socket, mode, kbc, files, pl, asked>>

\* The agent extends in its own time, or never.
Measured(p) == IF mode = "ok" THEN pl[p].measured + 1 ELSE pl[p].measured

AgentExtends(p) ==
  /\ pl[p].pc = "sent"
  /\ agent = "live"
  /\ SetPull(p, [pl[p] EXCEPT !.pc = "answered", !.measured = Measured(p)])
  /\ UNCHANGED <<hub, aa, files, late, asked>>

LateExtends(p) ==
  /\ p \in late
  /\ late' = late \ {p}
  /\ SetPull(p, [pl[p] EXCEPT !.measured = Measured(p)])
  /\ UNCHANGED <<hub, aa, files, asked>>

StepOfPull(p) == \/ GetClient(p) \/ BuildFails(p) \/ Pulled(p) \/ PullFails(p) \/ NoAgent(p)
                 \/ ConnectAgent(p) \/ HasAgent(p) \/ Extend(p) \/ Answered(p)
                 \/ ExtendFails(p) \/ Reply(p)

Start == StartHub \/ FetchFails \/ Serve \/ \E c \in Credentials : FetchKey(c)

HubNext == \/ Start \/ HubDown \/ StartAgent \/ AgentDown
           \/ \E p \in Pulls : \/ Request(p) \/ LockClient(p) \/ StepOfPull(p) \/ Cancel(p)
                              \/ AgentExtends(p) \/ LateExtends(p)

HubSpec == HubInit /\ [][HubNext]_hubVars

\* A pull of image-rs ends, the hub's timeout passes unless the agent answers
\* first, and tokio's Mutex is granted in the order of the requests.
HubFairSpec == HubSpec /\ \A p \in Pulls : WF_hubVars(StepOfPull(p)) /\ SF_hubVars(LockClient(p))

-----------------------------------------------------------------------------
(* Properties *)

Agents == {"unset", "none", "live", "dead"}
Pull   == [pc : PullPoints, result : {"none", "ok", "error"}, pulled : BOOLEAN, measured : Nat]

\* Every variable has its type, and the Mutex is held by the pull under way.
HubTypeOK ==
  /\ phase \in {"down", "keys", "serving"}
  /\ todo \subseteq Credentials
  /\ files \in [Credentials -> {"absent", "partial", "old", "fresh"}]
  /\ built \in BOOLEAN
  /\ lock \in Pulls \cup {NoPull}
  /\ \A p \in Pulls : lock = p <=> pl[p].pc = "pull"
  /\ agent \in Agents
  /\ agentUp \in BOOLEAN /\ socket \in BOOLEAN
  /\ mode \in {"ok", "notEnabled"}
  /\ kbc \in {"cc_kbc", "offline_fs_kbc"}
  /\ pl \in [Pulls -> Pull]
  /\ late \subseteq Pulls
  /\ asked \in 0 .. MaxPulls

\* An image that a pull is answered with success for was measured, unless the hub
\* has found no agent or the agent does not measure; no image is measured twice
\* for one pull, and none that was not pulled, also when the hub gives up waiting.
PulledIsMeasured == \A p \in Pulls :
  /\ pl[p].result = "ok" => pl[p].pulled
  /\ pl[p].result = "ok" /\ mode = "ok" /\ agent # "none" => pl[p].measured = 1
  /\ pl[p].measured <= IF pl[p].pulled THEN 1 ELSE 0

\* A hub that serves has written every credential in this start of it: none is
\* missing and none is left over from an earlier start.
ServesWithKeys == phase = "serving" => \A c \in Credentials : files[c] = "fresh"

\* Every pull is answered, whatever became of the pulls before it, and whether or
\* not the agent answers.
PullsEnd == \A p \in Pulls : pl[p].pc # "idle" ~> pl[p].pc = "idle"
=============================================================================

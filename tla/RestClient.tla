----------------------------- MODULE RestClient -----------------------------
(***************************************************************************)
(* The REST server of the guest (api-server-rest).  A request is routed to *)
(* a refusal or to calls of the attestation agent or the confidential data *)
(* hub, made one after the other over a ttrpc client that all handlers of  *)
(* the server share (CachedTtrpcClient): connected on first use, kept, and *)
(* replaced when a call finds its connection closed, in which case that    *)
(* call is made once more.                                                 *)
(*                                                                         *)
(* The ttrpc library and the two services are external and are what the    *)
(* code makes of them: a connection dies with the service at its other     *)
(* end; a call begun on a dead connection fails with LocalClosed and never *)
(* leaves the server, a call that was sent fails with another error, and   *)
(* nobody knows whether it was carried out.  A clone of a client shares    *)
(* its connection, so the state of a clone is live or dead.                *)
(***************************************************************************)
EXTENDS Naturals, Sequences

CONSTANTS
  Handlers,     \* slots for requests being handled
  Requests,     \* the requests that are made
  Connected,    \* the services the --features of the server name
  Faults,       \* the faults of the environment that may happen
  MaxRequests,  \* bound: the requests made
  NoHandler

Services == {"aa", "cdh"}
FaultNames == {"down", "refused", "timeout", "gone"}
Routes  == {"info", "token", "evidence", "additional", "aael", "aaOther", "resource",
            "cdhOther", "unknown"}
Methods == {"GET", "POST"}

ASSUME RestAssumption ==
  /\ Requests \subseteq [local : BOOLEAN, route : Routes, method : Methods, valid : BOOLEAN]
  /\ Connected \in {{"aa"}, {"cdh"}, {"aa", "cdh"}}
  /\ Faults \subseteq FaultNames
  /\ MaxRequests \in Nat
  /\ NoHandler \notin Handlers

VARIABLES
  up,      \* the services that run
  cache,   \* CachedTtrpcClient.client, by service
  writer,  \* the holder of its RwLock for writing
  hd,      \* the handlers
  made     \* history: the requests made

vars == <<up, cache, writer, hd, made>>

-----------------------------------------------------------------------------
(* Routes *)

\* The service of a route, and whether the route and method name a call of it.
ServiceOf(q) == IF q.route \in {"resource", "cdhOther"} THEN "cdh" ELSE "aa"

Known(q) == \/ q.route \in {"token", "evidence", "additional"} /\ q.method = "GET"
            \/ q.route = "aael" /\ q.method = "POST"
            \/ q.route = "resource"

\* What a request is refused with before any call: it is not from this machine,
\* is no GET of /info, names nothing, names a feature that is off, or lacks what
\* the call needs (a body that does not parse is a 500).
Refusals(q) ==
  {s \in {"403", "405", "404", "400", "500"} :
     \/ s = "403" /\ ~ q.local
     \/ s = "405" /\ q.local /\ q.route = "info" /\ q.method # "GET"
     \/ s = "404" /\ q.local /\ q.route # "info" /\ (~ Known(q) \/ ServiceOf(q) \notin Connected)
     \/ /\ q.local /\ Known(q) /\ ServiceOf(q) \in Connected
        /\ q.route # "resource" /\ ~ q.valid
        /\ s = IF q.route = "aael" THEN "500" ELSE "400"}

\* The calls of a request that is not refused: /info asks the agent twice.
Calls(q) == IF q.route # "info" THEN <<ServiceOf(q)>>
            ELSE IF "aa" \in Connected THEN <<"aa", "aa">> ELSE <<>>

-----------------------------------------------------------------------------
Clients == {"none", "live", "dead"}
Points  == {"idle", "read", "write", "connect", "call", "sent", "carried", "drop", "done"}

\* q: the request; todo: the calls to be made; client: the clone in hand; again:
\* the call under way is the repeated one; done: history, how often the service
\* carried it out; hurt: history, a fault met the request; status: the answer.
NoRequest == [pc |-> "idle", q |-> <<>>, todo |-> <<>>, client |-> "none", again |-> FALSE,
              carried |-> 0, hurt |-> FALSE, status |-> "none"]

Init ==
  /\ up = Services
  /\ cache = [s \in Services |-> "none"]
  /\ writer = [s \in Services |-> NoHandler]
  /\ hd = [h \in Handlers |-> NoRequest]
  /\ made = 0

Set(h, r) == hd' = [hd EXCEPT ![h] = r]
Goto(h, pc) == Set(h, [hd[h] EXCEPT !.pc = pc])
Of(h) == Head(hd[h].todo)
Service(r) == {r.todo[i] : i \in DOMAIN r.todo}

\* The next call begins with ensure_client; after the last the answer is sent.
Begin(r) == IF r.todo = <<>> THEN [r EXCEPT !.pc = "done", !.client = "none", !.status = "200"]
            ELSE [r EXCEPT !.pc = "read", !.client = "none", !.again = FALSE, !.carried = 0]

\* An error of a call is answered with 500; in /info it ends the connection.
Fail(r) == [r EXCEPT !.pc = "done", !.todo = <<>>, !.client = "none",
                     !.status = IF r.q.route = "info" THEN "closed" ELSE "500"]

Route(h, q) ==
  /\ hd[h].pc = "idle"
  /\ made < MaxRequests
  /\ made' = made + 1
  /\ LET r == [NoRequest EXCEPT !.q = q, !.todo = Calls(q)] IN
     Set(h, IF Refusals(q) = {}
            THEN Begin([r EXCEPT !.hurt = Service(r) \ up # {}])
            ELSE [r EXCEPT !.pc = "done", !.todo = <<>>, !.status = CHOOSE s \in Refusals(q) : TRUE])
  /\ UNCHANGED <<up, cache, writer>>

Answer(h) ==
  /\ hd[h].pc = "done"
  /\ Set(h, NoRequest)
  /\ UNCHANGED <<up, cache, writer, made>>

-----------------------------------------------------------------------------
(* ensure_client *)

Clone(h) == [hd[h] EXCEPT !.pc = "call", !.client = cache[Of(h)]]

ReadClient(h) ==
  /\ hd[h].pc = "read"
  /\ writer[Of(h)] = NoHandler
  /\ IF cache[Of(h)] # "none" THEN Set(h, Clone(h)) ELSE Goto(h, "write")
  /\ UNCHANGED <<up, cache, writer, made>>

\* Another handler may have connected in the meantime.
WriteClient(h) ==
  /\ hd[h].pc = "write"
  /\ writer[Of(h)] = NoHandler
  /\ IF cache[Of(h)] # "none"
     THEN Set(h, Clone(h)) /\ UNCHANGED writer
     ELSE Goto(h, "connect") /\ writer' = [writer EXCEPT ![Of(h)] = h]
  /\ UNCHANGED <<up, cache, made>>

Connect(h) ==
  /\ hd[h].pc = "connect"
  /\ IF Of(h) \in up
     THEN /\ cache' = [cache EXCEPT ![Of(h)] = "live"]
          /\ Set(h, [hd[h] EXCEPT !.pc = "call", !.client = "live"])
     ELSE Set(h, Fail(hd[h])) /\ UNCHANGED cache
  /\ writer' = [writer EXCEPT ![Of(h)] = NoHandler]
  /\ UNCHANGED <<up, made>>

-----------------------------------------------------------------------------
(* call_with_retry *)

Send(h) ==
  /\ hd[h].pc = "call"
  /\ hd[h].client = "live"
  /\ Goto(h, "sent")
  /\ UNCHANGED <<up, cache, writer, made>>

LocalClosed(h) ==
  /\ hd[h].pc = "call"
  /\ hd[h].client = "dead"
  /\ Set(h, IF hd[h].again THEN Fail(hd[h]) ELSE [hd[h] EXCEPT !.pc = "drop", !.client = "none"])
  /\ UNCHANGED <<up, cache, writer, made>>

\* Mutants of DropClient: the client is kept, and the repetition is not noted.
DropNothing(h) ==
  /\ hd[h].pc = "drop"
  /\ writer[Of(h)] = NoHandler
  /\ Set(h, [hd[h] EXCEPT !.pc = "read", !.again = TRUE])
  /\ UNCHANGED <<up, cache, writer, made>>

DropAgain(h) ==
  /\ hd[h].pc = "drop"
  /\ writer[Of(h)] = NoHandler
  /\ cache' = [cache EXCEPT ![Of(h)] = "none"]
  /\ Goto(h, "read")
  /\ UNCHANGED <<up, writer, made>>

\* The client is dropped whoever has connected it since.
DropClient(h) ==
  /\ hd[h].pc = "drop"
  /\ writer[Of(h)] = NoHandler
  /\ cache' = [cache EXCEPT ![Of(h)] = "none"]
  /\ Set(h, [hd[h] EXCEPT !.pc = "read", !.again = TRUE])
  /\ UNCHANGED <<up, writer, made>>

Returns(h) ==
  /\ hd[h].pc = "carried"
  /\ hd[h].client = "live"
  /\ Set(h, Begin([hd[h] EXCEPT !.todo = Tail(@)]))
  /\ UNCHANGED <<up, cache, writer, made>>

\* Mutant of OtherError: every error of the first call has it repeated.
RetryAlways(r) == IF r.again THEN Fail(r) ELSE [r EXCEPT !.pc = "drop", !.client = "none"]

OtherError(r) == Fail(r)

\* The connection of a call that was sent is gone.
Disconnected(h) ==
  /\ hd[h].pc \in {"sent", "carried"}
  /\ hd[h].client = "dead"
  /\ Set(h, OtherError(hd[h]))
  /\ UNCHANGED <<up, cache, writer, made>>

\* The service answers with an error, or not within TTRPC_TIMEOUT; it may carry
\* the call out or not.
Refused(h) ==
  /\ hd[h].pc = "sent"
  /\ hd[h].client = "live"
  /\ Faults \cap {"refused", "timeout"} # {}
  /\ \E n \in IF "timeout" \in Faults THEN {0, 1} ELSE {0} :
       Set(h, OtherError([hd[h] EXCEPT !.carried = @ + n, !.hurt = TRUE]))
  /\ UNCHANGED <<up, cache, writer, made>>

-----------------------------------------------------------------------------
(* The environment *)

CarryOut(h) ==
  /\ hd[h].pc = "sent"
  /\ hd[h].client = "live"
  /\ Set(h, [hd[h] EXCEPT !.pc = "carried", !.carried = @ + 1])
  /\ UNCHANGED <<up, cache, writer, made>>

\* A service ends: its connections die with it.
Down(s) ==
  /\ "down" \in Faults
  /\ s \in up
  /\ up' = up \ {s}
  /\ cache' = [cache EXCEPT ![s] = IF @ = "live" THEN "dead" ELSE @]
  /\ hd' = [h \in Handlers |->
       LET r == hd[h] IN
       IF r.pc \in {"idle", "done"} \/ s \notin Service(r) THEN r
       ELSE [r EXCEPT !.hurt = TRUE,
                      !.client = IF s = Of(h) /\ @ = "live" THEN "dead" ELSE @]]
  /\ UNCHANGED <<writer, made>>

Up(s) ==
  /\ s \notin up
  /\ up' = up \cup {s}
  /\ UNCHANGED <<cache, writer, hd, made>>

\* The HTTP client goes away: the handler is dropped where it waits, and a lock
\* it holds is released.
Gone(h) ==
  /\ "gone" \in Faults
  /\ hd[h].pc \in {"read", "write", "connect", "sent", "carried", "drop"}
  /\ writer' = [s \in Services |-> IF writer[s] = h THEN NoHandler ELSE writer[s]]
  /\ Set(h, NoRequest)
  /\ UNCHANGED <<up, cache, made>>

Lock(h) == ReadClient(h) \/ WriteClient(h) \/ DropClient(h)
Step(h) == \/ Connect(h) \/ Send(h) \/ LocalClosed(h) \/ Returns(h) \/ Disconnected(h)
           \/ CarryOut(h) \/ Refused(h) \/ Answer(h)

Next == \/ \E s \in Services : Down(s) \/ Up(s)
        \/ \E h \in Handlers : \/ \E q \in Requests : Route(h, q)
                               \/ Lock(h) \/ Step(h) \/ Gone(h)

Spec == Init /\ [][Next]_vars

\* A connection is made or refused, a call is answered or timed out, and tokio's
\* RwLock is granted in the order of the requests.
FairSpec == Spec /\ \A h \in Handlers : WF_vars(Step(h)) /\ SF_vars(Lock(h))

-----------------------------------------------------------------------------
(* Properties *)

Busy     == Points \ {"idle", "done"}
Statuses == {"none", "200", "400", "403", "404", "405", "500", "closed"}
Handler  == [pc : Points, q : Requests \cup {<<>>}, todo : Seq(Services), client : Clients,
             again : BOOLEAN, carried : Nat, hurt : BOOLEAN, status : Statuses]

\* Every variable has its type, and a handler at work has a call to make.
TypeOK ==
  /\ up \subseteq Services
  /\ cache \in [Services -> Clients]
  /\ writer \in [Services -> Handlers \cup {NoHandler}]
  /\ hd \in [Handlers -> Handler]
  /\ \A h \in Handlers : hd[h].pc \in Busy => hd[h].todo # <<>>
  /\ made \in 0 .. MaxRequests

\* A call is carried out once at most, although it may be made twice: extending
\* the event log twice for one request would measure what did not happen.
CarriedOutOnce == \A h \in Handlers : hd[h].carried <= 1

\* A request that meets no fault succeeds, whatever the services and the requests
\* before it, or next to it, have left in the cached clients.
NoNeedlessFailure == \A h \in Handlers :
  hd[h].status \in {"500", "closed"} => hd[h].hurt \/ Refusals(hd[h].q) # {}

\* Every request is answered.
RequestsEnd == \A h \in Handlers : hd[h].pc # "idle" ~> hd[h].pc = "idle"
=============================================================================

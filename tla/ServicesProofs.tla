--------------------------- MODULE ServicesProofs ---------------------------
(***************************************************************************)
(* Proofs about RestClient, for any number of handlers and requests, and   *)
(* about HubPull, for any number of pulls and credentials.                 *)
(***************************************************************************)
EXTENDS RestClient, HubPull, TLAPS

-----------------------------------------------------------------------------
(* The inductive invariant, one handler at a time.  A call is counted when *)
(* the service carries it out, which no handler waits for twice.  And what *)
(* a handler that met no fault holds in its hands is alive, but for what   *)
(* others have left in the cache, which it drops at most once.             *)

Carried(r) ==
  /\ r.carried <= 1
  /\ r.pc \in Busy \ {"carried"} => r.carried = 0

Unhurt(r, c, u) == r.pc \in Busy /\ ~r.hurt =>
  /\ Service(r) \subseteq u
  /\ r.client = "dead" => r.pc = "call" /\ ~r.again
  /\ r.again => c[Head(r.todo)] # "dead"

Excused(r) == r.status \in {"500", "closed"} => r.hurt \/ Refusals(r.q) # {}

Sound(r, c, u) ==
  /\ r.pc \in Busy => r.todo # <<>>
  /\ Carried(r)
  /\ Unhurt(r, c, u)
  /\ Excused(r)

Typed ==
  /\ up \subseteq Services
  /\ cache \in [Services -> Clients]
  /\ writer \in [Services -> Handlers \cup {NoHandler}]
  /\ hd \in [Handlers -> Handler]
  /\ made \in 0 .. MaxRequests

IInv == Typed /\ \A h \in Handlers : Sound(hd[h], cache, up)

-----------------------------------------------------------------------------
(* Records of handlers. *)

LEMMA HeadOfTodo == ASSUME NEW r \in Handler, r.todo # <<>>
                    PROVE  Head(r.todo) \in Services /\ Head(r.todo) \in Service(r)
  BY DEF Handler, Service

LEMMA TailOfTodo == ASSUME NEW r \in Handler, r.todo # <<>>
  PROVE  /\ [r EXCEPT !.todo = Tail(@)] \in Handler
         /\ Service([r EXCEPT !.todo = Tail(@)]) \subseteq Service(r)
<1>1. [r EXCEPT !.todo = Tail(@)] \in Handler
  BY DEF Handler
<1>2. Tail(r.todo) \in Seq(Services) /\ Len(Tail(r.todo)) = Len(r.todo) - 1
      /\ \A i \in 1 .. Len(r.todo) - 1 : Tail(r.todo)[i] = r.todo[i + 1]
  BY DEF Handler
<1>3. ASSUME NEW i \in DOMAIN Tail(r.todo) PROVE Tail(r.todo)[i] \in Service(r)
  <2>1. i \in 1 .. Len(r.todo) - 1 /\ i + 1 \in DOMAIN r.todo
    BY <1>2 DEF Handler
  <2> QED BY <1>2, <2>1 DEF Service
<1>4. [r EXCEPT !.todo = Tail(@)].todo = Tail(r.todo)
  BY DEF Handler
<1> QED BY <1>1, <1>3, <1>4 DEF Service

LEMMA FailedRecord == ASSUME NEW r \in Handler PROVE
  /\ Fail(r) \in Handler
  /\ Fail(r).pc = "done" /\ Fail(r).carried = r.carried /\ Fail(r).hurt = r.hurt
<1> DEFINE st == IF r.q.route = "info" THEN "closed" ELSE "500"
<1>1. st \in Statuses /\ <<>> \in Seq(Services) /\ "done" \in Points /\ "none" \in Clients
  BY DEF Statuses, Points, Clients
<1>2. Fail(r) = [r EXCEPT !.pc = "done", !.todo = <<>>, !.client = "none", !.status = st]
  BY DEF Fail
<1> HIDE DEF st
<1> QED BY <1>1, <1>2 DEF Handler

\* To fail is excused for whoever met a fault.
LEMMA FailureIsSound == ASSUME NEW r \in Handler, NEW c, NEW u, r.carried <= 1, r.hurt
                        PROVE  Fail(r) \in Handler /\ Sound(Fail(r), c, u)
  BY FailedRecord DEF Sound, Carried, Unhurt, Excused, Busy

\* The next call of a handler begins, or its answer.
LEMMA BeginIsSound ==
  ASSUME NEW r \in Handler, NEW c, NEW u, r.carried <= 1, Excused(r),
         ~r.hurt => Service(r) \subseteq u
  PROVE  Begin(r) \in Handler /\ Sound(Begin(r), c, u)
<1>1. CASE r.todo = <<>>
  <2>1. Begin(r) = [r EXCEPT !.pc = "done", !.client = "none", !.status = "200"]
    BY <1>1 DEF Begin
  <2>2. Begin(r) \in Handler
    BY <2>1 DEF Handler, Points, Clients, Statuses
  <2>3. Begin(r).pc = "done" /\ Begin(r).carried = r.carried /\ Begin(r).status = "200"
    BY <2>1 DEF Handler
  <2> QED BY <2>2, <2>3 DEF Sound, Carried, Unhurt, Excused, Busy
<1>2. CASE r.todo # <<>>
  <2>1. Begin(r) = [r EXCEPT !.pc = "read", !.client = "none", !.again = FALSE, !.carried = 0]
    BY <1>2 DEF Begin
  <2>2. Begin(r) \in Handler
    <3>1. "read" \in Points /\ "none" \in Clients /\ FALSE \in BOOLEAN /\ 0 \in Nat
      BY DEF Points, Clients
    <3> QED BY <2>1, <3>1 DEF Handler
  <2>3. /\ Begin(r).pc = "read" /\ Begin(r).carried = 0 /\ Begin(r).client = "none"
        /\ Begin(r).again = FALSE /\ Begin(r).todo = r.todo /\ Begin(r).hurt = r.hurt
        /\ Begin(r).q = r.q /\ Begin(r).status = r.status
    BY <2>1 DEF Handler
  <2> QED BY <1>2, <2>2, <2>3 DEF Sound, Carried, Unhurt, Excused, Busy, Service
<1> QED BY <1>1, <1>2

\* A step of one handler, when no cached client dies and no service ends.
LEMMA OneHandler ==
  ASSUME IInv, NEW h \in Handlers, NEW r \in Handler, Set(h, r),
         Sound(r, cache', up'), up \subseteq up', up' \subseteq Services,
         cache' \in [Services -> Clients], writer' \in [Services -> Handlers \cup {NoHandler}],
         \A s \in Services : cache'[s] = "dead" => cache[s] = "dead",
         made' \in 0 .. MaxRequests
  PROVE  IInv'
<1>1. hd' \in [Handlers -> Handler] /\ hd'[h] = r
      /\ \A x \in Handlers : x # h => hd'[x] = hd[x]
  BY DEF IInv, Typed, Set
<1>2. ASSUME NEW x \in Handlers PROVE Sound(hd'[x], cache', up')
  <2>1. CASE x = h
    BY <1>1, <2>1
  <2>2. CASE x # h
    <3>1. hd[x] \in Handler /\ hd'[x] = hd[x] /\ Sound(hd[x], cache, up)
      BY <1>1, <2>2 DEF IInv, Typed
    <3>2. hd[x].pc \in Busy => Head(hd[x].todo) \in Services
      BY <3>1, HeadOfTodo DEF Sound
    <3>3. Unhurt(hd[x], cache', up')
      BY <3>1, <3>2 DEF Sound, Unhurt
    <3> QED BY <3>1, <3>3 DEF Sound
  <2> QED BY <2>1, <2>2
<1> QED BY <1>1, <1>2 DEF IInv, Typed

-----------------------------------------------------------------------------
(* The steps of a handler. *)

LEMMA CallsAreServices == ASSUME NEW q PROVE Calls(q) \in Seq(Services)
<1>1. ASSUME NEW s \in Services PROVE <<s>> \in Seq(Services) /\ <<s, s>> \in Seq(Services)
  BY <1>1
<1>2. ServiceOf(q) \in Services /\ "aa" \in Services
  BY DEF ServiceOf, Services
<1>3. <<>> \in Seq(Services)
  OBVIOUS
<1> QED BY <1>1, <1>2, <1>3 DEF Calls

LEMMA IdleIsSound == NoRequest \in Handler /\ \A c, u : Sound(NoRequest, c, u)
  BY DEF NoRequest, Handler, Points, Clients, Statuses, Sound, Carried, Unhurt, Excused, Busy

LEMMA RouteStep == ASSUME IInv, NEW h \in Handlers, NEW q \in Requests, Route(h, q)
                   PROVE  IInv'
<1> DEFINE r == [NoRequest EXCEPT !.q = q, !.todo = Calls(q)]
           hurt == Service(r) \ up # {}
           b == [r EXCEPT !.hurt = hurt]
           s == CHOOSE s \in Refusals(q) : TRUE
           d == [r EXCEPT !.pc = "done", !.todo = <<>>, !.status = s]
<1>1. Calls(q) \in Seq(Services) /\ <<>> \in Seq(Services) /\ hurt \in BOOLEAN
      /\ "done" \in Points
  BY CallsAreServices DEF Points
<1>2. NoRequest \in Handler /\ NoRequest.carried = 0 /\ NoRequest.status = "none"
  BY IdleIsSound DEF NoRequest
<1>3. r \in Handler /\ r.q = q /\ r.carried = 0 /\ r.status = "none"
  BY <1>1, <1>2 DEF Handler
<1>4. made' \in 0 .. MaxRequests /\ cache' = cache /\ up' = up /\ writer' = writer
  BY RestAssumption DEF Route, IInv, Typed
<1>5. CASE Refusals(q) = {}
  <2>1. Set(h, Begin(b))
    BY <1>5 DEF Route
  <2> HIDE DEF r
  <2>2. b \in Handler /\ b.carried = 0 /\ b.todo = r.todo /\ b.status = "none" /\ b.hurt = hurt
    <3> HIDE DEF hurt
    <3> QED BY <1>1, <1>3 DEF Handler
  <2>3. Service(b) = Service(r)
    BY <2>2 DEF Service
  <2>4. ~b.hurt => Service(b) \subseteq up
    BY <2>2, <2>3
  <2> HIDE DEF b
  <2>5. Begin(b) \in Handler /\ Sound(Begin(b), cache, up)
    BY <2>2, <2>4, BeginIsSound DEF Excused
  <2> QED BY <1>4, <2>1, <2>5, OneHandler DEF IInv, Typed
<1>6. CASE Refusals(q) # {}
  <2>1. Set(h, d)
    BY <1>6 DEF Route
  <2>2. s \in Refusals(q) /\ s \in Statuses
    BY <1>6 DEF Refusals, Statuses
  <2> HIDE DEF r, s
  <2>3. d \in Handler /\ d.pc = "done" /\ d.carried = 0 /\ d.q = q
    BY <1>1, <1>3, <2>2 DEF Handler
  <2> HIDE DEF d
  <2>4. Sound(d, cache, up)
    BY <1>6, <2>3 DEF Sound, Carried, Unhurt, Excused, Busy
  <2> QED BY <1>4, <2>1, <2>3, <2>4, OneHandler DEF IInv, Typed
<1> QED BY <1>5, <1>6

LEMMA AnswerStep == ASSUME IInv, NEW h \in Handlers, Answer(h) \/ Gone(h)
                    PROVE  IInv'
<1>1. CASE Answer(h)
  BY <1>1, IdleIsSound, OneHandler DEF Answer, IInv, Typed
<1>2. CASE Gone(h)
  <2>1. writer' \in [Services -> Handlers \cup {NoHandler}]
    BY <1>2 DEF Gone, IInv, Typed
  <2> QED BY <1>2, <2>1, IdleIsSound, OneHandler DEF Gone, IInv, Typed
<1> QED BY <1>1, <1>2

\* Of a handler at work, and of what it changes in its record.
LEMMA AtWork == ASSUME IInv, NEW h \in Handlers, hd[h].pc \in Busy
  PROVE /\ hd[h] \in Handler /\ Sound(hd[h], cache, up)
        /\ hd[h].todo # <<>> /\ Of(h) \in Services /\ Of(h) \in Service(hd[h])
        /\ ~hd[h].hurt => Of(h) \in up
<1>1. hd[h] \in Handler /\ Sound(hd[h], cache, up) /\ hd[h].todo # <<>>
  BY DEF IInv, Typed, Sound
<1>2. Of(h) \in Services /\ Of(h) \in Service(hd[h])
  BY <1>1, HeadOfTodo DEF Of
<1> QED BY <1>1, <1>2 DEF Sound, Unhurt

Same(n, r) == n.todo = r.todo /\ n.hurt = r.hurt /\ n.q = r.q /\ n.status = r.status

\* What a step of a call may change in the record of its handler.
LEMMA MoveIsSound ==
  ASSUME NEW r \in Handler, NEW n \in Handler, NEW c, NEW d, NEW u,
         Sound(r, c, u), r.pc \in Busy, n.pc \in Busy, Same(n, r), Carried(n),
         ~r.hurt => /\ n.client = "dead" => n.pc = "call" /\ ~n.again
                    /\ n.again => d[Head(r.todo)] # "dead"
  PROVE  Sound(n, d, u)
<1>1. Service(n) = Service(r)
  BY DEF Same, Service
<1> QED BY <1>1 DEF Same, Sound, Unhurt, Excused

LEMMA LockStep == ASSUME IInv, NEW h \in Handlers, Lock(h) PROVE IInv'
<1> DEFINE k == Of(h)
           r == hd[h]
<1>1. r.pc \in {"read", "write", "drop"} /\ r.pc \in Busy
  BY DEF Lock, ReadClient, WriteClient, DropClient, Busy, Points
<1>2. r \in Handler /\ Sound(r, cache, up) /\ r.todo # <<>> /\ k \in Services
      /\ k = Head(r.todo) /\ r.carried = 0
  BY <1>1, AtWork DEF Of, Sound, Carried
<1>3. /\ cache' \in [Services -> Clients] /\ writer' \in [Services -> Handlers \cup {NoHandler}]
      /\ \A s \in Services : cache'[s] = "dead" => cache[s] = "dead"
      /\ up' = up /\ made' = made
  BY <1>2 DEF Lock, ReadClient, WriteClient, DropClient, IInv, Typed, Clients
<1>4. ~r.hurt => r.client # "dead" /\ (r.again => cache[k] # "dead")
  BY <1>1, <1>2 DEF Sound, Unhurt
<1>5. ASSUME NEW n \in Handler, Set(h, n), n.pc \in {"call", "read", "write", "connect"},
             Same(n, r), n.carried = 0,
             ~r.hurt => /\ n.client = "dead" => n.pc = "call" /\ ~n.again
                        /\ n.again => cache'[k] # "dead"
      PROVE  IInv'
  <2>1. n.pc \in Busy /\ Carried(n)
    BY <1>5 DEF Busy, Points, Carried
  <2>2. Sound(n, cache', up')
    BY <1>1, <1>2, <1>3, <1>5, <2>1, MoveIsSound
  <2> QED BY <1>3, <1>5, <2>2, OneHandler DEF IInv, Typed
<1>6. CASE Set(h, Clone(h)) /\ cache' = cache /\ cache[k] # "none"
  <2>1. "call" \in Points /\ cache[k] \in Clients
    BY <1>2 DEF Points, IInv, Typed
  <2>2. /\ Clone(h) \in Handler /\ Clone(h).pc = "call" /\ Clone(h).carried = 0
        /\ Clone(h).client = cache[k] /\ Clone(h).again = r.again /\ Same(Clone(h), r)
    BY <1>2, <2>1 DEF Clone, Handler, Same
  <2> QED BY <1>4, <1>5, <1>6, <2>2
<1>7. CASE (Goto(h, "write") \/ Goto(h, "connect")) /\ cache' = cache
  <2>1. PICK pc \in {"write", "connect"} : Set(h, [r EXCEPT !.pc = pc])
    BY <1>7 DEF Goto
  <2> DEFINE n == [r EXCEPT !.pc = pc]
  <2>2. pc \in Points
    BY DEF Points
  <2>3. n \in Handler /\ n.pc = pc /\ n.client = r.client /\ n.again = r.again
        /\ n.carried = 0 /\ Same(n, r)
    BY <1>2, <2>2 DEF Handler, Same
  <2> HIDE DEF n
  <2> QED BY <1>4, <1>5, <1>7, <2>1, <2>3 DEF n
<1>8. CASE DropClient(h)
  <2> DEFINE n == [r EXCEPT !.pc = "read", !.again = TRUE]
  <2>1. Set(h, n) /\ cache'[k] # "dead"
    BY <1>2, <1>8 DEF DropClient, IInv, Typed
  <2>2. "read" \in Points /\ TRUE \in BOOLEAN
    BY DEF Points
  <2>3. n \in Handler /\ n.pc = "read" /\ n.client = r.client
        /\ n.carried = 0 /\ Same(n, r)
    BY <1>2, <2>2 DEF Handler, Same
  <2> HIDE DEF n
  <2> QED BY <1>4, <1>5, <2>1, <2>3
<1> QED BY <1>6, <1>7, <1>8 DEF Lock, ReadClient, WriteClient

\* The frame of the steps that follow: caches only come to life.
Frame ==
  /\ cache' \in [Services -> Clients] /\ writer' \in [Services -> Handlers \cup {NoHandler}]
  /\ \A s \in Services : cache'[s] = "dead" => cache[s] = "dead"
  /\ up' = up /\ made' = made

LEMMA Moves ==
  ASSUME IInv, NEW h \in Handlers, hd[h].pc \in Busy, Frame, NEW n \in Handler, Set(h, n),
         n.pc \in Busy, Same(n, hd[h]), Carried(n),
         ~hd[h].hurt => /\ n.client = "dead" => n.pc = "call" /\ ~n.again
                        /\ n.again => cache'[Of(h)] # "dead"
  PROVE  IInv'
<1>1. hd[h] \in Handler /\ Sound(hd[h], cache, up)
  BY AtWork
<1>2. Sound(n, cache', up')
  BY <1>1, MoveIsSound DEF Frame, Of
<1> QED BY <1>2, OneHandler DEF Frame, IInv, Typed

LEMMA Fails ==
  ASSUME IInv, NEW h \in Handlers, Frame, NEW r \in Handler, r.carried <= 1, r.hurt,
         Set(h, Fail(r))
  PROVE  IInv'
<1>1. Fail(r) \in Handler /\ Sound(Fail(r), cache', up')
  BY FailureIsSound
<1> QED BY <1>1, OneHandler DEF Frame, IInv, Typed

LEMMA ConnectStep == ASSUME IInv, NEW h \in Handlers, Connect(h) PROVE IInv'
<1> DEFINE r == hd[h]
           n == [r EXCEPT !.pc = "call", !.client = "live"]
<1>1. r.pc = "connect" /\ r.pc \in Busy
  BY DEF Connect, Busy, Points
<1>2. r \in Handler /\ Sound(r, cache, up) /\ Of(h) \in Services /\ r.carried = 0
      /\ (~r.hurt => Of(h) \in up)
  BY <1>1, AtWork DEF Sound, Carried
<1>3. Frame
  BY <1>2 DEF Frame, Connect, IInv, Typed, Clients
<1>4. CASE Of(h) \in up
  <2>1. Set(h, n) /\ cache'[Of(h)] # "dead"
    BY <1>2, <1>4 DEF Connect, IInv, Typed
  <2>2. "call" \in Points /\ "call" \in Busy /\ "live" \in Clients
    BY DEF Points, Busy, Clients
  <2>3. n \in Handler /\ n.pc = "call" /\ n.client = "live" /\ n.carried = 0 /\ Same(n, r)
    BY <1>2, <2>2 DEF Handler, Same
  <2> HIDE DEF n
  <2> QED BY <1>1, <1>3, <2>1, <2>2, <2>3, Moves DEF Carried
<1>5. CASE Of(h) \notin up
  BY <1>2, <1>3, <1>5, Fails DEF Connect
<1> QED BY <1>4, <1>5

LEMMA SendStep == ASSUME IInv, NEW h \in Handlers, Send(h) \/ CarryOut(h) PROVE IInv'
<1> DEFINE r == hd[h]
<1>1. r.pc \in {"call", "sent"} /\ r.pc \in Busy /\ r.client = "live" /\ Frame
  BY DEF Send, CarryOut, Busy, Points, Frame, IInv, Typed
<1>2. r \in Handler /\ Sound(r, cache, up) /\ r.carried = 0
  BY <1>1, AtWork DEF Sound, Carried, Busy
<1>3. ~r.hurt => (r.again => cache'[Of(h)] # "dead")
  BY <1>1, <1>2 DEF Sound, Unhurt, Of, Send, CarryOut
<1>4. "sent" \in Points /\ "carried" \in Points /\ "sent" \in Busy /\ "carried" \in Busy
  BY DEF Busy, Points
<1>5. CASE Send(h)
  <2> DEFINE n == [r EXCEPT !.pc = "sent"]
  <2>1. Set(h, n)
    BY <1>5 DEF Send, Goto
  <2>2. n \in Handler /\ n.pc = "sent" /\ n.client = "live" /\ n.carried = 0
        /\ n.again = r.again /\ Same(n, r)
    BY <1>1, <1>2, <1>4 DEF Handler, Same
  <2> HIDE DEF n
  <2> QED BY <1>1, <1>3, <1>4, <2>1, <2>2, Moves DEF Carried
<1>6. CASE CarryOut(h)
  <2> DEFINE n == [r EXCEPT !.pc = "carried", !.carried = 1]
  <2>1. Set(h, n)
    BY <1>2, <1>6 DEF CarryOut
  <2>2. n \in Handler /\ n.pc = "carried" /\ n.client = "live" /\ n.carried = 1
        /\ n.again = r.again /\ Same(n, r)
    BY <1>1, <1>2, <1>4 DEF Handler, Same
  <2> HIDE DEF n
  <2> QED BY <1>1, <1>3, <1>4, <2>1, <2>2, Moves DEF Carried
<1> QED BY <1>5, <1>6

LEMMA LocalClosedStep == ASSUME IInv, NEW h \in Handlers, LocalClosed(h) PROVE IInv'
<1> DEFINE r == hd[h]
           n == [r EXCEPT !.pc = "drop", !.client = "none"]
<1>1. r.pc = "call" /\ r.pc \in Busy /\ r.client = "dead" /\ Frame
  BY DEF LocalClosed, Busy, Points, Frame, IInv, Typed
<1>2. r \in Handler /\ Sound(r, cache, up) /\ r.carried = 0
  BY <1>1, AtWork DEF Sound, Carried
<1>3. ~r.hurt => ~r.again
  BY <1>1, <1>2 DEF Sound, Unhurt
<1>4. CASE r.again
  BY <1>1, <1>2, <1>3, <1>4, Fails DEF LocalClosed
<1>5. CASE ~r.again
  <2>1. Set(h, n)
    BY <1>5 DEF LocalClosed
  <2>2. "drop" \in Points /\ "drop" \in Busy /\ "none" \in Clients
    BY DEF Points, Busy, Clients
  <2>3. n \in Handler /\ n.pc = "drop" /\ n.client = "none" /\ n.carried = 0
        /\ n.again = r.again /\ Same(n, r)
    BY <1>2, <2>2 DEF Handler, Same
  <2> HIDE DEF n
  <2> QED BY <1>1, <1>5, <2>1, <2>2, <2>3, Moves DEF Carried
<1> QED BY <1>4, <1>5

LEMMA ErrorStep == ASSUME IInv, NEW h \in Handlers, Disconnected(h) \/ Refused(h) PROVE IInv'
<1> DEFINE r == hd[h]
<1>1. r.pc \in {"sent", "carried"} /\ r.pc \in Busy /\ Frame
  BY DEF Disconnected, Refused, Busy, Points, Frame, IInv, Typed
<1>2. r \in Handler /\ Sound(r, cache, up) /\ r.carried <= 1
  BY <1>1, AtWork DEF Sound, Carried
<1>3. CASE Disconnected(h)
  <2>1. r.hurt
    BY <1>1, <1>2, <1>3 DEF Disconnected, Sound, Unhurt, Handler
  <2> QED BY <1>1, <1>2, <1>3, <2>1, Fails DEF Disconnected, OtherError
<1>4. CASE Refused(h)
  <2>1. r.carried = 0
    BY <1>2, <1>4 DEF Refused, Sound, Carried, Busy, Points
  <2>2. PICK i \in {0, 1} : Set(h, Fail([r EXCEPT !.carried = r.carried + i, !.hurt = TRUE]))
    BY <1>2, <1>4 DEF Refused, OtherError, Handler
  <2>3. r.carried + i = i
    BY <2>1
  <2> DEFINE n == [r EXCEPT !.carried = i, !.hurt = TRUE]
  <2>4. Set(h, Fail(n))
    BY <2>2, <2>3
  <2>5. n \in Handler /\ n.hurt = TRUE /\ n.carried = i /\ i <= 1
    <3>1. i \in Nat /\ i <= 1 /\ TRUE \in BOOLEAN
      OBVIOUS
    <3> QED BY <1>2, <3>1 DEF Handler
  <2> HIDE DEF n
  <2> QED BY <1>1, <2>4, <2>5, Fails
<1> QED BY <1>3, <1>4

LEMMA ReturnsStep == ASSUME IInv, NEW h \in Handlers, Returns(h) PROVE IInv'
<1> DEFINE r == hd[h]
           n == [r EXCEPT !.todo = Tail(@)]
<1>1. r.pc \in Busy /\ Frame /\ Set(h, Begin(n))
  BY DEF Returns, Busy, Points, Frame, IInv, Typed
<1>2. r \in Handler /\ Sound(r, cache, up) /\ r.todo # <<>>
  BY <1>1, AtWork
<1>3. n \in Handler /\ Service(n) \subseteq Service(r)
  BY <1>2, TailOfTodo
<1>4. n.carried = r.carried /\ n.hurt = r.hurt /\ n.q = r.q /\ n.status = r.status
  BY <1>2 DEF Handler
<1> HIDE DEF n
<1>5. n.carried <= 1 /\ Excused(n) /\ (~n.hurt => Service(n) \subseteq up')
  BY <1>1, <1>2, <1>3, <1>4 DEF Frame, Sound, Carried, Excused, Unhurt
<1>6. Begin(n) \in Handler /\ Sound(Begin(n), cache', up')
  BY <1>3, <1>5, BeginIsSound
<1> QED BY <1>1, <1>6, OneHandler DEF Frame, IInv, Typed

-----------------------------------------------------------------------------
(* The steps of the services. *)

LEMMA DownStep == ASSUME IInv, NEW s \in Services, Down(s) PROVE IInv'
<1>1. /\ up' \subseteq Services /\ cache' \in [Services -> Clients]
      /\ cache' = [cache EXCEPT ![s] = IF @ = "live" THEN "dead" ELSE @]
      /\ writer' = writer /\ made' = made /\ up' = up \ {s}
  BY DEF Down, IInv, Typed, Clients
<1>2. ASSUME NEW h \in Handlers PROVE hd'[h] \in Handler /\ Sound(hd'[h], cache', up')
  <2> DEFINE r == hd[h]
             cl == IF s = Of(h) /\ r.client = "live" THEN "dead" ELSE r.client
             n == [r EXCEPT !.hurt = TRUE, !.client = cl]
  <2>1. r \in Handler /\ Sound(r, cache, up) /\ (r.pc \in Busy => Of(h) \in Service(r) /\ Of(h) \in Services)
    BY AtWork DEF IInv, Typed
  <2>2. CASE r.pc \in Busy /\ s \in Service(r)
    <3>1. hd'[h] = n
      BY <2>2 DEF Down, Busy
    <3>2. cl \in Clients
      BY <2>1 DEF Handler, Clients
    <3> HIDE DEF cl
    <3>3. n \in Handler /\ n.hurt /\ n.pc = r.pc /\ n.carried = r.carried /\ n.todo = r.todo
      BY <2>1, <3>2 DEF Handler
    <3> HIDE DEF n
    <3> QED BY <2>1, <3>1, <3>3 DEF Sound, Carried, Unhurt, Excused
  <2>3. CASE r.pc \notin Busy \/ s \notin Service(r)
    <3>1. hd'[h] = r
      BY <2>1, <2>3 DEF Down, Busy, Handler
    <3>2. r.pc \in Busy => Of(h) # s /\ cache'[Of(h)] = cache[Of(h)]
      BY <1>1, <2>1, <2>3 DEF IInv, Typed
    <3>3. Unhurt(r, cache', up')
      BY <1>1, <2>1, <2>3, <3>2 DEF Sound, Unhurt, Of
    <3> QED BY <2>1, <3>1, <3>3 DEF Sound
  <2> QED BY <2>2, <2>3
<1>3. hd' \in [Handlers -> Handler]
  BY <1>2 DEF Down
<1> QED BY <1>1, <1>2, <1>3 DEF IInv, Typed

LEMMA UpStep == ASSUME IInv, NEW s \in Services, Up(s) PROVE IInv'
<1>1. up \subseteq up' /\ up' \subseteq Services
  BY DEF Up, IInv, Typed
<1>2. ASSUME NEW h \in Handlers PROVE Sound(hd[h], cache, up')
  BY <1>1 DEF IInv, Sound, Unhurt
<1> QED BY <1>1, <1>2 DEF Up, IInv, Typed

-----------------------------------------------------------------------------
\* The invariant holds in every state: the theorems below read it off.
THEOREM Invariance == Spec => []IInv
<1>1. Init => IInv
  <2> SUFFICES ASSUME Init PROVE IInv
    OBVIOUS
  <2>1. hd \in [Handlers -> Handler] /\ \A h \in Handlers : Sound(hd[h], cache, up)
    BY IdleIsSound DEF Init
  <2>2. cache \in [Services -> Clients] /\ writer \in [Services -> Handlers \cup {NoHandler}]
    BY DEF Init, Clients
  <2>3. up \subseteq Services /\ made \in 0 .. MaxRequests
    BY RestAssumption DEF Init
  <2> QED BY <2>1, <2>2, <2>3 DEF IInv, Typed
<1>2. IInv /\ [Next]_vars => IInv'
  <2> SUFFICES ASSUME IInv, [Next]_vars PROVE IInv'
    OBVIOUS
  <2>1. CASE \E s \in Services : Down(s) \/ Up(s)
    BY <2>1, DownStep, UpStep
  <2>2. ASSUME NEW h \in Handlers, NEW q \in Requests, Route(h, q) PROVE IInv'
    BY <2>2, RouteStep
  <2>3. ASSUME NEW h \in Handlers, Step(h) PROVE IInv'
    BY <2>3, ConnectStep, SendStep, LocalClosedStep, ReturnsStep, ErrorStep, AnswerStep DEF Step
  <2>4. ASSUME NEW h \in Handlers, Lock(h) \/ Gone(h) PROVE IInv'
    BY <2>4, LockStep, AnswerStep
  <2>5. CASE UNCHANGED vars
    BY <2>5 DEF vars, IInv, Typed, Sound, Unhurt
  <2> QED BY <2>1, <2>2, <2>3, <2>4, <2>5 DEF Next
<1> QED BY <1>1, <1>2, PTL DEF Spec

\* Every variable has its type, and a handler at work has a call to make.
THEOREM TypeCorrect == Spec => []TypeOK
<1>1. IInv => TypeOK
  BY DEF IInv, Typed, Sound, TypeOK
<1> QED BY <1>1, Invariance, PTL

\* However many handlers share the cached clients and whichever fault meets them,
\* no call of an agent or a hub is carried out twice (call_with_retry).
THEOREM CallsAreMadeOnce == Spec => []CarriedOutOnce
<1>1. IInv => CarriedOutOnce
  BY DEF IInv, Sound, Carried, CarriedOutOnce
<1> QED BY <1>1, Invariance, PTL

\* A request that meets no fault is served, whatever others have left in the cache.
THEOREM FaultlessAreServed == Spec => []NoNeedlessFailure
<1>1. IInv => NoNeedlessFailure
  BY DEF IInv, Sound, Excused, NoNeedlessFailure
<1> QED BY <1>1, Invariance, PTL

-----------------------------------------------------------------------------
(* The inductive invariant: what a pull was measured follows from where it *)
(* is, and what the agent is still at belongs to a pull that was given up. *)

\* r: a pull; l: the agent is still at its extension; a: the hub's cell for the
\* agent; m: what the agent answers.
Early  == {"client", "lock", "pull"}
Asking == {"agent", "extend", "sent"}
Account(r, l, a, m) ==
  /\ r.pc \in Early => ~r.pulled /\ r.measured = 0
  /\ r.pc \in Asking => r.pulled /\ r.measured = 0
  /\ r.pc = "answered" => r.pulled /\ r.measured = IF m = "ok" THEN 1 ELSE 0
  /\ r.pc \in {"extend", "sent", "answered"} => a \in {"live", "dead"}
  /\ r.pc # "done" => r.result = "none"
  /\ r.result = "ok" => r.pulled /\ a # "unset" /\ (m = "ok" /\ a # "none" => r.measured = 1)
  /\ l => r.pc \in {"idle", "done"} /\ r.pulled /\ r.measured = 0 /\ r.result # "ok"
  /\ r.measured <= IF r.pulled THEN 1 ELSE 0

Accounts == \A p \in Pulls : Account(pl[p], p \in late, agent, mode)

\* What has been fetched in this start is there.
Keys == phase \in {"keys", "serving"} => \A c \in Credentials \ todo : files[c] = "fresh"
AllKeys == phase = "serving" => todo = {}

HubInv == HubTypeOK /\ Accounts /\ Keys /\ AllKeys

-----------------------------------------------------------------------------
LEMMA NewIsFine == /\ NewPull \in Pull /\ NewPull.pc = "idle"
                   /\ \A a, m : Account(NewPull, FALSE, a, m)
  BY DEF NewPull, Pull, PullPoints, Account, Early, Asking

\* The agent's cell is filled once and its connection dies once.
Ages(a, b) == a = b \/ a = "unset" \/ (a = "live" /\ b = "dead")

\* A step of one pull.
HubFrame(p) ==
  /\ phase' = phase /\ todo' = todo /\ files' = files /\ aa' = aa
  /\ built' \in BOOLEAN /\ lock' \in Pulls \cup {NoPull} /\ late' \subseteq Pulls
  /\ agent' \in Agents /\ Ages(agent, agent') /\ asked' \in 0 .. MaxPulls
  /\ \A q \in Pulls \ {p} : (q \in late' => q \in late) /\ (lock' = q <=> lock = q)

LEMMA OnePull ==
  ASSUME HubInv, NEW p \in Pulls, NEW r \in Pull, SetPull(p, r), HubFrame(p),
         lock' = p <=> r.pc = "pull", Account(r, p \in late', agent', mode)
  PROVE  HubInv'
<1>1. pl' \in [Pulls -> Pull] /\ pl'[p] = r /\ \A q \in Pulls \ {p} : pl'[q] = pl[q]
  BY DEF HubInv, HubTypeOK, SetPull
<1>2. ASSUME NEW q \in Pulls PROVE (lock' = q <=> pl'[q].pc = "pull")
  BY <1>1 DEF HubInv, HubTypeOK, HubFrame
<1>3. ASSUME NEW q \in Pulls PROVE Account(pl'[q], q \in late', agent', mode')
  <2>1. mode' = mode
    BY DEF HubFrame, aa
  <2>2. CASE q = p
    BY <1>1, <2>1, <2>2
  <2>3. CASE q # p
    <3>1. Account(pl[q], q \in late, agent, mode)
      BY DEF HubInv, Accounts
    <3>2. Ages(agent, agent') /\ (q \in late' => q \in late)
      BY <2>3 DEF HubFrame
    <3>3. Account(pl[q], q \in late', agent', mode)
      BY <3>1, <3>2 DEF Account, Ages
    <3> QED BY <1>1, <2>1, <2>3, <3>3
  <2> QED BY <2>2, <2>3
<1>4. agentUp' \in BOOLEAN /\ socket' \in BOOLEAN /\ mode' \in {"ok", "notEnabled"}
      /\ kbc' \in {"cc_kbc", "offline_fs_kbc"}
  BY DEF HubFrame, aa, HubInv, HubTypeOK
<1>5. HubTypeOK'
  BY <1>1, <1>2, <1>4 DEF HubFrame, HubInv, HubTypeOK
<1> QED BY <1>3, <1>5 DEF HubFrame, HubInv, Accounts, Keys, AllKeys

\* What a pull that keeps its place in the Mutex, and what it is accounted for.
Mine(p) == pl[p] \in Pull /\ Account(pl[p], p \in late, agent, mode) /\ agent \in Agents
           /\ (lock = p <=> pl[p].pc = "pull")

LEMMA PullKnown == ASSUME HubInv, NEW p \in Pulls PROVE Mine(p)
  BY DEF HubInv, HubTypeOK, Accounts, Mine

\* A step that leaves the Mutex, the agent's cell and its late work alone.
Quiet(p) == /\ UNCHANGED <<phase, todo, lock, files, aa, late, asked>>
            /\ built' \in BOOLEAN /\ agent' \in Agents /\ Ages(agent, agent')

LEMMA QuietFrame == ASSUME HubInv, NEW p \in Pulls, Quiet(p) PROVE HubFrame(p)
  BY DEF HubInv, HubTypeOK, Quiet, HubFrame

\* Going on without the Mutex, and answering, where the account allows it.
LEMMA GoesOn ==
  ASSUME HubInv, NEW p \in Pulls, NEW pc \in PullPoints \ {"pull"}, PullTo(p, pc), Quiet(p),
         pl[p].pc # "pull",
         \A n : n.pc = pc /\ n.result = pl[p].result /\ n.pulled = pl[p].pulled
                /\ n.measured = pl[p].measured => Account(n, p \in late, agent', mode)
  PROVE  HubInv'
<1> DEFINE n == [pl[p] EXCEPT !.pc = pc]
<1>0. pl[p] \in Pull /\ pc \in PullPoints
  BY PullKnown DEF Mine
<1>1. n \in Pull /\ n.pc = pc /\ n.result = pl[p].result /\ n.pulled = pl[p].pulled
      /\ n.measured = pl[p].measured
  BY <1>0 DEF Pull
<1>2. SetPull(p, n) /\ late' = late /\ lock' = lock
  BY DEF PullTo, Quiet
<1> HIDE DEF n
<1> QED BY <1>1, <1>2, PullKnown, QuietFrame, OnePull DEF Mine

LEMMA Ends ==
  ASSUME HubInv, NEW p \in Pulls, NEW res \in {"ok", "error"}, Finish(p, res), HubFrame(p),
         lock' # p,
         \A n : n.pc = "done" /\ n.result = res /\ n.pulled = pl[p].pulled
                /\ n.measured = pl[p].measured => Account(n, p \in late', agent', mode)
  PROVE  HubInv'
<1> DEFINE n == [pl[p] EXCEPT !.pc = "done", !.result = res]
<1>0. pl[p] \in Pull /\ "done" \in PullPoints /\ res \in {"none", "ok", "error"}
  BY PullKnown DEF Mine, PullPoints
<1>1. n \in Pull /\ n.pc = "done" /\ n.result = res /\ n.pulled = pl[p].pulled
      /\ n.measured = pl[p].measured
  BY <1>0 DEF Pull
<1>2. SetPull(p, n)
  BY DEF Finish
<1> HIDE DEF n
<1> QED BY <1>1, <1>2, OnePull

-----------------------------------------------------------------------------
(* The steps of a pull. *)

LEMMA RequestStep == ASSUME HubInv, NEW p \in Pulls, Request(p) PROVE HubInv'
<1> DEFINE n == [NewPull EXCEPT !.pc = "client"]
<1>1. SetPull(p, n) /\ p \notin late /\ pl[p].pc = "idle" /\ late' = late /\ lock' = lock
      /\ agent' = agent
  BY DEF Request, hub
<1>2. "client" \in PullPoints
  BY DEF PullPoints
<1>3. n \in Pull /\ n.pc = "client" /\ n.result = "none" /\ n.pulled = FALSE /\ n.measured = 0
  BY <1>2, NewIsFine DEF NewPull, Pull
<1>4. HubFrame(p)
  BY HubAssumption DEF Request, HubFrame, hub, aa, HubInv, HubTypeOK, Ages
<1> HIDE DEF n
<1>5. Account(n, p \in late', agent', mode)
  BY <1>1, <1>3 DEF Account, Early, Asking
<1> QED BY <1>1, <1>3, <1>4, <1>5, PullKnown, OnePull DEF Mine

LEMMA ClientStep == ASSUME HubInv, NEW p \in Pulls, GetClient(p) \/ BuildFails(p) PROVE HubInv'
<1>1. pl[p].pc = "client" /\ Mine(p) /\ Quiet(p) /\ "lock" \in PullPoints \ {"pull"} /\ agent' = agent
  BY PullKnown DEF GetClient, BuildFails, Quiet, hub, Ages, PullPoints, HubInv, HubTypeOK
<1>2. CASE GetClient(p)
  BY <1>1, <1>2, GoesOn DEF GetClient, Mine, Account, Early, Asking
<1>3. CASE BuildFails(p)
  <2>1. HubFrame(p) /\ lock' # p /\ late' = late
    BY <1>1, QuietFrame DEF Mine, Quiet
  <2> QED BY <1>1, <1>3, <2>1, Ends DEF BuildFails, Mine, Account, Early, Asking
<1> QED BY <1>2, <1>3

LEMMA HubLockStep == ASSUME HubInv, NEW p \in Pulls, LockClient(p) PROVE HubInv'
<1> DEFINE n == [pl[p] EXCEPT !.pc = "pull"]
<1>1. pl[p].pc = "lock" /\ Mine(p) /\ "pull" \in PullPoints /\ lock = NoPull
      /\ agent' = agent /\ late' = late /\ lock' = p
  BY PullKnown DEF LockClient, PullPoints
<1>2. n \in Pull /\ n.pc = "pull" /\ n.result = pl[p].result /\ n.pulled = pl[p].pulled
      /\ n.measured = pl[p].measured
  BY <1>1 DEF Mine, Pull
<1>3. SetPull(p, n)
  BY DEF LockClient, PullTo
<1>4. HubFrame(p)
  BY <1>1, HubAssumption DEF LockClient, HubFrame, aa, Ages, HubInv, HubTypeOK
<1> HIDE DEF n
<1>5. Account(n, p \in late', agent', mode)
  BY <1>1, <1>2 DEF Mine, Account, Early, Asking
<1> QED BY <1>1, <1>2, <1>3, <1>4, <1>5, OnePull

LEMMA PullStep == ASSUME HubInv, NEW p \in Pulls, Pulled(p) \/ PullFails(p) PROVE HubInv'
<1> DEFINE n == [pl[p] EXCEPT !.pc = "agent", !.pulled = TRUE]
<1>1. pl[p].pc = "pull" /\ Mine(p) /\ "agent" \in PullPoints /\ lock = p
      /\ agent' = agent /\ late' = late /\ lock' = NoPull /\ lock' # p
  BY PullKnown, HubAssumption DEF Pulled, PullFails, PullPoints, Mine
<1>2. HubFrame(p)
  BY <1>1, HubAssumption DEF Pulled, PullFails, HubFrame, aa, Ages, HubInv, HubTypeOK
<1>3. CASE Pulled(p)
  <2>1. SetPull(p, n)
    BY <1>3 DEF Pulled
  <2>2. n \in Pull /\ n.pc = "agent" /\ n.result = pl[p].result /\ n.pulled = TRUE
        /\ n.measured = pl[p].measured
    BY <1>1 DEF Mine, Pull
  <2> HIDE DEF n
  <2>3. Account(n, p \in late', agent', mode)
    BY <1>1, <2>2 DEF Mine, Account, Early, Asking
  <2> QED BY <1>1, <1>2, <2>1, <2>2, <2>3, OnePull
<1>4. CASE PullFails(p)
  BY <1>1, <1>2, <1>4, Ends DEF PullFails, Mine, Account, Early, Asking
<1> QED BY <1>3, <1>4

LEMMA AgentStep == ASSUME HubInv, NEW p \in Pulls, NoAgent(p) \/ ConnectAgent(p) \/ HasAgent(p)
                   PROVE  HubInv'
<1>1. pl[p].pc = "agent" /\ Mine(p) /\ Quiet(p) /\ "extend" \in PullPoints \ {"pull"}
      /\ late' = late /\ lock' # p
  BY PullKnown DEF NoAgent, ConnectAgent, HasAgent, Quiet, hub, Ages, Agents, PullPoints, Mine, HubInv, HubTypeOK
<1>2. HubFrame(p)
  BY <1>1, QuietFrame
<1>3. CASE NoAgent(p)
  BY <1>1, <1>2, <1>3, Ends DEF NoAgent, Mine, Account, Early, Asking
<1>4. CASE ConnectAgent(p) /\ agentUp
  <2>1. PullTo(p, "extend") /\ agent' = "live"
    BY <1>4 DEF ConnectAgent
  <2> QED BY <1>1, <2>1, GoesOn DEF Mine, Account, Early, Asking
<1>5. CASE ConnectAgent(p) /\ ~agentUp
  <2>1. Finish(p, "error")
    BY <1>5 DEF ConnectAgent
  <2> QED BY <1>1, <1>2, <2>1, Ends DEF Mine, Account, Early, Asking
<1>6. CASE HasAgent(p)
  <2>1. PullTo(p, "extend") /\ agent' = agent /\ agent \in {"live", "dead"}
    BY <1>6 DEF HasAgent, hub
  <2> QED BY <1>1, <2>1, GoesOn DEF Mine, Account, Early, Asking
<1> QED BY <1>3, <1>4, <1>5, <1>6

LEMMA ExtendStep == ASSUME HubInv, NEW p \in Pulls, Extend(p) \/ Answered(p) PROVE HubInv'
<1>1. pl[p].pc \in {"extend", "answered"} /\ Mine(p) /\ Quiet(p) /\ "sent" \in PullPoints \ {"pull"}
      /\ late' = late /\ lock' # p /\ agent' = agent
  BY PullKnown DEF Extend, Answered, Quiet, hub, Ages, PullPoints, Mine, HubInv, HubTypeOK
<1>2. HubFrame(p)
  BY <1>1, QuietFrame
<1>3. CASE Extend(p) /\ agent = "live"
  <2>1. PullTo(p, "sent") /\ pl[p].pc = "extend"
    BY <1>3 DEF Extend
  <2> QED BY <1>1, <1>3, <2>1, GoesOn DEF Mine, Account, Early, Asking
<1>4. CASE Extend(p) /\ agent # "live"
  <2>1. Finish(p, "error") /\ pl[p].pc = "extend"
    BY <1>4 DEF Extend
  <2> QED BY <1>1, <1>2, <2>1, Ends DEF Mine, Account, Early, Asking
<1>5. CASE Answered(p) /\ agent = "live"
  <2>1. Finish(p, "ok") /\ pl[p].pc = "answered"
    BY <1>5 DEF Answered
  <2> QED BY <1>1, <1>2, <1>5, <2>1, Ends DEF Mine, Account, Early, Asking
<1>6. CASE Answered(p) /\ agent # "live"
  <2>1. Finish(p, "error") /\ pl[p].pc = "answered"
    BY <1>6 DEF Answered
  <2> QED BY <1>1, <1>2, <2>1, Ends DEF Mine, Account, Early, Asking
<1> QED BY <1>3, <1>4, <1>5, <1>6

LEMMA GiveUpStep == ASSUME HubInv, NEW p \in Pulls, ExtendFails(p) PROVE HubInv'
<1>1. pl[p].pc = "sent" /\ Mine(p) /\ lock' = lock /\ lock' # p /\ agent' = agent
  BY PullKnown DEF ExtendFails, hub, Mine
<1>2. late' \subseteq Pulls /\ \A q \in Pulls \ {p} : q \in late' => q \in late
  BY DEF ExtendFails, HubInv, HubTypeOK
<1>3. HubFrame(p)
  BY <1>1, <1>2 DEF ExtendFails, HubFrame, hub, Ages, HubInv, HubTypeOK
<1> QED BY <1>1, <1>3, Ends DEF ExtendFails, Mine, Account, Early, Asking

\* The slot of a pull whose extension the agent may still be at.
LEMMA Frees ==
  ASSUME HubInv, NEW p \in Pulls, Free(p), HubFrame(p), lock' # p, agent' = agent,
         p \in late' => pl[p].pulled /\ pl[p].measured = 0
  PROVE  HubInv'
<1> DEFINE n == [pl[p] EXCEPT !.pc = "idle", !.result = "none"]
<1>1. pl[p] \in Pull /\ "idle" \in PullPoints /\ Account(pl[p], p \in late, agent, mode)
  BY PullKnown DEF Mine, PullPoints
<1>2. CASE p \in late'
  <2>1. SetPull(p, n)
    BY <1>2 DEF Free
  <2>2. n \in Pull /\ n.pc = "idle" /\ n.result = "none" /\ n.pulled = pl[p].pulled
        /\ n.measured = pl[p].measured
    BY <1>1 DEF Pull
  <2> HIDE DEF n
  <2>3. Account(n, p \in late', agent', mode)
    BY <1>1, <1>2, <2>2 DEF Account, Early, Asking
  <2> QED BY <2>1, <2>2, <2>3, OnePull
<1>3. CASE p \notin late'
  <2>1. SetPull(p, NewPull)
    BY <1>3 DEF Free
  <2>2. Account(NewPull, p \in late', agent', mode)
    BY <1>3, NewIsFine DEF NewPull, Account, Early, Asking
  <2> QED BY <2>1, <2>2, NewIsFine, OnePull
<1> QED BY <1>2, <1>3

LEMMA CancelStep == ASSUME HubInv, NEW p \in Pulls, Cancel(p) PROVE HubInv'
<1>1. Mine(p) /\ agent' = agent /\ lock' = (IF lock = p THEN NoPull ELSE lock)
      /\ pl[p].pc \notin {"idle", "done"} /\ p \notin late
  BY PullKnown DEF Cancel, Mine, Account
<1>2. lock' # p /\ \A q \in Pulls \ {p} : (lock' = q <=> lock = q)
  BY <1>1, HubAssumption
<1>3. late' \subseteq Pulls /\ \A q \in Pulls \ {p} : q \in late' => q \in late
  BY DEF Cancel, HubInv, HubTypeOK
<1>4. HubFrame(p)
  BY <1>1, <1>2, <1>3 DEF Cancel, HubFrame, Ages, HubInv, HubTypeOK
<1>5. p \in late' => pl[p].pulled /\ pl[p].measured = 0
  BY <1>1 DEF Cancel, Mine, Account, Asking
<1> QED BY <1>1, <1>2, <1>4, <1>5, Frees DEF Cancel

LEMMA ReplyStep == ASSUME HubInv, NEW p \in Pulls, Reply(p) PROVE HubInv'
<1>1. Mine(p) /\ agent' = agent /\ lock' = lock /\ late' = late /\ lock' # p
  BY PullKnown DEF Reply, hub, Mine
<1>2. Quiet(p)
  BY DEF Reply, Quiet, hub, Ages, HubInv, HubTypeOK
<1>3. p \in late' => pl[p].pulled /\ pl[p].measured = 0
  BY <1>1 DEF Mine, Account
<1> QED BY <1>1, <1>2, <1>3, QuietFrame, Frees DEF Reply

\* The agent extends for a pull that waits, or for one that was given up.
LEMMA ExtendsStep == ASSUME HubInv, NEW p \in Pulls, AgentExtends(p) \/ LateExtends(p) PROVE HubInv'
<1> DEFINE m == IF mode = "ok" THEN 1 ELSE 0
<1>1. Mine(p) /\ agent' = agent /\ lock' = lock /\ late' \subseteq late /\ "answered" \in PullPoints
      /\ pl[p].pulled /\ pl[p].measured = 0 /\ m \in Nat
  BY PullKnown DEF AgentExtends, LateExtends, hub, Mine, Account, Asking, PullPoints
<1>2. HubFrame(p)
  BY <1>1 DEF AgentExtends, LateExtends, HubFrame, hub, Ages, HubInv, HubTypeOK
<1>3. Measured(p) = m
  BY <1>1 DEF Measured
<1> HIDE DEF m
<1>4. CASE AgentExtends(p)
  <2> DEFINE n == [pl[p] EXCEPT !.pc = "answered", !.measured = m]
  <2>1. SetPull(p, n) /\ pl[p].pc = "sent" /\ agent = "live" /\ late' = late
    BY <1>3, <1>4 DEF AgentExtends
  <2>2. n \in Pull /\ n.pc = "answered" /\ n.result = pl[p].result /\ n.pulled = pl[p].pulled
        /\ n.measured = m
    BY <1>1 DEF Mine, Pull
  <2> HIDE DEF n
  <2>3. Account(n, p \in late', agent', mode) /\ lock' # p
    BY <1>1, <2>1, <2>2 DEF Mine, Account, Early, Asking, m
  <2> QED BY <1>2, <2>1, <2>2, <2>3, OnePull
<1>5. CASE LateExtends(p)
  <2> DEFINE n == [pl[p] EXCEPT !.measured = m]
  <2>1. SetPull(p, n) /\ p \in late /\ p \notin late'
    BY <1>3, <1>5 DEF LateExtends
  <2>2. n \in Pull /\ n.pc = pl[p].pc /\ n.result = pl[p].result /\ n.pulled = pl[p].pulled
        /\ n.measured = m
    BY <1>1 DEF Mine, Pull
  <2> HIDE DEF n
  <2>3. Account(n, p \in late', agent', mode) /\ (lock' = p <=> n.pc = "pull")
    BY <1>1, <2>1, <2>2 DEF Mine, Account, Early, Asking, m
  <2> QED BY <1>2, <2>1, <2>2, <2>3, OnePull
<1> QED BY <1>4, <1>5

-----------------------------------------------------------------------------
(* The steps of the hub and of the agent. *)

LEMMA StartStep == ASSUME HubInv, Start PROVE HubInv'
<1>1. UNCHANGED <<built, lock, agent, aa, pl, late, asked>> /\ phase' \in {"down", "keys", "serving"}
      /\ todo' \subseteq Credentials
      /\ files' \in [Credentials -> {"absent", "partial", "old", "fresh"}]
  BY DEF Start, StartHub, FetchKey, FetchFails, Serve, HubInv, HubTypeOK
<1>2. HubTypeOK' /\ Accounts'
  BY <1>1 DEF aa, HubInv, HubTypeOK, Accounts
<1>3. Keys' /\ AllKeys'
  <2>1. CASE StartHub
    BY <2>1 DEF StartHub, Keys, AllKeys
  <2>2. CASE FetchFails
    BY <2>2 DEF FetchFails, Keys, AllKeys
  <2>3. CASE Serve
    BY <2>3 DEF Serve, Keys, AllKeys, HubInv
  <2>4. ASSUME NEW c \in Credentials, FetchKey(c) PROVE Keys' /\ AllKeys'
    BY <2>4 DEF FetchKey, Keys, AllKeys, HubInv, HubTypeOK
  <2> QED BY <2>1, <2>2, <2>3, <2>4 DEF Start
<1> QED BY <1>2, <1>3 DEF HubInv

LEMMA HubDownStep == ASSUME HubInv, HubDown PROVE HubInv'
<1>1. pl' = [p \in Pulls |-> NewPull] /\ late' = {} /\ lock' = NoPull /\ agent' = "unset"
      /\ phase' = "down" /\ todo' = {} /\ built' = FALSE /\ UNCHANGED <<aa, files, asked>>
  BY DEF HubDown
<1>2. HubTypeOK'
  BY <1>1, NewIsFine, HubAssumption DEF aa, HubInv, HubTypeOK, Agents
<1>3. Accounts'
  BY <1>1, NewIsFine DEF Accounts, NewPull, Account, Early, Asking
<1> QED BY <1>1, <1>2, <1>3 DEF HubInv, Keys, AllKeys

LEMMA AgentUpDown == ASSUME HubInv, StartAgent \/ AgentDown PROVE HubInv'
<1>1. /\ UNCHANGED <<phase, todo, built, lock, mode, kbc, files, pl, asked>>
      /\ agentUp' \in BOOLEAN /\ socket' \in BOOLEAN /\ late' \subseteq late
      /\ Ages(agent, agent') /\ agent' \in Agents
  BY DEF StartAgent, AgentDown, hub, Ages, Agents, HubInv, HubTypeOK
<1>2. HubTypeOK'
  BY <1>1 DEF HubInv, HubTypeOK
<1>3. Accounts'
  BY <1>1 DEF HubInv, Accounts, Account, Ages
<1> QED BY <1>1, <1>2, <1>3 DEF HubInv, Keys, AllKeys

-----------------------------------------------------------------------------
\* The invariant holds in every state: the theorems below read it off.
THEOREM HubInvariance == HubSpec => []HubInv
<1>1. HubInit => HubInv
  <2> SUFFICES ASSUME HubInit PROVE HubInv
    OBVIOUS
  <2>1. HubTypeOK
    <3>1. pl \in [Pulls -> Pull] /\ \A p \in Pulls : lock # p /\ pl[p].pc # "pull"
      BY NewIsFine, HubAssumption DEF HubInit
    <3>2. files \in [Credentials -> {"absent", "partial", "old", "fresh"}] /\ asked \in 0 .. MaxPulls
      BY HubAssumption DEF HubInit
    <3> QED BY <3>1, <3>2 DEF HubInit, HubTypeOK, Agents
  <2>2. Accounts
    BY NewIsFine DEF HubInit, Accounts, NewPull, Account, Early, Asking
  <2> QED BY <2>1, <2>2 DEF HubInit, HubInv, Keys, AllKeys
<1>2. HubInv /\ [HubNext]_hubVars => HubInv'
  <2> SUFFICES ASSUME HubInv, [HubNext]_hubVars PROVE HubInv'
    OBVIOUS
  <2>1. CASE Start \/ HubDown \/ StartAgent \/ AgentDown
    BY <2>1, StartStep, HubDownStep, AgentUpDown
  <2>2. ASSUME NEW p \in Pulls, StepOfPull(p) PROVE HubInv'
    BY <2>2, ClientStep, PullStep, AgentStep, ExtendStep, GiveUpStep, ReplyStep DEF StepOfPull
  <2>3. ASSUME NEW p \in Pulls,
               Request(p) \/ LockClient(p) \/ Cancel(p) \/ AgentExtends(p) \/ LateExtends(p)
        PROVE  HubInv'
    BY <2>3, RequestStep, HubLockStep, CancelStep, ExtendsStep
  <2>4. CASE UNCHANGED hubVars
    BY <2>4 DEF hubVars, hub, aa, HubInv, HubTypeOK, Accounts, Keys, AllKeys
  <2> QED BY <2>1, <2>2, <2>3, <2>4 DEF HubNext
<1> QED BY <1>1, <1>2, PTL DEF HubSpec

\* Every variable has its type, and the Mutex is held by the pull under way.
THEOREM HubTypeCorrect == HubSpec => []HubTypeOK
<1>1. HubInv => HubTypeOK
  BY DEF HubInv
<1> QED BY <1>1, HubInvariance, PTL

\* However many pulls share the hub's image client and its connection to the agent,
\* and whichever of them is given up, an answer with success means one measurement.
THEOREM AnsweredIsMeasured == HubSpec => []PulledIsMeasured
<1>1. HubInv => PulledIsMeasured
  BY DEF HubInv, Accounts, Account, PulledIsMeasured
<1> QED BY <1>1, HubInvariance, PTL

\* A hub that serves has all its credentials, fetched in this start of it.
THEOREM StartedWithKeys == HubSpec => []ServesWithKeys
<1>1. HubInv => ServesWithKeys
  BY DEF HubInv, Keys, AllKeys, ServesWithKeys
<1> QED BY <1>1, HubInvariance, PTL
=============================================================================

-------------------------- MODULE TokenClientProofs --------------------------
(***************************************************************************)
(* Proofs about RcarClient and TokenClient, for any number of clients,     *)
(* hubs, operations and sessions and any bound on the attempts.  Part 1 is *)
(* about the client of the KBS; part 2 about the hub that calls the agent. *)
(***************************************************************************)
EXTENDS TokenClient, SequenceTheorems, TLAPS

-----------------------------------------------------------------------------
(* Part 1: RcarClient.  The inductive invariant says of each client, at     *)
(* each point of its operation, what its challenge, its session and its     *)
(* counters are, and that no two clients ever hold the same cookie.         *)

ClientRec == [pc : Points, op : {"token", "resource"}, tries : 0 .. RcarMaxAttempt,
              attempt : 0 .. GetMaxAttempt, tee : BOOLEAN, cookie : Ids, token : Ids,
              nonce : Ids, add : Ids, ev : Ids, auths : Nat, result : Results]

Challenged  == {"additional", "primary", "attest"}
Handshaking == {"tee", "auth"} \cup Challenged

\* r is a client's record, s the sessions of the KBS.
Numbers(r, s) == {r.cookie, r.token, r.nonce} \subseteq 0 .. Len(s)

\* The challenge under way is that of the cookie, and so is the evidence.
Challenge(r) ==
  /\ r.pc \in Challenged => r.cookie > 0 /\ r.nonce = r.cookie
  /\ r.pc \in {"primary", "attest"} => r.add = r.cookie
  /\ r.pc = "attest" => r.ev = r.cookie

\* The session of the cookie is attested for this client's key or for none, that
\* of the token for this client's key.
Mine(c, r, s) == /\ r.cookie > 0 => s[r.cookie].keys \subseteq {c}
                 /\ r.token > 0 => s[r.token].keys = {c}

\* A handshake is begun only if one is left.
Counted(r) ==
  /\ r.pc = "idle" => r.auths = 0
  /\ r.op = "token" => /\ r.auths <= r.tries
                       /\ r.pc \in {"tee", "auth", "sleep"} => r.auths < r.tries
                       /\ r.pc # "get"
  /\ r.op = "resource" => /\ r.auths <= r.attempt
                          /\ r.pc \in {"get", "tee", "auth"} => r.auths < r.attempt
                          /\ r.pc # "sleep"

\* h: something failed or expired since the operation began.
Fresh(r, s, h) ==
  /\ r.pc = "done" /\ r.op = "token" /\ r.result = "ok" =>
       r.token > 0 /\ (h \/ s[r.token].fresh)
  /\ r.pc # "done" <=> r.result = "none"

Good(c, r, s, h) == Numbers(r, s) /\ Challenge(r) /\ Mine(c, r, s) /\ Counted(r)
                    /\ Fresh(r, s, h)

SessOK == sess \in Seq(Session) /\ Len(sess) <= MaxSessions

OwnCookies == \A c, d \in Clients : c # d /\ cl[c].cookie > 0 => cl[c].cookie # cl[d].cookie

RcarInv ==
  /\ cl \in [Clients -> ClientRec] /\ ops \in [Clients -> Nat] /\ hurt \in [Clients -> BOOLEAN]
  /\ SessOK
  /\ \A c \in Clients : Good(c, cl[c], sess, hurt[c])
  /\ OwnCookies

\* An operation nothing has disturbed: the session it has been challenged in is
\* live, the first handshake was the last, and the resource can be decrypted.
Smooth(c, r, s) ==
  /\ r.result \in {"none", "ok"}
  /\ r.pc \in Challenged => s[r.cookie].live
  /\ r.op = "resource" /\ r.pc \in Handshaking => r.attempt = 1
  /\ r.pc = "get" /\ r.attempt > 1 => r.cookie > 0 /\ s[r.cookie].live /\ s[r.cookie].keys = {c}

AllSmooth == \A c \in Clients : hurt[c] \/ Smooth(c, cl[c], sess)

-----------------------------------------------------------------------------
\* What a step of client c may do to the sessions: open one, attest its own.
Grows(c) ==
  /\ SessOK' /\ Len(sess) <= Len(sess')
  /\ \A n \in Sessions : /\ sess'[n].live = sess[n].live
                         /\ sess[n].fresh => sess'[n].fresh
                         /\ n # cl[c].cookie => sess'[n].keys = sess[n].keys

\* What the sessions say of a client that did not move is still so.
LEMMA Others ==
  ASSUME NEW c \in Clients, NEW d \in Clients, c # d, RcarInv, Grows(c)
  PROVE  /\ Good(d, cl[d], sess', hurt[d])
         /\ Smooth(d, cl[d], sess) => Smooth(d, cl[d], sess')
<1> DEFINE r == cl[d]
<1>1. /\ Good(d, r, sess, hurt[d]) /\ Numbers(r, sess) /\ r.cookie \in Nat /\ r.token \in Nat
      /\ r.nonce \in Nat /\ (r.cookie > 0 => r.cookie # cl[c].cookie)
  BY DEF RcarInv, Good, OwnCookies, ClientRec, Ids
<1>2. Len(sess) \in Nat /\ Len(sess') \in Nat /\ Len(sess) <= Len(sess')
  BY DEF Grows, SessOK, RcarInv
<1>3. Numbers(r, sess')
  BY <1>1, <1>2 DEF Numbers
<1>4. r.cookie > 0 => /\ r.cookie \in Sessions
                      /\ sess'[r.cookie].keys = sess[r.cookie].keys
                      /\ sess'[r.cookie].live = sess[r.cookie].live
  BY <1>1, <1>2 DEF Numbers, Sessions, Grows
<1>5. r.token > 0 /\ sess[r.token].fresh => sess'[r.token].fresh
  BY <1>1, <1>2 DEF Numbers, Sessions, Grows
<1>9. r.token > 0 => sess'[r.token].keys = {d}
  <2>1. cl[c].cookie > 0 => sess[cl[c].cookie].keys \subseteq {c}
    BY DEF RcarInv, Good, Mine
  <2>2. r.token > 0 => r.token \in Sessions /\ sess[r.token].keys = {d}
    BY <1>1, <1>2 DEF Good, Mine, Numbers, Sessions
  <2>3. r.token > 0 => r.token # cl[c].cookie
    BY <2>1, <2>2
  <2> QED BY <2>2, <2>3 DEF Grows
<1>6. Challenge(r) /\ (r.pc \in Challenged => r.cookie > 0)
  BY <1>1 DEF Good, Challenge
<1> HIDE DEF r
<1>7. Good(d, r, sess', hurt[d])
  BY <1>1, <1>3, <1>4, <1>5, <1>9 DEF Good, Mine, Fresh
<1>8. Smooth(d, r, sess) => Smooth(d, r, sess')
  BY <1>4, <1>6 DEF Smooth
<1> QED BY <1>7, <1>8 DEF r

\* A step of one client.
LEMMA OneClient ==
  ASSUME NEW c \in Clients, NEW r \in ClientRec, RcarInv, Set(c, r), Grows(c),
         ops' \in [Clients -> Nat], hurt' \in [Clients -> BOOLEAN],
         \A d \in Clients \ {c} : hurt'[d] = hurt[d],
         r.cookie \in {cl[c].cookie, 0, Len(sess) + 1},
         Good(c, r, sess', hurt'[c])
  PROVE  /\ RcarInv'
         /\ AllSmooth /\ (hurt'[c] \/ Smooth(c, r, sess')) => AllSmooth'
<1>1. /\ cl' \in [Clients -> ClientRec] /\ cl'[c] = r
      /\ \A d \in Clients \ {c} : cl'[d] = cl[d]
  BY DEF Set, RcarInv
<1>2. \A d \in Clients \ {c} : /\ Good(d, cl'[d], sess', hurt'[d])
                               /\ Smooth(d, cl[d], sess) => Smooth(d, cl'[d], sess')
  BY <1>1, Others
<1>3. \A d \in Clients : Good(d, cl'[d], sess', hurt'[d])
  BY <1>1, <1>2
<1>4. \A d \in Clients : cl[d].cookie \in 0 .. Len(sess)
  BY DEF RcarInv, Good, Numbers
<1>5. Len(sess) \in Nat
  BY DEF RcarInv, SessOK
<1>6. OwnCookies'
  <2>1. ASSUME NEW d \in Clients \ {c} PROVE r.cookie > 0 => r.cookie # cl[d].cookie
    BY <1>4, <1>5 DEF OwnCookies, RcarInv
  <2>2. ASSUME NEW d \in Clients, NEW e \in Clients, d # e, d # c, e # c
        PROVE cl[d].cookie > 0 => cl[d].cookie # cl[e].cookie
    BY <2>2 DEF OwnCookies, RcarInv
  <2> QED BY <1>1, <2>1, <2>2 DEF OwnCookies
<1>7. RcarInv'
  BY <1>1, <1>3, <1>6 DEF RcarInv, Grows
<1>8. ASSUME AllSmooth, hurt'[c] \/ Smooth(c, r, sess') PROVE AllSmooth'
  BY <1>1, <1>2, <1>8 DEF AllSmooth
<1> QED BY <1>7, <1>8

\* What a client that takes a step knows.
LEMMA OfClient ==
  ASSUME NEW c \in Clients, RcarInv
  PROVE  /\ cl[c] \in ClientRec /\ Good(c, cl[c], sess, hurt[c]) /\ hurt[c] \in BOOLEAN
         /\ SessOK /\ Len(sess) \in Nat /\ cl[c].cookie \in 0 .. Len(sess)
  BY DEF RcarInv, Good, Numbers, SessOK

\* The step leaves the sessions alone.
LEMMA SameSessions == ASSUME NEW c \in Clients, RcarInv, UNCHANGED sess PROVE Grows(c)
<1>1. SessOK /\ SessOK' /\ Len(sess) \in Nat
  BY DEF RcarInv, SessOK
<1> QED BY <1>1 DEF Grows, Sessions

LEMMA OpensSession ==
  ASSUME NEW c \in Clients, RcarInv, Open(c)
  PROVE  /\ Grows(c) /\ Len(sess') = Len(sess) + 1 /\ Len(sess) + 1 \in Ids
         /\ sess'[Len(sess) + 1] = [keys |-> {}, live |-> TRUE, fresh |-> FALSE]
         /\ \A m \in Sessions : sess'[m] = sess[m]
<1> DEFINE new == [keys |-> {}, live |-> TRUE, fresh |-> FALSE]
<1>1. SessOK /\ Len(sess) \in Nat /\ sess \in Seq(Session)
  BY DEF RcarInv, SessOK
<1>2. new \in Session
  BY DEF Session
<1>3. sess' = Append(sess, new) /\ Len(sess) < MaxSessions /\ MaxSessions \in Nat
  BY RcarAssumption DEF Open
<1> HIDE DEF new
<1>4. /\ sess' \in Seq(Session) /\ Len(sess') = Len(sess) + 1
      /\ \A n \in 1 .. Len(sess) : sess'[n] = sess[n]
      /\ sess'[Len(sess) + 1] = new
  BY <1>1, <1>2, <1>3, AppendProperties
<1>5. Grows(c)
  BY <1>1, <1>3, <1>4 DEF Grows, Sessions, SessOK
<1>6. QED
  BY <1>1, <1>3, <1>4, <1>5 DEF Ids, new, Sessions

LEMMA AttestsSession ==
  ASSUME NEW c \in Clients, RcarInv, cl[c].pc = "attest", AttestSession(c)
  PROVE  /\ Grows(c) /\ Len(sess') = Len(sess) /\ cl[c].cookie \in Sessions
         /\ sess'[cl[c].cookie].keys = {c} /\ sess'[cl[c].cookie].fresh
         /\ sess'[cl[c].cookie].live = sess[cl[c].cookie].live
         /\ \A m \in Sessions : m # cl[c].cookie => sess'[m] = sess[m]
<1> DEFINE n == cl[c].cookie  x == [sess[n] EXCEPT !.keys = {c}, !.fresh = TRUE]
<1>1. SessOK /\ Len(sess) \in Nat /\ sess \in Seq(Session) /\ n \in 1 .. Len(sess)
  BY DEF RcarInv, SessOK, Good, Numbers, Challenge, Challenged
<1>2. sess[n] \in Session /\ x \in Session /\ x.keys = {c} /\ x.fresh /\ x.live = sess[n].live
  <2>1. sess[n] \in Session
    BY <1>1, ElementOfSeq
  <2> QED BY <2>1 DEF Session
<1>3. sess' = [sess EXCEPT ![n] = x]
  BY DEF AttestSession
<1> HIDE DEF x, n
<1>4. /\ sess' \in Seq(Session) /\ Len(sess') = Len(sess) /\ sess'[n] = x
      /\ \A m \in 1 .. Len(sess) : m # n => sess'[m] = sess[m]
  BY <1>1, <1>2, <1>3, ExceptSeq
<1>5. \A m \in Sessions : /\ sess'[m].live = sess[m].live
                          /\ sess[m].fresh => sess'[m].fresh
                          /\ m # n => sess'[m].keys = sess[m].keys
  BY <1>2, <1>4 DEF Sessions
<1>6. Grows(c)
  BY <1>1, <1>4, <1>5 DEF Grows, SessOK, n
<1>7. QED
  BY <1>1, <1>2, <1>4, <1>6 DEF n, Sessions

-----------------------------------------------------------------------------
LEMMA Bounds == /\ RcarMaxAttempt \in Nat \ {0} /\ GetMaxAttempt \in Nat \ {0}
                /\ MaxSessions \in Nat \ {0}
  BY RcarAssumption

\* The end of a handshake clears its challenge.
Cleared(r) == [r EXCEPT !.nonce = 0, !.add = 0, !.ev = 0]

Keeps(x, r) == x.op = r.op /\ x.cookie = r.cookie /\ x.token = r.token /\ x.auths = r.auths

LEMMA Clears ==
  ASSUME NEW r \in ClientRec
  PROVE  /\ Cleared(r) \in ClientRec /\ Cleared(r).nonce = 0
         /\ Keeps(Cleared(r), r) /\ Cleared(r).tries = r.tries /\ Cleared(r).attempt = r.attempt
         /\ Cleared(r).result = r.result
<1>1. 0 \in Ids
  BY Bounds DEF Ids
<1>2. Cleared(r) \in ClientRec
  BY <1>1 DEF Cleared, ClientRec
<1>3. QED
  BY <1>2 DEF Cleared, ClientRec, Keeps

LEMMA Finishes ==
  ASSUME NEW r \in ClientRec, NEW e \in Results
  PROVE  /\ Finish(r, e) \in ClientRec /\ Finish(r, e).pc = "done" /\ Finish(r, e).result = e
         /\ Keeps(Finish(r, e), r) /\ Finish(r, e).tries = r.tries
         /\ Finish(r, e).attempt = r.attempt /\ Finish(r, e).nonce = r.nonce
  BY DEF Finish, ClientRec, Points, Keeps

\* The outcomes of a handshake, as a record.
LEMMA Failing ==
  ASSUME NEW c \in Clients, NEW r \in ClientRec, NEW s,
         r.auths <= (IF r.op = "token" THEN r.tries ELSE r.attempt), r.result = "none",
         {r.cookie, r.token} \subseteq 0 .. Len(s), Mine(c, r, s)
  PROVE  /\ HandshakeFails(r) \in ClientRec /\ HandshakeFails(r).cookie = r.cookie
         /\ Good(c, HandshakeFails(r), s, TRUE)
<1> DEFINE f == HandshakeFails(r)
<1>1. /\ f \in ClientRec /\ f.op = r.op /\ f.cookie = r.cookie /\ f.token = r.token
      /\ f.nonce = 0 /\ f.auths = r.auths /\ f.attempt = r.attempt
      /\ \/ f.pc = "done" /\ f.tries = r.tries /\ f.result = "rcar"
         \/ f.pc = "sleep" /\ f.op = "token" /\ f.tries = r.tries + 1 /\ f.result = "none"
  <2>0. "rcar" \in Results
    BY DEF Results
  <2>1. CASE r.op = "token" /\ ~(r.tries >= RcarMaxAttempt)
    <3> DEFINE x == Cleared(r)
    <3>1. f = [x EXCEPT !.pc = "sleep", !.tries = @ + 1]
      BY <2>1, Clears DEF HandshakeFails, Retry, Cleared
    <3>2. r.tries + 1 \in 0 .. RcarMaxAttempt
      BY <2>1, Bounds DEF ClientRec
    <3>3. x \in ClientRec /\ x.nonce = 0 /\ x.tries = r.tries /\ x.attempt = r.attempt
          /\ Keeps(x, r) /\ x.result = "none"
      BY Clears
    <3> HIDE DEF x, f
    <3>4. f \in ClientRec
      BY <3>1, <3>2, <3>3 DEF ClientRec, Points
    <3>5. QED
      BY <2>1, <3>1, <3>2, <3>3, <3>4 DEF ClientRec, Keeps
  <2>2. CASE ~(r.op = "token" /\ ~(r.tries >= RcarMaxAttempt))
    <3>1. f = Finish(Cleared(r), "rcar")
      BY <2>2, Clears DEF HandshakeFails, Retry, Cleared
    <3> HIDE DEF f
    <3> QED BY <2>0, <3>1, Clears, Finishes DEF Keeps
  <2> QED BY <2>1, <2>2
<1>4. r.auths \in Nat /\ r.tries \in Nat /\ r.attempt \in Nat /\ r.op \in {"token", "resource"}
      /\ 0 \in 0 .. Len(s)
  BY DEF ClientRec
<1> HIDE DEF f
<1>5. Numbers(f, s) /\ Mine(c, f, s)
  BY <1>1, <1>4 DEF Numbers, Mine
<1>6. Challenge(f) /\ Fresh(f, s, TRUE)
  BY <1>1 DEF Challenge, Challenged, Fresh
<1>7. Counted(f)
  BY <1>1, <1>4 DEF Counted
<1> QED BY <1>1, <1>5, <1>6, <1>7 DEF Good, f

LEMMA Succeeding ==
  ASSUME NEW c \in Clients, NEW r \in ClientRec, NEW s,
         r.auths <= (IF r.op = "token" THEN r.tries ELSE r.attempt), r.result = "none",
         {r.cookie, r.token} \subseteq 0 .. Len(s), Mine(c, r, s),
         r.token > 0, s[r.token].fresh, NEW h
  PROVE  /\ HandshakeEnds(r) \in ClientRec /\ HandshakeEnds(r).cookie = r.cookie
         /\ Good(c, HandshakeEnds(r), s, h)
<1> DEFINE f == HandshakeEnds(r)
<1>1. /\ f \in ClientRec /\ f.op = r.op /\ f.cookie = r.cookie /\ f.token = r.token
      /\ f.nonce = 0 /\ f.auths = r.auths /\ f.tries = r.tries
      /\ \/ f.pc = "done" /\ f.attempt = r.attempt /\ f.result \in {"ok", "unauthorized"}
         \/ f.pc = "get" /\ f.op = "resource" /\ f.attempt = r.attempt + 1 /\ f.result = "none"
  <2>0. {"ok", "unauthorized"} \subseteq Results
    BY DEF Results
  <2>1. CASE r.op # "token" /\ r.attempt # GetMaxAttempt
    <3> DEFINE x == Cleared(r)
    <3>1. f = [x EXCEPT !.pc = "get", !.attempt = @ + 1]
      BY <2>1, Clears DEF HandshakeEnds, Cleared
    <3>2. r.attempt + 1 \in 0 .. GetMaxAttempt /\ r.op = "resource"
      BY <2>1, Bounds DEF ClientRec
    <3>3. x \in ClientRec /\ x.nonce = 0 /\ x.tries = r.tries /\ x.attempt = r.attempt
          /\ Keeps(x, r) /\ x.result = "none"
      BY Clears
    <3> HIDE DEF x, f
    <3>4. f \in ClientRec
      BY <3>1, <3>2, <3>3 DEF ClientRec, Points
    <3>5. QED
      BY <2>1, <3>1, <3>2, <3>3, <3>4 DEF ClientRec, Keeps
  <2>2. CASE ~(r.op # "token" /\ r.attempt # GetMaxAttempt)
    <3>1. f = Finish(Cleared(r), "ok") \/ f = Finish(Cleared(r), "unauthorized")
      BY <2>2, Clears DEF HandshakeEnds, Cleared
    <3> HIDE DEF f
    <3> QED BY <2>0, <3>1, Clears, Finishes DEF Keeps
  <2> QED BY <2>1, <2>2
<1>4. r.auths \in Nat /\ r.tries \in Nat /\ r.attempt \in Nat /\ r.op \in {"token", "resource"}
      /\ 0 \in 0 .. Len(s)
  BY DEF ClientRec
<1> HIDE DEF f
<1>5. Numbers(f, s) /\ Mine(c, f, s)
  BY <1>1, <1>4 DEF Numbers, Mine
<1>6. Challenge(f) /\ Fresh(f, s, h)
  BY <1>1 DEF Challenge, Challenged, Fresh
<1>7. Counted(f)
  BY <1>1, <1>4 DEF Counted
<1> QED BY <1>1, <1>5, <1>6, <1>7 DEF Good, f

\* A handshake that succeeds leaves nothing to fear if it is the first of an
\* operation that may make two.
LEMMA EndsSmoothly ==
  ASSUME NEW c \in Clients, NEW r \in ClientRec, NEW s, r.result = "none",
         r.cookie > 0, s[r.cookie].live, s[r.cookie].keys = {c},
         r.op = "resource" => r.attempt = 1 /\ GetMaxAttempt > 1
  PROVE  Smooth(c, HandshakeEnds(r), s)
<1> DEFINE f == HandshakeEnds(r)
<1>1. f.pc \in {"done", "get"} /\ f.result \in {"none", "ok"} /\ f.cookie = r.cookie
  BY RcarAssumption DEF HandshakeEnds, Finish, ClientRec
<1> HIDE DEF f
<1> QED BY <1>1 DEF Smooth, Challenged, Handshaking, f
-----------------------------------------------------------------------------
\* Each action of a client keeps the invariant, and keeps undisturbed operations
\* smooth if a resource may be asked for again.
Kept == RcarInv' /\ (GetMaxAttempt > 1 /\ AllSmooth => AllSmooth')

\* A step that leaves the sessions and the history alone.
LEMMA Quiet ==
  ASSUME NEW c \in Clients, NEW r \in ClientRec, RcarInv, Set(c, r),
         UNCHANGED <<sess, ops, hurt>>, r.cookie = cl[c].cookie,
         Good(c, r, sess, hurt[c]),
         GetMaxAttempt > 1 /\ Smooth(c, cl[c], sess) => Smooth(c, r, sess)
  PROVE  Kept
<1>1. Grows(c) /\ sess' = sess /\ hurt' = hurt /\ ops' = ops
  BY SameSessions
<1>2. ops \in [Clients -> Nat] /\ hurt \in [Clients -> BOOLEAN]
  BY DEF RcarInv
<1>3. RcarInv' /\ (AllSmooth /\ (hurt'[c] \/ Smooth(c, r, sess')) => AllSmooth')
  BY <1>1, <1>2, OneClient
<1>4. AllSmooth => hurt[c] \/ Smooth(c, cl[c], sess)
  BY DEF AllSmooth
<1> QED BY <1>1, <1>3, <1>4 DEF Kept

\* A step that fails counts as a disturbance.
LEMMA Fails ==
  ASSUME NEW c \in Clients, NEW r \in ClientRec, RcarInv, Set(c, r), Grows(c), ops' = ops,
         Hurt(c), r.cookie \in {cl[c].cookie, 0, Len(sess) + 1}, Good(c, r, sess', TRUE)
  PROVE  Kept
<1>1. ops \in [Clients -> Nat] /\ hurt \in [Clients -> BOOLEAN]
  BY DEF RcarInv
<1>2. hurt' \in [Clients -> BOOLEAN] /\ hurt'[c] = TRUE /\ \A d \in Clients \ {c} : hurt'[d] = hurt[d]
  BY <1>1 DEF Hurt
<1>3. RcarInv' /\ (AllSmooth /\ (hurt'[c] \/ Smooth(c, r, sess')) => AllSmooth')
  BY <1>1, <1>2, OneClient
<1> QED BY <1>2, <1>3 DEF Kept

\* An operation begins: nothing has disturbed it yet.
LEMMA Begins ==
  ASSUME NEW c \in Clients, NEW r \in ClientRec, RcarInv, Set(c, r), UNCHANGED sess,
         ops' = [ops EXCEPT ![c] = @ + 1], hurt' = [hurt EXCEPT ![c] = FALSE],
         r.cookie = cl[c].cookie, Good(c, r, sess, FALSE), Smooth(c, r, sess)
  PROVE  Kept
<1>1. ops \in [Clients -> Nat] /\ hurt \in [Clients -> BOOLEAN]
  BY DEF RcarInv
<1>2. /\ hurt' \in [Clients -> BOOLEAN] /\ hurt'[c] = FALSE
      /\ \A d \in Clients \ {c} : hurt'[d] = hurt[d]
      /\ ops' \in [Clients -> Nat]
  BY <1>1
<1>3. Grows(c)
  BY SameSessions
<1>4. RcarInv' /\ (AllSmooth /\ (hurt'[c] \/ Smooth(c, r, sess')) => AllSmooth')
  BY <1>2, <1>3, OneClient
<1> QED BY <1>2, <1>4 DEF Kept

LEMMA GetTokenStep == ASSUME NEW c \in Clients, RcarInv, GetToken(c) PROVE Kept
<1> DEFINE x == cl[c]
           r == [x EXCEPT !.op = "token", !.tries = 1, !.auths = 0]
           f == IF TokenValid(r) THEN Finish(r, "ok") ELSE [r EXCEPT !.pc = "tee"]
<1>1. x \in ClientRec /\ Good(c, x, sess, hurt[c]) /\ x.pc = "idle" /\ Len(sess) \in Nat
  BY OfClient DEF GetToken
<1>2. x.result = "none" /\ Numbers(x, sess) /\ Mine(c, x, sess) /\ 1 \in 0 .. RcarMaxAttempt
  BY <1>1, Bounds DEF Good, Fresh
<1>3. /\ Set(c, f) /\ UNCHANGED sess /\ ops' = [ops EXCEPT ![c] = @ + 1]
      /\ hurt' = [hurt EXCEPT ![c] = FALSE]
  BY DEF GetToken
<1> HIDE DEF x
<1>4. /\ r \in ClientRec /\ r.op = "token" /\ r.tries = 1 /\ r.auths = 0 /\ r.pc = "idle"
      /\ r.result = "none" /\ r.cookie = x.cookie /\ r.token = x.token /\ r.nonce = x.nonce
  BY <1>1, <1>2 DEF ClientRec
<1>5. "tee" \in Points /\ "ok" \in Results
  BY DEF Points, Results
<1> HIDE DEF r
<1>6. /\ f \in ClientRec /\ f.op = "token" /\ f.tries = 1 /\ f.auths = 0
      /\ f.cookie = x.cookie /\ f.token = x.token /\ f.nonce = x.nonce
      /\ \/ f.pc = "done" /\ f.result = "ok" /\ TokenValid(f)
         \/ f.pc = "tee" /\ f.result = "none"
  BY <1>4, <1>5, Finishes DEF ClientRec, TokenValid, Keeps
<1>7. TokenValid(f) => f.token > 0 /\ sess[f.token].fresh
  BY DEF TokenValid, Sessions
<1> HIDE DEF f
<1>8. Good(c, f, sess, FALSE)
  BY <1>2, <1>6, <1>7 DEF Good, Numbers, Challenge, Challenged, Mine, Counted, Fresh
<1>9. Smooth(c, f, sess)
  BY <1>6 DEF Smooth, Challenged
<1> QED BY <1>3, <1>6, <1>8, <1>9, Begins DEF x

LEMMA GetResourceStep == ASSUME NEW c \in Clients, RcarInv, GetResource(c) PROVE Kept
<1> DEFINE x == cl[c]
           f == [x EXCEPT !.op = "resource", !.attempt = 1, !.auths = 0, !.pc = "get"]
<1>1. x \in ClientRec /\ Good(c, x, sess, hurt[c]) /\ x.pc = "idle" /\ Len(sess) \in Nat
  BY OfClient DEF GetResource
<1>2. x.result = "none" /\ Numbers(x, sess) /\ Mine(c, x, sess) /\ 1 \in 0 .. GetMaxAttempt
  BY <1>1, Bounds DEF Good, Fresh
<1>3. /\ Set(c, f) /\ UNCHANGED sess /\ ops' = [ops EXCEPT ![c] = @ + 1]
      /\ hurt' = [hurt EXCEPT ![c] = FALSE]
  BY DEF GetResource
<1> HIDE DEF x
<1>4. /\ f \in ClientRec /\ f.op = "resource" /\ f.attempt = 1 /\ f.auths = 0 /\ f.pc = "get"
      /\ f.result = "none" /\ f.cookie = x.cookie /\ f.token = x.token /\ f.nonce = x.nonce
  BY <1>1, <1>2 DEF ClientRec, Points
<1> HIDE DEF f
<1>8. Good(c, f, sess, FALSE)
  BY <1>2, <1>4 DEF Good, Numbers, Challenge, Challenged, Mine, Counted, Fresh
<1>9. Smooth(c, f, sess)
  BY <1>4 DEF Smooth, Challenged, Handshaking
<1> QED BY <1>3, <1>4, <1>8, <1>9, Begins DEF x

LEMMA ReturnStep == ASSUME NEW c \in Clients, RcarInv, Return(c) PROVE Kept
<1> DEFINE x == cl[c]
           f == [x EXCEPT !.pc = "idle", !.result = "none", !.tries = 0, !.attempt = 0,
                          !.auths = 0]
<1>1. x \in ClientRec /\ Good(c, x, sess, hurt[c]) /\ Len(sess) \in Nat
  BY OfClient DEF Return
<1>2. Numbers(x, sess) /\ Mine(c, x, sess) /\ 0 \in 0 .. GetMaxAttempt /\ 0 \in 0 .. RcarMaxAttempt
  BY <1>1, Bounds DEF Good
<1>3. Set(c, f) /\ UNCHANGED <<sess, ops, hurt>>
  BY DEF Return
<1> HIDE DEF x
<1>4. /\ f \in ClientRec /\ f.attempt = 0 /\ f.tries = 0 /\ f.auths = 0 /\ f.pc = "idle"
      /\ f.result = "none" /\ f.cookie = x.cookie /\ f.token = x.token /\ f.nonce = x.nonce
  BY <1>1, <1>2 DEF ClientRec, Points, Results
<1> HIDE DEF f
<1>8. Good(c, f, sess, hurt[c])
  BY <1>2, <1>4 DEF Good, Numbers, Challenge, Challenged, Mine, Counted, Fresh
<1>9. Smooth(c, f, sess)
  BY <1>4 DEF Smooth, Challenged, Handshaking
<1> QED BY <1>3, <1>4, <1>8, <1>9, Quiet DEF x

\* A handshake that fails before its attestation.
LEMMA HandshakeFailsStep ==
  ASSUME NEW c \in Clients, RcarInv, Set(c, HandshakeFails(cl[c])), UNCHANGED <<sess, ops>>,
         Hurt(c), cl[c].pc \in Handshaking
  PROVE  Kept
<1> DEFINE x == cl[c]
<1>1. x \in ClientRec /\ Good(c, x, sess, hurt[c]) /\ Len(sess) \in Nat
  BY OfClient
<1>2. /\ x.auths <= (IF x.op = "token" THEN x.tries ELSE x.attempt) /\ x.result = "none"
      /\ {x.cookie, x.token} \subseteq 0 .. Len(sess) /\ Mine(c, x, sess)
  BY <1>1 DEF Good, Counted, Fresh, Numbers, Handshaking, Challenged, ClientRec
<1>3. sess' = sess
  OBVIOUS
<1> HIDE DEF x
<1>4. /\ HandshakeFails(x) \in ClientRec /\ HandshakeFails(x).cookie = x.cookie
      /\ Good(c, HandshakeFails(x), sess, TRUE)
  BY <1>1, <1>2, Failing
<1> QED BY <1>3, <1>4, SameSessions, Fails DEF x

LEMMA TeeTypeStep == ASSUME NEW c \in Clients, RcarInv, TeeType(c) PROVE Kept
<1> DEFINE x == cl[c]  f == [x EXCEPT !.pc = "auth", !.tee = TRUE]
<1>1. /\ x \in ClientRec /\ Good(c, x, sess, hurt[c]) /\ x.pc = "tee"
      /\ Set(c, f) /\ UNCHANGED <<sess, ops, hurt>>
  BY OfClient DEF TeeType
<1> HIDE DEF x
<1>2. /\ f \in ClientRec /\ f.pc = "auth" /\ f.op = x.op /\ f.tries = x.tries
      /\ f.attempt = x.attempt /\ f.auths = x.auths /\ f.result = x.result
      /\ f.cookie = x.cookie /\ f.token = x.token /\ f.nonce = x.nonce
  BY <1>1 DEF ClientRec, Points
<1> HIDE DEF f
<1>3. Good(c, f, sess, hurt[c])
  BY <1>1, <1>2 DEF Good, Numbers, Challenge, Challenged, Mine, Counted, Fresh
<1>4. Smooth(c, x, sess) => Smooth(c, f, sess)
  BY <1>1, <1>2 DEF Smooth, Challenged, Handshaking
<1> QED BY <1>1, <1>2, <1>3, <1>4, Quiet DEF x

LEMMA TeeTypeFailsStep == ASSUME NEW c \in Clients, RcarInv, TeeTypeFails(c) PROVE Kept
  BY HandshakeFailsStep DEF TeeTypeFails, Handshaking

LEMMA EvidenceFailsStep == ASSUME NEW c \in Clients, RcarInv, EvidenceFails(c) PROVE Kept
  BY HandshakeFailsStep DEF EvidenceFails, Handshaking, Challenged

LEMMA AuthStep == ASSUME NEW c \in Clients, RcarInv, Auth(c) PROVE Kept
<1> DEFINE x == cl[c]  n == Len(sess) + 1
           f == [x EXCEPT !.pc = "additional", !.cookie = n, !.nonce = n, !.auths = @ + 1]
<1>1. /\ x \in ClientRec /\ Good(c, x, sess, hurt[c]) /\ x.pc = "auth" /\ Set(c, f)
      /\ UNCHANGED <<ops, hurt>> /\ Len(sess) \in Nat
  BY OfClient DEF Auth, Open
<1>2. /\ Grows(c) /\ Len(sess') = n /\ n \in Ids /\ n > 0
      /\ sess'[n] = [keys |-> {}, live |-> TRUE, fresh |-> FALSE]
      /\ \A m \in Sessions : sess'[m] = sess[m]
  BY <1>1, OpensSession DEF Auth
<1>3. x.auths \in Nat /\ x.auths + 1 \in Nat /\ x.tries \in Nat /\ x.attempt \in Nat
  BY <1>1 DEF ClientRec
<1> HIDE DEF x, n
<1>4. /\ f \in ClientRec /\ f.pc = "additional" /\ f.op = x.op /\ f.tries = x.tries
      /\ f.attempt = x.attempt /\ f.auths = x.auths + 1 /\ f.result = x.result
      /\ f.cookie = n /\ f.token = x.token /\ f.nonce = n
  BY <1>1, <1>2, <1>3 DEF ClientRec, Points
<1> HIDE DEF f
<1>5. Numbers(f, sess') /\ Challenge(f)
  BY <1>1, <1>2, <1>4 DEF Good, Numbers, Challenge, Challenged, n
<1>6. Mine(c, f, sess') /\ Fresh(f, sess', hurt[c])
  BY <1>1, <1>2, <1>4 DEF Good, Mine, Fresh, Numbers, Sessions
<1>7. Counted(f)
  BY <1>1, <1>3, <1>4 DEF Good, Counted
<1>8. Smooth(c, x, sess) => Smooth(c, f, sess')
  BY <1>1, <1>2, <1>4 DEF Smooth, Challenged, Handshaking
<1>9. ops' \in [Clients -> Nat] /\ hurt' = hurt /\ hurt \in [Clients -> BOOLEAN]
  BY <1>1 DEF RcarInv
<1>10. RcarInv' /\ (AllSmooth /\ (hurt'[c] \/ Smooth(c, f, sess')) => AllSmooth')
  BY <1>1, <1>2, <1>4, <1>5, <1>6, <1>7, <1>9, OneClient DEF Good, n
<1>11. AllSmooth => hurt[c] \/ Smooth(c, x, sess)
  BY DEF AllSmooth, x
<1> QED BY <1>8, <1>9, <1>10, <1>11 DEF Kept

LEMMA AuthFailsStep == ASSUME NEW c \in Clients, RcarInv, AuthFails(c) PROVE Kept
<1> DEFINE x == cl[c]  n == Len(sess) + 1
           y == [x EXCEPT !.auths = @ + 1]
           z == [x EXCEPT !.cookie = n, !.auths = @ + 1]
<1>1. /\ x \in ClientRec /\ Good(c, x, sess, hurt[c]) /\ x.pc = "auth" /\ Hurt(c)
      /\ ops' = ops /\ Len(sess) \in Nat
  BY OfClient DEF AuthFails
<1>2. /\ x.auths \in Nat /\ x.auths + 1 \in Nat /\ x.tries \in Nat /\ x.attempt \in Nat
      /\ x.op \in {"token", "resource"} /\ x.cookie \in Ids
  BY <1>1 DEF ClientRec
<1>3. /\ x.auths + 1 <= (IF x.op = "token" THEN x.tries ELSE x.attempt) /\ x.result = "none"
      /\ {x.cookie, x.token} \subseteq 0 .. Len(sess)
  BY <1>1, <1>2 DEF Good, Counted, Fresh, Numbers
<1>4. CASE Set(c, HandshakeFails(y)) /\ (Open(c) \/ UNCHANGED sess)
  <2>1. Grows(c) /\ Mine(c, x, sess')
    <3>1. CASE UNCHANGED sess
      <4>1. sess' = sess
        BY <3>1
      <4> QED BY <1>1, <4>1, SameSessions DEF Good, Mine
    <3>2. CASE Open(c)
      <4>1. sess' = Append(sess, [keys |-> {}, live |-> TRUE, fresh |-> FALSE])
        BY <3>2 DEF Open
      <4>2. Grows(c) /\ Len(sess') = Len(sess) + 1
        BY <3>2, OpensSession
      <4>3. /\ x.cookie > 0 => sess'[x.cookie] = sess[x.cookie]
            /\ x.token > 0 => sess'[x.token] = sess[x.token]
        BY <1>1, <1>3, <4>1 DEF RcarInv, SessOK
      <4> QED BY <1>1, <4>2, <4>3 DEF Good, Mine
    <3> QED BY <1>4, <3>1, <3>2
  <2>2. Len(sess) <= Len(sess') /\ Len(sess') \in Nat
    BY <2>1 DEF Grows, SessOK
  <2> HIDE DEF x
  <2>3. /\ y \in ClientRec /\ y.op = x.op /\ y.tries = x.tries /\ y.attempt = x.attempt
        /\ y.auths = x.auths + 1 /\ y.result = x.result /\ y.cookie = x.cookie
        /\ y.token = x.token
    BY <1>1, <1>2 DEF ClientRec
  <2> HIDE DEF y
  <2>4. {y.cookie, y.token} \subseteq 0 .. Len(sess') /\ Mine(c, y, sess')
    BY <1>3, <2>1, <2>2, <2>3 DEF Mine
  <2>5. /\ HandshakeFails(y) \in ClientRec /\ HandshakeFails(y).cookie = x.cookie
        /\ Good(c, HandshakeFails(y), sess', TRUE)
    BY <1>3, <2>3, <2>4, Failing
  <2> QED BY <1>1, <1>4, <2>1, <2>5, Fails DEF x
<1>5. CASE Set(c, HandshakeFails(z)) /\ Open(c)
  <2>1. /\ Grows(c) /\ Len(sess') = n /\ n \in Ids /\ n > 0
        /\ sess'[n] = [keys |-> {}, live |-> TRUE, fresh |-> FALSE]
        /\ x.token > 0 => sess'[x.token].keys = {c}
    BY <1>1, <1>3, <1>5, OpensSession DEF Good, Mine, Sessions
  <2> HIDE DEF x, n
  <2>2. /\ z \in ClientRec /\ z.op = x.op /\ z.tries = x.tries /\ z.attempt = x.attempt
        /\ z.auths = x.auths + 1 /\ z.result = x.result /\ z.cookie = n /\ z.token = x.token
    BY <1>1, <1>2, <2>1 DEF ClientRec
  <2> HIDE DEF z
  <2>3. {z.cookie, z.token} \subseteq 0 .. Len(sess') /\ Mine(c, z, sess')
    BY <1>1, <1>3, <2>1, <2>2 DEF Mine, n
  <2>4. /\ HandshakeFails(z) \in ClientRec /\ HandshakeFails(z).cookie = n
        /\ Good(c, HandshakeFails(z), sess', TRUE)
    BY <1>3, <2>2, <2>3, Failing
  <2> QED BY <1>1, <1>5, <2>1, <2>4, Fails DEF x, n
<1> QED BY <1>4, <1>5 DEF AuthFails

LEMMA AdditionalEvidenceStep == ASSUME NEW c \in Clients, RcarInv, AdditionalEvidence(c) PROVE Kept
<1> DEFINE x == cl[c]  f == [x EXCEPT !.pc = "primary", !.add = x.nonce]
<1>1. /\ x \in ClientRec /\ Good(c, x, sess, hurt[c]) /\ x.pc = "additional"
      /\ Set(c, f) /\ UNCHANGED <<sess, ops, hurt>>
  BY OfClient DEF AdditionalEvidence
<1> HIDE DEF x
<1>2. /\ f \in ClientRec /\ f.pc = "primary" /\ f.op = x.op /\ f.tries = x.tries
      /\ f.attempt = x.attempt /\ f.auths = x.auths /\ f.result = x.result
      /\ f.cookie = x.cookie /\ f.token = x.token /\ f.nonce = x.nonce /\ f.add = x.nonce
  BY <1>1 DEF ClientRec, Points
<1> HIDE DEF f
<1>3. Good(c, f, sess, hurt[c])
  BY <1>1, <1>2 DEF Good, Numbers, Challenge, Challenged, Mine, Counted, Fresh
<1>4. Smooth(c, x, sess) => Smooth(c, f, sess)
  BY <1>1, <1>2 DEF Smooth, Challenged, Handshaking
<1> QED BY <1>1, <1>2, <1>3, <1>4, Quiet DEF x

LEMMA PrimaryEvidenceStep == ASSUME NEW c \in Clients, RcarInv, PrimaryEvidence(c) PROVE Kept
<1> DEFINE x == cl[c]  f == [x EXCEPT !.pc = "attest", !.ev = x.nonce]
<1>1. /\ x \in ClientRec /\ Good(c, x, sess, hurt[c]) /\ x.pc = "primary"
      /\ Set(c, f) /\ UNCHANGED <<sess, ops, hurt>>
  BY OfClient DEF PrimaryEvidence
<1> HIDE DEF x
<1>2. /\ f \in ClientRec /\ f.pc = "attest" /\ f.op = x.op /\ f.tries = x.tries
      /\ f.attempt = x.attempt /\ f.auths = x.auths /\ f.result = x.result
      /\ f.cookie = x.cookie /\ f.token = x.token /\ f.nonce = x.nonce /\ f.add = x.add
      /\ f.ev = x.nonce
  BY <1>1 DEF ClientRec, Points
<1> HIDE DEF f
<1>3. Good(c, f, sess, hurt[c])
  BY <1>1, <1>2 DEF Good, Numbers, Challenge, Challenged, Mine, Counted, Fresh
<1>4. Smooth(c, x, sess) => Smooth(c, f, sess)
  BY <1>1, <1>2 DEF Smooth, Challenged, Handshaking
<1> QED BY <1>1, <1>2, <1>3, <1>4, Quiet DEF x

LEMMA WakeStep == ASSUME NEW c \in Clients, RcarInv, Wake(c) PROVE Kept
<1> DEFINE x == cl[c]  f == [x EXCEPT !.pc = "tee"]
<1>1. /\ x \in ClientRec /\ Good(c, x, sess, hurt[c]) /\ x.pc = "sleep"
      /\ Set(c, f) /\ UNCHANGED <<sess, ops, hurt>>
  BY OfClient DEF Wake
<1>0. x.op = "token"
  BY <1>1 DEF Good, Counted, ClientRec
<1> HIDE DEF x
<1>2. /\ f \in ClientRec /\ f.pc = "tee" /\ f.op = x.op /\ f.tries = x.tries
      /\ f.attempt = x.attempt /\ f.auths = x.auths /\ f.result = x.result
      /\ f.cookie = x.cookie /\ f.token = x.token /\ f.nonce = x.nonce
  BY <1>1 DEF ClientRec, Points
<1> HIDE DEF f
<1>3. Good(c, f, sess, hurt[c])
  BY <1>0, <1>1, <1>2 DEF Good, Numbers, Challenge, Challenged, Mine, Counted, Fresh
<1>4. Smooth(c, x, sess) => Smooth(c, f, sess)
  BY <1>0, <1>1, <1>2 DEF Smooth, Challenged, Handshaking
<1> QED BY <1>1, <1>2, <1>3, <1>4, Quiet DEF x

LEMMA UnauthorizedStep == ASSUME NEW c \in Clients, RcarInv, Unauthorized(c) PROVE Kept
<1> DEFINE x == cl[c]  f == [x EXCEPT !.pc = "tee"]
<1>1. /\ x \in ClientRec /\ Good(c, x, sess, hurt[c]) /\ x.pc = "get"
      /\ Set(c, f) /\ UNCHANGED <<sess, ops, hurt>>
      /\ x.cookie \in 0 .. Len(sess) /\ Len(sess) \in Nat
  BY OfClient DEF Unauthorized
<1>0. x.op = "resource" /\ x.attempt \in Nat
  BY <1>1 DEF Good, Counted, ClientRec
<1>5. ~(x.cookie > 0 /\ sess[x.cookie].live /\ sess[x.cookie].keys = {c})
  <2>1. {c} # {} /\ (x.cookie > 0 => x.cookie \in Sessions)
    BY <1>1 DEF Sessions
  <2>2. QED
    BY <2>1 DEF Unauthorized, Authorized
<1>6. x.auths < x.attempt /\ x.auths \in Nat
  BY <1>0, <1>1 DEF Good, Counted, ClientRec
<1> HIDE DEF x
<1>2. /\ f \in ClientRec /\ f.pc = "tee" /\ f.op = x.op /\ f.tries = x.tries
      /\ f.attempt = x.attempt /\ f.auths = x.auths /\ f.result = x.result
      /\ f.cookie = x.cookie /\ f.token = x.token /\ f.nonce = x.nonce
  BY <1>1 DEF ClientRec, Points
<1> HIDE DEF f
<1>3. Good(c, f, sess, hurt[c])
  BY <1>0, <1>1, <1>2 DEF Good, Numbers, Challenge, Challenged, Mine, Counted, Fresh
<1>4. Smooth(c, x, sess) => Smooth(c, f, sess)
  BY <1>0, <1>1, <1>2, <1>5, <1>6 DEF Smooth, Challenged, Handshaking
<1> QED BY <1>1, <1>2, <1>3, <1>4, Quiet DEF x

\* An answer to the request for the resource.
LEMMA AnswerIsGood ==
  ASSUME NEW c \in Clients, RcarInv, cl[c].pc = "get", NEW e \in Results \ {"none"}, NEW h
  PROVE  /\ Finish(cl[c], e) \in ClientRec /\ Finish(cl[c], e).cookie = cl[c].cookie
         /\ Good(c, Finish(cl[c], e), sess, h)
<1> DEFINE x == cl[c]  f == Finish(x, e)
<1>1. x \in ClientRec /\ Good(c, x, sess, hurt[c]) /\ x.pc = "get"
  BY OfClient
<1>0. x.op = "resource"
  BY <1>1 DEF Good, Counted, ClientRec
<1> HIDE DEF x
<1>2. /\ f \in ClientRec /\ f.pc = "done" /\ f.op = x.op /\ f.tries = x.tries
      /\ f.attempt = x.attempt /\ f.auths = x.auths /\ f.result = e
      /\ f.cookie = x.cookie /\ f.token = x.token /\ f.nonce = x.nonce
  BY <1>1, Finishes DEF Keeps
<1> HIDE DEF f
<1>3. Good(c, f, sess, h)
  BY <1>0, <1>1, <1>2 DEF Good, Numbers, Challenge, Challenged, Mine, Counted, Fresh
<1> QED BY <1>2, <1>3 DEF x, f

LEMMA ResourceStep == ASSUME NEW c \in Clients, RcarInv, Resource(c) PROVE Kept
<1> DEFINE x == cl[c]  e == IF c \in sess[x.cookie].keys THEN "ok" ELSE "failed"
           f == Finish(x, e)
<1>1. /\ x \in ClientRec /\ Good(c, x, sess, hurt[c]) /\ x.pc = "get"
      /\ Set(c, f) /\ UNCHANGED <<sess, ops, hurt>>
      /\ x.cookie \in 0 .. Len(sess) /\ Len(sess) \in Nat /\ Authorized(c)
  BY OfClient DEF Resource
<1>2. e = "ok"
  BY <1>1 DEF Authorized, Sessions, Good, Mine
<1>3. "ok" \in Results
  BY DEF Results
<1> HIDE DEF e
<1>4. f \in ClientRec /\ f.cookie = x.cookie /\ Good(c, f, sess, hurt[c])
  BY <1>1, <1>2, <1>3, AnswerIsGood
<1>5. f.pc = "done" /\ f.result = "ok"
  BY <1>1, <1>2, <1>3, Finishes
<1> HIDE DEF f
<1>6. Smooth(c, f, sess)
  BY <1>5 DEF Smooth, Challenged, Handshaking
<1> QED BY <1>1, <1>4, <1>6, Quiet DEF x

LEMMA ResourceFailsStep == ASSUME NEW c \in Clients, RcarInv, ResourceFails(c) PROVE Kept
<1>1. PICK e \in Results \ {"none"} : Set(c, Finish(cl[c], e))
  BY DEF ResourceFails, Results
<1>2. cl[c].pc = "get" /\ Hurt(c) /\ sess' = sess /\ ops' = ops
  BY DEF ResourceFails
<1> QED BY <1>1, <1>2, AnswerIsGood, SameSessions, Fails

LEMMA AttestStep == ASSUME NEW c \in Clients, RcarInv, Attest(c) PROVE Kept
<1> DEFINE x == cl[c]  n == x.cookie  y == [x EXCEPT !.token = n]  f == HandshakeEnds(y)
<1>1. /\ x \in ClientRec /\ Good(c, x, sess, hurt[c]) /\ x.pc = "attest" /\ Set(c, f)
      /\ UNCHANGED <<ops, hurt>> /\ n \in 0 .. Len(sess) /\ Len(sess) \in Nat
  BY OfClient DEF Attest
<1>2. /\ Grows(c) /\ Len(sess') = Len(sess) /\ n \in Sessions /\ sess'[n].keys = {c}
      /\ sess'[n].fresh /\ sess'[n].live = sess[n].live
  BY <1>1, AttestsSession DEF Attest
<1>3. /\ x.auths \in Nat /\ x.tries \in Nat /\ x.attempt \in Nat /\ n \in Ids /\ n > 0
      /\ x.op \in {"token", "resource"}
  BY <1>1, <1>2 DEF ClientRec, Sessions
<1>4. x.auths <= (IF x.op = "token" THEN x.tries ELSE x.attempt) /\ x.result = "none"
  BY <1>1, <1>3 DEF Good, Counted, Fresh
<1>6. sess[n].live
  BY <1>1 DEF Attest, Attestable
<1> HIDE DEF x
<1>7. /\ y \in ClientRec /\ y.op = x.op /\ y.tries = x.tries /\ y.attempt = x.attempt
      /\ y.auths = x.auths /\ y.result = x.result /\ y.cookie = n /\ y.token = n
  BY <1>1, <1>3 DEF ClientRec
<1> HIDE DEF y, n
<1>8. {y.cookie, y.token} \subseteq 0 .. Len(sess') /\ Mine(c, y, sess')
  BY <1>1, <1>2, <1>7 DEF Mine
<1>9. f \in ClientRec /\ f.cookie = n /\ Good(c, f, sess', hurt[c])
  BY <1>2, <1>3, <1>4, <1>7, <1>8, Succeeding
<1>10. ops' \in [Clients -> Nat] /\ hurt' = hurt /\ hurt \in [Clients -> BOOLEAN]
  BY <1>1 DEF RcarInv
<1>11. RcarInv' /\ (AllSmooth /\ (hurt'[c] \/ Smooth(c, f, sess')) => AllSmooth')
  BY <1>1, <1>2, <1>9, <1>10, OneClient DEF n, x
<1>12. ASSUME GetMaxAttempt > 1, Smooth(c, x, sess) PROVE Smooth(c, f, sess')
  <2>1. y.op = "resource" => y.attempt = 1
    BY <1>1, <1>7, <1>12 DEF Smooth, Handshaking, Challenged
  <2>2. QED
    BY <1>2, <1>3, <1>4, <1>6, <1>7, <1>12, <2>1, EndsSmoothly
<1>13. AllSmooth => hurt[c] \/ Smooth(c, x, sess)
  BY DEF AllSmooth, x
<1> QED BY <1>10, <1>11, <1>12, <1>13 DEF Kept

\* Without a disturbance the session is there and the evidence is bound to it,
\* so that the KBS attests it.
LEMMA AttestFailsStep == ASSUME NEW c \in Clients, RcarInv, AttestFails(c) PROVE Kept
<1> DEFINE x == cl[c]  n == x.cookie  f == HandshakeFails(x)
<1>1. /\ x \in ClientRec /\ Good(c, x, sess, hurt[c]) /\ x.pc = "attest" /\ Set(c, f)
      /\ ops' = ops /\ n \in 0 .. Len(sess) /\ Len(sess) \in Nat
  BY OfClient DEF AttestFails
<1>2. /\ x.auths <= (IF x.op = "token" THEN x.tries ELSE x.attempt) /\ x.result = "none"
      /\ {x.cookie, x.token} \subseteq 0 .. Len(sess) /\ Mine(c, x, sess)
  BY <1>1 DEF Good, Counted, Fresh, Numbers, ClientRec
<1>3. /\ Grows(c) /\ {x.cookie, x.token} \subseteq 0 .. Len(sess') /\ Mine(c, x, sess')
  <2>1. CASE UNCHANGED sess
    BY <1>2, <2>1, SameSessions
  <2>2. CASE AttestSession(c)
    BY <1>1, <1>2, <2>2, AttestsSession DEF Mine, Sessions
  <2> QED BY <2>1, <2>2 DEF AttestFails
<1>4. f \in ClientRec /\ f.cookie = x.cookie /\ Good(c, f, sess', TRUE)
  BY <1>1, <1>2, <1>3, Failing
<1>5. CASE Hurt(c)
  BY <1>1, <1>3, <1>4, <1>5, Fails
<1>6. CASE ~Attestable(c) /\ UNCHANGED <<sess, hurt>>
  <2>1. n > 0 /\ n \in Sessions /\ {x.add, x.ev} = {n}
    BY <1>1 DEF Good, Challenge, Challenged, Sessions
  <2>2. ~sess[n].live
    BY <1>6, <2>1 DEF Attestable
  <2>3. ~Smooth(c, x, sess)
    BY <1>1, <2>2 DEF Smooth, Challenged
  <2>4. f.pc # "done" \/ f.result # "ok"
    BY DEF HandshakeFails, Retry, Finish
  <2>5. Good(c, f, sess, hurt[c])
    <3> HIDE DEF f
    <3> QED BY <1>4, <1>6, <2>4 DEF Good, Fresh
  <2> HIDE DEF f
  <2>6. QED
    BY <1>1, <1>4, <1>6, <2>3, <2>5, Quiet
<1> QED BY <1>5, <1>6 DEF AttestFails

-----------------------------------------------------------------------------
\* Time and the KBS disturb every client, and take nothing else away.
Wears ==
  /\ sess' \in Seq(Session) /\ Len(sess') = Len(sess)
  /\ \A n \in Sessions : sess'[n].keys = sess[n].keys
  /\ cl' = cl /\ ops' = ops /\ hurt' = [c \in Clients |-> TRUE]

LEMMA WearsKept == ASSUME RcarInv, Wears PROVE Kept
<1>1. ASSUME NEW c \in Clients PROVE Good(c, cl[c], sess', TRUE)
  <2> DEFINE x == cl[c]
  <2>1. Good(c, x, sess, hurt[c]) /\ x.cookie \in 0 .. Len(sess) /\ Len(sess) \in Nat
    BY OfClient
  <2> HIDE DEF x
  <2>2. /\ x.cookie > 0 => sess'[x.cookie].keys = sess[x.cookie].keys
        /\ x.token > 0 => sess'[x.token].keys = sess[x.token].keys
    BY <2>1 DEF Wears, Sessions, Good, Numbers
  <2>3. Good(c, x, sess', TRUE)
    BY <2>1, <2>2 DEF Good, Numbers, Mine, Fresh, Wears
  <2> QED BY <2>3 DEF x
<1>2. RcarInv'
  BY <1>1 DEF RcarInv, SessOK, OwnCookies, Wears
<1>3. AllSmooth'
  BY DEF AllSmooth, Wears
<1> QED BY <1>2, <1>3 DEF Kept

LEMMA EnvWears == ASSUME RcarInv, Env PROVE Wears
<1>1. sess \in Seq(Session) /\ Len(sess) \in Nat
  BY DEF RcarInv, SessOK
<1>2. \A m \in Sessions : sess[m] \in Session
  BY <1>1, ElementOfSeq DEF Sessions
<1>3. CASE KbsRestart
  <2>1. /\ \A m \in 1 .. Len(sess) : /\ [sess[m] EXCEPT !.live = FALSE] \in Session
                                     /\ [sess[m] EXCEPT !.live = FALSE].keys = sess[m].keys
    BY <1>2 DEF Session, Sessions
  <2>2. sess' = [m \in 1 .. Len(sess) |-> [sess[m] EXCEPT !.live = FALSE]]
    BY <1>3 DEF KbsRestart, Sessions
  <2>3. sess' \in [1 .. Len(sess) -> Session]
    BY <2>1, <2>2
  <2>4. sess' \in Seq(Session) /\ Len(sess') = Len(sess)
    BY <1>1, <2>3, LenProperties
  <2> QED BY <1>3, <2>1, <2>2, <2>4 DEF Wears, KbsRestart, Sessions
<1>4. ASSUME NEW n \in 1 .. MaxSessions, Expire(n) PROVE Wears
  <2>1. /\ [sess[n] EXCEPT !.live = FALSE] \in Session /\ [sess[n] EXCEPT !.fresh = FALSE] \in Session
        /\ [sess[n] EXCEPT !.live = FALSE].keys = sess[n].keys
        /\ [sess[n] EXCEPT !.fresh = FALSE].keys = sess[n].keys
        /\ n \in 1 .. Len(sess)
    BY <1>2, <1>4 DEF Expire, Session, Sessions
  <2>2. PICK x \in {[sess[n] EXCEPT !.live = FALSE], [sess[n] EXCEPT !.fresh = FALSE]} :
          sess' = [sess EXCEPT ![n] = x]
    BY <1>4 DEF Expire
  <2>3. x \in Session /\ x.keys = sess[n].keys
    BY <2>1, <2>2
  <2>4. /\ sess' \in Seq(Session) /\ Len(sess') = Len(sess) /\ sess'[n] = x
        /\ \A m \in 1 .. Len(sess) : m # n => sess'[m] = sess[m]
    BY <1>1, <2>1, <2>2, <2>3, ExceptSeq
  <2> QED BY <1>4, <2>3, <2>4 DEF Wears, Expire, Sessions
<1> QED BY <1>3, <1>4 DEF Env

LEMMA EnvStep == ASSUME RcarInv, Env PROVE Kept
  BY EnvWears, WearsKept

LEMMA StartStep == ASSUME NEW c \in Clients, RcarInv, Start(c) PROVE Kept
  BY GetTokenStep, GetResourceStep DEF Start

LEMMA ClientStep == ASSUME NEW c \in Clients, RcarInv, Step(c) PROVE Kept
  BY TeeTypeStep, TeeTypeFailsStep, AuthStep, AuthFailsStep, AdditionalEvidenceStep,
     PrimaryEvidenceStep, EvidenceFailsStep, AttestStep, AttestFailsStep, WakeStep,
     ResourceStep, UnauthorizedStep, ResourceFailsStep, ReturnStep DEF Step

LEMMA StutterStep == ASSUME RcarInv, UNCHANGED vars PROVE Kept
  BY DEF vars, RcarInv, SessOK, OwnCookies, Kept, AllSmooth

LEMMA RcarInit == Init => RcarInv /\ AllSmooth
<1> SUFFICES ASSUME Init PROVE RcarInv /\ AllSmooth
  OBVIOUS
<1>1. NewClient \in ClientRec
  BY Bounds DEF NewClient, ClientRec, Points, Results, Ids
<1>2. Len(sess) = 0 /\ sess \in Seq(Session) /\ 0 <= MaxSessions
  BY Bounds DEF Init
<1>3. ASSUME NEW c \in Clients
      PROVE Good(c, NewClient, sess, FALSE) /\ Smooth(c, NewClient, sess)
  BY <1>2 DEF NewClient, Good, Numbers, Challenge, Challenged, Mine, Counted, Fresh, Smooth,
              Handshaking
<1>4. OwnCookies
  BY DEF Init, OwnCookies, NewClient
<1> QED BY <1>1, <1>2, <1>3, <1>4 DEF Init, RcarInv, AllSmooth, SessOK

LEMMA RcarStep == RcarInv /\ [Next]_vars => Kept
  BY EnvStep, StartStep, ClientStep, StutterStep DEF Next

LEMMA RcarTypes == RcarInv => TypeOK
  BY DEF RcarInv, TypeOK, ClientRec, SessOK

LEMMA SoundByInv == RcarInv => HandshakesAreSound
<1> SUFFICES ASSUME RcarInv PROVE HandshakesAreSound
  OBVIOUS
<1>1. ASSUME NEW c \in Clients
      PROVE  /\ cl[c].pc = "attest" => {cl[c].add, cl[c].ev, cl[c].nonce} = {cl[c].cookie}
             /\ cl[c].pc = "done" /\ cl[c].op = "token" /\ cl[c].result = "ok" =>
                  hurt[c] \/ \E n \in Sessions : cl[c].token = n /\ sess[n].fresh
             /\ cl[c].auths <= IF cl[c].op = "token" THEN RcarMaxAttempt ELSE GetMaxAttempt
  <2> DEFINE x == cl[c]
  <2>1. x \in ClientRec /\ Good(c, x, sess, hurt[c]) /\ Len(sess) \in Nat /\ hurt[c] \in BOOLEAN
    BY OfClient
  <2> HIDE DEF x
  <2>2. x.pc = "attest" => {x.add, x.ev, x.nonce} = {x.cookie}
    BY <2>1 DEF Good, Challenge, Challenged
  <2>3. x.pc = "done" /\ x.op = "token" /\ x.result = "ok" /\ ~hurt[c] =>
          x.token \in Sessions /\ sess[x.token].fresh
    BY <2>1 DEF Good, Fresh, Numbers, Sessions
  <2>4. x.auths <= IF x.op = "token" THEN RcarMaxAttempt ELSE GetMaxAttempt
    BY <2>1, Bounds DEF Good, Counted, ClientRec
  <2> QED BY <2>2, <2>3, <2>4 DEF x
<1> QED BY <1>1 DEF HandshakesAreSound, EvidenceAnswersChallenge, TokenReturnedIsValid,
                    HandshakesBounded

\* The client keeps its types whatever the KBS answers, loses or forgets.
THEOREM RcarTyped == Spec => []TypeOK
<1>1. RcarInv /\ [Next]_vars => RcarInv'
  BY RcarStep DEF Kept
<1>2. QED
  BY <1>1, RcarInit, RcarTypes, PTL DEF Spec

\* What is sent to /attest answers the challenge of the session the cookie names,
\* a token returned is a token of now unless something failed or expired, and
\* /auth is asked no more often than the attempts allow (rcar_client.rs).
THEOREM Soundness == Spec => []HandshakesAreSound
<1>1. RcarInv /\ [Next]_vars => RcarInv'
  BY RcarStep DEF Kept
<1>2. QED
  BY <1>1, RcarInit, SoundByInv, PTL DEF Spec

\* If get_resource may ask a second time, as the code's constant of 3 lets it, an
\* operation that nothing disturbs succeeds, whatever happened to the session
\* and the token before it.
THEOREM Succeeds == ASSUME GetMaxAttempt > 1 PROVE Spec => []NoNeedlessFailure
<1>1. RcarInv /\ AllSmooth /\ [Next]_vars => RcarInv' /\ AllSmooth'
  BY RcarStep DEF Kept
<1>2. AllSmooth => NoNeedlessFailure
  BY DEF AllSmooth, Smooth, NoNeedlessFailure
<1>3. QED
  BY <1>1, <1>2, RcarInit, PTL DEF Spec

-----------------------------------------------------------------------------
(* Part 2: TokenClient.  Clients of RcarClient are now calls to the agent,  *)
(* and may be dropped at any point; their invariant is the one of part 1.   *)
(* What a hub holds is certified by a session that only the key pair of the *)
(* same call can attest again.                                              *)

HubRec == [pc : HubPoints, attempt : 0 .. GetMaxAttempt, token : Ids, key : SUBSET Clients,
           call : SUBSET Clients, gets : 0 .. MaxGets, refused : BOOLEAN,
           result : HubResults, hurt : BOOLEAN]

HubGood(r, s) ==
  /\ r.token > 0 => r.token <= Len(s) /\ r.key # {} /\ s[r.token].keys = r.key
  /\ r.result # "unreadable"
  /\ r.pc # "done" => r.result = "none"
  /\ r.pc \in {"ask", "wait", "get"} => r.attempt > 0

\* A hub whose operation nothing has disturbed has been refused at most once,
\* and its second request is with a token of now.
HubSmooth(r, s) ==
  /\ r.result \in {"none", "ok"}
  /\ r.pc \in {"ask", "wait"} => r.attempt = 1
  /\ r.pc = "get" /\ r.attempt > 1 => r.token > 0 /\ s[r.token].fresh

\* The agent is asked for tokens only.
TokensOnly == \A c \in Clients : cl[c].op = "token"

HubInv == /\ RcarInv /\ TokensOnly
          /\ hub \in [Hubs -> HubRec] /\ gone \subseteq Clients
          /\ \A h \in Hubs : HubGood(hub[h], sess)

HubsSmooth == \A h \in Hubs : hub[h].hurt \/ HubSmooth(hub[h], sess)

HubKept == /\ HubInv'
           /\ GetMaxAttempt > 1 /\ AllSmooth /\ HubsSmooth => AllSmooth' /\ HubsSmooth'

\* Sessions are only added, and one that is attested stays attested for its key.
Ripens == /\ {Len(sess), Len(sess')} \subseteq Nat /\ Len(sess) <= Len(sess')
          /\ \A n \in Sessions : sess[n].keys # {} => sess'[n].keys = sess[n].keys
Lasts == \A n \in Sessions : sess[n].fresh => sess'[n].fresh

LEMMA HubRecords ==
  ASSUME HubInv, NEW h \in Hubs
  PROVE  /\ hub[h] \in HubRec /\ HubGood(hub[h], sess) /\ hub[h].token \in Nat
         /\ hub[h].attempt \in 0 .. GetMaxAttempt
  BY DEF HubInv, HubRec, Ids

LEMMA RipeHub ==
  ASSUME NEW r \in HubRec, Ripens, HubGood(r, sess)
  PROVE  HubGood(r, sess') /\ (Lasts /\ HubSmooth(r, sess) => HubSmooth(r, sess'))
<1>1. r.token \in Nat /\ (r.token > 0 => r.token \in Sessions)
  BY DEF HubRec, Ids, HubGood, Ripens, Sessions
<1>2. HubGood(r, sess')
  BY <1>1 DEF HubGood, Ripens
<1>3. Lasts /\ HubSmooth(r, sess) => HubSmooth(r, sess')
  BY <1>1 DEF HubSmooth, Lasts
<1> QED BY <1>2, <1>3

\* A step of one hub.
LEMMA OneHub ==
  ASSUME HubInv, RcarInv', TokensOnly', NEW h \in Hubs, NEW r \in HubRec, SetHub(h, r), Ripens, Lasts,
         gone' \subseteq Clients, HubGood(r, sess')
  PROVE  /\ HubInv'
         /\ HubsSmooth /\ (r.hurt \/ HubSmooth(r, sess')) => HubsSmooth'
<1>1. /\ hub' \in [Hubs -> HubRec] /\ hub'[h] = r
      /\ \A g \in Hubs \ {h} : hub'[g] = hub[g]
  BY DEF SetHub, HubInv
<1>2. \A g \in Hubs \ {h} : /\ HubGood(hub[g], sess')
                            /\ HubSmooth(hub[g], sess) => HubSmooth(hub[g], sess')
  BY HubRecords, RipeHub
<1> QED BY <1>1, <1>2 DEF HubInv, HubsSmooth

LEMMA NoHub ==
  ASSUME HubInv, Kept, TokensOnly', hub' = hub, Ripens, Lasts, gone' \subseteq Clients
  PROVE  HubKept
<1>1. \A g \in Hubs : /\ HubGood(hub[g], sess')
                      /\ HubSmooth(hub[g], sess) => HubSmooth(hub[g], sess')
  BY HubRecords, RipeHub
<1> QED BY <1>1 DEF HubInv, HubsSmooth, HubKept, Kept

\* A step of a hub that leaves the agent and the KBS alone.
LEMMA AloneHub ==
  ASSUME HubInv, NEW h \in Hubs, NEW r \in HubRec, SetHub(h, r), UNCHANGED vars,
         gone' \subseteq Clients, HubGood(r, sess),
         GetMaxAttempt > 1 /\ (hub[h].hurt \/ HubSmooth(hub[h], sess))
           => r.hurt \/ HubSmooth(r, sess)
  PROVE  HubKept
<1>1. sess' = sess /\ Len(sess) \in Nat
  BY DEF vars, HubInv, RcarInv, SessOK
<1>2. Kept
  BY StutterStep DEF HubInv
<1>3. Ripens /\ Lasts
  BY <1>1 DEF Ripens, Lasts
<1>5. TokensOnly'
  BY DEF vars, TokensOnly, HubInv
<1>4. HubInv' /\ (HubsSmooth /\ (r.hurt \/ HubSmooth(r, sess')) => HubsSmooth')
  BY <1>1, <1>2, <1>3, <1>5, OneHub DEF Kept
<1> QED BY <1>1, <1>2, <1>4 DEF HubKept, Kept, HubsSmooth

LEMMA AgentSessions ==
  ASSUME NEW c \in Clients, RcarInv, Step(c)
  PROVE  Ripens /\ Lasts
<1>1. CASE UNCHANGED sess
  BY <1>1 DEF RcarInv, SessOK, Ripens, Lasts
<1>2. CASE Open(c)
  <2>1. Grows(c) /\ \A m \in Sessions : sess'[m] = sess[m]
    BY <1>2, OpensSession
  <2> QED BY <2>1 DEF Grows, Ripens, Lasts, SessOK, RcarInv
<1>3. CASE cl[c].pc = "attest" /\ AttestSession(c)
  <2>1. /\ Grows(c) /\ cl[c].cookie \in Sessions /\ sess'[cl[c].cookie].keys = {c}
        /\ \A m \in Sessions : m # cl[c].cookie => sess'[m] = sess[m]
    BY <1>3, AttestsSession
  <2>2. sess[cl[c].cookie].keys \subseteq {c}
    BY <2>1 DEF RcarInv, Good, Mine, Sessions
  <2>3. \A m \in Sessions : sess[m].keys # {} => sess'[m].keys = sess[m].keys
    BY <2>1, <2>2
  <2> QED BY <2>1, <2>3 DEF Grows, Ripens, Lasts, SessOK, RcarInv
<1> QED BY <1>1, <1>2, <1>3 DEF Step, TeeType, TeeTypeFails, Auth, AuthFails,
      AdditionalEvidence, PrimaryEvidence, EvidenceFails, Attest, AttestFails, Wake, Resource,
      Unauthorized, ResourceFails, Return

\* What a step of a client does to the operation asked for: nothing.
LEMMA OutcomesKeepOp ==
  ASSUME NEW r
  PROVE  /\ HandshakeFails(r).op = r.op /\ HandshakeEnds(r).op = r.op
         /\ \A e : Finish(r, e).op = r.op
  BY DEF HandshakeFails, HandshakeEnds, Retry, Finish

LEMMA StepKeepsOp == ASSUME NEW c \in Clients, RcarInv, Step(c) PROVE cl'[c].op = cl[c].op
<1>0. cl[c] \in ClientRec /\ cl \in [Clients -> ClientRec]
  BY DEF RcarInv
<1>1. \A r : Set(c, r) => cl'[c] = r
  BY <1>0 DEF Set
<1>2. CASE TeeType(c) \/ Auth(c) \/ AdditionalEvidence(c) \/ PrimaryEvidence(c) \/ Wake(c)
           \/ Unauthorized(c) \/ Return(c)
  BY <1>0, <1>1, <1>2 DEF TeeType, Auth, AdditionalEvidence, PrimaryEvidence, Wake, Unauthorized,
                          Return, ClientRec
<1>3. CASE TeeTypeFails(c) \/ EvidenceFails(c) \/ AttestFails(c) \/ Resource(c) \/ ResourceFails(c)
  BY <1>1, <1>3, OutcomesKeepOp DEF TeeTypeFails, EvidenceFails, AttestFails, Resource,
                                    ResourceFails
<1>4. CASE AuthFails(c)
  <2>1. /\ [cl[c] EXCEPT !.auths = @ + 1].op = cl[c].op
        /\ [cl[c] EXCEPT !.cookie = Len(sess) + 1, !.auths = @ + 1].op = cl[c].op
    BY <1>0 DEF ClientRec
  <2> QED BY <1>1, <1>4, <2>1, OutcomesKeepOp DEF AuthFails
<1>5. CASE Attest(c)
  <2>1. [cl[c] EXCEPT !.token = cl[c].cookie].op = cl[c].op
    BY <1>0 DEF ClientRec
  <2> QED BY <1>1, <1>5, <2>1, OutcomesKeepOp DEF Attest
<1> QED BY <1>2, <1>3, <1>4, <1>5 DEF Step

\* Everyone but one client, and the client itself, is asked for what it was.
LEMMA OpsStay ==
  ASSUME HubInv, NEW c \in Clients, NEW r, Set(c, r), r.op = "token"
  PROVE  TokensOnly'
  BY DEF HubInv, TokensOnly, Set, RcarInv

LEMMA AgentStepKept == ASSUME NEW c \in Clients, HubInv, AgentStep(c) PROVE HubKept
<1>1. Step(c) /\ RcarInv /\ hub' = hub /\ gone' \subseteq Clients
  BY DEF AgentStep, HubInv
<1>2. cl'[c].op = "token"
  BY <1>1, StepKeepsOp DEF HubInv, TokensOnly
<1>3. \A d \in Clients \ {c} : cl'[d] = cl[d]
  BY <1>1 DEF Set, Step, TeeType, TeeTypeFails, Auth, AuthFails, AdditionalEvidence,
      PrimaryEvidence, EvidenceFails, Attest, AttestFails, Wake, Resource, Unauthorized,
      ResourceFails, Return, RcarInv
<1>4. TokensOnly'
  BY <1>2, <1>3 DEF TokensOnly, HubInv
<1> QED BY <1>1, <1>4, ClientStep, AgentSessions, NoHub

LEMMA DropStep == ASSUME NEW c \in Clients, HubInv, Drop(c) PROVE HubKept
<1>1. RcarInv /\ sess' = sess /\ ops' = ops /\ hurt' = hurt /\ hub' = hub /\ gone' \subseteq Clients
      /\ Len(sess) \in Nat /\ Set(c, NewClient)
  BY DEF Drop, HubInv, RcarInv, SessOK
<1>2. NewClient \in ClientRec /\ NewClient.cookie = 0
  BY Bounds DEF NewClient, ClientRec, Points, Results, Ids
<1>3. Good(c, NewClient, sess, hurt[c]) /\ Smooth(c, NewClient, sess)
  BY <1>1 DEF NewClient, Good, Numbers, Challenge, Challenged, Mine, Counted, Fresh, Smooth,
              Handshaking
<1>4. Grows(c)
  BY <1>1, SameSessions
<1>5. ops \in [Clients -> Nat] /\ hurt \in [Clients -> BOOLEAN]
  BY <1>1 DEF RcarInv
<1>6. RcarInv' /\ (AllSmooth => AllSmooth')
  BY <1>1, <1>2, <1>3, <1>4, <1>5, OneClient
<1>7. Ripens /\ Lasts
  BY <1>1 DEF Ripens, Lasts
<1>8. TokensOnly'
  BY <1>1, OpsStay DEF NewClient
<1> QED BY <1>1, <1>6, <1>7, <1>8, NoHub DEF Kept

LEMMA KbsStepKept == ASSUME HubInv, KbsStep PROVE HubKept
<1>1. Env /\ RcarInv /\ gone' = gone /\ hub' = [h \in Hubs |-> [hub[h] EXCEPT !.hurt = TRUE]]
  BY DEF KbsStep, HubInv
<1>2. Kept
  BY <1>1, EnvStep
<1>3. Ripens
  BY <1>1, EnvWears DEF Wears, Ripens, RcarInv, SessOK
<1>4. ASSUME NEW h \in Hubs
      PROVE  hub'[h] \in HubRec /\ hub'[h].hurt /\ HubGood(hub'[h], sess')
  <2> DEFINE x == hub[h]  f == [x EXCEPT !.hurt = TRUE]
  <2>1. x \in HubRec /\ HubGood(x, sess') /\ hub'[h] = f
    BY <1>1, <1>3, HubRecords, RipeHub
  <2> HIDE DEF x
  <2>2. f \in HubRec /\ f.token = x.token /\ f.key = x.key /\ f.result = x.result /\ f.hurt
        /\ f.pc = x.pc /\ f.attempt = x.attempt
    BY <2>1 DEF HubRec
  <2> HIDE DEF f
  <2>3. QED
    BY <2>1, <2>2 DEF HubGood
<1>5. hub' \in [Hubs -> HubRec]
  BY <1>1, <1>4
<1>8. TokensOnly'
  BY <1>1, EnvWears DEF Wears, TokensOnly, HubInv
<1>6. HubInv'
  BY <1>1, <1>2, <1>4, <1>5, <1>8 DEF HubInv, Kept
<1>7. HubsSmooth'
  BY <1>4 DEF HubsSmooth
<1> QED BY <1>2, <1>6, <1>7 DEF HubKept, Kept

LEMMA Leaving ==
  ASSUME NEW r \in HubRec, NEW e \in HubResults \ {"unreadable"}
  PROVE  /\ Leave(r, e) \in HubRec /\ Leave(r, e).token = r.token /\ Leave(r, e).key = r.key
         /\ Leave(r, e).result = e /\ Leave(r, e).pc = "done" /\ Leave(r, e).hurt = r.hurt
         /\ \A s : HubGood(r, s) => HubGood(Leave(r, e), s)
         /\ [Leave(r, e) EXCEPT !.hurt = TRUE] \in HubRec
         /\ [Leave(r, e) EXCEPT !.hurt = TRUE].hurt
         /\ \A s : HubGood(r, s) => HubGood([Leave(r, e) EXCEPT !.hurt = TRUE], s)
<1> DEFINE f == Leave(r, e)  g == [f EXCEPT !.hurt = TRUE]
<1>1. f \in HubRec
  BY DEF Leave, HubRec, HubPoints
<1>2. /\ f.token = r.token /\ f.key = r.key /\ f.result = e /\ f.pc = "done"
      /\ f.hurt = r.hurt
  BY DEF Leave, HubRec
<1> HIDE DEF f
<1>3. g \in HubRec /\ g.token = f.token /\ g.key = f.key /\ g.result = f.result /\ g.hurt
      /\ g.pc = f.pc
  BY <1>1 DEF HubRec
<1> HIDE DEF g
<1>4. \A s : HubGood(r, s) => HubGood(f, s) /\ HubGood(g, s)
  BY <1>2, <1>3 DEF HubGood
<1> QED BY <1>1, <1>2, <1>3, <1>4 DEF f, g

\* A hub's operation ends with a failure that happened to it.
LEMMA HubGivesUp ==
  ASSUME HubInv, NEW h \in Hubs, NEW e \in HubResults \ {"unreadable"}, UNCHANGED vars,
         SetHub(h, [Leave(hub[h], e) EXCEPT !.hurt = TRUE]), gone' \subseteq Clients
  PROVE  HubKept
<1> DEFINE f == [Leave(hub[h], e) EXCEPT !.hurt = TRUE]
<1>1. f \in HubRec /\ f.hurt /\ HubGood(f, sess) /\ SetHub(h, f)
  BY HubRecords, Leaving
<1> HIDE DEF f
<1> QED BY <1>1, AloneHub

LEMMA AskFailsStep == ASSUME HubInv, NEW h \in Hubs, AskFails(h) PROVE HubKept
  BY HubGivesUp DEF AskFails, HubResults, HubInv

LEMMA TimeoutStep ==
  ASSUME HubInv, NEW h \in Hubs, NEW c \in Clients, CallTimesOut(h, c) PROVE HubKept
  BY HubGivesUp DEF CallTimesOut, HubResults, HubInv

LEMMA RequestFailsStep == ASSUME HubInv, NEW h \in Hubs, HubRequestFails(h) PROVE HubKept
  BY HubGivesUp DEF HubRequestFails, HubResults, HubInv

LEMMA HubGetStep == ASSUME HubInv, NEW h \in Hubs, HubGet(h) PROVE HubKept
<1> DEFINE x == hub[h]
           f == [x EXCEPT !.pc = IF x.token = 0 THEN "ask" ELSE "get", !.attempt = 1,
                          !.gets = @ + 1, !.refused = FALSE, !.hurt = FALSE]
<1>1. x \in HubRec /\ HubGood(x, sess) /\ x.pc = "idle" /\ SetHub(h, f) /\ x.gets < MaxGets
      /\ UNCHANGED vars /\ gone' \subseteq Clients
  BY HubRecords DEF HubGet, HubInv
<1>2. 1 \in 0 .. GetMaxAttempt /\ x.gets + 1 \in 0 .. MaxGets
  BY <1>1, Bounds, TokenAssumption DEF HubRec
<1> HIDE DEF x
<1>3. /\ f \in HubRec /\ f.token = x.token /\ f.key = x.key /\ f.result = x.result
      /\ f.attempt = 1 /\ x.result = "none"
  BY <1>1, <1>2 DEF HubRec, HubPoints, HubGood
<1> HIDE DEF f
<1>4. HubGood(f, sess) /\ HubSmooth(f, sess)
  BY <1>1, <1>3 DEF HubGood, HubSmooth
<1> QED BY <1>1, <1>3, <1>4, AloneHub DEF x

LEMMA HubReturnStep == ASSUME HubInv, NEW h \in Hubs, HubReturn(h) PROVE HubKept
<1> DEFINE x == hub[h]  f == [x EXCEPT !.pc = "idle", !.result = "none", !.attempt = 0]
<1>1. x \in HubRec /\ HubGood(x, sess) /\ SetHub(h, f) /\ UNCHANGED vars /\ gone' \subseteq Clients
  BY HubRecords DEF HubReturn, HubInv
<1>2. 0 \in 0 .. GetMaxAttempt
  BY Bounds
<1> HIDE DEF x
<1>3. f \in HubRec /\ f.token = x.token /\ f.key = x.key /\ f.result = "none" /\ f.pc = "idle"
  BY <1>1, <1>2 DEF HubRec, HubPoints, HubResults
<1> HIDE DEF f
<1>4. HubGood(f, sess) /\ HubSmooth(f, sess)
  BY <1>1, <1>3 DEF HubGood, HubSmooth
<1> QED BY <1>1, <1>3, <1>4, AloneHub DEF x

\* The KBS encrypts to the key in the token, which is the key the hub holds.
LEMMA HubResourceStep == ASSUME HubInv, NEW h \in Hubs, HubResource(h) PROVE HubKept
<1> DEFINE x == hub[h]  f == Leave(x, "ok")
<1>1. x \in HubRec /\ HubGood(x, sess) /\ UNCHANGED vars /\ gone' \subseteq Clients
      /\ x.token \in Sessions
  BY HubRecords DEF HubResource, HubInv, Accepted
<1>2. x.key = sess[x.token].keys
  BY <1>1 DEF HubGood, Sessions
<1>3. SetHub(h, f)
  BY <1>2 DEF HubResource
<1>4. f \in HubRec /\ HubGood(f, sess) /\ f.result = "ok" /\ f.pc = "done"
  BY <1>1, Leaving DEF HubResults
<1> HIDE DEF f
<1>5. HubSmooth(f, sess)
  BY <1>4 DEF HubSmooth
<1> QED BY <1>1, <1>3, <1>4, <1>5, AloneHub

LEMMA HubUnauthorizedStep == ASSUME HubInv, NEW h \in Hubs, HubUnauthorized(h) PROVE HubKept
<1> DEFINE x == hub[h]  f == [x EXCEPT !.pc = "ask", !.refused = TRUE]
<1>1. /\ x \in HubRec /\ HubGood(x, sess) /\ UNCHANGED vars /\ gone' \subseteq Clients
      /\ x.pc = "get" /\ SetHub(h, f) /\ x.token \in Nat /\ x.attempt \in Nat
  BY HubRecords DEF HubUnauthorized, HubInv
<1>2. ~(x.token > 0 /\ sess[x.token].fresh)
  BY <1>1 DEF HubUnauthorized, Accepted, Sessions, HubGood, HubInv, RcarInv, SessOK
<1> HIDE DEF x
<1>3. /\ f \in HubRec /\ f.token = x.token /\ f.key = x.key /\ f.result = x.result
      /\ f.pc = "ask" /\ f.attempt = x.attempt /\ f.hurt = x.hurt
  BY <1>1 DEF HubRec, HubPoints
<1> HIDE DEF f
<1>4. HubGood(f, sess)
  BY <1>1, <1>3 DEF HubGood
<1>5. HubSmooth(x, sess) => HubSmooth(f, sess)
  BY <1>1, <1>2, <1>3 DEF HubSmooth, HubGood
<1> QED BY <1>1, <1>3, <1>4, <1>5, AloneHub DEF x

LEMMA AskStep == ASSUME HubInv, NEW h \in Hubs, Ask(h) PROVE HubKept
<1> DEFINE x == hub[h]
<1>1. PICK c \in Clients : GetToken(c) /\ SetHub(h, [x EXCEPT !.pc = "wait", !.call = {c}])
  <2>1. Unused \subseteq Clients /\ Unused # {}
    BY DEF Ask, Unused
  <2>2. (CHOOSE c \in Unused : TRUE) \in Clients
    BY <2>1
  <2> QED BY <2>2 DEF Ask
<1> DEFINE f == [x EXCEPT !.pc = "wait", !.call = {c}]
<1>2. /\ x \in HubRec /\ HubGood(x, sess) /\ gone' \subseteq Clients /\ x.pc = "ask"
      /\ SetHub(h, f) /\ sess' = sess /\ Len(sess) \in Nat
  BY <1>1, HubRecords DEF Ask, HubInv, GetToken, RcarInv, SessOK
<1>3. Kept
  BY <1>1, GetTokenStep DEF HubInv
<1> HIDE DEF x
<1>4. /\ f \in HubRec /\ f.token = x.token /\ f.key = x.key /\ f.result = x.result
      /\ f.pc = "wait" /\ f.attempt = x.attempt /\ f.hurt = x.hurt
  BY <1>2 DEF HubRec, HubPoints
<1> HIDE DEF f
<1>5. HubGood(f, sess) /\ (HubSmooth(x, sess) => HubSmooth(f, sess))
  BY <1>2, <1>4 DEF HubGood, HubSmooth
<1>6. Ripens /\ Lasts
  BY <1>2 DEF Ripens, Lasts
<1>9. TokensOnly'
  <2> DEFINE r == [cl[c] EXCEPT !.op = "token", !.tries = 1, !.auths = 0]
             g == IF TokenValid(r) THEN Finish(r, "ok") ELSE [r EXCEPT !.pc = "tee"]
  <2>1. cl[c] \in ClientRec
    BY DEF HubInv, RcarInv
  <2>2. r.op = "token"
    BY <2>1 DEF ClientRec
  <2>3. Set(c, g)
    BY <1>1 DEF GetToken
  <2> HIDE DEF r
  <2>4. g.op = "token"
    BY <2>2 DEF Finish
  <2> HIDE DEF g
  <2> QED BY <2>3, <2>4, OpsStay
<1>7. HubInv' /\ (HubsSmooth /\ (f.hurt \/ HubSmooth(f, sess')) => HubsSmooth')
  BY <1>2, <1>3, <1>4, <1>5, <1>6, <1>9, OneHub DEF Kept
<1>8. HubsSmooth => x.hurt \/ HubSmooth(x, sess)
  BY DEF HubsSmooth, x
<1> QED BY <1>2, <1>3, <1>4, <1>5, <1>7, <1>8 DEF HubKept, Kept

\* What an operation does with the token and the key pair of an answer.
LEMMA Taking ==
  ASSUME NEW r \in HubRec, r.token > 0, r.token <= Len(sess), r.key # {}, sess[r.token].keys = r.key,
         r.result = "none", r.attempt > 0
  PROVE  /\ AfterToken(r) \in HubRec /\ HubGood(AfterToken(r), sess)
         /\ AfterToken(r).hurt = r.hurt
         /\ GetMaxAttempt > 1 /\ r.attempt = 1 /\ sess[r.token].fresh
              => HubSmooth(AfterToken(r), sess)
<1>1. CASE ~r.refused
  <2>1. AfterToken(r) = [r EXCEPT !.pc = "get"]
    BY <1>1 DEF AfterToken
  <2> DEFINE f == [r EXCEPT !.pc = "get"]
  <2>2. /\ f \in HubRec /\ f.token = r.token /\ f.key = r.key /\ f.result = r.result
        /\ f.pc = "get" /\ f.attempt = r.attempt /\ f.hurt = r.hurt
    BY DEF HubRec, HubPoints
  <2> HIDE DEF f
  <2> QED BY <2>1, <2>2 DEF HubGood, HubSmooth, f
<1>2. CASE r.refused /\ r.attempt = GetMaxAttempt
  <2>1. AfterToken(r) = Leave(r, "unauthorized")
    BY <1>2 DEF AfterToken
  <2>2. "unauthorized" \in HubResults \ {"unreadable"}
    BY DEF HubResults
  <2>3. r.attempt # 1 \/ ~(GetMaxAttempt > 1)
    BY <1>2
  <2>4. Leave(r, "unauthorized") \in HubRec /\ Leave(r, "unauthorized").hurt = r.hurt
        /\ Leave(r, "unauthorized").token = r.token /\ Leave(r, "unauthorized").key = r.key
        /\ Leave(r, "unauthorized").result = "unauthorized"
        /\ Leave(r, "unauthorized").pc = "done"
    BY <2>2, Leaving
  <2> QED BY <2>1, <2>3, <2>4 DEF HubGood
<1>3. CASE r.refused /\ r.attempt # GetMaxAttempt
  <2>1. AfterToken(r) = [r EXCEPT !.pc = "get", !.attempt = @ + 1]
    BY <1>3 DEF AfterToken
  <2> DEFINE f == [r EXCEPT !.pc = "get", !.attempt = @ + 1]
  <2>2. r.attempt \in 0 .. GetMaxAttempt /\ r.attempt + 1 \in 0 .. GetMaxAttempt
    BY <1>3, Bounds DEF HubRec
  <2>3. /\ f \in HubRec /\ f.token = r.token /\ f.key = r.key /\ f.result = r.result
        /\ f.pc = "get" /\ f.attempt = r.attempt + 1 /\ f.hurt = r.hurt
    BY <2>2 DEF HubRec, HubPoints
  <2> HIDE DEF f
  <2> QED BY <2>1, <2>2, <2>3 DEF HubGood, HubSmooth, f
<1> QED BY <1>1, <1>2, <1>3

\* The token and the key pair of an answer replace the old ones together, and the
\* token is of a session attested for that very key pair.
LEMMA AnsweredStep ==
  ASSUME HubInv, NEW h \in Hubs, NEW c \in Clients, Answered(h, c) PROVE HubKept
<1> DEFINE x == hub[h]  y == [x EXCEPT !.call = {}, !.hurt = @ \/ hurt[c]]  k == Keep(y, c)
           f == IF cl[c].result = "ok" THEN AfterToken(k) ELSE Leave(y, "noToken")
<1>1. /\ x \in HubRec /\ HubGood(x, sess) /\ gone' \subseteq Clients /\ x.pc = "wait"
      /\ SetHub(h, f) /\ sess' = sess /\ Len(sess) \in Nat /\ RcarInv /\ cl[c].pc = "done"
      /\ hurt[c] \in BOOLEAN
  BY HubRecords DEF Answered, HubInv, Return, RcarInv, SessOK
<1>2. Kept
  BY <1>1, ReturnStep DEF Answered
<1>3. /\ cl[c] \in ClientRec /\ Good(c, cl[c], sess, hurt[c])
  BY <1>1, OfClient
<1> HIDE DEF x
<1>4. /\ y \in HubRec /\ y.token = x.token /\ y.key = x.key /\ y.result = x.result
      /\ y.pc = "wait" /\ y.attempt = x.attempt /\ y.hurt = (x.hurt \/ hurt[c])
  BY <1>1 DEF HubRec
<1> HIDE DEF y
<1>5. y.result = "none" /\ y.attempt > 0 /\ HubGood(y, sess)
  BY <1>1, <1>4 DEF HubGood
<1>6. ~hurt[c] /\ AllSmooth => cl[c].result = "ok"
  BY <1>1, <1>3 DEF AllSmooth, Smooth, Good, Fresh
<1>7. f \in HubRec /\ HubGood(f, sess) /\ f.hurt = y.hurt
      /\ (GetMaxAttempt > 1 /\ AllSmooth /\ (x.hurt \/ HubSmooth(x, sess))
            => f.hurt \/ HubSmooth(f, sess))
  <2>1. CASE cl[c].result = "ok"
    <3> DEFINE n == cl[c].token
    <3>1. /\ n \in Ids /\ n > 0 /\ n <= Len(sess) /\ sess[n].keys = {c}
          /\ (hurt[c] \/ sess[n].fresh)
      BY <1>1, <1>3, <2>1 DEF Good, Fresh, Mine, Numbers, ClientRec, HubInv, TokensOnly
    <3> HIDE DEF n
    <3>2. /\ k \in HubRec /\ k.token = n /\ k.key = {c} /\ k.result = "none"
          /\ k.attempt = y.attempt /\ k.hurt = y.hurt
      BY <1>4, <1>5, <3>1 DEF Keep, HubRec, n
    <3> HIDE DEF k
    <3>3. /\ AfterToken(k) \in HubRec /\ HubGood(AfterToken(k), sess)
          /\ AfterToken(k).hurt = k.hurt
          /\ GetMaxAttempt > 1 /\ k.attempt = 1 /\ sess[k.token].fresh
               => HubSmooth(AfterToken(k), sess)
      BY <1>5, <3>1, <3>2, Taking
    <3>4. HubSmooth(x, sess) => k.attempt = 1
      BY <1>1, <1>4, <3>2 DEF HubSmooth
    <3>5. f = AfterToken(k)
      BY <2>1
    <3> HIDE DEF f
    <3> QED BY <1>1, <1>4, <3>1, <3>2, <3>3, <3>4, <3>5
  <2>2. CASE cl[c].result # "ok"
    <3>1. f = Leave(y, "noToken") /\ "noToken" \in HubResults \ {"unreadable"}
      BY <2>2 DEF HubResults
    <3> HIDE DEF f
    <3>2. f \in HubRec /\ f.hurt = y.hurt /\ HubGood(f, sess)
      BY <1>4, <1>5, <3>1, Leaving
    <3> QED BY <1>1, <1>4, <1>6, <2>2, <3>2
  <2> QED BY <2>1, <2>2
<1> HIDE DEF f
<1>8. Ripens /\ Lasts
  BY <1>1 DEF Ripens, Lasts
<1>9. TokensOnly'
  <2> DEFINE r == [cl[c] EXCEPT !.pc = "idle", !.result = "none", !.tries = 0, !.attempt = 0,
                                !.auths = 0]
  <2>1. Set(c, r) /\ r.op = cl[c].op
    BY <1>3 DEF Answered, Return, ClientRec
  <2> HIDE DEF r
  <2> QED BY <2>1, OpsStay DEF HubInv, TokensOnly
<1>10. HubInv' /\ (HubsSmooth /\ (f.hurt \/ HubSmooth(f, sess')) => HubsSmooth')
  BY <1>1, <1>2, <1>7, <1>8, <1>9, OneHub DEF Kept
<1>11. HubsSmooth => x.hurt \/ HubSmooth(x, sess)
  BY DEF HubsSmooth, x
<1> QED BY <1>1, <1>2, <1>7, <1>10, <1>11 DEF HubKept, Kept

LEMMA HubStutter == ASSUME HubInv, UNCHANGED allVars PROVE HubKept
<1>1. UNCHANGED vars /\ hub' = hub /\ gone' \subseteq Clients /\ sess' = sess /\ Len(sess) \in Nat
  BY DEF allVars, vars, HubInv, RcarInv, SessOK
<1>2. Ripens /\ Lasts /\ TokensOnly'
  BY <1>1 DEF Ripens, Lasts, TokensOnly, HubInv, vars
<1> QED BY <1>1, <1>2, StutterStep, NoHub DEF HubInv

LEMMA HubInitial == HubInit => HubInv /\ AllSmooth /\ HubsSmooth
<1> SUFFICES ASSUME HubInit PROVE HubInv /\ AllSmooth /\ HubsSmooth
  OBVIOUS
<1>1. RcarInv /\ AllSmooth
  BY RcarInit DEF HubInit
<1>2. NewHub \in HubRec
  BY Bounds, TokenAssumption DEF NewHub, HubRec, HubPoints, HubResults, Ids
<1>3. HubGood(NewHub, sess) /\ HubSmooth(NewHub, sess)
  BY DEF NewHub, HubGood, HubSmooth
<1>4. TokensOnly
  BY DEF HubInit, Init, TokensOnly, NewClient
<1> QED BY <1>1, <1>2, <1>3, <1>4 DEF HubInit, HubInv, HubsSmooth

LEMMA HubNextKept == HubInv /\ [HubNext]_allVars => HubKept
  BY KbsStepKept, HubGetStep, AskStep, HubResourceStep, HubUnauthorizedStep, HubReturnStep,
     AnsweredStep, AskFailsStep, RequestFailsStep, TimeoutStep, AgentStepKept, DropStep,
     HubStutter DEF HubNext, HubStep, HubFails

\* The hub and the agent keep their types.
THEOREM HubTyped == HubSpec => []HubTypeOK
<1>1. HubInv /\ [HubNext]_allVars => HubInv'
  BY HubNextKept DEF HubKept
<1>2. HubInv => HubTypeOK
  BY RcarTypes DEF HubInv, HubTypeOK, HubRec
<1>3. QED
  BY <1>1, <1>2, HubInitial, PTL DEF HubSpec

\* Through expiry, renewal, calls that time out and answers thrown away, the token a
\* hub holds is of a session attested for the key pair it holds, and no resource
\* is encrypted to a key it has not (token_client.rs).
THEOREM Certified == HubSpec => []TokenCertifiesKey
<1>1. HubInv /\ [HubNext]_allVars => HubInv'
  BY HubNextKept DEF HubKept
<1>2. HubInv => TokenCertifiesKey
  BY DEF HubInv, HubGood, TokenCertifiesKey
<1>3. QED
  BY <1>1, <1>2, HubInitial, PTL DEF HubSpec

\* If a resource may be asked for twice, as the code's constant of 3 lets it, the hub
\* gets it unless something failed or expired since it asked.
THEOREM HubSucceeds == ASSUME GetMaxAttempt > 1 PROVE HubSpec => []HubNoNeedlessFailure
<1>1. HubInv /\ AllSmooth /\ HubsSmooth /\ [HubNext]_allVars
        => HubInv' /\ AllSmooth' /\ HubsSmooth'
  BY HubNextKept DEF HubKept
<1>2. HubsSmooth => HubNoNeedlessFailure
  BY DEF HubsSmooth, HubSmooth, HubNoNeedlessFailure
<1>3. QED
  BY <1>1, <1>2, HubInitial, PTL DEF HubSpec
=============================================================================

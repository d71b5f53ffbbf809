----------------------------- MODULE RcarClient -----------------------------
(***************************************************************************)
(* The client of the key broker service (KBS) that attests itself: the     *)
(* RCAR handshake (request, challenge, attestation, response) that ends in *)
(* a token, and the retrieval of a resource in the session the handshake   *)
(* has opened.  The module models kbs_protocol's rcar_client.rs: get_token *)
(* with its retries, get_resource with its attempts, rcar_handshake and    *)
(* get_composite_evidence.                                                 *)
(*                                                                         *)
(* The KBS is external and is what the client makes of it: /auth opens a   *)
(* session, known by a cookie, with a nonce of its own; /attest attests it *)
(* for the public key in evidence bound to that nonce, and gives a token;  *)
(* a resource is encrypted to the key of an attested session.  Sessions    *)
(* are numbered; number n stands for the cookie, the nonce and the token   *)
(* of session n, and 0 for none of them.                                   *)
(***************************************************************************)
EXTENDS Naturals, Sequences

CONSTANTS
  Clients,         \* KbsClients: each has a TEE key pair of its own
  RcarMaxAttempt,  \* RCAR_MAX_ATTEMPT
  GetMaxAttempt,   \* KBS_GET_RESOURCE_MAX_ATTEMPT
  Faults,          \* the faults of the environment that may happen
  MaxSessions,     \* bound: the sessions opened
  MaxOps           \* bound: the operations of a client

FaultNames == {"lost", "refused", "evidence", "expire", "kbsRestart", "missing"}

ASSUME RcarAssumption ==
  /\ Faults \subseteq FaultNames
  /\ {RcarMaxAttempt, GetMaxAttempt, MaxSessions, MaxOps} \subseteq Nat \ {0}

VARIABLES
  cl,    \* the clients
  sess,  \* the sessions of the KBS
  ops,   \* history: the operations a client was asked for
  hurt   \* history: a fault has happened to the operation under way

vars == <<cl, sess, ops, hurt>>

Points == {"idle", "tee", "auth", "additional", "primary", "attest", "sleep", "get",
           "done"}
Results == {"none", "ok", "rcar", "unauthorized", "notFound", "failed"}

\* op: get_token or get_resource; tries and attempt: the loop counters; tee:
\* the TEE type is known; cookie, token: of which session; nonce, add, ev: the
\* challenge under way and what the two pieces of evidence are bound to.
NewClient == [pc |-> "idle", op |-> "token", tries |-> 0, attempt |-> 0, tee |-> FALSE,
              cookie |-> 0, token |-> 0, nonce |-> 0, add |-> 0, ev |-> 0, auths |-> 0,
              result |-> "none"]

\* keys: the public key the session was attested for, if it was; live: the KBS
\* knows the session; fresh: its token has not expired.
Session == [keys : SUBSET Clients, live : BOOLEAN, fresh : BOOLEAN]
Sessions == 1 .. Len(sess)

Init ==
  /\ cl = [c \in Clients |-> NewClient]
  /\ sess = <<>>
  /\ ops = [c \in Clients |-> 0]
  /\ hurt = [c \in Clients |-> FALSE]

Set(c, r) == cl' = [cl EXCEPT ![c] = r]
Hurt(c) == hurt' = [hurt EXCEPT ![c] = TRUE]

-----------------------------------------------------------------------------
(* The operations. *)

Finish(r, result) == [r EXCEPT !.pc = "done", !.result = result]

\* check_valid: the token has not expired.
TokenValid(r) == r.token \in Sessions /\ sess[r.token].fresh

\* get_token: a token that is there and valid is returned; otherwise up to
\* RcarMaxAttempt handshakes.
GetToken(c) ==
  /\ cl[c].pc = "idle"
  /\ ops[c] < MaxOps
  /\ ops' = [ops EXCEPT ![c] = @ + 1]
  /\ LET r == [cl[c] EXCEPT !.op = "token", !.tries = 1, !.auths = 0]
     IN  Set(c, IF TokenValid(r) THEN Finish(r, "ok") ELSE [r EXCEPT !.pc = "tee"])
  /\ hurt' = [hurt EXCEPT ![c] = FALSE]
  /\ UNCHANGED sess

GetResource(c) ==
  /\ cl[c].pc = "idle"
  /\ ops[c] < MaxOps
  /\ ops' = [ops EXCEPT ![c] = @ + 1]
  /\ Set(c, [cl[c] EXCEPT !.op = "resource", !.attempt = 1, !.auths = 0, !.pc = "get"])
  /\ hurt' = [hurt EXCEPT ![c] = FALSE]
  /\ UNCHANGED sess

\* The caller has its result.
Return(c) ==
  /\ cl[c].pc = "done"
  /\ Set(c, [cl[c] EXCEPT !.pc = "idle", !.result = "none", !.tries = 0, !.attempt = 0,
                          !.auths = 0])
  /\ UNCHANGED <<sess, ops, hurt>>

\* Mutant of Retry: the retries are not counted.
RetryUncounted(r) == IF r.tries >= RcarMaxAttempt THEN Finish(r, "rcar")
                     ELSE [r EXCEPT !.pc = "sleep"]

\* repeat_rcar_handshake after a handshake that failed.
Retry(r) == IF r.tries >= RcarMaxAttempt THEN Finish(r, "rcar")
            ELSE [r EXCEPT !.pc = "sleep", !.tries = @ + 1]

\* What follows a handshake: get_token returns or retries; get_resource tries
\* the resource again, once for each attempt left, or gives up at once.
HandshakeFails(r) ==
  LET s == [r EXCEPT !.nonce = 0, !.add = 0, !.ev = 0]
  IN  IF r.op = "token" THEN Retry(s) ELSE Finish(s, "rcar")

\* Mutant of HandshakeEnds: get_resource does not ask again.
HandshakeEndsAll(r) ==
  LET s == [r EXCEPT !.nonce = 0, !.add = 0, !.ev = 0]
  IN  Finish(s, IF r.op = "token" THEN "ok" ELSE "unauthorized")

HandshakeEnds(r) ==
  LET s == [r EXCEPT !.nonce = 0, !.add = 0, !.ev = 0]
  IN  IF r.op = "token" THEN Finish(s, "ok")
      ELSE IF r.attempt = GetMaxAttempt THEN Finish(s, "unauthorized")
      ELSE [s EXCEPT !.pc = "get", !.attempt = @ + 1]

-----------------------------------------------------------------------------
(* rcar_handshake *)

\* The type of the TEE is asked for once.
TeeType(c) ==
  /\ cl[c].pc = "tee"
  /\ Set(c, [cl[c] EXCEPT !.pc = "auth", !.tee = TRUE])
  /\ UNCHANGED <<sess, ops, hurt>>

TeeTypeFails(c) ==
  /\ "evidence" \in Faults
  /\ cl[c].pc = "tee"
  /\ ~cl[c].tee
  /\ Set(c, HandshakeFails(cl[c]))
  /\ Hurt(c)
  /\ UNCHANGED <<sess, ops>>

Open(c) ==
  /\ cl[c].pc = "auth"
  /\ Len(sess) < MaxSessions
  /\ sess' = Append(sess, [keys |-> {}, live |-> TRUE, fresh |-> FALSE])

\* POST /auth: a new session, its cookie and its challenge.
Auth(c) ==
  /\ Open(c)
  /\ Set(c, [cl[c] EXCEPT !.pc = "additional", !.cookie = Len(sess) + 1,
                          !.nonce = Len(sess) + 1, !.auths = @ + 1])
  /\ UNCHANGED <<ops, hurt>>

\* The answer does not come, is an error, or names an unknown hash algorithm.
\* The answer that comes sets the cookie whatever its status says.
AuthFails(c) ==
  /\ cl[c].pc = "auth"
  /\ \/ /\ "lost" \in Faults
        /\ Open(c)
        /\ Set(c, HandshakeFails([cl[c] EXCEPT !.auths = @ + 1]))
     \/ /\ "refused" \in Faults
        /\ UNCHANGED sess
        /\ Set(c, HandshakeFails([cl[c] EXCEPT !.auths = @ + 1]))
     \/ /\ "refused" \in Faults
        /\ Open(c)
        /\ Set(c, HandshakeFails([cl[c] EXCEPT !.cookie = Len(sess) + 1, !.auths = @ + 1]))
  /\ Hurt(c)
  /\ UNCHANGED ops

\* Mutant of AdditionalEvidence: the evidence of the last handshake is used again.
AdditionalCached(c) ==
  /\ cl[c].pc = "additional"
  /\ Set(c, [cl[c] EXCEPT !.pc = "primary", !.add = IF cl[c].token > 0 THEN cl[c].token
                                                     ELSE cl[c].nonce])
  /\ UNCHANGED <<sess, ops, hurt>>

\* get_composite_evidence: the evidence of the devices for the key and nonce,
\* then the primary evidence, which covers it.
AdditionalEvidence(c) ==
  /\ cl[c].pc = "additional"
  /\ Set(c, [cl[c] EXCEPT !.pc = "primary", !.add = cl[c].nonce])
  /\ UNCHANGED <<sess, ops, hurt>>

PrimaryEvidence(c) ==
  /\ cl[c].pc = "primary"
  /\ Set(c, [cl[c] EXCEPT !.pc = "attest", !.ev = cl[c].nonce])
  /\ UNCHANGED <<sess, ops, hurt>>

EvidenceFails(c) ==
  /\ "evidence" \in Faults
  /\ cl[c].pc \in {"additional", "primary"}
  /\ Set(c, HandshakeFails(cl[c]))
  /\ Hurt(c)
  /\ UNCHANGED <<sess, ops>>

\* The KBS attests the session of the cookie if both pieces of evidence are
\* bound to its nonce.
Attestable(c) ==
  LET n == cl[c].cookie IN
  /\ n \in Sessions
  /\ sess[n].live
  /\ {cl[c].add, cl[c].ev} = {n}

AttestSession(c) ==
  sess' = [sess EXCEPT ![cl[c].cookie] = [@ EXCEPT !.keys = {c}, !.fresh = TRUE]]

\* POST /attest: the token of the session is kept.
Attest(c) ==
  /\ cl[c].pc = "attest"
  /\ Attestable(c)
  /\ AttestSession(c)
  /\ Set(c, HandshakeEnds([cl[c] EXCEPT !.token = cl[c].cookie]))
  /\ UNCHANGED <<ops, hurt>>

\* The KBS refuses, for a reason of its own or because the session is no longer
\* there, or the answer is lost.
AttestFails(c) ==
  /\ cl[c].pc = "attest"
  /\ \/ ~Attestable(c) /\ UNCHANGED <<sess, hurt>>
     \/ {"refused", "lost"} \cap Faults # {} /\ UNCHANGED sess /\ Hurt(c)
     \/ /\ "lost" \in Faults
        /\ Attestable(c)
        /\ AttestSession(c)
        /\ Hurt(c)
  /\ Set(c, HandshakeFails(cl[c]))
  /\ UNCHANGED ops

\* The interval between two handshakes is over.
Wake(c) ==
  /\ cl[c].pc = "sleep"
  /\ Set(c, [cl[c] EXCEPT !.pc = "tee"])
  /\ UNCHANGED <<sess, ops, hurt>>

-----------------------------------------------------------------------------
(* get_resource *)

Authorized(c) ==
  LET n == cl[c].cookie IN n \in Sessions /\ sess[n].live /\ sess[n].keys # {}

\* 200: the resource, encrypted to the key of the session; it can be decrypted
\* with that key only.
Resource(c) ==
  /\ cl[c].pc = "get"
  /\ Authorized(c)
  /\ Set(c, Finish(cl[c], IF c \in sess[cl[c].cookie].keys THEN "ok" ELSE "failed"))
  /\ UNCHANGED <<sess, ops, hurt>>

\* 401: a handshake.
Unauthorized(c) ==
  /\ cl[c].pc = "get"
  /\ ~Authorized(c)
  /\ Set(c, [cl[c] EXCEPT !.pc = "tee"])
  /\ UNCHANGED <<sess, ops, hurt>>

\* 404, any other status, an answer that cannot be read, or none.
ResourceFails(c) ==
  /\ cl[c].pc = "get"
  /\ \/ "missing" \in Faults /\ Authorized(c) /\ Set(c, Finish(cl[c], "notFound"))
     \/ {"refused", "lost"} \cap Faults # {} /\ Set(c, Finish(cl[c], "failed"))
  /\ Hurt(c)
  /\ UNCHANGED <<sess, ops>>

-----------------------------------------------------------------------------
(* The KBS and time. *)

\* The lifetime of a session, or of a token, is over.
Expire(n) ==
  /\ "expire" \in Faults
  /\ n \in Sessions
  /\ \/ sess[n].live /\ sess' = [sess EXCEPT ![n] = [@ EXCEPT !.live = FALSE]]
     \/ sess[n].fresh /\ sess' = [sess EXCEPT ![n] = [@ EXCEPT !.fresh = FALSE]]
  /\ hurt' = [c \in Clients |-> TRUE]
  /\ UNCHANGED <<cl, ops>>

\* The KBS restarts and has forgotten its sessions; tokens stay valid.
KbsRestart ==
  /\ "kbsRestart" \in Faults
  /\ \E n \in Sessions : sess[n].live
  /\ sess' = [n \in Sessions |-> [sess[n] EXCEPT !.live = FALSE]]
  /\ hurt' = [c \in Clients |-> TRUE]
  /\ UNCHANGED <<cl, ops>>

-----------------------------------------------------------------------------
Start(c) == GetToken(c) \/ GetResource(c)

Step(c) == \/ TeeType(c) \/ TeeTypeFails(c) \/ Auth(c) \/ AuthFails(c)
           \/ AdditionalEvidence(c) \/ PrimaryEvidence(c) \/ EvidenceFails(c)
           \/ Attest(c) \/ AttestFails(c) \/ Wake(c)
           \/ Resource(c) \/ Unauthorized(c) \/ ResourceFails(c) \/ Return(c)

Env == KbsRestart \/ \E n \in 1 .. MaxSessions : Expire(n)

Next == Env \/ \E c \in Clients : Start(c) \/ Step(c)

Spec == Init /\ [][Next]_vars

\* Every request is answered or times out (KBS_REQ_TIMEOUT_SEC), and sleep ends.
FairSpec == Spec /\ \A c \in Clients : WF_vars(Step(c))

-----------------------------------------------------------------------------
(* Properties *)

Ids == 0 .. MaxSessions

\* Every variable has its type.
TypeOK ==
  /\ cl \in [Clients -> [pc : Points, op : {"token", "resource"}, tries : 0 .. RcarMaxAttempt,
                         attempt : 0 .. GetMaxAttempt, tee : BOOLEAN, cookie : Ids, token : Ids,
                         nonce : Ids, add : Ids, ev : Ids, auths : Nat, result : Results]]
  /\ sess \in Seq(Session)
  /\ ops \in [Clients -> Nat]
  /\ hurt \in [Clients -> BOOLEAN]

\* What is sent to /attest answers the challenge of the very session the cookie
\* names: no retry, no challenge that was lost or refused on the way leaves an
\* older nonce in the device evidence or in the primary evidence.
EvidenceAnswersChallenge == \A c \in Clients :
  cl[c].pc = "attest" => {cl[c].add, cl[c].ev, cl[c].nonce} = {cl[c].cookie}

\* get_token returns a token that is valid, unless something failed or expired meanwhile.
TokenReturnedIsValid == \A c \in Clients :
  cl[c].pc = "done" /\ cl[c].op = "token" /\ cl[c].result = "ok" =>
    hurt[c] \/ \E n \in Sessions : cl[c].token = n /\ sess[n].fresh

\* One operation knocks at /auth no more often than RCAR_MAX_ATTEMPT or
\* KBS_GET_RESOURCE_MAX_ATTEMPT says.
HandshakesBounded == \A c \in Clients :
  cl[c].auths <= IF cl[c].op = "token" THEN RcarMaxAttempt ELSE GetMaxAttempt

\* The handshakes of an operation are as many as it may make, each is with evidence for
\* its own challenge, and the token they end in is one of now (rcar_client.rs).
HandshakesAreSound == EvidenceAnswersChallenge /\ TokenReturnedIsValid /\ HandshakesBounded

\* An operation during which nothing fails and nothing expires succeeds, whatever
\* has happened to the session and the token before it.
NoNeedlessFailure == \A c \in Clients :
  cl[c].result \in {"none", "ok"} \/ hurt[c]

\* Every operation ends.
OperationsEnd == \A c \in Clients : cl[c].pc # "idle" ~> cl[c].pc = "idle"
=============================================================================

----------------------------- MODULE TokenClient -----------------------------
(***************************************************************************)
(* How the confidential data hub gets a resource: a KbsClient with a token *)
(* provider (kbs_protocol's token_client.rs) that asks the attestation     *)
(* agent for a token and the key pair it certifies, over ttrpc with a      *)
(* timeout.  The agent serves every such call with a new client of         *)
(* RcarClient, so a client of that module is used for one call here, and   *)
(* stands for the key pair made for it.                                    *)
(***************************************************************************)
EXTENDS RcarClient

CONSTANTS
  Hubs,        \* the hub's KbsClients
  HubFaults,   \* the faults of the hub's own calls
  MaxGets      \* bound: the resources a hub's client asks for

ASSUME TokenAssumption ==
  /\ HubFaults \subseteq {"timeout", "aaDown", "lost", "missing"}
  /\ MaxGets \in Nat \ {0}

VARIABLES
  hub,   \* the hub's clients
  gone   \* the calls to the agent whose caller waits no more

allVars == <<cl, sess, ops, hurt, hub, gone>>

HubPoints == {"idle", "ask", "wait", "get", "done"}
HubResults == {"none", "ok", "unreadable", "noToken", "unauthorized", "notFound", "failed"}

\* token: of which session; key: the clients of the agent whose key pair the hub
\* holds (none: a pair of its own); call: the call to the agent it waits for;
\* hurt: something failed or expired since the operation began (history).
NewHub == [pc |-> "idle", attempt |-> 0, token |-> 0, key |-> {}, call |-> {}, gets |-> 0,
           refused |-> FALSE, result |-> "none", hurt |-> FALSE]

HubInit == Init /\ hub = [h \in Hubs |-> NewHub] /\ gone = {}

SetHub(h, r) == hub' = [hub EXCEPT ![h] = r]

\* The operation is over.
Leave(r, result) == [r EXCEPT !.pc = "done", !.result = result, !.call = {}]

\* get_resource asks for a token only if there is none.
HubGet(h) ==
  /\ hub[h].pc = "idle"
  /\ hub[h].gets < MaxGets
  /\ SetHub(h, [hub[h] EXCEPT !.pc = IF hub[h].token = 0 THEN "ask" ELSE "get", !.attempt = 1,
                              !.gets = @ + 1, !.refused = FALSE, !.hurt = FALSE])
  /\ UNCHANGED <<vars, gone>>

HubReturn(h) ==
  /\ hub[h].pc = "done"
  /\ SetHub(h, [hub[h] EXCEPT !.pc = "idle", !.result = "none", !.attempt = 0])
  /\ UNCHANGED <<vars, gone>>

-----------------------------------------------------------------------------
(* update_token *)

\* The agent makes a client for the call: a new key pair, no token, no cookie.
Unused == {c \in Clients : ops[c] = 0}

Ask(h) ==
  /\ hub[h].pc = "ask"
  /\ Unused # {}
  /\ LET c == CHOOSE c \in Unused : TRUE
     IN  GetToken(c) /\ SetHub(h, [hub[h] EXCEPT !.pc = "wait", !.call = {c}])
  /\ UNCHANGED gone

AskFails(h) ==
  /\ "aaDown" \in HubFaults
  /\ hub[h].pc = "ask"
  /\ SetHub(h, [Leave(hub[h], "noToken") EXCEPT !.hurt = TRUE])
  /\ UNCHANGED <<vars, gone>>

\* Mutant of Keep: the key pair the hub began with stays.
KeepToken(r, c) == [r EXCEPT !.token = cl[c].token]

\* The token and the key pair of an answer replace the old ones together.
Keep(r, c) == [r EXCEPT !.token = cl[c].token, !.key = {c}]

\* Mutant of AfterToken: a new token is not tried.
AfterTokenGivesUp(r) ==
  IF ~r.refused THEN [r EXCEPT !.pc = "get"] ELSE Leave(r, "unauthorized")

\* Mutant of AfterToken: the attempts are not counted.
AfterTokenUncounted(r) == [r EXCEPT !.pc = "get"]

\* With a token in hand: the request, unless the token was the answer to the
\* refusal of the last attempt.
AfterToken(r) ==
  IF ~r.refused THEN [r EXCEPT !.pc = "get"]
  ELSE IF r.attempt = GetMaxAttempt THEN Leave(r, "unauthorized")
  ELSE [r EXCEPT !.pc = "get", !.attempt = @ + 1]

\* The agent's answer arrives in time.
Answered(h, c) ==
  /\ hub[h].pc = "wait" /\ hub[h].call = {c}
  /\ Return(c)
  /\ LET r == [hub[h] EXCEPT !.call = {}, !.hurt = @ \/ hurt[c]]
     IN  SetHub(h, IF cl[c].result = "ok" THEN AfterToken(Keep(r, c))
                   ELSE Leave(r, "noToken"))
  /\ UNCHANGED gone

\* The hub's timeout (50 s) ends the call before the agent, which may try
\* RCAR_MAX_ATTEMPT handshakes with requests of up to 60 s, has an answer.
CallTimesOut(h, c) ==
  /\ "timeout" \in HubFaults
  /\ hub[h].pc = "wait" /\ hub[h].call = {c}
  /\ gone' = gone \cup {c}
  /\ SetHub(h, [Leave(hub[h], "noToken") EXCEPT !.hurt = TRUE])
  /\ UNCHANGED vars

\* The server drops the handler of a call that has timed out, at any step of
\* it, or the handler ends first and its answer is thrown away.
Drop(c) ==
  /\ c \in gone
  /\ gone' = gone \ {c}
  /\ Set(c, NewClient)
  /\ UNCHANGED <<sess, ops, hurt, hub>>

-----------------------------------------------------------------------------
(* The request with the token. *)

Accepted(r) == r.token \in Sessions /\ sess[r.token].fresh

\* 200: the resource is encrypted to the key in the token.
HubResource(h) ==
  /\ hub[h].pc = "get"
  /\ Accepted(hub[h])
  /\ SetHub(h, Leave(hub[h], IF hub[h].key = sess[hub[h].token].keys THEN "ok"
                             ELSE "unreadable"))
  /\ UNCHANGED <<vars, gone>>

\* 401: a new token.
HubUnauthorized(h) ==
  /\ hub[h].pc = "get"
  /\ ~Accepted(hub[h])
  /\ SetHub(h, [hub[h] EXCEPT !.pc = "ask", !.refused = TRUE])
  /\ UNCHANGED <<vars, gone>>

\* 404, another status, or no answer.
HubRequestFails(h) ==
  /\ hub[h].pc = "get"
  /\ \/ /\ "missing" \in HubFaults /\ Accepted(hub[h])
        /\ SetHub(h, [Leave(hub[h], "notFound") EXCEPT !.hurt = TRUE])
     \/ /\ "lost" \in HubFaults
        /\ SetHub(h, [Leave(hub[h], "failed") EXCEPT !.hurt = TRUE])
  /\ UNCHANGED <<vars, gone>>

-----------------------------------------------------------------------------
\* The steps of the agent for a call and the KBS's own steps, as in RcarClient.
AgentStep(c) ==
  /\ cl[c].pc # "done"
  /\ Step(c)
  /\ UNCHANGED <<hub, gone>>

KbsStep ==
  /\ Env
  /\ hub' = [h \in Hubs |-> [hub[h] EXCEPT !.hurt = TRUE]]
  /\ UNCHANGED gone

HubStep(h) ==
  \/ Ask(h) \/ HubResource(h) \/ HubUnauthorized(h) \/ HubReturn(h)
  \/ \E c \in Clients : Answered(h, c)

HubFails(h) ==
  \/ AskFails(h) \/ HubRequestFails(h)
  \/ \E c \in Clients : CallTimesOut(h, c)

HubNext ==
  \/ KbsStep
  \/ \E h \in Hubs : HubGet(h) \/ HubStep(h) \/ HubFails(h)
  \/ \E c \in Clients : AgentStep(c) \/ Drop(c)

HubSpec == HubInit /\ [][HubNext]_allVars

\* The hub and the agent go on with what they have begun; nothing that fails,
\* a timeout included, is counted on.
HubFairSpec == /\ HubSpec
               /\ \A h \in Hubs : WF_allVars(HubStep(h))
               /\ \A c \in Clients : WF_allVars(AgentStep(c))

-----------------------------------------------------------------------------
(* Properties *)

\* Every variable has its type.
HubTypeOK ==
  /\ TypeOK
  /\ hub \in [Hubs -> [pc : HubPoints, attempt : 0 .. GetMaxAttempt, token : Ids,
                       key : SUBSET Clients, call : SUBSET Clients, gets : 0 .. MaxGets,
                       refused : BOOLEAN, result : HubResults, hurt : BOOLEAN]]
  /\ gone \subseteq Clients

\* The token a hub holds was issued for the key pair it holds, through expiry,
\* renewal, calls that time out and answers thrown away: what the KBS encrypts
\* to the key in the token can always be decrypted.
TokenCertifiesKey == \A h \in Hubs :
  /\ hub[h].token > 0 => sess[hub[h].token].keys = hub[h].key
  /\ hub[h].result # "unreadable"

\* A resource is got at once if nothing fails or expires in the meantime, even
\* with a token that expired before.
HubNoNeedlessFailure == \A h \in Hubs : hub[h].result \in {"none", "ok"} \/ hub[h].hurt

\* Every resource asked for is answered, with the resource or an error.
GetsEnd == \A h \in Hubs : hub[h].pc # "idle" ~> hub[h].pc = "idle"
=============================================================================

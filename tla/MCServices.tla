------------------------------ MODULE MCServices ------------------------------
(***************************************************************************)
(* Instances of RestClient and HubPull for TLC: the two services of the    *)
(* guest that answer its workloads, each by itself.  The requests to the   *)
(* REST server make two calls, one and none: without what they need, or    *)
(* not local.                                                              *)
(***************************************************************************)
EXTENDS RestClient, HubPull

RestRequest(route, method, valid, local) ==
  [route |-> route, method |-> method, valid |-> valid, local |-> local]

MCRequests ==
  { RestRequest("info", "GET", TRUE, TRUE), RestRequest("aael", "POST", TRUE, TRUE),
    RestRequest("token", "GET", FALSE, TRUE), RestRequest("resource", "GET", TRUE, FALSE) }

VARIABLE service   \* the one a behaviour is of

Answering == {"api-server-rest", "confidential-data-hub"}

ServicesInit ==
  /\ Init
  /\ HubInit
  /\ service \in Answering
  /\ service = "api-server-rest" => mode = "ok" /\ kbc = "cc_kbc"

ServicesNext ==
  \/ service = "api-server-rest" /\ Next /\ UNCHANGED <<hubVars, service>>
  \/ service = "confidential-data-hub" /\ HubNext /\ UNCHANGED <<vars, service>>

\* The fairness of FairSpec and HubFairSpec.
ServicesSpec ==
  /\ ServicesInit /\ [][ServicesNext]_<<vars, hubVars, service>>
  /\ \A h \in Handlers : WF_vars(Step(h)) /\ SF_vars(Lock(h))
  /\ \A p \in Pulls : WF_hubVars(StepOfPull(p)) /\ SF_hubVars(LockClient(p))
=============================================================================

---------------------------- MODULE RequestReply ----------------------------
(***************************************************************************)
(* What the mesh promises the load balancer about a request, with nothing  *)
(* of how it keeps the promise (no cache, no connections, no clock):       *)
(* the request is handed to an agent at most once; it is answered at most  *)
(* once; an answer of "response" is one an agent gave to this request;     *)
(* "504" means an agent has the request and did not answer in time; "404"  *)
(* and "503" mean that no agent has or will ever have it.                  *)
(***************************************************************************)
CONSTANTS Requests, None

VARIABLES
    status,     \* "idle", "open", "closed" (answered) or "dropped"
    agent,      \* "no", "held" or "answered"
    answer      \* what the load balancer got, or None

abstractVars == <<status, agent, answer>>

Init ==
    /\ status = [r \in Requests |-> "idle"]
    /\ agent = [r \in Requests |-> "no"]
    /\ answer = [r \in Requests |-> None]

Submit(r) ==
    /\ status[r] = "idle"
    /\ status' = [status EXCEPT ![r] = "open"]
    /\ UNCHANGED <<agent, answer>>

HandOver(r) ==
    /\ status[r] = "open"
    /\ agent[r] = "no"
    /\ agent' = [agent EXCEPT ![r] = "held"]
    /\ UNCHANGED <<status, answer>>

\* The agent may answer long after the load balancer was told "504" or left.
AgentAnswers(r) ==
    /\ agent[r] = "held"
    /\ agent' = [agent EXCEPT ![r] = "answered"]
    /\ UNCHANGED <<status, answer>>

Answers(r) ==
    IF agent[r] = "no" THEN {"404", "503"}
    ELSE {"504"} \cup (IF agent[r] = "answered" THEN {"response"} ELSE {})

Answer(r) ==
    /\ status[r] = "open"
    /\ \E a \in Answers(r) : answer' = [answer EXCEPT ![r] = a]
    /\ status' = [status EXCEPT ![r] = "closed"]
    /\ UNCHANGED agent

Abandon(r) ==
    /\ status[r] = "open"
    /\ status' = [status EXCEPT ![r] = "dropped"]
    /\ UNCHANGED <<agent, answer>>

Next ==
    \E r \in Requests :
        Submit(r) \/ HandOver(r) \/ AgentAnswers(r) \/ Answer(r) \/ Abandon(r)

Spec == Init /\ [][Next]_abstractVars
=============================================================================

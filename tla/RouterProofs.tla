---------------------------- MODULE RouterProofs ----------------------------
(***************************************************************************)
(* Theorems about the router, for any connections, hosts, requests and     *)
(* time limits.                                                            *)
(***************************************************************************)
EXTENDS Router, TLAPS

-----------------------------------------------------------------------------
(* Type correctness *)

\* The critical sections of the registry keep its type.
LEMMA RegistryStepType ==
    ASSUME RegistryTypeOK, NEW c \in Conns,
           \/ InsertConnection(c) \/ DropConnection(c) \/ UpdateHeartbeat(c)
           \/ InsertRegistration(c) \/ DropRegistration(c)
           \/ InsertSender(c) \/ DropSender(c)
    PROVE  RegistryTypeOK'
<1>1. 0 \in Ages
  BY RegistryAssumption DEF RegistryAssumption, Ages
<1> QED
  BY <1>1 DEF RegistryTypeOK, InsertConnection, DropConnection, UpdateHeartbeat,
              InsertRegistration, DropRegistration, InsertSender, DropSender

\* A tick of the clock keeps the registry's type.
LEMMA AgeHeartbeatsType ==
    ASSUME RegistryTypeOK, AgeHeartbeats
    PROVE  RegistryTypeOK'
BY RegistryAssumption
DEF RegistryAssumption, RegistryTypeOK, AgeHeartbeats, Older, Ages

\* A tick keeps the type of the cache and of the timers.
LEMMA TickType ==
    ASSUME TypeOK, Tick
    PROVE  TypeOK'
<1>1. RegistryTypeOK'
  BY AgeHeartbeatsType DEF TypeOK, Tick
<1>2. ASSUME NEW entry \in CacheEntries
      PROVE  [entry EXCEPT !.age = Older(@, CacheTtl)] \in CacheEntries
  BY <1>2, RouterAssumption DEF RouterAssumption, CacheEntries, Older
<1>3. host_service_cache' \in [Hosts -> CacheEntries \cup {None}]
  BY <1>2 DEF TypeOK, Tick
<1>4. timer' \in [Requests -> 0 .. RequestTimeout]
  BY RouterAssumption DEF RouterAssumption, TypeOK, Tick
<1> QED
  BY <1>1, <1>3, <1>4 DEF TypeOK, Tick

\* One step of a request's task keeps the type.
LEMMA RequestStepType ==
    ASSUME TypeOK, NEW r \in Requests, RequestStep(r)
    PROVE  TypeOK'
<1> USE DEF TypeOK, registryVars, RegistryTypeOK, GoTo, Labels, Outcomes
<1>1. CASE CacheHit(r)
  BY <1>1 DEF CacheHit, Fresh, CacheEntries
<1>2. CASE CacheMiss(r)
  BY <1>2 DEF CacheMiss
<1>3. CASE ReadRegistrations(r)
  BY <1>3 DEF ReadRegistrations, Matching
<1>4. CASE StoreInCache(r)
  <2>1. [services |-> services[r], age |-> 0] \in CacheEntries
    BY RouterAssumption DEF RouterAssumption, CacheEntries
  <2> QED
    BY <1>4, <2>1 DEF StoreInCache
<1>5. CASE NotFound(r) \/ NoHealthyService(r)
  BY <1>5 DEF NotFound, NoHealthyService, Return
<1>6. CASE SelectHealthyService(r)
  BY <1>6 DEF SelectHealthyService, HealthyServices
<1>7. CASE InsertPending(r)
  BY <1>7 DEF InsertPending
<1>8. CASE Forward(r)
  BY <1>8, RouterAssumption DEF Forward, RouterAssumption
<1>9. CASE ForwardFails(r)
  BY <1>9 DEF ForwardFails
<1>10. CASE Receive(r)
  BY <1>10, RouterAssumption DEF Receive, Return, RouterAssumption
<1>11. CASE GiveUp(r)
  BY <1>11, RouterAssumption DEF GiveUp, RouterAssumption
<1>12. CASE CleanUp(r)
  BY <1>12 DEF CleanUp
<1> QED
  BY <1>1, <1>2, <1>3, <1>4, <1>5, <1>6, <1>7, <1>8, <1>9, <1>10, <1>11, <1>12
     DEF RequestStep

\* Every step of the router keeps the type.
LEMMA NextType ==
    ASSUME TypeOK, [Next]_vars
    PROVE  TypeOK'
<1>1. ASSUME NEW r \in Requests, Arrive(r)
      PROVE  TypeOK'
  BY <1>1 DEF Arrive, TypeOK, registryVars, RegistryTypeOK, GoTo, Labels
<1>2. ASSUME NEW r \in Requests, Cancel(r)
      PROVE  TypeOK'
  BY <1>2, RouterAssumption
  DEF Cancel, TypeOK, registryVars, RegistryTypeOK, GoTo, Labels, RouterAssumption
<1>3. ASSUME NEW r \in Requests, HandleResponse(r)
      PROVE  TypeOK'
  BY <1>3 DEF HandleResponse, TypeOK, registryVars, RegistryTypeOK
<1>4. ASSUME NEW c \in Conns, Accept(c)
      PROVE  TypeOK'
  <2>1. RegistryTypeOK'
    BY <1>4, RegistryStepType DEF Accept, TypeOK
  <2> QED
    BY <1>4, <2>1 DEF Accept, TypeOK, routerVars, taskVars
<1>5. ASSUME NEW c \in Conns, CloseReceiver(c)
      PROVE  TypeOK'
  BY <1>5 DEF CloseReceiver, TypeOK, registryVars, RegistryTypeOK, routerVars,
              taskVars
<1>6. ASSUME NEW c \in Conns, RegistryStep(c)
      PROVE  TypeOK'
  <2>1. RegistryTypeOK'
    BY <1>6, RegistryStepType DEF RegistryStep, TypeOK
  <2> QED
    BY <1>6, <2>1 DEF RegistryStep, TypeOK, routerVars, taskVars
<1>7. CASE UNCHANGED vars
  BY <1>7 DEF vars, TypeOK, registryVars, RegistryTypeOK, taskVars
<1> QED
  BY <1>1, <1>2, <1>3, <1>4, <1>5, <1>6, <1>7, RequestStepType, TickType
  DEF Next, Step

\* Every variable of the router keeps its type (TypeOK), for all constants.
THEOREM TypeCorrect == SafeSpec => []TypeOK
<1>1. Init => TypeOK
  BY RouterAssumption
  DEF Init, TypeOK, RegistryInit, RegistryTypeOK, Labels, RouterAssumption
<1> QED
  BY <1>1, NextType, PTL DEF SafeSpec

-----------------------------------------------------------------------------
(* The inductive invariant *)

\* What is true of a request at each point of route_request: where its pending
\* entry is, whether an agent has it, what its channel holds and what was
\* decided.
Before(r) ==
    pc[r] \in {"idle", "cache", "read", "store", "match", "pend", "send"} =>
        /\ forwarded[r] = "no"
        /\ outcome[r] = None
        /\ slot[r] = "empty"
        /\ r \in pending_requests <=> pc[r] = "send"
Waiting(r) ==
    pc[r] = "wait" =>
        /\ outcome[r] = None
        /\ \/ /\ forwarded[r] = "held"
              /\ r \in pending_requests
              /\ slot[r] = "empty"
           \/ /\ forwarded[r] = "answered"
              /\ r \notin pending_requests
              /\ slot[r] = "full"
Decided(r) ==
    /\ pc[r] = "cleanup" =>
           /\ slot[r] = "empty"
           /\ \/ outcome[r] = "503" /\ forwarded[r] = "no"
              \/ outcome[r] = "504" /\ forwarded[r] # "no"
    /\ pc[r] = "done" =>
           /\ r \notin pending_requests
           /\ slot[r] = "full" => outcome[r] = "response"
           /\ \/ outcome[r] \in {"404", "503"} /\ forwarded[r] = "no"
              \/ outcome[r] = "504" /\ forwarded[r] # "no"
              \/ outcome[r] = "response" /\ forwarded[r] = "answered"
    /\ pc[r] = "cancelled" => outcome[r] = None

RequestInv(r) == Before(r) /\ Waiting(r) /\ Decided(r)

IInv == TypeOK /\ \A r \in Requests : RequestInv(r)

\* One step of a request's own task keeps its part of the invariant.
LEMMA OwnStep ==
    ASSUME IInv, NEW r \in Requests, RequestStep(r)
    PROVE  RequestInv(r)'
<1> USE DEF RequestInv, Before, Waiting, Decided, GoTo
<1>0. TypeOK /\ RequestInv(r)
  BY DEF IInv
<1> USE <1>0 DEF TypeOK
<1>1. CASE CacheHit(r)
  BY <1>1 DEF CacheHit
<1>2. CASE CacheMiss(r)
  BY <1>2 DEF CacheMiss
<1>3. CASE ReadRegistrations(r)
  BY <1>3 DEF ReadRegistrations
<1>4. CASE StoreInCache(r)
  BY <1>4 DEF StoreInCache
<1>5. CASE NotFound(r) \/ NoHealthyService(r)
  BY <1>5 DEF NotFound, NoHealthyService, Return
<1>6. CASE SelectHealthyService(r)
  BY <1>6 DEF SelectHealthyService
<1>7. CASE InsertPending(r)
  BY <1>7 DEF InsertPending
<1>8. CASE Forward(r)
  BY <1>8 DEF Forward
<1>9. CASE ForwardFails(r)
  BY <1>9 DEF ForwardFails
<1>10. CASE Receive(r)
  BY <1>10 DEF Receive, Return, Polled
<1>11. CASE GiveUp(r)
  BY <1>11 DEF GiveUp, Polled
<1>12. CASE CleanUp(r)
  BY <1>12 DEF CleanUp
<1> QED
  BY <1>1, <1>2, <1>3, <1>4, <1>5, <1>6, <1>7, <1>8, <1>9, <1>10, <1>11, <1>12
     DEF RequestStep

\* What happens to a request from outside keeps its part of the invariant.
LEMMA OutsideStep ==
    ASSUME IInv, NEW r \in Requests,
           Arrive(r) \/ Cancel(r) \/ HandleResponse(r)
    PROVE  RequestInv(r)'
BY DEF IInv, TypeOK, RequestInv, Before, Waiting, Decided, GoTo,
       Arrive, Cancel, HandleResponse, Active, Labels

\* What the invariant says of a request depends on these alone.
SameRequest(r) ==
    /\ pc'[r] = pc[r]
    /\ forwarded'[r] = forwarded[r]
    /\ outcome'[r] = outcome[r]
    /\ slot'[r] = slot[r]
    /\ r \in pending_requests' <=> r \in pending_requests

\* A request's step does nothing to any other request.
LEMMA OthersUntouched ==
    ASSUME TypeOK, NEW r \in Requests, NEW s \in Requests, s # r,
           RequestStep(r) \/ Arrive(r) \/ Cancel(r) \/ HandleResponse(r)
    PROVE  SameRequest(s)
<1> USE DEF TypeOK, SameRequest, GoTo, Return
<1>1. CASE RequestStep(r)
  BY <1>1 DEF RequestStep, CacheHit, CacheMiss, ReadRegistrations, StoreInCache,
              NotFound, NoHealthyService, SelectHealthyService, InsertPending,
              Forward, ForwardFails, Receive, GiveUp, CleanUp
<1> QED
  BY <1>1 DEF Arrive, Cancel, HandleResponse

\* The invariant is inductive.
LEMMA InductiveStep ==
    ASSUME IInv, [Next]_vars
    PROVE  IInv'
<1>1. TypeOK'
  BY NextType DEF IInv
<1>2. SUFFICES ASSUME NEW s \in Requests
               PROVE  RequestInv(s)'
  BY <1>1 DEF IInv
<1>3. CASE SameRequest(s)
  BY <1>3 DEF IInv, SameRequest, RequestInv, Before, Waiting, Decided
<1>4. ASSUME NEW r \in Requests,
             RequestStep(r) \/ Arrive(r) \/ Cancel(r) \/ HandleResponse(r)
      PROVE  RequestInv(s)'
  <2>1. CASE s = r
    BY <1>4, <2>1, OwnStep, OutsideStep
  <2>2. CASE s # r
    BY <1>3, <1>4, <2>2, OthersUntouched DEF IInv
  <2> QED
    BY <2>1, <2>2
<1>5. ASSUME NEW c \in Conns, Accept(c) \/ CloseReceiver(c) \/ RegistryStep(c)
      PROVE  SameRequest(s)
  BY <1>5 DEF Accept, CloseReceiver, RegistryStep, routerVars, taskVars, SameRequest
<1>6. CASE Tick
  BY <1>3, <1>6 DEF Tick, SameRequest
<1>7. CASE UNCHANGED vars
  BY <1>3, <1>7 DEF vars, taskVars, SameRequest
<1> QED
  BY <1>3, <1>4, <1>5, <1>6, <1>7 DEF Next, Step

\* The invariant holds in every state the router reaches.
LEMMA Invariant == SafeSpec => []IInv
<1>1. Init => IInv
  <2>1. Init => TypeOK
    BY RouterAssumption
    DEF Init, TypeOK, RegistryInit, RegistryTypeOK, Labels, RouterAssumption
  <2> QED
    BY <2>1 DEF Init, IInv, RequestInv, Before, Waiting, Decided
<1> QED
  BY <1>1, InductiveStep, PTL DEF SafeSpec

-----------------------------------------------------------------------------
(* The safety properties *)

\* PendingOwned: an entry of pending_requests belongs to a task that will remove
\* it, or to a request its client abandoned.
THEOREM PendingAlwaysOwned == SafeSpec => []PendingOwned
<1>1. IInv => PendingOwned
  BY DEF IInv, TypeOK, RequestInv, Before, Waiting, Decided, PendingOwned, Labels
<1> QED
  BY <1>1, Invariant, PTL

\* ReplyNotLost: a waiting request never finds its channel closed, once its agent
\* has answered the answer is in the channel, and an answer in the channel is what
\* the request returns unless its client goes away.
THEOREM RepliesNeverLost == SafeSpec => []ReplyNotLost
<1>1. IInv => ReplyNotLost
  BY DEF IInv, TypeOK, RequestInv, Before, Waiting, Decided, ReplyNotLost, Polled,
         Labels
<1> QED
  BY <1>1, Invariant, PTL

\* RejectedNeverForwarded: no agent has a request that is answered 404 or 503.
THEOREM RejectionsAreSafe == SafeSpec => []RejectedNeverForwarded
<1>1. IInv => RejectedNeverForwarded
  <2> SUFFICES ASSUME IInv, NEW r \in Requests, outcome[r] \in {"404", "503"}
               PROVE  forwarded[r] = "no"
    BY DEF RejectedNeverForwarded
  <2>1. outcome[r] # None
    BY NoneAssumption DEF NoneAssumption, Outcomes
  <2> QED
    BY <2>1 DEF IInv, TypeOK, RequestInv, Before, Waiting, Decided, Labels
<1> QED
  BY <1>1, Invariant, PTL

-----------------------------------------------------------------------------
(* The router implements RequestReply: its initial states map to initial     *)
(* states, and each step to a step or a stutter.                            *)

\* A request's abstract state, and the steps that leave it as it is.
SameAbstractly(s) ==
    /\ statusBar'[s] = statusBar[s]
    /\ forwarded'[s] = forwarded[s]
    /\ answerBar'[s] = answerBar[s]

\* Where no request changes abstractly, the step is a stutter.
LEMMA Stutter ==
    ASSUME TypeOK, TypeOK', \A s \in Requests : SameAbstractly(s)
    PROVE  UNCHANGED RR!abstractVars
<1>1. statusBar' = statusBar
  BY DEF SameAbstractly, statusBar
<1>2. answerBar' = answerBar
  BY DEF SameAbstractly, answerBar
<1>3. forwarded' = forwarded
  BY DEF SameAbstractly, TypeOK
<1> QED
  BY <1>1, <1>2, <1>3 DEF RR!abstractVars

\* A step that does not touch the request's variables is a stutter for it.
LEMMA SameRequestIsSame ==
    ASSUME NEW s \in Requests, SameRequest(s)
    PROVE  SameAbstractly(s)
BY DEF SameRequest, SameAbstractly, statusBar, answerBar

\* Where one request changes abstractly, the bars change at that request.
LEMMA OneChanges ==
    ASSUME TypeOK, TypeOK', NEW r \in Requests,
           \A s \in Requests \ {r} : SameAbstractly(s)
    PROVE  /\ statusBar' = [statusBar EXCEPT ![r] = statusBar'[r]]
           /\ answerBar' = [answerBar EXCEPT ![r] = answerBar'[r]]
           /\ forwarded' = [forwarded EXCEPT ![r] = forwarded'[r]]
<1>1. statusBar' = [statusBar EXCEPT ![r] = statusBar'[r]]
  BY DEF SameAbstractly, statusBar
<1>2. answerBar' = [answerBar EXCEPT ![r] = answerBar'[r]]
  BY DEF SameAbstractly, answerBar
<1>3. forwarded' = [forwarded EXCEPT ![r] = forwarded'[r]]
  BY DEF SameAbstractly, TypeOK
<1> QED
  BY <1>1, <1>2, <1>3

\* The steps of route_request before the task returns, other than the hand-over,
\* are invisible.
LEMMA InnerStep ==
    ASSUME IInv, NEW r \in Requests,
           \/ CacheHit(r) \/ CacheMiss(r) \/ ReadRegistrations(r)
           \/ StoreInCache(r) \/ SelectHealthyService(r) \/ InsertPending(r)
           \/ ForwardFails(r) \/ GiveUp(r)
    PROVE  SameAbstractly(r)
BY DEF IInv, TypeOK, SameAbstractly, statusBar, answerBar, Active, Labels, GoTo,
       CacheHit, CacheMiss, ReadRegistrations, StoreInCache,
       SelectHealthyService, InsertPending, ForwardFails, GiveUp

\* The steps that return an answer.
LEMMA AnswerStep ==
    ASSUME IInv, IInv', NEW r \in Requests,
           NotFound(r) \/ NoHealthyService(r) \/ Receive(r) \/ CleanUp(r)
    PROVE  /\ statusBar[r] = "open" /\ statusBar'[r] = "closed"
           /\ forwarded' = forwarded
           /\ answerBar'[r] \in RR!Answers(r)
<1>1. pc[r] \in Active /\ pc'[r] = "done" /\ forwarded' = forwarded
  BY DEF IInv, TypeOK, GoTo, Return, Active, Labels,
         NotFound, NoHealthyService, Receive, CleanUp
<1>2. statusBar[r] = "open" /\ statusBar'[r] = "closed"
  BY <1>1 DEF statusBar, Active
<1>3. answerBar'[r] = outcome'[r]
  BY <1>1 DEF answerBar
<1>4. \/ outcome'[r] \in {"404", "503"} /\ forwarded'[r] = "no"
      \/ outcome'[r] = "504" /\ forwarded'[r] # "no"
      \/ outcome'[r] = "response" /\ forwarded'[r] = "answered"
  BY <1>1 DEF IInv, RequestInv, Decided
<1> QED
  BY <1>1, <1>2, <1>3, <1>4 DEF RR!Answers

\* Each step of the router is a step of RequestReply or a stutter.
LEMMA StepRefines ==
    ASSUME IInv, IInv', [Next]_vars
    PROVE  [RR!Next]_(RR!abstractVars)
<1>0. TypeOK /\ TypeOK'
  BY DEF IInv
<1>1. ASSUME NEW r \in Requests,
             RequestStep(r) \/ Arrive(r) \/ Cancel(r) \/ HandleResponse(r)
      PROVE  [RR!Next]_(RR!abstractVars)
  <2>1. \A s \in Requests \ {r} : SameAbstractly(s)
    BY <1>0, <1>1, OthersUntouched, SameRequestIsSame
  <2>2. /\ statusBar' = [statusBar EXCEPT ![r] = statusBar'[r]]
        /\ answerBar' = [answerBar EXCEPT ![r] = answerBar'[r]]
        /\ forwarded' = [forwarded EXCEPT ![r] = forwarded'[r]]
    BY <1>0, <2>1, OneChanges
  <2>3. CASE SameAbstractly(r)
    BY <1>0, <2>1, <2>3, Stutter
  <2>4. CASE Arrive(r)
    <3>1. /\ statusBar[r] = "idle" /\ statusBar'[r] = "open"
          /\ answerBar'[r] = answerBar[r]
          /\ forwarded' = forwarded
      BY <1>0, <2>4 DEF Arrive, TypeOK, GoTo, statusBar, answerBar, Active, Labels
    <3>2. answerBar' = answerBar
      BY <2>2, <3>1 DEF answerBar
    <3> QED
      BY <2>2, <3>1, <3>2 DEF RR!Next, RR!Submit
  <2>5. CASE Forward(r)
    <3>1. /\ statusBar[r] = "open" /\ statusBar'[r] = statusBar[r]
          /\ answerBar'[r] = answerBar[r]
          /\ forwarded'[r] = "held"
      BY <1>0, <2>5 DEF Forward, TypeOK, GoTo, statusBar, answerBar, Active, Labels
    <3>2. forwarded[r] = "no"
      BY <2>5 DEF Forward, IInv, RequestInv, Before
    <3>3. answerBar' = answerBar /\ statusBar' = statusBar
      BY <2>2, <3>1 DEF answerBar, statusBar
    <3> QED
      BY <2>2, <3>1, <3>2, <3>3 DEF RR!Next, RR!HandOver
  <2>6. CASE Cancel(r)
    <3>1. /\ statusBar[r] = "open" /\ statusBar'[r] = "dropped"
          /\ answerBar'[r] = answerBar[r]
          /\ forwarded' = forwarded
      BY <1>0, <2>6 DEF Cancel, TypeOK, GoTo, statusBar, answerBar, Active, Labels
    <3>2. answerBar' = answerBar
      BY <2>2, <3>1 DEF answerBar
    <3> QED
      BY <2>2, <3>1, <3>2 DEF RR!Next, RR!Abandon
  <2>7. CASE HandleResponse(r)
    <3>1. /\ forwarded[r] = "held" /\ forwarded'[r] = "answered"
          /\ statusBar' = statusBar
          /\ answerBar' = answerBar
      BY <1>0, <2>7 DEF HandleResponse, TypeOK, statusBar, answerBar
    <3> QED
      BY <2>2, <3>1 DEF RR!Next, RR!AgentAnswers
  <2>8. CASE NotFound(r) \/ NoHealthyService(r) \/ Receive(r) \/ CleanUp(r)
    <3>1. /\ statusBar[r] = "open" /\ statusBar'[r] = "closed"
          /\ forwarded' = forwarded
          /\ answerBar'[r] \in RR!Answers(r)
      BY <2>8, AnswerStep
    <3> QED
      BY <2>2, <3>1 DEF RR!Next, RR!Answer
  <2>9. CASE \/ CacheHit(r) \/ CacheMiss(r) \/ ReadRegistrations(r)
             \/ StoreInCache(r) \/ SelectHealthyService(r) \/ InsertPending(r)
             \/ ForwardFails(r) \/ GiveUp(r)
    BY <2>3, <2>9, InnerStep
  <2> QED
    BY <1>1, <2>4, <2>5, <2>6, <2>7, <2>8, <2>9 DEF RequestStep
<1>2. CASE \A s \in Requests : SameRequest(s)
  BY <1>0, <1>2, SameRequestIsSame, Stutter
<1>3. ASSUME NEW c \in Conns, Accept(c) \/ CloseReceiver(c) \/ RegistryStep(c)
      PROVE  \A s \in Requests : SameRequest(s)
  BY <1>3 DEF Accept, CloseReceiver, RegistryStep, routerVars, taskVars, SameRequest
<1>4. CASE Tick
  BY <1>2, <1>4 DEF Tick, SameRequest
<1>5. CASE UNCHANGED vars
  BY <1>2, <1>5 DEF vars, taskVars, SameRequest
<1> QED
  BY <1>1, <1>2, <1>3, <1>4, <1>5 DEF Next, Step

\* ImplementsRequestReply: whatever the cache, the registry and the clock do, the
\* load balancer sees each request handed over at most once, answered at most
\* once, and each answer is one RequestReply allows.
THEOREM Refinement == SafeSpec => ImplementsRequestReply
<1>1. Init => RR!Init
  BY DEF Init, RR!Init, statusBar, answerBar, Active, Labels
<1> QED
  BY <1>1, StepRefines, Invariant, PTL DEF SafeSpec, ImplementsRequestReply, RR!Spec
==============================================================================

--------------------------- MODULE HeartbeatsProofs ---------------------------
(***************************************************************************)
(* Theorems about heartbeats and the health window, for any interval,      *)
(* window, delay and busy time.                                            *)
(***************************************************************************)
EXTENDS Heartbeats, TLAPS

\* The longest time until the server hears again of an agent that serves: the
\* first heartbeat in flight is due, or the loop comes round to the one that is
\* queued, or the task has to tick first.
ToNextHeard ==
    IF flight > 0 THEN due
    ELSE IF queued > 0 THEN busy + MaxDelay
    ELSE next + MaxBusy + MaxDelay

\* An agent that serves has not been silent for longer than it may be, less what
\* is still to be waited for.
SilenceBounded == agent = "up" => sinceHeard + ToNextHeard <= LongestSilence

\* While the wall clock was not set, the age is the time since the heartbeat was
\* handled, as far as that is told apart.
AgeRight ==
    sinceSet > sinceHeard =>
        /\ age \in 0 .. sinceHeard
        /\ age < Window => age = sinceHeard

\* What was sent last has been handled, or is due.
SentOrDue ==
    IF flight > 0 THEN due + sinceSent <= MaxDelay
    ELSE sinceHeard <= sinceSent /\ sinceSent <= sinceHeard + MaxDelay

HeartbeatsInv == HeartbeatsTypeOK /\ SilenceBounded /\ AgeRight /\ SentOrDue

-----------------------------------------------------------------------------
\* The agent's steps keep the invariant: writing moves the wait from the loop to
\* the network.
LEMMA AgentKeeps ==
    ASSUME HeartbeatsInv, HeartbeatTick \/ TakeRequests \/ SendHeartbeat \/ Vanish
    PROVE  HeartbeatsInv'
<1> USE HeartbeatsAssumption
    DEF HeartbeatsAssumption, HeartbeatsInv, HeartbeatsTypeOK, SilenceBounded, AgeRight,
        SentOrDue, ToNextHeard, LongestSilence
<1>1. CASE HeartbeatTick
  BY <1>1 DEF HeartbeatTick
<1>2. CASE TakeRequests
  BY <1>2 DEF TakeRequests
<1>3. CASE SendHeartbeat
  BY <1>3 DEF SendHeartbeat
<1>4. CASE Vanish
  BY <1>4 DEF Vanish
<1> QED
  BY <1>1, <1>2, <1>3, <1>4

\* The server's steps and a change of its clock keep the invariant.
LEMMA ServerKeeps ==
    ASSUME HeartbeatsInv, HandleHeartbeat \/ SetClock
    PROVE  HeartbeatsInv'
<1> USE HeartbeatsAssumption
    DEF HeartbeatsAssumption, HeartbeatsInv, HeartbeatsTypeOK, SilenceBounded, AgeRight,
        SentOrDue, ToNextHeard, LongestSilence
<1>1. CASE HandleHeartbeat
  BY <1>1 DEF HandleHeartbeat
<1>2. CASE SetClock
  BY <1>2 DEF SetClock
<1> QED
  BY <1>1, <1>2

\* A tick takes one from what is waited for and adds one to the silence.
LEMMA TickKeeps ==
    ASSUME HeartbeatsInv, Tick
    PROVE  HeartbeatsInv'
<1> USE HeartbeatsAssumption
    DEF HeartbeatsAssumption, HeartbeatsInv, Tick, Sooner, Later
<1>1. HeartbeatsTypeOK'
  BY DEF HeartbeatsTypeOK
<1>2. SilenceBounded'
  BY DEF HeartbeatsTypeOK, SilenceBounded, ToNextHeard, LongestSilence
<1>3. SentOrDue'
  BY DEF HeartbeatsTypeOK, SentOrDue
<1>4. AgeRight'
  <2> SUFFICES ASSUME sinceSet' > sinceHeard'
               PROVE  /\ age' \in 0 .. sinceHeard'
                      /\ age' < Window => age' = sinceHeard'
    BY DEF AgeRight
  <2>1. sinceSet > sinceHeard /\ sinceHeard' = sinceHeard + 1
    BY DEF HeartbeatsTypeOK
  <2>2. age \in 0 .. sinceHeard /\ (age < Window => age = sinceHeard)
    BY <2>1 DEF AgeRight
  <2>3. sinceSent = Horizon => sinceHeard > Window
    BY DEF HeartbeatsTypeOK, SentOrDue
  <2> QED
    BY <2>1, <2>2, <2>3 DEF HeartbeatsTypeOK
<1> QED
  BY <1>1, <1>2, <1>3, <1>4

\* The invariant holds in every behaviour.
LEMMA HeartbeatsInvariant == Spec => []HeartbeatsInv
<1>1. Init => HeartbeatsInv
  BY HeartbeatsAssumption
  DEF HeartbeatsAssumption, Init, HeartbeatsInv, HeartbeatsTypeOK, SilenceBounded,
      AgeRight, SentOrDue, ToNextHeard, LongestSilence
<1>2. HeartbeatsInv /\ [Next]_heartbeatVars => HeartbeatsInv'
  <2> SUFFICES ASSUME HeartbeatsInv, [Next]_heartbeatVars
               PROVE  HeartbeatsInv'
    OBVIOUS
  <2>1. CASE UNCHANGED heartbeatVars
    BY <2>1
    DEF heartbeatVars, HeartbeatsInv, HeartbeatsTypeOK, SilenceBounded, AgeRight,
        SentOrDue, ToNextHeard
  <2> QED
    BY <2>1, AgentKeeps, ServerKeeps, TickKeeps DEF Next
<1> QED
  BY <1>1, <1>2, PTL DEF Spec

\* Every variable keeps its type.
THEOREM HeartbeatsTypeCorrect == Spec => []HeartbeatsTypeOK
<1>1. HeartbeatsInv => HeartbeatsTypeOK
  BY DEF HeartbeatsInv
<1> QED
  BY <1>1, HeartbeatsInvariant, PTL

\* ServingAgentHealthy: for any interval, busy time and delay that add up to less
\* than the window, the router finds a serving agent healthy at any moment, a
\* bounded time after a change of the wall clock at the latest.
THEOREM ServingAgentsHealthy == Spec => []ServingAgentHealthy
<1>1. HeartbeatsInv => ServingAgentHealthy
  <2> SUFFICES ASSUME HeartbeatsInv, agent = "up", LongestSilence < Window,
                      sinceSet > LongestSilence
               PROVE  Healthy
    BY DEF ServingAgentHealthy
  <2> USE HeartbeatsAssumption DEF HeartbeatsAssumption, HeartbeatsInv, HeartbeatsTypeOK
  <2>1. sinceHeard <= LongestSilence
    BY DEF SilenceBounded, ToNextHeard, LongestSilence
  <2>2. age \in 0 .. sinceHeard
    BY <2>1 DEF AgeRight, LongestSilence
  <2> QED
    BY <2>1, <2>2 DEF Healthy, LongestSilence
<1> QED
  BY <1>1, HeartbeatsInvariant, PTL

\* VanishedAgentDropped: an agent that vanished is selected for no longer than
\* the window and one delay.
THEOREM VanishedAgentsDropped == Spec => []VanishedAgentDropped
<1>1. HeartbeatsInv => VanishedAgentDropped
  BY HeartbeatsAssumption
  DEF HeartbeatsAssumption, HeartbeatsInv, HeartbeatsTypeOK, AgeRight, SentOrDue,
      Healthy, VanishedAgentDropped
<1> QED
  BY <1>1, HeartbeatsInvariant, PTL
=============================================================================

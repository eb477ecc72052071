----------------------------- MODULE Heartbeats -----------------------------
(***************************************************************************)
(* Time between an agent and the server's opinion of it.                   *)
(*                                                                         *)
(* A task of the agent puts a heartbeat into a channel at every interval;  *)
(* the agent's loop, which answers requests one after the other and waits  *)
(* for the local service each time, writes it to the websocket when it     *)
(* comes round.  The server stores the wall clock's time of its arrival,   *)
(* and takes the agent for healthy while that is less than the window ago; *)
(* the wall clock may be set in between.                                   *)
(*                                                                         *)
(* Time is counted in ticks.  A tick waits for what the code does without  *)
(* waiting, and for what the bounds below say must happen first.           *)
(***************************************************************************)
EXTENDS Integers

CONSTANTS
    Interval,  \* ticks between two heartbeats (15 seconds)
    Window,    \* ticks for which a heartbeat makes the agent healthy (60 seconds)
    MaxBusy,   \* bound: ticks the loop is taken up by local calls in a row
    MaxDelay,  \* bound: ticks a message takes to arrive and be handled
    MaxStep,   \* bound: ticks by which the wall clock is set
    Horizon    \* bound: ticks that are told apart

ASSUME HeartbeatsAssumption ==
    /\ Interval \in Nat \ {0}
    /\ Window \in Nat \ {0}
    /\ MaxBusy \in Nat
    /\ MaxDelay \in Nat
    /\ MaxStep \in Nat
    /\ Horizon \in Nat
    /\ Horizon > Window + MaxDelay
    /\ Horizon > Interval + MaxBusy + MaxDelay

VARIABLES
    agent,      \* "up", or "gone" without a word
    next,       \* ticks to the heartbeat task's next tick
    queued,     \* heartbeats in its channel
    busy,       \* ticks the local calls still take
    flight,     \* heartbeats on their way
    due,        \* ticks in which the first of them must have arrived
    age,        \* the wall clock less last_heartbeat, in ticks
    sinceSent,  \* history: ticks since a heartbeat was written
    sinceHeard, \* history: ticks since one was handled
    sinceSet    \* history: ticks since the wall clock was set

heartbeatVars == <<agent, next, queued, busy, flight, due, age,
                   sinceSent, sinceHeard, sinceSet>>

\* The longest time in which nothing is heard of an agent that serves.
LongestSilence == Interval + MaxBusy + MaxDelay

HeartbeatsTypeOK ==
    /\ agent \in {"up", "gone"}
    /\ next \in 0 .. Interval
    /\ queued \in Nat
    /\ busy \in 0 .. MaxBusy
    /\ flight \in Nat
    /\ due \in 0 .. MaxDelay
    /\ age \in Int
    /\ sinceSent \in 0 .. Horizon
    /\ sinceHeard \in 0 .. Horizon
    /\ sinceSet \in 0 .. Horizon

\* The agent has just registered: register_service stores the current time, the
\* first heartbeat has been written, and an interval's first tick is immediate.
Init ==
    /\ agent = "up"
    /\ next = 0 /\ queued = 0 /\ busy = 0
    /\ flight = 1 /\ due \in 0 .. MaxDelay
    /\ age = 0
    /\ sinceSent = 0 /\ sinceHeard = 0
    /\ sinceSet = Horizon

-----------------------------------------------------------------------------
(* The agent *)

\* Mutant: the next tick is counted from one too late.
HeartbeatTickLate ==
    /\ agent = "up"
    /\ next = 0
    /\ next' = Interval + 1
    /\ queued' = queued + 1
    /\ UNCHANGED <<agent, busy, flight, due, age, sinceSent, sinceHeard, sinceSet>>

HeartbeatTick ==
    /\ agent = "up"
    /\ next = 0
    /\ next' = Interval
    /\ queued' = queued + 1
    /\ UNCHANGED <<agent, busy, flight, due, age, sinceSent, sinceHeard, sinceSet>>

\* The loop answers requests, as many as select! happens to choose before it
\* chooses the heartbeat.  The bound makes a heartbeat that waits the next choice.
TakeRequests ==
    /\ agent = "up"
    /\ busy = 0 /\ queued = 0
    /\ busy' \in 1 .. MaxBusy
    /\ UNCHANGED <<agent, next, queued, flight, due, age, sinceSent, sinceHeard,
                   sinceSet>>

\* The loop writes a heartbeat.
SendHeartbeat ==
    /\ agent = "up"
    /\ busy = 0 /\ queued > 0
    /\ queued' = queued - 1
    /\ flight' = flight + 1
    /\ \/ flight = 0 /\ due' \in 0 .. MaxDelay
       \/ flight > 0 /\ due' = due
    /\ sinceSent' = 0
    /\ UNCHANGED <<agent, next, busy, age, sinceHeard, sinceSet>>

\* The agent's host vanishes: what is in flight still arrives, and the server
\* is told nothing.
Vanish ==
    /\ agent = "up"
    /\ agent' = "gone"
    /\ queued' = 0
    /\ UNCHANGED <<next, busy, flight, due, age, sinceSent, sinceHeard, sinceSet>>

-----------------------------------------------------------------------------
(* The server *)

\* Mutant: the heartbeat of an agent that is not healthy does not count.
HandleIfHealthy ==
    /\ flight > 0
    /\ flight' = flight - 1
    /\ \/ flight = 1 /\ due' = 0
       \/ flight > 1 /\ due' \in due .. MaxDelay - sinceSent
    /\ age' = IF age \in 0 .. Window - 1 THEN 0 ELSE age
    /\ sinceHeard' = 0
    /\ UNCHANGED <<agent, next, queued, busy, sinceSent, sinceSet>>

\* update_heartbeat stores the wall clock's time.  What follows on the
\* connection is not due earlier, nor later than the last one written.
HandleHeartbeat ==
    /\ flight > 0
    /\ flight' = flight - 1
    /\ \/ flight = 1 /\ due' = 0
       \/ flight > 1 /\ due' \in due .. MaxDelay - sinceSent
    /\ age' = 0
    /\ sinceHeard' = 0
    /\ UNCHANGED <<agent, next, queued, busy, sinceSent, sinceSet>>

\* Mutant: the window's end belongs to it.
HealthyInclusive == age >= 0 /\ age <= Window

\* select_healthy_instance: elapsed() fails when last_heartbeat is in the future.
Healthy == age >= 0 /\ age < Window

\* Somebody sets the wall clock, forwards or back.
SetClock ==
    /\ sinceSet # 0 /\ sinceSent < Horizon
    /\ age' \in age - MaxStep .. age + MaxStep
    /\ sinceSet' = 0
    /\ UNCHANGED <<agent, next, queued, busy, flight, due, sinceSent, sinceHeard>>

-----------------------------------------------------------------------------
Later(t) == IF t < Horizon THEN t + 1 ELSE t
Sooner(t) == IF t > 0 THEN t - 1 ELSE t

\* Time passes when nothing is to be done at once and nothing is overdue.  After
\* the horizon all clocks of a vanished agent stand still.
Tick ==
    /\ agent = "up" => next > 0 /\ ~ (queued > 0 /\ busy = 0)
    /\ flight > 0 => due > 0
    /\ next' = Sooner(next)
    /\ busy' = Sooner(busy)
    /\ due' = Sooner(due)
    /\ age' = IF sinceSent < Horizon THEN age + 1 ELSE age
    /\ sinceSent' = Later(sinceSent)
    /\ sinceHeard' = Later(sinceHeard)
    /\ sinceSet' = Later(sinceSet)
    /\ UNCHANGED <<agent, queued, flight>>

Next ==
    \/ HeartbeatTick \/ TakeRequests \/ SendHeartbeat \/ Vanish
    \/ HandleHeartbeat \/ SetClock \/ Tick

Spec == Init /\ [][Next]_heartbeatVars

-----------------------------------------------------------------------------
(* Properties *)

\* client_impl.rs:453-517, routing.rs:29-40: an agent that serves is healthy,
\* whatever the phases of its task, its loop and the network, if the longest
\* silence these can add up to is shorter than the window; after the wall clock
\* was set it is so again no later than that.
ServingAgentHealthy ==
    /\ agent = "up"
    /\ LongestSilence < Window
    /\ sinceSet > LongestSilence
    => Healthy

\* service.rs:117-136 has no ping and no idle timeout: the window alone keeps
\* requests from an agent that vanished.  It is not selected any more when the
\* window and one delay have passed since its last heartbeat, unless the wall
\* clock was set meanwhile.
VanishedAgentDropped ==
    Healthy /\ sinceSet > sinceSent => sinceSent < Window + MaxDelay
=============================================================================

------------------------- MODULE NotificationPoller -------------------------
(***************************************************************************)
(* NotificationPoller: a thread that probes the RMA port for notifications  *)
(* and adds them to two counters, and the blocking calls consume_packets()  *)
(* and consume_response() that other threads make under the same mutex and  *)
(* condition variable, with a timeout.                                      *)
(*                                                                         *)
(* A step is what one thread does between two points where another thread   *)
(* can run: acquiring the mutex, testing the predicate of wait_for,         *)
(* blocking on the condition variable (which releases the mutex), being     *)
(* woken, timing out, and each half of "tmp = m_packets; m_packets = 0".    *)
(* The sleep of the poller and the timeouts of the calls are durations the  *)
(* code chooses; here they may end at any moment.                           *)
(***************************************************************************)
EXTENDS Naturals, Sequences, FiniteSets

CONSTANTS PacketCallers,    \* threads that call consume_packets
          ResponseCallers,  \* threads that call consume_response
          Payloads,         \* payloads the hardware puts in notifications
          Classes,          \* classes the hardware puts in notifications
          PayloadRange,     \* 2^32: the poller keeps the payload's low bits
          InvalidPort,      \* whether a probe may find the port invalid
          MaxArrivals       \* bound: notifications delivered to the port

Callers == PacketCallers \union ResponseCallers
Poller  == "poller"
Free    == "free"

ASSUME CallersAssumption ==
    /\ PacketCallers \intersect ResponseCallers = {}
    /\ Poller \notin Callers
    /\ Free \notin Callers

ASSUME PayloadAssumption ==
    /\ Payloads \subseteq Nat
    /\ PayloadRange \in Nat \ {0}
    /\ MaxArrivals \in Nat
    /\ InvalidPort \in BOOLEAN
    /\ Classes \subseteq {"trace", "response", "unknown"}

Notification == [cls : Classes, payload : Payloads]

VARIABLES
    port,             \* notification queue of m_port (hardware, in order)
    arrivals,         \* notifications delivered to the port so far
    m_packets, m_notifications, m_running,
    m_mutex,          \* its owner
    thread,           \* where the poller thread is
    cls, payload,     \* the poller's locals
    caller,           \* where each calling thread is
    tmp,              \* consume_packets' local, per caller
    joined,           \* the destructor has returned
    probed,           \* history: packets announced by the freed notifications
    taken, answered   \* history: what the calls returned

portVars    == <<port, arrivals>>
counters    == <<m_packets, m_notifications>>
locals      == <<cls, payload>>
history     == <<taken, answered>>
vars == <<port, arrivals, m_packets, m_notifications, m_running, m_mutex,
          thread, cls, payload, caller, tmp, joined, probed, taken, answered>>

ThreadSteps == {"test", "probe", "sleep", "lock", "add", "notify", "done",
                "terminated"}
CallerSteps == {"idle", "lock", "check", "block", "wait", "relock",
                "expired", "read", "clear"}

\* An exception that leaves poll_notifications ends the whole process.
Alive == thread # "terminated"

-----------------------------------------------------------------------------
(* The hardware: notifications appear in the port's queue.                  *)

Arrive(n) ==
    /\ Alive /\ ~joined
    /\ arrivals < MaxArrivals
    /\ arrivals' = arrivals + 1
    /\ port' = Append(port, n)
    /\ UNCHANGED <<counters, m_running, m_mutex, thread, locals, caller, tmp,
                   joined, probed, history>>

-----------------------------------------------------------------------------
(* The poller thread, poll_notifications().                                 *)

\* Faulty variant: m_running as a plain bool, its load hoisted out of the loop.
TestHoisted ==
    /\ thread = "test"
    /\ thread' = "probe"
    /\ UNCHANGED <<portVars, counters, m_running, m_mutex, locals, caller,
                   tmp, joined, probed, history>>

TestRunning ==
    /\ thread = "test"
    /\ thread' = IF m_running THEN "probe" ELSE "done"
    /\ UNCHANGED <<portVars, counters, m_running, m_mutex, locals, caller,
                   tmp, joined, probed, history>>

\* rma2_noti_probe reports RMA2_NO_NOTI: back off.
ProbeNothing ==
    /\ thread = "probe" /\ port = <<>>
    /\ thread' = "sleep"
    /\ UNCHANGED <<portVars, counters, m_running, m_mutex, locals, caller,
                   tmp, joined, probed, history>>

Sleep ==
    /\ thread = "sleep"
    /\ thread' = "test"
    /\ UNCHANGED <<portVars, counters, m_running, m_mutex, locals, caller,
                   tmp, joined, probed, history>>

\* RMA2_ERR_INV_PORT: the exception is caught by nobody.
ProbeInvalid ==
    /\ thread = "probe" /\ InvalidPort
    /\ thread' = "terminated"
    /\ UNCHANGED <<portVars, counters, m_running, m_mutex, locals, caller,
                   tmp, joined, probed, history>>

\* The class and the low bits of the payload go to locals, then the
\* notification is freed: from here on the poller alone knows of it.
ProbeNotification ==
    /\ thread = "probe" /\ port # <<>>
    /\ cls' = Head(port).cls
    /\ payload' = Head(port).payload % PayloadRange
    /\ port' = Tail(port)
    /\ probed' = IF cls' = "trace" THEN probed + payload' ELSE probed
    /\ thread' = "lock"
    /\ UNCHANGED <<arrivals, counters, m_running, m_mutex, caller, tmp,
                   joined, history>>

PollerLock ==
    /\ thread = "lock" /\ m_mutex = Free
    /\ m_mutex' = Poller
    /\ thread' = "add"
    /\ UNCHANGED <<portVars, counters, m_running, locals, caller, tmp, joined,
                   probed, history>>

AddPackets ==
    /\ cls = "trace"
    /\ m_packets' = m_packets + payload
    /\ thread' = "notify"
    /\ UNCHANGED m_notifications

AddResponse ==
    /\ cls = "response"
    /\ m_notifications' = m_notifications + 1
    /\ thread' = "notify"
    /\ UNCHANGED m_packets

ThrowUnknown ==
    /\ cls = "unknown"
    /\ thread' = "terminated"
    /\ UNCHANGED counters

\* The switch on the class; the lock_guard releases the mutex behind it.
Add ==
    /\ thread = "add"
    /\ AddPackets \/ AddResponse \/ ThrowUnknown
    /\ m_mutex' = Free
    /\ UNCHANGED <<portVars, m_running, locals, caller, tmp, joined, probed,
                   history>>

\* Faulty variant: notify_one, which may wake a caller with the other predicate.
NotifyOne ==
    /\ thread = "notify"
    /\ LET waiting == {c \in Callers : caller[c] = "wait"}
       IN  IF waiting = {} THEN UNCHANGED caller
           ELSE \E c \in waiting : caller' = [caller EXCEPT ![c] = "relock"]
    /\ thread' = "test"
    /\ UNCHANGED <<portVars, counters, m_running, m_mutex, locals, tmp,
                   joined, probed, history>>

\* m_cv.notify_all(), after the mutex was released.
NotifyAll ==
    /\ thread = "notify"
    /\ caller' = [c \in Callers |->
                    IF caller[c] = "wait" THEN "relock" ELSE caller[c]]
    /\ thread' = "test"
    /\ UNCHANGED <<portVars, counters, m_running, m_mutex, locals, tmp,
                   joined, probed, history>>

PollNotifications ==
    \/ TestRunning \/ ProbeNothing \/ Sleep \/ ProbeInvalid \/ ProbeNotification
    \/ PollerLock \/ Add \/ NotifyAll

-----------------------------------------------------------------------------
(* consume_packets() and consume_response() share their first half,         *)
(*     unique_lock lock{m_mutex};  m_cv.wait_for(lock, timeout, pred);       *)
(* where wait_for is "while (!pred()) if (wait times out) return pred();".  *)

\* The predicate each caller waits for.
Pred(c) == IF c \in PacketCallers THEN m_packets > 0 ELSE m_notifications > 0

Goto(c, from, to) ==
    /\ caller[c] = from
    /\ caller' = [caller EXCEPT ![c] = to]

Call(c) ==
    /\ Alive /\ m_running
    /\ Goto(c, "idle", "lock")
    /\ UNCHANGED <<portVars, counters, m_running, m_mutex, thread, locals,
                   tmp, joined, probed, history>>

\* Faulty variant: a loop around the wait that does not look at its status.
LockIgnoringTimeout(c) ==
    /\ Alive /\ m_mutex = Free
    /\ m_mutex' = c
    /\ \/ Goto(c, "lock", "check")
       \/ Goto(c, "relock", "check")
       \/ Goto(c, "expired", "check")
    /\ UNCHANGED <<portVars, counters, m_running, thread, locals, tmp, joined,
                   probed, history>>

\* The mutex is acquired on entry and again on every return of the wait; a
\* wait that timed out ends the loop whatever the predicate says.
Lock(c) ==
    /\ Alive /\ m_mutex = Free
    /\ m_mutex' = c
    /\ \/ Goto(c, "lock", "check")
       \/ Goto(c, "relock", "check")
       \/ Goto(c, "expired", "read")
    /\ UNCHANGED <<portVars, counters, m_running, thread, locals, tmp, joined,
                   probed, history>>

Check(c) ==
    /\ Alive
    /\ Goto(c, "check", IF Pred(c) THEN "read" ELSE "block")
    /\ UNCHANGED <<portVars, counters, m_running, m_mutex, thread, locals,
                   tmp, joined, probed, history>>

\* Releasing the mutex and joining the wait set are one step.
Block(c) ==
    /\ Alive
    /\ Goto(c, "block", "wait")
    /\ m_mutex' = Free
    /\ UNCHANGED <<portVars, counters, m_running, thread, locals, tmp, joined,
                   probed, history>>

SpuriousWakeup(c) ==
    /\ Alive
    /\ Goto(c, "wait", "relock")
    /\ UNCHANGED <<portVars, counters, m_running, m_mutex, thread, locals,
                   tmp, joined, probed, history>>

Expire(c) ==
    /\ Alive
    /\ Goto(c, "wait", "expired")
    /\ UNCHANGED <<portVars, counters, m_running, m_mutex, thread, locals,
                   tmp, joined, probed, history>>

\* Faulty variant: the lock is released between the two statements.
ReadPacketsAndUnlock(c) ==
    /\ Alive
    /\ c \in PacketCallers /\ Goto(c, "read", "clear")
    /\ tmp' = [tmp EXCEPT ![c] = m_packets]
    /\ m_mutex' = Free
    /\ UNCHANGED <<portVars, counters, m_running, thread, locals, joined,
                   probed, history>>

\* uint64_t tmp = m_packets;
ReadPackets(c) ==
    /\ Alive
    /\ c \in PacketCallers /\ Goto(c, "read", "clear")
    /\ tmp' = [tmp EXCEPT ![c] = m_packets]
    /\ UNCHANGED <<portVars, counters, m_running, m_mutex, thread, locals,
                   joined, probed, history>>

\* m_packets = 0; return tmp; the unique_lock releases the mutex.
ClearPackets(c) ==
    /\ Alive
    /\ Goto(c, "clear", "idle")
    /\ m_packets' = 0
    /\ taken' = taken + tmp[c]
    /\ tmp' = [tmp EXCEPT ![c] = 0]
    /\ m_mutex' = Free
    /\ UNCHANGED <<portVars, m_notifications, m_running, thread, locals,
                   joined, probed, answered>>

\* Faulty variant: the decrement trusts the wait and does not test again.
TakeResponseUntested(c) ==
    /\ Alive
    /\ c \in ResponseCallers /\ Goto(c, "read", "idle")
    /\ m_notifications' = m_notifications - 1
    /\ answered' = answered + 1
    /\ m_mutex' = Free
    /\ UNCHANGED <<portVars, m_packets, m_running, thread, locals, tmp,
                   joined, probed, taken>>

\* Faulty variant: true is returned without taking the response.
TakeResponseTwice(c) ==
    /\ Alive
    /\ c \in ResponseCallers /\ Goto(c, "read", "idle")
    /\ answered' = IF m_notifications > 0 THEN answered + 1 ELSE answered
    /\ m_mutex' = Free
    /\ UNCHANGED <<portVars, counters, m_running, thread, locals, tmp,
                   joined, probed, taken>>

\* One response if there is one (true), otherwise nothing (false).
TakeResponse(c) ==
    /\ Alive
    /\ c \in ResponseCallers /\ Goto(c, "read", "idle")
    /\ IF m_notifications > 0
       THEN /\ m_notifications' = m_notifications - 1
            /\ answered' = answered + 1
       ELSE UNCHANGED <<m_notifications, answered>>
    /\ m_mutex' = Free
    /\ UNCHANGED <<portVars, m_packets, m_running, thread, locals, tmp,
                   joined, probed, taken>>

ConsumeStep(c) ==
    \/ Check(c) \/ Block(c) \/ ReadPackets(c) \/ ClearPackets(c)
    \/ TakeResponse(c)

-----------------------------------------------------------------------------
(* ~NotificationPoller().  No call may be in progress when it starts: the    *)
(* object's owner destroys it.                                              *)

StopRunning ==
    /\ Alive /\ m_running
    /\ \A c \in Callers : caller[c] = "idle"
    /\ m_running' = FALSE
    /\ UNCHANGED <<portVars, counters, m_mutex, thread, locals, caller, tmp,
                   joined, probed, history>>

Join ==
    /\ ~m_running /\ ~joined
    /\ thread = "done"
    /\ joined' = TRUE
    /\ UNCHANGED <<portVars, counters, m_running, m_mutex, thread, locals,
                   caller, tmp, probed, history>>

-----------------------------------------------------------------------------
Init ==
    /\ port = <<>> /\ arrivals = 0
    /\ m_packets = 0 /\ m_notifications = 0
    /\ m_running = TRUE /\ m_mutex = Free
    /\ thread = "test"
    /\ cls = "response" /\ payload = 0
    /\ caller = [c \in Callers |-> "idle"]
    /\ tmp = [c \in Callers |-> 0]
    /\ joined = FALSE
    /\ probed = 0 /\ taken = 0 /\ answered = 0

Next ==
    \/ \E n \in Notification : Arrive(n)
    \/ PollNotifications
    \/ \E c \in Callers :
         \/ Call(c) \/ Lock(c) \/ ConsumeStep(c)
         \/ SpuriousWakeup(c) \/ Expire(c)
    \/ StopRunning
    \/ Join

Spec == Init /\ [][Next]_vars

\* Threads keep running; a mutex that is released again and again is not
\* withheld from one thread for ever; and wait_for fixes its deadline once, so
\* that no number of wakeups puts the timeout off for ever.
Fairness ==
    /\ WF_vars(PollNotifications) /\ SF_vars(PollerLock)
    /\ WF_vars(Join)
    /\ \A c \in Callers :
         /\ SF_vars(Lock(c))
         /\ WF_vars(ConsumeStep(c))
         /\ SF_vars(Expire(c))

FairSpec == Spec /\ Fairness

-----------------------------------------------------------------------------
(* Properties.                                                              *)

TypeOK ==
    /\ port \in Seq(Notification) /\ arrivals \in 0..MaxArrivals
    /\ m_packets \in Nat /\ m_notifications \in Nat
    /\ m_running \in BOOLEAN /\ joined \in BOOLEAN
    /\ m_mutex \in Callers \union {Poller, Free}
    /\ thread \in ThreadSteps
    /\ cls \in {"trace", "response", "unknown"} /\ payload \in Nat
    /\ caller \in [Callers -> CallerSteps]
    /\ tmp \in [Callers -> Nat]
    /\ probed \in Nat /\ taken \in Nat /\ answered \in Nat

\* Packets of the notification the poller has freed but not yet added.
InHand == IF thread \in {"lock", "add"} /\ cls = "trace" THEN payload ELSE 0

\* Every packet announced by a notification that was freed is in the
\* poller's hands, in m_packets, or was returned by exactly one call of
\* consume_packets: the two unsynchronised-looking statements
\* "tmp = m_packets; m_packets = 0" never lose an addition.
PacketConservation == probed = InHand + m_packets + taken

\* No caller sleeps on the condition variable while what it waits for is
\* there, unless the poller is about to notify: a wakeup is never lost, so
\* the timeouts only end waits for something that did not come.
NoLostWakeup ==
    \A c \in Callers : caller[c] = "wait" /\ Pred(c) => thread = "notify"

\* Every call of consume_packets and consume_response returns (unless an
\* unknown notification class ends the process).
CallsReturn ==
    \A c \in Callers :
        caller[c] # "idle" ~> (caller[c] = "idle" \/ ~Alive)

\* The destructor's join returns: the poller always gets back to its test of
\* m_running.
DestructorReturns == ~m_running ~> (joined \/ ~Alive)

\* The calls behave as atomic operations on two counters.
Counter == INSTANCE PacketCounter WITH
               packets <- m_packets, responses <- m_notifications

ImplementsCounter == Counter!Spec
=============================================================================

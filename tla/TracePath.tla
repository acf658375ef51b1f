----------------------------- MODULE TracePath -----------------------------
(***************************************************************************)
(* The path of the trace words through an Endpoint: FPGA, notification        *)
(* queue of the RMA port, poller thread, consume_packets(), receive(), and    *)
(* the notifications that return the slots.  It composes the threads of       *)
(* NotificationPoller with the steps of RingBuffer and shows that the         *)
(* composition behaves as RingBuffer, where a poll is one step and the        *)
(* notifications on the way are a number.                                     *)
(*                                                                         *)
(* One thread uses the trace ring buffer and destroys it, then the hicann ring *)
(* buffer and then the poller.  The hicann ring buffer, which consumes from    *)
(* the same counter, is not in use before ("Currently not used but required   *)
(* for successful configuration"); its destructor polls.                      *)
(*                                                                         *)
(* rma2_post_notification may fail, which notify() does not look at: the       *)
(* words it should have reported stay posted for ever.                        *)
(***************************************************************************)
EXTENDS Integers, Sequences

CONSTANTS size_qw, num_words_to_notify, Threshold, Packet, MaxWords,
          PayloadRange,
          MaxArrivals,   \* bound: notifications delivered to the port
          MaxFailures    \* bound: posts that fail

\* A ring has fewer words than the payload of a notification can count.
ASSUME PathAssumption ==
    /\ size_qw \in Nat \ {0}
    /\ num_words_to_notify \in Nat
    /\ Packet \in Nat \ {0}
    /\ Threshold \in Packet..size_qw
    /\ MaxWords \in Nat /\ MaxArrivals \in Nat
    /\ PayloadRange \in Nat /\ size_qw < PayloadRange

VARIABLES
    \* the FPGA and the ring buffer
    mem, f_index, f_used, f_unnotified, written, m_read_index,
    m_readable_words, m_read_words, credits, received, discarded, pc,
    \* the poller and the thread that consumes from it
    port, arrivals, m_packets, m_notifications, m_running, m_mutex, thread,
    cls, payload, caller, tmp, joined, probed, taken, answered,
    announced, \* history: words of all notifications posted by the FPGA
    lost,      \* words of the posts that failed, a part of credits
    hicann,    \* the hicann ring buffer: "alive" or "gone"
    failures   \* posts that failed

ringVars   == <<mem, f_index, f_used, f_unnotified, written, m_read_index,
                m_readable_words, m_read_words, credits, received, discarded, pc>>
pollerVars == <<port, arrivals, m_packets, m_notifications, m_running, m_mutex,
                thread, cls, payload, caller, tmp, joined, probed, taken, answered>>
pathVars   == <<announced, lost, hicann, failures>>
vars       == <<ringVars, pollerVars, pathVars>>

User == "user"

P == INSTANCE NotificationPoller WITH
         PacketCallers <- {User}, ResponseCallers <- {}, Payloads <- 1..MaxWords,
         Classes <- {"trace"}, InvalidPort <- FALSE

\* Words announced by the notifications in the port's queue, and by the one in
\* the poller's hands: all but those of the notifications it is done with.
Announced == announced - (probed - P!InHand)

R == INSTANCE RingBuffer WITH notified <- Announced

\* The thread is inside consume_packets().
Polling == caller[User] # "idle"

-----------------------------------------------------------------------------
FpgaPut(n)    == UNCHANGED <<pollerVars, pathVars>> /\ R!FpgaPut(n)
FpgaCredit(n) == n <= credits - lost
                 /\ UNCHANGED <<pollerVars, pathVars>> /\ R!FpgaCredit(n)

FpgaNotify ==
    /\ f_unnotified > 0
    /\ P!Arrive([cls |-> "trace", payload |-> f_unnotified])
    /\ f_unnotified' = 0
    /\ announced' = announced + f_unnotified
    /\ UNCHANGED <<mem, f_index, f_used, written, m_read_index, m_readable_words,
                   m_read_words, credits, received, discarded, pc, lost, hicann, failures>>

PollThread == P!PollNotifications /\ UNCHANGED <<ringVars, pathVars>>
PollThreadLock == P!PollerLock /\ UNCHANGED <<ringVars, pathVars>>

\* receive() and the loops of both destructors call consume_packets(20ms).
StartPoll ==
    /\ pc \in {"idle", "drain"} \/ (pc = "destroyed" /\ hicann = "alive")
    /\ P!Call(User)
    /\ UNCHANGED <<ringVars, pathVars>>

UserLock == P!Lock(User) /\ UNCHANGED <<ringVars, pathVars>>

InPoll ==
    /\ P!Check(User) \/ P!Block(User) \/ P!ReadPackets(User)
    /\ UNCHANGED <<ringVars, pathVars>>

UserWakes   == P!SpuriousWakeup(User) /\ UNCHANGED <<ringVars, pathVars>>
UserExpires == P!Expire(User) /\ UNCHANGED <<ringVars, pathVars>>

\* Faulty variant: the result of consume_packets is not added.
PollReturnsUncounted ==
    /\ pc # "destroyed"
    /\ P!ClearPackets(User)
    /\ pc' = IF pc = "idle" THEN "read" ELSE "release"
    /\ UNCHANGED <<mem, f_index, f_used, f_unnotified, written, m_read_index,
                   m_readable_words, m_read_words, credits, received, discarded,
                   pathVars>>

\* consume_packets() returns tmp to poll(), and poll() to its caller.
PollReturns ==
    /\ pc # "destroyed"
    /\ P!ClearPackets(User)
    /\ m_readable_words' = m_readable_words + tmp[User]
    /\ pc' = IF pc = "idle" THEN "read"
             ELSE IF tmp[User] # 0 THEN "drain" ELSE "release"
    /\ UNCHANGED <<mem, f_index, f_used, f_unnotified, written, m_read_index,
                   m_read_words, credits, received, discarded, pathVars>>

\* The same in ~hicann_ring_buffer, whose own words these are not: the loop
\* ends with a poll that finds nothing, and notify() posts zero words.
HicannPollReturns ==
    /\ pc = "destroyed"
    /\ P!ClearPackets(User)
    /\ discarded' = discarded + tmp[User]
    /\ hicann' = IF tmp[User] # 0 THEN "alive" ELSE "gone"
    /\ UNCHANGED <<mem, f_index, f_used, f_unnotified, written, m_read_index,
                   m_readable_words, m_read_words, credits, received, pc, announced,
                   lost, failures>>

\* rma2_post_notification succeeds, or fails unnoticed.
Post ==
    \/ UNCHANGED <<lost, failures>>
    \/ /\ credits' > credits /\ failures < MaxFailures
       /\ failures' = failures + 1
       /\ lost' = lost + (credits' - credits)

ReadWord       == UNCHANGED <<pollerVars, announced, hicann>> /\ R!ReadWord /\ Post
ReceiveReturns == UNCHANGED <<pollerVars, announced, hicann>> /\ R!ReceiveReturns /\ Post
Release        == UNCHANGED <<pollerVars, announced, hicann>> /\ R!Release /\ Post

\* configure_fpga between two calls, with nothing on the way; every word of
\* the new configuration can be announced within the bound on arrivals.
BufferInit ==
    /\ ~Polling /\ R!Quiet /\ arrivals + MaxWords <= MaxArrivals
    /\ UNCHANGED <<pollerVars, pathVars>> /\ R!BufferInit
Reset   == UNCHANGED <<pollerVars, pathVars>> /\ R!Reset
Destroy == ~Polling /\ UNCHANGED <<pollerVars, pathVars>> /\ R!Destroy

\* The poller is a member declared before the ring buffers: it goes last.
StopRunning ==
    /\ pc = "destroyed" /\ hicann = "gone"
    /\ P!StopRunning
    /\ UNCHANGED <<ringVars, pathVars>>
Join        == P!Join /\ UNCHANGED <<ringVars, pathVars>>

-----------------------------------------------------------------------------
Init ==
    /\ announced = 0 /\ lost = 0 /\ hicann = "alive" /\ failures = 0
    /\ P!Init
    /\ R!Init

UserStep == StartPoll \/ InPoll \/ PollReturns \/ HicannPollReturns \/ ReadWord
         \/ ReceiveReturns \/ Reset \/ Release \/ StopRunning \/ Join

Next ==
    \/ \E n \in 1..Packet : FpgaPut(n)
    \/ FpgaNotify
    \/ \E n \in 1..credits : FpgaCredit(n)
    \/ PollThread
    \/ UserStep
    \/ UserLock \/ UserWakes \/ UserExpires
    \/ BufferInit
    \/ Destroy

Spec == Init /\ [][Next]_vars

\* The fairness of the parts: the FPGA announces and takes credits that
\* arrive, threads run, neither starves at the mutex, a deadline passes.
Fairness ==
    /\ WF_vars(FpgaNotify)
    /\ WF_vars(\E n \in 1..credits : FpgaCredit(n))
    /\ WF_vars(PollThread) /\ SF_vars(PollThreadLock)
    /\ WF_vars(UserStep) /\ SF_vars(UserLock) /\ SF_vars(UserExpires)

FairSpec == Spec /\ Fairness

-----------------------------------------------------------------------------
(* Properties.                                                              *)

\* Poller thread, mutex, condition variable, timeouts and failing posts
\* included, the path behaves as RingBuffer: a poll takes all counted words at
\* one instant, and a post that fails is one that takes for ever.  Whatever is
\* proved of RingBuffer (order, no overwriting, slots) holds of the path.
ImplementsRing == R!Spec

Closing == pc \in {"reset", "drain", "release", "destroyed"}

\* Every word the FPGA sends is returned by a receive(), although polls time
\* out while notifications arrive and posts fail.
EveryWordDelivered ==
    \A k \in 1..MaxWords : written >= k ~> (Len(received) >= k \/ Closing)

\* A stalled FPGA resumes unless the posts that failed took so many slots
\* that there is never a packet's room again.
StallEnds ==
    size_qw - f_used < Threshold
        ~> (size_qw - f_used >= Threshold \/ Closing \/ size_qw - lost < Threshold)

\* The destructors end although each "while (poll());" goes on for as long as
\* it finds words and its waits race with the FPGA's notifications: a poll of
\* the trace ring buffer times out with nothing, then one of the hicann ring
\* buffer, and the poller thread is joined.  (No slot is posted while a loop
\* runs, so a streaming FPGA can feed it size_qw words at most; MaxWords is
\* above that.)
DestructionEnds == pc = "drain" ~> joined
=============================================================================

--------------------------- MODULE TracePathProofs ---------------------------
(***************************************************************************)
(* Proofs that the path of the trace words behaves as its parts, for every   *)
(* size of the ring, threshold, packet length and number of notifications:    *)
(* each step is one of NotificationPoller and one of RingBuffer, or leaves    *)
(* them alone.  What is proved of the parts thereby holds of the path.        *)
(***************************************************************************)
EXTENDS TracePath, TLAPS

PP == INSTANCE NotificationPollerProofs WITH
          PacketCallers <- {User}, ResponseCallers <- {}, Payloads <- 1..MaxWords,
          Classes <- {"trace"}, InvalidPort <- FALSE

RP == INSTANCE RingBufferProofs WITH notified <- Announced

\* How many words were announced up to each notification of the queue: from
\* those the poller has freed, step by step, to all.
Marks(s) ==
    /\ s \in [1 .. Len(port) + 1 -> Nat]
    /\ s[1] = probed /\ s[Len(port) + 1] = announced
    /\ \A i \in 1 .. Len(port) + 1 : s[i] <= announced
    /\ \A i \in 1 .. Len(port) : s[i + 1] = s[i] + port[i].payload

\* The FPGA sends notifications of some words, and of no more than its ring has.
QueueOfWords ==
    \A i \in 1 .. Len(port) : port[i].cls = "trace" /\ port[i].payload \in 1 .. size_qw

\* The same of the notification in the poller's hands.
HandOfWords == thread \in {"lock", "add"} => cls = "trace" /\ payload > 0

\* The thread polls at the start of receive() and in the destructors' loops.
PollsWhere == Polling => pc \in {"idle", "drain", "destroyed"}

Glue == (\E s : Marks(s)) /\ QueueOfWords /\ HandOfWords /\ PollsWhere

PathInv == PP!IInv /\ RP!IInv /\ Glue

-----------------------------------------------------------------------------
\* The assumptions of the parts.
LEMMA PollerAssumptions == PP!CallersAssumption /\ PP!PayloadAssumption
<1>1. PP!CallersAssumption
  BY DEF PP!CallersAssumption, PP!Callers, PP!Poller, PP!Free, User
<1>2. PP!PayloadAssumption
  BY PathAssumption DEF PP!PayloadAssumption
<1> QED BY <1>1, <1>2

LEMMA RingAssumptions == RP!SizeAssumption
  BY PathAssumption DEF RP!SizeAssumption

LEMMA SamePoller == P!Next = PP!Next /\ P!Init = PP!Init
  BY DEF P!Next, PP!Next, P!vars, PP!vars, P!Init, PP!Init,
  P!Notification, PP!Notification, P!Arrive, PP!Arrive, P!Callers, PP!Callers,
  P!PollNotifications, PP!PollNotifications, P!TestRunning, PP!TestRunning,
  P!ProbeNothing, PP!ProbeNothing, P!Sleep, PP!Sleep, P!ProbeInvalid, PP!ProbeInvalid,
  P!ProbeNotification, PP!ProbeNotification, P!PollerLock, PP!PollerLock,
  P!Add, PP!Add, P!AddPackets, PP!AddPackets, P!AddResponse, PP!AddResponse,
  P!ThrowUnknown, PP!ThrowUnknown, P!NotifyAll, PP!NotifyAll, P!Call, PP!Call,
  P!Lock, PP!Lock, P!ConsumeStep, PP!ConsumeStep, P!Check, PP!Check, P!Block, PP!Block,
  P!ReadPackets, PP!ReadPackets, P!ClearPackets, PP!ClearPackets,
  P!TakeResponse, PP!TakeResponse, P!SpuriousWakeup, PP!SpuriousWakeup,
  P!Expire, PP!Expire, P!StopRunning, PP!StopRunning, P!Join, PP!Join,
  P!Goto, PP!Goto, P!Pred, PP!Pred, P!Alive, PP!Alive, P!Free, PP!Free, P!Poller,
  PP!Poller, P!portVars, PP!portVars, P!counters, PP!counters, P!locals, PP!locals,
  P!history, PP!history

LEMMA SameRing == R!Next = RP!Next /\ R!Init = RP!Init
  BY DEF R!Next, RP!Next, R!vars, RP!vars, R!Init, RP!Init,
  R!Fpga, RP!Fpga, R!FpgaPut, RP!FpgaPut, R!FpgaNotify, RP!FpgaNotify,
  R!FpgaCredit, RP!FpgaCredit, R!PollerAdd, RP!PollerAdd, R!Host, RP!Host,
  R!Receive, RP!Receive, R!Poll, RP!Poll, R!ReadWord, RP!ReadWord, R!Notify, RP!Notify,
  R!ReceiveReturns, RP!ReceiveReturns, R!Reset, RP!Reset, R!DrainPoll, RP!DrainPoll,
  R!Release, RP!Release, R!HicannDrain, RP!HicannDrain, R!BufferInit, RP!BufferInit, R!Quiet, RP!Quiet,
  R!Destroy, RP!Destroy,
  R!Slots, RP!Slots, R!Slot, RP!Slot, R!Offset, RP!Offset, R!Stale, RP!Stale,
  R!fpga, RP!fpga, R!host, RP!host

-----------------------------------------------------------------------------
(* Each step is a step of the poller.                                       *)

\* Steps of the ring buffer and of the FPGA that leave the poller alone.
RingOnly ==
    \/ \E n \in 1 .. Packet : FpgaPut(n)
    \/ \E n \in 1 .. credits : FpgaCredit(n)
    \/ ReadWord \/ ReceiveReturns \/ Release \/ BufferInit \/ Reset \/ Destroy

\* The words the FPGA has not announced fit into a notification.
LEMMA UnnotifiedBound ==
    ASSUME RP!IInv
    PROVE  /\ f_unnotified \in Nat /\ f_unnotified <= size_qw
           /\ f_unnotified <= MaxWords /\ Announced \in Nat
<1>1. /\ f_unnotified \in Nat /\ Announced \in Nat /\ m_packets \in Nat
      /\ credits \in Nat /\ m_readable_words \in Nat /\ m_read_words \in Nat
      /\ discarded \in Nat /\ written \in 0 .. MaxWords /\ Len(received) \in Nat
  BY DEF RP!IInv, RP!TypeOK
<1>2. f_unnotified <= f_used /\ f_used <= size_qw /\ f_used \in Int
  BY <1>1 DEF RP!IInv, RP!CreditConservation
<1>3. f_unnotified <= written - Len(received)
  BY <1>1 DEF RP!IInv, RP!WordAccounting, RP!Unread
<1> QED BY <1>1, <1>2, <1>3, PathAssumption

LEMMA RingOnlyPoller == RingOnly => UNCHANGED pollerVars /\ UNCHANGED announced
  BY DEF RingOnly, FpgaPut, FpgaCredit, ReadWord, ReceiveReturns, Release, BufferInit,
     Reset, Destroy, pathVars

LEMMA PollerStep == PathInv /\ [Next]_vars => [P!Next]_(P!vars)
<1> SUFFICES ASSUME PathInv, [Next]_vars
             PROVE  P!Next \/ UNCHANGED P!vars
  OBVIOUS
<1>0. User \in P!Callers
  BY DEF P!Callers
<1>1. CASE RingOnly
  BY <1>1, RingOnlyPoller DEF pollerVars, P!vars
<1>2. CASE FpgaNotify
  <2>1. [cls |-> "trace", payload |-> f_unnotified] \in P!Notification
    BY <1>2, UnnotifiedBound DEF FpgaNotify, PathInv, P!Notification
  <2> QED BY <1>2, <2>1 DEF FpgaNotify, P!Next
<1>3. CASE PollThread
  BY <1>3 DEF PollThread, P!Next
<1>4. CASE StartPoll \/ InPoll \/ PollReturns \/ HicannPollReturns \/ UserLock
           \/ UserWakes \/ UserExpires
  BY <1>0, <1>4 DEF StartPoll, InPoll, PollReturns, HicannPollReturns, UserLock,
     UserWakes, UserExpires, P!Next, P!ConsumeStep
<1>5. CASE StopRunning \/ Join
  BY <1>5 DEF StopRunning, Join, P!Next
<1>6. CASE UNCHANGED vars
  BY <1>6 DEF vars, pollerVars, P!vars
<1> QED
  BY <1>1, <1>2, <1>3, <1>4, <1>5, <1>6 DEF Next, UserStep, RingOnly

-----------------------------------------------------------------------------
(* Each step is a step of the ring buffer.                                  *)

\* The calls that end without a result yet, and the poller's destructor.
CallOnly == StartPoll \/ InPoll \/ UserLock \/ UserWakes \/ UserExpires
            \/ StopRunning \/ Join

LEMMA CallOnlyRing ==
    CallOnly => UNCHANGED <<ringVars, pathVars, m_packets, thread, cls, payload,
                            probed, port>>
  BY DEF CallOnly, StartPoll, InPoll, UserLock, UserWakes, UserExpires, StopRunning,
     Join, P!Call, P!Check, P!Block, P!ReadPackets, P!Lock, P!SpuriousWakeup, P!Expire,
     P!StopRunning, P!Join, P!portVars, P!counters, P!locals

\* The poller has freed no more words than were announced, and the words in
\* its hands are among those it has freed.
LEMMA MarksBound ==
    ASSUME PathInv
    PROVE  /\ probed \in Nat /\ announced \in Nat /\ probed <= announced
           /\ payload \in Nat /\ m_packets \in Nat /\ P!InHand \in Nat
           /\ port \in Seq(P!Notification)
<1>1. /\ probed \in Nat /\ payload \in Nat /\ m_packets \in Nat
      /\ port \in Seq(P!Notification)
  BY DEF PathInv, PP!IInv, PP!TypeOK, PP!Notification, P!Notification
<1>2. PICK s : Marks(s)
  BY DEF PathInv, Glue
<1>3. 1 \in 1 .. Len(port) + 1 /\ Len(port) + 1 \in 1 .. Len(port) + 1
  BY <1>1
<1> QED BY <1>1, <1>2, <1>3 DEF Marks, P!InHand

\* Freeing a notification hands its words, none of them masked away, over from
\* the queue to the poller.
LEMMA ProbeHandsOver ==
    ASSUME PathInv, P!ProbeNotification
    PROVE  /\ cls' = "trace" /\ payload' = port[1].payload
           /\ payload' \in 1 .. size_qw /\ probed' = probed + payload'
           /\ port' = Tail(port) /\ thread' = "lock" /\ port # <<>>
           /\ P!InHand = 0 /\ P!InHand' = payload'
<1>1. /\ port \in Seq(P!Notification) /\ port # <<>>
      /\ Head(port) = port[1] /\ 1 \in 1 .. Len(port)
  BY MarksBound DEF P!ProbeNotification
<1>2. port[1].cls = "trace" /\ port[1].payload \in 1 .. size_qw
  BY <1>1 DEF PathInv, Glue, QueueOfWords
<1>3. port[1].payload % PayloadRange = port[1].payload
  BY <1>2, PathAssumption
<1> QED BY <1>1, <1>2, <1>3, MarksBound DEF P!ProbeNotification, P!InHand

LEMMA RingOnlyStep ==
    ASSUME RingOnly
    PROVE  R!Next
<1>1. CASE \E n \in 1 .. Packet : FpgaPut(n)
  BY <1>1 DEF FpgaPut, R!Next, R!Fpga
<1>2. CASE \E n \in 1 .. credits : FpgaCredit(n)
  BY <1>2 DEF FpgaCredit, R!Next, R!Fpga
<1>3. CASE ReadWord \/ ReceiveReturns \/ Release \/ Reset
  BY <1>3 DEF ReadWord, ReceiveReturns, Release, Reset, R!Next, R!Host
<1>4. CASE BufferInit \/ Destroy
  BY <1>4 DEF BufferInit, Destroy, R!Next
<1> QED BY <1>1, <1>2, <1>3, <1>4 DEF RingOnly

\* The poller thread's step is an addition to the counter if it is Add.
LEMMA PollThreadStep ==
    ASSUME PathInv, PollThread
    PROVE  R!Next \/ UNCHANGED R!vars
<1> USE DEF PollThread, ringVars, pathVars
<1>0. /\ probed \in Nat /\ announced \in Nat /\ probed <= announced
      /\ payload \in Nat /\ m_packets \in Nat
  BY MarksBound
<1>1. CASE P!ProbeNotification
  <2>1. Announced' = Announced
    BY <1>0, <1>1, ProbeHandsOver, PathAssumption DEF Announced
  <2>2. UNCHANGED m_packets
    BY <1>1 DEF P!ProbeNotification, P!counters
  <2> QED BY <2>1, <2>2 DEF R!vars
<1>2. CASE P!Add
  <2>1. cls = "trace" /\ payload > 0 /\ thread = "add" /\ P!InHand = payload
    BY <1>2 DEF P!Add, PathInv, Glue, HandOfWords, P!InHand
  <2>2. m_packets' = m_packets + payload /\ thread' = "notify" /\ UNCHANGED probed
    BY <1>2, <2>1 DEF P!Add, P!AddPackets, P!AddResponse, P!ThrowUnknown
  <2>3. P!InHand' = 0
    BY <2>2 DEF P!InHand
  <2>4. payload \in 1 .. Announced /\ Announced' = Announced - payload
    BY <1>0, <2>1, <2>2, <2>3 DEF Announced
  <2>5. R!PollerAdd(payload)
    BY <1>0, <2>2, <2>4 DEF R!PollerAdd, R!fpga, R!host
  <2> QED BY <2>4, <2>5 DEF R!Next
<1>3. CASE P!TestRunning \/ P!ProbeNothing \/ P!Sleep \/ P!ProbeInvalid
           \/ P!PollerLock \/ P!NotifyAll
  <2>1. UNCHANGED <<m_packets, probed, cls, payload>> /\ P!InHand' = P!InHand
    BY <1>3 DEF P!TestRunning, P!ProbeNothing, P!Sleep, P!ProbeInvalid, P!PollerLock,
       P!NotifyAll, P!counters, P!locals, P!InHand
  <2> QED BY <2>1 DEF R!vars, Announced
<1> QED BY <1>1, <1>2, <1>3 DEF P!PollNotifications

\* The thread takes what it has read, which under the mutex is still all the
\* poller has counted: its call takes effect at this instant.
LEMMA PollReturnsStep ==
    ASSUME PathInv, PollReturns \/ HicannPollReturns
    PROVE  R!Next
<1>0. P!ClearPackets(User) /\ UNCHANGED announced
  BY DEF PollReturns, HicannPollReturns, pathVars
<1>1. tmp[User] = m_packets /\ Polling
  BY <1>0 DEF PathInv, PP!IInv, PP!LockDiscipline, PP!Callers, P!ClearPackets, P!Goto,
     Polling
<1>2. pc \in {"idle", "drain", "destroyed"}
  BY <1>1 DEF PathInv, Glue, PollsWhere
<1>3. m_packets' = 0 /\ UNCHANGED <<probed, thread, cls, payload>>
  BY <1>0 DEF P!ClearPackets, P!locals
<1>4. Announced' = Announced
  BY <1>0, <1>3 DEF Announced, P!InHand
<1>5. CASE pc = "idle"
  <2>1. R!Receive
    BY <1>1, <1>3, <1>4, <1>5 DEF PollReturns, HicannPollReturns, R!Receive, R!Poll,
       R!fpga
  <2> QED BY <2>1 DEF R!Next, R!Host
<1>6. CASE pc = "drain"
  <2>1. R!DrainPoll
    BY <1>1, <1>3, <1>4, <1>6 DEF PollReturns, HicannPollReturns, R!DrainPoll, R!Poll,
       R!fpga
  <2> QED BY <2>1 DEF R!Next, R!Host
<1>7. CASE pc = "destroyed"
  <2>1. R!HicannDrain
    BY <1>1, <1>3, <1>4, <1>7 DEF PollReturns, HicannPollReturns, R!HicannDrain, R!fpga
  <2> QED BY <2>1 DEF R!Next, R!Host
<1> QED BY <1>2, <1>5, <1>6, <1>7

LEMMA RingStep == PathInv /\ [Next]_vars => [R!Next]_(R!vars)
<1> SUFFICES ASSUME PathInv, [Next]_vars
             PROVE  R!Next \/ UNCHANGED R!vars
  OBVIOUS
<1>1. CASE RingOnly
  BY <1>1, RingOnlyStep
<1>2. CASE FpgaNotify
  <2>1. UNCHANGED <<m_packets, probed, thread, cls, payload>>
    BY <1>2 DEF FpgaNotify, P!Arrive, P!counters, P!locals
  <2>2. f_unnotified \in Nat
    BY UnnotifiedBound DEF PathInv
  <2>3. Announced' = Announced + f_unnotified
    BY <1>2, <2>1, <2>2, MarksBound DEF FpgaNotify, Announced, P!InHand
  <2>4. R!FpgaNotify
    BY <1>2, <2>1, <2>3 DEF FpgaNotify, R!FpgaNotify, R!host
  <2> QED BY <2>4 DEF R!Next, R!Fpga
<1>3. CASE PollThread
  BY <1>3, PollThreadStep
<1>4. CASE CallOnly
  BY <1>4, CallOnlyRing DEF ringVars, pathVars, R!vars, Announced, P!InHand
<1>5. CASE PollReturns \/ HicannPollReturns
  BY <1>5, PollReturnsStep
<1>6. CASE UNCHANGED vars
  BY <1>6 DEF vars, ringVars, pollerVars, pathVars, R!vars, Announced, P!InHand
<1> QED
  BY <1>1, <1>2, <1>3, <1>4, <1>5, <1>6 DEF Next, UserStep, RingOnly, CallOnly

-----------------------------------------------------------------------------
(* The invariant that ties the two together.                                *)

\* A notification is appended with all words put since the last one.
LEMMA NotifyGlue ==
    ASSUME PathInv, FpgaNotify
    PROVE  Glue'
<1>1. /\ port \in Seq(P!Notification) /\ announced \in Nat
      /\ f_unnotified \in 1 .. size_qw
  BY MarksBound, UnnotifiedBound, PathAssumption DEF PathInv, FpgaNotify
<1>2. /\ port' = Append(port, [cls |-> "trace", payload |-> f_unnotified])
      /\ announced' = announced + f_unnotified
      /\ UNCHANGED <<probed, thread, cls, payload, caller, pc>>
  BY DEF FpgaNotify, P!Arrive, P!locals
<1>3. /\ Len(port') = Len(port) + 1 /\ Len(port) \in Nat
      /\ \A i \in 1 .. Len(port) : port'[i] = port[i]
      /\ port'[Len(port) + 1] = [cls |-> "trace", payload |-> f_unnotified]
  BY <1>1, <1>2
<1>4. \E s : Marks(s)'
  <2>1. PICK s : Marks(s)
    BY DEF PathInv, Glue
  <2> DEFINE t == [i \in 1 .. Len(port) + 2 |->
                     IF i <= Len(port) + 1 THEN s[i] ELSE announced + f_unnotified]
  <2>2. t \in [1 .. Len(port') + 1 -> Nat]
    BY <1>1, <1>3, <2>1 DEF Marks
  <2>3. t[1] = probed' /\ t[Len(port') + 1] = announced'
    BY <1>1, <1>2, <1>3, <2>1 DEF Marks
  <2>4. \A i \in 1 .. Len(port') + 1 : t[i] <= announced'
    BY <1>1, <1>2, <1>3, <2>1 DEF Marks
  <2>5. ASSUME NEW i \in 1 .. Len(port') PROVE t[i + 1] = t[i] + port'[i].payload
    <3>1. CASE i \in 1 .. Len(port)
      <4>1. t[i + 1] = s[i + 1] /\ t[i] = s[i]
        BY <1>3, <3>1
      <4>2. s[i + 1] = s[i] + port[i].payload
        BY <2>1, <3>1 DEF Marks
      <4> QED BY <1>3, <3>1, <4>1, <4>2
    <3>2. CASE i = Len(port) + 1
      <4>1. t[i + 1] = announced + f_unnotified /\ t[i] = s[i]
        BY <1>3, <3>2
      <4>2. s[i] = announced
        BY <2>1, <3>2 DEF Marks
      <4>3. port'[i].payload = f_unnotified
        BY <1>3, <3>2
      <4> QED BY <4>1, <4>2, <4>3
    <3> QED BY <1>3, <3>1, <3>2
  <2> HIDE DEF t
  <2> QED BY <2>2, <2>3, <2>4, <2>5 DEF Marks
<1>5. QueueOfWords'
  BY <1>1, <1>3 DEF PathInv, Glue, QueueOfWords
<1>6. HandOfWords' /\ PollsWhere'
  BY <1>2 DEF PathInv, Glue, HandOfWords, PollsWhere, Polling
<1> QED BY <1>4, <1>5, <1>6 DEF Glue

\* The poller frees the first notification.
LEMMA ProbeGlue ==
    ASSUME PathInv, PollThread, P!ProbeNotification
    PROVE  Glue'
<1>1. port \in Seq(P!Notification) /\ port # <<>>
  BY MarksBound, ProbeHandsOver
<1>2. /\ Len(port') = Len(port) - 1 /\ Len(port) \in Nat \ {0}
      /\ \A i \in 1 .. Len(port') : port'[i] = port[i + 1]
  BY <1>1, ProbeHandsOver
<1>3. UNCHANGED <<announced, caller, pc>>
  BY DEF PollThread, ringVars, pathVars, P!ProbeNotification
<1>4. \E s : Marks(s)'
  <2>1. PICK s : Marks(s)
    BY DEF PathInv, Glue
  <2> DEFINE t == [i \in 1 .. Len(port) |-> s[i + 1]]
  <2>2. t \in [1 .. Len(port') + 1 -> Nat]
    BY <1>2, <2>1 DEF Marks
  <2>3. t[1] = probed' /\ t[Len(port') + 1] = announced'
    BY <1>2, <1>3, <2>1, ProbeHandsOver DEF Marks
  <2>4. \A i \in 1 .. Len(port') + 1 : t[i] <= announced'
    BY <1>2, <1>3, <2>1 DEF Marks
  <2>5. \A i \in 1 .. Len(port') : t[i + 1] = t[i] + port'[i].payload
    BY <1>2, <2>1 DEF Marks
  <2> HIDE DEF t
  <2> QED BY <2>2, <2>3, <2>4, <2>5 DEF Marks
<1>5. QueueOfWords'
  BY <1>2 DEF PathInv, Glue, QueueOfWords
<1>6. HandOfWords' /\ PollsWhere'
  BY <1>3, ProbeHandsOver, PathAssumption
  DEF PathInv, Glue, HandOfWords, PollsWhere, Polling
<1> QED BY <1>4, <1>5, <1>6 DEF Glue

\* The queue and the words in hand if no notification is sent or freed.
LEMMA UnchangedQueue ==
    ASSUME Glue, UNCHANGED <<port, probed, announced, cls, payload>>,
           thread' \in {"lock", "add"} => thread \in {"lock", "add"}
    PROVE  (\E s : Marks(s))' /\ QueueOfWords' /\ HandOfWords'
<1>1. (\E s : Marks(s))'
  BY DEF Glue, Marks
<1>2. QueueOfWords' /\ HandOfWords'
  BY DEF Glue, QueueOfWords, HandOfWords
<1> QED BY <1>1, <1>2

LEMMA NextGlue == PathInv /\ [Next]_vars => Glue'
<1> SUFFICES ASSUME PathInv, [Next]_vars PROVE Glue'
  OBVIOUS
<1>0. Glue /\ caller \in [{User} -> P!CallerSteps]
  BY DEF PathInv, PP!IInv, PP!TypeOK, PP!Callers, PP!CallerSteps, P!CallerSteps
<1>1. CASE FpgaNotify
  BY <1>1, NotifyGlue
<1>2. CASE PollThread /\ P!ProbeNotification
  BY <1>2, ProbeGlue
<1>3. CASE PollThread /\ ~P!ProbeNotification
  <2>1. /\ UNCHANGED <<port, probed, announced, cls, payload, pc>>
        /\ thread' \in {"lock", "add"} => thread \in {"lock", "add"}
    BY <1>3 DEF PollThread, P!PollNotifications, P!TestRunning, P!ProbeNothing, P!Sleep,
       P!ProbeInvalid, P!PollerLock, P!Add, P!AddPackets, P!AddResponse, P!ThrowUnknown,
       P!NotifyAll, P!portVars, P!locals, ringVars, pathVars
  <2>2. Polling' => Polling
    BY <1>0, <1>3 DEF PollThread, P!PollNotifications, P!TestRunning, P!ProbeNothing,
       P!Sleep, P!ProbeInvalid, P!PollerLock, P!Add, P!NotifyAll, P!Callers, Polling
  <2> QED BY <1>0, <2>1, <2>2, UnchangedQueue DEF Glue, PollsWhere
<1>4. CASE CallOnly
  <2>1. UNCHANGED <<port, probed, announced, cls, payload, thread, pc>>
    BY <1>4, CallOnlyRing DEF ringVars, pathVars
  <2>2. Polling' => Polling \/ pc \in {"idle", "drain", "destroyed"}
    BY <1>0, <1>4 DEF CallOnly, StartPoll, InPoll, UserLock, UserWakes, UserExpires,
       StopRunning, Join, Polling, P!Check, P!Block, P!ReadPackets, P!Lock,
       P!SpuriousWakeup, P!Expire, P!StopRunning, P!Join, P!Goto
  <2> QED BY <1>0, <2>1, <2>2, UnchangedQueue DEF Glue, PollsWhere
<1>5. CASE PollReturns \/ HicannPollReturns
  <2>0. P!ClearPackets(User) /\ UNCHANGED announced
    BY <1>5 DEF PollReturns, HicannPollReturns, pathVars
  <2>1. UNCHANGED <<port, probed, announced, cls, payload, thread>>
    BY <2>0 DEF P!ClearPackets, P!portVars, P!locals
  <2>2. ~Polling'
    BY <1>0, <2>0 DEF P!ClearPackets, P!Goto, Polling
  <2> QED BY <1>0, <2>1, <2>2, UnchangedQueue DEF Glue, PollsWhere
<1>6. CASE RingOnly
  <2>1. UNCHANGED pollerVars /\ UNCHANGED announced
    BY <1>6, RingOnlyPoller
  <2>2. PollsWhere'
    BY <1>0, <1>6, <2>1 DEF RingOnly, FpgaPut, FpgaCredit, ReadWord, ReceiveReturns,
       Release, BufferInit, Reset, Destroy, R!FpgaPut, R!FpgaCredit, R!ReadWord,
       R!ReceiveReturns, R!Release, R!BufferInit, R!Reset, R!Destroy, R!host,
       pollerVars, Glue, PollsWhere, Polling
  <2> QED BY <1>0, <2>1, <2>2, UnchangedQueue DEF Glue, pollerVars
<1>7. CASE UNCHANGED vars
  <2>1. UNCHANGED <<port, probed, announced, cls, payload, thread, caller, pc>>
    BY <1>7 DEF vars, ringVars, pollerVars, pathVars
  <2> QED BY <1>0, <2>1, UnchangedQueue DEF Glue, PollsWhere, Polling
<1> QED
  BY <1>1, <1>2, <1>3, <1>4, <1>5, <1>6, <1>7
  DEF Next, UserStep, RingOnly, CallOnly

LEMMA InitPathInv == Init => PathInv
<1> SUFFICES ASSUME Init PROVE PathInv
  OBVIOUS
<1>1. PP!IInv /\ RP!IInv
  BY PollerAssumptions, RingAssumptions, SamePoller, SameRing, PP!InitIInv, RP!InitIInv
  DEF Init
<1>2. /\ port = <<>> /\ probed = 0 /\ announced = 0 /\ thread = "test"
      /\ caller[User] = "idle"
  BY DEF Init, P!Init, P!Callers
<1>3. Marks([i \in {1} |-> 0])
  BY <1>2 DEF Marks
<1>4. QueueOfWords /\ HandOfWords /\ PollsWhere
  BY <1>2 DEF QueueOfWords, HandOfWords, PollsWhere, Polling
<1> QED BY <1>1, <1>3, <1>4 DEF PathInv, Glue

LEMMA NextPathInv == PathInv /\ [Next]_vars => PathInv'
<1> SUFFICES ASSUME PathInv, [Next]_vars PROVE PathInv'
  OBVIOUS
<1>1. PP!IInv'
  <2>1. [PP!Next]_(PP!vars)
    BY PollerStep, SamePoller DEF P!vars, PP!vars
  <2> QED BY <2>1, PollerAssumptions, PP!NextIInv DEF PathInv
<1>2. RP!IInv'
  <2>1. [RP!Next]_(RP!vars)
    BY RingStep, SameRing DEF R!vars, RP!vars
  <2> QED BY <2>1, RingAssumptions, RP!NextIInv DEF PathInv
<1> QED BY <1>1, <1>2, NextGlue DEF PathInv

LEMMA InductiveInvariant == Spec => []PathInv
  BY InitPathInv, NextPathInv, PTL DEF Spec

-----------------------------------------------------------------------------
(* The theorems.                                                            *)

\* The threads of the path, the FPGA's notifications and the ring buffer's
\* calls among them, behave as those of NotificationPoller.
THEOREM PollerRefinement == Spec => P!Spec
<1>1. Init => P!Init
  BY DEF Init
<1> QED BY <1>1, InductiveInvariant, PollerStep, PTL DEF Spec, P!Spec

\* ImplementsRing: with the poller thread, the mutex, the timeouts and failing
\* posts in between, the path behaves as the ring buffer in which a poll is one
\* step.
THEOREM RingRefinement == Spec => ImplementsRing
<1>1. Init => R!Init
  BY DEF Init
<1> QED BY <1>1, InductiveInvariant, RingStep, PTL DEF Spec, R!Spec, ImplementsRing

\* On the whole path every word is received once and in order, and stays in
\* its slot until it is read.
THEOREM PathDelivery == Spec => [](RP!FifoDelivery /\ RP!BufferIntact)
<1>1. PathInv => RP!FifoDelivery /\ RP!BufferIntact
  BY DEF PathInv, RP!IInv
<1> QED BY <1>1, InductiveInvariant, PTL

\* The words of failed posts are among those that seem to be on their way.
Lost == lost \in Nat /\ lost <= credits

LEMMA InitLost == Init => Lost
  BY DEF Init, R!Init, Lost

LEMMA NextLost ==
    ASSUME PathInv, Lost, [Next]_vars
    PROVE  Lost'
<1>0. /\ credits \in Nat /\ m_read_words \in Nat /\ lost \in Nat /\ lost <= credits
      /\ num_words_to_notify \in Nat
  BY PathAssumption DEF PathInv, RP!IInv, RP!TypeOK, Lost
<1>1. CASE ReadWord \/ ReceiveReturns \/ Release
  <2>1. credits' \in Nat /\ credits' >= credits
    BY <1>0, <1>1 DEF ReadWord, ReceiveReturns, Release, R!ReadWord,
       R!ReceiveReturns, R!Release, R!Notify
  <2>2. UNCHANGED lost \/ lost' = lost + (credits' - credits)
    BY <1>1 DEF ReadWord, ReceiveReturns, Release, Post
  <2> QED BY <1>0, <2>1, <2>2 DEF Lost
<1>2. ASSUME NEW n \in 1 .. credits, FpgaCredit(n)
      PROVE  Lost'
  BY <1>0, <1>2 DEF FpgaCredit, R!FpgaCredit, pathVars, Lost
<1>3. CASE UNCHANGED <<credits, lost>>
  BY <1>0, <1>3 DEF Lost
<1>4. CASE CallOnly
  BY <1>3, <1>4, CallOnlyRing DEF ringVars, pathVars
<1>5. CASE PollThread \/ FpgaNotify \/ PollReturns \/ HicannPollReturns
           \/ UNCHANGED vars
  BY <1>3, <1>5 DEF PollThread, FpgaNotify, PollReturns, HicannPollReturns, vars,
     ringVars, pathVars
<1>6. ASSUME NEW n \in 1 .. Packet, FpgaPut(n)
      PROVE  Lost'
  BY <1>3, <1>6 DEF FpgaPut, R!FpgaPut, pathVars
<1>7. CASE BufferInit \/ Reset \/ Destroy
  BY <1>3, <1>7 DEF BufferInit, Reset, Destroy, R!BufferInit, R!Reset, R!Destroy,
     pathVars
<1> QED
  BY <1>1, <1>2, <1>4, <1>5, <1>6, <1>7 DEF Next, UserStep, CallOnly

\* Every word of a notification that notify() could not post keeps its slot
\* occupied: nothing but a new initialisation gives the FPGA that room back.
THEOREM FailedPostsKeepSlots == Spec => [](lost <= f_used)
<1>1. PathInv /\ Lost => lost <= f_used
  BY DEF PathInv, RP!IInv, RP!TypeOK, RP!CreditConservation, Lost
<1>2. PathInv /\ Lost /\ [Next]_vars => Lost'
  BY NextLost
<1> QED BY <1>1, <1>2, InitLost, InductiveInvariant, PTL DEF Spec

\* Words and credits that have a step before them: not the failed posts.
UnderWay == f_unnotified + Announced + m_packets + m_readable_words + m_read_words
            + (credits - lost)

\* On the path a stalled FPGA has words or credits under way as long as the
\* failed posts leave it room for a packet: only they can stop it for good.
THEOREM PathStallHasCause ==
    Spec => [](/\ size_qw - f_used < Threshold /\ size_qw - lost >= Threshold
               /\ pc # "destroyed"
               => UnderWay > 0)
<1>1. PathInv /\ Lost =>
        (/\ size_qw - f_used < Threshold /\ size_qw - lost >= Threshold
         /\ pc # "destroyed"
         => UnderWay > 0)
  BY PathAssumption
  DEF PathInv, RP!IInv, RP!TypeOK, RP!CreditConservation, RP!HostCounters, Lost, UnderWay
<1>2. PathInv /\ Lost /\ [Next]_vars => Lost'
  BY NextLost
<1> QED BY <1>1, <1>2, InitLost, InductiveInvariant, PTL DEF Spec

\* On the path the trace ring buffer's loop ends too: a poll that keeps it going adds
\* to the readable words, of which there are never more than size_qw, and
\* nothing takes them away while other threads run.
THEOREM PathDrainBounded ==
    Spec => [][pc = "drain" /\ pc' = "drain" =>
                 /\ m_readable_words' \in m_readable_words .. size_qw
                 /\ PollReturns => m_readable_words' > m_readable_words]_vars
<1>1. ASSUME PathInv, [Next]_vars, pc = "drain", pc' = "drain"
      PROVE  /\ m_readable_words' \in m_readable_words .. size_qw
             /\ PollReturns => m_readable_words' > m_readable_words
  <2>1. [RP!Next]_(RP!vars)
    BY <1>1, RingStep, SameRing DEF R!vars, RP!vars
  <2>2. m_readable_words' \in m_readable_words .. size_qw
    BY <1>1, <2>1, RP!DrainStep, RingAssumptions DEF PathInv
  <2>3. m_readable_words \in Nat /\ tmp[User] \in Nat
    BY <1>1 DEF PathInv, RP!IInv, RP!TypeOK, PP!IInv, PP!TypeOK, PP!Callers
  <2> QED BY <1>1, <2>2, <2>3 DEF PollReturns
<1>2. PathInv /\ [Next]_vars =>
        [pc = "drain" /\ pc' = "drain" =>
           /\ m_readable_words' \in m_readable_words .. size_qw
           /\ PollReturns => m_readable_words' > m_readable_words]_vars
  BY <1>1
<1> QED BY <1>2, InductiveInvariant, PTL DEF Spec
=============================================================================

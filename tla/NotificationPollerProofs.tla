---------------------- MODULE NotificationPollerProofs ----------------------
(***************************************************************************)
(* Proofs about NotificationPoller for every set of calling threads and     *)
(* every sequence of notifications.                                         *)
(***************************************************************************)
EXTENDS NotificationPoller, TLAPS

\* Who is inside a critical section owns the mutex, and what a caller has
\* established under it still holds: a caller about to block found its
\* predicate false, a caller about to clear m_packets has read it.
LockDiscipline ==
    /\ \A c \in Callers :
         /\ caller[c] \in {"check", "block", "read", "clear"} => m_mutex = c
         /\ caller[c] = "block" => ~Pred(c)
         /\ caller[c] = "clear" => c \in PacketCallers /\ tmp[c] = m_packets
    /\ thread = "add" => m_mutex = Poller

IInv == TypeOK /\ LockDiscipline /\ PacketConservation /\ NoLostWakeup

-----------------------------------------------------------------------------
LEMMA InitType == Init => TypeOK
<1> SUFFICES ASSUME Init PROVE TypeOK
  OBVIOUS
<1> USE DEF Init, ThreadSteps, CallerSteps
<1>1. m_running \in BOOLEAN /\ joined \in BOOLEAN
  OBVIOUS
<1>2. port \in Seq(Notification) /\ arrivals \in 0..MaxArrivals
  BY PayloadAssumption
<1>3. caller \in [Callers -> CallerSteps] /\ tmp \in [Callers -> Nat]
  OBVIOUS
<1> QED BY <1>1, <1>2, <1>3 DEF TypeOK

\* Masking the payload leaves a natural number.
LEMMA MaskedPayload ==
    ASSUME NEW n \in Payloads
    PROVE  n % PayloadRange \in Nat
  BY PayloadAssumption

LEMMA NextType == TypeOK /\ [Next]_vars => TypeOK'
<1> SUFFICES ASSUME TypeOK, [Next]_vars PROVE TypeOK'
  OBVIOUS
<1> USE DEF TypeOK, portVars, counters, locals, history, ThreadSteps,
            CallerSteps
<1>1. ASSUME NEW n \in Notification, Arrive(n) PROVE TypeOK'
  BY <1>1, PayloadAssumption DEF Arrive
<1>2. CASE PollNotifications
  <2>1. CASE ProbeNotification
    <3>1. port # <<>> /\ port \in Seq(Notification)
      BY <2>1 DEF ProbeNotification
    <3>2. Head(port) \in Notification /\ Tail(port) \in Seq(Notification)
      BY <3>1
    <3>3. /\ Head(port).payload % PayloadRange \in Nat
          /\ Head(port).cls \in {"trace", "response", "unknown"}
      BY <3>2, MaskedPayload, PayloadAssumption DEF Notification
    <3> QED BY <2>1, <3>2, <3>3 DEF ProbeNotification
  <2>2. CASE TestRunning \/ ProbeNothing \/ Sleep \/ ProbeInvalid \/ PollerLock
    BY <2>2 DEF TestRunning, ProbeNothing, Sleep, ProbeInvalid, PollerLock
  <2>3. CASE Add
    BY <2>3 DEF Add, AddPackets, AddResponse, ThrowUnknown
  <2>4. CASE NotifyAll
    BY <2>4 DEF NotifyAll
  <2> QED BY <1>2, <2>1, <2>2, <2>3, <2>4 DEF PollNotifications
<1>3. ASSUME NEW c \in Callers,
             Call(c) \/ Lock(c) \/ SpuriousWakeup(c) \/ Expire(c) \/ Check(c) \/ Block(c)
      PROVE  TypeOK'
  BY <1>3 DEF Call, Lock, SpuriousWakeup, Expire, Check, Block, Goto
<1>4. ASSUME NEW c \in Callers, ReadPackets(c) \/ ClearPackets(c) \/ TakeResponse(c)
      PROVE  TypeOK'
  <2>1. CASE ReadPackets(c)
    BY <2>1 DEF ReadPackets, Goto
  <2>2. CASE ClearPackets(c)
    BY <2>2 DEF ClearPackets, Goto
  <2>3. CASE TakeResponse(c)
    BY <2>3 DEF TakeResponse, Goto
  <2> QED BY <1>4, <2>1, <2>2, <2>3
<1>5. CASE StopRunning \/ Join
  BY <1>5 DEF StopRunning, Join
<1>6. CASE UNCHANGED vars
  BY <1>6 DEF vars
<1> QED BY <1>1, <1>2, <1>3, <1>4, <1>5, <1>6 DEF Next, ConsumeStep

\* The counters of the poller never wrap below zero and every variable keeps
\* its type.
THEOREM TypeCorrect == Spec => []TypeOK
  BY InitType, NextType, PTL DEF Spec

-----------------------------------------------------------------------------
LEMMA InitIInv == Init => IInv
  BY InitType DEF Init, IInv, LockDiscipline, PacketConservation, NoLostWakeup,
     InHand

LEMMA NextIInv == IInv /\ [Next]_vars => IInv'
<1> SUFFICES ASSUME IInv, [Next]_vars PROVE (LockDiscipline /\ PacketConservation /\ NoLostWakeup)'
  BY NextType DEF IInv
<1>0. TypeOK /\ TypeOK' /\ Poller # Free /\ Poller \notin Callers /\ Free \notin Callers
  BY NextType, CallersAssumption DEF IInv, Poller, Free
<1> USE DEF IInv, portVars, counters, locals, history
<1>1. ASSUME NEW n \in Notification, Arrive(n)
      PROVE  (LockDiscipline /\ PacketConservation /\ NoLostWakeup)'
  BY <1>1 DEF Arrive, LockDiscipline, PacketConservation, NoLostWakeup, Pred, InHand
<1>2. CASE TestRunning \/ ProbeNothing \/ Sleep \/ ProbeInvalid
  BY <1>2 DEF TestRunning, ProbeNothing, Sleep, ProbeInvalid, LockDiscipline,
     PacketConservation, NoLostWakeup, Pred, InHand
<1>3. CASE ProbeNotification
  <2>1. LockDiscipline' /\ NoLostWakeup'
    BY <1>3 DEF ProbeNotification, LockDiscipline, NoLostWakeup, Pred
  <2>2. PacketConservation'
    BY <1>0, <1>3 DEF ProbeNotification, PacketConservation, InHand, TypeOK
  <2> QED BY <2>1, <2>2
<1>4. CASE PollerLock
  BY <1>0, <1>4 DEF PollerLock, LockDiscipline, PacketConservation,
     NoLostWakeup, Pred, InHand
<1>5. CASE Add
  <2>1. \A c \in Callers : caller[c] \notin {"check", "block", "read", "clear"}
    BY <1>0, <1>5 DEF Add, LockDiscipline
  <2>2. LockDiscipline'
    BY <1>5, <2>1 DEF Add, AddPackets, AddResponse, ThrowUnknown, LockDiscipline
  <2>3. PacketConservation'
    <3> USE <1>0, <1>5 DEF Add
    <3>0. /\ m_packets \in Nat /\ payload \in Nat /\ taken \in Nat
          /\ taken' = taken /\ probed' = probed /\ cls' = cls /\ thread = "add"
      BY DEF TypeOK
    <3>1. CASE AddPackets
      <4>1. probed = payload + m_packets + taken
        BY <3>0, <3>1 DEF AddPackets, PacketConservation, InHand
      <4>2. InHand' = 0 /\ m_packets' = m_packets + payload
        BY <3>1 DEF AddPackets, InHand
      <4> QED BY <3>0, <4>1, <4>2 DEF PacketConservation
    <3>2. CASE AddResponse \/ ThrowUnknown
      <4>1. probed = 0 + m_packets + taken
        BY <3>0, <3>2 DEF AddResponse, ThrowUnknown, PacketConservation, InHand
      <4>2. InHand' = 0 /\ m_packets' = m_packets
        BY <3>2 DEF AddResponse, ThrowUnknown, InHand
      <4> QED BY <3>0, <4>1, <4>2 DEF PacketConservation
    <3> QED BY <3>1, <3>2
  <2>4. NoLostWakeup'
    BY <1>5 DEF Add, AddPackets, AddResponse, ThrowUnknown, NoLostWakeup, Pred
  <2> QED BY <2>2, <2>3, <2>4
<1>6. CASE NotifyAll
  <2>1. \A c \in Callers : /\ caller'[c] # "wait"
                           /\ caller[c] # "wait" => caller'[c] = caller[c]
                           /\ caller[c] = "wait" => caller'[c] = "relock"
    BY <1>6 DEF NotifyAll
  <2>2. LockDiscipline' /\ NoLostWakeup'
    BY <1>6, <2>1 DEF NotifyAll, LockDiscipline, NoLostWakeup, Pred
  <2>3. PacketConservation'
    BY <1>6 DEF NotifyAll, PacketConservation, InHand
  <2> QED BY <2>2, <2>3
<1>7. ASSUME NEW c \in Callers,
             \/ Call(c) \/ Lock(c) \/ SpuriousWakeup(c) \/ Expire(c)
             \/ Check(c) \/ Block(c)
      PROVE  (LockDiscipline /\ PacketConservation /\ NoLostWakeup)'
  <2> USE <1>0 DEF Goto, TypeOK
  <2>1. PacketConservation'
    BY <1>7 DEF Call, Lock, SpuriousWakeup, Expire, Check, Block,
       PacketConservation, InHand
  <2>2. CASE Call(c) \/ SpuriousWakeup(c) \/ Expire(c)
    BY <2>1, <2>2 DEF Call, SpuriousWakeup, Expire, LockDiscipline, NoLostWakeup, Pred
  <2>3. CASE Lock(c)
    BY <2>1, <2>3 DEF Lock, LockDiscipline, NoLostWakeup, Pred
  <2>4. CASE Check(c)
    BY <2>1, <2>4 DEF Check, LockDiscipline, NoLostWakeup, Pred
  <2>5. CASE Block(c)
    BY <2>1, <2>5 DEF Block, LockDiscipline, NoLostWakeup, Pred
  <2> QED BY <1>7, <2>2, <2>3, <2>4, <2>5
<1>8. ASSUME NEW c \in Callers, ReadPackets(c)
      PROVE  (LockDiscipline /\ PacketConservation /\ NoLostWakeup)'
  BY <1>0, <1>8 DEF ReadPackets, Goto, LockDiscipline, PacketConservation,
     NoLostWakeup, Pred, InHand, TypeOK
<1>9. ASSUME NEW c \in Callers, ClearPackets(c)
      PROVE  (LockDiscipline /\ PacketConservation /\ NoLostWakeup)'
  <2>1. m_mutex = c /\ tmp[c] = m_packets /\ c \in PacketCallers
    BY <1>9 DEF ClearPackets, Goto, LockDiscipline
  <2>2. \A d \in Callers : d # c => caller[d] \notin {"check", "block", "read", "clear"}
    BY <2>1 DEF LockDiscipline
  <2>3. LockDiscipline'
    BY <1>0, <1>9, <2>1, <2>2 DEF ClearPackets, Goto, LockDiscipline, TypeOK
  <2>4. PacketConservation'
    BY <1>0, <1>9, <2>1 DEF ClearPackets, PacketConservation, InHand, TypeOK
  <2>5. NoLostWakeup'
    BY <1>0, <1>9 DEF ClearPackets, Goto, NoLostWakeup, Pred, TypeOK
  <2> QED BY <2>3, <2>4, <2>5
<1>10. ASSUME NEW c \in Callers, TakeResponse(c)
       PROVE  (LockDiscipline /\ PacketConservation /\ NoLostWakeup)'
  <2>1. \A d \in Callers : d # c => caller[d] \notin {"check", "block", "read", "clear"}
    BY <1>10 DEF TakeResponse, Goto, LockDiscipline
  <2>2. LockDiscipline'
    BY <1>0, <1>10, <2>1 DEF TakeResponse, Goto, LockDiscipline, TypeOK
  <2>3. PacketConservation'
    BY <1>10 DEF TakeResponse, PacketConservation, InHand
  <2>4. NoLostWakeup'
    BY <1>0, <1>10 DEF TakeResponse, Goto, NoLostWakeup, Pred, TypeOK
  <2> QED BY <2>2, <2>3, <2>4
<1>11. CASE StopRunning \/ Join \/ UNCHANGED vars
  BY <1>11 DEF StopRunning, Join, vars, LockDiscipline, PacketConservation,
     NoLostWakeup, Pred, InHand
<1> QED
  BY <1>1, <1>2, <1>3, <1>4, <1>5, <1>6, <1>7, <1>8, <1>9, <1>10, <1>11
  DEF Next, PollNotifications, ConsumeStep

\* The inductive invariant of the poller and its callers.
LEMMA InductiveInvariant == Spec => []IInv
  BY InitIInv, NextIInv, PTL DEF Spec

\* No packet the poller was told of is lost or handed out twice.
THEOREM Conservation == Spec => []PacketConservation
  BY InductiveInvariant, PTL DEF IInv

\* No caller stays blocked on the condition variable while what it waits for
\* is there.
THEOREM WakeupsNotLost == Spec => []NoLostWakeup
  BY InductiveInvariant, PTL DEF IInv

-----------------------------------------------------------------------------
\* consume_packets and consume_response are atomic operations on the two
\* counters, whatever the interleaving: the poller implements PacketCounter.
THEOREM Refinement == Spec => ImplementsCounter
<1>1. Init => Counter!Init
  BY DEF Init, Counter!Init
<1>2. IInv /\ [Next]_vars => [Counter!Next]_(Counter!vars)
  <2> SUFFICES ASSUME IInv, [Next]_vars
               PROVE  Counter!Next \/ UNCHANGED Counter!vars
    OBVIOUS
  <2> USE DEF portVars, counters, locals, history, Counter!vars
  <2>1. CASE Add
    <3>1. m_packets \in Nat /\ m_notifications \in Nat /\ payload \in Nat
      BY DEF IInv, TypeOK
    <3> QED BY <2>1, <3>1 DEF Add, AddPackets, AddResponse, ThrowUnknown,
          Counter!Next, Counter!AddPackets, Counter!AddResponse
  <2>2. ASSUME NEW c \in Callers, ClearPackets(c)
        PROVE  Counter!Next
    <3>1. tmp[c] = m_packets
      BY <2>2 DEF IInv, LockDiscipline, ClearPackets, Goto
    <3> QED BY <2>2, <3>1 DEF ClearPackets, Counter!Next, Counter!ConsumePackets
  <2>3. ASSUME NEW c \in Callers, TakeResponse(c)
        PROVE  Counter!Next \/ UNCHANGED Counter!vars
    BY <2>3 DEF TakeResponse, Counter!Next, Counter!ConsumeResponse
  <2>4. ASSUME NEW n \in Notification, Arrive(n) PROVE UNCHANGED Counter!vars
    BY <2>4 DEF Arrive
  <2>5. CASE TestRunning \/ ProbeNothing \/ Sleep \/ ProbeInvalid \/ ProbeNotification
             \/ PollerLock \/ NotifyAll
    BY <2>5 DEF TestRunning, ProbeNothing, Sleep, ProbeInvalid, ProbeNotification,
       PollerLock, NotifyAll
  <2>6. ASSUME NEW c \in Callers,
               \/ Call(c) \/ Lock(c) \/ SpuriousWakeup(c) \/ Expire(c)
               \/ Check(c) \/ Block(c) \/ ReadPackets(c)
        PROVE  UNCHANGED Counter!vars
    BY <2>6 DEF Call, Lock, SpuriousWakeup, Expire, Check, Block, ReadPackets
  <2>7. CASE StopRunning \/ Join \/ UNCHANGED vars
    BY <2>7 DEF StopRunning, Join, vars
  <2> QED BY <2>1, <2>2, <2>3, <2>4, <2>5, <2>6, <2>7
          DEF Next, PollNotifications, ConsumeStep
<1> QED BY <1>1, <1>2, InductiveInvariant, PTL
        DEF Spec, ImplementsCounter, Counter!Spec

-----------------------------------------------------------------------------
(* What CallsReturn and DestructorReturns rest on.                          *)

\* The mutex is held by exactly the thread that is inside of a critical
\* section: never by two, and by nobody who waits, sleeps, has returned or threw.
MutexOwned ==
    /\ \A c \in Callers :
         m_mutex = c <=> caller[c] \in {"check", "block", "read", "clear"}
    /\ m_mutex = Poller <=> thread = "add"

\* Once the destructor has cleared m_running, nobody calls any more.
NoCallsInDestructor == ~m_running => \A c \in Callers : caller[c] = "idle"

LEMMA InitOwned == Init => MutexOwned /\ NoCallsInDestructor
  BY CallersAssumption DEF Init, MutexOwned, NoCallsInDestructor, Poller, Free

LEMMA NextOwned ==
    IInv /\ MutexOwned /\ NoCallsInDestructor /\ [Next]_vars
        => MutexOwned' /\ NoCallsInDestructor'
<1> SUFFICES ASSUME IInv, MutexOwned, NoCallsInDestructor, [Next]_vars
             PROVE  MutexOwned' /\ NoCallsInDestructor'
  OBVIOUS
<1>0. /\ caller \in [Callers -> CallerSteps]
      /\ Poller # Free /\ Poller \notin Callers /\ Free \notin Callers
  BY CallersAssumption DEF IInv, TypeOK, Poller, Free
<1> USE DEF MutexOwned, NoCallsInDestructor
<1>1. ASSUME NEW n \in Notification, Arrive(n)
      PROVE  MutexOwned' /\ NoCallsInDestructor'
  BY <1>1 DEF Arrive
<1>2. CASE TestRunning \/ ProbeNothing \/ Sleep \/ ProbeInvalid \/ ProbeNotification
  BY <1>2 DEF TestRunning, ProbeNothing, Sleep, ProbeInvalid, ProbeNotification
<1>3. CASE PollerLock \/ Add
  BY <1>0, <1>3 DEF PollerLock, Add, AddPackets, AddResponse, ThrowUnknown
<1>4. CASE NotifyAll
  <2>1. \A c \in Callers : \/ caller'[c] = caller[c]
                           \/ caller[c] = "wait" /\ caller'[c] = "relock"
    BY <1>4 DEF NotifyAll
  <2> QED BY <1>4, <2>1 DEF NotifyAll
<1>5. ASSUME NEW c \in Callers,
             \/ Call(c) \/ Lock(c) \/ SpuriousWakeup(c) \/ Expire(c) \/ ConsumeStep(c)
      PROVE  MutexOwned' /\ NoCallsInDestructor'
  <2>1. \A d \in Callers \ {c} : caller'[d] = caller[d]
    BY <1>0, <1>5 DEF Call, Lock, SpuriousWakeup, Expire, ConsumeStep, Check, Block,
       ReadPackets, ClearPackets, TakeResponse, Goto
  <2>2. thread' = thread /\ m_running' = m_running /\ m_running
    BY <1>5 DEF Call, Lock, SpuriousWakeup, Expire, ConsumeStep, Check, Block,
       ReadPackets, ClearPackets, TakeResponse, Goto
  <2>3. CASE Call(c) \/ SpuriousWakeup(c) \/ Expire(c)
    BY <1>0, <2>1, <2>2, <2>3 DEF Call, SpuriousWakeup, Expire, Goto
  <2>4. CASE Lock(c)
    BY <1>0, <2>1, <2>2, <2>4 DEF Lock, Goto
  <2>5. CASE Check(c) \/ ReadPackets(c)
    BY <1>0, <2>1, <2>2, <2>5 DEF Check, ReadPackets, Goto
  <2>6. CASE Block(c) \/ ClearPackets(c) \/ TakeResponse(c)
    BY <1>0, <2>1, <2>2, <2>6 DEF Block, ClearPackets, TakeResponse, Goto
  <2> QED BY <1>5, <2>3, <2>4, <2>5, <2>6 DEF ConsumeStep
<1>6. CASE StopRunning \/ Join \/ UNCHANGED vars
  BY <1>6 DEF StopRunning, Join, vars
<1> QED BY <1>1, <1>2, <1>3, <1>4, <1>5, <1>6 DEF Next, PollNotifications

\* The mutex is never abandoned: whoever owns it is between acquiring and
\* releasing it, also when a wait times out, is woken for nothing, or an unknown
\* class throws; and the thread that the destructor joins competes with nobody.
THEOREM MutexNotAbandoned ==
    Spec => [](MutexOwned /\ (~m_running => m_mutex \in {Free, Poller}))
<1>1. Spec => [](IInv /\ MutexOwned /\ NoCallsInDestructor)
  BY InductiveInvariant, InitOwned, NextOwned, PTL DEF Spec
<1>2. IInv /\ MutexOwned /\ NoCallsInDestructor
        => MutexOwned /\ (~m_running => m_mutex \in {Free, Poller})
  BY DEF IInv, TypeOK, MutexOwned, NoCallsInDestructor
<1> QED BY <1>1, <1>2, PTL
=============================================================================

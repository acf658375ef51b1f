-------------------------- MODULE RingBufferProofs --------------------------
(***************************************************************************)
(* Proofs that the safety properties of RingBuffer hold for every size of   *)
(* the ring, threshold, packet length and notification limit.               *)
(***************************************************************************)
EXTENDS RingBuffer, TLAPS

\* Every word sent and not yet read is announced or waits to be, is readable,
\* or was dropped by the destructor.
WordAccounting ==
    Unread = f_unnotified + notified + m_packets + m_readable_words + discarded

\* The FPGA writes right behind the last unread word.
IndicesInSync ==
    pc # "destroyed" => /\ m_read_index \in Slots
                        /\ f_index = Slot(ReadPos, Unread)

\* What the host's counters are between its operations.
HostCounters ==
    /\ pc \in {"idle", "reset"} => m_readable_words = 0
    /\ pc # "read" => m_read_words = 0
    /\ pc # "destroyed" => discarded = 0
    /\ m_read_words <= num_words_to_notify

IInv ==
    /\ TypeOK
    /\ CreditConservation
    /\ WordAccounting
    /\ f_used <= size_qw
    /\ IndicesInSync
    /\ HostCounters
    /\ BufferIntact
    /\ FifoDelivery

-----------------------------------------------------------------------------
\* Incrementing a slot number modulo the size is moving one slot on, which is
\* how receive() advances m_read_index.
LEMMA ModuloIsNextSlot ==
    ASSUME NEW i \in Slots
    PROVE  (i + 1) % size_qw = Slot(i, 1)
  BY SizeAssumption, SMTT(30) DEF Slots, Slot

\* The distance between two slots is less than the size.
LEMMA OffsetIsSlot ==
    ASSUME NEW i \in Slots, NEW j \in Slots
    PROVE  Offset(i, j) \in Slots
  BY SizeAssumption DEF Slots, Offset

\* The position receive() reads from is a slot.
LEMMA ReadPosInSlots ==
    ASSUME IInv, pc # "destroyed"
    PROVE  ReadPos \in Slots
<1>1. m_read_index \in Slots
  BY DEF IInv, IndicesInSync
<1> QED BY <1>1, SizeAssumption DEF ReadPos, Slots

LEMMA InitIInv == Init => IInv
  BY SizeAssumption
  DEF Init, IInv, TypeOK, CreditConservation, WordAccounting, IndicesInSync,
      HostCounters, BufferIntact, FifoDelivery, Unread, ReadPos, Slot, Slots,
      Stale, Steps

LEMMA NextIInv == IInv /\ [Next]_vars => IInv'
<1> USE SizeAssumption
<1> SUFFICES ASSUME IInv, [Next]_vars PROVE IInv'
  OBVIOUS
<1> USE DEF IInv
<1>1. ASSUME NEW n \in 1..Packet, FpgaPut(n) PROVE IInv'
  <2> USE <1>1 DEF FpgaPut, host
  <2>1. /\ n \in Nat /\ Unread' = Unread + n /\ Unread \in Nat
        /\ Unread + n <= size_qw /\ ReadPos' = ReadPos /\ pc # "destroyed"
    BY DEF TypeOK, Unread, ReadPos, WordAccounting, CreditConservation
  <2>2. ReadPos \in Slots
    BY <2>1, ReadPosInSlots
  <2>3. TypeOK'
    BY <2>1 DEF TypeOK, Slots, Slot, Offset, Stale
  <2>4. (CreditConservation /\ WordAccounting)' /\ f_used' <= size_qw
    BY <2>1 DEF CreditConservation, WordAccounting, TypeOK
  <2>5. IndicesInSync'
    BY <2>1, <2>2 DEF IndicesInSync, Slot, Slots, TypeOK
  <2>6. HostCounters' /\ FifoDelivery'
    BY DEF HostCounters, FifoDelivery
  <2>7. BufferIntact'
    <3> SUFFICES ASSUME NEW o \in 0 .. Unread' - 1
                 PROVE  (mem[Slot(ReadPos, o)])' = Len(received') + o
      BY DEF BufferIntact
    <3>0. /\ o \in 0 .. Unread + n - 1 /\ Len(received') = Len(received)
          /\ (mem[Slot(ReadPos, o)])' = mem'[Slot(ReadPos, o)]
      BY <2>1 DEF Slot
    <3>1. /\ Slot(ReadPos, o) \in Slots
          /\ f_index = Slot(ReadPos, Unread)
          /\ written = Len(received) + Unread /\ Len(received) \in Nat
      BY <2>1, <2>2, <3>0 DEF IndicesInSync, Slot, Slots, Unread, TypeOK
    <3>2. CASE o < Unread
      <4>1. Offset(f_index, Slot(ReadPos, o)) >= n
        BY <2>1, <2>2, <3>0, <3>1, <3>2 DEF Slot, Slots, Offset
      <4>2. mem'[Slot(ReadPos, o)] = mem[Slot(ReadPos, o)]
        <5>1. Offset(f_index, Slot(ReadPos, o)) \in Int /\ n \in Int
          <6>1. f_index \in Slots
            BY DEF TypeOK
          <6> QED BY <2>1, <3>1, <6>1, OffsetIsSlot DEF Slots
        <5> QED BY <3>1, <4>1, <5>1
      <4>3. mem[Slot(ReadPos, o)] = Len(received) + o
        BY <2>1, <3>0, <3>2 DEF BufferIntact
      <4> QED BY <3>0, <4>2, <4>3
    <3>3. CASE o >= Unread
      <4>1. Offset(f_index, Slot(ReadPos, o)) = o - Unread
        BY <2>1, <2>2, <3>0, <3>1, <3>3 DEF Slot, Slots, Offset
      <4>2. mem'[Slot(ReadPos, o)] = written + (o - Unread)
        BY <2>1, <3>0, <3>1, <4>1
      <4> QED BY <2>1, <3>0, <3>1, <4>2
    <3> QED BY <2>1, <3>0, <3>2, <3>3
  <2> QED BY <2>3, <2>4, <2>5, <2>6, <2>7
<1>2. CASE FpgaNotify
  BY <1>2 DEF FpgaNotify, host, TypeOK, CreditConservation, WordAccounting,
     IndicesInSync, HostCounters, BufferIntact, FifoDelivery, Unread, ReadPos
<1>3. ASSUME NEW n \in 1..credits, FpgaCredit(n) PROVE IInv'
  BY <1>3 DEF FpgaCredit, host, TypeOK, CreditConservation, WordAccounting,
     IndicesInSync, HostCounters, BufferIntact, FifoDelivery, Unread, ReadPos
<1>4. ASSUME NEW n \in 1..notified, PollerAdd(n) PROVE IInv'
  BY <1>4 DEF PollerAdd, fpga, host, TypeOK, CreditConservation, WordAccounting,
     IndicesInSync, HostCounters, BufferIntact, FifoDelivery, Unread, ReadPos
<1>5. CASE Receive
  BY <1>5 DEF Receive, Poll, fpga, TypeOK, CreditConservation, WordAccounting,
     IndicesInSync, HostCounters, BufferIntact, FifoDelivery, Unread, ReadPos, Steps
<1>6. CASE ReadWord
  <2> USE <1>6 DEF ReadWord, Notify, fpga
  <2>1. /\ m_read_index \in Slots /\ m_read_index' = Slot(m_read_index, 1)
        /\ ReadPos = m_read_index /\ ReadPos' = m_read_index'
        /\ Unread \in Nat /\ Unread > 0 /\ Unread <= size_qw
    BY ModuloIsNextSlot DEF IndicesInSync, ReadPos, TypeOK, Unread, WordAccounting,
       CreditConservation
  <2>2. /\ received' \in Seq(Nat \union {Stale})
        /\ Len(received') = Len(received) + 1 /\ Len(received) \in Nat
        /\ \A i \in 1..Len(received) : received'[i] = received[i]
        /\ received'[Len(received) + 1] = mem[m_read_index]
    BY <2>1 DEF TypeOK
  <2>3. Unread' = Unread - 1
    BY <2>2 DEF Unread, TypeOK
  <2>4. mem[m_read_index] = Len(received)
    <3>1. 0 \in 0 .. Unread - 1 /\ Slot(m_read_index, 0) = m_read_index
      BY <2>1 DEF Slot, Slots
    <3> QED BY <2>1, <2>2, <3>1 DEF BufferIntact
  <2>5. TypeOK'
    BY <2>1, <2>2 DEF TypeOK, Slot, Slots
  <2>6. (CreditConservation /\ WordAccounting)' /\ f_used' <= size_qw
    BY <2>3 DEF CreditConservation, WordAccounting, TypeOK
  <2>7. IndicesInSync'
    BY <2>1, <2>3 DEF IndicesInSync, Slot, Slots
  <2>8. HostCounters'
    BY DEF HostCounters, TypeOK
  <2>9. BufferIntact'
    <3> SUFFICES ASSUME NEW o \in 0 .. Unread - 2
                 PROVE  mem[Slot(m_read_index', o)] = Len(received) + 1 + o
      BY <2>1, <2>2, <2>3 DEF BufferIntact
    <3>1. Slot(m_read_index', o) = Slot(m_read_index, o + 1)
      BY <2>1 DEF Slot, Slots
    <3> QED BY <2>1, <2>2, <3>1 DEF BufferIntact
  <2>10. FifoDelivery'
    BY <2>2, <2>4 DEF FifoDelivery
  <2> QED BY <2>5, <2>6, <2>7, <2>8, <2>9, <2>10
<1>7. CASE ReceiveReturns
  BY <1>7 DEF ReceiveReturns, Notify, fpga, TypeOK, CreditConservation,
     WordAccounting, IndicesInSync, HostCounters, BufferIntact, FifoDelivery,
     Unread, ReadPos, Steps
<1>8. CASE Reset
  BY <1>8 DEF Reset, fpga, TypeOK, CreditConservation, WordAccounting,
     IndicesInSync, HostCounters, BufferIntact, FifoDelivery, Unread, ReadPos,
     Slots, Steps
<1>9. CASE DrainPoll
  BY <1>9 DEF DrainPoll, Poll, fpga, TypeOK, CreditConservation, WordAccounting,
     IndicesInSync, HostCounters, BufferIntact, FifoDelivery, Unread, ReadPos, Steps
<1>10. CASE Release
  BY <1>10 DEF Release, Notify, fpga, TypeOK, CreditConservation, WordAccounting,
     IndicesInSync, HostCounters, BufferIntact, FifoDelivery, Unread, Steps
<1>11. CASE Quiet /\ BufferInit
  <2> USE <1>11 DEF Quiet, BufferInit
  <2>1. Len(received') = 0 /\ Unread' = 0 /\ ReadPos' = 0
    <3>1. Len(received') = 0 /\ written' = 0 /\ pc' = "reset"
      OBVIOUS
    <3>2. Unread' = written' - Len(received')
      BY DEF Unread
    <3>3. ReadPos' = 0
      BY <3>1 DEF ReadPos
    <3> QED BY <3>1, <3>2, <3>3
  <2>2. TypeOK'
    BY DEF TypeOK, Slots, Stale, Steps
  <2>3. (CreditConservation /\ WordAccounting /\ HostCounters)' /\ f_used' <= size_qw
    BY <2>1 DEF CreditConservation, WordAccounting, HostCounters, TypeOK
  <2>4. IndicesInSync'
    BY <2>1 DEF IndicesInSync, Slot, Slots, TypeOK
  <2>5. BufferIntact' /\ FifoDelivery'
    BY <2>1 DEF BufferIntact, FifoDelivery
  <2> QED BY <2>2, <2>3, <2>4, <2>5
<1>12. CASE Destroy
  BY <1>12 DEF Destroy, fpga, TypeOK, CreditConservation, WordAccounting,
     IndicesInSync, HostCounters, BufferIntact, FifoDelivery, Unread, ReadPos, Steps
<1>13. CASE HicannDrain
  BY <1>13 DEF HicannDrain, fpga, TypeOK, CreditConservation, WordAccounting,
     IndicesInSync, HostCounters, BufferIntact, FifoDelivery, Unread, ReadPos, Steps
<1>14. CASE UNCHANGED vars
  BY <1>14 DEF vars, TypeOK, CreditConservation, WordAccounting,
     IndicesInSync, HostCounters, BufferIntact, FifoDelivery, Unread, ReadPos
<1> QED
  BY <1>1, <1>2, <1>3, <1>4, <1>5, <1>6, <1>7, <1>8, <1>9, <1>10, <1>11,
     <1>12, <1>13, <1>14 DEF Next, Fpga, Host

-----------------------------------------------------------------------------
\* The inductive invariant holds in every reachable state of the ring buffer
\* and its FPGA counterpart.
LEMMA InductiveInvariant == Spec => []IInv
  BY InitIInv, NextIInv, PTL DEF Spec

\* Every variable of the ring buffer keeps its type: the unsigned counters of
\* receive() never wrap below zero.
THEOREM TypeCorrect == Spec => []TypeOK
  BY InductiveInvariant, PTL DEF IInv

\* receive() returns the words the FPGA sent, each once and in order.
THEOREM Delivery == Spec => []FifoDelivery
  BY InductiveInvariant, PTL DEF IInv

\* No word is overwritten by the FPGA before receive() has read it.
THEOREM NoOverwrite == Spec => []BufferIntact
  BY InductiveInvariant, PTL DEF IInv

\* The slots the FPGA counts as occupied are exactly those of words that were
\* not yet reported back to it.
THEOREM Conservation == Spec => []CreditConservation
  BY InductiveInvariant, PTL DEF IInv

-----------------------------------------------------------------------------
(* What NoPermanentStall and the end of the destructor rest on.             *)

\* Words and credits that have a step before them.
UnderWay == f_unnotified + notified + m_packets + m_readable_words + m_read_words
            + credits

\* An FPGA that has stopped sending, as its ring is nearly full, still has words
\* that will be announced, read, or given back to it.  It is never stuck with
\* slots that nobody will free: neither word nor credit is forgotten.
THEOREM StallHasCause ==
    Spec => [](size_qw - f_used < Threshold /\ pc # "destroyed" => UnderWay > 0)
<1>1. IInv => (size_qw - f_used < Threshold /\ pc # "destroyed" => UnderWay > 0)
  BY SizeAssumption DEF IInv, TypeOK, CreditConservation, HostCounters, UnderWay
<1> QED BY <1>1, InductiveInvariant, PTL

\* A round of the destructor's "while (poll());" that is not its last finds
\* words, and the ring has no more than size_qw of them.
LEMMA DrainStep ==
    ASSUME IInv, [Next]_vars, pc = "drain", pc' = "drain"
    PROVE  /\ m_readable_words' \in m_readable_words .. size_qw
           /\ DrainPoll => m_readable_words' > m_readable_words
<1>1. TypeOK /\ TypeOK' /\ CreditConservation' /\ f_used' <= size_qw
  BY NextIInv DEF IInv
<1>2. m_readable_words' >= m_readable_words
  <2>1. CASE DrainPoll
    BY <1>1, <2>1 DEF DrainPoll, Poll, TypeOK
  <2>2. CASE Fpga \/ (\E n \in 1..notified : PollerAdd(n)) \/ UNCHANGED vars
    BY <1>1, <2>2 DEF Fpga, FpgaPut, FpgaNotify, FpgaCredit, PollerAdd, host, vars,
       TypeOK
  <2>3. ~(Receive \/ ReadWord \/ ReceiveReturns \/ Reset \/ Release \/ HicannDrain)
        /\ ~BufferInit /\ ~Destroy
    BY DEF Receive, ReadWord, ReceiveReturns, Reset, Release, HicannDrain, BufferInit,
       Destroy
  <2> QED BY <2>1, <2>2, <2>3 DEF Next, Host
<1>3. m_readable_words' <= size_qw
  <2>1. /\ f_unnotified' \in Nat /\ notified' \in Nat /\ m_packets' \in Nat
        /\ m_readable_words' \in Nat /\ m_read_words' \in Nat /\ credits' \in Nat
        /\ discarded' \in Nat /\ f_used' \in Int /\ size_qw \in Nat
    BY <1>1, SizeAssumption DEF TypeOK
  <2>2. f_used' = f_unnotified' + notified' + m_packets' + m_readable_words'
                  + m_read_words' + credits' + discarded'
    BY <1>1 DEF CreditConservation
  <2>3. f_used' <= size_qw
    BY <1>1
  <2>4. \A a, b, c, d, e, f, g \in Nat : d <= a + b + c + d + e + f + g
    OBVIOUS
  <2>5. m_readable_words' <= f_used'
    BY <2>1, <2>2, <2>4
  <2> QED BY <2>1, <2>3, <2>5
<1>4. DrainPoll => m_readable_words' > m_readable_words
  BY <1>1 DEF DrainPoll, Poll, TypeOK
<1> QED BY <1>1, <1>2, <1>3, <1>4, SizeAssumption DEF TypeOK

\* The destructor's loop cannot go on for ever, however the FPGA streams: no
\* slot is given back while it runs, so it takes at most size_qw rounds that
\* find words.
THEOREM DrainBounded ==
    Spec => [][pc = "drain" /\ pc' = "drain" =>
                 /\ m_readable_words' \in m_readable_words .. size_qw
                 /\ DrainPoll => m_readable_words' > m_readable_words]_vars
<1>1. IInv /\ [Next]_vars =>
        [pc = "drain" /\ pc' = "drain" =>
           /\ m_readable_words' \in m_readable_words .. size_qw
           /\ DrainPoll => m_readable_words' > m_readable_words]_vars
  BY DrainStep
<1> QED BY <1>1, InductiveInvariant, PTL DEF Spec
=============================================================================

----------------------------- MODULE RingBuffer -----------------------------
(***************************************************************************)
(* The trace RingBuffer of an Endpoint and its counterpart on the FPGA.      *)
(*                                                                         *)
(* The FPGA puts words into the registered region and announces them with   *)
(* payload notifications, which the NotificationPoller adds to m_packets;   *)
(* receive() takes the announced words out of the region and posts back how *)
(* many it has read, which is what frees their slots on the FPGA's side.    *)
(*                                                                         *)
(* The k-th word the FPGA sends since its buffer was last initialised is    *)
(* the number k-1; Stale is anything else a slot may hold (memory never     *)
(* written, a word of an earlier configuration).  Both ends only ever add   *)
(* up the payloads of the notifications, so those in flight are the number  *)
(* of words they announce, and any part of it may arrive first.             *)
(***************************************************************************)
EXTENDS Integers, Sequences

CONSTANTS size_qw,              \* slots of the ring
          num_words_to_notify,  \* receive() posts inside its loop above this
          Threshold,            \* the FPGA is "nearly full" below this much room
          Packet,               \* most words in one packet (62 on hardware)
          MaxWords              \* bound: words sent per configuration

ASSUME SizeAssumption ==
    /\ size_qw \in Nat \ {0}
    /\ num_words_to_notify \in Nat
    /\ Packet \in Nat \ {0}
    /\ Threshold \in Packet..size_qw
    /\ MaxWords \in Nat

VARIABLES
    mem,                \* the registered region, m_buffer
    f_index,            \* FPGA: slot of the next word
    f_used,             \* FPGA: slots it may not write to
    f_unnotified,       \* FPGA: words put and not yet announced
    written,            \* FPGA: words put since the last initialisation
    notified,           \* words announced by notifications still on the way
    m_packets,          \* the poller's counter
    m_read_index, m_readable_words, m_read_words,
    credits,            \* words in notifications on the way to the FPGA
    received,           \* history: all words pushed to a vector by receive()
    discarded,          \* history: words the destructors drop
    pc                  \* where the thread that uses the buffer is

fpga == <<f_index, f_used, f_unnotified, written>>
host == <<m_read_index, m_readable_words, m_read_words, received, discarded, pc>>
vars == <<mem, f_index, f_used, f_unnotified, written, notified, m_packets,
          m_read_index, m_readable_words, m_read_words, credits, received,
          discarded, pc>>

Stale == -1
Slots == 0 .. size_qw - 1
Steps == {"idle", "read", "reset", "drain", "release", "destroyed"}

\* The slot o places after slot i, and how far slot j lies after slot i.
Slot(i, o)   == IF i + o < size_qw THEN i + o ELSE i + o - size_qw
Offset(i, j) == IF j >= i THEN j - i ELSE j - i + size_qw

-----------------------------------------------------------------------------
(* The FPGA (external).                                                     *)

\* A packet is put unless the ring is nearly full.  The words land in order,
\* and before the notification that announces them.
FpgaPut(n) ==
    /\ pc # "destroyed"
    /\ size_qw - f_used >= Threshold
    /\ written + n <= MaxWords
    /\ mem' = [j \in Slots |-> IF Offset(f_index, j) < n
                               THEN written + Offset(f_index, j) ELSE mem[j]]
    /\ f_index' = Slot(f_index, n)
    /\ f_used' = f_used + n
    /\ f_unnotified' = f_unnotified + n
    /\ written' = written + n
    /\ UNCHANGED <<notified, m_packets, credits, host>>

\* After "frequency" packets or on its timeout the FPGA announces what it put.
FpgaNotify ==
    /\ f_unnotified > 0
    /\ notified' = notified + f_unnotified
    /\ f_unnotified' = 0
    /\ UNCHANGED <<mem, f_index, f_used, written, m_packets, credits, host>>

\* A notification of the host arrives: that many slots are free again.
FpgaCredit(n) ==
    /\ n <= credits
    /\ credits' = credits - n
    /\ f_used' = f_used - n
    /\ UNCHANGED <<mem, f_index, f_unnotified, written, notified, m_packets, host>>

\* The poller thread adds an announcement to its counter.
PollerAdd(n) ==
    /\ n <= notified
    /\ notified' = notified - n
    /\ m_packets' = m_packets + n
    /\ UNCHANGED <<mem, fpga, credits, host>>

-----------------------------------------------------------------------------
(* The host.                                                                *)

\* Faulty variant: the count is not cleared, so words are reported twice.
NotifyWithoutClearing(n) ==
    /\ credits' = credits + n
    /\ UNCHANGED m_read_words

\* notify(), called when m_read_words is n.
Notify(n) ==
    /\ credits' = credits + n
    /\ m_read_words' = 0

\* Faulty variant: the result of consume_packets is dropped.
PollDroppingResult ==
    /\ m_packets' = 0
    /\ UNCHANGED m_readable_words

\* poll(): all the poller has counted, or nothing if its wait times out.
Poll ==
    /\ m_readable_words' = m_readable_words + m_packets
    /\ m_packets' = 0

\* receive() starts.
Receive ==
    /\ pc = "idle"
    /\ Poll
    /\ pc' = "read"
    /\ UNCHANGED <<mem, fpga, notified, m_read_index, m_read_words, credits,
                   received, discarded>>

\* Faulty variants: a loop that tests ">= 0" on an unsigned count, and one that
\* posts before it counts the word.
ReadWordUntested ==
    /\ pc = "read"
    /\ received' = Append(received, mem[m_read_index])
    /\ m_read_index' = (m_read_index + 1) % size_qw
    /\ m_readable_words' = m_readable_words - 1
    /\ m_read_words' = m_read_words + 1
    /\ UNCHANGED <<mem, fpga, notified, m_packets, credits, discarded, pc>>

ReadWordPostingFirst ==
    /\ pc = "read" /\ m_readable_words > 0
    /\ received' = Append(received, mem[m_read_index])
    /\ m_read_index' = (m_read_index + 1) % size_qw
    /\ m_readable_words' = m_readable_words - 1
    /\ IF m_read_words + 1 > num_words_to_notify
       THEN Notify(m_read_words)
       ELSE m_read_words' = m_read_words + 1 /\ UNCHANGED credits
    /\ UNCHANGED <<mem, fpga, notified, m_packets, discarded, pc>>

\* One round of receive()'s loop.
ReadWord ==
    /\ pc = "read" /\ m_readable_words > 0
    /\ received' = Append(received, mem[m_read_index])
    /\ m_read_index' = (m_read_index + 1) % size_qw
    /\ m_readable_words' = m_readable_words - 1
    /\ IF m_read_words + 1 > num_words_to_notify
       THEN Notify(m_read_words + 1)
       ELSE m_read_words' = m_read_words + 1 /\ UNCHANGED credits
    /\ UNCHANGED <<mem, fpga, notified, m_packets, discarded, pc>>

\* Faulty variant: words below the limit are kept back for the next call.
ReturnWithoutNotify ==
    /\ pc = "read" /\ m_readable_words = 0
    /\ pc' = "idle"
    /\ UNCHANGED <<mem, fpga, notified, m_packets, m_read_index,
                   m_readable_words, m_read_words, credits, received, discarded>>

\* The notify() behind the loop; receive() returns.
ReceiveReturns ==
    /\ pc = "read" /\ m_readable_words = 0
    /\ Notify(m_read_words)
    /\ pc' = "idle"
    /\ UNCHANGED <<mem, fpga, notified, m_packets, m_read_index,
                   m_readable_words, received, discarded>>

\* configure_fpga: the write of TraceBufferInit takes effect.  From here on
\* whatever the slots held is stale and words are counted anew.
BufferInit ==
    /\ pc = "idle"
    /\ mem' = [j \in Slots |-> Stale]
    /\ f_index' = 0 /\ f_used' = 0 /\ f_unnotified' = 0 /\ written' = 0
    /\ received' = <<>>
    /\ pc' = "reset"
    /\ UNCHANGED <<notified, m_packets, m_read_index, m_readable_words,
                   m_read_words, credits, discarded>>

\* Faulty variant: the read position survives the reset.
ResetCountersOnly ==
    /\ pc = "reset"
    /\ m_readable_words' = 0 /\ m_read_words' = 0
    /\ pc' = "idle"
    /\ UNCHANGED <<mem, fpga, notified, m_packets, m_read_index, credits,
                   received, discarded>>

\* configure_fpga, later: trace_ring_buffer.reset().
Reset ==
    /\ pc = "reset"
    /\ m_read_index' = 0 /\ m_readable_words' = 0 /\ m_read_words' = 0
    /\ pc' = "idle"
    /\ UNCHANGED <<mem, fpga, notified, m_packets, credits, received, discarded>>

\* ~RingBuffer() starts.
Destroy ==
    /\ pc = "idle"
    /\ pc' = "drain"
    /\ UNCHANGED <<mem, fpga, notified, m_packets, m_read_index,
                   m_readable_words, m_read_words, credits, received, discarded>>

\* while (poll());
DrainPoll ==
    /\ pc = "drain"
    /\ Poll
    /\ pc' = IF m_packets # 0 THEN "drain" ELSE "release"
    /\ UNCHANGED <<mem, fpga, notified, m_read_index, m_read_words, credits,
                   received, discarded>>

\* The rest of the destructor; the region is unregistered and freed.
Release ==
    /\ pc = "release"
    /\ m_read_index' = m_read_index + m_readable_words
    /\ m_readable_words' = 0
    /\ discarded' = discarded + m_readable_words
    /\ Notify(m_read_words)
    /\ pc' = "destroyed"
    /\ UNCHANGED <<mem, fpga, notified, m_packets, received>>

\* ~RingBuffer() of the hicann ring buffer, whose "while (poll());" takes from
\* the same poller what has been announced since.
HicannDrain ==
    /\ pc = "destroyed"
    /\ m_packets' = 0
    /\ discarded' = discarded + m_packets
    /\ UNCHANGED <<mem, fpga, notified, m_read_index, m_readable_words, m_read_words,
                   credits, received, pc>>

-----------------------------------------------------------------------------
\* Right after the first configure_fpga.
Init ==
    /\ mem = [j \in Slots |-> Stale]
    /\ f_index = 0 /\ f_used = 0 /\ f_unnotified = 0 /\ written = 0
    /\ notified = 0 /\ m_packets = 0 /\ credits = 0
    /\ m_read_index = 0 /\ m_readable_words = 0 /\ m_read_words = 0
    /\ received = <<>> /\ discarded = 0
    /\ pc = "idle"

\* Nothing of the current configuration is on the way or in the poller.
Quiet == notified = 0 /\ m_packets = 0 /\ credits = 0

Fpga ==
    \/ \E n \in 1..Packet : FpgaPut(n)
    \/ FpgaNotify
    \/ \E n \in 1..credits : FpgaCredit(n)

Host == Receive \/ ReadWord \/ ReceiveReturns \/ Reset \/ DrainPoll \/ Release
        \/ HicannDrain

Next ==
    \/ Fpga
    \/ \E n \in 1..notified : PollerAdd(n)
    \/ Host
    \/ Quiet /\ BufferInit
    \/ Destroy

Spec == Init /\ [][Next]_vars

\* configure_fpga does not wait for Quiet: as the code has it, the buffer may
\* be initialised again at any time between two calls.
EagerSpec == Init /\ [][Next \/ BufferInit]_vars

\* The FPGA's notification timeout expires, the network and the poller
\* deliver, and the user of the buffer keeps calling receive().
Fairness ==
    /\ WF_vars(FpgaNotify)
    /\ WF_vars(\E n \in 1..credits : FpgaCredit(n))
    /\ WF_vars(\E n \in 1..notified : PollerAdd(n))
    /\ WF_vars(Host)

FairSpec == Spec /\ Fairness

-----------------------------------------------------------------------------
(* Properties.                                                              *)

TypeOK ==
    /\ mem \in [Slots -> Nat \union {Stale}]
    /\ f_index \in Slots /\ f_used \in Int
    /\ f_unnotified \in Nat /\ written \in 0..MaxWords
    /\ notified \in Nat /\ m_packets \in Nat /\ credits \in Nat
    /\ m_read_index \in Nat /\ m_readable_words \in Nat /\ m_read_words \in Nat
    /\ received \in Seq(Nat \union {Stale}) /\ discarded \in Nat
    /\ pc \in Steps

\* The words receive() returns are exactly the words the FPGA sent since the
\* buffer was initialised, each once and in order, also across wrap-arounds.
FifoDelivery == \A i \in 1..Len(received) : received[i] = i - 1

Unread == written - Len(received)

\* Where the host will read next (reset() is still to come in "reset").
ReadPos == IF pc = "reset" THEN 0 ELSE m_read_index

\* No word is overwritten before it is read: every word sent and not yet read
\* is in the slot where receive() will look for it.
BufferIntact ==
    pc # "destroyed" =>
        \A o \in 0 .. Unread - 1 : mem[Slot(ReadPos, o)] = Len(received) + o

\* The FPGA's idea of the occupied slots is what is announced, readable, read
\* but not yet posted, or posted and on the way: no slot is given back twice,
\* and none is lost but those of the words the destructors discard.
CreditConservation ==
    f_used = f_unnotified + notified + m_packets + m_readable_words
             + m_read_words + credits + discarded

\* Every word sent is returned by receive() if the buffer is neither
\* reconfigured nor destroyed first.
Closing == pc \in {"reset", "drain", "release", "destroyed"}
WordsDelivered ==
    \A k \in 1..MaxWords :
        written >= k ~> (Len(received) >= k \/ Closing)

\* An FPGA that stopped because its ring is nearly full always resumes.
NoPermanentStall ==
    size_qw - f_used < Threshold ~> (size_qw - f_used >= Threshold \/ Closing)
=============================================================================

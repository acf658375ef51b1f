--------------------------- MODULE EndpointProofs ---------------------------
(***************************************************************************)
(* Proofs about the life of Endpoints, for every network, every number of    *)
(* failing steps and every use of the send buffer.                           *)
(*                                                                         *)
(* What an Endpoint holds is a function of how far its construction or        *)
(* destruction has come; that each step finds what it uses then depends only  *)
(* on the order of the members and of the steps of each member.              *)
(***************************************************************************)
EXTENDS Endpoint, SendBufferProofs, WellFoundedInduction

Names == {"m_rra", "m_rma", "poller", "buffer", "hicann_ring_buffer",
          "trace_ring_buffer"}

\* Resources of a member after n steps of its constructor, those of a complete
\* member, and those left after n steps of its destructor.
Acquired(m, n) == UNION {Constructor(m)[i].changes : i \in 1 .. n}
Whole(m)       == Acquired(m, Len(Constructor(m)))
Released(m, n) == UNION {Destructor(m)[i].changes : i \in 1 .. n}
Left(m, n)     == Whole(m) \ Released(m, n)

\* What an Endpoint holds while it is built and used, and while it is destroyed.
WholeUpTo(k) == UNION {Whole(Members[i]) : i \in 1 .. k}
Building  == WholeUpTo(built) \union
             (IF built < Len(Members) THEN Acquired(Members[built + 1], step) ELSE {})
Remaining == WholeUpTo(built - 1) \union
             (IF built > 0 THEN Left(Members[built], step) ELSE {})

Position ==
    /\ mode \in {"discover", "idle", "construct", "use", "destroy", "ended"}
    /\ built \in 0 .. Len(Members)
    /\ mode \in {"discover", "idle"} => built = 0 /\ step = 0 /\ ~asked
    /\ mode = "construct" =>
         IF built < Len(Members)
         THEN step \in 0 .. Len(Constructor(Members[built + 1])) - 1 /\ ~asked
         ELSE step = 0
    /\ mode = "use" => built = Len(Members) /\ step = 0
    /\ mode \in {"destroy", "ended"} =>
         IF built > 0 THEN step \in 0 .. Len(Destructor(Members[built])) - 1
         ELSE step = 0

\* The file descriptor of the buffer stays when the buffer is destroyed.
HeldAsBuilt ==
    /\ mode \in {"discover", "idle"} => held = {}
    /\ mode \in {"construct", "use"} => held = Building
    /\ mode \in {"destroy", "ended"} => held \ {PmapFd} = Remaining \ {PmapFd}

\* Only the entry of the Endpoint under construction can still change.
LeaksSettled ==
    /\ failed \in Seq(Names \union {None})
    /\ mode \in {"construct", "use", "destroy"} => failed # <<>>
    /\ \A l \in leaked : /\ l[1] \in 1 .. Len(failed)
                         /\ mode = "construct" => l[1] # Len(failed)

LifeInv == Position /\ HeldAsBuilt /\ LeaksSettled /\ LeaksConfined

-----------------------------------------------------------------------------
(* The members and their steps.                                             *)

LEMMA MemberOrder ==
    /\ Len(Members) = 6
    /\ Members[1] = "m_rra" /\ Members[2] = "m_rma" /\ Members[3] = "poller"
    /\ Members[4] = "buffer" /\ Members[5] = "hicann_ring_buffer"
    /\ Members[6] = "trace_ring_buffer"
  BY DEF Members

LEMMA MemberIndex ==
    /\ \A i \in 1 .. Len(Members) :
         /\ Members[i] \in Names
         /\ i = 1 \/ i = 2 \/ i = 3 \/ i = 4 \/ i = 5 \/ i = 6
    /\ \A i, j \in 1 .. Len(Members) : Members[i] = Members[j] => i = j
<1>1. ASSUME NEW i \in 1 .. Len(Members)
      PROVE  i = 1 \/ i = 2 \/ i = 3 \/ i = 4 \/ i = 5 \/ i = 6
  BY MemberOrder
<1>2. ASSUME NEW i \in 1 .. Len(Members) PROVE Members[i] \in Names
  BY <1>1, MemberOrder DEF Names
<1>3. ASSUME NEW i \in 1 .. Len(Members), NEW j \in 1 .. Len(Members),
             Members[i] = Members[j]
      PROVE  i = j
  BY <1>1, <1>3, MemberOrder
<1> QED BY <1>1, <1>2, <1>3

\* A resource belongs to the member it is named for.
LEMMA Owners ==
    /\ \A m : Port(m)[1] = m /\ Handle(m)[1] = m /\ Memory(m)[1] = m /\ Region(m)[1] = m
    /\ Thread[1] = "poller" /\ Mapping[1] = "buffer" /\ PmapFd[1] = "buffer"
    /\ \A m : Port(m) # Handle(m) /\ Memory(m) # Region(m)
    /\ Mapping # PmapFd
  BY DEF Port, Handle, Memory, Region, Thread, Mapping, PmapFd

LEMMA AcquiredSteps ==
    ASSUME NEW m
    PROVE  /\ Acquired(m, 0) = {}
           /\ \A n \in Nat :
                Acquired(m, n + 1) = Acquired(m, n) \union Constructor(m)[n + 1].changes
<1>1. Acquired(m, 0) = {}
  BY DEF Acquired
<1>2. ASSUME NEW n \in Nat
      PROVE  Acquired(m, n + 1) = Acquired(m, n) \union Constructor(m)[n + 1].changes
  <2>1. 1 .. n + 1 = (1 .. n) \union {n + 1}
    OBVIOUS
  <2> QED BY <2>1 DEF Acquired
<1> QED BY <1>1, <1>2

LEMMA ReleasedSteps ==
    ASSUME NEW m
    PROVE  /\ Released(m, 0) = {}
           /\ \A n \in Nat :
                Released(m, n + 1) = Released(m, n) \union Destructor(m)[n + 1].changes
<1>1. Released(m, 0) = {}
  BY DEF Released
<1>2. ASSUME NEW n \in Nat
      PROVE  Released(m, n + 1) = Released(m, n) \union Destructor(m)[n + 1].changes
  <2>1. 1 .. n + 1 = (1 .. n) \union {n + 1}
    OBVIOUS
  <2> QED BY <2>1 DEF Released
<1> QED BY <1>1, <1>2

\* The same for the numbers of steps there are.
LEMMA FirstAcquired ==
    ASSUME NEW m
    PROVE  /\ Acquired(m, 0) = {}
           /\ Acquired(m, 1) = Acquired(m, 0) \union Constructor(m)[1].changes
           /\ Acquired(m, 2) = Acquired(m, 1) \union Constructor(m)[2].changes
           /\ Acquired(m, 3) = Acquired(m, 2) \union Constructor(m)[3].changes
           /\ Acquired(m, 4) = Acquired(m, 3) \union Constructor(m)[4].changes
           /\ Acquired(m, 5) = Acquired(m, 4) \union Constructor(m)[5].changes
           /\ Acquired(m, 6) = Acquired(m, 5) \union Constructor(m)[6].changes
  BY AcquiredSteps, 0 + 1 = 1, 1 + 1 = 2, 2 + 1 = 3, 3 + 1 = 4, 4 + 1 = 5, 5 + 1 = 6

LEMMA FirstReleased ==
    ASSUME NEW m
    PROVE  /\ Released(m, 0) = {}
           /\ Released(m, 1) = Released(m, 0) \union Destructor(m)[1].changes
           /\ Released(m, 2) = Released(m, 1) \union Destructor(m)[2].changes
           /\ Released(m, 3) = Released(m, 2) \union Destructor(m)[3].changes
           /\ Released(m, 4) = Released(m, 3) \union Destructor(m)[4].changes
  BY ReleasedSteps, 0 + 1 = 1, 1 + 1 = 2, 2 + 1 = 3, 3 + 1 = 4

\* What the steps of a member use of the members declared before it.
Needs(m) == IF m = "poller" THEN {Port("m_rma")}
            ELSE IF m \in {"hicann_ring_buffer", "trace_ring_buffer"}
            THEN {Port("m_rma"), Handle("m_rma"), Thread} ELSE {}

\* The steps of a member acquire and release its own resources; they use these
\* while they are there, and what Needs says; in the end all are released but
\* the file descriptor.
MemberSound(m) ==
    /\ Len(Constructor(m)) \in Nat \ {0} /\ Len(Destructor(m)) \in Nat \ {0}
    /\ \A i \in 1 .. Len(Constructor(m)) : \A r \in Constructor(m)[i].changes : r[1] = m
    /\ \A i \in 1 .. Len(Destructor(m)) : \A r \in Destructor(m)[i].changes : r[1] = m
    /\ \A i \in 1 .. Len(Constructor(m)) :
         Constructor(m)[i].uses \subseteq Acquired(m, i - 1) \union Needs(m)
    /\ \A i \in 1 .. Len(Destructor(m)) :
         Destructor(m)[i].uses \subseteq (Left(m, i - 1) \union Needs(m)) \ {PmapFd}
    /\ Left(m, Len(Destructor(m))) \subseteq {PmapFd}

LEMMA ConnectionSound ==
    ASSUME NEW m \in {"m_rra", "m_rma"}
    PROVE  MemberSound(m) /\ Whole(m) = {Port(m), Handle(m)}
<1>1. Constructor(m) = ConnectionSteps(m) /\ Destructor(m) = CloseConnection(m)
  BY DEF Constructor, Destructor
<1>2. /\ Len(Constructor(m)) = 2
      /\ Constructor(m)[1].uses = {} /\ Constructor(m)[1].changes = {Port(m)}
      /\ Constructor(m)[2].uses = {Port(m)} /\ Constructor(m)[2].changes = {Handle(m)}
  BY <1>1 DEF ConnectionSteps, Do
<1>3. /\ Len(Destructor(m)) = 3
      /\ Destructor(m)[1].uses = {Port(m)} /\ Destructor(m)[1].changes = {}
      /\ Destructor(m)[2].uses = {Port(m), Handle(m)}
      /\ Destructor(m)[2].changes = {Handle(m)}
      /\ Destructor(m)[3].uses = {Port(m)} /\ Destructor(m)[3].changes = {Port(m)}
  BY <1>1 DEF CloseConnection, Do
<1>4. /\ Acquired(m, 0) = {} /\ Acquired(m, 1) = {Port(m)}
      /\ Acquired(m, 2) = {Port(m), Handle(m)}
  BY <1>2, FirstAcquired
<1>5. /\ Released(m, 0) = {} /\ Released(m, 1) = {} /\ Released(m, 2) = {Handle(m)}
      /\ Released(m, 3) = {Handle(m), Port(m)}
  BY <1>3, FirstReleased
<1>6. Whole(m) = {Port(m), Handle(m)}
  BY <1>2, <1>4 DEF Whole
<1>7. Port(m) # PmapFd /\ Handle(m) # PmapFd
  BY Owners
<1>8. \A i \in 1 .. 2 : i = 1 \/ i = 2
  OBVIOUS
<1>9. \A i \in 1 .. 3 : i = 1 \/ i = 2 \/ i = 3
  OBVIOUS
<1>10. 1 - 1 = 0 /\ 2 - 1 = 1 /\ 3 - 1 = 2
  OBVIOUS
<1>11. \A i \in 1 .. Len(Constructor(m)) :
         /\ \A r \in Constructor(m)[i].changes : r[1] = m
         /\ Constructor(m)[i].uses \subseteq Acquired(m, i - 1)
  BY <1>2, <1>4, <1>8, <1>10, Owners
<1>12. Left(m, 0) = {Port(m), Handle(m)} /\ Left(m, 1) = {Port(m), Handle(m)}
       /\ Left(m, 2) = {Port(m)} /\ Left(m, 3) = {}
  BY <1>5, <1>6, Owners DEF Left
<1>13. \A i \in 1 .. Len(Destructor(m)) :
         /\ \A r \in Destructor(m)[i].changes : r[1] = m
         /\ Destructor(m)[i].uses \subseteq Left(m, i - 1) \ {PmapFd}
  BY <1>3, <1>7, <1>9, <1>10, <1>12, Owners
<1> QED BY <1>2, <1>3, <1>6, <1>11, <1>12, <1>13 DEF MemberSound

LEMMA PollerSound == MemberSound("poller") /\ Whole("poller") = {Thread}
<1> DEFINE m == "poller"
<1>1. /\ Len(Constructor(m)) = 1
      /\ Constructor(m)[1].uses = {Port("m_rma")} /\ Constructor(m)[1].changes = {Thread}
  BY DEF Constructor, PollerSteps, Do
<1>2. /\ Len(Destructor(m)) = 1
      /\ Destructor(m)[1].uses = {Thread} /\ Destructor(m)[1].changes = {Thread}
  BY DEF Destructor, StopPoller, Do
<1>3. Acquired(m, 0) = {} /\ Acquired(m, 1) = {Thread}
  BY <1>1, FirstAcquired
<1>4. Released(m, 0) = {} /\ Released(m, 1) = {Thread}
  BY <1>2, FirstReleased
<1>5. Whole(m) = {Thread}
  BY <1>1, <1>3 DEF Whole
<1>6. \A i \in 1 .. 1 : i = 1 /\ i - 1 = 0
  OBVIOUS
<1>7. \A i \in 1 .. Len(Constructor(m)) :
         /\ \A r \in Constructor(m)[i].changes : r[1] = m
         /\ Constructor(m)[i].uses \subseteq Needs(m)
  BY <1>1, <1>6, Owners DEF Needs
<1>8. Left(m, 0) = {Thread} /\ Left(m, 1) = {}
  BY <1>4, <1>5 DEF Left
<1>9. Thread # PmapFd
  BY Owners
<1>10. \A i \in 1 .. Len(Destructor(m)) :
         /\ \A r \in Destructor(m)[i].changes : r[1] = m
         /\ Destructor(m)[i].uses \subseteq Left(m, i - 1) \ {PmapFd}
  BY <1>2, <1>6, <1>8, <1>9, Owners
<1> QED BY <1>1, <1>2, <1>5, <1>7, <1>8, <1>10 DEF MemberSound

LEMMA BufferSound == MemberSound("buffer") /\ Whole("buffer") = {PmapFd, Mapping}
<1> DEFINE m == "buffer"
<1>1. Constructor(m) = PhysicalBufferSteps
  BY DEF Constructor
<1>2. /\ Len(Constructor(m)) = 6
      /\ Constructor(m)[1].uses = {} /\ Constructor(m)[1].changes = {}
      /\ Constructor(m)[2].uses = {} /\ Constructor(m)[2].changes = {PmapFd}
      /\ Constructor(m)[3].uses = {PmapFd} /\ Constructor(m)[3].changes = {}
      /\ Constructor(m)[4].uses = {PmapFd} /\ Constructor(m)[4].changes = {}
      /\ Constructor(m)[5].uses = {PmapFd} /\ Constructor(m)[5].changes = {Mapping}
      /\ Constructor(m)[6].uses = {PmapFd} /\ Constructor(m)[6].changes = {}
  BY <1>1 DEF PhysicalBufferSteps, Do
<1>3. /\ Len(Destructor(m)) = 1
      /\ Destructor(m)[1].uses = {Mapping} /\ Destructor(m)[1].changes = {Mapping}
  BY DEF Destructor, UnmapBuffer, Do
<1>4. /\ Acquired(m, 0) = {} /\ Acquired(m, 1) = {} /\ Acquired(m, 2) = {PmapFd}
      /\ Acquired(m, 3) = {PmapFd} /\ Acquired(m, 4) = {PmapFd}
      /\ Acquired(m, 5) = {PmapFd, Mapping} /\ Acquired(m, 6) = {PmapFd, Mapping}
  BY <1>2, FirstAcquired
<1>5. Released(m, 0) = {} /\ Released(m, 1) = {Mapping}
  BY <1>3, FirstReleased
<1>6. Whole(m) = {PmapFd, Mapping}
  BY <1>2, <1>4 DEF Whole
<1>7. \A i \in 1 .. 6 : i = 1 \/ i = 2 \/ i = 3 \/ i = 4 \/ i = 5 \/ i = 6
  OBVIOUS
<1>8. 1 - 1 = 0 /\ 2 - 1 = 1 /\ 3 - 1 = 2 /\ 4 - 1 = 3 /\ 5 - 1 = 4 /\ 6 - 1 = 5
  OBVIOUS
<1>9. \A i \in 1 .. Len(Constructor(m)) :
         /\ \A r \in Constructor(m)[i].changes : r[1] = m
         /\ Constructor(m)[i].uses \subseteq Acquired(m, i - 1)
  BY <1>2, <1>4, <1>7, <1>8, Owners
<1>10. Left(m, 0) = {PmapFd, Mapping} /\ Left(m, 1) = {PmapFd}
  BY <1>5, <1>6, Owners DEF Left
<1>11. \A i \in 1 .. 1 : i = 1 /\ i - 1 = 0
  OBVIOUS
<1>12. \A i \in 1 .. Len(Destructor(m)) :
         /\ \A r \in Destructor(m)[i].changes : r[1] = m
         /\ Destructor(m)[i].uses \subseteq Left(m, i - 1) \ {PmapFd}
  BY <1>3, <1>10, <1>11, Owners
<1> QED BY <1>2, <1>3, <1>6, <1>9, <1>10, <1>12 DEF MemberSound

LEMMA RingBufferSound ==
    ASSUME NEW m \in {"hicann_ring_buffer", "trace_ring_buffer"}
    PROVE  MemberSound(m) /\ Whole(m) = {Memory(m), Region(m)}
<1>1. Constructor(m) = RingBufferSteps(m) /\ Destructor(m) = CloseRingBuffer(m)
  BY DEF Constructor, Destructor
<1>2. /\ Len(Constructor(m)) = 2
      /\ Constructor(m)[1].uses = {} /\ Constructor(m)[1].changes = {Memory(m)}
      /\ Constructor(m)[2].uses = {Port("m_rma"), Memory(m)}
      /\ Constructor(m)[2].changes = {Region(m)}
  BY <1>1 DEF RingBufferSteps, Do
<1>3. /\ Len(Destructor(m)) = 4
      /\ Destructor(m)[1].uses = {Thread} /\ Destructor(m)[1].changes = {}
      /\ Destructor(m)[2].uses = {Port("m_rma"), Handle("m_rma")}
      /\ Destructor(m)[2].changes = {}
      /\ Destructor(m)[3].uses = {Port("m_rma"), Region(m)}
      /\ Destructor(m)[3].changes = {Region(m)}
      /\ Destructor(m)[4].uses = {Memory(m)} /\ Destructor(m)[4].changes = {Memory(m)}
  BY <1>1 DEF CloseRingBuffer, Do
<1>4. /\ Acquired(m, 0) = {} /\ Acquired(m, 1) = {Memory(m)}
      /\ Acquired(m, 2) = {Memory(m), Region(m)}
  BY <1>2, FirstAcquired
<1>5. /\ Released(m, 0) = {} /\ Released(m, 1) = {} /\ Released(m, 2) = {}
      /\ Released(m, 3) = {Region(m)} /\ Released(m, 4) = {Region(m), Memory(m)}
  BY <1>3, FirstReleased
<1>6. Whole(m) = {Memory(m), Region(m)}
  BY <1>2, <1>4 DEF Whole
<1>7. /\ Memory(m) # PmapFd /\ Region(m) # PmapFd /\ Thread # PmapFd
      /\ Port("m_rma") # PmapFd /\ Handle("m_rma") # PmapFd
  BY Owners
<1>8. Needs(m) = {Port("m_rma"), Handle("m_rma"), Thread}
  BY DEF Needs
<1>9. \A i \in 1 .. 2 : i = 1 \/ i = 2
  OBVIOUS
<1>10. \A i \in 1 .. 4 : i = 1 \/ i = 2 \/ i = 3 \/ i = 4
  OBVIOUS
<1>11. 1 - 1 = 0 /\ 2 - 1 = 1 /\ 3 - 1 = 2 /\ 4 - 1 = 3
  OBVIOUS
<1>12. \A i \in 1 .. Len(Constructor(m)) :
         /\ \A r \in Constructor(m)[i].changes : r[1] = m
         /\ Constructor(m)[i].uses \subseteq Acquired(m, i - 1) \union Needs(m)
  BY <1>2, <1>4, <1>8, <1>9, <1>11, Owners
<1>13. /\ Left(m, 0) = {Memory(m), Region(m)} /\ Left(m, 1) = {Memory(m), Region(m)}
       /\ Left(m, 2) = {Memory(m), Region(m)} /\ Left(m, 3) = {Memory(m)}
       /\ Left(m, 4) = {}
  BY <1>5, <1>6, Owners DEF Left
<1>14. \A i \in 1 .. Len(Destructor(m)) :
         /\ \A r \in Destructor(m)[i].changes : r[1] = m
         /\ Destructor(m)[i].uses \subseteq (Left(m, i - 1) \union Needs(m)) \ {PmapFd}
  BY <1>3, <1>7, <1>8, <1>10, <1>11, <1>13, Owners
<1> QED BY <1>2, <1>3, <1>6, <1>12, <1>13, <1>14 DEF MemberSound

LEMMA AllSound == \A m \in Names : MemberSound(m)
  BY ConnectionSound, PollerSound, BufferSound, RingBufferSound DEF Names

-----------------------------------------------------------------------------
(* What the members hold together.                                          *)

LEMMA WholeUpToSteps ==
    /\ WholeUpTo(0) = {}
    /\ \A k \in Nat : WholeUpTo(k + 1) = WholeUpTo(k) \union Whole(Members[k + 1])
<1>1. WholeUpTo(0) = {}
  BY 1 .. 0 = {} DEF WholeUpTo
<1>2. ASSUME NEW k \in Nat
      PROVE  WholeUpTo(k + 1) = WholeUpTo(k) \union Whole(Members[k + 1])
  <2>1. 1 .. k + 1 = (1 .. k) \union {k + 1}
    OBVIOUS
  <2> QED BY <2>1 DEF WholeUpTo
<1> QED BY <1>1, <1>2

LEMMA OwnResources ==
    ASSUME NEW m \in Names
    PROVE  /\ \A n \in 0 .. Len(Constructor(m)) : \A r \in Acquired(m, n) : r[1] = m
           /\ \A r \in Whole(m) : r[1] = m
           /\ \A n : Left(m, n) \subseteq Whole(m)
<1>1. MemberSound(m)
  BY AllSound
<1>2. ASSUME NEW n \in 0 .. Len(Constructor(m)), NEW r \in Acquired(m, n)
      PROVE  r[1] = m
  <2>1. PICK i \in 1 .. n : r \in Constructor(m)[i].changes
    BY DEF Acquired
  <2>2. i \in 1 .. Len(Constructor(m))
    BY <1>1 DEF MemberSound
  <2> QED BY <1>1, <2>1, <2>2 DEF MemberSound
<1>3. Len(Constructor(m)) \in 0 .. Len(Constructor(m))
  BY <1>1 DEF MemberSound
<1> QED BY <1>2, <1>3 DEF Whole, Left

LEMMA OwnersUpTo ==
    ASSUME NEW k \in 0 .. Len(Members), NEW r \in WholeUpTo(k)
    PROVE  \E i \in 1 .. k : i \in 1 .. Len(Members) /\ r[1] = Members[i]
<1>1. PICK i \in 1 .. k : r \in Whole(Members[i])
  BY DEF WholeUpTo
<1>2. i \in 1 .. Len(Members)
  BY MemberOrder
<1> QED BY <1>1, <1>2, MemberIndex, OwnResources

\* Nothing of a member is among the resources of the members before it.
LEMMA EarlierNotOwn ==
    ASSUME NEW k \in 1 .. Len(Members), NEW r \in WholeUpTo(k - 1)
    PROVE  r[1] # Members[k]
<1>1. k - 1 \in 0 .. Len(Members)
  BY MemberOrder
<1>2. PICK i \in 1 .. k - 1 : i \in 1 .. Len(Members) /\ r[1] = Members[i]
  BY <1>1, OwnersUpTo
<1>3. i # k
  BY <1>2, MemberOrder
<1> QED BY <1>2, <1>3, MemberIndex

\* What a member needs, the members declared before it hold.
LEMMA NeedsHeld ==
    ASSUME NEW k \in 1 .. Len(Members)
    PROVE  Needs(Members[k]) \subseteq WholeUpTo(k - 1)
<1>1. CASE Members[k] \in {"m_rra", "m_rma", "buffer"}
  BY <1>1 DEF Needs
<1>2. CASE Members[k] = "poller"
  <2>1. k = 3
    BY <1>2, MemberOrder, MemberIndex
  <2>2. 2 \in 1 .. k - 1
    BY <2>1
  <2>3. Whole("m_rma") \subseteq WholeUpTo(k - 1)
    BY <2>2, MemberOrder DEF WholeUpTo
  <2> QED BY <1>2, <2>3, ConnectionSound DEF Needs
<1>3. CASE Members[k] \in {"hicann_ring_buffer", "trace_ring_buffer"}
  <2>1. k = 5 \/ k = 6
    BY <1>3, MemberOrder, MemberIndex
  <2>2. 2 \in 1 .. k - 1 /\ 3 \in 1 .. k - 1
    BY <2>1
  <2>3. Whole("m_rma") \subseteq WholeUpTo(k - 1) /\ Whole("poller") \subseteq WholeUpTo(k - 1)
    BY <2>2, MemberOrder DEF WholeUpTo
  <2> QED BY <1>3, <2>3, ConnectionSound, PollerSound DEF Needs
<1> QED BY <1>1, <1>2, <1>3, MemberIndex DEF Names

\* Before the first step of a constructor and of a destructor.
LEMMA AtFirstStep ==
    ASSUME NEW k \in 0 .. Len(Members)
    PROVE  /\ WholeUpTo(k) \union (IF k < Len(Members) THEN Acquired(Members[k + 1], 0) ELSE {})
              = WholeUpTo(k)
           /\ WholeUpTo(k - 1) \union (IF k > 0 THEN Left(Members[k], 0) ELSE {})
              = WholeUpTo(k)
<1>1. \A m : Acquired(m, 0) = {} /\ Left(m, 0) = Whole(m)
  BY AcquiredSteps, ReleasedSteps DEF Left
<1>2. CASE k = 0
  <2>1. 1 .. k = {} /\ 1 .. k - 1 = {} /\ ~(k > 0)
    BY <1>2
  <2>2. WholeUpTo(k) = {} /\ WholeUpTo(k - 1) = {}
    BY <2>1 DEF WholeUpTo
  <2> QED BY <1>1, <2>1, <2>2
<1>3. CASE k > 0
  <2>1. k - 1 \in Nat /\ (k - 1) + 1 = k
    BY <1>3, MemberOrder
  <2>2. WholeUpTo(k) = WholeUpTo(k - 1) \union Whole(Members[k])
    BY <2>1, WholeUpToSteps
  <2> QED BY <1>1, <1>3, <2>2
<1> QED BY <1>2, <1>3, MemberOrder

-----------------------------------------------------------------------------
(* The invariant of the life cycle.                                         *)

\* What a step of the Endpoint leaves alone, by parts of the invariant.
LEMMA LeaksKept ==
    ASSUME LeaksSettled, LeaksConfined, UNCHANGED <<leaked, failed>>,
           mode' # "construct" \/ mode = "construct",
           mode' \in {"construct", "use", "destroy"} =>
             mode \in {"construct", "use", "destroy"}
    PROVE  (LeaksSettled /\ LeaksConfined)'
  BY DEF LeaksSettled, LeaksConfined

LEMMA InitLifeInv == Init => LifeInv
<1> SUFFICES ASSUME Init PROVE LifeInv
  OBVIOUS
<1>1. Position /\ HeldAsBuilt
  BY MemberOrder DEF Init, Position, HeldAsBuilt
<1>2. LeaksSettled /\ LeaksConfined
  BY DEF Init, LeaksSettled, LeaksConfined
<1> QED BY <1>1, <1>2 DEF LifeInv

LEMMA ConstructLifeInv ==
    ASSUME LifeInv, NEW m, Construct(m)
    PROVE  LifeInv'
<1> USE DEF LifeInv
<1> DEFINE ch == Constructor(m)[step + 1].changes
           len == Len(Constructor(m))
<1>1. /\ mode = "construct" /\ mode' = "construct" /\ asked' = asked
      /\ built < Len(Members) /\ m = Members[built + 1]
      /\ held' = held \union ch
      /\ IF step + 1 = len THEN built' = built + 1 /\ step' = 0
                           ELSE step' = step + 1 /\ built' = built
      /\ UNCHANGED <<leaked, failed>>
  BY DEF Construct, Constructing
<1>2. /\ built \in Nat /\ built + 1 \in 1 .. Len(Members) /\ m \in Names
      /\ step \in 0 .. len - 1 /\ ~asked
  BY <1>1, MemberOrder, MemberIndex DEF Position
<1>3. MemberSound(m) /\ len \in Nat /\ step \in Nat
  BY <1>2, AllSound DEF MemberSound
<1>4. held = WholeUpTo(built) \union Acquired(m, step)
  BY <1>1 DEF HeldAsBuilt, Building
<1>5. Acquired(m, step + 1) = Acquired(m, step) \union ch
  BY <1>3, AcquiredSteps
<1>6. (LeaksSettled /\ LeaksConfined)'
  BY <1>1, LeaksKept
<1> HIDE DEF ch
<1>7. CASE step + 1 = len
  <2>1. built' = built + 1 /\ step' = 0 /\ built' \in 0 .. Len(Members)
    BY <1>1, <1>2, <1>7, MemberOrder
  <2>2. Position'
    <3>1. built' < Len(Members) => Members[built' + 1] \in Names
      BY <2>1, MemberOrder, MemberIndex
    <3>2. built' < Len(Members) => 0 \in 0 .. Len(Constructor(Members[built' + 1])) - 1
      BY <3>1, AllSound DEF MemberSound
    <3> QED BY <1>1, <1>2, <2>1, <3>2 DEF Position
  <2>3. held' = WholeUpTo(built')
    BY <1>1, <1>2, <1>4, <1>5, <1>7, <2>1, WholeUpToSteps DEF Whole
  <2>4. HeldAsBuilt'
    BY <1>1, <2>1, <2>3, AtFirstStep DEF HeldAsBuilt, Building
  <2> QED BY <1>6, <2>2, <2>4
<1>8. CASE step + 1 # len
  <2>1. step' = step + 1 /\ built' = built
    BY <1>1, <1>8
  <2>2. step' \in 0 .. len - 1
    BY <1>2, <1>3, <1>8, <2>1
  <2>3. Position'
    BY <1>1, <1>2, <2>1, <2>2 DEF Position
  <2>4. HeldAsBuilt'
    BY <1>1, <1>4, <1>5, <2>1 DEF HeldAsBuilt, Building
  <2> QED BY <1>6, <2>3, <2>4
<1> QED BY <1>7, <1>8

\* The destructor of the last complete member can start.
LEMMA DestructionStarts ==
    ASSUME built' \in 0 .. Len(Members), step' = 0, mode' \in {"destroy", "ended"},
           held' \ {PmapFd} = WholeUpTo(built') \ {PmapFd}
    PROVE  (Position /\ HeldAsBuilt)'
<1>1. built' > 0 => built' \in 1 .. Len(Members)
  BY MemberOrder
<1>2. built' > 0 => Members[built'] \in Names
  BY <1>1, MemberIndex
<1>3. built' > 0 => 0 \in 0 .. Len(Destructor(Members[built'])) - 1
  BY <1>2, AllSound DEF MemberSound
<1>4. Position'
  BY <1>3 DEF Position
<1>5. HeldAsBuilt'
  BY AtFirstStep DEF HeldAsBuilt, Remaining
<1> QED BY <1>4, <1>5

LEMMA ThrowLifeInv ==
    ASSUME LifeInv, NEW m, Throw(m)
    PROVE  LifeInv'
<1> USE DEF LifeInv
<1> DEFINE own == {r \in held : r[1] = m}
           last == Len(failed)
<1>1. /\ mode = "construct" /\ mode' = "destroy" /\ built' = built /\ step' = 0
      /\ built < Len(Members) /\ m = Members[built + 1]
      /\ held' = held \ own
      /\ leaked' = leaked \union {<<last, r>> : r \in own}
      /\ failed' = [failed EXCEPT ![last] = m]
  BY DEF Throw, Constructing
<1>2. /\ built \in 0 .. Len(Members) /\ built + 1 \in 1 .. Len(Members) /\ m \in Names
      /\ step \in 0 .. Len(Constructor(m)) - 1 /\ (built + 1) - 1 = built
  BY <1>1, MemberOrder, MemberIndex DEF Position
<1>3. held = WholeUpTo(built) \union Acquired(m, step)
  BY <1>1 DEF HeldAsBuilt, Building
<1>4. step \in 0 .. Len(Constructor(m))
  BY <1>2, AllSound DEF MemberSound
<1>5. \A r \in WholeUpTo(built) : r[1] # m
  BY <1>1, <1>2, EarlierNotOwn
<1>6. held' = WholeUpTo(built')
  BY <1>1, <1>2, <1>3, <1>4, <1>5, OwnResources
<1>7. (Position /\ HeldAsBuilt)'
  BY <1>1, <1>2, <1>6, DestructionStarts
<1>8. last \in Nat \ {0} /\ failed \in Seq(Names \union {None}) /\ last \in 1 .. last
  BY <1>1 DEF LeaksSettled
<1>9. /\ failed' \in Seq(Names \union {None}) /\ Len(failed') = last
      /\ failed'[last] = m /\ \A k \in 1 .. last : k # last => failed'[k] = failed[k]
  BY <1>1, <1>2, <1>8
<1>10. \A l \in leaked : l[1] \in 1 .. last /\ l[1] # last
  BY <1>1 DEF LeaksSettled
<1>11. \A r \in own : <<last, r>>[1] = last /\ <<last, r>>[2] = r /\ r[1] = m
  OBVIOUS
<1> HIDE DEF own, last
<1>12. LeaksSettled'
  <2>1. failed' # <<>>
    BY <1>8, <1>9
  <2>2. \A l \in leaked' : l[1] \in 1 .. Len(failed')
    BY <1>1, <1>8, <1>9, <1>10, <1>11
  <2> QED BY <1>1, <1>9, <2>1, <2>2 DEF LeaksSettled
<1>13. LeaksConfined'
  <2> SUFFICES ASSUME NEW l \in leaked'
               PROVE  l[2] = PmapFd \/ l[2][1] = failed'[l[1]]
    BY DEF LeaksConfined
  <2>1. CASE l \in leaked
    BY <1>9, <1>10, <2>1 DEF LeaksConfined
  <2>2. CASE l \in {<<last, r>> : r \in own}
    <3>1. PICK r \in own : l = <<last, r>>
      BY <2>2
    <3> QED BY <1>9, <1>11, <3>1
  <2> QED BY <1>1, <2>1, <2>2
<1> QED BY <1>7, <1>12, <1>13

LEMMA DestructLifeInv ==
    ASSUME LifeInv, NEW m, Destruct(m)
    PROVE  LifeInv'
<1> USE DEF LifeInv
<1> DEFINE ch == Destructor(m)[step + 1].changes
           len == Len(Destructor(m))
<1>1. /\ mode = "destroy" /\ mode' = "destroy"
      /\ built > 0 /\ m = Members[built]
      /\ held' = held \ ch
      /\ IF step + 1 = len THEN built' = built - 1 /\ step' = 0
                           ELSE step' = step + 1 /\ built' = built
      /\ UNCHANGED <<leaked, failed>>
  BY DEF Destruct, Destroying
<1>2. /\ built \in 1 .. Len(Members) /\ built - 1 \in 0 .. Len(Members)
      /\ step \in 0 .. len - 1
  BY <1>1, MemberOrder DEF Position
<1>3. m \in Names /\ MemberSound(m)
  BY <1>1, <1>2, MemberIndex, AllSound
<1>4. len \in Nat /\ step \in Nat /\ step + 1 \in 1 .. len
  BY <1>2, <1>3 DEF MemberSound
<1>5. \A r \in ch : r[1] = m
  BY <1>3, <1>4 DEF MemberSound
<1>6. \A r \in WholeUpTo(built - 1) : r \notin ch
  BY <1>1, <1>2, <1>5, EarlierNotOwn
<1>7. held \ {PmapFd} = (WholeUpTo(built - 1) \union Left(m, step)) \ {PmapFd}
  BY <1>1 DEF HeldAsBuilt, Remaining
<1>8. Left(m, step + 1) = Left(m, step) \ ch
  BY <1>4, ReleasedSteps DEF Left
<1> HIDE DEF ch
<1>9. held' \ {PmapFd} = (WholeUpTo(built - 1) \union Left(m, step + 1)) \ {PmapFd}
  BY <1>1, <1>6, <1>7, <1>8
<1>10. (LeaksSettled /\ LeaksConfined)'
  BY <1>1, LeaksKept
<1>11. CASE step + 1 = len
  <2>1. built' = built - 1 /\ step' = 0
    BY <1>1, <1>11
  <2>2. Left(m, step + 1) \subseteq {PmapFd}
    BY <1>3, <1>11 DEF MemberSound
  <2>3. held' \ {PmapFd} = WholeUpTo(built') \ {PmapFd}
    BY <1>9, <2>1, <2>2
  <2> QED BY <1>1, <1>2, <1>10, <2>1, <2>3, DestructionStarts
<1>12. CASE step + 1 # len
  <2>1. step' = step + 1 /\ built' = built
    BY <1>1, <1>12
  <2>2. step' \in 0 .. len - 1
    BY <1>2, <1>4, <1>12, <2>1
  <2>3. Position'
    BY <1>1, <1>2, <2>1, <2>2 DEF Position
  <2>4. HeldAsBuilt'
    BY <1>1, <1>9, <2>1 DEF HeldAsBuilt, Remaining
  <2> QED BY <1>10, <2>3, <2>4
<1> QED BY <1>11, <1>12

\* The object is gone: only the file descriptor can still be held.
LEMMA GoneLifeInv ==
    ASSUME LifeInv, Gone
    PROVE  LifeInv'
<1> USE DEF LifeInv
<1>1. /\ mode = "destroy" /\ mode' = "idle" /\ built = 0 /\ built' = 0 /\ step' = step
      /\ held' = {} /\ failed' = failed /\ ~asked'
      /\ leaked' = leaked \union {<<Len(failed), r>> : r \in held}
  BY DEF Gone
<1>2. held \subseteq {PmapFd}
  <2>1. held \ {PmapFd} = WholeUpTo(0 - 1) \ {PmapFd}
    BY <1>1 DEF HeldAsBuilt, Remaining
  <2>2. WholeUpTo(0 - 1) = {}
    BY 1 .. 0 - 1 = {} DEF WholeUpTo
  <2> QED BY <2>1, <2>2
<1>3. Position' /\ HeldAsBuilt'
  BY <1>1 DEF Position, HeldAsBuilt
<1>4. Len(failed) \in 1 .. Len(failed)
  BY <1>1 DEF LeaksSettled
<1>5. \A l \in leaked' \ leaked : l[1] = Len(failed) /\ l[2] = PmapFd
  BY <1>1, <1>2
<1>6. LeaksSettled'
  BY <1>1, <1>4, <1>5 DEF LeaksSettled
<1>7. LeaksConfined'
  BY <1>1, <1>5 DEF LeaksConfined
<1> QED BY <1>3, <1>6, <1>7

\* Steps that neither build nor destroy anything.
LEMMA OtherLifeInv ==
    ASSUME LifeInv,
           \/ Discover \/ NoNode \/ Connect \/ PostPing \/ PingAnswered
           \/ PingProbeError \/ PingFails \/ LateAnswer \/ RraRead \/ Write \/ Send
           \/ CardFetches \/ Destroy \/ Abort \/ UNCHANGED vars
    PROVE  LifeInv'
<1> USE DEF LifeInv
<1>1. CASE Discover \/ NoNode
  <2>1. /\ mode \in {"discover", "idle"} /\ mode' \in {"discover", "idle", "ended"}
        /\ UNCHANGED <<built, step, held, leaked, failed, asked>>
    BY <1>1 DEF Discover, NoNode
  <2>2. built = 0 /\ step = 0 /\ held = {} /\ ~asked
    BY <2>1 DEF Position, HeldAsBuilt
  <2>3. WholeUpTo(0) = {} /\ 0 \in 0 .. Len(Members)
    BY WholeUpToSteps, MemberOrder
  <2>4. CASE mode' \in {"discover", "idle"}
    <3>1. Position' /\ HeldAsBuilt'
      BY <2>1, <2>2, <2>3, <2>4 DEF Position, HeldAsBuilt
    <3> QED BY <2>1, <2>4, <3>1, LeaksKept
  <2>5. CASE mode' = "ended"
    <3>1. Position' /\ HeldAsBuilt'
      BY <2>1, <2>2, <2>3, <2>5, DestructionStarts
    <3> QED BY <2>1, <2>5, <3>1, LeaksKept
  <2> QED BY <2>1, <2>4, <2>5
<1>2. CASE Connect
  <2>1. /\ mode = "idle" /\ mode' = "construct" /\ UNCHANGED <<built, step, held, leaked, asked>>
        /\ failed' = Append(failed, None)
    BY <1>2 DEF Connect
  <2>2. built = 0 /\ step = 0 /\ held = {} /\ ~asked
    BY <2>1 DEF Position, HeldAsBuilt
  <2>3. WholeUpTo(0) = {} /\ 0 \in 0 .. Len(Members) /\ 0 < Len(Members)
        /\ Members[0 + 1] \in Names
    BY WholeUpToSteps, MemberOrder, MemberIndex
  <2>4. 0 \in 0 .. Len(Constructor(Members[0 + 1])) - 1
    BY <2>3, AllSound DEF MemberSound
  <2>5. Position'
    BY <2>1, <2>2, <2>3, <2>4 DEF Position
  <2>6. HeldAsBuilt'
    BY <2>1, <2>2, <2>3, AtFirstStep DEF HeldAsBuilt, Building
  <2>7. /\ failed' \in Seq(Names \union {None}) /\ Len(failed') = Len(failed) + 1
        /\ Len(failed) \in Nat /\ \A k \in 1 .. Len(failed) : failed'[k] = failed[k]
    BY <2>1 DEF LeaksSettled
  <2>8. LeaksSettled'
    BY <2>1, <2>7 DEF LeaksSettled
  <2>9. LeaksConfined'
    BY <2>1, <2>7 DEF LeaksSettled, LeaksConfined
  <2> QED BY <2>5, <2>6, <2>8, <2>9
<1>3. CASE PostPing \/ PingAnswered \/ PingProbeError
  <2>1. /\ mode = "construct" /\ mode' \in {"construct", "use"}
        /\ UNCHANGED <<built, step, held, leaked, failed>>
        /\ built = Len(Members) \/ asked
    BY <1>3 DEF PostPing, PingAnswered, PingProbeError
  <2>2. built = Len(Members) /\ step = 0
    BY <2>1, MemberOrder DEF Position
  <2>3. Position' /\ HeldAsBuilt'
    BY <2>1, <2>2, MemberOrder DEF Position, HeldAsBuilt, Building
  <2> QED BY <2>1, <2>3, LeaksKept
<1>4. CASE PingFails \/ Destroy
  <2>1. /\ mode \in {"construct", "use"} /\ mode' = "destroy"
        /\ UNCHANGED <<built, step, held, leaked, failed>>
        /\ mode = "construct" => asked
    BY <1>4 DEF PingFails, Destroy
  <2>2. built = Len(Members) /\ step = 0 /\ built \in 0 .. Len(Members)
    BY <2>1, MemberOrder DEF Position
  <2>3. held = WholeUpTo(built)
    BY <2>1, <2>2, AtFirstStep DEF HeldAsBuilt, Building
  <2> QED BY <2>1, <2>2, <2>3, DestructionStarts, LeaksKept
<1>5. CASE Abort
  <2>1. /\ mode = "destroy" /\ mode' = "ended" /\ step = 0
        /\ UNCHANGED <<built, step, held, leaked, failed>>
    BY <1>5 DEF Abort, Destroying
  <2>2. Position' /\ HeldAsBuilt'
    BY <2>1 DEF Position, HeldAsBuilt, Remaining
  <2> QED BY <2>1, <2>2, LeaksKept
<1>6. CASE LateAnswer
  <2>1. /\ mode \in {"use", "destroy"}
        /\ UNCHANGED <<mode, built, step, held, leaked, failed>>
    BY <1>6 DEF LateAnswer
  <2>2. Position' /\ HeldAsBuilt'
    BY <2>1 DEF Position, HeldAsBuilt, Building, Remaining
  <2> QED BY <2>1, <2>2, LeaksKept
<1>7. CASE RraRead \/ Write \/ Send \/ CardFetches \/ UNCHANGED vars
  <2>1. UNCHANGED <<mode, built, step, held, leaked, failed, asked>>
    BY <1>7 DEF RraRead, Write, Send, CardFetches, lifeVars, vars
  <2>2. Position' /\ HeldAsBuilt'
    BY <2>1 DEF Position, HeldAsBuilt, Building, Remaining
  <2> QED BY <2>1, <2>2, LeaksKept
<1> QED BY <1>1, <1>2, <1>3, <1>4, <1>5, <1>6, <1>7

LEMMA NextLifeInv == LifeInv /\ [Next]_vars => LifeInv'
  BY ConstructLifeInv, ThrowLifeInv, DestructLifeInv, GoneLifeInv, OtherLifeInv DEF Next

\* In every state of the invariant, the next step finds what it uses.
LEMMA LifeInvUses == LifeInv => UsesOnlyLive
<1> SUFFICES ASSUME LifeInv PROVE UsesOnlyLive
  OBVIOUS
<1> USE DEF LifeInv
<1>1. ASSUME NEW m, Constructing(m)
      PROVE  Constructor(m)[step + 1].uses \subseteq held
  <2>1. /\ mode = "construct" /\ built < Len(Members) /\ m = Members[built + 1]
        /\ built + 1 \in 1 .. Len(Members) /\ (built + 1) - 1 = built
    BY <1>1, MemberOrder DEF Constructing, Position
  <2>2. m \in Names /\ MemberSound(m) /\ step \in 0 .. Len(Constructor(m)) - 1
    BY <2>1, MemberIndex, AllSound DEF Position
  <2>3. step + 1 \in 1 .. Len(Constructor(m)) /\ (step + 1) - 1 = step
    BY <2>2 DEF MemberSound
  <2>4. Constructor(m)[step + 1].uses \subseteq Acquired(m, step) \union Needs(m)
    BY <2>2, <2>3 DEF MemberSound
  <2>5. Needs(m) \subseteq WholeUpTo(built)
    BY <2>1, NeedsHeld
  <2>6. held = WholeUpTo(built) \union Acquired(m, step)
    BY <2>1 DEF HeldAsBuilt, Building
  <2> QED BY <2>4, <2>5, <2>6
<1>2. ASSUME NEW m, Destroying(m)
      PROVE  Destructor(m)[step + 1].uses \subseteq held
  <2>1. /\ mode = "destroy" /\ built > 0 /\ m = Members[built]
        /\ built \in 1 .. Len(Members)
    BY <1>2, MemberOrder DEF Destroying, Position
  <2>2. m \in Names /\ MemberSound(m) /\ step \in 0 .. Len(Destructor(m)) - 1
    BY <2>1, MemberIndex, AllSound DEF Position
  <2>3. step + 1 \in 1 .. Len(Destructor(m)) /\ (step + 1) - 1 = step
    BY <2>2 DEF MemberSound
  <2>4. Destructor(m)[step + 1].uses \subseteq (Left(m, step) \union Needs(m)) \ {PmapFd}
    BY <2>2, <2>3 DEF MemberSound
  <2>5. Needs(m) \subseteq WholeUpTo(built - 1)
    BY <2>1, NeedsHeld
  <2>6. held \ {PmapFd} = (WholeUpTo(built - 1) \union Left(m, step)) \ {PmapFd}
    BY <2>1 DEF HeldAsBuilt, Remaining
  <2> QED BY <2>4, <2>5, <2>6
<1>3. ASSUME Thread \in held PROVE Port("m_rma") \in held
  <2>1. Thread # PmapFd /\ Port("m_rma") # PmapFd /\ Port("m_rma") \in Whole(Members[2])
    BY Owners, ConnectionSound, MemberOrder
  <2>2. ASSUME NEW i \in 1 .. Len(Members), Thread[1] = Members[i] PROVE i = 3
    BY <2>2, Owners, MemberOrder, MemberIndex
  <2>3. ASSUME NEW k \in 0 .. Len(Members), k >= 2 PROVE Port("m_rma") \in WholeUpTo(k)
    <3>1. 2 \in 1 .. k
      BY <2>3
    <3> QED BY <2>1, <3>1 DEF WholeUpTo
  <2>4. ASSUME NEW k \in 0 .. Len(Members), Thread \in WholeUpTo(k) PROVE k >= 3
    <3>1. PICK i \in 1 .. k : i \in 1 .. Len(Members) /\ Thread[1] = Members[i]
      BY <2>4, OwnersUpTo
    <3>2. i = 3
      BY <2>2, <3>1
    <3> QED BY <3>2
  <2>5. built \in 0 .. Len(Members) /\ built \in Nat
    BY MemberOrder DEF Position
  <2>6. CASE mode \in {"construct", "use"}
    <3>1. held = Building
      BY <2>6 DEF HeldAsBuilt
    <3>2. CASE Thread \in WholeUpTo(built)
      BY <2>3, <2>4, <2>5, <3>1, <3>2, MemberOrder DEF Building
    <3>3. CASE built < Len(Members) /\ Thread \in Acquired(Members[built + 1], step)
      <4>1. mode = "construct" /\ built + 1 \in 1 .. Len(Members)
        BY <2>5, <2>6, <3>3, MemberOrder DEF Position
      <4>2. Members[built + 1] \in Names
            /\ step \in 0 .. Len(Constructor(Members[built + 1])) - 1
        BY <3>3, <4>1, MemberIndex DEF Position
      <4>3. step \in 0 .. Len(Constructor(Members[built + 1]))
        BY <4>2, AllSound DEF MemberSound
      <4>4. Thread[1] = Members[built + 1]
        BY <3>3, <4>2, <4>3, OwnResources
      <4>5. built = 2
        BY <2>2, <2>5, <4>1, <4>4
      <4> QED BY <2>3, <2>5, <3>1, <4>5 DEF Building
    <3> QED BY <1>3, <3>1, <3>2, <3>3 DEF Building
  <2>7. CASE mode \in {"destroy", "ended"}
    <3>1. held \ {PmapFd} = Remaining \ {PmapFd}
      BY <2>7 DEF HeldAsBuilt
    <3>2. Thread \in Remaining
      BY <1>3, <2>1, <3>1
    <3>3. built > 0
      <4>1. ~(built > 0) => WholeUpTo(built - 1) = {}
        <5>1. ~(built > 0) => 1 .. built - 1 = {}
          BY <2>5
        <5> QED BY <5>1 DEF WholeUpTo
      <4> QED BY <3>2, <4>1 DEF Remaining
    <3>4. built \in 1 .. Len(Members) /\ built - 1 \in 0 .. Len(Members)
      BY <2>5, <3>3, MemberOrder
    <3>5. built >= 3
      <4>1. CASE Thread \in WholeUpTo(built - 1)
        BY <2>4, <3>4, <4>1, MemberOrder
      <4>2. CASE Thread \in Left(Members[built], step)
        <5>1. Thread[1] = Members[built]
          BY <3>4, <4>2, MemberIndex, OwnResources
        <5> QED BY <2>2, <3>4, <5>1, MemberOrder
      <4> QED BY <3>2, <3>3, <4>1, <4>2 DEF Remaining
    <3>6. Port("m_rma") \in WholeUpTo(built - 1)
      BY <2>3, <3>4, <3>5, MemberOrder
    <3> QED BY <2>1, <3>1, <3>6 DEF Remaining
  <2>8. CASE mode \in {"discover", "idle"}
    BY <1>3, <2>8 DEF HeldAsBuilt
  <2> QED BY <2>6, <2>7, <2>8 DEF Position
<1> QED BY <1>1, <1>2, <1>3 DEF UsesOnlyLive

-----------------------------------------------------------------------------
LEMMA LifeInvariant == Spec => []LifeInv
  BY InitLifeInv, NextLifeInv, PTL DEF Spec

\* Every step of a constructor or destructor, also after a constructor that
\* threw, and the poller thread use only what is acquired and not released.
THEOREM UsesLive == Spec => []UsesOnlyLive
  BY LifeInvariant, LifeInvUses, PTL

\* An Endpoint leaves behind no more than the file descriptor of its buffer and
\* what the member acquired whose constructor threw.
THEOREM Leaks == Spec => []LeaksConfined
  BY LifeInvariant, PTL DEF LifeInv

LEMMA NextSendInv == SendInv /\ [Next]_vars => SendInv'
<1> SUFFICES ASSUME SendInv, [Next]_vars PROVE SendInv'
  OBVIOUS
<1>1. CASE UNCHANGED sendVars
  BY <1>1, UnchangedSendInv
<1>2. CASE Remap
  BY <1>2, RemapSendInv
<1>3. CASE PutAnswer
  BY <1>3, PutAnswerSendInv
<1>4. CASE Fetch
  BY <1>4, FetchSendInv
<1>5. CASE Write
  BY <1>5, WriteSendInv DEF Write
<1>6. CASE Send
  BY <1>6, RmaSendInv DEF Send
<1>7. \/ UNCHANGED sendVars \/ Remap \/ PutAnswer \/ Fetch \/ Write \/ Send
  BY DEF Next, vars, Discover, NoNode, Connect, Construct, Throw, Destruct, PostPing,
     PingAnswered, PingProbeError, PingFails, LateAnswer, RraRead, CardFetches,
     Destroy, Abort, Gone
<1> QED BY <1>1, <1>2, <1>3, <1>4, <1>5, <1>6, <1>7

\* Each put delivers the words of the send buffer at the time of rma_send,
\* unless the user wrote one of them before the card had fetched it.
THEOREM SnapshotSent == Spec => []SendsSnapshot
<1>1. Init => SendInv
  BY InitSendInv DEF Init
<1> QED BY <1>1, NextSendInv, PTL DEF Spec, SendInv

-----------------------------------------------------------------------------
(* Discovery.                                                               *)

\* Whether the link of the entry at p is up.
Up(p) == check_is_fpga(EntryId(p), input.status)

SearchType ==
    /\ input.lines \in Seq(Seq(Int)) /\ line \in Nat \ {0}
    /\ output \in Seq(Int) /\ pos \in 0 .. Len(output)
    /\ node_ids \in Seq(Nat) /\ checked \in 0 .. Len(node_ids) /\ nodes \in Seq(Nat)

\* The scan has found all entries before pos, and every '[' before pos is
\* closed: the one at pos is not inside of another entry.
Scanned ==
    IF pos = npos THEN Lists(node_ids, Entries)
    ELSE /\ output[pos] = Open
         /\ \A q \in 1 .. pos - 1 :
              output[q] = Open => \E s \in q + 1 .. pos - 1 : output[s] = Bar
         /\ Lists(node_ids, {p \in Entries : p < pos})

\* Of the entries, those already checked whose link is up are kept.
Kept ==
    \E at \in [1 .. Len(node_ids) -> 1 .. Len(output)] :
        /\ Enumerates(at, node_ids, Entries)
        /\ Lists(nodes, {p \in Entries : Up(p) /\ \E i \in 1 .. checked : p = at[i]})

Found ==
    /\ phase \in {"read", "scan"} => checked = 0 /\ nodes = <<>>
    /\ phase = "read" => node_ids = <<>>
    /\ phase = "scan" => Scanned
    /\ phase \in {"check", "done"} => Kept
    /\ phase = "done" => checked = Len(node_ids)

SearchInv ==
    mode \in {"discover", "idle"} /\ failed = <<>> =>
        SearchType /\ Found /\ (mode = "idle" => phase = "done")

\* A set of natural numbers has a least element.
LEMMA LeastElement ==
    ASSUME NEW S, S \subseteq Nat, S # {}
    PROVE  \E i \in S : \A j \in S : i <= j
<1> DEFINE R == {ss \in Nat \X Nat : ss[1] < ss[2]}
<1>1. IsWellFoundedOn(R, Nat)
  BY NatLessThanWellFounded, Zenon DEF OpToRel
<1>2. PICK i \in S : \A j \in S : ~(<<j, i>> \in R)
  <2> HIDE DEF R
  <2> QED BY <1>1, WFMin
<1>3. ASSUME NEW j \in S PROVE i <= j
  <2>1. i \in Nat /\ j \in Nat
    OBVIOUS
  <2>2. j < i => <<j, i>> \in R
    BY <2>1
  <2> QED BY <1>2, <2>1, <2>2
<1> QED BY <1>3

LEMMA FindFirst ==
    ASSUME output \in Seq(Int), NEW token, NEW from \in Nat \ {0}
    PROVE  LET f == find_first_of(token, from) IN
           \/ /\ f = npos
              /\ \A i \in from .. Len(output) : output[i] # token
           \/ /\ f \in from .. Len(output) /\ f # npos
              /\ output[f] = token
              /\ \A i \in from .. f - 1 : output[i] # token
<1> DEFINE S == {i \in from .. Len(output) : output[i] = token}
<1>1. CASE S = {}
  BY <1>1 DEF find_first_of
<1>2. CASE S # {}
  <2>1. S \subseteq Nat
    OBVIOUS
  <2>2. \E i \in S : \A j \in S : i <= j
    BY <1>2, <2>1, LeastElement
  <2> DEFINE f == CHOOSE i \in S : \A j \in S : i <= j
  <2>3. f \in S /\ \A j \in S : f <= j
    BY <2>2
  <2>4. find_first_of(token, from) = f
    BY <1>2 DEF find_first_of
  <2> HIDE DEF f
  <2>5. f \in from .. Len(output) /\ f # npos /\ output[f] = token
    BY <2>3 DEF npos
  <2>6. ASSUME NEW i \in from .. f - 1 PROVE output[i] # token
    BY <2>3, <2>5
  <2> QED BY <2>4, <2>5, <2>6
<1> QED BY <1>1, <1>2

\* One more entry behind the ones listed.
LEMMA ListsAppend ==
    ASSUME output \in Seq(Int), NEW ids \in Seq(Nat), NEW E, Lists(ids, E),
           NEW p \in 1 .. Len(output), \A q \in E : q < p
    PROVE  Lists(Append(ids, EntryId(p)), E \union {p})
<1>1. PICK at \in [1 .. Len(ids) -> 1 .. Len(output)] : Enumerates(at, ids, E)
  BY DEF Lists
<1> DEFINE n   == Len(ids)
           ids2 == Append(ids, EntryId(p))
           at2 == [i \in 1 .. n + 1 |-> IF i <= n THEN at[i] ELSE p]
<1>2. n \in Nat /\ Len(ids2) = n + 1 /\ ids2[n + 1] = EntryId(p)
      /\ \A i \in 1 .. n : ids2[i] = ids[i]
  OBVIOUS
<1>3. at2 \in [1 .. n + 1 -> 1 .. Len(output)] /\ at2[n + 1] = p
      /\ \A i \in 1 .. n : at2[i] = at[i]
  BY <1>2
<1>4. \A i \in 1 .. n : at[i] \in E /\ at[i] < p
  BY <1>1 DEF Enumerates
<1> HIDE DEF ids2, at2, n
<1>5. \A i : i \in 1 .. n + 1 <=> i \in 1 .. n \/ i = n + 1
  <2>1. n \in Nat
    BY <1>2
  <2> QED BY <2>1
<1>6. \A i, j \in 1 .. n + 1 : i < j => at2[i] < at2[j]
  <2> SUFFICES ASSUME NEW i \in 1 .. n + 1, NEW j \in 1 .. n + 1, i < j
               PROVE  at2[i] < at2[j]
    OBVIOUS
  <2>1. i \in 1 .. n
    BY <1>2
  <2>2. CASE j = n + 1
    BY <1>3, <1>4, <2>1, <2>2
  <2>3. CASE j \in 1 .. n
    BY <1>1, <1>3, <2>1, <2>3 DEF Enumerates, n
  <2> QED BY <1>2, <2>2, <2>3
<1>7. {at2[i] : i \in 1 .. n + 1} = E \union {p}
  <2>1. {at[i] : i \in 1 .. n} = E
    BY <1>1 DEF Enumerates, n
  <2> QED BY <1>3, <1>5, <2>1
<1>8. \A i \in 1 .. n + 1 : ids2[i] = EntryId(at2[i])
  <2>1. \A i \in 1 .. n : ids[i] = EntryId(at[i])
    BY <1>1 DEF Enumerates, n
  <2> QED BY <1>2, <1>3, <1>5, <2>1
<1>9. Lists(ids2, E \union {p})
  BY <1>2, <1>3, <1>6, <1>7, <1>8 DEF Lists, Enumerates
<1> QED BY <1>9 DEF ids2

\* No entries have an empty list.
LEMMA ListsNone == Lists(<<>>, {})
<1> DEFINE none == [i \in 1 .. 0 |-> 1]
<1>1. none \in [1 .. Len(<<>>) -> 1 .. Len(output)]
  OBVIOUS
<1>2. Enumerates(none, <<>>, {})
  BY DEF Enumerates
<1> QED BY <1>1, <1>2 DEF Lists

\* What the scan has found is still so while the output stays.
LEMMA ScannedAfter ==
    ASSUME output' = output,
           IF pos' = npos THEN Lists(node_ids', Entries)
           ELSE /\ output[pos'] = Open
                /\ \A q \in 1 .. pos' - 1 :
                     output[q] = Open => \E s \in q + 1 .. pos' - 1 : output[s] = Bar
                /\ Lists(node_ids', {p \in Entries : p < pos'})
    PROVE  Scanned'
<1>1. Entries' = Entries
  BY DEF Entries, Open, Bar
<1>2. CASE pos' = npos
  BY <1>1, <1>2 DEF Scanned, Lists, Enumerates, EntryId, npos
<1>3. CASE pos' # npos
  BY <1>1, <1>3 DEF Scanned, Lists, Enumerates, EntryId, npos, Open, Bar
<1> QED BY <1>2, <1>3

LEMMA EntryIsOpen ==
    \A p \in Entries : p \in 1 .. Len(output) /\ output[p] = Open
BY DEF Entries

\* The first '[' is not inside of an entry.
LEMMA EndOfOutputFound ==
    ASSUME SearchType, Found, EndOfOutput
    PROVE  SearchType' /\ Found'
<1>1. output' = output /\ node_ids' = <<>> /\ pos' = find_first_of(Open, 1)
      /\ output \in Seq(Int)
  BY DEF EndOfOutput, SearchType, Found
<1>2. \/ pos' = npos /\ \A i \in 1 .. Len(output) : output[i] # Open
      \/ /\ pos' \in 1 .. Len(output) /\ pos' # npos /\ output[pos'] = Open
         /\ \A i \in 1 .. pos' - 1 : output[i] # Open
  BY <1>1, FindFirst
<1>3. pos' \in 0 .. Len(output)
  BY <1>2 DEF npos
<1>4. SearchType'
  BY <1>1, <1>3 DEF SearchType, EndOfOutput
<1>5. ASSUME pos' = npos PROVE Scanned'
  <2>1. Entries = {}
    BY <1>2, <1>5 DEF Entries, npos
  <2> QED BY <1>1, <1>5, <2>1, ListsNone, ScannedAfter
<1>6. ASSUME pos' # npos PROVE Scanned'
  <2>1. {p \in Entries : p < pos'} = {}
    BY <1>1, <1>2, <1>6 DEF Entries
  <2>2. Lists(node_ids', {p \in Entries : p < pos'})
    BY <1>1, <2>1, ListsNone
  <2> QED BY <1>1, <1>2, <1>6, <2>2, ScannedAfter
<1>7. Scanned'
  BY <1>5, <1>6
<1> QED BY <1>4, <1>7 DEF Found, EndOfOutput

\* The entry that the scan has reached ends at the '|' it finds.
LEMMA EntryAtPos ==
    ASSUME SearchType, Scanned, pos # npos, sep # npos
    PROVE  /\ pos \in Entries /\ sep \in pos + 1 .. Len(output) /\ output[sep] = Bar
           /\ \A p \in Entries : ~(pos < p /\ p < sep)
<1>1. output \in Seq(Int) /\ pos \in 1 .. Len(output) /\ output[pos] = Open
      /\ \A q \in 1 .. pos - 1 :
           output[q] = Open => \E s \in q + 1 .. pos - 1 : output[s] = Bar
  BY DEF SearchType, Scanned, npos
<1>2. sep \in pos .. Len(output) /\ output[sep] = Bar
      /\ \A i \in pos .. sep - 1 : output[i] # Bar
  BY <1>1, FindFirst DEF sep
<1>3. sep \in pos + 1 .. Len(output)
  BY <1>1, <1>2 DEF Open, Bar
<1>4. pos \in Entries
  BY <1>1, <1>2, <1>3 DEF Entries
<1>5. ASSUME NEW p \in Entries, pos < p, p < sep PROVE FALSE
  <2>1. PICK s \in pos + 1 .. p - 1 : output[s] = Bar
    BY <1>1, <1>5 DEF Entries
  <2>2. p \in 1 .. Len(output) /\ s \in pos .. sep - 1
    BY <1>1, <1>3, <1>5, <2>1 DEF Entries
  <2> QED BY <1>2, <2>1, <2>2
<1> QED BY <1>2, <1>3, <1>4, <1>5

\* The scan adds the entry at pos and goes on to the next one.
LEMMA ScanEntryFound ==
    ASSUME SearchType, Found, ScanEntry
    PROVE  SearchType' /\ Found'
<1>1. /\ phase = "scan" /\ pos # npos /\ sep # npos /\ IsNumber(substr)
      /\ output \in Seq(Int) /\ output' = output /\ Scanned
      /\ node_ids \in Seq(Nat) /\ pos \in 1 .. Len(output)
      /\ node_ids' = Append(node_ids, Nodeid(substr))
      /\ pos' = find_first_of(Open, sep)
  BY DEF ScanEntry, SearchType, Found, npos
<1>2. /\ pos \in Entries /\ sep \in pos + 1 .. Len(output) /\ output[sep] = Bar
      /\ \A p \in Entries : ~(pos < p /\ p < sep)
  BY <1>1, EntryAtPos
<1>3. output[pos] = Open /\ Lists(node_ids, {p \in Entries : p < pos})
  BY <1>1 DEF Scanned
<1>4. Nodeid(substr) = EntryId(pos) /\ EntryId(pos) \in Nat
  <2>1. substr # <<>> /\ Head(substr) >= 0
    BY <1>1 DEF IsNumber
  <2>2. Head(substr) = output[pos + 1] /\ pos + 1 \in 1 .. Len(output)
    BY <1>1, <1>2, <2>1 DEF substr
  <2>3. output[pos + 1] \in Int
    BY <1>1, <2>2
  <2> QED BY <2>1, <2>2, <2>3 DEF Nodeid, EntryId, NodeidRange
<1>5. \/ pos' = npos /\ \A i \in sep .. Len(output) : output[i] # Open
      \/ /\ pos' \in sep .. Len(output) /\ pos' # npos /\ output[pos'] = Open
         /\ \A i \in sep .. pos' - 1 : output[i] # Open
  BY <1>1, <1>2, FindFirst
<1>6. Lists(node_ids', {p \in Entries : p < pos} \union {pos})
  BY <1>1, <1>3, <1>4, ListsAppend
<1>7. ASSUME pos' = npos PROVE Scanned'
  <2>1. Entries = {p \in Entries : p < pos} \union {pos}
    <3>1. ASSUME NEW p \in Entries PROVE p <= pos
      BY <1>1, <1>2, <1>5, <1>7, EntryIsOpen DEF npos
    <3>2. \A p \in Entries : p < pos \/ p = pos
      BY <1>1, <3>1, EntryIsOpen
    <3> QED BY <1>2, <3>2
  <2> QED BY <1>1, <1>6, <1>7, <2>1, ScannedAfter
<1>8. ASSUME pos' # npos PROVE Scanned'
  <2>1. sep < pos'
    BY <1>2, <1>5, <1>8 DEF Open, Bar
  <2>2. {p \in Entries : p < pos'} = {p \in Entries : p < pos} \union {pos}
    <3>1. ASSUME NEW p \in Entries, p < pos' PROVE p < pos \/ p = pos
      <4>1. p \in Nat /\ output[p] = Open
        BY EntryIsOpen
      <4>2. p \notin sep .. pos' - 1
        BY <1>5, <1>8, <4>1
      <4>3. p < sep
        BY <1>2, <1>5, <1>8, <3>1, <4>1, <4>2
      <4> QED BY <1>1, <1>2, <4>1, <4>3
    <3>2. ASSUME NEW p \in Entries, p < pos \/ p = pos PROVE p < pos'
      BY <1>1, <1>2, <1>5, <1>8, <2>1, <3>2, EntryIsOpen
    <3> QED BY <1>2, <3>1, <3>2
  <2>3. ASSUME NEW q \in 1 .. pos' - 1, output[q] = Open
        PROVE  \E s \in q + 1 .. pos' - 1 : output[s] = Bar
    <3>1. q < sep
      BY <1>2, <1>5, <1>8, <2>3
    <3> QED BY <1>2, <1>5, <1>8, <2>1, <3>1
  <2>4. Lists(node_ids', {p \in Entries : p < pos'})
    BY <1>6, <2>2
  <2> QED BY <1>1, <1>5, <1>8, <2>3, <2>4, ScannedAfter
<1>9. Scanned'
  BY <1>7, <1>8
<1>10. SearchType'
  <2>1. node_ids' \in Seq(Nat) /\ Len(node_ids') = Len(node_ids) + 1
    BY <1>1, <1>4
  <2>2. pos' \in 0 .. Len(output')
    BY <1>1, <1>2, <1>5 DEF npos
  <2> QED BY <2>1, <2>2 DEF SearchType, ScanEntry
<1> QED BY <1>9, <1>10 DEF Found, ScanEntry

\* What is kept does not change while nothing else does.
LEMMA KeptAfter ==
    ASSUME output' = output, node_ids' = node_ids, input' = input,
           NEW at \in [1 .. Len(node_ids) -> 1 .. Len(output)],
           Enumerates(at, node_ids, Entries),
           Lists(nodes',
                 {p \in Entries : Up(p) /\ \E i \in 1 .. checked' : p = at[i]})
    PROVE  Kept'
<1>1. Entries' = Entries
  BY DEF Entries, Open, Bar
<1>2. \A p : Up(p)' <=> Up(p)
  BY DEF Up, check_is_fpga, EntryId
<1> DEFINE S == {p \in Entries : Up(p) /\ \E i \in 1 .. checked : p = at[i]}
<1>3. S' = {p \in Entries : Up(p) /\ \E i \in 1 .. checked' : p = at[i]}
  BY <1>1, <1>2
<1> HIDE DEF S
<1>4. Lists(nodes, S)'
  BY <1>3 DEF Lists, Enumerates, EntryId
<1>5. Enumerates(at, node_ids, Entries)'
  BY <1>1 DEF Enumerates, EntryId
<1> QED BY <1>4, <1>5 DEF Kept, S

\* A '[' without a '|' behind it ends the scan: there are no entries from pos on.
LEMMA ScanEndsFound ==
    ASSUME SearchType, Found, ScanEnds
    PROVE  SearchType' /\ Found'
<1>1. /\ output \in Seq(Int) /\ Scanned /\ checked = 0 /\ nodes = <<>>
      /\ pos \in 0 .. Len(output) /\ (pos # npos => sep = npos)
      /\ phase' = "check"
  BY DEF ScanEnds, SearchType, Found
<1>2. Lists(node_ids, Entries)
  <2>1. CASE pos = npos
    BY <1>1, <2>1 DEF Scanned
  <2>2. CASE pos # npos
    <3>1. \A i \in pos .. Len(output) : output[i] # Bar
      BY <1>1, <2>2, FindFirst DEF sep, npos
    <3>2. ASSUME NEW p \in Entries PROVE p < pos
      <4>1. PICK s \in p + 1 .. Len(output) : output[s] = Bar
        BY DEF Entries
      <4>2. s \notin pos .. Len(output)
        BY <3>1, <4>1
      <4> QED BY <1>1, <4>1, <4>2, EntryIsOpen
    <3>3. {p \in Entries : p < pos} = Entries
      BY <3>2
    <3> QED BY <1>1, <2>2, <3>3 DEF Scanned
  <2> QED BY <2>1, <2>2
<1>3. PICK at \in [1 .. Len(node_ids) -> 1 .. Len(output)] :
        Enumerates(at, node_ids, Entries)
  BY <1>2 DEF Lists
<1>4. {p \in Entries : Up(p) /\ \E i \in 1 .. checked : p = at[i]} = {}
  BY <1>1
<1>5. Lists(nodes, {p \in Entries : Up(p) /\ \E i \in 1 .. checked : p = at[i]})
  BY <1>1, <1>4, ListsNone
<1>6. Kept'
  BY <1>1, <1>3, <1>5, KeptAfter DEF ScanEnds, searchLocals
<1>7. SearchType'
  BY DEF SearchType, ScanEnds, searchLocals
<1> QED BY <1>1, <1>6, <1>7 DEF Found, ScanEnds, searchLocals

\* Checking a node keeps it if its link is up.
LEMMA CheckNodeFound ==
    ASSUME SearchType, Found, CheckNode
    PROVE  SearchType' /\ Found'
<1>1. /\ Kept /\ checked \in Nat /\ checked + 1 \in 1 .. Len(node_ids)
      /\ checked' = checked + 1
      /\ nodes' = IF check_is_fpga(Checked, input.status)
                  THEN Append(nodes, Checked) ELSE nodes
      /\ output \in Seq(Int) /\ node_ids \in Seq(Nat) /\ nodes \in Seq(Nat)
      /\ UNCHANGED <<input, phase, line, output, pos, node_ids>> /\ phase = "check"
  BY DEF CheckNode, SearchType, Found
<1>2. SearchType'
  BY <1>1 DEF SearchType, Checked
<1>3. PICK at \in [1 .. Len(node_ids) -> 1 .. Len(output)] :
        /\ Enumerates(at, node_ids, Entries)
        /\ Lists(nodes, {p \in Entries : Up(p) /\ \E i \in 1 .. checked : p = at[i]})
  BY <1>1 DEF Kept
<1> DEFINE Old == {p \in Entries : Up(p) /\ \E i \in 1 .. checked : p = at[i]}
           New == {p \in Entries : Up(p) /\ \E i \in 1 .. checked + 1 : p = at[i]}
           q   == at[checked + 1]
<1>4. q \in Entries /\ q \in 1 .. Len(output) /\ Checked = EntryId(q)
  BY <1>1, <1>3 DEF Enumerates, Checked
<1>5. \A i \in 1 .. checked : at[i] < q
  <2>1. \A i, j \in 1 .. Len(node_ids) : i < j => at[i] < at[j]
    BY <1>3 DEF Enumerates
  <2>2. ASSUME NEW i \in 1 .. checked
        PROVE  i \in 1 .. Len(node_ids) /\ i < checked + 1
    BY <1>1
  <2> QED BY <1>1, <2>1, <2>2
<1>6. \A i \in 1 .. checked + 1 : i \in 1 .. checked \/ i = checked + 1
  BY <1>1
<1>7. \A i \in 1 .. checked : i \in 1 .. checked + 1
  BY <1>1
<1>8. checked + 1 \in 1 .. checked + 1
  BY <1>1
<1>9. Lists(nodes', New)
  <2>1. CASE Up(q)
    <3>1. New = Old \union {q}
      BY <1>4, <1>6, <1>7, <1>8, <2>1
    <3>2. \A p \in Old : p < q
      BY <1>5
    <3>3. nodes' = Append(nodes, EntryId(q))
      BY <1>1, <1>4, <2>1 DEF Up
    <3>4. Lists(nodes, Old)
      BY <1>3
    <3> HIDE DEF Old, New, q
    <3> QED BY <1>1, <1>4, <3>1, <3>2, <3>3, <3>4, ListsAppend
  <2>2. CASE ~Up(q)
    <3>1. New = Old
      BY <1>4, <1>6, <1>7, <2>2
    <3>2. nodes' = nodes
      BY <1>1, <1>4, <2>2 DEF Up
    <3> QED BY <1>3, <3>1, <3>2
  <2> QED BY <2>1, <2>2
<1>10. Kept'
  BY <1>1, <1>3, <1>9, KeptAfter
<1> QED BY <1>1, <1>2, <1>10 DEF Found

\* The other steps find nothing.
LEMMA OtherSearchFound ==
    ASSUME SearchType, Found,
           \/ AppendLine \/ ScanThrows \/ CheckThrows \/ CheckEnds
           \/ UNCHANGED searchVars
    PROVE  SearchType' /\ Found'
<1>1. CASE AppendLine
  <2>1. /\ phase = "read" /\ phase' = "read"
        /\ output \in Seq(Int) /\ input.lines[line] \in Seq(Int)
        /\ output' = output \o input.lines[line] /\ line' = line + 1
        /\ UNCHANGED <<input, pos, node_ids, checked, nodes>>
    BY <1>1 DEF AppendLine, SearchType
  <2>2. output' \in Seq(Int) /\ Len(output') >= Len(output)
    BY <2>1
  <2>3. SearchType'
    BY <2>1, <2>2 DEF SearchType
  <2> QED BY <2>1, <2>3 DEF Found
<1>2. CASE ScanThrows \/ CheckThrows
  BY <1>2 DEF ScanThrows, CheckThrows, searchLocals, SearchType, Found
<1>3. CASE CheckEnds \/ UNCHANGED searchVars
  <2>1. UNCHANGED <<searchLocals, nodes>>
    BY <1>3 DEF CheckEnds, searchVars
  <2>2. SearchType'
    BY <2>1 DEF SearchType, searchLocals
  <2>3. ASSUME Scanned PROVE Scanned'
    BY <2>1, <2>3, ScannedAfter DEF Scanned, searchLocals
  <2>4. ASSUME Kept PROVE Kept'
    <3>1. PICK at \in [1 .. Len(node_ids) -> 1 .. Len(output)] :
            /\ Enumerates(at, node_ids, Entries)
            /\ Lists(nodes,
                     {p \in Entries : Up(p) /\ \E i \in 1 .. checked : p = at[i]})
      BY <2>4 DEF Kept
    <3> QED BY <2>1, <3>1, KeptAfter DEF searchLocals
  <2> QED BY <1>3, <2>1, <2>2, <2>3, <2>4
          DEF Found, CheckEnds, searchLocals, searchVars
<1> QED BY <1>1, <1>2, <1>3

LEMMA SearchStepFound ==
    ASSUME SearchType, Found, SearchStep \/ UNCHANGED searchVars
    PROVE  SearchType' /\ Found'
BY EndOfOutputFound, ScanEntryFound, ScanEndsFound, CheckNodeFound,
   OtherSearchFound DEF SearchStep

LEMMA InitSearchInv == Init => SearchInv
<1> SUFFICES ASSUME Init PROVE SearchInv
  OBVIOUS
<1>1. SearchType
  BY ListingsAssumption DEF Init, SearchInit, SearchType, npos
<1>2. Found /\ mode = "discover"
  BY DEF Init, SearchInit, Found
<1> QED BY <1>1, <1>2 DEF SearchInv

\* Once the user has connected to a node, failed is never empty again.
LEMMA NextSearchInv == LifeInv /\ SearchInv /\ [Next]_vars => SearchInv'
<1> SUFFICES ASSUME LifeInv, SearchInv, [Next]_vars,
                    mode' \in {"discover", "idle"}, failed' = <<>>
             PROVE  SearchType' /\ Found' /\ (mode' = "idle" => phase' = "done")
  BY DEF SearchInv
<1>1. CASE Discover
  <2>1. SearchType /\ Found
    BY <1>1 DEF SearchInv, Discover
  <2>2. SearchType' /\ Found'
    BY <1>1, <2>1, SearchStepFound DEF Discover
  <2> QED BY <1>1, <2>2 DEF Discover
<1>2. CASE UNCHANGED <<searchVars, mode, failed>>
  <2>1. SearchType /\ Found /\ (mode = "idle" => phase = "done")
    BY <1>2 DEF SearchInv
  <2>2. SearchType' /\ Found'
    BY <1>2, <2>1, SearchStepFound
  <2> QED BY <1>2, <2>1, <2>2 DEF searchVars
<1>3. CASE Gone
  <2>1. failed # <<>> /\ failed' = failed
    BY <1>3 DEF Gone, LifeInv, LeaksSettled
  <2> QED BY <2>1
<1>4. CASE \/ NoNode \/ Connect \/ PingAnswered \/ PingProbeError \/ PingFails
           \/ Destroy \/ Abort
           \/ \E m \in {Members[i] : i \in 1 .. Len(Members)} : Throw(m)
  BY <1>4 DEF NoNode, Connect, PingAnswered, PingProbeError, PingFails, Destroy,
              Abort, Throw
<1>5. CASE \/ PostPing \/ LateAnswer \/ RraRead \/ Write \/ Send \/ CardFetches
           \/ \E m \in {Members[i] : i \in 1 .. Len(Members)} :
                Construct(m) \/ Destruct(m)
  <2>1. UNCHANGED <<searchVars, mode, failed>>
    BY <1>5 DEF PostPing, LateAnswer, RraRead, Write, Send, CardFetches, Construct,
                Destruct, lifeVars
  <2> QED BY <1>2, <2>1
<1>6. CASE UNCHANGED vars
  BY <1>2, <1>6 DEF vars, lifeVars
<1> QED BY <1>1, <1>3, <1>4, <1>5, <1>6 DEF Next

\* When the search is done, every entry has been checked.
LEMMA SearchInvMatches == SearchInv => DiscoveryMatchesListing
<1> SUFFICES ASSUME SearchInv, mode = "idle", failed = <<>>
             PROVE  NamesRunningFpgas
  BY DEF DiscoveryMatchesListing
<1>1. Kept /\ checked = Len(node_ids)
  BY DEF SearchInv, Found
<1>2. PICK at \in [1 .. Len(node_ids) -> 1 .. Len(output)] :
        /\ Enumerates(at, node_ids, Entries)
        /\ Lists(nodes, {p \in Entries : Up(p) /\ \E i \in 1 .. checked : p = at[i]})
  BY <1>1 DEF Kept
<1>3. \A p \in Entries : \E i \in 1 .. checked : p = at[i]
  BY <1>1, <1>2 DEF Enumerates
<1>4. {p \in Entries : Up(p) /\ \E i \in 1 .. checked : p = at[i]} =
      {p \in Entries : check_is_fpga(EntryId(p), input.status)}
  BY <1>3 DEF Up
<1> QED BY <1>2, <1>4 DEF NamesRunningFpgas

\* get_fpga_node_ids(), scanning the output of the listing command bracket by
\* bracket and asking for the state of each node's link, returns exactly the
\* entries whose link is up, in their order and each as often as it is listed,
\* for every listing, every link status, and every way the output is cut off.
THEOREM DiscoveryIsRight == Spec => []DiscoveryMatchesListing
<1>1. Spec => [](LifeInv /\ SearchInv)
  BY LifeInvariant, InitSearchInv, NextSearchInv, PTL DEF Spec
<1> QED BY <1>1, SearchInvMatches, PTL

\* Nobody is connected before discovery has ended, which happens once.
FirstDiscover == mode = "discover" => failed = <<>>

LEMMA NextFirstDiscover == FirstDiscover /\ [Next]_vars => FirstDiscover'
<1> SUFFICES ASSUME FirstDiscover, [Next]_vars, mode' = "discover"
             PROVE  failed' = <<>>
  BY DEF FirstDiscover
<1>1. UNCHANGED <<mode, failed>> \/ (Discover /\ failed' = failed)
  BY DEF Next, Discover, NoNode, Connect, PingAnswered, PingProbeError, PingFails,
         Destroy, Abort, Throw, Gone, PostPing, LateAnswer, RraRead, Write, Send,
         CardFetches, Construct, Destruct, lifeVars, vars
<1> QED BY <1>1 DEF FirstDiscover, Discover

\* Every round of the parser's loop that finds an entry goes on behind it: the
\* loop ends after no more rounds than the output has characters.
THEOREM ScanAdvances ==
    Spec => [][Discover /\ ScanEntry =>
                 pos' = npos \/ pos' \in pos + 1 .. Len(output)]_vars
<1>1. ASSUME SearchInv, FirstDiscover, Discover, ScanEntry
      PROVE  pos' = npos \/ pos' \in pos + 1 .. Len(output)
  <2>1. SearchType /\ Scanned
    BY <1>1 DEF SearchInv, FirstDiscover, Discover, Found, ScanEntry
  <2>2. sep \in pos + 1 .. Len(output) /\ pos \in Nat /\ output \in Seq(Int)
    BY <1>1, <2>1, EntryAtPos DEF ScanEntry, SearchType
  <2>3. pos' = npos \/ pos' \in sep .. Len(output)
    BY <1>1, <2>2, FindFirst DEF ScanEntry
  <2> QED BY <2>2, <2>3
<1>2. SearchInv /\ FirstDiscover /\ [Next]_vars =>
        [Discover /\ ScanEntry => pos' = npos \/ pos' \in pos + 1 .. Len(output)]_vars
  BY <1>1
<1>3. Init => FirstDiscover
  BY DEF Init, FirstDiscover
<1> QED BY <1>2, <1>3, LifeInvariant, InitSearchInv, NextSearchInv, NextFirstDiscover,
           PTL DEF Spec
=============================================================================

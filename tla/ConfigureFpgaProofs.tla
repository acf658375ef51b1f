------------------------- MODULE ConfigureFpgaProofs -------------------------
(***************************************************************************)
(* Proofs about configure_fpga for every set of hosts, number of pages,      *)
(* number of calls and number of accesses that throw, with any number of     *)
(* requests on their way.                                                    *)
(***************************************************************************)
EXTENDS ConfigureFpga, TLAPS

\* The step k of the call has posted its request; those of the last call stay
\* posted when it has returned.
Posted(k) == k < pc \/ (k = pc /\ waiting) \/ result = "returned"

\* Of the first i requests of a queue: the last one of step s has the
\* configuration c; none is of step s.
LastIs(q, i, s, c) ==
    \E j \in 1 .. i : /\ q[j].step = s /\ q[j].config = c
                      /\ \A k \in j + 1 .. i : q[k].step # s

NoneIs(q, i, s) == \A k \in 1 .. i : q[k].step # s

\* What a register will hold, and what a ring will run with, when the first i
\* requests on their way have been served.
WillHold(i, r, c) == LastIs(net, i, r, c) \/ (NoneIs(net, i, r) /\ regs[r] = c)

WillRun(i, ring, c) ==
    \/ LastIs(net, i, InitRegister(ring), c)
    \/ /\ NoneIs(net, i, InitRegister(ring))
       /\ \A r \in RingRegisters(ring) : running[ring][r] = c

\* What the steps that are posted lead to; no later step undoes it.
RegistersWritten ==
    \A k \in 1 .. Len(Program) :
        Posted(k) /\ Program[k] \in Registers => WillHold(Len(net), Program[k], config)

RingsInitialised ==
    \A ring \in Rings, k \in 1 .. Len(Program) :
        Posted(k) /\ Program[k] = InitRegister(ring) => WillRun(Len(net), ring, config)

\* A write of an Init register on its way finds the registers of its ring
\* written with its own configuration.
InitsPrepared ==
    \A ring \in Rings, i \in 1 .. Len(net) :
        net[i].step = InitRegister(ring) =>
            \A r \in RingRegisters(ring) : WillHold(i - 1, r, net[i].config)

\* Unless something was left behind, the one request on its way is that of
\* the access at hand, and the read positions are reset behind the Init.
OwnRequestOnly ==
    broken = 0 => \A i \in 1 .. Len(net) :
        waiting /\ pc \in 1 .. Len(Program) /\ net[i].step = Program[pc]

HostInStep ==
    broken = 0 =>
        \A ring \in Rings, k \in 1 .. Len(Program) :
            (k < pc \/ result = "returned") /\ Program[k] = HostReset(ring)
                => in_step[ring]

Bits == SUBSET Word
Requests == [step : {Program[k] : k \in 1 .. Len(Program)}, config : Configs, word : Bits]

CallOK ==
    /\ pc \in 0 .. Len(Program) + 1
    /\ waiting \in BOOLEAN /\ (waiting => pc \in 1 .. Len(Program))
    /\ waiting => \A ring \in Rings : Program[pc] # HostReset(ring)
    /\ result = "returned" => pc = 0

TypeOK ==
    /\ config \in Configs
    /\ net \in Seq(Requests) /\ noti \in Nat /\ broken \in Nat
    /\ info \in Bits /\ response \in Bits /\ local_info \in Bits /\ node \in Nodes
    /\ DOMAIN regs = Registers
    /\ DOMAIN running = Rings
    /\ DOMAIN in_step = Rings

IInv ==
    /\ CallOK
    /\ TypeOK
    /\ RegistersWritten
    /\ RingsInitialised
    /\ InitsPrepared
    /\ LagIsBroken
    /\ OwnRequestOnly
    /\ HostInStep
    /\ NoMixedRing

-----------------------------------------------------------------------------
(* The order of the steps.                                                  *)

LEMMA ProgramLength == Len(Program) = 19
  BY DEF Program

LEMMA ProgramSteps ==
    /\ Program[1] = "HostEndpoint" /\ Program[2] = "ConfigResponse"
    /\ Program[3] = "HicannBufferStart" /\ Program[4] = "HicannBufferSize"
    /\ Program[5] = "HicannBufferFullThreshold"
    /\ Program[6] = "HicannNotificationBehaviour"
    /\ Program[7] = "HicannBufferCounterReset"
    /\ Program[8] = "TraceBufferStart" /\ Program[9] = "TraceBufferSize"
    /\ Program[10] = "TraceBufferFullThreshold"
    /\ Program[11] = "TraceNotificationBehaviour"
    /\ Program[12] = "TraceBufferCounterReset"
    /\ Program[13] = "TraceBufferInit" /\ Program[14] = "HicannBufferInit"
    /\ Program[15] = "hicann.reset" /\ Program[16] = "trace.reset"
    /\ Program[17] = "HicannTracePktClosure"
    /\ Program[18] = "ReadInfo" /\ Program[19] = "Info"
  BY DEF Program

\* Where the steps that matter for a ring are.
LEMMA StepPositions ==
    ASSUME NEW k \in 1 .. Len(Program)
    PROVE  /\ Program[k] = "HicannBufferInit" => k = 14
           /\ Program[k] = "TraceBufferInit" => k = 13
           /\ Program[k] = "hicann.reset" => k = 15
           /\ Program[k] = "trace.reset" => k = 16
<1>1. k \in Int /\ 1 <= k /\ k <= 19
  BY ProgramLength
<1>2. \/ k = 1 \/ k = 2 \/ k = 3 \/ k = 4 \/ k = 5 \/ k = 6 \/ k = 7 \/ k = 8
      \/ k = 9 \/ k = 10 \/ k = 11 \/ k = 12 \/ k = 13 \/ k = 14 \/ k = 15
      \/ k = 16 \/ k = 17 \/ k = 18 \/ k = 19
  BY <1>1
<1> QED BY <1>2, ProgramSteps

LEMMA RingRegisterPositions ==
    /\ \A r \in RingRegisters("hicann") : \E j \in 1 .. 12 : Program[j] = r
    /\ \A r \in RingRegisters("trace") : \E j \in 1 .. 12 : Program[j] = r
<1>1. 3 \in 1 .. 12 /\ 4 \in 1 .. 12 /\ 5 \in 1 .. 12 /\ 6 \in 1 .. 12
  OBVIOUS
<1>2. 8 \in 1 .. 12 /\ 9 \in 1 .. 12 /\ 10 \in 1 .. 12 /\ 11 \in 1 .. 12
  OBVIOUS
<1>3. \A r \in RingRegisters("hicann") : \E j \in 1 .. 12 : Program[j] = r
  BY <1>1, ProgramSteps, Zenon DEF RingRegisters
<1>4. \A r \in RingRegisters("trace") : \E j \in 1 .. 12 : Program[j] = r
  BY <1>2, ProgramSteps DEF RingRegisters
<1> QED BY <1>3, <1>4

\* A ring is initialised after all of its registers were written and before
\* the host's read positions are reset.
LEMMA InitOrder ==
    ASSUME NEW ring \in Rings, NEW k \in 1 .. Len(Program),
           Program[k] = InitRegister(ring)
    PROVE  /\ \A r \in RingRegisters(ring) : \E j \in 1 .. k - 1 : Program[j] = r
           /\ \A j \in 1 .. k : Program[j] # HostReset(ring)
<1>1. k \in {13, 14}
  BY StepPositions DEF Rings, InitRegister
<1>2. 1 .. 12 \subseteq 1 .. k - 1 /\ 1 .. k \subseteq 1 .. Len(Program)
  BY <1>1, ProgramLength
<1>3. \A r \in RingRegisters(ring) : \E j \in 1 .. 12 : Program[j] = r
  BY RingRegisterPositions DEF Rings
<1>4. ASSUME NEW j \in 1 .. k PROVE Program[j] # HostReset(ring)
  <2>1. j \in 1 .. Len(Program) /\ j # 15 /\ j # 16
    BY <1>1, <1>2
  <2> QED BY <2>1, StepPositions DEF HostReset
<1> QED BY <1>2, <1>3, <1>4

\* Every register is written, both rings are initialised and both read
\* positions are reset by some step.
LEMMA ProgramComplete ==
    /\ \A r \in Registers : \E k \in 1 .. Len(Program) : Program[k] = r
    /\ \A ring \in Rings :
         /\ \E k \in 1 .. Len(Program) : Program[k] = InitRegister(ring)
         /\ \E k \in 1 .. Len(Program) : Program[k] = HostReset(ring)
<1>1. /\ 1 .. 12 \subseteq 1 .. Len(Program)
      /\ 1 \in 1 .. Len(Program) /\ 2 \in 1 .. Len(Program)
      /\ 13 \in 1 .. Len(Program) /\ 14 \in 1 .. Len(Program)
      /\ 15 \in 1 .. Len(Program) /\ 16 \in 1 .. Len(Program)
      /\ 17 \in 1 .. Len(Program)
  BY ProgramLength
<1>2. \A r \in {"HostEndpoint", "ConfigResponse", "HicannTracePktClosure"} :
        \E k \in 1 .. Len(Program) : Program[k] = r
  BY <1>1, ProgramSteps
<1>3. \A r \in Registers : \E k \in 1 .. Len(Program) : Program[k] = r
  BY <1>1, <1>2, RingRegisterPositions DEF Registers
<1>4. ASSUME NEW ring \in Rings
      PROVE  /\ \E k \in 1 .. Len(Program) : Program[k] = InitRegister(ring)
             /\ \E k \in 1 .. Len(Program) : Program[k] = HostReset(ring)
  BY <1>1, ProgramSteps DEF Rings, InitRegister, HostReset
<1> QED BY <1>3, <1>4

\* The steps that write no register, start no ring or reset no position.
LEMMA StepKinds ==
    /\ \A ring \in Rings :
         /\ RingRegisters(ring) \subseteq Registers
         /\ InitRegister(ring) \notin Registers
         /\ HostReset(ring) \notin Registers
         /\ \A other \in Rings : InitRegister(ring) # HostReset(other)
         /\ \A other \in Rings \ {ring} :
              /\ InitRegister(ring) # InitRegister(other)
              /\ HostReset(ring) # HostReset(other)
    /\ \A s \in {"HicannBufferCounterReset", "TraceBufferCounterReset",
                 "ReadInfo", "Info"} :
         /\ s \notin Registers
         /\ \A ring \in Rings : s # InitRegister(ring) /\ s # HostReset(ring)
  BY DEF Rings, RingRegisters, InitRegister, HostReset, Registers
-----------------------------------------------------------------------------
(* The queue of requests.                                                   *)

LEMMA QueueAppended ==
    ASSUME NEW S, NEW q \in Seq(S), NEW x \in S, NEW s, NEW c
    PROVE  /\ Append(q, x) \in Seq(S) /\ Len(Append(q, x)) = Len(q) + 1
           /\ \A i \in 0 .. Len(q) : /\ LastIs(q, i, s, c) => LastIs(Append(q, x), i, s, c)
                                     /\ NoneIs(q, i, s) => NoneIs(Append(q, x), i, s)
           /\ x.step = s /\ x.config = c => LastIs(Append(q, x), Len(q) + 1, s, c)
           /\ x.step # s =>
                /\ LastIs(q, Len(q), s, c) => LastIs(Append(q, x), Len(q) + 1, s, c)
                /\ NoneIs(q, Len(q), s) => NoneIs(Append(q, x), Len(q) + 1, s)
<1> DEFINE a == Append(q, x)
           n == Len(q)
<1>1. /\ a \in Seq(S) /\ Len(a) = n + 1 /\ n \in Nat
      /\ \A i \in 1 .. n : a[i] = q[i]
      /\ a[n + 1] = x
  OBVIOUS
<1> HIDE DEF a, n
<1>2. ASSUME NEW i \in 0 .. n
      PROVE  /\ LastIs(q, i, s, c) => LastIs(a, i, s, c)
             /\ NoneIs(q, i, s) => NoneIs(a, i, s)
  BY <1>1 DEF LastIs, NoneIs
<1>3. x.step = s /\ x.config = c => LastIs(a, n + 1, s, c)
  <2> SUFFICES ASSUME x.step = s, x.config = c PROVE LastIs(a, n + 1, s, c)
    OBVIOUS
  <2>1. n + 1 \in 1 .. n + 1 /\ ~\E k \in (n + 1) + 1 .. n + 1 : TRUE
    BY <1>1
  <2> QED BY <1>1, <2>1 DEF LastIs
<1>4. ASSUME x.step # s, LastIs(q, n, s, c) PROVE LastIs(a, n + 1, s, c)
  <2>1. PICK j \in 1 .. n : /\ q[j].step = s /\ q[j].config = c
                            /\ \A k \in j + 1 .. n : q[k].step # s
    BY <1>4 DEF LastIs
  <2>2. j \in 1 .. n + 1 /\ a[j] = q[j]
    BY <1>1
  <2>3. ASSUME NEW k \in j + 1 .. n + 1 PROVE a[k].step # s
    <3>1. CASE k = n + 1
      BY <1>1, <1>4, <3>1
    <3>2. CASE k # n + 1
      <4>1. k \in j + 1 .. n /\ k \in 1 .. n
        BY <1>1, <3>2
      <4> QED BY <1>1, <2>1, <4>1
    <3> QED BY <3>1, <3>2
  <2> QED BY <2>1, <2>2, <2>3 DEF LastIs
<1>5. ASSUME x.step # s, NoneIs(q, n, s) PROVE NoneIs(a, n + 1, s)
  <2> SUFFICES ASSUME NEW k \in 1 .. n + 1 PROVE a[k].step # s
    BY DEF NoneIs
  <2>1. CASE k = n + 1
    BY <1>1, <1>5, <2>1
  <2>2. CASE k # n + 1
    <3>1. k \in 1 .. n
      BY <1>1, <2>2
    <3> QED BY <1>1, <1>5, <3>1 DEF NoneIs
  <2> QED BY <2>1, <2>2
<1> QED BY <1>1, <1>2, <1>3, <1>4, <1>5 DEF a, n

LEMMA QueueServed ==
    ASSUME NEW S, NEW q \in Seq(S), q # <<>>, NEW s, NEW c
    PROVE  /\ Tail(q) \in Seq(S) /\ Len(Tail(q)) = Len(q) - 1 /\ Len(q) >= 1
           /\ Head(q) = q[1] /\ Head(q) \in S
           /\ \A i \in 1 .. Len(q) - 1 : Tail(q)[i] = q[i + 1]
           /\ \A i \in 1 .. Len(q) :
                /\ LastIs(q, i, s, c) =>
                     \/ LastIs(Tail(q), i - 1, s, c)
                     \/ /\ Head(q).step = s /\ Head(q).config = c
                        /\ NoneIs(Tail(q), i - 1, s)
                /\ NoneIs(q, i, s) => Head(q).step # s /\ NoneIs(Tail(q), i - 1, s)
<1> DEFINE t == Tail(q)
           n == Len(q)
<1>1. /\ t \in Seq(S) /\ Len(t) = n - 1 /\ n \in Nat /\ n >= 1
      /\ \A i \in 1 .. n - 1 : t[i] = q[i + 1]
      /\ Head(q) = q[1] /\ q[1] \in S
  OBVIOUS
<1> HIDE DEF t, n
<1>2. ASSUME NEW i \in 1 .. n, LastIs(q, i, s, c)
      PROVE  \/ LastIs(t, i - 1, s, c)
             \/ q[1].step = s /\ q[1].config = c /\ NoneIs(t, i - 1, s)
  <2>1. PICK j \in 1 .. i : /\ q[j].step = s /\ q[j].config = c
                            /\ \A k \in j + 1 .. i : q[k].step # s
    BY <1>2 DEF LastIs
  <2>2. ASSUME NEW k \in j .. i - 1 PROVE t[k].step # s
    <3>1. k + 1 \in j + 1 .. i /\ k \in 1 .. n - 1
      BY <1>1
    <3> QED BY <1>1, <2>1, <3>1
  <2>3. CASE j = 1
    <3>1. NoneIs(t, i - 1, s)
      BY <2>2, <2>3 DEF NoneIs
    <3> QED BY <2>1, <2>3, <3>1
  <2>4. CASE j # 1
    <3>1. j - 1 \in 1 .. i - 1 /\ j - 1 \in 1 .. n - 1 /\ (j - 1) + 1 = j
      BY <1>1, <2>4
    <3>2. t[j - 1] = q[j]
      BY <1>1, <3>1
    <3>3. \A k \in (j - 1) + 1 .. i - 1 : t[k].step # s
      BY <2>2, <3>1
    <3> QED BY <2>1, <3>1, <3>2, <3>3 DEF LastIs
  <2> QED BY <2>3, <2>4
<1>3. ASSUME NEW i \in 1 .. n, NoneIs(q, i, s)
      PROVE  q[1].step # s /\ NoneIs(t, i - 1, s)
  <2>1. 1 \in 1 .. i
    OBVIOUS
  <2>2. ASSUME NEW k \in 1 .. i - 1 PROVE t[k].step # s
    <3>1. k + 1 \in 1 .. i /\ k \in 1 .. n - 1
      BY <1>1
    <3> QED BY <1>1, <1>3, <3>1 DEF NoneIs
  <2> QED BY <1>3, <2>1, <2>2 DEF NoneIs
<1> QED BY <1>1, <1>2, <1>3 DEF t, n


-----------------------------------------------------------------------------
(* The invariant.                                                           *)

LEMMA InitIInv == Init => IInv
<1> SUFFICES ASSUME Init PROVE IInv
  OBVIOUS
<1>1. /\ net = <<>> /\ Len(net) = 0 /\ pc = 0 /\ waiting = FALSE /\ result = "none"
      /\ broken = 0 /\ noti = 0
  BY DEF Init
<1>2. TypeOK
  <2>1. net \in Seq(Requests) /\ info \in Bits /\ local_info \in Bits /\ response \in Bits
    BY DEF Init, IdWord, Bits, Word
  <2>2. config \in Configs
    BY DEF Init, Configs, Default
  <2> QED BY <1>1, <2>1, <2>2 DEF Init, TypeOK
<1>6. CallOK
  <2>1. pc \in 0 .. Len(Program) + 1
    BY <1>1, ProgramLength
  <2> QED BY <1>1, <2>1, Zenon DEF CallOK
<1>3. \A k \in 1 .. Len(Program) : ~Posted(k) /\ ~(k < pc)
  BY <1>1, ProgramLength DEF Posted
<1>4. NoMixedRing
  BY DEF Init, NoMixedRing
<1>5. InitsPrepared /\ LagIsBroken /\ OwnRequestOnly
  BY <1>1 DEF InitsPrepared, LagIsBroken, OwnRequestOnly
<1> QED
  BY <1>1, <1>2, <1>3, <1>4, <1>5, <1>6
  DEF IInv, RegistersWritten, RingsInitialised, HostInStep

\* A call that waits for nothing.
LEMMA NotWaiting ==
    ASSUME waiting' = FALSE, pc' \in 0 .. Len(Program) + 1,
           result' = "returned" => pc' = 0
    PROVE  /\ CallOK'
           /\ \A k \in 1 .. Len(Program) : Posted(k)' => k < pc' \/ result' = "returned"
  BY Zenon DEF CallOK, Posted

\* A step of the call that changes something on the FPGA once it is served.
Writes(k) == Program[k] \in Registers \/ \E ring \in Rings : Program[k] = InitRegister(ring)

\* What is on its way stays as it is, and nothing new counts as posted.
LEMMA QueueKept ==
    ASSUME RegistersWritten, RingsInitialised, InitsPrepared, NoMixedRing,
           UNCHANGED <<regs, running, net>>,
           \A k \in 1 .. Len(Program) :
               Posted(k)' /\ Writes(k) => Posted(k) /\ config' = config
    PROVE  (RegistersWritten /\ RingsInitialised /\ InitsPrepared /\ NoMixedRing)'
<1>1. RegistersWritten'
  BY DEF RegistersWritten, WillHold, Writes
<1>2. RingsInitialised'
  BY DEF RingsInitialised, WillRun, Writes
<1>3. InitsPrepared' /\ NoMixedRing'
  BY DEF InitsPrepared, WillHold, NoMixedRing
<1> QED BY <1>1, <1>2, <1>3

\* An access that throws leaves a call of which nothing counts.
LEMMA ThrowStep ==
    ASSUME IInv, Throw, UNCHANGED <<regs, running, net, noti, config>>,
           UNCHANGED <<info, response, local_info, node, in_step>>,
           broken' \in Nat, broken' > 0 \/ Len(net) = 0,
           Len(net) + noti = broken'
    PROVE  IInv'
<1>1. pc' = 0 /\ waiting' = FALSE /\ result' = "threw"
  BY DEF Throw
<1>2. \A k \in 1 .. Len(Program) : ~Posted(k)' /\ ~(k < pc')
  BY <1>1, ProgramLength DEF Posted
<1>3. (RegistersWritten /\ RingsInitialised /\ InitsPrepared /\ NoMixedRing)'
  BY <1>2, QueueKept DEF IInv
<1>4. CallOK' /\ TypeOK'
  <2>1. pc' \in 0 .. Len(Program) + 1
    BY <1>1, ProgramLength
  <2>2. TypeOK'
    BY DEF IInv, TypeOK
  <2> QED BY <1>1, <2>1, <2>2, NotWaiting
<1>5. LagIsBroken'
  BY <1>1 DEF LagIsBroken
<1>6. OwnRequestOnly'
  BY DEF OwnRequestOnly, IInv, TypeOK
<1>7. HostInStep'
  BY <1>1, <1>2 DEF HostInStep
<1> QED BY <1>3, <1>4, <1>5, <1>6, <1>7 DEF IInv

LEMMA PostFailsStep == IInv /\ PostFails => IInv'
<1> SUFFICES ASSUME IInv, PostFails PROVE IInv'
  OBVIOUS
<1>1. /\ Throw /\ ~waiting /\ broken' = broken
      /\ UNCHANGED <<regs, running, net, noti, config>>
      /\ UNCHANGED <<info, response, local_info, node, in_step>>
  BY DEF PostFails, AtAccess, fpgaVars, portVars, callVars
<1>2. Len(net) \in Nat /\ noti \in Nat /\ broken \in Nat
  BY DEF IInv, TypeOK
<1>3. Len(net) + noti = broken
  BY <1>1, <1>2 DEF IInv, LagIsBroken
<1> QED BY <1>1, <1>2, <1>3, ThrowStep

LEMMA CompletionFailsStep == IInv /\ CompletionFails => IInv'
<1> SUFFICES ASSUME IInv, CompletionFails PROVE IInv'
  OBVIOUS
<1>1. /\ Throw /\ waiting /\ broken' = broken + 1
      /\ UNCHANGED <<regs, running, net, noti, config>>
      /\ UNCHANGED <<info, response, local_info, node, in_step>>
  BY DEF CompletionFails, fpgaVars, portVars, callVars
<1>2. Len(net) \in Nat /\ noti \in Nat /\ broken \in Nat
  BY DEF IInv, TypeOK
<1>3. Len(net) + noti = broken + 1
  BY <1>1, <1>2 DEF IInv, LagIsBroken
<1> QED BY <1>1, <1>2, <1>3, ThrowStep

LEMMA ConfigureStep == ASSUME IInv, NEW c \in Configs, Configure(c) PROVE IInv'
<1>1. /\ pc = 0 /\ pc' = 1 /\ result' = "none" /\ config' = c
      /\ UNCHANGED <<regs, running, net, noti, waiting, broken>>
      /\ UNCHANGED <<info, response, local_info, node, in_step>>
  BY DEF Configure, fpgaVars, portVars
<1>2. waiting = FALSE
  BY <1>1, ProgramLength DEF IInv, CallOK
<1>3. \A k \in 1 .. Len(Program) : ~Posted(k)' /\ ~(k < pc')
  BY <1>1, <1>2, ProgramLength DEF Posted
<1>4. (RegistersWritten /\ RingsInitialised /\ InitsPrepared /\ NoMixedRing)'
  BY <1>1, <1>3, QueueKept DEF IInv
<1>5. CallOK' /\ TypeOK'
  BY <1>1, <1>2, ProgramLength DEF IInv, CallOK, TypeOK
<1>6. LagIsBroken' /\ OwnRequestOnly'
  BY <1>1, <1>2 DEF IInv, LagIsBroken, OwnRequestOnly
<1>7. HostInStep'
  BY <1>1, <1>3 DEF HostInStep
<1> QED BY <1>4, <1>5, <1>6, <1>7 DEF IInv

LEMMA SkipStep == IInv /\ SkipCounterReset => IInv'
<1> SUFFICES ASSUME IInv, SkipCounterReset PROVE IInv'
  OBVIOUS
<1>1. PICK ring \in Rings : Step(CounterResetRegister(ring))
  BY DEF SkipCounterReset, Skipped
<1>2. /\ pc \in 1 .. Len(Program) /\ Program[pc] = CounterResetRegister(ring)
      /\ pc' = pc + 1 /\ waiting = FALSE /\ waiting' = FALSE
      /\ UNCHANGED <<regs, running, net, noti, config, broken, result>>
      /\ UNCHANGED <<info, response, local_info, node, in_step>>
  BY <1>1 DEF SkipCounterReset, Step, fpgaVars, portVars, callVars, IInv, CallOK
<1>3. ~Writes(pc) /\ \A other \in Rings : Program[pc] # HostReset(other)
  BY <1>2, StepKinds DEF Writes, CounterResetRegister
<1>4. ASSUME NEW k \in 1 .. Len(Program), k < pc' \/ Posted(k)'
      PROVE  k = pc \/ (k < pc /\ Posted(k))
  <2>1. pc' \in 0 .. Len(Program) + 1 /\ result # "returned" /\ pc' # 0
    BY <1>2, ProgramLength DEF IInv, CallOK
  <2>2. k < pc'
    BY <1>2, <1>4, <2>1, NotWaiting
  <2>3. k = pc \/ k < pc
    BY <1>2, <2>2, ProgramLength
  <2> QED BY <2>3, Zenon DEF Posted
<1>5. (RegistersWritten /\ RingsInitialised /\ InitsPrepared /\ NoMixedRing)'
  BY <1>2, <1>3, <1>4, QueueKept DEF IInv
<1>6. CallOK' /\ TypeOK'
  <2>1. pc' \in 0 .. Len(Program) + 1 /\ result' # "returned"
    BY <1>2, ProgramLength DEF IInv, CallOK
  <2>2. TypeOK'
    BY <1>2 DEF IInv, TypeOK
  <2> QED BY <1>2, <2>1, <2>2, NotWaiting
<1>7. LagIsBroken' /\ OwnRequestOnly'
  BY <1>2 DEF IInv, LagIsBroken, OwnRequestOnly
<1>8. HostInStep'
  BY <1>2, <1>3, <1>4 DEF IInv, HostInStep, Posted
<1> QED BY <1>5, <1>6, <1>7, <1>8 DEF IInv

LEMMA CompleteStep == IInv /\ Complete => IInv'
<1> SUFFICES ASSUME IInv, Complete PROVE IInv'
  OBVIOUS
<1>1. /\ waiting = TRUE /\ waiting' = FALSE /\ pc' = pc + 1
      /\ noti \in Nat /\ noti > 0 /\ noti' = noti - 1 /\ noti' \in Nat
      /\ UNCHANGED <<regs, running, net, config, broken, result>>
      /\ UNCHANGED <<info, response, node, in_step>>
  BY DEF Complete, fpgaVars, callVars, IInv, CallOK, TypeOK
<1>2. pc \in 1 .. Len(Program) /\ \A ring \in Rings : Program[pc] # HostReset(ring)
  BY <1>1 DEF IInv, CallOK
<1>3. \A k \in 1 .. Len(Program) : Posted(k)' => Posted(k)
  BY <1>1, <1>2, ProgramLength DEF Posted
<1>4. (RegistersWritten /\ RingsInitialised /\ InitsPrepared /\ NoMixedRing)'
  BY <1>1, <1>3, QueueKept DEF IInv
<1>5. CallOK'
  <2>1. pc' \in 0 .. Len(Program) + 1 /\ result' # "returned"
    BY <1>1, <1>2, ProgramLength DEF IInv, CallOK
  <2> QED BY <1>1, <2>1, NotWaiting
<1>6. TypeOK'
  <2>1. local_info' \in Bits
    BY DEF IInv, TypeOK, Complete
  <2> QED BY <1>1, <2>1 DEF IInv, TypeOK
<1>7. Len(net) \in Nat /\ broken \in Nat /\ Len(net) + noti = broken + 1
  BY <1>1 DEF IInv, TypeOK, LagIsBroken
<1>8. LagIsBroken'
  BY <1>1, <1>7 DEF LagIsBroken
<1>9. OwnRequestOnly'
  BY <1>1, <1>7 DEF OwnRequestOnly
<1>10. HostInStep'
  <2> SUFFICES ASSUME broken' = 0, NEW ring \in Rings, NEW k \in 1 .. Len(Program),
                      k < pc' \/ result' = "returned", Program[k] = HostReset(ring)
               PROVE  in_step'[ring]
    BY DEF HostInStep
  <2>1. k < pc \/ result = "returned"
    BY <1>1, <1>2, ProgramLength
  <2> QED BY <1>1, <2>1 DEF IInv, HostInStep
<1> QED BY <1>4, <1>5, <1>6, <1>8, <1>9, <1>10 DEF IInv

LEMMA ResetStep == ASSUME IInv, NEW ring \in Rings, ResetRing(ring) PROVE IInv'
<1>1. /\ pc \in 1 .. Len(Program) /\ Program[pc] = HostReset(ring)
      /\ pc' = pc + 1 /\ waiting = FALSE /\ waiting' = FALSE
      /\ UNCHANGED <<regs, running, net, noti, config, broken, result>>
      /\ UNCHANGED <<info, response, local_info, node>>
  BY DEF ResetRing, Step, fpgaVars, portVars, callVars, IInv, CallOK
<1>2. ~Writes(pc)
  BY <1>1, StepKinds DEF Writes
<1>3. result # "returned" /\ pc' \in 0 .. Len(Program) + 1
  BY <1>1, ProgramLength DEF IInv, CallOK
<1>4. CallOK' /\ \A k \in 1 .. Len(Program) : Posted(k)' => k < pc'
  BY <1>1, <1>3, NotWaiting
<1>5. (RegistersWritten /\ RingsInitialised /\ InitsPrepared /\ NoMixedRing)'
  <2>1. ASSUME NEW k \in 1 .. Len(Program), Posted(k)', Writes(k) PROVE Posted(k)
    <3>1. k < pc
      BY <1>1, <1>2, <1>4, <2>1, ProgramLength
    <3> QED BY <3>1, Zenon DEF Posted
  <2> QED BY <1>1, <2>1, QueueKept DEF IInv
<1>6. /\ DOMAIN in_step' = Rings
      /\ \A other \in Rings \ {ring} : in_step'[other] = in_step[other]
      /\ in_step'[ring] = \A i \in DOMAIN net : net[i].step # InitRegister(ring)
  BY DEF ResetRing, IInv, TypeOK
<1>7. TypeOK'
  BY <1>1, <1>6 DEF IInv, TypeOK
<1>8. LagIsBroken' /\ OwnRequestOnly'
  BY <1>1 DEF IInv, LagIsBroken, OwnRequestOnly
<1>9. HostInStep'
  <2> SUFFICES ASSUME broken' = 0, NEW other \in Rings, NEW k \in 1 .. Len(Program),
                      k < pc' \/ result' = "returned", Program[k] = HostReset(other)
               PROVE  in_step'[other]
    BY DEF HostInStep
  <2>1. CASE other = ring
    <3>1. DOMAIN net = 1 .. Len(net) /\ Len(net) \in Nat /\ noti \in Nat
      BY DEF IInv, TypeOK
    <3>2. Len(net) = 0
      BY <1>1, <3>1 DEF IInv, LagIsBroken
    <3> QED BY <1>6, <2>1, <3>1, <3>2
  <2>2. CASE other # ring
    <3>1. k # pc
      <4>1. HostReset(other) # HostReset(ring)
        BY <2>2, StepKinds
      <4> QED BY <1>1, <4>1
    <3>2. k < pc
      BY <1>1, <1>3, <3>1, ProgramLength
    <3> QED BY <1>1, <1>6, <2>2, <3>2 DEF IInv, HostInStep
  <2> QED BY <2>1, <2>2
<1> QED BY <1>4, <1>5, <1>7, <1>8, <1>9 DEF IInv

LEMMA ReturnStep == IInv /\ Return => IInv'
<1> SUFFICES ASSUME IInv, Return PROVE IInv'
  OBVIOUS
<1>1. /\ pc = Len(Program) + 1 /\ pc' = 0 /\ result' = "returned"
      /\ UNCHANGED <<regs, running, net, noti, config, broken, waiting>>
      /\ UNCHANGED <<info, response, local_info, node, in_step>>
  BY DEF Return, fpgaVars, portVars, callVars
<1>2. waiting = FALSE /\ waiting' = FALSE
  BY <1>1, ProgramLength DEF IInv, CallOK
<1>3. \A k \in 1 .. Len(Program) : k < pc
  BY <1>1, ProgramLength
<1>4. \A k \in 1 .. Len(Program) : Posted(k)
  BY <1>3, Zenon DEF Posted
<1>5. (RegistersWritten /\ RingsInitialised /\ InitsPrepared /\ NoMixedRing)'
  BY <1>1, <1>4, QueueKept DEF IInv
<1>6. CallOK' /\ TypeOK'
  <2>1. pc' \in 0 .. Len(Program) + 1
    BY <1>1, ProgramLength
  <2>2. TypeOK'
    BY <1>1 DEF IInv, TypeOK
  <2> QED BY <1>1, <1>2, <2>1, <2>2, NotWaiting
<1>7. LagIsBroken' /\ OwnRequestOnly'
  BY <1>1, <1>2 DEF IInv, LagIsBroken, OwnRequestOnly
<1>8. HostInStep'
  BY <1>1, <1>3 DEF IInv, HostInStep
<1> QED BY <1>5, <1>6, <1>7, <1>8 DEF IInv

LEMMA NewEndpointStep == ASSUME IInv, NEW n \in Nodes, NewEndpoint(n) PROVE IInv'
<1>1. /\ pc = 0 /\ pc' = 0 /\ result' = "none" /\ net = <<>> /\ node' = n
      /\ noti' = 0 /\ broken' = 0 /\ response' = IdWord
      /\ UNCHANGED <<regs, running, net, config, waiting>>
      /\ UNCHANGED <<info, local_info>>
      /\ DOMAIN in_step' = Rings
  BY DEF NewEndpoint, fpgaVars
<1>2. waiting = FALSE /\ waiting' = FALSE
  BY <1>1, ProgramLength DEF IInv, CallOK
<1>3. \A k \in 1 .. Len(Program) : ~(k < pc')
  BY <1>1, ProgramLength
<1>4. \A k \in 1 .. Len(Program) : ~Posted(k)'
  BY <1>1, <1>2, <1>3, Zenon DEF Posted
<1>5. (RegistersWritten /\ RingsInitialised /\ InitsPrepared /\ NoMixedRing)'
  BY <1>1, <1>4, QueueKept DEF IInv
<1>6. CallOK' /\ TypeOK'
  <2>1. pc' \in 0 .. Len(Program) + 1
    BY <1>1, ProgramLength
  <2>2. response' \in Bits
    BY <1>1 DEF IdWord, Bits, Word
  <2>3. TypeOK'
    BY <1>1, <2>2 DEF IInv, TypeOK
  <2> QED BY <1>1, <1>2, <2>1, <2>3, NotWaiting
<1>7. Len(net') = 0
  BY <1>1
<1>8. LagIsBroken' /\ OwnRequestOnly'
  BY <1>1, <1>2, <1>7 DEF LagIsBroken, OwnRequestOnly
<1>9. HostInStep'
  BY <1>1, <1>3 DEF HostInStep
<1> QED BY <1>5, <1>6, <1>8, <1>9 DEF IInv

LEMMA PostStep == IInv /\ Post => IInv'
<1> SUFFICES ASSUME IInv, Post PROVE IInv'
  OBVIOUS
<1> DEFINE x == [step |-> Program[pc], config |-> config, word |-> Argument]
<1>1. /\ pc \in 1 .. Len(Program) /\ waiting = FALSE /\ waiting' = TRUE
      /\ \A ring \in Rings : Program[pc] # HostReset(ring)
      /\ net' = Append(net, x)
      /\ UNCHANGED <<regs, running, noti, config, broken, result, pc>>
      /\ UNCHANGED <<info, response, local_info, node, in_step>>
  BY DEF Post, AtAccess, Step, fpgaVars, callVars, IInv, CallOK
<1>2. x \in Requests /\ x.step = Program[pc] /\ x.config = config
  <2>1. Argument \in Bits
    BY DEF Argument, Merge, ShiftUp, Bits, IInv, TypeOK
  <2> QED BY <1>1, <2>1 DEF Requests, IInv, TypeOK
<1> HIDE DEF x
<1>3. net \in Seq(Requests) /\ Len(net) \in Nat
  BY DEF IInv, TypeOK
<1>4. net' \in Seq(Requests) /\ Len(net') = Len(net) + 1
  BY <1>1, <1>2, <1>3, QueueAppended
<1>5. result # "returned" /\ \A k \in 1 .. Len(Program) : Posted(k)' => Posted(k) \/ k = pc
  <2>1. result # "returned"
    BY <1>1, ProgramLength DEF IInv, CallOK
  <2> QED BY <1>1, <2>1, Zenon DEF Posted
<1>6. \A r, c : \A i \in 0 .. Len(net) : WillHold(i, r, c) => WillHold(i, r, c)'
  BY <1>1, <1>2, <1>3, QueueAppended DEF WillHold
<1>7. ASSUME NEW s, NEW c, c = config, NEW d
      PROVE  /\ Program[pc] = s => LastIs(net', Len(net'), s, c)
             /\ Program[pc] # s =>
                  /\ LastIs(net, Len(net), s, d) => LastIs(net', Len(net'), s, d)
                  /\ NoneIs(net, Len(net), s) => NoneIs(net', Len(net'), s)
  BY <1>1, <1>2, <1>3, <1>4, <1>7, QueueAppended
<1>8. RegistersWritten'
  <2> SUFFICES ASSUME NEW k \in 1 .. Len(Program), Posted(k)', Program[k] \in Registers
               PROVE  WillHold(Len(net), Program[k], config)'
    BY DEF RegistersWritten
  <2>1. CASE Program[k] = Program[pc]
    BY <1>1, <1>7, <2>1 DEF WillHold
  <2>2. CASE Program[k] # Program[pc]
    <3>1. WillHold(Len(net), Program[k], config)
      BY <1>5, <2>2 DEF IInv, RegistersWritten
    <3> QED BY <1>1, <1>7, <2>2, <3>1 DEF WillHold
  <2> QED BY <2>1, <2>2
<1>9. RingsInitialised'
  <2> SUFFICES ASSUME NEW ring \in Rings, NEW k \in 1 .. Len(Program), Posted(k)',
                      Program[k] = InitRegister(ring)
               PROVE  WillRun(Len(net), ring, config)'
    BY DEF RingsInitialised
  <2>1. CASE Program[k] = Program[pc]
    BY <1>1, <1>7, <2>1 DEF WillRun
  <2>2. CASE Program[k] # Program[pc]
    <3>1. WillRun(Len(net), ring, config)
      BY <1>5, <2>2 DEF IInv, RingsInitialised
    <3> QED BY <1>1, <1>7, <2>2, <3>1 DEF WillRun
  <2> QED BY <2>1, <2>2
<1>10. InitsPrepared'
  <2> SUFFICES ASSUME NEW ring \in Rings, NEW i \in 1 .. Len(net'),
                      net'[i].step = InitRegister(ring), NEW r \in RingRegisters(ring)
               PROVE  WillHold(i - 1, r, net[i].config)'
    BY DEF InitsPrepared
  <2>0. i - 1 \in 0 .. Len(net)
    BY <1>3, <1>4
  <2>1. CASE i = Len(net) + 1
    <3>1. net'[i] = x
      BY <1>1, <1>2, <1>3, <2>1
    <3>2. PICK j \in 1 .. pc - 1 : Program[j] = r
      BY <1>1, <1>2, <3>1, InitOrder
    <3>3. j \in 1 .. Len(Program) /\ j < pc
      BY <1>1, ProgramLength
    <3>4. Posted(j)
      BY <3>3, Zenon DEF Posted
    <3>5. WillHold(Len(net), r, config)
      BY <3>2, <3>3, <3>4, StepKinds DEF IInv, RegistersWritten
    <3>6. Len(net) = i - 1 /\ net'[i].config = config
      BY <1>2, <1>3, <2>1, <3>1
    <3> QED BY <1>6, <2>0, <3>5, <3>6 DEF WillHold
  <2>2. CASE i # Len(net) + 1
    <3>1. i \in 1 .. Len(net) /\ net'[i] = net[i]
      BY <1>1, <1>2, <1>3, <1>4, <2>2
    <3>2. WillHold(i - 1, r, net[i].config)
      BY <3>1 DEF IInv, InitsPrepared
    <3> QED BY <1>6, <2>0, <3>1, <3>2 DEF WillHold
  <2> QED BY <2>1, <2>2
<1>11. CallOK'
  <2>1. pc' \in 1 .. Len(Program) /\ pc' \in 0 .. Len(Program) + 1
    BY <1>1, ProgramLength
  <2>2. result' # "returned" /\ \A ring \in Rings : Program[pc'] # HostReset(ring)
    BY <1>1, <1>5
  <2> QED BY <1>1, <2>1, <2>2, Zenon DEF CallOK
<1>12. TypeOK' /\ NoMixedRing'
  BY <1>1, <1>4 DEF IInv, TypeOK, NoMixedRing
<1>13. noti \in Nat /\ broken \in Nat /\ Len(net) + noti = broken
  BY <1>1, <1>3 DEF IInv, TypeOK, LagIsBroken
<1>14. LagIsBroken'
  BY <1>1, <1>3, <1>4, <1>13 DEF LagIsBroken
<1>15. OwnRequestOnly'
  <2> SUFFICES ASSUME broken = 0, NEW i \in 1 .. Len(net')
               PROVE  waiting' /\ pc' \in 1 .. Len(Program) /\ net'[i].step = Program[pc']
    BY <1>1 DEF OwnRequestOnly
  <2>1. Len(net) = 0 /\ i = Len(net) + 1
    BY <1>3, <1>4, <1>13
  <2>2. net'[i] = x
    BY <1>1, <1>2, <1>3, <2>1
  <2> QED BY <1>1, <1>2, <2>2
<1>16. HostInStep'
  BY <1>1 DEF IInv, HostInStep
<1> QED
  BY <1>8, <1>9, <1>10, <1>11, <1>12, <1>14, <1>15, <1>16 DEF IInv

LEMMA ServeStep == IInv /\ Serve => IInv'
<1> SUFFICES ASSUME IInv, Serve PROVE IInv'
  OBVIOUS
<1> DEFINE x == Head(net)
<1>1. /\ net # <<>> /\ net' = Tail(net) /\ noti' = noti + 1
      /\ UNCHANGED <<config, waiting, broken, result, pc, node, local_info>>
      /\ DOMAIN regs' = Registers
      /\ \A r \in Registers : regs'[r] = IF x.step = r THEN x.config ELSE regs[r]
      /\ DOMAIN running' = Rings /\ DOMAIN in_step' = Rings
      /\ \A ring \in Rings : running'[ring] =
            IF x.step = InitRegister(ring) THEN [r \in RingRegisters(ring) |-> regs[r]]
                                           ELSE running[ring]
      /\ \A ring \in Rings : in_step'[ring] = (in_step[ring] /\ x.step # InitRegister(ring))
      /\ info' = IF x.step = "Info" THEN Replace(info, 24, 16, Get(x.word, 24, 16)) ELSE info
      /\ response' = IF x.step = "ReadInfo" THEN info ELSE response
  BY DEF Serve, callVars
<1>2. net \in Seq(Requests) /\ Len(net) \in Nat
  BY DEF IInv, TypeOK
<1>3. /\ net' \in Seq(Requests) /\ Len(net') = Len(net) - 1 /\ Len(net) >= 1
      /\ x = net[1] /\ x \in Requests
      /\ \A i \in 1 .. Len(net) - 1 : net'[i] = net[i + 1]
  BY <1>1, <1>2, QueueServed
<1> HIDE DEF x
<1>4. \A s, c : \A i \in 1 .. Len(net) :
        /\ LastIs(net, i, s, c) =>
             \/ LastIs(net', i - 1, s, c)
             \/ x.step = s /\ x.config = c /\ NoneIs(net', i - 1, s)
        /\ NoneIs(net, i, s) => x.step # s /\ NoneIs(net', i - 1, s)
  BY <1>1, <1>2, QueueServed DEF x
<1>5. ASSUME NEW r \in Registers, NEW c, NEW i \in 1 .. Len(net), WillHold(i, r, c)
      PROVE  LastIs(net', i - 1, r, c) \/ (NoneIs(net', i - 1, r) /\ regs'[r] = c)
  BY <1>1, <1>4, <1>5 DEF WillHold
<1>6. Len(net) \in 1 .. Len(net)
  BY <1>2, <1>3
<1>7. RegistersWritten'
  <2> SUFFICES ASSUME NEW k \in 1 .. Len(Program), Posted(k)', Program[k] \in Registers
               PROVE  WillHold(Len(net), Program[k], config)'
    BY DEF RegistersWritten
  <2>1. Posted(k)
    BY <1>1 DEF Posted
  <2>2. WillHold(Len(net), Program[k], config)
    BY <2>1 DEF IInv, RegistersWritten
  <2> QED BY <1>1, <1>3, <1>5, <1>6, <2>2 DEF WillHold
\* An Init that is served finds its registers written.
<1>8. ASSUME NEW ring \in Rings, x.step = InitRegister(ring)
      PROVE  \A r \in RingRegisters(ring) : running'[ring][r] = x.config
  <2> SUFFICES ASSUME NEW r \in RingRegisters(ring) PROVE regs[r] = x.config
    BY <1>1, <1>8
  <2>1. 1 \in 1 .. Len(net) /\ net[1].step = InitRegister(ring) /\ 1 - 1 = 0
    BY <1>3, <1>6, <1>8
  <2>2. WillHold(0, r, x.config)
    BY <1>3, <2>1 DEF IInv, InitsPrepared
  <2>3. ~\E j \in 1 .. 0 : TRUE
    OBVIOUS
  <2> QED BY <2>2, <2>3 DEF WillHold, LastIs
<1>9. RingsInitialised'
  <2> SUFFICES ASSUME NEW ring \in Rings, NEW k \in 1 .. Len(Program), Posted(k)',
                      Program[k] = InitRegister(ring)
               PROVE  WillRun(Len(net), ring, config)'
    BY DEF RingsInitialised
  <2>1. Posted(k)
    BY <1>1 DEF Posted
  <2>2. WillRun(Len(net), ring, config)
    BY <2>1 DEF IInv, RingsInitialised
  <2>3. CASE LastIs(net, Len(net), InitRegister(ring), config)
    <3>1. \/ LastIs(net', Len(net'), InitRegister(ring), config)
          \/ /\ x.step = InitRegister(ring) /\ x.config = config
             /\ NoneIs(net', Len(net'), InitRegister(ring))
      BY <1>3, <1>4, <1>6, <2>3
    <3> QED BY <1>1, <1>8, <3>1 DEF WillRun
  <2>4. CASE /\ NoneIs(net, Len(net), InitRegister(ring))
             /\ \A r \in RingRegisters(ring) : running[ring][r] = config
    <3>1. x.step # InitRegister(ring) /\ NoneIs(net', Len(net'), InitRegister(ring))
      BY <1>3, <1>4, <1>6, <2>4
    <3> QED BY <1>1, <2>4, <3>1 DEF WillRun
  <2> QED BY <2>2, <2>3, <2>4 DEF WillRun
<1>10. InitsPrepared'
  <2> SUFFICES ASSUME NEW ring \in Rings, NEW i \in 1 .. Len(net'),
                      net'[i].step = InitRegister(ring), NEW r \in RingRegisters(ring)
               PROVE  WillHold(i - 1, r, net[i].config)'
    BY DEF InitsPrepared
  <2>1. i + 1 \in 1 .. Len(net) /\ i \in 1 .. Len(net) /\ net'[i] = net[i + 1]
        /\ (i + 1) - 1 = i
    BY <1>2, <1>3
  <2>2. WillHold(i, r, net[i + 1].config)
    BY <2>1 DEF IInv, InitsPrepared
  <2>3. r \in Registers
    BY StepKinds
  <2> QED BY <1>5, <2>1, <2>2, <2>3 DEF WillHold
<1>11. NoMixedRing'
  <2> SUFFICES ASSUME NEW ring \in Rings, running'[ring] # None
               PROVE  \E c \in Configs : \A r \in RingRegisters(ring) : running'[ring][r] = c
    BY DEF NoMixedRing
  <2>1. CASE x.step = InitRegister(ring)
    BY <1>3, <1>8, <2>1 DEF Requests
  <2>2. CASE x.step # InitRegister(ring)
    BY <1>1, <2>2 DEF IInv, NoMixedRing
  <2> QED BY <2>1, <2>2
<1>12. CallOK'
  BY <1>1 DEF IInv, CallOK
<1>13. TypeOK'
  <2>1. info' \in Bits /\ response' \in Bits
    BY <1>1 DEF Replace, ShiftUp, Bits, IInv, TypeOK
  <2>2. noti' \in Nat
    BY <1>1 DEF IInv, TypeOK
  <2> QED BY <1>1, <1>3, <2>1, <2>2 DEF IInv, TypeOK
<1>14. LagIsBroken'
  BY <1>1, <1>2, <1>3 DEF IInv, TypeOK, LagIsBroken
<1>15. OwnRequestOnly'
  <2> SUFFICES ASSUME broken = 0, NEW i \in 1 .. Len(net')
               PROVE  waiting' /\ pc' \in 1 .. Len(Program) /\ net'[i].step = Program[pc']
    BY <1>1 DEF OwnRequestOnly
  <2>1. i + 1 \in 1 .. Len(net) /\ net'[i] = net[i + 1]
    BY <1>2, <1>3
  <2> QED BY <1>1, <2>1 DEF IInv, OwnRequestOnly
<1>16. HostInStep'
  <2> SUFFICES ASSUME broken = 0, NEW ring \in Rings, NEW k \in 1 .. Len(Program),
                      k < pc \/ result = "returned", Program[k] = HostReset(ring)
               PROVE  in_step'[ring]
    BY <1>1 DEF HostInStep
  <2>1. in_step[ring]
    BY DEF IInv, HostInStep
  <2>2. 1 \in 1 .. Len(net)
    BY <1>2, <1>3
  <2>3. pc \in 1 .. Len(Program) /\ x.step = Program[pc]
    BY <1>3, <2>2 DEF IInv, OwnRequestOnly
  <2>4. k \in 1 .. pc
    BY <2>3, ProgramLength DEF IInv, CallOK
  <2>5. x.step # InitRegister(ring)
    BY <2>3, <2>4, InitOrder
  <2> QED BY <1>1, <2>1, <2>5
<1> QED
  BY <1>7, <1>9, <1>10, <1>11, <1>12, <1>13, <1>14, <1>15, <1>16 DEF IInv

LEMMA NextIInv == IInv /\ [Next]_vars => IInv'
<1> SUFFICES ASSUME IInv, [Next]_vars PROVE IInv'
  OBVIOUS
<1>1. CASE UNCHANGED vars
  <2>1. /\ UNCHANGED <<regs, running, net, noti, config, waiting, broken, result, pc>>
        /\ UNCHANGED <<info, response, local_info, node, in_step>>
    BY <1>1 DEF vars
  <2>2. (RegistersWritten /\ RingsInitialised /\ InitsPrepared /\ NoMixedRing)'
    BY <2>1, QueueKept DEF IInv, Posted
  <2>3. (CallOK /\ TypeOK /\ LagIsBroken /\ OwnRequestOnly /\ HostInStep)'
    BY <2>1 DEF IInv, CallOK, TypeOK, LagIsBroken, OwnRequestOnly, HostInStep
  <2> QED BY <2>2, <2>3 DEF IInv
<1> QED
  BY <1>1, ServeStep, ConfigureStep, SkipStep, PostStep, PostFailsStep, CompleteStep,
     CompletionFailsStep, ResetStep, ReturnStep, NewEndpointStep DEF Next, Access

-----------------------------------------------------------------------------
\* The inductive invariant holds however often configure_fpga is called and
\* broken off, and whatever is still on its way.
LEMMA InductiveInvariant == Spec => []IInv
  BY InitIInv, NextIInv, PTL DEF Spec

\* What a call that returned has left on its way leads to its configuration.
LEMMA ReturnedWillHold ==
    ASSUME IInv, result = "returned"
    PROVE  /\ \A r \in Registers : WillHold(Len(net), r, config)
           /\ \A ring \in Rings : WillRun(Len(net), ring, config)
<1>1. \A k \in 1 .. Len(Program) : Posted(k)
  BY DEF Posted
<1> QED BY <1>1, ProgramComplete DEF IInv, RegistersWritten, RingsInitialised

LEMMA NothingOnItsWay ==
    ASSUME IInv, result = "returned", Len(net) = 0
    PROVE  /\ \A r \in Registers : regs[r] = config
           /\ \A ring \in Rings : \A r \in RingRegisters(ring) : running[ring][r] = config
<1>1. ~\E j \in 1 .. Len(net) : TRUE
  OBVIOUS
<1> QED BY <1>1, ReturnedWillHold DEF WillHold, WillRun, LastIs

\* Each access that throws behind its post leaves one request or notification,
\* for ever: the later accesses of that Endpoint are behind by so many.
THEOREM LagIsWhatWasBroken == Spec => []LagIsBroken
  BY InductiveInvariant, PTL DEF IInv

\* No ring of the FPGA is ever started with registers of two configurations:
\* configure_fpga writes all registers of a ring again before its Init register,
\* so what an earlier call that threw left there is never used.
THEOREM RingsNotMixed == Spec => []NoMixedRing
  BY InductiveInvariant, PTL DEF IInv

\* A call of configure_fpga that returns, on an Endpoint none of whose accesses
\* threw behind its post, leaves every register, both rings and the host's read
\* positions as its argument says.
THEOREM ReturnsConfigured == Spec => []ReturnedIsConfigured
<1>1. IInv => ReturnedIsConfigured
  <2> SUFFICES ASSUME IInv, broken = 0, result = "returned"
               PROVE  /\ \A r \in Registers : regs[r] = config
                      /\ \A ring \in Rings :
                           /\ in_step[ring]
                           /\ \A r \in RingRegisters(ring) : running[ring][r] = config
    BY DEF ReturnedIsConfigured
  <2>1. pc = 0 /\ ~waiting
    BY ProgramLength DEF IInv, CallOK
  <2>2. Len(net) = 0
    BY <2>1 DEF IInv, TypeOK, LagIsBroken
  <2>3. \A ring \in Rings : in_step[ring]
    BY ProgramComplete DEF IInv, HostInStep
  <2> QED BY <2>2, <2>3, NothingOnItsWay
<1> QED BY <1>1, InductiveInvariant, PTL

\* Whatever accesses threw behind their post, a call that returned has posted
\* all its requests, in order and behind all older ones: when the FPGA has served
\* them, its registers and rings have the argument's configuration.
THEOREM ServesConfigured == Spec => []ServedIsConfigured
<1>1. IInv => ServedIsConfigured
  <2> SUFFICES ASSUME IInv, result = "returned", net = <<>>
               PROVE  /\ \A r \in Registers : regs[r] = config
                      /\ \A ring \in Rings : \A r \in RingRegisters(ring) :
                             running[ring][r] = config
    BY DEF ServedIsConfigured
  <2>1. Len(net) = 0
    OBVIOUS
  <2> QED BY <2>1, NothingOnItsWay
<1> QED BY <1>1, InductiveInvariant, PTL

\* The default notification frequency of PartnerHostConfiguration, a number of
\* packets of 62 quad words, comes before the default threshold.
LEMMA DefaultsNotify ==
    ASSUME NEW pages \in Nat
    PROVE  LET n == RingDefaults(pages) IN
           n.frequency * PacketQw * QuadWord + n.threshold <= n.capacity
<1> DEFINE words == (pages * 4096) \div 8
           q     == words \div 62
<1>1. words \in Nat /\ 8 * words <= pages * 4096
  OBVIOUS
<1> HIDE DEF words
<1>2. q \in Nat /\ 62 * q <= words
  BY <1>1
<1> HIDE DEF q
<1>3. (q - 8) * 62 * 8 + 1984 <= pages * 4096
  BY <1>1, <1>2
<1>4. /\ RingDefaults(pages).frequency = q - 8
      /\ RingDefaults(pages).threshold = 1984
      /\ RingDefaults(pages).capacity = pages * 4096
  BY DEF RingDefaults, PageSize, QuadWord, PacketQw, words, q
<1> QED BY <1>3, <1>4 DEF PacketQw, QuadWord

\* Rings of any number of pages, with the default numbers, announce their
\* packets before they are full up to the threshold.
THEOREM NotifiesInTime == Spec => []NotifiedBeforeThreshold
<1>1. IInv => NotifiedBeforeThreshold
  <2> SUFFICES ASSUME config \in Configs, NEW ring \in Rings
               PROVE  LET n == config[ring] IN
                      n.frequency * PacketQw * QuadWord + n.threshold <= n.capacity
    BY DEF IInv, TypeOK, NotifiedBeforeThreshold
  <2>1. PICK p \in Partners, reset \in SUBSET Rings : config = Filled(p, reset)
    BY DEF Configs
  <2>2. \/ config[ring] = RingDefaults(HicannPages)
        \/ config[ring] = RingDefaults(TracePages)
    BY <2>1 DEF Filled, Rings
  <2> QED BY <2>2, DefaultsNotify, PagesAssumption
<1> QED BY <1>1, InductiveInvariant, PTL
=============================================================================

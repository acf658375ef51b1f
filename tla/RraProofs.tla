----------------------------- MODULE RraProofs -----------------------------
(***************************************************************************)
(* Proofs about Rra: as long as every call completed, one call has at most   *)
(* one request, answer or notification under way, and it is its own.        *)
(***************************************************************************)
EXTENDS Rra, TLAPS

\* The typing needs to know that a notification found is still there when it
\* is freed, for noti not to wrap.
FoundIsThere == pc = "free" => noti > 0
IType == TypeOK /\ FoundIsThere

LEMMA NoArgumentIsValue == NoArgument \in Values
  BY RraAssumption DEF NoArgument

LEMMA HeadTail ==
  ASSUME NEW S, NEW q \in Seq(S), q # <<>>
  PROVE  Head(q) \in S /\ Tail(q) \in Seq(S)
  OBVIOUS

LEMMA AppendType ==
  ASSUME NEW S, NEW q \in Seq(S), NEW e \in S
  PROVE  Append(q, e) \in Seq(S)
  OBVIOUS

\* What Serve makes of a request.
LEMMA ServedRequest ==
  ASSUME NEW f \in [Registers -> Values], NEW q \in Request
  PROVE  /\ [f EXCEPT ![q.reg] = q.value] \in [Registers -> Values]
         /\ [op |-> q.op, reg |-> q.reg, value |-> f[q.reg],
             notify |-> q.notify] \in Request
  BY DEF Request

\* The records the calls build.
LEMMA Argument ==
  ASSUME NEW c \in Calls PROVE c.value \in Values /\ c.reg \in Registers
  BY DEF Calls

LEMMA ResultOf ==
  ASSUME NEW c \in Calls, NEW v \in Values, NEW b \in BOOLEAN
  PROVE  [op |-> c.op, reg |-> c.reg, value |-> v, ok |-> b] \in Results
  BY DEF Calls, Results

LEMMA RequestOf ==
  ASSUME NEW c \in Calls, NEW op \in {"get", "put"}
  PROVE  [op |-> op, reg |-> c.reg, value |-> c.value, notify |-> TRUE] \in Request
  BY DEF Calls, Request

LEMMA PostType ==
  ASSUME IType, NEW c \in Calls, NEW op \in {"get", "put"}, Post(op, c, TRUE)
  PROVE  net' \in Seq(Request)
<1>1. [op |-> op, reg |-> c.reg, value |-> c.value, notify |-> TRUE] \in Request
  BY RequestOf
<1>2. net \in Seq(Request)
  BY DEF IType, TypeOK
<1> QED BY <1>1, <1>2, AppendType DEF Post

LEMMA ReturnType ==
  ASSUME IType, NEW v \in Values, Return(v)
  PROVE  last' \in Results
  BY ResultOf DEF Return, IType, TypeOK

LEMMA FailType ==
  ASSUME IType, Fail
  PROVE  last' \in Results
  BY ResultOf, Argument DEF Fail, IType, TypeOK

LEMMA InitType == Init => IType
  BY NoArgumentIsValue, RraAssumption
  DEF Init, IType, TypeOK, FoundIsThere, Steps, Calls, Results, Request

LEMMA NextType == IType /\ [Next]_vars => IType'
<1> SUFFICES ASSUME IType, [Next]_vars PROVE IType'
  OBVIOUS
<1> USE NoArgumentIsValue, RraAssumption
    DEF IType, TypeOK, FoundIsThere, Steps,
        fpgaVars, hostVars, bounds
<1>1. CASE Serve
  <2>1. Head(net) \in Request /\ Tail(net) \in Seq(Request)
    BY <1>1, HeadTail DEF Serve
  <2>2. regs' \in [Registers -> Values]
    BY <1>1, <2>1, ServedRequest DEF Serve
  <2>3. [op |-> Head(net).op, reg |-> Head(net).reg,
         value |-> regs'[Head(net).reg], notify |-> Head(net).notify] \in Request
    BY <2>1, <2>2, ServedRequest
  <2>4. back' \in Seq(Request)
    BY <1>1, <2>3, AppendType DEF Serve
  <2> QED BY <1>1, <2>1, <2>2, <2>4 DEF Serve
<1>2. CASE Deliver
  <2>1. Head(back) \in Request /\ Tail(back) \in Seq(Request)
    BY <1>2, HeadTail DEF Deliver
  <2>2. response' \in Values
    BY <1>2, <2>1 DEF Deliver, Request
  <2> QED BY <1>2, <2>1, <2>2 DEF Deliver
<1>3. CASE PostPing
  <2>1. call' \in Calls
    BY <1>3 DEF PostPing, Begin, Calls
  <2>2. net' \in Seq(Request)
    BY <1>3, <2>1, PostType DEF PostPing
  <2>3. faults' \in 0..MaxFaults /\ calls' \in 0..MaxCalls
    BY <1>3 DEF PostPing, Begin, Fault, Post
  <2> QED BY <1>3, <2>1, <2>2, <2>3 DEF PostPing
<1>4. CASE ProbeNothing
  BY <1>4 DEF ProbeNothing
<1>5. CASE Sleep
  <2>1. i' \in Nat
    BY <1>5 DEF Sleep
  <2> QED BY <1>5, <2>1 DEF Sleep
<1>6. CASE PingTrue
  <2>1. last' \in Results /\ pc' = "idle"
    BY <1>6, Argument, ReturnType DEF PingTrue, Return
  <2>2. noti' \in Nat
    BY <1>6 DEF PingTrue
  <2> QED BY <1>6, <2>1, <2>2 DEF PingTrue
<1>7. CASE PingProbeError
  <2>1. last' \in Results /\ pc' = "idle"
    BY <1>7, Argument, ReturnType DEF PingProbeError, Return
  <2>2. noti' = noti \/ (noti > 0 /\ noti' = noti - 1)
    BY <1>7 DEF PingProbeError
  <2>3. noti' \in Nat /\ faults' \in 0..MaxFaults
    BY <1>7, <2>2 DEF PingProbeError, Fault
  <2> QED BY <1>7, <2>1, <2>3 DEF PingProbeError
<1>8. CASE PingFalse
  <2>1. last' \in Results /\ pc' = "idle"
    BY <1>8, FailType DEF PingFalse, Fail
  <2> QED BY <1>8, <2>1 DEF PingFalse
<1>9. ASSUME NEW r \in Registers, PostRead(r) PROVE IType'
  <2>1. call' \in Calls
    BY <1>9 DEF PostRead, Begin, Calls
  <2>2. net' \in Seq(Request)
    BY <1>9, <2>1, PostType DEF PostRead
  <2>3. calls' \in 0..MaxCalls
    BY <1>9 DEF PostRead, Begin
  <2> QED BY <1>9, <2>1, <2>2, <2>3 DEF PostRead
<1>10. ASSUME NEW r \in Registers, NEW v \in Values, PostWrite(r, v) PROVE IType'
  <2>1. call' \in Calls
    BY <1>10 DEF PostWrite, Begin, Calls
  <2>2. net' \in Seq(Request)
    BY <1>10, <2>1, PostType DEF PostWrite
  <2>3. calls' \in 0..MaxCalls
    BY <1>10 DEF PostWrite, Begin
  <2> QED BY <1>10, <2>1, <2>2, <2>3 DEF PostWrite
<1>11. ASSUME NEW c \in Calls, PostFails(c) PROVE IType'
  <2>1. last' \in Results
    BY <1>11, ResultOf, Argument DEF PostFails
  <2>2. calls' \in 0..MaxCalls /\ faults' \in 0..MaxFaults /\ call' \in Calls
    BY <1>11 DEF PostFails, Begin, Fault
  <2> QED BY <1>11, <2>1, <2>2 DEF PostFails
<1>12. CASE GetBlock
  BY <1>12 DEF GetBlock
<1>13. CASE CompletionFails
  <2>1. last' \in Results /\ pc' = "idle"
    BY <1>13, FailType DEF CompletionFails, Fail
  <2>2. faults' \in 0..MaxFaults
    BY <1>13 DEF CompletionFails, Fault
  <2> QED BY <1>13, <2>1, <2>2 DEF CompletionFails
<1>15. CASE FreeRead
  <2>1. noti' \in Nat
    BY <1>15 DEF FreeRead
  <2> QED BY <1>15, <2>1 DEF FreeRead
<1>16. CASE FreeWrite
  <2>1. last' \in Results /\ pc' = "idle"
    BY <1>16, Argument, ReturnType DEF FreeWrite, Return
  <2>2. noti' \in Nat
    BY <1>16 DEF FreeWrite
  <2> QED BY <1>16, <2>1, <2>2 DEF FreeWrite
<1>17. CASE ReadResponse
  <2>1. last' \in Results /\ pc' = "idle"
    BY <1>17, ReturnType DEF ReadResponse, Return
  <2> QED BY <1>17, <2>1 DEF ReadResponse
<1>18. \A r \in Registers, v \in Values :
          /\ [op |-> "read", reg |-> r, value |-> NoArgument] \in Calls
          /\ [op |-> "write", reg |-> r, value |-> v] \in Calls
  BY DEF Calls
<1>14. CASE UNCHANGED vars
  BY <1>14 DEF vars
<1> QED
  BY <1>1, <1>2, <1>3, <1>4, <1>5, <1>6, <1>7, <1>8, <1>9, <1>10, <1>11,
     <1>12, <1>13, <1>14, <1>15, <1>16, <1>17, <1>18 DEF Next, Ping, Begins, Completes

\* Every variable keeps its type; the count of notifications never wraps.
THEOREM TypeCorrect == Spec => []TypeOK
  BY InitType, NextType, PTL DEF Spec, IType

-----------------------------------------------------------------------------
\* What the call under way has done to the register file once it was served.
Served == call.op = "write" => regs[call.reg] = call.value

\* The one request of a call: on its way, answered, or notified.
OnItsWay ==
    /\ net = <<[op     |-> IF call.op = "write" THEN "put" ELSE "get",
               reg    |-> call.reg,
               value  |-> call.value,
               notify |-> TRUE]>>
    /\ back = <<>> /\ noti = 0
Answered ==
    /\ net = <<>> /\ noti = 0 /\ Served
    /\ back = <<[op     |-> IF call.op = "write" THEN "put" ELSE "get",
                reg    |-> call.reg,
                value  |-> regs[call.reg],
                notify |-> TRUE]>>
Notified ==
    /\ net = <<>> /\ back = <<>> /\ noti = 1 /\ Served
    /\ call.op # "write" => response = regs[call.reg]
Nothing == net = <<>> /\ back = <<>> /\ noti = 0

\* Where the request of a call is, by the step the call has reached.
Pairing ==
    /\ pc = "idle" => Nothing
    /\ pc \in {"probe", "sleep"} => call.op = "ping"
    /\ pc \in {"probe", "sleep"} => OnItsWay \/ Answered \/ Notified \/ Nothing
    /\ pc \in {"block", "free"} => call.op \in {"read", "write"}
    /\ pc = "block" => OnItsWay \/ Answered \/ Notified
    /\ pc = "free"  => Notified
    /\ pc = "fetch" => call.op = "read" /\ Nothing /\ response = regs[call.reg]

\* What the last call returned agrees with the register file until the next.
LastAgrees ==
    pc = "idle" /\ last.op \in {"read", "write"} /\ last.ok =>
        last.value = regs[last.reg]

IInv == IType /\ (clean => Pairing /\ LastAgrees)

LEMMA InitIInv == Init => IInv
  BY InitType DEF Init, IInv, Pairing, LastAgrees, Nothing

LEMMA NextIInv == IInv /\ [Next]_vars => IInv'
<1> SUFFICES ASSUME IInv, [Next]_vars, clean' PROVE (Pairing /\ LastAgrees)'
  BY NextType DEF IInv
<1>0. TypeOK /\ TypeOK' /\ FoundIsThere
  BY NextType DEF IInv, IType
<1>c. clean
  BY DEF Next, vars, Serve, Deliver, Ping, PostPing, ProbeNothing, Sleep,
     PingTrue, PingProbeError, PingFalse, Begins, PostRead, PostFails,
     PostWrite, Completes, GetBlock, CompletionFails, FreeRead, FreeWrite,
     ReadResponse
<1>p. Pairing /\ LastAgrees
  BY <1>c DEF IInv
<1> USE DEF fpgaVars, hostVars, bounds
<1>1. CASE Serve
  <2>1. OnItsWay
    BY <1>0, <1>1, <1>p DEF Serve, Pairing, Answered, Notified, Nothing, TypeOK, Steps
  <2>2. pc # "idle" /\ pc # "free" /\ pc # "fetch"
    BY <1>p, <2>1 DEF Pairing, OnItsWay, Notified, Nothing
  <2>3. /\ Head(net).op = (IF call.op = "write" THEN "put" ELSE "get")
        /\ Head(net).reg = call.reg /\ Head(net).value = call.value
        /\ Head(net).notify = TRUE /\ Tail(net) = <<>>
    BY <2>1 DEF OnItsWay
  <2>4. call.reg \in Registers /\ regs \in [Registers -> Values]
    BY <1>0, Argument DEF TypeOK
  <2>5. Served'
    BY <1>1, <2>3, <2>4 DEF Serve, Served
  <2>6. back' = <<[op     |-> IF call.op = "write" THEN "put" ELSE "get",
                   reg    |-> call.reg,
                   value  |-> regs'[call.reg],
                   notify |-> TRUE]>>
    <3>1. back' = Append(back, [op     |-> Head(net).op,
                                reg    |-> Head(net).reg,
                                value  |-> regs'[Head(net).reg],
                                notify |-> Head(net).notify])
      BY <1>1 DEF Serve
    <3>2. back' = Append(back, [op     |-> IF call.op = "write" THEN "put" ELSE "get",
                                reg    |-> call.reg,
                                value  |-> regs'[call.reg],
                                notify |-> TRUE])
      BY <2>3, <3>1
    <3>3. back = <<>>
      BY <2>1 DEF OnItsWay
    <3> QED BY <3>2, <3>3
  <2>7. Answered'
    BY <1>1, <2>1, <2>3, <2>5, <2>6 DEF Serve, Answered, OnItsWay
  <2> QED BY <1>1, <1>p, <2>2, <2>7 DEF Serve, Pairing, LastAgrees
<1>2. CASE Deliver
  <2>1. Answered
    BY <1>0, <1>2, <1>p DEF Deliver, Pairing, OnItsWay, Notified, Nothing, TypeOK, Steps
  <2>2. pc # "idle" /\ pc # "free" /\ pc # "fetch"
    BY <1>p, <2>1 DEF Pairing, Answered, Notified, Nothing
  <2>3. /\ Head(back).op = (IF call.op = "write" THEN "put" ELSE "get")
        /\ Head(back).value = regs[call.reg]
        /\ Head(back).notify = TRUE /\ Tail(back) = <<>>
    BY <2>1 DEF Answered
  <2>4. Notified'
    BY <1>2, <2>1, <2>3 DEF Deliver, Answered, Notified, Served
  <2> QED BY <1>2, <1>p, <2>2, <2>4 DEF Deliver, Pairing, LastAgrees
<1>3. CASE PostPing
  <2>1. Nothing /\ call'.op = "ping" /\ pc' = "probe"
    BY <1>3, <1>p DEF PostPing, Begin, Pairing
  <2>2. CASE Post("get", call', TRUE)
    <3>1. OnItsWay'
      BY <1>3, <2>1, <2>2 DEF PostPing, Post, OnItsWay, Nothing
    <3> QED BY <2>1, <3>1 DEF Pairing, LastAgrees
  <2>3. CASE UNCHANGED net
    <3>1. Nothing'
      BY <1>3, <2>1, <2>3 DEF PostPing, Nothing
    <3> QED BY <2>1, <3>1 DEF Pairing, LastAgrees
  <2> QED BY <1>3, <2>2, <2>3 DEF PostPing
<1>4. CASE ProbeNothing \/ Sleep
  BY <1>4, <1>p DEF ProbeNothing, Sleep, Pairing, LastAgrees, OnItsWay,
     Answered, Notified, Nothing, Served
<1>5. CASE PingTrue
  <2>1. Notified /\ call.op = "ping"
    BY <1>5, <1>p DEF PingTrue, Pairing, OnItsWay, Answered, Nothing
  <2>2. Nothing' /\ pc' = "idle" /\ last'.op = "ping"
    BY <1>5, <2>1 DEF PingTrue, Return, Notified, Nothing
  <2> QED BY <2>2 DEF Pairing, LastAgrees
<1>6. CASE PingProbeError \/ PingFalse \/ CompletionFails
  BY <1>6 DEF PingProbeError, PingFalse, CompletionFails
<1>7. ASSUME NEW r \in Registers, PostRead(r)
      PROVE  (Pairing /\ LastAgrees)'
  <2>1. Nothing /\ call'.op = "read" /\ pc' = "block"
    BY <1>7, <1>p DEF PostRead, Begin, Pairing
  <2>2. OnItsWay'
    BY <1>7, <2>1 DEF PostRead, Post, OnItsWay, Nothing
  <2> QED BY <2>1, <2>2 DEF Pairing, LastAgrees
<1>8. ASSUME NEW r \in Registers, NEW v \in Values, PostWrite(r, v)
      PROVE  (Pairing /\ LastAgrees)'
  <2>1. Nothing /\ call'.op = "write" /\ pc' = "block"
    BY <1>8, <1>p DEF PostWrite, Begin, Pairing
  <2>2. OnItsWay'
    BY <1>8, <2>1 DEF PostWrite, Post, OnItsWay, Nothing
  <2> QED BY <2>1, <2>2 DEF Pairing, LastAgrees
<1>9. ASSUME NEW c \in Calls, PostFails(c)
      PROVE  (Pairing /\ LastAgrees)'
  <2>1. Nothing' /\ pc' = "idle" /\ ~last'.ok
    BY <1>9, <1>p DEF PostFails, Begin, Pairing, Nothing
  <2> QED BY <2>1 DEF Pairing, LastAgrees
<1>10. CASE GetBlock
  <2>1. Notified /\ call.op \in {"read", "write"}
    BY <1>10, <1>p DEF GetBlock, Pairing, OnItsWay, Answered
  <2>2. Notified'
    BY <1>10, <2>1 DEF GetBlock, Notified, Served
  <2> QED BY <1>10, <2>1, <2>2 DEF GetBlock, Pairing, LastAgrees
<1>11. CASE FreeRead
  BY <1>11, <1>p DEF FreeRead, Pairing, LastAgrees, Notified, Nothing
<1>12. CASE FreeWrite
  <2>1. Nothing' /\ pc' = "idle" /\ last'.value = regs'[last'.reg]
    BY <1>12, <1>p DEF FreeWrite, Return, Pairing, Notified, Nothing, Served
  <2> QED BY <2>1 DEF Pairing, LastAgrees
<1>13. CASE ReadResponse
  <2>1. Nothing' /\ pc' = "idle" /\ last'.value = regs'[last'.reg]
    BY <1>13, <1>p DEF ReadResponse, Return, Pairing, Nothing
  <2> QED BY <2>1 DEF Pairing, LastAgrees
<1>14. CASE UNCHANGED vars
  BY <1>14, <1>p DEF vars, Pairing, LastAgrees, OnItsWay, Answered, Notified,
     Nothing, Served
<1>15. \A r \in Registers, v \in Values :
          /\ [op |-> "read", reg |-> r, value |-> NoArgument] \in Calls
          /\ [op |-> "write", reg |-> r, value |-> v] \in Calls
  BY NoArgumentIsValue DEF Calls
<1>16. CASE Ping
  BY <1>3, <1>4, <1>5, <1>6, <1>16 DEF Ping
<1>17. CASE Begins
  <2>1. PICK r \in Registers :
            \/ PostRead(r)
            \/ PostFails([op |-> "read", reg |-> r, value |-> NoArgument])
            \/ \E v \in Values :
                 \/ PostWrite(r, v)
                 \/ PostFails([op |-> "write", reg |-> r, value |-> v])
    BY <1>17 DEF Begins
  <2>2. CASE PostRead(r)
    BY <1>7, <2>2
  <2>3. CASE PostFails([op |-> "read", reg |-> r, value |-> NoArgument])
    BY <1>9, <1>15, <2>3, NoArgumentIsValue
  <2>4. ASSUME NEW v \in Values,
               \/ PostWrite(r, v)
               \/ PostFails([op |-> "write", reg |-> r, value |-> v])
        PROVE  (Pairing /\ LastAgrees)'
    BY <1>8, <1>9, <1>15, <2>4
  <2> QED BY <2>1, <2>2, <2>3, <2>4
<1>18. CASE Completes
  BY <1>6, <1>10, <1>11, <1>12, <1>13, <1>18 DEF Completes
<1> QED BY <1>1, <1>2, <1>14, <1>16, <1>17, <1>18 DEF Next

\* The inductive invariant of the calls.
LEMMA InductiveInvariant == Spec => []IInv
  BY InitIInv, NextIInv, PTL DEF Spec

\* Between calls nothing of a completed call is left for the next one to find.
THEOREM Quiescence == Spec => []NothingLeftBehind
<1>1. IInv => NothingLeftBehind
  BY DEF IInv, Pairing, Nothing, NothingLeftBehind
<1> QED BY <1>1, InductiveInvariant, PTL

\* rra_read returns the register file's value while every call completes.
THEOREM ReadsAreCorrect == Spec => []CompletedReadReturnsRegister
<1>1. IInv => CompletedReadReturnsRegister
  BY DEF IInv, LastAgrees, CompletedReadReturnsRegister
<1> QED BY <1>1, InductiveInvariant, PTL

\* rra_write has taken effect when it returns while every call completes.
THEOREM WritesAreCorrect == Spec => []CompletedWriteTakesEffect
<1>1. IInv => CompletedWriteTakesEffect
  BY DEF IInv, LastAgrees, CompletedWriteTakesEffect
<1> QED BY <1>1, InductiveInvariant, PTL

=============================================================================

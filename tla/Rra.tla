-------------------------------- MODULE Rra --------------------------------
(***************************************************************************)
(* Remote register file access: the calls Endpoint::ping, rra_read and       *)
(* rra_write of one thread.  Each posts a request on the RRA connection and  *)
(* takes one notification from the RRA port as its completion.  Nothing ties *)
(* a notification to its request: the pairing rests on every call taking     *)
(* exactly the notification its own request causes.                          *)
(*                                                                         *)
(* The FPGA and the network are external: requests are served in the order   *)
(* they were posted, answers are delivered in that order, and the data of a   *)
(* get is in the response buffer when its notification appears.  A call into  *)
(* the RMA library may fail; MaxFaults bounds how often.                     *)
(***************************************************************************)
EXTENDS Integers, Sequences

CONSTANTS Registers,    \* register file addresses
          Values,       \* contents of a quad word
          IdRegister,   \* 0x8000, the register file ping reads
          Rounds,       \* 20: probes of ping
          MaxCalls,     \* bound: calls made
          MaxFaults     \* bound: library calls that return an error

ASSUME RraAssumption ==
    /\ IdRegister \in Registers
    /\ Values # {}
    /\ Rounds \in Nat
    /\ MaxCalls \in Nat /\ MaxFaults \in Nat

VARIABLES
    regs,           \* the register files of the FPGA
    net,            \* requests on their way to the FPGA
    back,           \* answers on their way to the host
    noti,           \* notifications in the queue of the RRA port
    response,       \* quad word 0 of the PhysicalBuffer
    pc,             \* where the calling thread is
    call,           \* the call it is in
    i,              \* ping's probes so far
    last,           \* the last call that returned or threw
    clean,          \* history: no call has left its request uncompleted
    calls, faults   \* counters for the bounds

fpgaVars == <<regs, net, back>>
hostVars == <<noti, response>>
bounds   == <<calls, faults>>
vars == <<regs, net, back, noti, response, pc, call, i, last, clean, calls, faults>>

Request == [op : {"get", "put"}, reg : Registers, value : Values, notify : BOOLEAN]
Steps   == {"idle", "probe", "sleep", "block", "free", "fetch"}
Calls   == [op : {"ping", "read", "write"}, reg : Registers, value : Values]
Results == [op : {"none", "ping", "read", "write"}, reg : Registers,
            value : Values, ok : BOOLEAN]

-----------------------------------------------------------------------------
(* External: the FPGA and the network.                                      *)

\* A put is applied, a get takes the value the register file has now.
Serve ==
    /\ net # <<>>
    /\ LET q == Head(net) IN
         /\ regs' = IF q.op = "put" THEN [regs EXCEPT ![q.reg] = q.value] ELSE regs
         /\ back' = Append(back, [op |-> q.op, reg |-> q.reg,
                                  value |-> regs'[q.reg], notify |-> q.notify])
    /\ net' = Tail(net)
    /\ UNCHANGED <<hostVars, pc, call, i, last, clean, bounds>>

\* The data of a get goes to the response buffer, then the notification follows.
Deliver ==
    /\ back # <<>>
    /\ response' = IF Head(back).op = "get" THEN Head(back).value ELSE response
    /\ noti' = IF Head(back).notify THEN noti + 1 ELSE noti
    /\ back' = Tail(back)
    /\ UNCHANGED <<regs, net, pc, call, i, last, clean, bounds>>

-----------------------------------------------------------------------------
\* ping and rra_read pass no value.
NoArgument == CHOOSE v \in Values : TRUE

Fault == faults < MaxFaults /\ faults' = faults + 1

Post(op, c, notify) ==
    net' = Append(net, [op |-> op, reg |-> c.reg, value |-> c.value, notify |-> notify])

Return(value) ==
    /\ pc' = "idle"
    /\ last' = [op |-> call.op, reg |-> call.reg, value |-> value, ok |-> TRUE]

Fail ==
    /\ pc' = "idle"
    /\ last' = [op |-> call.op, reg |-> call.reg, value |-> call.value, ok |-> FALSE]

Begin(c) ==
    /\ pc = "idle" /\ calls < MaxCalls
    /\ calls' = calls + 1
    /\ call' = c

-----------------------------------------------------------------------------
(* bool Endpoint::ping() const                                              *)

\* The status of the post is overwritten before anybody looks at it.
PostPing ==
    /\ Begin([op |-> "ping", reg |-> IdRegister, value |-> NoArgument])
    /\ \/ Post("get", call', TRUE) /\ UNCHANGED faults
       \/ Fault /\ UNCHANGED net
    /\ i' = 0
    /\ pc' = "probe"
    /\ UNCHANGED <<regs, back, hostVars, last, clean>>

\* RMA2_NO_NOTI
ProbeNothing ==
    /\ pc = "probe" /\ i < Rounds
    /\ noti = 0
    /\ pc' = "sleep"
    /\ UNCHANGED <<fpgaVars, hostVars, call, i, last, clean, bounds>>

\* Faulty variant: the loop sleeps a constant period for ever.
SleepForever ==
    /\ pc = "sleep"
    /\ pc' = "probe"
    /\ UNCHANGED <<fpgaVars, hostVars, call, i, last, clean, bounds>>

\* sleep_for(wait_period); the periods double and are only added up for the log.
Sleep ==
    /\ pc = "sleep"
    /\ i' = i + 1
    /\ pc' = "probe"
    /\ UNCHANGED <<fpgaVars, hostVars, call, last, clean, bounds>>

\* Faulty variant: the notification is not freed.
PingTrueUnfreed ==
    /\ pc = "probe" /\ i < Rounds
    /\ noti > 0
    /\ Return(call.value)
    /\ UNCHANGED <<fpgaVars, hostVars, call, i, clean, bounds>>

\* Faulty variant: RMA2_NO_NOTI is not told apart from success.
PingTrueUntested ==
    /\ pc = "probe" /\ i < Rounds
    /\ noti' = noti - 1
    /\ Return(call.value)
    /\ UNCHANGED <<fpgaVars, response, call, i, clean, bounds>>

PingTrue ==
    /\ pc = "probe" /\ i < Rounds
    /\ noti > 0
    /\ noti' = noti - 1
    /\ Return(call.value)
    /\ UNCHANGED <<fpgaVars, response, call, i, clean, bounds>>

\* Any other status than RMA2_NO_NOTI counts as an answer too; what is freed
\* then is the notification an uninitialised pointer happens to name, if any.
PingProbeError ==
    /\ pc = "probe" /\ i < Rounds
    /\ Fault
    /\ noti' \in {noti} \union {n \in {noti - 1} : noti > 0}
    /\ Return(call.value)
    /\ clean' = FALSE
    /\ UNCHANGED <<fpgaVars, response, call, i, calls>>

\* All probes made: false, with the request still out.
PingFalse ==
    /\ pc = "probe" /\ i = Rounds
    /\ Fail
    /\ clean' = FALSE
    /\ UNCHANGED <<fpgaVars, hostVars, call, i, bounds>>

Ping == PostPing \/ ProbeNothing \/ Sleep \/ PingTrue \/ PingProbeError \/ PingFalse

-----------------------------------------------------------------------------
(* uint64_t Endpoint::rra_read(RMA2_NLA) const                              *)
(* void     Endpoint::rra_write(RMA2_NLA, uint64_t)                         *)

\* throw_on_error behind the post: nothing was sent.
PostFails(c) ==
    /\ Begin(c) /\ Fault
    /\ last' = [op |-> c.op, reg |-> c.reg, value |-> c.value, ok |-> FALSE]
    /\ UNCHANGED <<fpgaVars, hostVars, pc, i, clean>>

\* Faulty variant: the read does not wait for the completion.
PostReadOnly(r) ==
    /\ Begin([op |-> "read", reg |-> r, value |-> NoArgument])
    /\ Post("get", call', FALSE)
    /\ pc' = "fetch"
    /\ UNCHANGED <<regs, back, hostVars, i, last, clean, faults>>

PostRead(r) ==
    /\ Begin([op |-> "read", reg |-> r, value |-> NoArgument])
    /\ Post("get", call', TRUE)
    /\ pc' = "block"
    /\ UNCHANGED <<regs, back, hostVars, i, last, clean, faults>>

\* Faulty variant: the write is posted and forgotten.
PostWriteOnly(r, v) ==
    /\ Begin([op |-> "write", reg |-> r, value |-> v])
    /\ Post("put", call', FALSE)
    /\ last' = [op |-> "write", reg |-> r, value |-> v, ok |-> TRUE]
    /\ UNCHANGED <<regs, back, hostVars, pc, i, clean, faults>>

\* Faulty variant: RMA2_NO_NOTIFICATION, as in rma_send.
PostWriteUnnotified(r, v) ==
    /\ Begin([op |-> "write", reg |-> r, value |-> v])
    /\ Post("put", call', FALSE)
    /\ pc' = "block"
    /\ UNCHANGED <<regs, back, hostVars, i, last, clean, faults>>

PostWrite(r, v) ==
    /\ Begin([op |-> "write", reg |-> r, value |-> v])
    /\ Post("put", call', TRUE)
    /\ pc' = "block"
    /\ UNCHANGED <<regs, back, hostVars, i, last, clean, faults>>

\* rma2_noti_get_block returns the oldest notification of the port.
GetBlock ==
    /\ pc = "block" /\ noti > 0
    /\ pc' = "free"
    /\ UNCHANGED <<fpgaVars, hostVars, call, i, last, clean, bounds>>

\* An error of get_block or of noti_free throws and leaves the notification.
CompletionFails ==
    /\ pc \in {"block", "free"} /\ Fault
    /\ Fail
    /\ clean' = FALSE
    /\ UNCHANGED <<fpgaVars, hostVars, call, i, calls>>

FreeRead ==
    /\ pc = "free" /\ call.op = "read"
    /\ noti' = noti - 1
    /\ pc' = "fetch"
    /\ UNCHANGED <<fpgaVars, response, call, i, last, clean, bounds>>

FreeWrite ==
    /\ pc = "free" /\ call.op = "write"
    /\ noti' = noti - 1
    /\ Return(call.value)
    /\ UNCHANGED <<fpgaVars, response, call, i, clean, bounds>>

\* return buffer.read_response();
ReadResponse ==
    /\ pc = "fetch"
    /\ Return(response)
    /\ UNCHANGED <<fpgaVars, hostVars, call, i, clean, bounds>>

Begins ==
    \E r \in Registers :
        \/ PostRead(r)
        \/ PostFails([op |-> "read", reg |-> r, value |-> NoArgument])
        \/ \E v \in Values :
             \/ PostWrite(r, v)
             \/ PostFails([op |-> "write", reg |-> r, value |-> v])

Completes == GetBlock \/ CompletionFails \/ FreeRead \/ FreeWrite \/ ReadResponse

-----------------------------------------------------------------------------
Init ==
    /\ regs \in [Registers -> Values]
    /\ net = <<>> /\ back = <<>> /\ noti = 0
    /\ response \in Values
    /\ pc = "idle"
    /\ call = [op |-> "ping", reg |-> IdRegister, value |-> NoArgument]
    /\ i = 0
    /\ last = [op |-> "none", reg |-> IdRegister, value |-> NoArgument, ok |-> FALSE]
    /\ clean = TRUE
    /\ calls = 0 /\ faults = 0

Next == Serve \/ Deliver \/ Ping \/ Begins \/ Completes

Spec == Init /\ [][Next]_vars

\* The calling thread runs; the FPGA may stay silent.
HostFairSpec ==
    Spec /\ WF_vars(ProbeNothing \/ Sleep \/ PingTrue \/ PingFalse)
         /\ WF_vars(GetBlock \/ FreeRead \/ FreeWrite \/ ReadResponse)

\* The FPGA serves its requests as well.
FpgaAnswers == WF_vars(Serve) /\ WF_vars(Deliver)

-----------------------------------------------------------------------------
(* Properties.                                                              *)

TypeOK ==
    /\ regs \in [Registers -> Values]
    /\ net \in Seq(Request) /\ back \in Seq(Request)
    /\ noti \in Nat /\ response \in Values
    /\ pc \in Steps /\ call \in Calls
    /\ i \in Nat
    /\ last \in Results /\ clean \in BOOLEAN
    /\ calls \in 0..MaxCalls /\ faults \in 0..MaxFaults

\* Between calls nothing of a finished call is left in the network or in the
\* port's queue, as long as every call so far completed: the next call finds
\* no notification but its own.
NothingLeftBehind ==
    clean /\ pc = "idle" => net = <<>> /\ back = <<>> /\ noti = 0

\* As long as every call so far completed, a read that returned has returned
\* what the register file holds.
CompletedReadReturnsRegister ==
    clean /\ last.op = "read" /\ last.ok /\ pc = "idle" => last.value = regs[last.reg]

\* As long as every call so far completed, a write that returned has taken
\* effect on the FPGA.
CompletedWriteTakesEffect ==
    clean /\ last.op = "write" /\ last.ok /\ pc = "idle" => last.value = regs[last.reg]

\* A ping always returns, even when the FPGA never answers.
PingReturns == pc = "probe" ~> pc = "idle"

\* With an FPGA that serves its requests, every call returns.
CallsReturn == FpgaAnswers => (pc # "idle" ~> pc = "idle")

-----------------------------------------------------------------------------
(* What the documentation says and the code does not do.                    *)

\* A read returns the value of the register file, also after a ping that
\* gave up or a call that threw.
ReadReturnsRegister ==
    last.op = "read" /\ last.ok /\ pc = "idle" => last.value = regs[last.reg]
=============================================================================

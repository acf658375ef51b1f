---------------------------- MODULE ConfigureFpga ----------------------------
(***************************************************************************)
(* configure_fpga: the sequence of register accesses that makes an FPGA       *)
(* stream into the two ring buffers of an Endpoint, and the resets of the     *)
(* host's read positions that go with it.                                    *)
(*                                                                         *)
(* A register holds the configuration its value was taken from.  A ring of    *)
(* the FPGA runs with what its registers held when its Init register was      *)
(* written.  An access is a request and a notification that completes it, as  *)
(* in Rra: it may throw before its request is out, or while it waits for the  *)
(* completion, and then the request is still served and its notification is   *)
(* taken by a later access.  The user may catch the exception and call again  *)
(* with another configuration.                                               *)
(***************************************************************************)
EXTENDS BitFields, Sequences

CONSTANTS Partners,     \* what a host fills in: its node, vpid and addresses
          Nodes,        \* node ids an FPGA may be given, as sets of bits
          HicannPages, TracePages,   \* 1 and 2048
          None,         \* no configuration yet
          MaxCalls,     \* bound: calls of configure_fpga
          MaxFaults     \* bound: accesses that throw

ASSUME PagesAssumption == HicannPages \in Nat \ {0} /\ TracePages \in Nat \ {0}
ASSUME NodesAssumption == \A n \in Nodes : n \subseteq 0..15

-----------------------------------------------------------------------------
(* PartnerHostConfiguration                                                 *)

PageSize  == 4096
QuadWord  == 8
PacketQw  == 62

\* Faulty variant: no packets are kept back.
RingDefaultsFull(pages) ==
    [capacity  |-> pages * PageSize,
     threshold |-> 1984,
     frequency |-> ((pages * PageSize) \div QuadWord) \div PacketQw]

\* The default numbers of a ring: frequency is size_qw / 62 - 8.
RingDefaults(pages) ==
    [capacity  |-> pages * PageSize,
     threshold |-> 1984,
     frequency |-> ((pages * PageSize) \div QuadWord) \div PacketQw - 8]

Rings == {"hicann", "trace"}

\* A configuration: what its host fills in, whether the counters of a ring are
\* to be reset, and the numbers of the rings.  Mode, node, vpid and addresses
\* are not told apart further: they are the partner's.
Filled(p, reset) ==
    [partner |-> p, reset_counter |-> reset,
     hicann |-> RingDefaults(HicannPages), trace |-> RingDefaults(TracePages)]

\* configure_fpga(connection) fills in a configuration that resets no counter.
Default(p) == Filled(p, {})

Configs == {Filled(p, reset) : p \in Partners, reset \in SUBSET Rings}

-----------------------------------------------------------------------------
RingRegisters(ring) ==
    IF ring = "hicann"
    THEN {"HicannBufferStart", "HicannBufferSize", "HicannBufferFullThreshold",
          "HicannNotificationBehaviour"}
    ELSE {"TraceBufferStart", "TraceBufferSize", "TraceBufferFullThreshold",
          "TraceNotificationBehaviour"}

InitRegister(ring) == IF ring = "hicann" THEN "HicannBufferInit" ELSE "TraceBufferInit"

CounterResetRegister(ring) ==
    IF ring = "hicann" THEN "HicannBufferCounterReset" ELSE "TraceBufferCounterReset"

HostReset(ring) == IF ring = "hicann" THEN "hicann.reset" ELSE "trace.reset"

Registers == RingRegisters("hicann") \union RingRegisters("trace")
             \union {"HostEndpoint", "ConfigResponse", "HicannTracePktClosure"}

\* Faulty variants: the rings are started before they are configured; the
\* trace ring buffer of the host is not reset.
ProgramInitFirst ==
    << "HostEndpoint", "ConfigResponse",
       "TraceBufferInit", "HicannBufferInit",
       "HicannBufferStart", "HicannBufferSize", "HicannBufferFullThreshold",
       "HicannNotificationBehaviour", "HicannBufferCounterReset",
       "TraceBufferStart", "TraceBufferSize", "TraceBufferFullThreshold",
       "TraceNotificationBehaviour", "TraceBufferCounterReset",
       "hicann.reset", "trace.reset", "HicannTracePktClosure",
       "ReadInfo", "Info" >>

ProgramOneReset ==
    << "HostEndpoint", "ConfigResponse",
       "HicannBufferStart", "HicannBufferSize", "HicannBufferFullThreshold",
       "HicannNotificationBehaviour", "HicannBufferCounterReset",
       "TraceBufferStart", "TraceBufferSize", "TraceBufferFullThreshold",
       "TraceNotificationBehaviour", "TraceBufferCounterReset",
       "TraceBufferInit", "HicannBufferInit",
       "hicann.reset", "HicannTracePktClosure",
       "ReadInfo", "Info" >>

\* The steps of configure_fpga in their order.
Program ==
    << "HostEndpoint", "ConfigResponse",
       "HicannBufferStart", "HicannBufferSize", "HicannBufferFullThreshold",
       "HicannNotificationBehaviour", "HicannBufferCounterReset",
       "TraceBufferStart", "TraceBufferSize", "TraceBufferFullThreshold",
       "TraceNotificationBehaviour", "TraceBufferCounterReset",
       "TraceBufferInit", "HicannBufferInit",
       "hicann.reset", "trace.reset", "HicannTracePktClosure",
       "ReadInfo", "Info" >>

-----------------------------------------------------------------------------
VARIABLES
    regs,       \* FPGA: the configuration each register was written from
    running,    \* FPGA: what each ring was last initialised with
    info,       \* FPGA: bits of the Info register
    net,        \* requests posted and not yet served, in their order
    noti,       \* notifications in the queue of the RRA port
    response,   \* quad word 0 of the PhysicalBuffer
    node,       \* get_node() of the Endpoint in use
    in_step,    \* host: the read positions of a ring were reset after the
                \* FPGA's ring started over
    pc,         \* next step of configure_fpga, 0 outside
    waiting,    \* the request of this step is posted
    config,     \* its argument
    local_info, \* its local variable
    result,     \* how the last call ended
    broken,     \* history: accesses of this Endpoint that threw behind their post
    calls, faults

fpgaVars == <<regs, running, info>>
portVars == <<net, noti, response>>
callVars == <<node, config, calls>>
vars == <<regs, running, info, net, noti, response, node, in_step, pc, waiting,
          config, local_info, result, broken, calls, faults>>

-----------------------------------------------------------------------------
(* External: the FPGA serves the requests in the order they were posted.     *)

\* What the register file at 0x8000 holds, that the ping of an Endpoint reads.
IdWord == {0}

\* A write takes effect, a read fills the response word, and a notification
\* follows.  Writing an Init register reconfigures the ring with the values
\* written before; it starts over at its first slot.  Of a write of Info the
\* FPGA takes the ndid only.  The counters are not part of the model.
Serve ==
    /\ net # <<>>
    /\ LET q == Head(net) IN
         /\ regs' = [r \in Registers |-> IF q.step = r THEN q.config ELSE regs[r]]
         /\ running' = [ring \in Rings |->
                          IF q.step = InitRegister(ring)
                          THEN [r \in RingRegisters(ring) |-> regs[r]]
                          ELSE running[ring]]
         /\ in_step' = [ring \in Rings |-> in_step[ring] /\ q.step # InitRegister(ring)]
         /\ info' = IF q.step = "Info"
                    THEN Replace(info, 24, 16, Get(q.word, 24, 16)) ELSE info
         /\ response' = IF q.step = "ReadInfo" THEN info ELSE response
    /\ net' = Tail(net)
    /\ noti' = noti + 1
    /\ UNCHANGED <<callVars, pc, waiting, local_info, result, broken, faults>>

-----------------------------------------------------------------------------
(* void configure_fpga(Endpoint& connection, PartnerHostConfiguration config) *)

Configure(c) ==
    /\ pc = 0 /\ calls < MaxCalls
    /\ calls' = calls + 1
    /\ config' = c /\ pc' = 1 /\ result' = "none"
    /\ UNCHANGED <<fpgaVars, portVars, node, in_step, waiting, local_info, broken,
                   faults>>

Step(s) == pc \in 1 .. Len(Program) /\ Program[pc] = s

\* if (config.hicann.reset_counter), if (config.trace.reset_counter)
Skipped(ring) == Step(CounterResetRegister(ring)) /\ ring \notin config.reset_counter

\* The call is at an rra_write or rra_read whose request is to be posted.
AtAccess ==
    /\ pc \in 1 .. Len(Program) /\ ~waiting
    /\ \A ring \in Rings : ~Step(HostReset(ring)) /\ ~Skipped(ring)

SkipCounterReset ==
    /\ ~waiting /\ \E ring \in Rings : Skipped(ring)
    /\ pc' = pc + 1
    /\ UNCHANGED <<fpgaVars, portVars, callVars, in_step, waiting, local_info, result,
                   broken, faults>>

\* info.ndid(node): bits 24 to 39 are merged, not replaced.
Argument == IF Step("Info") THEN Merge(local_info, 24, 16, node) ELSE {}

Post ==
    /\ AtAccess
    /\ net' = Append(net, [step |-> Program[pc], config |-> config, word |-> Argument])
    /\ waiting' = TRUE
    /\ UNCHANGED <<fpgaVars, noti, response, callVars, in_step, pc, local_info, result,
                   broken, faults>>

Throw ==
    /\ faults < MaxFaults /\ faults' = faults + 1
    /\ pc' = 0 /\ waiting' = FALSE /\ result' = "threw"

\* Faulty variant: an access whose post fails returns instead of throwing.
PostFailsSilently ==
    /\ AtAccess
    /\ faults < MaxFaults /\ faults' = faults + 1
    /\ pc' = pc + 1
    /\ UNCHANGED <<fpgaVars, portVars, callVars, in_step, waiting, local_info, result,
                   broken>>

\* throw_on_error behind the post: nothing was sent.
PostFails ==
    /\ AtAccess
    /\ Throw
    /\ UNCHANGED <<fpgaVars, portVars, callVars, in_step, local_info, broken>>

\* Faulty variant: the notification is not freed.
CompleteUnfreed ==
    /\ waiting /\ noti > 0
    /\ pc' = pc + 1 /\ waiting' = FALSE
    /\ local_info' = IF Step("ReadInfo") THEN response ELSE local_info
    /\ UNCHANGED <<fpgaVars, portVars, callVars, in_step, result, broken, faults>>

\* rma2_noti_get_block and rma2_noti_free take the oldest notification of the
\* port, whichever request it is of; rra_read then reads the response word.
Complete ==
    /\ waiting /\ noti > 0
    /\ noti' = noti - 1
    /\ pc' = pc + 1 /\ waiting' = FALSE
    /\ local_info' = IF Step("ReadInfo") THEN response ELSE local_info
    /\ UNCHANGED <<fpgaVars, net, response, callVars, in_step, result, broken, faults>>

\* An error of get_block or of noti_free throws; the request stays where it
\* is, or its notification in the queue.
CompletionFails ==
    /\ waiting
    /\ Throw
    /\ broken' = broken + 1
    /\ UNCHANGED <<fpgaVars, portVars, callVars, in_step, local_info>>

\* hicann_ring_buffer.reset() and trace_ring_buffer.reset().  With the write of
\* the Init register still on its way the FPGA's ring has not started over.
ResetRing(ring) ==
    /\ Step(HostReset(ring)) /\ ~waiting
    /\ in_step' = [in_step EXCEPT
            ![ring] = \A i \in DOMAIN net : net[i].step # InitRegister(ring)]
    /\ pc' = pc + 1
    /\ UNCHANGED <<fpgaVars, portVars, callVars, waiting, local_info, result, broken,
                   faults>>

Return ==
    /\ pc = Len(Program) + 1
    /\ pc' = 0 /\ result' = "returned"
    /\ UNCHANGED <<fpgaVars, portVars, callVars, in_step, waiting, local_info, broken,
                   faults>>

\* The network gives the FPGA a node id and the host connects anew, with a new
\* port and a new buffer; the FPGA keeps its registers and its rings go on.
\* The constructor's ping was answered, behind all that was posted before.
NewEndpoint(n) ==
    /\ pc = 0 /\ net = <<>>
    /\ node' = n
    /\ noti' = 0 /\ response' = IdWord /\ broken' = 0
    /\ in_step' = [ring \in Rings |-> running[ring] = None]
    /\ result' = "none"
    /\ UNCHANGED <<fpgaVars, net, pc, waiting, config, local_info, calls, faults>>

Access ==
    \/ SkipCounterReset \/ Post \/ PostFails \/ Complete \/ CompletionFails
    \/ \E ring \in Rings : ResetRing(ring)
    \/ Return

Init ==
    /\ regs = [r \in Registers |-> None]
    /\ running = [ring \in Rings |-> None]
    /\ info = {} /\ node \in Nodes
    /\ net = <<>> /\ noti = 0 /\ response = IdWord
    /\ in_step = [ring \in Rings |-> TRUE]
    /\ pc = 0 /\ waiting = FALSE /\ config \in {Default(p) : p \in Partners}
    /\ local_info = {} /\ result = "none"
    /\ broken = 0 /\ calls = 0 /\ faults = 0

Next ==
    \/ Serve
    \/ \E c \in Configs : Configure(c)
    \/ Access
    \/ \E n \in Nodes : NewEndpoint(n)

Spec == Init /\ [][Next]_vars

-----------------------------------------------------------------------------
(* Properties.                                                              *)

\* A ring of the FPGA never runs with the address of one configuration and
\* the size or threshold of another, whatever calls were broken off before.
NoMixedRing ==
    \A ring \in Rings : running[ring] # None =>
        \E c \in Configs : \A r \in RingRegisters(ring) : running[ring][r] = c

\* What is on its way or unread is what the accesses that threw behind their
\* post have left, one each, and the request of the access at hand: a call that
\* returns runs ahead of the FPGA by at most so many requests.
LagIsBroken == Len(net) + noti = broken + (IF waiting THEN 1 ELSE 0)

\* When configure_fpga returns, every register and both rings have its
\* configuration and the host reads where the FPGA writes, whatever calls
\* were broken off before, if they threw no access behind its post or its
\* Endpoint is gone.
ReturnedIsConfigured ==
    broken = 0 /\ result = "returned" =>
        /\ \A r \in Registers : regs[r] = config
        /\ \A ring \in Rings : /\ in_step[ring]
                               /\ \A r \in RingRegisters(ring) : running[ring][r] = config

\* With accesses that completed on a notification of an earlier one too, a
\* configure_fpga that returned is in force once the FPGA has served what is
\* on its way; only the host's read positions may have been reset too early.
ServedIsConfigured ==
    result = "returned" /\ net = <<>> =>
        /\ \A r \in Registers : regs[r] = config
        /\ \A ring \in Rings : \A r \in RingRegisters(ring) : running[ring][r] = config

\* With the default numbers the FPGA notifies the host of the packets in a
\* ring before the ring is full up to the threshold.
NotifiedBeforeThreshold ==
    result = "returned" =>
        \A ring \in Rings :
            LET n == config[ring] IN
            n.frequency * PacketQw * QuadWord + n.threshold <= n.capacity

-----------------------------------------------------------------------------
(* What the documentation says and the code does not do.                    *)

\* After configure_fpga the ndid of the FPGA is its node id.
NdidIsNodeId == result = "returned" => Get(info, 24, 16) = node
=============================================================================

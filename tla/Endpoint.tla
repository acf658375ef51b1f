------------------------------ MODULE Endpoint ------------------------------
(***************************************************************************)
(* The life of Endpoints: discovery of the nodes, and for each of them the    *)
(* construction of an Endpoint member by member, its use, and its             *)
(* destruction in reverse order.  Every step of a constructor may fail; then   *)
(* the members that are complete are destroyed, and what the failing member    *)
(* acquired is left behind, as its own destructor does not run.               *)
(*                                                                         *)
(* Resources are named; what uses one is given per step, for the calling       *)
(* thread and for the poller thread.  The user connects to one node after      *)
(* the other, as the hardware test does.                                     *)
(***************************************************************************)
EXTENDS NodeIds, SendBuffer, FiniteSets

CONSTANTS Listings,     \* outputs of "emp-ctrl network listnodes"
          Statuses,     \* outputs of "grep -h ready", per link
          Sysfs,        \* whether EXTOLL_R2_SYSFS is set: subset of BOOLEAN
          MaxFaults     \* bound: failing steps

\* Lines are sequences of tokens, numbers and the negative ones of NodeIds.
ASSUME ListingsAssumption == \A lines \in Listings : lines \in Seq(Seq(Int))

VARIABLES
    mode,      \* "discover", "idle", "construct", "use", "destroy", "ended"
    built,     \* members that are complete
    step,      \* steps of the current constructor or destructor that are done
    held,      \* resources acquired and not released, of the current endpoint
    leaked,    \* resources left behind: <<endpoint, resource>>
    failed,    \* per endpoint, the member whose constructor threw, or None
    asked,     \* ping's request is under way to the FPGA
    faults

lifeVars == <<mode, built, step, held, leaked, failed, asked, faults>>
vars     == <<searchVars, lifeVars, sendVars>>

None == "none"

-----------------------------------------------------------------------------
(* Constructors and destructors.                                            *)

\* Faulty variant: the poller is declared behind the ring buffers.
MembersPollerLast ==
    <<"m_rra", "m_rma", "buffer", "hicann_ring_buffer", "trace_ring_buffer", "poller">>

\* The members of Endpoint in the order of their declaration.
Members ==
    <<"m_rra", "m_rma", "poller", "buffer", "hicann_ring_buffer", "trace_ring_buffer">>

Port(m)   == <<m, "port">>
Handle(m) == <<m, "handle">>
Thread    == <<"poller", "thread">>
Mapping   == <<"buffer", "mapping">>
PmapFd    == <<"buffer", "fd">>
Memory(m) == <<m, "memory">>
Region(m) == <<m, "region">>

\* A step: the resources it uses and those it acquires or releases.
Do(uses, changes) == [uses |-> uses, changes |-> changes]

ConnectionSteps(m) ==
    <<Do({}, {Port(m)}),                       \* rma2_open
      Do({Port(m)}, {Handle(m)})>>             \* rma2_connect

PollerSteps == <<Do({Port("m_rma")}, {Thread})>>

PhysicalBufferSteps ==
    <<Do({}, {}),                              \* page size
      Do({}, {PmapFd}),                        \* open
      Do({PmapFd}, {}), Do({PmapFd}, {}),      \* PMAP_IOCTL_SET_TYPE, _SET_SIZE
      Do({PmapFd}, {Mapping}),                 \* mmap
      Do({PmapFd}, {})>>                       \* PMAP_IOCTL_GET_PADDR

\* The result of aligned_alloc is not tested: a null goes on to rma2_register,
\* which refuses it.  That throws with no memory held, as the first step does.
RingBufferSteps(m) ==
    <<Do({}, {Memory(m)}),                     \* page size, aligned_alloc
      Do({Port("m_rma"), Memory(m)}, {Region(m)})>>   \* rma2_register

Constructor(m) ==
    CASE m \in {"m_rra", "m_rma"} -> ConnectionSteps(m)
      [] m = "poller"             -> PollerSteps
      [] m = "buffer"             -> PhysicalBufferSteps
      [] OTHER                    -> RingBufferSteps(m)

\* Faulty variant: the port stays open.
CloseConnectionHalf(m) ==
    <<Do({Port(m)}, {}),
      Do({Port(m), Handle(m)}, {Handle(m)})>>

CloseConnection(m) ==
    <<Do({Port(m)}, {}),                       \* rma2_noti_probe, rma2_noti_free
      Do({Port(m), Handle(m)}, {Handle(m)}),   \* rma2_disconnect
      Do({Port(m)}, {Port(m)})>>               \* rma2_close

\* m_running.store(false); m_thread.join();
StopPoller == <<Do({Thread}, {Thread})>>

\* munmap; the file descriptor was a local of the constructor.
UnmapBuffer == <<Do({Mapping}, {Mapping})>>

CloseRingBuffer(m) ==
    <<Do({Thread}, {}),                                     \* while (poll());
      Do({Port("m_rma"), Handle("m_rma")}, {}),             \* notify()
      Do({Port("m_rma"), Region(m)}, {Region(m)}),          \* rma2_unregister
      Do({Memory(m)}, {Memory(m)})>>                        \* free

Destructor(m) ==
    CASE m \in {"m_rra", "m_rma"} -> CloseConnection(m)
      [] m = "poller"             -> StopPoller
      [] m = "buffer"             -> UnmapBuffer
      [] OTHER                    -> CloseRingBuffer(m)

-----------------------------------------------------------------------------
(* Discovery.                                                               *)

Discover ==
    /\ mode = "discover"
    /\ SearchStep
    /\ mode' = CASE phase' = "done"   -> "idle"
                 [] phase' = "thrown" -> "ended"
                 [] OTHER             -> "discover"
    /\ UNCHANGED <<built, step, held, leaked, failed, asked, faults, sendVars>>

\* get_fpga_node_id() throws, or the user has dealt with every node.
NoNode ==
    /\ mode = "idle" /\ nodes = <<>>
    /\ mode' = "ended"
    /\ ForgetSearch
    /\ UNCHANGED <<phase, nodes, built, step, held, leaked, failed, asked, faults,
                   sendVars>>

-----------------------------------------------------------------------------
(* Construction.                                                            *)

Connect ==
    /\ mode = "idle" /\ nodes # <<>>
    /\ mode' = "construct"
    /\ ForgetSearch
    /\ nodes' = Tail(nodes)     \* nodes becomes the nodes not yet dealt with
    /\ failed' = Append(failed, None)
    /\ UNCHANGED <<phase, built, step, held, leaked, asked, faults, sendVars>>

Constructing(m) == mode = "construct" /\ built < Len(Members) /\ m = Members[built + 1]

\* The next step of m's constructor succeeds.
Construct(m) ==
    /\ Constructing(m)
    /\ held' = held \union Constructor(m)[step + 1].changes
    /\ IF step + 1 = Len(Constructor(m))
       THEN built' = built + 1 /\ step' = 0
       ELSE step' = step + 1 /\ UNCHANGED built
    /\ IF Mapping \in held' \ held THEN Remap ELSE UNCHANGED sendVars
    /\ UNCHANGED <<searchVars, mode, leaked, failed, asked, faults>>

\* The next step of m's constructor throws.
Throw(m) ==
    /\ Constructing(m)
    /\ faults < MaxFaults
    /\ faults' = faults + 1
    /\ LET own == {r \in held : r[1] = m}
       IN  /\ held' = held \ own
           /\ leaked' = leaked \union {<<Len(failed), r>> : r \in own}
    /\ failed' = [failed EXCEPT ![Len(failed)] = m]
    /\ step' = 0
    /\ mode' = "destroy"
    /\ UNCHANGED <<searchVars, built, asked, sendVars>>

\* The body: ping() posts its request, the FPGA answers or ping() gives up.
PostPing ==
    /\ mode = "construct" /\ built = Len(Members) /\ ~asked
    /\ asked' = TRUE
    /\ UNCHANGED <<searchVars, mode, built, step, held, leaked, failed, faults, sendVars>>

PingAnswered ==
    /\ mode = "construct" /\ asked
    /\ asked' = FALSE
    /\ PutAnswer
    /\ mode' = "use"
    /\ UNCHANGED <<searchVars, built, step, held, leaked, failed, faults>>

\* A probe that fails counts as an answer; the request stays out.
PingProbeError ==
    /\ mode = "construct" /\ asked
    /\ faults < MaxFaults
    /\ faults' = faults + 1
    /\ mode' = "use"
    /\ UNCHANGED <<searchVars, built, step, held, leaked, failed, asked, sendVars>>

PingFails ==
    /\ mode = "construct" /\ asked
    /\ mode' = "destroy"
    /\ UNCHANGED <<searchVars, built, step, held, leaked, failed, asked, faults, sendVars>>

-----------------------------------------------------------------------------
(* Use and destruction.                                                     *)

\* A register read: its answer goes to the response word.
RraRead == mode = "use" /\ PutAnswer /\ UNCHANGED <<searchVars, lifeVars>>

Write == /\ mode = "use"
         /\ \E i \in Indices, v \in Values : write_send(i, v)
         /\ UNCHANGED <<searchVars, lifeVars>>

Send == /\ mode = "use"
        /\ \E n \in 1 .. send_buffer_size_qw : rma_send(n)
        /\ UNCHANGED <<searchVars, lifeVars>>

\* The network card goes on as long as the connection is there.
CardFetches == Handle("m_rma") \in held /\ Fetch /\ UNCHANGED <<searchVars, lifeVars>>

LateAnswer ==
    /\ mode \in {"use", "destroy"} /\ asked /\ Mapping \in held
    /\ asked' = FALSE
    /\ PutAnswer
    /\ UNCHANGED <<searchVars, mode, built, step, held, leaked, failed, faults>>

Destroy ==
    /\ mode = "use"
    /\ mode' = "destroy"
    /\ UNCHANGED <<searchVars, built, step, held, leaked, failed, asked, faults, sendVars>>

Destroying(m) == mode = "destroy" /\ built > 0 /\ m = Members[built]

Destruct(m) ==
    /\ Destroying(m)
    /\ held' = held \ Destructor(m)[step + 1].changes
    /\ IF step + 1 = Len(Destructor(m))
       THEN built' = built - 1 /\ step' = 0
       ELSE step' = step + 1 /\ UNCHANGED built
    /\ IF Mapping \in held \ held' THEN Remap ELSE UNCHANGED sendVars
    /\ UNCHANGED <<searchVars, mode, leaked, failed, asked, faults>>

\* The connection's or the buffer's destructor finds the port invalid or the
\* mapping gone: std::terminate or abort().
Abort ==
    /\ \E m \in {"m_rra", "m_rma", "buffer"} : Destroying(m) /\ step = 0
    /\ faults < MaxFaults
    /\ faults' = faults + 1
    /\ mode' = "ended"
    /\ UNCHANGED <<searchVars, built, step, held, leaked, failed, asked, sendVars>>

\* The object is gone; what it still holds nobody will release.
Gone ==
    /\ mode = "destroy" /\ built = 0
    /\ leaked' = leaked \union {<<Len(failed), r>> : r \in held}
    /\ held' = {}
    /\ asked' = FALSE
    /\ mode' = "idle"
    /\ UNCHANGED <<searchVars, built, step, failed, faults, sendVars>>

-----------------------------------------------------------------------------
Init ==
    /\ input \in [lines : Listings, status : Statuses, sysfs : Sysfs]
    /\ SearchInit
    /\ mode = "discover"
    /\ built = 0 /\ step = 0
    /\ held = {} /\ leaked = {} /\ failed = <<>>
    /\ asked = FALSE /\ faults = 0
    /\ SendInit

Next ==
    \/ Discover \/ NoNode \/ Connect
    \/ \E m \in {Members[i] : i \in 1 .. Len(Members)} :
         Construct(m) \/ Throw(m) \/ Destruct(m)
    \/ PostPing \/ PingAnswered \/ PingProbeError \/ PingFails \/ LateAnswer
    \/ RraRead \/ Write \/ Send \/ CardFetches
    \/ Destroy \/ Abort \/ Gone

Spec == Init /\ [][Next]_vars

-----------------------------------------------------------------------------
(* Properties.                                                              *)

\* Whatever step comes next uses only what is acquired and not yet released:
\* the ring buffers' destructors poll and post, so the poller and the RMA
\* connection must outlive them, also when a constructor threw half way; and
\* the poller thread probes the RMA port for as long as it runs.
UsesOnlyLive ==
    /\ \A m \in {Members[i] : i \in 1 .. Len(Members)} :
         /\ Constructing(m) => Constructor(m)[step + 1].uses \subseteq held
         /\ Destroying(m) => Destructor(m)[step + 1].uses \subseteq held
    /\ Thread \in held => Port("m_rma") \in held

\* However construction and destruction went, an Endpoint leaves behind no
\* more than the file descriptor of its buffer and what the one member
\* acquired whose constructor threw.
LeaksConfined ==
    \A l \in leaked : l[2] = PmapFd \/ l[2][1] = failed[l[1]]

\* The nodes that get connected are those of the listing whose link is up.
DiscoveryMatchesListing ==
    mode = "idle" /\ failed = <<>> => NamesRunningFpgas
=============================================================================

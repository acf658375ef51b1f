# A verification project for nhtl-extoll

nhtl-extoll is the host side of a link between a computer and the FPGAs of a
neuromorphic system over an Extoll network. A host opens a connection to an FPGA,
reads and writes its register files, configures it to stream into two ring buffers
in the host's memory, and takes the words out of these buffers while a thread polls
the network card for notifications. This directory holds TLA+ modules of that code,
the TLC configurations that check them on small instances, and proofs that TLAPS
checks. Paths below are relative to the repository (`src/nhtl-extoll/*.cpp`,
`include/nhtl-extoll/*.h`).

## Inventory

| Part (source) | State | Operations | Hard behaviour |
|---|---|---|---|
| `NotificationPoller` (`notification_poller.*`) | `m_packets`, `m_notifications`, `m_mutex`, `m_cv`, `m_running`, the poller thread | `poll_notifications` loop, `consume_packets`, `consume_response`, constructor, destructor | poller, consumers and destructor interleave; one condition variable for two predicates; notify after unlock; timeouts race with notifications; exceptions that leave the thread |
| `RingBuffer` (`buffer.*`) | registered memory, `m_read_index`, `m_readable_words`, `m_read_words` | `receive`, `poll`, `notify`, `reset`, destructor | flow control with the FPGA through two independent notification streams; wrap-around; reset while words are on the way; words left at destruction |
| register access of `Endpoint` (`connection.*`) | RRA port's notification queue, response word of `PhysicalBuffer` | `ping`, `rra_read`, `rra_write` | a notification carries nothing that ties it to its request; ping gives up and leaves its request out; errors leave notifications behind; one response word |
| register file classes (`configure_fpga.*`) | a 64 bit word | getters, setters | setters that replace, merge into or overwrite the word |
| `configure_fpga` (`configure_fpga.cpp:7-65`) | the FPGA's registers and rings, the host's read positions | 15 to 17 accesses in a fixed order, two host resets, a read-modify-write | every access may throw half way; calls are repeated with other configurations; the Init registers latch what was written before |
| life cycle of `Connection`, `Endpoint`, `PhysicalBuffer`, `RingBuffer` | ports, handles, regions, memory | constructors, destructors, moves | failures half way through construction; raw handles that are copied by defaulted moves; memory freed while the FPGA still writes to it |
| `Endpoint::rma_send` and the send pages (`connection.cpp:187-193`) | send words of `PhysicalBuffer` | `write_send`, `read_send`, `rma_send` | an asynchronous put without completion |
| node discovery (`get_node_ids.cpp`) | none | `get_all_node_ids`, `check_is_fpga`, `get_fpga_node_ids`, `get_fpga_node_id` | parsing of the output of two commands; exceptions outside of the try blocks |
| exceptions, `throw_on_error` | none | construction | only wording |

How the parts meet: an `Endpoint` owns an RMA connection and an RRA connection, a
`PhysicalBuffer` for the answers of register reads, one `NotificationPoller` on the
RMA port, and two `RingBuffer`s that both consume from that poller.
`configure_fpga` uses `rra_write` and `rra_read` and resets both ring buffers.
What makes each part correct:

* poller: every announced packet is handed to exactly one consumer, no consumer
  sleeps while there is something for it, calls and the destructor return;
* ring buffer: `receive` returns what the FPGA sent, once and in order, the FPGA
  never overwrites an unread word, and every slot is given back once;
* register access: every call takes exactly the notification its own request caused;
* register classes: setting a field leaves the other fields alone;
* `configure_fpga`: a ring never runs with a mixture of two configurations, and
  the host reads where the FPGA writes;
* poller and ring buffer together: polls that time out and posts that fail lose no
  word, a stall ends, destruction ends;
* life cycle: no step uses what is not yet acquired or already released, also when a
  constructor throws half way, and what is left behind is known;
* sending: a put sends the words that were there when it was posted;
* discovery: the nodes found are those of the listing whose link is up.

## Modules

**`PacketCounter`** is what the poller promises: two counters, emptied or
decremented at one instant.

**`NotificationPoller`** is the code. `thread` is the poller's position in
`poll_notifications`, `caller[c]` a consumer's position in its call. A step is what
one thread does between two points where another may run: acquiring `m_mutex`,
testing the predicate, blocking (which releases the mutex), waking up, timing out,
and each of the two statements `tmp = m_packets; m_packets = 0`. `wait_for` is the
loop the standard defines, so spurious wakeups happen and a timed-out wait returns
whatever the predicate says. The notification queue of the port is external. An
invalid port and an unknown class end the process (`thread = "terminated"`), as an
exception that leaves a `std::thread` does. The payload is kept modulo
`PayloadRange`, the cast to 32 bits. `probed`, `taken` and `answered` are history.
The destructor starts only when no call is in progress, which is its caller's duty.
Statuses of `rma2_noti_probe` other than success, nothing there and invalid port are
not modelled: for these the code would use a pointer that was never set.

**`RingBuffer`** is one ring (the trace ring) with the FPGA's counterpart. The k-th
word since the last initialisation is the number k-1, so order, loss and overwriting
are visible in `received`. `Receive`, `ReadWord` and `ReceiveReturns` are one call
of `receive`, one round of its loop per step; `BufferInit` and `Reset` are the two
halves of a re-initialisation in `configure_fpga`; `Destroy`, `DrainPoll` and
`Release` are the destructor, and `HicannDrain` a poll of the hicann ring's destructor, which
runs next and takes what the poller was told of meanwhile. The FPGA (`FpgaPut`, `FpgaNotify`, `FpgaCredit`) is external: it
sends while its ring has at least `Threshold` room, announces after a number of
packets or a timeout, and frees the slots the host reports. `consume_packets` is
one step here, which `NotificationPoller` shows to be right. `Spec` re-initialises
only when nothing is on the way (`Quiet`); `EagerSpec` does so at any time
between two calls, as the code allows.

**`Rra`** is `ping`, `rra_read` and `rra_write` of one calling thread. `net` and
`back` are requests and answers under way, `noti` the length of the port's queue
(its notifications cannot be told apart), `response` the response word. Every
library call may fail. The error of ping's post is overwritten before it is tested;
any probe status but "nothing there" counts as an answer. `clean` is history: no
call has given up or thrown with its request out. Requests are served and answered
in order, and a get's data is in memory before its notification.

**`BitFields`**, **`RegisterFiles`**: words and values are sets of bits.
`Layout` gives the fields of every class, `Setter` what its setters do with the
word: replace (`HostEndpoint`, the counter resets), overwrite (all classes whose
setters assign `raw`), merge (`Info`).

**`ConfigureFpga`**: `Program` is the order of the accesses and resets. A register
holds the configuration it was written from; writing an Init register makes the
ring run with what its registers hold then (header: "reconfigured with the values
written before"). An access is two steps, as in `Rra`: `Post` appends its request to
`net`, `Complete` takes one notification of the port, whichever request it is of; `Serve`
(external) is the FPGA, which serves requests in their order and notifies. An access may
throw before its request is out (`PostFails`) or while it waits for the completion or frees
it (`CompletionFails`). In the second case request or notification stay, the write takes
effect later, and every later access of this Endpoint completes on an earlier
notification; the history variable `broken` counts these. The user may then call again,
with another configuration, or connect anew (`NewEndpoint`): a new Endpoint has a new port and a new
buffer, and its constructor's ping was answered, which requests that are served in order
put behind all that was posted before. A ping that failed gives no Endpoint, and one that
took an error of the probe for an answer is not modelled here but in `Rra`. Of a write to
Info the FPGA takes the ndid only, as the header says. `MCConfigure` adds the symmetry of the partners, which are
only compared.

**`TracePath`** composes the two: `P` is `NotificationPoller` with one consumer, the
user of the trace ring, `R` is `RingBuffer` with `notified` taken from the port's
queue and the poller's hands: `Announced` is what the FPGA has announced so far (the
history variable `announced`) less what the poller is done with. `StartPoll` enters `consume_packets`,
`PollReturns` is `poll()` adding what it returned, `HicannPollReturns` the same in the
destructor of the hicann ring, which polls after the trace ring is gone; `receive`'s loop, the destructor and the
FPGA are the steps of `RingBuffer`. `Post` lets `rma2_post_notification` fail: `notify`
does not look at its status, so the words it reported stay posted for ever (`lost`); as
re-initialisation waits here until nothing is on the way, it does not follow a failed
post. The hicann ring is destroyed after the trace ring and the poller after both, as the
order of `Endpoint`'s members has it.

**`NodeIds`** is node discovery, a step for each round of its loops: `AppendLine` reads the
listing, `ScanEntry` is a round of the parser, `CheckNode` a node that `erase_if` asks
`check_is_fpga` about; `phase` is the loop that runs. The listing is a sequence of lines of
tokens ('[', '|', numbers, text), a status file its lines reduced to the one character
that is looked at; `check_is_fpga` looks at all of them at once, as nobody else can see it
read. `ScanThrows` and `CheckThrows` are the exceptions no try block catches. The reference
does not search: `Entries` says which brackets of a listing open an entry, and
`Lists(ids, entries)` that a vector names given entries in their order, each once.

**`SendBuffer`** is `PhysicalBuffer` and `rma_send`. Addresses are quad words from the
start of the mapping. The card (external) fetches the words of the puts one by one, in
order, at any later time; `spoiled` is history: a word of the put was written again before
it was fetched, which the code has no means to prevent or notice.

**`Endpoint`** is the life of Endpoints: discovery (`Discover`, the steps of `NodeIds`), then
for each node the construction member by member (`Constructor(m)` lists the library and system calls of a member's
constructor with what each uses and acquires), ping, use (`SendBuffer`), and destruction
in reverse order (`Destructor(m)`). Every constructor step may throw (`Throw`): the
complete members are destroyed and what the failing member holds is left behind
(`leaked`), because its own destructor does not run. `aligned_alloc` is not tested for null
(`buffer.cpp:123`); `rma2_register` refuses the null, which is a throw without memory. An invalid port or a failing munmap in
a destructor ends the process (`Abort`). A ping that fails destroys a complete Endpoint,
one whose probe fails returns true with its request still out. `MCEndpoint` holds the
inputs of the run; the words sent are interchangeable, hence the symmetry.

**`PollerStartup`** is the poller's constructor against the first statement of the thread
it starts; the CPU set starts with any contents since nothing clears it. **`Moves`** is
construction, defaulted move and destruction of the three classes that have raw handles.

The theorems are in the module of the same name with `Proofs` appended:
`NotificationPollerProofs`, `RingBufferProofs`, `RraProofs`, `RegisterFilesProofs`,
`ConfigureFpgaProofs`, `TracePathProofs`, `EndpointProofs`, and `SendBufferProofs`, whose
lemmas `EndpointProofs` uses. Definitions commented "faulty variant" are
plausible mistakes in the code they stand beside; each is used to show that a
property fails when the mistake is made.

## Runs

| Run | What it shows |
|---|---|
| `Poller` | 1 consumer of each kind, 2 notifications with payloads below and above `PayloadRange` and all classes: `PacketConservation`, `NoLostWakeup`, the calls implement `PacketCounter`; calls return, the destructor's join returns. |
| `RingBufferTrace` | 6 slots, 12 words: two wrap-arounds per configuration, any number of quiet re-initialisations, destruction at any time. Order, no overwriting, conservation of slots; every word is delivered and a stalled FPGA resumes. |
| `RraCalls` | 3 calls on 2 registers with 1 failing library call and pings of up to 20 probes, as in the code. Calls that complete take their own notification; reads and writes are right; ping returns even from a silent FPGA, every call returns if the FPGA answers. |
| `Registers` | all classes whose setters keep the other fields. |
| `Configure` | 3 calls, 2 accesses that throw before or behind their post, 2 partners: no mixed ring (`NoMixedRing`); a call is ahead of the FPGA by exactly what such accesses left (`LagIsBroken`); a returned call leaves everything configured and in step if nothing was left (`ReturnedIsConfigured`), and in force once all is served if something was (`ServedIsConfigured`); default numbers announce a ring before its threshold. |
| `TracePath` | 3 slots, 4 words, 5 notifications, 1 failing post, reconfiguration while nothing is on the way, destruction at any time: the path implements `RingBuffer`, every word is delivered, a stall ends unless failed posts took the room, the destructors of both rings and of the poller end. |
| `Endpoint` | listings of up to three lines over seven kinds of line, nine link states, with and without the environment variable; up to three Endpoints one after the other with 2 failing steps; 2 puts and 2 written words each: `DiscoveryMatchesListing`, `UsesOnlyLive`, `LeaksConfined`, `SendsSnapshot`. |
| `RingBufferReconfigured` (violation) | see finding 1 |
| `RraStaleRead` (violation) | see finding 2 |
| `ConfigureNdid` (violation) | see finding 3 |
| `PollerStartup` (violation) | see finding 4 |
| `Moves` (violation) | see finding 5 |

Bounds. Two consumers with different predicates share the one condition variable; two
notifications let one arrive in every window of the handling of the other; several
consumers of one kind are covered by the proofs, which hold for any set of callers. In the ring, `num_words_to_notify` = 4 lies between the stall (4 used slots)
and the largest batch (5 words), so both the notification in the loop and the one
behind it matter, and 12 words wrap twice. Three register calls allow a call that
fails, one that is hit by what it left, and one after that. Three configurations
with two faults allow two broken-off calls before one that returns. In `TracePath`
4 words wrap the ring of 3, holding back `num_words_to_notify` = 2 words would stall the
FPGA, and one failing post can take so much room that it must; 5 notifications suffice to
announce every word of a configuration singly, after one of an earlier configuration. In
`Endpoint` two faults let two Endpoints fail in different places, or one fail and abort;
a send buffer of 2 words with 2 puts and 2 writes has writes before, between and behind
the fetches of each put. Deadlock is not
checked where the system may stop: after the destructor, after the process ended,
or when the bounds on arrivals, words and calls are used up.

Fairness. Threads run (weak fairness of the poller's, the consumers' and the
calling thread's steps). The mutex and the timeout need strong fairness: other
threads take the mutex in between, and wakeups that find the predicate false
interrupt the wait, whose deadline is however fixed once, on entry. The FPGA's
notification timeout, the network and the poller deliver, and the user of the ring
keeps calling `receive`. In `TracePath` these are taken together, step by step of the
composed threads; a post is never required to fail or to succeed. For register access the calling thread alone is fair; that
the FPGA serves and answers (`FpgaAnswers`) is a premise of `CallsReturn` and not of
`PingReturns`. Library calls are never required to fail.

## Findings

1. `RingBuffer::reset` (`buffer.cpp:204`) does not discard what the poller has
   already counted nor what is on the way: after a re-initialisation `receive` reads
   slots that the FPGA has not filled.
2. After `ping` gave up, its late answer completes the next `rra_read`, which
   returns the ping's register (`connection.cpp:165`).
3. `Info::ndid(value)` merges the bits (`configure_fpga.cpp:382`): an FPGA that is
   configured under a second node id ends up with the union.
4. The poller's thread is started before the constructor fills the CPU set it pins itself
   to (`notification_poller.cpp:11`), and the set is never cleared: each of the two alone
   is enough for the threads not to share a single CPU.
5. The defaulted moves (`connection.h:36`, `buffer.h:47`, `buffer.h:107`) leave the source
   with its handles, which both destructors release. `Endpoint`'s own defaulted move is
   deleted, as `NotificationPoller` cannot be moved.

Differences visible without a run:

* the ring buffer's destructor (`buffer.cpp:135`) drops the words it polled without
  reporting them, although the header promises "a last sync" (`discarded` in
  `CreditConservation`);
* an exception between the Init writes and the resets in `configure_fpga` leaves the host
  reading at positions of the old ring (`configure_fpga.cpp:36`; `ReturnedIsConfigured` is
  about calls that return);
* after an access that threw behind its post (`connection.cpp:181-184`) a repeated
  `configure_fpga` runs ahead of the FPGA: it may reset the host's read positions before the
  write of the Init register is served, read Info from an answer to an earlier read, and
  return with writes still out (the premise `broken = 0` of `ReturnedIsConfigured`);
* `timeout(value)` and `frequency(value)` of the notification registers clear each other
  (`configure_fpga.cpp:194`; `configure_fpga` uses the constructors, which set both);
* `receive` posts `num_words_to_notify + 1` words where the header speaks of a maximum of
  `num_words_to_notify` (`buffer.cpp:178` against `buffer.h:91`);
* `ping` may take 10.5 s to say true where the header says within a millisecond
  (`connection.cpp:138-143` against `connection.h:103`), says true
  when the probe fails, and does not compare the identifier it read: `NodeIsNoFpga` is
  thrown nowhere;
* `Endpoint`'s constructor throws `FailedToRegisterRegion` and `std::runtime_error` besides
  the documented `ConnectionFailed`; every Endpoint leaves the pmap file descriptor open;
* the default configuration writes mode 0b100 together with a physical response address
  where the header asks for logical ones.

## Proofs

For every value of the constants that satisfies the modules' assumptions:

* **NotificationPoller**: `TypeCorrect`, `Conservation`, `WakeupsNotLost`,
  `Refinement` (the poller implements `PacketCounter`). `PacketConservation` alone
  is not inductive: that `m_packets = 0` loses nothing needs `tmp[c] = m_packets`
  between the two statements, which holds because nobody else owns the mutex.
  `LockDiscipline` says who owns it where, and that a caller about to block has seen
  its predicate false, which is what `NoLostWakeup` needs. `MutexNotAbandoned` is the
  converse: whoever owns the mutex is inside of a critical section, so a thread that waits
  for it waits for one that will release it, and the destructor's join for one that no
  caller holds up.
* **RingBuffer**: `TypeCorrect`, `Delivery`, `NoOverwrite`, `Conservation`,
  for every ring size, packet size, threshold not below
  the packet size, and batch limit. The invariant relates the two ends:
  `WordAccounting` (unread words are announced, counted or readable),
  `IndicesInSync` (the FPGA writes right behind the last unread word), and
  `f_used <= size_qw`. Overwriting is then impossible because unread words are
  among the used slots. The proofs are about `Spec`, hence about quiet
  re-initialisation; finding 1 shows that the premise is needed. `StallHasCause` and
  `DrainBounded` follow from the same invariant: occupied slots belong to words or
  credits under way, and readable words are among the occupied slots, which are no more
  than `size_qw`, so a loop that adds to them in every round ends.
* **TracePath**: `RingRefinement` (the safety of the composition: it implements
  `RingBuffer`), `PollerRefinement` (it implements `NotificationPoller`), and from them
  `PathDelivery` and `FailedPostsKeepSlots`. `TracePathProofs` instantiates the proofs of
  the two parts and uses their inductive invariants for the composed state; what is left
  is the `Glue` between them. `Marks` counts the words up to each notification of the
  queue, without a sum over the queue: the queue starts where the poller is and ends with
  all that was announced, so the words a notification announces are never more than
  `Announced`. `QueueOfWords` and `HandOfWords` say that notifications carry at least one
  and at most `size_qw` words, so that the 32 bits the poller keeps lose nothing
  (`PathAssumption`: a ring has fewer words than `PayloadRange`); `PollsWhere` says from
  where `poll` is called. That the return of `consume_packets` is the one step `Receive` or
  `DrainPoll` is due to the poller's `LockDiscipline`: `tmp` is still all of `m_packets`.
  `PathStallHasCause` and `PathDrainBounded` carry the two facts about stalls and about the
  destructor's loop over to the path: only failed posts can stop the FPGA for good, and the
  premise `size_qw - lost >= Threshold` says exactly when they have.
* **Rra**: `TypeCorrect`, `Quiescence`, `ReadsAreCorrect`, `WritesAreCorrect`.
  `Pairing` locates the one request of the current call (under way, answered,
  notified, or consumed) by the step the call has reached, as long as `clean`.
* **RegisterFiles**: `FieldsStayInSync` for every set of arguments and words, if
  the classes are those of `Synchronized`; from lemmas about `Get`, `Replace` and
  `Overwrite` for all positions and widths.
* **ConfigureFpga**: `LagIsWhatWasBroken`, `RingsNotMixed`, `ReturnsConfigured`,
  `ServesConfigured`, `NotifiesInTime`, for every set of configurations and every number of
  calls and of accesses that throw, before or behind their post. As the FPGA lags behind,
  the invariant speaks of what it will hold: `WillHold(i, r, c)` says that among the first i
  requests of `net` the last one for register r is of configuration c, or that there is none
  and r holds c, and `WillRun` the same of a ring. `RegistersWritten` and `RingsInitialised` say so of the steps the call has
  posted (`Posted`). A ring is not mixed because of `InitsPrepared`: when the FPGA gets to a
  write of an Init register, the ring's registers hold its configuration, since their
  positions are all before it in `Program` and requests are served in order. With
  `broken = 0`, `LagIsBroken` leaves no request but that of the access at hand
  (`OwnRequestOnly`), so `WillHold` becomes `regs[r] = config` when the call returns and the
  resets come after the rings started over (`HostInStep`). The invariant also holds on an
  instance of two calls and two faults. `NotifiesInTime` is about the default numbers as
  functions of the number of pages (`PagesAssumption`: at least one page).
* **Endpoint**, **SendBuffer**: `UsesLive`, `Leaks`, `SnapshotSent`, for every network,
  number of failing steps and use of the send buffer. `HeldAsBuilt` gives what an Endpoint
  holds as a function of how far construction or destruction has come, `Position` how far
  that can be in each mode. That each step finds what it uses is then a fact about the order
  of the members and of the steps in `Constructor` and `Destructor`, shown member by member.
  `LeaksConfined` needs `LeaksSettled`: entries of earlier Endpoints do not change.
  `SendInv` says of every put still out that the card has fetched, or will find, the
  words `rma_send` saw, unless it is spoiled; a register answer cannot spoil one, as the
  response word is outside of the send pages (`MappingAssumption`: the mapping has at
  least one page of at least one word).

* **Endpoint**, **NodeIds**: `DiscoveryIsRight` for every listing that is a sequence of
  sequences of tokens (`ListingsAssumption`) and every link status. `Scanned` says that every
  '[' before `pos` is closed, so that the one at `pos` opens an entry, and that `node_ids`
  lists the entries before `pos`; `Kept` that `nodes` lists those already checked whose
  link is up. `FindFirst` is what `find_first_of` returns, from the least element of a set
  of natural numbers; `ListsAppend` adds an entry to a list. `LifeInv` is needed because an
  Endpoint that is gone leads back to `idle`, where the first search is long over.
  `ScanAdvances` is from the same invariant: the parser's loop ends.

`LifeInv`, `SendInv` and `SearchInv` also hold on the instance of the run `Endpoint`. Only
model-checked: liveness (`CallsReturn`, `DestructorReturns`, `WordsDelivered`,
`NoPermanentStall`, `PingReturns`, `EveryWordDelivered`, `StallEnds`, `DestructionEnds`), as
fairness is beyond the prover. Of it the proofs hold the safety part: no wakeup is lost, no
mutex abandoned, no slot forgotten, and the loops that wait for others are bounded
(`DrainBounded`, `PathDrainBounded`).

## Not modelled, and plan

Not modelled: exception texts, build files and the hardware test carry no state;
`TraceBufferCounter` is declared and never defined. The hicann ring is documented as not in
use: its destructor is in the model, its `receive()` is not; it would take the trace
ring's words. What the network card does with memory that is gone (a put into an
unregistered region, a late answer or a fetch after munmap) is not in this repository.
Members of the poller that the thread may use before they are constructed (`m_mutex`,
`m_cv`) are steps of `PollerStartup`, without a property: it would restate the order.

Every safety property that a run checks is also a theorem. What could still be added: the
hicann ring's `receive()`, should it come into use, and liveness proofs, should the
prover learn fairness.

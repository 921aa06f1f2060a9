# Verification of the RDMA/MPI circuit-switch benchmarks

TLA+ models of the benchmark programs in `src/microbenchmark` and of the Opera
experiment in `script/opera`: what two (or
more) processes, their queue pairs and their NICs or MPI library do together,
for every interleaving and for the failures the code handles. TLC checks small
instances; TLAPS proves the safety of the RDMA session, of the control program's
queues and reports and of the MPI benchmark for every instance, that the two
processes of the control program never wait for each other, and that the RDMA
session implements its abstract specification.

Paths below are relative to the repository; `dccs_rdma.h` and the like are
files of `src/microbenchmark`.

## 1. Inventory

| Part | State | Operations | Interacts with |
|---|---|---|---|
| Verbs wrappers (`dccs_rdma.h` 184-300) | send queue, receive queue, their completion queues | post send/read/write/receive, poll | NIC, peer's queues |
| Connection (`dccs_rdma.h` 31-147) | endpoint, listening endpoint | `dccs_connect`, `dccs_listen`, disconnects | peer's connection manager |
| Buffers (`dccs_rdma.h` 307-369) | memory, registrations | `allocate_buffer`, `deallocate_buffer` | NIC (local and remote keys) |
| Memory-region exchange (`dccs_rdma.h` 376-558) | count and array messages, `remote_addr` | `get_remote_mr_info`, `send_local_mr_info` | peer, by send/receive |
| Request loops (`dccs_rdma.h` 671-793) | request records with time stamps, `failed_count` | `send_and_wait_requests`, `recv_requests` | queues, reports |
| Benchmark session (`rdma_main.c`) | `rv`, role, round | `run` | all of the above |
| Control program (`control_main.c`) | slot number, target time, `start[]`, `end[]`, two arrays of buffers | `run` | all of the above |
| MPI benchmark (`mpi_main.c`) | buffer, requests, digests | `run`, `send_messages`, `recv_messages`, `verify_checksum` | MPI library, other ranks |
| Reports (`dccs_rdma.h` 797-931) | latencies, running sum and extremes | sums, latency and throughput reports | time stamps, buffers |
| Command line (`dccs_utils.h` 307-460) | `dccs_parameters` | `parse_args` | all programs |
| Opera experiment (`script/opera`) | processes on every host, shared log directory, the switch's clock | launch, count, wait, collect | operator, `pssh`, `ib_send_lat` |
| Other launch scripts (`script/`) | - | start the programs | the programs |

What is hard here: completions arrive asynchronously and belong to a request
only by position; unsignaled requests hold queue slots; one-sided operations
touch the memory of a process that takes no step; error exits free memory the
NIC may still use; every wait is an unbounded poll; a peer may be gone; sends
of the MPI program are never waited for, and all its traffic shares one tag;
the experiment script knows its processes only by what `ps` shows, host by host,
and any failing command ends it.
`PROJECT.json` lists these hazards with the line at which each bites.

What makes each part correct:

* queues: slots given back before the next burst needs them, completions
  attributed to the right request;
* buffers: never released under the NIC, local or remote;
* exchange: rounds start only with valid addresses;
* rounds: messages meet the buffers they are meant for, reports use the time
  stamps of their own round, a successful result means nothing was lost;
* session: sums compared across hosts are final and equal, endpoints are
  destroyed on every exit, processes never wait for each other;
* MPI: messages meet their receives, rounds do not overlap, buffers outlive
  sends, the verdict on checksums is right;
* timing: the slots keep to their schedule, and a report says what the stamps say;
* experiment: what is saved is complete, and the loops end.

## 2. Modules

| Module | Models |
|---|---|
| `Verbs` | one endpoint of an RC queue pair; operators from queue pair to queue pair |
| `RdmaSession` | client and server `run()` of `rdma_main.c`, both NICs; extends `Verbs` |
| `Transfer` | the promise of a session: buffers arrive in order, sums and successes are of all of them |
| `RdmaTransfer` | the refinement mapping from `RdmaSession` to `Transfer` |
| `ControlSession` | client and server `run()` of `control_main.c`, both NICs; extends `Verbs` |
| `SlotTiming` | the slot clock of `control_main.c`, and `print_latency_report_raw` over the stamps |
| `OperaExperiment` | `run_opera_experiment.sh`, `opera-ll-traffic.sh` on every host, the processes |
| `MpiBench` | every rank's `run()` of `mpi_main.c` and the MPI library |
| `ParseArgs` | `parse_args`: options, the warm-up added to the count, validation |
| `BufferLayout` | `allocate_buffer` and `deallocate_buffer` over `mr_count` regions; extends `ParseArgs` |
| `MCRdmaSession`, `MCControlSession`, `MCSlotTiming`, `MCOperaExperiment`, `MCMpiBench`, `MCBufferLayout` | instances for TLC |
| `VerbsProofs` | lemmas about one queue pair: its accounting, and its phases between the calls of a process |
| `RdmaSessionProofs` | types of `RdmaSession`; what one of its processes can rely on |
| `RdmaFlowProofs` | what its two processes know of each other; the refinement of `Transfer` |
| `ControlSessionProofs`, `SlotTimingProofs`, `MpiBenchProofs`, `OperaExperimentProofs`, `BufferLayoutProofs` | theorems about `ControlSession`, `SlotTiming`, `MpiBench`, `OperaExperiment`, and about `ParseArgs` and `BufferLayout` |

Operators that a comment calls *Mutant* are wrong variants of the definition
that follows them. They are used by nothing in the specification; replacing the
definition by its variant makes the property `PROJECT.json` names fail.

### Verbs

A queue pair is a record: the requests posted and not acknowledged (`sq`), how
many of them the peer has executed (`sent`), the completions waiting in `scq`,
the posted receives (`rq`) and their completions (`rcq`). `posted` is the
driver's work-queue counter and `retired` the request named by the last polled
completion: a slot is free again only when a completion at or after its request
is polled, so `CanPost` is `posted - retired < MAX_WR`. A request that fails
(`Flushed`) moves the queue pair to the error state and turns everything posted,
signaled or not, into error completions; later posts are accepted and flushed
at once. A receive queue with `MAX_WR` receives refuses another one (`CanRecv`);
only a process that has given up on receives because its `ibv_poll_cq` failed can
get there. libibverbs, librdmacm and the NIC are not in the repository: they are
modelled from how the wrappers rely on them, and marked external in the map. A
provider may round `MAX_WR` up; the model takes the requested depth.

### RdmaSession

One step of a process runs from one blocking call to the next; a busy loop on
`ibv_poll_cq` is a guard (`SendComp`, `RecvComp` return the possible outcomes of
a poll). `pc` names the call a process is in:

* `start` to `get_request`: `dccs_connect` / `dccs_listen`;
* `allocate`; `get_mr*` / `send_mr*`: the exchange (verbs read and write only);
* `post`, `wait`, `report`: `send_and_wait_requests` and the report;
  `recv_post`, `recv_wait`: `recv_requests`;
* `end_post`, `end_wait`: the terminating message; `sha`, `deallocate`,
  `disconnect`, `done`; `crashed`: a NULL `mr` was dereferenced.

Buffers hold values `<<owner, index>>`, so that a mix-up of buffers shows even
though `malloc_random` fills all buffers of a process alike. Addresses are two
bytes, swapped by `htonll` and `ntohll`. `NicExecute` takes the next request of
an endpoint: a send goes to the peer's oldest receive and waits while there is
none (the receiver-not-ready retry is infinite under `rdma_connect(id, NULL)`),
a read or write touches the peer's memory without a step of the peer, and a bad
key or address puts both ends in the error state. `NicAck` completes the oldest
executed request. `NicTimeout` is the end of the retries against a peer that is
not connected any more, `FabricFails` that of any request.

`params.faults` says what may go wrong in a session (`AllFaults`). A failed
registration of the application buffers leaves `mr = NULL` and `allocate_buffer`
returns 0 all the same. Each region is registered by itself, so with several
regions some requests may have an `mr` and others not: `nullmr` is any set of
requests (`mr_count = count`; fewer regions give fewer of these sets).
`rdma_post_read`, `rdma_post_recv`, `rdma_dereg_mr` and `send_local_mr_info`
dereference it, `rdma_post_send` and `rdma_post_write` do not. `blind` is a history
variable: an `ibv_poll_cq` of this process has failed. The two processes share
every parameter but the count (`count`, `scount`), the only one the protocol
compares.

### Transfer and RdmaTransfer

`Transfer` knows no queues, regions or rounds: buffers arrive one after the
other, none of them once a host has shown its sum; a host sums only when all have
arrived, and succeeds only when it has summed; it may fail at any time.
`RdmaTransfer` reads this state off the session: a buffer has arrived when the
receiving side holds the contents of the sending side's buffer of the same index
(the server sends when the verb is read), a host has summed when `print_sha1sum`
has run, and its outcome is that of `run()`. The property `ImplementsTransfer`
says that every step of the session is a step of `Transfer` or changes nothing of
it. Sessions with different counts, and those in which `ibv_poll_cq` fails, are
mapped to a transfer that never starts: the code makes no promise for them.

### ControlSession

Starts with both ends connected (the calls are those of `RdmaSession`). The
server gets the peer's region first and then sends its own, the client the other
way round. In every slot the server posts `count` writes, stamping the slot
before each, and calls `dccs_rdma_send_comp` for `count` completions, which polls
as many as there are until it has them all (`SlotWait`). A refused write leaves
the packet loop, and the wait for all completions follows all the same. The
program asserts `count == 1`; `build.sh` makes a Release build, without
assertions, and `run_control.sh` runs eight packets per slot, so both are
modelled. The client may have been given another count (`ccount`): then
`get_remote_mr_info` returns 1 without the addresses, as in the benchmark, and
both processes end up polling for the completion of a message that the other will
never receive. A failed registration leaves a whole array without `mr`. The client
lets the slots pass in one step, because everything it does
in a slot is commented out. The literal 100 of the progress message is kept, so
the instances run 100 slots.

### SlotTiming

The other side of the slots: all stamps are taken, and time has a value. A slot
adds `SLOT_NS` to its target, waits for it if it has not passed, and takes some
time (`late`, `work`: the environment's). `busy` is a history variable. With an
interval of 0 the slots are the requests of `send_and_wait_requests` in latency
mode, whose stamps go to the same report. The report is the C loop: running sum,
extremes, `finished_count`, then the sort and the three indices. A difference of
stamps converts to a double exactly; absolute times do not: nanoseconds since the
epoch are beyond 2^53, so conversion, product and quotient each round to a grid
of about 250 ns (`Grids`, `Micro`).

### OperaExperiment

A process `<<h, p>>` runs on host `h` for its traffic with host `p`; the host with
the larger number is the server, and the log has the name of the process. The
home directory, and `LOG_DIR` with it, is shared by the hosts: the experiment
script moves the logs of all of them. `opera-ll-traffic.sh` is two steps on every
host, its servers and (a second later) its clients. The counts are sums over
hosts that `pssh` asks in any order (`Sample`), so that a count mixes several
moments. Under `set -e` a failing command ends the script (`exited`): `killall` on
a host without traffic, `kill` without a pid, a missing result directory. With
`USE_CLOCK` the clock is started inside a command substitution, which lasts until
the clock closes the pipe it inherits (`attached`); the repository's setting is
`USE_CLOCK=false`. `params.faults` lists what else may go wrong.

### MpiBench

`net[s][d]` holds the messages sent and not matched, `posted[d][s]` the
receives; both are matched in order, which is MPI's non-overtaking rule for one
tag and communicator. For a message that is not `eager` the library reads the
sender's buffer when it is matched, and reads garbage once it is freed.
`MPI_Send` of a digest that is not `eager` returns when it is received. `sync`
is `TEST_SYNC_PACKET`. `nul` lets digests start with a zero byte, where
`strncmp` stops.

### ParseArgs and BufferLayout

`ParseArgs` takes options in any order and any number, each with a number of
`Numbers` or an invalid value, until `Validate` adds the warm-up to the count (in
throughput mode) and accepts the parameters or exits. Sums and products are those
of `size_t`, modulo `SIZE`. `BufferLayout` then runs both loops, one request per
step, over memory whose blocks are apart from each other (`posix_memalign`).

`parse_args` validates the sum of count and warm-up only. `-c 0 -w 5 -m
throughput` is accepted and leaves `requests[warmup_count]` of the throughput
report out of range (the run `count_zero`); so does a sum that wraps around, and in
latency mode any warm-up is accepted and not used. `RdmaSession` therefore assumes
nothing about the warm-up. `OwnBytes` has the hypothesis `Fits`, which leaves out a
block whose size wraps.

## 3. Runs

| Run | Shows |
|---|---|
| `session` | `TypeOK`, `RoundHoldsSlots`, `CompletionIsMine`, `WaitHasSignaled`, `DmaSafe`, `RemoteMrLive`, `RecvMatches`, `SuccessMeansDelivered`, `ReportFresh`, `NoEndpointLeak`, `StuckOnlyOnDeadPeer`, `ImplementsTransfer` |
| `session_live` | `Termination`, `SendWaitEnds` |
| `control` | `TypeOK`, `ReportComplete`, `ReceivedIsSent`, `CompletionIsMine`, `PollFits`, `WriteTargetLive`, `SlotFindsQueueEmpty`, `StuckOnlyOnDeadPeer`, `SumIsFinal`, `Termination` |
| `mpi` | `TypeOK`, `MessagesMatch`, `BacklogBounded`, `RequestsSet`, `RootBufferLive`, `VerdictSound`, `OneToManyDelivers`, `Termination` |
| `layout` | `OwnBytes`, `RegionsAsAsked`, `FreedOnce` |
| `timing` | `OnSchedule`, `ReportRight` |
| `opera` | `SavedComplete`, `ExperimentEnds` |
| `count_mismatch` | violated: `MrInfoChecked` |
| `full_queue` | violated: `WaitHasSignaled` |
| `control_both_write` | violated: `BothSidesWrite` |
| `control_repeat` | violated: `PositiveRepeatRuns` |
| `count_zero` | violated: `CountPositive` |

A property's comment says in words what it states and about which code. An
`ibv_poll_cq` that itself fails (`dccs_rdma.h` 256 and 287) leaves a request posted
and a completion behind: error exits then do free a buffer that the NIC may still
use, and a later wait takes the completion for its own. No code guards against it.
What is about one process of the benchmark (`RoundHoldsSlots`, `CompletionIsMine`,
`WaitHasSignaled`, `DmaSafe`) is stated for a process whose own polls have not failed
(`~blind[e]`), in sessions where its peer's may have; what relates the two hosts, and
the control program, for sessions in which none fails (`Regular({"poll"})`, `Polls`).
`Regular` also asks for equal counts. `ReportFresh` says nothing of the first stamp
of a throughput report when the warm-up is not below the count. `NoEndpointLeak`
leaves out the exit where the type of service cannot be set: `dccs_connect` goes
to `out_free_addrinfo` there and keeps its endpoint.

A process of the RDMA programs may really stop for ever: a receiver whose peer is
gone polls on. `Standstill` spells out when no step is possible: each process has
ended, polls an empty queue or waits in `rdma_connect` or `rdma_get_request` for a
peer that is elsewhere, and each NIC has nothing to acknowledge, execute or give up
on. `Stopped` lets such a state stutter, and the runs of both programs check for
deadlock, so that a state that stops in any other way is an error of the run. What a
standstill may look like is then a property without `ENABLED`, `StuckOnlyOnDeadPeer`,
and can be proved.

Deadlock checking is off in five runs. In `mpi`, a rank whose unbuffered digest is
never received stops because rank 0 has returned at an earlier incorrect one; in
`layout`, `count_zero` and `timing` the functions simply return; in `opera` an experiment ends, or
waits for traffic that has ended early or for a clock that keeps its pipe, and
`ExperimentEnds` leaves these out by its hypotheses.

The five violations are disagreements between the code and what the code itself
says:

* `count_mismatch`: an inconsistent count is detected and logged, but leaves
  `get_remote_mr_info` with a positive result, and the client runs its rounds
  with `remote_addr` 0.
* `full_queue`: in throughput mode with more than `MAX_WR` requests the last,
  signaled request is refused by the full queue, and its completion is polled
  for ever.
* `control_both_write`: the header of `control_main.c` says that both sides
  write; only the server does.
* `control_repeat`: any positive `repeat` is accepted, and one below 100 (the
  default is 1) divides by zero.
* `count_zero`: `parse_args` says that the count must be positive, and in
  throughput mode checks it with the warm-up already added: a count of zero is
  accepted, and the throughput report starts behind the last request.

### Bounds

* `MAX_WR = 2` (1000 in the code): two requests fill the queue, three overrun it.
* Up to two requests and two rounds: the second request or round is the one
  that can meet leftovers of the first; three requests are used where the queue
  must be full. Warm-up 0 or 1, with a count of one a warm-up of all requests.
* Faults of the benchmark: none; all of set-up, accept, refused connection,
  registration and transport (`Hostile`), and the same without the registrations,
  where `RemoteMrLive` makes its claim; the type of service alone, behind whose
  failure an endpoint is kept; poll with transport failures. Counts that differ
  meet no fault, or poll and transport failures.
* 1 and 100 slots: below and at the smallest number the control program runs.
* One packet per slot, as many as the queue holds, and one more; a client with
  another count in one instance of 100 slots.
* Faults of the control program: none; `calloc` and transport, where
  `WriteTargetLive` makes its claim; all but a failing poll; a failing poll.
* Three ranks: two peers of rank 0, which may be at different points. From all to
  all, two messages are checked with a library that copies nothing, which is
  where receives meet sends that are still reading; one message with every
  choice.
* Up to three slots with every choice of lateness and work, some work longer than
  two slots; eleven and 101 so that the 90th and the 99th percentile are not the
  maximum. Times start at four offsets to the grids.
* Three hosts: one with clients only, one with servers only, one with both. Faults
  one at a time, and the pairs that meet.
* `SIZE = 16` stands for 2^64 and `DEFAULT_MESSAGE_COUNT = 2` for 1000. The
  numbers 0 to 4 and `SIZE - 1` make sums and products wrap, and give counts
  with and without a common divisor with the number of regions.

### Fairness

`FairSpec` assumes weak fairness of each process and of each NIC (each rank and
each pair of ranks in MPI): the operating system schedules the processes, which
busy-poll, the NIC works off its queue and its retry counter ends, and an MPI
library makes progress in `MPI_Testall`, `MPI_Recv` and `MPI_Finalize`. Nothing
is assumed of `FabricFails`. In `OperaExperiment` the script (with an operator who
answers), the traffic script on every host and every process are weakly fair;
that traffic outlasts the launch is the two minutes of `ITERS` against seconds,
and is dropped by the fault `early`.

## 4. Proofs

TLAPS proves the following for every value of the constants. For the RDMA
programs the assumptions are `MaxWrAssumption` (`MAX_WR` in `Nat \ {0}`) and
`ParamAssumption` (the parameters have their types, counts and repeats being
positive as `parse_args` checks; the warm-up is any number); for `MpiBench`, that there is at least one rank and that
count and repeat are positive; for `OperaExperiment`, that the hosts are a finite
set of numbers; for `ParseArgs` and `BufferLayout`, that the default count and the
numbers on the command line are values of `size_t`; for `SlotTiming`, that times and
limits are natural numbers and the grids of the conversions positive. Nothing else is assumed: the faults, the depth of
the queues and the counts are arbitrary.

| Module | Theorem | States that this always holds |
|---|---|---|
| `RdmaSessionProofs` | `TypeCorrect` | `TypeOK` |
| | `SlotsOfRound` | `RoundHoldsSlots` |
| | `CompletionsAreMine` | `CompletionIsMine` |
| | `PollingCanEnd` | `params.count <= MAX_WR => WaitHasSignaled` |
| | `BuffersOutliveRequests` | `DmaSafe` |
| | `ReportsAreFresh` | `ReportFresh` |
| | `EndpointsDestroyed` | `NoEndpointLeak` |
| `RdmaFlowProofs` | `MessagesMeetReceives` | `RecvMatches` |
| | `RemoteMemoryLives` | `RemoteMrLive` |
| | `SuccessIsDelivery` | `SuccessMeansDelivered` |
| | `SessionIsTransfer` | `ImplementsTransfer`, the refinement |
| | `NoMutualWait` | `Regular({}) /\ params.count <= MAX_WR => StuckOnlyOnDeadPeer` |
| `ControlSessionProofs` | `TypeCorrect` | `TypeOK` |
| | `QueueEmptied` | `SlotFindsQueueEmpty` |
| | `PollStaysInArray` | `PollFits` |
| | `NoStaleCompletion` | `CompletionIsMine` |
| | `ReportOfWholeSlots` | `ReportComplete` |
| | `SumsAgree` | `ReceivedIsSent` |
| | `WritesFindMemory` | `WriteTargetLive` |
| | `SumsAreFinal` | `SumIsFinal`, an action property |
| | `NoMutualWait` | `StuckOnlyOnDeadPeer` |
| `SlotTimingProofs` | `SlotTimingOnSchedule` | `OnSchedule` |
| | `SlotTimingReportRight` | `ReportRight` |
| `MpiBenchProofs` | `TypeCorrect` | `TypeOK` |
| | `MessagesMeetReceives` | `MessagesMatch` |
| | `BarrierBoundsBacklog` | `BacklogBounded` |
| | `TestallSeesSetRequests` | `RequestsSet` |
| | `RootOutlivesSends` | `RootBufferLive` |
| | `VerdictIsSound` | `VerdictSound` |
| | `OneToManyArrives` | `OneToManyDelivers` |
| `OperaExperimentProofs` | `ResultsAreWhole` | `SavedComplete` |
| `BufferLayoutProofs` | `BuffersAreApart` | `OwnBytes` |
| | `RegionCount` | `RegionsAsAsked` |
| | `BlocksFreedOnce` | `FreedOnce` |

`WaitHasSignaled` and `StuckOnlyOnDeadPeer` of the RDMA session have a hypothesis that
the run `session` meets by its bounds and the run `full_queue` shows to be needed: with
more requests than the send queue holds the client polls for ever, its peer connected.
`Regular({})` says that both sides were started with the same count, whatever fails.

### Queues

Completions are attributed by position, so the invariants need to know which
request a completion can belong to. `SendAccounting` says it of one endpoint,
whatever program uses it, and is only a lemma here: the requests on the send queue
are the last ones posted, numbered consecutively; the completions carry strictly
increasing numbers between `retired` and the oldest of them; at most `MAX_WR` are
unretired. `VerbsProofs` shows that each operator of `Verbs` preserves this
(`PostSendAccounted`, `PollSendAccounted`, `AcknowledgedAccounted`,
`FlushedAccounted`, ...), resting on four lemmas about ordered sequences of
completions. `RdmaSessionProofs` lifts it to the session: the inductive invariant
`IInv` joins the types with `QpInv`, the accounting of both queue pairs and what
their outstanding requests may be (`Mine`: only the client reads and writes, and
data requests name existing buffers), which the NIC steps need to stay in range.

### One process

The other properties of `RdmaSessionProofs` are about the moment a process takes a
completion, reports or gives something back. `VerbsProofs` also defines what a queue
pair can owe its process: nothing (`Idle`), requests of a burst (`Posting`), the
completion of the last of them (`Awaiting`), one receive (`RecvOne`). Whatever the
NICs do to a queue pair keeps its phase, a failure included, because a flush only
moves requests to the completion queue. `Locals` says which phase belongs to
which label; it is inductive without any knowledge of the peer, and it is where
an `ibv_poll_cq` that fails must be excluded: `LocalInv` says it of every process
that is not `blind`. `RoundHoldsSlots` comes out of it: at the start of a round
nothing is unretired (`Idle`), because the completion polled last was that of the
last request posted, and a round posts one request per step.

### Two processes

`RdmaFlowProofs` joins both sides; its invariant is `FlowInv`, under `Promised`
(equal counts, reliable polling). `StepInv` is its core: as long as both ends are
connected, the number of requests the client's NIC has executed in its round and
the number of messages the server has received in its own differ only by the end
of a round that one side has noticed and the other has not. It needs `Known`,
which relates the client's loop index to the requests it has outstanding
(`BurstInv`) and says that a lost request leaves a broken connection behind
(`ClientLoss`, `ServerLoss`). `ExchangeInv` is the same counting for the
memory-region exchange, `ArrivalInv` turns it into contents (buffer `i` has
arrived exactly when `i <= Sent` or a round is complete), and `EndInv` keeps what
the terminating message proves after the connection is gone, when the counting is
no longer possible. `RecvMatches`, `RemoteMrLive` and `SuccessMeansDelivered` are
consequences of `FlowInv`. In the refinement each NIC step is `Arrive` of the next
buffer or a stutter, by `ArrivalInv`; each process step is `Sum`, `Succeed`, `Fail`
or a stutter, and `EndInv` supplies their guards.

That the two never wait for each other (`NoMutualWait`) is not inductive either: it
takes what a queue pair still owes a process that polls. `StopInv` says so. At every
wait for a request its completion is there or a signaled request is on the queue
(`StopAt`). A failure makes this hard to keep: a request that a failed connection
refuses for want of room gives no completion of its own, so `Spent` says that the
completions left end with the last request posted, and that the queue, once they are
polled, has room for what the round may still post. Then a standstill of two connected
processes is impossible: one that polls for a request has a message on its queue for
which the peer has posted no receive, and one that polls for a message has posted a
receive, so both poll for the same, and `ExchangeInv`, the count of the messages of
the memory-region exchange, contradicts both cases. `Meet` covers the beginning: while one
of the two has no connection yet, the other has none either or has given up.

### Control program

The invariant says how many requests are unretired at each label. In a slot it is
fewer than the packets posted so far, in the wait at most as many as are still
missing (`SlotInv`): so the queue is empty when the next slot begins, and a poll
never returns more than the array has room for. Behind the slots (`EndInv`)
either all slots have both stamps or the queue pair is broken, and then the
terminating message cannot succeed and no report is printed.

Three properties relate the two hosts, and need a second invariant, `FlowInv`. The
server sends three messages, the two of the exchange and the terminating one, and
has never more than one of them on its queue. `Got` counts the messages the client
has received and `Delivered` those the server's NIC may have executed, both read off
the labels and the queues; `Got <= Delivered` says where the server is at least. So
a server with a write on its queue (`Queued`: only in a slot) has a client that has
not been told of the end, has not summed its buffers, and, as it leaves a live
connection only behind its sum (`Holding`), still holds its memory. `DataInv`
follows each packet of a slot: it has arrived or its write is queued, unless a
failure is there to be polled, or the slot lacks completions, and then it does not
end. Hence a slot that has ended has delivered its packets; later slots write the
same contents again. `FreshInv` covers the beginning: the server waits for the
client's first message, so nothing is written to a buffer that is still to be filled.

That the two never wait for each other (`NoMutualWait`) needs a third, `StopInv`. A
process finds what it polls for: at the wait for a message its receive is posted or
has completed, and at the wait for completions the queue pair owes enough of them
(`Owed`, the requests posted and the completions not polled; every request is
signaled, and a flush only moves them). So at a standstill one that polls for
completions has a message queued for which its peer has no receive, and one that
polls for a message has its receive posted: the two must poll for the same. The
client sends first and the server receives first, which the number of messages
tells (`Even`: while both ends are connected and in use, the server has received
the messages of the exchange that the client's NIC has executed): if both polled
for completions the server would have received both messages and the client not yet
sent them, and if both polled for messages the other way around. `SlotOwed` is the
same for a slot, whose packets must fit the queue: a packet it refuses is waited
for in vain.

### Slots and their report

`OnSchedule` compares the end of the latest slot with the maximum of the ends that
each earlier slot would lead to (`Chain`). The inductive form (`Schedule`) says
that it is an upper bound of them and one of them: a slot more pushes every chain
back by the time it has lost (`Lost`) and adds the one that begins with it. For
the report, `Accumulated(m)` says of the loop's variables what the first `m`
stamps make of them; the sorted array behind it is described by ranks
(`SortLatencies` takes the least latency that enough others do not exceed), so a
percentile is right as soon as the truncated index is a rank (`PercentileRight`),
and `finished_count` is bounded on both sides by the grids that the three
conversions round to (`FinishedRight`).

Both are about sums over a set. `MapThenSumSet` is a fold, defined by recursion
over sets, and what it computes must be known for sets of any size: `SumOver` and
the lemmas behind it derive from the definition alone that a sum grows by its next
term (`SumNext`) and depends on its terms only (`SumSame`). The induction they
need is over the natural numbers and for one formula at a time; it is written out
as the absence of a least counterexample, from the well-foundedness of `<`.

### MPI

The invariant is one fact per pair of ranks (`PairInv`): what is sent and not
matched, and what is posted and not matched, are the last parts of one round,
behind which only a digest may come; they have the same length, or one side has
not begun the round the other has completed (`InStep`). `BarrierInv` says what the
barrier is for: two ranks are never more than one round apart, and a rank that is
about to send finds that its receivers have taken everything (`SendFindsEmpty`).
`RootInv` and `DigestInv` say that a digest rank 0 has, or that is under way, is
that of a buffer nobody writes to any more; `OutInv` that in direction 1-N the
parts that have arrived are those of rank 0.

### Opera experiment

`run_experiment` never sees all hosts at once: `ps` answers host by host while the
processes go on. Each loop nevertheless ends with a fact about all of them,
because it compares the sum with a value that only one distribution reaches
(`ActiveInv`: a sum of `N - 1` per host asked means that every process of those
hosts was running; `FinishInv`: a sum of zero, that none was) and because what a
host has shown stays true: a process that ran has run (`Seen`), and one that is
over does not come back (`Over`). The second needs the first, without which
"nothing runs" could be said of processes that have not started. `LogInv` ties
each log to its process from the clean-up on, whatever an earlier experiment left
behind. The hypothesis that `ps` does not show a starting process as running is
part of `SavedComplete`.

### Command line and buffers

The invariant gives the state of both loops in closed form: after `i` buffers the
heap consists of the first `Blocks(i)` blocks, and buffer `i` lies in block
`i \div count_per_mr` at offset `i % count_per_mr` (`Place`). `DivModUnique` and
`NextIndex` say how quotient and remainder move with the index, `AllBlocks` that
the whole count needs `mr_count` blocks, which is where the validation of
`parse_args` is used. `FreedOnce` and `RegionsAsAsked` need no bound on the
sizes; `OwnBytes` has the hypothesis `Fits`, without which a block is too small.

TLC checked these invariants on the instances of section 3 before they were
proved.

### Only model-checked

* Liveness under fairness is out of the prover's reach: `Termination` of the three
  programs, `SendWaitEnds` and `ExperimentEnds`.
* That a session stops only at a `Standstill` is a statement about `ENABLED`: TLC's
  check for deadlock shows it on the instances.

## 5. Not modelled

* The standard deviation and the throughput quotient of the reports (floating
  point), SHA-1, hexadecimal output, logging, CPU affinity and the calibration of
  the time-stamp counter, which `USE_RDTSC 0` leaves out of the build.
* A clock that is stepped back: `get_cycles` reads `CLOCK_REALTIME`, and nothing in
  the code notices.
* `send_requests`, `wait_requests`: called only from a commented-out block.
* Scripts that build, set up hosts, launch the microbenchmarks and plot;
  `docs/transport_daemon.md`, which has no code.

## 6. Plan

The modules of section 2 and their runs are complete, and every safety property that
a passing run checks is proved. What is left to TLC is listed at the end of section 4.

# Verification of reinvent

TLA+ models, TLC runs and TLAPS proofs for `reinvent`, a C++ library that sets
up a DPDK network device on AWS ENA from exported environment variables, runs
one lcore (a pinned thread) per receive or transmit queue, and tears the device
down again. Paths below are relative to the repository, which is `src/` here.

## 1. Inventory

### Components, their state and operations

| Component | Source | State | Operations | Modelled in |
|---|---|---|---|---|
| Lcore assignment | `makeLcoreAssignment`, `makeDpdkInitParams`, `Worker::id`, `LCORE`, `RXQ`, `TXQ` | cursor, pass number, per-VCPU counters, queue vectors, LCORE vector | the RX loop, the TX loop, the final checks, `--lcores`, an lcore asking who it is | `LcoreAssignment` |
| Configuration | first half of `Init::startEna` and the `config*` helpers in `src/reinvent/dpdk/reinvent_dpdk_init.cpp`; `Config` | policies, queue and thread counts, mempool and ring vectors, masks, RSS key, routes, flow control | one section per group of variables, with checks and early returns | `EnaConfig` |
| Device life cycle | second half of `startEna`, `createStaticUdpDestPortFlowControl`, `stopEna`, `stopDpdk`, `onExit` and `main` of the integration tests | EAL, device, memzone, mempools, flow rules, what `Config` remembers of them | start, launch, wait, statistics, stop, cleanup, and the failure of each | `EnaLifecycle` |
| UDP data path | `clientMainLoop`, `serverMainLoop` in `integration_tests/reinvent_udp/main.cpp` (the SR-IOV test is a copy) | mbufs in pools, lcores and NIC rings; `terminate`; `ts` | allocate, fill, burst with retries, receive, free, stop of the device | `UdpDatapath`, `MbufOwnership` |
| Static-route test programs | `integration_tests/reinvent_static_route_udp` | as the data path | entry points, RX loop, a TX loop that returns at once, `onExit` | `UdpDatapath`, `EnaLifecycle` |
| SPSC ring | `integration_tests/reinvent_static_route_udp/spsc.h` | two indices, a cached copy of each, the slots | `append` by one thread, `read` by another | `SpscRing`, `SpscFifo` |
| Environment cache | `src/reinvent/util/reinvent_util_environment.{h,cpp}` | the cache `d_values` behind `d_mux`; the process environment outside | `valueAs{Int,PrefixedInt,String,Bool,IntList,StringList}`, `reset`, `semiReset` | `Environment` |
| Its unit tests | `unit_tests/reinvent_util_environment` | the objects under test, the exported variables | 243 tests in three files | `EnvironmentTests` |
| Logging | `src/reinvent/util/reinvent_util_log.{h,cpp}` | epoch, severity limit, mutex | `resetEpoch`, `setSeverityLimit`, the stream and format macros | `LogRuntime` |
| Rate control | `experiment/timely/timely.h`, `experiment/timely_redux/timely.h` | rate, last round trip time, smoothed difference, time of the last update | `update_rate`, `update` | `RateControl` |
| Timing wheel | `experiment/timely/timing_wheel.h` | slots with times and bucket chains, current slot, ready queue | `reap`, `insert`, `catchup` | `TimingWheel` |
| Packet flow | `experiment/packet_flow` | packet order | fill and print | not modelled |
| Values, names, errno, statistics, printing | the rest | attributes | getters, setters, formatting, constants | not modelled |

How they interact. `main` calls `startEna`, which reads every setting through
one `Environment` object into one `Config`, calls `makeLcoreAssignment` on it,
turns the result into the `--lcores` argument of `rte_eal_init`, and then
configures the device queue by queue. `main` launches the same entry function on
every lcore; each lcore asks `Worker::id` who it is, learns whether it receives
or transmits and on which queue, and runs the loop for it, reading further
settings through the same `Environment` under its mutex and logging through
`LogRuntime`. When all have returned, `onExit` reads statistics and calls
`stopEna` and `stopDpdk`. The SPSC ring is included by the static-route programs
and meant to carry messages between two lcores, but neither program makes one.
The experiments are programs of their own.

### What is hard, and what makes each part correct

- **Lcore assignment.** Two nested loops share a cursor, a pass number and
  counters, so what RX did decides what TX sees. Correct means: an lcore only
  where it may run, sharing only under MULTI, each queue with one lcore that
  finds it, refusal only for want of VCPUs, and termination.
- **Configuration.** Some thirty variables under conditions on each other; the
  second half indexes vectors the first half filled, unchecked. Correct means:
  whatever startEna accepts, the vectors, counts, rules and routes fit.
- **Life cycle.** Every DPDK call may fail and several are unchecked. Correct
  means: a running device never loses the memory it writes to, everything
  acquired is given back once, and the process ends.
- **UDP data path.** mbufs go from pool to lcore to ring and back, shared by
  lcores; a retry loop, an empty pool, a signal only servers look at, packets
  still in a ring when the device stops. Correct means: each mbuf has one owner,
  packets leave in order and once, every lcore returns.
- **SPSC ring.** Two threads without a lock, stale cached indices. Correct means:
  a FIFO queue, no data race, progress.
- **Environment.** A cache read under several types, a hand-written parser.
  Correct means: a repeated read agrees with the first until a reset, a failed
  read leaves no trace, a list is read as documented.
- **Logging.** Some writers take the mutex and some do not, and the clock may be
  set back. Correct means: messages under the mutex stay whole, stamps are
  right, nobody waits for ever.
- **Rate control, timing wheel.** Bounds applied in some order; rounding of slot
  widths, and a slot index relative to a cursor that moves. Correct means: the
  rate goes the way the sample asks; no packet is lost, early, or overtaken.

`PROJECT.json` lists each hazard at its line with the properties that watch it.

## 2. Plan

Written in this order: `LcoreAssignment` (the library's own algorithm),
`SpscRing` over the abstract queue `SpscFifo`, `EnaLifecycle`, `EnaConfig`,
`Environment`, `UdpDatapath`, then `MbufOwnership` as the specification
`UdpDatapath` implements, `EnvironmentTests`, `TimingWheel`, `RateControl`,
`LogRuntime`, and the proofs of each where the prover reaches. What is left:

1. The composition of `UdpDatapath` with `EnaLifecycle`: at present each stands
   for the other by one step (`StopDevice` there, `WorkersDone` here).
2. `packet_flow`, should it ever be used by the library.

## 3. Modules and code

Each module opens with what it represents. Definitions named `Mutant...` stand before
the definition they are wrong forms of; no specification uses them.
`PROJECT.json` maps every definition to its lines.

**LcoreAssignment** (`reinvent_dpdk_init.cpp` 278-534, `worker.h` 186-248). One
step is one turn of a loop: `Visit` looks at the VCPU under the cursor and
either skips it or assigns it (`Assign` writes the queue record, the LCORE
record and the counter, and advances the cursor), `EndLoop` moves from the RX
to the TX loop, `CheckCounts` is the end of the function. `LcoreMap` is
the `--lcores` map, `WorkerId` the answer of `Worker::id`.

**EnaConfig** (`init.cpp` 786-1300 and 100-276, 536-760). One step is one
section of startEna. A variable is read in one place, so what it
holds is chosen when it is read; lists are their lengths; settings nothing later
depends on are represented by the section that may fail on them. `asserts` tells
the build with assertions. `ready` is the point where the second half begins. No code keeps
the thread counts that were asked for; `asked` records them (`Asked`), so that a property can
compare them with the counts in `Config`, and no step reads it.

**EnaLifecycle** (`init.cpp` 40-98, 1300-1740, `main.cpp` 85-135, 537-604). One
step is one DPDK call with the code around it; each call may fail. `failed` names the calls
that did. Two of them have results nobody looks at: `rte_flow_destroy` (`Destroy`: any of the
rules may be refused, and only the others leave the NIC) and `rte_eth_dev_close`; `stopEna`
goes on after either. DPDK does not say that a stop or a close removes a rule that
`rte_flow_destroy` refused, so the model leaves it there. DPDK is represented by the resources it hands out. `faults` records uses that
C++ or DPDK leave undefined (a pool freed twice, a call after `rte_eal_cleanup`,
an index past the statistics); the model then goes on as if nothing had happened,
which keeps later properties meaningful. The `onExit` of the static-route
programs is the same text, and their `main` differs in its exit status only.

**UdpDatapath** (`reinvent_udp/main.cpp` 43-66, 206-535, 537-585). One step is one DPDK
call with the code around it. A client lcore goes `Enter`, then `Fill` and `Transmit`
for each packet and `ClientReturns`; a retry on a full ring changes nothing and is a
stutter. A server goes `Enter`, then `Receive` and one `FreeMbuf` per mbuf, and
`ServerReturns` when it sees the signal (`Signal`). `WaitReturns` is the end of
`rte_eal_mp_wait_lcore` in `main`, `StopDevice` the stop in `stopEna`, which leaves
packets in the rings unsent. A configuration that is `routed` is one of the
static-route programs, whose loop on a TX queue returns at `client.cpp:29` before
it sends anything. A packet is its sequence number; headers, checksum, port
increments and rates are left out, as nothing depends on them. `NicSends`,
`NicPosts` and `NicReceives` are the device and its driver, outside the
repository: a sent mbuf may return to its pool at any time, which includes
every moment the driver's `tx_burst` reclaims it. That each lcore finds its
own queue, so that `Worker::id` does not fail, is `QueueServedByItsLcore` of
`LcoreAssignment`. **MbufOwnership** is what the lcores promise: an mbuf is in the
pools, with one lcore, or in the ring of one queue, and changes hands only the
way the direction of the queue allows.

**SpscRing** (`spsc.h`). One step is one access to memory the other thread may
touch. An acquire load returns any value the other thread stored since the
last one this thread loaded (`Visible`), which is what C++ guarantees for one
atomic variable. **SpscFifo** is the specification: a bounded queue with `Put` and
`Take`. The refinement mapping reads the queue off the slots between the two
indices (`Unread`); a value leaves when it is copied out.

**Environment** (`environment.h` 210-421, `environment.cpp` 26-235). Each call
holds the mutex from first to last line, so it is one step: `Read` and
`ReadFails` for the six `valueAs...` calls, `Reset`, `SemiReset`, and
`ChangeEnvironment` for `setenv` elsewhere. A text is a sequence of fields, each
with the kind the conversions can tell apart (`7`, `[7`, `7]`, `]`, digits with
something behind them, a word, an empty field, ...) and a number, which for a
word is its length; so the parser is modelled by what it accepts and yields:
skipped empty fields, a bare `]` read as 0, wrap-around to the width of an int. The
reference is `Listed`, what the documented grammar says a list means, and
`Repaired`, what the fields of an accepted text say once the parser's leniency is undone. A
range that ends at the largest int, an empty list in a build with assertions and
`reset` of an unset variable end the process (`lost`).

**EnvironmentTests** (`unit_tests/reinvent_util_environment`). The tests of the
three files with their rows of data, run on an instance of `Environment`: `Install`
exports the text of a row, the next step makes the call with its range, and
`TestsPass` compares return code, value and cache with the row. This ties the
model to what the repository expects of the class.

**LogRuntime** (`log.h` 51-341, `log.cpp` 8-92). `main` sets epoch and limit,
then threads run the macros. A call tests the limit (`Begin`), takes its stamp
(`Stamp`, before the mutex), and either holds the mutex around the pieces it
writes (`Acquire`, `WritePiece`, `Finish`; a TRACE stream takes no mutex) or writes
once with `fprintf` (`PrintMessage`). `ElapsedTime` is the subtraction with borrow and
the cut to unsigned; `header` keeps what a thread has stamped and not yet written.

**TimingWheel** (`timing_wheel.h`, `timer.h` 98-100). `CallReap`, `CallInsert` and
`CallCatchup` begin a call; one step is one turn of reap's loop or the rest of
a call. Slot width and horizon are cut to whole cycles separately, as
`us_to_cycles` does it, for every CPU frequency of the instance.

**RateControl** (`timely.h` of both experiments). One step is one sample:
`UpdateRate` is eRPC's estimator, `Update` its rewrite. Rates are in units of
10 kB/s, factors in hundredths, and quotients are cut, where the code has
doubles; the properties compare and bound, and hold with either rounding.

## 4. Runs

| Run | Instance | Shows |
|---|---|---|
| `lcore_assignment` | 3 VCPUs, 1-3 threads, every policy pair and candidate list, one VCPU disabled or on the other node | sharing, pinning, identity, refusal, completeness, termination |
| `lcore_tx_stranded` | the same with 3 RX queues | a claim the code does not keep (section 7) |
| `ena_config` | queues up to 2, lists up to 3, flow texts of 1-3 entries with each kind of mistake | an accepted configuration fits together |
| `ena_lifecycle` | 0-2 queues per direction, every pool policy, both builds, 2 statistics calls, every call may fail | memory behind a running device; a rule outlives the device only if destroying it failed; at a clean exit all is given back but what a refused call kept; known causes of undefined behaviour; the process ends |
| `life_shared_leak` | the same, RX and TX queues on, no call failing | a claim the code does not keep: the pool of the queues outlives the process |
| `udp_datapath` | two servers, client and server, or two clients; 3 packets (the size of `ts`), 4 or none; rings and bursts of 2; pools of 2 and 3, shared ones of 3 and 6; a static-route pair | ownership of mbufs (a refinement), order, completeness, known causes of `ts` faults, a signal ends in a stopped device |
| `spsc_ring` | 4 slots, 2 values | FIFO refinement with liveness, no data race, progress of the producer |
| `environment` | about 1800 initial texts, ints of 4 bits, 3 later texts | parser against the documented grammar, the cache's promise |
| `env_unit_tests` | all 243 tests, the 6 orders of their files, 2 rounds over the same objects, ints of 30 bits | the model answers what the tests expect |
| `log_runtime` | 2 threads, 2 calls of 2 pieces, severities 0 and 5, limits {0, 3, 5, 6}, a second of 2 ns, clock at 1 or 8, 16 seconds to the wrap, 3 to a cut tag | whole messages, exact stamps, whole tags, every call returns |
| `rate_control` | links of 10 and 60 MB/s, 0 or 3 sessions, times from 1 to 3000 µs, gaps {0, 1, 40}, 5 samples | which way a sample moves eRPC's rate, and between which bounds |
| `timing_wheel` | 3 slots, buckets of 2, widths that do and do not divide evenly, 3 packets, times to 10 | nothing lost, early, late or overtaken |

Why the bounds are enough. *Lcores*: three VCPUs let a pass skip, take and
wrap, and leave one in the middle unusable; three threads per direction exceed
the VCPUs of a single pass, so the second pass and its end are reached from
both loops. `startEna` leaves TX threads equal to TX queues, which bounds the
TX settings; a policy other than the documented three gets through
`startEna` and is part of the instance. *Configuration*: nothing compares more
than two numbers, so lists one shorter and one longer than two queues suffice.
*Life cycle*: two queues tell the first from the rest in each loop, and freed-twice
from freed-once when pools are shared. Two statistics calls (`Checks`; `onExit` makes five) let
none, the first or the last fail, and so give one, two or three passes through `stopEna`, of
which all after the second meet the same state; the proofs cover any number. *Ring*: four slots make three values fit,
every index wraps, and a load may be up to three stores stale; two values tell
an order from its reverse. *Texts*: three fields reach every state of the token
loop from every other (outside, open, closed, failed) with every kind of
field, and four or five fields nest two ranges; at 4 bits, wrap-around and
the largest int are in the instance. One variable is enough, as the cache
treats each by itself; the proof covers any number. *Data path*: a third packet
meets a full ring and a reused mbuf; a ring of two lets a burst be partial;
own pools of 2 run empty and 3 is the least that never does (`HeldBack`), 3 and
6 are the same for a shared pool with two clients; a third lcore would
add another of two existing roles. Pools have no per-lcore cache here: the scripts set every
`..._CACHE_SIZE` to 0, and with another size (`init.cpp:1483-1530`) the mbufs in the caches of other
lcores would have to be added to `HeldBack`. *Log*: FATAL takes the mutex and TRACE does
not, and two calls let a thread return to the mutex; the two clock readings lie
on both sides of each other in seconds and in nanoseconds, and sixteen seconds
let a stamp behind the epoch wrap. *Rates*: each range of round trip times and
both its ends are sampled, and five samples reach every bound. *Wheel*: three
packets overfill a bucket of two, and ten time units turn the wheel more than
once at either width.

Deadlock checking is on for `SpscRing` only: the other programs end, a lost process
takes no step, and samples and packets are bounded.

## 5. Fairness

- `LcoreAssignment`: weak fairness of `Next`. The function is sequential and
  runs until it returns.
- `EnaLifecycle`: weak fairness of `Next`. `main` runs on, and the lcores'
  functions return, which is what `SignalEndsIt` of `UdpDatapath` shows for
  programs with a server, after a signal, if the NIC sends.
- `UdpDatapath`: weak fairness of each lcore (one pinned thread each, polling),
  of `NicSends` for each queue (a device that is up empties its TX ring; without it
  a client retries forever, and no signal stops it), of `WaitReturns` and of
  `StopDevice`. None for packets that arrive, and none for the signal.
- `SpscRing`: weak fairness of each thread (both poll), strong fairness of
  loads that return the newest index: C++ asks that a store become visible in
  a finite time, and a thread that is stopped reloads on each call.
- `LogRuntime`: weak fairness of each thread and of `StartThreads`. Threads run on;
  each makes a bounded number of calls, so a thread that waits for the mutex
  is passed over a bounded number of times and needs no stronger fairness.
- `EnaConfig`, `Environment`, `EnvironmentTests`, `TimingWheel` and `RateControl` have no
  liveness properties and no fairness.

## 6. Proofs

All hold for every value of the constants under the named ASSUMEs of the modules,
which only say what the constants are (numbers, sets of the configurations'
type). Each module's inductive invariant is called `IInv`, or is named below.

- **LcoreAssignmentProofs**: `TypeOK`, `SharingIsMulti`, `PinnedWhereAllowed`,
  `QueueServedByItsLcore`. The invariant `IInv` adds `CountsKeepUp` (a VCPU that
  runs an lcore has a positive counter, without which a step could not know
  that it shares) and `RecordsAgree` (LCORE record and queue record name each
  other, which is what identity rests on). `AssignAppends` and `AppendedLcore`
  reduce the only step that changes the vectors to appending one record. A
  second invariant, `LInv`, says how far the loops are: in the first pass the VCPUs
  behind the cursor are used up and the others free, in the second all are used
  (`RxPasses`), and why the RX loop ended (`RxEnded`). It gives `RxDoublesUpLast`,
  `SuccessIsComplete` and, by counting the VCPUs the queues map onto (`TakenCount`),
  `RxDistinctRefusedOnlyIfShort`. `AssignmentRunsOut` is the safety half of termination: the
  variant `StepsLeft` starts at `2 * NumVcpu + 3`, is never negative and falls with every step.
  `CountsExact` makes each counter the number of lcores on its VCPU, and bounds it by the passes
  the cursor has made over it, at most two: hence `AtMostTwoPerVcpu`, the limit MULTI is not
  documented to have. `RxDoubled` (behind the cursor of the second pass every VCPU has two RX queues) gives
  `RxMultiRefusedOnlyIfShort` by counting once more.
  A third invariant, `TInv`, follows the TX loop when RX is OFF, or is not MULTI and shares no
  eligible VCPU with TX: it uses up its VCPUs from where the RX loop left the cursor to
  the end and then from the first one on (`TxPasses`). That gives
  `TxUndisturbedRefusedOnlyIfShort`, the part of the refuted `TxDistinctRefusedOnlyIfShort` that does hold.
- **EnaConfigProofs**: `TypeOK`, `VectorsMatchThreads`, `CountsAreConsistent`,
  `FlowsCoverRxThreads`, `RssOnlyWithFlag`, `TxHasRoute`. `IInv` says of each section
  what is true once it has been read (`CountsRead`, `PoolsRead`, `RingsRead`, `RssRead`,
  `RoutesRead`, `FlowsRead`); at `ready` all have been read. `AbortsOnlyWithoutRx`: the assertion
  on the RX queues stops a debug build with RX OFF and no other one.
- **EnaLifecycleProofs**: every invariant of the run: `TypeOK`, `BackedWhileStarted`,
  `RulesOnlyWhileStarted`, `FaultsHaveKnownCause`, `EverythingGivenBack`. `IInv` says what
  main() has got at each step: `Starting` and `Memory` on the way up, `OwnPools` (with
  PER_QUEUE the pool of a queue is its own), `Rules` (Config knows the handle of
  each rule by the time anyone destroys it, and afterwards only refused rules are left), `OnePass` (without a failed
  statistics call there is one pass through stopEna, and each of its calls meets
  what startEna left) and `GivenBack` on the way down. One lemma per part, one step
  per action. `CreateRuleAdds` shows that the NIC and the vector get the same rules.
  `ProcessRunsOut`: a natural number, made of the turns every loop still has and of the passes
  through stopEna that a failed statistics call may add, falls with every step.
  `ResourcesMoveOneWay`: device, memzone and EAL only go forward through their states.
- **UdpDatapathProofs**: `TypeOK`; `ImplementsOwnership`, all of it, as `MbufOwnership` has
  no fairness; `SentInOrder`, `TimestampFaultsHaveKnownCause` and `ClientSendsAll`. `Roles`
  ties what a lcore holds to where it is in its loop, and `OneOwner` has each mbuf in
  one place, once; one lemma per step keeps them and maps the step to one of
  `MbufOwnership` or to a stutter. `Ordered` then counts through what was sent, what is
  in the ring and what the client holds: the numbers run from 1 to the client's
  sequence number. `Stamping` ties that number to the entries of `ts` a client has
  written, which leaves the two known causes of a fault. `ClientSendsAll` is a count:
  `Filling` bounds what each queue may hold back and keeps every mbuf somewhere
  (`Conserved`, also published as `NoMbufIsLost`: after a stop every mbuf is free), so
  that a pool larger than `HeldBack` has one left whenever a client asks
  (`AllHandedOver`). Counting needs `LcoresAssumption`, that there are finitely many lcores.
  How the lcores end: `LcoresRunDown` bounds what each still does after a signal (`LeftOf`: two
  steps per packet, or one per mbuf of the burst in hand), and `LcoresGoOn` finds for each lcore
  that has not returned the guard of one of its actions, a full ring being one that the NIC
  empties; only a server without a signal waits. Both rest on `Budget`, the packet count.
- **SpscRingProofs**: `TypeOK`, `CachesLag`, `NoDataRace`, and `RefinesFifo`, the
  safety part of `ImplementsFifo`. `IInv` adds `RoomAhead` and `ItemAhead` (a
  thread past its check has a slot in front of it), `Filled` (the slots between
  the indices hold values) and `Stored`. Lemmas on distances around the ring carry
  the arithmetic; each action is then a `Put`, a `Take` or a stutter.
- **EnvironmentProofs**: `TypeOK`, `RepeatedReadsAgree` (booleans included) and
  `FailedReadsCacheNothing`, without expanding the conversions. The strengthening is
  that a remembered answer of a type other than bool has its text in the cache: a
  first read puts it there, and no later read replaces it. Then the list parser,
  `ListsReadAsDocumented` and `AcceptedListsRepair`, for texts of any length and any width
  of int: by induction over the fields read so far, the state of the token loop and
  the documented list it has read belong together (`Reads`), where a list may end in a
  range still open (`HalfFormed`, `EndsOpen`); `TokenIsRead` is one turn of the loop, and
  `RunReads` (an accepted text reads as some list) and `RunSucceeds` (a documented list
  is accepted) are the two inductions. `PowersOfTwo`, proved by counting subsets, gives
  that wrap-around leaves ints alone, and `AscendingIs` that a range in
  ascending order is one sequence only, the one the loop appends. The same induction over
  the run gives `DeathsExplained`: the loop overflows only at a range up to the largest
  int (`RunIsLost`), and besides that a process dies only at the reset of a variable that is not
  exported and, with assertions, at an empty list.
- **LogRuntimeProofs**: `TypeOK`, `StampsAreExact`, `HeadersTellSeverity`,
  `LockedMessagesWhole`. `Stamped` has each header made by `ElapsedTime` from a clock
  reading, and `Started` fixes the epoch while threads run; the arithmetic of the
  borrow is a lemma. `MutexInv` is what keeps messages whole: at most one thread is
  inside (`Inside`), messages it has finished lie behind it (`Past`), and the pieces
  of the current one have nothing of another between them (`Current`).
  `ThreadsRunOut` bounds each thread's steps (`WorkLeft`), and `MutexIsNeverWaitedForInVain` says
  that while a call is left some thread can take a step, the mutex's holder always.
- **ExperimentProofs**, the timing wheel: `LeaveInDueOrder`, `ReleasedInTime`, `EveryPacketOnce`
  and `SlotsFollowInTime`. `WheelInv` adds to the types (`WheelTypes`): the times of the slots
  are consecutive multiples of the width, counted from the slot under the cursor, also
  while reap is between two turns (`Turning`); each packet is in one place, once
  (`Filed`); a packet waits in the slot that covers its time unless it wrapped (`Timed`);
  and only the last bucket of a chain has room (`Buckets`), which an insertion relies
  on. Order of departure then follows, as what leaves later is in a slot that
  is due later, or behind in the same one. `ReapEnds`: each turn of reap's loop keeps the call and
  moves the current slot's time on by a width, which is never 0 (`WidthPositive`), so that the
  loop ends. `ExactWheelIsSound`: insert's assertion can fail, and a packet go past the last
  slot without it, only where the horizon is too wide for the wheel.
- **ExperimentProofs**, rate control: `ErpcRateReacts`. `RateInv` bounds
  eRPC's rate by the link or the smallest rate, whichever is larger; the
  products of the estimators are bounded one factor at a time.

Induction over data is by sets: the numbers, or sequences, that a fact holds of are a
set, and `NatSetInduction` says that a set with 0 and successors has every number
(from the minimum of a well-founded order, `WFMin`). From it come the recursions of `FlattenSeq`
and `FoldLeft` (`FlattenAppend`, `FoldTokens`), for which the library has no theorems. They are
proved in two modules, as each is used where the other's names would clash. For the
same reason `Environment` orders a range by `Ascending` and collects what a text closes by
`Closing`, rather than by `SortSeq` and `SelectSeq`, which the provers cannot open.

Proved without being in a run: `TypeOK` of modules whose runs check other things,
`CachesLag`, `RssOnlyWithFlag`, `SlotsFollowInTime`, `NoMbufIsLost`, `AtMostTwoPerVcpu`,
`RxMultiRefusedOnlyIfShort`, `TxUndisturbedRefusedOnlyIfShort`, `AbortsOnlyWithoutRx`,
`ResourcesMoveOneWay`, `DiesForCause`,
`LostOnlyIfInexact`, and the variants and absences of deadlock of the next paragraph.

Only model-checked: liveness (`Terminates`, `Exits`, `SignalEndsIt`,
`ProducerGetsThrough`, `EveryCallReturns`, the fair half of `ImplementsFifo`), which is
out of the prover's reach, and `TestsPass`, whose 243 rows the run goes through one by
one. All other properties of the runs are proved. What can be proved of liveness is the part
that is safety: that steps run out (`AssignmentRunsOut` for `Terminates`, `ProcessRunsOut` for
`Exits`, `LcoresRunDown` for `SignalEndsIt`, `ThreadsRunOut` for `EveryCallReturns`, `ReapEnds`) and
that nobody is stuck before the end (`LcoresGoOn`, `MutexIsNeverWaitedForInVain`). The
guards are written out there, as ENABLED is out of reach too; that fairness turns
the two into an end is what the runs check.

## 7. Where code and documentation part

Shown by a run:

- A DISTINCT TX request is refused although VCPUs are free, because the TX loop
  inherits the RX loop's pass (`lcore_tx_stranded`). It takes an RX that is MULTI, or a VCPU both
  may have: in all other configurations the refusal is justified (proved: `TxRefusalJustified`).
- The shared mempool is never freed: "Free mempool shared by all queues" (`init.cpp:1685`) looks
  for it in the queues, but in both loops an inner `pool` hides the outer one, which stays 0
  (`life_shared_leak`, with RX and TX queues and no call failing).

Met while modelling, without a run:

- A DISTINCT RX lcore may get company: `init.h:144-145` promises it a core of its
  own, and the TX loop (`init.cpp:477`) asks for the policy of TX only.
- `TXQ_THREAD_COUNT=N` is read into one variable and the queue size stored from another
  (`init.cpp:990`), where `init.h:137-141` promises N threads. `EnaConfig` follows the
  code; no property asks for either count, and `CountsAreConsistent` compares only RX with `asked`.
- A round trip time above the high mark makes the rewritten rate control faster, where
  `timely_redux/timely.h:38-44` has "multiplicative decrease in new rate": line 226 bounds the
  new rate from below by the link and not by the smallest rate (line 86), so that every sample
  answers the link. The model follows the code, and no property takes that answer for right.
- A failed statistics call leads to a second `stopDpdk` (`main.cpp:119`), which
  `init.h:399` rules out.
- A second `valueAsBool` of a variable fails, as the cache holds the value and not the
  text (`environment.h:387` against line 12).
- `init.cpp:916`, `961` and `1084` join `!=` with `||`, so that any text passes as a
  policy.
- `reinvent_dpdk_init.h:145-146` lets MULTI share a core without a limit; the
  two passes end at two lcores per VCPU (proved: `NoVcpuRunsThree`).
- `init.cpp:132` accepts the flow entry `1:` (a colon at the end).
- `init.cpp:108` and `init.cpp:25` assert that there are RXQs and rules, which
  stops the debug build with RX OFF (proved: `AbortsExplained`) or without flow control.
- `main.cpp:564` returns without `stopDpdk` after a failed start, against
  `init.h:399-400`.
- `init.cpp:90` creates each rule twice, the second time unchecked.
- The ring holds one value less than `k_SPSC_CAPACITY`.
- `Environment` accepts a list whose last range is left open, a closing limit
  followed by more text, a bare `]`, and skips empty fields, which its header calls
  invalid; `valueAsPrefixedInt` never compares the prefix; `reset` of an unset
  variable throws where the header says the entry is removed and nothing throws;
  the documented booleans are `true|false`, the accepted ones `TRUE|FALSE`.
- A TRACE stream takes no mutex, where `log.h:54` and `121` say that the stream
  macros do; `setSeverityLimit(0)` changes nothing, where `log.h:130-131` allows 0;
  a header has room for six digits of seconds (`log.h:77`), and a clock behind the
  epoch makes ten of them.
- eRPC's smallest rate holds on a link slower than it as well.
- The results of `rte_flow_destroy` (`init.cpp:1636`) and `rte_eth_dev_close` (`1726`) are ignored;
  a rule or a device that stays is not reported, and `stopEna` returns 0.
- Both TX loops of the static-route programs return at their line 29.
- The wheel's horizon may be wider than its slots once the width is cut to whole
  cycles; only an assertion notices.

## 8. Not modelled, and why

`packet_flow` is a stand-alone program that fills vectors in a random order and
prints them. Value classes, names, `Errno`, `Stream` and printing hold or format
what other parts decide. `CommFunc` is floating point statistics printed after the
run. The key-value RPC design in `doc/` has no code. Scripts set up hosts. Of the
static-route programs, the code behind the early return of the TX loops cannot
be reached. Of the rate control, the branches the build leaves out, and
`timely_redux/test.cpp`, which does not compile.

Within modelled parts: the text of EAL arguments, of log messages and of names is
left out; memory ordering is modelled for the two atomics of the ring only, as no
other component shares memory without a mutex, with the exception of the data
path's `ts`, of which `UdpDatapath` records who wrote what, and of the error
stream, whose pieces `LogRuntime` lets interleave.

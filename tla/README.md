# Verification of HyperSIO's performance model

HyperSIO studies how an I/O memory management unit serves a *hyper-tenant*
host: very many virtual machines sharing one device link. Logs recorded in an
emulated machine are turned into one trace of I/O address translations
(`hypersio-perf --build`), and the trace is played through a model of the
device's translation path (`hypersio-perf --run`): a context cache, an IOTLB, two
page table caches, a prefetcher and a bounded buffer of pending translations.
What comes out is a number, the link bandwidth that the tenants reach, and a
wrong number looks like a right one. That is what makes this code worth
verifying: a translation that is lost, counted twice, charged too much time or
cached in two places crashes nothing and shows in no test.

The modules here model `src/sioperf` (C++) and the two Python tools around it
whose processes and files can go wrong together, checked with TLC on small
instances and, for most of their safety properties, proved with TLAPS for every
size, trace and schedule. Paths below are relative to the repository.

## 1. Inventory

| Component | State | Operations | Uses |
|---|---|---|---|
| **Simulation loop** `src/sioperf/include/sioperf.tcc` | `_simtime`, `_trans_in_flight`, `_trans_cnt`, drops, flow statistics, four event queues | `PlayIOVATrace` (a packet per link slot, then a drain), `RunCycle` (four stages), `Translate`, `UpdateStat`, `ConfigSelectiveAlloc`, `SetLinkSpeed`, `SetupEnv` | everything below down to the events |
| **Event queues** `src/sioperf/src/simevent.cpp` | a FIFO or a priority queue of events with their time | `ScheduleEvent`, `PickReady` | |
| **Translation caches** `include/cache.tcc` | rows, statistics, first and last DID that may allocate | `Translate`, `GetIndex`, `ConfigSelectiveAlloc`, `SetHit` | rows |
| **Cache rows** `include/row.tcc` | `_entries` and the policy's own container (LRU fifo, LFU counters, next access times) | `SearchKey`, `AddEntry`, `GetVictimKey`, `InvKey` | |
| **Prefetcher** `src/prefetcher.cpp` | a one-row buffer, a history of pages per SID, a window of recent SIDs, the table SID -> next SID, a pending prediction | `Probe`, `Fill`, `Translate` | a cache |
| **Events, statistics** `src/event.cpp`, `src/common.cpp` | a translation's times; a flow's first start and last end | `AddTransTime`, `FlowStat::Update`, `ReadFromFile`, `WriteToFile` | |
| **Trace builder** `src/trace.cpp` | renumbering maps, a stream of translations per tenant, contexts per SID, the merged trace | `ReadLogs`, `PushEvent`, `BuildIOVATraceOrig/RR/Rand`, `SetNextIOVAAccessTime`, `SaveTrace` | parsers |
| **Log parsers** `src/eventparser.cpp` | valid SIDs, valid domains of the current log | `ParseLine` x 3, `SetValidSid`, `AddValidDid`, `ResetValidDid` | |
| **Command line** `src/main.cpp`, `src/optparser.cpp` | options | `Parse`, `GetOpt`, `main` | builder, loop |
| **Exploration** `src/tools/hypersio-perf-explore` | a list of experiments, a configuration file and a log for each, the processes started | `WriteConfig`, the check for an existing log, `Popen`, `wait` | the binary |
| **Trace generation** `src/tools/hypersio-trace-gen` | the traces to build | starts a builder for each | the binary |
| **Log collection** `src/tools/hypersio-log-collector`, `src/lib/vmlib.py` | the L1 VM, a group of client VMs, bridges, one trace file | `startL1VM`, `startClients`, `createBridges`, `runTest`, `Poweroff`, `removeBridges`, copying the trace | QEMU, ssh, `brctl` |

**How they interact.** Inside one process: `main` runs either the builder or the loop, in one
thread, and nothing else runs in the process: there is no lock and no callback. The
concurrency is *simulated*. `PlayIOVATrace` reads up to three translations per
link slot, looks the context cache up and puts an event into the first queue;
every cycle `RunCycle` serves at most one ready event of each of four queues:

    Translate --> cc_fill --> pcache_trans --> pcache_fill --> iotlb_fill --> done
                     |  hit in IOTLB or prefetch buffer              ^
                     +-----------------------------------------------+
                     + prefetches (enter pcache_trans, end in the prefetch buffer)

An event is taken off one queue, the caches are looked up or filled, and it is
put into another queue with a later time. Caches are shared by all translations
underway, so that each stage sees what the stages of other translations did in
between. 
Between processes there are files only, and nothing locks them. The builder
writes a trace in three files; an exploration writes a configuration, creates
the log and starts the simulation, which reads the configuration, the three
files and writes into the log. The log collector starts virtual machines, sends
them commands over ssh and copies the file that the first of them writes. No
tool looks at the result of what it starts, and the existence of a log is the
only memory an exploration has of an earlier one.

**What is hard.** Translations overtake each other (hits overtake misses, in
priority queues) or hold each other back (head of line, in FIFOs); prefetches
share the queues but not the counter; a trace may end in the middle of a packet
with the buffer over its depth; nine places charge a latency and compute a
schedule side by side; two containers per cache row must agree; tenants'
identifiers are renumbered so that logs recorded separately can be put
together; unsigned counters wrap. Between the processes: a simulation may read
files that a builder is still writing, or writes again; an exploration may be
interrupted anywhere and started again, or run beside another one; a virtual
machine may fail to start, come up late or never, crash, or outlive the run that
started it, since the collector waits for one process only. There are no
messages that could be lost inside the simulator and no retries in the tools but
the collector's polling for a machine to come up. `PROJECT.json` lists the hazards, each at its line.

**What makes each part correct.**

* Loop: a translation read is served exactly once; the counter of pending
  translations counts them; the run ends; slots, flows and times add up.
* Queues: FIFO order survives; the head is served once its time has come.
* Caches and rows: bounded, one copy of a page, no tenant evicts another of a
  different partition, the policy's victim is resident, statistics match contents.
* Prefetcher: learns and predicts from the past only, and scores itself fairly.
* Exploration: what a simulation reads is what was written, and one nobody disturbs
  plays the whole trace; a log is written by one simulation and keeps its
  statistics, unless two explorations raced for it, which nothing prevents.
* Command line: options arrive as written, and no end of the program but the one
  asked for comes without a reason in what was written or in the environment.
* Collection: bridges join the right machines, a log is copied when it is complete,
  and the script ends.
* Builder: tenants of different logs stay apart, no translation is lost or
  reordered within its tenant, next access times are those of the merged trace.

## 2. Modules

| Module | Models | State and actions |
|---|---|---|
| `CacheRowOps` | `CacheRow`, `CacheRowLRU/LFU/NAT/LRUPin` as operators on a row value | a row is `[type, entries, meta]`; `meta` is `_age_key_fifo`, `_key_freq_map` or the next access times; a pinning row has the pages pinned too |
| `AbstractRow` | what a row promises: a bounded set of keys that evicts only when full, one key at a time, and never a pinned one | |
| `CacheRow` | a row of any class as a state machine | `Hit`, `Fill`; a history of uses for the LRU property |
| `CacheRow_proofs` | theorems about `CacheRow`, with what each operator of `CacheRowOps` keeps | |
| `BaseCache` | `BaseCache`, `ContextCache`, `AddrCache`: geometry, index, lookup, fill, selective allocation, statistics | one variable `cache`; `Translate(e, alloc)` is `TranslateHit`, `TranslateFill` or `TranslateMiss` |
| `MCBaseCache` | a driver for TLC: lookups and fills by several tenants | |
| `BaseCache_proofs` | theorems about a cache under that driver | |
| `Prefetcher` | `Prefetcher`, on a `BaseCache` of one row | `buffer`, `table`; `Translate`, `Probe`, `Fill` |
| `MCPrefetcher` | a driver: accesses of three tenants, fills arriving in any order, the log of all accesses | |
| `Prefetcher_proofs` | theorems about the prefetcher under that driver | |
| `SIOPerf` | the simulation loop and the event queues, composed with four `BaseCache`s and the `Prefetcher` | see below |
| `TranslationQueue` | what the loop promises: translations issued in order while there is room, each completed once, and the end | |
| `MCSIOPerf` | small traces and caches for TLC | |
| `SIOPerf_proofs` | theorems about `SIOPerf` | |
| `TraceBuilder` | `Trace`, the parsers' acceptance, what `--build` does in `main` | see below |
| `MCTraceBuilder` | small sets of log lines for TLC | |
| `TraceBuilder_proofs` | theorems about `TraceBuilder` | |
| `Experiment` | builder, exploration and simulation as processes that share files: `SaveTrace`, `hypersio-perf-explore`, the constructor of `SIOPerf`, `SetupEnv` and the reading loop of `PlayIOVATrace` | see below |
| `Experiment_proofs` | theorems about `Experiment` | |
| `LogCollector` | `hypersio-log-collector`, `vmlib`'s `L1VM`, `ClientVM`, `VMGroup` | see below |
| `LogCollector_proofs` | theorems about `LogCollector` | |
| `CommandLine` | `OptParser`, and `main` with its options, the exceptions of `stoul`, every way in which the work itself can end, and the exit code | `pc`: `parse`, then `build` or `run` (an action per option read, then the work itself), and `exit`, `crash` or `endless` |
| `MCCommandLine` | the argument lists for TLC | |
| `CommandLine_proofs` | theorems about `CommandLine` | |

**`SIOPerf`.** `pc` is where the thread is. In `PlayIOVATrace`: `setup`, `packet`
(the head of the loop: a slot begins or not, there is room or not), `read` (the
loop over a packet), `drain`, `tick` (`_simtime++`), `done`, `error`; in
`RunCycle` one value per stage, named as its queue. An action is one iteration of
a loop or one stage: `CCFill`, `PCacheTrans`, `PCacheFill`, `PrefetchArrives`
and `TranslationDone` are the bodies of the four `PickReady` branches with every
call they make, and `Idle` is the branch not taken. The four queues are one set
of events, each with its queue, time and a serial number. `Ready` is `PickReady`:
the head of the queue, by serial number in a FIFO and by time in a priority
queue, where ties are broken anyhow. The trace is not a constant: `ReadTranslation`
takes any translation of `TraceEvents`, so that a run covers all traces up to
the bound, and `ReadEof` may come anywhere, also within a packet. Page table
payloads are left out: nothing reads them back.

**`TraceBuilder`.** `pc` is `log` (head of `ReadLogs`), `lines` (in
`ParseTextLog`), `order` (head of `SaveIOVATrace`), `merge`, `number`
(`SetNextIOVAAccessTime`), `saved`, `exit`. A line is what its regular expression
yields; `ReadLine` is `ParseLine`, `PushEvent` and the count of tenants in one
action; each merge action is one burst (`orig`: one event). Contents of a log are
any sequence of `Lines`. `rand()` is any tenant. `size_t` and `uint` keep the
wrap-around, at 2^16 and 2^8.

**`Experiment`.** One experiment, any number of explorations, each started with any
`--logdir`, of which one is the default they share; there is one log in each. A data file is the
sequence of the fields `WriteToFile` writes, in its order; `Flush` brings a piece
of it to the disk that ends anywhere, and `CloseFile` goes on to the next file
whatever was written. An exploration steps through `check` (does the log exist?),
`open config`, `close config`, `launch`, and `wait` after the last copy of the
experiment in its list. A simulation steps through `configure`, `open`, `pages`
(each file is read in one step, the small ones), `play` (one event of the trace
per step, as `ReadFromFile` finds it), `drain`, and `exited` or `hung`.
The check and the creation of the log are steps apart, so that two explorations with
one directory may both find no log; `raced`, a history variable, marks them both when
the second does. The later `Launch` then empties the log (`CreateLog`), and what two
simulations print there may be the one's, the other's or a mixture (`Printed`).
`Interrupted` stops an exploration with its simulations (they are one process
group of the terminal), `BuildInterrupted` a builder. What the simulator does with
an event is `SIOPerf`'s subject; here only what it read matters, and that an event
cut short may have a page level that `pcache_trans` schedules nowhere, and so may a
whole event of a 1GB page (`HugeEvents`): either may make a simulation hang.

**`CommandLine`.** `setting` is `main`'s variables by the option that sets them, and
`"default"` their initial values. `stoul` is a function from strings to numbers, a
parameter; so are the configurations that give every cache a group. `env` is what the
program finds: whether `HYPERSIO_HOME` is set, and whether the trace that `--prefix`
names is absent, empty, or has pages of 1GB. `Build` and `Run` end in each way the code can:
the constructors throw without `HYPERSIO_HOME` (`trace.cpp:24`, `sioperf.tcc:18`), a
missing configuration leaves caches of 0 groups to divide by (`cache.tcc:28`), so does
a link speed of 0 (`sioperf.tcc:591`) or one too high (`:159`), a 16 bit counter never
reaches a number of tenants above 65535 (`:604`), an empty trace divides by the time
it took (`:475`); without room for translations every packet is dropped for ever, and a
binary log (`trace.cpp:94`) or an empty burst (`:440`) keeps the builder for ever.

**`LogCollector`.** `script.at` is the step of `main` the script is in, one action
per step or per iteration of its loops; `script.mode` is what it was started for
(`--runtest`, `--cleanup` and so on leave out steps). A machine is `off`,
`booting`, `up` or `stopping`; `BootsUp` may never happen and `Crashes` at any
time. QEMU's taps are numbered by the kernel from the lowest free number on, in
`TakeTaps`; `createBridges` names them by arithmetic instead, in `ClientTap`.
`mine` are the machines whose `vm_proc` belongs to the present run, for which alone
`Poweroff` can wait. A second L1 VM cannot start beside one that runs: they share
a disk image and a port.

Operators whose comment begins with *Fault:* are not part of the model. They are
plausible mistakes in the code, kept beside the definition they would replace;
`PROJECT.json` names, for each property, one that violates it.

## 3. Runs

| Run | Question | Bounds |
|---|---|---|
| `SIOPerf_fifo` | FIFO queues, LRU, selective allocation: are translations, packets, flows and time accounted for, does order survive, does every run end? | traces of up to 6 translations (2 packets) of 3 tenants, depth 2, one-entry caches |
| `SIOPerf_ooo` | priority queues, 4KB and 2MB pages: does the loop implement the abstract queue with its fairness, do flow statistics only widen? | traces of up to 5 translations |
| `SIOPerf_hugepage` | are translations accounted for with 1GB pages? **Violated.** | two 1GB pages |
| `IOTLB_partitioned` | geometry, partitions with and without selective allocation, statistics, pages of two sizes under one index | 4 sets x 2 ways in 2 groups, 3 tenants, 6 overlapping addresses, 5 counted accesses |
| `CacheRow` | LRU, LFU, oracle and pinning rows, with any pages pinned | 3 ways, 5 keys; unbounded otherwise |
| `Prefetcher` | what is remembered, learned and scored | 3 tenants, 7 accesses, window and history of 2 |
| `TraceBuilder` | two logs of any content, every order, both log types | 5 accepted lines, bursts of 2, 3 tenants wanted, 2 devices per log |
| `TraceBuilder_sids` | do the tenants keep their contexts, with 24 devices per log? **Violated.** | 3 accepted lines |
| `Experiment` | when builds, explorations and simulations overlap, are interrupted and are started again: do simulations read what was written, is a log without disturbance the statistics of the whole trace, is a log one simulation's, are statistics kept, does an exploration end? | 2 explorations, 2 log directories, 2 copies of the experiment, 3 builds or explorations started, traces of 2 translations, the last of a 1GB page, 1 page table entry and no contexts, pieces that end between events and inside one |
| `LogCollector` | do the machines end up connected, are logs complete, does the script end, with machines that fail, hang and outlive their run? | 2 connections, 3 NICs, 2 runs, the script started twice in any mode |
| `CommandLine` | do the options written reach `main`'s variables, and has every unwanted end a reason? | every subset of 7 and of 8 options, 8 malformed lines, 49 with numbers at their limits; `HYPERSIO_HOME` set or not, and 4 kinds of trace |
| `CommandLine_tenants` | does the number after `--tenants` of the documented command reach `main`? **Violated.** | that command, with and without `--inorder` and `--salloc` |

**Why the bounds are enough.** The loop's interesting cases need two packets
underway (a drop, an end in the middle of a packet, a prefetch behind a demand)
and caches small enough to evict; two packets of three translations with
one-entry caches reach all of them, and every action fires. Latencies are scaled
down with their order kept (`include/defines.h`): hits cost 1 or 2, memory 2,
PCIe 3, a context miss 6. `MaxTime` bounds the clock and is never reached: a
thread stuck at it would violate `RunEnds`. LFU counters keep the code's
threshold of 15, so that halving happens. In the prefetcher's run the window slides, a history
is full and a prediction is scored twice over. In the builder's run a log may hold fewer tenants
than wanted, exactly as many or more, so that the unsigned count wraps; five
lines are what it takes for one tenant to be more than a burst longer than
another. In `Experiment` three starts (`MaxStarts`) are a build, an exploration of it and
a second build or exploration that disturbs the first, or races it; a trace of two events has a
first that is whole and a last that is cut, and `PieceEnds` lets a file end between events or
after two fields; contexts are loaded by the same operator as page table entries, and the
proofs hold for any number of both. In `LogCollector` two runs and two starts let machines outlive
both the run and the script that started them; three NICs and two connections
leave a tap unused, so that numbers which agree by chance do not. What these two
bounds leave open the proofs of section 4 close, for all but liveness.

**Deadlock** is not checked where the program may stop: `SIOPerf`,
`TraceBuilder`, `CommandLine`, `Experiment` (all processes have ended and no more
may be started) and `LogCollector` (likewise) end, and the bounded `MCPrefetcher` runs out of accesses. It is
checked for rows and caches.

**Fairness.** `WF_vars(Next)` in `SIOPerf` and `TraceBuilder`: one thread that
goes on while it can. Bounds make traces and logs end, as files do. In `Experiment`
every exploration and every simulation is such a thread, with a weak fairness of its own;
nobody is obliged to start or interrupt one, and the builder not even to go on. In
`LogCollector` the script goes on (`WF_vars(Step)`) and a machine that was powered
off ends (`WF_vars(ShutsDown(v))`); that a machine ever comes up is not assumed,
so that `CollectionEnds` has its exception: the script waits for an L1 VM that was
not up when it was told to power off. Nothing else
is assumed: no fairness between queues, stages or tenants; what the abstract
`TranslationQueue` asks of each single translation (weak fairness of its
completion) is a consequence, checked as part of `ImplementsQueue`.

## 4. Proofs

Eight modules of theorems, one for each component and its driver. All of them are
invariants with the same argument: an invariant of the run is seldom inductive, so
that it is strengthened by what the code keeps true on the way, and each module
names the conjuncts it adds. Assumptions are those of the model's modules on their
constants, which TLC evaluates on every run, and where a theorem needs more, a
hypothesis with a name that it states.

### The simulation loop

`SIOPerf_proofs` proves, for every trace, latency, depth, packet size, cache
configuration, policy and kind of queue (`SIOPerfAssumption`: positive latencies,
depth, interarrival time and burst, groups that divide the sets, a prefetcher that
remembers at least one page and predicts at least one access ahead):

| Theorem | States | Inductive invariant |
|---|---|---|
| `TypeCorrect` | `[]TypeOK`: no counter is taken below zero, the serial numbers order the FIFOs, the prefetcher's tables keep their shape | `IInv` |
| `QueueBounded` | `[]InFlightBounded`: the buffer exceeds its depth by at most the rest of one packet. It does exceed it: room is looked for once per packet | `IInv` |
| `NothingLost` | with `OnlySmallPages`, `[]InFlightAccounted`: the counter is the number of translations in the queues | `IInv` |
| `FlowsTakeTime` | `[]FlowTimesReal` | `TimeInv` |
| `FlowsOnlyWiden` | the action property `FlowsWiden` | `IInv` |
| `FlowsAreConserved` | `[]FlowsConserve` | `CountInv` |
| `LookupsInTraceOrder` | `[]InOrderLookup` | `OrderInv` |
| `EverySlotAccounted` | `[]SlotsAccounted` | `SlotsInv` |
| `LoopIsTranslationQueue` | with `OnlySmallPages`, every step is one of `TranslationQueue` or a stutter: the safety part of `ImplementsQueue` | `SlotsInv` |
| `TenantsKeepToTheirCache` | `[]SelectiveAllocDisjoint` | `AllocInv` |

`OnlySmallPages` (4KB and 2MB, as `include/config.h:15` assumes) is needed: without
it `InFlightAccounted` is false, as `SIOPerf_hugepage` shows.

`IInv == TypeOK /\ Numbered /\ Covered /\ Admitted`. Counting down safely needs
that the counter covers the queues; covering needs that events are distinct, and
that a stage passes on what it took; the bound needs that a packet is begun only
with room:

* `Numbered`: a translation underway is one of the trace's, under a number that no
  other one has;
* `Covered`: the counter is at least the number of translations in the queues
  (equal to it with `OnlySmallPages`), so that it is positive when one completes;
* `Admitted`: within a packet, the counter is at most what the room at its
  beginning plus the translations read since allow.

The other invariants add to it:

* `EventsInTime` (in `TimeInv`): an event is charged no more than the time it waits for. It is
  what ties the nine places that charge a latency to those that compute a schedule.
* `CountInv`: the flows are finitely many, so that their counts can be summed. That
  a sum grows by one when one of its terms does is proved from the definition of
  `SumFunction`, by induction over sets of numbers (the least number of a set that
  is not empty, `WFMin`), since a rule over an operator cannot be used.
* `IssuedInOrder` (in `OrderInv`): the first queue holds demand translations only, numbered as they
  were scheduled.
* `Slots`: what the link slots passed have been paid with, at each place of the
  thread: a packet begun, a drop, and within a packet the translations still due.
* `AllocInv`: each of the three address caches holds entries of the DIDs that
  `ConfigSelectiveAlloc` gave it only (`HoldsOnly`).

The lemmas follow the life of a translation: `Entered` (one is issued), `Passed`
(it goes on under a fresh number, with prefetches behind it), `Removed` (it
leaves), over `ScheduleQueuesOK`; `LookedUpFollows`, `WalkedFollows` and
`FilledFollows` say what a stage passes on; `ProbeTable` that the prefetcher only
suggests translations it has seen. Only the proof of `AllocInv` expands the caches: to
the others a hit is a Boolean, and what a cache contains is of no consequence, so
that they hold for any replacement policy.

### Rows, caches and the prefetcher

`CacheRow_proofs` proves, for every number of ways, set of keys, policy and set of
pinned keys: `BookkeepingStaysRight` (`BookkeepingMatches`), `FifoStaysRecencyOrder`
(`FifoIsRecencyOrder`), `CountersStayBelowMax` (`CountersBelowMax`),
`RowImplementsAbstractRow` (the whole refinement `ImplementsAbstractRow`, which has
no fairness) and `FullRowsHaveVictims`: a row that evicts has somebody to evict, so
that no front of an empty container is read. The invariant is `RowOK(row) /\ StackOK`:
the row's own container holds the row's keys, each once, and the LRU list is the end
of the history of uses. `RowOK` is proved of every operator of `CacheRowOps` by itself.

`BaseCache_proofs` proves, for every geometry, fanout, policy and access:
`PagesHaveOneRow` (`OneRowPerKey`), `TenantsKeepToTheirPartition`
(`PartitionsIsolated`) and `IndexInRange`: an index is that of an existing row. The
invariant `KeysInPlace` says that a key is only in the row that an access with this
key is led to, by a tenant that may allocate. The proof is arithmetic on the bits
of an address (`PageSize`, `Fanout`) and on the rounding of the group bits: with
selective allocation and a number of groups that is no power of two (3, say), the constructor
makes fewer groups than were asked for and tenants do share them, which is why
`PartitionsIsolated` speaks of single tenants only with `GrNum = Groups`.

The same module proves `StatisticsAddUp` (`StatsDescribeContents`), for any row policy.
The invariant `StatsInv` says besides that every row is as its policy keeps it
(`GoodRow`), which is the invariant of `CacheRow_proofs`: that module is instantiated
with the ways, keys and next access times of this cache, so that its lemmas apply to each
row. Without it a conflict could evict a key that is not there, and the keys in
the rows would not be those missed less those evicted. The two sums are the
community modules' recursive `SumFunction`; that one changes by as much as one of its
terms (`SumChange`) is proved by the same induction over sets as in `SIOPerf_proofs`.
`CacheAssumption` takes one of the three replacement policies the program chooses from
(with another name it runs no simulation: `Run` in `CommandLine`) and a positive
halving threshold, which `row.h` fixes.

`Prefetcher_proofs` proves, for every number of tenants, length of window and
history, and order of accesses and fills: `FirstFollowerIsLearned`
(`LearnedFromFirstFollower`), `HistoriesAreRecent` (`HistoryIsRecent`) and
`EveryPredictionScored` (`PredictionsScored`). `WindowInv` relates the window of SIDs to
the log of all accesses, `LearnedInv` the table to the first access that another SID
followed at the distance, `HistoryInv` a history to the last accesses of its SID,
`ScoreInv` the counters to each other and every SID that may be predicted to a
history. The buffer, a `BaseCache`, is not expanded.

### The trace builder and the command line

`TraceBuilder_proofs` proves, for all contents of the logs, orders of merging,
widths of the counters and numbers of tenants:

| Theorem | States | Hypotheses | Inductive invariant |
|---|---|---|---|
| `DidsAreDense` | `[]DidsDense` | none | `TypeInv` |
| `TenantsToldApart` | `[]TenantsSeparate` | `DomainsFit` | `ReadInv` |
| `TenantsAreCounted` | `[]TenantsCounted` | `DomainsFit`, `LogsFit` | `CountInv` |
| `ContextsStay` | `[]ContextPerTenant` | `DevicesFit` | `ContextInv` |
| `MergesStayInStreams` | no merge loop takes more from a tenant than it has | none | `MergeInv` |
| `NextAccessesRight` | `[]NatRight` | none | `NumberInv` |
| `StreamsStayInOrder` | `[]StreamsKept` | none | `KeptInv` |
| `RoundRobinIsFair` | `[]RRFair` | none | `KeptInv` |

The hypotheses are bounds that the code relies on and never looks at: domains fit
between two logs and all of them into 16 bits (`DomainsFit`), the number of a log
does not wrap (`LogsFit`), devices fit between two logs (`DevicesFit`). The last is
what the repository's own configuration exceeds, in the run `TraceBuilder_sids`.

`KeptInv` relates the trace to the logs over the streams between them. `Recorded`: the
`k`-th event of a stream is the `k`-th translation logged of its tenant, and the logs'
order mentions the tenants in that of the translations. `Written`: the trace has the
first `did_it[d]` events of tenant `d`, in order. `Placed`: with "orig" the trace is the
logs' order so far, and with "rand" a tenant is only erased once all it has is written.
`Walked`: round robin walks every tenant once per round, and those whose turn has come
are a burst ahead, or less if one has run out, which ends the rounds. Order is stated by counting, `IsNth(j, P, k)`,
because the `k`-th of a selection (`SelectSeq`) is recursive. That "orig" and "rand"
leave nothing out is a bijection between places of the trace and of the logs (`AllWritten`).

`CommandLine_proofs` proves, for every command line, function `stoul`, set of usable
configurations and environment: `OptionsAsWritten` (`OptionsTaken`) and
`EndingsAreExplained` (`EndingsExplained`). While parsing, the map holds what the
arguments already read say, but for an option that may still be given a value
(`Holds`, `Settled`); while reading, the options already read are as written and the
others untouched (`ReadingInv`). So a simulation or a build works with what the user
wrote (`SetAsWritten`), and the reason for its end, which the code finds in `main`'s
variables, is one that the user can find on the command line. The one exception is a
number that is read without asking whether it was given, and was not.

### The tools around the simulator

`LogCollector_proofs` proves, for every number of connections, NICs, runs and
starts (`LogCollectorAssumption`: at least one connection and one run, and a NIC for
each connection, without which client and L1 taps would share numbers):

* `CollectorTypeCorrect`: `Spec => []CollectorTypeOK`.
* `LogsWhole`: `Spec => []OwnLogIsWhole`. What makes it inductive is `L1Ended`: past
  the wait of a collecting run, no process of its L1 VM is left, and only a launch,
  which begins another run, starts one.
* `PairsRight`: `Spec => []PairsConnected`. The invariant `Wiring` says which taps are
  taken and which bridges made at each stage of an undisturbed run: after `n` launches
  exactly the first `NicNum + n - 1` taps (`TapsOf`), the rest free, so that the next
  one is the lowest free number (`NextTap`, by the cardinality of an interval). A
  machine that ends makes the run a disturbed one, and takes its taps with it, which
  is why an empty host has empty bridges (`TapsOwned`, `BridgesTapped`).

`Experiment_proofs` proves, for every trace and number of explorations, copies,
starts and interruptions:

* `LogsAreOwned`: `Spec => []OneSimulationPerLog`.
* `StatisticsAreKept`: `Spec => StatisticsKept`, an action property.

Both speak of explorations that may share log directories, and except those that
`raced`. They rest on one invariant, about the explorations that are *engaged* with
their log: those between its check and its creation, and those that have a simulation.
Two engaged explorations with one directory have both raced (`EngagedRaced`). One
between check and creation that has not raced still finds the log absent
(`StillAbsent`), and none of them has a simulation yet (`NoneBetween`); one that has a
simulation has a log, because the step that creates the log starts it
(`NoneWithoutLog`), so that an exploration has one simulation at most (`OwnOnce`). While
it runs, and its exploration has not raced, the log has no statistics yet
(`RunningStarted`). No simulation of an exploration that has raced is calm
(`CalmUnraced`).

* `ReadsAreRight`: `Spec => []ReadAsWritten`. A data file, if there, is always the
  beginning of what the builder writes (`IsPiece`, the invariant `FilesOK`): a build
  that starts again empties it, nothing removes it. The lemmas below it say where the
  fields of the n-th event lie in a file (`SerializedAt`), that whole events load as
  the trace's (`LoadedEvents`), and that an event read at the end of a file misses
  fields but mixes none with another's (`EventPlayed`). `ReadInv` adds what each
  simulation has read so far (`Good`), which stays right when the file is emptied.
* `UndisturbedAreRight`: `TraceNotEmpty => (Spec => []UndisturbedRunsAreRight)`.
  `CalmInv` says of every stage of an undisturbed simulation what it still relies on
  (`CalmOK`): the trace is whole while it runs, no event it played is cut, all are
  played when it drains, the statistics are in the log when it has exited, and it
  hangs on a page of 1GB only. The
  hypothesis, that the trace has a translation, is needed: the statistics of an empty
  trace divide by the zero time it took, and the log is left without them.

### Only model-checked

* Liveness, which is out of the prover's reach: `RunEnds`, `BuildEnds`,
  `ExplorationEnds`, `CollectionEnds`, and the fairness that `ImplementsQueue` asks of
  each translation.

## 5. What the checks found

Three runs expect a violation, each of something the repository states:

1. **1GB pages are lost** (`SIOPerf_hugepage`, `sioperf.tcc:304`). A 1GB page that
   hits the L2 page cache, which fills with such pages too, is put into no queue;
   the drain loop then never ends.
2. **SIDs of different logs collide** (`TraceBuilder_sids`, `event.cpp:57`). A SID
   is a device number shifted by 3, and logs are 128 apart: with more than 16
   devices per log (24 are configured) contexts of different tenants overwrite
   each other.
3. **The documented number of tenants is never read** (`CommandLine_tenants`,
   `main.cpp:204`). The option is `--tenantnum`; the documentation and
   `hypersio-perf-explore` write `--tenants`. `opt_val` still holds what the option
   read before left in it, the depth of the queue. `tenant_num` then only shows in
   a log line and in an argument that is not used (`sioperf.tcc:609`, with `salloc`
   false): the tenants simulated are those of the trace that `--prefix` names. After
   `--inorder` or `--salloc`, however, `opt_val` is the empty string, at which
   `stoul` throws, and nothing is simulated.

Other behaviour the models show, which is as written or contradicts no definite
statement:

* The pending buffer exceeds its depth by up to the rest of a packet
  (`sioperf.tcc:161`; `InFlightBounded` is the bound).
* A log of the binary type, which the help offers, is never finished: "not
  supported" is returned as "0 devices" and the next log is asked for
  (`trace.cpp:94`; `SkipLog` in `TraceBuilder`).
* An interrupted or failed simulation leaves a log without statistics, which every later
  exploration skips (`hypersio-perf-explore:34`); `README.md:173` says that
  "at the end of the simulation it generates a log with statistics".
* A trace read while it is written is short, or ends in an event partly left over
  from the one before, and nothing reports it; the configuration file has no
  `--logdir` in its name, so two explorations share it.
* Two explorations with one `--logdir`, as both have by default, that look for a log
  (`hypersio-perf-explore:34`) before either has opened it (`:41`) simulate the experiment
  twice, and the later `open(..., 'w')` truncates what the first has printed, its
  statistics included. `OneSimulationPerLog` and `StatisticsKept` except this race by name.
* A command line that gives no usable configuration, a link speed of 0 or above 12336
  Gb/s, no room for translations, or bursts of none is not refused: the program divides
  by zero or never ends (`EndingsExplained` lists every such reason).
* `docs/hypersio_log_collector.md:35` says "All VMs will be shut down between runs";
  client machines are told to and given a minute, but not waited for, and one that is
  not up yet is not even told. `PairsConnected` therefore needs a run that found an empty host.
* When the L1 VM of a run fails to start, the log saved for that run is the trace of
  the run before (`OwnLogIsWhole` speaks of a run's own VM only).
* Log names leave out `--salloc` and the groups of the caches
  (`sioperf_config.py`), so experiments that differ in them alone would share a log.

## 6. Not modelled

* Printing and logging; the bytes of the files (fields are modelled, their
  encoding is not). The loop reads context and page table files and never uses them.
* The cache configuration's reader: `Experiment` has it find the file written or
  empty; its values are constants of `SIOPerf`.
* `main` returns 0 when `SaveTrace` fails or when no simulation was run
  (`ExitCode`, `Build`, `Run`): modelled; `EndingsExplained` says for what reasons a
  simulation is not run, but nothing in the repository says what should be returned.
* Pinning pages from a list (`SetPinnedPages`) and `ConfigSelectiveAlloc` with a
  vector, which nothing calls or which is called to do nothing; `ParseBinaryLog`;
  the regular expressions.
* The enumeration of experiments (`ArchConfig`), which is nested loops over lists;
  what happens inside virtual machines; `vmwrapper`, docker and ssh, whose
  commands are modelled by their effect in `LogCollector`; image scripts.

## 7. Plan

Written in this order, the most important behaviour first: rows, caches and
prefetcher; the loop that composes them, with `TranslationQueue`; the proofs of
its accounting; the trace builder; the command line; the experiment's processes and
files; the log collector; the proofs about these two, then about all the others. Next:

1. *Compose*: the builder's trace played by the loop, so that the oracle's next
   access times are those the builder wrote.
2. *Model*: the enumeration of `hypersio-perf-explore` with its file names; the
   oracle row against Belady's optimum on short traces.

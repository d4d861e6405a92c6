------------------------------ MODULE SIOPerf ------------------------------
(***************************************************************************)
(* The trace-driven simulation of a device's translation path: class       *)
(* SIOPerf of include/sioperf.h and include/sioperf.tcc and the event      *)
(* queues of src/simevent.cpp, composed with the context cache, the IOTLB, *)
(* the L2 and L3 page caches (BaseCache.tla) and the prefetcher            *)
(* (Prefetcher.tla).                                                       *)
(*                                                                         *)
(* The program is one thread.  An action is one iteration of its loops or  *)
(* one stage of RunCycle, and pc is the place the thread has reached.  The *)
(* four event queues are one set of simevents, each naming its queue.      *)
(***************************************************************************)
EXTENDS Naturals, Sequences, FiniteSets, Functions

CONSTANTS
    TraceEvents,   \* the translations a trace may hold
    MaxTrace,      \* bound on the length of the trace
    MaxTime,       \* bound on the simulated time; a run ends before it (RunEnds)
    MaxInFlight,   \* _trans_in_flight_max, --tqueue
    IsOOO,         \* _tqueue_ooo: priority queues instead of FIFOs
    Interarrival,  \* _pkt_interarrival_time_ns
    TRANSLATIONS_PER_PKT,
    CCHit, CCMiss, IOTLBHit, PrefetchHit, PCacheHit, PCIE, DDR, \* SIM_LAT_*
    IOTLBRow,      \* IOTLB_ROW_T: the replacement policy of the IOTLB
    MaxFreq,       \* LFU halving threshold
    CCCfg, IOTLBCfg, L2Cfg, L3Cfg, \* [size, assoc, groups] of each cache
    PrefetchCfg,   \* [size, assoc, histlen]; assoc is the prefetch distance
    SAlloc,        \* _salloc: selective allocation
    Fanout, MaxNat, NoSid

\* A translation as the trace holds it; its page level fixes its mask.
Translations == [sid : Nat, did : Nat, iova : Nat, lvl : 1..4, nat : Nat]

Latencies == {CCHit, CCMiss, IOTLBHit, PrefetchHit, PCacheHit, PCIE, DDR}

\* A link speed of 0 or of more than 8 * DEFAULT_PKT_SIZE_BYTES Gb/s gives no
\* interarrival time to divide by; with no pending buffer every packet is
\* dropped and the trace is never read.  Each cache splits evenly, as BaseCache
\* requires.
ASSUME SIOPerfAssumption ==
    /\ {MaxInFlight, Interarrival, TRANSLATIONS_PER_PKT} \subseteq Nat \ {0}
    /\ Latencies \subseteq Nat \ {0}
    /\ {MaxTrace, MaxTime} \subseteq Nat
    /\ IsOOO \in BOOLEAN
    /\ TraceEvents \subseteq Translations
    /\ PrefetchCfg.histlen \in Nat \ {0} /\ PrefetchCfg.assoc \in Nat \ {0}
    /\ \A c \in {CCCfg, IOTLBCfg, L2Cfg, L3Cfg} :
           /\ {c.size, c.assoc} \subseteq Nat /\ c.groups \in Nat \ {0}
           /\ c.assoc # 0 => c.size % c.assoc = 0 /\ (c.size \div c.assoc) % c.groups = 0
    /\ {MaxFreq, Fanout} \subseteq Nat \ {0}
    /\ SAlloc \in BOOLEAN
    /\ MaxNat \in Nat

VARIABLES
    pc,             \* where the thread is
    simtime,        \* _simtime
    pkt_i,          \* i: translations of the current packet already read
    trace_ended,
    trans_cnt,      \* _trans_cnt
    trans_in_flight,
    pkt_drop_cnt,   \* _stat_pkt_drop_cnt
    flowstat,       \* _did_flowstat_map
    simevents,      \* the contents of the four event queues
    sched_cnt,      \* simevents scheduled so far: the order of the FIFOs
    cc, iotlb, l2, l3, buffer, table

counters == <<simtime, pkt_i, trace_ended, trans_cnt, trans_in_flight,
              pkt_drop_cnt, flowstat>>
queues == <<simevents, sched_cnt>>
caches == <<cc, iotlb, l2, l3, buffer, table>>
vars == <<pc, counters, queues, caches>>

\* ConfigSelectiveAlloc hands the first DIDs to the IOTLB, the next to the L2
\* page cache and the next to the L3 page cache.
L2StartDidShared == 0
L2StartDid == IOTLBCfg.groups
L3StartDid == IOTLBCfg.groups + L2Cfg.groups

CC == INSTANCE BaseCache
        WITH cache <- cc, Lvl <- 4, RowT <- "LFU", Size <- CCCfg.size,
             Assoc <- CCCfg.assoc, Groups <- CCCfg.groups, SAllocs <- {FALSE}, StartDid <- 0
IOTLB == INSTANCE BaseCache
        WITH cache <- iotlb, Lvl <- 1, RowT <- IOTLBRow, Size <- IOTLBCfg.size,
             Assoc <- IOTLBCfg.assoc, Groups <- IOTLBCfg.groups, SAllocs <- {SAlloc}, StartDid <- 0
L2 == INSTANCE BaseCache
        WITH cache <- l2, Lvl <- 2, RowT <- "LRU", Size <- L2Cfg.size,
             Assoc <- L2Cfg.assoc, Groups <- L2Cfg.groups, SAllocs <- {SAlloc}, StartDid <- L2StartDid
L3 == INSTANCE BaseCache
        WITH cache <- l3, Lvl <- 3, RowT <- "LRU", Size <- L3Cfg.size,
             Assoc <- L3Cfg.assoc, Groups <- L3Cfg.groups, SAllocs <- {SAlloc}, StartDid <- L3StartDid
PF == INSTANCE Prefetcher
        WITH BuffSize <- PrefetchCfg.size, HistoryLen <- PrefetchCfg.histlen,
             PrefetchDist <- PrefetchCfg.assoc

Init ==
    /\ pc = "setup"
    /\ simtime = 0 /\ pkt_i = 0 /\ trace_ended = FALSE
    /\ trans_cnt = 0 /\ trans_in_flight = 0 /\ pkt_drop_cnt = 0
    /\ flowstat = [d \in {} |-> 0]
    /\ simevents = {} /\ sched_cnt = 0
    /\ CC!Init /\ IOTLB!Init /\ L2!Init /\ L3!Init /\ PF!Init

-----------------------------------------------------------------------------
\* ScheduledSimEvents

\* A simevent of queue q, ready at time t, for the translation te.
SimEvent(q, te, t, n) == [q |-> q, te |-> te, time |-> t, ord |-> n]

AddTransTime(te, t) == [te EXCEPT !.end = @ + t]

\* a leaves a queue before b: earliest first (ties broken anyhow), or first in
\* first out.
Before(a, b) == IF IsOOO THEN a.time <= b.time ELSE a.ord <= b.ord

\* Fault: an event that is not at the head may be picked.
ReadyAnywhere(q) == {s \in simevents : s.q = q /\ s.time <= simtime}

\* Fault: an event is ready only at its very time.
ReadyExactly(q) ==
    {s \in simevents : /\ s.q = q
                       /\ s.time = simtime
                       /\ \A x \in simevents : x.q = q => Before(s, x)}

\* PickReady takes the head of a queue, if its time has come.
Ready(q) ==
    {s \in simevents : /\ s.q = q
                       /\ s.time <= simtime
                       /\ \A x \in simevents : x.q = q => Before(s, x)}

\* s leaves its queue and the simevents of ses, numbered by the n numbers from
\* sched_cnt on, are scheduled.
Reschedule(s, ses, n) ==
    /\ simevents' = (simevents \ {s}) \cup ses
    /\ sched_cnt' = sched_cnt + n

-----------------------------------------------------------------------------
\* PlayIOVATrace: setting up, and the loop that opens a packet per link slot

SetupEnv ==
    /\ pc = "setup" /\ pc' = "packet"
    /\ UNCHANGED <<counters, queues, caches>>

\* One of the data files, or the trace, cannot be opened.
SetupEnvFails ==
    /\ pc = "setup" /\ pc' = "error"
    /\ UNCHANGED <<counters, queues, caches>>

SlotBegins == (simtime % Interarrival) = 0

\* No packet arrives in this cycle.
SkipSlot ==
    /\ pc = "packet" /\ ~SlotBegins
    /\ pc' = "cc_fill"
    /\ UNCHANGED <<counters, queues, caches>>

\* Fault: the room for a packet is checked one translation too late.
HasRoomLate == trans_in_flight <= MaxInFlight

\* There is room for one more translation, if not for a packet of them.
HasRoom == trans_in_flight < MaxInFlight

\* Fault: a dropped packet is not counted.
DropPacketUncounted ==
    /\ pc = "packet" /\ SlotBegins /\ ~HasRoom
    /\ pc' = "cc_fill"
    /\ UNCHANGED <<counters, queues, caches>>

DropPacket ==
    /\ pc = "packet" /\ SlotBegins /\ ~HasRoom
    /\ pkt_drop_cnt' = pkt_drop_cnt + 1
    /\ pc' = "cc_fill"
    /\ UNCHANGED <<simtime, pkt_i, trace_ended, trans_cnt, trans_in_flight, flowstat>>
    /\ UNCHANGED <<queues, caches>>

OpenPacket ==
    /\ pc = "packet" /\ SlotBegins /\ HasRoom
    /\ pkt_i' = 0
    /\ pc' = "read"
    /\ UNCHANGED <<simtime, trace_ended, trans_cnt, trans_in_flight, pkt_drop_cnt, flowstat>>
    /\ UNCHANGED <<queues, caches>>

\* Translate: the context cache is looked up but not filled, and the
\* translation starts now.
Issue(e) ==
    LET lat == IF CC!IsHit(e) THEN CCHit ELSE CCMiss
        te  == [ev |-> e, id |-> trans_cnt + 1, prefetch |-> FALSE,
                start |-> simtime, end |-> simtime]
    IN  /\ CC!Translate(e, FALSE)
        /\ simevents' = simevents \cup
               {SimEvent("cc_fill", AddTransTime(te, lat), simtime + lat, sched_cnt)}
        /\ sched_cnt' = sched_cnt + 1

\* One translation of the packet is read from the trace and issued.
ReadTranslation(e) ==
    /\ pc = "read" /\ trans_cnt < MaxTrace
    /\ Issue(e)
    /\ trans_cnt' = trans_cnt + 1
    /\ trans_in_flight' = trans_in_flight + 1
    /\ pkt_i' = pkt_i + 1
    /\ pc' = IF pkt_i' < TRANSLATIONS_PER_PKT THEN "read" ELSE "cc_fill"
    /\ UNCHANGED <<simtime, trace_ended, pkt_drop_cnt, flowstat>>
    /\ UNCHANGED <<iotlb, l2, l3, buffer, table>>

\* The trace is over, perhaps in the middle of a packet; the cycle is not run.
ReadEof ==
    /\ pc = "read"
    /\ trace_ended' = TRUE
    /\ pc' = "drain"
    /\ UNCHANGED <<simtime, pkt_i, trans_cnt, trans_in_flight, pkt_drop_cnt, flowstat>>
    /\ UNCHANGED <<queues, caches>>

\* An event of another type: PlayIOVATrace gives up.
ReadUnknown ==
    /\ pc = "read" /\ pc' = "error"
    /\ UNCHANGED <<counters, queues, caches>>

\* Fault: the drain loop leaves one translation behind.
MustDrainLate == trans_in_flight > 1

\* The drain loop's condition.
MustDrain == trans_in_flight > 0

DrainOn ==
    /\ pc = "drain" /\ MustDrain
    /\ pc' = "cc_fill"
    /\ UNCHANGED <<counters, queues, caches>>

DrainDone ==
    /\ pc = "drain" /\ ~MustDrain
    /\ pc' = "done"
    /\ UNCHANGED <<counters, queues, caches>>

EndCycle ==
    /\ pc = "tick" /\ simtime < MaxTime
    /\ simtime' = simtime + 1
    /\ pc' = IF trace_ended THEN "drain" ELSE "packet"
    /\ UNCHANGED <<pkt_i, trace_ended, trans_cnt, trans_in_flight, pkt_drop_cnt, flowstat>>
    /\ UNCHANGED <<queues, caches>>

-----------------------------------------------------------------------------
\* RunCycle: four stages, each serving at most one event per cycle

StageAfter ==
    [cc_fill |-> "pcache_trans", pcache_trans |-> "pcache_fill",
     pcache_fill |-> "iotlb_fill", iotlb_fill |-> "tick"]

\* No event of the stage is ready.
Idle(q) ==
    /\ pc = q /\ Ready(q) = {}
    /\ pc' = StageAfter[q]
    /\ UNCHANGED <<counters, queues, caches>>

\* The stage's thread takes the event s from its queue.
Serve(q, s) ==
    /\ pc = q /\ s \in Ready(q)
    /\ pc' = StageAfter[q]

\* Where a translation with its DID known goes: a hit in the IOTLB or in the
\* prefetch buffer is done locally, a miss crosses PCIe to the page caches.
LookedUp(te) ==
    LET Later(q, lat, t) == SimEvent(q, AddTransTime(te, lat), t, sched_cnt)
    IN  CASE IOTLB!IsHit(te.ev) ->
                 Later("iotlb_fill", IOTLBHit, simtime + IOTLBHit - 1)
          [] ~IOTLB!IsHit(te.ev) /\ PF!IsHit(te.ev) ->
                 Later("iotlb_fill", PrefetchHit, simtime + PrefetchHit - 1)
          [] OTHER ->
                 Later("pcache_trans", PCIE, simtime + PCIE)

\* The prefetches the access triggers, behind it in the queue.
Prefetches(e) ==
    LET lat == PCIE + DDR
        te(p) == [ev |-> p, id |-> 0, prefetch |-> TRUE, start |-> 0, end |-> lat]
    IN  {SimEvent("pcache_trans", te(PF!Suggested(e)[i]), simtime + lat, sched_cnt + i) :
            i \in DOMAIN PF!Suggested(e)}

CCFill(s) ==
    /\ Serve("cc_fill", s)
    /\ CC!Translate(s.te.ev, TRUE)
    /\ IOTLB!Translate(s.te.ev, FALSE)
    /\ PF!Translate(s.te.ev)
    /\ PF!Probe(s.te.ev)
    /\ Reschedule(s, {LookedUp(s.te)} \cup Prefetches(s.te.ev), 1 + Len(PF!Suggested(s.te.ev)))
    /\ UNCHANGED <<counters, l2, l3>>

\* Fault: the walk is charged a level more than it waits for.
WalkedOvercharged(te) ==
    {SimEvent("pcache_fill", AddTransTime(te, DDR * (te.ev.lvl + 1)),
              simtime + (DDR * te.ev.lvl) - 1, sched_cnt)}

\* What the page caches leave to do: nothing for a page of the cache's own
\* level, reading the levels below for a smaller one, and a whole walk on a
\* miss.  A page larger than the cache's is a warning, and the event is lost.
Walked(te) ==
    LET lvl == te.ev.lvl
        hit2 == L2!IsHit(te.ev)
        hit3 == ~hit2 /\ L3!IsHit(te.ev)
        Later(q, lat) == {SimEvent(q, AddTransTime(te, lat), simtime + lat - 1, sched_cnt)}
    IN  CASE hit2 /\ lvl = 2 -> Later("iotlb_fill", PCacheHit + PCIE)
          [] hit2 /\ lvl < 2 -> Later("pcache_fill", DDR * (2 - lvl))
          [] hit3 /\ lvl = 3 -> Later("iotlb_fill", PCacheHit)
          [] hit3 /\ lvl < 3 -> Later("pcache_fill", DDR * (3 - lvl))
          [] ~hit2 /\ ~hit3 -> Later("pcache_fill", DDR * lvl)
          [] OTHER -> {}

PCacheTrans(s) ==
    /\ Serve("pcache_trans", s)
    /\ L2!Translate(s.te.ev, FALSE)
    /\ L3!Translate(s.te.ev, FALSE)
    /\ Reschedule(s, Walked(s.te), 1)
    /\ UNCHANGED <<counters, cc, iotlb, buffer, table>>

PCacheFill(s) ==
    /\ Serve("pcache_fill", s)
    /\ L2!Translate(s.te.ev, L2!IsDIDCacheable(s.te.ev.did))
    /\ L3!Translate(s.te.ev, L3!IsDIDCacheable(s.te.ev.did))
    /\ Reschedule(s, {SimEvent("iotlb_fill", AddTransTime(s.te, PCIE),
                               simtime + PCIE, sched_cnt)}, 1)
    /\ UNCHANGED <<counters, cc, iotlb, buffer, table>>

\* Fault: a prefetch takes the place of a translation in the pending buffer.
PrefetchArrivesCounted(s) ==
    /\ Serve("iotlb_fill", s) /\ s.te.prefetch
    /\ PF!Fill(s.te.ev)
    /\ Reschedule(s, {}, 0)
    /\ trans_in_flight' = trans_in_flight - 1
    /\ UNCHANGED <<simtime, pkt_i, trace_ended, trans_cnt, pkt_drop_cnt, flowstat>>
    /\ UNCHANGED <<cc, iotlb, l2, l3, table>>

\* A prefetched translation arrives; it is in nobody's count.
PrefetchArrives(s) ==
    /\ Serve("iotlb_fill", s) /\ s.te.prefetch
    /\ PF!Fill(s.te.ev)
    /\ Reschedule(s, {}, 0)
    /\ UNCHANGED <<counters, cc, iotlb, l2, l3, table>>

\* Fault: a completed translation is taken to be the latest of its flow.
FlowStatInOrder(fs, te) == [fs EXCEPT !.trans = @ + 1, !.last = te.end]

\* FlowStat::Update: translations complete out of order, so both ends of the
\* flow's time are compared.
FlowStat(fs, te) ==
    [trans |-> fs.trans + 1,
     first |-> IF te.start < fs.first THEN te.start ELSE fs.first,
     last  |-> IF te.end > fs.last THEN te.end ELSE fs.last]

\* Fault: the translation that creates a flow's entry is not counted in it.
NewFlowUncounted(te) == [trans |-> 0, first |-> te.start, last |-> te.end]

NewFlow(te) == [trans |-> 1, first |-> te.start, last |-> te.end]

UpdateStat(te) ==
    LET d == te.ev.did
    IN  flowstat' = [x \in DOMAIN flowstat \cup {d} |->
                        IF x # d THEN flowstat[x]
                        ELSE IF d \in DOMAIN flowstat THEN FlowStat(flowstat[d], te)
                        ELSE NewFlow(te)]

\* Fault: a translation that fills the IOTLB leaves its place in the buffer taken.
TranslationDoneUncounted(s) ==
    /\ Serve("iotlb_fill", s) /\ ~s.te.prefetch
    /\ IOTLB!Translate(s.te.ev, IOTLB!IsDIDCacheable(s.te.ev.did))
    /\ Reschedule(s, {}, 0)
    /\ trans_in_flight' = IF IOTLB!IsHit(s.te.ev) THEN trans_in_flight - 1 ELSE trans_in_flight
    /\ UpdateStat(s.te)
    /\ UNCHANGED <<simtime, pkt_i, trace_ended, trans_cnt, pkt_drop_cnt>>
    /\ UNCHANGED <<cc, l2, l3, buffer, table>>

\* A translation completes: RunCycle returns it to PlayIOVATrace.
TranslationDone(s) ==
    /\ Serve("iotlb_fill", s) /\ ~s.te.prefetch
    /\ IOTLB!Translate(s.te.ev, IOTLB!IsDIDCacheable(s.te.ev.did))
    /\ Reschedule(s, {}, 0)
    /\ trans_in_flight' = trans_in_flight - 1
    /\ UpdateStat(s.te)
    /\ UNCHANGED <<simtime, pkt_i, trace_ended, trans_cnt, pkt_drop_cnt>>
    /\ UNCHANGED <<cc, l2, l3, buffer, table>>

-----------------------------------------------------------------------------
PlayIOVATrace ==
    \/ SetupEnv \/ SetupEnvFails
    \/ SkipSlot \/ DropPacket \/ OpenPacket
    \/ \E e \in TraceEvents : ReadTranslation(e)
    \/ ReadEof \/ ReadUnknown
    \/ DrainOn \/ DrainDone \/ EndCycle

RunCycle ==
    \/ \E q \in DOMAIN StageAfter : Idle(q)
    \/ \E s \in simevents : \/ CCFill(s)
                            \/ PCacheTrans(s)
                            \/ PCacheFill(s)
                            \/ PrefetchArrives(s)
                            \/ TranslationDone(s)

Next == PlayIOVATrace \/ RunCycle

\* The thread goes on as long as it can, and a trace file is finite.
Spec == Init /\ [][Next]_vars /\ WF_vars(Next)

-----------------------------------------------------------------------------
Queued(q) == {s \in simevents : s.q = q}

\* The translations that have been issued and have not completed.
Pending == {s \in simevents : ~s.te.prefetch}

\* The shape of the state.  The counters are unsigned in the code, so that
\* counting below zero would wrap; and the simevents are numbered without
\* repetition, so that the order of the FIFO queues is one.
TranslateEvents ==
    [ev : Translations, id : Nat, prefetch : BOOLEAN, start : Nat, end : Nat]
TypeOK ==
    /\ pc \in {"setup", "packet", "read", "drain", "tick", "done", "error"} \cup DOMAIN StageAfter
    /\ {simtime, pkt_i, trans_cnt, trans_in_flight, pkt_drop_cnt, sched_cnt} \subseteq Nat
    /\ trace_ended \in BOOLEAN
    /\ simevents \subseteq [q : DOMAIN StageAfter, te : TranslateEvents, time : Nat, ord : Nat]
    /\ \A s \in simevents : s.ord < sched_cnt
    /\ \A s, x \in simevents : s.ord = x.ord => s = x
    /\ \A d \in DOMAIN flowstat : flowstat[d] \in [trans : Nat, first : Nat, last : Nat]
    /\ PF!TableOK(Translations)

\* Every translation read from the trace is in exactly one queue until it
\* completes, and the counter that decides on drops and on the end of the drain
\* counts exactly those: none is lost, none counted twice, and no prefetch
\* takes a place (_trans_in_flight against the four queues).
InFlightAccounted == trans_in_flight = Cardinality(Pending)

\* The pending buffer never exceeds its depth by more than the rest of a packet.
InFlightBounded == trans_in_flight <= MaxInFlight + (TRANSLATIONS_PER_PKT - 1)

\* The per-flow statistics and the pending buffer account for every
\* translation of the trace (UpdateStat against _trans_cnt).
FlowsConserve ==
    SumFunction([d \in DOMAIN flowstat |-> flowstat[d].trans]) + trans_in_flight = trans_cnt

\* A reported flow took some time, so that its bandwidth can be divided by it,
\* and did not end in the future: the latency charged to a translation stage by
\* stage never exceeds the time it was simulated for (AddTransTime against
\* ScheduleEvent; FlowStat::GetBW).
FlowTimesReal ==
    \A d \in DOMAIN flowstat :
        /\ flowstat[d].first < flowstat[d].last
        /\ flowstat[d].last <= simtime + IF pc = "tick" THEN 1 ELSE 0

\* A flow's statistics only ever widen, in whatever order translations complete.
FlowsWiden ==
    [][\A d \in DOMAIN flowstat :
           /\ d \in DOMAIN flowstat'
           /\ flowstat'[d].first <= flowstat[d].first
           /\ flowstat'[d].last >= flowstat[d].last
           /\ flowstat'[d].trans >= flowstat[d].trans]_vars

\* Between cycles, every link slot so far has either issued a whole packet or
\* been counted as a drop.
SlotsAccounted ==
    pc = "packet" =>
        /\ (trans_cnt % TRANSLATIONS_PER_PKT) = 0
        /\ pkt_drop_cnt + (trans_cnt \div TRANSLATIONS_PER_PKT)
               = (simtime + (Interarrival - 1)) \div Interarrival

\* With FIFO queues, translations look up the IOTLB in trace order: a context
\* cache hit never overtakes an earlier miss.
InOrderLookup ==
    ~IsOOO => \A a \in Queued("cc_fill"), b \in Pending \ Queued("cc_fill") : b.te.id < a.te.id

\* With selective allocation a tenant has entries in one of the three address
\* caches at most.
DidsIn(c) == {k.did : k \in c}
SelectiveAllocDisjoint ==
    SAlloc => /\ DidsIn(IOTLB!Contents) \cap DidsIn(L2!Contents) = {}
              /\ DidsIn(IOTLB!Contents) \cap DidsIn(L3!Contents) = {}
              /\ DidsIn(L2!Contents) \cap DidsIn(L3!Contents) = {}

\* The run ends: every pending translation completes and the drain loop with it.
RunEnds == <>(pc \in {"done", "error"})

\* Seen from outside, the simulator is a queue of translations.
Queue == INSTANCE TranslationQueue
           WITH Capacity <- MaxInFlight, Burst <- TRANSLATIONS_PER_PKT,
                issued <- trans_cnt,
                pending <- {s.te.id : s \in Pending},
                status <- CASE pc = "error" -> "failed"
                            [] pc = "done" -> "done"
                            [] OTHER -> IF trace_ended THEN "draining" ELSE "open"
ImplementsQueue == Queue!Spec
=============================================================================

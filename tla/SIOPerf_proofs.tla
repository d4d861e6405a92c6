-------------------------- MODULE SIOPerf_proofs --------------------------
(***************************************************************************)
(* Proofs about the simulation loop of SIOPerf.tla, for every trace,       *)
(* latency, queue depth, cache configuration and replacement policy.       *)
(*                                                                         *)
(* The pending buffer and its counter come first, then the order of the    *)
(* loop: its clock, its flows, the arrival queue, the slots of a packet,   *)
(* the abstract TranslationQueue it implements, and last the caches, which *)
(* only the proof about selective allocation expands: to the others, what  *)
(* a cache answers only chooses the queue a translation goes to next.      *)
(***************************************************************************)
EXTENDS SIOPerf, FiniteSetTheorems, SequenceTheorems, WellFoundedInduction, TLAPS

\* Pages of 4KB and 2MB, which is what include/config.h assumes.
OnlySmallPages == \A e \in TraceEvents : e.lvl \in {1, 2}

SimEvents == [q : DOMAIN StageAfter, te : TranslateEvents, time : Nat, ord : Nat]

\* The translations underway are numbered as the trace was, without repetition.
Numbered ==
    /\ \A s \in Pending : s.te.id \in 1..trans_cnt /\ s.te.ev \in TraceEvents
    /\ \A s, x \in Pending : s.te.id = x.te.id => s = x

\* The counter covers the queues, and counts exactly them with small pages.
Covered ==
    /\ IsFiniteSet(Pending)
    /\ Cardinality(Pending) <= trans_in_flight
    /\ OnlySmallPages => Cardinality(Pending) = trans_in_flight

\* A packet is opened with room for one translation, and read one by one.
Admitted ==
    /\ trans_in_flight <= MaxInFlight + (TRANSLATIONS_PER_PKT - 1)
    /\ pc = "read" => /\ pkt_i < TRANSLATIONS_PER_PKT
                      /\ trans_in_flight < MaxInFlight + pkt_i

\* The inductive invariant of the pending buffer.
IInv == TypeOK /\ Numbered /\ Covered /\ Admitted

-----------------------------------------------------------------------------
(* What the building blocks of the actions return.                         *)

LEMMA LatencyType ==
    /\ CCHit \in Nat \ {0} /\ CCMiss \in Nat \ {0} /\ IOTLBHit \in Nat \ {0}
    /\ PrefetchHit \in Nat \ {0} /\ PCacheHit \in Nat \ {0}
    /\ PCIE \in Nat \ {0} /\ DDR \in Nat \ {0}
BY SIOPerfAssumption DEF Latencies

LEMMA AddTransTimeType ==
    ASSUME NEW te \in TranslateEvents, NEW t \in Nat
    PROVE  /\ AddTransTime(te, t) \in TranslateEvents
           /\ AddTransTime(te, t).ev = te.ev
           /\ AddTransTime(te, t).id = te.id
           /\ AddTransTime(te, t).prefetch = te.prefetch
           /\ AddTransTime(te, t).start = te.start
           /\ AddTransTime(te, t).end = te.end + t
BY DEF AddTransTime, TranslateEvents

LEMMA StageNames ==
    DOMAIN StageAfter = {"cc_fill", "pcache_trans", "pcache_fill", "iotlb_fill"}
BY DEF StageAfter

\* Scheduling a translation for later keeps what it is and charges it lat.
LEMMA LaterType ==
    ASSUME NEW q \in DOMAIN StageAfter, NEW te \in TranslateEvents,
           NEW lat \in Nat, NEW t \in Nat, NEW n \in Nat,
           NEW m, m = SimEvent(q, AddTransTime(te, lat), t, n)
    PROVE  /\ m \in SimEvents
           /\ m.te.ev = te.ev
           /\ m.te.id = te.id
           /\ m.te.prefetch = te.prefetch
           /\ m.te.start = te.start
           /\ m.te.end = te.end + lat
           /\ m.q = q
           /\ m.time = t
           /\ m.ord = n
BY AddTransTimeType DEF SimEvent, SimEvents

\* A simevent m scheduled at the current time, for a translation te: the same
\* translation, later and charged no more than the time it will have taken.
Follows(m, te) ==
    /\ m \in SimEvents
    /\ m.te.ev = te.ev
    /\ m.te.id = te.id
    /\ m.te.prefetch = te.prefetch
    /\ m.te.start = te.start
    /\ m.te.end > te.end
    /\ m.ord = sched_cnt
    /\ m.q # "cc_fill"

InTime(m) == m.te.end <= m.time + (IF m.q \in {"cc_fill", "pcache_trans"} THEN 0 ELSE 1)

LEMMA LookedUpFollows ==
    ASSUME NEW te \in TranslateEvents, simtime \in Nat, sched_cnt \in Nat
    PROVE  /\ Follows(LookedUp(te), te)
           /\ te.end <= simtime => InTime(LookedUp(te))
<1> DEFINE m == LookedUp(te)
           A(lat) == SimEvent("iotlb_fill", AddTransTime(te, lat), simtime + lat - 1, sched_cnt)
           B == SimEvent("pcache_trans", AddTransTime(te, PCIE), simtime + PCIE, sched_cnt)
<1>0. te.end \in Nat
  BY DEF TranslateEvents
<1>1. m = A(IOTLBHit) \/ m = A(PrefetchHit) \/ m = B
  BY DEF LookedUp
<1> HIDE DEF m
<1>2. ASSUME NEW lat \in Nat \ {0}, m = A(lat)
      PROVE  Follows(m, te) /\ (te.end <= simtime => InTime(m))
  <2>1. "iotlb_fill" \in DOMAIN StageAfter /\ simtime + lat - 1 \in Nat /\ lat \in Nat
    BY StageNames
  <2>2. /\ m \in SimEvents /\ m.te.ev = te.ev /\ m.te.id = te.id
        /\ m.te.prefetch = te.prefetch /\ m.te.start = te.start
        /\ m.te.end = te.end + lat /\ m.q = "iotlb_fill"
        /\ m.time = simtime + lat - 1 /\ m.ord = sched_cnt
    BY <1>2, <2>1, LaterType
  <2> QED BY <1>0, <2>2 DEF Follows, InTime
<1>3. ASSUME m = B
      PROVE  Follows(m, te) /\ (te.end <= simtime => InTime(m))
  <2>1. "pcache_trans" \in DOMAIN StageAfter /\ simtime + PCIE \in Nat /\ PCIE \in Nat \ {0}
    BY StageNames, LatencyType
  <2>2. /\ m \in SimEvents /\ m.te.ev = te.ev /\ m.te.id = te.id
        /\ m.te.prefetch = te.prefetch /\ m.te.start = te.start
        /\ m.te.end = te.end + PCIE /\ m.q = "pcache_trans"
        /\ m.time = simtime + PCIE /\ m.ord = sched_cnt
    BY <1>3, <2>1, LaterType
  <2> QED BY <1>0, <2>1, <2>2 DEF Follows, InTime
<1>4. QED BY <1>1, <1>2, <1>3, LatencyType DEF m

\* The page caches pass a translation on at most once, and never lose one of a
\* 4KB or 2MB page.
LEMMA WalkedFollows ==
    ASSUME NEW te \in TranslateEvents, simtime \in Nat, sched_cnt \in Nat
    PROVE  /\ Walked(te) = {} \/ \E m : Walked(te) = {m}
           /\ \A m \in Walked(te) :
                  /\ Follows(m, te)
                  /\ te.end <= simtime => InTime(m)
           /\ te.ev.lvl \in {1, 2} => Walked(te) # {}
<1> DEFINE lvl == te.ev.lvl
           A(q, lat) == SimEvent(q, AddTransTime(te, lat), simtime + lat - 1, sched_cnt)
           Lats == {PCacheHit + PCIE, PCacheHit, DDR * (2 - lvl), DDR * (3 - lvl), DDR * lvl}
<1>0. te.end \in Nat /\ lvl \in 1..4
  BY DEF TranslateEvents, Translations
<1>1. \A x \in 1..4 : DDR * x \in Nat \ {0}
  <2>1. DDR * 1 \in Nat \ {0} /\ DDR * 2 \in Nat \ {0} /\ DDR * 3 \in Nat \ {0} /\ DDR * 4 \in Nat \ {0}
    BY LatencyType
  <2> QED BY <2>1
<1>2. \/ Walked(te) = {}
      \/ \E q \in {"iotlb_fill", "pcache_fill"}, lat \in Nat \ {0} : Walked(te) = {A(q, lat)}
  <2>1. PCacheHit + PCIE \in Nat \ {0} /\ PCacheHit \in Nat \ {0}
    BY LatencyType
  <2>2. lvl < 2 => DDR * (2 - lvl) \in Nat \ {0}
    <3>1. lvl < 2 => 2 - lvl \in 1..4
      BY <1>0
    <3> QED BY <3>1, <1>1
  <2>3. lvl < 3 => DDR * (3 - lvl) \in Nat \ {0}
    <3>1. lvl < 3 => 3 - lvl \in 1..4
      BY <1>0
    <3> QED BY <3>1, <1>1
  <2>4. DDR * lvl \in Nat \ {0}
    BY <1>0, <1>1
  <2> HIDE DEF A
  <2>5. \/ Walked(te) = {}
        \/ Walked(te) = {A("iotlb_fill", PCacheHit + PCIE)}
        \/ lvl < 2 /\ Walked(te) = {A("pcache_fill", DDR * (2 - lvl))}
        \/ Walked(te) = {A("iotlb_fill", PCacheHit)}
        \/ lvl < 3 /\ Walked(te) = {A("pcache_fill", DDR * (3 - lvl))}
        \/ Walked(te) = {A("pcache_fill", DDR * lvl)}
    BY DEF Walked, A
  <2> QED BY <2>1, <2>2, <2>3, <2>4, <2>5
<1>3. ASSUME NEW q \in {"iotlb_fill", "pcache_fill"}, NEW lat \in Nat \ {0},
             NEW m, m = A(q, lat)
      PROVE  Follows(m, te) /\ (te.end <= simtime => InTime(m))
  <2>1. q \in DOMAIN StageAfter /\ simtime + lat - 1 \in Nat /\ lat \in Nat
    BY StageNames
  <2>2. /\ m \in SimEvents /\ m.te.ev = te.ev /\ m.te.id = te.id
        /\ m.te.prefetch = te.prefetch /\ m.te.start = te.start
        /\ m.te.end = te.end + lat /\ m.q = q
        /\ m.time = simtime + lat - 1 /\ m.ord = sched_cnt
    BY <1>3, <2>1, LaterType
  <2> QED BY <1>0, <2>2 DEF Follows, InTime
<1>4. ASSUME lvl \in {1, 2} PROVE Walked(te) # {}
  <2>1. CASE L2!IsHit(te.ev) /\ lvl = 1
    BY <2>1 DEF Walked
  <2>2. CASE L2!IsHit(te.ev) /\ lvl = 2
    BY <2>2 DEF Walked
  <2>3. CASE ~L2!IsHit(te.ev) /\ L3!IsHit(te.ev)
    BY <1>4, <2>3 DEF Walked
  <2>4. CASE ~L2!IsHit(te.ev) /\ ~L3!IsHit(te.ev)
    BY <2>4 DEF Walked
  <2> QED BY <1>4, <2>1, <2>2, <2>3, <2>4
<1> HIDE DEF A
<1>5. QED BY <1>2, <1>3, <1>4

\* A page cache fill goes on to the IOTLB.
Filled(te) == SimEvent("iotlb_fill", AddTransTime(te, PCIE), simtime + PCIE, sched_cnt)

LEMMA FilledFollows ==
    ASSUME NEW te \in TranslateEvents, simtime \in Nat, sched_cnt \in Nat
    PROVE  /\ Follows(Filled(te), te)
           /\ te.end <= simtime + 1 => InTime(Filled(te))
<1> DEFINE m == Filled(te)
<1>0. te.end \in Nat
  BY DEF TranslateEvents
<1>1. "iotlb_fill" \in DOMAIN StageAfter /\ simtime + PCIE \in Nat /\ PCIE \in Nat \ {0}
  BY StageNames, LatencyType
<1>2. /\ m \in SimEvents /\ m.te.ev = te.ev /\ m.te.id = te.id
      /\ m.te.prefetch = te.prefetch /\ m.te.start = te.start
      /\ m.te.end = te.end + PCIE /\ m.q = "iotlb_fill"
      /\ m.time = simtime + PCIE /\ m.ord = sched_cnt
  BY <1>1, LaterType DEF Filled
<1> QED BY <1>0, <1>1, <1>2 DEF Follows, InTime

\* The prefetches an access triggers are no one's translations, wait for as long
\* as they are charged, and are numbered from sched_cnt + 1 on.
LEMMA PrefetchesType ==
    ASSUME NEW e, PF!Suggested(e) \in Seq(Translations), simtime \in Nat, sched_cnt \in Nat
    PROVE  \A m \in Prefetches(e) :
               /\ m \in SimEvents
               /\ m.te.prefetch
               /\ m.q = "pcache_trans"
               /\ InTime(m)
               /\ m.ord \in (sched_cnt + 1)..(sched_cnt + Len(PF!Suggested(e)))
               /\ \A x \in Prefetches(e) : x.ord = m.ord => x = m
<1> DEFINE sug == PF!Suggested(e)
           te(i) == [ev |-> sug[i], id |-> 0, prefetch |-> TRUE, start |-> 0, end |-> PCIE + DDR]
           ev(i) == SimEvent("pcache_trans", te(i), simtime + (PCIE + DDR), sched_cnt + i)
<1>1. \A m : m \in Prefetches(e) <=> \E i \in DOMAIN sug : m = ev(i)
  BY DEF Prefetches
<1>2. ASSUME NEW i \in DOMAIN sug, NEW m, m = ev(i)
      PROVE  /\ m \in SimEvents /\ m.te.prefetch /\ m.ord = sched_cnt + i
             /\ m.q = "pcache_trans" /\ InTime(m)
             /\ i \in 1..Len(sug) /\ Len(sug) \in Nat
  <2>1. i \in 1..Len(sug) /\ Len(sug) \in Nat /\ sug[i] \in Translations
    BY ElementOfSeq, LenProperties
  <2>2. te(i) \in TranslateEvents
    BY <2>1, LatencyType DEF TranslateEvents
  <2>3. m \in SimEvents /\ m.te.prefetch /\ m.ord = sched_cnt + i /\ m.q = "pcache_trans"
    BY <1>2, <2>1, <2>2, LatencyType, StageNames DEF SimEvent, SimEvents
  <2>4. m.te.end = PCIE + DDR /\ m.time = simtime + (PCIE + DDR)
    BY <1>2 DEF SimEvent
  <2>5. InTime(m)
    BY <2>3, <2>4, LatencyType DEF InTime
  <2> QED BY <2>1, <2>3, <2>5
<1> HIDE DEF ev, te, sug
<1>3. ASSUME NEW m \in Prefetches(e)
      PROVE  /\ m \in SimEvents /\ m.te.prefetch
             /\ m.q = "pcache_trans" /\ InTime(m)
             /\ m.ord \in (sched_cnt + 1)..(sched_cnt + Len(sug))
             /\ \A x \in Prefetches(e) : x.ord = m.ord => x = m
  <2>1. PICK i \in DOMAIN sug : m = ev(i)
    BY <1>1
  <2>2. /\ m \in SimEvents /\ m.te.prefetch /\ m.ord = sched_cnt + i
        /\ m.q = "pcache_trans" /\ InTime(m)
        /\ i \in 1..Len(sug) /\ Len(sug) \in Nat
    BY <1>2, <2>1
  <2>3. ASSUME NEW x \in Prefetches(e), x.ord = m.ord PROVE x = m
    <3>1. PICK j \in DOMAIN sug : x = ev(j)
      BY <1>1
    <3>2. x.ord = sched_cnt + j /\ j \in 1..Len(sug)
      BY <1>2, <3>1
    <3>3. i = j
      BY <2>2, <2>3, <3>2
    <3> QED BY <2>1, <3>1, <3>3
  <2> QED BY <2>2, <2>3
<1> QED BY <1>3 DEF sug

-----------------------------------------------------------------------------
(* The prefetcher's tables.                                                *)

LEMMA SlideType ==
    ASSUME NEW S, NEW seq \in Seq(S), NEW n \in Nat \ {0}, NEW x \in S
    PROVE  PF!Slide(seq, n, x) \in Seq(S)
<1>1. CASE Len(seq) = n
  <2>1. seq # << >>
    BY <1>1, EmptySeq
  <2>2. Tail(seq) \in Seq(S)
    BY <2>1, HeadTailProperties
  <2> QED BY <1>1, <2>2, AppendProperties DEF PF!Slide
<1>2. CASE Len(seq) # n
  BY <1>2, AppendProperties DEF PF!Slide
<1> QED BY <1>1, <1>2

\* Whatever a demand access is, the tables keep their shape, and what Probe
\* suggests is a sequence of translations seen before.
LEMMA ProbeTable ==
    ASSUME NEW e \in Translations, PF!TableOK(Translations), PF!Probe(e)
    PROVE  /\ PF!Suggested(e) \in Seq(Translations)
           /\ PF!TableOK(Translations)'
<1> DEFINE seen == DOMAIN table.history
           hist == PF!Remember(e)
<1>0. /\ \A s \in seen : table.history[s] \in Seq(Translations)
      /\ \A s \in DOMAIN table.nsid : table.nsid[s] \in seen
      /\ table.sidhist \in Seq(seen)
      /\ table.prev \in seen \cup {NoSid}
  BY DEF PF!TableOK
<1>1. PF!Saved(e) \in Translations
  BY SIOPerfAssumption DEF PF!Saved, Translations
<1>2. DOMAIN hist = seen \cup {e.sid}
  BY DEF PF!Remember
<1>3. ASSUME NEW s \in seen \cup {e.sid} PROVE hist[s] \in Seq(Translations)
  <2>1. CASE s = e.sid
    <3> DEFINE old == IF s \in seen THEN table.history[s] ELSE << >>
    <3>1. old \in Seq(Translations)
      BY <1>0, EmptySeq
    <3>2. hist[s] = PF!Slide(old, PrefetchCfg.histlen, PF!Saved(e))
      BY <2>1 DEF PF!Remember
    <3> HIDE DEF old, hist
    <3> QED BY Zenon, <1>1, <3>1, <3>2, SlideType, SIOPerfAssumption
  <2>2. CASE s # e.sid
    BY <1>0, <2>2 DEF PF!Remember
  <2> QED BY <2>1, <2>2
<1>4. PF!Suggested(e) \in Seq(Translations)
  <2>1. CASE PF!Predict(e) = NoSid
    BY <2>1, EmptySeq DEF PF!Suggested
  <2>2. CASE PF!Predict(e) # NoSid
    <3>1. PF!Predict(e) \in seen
      BY <1>0, <2>2 DEF PF!Predict
    <3> HIDE DEF hist, seen
    <3> QED BY <1>3, <2>2, <3>1 DEF PF!Suggested, hist
  <2> QED BY <2>1, <2>2
<1>5. /\ table'.history = hist
      /\ table'.nsid = PF!Learn(e)
      /\ table'.sidhist = PF!Slide(table.sidhist, PrefetchCfg.assoc, e.sid)
      /\ table'.prev = PF!NextPrev(e)
  BY DEF PF!Probe
<1>6. \A s \in DOMAIN PF!Learn(e) : PF!Learn(e)[s] \in seen \cup {e.sid}
  BY <1>0 DEF PF!Learn
<1>7. PF!Slide(table.sidhist, PrefetchCfg.assoc, e.sid) \in Seq(seen \cup {e.sid})
  <2>1. table.sidhist \in Seq(seen \cup {e.sid})
    BY <1>0, SeqMonotonic
  <2> QED BY <2>1, SlideType, SIOPerfAssumption
<1>8. PF!NextPrev(e) \in seen \cup {NoSid}
  <2>1. CASE Len(table.sidhist) = PrefetchCfg.assoc
    <3>1. table.sidhist # << >>
      BY <2>1, EmptySeq, SIOPerfAssumption
    <3>2. Head(table.sidhist) \in seen
      BY <1>0, <3>1, HeadTailProperties
    <3> QED BY <2>1, <3>2 DEF PF!NextPrev
  <2>2. CASE Len(table.sidhist) # PrefetchCfg.assoc
    BY <1>0, <2>2 DEF PF!NextPrev
  <2> QED BY <2>1, <2>2
<1> HIDE DEF seen, hist
<1>9. PF!TableOK(Translations)'
  <2>1. DOMAIN table'.history = seen \cup {e.sid}
    BY <1>2, <1>5
  <2> QED BY <1>3, <1>5, <1>6, <1>7, <1>8, <2>1 DEF PF!TableOK
<1> QED BY <1>4, <1>9

-----------------------------------------------------------------------------
(* The queues.                                                             *)

\* The part of TypeOK that is about the queues.
QueuesOK ==
    /\ simevents \subseteq SimEvents
    /\ sched_cnt \in Nat
    /\ \A s \in simevents : s.ord < sched_cnt
    /\ \A s, x \in simevents : s.ord = x.ord => s = x

\* Scheduling new simevents under new numbers keeps the queues well formed,
\* whatever is removed from them.
LEMMA ScheduleQueuesOK ==
    ASSUME QueuesOK, NEW old \in SUBSET simevents, NEW ses \in SUBSET SimEvents,
           NEW n \in Nat,
           \A m \in ses : m.ord \in sched_cnt..(sched_cnt + n - 1),
           \A m, x \in ses : m.ord = x.ord => m = x,
           simevents' = old \cup ses, sched_cnt' = sched_cnt + n
    PROVE  QueuesOK'
<1>1. simevents' \subseteq SimEvents
  BY DEF QueuesOK
<1>2. sched_cnt' \in Nat
  BY DEF QueuesOK
<1>3. ASSUME NEW s \in simevents' PROVE s.ord < sched_cnt'
  <2>1. CASE s \in old
    BY <2>1 DEF QueuesOK, SimEvents
  <2>2. CASE s \in ses
    BY <2>2 DEF QueuesOK, SimEvents
  <2> QED BY <2>1, <2>2
<1>4. ASSUME NEW s \in simevents', NEW x \in simevents', s.ord = x.ord PROVE s = x
  <2>1. CASE s \in old /\ x \in old
    BY <1>4, <2>1 DEF QueuesOK
  <2>2. CASE s \in ses /\ x \in ses
    BY <1>4, <2>2
  <2>3. CASE s \in old /\ x \in ses
    <3>1. s.ord < sched_cnt /\ x.ord >= sched_cnt /\ s.ord \in Nat /\ x.ord \in Nat /\ sched_cnt \in Nat
      BY <2>3 DEF QueuesOK, SimEvents
    <3> QED BY <1>4, <3>1
  <2>4. CASE s \in ses /\ x \in old
    <3>1. x.ord < sched_cnt /\ s.ord >= sched_cnt /\ s.ord \in Nat /\ x.ord \in Nat /\ sched_cnt \in Nat
      BY <2>4 DEF QueuesOK, SimEvents
    <3> QED BY <1>4, <3>1
  <2> QED BY <2>1, <2>2, <2>3, <2>4
<1> QED BY <1>1, <1>2, <1>3, <1>4 DEF QueuesOK, SimEvents

\* A translation enters the queues: the next one of the trace.
LEMMA Entered ==
    ASSUME IInv, NEW m \in SimEvents, m.ord = sched_cnt, ~m.te.prefetch,
           m.te.id = trans_cnt + 1, m.te.ev \in TraceEvents,
           simevents' = simevents \cup {m},
           trans_cnt' = trans_cnt + 1, trans_in_flight' = trans_in_flight + 1
    PROVE  Numbered' /\ Covered'
<1>1. m \notin simevents /\ trans_cnt \in Nat /\ trans_in_flight \in Nat
  BY DEF IInv, TypeOK, SimEvents
<1>2. Pending' = Pending \cup {m} /\ m \notin Pending
  BY <1>1 DEF Pending
<1>3. Numbered'
  <2>1. \A s \in Pending : s.te.id \in 1..trans_cnt /\ s.te.ev \in TraceEvents
    BY DEF IInv, Numbered
  <2>2. \A s \in Pending' : s.te.id \in 1..trans_cnt' /\ s.te.ev \in TraceEvents
    BY <1>1, <1>2, <2>1
  <2>3. \A s \in Pending : s.te.id # m.te.id
    BY <1>1, <2>1
  <2>4. \A s, x \in Pending' : s.te.id = x.te.id => s = x
    BY <1>2, <2>3 DEF IInv, Numbered
  <2> QED BY <2>2, <2>4 DEF Numbered
<1>4. Covered'
  <2>1. IsFiniteSet(Pending) /\ Cardinality(Pending) \in Nat
    BY FS_CardinalityType DEF IInv, Covered
  <2>2. IsFiniteSet(Pending') /\ Cardinality(Pending') = Cardinality(Pending) + 1
    BY <1>2, <2>1, FS_AddElement
  <2> QED BY <1>1, <2>1, <2>2 DEF IInv, Covered, OnlySmallPages
<1> QED BY <1>3, <1>4

\* A simevent moves on as m, with prefetches ses behind it: no translation is
\* lost or doubled.
LEMMA Passed ==
    ASSUME IInv, NEW s \in simevents, NEW m, Follows(m, s.te),
           NEW ses, \A x \in ses : x.te.prefetch,
           simevents' = (simevents \ {s}) \cup ({m} \cup ses),
           trans_cnt' = trans_cnt, trans_in_flight' = trans_in_flight
    PROVE  Numbered' /\ Covered'
<1>1. m \notin simevents /\ m.te.prefetch = s.te.prefetch /\ m.te.id = s.te.id
      /\ m.te.ev = s.te.ev
  BY DEF IInv, TypeOK, Follows, SimEvents
<1>2. CASE s.te.prefetch
  <2>1. Pending' = Pending
    BY <1>1, <1>2 DEF Pending
  <2> QED BY <2>1 DEF IInv, Numbered, Covered
<1>3. CASE ~s.te.prefetch
  <2>1. s \in Pending /\ m \notin Pending
    BY <1>1, <1>3 DEF Pending
  <2>2. Pending' = (Pending \ {s}) \cup {m}
    BY <1>1, <1>3 DEF Pending
  <2>3. Numbered'
    BY <1>1, <2>1, <2>2 DEF IInv, Numbered
  <2>4. Covered'
    <3>1. IsFiniteSet(Pending) /\ Cardinality(Pending) \in Nat
      BY FS_CardinalityType DEF IInv, Covered
    <3>2. /\ IsFiniteSet(Pending \ {s})
          /\ Cardinality(Pending \ {s}) = Cardinality(Pending) - 1
      BY <2>1, <3>1, FS_RemoveElement
    <3>3. m \notin Pending \ {s}
      BY <2>1
    <3> DEFINE rest == Pending \ {s}
    <3>4. Pending' = rest \cup {m}
      BY <2>2
    <3>5. /\ IsFiniteSet(rest \cup {m})
          /\ Cardinality(rest \cup {m}) = Cardinality(rest) + 1
      <4>1. IsFiniteSet(rest) /\ m \notin rest
        BY <3>2, <3>3
      <4> HIDE DEF rest
      <4> QED BY <4>1, FS_AddElement
    <3>6. IsFiniteSet(Pending') /\ Cardinality(Pending') = Cardinality(Pending)
      BY <3>1, <3>2, <3>4, <3>5
    <3> QED BY <3>6 DEF IInv, Covered
  <2> QED BY <2>3, <2>4
<1> QED BY <1>2, <1>3

\* A simevent leaves the queues and nothing follows it: the counter keeps
\* covering the rest if it goes down with a translation that has completed, or
\* if what left was a prefetch, or a page the assumption excludes.
LEMMA Removed ==
    ASSUME IInv, NEW s \in simevents, simevents' = simevents \ {s},
           trans_cnt' = trans_cnt,
           \/ ~s.te.prefetch /\ trans_in_flight' = trans_in_flight - 1
           \/ s.te.prefetch /\ trans_in_flight' = trans_in_flight
           \/ ~OnlySmallPages /\ trans_in_flight' = trans_in_flight
    PROVE  Numbered' /\ Covered' /\ trans_in_flight' \in Nat
<1>1. /\ IsFiniteSet(Pending) /\ Cardinality(Pending) \in Nat
      /\ trans_in_flight \in Nat /\ Cardinality(Pending) <= trans_in_flight
  BY FS_CardinalityType DEF IInv, Covered, TypeOK
<1>2. Pending' = Pending \ {s}
  BY DEF Pending
<1>3. Numbered'
  BY <1>2 DEF IInv, Numbered
<1>4. CASE ~s.te.prefetch
  <2>1. s \in Pending
    BY <1>4 DEF Pending
  <2>2. IsFiniteSet(Pending') /\ Cardinality(Pending') = Cardinality(Pending) - 1
    BY <1>1, <1>2, <2>1, FS_RemoveElement
  <2>3. Cardinality(Pending) # 0
    BY <1>1, <2>1, FS_EmptySet
  <2>4. OnlySmallPages => Cardinality(Pending) = trans_in_flight
    BY DEF IInv, Covered
  <2> QED BY <1>1, <1>3, <1>4, <2>2, <2>3, <2>4 DEF Covered, OnlySmallPages
<1>5. CASE s.te.prefetch
  <2>1. trans_in_flight' = trans_in_flight
    BY <1>5
  <2>2. s \notin Pending
    BY <1>5 DEF Pending
  <2>3. Pending' = Pending
    BY <1>2, <2>2
  <2> QED BY <1>1, <1>3, <2>1, <2>3 DEF IInv, Covered
<1> QED BY <1>4, <1>5

-----------------------------------------------------------------------------
(* The actions.                                                            *)

PcOK == pc \in {"setup", "packet", "read", "drain", "tick", "done", "error"} \cup DOMAIN StageAfter
CountersOK ==
    /\ {simtime, pkt_i, trans_cnt, trans_in_flight, pkt_drop_cnt} \subseteq Nat
    /\ trace_ended \in BOOLEAN
FlowsOK == \A d \in DOMAIN flowstat : flowstat[d] \in [trans : Nat, first : Nat, last : Nat]

LEMMA TypeParts ==
    TypeOK <=> PcOK /\ CountersOK /\ QueuesOK /\ FlowsOK /\ PF!TableOK(Translations)
BY DEF TypeOK, PcOK, CountersOK, QueuesOK, FlowsOK, SimEvents

\* A step that leaves the queues, the tables and the flows alone has only the
\* program counter and the other counters to get right.
LEMMA QuietStep ==
    ASSUME IInv, UNCHANGED <<queues, flowstat, table, trans_cnt, trans_in_flight>>,
           PcOK', CountersOK', Admitted'
    PROVE  IInv'
<1>1. PF!TableOK(Translations)'
  BY DEF IInv, TypeOK, PF!TableOK
<1>2. QueuesOK' /\ FlowsOK'
  BY TypeParts DEF IInv, QueuesOK, FlowsOK, queues
<1>3. (PcOK /\ CountersOK /\ QueuesOK /\ FlowsOK /\ PF!TableOK(Translations))' => TypeOK'
  BY TypeParts, PTL
<1>4. Numbered' /\ Covered'
  BY DEF IInv, Numbered, Covered, Pending, queues
<1> QED BY <1>1, <1>2, <1>3, <1>4 DEF IInv

\* The stages of RunCycle leave the trace reader's state alone.
LEMMA StagePc ==
    ASSUME NEW q, q \in DOMAIN StageAfter, pc' = StageAfter[q]
    PROVE  PcOK' /\ pc' # "read"
BY DEF PcOK, StageAfter

LEMMA QuietActions ==
    ASSUME IInv,
           \/ SetupEnv \/ SetupEnvFails
           \/ SkipSlot \/ DropPacket \/ OpenPacket
           \/ ReadEof \/ ReadUnknown \/ DrainOn \/ DrainDone \/ EndCycle
           \/ \E q \in DOMAIN StageAfter : Idle(q)
           \/ UNCHANGED vars
    PROVE  IInv'
<1> USE DEF counters, queues, caches
<1>0. PcOK /\ CountersOK /\ Admitted
  BY TypeParts DEF IInv
<1>1. CASE SetupEnv \/ SetupEnvFails \/ SkipSlot \/ ReadUnknown \/ DrainOn \/ DrainDone
  <2>1. /\ UNCHANGED <<counters, queues, caches>>
        /\ pc' \in {"packet", "error", "cc_fill", "done"}
    BY <1>1 DEF SetupEnv, SetupEnvFails, SkipSlot, ReadUnknown, DrainOn, DrainDone
  <2> QED BY <1>0, <2>1, QuietStep DEF PcOK, CountersOK, Admitted, StageAfter
<1>2. CASE DropPacket
  BY <1>0, <1>2, QuietStep DEF DropPacket, PcOK, CountersOK, Admitted, StageAfter
<1>3. CASE OpenPacket
  <2>1. PcOK' /\ CountersOK'
    BY <1>0, <1>3 DEF OpenPacket, PcOK, CountersOK
  <2>2. Admitted'
    BY <1>0, <1>3, SIOPerfAssumption DEF OpenPacket, HasRoom, Admitted, CountersOK
  <2> QED BY <1>3, <2>1, <2>2, QuietStep DEF OpenPacket
<1>4. CASE ReadEof
  BY <1>0, <1>4, QuietStep DEF ReadEof, PcOK, CountersOK, Admitted
<1>5. CASE EndCycle
  BY <1>0, <1>5, QuietStep DEF EndCycle, PcOK, CountersOK, Admitted
<1>6. CASE \E q \in DOMAIN StageAfter : Idle(q)
  <2> PICK q \in DOMAIN StageAfter : Idle(q)
    BY <1>6
  <2>1. UNCHANGED <<counters, queues, caches>> /\ pc' = StageAfter[q]
    BY DEF Idle
  <2>2. PcOK' /\ pc' # "read"
    BY <2>1, StagePc
  <2> QED BY <1>0, <2>1, <2>2, QuietStep DEF CountersOK, Admitted
<1>7. CASE UNCHANGED vars
  BY <1>0, <1>7, QuietStep DEF vars, PcOK, CountersOK, Admitted
<1> QED BY <1>1, <1>2, <1>3, <1>4, <1>5, <1>6, <1>7

\* What Issue schedules: a new translation, charged no more than it waits.
Issued(e) ==
    LET lat == IF CC!IsHit(e) THEN CCHit ELSE CCMiss
        te  == [ev |-> e, id |-> trans_cnt + 1, prefetch |-> FALSE,
                start |-> simtime, end |-> simtime]
    IN  SimEvent("cc_fill", AddTransTime(te, lat), simtime + lat, sched_cnt)

LEMMA IssuedType ==
    ASSUME NEW e \in TraceEvents, IInv
    PROVE  /\ Issued(e) \in SimEvents
           /\ Issued(e).te.ev = e
           /\ Issued(e).te.id = trans_cnt + 1
           /\ ~Issued(e).te.prefetch
           /\ Issued(e).te.start < Issued(e).te.end
           /\ Issued(e).q = "cc_fill"
           /\ Issued(e).ord = sched_cnt
           /\ InTime(Issued(e))
<1> DEFINE lat == IF CC!IsHit(e) THEN CCHit ELSE CCMiss
           te  == [ev |-> e, id |-> trans_cnt + 1, prefetch |-> FALSE,
                   start |-> simtime, end |-> simtime]
           m == Issued(e)
<1>1. lat \in Nat \ {0}
  BY LatencyType
<1>2. simtime \in Nat /\ trans_cnt \in Nat /\ sched_cnt \in Nat
  BY DEF IInv, TypeOK
<1>3. /\ te \in TranslateEvents /\ te.ev = e /\ te.id = trans_cnt + 1
      /\ te.prefetch = FALSE /\ te.start = simtime /\ te.end = simtime
  BY <1>2, SIOPerfAssumption DEF TranslateEvents
<1>4. m = SimEvent("cc_fill", AddTransTime(te, lat), simtime + lat, sched_cnt)
  BY DEF Issued
<1> HIDE DEF te, lat, m
<1>5. /\ m \in SimEvents /\ m.te.ev = te.ev /\ m.te.id = te.id
      /\ m.te.prefetch = te.prefetch /\ m.te.start = te.start
      /\ m.te.end = te.end + lat /\ m.q = "cc_fill"
      /\ m.time = simtime + lat /\ m.ord = sched_cnt
  <2>1. "cc_fill" \in DOMAIN StageAfter /\ lat \in Nat /\ simtime + lat \in Nat
    BY <1>1, <1>2, StageNames
  <2>2. te \in TranslateEvents /\ sched_cnt \in Nat
    BY <1>2, <1>3
  <2> QED BY <1>4, <2>1, <2>2, LaterType
<1>6. m.te.start < m.te.end /\ InTime(m)
  BY <1>1, <1>2, <1>3, <1>5 DEF InTime
<1> QED BY <1>3, <1>5, <1>6 DEF m

LEMMA ReadTranslationStep ==
    ASSUME IInv, NEW e \in TraceEvents, ReadTranslation(e)
    PROVE  IInv'
<1> DEFINE m == Issued(e)
<1>0. PcOK /\ CountersOK /\ QueuesOK /\ FlowsOK /\ PF!TableOK(Translations) /\ Admitted
  BY TypeParts DEF IInv
<1>1. /\ m \in SimEvents /\ m.te.ev = e /\ m.te.id = trans_cnt + 1
      /\ ~m.te.prefetch /\ m.ord = sched_cnt
  BY IssuedType
<1>2. simevents' = simevents \cup {m} /\ sched_cnt' = sched_cnt + 1
  BY DEF ReadTranslation, Issue, Issued
<1> HIDE DEF m
<1>3. /\ trans_cnt' = trans_cnt + 1 /\ trans_in_flight' = trans_in_flight + 1
      /\ pkt_i' = pkt_i + 1 /\ pc = "read"
      /\ pc' = IF pkt_i' < TRANSLATIONS_PER_PKT THEN "read" ELSE "cc_fill"
      /\ UNCHANGED <<simtime, trace_ended, pkt_drop_cnt, flowstat, table>>
  BY DEF ReadTranslation
<1>4. Numbered' /\ Covered'
  BY <1>1, <1>2, <1>3, Entered
<1>5. QueuesOK'
  <2>1. sched_cnt \in Nat
    BY <1>0 DEF QueuesOK
  <2> DEFINE one == {m}
  <2>2. \A x \in one : x.ord \in sched_cnt..(sched_cnt + 1 - 1)
    BY <1>1, <2>1
  <2>3. one \in SUBSET SimEvents /\ \A x, y \in one : x.ord = y.ord => x = y
    BY <1>1
  <2>4. simevents' = simevents \cup one
    BY <1>2
  <2> HIDE DEF one
  <2> QED BY <1>0, <1>2, <2>2, <2>3, <2>4, ScheduleQueuesOK
<1>6. PcOK' /\ CountersOK' /\ FlowsOK' /\ PF!TableOK(Translations)'
  BY <1>0, <1>3 DEF PcOK, CountersOK, FlowsOK, PF!TableOK, StageAfter
<1>7. Admitted'
  BY <1>0, <1>3, SIOPerfAssumption DEF Admitted, CountersOK
<1>8. (PcOK /\ CountersOK /\ QueuesOK /\ FlowsOK /\ PF!TableOK(Translations))' => TypeOK'
  BY TypeParts, PTL
<1> QED BY <1>4, <1>5, <1>6, <1>7, <1>8 DEF IInv

\* A stage serves the head of its queue.
LEMMA Served ==
    ASSUME IInv, NEW q \in DOMAIN StageAfter, NEW s, Serve(q, s)
    PROVE  /\ s \in simevents /\ s \in SimEvents /\ s.te \in TranslateEvents
           /\ s.q = q /\ s.time <= simtime
           /\ PcOK' /\ pc' # "read"
<1>1. s \in simevents /\ s.q = q /\ s.time <= simtime /\ pc' = StageAfter[q]
  BY DEF Serve, Ready
<1>2. s \in SimEvents
  BY <1>1, TypeParts DEF IInv, QueuesOK
<1> QED BY <1>1, <1>2, StagePc DEF SimEvents

LEMMA CCFillStep ==
    ASSUME IInv, NEW s \in simevents, CCFill(s)
    PROVE  IInv'
<1> DEFINE m == LookedUp(s.te)
           ses == Prefetches(s.te.ev)
           n == Len(PF!Suggested(s.te.ev))
<1>0. PcOK /\ CountersOK /\ QueuesOK /\ FlowsOK /\ PF!TableOK(Translations) /\ Admitted
  BY TypeParts DEF IInv
<1>1. /\ s \in simevents /\ s.te \in TranslateEvents /\ s.te.ev \in Translations
      /\ PcOK' /\ pc' # "read" /\ simtime \in Nat /\ sched_cnt \in Nat
  <2>1. Serve("cc_fill", s)
    BY DEF CCFill
  <2> QED BY <1>0, <2>1, StageNames, Served DEF CountersOK, QueuesOK, TranslateEvents
<1>2. /\ PF!Probe(s.te.ev) /\ UNCHANGED counters
      /\ simevents' = (simevents \ {s}) \cup ({m} \cup ses)
      /\ sched_cnt' = sched_cnt + (1 + n)
  BY DEF CCFill, Reschedule
<1>3. PF!Suggested(s.te.ev) \in Seq(Translations) /\ PF!TableOK(Translations)'
  BY <1>0, <1>1, <1>2, ProbeTable
<1>4. n \in Nat
  BY <1>3, LenProperties
<1>5. Follows(m, s.te)
  BY <1>1, LookedUpFollows
<1>6. \A x \in ses : /\ x \in SimEvents /\ x.te.prefetch
                     /\ x.ord \in (sched_cnt + 1)..(sched_cnt + n)
                     /\ \A y \in ses : y.ord = x.ord => y = x
  BY <1>1, <1>3, PrefetchesType
<1> HIDE DEF m, ses, n
<1>7. UNCHANGED <<trans_cnt, trans_in_flight, flowstat>>
  BY <1>2 DEF counters
<1>8. Numbered' /\ Covered'
  BY <1>1, <1>2, <1>5, <1>6, <1>7, Passed
<1>9. QueuesOK'
  <2> DEFINE all == {m} \cup ses
  <2>1. all \in SUBSET SimEvents /\ 1 + n \in Nat
    BY <1>4, <1>5, <1>6 DEF Follows
  <2>2. \A x \in all : x.ord \in sched_cnt..(sched_cnt + (1 + n) - 1)
    BY <1>1, <1>4, <1>5, <1>6 DEF Follows
  <2>3. \A x, y \in all : x.ord = y.ord => x = y
    BY <1>1, <1>4, <1>5, <1>6 DEF Follows
  <2>4. simevents' = (simevents \ {s}) \cup all
    BY <1>2
  <2> HIDE DEF all
  <2> QED BY <1>0, <1>2, <2>1, <2>2, <2>3, <2>4, ScheduleQueuesOK
<1>10. CountersOK' /\ FlowsOK' /\ Admitted'
  BY <1>0, <1>1, <1>2, <1>7 DEF CountersOK, FlowsOK, Admitted, counters
<1>11. (PcOK /\ CountersOK /\ QueuesOK /\ FlowsOK /\ PF!TableOK(Translations))' => TypeOK'
  BY TypeParts, PTL
<1> QED BY <1>1, <1>3, <1>8, <1>9, <1>10, <1>11 DEF IInv

\* A stage that passes its translation on under the next number, or loses it,
\* and touches neither the counters nor the tables.
LEMMA PassingStep ==
    ASSUME IInv, NEW q \in DOMAIN StageAfter, NEW s \in simevents, Serve(q, s),
           NEW ses, Reschedule(s, ses, 1), UNCHANGED <<counters, table>>,
           \A m \in ses : Follows(m, s.te),
           ses = {} \/ \E m : ses = {m},
           ses = {} => s.te.prefetch \/ ~OnlySmallPages
    PROVE  IInv'
<1>0. PcOK /\ CountersOK /\ QueuesOK /\ FlowsOK /\ PF!TableOK(Translations) /\ Admitted
  BY TypeParts DEF IInv
<1>1. s \in simevents /\ PcOK' /\ pc' # "read"
  BY Served
<1>2. /\ simevents' = (simevents \ {s}) \cup ses /\ sched_cnt' = sched_cnt + 1
      /\ UNCHANGED <<trans_cnt, trans_in_flight, flowstat, table>>
  BY DEF Reschedule, counters
<1>3. QueuesOK'
  <2>1. sched_cnt \in Nat
    BY <1>0 DEF QueuesOK
  <2>2. ses \in SUBSET SimEvents /\ \A x \in ses : x.ord \in sched_cnt..(sched_cnt + 1 - 1)
    BY <2>1 DEF Follows
  <2>3. \A x, y \in ses : x.ord = y.ord => x = y
    OBVIOUS
  <2> QED BY <1>0, <1>2, <2>2, <2>3, ScheduleQueuesOK
<1>4. Numbered' /\ Covered'
  <2>1. CASE ses = {}
    <3>1. simevents' = simevents \ {s}
      BY <1>2, <2>1
    <3> QED BY <1>1, <1>2, <2>1, <3>1, Removed
  <2>2. CASE \E m : ses = {m}
    <3> PICK m : ses = {m}
      BY <2>2
    <3> DEFINE none == {}
    <3>1. Follows(m, s.te) /\ simevents' = (simevents \ {s}) \cup ({m} \cup none)
      BY <1>2
    <3>2. \A x \in none : x.te.prefetch
      OBVIOUS
    <3> HIDE DEF none
    <3> QED BY <1>1, <1>2, <3>1, <3>2, Passed
  <2> QED BY Zenon, <2>1, <2>2
<1>5. CountersOK' /\ FlowsOK' /\ Admitted' /\ PF!TableOK(Translations)'
  BY <1>0, <1>1, <1>2 DEF CountersOK, FlowsOK, Admitted, PF!TableOK, counters
<1>6. (PcOK /\ CountersOK /\ QueuesOK /\ FlowsOK /\ PF!TableOK(Translations))' => TypeOK'
  BY TypeParts, PTL
<1> QED BY <1>1, <1>3, <1>4, <1>5, <1>6 DEF IInv

LEMMA PCacheTransStep ==
    ASSUME IInv, NEW s \in simevents, PCacheTrans(s)
    PROVE  IInv'
<1>1. /\ Serve("pcache_trans", s) /\ Reschedule(s, Walked(s.te), 1)
      /\ UNCHANGED <<counters, table>> /\ "pcache_trans" \in DOMAIN StageAfter
  BY StageNames DEF PCacheTrans
<1>2. s.te \in TranslateEvents /\ simtime \in Nat /\ sched_cnt \in Nat
  BY <1>1, Served, TypeParts DEF IInv, CountersOK, QueuesOK
<1>3. /\ \A m \in Walked(s.te) : Follows(m, s.te)
      /\ Walked(s.te) = {} \/ \E m : Walked(s.te) = {m}
      /\ s.te.ev.lvl \in {1, 2} => Walked(s.te) # {}
  BY <1>2, WalkedFollows
<1>4. ASSUME ~s.te.prefetch, OnlySmallPages PROVE s.te.ev.lvl \in {1, 2}
  <2>1. s.te.ev \in TraceEvents
    BY <1>4 DEF IInv, Numbered, Pending
  <2> QED BY <1>4, <2>1 DEF OnlySmallPages
<1> QED BY <1>1, <1>3, <1>4, PassingStep

LEMMA PCacheFillStep ==
    ASSUME IInv, NEW s \in simevents, PCacheFill(s)
    PROVE  IInv'
<1>1. /\ Serve("pcache_fill", s) /\ Reschedule(s, {Filled(s.te)}, 1)
      /\ UNCHANGED <<counters, table>> /\ "pcache_fill" \in DOMAIN StageAfter
  BY StageNames DEF PCacheFill, Filled
<1>2. s.te \in TranslateEvents /\ simtime \in Nat /\ sched_cnt \in Nat
  BY <1>1, Served, TypeParts DEF IInv, CountersOK, QueuesOK
<1>3. Follows(Filled(s.te), s.te)
  BY <1>2, FilledFollows
<1> DEFINE ses == {Filled(s.te)}
<1>4. /\ Reschedule(s, ses, 1) /\ \A m \in ses : Follows(m, s.te)
      /\ ses # {} /\ \E m : ses = {m}
  BY <1>1, <1>3
<1> HIDE DEF ses
<1> QED BY <1>1, <1>4, PassingStep

\* The queues after a simevent leaves them for good.
LEMMA LeavingQueuesOK ==
    ASSUME QueuesOK, NEW s, Reschedule(s, {}, 0)
    PROVE  QueuesOK' /\ simevents' = simevents \ {s}
<1>1. simevents' = simevents \ {s} /\ sched_cnt' = sched_cnt
  BY DEF Reschedule, QueuesOK
<1> QED BY <1>1 DEF QueuesOK

LEMMA PrefetchArrivesStep ==
    ASSUME IInv, NEW s \in simevents, PrefetchArrives(s)
    PROVE  IInv'
<1>0. PcOK /\ CountersOK /\ QueuesOK /\ FlowsOK /\ PF!TableOK(Translations) /\ Admitted
  BY TypeParts DEF IInv
<1>1. s.te.prefetch /\ Reschedule(s, {}, 0) /\ UNCHANGED <<counters, table>>
  BY DEF PrefetchArrives
<1>2. PcOK' /\ pc' # "read"
  BY StageNames, Served DEF PrefetchArrives
<1>3. QueuesOK' /\ simevents' = simevents \ {s}
  BY <1>0, <1>1, LeavingQueuesOK
<1>4. UNCHANGED <<trans_cnt, trans_in_flight, flowstat>>
  BY <1>1 DEF counters
<1>5. Numbered' /\ Covered'
  BY <1>1, <1>3, <1>4, Removed
<1>6. CountersOK' /\ FlowsOK' /\ Admitted' /\ PF!TableOK(Translations)'
  BY <1>0, <1>1, <1>2 DEF CountersOK, FlowsOK, Admitted, PF!TableOK, counters
<1>7. (PcOK /\ CountersOK /\ QueuesOK /\ FlowsOK /\ PF!TableOK(Translations))' => TypeOK'
  BY TypeParts, PTL
<1> QED BY <1>2, <1>3, <1>5, <1>6, <1>7 DEF IInv

LEMMA UpdateStatOK ==
    ASSUME FlowsOK, NEW te \in TranslateEvents, UpdateStat(te)
    PROVE  FlowsOK'
<1> DEFINE d == te.ev.did
           Flow == [trans : Nat, first : Nat, last : Nat]
<1>1. NewFlow(te) \in Flow
  BY DEF NewFlow, TranslateEvents
<1>2. \A fs \in Flow : FlowStat(fs, te) \in Flow
  BY DEF FlowStat, TranslateEvents
<1>3. /\ DOMAIN flowstat' = DOMAIN flowstat \cup {d}
      /\ \A x \in DOMAIN flowstat' :
             flowstat'[x] \in {flowstat[x], NewFlow(te)} \cup
                                  {FlowStat(flowstat[y], te) : y \in DOMAIN flowstat \cap {d}}
             /\ (x # d => flowstat'[x] = flowstat[x])
             /\ (x = d /\ d \notin DOMAIN flowstat => flowstat'[x] = NewFlow(te))
             /\ (x = d /\ d \in DOMAIN flowstat => flowstat'[x] = FlowStat(flowstat[d], te))
  BY DEF UpdateStat
<1> QED BY <1>1, <1>2, <1>3 DEF FlowsOK

LEMMA TranslationDoneStep ==
    ASSUME IInv, NEW s \in simevents, TranslationDone(s)
    PROVE  IInv'
<1>0. PcOK /\ CountersOK /\ QueuesOK /\ FlowsOK /\ PF!TableOK(Translations) /\ Admitted
  BY TypeParts DEF IInv
<1>1. /\ ~s.te.prefetch /\ Reschedule(s, {}, 0) /\ UpdateStat(s.te)
      /\ trans_in_flight' = trans_in_flight - 1
      /\ UNCHANGED <<simtime, pkt_i, trace_ended, trans_cnt, pkt_drop_cnt, table>>
  BY DEF TranslationDone
<1>2. PcOK' /\ pc' # "read" /\ s.te \in TranslateEvents
  BY StageNames, Served DEF TranslationDone
<1>3. QueuesOK' /\ simevents' = simevents \ {s}
  BY <1>0, <1>1, LeavingQueuesOK
<1>4. Numbered' /\ Covered' /\ trans_in_flight' \in Nat
  BY <1>1, <1>3, Removed
<1>5. FlowsOK'
  BY <1>0, <1>1, <1>2, UpdateStatOK
<1>6. CountersOK' /\ PF!TableOK(Translations)'
  BY <1>0, <1>1, <1>4 DEF CountersOK, PF!TableOK
<1>7. Admitted'
  BY <1>0, <1>1, <1>2, <1>4, SIOPerfAssumption DEF Admitted, CountersOK
<1>8. (PcOK /\ CountersOK /\ QueuesOK /\ FlowsOK /\ PF!TableOK(Translations))' => TypeOK'
  BY TypeParts, PTL
<1> QED BY <1>2, <1>3, <1>4, <1>5, <1>6, <1>7, <1>8 DEF IInv

-----------------------------------------------------------------------------
(* The theorems.                                                           *)

LEMMA InitIInv == Init => IInv
<1> SUFFICES ASSUME Init PROVE IInv
  OBVIOUS
<1>1. Pending = {}
  BY DEF Init, Pending
<1>2. TypeOK
  <2>1. PF!TableOK(Translations)
    BY EmptySeq DEF Init, PF!Init, PF!TableOK
  <2>2. PcOK /\ CountersOK
    <3>1. /\ pc = "setup" /\ trace_ended = FALSE
          /\ simtime = 0 /\ pkt_i = 0 /\ trans_cnt = 0
          /\ trans_in_flight = 0 /\ pkt_drop_cnt = 0
      BY DEF Init
    <3>2. PcOK
      BY <3>1 DEF PcOK
    <3>3. {simtime, pkt_i, trans_cnt, trans_in_flight, pkt_drop_cnt} \subseteq Nat
      BY <3>1
    <3>4. trace_ended \in BOOLEAN
      BY <3>1
    <3> QED BY <3>2, <3>3, <3>4 DEF CountersOK
  <2>3. QueuesOK
    BY DEF Init, QueuesOK
  <2>4. FlowsOK
    BY DEF Init, FlowsOK
  <2> QED BY <2>1, <2>2, <2>3, <2>4, TypeParts
<1>3. Numbered /\ Covered
  BY <1>1, FS_EmptySet DEF Init, Numbered, Covered
<1>4. Admitted
  BY SIOPerfAssumption DEF Init, Admitted
<1> QED BY <1>2, <1>3, <1>4 DEF IInv

LEMMA NextIInv == IInv /\ [Next]_vars => IInv'
<1> SUFFICES ASSUME IInv, [Next]_vars PROVE IInv'
  OBVIOUS
<1>1. ASSUME NEW e \in TraceEvents, ReadTranslation(e) PROVE IInv'
  BY <1>1, ReadTranslationStep
<1>2. ASSUME NEW s \in simevents, CCFill(s) PROVE IInv'
  BY <1>2, CCFillStep
<1>3. ASSUME NEW s \in simevents, PCacheTrans(s) PROVE IInv'
  BY <1>3, PCacheTransStep
<1>4. ASSUME NEW s \in simevents, PCacheFill(s) PROVE IInv'
  BY <1>4, PCacheFillStep
<1>5. ASSUME NEW s \in simevents, PrefetchArrives(s) PROVE IInv'
  BY <1>5, PrefetchArrivesStep
<1>6. ASSUME NEW s \in simevents, TranslationDone(s) PROVE IInv'
  BY <1>6, TranslationDoneStep
<1> QED BY <1>1, <1>2, <1>3, <1>4, <1>5, <1>6, QuietActions
        DEF Next, PlayIOVATrace, RunCycle

LEMMA IInvAlways == Spec => []IInv
BY InitIInv, NextIInv, PTL DEF Spec

\* The state keeps its shape: in particular the counter of pending translations
\* is never taken below zero, and no two simevents tie in a FIFO.
THEOREM TypeCorrect == Spec => []TypeOK
<1>1. IInv => TypeOK
  BY DEF IInv
<1> QED BY <1>1, IInvAlways, PTL

\* However bursty the link and slow the memory, the pending buffer never holds
\* more than its depth and the rest of one packet.
THEOREM QueueBounded == Spec => []InFlightBounded
<1>1. IInv => InFlightBounded
  BY DEF IInv, Admitted, InFlightBounded
<1> QED BY <1>1, IInvAlways, PTL

\* With 4KB and 2MB pages no translation is lost or counted twice: the counter
\* the drain loop waits for is the number of translations in the queues.
THEOREM NothingLost ==
    ASSUME OnlySmallPages
    PROVE  Spec => []InFlightAccounted
<1>1. IInv => InFlightAccounted
  BY OnlySmallPages DEF IInv, Covered, InFlightAccounted
<1> QED BY <1>1, IInvAlways, PTL

-----------------------------------------------------------------------------
(* What each action does to the queues, the flows and the time.            *)

\* A step that schedules at most the simevents of ses: nothing else joins a
\* queue, and the flows and the time stand still.
Schedules(ses) ==
    /\ simevents' \subseteq simevents \cup ses
    /\ UNCHANGED <<flowstat, simtime>>
    /\ pc # "tick"

\* A step that schedules nothing and completes no translation.
Rests ==
    /\ simevents' = simevents /\ flowstat' = flowstat
    /\ \/ simtime' = simtime /\ pc # "tick"
       \/ simtime' = simtime + 1 /\ pc = "tick"
       \/ simtime' = simtime /\ pc' = pc

\* Every step rests, issues a translation, serves one, or completes one.
LEMMA StepKinds ==
    ASSUME [Next]_vars
    PROVE  \/ Rests
           \/ \E e \in TraceEvents : ReadTranslation(e)
           \/ \E s \in simevents : \/ CCFill(s)
                                   \/ PCacheTrans(s)
                                   \/ PCacheFill(s)
                                   \/ PrefetchArrives(s)
                                   \/ TranslationDone(s)
<1> USE DEF counters, queues, caches, Rests
<1>1. CASE UNCHANGED vars
  BY <1>1 DEF vars
<1>2. CASE \/ SetupEnv \/ SetupEnvFails \/ SkipSlot \/ DropPacket \/ OpenPacket
           \/ ReadEof \/ ReadUnknown \/ DrainOn \/ DrainDone
  BY <1>2 DEF SetupEnv, SetupEnvFails, SkipSlot, DropPacket, OpenPacket,
              ReadEof, ReadUnknown, DrainOn, DrainDone
<1>3. CASE EndCycle
  BY <1>3 DEF EndCycle
<1>4. CASE \E q \in DOMAIN StageAfter : Idle(q)
  BY <1>4, StageNames DEF Idle
<1> QED BY <1>1, <1>2, <1>3, <1>4 DEF Next, PlayIOVATrace, RunCycle

LEMMA IssueSchedules ==
    ASSUME NEW e \in TraceEvents, ReadTranslation(e)
    PROVE  /\ simevents' = simevents \cup {Issued(e)}
           /\ Schedules({Issued(e)})
BY DEF ReadTranslation, Issue, Issued, Schedules

\* What a stage leaves in the queues for the simevent s it has served: the same
\* translation, later and charged no more than it waits, or prefetches.
Continues(x, s) ==
    \/ Follows(x, s.te) /\ (InTime(s) => InTime(x))
    \/ x.te.prefetch /\ x.q = "pcache_trans" /\ InTime(x)

\* A translation is not lost on the way, if its page is small.
GoesOn(s, ses) ==
    OnlySmallPages /\ ~s.te.prefetch => \E x \in ses : Follows(x, s.te)

LEMMA StageSchedules ==
    ASSUME IInv, NEW s \in simevents,
           CCFill(s) \/ PCacheTrans(s) \/ PCacheFill(s) \/ PrefetchArrives(s)
    PROVE  \E ses : /\ simevents' = (simevents \ {s}) \cup ses
                    /\ Schedules(ses)
                    /\ \A x \in ses : Continues(x, s)
                    /\ GoesOn(s, ses)
<1>0. simtime \in Nat /\ sched_cnt \in Nat /\ PF!TableOK(Translations)
  BY DEF IInv, TypeOK
<1>1. ASSUME NEW q \in DOMAIN StageAfter, Serve(q, s)
      PROVE  /\ s.te \in TranslateEvents /\ s.te.end \in Nat /\ s.time \in Nat
             /\ s.q = q /\ s.time <= simtime /\ pc = q /\ pc # "tick"
  <2>1. s.te \in TranslateEvents /\ s \in SimEvents /\ s.q = q /\ s.time <= simtime
    BY <1>1, Served
  <2> QED BY <1>1, <2>1, StageNames DEF SimEvents, TranslateEvents, Serve
<1> USE DEF Schedules, Reschedule, counters
<1>2. CASE CCFill(s)
  <2> DEFINE ses == {LookedUp(s.te)} \cup Prefetches(s.te.ev)
  <2>1. /\ s.te \in TranslateEvents /\ s.te.end \in Nat /\ s.time \in Nat
        /\ s.q = "cc_fill" /\ s.time <= simtime /\ pc # "tick"
    BY <1>1, <1>2, StageNames DEF CCFill
  <2>2. s.te.ev \in Translations /\ PF!Suggested(s.te.ev) \in Seq(Translations)
    BY <1>0, <1>2, <2>1, ProbeTable DEF CCFill, TranslateEvents
  <2>3. Follows(LookedUp(s.te), s.te) /\ (InTime(s) => InTime(LookedUp(s.te)))
    BY <1>0, <2>1, LookedUpFollows DEF InTime
  <2>4. \A x \in Prefetches(s.te.ev) : x.te.prefetch /\ x.q = "pcache_trans" /\ InTime(x)
    BY <1>0, <2>2, PrefetchesType
  <2>5. (\A x \in ses : Continues(x, s)) /\ GoesOn(s, ses)
    BY <2>3, <2>4 DEF Continues, GoesOn
  <2>6. simevents' = (simevents \ {s}) \cup ses /\ UNCHANGED <<flowstat, simtime>>
    BY <1>2 DEF CCFill
  <2> HIDE DEF ses
  <2> QED BY <2>1, <2>5, <2>6
<1>3. CASE PCacheTrans(s)
  <2> DEFINE ses == Walked(s.te)
  <2>1. /\ s.te \in TranslateEvents /\ s.te.end \in Nat /\ s.time \in Nat
        /\ s.q = "pcache_trans" /\ s.time <= simtime /\ pc # "tick"
    BY <1>1, <1>3, StageNames DEF PCacheTrans
  <2>2. \A x \in ses : Continues(x, s)
    BY <1>0, <2>1, WalkedFollows DEF InTime, Continues
  <2>3. GoesOn(s, ses)
    <3>1. ASSUME OnlySmallPages, ~s.te.prefetch PROVE s.te.ev.lvl \in {1, 2}
      <4>1. s.te.ev \in TraceEvents
        BY <3>1 DEF IInv, Numbered, Pending
      <4> QED BY <3>1, <4>1 DEF OnlySmallPages
    <3> QED BY <1>0, <2>1, <3>1, WalkedFollows DEF GoesOn
  <2>4. simevents' = (simevents \ {s}) \cup ses /\ UNCHANGED <<flowstat, simtime>>
    BY <1>3 DEF PCacheTrans
  <2> HIDE DEF ses
  <2> QED BY <2>1, <2>2, <2>3, <2>4
<1>4. CASE PCacheFill(s)
  <2> DEFINE ses == {Filled(s.te)}
  <2>1. /\ s.te \in TranslateEvents /\ s.te.end \in Nat /\ s.time \in Nat
        /\ s.q = "pcache_fill" /\ s.time <= simtime /\ pc # "tick"
    BY <1>1, <1>4, StageNames DEF PCacheFill
  <2>2. InTime(s) => s.te.end <= simtime + 1
    BY <1>0, <2>1 DEF InTime
  <2>3. (\A x \in ses : Continues(x, s)) /\ GoesOn(s, ses)
    BY <1>0, <2>1, <2>2, FilledFollows DEF Continues, GoesOn
  <2>4. simevents' = (simevents \ {s}) \cup ses /\ UNCHANGED <<flowstat, simtime>>
    BY <1>4 DEF PCacheFill, Filled
  <2> HIDE DEF ses
  <2> QED BY <2>1, <2>3, <2>4
<1>5. CASE PrefetchArrives(s)
  <2> DEFINE ses == {}
  <2>1. pc # "tick" /\ simevents' = (simevents \ {s}) \cup ses /\ UNCHANGED <<flowstat, simtime>>
    BY <1>1, <1>5, StageNames DEF PrefetchArrives
  <2>2. (\A x \in ses : Continues(x, s)) /\ GoesOn(s, ses)
    BY <1>5 DEF GoesOn, PrefetchArrives
  <2> HIDE DEF ses
  <2> QED BY <2>1, <2>2
<1> QED BY <1>2, <1>3, <1>4, <1>5

\* What a completion does: the simevent leaves, and the flow is told.
LEMMA DoneSchedules ==
    ASSUME IInv, NEW s \in simevents, TranslationDone(s)
    PROVE  /\ simevents' = simevents \ {s} /\ simtime' = simtime
           /\ pc # "tick" /\ pc' = "tick"
           /\ s.te \in TranslateEvents /\ ~s.te.prefetch
           /\ InTime(s) => s.te.end <= simtime + 1
           /\ UpdateStat(s.te)
<1>1. Serve("iotlb_fill", s) /\ "iotlb_fill" \in DOMAIN StageAfter
  BY StageNames DEF TranslationDone
<1>2. s.te \in TranslateEvents /\ s \in SimEvents /\ s.q = "iotlb_fill" /\ s.time <= simtime
  BY <1>1, Served
<1>3. s.te.end \in Nat /\ s.time \in Nat /\ simtime \in Nat
  BY <1>2 DEF IInv, TypeOK, SimEvents, TranslateEvents
<1>4. InTime(s) => s.te.end <= simtime + 1
  BY <1>2, <1>3 DEF InTime
<1> QED BY <1>1, <1>2, <1>4 DEF TranslationDone, Reschedule, Serve, StageAfter

-----------------------------------------------------------------------------
(* Time.                                                                   *)

\* A simevent is charged no more than the time it waits for, and a translation
\* has been charged something from the moment it is in a queue.
EventsInTime ==
    \A s \in simevents : InTime(s) /\ (~s.te.prefetch => s.te.start < s.te.end)

\* The inductive invariant of the flows' times.
TimeInv == IInv /\ EventsInTime /\ FlowTimesReal

\* A flow takes a translation in: its times stay real and only widen.
LEMMA FlowTakes ==
    ASSUME FlowsOK, NEW te \in TranslateEvents, UpdateStat(te), NEW n \in Nat,
           te.start < te.end, te.end <= n,
           \A d \in DOMAIN flowstat : /\ flowstat[d].first < flowstat[d].last
                                      /\ flowstat[d].last <= n
    PROVE  /\ \A d \in DOMAIN flowstat' : /\ flowstat'[d].first < flowstat'[d].last
                                          /\ flowstat'[d].last <= n
<1>1. DOMAIN flowstat' = DOMAIN flowstat \cup {te.ev.did}
  BY DEF UpdateStat
<1>2. te.start \in Nat /\ te.end \in Nat
  BY DEF TranslateEvents
<1>3. ASSUME NEW d \in DOMAIN flowstat'
      PROVE  flowstat'[d].first < flowstat'[d].last /\ flowstat'[d].last <= n
  <2>1. CASE d # te.ev.did
    <3>1. d \in DOMAIN flowstat /\ flowstat'[d] = flowstat[d]
      BY <1>1, <2>1 DEF UpdateStat
    <3> QED BY <3>1
  <2>2. CASE d = te.ev.did /\ d \in DOMAIN flowstat
    <3>1. flowstat'[d] = FlowStat(flowstat[d], te)
      BY <2>2 DEF UpdateStat
    <3>2. flowstat[d].first \in Nat /\ flowstat[d].last \in Nat
      BY <2>2 DEF FlowsOK
    <3> QED BY <1>2, <2>2, <3>1, <3>2 DEF FlowStat
  <2>3. CASE d = te.ev.did /\ d \notin DOMAIN flowstat
    <3>1. flowstat'[d] = NewFlow(te)
      BY <1>1, <2>3 DEF UpdateStat
    <3> QED BY <3>1 DEF NewFlow
  <2> QED BY <2>1, <2>2, <2>3
<1> QED BY <1>3

\* Time and queues move on without a flow being told.
LEMMA TimesStand ==
    ASSUME TimeInv, flowstat' = flowstat,
           \/ simtime' = simtime /\ pc # "tick"
           \/ simtime' = simtime + 1 /\ pc = "tick"
           \/ simtime' = simtime /\ pc' = pc
    PROVE  FlowTimesReal'
<1>1. simtime \in Nat /\ \A d \in DOMAIN flowstat : flowstat[d].last \in Nat
  BY TypeParts DEF TimeInv, IInv, CountersOK, FlowsOK
<1>2. \A d \in DOMAIN flowstat :
          /\ flowstat[d].first < flowstat[d].last
          /\ flowstat[d].last <= simtime + IF pc = "tick" THEN 1 ELSE 0
  BY DEF TimeInv, FlowTimesReal
<1>3. \A d \in DOMAIN flowstat :
          flowstat[d].last <= simtime' + IF pc' = "tick" THEN 1 ELSE 0
  BY <1>1, <1>2
<1> QED BY <1>2, <1>3 DEF FlowTimesReal

LEMMA NextTimeInv == TimeInv /\ [Next]_vars => TimeInv'
<1> SUFFICES ASSUME TimeInv, [Next]_vars PROVE TimeInv'
  OBVIOUS
<1>0. IInv /\ IInv' /\ EventsInTime /\ FlowTimesReal
  BY NextIInv DEF TimeInv
<1>1. CASE Rests
  <2>1. EventsInTime'
    BY <1>0, <1>1 DEF EventsInTime, Rests, InTime
  <2> QED BY <1>0, <1>1, <2>1, TimesStand DEF TimeInv, Rests
<1>2. ASSUME NEW e \in TraceEvents, ReadTranslation(e) PROVE TimeInv'
  <2>1. /\ simevents' = simevents \cup {Issued(e)} /\ UNCHANGED <<flowstat, simtime>>
        /\ pc # "tick"
    BY <1>2, IssueSchedules DEF Schedules
  <2>2. Issued(e).te.start < Issued(e).te.end /\ InTime(Issued(e))
    BY <1>0, IssuedType
  <2>3. EventsInTime'
    BY <1>0, <2>1, <2>2 DEF EventsInTime, InTime
  <2> QED BY <1>0, <2>1, <2>3, TimesStand DEF TimeInv
<1>3. ASSUME NEW s \in simevents,
             CCFill(s) \/ PCacheTrans(s) \/ PCacheFill(s) \/ PrefetchArrives(s)
      PROVE  TimeInv'
  <2>1. PICK ses : /\ simevents' = (simevents \ {s}) \cup ses
                   /\ Schedules(ses)
                   /\ \A x \in ses : Continues(x, s)
    BY <1>0, <1>3, StageSchedules
  <2>2. s \in SimEvents
    BY <1>0, TypeParts DEF IInv, QueuesOK
  <2>3. ASSUME NEW x \in ses
        PROVE  InTime(x) /\ (~x.te.prefetch => x.te.start < x.te.end)
    <3>1. CASE Follows(x, s.te) /\ (InTime(s) => InTime(x))
      <4>1. /\ s.te.start \in Nat /\ s.te.end \in Nat /\ x.te.end \in Nat
            /\ x.te.prefetch = s.te.prefetch /\ x.te.start = s.te.start
            /\ x.te.end > s.te.end
        BY <2>2, <3>1 DEF SimEvents, TranslateEvents, Follows
      <4>2. InTime(s) /\ (~s.te.prefetch => s.te.start < s.te.end)
        BY <1>0 DEF EventsInTime
      <4> QED BY <3>1, <4>1, <4>2
    <3>2. CASE x.te.prefetch /\ x.q = "pcache_trans" /\ InTime(x)
      BY <3>2
    <3> QED BY <2>1, <3>1, <3>2 DEF Continues
  <2>4. EventsInTime'
    BY <1>0, <2>1, <2>3 DEF EventsInTime, InTime
  <2> QED BY <1>0, <2>1, <2>4, TimesStand DEF TimeInv, Schedules
<1>4. ASSUME NEW s \in simevents, TranslationDone(s) PROVE TimeInv'
  <2>1. /\ simevents' = simevents \ {s} /\ simtime' = simtime
        /\ pc # "tick" /\ pc' = "tick"
        /\ s.te \in TranslateEvents /\ ~s.te.prefetch
        /\ InTime(s) => s.te.end <= simtime + 1
        /\ UpdateStat(s.te)
    BY <1>0, <1>4, DoneSchedules
  <2>2. EventsInTime' /\ s.te.start < s.te.end /\ s.te.end <= simtime + 1
    BY <1>0, <2>1 DEF EventsInTime, InTime
  <2>3. simtime \in Nat /\ FlowsOK
    BY <1>0, TypeParts DEF IInv, CountersOK
  <2>4. \A d \in DOMAIN flowstat : /\ flowstat[d].first < flowstat[d].last
                                   /\ flowstat[d].last <= simtime + 1
    <3>1. \A d \in DOMAIN flowstat : flowstat[d].last \in Nat
      BY <2>3 DEF FlowsOK
    <3> QED BY <1>0, <2>1, <2>3, <3>1 DEF FlowTimesReal
  <2>5. \A d \in DOMAIN flowstat' : /\ flowstat'[d].first < flowstat'[d].last
                                    /\ flowstat'[d].last <= simtime + 1
    BY <2>1, <2>2, <2>3, <2>4, FlowTakes
  <2> QED BY <1>0, <2>1, <2>2, <2>5 DEF TimeInv, FlowTimesReal
<1> QED BY <1>1, <1>2, <1>3, <1>4, StepKinds

\* Whatever the latencies are, a flow that is reported took some time, so that
\* its bandwidth can be divided by it, and none of it lies in the future.
THEOREM FlowsTakeTime == Spec => []FlowTimesReal
<1>1. Init => TimeInv
  <2>1. Init => EventsInTime /\ FlowTimesReal
    BY DEF Init, EventsInTime, FlowTimesReal
  <2> QED BY <2>1, InitIInv DEF TimeInv
<1>2. TimeInv => FlowTimesReal
  BY DEF TimeInv
<1> QED BY <1>1, <1>2, NextTimeInv, PTL DEF Spec

\* A flow's interval and count never shrink, in whatever order translations
\* complete: an end earlier than the latest does not take it back.
THEOREM FlowsOnlyWiden == Spec => FlowsWiden
<1> DEFINE Widen ==
        \A d \in DOMAIN flowstat :
           /\ d \in DOMAIN flowstat'
           /\ flowstat'[d].first <= flowstat[d].first
           /\ flowstat'[d].last >= flowstat[d].last
           /\ flowstat'[d].trans >= flowstat[d].trans
<1>1. IInv /\ [Next]_vars => Widen
  <2> SUFFICES ASSUME IInv, [Next]_vars, NEW d \in DOMAIN flowstat
               PROVE  /\ d \in DOMAIN flowstat'
                      /\ flowstat'[d].first <= flowstat[d].first
                      /\ flowstat'[d].last >= flowstat[d].last
                      /\ flowstat'[d].trans >= flowstat[d].trans
    OBVIOUS
  <2>1. /\ flowstat[d].trans \in Nat /\ flowstat[d].first \in Nat
        /\ flowstat[d].last \in Nat
    BY TypeParts DEF IInv, FlowsOK
  <2>2. CASE UNCHANGED flowstat
    BY <2>1, <2>2
  <2>3. ASSUME NEW s \in simevents, TranslationDone(s)
        PROVE  /\ d \in DOMAIN flowstat'
               /\ flowstat'[d].first <= flowstat[d].first
               /\ flowstat'[d].last >= flowstat[d].last
               /\ flowstat'[d].trans >= flowstat[d].trans
    <3>1. UpdateStat(s.te) /\ s.te \in TranslateEvents
      BY <2>3, DoneSchedules
    <3>2. s.te.start \in Nat /\ s.te.end \in Nat
      BY <3>1 DEF TranslateEvents
    <3>3. d \in DOMAIN flowstat' /\ flowstat'[d] \in {flowstat[d], FlowStat(flowstat[d], s.te)}
      BY <3>1 DEF UpdateStat
    <3> QED BY <2>1, <3>2, <3>3 DEF FlowStat
  <2>4. CASE \E s \in simevents :
                 CCFill(s) \/ PCacheTrans(s) \/ PCacheFill(s) \/ PrefetchArrives(s)
    BY <2>2, <2>4, StageSchedules DEF Schedules
  <2>5. CASE \E e \in TraceEvents : ReadTranslation(e)
    BY <2>2, <2>5, IssueSchedules DEF Schedules
  <2> QED BY <2>2, <2>3, <2>4, <2>5, StepKinds DEF Rests
<1>2. IInv /\ [Next]_vars => [Widen]_vars
  BY <1>1
<1> QED BY <1>2, IInvAlways, PTL DEF Spec, FlowsWiden

-----------------------------------------------------------------------------
(* What SumFunction of the community modules computes: a sum over the      *)
(* domain of a function, in whatever order it takes the elements.  It is a *)
(* recursive function, so that facts about it take induction.  The         *)
(* library's induction theorems have an operator for a parameter, which    *)
(* the provers cannot instantiate; that a well-founded relation has        *)
(* minimal elements is stated for sets, and gives induction for sets.      *)

\* The least element of a set of naturals.
LEMMA LeastNat ==
    ASSUME NEW T \in SUBSET Nat, T # {}
    PROVE  \E x \in T : \A y \in T : x <= y
<1> DEFINE R == {ss \in Nat \X Nat : ss[1] < ss[2]}
<1>1. IsWellFoundedOn(R, Nat)
  BY NatLessThanWellFounded DEF OpToRel
<1> HIDE DEF R
<1>2. \E x \in T : \A y \in T : ~(<<y, x>> \in R)
  BY <1>1, WFMin
<1>3. \A x, y \in T : ~(<<y, x>> \in R) => x <= y
  BY DEF R
<1> QED BY <1>2, <1>3

\* Induction over the naturals, for a set.
LEMMA NatSetInduction ==
    ASSUME NEW S \in SUBSET Nat, 0 \in S, \A n \in S : n + 1 \in S
    PROVE  S = Nat
<1> SUFFICES ASSUME Nat \ S # {} PROVE FALSE
  OBVIOUS
<1>1. PICK x \in Nat \ S : \A y \in Nat \ S : x <= y
  BY LeastNat
<1>2. x # 0 /\ x - 1 \in Nat /\ ~(x <= x - 1) /\ x = (x - 1) + 1
  OBVIOUS
<1> QED BY <1>1, <1>2

\* Induction over the subsets of a finite set.
LEMMA SubsetInduction ==
    ASSUME NEW S, IsFiniteSet(S), NEW Q, {} \in Q,
           \A s \in SUBSET S : s # {} /\ (\A x \in s : s \ {x} \in Q) => s \in Q
    PROVE  \A s \in SUBSET S : s \in Q
<1> DEFINE P == {n \in Nat : \A s \in SUBSET S : Cardinality(s) = n => s \in Q}
<1>0. \A s \in SUBSET S : IsFiniteSet(s) /\ Cardinality(s) \in Nat
  BY FS_Subset, FS_CardinalityType
<1>1. 0 \in P
  BY <1>0, FS_EmptySet
<1>2. ASSUME NEW n \in P PROVE n + 1 \in P
  <2> SUFFICES ASSUME NEW s \in SUBSET S, Cardinality(s) = n + 1 PROVE s \in Q
    OBVIOUS
  <2>0. n \in Nat /\ n + 1 # 0
    OBVIOUS
  <2>1. s # {}
    BY <2>0, FS_EmptySet
  <2>2. ASSUME NEW x \in s PROVE s \ {x} \in Q
    <3>1. Cardinality(s \ {x}) = n
      BY <1>0, FS_RemoveElement
    <3> QED BY <3>1
  <2> QED BY <2>1, <2>2
<1> HIDE DEF P
<1>3. P = Nat
  BY <1>1, <1>2, NatSetInduction DEF P
<1> QED BY <1>0, <1>3 DEF P

Choice(s) == CHOOSE x \in s : TRUE

\* One step of the recursion of SumFunction, and what solves it on the set D.
Step(h, f, s) == IF s = {} THEN 0 ELSE f[Choice(s)] + h[s \ {Choice(s)}]
Solves(h, f, D) == h = [s \in D |-> Step(h, f, s)]

LEMMA ChoiceIn == \A s : s # {} => Choice(s) \in s
BY DEF Choice

LEMMA SolutionExists ==
    ASSUME NEW S, IsFiniteSet(S), NEW f
    PROVE  \E h : Solves(h, f, SUBSET S)
<1> DEFINE Small(n) == {s \in SUBSET S : Cardinality(s) <= n}
           P == {n \in Nat : \E h : Solves(h, f, Small(n))}
<1>0. \A s \in SUBSET S : IsFiniteSet(s) /\ Cardinality(s) \in Nat
  BY FS_Subset, FS_CardinalityType
<1>1. 0 \in P
  <2> DEFINE h == [s \in Small(0) |-> 0]
  <2>1. \A s \in Small(0) : s = {}
    BY <1>0, FS_EmptySet
  <2>2. h = [s \in Small(0) |-> Step(h, f, s)]
    BY <2>1 DEF Step
  <2> QED BY <2>2 DEF Solves
<1>2. ASSUME NEW n \in P PROVE n + 1 \in P
  <2>1. PICK h : Solves(h, f, Small(n))
    OBVIOUS
  <2> DEFINE g == [s \in Small(n + 1) |-> Step(h, f, s)]
  <2>2. \A s \in Small(n) : g[s] = h[s]
    <3>1. \A s \in Small(n) : s \in Small(n + 1)
      BY <1>0
    <3>2. \A s \in Small(n) : h[s] = Step(h, f, s)
      BY <2>1 DEF Solves
    <3> QED BY <3>1, <3>2
  <2>3. ASSUME NEW s \in Small(n + 1) PROVE Step(h, f, s) = Step(g, f, s)
    <3>1. CASE s = {}
      BY <3>1 DEF Step
    <3>2. CASE s # {}
      <4>1. Choice(s) \in s
        BY <3>2, ChoiceIn
      <4>2. s \ {Choice(s)} \in SUBSET S /\ Cardinality(s \ {Choice(s)}) = Cardinality(s) - 1
        BY <1>0, <4>1, FS_RemoveElement
      <4>3. s \ {Choice(s)} \in Small(n)
        BY <1>0, <4>2
      <4> QED BY <2>2, <3>2, <4>3 DEF Step
    <3> QED BY <3>1, <3>2
  <2>4. g = [s \in Small(n + 1) |-> Step(g, f, s)]
    BY <2>3
  <2>5. \E k : Solves(k, f, Small(n + 1))
    <3> HIDE DEF Small
    <3> QED BY <2>4 DEF Solves
  <2>6. n + 1 \in Nat
    OBVIOUS
  <2> HIDE DEF Small
  <2> QED BY <2>5, <2>6
<1>3. P = Nat
  <2> HIDE DEF P
  <2>1. P \in SUBSET Nat
    BY DEF P
  <2> QED BY <1>1, <1>2, <2>1, NatSetInduction
<1>4. Cardinality(S) \in Nat
  BY FS_CardinalityType
<1>5. Small(Cardinality(S)) = SUBSET S
  BY FS_Subset
<1>6. \E h : Solves(h, f, Small(Cardinality(S)))
  BY <1>3, <1>4
<1> QED BY <1>5, <1>6

LEMMA SumSolves ==
    ASSUME NEW f, IsFiniteSet(DOMAIN f)
    PROVE  \E h : Solves(h, f, SUBSET DOMAIN f) /\ SumFunction(f) = h[DOMAIN f]
<1> DEFINE h == CHOOSE h : Solves(h, f, SUBSET DOMAIN f)
<1>1. Solves(h, f, SUBSET DOMAIN f)
  BY SolutionExists
<1>2. SumFunction(f) = h[DOMAIN f]
  <2>1. SumFunction(f) =
            LET iter[s \in SUBSET DOMAIN f] ==
                    IF s = {} THEN 0
                    ELSE LET x == CHOOSE x \in s : TRUE IN f[x] + iter[s \ {x}]
            IN  iter[DOMAIN f]
    BY DEF SumFunction, SumFunctionOnSet, FoldFunctionOnSet, MapThenFoldSet
  <2> QED BY <2>1 DEF Solves, Step, Choice
<1> QED BY <1>1, <1>2

Agree(f, S, e, T, R) == R \subseteq S /\ R \subseteq T /\ \A x \in R : f[x] = e[x]

Same(h, g, R) == h[R] = g[R]

\* What two functions agree on sums up to the same, whatever else they map.
LEMMA SameSums ==
    ASSUME NEW f, NEW S, IsFiniteSet(S), NEW h, Solves(h, f, SUBSET S),
           NEW e, NEW T, NEW g, Solves(g, e, SUBSET T),
           NEW R, Agree(f, S, e, T, R)
    PROVE  Same(h, g, R)
<1> DEFINE Q == {s \in SUBSET R : h[s] = g[s]}
<1>1. \A s \in SUBSET R : h[s] = Step(h, f, s) /\ g[s] = Step(g, e, s)
  BY DEF Solves, Agree
<1>2. {} \in Q
  BY <1>1 DEF Step
<1>3. ASSUME NEW s \in SUBSET R, s # {}, \A x \in s : s \ {x} \in Q
      PROVE  s \in Q
  <2>1. Choice(s) \in s
    BY <1>3, ChoiceIn
  <2>2. h[s \ {Choice(s)}] = g[s \ {Choice(s)}] /\ f[Choice(s)] = e[Choice(s)]
    BY <1>3, <2>1 DEF Agree
  <2> QED BY <1>1, <1>3, <2>2 DEF Step
<1>4. IsFiniteSet(R)
  BY FS_Subset DEF Agree
<1>5. \A s \in SUBSET R : s \in Q
  <2> HIDE DEF Q
  <2> QED BY <1>2, <1>3, <1>4, SubsetInduction
<1> QED BY <1>5 DEF Same

LEMMA SumsAreNat ==
    ASSUME NEW S, IsFiniteSet(S), NEW f \in [S -> Nat], NEW h, Solves(h, f, SUBSET S)
    PROVE  \A s \in SUBSET S : h[s] \in Nat
<1> DEFINE Q == {s \in SUBSET S : h[s] \in Nat}
<1>1. \A s \in SUBSET S : h[s] = Step(h, f, s)
  BY DEF Solves
<1>2. {} \in Q
  BY <1>1 DEF Step
<1>3. ASSUME NEW s \in SUBSET S, s # {}, \A x \in s : s \ {x} \in Q
      PROVE  s \in Q
  <2>1. Choice(s) \in s
    BY <1>3, ChoiceIn
  <2>2. h[s \ {Choice(s)}] \in Nat /\ f[Choice(s)] \in Nat
    BY <1>3, <2>1
  <2>3. f[Choice(s)] + h[s \ {Choice(s)}] \in Nat
    BY <2>2
  <2>4. h[s] = f[Choice(s)] + h[s \ {Choice(s)}]
    BY <1>1, <1>3 DEF Step
  <2> QED BY <2>3, <2>4
<1>4. \A s \in SUBSET S : s \in Q
  <2> HIDE DEF Q
  <2> QED BY <1>2, <1>3, SubsetInduction
<1> QED BY <1>4

Splits(h, f, s, y) == h[s] = f[y] + h[s \ {y}]

\* The elements of the domain may be taken in any order.
LEMMA AnyFirst ==
    ASSUME NEW S, IsFiniteSet(S), NEW f \in [S -> Nat], NEW h, Solves(h, f, SUBSET S)
    PROVE  \A s \in SUBSET S : \A y \in s : Splits(h, f, s, y)
<1> DEFINE Q == {s \in SUBSET S : \A y \in s : Splits(h, f, s, y)}
<1>0. \A s \in SUBSET S : h[s] \in Nat
  BY SumsAreNat
<1>1. \A s \in SUBSET S : h[s] = Step(h, f, s)
  BY DEF Solves
<1>2. {} \in Q
  OBVIOUS
<1>3. ASSUME NEW s \in SUBSET S, s # {}, \A x \in s : s \ {x} \in Q
      PROVE  s \in Q
  <2> SUFFICES ASSUME NEW y \in s PROVE Splits(h, f, s, y)
    OBVIOUS
  <2> DEFINE x == Choice(s)
  <2>1. x \in s /\ h[s] = f[x] + h[s \ {x}]
    BY <1>1, <1>3, ChoiceIn DEF Step
  <2> HIDE DEF x
  <2>2. CASE y # x
    <3>1. h[s \ {x}] = f[y] + h[(s \ {x}) \ {y}]
      BY <1>3, <2>1, <2>2 DEF Splits
    <3>2. h[s \ {y}] = f[x] + h[(s \ {y}) \ {x}]
      BY <1>3, <2>1, <2>2 DEF Splits
    <3>3. (s \ {x}) \ {y} = (s \ {y}) \ {x} /\ (s \ {x}) \ {y} \in SUBSET S
      OBVIOUS
    <3>4. f[x] \in Nat /\ f[y] \in Nat /\ h[(s \ {x}) \ {y}] \in Nat
      BY <1>0, <2>1, <3>3
    <3>5. \A a, b, c \in Nat : a + (b + c) = b + (a + c)
      OBVIOUS
    <3>6. h[s] = f[x] + (f[y] + h[(s \ {x}) \ {y}])
      BY <2>1, <3>1
    <3>7. h[s \ {y}] = f[x] + h[(s \ {x}) \ {y}]
      BY <3>2, <3>3
    <3> QED BY <3>4, <3>5, <3>6, <3>7 DEF Splits
  <2> QED BY <2>1, <2>2 DEF Splits
<1>4. \A s \in SUBSET S : s \in Q
  <2> HIDE DEF Q
  <2> QED BY <1>2, <1>3, SubsetInduction
<1> QED BY <1>4

LEMMA SumIsNat ==
    ASSUME NEW S, IsFiniteSet(S), NEW f \in [S -> Nat]
    PROVE  SumFunction(f) \in Nat
<1>1. PICK h : Solves(h, f, SUBSET S) /\ SumFunction(f) = h[S]
  BY SumSolves
<1> QED BY <1>1, SumsAreNat

LEMMA SumOfNone ==
    ASSUME NEW f, DOMAIN f = {}
    PROVE  SumFunction(f) = 0
<1>1. IsFiniteSet({})
  BY FS_EmptySet
<1>2. PICK h : Solves(h, f, SUBSET DOMAIN f) /\ SumFunction(f) = h[DOMAIN f]
  BY <1>1, SumSolves
<1>3. h[{}] = Step(h, f, {})
  BY <1>2 DEF Solves
<1> QED BY <1>2, <1>3 DEF Step

\* A sum of zeros.
LEMMA SumOfZeros ==
    ASSUME NEW S, IsFiniteSet(S), NEW f \in [S -> {0}]
    PROVE  SumFunction(f) = 0
<1>1. PICK h : Solves(h, f, SUBSET S) /\ SumFunction(f) = h[S]
  BY SumSolves
<1> DEFINE Q == {s \in SUBSET S : h[s] = 0}
<1>2. \A s \in SUBSET S : h[s] = Step(h, f, s)
  BY <1>1 DEF Solves
<1>3. {} \in Q
  BY <1>2 DEF Step
<1>4. ASSUME NEW s \in SUBSET S, s # {}, \A x \in s : s \ {x} \in Q
      PROVE  s \in Q
  <2>1. Choice(s) \in s
    BY <1>4, ChoiceIn
  <2>2. h[s \ {Choice(s)}] = 0 /\ f[Choice(s)] = 0
    BY <1>4, <2>1
  <2> QED BY <1>2, <1>4, <2>2 DEF Step
<1>5. \A s \in SUBSET S : s \in Q
  <2> HIDE DEF Q
  <2> QED BY <1>3, <1>4, SubsetInduction
<1> QED BY <1>1, <1>5

\* Changing one value, or adding one, changes the sum by as much.
LEMMA SumChanges ==
    ASSUME NEW S, IsFiniteSet(S), NEW f \in [S -> Nat],
           NEW x, NEW g \in [S \cup {x} -> Nat],
           \A y \in S : y # x => g[y] = f[y]
    PROVE  SumFunction(g) + (IF x \in S THEN f[x] ELSE 0) = SumFunction(f) + g[x]
<1> DEFINE T == S \cup {x}
           R == S \ {x}
<1>1. IsFiniteSet(T)
  BY FS_AddElement
<1>2. PICK h : Solves(h, f, SUBSET S) /\ SumFunction(f) = h[S]
  BY SumSolves
<1>3. PICK k : Solves(k, g, SUBSET T) /\ SumFunction(g) = k[T]
  BY <1>1, SumSolves
<1>a. R \in SUBSET S /\ Agree(f, S, g, T, R)
  BY DEF Agree
<1>b. x \in T /\ T \ {x} = R /\ g \in [T -> Nat]
  OBVIOUS
<1>c. IF x \in S THEN S \ {x} = R ELSE S = R
  OBVIOUS
<1> HIDE DEF T, R
<1>4. h[R] = k[R]
  <2>1. Same(h, k, R)
    BY <1>1, <1>2, <1>3, <1>a, SameSums
  <2> QED BY <2>1 DEF Same
<1>5. k[T] = g[x] + k[R]
  <2>1. T \in SUBSET T
    OBVIOUS
  <2>2. Splits(k, g, T, x)
    BY <1>1, <1>3, <1>b, <2>1, AnyFirst
  <2> QED BY <1>b, <2>2 DEF Splits
<1>6. h[S] = (IF x \in S THEN f[x] ELSE 0) + h[R]
  <2>1. CASE x \in S
    <3>1. S \in SUBSET S
      OBVIOUS
    <3>2. Splits(h, f, S, x)
      BY <1>2, <2>1, <3>1, AnyFirst
    <3> QED BY <1>c, <2>1, <3>2 DEF Splits
  <2>2. CASE x \notin S
    <3>1. R = S /\ h[S] \in Nat
      BY <1>2, <1>c, <2>2, SumsAreNat
    <3> QED BY <2>2, <3>1
  <2> QED BY <2>1, <2>2
<1>7. h[R] \in Nat /\ g[x] \in Nat /\ (x \in S => f[x] \in Nat)
  BY <1>2, <1>a, <1>b, SumsAreNat
<1> QED BY <1>2, <1>3, <1>4, <1>5, <1>6, <1>7

-----------------------------------------------------------------------------
(* Counting.                                                               *)

TransOfFlows == [d \in DOMAIN flowstat |-> flowstat[d].trans]

\* The inductive invariant of the flows' counts.
CountInv == IInv /\ IsFiniteSet(DOMAIN flowstat) /\ FlowsConserve

LEMMA TransOfFlowsType ==
    ASSUME FlowsOK
    PROVE  TransOfFlows \in [DOMAIN flowstat -> Nat]
BY DEF FlowsOK, TransOfFlows

\* A translation that completes is counted once, in the flow of its tenant.
LEMMA FlowCounts ==
    ASSUME FlowsOK, IsFiniteSet(DOMAIN flowstat), NEW te \in TranslateEvents, UpdateStat(te)
    PROVE  /\ IsFiniteSet(DOMAIN flowstat')
           /\ SumFunction(TransOfFlows') = SumFunction(TransOfFlows) + 1
<1> DEFINE d == te.ev.did
           S == DOMAIN flowstat
           f == TransOfFlows
           g == TransOfFlows'
<1>1. DOMAIN flowstat' = S \cup {d} /\ FlowsOK'
  BY UpdateStatOK DEF UpdateStat
<1>2. IsFiniteSet(S \cup {d})
  BY FS_AddElement
<1>3. f \in [S -> Nat]
  BY TransOfFlowsType
<1>4. g \in [S \cup {d} -> Nat]
  BY <1>1 DEF FlowsOK, TransOfFlows
<1>5. \A y \in S : y # d => g[y] = f[y]
  BY <1>1 DEF UpdateStat, TransOfFlows
<1>6. g[d] = (IF d \in S THEN f[d] ELSE 0) + 1
  <2>1. CASE d \in S
    <3>1. flowstat'[d] = FlowStat(flowstat[d], te) /\ flowstat[d] \in [trans : Nat, first : Nat, last : Nat]
      BY <2>1 DEF UpdateStat, FlowsOK
    <3>2. flowstat'[d].trans = flowstat[d].trans + 1
      BY <3>1 DEF FlowStat
    <3> QED BY <1>1, <2>1, <3>2 DEF TransOfFlows
  <2>2. CASE d \notin S
    <3>1. flowstat'[d] = NewFlow(te)
      BY <1>1, <2>2 DEF UpdateStat
    <3>2. flowstat'[d].trans = 1
      BY <3>1 DEF NewFlow
    <3> QED BY <1>1, <2>2, <3>2 DEF TransOfFlows
  <2> QED BY <2>1, <2>2
<1>7. (IF d \in S THEN f[d] ELSE 0) \in Nat /\ g[d] \in Nat
  BY <1>3, <1>4
<1> HIDE DEF d, S, f, g
<1>8. SumFunction(g) + (IF d \in S THEN f[d] ELSE 0) = SumFunction(f) + g[d]
  BY <1>3, <1>4, <1>5, SumChanges DEF S
<1>9. SumFunction(f) \in Nat /\ SumFunction(g) \in Nat
  BY <1>2, <1>3, <1>4, SumIsNat DEF S
<1>10. SumFunction(g) = SumFunction(f) + 1
  BY <1>6, <1>7, <1>8, <1>9
<1> QED BY <1>1, <1>2, <1>10 DEF S, f, g

LEMMA NextCountInv == CountInv /\ [Next]_vars => CountInv'
<1> SUFFICES ASSUME CountInv, [Next]_vars PROVE CountInv'
  OBVIOUS
<1>0. IInv /\ IInv' /\ FlowsOK /\ trans_cnt \in Nat /\ trans_in_flight \in Nat
  BY NextIInv, TypeParts DEF CountInv, IInv, CountersOK
<1>1. SumFunction(TransOfFlows) + trans_in_flight = trans_cnt
  BY DEF CountInv, FlowsConserve, TransOfFlows
<1>2. SumFunction(TransOfFlows) \in Nat
  BY <1>0, TransOfFlowsType, SumIsNat DEF CountInv
<1>3. ASSUME flowstat' = flowstat, NEW n \in {0, 1},
             trans_in_flight' = trans_in_flight + n, trans_cnt' = trans_cnt + n
      PROVE  CountInv'
  <2>1. TransOfFlows' = TransOfFlows
    BY <1>3 DEF TransOfFlows
  <2>2. SumFunction(TransOfFlows') = SumFunction(TransOfFlows)
    BY <2>1
  <2>3. PICK k \in Nat : k = SumFunction(TransOfFlows)
    BY <1>2
  <2>4. k + trans_in_flight' = trans_cnt'
    <3>1. k + trans_in_flight = trans_cnt
      BY <1>1, <2>3
    <3> QED BY <1>0, <1>3, <3>1
  <2>5. SumFunction(TransOfFlows') + trans_in_flight' = trans_cnt'
    BY <2>2, <2>3, <2>4
  <2> QED BY <1>0, <1>3, <2>5 DEF CountInv, FlowsConserve, TransOfFlows
<1>4. ASSUME NEW s \in simevents, TranslationDone(s) PROVE CountInv'
  <2>1. UpdateStat(s.te) /\ s.te \in TranslateEvents
    BY <1>0, <1>4, DoneSchedules
  <2>2. trans_cnt' = trans_cnt /\ trans_in_flight' = trans_in_flight - 1
    BY <1>4 DEF TranslationDone
  <2>3. /\ IsFiniteSet(DOMAIN flowstat')
        /\ SumFunction(TransOfFlows') = SumFunction(TransOfFlows) + 1
    BY <1>0, <2>1, FlowCounts DEF CountInv
  <2>4. SumFunction(TransOfFlows') + trans_in_flight' = trans_cnt'
    BY <1>0, <1>1, <1>2, <2>2, <2>3
  <2> QED BY <1>0, <2>3, <2>4 DEF CountInv, FlowsConserve, TransOfFlows
<1>5. CASE UNCHANGED <<flowstat, trans_cnt, trans_in_flight>>
  BY <1>0, <1>3, <1>5
<1>6. ASSUME NEW e \in TraceEvents, ReadTranslation(e) PROVE CountInv'
  <2>1. trans_cnt' = trans_cnt + 1 /\ trans_in_flight' = trans_in_flight + 1
    BY <1>6 DEF ReadTranslation
  <2>2. flowstat' = flowstat
    BY <1>6 DEF ReadTranslation
  <2> QED BY <1>0, <1>3, <2>1, <2>2
<1>7. CASE UNCHANGED vars
  BY <1>5, <1>7 DEF vars, counters
<1>8. CASE \/ SetupEnv \/ SetupEnvFails \/ SkipSlot \/ DropPacket \/ OpenPacket
           \/ ReadEof \/ ReadUnknown \/ DrainOn \/ DrainDone \/ EndCycle
           \/ \E q \in DOMAIN StageAfter : Idle(q)
  BY <1>5, <1>8 DEF SetupEnv, SetupEnvFails, SkipSlot, DropPacket, OpenPacket,
              ReadEof, ReadUnknown, DrainOn, DrainDone, EndCycle, Idle, counters
<1>9. ASSUME NEW s \in simevents,
              CCFill(s) \/ PCacheTrans(s) \/ PCacheFill(s) \/ PrefetchArrives(s)
       PROVE  CountInv'
  BY <1>5, <1>9 DEF CCFill, PCacheTrans, PCacheFill, PrefetchArrives, counters
<1> QED BY <1>4, <1>6, <1>7, <1>8, <1>9 DEF Next, PlayIOVATrace, RunCycle

\* The translations of the flows and those pending are, at every moment, those
\* the trace has given: no tenant's share of the bandwidth is made up or missing.
THEOREM FlowsAreConserved == Spec => []FlowsConserve
<1>1. Init => CountInv
  <2> SUFFICES ASSUME Init PROVE CountInv
    OBVIOUS
  <2>1. DOMAIN flowstat = {} /\ trans_in_flight = 0 /\ trans_cnt = 0
    BY DEF Init
  <2>2. SumFunction(TransOfFlows) = 0 /\ IsFiniteSet(DOMAIN flowstat)
    BY <2>1, SumOfNone, FS_EmptySet DEF TransOfFlows
  <2> QED BY <2>1, <2>2, InitIInv DEF CountInv, FlowsConserve, TransOfFlows
<1>2. CountInv => FlowsConserve
  BY DEF CountInv
<1> QED BY <1>1, <1>2, NextCountInv, PTL DEF Spec

-----------------------------------------------------------------------------
(* Order.                                                                  *)

\* No prefetch waits for the context cache, and the translations that do are
\* numbered as they were scheduled.
IssuedInOrder ==
    /\ \A s \in Queued("cc_fill") : ~s.te.prefetch
    /\ \A s, x \in Queued("cc_fill") : s.ord < x.ord => s.te.id < x.te.id

\* The inductive invariant of the order of lookups.
OrderInv == IInv /\ IssuedInOrder /\ InOrderLookup

\* The head of a FIFO was scheduled before everything else in it.
LEMMA FifoHead ==
    ASSUME IInv, ~IsOOO, NEW s \in simevents, Serve("cc_fill", s),
           NEW x \in Queued("cc_fill"), x # s
    PROVE  s \in Queued("cc_fill") /\ s.ord < x.ord
<1>1. x \in simevents /\ x.q = "cc_fill" /\ s.q = "cc_fill" /\ Before(s, x)
  BY DEF Serve, Ready, Queued
<1>2. s.ord \in Nat /\ x.ord \in Nat /\ s.ord # x.ord
  BY <1>1, TypeParts DEF IInv, QueuesOK, SimEvents
<1> QED BY <1>1, <1>2 DEF Before, Queued

\* Taking simevents from the queues, and scheduling some for other queues that
\* are prefetches or follow a translation that was not waiting for the context
\* cache, or was the first to, keeps the order.
LEMMA OrderKept ==
    ASSUME OrderInv, NEW s \in simevents, NEW ses,
           simevents' \subseteq (simevents \ {s}) \cup ses,
           \A x \in ses : /\ x.q # "cc_fill"
                          /\ \/ x.te.prefetch
                             \/ x.te.id = s.te.id /\ x.te.prefetch = s.te.prefetch,
           s.q = "cc_fill" => Serve("cc_fill", s)
    PROVE  IssuedInOrder' /\ InOrderLookup'
<1>1. \A x \in Queued("cc_fill")' : x \in Queued("cc_fill") /\ x # s
  BY DEF Queued
<1>2. IssuedInOrder'
  BY <1>1 DEF OrderInv, IssuedInOrder
<1>3. ASSUME ~IsOOO, NEW a \in Queued("cc_fill")', NEW b \in (Pending \ Queued("cc_fill"))'
      PROVE  b.te.id < a.te.id
  <2>0. a \in Queued("cc_fill") /\ a # s
    BY <1>1
  <2>1. CASE b \in simevents
    <3>1. b \in Pending \ Queued("cc_fill")
      BY <1>3, <2>1 DEF Pending, Queued
    <3> QED BY <1>3, <2>0, <3>1 DEF OrderInv, InOrderLookup
  <2>2. CASE b \in ses
    <3>1. b.te.id = s.te.id /\ ~s.te.prefetch
      BY <1>3, <2>2 DEF Pending
    <3>2. CASE s.q = "cc_fill"
      <4>1. s \in Queued("cc_fill") /\ s.ord < a.ord
        BY <1>3, <2>0, <3>2, FifoHead DEF OrderInv
      <4> QED BY <2>0, <3>1, <4>1 DEF OrderInv, IssuedInOrder
    <3>3. CASE s.q # "cc_fill"
      <4>1. s \in Pending \ Queued("cc_fill")
        BY <3>1, <3>3 DEF Pending, Queued
      <4> QED BY <1>3, <2>0, <3>1, <4>1 DEF OrderInv, InOrderLookup
    <3> QED BY <3>2, <3>3
  <2>3. b \in simevents \/ b \in ses
    BY <1>3 DEF Pending
  <2> QED BY <2>1, <2>2, <2>3
<1> QED BY <1>2, <1>3 DEF InOrderLookup

\* A new translation is the last in number and in order.
LEMMA OrderIssued ==
    ASSUME OrderInv, NEW e \in TraceEvents, simevents' = simevents \cup {Issued(e)}
    PROVE  IssuedInOrder' /\ InOrderLookup'
<1> DEFINE m == Issued(e)
<1>1. /\ m \in SimEvents /\ m.te.id = trans_cnt + 1 /\ ~m.te.prefetch
      /\ m.q = "cc_fill" /\ m.ord = sched_cnt
  BY IssuedType DEF OrderInv
<1> HIDE DEF m
<1>2. /\ trans_cnt \in Nat /\ sched_cnt \in Nat
      /\ \A s \in simevents : s.ord \in Nat /\ s.ord < sched_cnt
      /\ \A s \in Pending : s.te.id \in Nat /\ s.te.id < m.te.id
  BY <1>1, TypeParts DEF OrderInv, IInv, QueuesOK, CountersOK, SimEvents, Numbered
<1>3. Queued("cc_fill")' = Queued("cc_fill") \cup {m} /\ Pending' = Pending \cup {m}
  BY <1>1 DEF Queued, Pending, m
<1>4. Queued("cc_fill") \subseteq Pending
  BY DEF OrderInv, IssuedInOrder, Queued, Pending
<1>5. \A s \in Queued("cc_fill")' : ~s.te.prefetch
  BY <1>1, <1>3 DEF OrderInv, IssuedInOrder
<1>6. ASSUME NEW s \in Queued("cc_fill")', NEW x \in Queued("cc_fill")', s.ord < x.ord
      PROVE  s.te.id < x.te.id
  <2>1. CASE x = m
    <3>1. s # m
      BY <1>1, <1>2, <1>6, <2>1
    <3> QED BY <1>2, <1>3, <1>4, <2>1, <3>1
  <2>2. CASE x # m /\ s = m
    BY <1>1, <1>2, <1>3, <1>6, <2>2 DEF Queued
  <2>3. CASE x # m /\ s # m
    BY <1>3, <1>6, <2>3 DEF OrderInv, IssuedInOrder
  <2> QED BY <2>1, <2>2, <2>3
<1>7. ASSUME ~IsOOO, NEW a \in Queued("cc_fill")', NEW b \in (Pending \ Queued("cc_fill"))'
      PROVE  b.te.id < a.te.id
  <2>1. b \in Pending \ Queued("cc_fill") /\ b # m
    BY <1>3
  <2>2. CASE a = m
    BY <1>2, <2>1, <2>2
  <2>3. CASE a # m
    BY <1>3, <1>7, <2>1, <2>3 DEF OrderInv, InOrderLookup
  <2> QED BY <2>2, <2>3
<1> QED BY <1>5, <1>6, <1>7 DEF IssuedInOrder, InOrderLookup

LEMMA NextOrderInv == OrderInv /\ [Next]_vars => OrderInv'
<1> SUFFICES ASSUME OrderInv, [Next]_vars PROVE OrderInv'
  OBVIOUS
<1>0. IInv /\ IInv'
  BY NextIInv DEF OrderInv
<1>1. CASE Rests
  <2>1. IssuedInOrder' /\ InOrderLookup'
    BY <1>1 DEF Rests, OrderInv, IssuedInOrder, InOrderLookup, Queued, Pending
  <2> QED BY <1>0, <2>1 DEF OrderInv
<1>2. CASE \E e \in TraceEvents : ReadTranslation(e)
  BY <1>0, <1>2, IssueSchedules, OrderIssued DEF OrderInv
<1>3. ASSUME NEW s \in simevents,
             CCFill(s) \/ PCacheTrans(s) \/ PCacheFill(s) \/ PrefetchArrives(s)
      PROVE  OrderInv'
  <2>1. PICK ses : /\ simevents' = (simevents \ {s}) \cup ses
                   /\ \A x \in ses : Continues(x, s)
    BY <1>0, <1>3, StageSchedules
  <2>2. \A x \in ses : /\ x.q # "cc_fill"
                       /\ x.te.prefetch \/ (x.te.id = s.te.id /\ x.te.prefetch = s.te.prefetch)
    BY <2>1 DEF Continues, Follows
  <2>3. s.q = "cc_fill" => Serve("cc_fill", s)
    BY <1>3 DEF CCFill, PCacheTrans, PCacheFill, PrefetchArrives, Serve, Ready
  <2> QED BY <1>0, <2>1, <2>2, <2>3, OrderKept DEF OrderInv
<1>4. ASSUME NEW s \in simevents, TranslationDone(s) PROVE OrderInv'
  <2> DEFINE none == {}
  <2>1. simevents' \subseteq (simevents \ {s}) \cup none
    BY <1>0, <1>4, DoneSchedules
  <2>2. s.q # "cc_fill"
    BY <1>4 DEF TranslationDone, Serve, Ready
  <2>3. \A x \in none : /\ x.q # "cc_fill"
                        /\ x.te.prefetch \/ (x.te.id = s.te.id /\ x.te.prefetch = s.te.prefetch)
    OBVIOUS
  <2> HIDE DEF none
  <2> QED BY <1>0, <2>1, <2>2, <2>3, OrderKept DEF OrderInv
<1> QED BY <1>1, <1>2, <1>3, <1>4, StepKinds

\* With FIFO queues a translation never reaches the IOTLB before an earlier one,
\* whatever the context cache answers and however its latencies compare.
THEOREM LookupsInTraceOrder == Spec => []InOrderLookup
<1>1. Init => OrderInv
  <2>1. Init => IssuedInOrder /\ InOrderLookup
    BY DEF Init, IssuedInOrder, InOrderLookup, Queued
  <2> QED BY <2>1, InitIInv DEF OrderInv
<1>2. OrderInv => InOrderLookup
  BY DEF OrderInv
<1> QED BY <1>1, <1>2, NextOrderInv, PTL DEF Spec

-----------------------------------------------------------------------------
(* Slots.                                                                  *)

LEMMA DivModIs ==
    ASSUME NEW a \in Nat, NEW n \in Nat \ {0}, NEW k \in Nat, NEW r \in 0..(n - 1),
           a = n * k + r
    PROVE  a \div n = k /\ a % n = r
OBVIOUS

LEMMA DivMod ==
    ASSUME NEW a \in Nat, NEW n \in Nat \ {0}
    PROVE  a \div n \in Nat /\ a % n \in 0..(n - 1) /\ a = n * (a \div n) + (a % n)
OBVIOUS

\* A whole period later.
LEMMA DivModShift ==
    ASSUME NEW a \in Nat, NEW n \in Nat \ {0}
    PROVE  (a + n) % n = a % n /\ (a + n) \div n = (a \div n) + 1
<1> DEFINE k == a \div n
           r == a % n
<1>1. k \in Nat /\ r \in 0..(n - 1) /\ a = n * k + r
  BY DivMod
<1> HIDE DEF k, r
<1>2. a + n = n * (k + 1) + r
  BY <1>1
<1>3. (a + n) \div n = k + 1 /\ (a + n) % n = r
  BY <1>1, <1>2, DivModIs
<1> QED BY <1>3 DEF k, r

\* One later: within the period, or at the start of the next.
LEMMA DivModNext ==
    ASSUME NEW a \in Nat, NEW n \in Nat \ {0}
    PROVE  /\ (a % n) + 1 < n => (a + 1) % n = (a % n) + 1 /\ (a + 1) \div n = a \div n
           /\ (a % n) + 1 = n => (a + 1) % n = 0 /\ (a + 1) \div n = (a \div n) + 1
<1> DEFINE k == a \div n
           r == a % n
<1>1. k \in Nat /\ r \in 0..(n - 1) /\ a = n * k + r
  BY DivMod
<1> HIDE DEF k, r
<1>2. ASSUME r + 1 < n PROVE (a + 1) \div n = k /\ (a + 1) % n = r + 1
  <2>1. a + 1 = n * k + (r + 1) /\ r + 1 \in 0..(n - 1)
    BY <1>1, <1>2
  <2> QED BY <1>1, <2>1, DivModIs
<1>3. ASSUME r + 1 = n PROVE (a + 1) \div n = k + 1 /\ (a + 1) % n = 0
  <2>1. a + 1 = n * (k + 1) + 0 /\ 0 \in 0..(n - 1)
    BY <1>1, <1>3
  <2> QED BY <1>1, <2>1, DivModIs
<1> QED BY <1>2, <1>3 DEF k, r

\* The slots begun before time t, and in the cycle at time t.
SlotsBefore(t) == (t + (Interarrival - 1)) \div Interarrival

LEMMA SlotsBeforeNext ==
    ASSUME NEW t \in Nat
    PROVE  /\ SlotsBefore(t) \in Nat
           /\ t % Interarrival = 0 => SlotsBefore(t + 1) = SlotsBefore(t) + 1
           /\ t % Interarrival # 0 => SlotsBefore(t + 1) = SlotsBefore(t)
<1> DEFINE n == Interarrival
           a == t + (n - 1)
<1>0. n \in Nat \ {0}
  BY SIOPerfAssumption
<1>1. a \in Nat /\ a + 1 = t + n /\ (t + 1) + (n - 1) = a + 1 /\ t + n \in Nat
  BY <1>0
<1>2. (a + 1) % n = t % n
  BY <1>0, <1>1, DivModShift
<1>3. a % n \in 0..(n - 1) /\ a \div n \in Nat
  BY <1>0, <1>1, DivMod
<1>4. /\ (a % n) + 1 < n => (a + 1) % n = (a % n) + 1 /\ (a + 1) \div n = a \div n
      /\ (a % n) + 1 = n => (a + 1) % n = 0 /\ (a + 1) \div n = (a \div n) + 1
  BY <1>0, <1>1, DivModNext
<1>5. SlotsBefore(t) = a \div n /\ SlotsBefore(t + 1) = (a + 1) \div n
  BY <1>1 DEF SlotsBefore
<1> HIDE DEF n, a
<1>6. (a % n) + 1 < n \/ (a % n) + 1 = n
  BY <1>0, <1>3
<1>7. a % n \in Nat
  BY <1>0, <1>3
<1> QED BY <1>2, <1>3, <1>4, <1>5, <1>6, <1>7 DEF n

\* n slots have each issued a whole packet or been counted as a drop, but for the
\* last, whose packet has had i of its translations read.
PaidFor(n, i) ==
    /\ trans_cnt % TRANSLATIONS_PER_PKT = i
    /\ pkt_drop_cnt + (trans_cnt \div TRANSLATIONS_PER_PKT) = n

\* A slot is paid for when its cycle begins, and the trace's end takes the thread
\* out of the loop that opens packets.
Slots ==
    /\ pc \in {"setup", "packet", "read"} => ~trace_ended
    /\ pc = "drain" => trace_ended
    /\ pc \in {"setup", "packet"} => PaidFor(SlotsBefore(simtime), 0)
    /\ pc = "read" => SlotBegins /\ PaidFor(SlotsBefore(simtime), pkt_i)
    /\ pc \in DOMAIN StageAfter \cup {"tick"} /\ ~trace_ended =>
          PaidFor(SlotsBefore(simtime + 1), 0)

\* The inductive invariant of the slots.
SlotsInv == IInv /\ Slots

\* A stage leaves the slots alone.
LEMMA StageSlots ==
    ASSUME SlotsInv, NEW q \in DOMAIN StageAfter, pc = q, pc' = StageAfter[q],
           UNCHANGED <<simtime, trace_ended, trans_cnt, pkt_drop_cnt>>
    PROVE  Slots'
<1>1. pc' \in DOMAIN StageAfter \cup {"tick"}
  BY DEF StageAfter
<1>2. pc' \notin {"setup", "packet", "read", "drain"}
  BY DEF StageAfter
<1>3. ~trace_ended => PaidFor(SlotsBefore(simtime + 1), 0)
  BY DEF SlotsInv, Slots
<1> QED BY <1>1, <1>2, <1>3 DEF Slots, PaidFor, SlotsBefore

LEMMA NextSlotsInv == SlotsInv /\ [Next]_vars => SlotsInv'
<1> SUFFICES ASSUME SlotsInv, [Next]_vars PROVE Slots'
  BY NextIInv DEF SlotsInv
<1> USE DEF counters, queues, caches
<1>0. /\ IInv /\ simtime \in Nat /\ trans_cnt \in Nat /\ pkt_drop_cnt \in Nat /\ pkt_i \in Nat
      /\ Interarrival \in Nat \ {0} /\ TRANSLATIONS_PER_PKT \in Nat \ {0}
  BY SIOPerfAssumption, TypeParts DEF SlotsInv, IInv, CountersOK
<1>1. CASE UNCHANGED vars
  BY <1>1 DEF vars, SlotsInv, Slots, PaidFor, SlotsBefore, SlotBegins
<1>2. CASE SetupEnv
  <2>1. ~trace_ended /\ PaidFor(SlotsBefore(simtime), 0)
    BY <1>2 DEF SetupEnv, SlotsInv, Slots
  <2> QED BY <1>2, <2>1, StageNames DEF SetupEnv, Slots, PaidFor, SlotsBefore
<1>3. CASE SetupEnvFails \/ ReadUnknown \/ DrainDone
  BY <1>3, StageNames DEF SetupEnvFails, ReadUnknown, DrainDone, Slots
<1>4. CASE SkipSlot
  <2>1. PaidFor(SlotsBefore(simtime), 0) /\ simtime % Interarrival # 0
    BY <1>4 DEF SkipSlot, SlotsInv, Slots, SlotBegins
  <2>2. SlotsBefore(simtime + 1) = SlotsBefore(simtime)
    BY <1>0, <2>1, SlotsBeforeNext
  <2>3. PaidFor(SlotsBefore(simtime + 1), 0)
    BY <2>1, <2>2
  <2>4. PaidFor(SlotsBefore(simtime + 1), 0)'
    BY <1>4, <2>3 DEF SkipSlot, PaidFor, SlotsBefore
  <2> QED BY <1>4, <2>4 DEF SkipSlot, Slots
<1>5. CASE DropPacket
  <2>1. PaidFor(SlotsBefore(simtime), 0) /\ simtime % Interarrival = 0
    BY <1>5 DEF DropPacket, SlotsInv, Slots, SlotBegins
  <2>2. SlotsBefore(simtime + 1) = SlotsBefore(simtime) + 1
    BY <1>0, <2>1, SlotsBeforeNext
  <2>3. trans_cnt \div TRANSLATIONS_PER_PKT \in Nat
    BY <1>0, DivMod
  <2>4. /\ trans_cnt % TRANSLATIONS_PER_PKT = 0
        /\ (pkt_drop_cnt + 1) + (trans_cnt \div TRANSLATIONS_PER_PKT) = SlotsBefore(simtime + 1)
    BY <1>0, <2>1, <2>2, <2>3 DEF PaidFor
  <2>5. PaidFor(SlotsBefore(simtime + 1), 0)'
    BY <1>5, <2>4 DEF DropPacket, PaidFor, SlotsBefore
  <2> QED BY <1>5, <2>5 DEF DropPacket, Slots
<1>6. CASE OpenPacket
  <2>1. ~trace_ended /\ PaidFor(SlotsBefore(simtime), 0) /\ SlotBegins
    BY <1>6 DEF OpenPacket, SlotsInv, Slots
  <2> QED BY <1>6, <2>1, StageNames DEF OpenPacket, Slots, PaidFor, SlotsBefore, SlotBegins
<1>7. ASSUME NEW e \in TraceEvents, ReadTranslation(e) PROVE Slots'
  <2>1. /\ ~trace_ended /\ SlotBegins /\ pkt_i < TRANSLATIONS_PER_PKT
        /\ PaidFor(SlotsBefore(simtime), pkt_i)
        /\ trans_cnt' = trans_cnt + 1 /\ pkt_i' = pkt_i + 1
        /\ pc' = IF pkt_i' < TRANSLATIONS_PER_PKT THEN "read" ELSE "cc_fill"
        /\ UNCHANGED <<simtime, trace_ended, pkt_drop_cnt>>
    BY <1>0, <1>7 DEF ReadTranslation, SlotsInv, Slots, IInv, Admitted
  <2>2. trans_cnt \div TRANSLATIONS_PER_PKT \in Nat
    BY <1>0, DivMod
  <2>3. CASE pkt_i + 1 < TRANSLATIONS_PER_PKT
    <3>1. /\ (trans_cnt + 1) % TRANSLATIONS_PER_PKT = pkt_i + 1
          /\ (trans_cnt + 1) \div TRANSLATIONS_PER_PKT = trans_cnt \div TRANSLATIONS_PER_PKT
      BY <1>0, <2>1, <2>3, DivModNext DEF PaidFor
    <3>2. PaidFor(SlotsBefore(simtime), pkt_i)'
      BY <2>1, <3>1 DEF PaidFor, SlotsBefore
    <3>3. pc' = "read" /\ ~trace_ended' /\ SlotBegins'
      BY <2>1, <2>3 DEF SlotBegins
    <3> QED BY <3>2, <3>3, StageNames DEF Slots
  <2>4. CASE pkt_i + 1 = TRANSLATIONS_PER_PKT
    <3>1. /\ (trans_cnt + 1) % TRANSLATIONS_PER_PKT = 0
          /\ (trans_cnt + 1) \div TRANSLATIONS_PER_PKT
                 = (trans_cnt \div TRANSLATIONS_PER_PKT) + 1
      BY <1>0, <2>1, <2>4, DivModNext DEF PaidFor
    <3>2. SlotsBefore(simtime + 1) = SlotsBefore(simtime) + 1
      BY <1>0, <2>1, SlotsBeforeNext DEF SlotBegins
    <3>3. pkt_drop_cnt + ((trans_cnt + 1) \div TRANSLATIONS_PER_PKT) = SlotsBefore(simtime + 1)
      BY <1>0, <2>1, <2>2, <3>1, <3>2 DEF PaidFor
    <3>4. PaidFor(SlotsBefore(simtime + 1), 0)'
      BY <2>1, <3>1, <3>3 DEF PaidFor, SlotsBefore
    <3>5. pc' = "cc_fill"
      BY <1>0, <2>1, <2>4
    <3> QED BY <3>4, <3>5 DEF Slots
  <2>5. pkt_i + 1 < TRANSLATIONS_PER_PKT \/ pkt_i + 1 = TRANSLATIONS_PER_PKT
    BY <1>0, <2>1
  <2> QED BY <2>3, <2>4, <2>5
<1>8. CASE ReadEof
  BY <1>8, StageNames DEF ReadEof, Slots
<1>9. CASE DrainOn
  BY <1>9 DEF DrainOn, SlotsInv, Slots
<1>10. CASE EndCycle
  <2>1. CASE trace_ended
    BY <1>10, <2>1, StageNames DEF EndCycle, Slots
  <2>2. CASE ~trace_ended
    <3>1. PaidFor(SlotsBefore(simtime + 1), 0)
      BY <1>10, <2>2 DEF EndCycle, SlotsInv, Slots
    <3>2. PaidFor(SlotsBefore(simtime), 0)'
      BY <1>10, <3>1 DEF EndCycle, PaidFor, SlotsBefore
    <3>3. pc' = "packet" /\ ~trace_ended'
      BY <1>10, <2>2 DEF EndCycle
    <3> QED BY <3>2, <3>3, StageNames DEF Slots
  <2> QED BY <2>1, <2>2
<1>11. CASE \E q \in DOMAIN StageAfter : Idle(q)
  BY <1>11, StageSlots DEF Idle
<1>12. ASSUME NEW s \in simevents,
              \/ CCFill(s) \/ PCacheTrans(s) \/ PCacheFill(s)
              \/ PrefetchArrives(s) \/ TranslationDone(s)
       PROVE  Slots'
  <2>1. /\ \E q \in DOMAIN StageAfter : pc = q /\ pc' = StageAfter[q]
        /\ UNCHANGED <<simtime, trace_ended, trans_cnt, pkt_drop_cnt>>
    BY <1>12, StageNames
       DEF CCFill, PCacheTrans, PCacheFill, PrefetchArrives, TranslationDone, Serve
  <2> QED BY <2>1, StageSlots
<1> QED BY <1>1, <1>2, <1>3, <1>4, <1>5, <1>6, <1>7, <1>8, <1>9, <1>10, <1>11, <1>12
        DEF Next, PlayIOVATrace, RunCycle

LEMMA InitSlotsInv == Init => SlotsInv
<1>1. SUFFICES ASSUME Init PROVE Slots
  BY InitIInv DEF SlotsInv
<1>2. /\ pc = "setup" /\ ~trace_ended
      /\ simtime = 0 /\ trans_cnt = 0 /\ pkt_drop_cnt = 0
  BY <1>1 DEF Init
<1>3. Interarrival \in Nat \ {0} /\ TRANSLATIONS_PER_PKT \in Nat \ {0}
  BY SIOPerfAssumption
<1>4. 0 % TRANSLATIONS_PER_PKT = 0 /\ 0 \div TRANSLATIONS_PER_PKT = 0
  BY <1>3
<1>5. SlotsBefore(0) = 0
  <2>1. (Interarrival - 1) = Interarrival * 0 + (Interarrival - 1)
    BY <1>3
  <2>2. (Interarrival - 1) \div Interarrival = 0
    BY <1>3, <2>1, DivModIs
  <2> QED BY <1>3, <2>2 DEF SlotsBefore
<1>6. PaidFor(SlotsBefore(simtime), 0)
  BY <1>2, <1>4, <1>5 DEF PaidFor
<1> QED BY <1>2, <1>6, StageNames DEF Slots

\* Whatever the link speed, the packet size and the depth of the pending buffer,
\* between cycles every slot of the link has issued a whole packet or counted a
\* drop, so that the drops PrintStat reports are the slots with no room, no more
\* and no fewer.
THEOREM EverySlotAccounted == Spec => []SlotsAccounted
<1>1. SlotsInv => SlotsAccounted
  BY DEF SlotsInv, Slots, SlotsAccounted, PaidFor, SlotsBefore
<1> QED BY <1>1, InitSlotsInv, NextSlotsInv, PTL DEF Spec

-----------------------------------------------------------------------------
(* The queue of translations.                                              *)

\* The numbers of the translations that have not completed.
PendingIds == {s.te.id : s \in Pending}

\* The abstract queue's status.
Status ==
    CASE pc = "error" -> "failed"
      [] pc = "done" -> "done"
      [] OTHER -> IF trace_ended THEN "draining" ELSE "open"

LEMMA QueueCardinality == \A S : Queue!Cardinality(S) = Cardinality(S)
BY DEF Queue!Cardinality, Cardinality

\* There are as many numbers as translations.
LEMMA PendingIdsCounted ==
    ASSUME IInv
    PROVE  /\ IsFiniteSet(PendingIds)
           /\ Cardinality(PendingIds) <= trans_in_flight
           /\ trans_in_flight = 0 => PendingIds = {}
<1>1. /\ IsFiniteSet(Pending) /\ Cardinality(Pending) <= trans_in_flight
      /\ trans_in_flight \in Nat /\ Cardinality(Pending) \in Nat
  BY FS_CardinalityType DEF IInv, Covered, TypeOK
<1> DEFINE num == [s \in Pending |-> s.te.id]
<1>2. num \in Surjection(Pending, PendingIds)
  BY DEF Surjection, PendingIds
<1>3. IsFiniteSet(PendingIds) /\ Cardinality(PendingIds) <= Cardinality(Pending)
  BY <1>1, <1>2, FS_Surjection DEF ExistsSurjection
<1>4. Cardinality(PendingIds) \in Nat
  BY <1>3, FS_CardinalityType
<1>5. ASSUME trans_in_flight = 0 PROVE PendingIds = {}
  <2>1. Cardinality(Pending) = 0
    BY <1>1, <1>5
  <2>2. Pending = {}
    BY <1>1, <2>1, FS_EmptySet
  <2> QED BY <2>2 DEF PendingIds
<1> QED BY <1>1, <1>3, <1>4, <1>5

\* A step that changes neither side of the abstract queue is a stutter of it.
LEMMA QueueStutters ==
    ASSUME Status' = Status, trans_cnt' = trans_cnt, PendingIds' = PendingIds
    PROVE  UNCHANGED Queue!vars
BY DEF Queue!vars, Status, PendingIds
LEMMA QueueIssues ==
    ASSUME Status = "open", trans_cnt < MaxTrace,
           Cardinality(PendingIds) < MaxInFlight + (TRANSLATIONS_PER_PKT - 1),
           trans_cnt' = trans_cnt + 1, PendingIds' = PendingIds \cup {trans_cnt + 1},
           Status' = Status
    PROVE  Queue!Issue
BY QueueCardinality DEF Queue!Issue, Status, PendingIds

LEMMA QueueCompletes ==
    ASSUME Status \in {"open", "draining"}, NEW i \in PendingIds,
           PendingIds' = PendingIds \ {i}, Status' = Status, trans_cnt' = trans_cnt
    PROVE  Queue!Next
<1>1. Queue!Complete(i)
  BY DEF Queue!Complete, Status, PendingIds
<1> QED BY <1>1 DEF Queue!Next, PendingIds

\* The trace ends, is no trace, or has been drained.
LEMMA QueueCloses ==
    ASSUME trans_cnt' = trans_cnt, PendingIds' = PendingIds,
           \/ Status = "open" /\ Status' \in {"draining", "failed"}
           \/ Status = "draining" /\ PendingIds = {} /\ Status' = "done"
    PROVE  Queue!Next
BY DEF Queue!Next, Queue!Close, Queue!Abort, Queue!Finish, Status, PendingIds

\* A stage keeps every number in the queues.
LEMMA StageKeepsIds ==
    ASSUME IInv, OnlySmallPages, NEW s \in simevents,
           CCFill(s) \/ PCacheTrans(s) \/ PCacheFill(s) \/ PrefetchArrives(s)
    PROVE  PendingIds' = PendingIds
<1>1. PICK ses : /\ simevents' = (simevents \ {s}) \cup ses
                 /\ \A x \in ses : Continues(x, s)
                 /\ GoesOn(s, ses)
  BY StageSchedules
<1>2. \A x \in ses : ~x.te.prefetch => ~s.te.prefetch /\ x.te.id = s.te.id
  BY <1>1 DEF Continues, Follows
<1>3. ~s.te.prefetch => \E x \in ses : ~x.te.prefetch /\ x.te.id = s.te.id
  <2>1. ASSUME ~s.te.prefetch PROVE \E x \in ses : ~x.te.prefetch /\ x.te.id = s.te.id
    <3>1. PICK x \in ses : Follows(x, s.te)
      BY <1>1, <2>1 DEF GoesOn
    <3> QED BY <2>1, <3>1 DEF Follows
  <2> QED BY <2>1
<1>4. ASSUME NEW i \in PendingIds PROVE i \in PendingIds'
  <2>1. PICK x \in Pending : i = x.te.id
    BY DEF PendingIds
  <2>2. CASE x = s
    BY <1>1, <1>3, <2>1, <2>2 DEF Pending, PendingIds
  <2>3. CASE x # s
    BY <1>1, <2>1, <2>3 DEF Pending, PendingIds
  <2> QED BY <2>2, <2>3
<1>5. ASSUME NEW i \in PendingIds' PROVE i \in PendingIds
  <2>1. PICK x \in Pending' : i = x.te.id
    BY DEF PendingIds
  <2>2. CASE x \in simevents
    BY <2>1, <2>2 DEF Pending, PendingIds
  <2>3. CASE x \in ses
    BY <1>2, <2>1, <2>3 DEF Pending, PendingIds
  <2> QED BY <1>1, <2>1, <2>2, <2>3 DEF Pending
<1> QED BY <1>4, <1>5

\* Every step of the loop is a step of the queue, or none.
LEMMA NextQueue ==
    ASSUME OnlySmallPages, SlotsInv, [Next]_vars
    PROVE  [Queue!Next]_(Queue!vars)
<1> USE DEF counters, queues, caches
<1>0. IInv /\ Slots
  BY DEF SlotsInv
<1>1. CASE UNCHANGED vars
  BY <1>1, QueueStutters DEF vars, Status, PendingIds, Pending
<1>2. CASE \/ SetupEnv \/ SkipSlot \/ DropPacket \/ OpenPacket \/ DrainOn \/ EndCycle
           \/ \E q \in DOMAIN StageAfter : Idle(q)
  <2>1. UNCHANGED <<simevents, trans_cnt, trace_ended>>
    BY <1>2 DEF SetupEnv, SkipSlot, DropPacket, OpenPacket, DrainOn, EndCycle, Idle
  <2>2. pc \notin {"error", "done"} /\ pc' \notin {"error", "done"}
    BY <1>2 DEF SetupEnv, SkipSlot, DropPacket, OpenPacket, DrainOn, EndCycle, Idle, StageAfter
  <2> QED BY <2>1, <2>2, QueueStutters DEF Status, PendingIds, Pending
<1>3. CASE SetupEnvFails \/ ReadUnknown \/ ReadEof
  <2>1. /\ pc \in {"setup", "read"} /\ UNCHANGED <<simevents, trans_cnt>>
        /\ pc' = "error" \/ (pc' = "drain" /\ trace_ended' = TRUE)
    BY <1>3 DEF SetupEnvFails, ReadUnknown, ReadEof
  <2>2. Status = "open" /\ Status' \in {"draining", "failed"}
    BY <1>0, <2>1 DEF Slots, Status
  <2> QED BY <2>1, <2>2, QueueCloses DEF PendingIds, Pending
<1>4. CASE DrainDone
  <2>1. /\ pc = "drain" /\ pc' = "done" /\ UNCHANGED <<simevents, trans_cnt>>
        /\ ~(trans_in_flight > 0)
    BY <1>4 DEF DrainDone, MustDrain
  <2>2. trans_in_flight = 0
    BY <1>0, <2>1 DEF IInv, TypeOK
  <2>3. PendingIds = {} /\ Status = "draining" /\ Status' = "done"
    BY <1>0, <2>1, <2>2, PendingIdsCounted DEF Slots, Status
  <2> QED BY <2>1, <2>3, QueueCloses DEF PendingIds, Pending
<1>5. ASSUME NEW e \in TraceEvents, ReadTranslation(e) PROVE Queue!Issue
  <2>1. /\ pc = "read" /\ trans_cnt < MaxTrace /\ trans_cnt' = trans_cnt + 1
        /\ pc' \in {"read", "cc_fill"} /\ trace_ended' = trace_ended
    BY <1>5 DEF ReadTranslation
  <2>2. simevents' = simevents \cup {Issued(e)}
    BY <1>5, IssueSchedules
  <2>3. Issued(e).te.id = trans_cnt + 1 /\ ~Issued(e).te.prefetch
    BY <1>0, IssuedType
  <2>4. PendingIds' = PendingIds \cup {trans_cnt + 1}
    <3> DEFINE m == Issued(e)
    <3>1. simevents' = simevents \cup {m} /\ m.te.id = trans_cnt + 1 /\ ~m.te.prefetch
      BY <2>2, <2>3
    <3> HIDE DEF m
    <3> QED BY <3>1 DEF PendingIds, Pending
  <2>5. Cardinality(PendingIds) < MaxInFlight + (TRANSLATIONS_PER_PKT - 1)
    <3>1. /\ trans_in_flight < MaxInFlight + pkt_i /\ pkt_i < TRANSLATIONS_PER_PKT
          /\ trans_in_flight \in Nat /\ pkt_i \in Nat
      BY <1>0, <2>1 DEF IInv, Admitted, TypeOK
    <3>2. Cardinality(PendingIds) <= trans_in_flight /\ Cardinality(PendingIds) \in Nat
      BY <1>0, PendingIdsCounted, FS_CardinalityType
    <3> QED BY <3>1, <3>2, SIOPerfAssumption
  <2>6. Status = "open" /\ Status' = Status
    BY <1>0, <2>1 DEF Slots, Status
  <2> QED BY <2>1, <2>4, <2>5, <2>6, QueueIssues
<1>6. ASSUME NEW s \in simevents,
             CCFill(s) \/ PCacheTrans(s) \/ PCacheFill(s) \/ PrefetchArrives(s)
      PROVE  UNCHANGED Queue!vars
  <2>1. PendingIds' = PendingIds
    BY <1>0, <1>6, StageKeepsIds
  <2>2. /\ \E q \in DOMAIN StageAfter : pc = q /\ pc' = StageAfter[q]
        /\ UNCHANGED <<trace_ended, trans_cnt>>
    BY <1>6, StageNames DEF CCFill, PCacheTrans, PCacheFill, PrefetchArrives, Serve
  <2>3. Status' = Status
    BY <2>2 DEF Status, StageAfter
  <2> QED BY <2>1, <2>2, <2>3, QueueStutters
<1>7. ASSUME NEW s \in simevents, TranslationDone(s) PROVE Queue!Next
  <2>1. /\ simevents' = simevents \ {s} /\ pc = "iotlb_fill" /\ pc' = "tick"
        /\ ~s.te.prefetch /\ UNCHANGED <<trace_ended, trans_cnt>>
    BY <1>0, <1>7, DoneSchedules DEF TranslationDone, Serve
  <2>2. s \in Pending /\ s.te.id \in PendingIds
    BY <2>1 DEF Pending, PendingIds
  <2>3. Pending' = Pending \ {s}
    BY <2>1 DEF Pending
  <2>4. PendingIds' = PendingIds \ {s.te.id}
    BY <1>0, <2>2, <2>3 DEF IInv, Numbered, PendingIds
  <2>5. Status \in {"open", "draining"} /\ Status' = Status
    BY <2>1 DEF Status
  <2> QED BY <2>1, <2>2, <2>4, <2>5, QueueCompletes
<1> QED BY <1>1, <1>2, <1>3, <1>4, <1>5, <1>6, <1>7
        DEF Next, PlayIOVATrace, RunCycle, Queue!Next

\* With 4KB and 2MB pages, the loop implements the abstract queue: seen from
\* outside, translations are issued in trace order and only while the pending
\* buffer has room, each completes exactly once, and a run is over only when none
\* is pending.  (The safety part of ImplementsQueue; its fairness is TLC's.)
THEOREM LoopIsTranslationQueue ==
    ASSUME OnlySmallPages
    PROVE  Spec => Queue!Init /\ [][Queue!Next]_(Queue!vars)
<1>1. Init => Queue!Init
  BY DEF Init, Queue!Init, Pending
<1>2. SlotsInv /\ [Next]_vars => [Queue!Next]_(Queue!vars)
  BY OnlySmallPages, NextQueue
<1> QED BY <1>1, <1>2, InitSlotsInv, NextSlotsInv, PTL DEF Spec
-----------------------------------------------------------------------------
(* Selective allocation.  What a cache does with its rows is proved of each *)
(* of the three instances of BaseCache.                                    *)

RowShape(r) == r = [type |-> r.type, entries |-> r.entries, meta |-> r.meta]

\* The row q is the row r with keys removed, and those of K added, perhaps.
AddsOnly(q, r, K) == RowShape(q) /\ q.entries \subseteq r.entries \cup K

RowOnly(r, D) == RowShape(r) /\ \A k \in r.entries : k.did \in D

\* The cache c has the rows S, with entries of the DIDs of D only.
HoldsOnly(c, S, D) ==
    /\ c = [rows |-> c.rows, acc |-> c.acc, hit |-> c.hit, miss |-> c.miss,
            confl |-> c.confl, seen |-> c.seen, salloc |-> c.salloc]
    /\ c.rows = [i \in S |-> c.rows[i]]
    /\ \A i \in S : RowOnly(c.rows[i], D)

LEMMA EntriesUpdate ==
    ASSUME NEW r, RowShape(r), NEW E, NEW q, q = [r EXCEPT !.entries = E]
    PROVE  RowShape(q) /\ q.entries = E
BY DEF RowShape

LEMMA MetaUpdate ==
    ASSUME NEW r, RowShape(r), NEW m, NEW q, q = [r EXCEPT !.meta = m]
    PROVE  RowShape(q) /\ q.entries = r.entries
BY DEF RowShape

\* The cache d is the cache c but for its statistics and the row j, now r.
Replaces(d, c, j, r) ==
    /\ d.rows = [c.rows EXCEPT ![j] = r] /\ d.salloc = c.salloc
    /\ d = [rows |-> d.rows, acc |-> d.acc, hit |-> d.hit, miss |-> d.miss,
            confl |-> d.confl, seen |-> d.seen, salloc |-> d.salloc]

LEMMA RowReplaced ==
    ASSUME NEW S, NEW D, NEW c, HoldsOnly(c, S, D), NEW j, NEW r,
           j \in S => RowOnly(r, D), NEW d, Replaces(d, c, j, r)
    PROVE  HoldsOnly(d, S, D) /\ d.salloc = c.salloc
<1>0. /\ d.rows = [c.rows EXCEPT ![j] = r] /\ d.salloc = c.salloc
      /\ d = [rows |-> d.rows, acc |-> d.acc, hit |-> d.hit, miss |-> d.miss,
              confl |-> d.confl, seen |-> d.seen, salloc |-> d.salloc]
  BY DEF Replaces
<1>1. d.rows = [i \in S |-> d.rows[i]] /\ \A i \in S : d.rows[i] = IF i = j THEN r ELSE c.rows[i]
  BY <1>0 DEF HoldsOnly
<1>2. \A i \in S : RowOnly(d.rows[i], D)
  BY <1>1 DEF HoldsOnly
<1> QED BY <1>0, <1>1, <1>2 DEF HoldsOnly

LEMMA IOTLBSearch ==
    ASSUME NEW r, RowShape(r), NEW k, NEW n, NEW q, q = IOTLB!Row!SearchKey(r, k, n)
    PROVE  AddsOnly(q, r, {})
<1>1. q = r \/ \E m : q = [r EXCEPT !.meta = m]
  BY DEF IOTLB!Row!SearchKey
<1> QED BY <1>1, MetaUpdate DEF AddsOnly

LEMMA IOTLBInstall ==
    ASSUME NEW r, RowShape(r), NEW k, NEW n, NEW q, q = IOTLB!Row!Install(r, k, n)
    PROVE  AddsOnly(q, r, {k})
<1>1. PICK p, m : p = [r EXCEPT !.entries = r.entries \cup {k}] /\ q = [p EXCEPT !.meta = m]
  BY Zenon DEF IOTLB!Row!Install
<1>2. p = [r EXCEPT !.entries = r.entries \cup {k}]
  BY <1>1
<1>3. RowShape(p) /\ p.entries = r.entries \cup {k}
  BY <1>2, EntriesUpdate
<1>4. q = [p EXCEPT !.meta = m]
  BY <1>1
<1>5. RowShape(q) /\ q.entries = p.entries
  BY <1>3, <1>4, MetaUpdate
<1> QED BY <1>3, <1>5 DEF AddsOnly

LEMMA IOTLBInvKey ==
    ASSUME NEW r, RowShape(r), NEW k, NEW q, q = IOTLB!Row!InvKey(r, k)
    PROVE  AddsOnly(q, r, {})
<1>1. PICK p, m : p = [r EXCEPT !.entries = r.entries \ {k}] /\ q = [p EXCEPT !.meta = m]
  BY Zenon DEF IOTLB!Row!InvKey
<1>2. p = [r EXCEPT !.entries = r.entries \ {k}]
  BY <1>1
<1>3. RowShape(p) /\ p.entries = r.entries \ {k}
  BY <1>2, EntriesUpdate
<1>4. q = [p EXCEPT !.meta = m]
  BY <1>1
<1>5. RowShape(q) /\ q.entries = p.entries
  BY <1>3, <1>4, MetaUpdate
<1> QED BY <1>3, <1>5 DEF AddsOnly

LEMMA IOTLBAddEntry ==
    ASSUME NEW r, RowShape(r), NEW k, NEW n, NEW q \in IOTLB!Row!AddEntry(r, k, n)
    PROVE  AddsOnly(q, r, {k})
<1>1. \/ q = r
      \/ q = IOTLB!Row!Install(r, k, n)
      \/ \E v : q = IOTLB!Row!Install(IOTLB!Row!InvKey(r, v), k, n)
  BY DEF IOTLB!Row!AddEntry
<1>2. CASE q = r
  BY <1>2 DEF AddsOnly
<1>3. CASE q = IOTLB!Row!Install(r, k, n)
  BY <1>3, IOTLBInstall
<1>4. CASE \E v : q = IOTLB!Row!Install(IOTLB!Row!InvKey(r, v), k, n)
  <2>1. PICK v, p : p = IOTLB!Row!InvKey(r, v) /\ q = IOTLB!Row!Install(p, k, n)
    BY <1>4
  <2>2. AddsOnly(p, r, {})
    BY <2>1, IOTLBInvKey
  <2>3. AddsOnly(q, p, {k})
    BY <2>1, <2>2, IOTLBInstall DEF AddsOnly
  <2> QED BY <2>2, <2>3 DEF AddsOnly
<1> QED BY <1>1, <1>2, <1>3, <1>4

LEMMA IOTLBTranslate ==
    ASSUME NEW D, HoldsOnly(iotlb, IOTLB!Sets, D), NEW e, NEW alloc,
           alloc => e.did \in D, IOTLB!Translate(e, alloc)
    PROVE  HoldsOnly(iotlb', IOTLB!Sets, D) /\ iotlb'.salloc = iotlb.salloc
<1> DEFINE i == IOTLB!GetIndex(e)
           k == IOTLB!KeyOf(e)
<1>1. k.did = e.did
  BY DEF IOTLB!KeyOf, IOTLB!CACHE_L1, IOTLB!CACHE_CONTEXT
<1>2. i \in IOTLB!Sets => RowOnly(iotlb.rows[i], D)
  BY DEF HoldsOnly
<1>3. CASE UNCHANGED iotlb
  BY <1>3
<1>4. CASE IOTLB!TranslateHit(e, alloc)
  <2>1. PICK r, n : /\ r = IOTLB!Row!SearchKey(iotlb.rows[i], k, e.nat)
                    /\ iotlb' = [iotlb EXCEPT !.rows[i] = r, !.hit = @ + n, !.acc[i] = @ + n]
    BY Zenon, <1>4 DEF IOTLB!TranslateHit
  <2>2. i \in IOTLB!Sets => RowOnly(r, D)
    <3> SUFFICES ASSUME i \in IOTLB!Sets PROVE RowOnly(r, D)
      OBVIOUS
    <3>1. RowOnly(iotlb.rows[i], D) /\ RowShape(iotlb.rows[i])
      BY <1>2 DEF RowOnly
    <3>2. AddsOnly(r, iotlb.rows[i], {})
      BY <2>1, <3>1, IOTLBSearch
    <3> QED BY <3>1, <3>2 DEF RowOnly, AddsOnly
  <2> HIDE DEF i, k
  <2>3. Replaces(iotlb', iotlb, i, r)
    BY <2>1 DEF HoldsOnly, Replaces
  <2> QED BY <2>2, <2>3, RowReplaced
<1>5. CASE alloc /\ IOTLB!TranslateFill(e)
  <2>1. PICK r \in IOTLB!Row!AddEntry(IOTLB!RowOf(e), k, e.nat) :
            iotlb' = [iotlb EXCEPT !.rows[i] = r,
                           !.miss = @ + 1,
                           !.confl = @ + IF IOTLB!Row!IsConflict(IOTLB!RowOf(e)) THEN 1 ELSE 0,
                           !.acc[i] = @ + 1,
                           !.seen = @ \cup {e.did}]
    BY Zenon, <1>5 DEF IOTLB!TranslateFill
  <2>2. i \in IOTLB!Sets => RowOnly(r, D)
    <3> SUFFICES ASSUME i \in IOTLB!Sets PROVE RowOnly(r, D)
      OBVIOUS
    <3>1. RowOnly(iotlb.rows[i], D) /\ RowShape(iotlb.rows[i])
      BY <1>2 DEF RowOnly
    <3>2. AddsOnly(r, iotlb.rows[i], {k})
      BY <2>1, <3>1, IOTLBAddEntry DEF IOTLB!RowOf
    <3>3. k.did \in D
      BY <1>1, <1>5
    <3> QED BY <3>1, <3>2, <3>3 DEF RowOnly, AddsOnly
  <2> HIDE DEF i, k
  <2>3. Replaces(iotlb', iotlb, i, r)
    BY <2>1 DEF HoldsOnly, Replaces
  <2> QED BY <2>2, <2>3, RowReplaced
<1> QED BY <1>3, <1>4, <1>5 DEF IOTLB!Translate, IOTLB!TranslateMiss

LEMMA IOTLBInit ==
    ASSUME IOTLB!Init, NEW D
    PROVE  HoldsOnly(iotlb, IOTLB!Sets, D) /\ iotlb.salloc = SAlloc
<1>1. iotlb = [rows |-> [i \in IOTLB!Sets |-> IOTLB!Row!EmptyRow(IOTLBRow)], acc |-> [i \in IOTLB!Sets |-> 0],
           hit |-> 0, miss |-> 0, confl |-> 0, seen |-> {}, salloc |-> SAlloc]
  BY DEF IOTLB!Init
<1>2. RowShape(IOTLB!Row!EmptyRow(IOTLBRow)) /\ IOTLB!Row!EmptyRow(IOTLBRow).entries = {}
  BY DEF IOTLB!Row!EmptyRow, RowShape
<1>3. iotlb.rows = [i \in IOTLB!Sets |-> IOTLB!Row!EmptyRow(IOTLBRow)]
  BY <1>1
<1>4. \A i \in IOTLB!Sets : RowShape(iotlb.rows[i]) /\ iotlb.rows[i].entries = {}
  BY <1>2, <1>3
<1>5. iotlb.rows = [i \in IOTLB!Sets |-> iotlb.rows[i]]
  BY <1>3
<1> QED BY <1>1, <1>4, <1>5 DEF HoldsOnly, RowOnly

LEMMA L2Search ==
    ASSUME NEW r, RowShape(r), NEW k, NEW n, NEW q, q = L2!Row!SearchKey(r, k, n)
    PROVE  AddsOnly(q, r, {})
<1>1. q = r \/ \E m : q = [r EXCEPT !.meta = m]
  BY DEF L2!Row!SearchKey
<1> QED BY <1>1, MetaUpdate DEF AddsOnly

LEMMA L2Install ==
    ASSUME NEW r, RowShape(r), NEW k, NEW n, NEW q, q = L2!Row!Install(r, k, n)
    PROVE  AddsOnly(q, r, {k})
<1>1. PICK p, m : p = [r EXCEPT !.entries = r.entries \cup {k}] /\ q = [p EXCEPT !.meta = m]
  BY Zenon DEF L2!Row!Install
<1>2. p = [r EXCEPT !.entries = r.entries \cup {k}]
  BY <1>1
<1>3. RowShape(p) /\ p.entries = r.entries \cup {k}
  BY <1>2, EntriesUpdate
<1>4. q = [p EXCEPT !.meta = m]
  BY <1>1
<1>5. RowShape(q) /\ q.entries = p.entries
  BY <1>3, <1>4, MetaUpdate
<1> QED BY <1>3, <1>5 DEF AddsOnly

LEMMA L2InvKey ==
    ASSUME NEW r, RowShape(r), NEW k, NEW q, q = L2!Row!InvKey(r, k)
    PROVE  AddsOnly(q, r, {})
<1>1. PICK p, m : p = [r EXCEPT !.entries = r.entries \ {k}] /\ q = [p EXCEPT !.meta = m]
  BY Zenon DEF L2!Row!InvKey
<1>2. p = [r EXCEPT !.entries = r.entries \ {k}]
  BY <1>1
<1>3. RowShape(p) /\ p.entries = r.entries \ {k}
  BY <1>2, EntriesUpdate
<1>4. q = [p EXCEPT !.meta = m]
  BY <1>1
<1>5. RowShape(q) /\ q.entries = p.entries
  BY <1>3, <1>4, MetaUpdate
<1> QED BY <1>3, <1>5 DEF AddsOnly

LEMMA L2AddEntry ==
    ASSUME NEW r, RowShape(r), NEW k, NEW n, NEW q \in L2!Row!AddEntry(r, k, n)
    PROVE  AddsOnly(q, r, {k})
<1>1. \/ q = r
      \/ q = L2!Row!Install(r, k, n)
      \/ \E v : q = L2!Row!Install(L2!Row!InvKey(r, v), k, n)
  BY DEF L2!Row!AddEntry
<1>2. CASE q = r
  BY <1>2 DEF AddsOnly
<1>3. CASE q = L2!Row!Install(r, k, n)
  BY <1>3, L2Install
<1>4. CASE \E v : q = L2!Row!Install(L2!Row!InvKey(r, v), k, n)
  <2>1. PICK v, p : p = L2!Row!InvKey(r, v) /\ q = L2!Row!Install(p, k, n)
    BY <1>4
  <2>2. AddsOnly(p, r, {})
    BY <2>1, L2InvKey
  <2>3. AddsOnly(q, p, {k})
    BY <2>1, <2>2, L2Install DEF AddsOnly
  <2> QED BY <2>2, <2>3 DEF AddsOnly
<1> QED BY <1>1, <1>2, <1>3, <1>4

LEMMA L2Translate ==
    ASSUME NEW D, HoldsOnly(l2, L2!Sets, D), NEW e, NEW alloc,
           alloc => e.did \in D, L2!Translate(e, alloc)
    PROVE  HoldsOnly(l2', L2!Sets, D) /\ l2'.salloc = l2.salloc
<1> DEFINE i == L2!GetIndex(e)
           k == L2!KeyOf(e)
<1>1. k.did = e.did
  BY DEF L2!KeyOf, L2!CACHE_L1, L2!CACHE_CONTEXT
<1>2. i \in L2!Sets => RowOnly(l2.rows[i], D)
  BY DEF HoldsOnly
<1>3. CASE UNCHANGED l2
  BY <1>3
<1>4. CASE L2!TranslateHit(e, alloc)
  <2>1. PICK r, n : /\ r = L2!Row!SearchKey(l2.rows[i], k, e.nat)
                    /\ l2' = [l2 EXCEPT !.rows[i] = r, !.hit = @ + n, !.acc[i] = @ + n]
    BY Zenon, <1>4 DEF L2!TranslateHit
  <2>2. i \in L2!Sets => RowOnly(r, D)
    <3> SUFFICES ASSUME i \in L2!Sets PROVE RowOnly(r, D)
      OBVIOUS
    <3>1. RowOnly(l2.rows[i], D) /\ RowShape(l2.rows[i])
      BY <1>2 DEF RowOnly
    <3>2. AddsOnly(r, l2.rows[i], {})
      BY <2>1, <3>1, L2Search
    <3> QED BY <3>1, <3>2 DEF RowOnly, AddsOnly
  <2> HIDE DEF i, k
  <2>3. Replaces(l2', l2, i, r)
    BY <2>1 DEF HoldsOnly, Replaces
  <2> QED BY <2>2, <2>3, RowReplaced
<1>5. CASE alloc /\ L2!TranslateFill(e)
  <2>1. PICK r \in L2!Row!AddEntry(L2!RowOf(e), k, e.nat) :
            l2' = [l2 EXCEPT !.rows[i] = r,
                           !.miss = @ + 1,
                           !.confl = @ + IF L2!Row!IsConflict(L2!RowOf(e)) THEN 1 ELSE 0,
                           !.acc[i] = @ + 1,
                           !.seen = @ \cup {e.did}]
    BY Zenon, <1>5 DEF L2!TranslateFill
  <2>2. i \in L2!Sets => RowOnly(r, D)
    <3> SUFFICES ASSUME i \in L2!Sets PROVE RowOnly(r, D)
      OBVIOUS
    <3>1. RowOnly(l2.rows[i], D) /\ RowShape(l2.rows[i])
      BY <1>2 DEF RowOnly
    <3>2. AddsOnly(r, l2.rows[i], {k})
      BY <2>1, <3>1, L2AddEntry DEF L2!RowOf
    <3>3. k.did \in D
      BY <1>1, <1>5
    <3> QED BY <3>1, <3>2, <3>3 DEF RowOnly, AddsOnly
  <2> HIDE DEF i, k
  <2>3. Replaces(l2', l2, i, r)
    BY <2>1 DEF HoldsOnly, Replaces
  <2> QED BY <2>2, <2>3, RowReplaced
<1> QED BY <1>3, <1>4, <1>5 DEF L2!Translate, L2!TranslateMiss

LEMMA L2Init ==
    ASSUME L2!Init, NEW D
    PROVE  HoldsOnly(l2, L2!Sets, D) /\ l2.salloc = SAlloc
<1>1. l2 = [rows |-> [i \in L2!Sets |-> L2!Row!EmptyRow("LRU")], acc |-> [i \in L2!Sets |-> 0],
           hit |-> 0, miss |-> 0, confl |-> 0, seen |-> {}, salloc |-> SAlloc]
  BY DEF L2!Init
<1>2. RowShape(L2!Row!EmptyRow("LRU")) /\ L2!Row!EmptyRow("LRU").entries = {}
  BY DEF L2!Row!EmptyRow, RowShape
<1>3. l2.rows = [i \in L2!Sets |-> L2!Row!EmptyRow("LRU")]
  BY <1>1
<1>4. \A i \in L2!Sets : RowShape(l2.rows[i]) /\ l2.rows[i].entries = {}
  BY <1>2, <1>3
<1>5. l2.rows = [i \in L2!Sets |-> l2.rows[i]]
  BY <1>3
<1> QED BY <1>1, <1>4, <1>5 DEF HoldsOnly, RowOnly

LEMMA L3Search ==
    ASSUME NEW r, RowShape(r), NEW k, NEW n, NEW q, q = L3!Row!SearchKey(r, k, n)
    PROVE  AddsOnly(q, r, {})
<1>1. q = r \/ \E m : q = [r EXCEPT !.meta = m]
  BY DEF L3!Row!SearchKey
<1> QED BY <1>1, MetaUpdate DEF AddsOnly

LEMMA L3Install ==
    ASSUME NEW r, RowShape(r), NEW k, NEW n, NEW q, q = L3!Row!Install(r, k, n)
    PROVE  AddsOnly(q, r, {k})
<1>1. PICK p, m : p = [r EXCEPT !.entries = r.entries \cup {k}] /\ q = [p EXCEPT !.meta = m]
  BY Zenon DEF L3!Row!Install
<1>2. p = [r EXCEPT !.entries = r.entries \cup {k}]
  BY <1>1
<1>3. RowShape(p) /\ p.entries = r.entries \cup {k}
  BY <1>2, EntriesUpdate
<1>4. q = [p EXCEPT !.meta = m]
  BY <1>1
<1>5. RowShape(q) /\ q.entries = p.entries
  BY <1>3, <1>4, MetaUpdate
<1> QED BY <1>3, <1>5 DEF AddsOnly

LEMMA L3InvKey ==
    ASSUME NEW r, RowShape(r), NEW k, NEW q, q = L3!Row!InvKey(r, k)
    PROVE  AddsOnly(q, r, {})
<1>1. PICK p, m : p = [r EXCEPT !.entries = r.entries \ {k}] /\ q = [p EXCEPT !.meta = m]
  BY Zenon DEF L3!Row!InvKey
<1>2. p = [r EXCEPT !.entries = r.entries \ {k}]
  BY <1>1
<1>3. RowShape(p) /\ p.entries = r.entries \ {k}
  BY <1>2, EntriesUpdate
<1>4. q = [p EXCEPT !.meta = m]
  BY <1>1
<1>5. RowShape(q) /\ q.entries = p.entries
  BY <1>3, <1>4, MetaUpdate
<1> QED BY <1>3, <1>5 DEF AddsOnly

LEMMA L3AddEntry ==
    ASSUME NEW r, RowShape(r), NEW k, NEW n, NEW q \in L3!Row!AddEntry(r, k, n)
    PROVE  AddsOnly(q, r, {k})
<1>1. \/ q = r
      \/ q = L3!Row!Install(r, k, n)
      \/ \E v : q = L3!Row!Install(L3!Row!InvKey(r, v), k, n)
  BY DEF L3!Row!AddEntry
<1>2. CASE q = r
  BY <1>2 DEF AddsOnly
<1>3. CASE q = L3!Row!Install(r, k, n)
  BY <1>3, L3Install
<1>4. CASE \E v : q = L3!Row!Install(L3!Row!InvKey(r, v), k, n)
  <2>1. PICK v, p : p = L3!Row!InvKey(r, v) /\ q = L3!Row!Install(p, k, n)
    BY <1>4
  <2>2. AddsOnly(p, r, {})
    BY <2>1, L3InvKey
  <2>3. AddsOnly(q, p, {k})
    BY <2>1, <2>2, L3Install DEF AddsOnly
  <2> QED BY <2>2, <2>3 DEF AddsOnly
<1> QED BY <1>1, <1>2, <1>3, <1>4

LEMMA L3Translate ==
    ASSUME NEW D, HoldsOnly(l3, L3!Sets, D), NEW e, NEW alloc,
           alloc => e.did \in D, L3!Translate(e, alloc)
    PROVE  HoldsOnly(l3', L3!Sets, D) /\ l3'.salloc = l3.salloc
<1> DEFINE i == L3!GetIndex(e)
           k == L3!KeyOf(e)
<1>1. k.did = e.did
  BY DEF L3!KeyOf, L3!CACHE_L1, L3!CACHE_CONTEXT
<1>2. i \in L3!Sets => RowOnly(l3.rows[i], D)
  BY DEF HoldsOnly
<1>3. CASE UNCHANGED l3
  BY <1>3
<1>4. CASE L3!TranslateHit(e, alloc)
  <2>1. PICK r, n : /\ r = L3!Row!SearchKey(l3.rows[i], k, e.nat)
                    /\ l3' = [l3 EXCEPT !.rows[i] = r, !.hit = @ + n, !.acc[i] = @ + n]
    BY Zenon, <1>4 DEF L3!TranslateHit
  <2>2. i \in L3!Sets => RowOnly(r, D)
    <3> SUFFICES ASSUME i \in L3!Sets PROVE RowOnly(r, D)
      OBVIOUS
    <3>1. RowOnly(l3.rows[i], D) /\ RowShape(l3.rows[i])
      BY <1>2 DEF RowOnly
    <3>2. AddsOnly(r, l3.rows[i], {})
      BY <2>1, <3>1, L3Search
    <3> QED BY <3>1, <3>2 DEF RowOnly, AddsOnly
  <2> HIDE DEF i, k
  <2>3. Replaces(l3', l3, i, r)
    BY <2>1 DEF HoldsOnly, Replaces
  <2> QED BY <2>2, <2>3, RowReplaced
<1>5. CASE alloc /\ L3!TranslateFill(e)
  <2>1. PICK r \in L3!Row!AddEntry(L3!RowOf(e), k, e.nat) :
            l3' = [l3 EXCEPT !.rows[i] = r,
                           !.miss = @ + 1,
                           !.confl = @ + IF L3!Row!IsConflict(L3!RowOf(e)) THEN 1 ELSE 0,
                           !.acc[i] = @ + 1,
                           !.seen = @ \cup {e.did}]
    BY Zenon, <1>5 DEF L3!TranslateFill
  <2>2. i \in L3!Sets => RowOnly(r, D)
    <3> SUFFICES ASSUME i \in L3!Sets PROVE RowOnly(r, D)
      OBVIOUS
    <3>1. RowOnly(l3.rows[i], D) /\ RowShape(l3.rows[i])
      BY <1>2 DEF RowOnly
    <3>2. AddsOnly(r, l3.rows[i], {k})
      BY <2>1, <3>1, L3AddEntry DEF L3!RowOf
    <3>3. k.did \in D
      BY <1>1, <1>5
    <3> QED BY <3>1, <3>2, <3>3 DEF RowOnly, AddsOnly
  <2> HIDE DEF i, k
  <2>3. Replaces(l3', l3, i, r)
    BY <2>1 DEF HoldsOnly, Replaces
  <2> QED BY <2>2, <2>3, RowReplaced
<1> QED BY <1>3, <1>4, <1>5 DEF L3!Translate, L3!TranslateMiss

LEMMA L3Init ==
    ASSUME L3!Init, NEW D
    PROVE  HoldsOnly(l3, L3!Sets, D) /\ l3.salloc = SAlloc
<1>1. l3 = [rows |-> [i \in L3!Sets |-> L3!Row!EmptyRow("LRU")], acc |-> [i \in L3!Sets |-> 0],
           hit |-> 0, miss |-> 0, confl |-> 0, seen |-> {}, salloc |-> SAlloc]
  BY DEF L3!Init
<1>2. RowShape(L3!Row!EmptyRow("LRU")) /\ L3!Row!EmptyRow("LRU").entries = {}
  BY DEF L3!Row!EmptyRow, RowShape
<1>3. l3.rows = [i \in L3!Sets |-> L3!Row!EmptyRow("LRU")]
  BY <1>1
<1>4. \A i \in L3!Sets : RowShape(l3.rows[i]) /\ l3.rows[i].entries = {}
  BY <1>2, <1>3
<1>5. l3.rows = [i \in L3!Sets |-> l3.rows[i]]
  BY <1>3
<1> QED BY <1>1, <1>4, <1>5 DEF HoldsOnly, RowOnly

\* The DIDs that ConfigSelectiveAlloc gives to each cache.
IOTLBDids == 0..(IOTLBCfg.groups - 1)
L2Dids == L2StartDid..(L2StartDid + L2Cfg.groups - 1)
L3Dids == L3StartDid..(L3StartDid + L3Cfg.groups - 1)

\* The inductive invariant of selective allocation.
AllocInv ==
    /\ HoldsOnly(iotlb, IOTLB!Sets, IOTLBDids) /\ iotlb.salloc
    /\ HoldsOnly(l2, L2!Sets, L2Dids) /\ l2.salloc
    /\ HoldsOnly(l3, L3!Sets, L3Dids) /\ l3.salloc

LEMMA NextAllocInv == AllocInv /\ [Next]_vars => AllocInv'
<1> SUFFICES ASSUME AllocInv, [Next]_vars PROVE AllocInv'
  OBVIOUS
<1>1. \A e : /\ IOTLB!IsDIDCacheable(e.did) => e.did \in IOTLBDids
             /\ L2!IsDIDCacheable(e.did) => e.did \in L2Dids
             /\ L3!IsDIDCacheable(e.did) => e.did \in L3Dids
  <2>1. IOTLBCfg.groups \in Nat
    BY SIOPerfAssumption
  <2> QED BY <2>1 DEF AllocInv, IOTLB!IsDIDCacheable, L2!IsDIDCacheable, L3!IsDIDCacheable,
                      IOTLBDids, L2Dids, L3Dids
<1>2. CASE UNCHANGED <<iotlb, l2, l3>>
  BY <1>2 DEF AllocInv
<1>3. ASSUME NEW s, CCFill(s)
      PROVE  AllocInv'
  <2>1. IOTLB!Translate(s.te.ev, FALSE) /\ UNCHANGED <<l2, l3>>
    BY <1>3 DEF CCFill
  <2>2. HoldsOnly(iotlb', IOTLB!Sets, IOTLBDids) /\ iotlb'.salloc = iotlb.salloc
    BY <2>1, IOTLBTranslate DEF AllocInv
  <2> QED BY <2>1, <2>2 DEF AllocInv
<1>4. ASSUME NEW s, TranslationDone(s)
      PROVE  AllocInv'
  <2>1. IOTLB!Translate(s.te.ev, IOTLB!IsDIDCacheable(s.te.ev.did)) /\ UNCHANGED <<l2, l3>>
    BY <1>4 DEF TranslationDone
  <2>2. HoldsOnly(iotlb', IOTLB!Sets, IOTLBDids) /\ iotlb'.salloc = iotlb.salloc
    BY <1>1, <2>1, IOTLBTranslate DEF AllocInv
  <2> QED BY <2>1, <2>2 DEF AllocInv
<1>5. ASSUME NEW e, NEW a, NEW b, a => e.did \in L2Dids, b => e.did \in L3Dids,
             L2!Translate(e, a), L3!Translate(e, b), UNCHANGED iotlb
      PROVE  AllocInv'
  <2>1. HoldsOnly(l2', L2!Sets, L2Dids) /\ l2'.salloc = l2.salloc
    BY <1>5, L2Translate DEF AllocInv
  <2>2. HoldsOnly(l3', L3!Sets, L3Dids) /\ l3'.salloc = l3.salloc
    BY <1>5, L3Translate DEF AllocInv
  <2> QED BY <1>5, <2>1, <2>2 DEF AllocInv
<1>6. ASSUME NEW s, PCacheTrans(s)
      PROVE  AllocInv'
  <2>1. L2!Translate(s.te.ev, FALSE) /\ L3!Translate(s.te.ev, FALSE) /\ UNCHANGED iotlb
    BY <1>6 DEF PCacheTrans
  <2> QED BY <1>5, <2>1
<1>7. ASSUME NEW s, PCacheFill(s)
      PROVE  AllocInv'
  <2>1. /\ L2!Translate(s.te.ev, L2!IsDIDCacheable(s.te.ev.did))
        /\ L3!Translate(s.te.ev, L3!IsDIDCacheable(s.te.ev.did))
        /\ UNCHANGED iotlb
    BY <1>7 DEF PCacheFill
  <2> QED BY <1>1, <1>5, <2>1
<1>8. ASSUME NEW s, PrefetchArrives(s)
      PROVE  AllocInv'
  BY <1>2, <1>8 DEF PrefetchArrives
<1>9. ASSUME NEW e, ReadTranslation(e)
      PROVE  AllocInv'
  BY <1>2, <1>9 DEF ReadTranslation
<1>10. CASE \E q \in DOMAIN StageAfter : Idle(q)
  BY <1>2, <1>10 DEF Idle, caches
<1>11. CASE \/ SetupEnv \/ SetupEnvFails \/ SkipSlot \/ DropPacket \/ OpenPacket
            \/ ReadEof \/ ReadUnknown \/ DrainOn \/ DrainDone \/ EndCycle
  BY <1>2, <1>11 DEF SetupEnv, SetupEnvFails, SkipSlot, DropPacket, OpenPacket,
                     ReadEof, ReadUnknown, DrainOn, DrainDone, EndCycle, caches
<1>12. CASE UNCHANGED vars
  BY <1>2, <1>12 DEF vars, caches
<1>13. RunCycle => AllocInv'
  BY <1>3, <1>4, <1>6, <1>7, <1>8, <1>10 DEF RunCycle
<1>14. PlayIOVATrace => AllocInv'
  BY <1>9, <1>11 DEF PlayIOVATrace
<1> QED BY <1>12, <1>13, <1>14 DEF Next

\* With selective allocation no tenant ever has entries in two of the IOTLB and
\* the page caches, so that each cache serves its own tenants only.
THEOREM TenantsKeepToTheirCache == Spec => []SelectiveAllocDisjoint
<1>1. SAlloc /\ Init => AllocInv
  BY IOTLBInit, L2Init, L3Init DEF Init, AllocInv
<1>2. AllocInv => SelectiveAllocDisjoint
  <2> SUFFICES ASSUME AllocInv PROVE SelectiveAllocDisjoint
    OBVIOUS
  <2>1. /\ \A d \in DidsIn(IOTLB!Contents) : d \in IOTLBDids
        /\ \A d \in DidsIn(L2!Contents) : d \in L2Dids
        /\ \A d \in DidsIn(L3!Contents) : d \in L3Dids
    BY DEF AllocInv, HoldsOnly, RowOnly, DidsIn, IOTLB!Contents, L2!Contents, L3!Contents
  <2>2. IOTLBCfg.groups \in Nat /\ L2Cfg.groups \in Nat /\ L3Cfg.groups \in Nat
    BY SIOPerfAssumption
  <2>3. IOTLBDids \cap L2Dids = {} /\ IOTLBDids \cap L3Dids = {} /\ L2Dids \cap L3Dids = {}
    BY <2>2 DEF IOTLBDids, L2Dids, L3Dids, L2StartDid, L3StartDid
  <2> QED BY <2>1, <2>3 DEF SelectiveAllocDisjoint
<1>3. ~SAlloc => SelectiveAllocDisjoint
  BY DEF SelectiveAllocDisjoint
<1> DEFINE I == SAlloc => AllocInv
<1>4. Init => I
  BY <1>1
<1>5. I /\ [Next]_vars => I'
  BY NextAllocInv
<1>6. I => SelectiveAllocDisjoint
  BY <1>2, <1>3
<1> QED BY <1>4, <1>5, <1>6, PTL DEF Spec
=============================================================================

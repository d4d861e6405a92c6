-------------------------- MODULE Prefetcher_proofs --------------------------
(***************************************************************************)
(* Theorems about Prefetcher.tla as MCPrefetcher.tla drives it, for every  *)
(* history length and distance, any tenants and pages and any log of       *)
(* accesses: what a SID's history holds, which SID is predicted to follow  *)
(* it, and that every prediction is scored.  The buffer is not expanded.   *)
(***************************************************************************)
EXTENDS MCPrefetcher, FiniteSetTheorems, SequenceTheorems, TLAPS

USE PrefetcherAssumption, EventsAssumption

Sids == {e.sid : e \in Events}
SavedEvents == {Saved(e) : e \in Events}

-----------------------------------------------------------------------------
(* Windows.                                                                *)

\* The window t is the window w of at most n, slid on to x.
Slid(t, w, n, x) ==
    /\ Len(t) = IF Len(w) = n THEN n ELSE Len(w) + 1
    /\ t[Len(t)] = x
    /\ \A i \in 1..(Len(t) - 1) : t[i] = IF Len(w) = n THEN w[i + 1] ELSE w[i]

LEMMA SlideIs ==
    ASSUME NEW S, NEW w \in Seq(S), NEW n \in Nat \ {0}, Len(w) <= n, NEW x \in S
    PROVE  Slide(w, n, x) \in Seq(S) /\ Slid(Slide(w, n, x), w, n, x)
<1>1. CASE Len(w) = n
  <2>1. w # << >>
    BY <1>1, EmptySeq
  <2>2. /\ Tail(w) \in Seq(S) /\ Len(Tail(w)) = n - 1
        /\ \A i \in 1..(n - 1) : Tail(w)[i] = w[i + 1]
    BY <1>1, <2>1, HeadTailProperties
  <2> DEFINE u == Tail(w)
  <2> HIDE DEF u
  <2>3. /\ Append(u, x) \in Seq(S) /\ Len(Append(u, x)) = n
        /\ Append(u, x)[n] = x
        /\ \A i \in 1..(n - 1) : Append(u, x)[i] = u[i]
    BY <2>2, AppendProperties DEF u
  <2>4. Slide(w, n, x) = Append(u, x)
    BY <1>1 DEF Slide, u
  <2> QED BY <1>1, <2>2, <2>3, <2>4 DEF Slid, u
<1>2. CASE Len(w) # n
  <2>1. /\ Append(w, x) \in Seq(S) /\ Len(Append(w, x)) = Len(w) + 1
        /\ Append(w, x)[Len(w) + 1] = x
        /\ \A i \in 1..Len(w) : Append(w, x)[i] = w[i]
    BY AppendProperties
  <2>2. Slide(w, n, x) = Append(w, x)
    BY <1>2 DEF Slide
  <2> QED BY <1>2, <2>1, <2>2 DEF Slid
<1> QED BY <1>1, <1>2

\* The i-th of t was in the window w, nearer to its end by one.
Older(t, i, w) == \E m \in 1..Len(w) : t[i] = w[m] /\ (Len(w) - m) + 1 = Len(t) - i

\* All but the newest element of a window were in it before.
LEMMA SlidFrom ==
    ASSUME NEW w, NEW t, NEW n \in Nat \ {0}, NEW x, Slid(t, w, n, x),
           Len(w) \in Nat, Len(w) <= n, NEW i \in 1..Len(t), i # Len(t)
    PROVE  Older(t, i, w)
<1>1. PICK lw, lt : lw = Len(w) /\ lt = Len(t)
  OBVIOUS
<1>2. /\ lt = IF lw = n THEN n ELSE lw + 1
      /\ \A j \in 1..(lt - 1) : t[j] = IF lw = n THEN w[j + 1] ELSE w[j]
  BY <1>1 DEF Slid
<1>3. lw \in Nat /\ lw <= n /\ i \in 1..lt /\ i # lt
  BY <1>1
<1>4. i \in 1..(lt - 1)
  BY <1>2, <1>3
<1>5. CASE lw = n
  <2>1. i + 1 \in 1..lw /\ (lw - (i + 1)) + 1 = lt - i
    BY <1>2, <1>3, <1>4, <1>5
  <2>2. t[i] = w[i + 1]
    BY <1>2, <1>4, <1>5
  <2> QED BY <1>1, <2>1, <2>2 DEF Older
<1>6. CASE lw # n
  <2>1. i \in 1..lw /\ (lw - i) + 1 = lt - i
    BY <1>2, <1>3, <1>4, <1>6
  <2>2. t[i] = w[i]
    BY <1>2, <1>4, <1>6
  <2> QED BY <1>1, <2>1, <2>2 DEF Older
<1> QED BY <1>5, <1>6

-----------------------------------------------------------------------------
(* What an access does.                                                    *)

\* The log grows by e, and the tables are those Probe leaves.
Probed(e) ==
    /\ e \in Events
    /\ log' = Append(log, e)
    /\ table'.history = Remember(e) /\ table'.nsid = Learn(e)
    /\ table'.sidhist = Slide(table.sidhist, PrefetchDist, e.sid)
    /\ table'.prev = NextPrev(e) /\ table'.prediction = Predict(e)
    /\ table'.made = table.made + IF Predict(e) = NoSid THEN 0 ELSE 1
    /\ table'.correct = Scored(e, table.correct, TRUE)
    /\ table'.incorrect = Scored(e, table.incorrect, FALSE)

LEMMA StepIs ==
    ASSUME [Next]_vars
    PROVE  UNCHANGED <<table, log>> \/ \E e \in Events : Probed(e)
<1>1. CASE UNCHANGED vars \/ \E e \in requested : Arrive(e)
  BY <1>1 DEF vars, Arrive
<1>2. ASSUME NEW e \in Events, Access(e) PROVE Probed(e)
  BY <1>2 DEF Access, Probe, Probed
<1> QED BY <1>1, <1>2 DEF Next

LEMMA LogGrows ==
    ASSUME log \in Seq(Events), NEW e, Probed(e)
    PROVE  /\ log' \in Seq(Events) /\ Len(log') = Len(log) + 1
           /\ \A i \in 1..Len(log) : log'[i] = log[i]
           /\ log'[Len(log) + 1] = e
           /\ e \in Events /\ e.sid \in Sids /\ e.sid # NoSid
           /\ Len(log) \in Nat
BY AppendProperties DEF Probed, Sids

-----------------------------------------------------------------------------
(* The window of recent SIDs.                                              *)

\* The window holds the SIDs of the last accesses, and the previous SID is that
\* of the access just before them.
WindowInv ==
    /\ log \in Seq(Events)
    /\ table.sidhist \in Seq(Sids)
    /\ Len(table.sidhist) = IF Len(log) < PrefetchDist THEN Len(log) ELSE PrefetchDist
    /\ \A i \in 1..Len(table.sidhist) :
           table.sidhist[i] = log[(Len(log) - Len(table.sidhist)) + i].sid
    /\ table.prev = IF Len(log) > PrefetchDist THEN log[Len(log) - PrefetchDist].sid ELSE NoSid

LEMMA NextWindowInv ==
    ASSUME WindowInv, [Next]_vars
    PROVE  WindowInv'
<1>1. CASE UNCHANGED <<table, log>>
  BY <1>1 DEF WindowInv
<1>2. ASSUME NEW e \in Events, Probed(e) PROVE WindowInv'
  <2> DEFINE n == Len(log)
             w == table.sidhist
             t == table'.sidhist
  <2>1. /\ log' \in Seq(Events) /\ Len(log') = n + 1 /\ n \in Nat
        /\ \A i \in 1..n : log'[i] = log[i]
        /\ log'[n + 1] = e
        /\ e.sid \in Sids
    BY <1>2, LogGrows DEF WindowInv
  <2>2. /\ w \in Seq(Sids) /\ Len(w) = (IF n < PrefetchDist THEN n ELSE PrefetchDist)
        /\ \A i \in 1..Len(w) : w[i] = log[(n - Len(w)) + i].sid
        /\ Len(w) \in Nat /\ Len(w) <= PrefetchDist
    BY <2>1 DEF WindowInv
  <2>3. t \in Seq(Sids) /\ Slid(t, w, PrefetchDist, e.sid)
    BY <1>2, <2>1, <2>2, SlideIs DEF Probed
  <2>4. table'.prev = IF Len(w) = PrefetchDist THEN Head(w) ELSE table.prev
    BY <1>2 DEF Probed, NextPrev
  <2>5. table.prev = IF n > PrefetchDist THEN log[n - PrefetchDist].sid ELSE NoSid
    BY DEF WindowInv
  <2> HIDE DEF w, t
  <2>6. Len(t) = IF Len(log') < PrefetchDist THEN Len(log') ELSE PrefetchDist
    BY <2>1, <2>2, <2>3 DEF Slid
  <2>7. ASSUME NEW i \in 1..Len(t)
        PROVE  t[i] = log'[(Len(log') - Len(t)) + i].sid
    <3>1. CASE i = Len(t)
      <4>1. (Len(log') - Len(t)) + i = n + 1
        BY <2>1, <2>3, <3>1
      <4> QED BY <2>1, <2>3, <3>1, <4>1 DEF Slid
    <3>2. CASE i # Len(t)
      <4>1. PICK m \in 1..Len(w) : t[i] = w[m] /\ (Len(w) - m) + 1 = Len(t) - i
        <5>1. Older(t, i, w)
          BY <2>2, <2>3, <3>2, SlidFrom
        <5> QED BY <5>1 DEF Older
      <4>2. w[m] = log[(n - Len(w)) + m].sid
        BY <2>2
      <4>3. PICK lw, lt : lw = Len(w) /\ lt = Len(t)
        OBVIOUS
      <4>4. lw \in Nat /\ lw <= n /\ m \in 1..lw /\ lt \in Nat /\ (lw - m) + 1 = lt - i /\ n \in Nat
        <5>1. lw \in Nat /\ lw <= n
          BY <2>1, <2>2, <4>3
        <5>2. lt \in Nat
          BY <2>3, <4>3
        <5> QED BY <2>1, <4>1, <4>3, <5>1, <5>2
      <4>5. (n - lw) + m = ((n + 1) - lt) + i /\ (n - lw) + m \in 1..n
        BY <4>4
      <4>6. t[i] = log'[(n - lw) + m].sid
        BY <2>1, <4>1, <4>2, <4>3, <4>5
      <4>7. t[i] = log'[((n + 1) - lt) + i].sid
        BY <4>5, <4>6
      <4> QED BY <2>1, <4>3, <4>7
    <3> QED BY <3>1, <3>2
  <2>8. table'.prev = IF Len(log') > PrefetchDist THEN log'[Len(log') - PrefetchDist].sid
                      ELSE NoSid
    <3>1. CASE Len(w) = PrefetchDist
      <4>1. w # << >> /\ Head(w) = w[1] /\ 1 \in 1..Len(w)
        BY <2>2, <3>1
      <4>2. /\ n >= PrefetchDist /\ (n - Len(w)) + 1 = Len(log') - PrefetchDist
            /\ (n - Len(w)) + 1 \in 1..n
        BY <2>1, <2>2, <3>1
      <4>3. Head(w) = log'[Len(log') - PrefetchDist].sid
        BY <2>1, <2>2, <4>1, <4>2
      <4>4. Len(log') > PrefetchDist
        BY <2>1, <4>2
      <4> QED BY <2>4, <3>1, <4>3, <4>4
    <3>2. CASE Len(w) # PrefetchDist
      <4>1. ~(n > PrefetchDist) /\ ~(Len(log') > PrefetchDist)
        BY <2>1, <2>2, <3>2
      <4> QED BY <2>4, <2>5, <3>2, <4>1
    <3> QED BY <3>1, <3>2
  <2> QED BY <2>1, <2>3, <2>6, <2>7, <2>8 DEF WindowInv, t
<1> QED BY <1>1, <1>2, StepIs

LEMMA InitWindowInv == MCInit => WindowInv
<1> SUFFICES ASSUME MCInit PROVE WindowInv
  OBVIOUS
<1>1. log = << >> /\ table.sidhist = << >> /\ table.prev = NoSid
  BY DEF MCInit, Init
<1> QED BY <1>1, EmptySeq DEF WindowInv

-----------------------------------------------------------------------------
(* The follower that is learned.                                           *)

\* The first of the accesses of s that another SID follows, and who it is.
LearnedAt(s, i) ==
    /\ i \in FollowedByOther(s)
    /\ \A j \in FollowedByOther(s) : i <= j
    /\ table.nsid[s] = log[i + Distance].sid

\* The inductive invariant of the prediction table.
LearnedInv ==
    /\ WindowInv
    /\ DOMAIN table.nsid \subseteq Sids
    /\ \A s \in Sids : s \in DOMAIN table.nsid <=> FollowedByOther(s) # {}
    /\ \A s \in DOMAIN table.nsid : \E i \in FollowedByOther(s) : LearnedAt(s, i)

\* The access that has just been followed is the one the previous SID made.
LEMMA FollowedGrows ==
    ASSUME WindowInv, NEW e, Probed(e), NEW s
    PROVE  /\ FollowedByOther(s)' =
                  FollowedByOther(s) \cup
                      (IF table.prev # NoSid /\ table.prev = s /\ e.sid # s
                       THEN {Len(log) - PrefetchDist} ELSE {})
           /\ \A i \in FollowedByOther(s) :
                  /\ i \in 1..Len(log) /\ i + Distance \in 1..Len(log)
                  /\ i < Len(log) - PrefetchDist
           /\ table.prev # NoSid => /\ Len(log) - PrefetchDist \in 1..Len(log)
                                    /\ (Len(log) - PrefetchDist) + Distance = Len(log) + 1
                                    /\ table.prev \in Sids
<1>0. PICK n, p : n = Len(log) /\ p = n - PrefetchDist
  OBVIOUS
<1>1. /\ log' \in Seq(Events) /\ Len(log') = n + 1 /\ n \in Nat /\ log \in Seq(Events)
      /\ \A i \in 1..n : log'[i] = log[i]
      /\ log'[n + 1] = e
  BY <1>0, LogGrows DEF WindowInv
<1>2. table.prev = IF n > PrefetchDist THEN log[p].sid ELSE NoSid
  BY <1>0 DEF WindowInv
<1>3. /\ Distance = PrefetchDist + 1 /\ p + Distance = n + 1 /\ p \in Int
      /\ p = n - PrefetchDist /\ p <= n /\ n \in Nat /\ Distance \in Nat
      /\ n > PrefetchDist <=> p > 0
  BY <1>0, <1>1 DEF Distance
<1>4. FollowedByOther(s) = {i \in 1..(p - 1) : log[i].sid = s /\ log[i + Distance].sid # s}
  <2>1. n - Distance = p - 1
    BY <1>3
  <2> QED BY <1>0, <2>1 DEF FollowedByOther
<1>5. FollowedByOther(s)' = {i \in 1..p : log'[i].sid = s /\ log'[i + Distance].sid # s}
  <2>1. Len(log') - Distance = p
    BY <1>1, <1>3
  <2> QED BY <2>1 DEF FollowedByOther, Distance
<1>6. \A i \in 1..(p - 1) : i \in 1..n /\ i + Distance \in 1..n /\ i < p
  BY <1>3
<1>7. n > PrefetchDist => p \in 1..n /\ log[p] \in Events /\ log[p].sid # NoSid /\ log[p].sid \in Sids
  <2>1. n > PrefetchDist => p \in 1..n
    BY <1>3
  <2> QED BY <1>1, <2>1 DEF Sids
<1>8. ~(n > PrefetchDist) => 1..p = {} /\ 1..(p - 1) = {}
  BY <1>3
<1>9. n > PrefetchDist => 1..p = 1..(p - 1) \cup {p}
  BY <1>3
<1>10. FollowedByOther(s)' = FollowedByOther(s) \cup
                      (IF table.prev # NoSid /\ table.prev = s /\ e.sid # s THEN {p} ELSE {})
  <2>1. CASE n > PrefetchDist
    <3>1. \A i \in 1..(p - 1) : log'[i].sid = log[i].sid /\ log'[i + Distance].sid = log[i + Distance].sid
      BY <1>1, <1>6
    <3>2. log'[p].sid = log[p].sid /\ log'[p + Distance].sid = e.sid
      BY <1>1, <1>3, <1>7, <2>1
    <3>3. table.prev = log[p].sid /\ table.prev # NoSid
      BY <1>2, <1>7, <2>1
    <3> QED BY <1>4, <1>5, <1>9, <2>1, <3>1, <3>2, <3>3
  <2>2. CASE ~(n > PrefetchDist)
    BY <1>2, <1>4, <1>5, <1>8, <2>2
  <2> QED BY <2>1, <2>2
<1> QED BY <1>0, <1>2, <1>3, <1>4, <1>6, <1>7, <1>10

LEMMA NextLearnedInv ==
    ASSUME LearnedInv, [Next]_vars
    PROVE  LearnedInv'
<1>0. WindowInv /\ WindowInv'
  BY NextWindowInv DEF LearnedInv
<1>1. CASE UNCHANGED <<table, log>>
  <2>1. \A s : FollowedByOther(s)' = FollowedByOther(s)
    BY <1>1 DEF FollowedByOther, Distance
  <2> QED BY <1>0, <1>1, <2>1 DEF LearnedInv, LearnedAt, Distance
<1>2. ASSUME NEW e \in Events, Probed(e) PROVE LearnedInv'
  <2>0. PICK n, p, q : n = Len(log) /\ p = table.prev /\ q = Len(log) - PrefetchDist
    OBVIOUS
  <2>1. /\ n \in Nat /\ \A i \in 1..n : log'[i] = log[i]
        /\ log'[n + 1] = e /\ e.sid \in Sids
    BY <1>0, <1>2, <2>0, LogGrows DEF WindowInv
  <2>2. \A s : /\ FollowedByOther(s)' =
                      FollowedByOther(s) \cup
                          (IF p # NoSid /\ p = s /\ e.sid # s THEN {q} ELSE {})
               /\ \A i \in FollowedByOther(s) :
                      i \in 1..n /\ i + Distance \in 1..n /\ i < q
    BY <1>0, <1>2, <2>0, FollowedGrows
  <2>3. p # NoSid => q \in 1..n /\ q + Distance = n + 1 /\ p \in Sids
    BY <1>0, <1>2, <2>0, FollowedGrows
  <2>4. table'.nsid = Learn(e)
    BY <1>2 DEF Probed
  <2>5. /\ DOMAIN table.nsid \subseteq Sids
        /\ \A s \in Sids : s \in DOMAIN table.nsid <=> FollowedByOther(s) # {}
        /\ \A s \in DOMAIN table.nsid : \E i \in FollowedByOther(s) : LearnedAt(s, i)
    BY DEF LearnedInv
  <2>6. Distance \in Nat
    BY DEF Distance
  <2>7. ASSUME NEW s \in DOMAIN table.nsid, table'.nsid[s] = table.nsid[s]
        PROVE  \E i \in FollowedByOther(s)' : LearnedAt(s, i)'
    <3>1. PICK i \in FollowedByOther(s) : LearnedAt(s, i)
      BY <2>5
    <3>2. i \in 1..n /\ i + Distance \in 1..n /\ i < q /\ q \in Int
      BY <2>0, <2>1, <2>2
    <3>3. i \in FollowedByOther(s)' /\ \A j \in FollowedByOther(s)' : i <= j
      <4>1. i \in FollowedByOther(s) /\ \A j \in FollowedByOther(s) : i <= j
        BY <3>1 DEF LearnedAt
      <4>2. \A j \in FollowedByOther(s)' : j \in FollowedByOther(s) \/ j = q
        BY <2>2
      <4>3. i \in FollowedByOther(s)'
        BY <2>2
      <4>4. i <= q
        BY <3>2
      <4> QED BY <4>1, <4>2, <4>3, <4>4
    <3>4. table'.nsid[s] = log'[i + Distance].sid
      BY <2>1, <2>7, <3>1, <3>2 DEF LearnedAt
    <3>5. LearnedAt(s, i)'
      BY <3>3, <3>4 DEF LearnedAt, Distance
    <3> QED BY <3>3, <3>5
  <2>8. CASE p \in {NoSid, e.sid} \/ p \in DOMAIN table.nsid
    <3>1. table'.nsid = table.nsid
      BY <2>0, <2>4, <2>8 DEF Learn
    <3>2. \A s \in Sids : FollowedByOther(s)' # {} <=> FollowedByOther(s) # {}
      BY <2>2, <2>5, <2>8
    <3> QED BY <1>0, <2>5, <2>7, <3>1, <3>2 DEF LearnedInv
  <2>9. CASE p \notin {NoSid, e.sid} /\ p \notin DOMAIN table.nsid
    <3>1. table'.nsid = [s \in DOMAIN table.nsid \cup {p} |->
                            IF s = p THEN e.sid ELSE table.nsid[s]]
      BY <2>0, <2>4, <2>9 DEF Learn
    <3>2. FollowedByOther(p)' = {q} /\ p \in Sids
      BY <2>2, <2>3, <2>5, <2>9
    <3>3. \A s \in Sids : s # p => FollowedByOther(s)' = FollowedByOther(s)
      BY <2>2
    <3>4. LearnedAt(p, q)'
      <4>1. table'.nsid[p] = log'[q + Distance].sid
        BY <2>1, <2>3, <2>9, <3>1
      <4>2. \A j \in FollowedByOther(p)' : q <= j
        BY <2>0, <2>1, <3>2
      <4> QED BY <3>2, <4>1, <4>2 DEF LearnedAt, Distance
    <3>5. \A s \in DOMAIN table'.nsid : \E i \in FollowedByOther(s)' : LearnedAt(s, i)'
      BY <2>7, <2>9, <3>1, <3>2, <3>4
    <3>6. DOMAIN table'.nsid \subseteq Sids
      BY <2>5, <3>1, <3>2
    <3>7. \A s \in Sids : s \in DOMAIN table'.nsid <=> FollowedByOther(s)' # {}
      BY <2>5, <3>1, <3>2, <3>3
    <3> QED BY <1>0, <3>5, <3>6, <3>7 DEF LearnedInv
  <2> QED BY <2>8, <2>9
<1> QED BY <1>1, <1>2, StepIs

LEMMA InitLearnedInv == MCInit => LearnedInv
<1> SUFFICES ASSUME MCInit PROVE LearnedInv
  OBVIOUS
<1>1. log = << >> /\ table.nsid = [s \in {} |-> NoSid]
  BY DEF MCInit, Init
<1>2. \A s : FollowedByOther(s) = {}
  BY <1>1 DEF FollowedByOther, Distance
<1> QED BY <1>1, <1>2, InitWindowInv DEF LearnedInv

\* Whatever the tenants do, a SID is predicted to be followed by the SID that
\* first followed it at the configured distance, and by nobody before that.
THEOREM FirstFollowerIsLearned == Spec => []LearnedFromFirstFollower
<1>1. LearnedInv => LearnedFromFirstFollower
  <2> SUFFICES ASSUME LearnedInv PROVE LearnedFromFirstFollower
    OBVIOUS
  <2>1. log \in Seq(Events) /\ Len(log) \in Nat /\ DOMAIN log = 1..Len(log)
    BY DEF LearnedInv, WindowInv
  <2>2. \A s : \A i \in FollowedByOther(s) : i \in 1..Len(log) /\ log[i].sid = s
    BY <2>1 DEF FollowedByOther, Distance
  <2>3. DOMAIN table.nsid = {e.sid : e \in {log[i] : i \in
                               {j \in DOMAIN log : FollowedByOther(log[j].sid) # {}}}}
    <3>1. \A j \in DOMAIN log : log[j].sid \in Sids
      BY <2>1 DEF Sids
    <3>2. ASSUME NEW s \in DOMAIN table.nsid
          PROVE  \E j \in DOMAIN log : log[j].sid = s /\ FollowedByOther(log[j].sid) # {}
      <4>1. FollowedByOther(s) # {}
        BY DEF LearnedInv
      <4> QED BY <2>1, <2>2, <4>1
    <3>3. ASSUME NEW j \in DOMAIN log, FollowedByOther(log[j].sid) # {}
          PROVE  log[j].sid \in DOMAIN table.nsid
      BY <3>1, <3>3 DEF LearnedInv
    <3> QED BY <3>2, <3>3
  <2>4. ASSUME NEW s \in DOMAIN table.nsid
        PROVE  LET first == CHOOSE i \in FollowedByOther(s) : \A j \in FollowedByOther(s) : i <= j
               IN  table.nsid[s] = log[first + Distance].sid
    <3>1. PICK i \in FollowedByOther(s) : LearnedAt(s, i)
      BY DEF LearnedInv
    <3> DEFINE F == FollowedByOther(s)
               first == CHOOSE k \in F : \A j \in F : k <= j
    <3>2. F \subseteq Nat
      BY <2>2
    <3>3. i \in F /\ \A j \in F : i <= j
      BY <3>1 DEF LearnedAt
    <3> HIDE DEF F
    <3>4. first \in F /\ \A j \in F : first <= j
      BY <3>3
    <3>5. first = i
      <4>1. first \in Nat /\ i \in Nat /\ first <= i /\ i <= first
        BY <3>2, <3>3, <3>4
      <4> QED BY <4>1
    <3> QED BY <3>1, <3>5 DEF LearnedAt, F
  <2> QED BY <2>3, <2>4 DEF LearnedFromFirstFollower
<1> QED BY <1>1, InitLearnedInv, NextLearnedInv, PTL DEF Spec

-----------------------------------------------------------------------------
(* The histories.                                                          *)

HistoryOf(s) == IF s \in DOMAIN table.history THEN table.history[s] ELSE << >>

\* The history h of s is that of its last accesses.
Recent(h, s) ==
    LET cnt == Cardinality(AccessesFrom(s, 1))
    IN  /\ h \in Seq(SavedEvents)
        /\ Len(h) = IF cnt < HistoryLen THEN cnt ELSE HistoryLen
        /\ \A k \in 1..Len(h) : \E i \in AccessesFrom(s, 1) :
               /\ h[k] = Saved(log[i])
               /\ Cardinality(AccessesFrom(s, i)) = (Len(h) - k) + 1

\* The inductive invariant of the histories.
HistoryInv ==
    /\ log \in Seq(Events)
    /\ \A s \in Sids : /\ Recent(HistoryOf(s), s)
                       /\ s \in DOMAIN table.history <=> AccessesFrom(s, 1) # {}

LEMMA AccessesFinite ==
    ASSUME log \in Seq(Events), NEW s, NEW i \in Nat
    PROVE  /\ IsFiniteSet(AccessesFrom(s, i))
           /\ Cardinality(AccessesFrom(s, i)) \in Nat
<1>1. IsFiniteSet(i..Len(log))
  <2>1. i \in Int /\ Len(log) \in Int
    OBVIOUS
  <2> QED BY <2>1, FS_Interval
<1>2. IsFiniteSet(AccessesFrom(s, i))
  BY <1>1, FS_Subset DEF AccessesFrom
<1> QED BY <1>2, FS_CardinalityType

\* An access of e.sid is one more for it, and none for anybody else.
LEMMA AccessesGrow ==
    ASSUME log \in Seq(Events), NEW e, Probed(e), NEW s, NEW i \in 1..(Len(log) + 1)
    PROVE  /\ s # e.sid => AccessesFrom(s, i)' = AccessesFrom(s, i)
           /\ s = e.sid => /\ AccessesFrom(s, i)' = AccessesFrom(s, i) \cup {Len(log) + 1}
                           /\ Cardinality(AccessesFrom(s, i)') = Cardinality(AccessesFrom(s, i)) + 1
<1> DEFINE n == Len(log)
<1>1. /\ Len(log') = n + 1 /\ n \in Nat
      /\ \A j \in 1..n : log'[j] = log[j]
      /\ log'[n + 1] = e
  BY LogGrows
<1>2. i..(n + 1) = i..n \cup {n + 1} /\ n + 1 \notin i..n /\ i..n \subseteq 1..n
  BY <1>1
<1>3. AccessesFrom(s, i)' = {j \in i..(n + 1) : log'[j].sid = s}
  BY <1>1 DEF AccessesFrom
<1> HIDE DEF n
<1>4. AccessesFrom(s, i) = {j \in i..n : log'[j].sid = s}
  BY <1>1, <1>2 DEF AccessesFrom, n
<1>5. s # e.sid => AccessesFrom(s, i)' = AccessesFrom(s, i)
  BY <1>1, <1>2, <1>3, <1>4
<1>6. s = e.sid => AccessesFrom(s, i)' = AccessesFrom(s, i) \cup {n + 1}
  BY <1>1, <1>2, <1>3, <1>4
<1>7. n + 1 \notin AccessesFrom(s, i) /\ IsFiniteSet(AccessesFrom(s, i))
  <2>1. i \in Nat
    BY <1>1 DEF n
  <2>2. n + 1 \notin AccessesFrom(s, i)
    BY <1>2, <1>4
  <2> QED BY <2>1, <2>2, AccessesFinite
<1>8. Cardinality(AccessesFrom(s, i) \cup {n + 1}) = Cardinality(AccessesFrom(s, i)) + 1
  BY <1>7, FS_AddElement
<1> QED BY <1>5, <1>6, <1>8 DEF n

LEMMA RecentSlides ==
    ASSUME log \in Seq(Events), NEW e, Probed(e),
           NEW h, Recent(h, e.sid), NEW t, t = Slide(h, HistoryLen, Saved(e))
    PROVE  Recent(t, e.sid)'
<1>0. PICK s, n : s = e.sid /\ n = Len(log)
  OBVIOUS
<1> DEFINE c == Cardinality(AccessesFrom(s, 1))
           d == Cardinality(AccessesFrom(s, 1)')
<1>1. /\ n \in Nat /\ e \in Events /\ \A j \in 1..n : log'[j] = log[j]
      /\ log'[n + 1] = e
  BY <1>0, LogGrows
<1>2. /\ c \in Nat /\ d = c + 1
      /\ AccessesFrom(s, 1)' = AccessesFrom(s, 1) \cup {n + 1}
  <2>1. 1 \in Nat /\ 1 \in 1..(Len(log) + 1)
    BY <1>0, <1>1
  <2>2. c \in Nat
    BY <2>1, AccessesFinite
  <2> QED BY <1>0, <2>1, <2>2, AccessesGrow
<1>3. /\ h \in Seq(SavedEvents)
      /\ Len(h) = IF c < HistoryLen THEN c ELSE HistoryLen
      /\ \A k \in 1..Len(h) : \E i \in AccessesFrom(s, 1) :
               /\ h[k] = Saved(log[i])
               /\ Cardinality(AccessesFrom(s, i)) = (Len(h) - k) + 1
  BY <1>0 DEF Recent
<1> HIDE DEF c, d
<1>4. Saved(e) \in SavedEvents /\ Len(h) <= HistoryLen /\ Len(h) \in Nat
  BY <1>1, <1>2, <1>3 DEF SavedEvents
<1>5. t \in Seq(SavedEvents) /\ Slid(t, h, HistoryLen, Saved(e))
  BY <1>3, <1>4, SlideIs
<1>6. Len(t) = (IF d < HistoryLen THEN d ELSE HistoryLen) /\ Len(t) \in Nat
  BY <1>2, <1>3, <1>4, <1>5 DEF Slid
<1>7. ASSUME NEW k \in 1..Len(t)
      PROVE  \E i \in AccessesFrom(s, 1)' :
                 /\ t[k] = Saved(log'[i])
                 /\ Cardinality(AccessesFrom(s, i)') = (Len(t) - k) + 1
  <2>1. CASE k = Len(t)
    <3>1. n + 1 \in 1..(Len(log) + 1) /\ AccessesFrom(s, n + 1) = {}
      BY <1>0, <1>1 DEF AccessesFrom
    <3>2. Cardinality(AccessesFrom(s, n + 1)') = 1
      <4>1. Cardinality(AccessesFrom(s, n + 1)') = Cardinality(AccessesFrom(s, n + 1)) + 1
        BY <1>0, <3>1, AccessesGrow
      <4>2. Cardinality(AccessesFrom(s, n + 1)) = 0
        BY <3>1, FS_EmptySet
      <4> QED BY <4>1, <4>2
    <3>3. t[k] = Saved(log'[n + 1])
      BY <1>1, <1>5, <2>1 DEF Slid
    <3>4. (Len(t) - k) + 1 = 1
      BY <1>6, <2>1
    <3> QED BY <1>2, <3>2, <3>3, <3>4
  <2>2. CASE k # Len(t)
    <3>1. PICK m \in 1..Len(h) : t[k] = h[m] /\ (Len(h) - m) + 1 = Len(t) - k
      <4>1. Older(t, k, h)
        BY <1>4, <1>5, <2>2, SlidFrom
      <4> QED BY <4>1 DEF Older
    <3>2. PICK i \in AccessesFrom(s, 1) :
               /\ h[m] = Saved(log[i])
               /\ Cardinality(AccessesFrom(s, i)) = (Len(h) - m) + 1
      BY <1>3
    <3>3. i \in 1..n /\ i \in 1..(Len(log) + 1)
      BY <1>0, <1>1 DEF AccessesFrom
    <3>4. Cardinality(AccessesFrom(s, i)') = Cardinality(AccessesFrom(s, i)) + 1
      BY <1>0, <3>3, AccessesGrow
    <3>5. t[k] = Saved(log'[i])
      BY <1>1, <3>1, <3>2, <3>3
    <3> QED BY <1>2, <3>1, <3>2, <3>4, <3>5
  <2> QED BY <2>1, <2>2
<1> QED BY <1>0, <1>5, <1>6, <1>7 DEF Recent, d

LEMMA RecentKept ==
    ASSUME log \in Seq(Events), NEW e, Probed(e), NEW s, s # e.sid,
           NEW h, Recent(h, s)
    PROVE  Recent(h, s)'
<1>1. /\ Len(log) \in Nat /\ \A j \in 1..Len(log) : log'[j] = log[j]
  BY LogGrows
<1>2. \A i \in 1..(Len(log) + 1) : AccessesFrom(s, i)' = AccessesFrom(s, i)
  BY AccessesGrow
<1>3. AccessesFrom(s, 1)' = AccessesFrom(s, 1)
  BY <1>1, <1>2
<1>4. \A i \in AccessesFrom(s, 1) :
          i \in 1..Len(log) /\ i \in 1..(Len(log) + 1) /\ log'[i] = log[i]
  BY <1>1 DEF AccessesFrom
<1> QED BY <1>2, <1>3, <1>4 DEF Recent

LEMMA NextHistoryInv ==
    ASSUME HistoryInv, [Next]_vars
    PROVE  HistoryInv'
<1>1. CASE UNCHANGED <<table, log>>
  <2>1. ASSUME NEW s PROVE HistoryOf(s)' = HistoryOf(s)
    BY <1>1 DEF HistoryOf
  <2>2. ASSUME NEW s, NEW i PROVE AccessesFrom(s, i)' = AccessesFrom(s, i)
    BY <1>1 DEF AccessesFrom
  <2>3. ASSUME NEW s, Recent(HistoryOf(s), s) PROVE Recent(HistoryOf(s), s)'
    BY <1>1, <2>1, <2>2, <2>3 DEF Recent
  <2> QED BY <1>1, <2>2, <2>3 DEF HistoryInv
<1>2. ASSUME NEW e \in Events, Probed(e) PROVE HistoryInv'
  <2>0. /\ log \in Seq(Events) /\ log' \in Seq(Events) /\ Len(log) \in Nat
        /\ e.sid \in Sids
    BY <1>2, LogGrows DEF HistoryInv
  <2>1. table'.history = [s \in DOMAIN table.history \cup {e.sid} |->
            IF s = e.sid THEN Slide(HistoryOf(s), HistoryLen, Saved(e)) ELSE HistoryOf(s)]
    BY <1>2 DEF Probed, Remember, HistoryOf
  <2>2. ASSUME NEW s \in Sids
        PROVE  /\ Recent(HistoryOf(s), s)'
               /\ s \in DOMAIN table'.history <=> AccessesFrom(s, 1)' # {}
    <3>1. Recent(HistoryOf(s), s) /\ (s \in DOMAIN table.history <=> AccessesFrom(s, 1) # {})
      BY DEF HistoryInv
    <3>2. 1 \in 1..(Len(log) + 1)
      BY <2>0
    <3>3. CASE s = e.sid
      <4>1. HistoryOf(s)' = Slide(HistoryOf(s), HistoryLen, Saved(e))
        BY <2>1, <3>3 DEF HistoryOf
      <4>2. PICK h, t : h = HistoryOf(s) /\ t = Slide(h, HistoryLen, Saved(e)) /\ t = HistoryOf(s)'
        BY <4>1
      <4>3. Recent(t, s)'
        BY <1>2, <2>0, <3>1, <3>3, <4>2, RecentSlides
      <4>4. AccessesFrom(s, 1)' = AccessesFrom(s, 1) \cup {Len(log) + 1}
        BY <1>2, <2>0, <3>2, <3>3, AccessesGrow
      <4> QED BY <2>1, <3>3, <4>2, <4>3, <4>4
    <3>4. CASE s # e.sid
      <4>1. HistoryOf(s)' = HistoryOf(s)
        BY <2>1, <3>4 DEF HistoryOf
      <4>2. PICK h : h = HistoryOf(s) /\ h = HistoryOf(s)'
        BY <4>1
      <4>3. Recent(h, s)'
        BY <1>2, <2>0, <3>1, <3>4, <4>2, RecentKept
      <4>4. AccessesFrom(s, 1)' = AccessesFrom(s, 1)
        BY <1>2, <2>0, <3>2, <3>4, AccessesGrow
      <4> QED BY <2>1, <3>1, <3>4, <4>2, <4>3, <4>4
    <3> QED BY <3>3, <3>4
  <2> QED BY <2>0, <2>2 DEF HistoryInv
<1> QED BY <1>1, <1>2, StepIs

LEMMA InitHistoryInv == MCInit => HistoryInv
<1> SUFFICES ASSUME MCInit PROVE HistoryInv
  OBVIOUS
<1>1. log = << >> /\ table.history = [s \in {} |-> << >>]
  BY DEF MCInit, Init
<1>2. \A s : HistoryOf(s) = << >> /\ AccessesFrom(s, 1) = {}
  BY <1>1 DEF HistoryOf, AccessesFrom
<1>3. \A s : Recent(HistoryOf(s), s)
  <2>1. Cardinality({}) = 0 /\ << >> \in Seq(SavedEvents) /\ Len(<< >>) = 0
    BY FS_EmptySet, EmptySeq
  <2> SUFFICES ASSUME NEW s PROVE Recent(HistoryOf(s), s)
    OBVIOUS
  <2>2. HistoryOf(s) = << >> /\ AccessesFrom(s, 1) = {}
    BY <1>2
  <2>3. 0 < HistoryLen /\ 1..0 = {}
    OBVIOUS
  <2> QED BY <2>1, <2>2, <2>3 DEF Recent
<1> QED BY <1>1, <1>2, <1>3, EmptySeq DEF HistoryInv

\* However the tenants' accesses interleave, a SID's history offers exactly its
\* own last accesses.
THEOREM HistoriesAreRecent == Spec => []HistoryIsRecent
<1>1. HistoryInv => HistoryIsRecent
  <2> SUFFICES ASSUME HistoryInv, NEW s \in {e.sid : e \in ToSet(log)}
               PROVE  /\ s \in DOMAIN table.history
                      /\ Recent(table.history[s], s)
    BY DEF HistoryIsRecent, Recent
  <2>1. PICK j \in 1..Len(log) : log[j].sid = s
    BY DEF HistoryInv, ToSet
  <2>2. s \in Sids
    BY <2>1 DEF HistoryInv, Sids
  <2>3. j \in AccessesFrom(s, 1)
    BY <2>1 DEF AccessesFrom
  <2>4. s \in DOMAIN table.history /\ Recent(HistoryOf(s), s)
    BY <2>2, <2>3 DEF HistoryInv
  <2> QED BY <2>4 DEF HistoryOf
<1> QED BY <1>1, InitHistoryInv, NextHistoryInv, PTL DEF Spec

-----------------------------------------------------------------------------
(* The predictions.                                                        *)

\* The inductive invariant of the predictions: whoever is or may come to be
\* predicted has pages in its history.
ScoreInv ==
    /\ HistoryInv /\ WindowInv
    /\ {table.made, table.correct, table.incorrect} \subseteq Nat
    /\ table.made = (table.correct + table.incorrect)
                      + IF table.prediction = NoSid THEN 0 ELSE 1
    /\ \A s \in DOMAIN table.nsid :
           table.nsid[s] \in Sids \cap DOMAIN table.history
    /\ table.prediction \in (Sids \cap DOMAIN table.history) \cup {NoSid}
    /\ NoSid \notin Sids

LEMMA NextScoreInv ==
    ASSUME ScoreInv, [Next]_vars
    PROVE  ScoreInv'
<1>0. HistoryInv' /\ WindowInv' /\ HistoryInv /\ WindowInv
  BY NextHistoryInv, NextWindowInv DEF ScoreInv
<1>1. CASE UNCHANGED <<table, log>>
  BY <1>0, <1>1 DEF ScoreInv
<1>2. ASSUME NEW e \in Events, Probed(e) PROVE ScoreInv'
  <2>1. /\ {table.made, table.correct, table.incorrect} \subseteq Nat
        /\ table.made = (table.correct + table.incorrect)
                          + IF table.prediction = NoSid THEN 0 ELSE 1
    BY DEF ScoreInv
  <2>2. DOMAIN table'.history = DOMAIN table.history \cup {e.sid}
    BY <1>2 DEF Probed, Remember
  <2>3. e.sid \in Sids /\ e.sid # NoSid
    BY <1>0, <1>2, LogGrows DEF WindowInv
  <2>4. table'.nsid = Learn(e) /\ table'.prediction = Predict(e)
    BY <1>2 DEF Probed
  <2>5. \A s \in DOMAIN table'.nsid : table'.nsid[s] \in Sids \cap DOMAIN table'.history
    BY <2>2, <2>3, <2>4 DEF Learn, ScoreInv
  <2>6. table'.prediction \in (Sids \cap DOMAIN table'.history) \cup {NoSid}
    BY <2>2, <2>4 DEF Predict, ScoreInv
  <2>7. /\ table'.made = table.made + (IF table'.prediction = NoSid THEN 0 ELSE 1)
        /\ table'.correct = table.correct
             + (IF table.prediction # NoSid /\ table.prediction = e.sid THEN 1 ELSE 0)
        /\ table'.incorrect = table.incorrect
             + (IF table.prediction # NoSid /\ table.prediction # e.sid THEN 1 ELSE 0)
    BY <1>2 DEF Probed, Scored
  <2>8. /\ table'.correct \in Nat /\ table'.incorrect \in Nat /\ table'.made \in Nat
        /\ table'.correct + table'.incorrect = table.made
    BY <2>1, <2>7
  <2>9. table'.made = (table'.correct + table'.incorrect)
                        + IF table'.prediction = NoSid THEN 0 ELSE 1
    BY <2>7, <2>8
  <2> QED BY <1>0, <2>5, <2>6, <2>8, <2>9 DEF ScoreInv
<1> QED BY <1>1, <1>2, StepIs

LEMMA InitScoreInv == MCInit => ScoreInv
<1> SUFFICES ASSUME MCInit PROVE ScoreInv
  OBVIOUS
<1>1. /\ table.made = 0 /\ table.correct = 0 /\ table.incorrect = 0
      /\ table.prediction = NoSid /\ table.nsid = [s \in {} |-> NoSid]
  BY DEF MCInit, Init
<1>2. NoSid \notin Sids
  BY DEF Sids
<1> QED BY <1>1, <1>2, InitHistoryInv, InitWindowInv DEF ScoreInv

\* Every prediction is scored once, by the next access, and the one still to be
\* scored has pages to prefetch, whatever is predicted.
THEOREM EveryPredictionScored == Spec => []PredictionsScored
<1>1. ScoreInv => PredictionsScored
  <2> SUFFICES ASSUME ScoreInv PROVE PredictionsScored
    OBVIOUS
  <2>1. ASSUME table.prediction # NoSid
        PROVE  table.history[table.prediction] # << >>
    <3> DEFINE s == table.prediction
    <3>1. s \in Sids /\ s \in DOMAIN table.history
      BY <2>1 DEF ScoreInv
    <3> HIDE DEF s
    <3>2. log \in Seq(Events) /\ AccessesFrom(s, 1) # {} /\ Recent(table.history[s], s)
      BY <3>1 DEF ScoreInv, HistoryInv, HistoryOf
    <3>3. Cardinality(AccessesFrom(s, 1)) \in Nat \ {0}
      BY <3>2, AccessesFinite, FS_EmptySet
    <3>4. Len(table.history[s]) # 0
      BY <3>2, <3>3 DEF Recent
    <3> QED BY <3>4 DEF s
  <2> QED BY <2>1 DEF ScoreInv, PredictionsScored
<1> QED BY <1>1, InitScoreInv, NextScoreInv, PTL DEF Spec
=============================================================================

---------------------------- MODULE Prefetcher ----------------------------
(***************************************************************************)
(* The SID-predicting prefetcher of include/prefetcher.h and               *)
(* src/prefetcher.cpp: a small buffer of prefetched pages, the last pages  *)
(* each SID touched, and a table that maps a SID to the SID seen some      *)
(* number of accesses later, whose last pages are then prefetched.         *)
(*                                                                         *)
(* The hit and miss counters of a SID's history are printed at the end and *)
(* otherwise not read; TableEntry.cnt and the inter-SID distances are not  *)
(* even printed.  All are left out, and with them the search of the        *)
(* history that counts.                                                    *)
(***************************************************************************)
EXTENDS Naturals, Sequences, FiniteSets

CONSTANTS
    BuffSize,     \* _buffer_size: entries of the buffer, 0 for none
    HistoryLen,   \* _lastaddr_num: pages remembered per SID
    PrefetchDist, \* _global_sid_hist_len
    MaxNat,       \* "no known next access", the largest uint64_t
    Fanout,
    NoSid         \* not a SID: _is_prev_set or _is_prediction_set is FALSE

\* With a history length or a distance of 0 the code erases from, or reads the
\* front of, an empty vector.
ASSUME PrefetcherAssumption ==
    /\ {BuffSize, MaxNat} \subseteq Nat
    /\ {HistoryLen, PrefetchDist} \subseteq Nat \ {0}

VARIABLES
    buffer,   \* _buffer
    table     \* the prediction tables and their statistics

Buffer == INSTANCE BaseCache
            WITH cache <- buffer, Lvl <- 1, RowT <- "LRU", MaxFreq <- 15,
                 Size <- BuffSize, Assoc <- BuffSize, Groups <- 1,
                 SAllocs <- {FALSE}, StartDid <- 0

Init ==
    /\ Buffer!Init
    /\ table = [history    |-> [s \in {} |-> <<>>],  \* _sid_history_map
                nsid       |-> [s \in {} |-> NoSid], \* _sid_nsid_map
                sidhist    |-> <<>>,                 \* _global_sid_hist
                prev       |-> NoSid,                \* _prev_sid
                prediction |-> NoSid,                \* _prediction_sid
                made |-> 0, correct |-> 0, incorrect |-> 0]

-----------------------------------------------------------------------------
\* Fault: the window grows by one element too many.
SlideLate(seq, n, x) == Append(IF Len(seq) > n THEN Tail(seq) ELSE seq, x)

\* A full window drops its oldest element before the newest is appended.
Slide(seq, n, x) == Append(IF Len(seq) = n THEN Tail(seq) ELSE seq, x)

\* The event recorded in a history: a copy, with no next access time.
Saved(e) == [e EXCEPT !.nat = MaxNat]

\* The history after the access: the SID's list gets the new page.
Remember(e) ==
    [s \in DOMAIN table.history \cup {e.sid} |->
        LET old == IF s \in DOMAIN table.history THEN table.history[s] ELSE <<>>
        IN  IF s = e.sid THEN Slide(old, HistoryLen, Saved(e)) ELSE old]

\* The SID predicted to come next.
Predict(e) == IF e.sid \in DOMAIN table.nsid THEN table.nsid[e.sid] ELSE NoSid

\* A mapping from the previous SID is added the first time that SID is followed
\* by a different one, and is never changed afterwards.
Learn(e) ==
    IF table.prev \in {NoSid, e.sid} \/ table.prev \in DOMAIN table.nsid THEN table.nsid
    ELSE [s \in DOMAIN table.nsid \cup {table.prev} |->
             IF s = table.prev THEN e.sid ELSE table.nsid[s]]

\* Fault: the previous SID is taken from the window without removing it first.
NewestFirst(e) == IF Len(table.sidhist) = PrefetchDist THEN table.sidhist[PrefetchDist] ELSE table.prev

\* The SID that falls out of the full window of recent SIDs.
NextPrev(e) == IF Len(table.sidhist) = PrefetchDist THEN Head(table.sidhist) ELSE table.prev

\* Fault: the prediction just made is scored instead of the previous one.
ScoredNew(e, n, ok) == n + IF Predict(e) # NoSid /\ (Predict(e) = e.sid) = ok THEN 1 ELSE 0

\* The previous prediction was right, or wrong.
Scored(e, n, ok) == n + IF table.prediction # NoSid /\ (table.prediction = e.sid) = ok THEN 1 ELSE 0

\* Probe scores the previous prediction, predicts from the table as it was
\* before this access, and only then learns from it.
Probe(e) ==
    table' = [history    |-> Remember(e),
              nsid       |-> Learn(e),
              sidhist    |-> Slide(table.sidhist, PrefetchDist, e.sid),
              prev       |-> NextPrev(e),
              prediction |-> Predict(e),
              made       |-> table.made + IF Predict(e) = NoSid THEN 0 ELSE 1,
              correct    |-> Scored(e, table.correct, TRUE),
              incorrect  |-> Scored(e, table.incorrect, FALSE)]

\* The pages Probe asks the simulator to prefetch.
Suggested(e) == IF Predict(e) = NoSid THEN <<>> ELSE Remember(e)[Predict(e)]

\* A prefetched translation arrives.
Fill(e) == Buffer!Translate(e, TRUE)

\* A demand access looks its page up; IsHit is what Translate returns.
IsHit(e) == Buffer!IsHit(e)
Translate(e) == Buffer!Translate(e, FALSE)
-----------------------------------------------------------------------------
\* The tables hold translations of E, and every SID the prefetcher may come to
\* predict has a history: Suggested never looks up a SID it has not seen.
TableOK(E) ==
    LET seen == DOMAIN table.history
    IN  /\ \A s \in seen : table.history[s] \in Seq(E)
        /\ \A s \in DOMAIN table.nsid : table.nsid[s] \in seen
        /\ table.sidhist \in Seq(seen)
        /\ table.prev \in seen \cup {NoSid}
=============================================================================

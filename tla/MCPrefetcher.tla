--------------------------- MODULE MCPrefetcher ---------------------------
(***************************************************************************)
(* The prefetcher on its own, driven the way SIOPerf::RunCycle drives it:  *)
(* every demand access looks its page up and is then probed, and the pages *)
(* a probe suggests come back as fills, later and in any order.            *)
(***************************************************************************)
EXTENDS Prefetcher, SequencesExt

CONSTANTS
    Events,      \* demand accesses the tenants make
    MaxAccesses  \* bound on their number

ASSUME EventsAssumption ==
    /\ \A e \in Events : e.sid # NoSid
    /\ MaxAccesses \in Nat

VARIABLES
    log,       \* history: the accesses made so far
    requested  \* prefetches under way

vars == <<buffer, table, log, requested>>

MCInit == Init /\ log = <<>> /\ requested = {}

Access(e) ==
    /\ Len(log) < MaxAccesses
    /\ Translate(e)
    /\ Probe(e)
    /\ log' = Append(log, e)
    /\ requested' = requested \cup ToSet(Suggested(e))

Arrive(e) ==
    /\ Fill(e)
    /\ requested' = requested \ {e}
    /\ UNCHANGED <<table, log>>

Next == (\E e \in Events : Access(e)) \/ (\E e \in requested : Arrive(e))

Spec == MCInit /\ [][Next]_vars

-----------------------------------------------------------------------------
\* SID 0 touches two 4KB pages, SIDs 1 and 2 one each.
MCEvents ==
    {[sid |-> p[1], did |-> p[1], iova |-> p[2], lvl |-> 1, nat |-> 1] :
        p \in {<<0, 0>>, <<0, 1>>, <<1, 0>>, <<2, 0>>}}

\* The accesses of s from the i-th of the log on.
AccessesFrom(s, i) == {j \in i..Len(log) : log[j].sid = s}

\* What a SID's history offers for prefetching is exactly its last HistoryLen
\* accesses, oldest first, whatever the other tenants did in between: what is
\* k-th from the end is its k-th latest access (_sid_history_map in Probe).
HistoryIsRecent ==
    \A s \in {e.sid : e \in ToSet(log)} :
        LET h   == table.history[s]
            cnt == Cardinality(AccessesFrom(s, 1))
        IN  /\ s \in DOMAIN table.history
            /\ Len(h) = IF cnt < HistoryLen THEN cnt ELSE HistoryLen
            /\ \A k \in 1..Len(h) : \E i \in AccessesFrom(s, 1) :
                   /\ h[k] = Saved(log[i])
                   /\ Cardinality(AccessesFrom(s, i)) = (Len(h) - k) + 1

\* The positions at which an access of s is followed, Distance accesses later,
\* by another SID.
Distance == PrefetchDist + 1
FollowedByOther(s) ==
    {i \in 1..(Len(log) - Distance) : log[i].sid = s /\ log[i + Distance].sid # s}

\* The table maps a SID to the SID of the access PrefetchDist + 1 places after
\* the first of its accesses that another SID follows at that distance, and to
\* nothing before there is one (_sid_nsid_map and _global_sid_hist in Probe).
LearnedFromFirstFollower ==
    /\ DOMAIN table.nsid = {e.sid : e \in {log[i] : i \in
                               {j \in DOMAIN log : FollowedByOther(log[j].sid) # {}}}}
    /\ \A s \in DOMAIN table.nsid :
           LET first == CHOOSE i \in FollowedByOther(s) : \A j \in FollowedByOther(s) : i <= j
           IN  table.nsid[s] = log[first + Distance].sid

\* Every prediction made is scored exactly once, by the next access, and the
\* one still pending is for a SID that has pages to prefetch: the printed
\* counters add up (Probe's _is_prediction_set).
PredictionsScored ==
    /\ table.made = table.correct + table.incorrect
                      + IF table.prediction = NoSid THEN 0 ELSE 1
    /\ table.prediction # NoSid => table.history[table.prediction] # <<>>
=============================================================================

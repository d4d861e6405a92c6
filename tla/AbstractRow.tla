---------------------------- MODULE AbstractRow ----------------------------
(***************************************************************************)
(* What any row of a translation cache promises its cache, whatever the    *)
(* replacement policy: it holds at most RowSize keys, a lookup never       *)
(* changes which keys it holds, and installing a missing key evicts one    *)
(* other key when the row is full and none otherwise.  A pinned key stays  *)
(* once it is there, even if a missing one cannot be installed for it.     *)
(***************************************************************************)
EXTENDS Naturals, FiniteSets

CONSTANTS Keys, RowSize

VARIABLES keys, pinned

Init == keys = {} /\ pinned \subseteq Keys

\* There is room: nothing is evicted.
FillFree(k) ==
    /\ k \notin keys
    /\ Cardinality(keys) < RowSize
    /\ keys' = keys \cup {k}
    /\ UNCHANGED pinned

\* The row is full: exactly one resident key, not a pinned one, makes room.
FillEvicting(k) ==
    /\ k \notin keys
    /\ Cardinality(keys) = RowSize
    /\ \E v \in keys \ pinned : keys' = (keys \ {v}) \cup {k}
    /\ UNCHANGED pinned

Next == \E k \in Keys : FillFree(k) \/ FillEvicting(k)

Spec == Init /\ [][Next]_<<keys, pinned>>
=============================================================================

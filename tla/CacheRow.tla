----------------------------- MODULE CacheRow -----------------------------
(***************************************************************************)
(* A cache row under the only protocol its owner uses: BaseCache::Translate*)
(* (include/cache.tcc) first searches the row for the key and, if the key  *)
(* is missing and the access allocates, adds it.                           *)
(***************************************************************************)
EXTENDS CacheRowOps

CONSTANTS
    Keys,   \* the keys that map to this row
    Nats    \* next access times an event can carry (NAT policy only)

\* A next access time is the index of an event after another one, or the largest
\* uint64_t; the row's owner creates no rows when it has no ways.
ASSUME NatsAssumption ==
    /\ Nats \subseteq Nat \ {0}
    /\ RowSize > 0

VARIABLES
    row,
    stack   \* history, for "LRU" only: keys by recency of use, latest last

vars == <<row, stack>>

Init ==
    /\ row \in {EmptyRow(t) : t \in RowTypes} \cup {EmptyPinRow(p) : p \in SUBSET Keys}
    /\ stack = <<>>

Touch(k) == stack' = IF row.type = "LRU" THEN MoveToBack(stack, k) ELSE stack

\* A hit refreshes the policy's data and evicts nothing (SearchKey of each policy).
Hit(k, nat) ==
    /\ k \in row.entries
    /\ row' = SearchKey(row, k, nat)
    /\ Touch(k)

\* A miss of an access that does not allocate changes nothing; one that does
\* installs the key.
Fill(k, nat) ==
    /\ k \notin row.entries
    /\ row' \in AddEntry(row, k, nat)
    /\ Touch(k)

Next == \E k \in Keys, nat \in Nats : Hit(k, nat) \/ Fill(k, nat)

Spec == Init /\ [][Next]_vars

-----------------------------------------------------------------------------
\* The policy's bookkeeping and _entries, two containers updated by different
\* methods, always describe the same keys: no key is tracked after its
\* eviction (InvKey) and none is resident without being tracked.
BookkeepingMatches ==
    IF IsLRU(row)
    THEN /\ ToSet(row.meta) = row.entries
         /\ Len(row.meta) = Cardinality(row.entries)
    ELSE DOMAIN row.meta = row.entries

\* The LRU row holds exactly the most recently used keys, in order of use: the
\* fifo is the end of the recency stack.
FifoIsRecencyOrder ==
    row.type = "LRU" =>
        row.meta = SubSeq(stack, Len(stack) - Len(row.meta) + 1, Len(stack))

\* After every access the LFU counters stay below the halving threshold, so
\* they never reach the value the victim scan starts from.
CountersBelowMax ==
    row.type = "LFU" => \A k \in DOMAIN row.meta : row.meta[k] < MaxFreq

\* Whatever the policy, the row is a bounded set that evicts only when full, and
\* then one resident key that is not pinned: GetVictimKey never reads front() of
\* an empty fifo, never divides by an empty candidate list and never returns an
\* uninitialized key.
Bounded == INSTANCE AbstractRow
    WITH keys <- row.entries, pinned <- IF row.type = "LRUPin" THEN row.pinned ELSE {}
ImplementsAbstractRow == Bounded!Spec
=============================================================================

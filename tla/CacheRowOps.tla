---------------------------- MODULE CacheRowOps ----------------------------
(***************************************************************************)
(* One row (set) of a translation cache: the class templates CacheRow,     *)
(* CacheRowLRU, CacheRowLRUPin, CacheRowLFU and CacheRowNAT of             *)
(* include/row.h and include/row.tcc, as operators on a row value.         *)
(* CacheRow.tla makes a state machine of them, BaseCache.tla a             *)
(* set-associative cache.                                                  *)
(*                                                                         *)
(* A row is a record: `type` is its class, `entries` is the key set of     *)
(* _entries, and `meta` is what the replacement policy keeps beside it:    *)
(*   "LRU"  _age_key_fifo, a sequence of keys, least recently used first   *)
(*   "LFU"  _key_freq_map, a counter per key                               *)
(*   "NAT"  CacheEntry.next_acc_time, the next access time per key         *)
(* "LRUPin" is an "LRU" row that holds `pinned`, the keys whose address is  *)
(* in _pinned_addr_v, besides; nothing instantiates it yet.                *)
(* The payload of an entry (the SLPTE) is never read back and is left out. *)
(***************************************************************************)
EXTENDS Naturals, SequencesExt

CONSTANTS
    RowSize,   \* _max_size: ways of a row
    MaxFreq    \* _max_freq_cnt: the LFU counter value that halves all counters

ASSUME RowAssumption ==
    /\ RowSize \in Nat
    /\ MaxFreq \in Nat \ {0}

\* The replacement policies the program chooses from.
RowTypes == {"LRU", "LFU", "NAT"}

\* Not a key of any row: what an uninitialized KEY_T names.
NoKey == "none"

EmptyRow(t) ==
    [type |-> t, entries |-> {}, meta |-> IF t = "LRU" THEN <<>> ELSE [x \in {} |-> 0]]

\* After SetPinnedPages.
EmptyPinRow(pinned) ==
    [type |-> "LRUPin", entries |-> {}, meta |-> <<>>, pinned |-> pinned]

IsLRU(row) == row.type \in {"LRU", "LRUPin"}

-----------------------------------------------------------------------------
\* The age fifo holds a key at most once (FifoIsRecencyOrder), so erasing every
\* occurrence, erase(remove(..)), is erasing the first.
MoveToBack(fifo, k) == Append(RemoveFirst(fifo, k), k)

\* Fault: the counters are never halved.
CountNoHalving(freq, k) == [freq EXCEPT ![k] = @ + 1]

\* Every counter is shifted right by one when the incremented one reaches MaxFreq.
Count(freq, k) ==
    LET up == [freq EXCEPT ![k] = @ + 1]
    IN  IF up[k] = MaxFreq THEN [x \in DOMAIN up |-> up[x] \div 2] ELSE up

\* Fault: a hit does not refresh the policy's data.
SearchKeyNoRefresh(row, k, nat) == row

\* SearchKey also refreshes the policy's data when the key is found.
SearchKey(row, k, nat) ==
    IF k \notin row.entries THEN row
    ELSE [row EXCEPT !.meta = CASE IsLRU(row) -> MoveToBack(@, k)
                                [] row.type = "LFU" -> Count(@, k)
                                [] row.type = "NAT" -> [@ EXCEPT ![k] = nat]]

-----------------------------------------------------------------------------
\* The front of the age fifo.
LRUVictims(row) == {Head(row.meta)}

\* Any key whose counter is least (rand() picks one); the scan starts from
\* MaxFreq, so a key above it is never a candidate.
LFUVictims(row) ==
    {k \in DOMAIN row.meta :
        /\ row.meta[k] <= MaxFreq
        /\ \A x \in DOMAIN row.meta : row.meta[k] <= row.meta[x]}

\* Fault: the scan of NATVictims starts from 1.
NATVictimsFromOne(row) ==
    IF \E k \in row.entries : row.meta[k] > 1
    THEN {k \in row.entries : \A x \in row.entries : row.meta[k] >= row.meta[x]}
    ELSE row.entries \cup {NoKey}

\* The key used farthest in the future; the scan keeps a key only if its next
\* access time exceeds 0, and otherwise returns an uninitialized key.
NATVictims(row) ==
    IF \E k \in row.entries : row.meta[k] > 0
    THEN {k \in row.entries : \A x \in row.entries : row.meta[k] >= row.meta[x]}
    ELSE row.entries \cup {NoKey}

GetVictimKey(row) ==
    CASE IsLRU(row) -> LRUVictims(row)
      [] row.type = "LFU" -> LFUVictims(row)
      [] row.type = "NAT" -> NATVictims(row)

\* Fault: only the base class's InvKey runs, the policy's data keeps the key.
InvKeyBaseOnly(row, k) == [row EXCEPT !.entries = @ \ {k}]

InvKey(row, k) ==
    [row EXCEPT !.entries = @ \ {k},
                !.meta = IF IsLRU(row) THEN RemoveFirst(@, k)
                         ELSE [x \in DOMAIN @ \ {k} |-> row.meta[x]]]

\* _entries[k] = v and the policy's own bookkeeping for the new key.
Install(row, k, nat) ==
    [row EXCEPT !.entries = @ \cup {k},
                !.meta = CASE IsLRU(row) -> Append(@, k)
                           [] row.type = "LFU" -> [x \in DOMAIN @ \cup {k} |->
                                                  IF x = k THEN 0 ELSE row.meta[x]]
                           [] row.type = "NAT" -> [x \in DOMAIN @ \cup {k} |->
                                                  IF x = k THEN nat ELSE row.meta[x]]]

\* AddEntry returns TRUE, a conflict, exactly when the row is full.
IsConflict(row) == Cardinality(row.entries) = RowSize

\* CacheRowLRUPin looks at one victim only: if it is pinned, nothing is added.
PinnedVictim(row) == row.type = "LRUPin" /\ LRUVictims(row) \subseteq row.pinned

\* The rows AddEntry can leave: one per victim when the row is full.
AddEntry(row, k, nat) ==
    IF IsConflict(row) /\ PinnedVictim(row) THEN {row}
    ELSE IF IsConflict(row)
    THEN {Install(InvKey(row, v), k, nat) : v \in GetVictimKey(row)}
    ELSE {Install(row, k, nat)}
=============================================================================

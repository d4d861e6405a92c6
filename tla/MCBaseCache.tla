---------------------------- MODULE MCBaseCache ----------------------------
(***************************************************************************)
(* A cache on its own, driven the way SIOPerf drives it: lookups that do   *)
(* not allocate, and fills that allocate when the DID may.                 *)
(***************************************************************************)
EXTENDS BaseCache

CONSTANTS
    Dids,          \* domains issuing translations
    Iovas,         \* 4KB page numbers they touch
    Lvls,          \* page levels (1: 4KB, 2: 2MB)
    MaxAccesses    \* bound on counted accesses, so that the counters are finite

\* Pages of 4KB and 2MB, which is what include/config.h assumes.
ASSUME EventsAssumption ==
    /\ Dids \subseteq Nat
    /\ Iovas \subseteq Nat
    /\ Lvls \subseteq {1, 2}
    /\ MaxAccesses \in Nat

\* Every domain touches every page, at every level.
Events ==
    {[sid |-> d, did |-> d, iova |-> a, lvl |-> l, nat |-> 1] :
        d \in Dids, a \in Iovas, l \in Lvls}

\* A lookup never allocates; a fill does when the DID may, and is counted.
Access(e, fill) ==
    /\ fill => cache.hit + cache.miss < MaxAccesses
    /\ Translate(e, fill /\ IsDIDCacheable(e.did))

Next == \E e \in Events, fill \in BOOLEAN : Access(e, fill)

Spec == Init /\ [][Next]_cache
=============================================================================

----------------------------- MODULE BaseCache -----------------------------
(***************************************************************************)
(* A set-associative, DID-partitioned translation cache: BaseCache and its *)
(* subclasses ContextCache and AddrCache of include/cache.h and            *)
(* include/cache.tcc.  The simulator (SIOPerf.tla) and the prefetcher      *)
(* (Prefetcher.tla) each hold instances of this module.                    *)
(*                                                                         *)
(* An event is a record with the fields sid, did, iova, lvl and nat.  iova *)
(* counts 4KB pages, so a level-l page starts at a multiple of PageSize[l],*)
(* Fanout being 2^PAGE_LEVEL_SHIFT; an event's mask is that of its level.  *)
(***************************************************************************)
EXTENDS Naturals, FiniteSets, Functions

CONSTANTS
    Lvl,       \* _lvl: 1 (IOTLB and prefetch buffer), 2, 3, or 4 (context cache)
    RowT,      \* replacement policy of the rows
    MaxFreq,   \* LFU halving threshold
    Size,      \* number of entries
    Assoc,     \* ways per row; 0 for a cache that is absent
    Groups,    \* number of partitions
    SAllocs,   \* the values _salloc may be configured to
    StartDid,  \* first cacheable DID when _salloc
    Fanout     \* pages of one level per page of the next level up

CACHE_L1 == 1
CACHE_L2 == 2
CACHE_L3 == 3
CACHE_CONTEXT == 4

Row == INSTANCE CacheRowOps WITH RowSize <- Assoc

\* The constructor logs an error and carries on when Size is not a multiple of
\* Assoc or the sets cannot be split into Groups; only equal splits are
\* meaningful configurations.
ASSUME CacheAssumption ==
    /\ Lvl \in {CACHE_L1, CACHE_L2, CACHE_L3, CACHE_CONTEXT}
    /\ {Size, Assoc, StartDid} \subseteq Nat
    /\ {Groups, Fanout, MaxFreq} \subseteq Nat \ {0}
    /\ RowT \in Row!RowTypes
    /\ SAllocs \subseteq BOOLEAN
    /\ Assoc # 0 => Size % Assoc = 0 /\ (Size \div Assoc) % Groups = 0

VARIABLE cache

-----------------------------------------------------------------------------
\* The constructor's geometry: number of sets, index bits split into group bits
\* and bits that are free to index inside a group.
SNum == IF Assoc = 0 THEN 0 ELSE Size \div Assoc

Log2(n) == CHOOSE b \in 0..n : 2^b <= n /\ n < 2^(b + 1)

GrNum == 2^Log2(Groups)
FrNum == 2^(Log2(SNum) - Log2(Groups))

Sets == 0..(SNum - 1)

\* With _salloc, only some DIDs may allocate; the constructor's value is replaced
\* by ConfigSelectiveAlloc before the first translation.
Init ==
    \E salloc \in SAllocs :
        cache = [rows |-> [i \in Sets |-> Row!EmptyRow(RowT)], acc |-> [i \in Sets |-> 0],
                 hit |-> 0, miss |-> 0, confl |-> 0, seen |-> {}, salloc |-> salloc]

\* The pages of each level, in pages of 4KB (LEVEL_SHIFT).
PageSize == <<1, Fanout, Fanout * Fanout, Fanout * Fanout * Fanout>>

\* iova & pageLevelToPageMask(l)
PageAddr(iova, l) == iova - (iova % PageSize[l])

\* Fault: the IOTLB is indexed by 4KB page.
UniqueAccessBits4K(e) ==
    CASE Lvl = CACHE_CONTEXT -> e.sid
      [] Lvl = CACHE_L1 -> e.iova
      [] Lvl = CACHE_L2 -> e.iova \div PageSize[2]
      [] Lvl = CACHE_L3 -> e.iova \div PageSize[3]

\* The address bits above _ind_shift: both the IOTLB and the L2 page cache are
\* indexed by 2MB region.
UniqueAccessBits(e) ==
    CASE Lvl = CACHE_CONTEXT -> e.sid
      [] Lvl \in {CACHE_L1, CACHE_L2} -> e.iova \div PageSize[2]
      [] Lvl = CACHE_L3 -> e.iova \div PageSize[3]

\* Fault: the group bits overlap the bits that index inside a group.
GetIndexOverlapping(e) == ((e.did % GrNum) + UniqueAccessBits(e)) % (GrNum * FrNum)

\* The DID selects the partition, the address the set inside it.
GetIndex(e) == (e.did % GrNum) * FrNum + (UniqueAccessBits(e) % FrNum)

\* The key a cache stores for an event.
KeyOf(e) ==
    IF Lvl = CACHE_CONTEXT THEN e.sid
    ELSE [addr |-> PageAddr(e.iova, IF Lvl = CACHE_L1 THEN e.lvl ELSE Lvl), did |-> e.did]

RowOf(e) == cache.rows[GetIndex(e)]

\* What Translate returns.
IsHit(e) == SNum # 0 /\ KeyOf(e) \in RowOf(e).entries

\* Fault: one DID too many may allocate.
IsDIDCacheableInclusive(did) == cache.salloc => did \in StartDid..(StartDid + Groups)

\* With selective allocation, the Groups DIDs from StartDid on may allocate.
IsDIDCacheable(did) == cache.salloc => did \in StartDid..(StartDid + Groups - 1)

-----------------------------------------------------------------------------
\* A hit refreshes the row's replacement data whether or not the access may
\* allocate; it is counted only when it may.
TranslateHit(e, alloc) ==
    /\ IsHit(e)
    /\ LET i == GetIndex(e)
           n == IF alloc THEN 1 ELSE 0
       IN  cache' = [cache EXCEPT !.rows[i] = Row!SearchKey(@, KeyOf(e), e.nat),
                                  !.hit = @ + n,
                                  !.acc[i] = @ + n]

\* Fault: the key is installed and the conflict counted, but nothing is evicted.
TranslateFillNoEvict(e) ==
    /\ SNum # 0 /\ ~IsHit(e)
    /\ LET i == GetIndex(e)
       IN  cache' = [cache EXCEPT
                        !.rows[i] = Row!Install(@, KeyOf(e), e.nat),
                        !.miss = @ + 1,
                        !.confl = @ + IF Row!IsConflict(RowOf(e)) THEN 1 ELSE 0,
                        !.acc[i] = @ + 1,
                        !.seen = @ \cup {e.did}]

\* A miss of an access that allocates installs the key.
TranslateFill(e) ==
    /\ SNum # 0 /\ ~IsHit(e)
    /\ LET i == GetIndex(e)
       IN  \E r \in Row!AddEntry(RowOf(e), KeyOf(e), e.nat) :
               cache' = [cache EXCEPT
                            !.rows[i] = r,
                            !.miss = @ + 1,
                            !.confl = @ + IF Row!IsConflict(RowOf(e)) THEN 1 ELSE 0,
                            !.acc[i] = @ + 1,
                            !.seen = @ \cup {e.did}]

\* A cache with no sets never hits and never changes, and neither does one
\* that misses without allocating.
TranslateMiss(e, alloc) ==
    /\ ~IsHit(e) /\ (SNum = 0 \/ ~alloc)
    /\ UNCHANGED cache

Translate(e, alloc) ==
    \/ TranslateHit(e, alloc)
    \/ alloc /\ TranslateFill(e)
    \/ TranslateMiss(e, alloc)

-----------------------------------------------------------------------------
Contents == UNION {cache.rows[i].entries : i \in Sets}

\* A page is cached in one row at most, so that a lookup of any address inside
\* the page finds it: the index ignores the bits the key's mask clears.
\* (GetIndex against ConstructAddrDidKey.)
OneRowPerKey ==
    \A i, j \in Sets : i # j => cache.rows[i].entries \cap cache.rows[j].entries = {}

\* Partitions are isolated: no two DIDs of different groups ever share a row,
\* and so a tenant never evicts the entries of a tenant of another group; with
\* selective allocation each row serves a single tenant, if the groups are a
\* power of two (of 3 groups, the constructor makes 2).
PartitionsIsolated ==
    Lvl # CACHE_CONTEXT =>
        \A i \in Sets : \A k, m \in cache.rows[i].entries :
            /\ k.did % GrNum = m.did % GrNum
            /\ cache.salloc /\ GrNum = Groups => k.did = m.did

\* The statistics describe the contents: accesses per row add up to hits plus
\* misses (the mismatch PrintStat warns about), and what is resident is what
\* misses brought in less what conflicts evicted.
StatsDescribeContents ==
    /\ SumFunction(cache.acc) = cache.hit + cache.miss
    /\ SumFunction([i \in Sets |-> Cardinality(cache.rows[i].entries)])
           = cache.miss - cache.confl
=============================================================================

-------------------------- MODULE BaseCache_proofs --------------------------
(***************************************************************************)
(* Proofs about BaseCache.tla driven by MCBaseCache.tla, for every size,   *)
(* associativity, number of groups, replacement policy, and any number of  *)
(* tenants and pages: which row a key may be in, and that the statistics   *)
(* describe what the rows hold.                                            *)
(*                                                                         *)
(* The constructor's geometry is in powers of two.  The provers know no    *)
(* law of exponents, but the library counts the subsets of a set of n      *)
(* elements as 2^n, and from that the laws follow.                         *)
(***************************************************************************)
EXTENDS MCBaseCache, Integers, FiniteSetTheorems, NaturalsInduction, TLAPS

-----------------------------------------------------------------------------
(* Powers of two.                                                          *)

LEMMA SubsetsOfInterval ==
    ASSUME NEW a \in Nat, NEW n \in Nat
    PROVE  /\ IsFiniteSet((a + 1)..(a + n)) /\ Cardinality((a + 1)..(a + n)) = n
           /\ IsFiniteSet(SUBSET ((a + 1)..(a + n)))
           /\ Cardinality(SUBSET ((a + 1)..(a + n))) = 2^n
<1> DEFINE S == (a + 1)..(a + n)
<1>1. IsFiniteSet(S) /\ Cardinality(S) = n
  BY FS_Interval
<1> HIDE DEF S
<1>2. IsFiniteSet(SUBSET S) /\ Cardinality(SUBSET S) = 2^Cardinality(S)
  BY <1>1, FS_SUBSET
<1> QED BY <1>1, <1>2 DEF S

LEMMA TwoPositive ==
    ASSUME NEW n \in Nat
    PROVE  2^n \in Nat \ {0}
<1> DEFINE S == (0 + 1)..(0 + n)
<1>1. IsFiniteSet(SUBSET S) /\ Cardinality(SUBSET S) = 2^n
  BY SubsetsOfInterval
<1>2. {} \in SUBSET S
  OBVIOUS
<1> HIDE DEF S
<1>3. Cardinality(SUBSET S) \in Nat /\ Cardinality(SUBSET S) # 0
  BY <1>1, <1>2, FS_CardinalityType, FS_EmptySet
<1> QED BY <1>1, <1>3

LEMMA TwoToZero == 2^0 = 1
<1> DEFINE S == (0 + 1)..(0 + 0)
<1>1. Cardinality(SUBSET S) = 2^0
  BY SubsetsOfInterval
<1>2. SUBSET S = {{}}
  <2>1. S = {}
    OBVIOUS
  <2> QED BY <2>1
<1> HIDE DEF S
<1>3. Cardinality({{}}) = 1
  BY FS_Singleton
<1> QED BY <1>1, <1>2, <1>3

\* A subset of m + n elements is a subset of the first m and one of the rest.
LEMMA TwoToSum ==
    ASSUME NEW m \in Nat, NEW n \in Nat
    PROVE  2^(m + n) = 2^m * 2^n
<1> DEFINE A == (0 + 1)..(0 + m)
           B == (m + 1)..(m + n)
           C == (0 + 1)..(0 + (m + n))
           join == [p \in (SUBSET A) \X (SUBSET B) |-> p[1] \cup p[2]]
<1>1. /\ IsFiniteSet(SUBSET A) /\ Cardinality(SUBSET A) = 2^m
      /\ IsFiniteSet(SUBSET B) /\ Cardinality(SUBSET B) = 2^n
      /\ Cardinality(SUBSET C) = 2^(m + n)
  <2>1. 0 \in Nat /\ m + n \in Nat
    OBVIOUS
  <2>2. IsFiniteSet(SUBSET A) /\ Cardinality(SUBSET A) = 2^m
    BY <2>1, SubsetsOfInterval
  <2>3. IsFiniteSet(SUBSET B) /\ Cardinality(SUBSET B) = 2^n
    BY <2>1, SubsetsOfInterval
  <2>4. Cardinality(SUBSET C) = 2^(m + n)
    BY <2>1, SubsetsOfInterval
  <2> QED BY <2>2, <2>3, <2>4
<1>2. A \cap B = {} /\ A \cup B = C
  OBVIOUS
<1> HIDE DEF A, B, C
<1>3. join \in Bijection((SUBSET A) \X (SUBSET B), SUBSET C)
  <2>1. join \in [(SUBSET A) \X (SUBSET B) -> SUBSET C]
    BY <1>2
  <2>2. ASSUME NEW p \in (SUBSET A) \X (SUBSET B), NEW q \in (SUBSET A) \X (SUBSET B),
               join[p] = join[q]
        PROVE  p = q
    <3>1. /\ p[1] = (p[1] \cup p[2]) \cap A /\ p[2] = (p[1] \cup p[2]) \cap B
          /\ q[1] = (q[1] \cup q[2]) \cap A /\ q[2] = (q[1] \cup q[2]) \cap B
      BY <1>2
    <3>2. p[1] \cup p[2] = q[1] \cup q[2]
      BY <2>2
    <3>3. p[1] = q[1] /\ p[2] = q[2]
      BY <3>1, <3>2
    <3> QED BY <3>3
  <2>3. ASSUME NEW T \in SUBSET C
        PROVE  \E p \in (SUBSET A) \X (SUBSET B) : join[p] = T
    <3>1. <<T \cap A, T \cap B>> \in (SUBSET A) \X (SUBSET B)
      OBVIOUS
    <3>2. join[<<T \cap A, T \cap B>>] = T
      BY <1>2, <3>1
    <3> QED BY <3>1, <3>2
  <2> HIDE DEF join
  <2> QED BY <2>1, <2>2, <2>3 DEF Bijection, Injection, Surjection, IsInjective
<1>4. /\ IsFiniteSet((SUBSET A) \X (SUBSET B))
      /\ Cardinality((SUBSET A) \X (SUBSET B)) = 2^m * 2^n
  BY <1>1, FS_Product
<1> HIDE DEF join
<1>5. Cardinality(SUBSET C) = Cardinality((SUBSET A) \X (SUBSET B))
  BY <1>3, <1>4, FS_Bijection DEF ExistsBijection
<1> QED BY <1>1, <1>4, <1>5

LEMMA TwoMonotonic ==
    ASSUME NEW m \in Nat, NEW n \in Nat, m <= n
    PROVE  2^m <= 2^n
<1>1. n - m \in Nat /\ m + (n - m) = n
  OBVIOUS
<1>2. 2^n = 2^m * 2^(n - m)
  BY <1>1, TwoToSum
<1>3. 2^m \in Nat \ {0} /\ 2^(n - m) \in Nat \ {0}
  BY <1>1, TwoPositive
<1>4. \A x, y \in Nat \ {0} : x <= x * y
  OBVIOUS
<1> QED BY <1>2, <1>3, <1>4

\* There are fewer elements than subsets: each is one, and the empty set too.
LEMMA TwoExceeds ==
    ASSUME NEW n \in Nat
    PROVE  n < 2^n
<1> DEFINE S == (0 + 1)..(0 + n)
           T == {{x} : x \in S}
           one == [x \in S |-> {x}]
<1>1. /\ IsFiniteSet(S) /\ Cardinality(S) = n
      /\ IsFiniteSet(SUBSET S) /\ Cardinality(SUBSET S) = 2^n
  BY SubsetsOfInterval
<1> HIDE DEF S
<1>2. one \in Bijection(S, T)
  <2>1. one \in [S -> T] /\ \A x, y \in S : one[x] = one[y] => x = y
    OBVIOUS
  <2>2. \A t \in T : \E x \in S : one[x] = t
    OBVIOUS
  <2> HIDE DEF one, T
  <2> QED BY <2>1, <2>2 DEF Bijection, Injection, Surjection, IsInjective
<1>3. IsFiniteSet(T) /\ Cardinality(T) = n
  BY <1>1, <1>2, FS_Bijection DEF ExistsBijection
<1>4. {} \notin T /\ T \cup {{}} \in SUBSET (SUBSET S)
  OBVIOUS
<1> HIDE DEF T
<1>5. Cardinality(T \cup {{}}) = n + 1
  BY <1>3, <1>4, FS_AddElement
<1>6. Cardinality(T \cup {{}}) <= Cardinality(SUBSET S)
  BY <1>1, <1>4, FS_Subset
<1>7. 2^n \in Nat \ {0}
  BY TwoPositive
<1> QED BY <1>1, <1>5, <1>6, <1>7
-----------------------------------------------------------------------------
(* The constructor's geometry.                                             *)

\* Log2 is the logarithm rounded down.
LEMMA Log2Is ==
    ASSUME NEW n \in Nat \ {0}
    PROVE  /\ Log2(n) \in Nat
           /\ 2^Log2(n) <= n
           /\ n < 2^(Log2(n) + 1)
<1> DEFINE T == {c \in Nat : n < 2^c}
           R == OpToRel(<, Nat)
<1>1. T \subseteq Nat /\ n \in T
  BY TwoExceeds
<1>2. PICK c \in T : \A b \in T : <<b, c>> \notin R
  <2> HIDE DEF T, R
  <2>1. IsWellFoundedOn(R, Nat)
    BY NatLessThanWellFounded DEF R
  <2> QED BY <1>1, <2>1, WFMin
<1>3. c \in Nat /\ n < 2^c /\ c # 0
  <2>1. c \in Nat /\ n < 2^c
    OBVIOUS
  <2>2. ~(n < 1)
    OBVIOUS
  <2> HIDE DEF T
  <2> QED BY <2>1, <2>2, TwoToZero
<1>4. c - 1 \in Nat /\ (c - 1) + 1 = c /\ ~(n < 2^(c - 1))
  <2>1. c - 1 \in Nat /\ c - 1 < c /\ (c - 1) + 1 = c
    BY <1>3
  <2>2. <<c - 1, c>> \in R
    BY <1>3, <2>1 DEF OpToRel
  <2> HIDE DEF R
  <2>3. c - 1 \notin T
    BY <1>2, <2>2
  <2> QED BY <2>1, <2>3
<1> HIDE DEF T, R
<1>5. 2^(c - 1) <= n /\ n < 2^c
  <2>1. 2^(c - 1) \in Nat \ {0}
    BY <1>4, TwoPositive
  <2> QED BY <1>3, <1>4, <2>1
<1>6. c - 1 \in 0..n
  <2>1. c - 1 < 2^(c - 1) /\ 2^(c - 1) \in Nat \ {0}
    BY <1>4, TwoExceeds, TwoPositive
  <2> QED BY <1>4, <1>5, <2>1
<1>7. \E b \in 0..n : 2^b <= n /\ n < 2^(b + 1)
  BY <1>4, <1>5, <1>6
<1>8. Log2(n) \in 0..n /\ 2^Log2(n) <= n /\ n < 2^(Log2(n) + 1)
  BY <1>7 DEF Log2
<1> QED BY <1>8

\* A cache with sets has at least one per group; groups and the sets inside a
\* group are powers of two, and together no more than the sets there are.
LEMMA Geometry ==
    ASSUME SNum # 0
    PROVE  /\ SNum \in Nat \ {0}
           /\ GrNum \in Nat \ {0} /\ FrNum \in Nat \ {0}
           /\ GrNum * FrNum <= SNum
           /\ GrNum <= Groups
<1>0. Groups \in Nat \ {0} /\ Size \in Nat /\ Assoc \in Nat
  BY CacheAssumption
<1>1. Assoc # 0 /\ SNum = Size \div Assoc /\ SNum % Groups = 0
  BY CacheAssumption DEF SNum
<1>2. SNum \in Nat \ {0}
  BY <1>0, <1>1
<1>3. Groups <= SNum
  <2>1. \A s, g \in Nat \ {0} : s % g = 0 => g <= s
    OBVIOUS
  <2> QED BY <1>0, <1>1, <1>2, <2>1
<1> DEFINE a == Log2(SNum)
           b == Log2(Groups)
<1>4. /\ a \in Nat /\ 2^a <= SNum /\ SNum < 2^(a + 1)
      /\ b \in Nat /\ 2^b <= Groups /\ Groups < 2^(b + 1)
  BY <1>0, <1>2, Log2Is
<1> HIDE DEF a, b
<1>5. b <= a
  <2>1. ASSUME a < b PROVE FALSE
    <3>1. a + 1 \in Nat /\ a + 1 <= b
      BY <1>4, <2>1
    <3>2. 2^(a + 1) <= 2^b
      BY <1>4, <3>1, TwoMonotonic
    <3>3. 2^(a + 1) \in Nat \ {0} /\ 2^b \in Nat \ {0}
      BY <1>4, <3>1, TwoPositive
    <3> QED BY <1>0, <1>2, <1>3, <1>4, <3>2, <3>3
  <2> QED BY <1>4, <2>1
<1>6. a - b \in Nat /\ b + (a - b) = a
  BY <1>4, <1>5
<1>7. 2^b \in Nat \ {0} /\ 2^(a - b) \in Nat \ {0} /\ 2^a = 2^b * 2^(a - b)
  <2>1. 2^(b + (a - b)) = 2^b * 2^(a - b)
    BY <1>4, <1>6, TwoToSum
  <2> QED BY <1>4, <1>6, <2>1, TwoPositive
<1>8. GrNum = 2^b /\ FrNum = 2^(a - b)
  BY DEF GrNum, FrNum, a, b
<1> QED BY <1>2, <1>4, <1>7, <1>8

LEMMA ModRange ==
    ASSUME NEW x \in Nat, NEW n \in Nat \ {0}
    PROVE  x % n \in 0..(n - 1)
OBVIOUS

\* A group and a place inside it make one index, below the product of the two
\* numbers, from which the group can be read.
LEMMA PairIndex ==
    ASSUME NEW g \in Nat \ {0}, NEW f \in Nat \ {0},
           NEW i \in 0..(g - 1), NEW j \in 0..(f - 1)
    PROVE  i * f + j \in 0..(g * f - 1) /\ (i * f + j) \div f = i
<1>1. i * f <= (g - 1) * f /\ (g - 1) * f = g * f - f
  OBVIOUS
<1>2. i * f \in Nat /\ i * f = f * i
  OBVIOUS
<1>3. i * f + j <= g * f - 1 /\ i * f + j >= 0
  BY <1>1, <1>2
<1>4. (f * i + j) \div f = i
  OBVIOUS
<1> QED BY <1>1, <1>2, <1>3, <1>4

\* What an access is: of numbered tenants, to a page of 4KB or 2MB if the cache
\* keeps pages of all sizes, and from a device with one domain.
Accesses ==
    [sid : Nat, did : Nat, iova : Nat, lvl : {1, 2}, nat : Nat]

LEMMA BitsAreNat ==
    ASSUME NEW e \in Accesses
    PROVE  UniqueAccessBits(e) \in Nat
<1>1. /\ e.sid \in Nat /\ e.iova \in Nat /\ Fanout \in Nat \ {0}
      /\ PageSize[2] = Fanout /\ PageSize[3] = Fanout * Fanout
  BY CacheAssumption DEF Accesses, PageSize
<1>2. Fanout * Fanout \in Nat \ {0}
  BY <1>1
<1>3. \A n \in Nat \ {0} : e.iova \div n \in Nat
  BY <1>1
<1> QED BY <1>1, <1>2, <1>3, CacheAssumption DEF UniqueAccessBits

\* However many the sets and groups are, rounded or not, an index is that of an
\* existing row: Translate never reads past the end of _set_v.
THEOREM IndexInRange ==
    ASSUME SNum # 0, NEW e \in Accesses
    PROVE  GetIndex(e) \in Sets
<1>1. /\ SNum \in Nat \ {0} /\ GrNum \in Nat \ {0} /\ FrNum \in Nat \ {0}
      /\ GrNum * FrNum <= SNum
  BY Geometry
<1>2. UniqueAccessBits(e) \in Nat
  BY BitsAreNat
<1>3. e.did % GrNum \in 0..(GrNum - 1) /\ UniqueAccessBits(e) % FrNum \in 0..(FrNum - 1)
  BY <1>1, <1>2, ModRange DEF Accesses
<1>4. GetIndex(e) \in 0..(GrNum * FrNum - 1)
  BY <1>1, <1>3, PairIndex DEF GetIndex
<1>5. GrNum * FrNum \in Nat
  BY <1>1
<1> QED BY <1>1, <1>4, <1>5 DEF Sets
LEMMA EventsAreAccesses ==
    ASSUME NEW e \in Events
    PROVE  e \in Accesses /\ e.sid = e.did
BY EventsAssumption DEF Events, Accesses

-----------------------------------------------------------------------------
(* Where a key lives.                                                      *)

\* Clearing the low digits of a number leaves its high ones.
LEMMA MaskedDiv ==
    ASSUME NEW x \in Nat, NEW n \in Nat \ {0}
    PROVE  /\ (x - (x % n)) \div n = x \div n
           /\ x - (x % 1) = x
<1>1. x \div n \in Nat /\ x - (x % n) = n * (x \div n)
  OBVIOUS
<1> DEFINE k == x \div n
<1>2. k \in Nat /\ x - (x % n) = n * k
  BY <1>1
<1> HIDE DEF k
<1>3. (n * k) \div n = k
  BY <1>2
<1> QED BY <1>2, <1>3 DEF k

\* The bits an address is indexed by are those of the page its key names, for a
\* page of any size the cache keeps: GetIndex ignores what the mask clears.
LEMMA BitsOfKey ==
    ASSUME Lvl # CACHE_CONTEXT, NEW e \in Accesses
    PROVE  /\ KeyOf(e).did = e.did
           /\ UniqueAccessBits(e) =
                  KeyOf(e).addr \div PageSize[IF Lvl = CACHE_L3 THEN 3 ELSE 2]
<1>1. /\ e.iova \in Nat /\ e.lvl \in {1, 2} /\ Fanout \in Nat \ {0}
      /\ PageSize[1] = 1 /\ PageSize[2] = Fanout /\ PageSize[3] = Fanout * Fanout
      /\ Fanout * Fanout \in Nat \ {0}
  <2>1. Fanout \in Nat \ {0}
    BY CacheAssumption
  <2> QED BY <2>1 DEF Accesses, PageSize
<1>2. \A n \in Nat \ {0} : /\ (e.iova - (e.iova % n)) \div n = e.iova \div n
                           /\ e.iova - (e.iova % 1) = e.iova
  BY <1>1, MaskedDiv
<1>3. KeyOf(e) = [addr |-> PageAddr(e.iova, IF Lvl = CACHE_L1 THEN e.lvl ELSE Lvl), did |-> e.did]
  BY DEF KeyOf
<1>4. CASE Lvl = CACHE_L1
  <2>1. UniqueAccessBits(e) = e.iova \div Fanout
    BY <1>1, <1>4 DEF UniqueAccessBits, CACHE_L1, CACHE_L2, CACHE_L3, CACHE_CONTEXT
  <2>2. KeyOf(e).addr = e.iova - (e.iova % 1) \/ KeyOf(e).addr = e.iova - (e.iova % Fanout)
    BY <1>1, <1>3, <1>4 DEF PageAddr
  <2>3. KeyOf(e).addr \div Fanout = e.iova \div Fanout
    BY <1>1, <1>2, <2>2
  <2> QED BY <1>1, <1>3, <1>4, <2>1, <2>3 DEF CACHE_L1, CACHE_L3
<1>5. CASE Lvl = CACHE_L2
  <2>1. UniqueAccessBits(e) = e.iova \div Fanout
    BY <1>1, <1>5 DEF UniqueAccessBits, CACHE_L1, CACHE_L2, CACHE_L3, CACHE_CONTEXT
  <2>2. KeyOf(e).addr = e.iova - (e.iova % Fanout)
    BY <1>1, <1>3, <1>5 DEF PageAddr, CACHE_L1, CACHE_L2
  <2>3. KeyOf(e).addr \div Fanout = e.iova \div Fanout
    BY <1>1, <1>2, <2>2
  <2> QED BY <1>1, <1>3, <1>5, <2>1, <2>3 DEF CACHE_L2, CACHE_L3
<1>6. CASE Lvl = CACHE_L3
  <2>1. UniqueAccessBits(e) = e.iova \div (Fanout * Fanout)
    BY <1>1, <1>6 DEF UniqueAccessBits, CACHE_L1, CACHE_L2, CACHE_L3, CACHE_CONTEXT
  <2>2. KeyOf(e).addr = e.iova - (e.iova % (Fanout * Fanout))
    BY <1>1, <1>3, <1>6 DEF PageAddr, CACHE_L1, CACHE_L3
  <2> DEFINE n == Fanout * Fanout
  <2>3. n \in Nat \ {0} /\ UniqueAccessBits(e) = e.iova \div n
        /\ KeyOf(e).addr = e.iova - (e.iova % n) /\ PageSize[3] = n
    BY <1>1, <2>1, <2>2
  <2> HIDE DEF n
  <2>4. KeyOf(e).addr \div n = e.iova \div n
    BY <1>2, <2>3
  <2> QED BY <1>3, <1>6, <2>3, <2>4
<1> QED BY <1>4, <1>5, <1>6, CacheAssumption

\* Accesses with one key go to one row.
LEMMA KeyHasOneRow ==
    ASSUME NEW e \in Accesses, NEW f \in Accesses, KeyOf(e) = KeyOf(f),
           e.sid = e.did, f.sid = f.did
    PROVE  GetIndex(e) = GetIndex(f)
<1>1. CASE Lvl = CACHE_CONTEXT
  <2>1. e.sid = f.sid /\ e.did = f.did
    BY <1>1 DEF KeyOf
  <2>2. UniqueAccessBits(e) = UniqueAccessBits(f)
    BY <1>1, <2>1 DEF UniqueAccessBits, CACHE_L1, CACHE_L2, CACHE_L3, CACHE_CONTEXT
  <2> QED BY <2>1, <2>2 DEF GetIndex
<1>2. CASE Lvl # CACHE_CONTEXT
  <2>1. e.did = f.did /\ UniqueAccessBits(e) = UniqueAccessBits(f)
    BY <1>2, BitsOfKey
  <2> QED BY <2>1 DEF GetIndex
<1> QED BY <1>1, <1>2

\* Accesses that share a row belong to tenants of one group.
LEMMA RowHasOneGroup ==
    ASSUME SNum # 0, NEW e \in Accesses, NEW f \in Accesses, GetIndex(e) = GetIndex(f)
    PROVE  e.did % GrNum = f.did % GrNum
<1>1. GrNum \in Nat \ {0} /\ FrNum \in Nat \ {0}
  BY Geometry
<1>2. ASSUME NEW a \in Accesses
      PROVE  GetIndex(a) \div FrNum = a.did % GrNum
  <2>1. a.did % GrNum \in 0..(GrNum - 1)
    BY <1>1, ModRange DEF Accesses
  <2>2. UniqueAccessBits(a) % FrNum \in 0..(FrNum - 1)
    BY <1>1, BitsAreNat, ModRange
  <2> DEFINE i == a.did % GrNum
             j == UniqueAccessBits(a) % FrNum
  <2>3. GetIndex(a) = i * FrNum + j /\ i \in 0..(GrNum - 1) /\ j \in 0..(FrNum - 1)
    BY <2>1, <2>2 DEF GetIndex
  <2> HIDE DEF i, j
  <2>4. (i * FrNum + j) \div FrNum = i
    BY <1>1, <2>3, PairIndex
  <2> QED BY <2>3, <2>4 DEF i
<1> QED BY <1>2
-----------------------------------------------------------------------------
(* What an access does to the keys of a row.                               *)

RowShape(r) == r = [type |-> r.type, entries |-> r.entries, meta |-> r.meta]

LEMMA EntriesUpdate ==
    ASSUME NEW r, RowShape(r), NEW E, NEW q, q = [r EXCEPT !.entries = E]
    PROVE  RowShape(q) /\ q.type = r.type /\ q.entries = E
BY DEF RowShape

LEMMA MetaUpdate ==
    ASSUME NEW r, RowShape(r), NEW m, NEW q, q = [r EXCEPT !.meta = m]
    PROVE  RowShape(q) /\ q.type = r.type /\ q.entries = r.entries
BY DEF RowShape

\* A lookup, found or not, leaves the keys of a row alone.
LEMMA SearchKeepsKeys ==
    ASSUME NEW r, RowShape(r), NEW k, NEW nat
    PROVE  RowShape(Row!SearchKey(r, k, nat)) /\ Row!SearchKey(r, k, nat).entries = r.entries
<1>1. CASE k \notin r.entries
  BY <1>1 DEF Row!SearchKey
<1>2. CASE k \in r.entries
  <2>1. PICK m : Row!SearchKey(r, k, nat) = [r EXCEPT !.meta = m]
    BY <1>2 DEF Row!SearchKey
  <2>2. PICK q : q = Row!SearchKey(r, k, nat)
    OBVIOUS
  <2>3. q = [r EXCEPT !.meta = m]
    BY <2>1, <2>2
  <2>4. RowShape(q) /\ q.entries = r.entries
    BY <2>3, MetaUpdate
  <2> QED BY <2>2, <2>4
<1> QED BY <1>1, <1>2

LEMMA InstallKeys ==
    ASSUME NEW r, RowShape(r), NEW k, NEW nat, NEW q, q = Row!Install(r, k, nat)
    PROVE  RowShape(q) /\ q.entries = r.entries \cup {k}
<1>1. PICK p, m : p = [r EXCEPT !.entries = r.entries \cup {k}] /\ q = [p EXCEPT !.meta = m]
  BY DEF Row!Install
<1>2. p = [r EXCEPT !.entries = r.entries \cup {k}]
  BY <1>1
<1>3. RowShape(p) /\ p.entries = r.entries \cup {k}
  BY <1>2, EntriesUpdate
<1>4. q = [p EXCEPT !.meta = m]
  BY <1>1
<1> QED BY <1>3, <1>4, MetaUpdate

LEMMA InvKeys ==
    ASSUME NEW r, RowShape(r), NEW k, NEW q, q = Row!InvKey(r, k)
    PROVE  RowShape(q) /\ q.entries = r.entries \ {k}
<1>1. PICK p, m : p = [r EXCEPT !.entries = r.entries \ {k}] /\ q = [p EXCEPT !.meta = m]
  BY DEF Row!InvKey
<1>2. p = [r EXCEPT !.entries = r.entries \ {k}]
  BY <1>1
<1>3. RowShape(p) /\ p.entries = r.entries \ {k}
  BY <1>2, EntriesUpdate
<1>4. q = [p EXCEPT !.meta = m]
  BY <1>1
<1> QED BY <1>3, <1>4, MetaUpdate

\* A fill adds its key to a row, and no other, whatever is evicted.
LEMMA AddEntryKeys ==
    ASSUME NEW r, RowShape(r), NEW k, NEW nat, NEW q \in Row!AddEntry(r, k, nat)
    PROVE  RowShape(q) /\ q.entries \subseteq r.entries \cup {k}
<1>1. CASE q = r
  BY <1>1
<1>2. CASE q = Row!Install(r, k, nat)
  BY <1>2, InstallKeys
<1>3. CASE \E v : q = Row!Install(Row!InvKey(r, v), k, nat)
  <2>1. PICK v, p : p = Row!InvKey(r, v) /\ q = Row!Install(p, k, nat)
    BY <1>3
  <2>2. RowShape(p) /\ p.entries = r.entries \ {v}
    BY <2>1, InvKeys
  <2>3. RowShape(q) /\ q.entries = p.entries \cup {k}
    BY <2>1, <2>2, InstallKeys
  <2> QED BY <2>2, <2>3
<1> QED BY <1>1, <1>2, <1>3 DEF Row!AddEntry

-----------------------------------------------------------------------------
(* The invariant of the contents.                                          *)

CacheShape ==
    /\ cache = [rows |-> cache.rows, acc |-> cache.acc, hit |-> cache.hit,
                miss |-> cache.miss, confl |-> cache.confl, seen |-> cache.seen,
                salloc |-> cache.salloc]
    /\ cache.rows = [i \in Sets |-> cache.rows[i]]
    /\ cache.salloc \in BOOLEAN
    /\ \A i \in Sets : RowShape(cache.rows[i])

\* The key k in the row i was put there by an access that may allocate.
PutBy(e, k, i) == KeyOf(e) = k /\ GetIndex(e) = i /\ IsDIDCacheable(e.did)

\* The inductive invariant: a key is only where an access puts it.
KeysInPlace ==
    /\ CacheShape
    /\ \A i \in Sets : \A k \in cache.rows[i].entries : \E e \in Events : PutBy(e, k, i)

LEMMA InitEmpty ==
    ASSUME Init
    PROVE  /\ CacheShape /\ cache.salloc \in SAllocs
           /\ \A i \in Sets : cache.rows[i].entries = {}
<1>1. PICK salloc \in SAllocs :
          cache = [rows |-> [i \in Sets |-> Row!EmptyRow(RowT)], acc |-> [i \in Sets |-> 0],
                   hit |-> 0, miss |-> 0, confl |-> 0, seen |-> {}, salloc |-> salloc]
  BY DEF Init
<1>2. RowShape(Row!EmptyRow(RowT)) /\ Row!EmptyRow(RowT).entries = {}
  BY DEF Row!EmptyRow, RowShape
<1>3. cache.rows = [i \in Sets |-> Row!EmptyRow(RowT)] /\ cache.salloc \in SAllocs
  BY <1>1
<1>4. \A i \in Sets : RowShape(cache.rows[i]) /\ cache.rows[i].entries = {}
  BY <1>2, <1>3
<1>5. cache.rows = [i \in Sets |-> cache.rows[i]] /\ cache.salloc \in BOOLEAN
  BY <1>3, CacheAssumption
<1> QED BY <1>1, <1>3, <1>4, <1>5 DEF CacheShape

LEMMA InitKeysInPlace == Init => KeysInPlace
BY InitEmpty DEF KeysInPlace

\* An access changes the row of its index only, and adds at most its own key
\* to it.
LEMMA AccessChanges ==
    ASSUME CacheShape, NEW e, NEW alloc, Translate(e, alloc)
    PROVE  /\ CacheShape' /\ cache'.salloc = cache.salloc
           /\ \A i \in Sets : \A k \in cache'.rows[i].entries :
                  \/ k \in cache.rows[i].entries
                  \/ alloc /\ SNum # 0 /\ i = GetIndex(e) /\ k = KeyOf(e)
<1> DEFINE j == GetIndex(e)
<1>1. CASE UNCHANGED cache
  BY <1>1 DEF CacheShape, RowShape
<1>2. ASSUME SNum # 0, NEW r,
             j \in Sets => /\ RowShape(r)
                           /\ \A k \in r.entries : \/ k \in cache.rows[j].entries
                                                   \/ alloc /\ k = KeyOf(e),
             cache'.rows = [cache.rows EXCEPT ![j] = r],
             cache'.salloc = cache.salloc,
             cache' = [rows |-> cache'.rows, acc |-> cache'.acc, hit |-> cache'.hit,
                       miss |-> cache'.miss, confl |-> cache'.confl, seen |-> cache'.seen,
                       salloc |-> cache'.salloc]
      PROVE  /\ CacheShape' /\ cache'.salloc = cache.salloc
             /\ \A i \in Sets : \A k \in cache'.rows[i].entries :
                    \/ k \in cache.rows[i].entries
                    \/ alloc /\ SNum # 0 /\ i = GetIndex(e) /\ k = KeyOf(e)
  <2>1. \A i \in Sets : cache'.rows[i] = IF i = j THEN r ELSE cache.rows[i]
    BY <1>2 DEF CacheShape
  <2>2. cache'.rows = [i \in Sets |-> cache'.rows[i]]
    BY <1>2 DEF CacheShape
  <2>3. \A i \in Sets : RowShape(cache'.rows[i])
    BY <1>2, <2>1 DEF CacheShape
  <2>4. CacheShape'
    BY <1>2, <2>2, <2>3 DEF CacheShape, RowShape
  <2>5. ASSUME NEW i \in Sets, NEW k \in cache'.rows[i].entries
        PROVE  \/ k \in cache.rows[i].entries
               \/ alloc /\ SNum # 0 /\ i = GetIndex(e) /\ k = KeyOf(e)
    BY <1>2, <2>1, <2>5
  <2> QED BY <1>2, <2>4, <2>5
<1>3. j \in Sets => RowShape(cache.rows[j])
  BY DEF CacheShape
<1>5. CASE TranslateHit(e, alloc)
  <2> DEFINE r == Row!SearchKey(cache.rows[j], KeyOf(e), e.nat)
  <2>1. SNum # 0
    BY <1>5 DEF TranslateHit, IsHit
  <2>2. j \in Sets => RowShape(r) /\ r.entries = cache.rows[j].entries
    BY <1>3, SearchKeepsKeys
  <2>3. \E n : cache' = [cache EXCEPT !.rows[j] = r, !.hit = @ + n, !.acc[j] = @ + n]
    BY <1>5 DEF TranslateHit
  <2> HIDE DEF r, j
  <2>4. /\ cache'.rows = [cache.rows EXCEPT ![j] = r] /\ cache'.salloc = cache.salloc
        /\ cache' = [rows |-> cache'.rows, acc |-> cache'.acc, hit |-> cache'.hit,
                     miss |-> cache'.miss, confl |-> cache'.confl, seen |-> cache'.seen,
                     salloc |-> cache'.salloc]
    BY <2>3 DEF CacheShape
  <2> QED BY <1>2, <2>1, <2>2, <2>4
<1>6. CASE alloc /\ TranslateFill(e)
  <2>1. SNum # 0
    BY <1>6 DEF TranslateFill
  <2>2. PICK r \in Row!AddEntry(RowOf(e), KeyOf(e), e.nat) :
            cache' = [cache EXCEPT
                         !.rows[j] = r,
                         !.miss = @ + 1,
                         !.confl = @ + IF Row!IsConflict(RowOf(e)) THEN 1 ELSE 0,
                         !.acc[j] = @ + 1,
                         !.seen = @ \cup {e.did}]
    BY <1>6 DEF TranslateFill
  <2>3. j \in Sets => RowShape(r) /\ r.entries \subseteq cache.rows[j].entries \cup {KeyOf(e)}
    BY <1>3, <2>2, AddEntryKeys DEF RowOf
  <2> HIDE DEF j
  <2>4. /\ cache'.rows = [cache.rows EXCEPT ![j] = r] /\ cache'.salloc = cache.salloc
        /\ cache' = [rows |-> cache'.rows, acc |-> cache'.acc, hit |-> cache'.hit,
                     miss |-> cache'.miss, confl |-> cache'.confl, seen |-> cache'.seen,
                     salloc |-> cache'.salloc]
    BY <2>2 DEF CacheShape
  <2> QED BY <1>2, <1>6, <2>1, <2>3, <2>4
<1> QED BY <1>1, <1>5, <1>6 DEF Translate, TranslateMiss

\* With selective allocation, a cache of pages holds those of the DIDs that may
\* allocate and no other, whoever drives it.
AllocOnly ==
    /\ CacheShape
    /\ cache.salloc => \A i \in Sets : \A k \in cache.rows[i].entries : IsDIDCacheable(k.did)

LEMMA InitAllocOnly == Init => AllocOnly /\ cache.salloc \in SAllocs
BY InitEmpty DEF AllocOnly

LEMMA KeyHasDid ==
    ASSUME Lvl # CACHE_CONTEXT, NEW e
    PROVE  KeyOf(e).did = e.did
BY DEF KeyOf

LEMMA TranslateAllocOnly ==
    ASSUME Lvl # CACHE_CONTEXT, AllocOnly,
           NEW e, NEW alloc, alloc => IsDIDCacheable(e.did), Translate(e, alloc)
    PROVE  AllocOnly' /\ cache'.salloc = cache.salloc
<1>1. /\ CacheShape' /\ cache'.salloc = cache.salloc
      /\ \A i \in Sets : \A k \in cache'.rows[i].entries :
             k \in cache.rows[i].entries \/ (alloc /\ k = KeyOf(e))
  BY AccessChanges DEF AllocOnly
<1>2. \A d : IsDIDCacheable(d)' <=> IsDIDCacheable(d)
  BY <1>1 DEF IsDIDCacheable
<1>3. ASSUME cache.salloc, NEW i \in Sets, NEW k \in cache'.rows[i].entries
      PROVE  IsDIDCacheable(k.did)
  <2>1. CASE k \in cache.rows[i].entries
    BY <1>3, <2>1 DEF AllocOnly
  <2>2. CASE alloc /\ k = KeyOf(e)
    BY <2>2, KeyHasDid
  <2> QED BY <1>1, <2>1, <2>2
<1> QED BY <1>1, <1>2, <1>3 DEF AllocOnly

LEMMA NextKeysInPlace == KeysInPlace /\ [Next]_cache => KeysInPlace'
<1> SUFFICES ASSUME KeysInPlace, [Next]_cache PROVE KeysInPlace'
  OBVIOUS
<1>1. CASE UNCHANGED cache
  BY <1>1 DEF KeysInPlace, CacheShape, RowShape, PutBy, IsDIDCacheable
<1>2. CASE Next
  <2>1. PICK e \in Events, fill \in BOOLEAN : Translate(e, fill /\ IsDIDCacheable(e.did))
    BY <1>2 DEF Next, Access
  <2> DEFINE alloc == fill /\ IsDIDCacheable(e.did)
  <2>2. CacheShape /\ Translate(e, alloc)
    BY <2>1 DEF KeysInPlace
  <2>3. alloc => IsDIDCacheable(e.did)
    OBVIOUS
  <2> HIDE DEF alloc
  <2>4. /\ CacheShape' /\ cache'.salloc = cache.salloc
        /\ \A i \in Sets : \A k \in cache'.rows[i].entries :
               \/ k \in cache.rows[i].entries
               \/ alloc /\ SNum # 0 /\ i = GetIndex(e) /\ k = KeyOf(e)
    BY <2>2, AccessChanges
  <2>5. \A f, k, i : PutBy(f, k, i) => PutBy(f, k, i)'
    BY <2>4 DEF PutBy, IsDIDCacheable
  <2>6. ASSUME NEW i \in Sets, NEW k \in cache'.rows[i].entries
        PROVE  \E f \in Events : PutBy(f, k, i)'
    <3>1. CASE k \in cache.rows[i].entries
      BY <3>1, <2>5 DEF KeysInPlace
    <3>2. CASE alloc /\ i = GetIndex(e) /\ k = KeyOf(e)
      <4>1. PutBy(e, k, i)
        BY <3>2, <2>3 DEF PutBy
      <4> QED BY <4>1, <2>5
    <3> QED BY <3>1, <3>2, <2>4
  <2> QED BY <2>4, <2>6 DEF KeysInPlace
<1> QED BY <1>1, <1>2

LEMMA AlwaysKeysInPlace == Spec => []KeysInPlace
BY InitKeysInPlace, NextKeysInPlace, PTL DEF Spec

-----------------------------------------------------------------------------
(* What follows from it.                                                   *)

LEMMA SetsMeanRows == \A i \in Sets : SNum # 0
BY Geometry DEF Sets

\* A page is cached in one row at most: whatever address of it a tenant looks
\* up, GetIndex leads to the row where the page may be.
THEOREM PagesHaveOneRow == Spec => []OneRowPerKey
<1>1. KeysInPlace => OneRowPerKey
  <2> SUFFICES ASSUME KeysInPlace, NEW i \in Sets, NEW j \in Sets,
                      NEW k \in cache.rows[i].entries \cap cache.rows[j].entries
               PROVE  i = j
    BY DEF OneRowPerKey
  <2>1. PICK e \in Events : PutBy(e, k, i)
    BY DEF KeysInPlace
  <2>2. PICK f \in Events : PutBy(f, k, j)
    BY DEF KeysInPlace
  <2>3. e \in Accesses /\ f \in Accesses /\ e.sid = e.did /\ f.sid = f.did
    BY EventsAreAccesses DEF Events
  <2>4. KeyOf(e) = KeyOf(f)
    BY <2>1, <2>2 DEF PutBy
  <2>5. GetIndex(e) = GetIndex(f)
    BY <2>3, <2>4, KeyHasOneRow
  <2> QED BY <2>1, <2>2, <2>5 DEF PutBy
<1> QED BY <1>1, AlwaysKeysInPlace, PTL

LEMMA CloseWithSameRemainder ==
    ASSUME NEW g \in Nat \ {0}, NEW s \in Nat,
           NEW a \in s..(s + g - 1), NEW b \in s..(s + g - 1), a % g = b % g
    PROVE  a = b
<1>1. /\ a \in Nat /\ b \in Nat
      /\ a = g * (a \div g) + (a % g) /\ a \div g \in Nat /\ a % g \in 0..(g - 1)
      /\ b = g * (b \div g) + (b % g) /\ b \div g \in Nat
  OBVIOUS
<1>2. \A x, y \in Nat : x < y => g * x + g <= g * y
  <2> SUFFICES ASSUME NEW x \in Nat, NEW y \in Nat, x < y PROVE g * x + g <= g * y
    OBVIOUS
  <2>1. PICK d \in Nat : y = x + 1 + d
    <3>1. y - x - 1 \in Nat /\ y = x + 1 + (y - x - 1)
      OBVIOUS
    <3> QED BY <3>1
  <2>2. g * d \in Nat /\ g * (x + 1 + d) = g * x + g + g * d
    OBVIOUS
  <2> QED BY <2>1, <2>2
<1>3. /\ g * (a \div g) \in Nat /\ g * (b \div g) \in Nat
      /\ ~(g * (a \div g) + g <= g * (b \div g)) /\ ~(g * (b \div g) + g <= g * (a \div g))
  BY <1>1
<1>4. a \div g = b \div g
  BY <1>1, <1>2, <1>3
<1> QED BY <1>1, <1>4

\* Tenants of different groups share no row, and with selective allocation (in
\* a power of two of groups) no two tenants do: the group bits GetIndex takes
\* from the DID are the high bits of the index.
THEOREM TenantsKeepToTheirPartition == Spec => []PartitionsIsolated
<1>1. KeysInPlace => PartitionsIsolated
  <2> SUFFICES ASSUME KeysInPlace, Lvl # CACHE_CONTEXT, NEW i \in Sets,
                      NEW k \in cache.rows[i].entries, NEW m \in cache.rows[i].entries
               PROVE  /\ k.did % GrNum = m.did % GrNum
                      /\ cache.salloc /\ GrNum = Groups => k.did = m.did
    BY DEF PartitionsIsolated
  <2>1. PICK e \in Events : PutBy(e, k, i)
    BY DEF KeysInPlace
  <2>2. PICK f \in Events : PutBy(f, m, i)
    BY DEF KeysInPlace
  <2>3. e \in Accesses /\ f \in Accesses
    BY EventsAreAccesses
  <2>4. k.did = e.did /\ m.did = f.did
    BY <2>1, <2>2, <2>3, BitsOfKey DEF PutBy
  <2>5. e.did % GrNum = f.did % GrNum
    BY <2>1, <2>2, <2>3, RowHasOneGroup, SetsMeanRows DEF PutBy
  <2>6. ASSUME cache.salloc, GrNum = Groups
        PROVE  k.did = m.did
    <3>1. /\ e.did \in StartDid..(StartDid + Groups - 1)
          /\ f.did \in StartDid..(StartDid + Groups - 1)
      BY <2>1, <2>2, <2>6 DEF PutBy, IsDIDCacheable
    <3>2. Groups \in Nat \ {0} /\ StartDid \in Nat
      BY CacheAssumption
    <3> QED BY <2>4, <2>5, <2>6, <3>1, <3>2, CloseWithSameRemainder
  <2> QED BY <2>4, <2>5, <2>6
<1> QED BY <1>1, AlwaysKeysInPlace, PTL

-----------------------------------------------------------------------------
(* The statistics.  SumFunction of the community modules is a recursive    *)
(* function, so what it does when one term changes takes induction, over   *)
(* sets: the library's induction theorems have an operator for a           *)
(* parameter, which the provers cannot instantiate.                        *)

\* The least element of a set of naturals.
LEMMA LeastNat ==
    ASSUME NEW T \in SUBSET Nat, T # {}
    PROVE  \E x \in T : \A y \in T : x <= y
<1> DEFINE R == {ss \in Nat \X Nat : ss[1] < ss[2]}
<1>1. IsWellFoundedOn(R, Nat)
  BY NatLessThanWellFounded DEF OpToRel
<1> HIDE DEF R
<1>2. \E x \in T : \A y \in T : ~(<<y, x>> \in R)
  BY <1>1, WFMin
<1>3. \A x, y \in T : ~(<<y, x>> \in R) => x <= y
  BY DEF R
<1> QED BY <1>2, <1>3

\* Induction over the naturals, for a set.
LEMMA NatSetInduction ==
    ASSUME NEW S \in SUBSET Nat, 0 \in S, \A n \in S : n + 1 \in S
    PROVE  S = Nat
<1> SUFFICES ASSUME Nat \ S # {} PROVE FALSE
  OBVIOUS
<1>1. PICK x \in Nat \ S : \A y \in Nat \ S : x <= y
  BY LeastNat
<1>2. x # 0 /\ x - 1 \in Nat /\ ~(x <= x - 1) /\ x = (x - 1) + 1
  OBVIOUS
<1> QED BY <1>1, <1>2

\* Induction over the subsets of a finite set.
LEMMA SubsetInduction ==
    ASSUME NEW S, IsFiniteSet(S), NEW Q, {} \in Q,
           \A s \in SUBSET S : s # {} /\ (\A x \in s : s \ {x} \in Q) => s \in Q
    PROVE  \A s \in SUBSET S : s \in Q
<1> DEFINE P == {n \in Nat : \A s \in SUBSET S : Cardinality(s) = n => s \in Q}
<1>0. \A s \in SUBSET S : IsFiniteSet(s) /\ Cardinality(s) \in Nat
  BY FS_Subset, FS_CardinalityType
<1>1. 0 \in P
  BY <1>0, FS_EmptySet
<1>2. ASSUME NEW n \in P PROVE n + 1 \in P
  <2> SUFFICES ASSUME NEW s \in SUBSET S, Cardinality(s) = n + 1 PROVE s \in Q
    OBVIOUS
  <2>0. n \in Nat /\ n + 1 # 0
    OBVIOUS
  <2>1. s # {}
    BY <2>0, FS_EmptySet
  <2>2. ASSUME NEW x \in s PROVE s \ {x} \in Q
    <3>1. Cardinality(s \ {x}) = n
      BY <1>0, FS_RemoveElement
    <3> QED BY <3>1
  <2> QED BY <2>1, <2>2
<1> HIDE DEF P
<1>3. P = Nat
  BY <1>1, <1>2, NatSetInduction DEF P
<1> QED BY <1>0, <1>3 DEF P

Choice(s) == CHOOSE x \in s : TRUE

\* One step of the recursion of SumFunction, and what solves it on the set D.
Step(h, f, s) == IF s = {} THEN 0 ELSE f[Choice(s)] + h[s \ {Choice(s)}]
Solves(h, f, D) == h = [s \in D |-> Step(h, f, s)]

LEMMA ChoiceIn == \A s : s # {} => Choice(s) \in s
BY DEF Choice

LEMMA SolutionExists ==
    ASSUME NEW S, IsFiniteSet(S), NEW f
    PROVE  \E h : Solves(h, f, SUBSET S)
<1> DEFINE Small(n) == {s \in SUBSET S : Cardinality(s) <= n}
           P == {n \in Nat : \E h : Solves(h, f, Small(n))}
<1>0. \A s \in SUBSET S : IsFiniteSet(s) /\ Cardinality(s) \in Nat
  BY FS_Subset, FS_CardinalityType
<1>1. 0 \in P
  <2> DEFINE h == [s \in Small(0) |-> 0]
  <2>1. \A s \in Small(0) : s = {}
    BY <1>0, FS_EmptySet
  <2>2. h = [s \in Small(0) |-> Step(h, f, s)]
    BY <2>1 DEF Step
  <2> QED BY <2>2 DEF Solves
<1>2. ASSUME NEW n \in P PROVE n + 1 \in P
  <2>1. PICK h : Solves(h, f, Small(n))
    OBVIOUS
  <2> DEFINE g == [s \in Small(n + 1) |-> Step(h, f, s)]
  <2>2. \A s \in Small(n) : g[s] = h[s]
    <3>1. \A s \in Small(n) : s \in Small(n + 1)
      BY <1>0
    <3>2. \A s \in Small(n) : h[s] = Step(h, f, s)
      BY <2>1 DEF Solves
    <3> QED BY <3>1, <3>2
  <2>3. ASSUME NEW s \in Small(n + 1) PROVE Step(h, f, s) = Step(g, f, s)
    <3>1. CASE s = {}
      BY <3>1 DEF Step
    <3>2. CASE s # {}
      <4>1. Choice(s) \in s
        BY <3>2, ChoiceIn
      <4>2. s \ {Choice(s)} \in SUBSET S /\ Cardinality(s \ {Choice(s)}) = Cardinality(s) - 1
        BY <1>0, <4>1, FS_RemoveElement
      <4>3. s \ {Choice(s)} \in Small(n)
        BY <1>0, <4>2
      <4> QED BY <2>2, <3>2, <4>3 DEF Step
    <3> QED BY <3>1, <3>2
  <2>4. g = [s \in Small(n + 1) |-> Step(g, f, s)]
    BY <2>3
  <2>5. \E k : Solves(k, f, Small(n + 1))
    <3> HIDE DEF Small
    <3> QED BY <2>4 DEF Solves
  <2>6. n + 1 \in Nat
    OBVIOUS
  <2> HIDE DEF Small
  <2> QED BY <2>5, <2>6
<1>3. P = Nat
  <2> HIDE DEF P
  <2>1. P \in SUBSET Nat
    BY DEF P
  <2> QED BY <1>1, <1>2, <2>1, NatSetInduction
<1>4. Cardinality(S) \in Nat
  BY FS_CardinalityType
<1>5. Small(Cardinality(S)) = SUBSET S
  BY FS_Subset
<1>6. \E h : Solves(h, f, Small(Cardinality(S)))
  BY <1>3, <1>4
<1> QED BY <1>5, <1>6

LEMMA SumSolves ==
    ASSUME NEW f, IsFiniteSet(DOMAIN f)
    PROVE  \E h : Solves(h, f, SUBSET DOMAIN f) /\ SumFunction(f) = h[DOMAIN f]
<1> DEFINE h == CHOOSE h : Solves(h, f, SUBSET DOMAIN f)
<1>1. Solves(h, f, SUBSET DOMAIN f)
  BY SolutionExists
<1>2. SumFunction(f) = h[DOMAIN f]
  <2>1. SumFunction(f) =
            LET iter[s \in SUBSET DOMAIN f] ==
                    IF s = {} THEN 0
                    ELSE LET x == CHOOSE x \in s : TRUE IN f[x] + iter[s \ {x}]
            IN  iter[DOMAIN f]
    BY DEF SumFunction, SumFunctionOnSet, FoldFunctionOnSet, MapThenFoldSet
  <2> QED BY <2>1 DEF Solves, Step, Choice
<1> QED BY <1>1, <1>2

\* A sum of naturals is one, of zeros is zero, and when one term changes the sum
\* changes by as much.
LEMMA SumsAreNat ==
    ASSUME NEW S, IsFiniteSet(S), NEW f \in [S -> Nat]
    PROVE  SumFunction(f) \in Nat
<1>1. PICK h : Solves(h, f, SUBSET S) /\ SumFunction(f) = h[S]
  BY SumSolves
<1> DEFINE Q == {s \in SUBSET S : h[s] \in Nat}
<1>2. \A s \in SUBSET S : h[s] = Step(h, f, s)
  BY <1>1 DEF Solves
<1>3. {} \in Q
  <2>1. h[{}] = 0
    BY Zenon, <1>2 DEF Step
  <2> QED BY <2>1
<1>4. ASSUME NEW s \in SUBSET S, s # {}, \A x \in s : s \ {x} \in Q
      PROVE  s \in Q
  <2>1. PICK c : c = Choice(s) /\ c \in s
    BY <1>4, ChoiceIn
  <2>2. h[s \ {c}] \in Nat /\ f[c] \in Nat
    BY <1>4, <2>1
  <2>3. h[s] = f[c] + h[s \ {c}]
    BY <1>2, <1>4, <2>1 DEF Step
  <2> QED BY <2>2, <2>3
<1> HIDE DEF Q
<1>5. \A s \in SUBSET S : s \in Q
  BY <1>3, <1>4, SubsetInduction
<1> QED BY <1>1, <1>5 DEF Q

LEMMA SumOfZeros ==
    ASSUME NEW S, IsFiniteSet(S)
    PROVE  SumFunction([i \in S |-> 0]) = 0
<1> DEFINE f == [i \in S |-> 0]
<1>0. DOMAIN f = S
  OBVIOUS
<1>1. PICK h : Solves(h, f, SUBSET S) /\ SumFunction(f) = h[S]
  <2> HIDE DEF f
  <2> QED BY <1>0, SumSolves
<1> DEFINE Q == {s \in SUBSET S : h[s] = 0}
<1>2. \A s \in SUBSET S : h[s] = Step(h, f, s)
  BY <1>1 DEF Solves
<1>3. {} \in Q
  <2>1. h[{}] = 0
    BY Zenon, <1>2 DEF Step
  <2> QED BY <2>1
<1>4. ASSUME NEW s \in SUBSET S, s # {}, \A x \in s : s \ {x} \in Q
      PROVE  s \in Q
  <2>1. PICK c : c = Choice(s) /\ c \in s
    BY <1>4, ChoiceIn
  <2>2. h[s \ {c}] = 0 /\ f[c] = 0
    BY <1>4, <2>1
  <2>3. h[s] = f[c] + h[s \ {c}]
    BY <1>2, <1>4, <2>1 DEF Step
  <2> QED BY <2>2, <2>3
<1> HIDE DEF Q
<1>5. \A s \in SUBSET S : s \in Q
  BY <1>3, <1>4, SubsetInduction
<1> QED BY <1>1, <1>5 DEF Q

TermChange(S, f, g, y, v) ==
    f \in [S -> Nat] /\ y \in S /\ v \in Nat /\ g = [f EXCEPT ![y] = v]

LEMMA SumChange ==
    ASSUME NEW S, IsFiniteSet(S), NEW f, NEW g, NEW y, NEW v, TermChange(S, f, g, y, v)
    PROVE  SumFunction(g) + f[y] = SumFunction(f) + v
<1>0. /\ f \in [S -> Nat] /\ y \in S /\ v \in Nat
      /\ g \in [S -> Nat] /\ g[y] = v /\ \A x \in S : x # y => g[x] = f[x]
  BY DEF TermChange
<1>1. PICK h : Solves(h, f, SUBSET S) /\ SumFunction(f) = h[S]
  BY <1>0, SumSolves
<1>2. PICK k : Solves(k, g, SUBSET S) /\ SumFunction(g) = k[S]
  BY <1>0, SumSolves
<1> DEFINE Q == {s \in SUBSET S :
                    /\ h[s] \in Nat /\ k[s] \in Nat
                    /\ y \notin s => k[s] = h[s]
                    /\ y \in s => k[s] + f[y] = h[s] + v}
<1>3. \A s \in SUBSET S : h[s] = Step(h, f, s) /\ k[s] = Step(k, g, s)
  BY <1>1, <1>2 DEF Solves
<1>4. {} \in Q
  <2>1. h[{}] = 0 /\ k[{}] = 0
    BY Zenon, <1>3 DEF Step
  <2> QED BY <2>1
<1>5. ASSUME NEW s \in SUBSET S, s # {}, \A x \in s : s \ {x} \in Q
      PROVE  s \in Q
  <2>1. PICK c : c = Choice(s) /\ c \in s
    BY <1>5, ChoiceIn
  <2>2. PICK t : t = s \ {c}
    OBVIOUS
  <2>3. h[s] = f[c] + h[t] /\ k[s] = g[c] + k[t]
    BY <1>3, <1>5, <2>1, <2>2 DEF Step
  <2>4. /\ h[t] \in Nat /\ k[t] \in Nat
        /\ y \notin t => k[t] = h[t]
        /\ y \in t => k[t] + f[y] = h[t] + v
    BY <1>5, <2>1, <2>2
  <2>5. f[c] \in Nat /\ g[c] \in Nat /\ f[y] \in Nat /\ v \in Nat
    BY <1>0, <2>1
  <2>6. CASE c = y
    <3>1. y \in s /\ y \notin t /\ g[c] = v
      BY <1>0, <2>1, <2>2, <2>6
    <3> QED BY <2>3, <2>4, <2>5, <2>6, <3>1
  <2>7. CASE c # y
    <3>1. (y \in s <=> y \in t) /\ g[c] = f[c]
      BY <1>0, <2>1, <2>2, <2>7
    <3> QED BY <2>3, <2>4, <2>5, <3>1
  <2> QED BY <2>6, <2>7
<1> HIDE DEF Q
<1>6. \A s \in SUBSET S : s \in Q
  BY <1>4, <1>5, SubsetInduction
<1>7. S \in Q
  BY <1>6
<1> QED BY <1>0, <1>1, <1>2, <1>7 DEF Q

\* What CacheRow_proofs.tla says of the rows: of Assoc ways, and any keys and
\* next access times that an access of the cache carries.
AllKeys == {KeyOf(e) : e \in Events}
AllNats == Nat \ {0}

RP == INSTANCE CacheRow_proofs
    WITH RowSize <- Assoc, Keys <- AllKeys, Nats <- AllNats, row <- cache, stack <- cache

LEMMA RowAssumptions ==
    ASSUME SNum # 0
    PROVE  Assoc \in Nat /\ Assoc > 0 /\ MaxFreq \in Nat \ {0} /\ AllNats \subseteq Nat \ {0}
BY CacheAssumption DEF SNum, AllNats

\* The operators of the rows are one in both modules.
LEMMA SameRowOps ==
    /\ \A S : Row!Cardinality(S) = Cardinality(S) /\ RP!Cardinality(S) = Cardinality(S)
    /\ \A r : Row!IsConflict(r) = RP!IsConflict(r)
    /\ \A t : Row!EmptyRow(t) = RP!EmptyRow(t)
    /\ \A r, k, n : Row!SearchKey(r, k, n) = RP!SearchKey(r, k, n)
    /\ \A r, k, n : Row!AddEntry(r, k, n) = RP!AddEntry(r, k, n)
<1>1. \A S : Row!Cardinality(S) = Cardinality(S) /\ RP!Cardinality(S) = Cardinality(S)
  BY DEF Row!Cardinality, RP!Cardinality, Cardinality
<1>2. \A r : Row!IsConflict(r) = RP!IsConflict(r) /\ Row!IsLRU(r) = RP!IsLRU(r)
  BY <1>1 DEF Row!IsConflict, RP!IsConflict, Row!IsLRU, RP!IsLRU
<1>3. \A t : Row!EmptyRow(t) = RP!EmptyRow(t)
  BY DEF Row!EmptyRow, RP!EmptyRow
<1>4. \A s, k : Row!RemoveFirst(s, k) = RP!RemoveFirst(s, k)
  BY DEF Row!RemoveFirst, RP!RemoveFirst, Row!RemoveAt, RP!RemoveAt,
         Row!SelectInSeq, RP!SelectInSeq, Row!Min, RP!Min
<1>5. \A s, k : Row!MoveToBack(s, k) = RP!MoveToBack(s, k) /\ Row!Count(s, k) = RP!Count(s, k)
  BY <1>4 DEF Row!MoveToBack, RP!MoveToBack, Row!Count, RP!Count
<1>6. \A r, k, n : Row!SearchKey(r, k, n) = RP!SearchKey(r, k, n)
  <2> TAKE r, k, n
  <2>1. Row!IsLRU(r) = RP!IsLRU(r)
    BY <1>2
  <2>2. /\ Row!MoveToBack(r.meta, k) = RP!MoveToBack(r.meta, k)
        /\ Row!Count(r.meta, k) = RP!Count(r.meta, k)
    BY <1>5
  <2>3. CASE k \notin r.entries
    BY <2>3 DEF Row!SearchKey, RP!SearchKey
  <2>4. CASE k \in r.entries
    BY <2>1, <2>2, <2>4 DEF Row!SearchKey, RP!SearchKey
  <2> QED BY <2>3, <2>4
<1>7. \A r, k, n : Row!Install(r, k, n) = RP!Install(r, k, n)
  BY DEF Row!Install, RP!Install, Row!IsLRU, RP!IsLRU
<1>8. \A r, k : Row!InvKey(r, k) = RP!InvKey(r, k)
  BY <1>4 DEF Row!InvKey, RP!InvKey, Row!IsLRU, RP!IsLRU
<1>9. \A r : Row!GetVictimKey(r) = RP!GetVictimKey(r) /\ Row!PinnedVictim(r) = RP!PinnedVictim(r)
  BY DEF Row!GetVictimKey, RP!GetVictimKey, Row!PinnedVictim, RP!PinnedVictim,
         Row!IsLRU, RP!IsLRU, Row!LRUVictims, RP!LRUVictims,
         Row!LFUVictims, RP!LFUVictims, Row!NATVictims, RP!NATVictims, Row!NoKey, RP!NoKey
<1>10. \A r, k, n : Row!AddEntry(r, k, n) = RP!AddEntry(r, k, n)
  BY <1>2, <1>7, <1>8, <1>9 DEF Row!AddEntry, RP!AddEntry
<1> QED BY <1>1, <1>2, <1>3, <1>6, <1>10

\* A row as its policy keeps it.
GoodRow(r) == RP!RowOK(r) /\ r.type = RowT

LEMMA EmptyIsGood ==
    ASSUME SNum # 0
    PROVE  GoodRow(Row!EmptyRow(RowT)) /\ Row!EmptyRow(RowT).entries = {}
<1>1. PICK r : r = RP!EmptyRow(RowT)
  OBVIOUS
<1>2. RowT \in RP!RowTypes
  BY CacheAssumption DEF RP!RowTypes, Row!RowTypes
<1>3. RP!RowOK(r) /\ r.type = RowT /\ r.entries = {}
  BY <1>1, <1>2, RowAssumptions, RP!EmptyRowOK
<1> QED BY <1>1, <1>3, SameRowOps DEF GoodRow

LEMMA SearchedIsGood ==
    ASSUME SNum # 0, NEW r, GoodRow(r), NEW k \in r.entries, NEW n \in AllNats,
           NEW q, q = Row!SearchKey(r, k, n)
    PROVE  GoodRow(q) /\ q.entries = r.entries
<1>1. q = RP!SearchKey(r, k, n) /\ RP!RowOK(r)
  BY SameRowOps DEF GoodRow
<1>2. RP!RowOK(q) /\ q.type = r.type /\ q.entries = r.entries
  BY <1>1, RowAssumptions, RP!SearchKeyOK
<1> QED BY <1>2 DEF GoodRow

LEMMA FilledIsGood ==
    ASSUME SNum # 0, NEW r, GoodRow(r), NEW k \in AllKeys \ r.entries, NEW n \in AllNats,
           NEW q \in Row!AddEntry(r, k, n)
    PROVE  /\ GoodRow(q)
           /\ Cardinality(q.entries) =
                  Cardinality(r.entries) + IF Row!IsConflict(r) THEN 0 ELSE 1
<1>1. q \in RP!AddEntry(r, k, n) /\ RP!RowOK(r)
  BY SameRowOps DEF GoodRow
<1>2. RP!RowOK(q) /\ q.type = r.type
  BY <1>1, RowAssumptions, RP!AddEntryOK
<1>3. r.type # "LRUPin"
  BY CacheAssumption DEF GoodRow, Row!RowTypes
<1>4. RP!Cardinality(q.entries) =
          RP!Cardinality(r.entries) + IF RP!IsConflict(r) THEN 0 ELSE 1
  BY <1>1, <1>3, RowAssumptions, RP!AddEntryCounts
<1> QED BY <1>2, <1>4, SameRowOps DEF GoodRow

LEMMA GoodCount ==
    ASSUME SNum # 0, NEW r, GoodRow(r)
    PROVE  Cardinality(r.entries) \in Nat
<1>1. IsFiniteSet(r.entries)
  <2>1. RP!IsFiniteSet(r.entries)
    BY DEF GoodRow, RP!RowOK, RP!WithinRow
  <2> QED BY <2>1 DEF RP!IsFiniteSet, IsFiniteSet
<1> QED BY <1>1, FS_CardinalityType

\* The keys in each row.
Held == [i \in Sets |-> Cardinality(cache.rows[i].entries)]

\* The inductive invariant of the statistics.
StatsInv ==
    /\ CacheShape
    /\ cache.acc \in [Sets -> Nat]
    /\ cache.hit \in Nat /\ cache.miss \in Nat /\ cache.confl \in Nat
    /\ \A i \in Sets : GoodRow(cache.rows[i])
    /\ SumFunction(cache.acc) = cache.hit + cache.miss
    /\ SumFunction(Held) = cache.miss - cache.confl

LEMMA SetsAreFinite == IsFiniteSet(Sets)
<1>1. SNum \in Nat
  BY CacheAssumption DEF SNum
<1> QED BY <1>1, FS_Interval DEF Sets

LEMMA InitStats == Init => StatsInv
<1> SUFFICES ASSUME Init PROVE StatsInv
  OBVIOUS
<1>1. CacheShape /\ \A i \in Sets : cache.rows[i].entries = {}
  BY InitEmpty
<1>2. /\ cache.rows = [i \in Sets |-> Row!EmptyRow(RowT)] /\ cache.acc = [i \in Sets |-> 0]
      /\ cache.hit = 0 /\ cache.miss = 0 /\ cache.confl = 0
  BY DEF Init
<1>3. \A i \in Sets : GoodRow(cache.rows[i])
  BY <1>2, SetsMeanRows, EmptyIsGood
<1>4. Held = [i \in Sets |-> 0]
  BY <1>1, FS_EmptySet DEF Held
<1>5. SumFunction(cache.acc) = 0 /\ SumFunction(Held) = 0
  BY <1>2, <1>4, SetsAreFinite, SumOfZeros
<1> QED BY <1>1, <1>2, <1>3, <1>5 DEF StatsInv

\* What every access that counts changes: its row, and of the counters the
\* accesses to the row by a, hits by h, misses by m and conflicts by c, of which
\* the keys in the row grow by m - c.
Counted(j, r, a, h, m, c) ==
    /\ cache'.rows = [cache.rows EXCEPT ![j] = r]
    /\ cache'.acc = [cache.acc EXCEPT ![j] = @ + a]
    /\ cache'.hit = cache.hit + h /\ cache'.miss = cache.miss + m
    /\ cache'.confl = cache.confl + c

LEMMA CountedKeepsSums ==
    ASSUME StatsInv, CacheShape', NEW j \in Sets, NEW r, GoodRow(r),
           NEW a \in {0, 1}, NEW h \in {0, 1}, NEW m \in {0, 1}, NEW c \in {0, 1},
           a = h + m, c <= m, Counted(j, r, a, h, m, c),
           Cardinality(r.entries) = Cardinality(cache.rows[j].entries) + (m - c)
    PROVE  StatsInv'
<1>1. \A i \in Sets : cache'.rows[i] = IF i = j THEN r ELSE cache.rows[i]
  BY DEF Counted, StatsInv, CacheShape
<1>2. \A i \in Sets : GoodRow(cache'.rows[i])
  BY <1>1 DEF StatsInv
<1>3. /\ cache'.acc = [cache.acc EXCEPT ![j] = cache.acc[j] + a]
      /\ cache.acc \in [Sets -> Nat] /\ cache.acc[j] \in Nat /\ cache.acc[j] + a \in Nat
  BY DEF Counted, StatsInv
<1>4. PICK f, g : f = Held /\ g = Held'
  OBVIOUS
<1>5. /\ f = [i \in Sets |-> Cardinality(cache.rows[i].entries)]
      /\ g = [i \in Sets |-> Cardinality(cache'.rows[i].entries)]
  BY <1>4 DEF Held
<1>6. f \in [Sets -> Nat] /\ f[j] \in Nat /\ Cardinality(r.entries) \in Nat
  BY <1>5, SetsMeanRows, GoodCount DEF StatsInv
<1>7. g = [f EXCEPT ![j] = Cardinality(r.entries)] /\ Cardinality(r.entries) = f[j] + (m - c)
  BY <1>1, <1>5
<1>8. PICK s, t : s = SumFunction(cache.acc) /\ t = SumFunction(cache'.acc)
  OBVIOUS
<1>9. s \in Nat /\ t \in Nat /\ t + cache.acc[j] = s + (cache.acc[j] + a)
  <2>1. PICK f0, f1 : f0 = cache.acc /\ f1 = cache'.acc
    OBVIOUS
  <2>2. TermChange(Sets, f0, f1, j, f0[j] + a) /\ f0 \in [Sets -> Nat] /\ f1 \in [Sets -> Nat]
    BY <1>3, <2>1 DEF TermChange
  <2>3. SumFunction(f1) + f0[j] = SumFunction(f0) + (f0[j] + a)
    BY <2>2, SetsAreFinite, SumChange
  <2> QED BY <1>8, <2>1, <2>2, <2>3, SetsAreFinite, SumsAreNat
<1>10. PICK u, v, n : u = SumFunction(f) /\ v = SumFunction(g) /\ n = Cardinality(r.entries)
  OBVIOUS
<1>11. u \in Nat /\ v \in Nat /\ v + f[j] = u + n
  <2>1. n \in Nat /\ g = [f EXCEPT ![j] = n] /\ g \in [Sets -> Nat]
    BY <1>6, <1>7, <1>10
  <2>2. SumFunction(g) + f[j] = SumFunction(f) + n
    <3>1. TermChange(Sets, f, g, j, n)
      BY <1>6, <2>1 DEF TermChange
    <3> QED BY <3>1, SetsAreFinite, SumChange
  <2> QED BY <1>6, <1>10, <2>1, <2>2, SetsAreFinite, SumsAreNat
<1>12. PICK hit, miss, confl : hit = cache.hit /\ miss = cache.miss /\ confl = cache.confl
  OBVIOUS
<1>13. /\ hit \in Nat /\ miss \in Nat /\ confl \in Nat
       /\ cache'.hit = hit + h /\ cache'.miss = miss + m /\ cache'.confl = confl + c
       /\ s = hit + miss /\ u = miss - confl
  BY <1>4, <1>8, <1>10, <1>12 DEF StatsInv, Counted
<1>14. t = s + a /\ v = u + (m - c)
  <2>1. t = s + a
    BY <1>3, <1>9
  <2>2. v = u + (m - c)
    BY <1>6, <1>7, <1>10, <1>11
  <2> QED BY <2>1, <2>2
<1>15. t = cache'.hit + cache'.miss /\ v = cache'.miss - cache'.confl
  BY <1>13, <1>14
<1>16. cache'.acc \in [Sets -> Nat]
  BY <1>3
<1> QED BY <1>2, <1>4, <1>8, <1>10, <1>13, <1>15, <1>16 DEF StatsInv, GoodRow

LEMMA NextStats == StatsInv /\ [Next]_cache => StatsInv'
<1> SUFFICES ASSUME StatsInv, [Next]_cache PROVE StatsInv'
  OBVIOUS
<1>1. CASE UNCHANGED cache
  BY <1>1 DEF StatsInv, CacheShape, RowShape, Held, GoodRow
<1>2. ASSUME NEW e \in Events, NEW alloc \in BOOLEAN, Translate(e, alloc), SNum # 0
      PROVE  StatsInv'
  <2> DEFINE j == GetIndex(e)
             k == KeyOf(e)
             o == cache.rows[j]
  <2>1. j \in Sets /\ GoodRow(o) /\ k \in AllKeys /\ e.nat \in AllNats
    BY <1>2, EventsAreAccesses, IndexInRange DEF StatsInv, AllKeys, AllNats, Events
  <2>2. CacheShape /\ CacheShape'
    BY <1>2, AccessChanges DEF StatsInv
  <2> HIDE DEF j, k, o
  <2>3. CASE TranslateHit(e, alloc)
    <3>1. PICK r, n : /\ r = Row!SearchKey(o, k, e.nat) /\ n = (IF alloc THEN 1 ELSE 0)
                      /\ cache' = [cache EXCEPT !.rows[j] = r, !.hit = @ + n, !.acc[j] = @ + n]
      BY <2>3 DEF TranslateHit, j, k, o
    <3>2. k \in o.entries
      BY <2>3 DEF TranslateHit, IsHit, RowOf, j, k, o
    <3>3. GoodRow(r) /\ r.entries = o.entries
      BY <1>2, <2>1, <3>1, <3>2, SearchedIsGood
    <3>4. n \in {0, 1} /\ n = n + 0 /\ Cardinality(r.entries) = Cardinality(o.entries) + (0 - 0)
      BY <1>2, <2>1, <3>1, <3>3, GoodCount
    <3>5. Counted(j, r, n, n, 0, 0)
      <4>1. /\ cache'.rows = [cache.rows EXCEPT ![j] = r]
            /\ cache'.acc = [cache.acc EXCEPT ![j] = @ + n]
            /\ cache'.hit = cache.hit + n
            /\ cache'.miss = cache.miss /\ cache'.confl = cache.confl
        BY <2>2, <3>1 DEF CacheShape
      <4>2. cache.miss + 0 = cache.miss /\ cache.confl + 0 = cache.confl
        BY DEF StatsInv
      <4> QED BY <4>1, <4>2 DEF Counted
    <3>6. o = cache.rows[j]
      BY DEF o
    <3>7. n = n + 0 /\ 0 <= 0 /\ 0 \in {0, 1}
      BY <3>4
    <3> QED BY <2>1, <2>2, <3>3, <3>4, <3>5, <3>6, <3>7, CountedKeepsSums
  <2>4. CASE TranslateFill(e)
    <3>0. PICK c : c = (IF Row!IsConflict(o) THEN 1 ELSE 0)
      OBVIOUS
    <3>1. PICK r \in Row!AddEntry(o, k, e.nat) :
              cache' = [cache EXCEPT !.rows[j] = r, !.miss = @ + 1, !.confl = @ + c,
                                     !.acc[j] = @ + 1, !.seen = @ \cup {e.did}]
      BY <2>4, <3>0 DEF TranslateFill, RowOf, j, k, o
    <3>2. k \notin o.entries
      BY <1>2, <2>4 DEF TranslateFill, IsHit, RowOf, j, k, o
    <3>3. /\ GoodRow(r)
          /\ Cardinality(r.entries) =
                 Cardinality(o.entries) + IF Row!IsConflict(o) THEN 0 ELSE 1
      BY <1>2, <2>1, <3>1, <3>2, FilledIsGood
    <3>4. c \in {0, 1} /\ c <= 1 /\ 1 = 0 + 1
          /\ Cardinality(r.entries) = Cardinality(o.entries) + (1 - c)
      BY <3>0, <3>3
    <3>5. Counted(j, r, 1, 0, 1, c)
      <4>1. /\ cache'.rows = [cache.rows EXCEPT ![j] = r]
            /\ cache'.acc = [cache.acc EXCEPT ![j] = @ + 1]
            /\ cache'.hit = cache.hit
            /\ cache'.miss = cache.miss + 1 /\ cache'.confl = cache.confl + c
        BY <2>2, <3>1 DEF CacheShape
      <4>2. cache.hit + 0 = cache.hit
        BY DEF StatsInv
      <4> QED BY <4>1, <4>2 DEF Counted
    <3> QED BY <2>1, <2>2, <3>3, <3>4, <3>5, CountedKeepsSums DEF o
  <2>5. CASE UNCHANGED cache
    BY <1>1, <2>5
  <2> QED BY <1>2, <2>3, <2>4, <2>5 DEF Translate, TranslateMiss
<1>3. CASE Next
  <2>1. PICK e \in Events, fill \in BOOLEAN : Translate(e, fill /\ IsDIDCacheable(e.did))
    BY <1>3 DEF Next, Access
  <2>2. CASE SNum # 0
    BY <1>2, <2>1, <2>2 DEF IsDIDCacheable
  <2>3. CASE SNum = 0
    BY <1>1, <2>1, <2>3 DEF Translate, TranslateHit, TranslateFill, TranslateMiss, IsHit
  <2> QED BY <2>2, <2>3
<1> QED BY <1>1, <1>3

\* The accesses counted per row add up to the hits and misses, which is the
\* mismatch PrintStat warns of, and the keys in the rows are as many as were
\* missed less those that conflicts evicted: every miss that is counted installs
\* a key, every conflict evicts one that is there, and a hit does neither.
THEOREM StatisticsAddUp == Spec => []StatsDescribeContents
<1>1. StatsInv => StatsDescribeContents
  BY DEF StatsInv, StatsDescribeContents, Held
<1> QED BY <1>1, InitStats, NextStats, PTL DEF Spec
=============================================================================

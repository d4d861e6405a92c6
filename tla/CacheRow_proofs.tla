---------------------------- MODULE CacheRow_proofs ----------------------------
(***************************************************************************)
(* Theorems about CacheRow.tla, for rows of any size, any keys, next       *)
(* access times and halving threshold, and every replacement policy: the   *)
(* policy's bookkeeping describes the row's keys, the LRU fifo is the      *)
(* recency order, the LFU counters stay below the threshold, and every     *)
(* step of a row is a step of AbstractRow.tla or a stutter.                *)
(***************************************************************************)
EXTENDS CacheRow, FiniteSetTheorems, SequenceTheorems, TLAPS

USE RowAssumption, NatsAssumption

-----------------------------------------------------------------------------
\* A sequence with no two equal elements.
NoDup(s) == \A i, j \in 1..Len(s) : s[i] = s[j] => i = j

\* The age fifo `s` of a row that holds the keys E.
FifoOf(s, E) ==
    /\ s \in Seq(Keys) /\ NoDup(s)
    /\ ToSet(s) = E
    /\ Len(s) = Cardinality(E)

\* Removing from a sequence without duplicates a key that it does not hold
\* changes nothing; removing the key at p closes the gap at p.
LEMMA RemoveAbsent ==
    ASSUME NEW s \in Seq(Keys), NEW k, k \notin ToSet(s)
    PROVE  RemoveFirst(s, k) = s
BY DEF RemoveFirst, ToSet

LEMMA RemoveAtPosition ==
    ASSUME NEW s \in Seq(Keys), NoDup(s), NEW p \in 1..Len(s)
    PROVE  LET t == RemoveFirst(s, s[p])
           IN  /\ t \in Seq(Keys)
               /\ Len(t) = Len(s) - 1
               /\ \A i \in 1..Len(t) : t[i] = IF i < p THEN s[i] ELSE s[i + 1]
<1>1. {i \in 1..Len(s) : s[i] = s[p]} = {p}
    BY DEF NoDup
<1>2. Min({p}) = p
    BY DEF Min
<1>3. RemoveFirst(s, s[p]) = RemoveAt(s, p)
    BY <1>1, <1>2 DEF RemoveFirst, SelectInSeq
<1> DEFINE a == SubSeq(s, 1, p - 1)
           b == SubSeq(s, p + 1, Len(s))
<1>4. /\ a \in Seq(Keys) /\ Len(a) = p - 1
      /\ \A i \in 1..(p - 1) : a[i] = s[i]
    BY SubSeqProperties
<1>5. /\ b \in Seq(Keys) /\ Len(b) = Len(s) - p
      /\ \A i \in 1..(Len(s) - p) : b[i] = s[p + i]
    <2>1. \A i \in (p + 1)..Len(s) : s[i] \in Keys
        OBVIOUS
    <2>2. /\ b \in Seq(Keys)
          /\ Len(b) = IF p + 1 <= Len(s) THEN Len(s) - (p + 1) + 1 ELSE 0
          /\ \A i \in 1..(Len(s) - (p + 1) + 1) : b[i] = s[(p + 1) + i - 1]
        BY <2>1, SubSeqProperties
    <2> QED
        BY <2>2
<1> HIDE DEF a, b
<1>6. /\ a \o b \in Seq(Keys)
      /\ Len(a \o b) = Len(s) - 1
      /\ \A i \in 1..(Len(s) - 1) : (a \o b)[i] = IF i <= p - 1 THEN a[i] ELSE b[i - (p - 1)]
    BY <1>4, <1>5, ConcatProperties
<1>7. ASSUME NEW i \in 1..(Len(s) - 1)
      PROVE  (a \o b)[i] = IF i < p THEN s[i] ELSE s[i + 1]
    <2>1. CASE i < p
        BY <2>1, <1>4, <1>6
    <2>2. CASE ~(i < p)
        <3>1. i - (p - 1) \in 1..(Len(s) - p) /\ p + (i - (p - 1)) = i + 1 /\ ~(i <= p - 1)
            BY <2>2
        <3> QED
            BY <2>2, <3>1, <1>5, <1>6
    <2> QED
        BY <2>1, <2>2
<1>8. RemoveFirst(s, s[p]) = a \o b
    BY <1>3 DEF RemoveAt, a, b
<1> QED
    BY <1>6, <1>7, <1>8

\* Erasing a resident key from the fifo keeps it a fifo, of the other keys.
LEMMA RemoveFifo ==
    ASSUME NEW E \in SUBSET Keys, IsFiniteSet(E),
           NEW s, FifoOf(s, E), NEW k \in E
    PROVE  FifoOf(RemoveFirst(s, k), E \ {k})
<1>1. PICK p \in 1..Len(s) : s[p] = k
    BY DEF FifoOf, ToSet
<1> DEFINE t == RemoveFirst(s, k)
<1>2. /\ t \in Seq(Keys) /\ Len(t) = Len(s) - 1
      /\ \A i \in 1..Len(t) : t[i] = IF i < p THEN s[i] ELSE s[i + 1]
    BY <1>1, RemoveAtPosition DEF FifoOf
<1> HIDE DEF t
<1>3. s \in Seq(Keys) /\ NoDup(s) /\ ToSet(s) = E /\ Len(s) = Cardinality(E)
    BY DEF FifoOf
<1>4. NoDup(t)
    BY <1>2, <1>3 DEF NoDup
<1>5. ToSet(t) = E \ {k}
    <2>1. ASSUME NEW i \in 1..Len(t) PROVE t[i] \in E \ {k}
        <3>1. PICK q \in 1..Len(s) : q # p /\ t[i] = s[q]
            <4>1. CASE i < p
                BY <4>1, <1>2, <1>3
            <4>2. CASE ~(i < p)
                BY <4>2, <1>2, <1>3
            <4> QED
                BY <4>1, <4>2
        <3>2. s[q] # k
            BY <3>1, <1>1, <1>3 DEF NoDup
        <3> QED
            BY <3>1, <3>2, <1>3 DEF ToSet
    <2>2. ASSUME NEW x \in E \ {k} PROVE \E i \in 1..Len(t) : t[i] = x
        <3>1. PICK j \in 1..Len(s) : s[j] = x
            BY <1>3 DEF ToSet
        <3>2. CASE j < p
            BY <3>1, <3>2, <1>1, <1>2, <1>3
        <3>3. CASE j > p
            <4>1. j - 1 \in 1..Len(t) /\ ~(j - 1 < p) /\ (j - 1) + 1 = j
                BY <3>3, <1>2, <1>3
            <4> QED
                BY <4>1, <3>1, <1>2
        <3> QED
            BY <3>1, <3>2, <3>3, <1>1, <1>3
    <2> QED
        BY <2>1, <2>2, <1>2 DEF ToSet
<1>6. Len(t) = Cardinality(E \ {k})
    <2>1. PICK n, m : n = Cardinality(E) /\ m = Cardinality(E \ {k})
        OBVIOUS
    <2>2. n \in Nat /\ m = n - 1
        BY <1>2, <1>3, <2>1, FS_RemoveElement, FS_CardinalityType
    <2>3. Len(t) = n - 1
        BY <1>2, <1>3, <2>1
    <2> QED
        BY <2>1, <2>2, <2>3
<1> QED
    BY <1>2, <1>4, <1>5, <1>6 DEF FifoOf, t

\* Appending a missing key keeps the fifo a fifo, of one key more.
LEMMA AppendFifo ==
    ASSUME NEW E \in SUBSET Keys, IsFiniteSet(E),
           NEW s, FifoOf(s, E), NEW k \in Keys \ E
    PROVE  FifoOf(Append(s, k), E \cup {k})
<1> DEFINE t == Append(s, k)
<1>1. s \in Seq(Keys) /\ NoDup(s) /\ ToSet(s) = E /\ Len(s) = Cardinality(E)
    BY DEF FifoOf
<1>2. /\ t \in Seq(Keys) /\ Len(t) = Len(s) + 1
      /\ \A i \in 1..Len(s) : t[i] = s[i]
      /\ t[Len(s) + 1] = k
    BY <1>1, AppendProperties
<1> HIDE DEF t
<1>3. \A i \in 1..Len(s) : s[i] # k
    BY <1>1 DEF ToSet
<1>4. NoDup(t)
    BY <1>1, <1>2, <1>3 DEF NoDup
<1>5. ToSet(t) = E \cup {k}
    <2>1. Len(s) + 1 \in 1..Len(t) /\ \A i \in 1..Len(s) : i \in 1..Len(t)
        BY <1>1, <1>2
    <2>2. \A i \in 1..Len(t) : i \in 1..Len(s) \/ i = Len(s) + 1
        BY <1>1, <1>2
    <2> QED
        BY <1>1, <1>2, <2>1, <2>2 DEF ToSet
<1>6. Len(t) = Cardinality(E \cup {k})
    <2>1. PICK n, m : n = Len(s) /\ m = Cardinality(E \cup {k})
        OBVIOUS
    <2>2. m = n + 1
        BY <1>1, <2>1, FS_AddElement
    <2> QED
        BY <1>2, <2>1, <2>2
<1> QED
    BY <1>2, <1>4, <1>5, <1>6 DEF FifoOf, t

\* A hit moves the key to the back of the fifo of the same keys.
LEMMA MoveFifo ==
    ASSUME NEW E \in SUBSET Keys, IsFiniteSet(E),
           NEW s, FifoOf(s, E), NEW k \in E
    PROVE  FifoOf(MoveToBack(s, k), E)
<1>1. FifoOf(RemoveFirst(s, k), E \ {k}) /\ IsFiniteSet(E \ {k})
    BY RemoveFifo, FS_RemoveElement
<1>2. (E \ {k}) \cup {k} = E /\ k \in Keys \ (E \ {k}) /\ E \ {k} \in SUBSET Keys
    OBVIOUS
<1> QED
    BY <1>1, <1>2, AppendFifo DEF MoveToBack

-----------------------------------------------------------------------------
\* The fields of a row; only an LRUPin row has pinned keys.
RowFields(r) ==
    \/ /\ r.type \in RowTypes
       /\ r = [type |-> r.type, entries |-> r.entries, meta |-> r.meta]
    \/ /\ r.type = "LRUPin"
       /\ r.pinned \in SUBSET Keys
       /\ r = [type |-> r.type, entries |-> r.entries, meta |-> r.meta, pinned |-> r.pinned]

\* A row never holds more keys than it has ways.
WithinRow(r) ==
    /\ r.entries \in SUBSET Keys /\ IsFiniteSet(r.entries)
    /\ Cardinality(r.entries) <= RowSize

\* What the policy keeps, for every resident key and no other.
MetaOf(r) ==
    CASE IsLRU(r) -> FifoOf(r.meta, r.entries)
      [] r.type = "LFU" -> r.meta \in [r.entries -> 0..(MaxFreq - 1)]
      [] r.type = "NAT" -> r.meta \in [r.entries -> Nats]

RowOK(r) == RowFields(r) /\ WithinRow(r) /\ MetaOf(r)

\* The three kinds of bookkeeping, apart.
LEMMA MetaCases ==
    ASSUME NEW r, RowFields(r)
    PROVE  /\ IsLRU(r) <=> r.type \in {"LRU", "LRUPin"}
           /\ IsLRU(r) \/ r.type = "LFU" \/ r.type = "NAT"
           /\ r.type = "LFU" => ~IsLRU(r) /\ r.type # "NAT"
           /\ r.type = "NAT" => ~IsLRU(r) /\ r.type # "LFU"
           /\ MetaOf(r) <=> /\ IsLRU(r) => FifoOf(r.meta, r.entries)
                            /\ r.type = "LFU" => r.meta \in [r.entries -> 0..(MaxFreq - 1)]
                            /\ r.type = "NAT" => r.meta \in [r.entries -> Nats]
BY DEF RowFields, RowTypes, IsLRU, MetaOf

\* Changing the keys or the bookkeeping of a row leaves its other fields alone.
LEMMA EntriesUpdate ==
    ASSUME NEW r, RowFields(r), NEW E,
           NEW q, q = [r EXCEPT !.entries = E]
    PROVE  /\ RowFields(q)
           /\ q.type = r.type /\ q.entries = E /\ q.meta = r.meta
           /\ r.type = "LRUPin" => q.pinned = r.pinned
BY DEF RowFields, RowTypes

LEMMA MetaUpdate ==
    ASSUME NEW r, RowFields(r), NEW m,
           NEW q, q = [r EXCEPT !.meta = m]
    PROVE  /\ RowFields(q)
           /\ q.type = r.type /\ q.entries = r.entries /\ q.meta = m
           /\ r.type = "LRUPin" => q.pinned = r.pinned
BY DEF RowFields, RowTypes

-----------------------------------------------------------------------------
\* The incremented counter is halved with the others when it reaches MaxFreq,
\* so every counter stays below it.
LEMMA CountBelowMax ==
    ASSUME NEW E, NEW freq \in [E -> 0..(MaxFreq - 1)], NEW k \in E
    PROVE  Count(freq, k) \in [E -> 0..(MaxFreq - 1)]
<1> DEFINE up == [freq EXCEPT ![k] = @ + 1]
<1>1. /\ up \in [E -> 0..MaxFreq] /\ up[k] = freq[k] + 1
      /\ \A x \in E \ {k} : up[x] = freq[x]
    OBVIOUS
<1>2. Count(freq, k) = IF up[k] = MaxFreq THEN [x \in DOMAIN up |-> up[x] \div 2] ELSE up
    BY DEF Count
<1> HIDE DEF up
<1>3. CASE up[k] = MaxFreq
    <2>1. \A n \in 0..MaxFreq : n \div 2 \in 0..(MaxFreq - 1)
        OBVIOUS
    <2> QED
        BY <1>1, <1>2, <1>3, <2>1
<1>4. CASE up[k] # MaxFreq
    <2>1. \A x \in E : up[x] \in 0..(MaxFreq - 1)
        BY <1>1, <1>4
    <2> QED
        BY <1>1, <1>2, <1>4, <2>1
<1> QED
    BY <1>3, <1>4

\* SearchKey keeps the row's keys, and its bookkeeping describes them still.
LEMMA SearchKeyOK ==
    ASSUME NEW r, RowOK(r), NEW k \in r.entries, NEW nat \in Nats
    PROVE  LET q == SearchKey(r, k, nat)
           IN  /\ RowOK(q) /\ q.type = r.type /\ q.entries = r.entries
               /\ r.type = "LRUPin" => q.pinned = r.pinned
               /\ IsLRU(r) => q.meta = MoveToBack(r.meta, k)
<1>1. RowFields(r) /\ WithinRow(r) /\ MetaOf(r)
    BY DEF RowOK
<1>a. PICK m : SearchKey(r, k, nat) = [r EXCEPT !.meta = m]
               /\ (r.type \in {"LRU", "LRUPin"} => m = MoveToBack(r.meta, k))
               /\ (r.type = "LFU" => m = Count(r.meta, k))
               /\ (r.type = "NAT" => m = [r.meta EXCEPT ![k] = nat])
    BY DEF SearchKey, IsLRU
<1>b. PICK q : q = SearchKey(r, k, nat)
    OBVIOUS
<1>c. q = [r EXCEPT !.meta = m]
    BY <1>a, <1>b
<1> SUFFICES /\ RowOK(q) /\ q.type = r.type /\ q.entries = r.entries
             /\ r.type = "LRUPin" => q.pinned = r.pinned
             /\ IsLRU(r) => q.meta = MoveToBack(r.meta, k)
    BY <1>b
<1>2. /\ RowFields(q) /\ q.type = r.type /\ q.entries = r.entries /\ q.meta = m
      /\ r.type = "LRUPin" => q.pinned = r.pinned
    BY <1>1, <1>c, MetaUpdate
<1>3. IsLRU(q) <=> IsLRU(r)
    BY <1>2 DEF IsLRU
<1>4. CASE IsLRU(r)
    <2>1. m = MoveToBack(r.meta, k)
        BY <1>4, <1>a DEF IsLRU
    <2>2. FifoOf(m, r.entries)
        BY <1>1, <1>4, <2>1, MetaCases, MoveFifo DEF WithinRow
    <2>3. MetaOf(q)
        BY <1>1, <1>2, <1>3, <1>4, <2>2, MetaCases
    <2> QED
        BY <1>1, <1>2, <2>1, <2>3 DEF RowOK, WithinRow
<1>5. CASE r.type = "LFU"
    <2>1. ~IsLRU(r) /\ r.meta \in [r.entries -> 0..(MaxFreq - 1)]
        BY <1>1, <1>5, MetaCases
    <2>2. m = Count(r.meta, k)
        BY <1>5, <1>a
    <2>3. m \in [r.entries -> 0..(MaxFreq - 1)]
        BY <2>1, <2>2, CountBelowMax
    <2>4. MetaOf(q)
        BY <1>2, <1>3, <1>5, <2>1, <2>3, MetaCases
    <2> QED
        BY <1>1, <1>2, <2>1, <2>4 DEF RowOK, WithinRow
<1>6. CASE r.type = "NAT"
    <2>1. ~IsLRU(r) /\ r.type # "LFU" /\ r.meta \in [r.entries -> Nats]
        BY <1>1, <1>6, MetaCases
    <2>2. m = [r.meta EXCEPT ![k] = nat]
        BY <1>6, <1>a
    <2>3. m \in [r.entries -> Nats]
        BY <2>1, <2>2
    <2>4. MetaOf(q)
        BY <1>2, <1>3, <1>6, <2>1, <2>3, MetaCases
    <2> QED
        BY <1>1, <1>2, <2>1, <2>4 DEF RowOK, WithinRow
<1> QED
    BY <1>1, <1>4, <1>5, <1>6, MetaCases

\* InvKey takes the key out of the row and out of its bookkeeping.
LEMMA InvKeyOK ==
    ASSUME NEW r, RowOK(r), NEW k \in r.entries
    PROVE  LET q == InvKey(r, k)
           IN  /\ RowOK(q) /\ q.type = r.type /\ q.entries = r.entries \ {k}
               /\ Cardinality(q.entries) = Cardinality(r.entries) - 1
               /\ r.type = "LRUPin" => q.pinned = r.pinned
               /\ IsLRU(r) => q.meta = RemoveFirst(r.meta, k)
<1>1. RowFields(r) /\ WithinRow(r) /\ MetaOf(r)
    BY DEF RowOK
<1>2. PICK m : InvKey(r, k) = [r EXCEPT !.entries = r.entries \ {k}, !.meta = m]
               /\ (r.type \in {"LRU", "LRUPin"} => m = RemoveFirst(r.meta, k))
               /\ (r.type \notin {"LRU", "LRUPin"} =>
                       m = [x \in DOMAIN r.meta \ {k} |-> r.meta[x]])
    <2> DEFINE mm == IF r.type \in {"LRU", "LRUPin"} THEN RemoveFirst(r.meta, k)
                     ELSE [x \in DOMAIN r.meta \ {k} |-> r.meta[x]]
    <2>1. InvKey(r, k) = [r EXCEPT !.entries = r.entries \ {k}, !.meta = mm]
        BY <1>1 DEF InvKey, IsLRU, RowFields
    <2> QED
        BY <2>1
<1>3. PICK q : q = InvKey(r, k)
    OBVIOUS
<1>b. PICK E : E = r.entries \ {k}
    OBVIOUS
<1>c. q = [r EXCEPT !.entries = E, !.meta = m]
    BY <1>b, <1>2, <1>3
<1>d. PICK p : p = [r EXCEPT !.entries = E] /\ q = [p EXCEPT !.meta = m]
    BY <1>c
<1>e. q = [p EXCEPT !.meta = m]
    BY <1>d
<1>4. /\ RowFields(q) /\ q.type = r.type /\ q.entries = r.entries \ {k} /\ q.meta = m
      /\ r.type = "LRUPin" => q.pinned = r.pinned
    <2>1. /\ RowFields(p) /\ p.type = r.type /\ p.entries = E
          /\ r.type = "LRUPin" => p.pinned = r.pinned
        BY <1>1, <1>d, EntriesUpdate
    <2>2. /\ RowFields(q) /\ q.type = p.type /\ q.entries = p.entries /\ q.meta = m
          /\ p.type = "LRUPin" => q.pinned = p.pinned
        BY <1>e, <2>1, MetaUpdate
    <2> QED
        BY <2>1, <2>2, <1>b
<1>5. WithinRow(q) /\ Cardinality(q.entries) = Cardinality(r.entries) - 1
    <2>1. /\ r.entries \in SUBSET Keys /\ IsFiniteSet(r.entries)
          /\ Cardinality(r.entries) \in Nat /\ Cardinality(r.entries) <= RowSize
        BY <1>1, FS_CardinalityType DEF WithinRow
    <2>2. /\ IsFiniteSet(r.entries \ {k})
          /\ Cardinality(r.entries \ {k}) = Cardinality(r.entries) - 1
        BY <2>1, FS_RemoveElement
    <2> QED
        BY <1>4, <2>1, <2>2 DEF WithinRow
<1>6. IsLRU(q) <=> IsLRU(r)
    BY <1>4 DEF IsLRU
<1>7. IsLRU(r) => m = RemoveFirst(r.meta, k)
    BY <1>2 DEF IsLRU
<1>8. MetaOf(q)
    <2>1. CASE IsLRU(r)
        <3>1. FifoOf(m, q.entries)
            BY <1>1, <1>4, <1>7, <2>1, MetaCases, RemoveFifo DEF WithinRow
        <3> QED
            BY <1>1, <1>4, <1>6, <2>1, <3>1, MetaCases
    <2>2. CASE ~IsLRU(r)
        <3>1. m = [x \in DOMAIN r.meta \ {k} |-> r.meta[x]]
            BY <1>2, <2>2 DEF IsLRU
        <3>2. ASSUME NEW T, r.meta \in [r.entries -> T] PROVE m \in [q.entries -> T]
            BY <1>4, <3>1, <3>2
        <3> QED
            BY <1>1, <1>4, <1>6, <2>2, <3>2, MetaCases
    <2> QED
        BY <2>1, <2>2
<1> QED
    BY <1>3, <1>4, <1>5, <1>7, <1>8 DEF RowOK

\* Install adds the key to the row and to its bookkeeping.
LEMMA InstallOK ==
    ASSUME NEW r, RowOK(r), Cardinality(r.entries) < RowSize,
           NEW k \in Keys \ r.entries, NEW nat \in Nats
    PROVE  LET q == Install(r, k, nat)
           IN  /\ RowOK(q) /\ q.type = r.type /\ q.entries = r.entries \cup {k}
               /\ r.type = "LRUPin" => q.pinned = r.pinned
               /\ IsLRU(r) => q.meta = Append(r.meta, k)
<1>1. RowFields(r) /\ WithinRow(r) /\ MetaOf(r)
    BY DEF RowOK
<1>2. PICK m : Install(r, k, nat) = [r EXCEPT !.entries = r.entries \cup {k}, !.meta = m]
               /\ (r.type \in {"LRU", "LRUPin"} => m = Append(r.meta, k))
               /\ (r.type = "LFU" => m = [x \in DOMAIN r.meta \cup {k} |->
                                              IF x = k THEN 0 ELSE r.meta[x]])
               /\ (r.type = "NAT" => m = [x \in DOMAIN r.meta \cup {k} |->
                                              IF x = k THEN nat ELSE r.meta[x]])
    <2> DEFINE mm == CASE r.type \in {"LRU", "LRUPin"} -> Append(r.meta, k)
                       [] r.type = "LFU" -> [x \in DOMAIN r.meta \cup {k} |->
                                              IF x = k THEN 0 ELSE r.meta[x]]
                       [] r.type = "NAT" -> [x \in DOMAIN r.meta \cup {k} |->
                                              IF x = k THEN nat ELSE r.meta[x]]
    <2>1. Install(r, k, nat) = [r EXCEPT !.entries = r.entries \cup {k}, !.meta = mm]
        BY <1>1 DEF Install, IsLRU, RowFields
    <2> QED
        BY <2>1
<1>3. PICK q : q = Install(r, k, nat)
    OBVIOUS
<1>b. PICK E : E = r.entries \cup {k}
    OBVIOUS
<1>c. q = [r EXCEPT !.entries = E, !.meta = m]
    BY <1>b, <1>2, <1>3
<1>d. PICK p : p = [r EXCEPT !.entries = E] /\ q = [p EXCEPT !.meta = m]
    BY <1>c
<1>e. q = [p EXCEPT !.meta = m]
    BY <1>d
<1>4. /\ RowFields(q) /\ q.type = r.type /\ q.entries = r.entries \cup {k} /\ q.meta = m
      /\ r.type = "LRUPin" => q.pinned = r.pinned
    <2>1. /\ RowFields(p) /\ p.type = r.type /\ p.entries = E
          /\ r.type = "LRUPin" => p.pinned = r.pinned
        BY <1>1, <1>d, EntriesUpdate
    <2>2. /\ RowFields(q) /\ q.type = p.type /\ q.entries = p.entries /\ q.meta = m
          /\ p.type = "LRUPin" => q.pinned = p.pinned
        BY <1>e, <2>1, MetaUpdate
    <2> QED
        BY <2>1, <2>2, <1>b
<1>5. WithinRow(q)
    <2>1. /\ r.entries \in SUBSET Keys /\ IsFiniteSet(r.entries)
          /\ Cardinality(r.entries) \in Nat /\ Cardinality(r.entries) < RowSize
        BY <1>1, FS_CardinalityType DEF WithinRow
    <2>2. /\ IsFiniteSet(r.entries \cup {k})
          /\ Cardinality(r.entries \cup {k}) = Cardinality(r.entries) + 1
        BY <2>1, FS_AddElement
    <2> QED
        BY <1>4, <2>1, <2>2 DEF WithinRow
<1>6. IsLRU(q) <=> IsLRU(r)
    BY <1>4 DEF IsLRU
<1>7. IsLRU(r) => m = Append(r.meta, k)
    BY <1>2 DEF IsLRU
<1>8. MetaOf(q)
    <2>1. CASE IsLRU(r)
        <3>1. FifoOf(r.meta, r.entries) /\ r.entries \in SUBSET Keys /\ IsFiniteSet(r.entries)
            BY <1>1, <2>1, MetaCases DEF WithinRow
        <3>2. FifoOf(Append(r.meta, k), r.entries \cup {k})
            BY <3>1, AppendFifo
        <3>3. FifoOf(m, q.entries)
            BY <1>4, <1>7, <2>1, <3>2
        <3> QED
            BY <1>1, <1>4, <1>6, <2>1, <3>3, MetaCases
    <2>2. CASE r.type = "LFU"
        <3>1. r.meta \in [r.entries -> 0..(MaxFreq - 1)] /\ ~IsLRU(r)
            BY <1>1, <2>2, MetaCases
        <3>2. m = [x \in r.entries \cup {k} |-> IF x = k THEN 0 ELSE r.meta[x]]
            BY <1>2, <2>2, <3>1
        <3>3. m \in [q.entries -> 0..(MaxFreq - 1)]
            BY <1>4, <3>1, <3>2
        <3> QED
            BY <1>4, <1>6, <2>2, <3>1, <3>3, MetaCases
    <2>3. CASE r.type = "NAT"
        <3>1. r.meta \in [r.entries -> Nats] /\ ~IsLRU(r)
            BY <1>1, <2>3, MetaCases
        <3>2. m = [x \in r.entries \cup {k} |-> IF x = k THEN nat ELSE r.meta[x]]
            BY <1>2, <2>3, <3>1
        <3>3. m \in [q.entries -> Nats]
            BY <1>4, <3>1, <3>2
        <3> QED
            BY <1>4, <1>6, <2>3, <3>1, <3>3, MetaCases
    <2> QED
        BY <1>1, <2>1, <2>2, <2>3, MetaCases
<1> QED
    BY <1>3, <1>4, <1>5, <1>7, <1>8 DEF RowOK

-----------------------------------------------------------------------------
\* A function has a least value over a finite set: of the sets of elements with
\* at most the value of one, take a smallest.
LEMMA LeastExists ==
    ASSUME NEW S, IsFiniteSet(S), S # {}, NEW f \in [S -> Int]
    PROVE  \E x \in S : \A y \in S : f[x] <= f[y]
<1> DEFINE Below(x) == {y \in S : f[y] <= f[x]}
           T == {Below(x) : x \in S}
           R == StrictSubsetOrdering(S)
<1>1. T \subseteq FiniteSubsetsOf(S) /\ T # {}
    <2>1. FiniteSubsetsOf(S) = SUBSET S
        BY FS_FiniteSubsetsOfFinite
    <2>2. T \subseteq SUBSET S
        OBVIOUS
    <2>3. \A x \in S : Below(x) \in T
        OBVIOUS
    <2> HIDE DEF T
    <2> QED
        BY <2>1, <2>2, <2>3
<1>2. PICK U \in T : \A V \in T : <<V, U>> \notin R
    <2> HIDE DEF T, R
    <2> QED
        BY <1>1, FS_StrictSubsetOrderingWellFounded, WFMin DEF R
<1>3. PICK x \in S : U = Below(x)
    OBVIOUS
<1>4. ASSUME NEW y \in S, ~(f[x] <= f[y]) PROVE FALSE
    <2>1. f[x] \in Int /\ f[y] \in Int /\ f[y] < f[x]
        BY <1>4
    <2>2. Below(y) \subseteq Below(x)
        BY <2>1
    <2>3. x \in Below(x) /\ x \notin Below(y)
        BY <2>1
    <2>4. <<Below(y), Below(x)>> \in R
        BY <2>2, <2>3 DEF StrictSubsetOrdering
    <2> QED
        BY <1>2, <1>3, <2>4
<1> QED
    BY <1>4

\* A full row has a victim, whatever its policy: no candidate list is empty.
LEMMA VictimExists ==
    ASSUME NEW r, RowOK(r), IsConflict(r)
    PROVE  GetVictimKey(r) # {}
<1>1. RowFields(r) /\ WithinRow(r) /\ MetaOf(r)
    BY DEF RowOK
<1>2. r.entries # {} /\ IsFiniteSet(r.entries)
    BY <1>1, FS_EmptySet DEF IsConflict, WithinRow
<1>3. CASE IsLRU(r)
    BY <1>3 DEF GetVictimKey, LRUVictims, IsLRU
<1>4. CASE r.type = "LFU"
    <2>1. r.meta \in [r.entries -> 0..(MaxFreq - 1)]
        BY <1>1, <1>4, MetaCases
    <2>2. r.meta \in [r.entries -> Int]
        BY <2>1
    <2>3. PICK k \in r.entries : \A x \in r.entries : r.meta[k] <= r.meta[x]
        BY <1>2, <2>2, LeastExists
    <2>4. r.meta[k] <= MaxFreq
        BY <2>1
    <2>5. k \in LFUVictims(r)
        BY <2>1, <2>3, <2>4 DEF LFUVictims
    <2> QED
        BY <1>4, <2>5 DEF GetVictimKey, IsLRU
<1>5. CASE r.type = "NAT"
    <2>1. r.meta \in [r.entries -> Nats]
        BY <1>1, <1>5, MetaCases
    <2>2. PICK g : g = [k \in r.entries |-> 0 - r.meta[k]]
        OBVIOUS
    <2>3. \A k \in r.entries : r.meta[k] \in Nat
        BY <2>1
    <2>4. g \in [r.entries -> Int] /\ \A k \in r.entries : g[k] = 0 - r.meta[k]
        BY <2>2, <2>3
    <2>5. PICK k \in r.entries : \A x \in r.entries : g[k] <= g[x]
        BY <1>2, <2>4, LeastExists
    <2>6. \A x \in r.entries : r.meta[k] >= r.meta[x]
        BY <2>3, <2>4, <2>5
    <2>7. NATVictims(r) # {}
        BY <1>2, <2>6 DEF NATVictims
    <2> QED
        BY <1>5, <2>7 DEF GetVictimKey, IsLRU
<1> QED
    BY <1>1, <1>3, <1>4, <1>5, MetaCases

\* A row that evicts holds some key, and its victims are keys it holds: for NAT
\* because no next access time is 0.
LEMMA VictimsResident ==
    ASSUME NEW r, RowOK(r), IsConflict(r)
    PROVE  /\ GetVictimKey(r) \subseteq r.entries
           /\ IsLRU(r) => /\ r.meta # <<>>
                          /\ GetVictimKey(r) = {Head(r.meta)}
<1>1. RowFields(r) /\ WithinRow(r) /\ MetaOf(r)
    BY DEF RowOK
<1>2. r.entries # {}
    BY <1>1, FS_EmptySet DEF IsConflict, WithinRow
<1>3. CASE IsLRU(r)
    <2>1. FifoOf(r.meta, r.entries)
        BY <1>1, <1>3, MetaCases
    <2>2. r.meta # <<>> /\ r.meta \in Seq(Keys)
        BY <1>1, <2>1, FS_EmptySet, <1>2 DEF FifoOf, WithinRow, ToSet
    <2>3. Head(r.meta) = r.meta[1] /\ 1 \in DOMAIN r.meta
        BY <2>2
    <2>4. Head(r.meta) \in r.entries
        BY <2>1, <2>3 DEF FifoOf, ToSet
    <2>5. GetVictimKey(r) = {Head(r.meta)}
        BY <1>3 DEF GetVictimKey, LRUVictims, IsLRU
    <2> QED
        BY <2>2, <2>4, <2>5
<1>4. CASE r.type = "LFU"
    <2>1. r.meta \in [r.entries -> 0..(MaxFreq - 1)] /\ ~IsLRU(r)
        BY <1>1, <1>4, MetaCases
    <2>2. GetVictimKey(r) = LFUVictims(r)
        BY <1>4 DEF GetVictimKey, IsLRU
    <2> QED
        BY <2>1, <2>2 DEF LFUVictims
<1>5. CASE r.type = "NAT"
    <2>1. r.meta \in [r.entries -> Nats] /\ ~IsLRU(r)
        BY <1>1, <1>5, MetaCases
    <2>2. GetVictimKey(r) = NATVictims(r)
        BY <1>5 DEF GetVictimKey, IsLRU
    <2>3. PICK k \in r.entries : TRUE
        BY <1>2
    <2>4. \A n \in Nat \ {0} : n > 0
        OBVIOUS
    <2>5. r.meta[k] > 0
        BY <2>1, <2>3, <2>4
    <2> QED
        BY <2>1, <2>2, <2>5 DEF NATVictims
<1> QED
    BY <1>1, <1>3, <1>4, <1>5, MetaCases

\* What AddEntry leaves: the row itself when its only victim is pinned, the key
\* installed when there is room, or installed for a victim that is not pinned.
LEMMA AddEntryOK ==
    ASSUME NEW r, RowOK(r), NEW k \in Keys \ r.entries, NEW nat \in Nats,
           NEW q \in AddEntry(r, k, nat)
    PROVE  /\ RowOK(q) /\ q.type = r.type
           /\ r.type = "LRUPin" => q.pinned = r.pinned
           /\ \/ r.type = "LRUPin" /\ q = r
              \/ /\ Cardinality(r.entries) < RowSize
                 /\ q.entries = r.entries \cup {k}
                 /\ IsLRU(r) => q.meta = Append(r.meta, k)
              \/ /\ Cardinality(r.entries) = RowSize
                 /\ \E v \in r.entries :
                        /\ r.type = "LRUPin" => v \notin r.pinned
                        /\ q.entries = (r.entries \ {v}) \cup {k}
                        /\ IsLRU(r) => /\ r.meta # <<>> /\ v = Head(r.meta)
                                       /\ q.meta = Append(RemoveFirst(r.meta, v), k)
<1>1. RowFields(r) /\ WithinRow(r) /\ MetaOf(r)
    BY DEF RowOK
<1>2. CASE IsConflict(r) /\ PinnedVictim(r)
    <2>1. q = r
        BY <1>2 DEF AddEntry
    <2> QED
        BY <1>2, <2>1 DEF PinnedVictim
<1>3. CASE ~IsConflict(r)
    <2>1. q = Install(r, k, nat)
        BY <1>3 DEF AddEntry
    <2>2. Cardinality(r.entries) < RowSize
        BY <1>1, <1>3, FS_CardinalityType DEF IsConflict, WithinRow
    <2> QED
        BY <2>1, <2>2, InstallOK
<1>4. CASE IsConflict(r) /\ ~PinnedVictim(r)
    <2>1. PICK v \in GetVictimKey(r) : q = Install(InvKey(r, v), k, nat)
        BY <1>4 DEF AddEntry
    <2>2. /\ v \in r.entries
          /\ IsLRU(r) => r.meta # <<>> /\ v = Head(r.meta)
        BY <1>4, VictimsResident
    <2>3. r.type = "LRUPin" => v \notin r.pinned
        BY <1>4, <2>2 DEF PinnedVictim, LRUVictims, IsLRU
    <2>4. PICK p : p = InvKey(r, v)
        OBVIOUS
    <2>5. /\ RowOK(p) /\ p.type = r.type /\ p.entries = r.entries \ {v}
          /\ Cardinality(p.entries) = Cardinality(r.entries) - 1
          /\ r.type = "LRUPin" => p.pinned = r.pinned
          /\ IsLRU(r) => p.meta = RemoveFirst(r.meta, v)
        BY <2>2, <2>4, InvKeyOK
    <2>6. Cardinality(p.entries) < RowSize /\ Cardinality(r.entries) = RowSize
        BY <1>4, <2>5 DEF IsConflict
    <2>7. k \in Keys \ p.entries /\ q = Install(p, k, nat)
        BY <2>1, <2>4, <2>5
    <2>8. /\ RowOK(q) /\ q.type = p.type /\ q.entries = p.entries \cup {k}
          /\ p.type = "LRUPin" => q.pinned = p.pinned
          /\ IsLRU(p) => q.meta = Append(p.meta, k)
        <3>1. RowOK(p) /\ Cardinality(p.entries) < RowSize /\ k \in Keys \ p.entries
            BY <2>5, <2>6, <2>7
        <3> QED
            BY <3>1, <2>7, InstallOK
    <2>9. IsLRU(p) <=> IsLRU(r)
        BY <2>5 DEF IsLRU
    <2> QED
        BY <2>2, <2>3, <2>5, <2>6, <2>8, <2>9
<1> QED
    BY <1>2, <1>3, <1>4

\* A fill of a row without pinned keys makes it grow by one, or if it is full
\* keeps its size.
LEMMA AddEntryCounts ==
    ASSUME NEW r, RowOK(r), r.type # "LRUPin", NEW k \in Keys \ r.entries, NEW nat \in Nats,
           NEW q \in AddEntry(r, k, nat)
    PROVE  Cardinality(q.entries) = Cardinality(r.entries) + IF IsConflict(r) THEN 0 ELSE 1
<1>1. IsFiniteSet(r.entries) /\ k \notin r.entries
    BY DEF RowOK, WithinRow
<1>2. CASE q.entries = r.entries \cup {k} /\ Cardinality(r.entries) < RowSize
    <2>1. Cardinality(r.entries \cup {k}) = Cardinality(r.entries) + 1
        BY <1>1, FS_AddElement
    <2>2. ~IsConflict(r)
        BY <1>1, <1>2, FS_CardinalityType DEF IsConflict
    <2> QED
        BY <1>2, <2>1, <2>2
<1>3. ASSUME NEW v \in r.entries, q.entries = (r.entries \ {v}) \cup {k},
             Cardinality(r.entries) = RowSize
      PROVE  Cardinality(q.entries) = RowSize
    <2>1. PICK E : E = r.entries \ {v}
        OBVIOUS
    <2>2. IsFiniteSet(E) /\ Cardinality(E) = RowSize - 1 /\ k \notin E
        BY <1>1, <1>3, <2>1, FS_RemoveElement
    <2>3. Cardinality(E \cup {k}) = Cardinality(E) + 1
        BY <2>2, FS_AddElement
    <2> QED
        BY <1>3, <2>1, <2>2, <2>3
<1> QED
    BY <1>2, <1>3, AddEntryOK DEF IsConflict

-----------------------------------------------------------------------------
\* The fifo m is the end of the recency stack s.
EndOf(m, s) ==
    /\ Len(m) <= Len(s)
    /\ \A i \in 1..Len(m) : m[i] = s[Len(s) - Len(m) + i]

\* Moving to the back a key that is missing appends it; one at p moves the keys
\* after it forward.
LEMMA MoveToBackIs ==
    ASSUME NEW s \in Seq(Keys), NoDup(s), NEW k \in Keys
    PROVE  LET t == MoveToBack(s, k)
           IN  /\ t \in Seq(Keys) /\ NoDup(t)
               /\ k \notin ToSet(s) => /\ Len(t) = Len(s) + 1 /\ t[Len(s) + 1] = k
                                       /\ \A i \in 1..Len(s) : t[i] = s[i]
               /\ \A p \in 1..Len(s) :
                      s[p] = k => /\ Len(t) = Len(s) /\ t[Len(s)] = k
                                  /\ \A i \in 1..(Len(s) - 1) :
                                         t[i] = IF i < p THEN s[i] ELSE s[i + 1]
<1> DEFINE u == RemoveFirst(s, k)
           t == Append(u, k)
<1>1. t = MoveToBack(s, k)
    BY DEF MoveToBack
<1>2. CASE k \notin ToSet(s)
    <2>1. u = s
        BY <1>2, RemoveAbsent
    <2>2. /\ t \in Seq(Keys) /\ Len(t) = Len(s) + 1 /\ t[Len(s) + 1] = k
          /\ \A i \in 1..Len(s) : t[i] = s[i]
        BY <2>1, AppendProperties
    <2>3. \A i \in 1..Len(s) : s[i] # k
        BY <1>2 DEF ToSet
    <2> HIDE DEF t
    <2>4. NoDup(t)
        BY <2>2, <2>3 DEF NoDup
    <2> QED
        BY <1>1, <1>2, <2>2, <2>3, <2>4
<1>3. ASSUME NEW p \in 1..Len(s), s[p] = k
      PROVE  /\ t \in Seq(Keys) /\ NoDup(t)
             /\ Len(t) = Len(s) /\ t[Len(s)] = k
             /\ \A i \in 1..(Len(s) - 1) : t[i] = IF i < p THEN s[i] ELSE s[i + 1]
    <2>1. /\ u \in Seq(Keys) /\ Len(u) = Len(s) - 1
          /\ \A i \in 1..Len(u) : u[i] = IF i < p THEN s[i] ELSE s[i + 1]
        BY <1>3, RemoveAtPosition
    <2> HIDE DEF u
    <2>2. /\ t \in Seq(Keys) /\ Len(t) = Len(u) + 1 /\ t[Len(u) + 1] = k
          /\ \A i \in 1..Len(u) : t[i] = u[i]
        BY <2>1, AppendProperties
    <2> HIDE DEF t
    <2>3. \A i \in 1..Len(u) : u[i] # k
        BY <1>3, <2>1 DEF NoDup
    <2>4. NoDup(t)
        <3>1. \A i, j \in 1..Len(u) : u[i] = u[j] => i = j
            BY <2>1 DEF NoDup
        <3>2. PICK m \in Nat : m = Len(u)
            BY <2>1
        <3>3. /\ Len(t) = m + 1 /\ t[m + 1] = k
              /\ \A i \in 1..m : t[i] = u[i] /\ u[i] # k
            BY <2>2, <2>3, <3>2
        <3>4. ASSUME NEW i \in 1..(m + 1), NEW j \in 1..(m + 1), t[i] = t[j]
              PROVE  i = j
            <4>1. CASE i = m + 1
                BY <3>3, <3>4, <4>1
            <4>2. CASE i \in 1..m
                BY <3>1, <3>2, <3>3, <3>4, <4>2
            <4> QED
                BY <4>1, <4>2
        <3> QED
            BY <3>3, <3>4 DEF NoDup
    <2>5. PICK m, n : m = Len(u) /\ n = Len(s)
        OBVIOUS
    <2>6. n \in Nat /\ p \in 1..n /\ m = n - 1 /\ m + 1 = n
        BY <2>1, <2>5, <1>3
    <2>7. \A i \in 1..m : t[i] = u[i] /\ u[i] = IF i < p THEN s[i] ELSE s[i + 1]
        BY <2>1, <2>2, <2>5
    <2>8. \A i \in 1..(n - 1) : t[i] = IF i < p THEN s[i] ELSE s[i + 1]
        BY <2>6, <2>7
    <2>9. t \in Seq(Keys) /\ Len(t) = n /\ t[n] = k
        BY <2>2, <2>5, <2>6
    <2> QED
        BY <2>4, <2>5, <2>8, <2>9
<1>4. k \in ToSet(s) => \E p \in 1..Len(s) : s[p] = k
    BY DEF ToSet
<1>5. k \notin ToSet(s) => \A p \in 1..Len(s) : s[p] # k
    BY DEF ToSet
<1> QED
    <2>1. CASE k \in ToSet(s)
        BY <2>1, <1>1, <1>3, <1>4
    <2>2. CASE k \notin ToSet(s)
        BY <2>2, <1>1, <1>2, <1>5
    <2> QED
        BY <2>1, <2>2

\* A miss: the stack's end gains the key as the fifo does.
LEMMA MissEnd ==
    ASSUME NEW m \in Seq(Keys), NEW s \in Seq(Keys), NoDup(s), EndOf(m, s),
           NEW k \in Keys, \A i \in 1..Len(m) : m[i] # k
    PROVE  EndOf(Append(m, k), MoveToBack(s, k))
<1> DEFINE n == Append(m, k)
           t == MoveToBack(s, k)
<1>1. /\ n \in Seq(Keys) /\ Len(n) = Len(m) + 1 /\ n[Len(m) + 1] = k
      /\ \A i \in 1..Len(m) : n[i] = m[i]
    BY AppendProperties
<1>2. /\ t \in Seq(Keys)
      /\ k \notin ToSet(s) => /\ Len(t) = Len(s) + 1 /\ t[Len(s) + 1] = k
                              /\ \A i \in 1..Len(s) : t[i] = s[i]
      /\ \A p \in 1..Len(s) :
             s[p] = k => /\ Len(t) = Len(s) /\ t[Len(s)] = k
                         /\ \A i \in 1..(Len(s) - 1) : t[i] = IF i < p THEN s[i] ELSE s[i + 1]
    BY MoveToBackIs
<1> HIDE DEF n, t
<1>3. CASE k \notin ToSet(s)
    <2>1. /\ Len(t) = Len(s) + 1 /\ t[Len(s) + 1] = k
          /\ \A i \in 1..Len(s) : t[i] = s[i]
        BY <1>2, <1>3
    <2>2. ASSUME NEW i \in 1..Len(n) PROVE n[i] = t[Len(t) - Len(n) + i]
        <3>1. CASE i = Len(m) + 1
            BY <1>1, <2>1, <3>1
        <3>2. CASE i \in 1..Len(m)
            <4>1. /\ Len(t) - Len(n) + i = Len(s) - Len(m) + i
                  /\ Len(s) - Len(m) + i \in 1..Len(s)
                BY <1>1, <2>1, <3>2 DEF EndOf
            <4> QED
                BY <1>1, <2>1, <3>2, <4>1 DEF EndOf
        <3> QED
            BY <3>1, <3>2, <1>1
    <2>3. Len(n) <= Len(t)
        BY <1>1, <2>1 DEF EndOf
    <2> QED
        BY <2>2, <2>3 DEF EndOf, n, t
<1>4. CASE k \in ToSet(s)
    <2>1. PICK p \in 1..Len(s) : s[p] = k
        BY <1>4 DEF ToSet
    <2>2. p <= Len(s) - Len(m)
        <3>1. SUFFICES ASSUME p > Len(s) - Len(m) PROVE FALSE
            OBVIOUS
        <3>2. p - (Len(s) - Len(m)) \in 1..Len(m)
            BY <3>1 DEF EndOf
        <3>3. Len(s) - Len(m) + (p - (Len(s) - Len(m))) = p
            OBVIOUS
        <3> QED
            BY <2>1, <3>2, <3>3 DEF EndOf
    <2>3. /\ Len(t) = Len(s) /\ t[Len(s)] = k
          /\ \A i \in 1..(Len(s) - 1) : t[i] = IF i < p THEN s[i] ELSE s[i + 1]
        BY <1>2, <2>1
    <2>4. Len(n) <= Len(t)
        BY <1>1, <2>2, <2>3
    <2>5. ASSUME NEW i \in 1..Len(n) PROVE n[i] = t[Len(t) - Len(n) + i]
        <3>1. CASE i = Len(m) + 1
            BY <1>1, <2>3, <3>1
        <3>2. CASE i \in 1..Len(m)
            <4>1. /\ Len(t) - Len(n) + i = Len(s) - Len(m) - 1 + i
                  /\ Len(s) - Len(m) - 1 + i \in 1..(Len(s) - 1)
                  /\ ~(Len(s) - Len(m) - 1 + i < p)
                  /\ (Len(s) - Len(m) - 1 + i) + 1 = Len(s) - Len(m) + i
                BY <1>1, <2>2, <2>3, <3>2
            <4>2. t[Len(s) - Len(m) - 1 + i] = s[Len(s) - Len(m) + i]
                BY <2>3, <4>1
            <4> QED
                BY <1>1, <3>2, <4>1, <4>2 DEF EndOf
        <3> QED
            BY <3>1, <3>2, <1>1
    <2> QED
        BY <2>4, <2>5 DEF EndOf, n, t
<1> QED
    BY <1>3, <1>4 DEF n, t

\* An eviction: without its front, the fifo is still the end of the stack.
LEMMA EvictEnd ==
    ASSUME NEW m \in Seq(Keys), NoDup(m), m # <<>>, NEW s \in Seq(Keys), EndOf(m, s)
    PROVE  LET n == RemoveFirst(m, Head(m))
           IN  n \in Seq(Keys) /\ EndOf(n, s) /\ \A i \in 1..Len(n) : n[i] \in ToSet(m)
<1>1. Head(m) = m[1] /\ 1 \in 1..Len(m)
    OBVIOUS
<1> DEFINE n == RemoveFirst(m, m[1])
<1>2. /\ n \in Seq(Keys) /\ Len(n) = Len(m) - 1
      /\ \A i \in 1..Len(n) : n[i] = IF i < 1 THEN m[i] ELSE m[i + 1]
    BY <1>1, RemoveAtPosition
<1> HIDE DEF n
<1>3. ASSUME NEW i \in 1..Len(n)
      PROVE  i + 1 \in 1..Len(m) /\ n[i] = m[i + 1] /\ n[i] = s[Len(s) - Len(n) + i]
    <2>1. i + 1 \in 1..Len(m) /\ n[i] = m[i + 1]
        BY <1>2
    <2>2. m[i + 1] = s[Len(s) - Len(m) + (i + 1)]
        BY <2>1 DEF EndOf
    <2>3. Len(s) - Len(m) + (i + 1) = Len(s) - Len(n) + i
        BY <1>2
    <2> QED
        BY <2>1, <2>2, <2>3
<1>4. EndOf(n, s)
    BY <1>2, <1>3 DEF EndOf
<1>5. \A i \in 1..Len(n) : n[i] \in ToSet(m)
    BY <1>3 DEF ToSet
<1> QED
    BY <1>1, <1>2, <1>4, <1>5 DEF n

\* A hit: the key moves to the back of both.
LEMMA HitEnd ==
    ASSUME NEW m \in Seq(Keys), NoDup(m), NEW s \in Seq(Keys), NoDup(s), EndOf(m, s),
           NEW j \in 1..Len(m)
    PROVE  EndOf(MoveToBack(m, m[j]), MoveToBack(s, m[j]))
<1>k. PICK k : k = m[j]
    OBVIOUS
<1>d. PICK d : d = Len(s) - Len(m)
    OBVIOUS
<1> DEFINE n == MoveToBack(m, k)
           t == MoveToBack(s, k)
<1>1. k \in Keys /\ d \in Nat /\ d + j \in 1..Len(s) /\ s[d + j] = k /\ m[j] = k
    BY <1>k, <1>d DEF EndOf
<1>2. /\ Len(n) = Len(m) /\ n[Len(m)] = k
      /\ \A i \in 1..(Len(m) - 1) : n[i] = IF i < j THEN m[i] ELSE m[i + 1]
    <2>1. \A p \in 1..Len(m) :
              m[p] = k => /\ Len(n) = Len(m) /\ n[Len(m)] = k
                          /\ \A i \in 1..(Len(m) - 1) : n[i] = IF i < p THEN m[i] ELSE m[i + 1]
        BY <1>1, MoveToBackIs
    <2> QED
        BY <1>1, <2>1
<1>3. /\ Len(t) = Len(s) /\ t[Len(s)] = k
      /\ \A i \in 1..(Len(s) - 1) : t[i] = IF i < d + j THEN s[i] ELSE s[i + 1]
    <2>1. \A p \in 1..Len(s) :
              s[p] = k => /\ Len(t) = Len(s) /\ t[Len(s)] = k
                          /\ \A i \in 1..(Len(s) - 1) : t[i] = IF i < p THEN s[i] ELSE s[i + 1]
        BY <1>1, MoveToBackIs
    <2> QED
        BY <1>1, <2>1
<1>4. \A i \in 1..Len(m) : m[i] = s[d + i]
    BY <1>d DEF EndOf
<1> HIDE DEF n, t
<1>6. ASSUME NEW i \in 1..Len(n) PROVE n[i] = t[Len(t) - Len(n) + i]
    <2>1. Len(t) - Len(n) + i = d + i
        BY <1>1, <1>2, <1>3, <1>d
    <2>2. CASE i = Len(m)
        BY <1>2, <1>3, <1>d, <2>1, <2>2
    <2>3. CASE i < Len(m) /\ i < j
        <3>1. n[i] = m[i] /\ i \in 1..Len(m)
            BY <2>3, <1>2
        <3>2. d + i \in 1..(Len(s) - 1) /\ d + i < d + j
            BY <2>3, <1>1, <1>2, <1>d
        <3>3. t[d + i] = s[d + i]
            BY <3>2, <1>3
        <3> QED
            BY <3>1, <3>3, <1>4, <2>1
    <2>4. CASE i < Len(m) /\ ~(i < j)
        <3>1. n[i] = m[i + 1] /\ i + 1 \in 1..Len(m)
            BY <2>4, <1>2
        <3>2. d + i \in 1..(Len(s) - 1) /\ ~(d + i < d + j) /\ (d + i) + 1 = d + (i + 1)
            BY <2>4, <1>1, <1>2, <1>d
        <3>3. t[d + i] = s[d + (i + 1)]
            BY <3>2, <1>3
        <3> QED
            BY <3>1, <3>3, <1>4, <2>1
    <2> QED
        BY <2>2, <2>3, <2>4, <1>2
<1>7. Len(n) <= Len(t)
    BY <1>2, <1>3 DEF EndOf
<1> QED
    BY <1>6, <1>7, <1>k DEF EndOf, n, t

-----------------------------------------------------------------------------
\* The recency stack lists keys once, and the LRU fifo is its end.
StackOK ==
    /\ stack \in Seq(Keys) /\ NoDup(stack)
    /\ row.type = "LRU" => EndOf(row.meta, stack)

IInv == RowOK(row) /\ StackOK

\* A new row, of any policy.
LEMMA EmptyRowOK ==
    ASSUME NEW t \in RowTypes, NEW r, r = EmptyRow(t)
    PROVE  RowOK(r) /\ r.type = t /\ r.entries = {} /\ (t = "LRU" => r.meta = <<>>)
<1>1. /\ IsFiniteSet({}) /\ Cardinality({}) = 0
      /\ <<>> \in Seq(Keys) /\ Len(<<>>) = 0
    BY FS_EmptySet
<1>2. FifoOf(<<>>, {})
    BY <1>1 DEF FifoOf, NoDup, ToSet
<1>3. /\ r.type = t /\ r.entries = {}
      /\ r.meta = (IF t = "LRU" THEN <<>> ELSE [x \in {} |-> 0])
      /\ r = [type |-> r.type, entries |-> r.entries, meta |-> r.meta]
    BY DEF EmptyRow
<1>4. RowFields(r) /\ WithinRow(r)
    BY <1>1, <1>3 DEF RowFields, WithinRow
<1>5. MetaOf(r)
    BY <1>2, <1>3, <1>4, MetaCases DEF RowTypes
<1> QED
    BY <1>3, <1>4, <1>5 DEF RowOK

LEMMA InitInv == Init => IInv
<1> SUFFICES ASSUME Init PROVE IInv
    OBVIOUS
<1>1. /\ IsFiniteSet({}) /\ Cardinality({}) = 0
      /\ <<>> \in Seq(Keys) /\ Len(<<>>) = 0
    BY FS_EmptySet
<1>2. FifoOf(<<>>, {}) /\ NoDup(<<>>) /\ EndOf(<<>>, <<>>)
    BY <1>1 DEF FifoOf, NoDup, ToSet, EndOf
<1>3. ASSUME NEW t \in RowTypes, row = EmptyRow(t)
      PROVE  IInv
    <2>1. RowOK(row) /\ row.type = t /\ (t = "LRU" => row.meta = <<>>)
        BY <1>3, EmptyRowOK
    <2> QED
        BY <2>1, <1>1, <1>2 DEF IInv, StackOK, Init
<1>4. ASSUME NEW pages \in SUBSET Keys, row = EmptyPinRow(pages)
      PROVE  IInv
    <2>1. /\ row.type = "LRUPin" /\ row.entries = {} /\ row.meta = <<>> /\ row.pinned = pages
          /\ row = [type |-> row.type, entries |-> row.entries, meta |-> row.meta,
                    pinned |-> row.pinned]
        BY <1>4 DEF EmptyPinRow
    <2>2. RowFields(row) /\ WithinRow(row)
        BY <2>1, <1>1 DEF RowFields, WithinRow
    <2>3. MetaOf(row)
        BY <2>1, <2>2, <1>2, MetaCases
    <2> QED
        BY <2>1, <2>2, <2>3, <1>1, <1>2 DEF IInv, RowOK, StackOK, Init
<1> QED
    BY <1>3, <1>4 DEF Init

LEMMA HitInv ==
    ASSUME IInv, NEW k \in Keys, NEW nat \in Nats, Hit(k, nat)
    PROVE  IInv' /\ row'.type = row.type /\ row'.entries = row.entries
           /\ (row.type = "LRUPin" => row'.pinned = row.pinned)
<1>1. RowOK(row) /\ StackOK /\ k \in row.entries
    BY DEF IInv, Hit
<1>2. /\ RowOK(row') /\ row'.type = row.type /\ row'.entries = row.entries
      /\ row.type = "LRUPin" => row'.pinned = row.pinned
      /\ IsLRU(row) => row'.meta = MoveToBack(row.meta, k)
    BY <1>1, SearchKeyOK DEF Hit
<1>3. StackOK'
    <2>1. CASE row.type # "LRU"
        BY <1>1, <1>2, <2>1 DEF Hit, Touch, StackOK
    <2>2. CASE row.type = "LRU"
        <3>1. stack' = MoveToBack(stack, k) /\ row'.meta = MoveToBack(row.meta, k)
            BY <1>2, <2>2 DEF Hit, Touch, IsLRU
        <3>2. FifoOf(row.meta, row.entries)
            BY <1>1, <2>2, MetaCases DEF RowOK
        <3>3. row.meta \in Seq(Keys) /\ NoDup(row.meta) /\ ToSet(row.meta) = row.entries
            BY <3>2 DEF FifoOf
        <3>4. PICK j \in 1..Len(row.meta) : row.meta[j] = k
            BY <1>1, <3>3 DEF ToSet
        <3>5. stack \in Seq(Keys) /\ NoDup(stack) /\ EndOf(row.meta, stack)
            BY <1>1, <2>2 DEF StackOK
        <3>6. EndOf(MoveToBack(row.meta, k), MoveToBack(stack, k))
            BY <3>3, <3>4, <3>5, HitEnd
        <3>7. MoveToBack(stack, k) \in Seq(Keys) /\ NoDup(MoveToBack(stack, k))
            BY <3>5, MoveToBackIs
        <3> QED
            BY <3>1, <3>6, <3>7 DEF StackOK
    <2> QED
        BY <2>1, <2>2
<1> QED
    BY <1>2, <1>3 DEF IInv

LEMMA FillInv ==
    ASSUME IInv, NEW k \in Keys, NEW nat \in Nats, Fill(k, nat)
    PROVE  IInv'
<1>1. RowOK(row) /\ StackOK /\ k \in Keys \ row.entries /\ row' \in AddEntry(row, k, nat)
    BY DEF IInv, Fill
<1>2. /\ RowOK(row') /\ row'.type = row.type
      /\ \/ row.type = "LRUPin" /\ row' = row
         \/ /\ Cardinality(row.entries) < RowSize
            /\ row'.entries = row.entries \cup {k}
            /\ IsLRU(row) => row'.meta = Append(row.meta, k)
         \/ /\ Cardinality(row.entries) = RowSize
            /\ \E v \in row.entries :
                   /\ row.type = "LRUPin" => v \notin row.pinned
                   /\ row'.entries = (row.entries \ {v}) \cup {k}
                   /\ IsLRU(row) => /\ row.meta # <<>> /\ v = Head(row.meta)
                                    /\ row'.meta = Append(RemoveFirst(row.meta, v), k)
    BY <1>1, AddEntryOK
<1>3. StackOK'
    <2>1. CASE row.type # "LRU"
        BY <1>1, <1>2, <2>1 DEF Fill, Touch, StackOK
    <2>2. CASE row.type = "LRU"
        <3>1. stack' = MoveToBack(stack, k) /\ IsLRU(row)
            BY <2>2 DEF Fill, Touch, IsLRU
        <3>2. FifoOf(row.meta, row.entries)
            BY <1>1, <2>2, <3>1, MetaCases DEF RowOK
        <3>3. row.meta \in Seq(Keys) /\ NoDup(row.meta) /\ ToSet(row.meta) = row.entries
            BY <3>2 DEF FifoOf
        <3>4. \A i \in 1..Len(row.meta) : row.meta[i] # k
            BY <1>1, <3>3 DEF ToSet
        <3>5. stack \in Seq(Keys) /\ NoDup(stack) /\ EndOf(row.meta, stack)
            BY <1>1, <2>2 DEF StackOK
        <3>6. EndOf(row'.meta, MoveToBack(stack, k))
            <4>1. CASE row'.meta = Append(row.meta, k)
                BY <4>1, <3>3, <3>4, <3>5, MissEnd
            <4>2. CASE /\ row.meta # <<>>
                       /\ row'.meta = Append(RemoveFirst(row.meta, Head(row.meta)), k)
                <5>1. PICK n : n = RemoveFirst(row.meta, Head(row.meta))
                    OBVIOUS
                <5>2. n \in Seq(Keys) /\ EndOf(n, stack) /\ \A i \in 1..Len(n) : n[i] \in ToSet(row.meta)
                    BY <4>2, <5>1, <3>3, <3>5, EvictEnd
                <5>3. \A i \in 1..Len(n) : n[i] # k
                    BY <5>2, <1>1, <3>3
                <5> QED
                    BY <4>2, <5>1, <5>2, <5>3, <3>5, MissEnd
            <4> QED
                BY <1>2, <2>2, <3>1, <4>1, <4>2
        <3>7. MoveToBack(stack, k) \in Seq(Keys) /\ NoDup(MoveToBack(stack, k))
            BY <3>5, MoveToBackIs
        <3> QED
            BY <3>1, <3>6, <3>7 DEF StackOK
    <2> QED
        BY <2>1, <2>2
<1> QED
    BY <1>2, <1>3 DEF IInv

LEMMA NextInv == IInv /\ [Next]_vars => IInv'
<1> SUFFICES ASSUME IInv, [Next]_vars PROVE IInv'
    OBVIOUS
<1>1. ASSUME NEW k \in Keys, NEW nat \in Nats, Hit(k, nat) PROVE IInv'
    BY <1>1, HitInv
<1>2. ASSUME NEW k \in Keys, NEW nat \in Nats, Fill(k, nat) PROVE IInv'
    BY <1>2, FillInv
<1>3. CASE UNCHANGED vars
    BY <1>3 DEF vars, IInv, StackOK
<1> QED
    BY <1>1, <1>2, <1>3 DEF Next

\* The inductive invariant holds of every row the program can reach.
LEMMA Invariant == Spec => []IInv
BY InitInv, NextInv, PTL DEF Spec

-----------------------------------------------------------------------------
\* A row's replacement data and its key set, kept by different methods, describe
\* the same keys after every lookup and fill.
THEOREM BookkeepingStaysRight == Spec => []BookkeepingMatches
<1>1. IInv => BookkeepingMatches
    <2> SUFFICES ASSUME IInv PROVE BookkeepingMatches
        OBVIOUS
    <2>1. RowFields(row) /\ MetaOf(row)
        BY DEF IInv, RowOK
    <2>2. CASE IsLRU(row)
        <3>1. FifoOf(row.meta, row.entries)
            BY <2>1, <2>2, MetaCases
        <3> QED
            BY <2>2, <3>1 DEF FifoOf, BookkeepingMatches
    <2>3. CASE ~IsLRU(row)
        BY <2>1, <2>3, MetaCases DEF BookkeepingMatches
    <2> QED
        BY <2>2, <2>3
<1> QED
    BY <1>1, Invariant, PTL

\* The LRU fifo is the list of the most recently used keys, in order of use.
THEOREM FifoStaysRecencyOrder == Spec => []FifoIsRecencyOrder
<1>1. IInv => FifoIsRecencyOrder
    <2> SUFFICES ASSUME IInv, row.type = "LRU"
                 PROVE  row.meta = SubSeq(stack, Len(stack) - Len(row.meta) + 1, Len(stack))
        BY DEF FifoIsRecencyOrder
    <2>1. FifoOf(row.meta, row.entries)
        BY MetaCases DEF IInv, RowOK
    <2> DEFINE m == row.meta
               t == SubSeq(stack, Len(stack) - Len(m) + 1, Len(stack))
    <2>2. m \in Seq(Keys) /\ stack \in Seq(Keys) /\ EndOf(m, stack)
        BY <2>1 DEF FifoOf, IInv, StackOK
    <2> HIDE DEF m
    <2>3. PICK a : a = Len(stack) - Len(m) + 1
        OBVIOUS
    <2>4. a \in Int /\ Len(stack) \in Int /\ \A i \in a..Len(stack) : stack[i] \in Keys
        BY <2>2, <2>3 DEF EndOf
    <2>5. /\ SubSeq(stack, a, Len(stack)) \in Seq(Keys)
          /\ Len(SubSeq(stack, a, Len(stack)))
                 = IF a <= Len(stack) THEN Len(stack) - a + 1 ELSE 0
          /\ \A i \in 1..(Len(stack) - a + 1) :
                 SubSeq(stack, a, Len(stack))[i] = stack[a + i - 1]
        BY <2>4, SubSeqProperties
    <2>6. t = SubSeq(stack, a, Len(stack))
        BY <2>3
    <2> HIDE DEF t
    <2>7. t \in Seq(Keys) /\ Len(t) = Len(m)
        BY <2>2, <2>3, <2>4, <2>5, <2>6 DEF EndOf
    <2>8. ASSUME NEW i \in 1..Len(m) PROVE m[i] = t[i]
        <3>1. i \in 1..(Len(stack) - a + 1) /\ a + i - 1 = Len(stack) - Len(m) + i
            BY <2>2, <2>3
        <3> QED
            BY <2>2, <2>5, <2>6, <3>1 DEF EndOf
    <2>9. m = t
        BY <2>2, <2>7, <2>8, SeqEqual
    <2> QED
        BY <2>9 DEF m, t
<1> QED
    BY <1>1, Invariant, PTL

\* The LFU counters are halved in time: none reaches the value the victim scan
\* starts from.
THEOREM CountersStayBelowMax == Spec => []CountersBelowMax
<1>1. IInv => CountersBelowMax
    <2> SUFFICES ASSUME IInv, row.type = "LFU", NEW k \in DOMAIN row.meta
                 PROVE  row.meta[k] < MaxFreq
        BY DEF CountersBelowMax
    <2>1. row.meta \in [row.entries -> 0..(MaxFreq - 1)]
        BY MetaCases DEF IInv, RowOK
    <2> QED
        BY <2>1
<1> QED
    BY <1>1, Invariant, PTL

\* The abstract row counts its keys as the row does.
LEMMA SameCardinality == \A S : Bounded!Cardinality(S) = Cardinality(S)
BY DEF Bounded!Cardinality, Cardinality

\* Every lookup and fill of a row, whatever its policy, is a step of the abstract
\* row or leaves its keys alone.
THEOREM RowImplementsAbstractRow == Spec => ImplementsAbstractRow
<1>1. Init => Bounded!Init
    BY DEF Init, Bounded!Init, EmptyRow, EmptyPinRow, RowTypes
<1>2. IInv /\ [Next]_vars => [Bounded!Next]_<<row.entries, IF row.type = "LRUPin" THEN row.pinned ELSE {}>>
    <2> DEFINE pinned == IF row.type = "LRUPin" THEN row.pinned ELSE {}
    <2> SUFFICES ASSUME IInv, [Next]_vars
                 PROVE  Bounded!Next \/ UNCHANGED <<row.entries, pinned>>
        OBVIOUS
    <2>1. ASSUME NEW k \in Keys, NEW nat \in Nats, Hit(k, nat)
          PROVE  UNCHANGED <<row.entries, pinned>>
        BY <2>1, HitInv
    <2>2. ASSUME NEW k \in Keys, NEW nat \in Nats, Fill(k, nat)
          PROVE  Bounded!Next \/ UNCHANGED <<row.entries, pinned>>
        <3>1. RowOK(row) /\ k \in Keys \ row.entries /\ row' \in AddEntry(row, k, nat)
            BY <2>2 DEF IInv, Fill
        <3>2. /\ row'.type = row.type
              /\ row.type = "LRUPin" => row'.pinned = row.pinned
              /\ \/ row.type = "LRUPin" /\ row' = row
                 \/ /\ Cardinality(row.entries) < RowSize
                    /\ row'.entries = row.entries \cup {k}
                 \/ /\ Cardinality(row.entries) = RowSize
                    /\ \E v \in row.entries :
                           /\ row.type = "LRUPin" => v \notin row.pinned
                           /\ row'.entries = (row.entries \ {v}) \cup {k}
            BY <3>1, AddEntryOK
        <3>3. UNCHANGED pinned
            BY <3>2
        <3>4. CASE row' = row
            BY <3>4
        <3>5. CASE /\ Cardinality(row.entries) < RowSize
                   /\ row'.entries = row.entries \cup {k}
            <4>1. Bounded!FillFree(k)
                BY <3>1, <3>3, <3>5, SameCardinality DEF Bounded!FillFree
            <4> QED
                BY <4>1 DEF Bounded!Next
        <3>6. ASSUME NEW v \in row.entries,
                     Cardinality(row.entries) = RowSize,
                     row.type = "LRUPin" => v \notin row.pinned,
                     row'.entries = (row.entries \ {v}) \cup {k}
              PROVE  Bounded!Next
            <4>1. v \in row.entries \ pinned
                BY <3>6
            <4>2. Bounded!FillEvicting(k)
                BY <3>1, <3>3, <3>6, <4>1, SameCardinality DEF Bounded!FillEvicting
            <4> QED
                BY <4>2 DEF Bounded!Next
        <3> QED
            BY <3>2, <3>4, <3>5, <3>6
    <2>3. CASE UNCHANGED vars
        BY <2>3 DEF vars
    <2> QED
        BY <2>1, <2>2, <2>3 DEF Next
<1> QED
    BY <1>1, <1>2, Invariant, PTL DEF Spec, ImplementsAbstractRow, Bounded!Spec

\* A full row always finds a victim among its own keys: the LRU fifo is not
\* empty when its front is read, the LFU candidates are not none when rand()
\* picks one, and NAT never returns a key it has not initialized.
VictimFound == IsConflict(row) => GetVictimKey(row) # {} /\ GetVictimKey(row) \subseteq row.entries

\* VictimFound holds after every lookup and fill of a row.
THEOREM FullRowsHaveVictims == Spec => []VictimFound
<1>1. IInv => VictimFound
    BY VictimExists, VictimsResident DEF VictimFound, IInv
<1> QED
    BY <1>1, Invariant, PTL

=============================================================================

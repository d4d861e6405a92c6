------------------------ MODULE TraceBuilder_proofs ------------------------
(***************************************************************************)
(* Proofs about the trace builder of TraceBuilder.tla, for every set of    *)
(* logs, number of tenants and burst length.                               *)
(***************************************************************************)
EXTENDS TraceBuilder, FiniteSetTheorems, SequenceTheorems, TLAPS

\* The domains of a log fit into the range its number is shifted by, and those
\* of all logs into the 16 bits of a DID.
DomainsFit ==
    /\ \A l \in Lines : l.did < MAX_DOMAINS_PER_LOG
    /\ Logs * MAX_DOMAINS_PER_LOG <= 2^16

\* The SIDs of the valid devices of a log are no farther apart than that range.
DevicesFit ==
    /\ 8 * MaxDevPerLog <= MAX_DOMAINS_PER_LOG
    /\ 8 * FIRST_DEV_ID + Logs * MAX_DOMAINS_PER_LOG <= 2^16

\* No log is read twice because its number has wrapped.
LogsFit == Logs < UInt

-----------------------------------------------------------------------------
(* Arithmetic.                                                             *)

LEMMA PowerOfTwo ==
    ASSUME NEW n \in Nat
    PROVE  2^n \in Nat \ {0}
<1> DEFINE S == 1..n
<1>1. IsFiniteSet(S) /\ Cardinality(S) = n
  BY FS_Interval
<1>2. {} \in SUBSET S
  OBVIOUS
<1> HIDE DEF S
<1>3. IsFiniteSet(SUBSET S) /\ Cardinality(SUBSET S) = 2^Cardinality(S)
  BY <1>1, FS_SUBSET
<1>4. Cardinality(SUBSET S) \in Nat \ {0}
  BY <1>2, <1>3, FS_CardinalityType, FS_EmptySet
<1> QED BY <1>1, <1>3, <1>4

LEMMA SixteenBits == 2^16 \in Nat \ {0}
BY PowerOfTwo

LEMMA ModRange ==
    ASSUME NEW x \in Int, NEW n \in Nat \ {0}
    PROVE  x % n \in 0..(n - 1)
OBVIOUS

LEMMA ModSmall ==
    ASSUME NEW n \in Nat \ {0}, NEW x \in 0..(n - 1)
    PROVE  x % n = x
OBVIOUS

\* Subtracting before or after the modulus makes no difference.
LEMMA ModMinus ==
    ASSUME NEW a \in Int, NEW s \in Int, NEW n \in Nat \ {0}
    PROVE  ((a % n) - s) % n = (a - s) % n
<1>1. /\ a = n * (a \div n) + (a % n) /\ a \div n \in Int
      /\ a % n \in 0..(n - 1)
  OBVIOUS
<1>2. ASSUME NEW q \in Int, NEW b \in Int
      PROVE  (n * q + b) % n = b % n
  <2>1. /\ b = n * (b \div n) + (b % n) /\ b \div n \in Int /\ b % n \in 0..(n - 1)
    OBVIOUS
  <2>2. n * q + b = n * (q + (b \div n)) + (b % n)
    BY <2>1
  <2>3. ASSUME NEW u \in Int, NEW r \in 0..(n - 1)
        PROVE  (n * u + r) % n = r
    <3> DEFINE x == n * u + r
    <3>1. x \in Int /\ x = n * (x \div n) + (x % n) /\ x \div n \in Int /\ x % n \in 0..(n - 1)
      BY n * u \in Int
    <3>2. \A y, z \in Int : y < z => n * y + n <= n * z
      <4> SUFFICES ASSUME NEW y \in Int, NEW z \in Int, y < z PROVE n * y + n <= n * z
        OBVIOUS
      <4>1. z = y + 1 + (z - y - 1) /\ z - y - 1 \in Nat
        OBVIOUS
      <4>2. \A d \in Nat : n * d \in Nat /\ n * (y + 1 + d) = n * y + n + n * d
        OBVIOUS
      <4> QED BY <4>1, <4>2
    <3>3. n * (x \div n) \in Int /\ n * u \in Int
      BY <3>1
    <3>4. x \div n = u
      BY <3>1, <3>2, <3>3
    <3> QED BY <3>1, <3>4
  <2>4. q + (b \div n) \in Int
    BY <2>1
  <2> QED BY <2>1, <2>2, <2>3, <2>4
<1>3. (a % n) - s \in Int /\ a - s = n * (a \div n) + ((a % n) - s)
  BY <1>1
<1> QED BY <1>1, <1>2, <1>3

\* A log's number and a smaller number below the width make one number.
LEMMA ShiftedApart ==
    ASSUME NEW w \in Nat \ {0}, NEW g \in Nat, NEW h \in Nat,
           NEW x \in 0..(w - 1), NEW y \in 0..(w - 1), x + g * w = y + h * w
    PROVE  g = h /\ x = y
<1>1. \A a, b \in Nat : a < b => a * w + w <= b * w
  <2> SUFFICES ASSUME NEW a \in Nat, NEW b \in Nat, a < b PROVE a * w + w <= b * w
    OBVIOUS
  <2>1. b = a + 1 + (b - a - 1) /\ b - a - 1 \in Nat
    OBVIOUS
  <2>2. \A d \in Nat : d * w \in Nat /\ (a + 1 + d) * w = a * w + w + d * w
    OBVIOUS
  <2> QED BY <2>1, <2>2
<1>2. g * w \in Nat /\ h * w \in Nat
  OBVIOUS
<1>3. g = h
  BY <1>1, <1>2
<1> QED BY <1>2, <1>3

LEMMA LogFits ==
    ASSUME NEW w \in Nat \ {0}, NEW log \in 0..(Logs - 1), Logs \in Nat
    PROVE  log * w \in Nat /\ log * w + w <= Logs * w
<1>1. Logs = log + 1 + (Logs - log - 1) /\ Logs - log - 1 \in Nat
  OBVIOUS
<1>2. \A d \in Nat : d * w \in Nat /\ (log + 1 + d) * w = log * w + w + d * w
  OBVIOUS
<1> QED BY <1>1, <1>2

LEMMA Constants ==
    /\ Logs \in Nat /\ MaxDevPerLog \in Nat /\ FIRST_DEV_ID \in Nat /\ MaxNat \in Nat
    /\ Consec \in Nat \ {0} /\ MAX_DOMAINS_PER_LOG \in Nat \ {0}
    /\ SizeT \in Nat \ {0} /\ UInt \in Nat \ {0} /\ Tenants \in 0..(SizeT - 1)
BY TraceBuilderAssumption

LEMMA LineType ==
    ASSUME NEW l \in Lines
    PROVE  /\ l.type \in {"translate", "cc", "slpte"}
           /\ l.sid \in Nat /\ l.did \in Nat /\ l.page \in Nat
BY TraceBuilderAssumption

\* Domains of different logs, and different domains of one log, are told apart.
LEMMA UniqueDidApart ==
    ASSUME DomainsFit, NEW l \in Lines, NEW m \in Lines,
           NEW g \in 0..(Logs - 1), NEW h \in 0..(Logs - 1)
    PROVE  UniqueDid(l, g) = UniqueDid(m, h) <=> g = h /\ l.did = m.did
<1> DEFINE w == MAX_DOMAINS_PER_LOG
<1>1. w \in Nat \ {0} /\ Logs \in Nat
  BY Constants
<1>2. l.did \in 0..(w - 1) /\ m.did \in 0..(w - 1)
  BY <1>1, LineType DEF DomainsFit
<1>3. g * w \in Nat /\ g * w + w <= Logs * w /\ h * w \in Nat /\ h * w + w <= Logs * w
  BY <1>1, LogFits
<1>4. l.did + g * w \in 0..(2^16 - 1) /\ m.did + h * w \in 0..(2^16 - 1)
  BY <1>1, <1>2, <1>3, SixteenBits DEF DomainsFit
<1>5. UniqueDid(l, g) = l.did + g * w /\ UniqueDid(m, h) = m.did + h * w
  BY <1>4, SixteenBits, ModSmall DEF UniqueDid
<1> HIDE DEF w
<1> QED BY <1>1, <1>2, <1>5, ShiftedApart

\* The SIDs of the devices that are valid in a log.
ValidSids == {8 * (FIRST_DEV_ID + i) : i \in 0..(MaxDevPerLog - 1)}

\* So are the devices of different logs, and of one log, by their SIDs.
LEMMA AdjustedSidApart ==
    ASSUME DevicesFit, NEW l, NEW m, l.sid \in ValidSids, m.sid \in ValidSids,
           NEW g \in 0..(Logs - 1), NEW h \in 0..(Logs - 1)
    PROVE  AdjustedSid(l, g) = AdjustedSid(m, h) <=> g = h /\ l.sid = m.sid
<1> DEFINE w == MAX_DOMAINS_PER_LOG
           f == 8 * FIRST_DEV_ID
<1>1. w \in Nat \ {0} /\ Logs \in Nat /\ f \in Nat /\ MaxDevPerLog \in Nat
  BY Constants
<1>2. PICK x \in 0..(w - 1) : l.sid = f + x
  <2>1. PICK i \in 0..(MaxDevPerLog - 1) : l.sid = 8 * (FIRST_DEV_ID + i)
    BY DEF ValidSids
  <2>2. 8 * i \in 0..(w - 1) /\ 8 * (FIRST_DEV_ID + i) = f + 8 * i
    BY <1>1, <2>1, Constants DEF DevicesFit
  <2> QED BY <2>1, <2>2
<1>3. PICK y \in 0..(w - 1) : m.sid = f + y
  <2>1. PICK i \in 0..(MaxDevPerLog - 1) : m.sid = 8 * (FIRST_DEV_ID + i)
    BY DEF ValidSids
  <2>2. 8 * i \in 0..(w - 1) /\ 8 * (FIRST_DEV_ID + i) = f + 8 * i
    BY <1>1, <2>1, Constants DEF DevicesFit
  <2> QED BY <2>1, <2>2
<1>4. f + Logs * w <= 2^16
  BY DEF DevicesFit
<1> HIDE DEF w, f
<1>5. g * w \in Nat /\ g * w + w <= Logs * w /\ h * w \in Nat /\ h * w + w <= Logs * w
      /\ Logs * w \in Nat
  BY <1>1, LogFits
<1>6. f + x + g * w \in 0..(2^16 - 1) /\ f + y + h * w \in 0..(2^16 - 1)
  BY <1>1, <1>2, <1>3, <1>4, <1>5, SixteenBits
<1>7. AdjustedSid(l, g) = f + x + g * w /\ AdjustedSid(m, h) = f + y + h * w
  BY <1>2, <1>3, <1>6, SixteenBits, ModSmall DEF AdjustedSid, w
<1>8. f + x + g * w = f + y + h * w <=> x + g * w = y + h * w
  BY <1>1, <1>2, <1>3, <1>5
<1>9. x + g * w = y + h * w => g = h /\ x = y
  BY <1>1, ShiftedApart
<1> QED BY <1>1, <1>2, <1>3, <1>5, <1>7, <1>8, <1>9

-----------------------------------------------------------------------------
(* The numbering of the tenants.                                           *)

\* The kinds of steps, for what the reading of the logs keeps.
KeepsLogs ==
    /\ UNCHANGED <<wanted, log_cnt, ltype, valid_sids, seen, tenants>>
    /\ pc' \in {"log", "lines"} => pc' = pc

LEMMA StepKinds ==
    [Next]_vars => \/ KeepsLogs
                   \/ OpenLog \/ OpenFails \/ SkipLog \/ CloseLog
                   \/ \E l \in Lines : ReadLine(l)
<1> SUFFICES ASSUME [Next]_vars
             PROVE  \/ KeepsLogs
                    \/ OpenLog \/ OpenFails \/ SkipLog \/ CloseLog
                    \/ \E l \in Lines : ReadLine(l)
  OBVIOUS
<1>1. CASE UNCHANGED vars
  BY <1>1 DEF vars, control, parsing, KeepsLogs
<1>2. CASE LogsRead
  BY <1>2 DEF LogsRead, control, parsing, KeepsLogs
<1>3. CASE \/ StartMerge \/ UnknownOrder \/ MergeOrig \/ MergeRR \/ NextRound \/ EndMerge
           \/ NumberEvent \/ SaveTrace
  BY <1>3 DEF StartMerge, UnknownOrder, MergeOrig, MergeRR, NextRound, EndMerge,
              NumberEvent, SaveTrace, control, parsing, KeepsLogs
<1>4. CASE \E i \in DOMAIN did_v : MergeRand(i)
  BY <1>4 DEF MergeRand, control, parsing, KeepsLogs
<1> QED BY <1>1, <1>2, <1>3, <1>4 DEF Next, ReadLogs, SaveIOVATrace

\* The global DIDs number the domains seen so far.
UidOK ==
    /\ IsFiniteSet(DOMAIN uid)
    /\ ToSet(uid) = 0..(Cardinality(DOMAIN uid) - 1)
    /\ \A x, y \in DOMAIN uid : uid[x] = uid[y] => x = y

LEMMA UidGrows ==
    ASSUME UidOK, NEW x, NEW d, uid' = Put(uid, x, d),
           d = IF x \in DOMAIN uid THEN uid[x] ELSE Cardinality(DOMAIN uid)
    PROVE  /\ UidOK'
           /\ DOMAIN uid' = DOMAIN uid \cup {x}
           /\ uid'[x] = d
           /\ \A y \in DOMAIN uid : uid'[y] = uid[y]
           /\ ToSet(uid') = ToSet(uid) \cup {d}
           /\ d \in Nat /\ Cardinality(DOMAIN uid) \in Nat
           /\ Cardinality(DOMAIN uid') =
                  Cardinality(DOMAIN uid) + IF x \in DOMAIN uid THEN 0 ELSE 1
           /\ x \in DOMAIN uid <=> d \in ToSet(uid)
<1> DEFINE N == Cardinality(DOMAIN uid)
<1>1. N \in Nat
  BY FS_CardinalityType DEF UidOK
<1>2. DOMAIN uid' = DOMAIN uid \cup {x} /\ uid'[x] = d
  BY DEF Put
<1>3. \A y \in DOMAIN uid : uid'[y] = uid[y]
  BY DEF Put
<1>4. ToSet(uid') = ToSet(uid) \cup {d}
  BY <1>2, <1>3 DEF ToSet
<1>5. CASE x \in DOMAIN uid
  <2>1. DOMAIN uid' = DOMAIN uid /\ d = uid[x] /\ d \in ToSet(uid)
    BY <1>2, <1>5 DEF ToSet
  <2>2. ToSet(uid') = ToSet(uid)
    BY <1>4, <2>1
  <2>3. \A y, z \in DOMAIN uid' : uid'[y] = uid'[z] => y = z
    BY <1>3, <2>1 DEF UidOK
  <2>4. d \in Nat
    BY <1>1, <2>1 DEF UidOK
  <2> QED BY <1>1, <1>2, <1>3, <1>4, <1>5, <2>1, <2>2, <2>3, <2>4 DEF UidOK
<1>6. CASE x \notin DOMAIN uid
  <2>1. d = N /\ d \notin ToSet(uid)
    BY <1>1, <1>6 DEF UidOK
  <2>2. IsFiniteSet(DOMAIN uid') /\ Cardinality(DOMAIN uid') = N + 1
    BY <1>2, <1>6, FS_AddElement DEF UidOK
  <2>3. ToSet(uid') = 0..N
    <3>1. ToSet(uid') = 0..(N - 1) \cup {N}
      BY <1>4, <2>1 DEF UidOK
    <3>2. \A n \in Nat : 0..(n - 1) \cup {n} = 0..n
      OBVIOUS
    <3> QED BY <1>1, <3>1, <3>2
  <2>4. \A y \in DOMAIN uid : uid[y] # d
    BY <2>1 DEF ToSet
  <2>5. \A y, z \in DOMAIN uid' : uid'[y] = uid'[z] => y = z
    BY <1>2, <1>3, <2>4 DEF UidOK
  <2> QED BY <1>1, <1>2, <1>3, <1>4, <1>6, <2>1, <2>2, <2>3, <2>5 DEF UidOK
<1> QED BY <1>5, <1>6

\* What the acceptance of a line does to the tenants.
LEMMA LineRead ==
    ASSUME UidOK, NEW l \in Lines, ReadLine(l)
    PROVE  /\ UidOK'
           /\ uid' = Put(uid, UniqueDid(l, log_cnt), Did(l))
           /\ Did(l) = IF UniqueDid(l, log_cnt) \in DOMAIN uid THEN uid[UniqueDid(l, log_cnt)]
                       ELSE Cardinality(DOMAIN uid)
           /\ ToSet(uid') = ToSet(uid) \cup {Did(l)}
           /\ Did(l) \in Nat
           /\ seen' = seen \cup {Did(l)}
           /\ DOMAIN streams' \subseteq DOMAIN streams \cup {Did(l)}
           /\ read' = Append(read, [line |-> l, log |-> log_cnt, did |-> Did(l)])
           /\ UNCHANGED <<pc, wanted, log_cnt, ltype, valid_sids>>
           /\ pc = "lines"
<1>1. /\ uid' = Put(uid, UniqueDid(l, log_cnt), Did(l))
      /\ seen' = seen \cup {Did(l)}
      /\ read' = Append(read, [line |-> l, log |-> log_cnt, did |-> Did(l)])
      /\ UNCHANGED <<pc, wanted, log_cnt, ltype, valid_sids>>
      /\ pc = "lines"
  BY DEF ReadLine, control
<1>2. Did(l) = IF UniqueDid(l, log_cnt) \in DOMAIN uid THEN uid[UniqueDid(l, log_cnt)]
               ELSE Cardinality(DOMAIN uid)
  BY DEF Did, NewDid
<1>3. UidOK' /\ ToSet(uid') = ToSet(uid) \cup {Did(l)} /\ Did(l) \in Nat
  BY <1>1, <1>2, UidGrows
<1>4. DOMAIN streams' \subseteq DOMAIN streams \cup {Did(l)}
  <2>1. PushTranslation(l) \/ PushContext(l) \/ PushSlpte
    BY LineType DEF ReadLine
  <2>2. CASE PushTranslation(l)
    <3>1. PICK v : streams' = Put(streams, Did(l), v)
      BY <2>2 DEF PushTranslation
    <3> QED BY <3>1 DEF Put
  <2> QED BY <2>1, <2>2 DEF PushContext, PushSlpte
<1> QED BY <1>1, <1>2, <1>3, <1>4

\* The inductive invariant of the numbering.
TypeInv ==
    /\ DidsDense /\ UidOK
    /\ IsFiniteSet(seen) /\ seen \subseteq ToSet(uid)

LEMMA InitTypeInv == Init => TypeInv
<1> SUFFICES ASSUME Init PROVE TypeInv
  OBVIOUS
<1>1. DOMAIN uid = {} /\ DOMAIN streams = {} /\ seen = {} /\ wanted = Tenants
  BY DEF Init, Nothing
<1>2. IsFiniteSet({}) /\ Cardinality({}) = 0
  BY FS_EmptySet
<1>3. ToSet(uid) = {}
  BY <1>1 DEF ToSet
<1>4. 0..(0 - 1) = {}
  OBVIOUS
<1> QED BY <1>1, <1>2, <1>3, <1>4, Constants DEF TypeInv, DidsDense, UidOK

LEMMA NextTypeInv == TypeInv /\ [Next]_vars => TypeInv'
<1> SUFFICES ASSUME TypeInv, [Next]_vars PROVE TypeInv'
  OBVIOUS
<1>1. CASE KeepsLogs
  BY <1>1 DEF KeepsLogs, TypeInv, DidsDense, UidOK, tenants, ToSet
<1>2. CASE OpenLog \/ OpenFails \/ SkipLog
  <2>1. seen' = {} /\ UNCHANGED <<wanted, uid, streams>>
    BY <1>2 DEF OpenLog, OpenFails, SkipLog, PrepareLog, control, tenants
  <2>2. IsFiniteSet({})
    BY FS_EmptySet
  <2> QED BY <2>1, <2>2 DEF TypeInv, DidsDense, UidOK, ToSet
<1>3. CASE CloseLog
  <2>1. UNCHANGED <<seen, uid, streams>> /\ wanted' = (wanted - Cardinality(seen)) % SizeT
    BY <1>3 DEF CloseLog, parsing, tenants
  <2>2. wanted' \in 0..(SizeT - 1)
    <3>1. wanted \in Int /\ Cardinality(seen) \in Int
      BY FS_CardinalityType, Constants DEF TypeInv, DidsDense
    <3>2. wanted - Cardinality(seen) \in Int
      BY <3>1
    <3> QED BY <2>1, <3>2, Constants, ModRange
  <2> QED BY <2>1, <2>2 DEF TypeInv, DidsDense, UidOK, ToSet
<1>4. ASSUME NEW l \in Lines, ReadLine(l)
      PROVE  TypeInv'
  <2>1. /\ UidOK' /\ ToSet(uid') = ToSet(uid) \cup {Did(l)}
        /\ seen' = seen \cup {Did(l)} /\ wanted' = wanted
        /\ DOMAIN streams' \subseteq DOMAIN streams \cup {Did(l)}
    BY <1>4, LineRead DEF TypeInv
  <2>2. IsFiniteSet(seen')
    BY <2>1, FS_AddElement DEF TypeInv
  <2>3. DidsDense'
    BY <2>1 DEF TypeInv, DidsDense, UidOK
  <2> QED BY <2>1, <2>2, <2>3 DEF TypeInv
<1> QED BY <1>1, <1>2, <1>3, <1>4, StepKinds

\* The global DIDs stay dense, so that the ranges of DIDs the simulator gives
\* its caches are ranges of tenants, and the number of tenants within its type.
THEOREM DidsAreDense == Spec => []DidsDense
<1>1. TypeInv => DidsDense
  BY DEF TypeInv
<1> QED BY <1>1, InitTypeInv, NextTypeInv, PTL DEF Spec

-----------------------------------------------------------------------------
(* The lines read, and what became of them.                                *)

Records == [line : Lines, log : 0..(Logs - 1), did : Nat]

\* Every line read has a tenant, and every tenant a line.
ReadOK ==
    /\ read \in Seq(Records)
    /\ log_cnt \in Nat
    /\ pc = "lines" => log_cnt < Logs
    /\ \A r \in ToSet(read) : /\ UniqueDid(r.line, r.log) \in DOMAIN uid
                              /\ r.did = uid[UniqueDid(r.line, r.log)]
    /\ \A x \in DOMAIN uid : \E r \in ToSet(read) : x = UniqueDid(r.line, r.log)

ReadInv == TypeInv /\ ReadOK

LEMMA InitReadInv == Init => ReadInv
<1> SUFFICES ASSUME Init PROVE ReadInv
  OBVIOUS
<1>1. read = <<>> /\ log_cnt = 0 /\ pc = "log" /\ DOMAIN uid = {}
  BY DEF Init, Nothing
<1>2. ToSet(read) = {} /\ read \in Seq(Records)
  BY <1>1 DEF ToSet
<1> QED BY <1>1, <1>2, InitTypeInv DEF ReadInv, ReadOK

\* The record of an accepted line.
LEMMA RecordAdded ==
    ASSUME ReadInv, NEW l \in Lines, ReadLine(l)
    PROVE  LET r == [line |-> l, log |-> log_cnt, did |-> Did(l)]
           IN  r \in Records /\ read' \in Seq(Records) /\ ToSet(read') = ToSet(read) \cup {r}
<1> DEFINE r == [line |-> l, log |-> log_cnt, did |-> Did(l)]
<1>1. Did(l) \in Nat /\ pc = "lines" /\ read' = Append(read, r)
  BY LineRead DEF ReadInv, TypeInv
<1>2. r \in Records
  BY <1>1, Constants DEF ReadInv, ReadOK, Records
<1> HIDE DEF r
<1>3. read' \in Seq(Records) /\ ToSet(read') = ToSet(read) \cup {r}
  <2>1. read \in Seq(Records)
    BY DEF ReadInv, ReadOK
  <2>2. /\ read' \in Seq(Records) /\ Len(read') = Len(read) + 1 /\ Len(read) \in Nat
        /\ \A i \in 1..Len(read) : read'[i] = read[i]
        /\ read'[Len(read) + 1] = r
    BY <1>1, <1>2, <2>1
  <2>3. DOMAIN read' = DOMAIN read \cup {Len(read) + 1} /\ DOMAIN read = 1..Len(read)
    BY <2>1, <2>2
  <2> QED BY <2>2, <2>3 DEF ToSet
<1> QED BY <1>2, <1>3 DEF r

LEMMA NextReadInv == ReadInv /\ [Next]_vars => ReadInv'
<1> SUFFICES ASSUME ReadInv, [Next]_vars PROVE ReadInv'
  OBVIOUS
<1>0. TypeInv'
  BY NextTypeInv DEF ReadInv
<1>1. CASE KeepsLogs
  <2>1. UNCHANGED <<read, uid, log_cnt>> /\ (pc' = "lines" => pc = "lines")
    BY <1>1 DEF KeepsLogs, tenants
  <2> QED BY <1>0, <2>1 DEF ReadInv, ReadOK, ToSet, UniqueDid
<1>2. CASE OpenLog \/ OpenFails \/ SkipLog \/ CloseLog
  <2>1. UNCHANGED <<read, uid>> /\ (pc' = "lines" => log_cnt' < Logs)
    BY <1>2 DEF OpenLog, OpenFails, SkipLog, CloseLog, PrepareLog, control, tenants
  <2>2. log_cnt' \in Nat
    <3>1. (log_cnt + 1) % UInt \in Nat
      BY Constants, ModRange DEF ReadInv, ReadOK
    <3> QED BY <1>2, <3>1 DEF OpenLog, OpenFails, SkipLog, CloseLog, control, ReadInv, ReadOK
  <2> QED BY <1>0, <2>1, <2>2 DEF ReadInv, ReadOK, ToSet, UniqueDid
<1>3. ASSUME NEW l \in Lines, ReadLine(l)
      PROVE  ReadInv'
  <2> DEFINE x == UniqueDid(l, log_cnt)
             r == [line |-> l, log |-> log_cnt, did |-> Did(l)]
  <2>1. r \in Records /\ read' \in Seq(Records) /\ ToSet(read') = ToSet(read) \cup {r}
    BY <1>3, RecordAdded
  <2>2. /\ uid' = Put(uid, x, Did(l))
        /\ Did(l) = IF x \in DOMAIN uid THEN uid[x] ELSE Cardinality(DOMAIN uid)
        /\ UNCHANGED <<pc, log_cnt>>
    BY <1>3, LineRead DEF ReadInv, TypeInv
  <2>3. /\ DOMAIN uid' = DOMAIN uid \cup {x} /\ uid'[x] = Did(l)
        /\ \A y \in DOMAIN uid : uid'[y] = uid[y]
    BY <2>2, UidGrows DEF ReadInv, TypeInv
  <2>4. r.line = l /\ r.log = log_cnt /\ r.did = Did(l)
    OBVIOUS
  <2>5. UniqueDid(r.line, r.log) = x
    BY <2>4
  <2> HIDE DEF x, r
  <2>6. \A q \in ToSet(read') : /\ UniqueDid(q.line, q.log) \in DOMAIN uid'
                                /\ q.did = uid'[UniqueDid(q.line, q.log)]
    BY <2>1, <2>3, <2>4, <2>5 DEF ReadInv, ReadOK
  <2>7. \A y \in DOMAIN uid' : \E q \in ToSet(read') : y = UniqueDid(q.line, q.log)
    BY <2>1, <2>3, <2>5 DEF ReadInv, ReadOK
  <2>8. \A q : UniqueDid(q.line, q.log)' = UniqueDid(q.line, q.log)
    BY DEF UniqueDid
  <2> QED BY <1>0, <2>1, <2>2, <2>6, <2>7 DEF ReadInv, ReadOK, UniqueDid
<1> QED BY <1>1, <1>2, <1>3, StepKinds

LEMMA RecordType ==
    ASSUME ReadInv, NEW r \in ToSet(read)
    PROVE  r \in Records /\ r.line \in Lines /\ r.log \in 0..(Logs - 1) /\ r.did \in Nat
<1>1. r \in Records
  BY DEF ReadInv, ReadOK, ToSet
<1> QED BY <1>1 DEF Records

\* Lines have one global DID exactly if they are of one log and domain: a tenant
\* is never taken for another, of the same log or of any other.
THEOREM TenantsToldApart ==
    ASSUME DomainsFit
    PROVE  Spec => []TenantsSeparate
<1>1. ReadInv => TenantsSeparate
  <2> SUFFICES ASSUME ReadInv, NEW i \in DOMAIN read, NEW j \in DOMAIN read
               PROVE  read[i].did = read[j].did <=>
                          /\ read[i].log = read[j].log
                          /\ read[i].line.did = read[j].line.did
    BY DEF TenantsSeparate
  <2> DEFINE r == read[i]
             q == read[j]
  <2>1. r \in ToSet(read) /\ q \in ToSet(read)
    BY DEF ToSet
  <2> HIDE DEF r, q
  <2>2. /\ UniqueDid(r.line, r.log) \in DOMAIN uid /\ r.did = uid[UniqueDid(r.line, r.log)]
        /\ UniqueDid(q.line, q.log) \in DOMAIN uid /\ q.did = uid[UniqueDid(q.line, q.log)]
    BY <2>1 DEF ReadInv, ReadOK
  <2>3. r.did = q.did <=> UniqueDid(r.line, r.log) = UniqueDid(q.line, q.log)
    BY <2>2 DEF ReadInv, TypeInv, UidOK
  <2>4. /\ r.line \in Lines /\ r.log \in 0..(Logs - 1)
        /\ q.line \in Lines /\ q.log \in 0..(Logs - 1)
    BY <2>1, RecordType
  <2>5. r.did = q.did <=> r.log = q.log /\ r.line.did = q.line.did
    BY <2>3, <2>4, UniqueDidApart
  <2> QED BY <2>5 DEF r, q
<1> QED BY <1>1, InitReadInv, NextReadInv, PTL DEF Spec

-----------------------------------------------------------------------------
(* The count of the tenants still wanted.                                  *)

SeenInLog == {r.did : r \in {q \in ToSet(read) : q.log = log_cnt}}

\* The inductive invariant of the count: the lines come from logs read before
\* this one, and the tenants seen in this one are not yet counted.
Counted ==
    /\ ltype # "txt" => read = <<>> /\ pc # "lines"
    /\ pc = "log" => \A r \in ToSet(read) : r.log < log_cnt
    /\ pc = "lines" =>
           /\ \A r \in ToSet(read) : r.log <= log_cnt
           /\ seen = SeenInLog
           /\ wanted = (Tenants - (Cardinality(DOMAIN uid) - Cardinality(seen))) % SizeT
    /\ TenantsCounted

CountInv == ReadInv /\ Counted

LEMMA InitCountInv == Init => CountInv
<1> SUFFICES ASSUME Init PROVE CountInv
  OBVIOUS
<1>1. read = <<>> /\ pc = "log" /\ DOMAIN uid = {} /\ wanted = Tenants
  BY DEF Init, Nothing
<1>2. ToSet(read) = {}
  BY <1>1 DEF ToSet
<1>3. Cardinality(DOMAIN uid) = 0
  BY <1>1, FS_EmptySet
<1>4. Tenants - 0 = Tenants /\ Tenants % SizeT = Tenants
  BY Constants, ModSmall
<1> QED BY <1>1, <1>2, <1>3, <1>4, InitReadInv DEF CountInv, Counted, TenantsCounted

LEMMA Cardinalities ==
    ASSUME ReadInv
    PROVE  Cardinality(DOMAIN uid) \in Nat /\ Cardinality(seen) \in Nat
BY FS_CardinalityType DEF ReadInv, TypeInv, UidOK

LEMMA OpenLogCounted == ASSUME CountInv, OpenLog PROVE Counted'
<1>1. /\ seen' = {} /\ pc = "log" /\ pc' = "lines" /\ ltype = "txt"
      /\ UNCHANGED <<ltype, log_cnt, wanted, uid, read>>
  BY DEF OpenLog, PrepareLog, control, tenants
<1>2. Cardinality({}) = 0
  BY FS_EmptySet
<1>3. \A r \in ToSet(read) : r.log < log_cnt /\ r.log \in Nat /\ log_cnt \in Nat
  BY <1>1, RecordType DEF CountInv, Counted, ReadInv, ReadOK
<1>4. SeenInLog' = {}
  <2>1. \A r \in ToSet(read) : r.log # log_cnt
    BY <1>3
  <2> QED BY <1>1, <2>1 DEF SeenInLog, ToSet
<1>5. \A n \in Nat : n - 0 = n
  OBVIOUS
<1>6. wanted' = (Tenants - (Cardinality(DOMAIN uid) - Cardinality(seen))') % SizeT
  BY <1>1, <1>2, <1>5, Cardinalities DEF CountInv, Counted, TenantsCounted
<1>7. \A r \in ToSet(read)' : r.log <= log_cnt'
  BY <1>1, <1>3 DEF ToSet
<1> QED BY <1>1, <1>4, <1>6, <1>7 DEF Counted, TenantsCounted

LEMMA CloseLogCounted == ASSUME LogsFit, CountInv, CloseLog PROVE Counted'
<1>1. /\ wanted' = (wanted - Cardinality(seen)) % SizeT
      /\ log_cnt' = (log_cnt + 1) % UInt
      /\ pc = "lines" /\ pc' = "log"
      /\ UNCHANGED <<ltype, uid, read>>
  BY DEF CloseLog, tenants
<1>2. log_cnt \in Nat /\ log_cnt < Logs
  BY <1>1 DEF CountInv, ReadInv, ReadOK
<1>3. log_cnt' = log_cnt + 1
  <2>1. log_cnt + 1 \in 0..(UInt - 1)
    BY <1>2, Constants DEF LogsFit
  <2> QED BY <1>1, <2>1, Constants, ModSmall
<1>4. \A r \in ToSet(read) : r.log < log_cnt'
  BY <1>1, <1>2, <1>3, RecordType DEF CountInv, Counted
<1>5. wanted' = (Tenants - Cardinality(DOMAIN uid)) % SizeT
  <2> DEFINE s == Cardinality(seen)
             N == Cardinality(DOMAIN uid)
  <2>1. N \in Nat /\ s \in Nat
    BY Cardinalities DEF CountInv
  <2>2. wanted = (Tenants - (N - s)) % SizeT
    BY <1>1 DEF CountInv, Counted
  <2> HIDE DEF s, N
  <2>3. (Tenants - (N - s)) - s = Tenants - N /\ Tenants - (N - s) \in Int
    BY <2>1, Constants
  <2>4. (((Tenants - (N - s)) % SizeT) - s) % SizeT = (Tenants - N) % SizeT
    <3>1. SizeT \in Nat \ {0} /\ s \in Int
      BY <2>1, Constants
    <3>2. ASSUME NEW a \in Int
          PROVE  ((a % SizeT) - s) % SizeT = (a - s) % SizeT
      BY <3>1, ModMinus
    <3> QED BY <2>3, <3>2
  <2> QED BY <1>1, <2>2, <2>4 DEF s, N
<1> QED BY <1>1, <1>4, <1>5 DEF CountInv, Counted, TenantsCounted, ToSet

LEMMA ReadLineCounted ==
    ASSUME DomainsFit, CountInv, NEW l \in Lines, ReadLine(l)
    PROVE  Counted'
<1> DEFINE x == UniqueDid(l, log_cnt)
           r == [line |-> l, log |-> log_cnt, did |-> Did(l)]
           d == Did(l)
<1>1. /\ r \in Records /\ ToSet(read') = ToSet(read) \cup {r}
      /\ r.log = log_cnt /\ r.did = d
  BY RecordAdded DEF CountInv
<1>2. /\ uid' = Put(uid, x, d)
      /\ d = IF x \in DOMAIN uid THEN uid[x] ELSE Cardinality(DOMAIN uid)
      /\ seen' = seen \cup {d}
      /\ UNCHANGED <<pc, wanted, log_cnt, ltype>> /\ pc = "lines"
  BY LineRead DEF CountInv, ReadInv, TypeInv
<1>3. /\ Cardinality(DOMAIN uid') = Cardinality(DOMAIN uid) + IF x \in DOMAIN uid THEN 0 ELSE 1
      /\ x \in DOMAIN uid <=> d \in ToSet(uid)
  BY <1>2, UidGrows DEF CountInv, ReadInv, TypeInv
<1>4. ltype = "txt"
  BY <1>2 DEF CountInv, Counted
<1>5. log_cnt \in 0..(Logs - 1)
  BY <1>2, Constants DEF CountInv, ReadInv, ReadOK
<1> HIDE DEF r
<1>6. SeenInLog' = SeenInLog \cup {d}
  BY <1>1, <1>2 DEF SeenInLog
<1>7. ASSUME x \in DOMAIN uid
      PROVE  d \in seen
  <2>1. PICK q \in ToSet(read) : x = UniqueDid(q.line, q.log)
    BY <1>7 DEF CountInv, ReadInv, ReadOK
  <2>2. q.line \in Lines /\ q.log \in 0..(Logs - 1)
    BY <2>1, RecordType DEF CountInv
  <2>3. q.log = log_cnt
    BY <1>5, <2>1, <2>2, UniqueDidApart
  <2>4. q.did = uid[x]
    BY <2>1 DEF CountInv, ReadInv, ReadOK
  <2>5. q.did \in SeenInLog
    BY <2>1, <2>3 DEF SeenInLog
  <2> QED BY <1>2, <1>7, <2>4, <2>5 DEF CountInv, Counted
<1>8. ASSUME x \notin DOMAIN uid
      PROVE  d \notin seen
  BY <1>3, <1>8 DEF CountInv, ReadInv, TypeInv
<1>9. IsFiniteSet(seen) /\ Cardinality(DOMAIN uid) \in Nat /\ Cardinality(seen) \in Nat
  BY Cardinalities DEF CountInv, ReadInv, TypeInv
<1>10. Cardinality(DOMAIN uid') - Cardinality(seen') = Cardinality(DOMAIN uid) - Cardinality(seen)
  <2>1. CASE x \in DOMAIN uid
    <3>1. seen' = seen
      BY <1>2, <1>7, <2>1
    <3>2. Cardinality(DOMAIN uid') = Cardinality(DOMAIN uid)
      BY <1>3, <1>9, <2>1
    <3> QED BY <3>1, <3>2
  <2>2. CASE x \notin DOMAIN uid
    <3>1. Cardinality(seen') = Cardinality(seen) + 1
      BY <1>2, <1>8, <1>9, <2>2, FS_AddElement
    <3>2. Cardinality(DOMAIN uid') = Cardinality(DOMAIN uid) + 1
      BY <1>3, <2>2
    <3> QED BY <1>9, <3>1, <3>2
  <2> QED BY <2>1, <2>2
<1>11. \A q \in ToSet(read') : q.log <= log_cnt'
  BY <1>1, <1>2, <1>5 DEF CountInv, Counted
<1>12. seen' = SeenInLog'
  BY <1>2, <1>6 DEF CountInv, Counted
<1>13. wanted' = (Tenants - (Cardinality(DOMAIN uid') - Cardinality(seen'))) % SizeT
  BY <1>2, <1>10 DEF CountInv, Counted
<1> QED BY <1>2, <1>4, <1>11, <1>12, <1>13 DEF Counted, TenantsCounted

LEMMA NextCountInv == DomainsFit /\ LogsFit /\ CountInv /\ [Next]_vars => CountInv'
<1> SUFFICES ASSUME DomainsFit, LogsFit, CountInv, [Next]_vars PROVE Counted'
  BY NextReadInv DEF CountInv
<1>1. CASE KeepsLogs
  <2>1. UNCHANGED <<wanted, log_cnt, ltype, seen, uid, read>>
    BY <1>1 DEF KeepsLogs, tenants
  <2>2. pc' \in {"log", "lines"} => pc' = pc
    BY <1>1 DEF KeepsLogs
  <2>3. SeenInLog' = SeenInLog /\ ToSet(read)' = ToSet(read)
    BY <2>1 DEF SeenInLog, ToSet
  <2> QED BY <2>1, <2>2, <2>3 DEF CountInv, Counted, TenantsCounted
<1>2. CASE OpenFails
  <2>1. pc' = "order" /\ UNCHANGED <<ltype, read>> /\ ltype = "txt"
    BY <1>2 DEF OpenFails, tenants
  <2> QED BY <2>1 DEF Counted, TenantsCounted
<1>3. CASE SkipLog
  <2>1. /\ ltype # "txt" /\ pc = "log"
        /\ UNCHANGED <<pc, wanted, ltype, uid, read>>
    BY <1>3 DEF SkipLog, PrepareLog, tenants
  <2>2. read = <<>>
    BY <2>1 DEF CountInv, Counted
  <2>3. ToSet(read)' = {}
    BY <2>1, <2>2 DEF ToSet
  <2> QED BY <2>1, <2>2, <2>3 DEF CountInv, Counted, TenantsCounted
<1> QED BY <1>1, <1>2, <1>3, OpenLogCounted, CloseLogCounted, ReadLineCounted, StepKinds

\* ReadLogs wants, after every log, the tenants asked for less those seen: it
\* stops when it has them all, and only then unless a log brings too many.
THEOREM TenantsAreCounted ==
    ASSUME DomainsFit, LogsFit
    PROVE  Spec => []TenantsCounted
<1>1. CountInv => TenantsCounted
  BY DEF CountInv, Counted
<1> QED BY <1>1, InitCountInv, NextCountInv, PTL DEF Spec

-----------------------------------------------------------------------------
(* The context entries.                                                    *)

\* The inductive invariant: only devices that are valid leave an entry.
Contexts ==
    /\ pc = "lines" => valid_sids \subseteq ValidSids
    /\ \A r \in ToSet(read) : r.line.type = "cc" => r.line.sid \in ValidSids
    /\ ContextPerTenant

ContextInv == ReadInv /\ Contexts

LEMMA ReadLineContexts ==
    ASSUME DevicesFit, ContextInv, NEW l \in Lines, ReadLine(l)
    PROVE  Contexts'
<1> DEFINE r == [line |-> l, log |-> log_cnt, did |-> Did(l)]
<1>1. /\ ToSet(read') = ToSet(read) \cup {r}
      /\ r.log = log_cnt /\ r.line = l
  BY RecordAdded DEF ContextInv
<1> HIDE DEF r
<1>2. UNCHANGED <<pc, log_cnt, valid_sids>> /\ pc = "lines"
  BY LineRead DEF ContextInv, ReadInv, TypeInv
<1>3. log_cnt \in 0..(Logs - 1)
  BY <1>2, Constants DEF ContextInv, ReadInv, ReadOK
<1>4. CASE l.type # "cc"
  <2>1. UNCHANGED contexts
    BY <1>4, LineType DEF ReadLine, PushTranslation, PushSlpte
  <2>2. \A q \in ToSet(read') : q.line.type = "cc" => q \in ToSet(read)
    BY <1>1, <1>4
  <2> QED BY <1>2, <2>1, <2>2 DEF ContextInv, Contexts, ContextPerTenant, AdjustedSid
<1>5. CASE l.type = "cc"
  <2> DEFINE s == AdjustedSid(l, log_cnt)
             v == [log |-> log_cnt, sid |-> l.sid]
  <2>1. contexts' = Put(contexts, s, v)
    BY <1>5 DEF ReadLine, PushContext
  <2>2. l.sid \in ValidSids
    BY <1>2, <1>5 DEF ReadLine, Accepted, ContextInv, Contexts
  <2>3. /\ DOMAIN contexts' = DOMAIN contexts \cup {s} /\ contexts'[s] = v
        /\ \A t \in DOMAIN contexts : t # s => contexts'[t] = contexts[t]
    BY <2>1 DEF Put
  <2>4. ASSUME NEW q \in ToSet(read'), q.line.type = "cc"
        PROVE  /\ q.line.sid \in ValidSids
               /\ AdjustedSid(q.line, q.log) \in DOMAIN contexts'
               /\ contexts'[AdjustedSid(q.line, q.log)] = [log |-> q.log, sid |-> q.line.sid]
    <3>1. CASE q = r
      BY <1>1, <2>2, <2>3, <3>1
    <3>2. CASE q \in ToSet(read)
      <4>1. /\ q.line.sid \in ValidSids
            /\ AdjustedSid(q.line, q.log) \in DOMAIN contexts
            /\ contexts[AdjustedSid(q.line, q.log)] = [log |-> q.log, sid |-> q.line.sid]
        BY <2>4, <3>2 DEF ContextInv, Contexts, ContextPerTenant
      <4>2. q.log \in 0..(Logs - 1)
        BY <3>2, RecordType DEF ContextInv
      <4>3. AdjustedSid(q.line, q.log) = s => q.log = log_cnt /\ q.line.sid = l.sid
        BY <1>3, <2>2, <4>1, <4>2, AdjustedSidApart
      <4> HIDE DEF s
      <4> QED BY <2>3, <4>1, <4>3
    <3> QED BY <1>1, <3>1, <3>2
  <2>5. \A q : AdjustedSid(q.line, q.log)' = AdjustedSid(q.line, q.log)
    BY DEF AdjustedSid
  <2> QED BY <1>2, <2>4 DEF ContextInv, Contexts, ContextPerTenant, AdjustedSid
<1> QED BY <1>4, <1>5

LEMMA NextContextInv == DevicesFit /\ ContextInv /\ [Next]_vars => ContextInv'
<1> SUFFICES ASSUME DevicesFit, ContextInv, [Next]_vars PROVE Contexts'
  BY NextReadInv DEF ContextInv
<1>1. ASSUME UNCHANGED <<read, contexts>>, pc' = "lines" => valid_sids' \subseteq ValidSids
      PROVE  Contexts'
  <2>1. ToSet(read)' = ToSet(read)
    BY <1>1 DEF ToSet
  <2> QED BY <1>1, <2>1 DEF ContextInv, Contexts, ContextPerTenant, AdjustedSid, ValidSids
<1>2. CASE KeepsLogs
  <2>1. UNCHANGED <<read, contexts, valid_sids>> /\ (pc' = "lines" => pc = "lines")
    BY <1>2 DEF KeepsLogs, tenants
  <2> QED BY <1>1, <2>1 DEF ContextInv, Contexts
<1>3. CASE OpenLog \/ OpenFails \/ SkipLog \/ CloseLog
  <2>1. UNCHANGED <<read, contexts>>
    BY <1>3 DEF OpenLog, OpenFails, SkipLog, CloseLog, tenants
  <2>2. ASSUME pc' = "lines" PROVE valid_sids' \subseteq ValidSids
    <3>1. valid_sids' = {8 * (FIRST_DEV_ID + i) : i \in 0..(Min2(wanted, MaxDevPerLog) - 1)}
      BY <1>3, <2>2 DEF OpenLog, OpenFails, SkipLog, CloseLog, PrepareLog
    <3>2. wanted \in Nat /\ MaxDevPerLog \in Nat
      BY Constants DEF ContextInv, ReadInv, TypeInv, DidsDense
    <3>3. 0..(Min2(wanted, MaxDevPerLog) - 1) \subseteq 0..(MaxDevPerLog - 1)
      BY <3>2 DEF Min2
    <3> HIDE DEF Min2
    <3> QED BY <3>1, <3>3 DEF ValidSids
  <2> QED BY <1>1, <2>1, <2>2
<1> QED BY <1>2, <1>3, ReadLineContexts, StepKinds

\* With few enough devices to a log (16, with 128 domains), no device's context
\* entry replaces another's.
THEOREM ContextsStay ==
    ASSUME DevicesFit
    PROVE  Spec => []ContextPerTenant
<1>1. Init => ContextInv
  <2> SUFFICES ASSUME Init PROVE Contexts
    BY InitReadInv DEF ContextInv
  <2>1. ToSet(read) = {} /\ pc = "log"
    BY DEF Init, ToSet
  <2> QED BY <2>1 DEF Contexts, ContextPerTenant
<1>2. ContextInv => ContextPerTenant
  BY DEF ContextInv, Contexts
<1> QED BY <1>1, <1>2, NextContextInv, PTL DEF Spec

-----------------------------------------------------------------------------
(* The streams of the tenants, and the merge: no order reads past the end  *)
(* of a stream.                                                            *)

Events == [sid : Nat, did : Nat, page : Nat, nat : Nat]

\* Events as they are before SetNextIOVAAccessTime.
Fresh == {e \in Events : e.nat = MaxNat}

\* The places of d in s behind the n-th.
Ahead(s, d, n) == {i \in (n + 1)..Len(s) : s[i] = d}

LEMMA AheadFinite ==
    ASSUME NEW s \in Seq(Nat), NEW d, NEW n \in Nat
    PROVE  IsFiniteSet(Ahead(s, d, n)) /\ Cardinality(Ahead(s, d, n)) \in Nat
<1> DEFINE L == Len(s)
<1>1. L \in Nat
  OBVIOUS
<1>2. Ahead(s, d, n) \subseteq 1..L
  BY DEF Ahead
<1> HIDE DEF L
<1>3. IsFiniteSet(1..L)
  BY <1>1, FS_Interval
<1> QED BY <1>2, <1>3, FS_Subset, FS_CardinalityType

LEMMA AheadAppend ==
    ASSUME NEW s \in Seq(Nat), NEW x \in Nat, NEW d
    PROVE  Cardinality(Ahead(Append(s, x), d, 0)) =
               Cardinality(Ahead(s, d, 0)) + IF x = d THEN 1 ELSE 0
<1> DEFINE t == Append(s, x)
           n == Len(s)
<1>1. n \in Nat /\ Len(t) = n + 1 /\ t[n + 1] = x /\ \A i \in 1..n : t[i] = s[i]
  OBVIOUS
<1>2. Ahead(t, d, 0) = IF x = d THEN Ahead(s, d, 0) \cup {n + 1} ELSE Ahead(s, d, 0)
  <2> HIDE DEF t
  <2>1. \A i : i \in 1..(n + 1) <=> i \in 1..n \/ i = n + 1
    BY <1>1
  <2>2. \A i : i \in Ahead(t, d, 0) <=> i \in 1..(n + 1) /\ t[i] = d
    BY <1>1 DEF Ahead
  <2>3. \A i : i \in Ahead(s, d, 0) <=> i \in 1..n /\ s[i] = d
    BY DEF Ahead
  <2> QED BY <1>1, <2>1, <2>2, <2>3
<1>3. n + 1 \notin Ahead(s, d, 0)
  BY <1>1 DEF Ahead
<1>4. IsFiniteSet(Ahead(s, d, 0)) /\ Cardinality(Ahead(s, d, 0)) \in Nat
  BY AheadFinite
<1> HIDE DEF t
<1>5. CASE x = d
  BY <1>2, <1>3, <1>4, <1>5, FS_AddElement DEF t
<1>6. CASE x # d
  BY <1>2, <1>4, <1>6 DEF t
<1> QED BY <1>5, <1>6

LEMMA AheadNext ==
    ASSUME NEW s \in Seq(Nat), NEW n \in 0..(Len(s) - 1), NEW d
    PROVE  Cardinality(Ahead(s, d, n)) =
               Cardinality(Ahead(s, d, n + 1)) + IF s[n + 1] = d THEN 1 ELSE 0
<1>1. Ahead(s, d, n) = IF s[n + 1] = d THEN Ahead(s, d, n + 1) \cup {n + 1}
                       ELSE Ahead(s, d, n + 1)
  <2>1. \A i : i \in (n + 1)..Len(s) <=> i \in (n + 1 + 1)..Len(s) \/ i = n + 1
    OBVIOUS
  <2> QED BY <2>1 DEF Ahead
<1>2. n + 1 \notin Ahead(s, d, n + 1)
  BY DEF Ahead
<1>3. IsFiniteSet(Ahead(s, d, n + 1)) /\ Cardinality(Ahead(s, d, n + 1)) \in Nat
  BY AheadFinite
<1>4. CASE s[n + 1] = d
  BY <1>1, <1>2, <1>3, <1>4, FS_AddElement
<1>5. CASE s[n + 1] # d
  BY <1>1, <1>3, <1>5
<1> QED BY <1>4, <1>5

\* A tenant's stream has an event for every mention of it in the logs' order.
StreamsOK ==
    /\ did_log \in Seq(Nat)
    /\ DOMAIN streams \subseteq Nat
    /\ \A i \in 1..Len(did_log) : did_log[i] \in DOMAIN streams
    /\ \A d \in DOMAIN streams :
           /\ streams[d] \in Seq(Fresh)
           /\ Len(streams[d]) = Cardinality(Ahead(did_log, d, 0))

StreamInv == ReadInv /\ StreamsOK

LEMMA InitStreamInv == Init => StreamInv
<1> SUFFICES ASSUME Init PROVE StreamsOK
  BY InitReadInv DEF StreamInv
<1>1. did_log = <<>> /\ DOMAIN streams = {}
  BY DEF Init, Nothing
<1> QED BY <1>1 DEF StreamsOK

LEMMA Pushed ==
    ASSUME StreamInv, NEW l \in Lines, ReadLine(l), PushTranslation(l)
    PROVE  StreamsOK'
<1> DEFINE d == Did(l)
           e == [sid |-> AdjustedSid(l, log_cnt), did |-> d, page |-> l.page, nat |-> MaxNat]
           old == IF d \in DOMAIN streams THEN streams[d] ELSE <<>>
<1>1. d \in Nat /\ log_cnt \in Nat
  BY LineRead DEF StreamInv, ReadInv, TypeInv, ReadOK
<1>2. e \in Fresh
  <2>1. l.sid \in Nat /\ l.page \in Nat /\ MaxNat \in Nat /\ MAX_DOMAINS_PER_LOG \in Nat
    BY LineType, Constants
  <2>2. l.sid + log_cnt * MAX_DOMAINS_PER_LOG \in Int
    BY <1>1, <2>1
  <2>3. AdjustedSid(l, log_cnt) \in Nat
    <3> DEFINE m == 2^16
               x == l.sid + log_cnt * MAX_DOMAINS_PER_LOG
    <3>1. m \in Nat \ {0} /\ x \in Int
      BY SixteenBits, <2>2
    <3> HIDE DEF m, x
    <3>2. x % m \in Nat
      BY <3>1, ModRange
    <3> QED BY <3>2 DEF AdjustedSid, m, x
  <2> HIDE DEF d
  <2> QED BY <1>1, <2>1, <2>3 DEF Fresh, Events, d
<1>3. streams' = Put(streams, d, Append(old, e)) /\ did_log' = Append(did_log, d)
  BY DEF PushTranslation
<1>4. old \in Seq(Fresh) /\ Len(old) = Cardinality(Ahead(did_log, d, 0))
  <2>1. CASE d \in DOMAIN streams
    BY <2>1 DEF StreamInv, StreamsOK
  <2>2. CASE d \notin DOMAIN streams
    <3>1. Ahead(did_log, d, 0) = {}
      BY <2>2 DEF StreamInv, StreamsOK, Ahead
    <3>2. Cardinality(Ahead(did_log, d, 0)) = 0
      BY <3>1, FS_EmptySet
    <3> QED BY <2>2, <3>2
  <2> QED BY <2>1, <2>2
<1> HIDE DEF d, e, old
<1>5. /\ DOMAIN streams' = DOMAIN streams \cup {d} /\ streams'[d] = Append(old, e)
      /\ \A c \in DOMAIN streams : c # d => streams'[c] = streams[c]
  BY <1>3 DEF Put
<1>6. Append(old, e) \in Seq(Fresh) /\ Len(Append(old, e)) = Len(old) + 1
  BY <1>2, <1>4
<1>7. /\ did_log' \in Seq(Nat) /\ Len(did_log') = Len(did_log) + 1
      /\ did_log'[Len(did_log) + 1] = d
      /\ \A i \in 1..Len(did_log) : did_log'[i] = did_log[i]
  BY <1>1, <1>3 DEF StreamInv, StreamsOK
<1>8. \A i \in 1..Len(did_log') : did_log'[i] \in DOMAIN streams'
  <2>1. \A i \in 1..Len(did_log') : i \in 1..Len(did_log) \/ i = Len(did_log) + 1
    BY <1>7 DEF StreamInv, StreamsOK
  <2> QED BY <1>5, <1>7, <2>1 DEF StreamInv, StreamsOK
<1>9. ASSUME NEW c \in DOMAIN streams'
      PROVE  streams'[c] \in Seq(Fresh) /\ Len(streams'[c]) = Cardinality(Ahead(did_log', c, 0))
  <2>1. Cardinality(Ahead(did_log', c, 0)) =
            Cardinality(Ahead(did_log, c, 0)) + IF d = c THEN 1 ELSE 0
    <3>1. did_log \in Seq(Nat)
      BY DEF StreamInv, StreamsOK
    <3> QED BY <1>1, <1>3, <3>1, AheadAppend
  <2>2. Cardinality(Ahead(did_log, c, 0)) \in Nat
    BY AheadFinite DEF StreamInv, StreamsOK
  <2>3. CASE c = d
    BY <1>4, <1>5, <1>6, <2>1, <2>2, <2>3
  <2>4. CASE c # d
    BY <1>5, <2>1, <2>2, <2>4 DEF StreamInv, StreamsOK
  <2> QED BY <2>3, <2>4
<1>10. DOMAIN streams' \subseteq Nat
  BY <1>1, <1>5 DEF StreamInv, StreamsOK
<1> QED BY <1>7, <1>8, <1>9, <1>10 DEF StreamsOK, Ahead

LEMMA NextStreamInv == StreamInv /\ [Next]_vars => StreamInv'
<1> SUFFICES ASSUME StreamInv, [Next]_vars PROVE StreamsOK'
  BY NextReadInv DEF StreamInv
<1>1. ASSUME UNCHANGED <<streams, did_log>>
      PROVE  StreamsOK'
  BY <1>1 DEF StreamInv, StreamsOK, Ahead
<1>2. CASE KeepsLogs \/ OpenLog \/ OpenFails \/ SkipLog \/ CloseLog
  BY <1>1, <1>2 DEF KeepsLogs, OpenLog, OpenFails, SkipLog, CloseLog, tenants
<1>3. ASSUME NEW l \in Lines, ReadLine(l)
      PROVE  StreamsOK'
  <2>1. PushTranslation(l) \/ PushContext(l) \/ PushSlpte
    BY <1>3, LineType DEF ReadLine
  <2> QED BY <1>1, <1>3, <2>1, Pushed DEF PushContext, PushSlpte
<1> QED BY <1>2, <1>3, StepKinds

\* What each order's merge loop keeps: no tenant has more events in the trace
\* than it has, and with "orig" those it has left are those the logs' order
\* still mentions.
Merging ==
    /\ did_it \in [DOMAIN streams -> Nat]
    /\ \A d \in DOMAIN streams : did_it[d] <= Len(streams[d])
    /\ order = "orig" =>
           /\ Len(trace) <= Len(did_log)
           /\ \A d \in DOMAIN streams :
                  Len(streams[d]) = did_it[d] + Cardinality(Ahead(did_log, d, Len(trace)))
    /\ did_v \in Seq(DOMAIN streams)

MergeOK ==
    /\ turn \in Nat \ {0}
    /\ pc \in {"log", "lines", "order"} => trace = <<>> /\ turn = 1
    /\ pc \in {"log", "lines", "order", "merge"} =>
           trace \in Seq(Fresh) /\ event_cnt = 0 /\ last = Nothing
    /\ pc = "merge" => Merging

MergeInv == StreamInv /\ MergeOK

LEMMA Piece ==
    ASSUME NEW s \in Seq(Fresh), NEW a \in Nat, NEW n \in Nat, a + n <= Len(s)
    PROVE  SubSeq(s, a + 1, a + n) \in Seq(Fresh) /\ Len(SubSeq(s, a + 1, a + n)) = n
<1>1. a + 1 \in Int /\ a + n \in Int /\ (IF a + 1 <= a + n THEN (a + n) - (a + 1) + 1 ELSE 0) = n
  OBVIOUS
<1>2. \A i \in (a + 1)..(a + n) : s[i] \in Fresh
  OBVIOUS
<1> DEFINE b == a + 1
           c == a + n
<1>3. b \in Int /\ c \in Int /\ \A i \in b..c : s[i] \in Fresh
  BY <1>1, <1>2
<1>4. (IF b <= c THEN c - b + 1 ELSE 0) = n
  BY <1>1
<1> HIDE DEF b, c
<1>5. SubSeq(s, b, c) \in Seq(Fresh) /\ Len(SubSeq(s, b, c)) = IF b <= c THEN c - b + 1 ELSE 0
  BY <1>3, SubSeqProperties
<1> QED BY <1>4, <1>5 DEF b, c

\* The next n events of a tenant that has as many.
LEMMA Taken ==
    ASSUME StreamInv, trace \in Seq(Fresh), did_it \in [DOMAIN streams -> Nat],
           NEW d \in DOMAIN streams, NEW n \in Nat, did_it[d] + n <= Len(streams[d]),
           Take(d, n)
    PROVE  /\ trace' \in Seq(Fresh) /\ Len(trace') = Len(trace) + n
           /\ did_it' \in [DOMAIN streams -> Nat]
           /\ did_it'[d] = did_it[d] + n
           /\ \A c \in DOMAIN streams : c # d => did_it'[c] = did_it[c]
<1> DEFINE s == streams[d]
           a == did_it[d] + 1
           b == did_it[d] + n
           t == SubSeq(s, a, b)
<1>1. s \in Seq(Fresh) /\ did_it[d] \in Nat
  BY DEF StreamInv, StreamsOK
<1>2. trace' = trace \o t /\ did_it' = [did_it EXCEPT ![d] = @ + n]
  BY DEF Take
<1>3. t \in Seq(Fresh) /\ Len(t) = n
  <2> HIDE DEF s
  <2> QED BY <1>1, Piece DEF s
<1> HIDE DEF t
<1>4. trace' \in Seq(Fresh) /\ Len(trace') = Len(trace) + n
  BY <1>2, <1>3, ConcatProperties
<1>5. /\ did_it' \in [DOMAIN streams -> Nat] /\ did_it'[d] = did_it[d] + n
      /\ \A c \in DOMAIN streams : c # d => did_it'[c] = did_it[c]
  BY <1>1, <1>2
<1> QED BY <1>4, <1>5

LEMMA InitMergeInv == Init => MergeInv
<1> SUFFICES ASSUME Init PROVE MergeOK
  BY InitStreamInv DEF MergeInv
<1> QED BY DEF Init, MergeOK

LEMMA StartMergeOK == ASSUME MergeInv, StartMerge PROVE MergeOK'
<1>1. /\ pc = "order" /\ pc' = "merge"
      /\ did_v' \in Ascending(DOMAIN streams)
      /\ did_it' = [d \in DOMAIN streams |-> 0]
      /\ UNCHANGED <<turn, order, streams, did_log, trace, event_cnt, last>>
  BY DEF StartMerge, control, tenants, numbering
<1>2. trace = <<>> /\ Len(trace) = 0 /\ trace \in Seq(Fresh)
  BY <1>1 DEF MergeInv, MergeOK
<1>3. did_v' \in Seq(DOMAIN streams)
  <2> DEFINE S == DOMAIN streams
             N == Cardinality(DOMAIN uid)
  <2>1. N \in Nat /\ S \subseteq 0..(N - 1)
    BY FS_CardinalityType DEF MergeInv, StreamInv, ReadInv, TypeInv, DidsDense, UidOK
  <2> HIDE DEF S, N
  <2>2. IsFiniteSet(0..(N - 1))
    <3>1. N - 1 \in Int /\ 0 \in Int
      BY <2>1
    <3> HIDE DEF N
    <3>2. \A a, b \in Int : IsFiniteSet(a..b)
      BY FS_Interval
    <3> QED BY <3>1, <3>2
  <2>3. IsFiniteSet(S)
    BY <2>1, <2>2, FS_Subset
  <2>4. Cardinality(S) \in Nat
    BY <2>3, FS_CardinalityType
  <2>5. did_v' \in [1..Cardinality(S) -> S]
    BY <1>1 DEF Ascending, S
  <2>6. \A n \in Nat : \A f \in [1..n -> S] : f \in Seq(S)
    OBVIOUS
  <2> QED BY <2>4, <2>5, <2>6 DEF S
<1>4. did_it' \in [DOMAIN streams -> Nat] /\ \A d \in DOMAIN streams : did_it'[d] = 0
  BY <1>1
<1>5. ASSUME NEW d \in DOMAIN streams
      PROVE  /\ did_it'[d] <= Len(streams[d])
             /\ Len(streams[d]) = did_it'[d] + Cardinality(Ahead(did_log, d, Len(trace)))
  <2>1. /\ Len(streams[d]) \in Nat
        /\ Len(streams[d]) = Cardinality(Ahead(did_log, d, 0))
    BY DEF MergeInv, StreamInv, StreamsOK
  <2> QED BY <1>2, <1>4, <2>1
<1>6. Len(trace) <= Len(did_log)
  BY <1>2 DEF MergeInv, StreamInv, StreamsOK
<1>7. Merging'
  BY <1>1, <1>3, <1>4, <1>5, <1>6 DEF Merging, Ahead
<1> QED BY <1>1, <1>2, <1>7 DEF MergeInv, MergeOK

LEMMA MergeOrigOK == ASSUME MergeInv, MergeOrig PROVE MergeOK'
<1> DEFINE n == Len(trace)
           d == did_log[n + 1]
<1>1. /\ pc = "merge" /\ order = "orig" /\ n < Len(did_log) /\ Take(d, 1)
      /\ UNCHANGED <<pc, turn, did_v, order, streams, did_log, event_cnt, last>>
  BY DEF MergeOrig, control, tenants, numbering
<1>2. trace \in Seq(Fresh) /\ Merging
  BY <1>1 DEF MergeInv, MergeOK
<1>3. n \in 0..(Len(did_log) - 1) /\ did_log \in Seq(Nat) /\ n \in Nat
  BY <1>1, <1>2 DEF MergeInv, StreamInv, StreamsOK
<1>4. d \in DOMAIN streams
  BY <1>3 DEF MergeInv, StreamInv, StreamsOK
<1>5. \A c \in DOMAIN streams :
          /\ did_it[c] \in Nat /\ Len(streams[c]) \in Nat
          /\ Len(streams[c]) = did_it[c] + Cardinality(Ahead(did_log, c, n))
  BY <1>1, <1>2 DEF Merging, MergeInv, StreamInv, StreamsOK
<1>6. ASSUME NEW c \in DOMAIN streams
      PROVE  /\ Cardinality(Ahead(did_log, c, n)) =
                    Cardinality(Ahead(did_log, c, n + 1)) + IF d = c THEN 1 ELSE 0
             /\ Cardinality(Ahead(did_log, c, n + 1)) \in Nat
  <2> HIDE DEF n
  <2> QED BY <1>3, AheadNext, AheadFinite
<1> HIDE DEF d, n
<1>7. did_it[d] + 1 <= Len(streams[d])
  BY <1>4, <1>5, <1>6
<1>8. /\ trace' \in Seq(Fresh) /\ Len(trace') = n + 1
      /\ did_it' \in [DOMAIN streams -> Nat]
      /\ did_it'[d] = did_it[d] + 1
      /\ \A c \in DOMAIN streams : c # d => did_it'[c] = did_it[c]
  <2>1. did_it \in [DOMAIN streams -> Nat]
    BY <1>2 DEF Merging
  <2>2. n = Len(trace) /\ StreamInv /\ trace \in Seq(Fresh) /\ Take(d, 1)
    BY <1>1, <1>2 DEF MergeInv, n
  <2> QED BY <1>4, <1>7, <2>1, <2>2, Taken
<1>9. ASSUME NEW c \in DOMAIN streams
      PROVE  /\ did_it'[c] <= Len(streams[c])
             /\ Len(streams[c]) = did_it'[c] + Cardinality(Ahead(did_log, c, n + 1))
  <2>1. CASE c = d
    BY <1>5, <1>6, <1>8, <2>1
  <2>2. CASE c # d
    BY <1>5, <1>6, <1>8, <2>2
  <2> QED BY <2>1, <2>2
<1>10. Merging'
  <2>1. n + 1 <= Len(did_log)
    BY <1>3
  <2> HIDE DEF n
  <2>2. \A c \in DOMAIN streams : Ahead(did_log, c, Len(trace))' = Ahead(did_log, c, n + 1)
    BY <1>1, <1>8 DEF Ahead
  <2>3. did_v' \in Seq(DOMAIN streams')
    BY <1>1, <1>2 DEF Merging
  <2> QED BY <1>1, <1>8, <1>9, <2>1, <2>2, <2>3 DEF Merging
<1> QED BY <1>1, <1>8, <1>10 DEF MergeInv, MergeOK

\* A burst: as much as is left of a tenant's stream, at most Consec.
LEMMA BurstTaken ==
    ASSUME MergeInv, pc = "merge", NEW d \in DOMAIN streams,
           Take(d, Min2(Consec, Left(d))), UNCHANGED streams
    PROVE  /\ trace' \in Seq(Fresh)
           /\ did_it' \in [DOMAIN streams -> Nat]
           /\ \A c \in DOMAIN streams : did_it'[c] <= Len(streams[c])
<1> DEFINE n == Min2(Consec, Left(d))
<1>1. /\ trace \in Seq(Fresh) /\ did_it \in [DOMAIN streams -> Nat]
      /\ \A c \in DOMAIN streams : /\ did_it[c] <= Len(streams[c])
                                   /\ did_it[c] \in Nat /\ Len(streams[c]) \in Nat
  BY DEF MergeInv, MergeOK, Merging, StreamInv, StreamsOK
<1>2. n \in Nat /\ did_it[d] + n <= Len(streams[d])
  BY <1>1, Constants DEF Min2, Left
<1> HIDE DEF n
<1>3. /\ trace' \in Seq(Fresh) /\ did_it' \in [DOMAIN streams -> Nat]
      /\ did_it'[d] = did_it[d] + n
      /\ \A c \in DOMAIN streams : c # d => did_it'[c] = did_it[c]
  BY <1>1, <1>2, Taken DEF MergeInv, n
<1>4. ASSUME NEW c \in DOMAIN streams PROVE did_it'[c] <= Len(streams[c])
  BY <1>1, <1>2, <1>3
<1> QED BY <1>3, <1>4

LEMMA MergeRROK == ASSUME MergeInv, MergeRR PROVE MergeOK'
<1> DEFINE d == did_v[turn]
<1>1. /\ pc = "merge" /\ order = "rr" /\ turn <= Len(did_v)
      /\ Take(d, Min2(Consec, Left(d)))
      /\ turn' = turn + 1
      /\ UNCHANGED <<pc, did_v, order, streams, did_log, event_cnt, last>>
  BY DEF MergeRR, control, tenants, numbering
<1>2. d \in DOMAIN streams
  <2>1. did_v \in Seq(DOMAIN streams) /\ turn \in Nat \ {0}
    BY <1>1 DEF MergeInv, MergeOK, Merging
  <2> QED BY <1>1, <2>1
<1> HIDE DEF d
<1>3. /\ trace' \in Seq(Fresh) /\ did_it' \in [DOMAIN streams -> Nat]
      /\ \A c \in DOMAIN streams : did_it'[c] <= Len(streams[c])
  BY <1>1, <1>2, BurstTaken
<1>4. Merging'
  BY <1>1, <1>3 DEF MergeInv, MergeOK, Merging
<1> QED BY <1>1, <1>3, <1>4 DEF MergeInv, MergeOK

\* A tenant is erased by its place.
LEMMA Erased ==
    ASSUME NEW S, NEW s \in Seq(S), NEW i \in 1..Len(s)
    PROVE  /\ RemoveAt(s, i) \in Seq(S)
           /\ \A j \in 1..Len(s) : j # i =>
                  \E n \in 1..Len(RemoveAt(s, i)) : RemoveAt(s, i)[n] = s[j]
<1> DEFINE a == SubSeq(s, 1, i - 1)
           b == SubSeq(s, i + 1, Len(s))
           r == RemoveAt(s, i)
<1>1. a \in Seq(S) /\ Len(a) = i - 1 /\ \A j \in 1..(i - 1) : a[j] = s[j]
  OBVIOUS
<1>2. b \in Seq(S) /\ Len(b) = Len(s) - i /\ \A j \in 1..(Len(s) - i) : b[j] = s[j + i]
  OBVIOUS
<1>3. r = a \o b
  BY DEF RemoveAt
<1> HIDE DEF a, b, r
<1>4. /\ r \in Seq(S) /\ Len(r) = Len(s) - 1
      /\ \A j \in 1..(i - 1) : r[j] = s[j]
      /\ \A j \in 1..(Len(s) - i) : r[(i - 1) + j] = s[j + i]
  <2>1. PICK n, p, q : n = Len(s) /\ p = Len(a) /\ q = Len(b)
    OBVIOUS
  <2>2. n \in Nat /\ i \in 1..n /\ p = i - 1 /\ q = n - i
    BY <1>1, <1>2, <2>1
  <2>3. /\ r \in Seq(S) /\ Len(r) = p + q
        /\ \A j \in 1..(p + q) : r[j] = IF j <= p THEN a[j] ELSE b[j - p]
    <3>1. /\ a \o b \in Seq(S) /\ Len(a \o b) = Len(a) + Len(b)
          /\ \A j \in 1..(Len(a) + Len(b)) :
                 (a \o b)[j] = IF j <= Len(a) THEN a[j] ELSE b[j - Len(a)]
      BY <1>1, <1>2, ConcatProperties
    <3> QED BY <1>3, <2>1, <3>1
  <2>4. p + q = n - 1
    BY <2>2
  <2>5. ASSUME NEW j \in 1..(i - 1) PROVE r[j] = s[j]
    <3>1. j \in 1..(p + q) /\ j <= p
      BY <2>2
    <3> QED BY <1>1, <2>3, <3>1
  <2>6. ASSUME NEW j \in 1..(n - i) PROVE r[(i - 1) + j] = s[j + i]
    <3>1. (i - 1) + j \in 1..(p + q) /\ ~((i - 1) + j <= p) /\ ((i - 1) + j) - p = j
      BY <2>2
    <3>2. r[(i - 1) + j] = b[j]
      BY <2>3, <3>1
    <3> QED BY <1>2, <2>1, <3>2
  <2> QED BY <2>1, <2>3, <2>4, <2>5, <2>6
<1>5. ASSUME NEW j \in 1..Len(s), j # i
      PROVE  \E n \in 1..Len(r) : r[n] = s[j]
  <2>1. CASE j < i
    <3>1. j \in 1..(i - 1) /\ j \in 1..Len(r)
      BY <1>4, <2>1
    <3> QED BY <1>4, <3>1
  <2>2. CASE j > i
    <3>1. j - i \in 1..(Len(s) - i) /\ (i - 1) + (j - i) \in 1..Len(r) /\ (j - i) + i = j
      BY <1>4, <2>2
    <3> QED BY <1>4, <3>1
  <2> QED BY <1>5, <2>1, <2>2
<1> QED BY <1>4, <1>5 DEF r

LEMMA MergeRandOK ==
    ASSUME MergeInv, NEW i \in DOMAIN did_v, MergeRand(i)
    PROVE  MergeOK'
<1> DEFINE d == did_v[i]
<1>1. /\ pc = "merge" /\ order = "rand"
      /\ Take(d, Min2(Consec, Left(d)))
      /\ did_v' \in {did_v, RemoveAt(did_v, i)}
      /\ UNCHANGED <<pc, turn, order, streams, did_log, event_cnt, last>>
  BY DEF MergeRand, control, tenants, numbering
<1>0. did_v \in Seq(DOMAIN streams) /\ i \in 1..Len(did_v) /\ d \in DOMAIN streams
  BY <1>1 DEF MergeInv, MergeOK, Merging
<1> HIDE DEF d
<1>2. /\ trace' \in Seq(Fresh) /\ did_it' \in [DOMAIN streams -> Nat]
      /\ \A c \in DOMAIN streams : did_it'[c] <= Len(streams[c])
  BY <1>0, <1>1, BurstTaken
<1>4. did_v' \in Seq(DOMAIN streams)
  BY <1>0, <1>1, Erased
<1>3. Merging'
  BY <1>1, <1>2, <1>4 DEF Merging
<1> QED BY <1>1, <1>2, <1>3 DEF MergeInv, MergeOK

LEMMA NextMergeInv == MergeInv /\ [Next]_vars => MergeInv'
<1> SUFFICES ASSUME MergeInv, [Next]_vars PROVE MergeOK'
  BY NextStreamInv DEF MergeInv
<1>1. CASE UNCHANGED vars
  BY <1>1 DEF vars, control, tenants, merging, numbering, MergeInv, MergeOK, Merging, Ahead
<1>2. CASE OpenLog \/ OpenFails \/ SkipLog \/ CloseLog \/ LogsRead \/ UnknownOrder
  <2>1. /\ pc \in {"log", "lines", "order"} /\ pc' \in {"log", "lines", "order", "exit"}
        /\ UNCHANGED <<turn, trace, event_cnt, last>>
    BY <1>2 DEF OpenLog, OpenFails, SkipLog, CloseLog, LogsRead, UnknownOrder, PrepareLog,
                merging, numbering
  <2> QED BY <2>1 DEF MergeInv, MergeOK
<1>3. ASSUME NEW l \in Lines, ReadLine(l)
      PROVE  MergeOK'
  <2>1. pc = "lines" /\ UNCHANGED <<pc, turn, trace, event_cnt, last>>
    BY <1>3 DEF ReadLine, merging, numbering
  <2> QED BY <2>1 DEF MergeInv, MergeOK
<1>4. CASE NextRound
  <2>1. /\ pc = "merge" /\ turn' = 1
        /\ UNCHANGED <<pc, did_v, did_it, order, streams, did_log, trace, event_cnt, last>>
    BY <1>4 DEF NextRound, control, tenants, numbering
  <2> QED BY <2>1 DEF MergeInv, MergeOK, Merging, Ahead
<1>5. CASE EndMerge \/ SaveTrace
  <2>1. pc' \in {"number", "saved", "exit"} /\ UNCHANGED turn
    BY <1>5 DEF EndMerge, SaveTrace, merging
  <2> QED BY <2>1 DEF MergeInv, MergeOK
<1>6. CASE NumberEvent
  <2>1. pc = "number" /\ UNCHANGED <<pc, turn>>
    BY <1>6 DEF NumberEvent, merging
  <2> QED BY <2>1 DEF MergeInv, MergeOK
<1> QED BY <1>1, <1>2, <1>3, <1>4, <1>5, <1>6, StartMergeOK, MergeOrigOK, MergeRROK, MergeRandOK
        DEF Next, ReadLogs, SaveIOVATrace

\* No order takes more events from a tenant than its logs gave it: the merge
\* loops, which index the tenants' vectors without looking at their ends, stay
\* within them.
THEOREM MergesStayInStreams ==
    Spec => [](pc = "merge" => \A d \in DOMAIN streams : did_it[d] <= Len(streams[d]))
<1>1. MergeInv => (pc = "merge" => \A d \in DOMAIN streams : did_it[d] <= Len(streams[d]))
  BY DEF MergeInv, MergeOK, Merging
<1> QED BY <1>1, InitMergeInv, NextMergeInv, PTL DEF Spec

-----------------------------------------------------------------------------
(* The next access times.                                                  *)

\* Of the events numbered so far, the last of each page is known and has no
\* next access, and the others have that of the event their page comes next in.
Numbered ==
    /\ trace \in Seq(Events)
    /\ event_cnt \in 0..Len(trace)
    /\ \A i \in (event_cnt + 1)..Len(trace) : trace[i].nat = MaxNat
    /\ \A i \in 1..event_cnt : Key(trace[i]) \in DOMAIN last
    /\ \A k \in DOMAIN last :
           /\ last[k] \in 1..event_cnt
           /\ Key(trace[last[k]]) = k
           /\ trace[last[k]].nat = MaxNat
           /\ \A j \in (last[k] + 1)..event_cnt : Key(trace[j]) # k
    /\ \A i \in 1..event_cnt : i # last[Key(trace[i])] =>
           /\ trace[i].nat + 1 \in (i + 1)..event_cnt
           /\ Key(trace[trace[i].nat + 1]) = Key(trace[i])
           /\ \A j \in (i + 1)..trace[i].nat : Key(trace[j]) # Key(trace[i])

NumberInv == MergeInv /\ Numbered

LEMMA UnnumberedOK ==
    ASSUME trace \in Seq(Fresh), event_cnt = 0, last = Nothing
    PROVE  Numbered
<1>1. trace \in Seq(Events) /\ Len(trace) \in Nat
  BY DEF Fresh
<1>2. \A i \in 1..Len(trace) : trace[i].nat = MaxNat
  BY DEF Fresh
<1>3. DOMAIN last = {}
  BY DEF Nothing
<1> QED BY <1>1, <1>2, <1>3 DEF Numbered

LEMMA Renumbered ==
    ASSUME NEW e \in Events, NEW v \in Nat
    PROVE  /\ [e EXCEPT !.nat = v] \in Events
           /\ [e EXCEPT !.nat = v].nat = v
           /\ Key([e EXCEPT !.nat = v]) = Key(e)
BY DEF Events, Key

LEMMA NumberEventOK == ASSUME NumberInv, NumberEvent PROVE Numbered'
<1> DEFINE n == event_cnt + 1
           k == Key(trace[n])
<1>1. /\ event_cnt < Len(trace) /\ event_cnt' = n
      /\ trace' = IF k \in DOMAIN last THEN [trace EXCEPT ![last[k]].nat = event_cnt] ELSE trace
      /\ last' = Put(last, k, n)
  BY DEF NumberEvent
<1>2. trace \in Seq(Events) /\ event_cnt \in 0..Len(trace) /\ n \in 1..Len(trace) /\ n \in Nat
  BY <1>1 DEF NumberInv, Numbered
<1>3. \A e \in Events : e.nat \in Nat
  BY DEF Events
<1>4. /\ DOMAIN last' = DOMAIN last \cup {k} /\ last'[k] = n
      /\ \A y \in DOMAIN last : y # k => last'[y] = last[y]
  BY <1>1 DEF Put
<1>5. k \in DOMAIN last => last[k] \in 1..event_cnt /\ Key(trace[last[k]]) = k
  BY DEF NumberInv, Numbered
<1>6. /\ trace' \in Seq(Events) /\ Len(trace') = Len(trace)
      /\ \A i \in 1..Len(trace) :
             /\ Key(trace'[i]) = Key(trace[i])
             /\ trace'[i].nat = IF k \in DOMAIN last /\ i = last[k] THEN event_cnt ELSE trace[i].nat
  <2>1. CASE k \notin DOMAIN last
    BY <1>1, <1>2, <2>1
  <2>2. CASE k \in DOMAIN last
    <3> DEFINE p == last[k]
    <3>1. p \in 1..Len(trace) /\ trace' = [trace EXCEPT ![p].nat = event_cnt]
      BY <1>1, <1>2, <1>5, <2>2
    <3>2. event_cnt \in Nat
      BY <1>2
    <3> HIDE DEF p
    <3>3. trace[p] \in Events /\ \A i \in 1..Len(trace) : trace[i] \in Events
      BY <1>2, <3>1
    <3>4. trace' = [trace EXCEPT ![p] = [trace[p] EXCEPT !.nat = event_cnt]]
      BY <3>1
    <3>5. /\ trace' \in Seq(Events) /\ Len(trace') = Len(trace)
          /\ trace'[p] = [trace[p] EXCEPT !.nat = event_cnt]
          /\ \A i \in 1..Len(trace) : i # p => trace'[i] = trace[i]
      BY <1>2, <3>1, <3>2, <3>3, <3>4, Renumbered
    <3>6. trace'[p].nat = event_cnt /\ Key(trace'[p]) = Key(trace[p])
      BY <3>2, <3>3, <3>5, Renumbered
    <3> HIDE DEF k
    <3>7. \A i \in 1..Len(trace) : Key(trace'[i]) = Key(trace[i])
      BY <3>5, <3>6
    <3>8. \A i \in 1..Len(trace) : trace'[i].nat = IF i = p THEN event_cnt ELSE trace[i].nat
      BY <3>5, <3>6
    <3> QED BY <2>2, <3>5, <3>7, <3>8 DEF p
  <2> QED BY <2>1, <2>2
<1> HIDE DEF k
<1>k. k = Key(trace[n])
  BY DEF k
<1> HIDE DEF n
<1>n. n = event_cnt + 1
  BY DEF n
<1>7. \A i \in (n + 1)..Len(trace) : trace'[i].nat = MaxNat
  <2> SUFFICES ASSUME NEW i \in (n + 1)..Len(trace) PROVE trace'[i].nat = MaxNat
    OBVIOUS
  <2>1. i \in (event_cnt + 1)..Len(trace) /\ i \in 1..Len(trace) /\ i \notin 1..event_cnt
    BY <1>2, <1>n
  <2> QED BY <1>5, <1>6, <2>1 DEF NumberInv, Numbered
<1>8. \A i \in 1..n : i \in 1..Len(trace) /\ (i \in 1..event_cnt \/ i = n)
  BY <1>2, <1>n
<1>9. \A i \in 1..n : Key(trace'[i]) \in DOMAIN last'
  <2> SUFFICES ASSUME NEW i \in 1..n PROVE Key(trace'[i]) \in DOMAIN last'
    OBVIOUS
  <2>1. Key(trace'[i]) = Key(trace[i])
    BY <1>6, <1>8
  <2>2. CASE i \in 1..event_cnt
    BY <1>4, <2>1, <2>2 DEF NumberInv, Numbered
  <2>3. CASE i = n
    BY <1>4, <2>1, <2>3, <1>k
  <2> QED BY <1>8, <2>2, <2>3
<1>10. ASSUME NEW y \in DOMAIN last'
       PROVE  /\ last'[y] \in 1..n
              /\ Key(trace'[last'[y]]) = y
              /\ trace'[last'[y]].nat = MaxNat
              /\ \A j \in (last'[y] + 1)..n : Key(trace'[j]) # y
  <2>1. CASE y = k
    <3>1. last'[y] = n
      BY <1>4, <2>1
    <3>2. trace'[n].nat = trace[n].nat /\ trace[n].nat = MaxNat
      <4>1. n \in (event_cnt + 1)..Len(trace) /\ n \notin 1..event_cnt
        BY <1>2, <1>n
      <4> QED BY <1>2, <1>5, <1>6, <4>1 DEF NumberInv, Numbered
    <3>3. (n + 1)..n = {}
      BY <1>2
    <3>4. Key(trace'[n]) = k /\ n \in 1..n
      BY <1>2, <1>6, <1>k
    <3> QED BY <2>1, <3>1, <3>2, <3>3, <3>4
  <2>2. CASE y # k
    <3> DEFINE p == last[y]
    <3>1. y \in DOMAIN last /\ last'[y] = p
      BY <1>4, <2>2
    <3>2. /\ p \in 1..event_cnt /\ Key(trace[p]) = y /\ trace[p].nat = MaxNat
          /\ \A j \in (p + 1)..event_cnt : Key(trace[j]) # y
      BY <3>1 DEF NumberInv, Numbered
    <3> HIDE DEF p
    <3>3. p \in 1..n /\ p \in 1..Len(trace)
      BY <1>2, <1>n, <3>2
    <3>4. k \in DOMAIN last => last[k] # p
      BY <1>5, <2>2, <3>2
    <3>5. Key(trace'[p]) = y /\ trace'[p].nat = MaxNat
      BY <1>6, <3>2, <3>3, <3>4
    <3>6. ASSUME NEW j \in (p + 1)..n PROVE Key(trace'[j]) # y
      <4>1. j \in 1..Len(trace) /\ (j \in (p + 1)..event_cnt \/ j = n)
        BY <1>2, <1>n, <3>3
      <4> QED BY <1>6, <2>2, <3>2, <4>1, <1>k
    <3> QED BY <3>1, <3>3, <3>5, <3>6
  <2> QED BY <2>1, <2>2
<1>11. ASSUME NEW i \in 1..n, i # last'[Key(trace'[i])]
       PROVE  /\ trace'[i].nat + 1 \in (i + 1)..n
              /\ Key(trace'[trace'[i].nat + 1]) = Key(trace'[i])
              /\ \A j \in (i + 1)..trace'[i].nat : Key(trace'[j]) # Key(trace'[i])
  <2>1. Key(trace'[i]) = Key(trace[i]) /\ i \in 1..Len(trace)
    BY <1>6, <1>8
  <2>2. i # n
    BY <1>4, <1>11, <2>1, <1>k
  <2>3. i \in 1..event_cnt
    BY <1>8, <2>2
  <2>4. Key(trace[i]) \in DOMAIN last
    BY <2>3 DEF NumberInv, Numbered
  <2>5. CASE k \in DOMAIN last /\ i = last[k]
    <3>1. Key(trace[i]) = k /\ trace'[i].nat = event_cnt
      BY <1>5, <1>6, <2>1, <2>5
    <3>2. \A j \in (i + 1)..event_cnt : Key(trace[j]) # k
      BY <2>5 DEF NumberInv, Numbered
    <3>3. Key(trace'[n]) = k /\ event_cnt + 1 = n /\ n \in (i + 1)..n
      BY <1>2, <1>6, <1>k, <1>n, <2>3
    <3>4. \A j \in (i + 1)..event_cnt : j \in 1..Len(trace)
      BY <1>2, <2>3
    <3> QED BY <1>6, <2>1, <3>1, <3>2, <3>3, <3>4
  <2>6. CASE ~(k \in DOMAIN last /\ i = last[k])
    <3> DEFINE m == trace[i].nat
    <3>1. trace'[i].nat = m /\ m \in Nat
      BY <1>2, <1>3, <1>6, <2>1, <2>6
    <3>2. i # last[Key(trace[i])]
      BY <1>4, <1>11, <2>1, <2>4, <2>6
    <3>3. /\ m + 1 \in (i + 1)..event_cnt
          /\ Key(trace[m + 1]) = Key(trace[i])
          /\ \A j \in (i + 1)..m : Key(trace[j]) # Key(trace[i])
      BY <2>3, <3>2 DEF NumberInv, Numbered
    <3> HIDE DEF m
    <3>4. m + 1 \in (i + 1)..n /\ m + 1 \in 1..Len(trace) /\ \A j \in (i + 1)..m : j \in 1..Len(trace)
      BY <1>2, <1>n, <2>3, <3>1, <3>3
    <3> QED BY <1>6, <2>1, <3>1, <3>3, <3>4
  <2> QED BY <2>5, <2>6
<1>12. n \in 0..Len(trace')
  BY <1>2, <1>6
<1> QED BY <1>1, <1>6, <1>7, <1>9, <1>10, <1>11, <1>12, <1>n DEF Numbered, Key

LEMMA NextNumberInv == NumberInv /\ [Next]_vars => NumberInv'
<1> SUFFICES ASSUME NumberInv, [Next]_vars PROVE Numbered'
  BY NextMergeInv DEF NumberInv
<1>1. MergeInv'
  BY NextMergeInv DEF NumberInv
<1>2. CASE pc' \in {"log", "lines", "order", "merge"}
  <2>1. (trace \in Seq(Fresh))' /\ (event_cnt = 0)' /\ (last = Nothing)'
    BY <1>1, <1>2 DEF MergeInv, MergeOK
  <2> QED BY <2>1, UnnumberedOK DEF Numbered, Key, Nothing, Fresh
<1>3. CASE NumberEvent
  BY <1>3, NumberEventOK
<1>4. CASE UNCHANGED <<trace, event_cnt, last>>
  BY <1>4 DEF NumberInv, Numbered, Key
<1>5. NumberEvent \/ UNCHANGED <<trace, event_cnt, last>> \/ pc' \in {"log", "lines", "order", "merge"}
  <2>1. CASE UNCHANGED vars
    BY <2>1 DEF vars, numbering
  <2>2. CASE \/ OpenLog \/ OpenFails \/ SkipLog \/ CloseLog \/ LogsRead
             \/ StartMerge \/ UnknownOrder \/ NextRound \/ EndMerge \/ SaveTrace
    BY <2>2 DEF OpenLog, OpenFails, SkipLog, CloseLog, LogsRead, StartMerge, UnknownOrder,
                NextRound, EndMerge, SaveTrace, numbering
  <2>3. ASSUME NEW l \in Lines, ReadLine(l)
        PROVE  UNCHANGED <<trace, event_cnt, last>>
    BY <2>3 DEF ReadLine, numbering
  <2>4. CASE MergeOrig \/ MergeRR
    BY <2>4 DEF MergeOrig, MergeRR
  <2>5. ASSUME NEW i \in DOMAIN did_v, MergeRand(i)
        PROVE  pc' = "merge"
    BY <2>5 DEF MergeRand
  <2> QED BY <2>1, <2>2, <2>3, <2>4, <2>5 DEF Next, ReadLogs, SaveIOVATrace
<1> QED BY <1>2, <1>3, <1>4, <1>5

\* The next access time of every event numbered is the place of the next event
\* of its page and tenant in the merged trace, and MaxNat if there is none:
\* for every content of the logs, order and length.
THEOREM NextAccessesRight == Spec => []NatRight
<1>1. Init => NumberInv
  <2> SUFFICES ASSUME Init PROVE Numbered
    BY InitMergeInv DEF NumberInv
  <2>1. trace \in Seq(Fresh) /\ event_cnt = 0 /\ last = Nothing
    BY DEF Init
  <2> QED BY <2>1, UnnumberedOK
<1>2. NumberInv => NatRight
  <2> SUFFICES ASSUME NumberInv, NEW i \in 1..event_cnt
               PROVE  LET next == {j \in (i + 1)..event_cnt : Traced[j] = Traced[i]}
                      IN  trace[i].nat = IF next = {} THEN MaxNat
                                         ELSE (CHOOSE j \in next : \A m \in next : j <= m) - 1
    BY DEF NatRight
  <2> DEFINE next == {j \in (i + 1)..event_cnt : Traced[j] = Traced[i]}
  <2>1. trace \in Seq(Events) /\ event_cnt \in 0..Len(trace)
    BY DEF NumberInv, Numbered
  <2>2. \A j \in 1..event_cnt : j \in DOMAIN trace
    BY <2>1
  <2>3. \A j \in 1..event_cnt : Traced[j] = Traced[i] <=> Key(trace[j]) = Key(trace[i])
    BY <2>2 DEF Traced, Key
  <2>4. \A j : j \in next <=> j \in (i + 1)..event_cnt /\ Key(trace[j]) = Key(trace[i])
    <3>1. \A j \in (i + 1)..event_cnt : j \in 1..event_cnt
      BY <2>1
    <3> QED BY <2>3, <3>1
  <2> HIDE DEF next
  <2>5. CASE i = last[Key(trace[i])]
    <3>1. /\ trace[i].nat = MaxNat
          /\ \A j \in (i + 1)..event_cnt : Key(trace[j]) # Key(trace[i])
      BY <2>5 DEF NumberInv, Numbered
    <3>2. next = {}
      BY <2>4, <3>1
    <3> QED BY <3>1, <3>2 DEF next
  <2>6. CASE i # last[Key(trace[i])]
    <3> DEFINE m == trace[i].nat
    <3>1. /\ m + 1 \in (i + 1)..event_cnt /\ Key(trace[m + 1]) = Key(trace[i])
          /\ \A j \in (i + 1)..m : Key(trace[j]) # Key(trace[i])
      BY <2>6 DEF NumberInv, Numbered
    <3>2. m \in Nat
      <4>1. trace[i] \in Events
        BY <2>1
      <4> QED BY <4>1 DEF Events
    <3> HIDE DEF m
    <3>3. m + 1 \in next /\ \A j \in next : m + 1 <= j
      <4>1. ASSUME NEW j \in next PROVE m + 1 <= j
        <5>1. j \in (i + 1)..event_cnt /\ j \notin (i + 1)..m
          BY <2>4, <3>1
        <5> QED BY <3>2, <5>1
      <4> QED BY <2>4, <3>1, <4>1
    <3>4. \A j \in next : j \in Nat
      BY <2>1, <2>4
    <3>5. ASSUME NEW x \in next, \A j \in next : x <= j PROVE x = m + 1
      BY <3>2, <3>3, <3>4, <3>5
    <3>6. (CHOOSE x \in next : \A j \in next : x <= j) = m + 1
      BY <3>3, <3>5
    <3>7. m = (CHOOSE x \in next : \A j \in next : x <= j) - 1
      <4> DEFINE c == CHOOSE x \in next : \A j \in next : x <= j
      <4>1. c = m + 1
        BY <3>6
      <4> HIDE DEF c
      <4>2. m = c - 1
        BY <3>2, <4>1
      <4> QED BY <4>2 DEF c
    <3>8. next # {}
      BY <3>3
    <3> QED BY <3>7, <3>8 DEF m, next
  <2> QED BY <2>5, <2>6
<1> QED BY <1>1, <1>2, NextNumberInv, PTL DEF Spec

-----------------------------------------------------------------------------
(* Counting places.                                                        *)

Places == SUBSET (Nat \ {0})

LEMMA RankFinite ==
    ASSUME NEW P, NEW n \in Nat
    PROVE  /\ IsFiniteSet(P \cap 1..n)
           /\ Cardinality(P \cap 1..n) \in Nat
<1>1. IsFiniteSet(1..n)
  BY FS_Interval
<1>2. P \cap 1..n \subseteq 1..n
  OBVIOUS
<1> QED BY <1>1, <1>2, FS_Subset, FS_CardinalityType

\* A later place of P has a greater rank.
LEMMA RankGrows ==
    ASSUME NEW P \in Places, NEW i \in P, NEW j \in P, i < j
    PROVE  Cardinality(P \cap 1..i) < Cardinality(P \cap 1..j)
<1> DEFINE A == P \cap 1..i
           B == P \cap 1..j
<1>1. i \in Nat /\ j \in Nat /\ j \in B /\ j \notin A /\ A \subseteq B \ {j}
  BY DEF Places
<1>2. IsFiniteSet(B) /\ Cardinality(B) \in Nat /\ Cardinality(A) \in Nat
  BY <1>1, RankFinite
<1> HIDE DEF A, B
<1>3. IsFiniteSet(B \ {j}) /\ Cardinality(B \ {j}) = Cardinality(B) - 1
  BY <1>1, <1>2, FS_RemoveElement
<1>4. Cardinality(A) <= Cardinality(B \ {j})
  BY <1>1, <1>3, FS_Subset
<1>5. Cardinality(A) < Cardinality(B)
  BY <1>2, <1>3, <1>4
<1> QED BY <1>5 DEF A, B

LEMMA NthIsOne ==
    ASSUME NEW P \in Places, NEW i, NEW j, NEW k, IsNth(i, P, k), IsNth(j, P, k)
    PROVE  i = j
<1>1. /\ i \in P /\ j \in P /\ i \in Nat /\ j \in Nat
      /\ Cardinality(P \cap 1..i) = Cardinality(P \cap 1..j)
  BY DEF IsNth, Places
<1>2. Cardinality(P \cap 1..i) \in Nat
  BY <1>1, RankFinite
<1>3. PICK c \in Nat : c = Cardinality(P \cap 1..i) /\ c = Cardinality(P \cap 1..j)
  BY <1>1, <1>2
<1>4. ~(i < j)
  <2>1. i < j => c < c
    BY <1>1, <1>3, RankGrows
  <2> QED BY <2>1
<1>5. ~(j < i)
  <2>1. j < i => c < c
    BY <1>1, <1>3, RankGrows
  <2> QED BY <2>1
<1> QED BY <1>1, <1>4, <1>5

LEMMA RankInRange ==
    ASSUME NEW n \in Nat, NEW P, P \subseteq 1..n, NEW i \in P
    PROVE  Cardinality(P \cap 1..i) \in 1..Cardinality(P)
<1>1. i \in 1..n /\ i \in P \cap 1..i /\ P \cap 1..n = P
  <2>1. i \in 1..n
    OBVIOUS
  <2>2. i \in 1..i
    BY <2>1
  <2> QED BY <2>1, <2>2
<1>2. IsFiniteSet(P) /\ Cardinality(P) \in Nat
  BY <1>1, RankFinite
<1>3. IsFiniteSet(P \cap 1..i) /\ Cardinality(P \cap 1..i) \in Nat
  BY <1>1, RankFinite
<1>4. Cardinality(P \cap 1..i) # 0
  BY <1>1, <1>3, FS_EmptySet
<1>5. Cardinality(P \cap 1..i) <= Cardinality(P)
  <2>1. P \cap 1..i \subseteq P
    OBVIOUS
  <2> QED BY <1>2, <2>1, FS_Subset
<1> QED BY <1>2, <1>3, <1>4, <1>5

\* What comes behind a place does not change its rank.
LEMMA NthStays ==
    ASSUME NEW n \in Nat, NEW P, NEW Q, P \subseteq 1..n, Q \cap 1..n = P,
           NEW j, NEW k, IsNth(j, P, k)
    PROVE  IsNth(j, Q, k)
<1>1. j \in P /\ j \in 1..n /\ j \in Q
  BY DEF IsNth
<1>2. P \cap 1..j = Q \cap 1..j
  BY <1>1
<1> QED BY <1>1, <1>2 DEF IsNth

\* The places that are added behind all others.
LEMMA NthAdded ==
    ASSUME NEW n \in Nat, NEW m \in Nat, NEW P, P \subseteq 1..n,
           NEW x \in 1..m
    PROVE  IsNth(n + x, P \cup (n + 1)..(n + m), Cardinality(P) + x)
<1> DEFINE Q == P \cup (n + 1)..(n + m)
           N == (n + 1)..(n + x)
<1>1. n + x \in Q /\ Q \cap 1..(n + x) = P \cup N /\ P \cap N = {}
  <2>1. \A y : y \in N <=> y \in (n + 1)..(n + m) /\ y \in 1..(n + x)
    OBVIOUS
  <2>2. \A y \in P : y \in 1..n /\ y \in 1..(n + x) /\ y \notin N
    OBVIOUS
  <2>3. n + x \in (n + 1)..(n + m)
    OBVIOUS
  <2> HIDE DEF N
  <2> QED BY <2>1, <2>2, <2>3
<1>2. IsFiniteSet(N) /\ Cardinality(N) = x
  <2>1. n + 1 \in Int /\ n + x \in Int /\ n + 1 <= n + x /\ (n + x) - (n + 1) + 1 = x
    OBVIOUS
  <2>2. \A a, b \in Int : IsFiniteSet(a..b) /\ Cardinality(a..b) = IF a > b THEN 0 ELSE b - a + 1
    BY FS_Interval
  <2>3. ~(n + 1 > n + x)
    OBVIOUS
  <2> QED BY <2>1, <2>2, <2>3
<1>3. IsFiniteSet(P) /\ Cardinality(P) \in Nat
  <2>1. P \cap 1..n = P
    OBVIOUS
  <2> QED BY <2>1, RankFinite
<1> HIDE DEF N, Q
<1>4. Cardinality(P \cup N) = Cardinality(P) + Cardinality(N) - Cardinality(P \cap N)
  BY <1>2, <1>3, FS_Union
<1>5. Cardinality(P \cap N) = 0
  BY <1>1, FS_EmptySet
<1>6. Cardinality(P \cup N) = Cardinality(P) + x
  BY <1>2, <1>3, <1>4, <1>5
<1> QED BY <1>1, <1>6 DEF IsNth, Q

\* All of P is counted at its end.
LEMMA AddedCount ==
    ASSUME NEW n \in Nat, NEW m \in Nat, NEW P, P \subseteq 1..n
    PROVE  /\ P \cup (n + 1)..(n + m) \subseteq 1..(n + m)
           /\ Cardinality(P \cup (n + 1)..(n + m)) = Cardinality(P) + m
<1>1. P \cap 1..n = P
  OBVIOUS
<1>2. Cardinality(P) \in Nat
  BY <1>1, RankFinite
<1>3. P \cup (n + 1)..(n + m) \subseteq 1..(n + m)
  OBVIOUS
<1>4. CASE m = 0
  <2>1. P \cup (n + 1)..(n + m) = P
    BY <1>4
  <2> QED BY <1>2, <1>3, <1>4, <2>1
<1>5. CASE m # 0
  <2>1. m \in 1..m
    BY <1>5
  <2>2. IsNth(n + m, P \cup (n + 1)..(n + m), Cardinality(P) + m)
    BY <2>1, NthAdded
  <2>3. (P \cup (n + 1)..(n + m)) \cap 1..(n + m) = P \cup (n + 1)..(n + m)
    BY <1>3
  <2> QED BY <1>3, <2>2, <2>3 DEF IsNth
<1> QED BY <1>4, <1>5

-----------------------------------------------------------------------------
(* What the streams hold of the logs.                                      *)

\* The mentions of d among the first n of the logs' order.
Mentions(d, n) == {m \in 1..n : did_log[m] = d}

\* The k-th event of a stream is the k-th translation logged of its tenant.
StreamAt(d, k) ==
    /\ streams[d][k].did = d
    /\ \E j : IsNth(j, Logged(d), k) /\ read[j].line.page = streams[d][k].page

\* The n-th mention of a tenant is the n-th translation logged.
MentionAt(n) ==
    \E j : /\ IsNth(j, Translations, n)
           /\ IsNth(j, Logged(did_log[n]), Cardinality(Mentions(did_log[n], n)))

Recorded ==
    /\ Len(did_log) = Cardinality(Translations)
    /\ \A n \in 1..Len(did_log) : MentionAt(n)
    /\ \A d \in DOMAIN streams :
           /\ Len(streams[d]) = Cardinality(Logged(d))
           /\ \A k \in 1..Len(streams[d]) : StreamAt(d, k)
    /\ \A d : d \notin DOMAIN streams => Logged(d) = {}

RecordInv == StreamInv /\ Recorded

LEMMA ReadGrows ==
    ASSUME ReadInv, NEW l \in Lines, ReadLine(l), NEW m, m = Len(read)
    PROVE  /\ m \in Nat /\ Translations \subseteq 1..m
           /\ \A j \in 1..m : read'[j] = read[j]
           /\ read'[m + 1].line = l
           /\ Translations' = Translations \cup IF l.type = "translate" THEN {m + 1} ELSE {}
           /\ \A d : Logged(d)' = Logged(d) \cup
                         IF l.type = "translate" /\ Did(l) = d THEN {m + 1} ELSE {}
<1> DEFINE r == [line |-> l, log |-> log_cnt, did |-> Did(l)]
<1>1. read' = Append(read, r) /\ read \in Seq(Records)
  BY DEF ReadLine, ReadInv, ReadOK
<1>2. r.line = l /\ r.did = Did(l)
  OBVIOUS
<1> HIDE DEF r
<1>3. /\ m \in Nat /\ Len(read') = m + 1 /\ read'[m + 1] = r
      /\ \A j \in 1..m : read'[j] = read[j]
      /\ DOMAIN read = 1..m /\ DOMAIN read' = 1..(m + 1)
  BY <1>1
<1>4. \A j : j \in 1..(m + 1) <=> j \in 1..m \/ j = m + 1
  BY <1>3
<1>5. Translations' = Translations \cup IF l.type = "translate" THEN {m + 1} ELSE {}
  BY <1>2, <1>3, <1>4 DEF Translations
<1>6. m + 1 \notin 1..m
  BY <1>3
<1>7. ASSUME NEW d
      PROVE  Logged(d)' = Logged(d) \cup
                 IF l.type = "translate" /\ Did(l) = d THEN {m + 1} ELSE {}
  <2>1. \A j : j \in Logged(d)' <=> j \in 1..(m + 1) /\ read'[j].line.type = "translate"
                                    /\ read'[j].did = d
    BY <1>3 DEF Logged, Translations
  <2>2. \A j : j \in Logged(d) <=> j \in 1..m /\ read[j].line.type = "translate"
                                   /\ read[j].did = d
    BY <1>3 DEF Logged, Translations
  <2> QED BY <1>2, <1>3, <1>4, <1>6, <2>1, <2>2
<1> QED BY <1>2, <1>3, <1>5, <1>7 DEF Translations

LEMMA RecordsStay ==
    ASSUME Recorded, UNCHANGED <<streams, did_log>>, Translations' = Translations,
           \A d : Logged(d)' = Logged(d), \A j \in Translations : read'[j] = read[j]
    PROVE  Recorded'
<1>1. \A d : Logged(d) \subseteq Translations
  BY DEF Logged
<1>2. \A d, n : Mentions(d, n)' = Mentions(d, n)
  BY DEF Mentions
<1>3. ASSUME NEW n, MentionAt(n) PROVE MentionAt(n)'
  BY <1>2, <1>3 DEF MentionAt, IsNth
<1>4. ASSUME NEW d, NEW k, StreamAt(d, k) PROVE StreamAt(d, k)'
  BY <1>1, <1>4 DEF StreamAt, IsNth
<1> QED BY <1>3, <1>4 DEF Recorded

LEMMA TranslationRecorded ==
    ASSUME RecordInv, StreamInv', NEW l \in Lines, ReadLine(l), l.type = "translate"
    PROVE  Recorded'
<1>1. PICK d, m, n : d = Did(l) /\ m = Len(read) /\ n = Len(did_log)
  OBVIOUS
<1>2. /\ m \in Nat /\ Translations \subseteq 1..m
      /\ \A j \in 1..m : read'[j] = read[j]
      /\ read'[m + 1].line = l
      /\ Translations' = Translations \cup {m + 1}
      /\ Logged(d)' = Logged(d) \cup {m + 1}
      /\ \A c : c # d => Logged(c)' = Logged(c)
  <2>1. ReadInv
    BY DEF RecordInv, StreamInv
  <2>2. /\ m \in Nat /\ Translations \subseteq 1..m
        /\ \A j \in 1..m : read'[j] = read[j]
        /\ read'[m + 1].line = l
        /\ Translations' = Translations \cup IF l.type = "translate" THEN {m + 1} ELSE {}
    BY <1>1, <2>1, ReadGrows
  <2>3. \A c : Logged(c)' = Logged(c) \cup
                   IF l.type = "translate" /\ Did(l) = c THEN {m + 1} ELSE {}
    BY <1>1, <2>1, ReadGrows
  <2>4. \A c : c # d => Logged(c)' = Logged(c)
    BY <1>1, <2>3
  <2>5. Logged(d)' = Logged(d) \cup {m + 1}
    BY <1>1, <2>3
  <2> QED BY <2>2, <2>4, <2>5
<1>3. \A c : Logged(c) \subseteq Translations
  BY DEF Logged
\* Only the stream of the tenant and the logs' order grow, by one.
<1> DEFINE e == [sid |-> AdjustedSid(l, log_cnt), did |-> d, page |-> l.page, nat |-> MaxNat]
           old == IF d \in DOMAIN streams THEN streams[d] ELSE <<>>
<1>4. streams' = Put(streams, d, Append(old, e)) /\ did_log' = Append(did_log, d)
  BY <1>1 DEF ReadLine, PushTranslation
<1>5. e.did = d /\ e.page = l.page
  OBVIOUS
<1>6. /\ DOMAIN streams' = DOMAIN streams \cup {d}
      /\ streams'[d] = Append(old, e)
      /\ \A c \in DOMAIN streams : c # d => streams'[c] = streams[c]
  BY <1>4 DEF Put
<1>7. old \in Seq(Fresh) /\ Len(old) = Cardinality(Logged(d)) /\ Len(old) \in Nat
  <2>1. CASE d \in DOMAIN streams
    BY <2>1 DEF RecordInv, StreamInv, StreamsOK, Recorded
  <2>2. CASE d \notin DOMAIN streams
    <3>1. old = <<>> /\ Logged(d) = {}
      BY <2>2 DEF RecordInv, Recorded
    <3>2. Cardinality(Logged(d)) = 0
      BY <3>1, FS_EmptySet
    <3>3. <<>> \in Seq(Fresh) /\ Len(<<>>) = 0
      OBVIOUS
    <3> HIDE DEF old
    <3> QED BY <3>1, <3>2, <3>3
  <2> QED BY <2>1, <2>2
<1> HIDE DEF e, old
<1>8. /\ Len(Append(old, e)) = Len(old) + 1
      /\ Append(old, e)[Len(old) + 1] = e
      /\ \A k \in 1..Len(old) : Append(old, e)[k] = old[k]
  BY <1>7
<1>9. /\ n \in Nat /\ Len(did_log') = n + 1 /\ did_log'[n + 1] = d
      /\ \A i \in 1..n : did_log'[i] = did_log[i]
  BY <1>1, <1>4 DEF RecordInv, StreamInv, StreamsOK
\* The new place is the last of its kind.
<1>10. /\ IsNth(m + 1, Translations', Cardinality(Translations) + 1)
       /\ Cardinality(Translations') = Cardinality(Translations) + 1
       /\ IsNth(m + 1, Logged(d)', Len(old) + 1)
       /\ Cardinality(Logged(d)') = Len(old) + 1
  <2>1. (m + 1)..(m + 1) = {m + 1} /\ 1 \in 1..1
    BY <1>2
  <2>2. ASSUME NEW P, P \subseteq 1..m
        PROVE  /\ IsNth(m + 1, P \cup {m + 1}, Cardinality(P) + 1)
               /\ Cardinality(P \cup {m + 1}) = Cardinality(P) + 1
    <3>1. IsNth(m + 1, P \cup (m + 1)..(m + 1), Cardinality(P) + 1)
      BY <1>2, <2>1, <2>2, NthAdded
    <3>2. Cardinality(P \cup (m + 1)..(m + 1)) = Cardinality(P) + 1
      BY <1>2, <2>2, AddedCount
    <3> QED BY <2>1, <3>1, <3>2
  <2>3. Logged(d) \subseteq 1..m
    BY <1>2, <1>3
  <2> QED BY <1>2, <1>7, <2>2, <2>3
\* What was recorded stays recorded.
<1>11. ASSUME NEW P, NEW Q, P \subseteq 1..m, Q = P \/ Q = P \cup {m + 1},
              NEW j, NEW k, IsNth(j, P, k)
       PROVE  IsNth(j, Q, k)
  <2>1. Q \cap 1..m = P
    <3>1. m + 1 \notin 1..m
      BY <1>2
    <3> QED BY <1>11, <3>1
  <2> QED BY <1>2, <1>11, <2>1, NthStays
<1>12. \A c : Logged(c) \subseteq 1..m /\ (Logged(c)' = Logged(c) \/ Logged(c)' = Logged(c) \cup {m + 1})
  BY <1>2, <1>3
<1>13. ASSUME NEW i \in 1..(n + 1) PROVE MentionAt(i)'
  <2>1. CASE i = n + 1
    <3>1. n + 1 = Cardinality(Translations) + 1
      BY <1>1 DEF RecordInv, Recorded
    <3>2. Mentions(d, n + 1)' = Ahead(did_log', d, 0)
      BY <1>9 DEF Mentions, Ahead
    <3>3. Cardinality(Ahead(did_log', d, 0)) = Len(old) + 1
      <4>1. Len(streams'[d]) = Cardinality(Ahead(did_log', d, 0))
        BY <1>6 DEF StreamInv, StreamsOK, Ahead
      <4> QED BY <1>6, <1>8, <4>1
    <3> QED BY <1>9, <1>10, <2>1, <3>1, <3>2, <3>3 DEF MentionAt
  <2>2. CASE i # n + 1
    <3>1. i \in 1..n
      BY <1>9, <2>2
    <3>2. MentionAt(i)
      BY <1>1, <3>1 DEF RecordInv, Recorded
    <3>3. did_log'[i] = did_log[i] /\ \A c : Mentions(c, i)' = Mentions(c, i)
      <4>1. \A x \in 1..i : did_log'[x] = did_log[x]
        BY <1>9, <3>1
      <4> QED BY <1>9, <3>1, <4>1 DEF Mentions
    <3>4. PICK j : /\ IsNth(j, Translations, i)
                   /\ IsNth(j, Logged(did_log[i]), Cardinality(Mentions(did_log[i], i)))
      BY <3>2 DEF MentionAt
    <3>5. IsNth(j, Translations', i)
      BY <1>2, <1>11, <3>4
    <3>6. PICK c : c = did_log[i]
      OBVIOUS
    <3>7. IsNth(j, Logged(c)', Cardinality(Mentions(c, i)))
      BY <1>11, <1>12, <3>4, <3>6
    <3>8. c = did_log'[i] /\ Mentions(c, i)' = Mentions(c, i)
      BY <3>3, <3>6
    <3> QED BY <3>5, <3>7, <3>8 DEF MentionAt
  <2> QED BY <2>1, <2>2
<1>14. ASSUME NEW c, NEW k, StreamAt(c, k), streams'[c][k] = streams[c][k]
       PROVE  StreamAt(c, k)'
  <2>1. PICK j : IsNth(j, Logged(c), k) /\ read[j].line.page = streams[c][k].page
    BY <1>14 DEF StreamAt
  <2>2. IsNth(j, Logged(c)', k)
    BY <1>11, <1>12, <2>1
  <2>3. read'[j] = read[j]
    BY <1>2, <1>12, <2>1 DEF IsNth
  <2> QED BY <1>14, <2>1, <2>2, <2>3 DEF StreamAt
<1>15. ASSUME NEW c \in DOMAIN streams'
       PROVE  /\ Len(streams'[c]) = Cardinality(Logged(c)')
              /\ \A k \in 1..Len(streams'[c]) : StreamAt(c, k)'
  <2>1. CASE c # d
    <3>1. c \in DOMAIN streams /\ streams'[c] = streams[c] /\ Logged(c)' = Logged(c)
      BY <1>2, <1>6, <2>1
    <3> QED BY <1>14, <3>1 DEF RecordInv, Recorded
  <2>2. CASE c = d
    <3>1. Len(streams'[c]) = Cardinality(Logged(c)')
      BY <1>6, <1>8, <1>10, <2>2
    <3>2. ASSUME NEW k \in 1..Len(streams'[c]) PROVE StreamAt(c, k)'
      <4>1. CASE k = Len(old) + 1
        <5>1. streams'[d][k] = e
          BY <1>6, <1>8, <4>1
        <5> QED BY <1>2, <1>5, <1>10, <2>2, <4>1, <5>1 DEF StreamAt
      <4>2. CASE k # Len(old) + 1
        <5>1. k \in 1..Len(old)
          BY <1>6, <1>7, <1>8, <2>2, <4>2
        <5>2. d \in DOMAIN streams /\ old = streams[d]
          <6>1. Len(<<>>) = 0
            OBVIOUS
          <6> QED BY <5>1, <6>1 DEF old
        <5>3. StreamAt(c, k)
          BY <2>2, <5>1, <5>2 DEF RecordInv, Recorded
        <5>4. streams'[c][k] = streams[c][k]
          BY <1>6, <1>8, <2>2, <5>1, <5>2
        <5> QED BY <1>14, <5>3, <5>4
      <4> QED BY <4>1, <4>2
    <3> QED BY <3>1, <3>2
  <2> QED BY <2>1, <2>2
<1>16. ASSUME NEW c, c \notin DOMAIN streams' PROVE Logged(c)' = {}
  <2>1. c # d /\ c \notin DOMAIN streams
    BY <1>6, <1>16
  <2> QED BY <1>2, <2>1 DEF RecordInv, Recorded
<1>17. Len(did_log') = Cardinality(Translations')
  BY <1>1, <1>9, <1>10 DEF RecordInv, Recorded
<1> QED BY <1>9, <1>13, <1>15, <1>16, <1>17 DEF Recorded

LEMMA InitRecordInv == Init => RecordInv
<1> SUFFICES ASSUME Init PROVE Recorded
  BY InitStreamInv DEF RecordInv
<1>1. did_log = <<>> /\ DOMAIN streams = {} /\ read = <<>>
  BY DEF Init, Nothing
<1>2. Translations = {} /\ \A d : Logged(d) = {}
  BY <1>1 DEF Translations, Logged
<1> QED BY <1>1, <1>2, FS_EmptySet DEF Recorded

LEMMA NextRecordInv == RecordInv /\ [Next]_vars => RecordInv'
<1> SUFFICES ASSUME RecordInv, [Next]_vars PROVE Recorded'
  BY NextStreamInv DEF RecordInv
<1>0. ReadInv /\ StreamInv' /\ Recorded
  BY NextStreamInv DEF RecordInv, StreamInv
<1>1. ASSUME UNCHANGED <<streams, did_log, read>>
      PROVE  Recorded'
  <2>1. Translations' = Translations /\ \A d : Logged(d)' = Logged(d)
    BY <1>1 DEF Translations, Logged
  <2> QED BY <1>0, <1>1, <2>1, RecordsStay
<1>2. CASE KeepsLogs \/ OpenLog \/ OpenFails \/ SkipLog \/ CloseLog
  BY <1>1, <1>2 DEF KeepsLogs, OpenLog, OpenFails, SkipLog, CloseLog, tenants
<1>3. ASSUME NEW l \in Lines, ReadLine(l), l.type # "translate"
      PROVE  Recorded'
  <2>1. UNCHANGED <<streams, did_log>>
    BY <1>3, LineType DEF ReadLine, PushContext, PushSlpte
  <2>2. PICK m : m = Len(read)
    OBVIOUS
  <2>3. /\ Translations' = Translations /\ \A d : Logged(d)' = Logged(d)
        /\ \A j \in Translations : read'[j] = read[j]
    <3>1. /\ m \in Nat /\ Translations \subseteq 1..m
          /\ \A j \in 1..m : read'[j] = read[j]
          /\ Translations' = Translations \cup IF l.type = "translate" THEN {m + 1} ELSE {}
      BY <1>0, <1>3, <2>2, ReadGrows
    <3>2. \A d : Logged(d)' = Logged(d) \cup
                     IF l.type = "translate" /\ Did(l) = d THEN {m + 1} ELSE {}
      BY <1>0, <1>3, <2>2, ReadGrows
    <3>3. \A d : Logged(d)' = Logged(d)
      BY <1>3, <3>2
    <3> QED BY <1>3, <3>1, <3>3
  <2> QED BY <1>0, <2>1, <2>3, RecordsStay
<1>4. ASSUME NEW l \in Lines, ReadLine(l)
      PROVE  Recorded'
  BY <1>0, <1>3, <1>4, TranslationRecorded
<1> QED BY <1>2, <1>4, StepKinds

-----------------------------------------------------------------------------
(* The trace keeps the streams: the events taken of a tenant are the first  *)
(* of its stream, in order.                                                 *)

\* The k-th event of d in the trace is the k-th of its stream.
WrittenAt(d, k) ==
    \E i : IsNth(i, Merged(d), k) /\ trace[i].page = streams[d][k].page

Written ==
    /\ \A i \in DOMAIN trace : trace[i].did \in DOMAIN streams
    /\ \A d \in DOMAIN streams :
           /\ Cardinality(Merged(d)) = did_it[d]
           /\ \A k \in 1..did_it[d] : WrittenAt(d, k)

\* With "orig", the trace is the logs' order so far; with "rand", a tenant is
\* erased only when nothing of it is left.
Placed ==
    /\ order = "orig" => \A i \in DOMAIN trace : trace[i].did = did_log[i]
    /\ order = "rand" => \A d \in DOMAIN streams :
           did_it[d] = Len(streams[d]) \/ \E p \in 1..Len(did_v) : did_v[p] = d

LEMMA MergedPlaces ==
    ASSUME NEW n \in Nat, n = Len(trace)
    PROVE  \A d : Merged(d) \subseteq 1..n /\ Merged(d) \in Places
<1>1. DOMAIN trace = 1..n
  BY DEF Merged
<1> QED BY <1>1 DEF Merged, Places

LEMMA LoggedPlaces ==
    ASSUME RecordInv
    PROVE  \A d : /\ Logged(d) \in Places
                  /\ \E n \in Nat : Logged(d) \subseteq 1..n
<1>1. PICK n : n = Len(read)
  OBVIOUS
<1>2. read \in Seq(Records)
  BY DEF RecordInv, StreamInv, ReadInv, ReadOK
<1>3. n \in Nat /\ DOMAIN read = 1..n
  BY <1>1, <1>2
<1>4. \A d : Logged(d) \subseteq 1..n
  BY <1>3 DEF Logged, Translations
<1> QED BY <1>3, <1>4 DEF Places

\* A burst of a tenant's stream goes behind the trace.
LEMMA BurstWritten ==
    ASSUME RecordInv, pc = "merge", MergeOK, Written, UNCHANGED streams,
           NEW d \in DOMAIN streams, NEW n \in Nat, did_it[d] + n <= Len(streams[d]),
           Take(d, n)
    PROVE  /\ Written'
           /\ Len(trace') = Len(trace) + n
           /\ \A i \in 1..Len(trace) : trace'[i] = trace[i]
           /\ \A x \in 1..n : trace'[Len(trace) + x].did = d
<1>1. PICK m, a : m = Len(trace) /\ a = did_it[d]
  OBVIOUS
<1>2. /\ trace \in Seq(Fresh) /\ did_it \in [DOMAIN streams -> Nat]
      /\ m \in Nat /\ a \in Nat /\ a + n <= Len(streams[d])
      /\ streams[d] \in Seq(Fresh)
  BY <1>1 DEF MergeOK, Merging, RecordInv, StreamInv, StreamsOK
<1>3. /\ trace' \in Seq(Fresh) /\ Len(trace') = m + n
      /\ did_it'[d] = a + n
      /\ \A c \in DOMAIN streams : c # d => did_it'[c] = did_it[c]
  BY <1>1, <1>2, Taken DEF RecordInv
<1>4. /\ \A i \in 1..m : trace'[i] = trace[i]
      /\ \A x \in 1..n : trace'[m + x] = streams[d][a + x]
  <2> DEFINE s == streams[d]
             t == SubSeq(s, a + 1, a + n)
  <2>1. trace' = trace \o t
    BY <1>1 DEF Take
  <2> HIDE DEF s
  <2>2. s \in Seq(Fresh) /\ a + n <= Len(s)
    BY <1>2 DEF s
  <2>3. t \in Seq(Fresh) /\ Len(t) = n
    BY <1>2, <2>2, Piece
  <2>4. \A x \in 1..n : t[x] = s[a + x]
    BY <1>2, <2>2
  <2> HIDE DEF t
  <2>5. \A i \in 1..m : trace'[i] = trace[i]
    BY <1>1, <1>2, <2>1, <2>3
  <2>6. \A x \in 1..n : trace'[m + x] = t[x]
    BY <1>1, <1>2, <2>1, <2>3
  <2> QED BY <2>4, <2>5, <2>6 DEF s
\* All of the burst is of the tenant.
<1>5. \A k \in 1..Len(streams[d]) : streams[d][k].did = d
  BY DEF RecordInv, Recorded, StreamAt
<1>6. \A x \in 1..n : trace'[m + x].did = d
  <2>1. \A x \in 1..n : a + x \in 1..Len(streams[d])
    BY <1>2
  <2> QED BY <1>4, <1>5, <2>1
<1>7. /\ DOMAIN trace = 1..m /\ DOMAIN trace' = 1..(m + n)
      /\ \A i : i \in 1..(m + n) <=> i \in 1..m \/ i \in (m + 1)..(m + n)
      /\ \A i \in (m + 1)..(m + n) : trace'[i].did = d
  <2>1. DOMAIN trace = 1..m /\ DOMAIN trace' = 1..(m + n)
    BY <1>1, <1>2, <1>3
  <2>2. \A i : i \in 1..(m + n) <=> i \in 1..m \/ i \in (m + 1)..(m + n)
    BY <1>2
  <2>3. ASSUME NEW i \in (m + 1)..(m + n) PROVE trace'[i].did = d
    <3>1. i - m \in 1..n /\ m + (i - m) = i
      BY <1>2
    <3> QED BY <1>6, <3>1
  <2> QED BY <2>1, <2>2, <2>3
<1>8. ASSUME NEW c
      PROVE  /\ c # d => Merged(c)' = Merged(c)
             /\ c = d => Merged(c)' = Merged(c) \cup (m + 1)..(m + n)
  <2>1. \A i : i \in Merged(c) <=> i \in 1..m /\ trace[i].did = c
    BY <1>7 DEF Merged
  <2>2. \A i : i \in Merged(c)' <=> i \in 1..(m + n) /\ trace'[i].did = c
    BY <1>7 DEF Merged
  <2>4. c # d => \A i : i \in Merged(c)' <=> i \in Merged(c)
    BY <1>4, <1>7, <2>1, <2>2
  <2>5. c = d => \A i : i \in Merged(c)' <=> i \in Merged(c) \/ i \in (m + 1)..(m + n)
    BY <1>4, <1>7, <2>1, <2>2
  <2>6. Merged(c)' \subseteq 1..(m + n) /\ Merged(c) \subseteq 1..m
    BY <2>1, <2>2
  <2> QED BY <2>4, <2>5, <2>6
<1>9. \A c : Merged(c) \subseteq 1..m
  BY <1>7 DEF Merged
<1>10. ASSUME NEW c, NEW i, NEW k, IsNth(i, Merged(c), k)
       PROVE  IsNth(i, Merged(c)', k) /\ trace'[i] = trace[i]
  <2>1. Merged(c)' \cap 1..m = Merged(c)
    <3>1. \A y \in (m + 1)..(m + n) : y \notin 1..m
      BY <1>2
    <3> QED BY <1>8, <1>9, <3>1
  <2>2. i \in 1..m
    BY <1>9, <1>10 DEF IsNth
  <2> QED BY <1>2, <1>4, <1>9, <1>10, <2>1, <2>2, NthStays
<1>11. ASSUME NEW c \in DOMAIN streams, NEW k, WrittenAt(c, k) PROVE WrittenAt(c, k)'
  <2>1. PICK i : IsNth(i, Merged(c), k) /\ trace[i].page = streams[c][k].page
    BY <1>11 DEF WrittenAt
  <2>2. IsNth(i, Merged(c)', k) /\ trace'[i] = trace[i]
    BY <1>10, <2>1
  <2> QED BY <2>1, <2>2 DEF WrittenAt
<1>12. ASSUME NEW x \in 1..n PROVE WrittenAt(d, a + x)'
  <2>1. Cardinality(Merged(d)) = a
    BY <1>1 DEF Written
  <2>2. IsNth(m + x, Merged(d) \cup (m + 1)..(m + n), a + x)
    BY <1>2, <1>9, <2>1, NthAdded
  <2>3. IsNth(m + x, Merged(d)', a + x)
    BY <1>8, <2>2
  <2> QED BY <1>4, <2>3 DEF WrittenAt
<1>13. ASSUME NEW c \in DOMAIN streams
       PROVE  /\ Cardinality(Merged(c)') = did_it'[c]
              /\ \A k \in 1..did_it'[c] : WrittenAt(c, k)'
  <2>1. Cardinality(Merged(c)) = did_it[c] /\ \A k \in 1..did_it[c] : WrittenAt(c, k)
    BY DEF Written
  <2>2. CASE c # d
    BY <1>3, <1>8, <1>11, <2>1, <2>2
  <2>3. CASE c = d
    <3>1. Cardinality(Merged(d) \cup (m + 1)..(m + n)) = a + n
      <4>1. Merged(d) \subseteq 1..m /\ Cardinality(Merged(d)) = a
        BY <1>1, <1>9, <2>1, <2>3
      <4> QED BY <1>2, <4>1, AddedCount
    <3>2. ASSUME NEW k \in 1..(a + n) PROVE WrittenAt(d, k)'
      <4>1. CASE k <= a
        <5>1. k \in 1..a
          BY <1>2, <4>1
        <5> QED BY <1>1, <1>11, <2>1, <2>3, <5>1
      <4>2. CASE k > a
        <5>1. k - a \in 1..n /\ a + (k - a) = k
          BY <1>2, <4>2
        <5> QED BY <1>12, <5>1
      <4> QED BY <1>2, <4>1, <4>2
    <3> QED BY <1>3, <1>8, <2>3, <3>1, <3>2
  <2> QED BY <2>2, <2>3
<1>14. \A i \in DOMAIN trace' : trace'[i].did \in DOMAIN streams
  <2>1. \A i \in 1..m : trace[i].did \in DOMAIN streams
    BY <1>7 DEF Written
  <2> QED BY <1>4, <1>7, <2>1
<1>15. Written'
  BY <1>13, <1>14 DEF Written
<1> QED BY <1>1, <1>3, <1>4, <1>6, <1>15

\* What is written of the streams follows what was logged.
LEMMA WrittenFollows ==
    ASSUME RecordInv, MergeOK, pc = "merge", Written
    PROVE  \A d : Follows(Merged(d), Logged(d))
<1> SUFFICES ASSUME NEW d, NEW i \in Merged(d)
             PROVE  \E j \in Logged(d) :
                        /\ IsNth(j, Logged(d), Cardinality(Merged(d) \cap 1..i))
                        /\ trace[i].did = read[j].did /\ trace[i].page = read[j].line.page
  BY DEF Follows
<1>1. PICK m, k : m = Len(trace) /\ k = Cardinality(Merged(d) \cap 1..i)
  OBVIOUS
<1>2. /\ m \in Nat /\ DOMAIN trace = 1..m /\ i \in 1..m
      /\ Merged(d) \in Places /\ Merged(d) \subseteq 1..m /\ trace[i].did = d
  <2>1. trace \in Seq(Fresh)
    BY DEF MergeOK
  <2>2. m \in Nat /\ DOMAIN trace = 1..m
    BY <1>1, <2>1
  <2> QED BY <1>1, <2>2, MergedPlaces DEF Merged
<1>3. /\ d \in DOMAIN streams /\ did_it[d] \in Nat
      /\ did_it[d] <= Len(streams[d]) /\ Len(streams[d]) \in Nat
  BY <1>2 DEF Written, MergeOK, Merging, RecordInv, StreamInv, StreamsOK
<1>4. k \in 1..did_it[d]
  <2>1. k \in 1..Cardinality(Merged(d))
    BY <1>1, <1>2, RankInRange
  <2> QED BY <1>3, <2>1 DEF Written
<1>5. PICK x : IsNth(x, Merged(d), k) /\ trace[x].page = streams[d][k].page
  BY <1>3, <1>4 DEF Written, WrittenAt
<1>6. x = i
  <2>1. IsNth(i, Merged(d), k)
    BY <1>1 DEF IsNth
  <2> QED BY <1>2, <1>5, <2>1, NthIsOne
<1>7. k \in 1..Len(streams[d])
  BY <1>3, <1>4
<1>8. PICK j : IsNth(j, Logged(d), k) /\ read[j].line.page = streams[d][k].page
  BY <1>3, <1>7 DEF RecordInv, Recorded, StreamAt
<1>9. j \in Logged(d) /\ read[j].did = d
  BY <1>8 DEF IsNth, Logged
<1> QED BY <1>1, <1>2, <1>5, <1>6, <1>8, <1>9

\* With "orig", the places of a tenant in the trace are its mentions in the
\* logs' order.
LEMMA OrigFollows ==
    ASSUME RecordInv, MergeOK, pc = "merge", order = "orig", Written, Placed
    PROVE  Follows(DOMAIN trace, Translations)
<1> SUFFICES ASSUME NEW i \in DOMAIN trace
             PROVE  \E j \in Translations :
                        /\ IsNth(j, Translations, Cardinality(DOMAIN trace \cap 1..i))
                        /\ trace[i].did = read[j].did /\ trace[i].page = read[j].line.page
  BY DEF Follows
<1>1. PICK m, n, d : m = Len(trace) /\ n = Len(did_log) /\ d = did_log[i]
  OBVIOUS
<1>2. m \in Nat /\ n \in Nat /\ m <= n /\ DOMAIN trace = 1..m /\ i \in 1..m /\ i \in 1..n
  <2>1. trace \in Seq(Fresh) /\ m <= n /\ did_log \in Seq(Nat)
    BY <1>1 DEF MergeOK, Merging, RecordInv, StreamInv, StreamsOK
  <2> QED BY <1>1, <2>1
<1>3. Cardinality(DOMAIN trace \cap 1..i) = i
  <2>1. DOMAIN trace \cap 1..i = 1..i
    BY <1>2
  <2>2. 1 \in Int /\ i \in Int /\ ~(1 > i) /\ i - 1 + 1 = i
    BY <1>2
  <2> QED BY <2>1, <2>2, FS_Interval
<1>4. trace[i].did = d /\ i \in Merged(d) /\ Mentions(d, i) = Merged(d) \cap 1..i
  <2>1. \A x \in 1..m : trace[x].did = did_log[x]
    BY <1>2 DEF Placed
  <2>2. \A x \in 1..i : x \in 1..m
    BY <1>2
  <2> QED BY <1>1, <1>2, <2>1, <2>2 DEF Merged, Mentions
<1>5. PICK j : /\ IsNth(j, Translations, i)
               /\ IsNth(j, Logged(d), Cardinality(Mentions(d, i)))
  BY <1>1, <1>2 DEF RecordInv, Recorded, MentionAt
<1>6. PICK x \in Logged(d) :
          /\ IsNth(x, Logged(d), Cardinality(Merged(d) \cap 1..i))
          /\ trace[i].did = read[x].did /\ trace[i].page = read[x].line.page
  BY <1>4, WrittenFollows DEF Follows
<1>7. x = j
  BY <1>4, <1>5, <1>6, LoggedPlaces, NthIsOne
<1> QED BY <1>3, <1>5, <1>6, <1>7 DEF IsNth

-----------------------------------------------------------------------------
(* The orders of the merge.                                                 *)

\* Round robin: the tenants' map is walked in rounds, and every tenant is walked
\* in each.  Those whose turn is still to come in this round have b events in
\* the trace; the others a burst more, or less if one has run out.
RoundAt(b, p) ==
    IF p >= turn THEN did_it[did_v[p]] = b
    ELSE /\ did_it[did_v[p]] \in b..(b + Consec)
         /\ ~one_did_is_over => did_it[did_v[p]] = b + Consec

Walked ==
    /\ \A p, q \in 1..Len(did_v) : did_v[p] = did_v[q] => p = q
    /\ \A d \in DOMAIN streams : \E p \in 1..Len(did_v) : did_v[p] = d
    /\ \E b \in Nat : \A p \in 1..Len(did_v) : RoundAt(b, p)

KeptOK ==
    IF pc = "merge" THEN Written /\ Placed /\ (order = "rr" => Walked)
    ELSE StreamsKept /\ RRFair

KeptInv == NumberInv /\ Recorded /\ KeptOK

\* The tenants' map is walked from end to end.
LEMMA AscendingAll ==
    ASSUME NEW S \in SUBSET Nat, IsFiniteSet(S), NEW s \in Ascending(S)
    PROVE  /\ s \in Seq(S)
           /\ \A p, q \in 1..Len(s) : s[p] = s[q] => p = q
           /\ \A d \in S : \E p \in 1..Len(s) : s[p] = d
<1>1. PICK n : n = Cardinality(S) /\ n \in Nat
  BY FS_CardinalityType
<1>2. s \in [1..n -> S] /\ \A p, q \in 1..n : p < q => s[p] < s[q]
  BY <1>1 DEF Ascending
<1>3. s \in Seq(S) /\ Len(s) = n
  BY <1>1, <1>2
<1>4. ASSUME NEW p \in 1..n, NEW q \in 1..n, s[p] = s[q] PROVE p = q
  <2>1. s[p] \in Nat /\ s[q] \in Nat
    BY <1>2
  <2>2. ~(s[p] < s[q]) /\ ~(s[q] < s[p])
    BY <1>4, <2>1
  <2>3. ~(p < q) /\ ~(q < p)
    BY <1>2, <2>2
  <2> QED BY <1>1, <2>3
<1>5. s \in Injection(1..n, S)
  BY <1>2, <1>4 DEF Injection, IsInjective
<1>6. Cardinality(1..n) = n
  <2>1. 1 \in Int /\ n \in Int /\ n = IF 1 > n THEN 0 ELSE n - 1 + 1
    BY <1>1
  <2> QED BY <2>1, FS_Interval
<1>7. s \in Surjection(1..n, S)
  BY <1>1, <1>5, <1>6, FS_Injection
<1> QED BY <1>3, <1>4, <1>7 DEF Surjection

LEMMA StartMergeKept ==
    ASSUME KeptInv, StartMerge
    PROVE  Written' /\ Placed' /\ Walked'
<1>1. /\ pc = "order" /\ did_v' \in Ascending(DOMAIN streams)
      /\ did_it' = [d \in DOMAIN streams |-> 0]
      /\ UNCHANGED <<turn, order, streams, trace, did_log>>
  BY DEF StartMerge, control, tenants
<1>2. trace = <<>> /\ turn = 1
  BY <1>1 DEF KeptInv, NumberInv, MergeInv, MergeOK
<1>3. DOMAIN trace' = {}
  BY <1>1, <1>2
<1>4. \A d : Merged(d)' = {}
  BY <1>3 DEF Merged
<1>5. IsFiniteSet(DOMAIN streams) /\ DOMAIN streams \in SUBSET Nat
  <2> DEFINE S == DOMAIN streams
  <2>1. PICK N : N = Cardinality(DOMAIN uid)
    OBVIOUS
  <2>2. N \in Nat /\ S \subseteq 0..(N - 1)
    BY <2>1, FS_CardinalityType
       DEF KeptInv, NumberInv, MergeInv, StreamInv, ReadInv, TypeInv, DidsDense, UidOK
  <2> HIDE DEF S
  <2>3. IsFiniteSet(0..(N - 1))
    <3>1. N - 1 \in Int /\ 0 \in Int
      BY <2>2
    <3> QED BY <3>1, FS_Interval
  <2>4. IsFiniteSet(S) /\ S \subseteq Nat
    <3>1. S \subseteq Nat
      BY <2>2
    <3> QED BY <2>2, <2>3, <3>1, FS_Subset
  <2> QED BY <2>4 DEF S
<1>6. /\ did_v' \in Seq(DOMAIN streams)
      /\ \A p, q \in 1..Len(did_v') : did_v'[p] = did_v'[q] => p = q
      /\ \A d \in DOMAIN streams : \E p \in 1..Len(did_v') : did_v'[p] = d
  <2>1. PICK S, s : S = DOMAIN streams /\ s = did_v'
    OBVIOUS
  <2>2. S \in SUBSET Nat /\ IsFiniteSet(S) /\ s \in Ascending(S)
    BY <1>1, <1>5, <2>1
  <2>3. /\ s \in Seq(S)
        /\ \A p, q \in 1..Len(s) : s[p] = s[q] => p = q
        /\ \A d \in S : \E p \in 1..Len(s) : s[p] = d
    BY <2>2, AscendingAll
  <2> QED BY <2>1, <2>3
<1>7. \A d \in DOMAIN streams : did_it'[d] = 0
  BY <1>1
<1>8. Written'
  BY <1>1, <1>3, <1>4, <1>7, FS_EmptySet DEF Written
<1>9. Placed'
  BY <1>1, <1>3, <1>6 DEF Placed
<1>10. ASSUME NEW p \in 1..Len(did_v') PROVE RoundAt(0, p)'
  <2>1. p >= turn' /\ did_v'[p] \in DOMAIN streams
    BY <1>1, <1>2, <1>6
  <2> QED BY <1>7, <2>1 DEF RoundAt
<1>11. Walked'
  BY <1>1, <1>6, <1>10 DEF Walked
<1> QED BY <1>8, <1>9, <1>11

LEMMA MergeOrigKept ==
    ASSUME KeptInv, MergeOrig
    PROVE  Written' /\ Placed' /\ order' = "orig"
<1>1. PICK m, d : m = Len(trace) /\ d = did_log[m + 1]
  OBVIOUS
<1>2. /\ pc = "merge" /\ order = "orig" /\ m < Len(did_log) /\ Take(d, 1)
      /\ UNCHANGED <<pc, did_v, order, streams, did_log>>
  BY <1>1 DEF MergeOrig, control, tenants
<1>3. RecordInv /\ MergeOK /\ MergeInv /\ Written /\ Placed /\ Merging
  BY <1>2 DEF KeptInv, KeptOK, NumberInv, MergeInv, MergeOK, RecordInv
<1>4. trace \in Seq(Fresh) /\ m \in Nat /\ did_log \in Seq(Nat)
  BY <1>1, <1>2, <1>3 DEF MergeOK, RecordInv, StreamInv, StreamsOK
<1>5. d \in DOMAIN streams
  <2>1. m + 1 \in 1..Len(did_log)
    BY <1>2, <1>4
  <2> QED BY <1>1, <1>3, <2>1 DEF RecordInv, StreamInv, StreamsOK
<1>6. did_it[d] + 1 <= Len(streams[d])
  <2>1. m \in 0..(Len(did_log) - 1)
    BY <1>2, <1>4
  <2>2. /\ Cardinality(Ahead(did_log, d, m)) = Cardinality(Ahead(did_log, d, m + 1)) + 1
        /\ Cardinality(Ahead(did_log, d, m + 1)) \in Nat
    BY <1>1, <1>4, <2>1, AheadNext, AheadFinite
  <2>3. /\ did_it[d] \in Nat
        /\ Len(streams[d]) = did_it[d] + Cardinality(Ahead(did_log, d, m))
    BY <1>1, <1>2, <1>3, <1>5 DEF Merging
  <2> QED BY <2>2, <2>3
<1>7. /\ Written' /\ Len(trace') = m + 1
      /\ \A i \in 1..m : trace'[i] = trace[i]
      /\ \A x \in 1..1 : trace'[m + x].did = d
  BY <1>1, <1>2, <1>3, <1>5, <1>6, BurstWritten
<1>8. trace' \in Seq(Fresh)
  <2>1. MergeOK'
    BY <1>3, MergeOrigOK
  <2> QED BY <1>2, <2>1 DEF MergeOK
<1>9. ASSUME NEW i \in DOMAIN trace' PROVE trace'[i].did = did_log[i]
  <2>1. i \in 1..m \/ i = m + 1
    BY <1>4, <1>7, <1>8
  <2>2. CASE i \in 1..m
    <3>1. trace[i].did = did_log[i]
      BY <1>1, <1>2, <1>3, <1>4, <2>2 DEF Placed
    <3> QED BY <1>7, <2>2, <3>1
  <2>3. CASE i = m + 1
    BY <1>1, <1>7, <2>3
  <2> QED BY <2>1, <2>2, <2>3
<1>10. Placed'
  BY <1>2, <1>9 DEF Placed
<1> QED BY <1>2, <1>7, <1>10

\* A burst of a tenant, as round robin and random order write it.
LEMMA BurstKept ==
    ASSUME RecordInv, MergeOK, pc = "merge", Written, UNCHANGED streams,
           NEW d \in DOMAIN streams, NEW n, n = Min2(Consec, Left(d)), Take(d, n)
    PROVE  /\ Written'
           /\ n \in 0..Consec /\ did_it[d] \in Nat
           /\ did_it'[d] = did_it[d] + n
           /\ \A c \in DOMAIN streams : c # d => did_it'[c] = did_it[c]
           /\ IF Left(d) < Consec THEN did_it'[d] = Len(streams[d]) ELSE n = Consec
<1>1. /\ trace \in Seq(Fresh) /\ did_it \in [DOMAIN streams -> Nat]
      /\ did_it[d] <= Len(streams[d]) /\ did_it[d] \in Nat /\ Len(streams[d]) \in Nat
  BY DEF MergeOK, Merging, RecordInv, StreamInv, StreamsOK
<1>2. /\ n \in 0..Consec /\ did_it[d] + n <= Len(streams[d])
      /\ IF Left(d) < Consec THEN did_it[d] + n = Len(streams[d]) ELSE n = Consec
  BY <1>1, Constants DEF Min2, Left
<1>3. n \in Nat
  BY <1>2, Constants
<1>4. Written'
  BY <1>2, <1>3, BurstWritten
<1>5. /\ did_it'[d] = did_it[d] + n
      /\ \A c \in DOMAIN streams : c # d => did_it'[c] = did_it[c]
  BY <1>1, <1>2, <1>3, Taken DEF RecordInv
<1> QED BY <1>1, <1>2, <1>4, <1>5

LEMMA MergeRRKept ==
    ASSUME KeptInv, MergeRR
    PROVE  Written' /\ Placed' /\ Walked'
<1>1. PICK d, n : d = did_v[turn] /\ n = Min2(Consec, Left(d))
  OBVIOUS
<1>2. /\ pc = "merge" /\ order = "rr" /\ turn <= Len(did_v) /\ Take(d, n)
      /\ turn' = turn + 1
      /\ one_did_is_over' = (one_did_is_over \/ Left(d) < Consec)
      /\ UNCHANGED <<pc, did_v, order, streams, did_log>>
  BY <1>1 DEF MergeRR, control, tenants
<1>3. RecordInv /\ MergeOK /\ Written /\ Walked /\ Merging
  BY <1>2 DEF KeptInv, KeptOK, NumberInv, MergeInv, MergeOK, RecordInv
<1>4. did_v \in Seq(DOMAIN streams) /\ turn \in 1..Len(did_v) /\ d \in DOMAIN streams
  BY <1>1, <1>2, <1>3 DEF MergeOK, Merging
<1>5. /\ Written' /\ n \in 0..Consec /\ did_it[d] \in Nat /\ did_it'[d] = did_it[d] + n
      /\ \A c \in DOMAIN streams : c # d => did_it'[c] = did_it[c]
      /\ IF Left(d) < Consec THEN did_it'[d] = Len(streams[d]) ELSE n = Consec
  BY <1>1, <1>2, <1>3, <1>4, BurstKept
<1>6. PICK b \in Nat : \A p \in 1..Len(did_v) : RoundAt(b, p)
  BY <1>3 DEF Walked
<1>7. did_it[d] = b
  BY <1>1, <1>4, <1>6 DEF RoundAt
<1>8. ASSUME NEW p \in 1..Len(did_v) PROVE RoundAt(b, p)'
  <2>1. RoundAt(b, p)
    BY <1>6
  <2>2. CASE p = turn
    <3>1. did_it'[did_v'[p]] = b + n /\ ~(p >= turn')
      BY <1>1, <1>2, <1>4, <1>5, <1>7, <2>2
    <3>2. ~one_did_is_over' => n = Consec
      BY <1>2, <1>5
    <3>3. b + n \in b..(b + Consec)
      BY <1>5, <1>6, Constants
    <3> QED BY <3>1, <3>2, <3>3 DEF RoundAt
  <2>3. CASE p # turn
    <3>1. did_v[p] \in DOMAIN streams /\ did_v[p] # d
      <4>1. \A x, y \in 1..Len(did_v) : did_v[x] = did_v[y] => x = y
        BY <1>3 DEF Walked
      <4> QED BY <1>1, <1>4, <2>3, <4>1
    <3>2. did_it'[did_v'[p]] = did_it[did_v[p]]
      BY <1>2, <1>5, <3>1
    <3>3. p >= turn' <=> p >= turn
      BY <1>2, <1>4, <2>3
    <3>4. ~one_did_is_over' => ~one_did_is_over
      BY <1>2
    <3> QED BY <2>1, <3>2, <3>3, <3>4 DEF RoundAt
  <2> QED BY <2>2, <2>3
<1>9. Walked'
  BY <1>2, <1>3, <1>6, <1>8 DEF Walked
<1> QED BY <1>2, <1>5, <1>9 DEF Placed

\* The next round starts a burst higher.
LEMMA NextRoundKept ==
    ASSUME KeptInv, NextRound
    PROVE  Written' /\ Placed' /\ Walked'
<1>1. /\ pc = "merge" /\ order = "rr" /\ turn > Len(did_v) /\ ~one_did_is_over /\ turn' = 1
      /\ UNCHANGED <<did_v, did_it, one_did_is_over, order, streams, did_log, trace>>
  BY DEF NextRound, control, tenants
<1>2. Written /\ Placed /\ Walked /\ MergeOK /\ Merging
  BY <1>1 DEF KeptInv, KeptOK, NumberInv, MergeInv, MergeOK
<1>3. Written'
  <2>1. \A d : Merged(d)' = Merged(d)
    BY <1>1 DEF Merged
  <2>2. \A d, k : WrittenAt(d, k)' <=> WrittenAt(d, k)
    BY <1>1, <2>1 DEF WrittenAt, IsNth
  <2> QED BY <1>1, <1>2, <2>1, <2>2 DEF Written
<1>4. PICK b \in Nat : \A p \in 1..Len(did_v) : RoundAt(b, p)
  BY <1>2 DEF Walked
<1>5. PICK c \in Nat : c = b + Consec
  BY <1>4, Constants
<1>6. ASSUME NEW p \in 1..Len(did_v) PROVE RoundAt(c, p)'
  <2>1. ~(p >= turn) /\ p >= turn'
    BY <1>1, <1>2 DEF MergeOK, Merging
  <2>2. did_it[did_v[p]] = c
    BY <1>1, <1>4, <1>5, <2>1 DEF RoundAt
  <2> QED BY <1>1, <2>1, <2>2 DEF RoundAt
<1>7. Walked'
  BY <1>1, <1>2, <1>6 DEF Walked
<1> QED BY <1>1, <1>3, <1>7 DEF Placed

\* Random order erases a tenant that has just written all it had.
LEMMA MergeRandKept ==
    ASSUME KeptInv, NEW i \in DOMAIN did_v, MergeRand(i)
    PROVE  Written' /\ Placed' /\ order' = "rand"
<1>1. PICK d, n : d = did_v[i] /\ n = Min2(Consec, Left(d))
  OBVIOUS
<1>2. /\ pc = "merge" /\ order = "rand" /\ Take(d, n)
      /\ did_v' = IF Left(d) < Consec THEN RemoveAt(did_v, i) ELSE did_v
      /\ UNCHANGED <<pc, order, streams, did_log>>
  BY <1>1 DEF MergeRand, control, tenants
<1>3. RecordInv /\ MergeOK /\ Written /\ Placed /\ Merging
  BY <1>2 DEF KeptInv, KeptOK, NumberInv, MergeInv, MergeOK, RecordInv
<1>4. did_v \in Seq(DOMAIN streams) /\ i \in 1..Len(did_v) /\ d \in DOMAIN streams
  BY <1>1, <1>3 DEF Merging
<1>5. /\ Written'
      /\ \A c \in DOMAIN streams : c # d => did_it'[c] = did_it[c]
      /\ Left(d) < Consec => did_it'[d] = Len(streams[d])
  BY <1>1, <1>2, <1>3, <1>4, BurstKept
<1>6. ASSUME NEW c \in DOMAIN streams, did_it'[c] # Len(streams[c])
      PROVE  \E p \in 1..Len(did_v') : did_v'[p] = c
  <2>1. CASE Left(d) < Consec
    <3>1. c # d /\ did_it[c] # Len(streams[c])
      BY <1>5, <1>6, <2>1
    <3>2. PICK j \in 1..Len(did_v) : did_v[j] = c
      BY <1>2, <1>3, <3>1 DEF Placed
    <3>3. j # i
      BY <1>1, <3>1, <3>2
    <3> QED BY <1>2, <1>4, <2>1, <3>2, <3>3, Erased
  <2>2. CASE ~(Left(d) < Consec)
    <3>1. CASE c = d
      BY <1>1, <1>2, <1>4, <2>2, <3>1
    <3>2. CASE c # d
      BY <1>2, <1>3, <1>5, <1>6, <2>2, <3>2 DEF Placed
    <3> QED BY <3>1, <3>2
  <2> QED BY <2>1, <2>2
<1>7. Placed'
  BY <1>2, <1>6 DEF Placed
<1> QED BY <1>2, <1>5, <1>7

\* When no tenant has events left, each translation logged is in the trace once.
LEMMA AllWritten ==
    ASSUME RecordInv, MergeOK, pc = "merge", Written,
           \A d \in DOMAIN streams : did_it[d] = Len(streams[d])
    PROVE  Len(trace) = Cardinality(Translations)
<1> DEFINE Source(i, j) == IsNth(j, Logged(trace[i].did),
                                 Cardinality(Merged(trace[i].did) \cap 1..i))
           source(i) == CHOOSE j : Source(i, j)
           f == [i \in DOMAIN trace |-> source(i)]
<1>1. PICK m : m = Len(trace)
  OBVIOUS
<1>2. m \in Nat /\ DOMAIN trace = 1..m
  <2>1. trace \in Seq(Fresh)
    BY DEF MergeOK
  <2> QED BY <1>1, <2>1
<1>3. \A d : Merged(d) \in Places /\ Logged(d) \in Places
  BY <1>1, <1>2, MergedPlaces, LoggedPlaces
<1>4. ASSUME NEW i \in DOMAIN trace PROVE Source(i, source(i)) /\ source(i) \in Translations
  <2>1. PICK d : d = trace[i].did
    OBVIOUS
  <2>2. i \in Merged(d)
    BY <2>1 DEF Merged
  <2>3. PICK j \in Logged(d) : IsNth(j, Logged(d), Cardinality(Merged(d) \cap 1..i))
    BY <2>2, WrittenFollows DEF Follows
  <2>4. Source(i, j)
    BY <2>1, <2>3
  <2> HIDE DEF Source
  <2>5. Source(i, source(i))
    BY <2>4
  <2> HIDE DEF source
  <2>6. source(i) \in Translations
    BY <2>5 DEF Source, IsNth, Logged
  <2> QED BY <2>5, <2>6
<1> HIDE DEF source
<1>5. f \in [DOMAIN trace -> Translations] /\ \A i \in DOMAIN trace : Source(i, f[i])
  BY <1>4
<1> HIDE DEF f
<1>6. ASSUME NEW i \in DOMAIN trace, NEW k \in DOMAIN trace, f[i] = f[k] PROVE i = k
  <2>1. PICK j, c, d : j = f[i] /\ c = trace[i].did /\ d = trace[k].did
    OBVIOUS
  <2>2. Source(i, j) /\ Source(k, j)
    BY <1>5, <1>6, <2>1
  <2>3. /\ j \in Logged(c) /\ Cardinality(Logged(c) \cap 1..j) = Cardinality(Merged(c) \cap 1..i)
        /\ j \in Logged(d) /\ Cardinality(Logged(d) \cap 1..j) = Cardinality(Merged(d) \cap 1..k)
    BY <2>1, <2>2 DEF IsNth
  <2>4. c = d
    BY <2>3 DEF Logged
  <2>5. i \in Merged(c) /\ k \in Merged(c)
    BY <2>1, <2>4 DEF Merged
  <2>6. PICK r : r = Cardinality(Logged(c) \cap 1..j)
    OBVIOUS
  <2>7. IsNth(i, Merged(c), r) /\ IsNth(k, Merged(c), r)
    BY <2>3, <2>4, <2>5, <2>6 DEF IsNth
  <2> QED BY <1>3, <2>7, NthIsOne
<1>7. ASSUME NEW j \in Translations PROVE \E i \in DOMAIN trace : f[i] = j
  <2>1. PICK d, r : d = read[j].did /\ r = Cardinality(Logged(d) \cap 1..j)
    OBVIOUS
  <2>2. j \in Logged(d) /\ IsNth(j, Logged(d), r)
    BY <2>1 DEF Logged, IsNth
  <2>3. d \in DOMAIN streams
    BY <2>2 DEF RecordInv, Recorded
  <2>4. r \in 1..Cardinality(Logged(d))
    BY <2>1, <2>2, LoggedPlaces, RankInRange
  <2>5. did_it[d] = Cardinality(Logged(d))
    BY <2>3 DEF RecordInv, Recorded
  <2>6. PICK i : IsNth(i, Merged(d), r)
    BY <2>3, <2>4, <2>5 DEF Written, WrittenAt
  <2>7. i \in DOMAIN trace /\ trace[i].did = d /\ Cardinality(Merged(d) \cap 1..i) = r
    BY <2>6 DEF IsNth, Merged
  <2>8. Source(i, f[i])
    BY <1>5, <2>7
  <2>9. IsNth(f[i], Logged(d), r)
    BY <2>7, <2>8
  <2>10. f[i] = j
    BY <1>3, <2>2, <2>9, NthIsOne
  <2> QED BY <2>7, <2>10
<1>8. f \in Bijection(1..m, Translations)
  BY <1>2, <1>5, <1>6, <1>7 DEF Bijection, Injection, Surjection, IsInjective
<1>9. IsFiniteSet(1..m) /\ Cardinality(1..m) = m
  <2>1. 1 \in Int /\ m \in Int /\ m = IF 1 > m THEN 0 ELSE m - 1 + 1
    BY <1>2
  <2> QED BY <2>1, FS_Interval
<1>10. Cardinality(Translations) = Cardinality(1..m)
  BY <1>8, <1>9, FS_Bijection DEF ExistsBijection
<1> QED BY <1>1, <1>9, <1>10

\* Nothing is left out at the end, but by round robin.
LEMMA EndMergeComplete ==
    ASSUME RecordInv, MergeOK, Written, Placed, EndMerge, order # "rr"
    PROVE  Len(trace) = Cardinality(Translations)
<1>1. /\ pc = "merge"
      /\ \/ order = "orig" /\ Len(trace) = Len(did_log)
         \/ order = "rand" /\ did_v = <<>>
  BY DEF EndMerge
<1>2. CASE order = "orig"
  BY <1>1, <1>2 DEF RecordInv, Recorded
<1>3. CASE order = "rand"
  <2>1. Len(did_v) = 0
    BY <1>1, <1>3
  <2>2. \A d \in DOMAIN streams : did_it[d] = Len(streams[d])
    BY <1>3, <2>1 DEF Placed
  <2> QED BY <1>1, <2>2, AllWritten
<1> QED BY <1>1, <1>2, <1>3

LEMMA WalkedFair ==
    ASSUME MergeOK, pc = "merge", Written, order = "rr" => Walked
    PROVE  RRFair
<1> SUFFICES ASSUME order = "rr", NEW d \in DOMAIN streams, NEW e \in DOMAIN streams
             PROVE  Cardinality(Merged(d)) <= Cardinality(Merged(e)) + Consec
  BY DEF RRFair
<1>1. PICK b \in Nat : \A p \in 1..Len(did_v) : RoundAt(b, p)
  BY DEF Walked
<1>2. ASSUME NEW c \in DOMAIN streams PROVE did_it[c] \in b..(b + Consec)
  <2>1. PICK p \in 1..Len(did_v) : did_v[p] = c
    BY DEF Walked
  <2>2. did_it[c] = b \/ did_it[c] \in b..(b + Consec)
    BY <1>1, <2>1 DEF RoundAt
  <2> QED BY <2>2, Constants
<1>3. did_it[d] <= did_it[e] + Consec
  BY <1>2, Constants
<1> QED BY <1>3 DEF Written

\* While merging, what is written is as promised.
LEMMA MergeKept ==
    ASSUME RecordInv, MergeOK, pc = "merge", KeptOK
    PROVE  StreamsKept /\ RRFair
<1>1. Written /\ Placed /\ (order = "rr" => Walked)
  BY DEF KeptOK
<1>2. StreamsKept
  BY <1>1, WrittenFollows, OrigFollows DEF StreamsKept
<1> QED BY <1>1, <1>2, WalkedFair

\* The tenants and pages of the trace do not change once it is merged.
LEMMA KeptStays ==
    ASSUME StreamsKept, RRFair, UNCHANGED <<read, uid, order, streams>>,
           DOMAIN trace' = DOMAIN trace, Len(trace') = Len(trace),
           \A i \in DOMAIN trace : trace'[i].did = trace[i].did /\ trace'[i].page = trace[i].page,
           pc' \in {"merge", "number", "saved"} => pc \in {"merge", "number", "saved"},
           pc' = "number" /\ order # "rr" => Len(trace) = Cardinality(Translations)
    PROVE  StreamsKept' /\ RRFair'
<1>1. Translations' = Translations
  BY DEF Translations
<1>2. \A d : Logged(d)' = Logged(d) /\ Merged(d)' = Merged(d)
  BY <1>1 DEF Logged, Merged
<1>3. ASSUME NEW T, NEW L, T \subseteq DOMAIN trace, Follows(T, L) PROVE Follows(T, L)'
  BY <1>3 DEF Follows, IsNth
<1>4. ASSUME NEW d, Follows(Merged(d), Logged(d)) PROVE Follows(Merged(d), Logged(d))'
  <2>1. PICK T, L : T = Merged(d) /\ L = Logged(d)
    OBVIOUS
  <2>2. Follows(T, L)'
    BY <1>3, <1>4, <2>1 DEF Merged
  <2> QED BY <1>2, <2>1, <2>2 DEF Follows, IsNth
<1>5. ASSUME Follows(DOMAIN trace, Translations) PROVE Follows(DOMAIN trace, Translations)'
  <2>1. PICK T, L : T = DOMAIN trace /\ L = Translations
    OBVIOUS
  <2>2. Follows(T, L)'
    BY <1>3, <1>5, <2>1
  <2>3. T = (DOMAIN trace)' /\ L = Translations'
    BY <1>1, <2>1
  <2> QED BY <2>2, <2>3 DEF Follows, IsNth
<1>6. StreamsKept'
  BY <1>1, <1>4, <1>5 DEF StreamsKept
<1>7. RRFair'
  BY <1>2 DEF RRFair
<1> QED BY <1>6, <1>7

LEMMA EmptyKept ==
    ASSUME trace' = <<>>, pc' \notin {"merge", "number", "saved"}
    PROVE  StreamsKept' /\ RRFair'
<1>1. DOMAIN trace' = {} /\ \A d : Merged(d)' = {}
  BY DEF Merged
<1> QED BY <1>1 DEF StreamsKept, RRFair, Follows

LEMMA NumberEventTraced ==
    ASSUME NumberInv, NumberEvent
    PROVE  /\ DOMAIN trace' = DOMAIN trace /\ Len(trace') = Len(trace)
           /\ \A i \in DOMAIN trace : trace'[i].did = trace[i].did /\ trace'[i].page = trace[i].page
<1>1. PICK k : k = last[Key(trace[event_cnt + 1])]
  OBVIOUS
<1>2. trace' \in {trace, [trace EXCEPT ![k].nat = event_cnt]}
  BY <1>1 DEF NumberEvent
<1>3. trace \in Seq(Events)
  BY DEF NumberInv, Numbered
<1>4. CASE trace' = trace
  BY <1>4
<1>5. CASE trace' = [trace EXCEPT ![k].nat = event_cnt]
  <2>1. DOMAIN trace' = DOMAIN trace /\ Len(trace') = Len(trace)
    BY <1>3, <1>5
  <2>2. ASSUME NEW i \in DOMAIN trace
        PROVE  trace'[i].did = trace[i].did /\ trace'[i].page = trace[i].page
    <3>1. trace[i] \in Events
      BY <1>3
    <3>2. trace'[i] = IF i = k THEN [trace[i] EXCEPT !.nat = event_cnt] ELSE trace[i]
      BY <1>5
    <3> QED BY <3>1, <3>2 DEF Events
  <2> QED BY <2>1, <2>2
<1> QED BY <1>2, <1>4, <1>5

LEMMA InitKeptInv == Init => KeptInv
<1> SUFFICES ASSUME Init PROVE KeptInv
  OBVIOUS
<1>1. MergeInv /\ Recorded
  BY InitMergeInv, InitRecordInv DEF RecordInv
<1>2. pc = "log" /\ trace = <<>> /\ event_cnt = 0 /\ last = Nothing
  BY DEF Init
<1>3. NumberInv
  BY <1>1, <1>2, UnnumberedOK DEF NumberInv
<1>4. DOMAIN trace = {} /\ \A d : Merged(d) = {}
  BY <1>2 DEF Merged
<1>5. StreamsKept /\ RRFair
  BY <1>2, <1>4 DEF StreamsKept, RRFair, Follows
<1> QED BY <1>1, <1>2, <1>3, <1>5 DEF KeptInv, KeptOK

LEMMA NextKeptInv == KeptInv /\ [Next]_vars => KeptInv'
<1> SUFFICES ASSUME KeptInv, [Next]_vars PROVE KeptOK'
  <2>1. KeptInv => NumberInv /\ RecordInv
    BY DEF KeptInv, NumberInv, MergeInv, RecordInv
  <2> QED BY <2>1, NextNumberInv, NextRecordInv DEF KeptInv, RecordInv
<1>1. RecordInv /\ MergeInv /\ MergeOK /\ NumberInv /\ KeptOK
  BY DEF KeptInv, NumberInv, MergeInv, RecordInv
<1>2. StreamsKept /\ RRFair
  BY <1>1, MergeKept DEF KeptOK
<1>3. CASE UNCHANGED vars
  <2>1. UNCHANGED <<read, uid, order, streams, trace, pc>>
    BY <1>3 DEF vars, control, tenants
  <2>2. CASE pc = "merge"
    <3>1. UNCHANGED <<did_it, did_v, turn, one_did_is_over, did_log>>
      BY <1>3 DEF vars, merging, tenants
    <3>2. /\ \A d : Merged(d)' = Merged(d)
          /\ \A d, k : WrittenAt(d, k)' <=> WrittenAt(d, k)
      BY <2>1 DEF Merged, WrittenAt, IsNth
    <3>3. Written' /\ Placed' /\ (order' = "rr" => Walked')
      BY <1>1, <2>1, <2>2, <3>1, <3>2 DEF KeptOK, Written, Placed, Walked, RoundAt
    <3> QED BY <2>1, <2>2, <3>3 DEF KeptOK
  <2>3. CASE pc # "merge"
    <3>1. pc = "number" /\ order # "rr" => Len(trace) = Cardinality(Translations)
      BY <1>2 DEF StreamsKept
    <3> QED BY <1>2, <2>1, <2>3, <3>1, KeptStays DEF KeptOK
  <2> QED BY <2>2, <2>3
<1>4. CASE OpenLog \/ OpenFails \/ SkipLog \/ CloseLog \/ LogsRead \/ UnknownOrder
  <2>1. /\ pc \in {"log", "lines", "order"} /\ pc' \in {"log", "lines", "order", "exit"}
        /\ UNCHANGED trace
    BY <1>4 DEF OpenLog, OpenFails, SkipLog, CloseLog, LogsRead, UnknownOrder, PrepareLog
  <2> QED BY <1>1, <2>1, EmptyKept DEF MergeOK, KeptOK
<1>5. ASSUME NEW l \in Lines, ReadLine(l)
      PROVE  KeptOK'
  <2>1. pc = "lines" /\ UNCHANGED <<pc, trace>>
    BY <1>5 DEF ReadLine
  <2> QED BY <1>1, <2>1, EmptyKept DEF MergeOK, KeptOK
<1>6. CASE StartMerge
  BY <1>6, StartMergeKept DEF KeptOK, StartMerge
<1>7. CASE MergeOrig
  BY <1>7, MergeOrigKept DEF KeptOK, MergeOrig
<1>8. CASE MergeRR \/ NextRound
  BY <1>8, MergeRRKept, NextRoundKept DEF KeptOK, MergeRR, NextRound
<1>9. ASSUME NEW i \in DOMAIN did_v, MergeRand(i)
      PROVE  KeptOK'
  BY <1>9, MergeRandKept DEF KeptOK, MergeRand
<1>10. CASE EndMerge
  <2>1. pc = "merge" /\ pc' = "number" /\ UNCHANGED <<read, uid, order, streams, trace>>
    BY <1>10 DEF EndMerge, control, tenants
  <2>2. order # "rr" => Len(trace) = Cardinality(Translations)
    BY <1>1, <1>10, <2>1, EndMergeComplete DEF KeptOK
  <2> QED BY <1>2, <2>1, <2>2, KeptStays DEF KeptOK
<1>11. CASE NumberEvent \/ SaveTrace
  <2>1. pc = "number" /\ pc' \in {"number", "saved", "exit"} /\ UNCHANGED <<read, uid, order, streams>>
    BY <1>11 DEF NumberEvent, SaveTrace, control, tenants
  <2>2. /\ DOMAIN trace' = DOMAIN trace /\ Len(trace') = Len(trace)
        /\ \A i \in DOMAIN trace : trace'[i].did = trace[i].did /\ trace'[i].page = trace[i].page
    BY <1>1, <1>11, NumberEventTraced DEF SaveTrace
  <2>3. order # "rr" => Len(trace) = Cardinality(Translations)
    BY <1>2, <2>1 DEF StreamsKept
  <2> QED BY <1>2, <2>1, <2>2, <2>3, KeptStays DEF KeptOK
<1> QED BY <1>3, <1>4, <1>5, <1>6, <1>7, <1>8, <1>9, <1>10, <1>11 DEF Next, ReadLogs, SaveIOVATrace

\* Every order keeps every tenant's translations in the order of its log, "orig"
\* those of all logs, and only round robin leaves some out, whatever the logs
\* hold (BuildIOVATraceOrig, BuildIOVATraceRR, BuildIOVATraceRand).
THEOREM StreamsStayInOrder == Spec => []StreamsKept
<1>1. KeptInv => StreamsKept
  BY MergeKept DEF KeptInv, KeptOK, NumberInv, MergeInv, RecordInv
<1> QED BY <1>1, InitKeptInv, NextKeptInv, PTL DEF Spec

\* Round robin keeps every two tenants within one burst of each other, for every
\* number of tenants and lengths of their streams, however it ends
\* (BuildIOVATraceRR).
THEOREM RoundRobinIsFair == Spec => []RRFair
<1>1. KeptInv => RRFair
  BY MergeKept DEF KeptInv, KeptOK, NumberInv, MergeInv, RecordInv
<1> QED BY <1>1, InitKeptInv, NextKeptInv, PTL DEF Spec

=============================================================================

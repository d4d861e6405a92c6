-------------------------- MODULE CommandLine_proofs --------------------------
(***************************************************************************)
(* Theorems about CommandLine.tla, for every command line, every function  *)
(* that stoul may be and every set of usable configurations: what main     *)
(* reads is what the user wrote, and every end that is not the one asked   *)
(* for has a reason in what the user wrote or in the environment.          *)
(***************************************************************************)
EXTENDS CommandLine, TLAPS

Arguments == [isopt : BOOLEAN, text : STRING \ {"default"}]

\* The value that the option at the place n of the command line is given.
ValueAt(n) == IF n < Len(args) /\ ~args[n + 1].isopt THEN args[n + 1].text ELSE ""

\* The option o has its last value before the place q.
LastBefore(o, q, n) ==
    /\ n \in Occurrences(o) /\ n < q
    /\ \A m \in Occurrences(o) : m < q => m <= n

\* The map holds what the arguments before the place q say.
Holds(map, q) ==
    \A o : /\ o \in DOMAIN map <=> \E n \in Occurrences(o) : n < q
           /\ o \in DOMAIN map => \E n : LastBefore(o, q, n) /\ map[o] = ValueAt(n)

ArgsOK == args \in Seq(Arguments)

LEMMA OccurrencesIn ==
    ASSUME ArgsOK
    PROVE  /\ Len(args) \in Nat
           /\ \A o : \A n \in Occurrences(o) :
                  n \in 1..Len(args) /\ args[n].isopt /\ args[n].text = o
BY DEF ArgsOK, Occurrences

\* A place that holds no option adds nothing.
LEMMA HoldsPastValue ==
    ASSUME ArgsOK, NEW map, NEW q \in Nat, Holds(map, q),
           q \in 1..Len(args) => ~args[q].isopt
    PROVE  Holds(map, q + 1)
<1>1. \A o : \A n \in Occurrences(o) : n \in Nat /\ (n < q + 1 <=> n < q)
  BY OccurrencesIn
<1> QED BY <1>1 DEF Holds, LastBefore

\* An option at the place q, put with its value.
LEMMA HoldsPastOption ==
    ASSUME ArgsOK, NEW map, NEW q \in 1..Len(args), Holds(map, q),
           args[q].isopt, NEW v, v = ValueAt(q)
    PROVE  Holds(Put(map, args[q].text, v), q + 1)
<1> DEFINE x == args[q].text
<1>1. PICK p : p = Put(map, x, v)
  OBVIOUS
<1>2. DOMAIN p = DOMAIN map \cup {x} /\ p[x] = v /\ \A y \in DOMAIN map : y # x => p[y] = map[y]
  BY <1>1 DEF Put
<1>3. q \in Nat /\ q \in Occurrences(x)
  BY OccurrencesIn DEF ArgsOK, Occurrences
<1>4. \A o : \A n \in Occurrences(o) : n \in Nat /\ (n < q + 1 <=> n < q \/ n = q)
  BY <1>3, OccurrencesIn
<1>5. \A o : q \in Occurrences(o) => o = x
  BY OccurrencesIn
<1> HIDE DEF x
<1> SUFFICES ASSUME NEW o
             PROVE  /\ o \in DOMAIN p <=> \E n \in Occurrences(o) : n < q + 1
                    /\ o \in DOMAIN p => \E n : LastBefore(o, q + 1, n) /\ p[o] = ValueAt(n)
  BY <1>1 DEF Holds, x
<1>6. CASE o = x
  <2>1. LastBefore(o, q + 1, q)
    BY <1>3, <1>4, <1>6 DEF LastBefore
  <2> QED BY <1>2, <1>3, <1>4, <1>6, <2>1
<1>7. CASE o # x
  <2>1. /\ o \in DOMAIN map <=> \E n \in Occurrences(o) : n < q
        /\ o \in DOMAIN map => \E n : LastBefore(o, q, n) /\ map[o] = ValueAt(n)
    BY DEF Holds
  <2>2. \A n \in Occurrences(o) : n < q + 1 <=> n < q
    BY <1>4, <1>5, <1>7
  <2>3. \A n : LastBefore(o, q, n) <=> LastBefore(o, q + 1, n)
    BY <2>2 DEF LastBefore
  <2> QED BY <1>2, <1>7, <2>1, <2>2, <2>3
<1> QED BY <1>6, <1>7

-----------------------------------------------------------------------------
(* Parsing.                                                                *)

\* The arguments before this place have been put in the map; the one at it may
\* still be given a value.
Settled == IF scan_opt_val THEN i - 1 ELSE i

Parsing ==
    /\ i \in 1..(Len(args) + 1)
    /\ scan_opt_val \in BOOLEAN
    /\ scan_opt_val => i # 1 /\ args[i - 1].isopt /\ args[i - 1].text = opt
    /\ ~scan_opt_val => i = 1 \/ ~args[i - 1].isopt
    /\ Holds(opt_val_map, Settled)
    /\ \A o \in Settings : setting[o] = "default"

\* The map holds all that was written.
Parsed ==
    /\ \A o : o \in DOMAIN opt_val_map <=> Occurrences(o) # {}
    /\ \A o \in DOMAIN opt_val_map : opt_val_map[o] = Written(o)

LEMMA HoldsAll ==
    ASSUME ArgsOK, Holds(opt_val_map, Len(args) + 1)
    PROVE  Parsed
<1>1. \A o : \A n \in Occurrences(o) : n \in Nat /\ n < Len(args) + 1
  BY OccurrencesIn
<1>2. ASSUME NEW o \in DOMAIN opt_val_map PROVE opt_val_map[o] = Written(o)
  <2>1. PICK n : LastBefore(o, Len(args) + 1, n) /\ opt_val_map[o] = ValueAt(n)
    BY DEF Holds
  <2>2. n \in Occurrences(o) /\ \A m \in Occurrences(o) : m <= n
    BY <1>1, <2>1 DEF LastBefore
  <2>3. LastOf(o) \in Occurrences(o) /\ \A m \in Occurrences(o) : m <= LastOf(o)
    BY <2>2 DEF LastOf
  <2>4. LastOf(o) = n
    BY <1>1, <2>2, <2>3
  <2> QED BY <2>1, <2>4 DEF Written, ValueAt
<1> QED BY <1>1, <1>2 DEF Holds, Parsed

LEMMA PushHolds ==
    ASSUME ArgsOK, Parsing, ~(i <= Len(args) /\ ~args[i].isopt)
    PROVE  Holds(PushValueless, i)
<1>0. i \in Nat /\ i <= Len(args) + 1 /\ Len(args) \in Nat
  BY OccurrencesIn DEF Parsing
<1>1. CASE ~scan_opt_val
  BY <1>1 DEF Parsing, Settled, PushValueless
<1>2. CASE scan_opt_val
  <2>1. PICK q : q = i - 1
    OBVIOUS
  <2>2. q \in 1..Len(args) /\ q + 1 = i /\ args[q].isopt /\ args[q].text = opt
    BY <1>0, <1>2, <2>1 DEF Parsing
  <2>3. Holds(opt_val_map, q)
    BY <1>2, <2>1 DEF Parsing, Settled
  <2>4. "" = ValueAt(q)
    <3>1. ~(q < Len(args) /\ ~args[q + 1].isopt)
      <4>1. q < Len(args) => i <= Len(args)
        BY <1>0, <2>2
      <4> QED BY <2>2, <4>1
    <3> QED BY <3>1 DEF ValueAt
  <2>5. Holds(Put(opt_val_map, args[q].text, ""), q + 1)
    BY <2>2, <2>3, <2>4, HoldsPastOption
  <2> QED BY <1>2, <2>2, <2>5 DEF PushValueless
<1> QED BY <1>1, <1>2 DEF Parsing

-----------------------------------------------------------------------------
(* Reading the options.                                                    *)

\* What is said of an option when it has been read.
Taken(r) ==
    IF Occurrences(r.opt) # {} THEN setting[r.opt] = Converted(r, Written(r.opt))
    ELSE r.always \/ setting[r.opt] = "default"

ReadingInv ==
    /\ pc = Mode /\ i \in 1..(Len(Reads[Mode]) + 1)
    /\ Parsed
    /\ \A n \in DOMAIN Reads[Mode] :
           IF n < i THEN Taken(Reads[Mode][n]) ELSE setting[Reads[Mode][n].opt] = "default"

\* The inductive invariant: parsing, reading, or over.
IInv ==
    /\ ArgsOK /\ DOMAIN setting = Settings
    /\ pc \in {"parse", "build", "run", "crash", "endless", "exit"}
    /\ pc = "parse" => Parsing
    /\ pc \in {"build", "run"} => ReadingInv
    /\ EndingsExplained

\* The list rs reads each option once, into a setting.
ReadOnce(rs) ==
    /\ Len(rs) \in Nat /\ DOMAIN rs = 1..Len(rs)
    /\ \A n \in DOMAIN rs : rs[n].opt \in Settings
    /\ \A m, n \in DOMAIN rs : rs[m].opt = rs[n].opt => m = n

LEMMA ReadsOnce ==
    DOMAIN Reads = {"build", "run"} /\ \A p \in DOMAIN Reads : ReadOnce(Reads[p])
<1>1. DOMAIN Reads = {"build", "run"} /\ Len(Reads.build) = 7 /\ Len(Reads.run) = 8
      /\ DOMAIN Reads.build = 1..7 /\ DOMAIN Reads.run = 1..8
  BY DEF Reads
<1>2. \A m, n \in 1..7 : Reads.build[m].opt = Reads.build[n].opt => m = n
  BY DEF Reads, Option
<1>3. \A m, n \in 1..8 : Reads.run[m].opt = Reads.run[n].opt => m = n
  BY DEF Reads, Option
<1>4. /\ \A n \in DOMAIN Reads.build : Reads.build[n].opt \in Settings
      /\ \A n \in DOMAIN Reads.run : Reads.run[n].opt \in Settings
  BY DEF Settings
<1>5. ReadOnce(Reads.build) /\ ReadOnce(Reads.run)
  BY <1>1, <1>2, <1>3, <1>4 DEF ReadOnce
<1> QED BY <1>1, <1>5

LEMMA InitIInv == Init => IInv
<1> SUFFICES ASSUME Init PROVE IInv
  OBVIOUS
<1>1. ArgsOK
  BY CommandLineAssumption DEF Init, ArgsOK, Arguments
<1>2. Holds(opt_val_map, 1)
  <2>1. \A o : \A n \in Occurrences(o) : ~(n < 1)
    BY <1>1, OccurrencesIn
  <2>2. DOMAIN opt_val_map = {}
    BY DEF Init
  <2> QED BY <2>1, <2>2 DEF Holds
<1>3. Parsing
  <2>1. Len(args) \in Nat
    BY <1>1, OccurrencesIn
  <2>2. /\ i = 1 /\ scan_opt_val = FALSE
        /\ \A o \in Settings : setting[o] = "default"
    BY DEF Init
  <2>3. Settled = 1
    BY <2>2 DEF Settled
  <2>4. 1 \in 1..(Len(args) + 1)
    BY <2>1
  <2> QED BY <1>2, <2>2, <2>3, <2>4 DEF Parsing
<1> QED BY <1>1, <1>3 DEF Init, IInv, EndingsExplained


\* A step of the parser to the map m, that says what is before the place k.
LEMMA ParsingNext ==
    ASSUME IInv, UNCHANGED <<args, setting, pc>>, pc = "parse",
           NEW m, NEW k, Holds(m, k), opt_val_map' = m,
           i' \in 1..(Len(args) + 1), scan_opt_val' \in BOOLEAN,
           k = IF scan_opt_val' THEN i' - 1 ELSE i',
           scan_opt_val' => i' # 1 /\ args[i' - 1].isopt /\ args[i' - 1].text = opt',
           ~scan_opt_val' => ~args[i' - 1].isopt
    PROVE  IInv'
<1>1. ArgsOK' /\ DOMAIN setting' = Settings /\ Parsing
  BY DEF IInv, ArgsOK
<1>2. \A o : Occurrences(o)' = Occurrences(o)
  BY DEF Occurrences
<1>3. \A n : ValueAt(n)' = ValueAt(n)
  BY DEF ValueAt
<1>4. Holds(m, k)'
  BY <1>2, <1>3 DEF Holds, LastBefore
<1>5. Settled' = k
  BY DEF Settled
<1>6. opt_val_map' = m
  OBVIOUS
<1>7. Holds(opt_val_map, Settled)'
  BY ONLY <1>4, <1>5, <1>6 DEF Holds, LastBefore, ValueAt, Occurrences
<1>8. Parsing'
  BY <1>1, <1>7 DEF Parsing
<1> QED BY <1>1, <1>8 DEF IInv, EndingsExplained

LEMMA ParseOptionStep ==
    ASSUME IInv, ParseOption
    PROVE  IInv'
<1>1. /\ ArgsOK /\ Parsing /\ UNCHANGED <<args, setting, pc>> /\ pc = "parse"
      /\ i <= Len(args) /\ args[i].isopt /\ i' = i + 1 /\ scan_opt_val' = TRUE
      /\ opt' = args[i].text /\ opt_val_map' = PushValueless
  BY DEF IInv, ParseOption
<1>2. i \in Nat /\ i # 0 /\ Len(args) \in Nat
  BY <1>1, OccurrencesIn DEF Parsing
<1>3. PICK m, k : m = PushValueless /\ k = i
  OBVIOUS
<1>4. Holds(m, k)
  BY <1>1, <1>3, PushHolds
<1>5. /\ i' \in 1..(Len(args) + 1) /\ i' - 1 = i /\ i' # 1
      /\ k = IF scan_opt_val' THEN i' - 1 ELSE i'
  BY <1>1, <1>2, <1>3
<1> QED BY <1>1, <1>3, <1>4, <1>5, ParsingNext

LEMMA ParseValueStep ==
    ASSUME IInv, ParseValue
    PROVE  IInv'
<1>1. /\ ArgsOK /\ Parsing /\ UNCHANGED <<args, setting, pc>> /\ pc = "parse"
      /\ i <= Len(args) /\ ~args[i].isopt /\ i' = i + 1 /\ scan_opt_val
      /\ scan_opt_val' = FALSE /\ opt_val_map' = Put(opt_val_map, opt, args[i].text)
  BY DEF IInv, ParseValue
<1>2. i \in Nat /\ i # 0 /\ Len(args) \in Nat
  BY <1>1, OccurrencesIn DEF Parsing
<1>3. PICK q, k, v, m : q = i - 1 /\ k = i + 1 /\ v = args[i].text /\ m = opt_val_map'
  OBVIOUS
<1>4. q \in 1..Len(args) /\ q + 1 = i /\ args[q].isopt /\ args[q].text = opt
  BY <1>1, <1>2, <1>3 DEF Parsing
<1>5. Holds(opt_val_map, q)
  BY <1>1, <1>3 DEF Parsing, Settled
<1>6. v = ValueAt(q)
  <2>1. q < Len(args) /\ ~args[q + 1].isopt /\ v = args[q + 1].text
    <3>1. q < Len(args)
      BY <1>1, <1>2, <1>3
    <3> QED BY <1>1, <1>3, <1>4, <3>1
  <2> QED BY <2>1 DEF ValueAt
<1>7. Holds(Put(opt_val_map, args[q].text, v), q + 1)
  BY <1>1, <1>4, <1>5, <1>6, HoldsPastOption
<1>8. Holds(m, i)
  BY <1>1, <1>3, <1>4, <1>7
<1>9. Holds(m, k)
  BY <1>1, <1>2, <1>3, <1>8, HoldsPastValue
<1>10. /\ i' \in 1..(Len(args) + 1) /\ i' - 1 = i
       /\ k = IF scan_opt_val' THEN i' - 1 ELSE i'
  BY <1>1, <1>2, <1>3
<1> QED BY <1>1, <1>3, <1>9, <1>10, ParsingNext

\* A value without an option before it ends the program, and is a stray one.
LEMMA ParseUnexpectedStep ==
    ASSUME IInv, ParseUnexpected
    PROVE  IInv'
<1>1. /\ ArgsOK /\ Parsing /\ UNCHANGED <<args, setting>> /\ pc' = "exit"
      /\ i <= Len(args) /\ ~args[i].isopt /\ ~scan_opt_val /\ DOMAIN setting = Settings
  BY DEF IInv, ParseUnexpected, parser
<1>2. i \in DOMAIN args /\ (i = 1 \/ ~args[i - 1].isopt)
  BY <1>1 DEF Parsing, ArgsOK
<1>3. StrayValue'
  BY <1>1, <1>2 DEF StrayValue
<1> QED BY <1>1, <1>3 DEF IInv, ArgsOK, EndingsExplained, NoSimulationExplained

\* After the last argument the options are read, none of them yet.
LEMMA ParseEndStep ==
    ASSUME IInv, ParseEnd
    PROVE  IInv'
<1>1. /\ ArgsOK /\ Parsing /\ UNCHANGED <<args, setting>> /\ pc = "parse"
      /\ i > Len(args) /\ i' = 1 /\ opt_val_map' = PushValueless
      /\ pc' = IF "build" \in DOMAIN opt_val_map' THEN "build"
               ELSE IF "run" \in DOMAIN opt_val_map' THEN "run"
               ELSE "exit"
      /\ DOMAIN setting = Settings
  BY DEF IInv, ParseEnd
<1>2. i = Len(args) + 1
  BY <1>1, OccurrencesIn DEF Parsing
<1>3. Holds(PushValueless, Len(args) + 1)
  BY <1>1, <1>2, PushHolds
<1>4. ArgsOK'
  BY <1>1 DEF ArgsOK
<1>5. Parsed'
  <2>1. PICK m, k : m = PushValueless /\ k = Len(args) + 1
    OBVIOUS
  <2>2. Holds(m, k)
    BY <1>3, <2>1
  <2>3. \A o : Occurrences(o)' = Occurrences(o)
    BY <1>1 DEF Occurrences
  <2>4. \A n : ValueAt(n)' = ValueAt(n)
    BY <1>1 DEF ValueAt
  <2>5. Holds(m, k)'
    BY <2>2, <2>3, <2>4 DEF Holds, LastBefore
  <2>6. opt_val_map' = m /\ Len(args') + 1 = k
    BY <1>1, <2>1
  <2>7. Holds(opt_val_map, Len(args) + 1)'
    BY <2>5, <2>6 DEF Holds, LastBefore, ValueAt, Occurrences
  <2>8. (ArgsOK /\ Holds(opt_val_map, Len(args) + 1))' => Parsed'
    BY HoldsAll, PTL
  <2> QED BY <1>4, <2>7, <2>8
<1>6. CASE pc' = "exit"
  <2>1. (Occurrences("run") = {})'
    BY <1>1, <1>5, <1>6 DEF Parsed
  <2> QED BY <1>1, <1>4, <1>6, <2>1 DEF IInv, EndingsExplained
<1>7. CASE pc' # "exit"
  <2>1. pc' \in {"build", "run"} /\ pc' = Mode'
    BY <1>1, <1>7 DEF Mode, IsGiven
  <2>2. \A n \in DOMAIN Reads[Mode'] : n \in Nat /\ ~(n < 1) /\ setting[Reads[Mode'][n].opt] = "default"
    BY <1>1, <2>1, ReadsOnce DEF ReadOnce, Parsing
  <2>3. 1 \in 1..(Len(Reads[Mode']) + 1)
    BY <2>1, ReadsOnce DEF ReadOnce
  <2>4. ReadingInv'
    BY <1>1, <1>5, <2>1, <2>2, <2>3 DEF ReadingInv
  <2> QED BY <1>1, <1>4, <2>1, <2>4 DEF IInv, EndingsExplained
<1> QED BY <1>6, <1>7

LEMMA ParsedStays ==
    ASSUME UNCHANGED <<args, opt_val_map>>
    PROVE  /\ \A o : Occurrences(o)' = Occurrences(o) /\ Written(o)' = Written(o)
           /\ Parsed => Parsed'
           /\ Mode' = Mode
<1>1. \A o : Occurrences(o)' = Occurrences(o)
  BY DEF Occurrences
<1>2. \A o : LastOf(o)' = LastOf(o)
  BY DEF LastOf, Occurrences
<1>3. \A o : Written(o)' = Written(o)
  BY <1>2 DEF Written
<1> QED BY <1>1, <1>3 DEF Parsed, Mode, IsGiven

LEMMA SkipOptionStep ==
    ASSUME IInv, SkipOption
    PROVE  IInv'
<1>1. /\ ReadingInv /\ ArgsOK /\ DOMAIN setting = Settings /\ UNCHANGED <<args, opt_val_map, setting, pc>>
      /\ pc \in {"build", "run"} /\ i <= Len(Reads[pc]) /\ i' = i + 1
      /\ ~IsGiven(Now.opt) /\ ~Now.always
  BY ReadsOnce DEF ReadOnce, IInv, SkipOption, Reading, parser
<1>2. /\ pc = Mode /\ i \in 1..(Len(Reads[Mode]) + 1) /\ Parsed /\ Mode' = Mode /\ Parsed'
      /\ \A o : Occurrences(o)' = Occurrences(o) /\ Written(o)' = Written(o)
  BY <1>1, ParsedStays DEF ReadingInv
<1>3. PICK p, k : p = Mode /\ k = i
  OBVIOUS
<1>4. /\ p \in DOMAIN Reads /\ Len(Reads[p]) \in Nat /\ DOMAIN Reads[p] = 1..Len(Reads[p])
      /\ k \in 1..Len(Reads[p])
  BY <1>1, <1>2, <1>3, ReadsOnce DEF ReadOnce
<1>5. \A n \in DOMAIN Reads[p] :
          IF n < k THEN Taken(Reads[p][n]) ELSE setting[Reads[p][n].opt] = "default"
  BY <1>1, <1>3 DEF ReadingInv
<1>6. Taken(Reads[p][k])
  BY <1>1, <1>2, <1>3, <1>4, <1>5 DEF Taken, Now, IsGiven, Parsed
<1>7. \A r : Taken(r) => Taken(r)'
  BY <1>1, <1>2 DEF Taken
<1>8. \A n \in DOMAIN Reads[p] :
          IF n < k + 1 THEN Taken(Reads[p][n])' ELSE setting'[Reads[p][n].opt] = "default"
  BY <1>1, <1>4, <1>5, <1>6, <1>7
<1>9. i' \in 1..(Len(Reads[p]) + 1) /\ i' = k + 1 /\ Mode' = p /\ pc' = p
  BY <1>1, <1>2, <1>3, <1>4
<1>10. ReadingInv'
  BY <1>2, <1>8, <1>9 DEF ReadingInv
<1>11. ArgsOK' /\ EndingsExplained'
  BY <1>1 DEF ArgsOK, EndingsExplained
<1> QED BY <1>1, <1>10, <1>11 DEF IInv

LEMMA TakeOptionStep ==
    ASSUME IInv, TakeOption
    PROVE  IInv'
<1>1. /\ ReadingInv /\ ArgsOK /\ DOMAIN setting = Settings /\ UNCHANGED <<args, opt_val_map>>
      /\ pc \in {"build", "run"} /\ i <= Len(Reads[pc])
  BY ReadsOnce DEF ReadOnce, IInv, TakeOption, Reading, parser
<1>2. /\ pc = Mode /\ i \in 1..(Len(Reads[Mode]) + 1) /\ Parsed /\ Mode' = Mode /\ Parsed'
      /\ \A o : Occurrences(o)' = Occurrences(o) /\ Written(o)' = Written(o)
  BY <1>1, ParsedStays DEF ReadingInv
<1>3. PICK p, k, r : p = Mode /\ k = i /\ r = Now
  OBVIOUS
<1>4. /\ p \in DOMAIN Reads /\ Len(Reads[p]) \in Nat /\ DOMAIN Reads[p] = 1..Len(Reads[p])
      /\ k \in 1..Len(Reads[p]) /\ r = Reads[p][k]
      /\ \A n \in DOMAIN Reads[p] : Reads[p][n].opt \in Settings
      /\ \A n \in DOMAIN Reads[p] : n # k => Reads[p][n].opt # r.opt
  BY <1>1, <1>2, <1>3, ReadsOnce DEF ReadOnce, Now
<1>5. \A n \in DOMAIN Reads[p] :
          IF n < k THEN Taken(Reads[p][n]) ELSE setting[Reads[p][n].opt] = "default"
  BY <1>1, <1>3 DEF ReadingInv
<1>6. IsGiven(r.opt) => Occurrences(r.opt) # {} /\ Value(r) = Written(r.opt)
  BY <1>2 DEF IsGiven, Value, Parsed
<1>7. ~IsGiven(r.opt) => r.always /\ Occurrences(r.opt) = {}
  BY <1>2, <1>3 DEF TakeOption, IsGiven, Parsed
<1>8. ArgsOK'
  BY <1>1 DEF ArgsOK
<1>9. CASE Throws(r)
  <2>1. pc' = "crash" /\ UNCHANGED <<setting, i>>
    BY <1>3, <1>9 DEF TakeOption
  <2>2. r.kind = "number" /\ Value(r) \notin Numbers
    BY <1>9 DEF Throws
  <2>3. Now' = r /\ (i <= Len(Reads[Mode]))'
    BY <1>1, <1>2, <1>3, <2>1 DEF Now
  <2>4. EndingsExplained'
    <3>1. BadNumber(r)'
      BY <1>2, <1>6, <1>7, <2>2 DEF BadNumber
    <3> QED BY <2>1, <2>3, <3>1 DEF EndingsExplained, CrashExplained
  <2> QED BY <1>1, <1>8, <2>1, <2>4 DEF IInv
<1>10. CASE ~Throws(r)
  <2>1. /\ setting' = [setting EXCEPT ![r.opt] = Converted(r, Value(r))]
        /\ i' = i + 1 /\ pc' = pc
    BY <1>3, <1>10 DEF TakeOption
  <2>2. /\ DOMAIN setting' = Settings /\ setting'[r.opt] = Converted(r, Value(r))
        /\ \A n \in DOMAIN Reads[p] :
               n # k => setting'[Reads[p][n].opt] = setting[Reads[p][n].opt]
    BY <1>1, <1>4, <2>1
  <2>3. Taken(Reads[p][k])'
    BY <1>2, <1>4, <1>6, <1>7, <2>2 DEF Taken
  <2>4. \A n \in DOMAIN Reads[p] : n # k /\ Taken(Reads[p][n]) => Taken(Reads[p][n])'
    BY <1>2, <2>2 DEF Taken
  <2>5. \A n \in DOMAIN Reads[p] :
            IF n < k + 1 THEN Taken(Reads[p][n])' ELSE setting'[Reads[p][n].opt] = "default"
    BY <1>4, <1>5, <2>2, <2>3, <2>4
  <2>6. i' \in 1..(Len(Reads[p]) + 1) /\ i' = k + 1 /\ Mode' = p /\ pc' = p
    BY <1>2, <1>3, <1>4, <2>1
  <2>7. ReadingInv'
    BY <1>2, <2>5, <2>6 DEF ReadingInv
  <2>8. EndingsExplained'
    BY <1>1, <2>1 DEF EndingsExplained
  <2> QED BY <1>1, <1>8, <2>1, <2>2, <2>7, <2>8 DEF IInv
<1> QED BY <1>9, <1>10

-----------------------------------------------------------------------------
(* How it ends.                                                            *)

\* An option whose number or string counts is set as the user wants it, but for
\* one that is read always and was not written.
AsWritten(r) ==
    r.kind \in {"number", "string"} /\ (~r.always \/ Occurrences(r.opt) # {}) =>
        setting[r.opt] = WrittenAs(r.opt)

\* Once all options are read, each is as it should be.
LEMMA SetAsWritten ==
    ASSUME IInv, pc \in {"build", "run"}, ~Reading
    PROVE  /\ pc = Mode /\ ~(i <= Len(Reads[Mode]))
           /\ \A n \in DOMAIN Reads[Mode] : Taken(Reads[Mode][n])
           /\ \A n \in DOMAIN Reads[Mode] : AsWritten(Reads[Mode][n])
<1>1. pc \in DOMAIN Reads /\ pc = Mode /\ i \in Nat /\ Len(Reads[Mode]) \in Nat
      /\ DOMAIN Reads[Mode] = 1..Len(Reads[Mode])
  BY ReadsOnce DEF IInv, ReadingInv, ReadOnce
<1>2. ~(i <= Len(Reads[Mode]))
  BY <1>1 DEF Reading
<1>3. \A n \in DOMAIN Reads[Mode] : n < i
  BY <1>1, <1>2
<1>4. \A n \in DOMAIN Reads[Mode] : Taken(Reads[Mode][n])
  BY <1>3 DEF IInv, ReadingInv
<1>5. \A r : r.kind \in {"number", "string"} => Converted(r, Written(r.opt)) = Written(r.opt)
  BY DEF Converted
<1>6. \A r : Taken(r) => AsWritten(r)
  BY <1>5 DEF Taken, WrittenAs, AsWritten
<1> QED BY <1>1, <1>2, <1>4, <1>6

\* The reasons do not change.
LEMMA ReasonsStay ==
    ASSUME UNCHANGED <<args, opt_val_map, i, env>>
    PROVE  /\ CrashExplained <=> CrashExplained'
           /\ EndlessExplained <=> EndlessExplained'
           /\ NoSimulationExplained <=> NoSimulationExplained'
           /\ \A o : Occurrences(o)' = Occurrences(o)
<1>1. /\ \A o : Occurrences(o)' = Occurrences(o) /\ Written(o)' = Written(o)
      /\ Mode' = Mode /\ Now' = Now
  BY ParsedStays DEF Now
<1>2. \A o : WrittenAs(o)' = WrittenAs(o) /\ WrittenNumber(o)' = WrittenNumber(o)
  BY <1>1 DEF WrittenAs, WrittenNumber, NumberOf
<1>3. \A r : BadNumber(r)' <=> BadNumber(r)
  BY <1>1 DEF BadNumber
<1>4. BadSimulation' <=> BadSimulation
  BY <1>1, <1>2 DEF BadSimulation
<1>5. CrashExplained <=> CrashExplained'
  BY <1>1, <1>3, <1>4 DEF CrashExplained
<1>6. EndlessExplained <=> EndlessExplained'
  BY <1>1, <1>2 DEF EndlessExplained
<1>7. NoSimulationExplained <=> NoSimulationExplained'
  BY <1>2 DEF NoSimulationExplained, StrayValue
<1> QED BY <1>1, <1>5, <1>6, <1>7

LEMMA BuildStep ==
    ASSUME IInv, Build
    PROVE  IInv'
<1>1. /\ pc = "build" /\ ~Reading /\ UNCHANGED <<args, opt_val_map, i, env, setting>>
      /\ pc' \in {"crash", "endless", "exit"} /\ ArgsOK /\ DOMAIN setting = Settings
  BY DEF Build, Ends, parser, IInv
<1>2. Mode = "build" /\ ~(i <= Len(Reads[Mode]))
  BY <1>1, SetAsWritten
<1>3. Parsed /\ (IsGiven("build") => Occurrences("build") # {})
  BY <1>1 DEF IInv, ReadingInv, Parsed, IsGiven
<1>4. Occurrences("build") # {}
  BY <1>2, <1>3 DEF Mode
<1>5. ASSUME pc' = "crash" PROVE CrashExplained
  BY <1>2, <1>5 DEF Build, Ends, CrashExplained
<1>6. ASSUME pc' = "endless" PROVE EndlessExplained
  <2>1. setting["ltype"] # "txt" \/ Number("consec") = 0
    BY <1>6 DEF Build, Ends, ReadsForever
  <2>2. Reads.build[7] = Option("ltype", "ltype", FALSE, TRUE) /\ 7 \in DOMAIN Reads.build
        /\ Reads.build[6] = Option("consec", "number", FALSE, FALSE) /\ 6 \in DOMAIN Reads.build
    BY DEF Reads
  <2>3. Reads[Mode] = Reads.build
    BY <1>2
  <2>4. setting["consec"] = WrittenAs("consec")
    <3>1. AsWritten(Reads.build[6])
      BY <1>1, <2>2, <2>3, SetAsWritten
    <3> QED BY <2>2, <3>1 DEF Option, AsWritten
  <2>5. Taken(Reads.build[7])
    BY <1>1, <2>2, <2>3, SetAsWritten
  <2>6. setting["ltype"] # "txt" => WrittenAs("ltype") # "txt"
    BY <2>2, <2>5 DEF Option, Taken, Converted, WrittenAs
  <2> QED BY <1>2, <2>1, <2>4, <2>6 DEF EndlessExplained, WrittenNumber, Number
<1>7. EndingsExplained'
  BY <1>1, <1>4, <1>5, <1>6, ReasonsStay DEF EndingsExplained
<1> QED BY <1>1, <1>7 DEF IInv, ArgsOK

LEMMA RunStep ==
    ASSUME IInv, Run
    PROVE  IInv'
<1>1. /\ pc = "run" /\ ~Reading /\ UNCHANGED <<args, opt_val_map, i, env, setting>>
      /\ pc' \in {"crash", "endless", "exit"} /\ ArgsOK /\ DOMAIN setting = Settings
  BY DEF Run, Ends, parser, IInv
<1>2. Mode = "run" /\ ~(i <= Len(Reads[Mode]))
  BY <1>1, SetAsWritten
<1>3. /\ Reads.run[1] = Option("config", "string", FALSE, FALSE) /\ 1 \in DOMAIN Reads.run
      /\ Reads.run[3] = Option("tqueue", "number", FALSE, FALSE) /\ 3 \in DOMAIN Reads.run
      /\ Reads.run[6] = Option("tenantnum", "number", TRUE, FALSE) /\ 6 \in DOMAIN Reads.run
      /\ Reads.run[7] = Option("iotlbrepl", "string", FALSE, FALSE) /\ 7 \in DOMAIN Reads.run
      /\ Reads.run[8] = Option("linkbwgbps", "number", FALSE, FALSE) /\ 8 \in DOMAIN Reads.run
  BY DEF Reads
<1>4. Reads[Mode] = Reads.run
  BY <1>2
<1>5. /\ setting["config"] = WrittenAs("config")
      /\ setting["tqueue"] = WrittenAs("tqueue")
      /\ setting["iotlbrepl"] = WrittenAs("iotlbrepl")
      /\ setting["linkbwgbps"] = WrittenAs("linkbwgbps")
      /\ Occurrences("tenantnum") # {} => setting["tenantnum"] = WrittenAs("tenantnum")
  <2>1. \A n \in DOMAIN Reads.run : AsWritten(Reads.run[n])
    BY <1>1, <1>4, SetAsWritten
  <2>2. /\ AsWritten(Option("config", "string", FALSE, FALSE))
        /\ AsWritten(Option("tqueue", "number", FALSE, FALSE))
        /\ AsWritten(Option("tenantnum", "number", TRUE, FALSE))
        /\ AsWritten(Option("iotlbrepl", "string", FALSE, FALSE))
        /\ AsWritten(Option("linkbwgbps", "number", FALSE, FALSE))
    BY <1>3, <2>1
  <2> QED BY <2>2 DEF Option, AsWritten
<1>6. /\ Number("tqueue") = WrittenNumber("tqueue")
      /\ Number("linkbwgbps") = WrittenNumber("linkbwgbps")
      /\ Occurrences("tenantnum") # {} => Number("tenantnum") = WrittenNumber("tenantnum")
  BY <1>5 DEF Number, WrittenNumber
<1>7. ASSUME pc' = "crash" PROVE CrashExplained
  <2>1. SetupDies \/ PlayDies
    BY <1>7 DEF Run, Ends
  <2>2. ~env.home \/ BadSimulation
    BY <1>5, <1>6, <2>1 DEF SetupDies, PlayDies, BadSimulation
  <2> QED BY <1>2, <2>2 DEF CrashExplained
<1>8. ASSUME pc' = "endless" PROVE EndlessExplained
  <2>1. Number("tqueue") = 0 \/ env.trace = "1GB pages"
    BY <1>8 DEF Run, Ends
  <2> QED BY <1>2, <1>6, <2>1 DEF EndlessExplained
<1>9. ASSUME pc' = "exit", ~finished' PROVE NoSimulationExplained
  <2>1. setting["iotlbrepl"] \notin Policies \/ env.trace = "absent"
    BY <1>9 DEF Run, Ends
  <2> QED BY <1>5, <2>1 DEF NoSimulationExplained
<1>10. EndingsExplained'
  BY <1>1, <1>7, <1>8, <1>9, ReasonsStay DEF EndingsExplained
<1> QED BY <1>1, <1>10 DEF IInv, ArgsOK

LEMMA NextIInv == IInv /\ [Next]_vars => IInv'
<1> SUFFICES ASSUME IInv, [Next]_vars PROVE IInv'
  OBVIOUS
<1>1. CASE ParseOption \/ ParseValue \/ ParseEnd
  BY <1>1, ParseOptionStep, ParseValueStep, ParseEndStep
<1>2. CASE SkipOption \/ TakeOption
  BY <1>2, SkipOptionStep, TakeOptionStep
<1>3. CASE ParseUnexpected \/ Build \/ Run
  BY <1>3, ParseUnexpectedStep, BuildStep, RunStep
<1>4. CASE UNCHANGED vars
  <2>1. UNCHANGED <<pc, args, i, opt, scan_opt_val, opt_val_map, setting, finished, env>>
    BY <1>4 DEF vars, parser, result
  <2>2. /\ \A o : Occurrences(o)' = Occurrences(o) /\ Written(o)' = Written(o)
        /\ Parsed => Parsed'
        /\ Mode' = Mode
    BY <2>1, ParsedStays
  <2>3. \A m, q : Holds(m, q) => Holds(m, q)'
    BY <2>1, <2>2 DEF Holds, LastBefore, ValueAt
  <2>4. ASSUME Parsing PROVE Parsing'
    <3>1. PICK m, q : m = opt_val_map /\ q = Settled
      OBVIOUS
    <3>2. Holds(m, q)'
      BY <2>3, <2>4, <3>1 DEF Parsing
    <3>3. m = opt_val_map' /\ q = Settled'
      BY <2>1, <3>1 DEF Settled
    <3>4. Holds(opt_val_map, Settled)'
      BY <3>2, <3>3 DEF Holds, LastBefore, ValueAt, Occurrences
    <3> QED BY <2>1, <2>4, <3>4 DEF Parsing
  <2>5. ReadingInv => ReadingInv'
    BY <2>1, <2>2 DEF ReadingInv, Taken
  <2>6. EndingsExplained'
    BY <2>1, ReasonsStay DEF IInv, EndingsExplained
  <2> QED BY <2>1, <2>4, <2>5, <2>6 DEF IInv, ArgsOK
<1> QED BY <1>1, <1>2, <1>3, <1>4 DEF Next

LEMMA IInvAlways == Spec => []IInv
BY InitIInv, NextIInv, PTL DEF Spec

\* Whatever the user writes, main starts its work with every option as written
\* last, or with its default if it was not written.
THEOREM OptionsAsWritten == Spec => []OptionsTaken
<1>1. IInv => OptionsTaken
  <2> SUFFICES ASSUME IInv, pc \in DOMAIN Reads, ~Reading, NEW n \in DOMAIN Reads[pc]
               PROVE  Taken(Reads[pc][n])
    BY DEF OptionsTaken, Taken
  <2>1. pc \in {"build", "run"} /\ ReadingInv
    BY ReadsOnce DEF ReadOnce, IInv
  <2>2. /\ pc = Mode /\ i \in Nat /\ ~(i <= Len(Reads[pc]))
        /\ IF n < i THEN Taken(Reads[pc][n]) ELSE setting[Reads[pc][n].opt] = "default"
    BY <2>1 DEF ReadingInv, Reading
  <2>3. n \in 1..Len(Reads[pc]) /\ Len(Reads[pc]) \in Nat
    BY ReadsOnce DEF ReadOnce
  <2>4. n < i
    BY <2>2, <2>3
  <2> QED BY <2>2, <2>4
<1> QED BY <1>1, IInvAlways, PTL

\* Whatever the user writes, and whatever the environment, the program dies, goes
\* on for ever, or exits without the simulation asked for, only for a reason that
\* can be found in what was written or in the environment.
THEOREM EndingsAreExplained == Spec => []EndingsExplained
<1>1. IInv => EndingsExplained
  BY DEF IInv
<1> QED BY <1>1, IInvAlways, PTL
=============================================================================

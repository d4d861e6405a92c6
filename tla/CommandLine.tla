---------------------------- MODULE CommandLine ----------------------------
(***************************************************************************)
(* The command line of hypersio-perf: the option parser of                 *)
(* src/optparser.cpp and main of src/main.cpp, up to the program's end.    *)
(* What main then does, building a trace (TraceBuilder.tla) or playing one *)
(* (SIOPerf.tla), is here an action with every end it can come to: the     *)
(* program exits, dies, or goes on for ever.                               *)
(*                                                                         *)
(* An argument is an option or a value; the name of an option is what      *)
(* follows its dashes.  Memory runs out only in a loop that never ends, and *)
(* the files of a trace are those of a build that was finished; simulations *)
(* of others are in Experiment.tla.                                        *)
(***************************************************************************)
EXTENDS Naturals, Sequences

CONSTANTS
    CommandLines,  \* the argument lists to start from, without argv[0]
    stoul,         \* the strings that stoul accepts, and their numbers
    Configs        \* the files that configure every cache with a group at least

Numbers == DOMAIN stoul

\* "default" is what no argument says: it stands for main's initial values, of
\* which that of --config is cache.cfg in the current directory.
ASSUME CommandLineAssumption ==
    /\ \A line \in CommandLines :
           line \in Seq([isopt : BOOLEAN, text : STRING \ {"default"}])
    /\ stoul \in [Numbers -> Nat] /\ "default" \notin Numbers

VARIABLES
    pc,
    args,            \* argv
    i,               \* the argument, and later the option, to be read next
    opt,             \* the option parsed last
    scan_opt_val,    \* it may still be given a value
    opt_val_map,     \* _opt_val_map
    opt_val,         \* the string main reads most options into
    setting,         \* main's variables, by the option that sets them
    parse_log_succ,
    finished,        \* the trace was saved, or the simulation played
    env              \* what the program finds: HYPERSIO_HOME, and a trace's files

parser == <<args, opt, scan_opt_val, opt_val_map>>
result == <<parse_log_succ, finished>>
vars == <<pc, parser, i, opt_val, setting, result, env>>

\* The options main reads, in the order it reads them.  Those it reads "always"
\* it uses without asking whether they were given; those that are "own" are not
\* read into opt_val.
Option(o, k, always, own) == [opt |-> o, kind |-> k, always |-> always, own |-> own]
Reads == [
    build |-> <<Option("tenantnum", "number", TRUE, FALSE),
                Option("maxdevperlog", "number", TRUE, FALSE),
                Option("lbase", "string", FALSE, TRUE),
                Option("tname", "string", FALSE, TRUE),
                Option("order", "string", FALSE, FALSE),
                Option("consec", "number", FALSE, FALSE),
                Option("ltype", "ltype", FALSE, TRUE)>>,
    run |-> <<Option("config", "string", FALSE, FALSE),
              Option("prefix", "string", FALSE, FALSE),
              Option("tqueue", "number", FALSE, FALSE),
              Option("inorder", "flag", FALSE, FALSE),
              Option("salloc", "flag", FALSE, FALSE),
              Option("tenantnum", "number", TRUE, FALSE),
              Option("iotlbrepl", "string", FALSE, FALSE),
              Option("linkbwgbps", "number", FALSE, FALSE)>>]

Settings == {Reads.build[n].opt : n \in DOMAIN Reads.build}
                \cup {Reads.run[n].opt : n \in DOMAIN Reads.run}

Init ==
    /\ pc = "parse" /\ args \in CommandLines /\ i = 1
    /\ opt = "" /\ scan_opt_val = FALSE /\ opt_val_map = [o \in {} |-> ""]
    /\ opt_val = ""
    /\ setting = [o \in Settings |-> "default"]
    /\ parse_log_succ = TRUE /\ finished = FALSE
    /\ env \in [home : BOOLEAN, trace : {"absent", "empty", "small pages", "1GB pages"}]

-----------------------------------------------------------------------------
\* OptParser::Parse

Put(f, x, v) == [y \in DOMAIN f \cup {x} |-> IF y = x THEN v ELSE f[y]]

\* An option that is followed by another, or by nothing, has the empty value.
PushValueless == IF scan_opt_val THEN Put(opt_val_map, opt, "") ELSE opt_val_map

\* Fault: an option followed by another one is forgotten.
ParseOptionNoPush ==
    /\ pc = "parse" /\ i <= Len(args) /\ args[i].isopt
    /\ opt' = args[i].text
    /\ scan_opt_val' = TRUE
    /\ i' = i + 1
    /\ UNCHANGED <<pc, args, opt_val_map, opt_val, setting, result, env>>

ParseOption ==
    /\ pc = "parse" /\ i <= Len(args) /\ args[i].isopt
    /\ opt_val_map' = PushValueless
    /\ opt' = args[i].text
    /\ scan_opt_val' = TRUE
    /\ i' = i + 1
    /\ UNCHANGED <<pc, args, opt_val, setting, result, env>>

\* Fault: an option that has its value is taken to wait for one still.
ParseValueKeepsScan ==
    /\ pc = "parse" /\ i <= Len(args) /\ ~args[i].isopt /\ scan_opt_val
    /\ opt_val_map' = Put(opt_val_map, opt, args[i].text)
    /\ i' = i + 1
    /\ UNCHANGED <<pc, args, opt, scan_opt_val, opt_val, setting, result, env>>

ParseValue ==
    /\ pc = "parse" /\ i <= Len(args) /\ ~args[i].isopt /\ scan_opt_val
    /\ opt_val_map' = Put(opt_val_map, opt, args[i].text)
    /\ scan_opt_val' = FALSE
    /\ i' = i + 1
    /\ UNCHANGED <<pc, args, opt, opt_val, setting, result, env>>

\* A value without an option: main gives up.
ParseUnexpected ==
    /\ pc = "parse" /\ i <= Len(args) /\ ~args[i].isopt /\ ~scan_opt_val
    /\ pc' = "exit"
    /\ UNCHANGED <<parser, i, opt_val, setting, result, env>>

\* --build goes before --run; without either there is nothing to do but help.
ParseEnd ==
    /\ pc = "parse" /\ i > Len(args)
    /\ opt_val_map' = PushValueless
    /\ pc' = IF "build" \in DOMAIN opt_val_map' THEN "build"
             ELSE IF "run" \in DOMAIN opt_val_map' THEN "run"
             ELSE "exit"
    /\ opt_val' = IF pc' = "exit" THEN opt_val ELSE opt_val_map'[pc']
    /\ i' = 1
    /\ UNCHANGED <<args, opt, scan_opt_val, setting, result, env>>

-----------------------------------------------------------------------------
\* main: one option after the other

IsGiven(o) == o \in DOMAIN opt_val_map
Mode == IF IsGiven("build") THEN "build" ELSE "run"
Reading == pc \in DOMAIN Reads /\ i <= Len(Reads[pc])
Now == Reads[Mode][i]

\* What opt_val, or the option's own string, holds after GetOpt: the value of
\* the option before if this one was not given.
Value(r) == IF IsGiven(r.opt) THEN opt_val_map[r.opt] ELSE opt_val

SkipOption ==
    /\ Reading /\ ~IsGiven(Now.opt) /\ ~Now.always
    /\ i' = i + 1
    /\ UNCHANGED <<pc, parser, opt_val, setting, result, env>>

Converted(r, v) ==
    CASE r.kind = "flag" -> "set"
      [] r.kind = "ltype" -> IF v \in {"txt", "bin"} THEN v ELSE "default"
      [] OTHER -> v

\* What stoul does, which nobody catches.
Throws(r) == r.kind = "number" /\ Value(r) \notin Numbers

TakeOption ==
    /\ Reading /\ (IsGiven(Now.opt) \/ Now.always)
    /\ opt_val' = IF Now.own THEN opt_val ELSE Value(Now)
    /\ IF Throws(Now)
       THEN /\ pc' = "crash"
            /\ UNCHANGED <<setting, i>>
       ELSE /\ setting' = [setting EXCEPT ![Now.opt] = Converted(Now, Value(Now))]
            /\ i' = i + 1
            /\ UNCHANGED pc
    /\ UNCHANGED <<parser, result, env>>

-----------------------------------------------------------------------------
\* What main does with its options, and how that ends

Policies == {"lru", "lfu", "oracle"}
MaxGbps == 1542 * 8     \* above it a packet takes less than a cycle, which makes 0
MaxDid == 65535

\* main's initial values of the numbers it may be left with.
Defaults == [tqueue |-> 1, linkbwgbps |-> 200, consec |-> 3]
NumberOf(o, text) == IF text = "default" THEN Defaults[o] ELSE stoul[text]
Number(o) == NumberOf(o, setting[o])

Ends(how, done) == pc' = how /\ finished' = done

\* A log that is not text is taken for one of no tenants, again and again.
ReadsForever == Number("tenantnum") > 0 /\ setting["ltype"] # "txt"

\* Without HYPERSIO_HOME the constructor of Trace throws.  ReadLogs may fail,
\* and then SaveTrace, which is called nevertheless, for want of a file or of a
\* known order; bursts of no translation exhaust no tenant.
Build ==
    /\ pc = "build" /\ ~Reading
    /\ \/ ~env.home /\ Ends("crash", FALSE) /\ UNCHANGED parse_log_succ
       \/ env.home /\ ReadsForever /\ Ends("endless", FALSE) /\ UNCHANGED parse_log_succ
       \/ /\ env.home /\ ~ReadsForever
          /\ parse_log_succ' \in IF Number("tenantnum") > 0 THEN BOOLEAN ELSE {TRUE}
          /\ \/ /\ setting["order"] \in {"rr", "rand", "default"}
                /\ Number("tenantnum") > 0 /\ Number("consec") = 0
                /\ Ends("endless", FALSE)
             \/ setting["order"] \in {"orig", "rr", "rand", "default"} /\ Ends("exit", TRUE)
             \/ Ends("exit", FALSE)
    /\ UNCHANGED <<parser, i, opt_val, setting, env>>

\* A simulation is not set up: the paths need HYPERSIO_HOME, the caches have no
\* groups to be divided into, a 16 bit DID counts up to a number out of its
\* range, or the packets' bits are divided by a speed of 0.
SetupDies ==
    \/ ~env.home
    \/ setting["config"] \notin Configs
    \/ Number("tenantnum") > MaxDid
    \/ Number("linkbwgbps") = 0

\* A simulation that has its trace divides by 0: by the cycles between packets,
\* or, with nothing to translate, by the time that went by.
PlayDies ==
    /\ env.trace # "absent"
    /\ \/ Number("linkbwgbps") > MaxGbps
       \/ env.trace = "empty" /\ Number("tqueue") # 0

\* A replacement policy of another name, or of none, simulates nothing.  With no
\* room for translations every packet is dropped, and a translation of a 1GB
\* page may be lost.
Run ==
    /\ pc = "run" /\ ~Reading
    /\ \/ setting["iotlbrepl"] \notin Policies /\ Ends("exit", FALSE)
       \/ /\ setting["iotlbrepl"] \in Policies
          /\ \/ (SetupDies \/ PlayDies) /\ Ends("crash", FALSE)
             \/ ~SetupDies /\ env.trace = "absent" /\ Ends("exit", FALSE)
             \/ /\ ~SetupDies /\ ~PlayDies /\ env.trace # "absent"
                /\ \/ /\ Number("tqueue") = 0 \/ env.trace = "1GB pages"
                      /\ Ends("endless", FALSE)
                   \/ Number("tqueue") # 0 /\ Ends("exit", TRUE)
    /\ UNCHANGED <<parser, i, opt_val, setting, parse_log_succ, env>>

Next ==
    \/ ParseOption \/ ParseValue \/ ParseUnexpected \/ ParseEnd
    \/ SkipOption \/ TakeOption
    \/ Build \/ Run

Spec == Init /\ [][Next]_vars

\* The value main returns.
ExitCode == IF parse_log_succ THEN 0 ELSE 1

-----------------------------------------------------------------------------
\* What the user wrote, read off the arguments: an option's last occurrence
\* counts, and its value is the argument after it unless that is an option.
Occurrences(o) == {n \in DOMAIN args : args[n].isopt /\ args[n].text = o}
LastOf(o) == CHOOSE n \in Occurrences(o) : \A m \in Occurrences(o) : m <= n
Written(o) ==
    IF LastOf(o) < Len(args) /\ ~args[LastOf(o) + 1].isopt THEN args[LastOf(o) + 1].text ELSE ""

\* When main starts its work, each option it reads is set as written, and to its
\* default if it was not written (OptParser and the chain of GetOpt in main).
\* Nothing is said of an option that is read always and was not written: it takes
\* the value of the option read before it.
OptionsTaken ==
    pc \in DOMAIN Reads /\ ~Reading =>
        \A n \in DOMAIN Reads[pc] :
            LET r == Reads[pc][n]
            IN  IF Occurrences(r.opt) # {} THEN setting[r.opt] = Converted(r, Written(r.opt))
                ELSE r.always \/ setting[r.opt] = "default"

\* What the user wants of an option, in main's terms.
WrittenAs(o) == IF Occurrences(o) = {} THEN "default" ELSE Written(o)
WrittenNumber(o) == NumberOf(o, WrittenAs(o))

\* A number is wanted, and was not written or is none.
BadNumber(r) ==
    /\ r.kind = "number"
    /\ IF Occurrences(r.opt) = {} THEN r.always ELSE Written(r.opt) \notin Numbers

\* What was written, or is found, gives a simulation a reason to die.
BadSimulation ==
    \/ WrittenAs("config") \notin Configs
    \/ Occurrences("tenantnum") = {} \/ WrittenNumber("tenantnum") > MaxDid
    \/ WrittenNumber("linkbwgbps") = 0 \/ WrittenNumber("linkbwgbps") > MaxGbps
    \/ env.trace = "empty"

CrashExplained ==
    IF i <= Len(Reads[Mode]) THEN BadNumber(Now)
    ELSE ~env.home \/ (Mode = "run" /\ BadSimulation)

EndlessExplained ==
    CASE Mode = "build" -> WrittenAs("ltype") # "txt" \/ WrittenNumber("consec") = 0
      [] Mode = "run" -> WrittenNumber("tqueue") = 0 \/ env.trace = "1GB pages"

\* A value follows no option.
StrayValue == \E n \in DOMAIN args : ~args[n].isopt /\ (n = 1 \/ ~args[n - 1].isopt)

NoSimulationExplained ==
    StrayValue \/ WrittenAs("iotlbrepl") \notin Policies \/ env.trace = "absent"

\* The program dies, goes on for ever, or exits without the simulation it was
\* asked for (--run), only for a reason to be found in what the user wrote last
\* of an option, or in the environment: never for what OptParser and GetOpt
\* made of it.  A number that is read always, and was not written, is a reason.
EndingsExplained ==
    /\ pc = "crash" => CrashExplained
    /\ pc = "endless" => EndlessExplained
    /\ pc = "exit" /\ ~finished /\ Occurrences("run") # {} /\ Occurrences("build") = {} =>
           NoSimulationExplained
=============================================================================

----------------------------- MODULE Experiment -----------------------------
(***************************************************************************)
(* From a hyper-tenant trace to a log with statistics.  Three kinds of     *)
(* processes that communicate by files only:                               *)
(*   - the builder that hypersio-trace-gen starts writes the three data    *)
(*     files of a trace (Trace::SaveTrace);                                *)
(*   - hypersio-perf-explore writes the cache configuration of an          *)
(*     experiment, opens its log and starts the simulation;                *)
(*   - the simulation reads the configuration (the constructor of          *)
(*     SIOPerf), the contexts and page table entries (SetupEnv) and then   *)
(*     the trace (PlayIOVATrace), and prints its statistics.               *)
(* Nothing makes one wait for another but the exploration for its          *)
(* simulations; all can be interrupted and started again.                  *)
(*                                                                         *)
(* There is one experiment: one trace, one configuration.  Its log has the *)
(* same name for every exploration: those with the same --logdir, as all   *)
(* that are started without one, look for the same file and write it.  How *)
(* a trace is built is TraceBuilder.tla, what the simulator does with it   *)
(* SIOPerf.tla.                                                            *)
(* A file is a sequence of fields, in the order of the write calls; a      *)
(* stream reaches the disk in pieces that end anywhere, inside an event as *)
(* well.  A field cut in two is one not yet there.                         *)
(***************************************************************************)
EXTENDS Naturals, SequencesExt

CONSTANTS
    TraceLen, ContextNum, PageNum,  \* events in each data file of the trace
    HugeEvents,       \* the events of the trace that translate pages of 1GB
    Explorers,        \* explorations that may run at once
    LogDirs,          \* values of --logdir
    DefaultDir,       \* the one without the option, SIOPERF_RUN_LOG_DIR
    Copies,           \* how often an exploration lists the experiment
    MaxStarts,        \* bound on the builds and explorations started
    PieceEnds         \* fields of an event a piece that reaches the disk may end after

ASSUME ExperimentAssumption ==
    /\ TraceLen \in Nat /\ ContextNum \in Nat /\ PageNum \in Nat
    /\ HugeEvents \subseteq 1..TraceLen /\ DefaultDir \in LogDirs
    /\ Copies \in Nat /\ MaxStarts \in Nat
    /\ PieceEnds \subseteq Nat /\ 0 \in PieceEnds

VARIABLES
    file,       \* the data files, by name
    build,      \* the file the builder is writing, or "idle"
    config,     \* the configuration file
    log,        \* the log of the experiment in each directory
    explore,    \* where each exploration is, the copies it has dealt with, its
                \* --logdir, and (a history of it) whether it has raced
    sim,        \* the simulation started for each copy
    starts      \* builds and explorations started

trace_gen == <<file, build>>
explorer == <<config, explore>>
vars == <<trace_gen, explorer, log, sim, starts>>

-----------------------------------------------------------------------------
\* What each class of event writes and reads, in this order.  The type of an
\* event of the trace is read by PlayIOVATrace, ahead of the rest.
TranslateWrites == <<"type", "sid", "did", "iova", "mask", "lvl", "slpte", "nat">>
TranslateReads == <<"sid", "did", "iova", "mask", "lvl", "slpte", "nat">>

CCWrites == <<"sid", "high", "low", "gen">>
CCReads == <<"sid", "high", "low", "gen">>
SlpteWrites == <<"did", "slpte_addr", "lvl", "slpte", "iova", "paddr">>
SlpteReads == <<"did", "slpte_addr", "lvl", "slpte", "iova", "paddr">>

\* The n-th event of a file; the value of a field tells the field and the event.
Event(fields, n) == [f \in ToSet(fields) |-> <<f, n>>]
Events(fields, num) == [n \in 1..num |-> Event(fields, n)]

\* The fields of the n-th event in the order they are written.
Serialized(fields, num) ==
    [p \in 1..(num * Len(fields)) |->
        <<fields[((p - 1) % Len(fields)) + 1], ((p - 1) \div Len(fields)) + 1>>]

Layout == [iova |-> TranslateWrites, cc |-> CCWrites, slpt |-> SlpteWrites]
Content == [iova |-> Serialized(TranslateWrites, TraceLen),
            cc   |-> Serialized(CCWrites, ContextNum),
            slpt |-> Serialized(SlpteWrites, PageNum)]

NoFile == <<"absent">>

\* A field no read call has set: what the constructor left there, if anything.
Unread == <<>>

\* ReadFromFile at a position of a stream: fields beyond its end are not set.
ReadFromFile(f, at, fields) ==
    [x \in ToSet(fields) |->
        LET i == CHOOSE j \in DOMAIN fields : fields[j] = x
        IN  IF at + i <= Len(f) THEN f[at + i] ELSE Unread]

\* Fault: the events are put into the map before the end of file is noticed.
LoadEventsCut(f, fields) ==
    {ReadFromFile(f, at, fields) : at \in {a \in 0..Len(f) : a % Len(fields) = 0}}

\* ReadCCData and ReadSLPTData: whole events; one the file ends in is discarded.
LoadEvents(f, fields) ==
    {ReadFromFile(f, at, fields) :
        at \in {a \in 0..Len(f) : a % Len(fields) = 0 /\ a + Len(fields) <= Len(f)}}

-----------------------------------------------------------------------------
\* Stages of a simulation that is still running.
Running == {"configure", "open", "pages", "play", "drain", "hung"}

NoSim == [stage |-> "none", trace_open |-> FALSE, contexts |-> {}, pages |-> {},
          played |-> <<>>, calm |-> FALSE]

\* What a log holds: nothing but the command line; the statistics, in which
\* PrintStat reports _trans_cnt, the translations played; or those of one
\* simulation written over those of another.
NoLog == <<"absent">>
Started == <<"command line">>
Statistics(n) == <<"statistics", n>>
Mixed == <<"mixed">>

HasStatistics(l) == Len(l) = 2

\* An exploration that is not running.
Idle == [at |-> "idle", copy |-> 0, dir |-> DefaultDir, raced |-> FALSE]

Init ==
    /\ file = [f \in DOMAIN Content |-> NoFile]
    /\ build = "idle"
    /\ config = "absent"
    /\ log = [d \in LogDirs |-> NoLog]
    /\ explore = [e \in Explorers |-> Idle]
    /\ sim = [s \in Explorers \X (1..Copies) |-> NoSim]
    /\ starts = 0

-----------------------------------------------------------------------------
(* The builder *)

\* SaveTrace writes the trace first; opening a stream empties its file.
NextFile == [idle |-> "iova", iova |-> "cc", cc |-> "slpt", slpt |-> "idle"]

Open(f) == file' = IF f = "idle" THEN file ELSE [file EXCEPT ![f] = <<>>]

\* A simulation underway is from now on one that the builder may disturb.
BuildStart ==
    /\ build = "idle" /\ starts < MaxStarts
    /\ build' = NextFile[build] /\ starts' = starts + 1
    /\ Open(build')
    /\ sim' = [s \in DOMAIN sim |-> [sim[s] EXCEPT !.calm = @ /\ sim[s].stage = "exited"]]
    /\ UNCHANGED <<explorer, log>>

\* WriteToFile of further events, as far as they have reached the disk.
Flush ==
    /\ build # "idle"
    /\ \E n \in Len(file[build]) + 1..Len(Content[build]) :
          /\ n % Len(Layout[build]) \in PieceEnds
          /\ file' = [file EXCEPT ![build] = SubSeq(Content[build], 1, n)]
    /\ UNCHANGED <<build, explorer, log, sim, starts>>

\* The stream is closed and the next file opened; the result of no write call is
\* looked at, so that this also follows one that failed (the disk is full).
CloseFile ==
    /\ build # "idle"
    /\ build' = NextFile[build]
    /\ Open(build')
    /\ UNCHANGED <<explorer, log, sim, starts>>

BuildInterrupted ==
    /\ build # "idle" /\ build' = "idle"
    /\ UNCHANGED <<file, explorer, log, sim, starts>>

Whole == build = "idle" /\ file = Content

-----------------------------------------------------------------------------
(* The exploration *)

ExploreStart(e) ==
    /\ explore[e].at = "idle" /\ starts < MaxStarts
    /\ \E d \in LogDirs :
          explore' = [explore EXCEPT ![e] = [Idle EXCEPT !.at = "check", !.copy = 1, !.dir = d]]
    /\ starts' = starts + 1
    /\ sim' = [s \in DOMAIN sim |-> IF s[1] = e THEN NoSim ELSE sim[s]]
    /\ UNCHANGED <<trace_gen, config, log>>

\* Where the loop over the list of experiments goes after a copy.
AfterCopy(e) ==
    IF explore[e].copy < Copies
    THEN [explore[e] EXCEPT !.at = "check", !.copy = explore[e].copy + 1]
    ELSE [explore[e] EXCEPT !.at = "wait"]

\* Fault: the loop does not go on after a copy it skips.
SkipForever(e) == explore[e]

\* "Log exists! Skipping..."
SkipCopy(e) == AfterCopy(e)

\* Fault: the path looked at is that of the log in some other directory.
LogExistsAnywhere(e) == \E d \in LogDirs \ {explore[e].dir} : log[d] # NoLog

\* os.path.exists of the log.
LogExists(e) == log[explore[e].dir] # NoLog

\* The stages from the look at the log to its creation.
Between == {"open config", "close config", "launch"}

\* Other explorations that have found the same log absent and not created it yet.
Racers(e) ==
    {x \in Explorers \ {e} : explore[x].at \in Between /\ explore[x].dir = explore[e].dir}

\* All in such a race that e joins, if there is one.
Race(e) == IF Racers(e) = {} THEN {} ELSE Racers(e) \cup {e}

\* The loop looks at the next copy of the experiment, and skips it ...
CheckFound(e) ==
    /\ LogExists(e)
    /\ explore' = [explore EXCEPT ![e] = SkipCopy(e)]

\* ... or goes on to create its log, even if others have come as far.
CheckAbsent(e) ==
    /\ ~LogExists(e)
    /\ explore' = [x \in Explorers |->
          [explore[x] EXCEPT !.at = IF x = e THEN "open config" ELSE @,
                             !.raced = @ \/ x \in Race(e)]]

CheckLog(e) ==
    /\ explore[e].at = "check"
    /\ CheckFound(e) \/ CheckAbsent(e)
    /\ UNCHANGED <<trace_gen, config, log, sim, starts>>

\* WriteConfig empties the file, whose name does not depend on --logdir, ...
OpenConfig(e) ==
    /\ explore[e].at = "open config"
    /\ config' = "empty"
    /\ explore' = [explore EXCEPT ![e].at = "close config"]
    /\ sim' = [s \in DOMAIN sim |->
                  [sim[s] EXCEPT !.calm = @ /\ sim[s].stage # "configure"]]
    /\ UNCHANGED <<trace_gen, log, starts>>

\* ... and has written it when it closes it.
CloseConfig(e) ==
    /\ explore[e].at = "close config"
    /\ config' = "written"
    /\ explore' = [explore EXCEPT ![e].at = "launch"]
    /\ UNCHANGED <<trace_gen, log, sim, starts>>

\* Fault: the log is left to the simulation to create.
CreateLogLate(e) == log' = log

\* open(..., 'w') empties a log that has come into being since it was looked for.
CreateLog(e) == log' = [log EXCEPT ![explore[e].dir] = Started]

\* The log is opened, the command line written to it, and a process started.
Launch(e) ==
    /\ explore[e].at = "launch"
    /\ CreateLog(e)
    /\ sim' = [sim EXCEPT ![<<e, explore[e].copy>>] =
                  [NoSim EXCEPT !.stage = "configure",
                                !.calm = /\ Whole /\ config = "written"
                                          /\ ~explore[e].raced]]
    /\ explore' = [explore EXCEPT ![e] = AfterCopy(e)]
    /\ UNCHANGED <<trace_gen, config, starts>>

SimsOf(e) == {s \in DOMAIN sim : s[1] = e}

\* p.wait() for every process started.
ExploreEnd(e) ==
    /\ explore[e].at = "wait"
    /\ \A s \in SimsOf(e) : sim[s].stage \notin Running
    /\ explore' = [explore EXCEPT ![e].at = "idle"]
    /\ UNCHANGED <<trace_gen, config, log, sim, starts>>

\* An exploration is interrupted together with its simulations; the files stay.
Interrupted(e) ==
    /\ explore[e].at # "idle"
    /\ explore' = [explore EXCEPT ![e] = Idle]
    /\ sim' = [s \in DOMAIN sim |-> IF s[1] = e THEN NoSim ELSE sim[s]]
    /\ UNCHANGED <<trace_gen, config, log, starts>>

-----------------------------------------------------------------------------
(* A simulation *)

Step(s, from, to) ==
    /\ sim[s].stage = from
    /\ sim' = [sim EXCEPT ![s] = to]
    /\ UNCHANGED <<trace_gen, explorer, starts>>

Exit(s) == [sim[s] EXCEPT !.stage = "exited", !.contexts = {}, !.pages = {}, !.played = <<>>]

\* The constructor.  An empty file is no error to ReadCacheConfig, and its
\* result is ignored anyway: all sizes stay 0, and the context cache divides by
\* its 0 groups.
Configure(s) ==
    /\ Step(s, "configure", IF config = "written" THEN [sim[s] EXCEPT !.stage = "open"]
                            ELSE Exit(s))
    /\ UNCHANGED log

\* PlayIOVATrace opens the trace, and looks at the result only when it has read
\* the contexts, which it does not do without their file.
ReadCCData(s) ==
    /\ Step(s, "open", IF file.cc = NoFile THEN Exit(s)
                       ELSE [sim[s] EXCEPT !.stage = "pages",
                                           !.trace_open = file.iova # NoFile,
                                           !.contexts = LoadEvents(file.cc, CCReads)])
    /\ UNCHANGED log

ReadSLPTData(s) ==
    /\ Step(s, "pages", IF file.slpt = NoFile \/ ~sim[s].trace_open THEN Exit(s)
                        ELSE [sim[s] EXCEPT !.stage = "play",
                                            !.pages = LoadEvents(file.slpt, SlpteReads)])
    /\ UNCHANGED log

\* The file ended inside the last event read.
IsCut(s) ==
    /\ sim[s].played # <<>>
    /\ \E f \in ToSet(TranslateReads) : Last(sim[s].played)[f] = Unread

Position(s) == Len(sim[s].played) * Len(TranslateWrites)

\* Fault: the loop goes on while there is more than one event.
AtEndEarly(s) == IsCut(s) \/ Position(s) + Len(TranslateWrites) >= Len(file.iova)

\* The type of the next event is not there: the end of file is looked at here
\* only.  A stream that has reached it once reads nothing more.
AtEnd(s) == IsCut(s) \/ Position(s) >= Len(file.iova)

\* One event of the trace is read and translated, even if the file ends in it.
PlayEvent(s) ==
    /\ ~AtEnd(s)
    /\ Step(s, "play",
            [sim[s] EXCEPT !.played = Append(@,
                ReadFromFile(file.iova, Position(s) + 1, TranslateReads))])
    /\ UNCHANGED log

EndTrace(s) ==
    /\ AtEnd(s)
    /\ Step(s, "play", [sim[s] EXCEPT !.stage = "drain"])
    /\ UNCHANGED log

\* An event of whatever level was in memory, and one of a page of 1GB, may be
\* scheduled nowhere, and the loop that drains the translations waits for it
\* forever.
Hang(s) ==
    /\ IsCut(s) \/ DOMAIN sim[s].played \cap HugeEvents # {}
    /\ Step(s, "drain", [sim[s] EXCEPT !.stage = "hung"])
    /\ UNCHANGED log

\* What a log holds after statistics are printed: a simulation prints at the
\* place in the file it has come to, over what another has printed there.
Printed(l, n) == IF l = Started THEN {Statistics(n)} ELSE {Statistics(n), Mixed}

\* The statistics are printed; no time has passed if nothing was played, and
\* the division by it ends the program before it has written them.
PrintStat(s) ==
    LET d == explore[s[1]].dir IN
    /\ Step(s, "drain", Exit(s))
    /\ IF sim[s].played = <<>> THEN log' = log
       ELSE \E l \in Printed(log[d], Len(sim[s].played)) : log' = [log EXCEPT ![d] = l]

\* A simulation that runs takes its next step.
Simulate(s) ==
    /\ sim[s].stage \in Running
    /\ \/ Configure(s) \/ ReadCCData(s) \/ ReadSLPTData(s)
       \/ PlayEvent(s) \/ EndTrace(s) \/ Hang(s) \/ PrintStat(s)

Explore(e) ==
    \/ CheckLog(e) \/ OpenConfig(e) \/ CloseConfig(e) \/ Launch(e) \/ ExploreEnd(e)

Next ==
    \/ BuildStart \/ Flush \/ CloseFile \/ BuildInterrupted
    \/ \E e \in Explorers : ExploreStart(e) \/ Explore(e) \/ Interrupted(e)
    \/ \E s \in DOMAIN sim : Simulate(s)

\* The processes that run are scheduled; nobody is obliged to start one.
Fairness ==
    /\ \A e \in Explorers : WF_vars(Explore(e))
    /\ \A s \in Explorers \X (1..Copies) : WF_vars(Simulate(s))

Spec == Init /\ [][Next]_vars /\ Fairness

-----------------------------------------------------------------------------
\* What a simulation has read is what the builder wrote (the three pairs of
\* WriteToFile and ReadFromFile, and the discarding of incomplete events by
\* ReadCCData and ReadSLPTData), although it may read while the builder writes or
\* starts again: every context and page table entry is one of the trace, and the
\* translations played are its first ones, of which the last alone may be cut.
ReadAsWritten ==
    \A s \in DOMAIN sim : LET r == sim[s] IN
        /\ r.contexts \subseteq ToSet(Events(CCWrites, ContextNum))
        /\ r.pages \subseteq ToSet(Events(SlpteWrites, PageNum))
        /\ Len(r.played) <= TraceLen
        /\ \A n \in DOMAIN r.played, f \in ToSet(TranslateReads) :
              \/ r.played[n][f] = <<f, n>>
              \/ r.played[n][f] = Unread /\ n = Len(r.played)

\* A simulation that starts on a finished trace, and during which no trace is
\* built, no other exploration rewrites the configuration before it has read
\* it, or has raced its own for the log, plays the whole trace and leaves its
\* statistics, or hangs on a page of 1GB: logs that are short, or have none,
\* come from disturbances and from such pages only.
UndisturbedRunsAreRight ==
    \A s \in DOMAIN sim : sim[s].calm =>
        /\ sim[s].stage = "exited" => log[explore[s[1]].dir] = Statistics(TraceLen)
        /\ sim[s].stage = "hung" => DOMAIN sim[s].played \cap HugeEvents # {}

\* The check of os.path.exists keeps a log to one simulation, even if the
\* experiment is listed twice, an exploration is started again, or several
\* share a --logdir, as they do by default.  There is one way around it, which
\* the code leaves open: two explorations that were both between the check and
\* the creation of the log it is about; then each of the two has raced.
OneSimulationPerLog ==
    \A s, r \in DOMAIN sim :
        /\ s # r /\ sim[s].stage # "none" /\ sim[r].stage # "none"
        /\ explore[s[1]].dir = explore[r[1]].dir
        => s[1] # r[1] /\ explore[s[1]].raced /\ explore[r[1]].raced

\* Statistics once measured are not lost, whatever is started again or
\* interrupted, but to an exploration that has raced another for their log: by
\* its open(..., 'w'), or by what its simulation prints over them.
StatisticsKept ==
    [][\A d \in LogDirs : HasStatistics(log[d]) /\ log'[d] # log[d] =>
          \E e \in Explorers :
              explore[e].at # "idle" /\ explore[e].dir = d /\ explore[e].raced]_vars

\* An exploration ends, unless it has a simulation that hangs in the drain loop,
\* on a translation cut short or on one of a page of 1GB.
ExplorationEnds ==
    \A e \in Explorers :
        explore[e].at # "idle" ~>
            \/ explore[e].at = "idle"
            \/ \E s \in SimsOf(e) : sim[s].stage = "hung"
=============================================================================

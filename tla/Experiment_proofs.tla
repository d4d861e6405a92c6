--------------------------- MODULE Experiment_proofs ---------------------------
(***************************************************************************)
(* Theorems about Experiment.tla, for any number of explorations, log      *)
(* directories, copies of the experiment, starts and interruptions, and    *)
(* any trace: explorations that do not race for a log write it by one      *)
(* simulation, statistics are lost to those that race only, what is read   *)
(* of a trace is what was written, and a simulation that is not disturbed  *)
(* reads it all.                                                           *)
(***************************************************************************)
EXTENDS Experiment, SequenceTheorems, TLAPS

-----------------------------------------------------------------------------
(* The invariant. *)

Sims == Explorers \X (1..Copies)

\* Values have their shape: records with their fields, functions with their domain.
IsSim(r) ==
    r = [stage |-> r.stage, trace_open |-> r.trace_open, contexts |-> r.contexts,
         pages |-> r.pages, played |-> r.played, calm |-> r.calm]
SimsOK ==
    /\ sim = [s \in Sims |-> sim[s]]
    /\ \A s \in Sims : IsSim(sim[s])
Places == {"idle", "check", "open config", "close config", "launch", "wait"}
Place == [at : Places, copy : Nat, dir : LogDirs, raced : BOOLEAN]
ExploreOK == explore \in [Explorers -> Place]
LogOK == log = [d \in LogDirs |-> log[d]]

\* An exploration is engaged with its log from the time it has found it absent,
\* and for as long as it has a simulation that writes it or has written it.
HasSim(e) == \E s \in Sims : s[1] = e /\ sim[s].stage # "none"
Engaged(e) == explore[e].at \in Between \/ HasSim(e)

\* Two of them in one directory have raced; the second finds the log otherwise.
EngagedRaced ==
    \A e, f \in Explorers :
        /\ e # f /\ explore[e].dir = explore[f].dir
        /\ Engaged(e) /\ Engaged(f)
        => explore[e].raced

\* Until its creation the log is absent, unless another one was as fast, ...
StillAbsent ==
    \A e \in Explorers :
        explore[e].at \in Between /\ ~explore[e].raced => log[explore[e].dir] = NoLog

\* ... and there is no simulation of this exploration before that, ...
NoneBetween == \A e \in Explorers : explore[e].at \in Between => ~HasSim(e)
NoneWithoutLog == \A e \in Explorers : HasSim(e) => log[explore[e].dir] # NoLog

\* ... and no second one after it.
OwnOnce ==
    \A s, r \in Sims :
        s[1] = r[1] /\ sim[s].stage # "none" /\ sim[r].stage # "none" => s = r

\* While the simulation runs the log has no statistics, and is waited for.
RunningStarted ==
    \A s \in Sims : sim[s].stage \in Running =>
        /\ explore[s[1]].at # "idle"
        /\ ~explore[s[1]].raced => log[explore[s[1]].dir] = Started

\* A calm one has been started by an exploration that has not raced.
CalmUnraced ==
    \A s \in Sims : sim[s].calm => sim[s].stage # "none" /\ ~explore[s[1]].raced

IInv ==
    /\ SimsOK /\ ExploreOK /\ LogOK
    /\ EngagedRaced /\ StillAbsent /\ NoneBetween /\ NoneWithoutLog
    /\ OwnOnce /\ RunningStarted /\ CalmUnraced

\* A step leaves statistics alone, but those of a log that one who has raced is
\* engaged with.
StatisticsStay ==
    \A d \in LogDirs : HasStatistics(log[d]) /\ log'[d] # log[d] =>
        \E e \in Explorers : /\ explore[e].at # "idle" /\ explore[e].dir = d
                             /\ explore[e].raced /\ Engaged(e)

\* The directory stays that of the calm simulations.
DirsStay == \A s \in Sims : sim'[s].calm => explore'[s[1]].dir = explore[s[1]].dir

-----------------------------------------------------------------------------
(* Steps, by what they change. *)

\* The contents a log may have are told apart.
LEMMA LogsDiffer ==
    /\ Started # NoLog /\ ~HasStatistics(Started) /\ ~HasStatistics(NoLog) /\ Mixed # NoLog
    /\ \A n : HasStatistics(Statistics(n)) /\ Statistics(n) # NoLog /\ Statistics(n) # Started
<1>1. /\ Len(<<"command line">>) # 2 /\ Len(<<"absent">>) # 2
      /\ <<"command line">> # <<"absent">> /\ <<"mixed">> # <<"absent">>
    OBVIOUS
<1>2. ASSUME NEW n
      PROVE  /\ <<"statistics", n>> # <<"absent">> /\ <<"statistics", n>> # <<"command line">>
             /\ Len(<<"statistics", n>>) = 2
    <2>1. /\ <<"statistics", n>>[1] = "statistics" /\ Len(<<"statistics", n>>) = 2
          /\ <<"absent">>[1] = "absent" /\ <<"command line">>[1] = "command line"
        OBVIOUS
    <2>2. "statistics" # "absent" /\ "statistics" # "command line"
        OBVIOUS
    <2> QED
        BY <2>1, <2>2, Zenon
<1> QED
    BY <1>1, <1>2 DEF Started, NoLog, Mixed, Statistics, HasStatistics

\* The stages of a simulation that has not been started, or has ended, are not
\* those of a running one.
LEMMA NotRunning == "none" \notin Running /\ "exited" \notin Running
BY DEF Running

\* A simulation has an exploration, and the exploration a place and a directory.
LEMMA Shapes ==
    ASSUME SimsOK, ExploreOK
    PROVE  /\ DOMAIN sim = Sims /\ \A s \in Sims : s[1] \in Explorers
           /\ \A e \in Explorers : /\ explore[e].at \in Places /\ explore[e].dir \in LogDirs
                                   /\ explore[e].copy \in Nat /\ explore[e].raced \in BOOLEAN
BY DEF SimsOK, ExploreOK, Sims, Place

\* A step in which an exploration comes no nearer to its log, and its simulations
\* stay where they are, ...
Kept(e) ==
    /\ explore'[e].dir = explore[e].dir /\ explore'[e].raced = explore[e].raced
    /\ explore'[e].at \in Between => explore[e].at \in Between
    /\ \A s \in Sims : s[1] = e =>
          /\ sim'[s].stage = sim[s].stage /\ (sim'[s].calm => sim[s].calm)
          /\ sim[s].stage \in Running /\ explore'[e].at = "idle" => explore[e].at = "idle"

\* ... or it forgets them and is away from it.
Cleared(e) ==
    /\ explore'[e].at \notin Between
    /\ \A s \in Sims : s[1] = e => sim'[s].stage = "none" /\ ~sim'[s].calm

LEMMA QuietStep ==
    ASSUME IInv, SimsOK', ExploreOK', log' = log, \A e \in Explorers : Kept(e) \/ Cleared(e)
    PROVE  IInv' /\ StatisticsStay /\ DirsStay
<1>1. \A s \in Sims : s[1] \in Explorers
    BY Shapes DEF IInv
<1>2. \A e \in Explorers : Cleared(e) => ~HasSim(e)' /\ ~Engaged(e)'
    BY DEF Cleared, HasSim, Engaged
<1>3. \A e \in Explorers : Kept(e) => /\ HasSim(e)' => HasSim(e)
                                      /\ Engaged(e)' => Engaged(e)
    BY DEF Kept, HasSim, Engaged
<1>4. EngagedRaced'
    <2> SUFFICES ASSUME NEW e \in Explorers, NEW f \in Explorers, e # f,
                        explore'[e].dir = explore'[f].dir, Engaged(e)', Engaged(f)'
                 PROVE  explore'[e].raced
        BY DEF EngagedRaced
    <2>1. Kept(e) /\ Kept(f)
        BY <1>2
    <2>2. Engaged(e) /\ Engaged(f)
        BY <1>3, <2>1
    <2>3. explore'[e].raced = explore[e].raced /\ explore[e].dir = explore[f].dir
        BY <2>1 DEF Kept
    <2> QED
        BY <2>2, <2>3 DEF IInv, EngagedRaced
<1>5. StillAbsent' /\ NoneBetween'
    BY <1>2, <1>3 DEF IInv, StillAbsent, NoneBetween, Kept, Cleared
<1>6. NoneWithoutLog'
    BY <1>2, <1>3 DEF IInv, NoneWithoutLog, Kept
<1>7. OwnOnce'
    BY <1>1 DEF IInv, OwnOnce, Kept, Cleared
<1>8. RunningStarted'
    BY <1>1, NotRunning DEF IInv, RunningStarted, Kept, Cleared
<1>9. CalmUnraced' /\ DirsStay
    BY <1>1 DEF IInv, CalmUnraced, DirsStay, Kept, Cleared
<1>10. LogOK' /\ StatisticsStay
    BY DEF IInv, LogOK, StatisticsStay
<1> QED
    BY <1>4, <1>5, <1>6, <1>7, <1>8, <1>9, <1>10 DEF IInv

\* What a step that leaves the explorations alone does to those whose simulations
\* it does not move.
LEMMA SimsAlone ==
    ASSUME explore' = explore, \A s \in Sims : sim'[s].stage = sim[s].stage /\ (sim'[s].calm => sim[s].calm)
    PROVE  \A e \in Explorers : Kept(e)
BY DEF Kept

\* A simulation goes on: it runs on, or ends with or without statistics.
Printing(s) ==
    \/ log' = log
    \/ \E l \in Printed(log[explore[s[1]].dir], Len(sim[s].played)) :
          log' = [log EXCEPT ![explore[s[1]].dir] = l]

LEMMA SimStep ==
    ASSUME IInv, NEW s \in Sims, NEW r,
           sim[s].stage \in Running, sim' = [sim EXCEPT ![s] = r], IsSim(r),
           explore' = explore, r.stage \in Running \cup {"exited"}, r.calm => sim[s].calm,
           \/ log' = log
           \/ Printing(s) /\ r.stage = "exited"
    PROVE  IInv' /\ StatisticsStay /\ DirsStay
<1> DEFINE e == s[1]
           d == explore[e].dir
<1>1. e \in Explorers /\ d \in LogDirs /\ \A q \in Sims : q[1] \in Explorers
    BY Shapes DEF IInv
<1>2. /\ SimsOK' /\ ExploreOK'
      /\ sim'[s] = r /\ \A q \in Sims : q # s => sim'[q] = sim[q]
    BY DEF IInv, SimsOK, ExploreOK
<1>3. sim[s].stage # "none" /\ r.stage # "none"
    BY NotRunning
<1>4. \A f \in Explorers : HasSim(f)' = HasSim(f) /\ Engaged(f)' = Engaged(f)
    BY <1>2, <1>3 DEF HasSim, Engaged
<1>5. HasSim(e) /\ Engaged(e)
    BY <1>3 DEF HasSim, Engaged
<1>6. LogOK' /\ (log'[d] = log[d] \/ log'[d] # NoLog) /\ \A c \in LogDirs : c # d => log'[c] = log[c]
    <2>1. CASE log' = log
        BY <2>1 DEF IInv, LogOK
    <2>2. CASE log' # log
        <3>1. PICK l \in Printed(log[d], Len(sim[s].played)) : log' = [log EXCEPT ![d] = l]
            BY <2>2 DEF Printing
        <3>2. l # NoLog
            BY <3>1, LogsDiffer DEF Printed
        <3> QED
            BY <1>1, <3>1, <3>2 DEF IInv, LogOK
    <2> QED
        BY <2>1, <2>2
<1>7. ~explore[e].raced => log[d] = Started
    BY DEF IInv, RunningStarted
<1>8. EngagedRaced' /\ NoneBetween'
    BY <1>4 DEF IInv, EngagedRaced, NoneBetween
<1>9. StillAbsent'
    <2> SUFFICES ASSUME NEW f \in Explorers, explore[f].at \in Between, ~explore[f].raced
                 PROVE  log'[explore[f].dir] = NoLog
        BY DEF StillAbsent
    <2>1. Engaged(f) /\ ~HasSim(f) /\ log[explore[f].dir] = NoLog /\ explore[f].dir \in LogDirs
        BY Shapes DEF Engaged, IInv, NoneBetween, StillAbsent
    <2>2. f # e
        BY <1>5, <2>1
    <2>3. explore[f].dir # d
        BY <1>1, <1>5, <2>1, <2>2 DEF IInv, EngagedRaced
    <2> QED
        BY <1>6, <2>1, <2>3
<1>10. NoneWithoutLog'
    BY <1>4, <1>6, Shapes DEF IInv, NoneWithoutLog
<1>11. OwnOnce' /\ CalmUnraced' /\ DirsStay
    BY <1>2, <1>3 DEF IInv, OwnOnce, CalmUnraced, DirsStay
<1>12. RunningStarted'
    <2> SUFFICES ASSUME NEW q \in Sims, sim'[q].stage \in Running
                 PROVE  /\ explore[q[1]].at # "idle"
                        /\ ~explore[q[1]].raced => log'[explore[q[1]].dir] = Started
        BY DEF RunningStarted
    <2>1. sim[q].stage \in Running /\ explore[q[1]].at # "idle"
          /\ (~explore[q[1]].raced => log[explore[q[1]].dir] = Started)
        BY <1>2 DEF IInv, RunningStarted
    <2>2. q[1] \in Explorers /\ explore[q[1]].dir \in LogDirs
        BY <1>1, Shapes DEF IInv
    <2>3. CASE q = s
        BY <1>2, <2>1, <2>3, NotRunning
    <2>4. CASE q # s /\ explore[q[1]].dir = d
        <3>1. sim[q].stage # "none" /\ Engaged(q[1])
            BY <2>1, NotRunning DEF Engaged, HasSim
        <3>2. q[1] # e
            BY <1>3, <2>4, <3>1 DEF IInv, OwnOnce
        <3>3. explore[q[1]].raced
            BY <1>1, <1>5, <2>2, <2>4, <3>1, <3>2 DEF IInv, EngagedRaced
        <3> QED
            BY <2>1, <3>3
    <2>5. CASE explore[q[1]].dir # d
        BY <1>6, <2>1, <2>2, <2>5
    <2> QED
        BY <2>3, <2>4, <2>5
<1>13. StatisticsStay
    <2> SUFFICES ASSUME NEW c \in LogDirs, HasStatistics(log[c]), log'[c] # log[c]
                 PROVE  /\ explore[e].at # "idle" /\ d = c /\ explore[e].raced /\ Engaged(e)
        BY <1>1 DEF StatisticsStay
    <2>1. d = c
        BY <1>6
    <2>2. explore[e].raced
        BY <1>7, <2>1, LogsDiffer
    <2> QED
        BY <1>5, <2>1, <2>2 DEF IInv, RunningStarted
<1> QED
    BY <1>2, <1>6, <1>8, <1>9, <1>10, <1>11, <1>12, <1>13 DEF IInv

\* After a copy an exploration looks for the next log, or waits.
LEMMA AfterCopyPlace ==
    ASSUME ExploreOK, NEW e \in Explorers
    PROVE  /\ AfterCopy(e) \in Place /\ AfterCopy(e).at \notin Between /\ AfterCopy(e).at # "idle"
           /\ AfterCopy(e).dir = explore[e].dir /\ AfterCopy(e).raced = explore[e].raced
<1>1. explore[e] \in Place /\ explore[e].copy + 1 \in Nat
    BY DEF ExploreOK, Place
<1> QED
    BY <1>1 DEF AfterCopy, Place, Places, Between

\* A log is created where there was none, or by one who has raced for it.
LEMMA LaunchInv ==
    ASSUME IInv, NEW e \in Explorers, Launch(e)
    PROVE  IInv' /\ StatisticsStay /\ DirsStay
<1> DEFINE d == explore[e].dir
           c == Whole /\ config = "written" /\ ~explore[e].raced
           k == <<e, explore[e].copy>>
           r == [NoSim EXCEPT !.stage = "configure", !.calm = c]
<1>1. /\ explore[e].at = "launch" /\ sim' = [sim EXCEPT ![k] = r]
      /\ log' = [log EXCEPT ![d] = Started] /\ explore' = [explore EXCEPT ![e] = AfterCopy(e)]
    BY DEF Launch, CreateLog
<1>2. explore[e].at \in Between /\ Engaged(e) /\ ~HasSim(e)
    BY <1>1 DEF Between, Engaged, IInv, NoneBetween
<1>3. IsSim(r) /\ r.stage = "configure" /\ (r.calm => ~explore[e].raced)
    <2>1. PICK b : b = c
        OBVIOUS
    <2>2. r = [NoSim EXCEPT !.stage = "configure", !.calm = b] /\ (b => ~explore[e].raced)
        BY <2>1
    <2> HIDE DEF r
    <2> QED
        BY <2>2 DEF IsSim, NoSim
<1> HIDE DEF k, r
<1>4. k[1] = e
    BY DEF k
<1>5. DOMAIN sim = Sims /\ d \in LogDirs /\ \A s \in Sims : s[1] \in Explorers
    BY Shapes DEF IInv
<1>6. SimsOK' /\ \A s \in Sims : IF s = k THEN sim'[s] = r ELSE sim'[s] = sim[s]
    BY <1>1, <1>3, <1>5 DEF IInv, SimsOK
<1>7. /\ AfterCopy(e) \in Place /\ AfterCopy(e).at \notin Between /\ AfterCopy(e).at # "idle"
      /\ AfterCopy(e).dir = d /\ AfterCopy(e).raced = explore[e].raced
    BY AfterCopyPlace DEF IInv
<1>8. /\ ExploreOK' /\ explore'[e].at \notin Between /\ explore'[e].at # "idle"
      /\ explore'[e].dir = d /\ explore'[e].raced = explore[e].raced
      /\ \A f \in Explorers : f # e => explore'[f] = explore[f]
    BY <1>1, <1>7 DEF IInv, ExploreOK
<1>9. LogOK' /\ log'[d] = Started /\ \A b \in LogDirs : b # d => log'[b] = log[b]
    BY <1>1, <1>5 DEF IInv, LogOK
<1>10. \A f \in Explorers : f # e => HasSim(f)' = HasSim(f) /\ Engaged(f)' = Engaged(f)
    BY <1>4, <1>6, <1>8 DEF HasSim, Engaged
<1>11. \A f \in Explorers : explore'[f].dir = explore[f].dir /\ explore'[f].raced = explore[f].raced
    BY <1>8
<1>12. \A f \in Explorers : Engaged(f) /\ f # e /\ explore[f].dir = d => explore[f].raced
    BY <1>2 DEF IInv, EngagedRaced
<1>13. EngagedRaced'
    <2> SUFFICES ASSUME NEW f \in Explorers, NEW g \in Explorers, f # g,
                        explore[f].dir = explore[g].dir, Engaged(f)', Engaged(g)'
                 PROVE  explore[f].raced
        BY <1>11 DEF EngagedRaced
    <2>1. Engaged(f) /\ Engaged(g)
        BY <1>2, <1>10
    <2> QED
        BY <2>1 DEF IInv, EngagedRaced
<1>14. StillAbsent'
    <2> SUFFICES ASSUME NEW f \in Explorers, explore'[f].at \in Between, ~explore[f].raced
                 PROVE  log'[explore[f].dir] = NoLog
        BY <1>11 DEF StillAbsent
    <2>1. f # e /\ explore[f].at \in Between
        BY <1>8
    <2>2. Engaged(f) /\ log[explore[f].dir] = NoLog /\ explore[f].dir \in LogDirs
        BY <2>1, Shapes DEF Engaged, IInv, StillAbsent
    <2> QED
        BY <1>9, <1>12, <2>1, <2>2
<1>15. NoneBetween'
    BY <1>8, <1>10 DEF IInv, NoneBetween
<1>16. NoneWithoutLog'
    <2> SUFFICES ASSUME NEW f \in Explorers, HasSim(f)'
                 PROVE  log'[explore[f].dir] # NoLog
        BY <1>11 DEF NoneWithoutLog
    <2>1. CASE explore[f].dir = d
        BY <1>9, <2>1, LogsDiffer
    <2>2. CASE explore[f].dir # d
        BY <1>9, <1>10, <2>2, Shapes DEF IInv, NoneWithoutLog
    <2> QED
        BY <2>1, <2>2
<1>17. OwnOnce'
    <2> SUFFICES ASSUME NEW s \in Sims, NEW q \in Sims, s[1] = q[1],
                        sim'[s].stage # "none", sim'[q].stage # "none"
                 PROVE  s = q
        BY DEF OwnOnce
    <2>1. CASE s[1] = e
        BY <1>2, <1>6, <2>1 DEF HasSim
    <2>2. CASE s[1] # e
        BY <1>4, <1>6, <2>2 DEF IInv, OwnOnce
    <2> QED
        BY <2>1, <2>2
<1>18. RunningStarted'
    <2> SUFFICES ASSUME NEW s \in Sims, sim'[s].stage \in Running
                 PROVE  /\ explore'[s[1]].at # "idle"
                        /\ ~explore[s[1]].raced => log'[explore[s[1]].dir] = Started
        BY <1>5, <1>11 DEF RunningStarted
    <2>1. CASE s[1] = e
        BY <1>8, <1>9, <2>1
    <2>2. CASE s[1] # e
        <3>1. sim'[s] = sim[s] /\ explore'[s[1]] = explore[s[1]]
            BY <1>4, <1>5, <1>6, <1>8, <2>2
        <3>2. /\ explore[s[1]].at # "idle"
              /\ ~explore[s[1]].raced => log[explore[s[1]].dir] = Started
            BY <3>1 DEF IInv, RunningStarted
        <3> QED
            BY <1>5, <1>9, <3>1, <3>2, Shapes DEF IInv
    <2> QED
        BY <2>1, <2>2
<1>19. CalmUnraced' /\ DirsStay
    <2>1. \A s \in Sims : sim'[s].calm => sim'[s].stage # "none" /\ ~explore[s[1]].raced
        BY <1>3, <1>4, <1>6 DEF IInv, CalmUnraced
    <2> QED
        BY <1>5, <1>11, <2>1 DEF CalmUnraced, DirsStay
<1>20. StatisticsStay
    <2> SUFFICES ASSUME NEW b \in LogDirs, HasStatistics(log[b]), log'[b] # log[b]
                 PROVE  /\ explore[e].at # "idle" /\ d = b /\ explore[e].raced /\ Engaged(e)
        BY DEF StatisticsStay
    <2>1. d = b
        BY <1>9
    <2>2. explore[e].raced
        BY <1>2, <2>1, LogsDiffer DEF IInv, StillAbsent
    <2> QED
        BY <1>1, <1>2, <2>1, <2>2
<1> QED
    BY <1>6, <1>8, <1>9, <1>13, <1>14, <1>15, <1>16, <1>17, <1>18, <1>19, <1>20 DEF IInv

\* Whoever finds the log absent joins the race of those who have found it so.
LEMMA CheckAbsentInv ==
    ASSUME IInv, NEW e \in Explorers, CheckLog(e), CheckAbsent(e)
    PROVE  IInv' /\ StatisticsStay /\ DirsStay
<1> DEFINE d == explore[e].dir
<1>1. log' = log /\ sim' = sim /\ explore[e].at = "check" /\ log[d] = NoLog
    BY DEF CheckLog, CheckAbsent, LogExists
<1>2. \A s \in Sims : s[1] \in Explorers
    BY Shapes DEF IInv
<1>3. ASSUME NEW x \in Explorers
      PROVE  /\ explore'[x] \in Place /\ explore'[x].dir = explore[x].dir
             /\ explore'[x].at = IF x = e THEN "open config" ELSE explore[x].at
             /\ explore'[x].raced = (explore[x].raced \/ x \in Race(e))
    <2>1. PICK a, b : /\ a = (IF x = e THEN "open config" ELSE explore[x].at)
                      /\ b = (explore[x].raced \/ x \in Race(e))
        OBVIOUS
    <2>2. explore'[x] = [explore[x] EXCEPT !.at = a, !.raced = b]
        BY <2>1 DEF CheckAbsent
    <2>3. explore[x] \in Place /\ a \in Places /\ b \in BOOLEAN
        BY <2>1 DEF IInv, ExploreOK, Place, Places
    <2> QED
        BY <2>1, <2>2, <2>3 DEF Place
<1>4. explore' = [x \in Explorers |-> explore'[x]]
    BY DEF CheckAbsent
<1>5. ExploreOK'
    BY <1>3, <1>4 DEF ExploreOK
<1>6. SimsOK' /\ LogOK' /\ \A f \in Explorers : HasSim(f)' = HasSim(f)
    BY <1>1 DEF IInv, SimsOK, LogOK, HasSim
<1>7. \A f \in Explorers : explore[f].dir = d => ~HasSim(f)
    BY <1>1 DEF IInv, NoneWithoutLog
<1>8. \A f \in Explorers : f # e => Engaged(f)' = Engaged(f)
    BY <1>3, <1>6 DEF Engaged
<1>9. \A f \in Explorers : f \in Race(e) => explore[f].dir = d
    BY DEF Race, Racers
<1>10. ASSUME NEW f \in Explorers, f # e, explore[f].dir = d, Engaged(f)
       PROVE  f \in Race(e) /\ e \in Race(e)
    <2>1. f \in Racers(e)
        BY <1>7, <1>10 DEF Racers, Engaged
    <2> QED
        BY <2>1 DEF Race
<1>11. EngagedRaced'
    <2> SUFFICES ASSUME NEW f \in Explorers, NEW g \in Explorers, f # g,
                        explore[f].dir = explore[g].dir, Engaged(f)', Engaged(g)'
                 PROVE  explore'[f].raced
        BY <1>3 DEF EngagedRaced
    <2>1. CASE f = e
        BY <1>3, <1>8, <1>10, <2>1
    <2>2. CASE g = e
        BY <1>3, <1>8, <1>10, <2>2
    <2>3. CASE f # e /\ g # e
        BY <1>3, <1>8, <2>3 DEF IInv, EngagedRaced
    <2> QED
        BY <2>1, <2>2, <2>3
<1>12. StillAbsent'
    BY <1>1, <1>3 DEF IInv, StillAbsent
<1>13. NoneBetween'
    BY <1>3, <1>6, <1>7 DEF IInv, NoneBetween
<1>14. NoneWithoutLog'
    BY <1>1, <1>3, <1>6 DEF IInv, NoneWithoutLog
<1>15. OwnOnce'
    BY <1>1 DEF IInv, OwnOnce
<1>16. RunningStarted'
    BY <1>1, <1>2, <1>3 DEF IInv, RunningStarted
<1>17. CalmUnraced' /\ DirsStay
    <2> SUFFICES ASSUME NEW s \in Sims, sim[s].calm
                 PROVE  /\ sim[s].stage # "none" /\ ~explore'[s[1]].raced
                        /\ explore'[s[1]].dir = explore[s[1]].dir
        BY <1>1 DEF CalmUnraced, DirsStay
    <2>1. sim[s].stage # "none" /\ ~explore[s[1]].raced /\ s[1] \in Explorers
        BY <1>2 DEF IInv, CalmUnraced
    <2>2. HasSim(s[1])
        BY <2>1 DEF HasSim
    <2>3. s[1] \notin Race(e)
        BY <1>7, <1>9, <2>1, <2>2
    <2> QED
        BY <1>3, <2>1, <2>3
<1>18. StatisticsStay
    BY <1>1 DEF StatisticsStay
<1> QED
    BY <1>5, <1>6, <1>11, <1>12, <1>13, <1>14, <1>15, <1>16, <1>17, <1>18 DEF IInv

-----------------------------------------------------------------------------
(* The actions. *)

\* The builder does not touch logs.
LEMMA BuilderInv ==
    ASSUME IInv, BuildStart \/ Flush \/ CloseFile \/ BuildInterrupted
    PROVE  IInv' /\ StatisticsStay /\ DirsStay
<1>1. log' = log /\ explore' = explore
    BY DEF BuildStart, Flush, CloseFile, BuildInterrupted, explorer
<1>2. SimsOK' /\ \A s \in Sims : sim'[s].stage = sim[s].stage /\ (sim'[s].calm => sim[s].calm)
    <2>1. CASE BuildStart
        <3>1. DOMAIN sim = Sims
            BY DEF IInv, SimsOK
        <3>2. sim' = [s \in DOMAIN sim |-> [sim[s] EXCEPT !.calm = sim[s].calm /\ sim[s].stage = "exited"]]
            BY <2>1 DEF BuildStart
        <3>3. ASSUME NEW s \in Sims
              PROVE  IsSim(sim'[s]) /\ sim'[s].stage = sim[s].stage /\ (sim'[s].calm => sim[s].calm)
            <4>1. PICK c : c = (sim[s].calm /\ sim[s].stage = "exited")
                OBVIOUS
            <4>2. sim'[s] = [sim[s] EXCEPT !.calm = c] /\ IsSim(sim[s]) /\ (c => sim[s].calm)
                BY <3>1, <3>2, <4>1 DEF IInv, SimsOK
            <4> QED
                BY <4>2 DEF IsSim
        <3> QED
            BY <3>1, <3>2, <3>3 DEF SimsOK
    <2>2. CASE Flush \/ CloseFile \/ BuildInterrupted
        <3>1. sim' = sim
            BY <2>2 DEF Flush, CloseFile, BuildInterrupted
        <3> QED
            BY <3>1 DEF IInv, SimsOK
    <2> QED
        BY <2>1, <2>2
<1>3. ExploreOK'
    BY <1>1 DEF IInv, ExploreOK
<1> QED
    BY <1>1, <1>2, <1>3, SimsAlone, QuietStep

\* An exploration moves on, but not to where it needs its log absent.
LEMMA MoveStep ==
    ASSUME IInv, NEW e \in Explorers, NEW p \in Place, explore' = [explore EXCEPT ![e] = p],
           p.dir = explore[e].dir, p.raced = explore[e].raced,
           p.at \in Between => explore[e].at \in Between,
           p.at = "idle" => \A s \in Sims : s[1] = e => sim[s].stage \notin Running,
           SimsOK', log' = log,
           \A s \in Sims : sim'[s].stage = sim[s].stage /\ (sim'[s].calm => sim[s].calm)
    PROVE  IInv' /\ StatisticsStay /\ DirsStay
<1>1. ExploreOK' /\ explore'[e] = p /\ \A f \in Explorers : f # e => explore'[f] = explore[f]
    BY DEF IInv, ExploreOK
<1>2. Kept(e)
    BY <1>1 DEF Kept
<1>3. \A f \in Explorers : f # e => Kept(f)
    BY <1>1 DEF Kept
<1> QED
    BY <1>1, <1>2, <1>3, QuietStep

LEMMA ExplorationInv ==
    ASSUME IInv, NEW e \in Explorers, CheckLog(e) \/ OpenConfig(e) \/ CloseConfig(e) \/ ExploreEnd(e)
    PROVE  IInv' /\ StatisticsStay /\ DirsStay
<1>1. log' = log
    BY DEF CheckLog, OpenConfig, CloseConfig, ExploreEnd
<1>2. explore[e] \in Place /\ DOMAIN sim = Sims
    BY Shapes DEF IInv, ExploreOK
<1>3. ASSUME NEW a \in Places
      PROVE  LET p == [explore[e] EXCEPT !.at = a]
             IN  /\ p \in Place /\ p.at = a
                 /\ p.dir = explore[e].dir /\ p.raced = explore[e].raced
    BY <1>2 DEF Place
<1>4. CASE CheckLog(e)
    <2>1. CASE CheckFound(e)
        <3>1. /\ AfterCopy(e) \in Place /\ AfterCopy(e).at \notin Between /\ AfterCopy(e).at # "idle"
              /\ AfterCopy(e).dir = explore[e].dir /\ AfterCopy(e).raced = explore[e].raced
            BY AfterCopyPlace DEF IInv
        <3>2. explore' = [explore EXCEPT ![e] = AfterCopy(e)] /\ sim' = sim
            BY <1>4, <2>1 DEF CheckLog, CheckFound, SkipCopy
        <3>3. PICK p : p = AfterCopy(e)
            OBVIOUS
        <3> QED
            BY <1>1, <3>1, <3>2, <3>3, MoveStep DEF IInv, SimsOK
    <2>2. CASE CheckAbsent(e)
        BY <1>4, <2>2, CheckAbsentInv
    <2> QED
        BY <1>4, <2>1, <2>2 DEF CheckLog
<1>5. CASE OpenConfig(e)
    <2>1. PICK p : p = [explore[e] EXCEPT !.at = "close config"]
        OBVIOUS
    <2>2. explore' = [explore EXCEPT ![e] = p] /\ explore[e].at \in Between
        BY <1>5, <2>1 DEF OpenConfig, Between
    <2>3. /\ p \in Place /\ p.at = "close config"
          /\ p.dir = explore[e].dir /\ p.raced = explore[e].raced
        BY <1>3, <2>1 DEF Places
    <2>4. SimsOK' /\ \A s \in Sims : sim'[s].stage = sim[s].stage /\ (sim'[s].calm => sim[s].calm)
        <3>1. sim' = [s \in Sims |-> [sim[s] EXCEPT !.calm = sim[s].calm /\ sim[s].stage # "configure"]]
            BY <1>2, <1>5 DEF OpenConfig
        <3>2. ASSUME NEW s \in Sims
              PROVE  IsSim(sim'[s]) /\ sim'[s].stage = sim[s].stage /\ (sim'[s].calm => sim[s].calm)
            <4>1. PICK c : c = (sim[s].calm /\ sim[s].stage # "configure")
                OBVIOUS
            <4>2. sim'[s] = [sim[s] EXCEPT !.calm = c] /\ IsSim(sim[s]) /\ (c => sim[s].calm)
                BY <3>1, <4>1 DEF IInv, SimsOK
            <4> QED
                BY <4>2 DEF IsSim
        <3> QED
            BY <3>1, <3>2 DEF SimsOK
    <2> QED
        BY <1>1, <2>2, <2>3, <2>4, MoveStep
<1>6. CASE CloseConfig(e)
    <2>1. PICK p : p = [explore[e] EXCEPT !.at = "launch"]
        OBVIOUS
    <2>2. explore' = [explore EXCEPT ![e] = p] /\ explore[e].at \in Between /\ sim' = sim
        BY <1>6, <2>1 DEF CloseConfig, Between
    <2>3. /\ p \in Place /\ p.at = "launch"
          /\ p.dir = explore[e].dir /\ p.raced = explore[e].raced
        BY <1>3, <2>1 DEF Places
    <2> QED
        BY <1>1, <2>2, <2>3, MoveStep DEF IInv, SimsOK
<1>7. CASE ExploreEnd(e)
    <2>1. PICK p : p = [explore[e] EXCEPT !.at = "idle"]
        OBVIOUS
    <2>2. explore' = [explore EXCEPT ![e] = p] /\ sim' = sim
        BY <1>7, <2>1 DEF ExploreEnd
    <2>3. /\ p \in Place /\ p.at \notin Between
          /\ p.dir = explore[e].dir /\ p.raced = explore[e].raced
        BY <1>3, <2>1 DEF Places, Between
    <2>4. \A s \in Sims : s[1] = e => sim[s].stage \notin Running
        BY <1>2, <1>7 DEF ExploreEnd, SimsOf
    <2> QED
        BY <1>1, <2>2, <2>3, <2>4, MoveStep DEF IInv, SimsOK
<1> QED
    BY <1>4, <1>5, <1>6, <1>7

\* An exploration that starts, or is interrupted, has no simulations (any more).
LEMMA StartOrInterruptInv ==
    ASSUME IInv, NEW e \in Explorers, ExploreStart(e) \/ Interrupted(e)
    PROVE  IInv' /\ StatisticsStay /\ DirsStay
<1>1. Idle \in Place /\ Idle.at \notin Between
    BY ExperimentAssumption DEF Idle, Place, Places, Between
<1>2. PICK p \in Place : explore' = [explore EXCEPT ![e] = p] /\ p.at \notin Between
    <2>1. CASE ExploreStart(e)
        <3>1. PICK d \in LogDirs :
                  explore' = [explore EXCEPT ![e] = [Idle EXCEPT !.at = "check", !.copy = 1, !.dir = d]]
            BY <2>1 DEF ExploreStart
        <3>2. PICK p : p = [Idle EXCEPT !.at = "check", !.copy = 1, !.dir = d]
            OBVIOUS
        <3>3. p \in Place /\ p.at = "check"
            BY <3>2 DEF Idle, Place, Places
        <3> QED
            BY <3>1, <3>2, <3>3 DEF Between
    <2>2. CASE Interrupted(e)
        BY <1>1, <2>2 DEF Interrupted
    <2> QED
        BY <2>1, <2>2
<1>3. /\ ExploreOK' /\ explore'[e].at \notin Between
      /\ \A f \in Explorers : f # e => explore'[f] = explore[f]
    BY <1>2 DEF IInv, ExploreOK
<1>4. /\ log' = log /\ DOMAIN sim = Sims
      /\ sim' = [s \in Sims |-> IF s[1] = e THEN NoSim ELSE sim[s]]
    BY DEF ExploreStart, Interrupted, IInv, SimsOK
<1>5. IsSim(NoSim) /\ NoSim.stage = "none" /\ ~NoSim.calm
    BY DEF IsSim, NoSim
<1>6. SimsOK'
    BY <1>4, <1>5 DEF IInv, SimsOK
<1>7. Cleared(e) /\ \A f \in Explorers : f # e => Kept(f)
    BY <1>3, <1>4, <1>5 DEF Cleared, Kept
<1> QED
    BY <1>3, <1>4, <1>6, <1>7, QuietStep

\* A simulation that exits is one, whatever it forgets.
LEMMA ExitShape ==
    ASSUME NEW s, IsSim(sim[s])
    PROVE  IsSim(Exit(s)) /\ Exit(s).stage = "exited" /\ Exit(s).calm = sim[s].calm
<1> DEFINE x == [sim[s] EXCEPT !.stage = "exited", !.contexts = {}]
           y == [x EXCEPT !.pages = {}, !.played = <<>>]
<1>1. x = [sim[s] EXCEPT !.stage = "exited", !.contexts = {}]
    OBVIOUS
<1>2. Exit(s) = y
    BY DEF Exit
<1> HIDE DEF x
<1>3. IsSim(x) /\ x.stage = "exited" /\ x.calm = sim[s].calm
    BY <1>1 DEF IsSim
<1>4. y = [x EXCEPT !.pages = {}, !.played = <<>>]
    OBVIOUS
<1> HIDE DEF y
<1>5. IsSim(y) /\ y.stage = "exited" /\ y.calm = sim[s].calm
    BY <1>3, <1>4 DEF IsSim
<1> QED
    BY <1>2, <1>5

\* A step of a simulation leaves one that runs or has exited.
LEMMA SimulateStep ==
    ASSUME IInv, NEW s \in Sims, Simulate(s)
    PROVE  \E r : /\ sim[s].stage \in Running /\ sim' = [sim EXCEPT ![s] = r] /\ explore' = explore
                  /\ IsSim(r) /\ r.stage \in Running \cup {"exited"} /\ r.calm = sim[s].calm
                  /\ \/ log' = log
                     \/ Printing(s) /\ r.stage = "exited"
<1>1. IsSim(sim[s])
    BY DEF IInv, SimsOK
<1>2. IsSim(Exit(s)) /\ Exit(s).stage = "exited" /\ Exit(s).calm = sim[s].calm
    BY <1>1, ExitShape
<1>3. ASSUME NEW from, NEW r, Step(s, from, r)
      PROVE  sim[s].stage = from /\ sim' = [sim EXCEPT ![s] = r] /\ explore' = explore
    BY <1>3 DEF Step, explorer
<1>4. {"configure", "open", "pages", "play", "drain", "hung"} = Running
    BY DEF Running
<1>5. ASSUME NEW st \in Running
      PROVE  LET r == [sim[s] EXCEPT !.stage = st] IN IsSim(r) /\ r.stage = st /\ r.calm = sim[s].calm
    BY <1>1 DEF IsSim
<1>6. CASE Configure(s)
    <2> DEFINE r == IF config = "written" THEN [sim[s] EXCEPT !.stage = "open"] ELSE Exit(s)
    <2>1. IsSim(r) /\ r.stage \in Running \cup {"exited"} /\ r.calm = sim[s].calm
        BY <1>2, <1>4, <1>5
    <2>2. Step(s, "configure", r) /\ log' = log
        BY <1>6 DEF Configure
    <2> HIDE DEF r
    <2> QED
        BY <1>3, <1>4, <2>1, <2>2
<1>7. CASE ReadCCData(s)
    <2> DEFINE q == [sim[s] EXCEPT !.stage = "pages", !.trace_open = file.iova # NoFile,
                                   !.contexts = LoadEvents(file.cc, CCReads)]
               r == IF file.cc = NoFile THEN Exit(s) ELSE q
    <2>1. IsSim(q) /\ q.stage = "pages" /\ q.calm = sim[s].calm
        <3> DEFINE c == file.iova # NoFile
        <3>1. q = [sim[s] EXCEPT !.stage = "pages", !.trace_open = c,
                                 !.contexts = LoadEvents(file.cc, CCReads)]
            OBVIOUS
        <3> HIDE DEF c, q
        <3> QED
            BY <1>1, <3>1 DEF IsSim
    <2>2. Step(s, "open", r) /\ log' = log
        BY <1>7 DEF ReadCCData
    <2> HIDE DEF q
    <2>3. IsSim(r) /\ r.stage \in Running \cup {"exited"} /\ r.calm = sim[s].calm
        BY <1>2, <1>4, <2>1
    <2> HIDE DEF r
    <2> QED
        BY <1>3, <1>4, <2>2, <2>3
<1>8. CASE ReadSLPTData(s)
    <2> DEFINE q == [sim[s] EXCEPT !.stage = "play", !.pages = LoadEvents(file.slpt, SlpteReads)]
               r == IF file.slpt = NoFile \/ ~sim[s].trace_open THEN Exit(s) ELSE q
    <2>1. IsSim(q) /\ q.stage = "play" /\ q.calm = sim[s].calm
        <3> DEFINE p == LoadEvents(file.slpt, SlpteReads)
        <3>1. q = [sim[s] EXCEPT !.stage = "play", !.pages = p]
            OBVIOUS
        <3> HIDE DEF p, q
        <3> QED
            BY <1>1, <3>1 DEF IsSim
    <2>2. Step(s, "pages", r) /\ log' = log
        BY <1>8 DEF ReadSLPTData
    <2> HIDE DEF q
    <2>3. IsSim(r) /\ r.stage \in Running \cup {"exited"} /\ r.calm = sim[s].calm
        BY <1>2, <1>4, <2>1
    <2> HIDE DEF r
    <2> QED
        BY <1>3, <1>4, <2>2, <2>3
<1>9. CASE PlayEvent(s)
    <2> DEFINE x == Append(sim[s].played,
                           ReadFromFile(file.iova, Position(s) + 1, TranslateReads))
               r == [sim[s] EXCEPT !.played = x]
    <2>1. Step(s, "play", r) /\ log' = log
        BY <1>9 DEF PlayEvent
    <2> HIDE DEF x
    <2>2. IsSim(r) /\ r.stage = sim[s].stage /\ r.calm = sim[s].calm
        BY <1>1 DEF IsSim
    <2> HIDE DEF r
    <2> QED
        BY <1>3, <1>4, <2>1, <2>2
<1>10. CASE EndTrace(s) \/ Hang(s)
    <2>1. PICK from \in Running, st \in Running :
              Step(s, from, [sim[s] EXCEPT !.stage = st]) /\ log' = log
        BY <1>4, <1>10 DEF EndTrace, Hang
    <2> DEFINE r == [sim[s] EXCEPT !.stage = st]
    <2>2. IsSim(r) /\ r.stage = st /\ r.calm = sim[s].calm /\ Step(s, from, r)
        BY <1>5, <2>1
    <2> HIDE DEF r
    <2> QED
        BY <1>3, <2>1, <2>2
<1>11. CASE PrintStat(s)
    <2> DEFINE r == Exit(s)
    <2>1. Step(s, "drain", r) /\ IsSim(r) /\ r.stage = "exited" /\ r.calm = sim[s].calm
        BY <1>2, <1>11 DEF PrintStat
    <2>2. log' = log \/ Printing(s)
        BY <1>11 DEF PrintStat, Printing
    <2> HIDE DEF r
    <2> QED
        BY <1>3, <1>4, <2>1, <2>2
<1> QED
    BY <1>6, <1>7, <1>8, <1>9, <1>10, <1>11 DEF Simulate

\* A simulation prints over the statistics of another only if both have raced.
LEMMA SimulateInv ==
    ASSUME IInv, NEW s \in Sims, Simulate(s)
    PROVE  IInv' /\ StatisticsStay /\ DirsStay
<1>1. PICK r : /\ sim[s].stage \in Running /\ sim' = [sim EXCEPT ![s] = r] /\ explore' = explore
               /\ IsSim(r) /\ r.stage \in Running \cup {"exited"} /\ r.calm = sim[s].calm
               /\ \/ log' = log
                  \/ Printing(s) /\ r.stage = "exited"
    BY SimulateStep
<1> QED
    BY <1>1, SimStep

-----------------------------------------------------------------------------
(* The theorems. *)

\* There is neither a log nor a simulation at first.
LEMMA InitInv == Init => IInv
<1> SUFFICES ASSUME Init PROVE IInv
    OBVIOUS
<1>1. IsSim(NoSim) /\ NoSim.stage = "none" /\ ~NoSim.calm
    BY DEF IsSim, NoSim
<1>2. /\ sim = [s \in Sims |-> NoSim] /\ log = [d \in LogDirs |-> NoLog]
      /\ explore = [e \in Explorers |-> Idle]
    BY DEF Init, Sims
<1>3. Idle \in Place /\ Idle.at \notin Between
    BY ExperimentAssumption DEF Idle, Place, Places, Between
<1>4. SimsOK /\ LogOK /\ ExploreOK
    BY <1>1, <1>2, <1>3 DEF SimsOK, LogOK, ExploreOK
<1>5. \A e \in Explorers : ~HasSim(e) /\ ~Engaged(e) /\ explore[e].at \notin Between
    BY <1>1, <1>2, <1>3 DEF HasSim, Engaged
<1>6. EngagedRaced /\ StillAbsent /\ NoneBetween /\ NoneWithoutLog
    BY <1>5 DEF EngagedRaced, StillAbsent, NoneBetween, NoneWithoutLog
<1>7. OwnOnce /\ RunningStarted /\ CalmUnraced
    BY <1>1, <1>2, NotRunning DEF OwnOnce, RunningStarted, CalmUnraced
<1> QED
    BY <1>4, <1>6, <1>7 DEF IInv

\* Every step keeps the invariant, and the statistics of those who have not raced.
LEMMA NextInv ==
    ASSUME IInv, [Next]_vars
    PROVE  IInv' /\ StatisticsStay /\ DirsStay
<1>1. CASE BuildStart \/ Flush \/ CloseFile \/ BuildInterrupted
    BY <1>1, BuilderInv
<1>2. ASSUME NEW e \in Explorers, ExploreStart(e) \/ Explore(e) \/ Interrupted(e)
      PROVE  IInv' /\ StatisticsStay /\ DirsStay
    <2>1. CASE Launch(e)
        BY <2>1, LaunchInv
    <2>2. CASE CheckLog(e) \/ OpenConfig(e) \/ CloseConfig(e) \/ ExploreEnd(e)
        BY <2>2, ExplorationInv
    <2>3. CASE ExploreStart(e) \/ Interrupted(e)
        BY <2>3, StartOrInterruptInv
    <2> QED
        BY <1>2, <2>1, <2>2, <2>3 DEF Explore
<1>3. ASSUME NEW s \in DOMAIN sim, Simulate(s)
      PROVE  IInv' /\ StatisticsStay /\ DirsStay
    <2>1. s \in Sims
        BY Shapes DEF IInv
    <2> QED
        BY <1>3, <2>1, SimulateInv
<1>4. CASE UNCHANGED vars
    <2>1. sim' = sim /\ log' = log /\ explore' = explore
        BY <1>4 DEF vars, explorer
    <2>2. SimsOK' /\ ExploreOK'
        BY <2>1 DEF IInv, SimsOK, ExploreOK
    <2> QED
        BY <2>1, <2>2, SimsAlone, QuietStep
<1> QED
    BY <1>1, <1>2, <1>3, <1>4 DEF Next

\* So it always holds.
LEMMA Inductive == Spec => []IInv
<1>1. IInv /\ [Next]_vars => IInv'
    BY NextInv
<1> QED
    BY InitInv, <1>1, PTL DEF Spec

\* The look at the log before it is created is enough, however often the
\* experiment is listed, explored and interrupted, and whichever explorations
\* share a directory, but for explorations that look at the same time: only
\* simulations of two that have raced ever write the same log.
THEOREM LogsAreOwned == Spec => []OneSimulationPerLog
<1>1. IInv => OneSimulationPerLog
    <2> SUFFICES ASSUME IInv, NEW s \in DOMAIN sim, NEW r \in DOMAIN sim, s # r,
                        sim[s].stage # "none", sim[r].stage # "none",
                        explore[s[1]].dir = explore[r[1]].dir
                 PROVE  s[1] # r[1] /\ explore[s[1]].raced /\ explore[r[1]].raced
        BY DEF OneSimulationPerLog
    <2>1. s \in Sims /\ r \in Sims /\ s[1] \in Explorers /\ r[1] \in Explorers
        BY Shapes DEF IInv
    <2>2. s[1] # r[1]
        BY <2>1 DEF IInv, OwnOnce
    <2>3. Engaged(s[1]) /\ Engaged(r[1])
        BY <2>1 DEF Engaged, HasSim
    <2> QED
        BY <2>1, <2>2, <2>3 DEF IInv, EngagedRaced
<1> QED
    BY <1>1, Inductive, PTL

\* What an experiment has measured is lost to no exploration but one that has
\* raced another for the log it is in: all others, started again or with the
\* same directory, find the log and skip it, and no simulation of theirs writes
\* to a log with statistics.
THEOREM StatisticsAreKept == Spec => StatisticsKept
<1> DEFINE KeptUnraced == \A d \in LogDirs : HasStatistics(log[d]) /\ log'[d] # log[d] =>
                        \E e \in Explorers :
                            explore[e].at # "idle" /\ explore[e].dir = d /\ explore[e].raced
<1>1. IInv /\ [Next]_vars => [KeptUnraced]_vars
    BY NextInv DEF StatisticsStay
<1> QED
    BY <1>1, Inductive, PTL DEF Spec, StatisticsKept

-----------------------------------------------------------------------------
(* What the files hold. *)

Names == {"iova", "cc", "slpt"}
Num == [iova |-> TraceLen, cc |-> ContextNum, slpt |-> PageNum]

\* The i-th field of the n-th event of k fields each.
LEMMA FieldPlace ==
    ASSUME NEW k \in {4, 6, 8}, NEW n \in Nat, NEW i \in 1..k
    PROVE  /\ (n * k + i - 1) % k = i - 1 /\ (n * k + i - 1) \div k = n
           /\ \A num \in Nat : n < num => n * k + i \in 1..(num * k)
<1>1. CASE k = 4
    BY <1>1
<1>2. CASE k = 6
    BY <1>2
<1>3. CASE k = 8
    BY <1>3
<1> QED
    BY <1>1, <1>2, <1>3

\* A file that holds num events, the k fields of each in order.
Holds(c, fields, k, num) ==
    /\ c \in Seq({fields[i] : i \in 1..k} \X Nat)
    /\ Len(c) = num * k
    /\ \A n \in Nat, i \in 1..k : n < num => c[n * k + i] = <<fields[i], n + 1>>

LEMMA SerializedAt ==
    ASSUME NEW fields, NEW k \in {4, 6, 8}, Len(fields) = k, NEW num \in Nat
    PROVE  Holds(Serialized(fields, num), fields, k, num)
<1> DEFINE N == num * k
           at(p) == <<fields[((p - 1) % k) + 1], ((p - 1) \div k) + 1>>
<1>1. N \in Nat
    OBVIOUS
<1>2. Serialized(fields, num) = [p \in 1..N |-> at(p)]
    BY DEF Serialized
<1>3. ASSUME NEW p \in 1..N
      PROVE  at(p) \in {fields[i] : i \in 1..k} \X Nat
    <2>1. ((p - 1) % k) + 1 \in 1..k /\ ((p - 1) \div k) + 1 \in Nat
        <3>1. p - 1 \in Nat
            BY <1>1
        <3> HIDE DEF N
        <3>2. CASE k = 4
            BY <3>1, <3>2
        <3>3. CASE k = 6
            BY <3>1, <3>3
        <3>4. CASE k = 8
            BY <3>1, <3>4
        <3> QED
            BY <3>2, <3>3, <3>4
    <2> QED
        BY <2>1
<1>4. ASSUME NEW n \in Nat, NEW i \in 1..k, n < num
      PROVE  n * k + i \in 1..N /\ at(n * k + i) = <<fields[i], n + 1>>
    <2>1. (n * k + i - 1) % k = i - 1 /\ (n * k + i - 1) \div k = n
        BY FieldPlace
    <2>2. n * k + i \in 1..N
        BY <1>4, FieldPlace
    <2>3. (i - 1) + 1 = i
        OBVIOUS
    <2>4. PICK a, b : a = (n * k + i - 1) % k /\ b = (n * k + i - 1) \div k
        OBVIOUS
    <2>5. at(n * k + i) = <<fields[a + 1], b + 1>>
        BY <2>4
    <2> HIDE DEF at
    <2>6. a = i - 1 /\ b = n
        BY <2>1, <2>4
    <2> HIDE DEF N
    <2> QED
        BY <2>2, <2>3, <2>5, <2>6
<1> HIDE DEF N, at
<1>5. /\ Serialized(fields, num) \in Seq({fields[i] : i \in 1..k} \X Nat)
      /\ Len(Serialized(fields, num)) = N
    <2>1. PICK S, q : S = {fields[i] : i \in 1..k} \X Nat /\ q = Serialized(fields, num)
        OBVIOUS
    <2>2. q = [p \in 1..N |-> at(p)] /\ \A p \in 1..N : at(p) \in S
        BY <1>2, <1>3, <2>1
    <2>3. q \in Seq(S) /\ Len(q) = N
        BY <1>1, <2>2
    <2> QED
        BY <2>1, <2>3
<1>6. \A n \in Nat, i \in 1..k : n < num => Serialized(fields, num)[n * k + i] = <<fields[i], n + 1>>
    BY <1>2, <1>4
<1> QED
    BY <1>5, <1>6 DEF N, Holds

LEMMA Layouts ==
    /\ Len(TranslateWrites) = 8 /\ Len(CCWrites) = 4 /\ Len(SlpteWrites) = 6
    /\ Len(TranslateReads) = 7 /\ CCReads = CCWrites /\ SlpteReads = SlpteWrites
    /\ \A i \in 1..7 : TranslateReads[i] = TranslateWrites[i + 1]
<1>1. \A i \in 1..7 : i \in {1, 2, 3, 4, 5, 6, 7}
    OBVIOUS
<1>2. \A i \in {1, 2, 3, 4, 5, 6, 7} : TranslateReads[i] = TranslateWrites[i + 1]
    BY DEF TranslateReads, TranslateWrites
<1> QED
    BY <1>1, <1>2
    DEF TranslateWrites, CCWrites, SlpteWrites, TranslateReads, CCReads, SlpteReads

\* A file holds its fields in their order, event by event.
LEMMA ContentAt ==
    ASSUME NEW f \in Names
    PROVE  \E k \in {4, 6, 8} : /\ k = Len(Layout[f]) /\ Num[f] \in Nat
                               /\ Holds(Content[f], Layout[f], k, Num[f])
<1>1. PICK k \in {4, 6, 8} : k = Len(Layout[f])
    BY Layouts DEF Layout, Names
<1>2. Content[f] = Serialized(Layout[f], Num[f]) /\ Num[f] \in Nat
    BY ExperimentAssumption DEF Content, Layout, Num, Names
<1>3. Holds(Serialized(Layout[f], Num[f]), Layout[f], k, Num[f])
    BY <1>1, <1>2, SerializedAt
<1> QED
    BY <1>1, <1>2, <1>3

LEMMA ContentType ==
    ASSUME NEW f \in Names
    PROVE  Len(Content[f]) \in Nat /\ \E S : Content[f] \in Seq(S)
<1>1. \E S : Content[f] \in Seq(S)
    BY ContentAt DEF Holds
<1> QED
    BY <1>1

\* What has reached the disk is the beginning of what is written.
IsPiece(f) ==
    /\ \E S : file[f] \in Seq(S)
    /\ Len(file[f]) <= Len(Content[f])
    /\ \A p \in 1..Len(file[f]) : file[f][p] = Content[f][p]

FilesOK ==
    /\ file = [f \in Names |-> file[f]]
    /\ build \in Names \cup {"idle"}
    /\ build # "idle" => IsPiece(build)
    /\ \A f \in Names : file[f] = NoFile \/ IsPiece(f)

\* A file that is opened is empty, ...
LEMMA OpenPiece ==
    ASSUME FilesOK, NEW g \in Names \cup {"idle"}, build' = g, Open(g)
    PROVE  FilesOK' /\ \A f \in Names : IsPiece(f) => IsPiece(f)'
<1>1. CASE g = "idle"
    BY <1>1 DEF Open, FilesOK, IsPiece
<1>2. CASE g # "idle"
    <2>1. file' = [file EXCEPT ![g] = <<>>] /\ g \in Names
        BY <1>2 DEF Open
    <2>2. <<>> \in Seq({}) /\ Len(<<>>) = 0
        OBVIOUS
    <2>3. Len(Content[g]) \in Nat
        BY <2>1, ContentType
    <2>4. file'[g] = <<>> /\ \A f \in Names : f # g => file'[f] = file[f]
        BY <2>1 DEF FilesOK
    <2>5. IsPiece(g)'
        BY <2>2, <2>3, <2>4 DEF IsPiece
    <2>6. \A f \in Names : f # g => (IsPiece(f)' <=> IsPiece(f))
        BY <2>4 DEF IsPiece
    <2>7. file' = [f \in Names |-> file'[f]]
        BY <2>1 DEF FilesOK
    <2> QED
        BY <2>1, <2>4, <2>5, <2>6, <2>7 DEF FilesOK
<1> QED
    BY <1>1, <1>2

\* ... and grows by what is written next.
LEMMA FlushPiece ==
    ASSUME FilesOK, Flush
    PROVE  FilesOK' /\ \A f \in Names : IsPiece(f) => IsPiece(f)'
<1>1. PICK g, n : /\ g = build /\ g \in Names
                  /\ n \in Len(file[g]) + 1..Len(Content[g])
                  /\ file' = [file EXCEPT ![g] = SubSeq(Content[g], 1, n)]
                  /\ build' = g
    BY DEF Flush, FilesOK
<1>2. Len(Content[g]) \in Nat /\ \E S : Content[g] \in Seq(S)
    BY <1>1, ContentType
<1>3. PICK S : Content[g] \in Seq(S)
    BY <1>2
<1>4. Len(file[g]) \in Nat
    <2>1. IsPiece(g)
        BY <1>1 DEF FilesOK, Names
    <2> QED
        BY <2>1 DEF IsPiece
<1>5. n \in 1..Len(Content[g])
    BY <1>1, <1>2, <1>4
<1> DEFINE t == SubSeq(Content[g], 1, n)
<1>6. t \in Seq(S) /\ Len(t) = n /\ \A p \in 1..n : t[p] = Content[g][p]
    <2> DEFINE c == Content[g]
    <2>1. c \in Seq(S) /\ n \in 1..Len(c)
        BY <1>3, <1>5
    <2> HIDE DEF c
    <2>2. SubSeq(c, 1, n) \in Seq(S) /\ Len(SubSeq(c, 1, n)) = n
          /\ \A p \in 1..n : SubSeq(c, 1, n)[p] = c[p]
        BY <2>1
    <2> QED
        BY <2>2 DEF c
<1> HIDE DEF t
<1>7. file'[g] = t /\ \A f \in Names : f # g => file'[f] = file[f]
    BY <1>1 DEF FilesOK, t
<1>8. IsPiece(g)'
    BY <1>2, <1>5, <1>6, <1>7 DEF IsPiece
<1>9. \A f \in Names : f # g => (IsPiece(f)' <=> IsPiece(f))
    BY <1>7 DEF IsPiece
<1>10. file' = [f \in Names |-> file'[f]]
    BY <1>1 DEF FilesOK
<1> QED
    BY <1>1, <1>7, <1>8, <1>9, <1>10 DEF FilesOK

-----------------------------------------------------------------------------
(* What is read. *)

PieceHas(f, k, n, i) == n < Num[f] /\ file[f][n * k + i] = <<Layout[f][i], n + 1>>

LEMMA PieceAt ==
    ASSUME NEW f \in Names, IsPiece(f), NEW k, k = Len(Layout[f]),
           NEW n \in Nat, NEW i \in 1..k, n * k + i <= Len(file[f])
    PROVE  PieceHas(f, k, n, i)
<1>1. k \in {4, 6, 8} /\ Num[f] \in Nat /\ Holds(Content[f], Layout[f], k, Num[f])
    BY ContentAt
<1>2. Len(file[f]) \in Nat /\ Len(file[f]) <= Num[f] * k
    BY <1>1 DEF IsPiece, Holds
<1>3. n * k + i \in 1..Len(file[f]) /\ n < Num[f]
    <2>1. PICK N, L : N = Num[f] /\ L = Len(file[f])
        OBVIOUS
    <2>2. CASE k = 4
        BY <1>1, <1>2, <2>1, <2>2
    <2>3. CASE k = 6
        BY <1>1, <1>2, <2>1, <2>3
    <2>4. CASE k = 8
        BY <1>1, <1>2, <2>1, <2>4
    <2> QED
        BY <1>1, <2>2, <2>3, <2>4
<1>4. file[f][n * k + i] = Content[f][n * k + i]
    BY <1>3 DEF IsPiece
<1> QED
    BY <1>1, <1>3, <1>4 DEF Holds, PieceHas

\* Each field is read at its place, if that is there.
FieldIsAt(c, at, fields, x, i) ==
    /\ fields[i] = x
    /\ ReadFromFile(c, at, fields)[x] = IF at + i <= Len(c) THEN c[at + i] ELSE Unread

LEMMA FieldRead ==
    ASSUME NEW c, NEW at, NEW fields, NEW x \in ToSet(fields)
    PROVE  \E i \in DOMAIN fields : FieldIsAt(c, at, fields, x, i)
<1> DEFINE i == CHOOSE j \in DOMAIN fields : fields[j] = x
<1>1. i \in DOMAIN fields /\ fields[i] = x
    BY DEF ToSet
<1>2. ReadFromFile(c, at, fields)[x] = IF at + i <= Len(c) THEN c[at + i] ELSE Unread
    BY DEF ReadFromFile
<1> HIDE DEF i
<1> QED
    BY <1>1, <1>2 DEF FieldIsAt

\* Contexts and page table entries are loaded whole.
LEMMA LoadedEvents ==
    ASSUME NEW f \in {"cc", "slpt"}, IsPiece(f)
    PROVE  LoadEvents(file[f], Layout[f]) \subseteq ToSet(Events(Layout[f], Num[f]))
<1>1. PICK k, fields, c : k = Len(Layout[f]) /\ fields = Layout[f] /\ c = file[f]
    OBVIOUS
<1>2. /\ k \in {4, 6} /\ Num[f] \in Nat /\ Len(c) \in Nat /\ f \in Names
      /\ DOMAIN fields = 1..k
    <2>1. k \in {4, 6} /\ DOMAIN fields = 1..k
        BY <1>1, Layouts DEF Layout, CCWrites, SlpteWrites
    <2>2. f \in Names
        BY DEF Names
    <2>3. Num[f] \in Nat
        BY <2>2, ContentAt
    <2> QED
        BY <1>1, <2>1, <2>2, <2>3 DEF IsPiece
<1>3. SUFFICES ASSUME NEW a \in 0..Len(c), a % k = 0, a + k <= Len(c)
               PROVE  ReadFromFile(c, a, fields) \in ToSet(Events(fields, Num[f]))
    BY <1>1 DEF LoadEvents
<1>4. PICK n \in Nat : a = n * k
    <2>1. a = (a \div k) * k /\ a \div k \in Nat
        <3>1. CASE k = 4
            BY <1>2, <1>3, <3>1
        <3>2. CASE k = 6
            BY <1>2, <1>3, <3>2
        <3> QED
            BY <1>2, <3>1, <3>2
    <2> QED
        BY <2>1
<1>5. ASSUME NEW i \in 1..k PROVE a + i <= Len(c) /\ n < Num[f] /\ c[a + i] = <<fields[i], n + 1>>
    <2>1. a + i <= Len(c)
        BY <1>2, <1>3
    <2>2. n * k + i <= Len(file[f])
        BY <1>1, <1>4, <2>1
    <2>3. n < Num[f] /\ file[f][n * k + i] = <<Layout[f][i], n + 1>>
        <3>1. f \in Names /\ k = Len(Layout[f]) /\ i \in 1..k
            BY <1>1, <1>2
        <3> QED
            BY <2>2, <3>1, PieceAt DEF PieceHas
    <2> QED
        BY <1>1, <1>4, <2>1, <2>3
<1>6. ASSUME NEW x \in ToSet(fields) PROVE ReadFromFile(c, a, fields)[x] = <<x, n + 1>>
    <2>1. PICK i \in 1..k :
             /\ fields[i] = x
             /\ ReadFromFile(c, a, fields)[x] = IF a + i <= Len(c) THEN c[a + i] ELSE Unread
        <3>1. PICK i \in DOMAIN fields : FieldIsAt(c, a, fields, x, i)
            BY FieldRead
        <3>2. i \in 1..k
            BY <1>2
        <3> QED
            BY <3>1, <3>2, Zenon DEF FieldIsAt
    <2> QED
        BY <1>5, <2>1, Zenon
<1>7. ReadFromFile(c, a, fields) = Event(fields, n + 1)
    <2>1. ReadFromFile(c, a, fields) = [x \in ToSet(fields) |-> ReadFromFile(c, a, fields)[x]]
        BY DEF ReadFromFile
    <2> QED
        BY <1>6, <2>1 DEF Event
<1>8. n + 1 \in 1..Num[f]
    <2>1. n < Num[f]
        BY <1>2, <1>5
    <2> QED
        BY <1>2, <1>4, <2>1
<1>9. PICK E, m : E = Events(fields, m) /\ m = Num[f]
    OBVIOUS
<1>10. E = [j \in 1..m |-> Event(fields, j)] /\ n + 1 \in 1..m
    BY <1>8, <1>9 DEF Events
<1>11. Event(fields, n + 1) \in ToSet(E)
    BY <1>10 DEF ToSet
<1> QED
    BY <1>1, <1>7, <1>9, <1>11

\* An event of the trace, of which fields may be missing.
Fields == ToSet(TranslateReads)
PlayedEvents == [Fields -> {Unread} \cup (Fields \X Nat)]

LEMMA EventPlayed ==
    ASSUME IsPiece("iova"), NEW n \in Nat, n * 8 < Len(file.iova),
           NEW e, e = ReadFromFile(file.iova, n * 8 + 1, TranslateReads)
    PROVE  /\ e \in PlayedEvents /\ n + 1 <= TraceLen
           /\ \A x \in Fields : e[x] = <<x, n + 1>> \/ e[x] = Unread
           /\ file.iova = Content.iova => \A x \in Fields : e[x] = <<x, n + 1>>
<1>1. PICK c : c = file["iova"]
    OBVIOUS
<1>2. /\ "iova" \in Names /\ Len(c) \in Nat /\ n * 8 < Len(c) /\ Num["iova"] = TraceLen
      /\ Layout["iova"] = TranslateWrites /\ Len(Layout["iova"]) = 8
      /\ TraceLen \in Nat
    <2>1. "iova" \in Names /\ Num["iova"] = TraceLen /\ Layout["iova"] = TranslateWrites
        BY DEF Names, Layout, Num
    <2>2. Len(c) \in Nat
        BY <1>1 DEF IsPiece
    <2>3. n * 8 < Len(c)
        BY <1>1
    <2>4. Len(Layout["iova"]) = 8
        BY <2>1, Layouts
    <2> QED
        BY <2>1, <2>2, <2>3, <2>4, ExperimentAssumption
<1>3. ASSUME NEW i \in 1..8, n * 8 + i <= Len(c)
      PROVE  n < TraceLen /\ c[n * 8 + i] = <<TranslateWrites[i], n + 1>>
    <2>1. PICK f, k : f = "iova" /\ k = 8
        OBVIOUS
    <2>2. f \in Names /\ IsPiece(f) /\ k = Len(Layout[f]) /\ i \in 1..k /\ n * k + i <= Len(file[f])
        BY <1>1, <1>2, <1>3, <2>1
    <2>3. n < Num[f] /\ file[f][n * k + i] = <<Layout[f][i], n + 1>>
        BY <2>2, PieceAt DEF PieceHas
    <2> QED
        BY <1>1, <1>2, <2>1, <2>3
<1>4. n + 1 <= TraceLen
    <2>1. n * 8 + 1 <= Len(c) /\ 1 \in 1..8
        BY <1>2
    <2> QED
        BY <1>2, <1>3, <2>1
<1>5. DOMAIN TranslateReads = 1..7
    BY DEF TranslateReads
<1>6. ASSUME NEW x \in Fields
      PROVE  \E i \in 1..7 : e[x] = IF n * 8 + (i + 1) <= Len(c) THEN <<x, n + 1>> ELSE Unread
    <2>1. PICK i \in 1..7 :
             /\ TranslateReads[i] = x
             /\ e[x] = IF n * 8 + 1 + i <= Len(c) THEN c[n * 8 + 1 + i] ELSE Unread
        <3>1. PICK at, fields : at = n * 8 + 1 /\ fields = TranslateReads
            OBVIOUS
        <3>2. x \in ToSet(fields)
            BY <3>1 DEF Fields
        <3>3. PICK i \in DOMAIN fields : FieldIsAt(c, at, fields, x, i)
            BY <3>2, FieldRead
        <3>4. i \in 1..7 /\ TranslateReads[i] = x
            BY <1>5, <3>1, <3>3 DEF FieldIsAt
        <3>5. e = ReadFromFile(c, at, fields)
            BY <1>1, <3>1
        <3>6. e[x] = IF n * 8 + 1 + i <= Len(c) THEN c[n * 8 + 1 + i] ELSE Unread
            BY <3>1, <3>3, <3>5, Zenon DEF FieldIsAt
        <3> QED
            BY <3>4, <3>6, Zenon
    <2>2. n * 8 + 1 + i = n * 8 + (i + 1) /\ i + 1 \in 1..8
        OBVIOUS
    <2>3. TranslateWrites[i + 1] = x
        BY <2>1, Layouts
    <2> QED
        BY <1>3, <2>1, <2>2, <2>3
<1>7. e \in PlayedEvents
    <2>1. e = [x \in Fields |-> e[x]]
        BY DEF ReadFromFile, Fields
    <2>2. \A x \in Fields : e[x] \in {Unread} \cup (Fields \X Nat)
        <3> HIDE DEF Fields
        <3>1. ASSUME NEW x \in Fields
              PROVE  e[x] = <<x, n + 1>> \/ e[x] = Unread
            BY <1>6
        <3>2. ASSUME NEW x \in Fields PROVE <<x, n + 1>> \in Fields \X Nat
            OBVIOUS
        <3> QED
            BY <3>1, <3>2
    <2> HIDE DEF Fields
    <2> QED
        BY <2>1, <2>2 DEF PlayedEvents
<1>8. ASSUME file.iova = Content.iova, NEW x \in Fields PROVE e[x] = <<x, n + 1>>
    <2>1. Len(c) = TraceLen * 8
        BY <1>1, <1>2, <1>8, ContentAt DEF Holds
    <2>2. \A i \in 1..7 : n * 8 + (i + 1) <= Len(c)
        BY <1>2, <1>4, <2>1
    <2> QED
        BY <1>6, <2>2
<1> QED
    BY <1>4, <1>6, <1>7, <1>8

-----------------------------------------------------------------------------
(* What simulations have read, and what they leave if nobody disturbs them. *)

\* Only the last event of a trace may be cut.
AsWritten(p) ==
    /\ p \in Seq(PlayedEvents) /\ Len(p) <= TraceLen
    /\ \A n \in 1..Len(p), x \in Fields :
           p[n][x] = <<x, n>> \/ (p[n][x] = Unread /\ n = Len(p))

Good(r) ==
    /\ r.contexts \subseteq ToSet(Events(CCWrites, ContextNum))
    /\ r.pages \subseteq ToSet(Events(SlpteWrites, PageNum))
    /\ AsWritten(r.played)
    /\ r.trace_open => IsPiece("iova")
    /\ r.stage = "play" => r.trace_open

ReadInv == IInv /\ FilesOK /\ \A s \in Sims : Good(sim[s])

\* A simulation that nobody has disturbed: as far as it is, the trace it reads is
\* whole and none of its events is cut; when it hangs, it has played one of a page
\* of 1GB, and when it has ended, its statistics are there.
CalmOK(s, r) ==
    r.calm =>
        /\ r.stage \in Running => Whole
        /\ r.stage = "configure" => config = "written"
        /\ r.stage = "pages" => r.trace_open
        /\ \A n \in 1..Len(r.played), x \in Fields : r.played[n][x] = <<x, n>>
        /\ r.stage = "drain" => Len(r.played) = TraceLen
        /\ r.stage = "hung" => DOMAIN r.played \cap HugeEvents # {}
        /\ r.stage = "exited" => log[explore[s[1]].dir] = Statistics(TraceLen)

CalmInv == ReadInv /\ \A s \in Sims : CalmOK(s, sim[s])

\* An empty trace takes no time, and the statistics divide by it.
TraceNotEmpty == TraceLen > 0

\* One simulation goes on.
Advances(s) ==
    \E r : /\ sim' = [sim EXCEPT ![s] = r] /\ Good(r)
           /\ TraceNotEmpty /\ CalmOK(s, sim[s]) => CalmOK(s, r)'

LEMMA EmptyPlayed == AsWritten(<<>>) /\ Len(<<>>) = 0
<1>1. <<>> \in Seq(PlayedEvents) /\ Len(<<>>) = 0
    OBVIOUS
<1> QED
    BY <1>1, ExperimentAssumption DEF AsWritten

LEMMA NoSimGood == Good(NoSim) /\ \A s : CalmOK(s, NoSim)
BY EmptyPlayed DEF Good, NoSim, CalmOK

LEMMA ExitFields ==
    ASSUME NEW s, IsSim(sim[s])
    PROVE  /\ Exit(s).stage = "exited" /\ Exit(s).trace_open = sim[s].trace_open
           /\ Exit(s).contexts = {} /\ Exit(s).pages = {} /\ Exit(s).played = <<>>
           /\ Exit(s).calm = sim[s].calm
<1> DEFINE x == [sim[s] EXCEPT !.stage = "exited", !.contexts = {}]
           y == [x EXCEPT !.pages = {}, !.played = <<>>]
<1>1. x = [sim[s] EXCEPT !.stage = "exited", !.contexts = {}]
    OBVIOUS
<1>2. Exit(s) = y
    BY DEF Exit
<1> HIDE DEF x
<1>3. /\ x = [stage |-> "exited", trace_open |-> sim[s].trace_open, contexts |-> {},
              pages |-> sim[s].pages, played |-> sim[s].played, calm |-> sim[s].calm]
    BY <1>1 DEF IsSim
<1>4. y = [x EXCEPT !.pages = {}, !.played = <<>>]
    OBVIOUS
<1> HIDE DEF y
<1> QED
    BY <1>2, <1>3, <1>4

LEMMA ExitGood ==
    ASSUME ReadInv, NEW s \in Sims
    PROVE  Good(Exit(s))
<1>1. IsSim(sim[s]) /\ Good(sim[s])
    BY DEF ReadInv, IInv, SimsOK
<1> QED
    BY <1>1, ExitFields, EmptyPlayed DEF Good

\* A file that is whole is not absent.
LEMMA WholeIsThere ==
    ASSUME FilesOK, Whole, NEW f \in Names
    PROVE  file[f] # NoFile /\ IsPiece(f)
<1>1. PICK k \in {4, 6, 8} : Num[f] \in Nat /\ Len(Content[f]) = Num[f] * k
    BY ContentAt DEF Holds
<1>2. Len(Content[f]) # 1
    <2>1. PICK n : n = Num[f]
        OBVIOUS
    <2>2. CASE k = 4
        BY <1>1, <2>1, <2>2
    <2>3. CASE k = 6
        BY <1>1, <2>1, <2>3
    <2>4. CASE k = 8
        BY <1>1, <2>1, <2>4
    <2> QED
        BY <1>1, <2>2, <2>3, <2>4
<1>3. Len(NoFile) = 1
    BY DEF NoFile
<1>4. file[f] = Content[f]
    BY DEF Whole
<1> QED
    BY <1>2, <1>3, <1>4 DEF FilesOK

LEMMA ConfigureAdvances ==
    ASSUME ReadInv, NEW s \in Sims, Configure(s)
    PROVE  Advances(s)
<1>1. PICK r : /\ r = (IF config = "written" THEN [sim[s] EXCEPT !.stage = "open"] ELSE Exit(s))
               /\ sim[s].stage = "configure" /\ sim' = [sim EXCEPT ![s] = r]
               /\ UNCHANGED <<file, build, config, log, explore>>
    BY DEF Configure, Step, trace_gen, explorer
<1>2. IsSim(sim[s]) /\ Good(sim[s])
    BY DEF ReadInv, IInv, SimsOK
<1>3. CASE config = "written"
    <2>1. r = [sim[s] EXCEPT !.stage = "open"]
        BY <1>1, <1>3
    <2>2. r = [stage |-> "open", trace_open |-> sim[s].trace_open, contexts |-> sim[s].contexts,
               pages |-> sim[s].pages, played |-> sim[s].played, calm |-> sim[s].calm]
        BY <1>2, <2>1 DEF IsSim
    <2>3. Good(r)
        BY <1>2, <2>2 DEF Good
    <2>4. CalmOK(s, sim[s]) => CalmOK(s, r)'
        BY <1>1, <2>2 DEF CalmOK, Whole, Running
    <2> QED
        BY <1>1, <2>3, <2>4 DEF Advances
<1>4. CASE config # "written"
    <2>1. r = Exit(s)
        BY <1>1, <1>4
    <2>2. Good(r)
        BY <2>1, ExitGood
    <2>3. CalmOK(s, sim[s]) => ~sim[s].calm
        BY <1>1, <1>4 DEF CalmOK
    <2>4. r.calm = sim[s].calm
        BY <1>2, <2>1, ExitFields
    <2>5. CalmOK(s, sim[s]) => CalmOK(s, r)'
        BY <2>3, <2>4 DEF CalmOK
    <2> QED
        BY <1>1, <2>2, <2>5 DEF Advances
<1> QED
    BY <1>3, <1>4

LEMMA ReadCCDataAdvances ==
    ASSUME ReadInv, NEW s \in Sims, ReadCCData(s)
    PROVE  Advances(s)
<1>1. PICK c, q, r :
          /\ c = LoadEvents(file.cc, CCReads)
          /\ q = [sim[s] EXCEPT !.stage = "pages", !.trace_open = (file.iova # NoFile), !.contexts = c]
          /\ r = (IF file.cc = NoFile THEN Exit(s) ELSE q)
          /\ sim[s].stage = "open" /\ sim' = [sim EXCEPT ![s] = r]
          /\ UNCHANGED <<file, build, config, log, explore>>
    BY DEF ReadCCData, Step, trace_gen, explorer
<1>2. IsSim(sim[s]) /\ Good(sim[s]) /\ FilesOK
    BY DEF ReadInv, IInv, SimsOK
<1>3. CalmOK(s, sim[s]) /\ sim[s].calm => file.iova # NoFile /\ file.cc # NoFile
    <2>1. CalmOK(s, sim[s]) /\ sim[s].calm => Whole
        BY <1>1 DEF CalmOK, Running
    <2> QED
        BY <1>2, <2>1, WholeIsThere DEF Names
<1>4. CASE file.cc # NoFile
    <2>1. r = q
        BY <1>1, <1>4
    <2>2. PICK o : o = (file.iova # NoFile)
        OBVIOUS
    <2>3. o => IsPiece("iova")
        BY <1>2, <2>2 DEF FilesOK, Names
    <2>4. c \subseteq ToSet(Events(CCWrites, ContextNum))
        <3>1. IsPiece("cc")
            BY <1>2, <1>4 DEF FilesOK, Names
        <3>2. LoadEvents(file["cc"], Layout["cc"]) \subseteq ToSet(Events(Layout["cc"], Num["cc"]))
            BY <3>1, LoadedEvents
        <3>3. Layout["cc"] = CCWrites /\ CCReads = CCWrites /\ Num["cc"] = ContextNum
            BY Layouts DEF Layout, Num
        <3> QED
            BY <1>1, <3>2, <3>3
    <2>5. CalmOK(s, sim[s]) /\ sim[s].calm => o
        BY <1>3, <2>2
    <2>6. q = [stage |-> "pages", trace_open |-> o, contexts |-> c,
               pages |-> sim[s].pages, played |-> sim[s].played, calm |-> sim[s].calm]
        <3>1. q = [sim[s] EXCEPT !.stage = "pages", !.trace_open = o, !.contexts = c]
            BY <1>1, <2>2
        <3> QED
            BY <1>2, <3>1 DEF IsSim
    <2>7. Good(q)
        BY <1>2, <2>3, <2>4, <2>6 DEF Good
    <2>8. CalmOK(s, sim[s]) => CalmOK(s, q)'
        <3>1. q.calm = sim[s].calm /\ q.stage = "pages" /\ q.trace_open = o /\ q.played = sim[s].played
            BY <2>6
        <3>2. CalmOK(s, sim[s]) /\ sim[s].calm =>
                  Whole' /\ o /\ \A n \in 1..Len(q.played), x \in Fields : q.played[n][x] = <<x, n>>
            BY <1>1, <2>5, <3>1 DEF CalmOK, Whole, Running
        <3> QED
            BY <3>1, <3>2 DEF CalmOK
    <2> QED
        BY <1>1, <2>1, <2>7, <2>8 DEF Advances
<1>5. CASE file.cc = NoFile
    <2>1. r = Exit(s)
        BY <1>1, <1>5
    <2>2. Good(r)
        BY <2>1, ExitGood
    <2>3. r.calm = sim[s].calm
        BY <1>2, <2>1, ExitFields
    <2>4. CalmOK(s, sim[s]) => CalmOK(s, r)'
        BY <1>3, <1>5, <2>3 DEF CalmOK
    <2> QED
        BY <1>1, <2>2, <2>4 DEF Advances
<1> QED
    BY <1>4, <1>5

LEMMA ReadSLPTDataAdvances ==
    ASSUME ReadInv, NEW s \in Sims, ReadSLPTData(s)
    PROVE  Advances(s)
<1>1. PICK c, q, r :
          /\ c = LoadEvents(file.slpt, SlpteReads)
          /\ q = [sim[s] EXCEPT !.stage = "play", !.pages = c]
          /\ r = (IF file.slpt = NoFile \/ ~sim[s].trace_open THEN Exit(s) ELSE q)
          /\ sim[s].stage = "pages" /\ sim' = [sim EXCEPT ![s] = r]
          /\ UNCHANGED <<file, build, config, log, explore>>
    BY DEF ReadSLPTData, Step, trace_gen, explorer
<1>2. IsSim(sim[s]) /\ Good(sim[s]) /\ FilesOK
    BY DEF ReadInv, IInv, SimsOK
<1>3. CalmOK(s, sim[s]) /\ sim[s].calm => file.slpt # NoFile /\ sim[s].trace_open
    <2>1. CalmOK(s, sim[s]) /\ sim[s].calm => Whole /\ sim[s].trace_open
        BY <1>1 DEF CalmOK, Running
    <2> QED
        BY <1>2, <2>1, WholeIsThere DEF Names
<1>4. CASE file.slpt # NoFile /\ sim[s].trace_open
    <2>1. r = q
        BY <1>1, <1>4
    <2>4. c \subseteq ToSet(Events(SlpteWrites, PageNum))
        <3>1. IsPiece("slpt")
            BY <1>2, <1>4 DEF FilesOK, Names
        <3>2. LoadEvents(file["slpt"], Layout["slpt"]) \subseteq ToSet(Events(Layout["slpt"], Num["slpt"]))
            BY <3>1, LoadedEvents
        <3>3. Layout["slpt"] = SlpteWrites /\ SlpteReads = SlpteWrites /\ Num["slpt"] = PageNum
            BY Layouts DEF Layout, Num
        <3> QED
            BY <1>1, <3>2, <3>3
    <2>6. q = [stage |-> "play", trace_open |-> sim[s].trace_open, contexts |-> sim[s].contexts,
               pages |-> c, played |-> sim[s].played, calm |-> sim[s].calm]
        BY <1>1, <1>2 DEF IsSim
    <2>7. Good(q)
        BY <1>2, <1>4, <2>4, <2>6 DEF Good
    <2>8. CalmOK(s, sim[s]) => CalmOK(s, q)'
        BY <1>1, <2>6 DEF CalmOK, Whole, Running
    <2> QED
        BY <1>1, <2>1, <2>7, <2>8 DEF Advances
<1>5. CASE file.slpt = NoFile \/ ~sim[s].trace_open
    <2>1. r = Exit(s)
        BY <1>1, <1>5
    <2>2. Good(r)
        BY <2>1, ExitGood
    <2>3. r.calm = sim[s].calm
        BY <1>2, <2>1, ExitFields
    <2>4. CalmOK(s, sim[s]) => CalmOK(s, r)'
        BY <1>3, <1>5, <2>3 DEF CalmOK
    <2> QED
        BY <1>1, <2>2, <2>4 DEF Advances
<1> QED
    BY <1>4, <1>5

\* What is played of a trace that is not cut is its beginning, whole.
LEMMA NotCutIsWhole ==
    ASSUME NEW s, AsWritten(sim[s].played), ~IsCut(s)
    PROVE  \A n \in 1..Len(sim[s].played), x \in Fields : sim[s].played[n][x] = <<x, n>>
<1>1. PICK p : p = sim[s].played
    OBVIOUS
<1>2. AsWritten(p) /\ Len(p) \in Nat /\ p \in Seq(PlayedEvents)
    BY <1>1 DEF AsWritten
<1> SUFFICES ASSUME NEW n \in 1..Len(p), NEW x \in Fields, p[n][x] # <<x, n>>
             PROVE  FALSE
    BY <1>1
<1>3. p[n][x] = Unread /\ n = Len(p)
    BY <1>2 DEF AsWritten
<1>4. p # <<>> /\ Last(p)[x] = Unread
    BY <1>2, <1>3 DEF Last
<1> QED
    BY <1>1, <1>4 DEF IsCut, Fields

\* And the other way round.
LEMMA WholeIsNotCut ==
    ASSUME NEW s, AsWritten(sim[s].played),
           \A n \in 1..Len(sim[s].played), x \in Fields : sim[s].played[n][x] = <<x, n>>
    PROVE  ~IsCut(s)
<1>1. PICK p : p = sim[s].played
    OBVIOUS
<1>2. Len(p) \in Nat /\ p \in Seq(PlayedEvents)
    BY <1>1 DEF AsWritten
<1> SUFFICES ASSUME IsCut(s) PROVE FALSE
    OBVIOUS
<1>3. PICK x \in Fields : p # <<>> /\ Last(p)[x] = Unread
    BY <1>1 DEF IsCut, Fields
<1>4. Len(p) \in 1..Len(p) /\ Last(p) = p[Len(p)]
    BY <1>2, <1>3 DEF Last
<1>5. \A n : <<x, n>> # Unread
    BY DEF Unread
<1> QED
    BY <1>1, <1>3, <1>4, <1>5

LEMMA PlayEventAdvances ==
    ASSUME ReadInv, NEW s \in Sims, PlayEvent(s)
    PROVE  Advances(s)
<1>1. PICK p, n, e, t, r :
          /\ p = sim[s].played /\ n = Len(p)
          /\ e = ReadFromFile(file.iova, n * 8 + 1, TranslateReads)
          /\ t = Append(p, e)
          /\ r = [sim[s] EXCEPT !.played = t]
          /\ sim[s].stage = "play" /\ sim' = [sim EXCEPT ![s] = r]
          /\ ~IsCut(s) /\ ~(n * 8 >= Len(file.iova))
          /\ UNCHANGED <<file, build, config, log, explore>>
    BY Layouts DEF PlayEvent, Step, trace_gen, explorer, AtEnd, Position
<1>2. IsSim(sim[s]) /\ Good(sim[s])
    BY DEF ReadInv, IInv, SimsOK
<1>3. AsWritten(p) /\ IsPiece("iova") /\ p \in Seq(PlayedEvents) /\ n \in Nat
    BY <1>1, <1>2 DEF Good, AsWritten
<1>4. Len(file.iova) \in Nat /\ n * 8 < Len(file.iova)
    BY <1>1, <1>3 DEF IsPiece
<1>5. /\ e \in PlayedEvents /\ n + 1 <= TraceLen
      /\ \A x \in Fields : e[x] = <<x, n + 1>> \/ e[x] = Unread
      /\ file.iova = Content.iova => \A x \in Fields : e[x] = <<x, n + 1>>
    BY <1>1, <1>3, <1>4, EventPlayed
<1>6. \A m \in 1..n, x \in Fields : p[m][x] = <<x, m>>
    BY <1>1, <1>3, NotCutIsWhole
<1>7. /\ t \in Seq(PlayedEvents) /\ Len(t) = n + 1 /\ t[n + 1] = e
      /\ \A m \in 1..n : t[m] = p[m]
    BY <1>1, <1>3, <1>5
<1>8. \A m \in 1..(n + 1) : m \in 1..n \/ m = n + 1
    BY <1>3
<1>9. AsWritten(t)
    <2>1. \A m \in 1..(n + 1), x \in Fields :
              t[m][x] = <<x, m>> \/ (t[m][x] = Unread /\ m = n + 1)
        BY <1>5, <1>6, <1>7, <1>8
    <2> QED
        BY <1>5, <1>7, <2>1 DEF AsWritten
<1>10. r = [stage |-> "play", trace_open |-> sim[s].trace_open, contexts |-> sim[s].contexts,
            pages |-> sim[s].pages, played |-> t, calm |-> sim[s].calm]
    BY <1>1, <1>2 DEF IsSim
<1>11. Good(r)
    BY <1>1, <1>2, <1>9, <1>10 DEF Good
<1>12. CalmOK(s, sim[s]) => CalmOK(s, r)'
    <2>1. CalmOK(s, sim[s]) /\ sim[s].calm => Whole /\ Whole' /\ file.iova = Content.iova
        BY <1>1 DEF CalmOK, Running, Whole
    <2>2. file.iova = Content.iova => \A m \in 1..Len(t), x \in Fields : t[m][x] = <<x, m>>
        BY <1>5, <1>6, <1>7, <1>8
    <2>3. r.calm = sim[s].calm /\ r.stage = "play" /\ r.played = t
        BY <1>10
    <2> QED
        BY <2>1, <2>2, <2>3 DEF CalmOK
<1> QED
    BY <1>1, <1>11, <1>12 DEF Advances

LEMMA EndTraceAdvances ==
    ASSUME ReadInv, NEW s \in Sims, EndTrace(s)
    PROVE  Advances(s)
<1>1. PICK p, n, r :
          /\ p = sim[s].played /\ n = Len(p)
          /\ r = [sim[s] EXCEPT !.stage = "drain"]
          /\ sim[s].stage = "play" /\ sim' = [sim EXCEPT ![s] = r]
          /\ IsCut(s) \/ n * 8 >= Len(file.iova)
          /\ UNCHANGED <<file, build, config, log, explore>>
    BY Layouts DEF EndTrace, Step, trace_gen, explorer, AtEnd, Position
<1>2. IsSim(sim[s]) /\ Good(sim[s])
    BY DEF ReadInv, IInv, SimsOK
<1>3. n \in Nat /\ n <= TraceLen /\ p \in Seq(PlayedEvents)
    BY <1>1, <1>2 DEF Good, AsWritten
<1>4. r = [stage |-> "drain", trace_open |-> sim[s].trace_open, contexts |-> sim[s].contexts,
           pages |-> sim[s].pages, played |-> p, calm |-> sim[s].calm]
    BY <1>1, <1>2 DEF IsSim
<1>5. Good(r)
    BY <1>1, <1>2, <1>4 DEF Good
<1>6. ASSUME CalmOK(s, sim[s]), sim[s].calm
      PROVE  Whole' /\ n = TraceLen /\ \A m \in 1..n, x \in Fields : p[m][x] = <<x, m>>
    <2>1. Whole /\ \A m \in 1..n, x \in Fields : p[m][x] = <<x, m>>
        BY <1>1, <1>6 DEF CalmOK, Running
    <2>2. ~IsCut(s)
        BY <1>1, <1>2, <2>1, WholeIsNotCut DEF Good
    <2>3. "iova" \in Names /\ Len(Layout["iova"]) = 8 /\ Num["iova"] = TraceLen
        BY Layouts DEF Names, Layout, Num
    <2>4. Len(Content["iova"]) = TraceLen * 8 /\ TraceLen \in Nat
        BY <2>3, ContentAt DEF Holds
    <2>5. n * 8 >= TraceLen * 8
        BY <1>1, <2>1, <2>2, <2>4 DEF Whole
    <2>6. n = TraceLen
        BY <1>3, <2>4, <2>5
    <2> QED
        BY <1>1, <2>1, <2>6 DEF Whole
<1>7. CalmOK(s, sim[s]) => CalmOK(s, r)'
    <2>1. r.calm = sim[s].calm /\ r.stage = "drain" /\ r.played = p
        BY <1>4
    <2> QED
        BY <1>1, <1>6, <2>1 DEF CalmOK
<1> QED
    BY <1>1, <1>5, <1>7 DEF Advances

LEMMA HangAdvances ==
    ASSUME ReadInv, NEW s \in Sims, Hang(s)
    PROVE  Advances(s)
<1>1. PICK r :
          /\ IsCut(s) \/ DOMAIN sim[s].played \cap HugeEvents # {}
          /\ r = [sim[s] EXCEPT !.stage = "hung"]
          /\ sim[s].stage = "drain" /\ sim' = [sim EXCEPT ![s] = r]
          /\ UNCHANGED <<file, build, config, log, explore>>
    BY DEF Hang, Step, trace_gen, explorer
<1>2. IsSim(sim[s]) /\ Good(sim[s])
    BY DEF ReadInv, IInv, SimsOK
<1>3. r = [stage |-> "hung", trace_open |-> sim[s].trace_open, contexts |-> sim[s].contexts,
           pages |-> sim[s].pages, played |-> sim[s].played, calm |-> sim[s].calm]
    BY <1>1, <1>2 DEF IsSim
<1>4. Good(r)
    BY <1>2, <1>3 DEF Good
<1>5. CalmOK(s, sim[s]) => CalmOK(s, r)'
    <2>1. CalmOK(s, sim[s]) /\ sim[s].calm =>
              Whole' /\ \A n \in 1..Len(r.played), x \in Fields : r.played[n][x] = <<x, n>>
        BY <1>1, <1>3 DEF CalmOK, Whole, Running
    <2>2. r.calm = sim[s].calm /\ r.stage = "hung" /\ r.played = sim[s].played
        BY <1>3
    <2>3. CalmOK(s, sim[s]) /\ sim[s].calm => DOMAIN r.played \cap HugeEvents # {}
        BY <1>1, <1>2, <2>1, <2>2, WholeIsNotCut DEF Good
    <2> QED
        BY <2>1, <2>2, <2>3 DEF CalmOK
<1> QED
    BY <1>1, <1>4, <1>5 DEF Advances

LEMMA PrintStatAdvances ==
    ASSUME ReadInv, NEW s \in Sims, PrintStat(s)
    PROVE  Advances(s)
<1>1. PICK p, r :
          /\ p = sim[s].played /\ r = Exit(s)
          /\ sim[s].stage = "drain" /\ sim' = [sim EXCEPT ![s] = r]
          /\ explore' = explore
          /\ p # <<>> => \E l \in Printed(log[explore[s[1]].dir], Len(p)) :
                            log' = [log EXCEPT ![explore[s[1]].dir] = l]
    BY DEF PrintStat, Step, explorer
<1>2. IsSim(sim[s]) /\ Good(sim[s]) /\ s[1] \in Explorers /\ explore[s[1]].dir \in LogDirs
    BY Shapes DEF ReadInv, IInv, SimsOK
<1>3. Good(r)
    BY <1>1, ExitGood
<1>4. r.calm = sim[s].calm /\ r.stage = "exited" /\ r.played = <<>>
    BY <1>1, <1>2, ExitFields
<1>5. ASSUME TraceNotEmpty, CalmOK(s, sim[s]), sim[s].calm
      PROVE  log'[explore[s[1]].dir] = Statistics(TraceLen)
    <2>1. Len(p) = TraceLen
        BY <1>1, <1>5 DEF CalmOK
    <2>2. p # <<>>
        BY <1>5, <2>1, EmptyPlayed, ExperimentAssumption DEF TraceNotEmpty
    <2>3. log[explore[s[1]].dir] = Started
        BY <1>1, <1>5 DEF ReadInv, IInv, CalmUnraced, RunningStarted, Running
    <2>4. log' = [log EXCEPT ![explore[s[1]].dir] = Statistics(Len(p))]
        BY <1>1, <2>2, <2>3 DEF Printed
    <2> QED
        BY <1>2, <2>1, <2>4 DEF ReadInv, IInv, LogOK
<1>6. TraceNotEmpty /\ CalmOK(s, sim[s]) => CalmOK(s, r)'
    <2>1. \A n \in 1..Len(r.played) : FALSE
        BY <1>4, EmptyPlayed
    <2>2. "exited" \notin Running
        BY NotRunning
    <2> QED
        BY <1>1, <1>4, <1>5, <2>1, <2>2 DEF CalmOK
<1> QED
    BY <1>1, <1>3, <1>6 DEF Advances

LEMMA SimulateAdvances ==
    ASSUME ReadInv, NEW s \in Sims, Simulate(s)
    PROVE  Advances(s)
BY ConfigureAdvances, ReadCCDataAdvances, ReadSLPTDataAdvances, PlayEventAdvances,
   EndTraceAdvances, HangAdvances, PrintStatAdvances DEF Simulate

\* Files keep what has reached them, or are emptied.
LEMMA FilesStep ==
    ASSUME FilesOK, SimsOK, [Next]_vars
    PROVE  FilesOK' /\ \A f \in Names : IsPiece(f) => IsPiece(f)'
<1>1. CASE BuildStart \/ CloseFile
    <2>1. PICK g : build' = g
        OBVIOUS
    <2>2. g \in Names \cup {"idle"}
        BY <1>1, <2>1 DEF BuildStart, CloseFile, NextFile, FilesOK, Names
    <2>3. Open(g)
        BY <1>1, <2>1 DEF BuildStart, CloseFile, Open
    <2> QED
        BY <2>1, <2>2, <2>3, OpenPiece
<1>2. CASE Flush
    BY <1>2, FlushPiece
<1>3. CASE file' = file /\ build' \in {build, "idle"}
    <2>1. \A f \in Names : IsPiece(f) => IsPiece(f)'
        BY <1>3 DEF IsPiece
    <2> QED
        BY <1>3, <2>1 DEF FilesOK
<1>4. BuildStart \/ CloseFile \/ Flush \/ (file' = file /\ build' \in {build, "idle"})
    BY DEF Next, BuildInterrupted, ExploreStart, Interrupted, Explore, CheckLog, OpenConfig,
           CloseConfig, Launch, ExploreEnd, Simulate, Configure, ReadCCData, ReadSLPTData,
           PlayEvent, EndTrace, Hang, PrintStat, Step, trace_gen, vars
<1> QED
    BY <1>1, <1>2, <1>3, <1>4

\* What a step leaves of a simulation.
After(s) ==
    \E r : /\ sim'[s] = r /\ Good(r)
           /\ TraceNotEmpty /\ CalmOK(s, sim[s]) => CalmOK(s, r)'

\* The statistics of a calm simulation are safe: nobody has raced for its log.
StatisticsSafe(s) ==
    sim[s].calm /\ sim'[s].calm =>
        /\ explore'[s[1]].dir = explore[s[1]].dir
        /\ HasStatistics(log[explore[s[1]].dir]) =>
              log'[explore[s[1]].dir] = log[explore[s[1]].dir]

LEMMA CalmIsSafe ==
    ASSUME IInv, NEW s \in Sims, StatisticsStay, DirsStay
    PROVE  StatisticsSafe(s)
<1> SUFFICES ASSUME sim[s].calm, sim'[s].calm, NEW d, d = explore[s[1]].dir,
                    HasStatistics(log[d]), log'[d] # log[d]
             PROVE  FALSE
    BY DEF StatisticsSafe, DirsStay
<1>1. s[1] \in Explorers /\ d \in LogDirs
    BY Shapes DEF IInv
<1>2. PICK e \in Explorers : explore[e].dir = d /\ explore[e].raced /\ Engaged(e)
    BY <1>1 DEF StatisticsStay
<1>3. ~explore[s[1]].raced /\ Engaged(s[1])
    BY DEF IInv, CalmUnraced, Engaged, HasSim
<1> QED
    BY <1>1, <1>2, <1>3 DEF IInv, EngagedRaced

\* One that is neither started, nor goes on, nor is disturbed.
LEMMA Untouched ==
    ASSUME ReadInv, NEW s \in Sims, sim'[s] = sim[s], StatisticsSafe(s),
           Whole => Whole', config = "written" => config' = "written"
    PROVE  After(s)
<1>1. PICK r : r = sim[s]
    OBVIOUS
<1>2. Good(r)
    BY <1>1 DEF ReadInv
<1>3. CalmOK(s, r) => CalmOK(s, r)'
    BY <1>1, LogsDiffer DEF CalmOK, StatisticsSafe
<1> QED
    BY <1>1, <1>2, <1>3 DEF After

\* One that loses its calm, or has none.
LEMMA NotCalm ==
    ASSUME ReadInv, NEW s \in Sims, NEW r, sim'[s] = r, Good(r), ~r.calm
    PROVE  After(s)
BY DEF After, CalmOK

LEMMA BuildStartAfter ==
    ASSUME ReadInv, BuildStart, NEW s \in Sims
    PROVE  After(s)
<1>1. PICK r : r = [sim[s] EXCEPT !.calm = sim[s].calm /\ sim[s].stage = "exited"]
    OBVIOUS
<1>2. sim'[s] = r /\ log' = log /\ explore' = explore
    BY <1>1 DEF BuildStart, explorer, ReadInv, IInv, SimsOK
<1>3. IsSim(sim[s]) /\ Good(sim[s])
    BY DEF ReadInv, IInv, SimsOK
<1>4. PICK c : c = (sim[s].calm /\ sim[s].stage = "exited")
    OBVIOUS
<1>5. r = [stage |-> sim[s].stage, trace_open |-> sim[s].trace_open, contexts |-> sim[s].contexts,
           pages |-> sim[s].pages, played |-> sim[s].played, calm |-> c]
    <2>1. r = [sim[s] EXCEPT !.calm = c]
        BY <1>1, <1>4
    <2> QED
        BY <1>3, <2>1 DEF IsSim
<1>6. Good(r)
    BY <1>3, <1>5 DEF Good
<1>7. CalmOK(s, sim[s]) => CalmOK(s, r)'
    <2>1. "exited" \notin Running
        BY NotRunning
    <2>2. r.calm => sim[s].calm /\ r.stage = "exited"
        BY <1>4, <1>5
    <2>3. r.played = sim[s].played /\ r.stage = sim[s].stage
        BY <1>5
    <2> QED
        BY <1>2, <2>1, <2>2, <2>3 DEF CalmOK
<1> QED
    BY <1>2, <1>6, <1>7 DEF After

\* A file is not whole while it is written.
LEMMA WritingAfter ==
    ASSUME ReadInv, Flush \/ CloseFile \/ BuildInterrupted, NEW s \in Sims
    PROVE  After(s)
<1>1. PICK r : r = sim[s]
    OBVIOUS
<1>2. sim'[s] = r /\ log' = log /\ explore' = explore /\ ~Whole
    BY <1>1 DEF Flush, CloseFile, BuildInterrupted, explorer, Whole
<1>3. Good(r)
    BY <1>1 DEF ReadInv
<1>4. CalmOK(s, r) => CalmOK(s, r)'
    <2>1. CalmOK(s, r) /\ r.calm => r.stage \notin Running
        BY <1>2 DEF CalmOK
    <2>2. "configure" \in Running
        BY DEF Running
    <2> QED
        BY <1>2, <2>1, <2>2 DEF CalmOK
<1> QED
    BY <1>1, <1>2, <1>3, <1>4 DEF After

\* Who has not read the configuration is disturbed by another that writes it.
LEMMA OpenConfigAfter ==
    ASSUME ReadInv, NEW e \in Explorers, OpenConfig(e), NEW s \in Sims, StatisticsSafe(s)
    PROVE  After(s)
<1>1. PICK c, r : c = (sim[s].calm /\ sim[s].stage # "configure") /\ r = [sim[s] EXCEPT !.calm = c]
    OBVIOUS
<1>2. sim'[s] = r /\ log' = log /\ (Whole => Whole')
    BY <1>1 DEF OpenConfig, ReadInv, IInv, SimsOK, trace_gen, Whole
<1>3. IsSim(sim[s]) /\ Good(sim[s])
    BY DEF ReadInv, IInv, SimsOK
<1>4. r = [stage |-> sim[s].stage, trace_open |-> sim[s].trace_open, contexts |-> sim[s].contexts,
           pages |-> sim[s].pages, played |-> sim[s].played, calm |-> c]
    BY <1>1, <1>3 DEF IsSim
<1>5. Good(r)
    BY <1>3, <1>4 DEF Good
<1>6. CalmOK(s, sim[s]) => CalmOK(s, r)'
    <2>1. r.calm => /\ sim[s].calm /\ r.stage # "configure"
                    /\ explore'[s[1]].dir = explore[s[1]].dir
        BY <1>1, <1>2, <1>4 DEF StatisticsSafe
    <2>2. r.played = sim[s].played /\ r.stage = sim[s].stage /\ r.trace_open = sim[s].trace_open
        BY <1>4
    <2> QED
        BY <1>2, <2>1, <2>2 DEF CalmOK
<1> QED
    BY <1>2, <1>5, <1>6 DEF After

\* A simulation begins calm if the trace is whole and the configuration written.
LEMMA LaunchAfter ==
    ASSUME ReadInv, NEW e \in Explorers, Launch(e), NEW s \in Sims, StatisticsSafe(s)
    PROVE  After(s)
<1>1. PICK c, k, r :
          /\ c = (Whole /\ config = "written" /\ ~explore[e].raced)
          /\ k = <<e, explore[e].copy>>
          /\ r = [NoSim EXCEPT !.stage = "configure", !.calm = c]
          /\ sim' = [sim EXCEPT ![k] = r]
          /\ UNCHANGED <<file, build, config>>
    BY DEF Launch, trace_gen
<1>2. CASE s # k
    <2>1. sim'[s] = sim[s]
        BY <1>1, <1>2 DEF ReadInv, IInv, SimsOK
    <2> QED
        BY <1>1, <2>1, Untouched DEF Whole
<1>3. CASE s = k
    <2>1. sim'[s] = r
        BY <1>1, <1>3 DEF ReadInv, IInv, SimsOK
    <2>2. r = [stage |-> "configure", trace_open |-> FALSE, contexts |-> {}, pages |-> {},
               played |-> <<>>, calm |-> c]
        BY <1>1 DEF NoSim
    <2>3. Good(r)
        BY <2>2, EmptyPlayed DEF Good
    <2>4. CalmOK(s, r)'
        <3>1. r.calm => Whole' /\ config' = "written"
            BY <1>1, <2>2 DEF Whole
        <3>2. \A n \in 1..Len(r.played) : FALSE
            BY <2>2, EmptyPlayed
        <3>3. r.stage = "configure"
            BY <2>2
        <3> QED
            BY <3>1, <3>2, <3>3 DEF CalmOK
    <2> QED
        BY <2>1, <2>3, <2>4 DEF After
<1> QED
    BY <1>2, <1>3

LEMMA ForgottenAfter ==
    ASSUME ReadInv, NEW e \in Explorers, ExploreStart(e) \/ Interrupted(e), NEW s \in Sims,
           StatisticsSafe(s)
    PROVE  After(s)
<1>1. /\ sim'[s] = IF s[1] = e THEN NoSim ELSE sim[s]
      /\ UNCHANGED <<file, build, config, log>>
    BY DEF ExploreStart, Interrupted, trace_gen, ReadInv, IInv, SimsOK
<1>2. CASE s[1] = e
    <2>1. PICK r : r = NoSim
        OBVIOUS
    <2>2. sim'[s] = r /\ Good(r) /\ ~r.calm
        BY <1>1, <1>2, <2>1, NoSimGood DEF NoSim
    <2> QED
        BY <2>2, NotCalm
<1>3. CASE s[1] # e
    BY <1>1, <1>3, Untouched DEF Whole
<1> QED
    BY <1>2, <1>3

LEMMA SimulateAfter ==
    ASSUME ReadInv, NEW q \in Sims, Simulate(q), NEW s \in Sims, StatisticsSafe(s)
    PROVE  After(s)
<1>1. PICK r : /\ sim' = [sim EXCEPT ![q] = r] /\ Good(r)
               /\ TraceNotEmpty /\ CalmOK(q, sim[q]) => CalmOK(q, r)'
    BY SimulateAdvances DEF Advances
<1>2. CASE s = q
    <2>1. sim'[s] = r
        BY <1>1, <1>2 DEF ReadInv, IInv, SimsOK
    <2> QED
        BY <1>1, <1>2, <2>1 DEF After
<1>3. CASE s # q
    <2>1. sim'[s] = sim[s]
        BY <1>1, <1>3 DEF ReadInv, IInv, SimsOK
    <2>2. UNCHANGED <<file, build, config>>
        BY DEF Simulate, Configure, ReadCCData, ReadSLPTData, PlayEvent, EndTrace, Hang,
               PrintStat, Step, trace_gen, explorer
    <2> QED
        BY <2>1, <2>2, Untouched DEF Whole
<1> QED
    BY <1>2, <1>3

\* No step makes a simulation read what is not written, or disturbs a calm one.
LEMMA NextAfter ==
    ASSUME ReadInv, [Next]_vars, NEW s \in Sims
    PROVE  After(s)
<1>1. StatisticsSafe(s)
    BY NextInv, CalmIsSafe DEF ReadInv
<1>2. CASE BuildStart \/ Flush \/ CloseFile \/ BuildInterrupted
    BY <1>2, BuildStartAfter, WritingAfter
<1>3. ASSUME NEW e \in Explorers, ExploreStart(e) \/ Explore(e) \/ Interrupted(e)
      PROVE  After(s)
    <2>1. CASE CheckLog(e) \/ CloseConfig(e) \/ ExploreEnd(e)
        <3>1. /\ sim' = sim /\ (Whole => Whole')
              /\ config = "written" => config' = "written"
            BY <2>1 DEF CheckLog, CloseConfig, ExploreEnd, trace_gen, Whole
        <3> QED
            BY <1>1, <3>1, Untouched
    <2>2. CASE ExploreStart(e) \/ Interrupted(e)
        BY <1>1, <2>2, ForgottenAfter
    <2>3. CASE OpenConfig(e)
        BY <1>1, <2>3, OpenConfigAfter
    <2>4. CASE Launch(e)
        BY <1>1, <2>4, LaunchAfter
    <2> QED
        BY <1>3, <2>1, <2>2, <2>3, <2>4 DEF Explore
<1>4. ASSUME NEW q \in DOMAIN sim, Simulate(q)
      PROVE  After(s)
    <2>1. q \in Sims
        BY DEF ReadInv, IInv, SimsOK
    <2> QED
        BY <1>1, <1>4, <2>1, SimulateAfter
<1>5. CASE UNCHANGED vars
    BY <1>1, <1>5, Untouched DEF vars, trace_gen, explorer, Whole
<1> QED
    BY <1>2, <1>3, <1>4, <1>5 DEF Next

LEMMA NextReadInv ==
    ASSUME ReadInv, [Next]_vars
    PROVE  ReadInv' /\ (TraceNotEmpty /\ CalmInv => CalmInv')
<1>1. IInv'
    BY NextInv DEF ReadInv
<1>2. FilesOK' /\ (IsPiece("iova") => IsPiece("iova")')
    BY FilesStep DEF ReadInv, IInv, Names
<1>3. \A s \in Sims : Good(sim[s])'
    <2> TAKE s \in Sims
    <2>1. PICK r : sim'[s] = r /\ Good(r)
        BY NextAfter DEF After
    <2> QED
        BY <1>2, <2>1 DEF Good
<1>4. ReadInv'
    BY <1>1, <1>2, <1>3 DEF ReadInv
<1>5. ASSUME TraceNotEmpty, CalmInv
      PROVE  \A s \in Sims : CalmOK(s, sim[s])'
    <2> TAKE s \in Sims
    <2>1. PICK r : sim'[s] = r /\ CalmOK(s, r)'
        BY <1>5, NextAfter DEF After, CalmInv
    <2> QED
        BY <2>1 DEF CalmOK
<1> QED
    BY <1>4, <1>5 DEF CalmInv

LEMMA InitReadInv == Init => CalmInv
<1> SUFFICES ASSUME Init PROVE CalmInv
    OBVIOUS
<1>1. IInv
    BY InitInv
<1>2. FilesOK
    BY DEF Init, FilesOK, Content, Names
<1>3. \A s \in Sims : sim[s] = NoSim
    BY DEF Init, Sims
<1> QED
    BY <1>1, <1>2, <1>3, NoSimGood DEF CalmInv, ReadInv

\* A simulation, whatever is built, explored and interrupted while it reads, has
\* read nothing but contexts, page table entries and translations the builder
\* wrote, and cut no translation but the last.
THEOREM ReadsAreRight == Spec => []ReadAsWritten
<1>1. ReadInv => ReadAsWritten
    <2> SUFFICES ASSUME ReadInv, NEW s \in DOMAIN sim
                 PROVE  /\ sim[s].contexts \subseteq ToSet(Events(CCWrites, ContextNum))
                        /\ sim[s].pages \subseteq ToSet(Events(SlpteWrites, PageNum))
                        /\ Len(sim[s].played) <= TraceLen
                        /\ \A n \in DOMAIN sim[s].played, f \in ToSet(TranslateReads) :
                              \/ sim[s].played[n][f] = <<f, n>>
                              \/ sim[s].played[n][f] = Unread /\ n = Len(sim[s].played)
        BY DEF ReadAsWritten
    <2>1. s \in Sims
        BY DEF ReadInv, IInv, SimsOK
    <2>2. Good(sim[s])
        BY <2>1 DEF ReadInv
    <2>3. DOMAIN sim[s].played = 1..Len(sim[s].played)
        BY <2>2 DEF Good, AsWritten
    <2> QED
        BY <2>2, <2>3 DEF Good, AsWritten, Fields
<1>2. Init => ReadInv
    BY InitReadInv DEF CalmInv
<1>3. ReadInv /\ [Next]_vars => ReadInv'
    BY NextReadInv
<1> QED
    BY <1>1, <1>2, <1>3, PTL DEF Spec

\* Calm is enough: a simulation that starts on a finished trace and a written
\* configuration, and that no builder and no other exploration disturbs, leaves
\* the statistics of the whole trace, if there is anything in it, or hangs on a
\* page of 1GB.
THEOREM UndisturbedAreRight == TraceNotEmpty => (Spec => []UndisturbedRunsAreRight)
<1> SUFFICES ASSUME TraceNotEmpty PROVE Spec => []UndisturbedRunsAreRight
    OBVIOUS
<1>1. CalmInv => UndisturbedRunsAreRight
    BY Shapes DEF CalmInv, CalmOK, UndisturbedRunsAreRight, ReadInv, IInv
<1>2. CalmInv /\ [Next]_vars => CalmInv'
    BY NextReadInv DEF CalmInv
<1> QED
    BY <1>1, <1>2, InitReadInv, PTL DEF Spec

=============================================================================

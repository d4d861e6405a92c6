-------------------------- MODULE LogCollector_proofs --------------------------
(***************************************************************************)
(* Theorems about LogCollector.tla, for any number of connections, NICs,   *)
(* runs and starts of the script: the variables keep their types, a log    *)
(* that a run saves of its own L1 VM is whole, and bridges join the NICs   *)
(* of the L1 VM with their clients.                                        *)
(***************************************************************************)
EXTENDS LogCollector, FiniteSetTheorems, TLAPS

\* The stages of the script in which the L1 VM of its run has been waited for.
AfterWait == {"poweroff clients", "unbridge", "copy"}

Stages == {"idle", "launch", "bridge", "test", "poweroff", "wait"} \cup AfterWait

\* What CollectorTypeOK leaves out: the script is a record of these fields, and
\* logs are saved with what CopyTrace knows of them.
ScriptOK ==
    script \in [at : Stages, i : 0..N, mode : Modes, run : 0..Runs, told : BOOLEAN]
SavedOK == saved \in [1..Runs -> [own : BOOLEAN, whole : BOOLEAN]]

\* A run that collects logs and has waited for the L1 VM it started has no
\* process of it left: only LaunchNext starts one, and no stage after the wait
\* leads there but through the end of the run.
L1Ended ==
    script.mode = "collect" /\ script.at \in AfterWait /\ L1 \in mine => vm[L1] = "off"

IInv == CollectorTypeOK /\ ScriptOK /\ SavedOK /\ L1Ended /\ OwnLogIsWhole

USE LogCollectorAssumption

-----------------------------------------------------------------------------
\* Goto changes the stage, and with it the VM or bridge looked at.
LEMMA GotoScript ==
    ASSUME ScriptOK, NEW stage \in Stages, Goto(stage)
    PROVE  /\ ScriptOK'
           /\ script'.at = stage /\ script'.mode = script.mode /\ script'.run = script.run
<1>1. FirstOf(stage) \in 0..N
    BY DEF FirstOf, L1
<1>2. script' = [script EXCEPT !.at = stage, !.i = FirstOf(stage)]
    BY DEF Goto
<1> QED
    BY <1>1, <1>2 DEF ScriptOK

\* Begin enters the first stage of its mode, which is none after the wait when
\* logs are collected.
LEMMA BeginScript ==
    ASSUME NEW mode \in Modes, NEW run \in 0..Runs, Begin(mode, run)
    PROVE  ScriptOK' /\ (script'.mode = "collect" => script'.at \notin AfterWait)
<1>1. /\ FirstStep["collect"] = "launch" /\ FirstStep["runtest"] = "test"
      /\ FirstStep["cleanup"] = "poweroff" /\ FirstStep["create_bridges"] = "bridge"
      /\ FirstStep["remove_bridges"] = "unbridge"
    BY DEF FirstStep
<1>2. FirstStep[mode] \in Stages
    BY <1>1 DEF Modes, Stages, AfterWait
<1>3. FirstOf(FirstStep[mode]) \in 0..N
    BY DEF FirstOf, L1
<1>4. mode = "collect" => FirstStep[mode] \notin AfterWait
    BY <1>1 DEF AfterWait
<1>5. script' = [at |-> FirstStep[mode], i |-> FirstOf(FirstStep[mode]),
                 mode |-> mode, run |-> run, told |-> FALSE]
    BY DEF Begin
<1> QED
    BY <1>2, <1>3, <1>4, <1>5 DEF ScriptOK

\* The end of a run begins the next one or stops the script.
LEMMA EndRunScript ==
    ASSUME ScriptOK, EndRun
    PROVE  ScriptOK' /\ (script'.mode = "collect" => script'.at \notin AfterWait)
<1>1. script.mode \in Modes /\ script.run \in 0..Runs
    BY DEF ScriptOK
<1>2. CASE script.run < Runs
    <2>1. script.run + 1 \in 0..Runs
        BY <1>1, <1>2
    <2> QED
        BY <1>1, <1>2, <2>1, BeginScript DEF EndRun
<1>3. CASE ~(script.run < Runs)
    <2>1. "idle" \in Stages /\ "idle" \notin AfterWait
        BY DEF Stages, AfterWait
    <2> QED
        BY <1>3, <2>1, GotoScript DEF EndRun
<1> QED
    BY <1>2, <1>3

\* The loops over VMs and bridges go on to the next one, within the stage.
LEMMA NextOfStage ==
    ASSUME ScriptOK, script.i < N, script' = [script EXCEPT !.i = script.i + 1]
    PROVE  /\ ScriptOK'
           /\ script'.at = script.at /\ script'.mode = script.mode
<1>1. script.i + 1 \in 0..N
    BY DEF ScriptOK
<1> QED
    BY <1>1 DEF ScriptOK

\* A new process takes taps up to the number of its NICs, each as one of them.
LEMMA TapsTaken ==
    ASSUME CollectorTypeOK, NEW v \in VMs
    PROVE  TakeTaps(v) \in [TapIds -> {Free} \cup (VMs \X (1..NicNum))]
<1> DEFINE free(t) == {u \in 1..t : tap[u] = Free}
<1>1. ASSUME NEW t \in TapIds, tap[t] = Free, Cardinality(free(t)) <= NicsOf(v)
      PROVE  <<v, Cardinality(free(t))>> \in VMs \X (1..NicNum)
    <2>1. t \in Nat /\ t >= 1
        BY DEF TapIds
    <2>2. IsFiniteSet(1..t)
        BY <2>1, FS_Interval
    <2>3. IsFiniteSet(free(t))
        BY <2>2, FS_Subset
    <2>4. t \in free(t)
        BY <1>1, <2>1
    <2>5. Cardinality(free(t)) \in Nat /\ Cardinality(free(t)) # 0
        BY <2>3, <2>4, FS_CardinalityType, FS_EmptySet
    <2>6. NicsOf(v) \in Nat /\ NicsOf(v) <= NicNum
        BY DEF NicsOf
    <2> HIDE DEF free
    <2> QED
        BY <1>1, <2>5, <2>6
<1>2. \A t \in TapIds : tap[t] \in {Free} \cup (VMs \X (1..NicNum))
    BY DEF CollectorTypeOK
<1>3. TakeTaps(v) = [t \in TapIds |->
                        IF tap[t] = Free /\ Cardinality(free(t)) <= NicsOf(v)
                        THEN <<v, Cardinality(free(t))>> ELSE tap[t]]
    BY DEF TakeTaps
<1> HIDE DEF free
<1> QED
    BY <1>1, <1>2, <1>3

\* The state a proof starts from.
LEMMA InvFacts ==
    ASSUME IInv
    PROVE  /\ ScriptOK /\ SavedOK /\ L1Ended /\ OwnLogIsWhole /\ CollectorTypeOK
           /\ starts \in 0..MaxStarts /\ mine \subseteq VMs
           /\ vm \in [VMs -> {"off", "booting", "up", "stopping"}]
           /\ tap \in [TapIds -> {Free} \cup (VMs \X (1..NicNum))]
           /\ bridge \in [1..N -> SUBSET TapIds]
BY DEF IInv, CollectorTypeOK

\* The invariant follows from its parts in the next state.
LEMMA InvParts ==
    ASSUME ScriptOK', SavedOK', L1Ended', OwnLogIsWhole',
           (starts \in 0..MaxStarts)', (mine \subseteq VMs)',
           (vm \in [VMs -> {"off", "booting", "up", "stopping"}])',
           (tap \in [TapIds -> {Free} \cup (VMs \X (1..NicNum))])',
           (bridge \in [1..N -> SUBSET TapIds])'
    PROVE  IInv'
<1>1. (script.mode \in Modes /\ script.run \in 0..Runs /\ script.i \in 0..N)'
    BY DEF ScriptOK
<1> QED
    BY <1>1 DEF IInv, CollectorTypeOK

\* A step of the script that touches neither VMs nor logs, and enters no stage
\* after the wait unless the L1 VM of a collecting run has ended.
LEMMA ScriptStep ==
    ASSUME IInv, ScriptOK',
           script'.mode = "collect" /\ script'.at \in AfterWait /\ L1 \in mine => vm[L1] = "off",
           UNCHANGED <<vm, tap, mine, saved>>,
           starts' \in 0..MaxStarts, bridge' \in [1..N -> SUBSET TapIds]
    PROVE  IInv'
<1>1. L1Ended'
    BY DEF L1Ended
<1>2. SavedOK' /\ OwnLogIsWhole'
    BY InvFacts DEF SavedOK, OwnLogIsWhole
<1>3. /\ (mine \subseteq VMs)'
      /\ (vm \in [VMs -> {"off", "booting", "up", "stopping"}])'
      /\ (tap \in [TapIds -> {Free} \cup (VMs \X (1..NicNum))])'
    BY InvFacts
<1> QED
    BY <1>1, <1>2, <1>3, InvParts

-----------------------------------------------------------------------------
(* Each action of the script keeps the invariant. *)

\* Launching starts a process, in a stage before the wait.
LEMMA LaunchNextInv ==
    ASSUME IInv, LaunchNext
    PROVE  IInv'
<1> DEFINE v == script.i
<1>1. script.at = "launch" /\ v \in VMs
    BY InvFacts DEF LaunchNext, ScriptOK, VMs, L1
<1>2. /\ (mine \subseteq VMs)'
      /\ (vm \in [VMs -> {"off", "booting", "up", "stopping"}])'
      /\ (tap \in [TapIds -> {Free} \cup (VMs \X (1..NicNum))])'
    <2>1. CASE Launched(v)
        BY <1>1, <2>1, InvFacts, TapsTaken DEF Launched
    <2>2. CASE LaunchFailed(v)
        BY <2>2, InvFacts DEF LaunchFailed
    <2> QED
        BY <2>1, <2>2 DEF LaunchNext
<1>3. ScriptOK' /\ script'.at \notin AfterWait
    <2>1. CASE v < N
        <3>1. script' = [script EXCEPT !.i = script.i + 1]
            BY <2>1 DEF LaunchNext
        <3> QED
            BY <1>1, <2>1, <3>1, NextOfStage, InvFacts DEF AfterWait
    <2>2. CASE ~(v < N)
        <3>1. Goto("bridge") /\ "bridge" \in Stages /\ "bridge" \notin AfterWait
            BY <2>2 DEF LaunchNext, Stages, AfterWait
        <3> QED
            BY <3>1, GotoScript, InvFacts
    <2> QED
        BY <2>1, <2>2
<1>4. L1Ended'
    BY <1>3 DEF L1Ended
<1>5. (starts \in 0..MaxStarts)' /\ (bridge \in [1..N -> SUBSET TapIds])'
    BY InvFacts DEF LaunchNext
<1>6. SavedOK' /\ OwnLogIsWhole'
    BY InvFacts DEF LaunchNext, SavedOK, OwnLogIsWhole
<1> QED
    BY <1>2, <1>3, <1>4, <1>5, <1>6, InvParts

\* Bridges hold taps; VMs and logs are left alone.
LEMMA CreateBridgeInv ==
    ASSUME IInv, CreateBridge
    PROVE  IInv'
<1>1. script.at = "bridge"
    BY DEF CreateBridge
<1>2. bridge' \in [1..N -> SUBSET TapIds]
    <2>1. ASSUME NEW i \in 1..N
          PROVE  {i, ClientTap(i)} \subseteq TapIds
        BY <2>1 DEF ClientTap, TapIds
    <2> QED
        BY <2>1, InvFacts DEF CreateBridge
<1>3. ScriptOK' /\ (script'.mode = "collect" => script'.at \notin AfterWait)
    <2>1. CASE script.i < N
        <3>1. script' = [script EXCEPT !.i = script.i + 1]
            BY <2>1 DEF CreateBridge
        <3> QED
            BY <1>1, <2>1, <3>1, NextOfStage, InvFacts DEF AfterWait
    <2>2. CASE ~(script.i < N) /\ script.mode = "collect"
        <3>1. Goto("test") /\ "test" \in Stages /\ "test" \notin AfterWait
            BY <2>2 DEF CreateBridge, AfterBridges, Stages, AfterWait
        <3> QED
            BY <3>1, GotoScript, InvFacts
    <2>3. CASE ~(script.i < N) /\ script.mode # "collect"
        BY <2>3, EndRunScript, InvFacts DEF CreateBridge, AfterBridges
    <2> QED
        BY <2>1, <2>2, <2>3
<1> QED
    BY <1>2, <1>3, ScriptStep, InvFacts DEF CreateBridge

\* --runtest copies a log without waiting for anything, but not as its own.
LEMMA RunTestInv ==
    ASSUME IInv, RunTest
    PROVE  IInv'
<1>1. CASE script.mode = "collect"
    <2>1. Goto("poweroff") /\ "poweroff" \in Stages /\ "poweroff" \notin AfterWait
        BY <1>1 DEF RunTest, Stages, AfterWait
    <2> QED
        BY <2>1, GotoScript, ScriptStep, InvFacts DEF RunTest, host
<1>2. CASE script.mode # "collect"
    <2>1. Goto("copy") /\ "copy" \in Stages
        BY <1>2 DEF RunTest, Stages, AfterWait
    <2> QED
        BY <1>2, <2>1, GotoScript, ScriptStep, InvFacts DEF RunTest, host
<1> QED
    BY <1>1, <1>2

\* "poweroff" changes the state of VMs that are up; one that has ended stays so.
LEMMA PoweredOffHost ==
    ASSUME IInv, NEW group, vm' = PoweredOff(group)
    PROVE  /\ vm' \in [VMs -> {"off", "booting", "up", "stopping"}]
           /\ \A v \in VMs : vm[v] = "off" => vm'[v] = "off"
BY InvFacts DEF PoweredOff

\* The wait is still ahead.
LEMMA PoweroffL1Inv ==
    ASSUME IInv, PoweroffL1
    PROVE  IInv'
<1>1. script' = [script EXCEPT !.at = "wait", !.told = vm[L1] = "up"]
    BY DEF PoweroffL1
<1>2. ScriptOK' /\ script'.at = "wait"
    BY <1>1, InvFacts DEF ScriptOK, Stages
<1>3. L1Ended'
    BY <1>2 DEF L1Ended, AfterWait
<1>4. SavedOK' /\ OwnLogIsWhole'
    BY InvFacts DEF PoweroffL1, SavedOK, OwnLogIsWhole
<1>5. vm' \in [VMs -> {"off", "booting", "up", "stopping"}]
    BY PoweredOffHost DEF PoweroffL1
<1> QED
    BY <1>2, <1>3, <1>4, <1>5, InvParts, InvFacts DEF PoweroffL1

\* The wait is what makes L1Ended true.
LEMMA WaitL1Inv ==
    ASSUME IInv, WaitL1
    PROVE  IInv'
<1>1. script.mode = "collect" /\ L1 \in mine => vm[L1] = "off"
    BY DEF WaitL1, Awaited, Gone
<1>2. Goto("poweroff clients") /\ "poweroff clients" \in Stages
    BY DEF WaitL1, Stages, AfterWait
<1> QED
    BY <1>1, <1>2, GotoScript, ScriptStep, InvFacts DEF WaitL1, host

\* The L1 VM has ended, and powering off others starts nothing.
LEMMA PoweroffClientsInv ==
    ASSUME IInv, PoweroffClients
    PROVE  IInv'
<1>1. Goto("unbridge") /\ "unbridge" \in Stages
    BY DEF PoweroffClients, Stages, AfterWait
<1>2. ScriptOK' /\ script'.mode = script.mode
    BY <1>1, GotoScript, InvFacts
<1>3. /\ vm' \in [VMs -> {"off", "booting", "up", "stopping"}]
      /\ \A v \in VMs : vm[v] = "off" => vm'[v] = "off"
    BY PoweredOffHost DEF PoweroffClients
<1>4. L1Ended'
    <2>1. script.at \in AfterWait /\ mine' = mine /\ L1 \in VMs
        BY DEF PoweroffClients, AfterWait, VMs
    <2> QED
        BY <1>2, <1>3, <2>1, InvFacts DEF L1Ended
<1>5. SavedOK' /\ OwnLogIsWhole'
    BY InvFacts DEF PoweroffClients, SavedOK, OwnLogIsWhole
<1> QED
    BY <1>2, <1>3, <1>4, <1>5, InvParts, InvFacts DEF PoweroffClients

\* The stages after the wait follow each other; with --cleanup the copy is left out.
LEMMA RemoveBridgeInv ==
    ASSUME IInv, RemoveBridge
    PROVE  IInv'
<1>1. script.at \in AfterWait
    BY DEF RemoveBridge, AfterWait
<1>2. bridge' \in [1..N -> SUBSET TapIds]
    BY InvFacts DEF RemoveBridge
<1>3. /\ ScriptOK'
      /\ script'.mode = "collect" /\ script'.at \in AfterWait => script.mode = "collect"
    <2>1. CASE script.i < N
        <3>1. script' = [script EXCEPT !.i = script.i + 1]
            BY <2>1 DEF RemoveBridge
        <3> QED
            BY <2>1, <3>1, NextOfStage, InvFacts
    <2>2. CASE ~(script.i < N) /\ script.mode = "collect"
        <3>1. Goto("copy") /\ "copy" \in Stages
            BY <2>2 DEF RemoveBridge, AfterCleanup, Stages, AfterWait
        <3> QED
            BY <2>2, <3>1, GotoScript, InvFacts
    <2>3. CASE ~(script.i < N) /\ script.mode # "collect"
        BY <2>3, EndRunScript, InvFacts DEF RemoveBridge, AfterCleanup
    <2> QED
        BY <2>1, <2>2, <2>3
<1>4. script'.mode = "collect" /\ script'.at \in AfterWait /\ L1 \in mine => vm[L1] = "off"
    BY <1>1, <1>3, InvFacts DEF L1Ended
<1> QED
    BY <1>2, <1>3, <1>4, ScriptStep, InvFacts DEF RemoveBridge

\* A log is copied as a run's own only after the wait.
LEMMA CopyTraceInv ==
    ASSUME IInv, CopyTrace
    PROVE  IInv'
<1>1. CASE ~trace
    <2>1. Goto("idle") /\ "idle" \in Stages /\ "idle" \notin AfterWait
        BY <1>1 DEF CopyTrace, Stages, AfterWait
    <2> QED
        BY <1>1, <2>1, GotoScript, ScriptStep, InvFacts DEF CopyTrace, host
<1>2. CASE trace
    <2> DEFINE own == script.mode = "collect" /\ L1 \in mine
               whole == vm[L1] = "off"
    <2>1. saved' = [saved EXCEPT ![script.run] = [own |-> own, whole |-> whole]]
        BY <1>2 DEF CopyTrace
    <2>2. own \in BOOLEAN /\ whole \in BOOLEAN
        OBVIOUS
    <2>3. own => whole
        BY InvFacts DEF CopyTrace, L1Ended, AfterWait
    <2>4. ScriptOK' /\ (script'.mode = "collect" => script'.at \notin AfterWait)
        BY <1>2, EndRunScript, InvFacts DEF CopyTrace
    <2>5. L1Ended'
        BY <2>4 DEF L1Ended
    <2> HIDE DEF own, whole
    <2>6. SavedOK'
        BY <2>1, <2>2, InvFacts DEF SavedOK
    <2>7. OwnLogIsWhole'
        BY <2>1, <2>2, <2>3, InvFacts DEF SavedOK, OwnLogIsWhole
    <2> QED
        BY <2>4, <2>5, <2>6, <2>7, InvParts, InvFacts DEF CopyTrace, host
<1> QED
    BY <1>1, <1>2

-----------------------------------------------------------------------------
\* The life of a virtual machine starts no process and copies no log.
LEMMA BootsUpInv ==
    ASSUME IInv, NEW v \in VMs, BootsUp(v)
    PROVE  IInv'
<1>1. vm' \in [VMs -> {"off", "booting", "up", "stopping"}]
    BY InvFacts DEF BootsUp
<1>2. L1Ended'
    BY InvFacts DEF BootsUp, L1Ended, VMs
<1>3. ScriptOK' /\ SavedOK' /\ OwnLogIsWhole'
    BY InvFacts DEF BootsUp, ScriptOK, SavedOK, OwnLogIsWhole
<1> QED
    BY <1>1, <1>2, <1>3, InvParts, InvFacts DEF BootsUp

\* So does its end, which frees its taps.
LEMMA EndsInv ==
    ASSUME IInv, NEW v \in VMs, Ends(v)
    PROVE  IInv'
<1>1. vm' \in [VMs -> {"off", "booting", "up", "stopping"}]
    BY InvFacts DEF Ends
<1>2. L1Ended'
    BY InvFacts DEF Ends, L1Ended, VMs
<1>3. ScriptOK' /\ SavedOK' /\ OwnLogIsWhole'
    BY InvFacts DEF Ends, ScriptOK, SavedOK, OwnLogIsWhole
<1>4. /\ tap' \in [TapIds -> {Free} \cup (VMs \X (1..NicNum))]
      /\ bridge' \in [1..N -> SUBSET TapIds]
    BY InvFacts DEF Ends
<1> QED
    BY <1>1, <1>2, <1>3, <1>4, InvParts, InvFacts DEF Ends

\* Nothing is there when the script starts for the first time.
LEMMA InitInv == Init => IInv
<1> SUFFICES ASSUME Init PROVE IInv
    OBVIOUS
<1>1. ScriptOK
    BY DEF Init, ScriptOK, Stages, Modes
<1>2. SavedOK /\ OwnLogIsWhole
    BY DEF Init, SavedOK, OwnLogIsWhole, NoLog
<1>3. L1Ended
    BY DEF Init, L1Ended
<1>4. CollectorTypeOK
    BY <1>1 DEF Init, CollectorTypeOK, ScriptOK, Free
<1> QED
    BY <1>1, <1>2, <1>3, <1>4 DEF IInv

\* A script that starts is in the first stage of its mode.
LEMMA StartInv ==
    ASSUME IInv, NEW mode \in Modes, Start(mode)
    PROVE  IInv'
<1>1. ScriptOK' /\ (script'.mode = "collect" => script'.at \notin AfterWait)
    BY BeginScript DEF Start
<1>2. starts' \in 0..MaxStarts
    BY InvFacts DEF Start
<1> QED
    BY <1>1, <1>2, ScriptStep, InvFacts DEF Start, host

\* A script that is killed leaves everything as it is.
LEMMA KilledInv ==
    ASSUME IInv, Killed
    PROVE  IInv'
<1>1. Goto("idle") /\ "idle" \in Stages /\ "idle" \notin AfterWait
    BY DEF Killed, Stages, AfterWait
<1> QED
    BY <1>1, GotoScript, ScriptStep, InvFacts DEF Killed, host

\* Every step keeps the invariant, ...
LEMMA NextInv ==
    ASSUME IInv, [Next]_vars
    PROVE  IInv'
<1>1. ASSUME NEW mode \in Modes, Start(mode) PROVE IInv'
    BY <1>1, StartInv
<1>2. CASE Step
    BY <1>2, LaunchNextInv, CreateBridgeInv, RunTestInv, PoweroffL1Inv, WaitL1Inv,
       PoweroffClientsInv, RemoveBridgeInv, CopyTraceInv DEF Step
<1>3. CASE Killed
    BY <1>3, KilledInv
<1>4. ASSUME NEW v \in VMs, BootsUp(v) \/ ShutsDown(v) \/ Crashes(v) PROVE IInv'
    BY <1>4, BootsUpInv, EndsInv DEF ShutsDown, Crashes
<1>5. CASE UNCHANGED vars
    <2>1. L1Ended' /\ ScriptOK' /\ SavedOK' /\ OwnLogIsWhole'
        BY <1>5, InvFacts DEF vars, host, L1Ended, ScriptOK, SavedOK, OwnLogIsWhole
    <2> QED
        BY <1>5, <2>1, InvParts, InvFacts DEF vars, host
<1> QED
    BY <1>1, <1>2, <1>3, <1>4, <1>5 DEF Next

\* ... so that it always holds.
LEMMA Inductive == Spec => []IInv
<1>1. IInv /\ [Next]_vars => IInv'
    BY NextInv
<1> QED
    BY InitInv, <1>1, PTL DEF Spec

\* The variables have their types, whatever starts, fails, crashes or is killed:
\* a tap belongs to a NIC its VM has, the loops count within their bounds.
THEOREM CollectorTypeCorrect == Spec => []CollectorTypeOK
<1>1. IInv => CollectorTypeOK
    BY DEF IInv
<1> QED
    BY <1>1, Inductive, PTL

\* Poweroff's wait for the process is enough: a log that a run copies when its
\* own L1 VM had started is copied when that VM has ended.
THEOREM LogsWhole == Spec => []OwnLogIsWhole
<1>1. IInv => OwnLogIsWhole
    BY DEF IInv
<1> QED
    BY <1>1, Inductive, PTL

-----------------------------------------------------------------------------
(* The numbering of the taps that createBridges relies on.  While the VMs of
   a run are launched into an empty host, one after the other, the taps
   taken so far are those of the L1 VM and then one for each client. *)

\* The taps when the n VMs 0..n-1 have taken theirs, and the bridges up to the n-th.
TapsOf(n) ==
    \A t \in TapIds :
        tap[t] = IF t <= NicNum THEN <<L1, t>>
                 ELSE IF t - NicNum < n THEN <<t - NicNum, 1>> ELSE Free
BridgesOf(n) ==
    \A j \in 1..N : bridge[j] = IF j < n THEN {j, ClientTap(j)} ELSE {}

\* The run began on an empty host and the VMs 0..n-1 it started all still run.
Undisturbed(n) == clean /\ \A u \in 0..n-1 : u \in mine /\ vm[u] # "off"

\* Where the taps and bridges of an undisturbed run are, at each stage up to the test.
Launching ==
    script.at = "launch" /\ script.i > 0 /\ Undisturbed(script.i) =>
        /\ TapsOf(script.i) /\ BridgesOf(1)
        /\ \A u \in VMs : u >= script.i => vm[u] = "off"
Bridging ==
    script.at = "bridge" =>
        /\ script.i >= 1
        /\ script.mode = "collect" /\ Undisturbed(N + 1) => TapsOf(N + 1) /\ BridgesOf(script.i)
Testing ==
    script.at = "test" /\ script.mode = "collect" /\ Undisturbed(N + 1) =>
        TapsOf(N + 1) /\ BridgesOf(N + 1)

\* Only a running process has taps, and only such taps are on bridges.
TapsOwned == \A t \in TapIds : tap[t] # Free => vm[tap[t][1]] # "off"
BridgesTapped == \A i \in 1..N : \A t \in bridge[i] : tap[t] # Free

Wiring == Launching /\ Bridging /\ Testing /\ TapsOwned /\ BridgesTapped

\* A tuple of two is not the empty one, by which a free tap is told.
LEMMA TakenIsNotFree == \A a, b : <<a, b>> # Free
BY DEF Free

\* VMs are numbered from the L1 VM's 0.
LEMMA VMsAreNumbered == VMs = 0..N
BY DEF VMs, L1

\* The first process on an empty host takes the taps from 1 on.
LEMMA FirstTaps ==
    ASSUME \A t \in TapIds : tap[t] = Free
    PROVE  \A t \in TapIds : TakeTaps(L1)[t] = IF t <= NicNum THEN <<L1, t>> ELSE Free
<1> SUFFICES ASSUME NEW t \in TapIds
             PROVE  TakeTaps(L1)[t] = IF t <= NicNum THEN <<L1, t>> ELSE Free
    OBVIOUS
<1>1. t \in Nat /\ t >= 1 /\ 1..t \subseteq TapIds
    BY DEF TapIds
<1>2. {u \in 1..t : tap[u] = Free} = 1..t
    BY <1>1
<1>3. Cardinality(1..t) = t
    BY <1>1, FS_Interval
<1>4. TakeTaps(L1)[t] = IF tap[t] = Free /\ Cardinality({u \in 1..t : tap[u] = Free}) <= NicNum
                        THEN <<L1, Cardinality({u \in 1..t : tap[u] = Free})>> ELSE tap[t]
    BY DEF TakeTaps, NicsOf
<1> QED
    BY <1>2, <1>3, <1>4

\* A client started when those before it have taken theirs takes the next one.
LEMMA NextTap ==
    ASSUME NEW v \in 1..N, TapsOf(v)
    PROVE  \A t \in TapIds :
              TakeTaps(v)[t] = IF t <= NicNum THEN <<L1, t>>
                               ELSE IF t - NicNum < v + 1 THEN <<t - NicNum, 1>> ELSE Free
<1> SUFFICES ASSUME NEW t \in TapIds
             PROVE  TakeTaps(v)[t] = IF t <= NicNum THEN <<L1, t>>
                                     ELSE IF t - NicNum < v + 1 THEN <<t - NicNum, 1>> ELSE Free
    OBVIOUS
<1> DEFINE free == {u \in 1..t : tap[u] = Free}
<1>1. t \in Nat /\ t >= 1 /\ 1..t \subseteq TapIds
    BY DEF TapIds
<1>2. TakeTaps(v)[t] = IF tap[t] = Free /\ Cardinality(free) <= 1
                       THEN <<v, Cardinality(free)>> ELSE tap[t]
    BY DEF TakeTaps, NicsOf, L1
<1>3. ASSUME NEW u \in 1..t
      PROVE  tap[u] = Free <=> u >= NicNum + v
    <2>1. u \in TapIds /\ u \in Nat
        BY <1>1
    <2>2. CASE u <= NicNum
        <3>1. tap[u] = <<L1, u>>
            BY <2>1, <2>2 DEF TapsOf
        <3>2. tap[u] # Free
            BY <3>1, TakenIsNotFree
        <3> QED
            BY <2>1, <2>2, <3>2
    <2>3. CASE ~(u <= NicNum) /\ u - NicNum < v
        <3>1. tap[u] = <<u - NicNum, 1>>
            BY <2>1, <2>3 DEF TapsOf
        <3>2. tap[u] # Free
            BY <3>1, TakenIsNotFree
        <3> QED
            BY <2>1, <2>3, <3>2
    <2>4. CASE ~(u <= NicNum) /\ ~(u - NicNum < v)
        <3>1. tap[u] = Free
            BY <2>1, <2>4 DEF TapsOf
        <3> QED
            BY <2>1, <2>4, <3>1
    <2> QED
        BY <2>2, <2>3, <2>4
<1>4. free = (NicNum + v)..t
    BY <1>1, <1>3
<1>5. Cardinality((NicNum + v)..t) = IF NicNum + v > t THEN 0 ELSE t - (NicNum + v) + 1
    BY <1>1, FS_Interval
<1> HIDE DEF free
<1>6. CASE t < NicNum + v
    <2>1. tap[t] # Free
        BY <1>1, <1>3, <1>6
    <2> QED
        BY <1>1, <1>2, <1>6, <2>1 DEF TapsOf
<1>7. CASE t >= NicNum + v
    <2>1. tap[t] = Free /\ ~(t <= NicNum)
        BY <1>1, <1>3, <1>7
    <2>2. CASE t = NicNum + v
        <3>1. Cardinality(free) = 1
            BY <1>1, <1>4, <1>5, <2>2
        <3> QED
            BY <1>1, <1>2, <2>1, <2>2, <3>1
    <2>3. CASE t > NicNum + v
        <3>1. ~(Cardinality(free) <= 1)
            BY <1>1, <1>4, <1>5, <2>3
        <3> QED
            BY <1>1, <1>2, <2>1, <2>3, <3>1
    <2> QED
        BY <1>1, <1>7, <2>2, <2>3
<1> QED
    BY <1>1, <1>6, <1>7

\* When all VMs are off, there are no taps and nothing is on a bridge.
LEMMA EmptyHost ==
    ASSUME IInv, Wiring, \A u \in VMs : vm[u] = "off"
    PROVE  (\A t \in TapIds : tap[t] = Free) /\ (\A i \in 1..N : bridge[i] = {})
<1>1. \A t \in TapIds : tap[t] = Free
    <2> SUFFICES ASSUME NEW t \in TapIds, tap[t] # Free PROVE FALSE
        OBVIOUS
    <2>1. tap[t] \in VMs \X (1..NicNum)
        BY InvFacts
    <2>2. tap[t][1] \in VMs
        BY <2>1
    <2> QED
        BY <2>2 DEF Wiring, TapsOwned
<1>2. \A i \in 1..N : bridge[i] \subseteq TapIds
    BY InvFacts
<1> QED
    BY <1>1, <1>2 DEF Wiring, BridgesTapped

\* A launch into an undisturbed run takes the next taps.
LEMMA LaunchWired ==
    ASSUME IInv, Wiring, LaunchNext, NEW v, v = script.i, Undisturbed(v + 1)'
    PROVE  /\ TapsOf(v + 1)' /\ BridgesOf(1)'
           /\ \A u \in VMs : u >= v + 1 => vm'[u] = "off"
<1>1. v \in 0..N /\ v \in VMs /\ script.at = "launch"
    BY InvFacts, VMsAreNumbered DEF ScriptOK, LaunchNext
<1>2. v \in mine'
    BY <1>1 DEF Undisturbed
<1>3. Launched(v)
    BY <1>2 DEF LaunchNext, LaunchFailed
<1>4. vm' = [vm EXCEPT ![v] = "booting"] /\ tap' = TakeTaps(v) /\ bridge' = bridge
    BY <1>3 DEF Launched, LaunchNext
<1>5. CASE v = L1
    <2>1. \A u \in VMs : vm[u] = "off"
        BY <1>5 DEF LaunchNext, Undisturbed
    <2>2. (\A t \in TapIds : tap[t] = Free) /\ (\A i \in 1..N : bridge[i] = {})
        BY <2>1, EmptyHost
    <2>3. \A t \in TapIds : tap'[t] = IF t <= NicNum THEN <<L1, t>> ELSE Free
        BY <1>4, <1>5, <2>2, FirstTaps
    <2>4. TapsOf(v + 1)'
        <3>1. \A t \in TapIds : t \in Nat /\ (t - NicNum < 1 => t <= NicNum)
            BY DEF TapIds
        <3>2. v + 1 = 1
            BY <1>5 DEF L1
        <3> QED
            BY <2>3, <3>1, <3>2 DEF TapsOf
    <2>5. BridgesOf(1)'
        BY <1>4, <2>2 DEF BridgesOf
    <2> QED
        BY <1>4, <1>5, <2>1, <2>4, <2>5, VMsAreNumbered, InvFacts DEF L1
<1>6. CASE v # L1
    <2>1. v \in 1..N
        BY <1>1, <1>6 DEF L1
    <2>2. Undisturbed(v)
        <3>1. clean
            BY <1>6 DEF LaunchNext, Undisturbed
        <3>2. \A u \in 0..v-1 : u \in mine' /\ vm'[u] # "off"
            BY <1>1 DEF Undisturbed
        <3>3. \A u \in 0..v-1 : u # v /\ u \in VMs
            BY <2>1, VMsAreNumbered
        <3>4. mine' = mine \cup {v}
            BY <1>3 DEF Launched
        <3> QED
            BY <1>4, <3>1, <3>2, <3>3, <3>4, InvFacts DEF Undisturbed
    <2>3. TapsOf(v) /\ BridgesOf(1) /\ \A u \in VMs : u >= v => vm[u] = "off"
        BY <1>1, <2>1, <2>2 DEF Wiring, Launching
    <2>4. TapsOf(v + 1)'
        BY <1>4, <2>1, <2>3, NextTap DEF TapsOf
    <2>5. BridgesOf(1)'
        BY <1>4, <2>3 DEF BridgesOf
    <2>6. \A u \in VMs : u >= v + 1 => vm'[u] = "off"
        BY <1>4, <2>1, <2>3, VMsAreNumbered, InvFacts
    <2> QED
        BY <2>4, <2>5, <2>6
<1> QED
    BY <1>5, <1>6

\* The numbers that createBridges computes are those of the L1 VM's NIC and the client's.
LEMMA TapsByNumber ==
    ASSUME NEW i \in 1..N, TapsOf(N + 1)
    PROVE  tap[i] = <<L1, i>> /\ tap[ClientTap(i)] = <<i, 1>>
<1>1. ClientTap(i) = NicNum + i /\ i \in TapIds /\ NicNum + i \in TapIds
    BY DEF TapIds, ClientTap
<1>2. i <= NicNum /\ ~(NicNum + i <= NicNum) /\ NicNum + i - NicNum = i /\ i < N + 1
    OBVIOUS
<1>3. tap[i] = <<L1, i>>
    BY <1>1, <1>2 DEF TapsOf
<1>4. tap[NicNum + i] = <<i, 1>>
    <2> DEFINE t == NicNum + i
    <2>1. t \in TapIds /\ ~(t <= NicNum) /\ t - NicNum < N + 1 /\ t - NicNum = i
        BY <1>1, <1>2
    <2> HIDE DEF t
    <2>2. tap[t] = <<t - NicNum, 1>>
        BY <2>1 DEF TapsOf
    <2>3. tap[t] = <<i, 1>>
        BY <2>1, <2>2
    <2> QED
        BY <2>3 DEF t
<1> QED
    BY <1>1, <1>3, <1>4

\* Both taps of a client that follow each other by number can be added to its bridge.
LEMMA NextBridge ==
    ASSUME NEW i \in 1..N, TapsOf(N + 1), BridgesOf(i)
    PROVE  bridge[i] = {} /\ {t \in {i, ClientTap(i)} : CanAdd(t)} = {i, ClientTap(i)}
<1>1. ClientTap(i) = NicNum + i
    BY DEF ClientTap
<1>5. tap[i] # Free /\ tap[ClientTap(i)] # Free
    BY TapsByNumber, TakenIsNotFree
<1>6. bridge[i] = {}
    <2>1. ~(i < i)
        OBVIOUS
    <2>2. bridge[i] = IF i < i THEN {i, ClientTap(i)} ELSE {}
        BY DEF BridgesOf
    <2> QED
        BY <2>1, <2>2
<1>7. ASSUME NEW j \in 1..N
      PROVE  i \notin bridge[j] /\ ClientTap(i) \notin bridge[j]
    <2>1. CASE j < i
        <3>1. bridge[j] = {j, NicNum + j}
            BY <2>1 DEF BridgesOf, ClientTap
        <3>2. i # j /\ i # NicNum + j /\ NicNum + i # j /\ NicNum + i # NicNum + j
            BY <2>1
        <3> QED
            BY <1>1, <3>1, <3>2
    <2>2. CASE ~(j < i)
        BY <2>2 DEF BridgesOf
    <2> QED
        BY <2>1, <2>2
<1> QED
    BY <1>5, <1>6, <1>7 DEF CanAdd

\* In an undisturbed run both taps are added to the next bridge.
LEMMA BridgeWired ==
    ASSUME IInv, Wiring, CreateBridge, NEW i \in 1..N, i = script.i,
           script.mode = "collect", Undisturbed(N + 1)'
    PROVE  TapsOf(N + 1)' /\ BridgesOf(i + 1)'
<1>1. script.at = "bridge"
    BY DEF CreateBridge
<1>2. Undisturbed(N + 1)
    BY DEF CreateBridge, Undisturbed
<1>3. TapsOf(N + 1) /\ BridgesOf(i)
    BY <1>1, <1>2 DEF Wiring, Bridging
<1>4. TapsOf(N + 1)'
    BY <1>3 DEF TapsOf, CreateBridge
<1>5. bridge' = [bridge EXCEPT ![i] = @ \cup {t \in {i, ClientTap(i)} : CanAdd(t)}]
    BY DEF CreateBridge
<1>6. bridge'[i] = {i, ClientTap(i)} /\ \A j \in 1..N : j # i => bridge'[j] = bridge[j]
    BY <1>3, <1>5, NextBridge, InvFacts
<1>7. BridgesOf(i + 1)'
    <2> SUFFICES ASSUME NEW j \in 1..N
                 PROVE  bridge'[j] = IF j < i + 1 THEN {j, ClientTap(j)} ELSE {}
        BY DEF BridgesOf, ClientTap
    <2>1. bridge[j] = IF j < i THEN {j, ClientTap(j)} ELSE {}
        BY <1>3 DEF BridgesOf
    <2>2. (j < i + 1) <=> (j < i \/ j = i)
        OBVIOUS
    <2> QED
        BY <1>6, <2>1, <2>2
<1> QED
    BY <1>4, <1>7

StagesWired == Launching /\ Bridging /\ Testing

\* Entering a stage other than the three says nothing of taps and bridges.
LEMMA GotoWired ==
    ASSUME ScriptOK, NEW stage \in Stages \ {"launch", "bridge", "test"}, Goto(stage)
    PROVE  StagesWired'
<1>1. script'.at = stage
    BY GotoScript
<1> QED
    BY <1>1 DEF StagesWired, Launching, Bridging, Testing

\* Nor does beginning a run, in any mode: the first VM is not yet launched.
LEMMA BeginWired ==
    ASSUME NEW mode \in Modes, NEW run \in 0..Runs, Begin(mode, run)
    PROVE  StagesWired'
<1>1. /\ FirstStep["collect"] = "launch" /\ FirstStep["runtest"] = "test"
      /\ FirstStep["cleanup"] = "poweroff" /\ FirstStep["create_bridges"] = "bridge"
      /\ FirstStep["remove_bridges"] = "unbridge"
    BY DEF FirstStep
<1>2. /\ script'.at = FirstStep[mode] /\ script'.mode = mode
      /\ script'.i = IF FirstStep[mode] = "launch" THEN 0 ELSE 1
    BY DEF Begin, FirstOf, L1
<1>3. Launching'
    BY <1>2 DEF Launching
<1>4. Bridging'
    <2>1. mode = "collect" => FirstStep[mode] # "bridge"
        BY <1>1
    <2>2. FirstStep[mode] = "bridge" => script'.i = 1
        BY <1>2
    <2> QED
        BY <1>2, <2>1, <2>2 DEF Bridging
<1>5. Testing'
    BY <1>1, <1>2 DEF Testing, Modes
<1> QED
    BY <1>3, <1>4, <1>5 DEF StagesWired

\* Nor, then, does ending one.
LEMMA EndRunWired ==
    ASSUME ScriptOK, EndRun
    PROVE  StagesWired'
<1>1. script.mode \in Modes /\ script.run \in 0..Runs
    BY DEF ScriptOK
<1>2. CASE script.run < Runs
    <2>1. script.run + 1 \in 0..Runs
        BY <1>1, <1>2
    <2> QED
        BY <1>1, <1>2, <2>1, BeginWired DEF EndRun
<1>3. CASE ~(script.run < Runs)
    <2>1. "idle" \in Stages \ {"launch", "bridge", "test"}
        BY DEF Stages
    <2> QED
        BY <1>3, <2>1, GotoWired DEF EndRun
<1> QED
    BY <1>2, <1>3

\* The loop over the VMs leads to the bridges.
LEMMA LaunchNextStages ==
    ASSUME IInv, Wiring, LaunchNext
    PROVE  StagesWired'
<1> SUFFICES ASSUME NEW v \in 0..N, v = script.i PROVE StagesWired'
    BY InvFacts DEF ScriptOK
<1>1. script.at = "launch" /\ ScriptOK
    BY InvFacts DEF LaunchNext
<1>2. Undisturbed(v + 1)' => /\ TapsOf(v + 1)' /\ BridgesOf(1)'
                             /\ \A u \in VMs : u >= v + 1 => vm'[u] = "off"
    BY LaunchWired
<1>3. CASE v < N
    <2>1. script' = [script EXCEPT !.i = script.i + 1]
        BY <1>3 DEF LaunchNext
    <2>2. script'.at = "launch" /\ script'.i = v + 1
        BY <1>1, <2>1 DEF ScriptOK
    <2> QED
        BY <1>2, <2>2 DEF StagesWired, Launching, Bridging, Testing, Undisturbed, TapsOf
<1>4. CASE ~(v < N)
    <2>1. Goto("bridge")
        BY <1>4 DEF LaunchNext
    <2>2. script'.at = "bridge" /\ script'.i = 1
        BY <1>1, <2>1 DEF Goto, FirstOf, ScriptOK
    <2>3. v = N
        BY <1>1, <1>4
    <2>4. Undisturbed(N + 1)' => TapsOf(N + 1)' /\ BridgesOf(1)'
        BY <1>2, <2>3
    <2>5. Bridging'
        BY <2>2, <2>4 DEF Bridging, BridgesOf
    <2> QED
        BY <2>2, <2>5 DEF StagesWired, Launching, Testing
<1> QED
    BY <1>3, <1>4

\* The loop over the bridges leads to the test.
LEMMA CreateBridgeStages ==
    ASSUME IInv, Wiring, CreateBridge
    PROVE  StagesWired'
<1> SUFFICES ASSUME NEW i \in 1..N, i = script.i PROVE StagesWired'
    BY InvFacts DEF ScriptOK, CreateBridge, Wiring, Bridging
<1>1. script.at = "bridge" /\ ScriptOK
    BY InvFacts DEF CreateBridge
<1>2. script.mode = "collect" /\ Undisturbed(N + 1)' => TapsOf(N + 1)' /\ BridgesOf(i + 1)'
    BY <1>1, BridgeWired
<1>3. CASE i < N
    <2>1. script' = [script EXCEPT !.i = script.i + 1]
        BY <1>3 DEF CreateBridge
    <2>2. script'.at = "bridge" /\ script'.i = i + 1 /\ script'.mode = script.mode
        BY <1>1, <2>1 DEF ScriptOK
    <2>3. script'.i >= 1
        BY <2>2
    <2>4. BridgesOf(i + 1)' => BridgesOf(script.i)'
        BY <2>2 DEF BridgesOf
    <2>5. Bridging'
        BY <1>2, <2>2, <2>3, <2>4 DEF Bridging
    <2> QED
        BY <2>2, <2>5 DEF StagesWired, Launching, Testing
<1>4. CASE ~(i < N) /\ script.mode = "collect"
    <2>1. Goto("test") /\ "test" \in Stages
        BY <1>4 DEF CreateBridge, AfterBridges, Stages
    <2>2. script'.at = "test"
        BY <1>1, <2>1, GotoScript
    <2>3. i = N
        BY <1>1, <1>4
    <2>4. Undisturbed(N + 1)' => TapsOf(N + 1)' /\ BridgesOf(N + 1)'
        BY <1>2, <1>4, <2>3
    <2> QED
        BY <2>2, <2>4 DEF StagesWired, Launching, Bridging, Testing
<1>5. CASE ~(i < N) /\ script.mode # "collect"
    BY <1>1, <1>5, EndRunWired DEF CreateBridge, AfterBridges
<1> QED
    BY <1>3, <1>4, <1>5

\* All other steps lead away from the three stages, or to the next run.
LEMMA OtherStages ==
    ASSUME IInv, Wiring,
           RunTest \/ PoweroffL1 \/ WaitL1 \/ PoweroffClients \/ RemoveBridge \/ CopyTrace
    PROVE  StagesWired'
<1> DEFINE others == Stages \ {"launch", "bridge", "test"}
<1>1. ScriptOK /\ {"poweroff", "poweroff clients", "copy", "idle", "unbridge"} \subseteq others
    BY InvFacts DEF Stages, AfterWait
<1>2. CASE RunTest
    BY <1>1, <1>2, GotoWired DEF RunTest
<1>3. CASE PoweroffL1
    <2>1. script'.at = "wait"
        BY <1>1, <1>3 DEF PoweroffL1, ScriptOK
    <2> QED
        BY <2>1 DEF StagesWired, Launching, Bridging, Testing
<1>4. CASE WaitL1
    BY <1>1, <1>4, GotoWired DEF WaitL1
<1>5. CASE PoweroffClients
    BY <1>1, <1>5, GotoWired DEF PoweroffClients
<1>6. CASE RemoveBridge
    <2>1. CASE script.i < N
        <3>1. script' = [script EXCEPT !.i = script.i + 1] /\ script.at = "unbridge"
            BY <1>6, <2>1 DEF RemoveBridge
        <3>2. script'.at = "unbridge"
            BY <1>1, <3>1 DEF ScriptOK
        <3> QED
            BY <3>2 DEF StagesWired, Launching, Bridging, Testing
    <2>2. CASE ~(script.i < N)
        BY <1>1, <1>6, <2>2, GotoWired, EndRunWired DEF RemoveBridge, AfterCleanup
    <2> QED
        BY <2>1, <2>2
<1>7. CASE CopyTrace
    BY <1>1, <1>7, GotoWired, EndRunWired DEF CopyTrace
<1> QED
    BY <1>2, <1>3, <1>4, <1>5, <1>6, <1>7

-----------------------------------------------------------------------------
\* What is on a bridge has a tap, and what has a tap is a running process, ...
Owned == TapsOwned /\ BridgesTapped

\* ... if no process ends and no tap goes in the step, and new ones are like that.
LEMMA OwnedStep ==
    ASSUME IInv, Wiring, tap' = tap, bridge' = bridge,
           \A v \in VMs : vm[v] # "off" => vm'[v] # "off"
    PROVE  Owned'
<1>1. \A t \in TapIds : tap[t] # Free => tap[t][1] \in VMs
    BY InvFacts
<1> QED
    BY <1>1 DEF Wiring, Owned, TapsOwned, BridgesTapped

\* A new process takes taps that were free.
LEMMA LaunchNextOwned ==
    ASSUME IInv, Wiring, LaunchNext
    PROVE  Owned'
<1>1. CASE LaunchFailed(script.i)
    BY <1>1, OwnedStep DEF LaunchFailed, LaunchNext
<1>2. CASE Launched(script.i)
    <2> SUFFICES ASSUME NEW v \in VMs, v = script.i PROVE Owned'
        BY InvFacts, VMsAreNumbered DEF ScriptOK
    <2>1. vm' = [vm EXCEPT ![v] = "booting"] /\ tap' = TakeTaps(v) /\ bridge' = bridge
        BY <1>2 DEF Launched, LaunchNext
    <2>2. ASSUME NEW t \in TapIds
          PROVE  \/ tap'[t] # Free /\ tap'[t][1] = v
                 \/ tap'[t] = tap[t]
        <3>1. \A a : <<v, a>> # Free /\ <<v, a>>[1] = v
            BY TakenIsNotFree
        <3> QED
            BY <2>1, <3>1 DEF TakeTaps
    <2>3. TapsOwned'
        <3> SUFFICES ASSUME NEW t \in TapIds, tap'[t] # Free
                     PROVE  vm'[tap'[t][1]] # "off"
            BY DEF TapsOwned
        <3>1. CASE tap'[t][1] = v
            BY <2>1, <3>1, InvFacts
        <3>2. CASE tap'[t] = tap[t]
            <4>1. tap[t][1] \in VMs /\ vm[tap[t][1]] # "off"
                BY <3>2, InvFacts DEF Wiring, TapsOwned
            <4> QED
                BY <2>1, <3>2, <4>1, InvFacts
        <3> QED
            BY <2>2, <3>1, <3>2
    <2>4. BridgesTapped'
        <3> SUFFICES ASSUME NEW i \in 1..N, NEW t \in bridge[i]
                     PROVE  tap'[t] # Free
            BY <2>1 DEF BridgesTapped
        <3>1. t \in TapIds /\ tap[t] # Free
            BY InvFacts DEF Wiring, BridgesTapped
        <3> QED
            BY <2>2, <3>1
    <2> QED
        BY <2>3, <2>4 DEF Owned
<1> QED
    BY <1>1, <1>2 DEF LaunchNext

\* Bridges are given taps that are there.
LEMMA BridgesOwned ==
    ASSUME IInv, Wiring, CreateBridge \/ RemoveBridge
    PROVE  Owned'
<1>1. tap' = tap /\ vm' = vm
    BY DEF CreateBridge, RemoveBridge
<1>2. TapsOwned'
    BY <1>1 DEF Wiring, TapsOwned
<1>3. BridgesTapped'
    <2>1. CASE CreateBridge
        <3>1. bridge' = [bridge EXCEPT ![script.i] = @ \cup {t \in {script.i, ClientTap(script.i)} : CanAdd(t)}]
            BY <2>1 DEF CreateBridge
        <3>2. \A i \in 1..N : \A t \in bridge'[i] : t \in bridge[i] \/ CanAdd(t)
            BY <3>1, InvFacts
        <3> QED
            BY <1>1, <3>2 DEF Wiring, BridgesTapped, CanAdd
    <2>2. CASE RemoveBridge
        <3>1. \A i \in 1..N : bridge'[i] \subseteq bridge[i]
            BY <2>2, InvFacts DEF RemoveBridge
        <3> QED
            BY <1>1, <3>1 DEF Wiring, BridgesTapped
    <2> QED
        BY <2>1, <2>2
<1> QED
    BY <1>2, <1>3 DEF Owned

\* A process takes its taps with it, and from the bridges too; a run it was part
\* of is undisturbed no longer.
LEMMA EndsWired ==
    ASSUME IInv, Wiring, NEW v \in VMs, Ends(v)
    PROVE  Wiring'
<1>1. /\ vm[v] # "off" /\ vm' = [vm EXCEPT ![v] = "off"]
      /\ script' = script /\ clean' = clean /\ mine' = mine
      /\ tap' = [t \in TapIds |-> IF tap[t] # Free /\ tap[t][1] = v THEN Free ELSE tap[t]]
      /\ bridge' = [i \in 1..N |-> {t \in bridge[i] : tap'[t] # Free}]
    BY DEF Ends
<1>2. TapsOwned'
    <2> SUFFICES ASSUME NEW t \in TapIds, tap'[t] # Free
                 PROVE  vm'[tap'[t][1]] # "off"
        BY DEF TapsOwned
    <2>1. tap'[t] = tap[t] /\ tap[t] # Free /\ tap[t][1] # v
        BY <1>1
    <2>2. tap[t][1] \in VMs /\ vm[tap[t][1]] # "off"
        BY <2>1, InvFacts DEF Wiring, TapsOwned
    <2> QED
        BY <1>1, <2>1, <2>2, InvFacts
<1>3. BridgesTapped'
    BY <1>1 DEF BridgesTapped
<1>4. \A u \in VMs : vm'[u] # "off" => vm[u] # "off" /\ u # v
    BY <1>1, InvFacts
<1>5. Launching'
    <2> SUFFICES ASSUME NEW i \in 0..N, i = script.i, script.at = "launch", i > 0, Undisturbed(i)'
                 PROVE  FALSE
        BY <1>1, InvFacts DEF Launching, ScriptOK, Undisturbed
    <2>1. \A u \in 0..i-1 : u \in VMs
        BY VMsAreNumbered
    <2>2. Undisturbed(i) /\ v \notin 0..i-1
        BY <1>1, <1>4, <2>1 DEF Undisturbed
    <2>3. \A u \in VMs : u >= i => vm[u] = "off"
        BY <2>2 DEF Wiring, Launching
    <2> QED
        BY <1>1, <2>2, <2>3, VMsAreNumbered
<1>6. ~Undisturbed(N + 1)'
    <2>1. v \in 0..(N + 1) - 1 /\ vm'[v] = "off"
        BY <1>1, VMsAreNumbered, InvFacts
    <2> QED
        BY <2>1 DEF Undisturbed
<1>7. Bridging' /\ Testing'
    BY <1>1, <1>6 DEF Wiring, Bridging, Testing
<1> QED
    BY <1>2, <1>3, <1>5, <1>7 DEF Wiring

\* A process that comes up was running before.
LEMMA BootsUpWired ==
    ASSUME IInv, Wiring, NEW v \in VMs, BootsUp(v)
    PROVE  Wiring'
<1>1. /\ vm[v] = "booting" /\ vm' = [vm EXCEPT ![v] = "up"]
      /\ UNCHANGED <<script, clean, mine, tap, bridge>>
    BY DEF BootsUp
<1>2. \A u \in VMs : vm'[u] = "off" <=> vm[u] = "off"
    BY <1>1, InvFacts
<1>3. Owned'
    BY <1>1, <1>2, OwnedStep
<1>4. \A n \in 0..N+1 : Undisturbed(n)' => Undisturbed(n)
    <2>1. \A n \in 0..N+1 : \A u \in 0..n-1 : u \in VMs
        BY VMsAreNumbered
    <2> QED
        BY <1>1, <1>2, <2>1 DEF Undisturbed
<1>5. Launching'
    <2>1. script.i \in 0..N+1
        BY InvFacts DEF ScriptOK
    <2>2. Undisturbed(script.i)' => Undisturbed(script.i)
        BY <1>1, <1>4, <2>1 DEF Undisturbed
    <2> QED
        BY <1>1, <1>2, <2>2 DEF Wiring, Launching, TapsOf, BridgesOf
<1>6. Bridging' /\ Testing'
    <2>1. Undisturbed(N + 1)' => Undisturbed(N + 1)
        BY <1>4
    <2> QED
        BY <1>1, <2>1 DEF Wiring, Bridging, Testing, TapsOf, BridgesOf
<1> QED
    BY <1>3, <1>5, <1>6 DEF Wiring, Owned

\* There are no taps at the start.
LEMMA InitWired == Init => Wiring
<1> SUFFICES ASSUME Init PROVE Wiring
    OBVIOUS
<1>1. TapsOwned /\ BridgesTapped
    BY DEF Init, TapsOwned, BridgesTapped
<1> QED
    BY <1>1 DEF Init, Wiring, Launching, Bridging, Testing

\* Every step keeps taps and bridges as the numbering has them.
LEMMA NextWired ==
    ASSUME IInv, Wiring, [Next]_vars
    PROVE  Wiring'
<1> USE DEF Owned, StagesWired
<1>1. ScriptOK
    BY InvFacts
<1>2. ASSUME NEW mode \in Modes, Start(mode) PROVE Wiring'
    <2>1. Owned'
        BY <1>2, OwnedStep DEF Start, host
    <2>2. StagesWired'
        BY <1>2, BeginWired DEF Start
    <2> QED
        BY <2>1, <2>2 DEF Wiring
<1>3. CASE LaunchNext
    BY <1>3, LaunchNextStages, LaunchNextOwned DEF Wiring
<1>4. CASE CreateBridge
    BY <1>4, CreateBridgeStages, BridgesOwned DEF Wiring
<1>5. CASE RemoveBridge
    BY <1>5, OtherStages, BridgesOwned DEF Wiring
<1>6. CASE RunTest \/ WaitL1 \/ CopyTrace
    <2>1. Owned'
        BY <1>6, OwnedStep DEF RunTest, WaitL1, CopyTrace, host
    <2> QED
        BY <1>6, <2>1, OtherStages DEF Wiring
<1>7. CASE PoweroffL1 \/ PoweroffClients
    <2>1. \A v \in VMs : vm[v] # "off" => vm'[v] # "off"
        BY <1>7, InvFacts DEF PoweroffL1, PoweroffClients, PoweredOff
    <2>2. Owned'
        BY <1>7, <2>1, OwnedStep DEF PoweroffL1, PoweroffClients
    <2> QED
        BY <1>7, <2>2, OtherStages DEF Wiring
<1>8. CASE Killed
    <2>1. Owned'
        BY <1>8, OwnedStep DEF Killed, host
    <2>2. Goto("idle") /\ "idle" \in Stages \ {"launch", "bridge", "test"}
        BY <1>8 DEF Killed, Stages
    <2> QED
        BY <1>1, <2>1, <2>2, GotoWired DEF Wiring
<1>9. ASSUME NEW v \in VMs, BootsUp(v) \/ ShutsDown(v) \/ Crashes(v) PROVE Wiring'
    BY <1>9, BootsUpWired, EndsWired DEF ShutsDown, Crashes
<1>10. CASE UNCHANGED vars
    BY <1>10 DEF vars, host, Wiring, Launching, Bridging, Testing, TapsOwned, BridgesTapped,
       Undisturbed, TapsOf, BridgesOf
<1> QED
    BY <1>2, <1>3, <1>4, <1>5, <1>6, <1>7, <1>8, <1>9, <1>10 DEF Next, Step

\* createBridges can name taps by number: in a run that began on an empty host
\* and whose VMs all still run, each bridge joins a NIC of the L1 VM with its
\* client, for any number of connections and NICs.
THEOREM PairsRight == Spec => []PairsConnected
<1>1. IInv /\ Wiring => PairsConnected
    <2> SUFFICES ASSUME IInv, Wiring, script.at = "test", script.mode = "collect",
                        clean, mine = VMs, \A v \in VMs : vm[v] # "off", NEW i \in 1..N
                 PROVE  {tap[t] : t \in bridge[i]} = {<<L1, i>>, <<i, 1>>}
        BY DEF PairsConnected
    <2>1. Undisturbed(N + 1)
        BY VMsAreNumbered DEF Undisturbed
    <2>2. TapsOf(N + 1) /\ BridgesOf(N + 1)
        BY <2>1 DEF Wiring, Testing
    <2>3. bridge[i] = {i, ClientTap(i)}
        <3>1. i < N + 1
            OBVIOUS
        <3>2. bridge[i] = IF i < N + 1 THEN {i, ClientTap(i)} ELSE {}
            BY <2>2 DEF BridgesOf
        <3> QED
            BY <3>1, <3>2
    <2>4. tap[i] = <<L1, i>> /\ tap[ClientTap(i)] = <<i, 1>>
        BY <2>2, TapsByNumber
    <2> QED
        BY <2>3, <2>4
<1>2. Init => IInv /\ Wiring
    BY InitInv, InitWired
<1>3. IInv /\ Wiring /\ [Next]_vars => (IInv /\ Wiring)'
    BY NextInv, NextWired
<1> QED
    BY <1>1, <1>2, <1>3, PTL DEF Spec
=============================================================================

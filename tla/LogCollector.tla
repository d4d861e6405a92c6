---------------------------- MODULE LogCollector ----------------------------
(***************************************************************************)
(* hypersio-log-collector: the script that produces the logs traces are    *)
(* built from, with the classes of vmlib it drives.  A run starts an L1 VM *)
(* (whose QEMU writes the trace of the IOMMU to one file), a client VM for *)
(* every connection, and bridges that join NIC i of the L1 VM with client  *)
(* i; it plays a test, powers everything off and copies the trace.         *)
(*                                                                         *)
(* The script only starts processes and sends commands over ssh: a virtual *)
(* machine comes up late or never, fails to start, or still runs when the  *)
(* script goes on.  The result of no launch, boot or poweroff is looked    *)
(* at.  WaitForBoot (150 retries, then an error message) thus changes      *)
(* nothing: after it the machine is up, or it is not.                      *)
(*                                                                         *)
(* Connections, NICs, taps and runs are numbered from 1.  The L2 VMs live  *)
(* inside the L1 VM and are not modelled.                                  *)
(***************************************************************************)
EXTENDS Naturals, Sequences, FiniteSets

CONSTANTS
    N,          \* connections: l2_vm_num
    NicNum,     \* NICs, and taps, of the L1 VM: l1_vm_tap
    Runs,       \* runs of the configuration
    MaxStarts   \* bound on how often the script is started

ASSUME LogCollectorAssumption ==
    /\ N \in Nat \ {0} /\ NicNum \in Nat /\ N <= NicNum
    /\ Runs \in Nat \ {0} /\ MaxStarts \in Nat

L1 == 0
VMs == {L1} \cup 1..N
TapIds == 1..NicNum + N
Modes == {"collect", "runtest", "cleanup", "create_bridges", "remove_bridges"}

VARIABLES
    script,     \* where the script is, and what it was started for
    starts,     \* times the script was started
    vm,         \* what the process of each VM does
    tap,        \* the VM and NIC a tap interface belongs to
    bridge,     \* the taps on each bridge
    mine,       \* the VMs whose process is the one the present run started
    clean,      \* history: no VM was there when the present run started its first
    trace,      \* there is a trace file
    saved       \* the log of each run

host == <<vm, tap, bridge>>
vars == <<script, starts, host, mine, clean, trace, saved>>

Free == <<>>

\* What a saved log is: by an L1 VM that its run started, and that has ended.
NoLog == [own |-> FALSE, whole |-> FALSE]

Init ==
    /\ script = [at |-> "idle", i |-> 0, mode |-> "collect", run |-> 0, told |-> FALSE]
    /\ starts = 0
    /\ vm = [v \in VMs |-> "off"]
    /\ tap = [t \in TapIds |-> Free]
    /\ bridge = [i \in 1..N |-> {}]
    /\ mine = {} /\ clean = FALSE
    /\ trace = FALSE /\ saved = [r \in 1..Runs |-> NoLog]

-----------------------------------------------------------------------------
(* The script *)

FirstStep == [collect |-> "launch", runtest |-> "test", cleanup |-> "poweroff",
              create_bridges |-> "bridge", remove_bridges |-> "unbridge"]

\* The first of a stage: the L1 VM is launched first, bridges count from 1.
FirstOf(stage) == IF stage = "launch" THEN L1 ELSE 1

Goto(stage) == script' = [script EXCEPT !.at = stage, !.i = FirstOf(stage)]

Begin(mode, run) ==
    script' = [at |-> FirstStep[mode], i |-> FirstOf(FirstStep[mode]),
               mode |-> mode, run |-> run, told |-> FALSE]

\* Fault: one run too many.
EndRunLate ==
    IF script.run <= Runs THEN Begin(script.mode, script.run + 1) ELSE Goto("idle")

\* The loop of main over the runs; every mode is repeated.
EndRun ==
    IF script.run < Runs THEN Begin(script.mode, script.run + 1) ELSE Goto("idle")

Start(mode) ==
    /\ script.at = "idle" /\ starts < MaxStarts
    /\ starts' = starts + 1
    /\ Begin(mode, 1)
    /\ UNCHANGED <<host, mine, clean, trace, saved>>

\* The script is killed and leaves its virtual machines behind.
Killed ==
    /\ script.at # "idle"
    /\ Goto("idle")
    /\ UNCHANGED <<starts, host, mine, clean, trace, saved>>

NicsOf(v) == IF v = L1 THEN NicNum ELSE 1

\* The kernel numbers the taps of a new process from the lowest free one on.
TakeTaps(v) ==
    LET free(t) == {u \in 1..t : tap[u] = Free}
    IN  [t \in TapIds |->
            IF tap[t] = Free /\ Cardinality(free(t)) <= NicsOf(v)
            THEN <<v, Cardinality(free(t))>> ELSE tap[t]]

\* A new process of QEMU truncates the trace file, if it is the L1 VM's.
Launched(v) ==
    /\ vm[v] = "off"    \* its disk image and its port are not in use
    /\ vm' = [vm EXCEPT ![v] = "booting"]
    /\ tap' = TakeTaps(v)
    /\ mine' = mine \cup {v}
    /\ trace' = (trace \/ v = L1)

LaunchFailed(v) == mine' = mine \ {v} /\ UNCHANGED <<vm, tap, trace>>

\* Launch and WaitForBoot of the L1 VM, then of the clients, one by one.
LaunchNext ==
    /\ script.at = "launch"
    /\ LET v == script.i IN
        /\ Launched(v) \/ LaunchFailed(v)
        /\ clean' = IF v = L1 THEN \A u \in VMs : vm[u] = "off" ELSE clean
        /\ IF v < N THEN script' = [script EXCEPT !.i = v + 1] ELSE Goto("bridge")
    /\ UNCHANGED <<starts, bridge, saved>>

\* Fault: the clients' taps are counted from the number of connections.
ClientTapEarly(i) == N + i

ClientTap(i) == NicNum + i

\* "brctl addif" fails for an interface that is not there or on another bridge.
CanAdd(t) == tap[t] # Free /\ \A i \in 1..N : t \notin bridge[i]

AfterBridges == IF script.mode = "collect" THEN Goto("test") ELSE EndRun

CreateBridge ==
    /\ script.at = "bridge"
    /\ LET i == script.i IN
        /\ bridge' = [bridge EXCEPT ![i] = @ \cup {t \in {i, ClientTap(i)} : CanAdd(t)}]
        /\ IF i < N THEN script' = [script EXCEPT !.i = i + 1] ELSE AfterBridges
    /\ UNCHANGED <<starts, vm, tap, mine, clean, trace, saved>>

\* runTest returns when its clients have; with --runtest all the rest is left out.
RunTest ==
    /\ script.at = "test"
    /\ Goto(IF script.mode = "collect" THEN "poweroff" ELSE "copy")
    /\ UNCHANGED <<starts, host, mine, clean, trace, saved>>

\* "poweroff" over ssh reaches the VMs that are up.
PoweredOff(group) ==
    [v \in VMs |-> IF v \in group /\ vm[v] = "up" THEN "stopping" ELSE vm[v]]

PoweroffL1 ==
    /\ script.at = "poweroff"
    /\ vm' = PoweredOff({L1})
    /\ script' = [script EXCEPT !.at = "wait", !.told = vm[L1] = "up"]
    /\ UNCHANGED <<starts, tap, bridge, mine, clean, trace, saved>>

\* Faults: a Poweroff that waits for no process, and one that waits for all.
NobodyAwaited == {}
EveryoneAwaited == VMs

\* VirtualMachine.Poweroff waits, VMGroup.Poweroff does not.
Awaited == {L1}

\* vm_proc is the process of this run, which may have failed to start; with
\* --cleanup there is none.
Gone(v) == vm[v] = "off" \/ v \notin mine \/ script.mode = "cleanup"

WaitL1 ==
    /\ script.at = "wait"
    /\ \A v \in Awaited : Gone(v)
    /\ Goto("poweroff clients")
    /\ UNCHANGED <<starts, host, mine, clean, trace, saved>>

PoweroffClients ==
    /\ script.at = "poweroff clients"
    /\ vm' = PoweredOff(1..N)
    /\ Goto("unbridge")
    /\ UNCHANGED <<starts, tap, bridge, mine, clean, trace, saved>>

AfterCleanup == IF script.mode = "collect" THEN Goto("copy") ELSE EndRun

RemoveBridge ==
    /\ script.at = "unbridge"
    /\ LET i == script.i IN
        /\ bridge' = [bridge EXCEPT ![i] = {}]
        /\ IF i < N THEN script' = [script EXCEPT !.i = i + 1] ELSE AfterCleanup
    /\ UNCHANGED <<starts, vm, tap, mine, clean, trace, saved>>

\* The trace file is copied, whoever wrote it; without one the script dies.
CopyTrace ==
    /\ script.at = "copy"
    /\ IF ~trace THEN Goto("idle") /\ saved' = saved
       ELSE /\ saved' = [saved EXCEPT ![script.run] =
                            [own |-> script.mode = "collect" /\ L1 \in mine,
                             whole |-> vm[L1] = "off"]]
            /\ EndRun
    /\ UNCHANGED <<starts, host, mine, clean, trace>>

Step ==
    \/ LaunchNext \/ CreateBridge \/ RunTest
    \/ PoweroffL1 \/ WaitL1 \/ PoweroffClients \/ RemoveBridge \/ CopyTrace

-----------------------------------------------------------------------------
(* The virtual machines *)

BootsUp(v) ==
    /\ vm[v] = "booting"
    /\ vm' = [vm EXCEPT ![v] = "up"]
    /\ UNCHANGED <<script, starts, tap, bridge, mine, clean, trace, saved>>

\* The process ends, its taps go, and from the bridges as well.
Ends(v) ==
    /\ vm[v] # "off"
    /\ vm' = [vm EXCEPT ![v] = "off"]
    /\ tap' = [t \in TapIds |-> IF tap[t] # Free /\ tap[t][1] = v THEN Free ELSE tap[t]]
    /\ bridge' = [i \in 1..N |-> {t \in bridge[i] : tap'[t] # Free}]
    /\ UNCHANGED <<script, starts, mine, clean, trace, saved>>

ShutsDown(v) == vm[v] = "stopping" /\ Ends(v)
Crashes(v) == vm[v] \in {"booting", "up"} /\ Ends(v)

Next ==
    \/ \E mode \in Modes : Start(mode)
    \/ Step \/ Killed
    \/ \E v \in VMs : BootsUp(v) \/ ShutsDown(v) \/ Crashes(v)

\* The script goes on, and a VM that was powered off ends; one that was
\* launched need never come up.
Fairness == WF_vars(Step) /\ \A v \in VMs : WF_vars(ShutsDown(v))

Spec == Init /\ [][Next]_vars /\ Fairness

-----------------------------------------------------------------------------
\* The variables have their types: the script counts its runs, VMs and bridges
\* as its loops do.
CollectorTypeOK ==
    /\ script.mode \in Modes /\ script.run \in 0..Runs /\ script.i \in 0..N
    /\ starts \in 0..MaxStarts /\ mine \subseteq VMs
    /\ vm \in [VMs -> {"off", "booting", "up", "stopping"}]
    /\ tap \in [TapIds -> {Free} \cup (VMs \X (1..NicNum))]
    /\ bridge \in [1..N -> SUBSET TapIds]

\* createBridges names the taps by number and trusts the order in which the VMs
\* were started: in a run that found no VM of an earlier one, and whose own VMs
\* all started and still run when the test begins, bridge i joins NIC i of the
\* L1 VM with the NIC of client i.
PairsConnected ==
    /\ script.at = "test" /\ script.mode = "collect"
    /\ clean /\ mine = VMs /\ (\A v \in VMs : vm[v] # "off")
    => \A i \in 1..N : {tap[t] : t \in bridge[i]} = {<<L1, i>>, <<i, 1>>}

\* A log saved by a run whose L1 VM started is the trace of that VM, and the VM
\* had ended when it was copied (Poweroff waits for the process).
OwnLogIsWhole ==
    \A r \in 1..Runs : saved[r].own => saved[r].whole

\* The script comes to its end, whatever VMs fail to start, boot or stop, except
\* that it waits for an L1 VM that was not up when told to power off, and may
\* wait forever.
CollectionEnds ==
    script.at # "idle" ~> script.at = "idle" \/ (script.at = "wait" /\ ~script.told)
=============================================================================

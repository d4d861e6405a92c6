------------------------- MODULE TranslationQueue -------------------------
(***************************************************************************)
(* What the simulation loop promises about the translations of a trace,    *)
(* whatever the caches, the prefetcher and the latencies do: they are      *)
(* issued in trace order, only while the pending buffer has room for a     *)
(* packet, each completes exactly once, in any order, and the run is over  *)
(* only when none is pending.  SIOPerf.tla implements it.                  *)
(***************************************************************************)
EXTENDS Naturals, FiniteSets

CONSTANTS
    MaxTrace,  \* bound on the length of the trace
    Capacity,  \* pending translations at which packets are dropped
    Burst      \* translations a packet brings at once

VARIABLES
    status,    \* "open", "draining", "done" or "failed"
    issued,    \* translations issued so far; they are numbered from 1
    pending    \* the numbers of those that have not completed

vars == <<status, issued, pending>>

Init == status = "open" /\ issued = 0 /\ pending = {}

\* A packet may begin while there is room for one more translation, and is then
\* issued whole.
Issue ==
    /\ status = "open" /\ issued < MaxTrace
    /\ Cardinality(pending) < Capacity + (Burst - 1)
    /\ issued' = issued + 1
    /\ pending' = pending \cup {issued + 1}
    /\ UNCHANGED status

Complete(i) ==
    /\ status \in {"open", "draining"}
    /\ i \in pending
    /\ pending' = pending \ {i}
    /\ UNCHANGED <<status, issued>>

\* The trace is over, or is not a trace.
Close == status = "open" /\ status' = "draining" /\ UNCHANGED <<issued, pending>>
Abort == status = "open" /\ status' = "failed" /\ UNCHANGED <<issued, pending>>

Finish ==
    /\ status = "draining" /\ pending = {}
    /\ status' = "done"
    /\ UNCHANGED <<issued, pending>>

Next ==
    \/ Issue \/ Close \/ Abort \/ Finish
    \/ \E i \in pending : Complete(i)

\* Every pending translation completes, the trace ends, and so does the run.
Fairness ==
    /\ \A i \in 1..MaxTrace : WF_vars(Complete(i))
    /\ WF_vars(Close \/ Abort)
    /\ WF_vars(Finish)

Spec == Init /\ [][Next]_vars /\ Fairness
=============================================================================

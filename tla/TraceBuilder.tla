---------------------------- MODULE TraceBuilder ----------------------------
(***************************************************************************)
(* hypersio-perf --build: class Trace of src/trace.cpp with the parsers of *)
(* src/eventparser.cpp.  Numbered logs of a machine with several devices   *)
(* are read line by line until enough tenants were seen; their domains and *)
(* devices are renumbered so that each log brings new tenants; the streams *)
(* of the tenants are merged into one trace, in one of three orders; and   *)
(* every translation is given the position of the next one of its page.    *)
(*                                                                         *)
(* A line of a log is what its regular expression yields.  Page table data *)
(* (_paddr_slpt_map) is written out and read by nothing, and is left out;  *)
(* so is the payload of a context entry, which is reduced to its tenant.   *)
(***************************************************************************)
EXTENDS Integers, SequencesExt

CONSTANTS
    Lines,         \* the lines a log may hold
    Logs,          \* number of log files, numbered from 0
    MaxEvents,     \* bound on the lines accepted from all logs
    Tenants,       \* --tenantnum
    MaxDevPerLog,  \* --maxdevperlog
    LogTypes,      \* what --ltype may be: "txt", "bin" or both
    Orders,        \* what --order may be
    Consec,        \* _consec_events_per_did, --consec
    FIRST_DEV_ID,
    MAX_DOMAINS_PER_LOG,
    SizeT,         \* values of a size_t
    UInt,          \* values of a uint, the type of log_cnt
    MaxNat         \* "no next access", the largest uint64_t

\* With no consecutive events per tenant, the merge loops write nothing and
\* never end.
ASSUME TraceBuilderAssumption ==
    /\ Lines \subseteq [type : {"translate", "cc", "slpte"}, sid : Nat, did : Nat, page : Nat]
    /\ {Logs, MaxEvents, MaxDevPerLog, FIRST_DEV_ID, MaxNat} \subseteq Nat
    /\ {Consec, MAX_DOMAINS_PER_LOG, SizeT, UInt} \subseteq Nat \ {0}
    /\ Tenants \in 0..(SizeT - 1)

VARIABLES
    pc,
    wanted,      \* tntnum: tenants still to read
    log_cnt,
    parse_ok,    \* parse_log_succ of main
    valid_sids,  \* _valid_sid_v
    valid_dids,  \* _valid_did_set, shared by the parsers
    seen,        \* seen_did_set of the log being read
    uid,         \* _unique_did_order_map; its size is _global_did_cnt
    streams,     \* _did_tr_event_map
    did_log,     \* _did_log_trace_v
    contexts,    \* _sid_context_map
    ltype,       \* --ltype
    order,       \* --order
    did_v,       \* tenants that still have events
    did_it,      \* events of each tenant already in the trace
    turn,        \* position of the round robin in did_v
    one_did_is_over,
    trace,       \* _constructed_iova_event_v
    event_cnt,   \* events of the trace numbered so far
    last,        \* key_event_map: the last event so far of each page
    read         \* history: the lines accepted, with their log and global DID

control == <<wanted, log_cnt, parse_ok, ltype, order>>
parsing == <<valid_sids, valid_dids, seen>>
tenants == <<uid, streams, did_log, contexts, read>>
merging == <<did_v, did_it, turn, one_did_is_over>>
numbering == <<event_cnt, last>>
vars == <<pc, control, parsing, tenants, merging, trace, numbering>>

Nothing == [x \in {} |-> 0]

Init ==
    /\ pc = "log"
    /\ wanted = Tenants /\ log_cnt = 0 /\ parse_ok = TRUE
    /\ ltype \in LogTypes /\ order \in Orders
    /\ valid_sids = {} /\ valid_dids = {} /\ seen = {}
    /\ uid = Nothing /\ streams = Nothing /\ did_log = <<>> /\ contexts = Nothing
    /\ read = <<>>
    /\ did_v = <<>> /\ did_it = Nothing /\ turn = 1 /\ one_did_is_over = FALSE
    /\ trace = <<>> /\ event_cnt = 0 /\ last = Nothing

-----------------------------------------------------------------------------
\* ReadLogs: one log after the other, until no tenant is wanted

Min2(a, b) == IF a <= b THEN a ELSE b

\* The first devices of a log, as many as are wanted, are valid; a device's SID
\* is its number shifted by 3.
PrepareLog ==
    /\ pc = "log" /\ wanted > 0
    /\ valid_sids' = {8 * (FIRST_DEV_ID + i) : i \in 0..(Min2(wanted, MaxDevPerLog) - 1)}
    /\ valid_dids' = {}
    /\ seen' = {}

OpenLog ==
    /\ ltype = "txt" /\ log_cnt < Logs
    /\ PrepareLog
    /\ pc' = "lines"
    /\ UNCHANGED <<control, tenants, merging, trace, numbering>>

\* ParseTextLog cannot open the file; the trace is built from what was read.
OpenFails ==
    /\ ltype = "txt" /\ log_cnt >= Logs
    /\ PrepareLog
    /\ parse_ok' = FALSE
    /\ pc' = "order"
    /\ UNCHANGED <<wanted, log_cnt, ltype, order, tenants, merging, trace, numbering>>

\* ParseLog knows no other type: it returns FALSE, which is 0 devices read.
SkipLog ==
    /\ ltype # "txt"
    /\ PrepareLog
    /\ log_cnt' = (log_cnt + 1) % UInt
    /\ UNCHANGED <<pc, wanted, parse_ok, ltype, order, tenants, merging, trace, numbering>>

\* Fault: the next log is the same log.
CloseLogAgain ==
    /\ pc = "lines"
    /\ wanted' = (wanted - Cardinality(seen)) % SizeT
    /\ pc' = "log"
    /\ UNCHANGED <<log_cnt, parse_ok, ltype, order, parsing, tenants, merging, trace, numbering>>

\* The end of the file.  A log with more tenants than wanted wraps the count.
CloseLog ==
    /\ pc = "lines"
    /\ wanted' = (wanted - Cardinality(seen)) % SizeT
    /\ log_cnt' = (log_cnt + 1) % UInt
    /\ pc' = "log"
    /\ UNCHANGED <<parse_ok, ltype, order, parsing, tenants, merging, trace, numbering>>

LogsRead ==
    /\ pc = "log" /\ wanted = 0
    /\ pc' = "order"
    /\ UNCHANGED <<control, parsing, tenants, merging, trace, numbering>>

-----------------------------------------------------------------------------
\* ParseLine and PushEvent: a line accepted by its parser

\* Page table lines carry no SID: they are accepted once a context entry has
\* shown their domain to belong to a valid device.
Accepted(l) == IF l.type = "slpte" THEN l.did \in valid_dids ELSE l.sid \in valid_sids

\* Fault: the domains of every log are taken for the same.
UniqueDidNoLog(l, log) == l.did

\* Domains of different logs are different; 16 bits.
UniqueDid(l, log) == (l.did + log * MAX_DOMAINS_PER_LOG) % 2^16

\* Fault: the SIDs of every log are taken for the same.
AdjustedSidNoLog(l, log) == l.sid

AdjustedSid(l, log) == (l.sid + log * MAX_DOMAINS_PER_LOG) % 2^16

\* Fault: the global DIDs start from 1.
NewDidFromOne == Cardinality(DOMAIN uid) + 1

\* Domains are numbered in the order they are first seen.
NewDid == Cardinality(DOMAIN uid)

Did(l) == IF UniqueDid(l, log_cnt) \in DOMAIN uid THEN uid[UniqueDid(l, log_cnt)] ELSE NewDid

\* f with x mapped to v.
Put(f, x, v) == [y \in DOMAIN f \cup {x} |-> IF y = x THEN v ELSE f[y]]

PushTranslation(l) ==
    LET d == Did(l)
        e == [sid |-> AdjustedSid(l, log_cnt), did |-> d, page |-> l.page, nat |-> MaxNat]
    IN  /\ streams' = Put(streams, d, Append(IF d \in DOMAIN streams THEN streams[d] ELSE <<>>, e))
        /\ did_log' = Append(did_log, d)
        /\ UNCHANGED contexts

\* A context entry replaces the one its SID had, if any.
PushContext(l) ==
    /\ contexts' = Put(contexts, AdjustedSid(l, log_cnt), [log |-> log_cnt, sid |-> l.sid])
    /\ UNCHANGED <<streams, did_log>>

PushSlpte == UNCHANGED <<streams, did_log, contexts>>

\* A line no parser accepts changes nothing and is no step.
ReadLine(l) ==
    /\ pc = "lines" /\ Len(read) < MaxEvents
    /\ Accepted(l)
    /\ valid_dids' = IF l.type = "cc" THEN valid_dids \cup {l.did} ELSE valid_dids
    /\ uid' = Put(uid, UniqueDid(l, log_cnt), Did(l))
    /\ seen' = seen \cup {Did(l)}
    /\ CASE l.type = "translate" -> PushTranslation(l)
         [] l.type = "cc" -> PushContext(l)
         [] l.type = "slpte" -> PushSlpte
    /\ read' = Append(read, [line |-> l, log |-> log_cnt, did |-> Did(l)])
    /\ UNCHANGED <<pc, control, valid_sids, merging, trace, numbering>>

-----------------------------------------------------------------------------
\* SaveIOVATrace: merging the tenants' streams

\* The keys of a map, as iterating over it yields them: the one sequence.
Ascending(S) ==
    {s \in [1..Cardinality(S) -> S] : \A i, j \in DOMAIN s : i < j => s[i] < s[j]}

StartMerge ==
    /\ pc = "order" /\ order \in {"orig", "rr", "rand"}
    /\ did_v' \in Ascending(DOMAIN streams)
    /\ did_it' = [d \in DOMAIN streams |-> 0]
    /\ pc' = "merge"
    /\ UNCHANGED <<turn, one_did_is_over, control, parsing, tenants, trace, numbering>>

\* SaveTrace fails, and main returns what the parsing did.
UnknownOrder ==
    /\ pc = "order" /\ order \notin {"orig", "rr", "rand"}
    /\ pc' = "exit"
    /\ UNCHANGED <<control, parsing, tenants, merging, trace, numbering>>

Left(d) == Len(streams[d]) - did_it[d]

\* The next n events of tenant d go to the trace.
Take(d, n) ==
    /\ trace' = trace \o SubSeq(streams[d], did_it[d] + 1, did_it[d] + n)
    /\ did_it' = [did_it EXCEPT ![d] = @ + n]

\* BuildIOVATraceOrig: as the tenants came in the logs.
MergeOrig ==
    /\ pc = "merge" /\ order = "orig" /\ Len(trace) < Len(did_log)
    /\ Take(did_log[Len(trace) + 1], 1)
    /\ UNCHANGED <<pc, did_v, turn, one_did_is_over, control, parsing, tenants, numbering>>

\* BuildIOVATraceRR: a burst of each tenant in turn.
MergeRR ==
    /\ pc = "merge" /\ order = "rr" /\ turn <= Len(did_v)
    /\ LET d == did_v[turn]
       IN  /\ Take(d, Min2(Consec, Left(d)))
           /\ one_did_is_over' = (one_did_is_over \/ Left(d) < Consec)
    /\ turn' = turn + 1
    /\ UNCHANGED <<pc, did_v, control, parsing, tenants, numbering>>

\* Fault: the tenants that have events left go on without the others.
NextRoundWithoutOver ==
    /\ pc = "merge" /\ order = "rr" /\ turn > Len(did_v)
    /\ did_v' = SelectSeq(did_v, LAMBDA d : Left(d) > 0)
    /\ did_v' # <<>>
    /\ turn' = 1
    /\ UNCHANGED <<pc, did_it, one_did_is_over, control, parsing, tenants, trace, numbering>>

NextRound ==
    /\ pc = "merge" /\ order = "rr" /\ did_v # <<>> /\ turn > Len(did_v)
    /\ ~one_did_is_over
    /\ turn' = 1
    /\ UNCHANGED <<pc, did_v, did_it, one_did_is_over, control, parsing, tenants, trace, numbering>>

\* Fault: a tenant with less than a burst left is dropped.
MergeRandDropping(i) ==
    /\ pc = "merge" /\ order = "rand"
    /\ IF Left(did_v[i]) < Consec
       THEN did_v' = RemoveAt(did_v, i) /\ UNCHANGED <<did_it, trace>>
       ELSE Take(did_v[i], Consec) /\ UNCHANGED did_v
    /\ UNCHANGED <<pc, turn, one_did_is_over, control, parsing, tenants, numbering>>

\* BuildIOVATraceRand: a burst of any tenant, erased once it runs out.
MergeRand(i) ==
    /\ pc = "merge" /\ order = "rand"
    /\ Take(did_v[i], Min2(Consec, Left(did_v[i])))
    /\ did_v' = IF Left(did_v[i]) < Consec THEN RemoveAt(did_v, i) ELSE did_v
    /\ UNCHANGED <<pc, turn, one_did_is_over, control, parsing, tenants, numbering>>

\* Round robin ends with the round in which a tenant runs out, so that all
\* tenants end together (ALL_DID_END_SAME_TIME).
EndMerge ==
    /\ pc = "merge"
    /\ \/ order = "orig" /\ Len(trace) = Len(did_log)
       \/ order = "rr" /\ turn > Len(did_v) /\ (did_v = <<>> \/ one_did_is_over)
       \/ order = "rand" /\ did_v = <<>>
    /\ pc' = "number"
    /\ UNCHANGED <<control, parsing, tenants, merging, trace, numbering>>

-----------------------------------------------------------------------------
\* SetNextIOVAAccessTime

\* Fault: tenants share their pages.
KeyNoDid(e) == <<e.page, 0>>

Key(e) == <<e.page, e.did>>

NumberEvent ==
    /\ pc = "number" /\ event_cnt < Len(trace)
    /\ LET k == Key(trace[event_cnt + 1])
       IN  /\ trace' = IF k \in DOMAIN last THEN [trace EXCEPT ![last[k]].nat = event_cnt] ELSE trace
           /\ last' = Put(last, k, event_cnt + 1)
    /\ event_cnt' = event_cnt + 1
    /\ UNCHANGED <<pc, control, parsing, tenants, merging>>

\* The files are written, or the first cannot be.
SaveTrace ==
    /\ pc = "number" /\ event_cnt = Len(trace)
    /\ pc' \in {"saved", "exit"}
    /\ UNCHANGED <<control, parsing, tenants, merging, trace, numbering>>

-----------------------------------------------------------------------------
ReadLogs ==
    \/ OpenLog \/ OpenFails \/ SkipLog \/ CloseLog \/ LogsRead
    \/ \E l \in Lines : ReadLine(l)

SaveIOVATrace ==
    \/ StartMerge \/ UnknownOrder
    \/ MergeOrig \/ MergeRR \/ NextRound \/ EndMerge
    \/ \E i \in DOMAIN did_v : MergeRand(i)
    \/ NumberEvent \/ SaveTrace

Next == ReadLogs \/ SaveIOVATrace

\* The program is one thread that goes on while it can, and log files end.
Spec == Init /\ [][Next]_vars /\ WF_vars(Next)

-----------------------------------------------------------------------------
\* The number of tenants is within its type, the global DIDs are dense (the
\* simulator gives its caches consecutive ranges of them), and only tenants
\* that are known have a stream.
DidsDense ==
    /\ wanted \in 0..(SizeT - 1)
    /\ ToSet(uid) = 0..(Cardinality(DOMAIN uid) - 1)
    /\ DOMAIN streams \subseteq ToSet(uid)

\* Two accepted lines get the same global DID exactly when they are of the same
\* log and name the same domain there (PushEvent).
TenantsSeparate ==
    \A i, j \in DOMAIN read :
        read[i].did = read[j].did <=>
            /\ read[i].log = read[j].log
            /\ read[i].line.did = read[j].line.did

\* Between two logs, the tenants still wanted and the tenants seen add up to the
\* number asked for, in the unsigned arithmetic of ReadLogs: no tenant is
\* counted for two logs, and none is missed.
TenantsCounted ==
    pc = "log" => wanted = (Tenants - Cardinality(DOMAIN uid)) % SizeT

\* A context entry accepted from a log is there at the end: no other device of
\* any log has its SID.  SaveCCData writes what is there.
ContextPerTenant ==
    \A r \in ToSet(read) : r.line.type = "cc" =>
        LET sid == AdjustedSid(r.line, r.log)
        IN  sid \in DOMAIN contexts /\ contexts[sid] = [log |-> r.log, sid |-> r.line.sid]

\* The translations accepted from the logs, and those written to the trace, as
\* places in read and in trace: of all tenants, and of the tenant d.
Translations == {j \in DOMAIN read : read[j].line.type = "translate"}
Logged(d) == {j \in Translations : read[j].did = d}
Merged(d) == {i \in DOMAIN trace : trace[i].did = d}

\* The place j is the k-th of P.
IsNth(j, P, k) == j \in P /\ Cardinality(P \cap 1..j) = k

\* The k-th event of the trace among T is the k-th line of the logs among L.
Follows(T, L) ==
    \A i \in T : \E j \in L :
        /\ IsNth(j, L, Cardinality(T \cap 1..i))
        /\ trace[i].did = read[j].did /\ trace[i].page = read[j].line.page

\* Whatever the order, each tenant's translations are in the trace in the order
\* of its log; with "orig" all of them are in the order of the logs; and all but
\* round robin, which stops early, leave none out (BuildIOVATrace*).
StreamsKept ==
    /\ \A d \in ToSet(uid) : Follows(Merged(d), Logged(d))
    /\ order = "orig" => Follows(DOMAIN trace, Translations)
    /\ pc = "number" /\ order # "rr" => Len(trace) = Cardinality(Translations)

\* With round robin, no tenant ever is more than one burst ahead of another,
\* at the end of the trace as everywhere before it (BuildIOVATraceRR).
RRFair ==
    order = "rr" /\ pc \in {"merge", "number", "saved"} =>
        \A d, e \in DOMAIN streams :
            Cardinality(Merged(d)) <= Cardinality(Merged(e)) + Consec

\* Whose translations of what page are in the trace.
Traced == [i \in DOMAIN trace |-> <<trace[i].did, trace[i].page>>]

\* The next access time of an event is the position, in the merged trace, of the
\* next translation of its page by its tenant, and MaxNat if there is none: so
\* it is never 0, on which the oracle's victim selection relies
\* (SetNextIOVAAccessTime).
NatRight ==
    \A i \in 1..event_cnt :
        LET next == {j \in (i + 1)..event_cnt : Traced[j] = Traced[i]}
        IN  trace[i].nat = IF next = {} THEN MaxNat
                           ELSE (CHOOSE j \in next : \A k \in next : j <= k) - 1

\* Reading, merging and numbering end, whatever text logs hold: fewer tenants
\* than wanted, or more, or none.
BuildEnds == ltype = "txt" => <>(pc \in {"saved", "exit"})
=============================================================================

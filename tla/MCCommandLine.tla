--------------------------- MODULE MCCommandLine ---------------------------
(***************************************************************************)
(* Command lines for TLC: every choice of a mode's options, some malformed *)
(* ones, and those the tools and the documentation write.                  *)
(***************************************************************************)
EXTENDS CommandLine, SequencesExt

Opt(o) == <<[isopt |-> TRUE, text |-> o]>>
With(o, v) == Opt(o) \o <<[isopt |-> FALSE, text |-> v]>>

\* The arguments in a row of which only those in S are written.
Choose(row, S) == FlattenSeq([n \in DOMAIN row |-> IF n \in S THEN row[n] ELSE <<>>])

BuildRow == <<With("tenantnum", "3"), With("maxdevperlog", "1"), Opt("build"), With("lbase", "log"),
              With("order", "rr"), With("consec", "2"), With("ltype", "txt")>>
RunRow == <<With("config", "cfg"), With("tqueue", "1"), Opt("inorder"), Opt("salloc"),
            With("tenantnum", "3"), With("iotlbrepl", "lru"), With("linkbwgbps", "200"), Opt("run")>>

\* A value too many, a number missing, an option given twice, two modes, none, a
\* number and a log type that are none.
Malformed ==
    {With("tenantnum", "3") \o <<[isopt |-> FALSE, text |-> "1"]>>,
     Opt("run") \o With("tenantnum", "3") \o Opt("tqueue") \o With("iotlbrepl", "lru"),
     Opt("build") \o With("tenantnum", "1") \o With("maxdevperlog", "1") \o With("tenantnum", "2"),
     Opt("run") \o With("tenantnum", "3") \o With("maxdevperlog", "1") \o Opt("build"),
     Opt("run") \o With("tenantnum", "3") \o With("iotlbrepl", "fifo") \o With("linkbwgbps", "fast"),
     Opt("build") \o With("tenantnum", "1") \o With("maxdevperlog", "1") \o With("ltype", "zip"),
     Opt("h"), <<>>}

\* The numbers main compares, divides by or loops to, at their limits.
Simulation(config, tqueue, tenantnum, gbps) ==
    Opt("run") \o With("config", config) \o With("tqueue", tqueue)
        \o With("tenantnum", tenantnum) \o With("iotlbrepl", "lfu") \o With("linkbwgbps", gbps)

Construction(tenantnum, order, consec, ltype) ==
    Opt("build") \o With("tenantnum", tenantnum) \o With("maxdevperlog", "1")
        \o With("order", order) \o With("consec", consec) \o With("ltype", ltype)

Limits ==
    {Simulation("none", "1", "3", "200")}
        \cup {Simulation("cfg", q, n, l) :
                   q \in {"0", "1"}, n \in {"65535", "65536"}, l \in {"0", "200", "12336", "20000"}}
        \cup {Construction(n, o, c, t) :
                   n \in {"0", "3"}, o \in {"orig", "rr", "rand", "zigzag"}, c \in {"0", "2"},
                   t \in {"txt", "bin"}}

AllChoices ==
    {Choose(BuildRow, S) : S \in SUBSET (DOMAIN BuildRow)}
        \cup {Choose(RunRow, S) : S \in SUBSET (DOMAIN RunRow)}
        \cup Malformed \cup Limits

StoulValues ==
    [t \in {"0", "1", "2", "3", "200", "12336", "20000", "65535", "65536"} |->
        CASE t = "0" -> 0 [] t = "1" -> 1 [] t = "2" -> 2 [] t = "3" -> 3 [] t = "200" -> 200
          [] t = "12336" -> 12336 [] t = "20000" -> 20000
          [] t = "65535" -> 65535 [] t = "65536" -> 65536]

\* The simulation that docs/hypersio_perf.md shows (:44-45), as
\* hypersio-perf-explore starts it; it adds --inorder or --salloc for other
\* architectures.
Documented ==
    {Opt("run") \o With("config", "cfg") \o With("prefix", "iperf3_tnt_3_rr3") \o With("tqueue", "1")
        \o flags \o With("tenants", "3") \o With("iotlbrepl", "lru") \o With("linkbwgbps", "200") :
        flags \in {<<>>, Opt("inorder"), Opt("salloc")}}
-----------------------------------------------------------------------------
\* The number after --tenants of the documented command
\* (docs/hypersio_perf.md:44-45) reaches main's tenant_num, of which the option's
\* documentation says that "the total number of tenants" is required: main reads
\* it from "tenantnum", and gets the value of the option it read before.
DocumentedTenants == pc = "run" /\ ~Reading => setting["tenantnum"] = Written("tenants")
=============================================================================

--------------------------- MODULE MCTraceBuilder ---------------------------
(***************************************************************************)
(* Small sets of log lines.  Domains stay below MAX_DOMAINS_PER_LOG, as in *)
(* the logs the number was chosen for.                                     *)
(***************************************************************************)
EXTENDS TraceBuilder

Line(t, dev, did, page) == [type |-> t, sid |-> 8 * (FIRST_DEV_ID + dev), did |-> did, page |-> page]

\* Two devices that share a page, and a context and a page table line of the
\* first after it moved to another domain, by which a log can hold more tenants
\* than asked for.
TwoDevices ==
    {Line("translate", 0, 1, 1), Line("translate", 0, 1, 2), Line("translate", 1, 2, 1),
     Line("cc", 0, 3, 0), Line("slpte", 0, 3, 0)}

\* The first and the 17th device of a log of 24.
FirstAndSeventeenth == {Line("cc", 0, 1, 0), Line("cc", 16, 17, 0), Line("translate", 0, 1, 1)}
=============================================================================

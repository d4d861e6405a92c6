----------------------------- MODULE MCSIOPerf -----------------------------
(***************************************************************************)
(* Small simulators.  Latencies keep their order in include/defines.h: a   *)
(* hit is 1 or 2, a memory access more, crossing PCIe more still, and the  *)
(* context cache miss is the longest.                                      *)
(***************************************************************************)
EXTENDS SIOPerf

Page(s, a, l) == [sid |-> s, did |-> s, iova |-> a, lvl |-> l, nat |-> 1]

\* Two tenants with a 4KB page each and the first with a 2MB page too.
SmallPages == {Page(0, 0, 1), Page(0, 4, 2), Page(1, 1, 1)}

\* Three tenants, one per selectively allocating cache.
ThreeTenants == {Page(0, 0, 1), Page(1, 0, 2), Page(2, 1, 1)}

\* One tenant with two 1GB pages.
HugePages == {Page(0, 0, 3), Page(0, 4, 3)}

OneEntry == [size |-> 1, assoc |-> 1, groups |-> 1]
TwoWays == [size |-> 2, assoc |-> 2, groups |-> 1]
TwoGroups == [size |-> 2, assoc |-> 1, groups |-> 2]
Prefetch1 == [size |-> 1, assoc |-> 1, histlen |-> 1]
=============================================================================

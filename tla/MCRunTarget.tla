----------------------------- MODULE MCRunTarget -----------------------------
(* RunTarget with two clusters, two Bastion types and two Bastions, one of *)
(* them without a safe name in one list; model values for all of them.     *)
EXTENDS RunTarget

CONSTANTS c1, c2, k1, k2, t1, t2, a0, a1, a2, b1, b2, b3

Mapping(patterns, b, a) == [patterns |-> patterns, bastion |-> b, ip |-> a]

\* Two overlapping mappings in either order; one for a single cluster, behind an
\* unsafe name.
MCMappingLists ==
    {<<Mapping({{c1}}, b1, a1), Mapping({{c1, c2}}, b2, a2)>>,
     <<Mapping({{c2}, {c1, c2}}, b2, a2), Mapping({{c1}}, b1, a1)>>,
     <<Mapping({{}, {c1}}, b3, a1)>>}

MCNodeRecords ==
    {[cluster |-> c1, kind |-> k1, ip |-> a0], [cluster |-> c2, kind |-> k2, ip |-> a0],
     [cluster |-> c2, kind |-> k1, ip |-> None]}

Request(by, host, config, t) ==
    [by |-> by, host |-> host, config |-> config, type |-> t]

MCRequests ==
    {Request("ip", a0, Fallback, None), Request("ip", a1, b1, None),
     Request("hostname", "node", Fallback, None), Request("hostname", "node", b2, None),
     Request("bastion", "node", Fallback, t2), Request("bastion", "node", b1, None),
     Request("cluster", c1, Fallback, None), Request("cluster", c2, b2, None)}

MCKindType == [k \in Kinds |-> IF k = k1 THEN t1 ELSE None]
MCSlashType == [c \in Clusters |-> IF c = c1 THEN t1 ELSE t2]
=============================================================================

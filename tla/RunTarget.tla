------------------------------ MODULE RunTarget ------------------------------
(***************************************************************************)
(* Where a run goes and as whom: from the request through the inventory    *)
(* and the whitelist to the address and the SSH config of its connection,  *)
(* and from its record to the connections that kills, traces and polls     *)
(* open later, from any pod (docs/adr/0002-bastion-scoped-ssh-config.md).  *)
(*                                                                         *)
(* One request. Requests share nothing but what they read: the inventory,  *)
(* the whitelist and the directory of SSH configs, all of which others     *)
(* change at any time.                                                     *)
(***************************************************************************)
EXTENDS Naturals, Sequences

CONSTANTS
    Clusters, Kinds,    \* cluster names; node types
    Types,              \* Bastion types
    Addresses,          \* of hosts
    Bastions, Safe,     \* Bastion names; those that are safe as a file name
    Requests,           \* requests to try
    NodeRecords,        \* what the inventory may say of the node
    MappingLists,       \* lists of Bastion mappings a type may have
    Whitelists,         \* sets of addresses a user may be allowed
    KindType,           \* BASTION_NODE_TYPE_MAP
    SlashType,          \* CLUSTER_SLASH_TYPE_MAP, applied to each cluster name
    None                \* where there is no value

Fallback == "default"
Names == Bastions \cup {Fallback}

\* A pattern is the set of cluster names it matches in full; what is no regular
\* expression matches none.
Mappings == [patterns : SUBSET SUBSET Clusters, bastion : Bastions, ip : Addresses]
AllRequests ==
    [by : {"ip"}, host : Addresses, config : Names, type : {None}]
        \cup [by : {"hostname", "bastion"}, host : {"node"}, config : Names,
              type : Types \cup {None}]
        \cup [by : {"cluster"}, host : Clusters, config : Names, type : {None}]

ASSUME NamesAssumption ==
    None \notin Addresses \cup Bastions \cup Types \cup (Addresses \X Names)
ASSUME InputsAssumption ==
    /\ Requests \subseteq AllRequests /\ Safe \subseteq Bastions
    /\ NodeRecords \subseteq [cluster : Clusters, kind : Kinds,
                              ip : Addresses \cup {None}]
    /\ \A list \in MappingLists : list \in Seq(Mappings)
    /\ \A allowed \in Whitelists : allowed \subseteq Addresses
    /\ KindType \in [Kinds -> Types \cup {None}]
    /\ SlashType \in [Clusters -> Types \cup {None}]

VARIABLES
    node, lists,       \* the inventory: the node, the mappings of each type
    files,             \* names with an SSH-<name>.json
    whitelist,         \* addresses the user's whitelist lets pass
    request, pc,       \* the request; how far it is
    allowed,           \* the whitelist as the request has read it
    ip, bastion,       \* ResolvedHost
    cluster, type,     \* the lookup of a Bastion under way
    name,              \* effective_ssh_config
    record,            \* what the run's state records of address and SSH config
    opened,            \* connections opened for the run, as <<ip, name>>
    status, entry,     \* the run's status; it is in the pool of the killing pod
    kill, saw,         \* how far a kill is; what its check went by
    moved              \* something the request reads has changed meanwhile

sources == <<node, lists, files, whitelist>>
launch == <<request, pc, allowed, ip, bastion, cluster, type, name>>
run == <<record, status, entry>>
killing == <<kill, saw>>
vars == <<sources, launch, run, opened, killing, moved>>

Places == {"start", "lookup", "mappings", "check", "load", "connect", "save",
           "launched", "failed"}
Preparing == pc \notin {"start", "launched", "failed"}

TypeOK ==
    /\ node \in NodeRecords \cup {None} /\ lists \in [Types -> MappingLists]
    /\ files \in SUBSET Names /\ whitelist \in Whitelists
    /\ request \in Requests /\ pc \in Places /\ allowed \in SUBSET Addresses
    /\ ip \in Addresses \cup {None} /\ bastion \in Bastions \cup {None}
    /\ cluster \in Clusters \cup {None} /\ type \in Types \cup {None}
    /\ name \in Names \cup {None}
    /\ Preparing /\ pc \notin {"lookup", "mappings"} => ip # None
    /\ record \in (Addresses \X Names) \cup {None}
    /\ opened \subseteq Addresses \X Names
    /\ status \in {"none", "running", "killing", "killed"} /\ entry \in BOOLEAN
    /\ kill \in {"none", "claim", "route", "reload", "refused", "raised", "done"}
    /\ saw \in {"none", "entry", "file", "missing"} /\ moved \in BOOLEAN

Init ==
    /\ node \in NodeRecords \cup {None} /\ lists \in [Types -> MappingLists]
    /\ files \in SUBSET Names /\ whitelist \in Whitelists
    /\ request \in Requests /\ pc = "start" /\ allowed = {}
    /\ ip = None /\ bastion = None /\ cluster = None /\ type = None
    /\ name = None /\ record = None /\ opened = {}
    /\ status = "none" /\ entry = FALSE /\ kill = "none" /\ saw = "none"
    /\ moved = FALSE

---------------------------------------------------------------------------
(* The launch: _prepare_execution, _connect and the first save.            *)

Goto(place) == pc' = place

Fails ==
    /\ pc \notin {"launched", "failed"} /\ Goto("failed")
    /\ UNCHANGED <<sources, request, allowed, ip, bastion, cluster, type, name,
                   run, opened, killing, moved>>

\* Which mappings to look through, and for which cluster. A type that is not
\* configured fails the request.
LookThrough(t, c) ==
    IF t = None THEN Goto("failed") /\ UNCHANGED <<cluster, type>>
                ELSE Goto("mappings") /\ cluster' = c /\ type' = t

\* The whitelist is read first, then the host is resolved by its type.
Start ==
    /\ pc = "start"
    /\ allowed' = whitelist
    /\ \/ request.by = "ip" /\ Goto("check") /\ ip' = request.host
          /\ UNCHANGED <<cluster, type>>
       \/ request.by \in {"hostname", "bastion"} /\ Goto("lookup")
          /\ UNCHANGED <<ip, cluster, type>>
       \/ request.by = "cluster"
          /\ LookThrough(SlashType[request.host], request.host) /\ ip' = ip
    /\ UNCHANGED <<sources, request, bastion, name, run, opened, killing, moved>>

PickType == IF request.type # None THEN request.type ELSE KindType[node.kind]

\* Variant: a missing IP label is not noticed.
LookupUnlabelled ==
    /\ pc = "lookup" /\ node # None
    /\ \/ request.by = "hostname" /\ ip' = node.ip
          /\ IF request.config = Fallback
             THEN LookThrough(PickType, node.cluster)
             ELSE Goto("check") /\ UNCHANGED <<cluster, type>>
       \/ request.by = "bastion" /\ ip' = ip
          /\ LookThrough(PickType, node.cluster)
    /\ UNCHANGED <<sources, request, allowed, bastion, name, run, opened, killing,
                   moved>>

\* lookup_by_name has answered. An unknown node and a missing label are Fails.
\* The Bastion of a hostname is looked for only if it chooses the config.
Lookup ==
    /\ pc = "lookup" /\ node # None
    /\ \/ request.by = "hostname" /\ node.ip # None /\ ip' = node.ip
          /\ IF request.config = Fallback
             THEN LookThrough(PickType, node.cluster)
             ELSE Goto("check") /\ UNCHANGED <<cluster, type>>
       \/ request.by = "bastion" /\ ip' = ip
          /\ LookThrough(PickType, node.cluster)
    /\ UNCHANGED <<sources, request, allowed, bastion, name, run, opened, killing,
                   moved>>

Matches(mapping, c) == \E pattern \in mapping.patterns : c \in pattern

\* Variant: the last mapping that matches wins.
MatchesLast(list, c) ==
    {i \in DOMAIN list :
        Matches(list[i], c) /\ \A j \in (i + 1)..Len(list) : ~Matches(list[j], c)}

\* match_bastion: the first mapping with a pattern that matches, if any.
MatchBastion(list, c) ==
    {i \in DOMAIN list :
        Matches(list[i], c) /\ \A j \in 1..(i - 1) : ~Matches(list[j], c)}

\* list_mappings has answered. No match is Fails.
ListMappings ==
    /\ pc = "mappings"
    /\ \E i \in MatchBastion(lists[type], cluster) :
           /\ bastion' = lists[type][i].bastion
           /\ ip' = IF request.by = "hostname" THEN ip ELSE lists[type][i].ip
    /\ Goto("check")
    /\ UNCHANGED <<sources, request, allowed, cluster, type, name, run, opened,
                   killing, moved>>

\* select_ssh_config, for an address that may be used. A name that is no file
\* name fails the request.
Select(requested, b) ==
    IF requested # Fallback \/ b = None THEN {requested}
    ELSE IF b \notin Safe THEN {}
    ELSE IF b \in files THEN {b} ELSE {Fallback}

\* Variant: addresses are matched only where the caller gives one.
CheckGivenOnly ==
    /\ pc = "check" /\ (request.by = "ip" => ip \in allowed)
    /\ name' \in Select(request.config, bastion)
    /\ Goto("load")
    /\ UNCHANGED <<sources, request, allowed, ip, bastion, cluster, type, run,
                   opened, killing, moved>>

\* The rest of _prepare_execution up to the loading of the config. What else it
\* refuses (hosts, commands, arguments) is Fails.
Check ==
    /\ pc = "check" /\ ip \in allowed
    /\ name' \in Select(request.config, bastion)
    /\ Goto("load")
    /\ UNCHANGED <<sources, request, allowed, ip, bastion, cluster, type, run,
                   opened, killing, moved>>

\* _load_ssh_config: the file named, or an error (Fails). Whoever provisions the
\* configs may have come between the test for the file and its use.
LoadConfig ==
    /\ pc = "load" /\ name \in files /\ Goto("connect")
    /\ UNCHANGED <<sources, request, allowed, ip, bastion, cluster, type, name, run,
                   opened, killing, moved>>

Open(address, config) == opened' = opened \cup {<<address, config>>}

Connect ==
    /\ pc = "connect" /\ Open(ip, name) /\ Goto("save")
    /\ UNCHANGED <<sources, request, allowed, ip, bastion, cluster, type, name, run,
                   killing, moved>>

\* pool_add and repo.save. The killing pod may be another one (EntryGoes).
Save ==
    /\ pc = "save" /\ Goto("launched")
    /\ record' = <<ip, name>> /\ status' = "running" /\ entry' = TRUE
    /\ UNCHANGED <<sources, request, allowed, ip, bastion, cluster, type, name,
                   opened, killing, moved>>

---------------------------------------------------------------------------
(* Afterwards: traces, polls and a kill.                                   *)

\* Variant: a reconnect selects the config again.
ReconnectReselects ==
    /\ record # None
    /\ \E config \in Select(request.config, bastion) :
           config \in files /\ Open(record[1], config)
    /\ UNCHANGED <<sources, launch, run, killing, moved>>

\* A trace or a poll loads the config of the record, whatever it is now.
Reconnect ==
    /\ record # None
    /\ record[2] \in files /\ Open(record[1], record[2])
    /\ UNCHANGED <<sources, launch, run, killing, moved>>

EntryGoes ==
    /\ entry /\ entry' = FALSE
    /\ UNCHANGED <<sources, launch, record, status, opened, killing, moved>>

\* Variant: the config is not looked at before the claim.
KillCheckLater ==
    /\ kill = "none" /\ record # None
    /\ saw' = IF entry THEN "entry" ELSE IF record[2] \in files THEN "file" ELSE "missing"
    /\ kill' = "claim"
    /\ UNCHANGED <<sources, launch, run, opened, moved>>

\* Step 0b of kill_command: without a local connection the recorded config must
\* be there, or the kill is refused.
KillCheck ==
    /\ kill = "none" /\ record # None
    /\ saw' = IF entry THEN "entry" ELSE IF record[2] \in files THEN "file" ELSE "missing"
    /\ kill' = IF saw' = "missing" THEN "refused" ELSE "claim"
    /\ UNCHANGED <<sources, launch, run, opened, moved>>

Claim ==
    /\ kill = "claim" /\ kill' = "route" /\ status' = "killing"
    /\ UNCHANGED <<sources, launch, record, entry, opened, saw, moved>>

\* By the local connection; without a connection, as long as no PGID is known; or
\* by a connection of its own.
KillRoute ==
    /\ kill = "route"
    /\ \/ kill' = "done" /\ status' = "killed"
       \/ ~entry /\ kill' = "reload" /\ status' = status
    /\ UNCHANGED <<sources, launch, record, entry, opened, saw, moved>>

\* The config is loaded again, by the same name; its error leaves the kill. A
\* connection that fails is logged, and the status stays KILLING.
KillConnect ==
    /\ kill = "reload"
    /\ \/ record[2] \notin files /\ kill' = "raised" /\ UNCHANGED <<status, opened>>
       \/ record[2] \in files /\ kill' = "done" /\ status' = status /\ opened' = opened
       \/ record[2] \in files /\ kill' = "done" /\ status' = "killed"
          /\ Open(record[1], record[2])
    /\ UNCHANGED <<sources, launch, record, entry, saw, moved>>

---------------------------------------------------------------------------
(* Others: the inventory, who writes the whitelists and the SSH configs.   *)

Changes ==
    /\ \/ node' \in NodeRecords \cup {None} /\ UNCHANGED <<lists, files, whitelist>>
       \/ \E t \in Types, list \in MappingLists : lists' = [lists EXCEPT ![t] = list]
          /\ UNCHANGED <<node, files, whitelist>>
       \/ \E n \in Names : files' \in {files \cup {n}, files \ {n}}
          /\ UNCHANGED <<node, lists, whitelist>>
       \/ whitelist' \in Whitelists /\ UNCHANGED <<node, lists, files>>
    /\ moved' = Preparing
    /\ UNCHANGED <<launch, run, opened, killing>>

Launch ==
    \/ Start \/ Lookup \/ ListMappings \/ Check \/ LoadConfig \/ Connect \/ Save
    \/ Fails

Next ==
    \/ Launch \/ Reconnect \/ EntryGoes
    \/ KillCheck \/ Claim \/ KillRoute \/ KillConnect
    \/ Changes

Spec == Init /\ [][Next]_vars

---------------------------------------------------------------------------
(* Properties that hold.                                                   *)

\* Whatever becomes of the inventory and the configs, and from whichever pod: all
\* connections of a run go to one address with one SSH config (ADR 0002).
OneIdentity == \A x, y \in opened : x = y

\* Every connection of a run, the launch's and later ones, goes to an address the
\* whitelist let pass when the request came in, however the host was named.
TargetAllowed == \A x \in opened : x[1] \in allowed

\* The mapping that fronts cluster c: it has a pattern for c, and every mapping
\* before it has none.
Fronts(i, t, c) ==
    /\ i \in DOMAIN lists[t]
    /\ c \in UNION lists[t][i].patterns
    /\ \A j \in DOMAIN lists[t] : j < i => c \notin UNION lists[t][j].patterns

\* The right Bastion of the request, if it needs one.
NeedsBastion ==
    \/ request.by \in {"bastion", "cluster"}
    \/ request.by = "hostname" /\ request.config = Fallback

RightBastion(i) ==
    IF request.by = "cluster" THEN Fronts(i, SlashType[request.host], request.host)
    ELSE Fronts(i, PickType, node.cluster)
RightType == IF request.by = "cluster" THEN SlashType[request.host] ELSE PickType

\* As long as nothing changes, a request connects to the address its inventory
\* means, with the config it names or that of the Bastion in front of it; the
\* fallback is for Bastions without a config and for plain addresses. Where a
\* Bastion is needed and none is found, there is no connection at all.
RightWhenQuiet ==
    pc \in {"connect", "save"} /\ ~moved =>
        /\ request.by = "ip" => ip = request.host /\ name = request.config
        /\ request.by = "hostname" => ip = node.ip
        /\ request.config # Fallback => name = request.config
        /\ NeedsBastion =>
               \E i \in DOMAIN lists[RightType] :
                   LET mapping == lists[RightType][i] IN
                   /\ RightBastion(i)
                   /\ request.by # "hostname" => ip = mapping.ip
                   /\ request.config = Fallback =>
                          name = IF mapping.bastion \in files THEN mapping.bastion
                                                              ELSE Fallback

\* A kill that is refused for want of the config has not touched the run; one
\* that ends with the run in KILLING went by a local connection, or by a config
\* that was there at its check.
RefusedBeforeClaim ==
    /\ kill = "refused" => status = "running"
    /\ kill \in {"raised", "done"} /\ status = "killing" => saw \in {"entry", "file"}

=============================================================================

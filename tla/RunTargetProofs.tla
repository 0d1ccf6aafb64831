--------------------------- MODULE RunTargetProofs ---------------------------
(***************************************************************************)
(* Theorems about RunTarget for any inventory, whitelists and requests.    *)
(* The invariant follows the launch: what each step has settled (Settled), *)
(* what it has read as long as nothing changed (ReadRight), and how the    *)
(* record, the connections and a kill hang together (Recorded, KillPlace). *)
(***************************************************************************)
EXTENDS RunTarget, TLAPS

\* Address and config, once chosen, are those of every connection and of the
\* record; the address has passed the whitelist.
Settled ==
    /\ pc \in {"start", "lookup", "mappings", "check", "load", "connect"} =>
           opened = {} /\ record = None
    /\ pc \in {"load", "connect", "save", "launched"} =>
           ip \in allowed /\ name \in Names
    /\ pc \in {"save", "failed", "launched"} =>
           \A x \in opened : x = <<ip, name>> /\ x[1] \in allowed

Recorded ==
    /\ record # None => pc = "launched" /\ record = <<ip, name>>
    /\ pc = "launched" => record # None

KillPlace ==
    /\ kill # "none" => record # None
    /\ record # None /\ kill \in {"none", "refused", "claim"} => status = "running"
    /\ kill \notin {"none", "refused"} => saw \in {"entry", "file"}

\* What a launch has read, while nothing it reads has changed.
RightCluster == IF request.by = "cluster" THEN request.host ELSE node.cluster

ReadRight ==
    /\ pc = "lookup" => request.by \in {"hostname", "bastion"}
    /\ pc \in {"start", "lookup", "mappings"} => bastion = None
    /\ pc = "mappings" => type # None /\ (request.by = "hostname" => ip # None)
    /\ pc = "mappings" /\ ~moved =>
           /\ NeedsBastion /\ type = RightType /\ cluster = RightCluster
           /\ request.by = "hostname" => ip = node.ip
    /\ pc \in {"check", "load", "connect", "save"} /\ ~moved =>
           /\ request.by = "ip" => ip = request.host
           /\ request.by = "hostname" => ip = node.ip
           /\ ~NeedsBastion => bastion = None
           /\ NeedsBastion =>
                  \E i \in DOMAIN lists[RightType] :
                      /\ RightBastion(i) /\ bastion = lists[RightType][i].bastion
                      /\ bastion # None
                      /\ request.by # "hostname" => ip = lists[RightType][i].ip
    /\ pc \in {"load", "connect", "save"} /\ ~moved =>
           name \in Select(request.config, bastion)

TargetInv == TypeOK /\ Settled /\ Recorded /\ KillPlace /\ ReadRight

---------------------------------------------------------------------------
(* The inputs, and what a scan of the mappings finds.                      *)

LEMMA RequestShape ==
    ASSUME TypeOK
    PROVE  /\ request.config \in Names /\ request.type \in Types \cup {None}
           /\ request.by \in {"ip", "hostname", "bastion", "cluster"}
           /\ request.by = "ip" => request.host \in Addresses /\ request.host # None
           /\ request.by = "cluster" => request.host \in Clusters
  BY InputsAssumption, NamesAssumption DEF TypeOK, AllRequests

LEMMA NodeShape ==
    ASSUME TypeOK, node # None
    PROVE  node.cluster \in Clusters /\ node.ip \in Addresses \cup {None}
           /\ PickType \in Types \cup {None}
  BY InputsAssumption, RequestShape DEF TypeOK, PickType

LEMMA MatchFronts ==
    ASSUME TypeOK, NEW t \in Types, NEW c, NEW i \in MatchBastion(lists[t], c)
    PROVE  /\ Fronts(i, t, c) /\ i \in DOMAIN lists[t]
           /\ lists[t][i].bastion \in Bastions /\ lists[t][i].bastion # None
           /\ lists[t][i].ip \in Addresses /\ lists[t][i].ip # None
  <1>1. lists[t] \in Seq(Mappings)
    BY InputsAssumption DEF TypeOK
  <1>2. i \in 1..Len(lists[t]) /\ DOMAIN lists[t] = 1..Len(lists[t])
    BY <1>1 DEF MatchBastion
  <1>3. lists[t][i] \in Mappings
    BY <1>1, <1>2
  <1>4. \A j \in DOMAIN lists[t] :
            Matches(lists[t][j], c) <=> c \in UNION lists[t][j].patterns
    BY DEF Matches
  <1>5. Fronts(i, t, c)
    BY <1>2, <1>4 DEF MatchBastion, Fronts
  <1> QED
    BY <1>2, <1>3, <1>5, NamesAssumption DEF Mappings

LEMMA SelectsName == TypeOK => Select(request.config, bastion) \subseteq Names
  BY RequestShape DEF Select, Names, TypeOK

---------------------------------------------------------------------------
(* Typing.                                                                 *)

LEMMA TargetTypeStep == ASSUME TargetInv, [Next]_vars PROVE TypeOK'
  <1> USE DEF TargetInv, TypeOK, Places, Preparing, Goto
  <1>1. CASE Start
    <2>1. SlashType[request.host] \in Types \cup {None} \/ request.by # "cluster"
      BY InputsAssumption, RequestShape
    <2>2. whitelist \in SUBSET Addresses
      BY InputsAssumption
    <2> QED
      BY <1>1, <2>1, <2>2, RequestShape DEF Start, LookThrough, sources, run, killing
  <1>2. CASE Lookup
    BY <1>2, NodeShape DEF Lookup, LookThrough, sources, run, killing
  <1>3. CASE ListMappings
    <2>1. PICK i \in MatchBastion(lists[type], cluster) :
              /\ bastion' = lists[type][i].bastion
              /\ ip' = IF request.by = "hostname" THEN ip ELSE lists[type][i].ip
      BY <1>3 DEF ListMappings
    <2>2. CASE type \in Types
      <3>1. bastion' \in Bastions /\ (request.by # "hostname" => ip' \in Addresses /\ ip' # None)
        BY <2>1, <2>2, MatchFronts
      <3>2. request.by = "hostname" => ip # None
        BY <1>3 DEF ListMappings, ReadRight
      <3> QED
        BY <1>3, <2>1, <3>1, <3>2 DEF ListMappings, sources, run, killing
    <2> QED
      BY <1>3, <2>2 DEF ListMappings, ReadRight
  <1>4. CASE Check
    BY <1>4, SelectsName DEF Check, sources, run, killing
  <1>5. CASE LoadConfig \/ Connect \/ Save \/ Fails
    <2> USE DEF sources, run, killing
    <2>1. CASE LoadConfig
      BY <2>1 DEF LoadConfig
    <2>2. CASE Connect
      <3>1. <<ip, name>> \in Addresses \X Names
        BY <2>2 DEF Connect, Settled
      <3> QED
        BY <2>2, <3>1 DEF Connect, Open
    <2>3. CASE Save
      <3>1. <<ip, name>> \in Addresses \X Names
        BY <2>3 DEF Save, Settled
      <3> QED
        BY <2>3, <3>1 DEF Save
    <2>4. CASE Fails
      BY <2>4 DEF Fails
    <2> QED
      BY <1>5, <2>1, <2>2, <2>3, <2>4
  <1>6. CASE Reconnect \/ EntryGoes \/ KillCheck \/ Claim \/ KillRoute \/ KillConnect
    <2> USE DEF sources, launch, run, killing
    <2>1. kill \notin {"none", "refused"} \/ record # None =>
              <<record[1], record[2]>> \in Addresses \X Names
      BY DEF KillPlace, Recorded
    <2>2. CASE Reconnect
      BY <2>1, <2>2 DEF Reconnect, Open
    <2>3. CASE EntryGoes \/ Claim \/ KillRoute
      <3>1. UNCHANGED <<sources, launch, record, opened, saw, moved>>
        BY <2>3 DEF EntryGoes, Claim, KillRoute
      <3>2. /\ status' \in {"none", "running", "killing", "killed"} /\ entry' \in BOOLEAN
            /\ kill' \in {"none", "claim", "route", "reload", "refused", "raised", "done"}
        BY <2>3 DEF EntryGoes, Claim, KillRoute
      <3> QED
        BY <3>1, <3>2
    <2>4. CASE KillCheck
      BY <2>4 DEF KillCheck
    <2>5. CASE KillConnect
      BY <2>1, <2>5 DEF KillConnect, Open
    <2> QED
      BY <1>6, <2>2, <2>3, <2>4, <2>5
  <1>7. CASE Changes
    BY <1>7 DEF Changes, launch, run, killing
  <1>8. CASE UNCHANGED vars
    BY <1>8 DEF vars, sources, launch, run, killing
  <1> QED
    BY <1>1, <1>2, <1>3, <1>4, <1>5, <1>6, <1>7, <1>8 DEF Next, Launch

---------------------------------------------------------------------------
(* What a launch settles, and what comes after it.                         *)

LEMMA SettledStep ==
    ASSUME TargetInv, [Next]_vars PROVE Settled' /\ Recorded' /\ KillPlace'
  <1> USE DEF TargetInv, Settled, Recorded, KillPlace, Goto
  <1>1. CASE Start \/ Lookup \/ ListMappings
    BY <1>1 DEF Start, Lookup, ListMappings, LookThrough, run, killing
  <1>2. CASE Check
    BY <1>2, SelectsName DEF Check, run, killing
  <1>3. CASE LoadConfig \/ Fails
    <2>1. pc' = "failed" => \A x \in opened : x = <<ip, name>> /\ x[1] \in allowed
      BY <1>3 DEF LoadConfig, Fails, TypeOK, Places
    <2>2. record = None
      BY <1>3, NamesAssumption DEF LoadConfig, Fails
    <2> QED
      BY <1>3, <2>1, <2>2 DEF LoadConfig, Fails, run, killing
  <1>4. CASE Connect
    BY <1>4 DEF Connect, Open, run, killing
  <1>5. CASE Save
    <2>1. <<ip, name>> \in Addresses \X Names /\ ip \in allowed
      BY <1>5 DEF Save, TypeOK, Preparing
    <2>2. <<ip, name>> # None
      BY <2>1, NamesAssumption
    <2>3. kill = "none"
      BY <1>5 DEF Save
    <2> QED
      BY <1>5, <2>1, <2>2, <2>3 DEF Save, killing
  <1>6. CASE Reconnect
    <2>1. record[1] = ip /\ record[2] = name
      BY <1>6 DEF Reconnect
    <2> QED
      BY <1>6, <2>1 DEF Reconnect, Open, launch, run, killing
  <1>7. CASE EntryGoes \/ Claim \/ KillRoute
    BY <1>7 DEF EntryGoes, Claim, KillRoute, launch, killing
  <1>8. CASE KillCheck
    BY <1>8 DEF KillCheck, launch, run
  <1>9. CASE KillConnect
    <2>1. record # None /\ record[1] = ip /\ record[2] = name
      BY <1>9 DEF KillConnect
    <2> QED
      BY <1>9, <2>1 DEF KillConnect, Open, launch
  <1>10. CASE Changes \/ UNCHANGED vars
    BY <1>10 DEF Changes, vars, launch, run, killing
  <1> QED
    BY <1>1, <1>2, <1>3, <1>4, <1>5, <1>6, <1>7, <1>8, <1>9, <1>10 DEF Next, Launch

LEMMA ReadRightStep == ASSUME TargetInv, [Next]_vars PROVE ReadRight'
  <1> USE DEF TargetInv, ReadRight, Goto
  <1>0. ASSUME UNCHANGED <<sources, request, pc, ip, bastion, cluster, type, name, moved>>
        PROVE  ReadRight'
    BY <1>0 DEF sources, NeedsBastion, RightType, RightCluster, RightBastion, PickType,
       Fronts, Select
  <1>1. CASE Start
    BY <1>1, RequestShape DEF Start, LookThrough, sources, NeedsBastion, RightType,
       RightCluster
  <1>2. CASE Lookup
    BY <1>2, RequestShape DEF Lookup, LookThrough, sources, NeedsBastion, RightType,
       RightCluster, PickType
  <1>3. CASE ListMappings
    <2>1. PICK i \in MatchBastion(lists[type], cluster) :
              /\ bastion' = lists[type][i].bastion
              /\ ip' = IF request.by = "hostname" THEN ip ELSE lists[type][i].ip
      BY <1>3 DEF ListMappings
    <2>2. /\ Fronts(i, type, cluster) /\ i \in DOMAIN lists[type]
          /\ lists[type][i].bastion # None
      BY <1>3, MatchFronts DEF ListMappings, TypeOK
    <2>3. ~moved => RightBastion(i) /\ type = RightType /\ NeedsBastion
      BY <1>3, <2>2 DEF ListMappings, RightBastion, RightType, RightCluster
    <2>4. UNCHANGED <<sources, request, moved>> /\ pc' = "check"
      BY <1>3 DEF ListMappings
    <2>5. /\ RightType' = RightType /\ (NeedsBastion' <=> NeedsBastion)
          /\ \A j : RightBastion(j)' <=> RightBastion(j)
      BY <2>4 DEF sources, RightType, RightBastion, NeedsBastion, PickType, Fronts
    <2>6. request.by = "ip" => moved
      BY <2>3 DEF NeedsBastion
    <2> QED
      BY <1>3, <2>1, <2>2, <2>3, <2>4, <2>5, <2>6 DEF sources, ListMappings
  <1>4. ASSUME UNCHANGED <<sources, request, ip, bastion, cluster, type, moved>>,
               pc \in {"check", "load", "connect"},
               pc' \in {"load", "connect", "save"},
               name' \in Select(request.config, bastion) \/ (pc # "check" /\ name' = name)
        PROVE  ReadRight'
    <2>1. Select(request.config, bastion)' = Select(request.config, bastion)
      BY <1>4 DEF Select, sources
    <2>2. /\ RightType' = RightType /\ (NeedsBastion' <=> NeedsBastion)
          /\ \A j : RightBastion(j)' <=> RightBastion(j)
      BY <1>4 DEF sources, RightType, RightBastion, NeedsBastion, PickType, Fronts
    <2> QED
      BY <1>4, <2>1, <2>2 DEF sources
  <1>5. CASE Check \/ LoadConfig \/ Connect
    BY <1>4, <1>5 DEF Check, LoadConfig, Connect
  <1>6. CASE Save \/ Fails
    BY <1>6 DEF Save, Fails
  <1>7. CASE Reconnect \/ EntryGoes \/ KillCheck \/ Claim \/ KillRoute \/ KillConnect
    BY <1>0, <1>7 DEF Reconnect, EntryGoes, KillCheck, Claim, KillRoute, KillConnect,
       launch
  <1>8. CASE Changes
    BY <1>8 DEF Changes, launch, Preparing
  <1>9. CASE UNCHANGED vars
    BY <1>0, <1>9 DEF vars, launch
  <1> QED
    BY <1>1, <1>2, <1>3, <1>5, <1>6, <1>7, <1>8, <1>9 DEF Next, Launch

LEMMA TargetInvariant == Spec => []TargetInv
  <1>1. Init => TargetInv
    BY InputsAssumption DEF Init, TargetInv, TypeOK, Places, Preparing, Settled, Recorded,
       KillPlace, ReadRight
  <1>2. TargetInv /\ [Next]_vars => TargetInv'
    BY TargetTypeStep, SettledStep, ReadRightStep DEF TargetInv
  <1> QED
    BY <1>1, <1>2, PTL DEF Spec

---------------------------------------------------------------------------
(* The theorems.                                                           *)

\* Typing; an address is known from the moment it is checked.
THEOREM TargetTypeCorrect == Spec => []TypeOK
  <1>1. TargetInv => TypeOK
    BY DEF TargetInv
  <1> QED
    BY <1>1, TargetInvariant, PTL

\* A run is itself on every connection, from any pod, for its whole life.
THEOREM IdentityKept == Spec => []OneIdentity
  <1>1. TargetInv => OneIdentity
    BY DEF TargetInv, TypeOK, Places, Settled, OneIdentity
  <1> QED
    BY <1>1, TargetInvariant, PTL

\* No connection goes around the whitelist.
THEOREM TargetsAllowed == Spec => []TargetAllowed
  <1>1. TargetInv => TargetAllowed
    BY DEF TargetInv, TypeOK, Places, Settled, TargetAllowed
  <1> QED
    BY <1>1, TargetInvariant, PTL

\* Nothing but a change under way makes a request go to the wrong host, or as
\* somebody else.
THEOREM QuietIsRight == Spec => []RightWhenQuiet
  <1>1. TargetInv => RightWhenQuiet
    <2> SUFFICES ASSUME TargetInv, pc \in {"connect", "save"}, ~moved PROVE RightWhenQuiet
      BY DEF RightWhenQuiet
    <2>1. name \in Select(request.config, bastion)
      BY DEF TargetInv, ReadRight
    <2>2. request.config # Fallback => name = request.config
      BY <2>1 DEF Select
    <2>3. request.by = "ip" => ip = request.host /\ name = request.config
      BY <2>1 DEF TargetInv, ReadRight, Select, NeedsBastion
    <2>4. request.by = "hostname" => ip = node.ip
      BY DEF TargetInv, ReadRight
    <2>5. ASSUME NeedsBastion
          PROVE  \E i \in DOMAIN lists[RightType] :
                   LET mapping == lists[RightType][i] IN
                   /\ RightBastion(i)
                   /\ request.by # "hostname" => ip = mapping.ip
                   /\ request.config = Fallback =>
                          name = IF mapping.bastion \in files THEN mapping.bastion
                                                              ELSE Fallback
      <3>1. PICK i \in DOMAIN lists[RightType] :
                /\ RightBastion(i) /\ bastion = lists[RightType][i].bastion
                /\ bastion # None
                /\ request.by # "hostname" => ip = lists[RightType][i].ip
        BY <2>5 DEF TargetInv, ReadRight
      <3> QED
        BY <2>1, <3>1 DEF Select
    <2> QED
      BY <2>2, <2>3, <2>4, <2>5 DEF RightWhenQuiet
  <1> QED
    BY <1>1, TargetInvariant, PTL

\* A kill refused for want of the config comes before the claim.
THEOREM RefusalsClaimNothing == Spec => []RefusedBeforeClaim
  <1>1. TargetInv => RefusedBeforeClaim
    BY DEF TargetInv, KillPlace, RefusedBeforeClaim
  <1> QED
    BY <1>1, TargetInvariant, PTL

==============================================================================

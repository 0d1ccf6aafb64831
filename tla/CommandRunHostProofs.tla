------------------------ MODULE CommandRunHostProofs ------------------------
(* CommandRun and its remote processes: what is done to them is what       *)
(* RemoteHost lets happen to process groups, each party doing its part.    *)
EXTENDS CommandRunProofs

---------------------------------------------------------------------------
(* A PGID known to anybody (the task, its entry, the record, a copy of it, *)
(* a kill under way) is that of a process created, and a kill that waits   *)
(* for a group to die, or is about to use SIGKILL, has sent it SIGTERM.    *)

Exist(known) == known \subseteq 1..spawned

GroupsKnown ==
    /\ \A s \in StepIds : grp[s] = "none" <=> s > spawned
    /\ Exist(seen) /\ Exist(pgids) /\ Exist(rec.pgids)
    /\ \A w \in Writers : Exist(snap[w].pgids)
    /\ \A k \in Killers : Exist(kleft[k])

TermedFirst ==
    \A k \in Killers : kpc[k] \in {"grace", "hard"} =>
        \A s \in StepIds : Turn(k, s) => s \in termed

HostInv == GroupsKnown /\ TermedFirst

LEMMA InitHost == Init => HostInv
  BY StepsAssumption
     DEF Init, HostInv, GroupsKnown, Exist, TermedFirst, NoRecord, StepIds

\* Knowledge that is passed on is still knowledge of processes created.
LEMMA KnowledgeStays ==
    ASSUME Typed, GroupsKnown, spawned' = spawned,
           \A s \in StepIds : grp'[s] = "none" <=> grp[s] = "none",
           seen' \in {seen, seen \cup {spawned}}, spawned \in StepIds \/ seen' = seen,
           pgids' \in {pgids, seen'},
           rec'.pgids \in {{}, rec.pgids, pgids} \cup {snap[w].pgids : w \in Writers},
           \A w \in Writers : snap'[w] \in {snap[w], rec, NoRecord},
           \A k \in Killers : \/ kleft'[k] \subseteq kleft[k]
                               \/ kleft'[k] \in {pgids, rec.pgids}
    PROVE  GroupsKnown'
  <1>1. Exist(seen)' /\ Exist(pgids)'
    <2>1. spawned \in StepIds => spawned \in 1..spawned
      BY StepsAssumption DEF StepIds
    <2>2. Exist(seen) /\ Exist(pgids)
      BY DEF GroupsKnown
    <2>3. seen' \subseteq 1..spawned
      BY <2>1, <2>2 DEF Exist
    <2>4. pgids' \subseteq 1..spawned
      BY <2>2, <2>3 DEF Exist
    <2> QED
      BY <2>3, <2>4 DEF Exist
  <1>k. \A known : Exist(known) => known \subseteq 1..spawned'
    BY DEF Exist
  <1>2. /\ rec'.pgids \subseteq 1..spawned'
        /\ \A w \in Writers : snap'[w].pgids \subseteq 1..spawned'
    <2>1. rec'.pgids \subseteq 1..spawned'
      BY <1>k DEF GroupsKnown
    <2>2. ASSUME NEW w \in Writers PROVE snap'[w].pgids \subseteq 1..spawned'
      <3>1. snap'[w].pgids \in {snap[w].pgids, rec.pgids, {}}
        BY DEF NoRecord
      <3> QED
        BY <1>k, <3>1 DEF GroupsKnown
    <2> QED
      BY <2>1, <2>2
  <1>3. \A k \in Killers : kleft'[k] \subseteq 1..spawned'
    BY <1>k DEF GroupsKnown
  <1> QED
    BY <1>1, <1>2, <1>3 DEF GroupsKnown, Exist

\* A kill that is moved by nobody, or ended or started from outside.
LEMMA TermedStays ==
    ASSUME TermedFirst, termed \subseteq termed', kleft' = kleft,
           \A k \in Killers : kpc'[k] \in {kpc[k], "guard", "end"}
    PROVE  TermedFirst'
  BY DEF TermedFirst, Turn

LEMMA TaskStepHost ==
    ASSUME Typed, HostInv, TaskStep \/ LaunchFails \/ TaskRaises \/ ConnectionLost
    PROVE  HostInv'
  <1>w. Task \in Writers /\ kpc \in [Killers -> KillStates] /\ snap \in [Writers -> Record]
    BY DEF Writers, Typed, TypeOK
  <1>k. kleft' = kleft /\ termed' = termed
    BY DEF TaskStep, LaunchSave, AcquireSlot, CreateProcess, ReadHandshake,
       WaitEarlierSteps, PgidsGet, PgidsSave, CollectOutput, Backfill, StoreGet, StoreSave,
       Close, TimeoutFires, TimeoutDone, LaunchFails, TaskRaises, ConnectionLost,
       elsewhere, killVars, remoteVars
  <1>1. TermedFirst'
    <2>1. \A k \in Killers : kpc'[k] \in {kpc[k], "guard", "end"}
      BY <1>w
         DEF TaskStep, LaunchSave, AcquireSlot, CreateProcess, ReadHandshake,
         WaitEarlierSteps, PgidsGet, PgidsSave, CollectOutput, Backfill, StoreGet,
         StoreSave, Close, TimeoutFires, TimeoutDone, LaunchFails, TaskRaises,
         ConnectionLost, elsewhere, killVars
    <2> QED
      BY <1>k, <2>1, TermedStays DEF HostInv
  <1>2. CASE CreateProcess
    <2>t. grp \in [StepIds -> {"none", "alive", "left", "gone"}] /\ spawned \in 0..Steps
      BY DEF Typed, TypeOK
    <2>1. /\ spawned' = spawned + 1 /\ spawned + 1 \in StepIds
          /\ grp' = [grp EXCEPT ![spawned + 1] = "alive"]
          /\ UNCHANGED <<seen, pgids, rec, snap>>
      BY <1>2, <2>t, StepsAssumption DEF CreateProcess, StepIds
    <2>2. \A s \in StepIds : grp'[s] = "none" <=> s > spawned'
      BY <2>t, <2>1, StepsAssumption DEF HostInv, GroupsKnown, StepIds
    <2>3. \A known : Exist(known) => known \subseteq 1..spawned'
      BY <2>t, <2>1 DEF Exist
    <2> QED
      BY <1>1, <1>k, <2>1, <2>2, <2>3 DEF HostInv, GroupsKnown, Exist
  <1>3. CASE ~CreateProcess
    <2>1. UNCHANGED <<spawned, grp>>
      BY <1>3
         DEF TaskStep, LaunchSave, AcquireSlot, ReadHandshake,
         WaitEarlierSteps, PgidsGet, PgidsSave, CollectOutput, Backfill, StoreGet,
         StoreSave, Close, TimeoutFires, TimeoutDone, LaunchFails, TaskRaises,
         ConnectionLost, local, elsewhere, remoteVars
    <2>2. /\ seen' \in {seen, seen \cup {spawned}} /\ pgids' \in {pgids, seen'}
          /\ spawned \in StepIds \/ seen' = seen
      BY <1>3
         DEF Typed, TaskStep, LaunchSave, AcquireSlot, ReadHandshake,
         WaitEarlierSteps, PgidsGet, PgidsSave, CollectOutput, Backfill, StoreGet,
         StoreSave, Close, TimeoutFires, TimeoutDone, LaunchFails, TaskRaises,
         ConnectionLost, local
    <2>i. TaskInFlight \subseteq {rec, PgidsWrite, ResultWrite}
      BY DEF TaskInFlight
    <2>p. PgidsWrite.pgids = pgids /\ ResultWrite.pgids = snap[Task].pgids
      BY <1>w DEF PgidsWrite, ResultWrite, WithStatus, Record
    <2>3. \/ rec' \in {rec, PgidsWrite, ResultWrite}
          \/ rec'.pgids = {}
      BY <1>3, <2>i
         DEF TaskStep, LaunchSave, AcquireSlot, ReadHandshake,
         WaitEarlierSteps, PgidsGet, PgidsSave, CollectOutput, Backfill, StoreGet,
         StoreSave, Close, TimeoutFires, TimeoutDone, LaunchFails, TaskRaises,
         ConnectionLost
    <2>4. \A w \in Writers : snap'[w] \in {snap[w], rec, NoRecord}
      BY <1>3, <1>w
         DEF TaskStep, LaunchSave, AcquireSlot, ReadHandshake,
         WaitEarlierSteps, PgidsGet, PgidsSave, CollectOutput, Backfill, StoreGet,
         StoreSave, Close, TimeoutFires, TimeoutDone, LaunchFails, TaskRaises,
         ConnectionLost, Forget
    <2>5. rec'.pgids \in {{}, rec.pgids, pgids} \cup {snap[w].pgids : w \in Writers}
      BY <1>w, <2>p, <2>3
    <2> QED
      BY <1>1, <1>k, <2>1, <2>2, <2>4, <2>5, KnowledgeStays DEF HostInv
  <1> QED
    BY <1>2, <1>3

\* What a kill writes and reads, whatever its step.
LEMMA KillStepKnown ==
    ASSUME Typed, GroupsKnown, NEW k \in Killers, KillStep(k) \/ KillRaises(k)
    PROVE  GroupsKnown'
  <1>t. /\ k \in Writers /\ snap \in [Writers -> Record]
        /\ kleft \in [Killers -> SUBSET StepIds]
        /\ grp \in [StepIds -> {"none", "alive", "left", "gone"}]
    BY DEF Writers, Typed, TypeOK
  <1>p. \A r \in Record, status \in {"killing", "killed"} :
            WithStatus(r, status).pgids = r.pgids
    BY DEF WithStatus, Record
  <1>1. UNCHANGED <<spawned, seen, pgids>>
    BY DEF KillStep, KillGuard, KillConfig, ClaimGet, ClaimSave, Route, Reload, Connect,
       SoftKill, CheckAlive, HardKill, SignalFails, KilledGet, KilledSave, KillRaises,
       unkilled, taskVars
  <1>2. \A s \in StepIds : grp'[s] = "none" <=> grp[s] = "none"
    BY <1>t
       DEF KillStep, KillGuard, KillConfig, ClaimGet, ClaimSave, Route, Reload, Connect,
       SoftKill, CheckAlive, HardKill, SignalFails, KilledGet, KilledSave, KillRaises,
       remoteVars, Remains
  <1>3. \/ rec' = rec
        \/ \E status \in {"killing", "killed"} : rec' = WithStatus(snap[k], status)
    BY DEF KillStep, KillGuard, KillConfig, ClaimGet, ClaimSave, Route, Reload, Connect,
       SoftKill, CheckAlive, HardKill, SignalFails, KilledGet, KilledSave, KillRaises
  <1>4. rec'.pgids \in {{}, rec.pgids, pgids} \cup {snap[w].pgids : w \in Writers}
    BY <1>t, <1>p, <1>3
  <1>5. \A w \in Writers : snap'[w] \in {snap[w], rec, NoRecord}
    BY <1>t
       DEF KillStep, KillGuard, KillConfig, ClaimGet, ClaimSave, Route, Reload, Connect,
       SoftKill, CheckAlive, HardKill, SignalFails, KilledGet, KilledSave, KillRaises,
       Forget, unkilled
  <1>6. \A i \in Killers : kleft'[i] \subseteq kleft[i] \/ kleft'[i] \in {pgids, rec.pgids}
    BY <1>t
       DEF KillStep, KillGuard, KillConfig, ClaimGet, ClaimSave, Route, Reload, Connect,
       SoftKill, CheckAlive, HardKill, SignalFails, KilledGet, KilledSave, KillRaises,
       Return, NextPgid
  <1> QED
    BY <1>1, <1>2, <1>4, <1>5, <1>6, KnowledgeStays

\* The kill that moves: it waits, or goes on to SIGKILL, after its SIGTERM.
LEMMA KillStepTerms ==
    ASSUME Typed, TermedFirst, NEW k \in Killers, KillStep(k) \/ KillRaises(k)
    PROVE  TermedFirst'
  <1>t. kpc \in [Killers -> KillStates] /\ kleft \in [Killers -> SUBSET StepIds]
    BY DEF Typed, TypeOK
  <1>1. termed \subseteq termed'
    BY DEF KillStep, KillGuard, KillConfig, ClaimGet, ClaimSave, Route, Reload, Connect,
       SoftKill, CheckAlive, HardKill, SignalFails, KilledGet, KilledSave, KillRaises,
       remoteVars
  <1>2. \A i \in Killers \ {k} : kpc'[i] = kpc[i] /\ kleft'[i] = kleft[i]
    BY <1>t
       DEF KillStep, KillGuard, KillConfig, ClaimGet, ClaimSave, Route, Reload, Connect,
       SoftKill, CheckAlive, HardKill, SignalFails, KilledGet, KilledSave, KillRaises,
       Go, Return, NextPgid
  <1>3. CASE SoftKill(k)
    <2>1. PICK s \in StepIds : Turn(k, s) /\ termed' = termed \cup {s}
      BY <1>3 DEF SoftKill
    <2>2. kleft' = kleft
      BY <1>3 DEF SoftKill
    <2>3. \A t \in StepIds : Turn(k, t) => t = s
      BY <2>1 DEF Turn, StepIds
    <2> QED
      BY <1>1, <1>2, <2>1, <2>2, <2>3 DEF TermedFirst, Turn
  <1>4. CASE CheckAlive(k) /\ kpc'[k] = "hard"
    <2>1. kleft' = kleft /\ kpc[k] = "grace"
      BY <1>4, <1>t DEF CheckAlive, NextPgid, Go, At
    <2> QED
      BY <1>1, <1>2, <2>1 DEF TermedFirst, Turn
  <1>5. CASE kpc'[k] \notin {"grace", "hard"}
    BY <1>1, <1>2, <1>5 DEF TermedFirst, Turn
  <1>6. CASE ~SoftKill(k) /\ kpc'[k] # "hard"
    <2>1. kpc'[k] # "grace"
      BY <1>6, <1>t
         DEF KillStep, KillGuard, KillConfig, ClaimGet, ClaimSave, Route, Reload, Connect,
         CheckAlive, HardKill, SignalFails, KilledGet, KilledSave, KillRaises,
         Go, Return, NextPgid
    <2> QED
      BY <1>5, <1>6, <2>1
  <1>7. CASE ~SoftKill(k) /\ ~CheckAlive(k)
    <2>1. kpc'[k] # "hard"
      BY <1>7, <1>t
         DEF KillStep, KillGuard, KillConfig, ClaimGet, ClaimSave, Route, Reload, Connect,
         HardKill, SignalFails, KilledGet, KilledSave, KillRaises,
         Go, Return, NextPgid
    <2> QED
      BY <1>6, <1>7, <2>1
  <1> QED
    BY <1>3, <1>4, <1>6, <1>7

\* Everybody else.
LEMMA RestHost ==
    ASSUME Typed, HostInv,
           \/ ShutdownStarts
           \/ \E k \in Users, pod \in {"owner", "other"}, force \in BOOLEAN :
                   UserKill(k, pod, force)
           \/ \E h \in Polls : PollStep(h) \/ PollRaises(h)
           \/ \E s \in StepIds : RunEnds(s) \/ TermEnds(s) \/ StragglersEnd(s)
           \/ RecordExpires \/ PodStops \/ UNCHANGED vars
    PROVE  HostInv'
  <1>t. /\ snap \in [Writers -> Record] /\ kpc \in [Killers -> KillStates]
        /\ grp \in [StepIds -> {"none", "alive", "left", "gone"}]
        /\ Polls \subseteq Writers
    BY DEF Writers, Typed, TypeOK
  <1>1. UNCHANGED <<spawned, seen, pgids, termed, kleft>>
    BY DEF ShutdownStarts, UserKill, PollStep, PollRead, ReadMarker, HealGet, HealSave,
       PollRaises, RunEnds, TermEnds, StragglersEnd, RecordExpires, PodStops, unkilled,
       unpolled, aside, taskVars, remoteVars, killVars, vars
  <1>2. \A s \in StepIds : grp'[s] = "none" <=> grp[s] = "none"
    BY <1>t
       DEF ShutdownStarts, UserKill, PollStep, PollRead, ReadMarker, HealGet, HealSave,
       PollRaises, RunEnds, TermEnds, StragglersEnd, RecordExpires, PodStops,
       unpolled, remoteVars, vars
  <1>3. \A w \in Writers : snap'[w] \in {snap[w], rec, NoRecord}
    BY <1>t
       DEF ShutdownStarts, UserKill, PollStep, PollRead, ReadMarker, HealGet, HealSave,
       PollRaises, PollReturns, Forget, RunEnds, TermEnds, StragglersEnd, RecordExpires,
       PodStops, unkilled, unpolled, aside, vars
  <1>4. \/ rec' \in {rec, NoRecord}
        \/ \E h \in Polls : rec' = HealWrite(h)
    BY DEF ShutdownStarts, UserKill, PollStep, PollRead, ReadMarker, HealGet, HealSave,
       PollRaises, RunEnds, TermEnds, StragglersEnd, RecordExpires,
       PodStops, unkilled, unpolled, aside, vars
  <1>5. rec'.pgids \in {{}, rec.pgids, pgids} \cup {snap[w].pgids : w \in Writers}
    <2>1. \A h \in Polls : HealWrite(h).pgids = snap[h].pgids
      BY <1>t DEF HealWrite, WithStatus, Record
    <2> QED
      BY <1>4, <1>t, <2>1 DEF NoRecord
  <1>6. \A k \in Killers : kpc'[k] \in {kpc[k], "guard", "end"}
    BY <1>t
       DEF ShutdownStarts, UserKill, Go, PollStep, PollRead, ReadMarker, HealGet, HealSave,
       PollRaises, RunEnds, TermEnds, StragglersEnd, RecordExpires, PodStops,
       unpolled, aside, killVars, vars
  <1> QED
    BY <1>1, <1>2, <1>3, <1>5, <1>6, KnowledgeStays, TermedStays DEF HostInv

LEMMA NextHost == Typed /\ HostInv /\ [Next]_vars => HostInv'
  <1> SUFFICES ASSUME Typed, HostInv, [Next]_vars PROVE HostInv'
    OBVIOUS
  <1>1. CASE TaskStep \/ LaunchFails \/ TaskRaises \/ ConnectionLost
    BY <1>1, TaskStepHost
  <1>2. CASE \E k \in Killers : KillStep(k) \/ KillRaises(k)
    BY <1>2, KillStepKnown, KillStepTerms DEF HostInv
  <1> QED
    BY <1>1, <1>2, RestHost DEF Next

LEMMA AlwaysHost == Spec => []HostInv
  BY InitHost, NextHost, AlwaysTyped, PTL DEF Spec

---------------------------------------------------------------------------
(* The refinement: one lemma per step that touches a remote process.       *)

\* Whether a group leaves a marker, and which one it has left, as RemoteHost
\* sees them.
LeavesMarker(s) == logged /\ s = Steps
MarkerOf == [s \in StepIds |-> IF s = Steps THEN marker ELSE "none"]

LEMMA HostView ==
    ASSUME logged' = logged
    PROVE  /\ \A s \in StepIds : s \in (IF logged THEN {Steps} ELSE {}) <=> LeavesMarker(s)
           /\ UNCHANGED (IF logged THEN {Steps} ELSE {})
           /\ UNCHANGED marker <=> UNCHANGED MarkerOf
           /\ \A code : marker' = code <=> MarkerOf' = [MarkerOf EXCEPT ![Steps] = code]
  <1>1. Steps \in StepIds
    BY StepsAssumption DEF StepIds
  <1>2. MarkerOf[Steps] = marker /\ MarkerOf'[Steps] = marker'
    BY <1>1 DEF MarkerOf
  <1>3. ASSUME NEW code
        PROVE  marker' = code <=> MarkerOf' = [MarkerOf EXCEPT ![Steps] = code]
    BY <1>1, <1>2 DEF MarkerOf
  <1> QED
    BY <1>2, <1>3 DEF LeavesMarker, MarkerOf

LEMMA StartMaps ==
    ASSUME Typed, GroupsKnown, CreateProcess
    PROVE  HostStep
  <1>1. spawned + 1 \in StepIds /\ grp[spawned + 1] = "none"
    BY StepsAssumption DEF CreateProcess, Typed, TypeOK, StepIds, GroupsKnown
  <1>2. Host!Start(spawned + 1)
    BY <1>1 DEF CreateProcess, Host!Start, flags
  <1> QED
    BY <1>1, <1>2 DEF HostStep, CreateProcess

\* The group a kill has its turn with was there once.
LEMMA TurnExists ==
    ASSUME Typed, GroupsKnown, NEW k \in Killers, NEW s \in StepIds, Turn(k, s)
    PROVE  grp[s] # "none"
  BY DEF Typed, TypeOK, Turn, GroupsKnown, Exist, StepIds

LEMMA TermMaps ==
    ASSUME Typed, GroupsKnown, NEW k \in Killers, SoftKill(k)
    PROVE  HostStep
  <1>1. PICK s \in StepIds : Turn(k, s) /\ termed' = termed \cup {s}
    BY DEF SoftKill
  <1>2. UNCHANGED <<logged, grp, rc, marker>> /\ UNCHANGED unkilled
    BY DEF SoftKill, unkilled, flags
  <1>3. Host!Term(s)
    BY <1>1, <1>2, TurnExists DEF Host!Term
  <1> QED
    BY <1>2, <1>3 DEF HostStep

LEMMA KillMaps ==
    ASSUME Typed, HostInv, NEW k \in Killers, HardKill(k)
    PROVE  HostStep \/ UNCHANGED Host!vars
  <1>t. /\ grp \in [StepIds -> {"none", "alive", "left", "gone"}]
        /\ rc \in [StepIds -> {"none", "ok", "err"}]
    BY DEF Typed, TypeOK
  <1>1. PICK s \in StepIds :
            /\ Turn(k, s)
            /\ grp' = [grp EXCEPT ![s] = IF Remains(s) THEN "gone" ELSE @]
            /\ rc' = [rc EXCEPT ![s] = IF grp[s] = "alive" THEN "err" ELSE @]
    BY DEF HardKill
  <1>2. UNCHANGED <<logged, termed, marker>> /\ UNCHANGED unkilled
    BY DEF HardKill, unkilled, flags
  <1>3. s \in termed
    BY <1>1 DEF HardKill, At, HostInv, TermedFirst
  <1>4. CASE Remains(s)
    <2>1. Host!Kill(s)
      BY <1>1, <1>2, <1>3, <1>4 DEF Host!Kill, Remains
    <2> QED
      BY <1>2, <2>1 DEF HostStep
  <1>5. CASE ~Remains(s)
    <2>1. grp' = grp /\ rc' = rc
      BY <1>t, <1>1, <1>5 DEF Remains
    <2> QED
      BY <1>2, <2>1 DEF Host!vars
  <1> QED
    BY <1>4, <1>5

\* What CommandRun lets a run do by itself is RemoteHost's idea of it, step
\* for step and in both directions: nothing is added to the contract the
\* script keeps (RunAnsibleProofs), and nothing of it is left out.
THEOREM EnvironmentIsHost ==
    ASSUME NEW s \in StepIds, UNCHANGED <<up, aside>>
    PROVE  Host!OnItsOwn(s) <=> RunEnds(s) \/ TermEnds(s) \/ StragglersEnd(s)
  <1> DEFINE marks == IF logged THEN {Steps} ELSE {}
             MayOmit == "nomarker" \in Faults
  <1>f. logged' = logged
    BY DEF aside, flags
  <1>m. /\ s \in marks <=> LeavesMarker(s)
        /\ marks' = marks
        /\ UNCHANGED marker <=> UNCHANGED MarkerOf
        /\ \A code : marker' = code <=> MarkerOf' = [MarkerOf EXCEPT ![Steps] = code]
    BY <1>f, HostView
  <1>1. ASSUME NEW code
        PROVE  marker' \in Leaves(s, code) <=>
                 \/ s \in marks /\ MarkerOf' = [MarkerOf EXCEPT ![s] = code]
                 \/ (s \in marks => MayOmit) /\ MarkerOf' = MarkerOf
    BY <1>m DEF Leaves, LeavesMarker
  <1>2. ASSUME NEW state, NEW code
        PROVE  Host!LeaderEnds(s, state, code) <=>
                 /\ grp[s] = "alive"
                 /\ grp' = [grp EXCEPT ![s] = state]
                 /\ marker' \in Leaves(s, code)
                 /\ UNCHANGED termed
    BY <1>1, <1>m DEF Host!LeaderEnds, MarkerOf
  <1>3. Host!Ends(s) <=> RunEnds(s)
    BY <1>2 DEF Host!Ends, RunEnds
  <1>4. Host!EndsByTerm(s) <=> TermEnds(s)
    BY <1>2, <1>m DEF Host!EndsByTerm, TermEnds, LeavesMarker
  <1>5. Host!StragglersEnd(s) <=> StragglersEnd(s)
    BY <1>m DEF Host!StragglersEnd, StragglersEnd, MarkerOf
  <1> QED
    BY <1>3, <1>4, <1>5 DEF Host!OnItsOwn

\* Nothing else reaches the remote processes.
LEMMA RestMaps ==
    ASSUME Typed, [Next]_vars,
           ~CreateProcess,
           \A k \in Killers : ~SoftKill(k) /\ ~HardKill(k),
           \A s \in StepIds : ~(RunEnds(s) \/ TermEnds(s) \/ StragglersEnd(s))
    PROVE  UNCHANGED Host!vars
  <1>1. UNCHANGED <<flags, remoteVars>>
    BY DEF Next, TaskStep, LaunchSave, AcquireSlot, ReadHandshake, WaitEarlierSteps,
       PgidsGet, PgidsSave, CollectOutput, Backfill, StoreGet, StoreSave, Close,
       TimeoutFires, TimeoutDone, LaunchFails, TaskRaises, ConnectionLost,
       ShutdownStarts, UserKill, KillStep, KillGuard, KillConfig, ClaimGet, ClaimSave,
       Route, Reload, Connect, CheckAlive, SignalFails, KilledGet, KilledSave,
       KillRaises, PollStep, PollRead, ReadMarker, HealGet, HealSave, PollRaises,
       RecordExpires, PodStops, elsewhere, unkilled, unpolled, vars
  <1> QED
    BY <1>1 DEF flags, remoteVars, Host!vars

LEMMA NextIsHostStep ==
    ASSUME Typed, HostInv, [Next]_vars
    PROVE  [HostStep]_(Host!vars)
  <1>1. CASE CreateProcess
    BY <1>1, StartMaps DEF HostInv
  <1>2. CASE \E k \in Killers : SoftKill(k) \/ HardKill(k)
    BY <1>2, TermMaps, KillMaps DEF HostInv
  <1>3. CASE \E s \in StepIds : RunEnds(s) \/ TermEnds(s) \/ StragglersEnd(s)
    <2>1. PICK s \in StepIds : RunEnds(s) \/ TermEnds(s) \/ StragglersEnd(s)
      BY <1>3
    <2>2. UNCHANGED <<up, aside>>
      BY <2>1 DEF RunEnds, TermEnds, StragglersEnd
    <2>3. Host!OnItsOwn(s)
      BY <2>1, <2>2, EnvironmentIsHost
    <2> QED
      BY <2>2, <2>3 DEF HostStep
  <1> QED
    BY <1>1, <1>2, <1>3, RestMaps

LEMMA InitIsHost == Init => Host!Init
  <1> SUFFICES ASSUME Init PROVE Host!Init
    OBVIOUS
  <1>1. (IF logged THEN {Steps} ELSE {}) \in SUBSET StepIds
    BY StepsAssumption DEF StepIds
  <1>2. grp \in [StepIds -> {"none", "alive"}]
    BY DEF Init
  <1>3. [s \in StepIds |-> IF s = Steps THEN marker ELSE "none"]
            = [s \in StepIds |-> "none"]
    BY DEF Init
  <1> QED
    BY <1>1, <1>2, <1>3 DEF Init, Host!Init

\* The service's half of the contract: it starts process groups and signals
\* those it started, SIGKILL only after SIGTERM, whichever kill requests,
\* pods and faults meet; all else that happens to them they do themselves.
THEOREM ServiceKeepsContract == Spec => StepsAreGroups
  BY InitIsHost, NextIsHostStep, AlwaysTyped, AlwaysHost, PTL
     DEF Spec, StepsAreGroups

\* Whose step it is set aside, a run is a history of the process groups.
THEOREM RunImplementsHost == Spec => Host!Spec
  <1>1. HostStep => Host!Next
    BY DEF HostStep, Host!Next
  <1> QED
    BY <1>1, ServiceKeepsContract, PTL DEF StepsAreGroups, Host!Spec

---------------------------------------------------------------------------
(* What the verdict of a run means, by what the contract promises.         *)

HostFacts == INSTANCE RemoteHostProofs
    WITH Groups <- StepIds, MayOmit <- "nomarker" \in Faults,
         marks <- IF logged THEN {Steps} ELSE {},
         marker <- [s \in StepIds |-> IF s = Steps THEN marker ELSE "none"]

\* Exit statuses and markers can be taken at their word, the way the task, the
\* heal and the kills take them, and what one of them has seen lasts.
THEOREM RunTellsTruth == Spec => []Host!Told /\ Host!NothingRevised
  <1>1. Host!Init => HostFacts!Init
    BY DEF Host!Init, HostFacts!Init
  <1>2. [Host!Next]_(Host!vars) => [HostFacts!Next]_(HostFacts!vars)
    BY DEF Host!Next, Host!Start, Host!OnItsOwn, Host!Ends, Host!EndsByTerm,
       Host!StragglersEnd, Host!LeaderEnds, Host!Term, Host!Kill, Host!vars,
       HostFacts!Next, HostFacts!Start, HostFacts!OnItsOwn, HostFacts!Ends,
       HostFacts!EndsByTerm, HostFacts!StragglersEnd, HostFacts!LeaderEnds,
       HostFacts!Term, HostFacts!Kill, HostFacts!vars
  <1>3. HostFacts!Told => Host!Told
    BY DEF Host!Told, HostFacts!Told
  <1>4. [HostFacts!OnlyAdds]_(HostFacts!vars) => [Host!OnlyAdds]_(Host!vars)
    BY DEF Host!OnlyAdds, HostFacts!OnlyAdds, Host!vars, HostFacts!vars
  <1> QED
    BY <1>1, <1>2, <1>3, <1>4, HostFacts!HostTellsTruth,
       HostFacts!HostRevisesNothing, RunImplementsHost, PTL
       DEF Host!Spec, HostFacts!Spec, Host!NothingRevised, HostFacts!NothingRevised

\* A run recorded as a success whose last step was never sent SIGTERM exited 0
\* and has no process of that step left: what a page shows as finished and what
\* a caller takes for done (StatusTerminal "done" of LogTail) is over.
SuccessMeansOver ==
    rec.status = "success" /\ Steps \notin termed =>
        rc[Steps] = "ok" /\ grp[Steps] = "gone"

THEOREM SuccessesAreOver == Spec => []SuccessMeansOver
  <1>1. TypeOK /\ VerdictMatchesExit /\ Host!Told => SuccessMeansOver
    <2> SUFFICES ASSUME TypeOK, VerdictMatchesExit, Host!Told,
                        rec.status = "success", Steps \notin termed
                 PROVE  rc[Steps] = "ok" /\ grp[Steps] = "gone"
      BY DEF SuccessMeansOver
    <2>1. Steps \in StepIds /\ rc[Steps] = "ok"
      BY StepsAssumption DEF StepIds, VerdictMatchesExit
    <2>2. grp[Steps] \in {"none", "alive", "left", "gone"}
      BY <2>1 DEF TypeOK
    <2> QED
      BY <2>1, <2>2 DEF Host!Told
  <1> QED
    BY <1>1, TypeCorrect, VerdictBacked, RunTellsTruth, PTL

=============================================================================

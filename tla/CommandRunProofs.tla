-------------------------- MODULE CommandRunProofs --------------------------
(* Theorems about CommandRun, for every number of steps, users and polls.  *)
EXTENDS CommandRun, FiniteSetTheorems, TLAPS

---------------------------------------------------------------------------
(* Types.                                                                  *)

\* TypeOK is not inductive alone: the handshake is with a created process.
Typed == TypeOK /\ (task = "handshake" => spawned \in StepIds)

\* The status a record is given by a writer keeps it a record.
LEMMA StatusIsRecord ==
    ASSUME NEW r \in Record,
           NEW s \in {"killing", "killed", "success", "failed"}
    PROVE  /\ WithStatus(r, s) \in Record
           /\ WithStatus(r, s).status = s
  BY DEF Record, WithStatus, Transient, Terminal, TTLs

\* What the task may have in flight is a record.
LEMMA TaskWritesRecords ==
    ASSUME TypeOK
    PROVE  PgidsWrite \in Record /\ ResultWrite \in Record
  <1>1. snap[Task] \in Record
    BY DEF TypeOK, Writers
  <1>2. PgidsWrite \in Record
    BY <1>1 DEF PgidsWrite, Record, TypeOK, TTLs
  <1>3. ResultWrite \in Record
    BY <1>1, StatusIsRecord DEF ResultWrite
  <1> QED BY <1>2, <1>3

LEMMA HealWritesRecords ==
    ASSUME TypeOK, NEW h \in Polls
    PROVE  HealWrite(h) \in Record
  <1>1. snap[h] \in Record
    BY DEF TypeOK, Writers
  <1> QED BY <1>1, StatusIsRecord DEF HealWrite

LEMMA NoRecordIsRecord == NoRecord \in Record
  BY DEF NoRecord, Record, TTLs

LEMMA InitTyped == Init => Typed
  <1> SUFFICES ASSUME Init PROVE Typed
    OBVIOUS
  <1> QED BY NoRecordIsRecord, StepsAssumption
       DEF Init, Typed, TypeOK, TaskStates, KillStates, PollStates

\* The steps of the background task keep the types.
LEMMA TaskStepTyped ==
    ASSUME Typed, TaskStep \/ LaunchFails \/ TaskRaises \/ ConnectionLost
    PROVE  Typed'
  <1> USE DEF Typed, TypeOK, TaskStates, local, elsewhere, flags, remoteVars,
              killVars, pollVars
  <1>n. NoRecord \in Record /\ Task \in Writers
    BY NoRecordIsRecord DEF Writers
  <1>1. CASE LaunchSave
    BY <1>1 DEF LaunchSave, Record, Transient, TTLs
  <1>2. CASE AcquireSlot
    BY <1>2 DEF AcquireSlot
  <1>3. CASE CreateProcess
    BY <1>3, StepsAssumption DEF CreateProcess, StepIds
  <1>4. CASE ReadHandshake
    BY <1>4, StepsAssumption DEF ReadHandshake, StepIds
  <1>5. CASE WaitEarlierSteps
    BY <1>5 DEF WaitEarlierSteps
  <1>6. CASE PgidsGet
    BY <1>6 DEF PgidsGet
  <1>7. CASE PgidsSave
    BY <1>7, <1>n, TaskWritesRecords DEF PgidsSave, Forget
  <1>8. CASE CollectOutput
    BY <1>8 DEF CollectOutput
  <1>9. CASE Backfill
    BY <1>9 DEF Backfill
  <1>10. CASE StoreGet
    BY <1>10 DEF StoreGet
  <1>11. CASE StoreSave
    BY <1>11, <1>n, TaskWritesRecords DEF StoreSave, Forget
  <1>12. CASE Close
    BY <1>12 DEF Close
  <1>13. CASE TimeoutFires
    BY <1>13, <1>n, TaskWritesRecords
       DEF TimeoutFires, Forget, TaskInFlight, KillStates, Killers
  <1>14. CASE TimeoutDone
    BY <1>14 DEF TimeoutDone
  <1>15. CASE LaunchFails
    BY <1>15 DEF LaunchFails
  <1>16. CASE TaskRaises
    BY <1>16, <1>n, TaskWritesRecords DEF TaskRaises, Forget, TaskInFlight
  <1>17. CASE ConnectionLost
    <2>1. conn' \in BOOLEAN
      BY <1>17 DEF ConnectionLost
    <2>2. UNCHANGED <<rec, snap, task, result, pool, pgids, spawned, seen,
                      elsewhere>>
      BY <1>17 DEF ConnectionLost
    <2> QED BY <2>1, <2>2
  <1> QED BY <1>1, <1>2, <1>3, <1>4, <1>5, <1>6, <1>7, <1>8, <1>9, <1>10,
             <1>11, <1>12, <1>13, <1>14, <1>15, <1>16, <1>17 DEF TaskStep

\* The steps of a kill, and of its callers, keep the types.
LEMMA KillStepTyped ==
    ASSUME Typed, NEW k \in Killers, KillStep(k) \/ KillRaises(k)
    PROVE  Typed'
  <1> USE DEF Typed, TypeOK, KillStates, Go, At, Return, unkilled, taskVars,
              flags, remoteVars, pollVars
  <1>n. NoRecord \in Record /\ Killers \subseteq Writers /\ snap[k] \in Record
    BY NoRecordIsRecord DEF Writers
  <1>w. \A s \in {"killing", "killed"} : WithStatus(snap[k], s) \in Record
    BY <1>n, StatusIsRecord
  <1>g. rec.pgids \in SUBSET StepIds
    BY DEF Record
  <1>1. CASE KillGuard(k)
    BY <1>1 DEF KillGuard
  <1>2. CASE KillConfig(k)
    BY <1>2 DEF KillConfig
  <1>3. CASE ClaimGet(k)
    BY <1>3, <1>n DEF ClaimGet
  <1>4. CASE ClaimSave(k)
    BY <1>4, <1>n, <1>w DEF ClaimSave, Forget
  <1>5. CASE Route(k)
    BY <1>5 DEF Route
  <1>6. CASE Reload(k)
    BY <1>6, <1>g DEF Reload
  <1>7. CASE Connect(k)
    BY <1>7 DEF Connect
  <1>8. CASE SoftKill(k)
    BY <1>8 DEF SoftKill
  <1>9. CASE CheckAlive(k)
    BY <1>9 DEF CheckAlive, NextPgid
  <1>10. CASE HardKill(k)
    BY <1>10 DEF HardKill, NextPgid
  <1>11. CASE SignalFails(k)
    BY <1>11 DEF SignalFails, NextPgid
  <1>12. CASE KilledGet(k)
    BY <1>12, <1>n DEF KilledGet
  <1>13. CASE KilledSave(k)
    BY <1>13, <1>n, <1>w DEF KilledSave, Forget
  <1>14. CASE KillRaises(k)
    BY <1>14, <1>n, <1>w DEF KillRaises, Forget
  <1> QED BY <1>1, <1>2, <1>3, <1>4, <1>5, <1>6, <1>7, <1>8, <1>9, <1>10,
             <1>11, <1>12, <1>13, <1>14 DEF KillStep

\* The steps of a poll keep the types.
LEMMA PollStepTyped ==
    ASSUME Typed, NEW h \in Polls, PollStep(h) \/ PollRaises(h)
    PROVE  Typed'
  <1> USE DEF Typed, TypeOK, PollStates, PollReturns, Forget, unpolled,
              taskVars, flags, remoteVars, killVars
  <1>n. NoRecord \in Record /\ h \in Writers
    BY NoRecordIsRecord DEF Writers
  <1>w. HealWrite(h) \in Record
    BY HealWritesRecords
  <1>1. CASE PollRead(h)
    BY <1>1 DEF PollRead
  <1>2. CASE ReadMarker(h)
    BY <1>2 DEF ReadMarker
  <1>3. CASE HealGet(h)
    BY <1>3, <1>n DEF HealGet
  <1>4. CASE HealSave(h)
    BY <1>4, <1>n, <1>w DEF HealSave
  <1>5. CASE PollRaises(h)
    BY <1>5, <1>n, <1>w DEF PollRaises
  <1> QED BY <1>1, <1>2, <1>3, <1>4, <1>5 DEF PollStep

\* The callers of kill_command, the remote host and the environment keep
\* the types.
LEMMA RestTyped ==
    ASSUME Typed,
           \/ ShutdownStarts
           \/ \E k \in Users, pod \in {"owner", "other"}, force \in BOOLEAN :
                   UserKill(k, pod, force)
           \/ \E s \in StepIds : RunEnds(s) \/ TermEnds(s) \/ StragglersEnd(s)
           \/ RecordExpires \/ PodStops \/ UNCHANGED vars
    PROVE  Typed'
  <1> USE DEF Typed, TypeOK, KillStates, Go, At, unkilled, aside, taskVars,
              flags, remoteVars, killVars, pollVars
  <1>n. NoRecord \in Record /\ Shutdown \in Killers /\ Users \subseteq Killers
    BY NoRecordIsRecord DEF Killers
  <1>1. CASE ShutdownStarts
    BY <1>1, <1>n DEF ShutdownStarts
  <1>2. ASSUME NEW k \in Users, NEW pod \in {"owner", "other"},
               NEW force \in BOOLEAN, UserKill(k, pod, force)
        PROVE  Typed'
    BY <1>2, <1>n DEF UserKill
  <1>3. ASSUME NEW s \in StepIds, RunEnds(s) \/ TermEnds(s) \/ StragglersEnd(s)
        PROVE  Typed'
    <2>1. CASE RunEnds(s)
      BY <2>1 DEF RunEnds, Leaves
    <2>2. CASE TermEnds(s)
      BY <2>2 DEF TermEnds, Leaves
    <2>3. CASE StragglersEnd(s)
      BY <2>3 DEF StragglersEnd
    <2> QED BY <1>3, <2>1, <2>2, <2>3
  <1>4. CASE RecordExpires
    BY <1>4, <1>n DEF RecordExpires
  <1>5. CASE PodStops
    BY <1>5, <1>n DEF PodStops, TaskStates
  <1>6. CASE UNCHANGED vars
    BY <1>6 DEF vars
  <1> QED BY <1>1, <1>2, <1>3, <1>4, <1>5, <1>6

LEMMA NextTyped == Typed /\ [Next]_vars => Typed'
  <1> SUFFICES ASSUME Typed, [Next]_vars PROVE Typed'
    OBVIOUS
  <1> QED BY TaskStepTyped, KillStepTyped, PollStepTyped, RestTyped DEF Next

LEMMA AlwaysTyped == Spec => []Typed
  BY InitTyped, NextTyped, PTL DEF Spec

\* Every variable keeps its type (the fields of the record, the states of
\* the task, of the kills and of the polls), for every pipeline length.
THEOREM TypeCorrect == Spec => []TypeOK
  <1>1. Typed => TypeOK
    BY DEF Typed
  <1> QED BY <1>1, AlwaysTyped, PTL

---------------------------------------------------------------------------
(* The system spares a non-killable run. kill_command decides once, in     *)
(* step 0, and the decision must still stand at every later step: what is  *)
(* invariant is that a kill past the guard was allowed to pass it, that    *)
(* only users force, and that nothing a writer has read or written, in a   *)
(* run that may not be killed, is a kill status.                           *)

KillStatus == {"killing", "killed"}
Sparing == ~killable /\ ~Forced

PastGuardAllowed ==
    \A k \in Killers :
        kpc[k] \notin {"idle", "guard", "end"} => killable \/ kforce[k]
OnlyUsersForce == \A k \in Killers : kforce[k] => k \in Users /\ kpc[k] # "idle"
NoKillStatus ==
    Sparing =>
        /\ rec.status \notin KillStatus
        /\ \A w \in Writers : snap[w].status \notin KillStatus
        /\ termed = {}

SpareInv == PastGuardAllowed /\ OnlyUsersForce /\ NoKillStatus

LEMMA InitSpares == Init => SpareInv
  BY DEF Init, SpareInv, PastGuardAllowed, OnlyUsersForce, NoKillStatus,
         KillStatus, NoRecord

\* A step of a process that is not a kill: it leaves the kills where they
\* are, or starts one of its own, and copies statuses around at most.
LEMMA BystanderSpares ==
    ASSUME Typed, SpareInv,
           UNCHANGED <<killable, kforce, termed>>,
           \/ kpc' = kpc
           \/ kpc' = [kpc EXCEPT ![Timeout] = "guard"]
           \/ kpc' = [kpc EXCEPT ![Shutdown] = "guard"]
           \/ \A k \in Killers : kpc'[k] \in {kpc[k], "end"}
                              /\ (kpc[k] = "idle" => kpc'[k] = "idle"),
           \A w \in Writers :
               \/ snap'[w] \in {snap[w], rec}
               \/ snap'[w].status = "none",
           \/ rec'.status \in {"none", "running", "success", "failed"}
           \/ rec' = rec
           \/ \E w \in Writers : rec'.status = snap[w].status
    PROVE  SpareInv'
  <1>1. PastGuardAllowed' /\ OnlyUsersForce'
    BY WritersAssumption
       DEF SpareInv, PastGuardAllowed, OnlyUsersForce, Typed, TypeOK, Killers
  <1>2. Sparing' => Sparing
    BY DEF Sparing, Forced
  <1>3. NoKillStatus'
    BY <1>2 DEF SpareInv, NoKillStatus, KillStatus
  <1> QED BY <1>1, <1>3 DEF SpareInv

LEMMA TaskWriteStatus ==
    ASSUME Typed
    PROVE  /\ PgidsWrite.status = snap[Task].status
           /\ ResultWrite.status \in {"success", "failed"}
  <1>1. snap[Task] \in Record
    BY DEF Typed, TypeOK, Writers
  <1>2. PgidsWrite.status = snap[Task].status
    BY <1>1 DEF PgidsWrite, Record
  <1>3. ResultWrite.status \in {"success", "failed"}
    BY <1>1, StatusIsRecord DEF ResultWrite
  <1> QED BY <1>2, <1>3

LEMMA TaskStepSpares ==
    ASSUME Typed, SpareInv,
           TaskStep \/ LaunchFails \/ TaskRaises \/ ConnectionLost
    PROVE  SpareInv'
  <1>n. /\ Task \in Writers /\ NoRecord.status = "none"
        /\ PgidsWrite.status = snap[Task].status
        /\ ResultWrite.status \in {"success", "failed"}
    BY TaskWriteStatus DEF Writers, NoRecord
  <1>s. snap \in [Writers -> Record]
    BY DEF Typed, TypeOK
  <1>1. UNCHANGED <<killable, kforce, termed>>
    BY DEF TaskStep, LaunchSave, AcquireSlot, CreateProcess, ReadHandshake,
           WaitEarlierSteps, PgidsGet, PgidsSave, CollectOutput, Backfill,
           StoreGet, StoreSave, Close, TimeoutFires, TimeoutDone, LaunchFails,
           TaskRaises, ConnectionLost, elsewhere, flags, remoteVars, killVars
  <1>2. kpc' = kpc \/ kpc' = [kpc EXCEPT ![Timeout] = "guard"]
    BY DEF TaskStep, LaunchSave, AcquireSlot, CreateProcess, ReadHandshake,
           WaitEarlierSteps, PgidsGet, PgidsSave, CollectOutput, Backfill,
           StoreGet, StoreSave, Close, TimeoutFires, TimeoutDone, LaunchFails,
           TaskRaises, ConnectionLost, elsewhere, killVars
  <1>3. \A w \in Writers : snap'[w] \in {snap[w], rec} \/ snap'[w].status = "none"
    BY <1>n, <1>s
       DEF TaskStep, LaunchSave, AcquireSlot, CreateProcess, ReadHandshake,
           WaitEarlierSteps, PgidsGet, PgidsSave, CollectOutput, Backfill,
           StoreGet, StoreSave, Close, TimeoutFires, TimeoutDone, LaunchFails,
           TaskRaises, ConnectionLost, Forget
  <1>4. \/ rec'.status \in {"none", "running", "success", "failed"}
        \/ rec' = rec
        \/ rec'.status = snap[Task].status
    BY <1>n
       DEF TaskStep, LaunchSave, AcquireSlot, CreateProcess, ReadHandshake,
           WaitEarlierSteps, PgidsGet, PgidsSave, CollectOutput, Backfill,
           StoreGet, StoreSave, Close, TimeoutFires, TimeoutDone, LaunchFails,
           TaskRaises, ConnectionLost, TaskInFlight
  <1> QED BY <1>1, <1>2, <1>3, <1>4, <1>n, BystanderSpares

LEMMA PollStepSpares ==
    ASSUME Typed, SpareInv, NEW h \in Polls, PollStep(h) \/ PollRaises(h)
    PROVE  SpareInv'
  <1>n. h \in Writers /\ NoRecord.status = "none" /\ snap[h] \in Record
    BY DEF Writers, NoRecord, Typed, TypeOK
  <1>s. snap \in [Writers -> Record]
    BY DEF Typed, TypeOK
  <1>w. HealWrite(h).status \in {"success", "failed"}
    BY <1>n, StatusIsRecord DEF HealWrite
  <1>1. UNCHANGED <<killable, kforce, termed, kpc>>
    BY DEF PollStep, PollRead, ReadMarker, HealGet, HealSave, PollRaises,
           unpolled, flags, remoteVars, killVars
  <1>3. \A w \in Writers : snap'[w] \in {snap[w], rec} \/ snap'[w].status = "none"
    BY <1>n, <1>s
       DEF PollStep, PollRead, ReadMarker, HealGet, HealSave, PollRaises,
           PollReturns, Forget
  <1>4. rec' = rec \/ rec'.status \in {"success", "failed"}
    BY <1>w DEF PollStep, PollRead, ReadMarker, HealGet, HealSave, PollRaises
  <1> QED BY <1>1, <1>3, <1>4, BystanderSpares

LEMMA RestSpares ==
    ASSUME Typed, SpareInv,
           \/ ShutdownStarts
           \/ \E s \in StepIds : RunEnds(s) \/ TermEnds(s) \/ StragglersEnd(s)
           \/ RecordExpires \/ PodStops \/ UNCHANGED vars
    PROVE  SpareInv'
  <1>n. NoRecord.status = "none"
    BY DEF NoRecord
  <1>t. kpc \in [Killers -> KillStates]
    BY DEF Typed, TypeOK
  <1>1. UNCHANGED <<killable, kforce, termed>>
    BY DEF ShutdownStarts, RunEnds, TermEnds, StragglersEnd, RecordExpires,
           PodStops, unkilled, aside, flags, remoteVars, killVars, vars
  <1>2. \/ kpc' = kpc
        \/ kpc' = [kpc EXCEPT ![Shutdown] = "guard"]
        \/ \A k \in Killers : kpc'[k] \in {kpc[k], "end"}
                           /\ (kpc[k] = "idle" => kpc'[k] = "idle")
    BY <1>t
       DEF ShutdownStarts, RunEnds, TermEnds, StragglersEnd, RecordExpires,
           PodStops, Go, aside, killVars, vars
  <1>3. \A w \in Writers : snap'[w] \in {snap[w], rec} \/ snap'[w].status = "none"
    BY <1>n
       DEF ShutdownStarts, RunEnds, TermEnds, StragglersEnd, RecordExpires,
           PodStops, aside, vars
  <1>4. rec' = rec \/ rec'.status = "none"
    BY <1>n
       DEF ShutdownStarts, RunEnds, TermEnds, StragglersEnd, RecordExpires,
           PodStops, aside, vars
  <1> QED BY <1>1, <1>2, <1>3, <1>4, BystanderSpares

\* A user's call: only with force, or on a killable run.
LEMMA UserKillSpares ==
    ASSUME Typed, SpareInv, NEW k \in Users, NEW pod \in {"owner", "other"},
           NEW force \in BOOLEAN, UserKill(k, pod, force)
    PROVE  SpareInv'
  <1> USE DEF UserKill, At, Go, unkilled, flags, taskVars, remoteVars
  <1>t. /\ kpc \in [Killers -> KillStates] /\ kforce \in [Killers -> BOOLEAN]
        /\ k \in Killers
    BY DEF Typed, TypeOK, Killers
  <1>1. PastGuardAllowed'
    BY <1>t DEF SpareInv, PastGuardAllowed
  <1>2. OnlyUsersForce'
    BY <1>t DEF SpareInv, OnlyUsersForce
  <1>3. Forced => Forced'
    BY <1>t DEF Forced, SpareInv, OnlyUsersForce, Killers
  <1>4. NoKillStatus'
    BY <1>3 DEF SpareInv, NoKillStatus, Sparing
  <1> QED BY <1>1, <1>2, <1>4 DEF SpareInv

\* A kill past the guard is of a run that may be killed.
LEMMA PastGuardNotSparing ==
    ASSUME SpareInv, NEW k \in Killers, kpc[k] \notin {"idle", "guard", "end"}
    PROVE  ~Sparing
  BY DEF SpareInv, PastGuardAllowed, OnlyUsersForce, Sparing, Forced

LEMMA KillStepSpares ==
    ASSUME Typed, SpareInv, NEW k \in Killers, KillStep(k) \/ KillRaises(k)
    PROVE  SpareInv'
  <1> USE DEF At, Go, Return, NextPgid, Remains
  <1>t. kpc \in [Killers -> KillStates] /\ snap \in [Writers -> Record]
    BY DEF Typed, TypeOK
  <1>1. UNCHANGED <<killable, kforce>>
    BY DEF KillStep, KillGuard, KillConfig, ClaimGet, ClaimSave, Route, Reload,
           Connect, SoftKill, CheckAlive, HardKill, SignalFails, KilledGet,
           KilledSave, KillRaises, unkilled, flags
  <1>2. (Sparing' <=> Sparing) /\ kpc[k] # "idle"
    BY <1>1
       DEF KillStep, KillGuard, KillConfig, ClaimGet, ClaimSave, Route, Reload,
           Connect, SoftKill, CheckAlive, HardKill, SignalFails, KilledGet,
           KilledSave, KillRaises, Sparing, Forced
  <1>3. \A j \in Killers : j # k => kpc'[j] = kpc[j]
    BY <1>t
       DEF KillStep, KillGuard, KillConfig, ClaimGet, ClaimSave, Route, Reload,
           Connect, SoftKill, CheckAlive, HardKill, SignalFails, KilledGet,
           KilledSave, KillRaises
  <1>4. kpc'[k] # "idle"
    BY <1>t
       DEF KillStep, KillGuard, KillConfig, ClaimGet, ClaimSave, Route, Reload,
           Connect, SoftKill, CheckAlive, HardKill, SignalFails, KilledGet,
           KilledSave, KillRaises
  <1>5. OnlyUsersForce'
    BY <1>1, <1>3, <1>4 DEF SpareInv, OnlyUsersForce
  <1>6. CASE kpc[k] = "guard"
    <2>1. KillGuard(k) \/ KillRaises(k)
      BY <1>6
         DEF KillStep, KillConfig, ClaimGet, ClaimSave, Route, Reload, Connect,
             SoftKill, CheckAlive, HardKill, SignalFails, KilledGet, KilledSave
    <2>2. kpc'[k] \in {"guard", "idle", "end"} \/ killable \/ kforce[k]
      BY <1>t, <1>6, <2>1 DEF KillGuard, KillRaises
    <2>3. PastGuardAllowed'
      BY <1>1, <1>3, <2>2 DEF SpareInv, PastGuardAllowed
    <2>4. /\ rec' = rec /\ termed' = termed
          /\ \A w \in Writers : snap'[w] = snap[w] \/ snap'[w].status = "none"
      BY <1>6, <1>t, <2>1
         DEF KillGuard, KillRaises, Forget, NoRecord, remoteVars
    <2>5. NoKillStatus'
      BY <1>2, <2>4 DEF SpareInv, NoKillStatus, KillStatus
    <2> QED BY <1>5, <2>3, <2>5 DEF SpareInv
  <1>7. CASE kpc[k] \notin {"guard", "end"}
    <2>1. ~Sparing /\ (killable \/ kforce[k])
      BY <1>2, <1>7, PastGuardNotSparing DEF SpareInv, PastGuardAllowed
    <2>2. PastGuardAllowed'
      BY <1>1, <1>3, <2>1 DEF SpareInv, PastGuardAllowed
    <2>3. NoKillStatus'
      BY <1>2, <2>1 DEF NoKillStatus
    <2> QED BY <1>5, <2>2, <2>3 DEF SpareInv
  <1>8. CASE kpc[k] = "end"
    BY <1>8
       DEF KillStep, KillGuard, KillConfig, ClaimGet, ClaimSave, Route, Reload,
           Connect, SoftKill, CheckAlive, HardKill, SignalFails, KilledGet,
           KilledSave, KillRaises
  <1> QED BY <1>6, <1>7, <1>8

LEMMA NextSpares == Typed /\ SpareInv /\ [Next]_vars => SpareInv'
  <1> SUFFICES ASSUME Typed, SpareInv, [Next]_vars PROVE SpareInv'
    OBVIOUS
  <1> QED BY TaskStepSpares, KillStepSpares, PollStepSpares, RestSpares,
             UserKillSpares DEF Next

\* Unless a user forces it, no step of any kill, timeout, shutdown, poll or
\* task signals a killable:false run or gives it a kill status, whatever the
\* faults and the number of users.
THEOREM NonKillableSpared == Spec => []SystemSparesNonKillable
  <1>1. SpareInv => SystemSparesNonKillable
    BY DEF SpareInv, NoKillStatus, Sparing, KillStatus, SystemSparesNonKillable
  <1>2. Spec => []SpareInv
    BY InitSpares, NextSpares, AlwaysTyped, PTL DEF Spec
  <1> QED BY <1>1, <1>2, PTL

---------------------------------------------------------------------------
(* Who overturns a terminal status. A conditional writer that is about to  *)
(* save has read a status its condition accepts, and before the first save *)
(* there is no record and no writer.                                       *)

BeforeSave ==
    task = "saving" =>
        /\ rec.status = "none"
        /\ \A k \in Killers :
               kpc[k] \in {"idle", "guard", "config", "claimGet", "end"}
        /\ \A h \in Polls : hpc[h] = "idle"
ReadsAllow ==
    /\ task = "storeSave" => snap[Task].status = "running"
    /\ \A k \in Killers : kpc[k] = "claimSave" => snap[k].status = "running"
    /\ \A h \in Polls : hpc[h] = "healSave" => snap[h].status \in Transient

RaceInv == BeforeSave /\ ReadsAllow

LEMMA InitRaces == Init => RaceInv
  BY DEF Init, RaceInv, BeforeSave, ReadsAllow, NoRecord

LEMMA TaskStepRaces ==
    ASSUME Typed, RaceInv,
           TaskStep \/ LaunchFails \/ TaskRaises \/ ConnectionLost
    PROVE  RaceInv'
  <1>n. Task \in Writers /\ Task \notin Killers \cup Polls
    BY WritersAssumption DEF Writers
  <1>t. kpc \in [Killers -> KillStates] /\ snap \in [Writers -> Record]
    BY DEF Typed, TypeOK
  <1>1. task' # "saving" \/ (ConnectionLost /\ task' = task)
    BY DEF TaskStep, LaunchSave, AcquireSlot, CreateProcess, ReadHandshake,
           WaitEarlierSteps, PgidsGet, PgidsSave, CollectOutput, Backfill,
           StoreGet, StoreSave, Close, TimeoutFires, TimeoutDone, LaunchFails,
           TaskRaises, ConnectionLost
  <1>2. BeforeSave'
    BY <1>1
       DEF RaceInv, BeforeSave, ConnectionLost, elsewhere, killVars, pollVars
  <1>3. task' = "storeSave" =>
            \/ StoreGet
            \/ ConnectionLost /\ task' = task /\ snap' = snap
    BY DEF TaskStep, LaunchSave, AcquireSlot, CreateProcess, ReadHandshake,
           WaitEarlierSteps, PgidsGet, PgidsSave, CollectOutput, Backfill,
           StoreGet, StoreSave, Close, TimeoutFires, TimeoutDone, LaunchFails,
           TaskRaises, ConnectionLost
  <1>4. task' = "storeSave" => snap'[Task].status = "running"
    BY <1>3, <1>n, <1>t DEF StoreGet, RaceInv, ReadsAllow
  <1>5. \A w \in Writers \ {Task} : snap'[w] = snap[w]
    BY <1>n, <1>t
       DEF TaskStep, LaunchSave, AcquireSlot, CreateProcess, ReadHandshake,
           WaitEarlierSteps, PgidsGet, PgidsSave, CollectOutput, Backfill,
           StoreGet, StoreSave, Close, TimeoutFires, TimeoutDone, LaunchFails,
           TaskRaises, ConnectionLost, Forget
  <1>6. /\ hpc' = hpc
        /\ \A k \in Killers : kpc'[k] = "claimSave" => kpc[k] = "claimSave"
    BY <1>t
       DEF TaskStep, LaunchSave, AcquireSlot, CreateProcess, ReadHandshake,
           WaitEarlierSteps, PgidsGet, PgidsSave, CollectOutput, Backfill,
           StoreGet, StoreSave, Close, TimeoutFires, TimeoutDone, LaunchFails,
           TaskRaises, ConnectionLost, elsewhere, killVars, pollVars
  <1>7. ReadsAllow'
    BY <1>4, <1>5, <1>6, <1>n DEF RaceInv, ReadsAllow, Writers
  <1> QED BY <1>2, <1>7 DEF RaceInv

LEMMA KillStepRaces ==
    ASSUME Typed, RaceInv, NEW k \in Killers, KillStep(k) \/ KillRaises(k)
    PROVE  RaceInv'
  <1> USE DEF At, Go, Return, NextPgid, Remains
  <1>n. k \in Writers /\ k \notin Polls /\ k # Task
    BY WritersAssumption DEF Writers
  <1>t. kpc \in [Killers -> KillStates] /\ snap \in [Writers -> Record]
    BY DEF Typed, TypeOK
  <1>1. task' = task /\ hpc' = hpc
    BY DEF KillStep, KillGuard, KillConfig, ClaimGet, ClaimSave, Route, Reload,
           Connect, SoftKill, CheckAlive, HardKill, SignalFails, KilledGet,
           KilledSave, KillRaises, unkilled, taskVars, pollVars
  <1>2. \A w \in Writers \ {k} : snap'[w] = snap[w]
    BY <1>t, <1>n
       DEF KillStep, KillGuard, KillConfig, ClaimGet, ClaimSave, Route, Reload,
           Connect, SoftKill, CheckAlive, HardKill, SignalFails, KilledGet,
           KilledSave, KillRaises, Forget
  <1>3. \A j \in Killers : j # k => kpc'[j] = kpc[j]
    BY <1>t
       DEF KillStep, KillGuard, KillConfig, ClaimGet, ClaimSave, Route, Reload,
           Connect, SoftKill, CheckAlive, HardKill, SignalFails, KilledGet,
           KilledSave, KillRaises
  <1>4. kpc'[k] = "claimSave" => snap'[k].status = "running"
    BY <1>t, <1>n
       DEF KillStep, KillGuard, KillConfig, ClaimGet, ClaimSave, Route, Reload,
           Connect, SoftKill, CheckAlive, HardKill, SignalFails, KilledGet,
           KilledSave, KillRaises
  <1>5. ReadsAllow'
    BY <1>1, <1>2, <1>3, <1>4, <1>n, WritersAssumption
       DEF RaceInv, ReadsAllow, Writers
  <1>6. ASSUME task = "saving"
        PROVE  /\ rec'.status = "none"
               /\ kpc'[k] \in {"idle", "guard", "config", "claimGet", "end"}
    BY <1>6, <1>t
       DEF RaceInv, BeforeSave, KillStep, KillGuard, KillConfig, ClaimGet,
           ClaimSave, Route, Reload, Connect, SoftKill, CheckAlive, HardKill,
           SignalFails, KilledGet, KilledSave, KillRaises
  <1>7. BeforeSave'
    BY <1>1, <1>3, <1>6 DEF RaceInv, BeforeSave
  <1> QED BY <1>5, <1>7 DEF RaceInv

LEMMA PollStepRaces ==
    ASSUME Typed, RaceInv, NEW h \in Polls, PollStep(h) \/ PollRaises(h)
    PROVE  RaceInv'
  <1>n. h \in Writers /\ h \notin Killers /\ h # Task
    BY WritersAssumption DEF Writers
  <1>t. hpc \in [Polls -> PollStates] /\ snap \in [Writers -> Record]
    BY DEF Typed, TypeOK
  <1>1. task' = task /\ kpc' = kpc
    BY DEF PollStep, PollRead, ReadMarker, HealGet, HealSave, PollRaises,
           unpolled, taskVars, killVars
  <1>2. \A w \in Writers \ {h} : snap'[w] = snap[w]
    BY <1>t, <1>n
       DEF PollStep, PollRead, ReadMarker, HealGet, HealSave, PollRaises,
           PollReturns, Forget
  <1>3. \A i \in Polls : i # h => hpc'[i] = hpc[i]
    BY <1>t
       DEF PollStep, PollRead, ReadMarker, HealGet, HealSave, PollRaises,
           PollReturns
  <1>4. hpc'[h] = "healSave" => snap'[h].status \in Transient
    BY <1>t, <1>n
       DEF PollStep, PollRead, ReadMarker, HealGet, HealSave, PollRaises,
           PollReturns
  <1>5. ReadsAllow'
    BY <1>1, <1>2, <1>3, <1>4, <1>n, WritersAssumption
       DEF RaceInv, ReadsAllow, Writers
  <1>6. task # "saving"
    BY DEF RaceInv, BeforeSave, PollStep, PollRead, ReadMarker, HealGet,
           HealSave, PollRaises, Transient
  <1>7. BeforeSave'
    BY <1>1, <1>6 DEF BeforeSave
  <1> QED BY <1>5, <1>7 DEF RaceInv

LEMMA RestRaces ==
    ASSUME Typed, RaceInv,
           \/ ShutdownStarts
           \/ \E k \in Users, pod \in {"owner", "other"}, force \in BOOLEAN :
                   UserKill(k, pod, force)
           \/ \E s \in StepIds : RunEnds(s) \/ TermEnds(s) \/ StragglersEnd(s)
           \/ RecordExpires \/ PodStops \/ UNCHANGED vars
    PROVE  RaceInv'
  <1> USE DEF At, Go, unkilled, aside, flags, taskVars, killVars, pollVars
  <1>t. /\ kpc \in [Killers -> KillStates] /\ snap \in [Writers -> Record]
        /\ Users \subseteq Killers
    BY DEF Typed, TypeOK, Killers
  <1>1. CASE PodStops
    <2>1. task' = "done" /\ hpc' = hpc
      BY <1>1 DEF PodStops
    <2>2. \A k \in Killers :
              kpc'[k] = "claimSave" => kpc[k] = "claimSave" /\ snap'[k] = snap[k]
      BY <1>1, <1>t, WritersAssumption DEF PodStops, Writers
    <2>3. \A h \in Polls : snap'[h] = snap[h]
      BY <1>1, <1>t, WritersAssumption DEF PodStops, Writers
    <2> QED BY <2>1, <2>2, <2>3 DEF RaceInv, BeforeSave, ReadsAllow
  <1>2. CASE ShutdownStarts
    BY <1>2, <1>t DEF ShutdownStarts, RaceInv, BeforeSave, ReadsAllow
  <1>3. ASSUME NEW k \in Users, NEW pod \in {"owner", "other"},
               NEW force \in BOOLEAN, UserKill(k, pod, force)
        PROVE  RaceInv'
    BY <1>3, <1>t DEF UserKill, RaceInv, BeforeSave, ReadsAllow
  <1>4. ASSUME NEW s \in StepIds, RunEnds(s) \/ TermEnds(s) \/ StragglersEnd(s)
        PROVE  RaceInv'
    BY <1>4
       DEF RunEnds, TermEnds, StragglersEnd, RaceInv, BeforeSave, ReadsAllow
  <1>5. CASE RecordExpires
    BY <1>5 DEF RecordExpires, RaceInv, BeforeSave, ReadsAllow, NoRecord
  <1>6. CASE UNCHANGED vars
    BY <1>6 DEF vars, RaceInv, BeforeSave, ReadsAllow
  <1> QED BY <1>1, <1>2, <1>3, <1>4, <1>5, <1>6

LEMMA NextRaces == Typed /\ RaceInv /\ [Next]_vars => RaceInv'
  <1> SUFFICES ASSUME Typed, RaceInv, [Next]_vars PROVE RaceInv'
    OBVIOUS
  <1> QED BY TaskStepRaces, KillStepRaces, PollStepRaces, RestRaces DEF Next

\* Writer w saves: it forgets what it read, which allowed the save, or it is
\* one of the two updates without a condition.
Overturns(w) ==
    /\ snap'[w] = NoRecord
    /\ \/ snap[w].status \in Transient
       \/ w \in Killers /\ kpc[w] = "killedSave"
       \/ w = Task /\ task = "pgSave"

LEMMA StepOverturns ==
    ASSUME Typed, RaceInv, [Next]_vars,
           rec.status \in Terminal, rec'.status \notin {rec.status, "none"}
    PROVE  \E w \in Writers : Overturns(w)
  <1> USE DEF Overturns, Transient
  <1>t. /\ snap \in [Writers -> Record] /\ Task \in Writers
        /\ Killers \subseteq Writers /\ Polls \subseteq Writers
    BY DEF Typed, TypeOK, Writers
  <1>1. CASE TaskStep \/ LaunchFails \/ TaskRaises \/ ConnectionLost
    <2>1. ~LaunchSave
      BY DEF LaunchSave, RaceInv, BeforeSave, Terminal
    <2>2. /\ task \in {"pgSave", "storeSave"}
          /\ snap' = [snap EXCEPT ![Task] = NoRecord]
      BY <1>1, <2>1
         DEF TaskStep, AcquireSlot, CreateProcess, ReadHandshake,
             WaitEarlierSteps, PgidsGet, PgidsSave, CollectOutput, Backfill,
             StoreGet, StoreSave, Close, TimeoutFires, TimeoutDone, LaunchFails,
             TaskRaises, ConnectionLost, TaskInFlight, Forget
    <2>3. Overturns(Task)
      BY <1>t, <2>2 DEF RaceInv, ReadsAllow
    <2> QED BY <1>t, <2>3
  <1>2. ASSUME NEW k \in Killers, KillStep(k) \/ KillRaises(k)
        PROVE  Overturns(k)
    <2>1. /\ kpc[k] \in {"claimSave", "killedSave"}
          /\ snap' = [snap EXCEPT ![k] = NoRecord]
      BY <1>2
         DEF KillStep, KillGuard, KillConfig, ClaimGet, ClaimSave, Route,
             Reload, Connect, SoftKill, CheckAlive, HardKill, SignalFails,
             KilledGet, KilledSave, KillRaises, Forget, At
    <2> QED BY <1>t, <2>1 DEF RaceInv, ReadsAllow
  <1>3. ASSUME NEW h \in Polls, PollStep(h) \/ PollRaises(h)
        PROVE  Overturns(h)
    <2>1. /\ hpc[h] = "healSave"
          /\ snap' = [snap EXCEPT ![h] = NoRecord]
      BY <1>3
         DEF PollStep, PollRead, ReadMarker, HealGet, HealSave, PollRaises,
             PollReturns, Forget
    <2> QED BY <1>t, <2>1 DEF RaceInv, ReadsAllow
  <1>4. rec' = rec \/ rec'.status = "none" \/ TaskStep \/ LaunchFails
            \/ TaskRaises \/ ConnectionLost
            \/ (\E k \in Killers : KillStep(k) \/ KillRaises(k))
            \/ (\E h \in Polls : PollStep(h) \/ PollRaises(h))
    BY DEF Next, vars, ShutdownStarts, UserKill, RunEnds, TermEnds,
           StragglersEnd, RecordExpires, PodStops, aside, NoRecord
  <1> QED BY <1>t, <1>1, <1>2, <1>3, <1>4

\* A terminal status changes only by a writer that read the record while it
\* was not terminal, or by one of the two unconditional updates: what is left
\* of update_if's promise when its GET and its SET are two Redis calls.
THEOREM OverturnNeedsRace == Spec => OnlyRacingWritersOverturn
  <1>1. Typed /\ RaceInv /\ [Next]_vars =>
            [rec.status \in Terminal /\ rec'.status \notin {rec.status, "none"} =>
                \E w \in Writers : Overturns(w)]_vars
    BY StepOverturns
  <1>2. Spec => []RaceInv
    BY InitRaces, NextRaces, AlwaysTyped, PTL DEF Spec
  <1>3. Spec => [][rec.status \in Terminal /\ rec'.status \notin {rec.status, "none"}
                     => \E w \in Writers : Overturns(w)]_vars
    BY <1>1, <1>2, AlwaysTyped, PTL DEF Spec
  <1> QED BY <1>3 DEF OnlyRacingWritersOverturn, Overturns

---------------------------------------------------------------------------
(* What a verdict is worth. SUCCESS and FAILED travel from the exit of the *)
(* last step to the record by two roads: the task's result, and the marker *)
(* that a poll reads and writes. On both, and in every record that any     *)
(* writer holds, the verdict is backed by what the run did.                *)

Succeeded == rc[Steps] = "ok" \/ (logged /\ Steps \in termed)
Fell == rc[Steps] = "err" \/ result = "fail" \/ "ssh" \in Faults

Backed(r) ==
    /\ r.status = "success" => Succeeded
    /\ r.status = "failed" => Fell

\* A process group exits once, after it was created.
ExitsOnce ==
    \A s \in StepIds :
        /\ grp[s] \in {"none", "alive"} => rc[s] = "none"
        /\ s > spawned => grp[s] = "none"
\* The task has a result from the moment it has collected the output.
ResultFollows ==
    /\ result # "none" =>
           task \in {"backfill", "storeGet", "storeSave", "timeout", "closing", "done"}
    /\ task \in {"backfill", "storeGet", "storeSave"} => result # "none"
    /\ result = "ok" => Succeeded
    /\ result = "err" => Fell
    /\ ~conn => task = "done" \/ "ssh" \in Faults
MarkerFollows ==
    /\ marker = "ok" => Succeeded
    /\ marker = "err" => Fell
    /\ \A h \in Polls : (hcode[h] = "ok" => Succeeded) /\ (hcode[h] = "err" => Fell)
    /\ \A h \in Polls : hpc[h] \in {"healGet", "healSave"} => hcode[h] # "none"
RecordsBacked == Backed(rec) /\ \A w \in Writers : Backed(snap[w])

VerdictInv == ExitsOnce /\ ResultFollows /\ MarkerFollows /\ RecordsBacked

LEMMA InitVerdicts == Init => VerdictInv
  BY StepsAssumption
     DEF Init, VerdictInv, ExitsOnce, ResultFollows, MarkerFollows,
         RecordsBacked, Backed, NoRecord

LEMMA WriteBacked ==
    ASSUME NEW r \in Record, Backed(r)
    PROVE  /\ Backed(WithStatus(r, "killing"))
           /\ Backed(WithStatus(r, "killed"))
           /\ Succeeded => Backed(WithStatus(r, "success"))
           /\ Fell => Backed(WithStatus(r, "failed"))
           /\ Backed([r EXCEPT !.pgids = pgids, !.ttl = "run"])
  BY StatusIsRecord DEF Backed, Record

\* What backs a verdict stays true.
BackingStays == (Succeeded => Succeeded') /\ (Fell => Fell')

LEMMA RecordsStayBacked ==
    ASSUME RecordsBacked, BackingStays,
           Backed(rec)' \/ rec' = rec,
           \A w \in Writers : snap'[w] \in {snap[w], rec, NoRecord}
    PROVE  RecordsBacked'
  BY DEF RecordsBacked, Backed, BackingStays, NoRecord

LEMMA TaskStepVerdicts ==
    ASSUME Typed, VerdictInv,
           TaskStep \/ LaunchFails \/ TaskRaises \/ ConnectionLost
    PROVE  VerdictInv'
  <1>n. Task \in Writers /\ snap[Task] \in Record
    BY DEF Writers, Typed, TypeOK
  <1>t. /\ snap \in [Writers -> Record] /\ Steps \in StepIds
        /\ grp \in [StepIds -> {"none", "alive", "left", "gone"}]
        /\ rc \in [StepIds -> {"none", "ok", "err"}]
        /\ spawned \in 0..Steps /\ StepIds = 1..Steps /\ Steps \in Nat
    BY StepsAssumption DEF Typed, TypeOK, StepIds
  <1>1. UNCHANGED <<logged, rc, termed, marker, hpc, hcode>>
    BY DEF TaskStep, LaunchSave, AcquireSlot, CreateProcess, ReadHandshake,
           WaitEarlierSteps, PgidsGet, PgidsSave, CollectOutput, Backfill,
           StoreGet, StoreSave, Close, TimeoutFires, TimeoutDone, LaunchFails,
           TaskRaises, ConnectionLost, elsewhere, flags, remoteVars, pollVars
  <1>2. CreateProcess \/ UNCHANGED <<grp, spawned>>
    BY DEF TaskStep, LaunchSave, AcquireSlot, ReadHandshake, WaitEarlierSteps,
           PgidsGet, PgidsSave, CollectOutput, Backfill, StoreGet, StoreSave,
           Close, TimeoutFires, TimeoutDone, LaunchFails, TaskRaises,
           ConnectionLost, local, elsewhere, remoteVars
  <1>3. ExitsOnce'
    BY <1>1, <1>2, <1>t DEF VerdictInv, ExitsOnce, CreateProcess
  <1>4. BackingStays
    BY <1>1
       DEF VerdictInv, ResultFollows, BackingStays, Succeeded, Fell, TaskStep,
           LaunchSave, AcquireSlot, CreateProcess, ReadHandshake,
           WaitEarlierSteps, PgidsGet, PgidsSave, CollectOutput, Backfill,
           StoreGet, StoreSave, Close, TimeoutFires, TimeoutDone, LaunchFails,
           TaskRaises, ConnectionLost
  <1>5. MarkerFollows'
    BY <1>1, <1>4 DEF VerdictInv, MarkerFollows, BackingStays
  <1>6. ASSUME CollectOutput PROVE ResultFollows'
    <2>1. Ended(Steps) /\ result' = (IF rc[Steps] = "ok" /\ conn THEN "ok" ELSE "err")
      BY <1>6 DEF CollectOutput
    <2>2. result' = "ok" => Succeeded'
      BY <2>1, <1>1 DEF Succeeded
    <2>3. result' = "err" => Fell'
      BY <2>1, <1>1, <1>6, <1>t
         DEF Fell, Ended, VerdictInv, ResultFollows, CollectOutput
    <2>4. task' \in {"backfill", "storeGet"}
      BY <1>6 DEF CollectOutput
    <2>5. ~conn' => "ssh" \in Faults
      BY <1>6 DEF CollectOutput, local, VerdictInv, ResultFollows
    <2> QED BY <2>1, <2>2, <2>3, <2>4, <2>5 DEF ResultFollows
  <1>7. ASSUME ~CollectOutput PROVE ResultFollows'
    <2>1. result' \in {result, "fail"}
      BY <1>7
         DEF TaskStep, LaunchSave, AcquireSlot, CreateProcess, ReadHandshake,
             WaitEarlierSteps, PgidsGet, PgidsSave, Backfill, StoreGet,
             StoreSave, Close, TimeoutFires, TimeoutDone, LaunchFails,
             TaskRaises, ConnectionLost
    <2>2. /\ result' = "ok" => Succeeded'
          /\ result' = "err" => Fell'
      BY <2>1, <1>4 DEF VerdictInv, ResultFollows, BackingStays
    <2>3. /\ result' # "none" =>
                 task' \in {"backfill", "storeGet", "storeSave", "timeout",
                           "closing", "done"}
          /\ task' \in {"backfill", "storeGet", "storeSave"} => result' # "none"
      BY <1>7
         DEF VerdictInv, ResultFollows, TaskStep, LaunchSave, AcquireSlot,
             CreateProcess, ReadHandshake, WaitEarlierSteps, PgidsGet,
             PgidsSave, Backfill, StoreGet, StoreSave, Close, TimeoutFires,
             TimeoutDone, LaunchFails, TaskRaises, ConnectionLost
    <2>4. ~conn' => task' = "done" \/ "ssh" \in Faults
      BY <1>7
         DEF VerdictInv, ResultFollows, TaskStep, LaunchSave, AcquireSlot,
             CreateProcess, ReadHandshake, WaitEarlierSteps, PgidsGet,
             PgidsSave, Backfill, StoreGet, StoreSave, Close, TimeoutFires,
             TimeoutDone, LaunchFails, TaskRaises, ConnectionLost, local
    <2> QED BY <2>2, <2>3, <2>4 DEF ResultFollows
  <1>8. Backed(PgidsWrite)
    BY <1>n, WriteBacked DEF VerdictInv, RecordsBacked, PgidsWrite
  <1>9. task = "storeSave" => Backed(ResultWrite)
    <2>1. Succeeded \/ result # "ok"
      BY DEF VerdictInv, ResultFollows
    <2>2. ASSUME task = "storeSave" PROVE Fell \/ result = "ok"
      BY <2>2 DEF VerdictInv, ResultFollows, Typed, TypeOK, Fell
    <2>3. Backed(snap[Task])
      BY <1>n DEF VerdictInv, RecordsBacked
    <2> QED BY <2>1, <2>2, <2>3, <1>n, WriteBacked DEF ResultWrite
  <1>10. Backed(rec)' \/ rec' = rec
    <2>1. \/ rec' \in {rec, PgidsWrite}
          \/ task = "storeSave" /\ rec' = ResultWrite
          \/ rec'.status = "running"
      BY DEF TaskStep, LaunchSave, AcquireSlot, CreateProcess, ReadHandshake,
             WaitEarlierSteps, PgidsGet, PgidsSave, CollectOutput, Backfill,
             StoreGet, StoreSave, Close, TimeoutFires, TimeoutDone, LaunchFails,
             TaskRaises, ConnectionLost, TaskInFlight
    <2> QED BY <2>1, <1>4, <1>8, <1>9 DEF Backed, BackingStays
  <1>11. \A w \in Writers : snap'[w] \in {snap[w], rec, NoRecord}
    BY <1>n, <1>t
       DEF TaskStep, LaunchSave, AcquireSlot, CreateProcess, ReadHandshake,
           WaitEarlierSteps, PgidsGet, PgidsSave, CollectOutput, Backfill,
           StoreGet, StoreSave, Close, TimeoutFires, TimeoutDone, LaunchFails,
           TaskRaises, ConnectionLost, Forget
  <1>12. RecordsBacked'
    BY <1>4, <1>10, <1>11, RecordsStayBacked DEF VerdictInv
  <1> QED BY <1>3, <1>5, <1>6, <1>7, <1>12 DEF VerdictInv

LEMMA KillStepVerdicts ==
    ASSUME Typed, VerdictInv, NEW k \in Killers, KillStep(k) \/ KillRaises(k)
    PROVE  VerdictInv'
  <1> USE DEF At, Go, Return, NextPgid, Remains
  <1>n. k \in Writers /\ snap[k] \in Record
    BY DEF Writers, Typed, TypeOK
  <1>t. /\ snap \in [Writers -> Record] /\ Steps \in StepIds
        /\ grp \in [StepIds -> {"none", "alive", "left", "gone"}]
        /\ rc \in [StepIds -> {"none", "ok", "err"}]
    BY StepsAssumption DEF Typed, TypeOK, StepIds
  <1>1. UNCHANGED <<logged, task, result, conn, spawned, marker, hpc, hcode>>
    BY DEF KillStep, KillGuard, KillConfig, ClaimGet, ClaimSave, Route, Reload,
           Connect, SoftKill, CheckAlive, HardKill, SignalFails, KilledGet,
           KilledSave, KillRaises, unkilled, flags, taskVars, pollVars,
           remoteVars
  <1>2. \A s \in StepIds :
            \/ grp'[s] = grp[s] /\ rc'[s] = rc[s]
            \/ /\ Remains(s) /\ grp'[s] = "gone"
               /\ rc'[s] = rc[s] \/ (grp[s] = "alive" /\ rc'[s] = "err")
    BY <1>t
       DEF KillStep, KillGuard, KillConfig, ClaimGet, ClaimSave, Route, Reload,
           Connect, SoftKill, CheckAlive, HardKill, SignalFails, KilledGet,
           KilledSave, KillRaises, remoteVars
  <1>3. termed \subseteq termed'
    BY DEF KillStep, KillGuard, KillConfig, ClaimGet, ClaimSave, Route, Reload,
           Connect, SoftKill, CheckAlive, HardKill, SignalFails, KilledGet,
           KilledSave, KillRaises, remoteVars
  <1>4. ExitsOnce'
    BY <1>1, <1>2 DEF VerdictInv, ExitsOnce
  <1>5. BackingStays
    BY <1>1, <1>2, <1>3, <1>t
       DEF VerdictInv, ExitsOnce, BackingStays, Succeeded, Fell
  <1>6. ResultFollows' /\ MarkerFollows'
    BY <1>1, <1>5 DEF VerdictInv, ResultFollows, MarkerFollows, BackingStays
  <1>7. Backed(snap[k])
    BY <1>n DEF VerdictInv, RecordsBacked
  <1>8. Backed(rec)' \/ rec' = rec
    <2>1. rec' \in {rec, WithStatus(snap[k], "killing"), WithStatus(snap[k], "killed")}
      BY DEF KillStep, KillGuard, KillConfig, ClaimGet, ClaimSave, Route,
             Reload, Connect, SoftKill, CheckAlive, HardKill, SignalFails,
             KilledGet, KilledSave, KillRaises
    <2> QED BY <2>1, <1>5, <1>7, <1>n, WriteBacked DEF Backed, BackingStays
  <1>9. \A w \in Writers : snap'[w] \in {snap[w], rec, NoRecord}
    BY <1>n, <1>t
       DEF KillStep, KillGuard, KillConfig, ClaimGet, ClaimSave, Route, Reload,
           Connect, SoftKill, CheckAlive, HardKill, SignalFails, KilledGet,
           KilledSave, KillRaises, Forget
  <1>10. RecordsBacked'
    BY <1>5, <1>8, <1>9, RecordsStayBacked DEF VerdictInv
  <1> QED BY <1>4, <1>6, <1>10 DEF VerdictInv

LEMMA PollStepVerdicts ==
    ASSUME Typed, VerdictInv, NEW h \in Polls, PollStep(h) \/ PollRaises(h)
    PROVE  VerdictInv'
  <1>n. h \in Writers /\ snap[h] \in Record
    BY DEF Writers, Typed, TypeOK
  <1>t. /\ snap \in [Writers -> Record] /\ hpc \in [Polls -> PollStates]
        /\ hcode \in [Polls -> {"none", "ok", "err"}]
        /\ marker \in {"none", "ok", "err"}
    BY DEF Typed, TypeOK
  <1>1. UNCHANGED <<logged, task, result, conn, spawned, marker, grp, rc, termed>>
    BY DEF PollStep, PollRead, ReadMarker, HealGet, HealSave, PollRaises,
           unpolled, flags, taskVars, remoteVars
  <1>2. ExitsOnce' /\ ResultFollows' /\ BackingStays
    BY <1>1
       DEF VerdictInv, ExitsOnce, ResultFollows, BackingStays, Succeeded, Fell
  <1>3. /\ \A i \in Polls : i # h => hcode'[i] = hcode[i] /\ hpc'[i] = hpc[i]
        /\ hcode'[h] \in {hcode[h], marker, "none"}
        /\ hpc'[h] \in {"healGet", "healSave"} => hcode'[h] # "none"
    BY <1>t
       DEF PollStep, PollRead, ReadMarker, HealGet, HealSave, PollRaises,
           PollReturns, VerdictInv, MarkerFollows
  <1>4. MarkerFollows'
    BY <1>1, <1>2, <1>3 DEF VerdictInv, MarkerFollows, BackingStays
  <1>5. hpc[h] = "healSave" => Backed(HealWrite(h))
    BY <1>n, <1>t, WriteBacked
       DEF VerdictInv, RecordsBacked, MarkerFollows, HealWrite
  <1>6. rec' = rec \/ (hpc[h] = "healSave" /\ rec' = HealWrite(h))
    BY DEF PollStep, PollRead, ReadMarker, HealGet, HealSave, PollRaises
  <1>7. Backed(rec)' \/ rec' = rec
    BY <1>2, <1>5, <1>6 DEF Backed, BackingStays
  <1>8. \A w \in Writers : snap'[w] \in {snap[w], rec, NoRecord}
    BY <1>n, <1>t
       DEF PollStep, PollRead, ReadMarker, HealGet, HealSave, PollRaises,
           PollReturns, Forget
  <1>9. RecordsBacked'
    BY <1>2, <1>7, <1>8, RecordsStayBacked DEF VerdictInv
  <1> QED BY <1>2, <1>4, <1>9 DEF VerdictInv

\* The remote host ends a run with a code and leaves that code in the
\* marker, except after SIGTERM.
LEMMA RemoteStepVerdicts ==
    ASSUME Typed, VerdictInv, NEW s \in StepIds,
           RunEnds(s) \/ TermEnds(s) \/ StragglersEnd(s)
    PROVE  VerdictInv'
  <1>t. /\ Steps \in StepIds
        /\ grp \in [StepIds -> {"none", "alive", "left", "gone"}]
        /\ rc \in [StepIds -> {"none", "ok", "err"}]
    BY StepsAssumption DEF Typed, TypeOK, StepIds
  <1>1. UNCHANGED <<logged, task, result, conn, spawned, termed, rec, snap,
                    hpc, hcode>>
    BY DEF RunEnds, TermEnds, StragglersEnd, aside, flags, taskVars, pollVars
  <1>2. /\ \A i \in StepIds \ {s} : grp'[i] = grp[i] /\ rc'[i] = rc[i]
        /\ grp[s] # "none" /\ grp'[s] \in {"left", "gone"}
        /\ rc'[s] = rc[s] \/ (grp[s] = "alive" /\ rc'[s] \in {"ok", "err"})
    BY <1>t DEF RunEnds, TermEnds, StragglersEnd
  <1>3. ExitsOnce'
    BY <1>1, <1>2 DEF VerdictInv, ExitsOnce
  <1>4. BackingStays
    BY <1>1, <1>2, <1>t
       DEF VerdictInv, ExitsOnce, BackingStays, Succeeded, Fell
  <1>5. /\ marker' \in {marker, "ok", "err"}
        /\ marker' = "ok" => marker = "ok" \/ Succeeded'
        /\ marker' = "err" => marker = "err" \/ Fell'
    <2>1. CASE RunEnds(s)
      BY <1>t, <2>1 DEF RunEnds, Leaves, Succeeded, Fell
    <2>2. CASE TermEnds(s)
      BY <1>t, <1>1, <2>2 DEF TermEnds, Leaves, Succeeded
    <2>3. CASE StragglersEnd(s)
      BY <2>3 DEF StragglersEnd, Typed, TypeOK
    <2> QED BY <2>1, <2>2, <2>3
  <1>6. ResultFollows' /\ MarkerFollows'
    BY <1>1, <1>4, <1>5
       DEF VerdictInv, ResultFollows, MarkerFollows, BackingStays
  <1>7. RecordsBacked'
    BY <1>1, <1>4, RecordsStayBacked DEF VerdictInv
  <1> QED BY <1>3, <1>6, <1>7 DEF VerdictInv

LEMMA RestVerdicts ==
    ASSUME Typed, VerdictInv,
           \/ ShutdownStarts
           \/ \E k \in Users, pod \in {"owner", "other"}, force \in BOOLEAN :
                   UserKill(k, pod, force)
           \/ RecordExpires \/ PodStops \/ UNCHANGED vars
    PROVE  VerdictInv'
  <1>1. UNCHANGED <<logged, result, spawned, grp, rc, termed, marker, hpc, hcode>>
    BY DEF ShutdownStarts, UserKill, RecordExpires, PodStops, vars, unkilled,
           flags, taskVars, remoteVars, pollVars
  <1>2. ExitsOnce' /\ BackingStays /\ MarkerFollows'
    BY <1>1
       DEF VerdictInv, ExitsOnce, MarkerFollows, BackingStays, Succeeded, Fell
  <1>3. (PodStops /\ task' = "done") \/ UNCHANGED <<task, conn>>
    BY DEF ShutdownStarts, UserKill, RecordExpires, PodStops, vars, unkilled,
           taskVars
  <1>4. ResultFollows'
    BY <1>1, <1>2, <1>3 DEF VerdictInv, ResultFollows, BackingStays
  <1>5. Backed(rec)' \/ rec' = rec
    BY DEF ShutdownStarts, UserKill, RecordExpires, PodStops, vars, Backed,
           NoRecord
  <1>6. \A w \in Writers : snap'[w] \in {snap[w], rec, NoRecord}
    BY DEF ShutdownStarts, UserKill, RecordExpires, PodStops, vars
  <1>7. RecordsBacked'
    BY <1>2, <1>5, <1>6, RecordsStayBacked DEF VerdictInv
  <1> QED BY <1>2, <1>4, <1>7 DEF VerdictInv

LEMMA NextVerdicts == Typed /\ VerdictInv /\ [Next]_vars => VerdictInv'
  <1> SUFFICES ASSUME Typed, VerdictInv, [Next]_vars PROVE VerdictInv'
    OBVIOUS
  <1> QED BY TaskStepVerdicts, KillStepVerdicts, PollStepVerdicts,
             RemoteStepVerdicts, RestVerdicts DEF Next

\* A SUCCESS in the record is backed by an exit status 0 of the last step,
\* or by the marker of a logged run that was sent SIGTERM; a FAILED by a
\* failed exit or an exception, whichever of the task and the heal wrote it
\* and whatever was lost, raised or interleaved on the way.
THEOREM VerdictBacked == Spec => []VerdictMatchesExit
  <1>1. VerdictInv => VerdictMatchesExit
    BY DEF VerdictInv, RecordsBacked, Backed, Succeeded, Fell, VerdictMatchesExit
  <1>2. Spec => []VerdictInv
    BY InitVerdicts, NextVerdicts, AlwaysTyped, PTL DEF Spec
  <1> QED BY <1>1, <1>2, PTL

---------------------------------------------------------------------------
(* The task as a call of CommandPool. Where the call is (Place) depends on *)
(* the task, on a failure it met and on the timeout's kill, so what is     *)
(* invariant is how far the task must be for one of them to have begun.    *)

FailureInv ==
    /\ result = "fail" => task \in {"storeGet", "storeSave", "closing", "done"}
    /\ kpc[Timeout] # "idle" => task \in {"timeout", "closing", "done"}
    /\ task = "timeout" => kpc[Timeout] # "idle"

LEMMA InitFailure == Init => FailureInv
  BY DEF Init, FailureInv, Killers

LEMMA KillLeavesTask ==
    ASSUME Typed, NEW k \in Killers, KillStep(k) \/ KillRaises(k)
    PROVE  /\ UNCHANGED <<task, result, pool, conn>>
           /\ \A i \in Killers : kpc'[i] = "idle" <=> kpc[i] = "idle"
  <1>1. UNCHANGED <<task, result, pool, conn>>
    BY DEF KillStep, KillGuard, KillConfig, ClaimGet, ClaimSave, Route, Reload,
           Connect, SoftKill, CheckAlive, HardKill, SignalFails, KilledGet,
           KilledSave, KillRaises, unkilled, taskVars
  <1>t. kpc \in [Killers -> KillStates]
    BY DEF Typed, TypeOK
  <1>2. \E p \in KillStates \ {"idle"} : kpc[k] # "idle" /\ kpc' = [kpc EXCEPT ![k] = p]
    BY <1>t
       DEF KillStep, KillGuard, KillConfig, ClaimGet, ClaimSave, Route, Reload,
           Connect, SoftKill, CheckAlive, HardKill, SignalFails, KilledGet,
           KilledSave, KillRaises, At, Go, Return, NextPgid, KillStates
  <1>3. \A i \in Killers : kpc'[i] = "idle" <=> kpc[i] = "idle"
    BY <1>2, <1>t
  <1> QED BY <1>1, <1>3

\* Every other step leaves the task where it is, or stops the pod.
LEMMA RestLeavesTask ==
    ASSUME Typed,
           \/ ShutdownStarts
           \/ \E k \in Users, pod \in {"owner", "other"}, force \in BOOLEAN :
                   UserKill(k, pod, force)
           \/ \E h \in Polls : PollStep(h) \/ PollRaises(h)
           \/ \E s \in StepIds : RunEnds(s) \/ TermEnds(s) \/ StragglersEnd(s)
           \/ RecordExpires \/ PodStops \/ UNCHANGED vars
    PROVE  /\ PodStops \/ UNCHANGED <<task, pool, conn>>
           /\ result' = result
           /\ kpc'[Timeout] = "idle" <=> kpc[Timeout] = "idle"
  <1>t. kpc \in [Killers -> KillStates] /\ Timeout \in Killers
    BY DEF Typed, TypeOK, Killers
  <1>1. /\ PodStops \/ UNCHANGED <<task, pool, conn>>
        /\ result' = result
    BY DEF ShutdownStarts, UserKill, PollStep, PollRead, ReadMarker, HealGet,
           HealSave, PollRaises, RunEnds, TermEnds, StragglersEnd,
           RecordExpires, PodStops, unkilled, unpolled, aside, taskVars, vars
  <1>2. CASE ShutdownStarts
    BY <1>2, <1>t, <1>1, WritersAssumption DEF ShutdownStarts, Go
  <1>3. CASE \E k \in Users, pod \in {"owner", "other"}, force \in BOOLEAN :
                   UserKill(k, pod, force)
    BY <1>3, <1>t, <1>1, WritersAssumption DEF UserKill, Go
  <1>4. CASE PodStops
    BY <1>4, <1>t, <1>1 DEF PodStops
  <1>5. CASE UNCHANGED kpc
    BY <1>5, <1>1
  <1> QED
    BY <1>2, <1>3, <1>4, <1>5
       DEF PollStep, PollRead, ReadMarker, HealGet, HealSave, PollRaises,
           RunEnds, TermEnds, StragglersEnd, RecordExpires, unpolled, aside,
           killVars, vars

LEMMA NextFailure == Typed /\ FailureInv /\ [Next]_vars => FailureInv'
  <1> SUFFICES ASSUME Typed, FailureInv, [Next]_vars PROVE FailureInv'
    OBVIOUS
  <1>t. kpc \in [Killers -> KillStates] /\ Timeout \in Killers
    BY DEF Typed, TypeOK, Killers
  <1>1. CASE TaskStep \/ LaunchFails \/ TaskRaises \/ ConnectionLost
    BY <1>1, <1>t
       DEF FailureInv, TaskStep, LaunchSave, AcquireSlot, CreateProcess,
           ReadHandshake, WaitEarlierSteps, PgidsGet, PgidsSave,
           CollectOutput, Backfill, StoreGet, StoreSave, Close, TimeoutFires,
           TimeoutDone, LaunchFails, TaskRaises, ConnectionLost, elsewhere,
           killVars
  <1>2. ASSUME NEW k \in Killers, KillStep(k) \/ KillRaises(k) PROVE FailureInv'
    BY <1>2, <1>t, KillLeavesTask DEF FailureInv
  <1>3. CASE \/ ShutdownStarts
             \/ \E k \in Users, pod \in {"owner", "other"}, force \in BOOLEAN :
                     UserKill(k, pod, force)
             \/ \E h \in Polls : PollStep(h) \/ PollRaises(h)
             \/ \E s \in StepIds : RunEnds(s) \/ TermEnds(s) \/ StragglersEnd(s)
             \/ RecordExpires \/ PodStops \/ UNCHANGED vars
    <2>1. PodStops => task' = "done"
      BY DEF PodStops
    <2>2. /\ PodStops \/ UNCHANGED <<task, pool, conn>>
          /\ result' = result
          /\ kpc'[Timeout] = "idle" <=> kpc[Timeout] = "idle"
      BY <1>3, RestLeavesTask
    <2> QED BY <2>1, <2>2 DEF FailureInv
  <1> QED BY <1>1, <1>2, <1>3 DEF Next

\* What a move of the task is to CommandPool.
LEMMA MovesMap ==
    ASSUME \/ /\ UNCHANGED <<pool, conn>>
              /\ \/ Place = "saving" /\ Place' = "created"
                 \/ Place = "saving" /\ Place' = "lost" /\ "redis" \in Faults
                 \/ Place = "created" /\ Place' = "holding"
                 \/ Place = "holding" /\ Place' = "handling"
           \/ /\ Place \in {"holding", "handling"} /\ Place' = "done"
              /\ pool' = FALSE /\ conn' = FALSE
           \/ /\ "ssh" \in Faults /\ conn /\ conn' = FALSE
              /\ Place' = Place /\ pool' = pool
    PROVE  Calls!Next
  <1> USE DEF Calls!Goto, Calls!Release
  <1>1. CASE UNCHANGED <<pool, conn>> /\ Place = "saving" /\ Place' = "created"
    <2>1. Calls!Save(Task)
      BY <1>1 DEF Calls!Save
    <2> QED BY <2>1 DEF Calls!Next, Calls!TaskStep
  <1>2. CASE /\ UNCHANGED <<pool, conn>>
             /\ Place = "saving" /\ Place' = "lost" /\ "redis" \in Faults
    <2>1. Calls!SaveFails(Task)
      BY <1>2 DEF Calls!SaveFails
    <2> QED BY <2>1 DEF Calls!Next
  <1>3. CASE UNCHANGED <<pool, conn>> /\ Place = "created" /\ Place' = "holding"
    <2>1. Calls!Acquire(Task)
      BY <1>3 DEF Calls!Acquire
    <2> QED BY <2>1 DEF Calls!Next, Calls!TaskStep
  <1>4. CASE UNCHANGED <<pool, conn>> /\ Place = "holding" /\ Place' = "handling"
    <2>1. Calls!WorkFails(Task)
      BY <1>4 DEF Calls!WorkFails
    <2> QED BY <2>1 DEF Calls!Next, Calls!TaskStep
  <1>5. CASE Place = "holding" /\ Place' = "done" /\ pool' = FALSE /\ conn' = FALSE
    <2>1. Calls!WorkEnds(Task)
      BY <1>5 DEF Calls!WorkEnds
    <2> QED BY <2>1 DEF Calls!Next, Calls!TaskStep
  <1>6. CASE Place = "handling" /\ Place' = "done" /\ pool' = FALSE /\ conn' = FALSE
    <2>1. Calls!Handled(Task)
      BY <1>6 DEF Calls!Handled
    <2> QED BY <2>1 DEF Calls!Next, Calls!TaskStep
  <1>7. CASE /\ "ssh" \in Faults /\ conn /\ conn' = FALSE
             /\ Place' = Place /\ pool' = pool
    <2>1. Calls!ConnectionDrops(Task)
      BY <1>7 DEF Calls!ConnectionDrops
    <2> QED BY <2>1 DEF Calls!Next
  <1> QED BY <1>1, <1>2, <1>3, <1>4, <1>5, <1>6, <1>7

LEMMA StillMaps ==
    ASSUME UNCHANGED <<pool, conn>>, Place' = Place
    PROVE  UNCHANGED Calls!vars
  BY DEF Calls!vars

\* Each step of the task is one of these moves, or none.
LEMMA TaskStepMaps ==
    ASSUME Typed, FailureInv,
           TaskStep \/ LaunchFails \/ TaskRaises \/ ConnectionLost
    PROVE  [Calls!Next]_(Calls!vars)
  <1> USE DEF FailureInv, Place, local, elsewhere, killVars
  <1>t. kpc \in [Killers -> KillStates] /\ Timeout \in Killers
    BY DEF Typed, TypeOK, Killers
  <1>1. CASE LaunchSave
    BY <1>1, MovesMap DEF LaunchSave
  <1>2. CASE AcquireSlot
    BY <1>2, MovesMap DEF AcquireSlot
  <1>3. CASE CreateProcess
    BY <1>3, StillMaps DEF CreateProcess
  <1>4. CASE ReadHandshake
    BY <1>4, StillMaps DEF ReadHandshake
  <1>5. CASE WaitEarlierSteps
    BY <1>5, StillMaps DEF WaitEarlierSteps
  <1>6. CASE PgidsGet
    BY <1>6, MovesMap, StillMaps DEF PgidsGet
  <1>7. CASE PgidsSave
    BY <1>7, StillMaps DEF PgidsSave
  <1>8. CASE CollectOutput
    BY <1>8, StillMaps DEF CollectOutput
  <1>9. CASE Backfill
    BY <1>9, MovesMap, StillMaps DEF Backfill
  <1>10. CASE StoreGet
    BY <1>10, MovesMap, StillMaps DEF StoreGet
  <1>11. CASE StoreSave
    BY <1>11, StillMaps DEF StoreSave
  <1>12. CASE Close
    BY <1>12, MovesMap DEF Close
  <1>13. CASE TimeoutFires
    BY <1>13, MovesMap, <1>t DEF TimeoutFires
  <1>14. CASE TimeoutDone
    BY <1>14, StillMaps DEF TimeoutDone
  <1>15. CASE LaunchFails
    BY <1>15, MovesMap DEF LaunchFails
  <1>16. CASE TaskRaises
    BY <1>16, MovesMap, StillMaps DEF TaskRaises
  <1>17. CASE ConnectionLost
    BY <1>17, MovesMap DEF ConnectionLost
  <1> QED BY <1>1, <1>2, <1>3, <1>4, <1>5, <1>6, <1>7, <1>8, <1>9, <1>10,
             <1>11, <1>12, <1>13, <1>14, <1>15, <1>16, <1>17 DEF TaskStep

LEMMA NextMaps ==
    ASSUME Typed, FailureInv, [Next]_vars
    PROVE  [up' => Calls!Next]_(Calls!vars)
  <1>1. CASE TaskStep \/ LaunchFails \/ TaskRaises \/ ConnectionLost
    BY <1>1, TaskStepMaps
  <1>2. ASSUME NEW k \in Killers, KillStep(k) \/ KillRaises(k)
        PROVE  UNCHANGED Calls!vars
    <2>1. /\ UNCHANGED <<task, result, pool, conn>>
          /\ kpc'[Timeout] = "idle" <=> kpc[Timeout] = "idle"
      BY <1>2, KillLeavesTask DEF Killers
    <2> QED BY <2>1, StillMaps DEF Place
  <1>3. CASE \/ ShutdownStarts
             \/ \E k \in Users, pod \in {"owner", "other"}, force \in BOOLEAN :
                     UserKill(k, pod, force)
             \/ \E h \in Polls : PollStep(h) \/ PollRaises(h)
             \/ \E s \in StepIds : RunEnds(s) \/ TermEnds(s) \/ StragglersEnd(s)
             \/ RecordExpires \/ PodStops \/ UNCHANGED vars
    <2>1. /\ PodStops \/ UNCHANGED <<task, pool, conn>>
          /\ result' = result
          /\ kpc'[Timeout] = "idle" <=> kpc[Timeout] = "idle"
      BY <1>3, RestLeavesTask
    <2>2. CASE UNCHANGED <<task, pool, conn>>
      BY <2>1, <2>2, StillMaps DEF Place
    <2>3. CASE PodStops
      BY <2>3 DEF PodStops
    <2> QED BY <2>1, <2>2, <2>3
  <1> QED BY <1>1, <1>2, <1>3 DEF Next

\* While its pod is up, the task of a run takes the steps CommandPool lets a
\* call take, in whatever order kills, polls, faults and the timeout come:
\* what is proved of the pool (its slots, its order of service) rests on
\* what the task really does.
THEOREM TaskKeepsToThePool == Spec => TaskIsPoolCall
  <1>1. Typed /\ FailureInv /\ [Next]_vars => [up' => Calls!Next]_(Calls!vars)
    BY NextMaps
  <1>2. Spec => []FailureInv
    BY InitFailure, NextFailure, AlwaysTyped, PTL DEF Spec
  <1> QED BY <1>1, <1>2, AlwaysTyped, PTL DEF Spec, TaskIsPoolCall

---------------------------------------------------------------------------
(* A kill is complete. Without SSH faults the PGIDs known to the entry,    *)
(* the record and every reader are none or those of all the steps, once    *)
(* all of them were created; a kill then goes through all of them, and no  *)
(* group it has seen to the end comes back. A kill whose connection was    *)
(* closed under it (by the task's finally branch) is no longer usable and  *)
(* never becomes so again.                                                 *)

AllKnown == pgids = StepIds /\ spawned = Steps
Whole(known) == known = {} \/ (known = StepIds /\ AllKnown)

HandshakesInOrder ==
    /\ task \in {"saving", "queued", "spawn"} => seen = 1..spawned
    /\ task = "handshake" => seen = 1..(spawned - 1)
    /\ task \in {"saving", "queued", "spawn", "handshake"} => pgids = {}
PgidsWhole ==
    Whole(pgids) /\ Whole(rec.pgids) /\ \A w \in Writers : Whole(snap[w].pgids)

NotYet == {"idle", "guard", "config", "claimGet", "claimSave", "route", "reload"}
KillThorough(k) ==
    /\ kpc[k] \in NotYet => kdone[k] = {}
    /\ kpc[k] = "connect" => kleft[k] = StepIds /\ kdone[k] = {} /\ AllKnown
    /\ kpc[k] \in {"term", "grace", "hard"} =>
           /\ kleft[k] # {} /\ AllKnown
           /\ Usable(k) => kleft[k] \cup kdone[k] = StepIds
    /\ kpc[k] \in {"killedGet", "killedSave"} /\ Usable(k) =>
           kdone[k] \in {{}, StepIds}
    /\ kdone[k] # {} => AllKnown
    /\ \A s \in kdone[k] : ~Remains(s)

CompleteInv == HandshakesInOrder /\ PgidsWhole /\ \A k \in Killers : KillThorough(k)

LEMMA InitComplete == Init => CompleteInv
  <1> SUFFICES ASSUME Init PROVE CompleteInv
    OBVIOUS
  <1>1. 1..spawned = {}
    BY DEF Init
  <1> QED BY <1>1
       DEF Init, CompleteInv, HandshakesInOrder, PgidsWhole, Whole, NoRecord,
           KillThorough, NotYet

\* What is known of the PGIDs, and a group seen to its end, stay so.
KnownStays ==
    AllKnown => AllKnown' /\ \A s \in StepIds : ~Remains(s) => ~Remains(s)'

LEMMA PgidsStayWhole ==
    ASSUME PgidsWhole, KnownStays,
           Whole(pgids)',
           rec'.pgids \in {{}, rec.pgids} \cup {snap[w].pgids : w \in Writers}
               \/ Whole(rec.pgids)',
           \A w \in Writers : snap'[w] \in {snap[w], rec, NoRecord}
    PROVE  PgidsWhole'
  BY DEF PgidsWhole, Whole, KnownStays, NoRecord

\* A kill that does not move, or is started or ended from outside.
LEMMA KillStaysThorough ==
    ASSUME Typed, KnownStays, NEW k \in Killers, KillThorough(k),
           conn' => conn,
           \/ kpc'[k] \in {kpc[k], "end"}
           \/ kpc[k] = "idle" /\ kpc'[k] = "guard",
           kconn'[k] = kconn[k], kleft'[k] = kleft[k], kdone'[k] = kdone[k]
    PROVE  KillThorough(k)'
  <1>1. kdone[k] \subseteq StepIds
    BY DEF Typed, TypeOK
  <1> QED BY <1>1 DEF KillThorough, KnownStays, Usable, NotYet

LEMMA TaskStepComplete ==
    ASSUME "ssh" \notin Faults, Typed, FailureInv, CompleteInv,
           TaskStep \/ LaunchFails \/ TaskRaises \/ ConnectionLost
    PROVE  CompleteInv'
  <1> USE DEF CompleteInv
  <1>t. /\ snap \in [Writers -> Record] /\ rec \in Record /\ Task \in Writers
        /\ kpc \in [Killers -> KillStates] /\ spawned \in 0..Steps
        /\ grp \in [StepIds -> {"none", "alive", "left", "gone"}]
        /\ StepIds = 1..Steps /\ Steps \in Nat \ {0} /\ Timeout \in Killers
        /\ task = "handshake" => spawned \in StepIds
    BY StepsAssumption DEF Typed, TypeOK, Writers, Killers, StepIds
  <1>1. ASSUME ReadHandshake PROVE HandshakesInOrder' /\ Whole(pgids)'
    <2>0. 1..(spawned - 1) \cup {spawned} = 1..spawned
      BY <1>1, <1>t DEF ReadHandshake
    <2>1. /\ seen' = 1..spawned /\ pgids = {} /\ spawned' = spawned
          /\ IF spawned < Steps
             THEN task' = "spawn" /\ pgids' = pgids
             ELSE task' = "wait" /\ pgids' = seen'
      BY <1>1, <2>0 DEF ReadHandshake, HandshakesInOrder
    <2> QED BY <2>1, <1>t DEF HandshakesInOrder, Whole, AllKnown
  <1>2. ASSUME ~ReadHandshake PROVE HandshakesInOrder' /\ Whole(pgids)'
    <2>1. CASE CreateProcess
      <3>1. /\ task' = "handshake" /\ spawned' = spawned + 1 /\ pgids' = pgids
            /\ pgids = {} /\ seen' = seen /\ seen = 1..spawned
        BY <2>1 DEF CreateProcess, HandshakesInOrder
      <3>2. 1..((spawned + 1) - 1) = 1..spawned
        BY <1>t
      <3> QED BY <3>1, <3>2 DEF HandshakesInOrder, Whole
    <2>2. ASSUME ~CreateProcess
          PROVE  /\ UNCHANGED <<pgids, spawned, seen>>
                 /\ task' \in {"saving", "queued", "spawn", "handshake"} =>
                        \/ task' = task
                        \/ task = "saving" /\ task' = "queued"
                        \/ task = "queued" /\ task' = "spawn"
      BY <1>2, <2>2
         DEF TaskStep, LaunchSave, AcquireSlot, WaitEarlierSteps, PgidsGet,
             PgidsSave, CollectOutput, Backfill, StoreGet, StoreSave, Close,
             TimeoutFires, TimeoutDone, LaunchFails, TaskRaises,
             ConnectionLost, local
    <2> QED BY <2>1, <2>2 DEF HandshakesInOrder, PgidsWhole, Whole, AllKnown
  <1>3. KnownStays
    <2>1. CASE ReadHandshake
      BY <2>1, <1>t
         DEF ReadHandshake, KnownStays, HandshakesInOrder, AllKnown
    <2>2. CASE CreateProcess
      BY <2>2, <1>t DEF CreateProcess, KnownStays, AllKnown
    <2>3. CASE UNCHANGED <<pgids, spawned, grp>>
      BY <2>3 DEF KnownStays, AllKnown, Remains
    <2> QED BY <2>1, <2>2, <2>3
         DEF TaskStep, LaunchSave, AcquireSlot, WaitEarlierSteps, PgidsGet,
             PgidsSave, CollectOutput, Backfill, StoreGet, StoreSave, Close,
             TimeoutFires, TimeoutDone, LaunchFails, TaskRaises,
             ConnectionLost, local, elsewhere, remoteVars
  <1>4. /\ task = "pgSave" => PgidsWrite.pgids = pgids
        /\ ResultWrite.pgids = snap[Task].pgids
    BY <1>t DEF PgidsWrite, ResultWrite, WithStatus, Record
  <1>5. \/ rec'.pgids \in {{}, rec.pgids} \cup {snap[w].pgids : w \in Writers}
        \/ Whole(rec.pgids)'
    <2>1. \/ rec' = rec
          \/ rec'.pgids = {}
          \/ task = "pgSave" /\ rec' = PgidsWrite /\ pgids' = pgids
          \/ rec' = ResultWrite
      BY DEF TaskStep, LaunchSave, AcquireSlot, CreateProcess, ReadHandshake,
             WaitEarlierSteps, PgidsGet, PgidsSave, CollectOutput, Backfill,
             StoreGet, StoreSave, Close, TimeoutFires, TimeoutDone, LaunchFails,
             TaskRaises, ConnectionLost, TaskInFlight, local
    <2>2. CASE task = "pgSave" /\ rec' = PgidsWrite /\ pgids' = pgids
      BY <2>2, <1>1, <1>2, <1>4 DEF Whole
    <2> QED BY <2>1, <2>2, <1>4, <1>t
  <1>6. \A w \in Writers : snap'[w] \in {snap[w], rec, NoRecord}
    BY <1>t
       DEF TaskStep, LaunchSave, AcquireSlot, CreateProcess, ReadHandshake,
           WaitEarlierSteps, PgidsGet, PgidsSave, CollectOutput, Backfill,
           StoreGet, StoreSave, Close, TimeoutFires, TimeoutDone, LaunchFails,
           TaskRaises, ConnectionLost, Forget
  <1>7. PgidsWhole'
    BY <1>1, <1>2, <1>3, <1>5, <1>6, PgidsStayWhole
  <1>8. /\ UNCHANGED <<kconn, kleft, kdone>>
        /\ conn' => conn
        /\ \A k \in Killers :
               kpc'[k] = kpc[k] \/ (kpc[k] = "idle" /\ kpc'[k] = "guard")
    <2>1. CASE TimeoutFires
      <3>1. kpc[Timeout] = "idle"
        BY <2>1 DEF TimeoutFires, FailureInv
      <3> QED BY <2>1, <3>1, <1>t DEF TimeoutFires, local
    <2>2. ASSUME ~TimeoutFires
          PROVE  /\ UNCHANGED <<kpc, kconn, kleft, kdone>>
                 /\ conn' = conn \/ ~conn'
      BY <2>2
         DEF TaskStep, LaunchSave, AcquireSlot, CreateProcess, ReadHandshake,
             WaitEarlierSteps, PgidsGet, PgidsSave, CollectOutput, Backfill,
             StoreGet, StoreSave, Close, TimeoutDone, LaunchFails, TaskRaises,
             ConnectionLost, local, elsewhere, killVars
    <2> QED BY <2>1, <2>2
  <1>9. \A k \in Killers : KillThorough(k)'
    BY <1>3, <1>8, KillStaysThorough
  <1> QED BY <1>1, <1>2, <1>7, <1>9

\* A kill's own step: through all the PGIDs it found, one after the other.
LEMMA OwnStepThorough ==
    ASSUME "ssh" \notin Faults, Typed, PgidsWhole, NEW k \in Killers,
           KillThorough(k), KnownStays, KillStep(k) \/ KillRaises(k)
    PROVE  KillThorough(k)'
  <1> USE DEF At, Go, KillThorough, KnownStays, NotYet
  <1>t. /\ kpc \in [Killers -> KillStates]
        /\ kconn \in [Killers -> {"none", "task", "own"}]
        /\ kleft \in [Killers -> SUBSET StepIds]
        /\ kdone \in [Killers -> SUBSET StepIds]
        /\ grp \in [StepIds -> {"none", "alive", "left", "gone"}]
    BY DEF Typed, TypeOK
  <1>c. conn' = conn
    BY DEF KillStep, KillGuard, KillConfig, ClaimGet, ClaimSave, Route, Reload,
           Connect, SoftKill, CheckAlive, HardKill, SignalFails, KilledGet,
           KilledSave, KillRaises, unkilled, taskVars
  <1>s. StepIds # {}
    BY StepsAssumption DEF StepIds
  <1>1. CASE KillGuard(k) \/ KillConfig(k) \/ ClaimGet(k) \/ ClaimSave(k)
    <2>1. /\ kpc[k] \in NotYet /\ kpc'[k] \in NotYet \cup {"end"}
          /\ kdone'[k] = kdone[k]
      BY <1>1, <1>t DEF KillGuard, KillConfig, ClaimGet, ClaimSave
    <2> QED BY <2>1
  <1>2. CASE Route(k)
    <2>1. /\ kdone'[k] = {} /\ kpc[k] = "route"
          /\ \/ kpc'[k] \in {"reload", "killedGet"}
             \/ kpc'[k] = "term" /\ pgids # {} /\ kleft'[k] = pgids
      BY <1>2, <1>t DEF Route
    <2>2. pgids # {} => pgids = StepIds /\ AllKnown
      BY DEF PgidsWhole, Whole
    <2> QED BY <2>1, <2>2, <1>s
  <1>3. CASE Reload(k)
    <2>1. /\ kdone'[k] = {} /\ kpc[k] = "reload"
          /\ \/ kpc'[k] \in {"end", "killedGet"}
             \/ kpc'[k] = "connect" /\ rec.pgids # {} /\ kleft'[k] = rec.pgids
      BY <1>3, <1>t DEF Reload
    <2>2. rec.pgids # {} => rec.pgids = StepIds /\ AllKnown
      BY DEF PgidsWhole, Whole
    <2> QED BY <2>1, <2>2
  <1>4. CASE Connect(k)
    <2>1. /\ kpc[k] = "connect" /\ kpc'[k] = "term"
          /\ kleft'[k] = kleft[k] /\ kdone'[k] = kdone[k]
      BY <1>4, <1>t DEF Connect
    <2> QED BY <2>1, <1>s
  <1>5. CASE SoftKill(k)
    <2>1. /\ kpc[k] = "term" /\ kpc'[k] = "grace" /\ kconn' = kconn
          /\ kleft' = kleft /\ kdone' = kdone
      BY <1>5, <1>t DEF SoftKill
    <2> QED BY <2>1, <1>c, <1>t DEF Usable
  <1>6. CASE CheckAlive(k)
    <2>1. PICK s \in StepIds :
              /\ Turn(k, s)
              /\ \/ /\ Remains(s)
                    /\ Go(k, "hard") /\ UNCHANGED <<kleft, kdone>>
                 \/ /\ ~Remains(s)
                    /\ NextPgid(k, s)
                    /\ kdone' = [kdone EXCEPT ![k] = @ \cup {s}]
      BY <1>6 DEF CheckAlive
    <2>2. kpc[k] = "grace" /\ kconn' = kconn /\ s \in kleft[k] /\ Usable(k)
      BY <1>6, <2>1 DEF CheckAlive, Turn
    <2>3. CASE Go(k, "hard") /\ UNCHANGED <<kleft, kdone>>
      <3>1. kpc'[k] = "hard" /\ kleft'[k] = kleft[k] /\ kdone'[k] = kdone[k]
        BY <2>3, <1>t
      <3> QED BY <3>1, <2>2, <1>c, <1>t DEF Usable
    <2>4. CASE /\ ~Remains(s)
               /\ NextPgid(k, s)
               /\ kdone' = [kdone EXCEPT ![k] = @ \cup {s}]
      <3>1. /\ kleft'[k] = kleft[k] \ {s} /\ kdone'[k] = kdone[k] \cup {s}
            /\ kpc'[k] = IF kleft[k] = {s} THEN "killedGet" ELSE "term"
        BY <2>4, <1>t DEF NextPgid
      <3> QED BY <3>1, <2>2, <2>4, <1>c, <1>t
    <2> QED BY <2>1, <2>3, <2>4
  <1>7. CASE HardKill(k)
    <2>1. PICK s \in StepIds :
              /\ Turn(k, s)
              /\ grp' = [grp EXCEPT ![s] = IF Remains(s) THEN "gone" ELSE @]
              /\ NextPgid(k, s)
              /\ kdone' = [kdone EXCEPT ![k] = @ \cup {s}]
      BY <1>7 DEF HardKill
    <2>2. kpc[k] = "hard" /\ kconn' = kconn /\ s \in kleft[k] /\ Usable(k)
      BY <1>7, <2>1 DEF HardKill, Turn
    <2>3. ~Remains(s)'
      BY <2>1, <1>t DEF Remains
    <2>4. /\ kleft'[k] = kleft[k] \ {s} /\ kdone'[k] = kdone[k] \cup {s}
          /\ kpc'[k] = IF kleft[k] = {s} THEN "killedGet" ELSE "term"
      BY <2>1, <1>t DEF NextPgid
    <2> QED BY <2>2, <2>3, <2>4, <1>c, <1>t
  <1>8. CASE SignalFails(k)
    <2>1. PICK s \in StepIds : Turn(k, s) /\ NextPgid(k, s)
      BY <1>8 DEF SignalFails
    <2>2. /\ kpc[k] \in {"term", "grace", "hard"} /\ kconn' = kconn
          /\ kdone' = kdone /\ ~Usable(k) /\ s \in kleft[k]
      BY <1>8, <2>1 DEF SignalFails, Turn
    <2>3. /\ kleft'[k] = kleft[k] \ {s}
          /\ kpc'[k] = IF kleft[k] = {s} THEN "killedGet" ELSE "term"
      BY <2>1, <1>t DEF NextPgid
    <2>4. ~Usable(k)'
      BY <2>2, <1>c DEF Usable
    <2> QED BY <2>2, <2>3, <2>4, <1>t
  <1>9. CASE KilledGet(k) \/ KilledSave(k) \/ KillRaises(k)
    <2>1. \/ kpc'[k] = "end" /\ kdone'[k] = {}
          \/ /\ kpc[k] = "killedGet" /\ kpc'[k] = "killedSave"
             /\ kdone'[k] = kdone[k] /\ kconn'[k] = kconn[k]
      BY <1>9, <1>t DEF KilledGet, KilledSave, KillRaises, Return
    <2> QED BY <2>1, <1>c, <1>t DEF Usable
  <1> QED BY <1>1, <1>2, <1>3, <1>4, <1>5, <1>6, <1>7, <1>8, <1>9 DEF KillStep

LEMMA KillStepComplete ==
    ASSUME "ssh" \notin Faults, Typed, CompleteInv,
           NEW k \in Killers, KillStep(k) \/ KillRaises(k)
    PROVE  CompleteInv'
  <1> USE DEF At, Go, Return, NextPgid
  <1>t. /\ snap \in [Writers -> Record] /\ rec \in Record /\ k \in Writers
        /\ kpc \in [Killers -> KillStates]
        /\ kconn \in [Killers -> {"none", "task", "own"}]
        /\ kleft \in [Killers -> SUBSET StepIds]
        /\ kdone \in [Killers -> SUBSET StepIds]
        /\ grp \in [StepIds -> {"none", "alive", "left", "gone"}]
    BY DEF Typed, TypeOK, Writers
  <1>1. UNCHANGED <<task, conn, pgids, spawned, seen>>
    BY DEF KillStep, KillGuard, KillConfig, ClaimGet, ClaimSave, Route, Reload,
           Connect, SoftKill, CheckAlive, HardKill, SignalFails, KilledGet,
           KilledSave, KillRaises, unkilled, taskVars
  <1>2. \A s \in StepIds : ~Remains(s) => ~Remains(s)'
    BY <1>t
       DEF KillStep, KillGuard, KillConfig, ClaimGet, ClaimSave, Route, Reload,
           Connect, SoftKill, CheckAlive, HardKill, SignalFails, KilledGet,
           KilledSave, KillRaises, remoteVars, Remains
  <1>3. KnownStays /\ HandshakesInOrder'
    BY <1>1, <1>2 DEF CompleteInv, KnownStays, AllKnown, HandshakesInOrder
  <1>4. rec' = rec \/ rec'.pgids = snap[k].pgids
    <2>1. rec' \in {rec, WithStatus(snap[k], "killing"), WithStatus(snap[k], "killed")}
      BY DEF KillStep, KillGuard, KillConfig, ClaimGet, ClaimSave, Route,
             Reload, Connect, SoftKill, CheckAlive, HardKill, SignalFails,
             KilledGet, KilledSave, KillRaises
    <2>2. \A status \in {"killing", "killed"} :
              WithStatus(snap[k], status).pgids = snap[k].pgids
      BY <1>t DEF WithStatus, Record
    <2> QED BY <2>1, <2>2
  <1>5. \A w \in Writers : snap'[w] \in {snap[w], rec, NoRecord}
    BY <1>t
       DEF KillStep, KillGuard, KillConfig, ClaimGet, ClaimSave, Route, Reload,
           Connect, SoftKill, CheckAlive, HardKill, SignalFails, KilledGet,
           KilledSave, KillRaises, Forget
  <1>6. PgidsWhole'
    BY <1>1, <1>3, <1>4, <1>5, <1>t, PgidsStayWhole
       DEF CompleteInv, PgidsWhole, Whole, AllKnown
  <1>7. \A j \in Killers \ {k} :
            /\ kpc'[j] = kpc[j] /\ kconn'[j] = kconn[j]
            /\ kleft'[j] = kleft[j] /\ kdone'[j] = kdone[j]
    BY <1>t
       DEF KillStep, KillGuard, KillConfig, ClaimGet, ClaimSave, Route, Reload,
           Connect, SoftKill, CheckAlive, HardKill, SignalFails, KilledGet,
           KilledSave, KillRaises
  <1>8. \A j \in Killers \ {k} : KillThorough(j)'
    BY <1>1, <1>3, <1>7, KillStaysThorough DEF CompleteInv
  <1>9. KillThorough(k)'
    BY <1>3, OwnStepThorough DEF CompleteInv
  <1> QED BY <1>3, <1>6, <1>8, <1>9 DEF CompleteInv

LEMMA RestComplete ==
    ASSUME "ssh" \notin Faults, Typed, CompleteInv,
           \/ ShutdownStarts
           \/ \E k \in Users, pod \in {"owner", "other"}, force \in BOOLEAN :
                   UserKill(k, pod, force)
           \/ \E h \in Polls : PollStep(h) \/ PollRaises(h)
           \/ \E s \in StepIds : RunEnds(s) \/ TermEnds(s) \/ StragglersEnd(s)
           \/ RecordExpires \/ PodStops \/ UNCHANGED vars
    PROVE  CompleteInv'
  <1>t. /\ snap \in [Writers -> Record] /\ rec \in Record
        /\ kpc \in [Killers -> KillStates] /\ Polls \subseteq Writers
        /\ grp \in [StepIds -> {"none", "alive", "left", "gone"}]
    BY DEF Typed, TypeOK, Writers
  <1>1. /\ UNCHANGED <<pgids, spawned, seen, kconn, kleft, kdone>>
        /\ conn' => conn
        /\ task' \in {task, "done"}
    BY DEF ShutdownStarts, UserKill, PollStep, PollRead, ReadMarker, HealGet,
           HealSave, PollRaises, RunEnds, TermEnds, StragglersEnd,
           RecordExpires, PodStops, unkilled, unpolled, aside, taskVars,
           killVars, vars
  <1>2. \A s \in StepIds : ~Remains(s) => ~Remains(s)'
    <2>1. CASE \E s \in StepIds : RunEnds(s) \/ TermEnds(s) \/ StragglersEnd(s)
      BY <2>1, <1>t DEF RunEnds, TermEnds, StragglersEnd, Remains
    <2>2. CASE grp' = grp
      BY <2>2 DEF Remains
    <2> QED BY <2>1, <2>2
         DEF ShutdownStarts, UserKill, PollStep, PollRead, ReadMarker, HealGet,
             HealSave, PollRaises, RecordExpires, PodStops, unpolled,
             remoteVars, vars, unkilled
  <1>3. KnownStays /\ HandshakesInOrder'
    BY <1>1, <1>2 DEF CompleteInv, KnownStays, AllKnown, HandshakesInOrder
  <1>4. \/ rec' = rec \/ rec'.pgids = {}
        \/ \E h \in Polls : rec'.pgids = snap[h].pgids
    <2>1. ASSUME NEW h \in Polls, PollStep(h) \/ PollRaises(h)
          PROVE  rec' = rec \/ rec'.pgids = snap[h].pgids
      <3>1. HealWrite(h).pgids = snap[h].pgids
        BY <1>t DEF HealWrite, WithStatus, Record
      <3>2. rec' \in {rec, HealWrite(h)}
        BY <2>1 DEF PollStep, PollRead, ReadMarker, HealGet, HealSave, PollRaises
      <3> QED BY <3>1, <3>2
    <2>2. CASE rec' \in {rec, NoRecord}
      BY <2>2 DEF NoRecord
    <2> QED BY <2>1, <2>2
         DEF ShutdownStarts, UserKill, RunEnds, TermEnds, StragglersEnd,
             RecordExpires, PodStops, aside, vars
  <1>5. \A w \in Writers : snap'[w] \in {snap[w], rec, NoRecord}
    BY <1>t
       DEF ShutdownStarts, UserKill, PollStep, PollRead, ReadMarker, HealGet,
           HealSave, PollRaises, PollReturns, Forget, RunEnds, TermEnds,
           StragglersEnd, RecordExpires, PodStops, aside, vars
  <1>6. PgidsWhole'
    BY <1>1, <1>3, <1>4, <1>5, <1>t, PgidsStayWhole
       DEF CompleteInv, PgidsWhole, Whole, AllKnown
  <1>7. \A k \in Killers : \/ kpc'[k] \in {kpc[k], "end"}
                           \/ kpc[k] = "idle" /\ kpc'[k] = "guard"
    BY <1>t
       DEF ShutdownStarts, UserKill, PollStep, PollRead, ReadMarker, HealGet,
           HealSave, PollRaises, RunEnds, TermEnds, StragglersEnd,
           RecordExpires, PodStops, Go, At, unpolled, aside, killVars, vars
  <1>8. \A k \in Killers : KillThorough(k)'
    BY <1>1, <1>3, <1>7, KillStaysThorough DEF CompleteInv
  <1> QED BY <1>3, <1>6, <1>8 DEF CompleteInv

LEMMA NextComplete ==
    "ssh" \notin Faults /\ Typed /\ FailureInv /\ CompleteInv /\ [Next]_vars
        => CompleteInv'
  <1> SUFFICES ASSUME "ssh" \notin Faults, Typed, FailureInv, CompleteInv,
                      [Next]_vars
               PROVE  CompleteInv'
    OBVIOUS
  <1> QED BY TaskStepComplete, KillStepComplete, RestComplete DEF Next

\* A kill that is about to write KILLED, over a channel it still has, and saw
\* one PGID through to the end, saw them all: no group of the run is left,
\* for every number of steps and of kills at the same time.
THEOREM KillsAreComplete == Spec => []KillIsComplete
  <1>1. CASE "ssh" \in Faults
    <2>1. KillIsComplete
      BY <1>1 DEF KillIsComplete
    <2> QED BY <2>1, PTL
  <1>2. CASE "ssh" \notin Faults
    <2>1. CompleteInv => KillIsComplete
      <3> SUFFICES ASSUME CompleteInv, NEW k \in Killers,
                          kpc[k] \in {"killedGet", "killedSave"},
                          kdone[k] # {}, Usable(k)
                   PROVE  \A s \in StepIds : ~Remains(s)
        BY DEF KillIsComplete
      <3>1. kdone[k] = StepIds
        BY DEF CompleteInv, KillThorough
      <3> QED BY <3>1 DEF CompleteInv, KillThorough
    <2>2. Init => CompleteInv
      BY InitComplete
    <2>3. Typed /\ FailureInv /\ CompleteInv /\ [Next]_vars => CompleteInv'
      BY <1>2, NextComplete
    <2>4. Spec => []FailureInv
      BY InitFailure, NextFailure, AlwaysTyped, PTL DEF Spec
    <2> QED BY <2>1, <2>2, <2>3, <2>4, AlwaysTyped, PTL DEF Spec
  <1> QED BY <1>1, <1>2

---------------------------------------------------------------------------
(* Counting down. The task's counter is explicit; a kill's counts the      *)
(* PGIDs it has left, which a step takes one of.                           *)

LEMMA TaskCountsDown ==
    ASSUME Typed, FailureInv, TaskStep \/ LaunchFails \/ TaskRaises \/ ConnectionLost
    PROVE  <<task, result>>' # <<task, result>> => TaskRank' < TaskRank
  <1>t. /\ Steps \in Nat /\ spawned \in Nat /\ spawned <= Steps
        /\ task \in TaskStates
    BY StepsAssumption DEF Typed, TypeOK
  <1>1. CASE LaunchSave \/ LaunchFails \/ AcquireSlot
    BY <1>1, <1>t DEF LaunchSave, LaunchFails, AcquireSlot, local, TaskRank
  <1>2. CASE CreateProcess
    BY <1>2, <1>t DEF CreateProcess, TaskRank
  <1>3. CASE ReadHandshake
    BY <1>3, <1>t DEF ReadHandshake, TaskRank
  <1>4. CASE WaitEarlierSteps \/ PgidsGet \/ PgidsSave \/ CollectOutput \/ Backfill
    BY <1>4, <1>t
       DEF WaitEarlierSteps, PgidsGet, PgidsSave, CollectOutput, Backfill, TaskRank,
           FailureInv
  <1>5. CASE StoreGet \/ StoreSave \/ Close \/ TimeoutDone
    BY <1>5, <1>t DEF StoreGet, StoreSave, Close, TimeoutDone, TaskRank
  <1>6. CASE TimeoutFires
    BY <1>6, <1>t DEF TimeoutFires, TaskRank
  <1>7. CASE TaskRaises
    BY <1>7, <1>t DEF TaskRaises, TaskRank, FailureInv
  <1>8. CASE ConnectionLost
    BY <1>8 DEF ConnectionLost
  <1> QED
    BY <1>1, <1>2, <1>3, <1>4, <1>5, <1>6, <1>7, <1>8 DEF TaskStep

LEMMA LeftCounted ==
    ASSUME NEW left \in SUBSET StepIds
    PROVE  /\ Cardinality(left) \in 0..Steps
           /\ \A s \in left : /\ Cardinality(left \ {s}) = Cardinality(left) - 1
                              /\ Cardinality(left) > 0
  <1>1. IsFiniteSet(StepIds) /\ Cardinality(StepIds) = Steps
    BY StepsAssumption, FS_Interval DEF StepIds
  <1>2. IsFiniteSet(left) /\ Cardinality(left) <= Steps
    BY <1>1, FS_Subset
  <1>3. Cardinality(left) \in Nat
    BY <1>2, FS_CardinalityType
  <1>4. ASSUME NEW s \in left
        PROVE  /\ Cardinality(left \ {s}) = Cardinality(left) - 1
               /\ Cardinality(left) > 0
    <2>1. Cardinality(left \ {s}) = Cardinality(left) - 1
      BY <1>2, FS_RemoveElement
    <2>2. Cardinality(left) # 0
      BY <1>2, FS_EmptySet
    <2> QED
      BY <1>3, <2>1, <2>2
  <1> QED
    BY <1>2, <1>3, <1>4, StepsAssumption

\* A kill goes on to a later place, or to an earlier one with a PGID less.
LEMMA KillCountsDown ==
    ASSUME Typed, NEW k \in Killers, KillStep(k) \/ KillRaises(k)
    PROVE  KillRank(k)' < KillRank(k)
  <1> DEFINE left == Cardinality(kleft[k])
  <1>t. /\ kpc \in [Killers -> KillStates] /\ kleft \in [Killers -> SUBSET StepIds]
        /\ pgids \in SUBSET StepIds /\ rec.pgids \in SUBSET StepIds /\ Steps \in Nat
    BY StepsAssumption DEF Typed, TypeOK, Record
  <1>l. left \in 0..Steps
    BY <1>t, LeftCounted
  <1>1. CASE KillGuard(k) \/ KillConfig(k) \/ ClaimGet(k) \/ ClaimSave(k)
    BY <1>1, <1>t DEF KillGuard, KillConfig, ClaimGet, ClaimSave, At, Go, KillRank
  <1>2. CASE Route(k)
    <2>1. Cardinality(pgids) \in 0..Steps
      BY <1>t, LeftCounted
    <2> QED
      BY <1>2, <2>1, <1>t DEF Route, At, Go, KillRank
  <1>3. CASE Reload(k)
    BY <1>3, <1>t DEF Reload, At, Go, KillRank
  <1>4. CASE Connect(k)
    BY <1>4, <1>t, <1>l DEF Connect, Return, At, Go, KillRank
  <1>5. CASE SoftKill(k)
    BY <1>5, <1>t, <1>l DEF SoftKill, At, Go, KillRank
  <1>6. ASSUME NEW s \in StepIds, Turn(k, s), NextPgid(k, s),
               kpc[k] \in {"term", "grace", "hard"}
        PROVE  KillRank(k)' < KillRank(k)
    <2>1. s \in kleft[k]
      BY <1>6 DEF Turn
    <2>2. Cardinality(kleft[k] \ {s}) = left - 1 /\ left > 0
      BY <1>t, <2>1, LeftCounted
    <2>3. kleft'[k] = kleft[k] \ {s} /\ kpc'[k] \in {"killedGet", "term"}
      BY <1>6, <1>t DEF NextPgid, Go
    <2> QED
      BY <1>6, <1>l, <2>2, <2>3 DEF KillRank
  <1>7. CASE CheckAlive(k) \/ HardKill(k) \/ SignalFails(k)
    <2>1. CASE \E s \in StepIds : Turn(k, s) /\ NextPgid(k, s)
      BY <1>6, <1>7, <2>1 DEF CheckAlive, HardKill, SignalFails, At
    <2>2. CASE CheckAlive(k) /\ kpc'[k] = "hard" /\ kleft' = kleft
      BY <2>2, <1>t, <1>l DEF CheckAlive, At, KillRank
    <2> QED
      BY <1>7, <1>t, <2>1, <2>2 DEF CheckAlive, HardKill, SignalFails, Go
  <1>8. CASE KilledGet(k) \/ KilledSave(k) \/ KillRaises(k)
    BY <1>8, <1>t DEF KilledGet, KilledSave, KillRaises, Return, At, Go, KillRank
  <1> QED
    BY <1>1, <1>2, <1>3, <1>4, <1>5, <1>7, <1>8 DEF KillStep

\* A kill that was not asked for yet, or is over, has its counter at an end.
LEMMA StartOrEndCountsDown ==
    ASSUME Typed, NEW k \in Killers, kleft'[k] = kleft[k], kpc'[k] # kpc[k],
           (kpc[k] = "idle" /\ kpc'[k] = "guard") \/ kpc'[k] = "end"
    PROVE  KillRank(k)' < KillRank(k)
  <1>1. kpc[k] \in KillStates /\ kleft[k] \in SUBSET StepIds
    BY DEF Typed, TypeOK
  <1>2. Cardinality(kleft[k]) \in 0..Steps /\ Steps \in Nat
    BY <1>1, LeftCounted, StepsAssumption
  <1> QED
    BY <1>1, <1>2 DEF KillRank, KillStates

LEMMA EveryCallCountsDown ==
    ASSUME Typed, FailureInv, [Next]_vars
    PROVE  /\ <<task, result>>' # <<task, result>> => TaskRank' < TaskRank
           /\ \A k \in Killers :
                <<kpc[k], kleft[k]>>' # <<kpc[k], kleft[k]>> =>
                    KillRank(k)' < KillRank(k)
  <1> DEFINE TaskDown == <<task, result>>' # <<task, result>> => TaskRank' < TaskRank
             KillDown(k) == <<kpc[k], kleft[k]>>' # <<kpc[k], kleft[k]>> =>
                                KillRank(k)' < KillRank(k)
  <1>t. /\ kpc \in [Killers -> KillStates] /\ kleft \in [Killers -> SUBSET StepIds]
        /\ task \in TaskStates /\ Timeout \in Killers /\ Shutdown \in Killers
    BY DEF Typed, TypeOK, Killers
  <1>1. CASE TaskStep \/ LaunchFails \/ TaskRaises \/ ConnectionLost
    <2>1. TaskDown
      BY <1>1, TaskCountsDown
    <2>2. ASSUME NEW k \in Killers PROVE KillDown(k)
      <3>1. CASE TimeoutFires /\ k = Timeout
        <4>1. kpc[k] = "idle"
          BY <3>1 DEF TimeoutFires, FailureInv
        <4>2. kleft'[k] = kleft[k] /\ kpc'[k] = "guard"
          BY <3>1, <1>t DEF TimeoutFires
        <4> QED
          BY <4>1, <4>2, StartOrEndCountsDown
      <3>2. CASE ~(TimeoutFires /\ k = Timeout)
        <4>1. kleft'[k] = kleft[k] /\ kpc'[k] = kpc[k]
          BY <1>1, <3>2, <1>t
             DEF TaskStep, LaunchSave, AcquireSlot, CreateProcess, ReadHandshake,
             WaitEarlierSteps, PgidsGet, PgidsSave, CollectOutput, Backfill, StoreGet,
             StoreSave, Close, TimeoutFires, TimeoutDone, LaunchFails, TaskRaises,
             ConnectionLost, elsewhere, killVars
        <4> QED
          BY <4>1
      <3> QED
        BY <3>1, <3>2
    <2> QED
      BY <2>1, <2>2
  <1>2. ASSUME NEW k \in Killers, KillStep(k) \/ KillRaises(k)
        PROVE  TaskDown /\ \A i \in Killers : KillDown(i)
    <2>1. TaskDown
      BY <1>2, KillLeavesTask
    <2>2. \A i \in Killers \ {k} : kpc'[i] = kpc[i] /\ kleft'[i] = kleft[i]
      BY <1>2, <1>t
         DEF KillStep, KillGuard, KillConfig, ClaimGet, ClaimSave, Route, Reload, Connect,
         SoftKill, CheckAlive, HardKill, SignalFails, KilledGet, KilledSave, KillRaises,
         Go, Return, NextPgid
    <2> QED
      BY <1>2, <2>1, <2>2, KillCountsDown
  <1>3. CASE PodStops
    <2>1. TaskDown
      BY <1>3, <1>t, StepsAssumption DEF PodStops, TaskRank, TaskStates, Typed, TypeOK
    <2>2. \A k \in Killers : kleft'[k] = kleft[k] /\ kpc'[k] \in {kpc[k], "end"}
      BY <1>3, <1>t DEF PodStops
    <2> QED
      BY <2>1, <2>2, StartOrEndCountsDown
  <1>4. CASE \/ ShutdownStarts
             \/ \E k \in Users, pod \in {"owner", "other"}, force \in BOOLEAN :
                     UserKill(k, pod, force)
             \/ \E h \in Polls : PollStep(h) \/ PollRaises(h)
             \/ \E s \in StepIds : RunEnds(s) \/ TermEnds(s) \/ StragglersEnd(s)
             \/ RecordExpires \/ UNCHANGED vars
    <2>1. UNCHANGED <<task, result, kleft>>
      BY <1>4 DEF ShutdownStarts, UserKill, PollStep, PollRead, ReadMarker, HealGet,
         HealSave, PollRaises, RunEnds, TermEnds, StragglersEnd, RecordExpires,
         unkilled, unpolled, aside, taskVars, killVars, vars
    <2>2. \A k \in Killers :
              kpc'[k] = kpc[k] \/ (kpc[k] = "idle" /\ kpc'[k] = "guard")
      BY <1>4, <1>t
         DEF ShutdownStarts, UserKill, At, Go, PollStep, PollRead, ReadMarker, HealGet,
         HealSave, PollRaises, RunEnds, TermEnds, StragglersEnd, RecordExpires,
         unpolled, aside, killVars, vars
    <2> QED
      BY <2>1, <2>2, StartOrEndCountsDown
  <1> QED
    BY <1>1, <1>2, <1>3, <1>4 DEF Next

\* The task and every kill take a bounded number of steps, for any number of
\* steps of the pipeline, calls and faults: there is no loop among the error
\* paths, and nobody can set another one back. What is left for liveness is
\* that they do take their steps.
THEOREM RunsWindDown == Spec => CallsWindDown
  <1>1. Spec => []FailureInv
    BY InitFailure, NextFailure, AlwaysTyped, PTL DEF Spec
  <1>2. Typed /\ FailureInv /\ [Next]_vars =>
            [/\ <<task, result>>' # <<task, result>> => TaskRank' < TaskRank
             /\ \A k \in Killers :
                  <<kpc[k], kleft[k]>>' # <<kpc[k], kleft[k]>> =>
                      KillRank(k)' < KillRank(k)]_vars
    BY EveryCallCountsDown
  <1> QED
    BY <1>1, <1>2, AlwaysTyped, PTL DEF Spec, CallsWindDown

LEMMA TaskStepMoves == Typed /\ TaskStep => <<task, result>>' # <<task, result>>
  BY DEF TaskStep, LaunchSave, AcquireSlot, CreateProcess, ReadHandshake,
     WaitEarlierSteps, PgidsGet, PgidsSave, CollectOutput, Backfill, StoreGet,
     StoreSave, Close, TimeoutFires, TimeoutDone

\* The counters are natural numbers, whatever was lost or never started.
LEMMA RanksBounded ==
    ASSUME Typed, NEW k \in Killers
    PROVE  TaskRank \in 0..(12 + 2 * Steps) /\ KillRank(k) \in 0..(11 + 3 * Steps)
  <1>1. /\ Steps \in Nat /\ spawned \in Nat /\ spawned <= Steps
        /\ task \in TaskStates /\ kpc[k] \in KillStates /\ kleft[k] \in SUBSET StepIds
    BY StepsAssumption DEF Typed, TypeOK
  <1>2. Cardinality(kleft[k]) \in Nat /\ Cardinality(kleft[k]) <= Steps
    BY <1>1, LeftCounted
  <1>3. \/ TaskRank \in 0..10
        \/ TaskRank \in {10 + 2 * (Steps - spawned), 11 + 2 * (Steps - spawned),
                         11 + 2 * Steps, 12 + 2 * Steps}
    <2>1. CASE task \in {"spawn", "handshake", "queued", "saving"}
      BY <2>1 DEF TaskRank
    <2>2. CASE task \in {"done", "closing", "lost", "timeout", "storeSave", "storeGet"}
      <3>1. TaskRank \in {0, 1, 2, 3, 4, 5}
        BY <2>2 DEF TaskRank
      <3> QED
        BY <3>1
    <2>3. CASE task \in {"backfill", "collect", "pgSave", "pgGet", "wait"}
      <3>1. TaskRank \in {6, 7, 8, 9, 10}
        BY <2>3 DEF TaskRank
      <3> QED
        BY <3>1
    <2> QED
      BY <1>1, <2>1, <2>2, <2>3 DEF TaskStates
  <1>4. \/ KillRank(k) \in 0..2
        \/ \E n \in 1..3 : KillRank(k) = 3 * Cardinality(kleft[k]) + n
        \/ \E n \in 4..11 : KillRank(k) = 3 * Steps + n
    <2>1. CASE kpc[k] \in {"end", "killedSave", "killedGet"}
      BY <2>1 DEF KillRank
    <2>2. CASE kpc[k] \in {"hard", "grace", "term"}
      BY <2>2 DEF KillRank
    <2>3. CASE kpc[k] \in {"connect", "reload", "route", "claimSave"}
      BY <2>3 DEF KillRank
    <2>4. CASE kpc[k] \in {"claimGet", "config", "guard", "idle"}
      BY <2>4 DEF KillRank
    <2> QED
      BY <1>1, <2>1, <2>2, <2>3, <2>4 DEF KillStates
  <1> QED
    BY <1>1, <1>2, <1>3, <1>4

\* No step of the task or of a kill is one that waits and tries again: each
\* counts. So a task takes at most 12 + 2 * Steps steps, a kill 11 + 3 * Steps.
THEOREM OwnStepsCount ==
    Spec => [][/\ TaskStep => TaskRank' < TaskRank
               /\ \A k \in Killers : KillStep(k) => KillRank(k)' < KillRank(k)]_vars
  <1>1. Spec => []FailureInv
    BY InitFailure, NextFailure, AlwaysTyped, PTL DEF Spec
  <1>2. Typed /\ FailureInv /\ [Next]_vars =>
            [/\ TaskStep => TaskRank' < TaskRank
             /\ \A k \in Killers : KillStep(k) => KillRank(k)' < KillRank(k)]_vars
    BY TaskStepMoves, TaskCountsDown, KillCountsDown
  <1> QED
    BY <1>1, <1>2, AlwaysTyped, PTL DEF Spec

---------------------------------------------------------------------------
(* Why a terminal status is not final, and what would make it so. Writers  *)
(* hold a record between the GET and the SET of an update; here is what    *)
(* holds as long as no two of them hold one at the same time, as if        *)
(* updates were atomic.                                                    *)

Holds(w) == snap[w].status # "none"
NoOverlap == \A w, v \in Writers : Holds(w) /\ Holds(v) => w = v

\* Exactly those about to save hold a record.
HoldersSave ==
    /\ Holds(Task) <=> task \in {"pgSave", "storeSave"}
    /\ \A k \in Killers : Holds(k) <=> kpc[k] \in {"claimSave", "killedSave"}
    /\ \A h \in Polls : Holds(h) <=> hpc[h] = "healSave"

LEMMA InitHolders == Init => HoldersSave
  BY WritersAssumption DEF Init, HoldersSave, Holds, NoRecord, Writers

LEMMA TaskHolders ==
    ASSUME Typed, FailureInv, HoldersSave,
           TaskStep \/ LaunchFails \/ TaskRaises \/ ConnectionLost
    PROVE  HoldersSave'
  <1>n. Task \in Writers /\ Task \notin Killers \cup Polls
    BY WritersAssumption DEF Writers
  <1>t. kpc \in [Killers -> KillStates] /\ snap \in [Writers -> Record]
    BY DEF Typed, TypeOK
  <1>1. Holds(Task)' <=> task' \in {"pgSave", "storeSave"}
    BY <1>n, <1>t
       DEF HoldersSave, Holds, HasRecord, NoRecord, TaskStep, LaunchSave, AcquireSlot,
       CreateProcess, ReadHandshake, WaitEarlierSteps, PgidsGet, PgidsSave,
       CollectOutput, Backfill, StoreGet, StoreSave, Close, TimeoutFires, TimeoutDone,
       LaunchFails, TaskRaises, ConnectionLost, Forget
  <1>2. \A w \in Writers \ {Task} : snap'[w] = snap[w]
    BY <1>n, <1>t
       DEF TaskStep, LaunchSave, AcquireSlot, CreateProcess, ReadHandshake,
       WaitEarlierSteps, PgidsGet, PgidsSave, CollectOutput, Backfill, StoreGet,
       StoreSave, Close, TimeoutFires, TimeoutDone, LaunchFails, TaskRaises,
       ConnectionLost, Forget
  <1>3. CASE ~TimeoutFires
    <2>1. kpc' = kpc /\ hpc' = hpc
      BY <1>3
         DEF TaskStep, LaunchSave, AcquireSlot, CreateProcess, ReadHandshake,
         WaitEarlierSteps, PgidsGet, PgidsSave, CollectOutput, Backfill, StoreGet,
         StoreSave, Close, TimeoutDone, LaunchFails, TaskRaises, ConnectionLost,
         elsewhere, killVars, pollVars
    <2> QED
      BY <1>1, <1>2, <2>1, <1>n DEF HoldersSave, Holds, Writers
  <1>4. CASE TimeoutFires
    <2>1. /\ kpc[Timeout] = "idle" /\ hpc' = hpc
          /\ kpc' = [kpc EXCEPT ![Timeout] = "guard"]
      BY <1>4 DEF TimeoutFires, FailureInv, pollVars
    <2> QED
      BY <1>1, <1>2, <2>1, <1>n, <1>t DEF HoldersSave, Holds, Writers
  <1> QED
    BY <1>3, <1>4

LEMMA KillHolders ==
    ASSUME Typed, HoldersSave, NEW k \in Killers, KillStep(k) \/ KillRaises(k)
    PROVE  HoldersSave'
  <1>n. k \in Writers /\ k \notin Polls /\ k # Task
    BY WritersAssumption DEF Writers
  <1>t. kpc \in [Killers -> KillStates] /\ snap \in [Writers -> Record]
    BY DEF Typed, TypeOK
  <1>1. UNCHANGED <<task, hpc>>
    BY DEF KillStep, KillGuard, KillConfig, ClaimGet, ClaimSave, Route, Reload, Connect,
       SoftKill, CheckAlive, HardKill, SignalFails, KilledGet, KilledSave, KillRaises,
       unkilled, taskVars, pollVars
  <1>2. \A w \in Writers \ {k} : snap'[w] = snap[w]
    BY <1>t, <1>n
       DEF KillStep, KillGuard, KillConfig, ClaimGet, ClaimSave, Route, Reload, Connect,
       SoftKill, CheckAlive, HardKill, SignalFails, KilledGet, KilledSave, KillRaises,
       Forget
  <1>3. \A j \in Killers \ {k} : kpc'[j] = kpc[j]
    BY <1>t
       DEF KillStep, KillGuard, KillConfig, ClaimGet, ClaimSave, Route, Reload, Connect,
       SoftKill, CheckAlive, HardKill, SignalFails, KilledGet, KilledSave, KillRaises,
       Go, Return, NextPgid
  <1>4. Holds(k)' <=> kpc'[k] \in {"claimSave", "killedSave"}
    BY <1>t, <1>n
       DEF HoldersSave, Holds, HasRecord, NoRecord, KillStep, KillGuard, KillConfig,
       ClaimGet, ClaimSave, Route, Reload, Connect, SoftKill, CheckAlive, HardKill,
       SignalFails, KilledGet, KilledSave, KillRaises, At, Go, Return, NextPgid, Forget
  <1> QED
    BY <1>1, <1>2, <1>3, <1>4, <1>n, WritersAssumption DEF HoldersSave, Holds, Writers

LEMMA PollHolders ==
    ASSUME Typed, HoldersSave, NEW h \in Polls, PollStep(h) \/ PollRaises(h)
    PROVE  HoldersSave'
  <1>n. h \in Writers /\ h \notin Killers /\ h # Task
    BY WritersAssumption DEF Writers
  <1>t. hpc \in [Polls -> PollStates] /\ snap \in [Writers -> Record]
    BY DEF Typed, TypeOK
  <1>1. UNCHANGED <<task, kpc>>
    BY DEF PollStep, PollRead, ReadMarker, HealGet, HealSave, PollRaises, unpolled,
       taskVars, killVars
  <1>2. \A w \in Writers \ {h} : snap'[w] = snap[w]
    BY <1>t, <1>n
       DEF PollStep, PollRead, ReadMarker, HealGet, HealSave, PollRaises, PollReturns,
       Forget
  <1>3. \A i \in Polls \ {h} : hpc'[i] = hpc[i]
    BY <1>t
       DEF PollStep, PollRead, ReadMarker, HealGet, HealSave, PollRaises, PollReturns
  <1>4. Holds(h)' <=> hpc'[h] = "healSave"
    BY <1>t, <1>n
       DEF HoldersSave, Holds, NoRecord, Transient, PollStep, PollRead, ReadMarker,
       HealGet, HealSave, PollRaises, PollReturns, Forget
  <1> QED
    BY <1>1, <1>2, <1>3, <1>4, <1>n, WritersAssumption DEF HoldersSave, Holds, Writers

\* Everybody else; the pod takes what its own writers hold along.
LEMMA RestHolders ==
    ASSUME Typed, HoldersSave,
           \/ ShutdownStarts
           \/ \E k \in Users, pod \in {"owner", "other"}, force \in BOOLEAN :
                   UserKill(k, pod, force)
           \/ \E s \in StepIds : RunEnds(s) \/ TermEnds(s) \/ StragglersEnd(s)
           \/ RecordExpires \/ PodStops \/ UNCHANGED vars
    PROVE  HoldersSave'
  <1>t. /\ kpc \in [Killers -> KillStates] /\ snap \in [Writers -> Record]
        /\ Writers = Killers \cup Polls \cup {Task}
    BY DEF Typed, TypeOK, Writers
  <1>1. CASE PodStops
    <2>1. task' = "done" /\ hpc' = hpc /\ snap'[Task] = NoRecord
      BY <1>1, <1>t DEF PodStops, pollVars
    <2>2. \A h \in Polls : snap'[h] = snap[h]
      BY <1>1, <1>t, WritersAssumption DEF PodStops
    <2>3. ASSUME NEW k \in Killers
          PROVE  Holds(k)' <=> kpc'[k] \in {"claimSave", "killedSave"}
      <3>1. CASE kpod[k] = "owner"
        <4>1. snap'[k] = NoRecord /\ kpc'[k] \in {"idle", "end"}
          BY <1>1, <1>t, <3>1 DEF PodStops
        <4> QED
          BY <4>1 DEF Holds, NoRecord
      <3>2. CASE kpod[k] # "owner"
        <4>1. snap'[k] = snap[k] /\ kpc'[k] = kpc[k]
          BY <1>1, <1>t, <3>2, WritersAssumption DEF PodStops
        <4> QED
          BY <4>1 DEF HoldersSave, Holds
      <3> QED
        BY <3>1, <3>2
    <2> QED
      BY <2>1, <2>2, <2>3 DEF HoldersSave, Holds, NoRecord
  <1>2. CASE ~PodStops
    <2>1. UNCHANGED <<snap, task, hpc>>
      BY <1>2 DEF ShutdownStarts, UserKill, RunEnds, TermEnds, StragglersEnd,
         RecordExpires, unkilled, aside, taskVars, pollVars, vars
    <2>2. \A k \in Killers :
              kpc'[k] = kpc[k] \/ (kpc[k] = "idle" /\ kpc'[k] = "guard")
      BY <1>2, <1>t
         DEF ShutdownStarts, UserKill, At, Go, RunEnds, TermEnds, StragglersEnd,
         RecordExpires, aside, killVars, vars
    <2> QED
      BY <2>1, <2>2 DEF HoldersSave, Holds
  <1> QED
    BY <1>1, <1>2

LEMMA NextHolders == Typed /\ FailureInv /\ HoldersSave /\ [Next]_vars => HoldersSave'
  <1> SUFFICES ASSUME Typed, FailureInv, HoldersSave, [Next]_vars PROVE HoldersSave'
    OBVIOUS
  <1> QED BY TaskHolders, KillHolders, PollHolders, RestHolders DEF Next

\* Every change of a record that stays is the save of one who holds a record
\* (the first save apart), and is one of these five.
Saves(w, r) == Holds(w) /\ rec' = r /\ snap' = [snap EXCEPT ![w] = NoRecord]
Written ==
    \/ Saves(Task, PgidsWrite) /\ task = "pgSave"
    \/ Saves(Task, ResultWrite) /\ task = "storeSave"
    \/ \E k \in Killers : Saves(k, WithStatus(snap[k], "killing")) /\ kpc[k] = "claimSave"
    \/ \E k \in Killers : Saves(k, WithStatus(snap[k], "killed")) /\ kpc[k] = "killedSave"
    \/ \E h \in Polls : Saves(h, HealWrite(h)) /\ hpc[h] = "healSave"

LEMMA EveryWrite ==
    ASSUME Typed, HoldersSave, [Next]_vars, rec' # rec
    PROVE  LaunchSave \/ Written \/ (rec' = NoRecord /\ UNCHANGED snap)
  <1> USE DEF Written, Saves
  <1>1. CASE TaskStep \/ LaunchFails \/ TaskRaises \/ ConnectionLost
    <2>1. CASE LaunchSave
      BY <2>1
    <2>2. CASE PgidsSave \/ StoreSave
      BY <2>2 DEF HoldersSave, PgidsSave, StoreSave, Forget
    <2>3. CASE TimeoutFires \/ TaskRaises
      BY <2>3 DEF HoldersSave, TimeoutFires, TaskRaises, TaskInFlight, Forget
    <2>4. CASE rec' = rec
      BY <2>4
    <2> QED
      BY <1>1, <2>1, <2>2, <2>3, <2>4
         DEF TaskStep, AcquireSlot, CreateProcess, ReadHandshake, WaitEarlierSteps,
         PgidsGet, CollectOutput, Backfill, StoreGet, Close, TimeoutDone, LaunchFails,
         ConnectionLost
  <1>2. ASSUME NEW k \in Killers, KillStep(k) \/ KillRaises(k) PROVE Written
    BY <1>2
       DEF HoldersSave, KillStep, KillGuard, KillConfig, ClaimGet, ClaimSave, Route,
       Reload, Connect, SoftKill, CheckAlive, HardKill, SignalFails, KilledGet,
       KilledSave, KillRaises, At, Forget
  <1>3. ASSUME NEW h \in Polls, PollStep(h) \/ PollRaises(h) PROVE Written
    BY <1>3
       DEF HoldersSave, PollStep, PollRead, ReadMarker, HealGet, HealSave, PollRaises,
       PollReturns, Forget
  <1>4. CASE RecordExpires
    BY <1>4 DEF RecordExpires
  <1>5. ~(\/ ShutdownStarts
          \/ \E k \in Users, pod \in {"owner", "other"}, force \in BOOLEAN :
                  UserKill(k, pod, force)
          \/ \E s \in StepIds : RunEnds(s) \/ TermEnds(s) \/ StragglersEnd(s)
          \/ PodStops \/ UNCHANGED vars)
    BY DEF ShutdownStarts, UserKill, RunEnds, TermEnds, StragglersEnd, PodStops,
       aside, vars
  <1> QED
    BY <1>1, <1>2, <1>3, <1>4, <1>5 DEF Next

\* A writer comes to hold a record by reading it.
LEMMA SnapshotsRead ==
    ASSUME Typed, [Next]_vars
    PROVE  \A w \in Writers : snap'[w] \in {snap[w], rec, NoRecord}
  <1>t. snap \in [Writers -> Record]
    BY DEF Typed, TypeOK
  <1>1. CASE TaskStep \/ LaunchFails \/ TaskRaises \/ ConnectionLost
    BY <1>1, <1>t
       DEF TaskStep, LaunchSave, AcquireSlot, CreateProcess, ReadHandshake,
       WaitEarlierSteps, PgidsGet, PgidsSave, CollectOutput, Backfill, StoreGet,
       StoreSave, Close, TimeoutFires, TimeoutDone, LaunchFails, TaskRaises,
       ConnectionLost, Forget
  <1>2. CASE \E k \in Killers : KillStep(k) \/ KillRaises(k)
    BY <1>2, <1>t
       DEF KillStep, KillGuard, KillConfig, ClaimGet, ClaimSave, Route, Reload, Connect,
       SoftKill, CheckAlive, HardKill, SignalFails, KilledGet, KilledSave, KillRaises,
       Forget
  <1>3. CASE \E h \in Polls : PollStep(h) \/ PollRaises(h)
    BY <1>3, <1>t
       DEF PollStep, PollRead, ReadMarker, HealGet, HealSave, PollRaises, PollReturns,
       Forget
  <1>4. CASE PodStops
    BY <1>4, <1>t DEF PodStops
  <1>5. CASE UNCHANGED snap
    BY <1>5
  <1> QED
    BY <1>1, <1>2, <1>3, <1>4, <1>5
       DEF Next, ShutdownStarts, UserKill, RunEnds, TermEnds, StragglersEnd,
       RecordExpires, aside, vars

\* What is held is the record as it is, unless that has expired.
HeldCurrent == \A w \in Writers : Holds(w) => snap[w] = rec \/ rec = NoRecord

LEMMA SavesKeepHeldCurrent ==
    ASSUME Typed, NoOverlap, NEW w \in Writers, NEW r, Saves(w, r)
    PROVE  \A v \in Writers : ~Holds(v)'
  BY DEF Typed, TypeOK, NoOverlap, Saves, Holds, NoRecord

LEMMA NextHeldCurrent ==
    ASSUME Typed, RaceInv, HoldersSave, NoOverlap, HeldCurrent, [Next]_vars
    PROVE  HeldCurrent'
  <1>w. Task \in Writers /\ Killers \subseteq Writers /\ Polls \subseteq Writers
    BY DEF Writers
  <1>1. CASE rec' = rec
    BY <1>1, SnapshotsRead DEF HeldCurrent, Holds, NoRecord
  <1>2. CASE LaunchSave
    <2>1. snap' = snap /\ task = "saving"
      BY <1>2 DEF LaunchSave
    <2>2. \A w \in Writers : ~Holds(w)
      BY <2>1 DEF RaceInv, BeforeSave, HoldersSave, Writers
    <2> QED
      BY <2>1, <2>2 DEF HeldCurrent, Holds
  <1>3. CASE Written
    BY <1>3, <1>w, SavesKeepHeldCurrent DEF Written, HeldCurrent
  <1>4. CASE rec' = NoRecord
    BY <1>4 DEF HeldCurrent, NoRecord
  <1> QED
    BY <1>1, <1>2, <1>3, <1>4, EveryWrite

LEMMA AlwaysHolders == Spec => [](Typed /\ FailureInv /\ RaceInv /\ HoldersSave)
  <1>1. Spec => []FailureInv
    BY InitFailure, NextFailure, AlwaysTyped, PTL DEF Spec
  <1>2. Spec => []RaceInv
    BY InitRaces, NextRaces, AlwaysTyped, PTL DEF Spec
  <1> QED
    BY <1>1, <1>2, InitHolders, NextHolders, AlwaysTyped, PTL DEF Spec

LEMMA AlwaysHeldCurrent == Spec /\ []NoOverlap => []HeldCurrent
  <1>1. Init => HeldCurrent
    BY DEF Init, HeldCurrent, Holds, NoRecord
  <1> QED
    BY <1>1, NextHeldCurrent, AlwaysHolders, PTL DEF Spec

\* The overturning save is that of a kill: every other has looked at the
\* status, or leaves it.
LastWriteOverturns ==
    \E k \in Killers : kpc[k] = "killedSave" /\ rec'.status = "killed"

LEMMA SerialOverturns ==
    ASSUME Typed, RaceInv, HoldersSave, HeldCurrent, [Next]_vars,
           rec.status \in Terminal, rec'.status \notin {rec.status, "none"}
    PROVE  LastWriteOverturns
  <1>t. /\ snap \in [Writers -> Record] /\ rec \in Record
        /\ Task \in Writers /\ Killers \subseteq Writers /\ Polls \subseteq Writers
    BY DEF Typed, TypeOK, Writers
  <1>1. rec' # rec /\ rec # NoRecord /\ rec' # NoRecord /\ ~LaunchSave
    BY DEF NoRecord, Terminal, LaunchSave, RaceInv, BeforeSave
  <1>2. Written
    BY <1>1, EveryWrite
  <1>3. \A w \in Writers : Holds(w) => snap[w].status \in Terminal /\ snap[w] = rec
    BY <1>1 DEF HeldCurrent
  <1>4. ~(Saves(Task, PgidsWrite) /\ task = "pgSave")
    BY <1>t, <1>3 DEF Saves, PgidsWrite, Record
  <1>5. ~(Saves(Task, ResultWrite) /\ task = "storeSave")
    BY <1>t, <1>3 DEF Saves, RaceInv, ReadsAllow, Terminal
  <1>6. ~\E k \in Killers :
            Saves(k, WithStatus(snap[k], "killing")) /\ kpc[k] = "claimSave"
    BY <1>t, <1>3 DEF Saves, RaceInv, ReadsAllow, Terminal
  <1>7. ~\E h \in Polls : Saves(h, HealWrite(h)) /\ hpc[h] = "healSave"
    BY <1>t, <1>3 DEF Saves, RaceInv, ReadsAllow, Terminal, Transient
  <1>8. PICK k \in Killers :
            Saves(k, WithStatus(snap[k], "killed")) /\ kpc[k] = "killedSave"
    BY <1>2, <1>4, <1>5, <1>6, <1>7 DEF Written
  <1>9. rec'.status = "killed"
    BY <1>t, <1>8 DEF Saves, WithStatus, Record
  <1> QED
    BY <1>8, <1>9 DEF LastWriteOverturns

\* If updates did not overlap, that is with updates that are atomic, the one
\* write that could change a terminal status is mark_killed, which asks for no
\* status; the PGID update, which asks for none either, would do no harm.
THEOREM SerialUpdatesSuffice ==
    Spec /\ []NoOverlap =>
        [][rec.status \in Terminal /\ rec'.status \notin {rec.status, "none"} =>
               LastWriteOverturns]_vars
  <1>1. Typed /\ RaceInv /\ HoldersSave /\ HeldCurrent /\ [Next]_vars =>
            [rec.status \in Terminal /\ rec'.status \notin {rec.status, "none"} =>
                LastWriteOverturns]_vars
    BY SerialOverturns
  <1> QED
    BY <1>1, AlwaysHolders, AlwaysHeldCurrent, PTL DEF Spec

\* And that write overturns only what a heal has recorded meanwhile: a claim
\* keeps everybody else off.
Claimed == {"route", "reload", "connect", "term", "grace", "hard", "killedGet",
            "killedSave"}
OfKill(r) == r.status \in {"killing", "killed", "none"}
ClaimKept ==
    \A k \in Killers : kpc[k] \in Claimed =>
        OfKill(rec) /\ \A w \in Writers : OfKill(snap[w])
NoHealUnderKill ==
    \A h \in Polls, k \in Killers : hpc[h] = "healSave" => kpc[k] \notin Claimed

LEMMA ClaimsStart ==
    ASSUME Typed, FailureInv, [Next]_vars, NEW k \in Killers, kpc'[k] \in Claimed
    PROVE  \/ kpc[k] \in Claimed
           \/ ClaimSave(k)
  <1>t. kpc \in [Killers -> KillStates] /\ Users \subseteq Killers
    BY DEF Typed, TypeOK, Killers
  <1>1. CASE \E i \in Killers : KillStep(i) \/ KillRaises(i)
    BY <1>1, <1>t
       DEF Claimed, KillStep, KillGuard, KillConfig, ClaimGet, ClaimSave, Route, Reload,
       Connect, SoftKill, CheckAlive, HardKill, SignalFails, KilledGet, KilledSave,
       KillRaises, At, Go, Return, NextPgid
  <1>2. CASE kpc'[k] \in {kpc[k], "guard", "end"}
    BY <1>2 DEF Claimed
  <1>3. CASE TaskStep \/ LaunchFails \/ TaskRaises \/ ConnectionLost
    BY <1>2, <1>3, <1>t
       DEF TaskStep, LaunchSave, AcquireSlot, CreateProcess, ReadHandshake,
       WaitEarlierSteps, PgidsGet, PgidsSave, CollectOutput, Backfill, StoreGet,
       StoreSave, Close, TimeoutFires, TimeoutDone, LaunchFails, TaskRaises,
       ConnectionLost, elsewhere, killVars
  <1>4. CASE \E h \in Polls : PollStep(h) \/ PollRaises(h)
    BY <1>2, <1>4
       DEF PollStep, PollRead, ReadMarker, HealGet, HealSave, PollRaises, unpolled,
       killVars
  <1> QED
    BY <1>1, <1>2, <1>3, <1>4, <1>t
       DEF Next, ShutdownStarts, UserKill, Go, RunEnds, TermEnds, StragglersEnd,
       RecordExpires, PodStops, aside, killVars, vars

LEMMA NextClaimKept ==
    ASSUME Typed, FailureInv, RaceInv, HoldersSave, NoOverlap, NoHealUnderKill, ClaimKept,
           [Next]_vars
    PROVE  ClaimKept'
  <1>t. /\ snap \in [Writers -> Record] /\ rec \in Record
        /\ Task \in Writers /\ Killers \subseteq Writers
    BY DEF Typed, TypeOK, Writers
  <1> SUFFICES ASSUME NEW k \in Killers, kpc'[k] \in Claimed
               PROVE  OfKill(rec') /\ \A w \in Writers : OfKill(snap'[w])
    BY DEF ClaimKept, OfKill
  <1>1. CASE ClaimSave(k)
    <2>1. Saves(k, WithStatus(snap[k], "killing"))
      BY <1>1 DEF ClaimSave, At, Forget, Saves, HoldersSave
    <2>2. OfKill(rec')
      BY <1>t, <2>1 DEF Saves, WithStatus, Record, OfKill
    <2>3. \A w \in Writers : ~Holds(w)'
      BY <2>1, <1>t, SavesKeepHeldCurrent
    <2> QED
      BY <2>2, <2>3 DEF Holds, OfKill
  <1>2. CASE kpc[k] \in Claimed
    <2>1. OfKill(rec) /\ \A w \in Writers : OfKill(snap[w])
      BY <1>2 DEF ClaimKept
    <2>2. \A w \in Writers : OfKill(snap'[w])
      BY <2>1, SnapshotsRead DEF OfKill, NoRecord
    <2>3. ~LaunchSave
      BY <1>2 DEF LaunchSave, RaceInv, BeforeSave, Claimed
    <2>4. CASE Saves(Task, PgidsWrite)
      BY <1>t, <2>1, <2>2, <2>4 DEF Saves, PgidsWrite, Record, OfKill
    <2>5. ~(Saves(Task, ResultWrite) /\ task = "storeSave")
      BY <1>t, <2>1 DEF RaceInv, ReadsAllow, OfKill
    <2>6. CASE \E i \in Killers, status \in {"killing", "killed"} :
                    Saves(i, WithStatus(snap[i], status))
      BY <1>t, <2>2, <2>6 DEF Saves, WithStatus, Record, OfKill
    <2>7. CASE rec' \in {rec, NoRecord}
      BY <2>1, <2>2, <2>7 DEF OfKill, NoRecord
    <2> QED
      BY <1>2, <2>2, <2>3, <2>4, <2>5, <2>6, <2>7, EveryWrite DEF Written, NoHealUnderKill
  <1> QED
    BY <1>1, <1>2, ClaimsStart

\* So with atomic updates, and a poll that does not heal while a kill is under
\* way, KILLED, SUCCESS and FAILED would be as final as the documentation says
\* (TerminalIsFinal): these two are all there is to the finding.
THEOREM FinalWithoutOverlap == Spec /\ []NoOverlap /\ []NoHealUnderKill => TerminalIsFinal
  <1>1. Init => ClaimKept
    BY DEF Init, ClaimKept, Claimed
  <1>2. Spec /\ []NoOverlap /\ []NoHealUnderKill => []ClaimKept
    BY <1>1, NextClaimKept, AlwaysHolders, PTL DEF Spec
  <1>3. Typed /\ RaceInv /\ HoldersSave /\ HeldCurrent /\ ClaimKept /\ [Next]_vars =>
            [rec.status \in Terminal => rec'.status \in {rec.status, "none"}]_vars
    <2> SUFFICES ASSUME Typed, RaceInv, HoldersSave, HeldCurrent, ClaimKept,
                        [Next]_vars, rec.status \in Terminal,
                        rec'.status \notin {rec.status, "none"}
                 PROVE  FALSE
      OBVIOUS
    <2>1. PICK k \in Killers : kpc[k] = "killedSave" /\ rec'.status = "killed"
      BY SerialOverturns DEF LastWriteOverturns
    <2> QED
      BY <2>1 DEF ClaimKept, Claimed, OfKill, Terminal
  <1> QED
    BY <1>2, <1>3, AlwaysHolders, AlwaysHeldCurrent, PTL DEF Spec, TerminalIsFinal

=============================================================================

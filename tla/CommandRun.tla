----------------------------- MODULE CommandRun -----------------------------
(***************************************************************************)
(* The life of ONE asynchronous command of the deploy service: the Redis   *)
(* record command:{id}, the background task of the pod that launched it,   *)
(* the kill requests (user, timeout, graceful shutdown), the polls that    *)
(* heal a logged run from its exit marker, and the remote process groups.  *)
(*                                                                         *)
(* Every repository operation is a GET, a local change and a SET with      *)
(* awaits in between, so a writer keeps in snap[w] the record it read, and *)
(* every other writer may act before it saves.                             *)
(***************************************************************************)
EXTENDS Naturals, FiniteSets

CONSTANTS
    Steps,      \* number of steps in the command's pipeline
    Users,      \* kill requests of API users, one call each
    Timeout,    \* the kill_command call of the task's own timeout
    Shutdown,   \* the kill_command call of graceful shutdown
    Polls,      \* pollers of GET /execution/{id}
    Task,       \* the background task of the launching pod
    Faults,     \* which of FaultKinds the environment may inject
    Expiring    \* which of TTLs may run out

FaultKinds == {"redis", "ssh", "crash", "shutdown", "nomarker"}
TTLs == {"run", "result"}     \* timeout+30 s, COMMAND_RESULT_TTL_SECONDS
Killers == Users \cup {Timeout, Shutdown}
Writers == Killers \cup Polls \cup {Task}
StepIds == 1..Steps

ASSUME StepsAssumption == Steps \in Nat \ {0}
ASSUME EnvironmentAssumption == Faults \subseteq FaultKinds /\ Expiring \subseteq TTLs
ASSUME WritersAssumption ==
    /\ Timeout # Shutdown
    /\ Timeout \notin Users /\ Shutdown \notin Users
    /\ Killers \cap Polls = {}
    /\ Task \notin Killers \cup Polls

VARIABLES
    killable, logged,   \* the whitelist entry's flags, copied at launch
    up,                 \* the launching pod is running
    rec,                \* the Redis record; status "none" = key absent
    snap,               \* [Writers -> record]: what a writer last read
    task, result,       \* where the task is; the outcome it will store
    pool, conn,         \* local pool entry present; its SSH connection open
    pgids,              \* entry.pgids of the pool entry
    spawned, seen,      \* processes created; PGID lines read so far
    grp, rc,            \* [StepIds -> ...]: process group, leader's exit
    termed,             \* steps whose group was sent SIGTERM
    marker,             \* <run_id>.exit on the control node
    kpc, kpod, kforce,  \* [Killers -> ...]: progress, pod, ?force=true
    kconn,              \* the channel a kill signals over
    kleft, kdone,       \* pgids still to do; pgids seen through to the end
    hpc, hcode          \* [Polls -> ...]: progress, marker read

taskVars == <<task, result, pool, conn, pgids, spawned, seen>>
remoteVars == <<grp, rc, termed, marker>>
killVars == <<kpc, kpod, kforce, kconn, kleft, kdone>>
pollVars == <<hpc, hcode>>
flags == <<killable, logged>>
vars == <<flags, up, rec, snap, taskVars, remoteVars, killVars, pollVars>>

---------------------------------------------------------------------------
(* The record and the status values of CommandStatus.                      *)

Transient == {"running", "killing"}
Terminal == {"killed", "success", "failed"}
Record == [status: {"none"} \cup Transient \cup Terminal,
           pgids: SUBSET StepIds, ttl: TTLs]
NoRecord == [status |-> "none", pgids |-> {}, ttl |-> "run"]
HasRecord == rec.status # "none"

\* A writer forgets what it read once its update has returned.
Forget(w) == snap' = [snap EXCEPT ![w] = NoRecord]

WithStatus(r, status) == [r EXCEPT !.status = status, !.ttl = "result"]

TaskStates == {"saving", "queued", "spawn", "handshake", "wait", "pgGet",
               "pgSave", "collect", "backfill", "storeGet", "storeSave",
               "timeout", "closing", "done", "lost"}
KillStates == {"idle", "guard", "config", "claimGet", "claimSave", "route",
               "reload", "connect", "term", "grace", "hard", "killedGet",
               "killedSave", "end"}
PollStates == {"idle", "marker", "healGet", "healSave"}

TypeOK ==
    /\ killable \in BOOLEAN /\ logged \in BOOLEAN /\ up \in BOOLEAN
    /\ rec \in Record
    /\ snap \in [Writers -> Record]
    /\ task \in TaskStates /\ result \in {"none", "ok", "err", "fail"}
    /\ pool \in BOOLEAN /\ conn \in BOOLEAN
    /\ pgids \in SUBSET StepIds
    /\ spawned \in 0..Steps /\ seen \in SUBSET StepIds
    /\ grp \in [StepIds -> {"none", "alive", "left", "gone"}]
    /\ rc \in [StepIds -> {"none", "ok", "err"}]
    /\ termed \in SUBSET StepIds
    /\ marker \in {"none", "ok", "err"}
    /\ kpc \in [Killers -> KillStates]
    /\ kpod \in [Killers -> {"owner", "other"}]
    /\ kforce \in [Killers -> BOOLEAN]
    /\ kconn \in [Killers -> {"none", "task", "own"}]
    /\ kleft \in [Killers -> SUBSET StepIds]
    /\ kdone \in [Killers -> SUBSET StepIds]
    /\ hpc \in [Polls -> PollStates]
    /\ hcode \in [Polls -> {"none", "ok", "err"}]

(* A run starts where _handle_async_execution has done pool_add and is     *)
(* about to save the first record.                                         *)
Init ==
    /\ killable \in BOOLEAN /\ logged \in BOOLEAN /\ up = TRUE
    /\ rec = NoRecord
    /\ snap = [w \in Writers |-> NoRecord]
    /\ task = "saving" /\ result = "none"
    /\ pool = TRUE /\ conn = TRUE /\ pgids = {}
    /\ spawned = 0 /\ seen = {}
    /\ grp = [s \in StepIds |-> "none"] /\ rc = [s \in StepIds |-> "none"]
    /\ termed = {} /\ marker = "none"
    /\ kpc = [k \in Killers |-> "idle"]
    /\ kpod = [k \in Killers |-> "owner"]
    /\ kforce = [k \in Killers |-> FALSE]
    /\ kconn = [k \in Killers |-> "none"]
    /\ kleft = [k \in Killers |-> {}]
    /\ kdone = [k \in Killers |-> {}]
    /\ hpc = [h \in Polls |-> "idle"]
    /\ hcode = [h \in Polls |-> "none"]

---------------------------------------------------------------------------
(* The background task: _handle_async_execution, _execution_task and       *)
(* _timeout_wrapper. An exception inside _execution_task becomes           *)
(* result = "fail" and is stored by the except branch, outside wait_for.   *)

local == <<pool, conn, pgids, spawned, seen>>
elsewhere == <<flags, up, remoteVars, killVars, pollVars>>

LaunchSave ==
    /\ task = "saving"
    /\ rec' = [status |-> "running", pgids |-> {}, ttl |-> "run"]
    /\ task' = "queued"
    /\ UNCHANGED <<snap, result, local, elsewhere>>

\* repo.save raised: the caller gets an error, pool_add is not undone.
LaunchFails ==
    /\ task = "saving" /\ "redis" \in Faults
    /\ task' = "lost"
    /\ UNCHANGED <<rec, snap, result, local, elsewhere>>

AcquireSlot ==
    /\ task = "queued"
    /\ task' = "spawn"
    /\ UNCHANGED <<rec, snap, result, local, elsewhere>>

CreateProcess ==
    /\ task = "spawn" /\ conn /\ spawned < Steps
    /\ spawned' = spawned + 1
    /\ grp' = [grp EXCEPT ![spawned + 1] = "alive"]
    /\ task' = "handshake"
    /\ UNCHANGED <<rec, snap, result, pool, conn, pgids, seen, flags, up, rc,
                   termed, marker, killVars, pollVars>>

\* Variant: PGID lines numbered from zero.
ReadHandshakeOffByOne ==
    /\ task = "handshake"
    /\ seen' = seen \cup {spawned - 1}
    /\ IF spawned < Steps
       THEN task' = "spawn" /\ pgids' = pgids
       ELSE task' = "wait" /\ pgids' = seen'
    /\ UNCHANGED <<rec, snap, result, pool, conn, spawned, elsewhere>>

\* The PGID line, and READY for a logged run. A cut channel yields an empty
\* line: no PGID for a plain run, an exception (TaskRaises) for a logged one.
ReadHandshake ==
    /\ task = "handshake"
    /\ \/ seen' = seen \cup {spawned}
       \/ "ssh" \in Faults /\ ~logged /\ seen' = seen
    /\ IF spawned < Steps
       THEN task' = "spawn" /\ pgids' = pgids
       ELSE task' = "wait" /\ pgids' = seen'
    /\ UNCHANGED <<rec, snap, result, pool, conn, spawned, elsewhere>>

\* The channel of step s has been closed: its leader exited and, when the
\* output streams over it, nobody holds the pipe any more.
Ended(s) == ~conn \/ (rc[s] # "none" /\ (logged \/ grp[s] # "left"))

WaitEarlierSteps ==
    /\ task = "wait"
    /\ \A s \in 1..Steps - 1 : Ended(s)
    /\ task' = IF pgids # {} THEN "pgGet" ELSE "collect"
    /\ UNCHANGED <<rec, snap, result, local, elsewhere>>

PgidsGet ==
    /\ task = "pgGet"
    /\ IF HasRecord
       THEN /\ snap' = [snap EXCEPT ![Task] = rec]
            /\ task' = "pgSave" /\ result' = result
       ELSE /\ snap' = snap
            /\ task' = "storeGet" /\ result' = "fail"
    /\ UNCHANGED <<rec, local, elsewhere>>

PgidsWrite == [snap[Task] EXCEPT !.pgids = pgids, !.ttl = "run"]

PgidsSave ==
    /\ task = "pgSave"
    /\ rec' = PgidsWrite
    /\ task' = "collect"
    /\ Forget(Task)
    /\ UNCHANGED <<result, local, elsewhere>>

\* Variant: a missing return code counts as zero.
CollectOutputNoneIsZero ==
    /\ task = "collect" /\ Ended(Steps)
    /\ result' = IF rc[Steps] = "err" THEN "err" ELSE "ok"
    /\ task' = IF logged /\ result' = "err" THEN "backfill" ELSE "storeGet"
    /\ UNCHANGED <<rec, snap, local, elsewhere>>

\* Variant: the exit status of the first process of the pipeline.
CollectOutputFirstStep ==
    /\ task = "collect" /\ Ended(Steps)
    /\ result' = IF rc[1] = "ok" /\ conn THEN "ok" ELSE "err"
    /\ task' = IF logged /\ result' = "err" THEN "backfill" ELSE "storeGet"
    /\ UNCHANGED <<rec, snap, local, elsewhere>>

CollectOutput ==
    /\ task = "collect" /\ Ended(Steps)
    /\ result' = IF rc[Steps] = "ok" /\ conn THEN "ok" ELSE "err"
    /\ task' = IF logged /\ result' = "err" THEN "backfill" ELSE "storeGet"
    /\ UNCHANGED <<rec, snap, local, elsewhere>>

Backfill ==
    /\ task = "backfill"
    /\ task' = "storeGet"
    /\ result' = IF HasRecord THEN result ELSE "fail"
    /\ UNCHANGED <<rec, snap, local, elsewhere>>

\* Variant: update instead of update_if in _store_result.
StoreGetUnconditional ==
    /\ task = "storeGet"
    /\ \/ /\ HasRecord
          /\ snap' = [snap EXCEPT ![Task] = rec]
          /\ task' = "storeSave" /\ result' = result
       \/ /\ ~HasRecord
          /\ task' = IF result = "fail" THEN "closing" ELSE "storeGet"
          /\ result' = "fail" /\ snap' = snap
    /\ UNCHANGED <<rec, local, elsewhere>>

StoreGet ==
    /\ task = "storeGet"
    /\ \/ /\ rec.status = "running"
          /\ snap' = [snap EXCEPT ![Task] = rec]
          /\ task' = "storeSave" /\ result' = result
       \/ /\ HasRecord /\ rec.status # "running"
          /\ task' = "closing" /\ UNCHANGED <<snap, result>>
       \/ /\ ~HasRecord
          /\ task' = IF result = "fail" THEN "closing" ELSE "storeGet"
          /\ result' = "fail" /\ snap' = snap
    /\ UNCHANGED <<rec, local, elsewhere>>

ResultWrite ==
    WithStatus(snap[Task], IF result = "ok" THEN "success" ELSE "failed")

StoreSave ==
    /\ task = "storeSave"
    /\ rec' = ResultWrite
    /\ task' = "closing"
    /\ Forget(Task)
    /\ UNCHANGED <<result, local, elsewhere>>

\* Variant: the finally branch without pool_remove.
CloseKeepsEntry ==
    /\ task = "closing"
    /\ task' = "done" /\ conn' = FALSE
    /\ UNCHANGED <<rec, snap, result, pool, pgids, spawned, seen, elsewhere>>

\* The finally branch of _timeout_wrapper.
Close ==
    /\ task = "closing"
    /\ task' = "done" /\ conn' = FALSE /\ pool' = FALSE
    /\ UNCHANGED <<rec, snap, result, pgids, spawned, seen, elsewhere>>

\* A SET in flight when its caller is cancelled or loses the connection may
\* or may not have been applied.
TaskInFlight == {rec} \cup (IF task = "pgSave" THEN {PgidsWrite} ELSE {})
                     \cup (IF task = "storeSave" THEN {ResultWrite} ELSE {})

TaskRaises ==
    /\ \/ "redis" \in Faults
          /\ task \in {"pgGet", "pgSave", "backfill", "storeGet", "storeSave"}
       \/ "ssh" \in Faults /\ task = "spawn"
       \/ "ssh" \in Faults /\ task = "handshake" /\ logged
    /\ rec' \in TaskInFlight
    /\ task' = IF result = "fail" THEN "closing" ELSE "storeGet"
    /\ result' = "fail"
    /\ Forget(Task)
    /\ UNCHANGED <<local, elsewhere>>

ConnectionLost ==
    /\ "ssh" \in Faults /\ conn
    /\ conn' = FALSE
    /\ UNCHANGED <<rec, snap, task, result, pool, pgids, spawned, seen,
                   elsewhere>>

\* wait_for cancels _execution_task at whatever await it has reached; the
\* clock runs only while the semaphore slot is held.
TimeoutFires ==
    /\ task \in {"spawn", "handshake", "wait", "pgGet", "pgSave", "collect",
                 "backfill", "storeGet", "storeSave"}
    /\ result # "fail"
    /\ rec' \in TaskInFlight
    /\ task' = "timeout"
    /\ kpc' = [kpc EXCEPT ![Timeout] = "guard"]
    /\ Forget(Task)
    /\ UNCHANGED <<result, local, flags, up, remoteVars, kpod, kforce,
                   kconn, kleft, kdone, pollVars>>

TimeoutDone ==
    /\ task = "timeout" /\ kpc[Timeout] = "end"
    /\ task' = "closing"
    /\ UNCHANGED <<rec, snap, result, local, elsewhere>>

TaskStep ==
    \/ LaunchSave \/ AcquireSlot \/ CreateProcess \/ ReadHandshake
    \/ WaitEarlierSteps \/ PgidsGet \/ PgidsSave \/ CollectOutput
    \/ Backfill \/ StoreGet \/ StoreSave \/ Close
    \/ TimeoutFires \/ TimeoutDone

---------------------------------------------------------------------------
(* kill_command, one process per call. Timeout and Shutdown never force.   *)

unkilled == <<flags, up, taskVars, pollVars>>
Local(k) == kpod[k] = "owner" /\ pool
At(k, state) == kpc[k] = state
Go(k, state) == kpc' = [kpc EXCEPT ![k] = state]
Return(k) ==
    /\ Go(k, "end")
    /\ kconn' = [kconn EXCEPT ![k] = "none"]
    /\ kleft' = [kleft EXCEPT ![k] = {}]
    /\ kdone' = [kdone EXCEPT ![k] = {}]

\* The kill endpoint's own checks, then the call. A server that is shutting
\* down takes no more requests.
UserKill(k, pod, force) ==
    /\ At(k, "idle")
    /\ pod = "owner" => up /\ At(Shutdown, "idle")
    /\ rec.status = "running"
    /\ killable \/ force
    /\ Go(k, "guard")
    /\ kpod' = [kpod EXCEPT ![k] = pod]
    /\ kforce' = [kforce EXCEPT ![k] = force]
    /\ UNCHANGED <<rec, snap, kconn, kleft, kdone, remoteVars, unkilled>>

\* The lifespan hook runs once the pod's requests are answered.
ShutdownStarts ==
    /\ "shutdown" \in Faults
    /\ up /\ pool /\ task # "saving" /\ At(Shutdown, "idle")
    /\ \A k \in Users : kpod[k] = "owner" => kpc[k] \in {"idle", "end"}
    /\ Go(Shutdown, "guard")
    /\ UNCHANGED <<rec, snap, kpod, kforce, kconn, kleft, kdone, remoteVars,
                   unkilled>>

\* Variant: the guard honours killable only for a command of another pod.
KillGuardTrustsEntry(k) ==
    /\ At(k, "guard")
    /\ IF kforce[k] \/ Local(k) \/ (killable /\ HasRecord)
       THEN Go(k, "config") ELSE Go(k, "end")
    /\ UNCHANGED <<rec, snap, kpod, kforce, kconn, kleft, kdone, remoteVars,
                   unkilled>>

\* Step 0: the killable guard, from the pool entry or else from the record.
KillGuard(k) ==
    /\ At(k, "guard")
    /\ IF kforce[k] \/ (killable /\ (Local(k) \/ HasRecord))
       THEN Go(k, "config") ELSE Go(k, "end")
    /\ UNCHANGED <<rec, snap, kpod, kforce, kconn, kleft, kdone, remoteVars,
                   unkilled>>

\* Step 0b: another pod's run needs its recorded SSH config (400 if gone).
KillConfig(k) ==
    /\ At(k, "config")
    /\ \/ Go(k, "claimGet")
       \/ "ssh" \in Faults /\ ~Local(k) /\ HasRecord /\ Go(k, "end")
    /\ UNCHANGED <<rec, snap, kpod, kforce, kconn, kleft, kdone, remoteVars,
                   unkilled>>

\* Step 1: update_if(status == RUNNING, mark_killing).
ClaimGet(k) ==
    /\ At(k, "claimGet")
    /\ IF rec.status = "running"
       THEN snap' = [snap EXCEPT ![k] = rec] /\ Go(k, "claimSave")
       ELSE snap' = snap /\ Go(k, "end")
    /\ UNCHANGED <<rec, kpod, kforce, kconn, kleft, kdone, remoteVars, unkilled>>

ClaimSave(k) ==
    /\ At(k, "claimSave")
    /\ rec' = WithStatus(snap[k], "killing")
    /\ Go(k, "route")
    /\ Forget(k)
    /\ UNCHANGED <<kpod, kforce, kconn, kleft, kdone, remoteVars, unkilled>>

\* Variant: a forced kill spares the process group the SIGTERM.
RouteForcedOutright(k) ==
    /\ At(k, "route")
    /\ IF Local(k)
       THEN /\ kconn' = [kconn EXCEPT ![k] = "task"]
            /\ kleft' = [kleft EXCEPT ![k] = pgids]
            /\ IF pgids = {} THEN Go(k, "killedGet")
               ELSE IF kforce[k] THEN Go(k, "hard") ELSE Go(k, "term")
       ELSE /\ UNCHANGED <<kconn, kleft>>
            /\ Go(k, "reload")
    /\ UNCHANGED <<rec, snap, kpod, kforce, kdone, remoteVars, unkilled>>

\* Step 2: signal over the task's connection with the entry's PGIDs, or
\* reload the record and signal over a connection of its own.
Route(k) ==
    /\ At(k, "route")
    /\ IF Local(k)
       THEN /\ kconn' = [kconn EXCEPT ![k] = "task"]
            /\ kleft' = [kleft EXCEPT ![k] = pgids]
            /\ IF pgids = {} THEN Go(k, "killedGet") ELSE Go(k, "term")
       ELSE /\ UNCHANGED <<kconn, kleft>>
            /\ Go(k, "reload")
    /\ UNCHANGED <<rec, snap, kpod, kforce, kdone, remoteVars, unkilled>>

\* Variant: no PGIDs, nothing to do (the record is left KILLING).
ReloadNothingToDo(k) ==
    /\ At(k, "reload")
    /\ kleft' = [kleft EXCEPT ![k] = rec.pgids]
    /\ IF rec.pgids = {} THEN Go(k, "end") ELSE Go(k, "connect")
    /\ UNCHANGED <<rec, snap, kpod, kforce, kconn, kdone, remoteVars, unkilled>>

Reload(k) ==
    /\ At(k, "reload")
    /\ kleft' = [kleft EXCEPT ![k] = rec.pgids]
    /\ \/ ~HasRecord /\ Go(k, "end")   \* the record vanished
       \/ HasRecord /\ rec.pgids = {} /\ Go(k, "killedGet")
       \/ HasRecord /\ rec.pgids # {} /\ Go(k, "connect")
    /\ UNCHANGED <<rec, snap, kpod, kforce, kconn, kdone, remoteVars, unkilled>>

Connect(k) ==
    /\ At(k, "connect")
    /\ \/ /\ Go(k, "term") /\ kconn' = [kconn EXCEPT ![k] = "own"]
          /\ UNCHANGED <<kleft, kdone>>
       \/ "ssh" \in Faults /\ Return(k)
    /\ UNCHANGED <<rec, snap, kpod, kforce, remoteVars, unkilled>>

\* _do_kill_via_connection: TERM, grace, kill -0, KILL for each PGID in
\* turn; an exception moves on to the next PGID.
Remains(s) == grp[s] \in {"alive", "left"}
Usable(k) == kconn[k] = "own" \/ conn
Turn(k, s) == s \in kleft[k] /\ \A t \in kleft[k] : s <= t
NextPgid(k, s) ==
    /\ kleft' = [kleft EXCEPT ![k] = @ \ {s}]
    /\ IF kleft[k] = {s} THEN Go(k, "killedGet") ELSE Go(k, "term")

SoftKill(k) ==
    /\ At(k, "term") /\ Usable(k)
    /\ \E s \in StepIds : Turn(k, s) /\ termed' = termed \cup {s}
    /\ Go(k, "grace")
    /\ UNCHANGED <<rec, snap, kpod, kforce, kconn, kleft, kdone, grp, rc, marker,
                   unkilled>>

\* Variant: the grace period is taken for the death of the group.
CheckAliveTrustsTerm(k) ==
    /\ At(k, "grace") /\ Usable(k)
    /\ \E s \in StepIds :
        /\ Turn(k, s) /\ NextPgid(k, s)
        /\ kdone' = [kdone EXCEPT ![k] = @ \cup {s}]
    /\ UNCHANGED <<rec, snap, kpod, kforce, kconn, remoteVars, unkilled>>

CheckAlive(k) ==
    /\ At(k, "grace") /\ Usable(k)
    /\ \E s \in StepIds :
        /\ Turn(k, s)
        /\ \/ /\ Remains(s)
              /\ Go(k, "hard") /\ UNCHANGED <<kleft, kdone>>
           \/ /\ ~Remains(s)
              /\ NextPgid(k, s)
              /\ kdone' = [kdone EXCEPT ![k] = @ \cup {s}]
    /\ UNCHANGED <<rec, snap, kpod, kforce, kconn, remoteVars, unkilled>>

HardKill(k) ==
    /\ At(k, "hard") /\ Usable(k)
    /\ \E s \in StepIds :
        /\ Turn(k, s)
        /\ grp' = [grp EXCEPT ![s] = IF Remains(s) THEN "gone" ELSE @]
        /\ rc' = [rc EXCEPT ![s] = IF grp[s] = "alive" THEN "err" ELSE @]
        /\ NextPgid(k, s)
        /\ kdone' = [kdone EXCEPT ![k] = @ \cup {s}]
    /\ UNCHANGED <<rec, snap, kpod, kforce, kconn, termed, marker, unkilled>>

\* Variant: the same PGID once more.
SignalFailsRetries(k) ==
    /\ kpc[k] \in {"term", "grace", "hard"}
    /\ ~Usable(k) \/ "ssh" \in Faults
    /\ Go(k, "term") /\ kleft' = kleft
    /\ UNCHANGED <<rec, snap, kpod, kforce, kconn, kdone, remoteVars, unkilled>>

SignalFails(k) ==
    /\ kpc[k] \in {"term", "grace", "hard"}
    /\ ~Usable(k) \/ "ssh" \in Faults
    /\ \E s \in StepIds : Turn(k, s) /\ NextPgid(k, s)
    /\ UNCHANGED <<rec, snap, kpod, kforce, kconn, kdone, remoteVars, unkilled>>

\* update(mark_killed): no condition on the status it finds.
KilledGet(k) ==
    /\ At(k, "killedGet")
    /\ \/ /\ HasRecord
          /\ snap' = [snap EXCEPT ![k] = rec] /\ Go(k, "killedSave")
          /\ UNCHANGED <<kconn, kleft, kdone>>
       \/ ~HasRecord /\ snap' = snap /\ Return(k)
    /\ UNCHANGED <<rec, kpod, kforce, remoteVars, unkilled>>

KilledSave(k) ==
    /\ At(k, "killedSave")
    /\ rec' = WithStatus(snap[k], "killed")
    /\ Forget(k) /\ Return(k)
    /\ UNCHANGED <<kpod, kforce, remoteVars, unkilled>>

KillRaises(k) ==
    /\ "redis" \in Faults
    /\ kpc[k] \in {"guard", "config", "claimGet", "claimSave", "reload",
                   "killedGet", "killedSave"}
    /\ \/ rec' = rec
       \/ At(k, "claimSave") /\ rec' = WithStatus(snap[k], "killing")
       \/ At(k, "killedSave") /\ rec' = WithStatus(snap[k], "killed")
    /\ Forget(k) /\ Return(k)
    /\ UNCHANGED <<kpod, kforce, remoteVars, unkilled>>

KillStep(k) ==
    \/ KillGuard(k) \/ KillConfig(k) \/ ClaimGet(k) \/ ClaimSave(k)
    \/ Route(k) \/ Reload(k) \/ Connect(k) \/ SoftKill(k) \/ CheckAlive(k)
    \/ HardKill(k) \/ SignalFails(k) \/ KilledGet(k) \/ KilledSave(k)

---------------------------------------------------------------------------
(* get_command_execution_result and _heal_from_marker, on any pod.         *)

unpolled == <<flags, up, taskVars, remoteVars, killVars>>

PollReturns(h) ==
    /\ hpc' = [hpc EXCEPT ![h] = "idle"]
    /\ hcode' = [hcode EXCEPT ![h] = "none"]
    /\ Forget(h)

\* Variant: only RUNNING is healed.
PollReadRunningOnly(h) ==
    /\ hpc[h] = "idle"
    /\ logged /\ rec.status = "running"
    /\ hpc' = [hpc EXCEPT ![h] = "marker"]
    /\ UNCHANGED <<rec, snap, hcode, unpolled>>

PollRead(h) ==
    /\ hpc[h] = "idle"
    /\ logged /\ rec.status \in Transient
    /\ hpc' = [hpc EXCEPT ![h] = "marker"]
    /\ UNCHANGED <<rec, snap, hcode, unpolled>>

ReadMarker(h) ==
    /\ hpc[h] = "marker"
    /\ \/ /\ marker # "none"
          /\ hcode' = [hcode EXCEPT ![h] = marker]
          /\ hpc' = [hpc EXCEPT ![h] = "healGet"]
       \/ /\ marker = "none" \/ "ssh" \in Faults
          /\ hpc' = [hpc EXCEPT ![h] = "idle"] /\ hcode' = hcode
    /\ UNCHANGED <<rec, snap, unpolled>>

HealGet(h) ==
    /\ hpc[h] = "healGet"
    /\ IF rec.status \in Transient
       THEN /\ snap' = [snap EXCEPT ![h] = rec] /\ hcode' = hcode
            /\ hpc' = [hpc EXCEPT ![h] = "healSave"]
       ELSE PollReturns(h)
    /\ UNCHANGED <<rec, unpolled>>

HealWrite(h) ==
    WithStatus(snap[h], IF hcode[h] = "ok" THEN "success" ELSE "failed")

HealSave(h) ==
    /\ hpc[h] = "healSave"
    /\ rec' = HealWrite(h)
    /\ PollReturns(h)
    /\ UNCHANGED unpolled

PollRaises(h) ==
    /\ "redis" \in Faults /\ hpc[h] \in {"healGet", "healSave"}
    /\ rec' \in {rec} \cup (IF hpc[h] = "healSave" THEN {HealWrite(h)} ELSE {})
    /\ PollReturns(h)
    /\ UNCHANGED unpolled

PollStep(h) == PollRead(h) \/ ReadMarker(h) \/ HealGet(h) \/ HealSave(h)

---------------------------------------------------------------------------
(* The remote host and the environment.                                    *)

aside == <<flags, rec, snap, taskVars, killVars, pollVars>>

\* run-ansible.sh leaves its exit code in <run_id>.exit (the EXIT trap);
\* not when it fails before the trap is armed, nor in a debug or dry run.
Leaves(s, code) ==
    IF logged /\ s = Steps
    THEN {code} \cup (IF "nomarker" \in Faults THEN {marker} ELSE {})
    ELSE {marker}

RunEnds(s) ==
    /\ grp[s] = "alive"
    /\ grp' = [grp EXCEPT ![s] = "gone"]
    /\ \E code \in {"ok", "err"} :
        /\ rc' = [rc EXCEPT ![s] = code]
        /\ marker' \in Leaves(s, code)
    /\ UNCHANGED <<up, termed, aside>>

\* SIGTERM ends the leader and perhaps not the whole group. A shell that
\* dies of SIGTERM runs its EXIT trap with the status of the last command
\* it completed, which in main() is 0, while the process itself exits 143.
TermEnds(s) ==
    /\ s \in termed /\ grp[s] = "alive"
    /\ \E g \in {"left", "gone"} : grp' = [grp EXCEPT ![s] = g]
    /\ \E code \in {"ok", "err"} :
        /\ logged /\ s = Steps => code = "err"
        /\ rc' = [rc EXCEPT ![s] = code]
    /\ marker' \in Leaves(s, "ok")
    /\ UNCHANGED <<up, termed, aside>>

StragglersEnd(s) ==
    /\ grp[s] = "left"
    /\ grp' = [grp EXCEPT ![s] = "gone"]
    /\ UNCHANGED <<up, rc, termed, marker, aside>>

RecordExpires ==
    /\ HasRecord /\ rec.ttl \in Expiring
    /\ rec' = NoRecord
    /\ UNCHANGED <<flags, up, snap, taskVars, remoteVars, killVars, pollVars>>

\* A crash, or the end of the event loop after graceful shutdown.
PodStops ==
    /\ up /\ ("crash" \in Faults \/ At(Shutdown, "end"))
    /\ up' = FALSE
    /\ task' = "done" /\ pool' = FALSE /\ conn' = FALSE
    /\ kpc' = [k \in Killers |-> IF kpod[k] = "owner" /\ kpc[k] # "idle"
                                THEN "end" ELSE kpc[k]]
    /\ snap' = [w \in Writers |->
                  IF w = Task \/ (w \in Killers /\ kpod[w] = "owner")
                  THEN NoRecord ELSE snap[w]]
    /\ UNCHANGED <<flags, rec, result, pgids, spawned, seen, remoteVars,
                   kpod, kforce, kconn, kleft, kdone, pollVars>>

Next ==
    \/ TaskStep \/ LaunchFails \/ TaskRaises \/ ConnectionLost
    \/ ShutdownStarts
    \/ \E k \in Users, pod \in {"owner", "other"}, force \in BOOLEAN :
            UserKill(k, pod, force)
    \/ \E k \in Killers : KillStep(k) \/ KillRaises(k)
    \/ \E h \in Polls : PollStep(h) \/ PollRaises(h)
    \/ \E s \in StepIds : RunEnds(s) \/ TermEnds(s) \/ StragglersEnd(s)
    \/ RecordExpires \/ PodStops

Spec == Init /\ [][Next]_vars

(* Fairness. The event loop, Redis and SSH answer; wait_for's timer fires; *)
(* the client of a run polls until it sees a terminal status; a logged run *)
(* ends some day. Nothing is assumed of users or of a plain command.       *)
Fairness ==
    /\ WF_vars(TaskStep)
    /\ \A k \in Killers : WF_vars(KillStep(k))
    /\ \A h \in Polls : WF_vars(PollStep(h))
    /\ \A s \in StepIds : WF_vars(logged /\ (RunEnds(s) \/ TermEnds(s)))

FairSpec == Spec /\ Fairness

---------------------------------------------------------------------------
(* Properties that hold.                                                   *)

Settled == rec.status \notin Transient
Forced == \E k \in Users : kforce[k]

\* The system never kills a killable:false run on its own: unless a user
\* forced it, no timeout, shutdown or race leads to a signal or to a kill
\* status (kill_command step 0).
SystemSparesNonKillable ==
    ~killable /\ ~Forced =>
        rec.status \notin {"killing", "killed"} /\ termed = {}

\* The two writers of a verdict, the task and the heal, record what the run
\* did: SUCCESS needs an exit 0, or the marker of a logged run that was sent
\* SIGTERM; FAILED needs a failed exit or an exception in the task.
VerdictMatchesExit ==
    /\ rec.status = "success" =>
           rc[Steps] = "ok" \/ (logged /\ Steps \in termed)
    /\ rec.status = "failed" =>
           rc[Steps] = "err" \/ result = "fail" \/ "ssh" \in Faults

\* A kill that is about to write KILLED and saw even one PGID through to the
\* end over a channel it still has left no process group of the run behind
\* (the recorded PGIDs are all of them, and both phases were applied).
KillIsComplete ==
    \A k \in Killers :
        /\ kpc[k] \in {"killedGet", "killedSave"}
        /\ kdone[k] # {} /\ Usable(k) /\ "ssh" \notin Faults
        => \A s \in StepIds : ~Remains(s)

\* A terminal status changes only by a writer that read the record while it
\* was not terminal, or by one of the two updates that ask for no status, a
\* kill's last write and the task's PGIDs (update_if's condition, as far as
\* a GET followed by a SET can keep it).
OnlyRacingWritersOverturn ==
    [][rec.status \in Terminal /\ rec'.status \notin {rec.status, "none"} =>
        \E w \in Writers :
            /\ snap'[w] = NoRecord
            /\ \/ snap[w].status \in Transient
               \/ w \in Killers /\ kpc[w] = "killedSave"
               \/ w = Task /\ task = "pgSave"]_vars

\* CommandPool's view of this run: one call, admitted with a slot to be had.
\* The slot is held while the pipeline runs and its outcome is stored; a
\* timeout and an exception are handled without it.
Place ==
    IF task = "saving" THEN "saving"
    ELSE IF task = "queued" THEN "created"
    ELSE IF task \in {"done", "lost"} THEN task
    ELSE IF result = "fail" \/ task = "timeout"
            \/ (task = "closing" /\ kpc[Timeout] # "idle") THEN "handling"
    ELSE "holding"
Calls == INSTANCE CommandPool
    WITH Requests <- {Task}, MaxRunning <- 1, MaxConcurrency <- 1,
         Faults <- Faults \cap {"redis", "ssh"},
         pc <- [t \in {Task} |-> Place],
         pool <- IF pool THEN {Task} ELSE {}, conn <- IF conn THEN {Task} ELSE {},
         permits <- IF Place = "holding" THEN 0 ELSE 1, queue <- <<>>,
         overlapped <- FALSE

\* As long as its pod is up, the task treats pool entry, connection and slot
\* the way CommandPool assumes of each of its calls: whatever interrupts it,
\* kills included, the slot goes back once, before a timeout is handled, and
\* entry and connection go in the one finally branch.
TaskIsPoolCall == [][up' => Calls!Next]_(Calls!vars)

\* All that happens to the remote processes of a run is what RemoteHost lets
\* happen to process groups, and each party does its own part of it: the task
\* starts them, they end by themselves, and a kill only signals. It signals
\* groups that were once there, and sends no SIGKILL to one it has not sent
\* SIGTERM, whichever calls meet and whatever PGIDs they have read.
Host == INSTANCE RemoteHost
    WITH Groups <- StepIds, MayOmit <- "nomarker" \in Faults,
         marks <- IF logged THEN {Steps} ELSE {},
         marker <- [s \in StepIds |-> IF s = Steps THEN marker ELSE "none"]
HostStep ==
    \E s \in StepIds :
        \/ Host!Start(s) /\ UNCHANGED <<flags, up, killVars, pollVars>>
        \/ Host!OnItsOwn(s) /\ UNCHANGED <<up, aside>>
        \/ (Host!Term(s) \/ Host!Kill(s)) /\ UNCHANGED unkilled
StepsAreGroups == Host!Init /\ [][HostStep]_(Host!vars)

\* How many steps the task has still to take at most, and a kill: a number for
\* each await they can be at, counting down to the end.
TaskRank ==
    CASE task = "done" -> 0
      [] task \in {"closing", "lost"} -> 1
      [] task = "timeout" -> 2
      [] task = "storeSave" -> IF result = "fail" THEN 2 ELSE 4
      [] task = "storeGet" -> IF result = "fail" THEN 3 ELSE 5
      [] task = "backfill" -> 6
      [] task = "collect" -> 7
      [] task = "pgSave" -> 8
      [] task = "pgGet" -> 9
      [] task = "wait" -> 10
      [] task = "spawn" -> 10 + 2 * (Steps - spawned)
      [] task = "handshake" -> 11 + 2 * (Steps - spawned)
      [] task = "queued" -> 11 + 2 * Steps
      [] task = "saving" -> 12 + 2 * Steps
KillRank(k) ==
    LET left == 3 * Cardinality(kleft[k])
    IN  CASE kpc[k] = "end" -> 0
          [] kpc[k] = "killedSave" -> 1
          [] kpc[k] = "killedGet" -> 2
          [] kpc[k] = "hard" -> left + 1
          [] kpc[k] = "grace" -> left + 2
          [] kpc[k] = "term" -> left + 3
          [] kpc[k] = "connect" -> 3 * Steps + 4
          [] kpc[k] = "reload" -> 3 * Steps + 5
          [] kpc[k] = "route" -> 3 * Steps + 6
          [] kpc[k] = "claimSave" -> 3 * Steps + 7
          [] kpc[k] = "claimGet" -> 3 * Steps + 8
          [] kpc[k] = "config" -> 3 * Steps + 9
          [] kpc[k] = "guard" -> 3 * Steps + 10
          [] kpc[k] = "idle" -> 3 * Steps + 11

\* Neither the task nor a kill goes round in circles: whatever they meet (an
\* exception in the handler of an exception, a record that is gone, a group
\* that cannot be signalled, a timeout at any await), each step brings them
\* nearer to their end, and nobody else's step sets them back.
CallsWindDown ==
    [][/\ <<task, result>>' # <<task, result>> => TaskRank' < TaskRank
       /\ \A k \in Killers :
            <<kpc[k], kleft[k]>>' # <<kpc[k], kleft[k]>> =>
                KillRank(k)' < KillRank(k)]_vars

\* While its pod is up, every run that may be killed, or has a marker to
\* come and no user forcing a kill, reaches a terminal status: no race of the
\* writers leaves it RUNNING or KILLING for good. The exception is a user's
\* kill that is under way while the task updates the PGIDs: that one can
\* bring back KILLING after KILLED, and nothing ends it (TerminalIsFinal).
KillMeetsUpdate ==
    task = "pgSave" /\ \E k \in Users : kpc[k] \notin {"idle", "end"}
EveryRunSettles ==
    []~KillMeetsUpdate =>
        (~Settled /\ (killable \/ (logged /\ grp[Steps] # "none"))
            ~> Settled \/ (~killable /\ Forced) \/ ~up)

\* The pool entry, which counts against COMMAND_MAX_RUNNING, goes away.
PoolEntryRemoved == pool ~> ~pool

\* Orphan recovery: whatever crashed, once the exit marker is there the
\* record of a logged run settles, from RUNNING and from KILLING.
MarkerHealsOrphan == logged /\ ~Settled /\ marker # "none" ~> Settled

---------------------------------------------------------------------------
(* Claims of the documentation that the code does not keep.                *)

\* KILLED, SUCCESS and FAILED are final states of the record's state machine
\* (docs/arch/ssh-command.md, section 7), "never resurrected"
\* (docs/arch/ansible-runner-future-work.md).
TerminalIsFinal ==
    [][rec.status \in Terminal => rec'.status \in {rec.status, "none"}]_vars

\* The script always records the real exit code in its marker
\* (docs/arch/ansible-runner.md, section 2.6).
SuccessMeansExitZero == rec.status = "success" => rc[Steps] = "ok"

\* "... ensure no orphan processes remain on remote hosts after the API
\* server stops" (shutdown_gracefully, docstring), for a killable command.
NoOrphanAfterShutdown == ~up /\ killable => \A s \in StepIds : ~Remains(s)

=============================================================================

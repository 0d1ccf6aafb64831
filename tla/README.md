# Deploy-Service: verification project

Deploy-Service is a FastAPI service that runs whitelisted commands on remote hosts over SSH,
keeps their state in Redis so that any pod can answer for them, triggers GitLab deploy
pipelines, and serves the logs of both. Several pods run the same code behind a load balancer;
each pod is one asyncio event loop.

The project models the part of the service where its correctness is decided by the order of
events: the life of an asynchronous command (`CommandRun`), the admission of commands on a pod
(`CommandPool`, with the abstract `WorkerPool` it implements), the target and the SSH identity of a
run (`RunTarget`), the script a playbook run executes on its node (`RunAnsible`), what service and
script count on of each other (the abstract `RemoteHost`, which both implement), the pages that
follow a log while it grows (`LogTail`), and the duplicate check before a GitLab pipeline
(`DeployTrigger`). Each module is checked by TLC on small instances and proved about with TLAPS for
all values of its constants.

## 1. Inventory

| Component | Source | State | Operations | Hard behaviour |
|---|---|---|---|---|
| Command state repository | `app/repositories/command_state_repository.py`, `app/domain/command.py` | Redis record `command:{id}` (status, pgids, TTL class) | `save`, `load`, `update`, `update_if` | every update is GET, change, SETEX with awaits in between: not atomic against another pod or task |
| Command executor, task | `app/services/command_executor.py` | background task, remote processes, PGIDs | `_handle_async_execution`, `_execute_pipeline`, `_collect_output`, `_store_result`, `_timeout_wrapper` | cancellation at any await, races with kill and heal, cut connection |
| Command executor, admission | same file | none of its own | `execute_command` | capacity is checked long before the entry is added; several ways to fail after the connection is open |
| Running pool, semaphore | `app/services/command_pool.py` | `_local_running_commands`, execution semaphore | `pool_add/get/remove/size`, acquire, release | slots and entries must be released on every path |
| Kill and shutdown | `app/services/command_lifecycle.py` | none of its own | `kill_command`, `shutdown_gracefully`, soft and hard kill | local against cross-pod kill, killable guard, claim RUNNING -> KILLING, unconditional last write |
| Poll and orphan heal | `app/services/command_service.py`, `command_state_helpers.py` | none of its own | `get_command_execution_result`, `_heal_from_marker` | exit marker read, then a conditional update, racing the task and the kill |
| Command API | `app/api/v1/command.py` | none | kill, execute, poll, stream endpoints | the kill endpoint checks the record before the call |
| Application lifespan | `app/main.py` | none | shutdown hook | kills the pool, then the event loop ends |
| Playbook script | `ansible/run-ansible.sh` | process group, log, `<run_id>.exit`, inventory clone, container, shared vault file | argument checks, stages, two EXIT traps | signals at any point, tee, two shells, runs that share the vault file |
| Command trace | `app/services/command_trace.py` | none; the page holds the cursor | incremental log tail | log grows between `stat` and `tail`; bytes against characters |
| Log viewer page | `app/core/log_viewer_template.py` | cursor, failures in a row, whether it polls | poll, render, stop | when to stop, after which answer |
| Deploy service | `app/services/deploy_service.py`, `app/api/v1/deploy.py` | none | trigger with duplicate check, status, job trace | check-then-act against GitLab |
| GitLab repository, trace cache | `app/repositories/gitlab_pipeline_repository.py`, `trace_cache_repository.py` | cache of finished traces | list, trigger, cancel, retry, trace | listing status by status while pipelines move on, a page limit, lost answers |
| SSH support | `app/services/command_ssh.py` | files `SSH-<name>.json` | selection of the SSH config, load, reconnect | config selected once, loaded again later by other pods; files change meanwhile |
| Host resolution | `app/repositories/host_resolver.py`, `bastion_matching.py`, `app/services/inventory_service.py` | none | four resolvers, choice of the Bastion type, first match | several reads of an inventory that changes |
| Inventory client | `app/clients/inventory_client.py`, `app/repositories/inventory_repository.py` | a static API key | lookups with one retry after a 401 | which failures fail the request |
| Pipeline builder | `app/services/pipeline_builder.py` | none | placeholder substitution | sequential substitution |
| Output format, versions | `app/services/command_output_format.py`, `app/core/version.py` | none | parsing, comparison | pure functions |
| Authentication, SSH authenticators, dry run, log renderer, configuration | see `PROJECT.json` | none of interest | wiring, libraries, layout | none |

How they interact: an endpoint calls `execute_command`, which checks capacity, resolves the
host, opens an SSH connection, checks the script's version, and hands over to a background task
that adds a pool entry, saves the record and queues for the semaphore. The task, the kill calls
(users, the task's own timeout, graceful shutdown) and the polls, on any pod, meet only in the
Redis record and on the remote host; task and kills of the same pod also share the pool entry
and its connection.

What makes each part correct:

- record: a terminal status is final, as far as the code can keep it; a verdict is backed by
  what the run did; every run settles;
- kill: nothing the service does on its own touches a `killable: false` run; a kill that worked
  leaves no process behind;
- heal: whatever crashed, a marker settles the record;
- admission: slots and entries are conserved, nothing is held by a call that is over, nobody
  starves behind the semaphore;
- log: nothing is skipped, every complete line is shown before a page stops, a cached trace is the
  final one;
- target: a run connects to one allowed address with one SSH config, the right one, from any pod;
- script: a marker means that the run is over, every failure leaves one, no clone is left behind and
  none is removed under a container;
- deploy trigger: at most one active pipeline per set of variables, as far as a check that is no
  snapshot can tell.

## 2. Modules

| Module | Content |
|---|---|
| `CommandRun` | one command: record, task, kills, polls, remote processes, faults |
| `CommandPool` | many calls on one pod: gate, connections, pool, semaphore |
| `WorkerPool` | abstract: a pool of workers that serves its clients first come, first served |
| `RunTarget` | one request: from the host it names to address and SSH config, and later connections |
| `RunAnsible` | runs of the script on one node: shells, traps, clone, container, vault file, signals |
| `RemoteHost` | abstract: process groups as the service sees them, exit statuses, markers, signals |
| `LogTail` | the pages on one log: writer, status, the reads of an answer, trace cache, cursor |
| `DeployTrigger` | trigger calls against GitLab's pipelines of one ref |
| `MC...` | model values and inputs for TLC, one module for each of the above but the abstract ones |
| `...Proofs` | the theorems about each of them; `CommandRunHostProofs` has those of `CommandRun` as half of `RemoteHost` |

How they compose. `CommandRun` implements one call of `CommandPool` (`Calls`, `TaskIsPoolCall`): its
task maps to the places `saving`, `created`, `holding`, `handling`, `done` and `lost`, with the pool
entry, the connection and one permit. `CommandPool` in turn implements `WorkerPool` (`Workers`,
`ServesInOrder`): the workers' clients are the tasks that hold a slot, the line is the semaphore's
queue, and permits are gone. What a command does while it holds a slot is one step in `CommandPool`
(`WorkEnds`, `WorkFails`) and the whole of `CommandRun`. `RunAnsible` is what the remote process
group of a logged command does. The two meet in `RemoteHost`, a contract about process groups: what
a leader may leave when it ends (exit status, marker, members) by itself and after SIGTERM, and that
the service does no more to a group than start it, send SIGTERM, and then SIGKILL. `RunAnsible`
implements it with its two shells, traps and disk faults (`ScriptIsGroup`); `CommandRun` implements it
from the other side (`StepsAreGroups`), and what it lets a remote process do by itself is exactly what
the contract allows (`EnvironmentIsHost`). So nothing that was found of `CommandRun` rests on a script
better behaved than the one in the repository. `RunTarget` is the inside of `PrepareFails` and `Connect`
of `CommandPool` and of the reconnects of `CommandRun`. `LogTail` takes from `CommandRun` no more
than that a status turns terminal, after the output is complete ("done") or before it ("failed"): the
task lost its connection to a script that writes on, or a kill was recorded, or healed to SUCCESS,
while something still writes. That a SUCCESS is of the first kind unless the last step was sent SIGTERM
is a theorem (`SuccessesAreOver`).

Definitions named "Variant" are plausible bugs of the code. Nothing of the specification uses
them; they are there to be put in place of the definition they follow, to see that a property
notices.

### CommandRun

State and code:

| Variable | Code |
|---|---|
| `rec` | the Redis record, reduced to status, pgids and the class of its TTL; status `none` is an absent key |
| `snap[w]` | the record a writer has read and will save (the local of `update` / `update_if`) |
| `task`, `result` | await point of the background task; the outcome it is going to store |
| `pool`, `conn`, `pgids` | the pool entry, its SSH connection, `entry.pgids` |
| `spawned`, `seen` | processes created, handshake lines read (`pipeline_pgids`) |
| `grp`, `rc`, `termed`, `marker` | remote: process group, exit of its leader, SIGTERM sent, exit marker |
| `kpc`, `kpod`, `kforce`, `kconn`, `kleft`, `kdone` | progress and locals of each `kill_command` call |
| `hpc`, `hcode` | progress and marker of each poll |
| `killable`, `logged`, `up` | the command's flags, fixed at launch; the launching pod runs |

One action stands for the code between two awaits that change or read shared state. A
repository update is two actions (`...Get`, `...Save`), since everything else may run in
between. An exception is an action of its own (`TaskRaises`, `KillRaises`, `PollRaises`): a
SETEX in flight may or may not have been applied. `TimeoutFires` is the cancellation by
`wait_for`, possible at every await under the semaphore. `PodStops` is a crash, or the end of
the process after graceful shutdown; it takes all local state, while Redis, the remote host and
the other pods go on.

A group is `alive` (its leader runs), `left` (the leader is gone, other members hold on) or
`gone`. Ended plain commands need the whole group gone, since stragglers hold the pipe; a
logged run writes to a file. SIGTERM ends the leader and perhaps not the group.

The environment is chosen by two constants. `Faults`: `redis` (an operation raises), `ssh` (a
connect, a command or the task's connection fails), `crash`, `shutdown`, `nomarker` (the script
ends before its trap is armed, or a debug or dry run). `Expiring`: which class of TTL may run
out. `killable` and `logged` are free in `Init`.

### CommandPool

`pc[r]` is where a call is; `conn` and `pool` are the calls with an open connection and an
entry; `permits` and `queue` are the asyncio semaphore, a free permit being taken only if nobody
queues. A call that is over may call again, so a finite `Requests` stands for calls without
end. `lost` is a call whose first save raised: no task exists that would clean up. `overlapped` is
history: a call has passed the gate behind another one that was not yet dispatched.

### RunTarget

| Variable | Code |
|---|---|
| `node`, `lists` | what the inventory says of the node, and its mapping list for each Bastion type |
| `files`, `whitelist` | the `SSH-<name>.json` that exist; the addresses allow and deny lists let pass |
| `request`, `pc`, `allowed` | the request, the await it is at, the whitelist as read at its start |
| `cluster`, `type`, `ip`, `bastion`, `name` | the locals of the resolvers and of `_prepare_execution` |
| `record`, `status`, `entry` | `resolved_ip` and `ssh_config` of the record, its status, the pool entry of the killing pod |
| `opened` | every connection opened for the run: address and config |
| `kill`, `saw` | progress of `kill_command`, and what its step 0b went by |

Each await of the launch (lookup, mappings, connect, save) is a step, and so is the gap between the
test for a config file and its use. `Changes` is everybody else: at any time the node, a mapping
list, a file or the whitelist may change. A pattern is the set of cluster names it matches in full;
an invalid regex matches none. What else the validation refuses is `Fails`.

### RunAnsible

Per run: `outer` and `stage` say where the two shells are, `code` what the EXIT trap found in `$?`,
`rc` the status the process ended with, `armed` and `dir` the subshell's trap and the clone,
`container`, `log`, `sidecar` and `tee` what their names say. `vault` is the one file all runs share.
`OpenVault` and `FillVault` are the truncation and the write of a redirection. `Term` puts SIGTERM on
the process group, as `kill_command` does, and each shell meets it when it may
(`OuterMeetsTerm`, `StageMeetsTerm`); `Kill` is SIGKILL. bash runs an EXIT trap on SIGTERM, with the
status of the last command it completed, and a trap that is running is cut short; docker's daemon
owns the container, which no signal reaches. `TeeFails` is a full disk: tee fails in the end, and the
writes of the trap may.

### DeployTrigger

`status` and `pvars` are GitLab's pipelines of one ref; `pc`, `want`, `next`, `seen` and `dup` the
locals of each call of `trigger_pipeline` and `list_running`; `lost` a create GitLab has received
and not applied. Each list request, with the variable requests of its page, is one step, and
pipelines move on between the steps. Two ghosts say what a check had no chance to see: `excused`
(unread, beyond the page, entered a listed status other than by moving on) and `twins` (pairs of which
one was started or resumed past the other's check).

### LogTail

| Variable | Code |
|---|---|
| `source` | `ssh`: the log of a command, `get_command_trace`; `gitlab`: the trace of a job, `get_job_trace_range` |
| `log`, `ended`, `status` | the bytes written, whether the writer is done, the status in the record or of the job |
| `cache` | the cached trace of a finished job, which may expire |
| `pc`, `seen`, `size` | where the request of a page is, the status and the `stat` size it has read |
| `offset`, `failures`, `shown`, `stopped` | the page: `currentByteOffset`, `consecutiveFailures`, positions of the bytes rendered, why it polls no more |

The log is a sequence of bytes: a plain byte, the two bytes of a wide character, a newline. The
service keeps nothing between requests; the page carries the cursor. `NextCursor` is the
arithmetic both services share: `total` minus the number of characters after the last newline, or
the old cursor if the text has no newline. A command's log is read in three steps (record,
`stat`, `tail`) and the log may grow between any two; a trace is read in two (job, whole trace), or
in one from the cache. A trace is cached only when the job had ended before it was fetched, and
the cache may refuse or drop it. `Faults`: `poll` (a request fails at any point), `session` (401 or
403), `early` (the record turns terminal while something still writes; the model calls that
`failed`). `PollRejected` is the refusal of
a negative cursor by the endpoint. A page that has stopped may be opened again, at 0, while cache
and log are what they were; so one page that is opened again and again also stands for others
that come later.

## 3. Runs

| Run | Instance | Shows |
|---|---|---|
| `run_faults` | 1 step, a user on either pod, a poller, timeout; Redis, SSH, crash, missing marker; record may expire | `TypeOK`, `SystemSparesNonKillable`, `VerdictMatchesExit`, `StepsAreGroups`, `OnlyRacingWritersOverturn`, `TaskIsPoolCall`, `CallsWindDown` |
| `run_pipeline` | 2 steps, a user, timeout, graceful shutdown | `KillIsComplete`, `VerdictMatchesExit` |
| `run_live` | 1 step, a user, a poller, timeout, crash, fairness | `EveryRunSettles`, `PoolEntryRemoved`, `MarkerHealsOrphan` |
| `pool_slots` | 4 calls, 3 places, 2 slots, Redis and SSH faults, fairness | `TypeOK`, `SlotsConserved`, `ReleasedAtEnd`, `CeilingWithoutOverlap`, `ServesInOrder`, `AdmittedFinish` |
| `log_tail` | a log of up to 5 bytes with wide characters, a cap of 4, one page that may be opened again, both sources, 2 failures in a row, all faults, fairness | `TypeOK`, `NothingSkipped`, `TraceShownExactly`, `FinishedShowsAll`, `CacheIsFinal`, `EveryLineShown` |
| `deploy` | 2 callers, 2 pipelines, 3 statuses, a page of 1, one optional variable, all faults | `TypeOK`, `DuplicateHasExcuse`, `TwinsHaveExcuse` |
| `run_ansible` | 2 runs, one of any mode that may be killed and may fill its disk next to a normal one, 2 passwords, fairness | `TypeOK`, `MarkerMeansOver`, `FailureLeavesMarker`, `CloneStaysMounted`, `NoStrayClone`, `VaultDriftsByOverlapOnly`, `ScriptIsGroup`, `NormalRunIsMarked` |
| `run_target` | 8 requests (each kind of host, with and without a named config), 2 clusters, 2 Bastion types, 3 Bastions, one with an unsafe name, overlapping mappings in both orders, everything may change | `TypeOK`, `OneIdentity`, `TargetAllowed`, `RightWhenQuiet`, `RefusedBeforeClaim` |
| `claim_*` | as small as the counterexample needs | statements of the documentation that the code does not keep, section 5 |

Bounds, and why they are enough. The record is a single key and all its writers are present:
the task, its timeout, a user's kill on either pod, shutdown and a poll. One user and one poller
are enough for every pair of writers to race, and there is no state that counts users or polls;
two steps are enough for "the other step" (`KillIsComplete`, the PGIDs known in part, the exit
of the last step against that of the first). The polls repeat without bound. With four calls,
three places and two slots the gate fills, two calls wait behind the semaphore, and one is
refused. Five bytes hold two complete lines and a partial one, more than the cap of four, so
that a page meets a log that outgrows the cap between two polls; the pages share the cache only,
and a page opened again meets the cache a first one has filled. Two calls and two pipelines are the
least for a race between two checks, for a twin, and for a page of one that hides an older pipeline;
three statuses give a pipeline one to leave, one to be in and one to come to. Two runs of the script
meet in the vault file only, and two passwords tell them apart. Requests share nothing but what they
read, all of which changes freely in `run_target`, so one request at a time is every request. The
theorems hold for any number of all of these. `MaxLog` cuts the log and `MaxPipelines` the
pipelines, which have no bound in the code. No other counter is cut: `spawned` is bounded by `Steps`,
`permits` by the limit. The callers of `DeployTrigger` are symmetric, and its run has safety
properties only; no other run uses symmetry.

Deadlock is not checked (`CHECK_DEADLOCK FALSE`) in any run: a command ends and its record
stays, so the system of `CommandRun` rightly stops, as does a run of the script and a launch in
`RunTarget`; in `CommandPool` it stops when the first save of enough calls has raised. Where something must not stop, a liveness property says
so.

Fairness. `TaskStep`, `KillStep`, `PollStep` are weakly fair: the event loop runs a ready
coroutine, Redis and SSH answer or raise. `TimeoutFires` is part of `TaskStep`, since `wait_for`
arms a timer; so a plain command need not end by itself. The script of a logged run ends some
day, and its client polls until it sees a terminal status (the log viewer does, every few
seconds). Users, faults and shutdown are never fair. In `CommandPool` each admitted task makes
progress: its work is cut off by the timer. In `LogTail` an open page polls and its requests are
answered or fail; the writer need not write, nor end. In `RunAnsible` the two shells go on, docker
answers and a playbook ends some day; signals and full disks are never fair. `DeployTrigger` and
`RunTarget` have safety properties only. An SSH channel that hangs for ever without an error
is outside these assumptions (`conn.run` in the kill has no timeout; see the hazards).

## 4. Proofs

Assumptions are those of the modules: `Steps` is a positive natural number, the names of writers
are distinct, `Faults` and `Expiring` are from the listed kinds; the set of calls is finite,
`MaxRunning` is a natural number and `MaxConcurrency` a positive one. Sets of users and pollers
are arbitrary. In `LogTail` the bounds are natural numbers, `MaxFailures` a positive one, and
`Sources` and `Characters` are from the listed kinds; the set of pages is arbitrary. In
`DeployTrigger` the statuses of `Lifecycle` are distinct, "created" first; in `RunAnsible` the
passwords differ from the markers for none; in `RunTarget` the inputs are of the declared shape.

`CommandRunProofs`

- `TypeCorrect`. Inductive invariant `Typed`: `TypeOK`, and a task reading a handshake has
  spawned a step. Without the second part the line read could be that of step 0.
- `NonKillableSpared` (`SystemSparesNonKillable`). A kill past the guard could still signal
  after the state it was allowed by has changed, so `SpareInv` says where every kill stands:
  `PastGuardAllowed` (a kill past its guard was allowed: killable or forced), `OnlyUsersForce`,
  and `NoKillStatus` (neither the record nor a copy a writer holds says killing or killed:
  without the copies a stale one could bring the status back).
- `OverturnNeedsRace` (`OnlyRacingWritersOverturn`). `RaceInv` says what a writer may hold
  between its read and its save: `BeforeSave` (the first save finds no record), and `ReadsAllow`
  (a writer under a condition has read a record that satisfies it). The action property
  follows from it step by step.
- `VerdictBacked` (`VerdictMatchesExit`). `VerdictInv`: `ExitsOnce` (an exit status is never
  revised), `ResultFollows` and `MarkerFollows` (the task's outcome and the marker agree with the
  exit, or with the exception they have), `RecordsBacked` (the record and all held copies
  are backed).

- `KillsAreComplete` (`KillIsComplete`). `CompleteInv`: the handshakes are read in order, PGIDs
  are known all or not at all, wherever they are kept (`PgidsWhole`: entry, record, and the copies
  writers hold), and a group a kill is through with is gone and stays so (`KillThorough`).
- `TaskKeepsToThePool` (`TaskIsPoolCall`). Each action of the task is shown to be a step of the
  mapped call or a stutter; `FailureInv` supplies what an exception handler may still hold.
- `RunsWindDown` (`CallsWindDown`) and `OwnStepsCount`. `TaskRank` and `KillRank` number the awaits down
  to the end of the task and of a kill. Each of their moves lowers its rank, nobody else's step raises
  it, and none of their own steps leaves it as it is: at most `12 + 2 * Steps` steps of a task and
  `11 + 3 * Steps` of a kill, error paths included. This is the safety half of termination; that they do
  take their steps is the fairness `run_live` assumes.
- `SerialUpdatesSuffice` and `FinalWithoutOverlap` mark the boundary of the finding `TerminalIsFinal`
  (section 5). Their hypotheses are about behaviours, and normal ones satisfy them: `NoOverlap`, no two
  writers between the GET and the SET of an update at the same time, as if updates were atomic;
  `NoHealUnderKill`, no poll about to heal while a kill that has claimed the run is under way. Under the
  first, only the unconditional last write of a kill can change a terminal status; under both, nothing
  can. The invariants are `HoldersSave` (exactly those about to save hold a record), `HeldCurrent`
  (with one holder, what it holds is the record, as long as that exists) and `ClaimKept` (from the claim
  to its last write a kill finds the record killing, killed or gone).

`RemoteHostProofs`

- `HostTellsTruth` and `HostRevisesNothing`: what an exit status, a missing group and a marker allow the
  service to conclude (`Told`), and that it stays true. Every module that implements `RemoteHost` has
  both.

`CommandRunHostProofs`

- `EnvironmentIsHost`: for each step of the pipeline the actions `RunEnds`, `TermEnds` and
  `StragglersEnd` are the contract's `OnItsOwn`, in both directions.
- `ServiceKeepsContract` (`StepsAreGroups`), `RunImplementsHost`. `HostInv` says that every PGID in the
  entry, the record, a writer's copy or a kill's list is that of a step that was started
  (`GroupsKnown`), and that a kill about to send SIGKILL has sent SIGTERM (`TermedFirst`); without the
  first a kill could signal a group that is not the run's.
- `RunTellsTruth` and `SuccessesAreOver` apply the contract's theorems, the second together with
  `VerdictBacked`.

`CommandPoolProofs`

- `PoolTypeCorrect` and `SlotsAlwaysConserved`. `SlotInv`: `TypeOK`, `SlotsConserved`, and
  `QueueWaits`: the queue holds exactly the waiting calls, each once, without which handing the
  slot to the head of the queue could count a holder twice.
- `CallsReleaseEverything` (`ReleasedAtEnd`). `HeldInv` says which places hold a connection and
  which hold an entry.
- `CeilingKept` (`CeilingWithoutOverlap`). `CeilingInv`: as long as nothing overlapped there is at
  most one undispatched call, and while there is one the pool has room for it.
- `SemaphoreServesInOrder` (`ServesInOrder`). From `SlotInv`: an acquisition is `Enter`, a release
  `Leave`, everything else a stutter of `WorkerPool`.

`LogTailProofs`

- `LogTypeCorrect` and `CachedTraceFinal`. `TailInv`: `StatusTold` (a terminal status a request has
  read is still the status, and "done" is told of a complete log only), `RequestsOpen` (what a
  request under way may count on: a cursor that is not negative, a size the log still has) and
  `CacheOfTrace`. Without `StatusTold` the trace cached under a status read earlier could be cut
  short.
- `NothingEverSkipped`, `FinishedPagesComplete`, `TracesExact`. `PageInv` relates what a page shows
  to its cursor and to the log. The lemma that carries it is `CursorBehindLines`: the next cursor
  is at most the end of the last line rendered, whatever the log did between `stat` and `tail`,
  and is exactly that end when size and text were read together. `LastNewlineIsLast` and
  `CharsCount` are the facts about the two scans of a text it needs.

`DeployTriggerProofs`

- `SerialCallsMakeNoTwins` says when the check does what it is for: with one call in its check at a time,
  a page that holds all pipelines, a GitLab that refuses requests but loses nothing and moves pipelines
  only on (`Faults` of `list` and `create`), and no retry, there are never two active pipelines with the
  same variables. Each hypothesis is one of the ways in which the code does without a guarantee.
- `DeployTypeCorrect`, `MissedDuplicatesExcused`, `TwinsExcused`. `CheckInv` speaks of a check half
  done: a duplicate that is neither found nor excused is in a status still to be listed. It holds
  because a pipeline moves on in the order of the list; every other move is an excuse. That the
  answer of the check carries over to the pipelines created after it is the second part.

`RunAnsibleProofs`

- `RunInv` is `Sound` for every run: `OuterPlace` and `StagePlace` say what each shell has written or
  armed where it stands, `Concluded` what holds of a run that nobody killed once its subshell is over.
  All properties of one run follow (`ScriptTypeCorrect`, `MarkersMeanOver`, `FailuresLeaveMarker`,
  `ClonesStayMounted`, `ClonesRemoved`). `MarkersMeanOver` covers the exit status as well as the marker,
  and the container. `VaultDriftsExcused` is inductive by itself over `TypeOK`.
- `ScriptImplementsGroup` (`ScriptIsGroup`) and `ScriptTellsTruth`. Under `GroupOf` (the group is there
  until the outer shell is over, and has members left until the subshell is) every step of the script is
  one of `RemoteHost` or a stutter: those of the outer shell up to its last, and those of the subshell
  under it, cannot be seen; what the outer shell's last step leaves follows from `RunInv`.

`RunTargetProofs`

- `TargetInv`: `Settled` (what each place of the launch has fixed), `Recorded` (the record is what was
  connected to), `KillPlace`, and `ReadRight` (what has been read is what the inventory says, as long
  as nothing changed). It gives `TargetTypeCorrect`, `IdentityKept`, `TargetsAllowed`,
  `QuietIsRight` and `RefusalsClaimNothing`.

Every invariant and every action property of a passing run is proved, and so are the four refinements
(`TaskIsPoolCall`, `ServesInOrder`, `ScriptIsGroup`, `StepsAreGroups`).
Only model-checked: the liveness properties (`EveryRunSettles`, `PoolEntryRemoved`,
`MarkerHealsOrphan`, `AdmittedFinish`, `EveryLineShown`, `NormalRunIsMarked`), which are outside the
prover's reach.

## 5. Where code and documentation disagree

Each of these is a run that TLC finds violated; `PROJECT.json` quotes the line.

- `TerminalIsFinal`: KILLED, SUCCESS and FAILED are overwritten. `update_if` reads and saves
  in two operations; the PGID update and the last write of a kill ask for no status. Shortest
  case: a poll heals while the task holds the RUNNING record it is about to save with its PGIDs.
  `OnlyRacingWritersOverturn` says exactly what protection remains, and `FinalWithoutOverlap` what would
  make the claim true: atomic updates, and no heal while a kill is under way.
- `SuccessMeansExitZero`: SIGTERM during a foreground pipeline makes the script's trap report
  the status of the last completed command, 0: the killed run is healed to SUCCESS.
- `NoOrphanAfterShutdown`: `entry.pgids` is set after all handshakes; a shutdown before that
  signals nothing, and the started group survives the server.
- `CursorAtLineStart`: the text of `tail` may be longer than the size of `stat`, from which the
  cursor is computed. The cursor then falls inside a line already rendered, and its rest is rendered
  again as a line of its own; it may even be negative, which the endpoint refuses (the page then
  stops after `MAX_FAILURES` polls).

These show in the models without a run of their own; the property named says what does hold.

- The "Pod Level Hard Ceiling" (`docs/arch/ssh-command.md:637`) is exceeded by calls that overlap
  between the gate and `pool_add`; `CeilingWithoutOverlap`.
- A first save that raises leaves entry and connection for good (`command_executor.py:799`; the place
  `lost`), although "the dispatch handlers own the close on the success path" (`:970`);
  `ReleasedAtEnd` is about all other calls.
- A non-killable run that times out is left RUNNING "so the marker heal can later resolve its true
  outcome" (`command_lifecycle.py:48`), but its record expires 30 s after the timeout.
- A queued command holds its SSH connection, against `docs/arch/ssh-command.md:658`.
- ADR 0002 refuses a kill whose config is gone before KILLING, "so it is not stranded". That holds of
  a config that is gone at the check; one that disappears between the check and the load after the
  claim, or a pool entry that goes in between, strands the run in KILLING
  (`command_lifecycle.py:124`, outside the `try`); `RefusedBeforeClaim`.
- "A run that FAILED must always leave a marker" (`run-ansible.sh:386`; `:374` counts the stages
  "clone, secret, inventory, ansible"): secrets are loaded, and the arguments and the log directory
  checked, before the trap is armed; `FailureLeavesMarker`.
- "re-exit run_stages' real code (PIPESTATUS[0], NOT tee's)" (`run-ansible.sh:686`): with `pipefail`
  and `set -e` a failure of tee ends the shell before that line; `MarkerMeansOver`.
- The vault file is "rewritten every run so it can never drift" (`run-ansible.sh:332`): runs that
  overlap rewrite it under each other; `VaultDriftsByOverlapOnly`.
- "EXECUTION always wins if duplicated" (`app/api/v1/deploy.py:106`, `deploy_service.py:39`): the body
  is merged last, so it overrides EXECUTION, and SERVICE_FROM as well (`BuildVariables`).

The properties of a page are stated under `Plain`, a log without wide characters: what is held
back is counted in characters and subtracted from a size in bytes, so a partial line with a wide
character moves the cursor past bytes that were not rendered. A last line without a newline is never
rendered, also when the run is over; `FinishedShowsAll` and `EveryLineShown` speak of complete
lines.

## 6. Not modelled

- Pure functions on strings: the pipeline builder, the parsing of output formats, the comparison of
  versions, HTML rendering. They have no state and no order of events, and unit tests reach them.
- Pure input and output: authenticators, HTTP of the inventory client (its outcomes are in
  `RunTarget`; its token is a static key, so the retry after a 401 has no protocol), GitLab and Redis
  clients, docker, git.
- Wiring, configuration, logging, authentication through libraries, the dry-run fakes, the fake
  inventory API and the tests.
- Operations that only read: `list_states`, `list_running_commands`, `get_pipeline`, the
  check-running and inventory endpoints.
- In the script: the pruning of logs by age and the texts it prints. In the log viewer: layout, the
  pace of polling and the notice for a run without a log.

## 7. Order of work, and what is left

The modules were written in the order of their weight for the service: `CommandRun`, `CommandPool`,
`LogTail`, then `DeployTrigger`, `WorkerPool`, `RunAnsible`, `RunTarget`, and last `RemoteHost` between
`RunAnsible` and `CommandRun`, each with its theorems once TLC agreed.

What could follow: a record seen by its client as an abstract specification of `CommandRun` up to the
races of section 5, a bound of its own for the steps of a trigger call and of a poll, and expiry of a
queued command's record with a property of its own.

---------------------------- MODULE CommandPool ----------------------------
(***************************************************************************)
(* Admission of execute_command calls on ONE pod: the capacity gate, the   *)
(* SSH connection opened for a call, the process-wide pool of running      *)
(* commands, and the semaphore behind which their tasks queue.             *)
(*                                                                         *)
(* The calls are coroutines of one event loop: what runs between two       *)
(* awaits is one action. What a command does while it holds a slot is the  *)
(* subject of CommandRun; here it ends, well or not.                       *)
(***************************************************************************)
EXTENDS Naturals, FiniteSets, Sequences

CONSTANTS
    Requests,        \* calls that may be under way at the same time
    MaxRunning,      \* COMMAND_MAX_RUNNING
    MaxConcurrency,  \* COMMAND_MAX_CONCURRENCY
    Faults           \* which of FaultKinds the environment may inject

FaultKinds == {"redis", "ssh"}

ASSUME RequestsAssumption == IsFiniteSet(Requests)
ASSUME LimitsAssumption == MaxRunning \in Nat /\ MaxConcurrency \in Nat \ {0}
ASSUME FaultsAssumption == Faults \subseteq FaultKinds

VARIABLES
    pc,        \* [Requests -> ...]: where the call or its task is
    pool,      \* commands in _local_running_commands
    conn,      \* calls whose SSH connection is open
    permits,   \* value of the execution semaphore
    queue,     \* tasks waiting for the semaphore, in order
    overlapped \* history: a call passed the gate behind another that had
               \* not been dispatched yet

vars == <<pc, pool, conn, permits, queue, overlapped>>

Over == {"idle", "rejected", "done"}
Places == Over \cup {"preparing", "precheck", "forget", "saving", "created",
                     "waiting", "holding", "handling", "lost"}

TypeOK ==
    /\ pc \in [Requests -> Places]
    /\ pool \in SUBSET Requests
    /\ conn \in SUBSET Requests
    /\ permits \in 0..MaxConcurrency
    /\ queue \in Seq(Requests)
    /\ overlapped \in BOOLEAN

Init ==
    /\ pc = [r \in Requests |-> "idle"]
    /\ pool = {}
    /\ conn = {}
    /\ permits = MaxConcurrency
    /\ queue = <<>>
    /\ overlapped = FALSE

Goto(r, place) == pc' = [pc EXCEPT ![r] = place]

---------------------------------------------------------------------------
(* execute_command, up to the dispatch.                                    *)

\* Calls past the gate that may still enter the pool.
Undispatched == {r \in Requests : pc[r] \in {"preparing", "precheck"}}

\* Variant: the gate closes one entry too late.
CheckCapacityOffByOne(r) ==
    /\ pc[r] \in Over
    /\ IF Cardinality(pool) > MaxRunning
       THEN Goto(r, "rejected") /\ overlapped' = overlapped
       ELSE Goto(r, "preparing") /\ overlapped' = (overlapped \/ Undispatched # {})
    /\ UNCHANGED <<pool, conn, permits, queue>>

\* A new call; an id whose last call is over stands for the next one too.
CheckCapacity(r) ==
    /\ pc[r] \in Over
    /\ IF Cardinality(pool) >= MaxRunning
       THEN Goto(r, "rejected") /\ overlapped' = overlapped
       ELSE Goto(r, "preparing") /\ overlapped' = (overlapped \/ Undispatched # {})
    /\ UNCHANGED <<pool, conn, permits, queue>>

\* _prepare_execution or the pipeline builder raised: nothing is open yet.
PrepareFails(r) ==
    /\ pc[r] = "preparing"
    /\ Goto(r, "rejected")
    /\ UNCHANGED <<pool, conn, permits, queue, overlapped>>

Connect(r) ==
    /\ pc[r] = "preparing"
    /\ \/ Goto(r, "precheck") /\ conn' = conn \cup {r}
       \/ "ssh" \in Faults /\ Goto(r, "rejected") /\ conn' = conn
    /\ UNCHANGED <<pool, permits, queue, overlapped>>

\* Variant: the rejection leaves the connection open.
PrecheckRejectsOnly(r) ==
    /\ pc[r] = "precheck"
    /\ Goto(r, "rejected")
    /\ UNCHANGED <<pool, conn, permits, queue, overlapped>>

PrecheckRejects(r) ==
    /\ pc[r] = "precheck"
    /\ Goto(r, "rejected")
    /\ conn' = conn \ {r}
    /\ UNCHANGED <<pool, permits, queue, overlapped>>

\* The script is new enough, and the call is dispatched without an await in
\* between: a command that severs the connection is run to its end by the
\* call itself, any other one enters the pool.
Dispatch(r) ==
    /\ pc[r] = "precheck"
    /\ \/ Goto(r, "forget") /\ pool' = pool
       \/ Goto(r, "saving") /\ pool' = pool \cup {r}
    /\ UNCHANGED <<conn, permits, queue, overlapped>>

---------------------------------------------------------------------------
(* _handle_fire_and_forget and _handle_async_execution.                    *)

ForgetEnds(r) ==
    /\ pc[r] = "forget"
    /\ Goto(r, "done")
    /\ conn' = conn \ {r}
    /\ UNCHANGED <<pool, permits, queue, overlapped>>

Save(r) ==
    /\ pc[r] = "saving"
    /\ Goto(r, "created")
    /\ UNCHANGED <<pool, conn, permits, queue, overlapped>>

\* repo.save raised: no task is created, and nothing else releases the
\* connection or drops the pool entry.
SaveFails(r) ==
    /\ pc[r] = "saving" /\ "redis" \in Faults
    /\ Goto(r, "lost")
    /\ UNCHANGED <<pool, conn, permits, queue, overlapped>>

\* asyncio.Semaphore: a free permit is taken at once, otherwise tasks wait
\* in order and a released permit is handed to the first of them.
Acquire(r) ==
    /\ pc[r] = "created"
    /\ IF permits > 0 /\ queue = <<>>
       THEN Goto(r, "holding") /\ permits' = permits - 1 /\ queue' = queue
       ELSE Goto(r, "waiting") /\ permits' = permits /\ queue' = Append(queue, r)
    /\ UNCHANGED <<pool, conn, overlapped>>

\* Variant: the task that came last is woken.
ReleaseWakesLast(r, place) ==
    IF queue = <<>>
    THEN /\ pc' = [pc EXCEPT ![r] = place]
         /\ permits' = permits + 1 /\ queue' = queue
    ELSE /\ pc' = [pc EXCEPT ![r] = place, ![queue[Len(queue)]] = "holding"]
         /\ permits' = permits /\ queue' = SubSeq(queue, 1, Len(queue) - 1)

Release(r, place) ==
    IF queue = <<>>
    THEN /\ pc' = [pc EXCEPT ![r] = place]
         /\ permits' = permits + 1 /\ queue' = queue
    ELSE /\ pc' = [pc EXCEPT ![r] = place, ![Head(queue)] = "holding"]
         /\ permits' = permits /\ queue' = Tail(queue)

\* The pipeline ended: the finally branch runs right after the release.
WorkEnds(r) ==
    /\ pc[r] = "holding"
    /\ Release(r, "done")
    /\ conn' = conn \ {r}
    /\ pool' = pool \ {r}
    /\ UNCHANGED overlapped

\* Variant: the slot is held on to while the failure is handled, and kept.
WorkFailsKeepsSlot(r) ==
    /\ pc[r] = "holding"
    /\ Goto(r, "handling")
    /\ UNCHANGED <<pool, conn, permits, queue, overlapped>>

\* A timeout or an exception: the slot is released, then the timed-out
\* command is killed, or the failure stored, outside the semaphore.
WorkFails(r) ==
    /\ pc[r] = "holding"
    /\ Release(r, "handling")
    /\ UNCHANGED <<pool, conn, overlapped>>

\* Variant: a handler that failed itself skips the finally branch.
HandledMayRaise(r) ==
    /\ pc[r] = "handling"
    /\ Goto(r, "done")
    /\ \/ conn' = conn \ {r} /\ pool' = pool \ {r}
       \/ UNCHANGED <<conn, pool>>
    /\ UNCHANGED <<permits, queue, overlapped>>

\* Variant: the slot is released in the finally branch, too.
HandledReleasesAgain(r) ==
    /\ pc[r] = "handling"
    /\ Release(r, "done")
    /\ conn' = conn \ {r}
    /\ pool' = pool \ {r}
    /\ UNCHANGED overlapped

\* The handler returned or raised; either way the finally branch runs.
Handled(r) ==
    /\ pc[r] = "handling"
    /\ Goto(r, "done")
    /\ conn' = conn \ {r}
    /\ pool' = pool \ {r}
    /\ UNCHANGED <<permits, queue, overlapped>>

\* The connection breaks under a call; closing it again does no harm.
ConnectionDrops(r) ==
    /\ "ssh" \in Faults /\ r \in conn
    /\ conn' = conn \ {r}
    /\ UNCHANGED <<pc, pool, permits, queue, overlapped>>

TaskStep(r) ==
    \/ Save(r) \/ Acquire(r) \/ WorkEnds(r) \/ WorkFails(r) \/ Handled(r)

Next ==
    \E r \in Requests :
        \/ CheckCapacity(r) \/ PrepareFails(r) \/ Connect(r)
        \/ PrecheckRejects(r) \/ Dispatch(r) \/ ForgetEnds(r)
        \/ SaveFails(r) \/ ConnectionDrops(r) \/ TaskStep(r)

Spec == Init /\ [][Next]_vars

(* An admitted command goes on: Redis and SSH answer, and wait_for's timer *)
(* ends the work of every task that holds a slot. Nobody need call.        *)
FairSpec == Spec /\ \A r \in Requests : WF_vars(TaskStep(r))

---------------------------------------------------------------------------
(* Properties that hold.                                                   *)

Holders == {r \in Requests : pc[r] = "holding"}

\* Every slot of the semaphore is either free or held by one task at work:
\* none is lost by a task that timed out or failed, and nobody waits while
\* one is free (the async with of _timeout_wrapper).
SlotsConserved ==
    /\ permits + Cardinality(Holders) = MaxConcurrency
    /\ queue # <<>> => permits = 0

\* To the tasks, the semaphore is a pool of MaxConcurrency workers that
\* serves them in the order they came: a slot freed by an end, a failure or
\* a timeout goes to the task that waits longest, and no task gets in
\* between the release and the wake-up.
Workers == INSTANCE WorkerPool
    WITH Clients <- Requests, N <- MaxConcurrency, working <- Holders, line <- queue
ServesInOrder == Workers!Spec

\* Whichever way a call ends (rejected at the gate, by validation, by SSH or
\* by the version check; run; timed out; failed) its connection is closed
\* and its pool entry gone. A call whose first save raised is not over:
\* it is "lost", with its entry and its connection.
ReleasedAtEnd == \A r \in Requests : pc[r] \in Over => r \notin conn \cup pool

\* A queued command is neither starved nor forgotten: it leaves the pool,
\* however many calls come after it.
AdmittedFinish ==
    \A r \in Requests : r \in pool ~> r \notin pool \/ pc[r] = "lost"

\* The gate reads the pool's size, and the entry is made several awaits
\* later (validation, the SSH connection, the version check). As long as no
\* call passes it behind one that is between the two, the pool never
\* outgrows COMMAND_MAX_RUNNING, whatever is rejected, fails or is lost
\* meanwhile; two calls at once do exceed the "Pod Level Hard Ceiling" of
\* docs/arch/ssh-command.md, section 9.
CeilingWithoutOverlap == ~overlapped => Cardinality(pool) <= MaxRunning

=============================================================================

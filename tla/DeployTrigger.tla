---------------------------- MODULE DeployTrigger ----------------------------
(***************************************************************************)
(* Triggering a GitLab pipeline unless one with the same variables is      *)
(* under way on the ref: DeployService.trigger_pipeline over the GitLab    *)
(* repository, with cancel and retry, for several overlapping calls.       *)
(*                                                                         *)
(* The duplicate check is no snapshot. list_running asks for the active    *)
(* statuses one request after the other, and fetches the variables of each *)
(* new pipeline, while GitLab moves the pipelines on. Two ghosts, excused  *)
(* and twins, keep what a check had no chance to see.                      *)
(***************************************************************************)
EXTENDS Integers, FiniteSets, Sequences, TLC

CONSTANTS
    Requests,      \* callers, each with one call under way at most
    Actions,       \* values of the action query parameter
    Bodies,        \* variables that may be sent along
    Lifecycle,     \* statuses of a pipeline under way, in the order it takes
    MaxPipelines,  \* bound: pipelines created on the ref
    PageSize,      \* per_page of the list request
    Faults         \* which of FaultKinds may happen

(* list, fetch, create: GitLab refuses that request. late: the answer to a *)
(* create is lost, the pipeline appears at once or later. backward: an     *)
(* active pipeline returns to an earlier status. manual: it waits for a    *)
(* manual job. outside: somebody starts one past this service.             *)
FaultKinds == {"list", "fetch", "create", "late", "backward", "manual", "outside"}

ASSUME BoundsAssumption == MaxPipelines \in Nat /\ PageSize \in Nat \ {0}
ASSUME FaultsAssumption == Faults \subseteq FaultKinds
ASSUME LifecycleAssumption ==
    /\ Lifecycle \in Seq(STRING) /\ Len(Lifecycle) > 0
    /\ Lifecycle[1] = "created"
    /\ \A i, j \in 1..Len(Lifecycle) : Lifecycle[i] = Lifecycle[j] => i = j
    /\ \A i \in 1..Len(Lifecycle) : Lifecycle[i] \notin {"absent", "manual", "ended"}

VARIABLES
    status,   \* [Ids -> Statuses]
    pvars,    \* [Ids -> Variables]: what the pipeline was created with
    pc,       \* [Requests -> Places]
    want,     \* [Requests -> Variables]: what the call would create
    next,     \* [Requests -> Nat]: position in ActiveStatuses
    seen,     \* [Requests -> SUBSET Ids]: seen_ids
    dup,      \* [Requests -> SUBSET Ids]: duplicates found so far
    lost,     \* [Requests -> Variables]: a create GitLab has yet to apply
    excused,  \* ghost, [Requests -> SUBSET Ids]: duplicates not to be seen
    twins     \* ghost: pairs of pipelines no check could keep apart

gitlab == <<status, pvars, lost, twins>>
vars == <<status, pvars, pc, want, next, seen, dup, lost, excused, twins>>

Ids == 1..MaxPipelines
Over == {"idle", "conflict", "created", "failed"}
Places == Over \cup {"listing", "trigger"}

\* Variant: the latest status first.
ActiveStatusesReversed(k) == Lifecycle[Len(Lifecycle) + 1 - k]
\* _ACTIVE_STATUSES: list_running asks for them in this order.
ActiveStatuses(k) == Lifecycle[k]

ActiveSet == {Lifecycle[k] : k \in 1..Len(Lifecycle)}
Rank(s) == CHOOSE k \in 1..Len(Lifecycle) : Lifecycle[k] = s
Statuses == ActiveSet \cup {"absent", "manual", "ended"}
Active(p) == status[p] \in ActiveSet

NoVars == [k \in {} |-> ""]
\* SERVICE_FROM comes before the body's variables, and those are merged into
\* a dict that holds EXECUTION: the body overrides both.
BuildVariables(action, account, body) ==
    body @@ [EXECUTION |-> action, SERVICE_FROM |-> account]
Wanted(r) == {BuildVariables(a, r, b) : a \in Actions, b \in Bodies}
Variables == {NoVars} \cup UNION {Wanted(r) : r \in Requests}

Business(v) == [k \in DOMAIN v \ {"SERVICE_FROM"} |-> v[k]]
\* Variant: the caller's identity counts, too.
VariablesMatchCaller(actual, expected) == actual = expected
\* _variables_match, on what list_running returned.
VariablesMatch(actual, expected) == Business(actual) = Business(expected)

\* Same work for GitLab, whoever asked for it.
Match(v, w) == Business(v) = Business(w)

TypeOK ==
    /\ status \in [Ids -> Statuses]
    /\ pvars \in [Ids -> Variables]
    /\ pc \in [Requests -> Places]
    /\ want \in [Requests -> Variables]
    /\ next \in [Requests -> 1..(Len(Lifecycle) + 1)]
    /\ seen \in [Requests -> SUBSET Ids]
    /\ dup \in [Requests -> SUBSET Ids]
    /\ lost \in [Requests -> Variables]
    /\ excused \in [Requests -> SUBSET Ids]
    /\ twins \in SUBSET (SUBSET Ids)
    /\ \A r \in Requests :
           pc[r] \in Over => next[r] = 1 /\ seen[r] = {} /\ excused[r] = {}

Init ==
    /\ status = [p \in Ids |-> "absent"] /\ pvars = [p \in Ids |-> NoVars]
    /\ pc = [r \in Requests |-> "idle"] /\ want = [r \in Requests |-> NoVars]
    /\ next = [r \in Requests |-> 1]
    /\ seen = [r \in Requests |-> {}] /\ dup = [r \in Requests |-> {}]
    /\ lost = [r \in Requests |-> NoVars]
    /\ excused = [r \in Requests |-> {}] /\ twins = {}

---------------------------------------------------------------------------
(* Pipeline p with variables v enters status s. That cannot be held        *)
(* against a check that has listed s already, unless p came there from an  *)
(* earlier status that was to be listed.                                   *)
Unseen(p, v, s) ==
    excused' = [r \in Requests |->
        IF next[r] > Rank(s) /\ Match(v, want[r])
        THEN excused[r] \cup {p} ELSE excused[r]]

\* The other pipelines under way with the same variables.
Twins(p, v) == {q \in Ids \ {p} : Active(q) /\ Match(pvars[q], v)}

\* GitLab hands out ids in order.
NewId(p) == status[p] = "absent" /\ \A q \in 1..(p - 1) : status[q] # "absent"

\* pipelines.create as GitLab applies it; a check overlooked these others.
CreatePipeline(p, v, overlooked) ==
    /\ NewId(p)
    /\ status' = [status EXCEPT ![p] = "created"]
    /\ pvars' = [pvars EXCEPT ![p] = v]
    /\ twins' = twins \cup {{p, q} : q \in Twins(p, v) \cap overlooked}

\* Variant: seen_ids outlives the call.
AnswerKeepsSeen(r, place) ==
    /\ pc' = [pc EXCEPT ![r] = place] /\ want' = [want EXCEPT ![r] = NoVars]
    /\ next' = [next EXCEPT ![r] = 1]
    /\ seen' = seen /\ dup' = [dup EXCEPT ![r] = {}]

\* The call is over; what it collected is dropped.
Answer(r, place) ==
    /\ pc' = [pc EXCEPT ![r] = place] /\ want' = [want EXCEPT ![r] = NoVars]
    /\ next' = [next EXCEPT ![r] = 1]
    /\ seen' = [seen EXCEPT ![r] = {}] /\ dup' = [dup EXCEPT ![r] = {}]

---------------------------------------------------------------------------
(* The calls of this service.                                              *)

Call(r) ==
    /\ pc[r] \in Over
    /\ pc' = [pc EXCEPT ![r] = "listing"]
    /\ \E v \in Wanted(r) : want' = [want EXCEPT ![r] = v]
    /\ UNCHANGED <<gitlab, next, seen, dup, excused>>

\* get_all=False: the first page, newest pipelines first.
Page(s) ==
    LET listed == {p \in Ids : status[p] = s}
    IN  {p \in listed : Cardinality({q \in listed : q > p}) < PageSize}

\* One iteration of the loop over the statuses. A pipeline whose variables
\* cannot be fetched counts as one without any, and is not asked for again.
ListStatus(r) ==
    LET s == ActiveStatuses(next[r])
        fresh == Page(s) \ seen[r]
        cut == {p \in Ids : status[p] = s} \ (Page(s) \cup seen[r])
        same == {p \in Ids : VariablesMatch(pvars[p], want[r])}
    IN  /\ pc[r] = "listing" /\ next[r] <= Len(Lifecycle)
        /\ \E unread \in SUBSET fresh :
               /\ unread # {} => "fetch" \in Faults
               /\ dup' = [dup EXCEPT ![r] =
                      @ \cup ((fresh \ unread) \cap same)
                        \cup {p \in unread : VariablesMatch(NoVars, want[r])}]
               /\ excused' = [excused EXCEPT ![r] =
                      (@ \ (fresh \ unread)) \cup {p \in unread \cup cut : Match(pvars[p], want[r])}]
        /\ seen' = [seen EXCEPT ![r] = @ \cup fresh]
        /\ next' = [next EXCEPT ![r] = @ + 1]
        /\ UNCHANGED <<gitlab, pc, want>>

ListFails(r) ==
    /\ pc[r] = "listing" /\ next[r] <= Len(Lifecycle) /\ "list" \in Faults
    /\ Answer(r, "failed")
    /\ excused' = [excused EXCEPT ![r] = {}]
    /\ UNCHANGED gitlab

\* The duplicate guard.
Decide(r) ==
    /\ pc[r] = "listing" /\ next[r] > Len(Lifecycle)
    /\ IF dup[r] # {}
       THEN Answer(r, "conflict") /\ excused' = [excused EXCEPT ![r] = {}]
       ELSE /\ pc' = [pc EXCEPT ![r] = "trigger"]
            /\ UNCHANGED <<want, next, seen, dup, excused>>
    /\ UNCHANGED gitlab

\* Others may have listed "created" already; the caller's own check is over.
Create(r) ==
    /\ pc[r] = "trigger"
    /\ \E p \in Ids :
           /\ CreatePipeline(p, want[r], excused[r])
           /\ excused' = [q \in Requests |->
                  IF q = r THEN {}
                  ELSE IF next[q] > Rank("created") /\ Match(want[r], want[q])
                  THEN excused[q] \cup {p} ELSE excused[q]]
    /\ \/ Answer(r, "created")
       \/ "late" \in Faults /\ Answer(r, "failed")
    /\ UNCHANGED lost

CreateFails(r) ==
    /\ pc[r] = "trigger" /\ Answer(r, "failed")
    /\ excused' = [excused EXCEPT ![r] = {}]
    /\ \/ "create" \in Faults /\ lost' = lost
       \/ /\ "late" \in Faults /\ lost[r] = NoVars
          /\ lost' = [lost EXCEPT ![r] = want[r]]
    /\ UNCHANGED <<status, pvars, twins>>

\* A pipeline that runs again was not checked against the ones under way.
Reactivate(p, s) ==
    /\ status' = [status EXCEPT ![p] = s]
    /\ twins' = twins \cup {{p, q} : q \in Twins(p, pvars[p])}
    /\ Unseen(p, pvars[p], s)
    /\ UNCHANGED <<pvars, pc, want, next, seen, dup, lost>>

Retry(p) == status[p] = "ended" /\ \E s \in ActiveSet : Reactivate(p, s)

Stops(p, s) ==
    /\ status' = [status EXCEPT ![p] = s]
    /\ twins' = {t \in twins : p \notin t}
    /\ UNCHANGED <<pvars, pc, want, next, seen, dup, lost, excused>>

Cancel(p) == status[p] \in ActiveSet \cup {"manual"} /\ Stops(p, "ended")

---------------------------------------------------------------------------
(* GitLab and everybody else.                                              *)

\* The usual course.
Advance(p) ==
    /\ Active(p)
    /\ \E s \in ActiveSet :
           Rank(s) > Rank(status[p]) /\ status' = [status EXCEPT ![p] = s]
    /\ UNCHANGED <<pvars, pc, want, next, seen, dup, lost, excused, twins>>

Ends(p) == Active(p) /\ Stops(p, "ended")

Blocked(p) == "manual" \in Faults /\ Active(p) /\ Stops(p, "manual")

Played(p) == status[p] = "manual" /\ \E s \in ActiveSet : Reactivate(p, s)

\* Between two stages, or when a resource is taken away again.
GoBack(p) ==
    /\ "backward" \in Faults /\ Active(p)
    /\ \E s \in ActiveSet :
           /\ Rank(s) < Rank(status[p])
           /\ status' = [status EXCEPT ![p] = s]
           /\ Unseen(p, pvars[p], s)
    /\ UNCHANGED <<pvars, pc, want, next, seen, dup, lost, twins>>

AppliedLate(r) ==
    /\ lost[r] # NoVars
    /\ \E p \in Ids : CreatePipeline(p, lost[r], Ids) /\ Unseen(p, lost[r], "created")
    /\ lost' = [lost EXCEPT ![r] = NoVars]
    /\ UNCHANGED <<pc, want, next, seen, dup>>

StartedOutside(p) ==
    /\ "outside" \in Faults
    /\ \E v \in Variables :
           CreatePipeline(p, v, Ids) /\ Unseen(p, v, "created")
    /\ UNCHANGED <<pc, want, next, seen, dup, lost>>

Next ==
    \/ \E r \in Requests :
           \/ Call(r) \/ ListStatus(r) \/ ListFails(r) \/ Decide(r)
           \/ Create(r) \/ CreateFails(r) \/ AppliedLate(r)
    \/ \E p \in Ids :
           \/ Retry(p) \/ Cancel(p) \/ Advance(p) \/ Ends(p) \/ Blocked(p)
           \/ Played(p) \/ GoBack(p) \/ StartedOutside(p)

Spec == Init /\ [][Next]_vars

---------------------------------------------------------------------------
(* Properties.                                                             *)

\* A call that goes on to create has found every active pipeline with its
\* variables, the excused ones apart: those it could not have seen because
\* their variables were not fetched, because the page was full, or because
\* they entered a status it had listed already other than by moving on. A
\* pipeline that moves on while the statuses are listed is never missed
\* (list_running asks for them in the order of a pipeline's life).
DuplicateHasExcuse ==
    \A r \in Requests : pc[r] = "trigger" =>
        \A p \in Ids : Active(p) /\ Match(pvars[p], want[r]) => p \in excused[r]

\* Two pipelines with the same variables are under way at the same time only
\* if the check made for one of them was excused from seeing the other, or
\* one of them was started or resumed without a check.
TwinsHaveExcuse ==
    \A p, q \in Ids :
        p # q /\ Active(p) /\ Active(q) /\ Match(pvars[p], pvars[q])
            => {p, q} \in twins

=============================================================================

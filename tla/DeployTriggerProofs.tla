------------------------- MODULE DeployTriggerProofs -------------------------
(***************************************************************************)
(* Theorems about DeployTrigger for every number of callers, pipelines and *)
(* active statuses and every page size: typing, that a call which goes on  *)
(* to create has an excuse for each duplicate it missed, that twins under  *)
(* way have one, and that calls one at a time make no twins. The second    *)
(* needs an invariant about the half-done check (CheckInv): a duplicate    *)
(* that is neither found nor excused is in a status still to be listed. The*)
(* third follows a pipeline from the check that let it be created, and the *)
(* last shows that, alone, a check has nothing to excuse (NoExcuse).       *)
(***************************************************************************)
EXTENDS DeployTrigger, FiniteSetTheorems, TLAPS

Checking(r) == pc[r] \in {"listing", "trigger"}

\* What call r holds against pipeline p: they are about the same work, and
\* nothing excuses r from knowing it.
Owed(r, p) == Checking(r) /\ Match(pvars[p], want[r]) /\ p \notin excused[r]

CheckInv ==
    /\ \A r \in Requests : \A p \in Ids :
           /\ p \in seen[r] => status[p] # "absent"
           /\ Owed(r, p) /\ p \in seen[r] => p \in dup[r]
           /\ Owed(r, p) /\ p \notin seen[r] /\ Active(p) => Rank(status[p]) >= next[r]
    /\ \A r \in Requests :
           pc[r] = "trigger" => dup[r] = {} /\ next[r] = Len(Lifecycle) + 1

---------------------------------------------------------------------------
(* Statuses.                                                               *)

\* Rank is the position of a status in its life.
LEMMA RankOf ==
    /\ \A k \in 1..Len(Lifecycle) : Rank(Lifecycle[k]) = k
    /\ \A s \in ActiveSet : Rank(s) \in 1..Len(Lifecycle) /\ Lifecycle[Rank(s)] = s
  <1>1. ASSUME NEW k \in 1..Len(Lifecycle) PROVE Rank(Lifecycle[k]) = k
    <2>1. \E j \in 1..Len(Lifecycle) : Lifecycle[j] = Lifecycle[k]
      OBVIOUS
    <2>2. Rank(Lifecycle[k]) \in 1..Len(Lifecycle)
          /\ Lifecycle[Rank(Lifecycle[k])] = Lifecycle[k]
      BY <2>1 DEF Rank
    <2> QED
      BY <2>2, LifecycleAssumption
  <1>2. ASSUME NEW s \in ActiveSet
        PROVE  Rank(s) \in 1..Len(Lifecycle) /\ Lifecycle[Rank(s)] = s
    <2>1. PICK k \in 1..Len(Lifecycle) : s = Lifecycle[k]
      BY DEF ActiveSet
    <2> QED
      BY <2>1, <1>1
  <1> QED
    BY <1>1, <1>2

\* "created" is the first active status, and the inactive ones are not.
LEMMA StatusKinds ==
    /\ Len(Lifecycle) \in Nat \ {0} /\ "created" \in ActiveSet /\ Rank("created") = 1
    /\ "absent" \notin ActiveSet /\ "manual" \notin ActiveSet /\ "ended" \notin ActiveSet
    /\ ActiveSet \subseteq Statuses
  <1>1. Len(Lifecycle) \in Nat \ {0} /\ 1 \in 1..Len(Lifecycle)
    BY LifecycleAssumption
  <1>2. "created" \in ActiveSet /\ Rank("created") = 1
    BY <1>1, RankOf, LifecycleAssumption DEF ActiveSet
  <1>3. "absent" \notin ActiveSet /\ "manual" \notin ActiveSet /\ "ended" \notin ActiveSet
    BY LifecycleAssumption DEF ActiveSet
  <1> QED
    BY <1>1, <1>2, <1>3 DEF Statuses

---------------------------------------------------------------------------
(* Typing.                                                                 *)

LEMMA TypeInit == Init => TypeOK
  BY LifecycleAssumption DEF Init, TypeOK, Variables, Statuses, Places, Over

LEMMA NoVarsTyped == NoVars \in Variables
  BY DEF Variables

\* Answering keeps the variables of the call in their types.
LEMMA AnswerTyped ==
    ASSUME TypeOK, NEW r \in Requests, NEW place \in Over, Answer(r, place)
    PROVE  /\ pc' \in [Requests -> Places] /\ want' \in [Requests -> Variables]
           /\ next' \in [Requests -> 1..(Len(Lifecycle) + 1)]
           /\ seen' \in [Requests -> SUBSET Ids] /\ dup' \in [Requests -> SUBSET Ids]
           /\ \A q \in Requests : q # r =>
                  pc'[q] = pc[q] /\ next'[q] = next[q] /\ seen'[q] = seen[q]
                  /\ want'[q] = want[q] /\ dup'[q] = dup[q]
           /\ pc'[r] = place /\ next'[r] = 1 /\ seen'[r] = {}
  BY NoVarsTyped, StatusKinds DEF Answer, TypeOK, Places

\* A new pipeline keeps GitLab's variables in their types.
LEMMA CreateTyped ==
    ASSUME TypeOK, NEW p \in Ids, NEW v \in Variables, NEW o, CreatePipeline(p, v, o)
    PROVE  /\ status' \in [Ids -> Statuses] /\ pvars' \in [Ids -> Variables]
           /\ twins' \in SUBSET (SUBSET Ids)
  BY StatusKinds DEF CreatePipeline, TypeOK, Twins

\* A check that is over has listed nothing and needs no excuse.
LEMMA UnseenTyped ==
    ASSUME TypeOK, NEW p \in Ids, NEW v, NEW s \in ActiveSet, Unseen(p, v, s)
    PROVE  /\ excused' \in [Requests -> SUBSET Ids]
           /\ \A r \in Requests : pc[r] \in Over => excused'[r] = {}
  <1>1. Rank(s) \in Nat \ {0}
    BY RankOf, StatusKinds
  <1> QED
    BY <1>1 DEF Unseen, TypeOK

LEMMA TypeStep == TypeOK /\ [Next]_vars => TypeOK'
  <1> SUFFICES ASSUME TypeOK, [Next]_vars PROVE TypeOK'
    OBVIOUS
  <1>1. ASSUME NEW r \in Requests, Call(r) PROVE TypeOK'
    <2>1. PICK v \in Wanted(r) : want' = [want EXCEPT ![r] = v]
      BY <1>1 DEF Call
    <2>2. v \in Variables
      BY DEF Variables
    <2> QED
      BY <1>1, <2>1, <2>2 DEF Call, TypeOK, Places, Over, gitlab
  <1>2. ASSUME NEW r \in Requests, ListStatus(r) PROVE TypeOK'
    <2> DEFINE s == ActiveStatuses(next[r])
               fresh == Page(s) \ seen[r]
    <2>1. fresh \subseteq Ids
      BY DEF Page
    <2>2. pc[r] = "listing" /\ next[r] <= Len(Lifecycle)
          /\ seen' = [seen EXCEPT ![r] = @ \cup fresh]
          /\ next' = [next EXCEPT ![r] = @ + 1] /\ UNCHANGED <<gitlab, pc, want>>
      BY <1>2 DEF ListStatus
    <2>3. PICK D \in SUBSET Ids, X \in SUBSET Ids :
              dup' = [dup EXCEPT ![r] = D] /\ excused' = [excused EXCEPT ![r] = X]
      <3>1. PICK unread \in SUBSET fresh :
              /\ dup' = [dup EXCEPT ![r] =
                     @ \cup ((fresh \ unread) \cap {p \in Ids : VariablesMatch(pvars[p], want[r])})
                       \cup {p \in unread : VariablesMatch(NoVars, want[r])}]
              /\ excused' = [excused EXCEPT ![r] =
                     (@ \ (fresh \ unread)) \cup
                     {p \in unread \cup ({p \in Ids : status[p] = s} \ (Page(s) \cup seen[r])) :
                          Match(pvars[p], want[r])}]
        BY <1>2 DEF ListStatus
      <3> QED
        BY <3>1, <2>1 DEF TypeOK
    <2>4. next[r] + 1 \in 1..(Len(Lifecycle) + 1)
      BY <2>2, StatusKinds DEF TypeOK
    <2> QED
      BY <2>1, <2>2, <2>3, <2>4 DEF TypeOK, gitlab, Over
  <1>3. ASSUME NEW r \in Requests, ListFails(r) PROVE TypeOK'
    <2>1. Answer(r, "failed") /\ excused' = [excused EXCEPT ![r] = {}] /\ UNCHANGED gitlab
      BY <1>3 DEF ListFails
    <2> QED
      BY <2>1, AnswerTyped DEF TypeOK, gitlab, Over
  <1>4. ASSUME NEW r \in Requests, Decide(r) PROVE TypeOK'
    <2>1. CASE dup[r] # {}
      <3>1. Answer(r, "conflict") /\ excused' = [excused EXCEPT ![r] = {}]
            /\ UNCHANGED gitlab
        BY <1>4, <2>1 DEF Decide
      <3> QED
        BY <3>1, AnswerTyped DEF TypeOK, gitlab, Over
    <2>2. CASE dup[r] = {}
      BY <1>4, <2>2 DEF Decide, TypeOK, gitlab, Places, Over
    <2> QED
      BY <2>1, <2>2
  <1>5. ASSUME NEW r \in Requests, Create(r) PROVE TypeOK'
    <2>1. PICK p \in Ids :
              /\ CreatePipeline(p, want[r], excused[r])
              /\ excused' = [q \in Requests |->
                     IF q = r THEN {}
                     ELSE IF next[q] > Rank("created") /\ Match(want[r], want[q])
                     THEN excused[q] \cup {p} ELSE excused[q]]
      BY <1>5 DEF Create
    <2>2. PICK place \in Over : Answer(r, place)
      BY <1>5 DEF Create, Over
    <2>3. want[r] \in Variables /\ lost' = lost
      BY <1>5 DEF TypeOK, Create
    <2>4. excused' \in [Requests -> SUBSET Ids]
          /\ \A q \in Requests : pc'[q] \in Over => excused'[q] = {}
      BY <2>1, <2>2, AnswerTyped, StatusKinds DEF TypeOK
    <2> QED
      BY <2>1, <2>2, <2>3, <2>4, AnswerTyped, CreateTyped DEF TypeOK
  <1>6. ASSUME NEW r \in Requests, CreateFails(r) PROVE TypeOK'
    <2>1. Answer(r, "failed") /\ excused' = [excused EXCEPT ![r] = {}]
          /\ UNCHANGED <<status, pvars, twins>>
      BY <1>6 DEF CreateFails
    <2>2. lost' \in [Requests -> Variables]
      BY <1>6 DEF CreateFails, TypeOK
    <2> QED
      BY <2>1, <2>2, AnswerTyped DEF TypeOK, Over
  <1>7. ASSUME NEW r \in Requests, AppliedLate(r) PROVE TypeOK'
    <2>1. PICK p \in Ids : CreatePipeline(p, lost[r], Ids) /\ Unseen(p, lost[r], "created")
      BY <1>7 DEF AppliedLate
    <2>2. lost[r] \in Variables
          /\ lost' = [lost EXCEPT ![r] = NoVars] /\ UNCHANGED <<pc, want, next, seen, dup>>
      BY <1>7 DEF AppliedLate, TypeOK
    <2> QED
      BY <2>1, <2>2, CreateTyped, UnseenTyped, StatusKinds, NoVarsTyped DEF TypeOK
  <1>8. ASSUME NEW p \in Ids, NEW s \in ActiveSet, Reactivate(p, s) PROVE TypeOK'
    <2>1. Unseen(p, pvars[p], s)
      BY <1>8 DEF Reactivate
    <2>2. status' \in [Ids -> Statuses] /\ twins' \in SUBSET (SUBSET Ids)
      BY <1>8, StatusKinds DEF Reactivate, TypeOK, Twins
    <2> QED
      BY <1>8, <2>1, <2>2, UnseenTyped DEF Reactivate, TypeOK
  <1>9. ASSUME NEW p \in Ids, NEW s \in {"manual", "ended"}, Stops(p, s) PROVE TypeOK'
    BY <1>9 DEF Stops, TypeOK, Statuses
  <1>10. ASSUME NEW p \in Ids, Advance(p) PROVE TypeOK'
    BY <1>10, StatusKinds DEF Advance, TypeOK
  <1>11. ASSUME NEW p \in Ids, GoBack(p) PROVE TypeOK'
    <2>1. PICK s \in ActiveSet :
              status' = [status EXCEPT ![p] = s] /\ Unseen(p, pvars[p], s)
      BY <1>11 DEF GoBack
    <2> QED
      BY <1>11, <2>1, UnseenTyped, StatusKinds DEF GoBack, TypeOK
  <1>12. ASSUME NEW p \in Ids, StartedOutside(p) PROVE TypeOK'
    <2>1. PICK v \in Variables : CreatePipeline(p, v, Ids) /\ Unseen(p, v, "created")
      BY <1>12 DEF StartedOutside
    <2> QED
      BY <1>12, <2>1, CreateTyped, UnseenTyped, StatusKinds DEF StartedOutside, TypeOK
  <1>13. CASE UNCHANGED vars
    BY <1>13 DEF vars, TypeOK
  <1> QED
    BY <1>1, <1>2, <1>3, <1>4, <1>5, <1>6, <1>7, <1>8, <1>9, <1>10, <1>11,
       <1>12, <1>13 DEF Next, Retry, Cancel, Ends, Blocked, Played

\* Spec keeps every variable in its type, and a call that is over keeps
\* nothing of its listing.
THEOREM DeployTypeCorrect == Spec => []TypeOK
  BY TypeInit, TypeStep, PTL DEF Spec

---------------------------------------------------------------------------
(* CheckInv.                                                               *)

LEMMA CheckInit == Init => CheckInv
  BY DEF Init, CheckInv, Owed, Checking

\* A pipeline enters an active status past every check: those that listed
\* the status already are excused, the others are still to see it.
LEMMA EnterKeepsCheck ==
    ASSUME TypeOK, CheckInv, NEW p \in Ids, NEW s \in ActiveSet, NEW v,
           status' = [status EXCEPT ![p] = s], Unseen(p, v, s),
           UNCHANGED <<pc, want, next, seen, dup>>,
           pvars' = [pvars EXCEPT ![p] = v],
           status[p] = "absent" \/ v = pvars[p]
    PROVE  CheckInv'
  <1>1. ASSUME NEW r \in Requests, NEW q \in Ids
        PROVE  /\ q \in seen'[r] => status'[q] # "absent"
               /\ Owed(r, q)' /\ q \in seen'[r] => q \in dup'[r]
               /\ Owed(r, q)' /\ q \notin seen'[r] /\ Active(q)'
                      => Rank(status'[q]) >= next'[r]
    <2>1. excused[r] \subseteq excused'[r]
          /\ (next[r] > Rank(s) /\ Match(v, want[r]) => p \in excused'[r])
      BY DEF Unseen, TypeOK
    <2>2. CASE q # p
      BY <2>1, <2>2 DEF CheckInv, Owed, Checking, Active, TypeOK
    <2>3. CASE q = p
      <3>1. status'[p] = s /\ pvars'[p] = v /\ s # "absent"
        BY StatusKinds DEF TypeOK
      <3>2. Rank(s) \in Nat /\ next[r] \in Nat
        BY RankOf DEF TypeOK
      <3>3. Owed(r, p)' => Rank(s) >= next[r]
        <4>1. Owed(r, p)' => Match(v, want[r]) /\ p \notin excused'[r]
          BY <3>1 DEF Owed, Match
        <4> QED
          BY <4>1, <3>2, <2>1
      <3>4. Owed(r, p)' /\ p \in seen'[r] => p \in dup'[r]
        BY <2>1, <3>1 DEF CheckInv, Owed, Checking, Match
      <3> QED
        BY <2>3, <3>1, <3>3, <3>4 DEF CheckInv
    <2> QED
      BY <2>2, <2>3
  <1>2. \A r \in Requests :
           pc'[r] = "trigger" => dup'[r] = {} /\ next'[r] = Len(Lifecycle) + 1
    BY DEF CheckInv
  <1> QED
    BY <1>1, <1>2 DEF CheckInv

\* The end of a call leaves the checks of the others as they were.
LEMMA AnswerKeepsCheck ==
    ASSUME TypeOK, CheckInv, NEW r \in Requests, NEW place \in Over,
           Answer(r, place), excused' = [excused EXCEPT ![r] = {}],
           UNCHANGED <<status, pvars>>
    PROVE  CheckInv'
  BY AnswerTyped DEF CheckInv, Owed, Checking, Active, Over, TypeOK

LEMMA ListKeepsCheck ==
    ASSUME TypeOK, CheckInv, NEW r \in Requests, ListStatus(r)
    PROVE  CheckInv'
  <1> DEFINE s == ActiveStatuses(next[r])
             fresh == Page(s) \ seen[r]
             cut == {p \in Ids : status[p] = s} \ (Page(s) \cup seen[r])
             same == {p \in Ids : VariablesMatch(pvars[p], want[r])}
  <1>1. pc[r] = "listing" /\ next[r] \in 1..Len(Lifecycle)
        /\ seen' = [seen EXCEPT ![r] = @ \cup fresh]
        /\ next' = [next EXCEPT ![r] = @ + 1]
        /\ UNCHANGED <<status, pvars, pc, want>>
    BY DEF ListStatus, gitlab, TypeOK
  <1>2. PICK unread \in SUBSET fresh :
            /\ dup' = [dup EXCEPT ![r] =
                   @ \cup ((fresh \ unread) \cap same)
                     \cup {p \in unread : VariablesMatch(NoVars, want[r])}]
            /\ excused' = [excused EXCEPT ![r] =
                   (@ \ (fresh \ unread))
                     \cup {p \in unread \cup cut : Match(pvars[p], want[r])}]
    BY DEF ListStatus
  <1>3. s = Lifecycle[next[r]] /\ s \in ActiveSet /\ Rank(s) = next[r] /\ s # "absent"
    BY <1>1, RankOf, StatusKinds DEF ActiveStatuses, ActiveSet
  <1>4. /\ fresh \subseteq {p \in Ids : status[p] = s}
        /\ \A p \in Ids : status[p] = s => p \in fresh \cup cut \cup seen[r]
    BY DEF Page
  <1>5. ASSUME NEW q \in Requests, NEW p \in Ids
        PROVE  /\ p \in seen'[q] => status'[p] # "absent"
               /\ Owed(q, p)' /\ p \in seen'[q] => p \in dup'[q]
               /\ Owed(q, p)' /\ p \notin seen'[q] /\ Active(p)'
                      => Rank(status'[p]) >= next'[q]
    <2>1. CASE q # r
      BY <1>1, <1>2, <2>1 DEF CheckInv, Owed, Checking, Active, TypeOK
    <2>2. CASE q = r
      <3> HIDE DEF s, fresh, cut, same
      <3>1. p \in seen'[r] => status'[p] # "absent"
        BY <1>1, <1>3, <1>4 DEF CheckInv, TypeOK
      <3>2. /\ dup'[r] = dup[r] \cup ((fresh \ unread) \cap same)
                  \cup {t \in unread : VariablesMatch(NoVars, want[r])}
            /\ excused'[r] = (excused[r] \ (fresh \ unread))
                  \cup {t \in unread \cup cut : Match(pvars[t], want[r])}
            /\ seen'[r] = seen[r] \cup fresh /\ next'[r] = next[r] + 1
        BY <1>1, <1>2 DEF TypeOK
      <3>3. CASE p \in fresh /\ p \notin unread
        BY <1>1, <2>2, <3>1, <3>2, <3>3 DEF same, VariablesMatch, Match, Owed, Checking
      <3>4. CASE p \in unread
        BY <1>1, <2>2, <3>1, <3>2, <3>4 DEF Match, Owed, Checking
      <3>5. CASE p \notin fresh
        <4>1. Owed(r, p)' => Owed(r, p) /\ p \notin cut
          BY <1>1, <3>2, <3>5 DEF Owed, Checking, Match
        <4>2. Owed(r, p)' /\ p \in seen'[r] => p \in dup'[r]
          BY <4>1, <3>2, <3>5 DEF CheckInv
        <4>3. ASSUME Owed(r, p)', p \notin seen'[r], Active(p)'
              PROVE  Rank(status'[p]) >= next'[r]
          <5>1. Active(p) /\ status'[p] = status[p] /\ status[p] # s
            BY <1>1, <1>4, <3>2, <3>5, <4>1, <4>3 DEF Active
          <5>2. Rank(status[p]) >= next[r]
            BY <4>1, <4>3, <5>1, <3>2 DEF CheckInv
          <5>3. Rank(status[p]) # next[r] /\ Rank(status[p]) \in Nat
            BY <5>1, <1>3, RankOf DEF Active
          <5> QED
            BY <5>1, <5>2, <5>3, <3>2, <1>1
        <4> QED
          BY <2>2, <3>1, <4>2, <4>3
      <3> QED
        BY <2>2, <3>3, <3>4, <3>5
    <2> QED
      BY <2>1, <2>2
  <1>6. \A q \in Requests :
           pc'[q] = "trigger" => dup'[q] = {} /\ next'[q] = Len(Lifecycle) + 1
    BY <1>1, <1>2 DEF CheckInv, TypeOK
  <1> QED
    BY <1>5, <1>6 DEF CheckInv

LEMMA CreateKeepsCheck ==
    ASSUME TypeOK, CheckInv, NEW r \in Requests, Create(r)
    PROVE  CheckInv'
  <1>1. PICK p \in Ids :
            /\ CreatePipeline(p, want[r], excused[r])
            /\ excused' = [q \in Requests |->
                   IF q = r THEN {}
                   ELSE IF next[q] > Rank("created") /\ Match(want[r], want[q])
                   THEN excused[q] \cup {p} ELSE excused[q]]
    BY DEF Create
  <1>2. PICK place \in Over : Answer(r, place)
    BY DEF Create, Over
  <1>3. /\ status[p] = "absent" /\ status'[p] = "created" /\ pvars'[p] = want[r]
        /\ \A q \in Ids \ {p} : status'[q] = status[q] /\ pvars'[q] = pvars[q]
    BY <1>1 DEF CreatePipeline, NewId, TypeOK
  <1>4. ASSUME NEW q \in Requests \ {r}, NEW t \in Ids
        PROVE  /\ t \in seen'[q] => status'[t] # "absent"
               /\ Owed(q, t)' /\ t \in seen'[q] => t \in dup'[q]
               /\ Owed(q, t)' /\ t \notin seen'[q] /\ Active(t)'
                      => Rank(status'[t]) >= next'[q]
    <2>0. pc'[q] = pc[q] /\ next'[q] = next[q] /\ seen'[q] = seen[q]
          /\ want'[q] = want[q] /\ dup'[q] = dup[q]
      BY <1>2, AnswerTyped
    <2>1. CASE t # p
      BY <1>1, <1>3, <2>0, <2>1 DEF CheckInv, Owed, Checking, Active, Match
    <2>2. CASE t = p
      <3>1. t \notin seen[q]
        BY <1>3, <2>2 DEF CheckInv
      <3>2. Owed(q, t)' => next[q] <= Rank("created")
        <4>1. Owed(q, t)' => Match(want[r], want[q]) /\ p \notin excused'[q]
          BY <1>3, <2>0, <2>2 DEF Owed, Match
        <4>2. next[q] \in Nat /\ Rank("created") \in Nat
          BY StatusKinds DEF TypeOK
        <4> QED
          BY <4>1, <4>2, <1>1
      <3>3. next[q] \in Nat /\ Rank("created") \in Nat
        BY StatusKinds DEF TypeOK
      <3> QED
        BY <1>3, <2>0, <2>2, <3>1, <3>2, <3>3
    <2> QED
      BY <2>1, <2>2
  <1>5. pc'[r] = place /\ seen'[r] = {} /\ place \notin {"listing", "trigger"}
    BY <1>2, AnswerTyped DEF Over
  <1>6. \A q \in Requests :
           pc'[q] = "trigger" => dup'[q] = {} /\ next'[q] = Len(Lifecycle) + 1
    BY <1>2, <1>5, AnswerTyped DEF CheckInv
  <1> QED
    BY <1>4, <1>5, <1>6 DEF CheckInv, Owed, Checking

LEMMA CheckStep == TypeOK /\ CheckInv /\ [Next]_vars => CheckInv'
  <1> SUFFICES ASSUME TypeOK, CheckInv, [Next]_vars PROVE CheckInv'
    OBVIOUS
  <1>1. ASSUME NEW r \in Requests, Call(r) PROVE CheckInv'
    <2>1. PICK v \in Wanted(r) : want' = [want EXCEPT ![r] = v]
      BY <1>1 DEF Call
    <2>2. next[r] = 1 /\ seen[r] = {} /\ UNCHANGED <<status, pvars, next, seen, dup, excused>>
          /\ pc' = [pc EXCEPT ![r] = "listing"]
      BY <1>1 DEF Call, TypeOK, gitlab
    <2>3. \A p \in Ids : Active(p) => Rank(status[p]) >= 1
      BY RankOf DEF Active
    <2> QED
      BY <2>1, <2>2, <2>3 DEF CheckInv, Owed, Checking, Active, TypeOK, Match
  <1>2. ASSUME NEW r \in Requests, ListFails(r) PROVE CheckInv'
    BY <1>2, AnswerKeepsCheck DEF ListFails, gitlab, Over
  <1>3. ASSUME NEW r \in Requests, Decide(r) PROVE CheckInv'
    <2>1. CASE dup[r] # {}
      BY <1>3, <2>1, AnswerKeepsCheck DEF Decide, gitlab, Over
    <2>2. CASE dup[r] = {}
      <3>1. next[r] = Len(Lifecycle) + 1
        BY <1>3, StatusKinds DEF Decide, TypeOK
      <3> QED
        BY <1>3, <2>2, <3>1 DEF Decide, gitlab, CheckInv, Owed, Checking, Active,
                                Match, TypeOK
    <2> QED
      BY <2>1, <2>2
  <1>4. ASSUME NEW r \in Requests, CreateFails(r) PROVE CheckInv'
    BY <1>4, AnswerKeepsCheck DEF CreateFails, Over
  <1>5. ASSUME NEW r \in Requests, AppliedLate(r) PROVE CheckInv'
    <2>1. PICK p \in Ids : CreatePipeline(p, lost[r], Ids) /\ Unseen(p, lost[r], "created")
      BY <1>5 DEF AppliedLate
    <2> QED
      BY <1>5, <2>1, EnterKeepsCheck, StatusKinds DEF AppliedLate, CreatePipeline, NewId
  <1>6. ASSUME NEW p \in Ids, NEW s \in ActiveSet, Reactivate(p, s) PROVE CheckInv'
    <2>1. pvars' = [pvars EXCEPT ![p] = pvars[p]]
      BY <1>6 DEF Reactivate, TypeOK
    <2> QED
      BY <1>6, <2>1, EnterKeepsCheck DEF Reactivate
  <1>7. ASSUME NEW p \in Ids, NEW s \in {"manual", "ended"}, Stops(p, s) PROVE CheckInv'
    <2>1. s \notin ActiveSet /\ s # "absent"
      BY StatusKinds
    <2>2. /\ status' = [status EXCEPT ![p] = s]
          /\ UNCHANGED <<pvars, pc, want, next, seen, dup, excused>>
      BY <1>7 DEF Stops
    <2> QED
      BY <2>1, <2>2 DEF CheckInv, Owed, Checking, Active, Match, TypeOK
  <1>8. ASSUME NEW p \in Ids, Advance(p) PROVE CheckInv'
    <2>1. PICK s \in ActiveSet :
              Rank(s) > Rank(status[p]) /\ status' = [status EXCEPT ![p] = s]
      BY <1>8 DEF Advance
    <2>2. Active(p) /\ UNCHANGED <<pvars, pc, want, next, seen, dup, excused>>
      BY <1>8 DEF Advance
    <2>3. Rank(s) \in Nat /\ Rank(status[p]) \in Nat /\ s # "absent"
      BY <2>2, RankOf, StatusKinds DEF Active
    <2>4. \A r \in Requests : next[r] \in Nat
      BY DEF TypeOK
    <2> QED
      BY <2>1, <2>2, <2>3, <2>4 DEF CheckInv, Owed, Checking, Active, Match, TypeOK
  <1>9. ASSUME NEW p \in Ids, GoBack(p) PROVE CheckInv'
    <2>1. PICK s \in ActiveSet :
              status' = [status EXCEPT ![p] = s] /\ Unseen(p, pvars[p], s)
      BY <1>9 DEF GoBack
    <2>2. pvars' = [pvars EXCEPT ![p] = pvars[p]]
      BY <1>9 DEF GoBack, TypeOK
    <2> QED
      BY <1>9, <2>1, <2>2, EnterKeepsCheck DEF GoBack
  <1>10. ASSUME NEW p \in Ids, StartedOutside(p) PROVE CheckInv'
    <2>1. PICK v \in Variables : CreatePipeline(p, v, Ids) /\ Unseen(p, v, "created")
      BY <1>10 DEF StartedOutside
    <2> QED
      BY <1>10, <2>1, EnterKeepsCheck, StatusKinds
         DEF StartedOutside, CreatePipeline, NewId
  <1>11. CASE UNCHANGED vars
    BY <1>11 DEF vars, CheckInv, Owed, Checking, Active, Match
  <1> QED
    BY <1>1, <1>2, <1>3, <1>4, <1>5, <1>6, <1>7, <1>8, <1>9, <1>10, <1>11,
       ListKeepsCheck, CreateKeepsCheck DEF Next, Retry, Cancel, Ends, Blocked, Played

\* When the last status is listed, nothing is left to be seen.
LEMMA CheckTells == TypeOK /\ CheckInv => DuplicateHasExcuse
  <1> SUFFICES ASSUME TypeOK, CheckInv, NEW r \in Requests, pc[r] = "trigger",
                      NEW p \in Ids, Active(p), Match(pvars[p], want[r]),
                      p \notin excused[r]
               PROVE  FALSE
    BY DEF DuplicateHasExcuse
  <1>1. Owed(r, p) /\ dup[r] = {} /\ next[r] = Len(Lifecycle) + 1
    BY DEF Owed, Checking, CheckInv
  <1>2. Rank(status[p]) >= next[r]
    BY <1>1 DEF CheckInv
  <1>3. Rank(status[p]) \in 1..Len(Lifecycle)
    BY RankOf DEF Active
  <1> QED
    BY <1>1, <1>2, <1>3, StatusKinds

\* Whatever GitLab does while the statuses are listed, a call that goes on
\* to create missed only duplicates it is excused from.
THEOREM MissedDuplicatesExcused == Spec => []DuplicateHasExcuse
  <1>1. TypeOK /\ CheckInv /\ [Next]_vars => (TypeOK /\ CheckInv)'
    BY TypeStep, CheckStep
  <1>2. Init => TypeOK /\ CheckInv
    BY TypeInit, CheckInit
  <1> QED
    BY <1>1, <1>2, CheckTells, PTL DEF Spec

---------------------------------------------------------------------------
(* Twins.                                                                  *)

\* A pipeline p becomes active, or already was: its twins are recorded.
LEMMA EnterKeepsTwins ==
    ASSUME TypeOK, TwinsHaveExcuse, NEW p \in Ids,
           \A q \in Ids \ {p} : status'[q] = status[q] /\ pvars'[q] = pvars[q],
           twins \subseteq twins',
           \A q \in Ids \ {p} :
               Active(q) /\ Match(pvars[q], pvars'[p]) => {p, q} \in twins'
    PROVE  TwinsHaveExcuse'
  <1> SUFFICES ASSUME NEW a \in Ids, NEW b \in Ids, a # b, Active(a)', Active(b)',
                      Match(pvars[a], pvars[b])'
               PROVE  {a, b} \in twins'
    BY DEF TwinsHaveExcuse
  <1>1. CASE a # p /\ b # p
    BY <1>1 DEF TwinsHaveExcuse, Active, Match
  <1>2. CASE a = p
    BY <1>2 DEF Active, Match
  <1>3. CASE b = p
    <2>1. {p, a} \in twins'
      BY <1>3 DEF Active, Match
    <2>2. {p, a} = {a, b}
      BY <1>3
    <2> QED
      BY <2>1, <2>2
  <1> QED
    BY <1>1, <1>2, <1>3

LEMMA TwinsStep ==
    TypeOK /\ DuplicateHasExcuse /\ TwinsHaveExcuse /\ [Next]_vars => TwinsHaveExcuse'
  <1> SUFFICES ASSUME TypeOK, DuplicateHasExcuse, TwinsHaveExcuse, [Next]_vars
               PROVE  TwinsHaveExcuse'
    OBVIOUS
  <1>1. ASSUME UNCHANGED <<status, pvars, twins>> PROVE TwinsHaveExcuse'
    BY <1>1 DEF TwinsHaveExcuse, Active, Match
  <1>2. ASSUME NEW p \in Ids, NEW v, CreatePipeline(p, v, Ids) PROVE TwinsHaveExcuse'
    <2>1. \A q \in Ids \ {p} :
              Active(q) /\ Match(pvars[q], pvars'[p]) => {p, q} \in twins'
      BY <1>2 DEF CreatePipeline, Twins, TypeOK
    <2> QED
      BY <1>2, <2>1, EnterKeepsTwins DEF CreatePipeline, TypeOK
  <1>3. ASSUME NEW r \in Requests, Create(r) PROVE TwinsHaveExcuse'
    <2>1. PICK p \in Ids : CreatePipeline(p, want[r], excused[r])
      BY <1>3 DEF Create
    <2>2. \A q \in Ids : Active(q) /\ Match(pvars[q], want[r]) => q \in excused[r]
      BY <1>3 DEF Create, DuplicateHasExcuse
    <2>3. \A q \in Ids \ {p} :
              Active(q) /\ Match(pvars[q], pvars'[p]) => {p, q} \in twins'
      BY <2>1, <2>2 DEF CreatePipeline, Twins, TypeOK
    <2> QED
      BY <2>1, <2>3, EnterKeepsTwins DEF CreatePipeline, TypeOK
  <1>4. ASSUME NEW p \in Ids, NEW s \in ActiveSet, Reactivate(p, s) PROVE TwinsHaveExcuse'
    <2>1. \A q \in Ids \ {p} :
              Active(q) /\ Match(pvars[q], pvars'[p]) => {p, q} \in twins'
      BY <1>4 DEF Reactivate, Twins
    <2> QED
      BY <1>4, <2>1, EnterKeepsTwins DEF Reactivate, TypeOK
  <1>5. ASSUME NEW p \in Ids, NEW s \in {"manual", "ended"}, Stops(p, s)
        PROVE  TwinsHaveExcuse'
    <2>1. /\ ~Active(p)' /\ pvars' = pvars
          /\ \A q \in Ids \ {p} : status'[q] = status[q]
          /\ twins' = {t \in twins : p \notin t}
      BY <1>5, StatusKinds DEF Stops, TypeOK, Active
    <2> QED
      BY <2>1 DEF TwinsHaveExcuse, Active, Match
  <1>6. ASSUME NEW p \in Ids, NEW s \in ActiveSet, Active(p),
               status' = [status EXCEPT ![p] = s], UNCHANGED <<pvars, twins>>
        PROVE  TwinsHaveExcuse'
    BY <1>6 DEF TwinsHaveExcuse, Active, Match, TypeOK
  <1> USE DEF gitlab
  <1>7. ASSUME NEW r \in Requests,
               Call(r) \/ ListStatus(r) \/ ListFails(r) \/ Decide(r) \/ CreateFails(r)
        PROVE  TwinsHaveExcuse'
    BY <1>1, <1>7 DEF Call, ListStatus, ListFails, Decide, CreateFails
  <1>8. ASSUME NEW r \in Requests, AppliedLate(r) PROVE TwinsHaveExcuse'
    BY <1>2, <1>8 DEF AppliedLate
  <1>9. ASSUME NEW p \in Ids, Advance(p) \/ GoBack(p) \/ StartedOutside(p)
        PROVE  TwinsHaveExcuse'
    BY <1>2, <1>6, <1>9 DEF Advance, GoBack, StartedOutside
  <1>10. ASSUME NEW p \in Ids, Retry(p) \/ Cancel(p) \/ Ends(p) \/ Blocked(p) \/ Played(p)
         PROVE  TwinsHaveExcuse'
    BY <1>4, <1>5, <1>10 DEF Retry, Cancel, Ends, Blocked, Played
  <1>11. CASE UNCHANGED vars
    BY <1>1, <1>11 DEF vars
  <1> QED
    BY <1>3, <1>7, <1>8, <1>9, <1>10, <1>11 DEF Next

\* Two pipelines about the same work are under way together only when no
\* check could have kept them apart.
THEOREM TwinsExcused == Spec => []TwinsHaveExcuse
  <1>1. Init => TwinsHaveExcuse
    BY StatusKinds DEF Init, TwinsHaveExcuse, Active
  <1> QED
    BY <1>1, TwinsStep, DeployTypeCorrect, MissedDuplicatesExcused, PTL DEF Spec

---------------------------------------------------------------------------
(* When there are no excuses: one check at a time, a page that holds all   *)
(* pipelines, and a GitLab that refuses requests but loses nothing and     *)
(* moves pipelines on only.                                                *)

OneCheckAtATime == \A r, q \in Requests : Checking(r) /\ Checking(q) => r = q
NoTwins ==
    \A p, q \in Ids : p # q /\ Active(p) /\ Active(q) => ~Match(pvars[p], pvars[q])

\* Nothing was excused, and nothing waits that would come in past a check.
NoExcuse ==
    /\ \A r \in Requests : excused[r] = {} /\ lost[r] = NoVars
    /\ \A p \in Ids : status[p] # "manual"
    /\ twins = {}

\* A page that holds all pipelines cuts none off.
LEMMA PageHoldsAll ==
    ASSUME MaxPipelines <= PageSize, NEW s
    PROVE  Page(s) = {p \in Ids : status[p] = s}
  <1>1. IsFiniteSet(Ids) /\ Cardinality(Ids) = MaxPipelines
    BY BoundsAssumption, FS_Interval DEF Ids
  <1>2. ASSUME NEW p \in Ids
        PROVE  Cardinality({q \in {i \in Ids : status[i] = s} : q > p}) < PageSize
    <2> DEFINE newer == {q \in {i \in Ids : status[i] = s} : q > p}
    <2>1. newer \in SUBSET (Ids \ {p})
      BY DEF Ids
    <2>2. /\ IsFiniteSet(Ids \ {p}) /\ Cardinality(Ids \ {p}) = MaxPipelines - 1
      BY <1>1, FS_RemoveElement
    <2>3. IsFiniteSet(newer) /\ Cardinality(newer) <= MaxPipelines - 1
      BY <2>1, <2>2, FS_Subset
    <2>4. Cardinality(newer) \in Nat
      BY <2>3, FS_CardinalityType
    <2> QED
      BY <2>3, <2>4, BoundsAssumption
  <1> QED
    BY <1>2 DEF Page

LEMMA NoExcuseStep ==
    ASSUME MaxPipelines <= PageSize, Faults \subseteq {"list", "create"},
           TypeOK, NoExcuse, OneCheckAtATime, [Next]_vars,
           \A p \in Ids : ~Retry(p)
    PROVE  NoExcuse'
  <1> USE DEF NoExcuse, TypeOK
  <1>1. ASSUME NEW r \in Requests, ListStatus(r) PROVE NoExcuse'
    <2> DEFINE s == ActiveStatuses(next[r])
    <2>1. {p \in Ids : status[p] = s} \ (Page(s) \cup seen[r]) = {}
      BY PageHoldsAll
    <2>2. \E unread \in SUBSET (Page(s) \ seen[r]) :
              /\ unread # {} => "fetch" \in Faults
              /\ excused' = [excused EXCEPT ![r] =
                     (@ \ ((Page(s) \ seen[r]) \ unread))
                       \cup {p \in unread \cup ({p \in Ids : status[p] = s}
                                                   \ (Page(s) \cup seen[r])) :
                               Match(pvars[p], want[r])}]
      BY <1>1 DEF ListStatus
    <2>3. excused' = [excused EXCEPT ![r] = {}]
      BY <2>1, <2>2
    <2> QED
      BY <1>1, <2>3 DEF ListStatus, gitlab
  <1>2. ASSUME NEW r \in Requests, Create(r) PROVE NoExcuse'
    <2>1. PICK p \in Ids :
              /\ CreatePipeline(p, want[r], excused[r])
              /\ excused' = [q \in Requests |->
                     IF q = r THEN {}
                     ELSE IF next[q] > Rank("created") /\ Match(want[r], want[q])
                     THEN excused[q] \cup {p} ELSE excused[q]]
      BY <1>2 DEF Create
    <2>2. Rank("created") = 1
      BY StatusKinds
    <2>3. ASSUME NEW q \in Requests \ {r} PROVE next[q] = 1
      <3>1. ~Checking(q)
        BY <1>2 DEF OneCheckAtATime, Checking, Create
      <3> QED
        BY <3>1 DEF Checking, Places, Over
    <2>4. \A q \in Requests : excused'[q] = {}
      BY <2>1, <2>2, <2>3
    <2>5. twins' = {} /\ \A q \in Ids : status'[q] # "manual"
      BY <2>1 DEF CreatePipeline
    <2> QED
      BY <1>2, <2>4, <2>5 DEF Create
  <1>3. ASSUME NEW r \in Requests,
               Call(r) \/ ListFails(r) \/ Decide(r) \/ CreateFails(r)
        PROVE  NoExcuse'
    BY <1>3 DEF Call, ListFails, Decide, CreateFails, gitlab
  <1>4. ASSUME NEW r \in Requests PROVE ~AppliedLate(r)
    BY DEF AppliedLate
  <1>5. ASSUME NEW p \in Ids
        PROVE  ~(Blocked(p) \/ Played(p) \/ GoBack(p) \/ StartedOutside(p))
    BY DEF Blocked, Played, GoBack, StartedOutside
  <1>6. ASSUME NEW p \in Ids, Cancel(p) \/ Ends(p) PROVE NoExcuse'
    BY <1>6 DEF Cancel, Ends, Stops
  <1>7. ASSUME NEW p \in Ids, Advance(p) PROVE NoExcuse'
    BY <1>7, StatusKinds DEF Advance
  <1>8. CASE UNCHANGED vars
    BY <1>8 DEF vars
  <1> QED
    BY <1>1, <1>2, <1>3, <1>4, <1>5, <1>6, <1>7, <1>8 DEF Next

\* The duplicate check does what it is for when calls do not overlap, their
\* number being free: then no two pipelines with the same variables are ever
\* under way, unless one that has ended is retried.
THEOREM SerialCallsMakeNoTwins ==
    ASSUME MaxPipelines <= PageSize, Faults \subseteq {"list", "create"}
    PROVE  Spec /\ []OneCheckAtATime /\ [][\A p \in Ids : ~Retry(p)]_vars
               => []NoTwins
  <1>1. Init => NoExcuse
    BY DEF Init, NoExcuse
  <1>2. TypeOK /\ NoExcuse /\ OneCheckAtATime /\ [Next]_vars
            /\ [\A p \in Ids : ~Retry(p)]_vars => NoExcuse'
    <2> SUFFICES ASSUME TypeOK, NoExcuse, OneCheckAtATime, [Next]_vars,
                        [\A p \in Ids : ~Retry(p)]_vars
                 PROVE  NoExcuse'
      OBVIOUS
    <2>1. CASE UNCHANGED vars
      BY <2>1 DEF vars, NoExcuse
    <2>2. CASE \A p \in Ids : ~Retry(p)
      BY <2>2, NoExcuseStep
    <2> QED
      BY <2>1, <2>2
  <1>3. TwinsHaveExcuse /\ NoExcuse => NoTwins
    BY DEF TwinsHaveExcuse, NoExcuse, NoTwins
  <1> QED
    BY <1>1, <1>2, <1>3, DeployTypeCorrect, TwinsExcused, PTL DEF Spec

=============================================================================

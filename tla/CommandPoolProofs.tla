-------------------------- MODULE CommandPoolProofs --------------------------
(***************************************************************************)
(* Theorems about CommandPool for every number of calls and all limits:    *)
(* typing, the conservation of the semaphore's slots, the release of       *)
(* whatever a call held, the ceiling of the pool, and that the semaphore   *)
(* implements WorkerPool. SlotInv is inductive only as a whole: a permit    *)
(* stays in range because the slots are conserved, and they are because    *)
(* the queue names each waiting task once.                                 *)
(***************************************************************************)
EXTENDS CommandPool, FiniteSetTheorems, TLAPS

\* The queue holds tasks that wait, each of them once.
QueueWaits ==
    /\ \A i \in 1..Len(queue) : pc[queue[i]] = "waiting"
    /\ \A i, j \in 1..Len(queue) : queue[i] = queue[j] => i = j

SlotInv == TypeOK /\ QueueWaits /\ SlotsConserved

\* What a call may hold before it is dispatched.
HeldInv ==
    \A r \in Requests :
        /\ pc[r] \in Over \cup {"preparing"} => r \notin conn \cup pool
        /\ pc[r] \in {"precheck", "forget"} => r \notin pool

---------------------------------------------------------------------------
(* The set of slot holders under a change of one call's place.             *)

\* Holders is a finite set, so its cardinality is a natural number.
LEMMA HoldersFinite ==
    IsFiniteSet(Holders) /\ Cardinality(Holders) \in Nat
  <1>1. Holders \in SUBSET Requests
    BY DEF Holders
  <1>2. IsFiniteSet(Holders)
    BY <1>1, RequestsAssumption, FS_Subset
  <1> QED
    BY <1>2, FS_CardinalityType

\* A call that does not hold a slot before or after its step leaves the
\* holders as they were.
LEMMA HoldersKept ==
    ASSUME TypeOK, NEW r \in Requests, NEW place \in Places, Goto(r, place),
           pc[r] # "holding", place # "holding"
    PROVE  Holders' = Holders
  BY DEF TypeOK, Goto, Holders

\* A call that takes a slot adds itself to the holders.
LEMMA HoldersGrow ==
    ASSUME TypeOK, NEW r \in Requests, Goto(r, "holding"), pc[r] # "holding"
    PROVE  Cardinality(Holders') = Cardinality(Holders) + 1
  <1>1. Holders' = Holders \cup {r} /\ r \notin Holders
    BY DEF TypeOK, Goto, Holders
  <1> QED
    BY <1>1, HoldersFinite, FS_AddElement

\* A released slot goes back to the semaphore or to the head of the queue.
LEMMA ReleaseConserves ==
    ASSUME SlotInv, NEW r \in Requests, pc[r] = "holding",
           NEW place \in {"done", "handling"}, Release(r, place)
    PROVE  /\ pc' \in [Requests -> Places] /\ permits' \in 0..MaxConcurrency
           /\ queue' \in Seq(Requests)
           /\ QueueWaits' /\ SlotsConserved'
  <1> USE DEF SlotInv, TypeOK, QueueWaits, SlotsConserved, Release
  <1>0. r \in Holders /\ IsFiniteSet(Holders) /\ Cardinality(Holders) \in Nat
    BY HoldersFinite DEF Holders
  <1>1. Cardinality(Holders \ {r}) = Cardinality(Holders) - 1
        /\ IsFiniteSet(Holders \ {r})
    BY <1>0, FS_RemoveElement
  <1>2. Cardinality(Holders \ {r}) \in Nat
    BY <1>1, FS_CardinalityType
  <1>3. CASE queue = <<>>
    <2>1. Holders' = Holders \ {r}
      BY <1>3 DEF Holders
    <2>2. permits' = permits + 1 /\ queue' = <<>>
      BY <1>3
    <2>3. permits' + Cardinality(Holders') = MaxConcurrency
      BY <2>1, <2>2, <1>0, <1>1, LimitsAssumption
    <2>4. permits' \in 0..MaxConcurrency
      BY <2>1, <2>2, <2>3, <1>2, LimitsAssumption
    <2>5. pc' \in [Requests -> Places]
      BY <1>3 DEF Places, Over
    <2> QED
      BY <2>2, <2>3, <2>4, <2>5
  <1>4. CASE queue # <<>>
    <2> DEFINE h == Head(queue)
    <2>1. Len(queue) \in Nat \ {0} /\ h = queue[1] /\ h \in Requests
      BY <1>4
    <2>2. pc[h] = "waiting" /\ h # r
      BY <2>1
    <2>3. pc' = [pc EXCEPT ![r] = place, ![h] = "holding"]
          /\ queue' = Tail(queue) /\ permits' = permits
      BY <1>4
    <2>4. pc' \in [Requests -> Places]
      BY <2>1, <2>3 DEF Places, Over
    <2>5. Holders' = (Holders \ {r}) \cup {h} /\ h \notin Holders \ {r}
      BY <2>1, <2>2, <2>3 DEF Holders
    <2>6. Cardinality(Holders') = Cardinality(Holders)
      <3> HIDE DEF h
      <3>1. Cardinality((Holders \ {r}) \cup {h}) = Cardinality(Holders \ {r}) + 1
        BY <2>5, <1>1, FS_AddElement
      <3> QED
        BY <3>1, <2>5, <1>0, <1>1
    <2>7. /\ queue' \in Seq(Requests) /\ Len(queue') = Len(queue) - 1
          /\ \A i \in 1..Len(queue') : queue'[i] = queue[i + 1]
      BY <2>1, <2>3
    <2>8. QueueWaits'
      <3>1. ASSUME NEW i \in 1..Len(queue')
            PROVE  pc'[queue'[i]] = "waiting"
        <4>1. i + 1 \in 1..Len(queue) /\ i + 1 # 1
          BY <2>1, <2>7
        <4>2. queue'[i] = queue[i + 1] /\ pc[queue[i + 1]] = "waiting"
              /\ queue[i + 1] # queue[1] /\ queue[i + 1] \in Requests
          BY <4>1, <2>1, <2>7
        <4> QED
          BY <4>2, <2>1, <2>3
      <3>2. ASSUME NEW i \in 1..Len(queue'), NEW j \in 1..Len(queue'),
                   queue'[i] = queue'[j]
            PROVE  i = j
        <4>1. i + 1 \in 1..Len(queue) /\ j + 1 \in 1..Len(queue)
          BY <2>1, <2>7
        <4>2. queue[i + 1] = queue[j + 1]
          BY <3>2, <2>7
        <4>3. i + 1 = j + 1
          BY <4>1, <4>2
        <4> QED
          BY <4>3
      <3> QED
        BY <3>1, <3>2
    <2> QED
      BY <1>4, <2>3, <2>4, <2>6, <2>7, <2>8
  <1> QED
    BY <1>3, <1>4

---------------------------------------------------------------------------
(* SlotInv: typing, the queue and the slots.                               *)

LEMMA SlotInit == Init => SlotInv
  <1> SUFFICES ASSUME Init PROVE SlotInv
    OBVIOUS
  <1>1. TypeOK
    <2>1. pc \in [Requests -> Places]
      BY DEF Init, Places, Over
    <2>2. permits \in 0..MaxConcurrency /\ queue \in Seq(Requests)
      BY LimitsAssumption DEF Init
    <2> QED
      BY <2>1, <2>2 DEF Init, TypeOK
  <1>2. QueueWaits
    BY DEF Init, QueueWaits
  <1>3. Holders = {}
    BY DEF Init, Holders
  <1>4. SlotsConserved
    BY <1>3, FS_EmptySet, LimitsAssumption DEF Init, SlotsConserved
  <1> QED
    BY <1>1, <1>2, <1>4 DEF SlotInv

\* A step of a call that neither holds nor waits for a slot, and that leaves
\* the semaphore alone, preserves SlotInv.
LEMMA OutsideSlots ==
    ASSUME SlotInv, NEW r \in Requests,
           pc[r] \notin {"waiting", "holding"},
           NEW place \in Places \ {"holding"}, Goto(r, place),
           UNCHANGED <<permits, queue>>,
           pool' \in SUBSET Requests, conn' \in SUBSET Requests,
           overlapped' \in BOOLEAN
    PROVE  SlotInv'
  <1>1. Holders' = Holders
    BY HoldersKept DEF SlotInv
  <1>2. TypeOK'
    BY DEF SlotInv, TypeOK, Goto
  <1>3. QueueWaits'
    BY DEF SlotInv, TypeOK, QueueWaits, Goto
  <1>4. SlotsConserved'
    BY <1>1 DEF SlotInv, SlotsConserved
  <1> QED
    BY <1>2, <1>3, <1>4 DEF SlotInv

LEMMA SlotAcquire ==
    ASSUME SlotInv, NEW r \in Requests, Acquire(r)
    PROVE  SlotInv'
  <1> USE DEF SlotInv, TypeOK
  <1>0. pc[r] = "created" /\ UNCHANGED <<pool, conn, overlapped>>
    BY DEF Acquire
  <1>1. CASE permits > 0 /\ queue = <<>>
    <2>1. Goto(r, "holding") /\ permits' = permits - 1 /\ queue' = queue
      BY <1>1 DEF Acquire
    <2>2. Cardinality(Holders') = Cardinality(Holders) + 1
      BY <1>0, <2>1, HoldersGrow
    <2>3. Cardinality(Holders) \in Nat
      BY HoldersFinite
    <2>4. SlotsConserved'
      BY <1>1, <2>1, <2>2, <2>3, LimitsAssumption DEF SlotsConserved
    <2>5. TypeOK'
      BY <1>0, <1>1, <2>1, LimitsAssumption DEF Goto, Places, Over
    <2>6. QueueWaits'
      BY <1>1, <2>1 DEF QueueWaits
    <2> QED
      BY <2>4, <2>5, <2>6
  <1>2. CASE ~(permits > 0 /\ queue = <<>>)
    <2>1. Goto(r, "waiting") /\ permits' = permits /\ queue' = Append(queue, r)
      BY <1>2 DEF Acquire
    <2>2. Holders' = Holders
      BY <1>0, <2>1, HoldersKept DEF Places, Over
    <2>3. permits = 0
      BY <1>2, LimitsAssumption DEF SlotsConserved
    <2>4. SlotsConserved'
      BY <2>1, <2>2, <2>3 DEF SlotsConserved
    <2>5. TypeOK'
      BY <1>0, <2>1 DEF Goto, Places, Over
    <2>6. /\ Len(queue') = Len(queue) + 1 /\ queue'[Len(queue')] = r
          /\ \A i \in 1..Len(queue) : queue'[i] = queue[i]
          /\ Len(queue) \in Nat
      BY <2>1
    <2>7. \A i \in 1..Len(queue) : queue[i] # r /\ queue[i] \in Requests
      BY <1>0 DEF QueueWaits
    <2>8. QueueWaits'
      <3>1. \A i \in 1..Len(queue') : pc'[queue'[i]] = "waiting"
        BY <2>1, <2>6, <2>7 DEF QueueWaits, Goto
      <3>2. \A i, j \in 1..Len(queue') : queue'[i] = queue'[j] => i = j
        BY <2>6, <2>7 DEF QueueWaits
      <3> QED
        BY <3>1, <3>2 DEF QueueWaits
    <2> QED
      BY <2>4, <2>5, <2>8
  <1> QED
    BY <1>1, <1>2

LEMMA SlotStep == SlotInv /\ [Next]_vars => SlotInv'
  <1> SUFFICES ASSUME SlotInv, [Next]_vars PROVE SlotInv'
    OBVIOUS
  <1>0. TypeOK
    BY DEF SlotInv
  <1>1. ASSUME NEW r \in Requests, CheckCapacity(r) PROVE SlotInv'
    <2>1. CASE Cardinality(pool) >= MaxRunning
      BY <1>0, <1>1, <2>1, OutsideSlots DEF CheckCapacity, TypeOK, Places, Over
    <2>2. CASE ~(Cardinality(pool) >= MaxRunning)
      BY <1>0, <1>1, <2>2, OutsideSlots DEF CheckCapacity, TypeOK, Places, Over
    <2> QED
      BY <2>1, <2>2
  <1>2. ASSUME NEW r \in Requests, PrepareFails(r) PROVE SlotInv'
    BY <1>0, <1>2, OutsideSlots DEF PrepareFails, TypeOK, Places, Over
  <1>3. ASSUME NEW r \in Requests, Connect(r) PROVE SlotInv'
    <2>1. CASE Goto(r, "precheck") /\ conn' = conn \cup {r}
      BY <1>0, <1>3, <2>1, OutsideSlots DEF Connect, TypeOK, Places, Over
    <2>2. CASE Goto(r, "rejected") /\ conn' = conn
      BY <1>0, <1>3, <2>2, OutsideSlots DEF Connect, TypeOK, Places, Over
    <2> QED
      BY <1>3, <2>1, <2>2 DEF Connect
  <1>4. ASSUME NEW r \in Requests, PrecheckRejects(r) PROVE SlotInv'
    BY <1>0, <1>4, OutsideSlots DEF PrecheckRejects, TypeOK, Places, Over
  <1>5. ASSUME NEW r \in Requests, Dispatch(r) PROVE SlotInv'
    <2>1. CASE Goto(r, "forget") /\ pool' = pool
      BY <1>0, <1>5, <2>1, OutsideSlots DEF Dispatch, TypeOK, Places, Over
    <2>2. CASE Goto(r, "saving") /\ pool' = pool \cup {r}
      BY <1>0, <1>5, <2>2, OutsideSlots DEF Dispatch, TypeOK, Places, Over
    <2> QED
      BY <1>5, <2>1, <2>2 DEF Dispatch
  <1>6. ASSUME NEW r \in Requests, ForgetEnds(r) PROVE SlotInv'
    BY <1>0, <1>6, OutsideSlots DEF ForgetEnds, TypeOK, Places, Over
  <1>7. ASSUME NEW r \in Requests, SaveFails(r) PROVE SlotInv'
    BY <1>0, <1>7, OutsideSlots DEF SaveFails, TypeOK, Places, Over
  <1>8. ASSUME NEW r \in Requests, Save(r) PROVE SlotInv'
    BY <1>0, <1>8, OutsideSlots DEF Save, TypeOK, Places, Over
  <1>9. ASSUME NEW r \in Requests, WorkEnds(r) PROVE SlotInv'
    <2>1. pc[r] = "holding" /\ Release(r, "done")
          /\ conn' \in SUBSET Requests /\ pool' \in SUBSET Requests
          /\ overlapped' \in BOOLEAN
      BY <1>0, <1>9 DEF WorkEnds, TypeOK
    <2> QED
      BY <2>1, ReleaseConserves DEF SlotInv, TypeOK
  <1>10. ASSUME NEW r \in Requests, WorkFails(r) PROVE SlotInv'
    <2>1. pc[r] = "holding" /\ Release(r, "handling")
          /\ conn' \in SUBSET Requests /\ pool' \in SUBSET Requests
          /\ overlapped' \in BOOLEAN
      BY <1>0, <1>10 DEF WorkFails, TypeOK
    <2> QED
      BY <2>1, ReleaseConserves DEF SlotInv, TypeOK
  <1>11. ASSUME NEW r \in Requests, Handled(r) PROVE SlotInv'
    BY <1>0, <1>11, OutsideSlots DEF Handled, TypeOK, Places, Over
  <1>12. ASSUME NEW r \in Requests, ConnectionDrops(r) PROVE SlotInv'
    <2>1. Holders' = Holders
      BY <1>12 DEF ConnectionDrops, Holders
    <2> QED
      BY <1>12, <2>1 DEF ConnectionDrops, SlotInv, TypeOK, QueueWaits, SlotsConserved
  <1>13. CASE UNCHANGED vars
    <2>1. Holders' = Holders
      BY <1>13 DEF vars, Holders
    <2> QED
      BY <1>13, <2>1 DEF vars, SlotInv, TypeOK, QueueWaits, SlotsConserved
  <1> QED
    BY <1>1, <1>2, <1>3, <1>4, <1>5, <1>6, <1>7, <1>8, <1>9, <1>10, <1>11,
       <1>12, <1>13, SlotAcquire DEF Next, TaskStep

\* Spec keeps every variable in its type; for permits this says that the
\* semaphore is never released more often than it was acquired.
THEOREM PoolTypeCorrect == Spec => []TypeOK
  <1>1. SlotInv => TypeOK
    BY DEF SlotInv
  <1> QED
    BY <1>1, SlotInit, SlotStep, PTL DEF Spec

\* Whatever the limits and the number of calls, no slot of the semaphore is
\* lost or duplicated, and nobody waits while one is free.
THEOREM SlotsAlwaysConserved == Spec => []SlotsConserved
  <1>1. SlotInv => SlotsConserved
    BY DEF SlotInv
  <1> QED
    BY <1>1, SlotInit, SlotStep, PTL DEF Spec

---------------------------------------------------------------------------
(* HeldInv: connections and pool entries.                                  *)

LEMMA HeldStep == TypeOK /\ HeldInv /\ [Next]_vars => HeldInv'
  <1> SUFFICES ASSUME TypeOK, HeldInv, [Next]_vars PROVE HeldInv'
    OBVIOUS
  <1> USE DEF TypeOK, HeldInv, Over, Goto
  <1>1. ASSUME NEW r \in Requests, CheckCapacity(r) PROVE HeldInv'
    BY <1>1 DEF CheckCapacity
  <1>2. ASSUME NEW r \in Requests, PrepareFails(r) PROVE HeldInv'
    BY <1>2 DEF PrepareFails
  <1>3. ASSUME NEW r \in Requests, Connect(r) PROVE HeldInv'
    BY <1>3 DEF Connect
  <1>4. ASSUME NEW r \in Requests, PrecheckRejects(r) PROVE HeldInv'
    BY <1>4 DEF PrecheckRejects
  <1>5. ASSUME NEW r \in Requests, Dispatch(r) PROVE HeldInv'
    BY <1>5 DEF Dispatch
  <1>6. ASSUME NEW r \in Requests, ForgetEnds(r) PROVE HeldInv'
    BY <1>6 DEF ForgetEnds
  <1>7. ASSUME NEW r \in Requests, SaveFails(r) PROVE HeldInv'
    BY <1>7 DEF SaveFails
  <1>8. ASSUME NEW r \in Requests, Save(r) PROVE HeldInv'
    BY <1>8 DEF Save
  <1>9. ASSUME NEW r \in Requests, Acquire(r) PROVE HeldInv'
    BY <1>9 DEF Acquire
  <1>10. ASSUME NEW r \in Requests, WorkEnds(r) PROVE HeldInv'
    BY <1>10 DEF WorkEnds, Release
  <1>11. ASSUME NEW r \in Requests, WorkFails(r) PROVE HeldInv'
    BY <1>11 DEF WorkFails, Release
  <1>12. ASSUME NEW r \in Requests, Handled(r) PROVE HeldInv'
    BY <1>12 DEF Handled
  <1>13. ASSUME NEW r \in Requests, ConnectionDrops(r) PROVE HeldInv'
    BY <1>13 DEF ConnectionDrops
  <1>14. CASE UNCHANGED vars
    BY <1>14 DEF vars
  <1> QED
    BY <1>1, <1>2, <1>3, <1>4, <1>5, <1>6, <1>7, <1>8, <1>9, <1>10, <1>11,
       <1>12, <1>13, <1>14 DEF Next, TaskStep

\* A call that is over holds neither a connection nor a pool entry, however
\* it ended.
THEOREM CallsReleaseEverything == Spec => []ReleasedAtEnd
  <1>1. Init => HeldInv
    BY DEF Init, HeldInv
  <1>2. HeldInv => ReleasedAtEnd
    BY DEF HeldInv, ReleasedAtEnd
  <1> QED
    BY <1>1, <1>2, HeldStep, PoolTypeCorrect, PTL DEF Spec

---------------------------------------------------------------------------
(* CeilingInv: the ceiling of the pool.                                    *)

\* As long as no two calls were between the gate and their entry at once,
\* the one that is there finds room.
CeilingInv ==
    ~overlapped =>
        /\ Cardinality(pool) <= MaxRunning
        /\ Undispatched # {} => Cardinality(pool) < MaxRunning
        /\ \A r, s \in Undispatched : r = s

\* A step that adds nothing to the pool and nobody to the undispatched calls
\* preserves CeilingInv.
LEMMA CeilingShrinks ==
    ASSUME TypeOK, CeilingInv, pool' \in SUBSET pool, overlapped' = overlapped,
           Undispatched' \in SUBSET Undispatched
    PROVE  CeilingInv'
  <1>1. IsFiniteSet(pool)
    BY RequestsAssumption, FS_Subset DEF TypeOK
  <1>2. Cardinality(pool') <= Cardinality(pool) /\ IsFiniteSet(pool')
    BY <1>1, FS_Subset
  <1>3. Cardinality(pool') \in Nat /\ Cardinality(pool) \in Nat
    BY <1>1, <1>2, FS_CardinalityType
  <1> QED
    BY <1>2, <1>3, LimitsAssumption DEF CeilingInv

LEMMA CeilingGate ==
    ASSUME TypeOK, CeilingInv, NEW r \in Requests, CheckCapacity(r)
    PROVE  CeilingInv'
  <1>1. IsFiniteSet(pool) /\ Cardinality(pool) \in Nat
    BY RequestsAssumption, FS_Subset, FS_CardinalityType DEF TypeOK
  <1>2. CASE Cardinality(pool) >= MaxRunning
    <2>1. Undispatched' \in SUBSET Undispatched
      BY <1>2 DEF CheckCapacity, Goto, TypeOK, Undispatched
    <2> QED
      BY <1>2, <2>1, CeilingShrinks DEF CheckCapacity
  <1>3. CASE ~(Cardinality(pool) >= MaxRunning)
    <2>1. pool' = pool /\ Cardinality(pool) < MaxRunning
      BY <1>1, <1>3, LimitsAssumption DEF CheckCapacity
    <2>2. overlapped' = (overlapped \/ Undispatched # {})
      BY <1>3 DEF CheckCapacity
    <2>3. Undispatched' \in SUBSET (Undispatched \cup {r})
      BY <1>3 DEF CheckCapacity, Goto, TypeOK, Undispatched
    <2>4. CASE Undispatched = {}
      BY <1>1, <2>1, <2>3, <2>4, LimitsAssumption DEF CeilingInv
    <2>5. CASE Undispatched # {}
      BY <2>2, <2>5 DEF CeilingInv
    <2> QED
      BY <2>4, <2>5
  <1> QED
    BY <1>2, <1>3

\* The one undispatched call takes the room that was there for it.
LEMMA CeilingDispatch ==
    ASSUME TypeOK, CeilingInv, NEW r \in Requests, Dispatch(r)
    PROVE  CeilingInv'
  <1>1. IsFiniteSet(pool) /\ Cardinality(pool) \in Nat
    BY RequestsAssumption, FS_Subset, FS_CardinalityType DEF TypeOK
  <1>2. r \in Undispatched /\ Undispatched' = Undispatched \ {r}
    BY DEF Dispatch, Goto, TypeOK, Undispatched
  <1>3. CASE pool' = pool
    BY <1>2, <1>3, CeilingShrinks DEF Dispatch
  <1>4. CASE pool' = pool \cup {r}
    <2>1. Cardinality(pool') <= Cardinality(pool) + 1 /\ Cardinality(pool') \in Nat
      <3>1. CASE r \in pool
        <4>1. pool' = pool
          BY <1>4, <3>1
        <4> QED
          BY <1>1, <4>1
      <3>2. CASE r \notin pool
        BY <1>1, <1>4, <3>2, FS_AddElement
      <3> QED
        BY <3>1, <3>2
    <2>2. ~overlapped => Undispatched' = {}
      BY <1>2 DEF CeilingInv
    <2> QED
      BY <1>1, <1>2, <2>1, <2>2, LimitsAssumption DEF CeilingInv, Dispatch
  <1> QED
    BY <1>3, <1>4 DEF Dispatch

LEMMA CeilingStep == SlotInv /\ CeilingInv /\ [Next]_vars => CeilingInv'
  <1> SUFFICES ASSUME SlotInv, CeilingInv, [Next]_vars PROVE CeilingInv'
    OBVIOUS
  <1>0. TypeOK
    BY DEF SlotInv
  <1>1. ASSUME NEW r \in Requests,
               \/ PrepareFails(r) \/ Connect(r) \/ PrecheckRejects(r)
               \/ ForgetEnds(r) \/ Save(r) \/ SaveFails(r) \/ Acquire(r)
               \/ Handled(r) \/ ConnectionDrops(r)
        PROVE  CeilingInv'
    <2>1. pool' \in SUBSET pool /\ overlapped' = overlapped
      BY <1>1 DEF PrepareFails, Connect, PrecheckRejects, ForgetEnds, Save,
                  SaveFails, Acquire, Handled, ConnectionDrops
    <2>2. Undispatched' \in SUBSET Undispatched
      BY <1>0, <1>1 DEF PrepareFails, Connect, PrecheckRejects, ForgetEnds, Save,
                  SaveFails, Acquire, Handled, ConnectionDrops, Goto, TypeOK,
                  Undispatched
    <2> QED
      BY <1>0, <2>1, <2>2, CeilingShrinks
  <1>2. ASSUME NEW r \in Requests, WorkEnds(r) \/ WorkFails(r) PROVE CeilingInv'
    <2>1. pool' \in SUBSET pool /\ overlapped' = overlapped
      BY <1>2 DEF WorkEnds, WorkFails
    <2>2. \A s \in Requests :
              pc'[s] \in {"preparing", "precheck"} => pc[s] \in {"preparing", "precheck"}
      BY <1>0, <1>2 DEF WorkEnds, WorkFails, Release, TypeOK
    <2> QED
      BY <1>0, <2>1, <2>2, CeilingShrinks DEF Undispatched
  <1>3. CASE UNCHANGED vars
    BY <1>3 DEF vars, CeilingInv, Undispatched
  <1> QED
    BY <1>0, <1>1, <1>2, <1>3, CeilingGate, CeilingDispatch DEF Next, TaskStep

\* Whatever the limits and the number of calls, the pool never outgrows
\* COMMAND_MAX_RUNNING as long as no two calls overlap between the capacity
\* check and their pool entry.
THEOREM CeilingKept == Spec => []CeilingWithoutOverlap
  <1>1. Init => CeilingInv
    BY FS_EmptySet, LimitsAssumption DEF Init, CeilingInv, Undispatched
  <1>2. CeilingInv => CeilingWithoutOverlap
    BY DEF CeilingInv, CeilingWithoutOverlap
  <1> QED
    BY <1>1, <1>2, SlotInit, SlotStep, CeilingStep, PTL DEF Spec

---------------------------------------------------------------------------
(* The semaphore implements WorkerPool.                                    *)

\* A step of a call that is no slot holder before or after it, and leaves
\* the queue alone, is not seen by the workers.
LEMMA OutsideWorkers ==
    ASSUME TypeOK, NEW r \in Requests, NEW place \in Places \ {"holding"},
           Goto(r, place), pc[r] # "holding", queue' = queue
    PROVE  UNCHANGED <<Holders, queue>>
  BY HoldersKept

\* An instance of FiniteSets counts like any other.
LEMMA SameCardinality == \A S : Workers!Cardinality(S) = Cardinality(S)
  BY Zenon DEF Workers!Cardinality, Cardinality

\* Taking a permit, or lining up for one, is entering the pool.
LEMMA AcquireEnters ==
    ASSUME SlotInv, NEW r \in Requests, Acquire(r)
    PROVE  Workers!Enter(r)
  <1> USE DEF SlotInv, TypeOK
  <1>1. pc[r] = "created" /\ r \notin Holders /\ r \notin Workers!Waiting
    BY DEF Acquire, Holders, QueueWaits, Workers!Waiting
  <1>2. Cardinality(Holders) \in Nat
    BY HoldersFinite
  <1>3. CASE permits > 0 /\ queue = <<>>
    <2>1. Holders' = Holders \cup {r} /\ queue' = queue
      BY <1>3 DEF Acquire, Goto, Holders
    <2>2. Cardinality(Holders) < MaxConcurrency
      BY <1>2, <1>3, LimitsAssumption DEF SlotsConserved
    <2> QED
      BY <1>1, <1>3, <2>1, <2>2, SameCardinality DEF Workers!Enter
  <1>4. CASE ~(permits > 0 /\ queue = <<>>)
    <2>1. Holders' = Holders /\ queue' = Append(queue, r)
      BY <1>1, <1>4, HoldersKept DEF Acquire, Places, Over
    <2>2. permits = 0
      BY <1>4, LimitsAssumption DEF SlotsConserved
    <2>3. Cardinality(Holders) = MaxConcurrency
      BY <1>2, <2>2, LimitsAssumption DEF SlotsConserved
    <2> QED
      BY <1>1, <2>1, <2>3, SameCardinality DEF Workers!Enter
  <1> QED
    BY <1>3, <1>4

\* Releasing a permit, or handing it to the first in the queue, is leaving.
LEMMA ReleaseLeaves ==
    ASSUME SlotInv, NEW r \in Requests, pc[r] = "holding",
           NEW place \in {"done", "handling"}, Release(r, place)
    PROVE  Workers!Leave(r)
  <1> USE DEF SlotInv, TypeOK
  <1>1. r \in Holders
    BY DEF Holders
  <1>2. CASE queue = <<>>
    <2>1. Holders' = Holders \ {r} /\ queue' = queue
      BY <1>2 DEF Release, Holders
    <2> QED
      BY <1>1, <1>2, <2>1 DEF Workers!Leave
  <1>3. CASE queue # <<>>
    <2> DEFINE h == Head(queue)
    <2>1. h \in Requests /\ pc[h] = "waiting"
      BY <1>3 DEF QueueWaits
    <2>2. Holders' = (Holders \ {r}) \cup {h} /\ queue' = Tail(queue)
      BY <1>3, <2>1 DEF Release, Holders
    <2> QED
      BY <1>1, <1>3, <2>2 DEF Workers!Leave
  <1> QED
    BY <1>2, <1>3

LEMMA WorkersStep ==
    SlotInv /\ [Next]_vars => [Workers!Next]_<<Holders, queue>>
  <1> SUFFICES ASSUME SlotInv, [Next]_vars PROVE [Workers!Next]_<<Holders, queue>>
    OBVIOUS
  <1>0. TypeOK
    BY DEF SlotInv
  <1>1. ASSUME NEW r \in Requests,
               \/ CheckCapacity(r) \/ PrepareFails(r) \/ Connect(r)
               \/ PrecheckRejects(r) \/ Dispatch(r) \/ ForgetEnds(r)
               \/ SaveFails(r) \/ Save(r) \/ Handled(r)
        PROVE  UNCHANGED <<Holders, queue>>
    <2>1. pc[r] # "holding" /\ queue' = queue
      BY <1>1 DEF CheckCapacity, PrepareFails, Connect, PrecheckRejects, Dispatch,
                  ForgetEnds, SaveFails, Save, Handled, Over
    <2>2. \E place \in Places \ {"holding"} : Goto(r, place)
      BY <1>1 DEF CheckCapacity, PrepareFails, Connect, PrecheckRejects, Dispatch,
                  ForgetEnds, SaveFails, Save, Handled, Places, Over
    <2> QED
      BY <1>0, <2>1, <2>2, OutsideWorkers
  <1>2. ASSUME NEW r \in Requests, ConnectionDrops(r) PROVE UNCHANGED <<Holders, queue>>
    BY <1>2 DEF ConnectionDrops, Holders
  <1>3. ASSUME NEW r \in Requests, WorkEnds(r) \/ WorkFails(r) PROVE Workers!Next
    BY <1>3, ReleaseLeaves DEF WorkEnds, WorkFails, Workers!Next
  <1>4. ASSUME NEW r \in Requests, Acquire(r) PROVE Workers!Next
    BY <1>4, AcquireEnters DEF Workers!Next
  <1>5. CASE UNCHANGED vars
    BY <1>5 DEF vars, Holders
  <1> QED
    BY <1>1, <1>2, <1>3, <1>4, <1>5 DEF Next, TaskStep

\* Whatever the limits and the number of calls, the semaphore is a pool of
\* MaxConcurrency workers that serves the tasks in the order they came.
THEOREM SemaphoreServesInOrder == Spec => ServesInOrder
  <1>1. Init => Workers!Init
    BY DEF Init, Workers!Init, Holders
  <1>2. SlotInv /\ [Next]_vars => SlotInv'
    BY SlotStep
  <1> QED
    BY <1>1, <1>2, SlotInit, WorkersStep, PTL DEF Spec, ServesInOrder, Workers!Spec

=============================================================================

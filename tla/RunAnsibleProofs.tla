-------------------------- MODULE RunAnsibleProofs --------------------------
(***************************************************************************)
(* Theorems about RunAnsible for any set of runs, modes, vault passwords,  *)
(* kills and full disks. Runs meet in the vault file only, so the invariant*)
(* is one about a single run (Sound), kept by its own steps and out of the *)
(* reach of all others; and one about the file (VaultDriftsByOverlapOnly). *)
(***************************************************************************)
EXTENDS RunAnsible, TLAPS

\* The outer shell: what it has written, by where it is.
OuterPlace(r) ==
    /\ rc[r] # "none" <=> outer[r] = "over"
    /\ outer[r] \in {"vault", "fill"} => secret[r] # NoSecret
    /\ outer[r] \in {"args", "secrets", "vault", "fill", "logdir"} =>
           stage[r] = "none" /\ log[r] = "none"
    /\ outer[r] \in {"pipe", "exit"} => log[r] = "open"
    /\ outer[r] \in {"exit", "sidecar"} => code[r] # "none"
    /\ outer[r] \in {"exit", "sidecar"} /\ code[r] = "err" => stage[r] = "over"
    /\ outer[r] = "over" /\ log[r] = "none" => rc[r] = "err"
    /\ outer[r] = "sidecar" => log[r] # "none"
    /\ outer[r] # "over" => sidecar[r] = "none"
    /\ log[r] = "none" => stage[r] = "none" /\ sidecar[r] = "none"

\* The subshell: its trap, its clone and its container, by where it is.
StagePlace(r) ==
    /\ stage[r] \in {"none", "mktemp"} => ~dir[r] /\ ~armed[r]
    /\ stage[r] = "trap" => dir[r] /\ ~armed[r] /\ ~bare[r]
    /\ stage[r] = "clone" => dir[r] /\ armed[r]
    /\ stage[r] \in {"pull", "disarm"} => (armed[r] <=> dir[r]) /\ (dir[r] \/ bare[r])
    /\ stage[r] = "docker" => /\ dir[r] \/ bare[r]
                              /\ armed[r] <=> mode[r] # "debug"
    /\ stage[r] = "wait" => dir[r] /\ armed[r] /\ mode[r] = "normal"
    /\ stage[r] = "disarm" => mode[r] = "debug"
    /\ bare[r] => mode[r] = "debug"
    /\ stage[r] \in {"clean", "over"} => result[r] # "none"
    /\ stage[r] \in {"none", "mktemp", "trap", "clone", "pull", "disarm", "docker"} =>
           container[r] = "none"
    /\ container[r] = "idle" => stage[r] = "over" /\ (dir[r] \/ bare[r])
    /\ container[r] = "running" => stage[r] = "wait" \/ cut[r] # "none"
    /\ cut[r] # "none" => r \in termed /\ stage[r] \in {"clean", "over"}
    /\ stage[r] = "over" /\ dir[r] =>
           (mode[r] = "debug" /\ ~armed[r]) \/ cut[r] \in {"trap", "clean", "kill"}

\* A run nobody killed, once its pipeline is over: the verdict it has written
\* or is about to write is that of its stages and of tee.
Concluded(r) ==
    r \notin termed =>
        /\ outer[r] \in {"exit", "sidecar"} => stage[r] = "over"
        /\ outer[r] = "over" /\ log[r] # "none" =>
               /\ stage[r] = "over" /\ rc[r] = code[r]
               /\ sidecar[r] \in {"none", code[r]}
               /\ code[r] = "err" /\ tee[r] = "ok" => sidecar[r] = "err"
        /\ outer[r] \in {"exit", "sidecar", "over"} /\ log[r] # "none" =>
               code[r] = IF tee[r] = "ok" THEN result[r] ELSE "err"

Sound(r) == OuterPlace(r) /\ StagePlace(r) /\ Concluded(r)

RunInv == TypeOK /\ \A r \in Runs : Sound(r)

---------------------------------------------------------------------------
(* Typing, given the invariant: a run that writes the vault file has a     *)
(* password.                                                               *)

LEMMA TypeStep == ASSUME RunInv, [Next]_vars PROVE TypeOK'
  <1> USE DEF RunInv, TypeOK, Codes, OuterStates, StageStates
  <1>1. ASSUME NEW r \in Runs, ParseArgs(r) \/ LoadSecrets(r) \/ OpenVault(r) \/ CheckFails(r)
        PROVE  TypeOK'
    BY <1>1 DEF ParseArgs, LoadSecrets, OpenVault, CheckFails, Outer, inputs, stageVars,
       signalVars
  <1>2. ASSUME NEW r \in Runs, FillVault(r) PROVE TypeOK'
    <2>1. secret[r] \in Secrets
      BY <1>2 DEF FillVault, Sound, OuterPlace
    <2> QED
      BY <1>2, <2>1 DEF FillVault, Outer, inputs, stageVars, signalVars
  <1>3. ASSUME NEW r \in Runs, StartPipeline(r) \/ TeeFails(r) PROVE TypeOK'
    BY <1>3 DEF StartPipeline, TeeFails, Outer, inputs, stageVars, signalVars
  <1>4. ASSUME NEW r \in Runs, PipelineEnds(r) PROVE TypeOK'
    BY <1>4 DEF PipelineEnds, Outer, inputs, stageVars, signalVars
  <1>5. ASSUME NEW r \in Runs, Cleanup(r) PROVE TypeOK'
    BY <1>5 DEF Cleanup, Written, Finish, Status, Outer, inputs, stageVars, signalVars
  <1>6. ASSUME NEW r \in Runs, WriteSidecar(r) PROVE TypeOK'
    BY <1>6 DEF WriteSidecar, Written, Finish, Status, Outer, inputs, stageVars, signalVars
  <1>7. ASSUME NEW r \in Runs, StageStep(r) \/ PlaybookEnds(r), ~DockerReturns(r)
        PROVE  TypeOK'
    <2> USE DEF Stage, Exit, around, inputs, outerVars, signalVars
    <2>1. CASE MakeCloneDir(r)
      <3>1. dir' \in [Runs -> BOOLEAN]
        BY <2>1 DEF MakeCloneDir
      <3>2. stage' \in [Runs -> StageStates] /\ result' \in [Runs -> Codes]
        BY <2>1 DEF MakeCloneDir
      <3> QED
        BY <2>1, <3>1, <3>2 DEF MakeCloneDir
    <2>2. CASE ArmCloneCleanup(r)
      BY <2>2 DEF ArmCloneCleanup
    <2>3. CASE Clone(r)
      BY <2>3 DEF Clone
    <2>4. CASE Pull(r)
      BY <2>4 DEF Pull
    <2>5. CASE Disarm(r)
      BY <2>5 DEF Disarm
    <2>6. CASE StartContainer(r)
      BY <2>6 DEF StartContainer
    <2>7. CASE CloneCleanup(r)
      BY <2>7 DEF CloneCleanup
    <2>8. CASE PlaybookEnds(r)
      BY <2>8 DEF PlaybookEnds
    <2> QED
      BY <1>7, <2>1, <2>2, <2>3, <2>4, <2>5, <2>6, <2>7, <2>8 DEF StageStep
  <1>8. ASSUME NEW r \in Runs, DockerReturns(r) PROVE TypeOK'
    BY <1>8 DEF DockerReturns, Stage, Exit, around, inputs, outerVars, signalVars
  <1>9. ASSUME NEW r \in Runs, Term(r) \/ OuterMeetsTerm(r) PROVE TypeOK'
    BY <1>9 DEF Term, OuterMeetsTerm, Outer, inputs, outerVars, stageVars, signalVars
  <1>10. ASSUME NEW r \in Runs, StageMeetsTerm(r) PROVE TypeOK'
    BY <1>10 DEF StageMeetsTerm, Stage, Exit, inputs, outerVars
  <1>11. ASSUME NEW r \in Runs, Kill(r) PROVE TypeOK'
    BY <1>11 DEF Kill, Outer, Stage, inputs
  <1>12. CASE UNCHANGED vars
    BY <1>12 DEF vars, inputs, outerVars, stageVars, signalVars
  <1> QED
    BY <1>1, <1>2, <1>3, <1>4, <1>5, <1>6, <1>7, <1>8, <1>9, <1>10, <1>11, <1>12
       DEF Next, OuterStep, StageStep

---------------------------------------------------------------------------
(* A step of one run leaves every other run alone, but for the vault file. *)

Moves(r) ==
    \/ OuterStep(r) \/ CheckFails(r) \/ TeeFails(r) \/ StageStep(r)
    \/ PlaybookEnds(r)
    \/ Term(r) \/ OuterMeetsTerm(r) \/ StageMeetsTerm(r) \/ Kill(r)

Kept(r) ==
    /\ mode'[r] = mode[r] /\ bare'[r] = bare[r] /\ secret'[r] = secret[r]
    /\ outer'[r] = outer[r] /\ rc'[r] = rc[r] /\ code'[r] = code[r]
    /\ log'[r] = log[r] /\ sidecar'[r] = sidecar[r] /\ tee'[r] = tee[r]
    /\ stage'[r] = stage[r] /\ result'[r] = result[r] /\ armed'[r] = armed[r]
    /\ dir'[r] = dir[r] /\ container'[r] = container[r] /\ cut'[r] = cut[r]
    /\ r \in termed' <=> r \in termed

LEMMA OthersKept ==
    ASSUME TypeOK, NEW p \in Runs, Moves(p), NEW r \in Runs \ {p}
    PROVE  Kept(r)
  <1> USE DEF TypeOK, Kept, Outer, Stage, Exit, around, inputs, outerVars, stageVars,
          signalVars
  <1>1. CASE OuterStep(p)
    BY <1>1 DEF OuterStep, ParseArgs, LoadSecrets, OpenVault, FillVault, StartPipeline,
       PipelineEnds, Cleanup, WriteSidecar, Written, Finish
  <1>2. CASE CheckFails(p) \/ TeeFails(p) \/ PlaybookEnds(p)
    BY <1>2 DEF CheckFails, TeeFails, PlaybookEnds
  <1>3. CASE StageStep(p)
    BY <1>3 DEF StageStep, MakeCloneDir, ArmCloneCleanup, Clone, Pull, Disarm,
       StartContainer, DockerReturns, CloneCleanup
  <1>4. CASE Term(p) \/ OuterMeetsTerm(p) \/ StageMeetsTerm(p) \/ Kill(p)
    BY <1>4 DEF Term, OuterMeetsTerm, StageMeetsTerm, Kill
  <1> QED
    BY <1>1, <1>2, <1>3, <1>4 DEF Moves

LEMMA KeptSound == ASSUME NEW r \in Runs, Kept(r), Sound(r) PROVE Sound(r)'
  BY DEF Kept, Sound, OuterPlace, StagePlace, Concluded

---------------------------------------------------------------------------
(* A run keeps its own invariant: first the steps of its outer shell.      *)

LEMMA OuterSound ==
    ASSUME TypeOK, NEW r \in Runs, Sound(r), OuterStep(r) \/ CheckFails(r) \/ TeeFails(r)
    PROVE  Sound(r)'
  <1> USE DEF TypeOK, Sound, OuterPlace, StagePlace, Concluded, Outer, inputs, outerVars,
          stageVars, signalVars, Codes
  <1>1. CASE CheckFails(r)
    BY <1>1 DEF CheckFails
  <1>2. CASE ParseArgs(r)
    BY <1>2 DEF ParseArgs
  <1>3. CASE LoadSecrets(r)
    BY <1>3 DEF LoadSecrets
  <1>4. CASE OpenVault(r)
    BY <1>4 DEF OpenVault
  <1>5. CASE FillVault(r)
    BY <1>5 DEF FillVault
  <1>6. CASE StartPipeline(r)
    BY <1>6 DEF StartPipeline
  <1>7. CASE TeeFails(r)
    BY <1>7 DEF TeeFails
  <1>8. CASE PipelineEnds(r)
    BY <1>8 DEF PipelineEnds
  <1>9. CASE Cleanup(r)
    BY <1>9 DEF Cleanup, Written, Finish, Status
  <1>10. CASE WriteSidecar(r)
    BY <1>10 DEF WriteSidecar, Written, Finish, Status
  <1> QED
    BY <1>1, <1>2, <1>3, <1>4, <1>5, <1>6, <1>7, <1>8, <1>9, <1>10 DEF OuterStep

\* Then those of its subshell and its container.
LEMMA StageSound ==
    ASSUME TypeOK, NEW r \in Runs, Sound(r), StageStep(r) \/ PlaybookEnds(r)
    PROVE  Sound(r)'
  <1> USE DEF TypeOK, Sound, OuterPlace, StagePlace, Concluded, Stage, Exit, around, inputs,
          outerVars, signalVars, Codes, Modes
  <1>1. CASE MakeCloneDir(r)
    BY <1>1 DEF MakeCloneDir
  <1>2. CASE ArmCloneCleanup(r)
    BY <1>2 DEF ArmCloneCleanup
  <1>3. CASE Clone(r)
    BY <1>3 DEF Clone
  <1>4. CASE Pull(r)
    BY <1>4 DEF Pull
  <1>5. CASE Disarm(r)
    BY <1>5 DEF Disarm
  <1>6. CASE StartContainer(r)
    BY <1>6 DEF StartContainer
  <1>7. CASE DockerReturns(r)
    BY <1>7 DEF DockerReturns
  <1>8. CASE CloneCleanup(r)
    BY <1>8 DEF CloneCleanup
  <1>9. CASE PlaybookEnds(r)
    BY <1>9 DEF PlaybookEnds
  <1> QED
    BY <1>1, <1>2, <1>3, <1>4, <1>5, <1>6, <1>7, <1>8, <1>9 DEF StageStep

\* Last the signals sent to it.
LEMMA SignalSound ==
    ASSUME TypeOK, NEW r \in Runs, Sound(r),
           Term(r) \/ OuterMeetsTerm(r) \/ StageMeetsTerm(r) \/ Kill(r)
    PROVE  Sound(r)'
  <1> USE DEF TypeOK, Sound, OuterPlace, StagePlace, Concluded, Outer, Stage, Exit, inputs,
          outerVars, stageVars, signalVars
  <1>1. CASE Term(r)
    BY <1>1 DEF Term
  <1>2. CASE OuterMeetsTerm(r)
    BY <1>2 DEF OuterMeetsTerm
  <1>3. CASE StageMeetsTerm(r)
    <2>1. CASE stage[r] = "clean"
      BY <1>3, <2>1 DEF StageMeetsTerm
    <2>2. CASE stage[r] # "clean" /\ armed[r]
      <3>1. stage'[r] = "clean" /\ result'[r] = "err" /\ cut'[r] = stage[r]
        BY <1>3, <2>2 DEF StageMeetsTerm
      <3> QED
        BY <1>3, <2>2, <3>1 DEF StageMeetsTerm
    <2>3. CASE stage[r] # "clean" /\ ~armed[r]
      <3>1. stage'[r] = "over" /\ result'[r] = "err" /\ cut'[r] = stage[r]
        BY <1>3, <2>3 DEF StageMeetsTerm
      <3>2. stage[r] \in {"mktemp", "trap", "clone", "pull", "disarm", "docker", "wait"}
        BY <1>3, <2>3 DEF StageMeetsTerm, StageStates
      <3> QED
        BY <1>3, <2>3, <3>1, <3>2 DEF StageMeetsTerm
    <2> QED
      BY <2>1, <2>2, <2>3
  <1>4. CASE Kill(r)
    BY <1>4 DEF Kill
  <1> QED
    BY <1>1, <1>2, <1>3, <1>4

LEMMA RunStep == RunInv /\ [Next]_vars => RunInv'
  <1> SUFFICES ASSUME RunInv, [Next]_vars PROVE RunInv'
    OBVIOUS
  <1>1. TypeOK'
    BY TypeStep
  <1>2. ASSUME NEW p \in Runs, Moves(p), NEW r \in Runs PROVE Sound(r)'
    <2>1. CASE r = p
      BY <1>2, <2>1, OuterSound, StageSound, SignalSound DEF RunInv, Moves
    <2>2. CASE r # p
      BY <1>2, <2>2, OthersKept, KeptSound DEF RunInv
    <2> QED
      BY <2>1, <2>2
  <1>3. ASSUME UNCHANGED vars, NEW r \in Runs PROVE Sound(r)'
    <2>1. Kept(r)
      BY <1>3 DEF Kept, vars, inputs, outerVars, stageVars, signalVars
    <2> QED
      BY <1>3, <2>1, KeptSound DEF RunInv
  <1> QED
    BY <1>1, <1>2, <1>3 DEF Next, Moves, RunInv

LEMMA RunInit == Init => RunInv
  <1> SUFFICES ASSUME Init PROVE RunInv
    OBVIOUS
  <1>1. TypeOK
    BY DEF Init, TypeOK, Codes, OuterStates, StageStates
  <1>2. ASSUME NEW r \in Runs PROVE Sound(r)
    BY DEF Init, Sound, OuterPlace, StagePlace, Concluded
  <1> QED
    BY <1>1, <1>2 DEF RunInv

LEMMA RunsSound == Spec => []RunInv
  BY RunInit, RunStep, PTL DEF Spec

---------------------------------------------------------------------------
(* The vault file, the one thing that runs share.                          *)

\* r relies on the file holding its password.
Relies(r) ==
    /\ secret[r] # NoSecret /\ rc[r] = "none"
    /\ outer[r] \notin {"args", "secrets", "vault", "fill"}

\* r may have overwritten the file.
Meddled(r) == secret[r] # NoSecret /\ outer[r] \notin {"args", "secrets", "vault"}

\* Steps that do not write the file give nobody a claim to it and take nobody's
\* excuse.
LEMMA FileUntouched ==
    ASSUME RunInv, NEW p \in Runs, Moves(p), ~OpenVault(p), ~FillVault(p), NEW r \in Runs
    PROVE  /\ vault' = vault
           /\ Relies(r)' => Relies(r)
           /\ Meddled(r) => Meddled(r)'
  <1>1. vault' = vault
    BY DEF Moves, OuterStep, CheckFails, TeeFails, StageStep, PlaybookEnds, Term,
       OuterMeetsTerm, StageMeetsTerm, Kill, ParseArgs, LoadSecrets, StartPipeline,
       PipelineEnds, Cleanup, WriteSidecar, MakeCloneDir, ArmCloneCleanup, Clone, Pull,
       Disarm, StartContainer, DockerReturns, CloneCleanup, around
  <1>2. CASE r # p
    <2>1. Kept(r)
      BY <1>2, OthersKept DEF RunInv
    <2> QED
      BY <1>1, <2>1 DEF Kept, Relies, Meddled
  <1>3. CASE r = p
    <2> USE <1>3 DEF RunInv, TypeOK, Codes, Sound, OuterPlace, Outer, inputs, Relies, Meddled
    <2>1. CASE CheckFails(p) \/ TeeFails(p) \/ ParseArgs(p) \/ LoadSecrets(p)
                 \/ StartPipeline(p) \/ PipelineEnds(p)
      BY <2>1 DEF CheckFails, TeeFails, ParseArgs, LoadSecrets, StartPipeline, PipelineEnds
    <2>2. CASE Cleanup(p) \/ WriteSidecar(p)
      BY <2>2 DEF Cleanup, WriteSidecar, Finish
    <2>3. CASE StageStep(p) \/ PlaybookEnds(p)
      <3>1. secret' = secret /\ outer' = outer /\ rc' = rc
        BY <2>3 DEF outerVars, StageStep, MakeCloneDir, ArmCloneCleanup, Clone, Pull, Disarm,
           StartContainer, DockerReturns, CloneCleanup, PlaybookEnds, around
      <3> QED
        BY <1>1, <3>1
    <2>4. CASE Term(p) \/ StageMeetsTerm(p)
      BY <2>4 DEF Term, StageMeetsTerm, outerVars
    <2>5. CASE OuterMeetsTerm(p) \/ Kill(p)
      BY <2>5 DEF OuterMeetsTerm, Kill
    <2> QED
      BY <2>1, <2>2, <2>3, <2>4, <2>5 DEF Moves, OuterStep
  <1> QED
    BY <1>1, <1>2, <1>3

LEMMA VaultStep ==
    RunInv /\ VaultDriftsByOverlapOnly /\ [Next]_vars => VaultDriftsByOverlapOnly'
  <1> SUFFICES ASSUME RunInv, VaultDriftsByOverlapOnly, [Next]_vars, NEW r \in Runs,
                      Relies(r)'
               PROVE  (vault = secret[r] \/ \E q \in Runs \ {r} : Meddled(q))'
    BY DEF VaultDriftsByOverlapOnly, Relies, Meddled
  <1>1. Relies(r) => vault = secret[r] \/ \E q \in Runs \ {r} : Meddled(q)
    BY DEF VaultDriftsByOverlapOnly, Relies, Meddled
  <1>2. ASSUME NEW p \in Runs, OpenVault(p) \/ FillVault(p)
        PROVE  (vault = secret[r] \/ \E q \in Runs \ {r} : Meddled(q))'
    <2>1. Meddled(p)'
      BY <1>2 DEF RunInv, TypeOK, Sound, OuterPlace, OpenVault, FillVault, Outer, inputs,
         Meddled
    <2>2. CASE r = p
      BY <1>2, <2>2 DEF RunInv, TypeOK, OpenVault, FillVault, Outer, inputs, Relies
    <2>3. CASE r # p
      BY <2>1, <2>3
    <2> QED
      BY <2>2, <2>3
  <1>3. ASSUME NEW p \in Runs, Moves(p), ~OpenVault(p), ~FillVault(p)
        PROVE  (vault = secret[r] \/ \E q \in Runs \ {r} : Meddled(q))'
    <2>1. vault' = vault /\ Relies(r) /\ \A q \in Runs : Meddled(q) => Meddled(q)'
      BY <1>3, FileUntouched
    <2>2. secret' = secret
      BY <1>3 DEF Moves, OuterStep, CheckFails, TeeFails, StageStep, PlaybookEnds, Term,
         OuterMeetsTerm, StageMeetsTerm, Kill, ParseArgs, LoadSecrets, StartPipeline,
         PipelineEnds, Cleanup, WriteSidecar, MakeCloneDir, ArmCloneCleanup, Clone, Pull,
         Disarm, StartContainer, DockerReturns, CloneCleanup, around, inputs
    <2> QED
      BY <1>1, <2>1, <2>2
  <1>4. CASE UNCHANGED vars
    BY <1>1, <1>4 DEF vars, inputs, outerVars, Relies, Meddled
  <1> QED
    BY <1>2, <1>3, <1>4 DEF Next, Moves, OuterStep

---------------------------------------------------------------------------
(* The run as a process group of RemoteHost. All moves of one run are moves*)
(* of its own group: those of its outer shell up to its last, and those of *)
(* the subshell while the outer shell is there, cannot be seen.            *)

GroupView == [q \in Runs |-> GroupOf(q)]

LEMMA OnlyOwnGroupMoves ==
    ASSUME TypeOK, NEW r \in Runs, Moves(r)
    PROVE  GroupView' = [GroupView EXCEPT ![r] = GroupOf(r)']
  <1>1. \A q \in Runs \ {r} : GroupOf(q)' = GroupOf(q)
    BY OthersKept DEF Kept, GroupOf
  <1> QED
    BY <1>1 DEF GroupView

\* Nothing to be seen, the last of a group to go, and an end with its marker.
LEMMA HiddenMove ==
    ASSUME TypeOK, NEW r \in Runs, Moves(r), GroupOf(r)' = GroupOf(r),
           UNCHANGED <<rc, termed, sidecar>>
    PROVE  UNCHANGED Host!vars
  BY OnlyOwnGroupMoves DEF GroupView, Host!vars

LEMMA StragglersMove ==
    ASSUME TypeOK, NEW r \in Runs, Moves(r),
           GroupOf(r) = "left", GroupOf(r)' = "gone", UNCHANGED <<rc, termed, sidecar>>
    PROVE  Host!Next
  <1>1. Host!StragglersEnd(r)
    BY OnlyOwnGroupMoves DEF GroupView, Host!StragglersEnd
  <1> QED
    BY <1>1 DEF Host!Next, Host!OnItsOwn

LEMMA EndMove ==
    ASSUME TypeOK, NEW r \in Runs, Moves(r), termed' = termed,
           GroupOf(r) = "alive", GroupOf(r)' \in {"left", "gone"},
           NEW verdict \in {"ok", "err"}, rc' = [rc EXCEPT ![r] = verdict],
           NEW told \in {"ok", "err"}, sidecar' \in {sidecar, [sidecar EXCEPT ![r] = told]},
           \/ GroupOf(r)' = "gone" /\ told = verdict
           \/ r \in termed /\ verdict = "err" /\ told = "ok"
    PROVE  Host!Next
  <1>v. GroupView' = [GroupView EXCEPT ![r] = GroupOf(r)'] /\ GroupView[r] = "alive"
    BY OnlyOwnGroupMoves DEF GroupView
  <1>l. Host!LeaderEnds(r, GroupOf(r)', told)
    BY <1>v DEF GroupView, Host!LeaderEnds
  <1>1. CASE GroupOf(r)' = "gone" /\ told = verdict
    <2>1. Host!Ends(r)
      BY <1>l, <1>1 DEF Host!Ends
    <2> QED
      BY <2>1 DEF Host!Next, Host!OnItsOwn
  <1>2. CASE r \in termed /\ verdict = "err" /\ told = "ok"
    <2>1. Host!EndsByTerm(r)
      BY <1>l, <1>2 DEF Host!EndsByTerm
    <2> QED
      BY <2>1 DEF Host!Next, Host!OnItsOwn
  <1> QED
    BY <1>1, <1>2

\* The outer shell: it ends in a check, in its trap, or by the signal.
LEMMA OuterMaps ==
    ASSUME RunInv, NEW r \in Runs, OuterStep(r) \/ CheckFails(r) \/ TeeFails(r)
    PROVE  [Host!Next]_(Host!vars)
  <1> USE DEF RunInv, TypeOK, Codes, Sound, OuterPlace, GroupOf, Outer, signalVars, stageVars
  <1>m. Moves(r)
    BY DEF Moves
  <1>1. CASE CheckFails(r)
    <2>1. rc' = [rc EXCEPT ![r] = "err"] /\ GroupOf(r)' = "gone"
      BY <1>1 DEF CheckFails
    <2> QED
      BY <1>1, <1>m, <2>1, EndMove DEF CheckFails
  <1>2. CASE TeeFails(r) \/ ParseArgs(r) \/ LoadSecrets(r) \/ OpenVault(r) \/ FillVault(r)
               \/ StartPipeline(r) \/ PipelineEnds(r)
    <2>1. GroupOf(r)' = GroupOf(r) /\ UNCHANGED <<rc, termed, sidecar>>
      BY <1>2 DEF TeeFails, ParseArgs, LoadSecrets, OpenVault, FillVault, StartPipeline,
         PipelineEnds
    <2> QED
      BY <1>m, <2>1, HiddenMove
  <1>3. CASE Cleanup(r) /\ outer'[r] # "over"
    <2>1. GroupOf(r)' = GroupOf(r) /\ UNCHANGED <<rc, termed, sidecar>>
      BY <1>3 DEF Cleanup, Finish
    <2> QED
      BY <1>m, <2>1, HiddenMove
  <1>4. CASE (Cleanup(r) \/ WriteSidecar(r)) /\ outer'[r] = "over"
    <2>1. /\ outer[r] \in {"exit", "sidecar"} /\ rc' = [rc EXCEPT ![r] = Status(r)]
          /\ sidecar' \in {sidecar, [sidecar EXCEPT ![r] = code[r]]}
          /\ UNCHANGED <<termed, stage>>
      BY <1>4 DEF Cleanup, WriteSidecar, Written, Finish
    <2>2. GroupOf(r) = "alive" /\ GroupOf(r)' \in {"left", "gone"} /\ code[r] \in {"ok", "err"}
      BY <1>4, <2>1
    <2>3. CASE r \in termed /\ code[r] = "ok"
      BY <1>m, <2>1, <2>2, <2>3, EndMove DEF Status
    <2>4. CASE r \notin termed \/ code[r] = "err"
      <3>1. stage[r] = "over" /\ Status(r) = code[r]
        BY <2>1, <2>2, <2>4 DEF Concluded, Status
      <3>2. GroupOf(r)' = "gone"
        BY <1>4, <2>1, <3>1
      <3>3. rc' = [rc EXCEPT ![r] = code[r]]
        BY <2>1, <3>1
      <3> HIDE DEF Sound, OuterPlace, GroupOf
      <3> QED
        BY <1>m, <2>1, <2>2, <3>2, <3>3, EndMove
    <2> QED
      BY <2>2, <2>3, <2>4
  <1>5. CASE WriteSidecar(r) /\ outer'[r] # "over"
    BY <1>5 DEF WriteSidecar, Finish
  <1> QED
    BY <1>1, <1>2, <1>3, <1>4, <1>5 DEF OuterStep

\* The subshell, by itself or by a signal, and its container.
LEMMA StageMaps ==
    ASSUME RunInv, NEW r \in Runs, StageStep(r) \/ PlaybookEnds(r) \/ StageMeetsTerm(r)
    PROVE  [Host!Next]_(Host!vars)
  <1>m. Moves(r)
    BY DEF Moves
  <1>1. UNCHANGED <<outer, rc, termed, sidecar>>
    BY DEF StageStep, PlaybookEnds, StageMeetsTerm, MakeCloneDir, ArmCloneCleanup, Clone,
       Pull, Disarm, StartContainer, DockerReturns, CloneCleanup, around, outerVars,
       signalVars
  <1>2. stage[r] = "none" \/ stage[r] = "over" => stage'[r] = stage[r]
    BY DEF StageStep, PlaybookEnds, StageMeetsTerm, MakeCloneDir, ArmCloneCleanup, Clone,
       Pull, Disarm, StartContainer, DockerReturns, CloneCleanup
  <1>3. CASE GroupOf(r)' = GroupOf(r)
    BY <1>m, <1>1, <1>3, HiddenMove DEF RunInv
  <1>4. CASE GroupOf(r) = "left" /\ GroupOf(r)' = "gone"
    BY <1>m, <1>1, <1>4, StragglersMove DEF RunInv
  <1> QED
    BY <1>1, <1>2, <1>3, <1>4 DEF GroupOf

\* The signals, and what the outer shell makes of them.
LEMMA SignalMaps ==
    ASSUME RunInv, NEW r \in Runs, Term(r) \/ OuterMeetsTerm(r) \/ Kill(r)
    PROVE  [Host!Next]_(Host!vars)
  <1> USE DEF RunInv, TypeOK, Sound, OuterPlace, GroupOf, Outer
  <1>m. Moves(r)
    BY DEF Moves
  <1>v. GroupView' = [GroupView EXCEPT ![r] = GroupOf(r)'] /\ GroupView[r] = GroupOf(r)
    BY <1>m, OnlyOwnGroupMoves DEF GroupView
  <1>1. CASE Term(r)
    <2>1. GroupOf(r)' = GroupOf(r)
      BY <1>1 DEF Term, outerVars, stageVars
    <2>2. termed' = termed \cup {r} /\ UNCHANGED <<rc, sidecar>> /\ GroupOf(r) # "none"
      BY <1>1 DEF Term, outerVars
    <2> HIDE DEF RunInv, TypeOK, Sound, OuterPlace, GroupOf
    <2>3. GroupView' = GroupView
      BY <1>v, <2>1 DEF GroupView
    <2>4. Host!Term(r)
      BY <2>2, <2>3 DEF GroupView, Host!Term
    <2> QED
      BY <2>4 DEF Host!Next
  <1>2. CASE OuterMeetsTerm(r) /\ outer[r] = "pipe"
    <2>1. GroupOf(r)' = GroupOf(r) /\ UNCHANGED <<rc, termed, sidecar>>
      BY <1>2 DEF OuterMeetsTerm, signalVars
    <2> QED
      BY <1>m, <2>1, HiddenMove
  <1>3. CASE OuterMeetsTerm(r) /\ outer[r] # "pipe"
    <2>1. /\ r \in termed /\ rc' = [rc EXCEPT ![r] = "err"] /\ UNCHANGED <<termed, sidecar>>
          /\ GroupOf(r) = "alive" /\ GroupOf(r)' \in {"left", "gone"}
      BY <1>3 DEF OuterMeetsTerm, signalVars
    <2> QED
      BY <1>m, <2>1, EndMove
  <1>4. CASE Kill(r)
    <2>1. /\ r \in termed /\ UNCHANGED <<termed, sidecar>> /\ GroupOf(r)' = "gone"
          /\ GroupOf(r) \in {"alive", "left"}
          /\ rc' = [rc EXCEPT ![r] = IF GroupOf(r) = "alive" THEN "err" ELSE @]
      <3>1. outer'[r] = "over" /\ stage'[r] \in {"none", "over"}
        BY <1>4 DEF Kill, Stage
      <3> QED
        BY <1>4, <3>1 DEF Kill
    <2> HIDE DEF RunInv, TypeOK, Sound, OuterPlace, GroupOf
    <2>2. Host!Kill(r)
      BY <1>v, <2>1 DEF GroupView, Host!Kill
    <2> QED
      BY <2>2 DEF Host!Next
  <1> QED
    BY <1>1, <1>2, <1>3, <1>4

---------------------------------------------------------------------------
(* The theorems.                                                           *)

\* Typing of the script's state for any set of runs.
THEOREM ScriptTypeCorrect == Spec => []TypeOK
  <1>1. RunInv => TypeOK
    BY DEF RunInv
  <1> QED
    BY <1>1, RunsSound, PTL

\* A marker tells of a run that is over, and its verdict is the run's.
THEOREM MarkersMeanOver == Spec => []MarkerMeansOver
  <1>1. RunInv => MarkerMeansOver
    BY DEF RunInv, TypeOK, Codes, OuterStates, Sound, OuterPlace, StagePlace, Concluded,
       MarkerMeansOver
  <1> QED
    BY <1>1, RunsSound, PTL

\* A run that failed after its log was opened says so in its sidecar.
THEOREM FailuresLeaveMarker == Spec => []FailureLeavesMarker
  <1>1. RunInv => FailureLeavesMarker
    BY DEF RunInv, TypeOK, Codes, OuterStates, Sound, OuterPlace, Concluded,
       FailureLeavesMarker
  <1> QED
    BY <1>1, RunsSound, PTL

\* No container loses the clone mounted into it.
THEOREM ClonesStayMounted == Spec => []CloneStaysMounted
  <1>1. RunInv => CloneStaysMounted
    BY DEF RunInv, Sound, StagePlace, CloneStaysMounted
  <1> QED
    BY <1>1, RunsSound, PTL

\* Only debug runs and ill-timed signals leave a clone behind.
THEOREM ClonesRemoved == Spec => []NoStrayClone
  <1>1. RunInv => NoStrayClone
    BY DEF RunInv, Sound, StagePlace, NoStrayClone
  <1> QED
    BY <1>1, RunsSound, PTL

\* Nothing but another run with a password of its own changes the vault file
\* under a run.
THEOREM VaultDriftsExcused == Spec => []VaultDriftsByOverlapOnly
  <1>1. Init => VaultDriftsByOverlapOnly
    BY DEF Init, VaultDriftsByOverlapOnly
  <1> QED
    BY <1>1, RunsSound, VaultStep, PTL DEF Spec

\* Whatever shells, traps, tee and disks do, and whenever the signals come, a run
\* is to the service a process group as RemoteHost describes it, which is all that
\* CommandRun assumes of its remote processes.
THEOREM ScriptImplementsGroup == Spec => ScriptIsGroup
  <1>1. Init => Host!Init
    BY DEF Init, Host!Init, GroupOf
  <1>2. RunInv /\ [Next]_vars => [Host!Next]_(Host!vars)
    <2> SUFFICES ASSUME RunInv, [Next]_vars PROVE [Host!Next]_(Host!vars)
      OBVIOUS
    <2>1. ASSUME NEW r \in Runs, Moves(r) PROVE [Host!Next]_(Host!vars)
      BY <2>1, OuterMaps, StageMaps, SignalMaps DEF Moves
    <2>2. CASE UNCHANGED vars
      BY <2>2 DEF vars, outerVars, stageVars, signalVars, GroupOf, Host!vars
    <2> QED
      BY <2>1, <2>2 DEF Next, Moves
  <1> QED
    BY <1>1, <1>2, RunsSound, PTL DEF Spec, ScriptIsGroup, Host!Spec

\* So whatever signals a run meets and wherever they cut its two shells and
\* their traps short, its marker tells of its end as RemoteHost says: a failure
\* is always one, and a success is, unless the run was sent SIGTERM.
HostFacts == INSTANCE RemoteHostProofs
    WITH Groups <- Runs, MayOmit <- TRUE, marks <- Runs,
         grp <- [r \in Runs |-> GroupOf(r)], marker <- sidecar

THEOREM ScriptTellsTruth == Spec => []Host!Told
  <1>1. Host!Init => HostFacts!Init
    BY DEF Host!Init, HostFacts!Init
  <1>2. [Host!Next]_(Host!vars) => [HostFacts!Next]_(HostFacts!vars)
    BY DEF Host!Next, Host!Start, Host!OnItsOwn, Host!Ends, Host!EndsByTerm,
       Host!StragglersEnd, Host!LeaderEnds, Host!Term, Host!Kill, Host!vars,
       HostFacts!Next, HostFacts!Start, HostFacts!OnItsOwn, HostFacts!Ends,
       HostFacts!EndsByTerm, HostFacts!StragglersEnd, HostFacts!LeaderEnds,
       HostFacts!Term, HostFacts!Kill, HostFacts!vars
  <1>3. HostFacts!Told => Host!Told
    BY DEF Host!Told, HostFacts!Told
  <1> QED
    BY <1>1, <1>2, <1>3, HostFacts!HostTellsTruth, ScriptImplementsGroup, PTL
       DEF ScriptIsGroup, Host!Spec, HostFacts!Spec

=============================================================================

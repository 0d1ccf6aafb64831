----------------------------- MODULE RunAnsible -----------------------------
(***************************************************************************)
(* Runs of run-ansible.sh on one control node. Each run is two shells: the *)
(* outer one checks the arguments, writes the vault password file, arms    *)
(* the marker trap and waits for a pipeline into tee; the subshell on the  *)
(* left of that pipeline (stages) clones the inventory, arms a trap of its *)
(* own, pulls the image and starts the container.                          *)
(*                                                                         *)
(* The runs share the vault password file. Signals go to a run's process   *)
(* group, as the kills of the deploy service send them: each shell meets   *)
(* SIGTERM on its own, and the container is in no group at all.            *)
(***************************************************************************)
EXTENDS Naturals

CONSTANTS
    Runs,      \* runs that may be under way at the same time
    Secrets,   \* vault passwords that secret files may hold
    ModesOf,   \* the modes each run may be called with
    Killable,  \* runs that the service may kill
    Crowded    \* runs whose log disk may fill up

NoSecret == "none"

ASSUME SecretsAssumption == {NoSecret, "empty", "stale"} \cap Secrets = {}

VARIABLES
    mode, bare,   \* [Runs -> ...]: MODE; neither playbook nor inventory
    secret,       \* [Runs -> ...]: ANSIBLE_VAULT_PASSWORD, once loaded
    outer, rc,    \* where the outer shell is; the exit status it died with
    code,         \* what its EXIT trap found in $?
    stage,        \* where the run_stages subshell is
    result,       \* its exit status
    armed, dir,   \* clone_cleanup armed in the subshell; CLONE_DIR exists
    container,    \* the docker container
    log, sidecar, \* <run_id>.log and <run_id>.exit
    tee,          \* the status tee will end with
    vault,        \* contents of VAULT_PASS_FILE
    termed,       \* runs whose group was sent SIGTERM
    cut           \* stage at which a signal ended the subshell

inputs == <<mode, bare, secret>>
outerVars == <<outer, rc, code, log, sidecar, tee>>
stageVars == <<stage, result, armed, dir, container>>
signalVars == <<termed, cut>>
vars == <<inputs, outerVars, stageVars, vault, signalVars>>

Modes == {"normal", "debug", "dry-run"}
Codes == {"none", "ok", "err"}
OuterStates == {"args", "secrets", "vault", "fill", "logdir", "pipe", "exit",
                "sidecar", "over"}
StageStates == {"none", "mktemp", "trap", "clone", "pull", "disarm", "docker",
                "wait", "clean", "over"}

TypeOK ==
    /\ mode \in [Runs -> Modes] /\ bare \in [Runs -> BOOLEAN]
    /\ secret \in [Runs -> Secrets \cup {NoSecret}]
    /\ outer \in [Runs -> OuterStates]
    /\ rc \in [Runs -> Codes] /\ code \in [Runs -> Codes]
    /\ stage \in [Runs -> StageStates] /\ result \in [Runs -> Codes]
    /\ armed \in [Runs -> BOOLEAN] /\ dir \in [Runs -> BOOLEAN]
    /\ container \in [Runs -> {"none", "running", "idle", "ok", "err"}]
    /\ log \in [Runs -> {"none", "open", "marked"}]
    /\ sidecar \in [Runs -> Codes] /\ tee \in [Runs -> {"ok", "err"}]
    /\ vault \in Secrets \cup {"empty", "stale"}
    /\ termed \in SUBSET Runs
    /\ cut \in [Runs -> StageStates \cup {"kill"}]

\* Only a debug run may do without playbook and inventory (parse_args). The
\* vault file is left over from some earlier run, or from none ("stale").
Init ==
    /\ mode \in [Runs -> Modes] /\ bare \in [Runs -> BOOLEAN]
    /\ \A r \in Runs : mode[r] \in ModesOf[r] /\ (bare[r] => mode[r] = "debug")
    /\ secret \in [Runs -> Secrets \cup {NoSecret}]
    /\ outer = [r \in Runs |-> "args"]
    /\ rc = [r \in Runs |-> "none"] /\ code = [r \in Runs |-> "none"]
    /\ stage = [r \in Runs |-> "none"] /\ result = [r \in Runs |-> "none"]
    /\ armed = [r \in Runs |-> FALSE] /\ dir = [r \in Runs |-> FALSE]
    /\ container = [r \in Runs |-> "none"]
    /\ log = [r \in Runs |-> "none"] /\ sidecar = [r \in Runs |-> "none"]
    /\ tee = [r \in Runs |-> "ok"] /\ vault = "stale"
    /\ termed = {} /\ cut = [r \in Runs |-> "none"]

---------------------------------------------------------------------------
(* main(), up to the pipeline. A check that fails exits the shell (set -e  *)
(* or exit 2/4), and no trap is armed yet.                                 *)

Outer(r, state) == outer' = [outer EXCEPT ![r] = state]

CheckFails(r) ==
    /\ outer[r] \in {"args", "secrets", "logdir"}
    /\ Outer(r, "over") /\ rc' = [rc EXCEPT ![r] = "err"]
    /\ UNCHANGED <<inputs, code, log, sidecar, tee, stageVars, vault, signalVars>>

ParseArgs(r) ==
    /\ outer[r] = "args"
    /\ Outer(r, "secrets")
    /\ UNCHANGED <<inputs, rc, code, log, sidecar, tee, stageVars, vault, signalVars>>

LoadSecrets(r) ==
    /\ outer[r] = "secrets"
    /\ Outer(r, IF secret[r] = NoSecret THEN "logdir" ELSE "vault")
    /\ UNCHANGED <<inputs, rc, code, log, sidecar, tee, stageVars, vault, signalVars>>

\* Variant: a vault file that is there already is not written again.
OpenVaultOnce(r) ==
    /\ outer[r] = "vault"
    /\ Outer(r, "logdir")
    /\ UNCHANGED <<inputs, rc, code, log, sidecar, tee, stageVars, vault, signalVars>>

\* The redirection truncates the file, then printf fills it.
OpenVault(r) ==
    /\ outer[r] = "vault"
    /\ vault' = "empty"
    /\ Outer(r, "fill")
    /\ UNCHANGED <<inputs, rc, code, log, sidecar, tee, stageVars, signalVars>>

FillVault(r) ==
    /\ outer[r] = "fill"
    /\ vault' = secret[r]
    /\ Outer(r, "logdir")
    /\ UNCHANGED <<inputs, rc, code, log, sidecar, tee, stageVars, signalVars>>

\* resolve_log_file is done: arm the trap, fork the pipeline.
StartPipeline(r) ==
    /\ outer[r] = "logdir"
    /\ Outer(r, "pipe")
    /\ log' = [log EXCEPT ![r] = "open"]
    /\ stage' = [stage EXCEPT ![r] = "mktemp"]
    /\ UNCHANGED <<inputs, rc, code, sidecar, tee, result, armed, dir,
                   container, vault, signalVars>>

\* tee cannot write the log (the disk is full): it reads on and fails in
\* the end.
TeeFails(r) ==
    /\ r \in Crowded /\ outer[r] = "pipe" /\ tee[r] = "ok"
    /\ tee' = [tee EXCEPT ![r] = "err"]
    /\ UNCHANGED <<inputs, outer, rc, code, log, sidecar, stageVars, vault,
                   signalVars>>

\* Variant: the pipeline without pipefail, its status is tee's.
PipelineEndsTee(r) ==
    /\ outer[r] = "pipe" /\ stage[r] = "over"
    /\ Outer(r, "exit")
    /\ code' = [code EXCEPT ![r] = tee[r]]
    /\ UNCHANGED <<inputs, rc, log, sidecar, tee, stageVars, vault, signalVars>>

\* Both sides of the pipeline are over. With pipefail and set -e a failure
\* of either exits the shell; PIPESTATUS[0] is read only after two successes.
PipelineEnds(r) ==
    /\ outer[r] = "pipe" /\ stage[r] = "over"
    /\ Outer(r, "exit")
    /\ code' = [code EXCEPT ![r] = IF tee[r] = "ok" THEN result[r] ELSE "err"]
    /\ UNCHANGED <<inputs, rc, log, sidecar, tee, stageVars, vault, signalVars>>

\* A file written on the disk of the log: it may not be, when that is full.
Written(r, file, old, new) ==
    file' \in {[file EXCEPT ![r] = new]} \cup
             (IF tee[r] = "err" THEN {[file EXCEPT ![r] = old]} ELSE {})

\* The status the process ends with: a shell that ran its EXIT trap because
\* of SIGTERM still dies of SIGTERM.
Status(r) == IF r \in termed THEN "err" ELSE code[r]
Finish(r) == Outer(r, "over") /\ rc' = [rc EXCEPT ![r] = Status(r)]

\* Variant: a marker for normal runs only.
CleanupNormalOnly(r) ==
    /\ outer[r] = "exit"
    /\ IF mode[r] = "normal"
       THEN Written(r, log, "open", "marked") /\ Outer(r, "sidecar") /\ rc' = rc
       ELSE Finish(r) /\ log' = log
    /\ UNCHANGED <<inputs, code, sidecar, tee, stageVars, vault, signalVars>>

\* Variant: a marker for failures only.
CleanupFailuresOnly(r) ==
    /\ outer[r] = "exit"
    /\ IF code[r] = "err"
       THEN Written(r, log, "open", "marked") /\ Outer(r, "sidecar") /\ rc' = rc
       ELSE Finish(r) /\ log' = log
    /\ UNCHANGED <<inputs, code, sidecar, tee, stageVars, vault, signalVars>>

\* cleanup(): the EXIT line, then the sidecar, which appears at once (a
\* temporary file and mv); neither when a debug or dry run succeeded.
Cleanup(r) ==
    /\ outer[r] = "exit"
    /\ IF mode[r] = "normal" \/ code[r] = "err"
       THEN Written(r, log, "open", "marked") /\ Outer(r, "sidecar") /\ rc' = rc
       ELSE Finish(r) /\ log' = log
    /\ UNCHANGED <<inputs, code, sidecar, tee, stageVars, vault, signalVars>>

\* Variant: the sidecar is written in place, and is empty at first.
WriteSidecarInPlace(r) ==
    /\ outer[r] = "sidecar"
    /\ IF sidecar[r] = "none"
       THEN /\ Outer(r, "sidecar") /\ rc' = rc
            /\ sidecar' = [sidecar EXCEPT ![r] = "empty"]
       ELSE /\ Finish(r)
            /\ sidecar' = [sidecar EXCEPT ![r] = code[r]]
    /\ UNCHANGED <<inputs, code, log, tee, stageVars, vault, signalVars>>

WriteSidecar(r) ==
    /\ outer[r] = "sidecar"
    /\ Written(r, sidecar, "none", code[r])
    /\ Finish(r)
    /\ UNCHANGED <<inputs, code, log, tee, stageVars, vault, signalVars>>

OuterStep(r) ==
    \/ ParseArgs(r) \/ LoadSecrets(r) \/ OpenVault(r) \/ FillVault(r)
    \/ StartPipeline(r) \/ PipelineEnds(r) \/ Cleanup(r) \/ WriteSidecar(r)

---------------------------------------------------------------------------
(* run_stages, in the subshell.                                            *)

Stage(r, state) == stage' = [stage EXCEPT ![r] = state]
around == <<inputs, outerVars, vault, signalVars>>

\* The subshell exits: through clone_cleanup if it has armed it.
Exit(r, status) ==
    /\ result' = [result EXCEPT ![r] = status]
    /\ Stage(r, IF armed[r] THEN "clean" ELSE "over")

\* clone_inventory: nothing to clone, or a fresh directory.
MakeCloneDir(r) ==
    /\ stage[r] = "mktemp"
    /\ \/ bare[r] /\ Stage(r, "pull") /\ UNCHANGED <<dir, result>>
       \/ ~bare[r] /\ Stage(r, "trap")
          /\ dir' = [dir EXCEPT ![r] = TRUE] /\ result' = result
       \/ ~bare[r] /\ Exit(r, "err") /\ dir' = dir
    /\ UNCHANGED <<armed, container, around>>

\* Variant: the trap is armed in the parent only, which the subshell does
\* not inherit.
ArmInParent(r) ==
    /\ stage[r] = "trap"
    /\ Stage(r, "clone")
    /\ UNCHANGED <<result, armed, dir, container, around>>

ArmCloneCleanup(r) ==
    /\ stage[r] = "trap"
    /\ armed' = [armed EXCEPT ![r] = TRUE]
    /\ Stage(r, "clone")
    /\ UNCHANGED <<result, dir, container, around>>

\* git clone and the checks on the inventory path. A dry run prints what it
\* would do and exits.
Clone(r) ==
    /\ stage[r] = "clone"
    /\ \/ Exit(r, "err")
       \/ mode[r] = "dry-run" /\ Exit(r, "ok")
       \/ mode[r] # "dry-run" /\ Stage(r, "pull") /\ result' = result
    /\ UNCHANGED <<armed, dir, container, around>>

\* docker pull and the check of the SSH key.
Pull(r) ==
    /\ stage[r] = "pull"
    /\ \/ Exit(r, "err")
       \/ mode[r] = "debug" /\ Stage(r, "disarm") /\ result' = result
       \/ mode[r] = "normal" /\ Stage(r, "docker") /\ result' = result
    /\ UNCHANGED <<armed, dir, container, around>>

\* Variant: run_debug without trap - EXIT.
DisarmForgotten(r) ==
    /\ stage[r] = "disarm"
    /\ Stage(r, "docker")
    /\ UNCHANGED <<result, armed, dir, container, around>>

Disarm(r) ==
    /\ stage[r] = "disarm"
    /\ armed' = [armed EXCEPT ![r] = FALSE]
    /\ Stage(r, "docker")
    /\ UNCHANGED <<result, dir, container, around>>

\* docker run: in the foreground with the playbook, or detached and idle.
StartContainer(r) ==
    /\ stage[r] = "docker"
    /\ \/ Exit(r, "err") /\ container' = container
       \/ /\ mode[r] = "normal" /\ Stage(r, "wait") /\ result' = result
          /\ container' = [container EXCEPT ![r] = "running"]
       \/ /\ mode[r] = "debug" /\ Exit(r, "ok")
          /\ container' = [container EXCEPT ![r] = "idle"]
    /\ UNCHANGED <<armed, dir, around>>

PlaybookEnds(r) ==
    /\ container[r] = "running"
    /\ \E status \in {"ok", "err"} : container' = [container EXCEPT ![r] = status]
    /\ UNCHANGED <<stage, result, armed, dir, around>>

DockerReturns(r) ==
    /\ stage[r] = "wait" /\ container[r] \in {"ok", "err"}
    /\ Exit(r, container[r])
    /\ UNCHANGED <<armed, dir, container, around>>

CloneCleanup(r) ==
    /\ stage[r] = "clean"
    /\ dir' = [dir EXCEPT ![r] = FALSE]
    /\ Stage(r, "over")
    /\ UNCHANGED <<result, armed, container, around>>

StageStep(r) ==
    \/ MakeCloneDir(r) \/ ArmCloneCleanup(r) \/ Clone(r) \/ Pull(r)
    \/ Disarm(r) \/ StartContainer(r) \/ DockerReturns(r) \/ CloneCleanup(r)

---------------------------------------------------------------------------
(* Signals to the process group of a run.                                  *)

Term(r) ==
    /\ r \in Killable \ termed /\ outer[r] # "over"
    /\ termed' = termed \cup {r}
    /\ UNCHANGED <<inputs, outerVars, stageVars, vault, cut>>

\* The outer shell does not wait for the pipeline: it runs its EXIT trap, if
\* armed, with the status of the last command it completed (0), and a trap
\* that is running already is cut short (by the SIGTERM of another kill, too).
OuterMeetsTerm(r) ==
    /\ r \in termed /\ outer[r] # "over"
    /\ IF outer[r] = "pipe"
       THEN /\ Outer(r, "exit") /\ rc' = rc
            /\ code' = [code EXCEPT ![r] = "ok"]
       ELSE /\ Outer(r, "over") /\ rc' = [rc EXCEPT ![r] = "err"]
            /\ code' = code
    /\ UNCHANGED <<inputs, log, sidecar, tee, stageVars, vault, signalVars>>

\* The subshell runs clone_cleanup if armed; rm is cut short like the rest.
StageMeetsTerm(r) ==
    /\ r \in termed /\ stage[r] \notin {"none", "over"} /\ cut[r] = "none"
    /\ cut' = [cut EXCEPT ![r] = stage[r]]
    /\ IF stage[r] = "clean" THEN Stage(r, "over") /\ result' = result
                             ELSE Exit(r, "err")
    /\ UNCHANGED <<inputs, outerVars, armed, dir, container, vault, termed>>

\* The second phase of a kill: no trap runs. The container goes on.
Kill(r) ==
    /\ r \in termed
    /\ outer[r] # "over" \/ stage[r] \notin {"none", "over"}
    /\ Outer(r, "over")
    /\ rc' = [rc EXCEPT ![r] = IF outer[r] = "over" THEN @ ELSE "err"]
    /\ IF stage[r] \in {"none", "over"}
       THEN UNCHANGED <<stage, result, cut>>
       ELSE /\ Stage(r, "over") /\ cut' = [cut EXCEPT ![r] = "kill"]
            /\ result' = [result EXCEPT ![r] = "err"]
    /\ UNCHANGED <<inputs, code, log, sidecar, tee, armed, dir, container, vault,
                   termed>>

Next ==
    \E r \in Runs :
        \/ OuterStep(r) \/ CheckFails(r) \/ TeeFails(r) \/ StageStep(r)
        \/ PlaybookEnds(r)
        \/ Term(r) \/ OuterMeetsTerm(r) \/ StageMeetsTerm(r) \/ Kill(r)

Spec == Init /\ [][Next]_vars

(* Shells, git and docker answer, and a playbook ends some day.            *)
FairSpec ==
    /\ Spec
    /\ \A r \in Runs : /\ WF_vars(OuterStep(r)) /\ WF_vars(StageStep(r))
                       /\ WF_vars(PlaybookEnds(r))

---------------------------------------------------------------------------
(* Properties that hold.                                                   *)

\* Who learns that a run nobody killed has ended, from its exit status or from
\* its marker (the EXIT line, the sidecar), may conclude that it is over: nothing
\* is added to the log any more, no playbook goes on in a container, the subshell
\* has ended with that verdict (a log that could not be written makes it a
\* failure, as does a check before it is opened), and the clone is gone, unless
\* a debug container keeps it.
MarkerMeansOver ==
    \A r \in Runs \ termed :
        rc[r] # "none" \/ log[r] = "marked" \/ sidecar[r] # "none" =>
            /\ stage[r] = IF log[r] = "none" THEN "none" ELSE "over"
            /\ container[r] # "running"
            /\ "ok" \in {rc[r], sidecar[r]} => result[r] = "ok"
            /\ "err" \in {rc[r], sidecar[r]} =>
                   result[r] = "err" \/ tee[r] = "err" \/ log[r] = "none"
            /\ dir[r] => mode[r] = "debug" /\ ~armed[r]

\* A run that fails once its log is open, in any mode, leaves its failure in
\* the sidecar, disk space permitting; one that fails an earlier check leaves
\* nothing at all, and only the task connected to it learns of it.
FailureLeavesMarker ==
    \A r \in Runs \ termed :
        rc[r] = "err" /\ tee[r] = "ok" =>
            sidecar[r] = IF log[r] = "none" THEN "none" ELSE "err"

\* As long as its container runs (or idles, for debugging) the clone mounted
\* into it is there: of the two traps, the one that removes it waits.
CloneStaysMounted ==
    \A r \in Runs \ termed :
        container[r] \in {"running", "idle"} => dir[r] \/ bare[r]

\* A clone is left behind by a debug run, or by a subshell that a signal met
\* before its trap was armed or while the trap was running, or that SIGKILL met.
NoStrayClone ==
    \A r \in Runs :
        stage[r] = "over" /\ dir[r] =>
            mode[r] = "debug" \/ cut[r] \in {"trap", "clean", "kill"}

\* A run that has written the vault file decrypts with its own password,
\* unless another run that has one got to write it, too.
VaultDriftsByOverlapOnly ==
    \A r \in Runs :
        /\ secret[r] # NoSecret
        /\ outer[r] \notin {"args", "secrets", "vault", "fill"} /\ rc[r] = "none"
        => \/ vault = secret[r]
           \/ \E q \in Runs \ {r} :
                  secret[q] # NoSecret /\ outer[q] \notin {"args", "secrets", "vault"}

\* What the service sees of a run is a process group as RemoteHost has it: the
\* marker appears when the leader ends and not before, with its true verdict
\* unless SIGTERM made the trap report a success; a leader that ended without
\* a signal leaves nobody of its group behind; nothing comes back.
GroupOf(r) ==
    IF outer[r] # "over" THEN "alive"
    ELSE IF stage[r] \in {"none", "over"} THEN "gone" ELSE "left"
Host == INSTANCE RemoteHost
    WITH Groups <- Runs, MayOmit <- TRUE, marks <- Runs,
         grp <- [r \in Runs |-> GroupOf(r)], marker <- sidecar
ScriptIsGroup == Host!Spec

\* A normal run that got to its stages ends with a sidecar, unless it is
\* killed or its disk is full.
NormalRunIsMarked ==
    \A r \in Runs :
        mode[r] = "normal" /\ outer[r] = "pipe" ~>
            sidecar[r] # "none" \/ r \in termed \/ tee[r] = "err"

=============================================================================

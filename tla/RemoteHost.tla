----------------------------- MODULE RemoteHost -----------------------------
(***************************************************************************)
(* What the service and a script rely on of each other: the process groups *)
(* of one remote host as they look from outside. The service sees whether  *)
(* a group is there (kill -0), how its leader ended and which marker it    *)
(* left, and does nothing to it but send it SIGTERM and then SIGKILL.      *)
(*                                                                         *)
(* The script implements this (RunAnsible) whatever its shells and traps   *)
(* do inside, and CommandRun counts on no more than this.                  *)
(***************************************************************************)
CONSTANTS
    Groups,    \* process groups
    MayOmit    \* whether a group that leaves markers may fail to leave one

VARIABLES
    marks,     \* groups whose leader leaves an exit marker; never changes
    grp,       \* [Groups -> ...]: not there yet, leader alive, members left, gone
    rc,        \* [Groups -> ...]: how the leader ended
    termed,    \* groups that were sent SIGTERM
    marker     \* [Groups -> ...]: the verdict in the marker

vars == <<marks, grp, rc, termed, marker>>

States == {"none", "alive", "left", "gone"}
Verdicts == {"none", "ok", "err"}

TypeOK ==
    /\ marks \in SUBSET Groups /\ termed \in SUBSET Groups
    /\ grp \in [Groups -> States]
    /\ rc \in [Groups -> Verdicts] /\ marker \in [Groups -> Verdicts]

Init ==
    /\ marks \in SUBSET Groups /\ termed = {}
    /\ grp \in [Groups -> {"none", "alive"}]
    /\ rc = [g \in Groups |-> "none"] /\ marker = [g \in Groups |-> "none"]

Start(g) ==
    /\ grp[g] = "none"
    /\ grp' = [grp EXCEPT ![g] = "alive"]
    /\ UNCHANGED <<marks, rc, termed, marker>>

\* The leader ends, with code in its marker, and the group is then state.
LeaderEnds(g, state, code) ==
    /\ grp[g] = "alive"
    /\ grp' = [grp EXCEPT ![g] = state]
    /\ \/ g \in marks /\ marker' = [marker EXCEPT ![g] = code]
       \/ /\ g \in marks => MayOmit
          /\ marker' = marker
    /\ UNCHANGED <<marks, termed>>

\* By itself it takes the whole group along, and tells the truth.
Ends(g) ==
    \E code \in {"ok", "err"} :
        LeaderEnds(g, "gone", code) /\ rc' = [rc EXCEPT ![g] = code]

\* After SIGTERM members may stay behind, and a marker may call it a success;
\* the exit status of a script that leaves markers is a failure.
EndsByTerm(g) ==
    /\ g \in termed
    /\ \E state \in {"left", "gone"} : LeaderEnds(g, state, "ok")
    /\ \E code \in {"ok", "err"} :
        (g \in marks => code = "err") /\ rc' = [rc EXCEPT ![g] = code]

StragglersEnd(g) ==
    /\ grp[g] = "left"
    /\ grp' = [grp EXCEPT ![g] = "gone"]
    /\ UNCHANGED <<marks, rc, termed, marker>>

\* kill -TERM, of a group that was once there.
Term(g) ==
    /\ grp[g] # "none"
    /\ termed' = termed \cup {g}
    /\ UNCHANGED <<marks, grp, rc, marker>>

\* kill -KILL, the second phase only. Nobody gets to write a marker.
Kill(g) ==
    /\ g \in termed /\ grp[g] \in {"alive", "left"}
    /\ grp' = [grp EXCEPT ![g] = "gone"]
    /\ rc' = [rc EXCEPT ![g] = IF grp[g] = "alive" THEN "err" ELSE @]
    /\ UNCHANGED <<marks, termed, marker>>

OnItsOwn(g) == Ends(g) \/ EndsByTerm(g) \/ StragglersEnd(g)

Next == \E g \in Groups : Start(g) \/ OnItsOwn(g) \/ Term(g) \/ Kill(g)

Spec == Init /\ [][Next]_vars

---------------------------------------------------------------------------
(* What follows from it for who looks on.                                  *)

\* What the service may conclude: an exit status means that the leader has
\* ended, with the whole group unless it was sent SIGTERM; a marker comes with
\* the end, a failure in it is always true, and a success is unless the group
\* was sent SIGTERM; where no marker is omitted, its absence tells of a signal.
Told ==
    \A g \in Groups :
        /\ rc[g] = "none" <=> grp[g] \in {"none", "alive"}
        /\ grp[g] = "left" => g \in termed
        /\ marker[g] # "none" => g \in marks /\ rc[g] # "none"
        /\ marker[g] = "err" => rc[g] = "err"
        /\ marker[g] = "ok" => rc[g] = "ok" \/ g \in termed
        /\ g \in marks /\ rc[g] # "none" /\ marker[g] = "none" =>
               MayOmit \/ g \in termed

\* What has been seen stays true: nothing comes back, nothing is revised.
OnlyAdds ==
    /\ marks' = marks /\ termed \subseteq termed'
    /\ \A g \in Groups :
        /\ rc[g] # "none" => rc'[g] = rc[g] /\ marker'[g] = marker[g]
        /\ grp[g] = "gone" => grp'[g] = "gone"
        /\ grp[g] = "left" => grp'[g] \in {"left", "gone"}
        /\ grp[g] = "alive" => grp'[g] # "none"
NothingRevised == [][OnlyAdds]_vars

=============================================================================

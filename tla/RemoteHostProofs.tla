-------------------------- MODULE RemoteHostProofs --------------------------
(* Theorems about RemoteHost. Its users get them by their own refinement.  *)
EXTENDS RemoteHost, TLAPS

LEMMA InitTold == Init => TypeOK /\ Told
  BY DEF Init, TypeOK, Told, States, Verdicts

\* A group other than the one a step is about is not touched.
LEMMA LeaderEndsTells ==
    ASSUME TypeOK, Told, NEW g \in Groups, NEW state \in {"left", "gone"},
           NEW code \in {"ok", "err"}, NEW exit \in {"ok", "err"},
           LeaderEnds(g, state, code), rc' = [rc EXCEPT ![g] = exit],
           state = "left" => g \in termed,
           code = exit \/ (code = "ok" /\ g \in termed)
    PROVE  TypeOK' /\ Told' /\ OnlyAdds
  <1>1. /\ grp[g] = "alive" /\ rc[g] = "none" /\ marker[g] = "none"
        /\ grp' = [grp EXCEPT ![g] = state]
        /\ UNCHANGED <<marks, termed>>
    BY DEF LeaderEnds, Told
  <1>2. \/ g \in marks /\ marker' = [marker EXCEPT ![g] = code]
        \/ (g \in marks => MayOmit) /\ marker' = marker
    BY DEF LeaderEnds
  <1>3. TypeOK'
    BY <1>1, <1>2 DEF TypeOK, States, Verdicts
  <1>4. ASSUME NEW h \in Groups \ {g}
        PROVE  /\ grp'[h] = grp[h] /\ rc'[h] = rc[h] /\ marker'[h] = marker[h]
    BY <1>1, <1>2 DEF TypeOK
  <1>5. /\ grp'[g] = state /\ rc'[g] = exit
        /\ \/ g \in marks /\ marker'[g] = code
           \/ (g \in marks => MayOmit) /\ marker'[g] = "none"
    BY <1>1, <1>2 DEF TypeOK
  <1>6. Told'
    BY <1>1, <1>4, <1>5 DEF Told
  <1>7. OnlyAdds
    BY <1>1, <1>4, <1>5 DEF OnlyAdds
  <1> QED
    BY <1>3, <1>6, <1>7

LEMMA NextTold == TypeOK /\ Told /\ [Next]_vars => TypeOK' /\ Told' /\ [OnlyAdds]_vars
  <1> SUFFICES ASSUME TypeOK, Told, [Next]_vars
               PROVE  TypeOK' /\ Told' /\ [OnlyAdds]_vars
    OBVIOUS
  <1>1. ASSUME NEW g \in Groups, Start(g) PROVE TypeOK' /\ Told' /\ OnlyAdds
    BY <1>1 DEF Start, TypeOK, States, Verdicts, Told, OnlyAdds
  <1>2. ASSUME NEW g \in Groups, Ends(g) PROVE TypeOK' /\ Told' /\ OnlyAdds
    <2>1. PICK code \in {"ok", "err"} :
              LeaderEnds(g, "gone", code) /\ rc' = [rc EXCEPT ![g] = code]
      BY <1>2 DEF Ends
    <2> QED
      BY <2>1, LeaderEndsTells
  <1>3. ASSUME NEW g \in Groups, EndsByTerm(g) PROVE TypeOK' /\ Told' /\ OnlyAdds
    <2>1. PICK state \in {"left", "gone"} : LeaderEnds(g, state, "ok")
      BY <1>3 DEF EndsByTerm
    <2>2. PICK code \in {"ok", "err"} : rc' = [rc EXCEPT ![g] = code]
      BY <1>3 DEF EndsByTerm
    <2> QED
      BY <1>3, <2>1, <2>2, LeaderEndsTells DEF EndsByTerm
  <1>4. ASSUME NEW g \in Groups, StragglersEnd(g) PROVE TypeOK' /\ Told' /\ OnlyAdds
    BY <1>4 DEF StragglersEnd, TypeOK, States, Verdicts, Told, OnlyAdds
  <1>5. ASSUME NEW g \in Groups, Term(g) PROVE TypeOK' /\ Told' /\ OnlyAdds
    BY <1>5 DEF Term, TypeOK, States, Verdicts, Told, OnlyAdds
  <1>6. ASSUME NEW g \in Groups, Kill(g) PROVE TypeOK' /\ Told' /\ OnlyAdds
    BY <1>6 DEF Kill, TypeOK, States, Verdicts, Told, OnlyAdds
  <1>7. CASE UNCHANGED vars
    BY <1>7 DEF vars, TypeOK, Told
  <1> QED
    BY <1>1, <1>2, <1>3, <1>4, <1>5, <1>6, <1>7 DEF Next, OnItsOwn

\* Whoever sees a process group as the service does may rely on what its exit
\* status and its marker tell.
THEOREM HostTellsTruth == Spec => []Told
  BY InitTold, NextTold, PTL DEF Spec

\* And on their staying so.
THEOREM HostRevisesNothing == Spec => NothingRevised
  BY InitTold, NextTold, PTL DEF Spec, NothingRevised

=============================================================================

-------------------------- MODULE SessionRegistry --------------------------
(***************************************************************************)
(* What the session metadata of one project promises its users: a map from *)
(* session names to the last state recorded for them, changed one entry at *)
(* a time.  Every upsert_session sets one name's state and leaves the      *)
(* others as they are; no entry is ever dropped.                           *)
(***************************************************************************)
CONSTANTS Names

VARIABLE registry

States == {"running", "idle"}
Unknown == [n \in Names |-> "none"]

Init == registry = Unknown

\* One atomic upsert of session n with state st.
Upsert(n, st) == registry' = [registry EXCEPT ![n] = st]

Next == \E n \in Names, st \in States : Upsert(n, st)

Spec == Init /\ [][Next]_registry
=============================================================================

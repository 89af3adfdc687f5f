----------------------------- MODULE MCWizards -----------------------------
(* Wizards with two conversations on one connection. *)
EXTENDS Wizards, TLC

CONSTANTS c1, c2
MCNames == {"a", "b"}
MCKinds == {"agent", "freeform"}
MCLabels == {"x"}
MCExisting == {"a"}
MCTogether == {<<"skills", "schedule">>, <<"schedule", "skills">>} \cup {<<w, w>> : w \in Wizard}
MCTexts == {"x", "y"}
MCExplored == {"name", "kind"}
View == <<heap, active, turn, agentFile, agentRow, skillFile, registry, schedules,
          IF said.what \in {"skill created", "agent created"} THEN said ELSE None>>
Symmetry == Permutations({c1, c2})
=============================================================================

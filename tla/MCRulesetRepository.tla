------------------------ MODULE MCRulesetRepository ------------------------
(***************************************************************************)
(* Small instances of RulesetRepository.  The rulesets are chosen so that  *)
(* two of them can collide on id and name, on the id alone, on the name    *)
(* alone, or not at all; "bad" is a payload the validator rejects.         *)
(***************************************************************************)
EXTENDS RulesetRepository, TLC

Symmetry == Permutations(Calls)

R(id, n, p) == [ruleset_id |-> id, ruleset_name |-> n, version |-> "v1", payload |-> p]

MCRulesets ==
  {R("A", "N", "p"), R("A", "M", "q"), R("B", "N", "q"), R("B", "M", "bad")}
LifecycleRulesets == {R("A", "N", "p"), R("B", "N", "q")}
=============================================================================

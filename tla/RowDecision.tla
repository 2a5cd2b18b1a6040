---------------------------- MODULE RowDecision ----------------------------
(***************************************************************************)
(* What the engine promises for one row: every active rule in rule_order   *)
(* is decided in one step, all of its assignments are resolved against the *)
(* values committed before it and committed together, a matching           *)
(* stop_on_match rule is the last, and an error anywhere leaves no         *)
(* decision.  This is SparkRowEvaluator.evaluate_row, the scalar API the   *)
(* Spark worker is held to.                                                *)
(***************************************************************************)
EXTENDS Sequences

CONSTANTS
  Inputs,       \* the <<ruleset, row>> pairs
  Modes,        \* how the row may be evaluated; each mode decides once
  Targets,      \* assignment target fields
  NoId,         \* None where an id or a mode is expected
  Typed(_, _),  \* value, target -> the value committed, or Raised; evaluate_row
                \* commits the value itself, the Spark worker types it
  \* What one rule does to one row, as RuleSemantics defines it.
  Raised, Unassigned, IsAssigned(_, _),
  RuleMatches(_, _, _), Resolve(_, _, _), ActiveRules(_), AssignmentTargets(_)

VARIABLES
  ruleset, row,
  deciding,   \* the mode under way, or NoId
  remaining,  \* its active rules still to decide
  matched,    \* ids of the rules that matched
  committed,  \* target -> AssignedValue
  decision    \* mode -> its decision, or Undecided

decisionVars == <<ruleset, row, deciding, remaining, matched, committed, decision>>

Undecided == [outcome |-> "undecided"]
Failed == [outcome |-> "failed"]
Decided(ids, values) ==
  [outcome |-> "decided", matched_rule_ids |-> ids,
   assign |-> [t \in AssignmentTargets(ruleset) |->
                 [applied |-> IsAssigned(values, t), value |-> values[t].value]]]

NothingCommitted == [t \in Targets |-> Unassigned]

Proposed(rule, i) ==
  LET assignment == rule.assignments[i]
  IN  Typed(Resolve(assignment.value, row, committed), assignment.target_field)

RuleRaises(rule) ==
  LET matches == RuleMatches(rule, row, committed)
  IN  \/ matches = "raised"
      \/ /\ matches = "true"
         /\ \E i \in DOMAIN rule.assignments : Proposed(rule, i) = Raised

\* The values after a matching rule; a target is assigned once in a rule.
CommittedBy(rule) ==
  [t \in Targets |->
     IF \E i \in DOMAIN rule.assignments : rule.assignments[i].target_field = t
     THEN LET i == CHOOSE i \in DOMAIN rule.assignments : rule.assignments[i].target_field = t
          IN  [value |-> Proposed(rule, i), rule_id |-> rule.rule_id,
               assignment_id |-> rule.assignments[i].assignment_id]
     ELSE committed[t]]

DecisionInit ==
  /\ \E input \in Inputs : ruleset = input[1] /\ row = input[2]
  /\ deciding = NoId /\ remaining = <<>> /\ matched = <<>>
  /\ committed = NothingCommitted
  /\ decision = [m \in Modes |-> Undecided]

StartDecision(mode) ==
  /\ deciding = NoId /\ decision[mode] = Undecided
  /\ deciding' = mode
  /\ remaining' = ActiveRules(ruleset)
  /\ matched' = <<>> /\ committed' = NothingCommitted
  /\ UNCHANGED <<ruleset, row, decision>>

SkipRule ==
  /\ deciding # NoId /\ remaining # <<>>
  /\ RuleMatches(Head(remaining), row, committed) = "false"
  /\ remaining' = Tail(remaining)
  /\ UNCHANGED <<ruleset, row, deciding, matched, committed, decision>>

ApplyRule ==
  /\ deciding # NoId /\ remaining # <<>>
  /\ LET rule == Head(remaining)
     IN  /\ RuleMatches(rule, row, committed) = "true" /\ ~RuleRaises(rule)
         /\ matched' = Append(matched, rule.rule_id)
         /\ committed' = CommittedBy(rule)
         /\ remaining' = IF rule.stop_on_match THEN <<>> ELSE Tail(remaining)
  /\ UNCHANGED <<ruleset, row, deciding, decision>>

Conclude(verdict) ==
  /\ decision' = [decision EXCEPT ![deciding] = verdict]
  /\ deciding' = NoId
  /\ remaining' = <<>> /\ matched' = <<>> /\ committed' = NothingCommitted
  /\ UNCHANGED <<ruleset, row>>

FailRow ==
  /\ deciding # NoId /\ remaining # <<>> /\ RuleRaises(Head(remaining))
  /\ Conclude(Failed)

FinishRow ==
  /\ deciding # NoId /\ remaining = <<>>
  /\ Conclude(Decided(matched, committed))

DecisionNext ==
  \/ \E mode \in Modes : StartDecision(mode)
  \/ SkipRule \/ ApplyRule \/ FailRow \/ FinishRow

DecisionSpec == DecisionInit /\ [][DecisionNext]_decisionVars
=============================================================================

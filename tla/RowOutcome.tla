---------------------------- MODULE RowOutcome ----------------------------
(***************************************************************************)
(* What the Spark worker returns for one row in compact mode, as one       *)
(* expression: the loop over the prepared rules is a recursive function of *)
(* the rules done.  RowEvaluation takes the same loop step by step.        *)
(***************************************************************************)
EXTENDS RuleSemantics

Start ==
  [matched_rule_ids |-> <<>>, assigned_values |-> [t \in Targets |-> Unassigned],
   stopped |-> FALSE, error |-> FALSE]

ProposedValues(rule, row, assigned_values) ==
  [i \in DOMAIN rule.assignments |->
     LET a == rule.assignments[i]
     IN  SparkAssignmentValue(Resolve(a.value, row, assigned_values), a.target_field)]

Commit(rule, proposed, assigned_values) ==
  [t \in Targets |->
     LET made == {i \in DOMAIN proposed : rule.assignments[i].target_field = t}
     IN  IF made = {} THEN assigned_values[t]
         ELSE [value |-> proposed[Max(made)], rule_id |-> rule.rule_id,
               assignment_id |-> rule.assignments[Max(made)].assignment_id]]

AfterRule(s, rule, row) ==
  LET matches == IF s.stopped \/ s.error THEN "false"
                 ELSE RuleMatches(rule, row, s.assigned_values)
      proposed == ProposedValues(rule, row, s.assigned_values)
  IN  CASE matches = "false" -> s
        [] matches = "raised" -> [s EXCEPT !.error = TRUE]
        [] OTHER ->
             IF Raised \in ToSet(proposed) THEN [s EXCEPT !.error = TRUE]
             ELSE [matched_rule_ids |-> Append(s.matched_rule_ids, rule.rule_id),
                   assigned_values |-> Commit(rule, proposed, s.assigned_values),
                   stopped |-> rule.stop_on_match, error |-> FALSE]

\* An error row keeps no match and applies nothing.
RowOutcome(ruleset, row) ==
  LET rules == ActiveRules(ruleset)
      after[n \in 0 .. Len(rules)] ==
        IF n = 0 THEN Start ELSE AfterRule(after[n - 1], rules[n], row)
      end == after[Len(rules)]
      values == IF end.error THEN Start.assigned_values ELSE end.assigned_values
  IN  [error |-> end.error,
       matched_rule_ids |-> IF end.error THEN <<>> ELSE end.matched_rule_ids,
       assign |-> [t \in AssignmentTargets(ruleset) |->
                     [applied |-> IsAssigned(values, t), value |-> values[t].value]]]
=============================================================================

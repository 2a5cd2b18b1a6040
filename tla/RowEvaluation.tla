--------------------------- MODULE RowEvaluation ---------------------------
(***************************************************************************)
(* The Python callable the Spark worker runs on each row                   *)
(* (_build_row_evaluator in spark_runtime.py), step by step.  The same row *)
(* is evaluated once in each mode: compact, which returns the business     *)
(* result, and full_audit, which also returns condition traces and the     *)
(* history of every assignment.                                            *)
(***************************************************************************)
EXTENDS RuleSemantics

CONSTANT Inputs  \* the <<ruleset, row>> pairs that pass DataFrame validation

ASSUME InputsAssumption ==
  /\ \A input \in Inputs : input = <<input[1], input[2]>> /\ WellFormedRuleset(input[1])
  /\ TargetType \in [Targets -> {"string", "integral", "double", "boolean"}]
  /\ OperandTrees
  /\ NoId \notin {"compact", "full_audit"}

VARIABLES
  ruleset, row,
  mode,               \* the evaluation under way, or NoId
  remaining,          \* active rules from the current one on
  phase,              \* "match" a rule, "resolve" its assignments, then "commit"
  matched_rule_ids,
  rule_traces,        \* full audit: condition traces of the matched rules
  resolved,           \* values of the current rule's assignments so far
  assigned_values,    \* target -> AssignedValue committed by earlier rules
  assignment_events,  \* full audit: every assignment made, in order
  payload             \* mode -> the result struct it returned, or NoPayload

inputVars == <<ruleset, row>>
ruleVars == <<phase, resolved>>
vars == <<ruleset, row, mode, remaining, phase, matched_rule_ids, rule_traces,
          resolved, assigned_values, assignment_events, payload>>

Modes == {"compact", "full_audit"}
Audited == mode = "full_audit"
NoPayload ==
  [status |-> "none", matched_rule_ids |-> <<>>, assign |-> <<>>,
   matched_rules |-> <<>>, assignment_results |-> <<>>]
NothingAssigned == [t \in Targets |-> Unassigned]
Rule == Head(remaining)

Fresh ==
  /\ remaining' = <<>> /\ phase' = "match"
  /\ matched_rule_ids' = <<>> /\ rule_traces' = <<>>
  /\ resolved' = <<>> /\ assigned_values' = NothingAssigned
  /\ assignment_events' = <<>>

Init ==
  /\ \E input \in Inputs : ruleset = input[1] /\ row = input[2]
  /\ mode = NoId /\ remaining = <<>> /\ phase = "match"
  /\ matched_rule_ids = <<>> /\ rule_traces = <<>>
  /\ resolved = <<>> /\ assigned_values = NothingAssigned
  /\ assignment_events = <<>>
  /\ payload = [m \in Modes |-> NoPayload]

(***************************************************************************)
(* The result struct.                                                      *)
(***************************************************************************)
NextEvents(events, i) ==
  {j \in i + 1 .. Len(events) : events[j].target_field = events[i].target_field}
FirstEvent(events, target) ==   \* mutant: the first assignment wins
  Min({j \in DOMAIN events : events[j].target_field = target})
LastEvent(events, target) ==
  Max({j \in DOMAIN events : events[j].target_field = target})

ValuesChanged(old_value, proposed_value) == old_value # proposed_value

\* Every event with its immediate override and its target's final winner.
AssignmentResults(events) ==
  [i \in DOMAIN events |->
     LET event == events[i]
         later == NextEvents(events, i)
         winner == events[LastEvent(events, event.target_field)]
         override == IF later = {} THEN Unassigned ELSE events[Min(later)]
     IN  [assignment_id |-> event.assignment_id, rule_id |-> event.rule_id,
          rule_order |-> event.rule_order, target_field |-> event.target_field,
          old_value |-> event.old_value, proposed_value |-> event.proposed_value,
          changed |-> ValuesChanged(event.old_value, event.proposed_value),
          overridden_by_rule_id |-> override.rule_id,
          overridden_by_assignment_id |-> override.assignment_id,
          effective |-> i = LastEvent(events, event.target_field),
          final_winning_rule_id |-> winner.rule_id,
          final_winning_assignment_id |-> winner.assignment_id]]

AssignPayload(values) ==
  [t \in AssignmentTargets(ruleset) |->
     [applied |-> IsAssigned(values, t), value |-> values[t].value]]

SuccessPayload ==
  [status |-> "success", matched_rule_ids |-> matched_rule_ids,
   assign |-> AssignPayload(assigned_values),
   matched_rules |-> IF Audited THEN rule_traces ELSE <<>>,
   assignment_results |-> IF Audited THEN AssignmentResults(assignment_events) ELSE <<>>]

ErrorPayloadPartial ==   \* mutant: what was committed before the error is returned
  [status |-> "error", matched_rule_ids |-> <<>>,
   assign |-> AssignPayload(assigned_values),
   matched_rules |-> <<>>, assignment_results |-> <<>>]
ErrorPayload ==
  [status |-> "error", matched_rule_ids |-> <<>>,
   assign |-> AssignPayload(NothingAssigned),
   matched_rules |-> <<>>, assignment_results |-> <<>>]

Return(result) ==
  /\ payload' = [payload EXCEPT ![mode] = result]
  /\ mode' = NoId
  /\ Fresh
  /\ UNCHANGED inputVars

(***************************************************************************)
(* One action per step of the loop over the rules.                         *)
(***************************************************************************)
StartRow(m) ==
  /\ mode = NoId /\ payload[m] = NoPayload
  /\ mode' = m
  /\ remaining' = ActiveRules(ruleset)
  /\ UNCHANGED <<ruleset, row, phase, matched_rule_ids, rule_traces, resolved,
                 assigned_values, assignment_events, payload>>

\* The audited evaluation builds traces; both must come to the same outcome.
RuleOutcome ==
  IF Audited THEN EvaluateRule(Rule, row, assigned_values).outcome
  ELSE RuleMatches(Rule, row, assigned_values)

AtRule == mode # NoId /\ phase = "match" /\ remaining # <<>>

SkipRule ==
  /\ AtRule /\ RuleOutcome = "false"
  /\ remaining' = Tail(remaining)
  /\ UNCHANGED <<ruleset, row, mode, phase, matched_rule_ids, rule_traces, resolved,
                 assigned_values, assignment_events, payload>>

MatchRule ==
  /\ AtRule /\ RuleOutcome = "true"
  /\ matched_rule_ids' = Append(matched_rule_ids, Rule.rule_id)
  /\ rule_traces' =
       IF Audited
       THEN Append(rule_traces,
              [rule_id |-> Rule.rule_id,
               conditions |-> EvaluateRule(Rule, row, assigned_values).condition_traces])
       ELSE rule_traces
  /\ phase' = "resolve"
  /\ UNCHANGED <<ruleset, row, mode, remaining, resolved, assigned_values,
                 assignment_events, payload>>

Assignment == Rule.assignments[Len(resolved) + 1]

\* The assignments are committed in order, so a later one to the same target wins.
CommittedStaleProducer ==   \* mutant: the value changes, its producer does not
  [t \in Targets |->
     LET made == {i \in DOMAIN resolved : Rule.assignments[i].target_field = t}
     IN  IF made = {} THEN assigned_values[t]
         ELSE IF IsAssigned(assigned_values, t)
         THEN [assigned_values[t] EXCEPT !.value = resolved[Max(made)]]
         ELSE [value |-> resolved[Max(made)], rule_id |-> Rule.rule_id,
               assignment_id |-> Rule.assignments[Max(made)].assignment_id]]
Committed ==
  [t \in Targets |->
     LET made == {i \in DOMAIN resolved : Rule.assignments[i].target_field = t}
     IN  IF made = {} THEN assigned_values[t]
         ELSE [value |-> resolved[Max(made)], rule_id |-> Rule.rule_id,
               assignment_id |-> Rule.assignments[Max(made)].assignment_id]]

ProposedValueUnsnapshotted ==   \* mutant: assignments of one rule see each other
  SparkAssignmentValue(Resolve(Assignment.value, row, Committed), Assignment.target_field)
ProposedValue ==
  SparkAssignmentValue(Resolve(Assignment.value, row, assigned_values),
                       Assignment.target_field)

OldValueOfRow ==   \* mutant: earlier assignments are forgotten
  LET target == Assignment.target_field
  IN  SparkAssignmentValue(IF target \in Fields THEN row[target] ELSE Null, target)
\* What the target held: the value assigned so far, or the source column if there is one.
OldValue ==
  LET target == Assignment.target_field
      held == IF IsAssigned(assigned_values, target) THEN assigned_values[target].value
              ELSE IF target \in Fields THEN row[target] ELSE Null
  IN  SparkAssignmentValue(held, target)

Resolving == mode # NoId /\ phase = "resolve" /\ Len(resolved) < Len(Rule.assignments)

AssignmentRaisesOnOld == Audited /\ OldValue = Raised   \* mutant: unchecked value
AssignmentRaises == ProposedValue = Raised \/ (Audited /\ OldValue = Raised)

ResolveAssignmentChanging ==   \* mutant: an assignment that changes nothing is no event
  /\ Resolving /\ ~AssignmentRaises
  /\ resolved' = Append(resolved, ProposedValue)
  /\ assignment_events' =
       IF Audited /\ ValuesChanged(OldValue, ProposedValue)
       THEN Append(assignment_events,
              [assignment_id |-> Assignment.assignment_id, rule_id |-> Rule.rule_id,
               rule_order |-> Rule.rule_order, target_field |-> Assignment.target_field,
               old_value |-> OldValue, proposed_value |-> ProposedValue])
       ELSE assignment_events
  /\ UNCHANGED <<ruleset, row, mode, remaining, phase, matched_rule_ids, rule_traces,
                 assigned_values, payload>>
ResolveAssignment ==
  /\ Resolving /\ ~AssignmentRaises
  /\ resolved' = Append(resolved, ProposedValue)
  /\ assignment_events' =
       IF Audited
       THEN Append(assignment_events,
              [assignment_id |-> Assignment.assignment_id, rule_id |-> Rule.rule_id,
               rule_order |-> Rule.rule_order, target_field |-> Assignment.target_field,
               old_value |-> OldValue, proposed_value |-> ProposedValue])
       ELSE assignment_events
  /\ UNCHANGED <<ruleset, row, mode, remaining, phase, matched_rule_ids, rule_traces,
                 assigned_values, payload>>

RulesAfter(rule) == IF rule.stop_on_match THEN <<>> ELSE Tail(remaining)

CommitRule ==
  /\ mode # NoId /\ phase = "resolve" /\ Len(resolved) = Len(Rule.assignments)
  /\ assigned_values' = Committed
  /\ resolved' = <<>> /\ phase' = "match"
  /\ remaining' = RulesAfter(Rule)
  /\ UNCHANGED <<ruleset, row, mode, matched_rule_ids, rule_traces, assignment_events,
                 payload>>

RowRaises ==
  /\ \/ AtRule /\ RuleOutcome = "raised"
     \/ Resolving /\ AssignmentRaises
  /\ Return(ErrorPayload)

FinishRow ==
  /\ mode # NoId /\ phase = "match" /\ remaining = <<>>
  /\ Return(SuccessPayload)

Step == SkipRule \/ MatchRule \/ ResolveAssignment \/ CommitRule \/ RowRaises \/ FinishRow
Next == (\E m \in Modes : StartRow(m)) \/ Step

Spec == Init /\ [][Next]_vars

-----------------------------------------------------------------------------
(***************************************************************************)
(* Properties.                                                             *)
(***************************************************************************)
Finished(m) == payload[m].status # "none"
Succeeded(m) == payload[m].status = "success"
Results == payload["full_audit"].assignment_results
RuleWithId(id) == CHOOSE r \in ruleset : r.rule_id = id
Assigns(rule, target) == \E a \in ToSet(rule.assignments) : a.target_field = target

\* Every value committed or returned is a typed value with its producer, and
\* the worker is in the middle of a rule only while it holds one.
TypeOK ==
  /\ <<ruleset, row>> \in Inputs
  /\ mode \in Modes \cup {NoId}
  /\ phase \in {"match", "resolve"}
  /\ phase = "resolve" => remaining # <<>> /\ Len(resolved) <= Len(Rule.assignments)
  /\ ToSet(remaining) \subseteq ruleset
  /\ Raised \notin ToSet(resolved)
  /\ \A t \in Targets : /\ assigned_values[t].value # Raised
                        /\ IsAssigned(assigned_values, t) <=>
                             assigned_values[t].assignment_id # NoId
  /\ \A m \in Modes : payload[m].status \in {"none", "success", "error"}

\* README.md:607: full audit does not change matching or assignment results; the
\* two evaluators of a rule must agree on its errors as well.
ModesAgree ==
  Finished("compact") /\ Finished("full_audit") =>
    LET business(m) == <<payload[m].status, payload[m].matched_rule_ids, payload[m].assign>>
    IN  business("compact") = business("full_audit")

\* A target is applied exactly when some rule reported as matched assigns it: a
\* rule's assignments come and go together, and an error row keeps none.
AppliedByMatched ==
  \A m \in {n \in Modes : Finished(n)} : \A t \in AssignmentTargets(ruleset) :
    payload[m].assign[t].applied <=>
      \E id \in ToSet(payload[m].matched_rule_ids) : Assigns(RuleWithId(id), t)

\* Assignment history lists the assignments of the matched rules, all of them,
\* in evaluation order.
HistoryFollowsMatches ==
  Succeeded("full_audit") =>
    [i \in DOMAIN Results |-> <<Results[i].rule_id, Results[i].assignment_id>>] =
      FlattenSeq([k \in DOMAIN payload["full_audit"].matched_rule_ids |->
        LET rule == RuleWithId(payload["full_audit"].matched_rule_ids[k])
        IN  [i \in DOMAIN rule.assignments |->
               <<rule.rule_id, rule.assignments[i].assignment_id>>]])

\* The value an event replaced is what the event before it for that target
\* proposed, which names it as its override; the first one replaced the source value.
HistoryChains ==
  \A i \in DOMAIN Results :
    LET target == Results[i].target_field
        earlier == {j \in 1 .. i - 1 : Results[j].target_field = target}
        source == IF target \in Fields THEN row[target] ELSE Null
    IN  IF earlier = {}
        THEN Results[i].old_value = SparkAssignmentValue(source, target)
        ELSE LET before == Results[Max(earlier)]
             IN  /\ Results[i].old_value = before.proposed_value
                 /\ before.overridden_by_rule_id = Results[i].rule_id
                 /\ before.overridden_by_assignment_id = Results[i].assignment_id
                 /\ ~before.effective

\* One event per applied target is effective, it proposed the value the row
\* returns, and every event of the target names it as the final winner.
EffectiveEmitted ==
  Succeeded("full_audit") =>
    \A t \in AssignmentTargets(ruleset) :
      LET emitted == payload["full_audit"].assign[t]
          events == {i \in DOMAIN Results : Results[i].target_field = t}
          effective == {i \in events : Results[i].effective}
      IN  /\ emitted.applied <=> events # {}
          /\ events # {} =>
               \E e \in effective :
                 /\ effective = {e}
                 /\ Results[e].proposed_value = emitted.value
                 /\ Results[e].overridden_by_rule_id = NoId
                 /\ \A i \in events :
                      /\ Results[i].final_winning_rule_id = Results[e].rule_id
                      /\ Results[i].final_winning_assignment_id = Results[e].assignment_id

\* A traced operand that reads an assigned target names the last event before
\* its rule, and resolves to the value that event proposed.
TracesNameProducers ==
  \A k \in DOMAIN payload["full_audit"].matched_rules :
    LET trace == payload["full_audit"].matched_rules[k]
        order == RuleWithId(trace.rule_id).rule_order
        reads == {o \in UNION {{c.left, c.right} : c \in ToSet(trace.conditions)} :
                    o.evaluated /\ o.operand.kind = "assigned"}
    IN  \A o \in reads :
          LET earlier == {i \in DOMAIN Results :
                            /\ Results[i].target_field = o.operand.name
                            /\ Results[i].rule_order < order}
          IN  IF earlier = {}
              THEN /\ o.produced_by_rule_id = NoId
                   /\ o.value = o.operand.default_if_null
              ELSE LET producer == Results[Max(earlier)]
                   IN  /\ o.produced_by_rule_id = producer.rule_id
                       /\ o.produced_by_assignment_id = producer.assignment_id
                       /\ o.value = WithDefault(o.operand, producer.proposed_value)

-----------------------------------------------------------------------------
(***************************************************************************)
(* Refinement: between two rules the worker is where RowDecision is, and   *)
(* a rule that has matched counts when its assignments are committed.      *)
(***************************************************************************)
DecisionOf(result) ==
  CASE result.status = "none" -> [outcome |-> "undecided"]
    [] result.status = "error" -> [outcome |-> "failed"]
    [] OTHER -> [outcome |-> "decided", matched_rule_ids |-> result.matched_rule_ids,
                 assign |-> result.assign]

Decision ==
  INSTANCE RowDecision WITH
    deciding <- mode,
    matched <- IF phase = "resolve" THEN Front(matched_rule_ids) ELSE matched_rule_ids,
    committed <- assigned_values,
    decision <- [m \in Modes |-> DecisionOf(payload[m])],
    Typed <- SparkAssignmentValue

\* Whatever the order of its steps, in both modes the worker decides the row as
\* README.md:42-49 says: rule by rule, each from one snapshot and all or nothing.
ImplementsDecision == Decision!DecisionSpec
=============================================================================

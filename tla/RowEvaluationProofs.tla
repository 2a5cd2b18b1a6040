------------------------ MODULE RowEvaluationProofs ------------------------
(***************************************************************************)
(* The Spark row worker: its inductive invariant, the decision it takes    *)
(* (RowDecision), and what the audited result says of it.                  *)
(***************************************************************************)
EXTENDS RowEvaluation, RuleSemanticsProofs

(***************************************************************************)
(* Sequences whose elements need no type of their own.                     *)
(***************************************************************************)
IsSequence(s) == \E S : s \in Seq(S)

(* A sequence has a length and is defined up to it.                        *)
LEMMA SequenceFacts ==
  ASSUME NEW s, IsSequence(s)
  PROVE  Len(s) \in Nat /\ DOMAIN s = 1 .. Len(s)
BY LenProperties DEF IsSequence

(* The empty sequence is one.                                              *)
LEMMA EmptySequence == IsSequence(<<>>) /\ Len(<<>>) = 0 /\ DOMAIN <<>> = {}
<1>1. <<>> \in Seq({})
  OBVIOUS
<1>. QED BY <1>1 DEF IsSequence

(* Appending adds one element at the end and changes no other.             *)
LEMMA AppendFacts ==
  ASSUME NEW s, IsSequence(s), NEW e, NEW longer, longer = Append(s, e)
  PROVE  /\ IsSequence(longer) /\ Len(longer) = Len(s) + 1
         /\ DOMAIN longer = (DOMAIN s) \cup {Len(s) + 1}
         /\ \A i \in DOMAIN s : longer[i] = s[i]
         /\ longer[Len(s) + 1] = e
         /\ Front(longer) = s /\ longer # <<>>
<1>1. PICK S : s \in Seq(S)
  BY DEF IsSequence
<1>2. s \in Seq(S \cup {e}) /\ e \in S \cup {e}
  BY <1>1
<1>3. /\ longer \in Seq(S \cup {e}) /\ Len(longer) = Len(s) + 1 /\ Len(s) \in Nat
      /\ \A i \in 1 .. Len(s) : longer[i] = s[i]
      /\ longer[Len(s) + 1] = e /\ DOMAIN s = 1 .. Len(s)
      /\ DOMAIN longer = 1 .. Len(s) + 1
  BY <1>2, AppendProperties, LenProperties
<1>4. Front(longer) = s
  <2>1. Front(longer) = SubSeq(longer, 1, Len(s))
    BY <1>3 DEF Front
  <2>. QED BY <1>2, <1>3, <2>1
<1>5. longer # <<>>
  BY <1>3, EmptySeq
<1>. QED BY <1>3, <1>4, <1>5 DEF IsSequence

(***************************************************************************)
(* The shape of a reachable state.                                         *)
(***************************************************************************)
Idle ==
  /\ phase = "match" /\ remaining = <<>> /\ matched_rule_ids = <<>> /\ rule_traces = <<>>
  /\ resolved = <<>> /\ assigned_values = NothingAssigned /\ assignment_events = <<>>

SequencesOK ==
  /\ remaining \in Seq(ruleset)
  /\ IsSequence(matched_rule_ids) /\ IsSequence(rule_traces)
  /\ IsSequence(resolved) /\ IsSequence(assignment_events)

Shape ==
  /\ <<ruleset, row>> \in Inputs
  /\ mode \in Modes \cup {NoId}
  /\ phase \in {"match", "resolve"}
  /\ SequencesOK
  /\ phase = "resolve" => mode # NoId /\ remaining # <<>> /\ Len(resolved) <= Len(Rule.assignments)
  /\ phase = "match" => resolved = <<>>
  /\ mode = NoId => Idle
  /\ ~Audited => rule_traces = <<>> /\ assignment_events = <<>>
  /\ assigned_values = [t \in Targets |-> assigned_values[t]]
  /\ payload = [m \in Modes |-> payload[m]]
  /\ \A m \in Modes : payload[m].status \in {"none", "success", "error"}

(* The ruleset is well formed, and so is the rule at hand.                 *)
LEMMA RulesetOK ==
  ASSUME Shape
  PROVE  /\ WellFormedRuleset(ruleset)
         /\ remaining # <<>> =>
              /\ Rule \in ruleset /\ WellFormedRule(Rule)
              /\ IsSequence(Rule.assignments)
              /\ Tail(remaining) \in Seq(ruleset)
<1>1. PICK input : input = <<ruleset, row>>
  OBVIOUS
<1>2. input[1] = ruleset /\ input \in Inputs
  BY <1>1 DEF Shape
<1>3. WellFormedRuleset(ruleset)
  BY <1>2, InputsAssumption
<1>4. ASSUME remaining # <<>>
      PROVE  Rule \in ruleset /\ Tail(remaining) \in Seq(ruleset)
  BY <1>4, HeadTailProperties DEF Shape, SequencesOK, Rule
<1>. QED BY <1>3, <1>4 DEF WellFormedRuleset, WellFormedRule, IsSequence

(* The worker starts in that shape.                                        *)
LEMMA InitShape == Init => Shape
<1> SUFFICES ASSUME Init PROVE Shape
  OBVIOUS
<1>1. <<ruleset, row>> \in Inputs
  BY InputsAssumption DEF Init
<1>2. SequencesOK
  BY EmptySequence DEF SequencesOK, Init
<1>3. /\ mode = NoId /\ phase = "match" /\ Idle
      /\ assigned_values = NothingAssigned /\ payload = [m \in Modes |-> NoPayload]
  BY DEF Init, Idle
<1>4. ~Audited
  BY <1>3, InputsAssumption DEF Audited
<1>5. assigned_values = [t \in Targets |-> assigned_values[t]]
  BY <1>3 DEF NothingAssigned
<1>6. /\ payload = [m \in Modes |-> payload[m]]
      /\ \A m \in Modes : payload[m].status = "none"
  BY <1>3 DEF NoPayload
<1>. QED BY <1>1, <1>2, <1>3, <1>4, <1>5, <1>6 DEF Shape, Idle

(* A row that returns leaves the worker as it was before the row.          *)
LEMMA ReturnShape ==
  ASSUME Shape, mode # NoId, NEW result,
         result.status \in {"success", "error"}, Return(result)
  PROVE  Shape'
<1>1. /\ ruleset' = ruleset /\ row' = row /\ mode' = NoId /\ Idle'
      /\ payload' = [payload EXCEPT ![mode] = result]
      /\ assigned_values' = NothingAssigned
  BY DEF Return, Fresh, inputVars, Idle, NothingAssigned
<1>2. SequencesOK'
  BY <1>1, EmptySequence DEF SequencesOK, Idle
<1>3. ~Audited'
  BY <1>1, InputsAssumption DEF Audited
<1>4. assigned_values' = [t \in Targets |-> assigned_values'[t]]
  BY <1>1 DEF NothingAssigned
<1>5. /\ payload' = [m \in Modes |-> payload'[m]]
      /\ \A m \in Modes : payload'[m].status \in {"none", "success", "error"}
  BY <1>1 DEF Shape
<1>. QED BY <1>1, <1>2, <1>3, <1>4, <1>5 DEF Shape, Idle

(* The two results a row can return.                                       *)
LEMMA ResultStatus ==
  ErrorPayload.status = "error" /\ SuccessPayload.status = "success"
BY DEF ErrorPayload, SuccessPayload

(* Every step keeps the shape.                                             *)
LEMMA StepShape ==
  ASSUME Shape, Next
  PROVE  Shape'
<1>1. ASSUME NEW m \in Modes, StartRow(m) PROVE Shape'
  <2>1. Idle /\ mode = NoId /\ mode' = m /\ m # NoId
    BY <1>1, InputsAssumption DEF StartRow, Shape, Modes
  <2>2. remaining' \in Seq(ruleset)
    <3>1. remaining' = ActiveRules(ruleset)
      BY <1>1 DEF StartRow
    <3>. QED BY <3>1, RulesetOK, ActiveRulesAscend
  <2>3. SequencesOK'
    BY <1>1, <2>2 DEF SequencesOK, StartRow, Shape
  <2>. QED BY <1>1, <2>1, <2>3 DEF StartRow, Shape, Idle
<1>2. ASSUME SkipRule PROVE Shape'
  <2>1. /\ phase = "match" /\ mode # NoId /\ remaining # <<>> /\ remaining' = Tail(remaining)
        /\ UNCHANGED <<ruleset, row, mode, phase, matched_rule_ids, rule_traces, resolved,
                       assigned_values, assignment_events, payload>>
    BY <1>2 DEF SkipRule, AtRule
  <2>2. SequencesOK'
    BY <2>1, RulesetOK DEF SequencesOK, Shape
  <2>. QED BY <2>1, <2>2 DEF Shape, Audited
<1>3. ASSUME MatchRule PROVE Shape'
  <2>1. /\ phase = "match" /\ mode # NoId /\ remaining # <<>> /\ phase' = "resolve"
        /\ matched_rule_ids' = Append(matched_rule_ids, Rule.rule_id)
        /\ UNCHANGED <<ruleset, row, mode, remaining, resolved, assigned_values,
                       assignment_events, payload>>
    BY <1>3 DEF MatchRule, AtRule
  <2>2. rule_traces' = rule_traces \/ (Audited /\ \E e : rule_traces' = Append(rule_traces, e))
    BY <1>3 DEF MatchRule
  <2>3. IsSequence(matched_rule_ids') /\ IsSequence(rule_traces')
    BY <2>1, <2>2, AppendFacts DEF Shape, SequencesOK
  <2>4. SequencesOK'
    BY <2>1, <2>3 DEF SequencesOK, Shape
  <2>5. Rule' = Rule /\ resolved = <<>> /\ Len(resolved) <= Len(Rule.assignments)
    BY <2>1, RulesetOK, SequenceFacts, EmptySequence DEF Shape, Rule
  <2>6. ~Audited' => rule_traces' = <<>> /\ assignment_events' = <<>>
    BY <2>1, <2>2 DEF Shape, Audited
  <2>. QED BY <2>1, <2>4, <2>5, <2>6 DEF Shape
<1>4. ASSUME ResolveAssignment PROVE Shape'
  <2>1. /\ phase = "resolve" /\ mode # NoId /\ Len(resolved) < Len(Rule.assignments)
        /\ resolved' = Append(resolved, ProposedValue)
        /\ UNCHANGED <<ruleset, row, mode, remaining, phase, matched_rule_ids, rule_traces,
                       assigned_values, payload>>
    BY <1>4 DEF ResolveAssignment, Resolving
  <2>2. \/ assignment_events' = assignment_events
        \/ Audited /\ \E e : assignment_events' = Append(assignment_events, e)
    BY <1>4 DEF ResolveAssignment
  <2>3. IsSequence(resolved') /\ Len(resolved') = Len(resolved) + 1
    <3>1. PICK v, longer : longer = Append(resolved, v) /\ resolved' = longer
      BY <2>1
    <3>2. IsSequence(resolved)
      BY DEF Shape, SequencesOK
    <3>. QED BY <3>1, <3>2, AppendFacts
  <2>4. IsSequence(assignment_events')
    BY <2>2, AppendFacts DEF Shape, SequencesOK
  <2>5. SequencesOK'
    BY <2>1, <2>3, <2>4 DEF SequencesOK, Shape
  <2>6. Rule' = Rule /\ remaining # <<>> /\ Len(resolved') <= Len(Rule.assignments)
    <3>1. Len(resolved) \in Nat /\ Len(Rule.assignments) \in Nat
      BY <2>1, RulesetOK, SequenceFacts DEF Shape, SequencesOK
    <3>. QED BY <2>1, <2>3, <3>1 DEF Shape, Rule
  <2>7. ~Audited' => rule_traces' = <<>> /\ assignment_events' = <<>>
    BY <2>1, <2>2 DEF Shape, Audited
  <2>. QED BY <2>1, <2>5, <2>6, <2>7 DEF Shape
<1>5. ASSUME CommitRule PROVE Shape'
  <2>1. /\ mode # NoId /\ phase = "resolve" /\ phase' = "match" /\ resolved' = <<>>
        /\ assigned_values' = Committed /\ remaining' = RulesAfter(Rule)
        /\ UNCHANGED <<ruleset, row, mode, matched_rule_ids, rule_traces, assignment_events,
                       payload>>
    BY <1>5 DEF CommitRule
  <2>2. remaining' \in Seq(ruleset)
    BY <2>1, RulesetOK, EmptySeq DEF RulesAfter, Shape
  <2>3. SequencesOK'
    BY <2>1, <2>2, EmptySequence DEF SequencesOK, Shape
  <2>4. assigned_values' = [t \in Targets |-> assigned_values'[t]]
    BY <2>1 DEF Committed
  <2>. QED BY <2>1, <2>3, <2>4 DEF Shape, Audited
<1>6. ASSUME RowRaises PROVE Shape'
  BY <1>6, ReturnShape, ResultStatus DEF RowRaises, AtRule, Resolving
<1>7. ASSUME FinishRow PROVE Shape'
  BY <1>7, ReturnShape, ResultStatus DEF FinishRow
<1>. QED BY <1>1, <1>2, <1>3, <1>4, <1>5, <1>6, <1>7 DEF Next, Step

(***************************************************************************)
(* Every value held is one its target can store.                           *)
(***************************************************************************)
LEMMA MaxFacts ==
  ASSUME NEW n \in Nat, NEW S \in SUBSET (1 .. n), S # {}, NEW m, m = Max(S)
  PROVE  m \in S /\ \A k \in S : k <= m
<1>1. \E x \in S : \A k \in S : x >= k
  <2>1. PICK x \in S : \A k \in S : k <= x
    BY Greatest
  <2>2. \A k \in S : x >= k
    BY <2>1
  <2>. QED BY <2>2
<1>2. m \in S /\ \A k \in S : m >= k
  BY <1>1 DEF Max
<1>. QED BY <1>2

(* The minimum of positions.                                               *)
LEMMA MinFacts ==
  ASSUME NEW n \in Nat, NEW S \in SUBSET (1 .. n), S # {}, NEW m, m = Min(S)
  PROVE  m \in S /\ \A k \in S : m <= k
<1>1. \E x \in S : \A k \in S : x <= k
  <2>1. S \in SUBSET Nat
    OBVIOUS
  <2>. QED BY <2>1, Least
<1>. QED BY <1>1 DEF Min

(* What has been stored in a type stays the same when it is stored again.  *)
LEMMA Retyped ==
  ASSUME NEW t \in Targets, NEW v, NEW w, w = SparkAssignmentValue(v, t)
  PROVE  SparkAssignmentValue(w, t) = w
<1>1. TargetType[t] \in {"string", "integral", "double", "boolean"}
  BY InputsAssumption
<1>2. CASE v \in {Null, Raised}
  BY <1>2 DEF SparkAssignmentValue
<1>3. CASE v \notin {Null, Raised} /\ w \in {Null, Raised}
  BY <1>3 DEF SparkAssignmentValue
<1>4. CASE v \notin {Null, Raised} /\ w \notin {Null, Raised}
  <2>1. CASE TargetType[t] = "string"
    <3>1. w = TraceText(v) /\ SparkAssignmentValue(w, t) = TraceText(w)
      BY <1>4, <2>1 DEF SparkAssignmentValue
    <3>2. TraceText(w) = w
      BY <3>1 DEF TraceText, Numeral, NonfiniteText, Word
    <3>. QED BY <3>1, <3>2
  <2>2. CASE TargetType[t] = "integral"
    <3>1. w = SparkIntegralValue(v) /\ SparkAssignmentValue(w, t) = SparkIntegralValue(w)
      BY <1>4, <2>2 DEF SparkAssignmentValue
    <3>2. /\ v.at % Unit = 0 /\ w = Number(v.at)
          /\ v.at \in -(IntegralMax + 1) * Unit .. IntegralMax * Unit
      BY <1>4, <3>1 DEF SparkIntegralValue
    <3>3. w.kind \in Numeric /\ w.at = v.at
      BY <3>2 DEF Number, Numeric
    <3>. QED BY <3>1, <3>2, <3>3 DEF SparkIntegralValue
  <2>3. CASE TargetType[t] = "double"
    <3>1. w = SparkFloatValue(v) /\ SparkAssignmentValue(w, t) = SparkFloatValue(w)
      BY <1>4, <2>3 DEF SparkAssignmentValue
    <3>2. \E a : w = Number(a)
      BY <1>4, <3>1 DEF SparkFloatValue
    <3>. QED BY <3>1, <3>2 DEF SparkFloatValue, Number, Numeric
  <2>4. CASE TargetType[t] = "boolean"
    <3>1. w = SparkBooleanValue(v) /\ SparkAssignmentValue(w, t) = SparkBooleanValue(w)
      BY <1>4, <2>4 DEF SparkAssignmentValue
    <3>2. v.at \in {0, 1} /\ w = Bool(v.at)
      BY <1>4, <3>1 DEF SparkBooleanValue
    <3>. QED BY <3>1, <3>2 DEF SparkBooleanValue, Bool
  <2>. QED BY <1>1, <2>1, <2>2, <2>3, <2>4
<1>. QED BY <1>2, <1>3, <1>4

(* What a rule commits to a target: the value of the one assignment to it  *)
(* or, without one, what was there.                                        *)
LEMMA CommittedFacts ==
  ASSUME Shape, phase = "resolve", NEW t \in Targets
  PROVE  \/ /\ \A i \in DOMAIN resolved : Rule.assignments[i].target_field # t
            /\ Committed[t] = assigned_values[t]
         \/ \E i \in DOMAIN resolved :
              /\ Rule.assignments[i].target_field = t
              /\ Committed[t] = [value |-> resolved[i], rule_id |-> Rule.rule_id,
                                 assignment_id |-> Rule.assignments[i].assignment_id]
<1> DEFINE made == {i \in DOMAIN resolved : Rule.assignments[i].target_field = t}
<1>1. Committed[t] = IF made = {} THEN assigned_values[t]
                     ELSE [value |-> resolved[Max(made)], rule_id |-> Rule.rule_id,
                           assignment_id |-> Rule.assignments[Max(made)].assignment_id]
  BY DEF Committed
<1>2. CASE made = {}
  BY <1>1, <1>2
<1>3. CASE made # {}
  <2>1. Len(resolved) \in Nat /\ DOMAIN resolved = 1 .. Len(resolved)
    BY SequenceFacts DEF Shape, SequencesOK
  <2>2. PICK i : i = Max(made)
    OBVIOUS
  <2>3. i \in made
    <3> HIDE DEF made
    <3>1. made \in SUBSET (1 .. Len(resolved))
      BY <2>1 DEF made
    <3>. QED BY <1>3, <2>1, <2>2, <3>1, MaxFacts
  <2>. QED BY <1>1, <1>3, <2>2, <2>3
<1>. QED BY <1>2, <1>3

ProposedAt(i) ==
  SparkAssignmentValue(Resolve(Rule.assignments[i].value, row, assigned_values),
                       Rule.assignments[i].target_field)

Snapshot == \A i \in DOMAIN resolved : resolved[i] = ProposedAt(i) /\ resolved[i] # Raised

ValuesTyped ==
  \A t \in Targets :
    /\ assigned_values[t].value # Raised
    /\ SparkAssignmentValue(assigned_values[t].value, t) = assigned_values[t].value
    /\ IsAssigned(assigned_values, t) <=> assigned_values[t].assignment_id # NoId

(* Nothing assigned is well typed.                                         *)
LEMMA NothingTyped == assigned_values = NothingAssigned => ValuesTyped
BY DEF NothingAssigned, Unassigned, ValuesTyped, IsAssigned, SparkAssignmentValue, Null, Raised

(* The worker starts holding nothing.                                      *)
LEMMA InitHeld == Init => Snapshot /\ ValuesTyped
BY NothingTyped, EmptySequence DEF Init, Snapshot

(* Every step keeps the values held typed, and those of a rule taken from  *)
(* one snapshot.                                                           *)
LEMMA StepHeld ==
  ASSUME Shape, Snapshot, ValuesTyped, Next
  PROVE  Snapshot' /\ ValuesTyped'
<1>1. ASSUME UNCHANGED <<resolved, assigned_values>>, resolved = <<>>
      PROVE  Snapshot' /\ ValuesTyped'
  BY <1>1, EmptySequence DEF Snapshot, ValuesTyped, IsAssigned
<1>2. ASSUME NEW m \in Modes, StartRow(m) PROVE Snapshot' /\ ValuesTyped'
  BY <1>1, <1>2 DEF StartRow, Shape, Idle
<1>3. ASSUME SkipRule PROVE Snapshot' /\ ValuesTyped'
  BY <1>1, <1>3 DEF SkipRule, AtRule, Shape
<1>4. ASSUME MatchRule PROVE Snapshot' /\ ValuesTyped'
  BY <1>1, <1>4 DEF MatchRule, AtRule, Shape
<1>5. ASSUME ResolveAssignment PROVE Snapshot' /\ ValuesTyped'
  <2>1. /\ resolved' = Append(resolved, ProposedValue) /\ ProposedValue # Raised
        /\ UNCHANGED <<row, remaining, assigned_values>>
    BY <1>5 DEF ResolveAssignment, AssignmentRaises
  <2>2. ProposedValue = ProposedAt(Len(resolved) + 1)
    BY DEF ProposedValue, ProposedAt, Assignment
  <2>3. \A i : ProposedAt(i)' = ProposedAt(i)
    BY <2>1 DEF ProposedAt, Rule
  <2>4. PICK value : value = ProposedValue
    OBVIOUS
  <2>5. PICK longer : longer = Append(resolved, value)
    OBVIOUS
  <2>6. /\ DOMAIN longer = (DOMAIN resolved) \cup {Len(resolved) + 1}
        /\ \A i \in DOMAIN resolved : longer[i] = resolved[i]
        /\ longer[Len(resolved) + 1] = value
    BY <2>5, AppendFacts DEF Shape, SequencesOK
  <2>7. ASSUME NEW i \in DOMAIN longer PROVE longer[i] = ProposedAt(i) /\ longer[i] # Raised
    BY <2>1, <2>2, <2>4, <2>6 DEF Snapshot
  <2>8. resolved' = longer
    BY <2>1, <2>4, <2>5
  <2>9. Snapshot'
    BY <2>3, <2>7, <2>8 DEF Snapshot
  <2>. QED BY <2>1, <2>9 DEF ValuesTyped, IsAssigned
<1>6. ASSUME CommitRule PROVE Snapshot' /\ ValuesTyped'
  <2>1. phase = "resolve" /\ assigned_values' = Committed /\ resolved' = <<>>
    BY <1>6 DEF CommitRule
  <2>2. WellFormedRule(Rule) /\ DOMAIN resolved \subseteq DOMAIN Rule.assignments
    <3>1. /\ WellFormedRule(Rule) /\ Len(resolved) = Len(Rule.assignments)
      BY <1>6, <2>1, RulesetOK DEF Shape, CommitRule
    <3>. QED BY <2>1, <3>1, RulesetOK, SequenceFacts DEF Shape, SequencesOK
  <2>3. ASSUME NEW t \in Targets
        PROVE  /\ Committed[t].value # Raised
               /\ SparkAssignmentValue(Committed[t].value, t) = Committed[t].value
               /\ Committed[t].rule_id # NoId <=> Committed[t].assignment_id # NoId
    <3>1. CASE Committed[t] = assigned_values[t]
      BY <3>1 DEF ValuesTyped, IsAssigned
    <3>2. ASSUME NEW i \in DOMAIN resolved, Rule.assignments[i].target_field = t,
                 Committed[t] = [value |-> resolved[i], rule_id |-> Rule.rule_id,
                                 assignment_id |-> Rule.assignments[i].assignment_id]
          PROVE  /\ Committed[t].value # Raised
                 /\ SparkAssignmentValue(Committed[t].value, t) = Committed[t].value
                 /\ Committed[t].rule_id # NoId <=> Committed[t].assignment_id # NoId
      <4>1. resolved[i] = ProposedAt(i) /\ resolved[i] # Raised
        BY DEF Snapshot
      <4>2. PICK v : v = Resolve(Rule.assignments[i].value, row, assigned_values)
        OBVIOUS
      <4>3. PICK w : w = resolved[i]
        OBVIOUS
      <4>4. w = SparkAssignmentValue(v, t)
        BY <3>2, <4>1, <4>2, <4>3 DEF ProposedAt
      <4>5. SparkAssignmentValue(w, t) = w
        BY <4>4, Retyped
      <4>6. Rule.rule_id # NoId /\ Rule.assignments[i].assignment_id # NoId
        BY <2>2 DEF WellFormedRule
      <4>7. Committed[t].value = w /\ Committed[t].rule_id = Rule.rule_id
            /\ Committed[t].assignment_id = Rule.assignments[i].assignment_id
        BY <3>2, <4>3
      <4>. QED BY <4>1, <4>3, <4>5, <4>6, <4>7
    <3>. QED BY <2>1, <3>1, <3>2, CommittedFacts
  <2>. QED BY <2>1, <2>3, EmptySequence DEF Snapshot, ValuesTyped, IsAssigned
<1>7. ASSUME NEW result, Return(result) PROVE Snapshot' /\ ValuesTyped'
  <2>1. resolved' = <<>> /\ assigned_values' = NothingAssigned
    BY <1>7 DEF Return, Fresh
  <2>2. ValuesTyped'
    BY <2>1 DEF NothingAssigned, Unassigned, ValuesTyped, IsAssigned, SparkAssignmentValue, Null, Raised
  <2>. QED BY <2>1, <2>2, EmptySequence DEF Snapshot
<1>8. ASSUME RowRaises \/ FinishRow PROVE Snapshot' /\ ValuesTyped'
  BY <1>7, <1>8 DEF RowRaises, FinishRow
<1>. QED BY <1>2, <1>3, <1>4, <1>5, <1>6, <1>8 DEF Next, Step

(***************************************************************************)
(* Type correctness.                                                       *)
(***************************************************************************)
Sound == Shape /\ Snapshot /\ ValuesTyped

(* The inductive invariant of the worker.                                  *)
LEMMA SoundAlways == Spec => []Sound
<1>1. Init => Sound
  BY InitShape, InitHeld DEF Sound
<1>2. Sound /\ [Next]_vars => Sound'
  <2>1. Sound /\ Next => Sound'
    BY StepShape, StepHeld DEF Sound
  <2>2. Sound /\ UNCHANGED vars => Sound'
    <3>1. SUFFICES ASSUME Sound, UNCHANGED vars PROVE Sound'
      OBVIOUS
    <3>2. Shape'
      BY <3>1 DEF Sound, vars, Shape, SequencesOK, Idle, Rule, Audited
    <3>3. Snapshot'
      BY <3>1 DEF Sound, vars, Snapshot, ProposedAt, Rule
    <3>. QED BY <3>1, <3>2, <3>3 DEF Sound, vars, ValuesTyped, IsAssigned
  <2>. QED BY <2>1, <2>2
<1>. QED BY <1>1, <1>2, PTL DEF Spec

(* It implies the type invariant.                                          *)
LEMMA SoundTypes == Sound => TypeOK
<1> SUFFICES ASSUME Sound PROVE TypeOK
  OBVIOUS
<1>1. ToSet(remaining) \subseteq ruleset
  <2>1. remaining \in Seq(ruleset)
    BY DEF Sound, Shape, SequencesOK
  <2>. QED BY <2>1, LenProperties, ElementOfSeq DEF ToSet
<1>2. Raised \notin ToSet(resolved)
  BY DEF Sound, Snapshot, ToSet
<1>. QED BY <1>1, <1>2 DEF Sound, Shape, ValuesTyped, TypeOK

(* Every reachable state of the worker is well typed: no raised value is   *)
(* ever committed, each committed value has its producer, and assignments  *)
(* are resolved within a rule only (spark_runtime.py:355-565).             *)
THEOREM TypeCorrect == Spec => []TypeOK
BY SoundAlways, SoundTypes, PTL

(***************************************************************************)
(* A rule under way has matched, and its id is the last one recorded.      *)
(***************************************************************************)
UnderWay ==
  phase = "resolve" =>
    /\ RuleMatches(Rule, row, assigned_values) = "true"
    /\ \E front : IsSequence(front) /\ matched_rule_ids = Append(front, Rule.rule_id)

(* Source columns that are targets too hold values their type can store.   *)
SourcesFit ==
  \A input \in Inputs : \A t \in Targets \cap Fields :
    SparkAssignmentValue(input[2][t], t) # Raised

(* The audited evaluation decides a rule as the compact one does.          *)
LEMMA OutcomeIsSilent ==
  ASSUME Shape, remaining # <<>>
  PROVE  RuleOutcome = RuleMatches(Rule, row, assigned_values)
<1>1. PICK rule : rule = Rule
  OBVIOUS
<1>2. PICK committed : committed = assigned_values
  OBVIOUS
<1>3. PICK source : source = row
  OBVIOUS
<1>4. WellFormedGroups(rule.groups)
  BY <1>1, RulesetOK DEF WellFormedRule
<1>5. EvaluateRule(rule, source, committed).outcome = RuleMatches(rule, source, committed)
  BY <1>4, EvaluatorsAgree
<1>6. EvaluateRule(Rule, row, assigned_values).outcome = RuleMatches(Rule, row, assigned_values)
  BY <1>1, <1>2, <1>3, <1>5
<1>. QED BY <1>6 DEF RuleOutcome

(* When source columns fit their targets, the value an assignment replaces *)
(* never raises.                                                           *)
LEMMA OldValueStored ==
  ASSUME Sound, SourcesFit, Resolving
  PROVE  OldValue # Raised
<1>1. Assignment.target_field \in Targets
  <2>1. /\ remaining # <<>> /\ Len(resolved) < Len(Rule.assignments)
    BY DEF Resolving, Sound, Shape
  <2>2. Len(resolved) + 1 \in DOMAIN Rule.assignments
    BY <2>1, RulesetOK, SequenceFacts DEF Sound, Shape, SequencesOK
  <2>. QED BY <2>1, <2>2, RulesetOK DEF Sound, WellFormedRule, Assignment
<1>2. PICK t \in Targets : t = Assignment.target_field
  BY <1>1
<1>3. CASE IsAssigned(assigned_values, t)
  BY <1>2, <1>3 DEF OldValue, Sound, ValuesTyped
<1>4. CASE ~IsAssigned(assigned_values, t) /\ t \in Fields
  <2>1. PICK input \in Inputs : input = <<ruleset, row>>
    BY DEF Sound, Shape
  <2>2. SparkAssignmentValue(row[t], t) # Raised
    BY <1>4, <2>1 DEF SourcesFit
  <2>. QED BY <1>2, <1>4, <2>2 DEF OldValue
<1>5. CASE ~IsAssigned(assigned_values, t) /\ t \notin Fields
  BY <1>2, <1>5 DEF OldValue, SparkAssignmentValue, Null, Raised
<1>. QED BY <1>3, <1>4, <1>5

(* Every step keeps the rule under way the last one recorded.              *)
LEMMA StepUnderWay ==
  ASSUME Sound, UnderWay, Next
  PROVE  UnderWay'
<1>1. ASSUME phase' = "match" PROVE UnderWay'
  BY <1>1 DEF UnderWay
<1>2. ASSUME NEW m \in Modes, StartRow(m) PROVE UnderWay'
  BY <1>1, <1>2 DEF StartRow, Sound, Shape, Idle
<1>3. ASSUME SkipRule PROVE UnderWay'
  BY <1>1, <1>3 DEF SkipRule, AtRule
<1>4. ASSUME MatchRule PROVE UnderWay'
  <2>1. /\ remaining # <<>> /\ RuleOutcome = "true"
        /\ matched_rule_ids' = Append(matched_rule_ids, Rule.rule_id)
        /\ row' = row /\ assigned_values' = assigned_values /\ Rule' = Rule
    BY <1>4 DEF MatchRule, AtRule, Rule
  <2>2. RuleMatches(Rule, row, assigned_values) = "true"
    BY <2>1, OutcomeIsSilent DEF Sound
  <2>3. \E front : IsSequence(front) /\ matched_rule_ids' = Append(front, Rule.rule_id)
    BY <2>1 DEF Sound, Shape, SequencesOK
  <2>. QED BY <2>1, <2>2, <2>3 DEF UnderWay
<1>5. ASSUME ResolveAssignment PROVE UnderWay'
  <2>1. /\ phase' = phase /\ matched_rule_ids' = matched_rule_ids
        /\ row' = row /\ assigned_values' = assigned_values /\ Rule' = Rule
    BY <1>5 DEF ResolveAssignment, Rule
  <2>. QED BY <2>1 DEF UnderWay
<1>6. ASSUME CommitRule PROVE UnderWay'
  BY <1>1, <1>6 DEF CommitRule
<1>7. ASSUME RowRaises \/ FinishRow PROVE UnderWay'
  BY <1>1, <1>7 DEF RowRaises, FinishRow, Return, Fresh
<1>. QED BY <1>2, <1>3, <1>4, <1>5, <1>6, <1>7 DEF Next, Step

(***************************************************************************)
(* The worker decides a row as RowDecision does.                           *)
(***************************************************************************)
LEMMA DecisionStarts == Init => Decision!DecisionInit
<1> SUFFICES ASSUME Init PROVE Decision!DecisionInit
  OBVIOUS
<1>1. [m \in Modes |-> DecisionOf(payload[m])] = [m \in Modes |-> Decision!Undecided]
  BY DEF Init, DecisionOf, NoPayload, Decision!Undecided
<1>. QED BY <1>1 DEF Init, Decision!DecisionInit, Decision!NothingCommitted, NothingAssigned

(* Returning a result is taking one decision, and leaves nothing of the    *)
(* row behind.                                                             *)
LEMMA ResultsDecide ==
  ASSUME Shape, mode # NoId, NEW result, Return(result)
  PROVE  /\ [m \in Modes |-> DecisionOf(payload'[m])] =
              [[m \in Modes |-> DecisionOf(payload[m])] EXCEPT ![mode] = DecisionOf(result)]
         /\ mode' = NoId /\ remaining' = <<>> /\ phase' = "match" /\ matched_rule_ids' = <<>>
         /\ assigned_values' = [t \in Targets |-> Unassigned]
         /\ ruleset' = ruleset /\ row' = row
<1>1. /\ payload' = [payload EXCEPT ![mode] = result] /\ mode \in Modes
      /\ payload = [m \in Modes |-> payload[m]]
  BY DEF Return, Shape
<1>2. \A m \in Modes : payload'[m] = IF m = mode THEN result ELSE payload[m]
  BY <1>1
<1>3. \A m \in Modes : DecisionOf(payload'[m]) =
        IF m = mode THEN DecisionOf(result) ELSE DecisionOf(payload[m])
  BY <1>2
<1>. QED BY <1>1, <1>3 DEF Return, Fresh, NothingAssigned, inputVars

(* Starting a row starts its decision.                                     *)
LEMMA RowStarts ==
  ASSUME Sound, NEW m \in Modes, StartRow(m)
  PROVE  Decision!StartDecision(m)
<1>1. /\ mode = NoId /\ mode' = m /\ remaining' = ActiveRules(ruleset) /\ Idle
      /\ phase' = phase /\ matched_rule_ids' = matched_rule_ids
      /\ UNCHANGED <<ruleset, row, payload, assigned_values>> /\ payload[m] = NoPayload
  BY DEF StartRow, Sound, Shape
<1>2. DecisionOf(payload[m]) = [outcome |-> "undecided"]
  BY <1>1 DEF DecisionOf, NoPayload
<1>3. [n \in Modes |-> DecisionOf(payload[n])]' = [n \in Modes |-> DecisionOf(payload[n])]
  BY <1>1
<1>4. phase = "match" /\ phase' = "match" /\ matched_rule_ids' = <<>>
      /\ assigned_values' = [t \in Targets |-> Unassigned]
  BY <1>1 DEF Idle, NothingAssigned
<1>. QED BY <1>1, <1>2, <1>3, <1>4
     DEF Decision!StartDecision, Decision!Undecided, Decision!NothingCommitted

(* Skipping a rule skips it in the decision.                               *)
LEMMA RuleSkipped ==
  ASSUME Sound, SkipRule
  PROVE  Decision!SkipRule
<1>1. /\ mode # NoId /\ phase = "match" /\ remaining # <<>> /\ RuleOutcome = "false"
      /\ remaining' = Tail(remaining)
      /\ UNCHANGED <<ruleset, row, mode, phase, matched_rule_ids, assigned_values, payload>>
  BY DEF SkipRule, AtRule
<1>2. RuleMatches(Head(remaining), row, assigned_values) = "false"
  BY <1>1, OutcomeIsSilent DEF Sound, Rule
<1>3. [n \in Modes |-> DecisionOf(payload[n])]' = [n \in Modes |-> DecisionOf(payload[n])]
  BY <1>1
<1>. QED BY <1>1, <1>2, <1>3 DEF Decision!SkipRule

(* The ids of the rules whose assignments are committed.                   *)
DoneIds == IF phase = "resolve" THEN Front(matched_rule_ids) ELSE matched_rule_ids

(* Until it is committed, a rule under way is not counted.                 *)
LEMMA DoneIdsKept ==
  ASSUME Sound, SkipRule \/ MatchRule \/ ResolveAssignment \/ \E m \in Modes : StartRow(m)
  PROVE  DoneIds' = DoneIds
<1>1. CASE UNCHANGED <<phase, matched_rule_ids>>
  BY <1>1 DEF DoneIds
<1>2. CASE MatchRule
  <2>1. /\ phase = "match" /\ phase' = "resolve"
        /\ matched_rule_ids' = Append(matched_rule_ids, Rule.rule_id)
    BY <1>2 DEF MatchRule, AtRule
  <2>2. PICK ids : ids = matched_rule_ids
    OBVIOUS
  <2>3. PICK longer : longer = Append(ids, Rule.rule_id)
    OBVIOUS
  <2>4. Front(longer) = ids
    BY <2>2, <2>3, AppendFacts DEF Sound, Shape, SequencesOK
  <2>5. matched_rule_ids' = longer
    BY <2>1, <2>2, <2>3
  <2>6. Front(matched_rule_ids') = matched_rule_ids
    BY <2>2, <2>4, <2>5
  <2>. QED BY <2>1, <2>6 DEF DoneIds
<1>. QED BY <1>1, <1>2 DEF SkipRule, ResolveAssignment, StartRow

(* Matching a rule and resolving its assignments decide nothing yet.       *)
LEMMA RuleMatched ==
  ASSUME Sound, MatchRule \/ ResolveAssignment
  PROVE  UNCHANGED Decision!decisionVars
<1>1. UNCHANGED <<ruleset, row, mode, remaining, assigned_values, payload>>
  BY DEF MatchRule, ResolveAssignment
<1>2. [n \in Modes |-> DecisionOf(payload[n])]' = [n \in Modes |-> DecisionOf(payload[n])]
  BY <1>1
<1>3. DoneIds' = DoneIds
  BY DoneIdsKept
<1>. QED BY <1>1, <1>2, <1>3 DEF Decision!decisionVars, DoneIds

(* Committing a rule counts it.                                            *)
LEMMA DoneIdsCommitted ==
  ASSUME Sound, UnderWay, CommitRule
  PROVE  IsSequence(DoneIds) /\ DoneIds' = Append(DoneIds, Rule.rule_id)
<1>1. phase = "resolve" /\ phase' = "match" /\ matched_rule_ids' = matched_rule_ids
  BY DEF CommitRule
<1>2. PICK front : IsSequence(front) /\ matched_rule_ids = Append(front, Rule.rule_id)
  BY <1>1 DEF UnderWay
<1>3. PICK ids : ids = matched_rule_ids
  OBVIOUS
<1>4. Front(ids) = front
  BY <1>2, <1>3, AppendFacts
<1>. QED BY <1>1, <1>2, <1>3, <1>4 DEF DoneIds

(* Committing a rule applies it in the decision, all its assignments at    *)
(* once.                                                                   *)
LEMMA RuleApplied ==
  ASSUME Sound, UnderWay, CommitRule
  PROVE  Decision!ApplyRule
<1>1. /\ mode # NoId /\ phase = "resolve" /\ Len(resolved) = Len(Rule.assignments)
      /\ assigned_values' = Committed /\ phase' = "match" /\ remaining' = RulesAfter(Rule)
      /\ UNCHANGED <<ruleset, row, mode, matched_rule_ids, payload>>
      /\ remaining # <<>>
  BY DEF CommitRule, Sound, Shape
<1>2. DOMAIN resolved = DOMAIN Rule.assignments /\ WellFormedRule(Rule)
  BY <1>1, RulesetOK, SequenceFacts DEF Sound, Shape, SequencesOK
<1>3. \A i \in DOMAIN Rule.assignments :
        /\ Decision!Proposed(Rule, i) = resolved[i] /\ Decision!Proposed(Rule, i) # Raised
  BY <1>2 DEF Sound, Snapshot, ProposedAt, Decision!Proposed
<1>4. RuleMatches(Rule, row, assigned_values) = "true" /\ ~Decision!RuleRaises(Rule)
  BY <1>1, <1>3 DEF UnderWay, Decision!RuleRaises
<1>5. assigned_values' = Decision!CommittedBy(Rule)
  <2>1. ASSUME NEW t \in Targets PROVE Committed[t] = Decision!CommittedBy(Rule)[t]
    <3>1. CASE \A i \in DOMAIN resolved : Rule.assignments[i].target_field # t
      <4>1. Committed[t] = assigned_values[t]
        BY <1>1, <3>1, CommittedFacts DEF Sound
      <4>2. ~\E i \in DOMAIN Rule.assignments : Rule.assignments[i].target_field = t
        BY <1>2, <3>1
      <4>. QED BY <4>1, <4>2 DEF Decision!CommittedBy
    <3>2. ASSUME NEW i \in DOMAIN resolved, Rule.assignments[i].target_field = t,
                 Committed[t] = [value |-> resolved[i], rule_id |-> Rule.rule_id,
                                 assignment_id |-> Rule.assignments[i].assignment_id]
          PROVE  Committed[t] = Decision!CommittedBy(Rule)[t]
      <4>1. \A j \in DOMAIN Rule.assignments : Rule.assignments[j].target_field = t => j = i
        BY <1>2, <3>2 DEF WellFormedRule
      <4>2. (CHOOSE j \in DOMAIN Rule.assignments : Rule.assignments[j].target_field = t) = i
        BY <1>2, <3>2, <4>1
      <4>3. \E j \in DOMAIN Rule.assignments : Rule.assignments[j].target_field = t
        BY <1>2, <3>2
      <4>4. Decision!CommittedBy(Rule)[t] =
              [value |-> Decision!Proposed(Rule, i), rule_id |-> Rule.rule_id,
               assignment_id |-> Rule.assignments[i].assignment_id]
        BY <4>2, <4>3 DEF Decision!CommittedBy
      <4>. QED BY <1>2, <1>3, <3>2, <4>4
    <3>. QED BY <1>1, <3>1, <3>2, CommittedFacts DEF Sound
  <2>2. /\ Committed = [t \in Targets |-> Committed[t]]
        /\ Decision!CommittedBy(Rule) = [t \in Targets |-> Decision!CommittedBy(Rule)[t]]
    BY DEF Committed, Decision!CommittedBy
  <2>. QED BY <1>1, <2>1, <2>2
<1>6. [n \in Modes |-> DecisionOf(payload[n])]' = [n \in Modes |-> DecisionOf(payload[n])]
  BY <1>1
<1>7. remaining' = IF Rule.stop_on_match THEN <<>> ELSE Tail(remaining)
  BY <1>1 DEF RulesAfter
<1>8. matched_rule_ids' = Append(Front(matched_rule_ids), Rule.rule_id)
  BY <1>1, DoneIdsCommitted DEF DoneIds
<1>. QED BY <1>1, <1>4, <1>5, <1>6, <1>7, <1>8 DEF Decision!ApplyRule, Rule

(* An error in a rule, or in one of its assignments, fails the decision.   *)
LEMMA RowFailed ==
  ASSUME Sound, UnderWay, Audited => SourcesFit, RowRaises
  PROVE  Decision!FailRow
<1>1. mode # NoId /\ remaining # <<>> /\ Return(ErrorPayload)
  BY DEF RowRaises, AtRule, Resolving, Sound, Shape
<1>2. Decision!RuleRaises(Rule)
  <2>1. CASE AtRule /\ RuleOutcome = "raised"
    BY <1>1, <2>1, OutcomeIsSilent DEF Sound, Decision!RuleRaises
  <2>2. CASE Resolving /\ AssignmentRaises
    <3>1. /\ ProposedValue = Raised
          /\ phase = "resolve" /\ Len(resolved) < Len(Rule.assignments)
      BY <2>2, OldValueStored DEF AssignmentRaises, Resolving
    <3>2. Len(resolved) + 1 \in DOMAIN Rule.assignments
      BY <1>1, <3>1, RulesetOK, SequenceFacts DEF Sound, Shape, SequencesOK
    <3>3. Decision!Proposed(Rule, Len(resolved) + 1) = Raised
      BY <3>1 DEF Decision!Proposed, ProposedValue, Assignment
    <3>. QED BY <3>1, <3>2, <3>3 DEF UnderWay, Decision!RuleRaises
  <2>. QED BY <2>1, <2>2 DEF RowRaises
<1>3. DecisionOf(ErrorPayload) = Decision!Failed
  BY ResultStatus DEF DecisionOf, Decision!Failed
<1>. QED BY <1>1, <1>2, <1>3, ResultsDecide
     DEF Decision!FailRow, Decision!Conclude, Decision!NothingCommitted, Sound, Rule

(* The end of the rules ends the decision.                                 *)
LEMMA RowFinished ==
  ASSUME Sound, FinishRow
  PROVE  Decision!FinishRow
<1>1. mode # NoId /\ phase = "match" /\ remaining = <<>> /\ Return(SuccessPayload)
  BY DEF FinishRow
<1>2. DecisionOf(SuccessPayload) = Decision!Decided(matched_rule_ids, assigned_values)
  BY DEF DecisionOf, SuccessPayload, Decision!Decided, AssignPayload
<1>. QED BY <1>1, <1>2, ResultsDecide
     DEF Decision!FinishRow, Decision!Conclude, Decision!NothingCommitted, Sound

(* Every step of the worker is a step of the decision, or none.            *)
LEMMA StepDecides ==
  ASSUME Sound, UnderWay, SourcesFit, [Next]_vars
  PROVE  [Decision!DecisionNext]_(Decision!decisionVars)
<1>1. CASE UNCHANGED vars
  <2>1. UNCHANGED <<ruleset, row, mode, remaining, phase, matched_rule_ids, assigned_values, payload>>
    BY <1>1 DEF vars
  <2>2. [n \in Modes |-> DecisionOf(payload[n])]' = [n \in Modes |-> DecisionOf(payload[n])]
    BY <2>1
  <2>. QED BY <2>1, <2>2 DEF Decision!decisionVars
<1>2. CASE Next
  BY <1>2, RowStarts, RuleSkipped, RuleMatched, RuleApplied, RowFailed, RowFinished
     DEF Next, Step, Decision!DecisionNext
<1>. QED BY <1>1, <1>2

(* Where no source column raises when it is typed as the target it also    *)
(* is, the Spark worker implements the row decision: rule by rule, each    *)
(* from one snapshot and all or nothing (spark_runtime.py:355-565).        *)
THEOREM WorkerDecides ==
  ASSUME SourcesFit
  PROVE  Spec => ImplementsDecision
<1>1. Init => UnderWay
  BY DEF Init, UnderWay
<1>2. Sound /\ UnderWay /\ [Next]_vars => UnderWay'
  <2>1. Sound /\ UnderWay /\ UNCHANGED vars => UnderWay'
    BY DEF UnderWay, vars, Rule
  <2>. QED BY <2>1, StepUnderWay
<1>3. Sound /\ UnderWay /\ [Next]_vars => [Decision!DecisionNext]_(Decision!decisionVars)
  BY StepDecides
<1>. QED BY <1>1, <1>2, <1>3, SoundAlways, DecisionStarts, PTL
     DEF Spec, ImplementsDecision, Decision!DecisionSpec

(***************************************************************************)
(* What is applied and what is reported as matched go together.            *)
(***************************************************************************)
AssignedBy(ids, t) == \E k \in DOMAIN ids : Assigns(RuleWithId(ids[k]), t)

AppliedSoFar == \A t \in Targets : IsAssigned(assigned_values, t) <=> AssignedBy(DoneIds, t)

(* A rule id names one rule.                                               *)
LEMMA RuleOfId ==
  ASSUME Shape, NEW r \in ruleset
  PROVE  RuleWithId(r.rule_id) = r
BY RulesetOK DEF WellFormedRuleset, RuleWithId

(* A rule assigns a target at some position of its assignments.            *)
LEMMA AssignsAt ==
  ASSUME NEW rule, NEW t
  PROVE  Assigns(rule, t) <=> \E i \in DOMAIN rule.assignments : rule.assignments[i].target_field = t
BY DEF Assigns, ToSet

(* Every step keeps the targets assigned those of the rules done.          *)
LEMMA StepApplied ==
  ASSUME Sound, UnderWay, AppliedSoFar, Next
  PROVE  AppliedSoFar'
<1>1. ruleset' = ruleset
  BY DEF Next, Step, StartRow, SkipRule, MatchRule, ResolveAssignment, CommitRule, RowRaises,
         FinishRow, Return, inputVars
<1>2. CASE SkipRule \/ MatchRule \/ ResolveAssignment \/ \E m \in Modes : StartRow(m)
  <2>1. DoneIds' = DoneIds /\ assigned_values' = assigned_values
    BY <1>2, DoneIdsKept DEF SkipRule, MatchRule, ResolveAssignment, StartRow
  <2>. QED BY <1>1, <2>1 DEF AppliedSoFar, AssignedBy, IsAssigned, RuleWithId
<1>3. CASE CommitRule
  <2>1. /\ phase = "resolve" /\ remaining # <<>> /\ Len(resolved) = Len(Rule.assignments)
        /\ assigned_values' = Committed
    BY <1>3 DEF CommitRule, Sound, Shape
  <2>2. /\ DOMAIN resolved = DOMAIN Rule.assignments
        /\ Rule.rule_id # NoId /\ RuleWithId(Rule.rule_id) = Rule
    BY <2>1, RulesetOK, RuleOfId, SequenceFacts DEF Sound, Shape, SequencesOK, WellFormedRule
  <2>3. PICK ids : ids = DoneIds
    OBVIOUS
  <2>4. PICK id : id = Rule.rule_id
    OBVIOUS
  <2>5. PICK longer : longer = Append(ids, id)
    OBVIOUS
  <2>6. /\ DOMAIN longer = (DOMAIN ids) \cup {Len(ids) + 1} /\ DoneIds' = longer
        /\ \A k \in DOMAIN ids : longer[k] = ids[k]
        /\ longer[Len(ids) + 1] = id
    BY <1>3, <2>3, <2>4, <2>5, DoneIdsCommitted, AppendFacts
  <2>7. ASSUME NEW t \in Targets
        PROVE  AssignedBy(longer, t) <=> AssignedBy(ids, t) \/ Assigns(Rule, t)
    BY <2>2, <2>4, <2>6 DEF AssignedBy
  <2>8. ASSUME NEW t \in Targets
        PROVE  Committed[t].rule_id # NoId <=> IsAssigned(assigned_values, t) \/ Assigns(Rule, t)
    <3>1. CASE Committed[t] = assigned_values[t]
               /\ \A i \in DOMAIN resolved : Rule.assignments[i].target_field # t
      BY <2>2, <3>1, AssignsAt DEF IsAssigned
    <3>2. CASE \E i \in DOMAIN resolved :
                 /\ Rule.assignments[i].target_field = t
                 /\ Committed[t].rule_id = Rule.rule_id
      BY <2>2, <3>2, AssignsAt
    <3>3. PICK new : new = Committed[t]
      OBVIOUS
    <3>4. \/ /\ \A i \in DOMAIN resolved : Rule.assignments[i].target_field # t
             /\ new = assigned_values[t]
          \/ \E i \in DOMAIN resolved :
               /\ Rule.assignments[i].target_field = t
               /\ new = [value |-> resolved[i], rule_id |-> Rule.rule_id,
                         assignment_id |-> Rule.assignments[i].assignment_id]
      BY <2>1, <3>3, CommittedFacts DEF Sound
    <3>5. \/ /\ \A i \in DOMAIN resolved : Rule.assignments[i].target_field # t
             /\ new = assigned_values[t]
          \/ \E i \in DOMAIN resolved :
               Rule.assignments[i].target_field = t /\ new.rule_id = Rule.rule_id
      BY <3>4
    <3>. QED BY <3>1, <3>2, <3>3, <3>5
  <2>9. \A t \in Targets : AssignedBy(longer, t)' <=> AssignedBy(longer, t)
    BY <1>1 DEF AssignedBy, RuleWithId
  <2>10. \A t \in Targets : IsAssigned(assigned_values, t)' <=> Committed[t].rule_id # NoId
    BY <2>1 DEF IsAssigned
  <2>11. ASSUME NEW t \in Targets
         PROVE  IsAssigned(assigned_values, t)' <=> AssignedBy(DoneIds, t)'
    <3>1. IsAssigned(assigned_values, t) <=> AssignedBy(ids, t)
      BY <2>3 DEF AppliedSoFar
    <3>2. AssignedBy(DoneIds, t)' <=> AssignedBy(longer, t)
      BY <1>1, <2>6 DEF AssignedBy, RuleWithId
    <3>. QED BY <2>7, <2>8, <2>10, <3>1, <3>2
  <2>. QED BY <2>11 DEF AppliedSoFar
<1>4. CASE RowRaises \/ FinishRow
  <2>1. phase' = "match" /\ matched_rule_ids' = <<>> /\ assigned_values' = NothingAssigned
    BY <1>4 DEF RowRaises, FinishRow, Return, Fresh
  <2>. QED BY <2>1, EmptySequence
       DEF AppliedSoFar, AssignedBy, DoneIds, IsAssigned, NothingAssigned, Unassigned
<1>. QED BY <1>2, <1>3, <1>4 DEF Next, Step

(* A ruleset assigns only known targets.                                   *)
LEMMA TargetsAssigned ==
  ASSUME Shape
  PROVE  AssignmentTargets(ruleset) \subseteq Targets
<1>1. SUFFICES ASSUME NEW r \in ruleset, NEW a \in ToSet(r.assignments)
               PROVE  a.target_field \in Targets
  BY DEF AssignmentTargets
<1>2. PICK i \in DOMAIN r.assignments : a = r.assignments[i]
  BY DEF ToSet
<1>. QED BY <1>2, RulesetOK DEF WellFormedRuleset, WellFormedRule

(* The returned result applies the targets of the matched rules, an error  *)
(* none.                                                                   *)
LEMMA ReturnedApplied ==
  ASSUME Sound, UnderWay, AppliedSoFar, AppliedByMatched, Next
  PROVE  AppliedByMatched'
<1>1. ruleset' = ruleset
  BY DEF Next, Step, StartRow, SkipRule, MatchRule, ResolveAssignment, CommitRule, RowRaises,
         FinishRow, Return, inputVars
<1>2. ASSUME payload' = payload PROVE AppliedByMatched'
  BY <1>1, <1>2 DEF AppliedByMatched, Finished, RuleWithId, AssignmentTargets
<1>3. ASSUME NEW result, mode # NoId, Return(result),
             \A t \in AssignmentTargets(ruleset) :
               result.assign[t].applied <=>
                 \E id \in ToSet(result.matched_rule_ids) : Assigns(RuleWithId(id), t)
      PROVE  AppliedByMatched'
  <2>1. /\ payload' = [payload EXCEPT ![mode] = result] /\ mode \in Modes
        /\ payload = [m \in Modes |-> payload[m]]
    BY <1>3 DEF Return, Sound, Shape
  <2>2. \A m \in Modes : payload'[m] = IF m = mode THEN result ELSE payload[m]
    BY <2>1
  <2>3. \A id : RuleWithId(id)' = RuleWithId(id)
    BY <1>1 DEF RuleWithId
  <2>4. ASSUME NEW m \in Modes, payload'[m].status # "none", NEW t \in AssignmentTargets(ruleset)
        PROVE  payload'[m].assign[t].applied <=>
                 \E id \in ToSet(payload'[m].matched_rule_ids) : Assigns(RuleWithId(id), t)
    <3>1. CASE m = mode
      BY <1>3, <2>2, <3>1
    <3>2. CASE m # mode
      <4>1. payload'[m] = payload[m]
        BY <2>2, <3>2
      <4>. QED BY <2>4, <4>1 DEF AppliedByMatched, Finished
    <3>. QED BY <3>1, <3>2
  <2>. QED BY <1>1, <2>3, <2>4 DEF AppliedByMatched, Finished
<1>4. ASSUME RowRaises PROVE AppliedByMatched'
  <2>1. mode # NoId /\ Return(ErrorPayload)
    BY <1>4 DEF RowRaises, AtRule, Resolving
  <2>2. \A t \in AssignmentTargets(ruleset) : ~ErrorPayload.assign[t].applied
    BY TargetsAssigned
       DEF Sound, ErrorPayload, AssignPayload, IsAssigned, NothingAssigned, Unassigned
  <2>3. ToSet(ErrorPayload.matched_rule_ids) = {}
    BY EmptySequence DEF ErrorPayload, ToSet
  <2>. QED BY <1>3, <2>1, <2>2, <2>3
<1>5. ASSUME FinishRow PROVE AppliedByMatched'
  <2>1. mode # NoId /\ phase = "match" /\ Return(SuccessPayload)
    BY <1>5 DEF FinishRow
  <2>2. ASSUME NEW t \in AssignmentTargets(ruleset)
        PROVE  SuccessPayload.assign[t].applied <=> AssignedBy(matched_rule_ids, t)
    BY <2>1, <2>2, TargetsAssigned
       DEF SuccessPayload, AssignPayload, Sound, AppliedSoFar, DoneIds
  <2>3. \A t : AssignedBy(matched_rule_ids, t) <=>
          \E id \in ToSet(SuccessPayload.matched_rule_ids) : Assigns(RuleWithId(id), t)
    BY DEF AssignedBy, ToSet, SuccessPayload
  <2>. QED BY <1>3, <2>1, <2>2, <2>3
<1>. QED BY <1>2, <1>4, <1>5 DEF Next, Step, StartRow, SkipRule, MatchRule, ResolveAssignment, CommitRule

(* A target of the result is applied exactly when some rule reported as    *)
(* matched assigns it: the assignments of a rule are committed together    *)
(* (spark_runtime.py:355-565).                                             *)
THEOREM MatchedApply == Spec => []AppliedByMatched
<1> DEFINE Kept == UnderWay /\ AppliedSoFar /\ AppliedByMatched
<1>1. Init => Kept
  <2>1. Init => UnderWay /\ AppliedByMatched
    BY DEF Init, UnderWay, AppliedByMatched, Finished, NoPayload
  <2>2. Init => AppliedSoFar
    BY EmptySequence DEF Init, AppliedSoFar, AssignedBy, DoneIds, IsAssigned, NothingAssigned, Unassigned
  <2>. QED BY <2>1, <2>2
<1>2. Sound /\ Kept /\ [Next]_vars => Kept'
  <2>1. Sound /\ Kept /\ Next => Kept'
    BY StepUnderWay, StepApplied, ReturnedApplied
  <2>2. Kept /\ UNCHANGED vars => Kept'
    <3>1. UnderWay /\ UNCHANGED vars => UnderWay'
      BY DEF vars, UnderWay, Rule
    <3>2. AppliedSoFar /\ UNCHANGED vars => AppliedSoFar'
      BY DEF vars, AppliedSoFar, AssignedBy, DoneIds, IsAssigned, RuleWithId
    <3>3. AppliedByMatched /\ UNCHANGED vars => AppliedByMatched'
      BY DEF vars, AppliedByMatched, Finished, RuleWithId
    <3>. QED BY <3>1, <3>2, <3>3
  <2>. QED BY <2>1, <2>2
<1>. QED BY <1>1, <1>2, SoundAlways, PTL DEF Spec

(***************************************************************************)
(* The assignment history: which event is the last to a target, and what   *)
(* its record in the result says.                                          *)
(***************************************************************************)
NoneTo(events, t, n) == \A k \in 1 .. n : events[k].target_field # t
LastTo(events, j, t, n) ==
  j \in 1 .. n /\ events[j].target_field = t /\ \A k \in j + 1 .. n : events[k].target_field # t

(* A target has a last event or none.                                      *)
LEMMA LastOrNone ==
  ASSUME NEW events, NEW t, NEW n \in Nat
  PROVE  NoneTo(events, t, n) \/ \E j \in 1 .. n : LastTo(events, j, t, n)
<1> DEFINE S == {k \in 1 .. n : events[k].target_field = t}
<1>1. ASSUME S # {} PROVE \E j \in 1 .. n : LastTo(events, j, t, n)
  <2>1. PICK j \in S : \A k \in S : k <= j
    <3> HIDE DEF S
    <3>1. S \in SUBSET (1 .. n)
      BY DEF S
    <3>. QED BY <1>1, <3>1, Greatest
  <2>. QED BY <2>1 DEF LastTo
<1>. QED BY <1>1 DEF NoneTo

(* The maximum of the positions of a target is its last one.               *)
LEMMA MaxIsLast ==
  ASSUME NEW events, NEW t, NEW n \in Nat, NEW j, LastTo(events, j, t, n),
         NEW S, S = {k \in 1 .. n : events[k].target_field = t}
  PROVE  Max(S) = j
<1>1. j \in S /\ S \in SUBSET (1 .. n) /\ \A k \in S : k <= j
  BY DEF LastTo
<1>2. PICK m : m = Max(S)
  OBVIOUS
<1>3. S # {} /\ S \in SUBSET (1 .. n)
  BY <1>1
<1>4. m \in S /\ \A k \in S : k <= m
  BY <1>2, <1>3, MaxFacts
<1>5. m <= j /\ j <= m /\ m \in Nat /\ j \in Nat
  BY <1>1, <1>4
<1>. QED BY <1>2, <1>5

(* A result keeps its event's fields.                                      *)
LEMMA ResultFields ==
  ASSUME NEW events, NEW results, results = AssignmentResults(events)
  PROVE  /\ DOMAIN results = DOMAIN events
         /\ \A i \in DOMAIN events :
              /\ results[i].target_field = events[i].target_field
              /\ results[i].rule_id = events[i].rule_id
              /\ results[i].rule_order = events[i].rule_order
              /\ results[i].assignment_id = events[i].assignment_id
              /\ results[i].old_value = events[i].old_value
              /\ results[i].proposed_value = events[i].proposed_value
BY DEF AssignmentResults

HasWinner(events, results, i, e) ==
  /\ results[i].effective = (i = e)
  /\ results[i].final_winning_rule_id = events[e].rule_id
  /\ results[i].final_winning_assignment_id = events[e].assignment_id

(* The winner of a target is the last event to it.                         *)
LEMMA ResultWinner ==
  ASSUME NEW events, IsSequence(events), NEW results, results = AssignmentResults(events),
         NEW i \in DOMAIN events, NEW e, LastTo(events, e, events[i].target_field, Len(events))
  PROVE  HasWinner(events, results, i, e)
<1>1. PICK t : t = events[i].target_field
  OBVIOUS
<1>2. LastEvent(events, t) = e
  <2>1. Len(events) \in Nat /\ DOMAIN events = 1 .. Len(events)
    BY SequenceFacts
  <2>2. PICK S : S = {k \in 1 .. Len(events) : events[k].target_field = t}
    OBVIOUS
  <2>3. Max(S) = e
    BY <1>1, <2>1, <2>2, MaxIsLast
  <2>. QED BY <2>1, <2>2, <2>3 DEF LastEvent
<1>3. /\ results[i].effective = (i = LastEvent(events, t))
      /\ results[i].final_winning_rule_id = events[LastEvent(events, t)].rule_id
      /\ results[i].final_winning_assignment_id = events[LastEvent(events, t)].assignment_id
  BY <1>1 DEF AssignmentResults
<1>. QED BY <1>2, <1>3 DEF HasWinner

(* An event is overridden by the next one to its target, if there is one.  *)
LEMMA ResultOverride ==
  ASSUME NEW events, IsSequence(events), NEW results, results = AssignmentResults(events),
         NEW i \in DOMAIN events
  PROVE  /\ LastTo(events, i, events[i].target_field, Len(events)) =>
              results[i].overridden_by_rule_id = NoId
         /\ \A j \in DOMAIN events : LastTo(events, i, events[j].target_field, j - 1) =>
              /\ results[i].overridden_by_rule_id = events[j].rule_id
              /\ results[i].overridden_by_assignment_id = events[j].assignment_id
<1>1. Len(events) \in Nat /\ DOMAIN events = 1 .. Len(events) /\ i \in Nat
  BY SequenceFacts
<1>2. PICK later : later = NextEvents(events, i)
  OBVIOUS
<1>3. later = {k \in i + 1 .. Len(events) : events[k].target_field = events[i].target_field}
  BY <1>2 DEF NextEvents
<1>4. /\ results[i].overridden_by_rule_id =
           (IF later = {} THEN Unassigned ELSE events[Min(later)]).rule_id
      /\ results[i].overridden_by_assignment_id =
           (IF later = {} THEN Unassigned ELSE events[Min(later)]).assignment_id
  BY <1>2 DEF AssignmentResults
<1>5. ASSUME LastTo(events, i, events[i].target_field, Len(events))
      PROVE  results[i].overridden_by_rule_id = NoId
  <2>1. later = {}
    BY <1>1, <1>3, <1>5 DEF LastTo
  <2>. QED BY <1>4, <2>1 DEF Unassigned
<1>6. ASSUME NEW j \in DOMAIN events, LastTo(events, i, events[j].target_field, j - 1)
      PROVE  /\ results[i].overridden_by_rule_id = events[j].rule_id
             /\ results[i].overridden_by_assignment_id = events[j].assignment_id
  <2>1. j \in later /\ \A k \in later : j <= k
    BY <1>1, <1>3, <1>6 DEF LastTo
  <2>2. PICK m : m = Min(later)
    OBVIOUS
  <2>3. m \in later /\ m <= j
    <3>1. later \in SUBSET (1 .. Len(events)) /\ later # {}
      BY <1>1, <1>3, <2>1
    <3>. QED BY <1>1, <2>1, <2>2, <3>1, MinFacts
  <2>4. Min(later) = j /\ later # {}
    BY <1>1, <1>3, <2>1, <2>2, <2>3
  <2>. QED BY <1>4, <2>4
<1>. QED BY <1>5, <1>6

(***************************************************************************)
(* The history of a row under way.  The events of the rule being resolved  *)
(* come last; the others are committed.                                    *)
(***************************************************************************)
CommittedEvents == Len(assignment_events) - Len(resolved)

RecordOf(event) ==
  [value |-> event.proposed_value, rule_id |-> event.rule_id,
   assignment_id |-> event.assignment_id]
SourceValue(t) == IF t \in Fields THEN row[t] ELSE Null

EventsWellFormed ==
  \A k \in DOMAIN assignment_events :
    assignment_events[k].target_field \in Targets /\ assignment_events[k].rule_id # NoId

CurrentEvents ==
  /\ Len(resolved) <= Len(assignment_events)
  /\ \A i \in DOMAIN resolved :
       LET event == assignment_events[CommittedEvents + i]
       IN  /\ event.target_field = Rule.assignments[i].target_field
           /\ event.rule_order = Rule.rule_order
           /\ RecordOf(event) = [value |-> resolved[i], rule_id |-> Rule.rule_id,
                                 assignment_id |-> Rule.assignments[i].assignment_id]

ProducersHeld ==
  \A t \in Targets :
    \/ /\ NoneTo(assignment_events, t, CommittedEvents)
       /\ assigned_values[t] = Unassigned
    \/ \E j \in 1 .. CommittedEvents :
         /\ LastTo(assignment_events, j, t, CommittedEvents)
         /\ assigned_values[t] = RecordOf(assignment_events[j])

ChainedAt(events, i) ==
  LET event == events[i]
      t == event.target_field
  IN  \/ /\ NoneTo(events, t, i - 1)
         /\ event.old_value = SparkAssignmentValue(SourceValue(t), t)
      \/ \E j \in 1 .. i - 1 :
           LastTo(events, j, t, i - 1) /\ event.old_value = events[j].proposed_value

Chained == \A i \in DOMAIN assignment_events : ChainedAt(assignment_events, i)

History == Audited => EventsWellFormed /\ CurrentEvents /\ ProducersHeld /\ Chained

(* No committed event is to the target of an assignment still to resolve.  *)
LEMMA NewTarget ==
  ASSUME Sound, Audited, History, phase = "resolve", NEW i \in DOMAIN resolved,
         NEW n \in DOMAIN Rule.assignments, n # i
  PROVE  assignment_events[CommittedEvents + i].target_field # Rule.assignments[n].target_field
<1>1. WellFormedRule(Rule) /\ i \in DOMAIN Rule.assignments
  <2>1. remaining # <<>> /\ Len(resolved) <= Len(Rule.assignments)
    BY DEF Sound, Shape
  <2>. QED BY <2>1, RulesetOK, SequenceFacts DEF Sound, Shape, SequencesOK
<1>2. assignment_events[CommittedEvents + i].target_field = Rule.assignments[i].target_field
  BY DEF History, CurrentEvents
<1>. QED BY <1>1, <1>2 DEF WellFormedRule

(* What was last to a target among the committed events is so among all    *)
(* when none of the rule's own events is to that target.                   *)
LEMMA LastExtends ==
  ASSUME NEW events, NEW t, NEW n \in Nat, NEW m \in Nat, n <= m,
         \A k \in n + 1 .. m : events[k].target_field # t
  PROVE  /\ NoneTo(events, t, n) => NoneTo(events, t, m)
         /\ \A j : LastTo(events, j, t, n) => LastTo(events, j, t, m)
<1>1. \A k \in 1 .. m : k \in 1 .. n \/ k \in n + 1 .. m
  OBVIOUS
<1>2. NoneTo(events, t, n) => NoneTo(events, t, m)
  BY <1>1 DEF NoneTo
<1>3. ASSUME NEW j, LastTo(events, j, t, n) PROVE LastTo(events, j, t, m)
  <2>1. j \in 1 .. n /\ events[j].target_field = t /\ \A k \in j + 1 .. n : events[k].target_field # t
    BY <1>3 DEF LastTo
  <2>2. \A k \in j + 1 .. m : events[k].target_field # t
    BY <2>1
  <2>. QED BY <2>1, <2>2 DEF LastTo
<1>. QED BY <1>2, <1>3

(* Only the first n events decide what is last among them.                 *)
LEMMA LastOfPrefix ==
  ASSUME NEW events, NEW longer, NEW n \in Nat, \A k \in 1 .. n : longer[k] = events[k],
         NEW t, NEW m \in 0 .. n
  PROVE  /\ NoneTo(longer, t, m) <=> NoneTo(events, t, m)
         /\ \A j : LastTo(longer, j, t, m) <=> LastTo(events, j, t, m)
<1>1. \A k \in 1 .. m : longer[k] = events[k]
  OBVIOUS
<1>2. \A j \in 1 .. m : \A k \in j + 1 .. m : longer[k] = events[k]
  BY <1>1
<1>. QED BY <1>1, <1>2 DEF NoneTo, LastTo

(* The chain of an event depends only on the events before it.             *)
LEMMA ChainedInPrefix ==
  ASSUME NEW events, NEW longer, NEW n \in Nat, \A k \in 1 .. n : longer[k] = events[k],
         NEW i \in 1 .. n, ChainedAt(events, i)
  PROVE  ChainedAt(longer, i)
<1>1. longer[i] = events[i] /\ i - 1 \in 0 .. n
  OBVIOUS
<1>2. PICK t : t = events[i].target_field
  OBVIOUS
<1>3. /\ NoneTo(longer, t, i - 1) <=> NoneTo(events, t, i - 1)
      /\ \A j : LastTo(longer, j, t, i - 1) <=> LastTo(events, j, t, i - 1)
  BY <1>1, LastOfPrefix
<1>4. \A j \in 1 .. i - 1 : longer[j] = events[j]
  OBVIOUS
<1>. QED BY <1>1, <1>2, <1>3, <1>4 DEF ChainedAt

(* The value an assignment replaces is that of the last event to its       *)
(* target, and the source value when there is none.                        *)
LEMMA OldValueChains ==
  ASSUME Sound, Audited, History, Resolving, NEW t, t = Assignment.target_field,
         NEW n, n = Len(assignment_events)
  PROVE  /\ t \in Targets
         /\ \/ /\ NoneTo(assignment_events, t, n)
               /\ OldValue = SparkAssignmentValue(SourceValue(t), t)
            \/ \E j \in 1 .. n :
                 /\ LastTo(assignment_events, j, t, n)
                 /\ OldValue = assignment_events[j].proposed_value
<1>1. /\ remaining # <<>> /\ phase = "resolve" /\ Len(resolved) < Len(Rule.assignments)
      /\ EventsWellFormed /\ CurrentEvents /\ ProducersHeld
  BY DEF Resolving, Sound, Shape, History
<1>2. /\ Len(resolved) \in Nat /\ n \in Nat /\ DOMAIN resolved = 1 .. Len(resolved)
      /\ Len(resolved) + 1 \in DOMAIN Rule.assignments /\ WellFormedRule(Rule)
      /\ DOMAIN assignment_events = 1 .. n
  BY <1>1, RulesetOK, SequenceFacts DEF Sound, Shape, SequencesOK
<1>3. t \in Targets
  BY <1>2 DEF WellFormedRule, Assignment
<1>4. PICK c : c = CommittedEvents
  OBVIOUS
<1>5. c \in Nat /\ c <= n /\ n = c + Len(resolved)
  BY <1>1, <1>2, <1>4 DEF CommittedEvents, CurrentEvents
<1>6. \A k \in c + 1 .. n : assignment_events[k].target_field # t
  <2>1. ASSUME NEW k \in c + 1 .. n PROVE assignment_events[k].target_field # t
    <3>1. PICK i \in DOMAIN resolved : k = c + i
      <4>1. k - c \in 1 .. Len(resolved) /\ k = c + (k - c)
        BY <1>2, <1>5
      <4>. QED BY <1>2, <4>1
    <3>2. i # Len(resolved) + 1
      BY <1>2
    <3>. QED BY <1>1, <1>2, <1>4, <3>1, <3>2, NewTarget DEF Assignment
  <2>. QED BY <2>1
<1>7. /\ NoneTo(assignment_events, t, c) => NoneTo(assignment_events, t, n)
      /\ \A j : LastTo(assignment_events, j, t, c) => LastTo(assignment_events, j, t, n)
  BY <1>2, <1>5, <1>6, LastExtends
<1>8. CASE NoneTo(assignment_events, t, c) /\ assigned_values[t] = Unassigned
  <2>1. ~IsAssigned(assigned_values, t)
    BY <1>8 DEF IsAssigned, Unassigned
  <2>2. OldValue = SparkAssignmentValue(SourceValue(t), t)
    BY <2>1 DEF OldValue, SourceValue
  <2>. QED BY <1>3, <1>7, <1>8, <2>2
<1>9. ASSUME NEW j \in 1 .. c, LastTo(assignment_events, j, t, c),
             assigned_values[t] = RecordOf(assignment_events[j])
      PROVE  LastTo(assignment_events, j, t, n) /\ OldValue = assignment_events[j].proposed_value
  <2>1. assignment_events[j].rule_id # NoId
    BY <1>1, <1>2, <1>5 DEF EventsWellFormed
  <2>2. /\ IsAssigned(assigned_values, t)
        /\ assigned_values[t].value = assignment_events[j].proposed_value
    BY <1>9, <2>1 DEF IsAssigned, RecordOf
  <2>3. OldValue = assigned_values[t].value
    BY <1>3, <2>2 DEF OldValue, Sound, ValuesTyped
  <2>. QED BY <1>7, <1>9, <2>2, <2>3
<1>10. \A j \in 1 .. c : j \in 1 .. n
  BY <1>2, <1>5
<1>. QED BY <1>1, <1>3, <1>4, <1>8, <1>9, <1>10 DEF ProducersHeld

(* Resolving an assignment keeps the history.                              *)
LEMMA HistoryResolved ==
  ASSUME Sound, Audited, History, ResolveAssignment
  PROVE  History'
<1> DEFINE event == [assignment_id |-> Assignment.assignment_id, rule_id |-> Rule.rule_id,
                     rule_order |-> Rule.rule_order, target_field |-> Assignment.target_field,
                     old_value |-> OldValue, proposed_value |-> ProposedValue]
<1>1. /\ Resolving /\ resolved' = Append(resolved, ProposedValue)
      /\ assignment_events' = Append(assignment_events, event)
      /\ UNCHANGED <<row, mode, remaining, assigned_values>>
  BY DEF ResolveAssignment
<1>2. /\ remaining # <<>> /\ Len(resolved) < Len(Rule.assignments) /\ Rule' = Rule
      /\ EventsWellFormed /\ CurrentEvents /\ ProducersHeld /\ Chained
  BY <1>1 DEF Resolving, Sound, Shape, History, Rule
<1>3. PICK events : events = assignment_events
  OBVIOUS
<1>4. PICK e : e = event
  OBVIOUS
<1>5. PICK longer : longer = Append(events, e)
  OBVIOUS
<1>6. PICK values : values = resolved
  OBVIOUS
<1>7. PICK v : v = ProposedValue
  OBVIOUS
<1>8. PICK more : more = Append(values, v)
  OBVIOUS
<1> HIDE DEF event
<1>9. PICK n : n = Len(events)
  OBVIOUS
<1>10. PICK r : r = Len(values)
  OBVIOUS
<1>11. /\ n \in Nat /\ DOMAIN events = 1 .. n /\ DOMAIN longer = 1 .. n + 1
       /\ Len(longer) = n + 1 /\ longer[n + 1] = e
       /\ \A k \in 1 .. n : longer[k] = events[k]
  BY <1>3, <1>5, <1>9, AppendFacts, SequenceFacts DEF Sound, Shape, SequencesOK
<1>12. /\ r \in Nat /\ DOMAIN values = 1 .. r /\ DOMAIN more = 1 .. r + 1
       /\ Len(more) = r + 1 /\ more[r + 1] = v
       /\ \A k \in 1 .. r : more[k] = values[k]
  BY <1>6, <1>8, <1>10, AppendFacts, SequenceFacts DEF Sound, Shape, SequencesOK
<1>13. assignment_events' = longer /\ resolved' = more
  BY <1>1, <1>3, <1>4, <1>5, <1>6, <1>7, <1>8
<1>14. PICK c : c = CommittedEvents
  OBVIOUS
<1>15. c \in Nat /\ n = c + r /\ CommittedEvents' = c
  <2>1. r <= n
    BY <1>2, <1>3, <1>6, <1>9, <1>10 DEF CurrentEvents
  <2>2. c = n - r
    BY <1>3, <1>6, <1>9, <1>10, <1>14 DEF CommittedEvents
  <2>3. CommittedEvents' = Len(longer) - Len(more)
    BY <1>13 DEF CommittedEvents
  <2>. QED BY <1>11, <1>12, <2>1, <2>2, <2>3
<1>16. /\ e.target_field = Assignment.target_field /\ e.target_field \in Targets
       /\ e.rule_order = Rule.rule_order /\ e.rule_id = Rule.rule_id /\ e.rule_id # NoId
       /\ RecordOf(e) = [value |-> v, rule_id |-> Rule.rule_id,
                         assignment_id |-> Assignment.assignment_id]
       /\ e.old_value = OldValue
       /\ Assignment = Rule.assignments[r + 1]
  BY <1>1, <1>2, <1>4, <1>6, <1>7, <1>10, RulesetOK, OldValueChains
     DEF event, Sound, WellFormedRule, RecordOf, Assignment
<1>17. EventsWellFormed'
  BY <1>2, <1>3, <1>11, <1>13, <1>16 DEF EventsWellFormed
<1>18. CurrentEvents'
  <2>1. ASSUME NEW i \in 1 .. r + 1
        PROVE  /\ longer[c + i].target_field = Rule.assignments[i].target_field
               /\ longer[c + i].rule_order = Rule.rule_order
               /\ RecordOf(longer[c + i]) =
                    [value |-> more[i], rule_id |-> Rule.rule_id,
                     assignment_id |-> Rule.assignments[i].assignment_id]
    <3>1. CASE i \in 1 .. r
      <4>1. longer[c + i] = events[c + i] /\ more[i] = values[i]
        BY <1>11, <1>12, <1>15, <3>1
      <4>. QED BY <1>2, <1>3, <1>6, <1>12, <1>14, <3>1, <4>1 DEF CurrentEvents
    <3>2. CASE i = r + 1
      <4>1. c + i = n + 1
        BY <1>12, <1>15, <3>2
      <4>. QED BY <1>11, <1>12, <1>16, <3>2, <4>1
    <3>. QED BY <1>12, <3>1, <3>2
  <2>2. r + 1 <= n + 1
    BY <1>11, <1>12, <1>14, <1>15
  <2>3. Len(resolved') <= Len(assignment_events') /\ DOMAIN resolved' = 1 .. r + 1
    BY <1>11, <1>12, <1>13, <2>2
  <2>4. CommittedEvents' = c /\ Rule' = Rule
    BY <1>2, <1>15
  <2>. QED BY <1>13, <2>1, <2>3, <2>4 DEF CurrentEvents
<1>19. ProducersHeld'
  <2>1. ASSUME NEW t \in Targets
        PROVE  \/ NoneTo(longer, t, c) /\ assigned_values[t] = Unassigned
               \/ \E j \in 1 .. c : /\ LastTo(longer, j, t, c)
                                    /\ assigned_values[t] = RecordOf(longer[j])
    <3>1. /\ NoneTo(longer, t, c) <=> NoneTo(events, t, c)
          /\ \A j : LastTo(longer, j, t, c) <=> LastTo(events, j, t, c)
      <4>1. c \in 0 .. n
        BY <1>11, <1>12, <1>15
      <4>. QED BY <1>11, <4>1, LastOfPrefix
    <3>2. \A j \in 1 .. c : longer[j] = events[j]
      BY <1>11, <1>12, <1>15
    <3>. QED BY <1>2, <1>3, <1>14, <3>1, <3>2 DEF ProducersHeld
  <2>. QED BY <1>1, <1>13, <1>15, <2>1 DEF ProducersHeld
<1>20. Chained'
  <2>1. ASSUME NEW i \in 1 .. n PROVE ChainedAt(longer, i)
    BY <1>2, <1>3, <1>11, ChainedInPrefix DEF Chained
  <2>2. ChainedAt(longer, n + 1)
    <3>1. PICK t : t = e.target_field
      OBVIOUS
    <3>2. \/ NoneTo(events, t, n) /\ OldValue = SparkAssignmentValue(SourceValue(t), t)
          \/ \E j \in 1 .. n :
               LastTo(events, j, t, n) /\ OldValue = events[j].proposed_value
      BY <1>1, <1>3, <1>9, <1>16, <3>1, OldValueChains
    <3>3. /\ NoneTo(longer, t, n) <=> NoneTo(events, t, n)
          /\ \A j : LastTo(longer, j, t, n) <=> LastTo(events, j, t, n)
      <4>1. n \in 0 .. n
        BY <1>11
      <4>. QED BY <1>11, <4>1, LastOfPrefix
    <3>4. /\ longer[n + 1] = e /\ (n + 1) - 1 = n
          /\ \A j \in 1 .. n : longer[j] = events[j]
      BY <1>11
    <3>. QED BY <1>16, <3>1, <3>2, <3>3, <3>4 DEF ChainedAt
  <2>3. \A i \in 1 .. n + 1 : ChainedAt(longer, i)
    BY <1>11, <2>1, <2>2
  <2>. QED BY <1>1, <1>11, <1>13, <2>3 DEF Chained, ChainedAt, SourceValue
<1>. QED BY <1>17, <1>18, <1>19, <1>20 DEF History

(* Committing a rule keeps the history.                                    *)
LEMMA HistoryCommitted ==
  ASSUME Sound, Audited, History, CommitRule
  PROVE  History'
<1>1. /\ phase = "resolve" /\ resolved' = <<>> /\ assigned_values' = Committed
      /\ Len(resolved) = Len(Rule.assignments)
      /\ UNCHANGED <<row, mode, assignment_events>>
      /\ EventsWellFormed /\ CurrentEvents /\ ProducersHeld /\ Chained /\ remaining # <<>>
  BY DEF CommitRule, History, Sound, Shape
<1>2. PICK n : n = Len(assignment_events)
  OBVIOUS
<1>3. PICK c : c = CommittedEvents
  OBVIOUS
<1>4. /\ n \in Nat /\ c \in Nat /\ n = c + Len(resolved) /\ Len(resolved) \in Nat
      /\ DOMAIN resolved = 1 .. Len(resolved) /\ DOMAIN resolved = DOMAIN Rule.assignments
  BY <1>1, <1>2, <1>3, RulesetOK, SequenceFacts
     DEF Sound, Shape, SequencesOK, CommittedEvents, CurrentEvents
<1>5. CommittedEvents' = n /\ DOMAIN resolved' = {} /\ Len(resolved') = 0
  BY <1>1, <1>2, <1>4, EmptySequence DEF CommittedEvents
<1>6. EventsWellFormed' /\ Chained'
  BY <1>1 DEF EventsWellFormed, Chained, ChainedAt, SourceValue
<1>7. CurrentEvents'
  BY <1>1, <1>2, <1>4, <1>5 DEF CurrentEvents
<1>8. \A k \in c + 1 .. n : \E i \in DOMAIN resolved : k = c + i
  <2>1. \A k \in c + 1 .. n : k - c \in 1 .. Len(resolved) /\ k = c + (k - c)
    BY <1>4
  <2>. QED BY <1>4, <2>1
<1>9. ASSUME NEW t \in Targets
      PROVE  \/ NoneTo(assignment_events, t, n) /\ Committed[t] = Unassigned
             \/ \E j \in 1 .. n : /\ LastTo(assignment_events, j, t, n)
                                  /\ Committed[t] = RecordOf(assignment_events[j])
  <2>1. CASE /\ \A i \in DOMAIN resolved : Rule.assignments[i].target_field # t
             /\ Committed[t] = assigned_values[t]
    <3>1. \A k \in c + 1 .. n : assignment_events[k].target_field # t
      <4>1. \A i \in DOMAIN resolved :
              assignment_events[c + i].target_field = Rule.assignments[i].target_field
        BY <1>1, <1>3 DEF CurrentEvents
      <4>. QED BY <1>8, <2>1, <4>1
    <3>2. /\ NoneTo(assignment_events, t, c) => NoneTo(assignment_events, t, n)
          /\ \A j : LastTo(assignment_events, j, t, c) => LastTo(assignment_events, j, t, n)
      <4>1. c <= n
        BY <1>4
      <4>. QED BY <1>4, <3>1, <4>1, LastExtends
    <3>3. \A j \in 1 .. c : j \in 1 .. n
      BY <1>4
    <3>. QED BY <1>1, <1>3, <2>1, <3>2, <3>3 DEF ProducersHeld
  <2>2. ASSUME NEW i \in DOMAIN resolved, Rule.assignments[i].target_field = t,
               Committed[t] = [value |-> resolved[i], rule_id |-> Rule.rule_id,
                               assignment_id |-> Rule.assignments[i].assignment_id]
        PROVE  \E j \in 1 .. n : /\ LastTo(assignment_events, j, t, n)
                                 /\ Committed[t] = RecordOf(assignment_events[j])
    <3>1. c + i \in 1 .. n
      BY <1>4
    <3>2. /\ assignment_events[c + i].target_field = t
          /\ Committed[t] = RecordOf(assignment_events[c + i])
      BY <1>1, <1>3, <2>2 DEF CurrentEvents
    <3>3. ASSUME NEW k \in (c + i) + 1 .. n PROVE assignment_events[k].target_field # t
      <4>1. k \in c + 1 .. n
        BY <1>4
      <4>2. PICK m \in DOMAIN resolved : k = c + m
        BY <1>8, <4>1
      <4>3. m # i
        BY <1>4, <4>2
      <4>. QED BY <1>1, <1>3, <1>4, <2>2, <4>2, <4>3, NewTarget
    <3>4. LastTo(assignment_events, c + i, t, n)
      BY <3>1, <3>2, <3>3 DEF LastTo
    <3>. QED BY <3>1, <3>2, <3>4
  <2>. QED BY <1>1, <2>1, <2>2, CommittedFacts DEF Sound
<1>10. ProducersHeld'
  BY <1>1, <1>5, <1>9 DEF ProducersHeld
<1>. QED BY <1>6, <1>7, <1>10 DEF History

(* A row that has not started has an empty history.                        *)
LEMMA EmptyHistory ==
  ASSUME resolved = <<>>, assignment_events = <<>>, assigned_values = NothingAssigned
  PROVE  History
<1>1. /\ Len(resolved) = 0 /\ Len(assignment_events) = 0 /\ CommittedEvents = 0
      /\ DOMAIN resolved = {} /\ DOMAIN assignment_events = {}
  BY EmptySequence DEF CommittedEvents
<1>. QED BY <1>1 DEF History, EventsWellFormed, CurrentEvents, ProducersHeld, Chained, NoneTo,
                    NothingAssigned

(* A row that starts or returns has an empty history afterwards.           *)
LEMMA EmptyHistoryNext ==
  ASSUME resolved' = <<>>, assignment_events' = <<>>, assigned_values' = NothingAssigned
  PROVE  History'
<1>1. /\ Len(resolved') = 0 /\ Len(assignment_events') = 0 /\ CommittedEvents' = 0
      /\ DOMAIN resolved' = {} /\ DOMAIN assignment_events' = {}
  BY EmptySequence DEF CommittedEvents
<1>. QED BY <1>1 DEF History, EventsWellFormed, CurrentEvents, ProducersHeld, Chained, NoneTo,
                    NothingAssigned

(* Every step keeps the history.                                           *)
LEMMA StepHistory ==
  ASSUME Sound, History, Next
  PROVE  History'
<1>1. ASSUME NEW m \in Modes, StartRow(m) PROVE History'
  <2>1. resolved' = <<>> /\ assignment_events' = <<>> /\ assigned_values' = NothingAssigned
    BY <1>1 DEF StartRow, Sound, Shape, Idle
  <2>. QED BY <2>1, EmptyHistoryNext
<1>2. ASSUME SkipRule \/ MatchRule PROVE History'
  <2>1. /\ UNCHANGED <<row, mode, resolved, assigned_values, assignment_events>>
        /\ resolved = <<>>
    BY <1>2 DEF SkipRule, MatchRule, AtRule, Sound, Shape
  <2>2. CurrentEvents => CurrentEvents'
    BY <2>1, EmptySequence DEF CurrentEvents
  <2>. QED BY <2>1, <2>2 DEF History, Audited, EventsWellFormed, ProducersHeld, CommittedEvents,
                             Chained, ChainedAt, SourceValue
<1>3. ASSUME ResolveAssignment \/ CommitRule PROVE History'
  <2>1. CASE Audited
    BY <1>3, <2>1, HistoryResolved, HistoryCommitted
  <2>2. CASE ~Audited
    BY <1>3, <2>2 DEF History, Audited, ResolveAssignment, CommitRule
  <2>. QED BY <2>1, <2>2
<1>4. ASSUME RowRaises \/ FinishRow PROVE History'
  BY <1>4, EmptyHistoryNext DEF RowRaises, FinishRow, Return, Fresh
<1>. QED BY <1>1, <1>2, <1>3, <1>4 DEF Next, Step

(* The history depends on nothing else.                                    *)
LEMMA HistoryStutters == History /\ UNCHANGED vars => History'
<1> SUFFICES ASSUME History, UNCHANGED vars PROVE History'
  OBVIOUS
<1>1. UNCHANGED <<row, mode, remaining, resolved, assigned_values, assignment_events>>
  BY DEF vars
<1>. QED BY <1>1 DEF History, Audited, EventsWellFormed, CurrentEvents, ProducersHeld, Chained,
                     ChainedAt, CommittedEvents, SourceValue, Rule

(* What the audited evaluation of a row may add to its payload.            *)
LEMMA AuditReturns ==
  ASSUME Sound, Next
  PROVE  /\ UNCHANGED <<ruleset, row>>
         /\ \/ payload["full_audit"]' = payload["full_audit"]
            \/ RowRaises /\ payload["full_audit"]' = ErrorPayload
            \/ /\ FinishRow /\ Audited /\ payload["full_audit"]' = SuccessPayload
               /\ phase = "match" /\ resolved = <<>> /\ DoneIds = matched_rule_ids
<1>1. ASSUME NEW result, Return(result)
      PROVE  /\ UNCHANGED <<ruleset, row>>
             /\ payload["full_audit"]' = IF Audited THEN result ELSE payload["full_audit"]
  <2>1. payload' = [payload EXCEPT ![mode] = result] /\ payload = [m \in Modes |-> payload[m]]
    BY <1>1 DEF Return, Sound, Shape
  <2>2. "full_audit" \in Modes
    BY DEF Modes
  <2>3. payload'["full_audit"] = IF mode = "full_audit" THEN result ELSE payload["full_audit"]
    BY <2>1, <2>2
  <2>. QED BY <1>1, <2>3 DEF Return, inputVars, Audited
<1>2. CASE RowRaises
  BY <1>1, <1>2 DEF RowRaises
<1>3. CASE FinishRow
  BY <1>1, <1>3 DEF FinishRow, Sound, Shape, DoneIds
<1>. QED BY <1>2, <1>3 DEF Next, Step, StartRow, SkipRule, MatchRule, ResolveAssignment, CommitRule

(***************************************************************************)
(* The chains of the returned history.                                     *)
(***************************************************************************)
LEMMA ErrorHistory ==
  DOMAIN ErrorPayload.assignment_results = {} /\ DOMAIN ErrorPayload.matched_rules = {}
BY EmptySequence DEF ErrorPayload

ResultChained(results, source_row, i) ==
  LET target == results[i].target_field
      earlier == {j \in 1 .. i - 1 : results[j].target_field = target}
      source == IF target \in Fields THEN source_row[target] ELSE Null
  IN  IF earlier = {}
      THEN results[i].old_value = SparkAssignmentValue(source, target)
      ELSE LET before == results[Max(earlier)]
           IN  /\ results[i].old_value = before.proposed_value
               /\ before.overridden_by_rule_id = results[i].rule_id
               /\ before.overridden_by_assignment_id = results[i].assignment_id
               /\ ~before.effective

(* HistoryChains, one result at a time, before and after a step.           *)
LEMMA ChainsAreResults ==
  /\ HistoryChains <=> \A i \in DOMAIN Results : ResultChained(Results, row, i)
  /\ HistoryChains' <=> \A i \in DOMAIN Results' : ResultChained(Results', row', i)
BY DEF HistoryChains, ResultChained

(* The result a row returns has its history chained.                       *)
LEMMA FinishedChains ==
  ASSUME Sound, History, FinishRow, Audited, payload["full_audit"]' = SuccessPayload,
         row' = row
  PROVE  HistoryChains'
<1>1. Chained
  BY DEF History
<1>2. PICK events : events = assignment_events
  OBVIOUS
<1>3. PICK results : results = AssignmentResults(events)
  OBVIOUS
<1>4. Results' = results
  BY <1>2, <1>3 DEF Results, SuccessPayload
<1>5. PICK n : n = Len(events)
  OBVIOUS
<1>6. IsSequence(events) /\ n \in Nat /\ DOMAIN events = 1 .. n
  BY <1>2, <1>5, SequenceFacts DEF Sound, Shape, SequencesOK
<1>7. /\ DOMAIN results = 1 .. n
      /\ \A i \in 1 .. n : /\ results[i].target_field = events[i].target_field
                           /\ results[i].rule_id = events[i].rule_id
                           /\ results[i].assignment_id = events[i].assignment_id
                           /\ results[i].old_value = events[i].old_value
                           /\ results[i].proposed_value = events[i].proposed_value
  BY <1>3, <1>6, ResultFields
<1>8. SUFFICES ASSUME NEW i \in 1 .. n PROVE ResultChained(results, row, i)
  <2>1. \A i \in DOMAIN Results' : ResultChained(Results', row', i)
    BY <1>4, <1>7, <1>8
  <2>. QED BY <2>1, ChainsAreResults
<1> DEFINE t == results[i].target_field
           earlier == {j \in 1 .. i - 1 : results[j].target_field = t}
<1>9. /\ t = events[i].target_field /\ i - 1 \in Nat /\ i - 1 \in 0 .. n
      /\ earlier = {j \in 1 .. i - 1 : events[j].target_field = t}
  <2>1. \A j \in 1 .. i - 1 : j \in 1 .. n
    BY <1>6
  <2>. QED BY <1>6, <1>7, <1>8, <2>1
<1>10. CASE NoneTo(events, t, i - 1) /\ events[i].old_value = SparkAssignmentValue(SourceValue(t), t)
  <2>1. earlier = {}
    BY <1>9, <1>10 DEF NoneTo
  <2>. QED BY <1>7, <1>10, <2>1 DEF ResultChained, SourceValue
<1>11. ASSUME NEW j \in 1 .. i - 1, LastTo(events, j, t, i - 1),
              events[i].old_value = events[j].proposed_value
       PROVE  /\ earlier # {} /\ Max(earlier) = j
              /\ results[i].old_value = results[j].proposed_value
              /\ results[j].overridden_by_rule_id = results[i].rule_id
              /\ results[j].overridden_by_assignment_id = results[i].assignment_id
              /\ ~results[j].effective
  <2>1. Max(earlier) = j /\ j \in earlier
    <3> HIDE DEF earlier, t
    <3>1. PICK p : p = i - 1
      OBVIOUS
    <3>2. Max(earlier) = j
      BY <1>9, <1>11, <3>1, MaxIsLast
    <3>. QED BY <1>9, <1>11, <3>2 DEF LastTo
  <2>2. j \in 1 .. n /\ events[j].target_field = t /\ j < i
    BY <1>6, <1>11 DEF LastTo
  <2>3. /\ results[j].overridden_by_rule_id = events[i].rule_id
        /\ results[j].overridden_by_assignment_id = events[i].assignment_id
    BY <1>3, <1>6, <1>9, <1>11, <2>2, ResultOverride
  <2>4. PICK e \in 1 .. n : LastTo(events, e, t, n)
    BY <1>6, <1>9, LastOrNone DEF NoneTo
  <2>5. e # j
    BY <1>6, <1>9, <2>2, <2>4 DEF LastTo
  <2>6. HasWinner(events, results, j, e)
    <3>1. j \in DOMAIN events /\ LastTo(events, e, events[j].target_field, Len(events))
      BY <1>5, <1>6, <2>2, <2>4
    <3>2. IsSequence(events) /\ results = AssignmentResults(events)
      BY <1>3, <1>6
    <3> HIDE DEF t, earlier
    <3>. QED BY <3>1, <3>2, ResultWinner
  <2>. QED BY <1>7, <1>11, <2>1, <2>2, <2>3, <2>5, <2>6 DEF HasWinner
<1>12. ChainedAt(events, i)
  BY <1>1, <1>2, <1>6 DEF Chained
<1>13. ASSUME NEW j \in 1 .. i - 1, LastTo(events, j, t, i - 1),
              events[i].old_value = events[j].proposed_value
       PROVE  ResultChained(results, row, i)
  BY <1>11, <1>13 DEF ResultChained
<1>. QED BY <1>9, <1>10, <1>12, <1>13 DEF ChainedAt

(* Every step keeps the returned chains.                                   *)
LEMMA StepChains ==
  ASSUME Sound, History, HistoryChains, Next
  PROVE  HistoryChains'
<1>1. CASE payload["full_audit"]' = payload["full_audit"]
  <2>1. Results' = Results /\ row' = row
    BY <1>1, AuditReturns DEF Results
  <2>. QED BY <2>1, ChainsAreResults
<1>2. CASE payload["full_audit"]' = ErrorPayload
  <2>1. DOMAIN Results' = {}
    BY <1>2, ErrorHistory DEF Results
  <2>. QED BY <2>1, ChainsAreResults
<1>. QED BY <1>1, <1>2, AuditReturns, FinishedChains

(* The value an event replaced is what the event before it for that target *)
(* proposed, and the first one replaced the source value; every event but  *)
(* the last to a target names its immediate override (spark_runtime.py).   *)
THEOREM HistoriesChain == Spec => []HistoryChains
<1>1. Init => History /\ HistoryChains
  <2>1. Init => History
    BY EmptyHistory DEF Init
  <2>2. Init => HistoryChains
    BY EmptySequence DEF Init, HistoryChains, Results, NoPayload, Modes
  <2>. QED BY <2>1, <2>2
<1>2. Sound /\ History /\ HistoryChains /\ [Next]_vars => History' /\ HistoryChains'
  <2>1. Sound /\ History /\ HistoryChains /\ Next => History' /\ HistoryChains'
    BY StepHistory, StepChains
  <2>2. HistoryChains /\ UNCHANGED vars => HistoryChains'
    BY ChainsAreResults DEF vars, Results
  <2>. QED BY <2>1, <2>2, HistoryStutters
<1>. QED BY <1>1, <1>2, SoundAlways, PTL DEF Spec

(***************************************************************************)
(* The effective event of a target is the one whose value is returned.     *)
(***************************************************************************)
TargetEmitted(results, emitted, t) ==
  LET events == {i \in DOMAIN results : results[i].target_field = t}
      effective == {i \in events : results[i].effective}
  IN  /\ emitted.applied <=> events # {}
      /\ events # {} =>
           \E e \in effective :
             /\ effective = {e}
             /\ results[e].proposed_value = emitted.value
             /\ results[e].overridden_by_rule_id = NoId
             /\ \A i \in events :
                  /\ results[i].final_winning_rule_id = results[e].rule_id
                  /\ results[i].final_winning_assignment_id = results[e].assignment_id

(* EffectiveEmitted, one target at a time, before and after a step.        *)
LEMMA EffectiveIsEmitted ==
  /\ EffectiveEmitted <=>
       (Succeeded("full_audit") => \A t \in AssignmentTargets(ruleset) :
          TargetEmitted(Results, payload["full_audit"].assign[t], t))
  /\ EffectiveEmitted' <=>
       (payload["full_audit"]'.status = "success" => \A t \in AssignmentTargets(ruleset') :
          TargetEmitted(Results', payload["full_audit"]'.assign[t], t))
BY DEF EffectiveEmitted, TargetEmitted, Succeeded

(* A target with a last event emits it.                                    *)
LEMMA LastEventWins ==
  ASSUME NEW events, IsSequence(events), NEW results, results = AssignmentResults(events),
         NEW t, NEW n, n = Len(events), NEW e, LastTo(events, e, t, n),
         NEW emitted, emitted = [applied |-> TRUE, value |-> events[e].proposed_value]
  PROVE  TargetEmitted(results, emitted, t)
<1> DEFINE made == {i \in DOMAIN results : results[i].target_field = t}
           effective == {i \in made : results[i].effective}
<1>1. n \in Nat /\ DOMAIN events = 1 .. n /\ DOMAIN results = 1 .. n /\ e \in 1 .. n
  BY SequenceFacts, ResultFields DEF LastTo
<1>2. \A i \in 1 .. n : /\ results[i].target_field = events[i].target_field
                        /\ results[i].rule_id = events[i].rule_id
                        /\ results[i].assignment_id = events[i].assignment_id
                        /\ results[i].proposed_value = events[i].proposed_value
  BY <1>1, ResultFields
<1>3. events[e].target_field = t /\ e \in made
  BY <1>1, <1>2 DEF LastTo
<1>4. ASSUME NEW i \in made PROVE HasWinner(events, results, i, e)
  <2>1. i \in DOMAIN events /\ LastTo(events, e, events[i].target_field, Len(events))
    BY <1>1, <1>2
  <2> HIDE DEF made
  <2>. QED BY <2>1, ResultWinner
<1>5. effective = {e}
  <2>1. \A i \in made : results[i].effective = (i = e)
    BY <1>4 DEF HasWinner
  <2>. QED BY <1>3, <2>1
<1>6. results[e].overridden_by_rule_id = NoId
  <2>1. LastTo(events, e, events[e].target_field, Len(events)) /\ e \in DOMAIN events
    BY <1>1, <1>3
  <2>. QED BY <2>1, ResultOverride
<1>7. \A i \in made : /\ results[i].final_winning_rule_id = results[e].rule_id
                      /\ results[i].final_winning_assignment_id = results[e].assignment_id
  BY <1>1, <1>2, <1>4 DEF HasWinner
<1>8. emitted.applied /\ results[e].proposed_value = emitted.value
  BY <1>1, <1>2
<1>. QED BY <1>3, <1>5, <1>6, <1>7, <1>8 DEF TargetEmitted

(* A target with no event emits nothing.                                   *)
LEMMA NoEventWins ==
  ASSUME NEW events, IsSequence(events), NEW results, results = AssignmentResults(events),
         NEW t, NoneTo(events, t, Len(events)), NEW emitted, ~emitted.applied
  PROVE  TargetEmitted(results, emitted, t)
<1>1. DOMAIN results = 1 .. Len(events) /\ DOMAIN events = 1 .. Len(events)
  BY SequenceFacts, ResultFields
<1>2. {i \in DOMAIN results : results[i].target_field = t} = {}
  BY <1>1, ResultFields DEF NoneTo
<1>. QED BY <1>2 DEF TargetEmitted

(* The result a row returns has one effective event per applied target.    *)
LEMMA FinishedEmits ==
  ASSUME Sound, History, Audited, resolved = <<>>, UNCHANGED ruleset,
         payload["full_audit"]' = SuccessPayload
  PROVE  EffectiveEmitted'
<1>1. EventsWellFormed /\ ProducersHeld
  BY DEF History
<1>2. PICK events : events = assignment_events
  OBVIOUS
<1>3. PICK results : results = AssignmentResults(events)
  OBVIOUS
<1>4. PICK n : n = Len(events)
  OBVIOUS
<1>5. IsSequence(events) /\ n \in Nat /\ DOMAIN events = 1 .. n
  BY <1>2, <1>4, SequenceFacts DEF Sound, Shape, SequencesOK
<1>6. CommittedEvents = n
  BY <1>2, <1>4, <1>5, EmptySequence DEF CommittedEvents
<1>7. Results' = results
  BY <1>2, <1>3 DEF Results, SuccessPayload
<1>8. ASSUME NEW t \in AssignmentTargets(ruleset)
      PROVE  TargetEmitted(results, SuccessPayload.assign[t], t)
  <2>1. t \in Targets
    BY TargetsAssigned DEF Sound
  <2>2. PICK emitted : emitted = SuccessPayload.assign[t]
    OBVIOUS
  <2>3. emitted = [applied |-> IsAssigned(assigned_values, t), value |-> assigned_values[t].value]
    BY <2>2 DEF SuccessPayload, AssignPayload
  <2>4. CASE NoneTo(events, t, n) /\ assigned_values[t] = Unassigned
    <3>1. IsAssigned(assigned_values, t) = FALSE
      BY <2>4 DEF IsAssigned, Unassigned
    <3>2. emitted = [applied |-> FALSE, value |-> assigned_values[t].value]
      BY <2>3, <3>1, Zenon
    <3>3. ~emitted.applied
      BY <3>2
    <3>. QED BY <1>3, <1>4, <1>5, <2>2, <2>4, <3>3, NoEventWins
  <2>5. ASSUME NEW e \in 1 .. n, LastTo(events, e, t, n),
               assigned_values[t] = RecordOf(events[e])
        PROVE  TargetEmitted(results, emitted, t)
    <3>1. IsAssigned(assigned_values, t) /\ assigned_values[t].value = events[e].proposed_value
      BY <1>1, <1>2, <1>5, <2>5 DEF IsAssigned, RecordOf, EventsWellFormed
    <3>2. emitted = [applied |-> TRUE, value |-> events[e].proposed_value]
      BY <2>3, <3>1, Zenon
    <3>. QED BY <1>3, <1>4, <1>5, <2>5, <3>2, LastEventWins
  <2>. QED BY <1>1, <1>2, <1>6, <2>1, <2>2, <2>4, <2>5 DEF ProducersHeld
<1>. QED BY <1>7, <1>8, EffectiveIsEmitted

(* Every step keeps the emitted events.                                    *)
LEMMA StepEmits ==
  ASSUME Sound, History, EffectiveEmitted, Next
  PROVE  EffectiveEmitted'
<1>1. CASE payload["full_audit"]' = payload["full_audit"]
  <2>1. Results' = Results /\ ruleset' = ruleset
    BY <1>1, AuditReturns DEF Results
  <2>. QED BY <1>1, <2>1, EffectiveIsEmitted DEF Succeeded
<1>2. CASE payload["full_audit"]' = ErrorPayload
  <2>1. payload["full_audit"]'.status # "success"
    BY <1>2, ResultStatus
  <2>. QED BY <2>1, EffectiveIsEmitted
<1>. QED BY <1>1, <1>2, AuditReturns, FinishedEmits

(* One event per applied target is effective: it proposed the value the    *)
(* row returns, and every event of the target names it as the winner       *)
(* (spark_runtime.py).                                                     *)
THEOREM EffectiveIsReturned == Spec => []EffectiveEmitted
<1>1. Init => History /\ EffectiveEmitted
  <2>1. Init => History
    BY EmptyHistory DEF Init
  <2>2. Init => payload["full_audit"].status = "none"
    BY DEF Init, NoPayload, Modes
  <2>. QED BY <2>1, <2>2, EffectiveIsEmitted DEF Succeeded
<1>2. Sound /\ History /\ EffectiveEmitted /\ [Next]_vars => History' /\ EffectiveEmitted'
  <2>1. Sound /\ History /\ EffectiveEmitted /\ Next => History' /\ EffectiveEmitted'
    BY StepHistory, StepEmits
  <2>2. EffectiveEmitted /\ UNCHANGED vars => EffectiveEmitted'
    BY EffectiveIsEmitted DEF vars, Results, Succeeded
  <2>. QED BY <2>1, <2>2, HistoryStutters
<1>. QED BY <1>1, <1>2, SoundAlways, PTL DEF Spec

(***************************************************************************)
(* The history lists the assignments of the matched rules.                 *)
(***************************************************************************)
KeysOf(rule) ==
  [i \in DOMAIN rule.assignments |-> <<rule.rule_id, rule.assignments[i].assignment_id>>]
KeysIn(rules, ids) ==
  FlattenSeq([k \in DOMAIN ids |-> KeysOf(CHOOSE r \in rules : r.rule_id = ids[k])])
KeyAt(events, j) == <<events[j].rule_id, events[j].assignment_id>>
KnownIds(rules, ids) == \A k \in DOMAIN ids : \E r \in rules : r.rule_id = ids[k]
KeySpace(rules) == UNION {ToSet(KeysOf(r)) : r \in rules}

(* The keys of a rule are those of the rule its id names.                  *)
LEMMA KeysAreKeys ==
  ASSUME NEW rules, WellFormedRuleset(rules), NEW r \in rules
  PROVE  /\ (CHOOSE s \in rules : s.rule_id = r.rule_id) = r
         /\ KeysOf(r) \in Seq(KeySpace(rules)) /\ Len(KeysOf(r)) = Len(r.assignments)
         /\ DOMAIN KeysOf(r) = 1 .. Len(r.assignments) /\ Len(r.assignments) \in Nat
<1>1. (CHOOSE s \in rules : s.rule_id = r.rule_id) = r
  BY DEF WellFormedRuleset
<1>2. Len(r.assignments) \in Nat /\ DOMAIN r.assignments = 1 .. Len(r.assignments)
  BY LenProperties DEF WellFormedRuleset, WellFormedRule
<1>3. ToSet(KeysOf(r)) \subseteq KeySpace(rules)
  BY DEF KeySpace
<1>4. KeysOf(r) \in [1 .. Len(r.assignments) -> KeySpace(rules)]
  <2>1. KeysOf(r) = [i \in 1 .. Len(r.assignments) |-> KeysOf(r)[i]]
    BY <1>2 DEF KeysOf
  <2>2. \A i \in 1 .. Len(r.assignments) : KeysOf(r)[i] \in ToSet(KeysOf(r))
    BY <2>1 DEF ToSet
  <2>. QED BY <1>3, <2>1, <2>2
<1>5. KeysOf(r) \in Seq(KeySpace(rules)) /\ Len(KeysOf(r)) = Len(r.assignments)
  BY <1>2, <1>4
<1>. QED BY <1>1, <1>2, <1>4, <1>5

KeysExtended(rules, ids, rule, longer) ==
  /\ KeysIn(rules, ids) \in Seq(KeySpace(rules))
  /\ KeysIn(rules, longer) = KeysIn(rules, ids) \o KeysOf(rule)
  /\ KnownIds(rules, longer)

(* Matching one more rule lists its keys after the others.                 *)
LEMMA KeysAppend ==
  ASSUME NEW rules, WellFormedRuleset(rules), NEW ids, IsSequence(ids), KnownIds(rules, ids),
         NEW rule \in rules, NEW longer, longer = Append(ids, rule.rule_id)
  PROVE  KeysExtended(rules, ids, rule, longer)
<1> DEFINE S == KeySpace(rules)
           of(id) == KeysOf(CHOOSE r \in rules : r.rule_id = id)
           parts == [k \in DOMAIN ids |-> of(ids[k])]
           more == [k \in DOMAIN longer |-> of(longer[k])]
<1>1. /\ Len(ids) \in Nat /\ DOMAIN ids = 1 .. Len(ids)
      /\ DOMAIN longer = (DOMAIN ids) \cup {Len(ids) + 1}
      /\ \A k \in DOMAIN ids : longer[k] = ids[k]
      /\ longer[Len(ids) + 1] = rule.rule_id
  BY SequenceFacts, AppendFacts
<1>2. of(rule.rule_id) = KeysOf(rule) /\ KeysOf(rule) \in Seq(S)
  BY KeysAreKeys
<1>3. \A k \in DOMAIN ids : of(ids[k]) \in Seq(S)
  BY KeysAreKeys DEF KnownIds
<1> HIDE DEF S, of
<1>4. parts \in [1 .. Len(ids) -> Seq(S)]
  BY <1>1, <1>3
<1>5. parts \in Seq(Seq(S)) /\ Len(parts) = Len(ids)
  BY <1>1, <1>4
<1>6. more = Append(parts, KeysOf(rule))
  <2>1. DOMAIN more = 1 .. Len(ids) + 1
    BY <1>1
  <2>2. PICK part \in Seq(S) : part = KeysOf(rule)
    BY <1>2
  <2>3. PICK appended : appended = Append(parts, part)
    OBVIOUS
  <2>4. /\ DOMAIN appended = 1 .. Len(ids) + 1
        /\ \A k \in 1 .. Len(ids) : appended[k] = parts[k]
        /\ appended[Len(ids) + 1] = part
        /\ appended \in Seq(Seq(S)) /\ Len(appended) = Len(ids) + 1
    <3> HIDE DEF parts
    <3>. QED BY <1>1, <1>5, <2>3, AppendProperties, LenProperties
  <2>5. appended = [k \in 1 .. Len(ids) + 1 |-> appended[k]]
    BY <2>4
  <2>6. \A k \in 1 .. Len(ids) + 1 : more[k] = appended[k]
    BY <1>1, <1>2, <2>1, <2>2, <2>4
  <2>7. more = [k \in 1 .. Len(ids) + 1 |-> more[k]]
    BY <2>1
  <2> HIDE DEF more
  <2>8. more = appended
    BY <2>5, <2>6, <2>7
  <2>. QED BY <2>2, <2>3, <2>8
<1>7. FlattenSeq(parts) \in Seq(S) /\ FlattenSeq(more) = FlattenSeq(parts) \o KeysOf(rule)
  <2> HIDE DEF parts, more
  <2>. QED BY <1>2, <1>5, <1>6, FlattenAppend
<1>8. KeysIn(rules, ids) = FlattenSeq(parts) /\ KeysIn(rules, longer) = FlattenSeq(more)
  BY DEF KeysIn, of
<1>9. KnownIds(rules, longer)
  BY <1>1 DEF KnownIds
<1>. QED BY <1>7, <1>8, <1>9 DEF S, KeysExtended

Listed ==
  /\ KnownIds(ruleset, DoneIds)
  /\ Audited =>
       /\ KeysIn(ruleset, DoneIds) \in Seq(KeySpace(ruleset))
       /\ Len(KeysIn(ruleset, DoneIds)) = CommittedEvents
       /\ \A j \in 1 .. CommittedEvents : KeyAt(assignment_events, j) = KeysIn(ruleset, DoneIds)[j]

(* No rule, no keys.                                                       *)
LEMMA KeysEmpty == \A rules : KeysIn(rules, <<>>) = <<>> /\ KnownIds(rules, <<>>)
<1>1. \A rules : [k \in DOMAIN <<>> |-> KeysOf(CHOOSE r \in rules : r.rule_id = <<>>[k])] = <<>>
  <2>1. ASSUME NEW f, DOMAIN f = {}, f = [k \in {} |-> f[k]] PROVE f = <<>>
    <3>1. f \in [1 .. 0 -> {}]
      BY <2>1
    <3>. QED BY <3>1, EmptySeq
  <2>. QED BY <2>1, EmptySequence
<1>. QED BY <1>1, FlattenEmpty, EmptySequence DEF KeysIn, KnownIds

(* A row that starts or returns has listed nothing.                        *)
LEMMA EmptyListed ==
  /\ resolved = <<>> /\ assignment_events = <<>> /\ DoneIds = <<>> => Listed
  /\ resolved' = <<>> /\ assignment_events' = <<>> /\ DoneIds' = <<>> => Listed'
<1>1. \A S : <<>> \in Seq(S)
  OBVIOUS
<1>2. CommittedEvents = Len(assignment_events) - Len(resolved)
  BY DEF CommittedEvents
<1>3. CommittedEvents' = Len(assignment_events') - Len(resolved')
  BY DEF CommittedEvents
<1>4. Len(<<>>) = 0 /\ 0 - 0 = 0 /\ 1 .. 0 = {}
  BY EmptySequence
<1>5. ASSUME resolved = <<>>, assignment_events = <<>>, DoneIds = <<>> PROVE Listed
  BY <1>1, <1>2, <1>4, <1>5, KeysEmpty DEF Listed
<1>6. ASSUME resolved' = <<>>, assignment_events' = <<>>, DoneIds' = <<>> PROVE Listed'
  BY <1>1, <1>3, <1>4, <1>6, KeysEmpty DEF Listed
<1>. QED BY <1>5, <1>6

(* Committing a rule lists its events.                                     *)
LEMMA ListedCommitted ==
  ASSUME Sound, UnderWay, History, Listed, CommitRule
  PROVE  Listed'
<1>1. /\ phase = "resolve" /\ resolved' = <<>> /\ Len(resolved) = Len(Rule.assignments)
      /\ UNCHANGED <<ruleset, mode, assignment_events>> /\ remaining # <<>>
  BY DEF CommitRule, Sound, Shape
<1>2. PICK rules : rules = ruleset
  OBVIOUS
<1>3. WellFormedRuleset(rules) /\ Rule \in rules
  BY <1>1, <1>2, RulesetOK DEF Sound
<1>4. PICK rule \in rules : rule = Rule
  BY <1>3
<1>5. PICK ids : ids = DoneIds
  OBVIOUS
<1>6. PICK longer : longer = Append(ids, rule.rule_id)
  OBVIOUS
<1>7. IsSequence(ids) /\ KnownIds(rules, ids) /\ DoneIds' = longer
  BY <1>2, <1>4, <1>5, <1>6, DoneIdsCommitted DEF Listed
<1>8. /\ KeysIn(rules, ids) \in Seq(KeySpace(rules))
      /\ KeysIn(rules, longer) = KeysIn(rules, ids) \o KeysOf(rule)
      /\ KnownIds(rules, longer)
  <2>1. KeysExtended(rules, ids, rule, longer)
    BY <1>3, <1>6, <1>7, KeysAppend
  <2>. QED BY <2>1 DEF KeysExtended
<1>9. CASE ~Audited
  BY <1>1, <1>2, <1>7, <1>8, <1>9 DEF Listed, Audited
<1>10. CASE Audited
  <2>1. PICK c : c = CommittedEvents
    OBVIOUS
  <2>2. PICK n : n = Len(assignment_events)
    OBVIOUS
  <2>3. PICK done \in Seq(KeySpace(rules)) : done = KeysIn(rules, ids)
    BY <1>8
  <2>4. PICK part \in Seq(KeySpace(rules)) : part = KeysOf(rule)
    BY <1>3, KeysAreKeys
  <2>5. /\ Len(part) = Len(rule.assignments) /\ Len(done) = c /\ n \in Nat
        /\ Len(resolved) = Len(part) /\ n = c + Len(part) /\ c \in Nat /\ Len(part) \in Nat
        /\ CommittedEvents' = n /\ DOMAIN resolved = 1 .. Len(part)
        /\ DOMAIN rule.assignments = 1 .. Len(part)
    <3>1. Len(part) = Len(rule.assignments) /\ Len(part) \in Nat
      BY <1>3, <2>4, KeysAreKeys
    <3>2. Len(done) = c /\ Len(done) \in Nat
      BY <1>2, <1>5, <1>10, <2>1, <2>3, LenProperties DEF Listed
    <3>3. n \in Nat /\ DOMAIN resolved = 1 .. Len(resolved) /\ Len(<<>>) = 0
      BY <2>2, SequenceFacts, EmptySequence DEF Sound, Shape, SequencesOK
    <3>4. n = c + Len(resolved) /\ CommittedEvents' = n
      BY <1>1, <1>4, <2>1, <2>2, <3>1, <3>3 DEF CommittedEvents
    <3>5. DOMAIN rule.assignments = 1 .. Len(rule.assignments)
      BY <1>1, <1>4, RulesetOK, SequenceFacts DEF Sound
    <3>. QED BY <1>1, <1>4, <3>1, <3>2, <3>3, <3>4, <3>5
  <2>6. PICK whole : whole = done \o part
    OBVIOUS
  <2>7. /\ whole \in Seq(KeySpace(rules)) /\ Len(whole) = n
        /\ \A j \in 1 .. n : whole[j] = IF j <= c THEN done[j] ELSE part[j - c]
    BY <2>5, <2>6, ConcatProperties
  <2>8. ASSUME NEW j \in 1 .. n PROVE KeyAt(assignment_events, j) = whole[j]
    <3>1. CASE j <= c
      <4>1. j \in 1 .. c /\ whole[j] = done[j]
        BY <2>5, <2>7, <3>1
      <4>2. KeyAt(assignment_events, j) = done[j]
        BY <1>2, <1>5, <1>10, <2>1, <2>3, <4>1 DEF Listed
      <4>. QED BY <4>1, <4>2
    <3>2. CASE ~(j <= c)
      <4>1. PICK i \in 1 .. Len(part) : j = c + i
        <5>1. j - c \in 1 .. Len(part) /\ j = c + (j - c)
          BY <2>5, <3>2
        <5>. QED BY <5>1
      <4>2. whole[j] = part[i]
        BY <2>5, <2>7, <3>2, <4>1
      <4>3. part[i] = <<rule.rule_id, rule.assignments[i].assignment_id>>
        BY <2>4, <2>5 DEF KeysOf
      <4>4. RecordOf(assignment_events[j]) =
              [value |-> resolved[i], rule_id |-> rule.rule_id,
               assignment_id |-> rule.assignments[i].assignment_id]
        BY <1>4, <1>10, <2>1, <2>5, <4>1 DEF History, CurrentEvents
      <4>5. /\ assignment_events[j].rule_id = rule.rule_id
            /\ assignment_events[j].assignment_id = rule.assignments[i].assignment_id
        BY <4>4 DEF RecordOf
      <4>. QED BY <4>2, <4>3, <4>5 DEF KeyAt
    <3>. QED BY <3>1, <3>2
  <2>9. KeysIn(rules, longer) = whole
    BY <1>8, <2>3, <2>4, <2>6
  <2>. QED BY <1>1, <1>2, <1>7, <1>8, <2>5, <2>7, <2>8, <2>9 DEF Listed, KeyAt
<1>. QED BY <1>9, <1>10

(* Resolving an assignment leaves the committed events as they are.        *)
LEMMA EventsExtended ==
  ASSUME Sound, History, Audited, ResolveAssignment
  PROVE  /\ CommittedEvents' = CommittedEvents
         /\ \A j \in 1 .. CommittedEvents : assignment_events'[j] = assignment_events[j]
<1>1. PICK e, v : assignment_events' = Append(assignment_events, e) /\ resolved' = Append(resolved, v)
  BY DEF ResolveAssignment
<1>2. PICK events : events = assignment_events
  OBVIOUS
<1>3. PICK longer : longer = Append(events, e)
  OBVIOUS
<1>4. PICK values : values = resolved
  OBVIOUS
<1>5. PICK more : more = Append(values, v)
  OBVIOUS
<1>6. /\ Len(events) \in Nat /\ DOMAIN events = 1 .. Len(events)
      /\ Len(longer) = Len(events) + 1
      /\ \A j \in 1 .. Len(events) : longer[j] = events[j]
      /\ Len(values) \in Nat /\ Len(more) = Len(values) + 1
  BY <1>2, <1>3, <1>4, <1>5, SequenceFacts, AppendFacts DEF Sound, Shape, SequencesOK
<1>7. Len(values) <= Len(events)
  BY <1>2, <1>4 DEF History, CurrentEvents
<1>. QED BY <1>1, <1>2, <1>3, <1>4, <1>5, <1>6, <1>7 DEF CommittedEvents

(* Every step keeps the committed events those of the rules done.          *)
LEMMA StepListed ==
  ASSUME Sound, UnderWay, History, Listed, Next
  PROVE  Listed'
<1>1. ASSUME NEW m \in Modes, StartRow(m) PROVE Listed'
  <2>1. resolved' = <<>> /\ assignment_events' = <<>> /\ DoneIds = <<>>
    BY <1>1 DEF StartRow, Sound, Shape, Idle, DoneIds
  <2>. QED BY <1>1, <2>1, DoneIdsKept, EmptyListed
<1>2. ASSUME SkipRule \/ MatchRule PROVE Listed'
  <2>1. /\ UNCHANGED <<ruleset, mode, resolved, assignment_events>> /\ DoneIds' = DoneIds
    BY <1>2, DoneIdsKept DEF SkipRule, MatchRule
  <2>. QED BY <2>1 DEF Listed, Audited, CommittedEvents, KeyAt
<1>3. ASSUME ResolveAssignment PROVE Listed'
  <2>1. UNCHANGED <<ruleset, mode>> /\ DoneIds' = DoneIds
    BY <1>3, DoneIdsKept DEF ResolveAssignment
  <2>2. CASE ~Audited
    BY <2>1, <2>2 DEF Listed, Audited
  <2>3. CASE Audited
    BY <1>3, <2>1, <2>3, EventsExtended DEF Listed, Audited, KeyAt
  <2>. QED BY <2>2, <2>3
<1>4. ASSUME RowRaises \/ FinishRow PROVE Listed'
  <2>1. resolved' = <<>> /\ assignment_events' = <<>> /\ DoneIds' = <<>>
    BY <1>4 DEF RowRaises, FinishRow, Return, Fresh, DoneIds
  <2>. QED BY <2>1, EmptyListed
<1>. QED BY <1>1, <1>2, <1>3, <1>4, ListedCommitted DEF Next, Step

FollowsMatches(results, rules, ids) ==
  [i \in DOMAIN results |-> <<results[i].rule_id, results[i].assignment_id>>] = KeysIn(rules, ids)

(* HistoryFollowsMatches in terms of keys, before and after a step.        *)
LEMMA HistoryIsKeys ==
  /\ HistoryFollowsMatches <=>
       (Succeeded("full_audit") =>
          FollowsMatches(Results, ruleset, payload["full_audit"].matched_rule_ids))
  /\ HistoryFollowsMatches' <=>
       (payload["full_audit"]'.status = "success" =>
          FollowsMatches(Results', ruleset', payload["full_audit"]'.matched_rule_ids))
BY DEF HistoryFollowsMatches, FollowsMatches, KeysIn, KeysOf, Succeeded, RuleWithId

(* The result a row returns lists the keys of its matched rules.           *)
LEMMA FinishedFollows ==
  ASSUME Sound, Listed, Audited, resolved = <<>>, DoneIds = matched_rule_ids,
         UNCHANGED ruleset, payload["full_audit"]' = SuccessPayload
  PROVE  HistoryFollowsMatches'
<1>1. PICK events : events = assignment_events
  OBVIOUS
<1>2. PICK results : results = AssignmentResults(events)
  OBVIOUS
<1>3. PICK n : n = Len(events)
  OBVIOUS
<1>4. IsSequence(events) /\ n \in Nat /\ DOMAIN events = 1 .. n
  BY <1>1, <1>3, SequenceFacts DEF Sound, Shape, SequencesOK
<1>5. CommittedEvents = n
  BY <1>1, <1>3, <1>4, EmptySequence DEF CommittedEvents
<1>6. PICK done \in Seq(KeySpace(ruleset)) : done = KeysIn(ruleset, matched_rule_ids)
  BY DEF Listed
<1>7. Len(done) = n /\ \A j \in 1 .. n : KeyAt(events, j) = done[j]
  BY <1>1, <1>5, <1>6 DEF Listed
<1>8. done = [j \in 1 .. n |-> KeyAt(events, j)]
  <2>1. done = [j \in 1 .. n |-> done[j]]
    BY <1>4, <1>6, <1>7
  <2>. QED BY <1>7, <2>1
<1>9. [i \in DOMAIN results |-> <<results[i].rule_id, results[i].assignment_id>>]
        = [j \in 1 .. n |-> KeyAt(events, j)]
  BY <1>2, <1>4, ResultFields DEF KeyAt
<1>10. /\ Results' = results /\ payload["full_audit"]'.matched_rule_ids = matched_rule_ids
  BY <1>1, <1>2 DEF Results, SuccessPayload
<1>11. FollowsMatches(results, ruleset, matched_rule_ids)
  BY <1>6, <1>8, <1>9 DEF FollowsMatches
<1>. QED BY <1>10, <1>11, HistoryIsKeys

(* Every step keeps the returned list.                                     *)
LEMMA StepFollows ==
  ASSUME Sound, Listed, HistoryFollowsMatches, Next
  PROVE  HistoryFollowsMatches'
<1>1. CASE payload["full_audit"]' = payload["full_audit"]
  <2>1. Results' = Results /\ ruleset' = ruleset
    BY <1>1, AuditReturns DEF Results
  <2>. QED BY <1>1, <2>1, HistoryIsKeys DEF Succeeded
<1>2. CASE payload["full_audit"]' = ErrorPayload
  <2>1. payload["full_audit"]'.status # "success"
    BY <1>2, ResultStatus
  <2>. QED BY <2>1, HistoryIsKeys
<1>. QED BY <1>1, <1>2, AuditReturns, FinishedFollows

(* The returned history lists the assignments of the matched rules, all of *)
(* them and in evaluation order (spark_runtime.py).                        *)
THEOREM HistoryIsComplete == Spec => []HistoryFollowsMatches
<1> DEFINE Kept == UnderWay /\ History /\ Listed /\ HistoryFollowsMatches
<1>1. Init => Kept
  <2>1. Init => UnderWay /\ History /\ Listed
    BY EmptyHistory, EmptyListed DEF Init, UnderWay, DoneIds
  <2>2. Init => payload["full_audit"].status = "none"
    BY DEF Init, NoPayload, Modes
  <2>. QED BY <2>1, <2>2, HistoryIsKeys DEF Succeeded
<1>2. Sound /\ Kept /\ [Next]_vars => Kept'
  <2>1. Sound /\ Kept /\ Next => Kept'
    BY StepUnderWay, StepHistory, StepListed, StepFollows
  <2>2. Kept /\ UNCHANGED vars => Kept'
    <3>1. UnderWay /\ Listed /\ UNCHANGED vars => UnderWay' /\ Listed'
      BY DEF vars, UnderWay, Rule, Listed, Audited, DoneIds, CommittedEvents, KeyAt
    <3>2. HistoryFollowsMatches /\ UNCHANGED vars => HistoryFollowsMatches'
      BY HistoryIsKeys DEF vars, Results, Succeeded
    <3>. QED BY <3>1, <3>2, HistoryStutters
  <2>. QED BY <2>1, <2>2
<1>. QED BY <1>1, <1>2, SoundAlways, PTL DEF Spec

(***************************************************************************)
(* Both modes decide alike.  The decision of a row is a run of positions,  *)
(* each determined by the one before, so that two runs end in the same one.*)
(***************************************************************************)
PositionStart(rules) == [remaining |-> rules, matched |-> <<>>, committed |-> NothingAssigned]

ProposedFrom(rule, i, source, committed) ==
  SparkAssignmentValue(Resolve(rule.assignments[i].value, source, committed),
                       rule.assignments[i].target_field)

RaisesFrom(rule, source, committed) ==
  \/ RuleMatches(rule, source, committed) = "raised"
  \/ /\ RuleMatches(rule, source, committed) = "true"
     /\ \E i \in DOMAIN rule.assignments : ProposedFrom(rule, i, source, committed) = Raised

CommittedFrom(rule, source, committed) ==
  [t \in Targets |->
     IF \E i \in DOMAIN rule.assignments : rule.assignments[i].target_field = t
     THEN LET i == CHOOSE i \in DOMAIN rule.assignments : rule.assignments[i].target_field = t
          IN  [value |-> ProposedFrom(rule, i, source, committed), rule_id |-> rule.rule_id,
               assignment_id |-> rule.assignments[i].assignment_id]
     ELSE committed[t]]

Ends(p, source) == p.remaining = <<>> \/ RaisesFrom(Head(p.remaining), source, p.committed)

After(p, source) ==
  LET rule == Head(p.remaining)
  IN  IF RuleMatches(rule, source, p.committed) = "false"
      THEN [remaining |-> Tail(p.remaining), matched |-> p.matched, committed |-> p.committed]
      ELSE [remaining |-> IF rule.stop_on_match THEN <<>> ELSE Tail(p.remaining),
            matched |-> Append(p.matched, rule.rule_id),
            committed |-> CommittedFrom(rule, source, p.committed)]

Run(trace, n, rules, source) ==
  /\ n \in Nat /\ trace[0] = PositionStart(rules)
  /\ \A i \in 0 .. n - 1 : ~Ends(trace[i], source) /\ trace[i + 1] = After(trace[i], source)

RunEnds(trace, n, rules, source) == Run(trace, n, rules, source) /\ Ends(trace[n], source)

(* Two runs over the same row go through the same positions.               *)
LEMMA RunsAgree ==
  ASSUME NEW rules, NEW source, NEW a, NEW n, Run(a, n, rules, source),
         NEW b, NEW k, Run(b, k, rules, source), n <= k
  PROVE  \A i \in 0 .. n : a[i] = b[i]
<1> DEFINE T == {i \in Nat : i <= n => a[i] = b[i]}
<1>1. n \in Nat /\ k \in Nat
  BY DEF Run
<1>2. 0 \in T
  BY DEF Run
<1>3. ASSUME NEW i \in Nat, i \in T PROVE i + 1 \in T
  <2>1. SUFFICES ASSUME i + 1 <= n PROVE a[i + 1] = b[i + 1]
    OBVIOUS
  <2>2. a[i] = b[i] /\ i \in 0 .. n - 1 /\ i \in 0 .. k - 1
    BY <1>1, <1>3, <2>1
  <2>. QED BY <2>2 DEF Run
<1>4. Nat \subseteq T
  <2> HIDE DEF T
  <2>. QED BY <1>2, <1>3, Inductive
<1>. QED BY <1>1, <1>4

(* The shorter of two runs that end is the other one.                      *)
LEMMA EndsAreLast ==
  ASSUME NEW rules, NEW source, NEW a, NEW n, RunEnds(a, n, rules, source),
         NEW b, NEW k, RunEnds(b, k, rules, source), n <= k
  PROVE  a[n] = b[k]
<1>1. n \in Nat /\ k \in Nat /\ Run(a, n, rules, source) /\ Run(b, k, rules, source)
      /\ Ends(a[n], source) /\ Ends(b[k], source)
  BY DEF RunEnds, Run
<1>2. \A i \in 0 .. n : a[i] = b[i]
  BY <1>1, RunsAgree
<1>3. a[n] = b[n]
  BY <1>1, <1>2
<1>4. n = k
  <2>1. SUFFICES ASSUME n < k PROVE FALSE
    BY <1>1
  <2>2. n \in 0 .. k - 1
    BY <1>1, <2>1
  <2>. QED BY <1>1, <1>3, <2>2 DEF Run
<1>. QED BY <1>3, <1>4

(* Two runs from the same rules over the same row end alike.               *)
LEMMA OneEnd ==
  ASSUME NEW rules, NEW source, NEW a, NEW n, RunEnds(a, n, rules, source),
         NEW b, NEW k, RunEnds(b, k, rules, source)
  PROVE  a[n] = b[k]
<1>1. n \in Nat /\ k \in Nat
  BY DEF RunEnds, Run
<1>2. CASE n <= k
  BY <1>2, EndsAreLast
<1>3. CASE k <= n
  BY <1>3, EndsAreLast
<1>. QED BY <1>1, <1>2, <1>3

(* A run that has not ended has one more position.                         *)
LEMMA RunGoesOn ==
  ASSUME NEW rules, NEW source, NEW trace, NEW n, Run(trace, n, rules, source),
         ~Ends(trace[n], source)
  PROVE  \E longer : /\ Run(longer, n + 1, rules, source)
                     /\ longer[n + 1] = After(trace[n], source)
<1>1. n \in Nat
  BY DEF Run
<1> DEFINE longer == [i \in 0 .. n + 1 |-> IF i <= n THEN trace[i] ELSE After(trace[n], source)]
<1>2. longer[0] = PositionStart(rules) /\ longer[n + 1] = After(trace[n], source)
  BY <1>1 DEF Run
<1>3. ASSUME NEW i \in 0 .. (n + 1) - 1
      PROVE  ~Ends(longer[i], source) /\ longer[i + 1] = After(longer[i], source)
  <2>1. longer[i] = trace[i] /\ i \in 0 .. n
    BY <1>1
  <2>2. CASE i = n
    BY <1>2, <2>1, <2>2
  <2>3. CASE i # n
    <3>1. i \in 0 .. n - 1 /\ longer[i + 1] = trace[i + 1]
      BY <1>1, <2>1, <2>3
    <3> HIDE DEF longer
    <3>. QED BY <2>1, <3>1 DEF Run
  <2>. QED BY <2>2, <2>3
<1> HIDE DEF longer
<1>. QED BY <1>1, <1>2, <1>3 DEF Run

Position == [remaining |-> remaining, matched |-> DoneIds, committed |-> assigned_values]

Reached ==
  mode # NoId =>
    \E n, trace : Run(trace, n, ActiveRules(ruleset), row) /\ trace[n] = Position

VerdictOn(p) ==
  IF p.remaining = <<>> THEN <<"success", p.matched, AssignPayload(p.committed)>>
  ELSE <<"error", <<>>, AssignPayload(NothingAssigned)>>

BusinessOf(result) == <<result.status, result.matched_rule_ids, result.assign>>

Concluded(modes) ==
  \A m \in modes : Finished(m) =>
    \E n, trace : /\ RunEnds(trace, n, ActiveRules(ruleset), row)
                  /\ BusinessOf(payload[m]) = VerdictOn(trace[n])

(* Modes that conclude from runs agree.                                    *)
LEMMA AlikeConcluded == Concluded(Modes) => ModesAgree
<1> SUFFICES ASSUME Concluded(Modes), Finished("compact"), Finished("full_audit")
             PROVE  BusinessOf(payload["compact"]) = BusinessOf(payload["full_audit"])
  BY DEF ModesAgree, BusinessOf
<1>1. PICK n, a : /\ RunEnds(a, n, ActiveRules(ruleset), row)
                  /\ BusinessOf(payload["compact"]) = VerdictOn(a[n])
  BY DEF Concluded, Modes
<1>2. PICK k, b : /\ RunEnds(b, k, ActiveRules(ruleset), row)
                  /\ BusinessOf(payload["full_audit"]) = VerdictOn(b[k])
  BY DEF Concluded, Modes
<1>3. PICK rules : rules = ActiveRules(ruleset)
  OBVIOUS
<1>4. PICK source : source = row
  OBVIOUS
<1>5. a[n] = b[k]
  BY <1>1, <1>2, <1>3, <1>4, OneEnd
<1>. QED BY <1>1, <1>2, <1>5

(* The operators of a position are those of the row decision.              *)
LEMMA PositionIsDecision ==
  /\ Decision!RuleRaises(Rule) <=> RaisesFrom(Rule, row, assigned_values)
  /\ Decision!CommittedBy(Rule) = CommittedFrom(Rule, row, assigned_values)
BY DEF Decision!RuleRaises, RaisesFrom, Decision!CommittedBy, CommittedFrom, Decision!Proposed,
       ProposedFrom

(* A step to the next position extends the run.                            *)
LEMMA RunContinues ==
  ASSUME mode # NoId, Reached, ~Ends(Position, row), Position' = After(Position, row),
         UNCHANGED <<ruleset, row>>
  PROVE  Reached'
<1>1. PICK n, trace : Run(trace, n, ActiveRules(ruleset), row) /\ trace[n] = Position
  BY DEF Reached
<1>2. PICK rules : rules = ActiveRules(ruleset)
  OBVIOUS
<1>3. PICK source : source = row
  OBVIOUS
<1>4. PICK longer : /\ Run(longer, n + 1, rules, source)
                    /\ longer[n + 1] = After(trace[n], source)
  BY <1>1, <1>2, <1>3, RunGoesOn
<1>5. Run(longer, n + 1, ActiveRules(ruleset), row)' /\ (longer[n + 1] = Position)'
  BY <1>1, <1>2, <1>3, <1>4 DEF Run, PositionStart, NothingAssigned
<1>. QED BY <1>5 DEF Reached

(* Every step keeps the worker at a position its run reaches.              *)
LEMMA StepReached ==
  ASSUME Sound, UnderWay, Reached, Next
  PROVE  Reached'
<1>1. ASSUME NEW m \in Modes, StartRow(m) PROVE Reached'
  <2>1. /\ remaining' = ActiveRules(ruleset) /\ DoneIds' = DoneIds /\ DoneIds = <<>>
        /\ assigned_values' = NothingAssigned /\ UNCHANGED <<ruleset, row>>
    BY <1>1, DoneIdsKept DEF StartRow, Sound, Shape, Idle, DoneIds
  <2>2. Position' = PositionStart(ActiveRules(ruleset))
    BY <2>1 DEF Position, PositionStart
  <2>3. PICK trace : trace = [i \in {0} |-> PositionStart(ActiveRules(ruleset))]
    OBVIOUS
  <2>4. Run(trace, 0, ActiveRules(ruleset), row) /\ trace[0] = PositionStart(ActiveRules(ruleset))
    BY <2>3 DEF Run
  <2>5. Run(trace, 0, ActiveRules(ruleset), row)' /\ (trace[0] = Position)'
    BY <2>1, <2>2, <2>4 DEF Run, PositionStart, NothingAssigned
  <2>. QED BY <2>5 DEF Reached
<1>2. ASSUME SkipRule PROVE Reached'
  <2>1. /\ mode # NoId /\ remaining # <<>> /\ remaining' = Tail(remaining)
        /\ RuleMatches(Head(remaining), row, assigned_values) = "false"
        /\ UNCHANGED <<ruleset, row, assigned_values>> /\ DoneIds' = DoneIds
    BY <1>2, RuleSkipped, DoneIdsKept DEF SkipRule, Decision!SkipRule
  <2>2. ~Ends(Position, row)
    BY <2>1 DEF Ends, RaisesFrom, Position
  <2>3. Position' = After(Position, row)
    BY <2>1 DEF Position, After
  <2>. QED BY <2>1, <2>2, <2>3, RunContinues
<1>3. ASSUME MatchRule \/ ResolveAssignment PROVE Reached'
  <2>1. UNCHANGED <<ruleset, row, mode, remaining, assigned_values>> /\ DoneIds' = DoneIds
    BY <1>3, DoneIdsKept DEF MatchRule, ResolveAssignment
  <2>. QED BY <2>1 DEF Reached, Position, Run, PositionStart, NothingAssigned
<1>4. ASSUME CommitRule PROVE Reached'
  <2>1. /\ mode # NoId /\ remaining # <<>>
        /\ RuleMatches(Head(remaining), row, assigned_values) = "true"
        /\ ~Decision!RuleRaises(Rule)
        /\ assigned_values' = Decision!CommittedBy(Rule)
        /\ remaining' = IF Rule.stop_on_match THEN <<>> ELSE Tail(remaining)
        /\ UNCHANGED <<ruleset, row>>
    BY <1>4, RuleApplied DEF Decision!ApplyRule, Rule
  <2>2. DoneIds' = Append(DoneIds, Rule.rule_id)
    BY <1>4, DoneIdsCommitted
  <2>3. ~Ends(Position, row)
    BY <2>1, PositionIsDecision DEF Ends, Position, Rule
  <2>4. Position' = After(Position, row)
    BY <2>1, <2>2, PositionIsDecision DEF Position, After, Rule
  <2>. QED BY <2>1, <2>3, <2>4, RunContinues
<1>5. ASSUME RowRaises \/ FinishRow PROVE Reached'
  BY <1>5 DEF RowRaises, FinishRow, Return, Reached
<1>. QED BY <1>1, <1>2, <1>3, <1>4, <1>5 DEF Next, Step

(* Runs depend on the row alone.                                           *)
LEMMA RunsKept ==
  ASSUME UNCHANGED <<ruleset, row>>
  PROVE  \A n, trace : /\ RunEnds(trace, n, ActiveRules(ruleset), row)' <=>
                            RunEnds(trace, n, ActiveRules(ruleset), row)
                       /\ \A p : VerdictOn(p)' = VerdictOn(p)
BY DEF RunEnds, Run, PositionStart, NothingAssigned, VerdictOn, AssignPayload

(* Every step keeps the results those of runs that end; only the audited   *)
(* evaluation needs that source columns fit.                               *)
LEMMA StepConcluded ==
  ASSUME NEW modes \in SUBSET Modes, "full_audit" \in modes => SourcesFit,
         Sound, UnderWay, Reached, Concluded(modes), Next
  PROVE  Concluded(modes)'
<1>1. UNCHANGED <<ruleset, row>>
  BY AuditReturns
<1>2. ASSUME payload' = payload PROVE Concluded(modes)'
  BY <1>1, <1>2, RunsKept DEF Concluded, Finished, BusinessOf
<1>3. ASSUME NEW result, mode # NoId, Return(result),
             mode \in modes => Ends(Position, row) /\ BusinessOf(result) = VerdictOn(Position)
      PROVE  Concluded(modes)'
  <2>1. /\ payload' = [payload EXCEPT ![mode] = result] /\ payload = [m \in Modes |-> payload[m]]
    BY <1>3 DEF Return, Sound, Shape
  <2>2. \A m \in Modes : payload'[m] = IF m = mode THEN result ELSE payload[m]
    BY <2>1
  <2>3. PICK n, trace : Run(trace, n, ActiveRules(ruleset), row) /\ trace[n] = Position
    BY <1>3 DEF Reached
  <2>4. mode \in modes => /\ RunEnds(trace, n, ActiveRules(ruleset), row)
                          /\ BusinessOf(result) = VerdictOn(trace[n])
    BY <1>3, <2>3 DEF RunEnds
  <2>5. ASSUME NEW m \in modes, payload'[m].status # "none"
        PROVE  \E k, b : /\ RunEnds(b, k, ActiveRules(ruleset), row)
                         /\ BusinessOf(payload'[m]) = VerdictOn(b[k])
    <3>1. CASE m = mode
      BY <2>2, <2>4, <3>1
    <3>2. CASE m # mode
      BY <2>2, <2>5, <3>2 DEF Concluded, Finished
    <3>. QED BY <3>1, <3>2
  <2>. QED BY <1>1, <2>5, RunsKept DEF Concluded, Finished, BusinessOf
<1>4. ASSUME RowRaises PROVE Concluded(modes)'
  <2>1. mode # NoId /\ remaining # <<>> /\ Return(ErrorPayload)
    BY <1>4 DEF RowRaises, AtRule, Resolving, Sound, Shape
  <2>2. ASSUME mode \in modes
        PROVE  Ends(Position, row) /\ BusinessOf(ErrorPayload) = VerdictOn(Position)
    <3>1. Decision!RuleRaises(Rule)
      BY <1>4, <2>2, RowFailed DEF Audited, Decision!FailRow, Rule
    <3>2. Ends(Position, row)
      BY <3>1, PositionIsDecision DEF Ends, Position, Rule
    <3>3. BusinessOf(ErrorPayload) = VerdictOn(Position)
      BY <2>1 DEF BusinessOf, ErrorPayload, VerdictOn, Position
    <3>. QED BY <3>2, <3>3
  <2>. QED BY <1>3, <2>1, <2>2
<1>5. ASSUME FinishRow PROVE Concluded(modes)'
  <2>1. mode # NoId /\ phase = "match" /\ remaining = <<>> /\ Return(SuccessPayload)
    BY <1>5 DEF FinishRow
  <2>2. Ends(Position, row)
    BY <2>1 DEF Ends, Position
  <2>3. BusinessOf(SuccessPayload) = VerdictOn(Position)
    BY <2>1 DEF BusinessOf, SuccessPayload, VerdictOn, Position, DoneIds
  <2>. QED BY <1>3, <2>1, <2>2, <2>3
<1>. QED BY <1>2, <1>4, <1>5 DEF Next, Step, StartRow, SkipRule, MatchRule, ResolveAssignment, CommitRule

(* Every result is that of the end of a run; of the audited evaluation,    *)
(* where source columns fit.                                               *)
LEMMA ConcludedAlways ==
  ASSUME NEW modes \in SUBSET Modes, "full_audit" \in modes => SourcesFit
  PROVE  Spec => [](Sound /\ Concluded(modes))
<1> DEFINE Kept == UnderWay /\ Reached /\ Concluded(modes)
<1>1. Init => Kept
  <2>1. Init => UnderWay /\ Reached
    BY DEF Init, UnderWay, Reached
  <2>2. Init => Concluded(modes)
    BY DEF Init, Concluded, Finished, NoPayload
  <2>. QED BY <2>1, <2>2
<1>2. Sound /\ Kept /\ [Next]_vars => Kept'
  <2>1. Sound /\ Kept /\ Next => Kept'
    BY StepUnderWay, StepReached, StepConcluded
  <2>2. Kept /\ UNCHANGED vars => Kept'
    <3>1. UnderWay /\ UNCHANGED vars => UnderWay'
      BY DEF vars, UnderWay, Rule
    <3>2. Reached /\ UNCHANGED vars => Reached'
      BY DEF vars, Reached, Position, DoneIds, Run, PositionStart, NothingAssigned
    <3>3. Concluded(modes) /\ UNCHANGED vars => Concluded(modes)'
      BY RunsKept DEF vars, Concluded, Finished, BusinessOf
    <3>. QED BY <3>1, <3>2, <3>3
  <2>. QED BY <2>1, <2>2
<1>. QED BY <1>1, <1>2, SoundAlways, PTL DEF Spec

(* README.md:607: full audit does not change matching or assignment        *)
(* results, wherever no source column raises when it is typed as the       *)
(* target it also is.  The run row_audit_nonfinite shows why that is       *)
(* needed: full audit types the replaced source value, compact does not.   *)
THEOREM AuditChangesNothing ==
  ASSUME SourcesFit
  PROVE  Spec => []ModesAgree
<1>1. PICK modes \in SUBSET Modes : modes = Modes
  OBVIOUS
<1>2. Spec => [](Sound /\ Concluded(modes))
  BY ConcludedAlways
<1>3. Concluded(modes) => ModesAgree
  BY <1>1, AlikeConcluded
<1>. QED BY <1>2, <1>3, PTL

(***************************************************************************)
(* The result of a row is RowOutcome of it: the run of a row passes        *)
(* through the states of that loop.                                        *)
(***************************************************************************)

(* What is left of the rules from position i on.                           *)
Rest(left, rules, i) ==
  /\ left \in Seq(ToSet(rules)) /\ Len(left) = Len(rules) - i
  /\ \A k \in 1 .. Len(rules) - i : left[k] = rules[i + k]

AtState(p, s, rules, i) ==
  /\ s = [matched_rule_ids |-> p.matched, assigned_values |-> p.committed,
          stopped |-> s.stopped, error |-> FALSE]
  /\ s.stopped => p.remaining = <<>>
  /\ ~s.stopped => Rest(p.remaining, rules, i)

(* A rule matches, does not or raises.                                     *)
LEMMA RuleIsMatched ==
  ASSUME NEW rule, WellFormedRule(rule), NEW source, NEW committed
  PROVE  RuleMatches(rule, source, committed) \in Matched
<1>1. PICK groups : groups = rule.groups
  OBVIOUS
<1>2. PICK matches : matches = GroupMatches(groups, source, committed)
  OBVIOUS
<1>3. WellFormedGroups(groups) /\ 1 \in 1 .. Len(groups)
  <2>1. WellFormedGroups(groups)
    BY <1>1 DEF WellFormedRule
  <2>. QED BY <2>1, EmptySeq, LenProperties DEF WellFormedGroups
<1>4. SilentGroup(groups, source, committed, matches, 1)
  BY <1>2, <1>3, GroupsUnfold
<1>. QED BY <1>1, <1>2, <1>4 DEF SilentGroup, Combined, Verdict, Matched, RuleMatches

(* The values of a rule are the same in both descriptions: it has at most  *)
(* one assignment to a target.                                             *)
LEMMA CommitsAlike ==
  ASSUME NEW rule, WellFormedRule(rule), NEW source, NEW committed,
         NEW proposed, proposed = ProposedValues(rule, source, committed)
  PROVE  /\ Raised \in ToSet(proposed) <=>
              \E i \in DOMAIN rule.assignments : ProposedFrom(rule, i, source, committed) = Raised
         /\ Commit(rule, proposed, committed) = CommittedFrom(rule, source, committed)
<1>1. PICK n \in Nat : DOMAIN rule.assignments = 1 .. n
  BY LenProperties DEF WellFormedRule
<1>2. /\ DOMAIN proposed = 1 .. n
      /\ \A i \in 1 .. n : proposed[i] = ProposedFrom(rule, i, source, committed)
  BY <1>1 DEF ProposedValues, ProposedFrom
<1>3. Raised \in ToSet(proposed) <=> \E i \in 1 .. n : proposed[i] = Raised
  BY <1>2 DEF ToSet
<1>4. ASSUME NEW t \in Targets
      PROVE  Commit(rule, proposed, committed)[t] = CommittedFrom(rule, source, committed)[t]
  <2> DEFINE made == {i \in 1 .. n : rule.assignments[i].target_field = t}
  <2>1. Commit(rule, proposed, committed)[t] =
          IF made = {} THEN committed[t]
          ELSE [value |-> proposed[Max(made)], rule_id |-> rule.rule_id,
                assignment_id |-> rule.assignments[Max(made)].assignment_id]
    BY <1>2 DEF Commit
  <2>2. CASE made = {}
    <3>1. ~\E i \in DOMAIN rule.assignments : rule.assignments[i].target_field = t
      BY <1>1, <2>2
    <3>. QED BY <2>1, <2>2, <3>1 DEF CommittedFrom
  <2>3. CASE made # {}
    <3>1. PICK i : i = Max(made)
      OBVIOUS
    <3>2. i \in made
      <4> HIDE DEF made
      <4>1. made \in SUBSET (1 .. n)
        BY DEF made
      <4>. QED BY <2>3, <3>1, <4>1, MaxFacts
    <3>3. i \in 1 .. n /\ rule.assignments[i].target_field = t
      BY <3>2
    <3>4. \A j \in 1 .. n : rule.assignments[j].target_field = t => j = i
      BY <1>1, <3>3 DEF WellFormedRule
    <3>5. (CHOOSE j \in DOMAIN rule.assignments : rule.assignments[j].target_field = t) = i
      BY <1>1, <3>3, <3>4
    <3>6. CommittedFrom(rule, source, committed)[t] =
            [value |-> ProposedFrom(rule, i, source, committed), rule_id |-> rule.rule_id,
             assignment_id |-> rule.assignments[i].assignment_id]
      BY <1>1, <3>3, <3>5 DEF CommittedFrom
    <3> HIDE DEF made
    <3>. QED BY <1>2, <2>1, <2>3, <3>1, <3>3, <3>6
  <2>. QED BY <2>2, <2>3
<1>5. /\ Commit(rule, proposed, committed) =
           [t \in Targets |-> Commit(rule, proposed, committed)[t]]
      /\ CommittedFrom(rule, source, committed) =
           [t \in Targets |-> CommittedFrom(rule, source, committed)[t]]
  BY DEF Commit, CommittedFrom
<1>6. Commit(rule, proposed, committed) = CommittedFrom(rule, source, committed)
  BY <1>4, <1>5
<1>. QED BY <1>1, <1>2, <1>3, <1>6

(* As long as there is a position to go on from, it has a next rule.       *)
LEMMA NextOfRest ==
  ASSUME NEW rules, Len(rules) \in Nat, NEW i \in 0 .. Len(rules), NEW left,
         Rest(left, rules, i), left # <<>>
  PROVE  /\ i + 1 \in 1 .. Len(rules) /\ Head(left) = rules[i + 1]
         /\ Rest(Tail(left), rules, i + 1)
<1>1. PICK n \in Nat : n = Len(rules)
  OBVIOUS
<1>2. Len(left) = n - i /\ left \in Seq(ToSet(rules)) /\ \A k \in 1 .. n - i : left[k] = rules[i + k]
  BY <1>1 DEF Rest
<1>3. Len(left) # 0
  BY <1>2, EmptySeq
<1>4. i + 1 \in 1 .. n /\ 1 \in 1 .. n - i
  BY <1>1, <1>2, <1>3
<1>5. Head(left) = left[1] /\ left[1] = rules[i + 1]
  BY <1>2, <1>4, HeadTailProperties
<1>6. /\ Tail(left) \in Seq(ToSet(rules)) /\ Len(Tail(left)) = n - (i + 1)
      /\ \A k \in 1 .. n - (i + 1) : Tail(left)[k] = left[k + 1]
  <2>1. PICK S : S = ToSet(rules)
    OBVIOUS
  <2>2. /\ Tail(left) \in Seq(S) /\ Len(Tail(left)) = Len(left) - 1
        /\ \A k \in 1 .. Len(Tail(left)) : Tail(left)[k] = left[k + 1]
    BY <1>2, <2>1, HeadTailProperties
  <2>3. Len(left) - 1 = n - (i + 1)
    BY <1>1, <1>2
  <2>. QED BY <2>1, <2>2, <2>3
<1>7. \A k \in 1 .. n - (i + 1) : left[k + 1] = rules[i + 1 + k]
  <2>1. SUFFICES ASSUME NEW k \in 1 .. n - (i + 1) PROVE left[k + 1] = rules[i + 1 + k]
    OBVIOUS
  <2>2. k + 1 \in 1 .. n - i /\ i + (k + 1) = i + 1 + k
    BY <1>1
  <2>. QED BY <1>2, <2>2
<1>. QED BY <1>1, <1>4, <1>5, <1>6, <1>7 DEF Rest

(* The next position is at the next state, and a position whose rule       *)
(* raises is before a state of error.                                      *)
LEMMA StatesFollow ==
  ASSUME NEW rules, Len(rules) \in Nat, \A k \in 1 .. Len(rules) : WellFormedRule(rules[k]),
         NEW i \in 0 .. Len(rules), NEW source, NEW p, NEW s, AtState(p, s, rules, i),
         p.remaining # <<>>
  PROVE  /\ i + 1 \in 1 .. Len(rules)
         /\ RaisesFrom(Head(p.remaining), source, p.committed) =>
              AfterRule(s, rules[i + 1], source).error
         /\ ~RaisesFrom(Head(p.remaining), source, p.committed) =>
              AtState(After(p, source), AfterRule(s, rules[i + 1], source), rules, i + 1)
<1>1. ~s.stopped /\ ~s.error /\ Rest(p.remaining, rules, i)
  BY DEF AtState
<1>2. PICK rule : rule = rules[i + 1]
  OBVIOUS
<1>3. PICK left : left = p.remaining
  OBVIOUS
<1>4. /\ i + 1 \in 1 .. Len(rules) /\ Head(left) = rule /\ Rest(Tail(left), rules, i + 1)
  BY <1>1, <1>2, <1>3, NextOfRest
<1>5. WellFormedRule(rule)
  BY <1>2, <1>4
<1>6. PICK committed : committed = p.committed /\ committed = s.assigned_values
  BY DEF AtState
<1>7. PICK matches : matches = RuleMatches(rule, source, committed) /\ matches \in Matched
  BY <1>5, RuleIsMatched
<1>8. PICK proposed : proposed = ProposedValues(rule, source, committed)
  OBVIOUS
<1>9. PICK next : next = AfterRule(s, rule, source)
  OBVIOUS
<1>10. /\ matches = "false" => next = s
       /\ matches = "raised" => next = [s EXCEPT !.error = TRUE]
       /\ matches = "true" /\ Raised \in ToSet(proposed) => next = [s EXCEPT !.error = TRUE]
       /\ matches = "true" /\ Raised \notin ToSet(proposed)
            => next = [matched_rule_ids |-> Append(s.matched_rule_ids, rule.rule_id),
                       assigned_values |-> Commit(rule, proposed, committed),
                       stopped |-> rule.stop_on_match, error |-> FALSE]
  BY <1>1, <1>6, <1>7, <1>8, <1>9, OneRule
<1>11. RaisesFrom(rule, source, committed) <=>
         matches = "raised" \/ (matches = "true" /\ Raised \in ToSet(proposed))
  BY <1>5, <1>7, <1>8, CommitsAlike DEF RaisesFrom
<1>12. ASSUME RaisesFrom(rule, source, committed) PROVE next.error
  <2>1. next = [s EXCEPT !.error = TRUE]
    BY <1>10, <1>11, <1>12
  <2>2. "error" \in DOMAIN s
    BY DEF AtState
  <2>. QED BY <2>1, <2>2
<1>13. ASSUME ~RaisesFrom(rule, source, committed)
       PROVE  AtState(After(p, source), next, rules, i + 1)
  <2>1. PICK tail : tail = Tail(left) /\ Rest(tail, rules, i + 1)
    BY <1>4
  <2>2. CASE matches = "false"
    <3>1. next = s
      BY <1>10, <2>2
    <3>2. After(p, source) = [remaining |-> tail, matched |-> p.matched, committed |-> committed]
      BY <1>3, <1>4, <1>6, <1>7, <2>1, <2>2 DEF After
    <3>. QED BY <1>1, <1>6, <2>1, <3>1, <3>2 DEF AtState
  <2>3. CASE matches = "true"
    <3>1. PICK values : values = CommittedFrom(rule, source, committed)
      OBVIOUS
    <3>2. values = Commit(rule, proposed, committed)
      BY <1>5, <1>8, <3>1, CommitsAlike
    <3>3. PICK matched : matched = Append(p.matched, rule.rule_id)
      OBVIOUS
    <3>4. p.matched = s.matched_rule_ids
      BY DEF AtState
    <3>5. next = [matched_rule_ids |-> matched, assigned_values |-> values,
                  stopped |-> rule.stop_on_match, error |-> FALSE]
      BY <1>10, <1>11, <1>13, <2>3, <3>2, <3>3, <3>4
    <3>6. After(p, source) = [remaining |-> IF rule.stop_on_match THEN <<>> ELSE tail,
                              matched |-> matched, committed |-> values]
      BY <1>3, <1>4, <1>6, <1>7, <2>1, <2>3, <3>1, <3>3 DEF After
    <3>. QED BY <2>1, <3>5, <3>6 DEF AtState
  <2>. QED BY <1>7, <1>11, <1>13, <2>2, <2>3 DEF Matched
<1>. QED BY <1>2, <1>3, <1>4, <1>6, <1>9, <1>12, <1>13

(* A run goes through the states of the loop.                              *)
LEMMA RunFollowsLoop ==
  ASSUME NEW rules, rules \in Seq(ToSet(rules)),
         \A k \in 1 .. Len(rules) : WellFormedRule(rules[k]),
         NEW source, NEW trace, NEW n, Run(trace, n, rules, source),
         NEW after, IsLoop(after, rules, source)
  PROVE  n \in 0 .. Len(rules) /\ AtState(trace[n], after[n], rules, n)
<1> DEFINE T == {i \in Nat : i <= n => /\ i \in 0 .. Len(rules)
                                       /\ AtState(trace[i], after[i], rules, i)}
<1>1. /\ n \in Nat /\ trace[0] = PositionStart(rules) /\ after[0] = Start
      /\ Len(rules) \in Nat
  BY LenProperties DEF Run, IsLoop
<1>2. 0 \in T
  <2>1. PICK p : p = trace[0] /\ p = PositionStart(rules)
    BY <1>1
  <2>2. PICK start : start = after[0] /\ start = Start
    BY <1>1
  <2>3. Rest(rules, rules, 0)
    BY <1>1 DEF Rest
  <2>4. AtState(p, start, rules, 0)
    BY <2>1, <2>2, <2>3 DEF AtState, PositionStart, Start, NothingAssigned
  <2>. QED BY <1>1, <2>1, <2>2, <2>4
<1>3. ASSUME NEW i \in Nat, i \in T PROVE i + 1 \in T
  <2>1. SUFFICES ASSUME i + 1 <= n
                 PROVE  /\ i + 1 \in 0 .. Len(rules)
                        /\ AtState(trace[i + 1], after[i + 1], rules, i + 1)
    OBVIOUS
  <2>2. i \in 0 .. Len(rules) /\ AtState(trace[i], after[i], rules, i)
    BY <1>1, <1>3, <2>1
  <2>3. ~Ends(trace[i], source) /\ trace[i + 1] = After(trace[i], source)
    <3>1. i \in 0 .. n - 1
      BY <1>1, <2>1
    <3>. QED BY <3>1 DEF Run
  <2>4. PICK p : p = trace[i]
    OBVIOUS
  <2>5. p.remaining # <<>> /\ ~RaisesFrom(Head(p.remaining), source, p.committed)
    BY <2>3, <2>4 DEF Ends
  <2>6. /\ i + 1 \in 1 .. Len(rules)
        /\ AtState(After(p, source), AfterRule(after[i], rules[i + 1], source), rules, i + 1)
    BY <1>1, <2>2, <2>4, <2>5, StatesFollow
  <2>7. after[i + 1] = AfterRule(after[i], rules[i + 1], source)
    <3>1. i + 1 - 1 = i
      OBVIOUS
    <3>. QED BY <2>6, <3>1 DEF IsLoop
  <2>. QED BY <2>3, <2>4, <2>6, <2>7
<1>4. n \in T
  <2> HIDE DEF T
  <2>. QED BY <1>1, <1>2, <1>3, Inductive
<1>. QED BY <1>1, <1>4

Business(outcome) ==
  <<IF outcome.error THEN "error" ELSE "success", outcome.matched_rule_ids, outcome.assign>>

(* The verdict at the end of a run is the outcome of the row.              *)
LEMMA VerdictIsOutcome ==
  ASSUME WellFormedRuleset(ruleset), NEW rules, rules = ActiveRules(ruleset),
         NEW trace, NEW n, RunEnds(trace, n, rules, row)
  PROVE  VerdictOn(trace[n]) = Business(RowOutcome(ruleset, row))
<1>1. /\ rules \in Seq(ToSet(rules)) /\ Len(rules) \in Nat
      /\ \A k \in 1 .. Len(rules) : WellFormedRule(rules[k])
  <2>1. rules \in Seq(ruleset)
    BY ActiveRulesAscend
  <2>2. DOMAIN rules = 1 .. Len(rules) /\ \A k \in 1 .. Len(rules) : rules[k] \in ruleset
    BY <2>1, LenProperties, ElementOfSeq
  <2>3. rules = [k \in 1 .. Len(rules) |-> rules[k]] /\ \A k \in 1 .. Len(rules) : rules[k] \in ToSet(rules)
    BY <2>1, <2>2, LenProperties DEF ToSet
  <2>4. Len(rules) \in Nat
    BY <2>1, LenProperties
  <2>. QED BY <2>2, <2>3, <2>4, SeqDef DEF WellFormedRuleset
<1>2. PICK after : /\ IsLoop(after, rules, row)
                   /\ RowOutcome(ruleset, row) = OutcomeOf(ruleset, after[Len(rules)])
  BY <1>1, OutcomeUnfold
<1>3. n \in 0 .. Len(rules) /\ AtState(trace[n], after[n], rules, n)
  <2>1. PICK source : source = row
    OBVIOUS
  <2>. QED BY <1>1, <1>2, <2>1, RunFollowsLoop DEF RunEnds
<1>4. PICK p : p = trace[n]
  OBVIOUS
<1>5. PICK end : end = after[Len(rules)]
  OBVIOUS
<1>6. CASE p.remaining = <<>>
  <2>1. end = after[n]
    <3>1. CASE after[n].stopped
      BY <1>1, <1>2, <1>3, <1>5, <3>1, LoopFrozen
    <3>2. CASE ~after[n].stopped
      <4>1. Rest(p.remaining, rules, n)
        BY <1>3, <1>4, <3>2 DEF AtState
      <4>2. Len(rules) - n = 0
        BY <1>6, <4>1, EmptySeq DEF Rest
      <4>. QED BY <1>1, <1>3, <1>5, <4>2
    <3>. QED BY <3>1, <3>2
  <2>2. end = [matched_rule_ids |-> p.matched, assigned_values |-> p.committed,
               stopped |-> end.stopped, error |-> FALSE]
    BY <1>3, <1>4, <2>1 DEF AtState
  <2>3. ~end.error /\ end.matched_rule_ids = p.matched /\ end.assigned_values = p.committed
    BY <2>2
  <2>4. Business(OutcomeOf(ruleset, end)) = <<"success", p.matched, AssignPayload(p.committed)>>
    BY <2>3 DEF Business, OutcomeOf, AssignPayload
  <2>. QED BY <1>2, <1>4, <1>5, <1>6, <2>4 DEF VerdictOn
<1>7. CASE p.remaining # <<>>
  <2>1. RaisesFrom(Head(p.remaining), row, p.committed)
    BY <1>4, <1>7 DEF RunEnds, Ends
  <2>2. n + 1 \in 1 .. Len(rules) /\ AfterRule(after[n], rules[n + 1], row).error
    <3>1. PICK source : source = row
      OBVIOUS
    <3>. QED BY <1>1, <1>3, <1>4, <1>7, <2>1, <3>1, StatesFollow
  <2>3. after[n + 1].error
    <3>1. n + 1 - 1 = n
      BY <1>3
    <3>2. after[n + 1] = AfterRule(after[n], rules[n + 1], row)
      <4>1. PICK k : k = n + 1 /\ k - 1 = n /\ k \in 1 .. Len(rules)
        BY <1>3, <2>2, <3>1
      <4>2. after[k] = AfterRule(after[k - 1], rules[k], row)
        BY <1>2, <4>1 DEF IsLoop
      <4>. QED BY <4>1, <4>2
    <3>. QED BY <2>2, <3>2
  <2>4. end = after[n + 1]
    <3>1. n + 1 \in 0 .. Len(rules)
      BY <2>2
    <3>. QED BY <1>1, <1>2, <1>5, <2>3, <3>1, LoopFrozen
  <2>5. end.error
    BY <2>3, <2>4
  <2>6. Start.assigned_values = NothingAssigned
    BY DEF Start, NothingAssigned
  <2>7. Business(OutcomeOf(ruleset, end)) = <<"error", <<>>, AssignPayload(NothingAssigned)>>
    BY <2>5, <2>6 DEF Business, OutcomeOf, AssignPayload
  <2>. QED BY <1>2, <1>4, <1>5, <1>7, <2>7 DEF VerdictOn
<1>. QED BY <1>6, <1>7

(* What a mode returned of a row, once it has, is the outcome of the row.  *)
ReturnsOutcome(modes) ==
  \A m \in modes : Finished(m) => BusinessOf(payload[m]) = Business(RowOutcome(ruleset, row))

(* Modes that conclude from runs return the outcome.                       *)
LEMMA ConcludedReturns ==
  ASSUME NEW modes \in SUBSET Modes, Sound, Concluded(modes)
  PROVE  ReturnsOutcome(modes)
<1>1. SUFFICES ASSUME NEW m \in modes, Finished(m)
               PROVE  BusinessOf(payload[m]) = Business(RowOutcome(ruleset, row))
  BY DEF ReturnsOutcome
<1>2. PICK rules : rules = ActiveRules(ruleset)
  OBVIOUS
<1>3. PICK n, trace : RunEnds(trace, n, rules, row) /\ BusinessOf(payload[m]) = VerdictOn(trace[n])
  BY <1>1, <1>2 DEF Concluded
<1>4. WellFormedRuleset(ruleset)
  BY RulesetOK DEF Sound
<1>. QED BY <1>2, <1>3, <1>4, VerdictIsOutcome

(* Whatever the order of the worker's steps: the compact result is         *)
(* RowOutcome of the row, for any ruleset, and so is the audited one where *)
(* source columns fit the targets of their name.                           *)
THEOREM WorkerReturnsOutcome ==
  ASSUME NEW modes \in SUBSET Modes, "full_audit" \in modes => SourcesFit
  PROVE  Spec => []ReturnsOutcome(modes)
<1>1. Spec => [](Sound /\ Concluded(modes))
  BY ConcludedAlways
<1>2. Sound /\ Concluded(modes) => ReturnsOutcome(modes)
  BY ConcludedReturns
<1>. QED BY <1>1, <1>2, PTL

(***************************************************************************)
(* Rules are evaluated in ascending order, and a trace stays true to the   *)
(* events of the rules before its own.                                     *)
(***************************************************************************)
InOrder ==
  /\ \A i, j \in DOMAIN remaining : i < j => remaining[i].rule_order < remaining[j].rule_order
  /\ \A i \in DOMAIN remaining : remaining[i].active_flag
  /\ Audited => \A k \in 1 .. CommittedEvents : \A i \in DOMAIN remaining :
       assignment_events[k].rule_order < remaining[i].rule_order

HeldBefore(events, order, t, committed) ==
  \/ /\ \A k \in DOMAIN events : ~(events[k].target_field = t /\ events[k].rule_order < order)
     /\ committed[t] = Unassigned
  \/ \E j \in DOMAIN events :
       /\ events[j].target_field = t /\ events[j].rule_order < order
       /\ \A k \in DOMAIN events :
            events[k].target_field = t /\ events[k].rule_order < order => k <= j
       /\ committed[t] = RecordOf(events[j])

TraceOf(trace, rule, committed, source) ==
  trace = [rule_id |-> rule.rule_id,
           conditions |-> EvaluateRule(rule, source, committed).condition_traces]

TraceHolds(trace, events, rules, source, todo) ==
  \E rule \in rules : \E committed :
    /\ rule.active_flag /\ TraceOf(trace, rule, committed, source)
    /\ \A i \in DOMAIN todo : rule.rule_order <= todo[i].rule_order
    /\ \A t \in Targets : HeldBefore(events, rule.rule_order, t, committed)

TracesHold ==
  \A k \in DOMAIN rule_traces :
    TraceHolds(rule_traces[k], assignment_events, ruleset, row, remaining)

(* The rule at hand is the first of those remaining.                       *)
LEMMA RemainingFacts ==
  ASSUME Shape, remaining # <<>>
  PROVE  /\ Rule = remaining[1] /\ 1 \in DOMAIN remaining
         /\ \A i \in DOMAIN Tail(remaining) :
              i + 1 \in DOMAIN remaining /\ Tail(remaining)[i] = remaining[i + 1] /\ 1 < i + 1
<1>1. PICK s \in Seq(ruleset) : s = remaining
  BY DEF Shape, SequencesOK
<1>2. /\ Head(s) = s[1] /\ Len(s) \in Nat /\ Len(s) # 0 /\ DOMAIN s = 1 .. Len(s)
      /\ Tail(s) \in Seq(ruleset) /\ Len(Tail(s)) = Len(s) - 1
      /\ \A i \in 1 .. Len(Tail(s)) : Tail(s)[i] = s[i + 1]
  BY <1>1, HeadTailProperties, LenProperties, EmptySeq
<1>3. DOMAIN Tail(s) = 1 .. Len(s) - 1
  BY <1>2, LenProperties
<1>. QED BY <1>1, <1>2, <1>3 DEF Rule

(* Dropping the rules in front keeps the order.                            *)
LEMMA OrderKept ==
  ASSUME Shape, InOrder, remaining # <<>>,
         NEW todo, todo = Tail(remaining) \/ todo = <<>>
  PROVE  /\ \A i, j \in DOMAIN todo : i < j => todo[i].rule_order < todo[j].rule_order
         /\ \A i \in DOMAIN todo : /\ todo[i].active_flag
                                   /\ Rule.rule_order < todo[i].rule_order
                                   /\ \E j \in DOMAIN remaining : todo[i] = remaining[j]
<1>1. CASE todo = <<>>
  BY <1>1, EmptySequence
<1>2. CASE todo = Tail(remaining)
  <2>1. \A i \in DOMAIN todo :
          i + 1 \in DOMAIN remaining /\ todo[i] = remaining[i + 1] /\ 1 < i + 1
    BY <1>2, RemainingFacts
  <2>2. \A i \in DOMAIN todo : i \in Int
    BY <1>2, RulesetOK, LenProperties DEF Shape
  <2>3. \A i, j \in DOMAIN todo : i < j => i + 1 < j + 1
    BY <2>2
  <2>. QED BY <2>1, <2>3, RemainingFacts DEF InOrder
<1>. QED BY <1>1, <1>2

(* Every step keeps the rules in order.                                    *)
LEMMA StepInOrder ==
  ASSUME Sound, History, InOrder, Next
  PROVE  InOrder'
<1>1. ASSUME NEW m \in Modes, StartRow(m) PROVE InOrder'
  <2>1. PICK order : order = ActiveRules(ruleset)
    OBVIOUS
  <2>2. /\ remaining' = order /\ Len(assignment_events') = 0 /\ Len(resolved') = 0
    BY <1>1, <2>1, EmptySequence DEF StartRow, Sound, Shape, Idle
  <2>3. /\ ToSet(order) = {r \in ruleset : r.active_flag}
        /\ \A i, j \in DOMAIN order : i < j => order[i].rule_order < order[j].rule_order
    BY <2>1, RulesetOK, ActiveRulesAscend DEF Sound
  <2>4. CommittedEvents' = 0
    BY <2>2 DEF CommittedEvents
  <2>5. \A i \in DOMAIN order : order[i].active_flag
    BY <2>3 DEF ToSet
  <2>. QED BY <2>2, <2>3, <2>4, <2>5 DEF InOrder
<1>2. ASSUME SkipRule PROVE InOrder'
  <2>1. /\ remaining # <<>> /\ remaining' = Tail(remaining)
        /\ UNCHANGED <<mode, resolved, assignment_events>>
    BY <1>2 DEF SkipRule, AtRule
  <2>2. PICK todo : todo = Tail(remaining)
    OBVIOUS
  <2>3. /\ \A i, j \in DOMAIN todo : i < j => todo[i].rule_order < todo[j].rule_order
        /\ \A i \in DOMAIN todo : /\ todo[i].active_flag
                                  /\ \E j \in DOMAIN remaining : todo[i] = remaining[j]
    BY <2>1, <2>2, OrderKept DEF Sound
  <2>. QED BY <2>1, <2>2, <2>3 DEF InOrder, Audited, CommittedEvents
<1>3. ASSUME MatchRule PROVE InOrder'
  BY <1>3 DEF MatchRule, InOrder, Audited, CommittedEvents
<1>4. ASSUME ResolveAssignment PROVE InOrder'
  <2>1. UNCHANGED <<mode, remaining>>
    BY <1>4 DEF ResolveAssignment
  <2>. QED BY <1>4, <2>1, EventsExtended DEF InOrder, Audited
<1>5. ASSUME CommitRule PROVE InOrder'
  <2>1. /\ remaining # <<>> /\ remaining' = RulesAfter(Rule) /\ resolved' = <<>>
        /\ UNCHANGED <<mode, assignment_events>> /\ phase = "resolve"
    BY <1>5 DEF CommitRule, Sound, Shape
  <2>2. PICK todo : todo = RulesAfter(Rule)
    OBVIOUS
  <2>3. /\ \A i, j \in DOMAIN todo : i < j => todo[i].rule_order < todo[j].rule_order
        /\ \A i \in DOMAIN todo : /\ todo[i].active_flag
                                  /\ Rule.rule_order < todo[i].rule_order
                                  /\ \E j \in DOMAIN remaining : todo[i] = remaining[j]
    BY <2>1, <2>2, OrderKept DEF Sound, RulesAfter
  <2>4. ASSUME Audited, NEW k \in 1 .. CommittedEvents', NEW i \in DOMAIN todo
        PROVE  assignment_events[k].rule_order < todo[i].rule_order
    <3>1. PICK c : c = CommittedEvents
      OBVIOUS
    <3>2. PICK n : n = Len(assignment_events)
      OBVIOUS
    <3>3. /\ n \in Nat /\ c \in Nat /\ n = c + Len(resolved) /\ Len(resolved) \in Nat
          /\ DOMAIN resolved = 1 .. Len(resolved) /\ CommittedEvents' = n
      BY <2>1, <2>4, <3>1, <3>2, EmptySequence, SequenceFacts
         DEF CommittedEvents, History, CurrentEvents, Sound, Shape, SequencesOK
    <3>4. CASE k \in 1 .. c
      BY <2>3, <2>4, <3>1, <3>4 DEF InOrder
    <3>5. CASE k \notin 1 .. c
      <4>1. k - c \in DOMAIN resolved /\ k = c + (k - c)
        BY <3>3, <3>5
      <4>2. assignment_events[k].rule_order = Rule.rule_order
        BY <2>4, <3>1, <4>1 DEF History, CurrentEvents
      <4>. QED BY <2>3, <4>2
    <3>. QED BY <3>4, <3>5
  <2>. QED BY <2>1, <2>2, <2>3, <2>4 DEF InOrder, Audited
<1>6. ASSUME RowRaises \/ FinishRow PROVE InOrder'
  <2>1. remaining' = <<>>
    BY <1>6 DEF RowRaises, FinishRow, Return, Fresh
  <2>. QED BY <2>1, EmptySequence DEF InOrder
<1>. QED BY <1>1, <1>2, <1>3, <1>4, <1>5, <1>6 DEF Next, Step

(* Later rules, and the events they add, leave what was held before a rule *)
(* as it is.                                                               *)
LEMMA HeldExtends ==
  ASSUME NEW events, IsSequence(events), NEW e, NEW longer, longer = Append(events, e),
         NEW order, ~(e.rule_order < order),
         NEW t, NEW committed, HeldBefore(events, order, t, committed)
  PROVE  HeldBefore(longer, order, t, committed)
<1>1. /\ Len(events) \in Nat
      /\ DOMAIN longer = (DOMAIN events) \cup {Len(events) + 1}
      /\ \A k \in DOMAIN events : longer[k] = events[k]
      /\ longer[Len(events) + 1] = e
  BY AppendFacts, SequenceFacts
<1>. QED BY <1>1 DEF HeldBefore

(* What the committed events say is what the rule at hand reads.           *)
LEMMA HeldNow ==
  ASSUME Sound, History, InOrder, Audited, phase = "match", remaining # <<>>, NEW t \in Targets
  PROVE  HeldBefore(assignment_events, Rule.rule_order, t, assigned_values)
<1>1. PICK events : events = assignment_events
  OBVIOUS
<1>2. PICK n : n = Len(events)
  OBVIOUS
<1>3. n \in Nat /\ DOMAIN events = 1 .. n
  BY <1>1, <1>2, SequenceFacts DEF Sound, Shape, SequencesOK
<1>4. CommittedEvents = n
  BY <1>1, <1>2, <1>3, EmptySequence DEF CommittedEvents, Sound, Shape
<1>5. \A k \in 1 .. n : events[k].rule_order < Rule.rule_order
  BY <1>1, <1>4, RemainingFacts DEF InOrder, Sound
<1>6. \/ NoneTo(events, t, n) /\ assigned_values[t] = Unassigned
      \/ \E j \in 1 .. n : /\ LastTo(events, j, t, n)
                           /\ assigned_values[t] = RecordOf(events[j])
  BY <1>1, <1>4 DEF History, ProducersHeld
<1>7. CASE NoneTo(events, t, n) /\ assigned_values[t] = Unassigned
  BY <1>1, <1>3, <1>7 DEF HeldBefore, NoneTo
<1>8. ASSUME NEW j \in 1 .. n, LastTo(events, j, t, n),
             assigned_values[t] = RecordOf(events[j])
      PROVE  HeldBefore(events, Rule.rule_order, t, assigned_values)
  <2>1. \A k \in 1 .. n : events[k].target_field = t => k <= j
    BY <1>3, <1>8 DEF LastTo
  <2>2. events[j].target_field = t /\ events[j].rule_order < Rule.rule_order
    BY <1>5, <1>8 DEF LastTo
  <2>. QED BY <1>3, <1>8, <2>1, <2>2 DEF HeldBefore
<1>. QED BY <1>1, <1>6, <1>7, <1>8

(* A trace stays true when the rules to come are fewer.                    *)
LEMMA FewerToCome ==
  ASSUME NEW trace, NEW events, NEW rules, NEW source, NEW todo, NEW fewer,
         TraceHolds(trace, events, rules, source, todo),
         \A i \in DOMAIN fewer : \E j \in DOMAIN todo : fewer[i] = todo[j]
  PROVE  TraceHolds(trace, events, rules, source, fewer)
BY DEF TraceHolds

(* Every step keeps the traces true.                                       *)
LEMMA StepTraces ==
  ASSUME Sound, History, InOrder, TracesHold, Next
  PROVE  TracesHold'
<1>1. ASSUME rule_traces' = <<>> PROVE TracesHold'
  BY <1>1, EmptySequence DEF TracesHold
<1>2. ASSUME NEW m \in Modes, StartRow(m) PROVE TracesHold'
  BY <1>1, <1>2 DEF StartRow, Sound, Shape, Idle
<1>3. ASSUME RowRaises \/ FinishRow PROVE TracesHold'
  BY <1>1, <1>3 DEF RowRaises, FinishRow, Return, Fresh
<1>4. ASSUME remaining # <<>>, remaining' = Tail(remaining) \/ remaining' = <<>>,
             UNCHANGED <<ruleset, row, rule_traces, assignment_events>>
      PROVE  TracesHold'
  <2>1. PICK todo : todo = remaining'
    OBVIOUS
  <2>2. \A i \in DOMAIN todo : \E j \in DOMAIN remaining : todo[i] = remaining[j]
    BY <1>4, <2>1, OrderKept DEF Sound
  <2>. QED BY <1>4, <2>1, <2>2, FewerToCome DEF TracesHold
<1>5. ASSUME SkipRule PROVE TracesHold'
  BY <1>4, <1>5 DEF SkipRule, AtRule
<1>6. ASSUME CommitRule PROVE TracesHold'
  BY <1>4, <1>6 DEF CommitRule, RulesAfter, Sound, Shape
<1>7. ASSUME MatchRule PROVE TracesHold'
  <2>1. /\ UNCHANGED <<ruleset, row, remaining, assignment_events>>
        /\ remaining # <<>> /\ phase = "match"
    BY <1>7 DEF MatchRule, AtRule
  <2>2. CASE ~Audited
    BY <1>7, <2>1, <2>2 DEF MatchRule, TracesHold
  <2>3. CASE Audited
    <3>1. PICK trace : trace = [rule_id |-> Rule.rule_id,
             conditions |-> EvaluateRule(Rule, row, assigned_values).condition_traces]
      OBVIOUS
    <3>2. PICK traces : traces = rule_traces
      OBVIOUS
    <3>3. PICK longer : longer = Append(traces, trace)
      OBVIOUS
    <3>4. rule_traces' = longer
      BY <1>7, <2>3, <3>1, <3>2, <3>3 DEF MatchRule
    <3>5. /\ DOMAIN longer = (DOMAIN traces) \cup {Len(traces) + 1}
          /\ \A k \in DOMAIN traces : longer[k] = traces[k]
          /\ longer[Len(traces) + 1] = trace
      BY <3>2, <3>3, AppendFacts DEF Sound, Shape, SequencesOK
    <3>6. TraceHolds(trace, assignment_events, ruleset, row, remaining)
      <4>1. PICK rule \in ruleset : rule = Rule
        BY <2>1, RulesetOK DEF Sound
      <4>2. rule.active_flag /\ rule.rule_order \in Int
        BY <2>1, <4>1, RemainingFacts, RulesetOK DEF InOrder, Sound, WellFormedRule
      <4>3. \A i \in DOMAIN remaining : rule.rule_order <= remaining[i].rule_order
        <5>1. /\ rule = remaining[1] /\ 1 \in DOMAIN remaining
              /\ DOMAIN remaining = 1 .. Len(remaining) /\ Len(remaining) \in Nat
          BY <2>1, <4>1, RemainingFacts, LenProperties DEF Sound, Shape, SequencesOK
        <5>2. \A i \in DOMAIN remaining : remaining[i].rule_order \in Int
          BY <5>1, RulesetOK, ElementOfSeq DEF Sound, Shape, SequencesOK, WellFormedRuleset, WellFormedRule
        <5>3. ASSUME NEW i \in DOMAIN remaining
              PROVE  rule.rule_order <= remaining[i].rule_order
          <6>1. CASE i = 1
            BY <4>2, <5>1, <6>1
          <6>2. CASE i # 1
            <7>1. 1 < i
              BY <5>1, <6>2
            <7>2. rule.rule_order < remaining[i].rule_order
              BY <5>1, <7>1 DEF InOrder
            <7>. QED BY <4>2, <5>2, <7>2
          <6>. QED BY <6>1, <6>2
        <5>. QED BY <5>3
      <4>4. \A t \in Targets : HeldBefore(assignment_events, rule.rule_order, t, assigned_values)
        BY <2>1, <2>3, <4>1, HeldNow
      <4>5. TraceOf(trace, rule, assigned_values, row)
        BY <3>1, <4>1 DEF TraceOf
      <4>. QED BY <4>2, <4>3, <4>4, <4>5 DEF TraceHolds
    <3>. QED BY <2>1, <3>2, <3>4, <3>5, <3>6 DEF TracesHold
  <2>. QED BY <2>2, <2>3
<1>8. ASSUME ResolveAssignment PROVE TracesHold'
  <2>1. /\ UNCHANGED <<ruleset, row, remaining, rule_traces>> /\ phase = "resolve"
        /\ remaining # <<>>
    BY <1>8 DEF ResolveAssignment, Resolving, Sound, Shape
  <2>2. CASE ~Audited
    BY <1>8, <2>1, <2>2 DEF ResolveAssignment, TracesHold
  <2>3. CASE Audited
    <3>1. PICK e : e = [assignment_id |-> Assignment.assignment_id, rule_id |-> Rule.rule_id,
               rule_order |-> Rule.rule_order, target_field |-> Assignment.target_field,
               old_value |-> OldValue, proposed_value |-> ProposedValue]
      OBVIOUS
    <3>2. PICK events : events = assignment_events
      OBVIOUS
    <3>3. PICK longer : longer = Append(events, e)
      OBVIOUS
    <3>4. assignment_events' = longer /\ e.rule_order = Rule.rule_order
      BY <1>8, <2>3, <3>1, <3>2, <3>3 DEF ResolveAssignment
    <3>5. IsSequence(events)
      BY <3>2 DEF Sound, Shape, SequencesOK
    <3>6. ASSUME NEW trace, TraceHolds(trace, events, ruleset, row, remaining)
          PROVE  TraceHolds(trace, longer, ruleset, row, remaining)
      <4>1. PICK rule \in ruleset : \E committed :
              /\ rule.active_flag /\ TraceOf(trace, rule, committed, row)
              /\ \A i \in DOMAIN remaining : rule.rule_order <= remaining[i].rule_order
              /\ \A t \in Targets : HeldBefore(events, rule.rule_order, t, committed)
        BY <3>6 DEF TraceHolds
      <4>2. PICK committed :
              /\ rule.active_flag /\ TraceOf(trace, rule, committed, row)
              /\ \A i \in DOMAIN remaining : rule.rule_order <= remaining[i].rule_order
              /\ \A t \in Targets : HeldBefore(events, rule.rule_order, t, committed)
        BY <4>1
      <4>3. ~(e.rule_order < rule.rule_order)
        <5>1. rule.rule_order <= Rule.rule_order
          BY <2>1, <4>2, RemainingFacts DEF Sound
        <5>2. rule.rule_order \in Int /\ Rule.rule_order \in Int
          BY <2>1, RulesetOK DEF Sound, WellFormedRuleset, WellFormedRule
        <5>. QED BY <3>4, <5>1, <5>2
      <4>4. \A t \in Targets : HeldBefore(longer, rule.rule_order, t, committed)
        BY <3>3, <3>5, <4>2, <4>3, HeldExtends
      <4>. QED BY <4>2, <4>4 DEF TraceHolds
    <3>. QED BY <2>1, <3>2, <3>4, <3>6 DEF TracesHold
  <2>. QED BY <2>2, <2>3
<1>. QED BY <1>2, <1>3, <1>5, <1>6, <1>7, <1>8 DEF Next, Step

(***************************************************************************)
(* The traces of the returned row.                                         *)
(***************************************************************************)
ReadsOf(trace) ==
  {o \in UNION {{c.left, c.right} : c \in ToSet(trace.conditions)} :
     o.evaluated /\ o.operand.kind = "assigned"}

ReadNamed(results, order, o) ==
  LET earlier == {i \in DOMAIN results :
                    /\ results[i].target_field = o.operand.name
                    /\ results[i].rule_order < order}
  IN  IF earlier = {}
      THEN /\ o.produced_by_rule_id = NoId
           /\ o.value = o.operand.default_if_null
      ELSE LET producer == results[Max(earlier)]
           IN  /\ o.produced_by_rule_id = producer.rule_id
               /\ o.produced_by_assignment_id = producer.assignment_id
               /\ o.value = WithDefault(o.operand, producer.proposed_value)

OrderIn(rules, id) == (CHOOSE r \in rules : r.rule_id = id).rule_order

TracesNamed(traces, results, rules) ==
  \A k \in DOMAIN traces : \A o \in ReadsOf(traces[k]) :
    ReadNamed(results, OrderIn(rules, traces[k].rule_id), o)

(* TracesNameProducers, one read at a time, before and after a step.       *)
LEMMA NamesAreReads ==
  /\ TracesNameProducers <=>
       TracesNamed(payload["full_audit"].matched_rules, Results, ruleset)
  /\ TracesNameProducers' <=>
       TracesNamed(payload["full_audit"]'.matched_rules, Results', ruleset')
BY DEF TracesNameProducers, TracesNamed, ReadsOf, ReadNamed, OrderIn, RuleWithId

(* An operand that names its producer names the last event before its rule. *)
LEMMA ProducerIsEvent ==
  ASSUME NEW events, IsSequence(events), NEW results, results = AssignmentResults(events),
         NEW order, NEW committed, NEW o, NamesProducer(o, committed),
         HeldBefore(events, order, o.operand.name, committed)
  PROVE  ReadNamed(results, order, o)
<1>1. PICK t : t = o.operand.name
  OBVIOUS
<1>2. PICK earlier : earlier = {i \in DOMAIN results : /\ results[i].target_field = t
                                                       /\ results[i].rule_order < order}
  OBVIOUS
<1>3. PICK n : n = Len(events)
  OBVIOUS
<1>4. n \in Nat /\ DOMAIN events = 1 .. n
  BY <1>3, SequenceFacts
<1>5. /\ DOMAIN results = 1 .. n
      /\ \A i \in 1 .. n : /\ results[i].target_field = events[i].target_field
                           /\ results[i].rule_order = events[i].rule_order
                           /\ results[i].rule_id = events[i].rule_id
                           /\ results[i].assignment_id = events[i].assignment_id
                           /\ results[i].proposed_value = events[i].proposed_value
  BY <1>4, ResultFields
<1>6. PICK held : held = committed[t]
  OBVIOUS
<1>7. /\ o.produced_by_rule_id = held.rule_id
      /\ o.produced_by_assignment_id = held.assignment_id
      /\ o.value = WithDefault(o.operand, held.value)
  BY <1>1, <1>6 DEF NamesProducer
<1>8. CASE /\ \A k \in DOMAIN events : ~(events[k].target_field = t /\ events[k].rule_order < order)
           /\ committed[t] = Unassigned
  <2>1. earlier = {}
    BY <1>2, <1>4, <1>5, <1>8
  <2>2. held.rule_id = NoId /\ held.value = Null
    BY <1>6, <1>8 DEF Unassigned
  <2>3. o.value = o.operand.default_if_null
    BY <1>7, <2>2 DEF WithDefault
  <2>. QED BY <1>1, <1>2, <1>7, <2>1, <2>2, <2>3 DEF ReadNamed
<1>9. ASSUME NEW j \in DOMAIN events,
             events[j].target_field = t, events[j].rule_order < order,
             \A k \in DOMAIN events :
               events[k].target_field = t /\ events[k].rule_order < order => k <= j,
             committed[t] = RecordOf(events[j])
      PROVE  ReadNamed(results, order, o)
  <2>1. j \in earlier /\ earlier \in SUBSET (1 .. n) /\ \A k \in earlier : k <= j
    BY <1>2, <1>4, <1>5, <1>9
  <2>2. PICK m : m = Max(earlier)
    OBVIOUS
  <2>3. m \in earlier /\ j <= m
    BY <1>4, <2>1, <2>2, MaxFacts
  <2>4. m = j /\ earlier # {}
    BY <1>4, <2>1, <2>3
  <2>5. /\ held.rule_id = results[j].rule_id
        /\ held.assignment_id = results[j].assignment_id
        /\ held.value = results[j].proposed_value
    BY <1>4, <1>5, <1>6, <1>9 DEF RecordOf
  <2>6. PICK producer : producer = results[Max(earlier)]
    OBVIOUS
  <2>7. producer = results[j]
    BY <2>2, <2>4, <2>6
  <2>8. /\ o.produced_by_rule_id = producer.rule_id
        /\ o.produced_by_assignment_id = producer.assignment_id
        /\ o.value = WithDefault(o.operand, producer.proposed_value)
    BY <1>7, <2>5, <2>7
  <2>. QED BY <1>1, <1>2, <2>4, <2>6, <2>8 DEF ReadNamed
<1>. QED BY <1>1, <1>8, <1>9 DEF HeldBefore

(* The traces a row returns name their producers.                          *)
LEMMA FinishedNames ==
  ASSUME Sound, TracesHold, Audited, UNCHANGED ruleset, payload["full_audit"]' = SuccessPayload
  PROVE  TracesNameProducers'
<1>1. PICK events : events = assignment_events
  OBVIOUS
<1>2. PICK results : results = AssignmentResults(events)
  OBVIOUS
<1>3. PICK traces : traces = rule_traces
  OBVIOUS
<1>4. Results' = results /\ payload["full_audit"]'.matched_rules = traces
  BY <1>1, <1>2, <1>3 DEF Results, SuccessPayload
<1>5. IsSequence(events)
  BY <1>1 DEF Sound, Shape, SequencesOK
<1>6. SUFFICES ASSUME NEW k \in DOMAIN traces, NEW o \in ReadsOf(traces[k])
               PROVE  ReadNamed(results, OrderIn(ruleset, traces[k].rule_id), o)
  <2>1. TracesNamed(traces, results, ruleset)
    BY <1>6 DEF TracesNamed
  <2>. QED BY <1>4, <2>1, NamesAreReads
<1>7. PICK trace : trace = traces[k]
  OBVIOUS
<1>8. TraceHolds(trace, events, ruleset, row, remaining)
  BY <1>1, <1>3, <1>7 DEF TracesHold
<1>9. PICK rule \in ruleset : \E committed :
        /\ rule.active_flag /\ TraceOf(trace, rule, committed, row)
        /\ \A t \in Targets : HeldBefore(events, rule.rule_order, t, committed)
  BY <1>8 DEF TraceHolds
<1>10. PICK committed :
        /\ rule.active_flag /\ TraceOf(trace, rule, committed, row)
        /\ \A t \in Targets : HeldBefore(events, rule.rule_order, t, committed)
  BY <1>9
<1>11. trace.rule_id = rule.rule_id /\ trace.conditions = ConditionTraces(rule, row, committed)
  BY <1>10 DEF TraceOf, EvaluateRule
<1>12. OrderIn(ruleset, trace.rule_id) = rule.rule_order
  <2>1. RuleWithId(rule.rule_id) = rule
    BY RuleOfId DEF Sound
  <2>2. OrderIn(ruleset, rule.rule_id) = RuleWithId(rule.rule_id).rule_order
    BY DEF OrderIn, RuleWithId
  <2>. QED BY <1>11, <2>1, <2>2
<1>13. PICK c \in ToSet(ConditionTraces(rule, row, committed)) :
         o \in {c.left, c.right} /\ o.evaluated /\ o.operand.kind = "assigned"
  BY <1>7, <1>11 DEF ReadsOf
<1>14. NamesProducer(o, committed)
  <2>1. OperandTrees /\ WellFormedRule(rule)
    BY InputsAssumption, RulesetOK DEF Sound, WellFormedRuleset
  <2>. QED BY <1>10, <1>13, <2>1, ReadsNameProducers
<1>15. o.operand.name \in Targets
  BY <1>14 DEF NamesProducer
<1>. QED BY <1>2, <1>5, <1>7, <1>10, <1>12, <1>14, <1>15, ProducerIsEvent

(* Every step keeps the returned traces.                                   *)
LEMMA StepNames ==
  ASSUME Sound, TracesHold, TracesNameProducers, Next
  PROVE  TracesNameProducers'
<1>1. CASE payload["full_audit"]' = payload["full_audit"]
  <2>1. Results' = Results /\ ruleset' = ruleset
    BY <1>1, AuditReturns DEF Results
  <2>. QED BY <1>1, <2>1, NamesAreReads
<1>2. CASE payload["full_audit"]' = ErrorPayload
  <2>1. DOMAIN payload["full_audit"]'.matched_rules = {}
    BY <1>2, ErrorHistory
  <2>. QED BY <2>1, NamesAreReads DEF TracesNamed
<1>. QED BY <1>1, <1>2, AuditReturns, FinishedNames

(* Every traced operand that reads an assigned value names the assignment  *)
(* that produced it: the last one to its target by an earlier rule, whose  *)
(* value it shows (_trace_operand in runtime.py, spark_runtime.py).        *)
THEOREM ReadsNameTheirProducers == Spec => []TracesNameProducers
<1> DEFINE Kept == History /\ InOrder /\ TracesHold /\ TracesNameProducers
<1>1. Init => Kept
  <2>1. Init => History
    BY EmptyHistory DEF Init
  <2>2. Init => InOrder
    <3>1. Init => remaining = <<>>
      BY DEF Init
    <3>. QED BY <3>1, EmptySequence DEF InOrder
  <2>3. Init => TracesHold
    <3>1. Init => rule_traces = <<>>
      BY DEF Init
    <3>. QED BY <3>1, EmptySequence DEF TracesHold
  <2>4. Init => TracesNameProducers
    <3>1. Init => payload["full_audit"].matched_rules = <<>>
      BY DEF Init, NoPayload, Modes
    <3>. QED BY <3>1, EmptySequence, NamesAreReads DEF TracesNamed
  <2>. QED BY <2>1, <2>2, <2>3, <2>4
<1>2. Sound /\ Kept /\ [Next]_vars => Kept'
  <2>1. Sound /\ Kept /\ Next => Kept'
    BY StepHistory, StepInOrder, StepTraces, StepNames
  <2>2. Kept /\ UNCHANGED vars => Kept'
    <3>1. InOrder /\ TracesHold /\ UNCHANGED vars => InOrder' /\ TracesHold'
      BY DEF vars, InOrder, TracesHold, Audited, CommittedEvents
    <3>2. TracesNameProducers /\ UNCHANGED vars => TracesNameProducers'
      BY NamesAreReads DEF vars, Results
    <3>. QED BY <3>1, <3>2, HistoryStutters
  <2>. QED BY <2>1, <2>2
<1>. QED BY <1>1, <1>2, SoundAlways, PTL DEF Spec
============================================================================

------------------------------ MODULE Coverage ------------------------------
(***************************************************************************)
(* RulesetCoverageAnalyzer.analyze (analytics.py): one aggregation over    *)
(* the evaluated rows of a ruleset.  A match rate is compared with the     *)
(* threshold, here a fraction <<numerator, denominator>>, by               *)
(* cross-multiplication.                                                   *)
(***************************************************************************)
EXTENDS RuleSemantics, DataFrameEvaluation

CONSTANTS BroadMatchThreshold, NoReport

VARIABLE report   \* the last coverage report

\* What the worker returns for a row: an error row keeps no match, and only active
\* rules match.
OutcomeFits(ruleset, outcome) ==
  /\ outcome.error \in BOOLEAN
  /\ outcome.matched_rule_ids \in Seq({r.rule_id : r \in {s \in ruleset : s.active_flag}})
  /\ outcome.error => outcome.matched_rule_ids = <<>>

ASSUME CoverageAssumption ==
  /\ BroadMatchThreshold \in Nat \X (Nat \ {0})
  /\ \A ruleset \in Rulesets :
       /\ WellFormedRuleset(ruleset)
       /\ \A w \in Worlds : LET rows == Evaluated(ruleset, w) IN
            /\ rows \in Seq(ToSet(rows))
            /\ \A row \in ToSet(rows) : OutcomeFits(ruleset, row.outcome)

CountOf(rows, Test(_)) == Cardinality({i \in DOMAIN rows : Test(rows[i].outcome)})

MatchedIds(outcome) == ToSet(outcome.matched_rule_ids)
FirstMatchIs(outcome, id) ==
  outcome.matched_rule_ids # <<>> /\ Head(outcome.matched_rule_ids) = id

NotMatched(outcome) == outcome.matched_rule_ids = <<>>   \* mutant: errors are clean
CleanNoMatch(outcome) == outcome.matched_rule_ids = <<>> /\ ~outcome.error

RuleCoverage(rule, rows) ==
  LET match_count == CountOf(rows, LAMBDA o : rule.rule_id \in MatchedIds(o))
  IN  [rule_id |-> rule.rule_id, match_count |-> match_count,
       first_match_count |-> CountOf(rows, LAMBDA o : FirstMatchIs(o, rule.rule_id)),
       dead |-> match_count = 0,
       suspiciously_broad |->
         /\ rows # <<>>
         /\ match_count * BroadMatchThreshold[2] >= BroadMatchThreshold[1] * Len(rows)]

Analyze(ruleset, rows) ==
  LET active == ActiveRules(ruleset)
  IN  [total_row_count |-> Len(rows),
       no_match_count |-> CountOf(rows, CleanNoMatch),
       error_count |-> CountOf(rows, LAMBDA o : o.error),
       rules |-> [i \in DOMAIN active |-> RuleCoverage(active[i], rows)]]

\* coverage_report evaluates the rows once, as the source holds them now.
Report(ruleset) ==
  /\ report' = Analyze(ruleset, Evaluated(ruleset, world))
  /\ UNCHANGED dataFrameVars

CoverageInit == DataFrameInit /\ report = NoReport

CoverageNext ==
  \/ \E ruleset \in Rulesets : Report(ruleset)
  \/ DataFrameNext /\ UNCHANGED report

CoverageSpec == CoverageInit /\ [][CoverageNext]_<<dataFrameVars, report>>

-----------------------------------------------------------------------------
FirstMatches(rules) ==
  LET ofFirst[n \in 0 .. Len(rules)] ==
        IF n = 0 THEN 0 ELSE ofFirst[n - 1] + rules[n].first_match_count
  IN  ofFirst[Len(rules)]

\* Every row is counted once: as an error, as a clean row no rule matched, or under
\* the rule that matched it first; and no rate counts a row that failed.  Only a
\* threshold of nought calls a rule broad that is dead.
AddsUp(coverage) ==
  LET clean == coverage.total_row_count - coverage.error_count
  IN  /\ clean = coverage.no_match_count + FirstMatches(coverage.rules)
      /\ \A rule \in ToSet(coverage.rules) :
           /\ rule.first_match_count <= rule.match_count
           /\ rule.match_count <= clean - coverage.no_match_count
           /\ rule.dead /\ rule.suspiciously_broad => BroadMatchThreshold[1] = 0

\* The coverage of a validated ruleset counts every row once: rule ids are unique,
\* an error row matches nothing and a row no rule matched has no first match.
CoverageAddsUp == report # NoReport => AddsUp(report)
=============================================================================

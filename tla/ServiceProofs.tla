--------------------------- MODULE ServiceProofs ---------------------------
(***************************************************************************)
(* The parts the service composes.  Why the two projections of a persisted *)
(* evaluation belong together: both are read from the one cache that the   *)
(* first action fills, and the keys that identify a row are never          *)
(* assigned.  Why a coverage report adds up: each evaluated row is an      *)
(* error, matches no rule or has one first match, because the outcome of a *)
(* row fits the ruleset it was made with.  And why a save of functions can *)
(* be repeated: what a save leaves, the same save leaves alone.            *)
(***************************************************************************)
EXTENDS Coverage, FunctionRegistryTable, RuleSemanticsProofs

\* A plan is made of a valid ruleset and of source columns no rule assigns.
PlanOK ==
  plan # NoPlan =>
    /\ plan.ruleset \in Rulesets
    /\ plan.keys \subseteq Columns
    /\ plan.keys \cap TargetsOf(plan.ruleset) = {}

\* Rows are held of a plan only, and while it is persisted they are projections
\* of what is cached.
RowsFromCache ==
  /\ plan = NoPlan => results = NoRows /\ business = NoRows
  /\ persisted /\ results # NoRows => cache # NoRows /\ results = ResultRows(cache)
  /\ persisted /\ business # NoRows => cache # NoRows /\ business = BusinessRows(cache)

ProjectionInv == world \in Worlds /\ PlanOK /\ RowsFromCache

\* The keys and the applied values of two projections of one evaluated row agree.
LEMMA RowsAgree ==
  ASSUME NEW e, plan.keys \subseteq Columns, plan.keys \cap TargetsOf(plan.ruleset) = {}
  PROVE  SameRow(ResultRow(e), BusinessRow(e))
<1>1. \A k \in plan.keys : BusinessRow(e)[k] = ResultRow(e).keys[k]
  BY DEF BusinessRow, ResultRow
<1>2. ASSUME NEW t \in TargetsOf(plan.ruleset), ResultRow(e).outcome.assign[t].applied
      PROVE  BusinessRow(e)[t] = ResultRow(e).outcome.assign[t].value
  BY <1>2 DEF BusinessRow, ResultRow, AppliedValue
<1> QED
  BY <1>1, <1>2 DEF SameRow

\* Projections of one cache agree row by row.
LEMMA CachedAgree == ProjectionInv => ProjectionsAgree
<1> SUFFICES ASSUME ProjectionInv, persisted, results # NoRows, business # NoRows
             PROVE  /\ DOMAIN results = DOMAIN business
                    /\ \A i \in DOMAIN results : SameRow(results[i], business[i])
  BY DEF ProjectionsAgree
<1>1. results = ResultRows(cache) /\ business = BusinessRows(cache)
  BY DEF ProjectionInv, RowsFromCache
<1>2. plan.keys \subseteq Columns /\ plan.keys \cap TargetsOf(plan.ruleset) = {}
  BY DEF ProjectionInv, RowsFromCache, PlanOK
<1>3. DOMAIN results = DOMAIN cache /\ DOMAIN business = DOMAIN cache
  BY <1>1 DEF ResultRows, BusinessRows
<1>4. ASSUME NEW i \in DOMAIN results
      PROVE  SameRow(results[i], business[i])
  <2>1. results[i] = ResultRow(cache[i]) /\ business[i] = BusinessRow(cache[i])
    BY <1>1, <1>3, <1>4 DEF ResultRows, BusinessRows
  <2> QED
    BY <2>1, <1>2, RowsAgree
<1> QED
  BY <1>3, <1>4

\* Nothing is projected at first.
LEMMA ProjectionInit == DataFrameInit => ProjectionInv
  BY DEF DataFrameInit, ProjectionInv, PlanOK, RowsFromCache

\* What an action leaves in the cache of a persisted plan is what it projected,
\* and it is what was cached before, if anything was.
LEMMA CacheKept ==
  ASSUME ProjectionInv, plan # NoPlan, persisted
  PROVE  CacheOf(Rows) = Rows /\ Rows # NoRows /\ (cache # NoRows => Rows = cache)
  BY EvaluatedRows DEF ProjectionInv, PlanOK, CacheOf, Rows

\* A projection depends on the plan and on the cached rows only.
LEMMA ProjectionsKept ==
  ASSUME plan' = plan, cache' = cache
  PROVE  ResultRows(cache)' = ResultRows(cache) /\ BusinessRows(cache)' = BusinessRows(cache)
  BY DEF ResultRows, ResultRow, BusinessRows, BusinessRow, AppliedValue

\* No step of the caller, of the worker or of the source breaks the invariant.
LEMMA ProjectionStep == ProjectionInv /\ [DataFrameNext]_dataFrameVars => ProjectionInv'
<1> SUFFICES ASSUME ProjectionInv, [DataFrameNext]_dataFrameVars
             PROVE  ProjectionInv'
  OBVIOUS
<1>1. CASE ChangeWorld
  <2>1. UNCHANGED <<plan, persisted, cache, results, business>> /\ world' \in Worlds
    BY <1>1 DEF ChangeWorld, evaluationVars
  <2> QED
    BY <2>1, ProjectionsKept DEF ProjectionInv, PlanOK, RowsFromCache
<1>2. ASSUME NEW r \in Rulesets, NEW keys \in SUBSET Columns, NEW f \in BOOLEAN,
             Evaluate(r, keys, f)
      PROVE  ProjectionInv'
  <2>1. PlanOK'
    BY <1>2 DEF Evaluate, PlanOK
  <2>2. RowsFromCache'
    BY <1>2 DEF Evaluate, ForgetRows, RowsFromCache
  <2> QED
    BY <1>2, <2>1, <2>2 DEF ProjectionInv, Evaluate
<1>3. CASE Persist
  BY <1>3 DEF Persist, ForgetRows, ProjectionInv, PlanOK, RowsFromCache
<1>4. CASE Unpersist
  BY <1>4 DEF Unpersist, ForgetRows, ProjectionInv, PlanOK, RowsFromCache
<1>5. CASE ShowResults
  <2>1. world' \in Worlds /\ PlanOK'
    BY <1>5 DEF ShowResults, ProjectionInv, PlanOK
  <2>2. plan # NoPlan /\ plan' = plan /\ persisted' = persisted /\ business' = business
    BY <1>5 DEF ShowResults, Materializes
  <2>3. ASSUME persisted'
        PROVE  /\ cache' # NoRows /\ results' = ResultRows(cache)'
               /\ business' # NoRows => business' = BusinessRows(cache)'
    <3>1. cache' = Rows /\ Rows # NoRows /\ (cache # NoRows => Rows = cache)
      BY <1>5, <2>2, <2>3, CacheKept DEF ShowResults
    <3>2. results' = ResultRows(cache)'
      BY <1>5, <2>2, <3>1 DEF ShowResults, ResultRows, ResultRow
    <3>3. ASSUME business' # NoRows
          PROVE  business' = BusinessRows(cache)'
      <4>1. cache # NoRows /\ business = BusinessRows(cache)
        BY <2>2, <2>3, <3>3 DEF ProjectionInv, RowsFromCache
      <4>2. cache' = cache
        BY <3>1, <4>1
      <4> QED
        BY <2>2, <4>1, <4>2 DEF BusinessRows, BusinessRow, AppliedValue
    <3> QED
      BY <3>1, <3>2, <3>3
  <2> QED
    BY <2>1, <2>2, <2>3 DEF ProjectionInv, RowsFromCache
<1>6. CASE ShowBusiness
  <2>1. world' \in Worlds /\ PlanOK'
    BY <1>6 DEF ShowBusiness, ProjectionInv, PlanOK
  <2>2. plan # NoPlan /\ plan' = plan /\ persisted' = persisted /\ results' = results
    BY <1>6 DEF ShowBusiness, Materializes
  <2>3. ASSUME persisted'
        PROVE  /\ cache' # NoRows /\ business' = BusinessRows(cache)'
               /\ results' # NoRows => results' = ResultRows(cache)'
    <3>1. cache' = Rows /\ Rows # NoRows /\ (cache # NoRows => Rows = cache)
      BY <1>6, <2>2, <2>3, CacheKept DEF ShowBusiness
    <3>2. business' = BusinessRows(cache)'
      BY <1>6, <2>2, <3>1 DEF ShowBusiness, BusinessRows, BusinessRow, AppliedValue
    <3>3. ASSUME results' # NoRows
          PROVE  results' = ResultRows(cache)'
      <4>1. cache # NoRows /\ results = ResultRows(cache)
        BY <2>2, <2>3, <3>3 DEF ProjectionInv, RowsFromCache
      <4>2. cache' = cache
        BY <3>1, <4>1
      <4> QED
        BY <2>2, <4>1, <4>2 DEF ResultRows, ResultRow
    <3> QED
      BY <3>1, <3>2, <3>3
  <2> QED
    BY <2>1, <2>2, <2>3 DEF ProjectionInv, RowsFromCache
<1>7. CASE UNCHANGED dataFrameVars
  <2>1. UNCHANGED <<world, plan, persisted, cache, results, business>>
    BY <1>7 DEF dataFrameVars
  <2> QED
    BY <2>1, ProjectionsKept DEF ProjectionInv, PlanOK, RowsFromCache
<1> QED
  BY <1>1, <1>2, <1>3, <1>4, <1>5, <1>6, <1>7 DEF DataFrameNext

\* dataframe_evaluation.py:28: both projections of a persisted evaluation use the
\* same evaluated rows, for any rulesets, any columns and any change of the source.
THEOREM ProjectionsAlwaysAgree == DataFrameSpec => []ProjectionsAgree
<1>1. DataFrameSpec => []ProjectionInv
  BY ProjectionInit, ProjectionStep, PTL DEF DataFrameSpec
<1> QED
  BY <1>1, CachedAgree, PTL

-----------------------------------------------------------------------------

\* The size of a union of two sets that have nothing in common.
LEMMA SizeOfBoth ==
  ASSUME NEW A, NEW B, IsFiniteSet(A), IsFiniteSet(B), A \cap B = {}
  PROVE  /\ Cardinality(A) \in Nat /\ Cardinality(B) \in Nat
         /\ Cardinality(A \cup B) = Cardinality(A) + Cardinality(B)
<1>1. Cardinality(A \cap B) = 0
  BY FS_EmptySet
<1>2. /\ Cardinality(A) \in Nat /\ Cardinality(B) \in Nat
      /\ Cardinality(A \cup B) = Cardinality(A) + Cardinality(B) - Cardinality(A \cap B)
  BY FS_CardinalityType, FS_Union
<1>. QED BY <1>1, <1>2

\* The first n values of part are subsets of D that have nothing in common.
Apart(D, n, part) ==
  /\ IsFiniteSet(D)
  /\ \A k \in 1 .. n : part[k] \subseteq D
  /\ \A i, j \in 1 .. n : i # j => part[i] \cap part[j] = {}

AllOf(n, part) == UNION {part[k] : k \in 1 .. n}

\* sum adds up their sizes.
Adds(sum, n, part) ==
  sum[0] = 0 /\ \A k \in 1 .. n : sum[k] = sum[k - 1] + Cardinality(part[k])

\* The sizes of sets that have nothing in common add up to that of their union.
LEMMA SizesAddUp ==
  ASSUME NEW D, NEW n \in Nat, NEW part, Apart(D, n, part), NEW sum, Adds(sum, n, part)
  PROVE  sum[n] = Cardinality(AllOf(n, part))
<1> USE DEF Apart, Adds, AllOf
<1> DEFINE Upto(k) == UNION {part[j] : j \in 1 .. k}
           T == {k \in Nat : k <= n => sum[k] = Cardinality(Upto(k))}
<1>1. 0 \in T
  <2>1. Upto(0) = {}
    OBVIOUS
  <2>. QED BY <2>1, FS_EmptySet
<1>2. ASSUME NEW k \in Nat, k \in T PROVE k + 1 \in T
  <2>1. SUFFICES ASSUME k + 1 <= n PROVE sum[k + 1] = Cardinality(Upto(k + 1))
    OBVIOUS
  <2>2. sum[k] = Cardinality(Upto(k)) /\ sum[k + 1] = sum[k] + Cardinality(part[k + 1])
    <3>1. k + 1 \in 1 .. n /\ k + 1 - 1 = k
      BY <2>1
    <3>. QED BY <1>2, <2>1, <3>1
  <2>3. Upto(k) \subseteq D /\ part[k + 1] \subseteq D
    BY <2>1
  <2>4. Upto(k + 1) = Upto(k) \cup part[k + 1]
    <3>1. 1 .. k + 1 = (1 .. k) \cup {k + 1}
      OBVIOUS
    <3>. QED BY <3>1
  <2>5. Upto(k) \cap part[k + 1] = {}
    <3>1. \A j \in 1 .. k : j \in 1 .. n /\ j # k + 1 /\ k + 1 \in 1 .. n
      BY <2>1
    <3>2. \A j \in 1 .. k : part[j] \cap part[k + 1] = {}
      BY <3>1
    <3>. QED BY <3>2
  <2> HIDE DEF Upto
  <2>6. IsFiniteSet(Upto(k)) /\ IsFiniteSet(part[k + 1])
    BY <2>3, FS_Subset
  <2>7. Cardinality(Upto(k) \cup part[k + 1]) = Cardinality(Upto(k)) + Cardinality(part[k + 1])
    BY <2>5, <2>6, SizeOfBoth
  <2>. QED BY <2>2, <2>4, <2>7
<1>3. n \in T
  <2> HIDE DEF T
  <2>. QED BY <1>1, <1>2, Inductive
<1>. QED BY <1>3

\* FirstMatches is the last of the partial sums it is defined by.
LEMMA FirstMatchesUnfold ==
  ASSUME NEW rules, NEW n \in Nat, Len(rules) = n,
         \A k \in 1 .. n : rules[k].first_match_count \in Nat
  PROVE  \E sum : /\ sum[0] = 0
                  /\ \A k \in 1 .. n : sum[k] = sum[k - 1] + rules[k].first_match_count
                  /\ FirstMatches(rules) = sum[n]
<1> DEFINE Fits(f) == f = [k \in 0 .. n |->
                             IF k = 0 THEN 0 ELSE f[k - 1] + rules[k].first_match_count]
           step == [k \in 1 .. n |-> [x \in Nat |-> x + rules[k].first_match_count]]
           sum == CHOOSE f : Fits(f)
<1>1. \E f : Fits(f)
  <2>1. step \in [1 .. n -> [Nat -> Nat]]
    OBVIOUS
  <2>2. PICK f \in [0 .. n -> Nat] : Recurrence(f, n, 0, step)
    <3> HIDE DEF step
    <3>. QED BY <2>1, ForwardRecursion
  <2>3. f[0] = 0 /\ \A k \in 1 .. n : f[k] = f[k - 1] + rules[k].first_match_count
    <3>1. \A k \in 1 .. n : k - 1 \in 0 .. n
      OBVIOUS
    <3>2. \A k \in 1 .. n : f[k - 1] \in Nat
      BY <3>1
    <3>. QED BY <2>2, <3>2 DEF Recurrence
  <2>4. \A k \in 0 .. n : k # 0 => k \in 1 .. n
    OBVIOUS
  <2>5. Fits(f)
    BY <2>3, <2>4
  <2>. QED BY <2>5
<1>2. FirstMatches(rules) = sum[n]
  BY DEF FirstMatches
<1>3. Fits(sum)
  <2> HIDE DEF Fits
  <2>. QED BY <1>1
<1> HIDE DEF sum
<1>4. /\ sum[0] = 0
      /\ \A k \in 1 .. n : k \in 0 .. n /\ k # 0
  BY <1>3
<1>5. \A k \in 1 .. n : sum[k] = sum[k - 1] + rules[k].first_match_count
  BY <1>3, <1>4
<1>. QED BY <1>2, <1>4, <1>5

\* If the rows first matched by each rule are counted apart, FirstMatches counts all of
\* them.
LEMMA FirstMatchesCount ==
  ASSUME NEW D, NEW n \in Nat, NEW part, Apart(D, n, part),
         NEW rules, Len(rules) = n,
         \A k \in 1 .. n : rules[k].first_match_count = Cardinality(part[k])
  PROVE  FirstMatches(rules) = Cardinality(AllOf(n, part))
<1>1. \A k \in 1 .. n : rules[k].first_match_count \in Nat
  BY FS_Subset, FS_CardinalityType DEF Apart
<1>2. PICK sum : /\ sum[0] = 0
                 /\ \A k \in 1 .. n : sum[k] = sum[k - 1] + rules[k].first_match_count
                 /\ FirstMatches(rules) = sum[n]
  BY <1>1, FirstMatchesUnfold
<1>3. Adds(sum, n, part)
  BY <1>2 DEF Adds
<1>4. sum[n] = Cardinality(AllOf(n, part))
  BY <1>3, SizesAddUp
<1>. QED BY <1>2, <1>4

\* What the analyzer counts for a rule, as sets of positions.
MatchedAt(rows, rule) ==
  {i \in DOMAIN rows : rule.rule_id \in ToSet(rows[i].outcome.matched_rule_ids)}
FirstAt(rows, rule) ==
  {i \in DOMAIN rows : /\ rows[i].outcome.matched_rule_ids # <<>>
                       /\ Head(rows[i].outcome.matched_rule_ids) = rule.rule_id}
ErrorsAt(rows) == {i \in DOMAIN rows : rows[i].outcome.error}
CleanAt(rows) ==
  {i \in DOMAIN rows : rows[i].outcome.matched_rule_ids = <<>> /\ ~rows[i].outcome.error}

\* The counts of a report are the sizes of those sets.
LEMMA CountsOfReport ==
  ASSUME NEW ruleset, NEW rows, NEW order, order = ActiveRules(ruleset),
         NEW coverage, coverage = Analyze(ruleset, rows)
  PROVE  /\ coverage.total_row_count = Len(rows)
         /\ coverage.no_match_count = Cardinality(CleanAt(rows))
         /\ coverage.error_count = Cardinality(ErrorsAt(rows))
         /\ DOMAIN coverage.rules = DOMAIN order
         /\ \A k \in DOMAIN order : LET rule == coverage.rules[k] IN
              /\ rule.match_count = Cardinality(MatchedAt(rows, order[k]))
              /\ rule.first_match_count = Cardinality(FirstAt(rows, order[k]))
              /\ rule.dead <=> rule.match_count = 0
              /\ rule.suspiciously_broad <=>
                   /\ rows # <<>>
                   /\ rule.match_count * BroadMatchThreshold[2]
                        >= BroadMatchThreshold[1] * Len(rows)
<1>1. /\ coverage.total_row_count = Len(rows)
      /\ coverage.no_match_count = CountOf(rows, CleanNoMatch)
      /\ coverage.error_count = CountOf(rows, LAMBDA o : o.error)
      /\ coverage.rules = [k \in DOMAIN order |-> RuleCoverage(order[k], rows)]
  BY DEF Analyze
<1>2. /\ CountOf(rows, CleanNoMatch) = Cardinality(CleanAt(rows))
      /\ CountOf(rows, LAMBDA o : o.error) = Cardinality(ErrorsAt(rows))
  BY DEF CountOf, CleanNoMatch, CleanAt, ErrorsAt
<1>3. ASSUME NEW k \in DOMAIN order, NEW rule, rule = RuleCoverage(order[k], rows)
      PROVE  /\ rule.match_count = Cardinality(MatchedAt(rows, order[k]))
             /\ rule.first_match_count = Cardinality(FirstAt(rows, order[k]))
             /\ rule.dead <=> rule.match_count = 0
             /\ rule.suspiciously_broad <=>
                  /\ rows # <<>>
                  /\ rule.match_count * BroadMatchThreshold[2]
                       >= BroadMatchThreshold[1] * Len(rows)
  BY <1>3 DEF RuleCoverage, CountOf, MatchedIds, FirstMatchIs, MatchedAt, FirstAt
<1>. QED BY <1>1, <1>2, <1>3

\* The report on rows with fitting outcomes adds up.
LEMMA AnalysisAddsUp ==
  ASSUME NEW ruleset, WellFormedRuleset(ruleset), NEW rows, rows \in Seq(ToSet(rows)),
         \A row \in ToSet(rows) : OutcomeFits(ruleset, row.outcome)
  PROVE  AddsUp(Analyze(ruleset, rows))
<1>1. PICK order : order = ActiveRules(ruleset)
  OBVIOUS
<1>2. PICK coverage : coverage = Analyze(ruleset, rows)
  OBVIOUS
<1>3. PICK m \in Nat, n \in Nat : /\ m = Len(rows) /\ DOMAIN rows = 1 .. m
                                  /\ n = Len(order) /\ DOMAIN order = 1 .. n
  <2>1. order \in Seq(ruleset)
    BY <1>1, ActiveRulesAscend
  <2>. QED BY <2>1
<1>4. /\ \A k \in 1 .. n : order[k] \in ruleset
      /\ \A i, j \in 1 .. n : i # j => order[i].rule_id # order[j].rule_id
      /\ \A r \in ruleset : r.active_flag => \E k \in 1 .. n : order[k] = r
  <2>1. /\ order \in Seq(ruleset)
        /\ ToSet(order) = {r \in ruleset : r.active_flag}
        /\ \A i, j \in 1 .. n : i < j => order[i] # order[j]
    BY <1>1, <1>3, ActiveRulesAscend
  <2>2. \A k \in 1 .. n : order[k] \in ruleset
    BY <1>3, <2>1
  <2>3. \A i, j \in 1 .. n : i # j => order[i] # order[j]
    BY <2>1
  <2>4. \A r, s \in ruleset : r.rule_id = s.rule_id => r = s
    BY DEF WellFormedRuleset
  <2>5. ASSUME NEW r \in ruleset, r.active_flag
        PROVE  \E k \in 1 .. n : order[k] = r
    <3>1. r \in ToSet(order)
      BY <2>1, <2>5
    <3>. QED BY <1>3, <3>1 DEF ToSet
  <2>. QED BY <2>2, <2>3, <2>4, <2>5
<1>5. ASSUME NEW i \in 1 .. m
      PROVE  LET matched == rows[i].outcome.matched_rule_ids IN
             /\ rows[i].outcome.error \in BOOLEAN
             /\ rows[i].outcome.error => matched = <<>>
             /\ matched # <<>> =>
                  /\ Head(matched) \in ToSet(matched)
                  /\ \E k \in 1 .. n : Head(matched) = order[k].rule_id
             /\ matched = <<>> => ToSet(matched) = {}
  <2>1. rows[i] \in ToSet(rows)
    BY <1>3 DEF ToSet
  <2>2. PICK matched : matched = rows[i].outcome.matched_rule_ids
    OBVIOUS
  <2>3. PICK ids : ids = {r.rule_id : r \in {s \in ruleset : s.active_flag}}
    OBVIOUS
  <2>4. /\ matched \in Seq(ids)
        /\ rows[i].outcome.error \in BOOLEAN /\ (rows[i].outcome.error => matched = <<>>)
    BY <2>1, <2>2, <2>3 DEF OutcomeFits
  <2>5. ASSUME matched # <<>>
        PROVE  Head(matched) \in ToSet(matched) /\ Head(matched) \in ids
    BY <2>4, <2>5 DEF ToSet
  <2>6. \A x \in ids : \E k \in 1 .. n : x = order[k].rule_id
    BY <1>4, <2>3
  <2>7. matched = <<>> => ToSet(matched) = {}
    BY DEF ToSet
  <2>. QED BY <2>2, <2>4, <2>5, <2>6, <2>7
<1> DEFINE part == [k \in 1 .. n |-> FirstAt(rows, order[k])]
           counted == UNION {part[k] : k \in 1 .. n}
<1>6. /\ part \in [1 .. n -> SUBSET (1 .. m)]
      /\ \A k \in 1 .. n : part[k] = FirstAt(rows, order[k])
  BY <1>3 DEF FirstAt
<1>7. \A i, j \in 1 .. n : i # j => part[i] \cap part[j] = {}
  BY <1>4, <1>6 DEF FirstAt
<1>8. counted = {i \in 1 .. m : rows[i].outcome.matched_rule_ids # <<>>}
  <2>1. counted \subseteq {i \in 1 .. m : rows[i].outcome.matched_rule_ids # <<>>}
    BY <1>3, <1>6 DEF FirstAt
  <2>2. ASSUME NEW i \in 1 .. m, rows[i].outcome.matched_rule_ids # <<>>
        PROVE  i \in counted
    <3>1. PICK k \in 1 .. n : Head(rows[i].outcome.matched_rule_ids) = order[k].rule_id
      BY <1>5, <2>2
    <3>2. i \in part[k]
      BY <1>3, <1>6, <2>2, <3>1 DEF FirstAt
    <3>. QED BY <3>2
  <2>. QED BY <2>1, <2>2
<1> HIDE DEF part
<1>9. /\ IsFiniteSet(1 .. m) /\ Cardinality(1 .. m) = m
      /\ \A S \in SUBSET (1 .. m) : IsFiniteSet(S) /\ Cardinality(S) \in Nat
  <2>1. IsFiniteSet(1 .. m) /\ Cardinality(1 .. m) = m
    BY FS_Interval
  <2>. QED BY <2>1, FS_Subset, FS_CardinalityType
<1>10. /\ counted \subseteq 1 .. m /\ ErrorsAt(rows) \subseteq 1 .. m
       /\ CleanAt(rows) \subseteq 1 .. m
       /\ counted \cup CleanAt(rows) \cup ErrorsAt(rows) = 1 .. m
       /\ counted \cap CleanAt(rows) = {}
       /\ (counted \cup CleanAt(rows)) \cap ErrorsAt(rows) = {}
  BY <1>3, <1>5, <1>8 DEF ErrorsAt, CleanAt
<1> HIDE DEF counted, AllOf
<1>11. m = Cardinality(counted) + Cardinality(CleanAt(rows)) + Cardinality(ErrorsAt(rows))
  <2>1. PICK A, B, C : A = counted /\ B = CleanAt(rows) /\ C = ErrorsAt(rows)
    OBVIOUS
  <2>2. /\ A \subseteq 1 .. m /\ B \subseteq 1 .. m /\ C \subseteq 1 .. m
        /\ A \cup B \subseteq 1 .. m /\ (A \cup B) \cup C = 1 .. m
        /\ A \cap B = {} /\ (A \cup B) \cap C = {}
    BY <1>10, <2>1
  <2>3. /\ IsFiniteSet(A) /\ IsFiniteSet(B) /\ IsFiniteSet(C) /\ IsFiniteSet(A \cup B)
        /\ Cardinality(A) \in Nat /\ Cardinality(B) \in Nat /\ Cardinality(C) \in Nat
        /\ Cardinality(A \cup B) \in Nat
    BY <1>9, <2>2
  <2>4. Cardinality(A \cup B) = Cardinality(A) + Cardinality(B)
    BY <2>2, <2>3, SizeOfBoth
  <2>5. Cardinality((A \cup B) \cup C) = Cardinality(A \cup B) + Cardinality(C)
    BY <2>2, <2>3, SizeOfBoth
  <2>. QED BY <1>9, <2>1, <2>2, <2>3, <2>4, <2>5
<1>12. FirstMatches(coverage.rules) = Cardinality(counted)
  <2>1. PICK rules : rules = coverage.rules
    OBVIOUS
  <2>2. /\ DOMAIN rules = 1 .. n
        /\ \A k \in 1 .. n : rules[k].first_match_count = Cardinality(part[k])
    BY <1>1, <1>2, <1>3, <1>6, <2>1, CountsOfReport
  <2>3. Len(rules) = n /\ \A k \in 1 .. n : rules[k].first_match_count \in Nat
    BY <1>6, <1>9, <2>2
  <2>5. Apart(1 .. m, n, part)
    BY <1>6, <1>7, <1>9 DEF Apart
  <2>6. FirstMatches(rules) = Cardinality(AllOf(n, part))
    BY <2>2, <2>3, <2>5, FirstMatchesCount
  <2>. QED BY <2>1, <2>6 DEF counted, AllOf
<1>13. ASSUME NEW k \in 1 .. n, NEW rule, rule = coverage.rules[k]
       PROVE  /\ rule.first_match_count <= rule.match_count
              /\ rule.match_count <= Cardinality(counted)
              /\ rule.dead /\ rule.suspiciously_broad => BroadMatchThreshold[1] = 0
  <2>1. PICK A, B : A = FirstAt(rows, order[k]) /\ B = MatchedAt(rows, order[k])
    OBVIOUS
  <2>2. A \subseteq B /\ B \subseteq counted
    BY <1>3, <1>5, <1>8, <2>1 DEF FirstAt, MatchedAt
  <2>3. Cardinality(A) <= Cardinality(B) /\ Cardinality(B) <= Cardinality(counted)
    <3>1. B \subseteq 1 .. m
      BY <1>10, <2>2
    <3>2. IsFiniteSet(B) /\ IsFiniteSet(counted)
      BY <1>9, <1>10, <3>1
    <3>. QED BY <2>2, <3>2, FS_Subset
  <2>4. /\ rule.match_count = Cardinality(B) /\ rule.first_match_count = Cardinality(A)
        /\ rule.dead <=> rule.match_count = 0
        /\ rule.suspiciously_broad <=>
             /\ rows # <<>>
             /\ rule.match_count * BroadMatchThreshold[2] >= BroadMatchThreshold[1] * m
    BY <1>1, <1>2, <1>3, <1>13, <2>1, CountsOfReport
  <2>5. ASSUME rule.dead, rule.suspiciously_broad
        PROVE  BroadMatchThreshold[1] = 0
    <3>1. PICK x \in Nat, y \in Nat : BroadMatchThreshold[1] = x /\ BroadMatchThreshold[2] = y
      BY CoverageAssumption
    <3>2. 0 * y >= x * m
      BY <2>4, <2>5, <3>1
    <3>3. m > 0
      BY <1>3, <2>4, <2>5
    <3>. QED BY <3>1, <3>2, <3>3
  <2>. QED BY <2>3, <2>4, <2>5
<1>14. /\ coverage.total_row_count = m
       /\ coverage.no_match_count = Cardinality(CleanAt(rows))
       /\ coverage.error_count = Cardinality(ErrorsAt(rows))
       /\ DOMAIN coverage.rules = 1 .. n
  BY <1>1, <1>2, <1>3, CountsOfReport
<1>15. /\ Cardinality(counted) \in Nat /\ Cardinality(CleanAt(rows)) \in Nat
       /\ Cardinality(ErrorsAt(rows)) \in Nat
  BY <1>9, <1>10
<1>16. m - Cardinality(ErrorsAt(rows)) = Cardinality(CleanAt(rows)) + Cardinality(counted)
  BY <1>11, <1>15
<1>17. m - Cardinality(ErrorsAt(rows)) - Cardinality(CleanAt(rows)) = Cardinality(counted)
  BY <1>11, <1>15
<1>18. \A rule \in ToSet(coverage.rules) : \E k \in 1 .. n : rule = coverage.rules[k]
  BY <1>14 DEF ToSet
<1>. QED BY <1>2, <1>12, <1>13, <1>14, <1>16, <1>17, <1>18 DEF AddsUp

----------------------------------------------------------------------------
(* The worker's outcome of a row fits.                                     *)

\* A state of the loop: the rules matched are among those of ids.
IsState(s, ids) ==
  /\ DOMAIN s = {"matched_rule_ids", "assigned_values", "stopped", "error"}
  /\ s.matched_rule_ids \in Seq(ids)
  /\ s.error \in BOOLEAN

\* One rule leaves a state.
LEMMA StateAfterRule ==
  ASSUME NEW ids, NEW s, IsState(s, ids), NEW rule, rule.rule_id \in ids, NEW row
  PROVE  IsState(AfterRule(s, rule, row), ids)
<1>1. IsState([s EXCEPT !.error = TRUE], ids)
  BY DEF IsState
<1>2. ASSUME NEW values
      PROVE  IsState([matched_rule_ids |-> Append(s.matched_rule_ids, rule.rule_id),
                      assigned_values |-> values,
                      stopped |-> rule.stop_on_match, error |-> FALSE], ids)
  BY DEF IsState
<1>3. PICK matches : matches = IF s.stopped \/ s.error THEN "false"
                               ELSE RuleMatches(rule, row, s.assigned_values)
  OBVIOUS
<1>4. PICK proposed : proposed = ProposedValues(rule, row, s.assigned_values)
  OBVIOUS
<1>5. AfterRule(s, rule, row) =
        CASE matches = "false" -> s
          [] matches = "raised" -> [s EXCEPT !.error = TRUE]
          [] OTHER ->
               IF Raised \in ToSet(proposed) THEN [s EXCEPT !.error = TRUE]
               ELSE [matched_rule_ids |-> Append(s.matched_rule_ids, rule.rule_id),
                     assigned_values |-> Commit(rule, proposed, s.assigned_values),
                     stopped |-> rule.stop_on_match, error |-> FALSE]
  BY <1>3, <1>4 DEF AfterRule
<1>6. PICK values : values = Commit(rule, proposed, s.assigned_values)
  OBVIOUS
<1>7. CASE matches = "false"
  BY <1>5, <1>7
<1>8. CASE matches = "raised"
  BY <1>1, <1>5, <1>8
<1>9. CASE matches # "false" /\ matches # "raised"
  BY <1>1, <1>2, <1>5, <1>6, <1>9
<1>. QED BY <1>7, <1>8, <1>9

\* The worker's outcome of any row by a validated ruleset is one that fits: this is
\* what CoverageAssumption asks of Evaluated.
THEOREM OutcomesFit ==
  ASSUME NEW ruleset, WellFormedRuleset(ruleset), NEW row
  PROVE  OutcomeFits(ruleset, RowOutcome(ruleset, row))
<1>1. PICK rules : rules = ActiveRules(ruleset)
  OBVIOUS
<1>2. PICK ids : ids = {r.rule_id : r \in {s \in ruleset : s.active_flag}}
  OBVIOUS
<1>3. rules \in Seq(ruleset) /\ ToSet(rules) = {s \in ruleset : s.active_flag}
  BY <1>1, ActiveRulesAscend
<1>4. PICK n \in Nat : n = Len(rules) /\ DOMAIN rules = 1 .. n
  BY <1>3
<1>5. \A k \in 1 .. n : rules[k].rule_id \in ids
  BY <1>2, <1>3, <1>4 DEF ToSet
<1>6. PICK after : /\ IsLoop(after, rules, row)
                   /\ RowOutcome(ruleset, row) = OutcomeOf(ruleset, after[n])
  BY <1>1, <1>4, OutcomeUnfold
<1> DEFINE T == {k \in Nat : k <= n => IsState(after[k], ids)}
<1>7. 0 \in T
  <2>1. IsState(Start, ids)
    BY DEF IsState, Start
  <2>. QED BY <1>6, <2>1 DEF IsLoop
<1>8. ASSUME NEW k \in Nat, k \in T PROVE k + 1 \in T
  <2>1. SUFFICES ASSUME k + 1 <= n PROVE IsState(after[k + 1], ids)
    OBVIOUS
  <2>2. IsState(after[k], ids) /\ k + 1 \in 1 .. n /\ k + 1 - 1 = k
    BY <1>8, <2>1
  <2>3. after[k + 1] = AfterRule(after[k], rules[k + 1], row)
    BY <1>4, <1>6, <2>2 DEF IsLoop
  <2>4. rules[k + 1].rule_id \in ids
    BY <1>5, <2>2
  <2>. QED BY <2>2, <2>3, <2>4, StateAfterRule
<1>9. n \in T
  <2> HIDE DEF T
  <2>. QED BY <1>7, <1>8, Inductive
<1>10. IsState(after[n], ids)
  BY <1>9
<1>11. OutcomeFits(ruleset, OutcomeOf(ruleset, after[n]))
  BY <1>2, <1>10 DEF IsState, OutcomeFits, OutcomeOf
<1>. QED BY <1>6, <1>11

----------------------------------------------------------------------------
(* Every report adds up.                                                   *)

CoverageInv == world \in Worlds /\ CoverageAddsUp

\* coverage_report: for any rulesets, rows and threshold, each row is counted once
\* in every report, whatever the source holds when it is made.
THEOREM ReportsAddUp == CoverageSpec => []CoverageAddsUp
<1>1. CoverageInit => CoverageInv
  BY DEF CoverageInit, DataFrameInit, CoverageInv, CoverageAddsUp
<1>2. CoverageInv /\ [CoverageNext]_<<dataFrameVars, report>> => CoverageInv'
  <2> SUFFICES ASSUME CoverageInv, [CoverageNext]_<<dataFrameVars, report>>
               PROVE  CoverageInv'
    OBVIOUS
  <2>1. world' \in Worlds
    BY DEF CoverageInv, CoverageNext, Report, dataFrameVars, DataFrameNext, ChangeWorld,
           Evaluate, Persist, Unpersist, ShowResults, ShowBusiness
  <2>2. ASSUME NEW ruleset \in Rulesets, Report(ruleset)
        PROVE  AddsUp(report)'
    <3>1. PICK rows : rows = Evaluated(ruleset, world)
      OBVIOUS
    <3>2. /\ WellFormedRuleset(ruleset) /\ rows \in Seq(ToSet(rows))
          /\ \A row \in ToSet(rows) : OutcomeFits(ruleset, row.outcome)
      BY <3>1, CoverageAssumption DEF CoverageInv
    <3>3. report' = Analyze(ruleset, rows)
      BY <2>2, <3>1 DEF Report
    <3>4. AddsUp(Analyze(ruleset, rows))
      BY <3>2, AnalysisAddsUp
    <3>. QED BY <3>3, <3>4 DEF AddsUp
  <2>3. ASSUME report' = report
        PROVE  CoverageAddsUp'
    BY <2>3 DEF CoverageInv, CoverageAddsUp, AddsUp
  <2>4. CoverageAddsUp'
    <3>1. CASE \E ruleset \in Rulesets : Report(ruleset)
      BY <2>2, <3>1 DEF CoverageAddsUp
    <3>2. CASE report' = report
      BY <2>3, <3>2
    <3>. QED BY <3>1, <3>2 DEF CoverageNext
  <2>. QED BY <2>1, <2>4 DEF CoverageInv
<1>. QED BY <1>1, <1>2, PTL DEF CoverageSpec, CoverageInv

----------------------------------------------------------------------------
(* A save repeated.                                                        *)

\* The source rows for a function are a sequence.
LEMMA RowsNamingType ==
  ASSUME NEW save \in Saves, NEW n
  PROVE  \E S : RowsNaming(n, save.rows) \in Seq(S)
<1>1. PICK rows, S : rows = save.rows /\ rows \in Seq(S)
  BY SavesAssumption
<1>2. PICK named : named = [i \in DOMAIN rows |->
                              IF rows[i].function_name = n THEN <<rows[i]>> ELSE <<>>]
  OBVIOUS
<1>3. named \in Seq(Seq(S))
  <2>1. \A i \in DOMAIN rows : <<rows[i]>> \in Seq(S) /\ <<>> \in Seq(S)
    BY <1>1, ElementOfSeq, LenProperties
  <2>2. \A i \in DOMAIN rows : named[i] \in Seq(S)
    BY <1>2, <2>1
  <2>3. DOMAIN rows = 1 .. Len(rows) /\ Len(rows) \in Nat
    BY <1>1, LenProperties
  <2>. QED BY <1>2, <2>2, <2>3, SeqDef
<1>4. FlattenSeq(named) \in Seq(S)
  BY <1>3, FlattenAppend, EmptySeq
<1>. QED BY <1>1, <1>2, <1>4 DEF RowsNaming

\* A save that is made again is refused or finds every row as it would leave it.
Settled(table, save) == Ambiguous(table, save) \/ Merged(table, save) = table

RegistryInv ==
  /\ function_rows = [n \in FunctionNames |-> function_rows[n]]
  /\ last_save # NoSave => last_save \in Saves /\ Settled(function_rows, last_save)

\* What a save makes of the table is settled for it.
LEMMA MergeSettles ==
  ASSUME NEW save \in Saves, NEW table, ~Ambiguous(table, save),
         NEW merged, merged = Merged(table, save)
  PROVE  Settled(merged, save)
<1>1. SUFFICES ASSUME ~Ambiguous(merged, save) PROVE Merged(merged, save) = merged
  BY DEF Settled
<1>2. ASSUME NEW n \in FunctionNames PROVE Merged(merged, save)[n] = merged[n]
  <2>1. PICK source : source = RowsNaming(n, save.rows)
    OBVIOUS
  <2>2. PICK S : source \in Seq(S)
    BY <2>1, RowsNamingType
  <2>3. PICK old, new : old = table[n] /\ new = merged[n]
    OBVIOUS
  <2>4. new = IF source = <<>> THEN old
              ELSE IF old = <<>> THEN source
              ELSE IF save.update_existing THEN [i \in DOMAIN old |-> source[1]]
              ELSE old
    BY <1>2, <2>1, <2>3 DEF Merged
  <2>5. Merged(merged, save)[n] =
          IF source = <<>> THEN new
          ELSE IF new = <<>> THEN source
          ELSE IF save.update_existing THEN [i \in DOMAIN new |-> source[1]]
          ELSE new
    BY <1>2, <2>1, <2>3 DEF Merged
  <2>6. CASE source = <<>> \/ new = <<>> \/ ~save.update_existing
    BY <2>3, <2>4, <2>5, <2>6
  <2>7. CASE source # <<>> /\ new # <<>> /\ save.update_existing
    <3>1. CASE old = <<>>
      <4>1. new = source /\ ~(Len(source) > 1)
        BY <1>1, <1>2, <2>1, <2>3, <2>4, <2>7, <3>1 DEF Ambiguous
      <4>2. DOMAIN source = {1} /\ source = [i \in {1} |-> source[i]]
        <5>1. PICK k \in Nat : k = Len(source) /\ k # 0
          BY <2>2, <2>7, LenProperties, EmptySeq
        <5>2. ~(k > 1)
          BY <4>1, <5>1
        <5>3. Len(source) = 1
          BY <5>1, <5>2
        <5>. QED BY <2>2, <5>3, LenProperties
      <4>3. [i \in DOMAIN source |-> source[1]] = source
        BY <4>2
      <4>. QED BY <2>3, <2>5, <2>7, <4>1, <4>3
    <3>2. CASE old # <<>>
      <4>1. new = [i \in DOMAIN old |-> source[1]]
        BY <2>4, <2>7, <3>2
      <4>2. [i \in DOMAIN new |-> source[1]] = new
        BY <4>1
      <4>. QED BY <2>3, <2>5, <2>7, <4>2
    <3>. QED BY <3>1, <3>2
  <2>. QED BY <2>6, <2>7
<1>3. /\ Merged(merged, save) = [n \in FunctionNames |-> Merged(merged, save)[n]]
      /\ merged = [n \in FunctionNames |-> merged[n]]
  BY DEF Merged
<1>. QED BY <1>2, <1>3

\* Every call leaves the table settled for it.
LEMMA SaveSettles == RegistryInv /\ [RegistryNext]_registryVars => RegistryInv'
<1>1. SUFFICES ASSUME RegistryInv, [RegistryNext]_registryVars PROVE RegistryInv'
  OBVIOUS
<1>2. CASE UNCHANGED registryVars
  BY <1>1, <1>2 DEF registryVars, RegistryInv, Settled, Ambiguous, Merged
<1>3. ASSUME NEW save \in Saves, SaveFunctionRegistryRows(save) PROVE RegistryInv'
  <2>1. PICK table, next : table = function_rows /\ next = function_rows'
    OBVIOUS
  <2>2. last_save' = save /\ next = IF Ambiguous(table, save) THEN table ELSE Merged(table, save)
    BY <1>3, <2>1 DEF SaveFunctionRegistryRows
  <2>3. Settled(next, save)
    <3>1. CASE Ambiguous(table, save)
      BY <2>2, <3>1 DEF Settled
    <3>2. CASE ~Ambiguous(table, save)
      BY <2>2, <3>2, MergeSettles
    <3>. QED BY <3>1, <3>2
  <2>4. next = [n \in FunctionNames |-> next[n]]
    BY <1>1, <2>1, <2>2 DEF RegistryInv, Merged
  <2>. QED BY <2>1, <2>2, <2>3, <2>4 DEF RegistryInv
<1>. QED BY <1>1, <1>2, <1>3 DEF RegistryNext

\* save_function_registry_rows: a call repeated because its answer was lost leaves
\* the table as it is, for any rows, named once or more, and any state of the table.
THEOREM RetriesAddNothing == RegistrySpec => RetriedSaveAddsNothing
<1>1. RegistryInit => RegistryInv
  BY DEF RegistryInit, RegistryInv
<1>2. RegistryInv /\ [RegistryNext]_registryVars =>
        [last_save' = last_save => function_rows' = function_rows]_registryVars
  <2>1. SUFFICES ASSUME RegistryInv, NEW save \in Saves, SaveFunctionRegistryRows(save),
                        last_save' = last_save
                 PROVE  function_rows' = function_rows
    BY DEF RegistryNext
  <2>2. last_save = save /\ Settled(function_rows, save)
    BY <2>1, SavesAssumption DEF SaveFunctionRegistryRows, RegistryInv
  <2>. QED BY <2>1, <2>2 DEF SaveFunctionRegistryRows, Settled
<1>. QED BY <1>1, <1>2, SaveSettles, PTL DEF RegistrySpec, RetriedSaveAddsNothing
=============================================================================

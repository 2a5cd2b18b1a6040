------------------------ MODULE DataFrameEvaluation ------------------------
(***************************************************************************)
(* One DataFrameEvaluation at a time (dataframe_evaluation.py), as the     *)
(* caller of evaluate_dataframe uses it.  The object holds a plan, not     *)
(* rows: every Spark action on its results projection or on its business   *)
(* projection evaluates the plan again over what the source holds at that  *)
(* moment, unless the plan is persisted, in which case the first action    *)
(* fills a cache that the later ones read.                                 *)
(***************************************************************************)
EXTENDS Naturals, Sequences

CONSTANTS
  Rulesets,         \* rulesets that pass validation against the input schema
  Columns,          \* columns of the input DataFrame
  Worlds,           \* what the source tables may hold when a plan is evaluated
  TargetsOf(_),     \* ruleset -> the targets its active rules assign
  Evaluated(_, _),  \* ruleset, world -> its evaluated rows, in order
  NullValue,        \* SQL null
  NoPlan, NoRows

VARIABLES
  world,       \* what the source tables hold now
  plan,        \* the evaluation the caller holds, or NoPlan
  persisted,   \* is the plan marked for caching?
  cache,       \* its evaluated rows once an action has cached them, or NoRows
  results,     \* what the last action on results_df returned since the plan
  business     \* or its caching changed, and on apply_assignments(); or NoRows

evaluationVars == <<plan, persisted, cache, results, business>>
dataFrameVars == <<world, plan, persisted, cache, results, business>>

\* An action over a plan that is not persisted returns rows, never NoRows.
ASSUME EvaluatedRows == \A r \in Rulesets, w \in Worlds : Evaluated(r, w) # NoRows

\* An evaluated row is a source row with the worker's outcome for it.
HasErrors(rows) == \E i \in DOMAIN rows : rows[i].outcome.error

(***************************************************************************)
(* The two projections, row by row.                                        *)
(***************************************************************************)
ResultRow(e) ==
  [keys |-> [k \in plan.keys |-> e.source[k]], outcome |-> e.outcome]

AppliedValue(e, c) ==
  IF e.outcome.assign[c].applied THEN e.outcome.assign[c].value
  ELSE IF c \in Columns THEN e.source[c] ELSE NullValue

BusinessRow(e) ==
  [c \in Columns \cup TargetsOf(plan.ruleset) |->
     IF c \in TargetsOf(plan.ruleset) THEN AppliedValue(e, c) ELSE e.source[c]]

ResultRows(rows) == [i \in DOMAIN rows |-> ResultRow(rows[i])]
BusinessRows(rows) == [i \in DOMAIN rows |-> BusinessRow(rows[i])]

-----------------------------------------------------------------------------
DataFrameInit ==
  /\ world \in Worlds
  /\ plan = NoPlan /\ persisted = FALSE
  /\ cache = NoRows /\ results = NoRows /\ business = NoRows

ForgetRows == results' = NoRows /\ business' = NoRows

\* A job of someone else rewrites the source tables.
ChangeWorld ==
  /\ world' \in Worlds
  /\ UNCHANGED evaluationVars

EvaluateAnyKeys(ruleset, keys, fail_on_error) ==   \* mutant: keys may be assigned
  /\ keys # {} /\ keys \subseteq Columns
  /\ plan' = [ruleset |-> ruleset, keys |-> keys, fail_on_error |-> fail_on_error]
  /\ persisted' = FALSE /\ cache' = NoRows /\ ForgetRows
  /\ UNCHANGED world
\* evaluate_dataframe validates the key columns and builds the plan; no row is read.
Evaluate(ruleset, keys, fail_on_error) ==
  /\ keys # {} /\ keys \subseteq Columns
  /\ keys \cap TargetsOf(ruleset) = {}
  /\ plan' = [ruleset |-> ruleset, keys |-> keys, fail_on_error |-> fail_on_error]
  /\ persisted' = FALSE /\ cache' = NoRows /\ ForgetRows
  /\ UNCHANGED world

Persist ==
  /\ plan # NoPlan /\ ~persisted
  /\ persisted' = TRUE
  /\ ForgetRows
  /\ UNCHANGED <<world, plan, cache>>

Unpersist ==
  /\ plan # NoPlan
  /\ persisted' = FALSE /\ cache' = NoRows
  /\ ForgetRows
  /\ UNCHANGED <<world, plan>>

\* The rows an action sees, and what it leaves in the cache.
Rows == IF cache # NoRows THEN cache ELSE Evaluated(plan.ruleset, world)
CacheOf(rows) == IF persisted THEN rows ELSE NoRows

\* With fail_on_error a row error raises out of the action, which returns nothing.
Materializes == plan # NoPlan /\ ~(plan.fail_on_error /\ HasErrors(Rows))

ShowResults ==
  /\ Materializes
  /\ results' = ResultRows(Rows)
  /\ cache' = CacheOf(Rows)
  /\ UNCHANGED <<world, plan, persisted, business>>

ShowBusiness ==
  /\ Materializes
  /\ business' = BusinessRows(Rows)
  /\ cache' = CacheOf(Rows)
  /\ UNCHANGED <<world, plan, persisted, results>>

DataFrameNext ==
  \/ ChangeWorld
  \/ \E r \in Rulesets, keys \in SUBSET Columns, f \in BOOLEAN : Evaluate(r, keys, f)
  \/ Persist \/ Unpersist
  \/ ShowResults \/ ShowBusiness

DataFrameSpec == DataFrameInit /\ [][DataFrameNext]_dataFrameVars

-----------------------------------------------------------------------------
\* One row of each projection is the same row: the same identity, and the value
\* the results report as applied is the value the business row holds.
SameRow(result, row) ==
  /\ \A k \in plan.keys : row[k] = result.keys[k]
  /\ \A t \in TargetsOf(plan.ruleset) :
       result.outcome.assign[t].applied => row[t] = result.outcome.assign[t].value

\* While the evaluation stays persisted, what its two projections return belongs
\* together row by row, whatever happens to the source between the two actions.
ProjectionsAgree ==
  persisted /\ results # NoRows /\ business # NoRows =>
    /\ DOMAIN results = DOMAIN business
    /\ \A i \in DOMAIN results : SameRow(results[i], business[i])
=============================================================================

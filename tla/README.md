# Verification of the rules engine

TLA+ modules that model the rules engine in `src/rules_engine`, TLC runs that
check them on small instances, and TLAPS proofs of the results that hold for
every value of the constants. Source paths below are relative to the repository;
`spark_runtime.py:640` means `src/rules_engine/spark_runtime.py` line 640.

## The system

A *ruleset* is an ordered list of rules. A rule has a tree of condition groups
and a list of assignments. The engine compiles a ruleset from YAML, validates it,
stores it as one immutable row of a Delta table, loads it, and evaluates it
against each row of a Spark DataFrame with a Python callable that Spark ships to
its workers. Nearly every component is a library call on frozen dataclasses;
there are four places where state changes over time: the Delta tables that
several drivers share, the evaluation of one row, the function bindings that the
driver prepares and the worker uses, and the lazy DataFrame whose rows come into
being when an action reads them.

| Component | State | Operations | Talks to | Where it is hard | What makes it correct |
|---|---|---|---|---|---|
| Ruleset repository (`repository.py`) | Delta tables `ruleset_versions` and `function_registry` | create tables, `save_published`, `retire`, `load_published`, lists, MERGE of functions | Spark SQL calls, each of which may fail; other drivers through the tables | check-then-append without a transaction, an UPDATE verified by a later read, overwrite as DROP then CREATE, lost replies | identities unique, stored rows immutable but for retirement, loads repeatable, whatever was acknowledged is stored |
| Publish workflow (`publish.py`) | none | `publish` | validator, then repository | validation precedes every write | nothing invalid reaches the table |
| Service facade (`service.py`) | none | delegates | everything | optional-version resolution | loads the version asked for |
| Row evaluator (`runtime.py`) | prepared rules, committed values of the row | `evaluate_row`, resolve, compare, trace | function registry | all operands of a rule read one snapshot; no short circuit; errors fail the row | silent and tracing evaluation agree; rule by rule, all or nothing |
| Comparison (`runtime.py:862-1003`) | none | `_compare_values` | row evaluator | tolerance, nulls, inclusive bounds, kinds that do not compare | the operators are consistent with each other |
| Spark row worker (`spark_runtime.py`) | the row's matches, values, events | `evaluate` in compact and full-audit mode | comparison, resolution, typing | two modes of one loop; an error after partial work; history by two passes | both modes decide alike; history chains; nothing partial on error |
| DataFrame evaluation (`dataframe_evaluation.py`) | a lazy or persisted frame | result, assignment and coverage projections | worker through Spark | laziness: each action runs the worker again unless persisted | projections show one evaluation |
| Coverage (`analytics.py`) | none | one aggregation | evaluated rows | error rows and unmatched rows in rates | counts add up |
| Ruleset validator (`validator.py`) | none | structural checks | publish, evaluation | producer order, cycles of assigned operands | what it accepts, evaluation can run |
| Spark schema validator (`spark_validator.py`, `spark_types.py`) | none | type inference, compatibility | DataFrame evaluation | inference across rules that depend on each other | accepted plans do not fail for types |
| Function registry (`registry.py`) | name -> callable and specification | register, bind arguments | row evaluator | binding by operand identity | a function bound on the driver is called on the worker |
| Serializer, compiler, exporter | none | round trips | repository, authoring | typed envelopes, literals normalised twice, canonical form | load returns what was published |
| Standard functions (`standard_functions.py`) | none | pure | registry | calendar arithmetic at month ends | what is counted can be added |
| Formatter, authoring | none | pure | notebooks | - | - |

The models leave the last line out: it produces text. Of the standard functions
they have the periods between dates; elsewhere functions are a parameter.

## Modules

| Module | Models | Extends / instantiates |
|---|---|---|
| `RulesetCatalog` | what the repository promises: every operation at one instant | - |
| `RulesetRepository` | `repository.py`, `publish.py`: every operation as the sequence of Spark calls it makes | instance `Catalog` of `RulesetCatalog` |
| `RulesetRepositoryProofs` | theorems | `RulesetRepository` |
| `Comparison` | `_compare_values` as an operator | - |
| `ComparisonLaws` | a comparison of three chosen values, with the laws the operators obey | `Comparison` |
| `ComparisonProofs` | theorems | `ComparisonLaws` |
| `RuleSemantics` | operands, groups (silent and tracing), assignment typing, active rules | `Comparison` |
| `RuleSemanticsProofs` | theorem, and what the recursive definitions of `RuleSemantics` and `RowOutcome` compute | `RowOutcome` |
| `RowDecision` | what evaluating a row means: `evaluate_row`, one rule per step; the semantics of a rule is a parameter | - |
| `RowEvaluation` | the worker's `evaluate` callable step by step, both modes, with its result struct | `RuleSemantics`, instance `Decision` of `RowDecision` |
| `RowEvaluationProofs` | theorems | `RowEvaluation`, `RuleSemanticsProofs` |
| `FunctionBinding` | how function operands find their callables: registration, preparation, shipping, lookups | - |
| `FunctionBindingProofs` | theorems | `FunctionBinding` |
| `SparkTypes` | Spark types as the validator combines and compares them, literals, static types of operands, conversion of values to a type | - |
| `PythonValues` | the values and operands rulesets are made of | `Comparison` |
| `YamlCompiler` | `compiler_yaml.py`: from a loaded payload to a ruleset | `PythonValues` |
| `YamlExporter` | `exporter_yaml.py`: from a ruleset to a payload | `PythonValues` |
| `RowSerializer` | `serializer.py`: canonical JSON and back, the stored row | `YamlCompiler`, `YamlExporter` |
| `RulesetValidator` | `validator.py`: the issues of a ruleset | `YamlCompiler` |
| `RowOutcome` | the worker's `evaluate`, of one row at once | `RuleSemantics` |
| `DataFrameEvaluation` | `dataframe_evaluation.py`: a lazy plan, its cache and its two projections | - |
| `Coverage` | `analytics.py`: one aggregation of the rows as the source holds them | `RuleSemantics`, `DataFrameEvaluation` |
| `FunctionRegistryTable` | the MERGE of function rows | - |
| `ServiceProofs` | theorems about the parts the service composes | `Coverage`, `FunctionRegistryTable`, `RuleSemanticsProofs` |
| `RulesEngineService` | `service.py`: a draft's way through all of them | `RowOutcome`, `RulesetValidator`, `RowSerializer`, `Coverage`, `FunctionRegistryTable` |
| `CalendarPeriods` | adding months and years, counting completed ones | - |
| `CalendarPeriodsProofs` | theorem | `CalendarPeriods` |
| `SparkPreflight` | type inference, resolution and checks of a ruleset against a schema, then the evaluation of one row of an accepted ruleset | `SparkTypes` |
| `SparkPreflightProofs` | theorems | `SparkPreflight` |
| `MCOperatorLaws` | the instance TLC checks of the laws of pure operators | `ComparisonLaws`, `CalendarPeriods` |
| other `MC...` | the instances TLC checks | the module they are named after |

Operators marked `\* mutant:` are seeded faults: each is a plausible bug of the
operator that follows it, and the property named for it in `PROJECT.json`
(`mutants`) is violated when it takes that operator's place. They are used by
nothing else.

### RulesetRepository

The table is the sequence `rows`; `exists` says which tables are in the catalog,
`incarnation` counts drops of `ruleset_versions`. Every API call is a process:
`pc[c]` is the Spark call it makes next, `request[c]` its arguments, `stamp[c]`
the UTC time it took, and `result[c]` the row it wrote, verified or loaded when
it returned.

| Code | Actions |
|---|---|
| `PublishService.publish`, `save_published` | `BeginPublish` (validation, before anything is read), `CheckId`, `CheckName`, `PrepareRow` (serialize, take the time, require the table), `AppendRow` |
| `retire` | `BeginRetire` (require the table, take the time), `ReadForRetire`, `UpdateStatus`, `VerifyRetirement` |
| `load_published` and the optional version of `service.py` | `BeginLoad`, `ReadPublished` |
| `create_base_tables` | `BeginCreate`, `DropTable`, `CreateTable`, for each table in turn |
| a Spark call that raises, a driver that dies | `SparkFailure`; the lost reply of a committed append is the second disjunct of `AppendRow`, that of a committed UPDATE a `SparkFailure` at `retire_verify` |

One action is one Spark call, which Delta makes atomic; between two of them any
other call may run. A ruleset is reduced to its two identities and an opaque
payload; payloads in `InvalidPayloads` are those the validator rejects. The clock
moves by at most one tick per reading, so two readings may coincide.

`SerializedPublishers` says whether callers keep the rule the docstring of
`save_published` states: publishers of one repository must be serialized
externally (`repository.py:254-258`). It restricts who may begin to publish and
nothing else.

Drops set `baseline` (a history variable used by one property) to zero, as the
rows it counted are gone.

### Comparison

A value is a record of a `kind` and a position `at`: a number at half-unit
resolution (`Unit` = 2, so that a fraction exists), a not-a-number or infinity, a
boolean, a word, a numeral (text that spells a number), a date, null, and lists of
these. A numeral is known by its number and not by its spelling: a whole one is taken
to be spelled without a point, so `int("1.0")`, which raises in the integral
conversion of the worker, is left out. Ordering between words is the parameter `TextRelation`; the text-matching
operators consult it too. An outcome is `"true"`, `"false"`, `"none"` (null, the
comparison is not decided) or `"raised"`. Sets as collection operands are left
out.

### RuleSemantics, RowDecision, RowEvaluation

`RuleSemantics` has both evaluators the engine has: `GroupMatches` is the silent
one, `EvaluateRule` the tracing one, which collects a trace of each condition and
folds the traces by group. The Spark worker uses the first in compact mode and the
second in full audit.

`RowDecision` is `evaluate_row` in one step per rule: a rule that matches commits
all its assignments, each resolved against the values committed by *earlier*
rules; a rule or an assignment that raises fails the row and leaves nothing. What a
rule is (`RuleMatches`, `Resolve`, `ActiveRules`, the conversion `Typed`) are its
constants, for which `RowEvaluation` supplies the operators of `RuleSemantics` and the
Spark conversion: decision and worker then speak of the same rules.

`RowEvaluation` is `_build_row_evaluator` (`spark_runtime.py:598-748`): per row it
runs both modes, in either order.

| Code | Actions |
|---|---|
| entry of `evaluate` | `StartRow` |
| the test of a rule | `SkipRule`, `MatchRule` (trace collected in full audit) |
| one assignment resolved and typed | `ResolveAssignment` |
| values committed, events recorded, `stop_on_match` | `CommitRule` |
| the `except` clause | `RowRaises` |
| the result struct, overrides and winners | `FinishRow` |

Abstractions: target types are string, integral, double and boolean (decimal,
temporal and nested types are left out); traces of nested function arguments and
the rendering of traced values are left out. The model assumes what the validators
guarantee of a ruleset (`WellFormedRuleset`): identifiers and orders used once, one
root group of which every other is a descendant, at most one assignment per
target in a rule, only known targets read as assigned. That an operand is a finite
tree is `OperandTrees`; frozen dataclasses cannot contain themselves. Both are part
of `InputsAssumption`, which TLC evaluates for the pool of `row_evaluation`.

### FunctionBinding

One evaluator object (`SparkRowEvaluator`) and the registry of its service. An
operand is an object, told apart by identity as in the code; only function
operands matter, and only through the function operands among their arguments
(`Args`). A ruleset is the sequence of its active rules' uses of operands in the
order `_prepare_rule` meets them, each with the `active_flag` of its condition
(`resolve`; true in an assignment).

| Code | Actions |
|---|---|
| `FunctionRegistry.register` | `Register`; a second registration of a name raises and changes nothing |
| `_prepare_ruleset` (of `evaluate_row`, or of `_build_row_evaluator` on a fresh evaluator) | `PrepareRuleset` starts it, `FinishPreparation` ends it |
| the recursion of `_prepare_operand` | one step per operand, its stack in `pending`: `BindOperand`, `RevisitOperand`, `BindingRaises` |
| `_function_implementation` | `CallFunction`; on a worker (`purpose = "udf"`) the registry is empty |
| `_operand_metadata` of an inactive condition | `DescribeFunction` |

The list of bindings and its index by identity are one function `binding`; the
index is rebuilt from the list when it is missing. Whether arguments match the
specification is the set `Misfits`. Preflight validation refuses unknown functions
and unfit arguments before a worker is built; here the binding itself finds them,
as it does for `evaluate_row`, and the outcome is the same. The fallback that
binds an operand during evaluation is not an action: `NeverBindsLate` shows that
it is never reached.

### SparkTypes, SparkPreflight

The question of these modules is whether two separately written pieces of code
agree: the validator, which decides by types and literals before anything runs,
and the worker, which converts every assigned value to its target's type and
raises if it does not fit. A behaviour takes one ruleset through both.

| Code | Actions |
|---|---|
| `_inferred_assigned_types` | `InferRule`, one step per active rule; all operands of a rule see the types inferred by the rules before |
| `_resolve_assignment_types` | `ResolveTarget`, one step per target: `ResolveExisting` (the column's type is fixed), `ResolveNew` (the common type of all assignments) |
| `_validate_operand_defaults`, `_validate_custom_function_argument_types`, the verdict | `CheckOperands` |
| `evaluate` in compact mode | `StartRow`, `ApplyRule` (resolve, convert, commit), `SkipRule`, `RowRaises`, `FinishRow` |

The validator is one call without concurrency; its loops are steps so that the
order in which types become known is visible. `stage` says which loop runs,
`available` and `resolved` are the dictionaries of the two passes, `issues` the
names of the checks that failed, with the prefix `SPARK_` and, where the code has
it, `ASSIGNMENT_` or `CUSTOM_FUNCTION_` left out.

`PreflightAssumption` says what these rulesets are: operands are trees, a field operand
names a source column and an assigned one a target, a source column has a modelled type or is one of
nulls, assignments have different identifiers, and those of one rule different targets, which
`validator.py` (360-393 and 395-425) sees to before this validator runs. A decimal literal has integral digits and exponent, with no more
places than a value may have (`UnitDigits`), and a function whose type is that of an argument has
one. Rows and what functions return are not restricted there. `RowsFitSource`,
`LiteralsPlain` and `FunctionsKeepContract` say what preflight relies on: rows have the schema's types,
a literal is a value of its own type, and a function that gets what its contract
declares returns what it declares. Theorems that need them state them.

Strings, integrals, floating point and exact decimals are modelled, with their
ranges, precisions and scales as constants. A number is an integer count of
hundredths (`UnitDigits`). A double is exact up to `DoubleExact` and takes the
nearest even integer beyond it, which is how a float loses a long; that a decimal
fraction is not exact in binary, and the narrowing to 32 bits, are left out. The
boolean, temporal and nested types are left out, and with them the checks of
membership and temporal conditions. Whether a rule matches is left open, so
conditions and `stop_on_match` are covered by skipping rules. Rulesets are those the
base validator accepts.

### The service: PythonValues to RulesEngineService

`RulesEngineService` follows one draft from its author to a coverage report. A
draft is a YAML payload as the loader returns it, or a ruleset built with the
model classes. Its value is what is followed: `ruleset` after compilation, `row`
after publication, `loaded` after loading.

| Code | Actions |
|---|---|
| `compile_yaml_text`, or the constructors of `models.py` | `Author` (`CompilePayload`, refusing where the code raises) |
| `publish` | `Publish`: `RulesetValidator!Issues` is empty, then `SerializeRulesetVersion` |
| `load_published` | `LoadPublished`: `DeserializeRulesetVersion` decodes the JSON and *compiles* the payload again |
| `evaluate_dataframe` | `EvaluateDataFrame`: the rulesets at hand are the draft and the loaded one; validation, column presence and key columns are checked, no row is read |
| `persist`, `unpersist`, an action on `results_df`, one on `apply_assignments()` | `UseEvaluation`: `Persist`, `Unpersist`, `ShowResults`, `ShowBusiness` |
| `coverage_report` | `CoverageReport`: `Report` of `Coverage`, on a validated ruleset |
| `save_function_registry_rows` | `SaveFunctions` |
| other jobs that write the source tables | `SourceChanges` |

A Python value is a record of its `type` and what tells it apart: a number is an
integer count of halves with the spelling a decimal or float has; text is a name,
digits, or one of the spellings of a day or an instant; collections and mappings
are real. So the distinctions that the round trip depends on (int or Decimal, tuple
or list, date or text, a key `"1"` or `1`, an aware or a naive instant) are kept, and
characters are not. Serialized JSON is kept as the tree of its values, with equal
trees for equal text: a content hash is that tree, as SHA-256 is taken to be
injective.

`RulesetValidator` is the set of issue codes the code would collect; the models of
evaluation assume what it guarantees, and `AssignedReadsFollowProducers` checks that
assumption on rulesets that passed it.

`DataFrameEvaluation` has no rows, only a plan. `Rows` is what the next action
sees: the cache, or the plan run over `world`, which `ChangeWorld` may change at
any moment. `persisted` marks the plan; the first action fills the cache.
`results` and `business` are what the last action on each projection returned, and
are forgotten when the plan or its caching changes. `fail_on_error` makes the action
raise, not the call that builds the plan.

`RowOutcome` is the function from a row to its result that `RowEvaluation` computes
step by step in compact mode (`WorkerReturnsOutcome`). `EvaluateRows` maps it over the rows of the source;
TLC works that out once for every ruleset and content of the source, as `Evaluations`.

`Coverage` runs the plan once more and keeps the counts as `report`. Its threshold is a
fraction, `BroadMatchThreshold`, compared by multiplication. `CoverageAssumption` says what the
rows are made of: an error row keeps no match, and only active rules match. `OutcomesFit`
proves it of `RowOutcome`.

### CalendarPeriods

The functions take dates and nulls and whole numbers; parsing of texts and
refusal of fractions are left out. `OutOfRange` stands for the `ValueError` of
`date_add_months`; it cannot occur within a count, since the month it adds to is that of
a date.

## Runs

| Run | Instance | What it asks |
|---|---|---|
| `repository_serialized` | 3 calls of any operation, 2 ids, 2 names, failures on, publishers in turn | types; `UniqueIdentities`; `RowsImmutable`; `RetireTouchesOneRow`; `ImplementsCatalog` |
| `repository_lifecycle` | 5 calls that publish, retire or load, no failures | `LoadsRepeatable`, `LoadIgnoresRetired` |
| `repository_racing` | 3 calls, publishers race, failures on | what still holds: `RetireReportsOnce`, `AcknowledgedPublishDurable`, `OnlyRacersDuplicate` |
| `operator_laws` | every triple of 20 scalars, tolerances 0, a half and 1, null handling both ways; every pair of 141 dates and null | `Trichotomy`, `OrderedConsistent`, `BetweenInclusive`, `MembershipIsEquality`, `CompletedPeriods` |
| `service_lifecycle` | about 500 drafts, three contents of the source, two columns and two targets, six registry saves | `LoadsWhatWasPublished`, `LoadIsStable`, `AssignedReadsFollowProducers`, `ProjectionsAgree`, `CoverageAddsUp`, `RetriedSaveAddsNothing` |
| `row_evaluation` | rulesets of up to 3 of 8 rules in any valid order, 18 rows | types and the seven properties below |
| `row_audit_nonfinite` | one rule, the source column may hold a nan | the finding below |
| `function_binding` | 4 operands, one nested and one unfit, 2 functions, rulesets of up to 3 uses that share only leaves | types; `CallsRegistered`, `NeverBindsLate`, `RefusedForCause`; `PreparationSettles` |
| `function_binding_shared` | rulesets of 2 uses that share anything | the second finding |
| `spark_preflight` | up to 3 of 27 rules in any valid order, 6 columns (byte, long, double, decimal(2,1), string, void), 8 rows | types; `EveryTargetTyped`, `FailuresDataDependent`, `LiteralsFit`, `ArgumentsFitContract`, `ValuesPreserved` |
| `spark_preflight_chains` | three of its rules | the third finding |
| `spark_preflight_literals` | the two rules it leaves out, and one more | the fourth finding |

Why the bounds suffice. The races of the repository are between two calls; the
third call drops the table, retires or reads between their steps. Lifecycle needs
five calls because its shortest interesting history is publish, load, retire,
publish the identity again, load again; it has one clock tick since it asks
nothing of times. Racing has two ticks so that two retirements can have equal and
different times. Two ids over two names and one version give every overlap of the
two identities. Three rules make three assignments of one target, so an immediate
override and a final winner differ. The pool has a rule for each hazard: a
default, an exchange of two targets, `stop_on_match` below a nested group that can
raise, nested functions, text that holds a number, a function that raises, a value
outside the integral range, an inactive rule; the source column `score` is also a
target. Comparison's scalars include both neighbours of every tolerance boundary. For
bindings, a third use sees what an upgrade of the second has left; one level of
nesting tells an operand from its arguments; the registry's history is covered, as
registration may happen between any two preparations and evaluations.

In `spark_preflight` a byte holds -8 to 7 and a long -64 to 63, decimals have at most 3 digits and doubles are exact up
to 32: a long and a decimal literal with two places already run out of precision, as a
bigint and a literal with twenty places do in Spark, and a long can lose its last
bit in a double. The pool has an assignment of each type to one new target, reads of
it with fitting, unfit and no default, reads of those reads, functions with every
kind of return type, and literals on both sides of every range. Three rules make
the longest chain that matters: assign, read, widen. The long column holds its
largest value too, which is none any more once it was a double. Two rules take the default of
one literal after a later rule has widened the type, or to a function that keeps the type of its
first argument. `MCSparkPreflight` also evaluates the hypotheses of the theorems on this instance.

Properties of `spark_preflight`: `EveryTargetTyped` (a target without a type is
refused, otherwise the worker has no column for it), `FailuresDataDependent` (where the
resolved types agree, a row of an accepted ruleset fails to store a value only if a function
of unknown type, or one that returns a decimal of any precision, had a part in it; where they
disagree is the third finding),
`ArgumentsFitContract` (a function gets arguments of the types it declares, even
values whose type a later rule widened), `ValuesPreserved` (storing a number in a
column that is not floating point is exact or raises), `LiteralsFit` (an accepted
literal can be stored).

Properties of `row_evaluation`: `ModesAgree` (compact and full audit return the
same business result), `AppliedByMatched` (what is applied was assigned by a
matched rule, and an error row applies nothing), `HistoryFollowsMatches` (the
events are exactly the matched rules' assignments, in order), `HistoryChains`
(each event's old value is its predecessor's proposed value, and the predecessor
names it as its override), `EffectiveEmitted` (the one effective event of a target
proposed the value returned), `TracesNameProducers` (a traced read of a target
names the event that produced the value), `ImplementsDecision` (refinement of
`RowDecision`).

In `service_lifecycle` each draft varies one value in one place: every kind of
scalar, collections of them, mappings that look like the serializer's envelopes or
escapes at every depth, every type hint with values it accepts and refuses, as
a literal, an argument, a default, an operand inside an argument's collection.
Beyond these are the shapes: nested groups, shorthand assignments, and payloads that the
compiler or the validator refuses. `WrittenOut` has legal rulesets in which every
optional entry (ids, descriptions, flags, tolerances) is left out, then written out
alone, then together with the others. The ids are not those the compiler would make, or are
those of another place; a condition follows a nested group, so that it changes its place when it is
exported. Each entry an exporter might drop or replace shows in one of them.
Drafts that are evaluated are small and combine a rule that assigns, one that reads
what was assigned in a nested group and in a call, and one that raises on a null, in
valid and invalid orders, active and inactive, with duplicate orders and identifiers.
Three worlds differ in length and in which rows fail, so a cache that is stale
differs from the source. One session works on drafts and another on the registry;
`SessionsApart` leaves out their product, as they share no state. Two
registrations and two versions give matched, unmatched and ambiguous sources.

What these properties say: `LoadsWhatWasPublished` (a ruleset compiled from YAML loads
equal to itself and serializes to the same row, hash and counts included; the comparison
is exact, also of how a literal's number is written, but takes a tolerance by its
value, as Python's `==` does),
`LoadIsStable` (whatever a load returns, published again, loads the same; this also
covers rulesets built in Python), `AssignedReadsFollowProducers` (what an accepted
ruleset reads as assigned, some earlier active rule assigns),
`ProjectionsAgree` (while the evaluation stays persisted, the last results and the
last business rows belong together row by row), `CoverageAddsUp` (errors, clean
unmatched rows and first matches count each row once; no rule is dead and broad, unless the
threshold is nought),
`RetriedSaveAddsNothing` (a repeated save changes no row).

In `operator_laws` the dates are the beginning, the middle and the last days of months of
31, 30, 29 and 28 days, in leap years, other years, a century that is none, and the
first and the last year of the calendar. `CompletedPeriods` adds every number of months
from -1 to 30, so both sides of every count between neighbouring years are
met.

Deadlock is not checked, since histories are finite: every call may have
ended, the row may be evaluated in both modes.

### Fairness and liveness

The engine is a library of sequential calls, and whether a Spark call returns is
not its business. What it can get wrong is a recursion that does not end, and
`FunctionBinding` has one over shared, nested operands that are met again.
`FairSpec` makes the steps of a preparation under way weakly fair. That is what the
code gives: `_prepare_ruleset` takes no lock, waits for nothing and is one call of
one thread, so it goes on until it returns or raises. `PreparationSettles` says that
it then does: every preparation ends, with an error or with every active operand
bound to the callable registered for it. Calls and registrations have no fairness, as a
caller may stop making them.

Repository calls have none either: a Spark call may never be answered. The loops of
`RowEvaluation` and `SparkPreflight` run over finite sequences that they shorten in
every step; their termination is not checked.

## Findings

**Full audit can fail a row that compact mode decides.** `README.md:607` says that compact and full audit run the same decisions. Full
audit also converts the value that is *replaced* to the target's type
(`spark_runtime.py:735`), which for a source column of type double holding nan or
an infinity raises (`spark_runtime.py:902-907`), so the audited row is an error row
while the compact one succeeds. `row_audit_nonfinite` shows it with one rule that
resets the source column. `row_evaluation` keeps that column finite, and there the
modes agree.

**A shared nested function is lost on the worker.** An operand that was first bound
for an inactive condition, and is met again as the same object in an active use,
gets its callable, but `_prepare_operand` returns (`runtime.py:209-214`) before it
comes to the function operands among its arguments, which stay unresolved. The
evaluator of a UDF is shipped with an empty registry (`spark_runtime.py:572`), so
every row fails with `RegistryError`, although
`docs/rules_engine_system_test_summary.md:27` has registered functions work in
conditions and assignments inside a worker. On the driver the lookup falls back to
the registry. Compiled rulesets build a new operand at every place, so only
rulesets made of Python objects are exposed. `function_binding_shared` shows it;
`function_binding` limits the rulesets to `SharesOnlyLeaves`.

**Types of chained assignments are inferred too early.** `README.md:1201` lists assignment target consistency and
lossless coercion among the checks. Types of targets are inferred in one pass in rule
order (`spark_validator.py:478-505`). With `t` assigned from a bigint column, `u` from
`t`, and then one rule that assigns `v` from `u` and `t` from a double column, `u` is
a bigint when `v` is inferred. Resolution then makes `t` and `u` double and leaves
`v` a bigint, and nothing compares the two again, although what is known to be a double
is refused for a bigint column (`spark_validator.py:1262-1303`). Whether `v` is new or a
column of the source makes no difference: both are compared with the type inferred for `u`. A row whose value of `u` is no bigint any more
(the largest bigint is not, once it was a double) fails with `OverflowError`.
`spark_preflight_chains` shows the inconsistent types.

**Some literals are not compared with their target.** A null literal fits any target
whatever its default (`spark_validator.py:1311-1312`), and a collection literal
whose items have no common type is left without a type, which skips the comparison.
A text default, or a mixed list, is accepted for a bigint target, and every row
that evaluates the assignment fails. `spark_preflight_literals` shows it;
`spark_preflight` leaves those two rules out. The proof of `LiteralsAreStored` came
upon two more literals of this kind, so `LiteralsPlain` excludes them. A literal assigned to a new target is
compared with no type, only its own type is merged with the others: an integer
beyond bigint is typed bigint all the same (`spark_validator.py:1183`), and a decimal with more
digits than Spark has is untyped, which goes unnoticed if another assignment types the
target.

### Where a round trip is not exact

`LoadsWhatWasPublished` is about rulesets compiled from YAML. `README.md:844` promises it
of every ruleset that is published, and a ruleset built in Python can hold what
YAML cannot spell, or what compilation would have changed. The differences there are:

- a tolerance is written without an exponent (`exporter_yaml.py:200-204`), so `4E+1` loads as
  `40`, an equal Decimal with the same row; this holds for YAML too, and the property
  compares tolerances by value;
- a `default_if_null` literal with a `default_if_null` of its own loses it, or, if it
  is typed or a mapping, is published and cannot be loaded (`exporter_yaml.py:192-197`);
- a typed literal is published as it is and normalised when it is loaded, so it may
  change or be refused (`compiler_yaml.py:566`);
- a float loads as a Decimal, and a float with an exponent changes its spelling, and
  with it the content hash;
- a plain mapping among call arguments with a key such as `field` or `literal` loads as an
  operand; keys that are numbers load as text; a set of operands raises at export.

`MCRulesEngineService!PythonRulesets` has drafts of each of these kinds, and
`LoadIsStable` shows that nothing drifts further after the first load.

## Proofs

| Theorem | Says |
|---|---|
| `RulesetRepositoryProofs!TypeCorrect` | `Spec => []TypeOK` |
| `RulesetRepositoryProofs!PublishesDurable` | `Spec => []AcknowledgedPublishDurable` |
| `RulesetRepositoryProofs!RetirementsReportOnce` | `Spec => []RetireReportsOnce` |
| `RulesetRepositoryProofs!RowsStayImmutable` | `Spec => RowsImmutable` |
| `RulesetRepositoryProofs!RacersOnlyDuplicate` | `Spec => OnlyRacersDuplicate` |
| `RulesetRepositoryProofs!IdentitiesUnique` | with serialized publishers, `Spec => []UniqueIdentities` |
| `RulesetRepositoryProofs!LoadsRepeat` | with serialized publishers, `Spec => []LoadsRepeatable` |
| `RulesetRepositoryProofs!LoadsIgnoreRetired` | with serialized publishers, `Spec => []LoadIgnoresRetired` |
| `RulesetRepositoryProofs!RetirementTouchesOneRow` | with serialized publishers, `Spec => RetireTouchesOneRow` |
| `RulesetRepositoryProofs!RepositoryImplementsCatalog` | with serialized publishers, `Spec => ImplementsCatalog` |
| `RuleSemanticsProofs!EvaluatorsAgree` | for every well-formed tree of groups, row and committed values the tracing evaluator has the outcome of the silent one |
| `RowEvaluationProofs!TypeCorrect` | `Spec => []TypeOK` |
| `RowEvaluationProofs!MatchedApply` | `Spec => []AppliedByMatched` |
| `RowEvaluationProofs!HistoryIsComplete` | `Spec => []HistoryFollowsMatches` |
| `RowEvaluationProofs!HistoriesChain` | `Spec => []HistoryChains` |
| `RowEvaluationProofs!EffectiveIsReturned` | `Spec => []EffectiveEmitted` |
| `RowEvaluationProofs!ReadsNameTheirProducers` | `Spec => []TracesNameProducers` |
| `RowEvaluationProofs!WorkerDecides` | if source columns fit the targets of their name (`SourcesFit`), `Spec => ImplementsDecision` |
| `RowEvaluationProofs!AuditChangesNothing` | under `SourcesFit`, `Spec => []ModesAgree` |
| `RowEvaluationProofs!WorkerReturnsOutcome` | the result returned in compact mode, and under `SourcesFit` the one in full audit, is `RowOutcome` of the row |
| `ComparisonProofs!TrichotomyHolds` | `Spec => []Trichotomy`, for every set of numbers and tolerances |
| `ComparisonProofs!OrderedConsistentHolds` | the same of `OrderedConsistent` |
| `ComparisonProofs!BetweenInclusiveHolds` | the same of `BetweenInclusive` |
| `ComparisonProofs!MembershipIsEqualityHolds` | the same of `MembershipIsEquality` |
| `FunctionBindingProofs!TypeCorrect` | `Spec => []TypeOK` |
| `FunctionBindingProofs!NothingBoundLate` | `Spec => []NeverBindsLate`, whatever is shared |
| `FunctionBindingProofs!CallsFindImplementations` | if all rulesets share only leaves, `Spec => []CallsRegistered` |
| `FunctionBindingProofs!RefusalsHaveCause` | `Spec => RefusedForCause`, whatever is shared |
| `ServiceProofs!ProjectionsAlwaysAgree` | `DataFrameSpec => []ProjectionsAgree` |
| `ServiceProofs!ReportsAddUp` | `CoverageSpec => []CoverageAddsUp` |
| `ServiceProofs!OutcomesFit` | for every well-formed ruleset and row, `OutcomeFits(ruleset, RowOutcome(ruleset, row))` |
| `ServiceProofs!RetriesAddNothing` | `RegistrySpec => RetriedSaveAddsNothing` |
| `CalendarPeriodsProofs!CompletedPeriodsHold` | `PeriodSpec => []CompletedPeriods`, for every range of years, set of dates and set of offsets |
| `SparkPreflightProofs!TypeCorrect` | `Spec => []TypeOK` |
| `SparkPreflightProofs!EveryTargetIsTyped` | `Spec => []EveryTargetTyped` |
| `SparkPreflightProofs!ValuesArePreserved` | `Spec => ValuesPreserved` |
| `SparkPreflightProofs!LiteralsAreStored` | if `LiteralsPlain`, `Spec => []LiteralsFit` |
| `SparkPreflightProofs!ArgumentsAreInContract` | if `RowsFitSource`, `LiteralsPlain` and `FunctionsKeepContract`, `Spec => []ArgumentsFitContract` |
| `SparkPreflightProofs!FailuresAreDataDependent` | under the same, `Spec => []FailuresDataDependent` |
| `SparkPreflightProofs!CommonTypeCommutes` | `CommonType(l, r) = CommonType(r, l)` for all types |
| `SparkPreflightProofs!CommonTypeHoldsBoth` | a common type of two types fits both, by `FitsType` |
| `SparkPreflightProofs!CommonTypeAssociates` | `CommonType(CommonType(l, m), r) = CommonType(l, CommonType(m, r))` for all types |

They assume `RepositoryAssumption`, `ComparisonAssumption`, `BindingAssumption`,
`SparkTypesAssumption`, `PreflightAssumption`, `CoverageAssumption`, `SavesAssumption`, `EvaluatedRows`,
`CalendarAssumption` and `InputsAssumption`, which say what kind of thing the constants are (of the integral types also
that different ones have different ranges and that a larger range has no fewer digits; of the
inputs of a row, see RowEvaluation above; of a ruleset and its schema, SparkPreflight). Further hypotheses are stated in the theorems that need them.
`SerializedPublishers` is the rule of the docstring of `save_published`. `SourcesFit` says
that a source column that is also a target holds values the target can store; where
it does not hold, full audit may raise on the value that is replaced, which is the first
finding, so the theorem says exactly what the finding leaves of the promise. In the same way
`LiteralsPlain` leaves out the literals of the fourth finding, and `FailuresDataDependent` speaks of
the accepted rulesets that are not those of the third. `RowsFitSource` is what Spark guarantees of a row, and
`FunctionsKeepContract` what whoever registers a function declares.

### The repository

`UniqueIdentities` is not inductive: an append may duplicate a row unless the two
checks that preceded it still hold. `PublicationInv` adds what makes them hold: an
absent table has no rows (`AbsentIsEmpty`, so a check skipped because the table
did not exist proves the identity free), at most one call is between its first check
and its append (`OnePublisher`), and a call past a check has an identity no row
takes (`CheckedId`, `CheckedName`). Retirement keeps identities, dropping removes
rows, and only the one publisher appends. `TypeOK` is proved first, because the
proof needs that a publishing call's request is a publish request (`RequestFits`).

The other properties relate what a call *returned* to what the table holds later, so
each has an invariant about results. `CallInv` says of a call under way what its
earlier steps have established. `RetirementShown` says that a reported retirement is the audit of a row stored
at the time: as the UPDATE only touches active rows, and a report requires exactly one
row with the identity, a second report would need a second row or a second audit in
the first. `LoadShown` says that a load returned a row which is still
stored, up to its retirement; unique identities then make two loads equal. For
`OnlyRacersDuplicate`, `RaceInv` compares with `baseline`, the rows that were there when the
call began: both checks have excluded those, and only a drop takes rows away.

The refinement maps the table to the catalog row by row and every call to what it
has returned. Each step is either a step of the catalog, at the append, the UPDATE's verification, the read or
the creation of the table, or changes nothing the catalog sees. Serialization is needed at
one place only, where the append must find the identity free as the catalog's
publication does.

### The evaluation of a rule

The recursive definitions of `RuleSemantics` are recursive functions. That such a
function has the value its equation describes must be proved, as the definition only chooses
one. `GroupRecursion` shows it for groups, whose nested groups have later positions,
`ForwardRecursion` for the partial sums of `FlattenSeq`, and `OperandsUnfold` for operands
that are trees. As the provers cannot instantiate an induction theorem, the inductions are
made with sets: the members a statement fails for would have a least one
(`Least`, from the well-foundedness of the naturals).

`EvaluatorsAgree` compares two folds. The silent one combines outcomes (an error anywhere
is an error, whatever the groups decide), the tracing one looks for an error among all
traces and otherwise folds booleans. The proof goes down the tree from its last
group: a group raises exactly if a condition below it does, and otherwise the two
verdicts are equal. It needs that every group is below the root, since the tracing evaluator
looks at all traces at once.

`ActiveRulesAscend` says that `ActiveRules` is what a stable sort by order yields; that the
order exists is an induction over the number of rules.

### The worker

`Sound` is the inductive invariant all results of `RowEvaluationProofs` rest on: `Shape` (between rows
nothing is left over; in compact mode nothing is recorded), `Snapshot` (every value resolved so
far for the rule at hand is what its assignment proposes against the values committed
*before* the rule) and `ValuesTyped` (a committed value survives being stored again, so
converting what is replaced never raises for an assigned target). `UnderWay` adds that a
rule being resolved has matched and is the last one recorded.

- `WorkerDecides` is the refinement: skipping, committing, raising and finishing are steps
  of `RowDecision`, matching and resolving change nothing it sees. The commit is where the
  work is: one step of the decision assigns all targets at once, which by
  `Snapshot` is what the worker has collected one by one.
- `AuditChangesNothing` compares two evaluations that happen one after the other. A row
  has one *run*, the sequence of positions in the loop that `After` generates (`OneEnd`: runs
  agree as far as both go, so they have one end). The invariant says that a worker under way is at
  a position its run reaches (`Reached`) and that every result is that of the end of a run
  (`Concluded`).
- `WorkerReturnsOutcome` ties the model of one step at a time to the function that the service
  and coverage use. Both go through the rules in order: `StatesFollow` says that a run of the
  worker between two rules is at the state of the loop of `RowOutcome` after as many rules
  (`AtState`), and that where a rule ended it the loop changes nothing any more
  (`LoopFrozen`). The compact worker needs no hypothesis, the auditing one needs the condition of the
  first finding.
- `MatchedApply` needs that the targets assigned so far are those of the rules done
  (`AppliedSoFar`).
- The history has one invariant, `History`: the events of the rule at hand come
  last and say what was resolved (`CurrentEvents`), the committed values are those of the last committed
  event of each target (`ProducersHeld`), and each old value is the proposal of the
  event before it (`Chained`). It gives `HistoriesChain` and `EffectiveIsReturned`; with `Listed`,
  the committed events are the assignments of the rules done, `HistoryIsComplete`.
- `ReadsNameTheirProducers` compares a trace, made when its rule matched, with a history that is
  complete only at the end. The invariant `TracesHold` keeps for each trace the values it was
  made from and says of every target that they are what the last event of an *earlier* rule
  proposed; later events cannot disturb that because rules come in ascending order (`InOrder`).

Two things had to change in the model before it could be reasoned about, both of which TLC does
not notice. Several `CASE` expressions had arms that overlap; TLC takes the first that is
true, but the value is that of any of them, so nothing could be proved of a null or an
error where another arm applied as well. They now exclude each other, those of `Merged` too. And `RowDecision`
had its own copy of the rule semantics, about which nothing relates to the worker's; it is now
a parameter.

### Spark types and preflight

How two types combine is an argument by kind: a type is integral, floating, decimal or
none of these, and never two of them (`Kinds`). The widened decimal has the larger scale and
the larger number of digits before the point, so it is symmetric and holds both. It is also
associative, which a limit on precision might have spoiled: three exact types combine to one with
the most digits any of them has on either side of the point (`ExactThree`), and digits only grow, so
where one grouping finds no room for them the other finds none either. The
validator folds `CommonType` over all that is assigned to a target: `CommonOfTypes` says
that this gives the type of a column, and that it gives one as soon as one of the assignments is
typed, since a type that does not combine is reported and left out.

`EveryTargetTyped` is not inductive, as it speaks only of accepted rulesets. The
invariant `IInv` has it for every target already taken off the list: a target is `Settled`
if it has the type of a column or there is an issue, and an accepted ruleset has no
issues (`Outcome`). The work is in `NewSettled`: if nothing assigned to a new target is typed,
`_add_unusable_hint_issues` must report at least one of its operands (`UntypedReported`).
`TypeCorrect` adds that every type inferred for an operand is one a column has
(`TypesOfOperands`, by depth, as operands are trees) and that what is stored fits its column
(`StoredHolds`); both need that powers of ten and counts of digits, which are
recursive functions, are numbers (`Descent`: a recursion to smaller numbers has a solution).
`ValuesArePreserved` follows for each assignment from the conversion (`StoredExactly`),
because the targets of a rule differ and are typed.

That preflight is sound is `FailuresAreDataDependent`. It joins the two programs that the
modules are about, and the argument has three layers.

- *Types.* What fits a type by the validator's rule fits it by the worker's conversion
  (`FittingHolds`, by kinds of types; a power of ten bounds a decimal of so many digits, so
  `PowersMultiply` and `PowersGrow` come first, and an integral type must not reach beyond its
  digits). A common type holds every value of what was combined (`CommonOfHolds`).
- *Operands.* `ValueFits`, by depth, says that the value of a checked operand of
  an accepted ruleset is of the type inferred for it. A default counts as it is compared with the same
  type (`DefaultIssues`), a function as its arguments are in contract, an assigned value as it is
  held by its column.
- *States.* The invariant `Promises` keeps what acceptance has established until a row is evaluated:
  the literals of a settled target are values of its type, an accepted ruleset has no
  issue of an operand under the *resolved* types, and the row is one of the source. The
  check against the inferred types would not do, as they are narrower: a mutant of `ArgumentsFitContract`
  makes it there.

Only the last step needs that the resolved types agree: a value of the operand's type then
converts to the target's.

### The others

For the comparison laws the invariant is `OutcomeInv`: after a comparison every
recorded outcome is the one `Compare` gives for the values chosen. The laws are
then lemmas of integer arithmetic by the kinds of the two values.

For function bindings, `MeetingInv` says that whatever is bound has its arguments
bound or still on the stack, as the ruleset's own operands are; when the stack is
empty everything evaluation can reach is bound. `ResolutionInv` says the same of
being resolved, plus what makes the upgrade in `RevisitOperand` harmless: an
unresolved operand is one an inactive condition reaches, a resolving use one an
active rule reaches, so an upgraded operand is shared, and a shared one has no
arguments. `Reach` is the least set closed under arguments, defined without
recursion so that it can be reasoned about. That a ruleset is refused for a cause
needs one part of `MeetingInv` only, which holds whatever is shared: what is on the stack is
reached from the ruleset by uses that resolve if it is to be resolved (`PendingReachable`), and
binding fails at the top of the stack.

For the projections the invariant says what a cache is for: a plan is made of a known
ruleset, keys that are columns and no targets (`PlanOK`), and while the plan is
persisted whatever rows an action returned are projections of the cached ones
(`RowsFromCache`). Two projections of one sequence of rows then agree in each row,
where the keys matter: an assigned key would differ between them.

For coverage, the positions of the rows fall into the errors, the clean rows that match nothing
and, for each active rule, the rows it matched first. These sets have nothing in
common, since rule ids are used once and an error row has no matches, and they leave no row
out, since only active rules match. `SizesAddUp` turns that into a sum of counts, by the
partial sums of `FirstMatches`. `OutcomesFit` follows the loop of `RowOutcome`: what
it collects are ids of the rules done.

For a repeated save, what has to be known of a table is that the save just made is `Settled` in it: tried
again it is refused as ambiguous, or merges to the same table. `SaveSettles` shows it of any
table. A name the save has no row for keeps what is stored; otherwise the save has one
row of the name's type, as it was not ambiguous, and that row is what is stored now. The invariant
`RegistryInv` keeps it until another save is made, or the table is written by someone else.

For the calendar, `MonthIndex` numbers the months, adding moves the index by exactly
that many (`AddMonthsMovesIndex`), and dates of different months are ordered by it
(`LaterByIndex`). So only the last month is in doubt, which is the one the code
tests. The invariant `Measured` says that what was measured is what the functions
return for the arguments.

### Only model-checked

Liveness (`PreparationSettles`), since neither fairness nor `ENABLED` can be reasoned
about here; and of the service `LoadsWhatWasPublished`, `LoadIsStable` and
`AssignedReadsFollowProducers`, as its compiler, exporter, serializer and validator are recursive in
their data, with `RECURSIVE` operators.

## Not modelled, and the plan

Left out of what is modelled, besides what the sections above say:

- Spark: blocks lost from a cache, partitions cached one by one, invalidation of a cache
  by the session's own writes, a function evaluated once per projected field; functions
  that are not pure;
- names that differ in case only, column prefixes, the lower-casing of type hints;
- the rows behind `no_match_rows`, which are read lazily after the report;
- the text of YAML: duplicate keys, aliases, merge keys;
- boolean, temporal and nested types in preflight, and its membership and temporal
  conditions;
- of the standard functions everything but the periods: pure helpers on text,
  numbers and arrays;
- the formatter and the authoring manifest, which render text.

To come, in this order:

1. `CalendarPeriods`: first and last business day of a month, which search a month for a day
   that is neither a holiday nor on a weekend; rounding of decimals.
2. `SparkPreflight`: boolean and temporal types, membership and temporal conditions.

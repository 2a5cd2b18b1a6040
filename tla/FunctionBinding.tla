-------------------------- MODULE FunctionBinding --------------------------
(***************************************************************************)
(* How custom-function operands find their implementations.  An evaluator  *)
(* (SparkRowEvaluator in runtime.py) walks the active rules of a ruleset   *)
(* and binds every function operand it meets, by object identity, to the   *)
(* implementation in the registry.  The evaluator of a Spark UDF is then   *)
(* shipped with an empty registry (_build_row_evaluator in                 *)
(* spark_runtime.py): whatever was not bound on the driver cannot be found *)
(* on the worker.                                                          *)
(*                                                                         *)
(* An operand is an object; the same object may occur more than once in a  *)
(* ruleset built through the Python API.  Operands that are no function    *)
(* calls play no part here.                                                *)
(***************************************************************************)
EXTENDS Naturals, Sequences, SequencesExt

CONSTANTS
  Functions,
  Implementations,   \* the callables somebody registers
  NoImplementation,  \* a specification registered without a callable
  Operands,          \* custom-function operands
  FunctionOf,        \* operand -> the function it names
  Args,              \* operand -> the function operands among its bound arguments
  Misfits,           \* operands whose arguments do not match the specification
  Rulesets,          \* each the uses of operands by its active rules, in order
  Unbound, Unresolved, NoOperand, NoRuleset

\* A use of an operand: resolve is the active_flag of its condition, TRUE in an
\* assignment.
Use == [operand : Operands, resolve : BOOLEAN]

ASSUME BindingAssumption ==
  /\ FunctionOf \in [Operands -> Functions]
  /\ Args \in [Operands -> Seq(Operands)]
  /\ Misfits \subseteq Operands
  /\ Rulesets \subseteq Seq(Use)
  /\ NoImplementation \notin Implementations
  /\ {Unbound, Unresolved} \cap Implementations = {}
  /\ Unbound # Unresolved

VARIABLES
  specs,            \* the functions registered so far
  implementations,  \* function -> its registered callable
  purpose,          \* "local" for evaluate_row, "udf" for a Spark worker
  phase,            \* "idle", "binding", "ready" or "raised"
  ruleset,          \* the ruleset being or last prepared
  pending,          \* uses the recursion of _prepare_operand has still to visit
  binding,          \* operand -> its bound implementation, Unresolved or Unbound
  visited,          \* operands the evaluation of rows has called or described
  reply             \* what the last of these lookups found

registryVars == <<specs, implementations>>
vars == <<specs, implementations, purpose, phase, ruleset, pending, binding, visited, reply>>

NoReply == [how |-> "none", operand |-> NoOperand, outcome |-> NoImplementation]
NothingBound == [o \in Operands |-> Unbound]

Init ==
  /\ specs = {}
  /\ implementations = [f \in Functions |-> NoImplementation]
  /\ purpose = "unused" /\ phase = "idle" /\ ruleset = NoRuleset
  /\ pending = <<>> /\ binding = NothingBound
  /\ visited = {} /\ reply = NoReply

----------------------------------------------------------------------------
(* The registry: a name is registered once, for good.                      *)
RegisterAgain(f, callable) ==   \* mutant: a second registration replaces the first
  /\ phase # "binding"
  /\ specs' = specs \cup {f}
  /\ implementations' = [implementations EXCEPT ![f] = callable]
  /\ UNCHANGED <<purpose, phase, ruleset, pending, binding, visited, reply>>
Register(f, callable) ==
  /\ phase # "binding"
  /\ f \notin specs
  /\ specs' = specs \cup {f}
  /\ implementations' = [implementations EXCEPT ![f] = callable]
  /\ UNCHANGED <<purpose, phase, ruleset, pending, binding, visited, reply>>

----------------------------------------------------------------------------
(* Preparing a ruleset.                                                    *)

\* evaluate_row prepares a ruleset anew unless it is the one it has; a UDF gets an
\* evaluator of its own.
PrepareRuleset(p, r) ==
  /\ \/ p = "local" /\ purpose \in {"unused", "local"}
     \/ p = "udf" /\ purpose = "unused"
  /\ phase # "binding"
  /\ ~(phase = "ready" /\ ruleset = r)
  /\ purpose' = p /\ phase' = "binding" /\ ruleset' = r
  /\ pending' = r
  /\ binding' = NothingBound
  /\ visited' = {} /\ reply' = NoReply
  /\ UNCHANGED registryVars

Current == Head(pending)
Registered(o) == implementations[FunctionOf[o]]

\* get_implementation, if the implementation is wanted now.
ResolvedOr(default) ==
  IF Current.resolve THEN Registered(Current.operand) ELSE default

NestedUsesForgotten == <<>>   \* mutant: arguments are not looked into
NestedUsesResolved ==   \* mutant: nested operands are always resolved
  LET args == Args[Current.operand]
  IN  [i \in DOMAIN args |-> [operand |-> args[i], resolve |-> TRUE]]
NestedUses ==
  LET args == Args[Current.operand]
  IN  [i \in DOMAIN args |-> [operand |-> args[i], resolve |-> Current.resolve]]

Binding == phase = "binding" /\ pending # <<>>
FirstVisit == binding[Current.operand] = Unbound
BindableUnimplemented ==   \* mutant: a missing callable is not noticed
  FirstVisit => /\ FunctionOf[Current.operand] \in specs
                /\ Current.operand \notin Misfits
Bindable ==
  /\ FirstVisit => /\ FunctionOf[Current.operand] \in specs
                   /\ Current.operand \notin Misfits
  /\ Current.resolve /\ binding[Current.operand] \in {Unbound, Unresolved} =>
       Registered(Current.operand) # NoImplementation

BindOperand ==
  /\ Binding /\ FirstVisit /\ Bindable
  /\ binding' = [binding EXCEPT ![Current.operand] = ResolvedOr(Unresolved)]
  /\ pending' = NestedUses \o Tail(pending)
  /\ UNCHANGED <<registryVars, purpose, phase, ruleset, visited, reply>>

\* An operand met before, by identity: resolved now if it was not and has to be.
RevisitOperandOnce ==   \* mutant: an operand met before is left as it is
  /\ Binding /\ ~FirstVisit
  /\ pending' = Tail(pending)
  /\ UNCHANGED <<registryVars, purpose, phase, ruleset, binding, visited, reply>>
RevisitOperandForever ==   \* mutant: a use that binds nothing new is not taken off
  /\ Binding /\ ~FirstVisit /\ Bindable
  /\ binding' =
       IF binding[Current.operand] = Unresolved
       THEN [binding EXCEPT ![Current.operand] = ResolvedOr(Unresolved)]
       ELSE binding
  /\ pending' = IF binding' = binding THEN pending ELSE Tail(pending)
  /\ UNCHANGED <<registryVars, purpose, phase, ruleset, visited, reply>>
RevisitOperand ==
  /\ Binding /\ ~FirstVisit /\ Bindable
  /\ binding' =
       IF binding[Current.operand] = Unresolved
       THEN [binding EXCEPT ![Current.operand] = ResolvedOr(Unresolved)]
       ELSE binding
  /\ pending' = Tail(pending)
  /\ UNCHANGED <<registryVars, purpose, phase, ruleset, visited, reply>>

BindingRaises ==
  /\ Binding /\ ~Bindable
  /\ phase' = "raised" /\ pending' = <<>>
  /\ UNCHANGED <<registryVars, purpose, ruleset, binding, visited, reply>>

FinishPreparation ==
  /\ phase = "binding" /\ pending = <<>>
  /\ phase' = "ready"
  /\ UNCHANGED <<registryVars, purpose, ruleset, pending, binding, visited, reply>>

----------------------------------------------------------------------------
(* Evaluating rows.  On a worker the registry is empty.                    *)
RegistryLookup(o) == IF purpose = "udf" THEN NoImplementation ELSE Registered(o)

Implementation(o) ==
  IF binding[o] \in Implementations THEN binding[o] ELSE RegistryLookup(o)

\* Evaluation starts at the operands of the rules and resolves or describes their
\* arguments the same way.
Starts(how) ==
  {u.operand : u \in {v \in ToSet(ruleset) : v.resolve = (how = "call")}}
Visits(how) ==
  Starts(how) \cup UNION {ToSet(Args[v.operand]) : v \in {w \in visited : w.how = how}}

\* _resolve_operand of an active condition or an assignment.
CallFunction(o) ==
  /\ phase = "ready" /\ o \in Visits("call")
  /\ visited' = visited \cup {[how |-> "call", operand |-> o]}
  /\ reply' = [how |-> "call", operand |-> o, outcome |-> Implementation(o)]
  /\ UNCHANGED <<registryVars, purpose, phase, ruleset, pending, binding>>

\* _operand_metadata of an inactive condition, in full audit.
DescribeFunction(o) ==
  /\ phase = "ready" /\ o \in Visits("describe")
  /\ visited' = visited \cup {[how |-> "describe", operand |-> o]}
  /\ reply' = [how |-> "describe", operand |-> o, outcome |-> binding[o]]
  /\ UNCHANGED <<registryVars, purpose, phase, ruleset, pending, binding>>

Next ==
  \/ \E f \in Functions, callable \in Implementations \cup {NoImplementation} :
       Register(f, callable)
  \/ \E p \in {"local", "udf"}, r \in Rulesets : PrepareRuleset(p, r)
  \/ BindOperand \/ RevisitOperand \/ BindingRaises \/ FinishPreparation
  \/ \E o \in Operands : CallFunction(o) \/ DescribeFunction(o)

Spec == Init /\ [][Next]_vars

\* The recursion of _prepare_operand runs on once it is entered: it takes no lock and
\* calls nothing that waits.  Nobody has to register, prepare or evaluate anything.
BindingStep == BindOperand \/ RevisitOperand \/ BindingRaises \/ FinishPreparation
FairSpec == Spec /\ WF_vars(BindingStep)
----------------------------------------------------------------------------
(* Properties                                                              *)

Lookup == [how : {"call", "describe"}, operand : Operands]

\* Every variable has the shape the code gives it.
TypeOK ==
  /\ specs \subseteq Functions
  /\ implementations \in [Functions -> Implementations \cup {NoImplementation}]
  /\ purpose \in {"unused", "local", "udf"}
  /\ phase \in {"idle", "binding", "ready", "raised"}
  /\ ruleset \in Rulesets \cup {NoRuleset}
  /\ phase \in {"binding", "ready"} => ruleset \in Rulesets
  /\ pending \in Seq(Use)
  /\ binding \in [Operands -> Implementations \cup {Unbound, Unresolved}]
  /\ visited \subseteq Lookup

\* What the evaluation of some of a ruleset's uses can reach.
Closed(S) == \A o \in S : ToSet(Args[o]) \subseteq S
Reach(S) == {o \in Operands : \A C \in SUBSET Operands : S \subseteq C /\ Closed(C) => o \in C}
Used(r, flag) == {u.operand : u \in {v \in ToSet(r) : v.resolve = flag}}
Active(r) == Reach(Used(r, TRUE))
Inactive(r) == Reach(Used(r, FALSE))

\* No operand that has function arguments is both evaluated and only described;
\* always so in a ruleset compiled from YAML, which shares no operand.
SharesOnlyLeaves(r) == \A o \in Active(r) \cap Inactive(r) : Args[o] = <<>>

\* Why NeverBindsLate and CallsRegistered are inductive.  A bound operand's
\* arguments are bound too or still pending, and so are the operands the ruleset
\* uses; with resolve, the same holds of what is resolved.
Met(o) == binding[o] # Unbound \/ o \in {u.operand : u \in ToSet(pending)}
WillResolve(o) ==
  \/ binding[o] \in Implementations
  \/ [operand |-> o, resolve |-> TRUE] \in ToSet(pending)
Prepared == phase \in {"binding", "ready"}

ReadyIsDone == phase = "ready" => pending = <<>>
VisitedBound == \A v \in visited : binding[v.operand] # Unbound
UsesMet == Prepared => \A u \in ToSet(ruleset) : Met(u.operand)
ArgsMet ==
  Prepared => \A o \in Operands : binding[o] # Unbound => \A n \in ToSet(Args[o]) : Met(n)
MeetingInv == ReadyIsDone /\ VisitedBound /\ UsesMet /\ ArgsMet

RegistryInv == \A f \in Functions \ specs : implementations[f] = NoImplementation
BoundCurrent ==
  \A o \in Operands : binding[o] \in Implementations => binding[o] = Registered(o)
PendingReachable ==
  phase = "binding" => \A u \in ToSet(pending) :
    u.operand \in (IF u.resolve THEN Active(ruleset) ELSE Inactive(ruleset))
UnresolvedInactive ==
  Prepared => \A o \in Operands : binding[o] = Unresolved => o \in Inactive(ruleset)
CallsResolve == Prepared => \A o \in Used(ruleset, TRUE) : WillResolve(o)
ArgsResolve ==
  Prepared => \A o \in Operands :
    binding[o] \in Implementations => \A n \in ToSet(Args[o]) : WillResolve(n)
VisitedResolved ==
  \A v \in visited : v.how = "call" => binding[v.operand] \in Implementations
ReplyCurrent ==
  reply.how = "call" => /\ reply.operand \in Operands
                        /\ reply.outcome \in Implementations
                        /\ reply.outcome = Registered(reply.operand)
ResolutionInv ==
  /\ ReadyIsDone /\ RegistryInv /\ BoundCurrent /\ PendingReachable /\ UnresolvedInactive
  /\ CallsResolve /\ ArgsResolve /\ VisitedResolved /\ ReplyCurrent

\* Every call finds the implementation that is registered for its function, on
\* the driver and on the worker, whatever was registered since the ruleset was
\* prepared and whatever was prepared before.
CallsRegistered ==
  reply.how = "call" =>
    /\ reply.outcome = Registered(reply.operand)
    /\ reply.outcome # NoImplementation

\* Nothing is bound while rows are evaluated: preparation has met every operand
\* that evaluation and the audit of inactive conditions come to.
NeverBindsLate == \A v \in visited : binding[v.operand] # Unbound

\* A ruleset is refused for an unknown function, for arguments that do not fit,
\* or for a missing callable that some active rule would call; never for a
\* callable that only inactive conditions name.
RefusedForCause ==
  [][phase = "binding" /\ phase' = "raised" =>
       \E o \in Active(ruleset) \cup Inactive(ruleset) :
         \/ FunctionOf[o] \notin specs
         \/ o \in Misfits
         \/ o \in Active(ruleset) /\ Registered(o) = NoImplementation]_vars

\* However often operands are shared and met again, preparation ends: it is refused,
\* or every function an active rule can call is bound to its callable.
PreparationSettles ==
  phase = "binding" ~>
    \/ phase = "raised"
    \/ phase = "ready" /\ \A o \in Active(ruleset) : binding[o] = Registered(o)
============================================================================

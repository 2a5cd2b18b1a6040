----------------------- MODULE FunctionBindingProofs -----------------------
(***************************************************************************)
(* Proofs about FunctionBinding, for all functions, operands and rulesets. *)
(***************************************************************************)
EXTENDS FunctionBinding, TLAPS

(***************************************************************************)
(* The elements of sequences, and what the stack of _prepare_operand       *)
(* holds after an operand is replaced by its arguments.                    *)
(***************************************************************************)

\* The elements of a concatenation.
LEMMA ToSetConcat ==
  ASSUME NEW S, NEW s \in Seq(S), NEW t \in Seq(S)
  PROVE  /\ s \o t \in Seq(S)
         /\ ToSet(s \o t) = ToSet(s) \cup ToSet(t)
<1>1. /\ s \o t \in Seq(S)
      /\ DOMAIN s = 1 .. Len(s) /\ DOMAIN t = 1 .. Len(t)
      /\ DOMAIN (s \o t) = 1 .. Len(s) + Len(t)
      /\ Len(s) \in Nat /\ Len(t) \in Nat
      /\ \A i \in 1 .. Len(s) + Len(t) :
           (s \o t)[i] = IF i <= Len(s) THEN s[i] ELSE t[i - Len(s)]
  OBVIOUS
<1>2. ToSet(s \o t) \subseteq ToSet(s) \cup ToSet(t)
  <2> SUFFICES ASSUME NEW i \in DOMAIN (s \o t)
               PROVE  (s \o t)[i] \in ToSet(s) \cup ToSet(t)
    BY DEF ToSet
  <2>1. CASE i <= Len(s)
    <3>1. i \in DOMAIN s /\ (s \o t)[i] = s[i]
      BY <1>1, <2>1
    <3> QED BY <3>1 DEF ToSet
  <2>2. CASE ~(i <= Len(s))
    <3>1. i - Len(s) \in DOMAIN t /\ (s \o t)[i] = t[i - Len(s)]
      BY <1>1, <2>2
    <3> QED BY <3>1 DEF ToSet
  <2> QED BY <2>1, <2>2
<1>3. ToSet(s) \subseteq ToSet(s \o t)
  <2> SUFFICES ASSUME NEW i \in DOMAIN s
               PROVE  s[i] \in ToSet(s \o t)
    BY DEF ToSet
  <2>1. i \in DOMAIN (s \o t) /\ (s \o t)[i] = s[i]
    BY <1>1
  <2> QED BY <2>1 DEF ToSet
<1>4. ToSet(t) \subseteq ToSet(s \o t)
  <2> SUFFICES ASSUME NEW i \in DOMAIN t
               PROVE  t[i] \in ToSet(s \o t)
    BY DEF ToSet
  <2>1. i + Len(s) \in DOMAIN (s \o t) /\ (s \o t)[i + Len(s)] = t[i]
    BY <1>1
  <2> QED BY <2>1 DEF ToSet
<1> QED BY <1>1, <1>2, <1>3, <1>4

\* The elements of a sequence over S are in S.
LEMMA ElementIn ==
  ASSUME NEW S, NEW s \in Seq(S), NEW x \in ToSet(s)
  PROVE  x \in S
BY DEF ToSet

\* A nonempty sequence is its head and its tail.
LEMMA ToSetHeadTail ==
  ASSUME NEW S, NEW s \in Seq(S), s # <<>>
  PROVE  /\ Head(s) \in S /\ Tail(s) \in Seq(S)
         /\ ToSet(s) = {Head(s)} \cup ToSet(Tail(s))
<1>1. /\ Head(s) \in S /\ Tail(s) \in Seq(S)
      /\ Len(s) \in Nat \ {0} /\ DOMAIN s = 1 .. Len(s)
      /\ Head(s) = s[1]
      /\ DOMAIN Tail(s) = 1 .. Len(s) - 1
      /\ \A i \in 1 .. Len(s) - 1 : Tail(s)[i] = s[i + 1]
  OBVIOUS
<1>2. ASSUME NEW i \in DOMAIN s
      PROVE  s[i] \in {Head(s)} \cup ToSet(Tail(s))
  <2>1. CASE i = 1
    BY <1>1, <2>1
  <2>2. CASE i # 1
    <3>1. i - 1 \in DOMAIN Tail(s) /\ Tail(s)[i - 1] = s[i]
      BY <1>1, <2>2
    <3> QED BY <3>1 DEF ToSet
  <2> QED BY <2>1, <2>2
<1>3. Head(s) \in ToSet(s)
  BY <1>1 DEF ToSet
<1>4. ASSUME NEW i \in DOMAIN Tail(s)
      PROVE  Tail(s)[i] \in ToSet(s)
  <2>1. i + 1 \in DOMAIN s /\ Tail(s)[i] = s[i + 1]
    BY <1>1, <1>4
  <2> QED BY <2>1 DEF ToSet
<1>5. ToSet(s) \subseteq {Head(s)} \cup ToSet(Tail(s))
  BY <1>2 DEF ToSet
<1>6. ToSet(Tail(s)) \subseteq ToSet(s)
  BY <1>4 DEF ToSet
<1> QED BY <1>1, <1>3, <1>5, <1>6

\* What a prepared ruleset uses are uses of operands.
LEMMA UsesTyped ==
  ASSUME TypeOK, phase \in {"binding", "ready"}, NEW u \in ToSet(ruleset)
  PROVE  u \in Use
<1>1. ruleset \in Seq(Use)
  BY BindingAssumption DEF TypeOK
<1> QED BY <1>1, ElementIn

\* The uses of an operand's arguments, as a set.
LEMMA NestedUsesSet ==
  ASSUME TypeOK, pending # <<>>
  PROVE  /\ Current \in Use
         /\ NestedUses \in Seq(Use)
         /\ ToSet(NestedUses) =
              {[operand |-> n, resolve |-> Current.resolve] : n \in ToSet(Args[Current.operand])}
<1>1. Current \in Use
  BY ToSetHeadTail DEF TypeOK, Current
<1>2. Args[Current.operand] \in Seq(Operands)
  BY <1>1, BindingAssumption DEF Use
<1>3. /\ DOMAIN NestedUses = DOMAIN Args[Current.operand]
      /\ \A i \in DOMAIN NestedUses :
           NestedUses[i] = [operand |-> Args[Current.operand][i], resolve |-> Current.resolve]
  BY DEF NestedUses
<1>4. /\ Len(Args[Current.operand]) \in Nat
      /\ DOMAIN Args[Current.operand] = 1 .. Len(Args[Current.operand])
      /\ \A i \in DOMAIN Args[Current.operand] : Args[Current.operand][i] \in Operands
  BY <1>2
<1>5. \A i \in DOMAIN Args[Current.operand] :
        [operand |-> Args[Current.operand][i], resolve |-> Current.resolve] \in Use
  BY <1>1, <1>4 DEF Use
<1>6. NestedUses \in [1 .. Len(Args[Current.operand]) -> Use]
  BY <1>4, <1>5 DEF NestedUses
<1>7. NestedUses \in Seq(Use)
  BY <1>4, <1>6
<1> QED BY <1>1, <1>3, <1>7 DEF ToSet

\* The stack after an operand was replaced by its arguments, and after it was
\* taken off.
LEMMA PendingSets ==
  ASSUME TypeOK, pending # <<>>
  PROVE  /\ Tail(pending) \in Seq(Use)
         /\ NestedUses \o Tail(pending) \in Seq(Use)
         /\ ToSet(pending) = {Current} \cup ToSet(Tail(pending))
         /\ ToSet(NestedUses \o Tail(pending)) = ToSet(NestedUses) \cup ToSet(Tail(pending))
<1>1. pending \in Seq(Use)
  BY DEF TypeOK
<1>2. Tail(pending) \in Seq(Use) /\ ToSet(pending) = {Current} \cup ToSet(Tail(pending))
  BY <1>1, ToSetHeadTail DEF Current
<1>3. NestedUses \in Seq(Use)
  BY NestedUsesSet
<1>4. \A s, t \in Seq(Use) : /\ s \o t \in Seq(Use)
                              /\ ToSet(s \o t) = ToSet(s) \cup ToSet(t)
  BY ToSetConcat
<1> QED BY <1>2, <1>3, <1>4, Zenon

----------------------------------------------------------------------------
(* Type correctness.                                                       *)

\* TypeOK holds initially and every step keeps it.
LEMMA TypeInit == Init => TypeOK
BY BindingAssumption DEF Init, TypeOK, NothingBound, Use

LEMMA TypeStep == TypeOK /\ [Next]_vars => TypeOK'
<1> SUFFICES ASSUME TypeOK, [Next]_vars
             PROVE  TypeOK'
  OBVIOUS
<1> USE BindingAssumption
<1>1. ASSUME NEW f \in Functions, NEW callable \in Implementations \cup {NoImplementation},
             Register(f, callable)
      PROVE  TypeOK'
  BY <1>1 DEF Register, TypeOK
<1>2. ASSUME NEW p \in {"local", "udf"}, NEW r \in Rulesets, PrepareRuleset(p, r)
      PROVE  TypeOK'
  BY <1>2 DEF PrepareRuleset, TypeOK, NothingBound, registryVars
<1>3. CASE BindOperand
  <2>1. pending # <<>> /\ Current \in Use /\ NestedUses \o Tail(pending) \in Seq(Use)
    BY <1>3, NestedUsesSet, PendingSets DEF BindOperand, Binding
  <2>2. ResolvedOr(Unresolved) \in Implementations \cup {Unresolved}
    BY <1>3, <2>1 DEF BindOperand, FirstVisit, Bindable, ResolvedOr, Registered, TypeOK, Use
  <2> QED BY <1>3, <2>1, <2>2 DEF BindOperand, TypeOK, registryVars
<1>4. CASE RevisitOperand
  <2>1. pending # <<>> /\ Current \in Use /\ Tail(pending) \in Seq(Use)
    BY <1>4, NestedUsesSet, PendingSets DEF RevisitOperand, Binding
  <2>2. binding[Current.operand] = Unresolved =>
          ResolvedOr(Unresolved) \in Implementations \cup {Unresolved}
    BY <1>4, <2>1 DEF RevisitOperand, Bindable, ResolvedOr, Registered, TypeOK, Use
  <2> QED BY <1>4, <2>1, <2>2 DEF RevisitOperand, TypeOK, registryVars
<1>5. CASE BindingRaises
  BY <1>5 DEF BindingRaises, TypeOK, registryVars
<1>6. CASE FinishPreparation
  BY <1>6 DEF FinishPreparation, TypeOK, registryVars
<1>7. ASSUME NEW o \in Operands, CallFunction(o)
      PROVE  TypeOK'
  BY <1>7 DEF CallFunction, TypeOK, registryVars, Lookup
<1>8. ASSUME NEW o \in Operands, DescribeFunction(o)
      PROVE  TypeOK'
  BY <1>8 DEF DescribeFunction, TypeOK, registryVars, Lookup
<1>9. CASE UNCHANGED vars
  BY <1>9 DEF vars, TypeOK
<1> QED BY <1>1, <1>2, <1>3, <1>4, <1>5, <1>6, <1>7, <1>8, <1>9 DEF Next

\* Type correctness of the specification.
THEOREM TypeCorrect == Spec => []TypeOK
BY TypeInit, TypeStep, PTL DEF Spec

----------------------------------------------------------------------------
(* Preparation meets every operand.                                        *)

\* While rows are evaluated only operands are visited that the prepared ruleset
\* reaches, so they are bound.
LEMMA VisitsBound ==
  ASSUME TypeOK, MeetingInv, phase = "ready", NEW how, NEW o \in Visits(how)
  PROVE  binding[o] # Unbound
<1>1. ASSUME NEW n, Met(n) PROVE binding[n] # Unbound
  BY <1>1 DEF MeetingInv, ReadyIsDone, Met, ToSet
<1>2. CASE o \in Starts(how)
  BY <1>1, <1>2 DEF Starts, MeetingInv, UsesMet, Prepared
<1>3. CASE o \notin Starts(how)
  <2>1. PICK v \in visited : o \in ToSet(Args[v.operand])
    BY <1>3 DEF Visits
  <2>2. v.operand \in Operands /\ binding[v.operand] # Unbound
    BY DEF TypeOK, Lookup, MeetingInv, VisitedBound
  <2> QED BY <1>1, <2>1, <2>2 DEF MeetingInv, ArgsMet, Prepared
<1> QED BY <1>2, <1>3

LEMMA MeetingInit == Init => MeetingInv
BY DEF Init, MeetingInv, ReadyIsDone, VisitedBound, UsesMet, ArgsMet, Prepared

\* BindOperand trades an operand for its arguments: whoever was met still is.
LEMMA MeetingBind ==
  ASSUME TypeOK, MeetingInv, BindOperand
  PROVE  MeetingInv'
<1>1. /\ pending # <<>> /\ Current \in Use /\ phase = "binding"
      /\ phase' = phase /\ ruleset' = ruleset /\ visited' = visited
      /\ pending' = NestedUses \o Tail(pending)
      /\ binding' = [binding EXCEPT ![Current.operand] = ResolvedOr(Unresolved)]
  BY NestedUsesSet DEF BindOperand, Binding
<1>2. ResolvedOr(Unresolved) # Unbound
  BY <1>1, BindingAssumption
     DEF BindOperand, FirstVisit, Bindable, ResolvedOr, Registered, TypeOK, Use
<1>3. \A o \in Operands : binding[o] # Unbound => binding'[o] # Unbound
  BY <1>1, <1>2 DEF TypeOK
<1>4. ToSet(pending') =
        {[operand |-> n, resolve |-> Current.resolve] : n \in ToSet(Args[Current.operand])}
          \cup ToSet(Tail(pending))
  BY <1>1, NestedUsesSet, PendingSets
<1>5. ASSUME NEW o \in Operands, Met(o)
      PROVE  Met(o)'
  <2>1. CASE binding[o] # Unbound
    BY <1>3, <2>1 DEF Met
  <2>2. CASE o = Current.operand
    BY <1>1, <1>2, <2>2 DEF Met, TypeOK
  <2>3. CASE binding[o] = Unbound /\ o # Current.operand
    <3>1. PICK u \in ToSet(pending) : u.operand = o
      BY <1>5, <2>3 DEF Met
    <3>2. u \in ToSet(Tail(pending))
      BY <1>1, <2>3, <3>1, PendingSets
    <3> QED BY <1>4, <3>1, <3>2 DEF Met
  <2> QED BY <2>1, <2>2, <2>3
<1>6. \A n \in ToSet(Args[Current.operand]) : Met(n)'
  <2> SUFFICES ASSUME NEW n \in ToSet(Args[Current.operand])
               PROVE  Met(n)'
    OBVIOUS
  <2>1. [operand |-> n, resolve |-> Current.resolve] \in ToSet(pending')
    BY <1>4
  <2>2. [operand |-> n, resolve |-> Current.resolve].operand = n
    OBVIOUS
  <2> QED BY <2>1, <2>2 DEF Met
<1>7. ReadyIsDone' /\ VisitedBound'
  BY <1>1, <1>3 DEF MeetingInv, ReadyIsDone, VisitedBound, TypeOK, Lookup
<1>8. UsesMet'
  <2> SUFFICES ASSUME NEW u \in ToSet(ruleset)
               PROVE  Met(u.operand)'
    BY <1>1 DEF UsesMet
  <2>1. u.operand \in Operands
    BY <1>1, UsesTyped DEF Use
  <2> QED BY <1>1, <1>5, <2>1 DEF MeetingInv, UsesMet, Prepared
<1>9. ArgsMet'
  <2> SUFFICES ASSUME NEW o \in Operands, binding'[o] # Unbound, NEW n \in ToSet(Args[o])
               PROVE  Met(n)'
    BY DEF ArgsMet
  <2>1. n \in Operands
    BY BindingAssumption DEF ToSet
  <2>2. CASE o = Current.operand
    BY <1>6, <2>2
  <2>3. CASE o # Current.operand
    <3>1. binding[o] # Unbound
      BY <1>1, <2>3 DEF TypeOK
    <3> QED BY <1>1, <1>5, <2>1, <3>1 DEF MeetingInv, ArgsMet, Prepared
  <2> QED BY <2>2, <2>3
<1> QED BY <1>7, <1>8, <1>9 DEF MeetingInv

\* RevisitOperand takes an operand off the stack that is bound already.
LEMMA MeetingRevisit ==
  ASSUME TypeOK, MeetingInv, RevisitOperand
  PROVE  MeetingInv'
<1>1. /\ pending # <<>> /\ Current \in Use /\ phase = "binding"
      /\ phase' = phase /\ ruleset' = ruleset /\ visited' = visited
      /\ pending' = Tail(pending)
      /\ binding[Current.operand] # Unbound
  BY NestedUsesSet DEF RevisitOperand, Binding, FirstVisit
<1>2. ResolvedOr(Unresolved) # Unbound \/ binding' = binding
  BY <1>1, BindingAssumption
     DEF RevisitOperand, Bindable, ResolvedOr, Registered, TypeOK, Use
<1>3. \A o \in Operands : binding[o] # Unbound <=> binding'[o] # Unbound
  BY <1>1, <1>2 DEF TypeOK, RevisitOperand
<1>4. ASSUME NEW o \in Operands, Met(o)
      PROVE  Met(o)'
  <2>1. CASE binding[o] # Unbound
    BY <1>3, <2>1 DEF Met
  <2>2. CASE binding[o] = Unbound
    <3>1. PICK u \in ToSet(pending) : u.operand = o
      BY <1>4, <2>2 DEF Met
    <3>2. u \in ToSet(Tail(pending))
      BY <1>1, <2>2, <3>1, PendingSets
    <3> QED BY <1>1, <3>1, <3>2 DEF Met
  <2> QED BY <2>1, <2>2
<1>5. ReadyIsDone' /\ VisitedBound'
  BY <1>1, <1>3 DEF MeetingInv, ReadyIsDone, VisitedBound, TypeOK, Lookup
<1>6. UsesMet'
  <2> SUFFICES ASSUME NEW u \in ToSet(ruleset)
               PROVE  Met(u.operand)'
    BY <1>1 DEF UsesMet
  <2>1. u.operand \in Operands
    BY <1>1, UsesTyped DEF Use
  <2> QED BY <1>1, <1>4, <2>1 DEF MeetingInv, UsesMet, Prepared
<1>7. ArgsMet'
  <2> SUFFICES ASSUME NEW o \in Operands, binding'[o] # Unbound, NEW n \in ToSet(Args[o])
               PROVE  Met(n)'
    BY DEF ArgsMet
  <2>1. n \in Operands
    BY BindingAssumption DEF ToSet
  <2> QED BY <1>1, <1>3, <1>4, <2>1 DEF MeetingInv, ArgsMet, Prepared
<1> QED BY <1>5, <1>6, <1>7 DEF MeetingInv

LEMMA MeetingStep == TypeOK /\ MeetingInv /\ [Next]_vars => MeetingInv'
<1> SUFFICES ASSUME TypeOK, MeetingInv, [Next]_vars
             PROVE  MeetingInv'
  OBVIOUS
<1> USE DEF MeetingInv, ReadyIsDone, VisitedBound, UsesMet, ArgsMet, Prepared, Met
<1>1. ASSUME NEW f \in Functions, NEW callable \in Implementations \cup {NoImplementation},
             Register(f, callable)
      PROVE  MeetingInv'
  BY <1>1 DEF Register
<1>2. ASSUME NEW p \in {"local", "udf"}, NEW r \in Rulesets, PrepareRuleset(p, r)
      PROVE  MeetingInv'
  <2>1. /\ phase' = "binding" /\ ruleset' = r /\ pending' = r /\ visited' = {}
        /\ \A o \in Operands : binding'[o] = Unbound
    BY <1>2 DEF PrepareRuleset, NothingBound
  <2>2. UsesMet'
    BY <2>1
  <2>3. ArgsMet'
    BY <2>1
  <2> QED BY <2>1, <2>2, <2>3
<1>3. CASE BindOperand
  BY <1>3, MeetingBind
<1>4. CASE RevisitOperand
  BY <1>4, MeetingRevisit
<1>5. CASE BindingRaises
  BY <1>5 DEF BindingRaises
<1>6. CASE FinishPreparation
  BY <1>6 DEF FinishPreparation
<1>7. ASSUME NEW o \in Operands, CallFunction(o)
      PROVE  MeetingInv'
  <2>1. binding[o] # Unbound
    BY <1>7, VisitsBound DEF CallFunction
  <2> QED BY <1>7, <2>1 DEF CallFunction
<1>8. ASSUME NEW o \in Operands, DescribeFunction(o)
      PROVE  MeetingInv'
  <2>1. binding[o] # Unbound
    BY <1>8, VisitsBound DEF DescribeFunction
  <2> QED BY <1>8, <2>1 DEF DescribeFunction
<1>9. CASE UNCHANGED vars
  BY <1>9 DEF vars
<1> QED BY <1>1, <1>2, <1>3, <1>4, <1>5, <1>6, <1>7, <1>8, <1>9 DEF Next

\* Whatever operands a ruleset shares, evaluating it and auditing its inactive
\* conditions never come to an operand that preparation has not bound.
THEOREM NothingBoundLate == Spec => []NeverBindsLate
<1>1. MeetingInv => NeverBindsLate
  BY DEF MeetingInv, VisitedBound, NeverBindsLate
<1> QED BY <1>1, TypeInit, TypeStep, MeetingInit, MeetingStep, PTL DEF Spec

----------------------------------------------------------------------------
(* Calls find the registered implementation.                               *)

\* Reach(S) holds S and is closed under arguments.
LEMMA ReachClosed ==
  ASSUME NEW S \in SUBSET Operands
  PROVE  S \subseteq Reach(S) /\ Closed(Reach(S))
<1>1. S \subseteq Reach(S)
  BY DEF Reach
<1>2. ASSUME NEW o \in Reach(S), NEW n \in ToSet(Args[o])
      PROVE  n \in Reach(S)
  <2>1. o \in Operands /\ Args[o] \in Seq(Operands)
    BY BindingAssumption DEF Reach
  <2>2. n \in Operands
    BY <2>1, ElementIn
  <2>3. ASSUME NEW C \in SUBSET Operands, S \subseteq C, Closed(C)
        PROVE  n \in C
    BY <1>2, <2>3 DEF Reach, Closed
  <2> QED BY <2>2, <2>3 DEF Reach
<1> QED BY <1>1, <1>2 DEF Closed

\* A use that preparation starts from is in what its kind of use reaches, and
\* so are the arguments of an operand that is.
LEMMA UseReaches ==
  ASSUME NEW r \in Rulesets
  PROVE  /\ \A u \in ToSet(r) : u.operand \in (IF u.resolve THEN Active(r) ELSE Inactive(r))
         /\ Closed(Active(r)) /\ Closed(Inactive(r))
<1>1. r \in Seq(Use)
  BY BindingAssumption
<1>2. ASSUME NEW u \in ToSet(r)
      PROVE  u.operand \in Operands /\ u.resolve \in BOOLEAN
  <2>1. u \in Use
    BY <1>1, ElementIn
  <2> QED BY <2>1 DEF Use
<1>3. Used(r, TRUE) \in SUBSET Operands /\ Used(r, FALSE) \in SUBSET Operands
  BY <1>2 DEF Used
<1>4. /\ Used(r, TRUE) \subseteq Active(r) /\ Closed(Active(r))
      /\ Used(r, FALSE) \subseteq Inactive(r) /\ Closed(Inactive(r))
  BY <1>3, ReachClosed DEF Active, Inactive
<1>5. \A u \in ToSet(r) : u.operand \in Used(r, u.resolve)
  BY DEF Used
<1> QED BY <1>2, <1>4, <1>5

\* A call that evaluation makes is one that preparation resolved.
LEMMA CallsResolved ==
  ASSUME TypeOK, ResolutionInv, phase = "ready", NEW o \in Visits("call")
  PROVE  binding[o] \in Implementations
<1>1. ASSUME NEW n, WillResolve(n) PROVE binding[n] \in Implementations
  BY <1>1 DEF ResolutionInv, ReadyIsDone, WillResolve, ToSet
<1>2. CASE o \in Starts("call")
  <2>1. PICK u \in ToSet(ruleset) : u.resolve = TRUE /\ u.operand = o
    BY <1>2 DEF Starts
  <2>2. o \in Used(ruleset, TRUE)
    BY <2>1 DEF Used
  <2> QED BY <1>1, <2>2 DEF ResolutionInv, CallsResolve, Prepared
<1>3. CASE o \notin Starts("call")
  <2>1. PICK v \in visited : v.how = "call" /\ o \in ToSet(Args[v.operand])
    BY <1>3 DEF Visits
  <2>2. v.operand \in Operands /\ binding[v.operand] \in Implementations
    BY <2>1 DEF TypeOK, Lookup, ResolutionInv, VisitedResolved
  <2> QED BY <1>1, <2>1, <2>2 DEF ResolutionInv, ArgsResolve, Prepared
<1> QED BY <1>2, <1>3

LEMMA ResolutionInit == Init => ResolutionInv
<1> SUFFICES ASSUME Init
             PROVE  ResolutionInv
  OBVIOUS
<1>1. /\ phase = "idle" /\ pending = <<>> /\ visited = {} /\ reply.how = "none"
      /\ \A o \in Operands : binding[o] = Unbound
      /\ \A f \in Functions : implementations[f] = NoImplementation
  BY DEF Init, NothingBound, NoReply
<1>2. ReadyIsDone /\ RegistryInv /\ PendingReachable /\ VisitedResolved /\ ReplyCurrent
  BY <1>1 DEF ReadyIsDone, RegistryInv, PendingReachable, VisitedResolved, ReplyCurrent
<1>3. BoundCurrent /\ UnresolvedInactive /\ CallsResolve /\ ArgsResolve
  BY <1>1, BindingAssumption
     DEF BoundCurrent, UnresolvedInactive, CallsResolve, ArgsResolve, Prepared
<1> QED BY <1>2, <1>3 DEF ResolutionInv

\* A function is registered once, so nothing bound becomes stale.
LEMMA ResolutionRegister ==
  ASSUME TypeOK, ResolutionInv, NEW f \in Functions,
         NEW callable \in Implementations \cup {NoImplementation}, Register(f, callable)
  PROVE  ResolutionInv'
<1> USE BindingAssumption DEF ResolutionInv
<1>1. /\ UNCHANGED <<purpose, phase, ruleset, pending, binding, visited, reply>>
      /\ f \notin specs /\ specs' = specs \cup {f}
      /\ implementations[f] = NoImplementation
      /\ \A g \in Functions : g # f => implementations'[g] = implementations[g]
  BY DEF Register, RegistryInv, TypeOK
<1>2. RegistryInv'
  BY <1>1 DEF RegistryInv
<1>3. \A o \in Operands : Registered(o) \in Implementations => Registered(o)' = Registered(o)
  BY <1>1 DEF Registered
<1>4. BoundCurrent' /\ ReplyCurrent'
  BY <1>1, <1>3 DEF BoundCurrent, ReplyCurrent
<1>5. /\ ReadyIsDone' /\ PendingReachable' /\ UnresolvedInactive'
      /\ CallsResolve' /\ ArgsResolve' /\ VisitedResolved'
  BY <1>1 DEF ReadyIsDone, PendingReachable, UnresolvedInactive, CallsResolve, ArgsResolve,
              VisitedResolved, Prepared, WillResolve
<1> QED BY <1>2, <1>4, <1>5

\* Preparation starts with everything the ruleset uses on the stack.
LEMMA ResolutionPrepare ==
  ASSUME TypeOK, ResolutionInv, NEW p \in {"local", "udf"}, NEW r \in Rulesets,
         PrepareRuleset(p, r)
  PROVE  ResolutionInv'
<1>1. /\ UNCHANGED registryVars
      /\ phase' = "binding" /\ ruleset' = r /\ pending' = r /\ visited' = {}
      /\ reply' = NoReply
      /\ \A o \in Operands : binding'[o] = Unbound
  BY DEF PrepareRuleset, NothingBound
<1>2. ReadyIsDone' /\ RegistryInv' /\ VisitedResolved' /\ ReplyCurrent'
  BY <1>1 DEF ResolutionInv, ReadyIsDone, RegistryInv, VisitedResolved, ReplyCurrent,
              registryVars, NoReply
<1>3. BoundCurrent' /\ UnresolvedInactive' /\ ArgsResolve'
  BY <1>1, BindingAssumption DEF BoundCurrent, UnresolvedInactive, ArgsResolve
<1>4. PendingReachable'
  BY <1>1, UseReaches DEF PendingReachable
<1>5. CallsResolve'
  <2> SUFFICES ASSUME NEW o \in Used(r, TRUE)
               PROVE  WillResolve(o)'
    BY <1>1 DEF CallsResolve
  <2>1. PICK u \in ToSet(r) : u.resolve = TRUE /\ u.operand = o
    BY DEF Used
  <2>2. u \in Use
    BY ElementIn, BindingAssumption
  <2>3. u = [operand |-> o, resolve |-> TRUE]
    BY <2>1, <2>2 DEF Use
  <2> QED BY <1>1, <2>3 DEF WillResolve
<1> QED BY <1>2, <1>3, <1>4, <1>5 DEF ResolutionInv

\* Binding an operand for the first time puts its arguments on the stack in the
\* same way of use.
LEMMA ResolutionBind ==
  ASSUME TypeOK, ResolutionInv, BindOperand
  PROVE  ResolutionInv'
<1> DEFINE here == Current.operand
<1> DEFINE argUses == {[operand |-> n, resolve |-> Current.resolve] : n \in ToSet(Args[here])}
<1>1. /\ pending # <<>> /\ phase = "binding" /\ ruleset \in Rulesets
      /\ Current \in Use /\ here \in Operands /\ Current.resolve \in BOOLEAN
      /\ UNCHANGED <<registryVars, purpose, phase, ruleset, visited, reply>>
      /\ binding[here] = Unbound
  BY NestedUsesSet DEF BindOperand, Binding, FirstVisit, TypeOK, Use
<1>2. ToSet(pending') = argUses \cup ToSet(Tail(pending))
  BY <1>1, NestedUsesSet, PendingSets DEF BindOperand
<1>3. ToSet(pending) = {Current} \cup ToSet(Tail(pending))
  BY <1>1, PendingSets
<1>4. /\ \A o \in Operands \ {here} : binding'[o] = binding[o]
      /\ Current.resolve => /\ binding'[here] = Registered(here)
                            /\ Registered(here) \in Implementations
      /\ ~Current.resolve => binding'[here] = Unresolved
  BY <1>1, BindingAssumption
     DEF BindOperand, FirstVisit, Bindable, ResolvedOr, Registered, TypeOK
<1>5. here \in (IF Current.resolve THEN Active(ruleset) ELSE Inactive(ruleset))
  BY <1>1, <1>3 DEF ResolutionInv, PendingReachable
<1>6. ReadyIsDone' /\ RegistryInv' /\ ReplyCurrent'
  BY <1>1 DEF ResolutionInv, ReadyIsDone, RegistryInv, ReplyCurrent, registryVars, Registered
<1>7. BoundCurrent'
  BY <1>1, <1>4, BindingAssumption
     DEF ResolutionInv, BoundCurrent, Registered, registryVars
<1>8. PendingReachable'
  <2> SUFFICES ASSUME NEW u \in ToSet(pending')
               PROVE  u.operand \in (IF u.resolve THEN Active(ruleset) ELSE Inactive(ruleset))
    BY <1>1 DEF PendingReachable
  <2>1. CASE u \in ToSet(Tail(pending))
    BY <1>1, <1>3, <2>1 DEF ResolutionInv, PendingReachable
  <2>2. CASE u \in argUses
    <3>1. PICK n \in ToSet(Args[here]) : u = [operand |-> n, resolve |-> Current.resolve]
      BY <2>2
    <3>2. u.operand \in ToSet(Args[here]) /\ u.resolve = Current.resolve
      BY <3>1
    <3> QED BY <1>1, <1>5, <3>2, UseReaches DEF Closed
  <2> QED BY <1>2, <2>1, <2>2
<1>9. UnresolvedInactive'
  BY <1>1, <1>4, <1>5, BindingAssumption DEF ResolutionInv, UnresolvedInactive, Prepared
<1>10. ASSUME NEW o \in Operands, WillResolve(o)
       PROVE  WillResolve(o)'
  <2>1. CASE binding[o] \in Implementations
    <3>1. o # here
      BY <1>1, <2>1, BindingAssumption
    <3> QED BY <1>4, <2>1, <3>1 DEF WillResolve
  <2>2. CASE [operand |-> o, resolve |-> TRUE] = Current
    <3>1. o = here /\ Current.resolve
      BY <2>2
    <3> QED BY <1>4, <3>1 DEF WillResolve
  <2>3. CASE [operand |-> o, resolve |-> TRUE] \in ToSet(Tail(pending))
    BY <1>2, <2>3 DEF WillResolve
  <2> QED BY <1>3, <1>10, <2>1, <2>2, <2>3 DEF WillResolve
<1>11. CallsResolve'
  <2>1. Used(ruleset, TRUE) \subseteq Operands
    BY <1>1, UsesTyped DEF Used, Use
  <2> QED BY <1>1, <1>10, <2>1 DEF ResolutionInv, CallsResolve, Prepared
<1>12. ArgsResolve'
  <2> SUFFICES ASSUME NEW o \in Operands, binding'[o] \in Implementations,
                      NEW n \in ToSet(Args[o])
               PROVE  WillResolve(n)'
    BY DEF ArgsResolve
  <2>1. n \in Operands
    BY ElementIn, BindingAssumption
  <2>2. CASE o # here
    BY <1>1, <1>4, <1>10, <2>1, <2>2 DEF ResolutionInv, ArgsResolve, Prepared
  <2>3. CASE o = here
    <3>1. Current.resolve = TRUE
      BY <1>1, <1>4, <2>3, BindingAssumption
    <3>2. [operand |-> n, resolve |-> TRUE] \in argUses
      BY <2>3, <3>1
    <3> QED BY <1>2, <3>2 DEF WillResolve
  <2> QED BY <2>2, <2>3
<1>13. VisitedResolved'
  <2>1. \A o \in Operands : binding[o] \in Implementations => binding'[o] \in Implementations
    BY <1>1, <1>4, BindingAssumption
  <2> QED BY <1>1, <2>1 DEF ResolutionInv, VisitedResolved, TypeOK, Lookup
<1> QED BY <1>6, <1>7, <1>8, <1>9, <1>11, <1>12, <1>13 DEF ResolutionInv

\* An operand met before is upgraded without its arguments: it has none if only
\* leaves are shared, since it was met first for an inactive condition.
LEMMA ResolutionRevisit ==
  ASSUME TypeOK, ResolutionInv, RevisitOperand, \A r \in Rulesets : SharesOnlyLeaves(r)
  PROVE  ResolutionInv'
<1> DEFINE here == Current.operand
<1>1. /\ pending # <<>> /\ phase = "binding" /\ ruleset \in Rulesets
      /\ Current \in Use /\ here \in Operands /\ Current.resolve \in BOOLEAN
      /\ UNCHANGED <<registryVars, purpose, phase, ruleset, visited, reply>>
      /\ binding[here] \in Implementations \cup {Unresolved}
      /\ pending' = Tail(pending)
  BY NestedUsesSet DEF RevisitOperand, Binding, FirstVisit, TypeOK, Use
<1>2. ToSet(pending) = {Current} \cup ToSet(pending')
  BY <1>1, PendingSets
<1>3. /\ \A o \in Operands \ {here} : binding'[o] = binding[o]
      /\ binding[here] \in Implementations => binding'[here] = binding[here]
      /\ binding[here] = Unresolved /\ Current.resolve =>
           /\ binding'[here] = Registered(here)
           /\ Registered(here) \in Implementations
      /\ binding[here] = Unresolved /\ ~Current.resolve => binding'[here] = Unresolved
  BY <1>1, BindingAssumption
     DEF RevisitOperand, Bindable, ResolvedOr, Registered, TypeOK
<1>4. here \in (IF Current.resolve THEN Active(ruleset) ELSE Inactive(ruleset))
  BY <1>1, <1>2 DEF ResolutionInv, PendingReachable
<1>5. ReadyIsDone' /\ RegistryInv' /\ ReplyCurrent'
  BY <1>1 DEF ResolutionInv, ReadyIsDone, RegistryInv, ReplyCurrent, registryVars, Registered
<1>6. BoundCurrent'
  BY <1>1, <1>3, BindingAssumption
     DEF ResolutionInv, BoundCurrent, Registered, registryVars
<1>7. PendingReachable'
  BY <1>1, <1>2 DEF ResolutionInv, PendingReachable
<1>8. UnresolvedInactive'
  BY <1>1, <1>3, BindingAssumption DEF ResolutionInv, UnresolvedInactive, Prepared
<1>9. ASSUME NEW o \in Operands, WillResolve(o)
      PROVE  WillResolve(o)'
  <2>1. CASE binding[o] \in Implementations
    BY <1>3, <2>1 DEF WillResolve
  <2>2. CASE [operand |-> o, resolve |-> TRUE] = Current
    <3>1. o = here /\ Current.resolve
      BY <2>2
    <3> QED BY <1>1, <1>3, <3>1 DEF WillResolve
  <2>3. CASE [operand |-> o, resolve |-> TRUE] \in ToSet(pending')
    BY <2>3 DEF WillResolve
  <2> QED BY <1>2, <1>9, <2>1, <2>2, <2>3 DEF WillResolve
<1>10. CallsResolve'
  <2>1. Used(ruleset, TRUE) \subseteq Operands
    BY <1>1, UsesTyped DEF Used, Use
  <2> QED BY <1>1, <1>9, <2>1 DEF ResolutionInv, CallsResolve, Prepared
<1>11. ArgsResolve'
  <2> SUFFICES ASSUME NEW o \in Operands, binding'[o] \in Implementations,
                      NEW n \in ToSet(Args[o])
               PROVE  WillResolve(n)'
    BY DEF ArgsResolve
  <2>1. n \in Operands
    BY ElementIn, BindingAssumption
  <2>2. CASE binding[o] \in Implementations
    BY <1>1, <1>9, <2>1, <2>2 DEF ResolutionInv, ArgsResolve, Prepared
  <2>3. CASE binding[o] \notin Implementations
    <3>1. o = here /\ binding[here] = Unresolved /\ Current.resolve
      BY <1>1, <1>3, <2>3, BindingAssumption
    <3>2. here \in Active(ruleset) /\ here \in Inactive(ruleset)
      BY <1>1, <1>4, <3>1 DEF ResolutionInv, UnresolvedInactive, Prepared
    <3>3. Args[o] = <<>>
      BY <1>1, <3>1, <3>2 DEF SharesOnlyLeaves
    <3> QED BY <3>3 DEF ToSet
  <2> QED BY <2>2, <2>3
<1>12. VisitedResolved'
  <2>1. \A o \in Operands : binding[o] \in Implementations => binding'[o] \in Implementations
    BY <1>3
  <2> QED BY <1>1, <2>1 DEF ResolutionInv, VisitedResolved, TypeOK, Lookup
<1> QED BY <1>5, <1>6, <1>7, <1>8, <1>10, <1>11, <1>12 DEF ResolutionInv

\* The implementation a call uses is the one bound, which is current.
LEMMA ResolutionCall ==
  ASSUME TypeOK, ResolutionInv, NEW o \in Operands, CallFunction(o)
  PROVE  ResolutionInv'
<1>1. binding[o] \in Implementations
  BY CallsResolved DEF CallFunction
<1>2. /\ UNCHANGED <<registryVars, purpose, phase, ruleset, pending, binding>>
      /\ visited' = visited \cup {[how |-> "call", operand |-> o]}
      /\ reply' = [how |-> "call", operand |-> o, outcome |-> binding[o]]
  BY <1>1 DEF CallFunction, Implementation
<1>3. ReplyCurrent'
  BY <1>1, <1>2 DEF ReplyCurrent, ResolutionInv, BoundCurrent, Registered, registryVars
<1>4. VisitedResolved'
  BY <1>1, <1>2 DEF VisitedResolved, ResolutionInv
<1>5. /\ ReadyIsDone' /\ RegistryInv' /\ BoundCurrent' /\ PendingReachable'
      /\ UnresolvedInactive' /\ CallsResolve' /\ ArgsResolve'
  BY <1>2 DEF ResolutionInv, ReadyIsDone, RegistryInv, BoundCurrent, PendingReachable,
              UnresolvedInactive, CallsResolve, ArgsResolve, Prepared, WillResolve,
              Registered, registryVars
<1> QED BY <1>3, <1>4, <1>5 DEF ResolutionInv

LEMMA ResolutionStep ==
  ASSUME \A r \in Rulesets : SharesOnlyLeaves(r)
  PROVE  TypeOK /\ ResolutionInv /\ [Next]_vars => ResolutionInv'
<1> SUFFICES ASSUME TypeOK, ResolutionInv, [Next]_vars
             PROVE  ResolutionInv'
  OBVIOUS
<1> DEFINE Kept == /\ UNCHANGED <<registryVars, ruleset, binding>>
                   /\ ReplyCurrent' /\ VisitedResolved'
<1>1. ASSUME Kept, pending' = pending, phase' = phase
      PROVE  ResolutionInv'
  BY <1>1 DEF ResolutionInv, ReadyIsDone, RegistryInv, BoundCurrent, PendingReachable,
              UnresolvedInactive, CallsResolve, ArgsResolve, Prepared, WillResolve,
              Registered, registryVars
<1>2. CASE BindingRaises
  BY <1>2 DEF BindingRaises, ResolutionInv, ReadyIsDone, RegistryInv, BoundCurrent,
              PendingReachable, UnresolvedInactive, CallsResolve, ArgsResolve,
              VisitedResolved, ReplyCurrent, Prepared, Registered, registryVars
<1>3. CASE FinishPreparation
  BY <1>3 DEF FinishPreparation, ResolutionInv, ReadyIsDone, RegistryInv, BoundCurrent,
              PendingReachable, UnresolvedInactive, CallsResolve, ArgsResolve,
              VisitedResolved, ReplyCurrent, Prepared, WillResolve, Registered, registryVars
<1>4. ASSUME NEW o \in Operands, DescribeFunction(o)
      PROVE  ResolutionInv'
  <2>1. ReplyCurrent' /\ VisitedResolved'
    BY <1>4 DEF DescribeFunction, ReplyCurrent, VisitedResolved, ResolutionInv
  <2> QED BY <1>1, <1>4, <2>1 DEF DescribeFunction
<1>5. CASE UNCHANGED vars
  <2>1. ReplyCurrent' /\ VisitedResolved'
    BY <1>5 DEF vars, ReplyCurrent, VisitedResolved, ResolutionInv, Registered
  <2> QED BY <1>1, <1>5, <2>1 DEF vars, registryVars
<1> QED BY <1>2, <1>3, <1>4, <1>5, ResolutionRegister, ResolutionPrepare, ResolutionBind,
           ResolutionRevisit, ResolutionCall DEF Next

\* In rulesets that share only leaves, such as every compiled one, each call of a
\* custom function on the driver or on a worker uses the callable registered for
\* it, and none fails for want of one.
THEOREM CallsFindImplementations ==
  ASSUME \A r \in Rulesets : SharesOnlyLeaves(r)
  PROVE  Spec => []CallsRegistered
<1>1. ResolutionInv => CallsRegistered
  BY BindingAssumption DEF ResolutionInv, ReplyCurrent, CallsRegistered
<1>2. TypeOK /\ ResolutionInv /\ [Next]_vars => ResolutionInv'
  BY ResolutionStep
<1> QED BY <1>1, <1>2, TypeInit, TypeStep, ResolutionInit, PTL DEF Spec

----------------------------------------------------------------------------
(* Why a ruleset is refused.                                               *)

\* Whatever is on the stack is what the rules use or an argument of it, in the same
\* way of use; this needs nothing of what is shared.
LEMMA ReachableStep == TypeOK /\ PendingReachable /\ [Next]_vars => PendingReachable'
<1> SUFFICES ASSUME TypeOK, PendingReachable, [Next]_vars
             PROVE  PendingReachable'
  OBVIOUS
<1> DEFINE ReachedAs(u) == u.operand \in (IF u.resolve THEN Active(ruleset) ELSE Inactive(ruleset))
<1>1. ASSUME pending' = pending, phase' = phase, ruleset' = ruleset
      PROVE  PendingReachable'
  BY <1>1 DEF PendingReachable
<1>2. ASSUME NEW p \in {"local", "udf"}, NEW r \in Rulesets, PrepareRuleset(p, r)
      PROVE  PendingReachable'
  <2>1. ruleset' = r /\ pending' = r
    BY <1>2 DEF PrepareRuleset
  <2> QED BY <2>1, UseReaches DEF PendingReachable
<1>3. CASE BindOperand
  <2>1. /\ pending # <<>> /\ phase = "binding" /\ ruleset \in Rulesets
        /\ ruleset' = ruleset
        /\ pending' = NestedUses \o Tail(pending)
    BY <1>3 DEF BindOperand, Binding, TypeOK
  <2>2. ToSet(pending) = {Current} \cup ToSet(Tail(pending))
    BY <2>1, PendingSets
  <2>3. ToSet(pending') = ToSet(NestedUses) \cup ToSet(Tail(pending))
    BY <2>1, PendingSets
  <2>4. \A u \in ToSet(pending) : ReachedAs(u)
    BY <2>1 DEF PendingReachable
  <2>5. ASSUME NEW u \in ToSet(NestedUses)
        PROVE  ReachedAs(u)
    <3>1. PICK n \in ToSet(Args[Current.operand]) :
            u = [operand |-> n, resolve |-> Current.resolve]
      BY <2>1, NestedUsesSet
    <3>2. u.operand \in ToSet(Args[Current.operand]) /\ u.resolve = Current.resolve
      BY <3>1
    <3>3. ReachedAs(Current)
      BY <2>2, <2>4
    <3> QED BY <2>1, <3>2, <3>3, UseReaches DEF Closed
  <2> QED BY <2>1, <2>2, <2>3, <2>4, <2>5 DEF PendingReachable
<1>4. CASE RevisitOperand
  <2>1. pending # <<>> /\ phase = "binding" /\ ruleset' = ruleset /\ pending' = Tail(pending)
    BY <1>4 DEF RevisitOperand, Binding
  <2>2. ToSet(pending') \subseteq ToSet(pending)
    BY <2>1, PendingSets
  <2> QED BY <2>1, <2>2 DEF PendingReachable
<1>5. CASE BindingRaises \/ FinishPreparation
  BY <1>5 DEF BindingRaises, FinishPreparation, PendingReachable
<1> QED BY <1>1, <1>2, <1>3, <1>4, <1>5
        DEF Next, Register, CallFunction, DescribeFunction, vars

\* Preparation raises at the operand on top of the stack, which the rules reach.
LEMMA RefusalHasCause ==
  ASSUME TypeOK, PendingReachable, [Next]_vars, phase = "binding", phase' = "raised"
  PROVE  \E o \in Active(ruleset) \cup Inactive(ruleset) :
           \/ FunctionOf[o] \notin specs
           \/ o \in Misfits
           \/ o \in Active(ruleset) /\ Registered(o) = NoImplementation
<1>1. BindingRaises
  BY DEF Next, vars, Register, PrepareRuleset, BindOperand, RevisitOperand, FinishPreparation,
         CallFunction, DescribeFunction
<1>2. pending # <<>> /\ ~Bindable
  BY <1>1 DEF BindingRaises, Binding
<1>3. Current \in ToSet(pending) /\ Current.resolve \in BOOLEAN
  BY <1>2, PendingSets, NestedUsesSet DEF Use
<1>4. /\ Current.resolve => Current.operand \in Active(ruleset)
      /\ ~Current.resolve => Current.operand \in Inactive(ruleset)
  BY <1>3 DEF PendingReachable
<1> QED BY <1>2, <1>3, <1>4 DEF Bindable

\* A ruleset is refused only for a cause among what its rules reach: an unknown
\* function, arguments that do not fit, or a missing callable that an active rule
\* would call, however operands are shared.
THEOREM RefusalsHaveCause == Spec => RefusedForCause
<1>1. Init => PendingReachable
  BY DEF Init, PendingReachable
<1>2. TypeOK /\ PendingReachable /\ [Next]_vars =>
        [phase = "binding" /\ phase' = "raised" =>
           \E o \in Active(ruleset) \cup Inactive(ruleset) :
             \/ FunctionOf[o] \notin specs
             \/ o \in Misfits
             \/ o \in Active(ruleset) /\ Registered(o) = NoImplementation]_vars
  BY RefusalHasCause
<1> QED BY <1>1, <1>2, TypeInit, TypeStep, ReachableStep, PTL DEF Spec, RefusedForCause
============================================================================

----------------------- MODULE RulesetRepositoryProofs -----------------------
(***************************************************************************)
(* Theorems about RulesetRepository, for any calls, rulesets and bounds.   *)
(***************************************************************************)
EXTENDS RulesetRepository, TLAPS, SequenceTheorems, FiniteSetTheorems

(***************************************************************************)
(* Type correctness.                                                       *)
(***************************************************************************)
LEMMA NewRowType ==
  ASSUME TypeOK, NEW c \in Calls, pc[c] = "append"
  PROVE  NewRow(c) \in Row
BY RepositoryAssumption
   DEF TypeOK, CallTypes, RequestFits, NewRow, Row, PublishSteps, PublishRequest, RulesetType, ActorOrSystem,
       NeverAt

LEMMA RetiredRowType ==
  ASSUME TypeOK, NEW c \in Calls, pc[c] \in RetireSteps, NEW row \in Row
  PROVE  RetiredBy(c, row) \in Row
BY RepositoryAssumption
   DEF TypeOK, CallTypes, RequestFits, RetiredBy, Row, RetireRequest, ActorOrSystem

(* What UpdateStatus makes of the table: a sequence of rows, as long.      *)
LEMMA UpdateType ==
  ASSUME TypeOK, NEW c \in Calls, pc[c] = "retire_update", UpdateStatus(c),
         exists["ruleset_versions"]
  PROVE  rows' \in Seq(Row) /\ DOMAIN rows' = DOMAIN rows /\ Len(rows') = Len(rows)
<1> DEFINE f(i) == IF i \in Updated(c) THEN RetiredBy(c, rows[i]) ELSE rows[i]
<1>1. rows \in Seq(Row) /\ DOMAIN rows = 1..Len(rows) /\ Len(rows) \in Nat
  BY LenProperties DEF TypeOK, TableTypes
<1>2. rows' = [i \in 1..Len(rows) |-> f(i)]
  BY <1>1 DEF UpdateStatus
<1>3. \A i \in 1..Len(rows) : f(i) \in Row
  BY <1>1, RetiredRowType DEF RetireSteps
<1>4. rows' \in [1..Len(rows) -> Row]
  BY <1>2, <1>3
<1>5. QED
  BY <1>1, <1>2, <1>4, LenProperties

LEMMA InitType == Init => TypeOK
<1> SUFFICES ASSUME Init PROVE TypeOK
  OBVIOUS
<1>1. TableTypes
  BY EmptySeq DEF Init, TableTypes, Tables
<1>2. CallTypes /\ RequestFits
  BY DEF Init, CallTypes, RequestFits, Label, PublishSteps, RetireSteps
<1>3. ReplyTypes
  BY DEF Init, ReplyTypes
<1>4. QED
  BY <1>1, <1>2, <1>3 DEF TypeOK

(* How each action leaves the parts of TypeOK.                             *)
LEMMA StepType == TypeOK /\ [Next]_vars => TypeOK'
<1> SUFFICES ASSUME TypeOK, [Next]_vars PROVE TypeOK'
  OBVIOUS
<1> USE DEF TypeOK
<1>1. ASSUME NEW c \in Calls, BeginPublish(c) PROVE TypeOK'
  <2>1. TableTypes' /\ ReplyTypes'
    BY <1>1, LenProperties
       DEF BeginPublish, TableTypes, ReplyTypes, tableVars, replyVars, Accept
  <2>2. CallTypes'
    BY <1>1
       DEF BeginPublish, CallTypes, Label, Running, PublishSteps, RetireSteps, CreateSteps,
           Goto, Raise, Accept, Request, PublishRequest
  <2>3. RequestFits'
    BY <1>1
       DEF BeginPublish, CallTypes, RequestFits, PublishSteps, RetireSteps, Goto, Raise, Accept, PublishRequest
  <2>4. QED
    BY <2>1, <2>2, <2>3
<1>2. ASSUME NEW c \in Calls, CheckId(c) PROVE TypeOK'
  <2>1. TableTypes' /\ ReplyTypes'
    BY <1>2
       DEF CheckId, TableTypes, ReplyTypes, tableVars, replyVars
  <2>2. CallTypes'
    BY <1>2
       DEF CheckId, CallTypes, Label, Running, PublishSteps, RetireSteps, CreateSteps,
           Goto, Raise
  <2>3. RequestFits'
    BY <1>2
       DEF CheckId, CallTypes, RequestFits, PublishSteps, RetireSteps, Goto, Raise
  <2>4. QED
    BY <2>1, <2>2, <2>3
<1>3. ASSUME NEW c \in Calls, CheckName(c) PROVE TypeOK'
  <2>1. TableTypes' /\ ReplyTypes'
    BY <1>3
       DEF CheckName, TableTypes, ReplyTypes, tableVars, replyVars
  <2>2. CallTypes'
    BY <1>3
       DEF CheckName, CallTypes, Label, Running, PublishSteps, RetireSteps, CreateSteps,
           Goto, Raise
  <2>3. RequestFits'
    BY <1>3
       DEF CheckName, CallTypes, RequestFits, PublishSteps, RetireSteps, Goto, Raise
  <2>4. QED
    BY <2>1, <2>2, <2>3
<1>4. ASSUME NEW c \in Calls, PrepareRow(c) PROVE TypeOK'
  <2>1. TableTypes' /\ ReplyTypes'
    BY <1>4
       DEF PrepareRow, TableTypes, ReplyTypes, tableVars, replyVars
  <2>2. CallTypes'
    BY <1>4
       DEF PrepareRow, CallTypes, Label, Running, PublishSteps, RetireSteps, CreateSteps,
           Goto, Raise, TakeStamp
  <2>3. RequestFits'
    BY <1>4
       DEF PrepareRow, CallTypes, RequestFits, PublishSteps, RetireSteps, Goto, Raise, TakeStamp
  <2>4. QED
    BY <2>1, <2>2, <2>3
<1>5. ASSUME NEW c \in Calls, AppendRow(c) PROVE TypeOK'
  <2>0. NewRow(c) \in Row
    BY <1>5, NewRowType DEF AppendRow
  <2>a. Append(rows, NewRow(c)) \in Seq(Row)
    BY <2>0, AppendProperties DEF TableTypes
  <2>b. TableTypes'
    BY <1>5, <2>a DEF AppendRow, TableTypes, Tables
  <2>c. ReplyTypes'
    BY <1>5, <2>0 DEF AppendRow, TableTypes, ReplyTypes, replyVars, Return
  <2>1. TableTypes' /\ ReplyTypes'
    BY <2>b, <2>c
  <2>2. CallTypes'
    BY <1>5
       DEF AppendRow, CallTypes, Label, Running, PublishSteps, RetireSteps, CreateSteps,
           Goto, Raise, Return
  <2>3. RequestFits'
    BY <1>5
       DEF AppendRow, CallTypes, RequestFits, PublishSteps, RetireSteps, Goto, Raise, Return
  <2>4. QED
    BY <2>1, <2>2, <2>3
<1>6. ASSUME NEW c \in Calls, BeginRetire(c) PROVE TypeOK'
  <2>1. TableTypes' /\ ReplyTypes'
    BY <1>6, LenProperties
       DEF BeginRetire, TableTypes, ReplyTypes, tableVars, replyVars, Accept
  <2>0. PICK r \in RetireRequest : Accept(c, r)
    BY <1>6 DEF BeginRetire, RetireRequest
  <2>a. request' \in [Calls -> Request \cup {NoRequest}]
    BY <2>0 DEF CallTypes, Accept, Request
  <2>b. \E l \in {"retire_read", "raised"} : pc' = [pc EXCEPT ![c] = l]
    BY <1>6 DEF BeginRetire, Goto, Raise
  <2>c. clock' \in Nat \ {0} /\ stamp' \in [Calls -> Nat]
    BY <1>6 DEF BeginRetire, CallTypes, TakeStamp
  <2>2. CallTypes'
    BY <2>a, <2>b, <2>c
       DEF CallTypes, Label, Running, PublishSteps, RetireSteps, CreateSteps
  <2>3. RequestFits'
    BY <1>6
       DEF BeginRetire, CallTypes, RequestFits, PublishSteps, RetireSteps, Goto, Raise, Accept, TakeStamp, RetireRequest
  <2>4. QED
    BY <2>1, <2>2, <2>3
<1>7. ASSUME NEW c \in Calls, ReadForRetire(c) PROVE TypeOK'
  <2>1. TableTypes' /\ ReplyTypes'
    BY <1>7
       DEF ReadForRetire, TableTypes, ReplyTypes, tableVars, replyVars
  <2>2. CallTypes'
    BY <1>7
       DEF ReadForRetire, CallTypes, Label, Running, PublishSteps, RetireSteps, CreateSteps,
           Goto, Raise
  <2>3. RequestFits'
    BY <1>7
       DEF ReadForRetire, CallTypes, RequestFits, PublishSteps, RetireSteps, Goto, Raise
  <2>4. QED
    BY <2>1, <2>2, <2>3
<1>8. ASSUME NEW c \in Calls, UpdateStatus(c) PROVE TypeOK'
  <2>0. rows' \in Seq(Row)
    BY <1>8, UpdateType DEF UpdateStatus, TableTypes
  <2>1. TableTypes' /\ ReplyTypes'
    BY <1>8, <2>0
       DEF UpdateStatus, TableTypes, ReplyTypes, tableVars, replyVars
  <2>2. CallTypes'
    BY <1>8
       DEF UpdateStatus, CallTypes, Label, Running, PublishSteps, RetireSteps, CreateSteps,
           Goto, Raise
  <2>3. RequestFits'
    BY <1>8
       DEF UpdateStatus, CallTypes, RequestFits, PublishSteps, RetireSteps, Goto, Raise
  <2>4. QED
    BY <2>1, <2>2, <2>3
<1>9. ASSUME NEW c \in Calls, VerifyRetirement(c) PROVE TypeOK'
  <2>0. \A i \in RetireTargets(c) : rows[i] \in Row
    BY ElementOfSeq, LenProperties DEF TableTypes, RetireTargets, RowsWithId
  <2>1. TableTypes' /\ ReplyTypes'
    BY <1>9, <2>0
       DEF VerifyRetirement, TableTypes, ReplyTypes, tableVars, replyVars, Return, CallTypes
  <2>2. CallTypes'
    BY <1>9
       DEF VerifyRetirement, CallTypes, Label, Running, PublishSteps, RetireSteps, CreateSteps,
           Goto, Raise, Return
  <2>3. RequestFits'
    BY <1>9
       DEF VerifyRetirement, CallTypes, RequestFits, PublishSteps, RetireSteps, Goto, Raise, Return
  <2>4. QED
    BY <2>1, <2>2, <2>3
<1>10. ASSUME NEW c \in Calls, BeginLoad(c) PROVE TypeOK'
  <2>1. TableTypes' /\ ReplyTypes'
    BY <1>10, LenProperties
       DEF BeginLoad, TableTypes, ReplyTypes, tableVars, replyVars, Accept
  <2>2. CallTypes'
    BY <1>10
       DEF BeginLoad, CallTypes, Label, Running, PublishSteps, RetireSteps, CreateSteps,
           Goto, Raise, Accept, Request, LoadRequest
  <2>3. RequestFits'
    BY <1>10
       DEF BeginLoad, CallTypes, RequestFits, PublishSteps, RetireSteps, Goto, Raise, Accept
  <2>4. QED
    BY <2>1, <2>2, <2>3
<1>11. ASSUME NEW c \in Calls, ReadPublished(c) PROVE TypeOK'
  <2>0. \A i \in Candidates(c) : rows[i] \in Row
    BY ElementOfSeq, LenProperties DEF TableTypes, Candidates, PublishedRows
  <2>1. TableTypes' /\ ReplyTypes'
    BY <1>11, <2>0
       DEF ReadPublished, TableTypes, ReplyTypes, tableVars, replyVars, Return, CallTypes
  <2>2. CallTypes'
    BY <1>11
       DEF ReadPublished, CallTypes, Label, Running, PublishSteps, RetireSteps, CreateSteps,
           Goto, Raise, Return
  <2>3. RequestFits'
    BY <1>11
       DEF ReadPublished, CallTypes, RequestFits, PublishSteps, RetireSteps, Goto, Raise, Return
  <2>4. QED
    BY <2>1, <2>2, <2>3
<1>12. ASSUME NEW c \in Calls, BeginCreate(c) PROVE TypeOK'
  <2>1. TableTypes' /\ ReplyTypes'
    BY <1>12, LenProperties
       DEF BeginCreate, TableTypes, ReplyTypes, tableVars, replyVars, Accept
  <2>0. PICK r \in CreateRequest : Accept(c, r)
    BY <1>12 DEF BeginCreate, CreateRequest
  <2>a. request' \in [Calls -> Request \cup {NoRequest}]
    BY <2>0 DEF CallTypes, Accept, Request
  <2>b. \/ pc' = [pc EXCEPT ![c] = "drop_versions"]
        \/ pc' = [pc EXCEPT ![c] = "create_versions"]
        \/ pc' = [pc EXCEPT ![c] = "raised"]
    BY <1>12 DEF BeginCreate, Goto, Raise
  <2>c. clock' \in Nat \ {0} /\ stamp' \in [Calls -> Nat]
    BY <1>12 DEF BeginCreate, CallTypes
  <2>2. CallTypes'
    BY <2>a, <2>b, <2>c
       DEF CallTypes, Label, Running, PublishSteps, RetireSteps, CreateSteps
  <2>3. RequestFits'
    BY <1>12
       DEF BeginCreate, CallTypes, RequestFits, PublishSteps, RetireSteps, Goto, Raise, Accept
  <2>4. QED
    BY <2>1, <2>2, <2>3
<1>13. ASSUME NEW c \in Calls, DropTable(c) PROVE TypeOK'
  <2>a. <<>> \in Seq(Row) /\ TableAt(pc[c]) \in Tables
    BY EmptySeq DEF TableAt, Tables
  <2>d. /\ exists' = [exists EXCEPT ![TableAt(pc[c])] = FALSE]
        /\ \/ rows' = <<>> /\ incarnation' = incarnation + 1
           \/ rows' = rows /\ incarnation' = incarnation
    BY <1>13 DEF DropTable
  <2>e. exists' \in [Tables -> BOOLEAN]
    BY <2>a, <2>d DEF TableTypes
  <2>f. rows' \in Seq(Row)
    BY <2>a, <2>d DEF TableTypes
  <2>g. incarnation' \in Nat
    BY <2>d DEF TableTypes
  <2>b. TableTypes'
    BY <2>e, <2>f, <2>g DEF TableTypes
  <2>c. ReplyTypes'
    BY <1>13 DEF DropTable, ReplyTypes, replyVars
  <2>1. TableTypes' /\ ReplyTypes'
    BY <2>b, <2>c
  <2>2. CallTypes'
    BY <1>13
       DEF DropTable, CallTypes, Label, Running, PublishSteps, RetireSteps, CreateSteps,
           Goto, Raise, TableAt
  <2>3. RequestFits'
    BY <1>13
       DEF DropTable, CallTypes, RequestFits, PublishSteps, RetireSteps, Goto, Raise, TableAt
  <2>4. QED
    BY <2>1, <2>2, <2>3
<1>14. ASSUME NEW c \in Calls, CreateTable(c) PROVE TypeOK'
  <2>1. TableTypes' /\ ReplyTypes'
    BY <1>14
       DEF CreateTable, TableTypes, ReplyTypes, tableVars, replyVars, Return, TableAt, Tables
  <2>2. CallTypes'
    BY <1>14
       DEF CreateTable, CallTypes, Label, Running, PublishSteps, RetireSteps, CreateSteps,
           Goto, Raise, TableAt, Return
  <2>3. RequestFits'
    BY <1>14
       DEF CreateTable, CallTypes, RequestFits, PublishSteps, RetireSteps, Goto, Raise, TableAt, Return
  <2>4. QED
    BY <2>1, <2>2, <2>3
<1>15. ASSUME NEW c \in Calls, SparkFailure(c) PROVE TypeOK'
  <2>1. TableTypes' /\ ReplyTypes'
    BY <1>15
       DEF SparkFailure, TableTypes, ReplyTypes, tableVars, replyVars
  <2>2. CallTypes'
    BY <1>15
       DEF SparkFailure, CallTypes, Label, Running, PublishSteps, RetireSteps, CreateSteps,
           Goto, Raise
  <2>3. RequestFits'
    BY <1>15
       DEF SparkFailure, CallTypes, RequestFits, PublishSteps, RetireSteps, Goto, Raise
  <2>4. QED
    BY <2>1, <2>2, <2>3
<1>16. CASE UNCHANGED vars
  BY <1>16 DEF TableTypes, CallTypes, ReplyTypes, RequestFits, vars
<1>17. QED
  BY <1>1, <1>2, <1>3, <1>4, <1>5, <1>6, <1>7, <1>8, <1>9, <1>10, <1>11, <1>12,
     <1>13, <1>14, <1>15, <1>16 DEF Next, Begin, Step

(* The state always has the shape of the table schema and of the calls'    *)
(* program points, whatever set of calls runs.                             *)
THEOREM TypeCorrect == Spec => []TypeOK
BY InitType, StepType, PTL DEF Spec

(***************************************************************************)
(* Both identities of a stored version are unique if publishers take turns.*)
(***************************************************************************)

(* Steps of calls that do not publish: they add no row and change no       *)
(* identity, and every publisher stays where it is.                        *)
SameIds(row, other) ==
  /\ row.ruleset_id = other.ruleset_id
  /\ row.ruleset_name = other.ruleset_name
  /\ row.version = other.version

LEMMA BystanderKeepsInv ==
  ASSUME PublicationInv, NEW c \in Calls,
         \A d \in Calls : d # c => pc'[d] = pc[d] /\ request'[d] = request[d],
         pc'[c] \notin PublishSteps,
         DOMAIN rows' \subseteq DOMAIN rows,
         \A i \in DOMAIN rows' : SameIds(rows'[i], rows[i]),
         ~exists'["ruleset_versions"] => rows' = <<>>
  PROVE  PublicationInv'
<1>1. AbsentIsEmpty'
  BY DEF AbsentIsEmpty
<1>2. OnePublisher'
  BY DEF PublicationInv, OnePublisher
<1>3. CheckedId'
  BY DEF PublicationInv, CheckedId, IdTakenBy, SameIds, PublishSteps
<1>4. CheckedName'
  BY DEF PublicationInv, CheckedName, NameTakenBy, SameIds, PublishSteps
<1>5. UniqueIdentities'
  BY DEF PublicationInv, UniqueIdentities, SameIdentity, SameIds
<1>6. QED
  BY <1>1, <1>2, <1>3, <1>4, <1>5 DEF PublicationInv

(* The UPDATE of retire leaves the identity columns of every row alone.    *)
LEMMA UpdateKeepsIdentity ==
  ASSUME TypeOK, NEW c \in Calls, UpdateStatus(c)
  PROVE  DOMAIN rows' = DOMAIN rows /\ \A i \in DOMAIN rows' : SameIds(rows'[i], rows[i])
<1>1. CASE exists["ruleset_versions"]
  <2>1. rows' = [i \in DOMAIN rows |->
                   IF i \in Updated(c) THEN RetiredBy(c, rows[i]) ELSE rows[i]]
    BY <1>1 DEF UpdateStatus
  <2>2. \A i \in DOMAIN rows : rows[i] \in Row
    BY ElementOfSeq, LenProperties DEF TypeOK, TableTypes
  <2>3. QED
    BY <2>1, <2>2 DEF SameIds, RetiredBy, Row
<1>2. CASE ~exists["ruleset_versions"]
  BY <1>2 DEF UpdateStatus, SameIds
<1>3. QED
  BY <1>1, <1>2

LEMMA InitPublication == Init => PublicationInv
BY EmptySeq
   DEF Init, PublicationInv, AbsentIsEmpty, OnePublisher, CheckedId, CheckedName,
       UniqueIdentities, PublishSteps

LEMMA StepPublication ==
  SerializedPublishers /\ TypeOK /\ PublicationInv /\ [Next]_vars => PublicationInv'
<1> SUFFICES ASSUME SerializedPublishers, TypeOK, PublicationInv, [Next]_vars
             PROVE  PublicationInv'
  OBVIOUS
<1> USE DEF PublicationInv
<1>pc. pc \in [Calls -> Label] /\ request \in [Calls -> Request \cup {NoRequest}]
  BY DEF TypeOK, CallTypes
<1>1. ASSUME NEW c \in Calls, BeginPublish(c) PROVE PublicationInv'
  <2>1. /\ \A d \in Calls : pc[d] \notin PublishSteps
        /\ \A d \in Calls : d # c => pc'[d] = pc[d]
        /\ pc'[c] \in {"raised", "check_id"}
        /\ UNCHANGED <<exists, rows>>
    BY <1>1, <1>pc DEF BeginPublish, SerializedTurn, Goto, Raise, tableVars
  <2>2. QED
    BY <2>1 DEF AbsentIsEmpty, OnePublisher, CheckedId, CheckedName, UniqueIdentities,
                PublishSteps
<1>2. ASSUME NEW c \in Calls, CheckId(c) PROVE PublicationInv'
  <2>1. /\ \A d \in Calls : d # c => pc'[d] = pc[d]
        /\ pc'[c] \in {"raised", "check_name"}
        /\ UNCHANGED <<exists, rows, request>>
    BY <1>2, <1>pc DEF CheckId, Goto, Raise, tableVars
  <2>2. pc'[c] = "check_name" =>
          \A i \in DOMAIN rows : ~IdTakenBy(rows[i], request[c].ruleset)
    <3>1. SUFFICES ASSUME pc'[c] = "check_name"
                   PROVE  \A i \in DOMAIN rows : ~IdTakenBy(rows[i], request[c].ruleset)
      OBVIOUS
    <3>2. CASE exists["ruleset_versions"]
      BY <1>2, <1>pc, <3>1, <3>2 DEF CheckId, Goto, Raise, RowsWithId, IdTakenBy
    <3>3. CASE ~exists["ruleset_versions"]
      BY <3>3, EmptySeq DEF AbsentIsEmpty
    <3>4. QED
      BY <3>2, <3>3
  <2>3. pc[c] \in PublishSteps
    BY <1>2 DEF CheckId, PublishSteps
  <2>4. QED
    BY <2>1, <2>2, <2>3
       DEF AbsentIsEmpty, OnePublisher, CheckedId, CheckedName, UniqueIdentities, PublishSteps
<1>3. ASSUME NEW c \in Calls, CheckName(c) PROVE PublicationInv'
  <2>1. /\ \A d \in Calls : d # c => pc'[d] = pc[d]
        /\ pc[c] = "check_name" /\ pc'[c] \in {"raised", "prepare"}
        /\ UNCHANGED <<exists, rows, request>>
    BY <1>3, <1>pc DEF CheckName, Goto, Raise, tableVars
  <2>2. pc'[c] = "prepare" =>
          \A i \in DOMAIN rows : ~NameTakenBy(rows[i], request[c].ruleset)
    <3>1. SUFFICES ASSUME pc'[c] = "prepare"
                   PROVE  \A i \in DOMAIN rows : ~NameTakenBy(rows[i], request[c].ruleset)
      OBVIOUS
    <3>2. CASE exists["ruleset_versions"]
      BY <1>3, <1>pc, <3>1, <3>2 DEF CheckName, Goto, Raise, RowsWithName, NameTakenBy
    <3>3. CASE ~exists["ruleset_versions"]
      BY <3>3, EmptySeq DEF AbsentIsEmpty
    <3>4. QED
      BY <3>2, <3>3
  <2>3. QED
    BY <2>1, <2>2
       DEF AbsentIsEmpty, OnePublisher, CheckedId, CheckedName, UniqueIdentities, PublishSteps
<1>4. ASSUME NEW c \in Calls, PrepareRow(c) PROVE PublicationInv'
  <2>1. /\ \A d \in Calls : d # c => pc'[d] = pc[d]
        /\ pc[c] = "prepare" /\ pc'[c] \in {"raised", "append"}
        /\ UNCHANGED <<exists, rows, request>>
    BY <1>4, <1>pc DEF PrepareRow, Goto, Raise, tableVars
  <2>2. QED
    BY <2>1
       DEF AbsentIsEmpty, OnePublisher, CheckedId, CheckedName, UniqueIdentities, PublishSteps
<1>5. ASSUME NEW c \in Calls, AppendRow(c) PROVE PublicationInv'
  <2>1. /\ \A d \in Calls : d # c => pc'[d] = pc[d]
        /\ pc[c] = "append" /\ pc'[c] \in {"raised", "returned"}
        /\ request' = request /\ exists'["ruleset_versions"]
    BY <1>5, <1>pc DEF AppendRow, Return, Goto, Raise, TypeOK, TableTypes, Tables
  <2>2. \A d \in Calls : pc'[d] \notin PublishSteps
    BY <2>1 DEF OnePublisher, PublishSteps
  <2>3. /\ rows' = Append(rows, NewRow(c)) /\ NewRow(c) \in Row
        /\ rows \in Seq(Row)
    BY <1>5, <2>1, NewRowType DEF AppendRow, TypeOK, TableTypes
  <2>4. /\ Len(rows) \in Nat /\ DOMAIN rows = 1..Len(rows)
        /\ DOMAIN rows' = 1..(Len(rows) + 1)
        /\ \A i \in DOMAIN rows : rows'[i] = rows[i]
        /\ rows'[Len(rows) + 1] = NewRow(c)
    BY <2>3, AppendProperties, LenProperties
  <2>5. \A i \in DOMAIN rows : ~SameIdentity(rows[i], NewRow(c)) /\ ~SameIdentity(NewRow(c), rows[i])
    BY <2>1 DEF CheckedId, CheckedName, IdTakenBy, NameTakenBy, SameIdentity, NewRow
  <2>6. UniqueIdentities'
    BY <2>4, <2>5 DEF UniqueIdentities
  <2>7. QED
    BY <2>1, <2>2, <2>6 DEF AbsentIsEmpty, OnePublisher, CheckedId, CheckedName, PublishSteps
<1>6. ASSUME NEW c \in Calls,
             \/ BeginRetire(c) \/ ReadForRetire(c) \/ VerifyRetirement(c)
             \/ BeginLoad(c) \/ ReadPublished(c) \/ BeginCreate(c) \/ SparkFailure(c)
      PROVE  PublicationInv'
  <2>1. /\ UNCHANGED <<exists, rows>>
        /\ \A d \in Calls : d # c => pc'[d] = pc[d] /\ request'[d] = request[d]
        /\ pc'[c] \notin PublishSteps
    BY <1>6, <1>pc
       DEF BeginRetire, ReadForRetire, VerifyRetirement, BeginLoad, ReadPublished,
           BeginCreate, SparkFailure, Accept, Return, Goto, Raise, tableVars, PublishSteps
  <2>2. QED
    BY <2>1, BystanderKeepsInv DEF SameIds, AbsentIsEmpty
<1>7. ASSUME NEW c \in Calls, UpdateStatus(c) PROVE PublicationInv'
  <2>1. /\ exists' = exists /\ (~exists["ruleset_versions"] => rows' = rows)
        /\ \A d \in Calls : d # c => pc'[d] = pc[d] /\ request'[d] = request[d]
        /\ pc'[c] \notin PublishSteps
    BY <1>7, <1>pc DEF UpdateStatus, Goto, Raise, PublishSteps
  <2>2. QED
    BY <1>7, <2>1, UpdateKeepsIdentity, BystanderKeepsInv DEF AbsentIsEmpty
<1>8. ASSUME NEW c \in Calls, DropTable(c) PROVE PublicationInv'
  <2>0. /\ exists' = [exists EXCEPT ![TableAt(pc[c])] = FALSE]
        /\ rows' = <<>> \/ (rows' = rows /\ TableAt(pc[c]) # "ruleset_versions")
        /\ request' = request
        /\ \/ pc' = [pc EXCEPT ![c] = "create_versions"]
           \/ pc' = [pc EXCEPT ![c] = "create_registry"]
    BY <1>8 DEF DropTable, Goto
  <2>1. /\ \/ rows' = <<>>
           \/ rows' = rows /\ exists'["ruleset_versions"] = exists["ruleset_versions"]
        /\ \A d \in Calls : d # c => pc'[d] = pc[d] /\ request'[d] = request[d]
        /\ pc'[c] \notin PublishSteps
    <3>1. /\ \A d \in Calls : d # c => pc'[d] = pc[d] /\ request'[d] = request[d]
          /\ pc'[c] \notin PublishSteps
      BY <2>0, <1>pc DEF PublishSteps
    <3>2. TableAt(pc[c]) # "ruleset_versions" =>
            exists'["ruleset_versions"] = exists["ruleset_versions"]
      BY <2>0 DEF TypeOK, TableTypes, Tables
    <3>3. QED
      BY <2>0, <3>1, <3>2
  <2>2. DOMAIN rows' \subseteq DOMAIN rows /\ \A i \in DOMAIN rows' : SameIds(rows'[i], rows[i])
    <3>1. DOMAIN <<>> = {}
      OBVIOUS
    <3>2. QED
      BY <2>1, <3>1 DEF SameIds
  <2>3. QED
    BY <2>1, <2>2, BystanderKeepsInv DEF AbsentIsEmpty
<1>9. ASSUME NEW c \in Calls, CreateTable(c) PROVE PublicationInv'
  <2>1. /\ rows' = rows
        /\ exists'["ruleset_versions"] \/ exists'["ruleset_versions"] = exists["ruleset_versions"]
        /\ \A d \in Calls : d # c => pc'[d] = pc[d] /\ request'[d] = request[d]
        /\ pc'[c] \notin PublishSteps
    <3>1. rows' = rows /\ request' = request
      BY <1>9 DEF CreateTable
    <3>2. \/ exists' = exists
          \/ exists' = [exists EXCEPT ![TableAt(pc[c])] = TRUE]
      BY <1>9 DEF CreateTable
    <3>3. exists'["ruleset_versions"] \/ exists'["ruleset_versions"] = exists["ruleset_versions"]
      BY <3>2 DEF TypeOK, TableTypes, Tables
    <3>4. \E l \in {"raised", "returned", "drop_registry", "create_registry"} :
             pc' = [pc EXCEPT ![c] = l]
      BY <1>9 DEF CreateTable, Return, Goto, Raise
    <3>5. QED
      BY <3>1, <3>3, <3>4, <1>pc DEF PublishSteps
  <2>2. QED
    BY <2>1, BystanderKeepsInv DEF SameIds, AbsentIsEmpty
<1>10. CASE UNCHANGED vars
  BY <1>10
     DEF vars, AbsentIsEmpty, OnePublisher, CheckedId, CheckedName, UniqueIdentities
<1>11. QED
  BY <1>1, <1>2, <1>3, <1>4, <1>5, <1>6, <1>7, <1>8, <1>9, <1>10 DEF Next, Begin, Step

(* However many publishers, retirers, loaders and table creators there are,*)
(* and wherever they fail: if publishers take turns, no two stored versions*)
(* share an id and version or a name and version.                          *)
THEOREM IdentitiesUnique ==
  ASSUME SerializedPublishers PROVE Spec => []UniqueIdentities
<1>1. Init => PublicationInv
  BY InitPublication
<1>2. TypeOK /\ PublicationInv /\ [Next]_vars => PublicationInv'
  BY StepPublication
<1>3. PublicationInv => UniqueIdentities
  BY DEF PublicationInv
<1>4. QED
  BY <1>1, <1>2, <1>3, TypeCorrect, PTL DEF Spec

(***************************************************************************)
(* What one step of a call may touch.                                      *)
(***************************************************************************)
StepOf(c) == Begin(c) \/ Step(c) \/ SparkFailure(c)

(* A step of one call leaves every other call where it is, and a call that *)
(* returned or raised takes no step.                                       *)
LEMMA StepIsLocal ==
  ASSUME TypeOK, NEW c \in Calls, StepOf(c)
  PROVE  /\ pc[c] \in Running \cup {"idle"}
         /\ \A d \in Calls \ {c} :
              /\ pc'[d] = pc[d] /\ request'[d] = request[d] /\ stamp'[d] = stamp[d]
              /\ result'[d] = result[d] /\ within'[d] = within[d]
<1>1. /\ pc \in [Calls -> Label] /\ request \in [Calls -> Request \cup {NoRequest}]
      /\ stamp \in [Calls -> Nat] /\ result \in [Calls -> Row \cup {NoRow}]
      /\ within \in [Calls -> Nat]
  BY DEF TypeOK, CallTypes, ReplyTypes
<1>2. CASE BeginPublish(c) \/ BeginLoad(c) \/ BeginCreate(c)
  BY <1>1, <1>2
     DEF BeginPublish, BeginLoad, BeginCreate, Accept, Goto, Raise, replyVars
<1>3. CASE BeginRetire(c)
  BY <1>1, <1>3 DEF BeginRetire, Accept, TakeStamp, Goto, Raise, replyVars
<1>4. CASE CheckId(c) \/ CheckName(c) \/ PrepareRow(c) \/ AppendRow(c)
  BY <1>1, <1>4
     DEF CheckId, CheckName, PrepareRow, AppendRow, TakeStamp, Return, Goto, Raise, replyVars,
         Running, PublishSteps
<1>5. CASE ReadForRetire(c) \/ UpdateStatus(c) \/ VerifyRetirement(c)
  BY <1>1, <1>5
     DEF ReadForRetire, UpdateStatus, VerifyRetirement, Return, Goto, Raise, replyVars,
         Running, RetireSteps
<1>6. CASE ReadPublished(c)
  BY <1>1, <1>6 DEF ReadPublished, Return, Goto, Raise, replyVars, Running
<1>7. CASE DropTable(c)
  BY <1>1, <1>7 DEF DropTable, Goto, replyVars, Running, CreateSteps
<1>8. CASE CreateTable(c)
  BY <1>1, <1>8 DEF CreateTable, Return, Goto, Raise, replyVars, Running, CreateSteps
<1>9. CASE SparkFailure(c)
  BY <1>1, <1>9 DEF SparkFailure, Raise, Goto, replyVars
<1>. QED
  BY <1>2, <1>3, <1>4, <1>5, <1>6, <1>7, <1>8, <1>9 DEF StepOf, Begin, Step

(* The table changes in three ways only.                                   *)
LEMMA TableSteps ==
  ASSUME TypeOK, NEW c \in Calls, StepOf(c)
  PROVE  \/ UNCHANGED <<rows, incarnation>>
         \/ AppendRow(c)
         \/ UpdateStatus(c) /\ exists["ruleset_versions"]
         \/ /\ rows' = <<>> /\ incarnation' = incarnation + 1
            /\ pc[c] = "drop_versions" /\ pc'[c] = "create_versions"
            /\ UNCHANGED <<result, within>>
<1>1. CASE Begin(c)
  BY <1>1 DEF Begin, BeginPublish, BeginRetire, BeginLoad, BeginCreate, tableVars
<1>2. CASE Step(c) /\ ~DropTable(c)
  BY <1>2
     DEF Step, CheckId, CheckName, PrepareRow, ReadForRetire, UpdateStatus, VerifyRetirement,
         ReadPublished, CreateTable, tableVars
<1>3. CASE DropTable(c)
  BY <1>3 DEF DropTable, TableAt, Goto, TypeOK, CallTypes, replyVars
<1>4. CASE SparkFailure(c)
  BY <1>4 DEF SparkFailure, tableVars
<1>. QED BY <1>1, <1>2, <1>3, <1>4 DEF StepOf

(* A call that does not return now keeps its reply.                        *)
LEMMA RepliesOnReturn ==
  ASSUME TypeOK, NEW c \in Calls, StepOf(c)
  PROVE  \/ UNCHANGED replyVars /\ pc'[c] # "returned"
         \/ /\ pc'[c] = "returned"
            /\ AppendRow(c) \/ VerifyRetirement(c) \/ ReadPublished(c) \/ CreateTable(c)
<1>1. pc \in [Calls -> Label]
  BY DEF TypeOK, CallTypes
<1>2. CASE Begin(c)
  BY <1>1, <1>2
     DEF Begin, BeginPublish, BeginRetire, BeginLoad, BeginCreate, Goto, Raise
<1>3. CASE Step(c)
  BY <1>1, <1>3
     DEF Step, CheckId, CheckName, PrepareRow, AppendRow, ReadForRetire, UpdateStatus,
         VerifyRetirement, ReadPublished, DropTable, CreateTable, Return, Goto, Raise, replyVars
<1>4. CASE SparkFailure(c)
  BY <1>1, <1>4 DEF SparkFailure, Raise, Goto
<1>. QED BY <1>2, <1>3, <1>4 DEF StepOf

(***************************************************************************)
(* Where each call stands, whoever publishes: what it was asked, whether   *)
(* it has a stamp, and that it has no reply before it returns.             *)
(***************************************************************************)
OpFits ==
  \A c \in Calls : /\ pc[c] = "load_read" => request[c] \in LoadRequest
                   /\ pc[c] \in CreateSteps => request[c] \in CreateRequest
RepliesLater == \A c \in Calls : pc[c] # "returned" => result[c] = NoRow
Stamped == \A c \in Calls : pc[c] \in RetireSteps \cup {"append"} => stamp[c] # 0
WithinPast == \A c \in Calls : within[c] <= incarnation
CallInv == OpFits /\ RepliesLater /\ Stamped /\ WithinPast /\ AbsentIsEmpty

LEMMA InitCalls == Init => CallInv
BY EmptySeq DEF Init, CallInv, OpFits, RepliesLater, Stamped, WithinPast, AbsentIsEmpty, RetireSteps,
       CreateSteps

LEMMA StepOpFits ==
  ASSUME TypeOK, CallInv, NEW c \in Calls, StepOf(c)
  PROVE  OpFits'
<1>1. /\ pc \in [Calls -> Label] /\ request \in [Calls -> Request \cup {NoRequest}]
      /\ \A d \in Calls \ {c} : pc'[d] = pc[d] /\ request'[d] = request[d]
  BY StepIsLocal DEF TypeOK, CallTypes
<1>2. SUFFICES /\ pc'[c] = "load_read" => request'[c] \in LoadRequest
               /\ pc'[c] \in CreateSteps => request'[c] \in CreateRequest
  BY <1>1 DEF CallInv, OpFits
<1>3. CASE BeginLoad(c)
  BY <1>1, <1>3 DEF BeginLoad, Accept, Goto, Raise, LoadRequest, CreateSteps
<1>4. CASE BeginCreate(c)
  BY <1>1, <1>4 DEF BeginCreate, Accept, Goto, Raise, CreateRequest, CreateSteps
<1>5. CASE BeginPublish(c) \/ BeginRetire(c)
  BY <1>1, <1>5 DEF BeginPublish, BeginRetire, Goto, Raise, CreateSteps
<1>6. CASE \/ CheckId(c) \/ CheckName(c) \/ PrepareRow(c) \/ AppendRow(c)
           \/ ReadForRetire(c) \/ UpdateStatus(c) \/ VerifyRetirement(c) \/ ReadPublished(c)
           \/ SparkFailure(c)
  BY <1>1, <1>6
     DEF CheckId, CheckName, PrepareRow, AppendRow, ReadForRetire, UpdateStatus,
         VerifyRetirement, ReadPublished, SparkFailure, Return, Goto, Raise, CreateSteps
<1>7. CASE DropTable(c) \/ CreateTable(c)
  <2>1. pc[c] \in CreateSteps /\ request' = request
    BY <1>7 DEF DropTable, CreateTable, CreateSteps
  <2>2. pc'[c] # "load_read"
    BY <1>1, <1>7 DEF DropTable, CreateTable, Return, Goto, Raise
  <2>. QED BY <2>1, <2>2 DEF CallInv, OpFits
<1>. QED BY <1>3, <1>4, <1>5, <1>6, <1>7 DEF StepOf, Begin, Step

LEMMA StepStamped ==
  ASSUME TypeOK, CallInv, NEW c \in Calls, StepOf(c)
  PROVE  Stamped'
<1>1. /\ pc \in [Calls -> Label] /\ stamp \in [Calls -> Nat] /\ clock \in Nat \ {0}
      /\ \A d \in Calls \ {c} : pc'[d] = pc[d] /\ stamp'[d] = stamp[d]
  BY StepIsLocal DEF TypeOK, CallTypes
<1>2. SUFFICES pc'[c] \in RetireSteps \cup {"append"} => stamp'[c] # 0
  BY <1>1 DEF CallInv, Stamped
<1>3. CASE BeginRetire(c) \/ PrepareRow(c)
  BY <1>1, <1>3
     DEF BeginRetire, PrepareRow, TakeStamp, Goto, Raise, RetireSteps
<1>4. CASE BeginPublish(c) \/ BeginLoad(c) \/ BeginCreate(c)
  BY <1>1, <1>4 DEF BeginPublish, BeginLoad, BeginCreate, Goto, Raise, RetireSteps
<1>5. CASE ReadForRetire(c) \/ UpdateStatus(c)
  BY <1>1, <1>5 DEF ReadForRetire, UpdateStatus, Goto, Raise, RetireSteps, CallInv, Stamped
<1>6. CASE \/ CheckId(c) \/ CheckName(c) \/ AppendRow(c) \/ VerifyRetirement(c)
           \/ ReadPublished(c) \/ SparkFailure(c)
  BY <1>1, <1>6
     DEF CheckId, CheckName, AppendRow, VerifyRetirement, ReadPublished, SparkFailure, Return,
         Goto, Raise, RetireSteps
<1>7. CASE DropTable(c) \/ CreateTable(c)
  BY <1>1, <1>7 DEF DropTable, CreateTable, Return, Goto, Raise, RetireSteps
<1>. QED BY <1>3, <1>4, <1>5, <1>6, <1>7 DEF StepOf, Begin, Step

LEMMA StepCalls == TypeOK /\ CallInv /\ [Next]_vars => CallInv'
<1> SUFFICES ASSUME TypeOK, CallInv, [Next]_vars PROVE CallInv'
  OBVIOUS
<1>1. ASSUME NEW c \in Calls, StepOf(c) PROVE CallInv'
  <2>1. /\ pc \in [Calls -> Label] /\ result \in [Calls -> Row \cup {NoRow}]
        /\ within \in [Calls -> Nat] /\ incarnation \in Nat /\ exists \in [Tables -> BOOLEAN]
    BY DEF TypeOK, TableTypes, CallTypes, ReplyTypes
  <2>2. RepliesLater'
    <3>1. pc[c] # "returned"
      BY <1>1, StepIsLocal DEF Running, PublishSteps, RetireSteps, CreateSteps
    <3>. QED BY <1>1, <2>1, <3>1, StepIsLocal, RepliesOnReturn DEF CallInv, RepliesLater, replyVars
  <2>3. WithinPast'
    <3>1. incarnation' \in {incarnation, incarnation + 1}
      BY <1>1, TableSteps DEF AppendRow, UpdateStatus
    <3>2. within'[c] \in {within[c], incarnation}
      BY <1>1, <2>1, RepliesOnReturn
         DEF AppendRow, VerifyRetirement, ReadPublished, CreateTable, Return, replyVars
    <3>. QED BY <1>1, <2>1, <3>1, <3>2, StepIsLocal DEF CallInv, WithinPast
  <2>4. AbsentIsEmpty'
    <3>1. CASE rows' = <<>>
      BY <3>1 DEF AbsentIsEmpty
    <3>2. CASE AppendRow(c)
      BY <2>1, <3>2 DEF AppendRow, AbsentIsEmpty, Tables
    <3>3. CASE UpdateStatus(c) /\ exists["ruleset_versions"]
      BY <3>3 DEF UpdateStatus, AbsentIsEmpty
    <3>4. CASE rows' = rows /\ rows # <<>>
      <4>1. exists["ruleset_versions"]
        BY <3>4 DEF CallInv, AbsentIsEmpty
      <4>2. exists'["ruleset_versions"]
        <5>1. CASE DropTable(c)
          BY <2>1, <3>4, <4>1, <5>1 DEF DropTable, Tables, TableAt
        <5>2. CASE ~DropTable(c)
          <6>1. CASE Begin(c) \/ SparkFailure(c)
            BY <4>1, <6>1
               DEF Begin, BeginPublish, BeginRetire, BeginLoad, BeginCreate, SparkFailure, tableVars
          <6>2. CASE CreateTable(c)
            BY <2>1, <4>1, <6>2 DEF CreateTable, Tables, TableAt
          <6>. QED
            BY <1>1, <2>1, <4>1, <5>2, <6>1, <6>2
               DEF StepOf, Step, CheckId, CheckName, PrepareRow, AppendRow, ReadForRetire,
                   UpdateStatus, VerifyRetirement, ReadPublished, tableVars, Tables
        <5>. QED BY <5>1, <5>2
      <4>. QED BY <4>2 DEF AbsentIsEmpty
    <3>. QED BY <1>1, <3>1, <3>2, <3>3, <3>4, TableSteps
  <2>. QED BY <1>1, <2>2, <2>3, <2>4, StepOpFits, StepStamped DEF CallInv
<1>2. CASE UNCHANGED vars
  BY <1>2 DEF vars, CallInv, OpFits, RepliesLater, Stamped, WithinPast, AbsentIsEmpty
<1>. QED BY <1>1, <1>2 DEF Next, StepOf

(* Which step a call returned by follows from what it was asked.           *)
LEMMA ReturnedBy ==
  ASSUME TypeOK, CallInv, NEW c \in Calls, StepOf(c), pc'[c] = "returned"
  PROVE  /\ request' = request /\ stamp' = stamp
         /\ request[c].op = "publish" => AppendRow(c)
         /\ request[c].op = "retire" => VerifyRetirement(c)
         /\ request[c].op = "load" => ReadPublished(c)
<1>1. AppendRow(c) \/ VerifyRetirement(c) \/ ReadPublished(c) \/ CreateTable(c)
  BY RepliesOnReturn
<1>2. request' = request /\ stamp' = stamp
  BY <1>1 DEF AppendRow, VerifyRetirement, ReadPublished, CreateTable
<1>3. /\ AppendRow(c) => request[c].op = "publish"
      /\ VerifyRetirement(c) => request[c].op = "retire"
      /\ ReadPublished(c) => request[c].op = "load"
      /\ CreateTable(c) => request[c].op = "create"
  BY DEF TypeOK, RequestFits, CallInv, OpFits, AppendRow, VerifyRetirement, ReadPublished,
         CreateTable, PublishSteps, RetireSteps, CreateSteps, PublishRequest, RetireRequest,
         LoadRequest, CreateRequest
<1>. QED BY <1>1, <1>2, <1>3

(* A row stays where it is until the table is dropped; a step changes it   *)
(* only by retiring it while it is published.                              *)
LEMMA RowKept ==
  ASSUME TypeOK, NEW c \in Calls, StepOf(c), incarnation' = incarnation, NEW i \in DOMAIN rows
  PROVE  /\ i \in DOMAIN rows' /\ rows[i] \in Row
         /\ \/ rows'[i] = rows[i]
            \/ /\ UpdateStatus(c) /\ i \in Updated(c) /\ rows[i].status = "published"
               /\ rows'[i] = RetiredBy(c, rows[i])
<1>1. /\ rows \in Seq(Row) /\ incarnation \in Nat /\ Len(rows) \in Nat
      /\ DOMAIN rows = 1..Len(rows) /\ rows[i] \in Row
  BY LenProperties, ElementOfSeq DEF TypeOK, TableTypes
<1>2. CASE rows' = rows
  BY <1>1, <1>2
<1>3. CASE AppendRow(c)
  <2>1. rows' = Append(rows, NewRow(c)) /\ NewRow(c) \in Row
    BY <1>3, NewRowType DEF AppendRow
  <2>. QED BY <1>1, <2>1, AppendProperties, LenProperties
<1>4. CASE UpdateStatus(c) /\ exists["ruleset_versions"]
  <2>1. rows' = [j \in DOMAIN rows |->
                   IF j \in Updated(c) THEN RetiredBy(c, rows[j]) ELSE rows[j]]
    BY <1>4 DEF UpdateStatus
  <2>. QED BY <1>1, <1>4, <2>1 DEF Updated
<1>. QED BY <1>1, <1>2, <1>3, <1>4, TableSteps

(* A row as it was before any retirement.                                  *)
AsPublished(row) ==
  [row EXCEPT !.status = "published", !.retired_by = Nobody, !.retired_at = NeverAt]

(* A retirement leaves alone what identifies a row and its payload.        *)
LEMMA RetiredKeeps ==
  ASSUME NEW c \in Calls, NEW row \in Row
  PROVE  /\ SameIds(RetiredBy(c, row), row)
         /\ RetiredBy(c, row).payload = row.payload /\ RetiredBy(c, row).status = "retired"
         /\ AsPublished(RetiredBy(c, row)) = AsPublished(row)
BY DEF RetiredBy, Row, SameIds, AsPublished

LEMMA DurableStep ==
  ASSUME TypeOK, CallInv, AcknowledgedPublishDurable, [Next]_vars
  PROVE  AcknowledgedPublishDurable'
<1>1. ASSUME NEW c \in Calls, StepOf(c) PROVE AcknowledgedPublishDurable'
  <2> SUFFICES ASSUME NEW d \in Calls, Returned(d, "publish")', InCurrentTable(d)'
               PROVE  \E i \in DOMAIN rows' :
                        result'[d] = AsPublished(rows'[i])
    BY DEF AcknowledgedPublishDurable, AsPublished
  <2>1. CASE d = c
    <3>1. AppendRow(c)
      BY <1>1, <2>1, ReturnedBy DEF Returned
    <3>2. /\ rows' = Append(rows, NewRow(c)) /\ NewRow(c) \in Row /\ rows \in Seq(Row)
          /\ pc[c] = "append"
      BY <3>1, NewRowType DEF AppendRow, TypeOK, TableTypes
    <3>3. result'[c] = NewRow(c)
      <4>1. Return(c, NewRow(c))
        BY <2>1, <3>1, <3>2 DEF AppendRow, Raise, Goto, Returned, TypeOK, CallTypes
      <4>. QED BY <4>1 DEF Return, TypeOK, ReplyTypes
    <3>4. Len(rows) + 1 \in DOMAIN rows' /\ rows'[Len(rows) + 1] = NewRow(c)
      BY <3>2, AppendProperties, LenProperties
    <3>5. NewRow(c) = AsPublished(NewRow(c))
      <4>1. /\ NewRow(c).status = "published" /\ NewRow(c).retired_by = Nobody
            /\ NewRow(c).retired_at = NeverAt
        BY DEF NewRow
      <4>. QED BY <3>2, <4>1 DEF AsPublished, Row
    <3>. QED BY <2>1, <3>3, <3>4, <3>5
  <2>2. CASE d # c
    <3>1. Returned(d, "publish") /\ within'[d] = within[d] /\ result'[d] = result[d]
      BY <1>1, <2>2, StepIsLocal DEF Returned
    <3>2. incarnation' = incarnation
      <4>1. within[d] <= incarnation /\ incarnation \in Nat
        BY DEF CallInv, WithinPast, TypeOK, TableTypes
      <4>. QED BY <1>1, <3>1, <4>1, TableSteps DEF InCurrentTable, AppendRow, UpdateStatus
    <3>3. PICK i \in DOMAIN rows :
            result[d] = AsPublished(rows[i])
      BY <3>1, <3>2 DEF AcknowledgedPublishDurable, InCurrentTable, AsPublished
    <3>4. i \in DOMAIN rows' /\ AsPublished(rows'[i]) = AsPublished(rows[i])
      BY <1>1, <3>2, RowKept, RetiredKeeps
    <3>. QED BY <3>1, <3>3, <3>4
  <2>. QED BY <2>1, <2>2
<1>2. CASE UNCHANGED vars
  BY <1>2 DEF vars, AcknowledgedPublishDurable, Returned, InCurrentTable
<1>. QED BY <1>1, <1>2 DEF Next, StepOf

(* What save_published returned as stored is in the table, with its        *)
(* publication audit, until the table is dropped: neither racing           *)
(* publishers nor retirements nor lost replies take it away.               *)
THEOREM PublishesDurable == Spec => []AcknowledgedPublishDurable
<1>1. Init => AcknowledgedPublishDurable
  BY DEF Init, AcknowledgedPublishDurable, Returned
<1>2. Init => CallInv
  BY InitCalls
<1>. QED BY <1>1, <1>2, StepCalls, DurableStep, TypeCorrect, PTL DEF Spec

(***************************************************************************)
(* Retirements.                                                            *)
(***************************************************************************)

(* A reported retirement stays visible: the row that was verified is still *)
(* there, unchanged.                                                       *)
RetirementShown ==
  \A c \in Calls : Returned(c, "retire") /\ InCurrentTable(c) =>
    \E i \in DOMAIN rows :
      /\ rows[i] = result[c] /\ rows[i] = RetiredBy(c, rows[i])
      /\ IdTakenBy(rows[i], request[c])

(* What verifying established: the only row of the id is the one returned. *)
LEMMA Verified ==
  ASSUME TypeOK, CallInv, NEW c \in Calls, VerifyRetirement(c), pc'[c] = "returned"
  PROVE  \E i \in DOMAIN rows :
           /\ RetireTargets(c) = {i} /\ IdTakenBy(rows[i], request[c])
           /\ rows[i] = RetiredBy(c, rows[i])
           /\ result'[c] = rows[i] /\ within'[c] = incarnation
           /\ UNCHANGED <<rows, incarnation, request, stamp>>
<1>1. PICK i \in RetireTargets(c) : /\ RetireTargets(c) = {i}
                                    /\ rows[i] = RetiredBy(c, rows[i])
                                    /\ Return(c, rows[i])
  BY DEF VerifyRetirement, Raise, Goto, TypeOK, CallTypes
<1>2. result'[c] = rows[i] /\ within'[c] = incarnation
  BY <1>1 DEF Return, TypeOK, ReplyTypes
<1>3. UNCHANGED <<rows, incarnation, request, stamp>>
  BY DEF VerifyRetirement, tableVars
<1>. QED BY <1>1, <1>2, <1>3 DEF RetireTargets, RowsWithId, IdTakenBy

LEMMA ShownStep ==
  ASSUME TypeOK, CallInv, RetirementShown, [Next]_vars
  PROVE  RetirementShown'
<1>1. ASSUME NEW c \in Calls, StepOf(c) PROVE RetirementShown'
  <2> SUFFICES ASSUME NEW d \in Calls, Returned(d, "retire")', InCurrentTable(d)'
               PROVE  \E i \in DOMAIN rows' :
                        /\ rows'[i] = result'[d] /\ rows'[i] = RetiredBy(d, rows[i])'
                        /\ IdTakenBy(rows'[i], request'[d])
    BY DEF RetirementShown
  <2>1. CASE d = c
    <3>1. VerifyRetirement(c) /\ request' = request
      BY <1>1, <2>1, ReturnedBy DEF Returned
    <3>. QED BY <2>1, <3>1, Verified DEF Returned, RetiredBy
  <2>2. CASE d # c
    <3>1. /\ Returned(d, "retire") /\ within'[d] = within[d] /\ result'[d] = result[d]
          /\ request'[d] = request[d] /\ stamp'[d] = stamp[d]
      BY <1>1, <2>2, StepIsLocal DEF Returned
    <3>2. incarnation' = incarnation
      <4>1. within[d] <= incarnation /\ incarnation \in Nat
        BY DEF CallInv, WithinPast, TypeOK, TableTypes
      <4>. QED BY <1>1, <3>1, <4>1, TableSteps DEF InCurrentTable, AppendRow, UpdateStatus
    <3>3. PICK i \in DOMAIN rows : /\ rows[i] = result[d] /\ rows[i] = RetiredBy(d, rows[i])
                                   /\ IdTakenBy(rows[i], request[d])
      BY <3>1, <3>2 DEF RetirementShown, InCurrentTable
    <3>4. rows[i].status # "published"
      <4>1. rows[i] \in Row
        BY <1>1, <3>2, RowKept
      <4>. QED BY <3>3, <4>1, RetiredKeeps
    <3>5. i \in DOMAIN rows' /\ rows'[i] = rows[i]
      BY <1>1, <3>2, <3>4, RowKept
    <3>. QED BY <3>1, <3>3, <3>5 DEF RetiredBy
  <2>. QED BY <2>1, <2>2
<1>2. CASE UNCHANGED vars
  BY <1>2 DEF vars, RetirementShown, Returned, InCurrentTable, RetiredBy
<1>. QED BY <1>1, <1>2 DEF Next, StepOf

LEMMA OnceStep ==
  ASSUME TypeOK, CallInv, RetirementShown, RetireReportsOnce, [Next]_vars
  PROVE  RetireReportsOnce'
<1>1. ASSUME NEW c \in Calls, StepOf(c) PROVE RetireReportsOnce'
  <2>1. pc[c] # "returned"
    BY <1>1, StepIsLocal DEF Running, PublishSteps, RetireSteps, CreateSteps
  <2>2. ASSUME NEW d \in Calls, d # c, Returned(c, "retire")', Returned(d, "retire")',
               within'[c] = within'[d],
               request'[c].ruleset_id = request'[d].ruleset_id,
               request'[c].version = request'[d].version
        PROVE  /\ stamp'[c] = stamp'[d]
               /\ ActorOrSystem(request'[c].actor) = ActorOrSystem(request'[d].actor)
    <3>1. VerifyRetirement(c)
      BY <1>1, <2>2, ReturnedBy DEF Returned
    <3>2. PICK i \in DOMAIN rows :
            /\ RetireTargets(c) = {i} /\ rows[i] = RetiredBy(c, rows[i])
            /\ IdTakenBy(rows[i], request[c])
            /\ within'[c] = incarnation
            /\ UNCHANGED <<rows, incarnation, request, stamp>>
      BY <2>2, <3>1, Verified DEF Returned
    <3>3. Returned(d, "retire") /\ within'[d] = within[d]
      BY <1>1, <2>2, StepIsLocal DEF Returned
    <3>4. PICK j \in DOMAIN rows : rows[j] = RetiredBy(d, rows[j]) /\ IdTakenBy(rows[j], request[d])
      BY <2>2, <3>2, <3>3 DEF RetirementShown, InCurrentTable
    <3>5. i \in RetireTargets(c) /\ rows[i] \in Row
      BY <3>2, RowKept, <1>1
    <3>6. j = i
      BY <2>2, <3>2, <3>4, <3>5 DEF RetireTargets, RowsWithId, IdTakenBy
    <3>7. /\ rows[i].retired_at = stamp[c] /\ rows[i].retired_at = stamp[d]
          /\ rows[i].retired_by = ActorOrSystem(request[c].actor)
          /\ rows[i].retired_by = ActorOrSystem(request[d].actor)
      BY <3>2, <3>4, <3>5, <3>6 DEF RetiredBy, Row
    <3>. QED BY <3>2, <3>7
  <2>3. \A d, e \in Calls \ {c} : pc'[d] = pc[d] /\ request'[d] = request[d]
                                  /\ within'[d] = within[d] /\ stamp'[d] = stamp[d]
    BY <1>1, StepIsLocal
  <2>. QED BY <2>2, <2>3 DEF RetireReportsOnce, Returned
<1>2. CASE UNCHANGED vars
  BY <1>2 DEF vars, RetireReportsOnce, Returned
<1>. QED BY <1>1, <1>2 DEF Next, StepOf

(* Of racing retirements of one id and version only one audit is ever      *)
(* reported as done, even with unserialized publishers: retire_ruleset     *)
(* requires exactly one row when it verifies, and a retired row never      *)
(* changes again.                                                          *)
THEOREM RetirementsReportOnce == Spec => []RetireReportsOnce
<1>1. Init => CallInv /\ RetirementShown /\ RetireReportsOnce
  BY InitCalls DEF Init, RetirementShown, RetireReportsOnce, Returned
<1>. QED BY <1>1, StepCalls, ShownStep, OnceStep, TypeCorrect, PTL DEF Spec

(***************************************************************************)
(* Loads.                                                                  *)
(***************************************************************************)

(* What a load of one version returned is still stored under its name.     *)
LoadShown ==
  \A c \in Calls :
    Returned(c, "load") /\ InCurrentTable(c) /\ request[c].version # AnyVersion =>
      \E i \in DOMAIN rows :
        NameTakenBy(rows[i], request[c]) /\ rows[i].payload = result[c].payload

(* A load returns a published row of the name and version it asks for.     *)
LEMMA Loaded ==
  ASSUME TypeOK, CallInv, NEW c \in Calls, ReadPublished(c), pc'[c] = "returned"
  PROVE  \E i \in DOMAIN rows :
           /\ result'[c] = rows[i] /\ within'[c] = incarnation
           /\ rows[i].status = "published"
           /\ request[c].version # AnyVersion => NameTakenBy(rows[i], request[c])
           /\ UNCHANGED <<rows, incarnation, request>>
<1>1. PICK i \in Candidates(c) : Return(c, rows[i])
  BY DEF ReadPublished, Raise, Goto, TypeOK, CallTypes
<1>2. result'[c] = rows[i] /\ within'[c] = incarnation
  BY <1>1 DEF Return, TypeOK, ReplyTypes
<1>3. UNCHANGED <<rows, incarnation, request>>
  BY DEF ReadPublished, tableVars
<1>. QED BY <1>1, <1>2, <1>3 DEF Candidates, PublishedRows, NameTakenBy

LEMMA LoadShownStep ==
  ASSUME TypeOK, CallInv, LoadShown, [Next]_vars
  PROVE  LoadShown'
<1>1. ASSUME NEW c \in Calls, StepOf(c) PROVE LoadShown'
  <2> SUFFICES ASSUME NEW d \in Calls, Returned(d, "load")', InCurrentTable(d)',
                      request'[d].version # AnyVersion
               PROVE  \E i \in DOMAIN rows' : /\ NameTakenBy(rows'[i], request'[d])
                                              /\ rows'[i].payload = result'[d].payload
    BY DEF LoadShown
  <2>1. CASE d = c
    <3>1. ReadPublished(c) /\ request' = request
      BY <1>1, <2>1, ReturnedBy DEF Returned
    <3>. QED BY <2>1, <3>1, Loaded DEF Returned
  <2>2. CASE d # c
    <3>1. /\ Returned(d, "load") /\ within'[d] = within[d] /\ result'[d] = result[d]
          /\ request'[d] = request[d]
      BY <1>1, <2>2, StepIsLocal DEF Returned
    <3>2. incarnation' = incarnation
      <4>1. within[d] <= incarnation /\ incarnation \in Nat
        BY DEF CallInv, WithinPast, TypeOK, TableTypes
      <4>. QED BY <1>1, <3>1, <4>1, TableSteps DEF InCurrentTable, AppendRow, UpdateStatus
    <3>3. PICK i \in DOMAIN rows : /\ NameTakenBy(rows[i], request[d])
                                   /\ rows[i].payload = result[d].payload
      BY <3>1, <3>2 DEF LoadShown, InCurrentTable
    <3>4. /\ i \in DOMAIN rows' /\ SameIds(rows'[i], rows[i])
          /\ rows'[i].payload = rows[i].payload
      BY <1>1, <3>2, RowKept, RetiredKeeps DEF SameIds
    <3>. QED BY <3>1, <3>3, <3>4 DEF NameTakenBy, SameIds
  <2>. QED BY <2>1, <2>2
<1>2. CASE UNCHANGED vars
  BY <1>2 DEF vars, LoadShown, Returned, InCurrentTable
<1>. QED BY <1>1, <1>2 DEF Next, StepOf

LEMMA RepeatableStep ==
  ASSUME TypeOK, CallInv, UniqueIdentities, LoadShown, LoadsRepeatable, [Next]_vars
  PROVE  LoadsRepeatable'
<1>1. ASSUME NEW c \in Calls, StepOf(c) PROVE LoadsRepeatable'
  <2>1. pc[c] # "returned"
    BY <1>1, StepIsLocal DEF Running, PublishSteps, RetireSteps, CreateSteps
  <2>2. ASSUME NEW d \in Calls, d # c, Returned(c, "load")', Returned(d, "load")',
               within'[c] = within'[d], request'[c] = request'[d],
               request'[c].version # AnyVersion
        PROVE  result'[c].payload = result'[d].payload
    <3>1. ReadPublished(c)
      BY <1>1, <2>2, ReturnedBy DEF Returned
    <3>2. PICK i \in DOMAIN rows :
            /\ result'[c] = rows[i] /\ within'[c] = incarnation
            /\ request[c].version # AnyVersion => NameTakenBy(rows[i], request[c])
            /\ UNCHANGED <<rows, incarnation, request>>
      BY <2>2, <3>1, Loaded DEF Returned
    <3>3. Returned(d, "load") /\ within'[d] = within[d] /\ result'[d] = result[d]
      BY <1>1, <2>2, StepIsLocal DEF Returned
    <3>4. PICK j \in DOMAIN rows : /\ NameTakenBy(rows[j], request[d])
                                   /\ rows[j].payload = result[d].payload
      BY <2>2, <3>2, <3>3 DEF LoadShown, InCurrentTable
    <3>5. j = i
      BY <2>2, <3>2, <3>4 DEF UniqueIdentities, SameIdentity, NameTakenBy
    <3>. QED BY <3>2, <3>3, <3>4, <3>5
  <2>3. \A d \in Calls \ {c} : pc'[d] = pc[d] /\ request'[d] = request[d]
                               /\ within'[d] = within[d] /\ result'[d] = result[d]
    BY <1>1, StepIsLocal
  <2>. QED BY <2>2, <2>3 DEF LoadsRepeatable, Returned
<1>2. CASE UNCHANGED vars
  BY <1>2 DEF vars, LoadsRepeatable, Returned
<1>. QED BY <1>1, <1>2 DEF Next, StepOf

(* If publishers take turns, load_published returns one payload for a name *)
(* and version for as long as the table is not dropped.                    *)
THEOREM LoadsRepeat ==
  ASSUME SerializedPublishers PROVE Spec => []LoadsRepeatable
<1>1. Init => CallInv /\ LoadShown /\ LoadsRepeatable
  BY InitCalls DEF Init, LoadShown, LoadsRepeatable, Returned
<1>. QED
  BY <1>1, StepCalls, LoadShownStep, RepeatableStep, TypeCorrect, IdentitiesUnique, PTL DEF Spec

(* The step of LoadIgnoresRetired.                                         *)
LoadIgnoresRetiredStep ==
  \A c, d \in Calls :
    /\ pc[c] = "load_read" /\ pc'[c] = "returned"
    /\ Returned(d, "retire") /\ InCurrentTable(d)
    => ~SameIdentity(result'[c], result[d])

LEMMA RetiredNotLoaded ==
  ASSUME TypeOK, CallInv, UniqueIdentities, RetirementShown, Next
  PROVE  LoadIgnoresRetiredStep
<1> SUFFICES ASSUME NEW c \in Calls, NEW d \in Calls, pc[c] = "load_read", pc'[c] = "returned",
                    Returned(d, "retire"), InCurrentTable(d)
             PROVE  ~SameIdentity(result'[c], result[d])
  BY DEF LoadIgnoresRetiredStep
<1>1. PICK b \in Calls : StepOf(b)
  BY DEF Next, StepOf
<1>2. StepOf(c)
  BY <1>1, StepIsLocal
<1>3. ReadPublished(c)
  BY <1>2, RepliesOnReturn DEF AppendRow, VerifyRetirement, CreateTable
<1>4. PICK i \in DOMAIN rows : result'[c] = rows[i] /\ rows[i].status = "published"
  BY <1>3, Loaded
<1>5. PICK j \in DOMAIN rows : rows[j] = result[d] /\ rows[j] = RetiredBy(d, rows[j])
  BY DEF RetirementShown
<1>6. rows[j].status = "retired"
  <2>1. rows[j] \in Row
    BY ElementOfSeq, LenProperties DEF TypeOK, TableTypes
  <2>. QED BY <1>5, <2>1, RetiredKeeps
<1>. QED BY <1>4, <1>5, <1>6 DEF UniqueIdentities

(* If publishers take turns, load_published never returns an identity once *)
(* retire_ruleset reported it retired: the retired row still holds it.     *)
THEOREM LoadsIgnoreRetired ==
  ASSUME SerializedPublishers PROVE Spec => LoadIgnoresRetired
<1>1. Init => CallInv /\ RetirementShown
  BY InitCalls DEF Init, RetirementShown, Returned
<1>2. TypeOK /\ CallInv /\ UniqueIdentities /\ RetirementShown /\ [Next]_vars
        => [LoadIgnoresRetiredStep]_vars
  BY RetiredNotLoaded
<1>3. Spec => [][LoadIgnoresRetiredStep]_vars
  BY <1>1, <1>2, StepCalls, ShownStep, TypeCorrect, IdentitiesUnique, PTL DEF Spec
<1>. QED BY <1>3 DEF LoadIgnoresRetired, LoadIgnoresRetiredStep

(***************************************************************************)
(* Stored rows.                                                            *)
(***************************************************************************)
(* The step of RowsImmutable.                                              *)
RowsImmutableStep ==
  incarnation' = incarnation =>
    \A i \in DOMAIN rows :
      /\ i \in DOMAIN rows'
      /\ rows'[i] # rows[i] =>
           /\ rows[i].status = "published"
           /\ rows'[i].retired_by # Nobody /\ rows'[i].retired_at # NeverAt
           /\ rows'[i] = [rows[i] EXCEPT !.status = "retired",
                                         !.retired_by = rows'[i].retired_by,
                                         !.retired_at = rows'[i].retired_at]

LEMMA OnlyRetired ==
  ASSUME TypeOK, CallInv, Next
  PROVE  RowsImmutableStep
<1> SUFFICES ASSUME incarnation' = incarnation, NEW i \in DOMAIN rows
             PROVE  /\ i \in DOMAIN rows'
                    /\ rows'[i] # rows[i] =>
                         /\ rows[i].status = "published"
                         /\ rows'[i].retired_by # Nobody /\ rows'[i].retired_at # NeverAt
                         /\ rows'[i] = [rows[i] EXCEPT !.status = "retired",
                                                       !.retired_by = rows'[i].retired_by,
                                                       !.retired_at = rows'[i].retired_at]
  BY DEF RowsImmutableStep
<1>1. PICK c \in Calls : StepOf(c)
  BY DEF Next, StepOf
<1>2. i \in DOMAIN rows' /\ rows[i] \in Row
  BY <1>1, RowKept
<1>3. CASE rows'[i] = rows[i]
  BY <1>2, <1>3
<1>4. CASE UpdateStatus(c) /\ rows[i].status = "published" /\ rows'[i] = RetiredBy(c, rows[i])
  <2>1. stamp[c] # 0 /\ ActorOrSystem(request[c].actor) \in Actors
    BY <1>4, RepositoryAssumption
       DEF UpdateStatus, CallInv, Stamped, TypeOK, RequestFits, RetireSteps, RetireRequest,
           ActorOrSystem
  <2>2. /\ RetiredBy(c, rows[i]).retired_by = ActorOrSystem(request[c].actor)
        /\ RetiredBy(c, rows[i]).retired_at = stamp[c]
    BY <1>2 DEF RetiredBy, Row
  <2>. QED BY <1>2, <1>4, <2>1, <2>2, RepositoryAssumption DEF RetiredBy, NeverAt
<1>. QED BY <1>1, <1>3, <1>4, RowKept

(* Whatever races, the only change a stored row ever sees is the UPDATE of *)
(* retire_ruleset, once, with a non-NULL retirement audit.                 *)
THEOREM RowsStayImmutable == Spec => RowsImmutable
<1>1. TypeOK /\ CallInv /\ [Next]_vars => [RowsImmutableStep]_rows
  BY OnlyRetired DEF vars
<1>2. Spec => [][RowsImmutableStep]_rows
  BY <1>1, InitCalls, StepCalls, TypeCorrect, PTL DEF Spec
<1>. QED BY <1>2 DEF RowsImmutable, RowsImmutableStep

(* The step of RetireTouchesOneRow.                                        *)
RetireTouchesOneRowStep ==
  incarnation' = incarnation => Cardinality({i \in DOMAIN rows : rows'[i] # rows[i]}) <= 1

LEMMA OneUpdated ==
  ASSUME UniqueIdentities, NEW c \in Calls, NEW i \in Updated(c), NEW j \in Updated(c)
  PROVE  i = j
BY DEF UniqueIdentities, SameIdentity, Updated, RetireTargets, RowsWithId

LEMMA OneTouched ==
  ASSUME TypeOK, UniqueIdentities, Next
  PROVE  RetireTouchesOneRowStep
<1> SUFFICES ASSUME incarnation' = incarnation
             PROVE  Cardinality({i \in DOMAIN rows : rows'[i] # rows[i]}) <= 1
  BY DEF RetireTouchesOneRowStep
<1> DEFINE touched == {i \in DOMAIN rows : rows'[i] # rows[i]}
<1>1. PICK c \in Calls : StepOf(c)
  BY DEF Next, StepOf
<1>2. touched \subseteq Updated(c)
  BY <1>1, RowKept
<1>3. CASE touched = {}
  BY <1>3, FS_EmptySet
<1>4. CASE touched # {}
  <2> HIDE DEF touched
  <2>1. PICK i \in touched : TRUE
    BY <1>4
  <2>2. touched = {i}
    BY <1>2, <2>1, OneUpdated
  <2>. QED BY <2>2, FS_Singleton DEF touched
<1>. QED BY <1>3, <1>4

(* If publishers take turns, the UPDATE of retire_ruleset changes at most  *)
(* one row, whatever happened since its read.                              *)
THEOREM RetirementTouchesOneRow ==
  ASSUME SerializedPublishers PROVE Spec => RetireTouchesOneRow
<1>1. TypeOK /\ UniqueIdentities /\ [Next]_vars => [RetireTouchesOneRowStep]_rows
  BY OneTouched DEF vars
<1>2. Spec => [][RetireTouchesOneRowStep]_rows
  BY <1>1, TypeCorrect, IdentitiesUnique, PTL DEF Spec
<1>. QED BY <1>2, PTL DEF RetireTouchesOneRow, RetireTouchesOneRowStep

(***************************************************************************)
(* Racing publishers.                                                      *)
(***************************************************************************)

(* However publishers race, what was stored when a publisher began is      *)
(* still stored, and its finished checks exclude those rows.               *)
BaselineStored == \A c \in Calls : baseline[c] <= Len(rows)
CheckedBaseline ==
  \A c \in Calls : \A i \in 1..baseline[c] :
    /\ pc[c] \in {"check_name", "prepare", "append"} =>
         ~IdTakenBy(rows[i], request[c].ruleset)
    /\ pc[c] \in {"prepare", "append"} => ~NameTakenBy(rows[i], request[c].ruleset)
RaceInv == BaselineStored /\ CheckedBaseline

LEMMA BaselineSteps ==
  ASSUME TypeOK, NEW c \in Calls, StepOf(c)
  PROVE  \/ baseline' = baseline /\ pc[c] # "idle" /\ request' = request
         \/ /\ baseline' = [baseline EXCEPT ![c] = Len(rows)] /\ UNCHANGED <<rows, incarnation>>
            /\ pc'[c] \notin {"check_name", "prepare", "append"}
         \/ baseline' = [d \in Calls |-> 0]
<1>1. pc \in [Calls -> Label]
  BY DEF TypeOK, CallTypes
<1>2. CASE Begin(c)
  BY <1>1, <1>2
     DEF Begin, BeginPublish, BeginRetire, BeginLoad, BeginCreate, Accept, Goto, Raise, tableVars
<1>3. CASE Step(c)
  BY <1>3
     DEF Step, CheckId, CheckName, PrepareRow, AppendRow, ReadForRetire, UpdateStatus,
         VerifyRetirement, ReadPublished, DropTable, CreateTable
<1>4. CASE SparkFailure(c)
  BY <1>4 DEF SparkFailure, Running, PublishSteps, RetireSteps, CreateSteps
<1>. QED BY <1>2, <1>3, <1>4 DEF StepOf

(* The rows stored when a call began stay, with their identities.          *)
LEMMA BaselineKept ==
  ASSUME TypeOK, CallInv, RaceInv, NEW c \in Calls, StepOf(c), baseline' = baseline,
         NEW d \in Calls
  PROVE  /\ baseline[d] <= Len(rows')
         /\ \A i \in 1..baseline[d] : i \in DOMAIN rows /\ SameIds(rows'[i], rows[i])
<1>1. /\ rows \in Seq(Row) /\ rows' \in Seq(Row) /\ baseline \in [Calls -> Nat]
      /\ Len(rows) \in Nat /\ Len(rows') \in Nat
      /\ DOMAIN rows = 1..Len(rows) /\ DOMAIN rows' = 1..Len(rows')
      /\ baseline[d] <= Len(rows)
  <2>1. TypeOK'
    BY StepType DEF Next, StepOf
  <2>. QED BY <2>1, LenProperties DEF TypeOK, TableTypes, ReplyTypes, RaceInv, BaselineStored
<1>2. CASE incarnation' = incarnation
  <2>1. \A i \in DOMAIN rows : i \in DOMAIN rows' /\ SameIds(rows'[i], rows[i])
    BY <1>2, RowKept, RetiredKeeps DEF SameIds
  <2>2. Len(rows) <= Len(rows')
    BY <1>1, <2>1
  <2>. QED BY <1>1, <2>1, <2>2
<1>3. CASE incarnation' # incarnation
  <2>1. DropTable(c) /\ TableAt(pc[c]) = "ruleset_versions"
    <3>1. ~AppendRow(c) /\ ~UpdateStatus(c)
      BY <1>3 DEF AppendRow, UpdateStatus
    <3>2. pc[c] = "drop_versions"
      BY <1>3, <3>1, TableSteps
    <3>. QED
      BY <1>3, <3>1, <3>2
         DEF StepOf, Begin, BeginPublish, BeginRetire, BeginLoad, BeginCreate, Accept, Step,
             CheckId, CheckName, PrepareRow, ReadForRetire, VerifyRetirement, ReadPublished,
             CreateTable, SparkFailure, tableVars, TableAt
  <2>2. baseline' = [e \in Calls |-> 0]
    BY <2>1 DEF DropTable
  <2>3. baseline[d] = 0
    BY <2>2
  <2>. QED BY <1>1, <2>3
<1>. QED BY <1>2, <1>3

LEMMA StepRace == TypeOK /\ CallInv /\ RaceInv /\ [Next]_vars => RaceInv'
<1> SUFFICES ASSUME TypeOK, CallInv, RaceInv, [Next]_vars PROVE RaceInv'
  OBVIOUS
<1>1. ASSUME NEW c \in Calls, StepOf(c) PROVE RaceInv'
  <2>1. /\ rows \in Seq(Row) /\ rows' \in Seq(Row) /\ baseline \in [Calls -> Nat]
        /\ Len(rows) \in Nat /\ Len(rows') \in Nat /\ DOMAIN rows = 1..Len(rows)
    <3>1. TypeOK'
      BY <1>1, StepType DEF Next, StepOf
    <3>. QED BY <3>1, LenProperties DEF TypeOK, TableTypes, ReplyTypes
  <2>2. \A d \in Calls \ {c} : pc'[d] = pc[d] /\ request'[d] = request[d]
    BY <1>1, StepIsLocal
  <2>3. CASE baseline' = [d \in Calls |-> 0]
    BY <2>1, <2>3 DEF RaceInv, BaselineStored, CheckedBaseline
  <2>4. CASE /\ baseline' = [baseline EXCEPT ![c] = Len(rows)] /\ UNCHANGED <<rows, incarnation>>
             /\ pc'[c] \notin {"check_name", "prepare", "append"}
    BY <2>1, <2>2, <2>4 DEF RaceInv, BaselineStored, CheckedBaseline
  <2>5. CASE baseline' = baseline /\ pc[c] # "idle" /\ request' = request
    <3>1. \A d \in Calls : /\ baseline[d] <= Len(rows')
                           /\ \A i \in 1..baseline[d] :
                                i \in DOMAIN rows /\ SameIds(rows'[i], rows[i])
      BY <1>1, <2>5, BaselineKept
    <3>2. BaselineStored'
      BY <2>5, <3>1 DEF BaselineStored
    <3>3. ASSUME NEW d \in Calls, NEW i \in 1..baseline[d]
          PROVE  /\ pc'[d] \in {"check_name", "prepare", "append"} =>
                      ~IdTakenBy(rows[i], request[d].ruleset)
                 /\ pc'[d] \in {"prepare", "append"} => ~NameTakenBy(rows[i], request[d].ruleset)
      <4>1. i \in DOMAIN rows /\ rows # <<>>
        BY <2>1, <3>1, EmptySeq
      <4>2. exists["ruleset_versions"]
        BY <4>1 DEF CallInv, AbsentIsEmpty
      <4>3. CASE d # c
        BY <2>2, <3>3, <4>3 DEF RaceInv, CheckedBaseline
      <4>4. CASE d = c /\ CheckId(c)
        <5>1. pc'[c] # "raised" => RowsWithId(request[c].ruleset.ruleset_id,
                                              request[c].ruleset.version) = {}
          BY <4>2, <4>4 DEF CheckId, Raise, Goto, TypeOK, CallTypes
        <5>2. pc'[c] \in {"raised", "check_name"}
          BY <4>4 DEF CheckId, Raise, Goto, TypeOK, CallTypes
        <5>. QED BY <4>1, <4>4, <5>1, <5>2 DEF RowsWithId, IdTakenBy
      <4>5. CASE d = c /\ CheckName(c)
        <5>1. pc'[c] # "raised" => RowsWithName(request[c].ruleset.ruleset_name,
                                                request[c].ruleset.version) = {}
          BY <4>2, <4>5 DEF CheckName, Raise, Goto, TypeOK, CallTypes
        <5>2. pc[c] = "check_name"
          BY <4>5 DEF CheckName
        <5>. QED BY <3>3, <4>1, <4>5, <5>1, <5>2 DEF RowsWithName, NameTakenBy, RaceInv, CheckedBaseline
      <4>6. CASE d = c /\ PrepareRow(c)
        <5>1. pc[c] = "prepare"
          BY <4>6 DEF PrepareRow
        <5>. QED BY <3>3, <4>6, <5>1 DEF RaceInv, CheckedBaseline
      <4>7. CASE d = c /\ ~CheckId(c) /\ ~CheckName(c) /\ ~PrepareRow(c)
        <5>1. pc'[c] \notin {"check_name", "prepare", "append"}
          <6>1. pc \in [Calls -> Label]
            BY DEF TypeOK, CallTypes
          <6>2. CASE Begin(c)
            BY <2>5, <6>2 DEF Begin, BeginPublish, BeginRetire, BeginLoad, BeginCreate, Accept
          <6>3. CASE Step(c)
            BY <4>7, <6>1, <6>3
               DEF Step, AppendRow, ReadForRetire, UpdateStatus, VerifyRetirement, ReadPublished,
                   DropTable, CreateTable, Return, Goto, Raise
          <6>4. CASE SparkFailure(c)
            BY <6>1, <6>4 DEF SparkFailure, Goto, Raise
          <6>. QED BY <1>1, <6>2, <6>3, <6>4 DEF StepOf
        <5>. QED BY <4>7, <5>1
      <4>. QED BY <4>3, <4>4, <4>5, <4>6, <4>7
    <3>4. CheckedBaseline'
      BY <2>5, <3>1, <3>3 DEF CheckedBaseline, SameIds, IdTakenBy, NameTakenBy
    <3>. QED BY <3>2, <3>4 DEF RaceInv
  <2>. QED BY <1>1, <2>3, <2>4, <2>5, BaselineSteps
<1>2. CASE UNCHANGED vars
  BY <1>2 DEF vars, RaceInv, BaselineStored, CheckedBaseline
<1>. QED BY <1>1, <1>2 DEF Next, StepOf

(* The step of OnlyRacersDuplicate.                                        *)
OnlyRacersDuplicateStep ==
  \A c \in Calls :
    pc[c] = "append" /\ Len(rows') > Len(rows) /\ pc'[c] # pc[c] =>
      \A i \in 1..baseline[c] : ~SameIdentity(rows[i], rows'[Len(rows')])

LEMMA OldRowsNotDuplicated ==
  ASSUME TypeOK, RaceInv, Next
  PROVE  OnlyRacersDuplicateStep
<1> SUFFICES ASSUME NEW c \in Calls, pc[c] = "append", Len(rows') > Len(rows), pc'[c] # pc[c],
                    NEW i \in 1..baseline[c]
             PROVE  ~SameIdentity(rows[i], rows'[Len(rows')])
  BY DEF OnlyRacersDuplicateStep
<1>1. StepOf(c)
  <2>1. PICK b \in Calls : StepOf(b)
    BY DEF Next, StepOf
  <2>. QED BY <2>1, StepIsLocal
<1>2. AppendRow(c)
  <2>1. rows' # rows
    BY LenProperties DEF TypeOK, TableTypes
  <2>. QED BY <1>1, <2>1, TableSteps DEF UpdateStatus
<1>3. rows' = Append(rows, NewRow(c)) /\ NewRow(c) \in Row /\ rows \in Seq(Row)
  BY <1>2, NewRowType DEF AppendRow, TypeOK, TableTypes
<1>4. rows'[Len(rows')] = NewRow(c)
  BY <1>3, AppendProperties, LenProperties
<1>5. ~IdTakenBy(rows[i], request[c].ruleset) /\ ~NameTakenBy(rows[i], request[c].ruleset)
  BY DEF RaceInv, CheckedBaseline
<1>. QED BY <1>4, <1>5 DEF NewRow, SameIdentity, IdTakenBy, NameTakenBy

(* However publishers race, save_published never duplicates an identity of *)
(* a row that was stored when it began: its two checks exclude them, and   *)
(* nothing but dropping the table takes them away.                         *)
THEOREM RacersOnlyDuplicate == Spec => OnlyRacersDuplicate
<1>1. Init => CallInv /\ RaceInv
  BY InitCalls, EmptySeq DEF Init, RaceInv, BaselineStored, CheckedBaseline
<1>2. TypeOK /\ RaceInv /\ [Next]_vars => [OnlyRacersDuplicateStep]_vars
  BY OldRowsNotDuplicated
<1>3. Spec => [][OnlyRacersDuplicateStep]_vars
  BY <1>1, <1>2, StepCalls, StepRace, TypeCorrect, PTL DEF Spec
<1>. QED BY <1>3, PTL DEF OnlyRacersDuplicate, OnlyRacersDuplicateStep

(***************************************************************************)
(* The repository implements the catalog.                                  *)
(***************************************************************************)
(* What the catalog shows of the table: the refinement mapping.            *)
Stored == {rows[i] : i \in DOMAIN rows}

LEMMA CatalogStarts == Init => Catalog!CatalogInit
<1> SUFFICES ASSUME Init PROVE Catalog!CatalogInit
  OBVIOUS
<1>1. DOMAIN rows = {}
  BY DEF Init
<1>. QED BY <1>1 DEF Init, Catalog!CatalogInit

(* Appending publishes an entry of fresh identity, acknowledged or not.    *)
LEMMA PublishRefines ==
  ASSUME TypeOK, CallInv, PublicationInv, NEW c \in Calls, AppendRow(c)
  PROVE  \E e : e \in Stored' /\ Catalog!PublishEntry(c, e)
<1>1. /\ rows' = Append(rows, NewRow(c)) /\ NewRow(c) \in Row /\ rows \in Seq(Row)
      /\ result \in [Calls -> Row \cup {NoRow}] /\ pc \in [Calls -> Label]
      /\ pc[c] = "append"
  BY NewRowType DEF AppendRow, TypeOK, TableTypes, CallTypes, ReplyTypes
<1>2. /\ Len(rows) \in Nat /\ DOMAIN rows = 1..Len(rows)
      /\ DOMAIN rows' = 1..(Len(rows) + 1)
      /\ \A i \in DOMAIN rows : rows'[i] = rows[i]
      /\ rows'[Len(rows) + 1] = NewRow(c)
  BY <1>1, AppendProperties, LenProperties
<1>3. Stored' = Stored \cup {NewRow(c)}
  BY <1>2 DEF Stored
<1>4. result[c] = NoRow
  BY <1>1 DEF CallInv, RepliesLater
<1>5. result' = [result EXCEPT ![c] = NewRow(c)] \/ result' = result
  BY DEF AppendRow, Return, replyVars
<1>6. NewRow(c).status = "published"
  BY DEF NewRow
<1>7. \A f \in Stored : ~Catalog!SameIdentity(NewRow(c), f)
  BY <1>1 DEF Stored, PublicationInv, CheckedId, CheckedName, IdTakenBy, NameTakenBy, NewRow,
              Catalog!SameIdentity
<1>8. PICK e : e = NewRow(c)
  OBVIOUS
<1>9. Catalog!PublishEntry(c, e)
  BY <1>3, <1>4, <1>5, <1>6, <1>7, <1>8
     DEF Stored, Catalog!PublishEntry, Catalog!Unacknowledged, Catalog!Acknowledge
<1>. QED BY <1>3, <1>8, <1>9

(* Updating retires one entry, or changes nothing when the row it read has *)
(* lost its status since.                                                  *)
LEMMA RetireRefines ==
  ASSUME TypeOK, CallInv, PublicationInv, NEW c \in Calls, UpdateStatus(c),
         exists["ruleset_versions"]
  PROVE  \/ \E e, f : /\ e \in Stored /\ f \in Stored'
                     /\ Catalog!RetireEntry(e, f.retired_by, f.retired_at)
         \/ UNCHANGED <<Stored, result>>
<1>1. /\ rows' = [i \in DOMAIN rows |->
                    IF i \in Updated(c) THEN RetiredBy(c, rows[i]) ELSE rows[i]]
      /\ result' = result
  BY DEF UpdateStatus, replyVars
<1>2. \A i \in DOMAIN rows : rows[i] \in Row
  BY ElementOfSeq, LenProperties DEF TypeOK, TableTypes
<1>3. CASE Updated(c) = {}
  BY <1>1, <1>3 DEF Stored
<1>4. ASSUME NEW i \in Updated(c)
      PROVE  \E e, f : /\ e \in Stored /\ f \in Stored'
                       /\ Catalog!RetireEntry(e, f.retired_by, f.retired_at)
  <2>1. /\ i \in DOMAIN rows /\ rows[i].status = "published"
        /\ DOMAIN rows' = DOMAIN rows /\ rows'[i] = RetiredBy(c, rows[i])
    BY <1>1, <1>4 DEF Updated, RetireTargets, RowsWithId
  <2>2. PICK e, f : e = rows[i] /\ f = rows'[i]
    OBVIOUS
  <2>3. \A j \in DOMAIN rows \ {i} : j \notin Updated(c) /\ rows'[j] = rows[j] /\ rows[j] # e
    BY <1>1, <1>4, <2>1, <2>2, OneUpdated DEF PublicationInv, UniqueIdentities, SameIdentity
  <2>4. Stored' = (Stored \ {e}) \cup {f} /\ e \in Stored
    BY <2>1, <2>2, <2>3 DEF Stored
  <2>5. f = [e EXCEPT !.status = "retired", !.retired_by = f.retired_by,
                      !.retired_at = f.retired_at]
    BY <1>2, <2>1, <2>2 DEF RetiredBy, Row
  <2>6. Catalog!RetireEntry(e, f.retired_by, f.retired_at)
    BY <1>1, <2>1, <2>2, <2>4, <2>5 DEF Stored, Catalog!RetireEntry
  <2>. QED BY <2>4, <2>6
<1>. QED BY <1>3, <1>4

(* Verifying confirms a retirement the catalog shows.                      *)
LEMMA VerifyRefines ==
  ASSUME TypeOK, CallInv, NEW c \in Calls, VerifyRetirement(c), pc'[c] = "returned"
  PROVE  \E e \in Stored : Catalog!ConfirmRetirement(c, e)
<1>1. PICK i \in RetireTargets(c) : rows[i] = RetiredBy(c, rows[i]) /\ Return(c, rows[i])
  BY DEF VerifyRetirement, Raise, Goto, TypeOK, CallTypes
<1>2. i \in DOMAIN rows /\ rows[i] \in Row
  BY ElementOfSeq, LenProperties DEF TypeOK, TableTypes, RetireTargets, RowsWithId
<1>3. rows[i].status = "retired"
  BY <1>1, <1>2, RetiredKeeps
<1>4. result[c] = NoRow /\ rows' = rows
  BY DEF VerifyRetirement, tableVars, CallInv, RepliesLater
<1>. QED
  BY <1>1, <1>2, <1>3, <1>4
     DEF Stored, Return, Catalog!ConfirmRetirement, Catalog!Unacknowledged, Catalog!Acknowledge

(* Reading loads an entry without a published rival.                       *)
LEMMA LoadRefines ==
  ASSUME TypeOK, CallInv, NEW c \in Calls, ReadPublished(c), pc'[c] = "returned"
  PROVE  \E e \in Stored : Catalog!LoadEntry(c, e)
<1>1. PICK i \in Candidates(c) : Candidates(c) = {i} /\ Return(c, rows[i])
  BY DEF ReadPublished, Raise, Goto, TypeOK, CallTypes
<1>2. /\ exists["ruleset_versions"] /\ i \in DOMAIN rows /\ rows[i].status = "published"
      /\ rows[i].ruleset_name = request[c].ruleset_name
      /\ request[c].version = AnyVersion \/ rows[i].version = request[c].version
  BY <1>1 DEF Candidates, PublishedRows
<1>u. ASSUME NEW j \in DOMAIN rows, rows[j].status = "published",
             rows[j].ruleset_name = rows[i].ruleset_name, rows[j].version = rows[i].version
      PROVE  j = i
  <2>1. j \in Candidates(c)
    BY <1>2, <1>u DEF Candidates, PublishedRows
  <2>. QED BY <1>1, <2>1
<1>3. {f \in Stored : /\ f.status = "published"
                      /\ f.ruleset_name = rows[i].ruleset_name
                      /\ f.version = rows[i].version} = {rows[i]}
  BY <1>2, <1>u DEF Stored
<1>4. result[c] = NoRow /\ rows' = rows
  BY DEF ReadPublished, tableVars, CallInv, RepliesLater
<1>. QED
  BY <1>1, <1>2, <1>3, <1>4
     DEF Stored, Return, Catalog!LoadEntry, Catalog!Unacknowledged, Catalog!Acknowledge

(* Every step of the repository is a step of the catalog or invisible.     *)
LEMMA StepRefines ==
  ASSUME TypeOK, CallInv, PublicationInv, [Next]_vars
  PROVE  [Catalog!CatalogNext]_(Catalog!catalogVars)
<1>1. ASSUME NEW c \in Calls, StepOf(c)
      PROVE  Catalog!CatalogNext \/ UNCHANGED <<Stored, result>>
  <2>1. CASE AppendRow(c)
    BY <2>1, PublishRefines DEF Catalog!CatalogNext, Stored
  <2>2. CASE UpdateStatus(c) /\ exists["ruleset_versions"]
    BY <2>2, RetireRefines DEF Catalog!CatalogNext, Stored
  <2>3. CASE /\ rows' = <<>> /\ UNCHANGED result
    <3>1. DOMAIN rows' = {}
      BY <2>3
    <3>. QED BY <2>3, <3>1 DEF Catalog!CatalogNext, Catalog!ResetCatalog
  <2>4. CASE rows' = rows /\ ~AppendRow(c)
    <3>1. CASE pc'[c] = "returned" /\ VerifyRetirement(c)
      BY <3>1, VerifyRefines DEF Catalog!CatalogNext, Stored
    <3>2. CASE pc'[c] = "returned" /\ ReadPublished(c)
      BY <3>2, LoadRefines DEF Catalog!CatalogNext, Stored
    <3>3. CASE pc'[c] = "returned" /\ CreateTable(c)
      <4>1. result[c] = NoRow
        BY <3>3 DEF CreateTable, CallInv, RepliesLater
      <4>2. result' = [result EXCEPT ![c] = NoRow] \/ result' = result
        BY <3>3 DEF CreateTable, Return, replyVars
      <4>. QED BY <2>4, <4>1, <4>2 DEF Stored, TypeOK, ReplyTypes
    <3>4. CASE UNCHANGED replyVars
      BY <2>4, <3>4 DEF Stored, replyVars
    <3>. QED BY <1>1, <2>4, <3>1, <3>2, <3>3, <3>4, RepliesOnReturn
  <2>. QED BY <1>1, <2>1, <2>2, <2>3, <2>4, TableSteps DEF AppendRow
<1>2. CASE UNCHANGED vars
  BY <1>2 DEF vars, Catalog!catalogVars
<1>. QED BY <1>1, <1>2 DEF Next, StepOf, Catalog!catalogVars, Stored

(* If publishers take turns, the several Spark calls of every operation of *)
(* the repository act, for any interleaving, failure and lost reply, as    *)
(* one instant of the catalog: it implements RulesetCatalog.               *)
THEOREM RepositoryImplementsCatalog ==
  ASSUME SerializedPublishers PROVE Spec => ImplementsCatalog
<1>1. Init => CallInv /\ PublicationInv
  BY InitCalls, InitPublication
<1>2. TypeOK /\ PublicationInv /\ [Next]_vars => PublicationInv'
  BY StepPublication
<1>. QED
  BY <1>1, <1>2, CatalogStarts, StepCalls, StepRefines, TypeCorrect, PTL
     DEF Spec, ImplementsCatalog, Catalog!CatalogSpec
=============================================================================

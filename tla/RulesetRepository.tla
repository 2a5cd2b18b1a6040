------------------------- MODULE RulesetRepository -------------------------
(***************************************************************************)
(* SparkDeltaRulesetRepository (repository.py) with the publish workflow   *)
(* in front of it (publish.py).  The ruleset_versions Delta table is a     *)
(* sequence of rows.  Every API call runs in its own driver process and is *)
(* one sequence of Spark calls; the calls interleave between them, and any *)
(* of them may raise or lose its reply.  Each member of Calls is one       *)
(* invocation, so the finished ones are the history of what callers were   *)
(* told.                                                                   *)
(***************************************************************************)
EXTENDS Naturals, Sequences, FiniteSets

CONSTANTS
  Calls,                 \* the API calls of one behaviour
  Ids, Names, Versions, Payloads,
  Rulesets,              \* the rulesets somebody tries to publish
  InvalidPayloads,       \* payloads the validator rejects
  Actors,                \* non-empty actor names
  System,                \* the actor stored when the caller names none
  Absent,                \* an actor argument that is None or blank
  ActorArguments,        \* the actor arguments callers pass
  Nobody,                \* NULL in the retired_by column
  AnyVersion,            \* load without a version
  Modes,                 \* table creation modes callers ask for
  Operations,            \* the API operations callers use
  SerializedPublishers,  \* do callers keep to one publisher at a time?
  SparkMayFail,          \* do drivers die and Spark calls raise?
  MaxClock,              \* bound on the timestamps taken
  NoRequest, NoRow

RulesetType ==
  [ruleset_id : Ids, ruleset_name : Names, version : Versions, payload : Payloads]

ASSUME RepositoryAssumption ==
  /\ Rulesets \subseteq RulesetType
  /\ System \in Actors /\ Nobody \notin Actors
  /\ ActorArguments \subseteq Actors \cup {Absent}
  /\ AnyVersion \notin Versions
  /\ {SerializedPublishers, SparkMayFail} \subseteq BOOLEAN
  /\ MaxClock \in Nat \ {0}

VARIABLES
  exists,       \* table name -> is it in the catalog?
  rows,         \* contents of ruleset_versions
  incarnation,  \* how often ruleset_versions was dropped (its Delta table id)
  clock,        \* last UTC timestamp read
  pc,           \* where each call is
  request,      \* its arguments
  stamp,        \* the timestamp it took
  result,       \* the row it wrote, verified or loaded when it returned
  within,       \* the incarnation it returned in
  baseline      \* history: how many of the rows were stored when it began

vars ==
  <<exists, rows, incarnation, clock, pc, request, stamp, result, within, baseline>>
tableVars == <<exists, rows, incarnation>>
replyVars == <<result, within>>

Tables == {"ruleset_versions", "function_registry"}
NeverAt == 0   \* NULL in the retired_at column; timestamps start at 1

Row ==
  [ruleset_id : Ids, ruleset_name : Names, version : Versions, payload : Payloads,
   status : {"published", "retired"}, published_by : Actors, published_at : Nat,
   retired_by : Actors \cup {Nobody}, retired_at : Nat]

PublishRequest == [op : {"publish"}, ruleset : Rulesets, actor : ActorArguments]
RetireRequest ==
  [op : {"retire"}, ruleset_id : Ids, version : Versions, actor : ActorArguments]
LoadRequest ==
  [op : {"load"}, ruleset_name : Names, version : Versions \cup {AnyVersion}]
CreateRequest == [op : {"create"}, mode : Modes]
Request == PublishRequest \cup RetireRequest \cup LoadRequest \cup CreateRequest

PublishSteps == {"check_id", "check_name", "prepare", "append"}
RetireSteps == {"retire_read", "retire_update", "retire_verify"}
CreateSteps == {"drop_versions", "create_versions", "drop_registry", "create_registry"}
Running == PublishSteps \cup RetireSteps \cup CreateSteps \cup {"load_read"}
Label == Running \cup {"idle", "returned", "raised"}

----------------------------------------------------------------------------
(* Helpers                                                                 *)

ActorOrSystem(a) == IF a = Absent THEN System ELSE a

RowsWithId(id, v) ==
  {i \in DOMAIN rows : rows[i].ruleset_id = id /\ rows[i].version = v}
RowsWithName(n, v) ==
  {i \in DOMAIN rows : rows[i].ruleset_name = n /\ rows[i].version = v}
PublishedRows(n, v) ==
  {i \in DOMAIN rows : /\ rows[i].ruleset_name = n
                       /\ rows[i].status = "published"
                       /\ v = AnyVersion \/ rows[i].version = v}

Goto(c, label) == pc' = [pc EXCEPT ![c] = label]
Raise(c) == Goto(c, "raised")

Return(c, row) ==
  /\ Goto(c, "returned")
  /\ result' = [result EXCEPT ![c] = row]
  /\ within' = [within EXCEPT ![c] = incarnation]

TakeStamp(c) ==   \* two readings of the clock may coincide
  /\ clock' \in {clock, clock + 1}
  /\ clock' <= MaxClock
  /\ stamp' = [stamp EXCEPT ![c] = clock']

Accept(c, arguments) ==
  /\ pc[c] = "idle"
  /\ arguments.op \in Operations
  /\ request' = [request EXCEPT ![c] = arguments]
  /\ baseline' = [baseline EXCEPT ![c] = Len(rows)]

SerializedTurn == SerializedPublishers => \A c \in Calls : pc[c] \notin PublishSteps

----------------------------------------------------------------------------
Init ==
  /\ exists \in {[t \in Tables |-> FALSE], [t \in Tables |-> TRUE],
                 [t \in Tables |-> t = "ruleset_versions"]}
  /\ rows = <<>>
  /\ incarnation = 0
  /\ clock = 1
  /\ pc = [c \in Calls |-> "idle"]
  /\ request = [c \in Calls |-> NoRequest]
  /\ stamp = [c \in Calls |-> 0]
  /\ result = [c \in Calls |-> NoRow]
  /\ within = [c \in Calls |-> 0]
  /\ baseline = [c \in Calls |-> 0]

----------------------------------------------------------------------------
(* publish: validate, check both identities, then append                   *)

BeginPublish(c) ==
  /\ SerializedTurn
  /\ \E r \in Rulesets, a \in ActorArguments :
       /\ Accept(c, [op |-> "publish", ruleset |-> r, actor |-> a])
       /\ IF r.payload \in InvalidPayloads THEN Raise(c) ELSE Goto(c, "check_id")
  /\ UNCHANGED <<tableVars, replyVars, clock, stamp>>

CheckIdSkipped(c) ==   \* mutant: only the name is checked
  /\ pc[c] = "check_id"
  /\ Goto(c, "check_name")
  /\ UNCHANGED <<tableVars, replyVars, clock, request, stamp, baseline>>

CheckId(c) ==
  /\ pc[c] = "check_id"
  /\ LET r == request[c].ruleset
         taken == exists["ruleset_versions"] /\ RowsWithId(r.ruleset_id, r.version) # {}
     IN  IF taken THEN Raise(c) ELSE Goto(c, "check_name")
  /\ UNCHANGED <<tableVars, replyVars, clock, request, stamp, baseline>>

CheckNamePublished(c) ==   \* mutant: a retired version does not hold its name
  /\ pc[c] = "check_name"
  /\ LET r == request[c].ruleset
     IN  IF PublishedRows(r.ruleset_name, r.version) # {}
         THEN Raise(c) ELSE Goto(c, "prepare")
  /\ UNCHANGED <<tableVars, replyVars, clock, request, stamp, baseline>>

CheckName(c) ==
  /\ pc[c] = "check_name"
  /\ LET r == request[c].ruleset
         taken == exists["ruleset_versions"] /\ RowsWithName(r.ruleset_name, r.version) # {}
     IN  IF taken THEN Raise(c) ELSE Goto(c, "prepare")
  /\ UNCHANGED <<tableVars, replyVars, clock, request, stamp, baseline>>

PrepareRow(c) ==   \* serialize with the audit columns, then require the table
  /\ pc[c] = "prepare"
  /\ TakeStamp(c)
  /\ IF exists["ruleset_versions"] THEN Goto(c, "append") ELSE Raise(c)
  /\ UNCHANGED <<tableVars, replyVars, request, baseline>>

NewRowRawActor(c) ==   \* mutant: the actor is stored as passed
  LET r == request[c].ruleset
  IN  [ruleset_id |-> r.ruleset_id, ruleset_name |-> r.ruleset_name,
       version |-> r.version, payload |-> r.payload, status |-> "published",
       published_by |-> request[c].actor, published_at |-> stamp[c],
       retired_by |-> Nobody, retired_at |-> NeverAt]

NewRow(c) ==
  LET r == request[c].ruleset
  IN  [ruleset_id |-> r.ruleset_id, ruleset_name |-> r.ruleset_name,
       version |-> r.version, payload |-> r.payload, status |-> "published",
       published_by |-> ActorOrSystem(request[c].actor), published_at |-> stamp[c],
       retired_by |-> Nobody, retired_at |-> NeverAt]

AppendRowOverwriting(c) ==   \* mutant: the write replaces the table
  /\ pc[c] = "append"
  /\ exists' = [exists EXCEPT !["ruleset_versions"] = TRUE]
  /\ rows' = <<NewRow(c)>>
  /\ Return(c, NewRow(c))
  /\ UNCHANGED <<incarnation, clock, request, stamp, baseline>>

(* saveAsTable in append mode creates the table when a concurrent          *)
(* overwrite has just dropped it.  The reply may be lost after the commit. *)
AppendRow(c) ==
  /\ pc[c] = "append"
  /\ exists' = [exists EXCEPT !["ruleset_versions"] = TRUE]
  /\ rows' = Append(rows, NewRow(c))
  /\ \/ Return(c, NewRow(c))
     \/ SparkMayFail /\ Raise(c) /\ UNCHANGED replyVars
  /\ UNCHANGED <<incarnation, clock, request, stamp, baseline>>

----------------------------------------------------------------------------
(* retire: read, update the published row, read again and compare          *)

BeginRetire(c) ==
  /\ \E id \in Ids, v \in Versions, a \in ActorArguments :
       Accept(c, [op |-> "retire", ruleset_id |-> id, version |-> v, actor |-> a])
  /\ \/ /\ exists["ruleset_versions"]
        /\ TakeStamp(c)
        /\ Goto(c, "retire_read")
     \/ /\ ~exists["ruleset_versions"]
        /\ Raise(c)
        /\ UNCHANGED <<clock, stamp>>
  /\ UNCHANGED <<tableVars, replyVars>>

RetireTargets(c) ==
  IF exists["ruleset_versions"]
  THEN RowsWithId(request[c].ruleset_id, request[c].version) ELSE {}

ReadForRetire(c) ==
  /\ pc[c] = "retire_read"
  /\ IF \E i \in RetireTargets(c) : /\ RetireTargets(c) = {i}
                                    /\ rows[i].status = "published"
     THEN Goto(c, "retire_update") ELSE Raise(c)
  /\ UNCHANGED <<tableVars, replyVars, clock, request, stamp, baseline>>

UpdatedAnyStatus(c) == RetireTargets(c)   \* mutant: no status in the WHERE clause
UpdatedAnyId(c) ==   \* mutant: no ruleset_id in the WHERE clause
  {i \in DOMAIN rows : /\ rows[i].version = request[c].version
                       /\ rows[i].status = "published"}
Updated(c) == {i \in RetireTargets(c) : rows[i].status = "published"}

RetiredBy(c, row) ==
  [row EXCEPT !.status = "retired", !.retired_by = ActorOrSystem(request[c].actor),
              !.retired_at = stamp[c]]

UpdateStatus(c) ==
  /\ pc[c] = "retire_update"
  /\ IF exists["ruleset_versions"]
     THEN /\ rows' = [i \in DOMAIN rows |->
                        IF i \in Updated(c) THEN RetiredBy(c, rows[i]) ELSE rows[i]]
          /\ Goto(c, "retire_verify")
     ELSE Raise(c) /\ UNCHANGED rows
  /\ UNCHANGED <<exists, incarnation, replyVars, clock, request, stamp, baseline>>

VerifyAnyRetirement(c) ==   \* mutant: the status alone is compared
  /\ pc[c] = "retire_verify"
  /\ \E i \in RetireTargets(c) : rows[i].status = "retired" /\ Return(c, rows[i])
  /\ UNCHANGED <<tableVars, clock, request, stamp, baseline>>

VerifyRetirement(c) ==
  /\ pc[c] = "retire_verify"
  /\ \/ \E i \in RetireTargets(c) : /\ RetireTargets(c) = {i}
                                    /\ rows[i] = RetiredBy(c, rows[i])
                                    /\ Return(c, rows[i])
     \/ /\ ~\E i \in RetireTargets(c) : /\ RetireTargets(c) = {i}
                                        /\ rows[i] = RetiredBy(c, rows[i])
        /\ Raise(c)
        /\ UNCHANGED replyVars
  /\ UNCHANGED <<tableVars, clock, request, stamp, baseline>>

----------------------------------------------------------------------------
(* load_published: exactly one published row, or an error                  *)

BeginLoad(c) ==
  /\ \E n \in Names, v \in Versions \cup {AnyVersion} :
       Accept(c, [op |-> "load", ruleset_name |-> n, version |-> v])
  /\ IF exists["ruleset_versions"] THEN Goto(c, "load_read") ELSE Raise(c)
  /\ UNCHANGED <<tableVars, replyVars, clock, stamp>>

CandidatesAnyStatus(c) ==   \* mutant: retired versions still load
  IF exists["ruleset_versions"]
  THEN {i \in DOMAIN rows : rows[i].ruleset_name = request[c].ruleset_name}
  ELSE {}

Candidates(c) ==
  IF exists["ruleset_versions"]
  THEN PublishedRows(request[c].ruleset_name, request[c].version) ELSE {}

ReadPublished(c) ==
  /\ pc[c] = "load_read"
  /\ \/ \E i \in Candidates(c) : Candidates(c) = {i} /\ Return(c, rows[i])
     \/ Cardinality(Candidates(c)) # 1 /\ Raise(c) /\ UNCHANGED replyVars
  /\ UNCHANGED <<tableVars, clock, request, stamp, baseline>>

----------------------------------------------------------------------------
(* create_base_tables: one table after the other, no transaction           *)

BeginCreate(c) ==
  /\ \E m \in Modes :
       /\ Accept(c, [op |-> "create", mode |-> m])
       /\ \/ m = "overwrite" /\ Goto(c, "drop_versions")
          \/ m \in {"error", "errorifexists", "ignore"} /\ Goto(c, "create_versions")
          \/ m \notin {"overwrite", "error", "errorifexists", "ignore"} /\ Raise(c)
  /\ UNCHANGED <<tableVars, replyVars, clock, stamp>>

TableAt(label) ==
  IF label \in {"drop_versions", "create_versions"} THEN "ruleset_versions"
  ELSE "function_registry"

DropTable(c) ==   \* DROP TABLE IF EXISTS
  /\ pc[c] \in {"drop_versions", "drop_registry"}
  /\ LET t == TableAt(pc[c])
     IN  /\ exists' = [exists EXCEPT ![t] = FALSE]
         /\ IF t = "ruleset_versions"
            THEN /\ rows' = <<>>
                 /\ incarnation' = incarnation + 1
                 /\ baseline' = [d \in Calls |-> 0]
                 /\ Goto(c, "create_versions")
            ELSE UNCHANGED <<rows, incarnation, baseline>> /\ Goto(c, "create_registry")
  /\ UNCHANGED <<replyVars, clock, request, stamp>>

CreateTable(c) ==   \* CREATE TABLE [IF NOT EXISTS]
  /\ pc[c] \in {"create_versions", "create_registry"}
  /\ LET t == TableAt(pc[c])
         m == request[c].mode
     IN  IF exists[t] /\ m # "ignore"
         THEN Raise(c) /\ UNCHANGED <<exists, replyVars>>
         ELSE /\ exists' = [exists EXCEPT ![t] = TRUE]
              /\ IF t = "function_registry" THEN Return(c, NoRow)
                 ELSE /\ Goto(c, IF m = "overwrite" THEN "drop_registry"
                                 ELSE "create_registry")
                      /\ UNCHANGED replyVars
  /\ UNCHANGED <<rows, incarnation, clock, request, stamp, baseline>>

----------------------------------------------------------------------------
SparkFailure(c) ==   \* the driver dies, or a Spark call raises without effect
  /\ SparkMayFail
  /\ pc[c] \in Running
  /\ Raise(c)
  /\ UNCHANGED <<tableVars, replyVars, clock, request, stamp, baseline>>

Step(c) ==
  \/ CheckId(c) \/ CheckName(c) \/ PrepareRow(c) \/ AppendRow(c)
  \/ ReadForRetire(c) \/ UpdateStatus(c) \/ VerifyRetirement(c)
  \/ ReadPublished(c)
  \/ DropTable(c) \/ CreateTable(c)

Begin(c) == BeginPublish(c) \/ BeginRetire(c) \/ BeginLoad(c) \/ BeginCreate(c)

Next == \E c \in Calls : Begin(c) \/ Step(c) \/ SparkFailure(c)

Spec == Init /\ [][Next]_vars
----------------------------------------------------------------------------
(* Properties                                                              *)

TableTypes ==
  /\ exists \in [Tables -> BOOLEAN]
  /\ rows \in Seq(Row)
  /\ incarnation \in Nat
CallTypes ==
  /\ clock \in Nat \ {0}
  /\ pc \in [Calls -> Label]
  /\ request \in [Calls -> Request \cup {NoRequest}]
  /\ stamp \in [Calls -> Nat]
ReplyTypes ==
  /\ result \in [Calls -> Row \cup {NoRow}]
  /\ within \in [Calls -> Nat]
  /\ baseline \in [Calls -> Nat]
RequestFits ==
  \A c \in Calls : /\ pc[c] \in PublishSteps => request[c] \in PublishRequest
                   /\ pc[c] \in RetireSteps => request[c] \in RetireRequest

(* Every variable has the shape the code gives it.                         *)
TypeOK == TableTypes /\ CallTypes /\ ReplyTypes /\ RequestFits

SameIdentity(r, s) ==
  /\ r.version = s.version
  /\ r.ruleset_id = s.ruleset_id \/ r.ruleset_name = s.ruleset_name

Returned(c, op) == pc[c] = "returned" /\ request[c].op = op
InCurrentTable(c) == within[c] = incarnation

(* With serialized publishers no two stored rows, published or retired,    *)
(* share an id/version or a name/version: the two checks and the append    *)
(* of save_published cover both identities, whatever retires, loads,       *)
(* crashes and table creations do in between.                              *)
UniqueIdentities ==
  \A i, j \in DOMAIN rows : i # j => ~SameIdentity(rows[i], rows[j])

(* Why UniqueIdentities is inductive: one publisher at a time, and what its *)
(* finished checks established still holds.                                *)
IdTakenBy(row, r) == row.ruleset_id = r.ruleset_id /\ row.version = r.version
NameTakenBy(row, r) == row.ruleset_name = r.ruleset_name /\ row.version = r.version
AbsentIsEmpty == ~exists["ruleset_versions"] => rows = <<>>
OnePublisher ==
  \A c, d \in Calls : pc[c] \in PublishSteps /\ pc[d] \in PublishSteps => c = d
CheckedId ==
  \A c \in Calls : pc[c] \in {"check_name", "prepare", "append"} =>
    \A i \in DOMAIN rows : ~IdTakenBy(rows[i], request[c].ruleset)
CheckedName ==
  \A c \in Calls : pc[c] \in {"prepare", "append"} =>
    \A i \in DOMAIN rows : ~NameTakenBy(rows[i], request[c].ruleset)
PublicationInv ==
  AbsentIsEmpty /\ OnePublisher /\ CheckedId /\ CheckedName /\ UniqueIdentities

(* Until the table is dropped, a stored row keeps its content and its      *)
(* publication audit; its only change is from published to retired, which  *)
(* fills in the retirement audit once.                                     *)
RowsImmutable ==
  [][incarnation' = incarnation =>
       \A i \in DOMAIN rows :
         /\ i \in DOMAIN rows'
         /\ rows'[i] # rows[i] =>
              /\ rows[i].status = "published"
              /\ rows'[i].retired_by # Nobody /\ rows'[i].retired_at # NeverAt
              /\ rows'[i] = [rows[i] EXCEPT !.status = "retired",
                                            !.retired_by = rows'[i].retired_by,
                                            !.retired_at = rows'[i].retired_at]]_rows

(* The UPDATE of retire never changes two rows: the row it read is the     *)
(* only one of its stable identity also when the UPDATE runs.              *)
RetireTouchesOneRow ==
  [][incarnation' = incarnation =>
       Cardinality({i \in DOMAIN rows : rows'[i] # rows[i]}) <= 1]_rows

(* Two loads of one name and version that both succeed on the same table   *)
(* return the same payload, whoever publishes or retires in between.       *)
LoadsRepeatable ==
  \A c, d \in Calls :
    /\ Returned(c, "load") /\ Returned(d, "load") /\ within[c] = within[d]
    /\ request[c] = request[d] /\ request[c].version # AnyVersion
    => result[c].payload = result[d].payload

(* Once a retirement was reported, no load returns that ruleset version    *)
(* again, not even through a new publication of its identity.              *)
LoadIgnoresRetired ==
  [][\A c, d \in Calls :
       /\ pc[c] = "load_read" /\ pc'[c] = "returned"
       /\ Returned(d, "retire") /\ InCurrentTable(d)
       => ~SameIdentity(result'[c], result[d])]_vars

(* Of racing retirements of one row, those reported as done wrote the same *)
(* audit: a loser is told so, unless it has the winner's actor and time.   *)
RetireReportsOnce ==
  \A c, d \in Calls :
    /\ Returned(c, "retire") /\ Returned(d, "retire") /\ within[c] = within[d]
    /\ request[c].ruleset_id = request[d].ruleset_id
    /\ request[c].version = request[d].version
    => /\ stamp[c] = stamp[d]
       /\ ActorOrSystem(request[c].actor) = ActorOrSystem(request[d].actor)

(* What publish reported as stored is stored, with its audit columns, for  *)
(* as long as the table is not dropped, however publishers race.           *)
AcknowledgedPublishDurable ==
  \A c \in Calls :
    Returned(c, "publish") /\ InCurrentTable(c) =>
      \E i \in DOMAIN rows :
        result[c] = [rows[i] EXCEPT !.status = "published", !.retired_by = Nobody,
                                    !.retired_at = NeverAt]

(* Even unserialized publishers duplicate only rows appended while they    *)
(* ran: a row stored before a publisher began is never duplicated by it.   *)
OnlyRacersDuplicate ==
  [][\A c \in Calls :
       pc[c] = "append" /\ Len(rows') > Len(rows) /\ pc'[c] # pc[c] =>
         \A i \in 1..baseline[c] : ~SameIdentity(rows[i], rows'[Len(rows')])]_vars

(* With serialized publishers every step of the repository is a step of    *)
(* the catalog, or changes nothing the catalog shows.                      *)
Catalog ==
  INSTANCE RulesetCatalog
    WITH catalog <- {rows[i] : i \in DOMAIN rows}, acknowledged <- result,
         NoEntry <- NoRow
ImplementsCatalog == Catalog!CatalogSpec
=============================================================================

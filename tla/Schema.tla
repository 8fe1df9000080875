------------------------------- MODULE Schema -------------------------------
(* The start of backend processes on a database of any age (db/database.py): *)
(* missing tables are created in one transaction, the columns that were      *)
(* added since are added by others, one for each table.  Processes start at  *)
(* the same time, die between transactions and start again.                  *)
EXTENDS Browser, Sequences

CONSTANTS Processes

VARIABLES tables,  \* [table]: its columns, in groups, or None
          starts   \* [process]: what it does next, and what it found missing

schemaVars == <<tables, starts>>

Tables == {"users", "instances", "oidc", "perf", "profiles", "mlflow", "credentials"}

(* The columns of the entities that came after the first version of their   *)
(* table.                                                                   *)
EntityOf(t) ==
  CASE t = "users" -> {"credential_version"}
    [] t = "instances" -> {"models", "health", "tls", "metrics", "deployment", "fence"}
    [] t = "oidc" -> {"client"}
    [] t = "perf" -> {"status"}
    [] t = "mlflow" -> {"profile", "status"}
    [] t = "credentials" -> {"profile"}
    [] OTHER -> {}

(* Columns no entity has any more; an insert would leave them empty.        *)
Obsolete == {"redirects"}

Columns == (UNION {EntityOf(t) : t \in Tables}) \cup Obsolete

ASSUME AbsentTable == \A S \in SUBSET Columns : S # None

OlderTable(t) == {None, {}, EntityOf(t)} \cup (IF t = "oidc" THEN {Obsolete} ELSE {})

WholeSchema(db) == \A t \in Tables : db[t] = EntityOf(t)

-----------------------------------------------------------------------------
(* What a transaction of init_db() makes of the tables                      *)

AddColumns(db, t, columns) == IF db[t] = None THEN db ELSE [db EXCEPT ![t] = @ \cup columns]

MissingCreated(db, missing) == [t \in Tables |-> IF t \in missing THEN EntityOf(t) ELSE db[t]]
FenceColumn(db)              == AddColumns(db, "instances", {"fence"})
UsersLifecycle(db)     == AddColumns(db, "users", {"credential_version"})
InstanceColumns(db)    == AddColumns(db, "instances", {"models", "health", "tls", "metrics", "deployment"})
OidcColumns(db)        == [AddColumns(db, "oidc", {"client"}) EXCEPT !["oidc"] =
                             IF @ = None THEN None ELSE @ \ Obsolete]
PerfColumns(db)        == AddColumns(db, "perf", {"status"})
ProfilesTable(db)      == [db EXCEPT !["profiles"] = IF @ = None THEN {} ELSE @]
MlflowColumns(db)      == AddColumns(db, "mlflow", {"profile", "status"})
WorkflowLinks(db)      == AddColumns(db, "credentials", {"profile"})

(* What a process does next, in the order of init_db().                     *)
Down == 0
Creating == 1
Migrations == 2..9
Serving == 10

Migrated(n, db) ==
  CASE n = 2 -> FenceColumn(db)     [] n = 3 -> UsersLifecycle(db)
    [] n = 4 -> InstanceColumns(db) [] n = 5 -> OidcColumns(db)
    [] n = 6 -> PerfColumns(db)     [] n = 7 -> ProfilesTable(db)
    [] n = 8 -> MlflowColumns(db)   [] n = 9 -> WorkflowLinks(db)

-----------------------------------------------------------------------------
Goes(p, next, missing) == starts' = [starts EXCEPT ![p] = [next |-> next, missing |-> missing]]

(* A process starts, or starts again; create_all looks for all tables first. *)
InspectTables(p) ==
  /\ starts[p].next = Down
  /\ Goes(p, Creating, {t \in Tables : tables[t] = None})
  /\ UNCHANGED <<browserVars, tables>>

(* Mutant: where no table is missing the migrations are taken for done.     *)
BadCreateTables_NothingToDo(p) ==
  /\ starts[p].next = Creating
  /\ IF \E t \in starts[p].missing : tables[t] # None
     THEN Goes(p, Down, {}) /\ UNCHANGED tables
     ELSE /\ Goes(p, IF starts[p].missing = {} THEN Serving ELSE Creating + 1, {})
          /\ tables' = MissingCreated(tables, starts[p].missing)
  /\ UNCHANGED browserVars

(* A table that is there by now ends the process.                           *)
CreateTables(p) ==
  /\ starts[p].next = Creating
  /\ IF \E t \in starts[p].missing : tables[t] # None
     THEN Goes(p, Down, {}) /\ UNCHANGED tables
     ELSE Goes(p, Creating + 1, {}) /\ tables' = MissingCreated(tables, starts[p].missing)
  /\ UNCHANGED browserVars

Migrate(p) ==
  /\ starts[p].next \in Migrations
  /\ tables' = Migrated(starts[p].next, tables)
  /\ Goes(p, starts[p].next + 1, {})
  /\ UNCHANGED browserVars

ProcessDies(p) ==
  /\ starts[p].next # Down
  /\ Act
  /\ Goes(p, Down, {})
  /\ UNCHANGED <<page, flights, tables>>

(* The database is empty, as old as can be, or at most two of its tables     *)
(* are older than the entities.                                             *)
Aged(a, x, b, y) == [t \in Tables |-> IF t = a THEN x ELSE IF t = b THEN y ELSE EntityOf(t)]

Databases ==
  {[t \in Tables |-> None], [t \in Tables |-> {}]} \cup
  UNION {{Aged(a, x, b, y) : x \in OlderTable(a), y \in OlderTable(b)} : a \in Tables, b \in Tables}

SchemaInit ==
  /\ tables \in Databases
  /\ starts = [p \in Processes |-> [next |-> Down, missing |-> {}]]
  /\ page = [at |-> "none", of |-> None, no |-> 0] /\ flights = {} /\ acts = 0

SchemaNext ==
  \E p \in Processes : InspectTables(p) \/ CreateTables(p) \/ Migrate(p) \/ ProcessDies(p)
=============================================================================

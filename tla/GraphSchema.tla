------------------------------ MODULE GraphSchema ------------------------------
(***************************************************************************)
(* Opening a graph database: the statements that create its schema, the    *)
(* version they record, and the migration of one that an older release     *)
(* made.  Several processes open the same database; each may crash between *)
(* two statements and start again.                                         *)
(***************************************************************************)
EXTENDS Naturals, Sequences, FiniteSets

CONSTANTS
  Openers,       (* Processes.                                             *)
  GRAPH_SCHEMA_VERSION,
  Unset,         (* No version recorded.                                   *)
  MaxStarts      (* Bound: how often a process starts.                     *)

ASSUME SchemaAssumption == GRAPH_SCHEMA_VERSION = 4 /\ Unset \notin Nat

VARIABLES
  driver,        (* Whose code opens: one of Drivers.                      *)
  schema,        (* The database: its table, columns, indexes and version. *)
  origin,        (* Which release made it: its version, Unset or 0.        *)
  opener,        (* Each process: what it has done and the version it read.*)
  starts,        (* How often each has started.                            *)
  ignored        (* History: an ALTER of init_graph_schema failed as the   *)
                 (* database was busy.                                     *)

schemaVars == <<driver, schema, origin, opener, starts, ignored>>

Columns == {"valid_until", "last_verified"}
Indexes == {"created", "relation"}

(* The statements of each initialisation that commit by themselves.        *)
Drivers == {"sqlite", "async_graph", "postgres", "sqlx"}
Statements ==
  CASE driver \in {"sqlite", "async_graph"} -> <<"tables", "indexes", "meta", "valid_until", "last_verified">>
    [] driver = "postgres" -> <<"batch">>
    [] driver = "sqlx" -> <<"tables", "indexes", "valid_until", "last_verified", "meta">>

(* A database of an older release; Unset: one that crashed on the way.     *)
Made(release) ==
  [table |-> release # 0, columns |-> {}, version |-> IF release = 0 THEN Unset ELSE release,
   indexes |-> {i \in Indexes : release # Unset /\ ((i = "created" /\ release >= 2) \/ (i = "relation" /\ release >= 3))}]

SchemaInit ==
  /\ driver \in Drivers
  /\ origin \in 0..(GRAPH_SCHEMA_VERSION - 1) \cup {Unset}
  /\ schema = Made(origin)
  /\ opener = [o \in Openers |-> [did |-> 0, at |-> "down", read |-> 0]]
  /\ starts = [o \in Openers |-> 0]
  /\ ignored = FALSE

CreateTables(s) == IF s.table THEN s ELSE [s EXCEPT !.table = TRUE, !.columns = Columns]
CreateIndexes(s) == [s EXCEPT !.indexes = Indexes]
(* A mutant: the version is written whether or not there is one.           *)
InsertVersionAnyway(s) == [s EXCEPT !.version = GRAPH_SCHEMA_VERSION]
InsertVersion(s) == IF s.version = Unset THEN [s EXCEPT !.version = GRAPH_SCHEMA_VERSION] ELSE s
AddColumn(s, column) == [s EXCEPT !.columns = s.columns \cup {column}]

Execute(s, statement) ==
  CASE statement = "tables" -> CreateTables(s)
    [] statement = "indexes" -> CreateIndexes(s)
    [] statement = "meta" -> InsertVersion(s)
    [] statement \in Columns -> AddColumn(s, statement)
    [] statement = "batch" -> InsertVersion([CreateIndexes(CreateTables(s)) EXCEPT !.columns = Columns])

(* Everything between two versions, in one transaction.                    *)
Migrated(s, current) ==
  [s EXCEPT !.indexes = s.indexes \cup (IF current < 2 THEN {"created"} ELSE {})
                                  \cup (IF current < 3 THEN {"relation"} ELSE {}),
            !.columns = IF current < 4 THEN Columns ELSE s.columns,
            !.version = IF s.version = Unset THEN Unset ELSE GRAPH_SCHEMA_VERSION]

At(o, place) == opener[o].at = place

Start(o) ==
  /\ At(o, "down") /\ starts[o] < MaxStarts
  /\ opener' = [opener EXCEPT ![o] = [did |-> 0, at |-> "init", read |-> 0]]
  /\ starts' = [starts EXCEPT ![o] = @ + 1]
  /\ UNCHANGED <<driver, schema, origin, ignored>>

Advanced(o) ==
  LET did == opener[o].did + 1 IN
  [opener EXCEPT ![o] = [did |-> did, read |-> 0,
     at |-> IF did < Len(Statements) THEN "init" ELSE IF driver = "async_graph" THEN "open" ELSE "created"]]

InitSchema(o) ==
  /\ At(o, "init")
  /\ schema' = Execute(schema, Statements[opener[o].did + 1])
  /\ opener' = Advanced(o)
  /\ UNCHANGED <<driver, origin, starts, ignored>>

(* The database stays busy for longer than the connection waits: SQLite's  *)
(* ALTERs go on, whatever their error, and any other statement gives up.   *)
InitBusy(o) ==
  /\ At(o, "init")
  /\ IF driver \in {"sqlite", "async_graph"} /\ Statements[opener[o].did + 1] \in Columns
     THEN opener' = Advanced(o) /\ ignored' = TRUE
     ELSE opener' = [opener EXCEPT ![o].at = "down"] /\ UNCHANGED ignored
  /\ UNCHANGED <<driver, schema, origin, starts>>

ReadVersion(o) ==
  /\ At(o, "created")
  /\ LET current == IF schema.version = Unset THEN 0 ELSE schema.version IN
     opener' = [opener EXCEPT ![o].read = current,
                              ![o].at = IF current >= GRAPH_SCHEMA_VERSION THEN "open" ELSE "migrating"]
  /\ UNCHANGED <<driver, schema, origin, starts, ignored>>

Migrate(o) ==
  /\ At(o, "migrating")
  /\ schema' = Migrated(schema, opener[o].read)
  /\ opener' = [opener EXCEPT ![o].at = "open"]
  /\ UNCHANGED <<driver, origin, starts, ignored>>

(* A crash, or a transaction that fails and is rolled back.                *)
Stop(o) ==
  /\ ~At(o, "down")
  /\ opener' = [opener EXCEPT ![o] = [did |-> 0, at |-> "down", read |-> 0]]
  /\ UNCHANGED <<driver, schema, origin, starts, ignored>>

SchemaStep(o) == Start(o) \/ InitSchema(o) \/ InitBusy(o) \/ ReadVersion(o) \/ Migrate(o) \/ Stop(o)

SchemaSpec == SchemaInit /\ [][\E o \in Openers : SchemaStep(o)]_schemaVars

(* A process that has the graph open finds every table, column and index,  *)
(* and the version that says so, whatever crashed or raced before: but for *)
(* a table an unfinished older initialisation left without a version, when *)
(* SQLite was too busy for the columns (src/src/graph/schema.rs:163), and  *)
(* for AsyncGraph::open, which does not migrate.                           *)
OpenedUsable ==
  \A o \in Openers : At(o, "open") =>
    /\ schema.table /\ schema.indexes = Indexes
    /\ schema.columns = Columns \/ (ignored /\ (origin = Unset \/ driver = "async_graph"))
    /\ schema.version = GRAPH_SCHEMA_VERSION \/ (driver = "async_graph" /\ schema.version = origin)
=============================================================================

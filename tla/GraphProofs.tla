---------------------------- MODULE GraphProofs ----------------------------
(***************************************************************************)
(* Proofs about the graph: what a process finds that has opened a graph    *)
(* database, for any number of processes, crashes and restarts; what calls *)
(* keep of a node of the SQLite graph; what the copying tool leaves; what  *)
(* recalls find; that the three backends agree; and what the algorithms on *)
(* a snapshot of the graph find: components, communities, predicted links  *)
(* and, step by step, shortest paths.                                      *)
(***************************************************************************)
EXTENDS GraphSessions, GraphAlgorithms, DataLemmas, TLAPS

(* Opening a graph database.                                               *)

(* What a process has executed since it started.                           *)
Ran(o) == {Statements[k] : k \in 1..opener[o].did}
Process == [did : Nat, at : {"down", "init", "created", "migrating", "open"}, read : Nat]
Lite == driver \in {"sqlite", "async_graph"}

(* A database that was found with a version keeps it until a migration,    *)
(* which adds the columns in the same transaction; one that was found      *)
(* without tables gets them with the columns.                              *)
DatabaseInv ==
  /\ driver \in Drivers
  /\ schema \in [table : BOOLEAN, columns : SUBSET Columns, version : {1, 2, 3, 4, Unset}, indexes : SUBSET Indexes]
  /\ schema.version \in (IF origin \in 1..3 THEN {origin} ELSE {Unset}) \cup {4}
  /\ origin \in 0..3 \cup {Unset}
  /\ origin # 0 => schema.table
  /\ origin = 0 /\ schema.table => schema.columns = Columns
  /\ origin \in 1..3 /\ schema.version = 4 => schema.columns = Columns /\ driver # "async_graph"

(* A process relies on the effects of what it has executed, which nobody   *)
(* undoes, and on a version only a migration it has not yet made changes.  *)
OpenerInv(o) ==
  /\ opener[o].did \in 0..Len(Statements)
  /\ At(o, "init") => opener[o].did < Len(Statements)
  /\ opener[o].at \in {"created", "migrating", "open"} => opener[o].did = Len(Statements)
  /\ \A s \in Ran(o) :
       /\ s \in {"tables", "batch"} => schema.table
       /\ s \in {"indexes", "batch"} => schema.indexes = Indexes
       /\ s \in {"meta", "batch"} => schema.version # Unset
       /\ s = "batch" => schema.columns = Columns
       /\ s \in Columns => s \in schema.columns \/ (ignored /\ Lite)
  /\ At(o, "created") => driver # "async_graph"
  /\ At(o, "migrating") => driver # "async_graph" /\ opener[o].read \in 1..3
  /\ At(o, "open") /\ driver # "async_graph" => schema.version = 4

SchemaInv ==
  /\ DatabaseInv
  /\ opener \in [Openers -> Process]
  /\ \A o \in Openers : OpenerInv(o)

(* What the initialisation of each driver consists of.                     *)
LEMMA Program ==
  ASSUME driver \in Drivers
  PROVE  /\ Len(Statements) \in 1..5
         /\ \A k \in 1..Len(Statements) : Statements[k] \in {"tables", "indexes", "meta", "batch"} \cup Columns
         /\ driver = "postgres" => Statements[1] = "batch"
         /\ driver # "postgres" => \A s \in {"tables", "indexes", "meta"} \cup Columns :
                                     \E k \in 1..Len(Statements) : Statements[k] = s
<1>1. CASE driver = "postgres"
  <2>1. Statements = <<"batch">>
    BY <1>1 DEF Statements
  <2> QED
    BY <1>1, <2>1
<1>2. CASE driver \in {"sqlite", "async_graph"}
  <2>1. Statements = <<"tables", "indexes", "meta", "valid_until", "last_verified">>
    BY <1>2 DEF Statements
  <2>2. /\ Len(Statements) = 5 /\ Statements[1] = "tables" /\ Statements[2] = "indexes" /\ Statements[3] = "meta"
        /\ Statements[4] = "valid_until" /\ Statements[5] = "last_verified"
    BY <2>1
  <2> QED
    BY <1>2, <2>2 DEF Columns
<1>3. CASE driver = "sqlx"
  <2>1. Statements = <<"tables", "indexes", "valid_until", "last_verified", "meta">>
    BY <1>3 DEF Statements
  <2>2. /\ Len(Statements) = 5 /\ Statements[1] = "tables" /\ Statements[2] = "indexes" /\ Statements[5] = "meta"
        /\ Statements[3] = "valid_until" /\ Statements[4] = "last_verified"
    BY <2>1
  <2> QED
    BY <1>3, <2>2 DEF Columns
<1> QED
  BY <1>1, <1>2, <1>3 DEF Drivers

(* A process that is not at a step keeps what it relies on while the       *)
(* database grows.                                                         *)
Grown ==
  /\ UNCHANGED <<driver, origin>>
  /\ ignored => ignored'
  /\ schema.table => schema'.table
  /\ schema.columns \subseteq schema'.columns /\ schema'.columns \subseteq Columns
  /\ schema.indexes \subseteq schema'.indexes /\ schema'.indexes \subseteq Indexes
  /\ schema.version # Unset => schema'.version # Unset
  /\ schema.version = 4 => schema'.version = 4

(* What a process relies on survives the steps of the others.               *)
LEMMA Relied ==
  ASSUME Grown, NEW o \in Openers, OpenerInv(o), opener'[o] = opener[o]
  PROVE  OpenerInv(o)'
<1>1. Statements' = Statements /\ Ran(o)' = Ran(o) /\ Lite' = Lite
  BY DEF Grown, Statements, Ran, Lite
<1> QED
  <2>1. /\ \A s \in Ran(o)' :
             /\ s \in {"tables", "batch"} => schema'.table
             /\ s \in {"indexes", "batch"} => schema'.indexes = Indexes
             /\ s \in {"meta", "batch"} => schema'.version # Unset
             /\ s = "batch" => schema'.columns = Columns
             /\ s \in Columns => s \in schema'.columns \/ (ignored' /\ Lite')
    BY <1>1 DEF Grown, OpenerInv
  <2>2. At(o, "open") /\ driver # "async_graph" => schema'.version = 4
    BY DEF Grown, OpenerInv
  <2>3. \A place : At(o, place)' <=> At(o, place)
    BY DEF At
  <2> QED
    BY <1>1, <2>1, <2>2, <2>3 DEF OpenerInv, Grown

(* The initial states satisfy the invariant.                               *)
LEMMA InitGraph == SchemaInit => SchemaInv
<1> SUFFICES ASSUME SchemaInit PROVE SchemaInv
  OBVIOUS
<1> USE SchemaAssumption
<1>1. origin \in 0..3 \cup {Unset}
  BY DEF SchemaInit
<1>2. DatabaseInv
  <2>1. schema.version \in {1, 2, 3, Unset} /\ schema.columns = {} /\ schema.indexes \in SUBSET Indexes
        /\ schema.table = (origin # 0)
    BY <1>1 DEF SchemaInit, Made
  <2>2. schema.version = IF origin = 0 THEN Unset ELSE origin
    BY DEF SchemaInit, Made
  <2>3. schema = [table |-> schema.table, columns |-> schema.columns, version |-> schema.version,
                  indexes |-> schema.indexes]
    BY DEF SchemaInit, Made
  <2>4. schema \in [table : BOOLEAN, columns : SUBSET Columns, version : {1, 2, 3, 4, Unset}, indexes : SUBSET Indexes]
    BY <2>1, <2>3
  <2> QED
    BY <1>1, <2>1, <2>2, <2>4 DEF SchemaInit, DatabaseInv
<1>3. ASSUME NEW o \in Openers PROVE OpenerInv(o)
  <2>1. opener[o].at = "down" /\ opener[o].did = 0
    BY DEF SchemaInit
  <2> QED
    BY <1>2, <2>1, Program DEF OpenerInv, Ran, At, DatabaseInv
<1>4. opener \in [Openers -> Process]
  BY DEF SchemaInit, Process
<1> QED
  BY <1>2, <1>3, <1>4 DEF SchemaInv

(* What one statement of an initialisation does.                           *)
LEMMA Executed ==
  ASSUME DatabaseInv, UNCHANGED <<driver, origin, ignored>>,
         NEW s \in {"tables", "indexes", "meta", "batch"} \cup Columns, schema' = Execute(schema, s)
  PROVE  /\ DatabaseInv' /\ Grown
         /\ s \in {"tables", "batch"} => schema'.table
         /\ s \in {"indexes", "batch"} => schema'.indexes = Indexes
         /\ s \in {"meta", "batch"} => schema'.version # Unset
         /\ s = "batch" => schema'.columns = Columns
         /\ s \in Columns => s \in schema'.columns
<1> USE SchemaAssumption DEF DatabaseInv, Columns, Grown
<1>1. CASE s = "tables"
  BY <1>1 DEF Execute, CreateTables
<1>2. CASE s = "indexes"
  BY <1>2 DEF Execute, CreateIndexes
<1>3. CASE s = "meta"
  BY <1>3 DEF Execute, InsertVersion
<1>4. CASE s = "batch"
  <2>1. schema' = [table |-> TRUE, columns |-> Columns, indexes |-> Indexes,
                   version |-> IF schema.version = Unset THEN 4 ELSE schema.version]
    BY <1>4 DEF Execute, InsertVersion, CreateIndexes, CreateTables
  <2>2. /\ schema'.table = TRUE /\ schema'.columns = Columns /\ schema'.indexes = Indexes
        /\ schema'.version = IF schema.version = Unset THEN 4 ELSE schema.version
        /\ schema' \in [table : BOOLEAN, columns : SUBSET Columns, version : {1, 2, 3, 4, Unset}, indexes : SUBSET Indexes]
    BY <2>1
  <2> QED
    BY <1>4, <2>2
<1>5. CASE s \in Columns
  <2>1. schema' = [schema EXCEPT !.columns = schema.columns \cup {s}]
    BY <1>5 DEF Execute, AddColumn
  <2> QED
    BY <1>5, <2>1
<1> QED
  BY <1>1, <1>2, <1>3, <1>4, <1>5
(* A process that has gone past one statement of its initialisation.       *)
LEMMA Went ==
  ASSUME SchemaInv, NEW o \in Openers, OpenerInv(o), At(o, "init"), Grown, opener' = Advanced(o),
         opener[o].did \in 0..(Len(Statements) - 1), Len(Statements) \in 1..5,
         NEW s, s = Statements[opener[o].did + 1],
         s \in {"tables", "batch"} => schema'.table,
         s \in {"indexes", "batch"} => schema'.indexes = Indexes,
         s \in {"meta", "batch"} => schema'.version # Unset,
         s = "batch" => schema'.columns = Columns,
         s \in Columns => s \in schema'.columns \/ (ignored' /\ Lite)
  PROVE  /\ \E next \in Process : opener' = [opener EXCEPT ![o] = next]
         /\ OpenerInv(o)'
<1> DEFINE did == opener[o].did + 1
           at == IF did < Len(Statements) THEN "init" ELSE IF driver = "async_graph" THEN "open" ELSE "created"
<1>1. /\ did \in 1..Len(Statements) /\ at \in {"init", "open", "created"}
      /\ [did |-> did, at |-> at, read |-> 0] \in Process
  BY DEF Process
<1>2. opener' = [opener EXCEPT ![o] = [did |-> did, at |-> at, read |-> 0]]
  BY DEF Advanced
<1>3. opener'[o] = [did |-> did, at |-> at, read |-> 0]
  BY <1>2 DEF SchemaInv
<1>4. Statements' = Statements /\ Lite' = Lite /\ driver' = driver
  BY DEF Grown, Statements, Lite
<1>5. \A r \in Ran(o)' : r \in Ran(o) \/ r = s
  <2>1. 1..did = 1..opener[o].did \cup {did}
    BY <1>1
  <2> QED
    BY <1>3, <1>4, <2>1 DEF Ran
<1> HIDE DEF at, did
<1>6. \A r \in Ran(o)' :
        /\ r \in {"tables", "batch"} => schema'.table
        /\ r \in {"indexes", "batch"} => schema'.indexes = Indexes
        /\ r \in {"meta", "batch"} => schema'.version # Unset
        /\ r = "batch" => schema'.columns = Columns
        /\ r \in Columns => r \in schema'.columns \/ (ignored' /\ Lite')
  <2> SUFFICES ASSUME NEW r \in Ran(o)
               PROVE  /\ r \in {"tables", "batch"} => schema'.table
                      /\ r \in {"indexes", "batch"} => schema'.indexes = Indexes
                      /\ r \in {"meta", "batch"} => schema'.version # Unset
                      /\ r = "batch" => schema'.columns = Columns
                      /\ r \in Columns => r \in schema'.columns \/ (ignored' /\ Lite)
    BY <1>4, <1>5
  <2> QED
    BY DEF OpenerInv, Grown
<1>7. OpenerInv(o)'
  BY <1>1, <1>3, <1>4, <1>6 DEF OpenerInv, At, at, did
<1> QED
  BY <1>1, <1>2, <1>7

(* One that has executed all of them finds the whole schema.               *)
LEMMA Ended ==
  ASSUME NEW o \in Openers, OpenerInv(o), DatabaseInv, opener[o].did = Len(Statements)
  PROVE  /\ Len(Statements) \in 1..5
         /\ schema.table /\ schema.indexes = Indexes /\ schema.version # Unset
         /\ schema.columns = Columns \/ (ignored /\ Lite)
<1>1. driver \in Drivers /\ Len(Statements) \in 1..5 /\ schema.columns \subseteq Columns
  BY Program DEF DatabaseInv
<1>2. Ran(o) = {Statements[k] : k \in 1..Len(Statements)}
  BY DEF Ran
<1>3. CASE driver = "postgres"
  <2>1. "batch" \in Ran(o)
    BY <1>1, <1>2, <1>3, Program
  <2> QED
    BY <1>1, <2>1 DEF OpenerInv
<1>4. CASE driver # "postgres"
  <2>1. {"tables", "indexes", "meta"} \cup Columns \subseteq Ran(o)
    BY <1>1, <1>2, <1>4, Program
  <2> QED
    BY <1>1, <2>1 DEF OpenerInv, Columns
<1> QED
  BY <1>3, <1>4

(* Every step keeps it.                                                    *)
LEMMA StepGraph == SchemaInv /\ [\E o \in Openers : SchemaStep(o)]_schemaVars => SchemaInv'
<1> USE SchemaAssumption
<1> SUFFICES ASSUME SchemaInv, [\E o \in Openers : SchemaStep(o)]_schemaVars PROVE SchemaInv'
  OBVIOUS
<1>0. CASE UNCHANGED schemaVars
  <2>1. \A o \in Openers : OpenerInv(o)'
    BY <1>0, Relied DEF schemaVars, Grown, SchemaInv, DatabaseInv
  <2> QED
    BY <1>0, <2>1 DEF schemaVars, SchemaInv, DatabaseInv
<1>1. ASSUME NEW o \in Openers, SchemaStep(o) PROVE SchemaInv'
  <2>0. OpenerInv(o) /\ opener[o] \in Process
    BY DEF SchemaInv
  <2> SUFFICES /\ DatabaseInv' /\ Grown
               /\ \E next \in Process : opener' = [opener EXCEPT ![o] = next]
               /\ OpenerInv(o)'
    BY Relied DEF SchemaInv
  <2>a. ASSUME NEW next \in Process, opener' = [opener EXCEPT ![o] = next] PROVE opener'[o] = next
    BY <2>a DEF SchemaInv
  <2>1. CASE Start(o) \/ Stop(o)
    <3>1. PICK at \in {"init", "down"} : opener' = [opener EXCEPT ![o] = [did |-> 0, at |-> at, read |-> 0]]
      BY <2>1 DEF Start, Stop
    <3>1a. [did |-> 0, at |-> at, read |-> 0] \in Process
      BY DEF Process
    <3>2. UNCHANGED <<driver, schema, origin, ignored>>
      BY <2>1 DEF Start, Stop
    <3>3. opener'[o] = [did |-> 0, at |-> at, read |-> 0]
      BY <3>1 DEF SchemaInv
    <3>4. Statements' = Statements /\ Len(Statements) \in 1..5
      BY <3>2, Program DEF Statements, SchemaInv, DatabaseInv
    <3>5a. Ran(o)' = {}
      BY <3>3 DEF Ran
    <3>5. OpenerInv(o)'
      BY <3>3, <3>4, <3>5a DEF OpenerInv, At
    <3> QED
      BY <3>1, <3>1a, <3>2, <3>5 DEF SchemaInv, DatabaseInv, Grown
  <2>2. CASE InitSchema(o)
    <3> DEFINE s == Statements[opener[o].did + 1]
    <3>1. /\ opener[o].did \in 0..(Len(Statements) - 1) /\ Len(Statements) \in 1..5
          /\ s \in {"tables", "indexes", "meta", "batch"} \cup Columns
      BY <2>0, <2>2, Program DEF InitSchema, At, OpenerInv, SchemaInv, DatabaseInv
    <3>2. UNCHANGED <<driver, origin, ignored>> /\ schema' = Execute(schema, s) /\ opener' = Advanced(o)
      BY <2>2 DEF InitSchema
    <3> HIDE DEF s
    <3>3. /\ DatabaseInv' /\ Grown
          /\ s \in {"tables", "batch"} => schema'.table
          /\ s \in {"indexes", "batch"} => schema'.indexes = Indexes
          /\ s \in {"meta", "batch"} => schema'.version # Unset
          /\ s = "batch" => schema'.columns = Columns
          /\ s \in Columns => s \in schema'.columns
      BY <3>1, <3>2, Executed DEF SchemaInv
    <3> QED
      BY <2>0, <2>2, <3>1, <3>2, <3>3, Went DEF s, InitSchema
  <2>3. CASE InitBusy(o)
    <3>1. UNCHANGED <<driver, schema, origin>>
      BY <2>3 DEF InitBusy
    <3>2. DatabaseInv' /\ (ignored => ignored') => Grown
      BY <3>1 DEF Grown, SchemaInv, DatabaseInv
    <3>3. CASE driver \in {"sqlite", "async_graph"} /\ Statements[opener[o].did + 1] \in Columns
      <4>1. opener' = Advanced(o) /\ ignored' = TRUE
        BY <2>3, <3>3 DEF InitBusy
      <4>2. /\ opener[o].did \in 0..(Len(Statements) - 1) /\ Len(Statements) \in 1..5
            /\ Statements[opener[o].did + 1] \notin {"tables", "indexes", "meta", "batch"}
        BY <2>0, <2>3, <3>3, Program DEF InitBusy, At, OpenerInv, SchemaInv, DatabaseInv, Columns
      <4>3. DatabaseInv' /\ Grown /\ Lite
        BY <3>1, <3>2, <3>3, <4>1 DEF SchemaInv, DatabaseInv, Lite
      <4> QED
        BY <2>0, <2>3, <4>1, <4>2, <4>3, Went DEF InitBusy
    <3>4. CASE ~(driver \in {"sqlite", "async_graph"} /\ Statements[opener[o].did + 1] \in Columns)
      <4>1. opener' = [opener EXCEPT ![o].at = "down"] /\ UNCHANGED ignored
        BY <2>3, <3>4 DEF InitBusy
      <4> DEFINE next == [opener[o] EXCEPT !.at = "down"]
      <4>2. next \in Process /\ next.did = opener[o].did /\ next.at = "down" /\ next.read = opener[o].read
        BY <2>0 DEF Process
      <4>2a. opener' = [opener EXCEPT ![o] = next]
        BY <4>1
      <4> HIDE DEF next
      <4>2b. opener'[o] = next
        BY <4>2, <4>2a, <2>a
      <4>3a. DatabaseInv' /\ Grown
        BY <3>1, <3>2, <4>1 DEF SchemaInv, DatabaseInv
      <4>3b. Statements' = Statements /\ Lite' = Lite
        BY <3>1 DEF Statements, Lite
      <4>3. Ran(o)' = Ran(o)
        BY <3>1, <4>2, <4>2b, <4>3b DEF Ran
      <4>4. OpenerInv(o)'
        BY <2>0, <3>1, <4>1, <4>2, <4>2b, <4>3, <4>3b DEF OpenerInv, At
      <4> QED
        BY <4>2, <4>2a, <4>3a, <4>4
    <3> QED
      BY <3>3, <3>4
  <2>4. CASE ReadVersion(o)
    <3>1. UNCHANGED <<driver, schema, origin, ignored>>
      BY <2>4 DEF ReadVersion
    <3> DEFINE at == IF schema.version = 4 THEN "open" ELSE "migrating"
    <3>2. schema.version # Unset /\ schema.version \in 1..4 /\ driver # "async_graph"
          /\ opener[o].did = Len(Statements) /\ Len(Statements) \in 1..5
      BY <2>0, <2>4, Ended DEF ReadVersion, SchemaInv, DatabaseInv, OpenerInv, At
    <3> DEFINE next == [[opener[o] EXCEPT !.read = schema.version] EXCEPT !.at = at]
    <3>2a. schema.version >= 4 <=> schema.version = 4
      BY <3>2
    <3>2b. opener' = [opener EXCEPT ![o].read = schema.version, ![o].at = at]
      BY <2>4, <3>2, <3>2a DEF ReadVersion
    <3>3. opener' = [opener EXCEPT ![o] = next]
      BY <3>2b DEF SchemaInv
    <3>2c. at \in {"down", "init", "created", "migrating", "open"} /\ schema.version \in Nat
      BY <3>2
    <3>4. next \in Process /\ next.did = opener[o].did /\ next.at = at /\ next.read = schema.version
      <4> HIDE DEF at
      <4> QED
        BY <3>2c, <2>0 DEF Process
    <3> HIDE DEF next
    <3>4a. opener'[o] = next
      BY <3>3, <3>4, <2>a
    <3>5. Statements' = Statements /\ Lite' = Lite
      BY <3>1 DEF Statements, Lite
    <3>5a. Ran(o)' = Ran(o)
      BY <3>1, <3>4, <3>4a, <3>5 DEF Ran
    <3>6. OpenerInv(o)'
      BY <2>0, <3>1, <3>2, <3>4, <3>4a, <3>5, <3>5a DEF OpenerInv, At
    <3> QED
      BY <3>1, <3>3, <3>4, <3>6 DEF SchemaInv, DatabaseInv, Grown
  <2>5. CASE Migrate(o)
    <3>1. UNCHANGED <<driver, origin, ignored>> /\ schema' = Migrated(schema, opener[o].read)
      BY <2>5 DEF Migrate
    <3>2. /\ opener[o].read \in 1..3 /\ schema.version # Unset /\ driver # "async_graph"
          /\ opener[o].did = Len(Statements) /\ Len(Statements) \in 1..5
      BY <2>0, <2>5, Ended DEF Migrate, SchemaInv, OpenerInv, At
    <3>2a. PICK indexes \in SUBSET Indexes :
              /\ schema.indexes \subseteq indexes
              /\ indexes = schema.indexes \cup (IF opener[o].read < 2 THEN {"created"} ELSE {})
                                           \cup (IF opener[o].read < 3 THEN {"relation"} ELSE {})
      BY DEF SchemaInv, DatabaseInv, Indexes
    <3>2b. schema' = [schema EXCEPT !.indexes = indexes, !.columns = Columns, !.version = 4]
      <4>1. /\ (IF opener[o].read < 4 THEN Columns ELSE schema.columns) = Columns
            /\ (IF schema.version = Unset THEN Unset ELSE GRAPH_SCHEMA_VERSION) = 4
        BY <3>2
      <4> QED
        BY <3>1, <3>2a, <4>1, Zenon DEF Migrated
    <3>3. /\ schema'.table = schema.table /\ schema'.columns = Columns /\ schema'.version = 4
          /\ schema'.indexes = indexes
          /\ schema' \in [table : BOOLEAN, columns : SUBSET Columns, version : {1, 2, 3, 4, Unset}, indexes : SUBSET Indexes]
      BY <3>2a, <3>2b DEF SchemaInv, DatabaseInv
    <3>4. DatabaseInv' /\ Grown
      BY <3>1, <3>2, <3>2a, <3>3 DEF SchemaInv, DatabaseInv, Grown
    <3> DEFINE next == [opener[o] EXCEPT !.at = "open"]
    <3>5. next \in Process /\ next.did = opener[o].did /\ next.at = "open" /\ next.read = opener[o].read
      BY <2>0 DEF Process
    <3>5a. opener' = [opener EXCEPT ![o] = next]
      BY <2>5 DEF Migrate
    <3> HIDE DEF next
    <3>5b. opener'[o] = next
      BY <3>5, <3>5a, <2>a
    <3>6. Statements' = Statements /\ Lite' = Lite
      BY <3>1 DEF Statements, Lite
    <3>6a. Ran(o)' = Ran(o)
      BY <3>1, <3>5, <3>5b, <3>6 DEF Ran
    <3>7. OpenerInv(o)'
      BY <2>0, <3>1, <3>2, <3>3, <3>4, <3>5, <3>5b, <3>6, <3>6a DEF OpenerInv, At, Grown
    <3> QED
      BY <3>4, <3>5, <3>5a, <3>7
  <2> QED
    BY <1>1, <2>1, <2>2, <2>3, <2>4, <2>5 DEF SchemaStep
<1> QED
  BY <1>0, <1>1

(* Whoever has the graph open can use it.                                  *)
THEOREM OpensUsable == SchemaSpec => []OpenedUsable
<1>1. SchemaInv => OpenedUsable
  <2> SUFFICES ASSUME SchemaInv, NEW o \in Openers, At(o, "open")
               PROVE  /\ schema.table /\ schema.indexes = Indexes
                      /\ schema.columns = Columns \/ (ignored /\ (origin = Unset \/ driver = "async_graph"))
                      /\ schema.version = 4 \/ (driver = "async_graph" /\ schema.version = origin)
    BY SchemaAssumption DEF OpenedUsable
  <2>1. OpenerInv(o) /\ DatabaseInv /\ opener[o].did = Len(Statements)
    BY DEF SchemaInv, OpenerInv, At
  <2>2. /\ schema.table /\ schema.indexes = Indexes /\ schema.version # Unset
        /\ schema.columns = Columns \/ (ignored /\ Lite)
    BY <2>1, Ended
  <2> QED
    BY <2>1, <2>2, SchemaAssumption DEF OpenerInv, DatabaseInv, Lite, At
<1> QED
  BY <1>1, InitGraph, StepGraph, PTL DEF SchemaSpec

----------------------------------------------------------------------------
(* The databases under calls.                                              *)

Databases ==
  {db \in [nodes : [Ids -> NodeRecords \cup {None}], edges : SUBSET Edges] : IsFiniteSet(db.edges)}

(* What becomes of a node and what does not.                               *)
Keeps(old, new) == new.created = old.created /\ new.count >= old.count /\ new.accessed >= old.accessed

(* A call may leave a SQLite database so, and a PostgreSQL database so.    *)
LiteBecomes(db) ==
  /\ db \in Databases
  /\ \A id \in Present(db) : db.nodes[id].accessed <= now /\ (id \in Present(lite) => Keeps(lite.nodes[id], db.nodes[id]))

PgBecomes(db) ==
  /\ db \in Databases
  /\ \A id \in Present(db) :
       db.nodes[id].created = now \/ (id \in Present(pg) /\ db.nodes[id].created = pg.nodes[id].created)

NodesInv ==
  /\ now \in 1..Horizon
  /\ lite \in Databases /\ \A id \in Present(lite) : lite.nodes[id].accessed <= now
  /\ pg \in Databases /\ \A id \in Present(pg) : pg.nodes[id].created <= now
  /\ writer # None => writer.id \in Ids /\ writer.node \in NodeRecords /\ writer.node.accessed <= now

(* The copying tool writes nodes as it read them,                          *)
SameText(x, y) ==
  /\ x.title = y.title /\ x.text = y.text /\ x.tags = y.tags
  /\ x.importance = y.importance /\ x.updated = y.updated /\ x.verified = y.verified

Alike(written, read, from) ==
  /\ SameText(written, read)
  /\ from = "sqlite" => written = read
  /\ written.count >= read.count /\ written.accessed >= read.accessed /\ written.created <= read.created

ReadNodes == IF tool.at \in {"nodes", "read", "done"} THEN DOMAIN tool.nodes ELSE {}

(* and of what came from PostgreSQL, which forgets when a node was created *)
(* when it is written again, has none that is younger than where it came   *)
(* from.                                                                   *)
NotYounger ==
  /\ \A id \in Present(copy) :
       /\ copy.nodes[id].created <= now
       /\ id \in Present(pg) => copy.nodes[id].created <= pg.nodes[id].created
       /\ id \in ReadNodes => copy.nodes[id].created <= tool.nodes[id].created
  /\ \A id \in ReadNodes :
       /\ tool.nodes[id].created <= now
       /\ id \in Present(pg) => tool.nodes[id].created <= pg.nodes[id].created

ToolInv ==
  /\ tool = [at |-> tool.at, from |-> tool.from, ids |-> tool.ids, nodes |-> tool.nodes, edges |-> tool.edges,
             left |-> tool.left]
  /\ tool.at \in {"idle", "listed", "nodes", "read", "done"}
  /\ tool.from \in {None, "sqlite", "postgres"}
  /\ copy \in Databases
  /\ tool.from = None => tool.at = "idle" /\ copy = Empty
  /\ tool.ids \subseteq Ids
  /\ tool.edges \subseteq Edges /\ IsFiniteSet(tool.edges)
  /\ ReadNodes \subseteq Ids /\ \A id \in ReadNodes : tool.nodes[id] \in NodeRecords
  /\ tool.from = "postgres" => NotYounger
  /\ tool.at = "done" => tool.left = {} /\ \A e \in tool.edges : Clashes(copy, e)
  /\ tool.left \subseteq ReadNodes
  /\ tool.at \in {"read", "done"} =>
       \A id \in ReadNodes \ tool.left : id \in Present(copy) /\ Alike(copy.nodes[id], tool.nodes[id], tool.from)

(* The parts of a database.                                                *)
LEMMA Parts ==
  ASSUME NEW db \in Databases
  PROVE  /\ db.nodes \in [Ids -> NodeRecords \cup {None}] /\ db.edges \in SUBSET Edges /\ IsFiniteSet(db.edges)
         /\ db = [nodes |-> db.nodes, edges |-> db.edges]
         /\ \A id \in Present(db) : id \in Ids /\ db.nodes[id] \in NodeRecords
  BY DEF Databases, Present

(* A database with other nodes.                                            *)
LEMMA OtherNodes ==
  ASSUME NEW db \in Databases, NEW nodes \in [Ids -> NodeRecords \cup {None}]
  PROVE  /\ [db EXCEPT !.nodes = nodes] \in Databases
         /\ [db EXCEPT !.nodes = nodes].nodes = nodes /\ [db EXCEPT !.nodes = nodes].edges = db.edges
  BY DEF Databases

(* A database with other edges.                                            *)
LEMMA OtherEdges ==
  ASSUME NEW db \in Databases, NEW edges \in SUBSET Edges, IsFiniteSet(edges)
  PROVE  /\ [db EXCEPT !.edges = edges] \in Databases
         /\ [db EXCEPT !.edges = edges].nodes = db.nodes /\ [db EXCEPT !.edges = edges].edges = edges
  BY DEF Databases

(* A database with another node.                                           *)
LEMMA OtherNode ==
  ASSUME NEW db \in Databases, NEW id \in Ids, NEW node \in NodeRecords \cup {None}
  PROVE  /\ [db EXCEPT !.nodes[id] = node] \in Databases
         /\ [db EXCEPT !.nodes[id] = node].edges = db.edges
         /\ [db EXCEPT !.nodes[id] = node].nodes[id] = node
         /\ \A other \in Ids \ {id} : [db EXCEPT !.nodes[id] = node].nodes[other] = db.nodes[other]
  BY DEF Databases

(* Fewer edges.                                                            *)
LEMMA FewerEdges ==
  ASSUME NEW db \in Databases, NEW edges, edges \subseteq db.edges
  PROVE  /\ [db EXCEPT !.edges = edges] \in Databases
         /\ [db EXCEPT !.edges = edges].nodes = db.nodes
<1>1. edges \in SUBSET Edges /\ IsFiniteSet(edges)
  BY Parts, FS_Subset
<1> QED
  BY <1>1, OtherEdges

(* A node written over another.                                            *)
LEMMA Upserted ==
  ASSUME NEW db \in Databases, NEW id \in Ids, NEW node \in NodeRecords
  PROVE  LET new == UpsertNode(db, id, node) IN
         /\ new \in Databases /\ new.edges = db.edges
         /\ \A other \in Ids \ {id} : new.nodes[other] = db.nodes[other]
         /\ new.nodes[id] \in NodeRecords
         /\ new.nodes[id].title = node.title /\ new.nodes[id].text = node.text /\ new.nodes[id].tags = node.tags
         /\ new.nodes[id].importance = node.importance /\ new.nodes[id].updated = node.updated
         /\ new.nodes[id].verified = node.verified
         /\ new.nodes[id].count >= node.count /\ new.nodes[id].accessed >= node.accessed
         /\ id \notin Present(db) => new.nodes[id] = node
         /\ id \in Present(db) => /\ Keeps(db.nodes[id], new.nodes[id])
                                  /\ new.nodes[id].accessed \in {db.nodes[id].accessed, node.accessed}
<1>1. CASE id \notin Present(db)
  <2>1. UpsertNode(db, id, node) = [db EXCEPT !.nodes[id] = node]
    BY <1>1 DEF UpsertNode, Present
  <2>2. node.count >= node.count /\ node.accessed >= node.accessed
    BY DEF NodeRecords
  <2> QED
    BY <1>1, <2>1, <2>2, OtherNode
<1>2. CASE id \in Present(db)
  <2>1. PICK old \in NodeRecords : old = db.nodes[id]
    BY <1>2, Parts
  <2> DEFINE new == [node EXCEPT !.created = old.created, !.count = Later(old.count, node.count),
                                 !.accessed = Later(old.accessed, node.accessed)]
  <2>2. UpsertNode(db, id, node) = [db EXCEPT !.nodes[id] = new]
    BY <1>2, <2>1 DEF UpsertNode, Present
  <2>3. /\ Later(old.count, node.count) \in Nat /\ Later(old.accessed, node.accessed) \in {old.accessed, node.accessed}
        /\ Later(old.count, node.count) >= old.count /\ Later(old.count, node.count) >= node.count
        /\ Later(old.accessed, node.accessed) >= old.accessed /\ Later(old.accessed, node.accessed) >= node.accessed
        /\ old.accessed \in Nat /\ node.accessed \in Nat /\ old.created \in Nat
    BY DEF NodeRecords, Later
  <2>4. /\ new \in NodeRecords /\ new.created = old.created
        /\ new.count = Later(old.count, node.count) /\ new.accessed = Later(old.accessed, node.accessed)
        /\ new.title = node.title /\ new.text = node.text /\ new.tags = node.tags
        /\ new.importance = node.importance /\ new.updated = node.updated /\ new.verified = node.verified
    <3>1. PICK count \in Nat, accessed \in Nat :
             count = Later(old.count, node.count) /\ accessed = Later(old.accessed, node.accessed)
      BY <2>3
    <3> QED
      BY <2>3, <3>1 DEF NodeRecords
  <2> HIDE DEF new
  <2>5. /\ [db EXCEPT !.nodes[id] = new] \in Databases
        /\ [db EXCEPT !.nodes[id] = new].edges = db.edges
        /\ [db EXCEPT !.nodes[id] = new].nodes[id] = new
        /\ \A other \in Ids \ {id} : [db EXCEPT !.nodes[id] = new].nodes[other] = db.nodes[other]
    BY <2>4, OtherNode
  <2> QED
    BY <1>2, <2>1, <2>2, <2>3, <2>4, <2>5 DEF Keeps
<1> QED
  BY <1>1, <1>2

(* A node that is read, aged, found stale or verified stays what it was.   *)
Aged(old, new, t) ==
  new \in NodeRecords /\ new.created = old.created /\ new.count >= old.count /\ new.accessed \in {old.accessed, t}

(* So does a node that is not touched.                                     *)
LEMMA NodesAge ==
  ASSUME NEW n \in NodeRecords, NEW t \in Nat
  PROVE  /\ Aged(n, n, t) /\ Aged(n, Touched(n, t), t)
         /\ Aged(n, [n EXCEPT !.importance = Later(1, n.importance - 1)], t)
         /\ Aged(n, [n EXCEPT !.tags = n.tags \cup {"stale"}], t)
         /\ Aged(n, [n EXCEPT !.verified = t], t)
<1>1. PICK T, U, V :
        /\ T = {m.title : m \in Written} /\ U = {m.text : m \in Written}
        /\ V = SUBSET ({"stale"} \cup UNION {m.tags : m \in Written})
        /\ n.tags \cup {"stale"} \in V
        /\ NodeRecords = [title : T, text : U, tags : V, importance : Nat, created : Nat, updated : Nat, count : Nat,
                          accessed : Nat, verified : Nat]
  <2> DEFINE T == {m.title : m \in Written}
             U == {m.text : m \in Written}
             V == SUBSET ({"stale"} \cup UNION {m.tags : m \in Written})
  <2>1. NodeRecords = [title : T, text : U, tags : V, importance : Nat, created : Nat, updated : Nat, count : Nat,
                       accessed : Nat, verified : Nat]
    BY DEF NodeRecords
  <2>2. n.tags \in V
    <3> HIDE DEF T, U, V
    <3> QED
      BY <2>1
  <2>3. n.tags \cup {"stale"} \in V
    BY <2>2
  <2> QED
    BY <2>1, <2>3
<1>2. n.count \in Nat /\ n.importance \in Nat /\ n.count + 1 >= n.count /\ n.count >= n.count
  BY <1>1
<1>3. PICK i \in Nat, c \in Nat, v \in V : i = Later(1, n.importance - 1) /\ c = n.count + 1 /\ v = n.tags \cup {"stale"}
  <2>1. Later(1, n.importance - 1) \in Nat /\ n.count + 1 \in Nat
    BY <1>2 DEF Later
  <2> QED
    BY <1>1, <2>1
<1>4. Aged(n, n, t)
  BY <1>2 DEF Aged
<1>5. Aged(n, [n EXCEPT !.count = c, !.accessed = t], t)
  BY <1>1, <1>2, <1>3 DEF Aged
<1>6. Aged(n, [n EXCEPT !.importance = i], t) /\ Aged(n, [n EXCEPT !.verified = t], t)
  BY <1>1, <1>2 DEF Aged
<1>7. Aged(n, [n EXCEPT !.tags = v], t)
  BY <1>1, <1>2 DEF Aged
<1> QED
  BY <1>3, <1>4, <1>5, <1>6, <1>7 DEF Touched

(* The nodes of a database that age.                                       *)
NodesAged(db, new, t) ==
  /\ new \in Databases /\ new.edges = db.edges
  /\ \A id \in Ids : IF db.nodes[id] = None THEN new.nodes[id] = None ELSE Aged(db.nodes[id], new.nodes[id], t)

(* They may be written in one table.                                       *)
LEMMA SomeAge ==
  ASSUME NEW db \in Databases, NEW t \in Nat, NEW nodes,
         \A id \in Ids : IF db.nodes[id] = None THEN nodes[id] = None ELSE Aged(db.nodes[id], nodes[id], t),
         nodes = [id \in Ids |-> nodes[id]]
  PROVE  NodesAged(db, [db EXCEPT !.nodes = nodes], t)
<1>1. nodes \in [Ids -> NodeRecords \cup {None}]
  <2>1. \A id \in Ids : nodes[id] \in NodeRecords \cup {None}
    BY DEF Aged
  <2> QED
    BY <2>1
<1> QED
  BY <1>1, OtherNodes DEF NodesAged

(* Four statements age them.                                               *)
LEMMA DatabaseAges ==
  ASSUME NEW db \in Databases, NEW t \in Nat
  PROVE  /\ \A ids : NodesAged(db, TouchNodes(db, ids, t), t) /\ NodesAged(db, PgTouch(db, ids, t), t)
         /\ NodesAged(db, DecayImportance(db, t, 1), t)
         /\ NodesAged(db, TagStaleNodes(db, t), t)
         /\ \A id : NodesAged(db, MarkVerified(db, id, t), t)
<1>1. ASSUME NEW id \in Ids, db.nodes[id] # None
      PROVE  LET n == db.nodes[id] IN
             /\ Aged(n, n, t) /\ Aged(n, Touched(n, t), t)
             /\ Aged(n, [n EXCEPT !.importance = Later(1, n.importance - 1)], t)
             /\ Aged(n, [n EXCEPT !.tags = n.tags \cup {"stale"}], t)
             /\ Aged(n, [n EXCEPT !.verified = t], t)
  <2>1. db.nodes[id] \in NodeRecords
    BY <1>1, Parts DEF Present
  <2> QED
    BY <2>1, NodesAge
<1>2. ASSUME NEW ids PROVE NodesAged(db, TouchNodes(db, ids, t), t) /\ NodesAged(db, PgTouch(db, ids, t), t)
  <2> DEFINE nodes == [id \in Ids |-> IF db.nodes[id] # None /\ id \in ids THEN Touched(db.nodes[id], t) ELSE db.nodes[id]]
  <2>1. \A id \in Ids : IF db.nodes[id] = None THEN nodes[id] = None ELSE Aged(db.nodes[id], nodes[id], t)
    BY <1>1
  <2>2. nodes = [id \in Ids |-> nodes[id]]
    OBVIOUS
  <2>3. TouchNodes(db, ids, t) = [db EXCEPT !.nodes = nodes]
    BY DEF TouchNodes, Update
  <2>4. PgTouch(db, ids, t) = [db EXCEPT !.nodes = nodes]
    <3>1. [id \in Ids |-> IF id \in ids /\ db.nodes[id] # None THEN Touched(db.nodes[id], t) ELSE db.nodes[id]] = nodes
      OBVIOUS
    <3> QED
      BY <3>1 DEF PgTouch
  <2> HIDE DEF nodes
  <2> QED
    BY <2>1, <2>2, <2>3, <2>4, SomeAge
<1>3. NodesAged(db, DecayImportance(db, t, 1), t)
  <2> DEFINE nodes == [id \in Ids |-> IF db.nodes[id] # None /\ Decays(db.nodes[id], t, 1)
                                      THEN [db.nodes[id] EXCEPT !.importance = Later(1, db.nodes[id].importance - 1)]
                                      ELSE db.nodes[id]]
  <2>1. \A id \in Ids : IF db.nodes[id] = None THEN nodes[id] = None ELSE Aged(db.nodes[id], nodes[id], t)
    BY <1>1
  <2>2. nodes = [id \in Ids |-> nodes[id]]
    OBVIOUS
  <2>3. DecayImportance(db, t, 1) = [db EXCEPT !.nodes = nodes]
    BY DEF DecayImportance, Update
  <2> HIDE DEF nodes
  <2> QED
    BY <2>1, <2>2, <2>3, SomeAge
<1>4. NodesAged(db, TagStaleNodes(db, t), t)
  <2> DEFINE nodes == [id \in Ids |-> IF db.nodes[id] # None /\ db.nodes[id].updated < t
                                      THEN [db.nodes[id] EXCEPT !.tags = db.nodes[id].tags \cup {"stale"}]
                                      ELSE db.nodes[id]]
  <2>1. \A id \in Ids : IF db.nodes[id] = None THEN nodes[id] = None ELSE Aged(db.nodes[id], nodes[id], t)
    BY <1>1
  <2>2. nodes = [id \in Ids |-> nodes[id]]
    OBVIOUS
  <2>3. TagStaleNodes(db, t) = [db EXCEPT !.nodes = nodes]
    BY DEF TagStaleNodes, Update
  <2> HIDE DEF nodes
  <2> QED
    BY <2>1, <2>2, <2>3, SomeAge
<1>5. ASSUME NEW i PROVE NodesAged(db, MarkVerified(db, i, t), t)
  <2> DEFINE nodes == [id \in Ids |-> IF db.nodes[id] # None /\ id = i
                                      THEN [db.nodes[id] EXCEPT !.verified = t]
                                      ELSE db.nodes[id]]
  <2>1. \A id \in Ids : IF db.nodes[id] = None THEN nodes[id] = None ELSE Aged(db.nodes[id], nodes[id], t)
    BY <1>1
  <2>2. nodes = [id \in Ids |-> nodes[id]]
    OBVIOUS
  <2>3. MarkVerified(db, i, t) = [db EXCEPT !.nodes = nodes]
    BY DEF MarkVerified, Update
  <2> HIDE DEF nodes
  <2> QED
    BY <2>1, <2>2, <2>3, SomeAge
<1> QED
  BY <1>2, <1>3, <1>4, <1>5

(* Edges appended: the nodes stay, no edge goes, and each of the batch is  *)
(* there or clashes with one that is.                                      *)
Appended(db, new, batch) ==
  /\ new \in Databases /\ new.nodes = db.nodes /\ db.edges \subseteq new.edges
  /\ \A i \in DOMAIN batch : Clashes(new, batch[i])

(* One edge more.                                                          *)
LEMMA EdgeAppended ==
  ASSUME NEW db \in Databases, NEW edge \in Edges
  PROVE  LET new == AppendEdge(db, edge) IN
         new \in Databases /\ new.nodes = db.nodes /\ db.edges \subseteq new.edges /\ Clashes(new, edge)
<1>1. CASE Clashes(db, edge)
  BY <1>1 DEF AppendEdge
<1>2. CASE ~Clashes(db, edge)
  <2>1. PICK edges : edges = db.edges \cup {edge} /\ edges \in SUBSET Edges /\ IsFiniteSet(edges)
    <3>1. db.edges \in SUBSET Edges /\ IsFiniteSet(db.edges)
      BY Parts
    <3>2. IsFiniteSet(db.edges \cup {edge})
      BY <3>1, FS_AddElement
    <3> QED
      BY <3>1, <3>2
  <2>2. AppendEdge(db, edge) = [db EXCEPT !.edges = edges]
    BY <1>2, <2>1 DEF AppendEdge
  <2>3. [db EXCEPT !.edges = edges] \in Databases /\ [db EXCEPT !.edges = edges].nodes = db.nodes
        /\ [db EXCEPT !.edges = edges].edges = edges
    BY <2>1, OtherEdges
  <2> QED
    BY <2>1, <2>2, <2>3 DEF Clashes
<1> QED
  BY <1>1, <1>2

(* A batch is appended edge by edge.                                       *)
LEMMA AppendFold ==
  ASSUME NEW db \in Databases, NEW batch \in Seq(Edges)
  PROVE  /\ FoldLeft(PgAppendEdge, db, batch) = FoldLeft(AppendEdge, db, batch)
         /\ \E p \in [0..Len(batch) -> Databases] :
              /\ p[0] = db /\ p[Len(batch)] = FoldLeft(AppendEdge, db, batch)
              /\ \A k \in 1..Len(batch) : p[k] = AppendEdge(p[k - 1], batch[k])
<1> DEFINE last == Len(batch)
           op == [q \in (1..last) \X Databases |-> AppendEdge(q[2], batch[q[1]])]
           P(h) == h = [s \in SUBSET (1..last) |-> IF s = {} THEN db ELSE AppendEdge(h[s \ {Max(s)}], batch[Max(s)])]
           fold == CHOOSE h : P(h)
<1>0. last \in Nat /\ DOMAIN batch = 1..last /\ \A k \in 1..last : batch[k] \in Edges
  BY LenProperties, ElementOfSeq
<1> HIDE DEF last
<1>1. op \in [(1..last) \X Databases -> Databases]
  <2>1. ASSUME NEW q \in (1..last) \X Databases PROVE AppendEdge(q[2], batch[q[1]]) \in Databases
    BY <1>0, <2>1, EdgeAppended
  <2> QED
    BY <2>1
<1>3. P(fold)
  <2>1. PICK g \in [SUBSET (1..last) -> Databases] : Computes(g, last, Databases, db, op)
    <3> HIDE DEF op
    <3> QED
      BY <1>0, <1>1, LeftRecursion
  <2>2. P(g)
    <3>1. \A s \in SUBSET (1..last) : s # {} => g[s] = AppendEdge(g[s \ {Max(s)}], batch[Max(s)])
      BY <2>1 DEF Computes
    <3> QED
      BY <2>1, <3>1 DEF Computes
  <2> HIDE DEF P
  <2> QED
    BY <2>2
<1>4. FoldLeft(AppendEdge, db, batch) = fold[1..last]
  BY <1>0 DEF FoldLeft, MapThenFoldSet
<1>4a. FoldLeft(PgAppendEdge, db, batch) = FoldLeft(AppendEdge, db, batch)
  BY DEF FoldLeft, MapThenFoldSet, PgAppendEdge, AppendEdge, Clashes
<1>5. Follows(fold, last, Databases, db, op)
  <2>1. ASSUME NEW h, P(h) PROVE Follows(h, last, Databases, db, op)
    <3>1. \A s \in SUBSET (1..last) : s # {} => Max(s) \in 1..last
      BY <1>0, GreatestChooses DEF Chooses
    <3>2. h[{}] = db
      BY <2>1
    <3>3. ASSUME NEW s \in SUBSET (1..last), s # {}, h[s \ {Max(s)}] \in Databases
          PROVE  h[s] = op[<<Max(s), h[s \ {Max(s)}]>>]
      <4>1. h[s] = AppendEdge(h[s \ {Max(s)}], batch[Max(s)])
        BY <2>1, <3>3
      <4>2. <<Max(s), h[s \ {Max(s)}]>> \in (1..last) \X Databases
        BY <3>1, <3>3
      <4> QED
        BY <4>1, <4>2
    <3> QED
      BY <3>2, <3>3 DEF Follows
  <2> HIDE DEF P, fold
  <2> QED
    BY <1>3, <2>1
<1>6. PICK p \in [0..last -> Databases] : p[last] = fold[1..last] /\ Passes(p, last, db, op)
  <2> HIDE DEF op, fold
  <2> QED
    BY <1>0, <1>1, <1>5, LeftFold
<1>7. ASSUME NEW k \in 1..last PROVE p[k] = AppendEdge(p[k - 1], batch[k])
  <2>1. k - 1 \in 0..last
    BY <1>0
  <2> QED
    BY <1>6, <2>1 DEF Passes
<1> QED
  BY <1>4, <1>4a, <1>6, <1>7 DEF last, Passes

(* What a batch leaves.                                                    *)
LEMMA BatchAppended ==
  ASSUME NEW db \in Databases, NEW batch \in Seq(Edges)
  PROVE  Appended(db, FoldLeft(AppendEdge, db, batch), batch)
<1>1. PICK last \in Nat : last = Len(batch) /\ DOMAIN batch = 1..last /\ \A k \in 1..last : batch[k] \in Edges
  BY LenProperties, ElementOfSeq
<1>2. PICK p \in [0..last -> Databases] :
        /\ p[0] = db /\ p[last] = FoldLeft(AppendEdge, db, batch)
        /\ \A k \in 1..last : p[k] = AppendEdge(p[k - 1], batch[k])
  <2>1. \E p \in [0..Len(batch) -> Databases] :
          /\ p[0] = db /\ p[Len(batch)] = FoldLeft(AppendEdge, db, batch)
          /\ \A k \in 1..Len(batch) : p[k] = AppendEdge(p[k - 1], batch[k])
    BY AppendFold
  <2> QED
    BY <1>1, <2>1
<1> DEFINE Q(k) == /\ p[k].nodes = db.nodes /\ db.edges \subseteq p[k].edges
                   /\ \A i \in 1..k : Clashes(p[k], batch[i])
           U == {k \in 0..last : ~Q(k)}
<1>3. U = {}
  <2>1. U \subseteq 0..last /\ 0 \notin U
    BY <1>2
  <2>2. ASSUME NEW k \in 1..last, k - 1 \notin U PROVE k \notin U
    <3>1. k - 1 \in 0..last /\ k \in 0..last /\ 1..k = (1..(k - 1)) \cup {k}
      OBVIOUS
    <3>2. Q(k - 1)
      BY <2>2, <3>1
    <3>3. p[k].nodes = p[k - 1].nodes /\ p[k - 1].edges \subseteq p[k].edges /\ Clashes(p[k], batch[k])
      <4>1. PICK old \in Databases, edge \in Edges : old = p[k - 1] /\ edge = batch[k]
        BY <1>1, <1>2, <3>1
      <4>2. LET new == AppendEdge(old, edge) IN
            new.nodes = old.nodes /\ old.edges \subseteq new.edges /\ Clashes(new, edge)
        BY EdgeAppended
      <4> QED
        BY <1>2, <4>1, <4>2
    <3>4. \A i \in 1..(k - 1) : Clashes(p[k], batch[i])
      BY <3>2, <3>3 DEF Clashes
    <3> QED
      BY <3>1, <3>2, <3>3, <3>4
  <2> HIDE DEF U
  <2> QED
    BY <1>1, <2>1, <2>2, NothingFrom
<1>4. Q(last) /\ p[last] \in Databases
  <2>1. last \in 0..last
    OBVIOUS
  <2> QED
    BY <1>2, <1>3, <2>1
<1> QED
  BY <1>1, <1>2, <1>4 DEF Appended

(* Of a batch, what some chunks of it leave.                               *)
LEMMA PartAppended ==
  ASSUME NEW db \in Databases, NEW batch \in Seq(Edges), NEW done \in Nat
  PROVE  LET new == PgAppendEdges(db, batch, done) IN
         /\ new \in Databases /\ new.nodes = db.nodes
         /\ Chunks(batch) \in Nat /\ (done >= Chunks(batch) => Appended(db, new, batch))
<1>1. PICK last \in Nat : last = Len(batch) /\ DOMAIN batch = 1..last /\ \A i \in 1..last : batch[i] \in Edges
  BY LenProperties, ElementOfSeq
<1>2. PICK m \in Nat, size \in Nat \ {0} : m = done * size /\ size = Chunk
  BY SessionsAssumption
<1>3. PICK k \in 0..last : k = (IF m < last THEN m ELSE last)
  BY <1>1, <1>2
<1>4. PICK part : part = SubSeq(batch, 1, k)
  OBVIOUS
<1>5. part = [i \in 1..k |-> batch[i]]
  BY <1>1, <1>3, <1>4
<1>6. part \in Seq(Edges)
  <2>1. k \in Nat /\ \A i \in 1..k : batch[i] \in Edges
    BY <1>1
  <2> QED
    BY <1>5, <2>1
<1>7. PgAppendEdges(db, batch, done) = FoldLeft(AppendEdge, db, part)
  <2>1. PgAppendEdges(db, batch, done) = FoldLeft(PgAppendEdge, db, part)
    BY <1>1, <1>2, <1>3, <1>4 DEF PgAppendEdges
  <2>2. FoldLeft(PgAppendEdge, db, part) = FoldLeft(AppendEdge, db, part)
    BY <1>6, AppendFold
  <2> QED
    BY <2>1, <2>2
<1>8. Appended(db, FoldLeft(AppendEdge, db, part), part)
  BY <1>6, BatchAppended
<1>9. PICK chunks \in Nat : chunks = Chunks(batch) /\ chunks * size >= last
  <2>1. PICK top \in Nat : top = last + size - 1
    <3>1. last + size - 1 \in Nat
      BY <1>1, <1>2
    <3> QED
      BY <3>1
  <2>2. PICK chunks \in Nat : chunks = top \div size
    OBVIOUS
  <2>3. PICK whole \in Nat : whole = chunks * size
    OBVIOUS
  <2>4. top < (top \div size) * size + size
    OBVIOUS
  <2>5. whole >= last
    BY <1>1, <1>2, <2>1, <2>2, <2>3, <2>4
  <2>6. Chunks(batch) = chunks
    BY <1>1, <1>2, <2>1, <2>2 DEF Chunks
  <2> QED
    BY <2>3, <2>5, <2>6
<1>10. ASSUME done >= Chunks(batch) PROVE part = batch
  <2>1. done >= chunks
    BY <1>9, <1>10
  <2>2. m >= last
    BY <1>2, <1>9, <2>1
  <2>3. k = last
    BY <1>3, <2>2
  <2>4. batch = [i \in 1..last |-> batch[i]]
    BY <1>1
  <2> QED
    BY <1>5, <2>3, <2>4
<1> QED
  BY <1>7, <1>8, <1>9, <1>10 DEF Appended

(* Nodes and edges removed.                                                *)
LEMMA Removed ==
  ASSUME NEW db \in Databases
  PROVE  /\ \A id : /\ RemoveEdgesForNode(db, id) \in Databases /\ RemoveEdgesForNode(db, id).nodes = db.nodes
                    /\ PgRemoveEdgesForNode(db, id) \in Databases /\ PgRemoveEdgesForNode(db, id).nodes = db.nodes
                    /\ DeleteEdge(db, id) \in Databases /\ DeleteEdge(db, id).nodes = db.nodes
                    /\ PgDeleteEdge(db, id) \in Databases /\ PgDeleteEdge(db, id).nodes = db.nodes
         /\ \A id \in Ids :
              /\ DeleteNode(db, id) \in Databases /\ DeleteNode(db, id).nodes[id] = None
              /\ PgDeleteNode(db, id) \in Databases /\ PgDeleteNode(db, id).nodes[id] = None
              /\ \A other \in Ids \ {id} : /\ DeleteNode(db, id).nodes[other] = db.nodes[other]
                                           /\ PgDeleteNode(db, id).nodes[other] = db.nodes[other]
<1>1. ASSUME NEW id
      PROVE  /\ RemoveEdgesForNode(db, id) \in Databases /\ RemoveEdgesForNode(db, id).nodes = db.nodes
             /\ PgRemoveEdgesForNode(db, id) \in Databases /\ PgRemoveEdgesForNode(db, id).nodes = db.nodes
             /\ DeleteEdge(db, id) \in Databases /\ DeleteEdge(db, id).nodes = db.nodes
             /\ PgDeleteEdge(db, id) \in Databases /\ PgDeleteEdge(db, id).nodes = db.nodes
  <2>1. PICK some, others, rest : /\ some = {e \in db.edges : ~Touches(e, id)}
                                  /\ others = {e \in db.edges : e.source # id /\ e.target # id}
                                  /\ rest = {e \in db.edges : e.id # id}
    OBVIOUS
  <2>2. some \subseteq db.edges /\ others \subseteq db.edges /\ rest \subseteq db.edges
    BY <2>1
  <2>3. /\ RemoveEdgesForNode(db, id) = [db EXCEPT !.edges = some]
        /\ PgRemoveEdgesForNode(db, id) = [db EXCEPT !.edges = others]
        /\ DeleteEdge(db, id) = [db EXCEPT !.edges = rest] /\ PgDeleteEdge(db, id) = [db EXCEPT !.edges = rest]
    BY <2>1 DEF RemoveEdgesForNode, PgRemoveEdgesForNode, DeleteEdge, PgDeleteEdge
  <2>4. /\ [db EXCEPT !.edges = some] \in Databases /\ [db EXCEPT !.edges = some].nodes = db.nodes
        /\ [db EXCEPT !.edges = others] \in Databases /\ [db EXCEPT !.edges = others].nodes = db.nodes
        /\ [db EXCEPT !.edges = rest] \in Databases /\ [db EXCEPT !.edges = rest].nodes = db.nodes
    BY <2>2, FewerEdges
  <2> QED
    BY <2>3, <2>4
<1>2. ASSUME NEW id \in Ids
      PROVE  /\ DeleteNode(db, id) \in Databases /\ DeleteNode(db, id).nodes[id] = None
             /\ PgDeleteNode(db, id) \in Databases /\ PgDeleteNode(db, id).nodes[id] = None
             /\ \A other \in Ids \ {id} : /\ DeleteNode(db, id).nodes[other] = db.nodes[other]
                                          /\ PgDeleteNode(db, id).nodes[other] = db.nodes[other]
  <2>1. PICK rest \in Databases : rest = RemoveEdgesForNode(db, id) /\ rest.nodes = db.nodes
    BY <1>1
  <2>2. DeleteNode(db, id) = [rest EXCEPT !.nodes[id] = None] /\ PgDeleteNode(db, id) = [db EXCEPT !.nodes[id] = None]
    BY <2>1 DEF DeleteNode, PgDeleteNode
  <2>3. None \in NodeRecords \cup {None}
    OBVIOUS
  <2> QED
    BY <2>1, <2>2, <2>3, OtherNode
<1> QED
  BY <1>1, <1>2

(* What the statements of a call make of SQLite's nodes,                   *)
LEMMA LiteStatements ==
  ASSUME NodesInv
  PROVE  /\ \A db \in Databases : db.nodes = lite.nodes => LiteBecomes(db)
         /\ \A id \in Ids : \A node \in NodeRecords : node.accessed <= now => LiteBecomes(UpsertNode(lite, id, node))
         /\ \A id \in Ids : LiteBecomes(DeleteNode(lite, id))
         /\ \A db : NodesAged(lite, db, now) => LiteBecomes(db)
<1>0. /\ lite \in Databases /\ now \in Nat
      /\ \A id \in Present(lite) : /\ id \in Ids /\ lite.nodes[id] \in NodeRecords /\ lite.nodes[id].accessed <= now
                                   /\ Keeps(lite.nodes[id], lite.nodes[id])
  <2>1. lite \in Databases /\ now \in Nat
    BY SessionsAssumption DEF NodesInv
  <2>2. \A id \in Present(lite) : id \in Ids /\ lite.nodes[id] \in NodeRecords /\ lite.nodes[id].accessed <= now
    BY <2>1, Parts DEF NodesInv
  <2>3. \A n \in NodeRecords : Keeps(n, n)
    BY DEF Keeps, NodeRecords
  <2> QED
    BY <2>1, <2>2, <2>3
<1>1. ASSUME NEW db \in Databases, db.nodes = lite.nodes PROVE LiteBecomes(db)
  BY <1>0, <1>1 DEF LiteBecomes, Present
<1>2. ASSUME NEW id \in Ids, NEW node \in NodeRecords, node.accessed <= now PROVE LiteBecomes(UpsertNode(lite, id, node))
  <2>1. PICK new : new = UpsertNode(lite, id, node)
    OBVIOUS
  <2>2. /\ new \in Databases /\ new.nodes[id] \in NodeRecords
        /\ \A other \in Ids \ {id} : new.nodes[other] = lite.nodes[other]
        /\ id \notin Present(lite) => new.nodes[id] = node
        /\ id \in Present(lite) => /\ Keeps(lite.nodes[id], new.nodes[id])
                                   /\ new.nodes[id].accessed \in {lite.nodes[id].accessed, node.accessed}
    BY <1>0, <2>1, Upserted
  <2>3. ASSUME NEW i \in Present(new)
        PROVE  new.nodes[i].accessed <= now /\ (i \in Present(lite) => Keeps(lite.nodes[i], new.nodes[i]))
    <3>1. CASE i = id
      BY <1>0, <1>2, <2>2, <3>1
    <3>2. CASE i # id
      BY <1>0, <2>2, <3>2 DEF Present
    <3> QED
      BY <3>1, <3>2
  <2> QED
    BY <2>1, <2>2, <2>3 DEF LiteBecomes
<1>3. ASSUME NEW id \in Ids PROVE LiteBecomes(DeleteNode(lite, id))
  <2>1. /\ DeleteNode(lite, id) \in Databases /\ DeleteNode(lite, id).nodes[id] = None
        /\ \A other \in Ids \ {id} : DeleteNode(lite, id).nodes[other] = lite.nodes[other]
    BY <1>0, Removed
  <2> QED
    BY <1>0, <2>1 DEF LiteBecomes, Present
<1>4. ASSUME NEW db, NodesAged(lite, db, now) PROVE LiteBecomes(db)
  <2>1. db \in Databases
    BY <1>4 DEF NodesAged
  <2>2. ASSUME NEW id \in Present(db)
        PROVE  db.nodes[id].accessed <= now /\ (id \in Present(lite) => Keeps(lite.nodes[id], db.nodes[id]))
    <3>1. id \in Ids /\ db.nodes[id] # None
      BY DEF Present
    <3>2. lite.nodes[id] # None /\ Aged(lite.nodes[id], db.nodes[id], now)
      BY <1>4, <3>1 DEF NodesAged
    <3>3. lite.nodes[id] \in NodeRecords /\ lite.nodes[id].accessed <= now
      BY <1>0, <3>1, <3>2 DEF Present
    <3>4. lite.nodes[id].accessed \in Nat
      BY <3>3 DEF NodeRecords
    <3> QED
      BY <1>0, <3>2, <3>3, <3>4 DEF Aged, Keeps
  <2> QED
    BY <2>1, <2>2 DEF LiteBecomes
<1> QED
  BY <1>1, <1>2, <1>3, <1>4

(* and of PostgreSQL's.                                                    *)
LEMMA PgStatements ==
  ASSUME NodesInv
  PROVE  /\ \A db \in Databases : db.nodes = pg.nodes => PgBecomes(db)
         /\ \A id \in Ids : \A node \in NodeRecords : node.created = now => PgBecomes(PgUpsertNode(pg, id, node))
         /\ \A id \in Ids : PgBecomes(PgDeleteNode(pg, id))
         /\ \A db : NodesAged(pg, db, now) => PgBecomes(db)
<1>0. pg \in Databases
  BY DEF NodesInv
<1>1. ASSUME NEW db \in Databases, db.nodes = pg.nodes PROVE PgBecomes(db)
  BY <1>1 DEF PgBecomes, Present
<1>2. ASSUME NEW id \in Ids, NEW node \in NodeRecords, node.created = now PROVE PgBecomes(PgUpsertNode(pg, id, node))
  <2>1. PICK new : new = PgUpsertNode(pg, id, node)
    OBVIOUS
  <2>2. new \in Databases /\ new.nodes[id] = node /\ \A other \in Ids \ {id} : new.nodes[other] = pg.nodes[other]
    <3>1. new = [pg EXCEPT !.nodes[id] = node] /\ node \in NodeRecords \cup {None}
      BY <2>1 DEF PgUpsertNode
    <3> QED
      BY <1>0, <3>1, OtherNode
  <2> QED
    BY <1>2, <2>1, <2>2 DEF PgBecomes, Present
<1>3. ASSUME NEW id \in Ids PROVE PgBecomes(PgDeleteNode(pg, id))
  <2>1. /\ PgDeleteNode(pg, id) \in Databases /\ PgDeleteNode(pg, id).nodes[id] = None
        /\ \A other \in Ids \ {id} : PgDeleteNode(pg, id).nodes[other] = pg.nodes[other]
    BY <1>0, Removed
  <2> QED
    BY <2>1 DEF PgBecomes, Present
<1>4. ASSUME NEW db, NodesAged(pg, db, now) PROVE PgBecomes(db)
  <2>1. ASSUME NEW id \in Present(db) PROVE id \in Present(pg) /\ db.nodes[id].created = pg.nodes[id].created
    BY <1>4 DEF NodesAged, Aged, Present
  <2> QED
    BY <1>4, <2>1 DEF NodesAged, PgBecomes
<1> QED
  BY <1>1, <1>2, <1>3, <1>4

(* The steps of calls.                                                     *)
NodesStep ==
  /\ LiteBecomes(lite') /\ PgBecomes(pg')
  /\ now' \in {now, now + 1} /\ now' \in 1..Horizon
  /\ writer' # None => writer'.id \in Ids /\ writer'.node \in NodeRecords /\ writer'.node.accessed <= now

(* Nothing becomes of what is left alone.                                   *)
LEMMA LeftAlone == NodesInv => LiteBecomes(lite) /\ PgBecomes(pg)
<1> SUFFICES ASSUME NodesInv PROVE LiteBecomes(lite) /\ PgBecomes(pg)
  OBVIOUS
<1>1. lite \in Databases /\ pg \in Databases
  BY DEF NodesInv
<1> QED
  BY <1>1, LiteStatements, PgStatements

(* Calls to all backends.                                                   *)
LEMMA CallsStep == NodesInv /\ Calls => NodesStep
<1> SUFFICES ASSUME NodesInv, Calls PROVE NodesStep
  OBVIOUS
<1> USE SessionsAssumption
<1>0. /\ lite \in Databases /\ pg \in Databases /\ now \in 1..Horizon
      /\ writer # None => writer.id \in Ids /\ writer.node \in NodeRecords /\ writer.node.accessed <= now
  BY DEF NodesInv
<1>a. SUFFICES /\ now' = now /\ LiteBecomes(lite') /\ PgBecomes(pg')
               /\ UNCHANGED writer
  BY <1>0 DEF NodesStep
<1>b. ASSUME NEW batch \in Batches PROVE batch \in Seq(Edges)
  OBVIOUS
<1>1. ASSUME NEW id \in Ids, NEW node \in Nodes[now], Upsert(id, node)
      PROVE  now' = now /\ LiteBecomes(lite') /\ PgBecomes(pg') /\ UNCHANGED writer
  <2>1. node \in NodeRecords /\ node.created = now /\ node.accessed <= now
    BY <1>0
  <2>2. /\ lite' = UpsertNode(lite, id, node) /\ pg' = PgUpsertNode(pg, id, node)
        /\ now' = now /\ UNCHANGED writer
    BY <1>1 DEF Upsert, Call
  <2> QED
    BY <2>1, <2>2, LiteStatements, PgStatements
<1>2. ASSUME NEW id \in Ids, Delete(id)
      PROVE  now' = now /\ LiteBecomes(lite') /\ PgBecomes(pg') /\ UNCHANGED writer
  <2>1. lite' = DeleteNode(lite, id) /\ pg' = PgDeleteNode(pg, id) /\ now' = now /\ UNCHANGED writer
    BY <1>2 DEF Delete, Call
  <2> QED
    BY <2>1, LiteStatements, PgStatements
<1>3. ASSUME NEW id \in Ids, RemoveEdges(id)
      PROVE  now' = now /\ LiteBecomes(lite') /\ PgBecomes(pg') /\ UNCHANGED writer
  <2>1. lite' = RemoveEdgesForNode(lite, id) /\ pg' = PgRemoveEdgesForNode(pg, id) /\ now' = now /\ UNCHANGED writer
    BY <1>3 DEF RemoveEdges, Call
  <2> QED
    BY <1>0, <2>1, Removed, LiteStatements, PgStatements
<1>4. ASSUME NEW id \in Ids, NEW batch \in Batches, NEW fails \in BOOLEAN, ReplaceEdges(id, batch, fails)
      PROVE  now' = now /\ LiteBecomes(lite') /\ PgBecomes(pg') /\ UNCHANGED writer
  <2>1. PICK db \in Databases : db = RemoveEdgesForNode(lite, id) /\ db.nodes = lite.nodes
    BY <1>0, Removed
  <2>2. PICK pdb \in Databases : pdb = PgRemoveEdgesForNode(pg, id) /\ pdb.nodes = pg.nodes
    BY <1>0, Removed
  <2>3. Chunks(batch) \in Nat
    BY <1>0, <1>b, PartAppended
  <2>4. /\ FoldLeft(AppendEdge, db, batch) \in Databases /\ FoldLeft(AppendEdge, db, batch).nodes = lite.nodes
    BY <1>b, <2>1, BatchAppended DEF Appended
  <2>5. PgAppendEdges(pdb, batch, Chunks(batch)) \in Databases
        /\ PgAppendEdges(pdb, batch, Chunks(batch)).nodes = pg.nodes
    BY <1>b, <2>2, <2>3, PartAppended
  <2>6. /\ lite' = IF fails THEN lite ELSE FoldLeft(AppendEdge, RemoveEdgesForNode(lite, id), batch)
        /\ pg' = IF fails THEN PgRemoveEdgesForNode(pg, id)
                 ELSE PgAppendEdges(PgRemoveEdgesForNode(pg, id), batch, Chunks(batch))
        /\ now' = now /\ UNCHANGED writer
    BY <1>4 DEF ReplaceEdges, Call
  <2>7. lite' = IF fails THEN lite ELSE FoldLeft(AppendEdge, db, batch)
    BY <2>1, <2>6
  <2>8. pg' = IF fails THEN pdb ELSE PgAppendEdges(pdb, batch, Chunks(batch))
    BY <2>2, <2>6
  <2>9. lite' \in Databases /\ lite'.nodes = lite.nodes /\ pg' \in Databases /\ pg'.nodes = pg.nodes
    BY <1>0, <2>2, <2>4, <2>5, <2>7, <2>8
  <2> QED
    BY <2>6, <2>9, LiteStatements, PgStatements
<1>5. ASSUME NEW batch \in Batches, NEW pgDone \in 0..Chunks(batch), NEW sqlxDone, AppendBatch(batch, pgDone, sqlxDone)
      PROVE  now' = now /\ LiteBecomes(lite') /\ PgBecomes(pg') /\ UNCHANGED writer
  <2>1. /\ lite' = FoldLeft(AppendEdge, lite, batch) /\ pg' = PgAppendEdges(pg, batch, pgDone)
        /\ now' = now /\ UNCHANGED writer
    BY <1>5 DEF AppendBatch, AppendEdges, Call
  <2>2. lite' \in Databases /\ lite'.nodes = lite.nodes
    BY <1>0, <1>b, <2>1, BatchAppended DEF Appended
  <2>3. pg' \in Databases /\ pg'.nodes = pg.nodes
    <3>1. pgDone \in Nat
      OBVIOUS
    <3> QED
      BY <1>0, <1>b, <2>1, <3>1, PartAppended
  <2> QED
    BY <2>1, <2>2, <2>3, LiteStatements, PgStatements
<1>6. ASSUME NEW id, RemoveEdge(id)
      PROVE  now' = now /\ LiteBecomes(lite') /\ PgBecomes(pg') /\ UNCHANGED writer
  <2>1. lite' = DeleteEdge(lite, id) /\ pg' = PgDeleteEdge(pg, id) /\ now' = now /\ UNCHANGED writer
    BY <1>6 DEF RemoveEdge, Call
  <2> QED
    BY <1>0, <2>1, Removed, LiteStatements, PgStatements
<1> QED
  BY <1>1, <1>2, <1>3, <1>4, <1>5, <1>6 DEF Calls

(* Recalls, what SQLite alone offers, and time.                             *)
LEMMA OthersStep == NodesInv /\ (Recalls \/ OnlyLite \/ Tick) => NodesStep
<1> SUFFICES ASSUME NodesInv, Recalls \/ OnlyLite \/ Tick PROVE NodesStep
  OBVIOUS
<1> USE SessionsAssumption
<1>0. /\ lite \in Databases /\ pg \in Databases /\ now \in 1..Horizon /\ now \in Nat
      /\ writer # None => writer.id \in Ids /\ writer.node \in NodeRecords /\ writer.node.accessed <= now
  BY DEF NodesInv
<1>a. ASSUME now' = now, LiteBecomes(lite'), PgBecomes(pg'), UNCHANGED writer PROVE NodesStep
  BY <1>0, <1>a DEF NodesStep
<1>1. ASSUME NEW tag, NEW hint, NEW result, Recall(tag, hint, result) PROVE NodesStep
  <2>1. lite' = TouchNodes(lite, result, now) /\ pg' = pg /\ now' = now /\ UNCHANGED writer
    BY <1>1 DEF Recall, Call
  <2>2. LiteBecomes(lite') /\ PgBecomes(pg')
    BY <1>0, <2>1, DatabaseAges, LiteStatements, LeftAlone
  <2> QED
    BY <1>a, <2>1, <2>2
<1>2. ASSUME NEW tag, NEW hint, NEW pgFound, NEW sqlxFound, RecallSearch(tag, hint, pgFound, sqlxFound) PROVE NodesStep
  <2>1. UNCHANGED <<lite, pg, now, writer>>
    BY <1>2 DEF RecallSearch, stores
  <2> QED
    BY <1>a, <2>1, LeftAlone
<1>3. ASSUME NEW pgResult, NEW sqlxResult, RecallRead(pgResult, sqlxResult) PROVE NodesStep
  <2>1. pg' = PgTouch(pg, pgResult, now) /\ UNCHANGED <<lite, now, writer>>
    BY <1>3 DEF RecallRead
  <2>2. LiteBecomes(lite') /\ PgBecomes(pg')
    BY <1>0, <2>1, DatabaseAges, PgStatements, LeftAlone
  <2> QED
    BY <1>a, <2>1, <2>2
<1>4. ASSUME RecallTouch PROVE NodesStep
  <2>1. UNCHANGED <<lite, pg, now, writer>>
    BY <1>4 DEF RecallTouch
  <2> QED
    BY <1>a, <2>1, LeftAlone
<1>5. ASSUME NEW id \in Ids, NEW node \in Nodes[now], NEW cutoff, DedupFind(id, node, cutoff) PROVE NodesStep
  <2>1. writer' = [id |-> id, node |-> node] /\ UNCHANGED <<lite, pg, now>>
    BY <1>5 DEF DedupFind, OnLite, Call
  <2>2. node \in NodeRecords /\ node.accessed <= now
    BY <1>0
  <2>3. writer'.id = id /\ writer'.node = node
    BY <2>1
  <2> QED
    BY <1>0, <2>1, <2>2, <2>3, LeftAlone DEF NodesStep
<1>6. ASSUME DedupWrite PROVE NodesStep
  <2>1. writer # None /\ writer' = None /\ lite' = UpsertNode(lite, writer.id, writer.node) /\ UNCHANGED <<pg, now>>
    BY <1>6 DEF DedupWrite, OnLite, Call
  <2>2. LiteBecomes(lite') /\ PgBecomes(pg')
    BY <1>0, <2>1, LiteStatements, LeftAlone
  <2> QED
    BY <1>0, <2>1, <2>2 DEF NodesStep
<1>7. ASSUME Lifecycle PROVE NodesStep
  <2>1. PICK db : /\ OnLite(db) /\ UNCHANGED writer
                  /\ \/ db = DecayImportance(lite, now, 1)
                     \/ db = TagStaleNodes(lite, now)
                     \/ \E id : db = MarkVerified(lite, id, now)
    BY <1>7 DEF Lifecycle
  <2>2. lite' = db /\ UNCHANGED <<pg, now>>
    BY <2>1 DEF OnLite, Call
  <2>3. NodesAged(lite, db, now)
    BY <1>0, <2>1, DatabaseAges
  <2>4. LiteBecomes(lite') /\ PgBecomes(pg')
    BY <2>2, <2>3, LiteStatements, LeftAlone
  <2> QED
    BY <1>a, <2>1, <2>2, <2>4
<1>8. ASSUME Tick PROVE NodesStep
  <2>1. now' = now + 1 /\ now < Horizon /\ UNCHANGED <<lite, pg, writer>>
    BY <1>8 DEF Tick, stores
  <2>2. now' \in 1..Horizon
    BY <1>0, <2>1
  <2> QED
    BY <1>0, <2>1, <2>2, LeftAlone DEF NodesStep
<1> QED
  BY <1>1, <1>2, <1>3, <1>4, <1>5, <1>6, <1>7, <1>8 DEF Recalls, OnlyLite

(* The tool, and the opening, leave them alone.                             *)
LEMMA ApartStep ==
  ASSUME NodesInv, Opening \/ Serve \/ Tool \/ UNCHANGED vars
  PROVE  NodesStep /\ UNCHANGED <<lite, pg, now>>
<1>1. UNCHANGED <<lite, pg, now, writer>>
  <2>1. CASE Opening \/ Serve
    BY <2>1 DEF Opening, Serve, stores
  <2>2. CASE Tool
    BY <2>2 DEF Tool, ToolList, ToolReadNodes, ToolReadEdges, ToolWriteNode, ToolWriteEdges, ToolStop, ToolStep, stores
  <2>3. CASE UNCHANGED vars
    BY <2>3 DEF vars, stores
  <2> QED
    BY <2>1, <2>2, <2>3
<1>2. now \in 1..Horizon
  BY DEF NodesInv
<1> QED
  BY <1>1, <1>2, LeftAlone DEF NodesStep, NodesInv

(* Every step keeps the nodes' history.                                     *)
LEMMA StepNodes == NodesInv /\ [Next]_vars => NodesStep /\ NodesInv'
<1> SUFFICES ASSUME NodesInv, [Next]_vars PROVE NodesStep /\ NodesInv'
  OBVIOUS
<1>1. NodesStep
  BY CallsStep, OthersStep, ApartStep DEF Next
<1>2. now \in Nat /\ now' \in Nat /\ now <= now' /\ now' \in 1..Horizon
  BY <1>1, SessionsAssumption DEF NodesStep, NodesInv
<1>3. ASSUME NEW id \in Present(lite)' PROVE lite'.nodes[id].accessed <= now'
  <2>1. lite' \in Databases /\ id \in Present(lite') /\ lite'.nodes[id].accessed <= now
    BY <1>1 DEF NodesStep, LiteBecomes, Present
  <2>2. lite'.nodes[id].accessed \in Nat
    BY <2>1, Parts DEF NodeRecords
  <2> QED
    BY <1>2, <2>1, <2>2
<1>4. ASSUME NEW id \in Present(pg)' PROVE pg'.nodes[id].created <= now'
  <2>1. pg' \in Databases /\ id \in Present(pg')
        /\ (pg'.nodes[id].created = now \/ (id \in Present(pg) /\ pg'.nodes[id].created = pg.nodes[id].created))
    BY <1>1 DEF NodesStep, PgBecomes, Present
  <2>2. pg'.nodes[id].created \in Nat
    BY <2>1, Parts DEF NodeRecords
  <2>3. pg'.nodes[id].created <= now
    BY <1>2, <2>1 DEF NodesInv
  <2> QED
    BY <1>2, <2>2, <2>3
<1>5. writer' # None => writer'.id \in Ids /\ writer'.node \in NodeRecords /\ writer'.node.accessed <= now'
  <2>1. writer' # None => writer'.id \in Ids /\ writer'.node \in NodeRecords /\ writer'.node.accessed <= now
    BY <1>1 DEF NodesStep
  <2>2. \A n \in NodeRecords : n.accessed \in Nat
    BY DEF NodeRecords
  <2> QED
    BY <1>2, <2>1, <2>2
<1> QED
  BY <1>1, <1>2, <1>3, <1>4, <1>5 DEF NodesStep, NodesInv, LiteBecomes, PgBecomes

(* The empty database.                                                     *)
LEMMA InitNodes == Init => NodesInv
<1> SUFFICES ASSUME Init PROVE NodesInv
  OBVIOUS
<1>1. Empty \in Databases /\ Present(Empty) = {} /\ Empty.edges = {}
  BY FS_EmptySet DEF Empty, Databases, Present
<1>2. lite = Empty /\ pg = Empty /\ now = 1 /\ writer = None
  BY DEF Init
<1> QED
  BY <1>1, <1>2, SessionsAssumption DEF NodesInv

(* What SQLite promises of a node's history holds for any nodes, batches,  *)
(* calls and times.                                                        *)
THEOREM HistoriesKept == Spec => HistoryKept
<1>1. NodesInv /\ [Next]_vars =>
        [\A id \in Present(lite) : lite'.nodes[id] # None =>
           LET old == lite.nodes[id] new == lite'.nodes[id] IN
           new.created = old.created /\ new.count >= old.count /\ new.accessed >= old.accessed]_vars
  <2> SUFFICES ASSUME NodesInv, [Next]_vars, NEW id \in Present(lite), lite'.nodes[id] # None
               PROVE  Keeps(lite.nodes[id], lite'.nodes[id])
    BY DEF Keeps
  <2>1. LiteBecomes(lite')
    BY StepNodes DEF NodesStep
  <2>2. id \in Present(lite')
    BY DEF Present
  <2> QED
    BY <2>1, <2>2 DEF LiteBecomes
<1> QED
  BY <1>1, InitNodes, StepNodes, PTL DEF Spec, HistoryKept

(* The databases are opened as they would be without calls.                *)
LEMMA Opens == [Next]_vars => [\E o \in Openers : SchemaStep(o)]_schemaVars
<1>1. Opening => \E o \in Openers : SchemaStep(o)
  BY DEF Opening
<1>2. Serve \/ Recalls \/ Tick \/ UNCHANGED vars => UNCHANGED schemaVars
  BY DEF Serve, Recalls, Recall, Call, RecallSearch, RecallRead, RecallTouch, Tick, vars
<1>3. Calls => UNCHANGED schemaVars
  BY DEF Calls, Upsert, Delete, RemoveEdges, ReplaceEdges, AppendBatch, RemoveEdge, Call
<1>4. OnlyLite => UNCHANGED schemaVars
  BY DEF OnlyLite, DedupFind, DedupWrite, Lifecycle, OnLite, Call
<1>5. Tool => UNCHANGED schemaVars
  BY DEF Tool, ToolList, ToolReadNodes, ToolReadEdges, ToolWriteNode, ToolWriteEdges, ToolStop, ToolStep
<1> QED
  BY <1>1, <1>2, <1>3, <1>4, <1>5 DEF Next

(* Whoever is served has opened a graph that can be used.                  *)
THEOREM ServedUsable == Spec => SchemaSpec /\ []OpenedUsable
<1>1. Init => SchemaInit
  BY DEF Init
<1> QED
  BY <1>1, Opens, OpensUsable, PTL DEF Spec, SchemaSpec

----------------------------------------------------------------------------
(* The copying tool.                                                       *)

(* Before it runs.                                                         *)
LEMMA InitTool == Init => ToolInv
<1> SUFFICES ASSUME Init PROVE ToolInv
  OBVIOUS
<1>1. Empty \in Databases /\ Present(Empty) = {}
  BY FS_EmptySet DEF Empty, Databases, Present
<1>2. copy = Empty /\ tool = NoTool
  BY DEF Init
<1>3. /\ tool.at = "idle" /\ tool.from = None /\ tool.ids = {} /\ tool.edges = {} /\ tool.left = {}
      /\ tool = [at |-> tool.at, from |-> tool.from, ids |-> tool.ids, nodes |-> tool.nodes, edges |-> tool.edges,
                 left |-> tool.left]
  BY <1>2 DEF NoTool
<1>4. ReadNodes = {}
  BY <1>3 DEF ReadNodes
<1> QED
  BY <1>1, <1>2, <1>3, <1>4, FS_EmptySet, SessionsAssumption DEF ToolInv

(* While others work.                                                      *)
LEMMA ToolWaits ==
  ASSUME NodesInv, ToolInv, NodesStep, UNCHANGED <<tool, copy>>
  PROVE  ToolInv'
<1>1. ReadNodes' = ReadNodes
  BY DEF ReadNodes
<1>2. ASSUME NotYounger PROVE NotYounger'
  <2>1. now \in Nat /\ now' \in Nat /\ now <= now' /\ pg' \in Databases /\ copy \in Databases /\ pg \in Databases
    BY SessionsAssumption DEF NodesInv, NodesStep, PgBecomes, ToolInv
  <2>2. ASSUME NEW node \in NodeRecords, node.created <= now
        PROVE  node.created <= now'
    BY <2>1, <2>2 DEF NodeRecords
  <2>3. ASSUME NEW node \in NodeRecords, node.created <= now, NEW id \in Present(pg'),
               id \in Present(pg) => node.created <= pg.nodes[id].created
        PROVE  node.created <= pg'.nodes[id].created
    BY <2>3 DEF NodesStep, PgBecomes
  <2>4. ASSUME NEW id \in Present(copy)
        PROVE  /\ copy.nodes[id].created <= now'
               /\ id \in Present(pg') => copy.nodes[id].created <= pg'.nodes[id].created
    <3>1. copy.nodes[id] \in NodeRecords
      BY <2>1, Parts
    <3> QED
      BY <1>2, <2>2, <2>3, <3>1 DEF NotYounger
  <2>5. ASSUME NEW id \in ReadNodes
        PROVE  /\ tool.nodes[id].created <= now'
               /\ id \in Present(pg') => tool.nodes[id].created <= pg'.nodes[id].created
    <3>1. tool.nodes[id] \in NodeRecords
      BY DEF ToolInv
    <3> QED
      BY <1>2, <2>2, <2>3, <3>1 DEF NotYounger
  <2>6. Present(pg)' = Present(pg') /\ Present(copy)' = Present(copy)
    BY DEF Present
  <2> QED
    BY <1>1, <1>2, <2>4, <2>5, <2>6 DEF NotYounger
<1> QED
  BY <1>1, <1>2 DEF ToolInv, Clashes, SameTriple, Present, Alike, SameText

(* It begins, or begins again, and ends anywhere.                          *)
LEMMA ToolBegins ==
  ASSUME NodesInv, ToolInv, UNCHANGED <<lite, pg, now, copy>>,
         (\E from \in {"sqlite", "postgres"} : ToolList(from)) \/ tool' = Idle
  PROVE  ToolInv'
<1>1. /\ tool' = [at |-> tool'.at, from |-> tool'.from, ids |-> tool'.ids, nodes |-> tool'.nodes, edges |-> tool'.edges,
                  left |-> tool'.left]
      /\ tool'.at \in {"idle", "listed"} /\ tool'.edges = {} /\ tool'.left = {} /\ tool'.ids \subseteq Ids
      /\ tool'.from \in {None, "sqlite", "postgres"} /\ tool.from \in {None, tool'.from}
      /\ tool'.from = None => tool.from = None /\ tool'.at = "idle"
  <2>1. ASSUME NEW from \in {"sqlite", "postgres"}, ToolList(from)
        PROVE  /\ tool' = [at |-> "listed", from |-> from, ids |-> Present(IF from = "sqlite" THEN lite ELSE pg),
                           nodes |-> <<>>, edges |-> {}, left |-> {}]
               /\ tool.from \in {None, from}
    BY <2>1 DEF ToolList, NoTool
  <2>2. \A db : Present(db) \subseteq Ids
    BY DEF Present
  <2>3. CASE tool' = Idle
    BY <2>3 DEF Idle, NoTool, ToolInv
  <2>4. CASE \E from \in {"sqlite", "postgres"} : ToolList(from)
    <3>1. PICK from \in {"sqlite", "postgres"} : ToolList(from)
      BY <2>4
    <3>2. PICK ids : ids = Present(IF from = "sqlite" THEN lite ELSE pg) /\ ids \subseteq Ids
      BY <2>2
    <3>3. tool' = [at |-> "listed", from |-> from, ids |-> ids, nodes |-> <<>>, edges |-> {}, left |-> {}]
          /\ tool.from \in {None, from}
      BY <2>1, <3>1, <3>2
    <3> QED
      BY <3>2, <3>3, SessionsAssumption
  <2> QED
    BY <2>3, <2>4
<1>2. ReadNodes' = {}
  BY <1>1 DEF ReadNodes
<1>3. tool'.from = "postgres" => NotYounger'
  <2>1. Present(copy)' = Present(copy) /\ Present(pg)' = Present(pg)
    BY DEF Present
  <2>2. CASE tool.from = None
    <3>1. Present(copy) = {}
      BY <2>2 DEF ToolInv, Empty, Present
    <3> QED
      BY <1>2, <2>1, <3>1 DEF NotYounger
  <2>3. CASE tool.from = tool'.from
    BY <1>2, <2>1, <2>3 DEF NotYounger, ToolInv
  <2> QED
    BY <1>1, <2>2, <2>3
<1>4. copy' \in Databases /\ (tool'.from = None => copy' = Empty)
  BY <1>1 DEF ToolInv
<1>5. Empty' = Empty
  BY DEF Empty
<1> QED
  BY <1>1, <1>2, <1>3, <1>4, <1>5, FS_EmptySet DEF ToolInv

(* It reads nodes,                                                         *)
LEMMA ToolReads ==
  ASSUME NodesInv, ToolInv, UNCHANGED <<lite, pg, now>>, ToolReadNodes
  PROVE  ToolInv'
<1>1. PICK db \in {lite, pg} : db = Source
  BY DEF Source
<1>2. PICK ids \in SUBSET Present(db) :
        tool' = [tool EXCEPT !.at = "nodes", !.nodes = [id \in ids |-> db.nodes[id]], !.ids = {}]
  <2>1. PICK ids : ids = IF tool.from = "sqlite" THEN tool.ids \cap Present(lite) ELSE Present(pg)
    OBVIOUS
  <2>2. ids \subseteq Present(db)
    BY <1>1, <2>1 DEF Source
  <2>3. tool' = [tool EXCEPT !.at = "nodes", !.nodes = [id \in ids |-> db.nodes[id]], !.ids = {}]
    BY <1>1, <2>1 DEF ToolReadNodes
  <2> QED
    BY <2>2, <2>3
<1>3. copy' = copy /\ tool.at = "listed"
  BY DEF ToolReadNodes
<1>4. PICK nodes : nodes = [id \in ids |-> db.nodes[id]]
  OBVIOUS
<1>5. /\ tool' = [at |-> "nodes", from |-> tool.from, ids |-> {}, nodes |-> nodes, edges |-> tool.edges,
                  left |-> tool.left]
  BY <1>2, <1>4 DEF ToolInv
<1>6. /\ tool'.at = "nodes" /\ tool'.from = tool.from /\ tool'.ids = {} /\ tool'.nodes = nodes /\ tool'.edges = tool.edges
      /\ tool'.left = tool.left
      /\ tool' = [at |-> tool'.at, from |-> tool'.from, ids |-> tool'.ids, nodes |-> tool'.nodes, edges |-> tool'.edges,
                  left |-> tool'.left]
  BY <1>5
<1>7. ReadNodes' = ids /\ ReadNodes = {}
  BY <1>3, <1>4, <1>6 DEF ReadNodes
<1>8. \A id \in ids : id \in Ids /\ nodes[id] = db.nodes[id] /\ nodes[id] \in NodeRecords
  BY <1>4, Parts DEF NodesInv
<1>9. tool.from = "postgres" => NotYounger'
  <2> SUFFICES ASSUME tool.from = "postgres" PROVE NotYounger'
    OBVIOUS
  <2>1. Present(copy)' = Present(copy) /\ Present(pg)' = Present(pg)
    BY <1>3 DEF Present
  <2>2. db = pg
    BY <1>1 DEF Source
  <2>3. NotYounger
    BY DEF ToolInv
  <2>4. \A id \in ids : nodes[id].created <= nodes[id].created /\ nodes[id].created <= now /\ id \in Present(pg)
    BY <1>8, <2>2 DEF NodesInv, NodeRecords
  <2> QED
    BY <1>3, <1>6, <1>7, <1>8, <2>1, <2>2, <2>3, <2>4 DEF NotYounger
<1>10. copy' \in Databases /\ tool.left = {} /\ tool.from # None
  BY <1>3, <1>7 DEF ToolInv
<1> QED
  BY <1>3, <1>6, <1>7, <1>8, <1>9, <1>10 DEF ToolInv

(* and edges.                                                              *)
LEMMA ToolReadsEdges ==
  ASSUME NodesInv, ToolInv, UNCHANGED <<lite, pg, now>>, ToolReadEdges
  PROVE  ToolInv'
<1>1. PICK edges : edges = Source.edges /\ edges \subseteq Edges /\ IsFiniteSet(edges)
  <2>1. \A db \in Databases : db.edges \subseteq Edges /\ IsFiniteSet(db.edges)
    BY Parts
  <2> QED
    BY <2>1 DEF Source, NodesInv
<1>2. /\ tool' = [tool EXCEPT !.at = "read", !.edges = edges, !.left = DOMAIN tool.nodes]
      /\ copy' = copy /\ tool.at = "nodes"
  BY <1>1 DEF ToolReadEdges
<1>3. tool' = [at |-> "read", from |-> tool.from, ids |-> tool.ids, nodes |-> tool.nodes, edges |-> edges,
               left |-> DOMAIN tool.nodes]
  BY <1>2 DEF ToolInv
<1>4. /\ tool'.at = "read" /\ tool'.from = tool.from /\ tool'.ids = tool.ids /\ tool'.nodes = tool.nodes
      /\ tool'.edges = edges /\ tool'.left = DOMAIN tool.nodes
      /\ tool' = [at |-> tool'.at, from |-> tool'.from, ids |-> tool'.ids, nodes |-> tool'.nodes, edges |-> tool'.edges,
                  left |-> tool'.left]
  BY <1>3
<1>5. ReadNodes' = DOMAIN tool.nodes /\ ReadNodes = DOMAIN tool.nodes
  BY <1>2, <1>4 DEF ReadNodes
<1>6. Present(copy)' = Present(copy) /\ Present(pg)' = Present(pg)
  BY <1>2 DEF Present
<1>7. tool.from = "postgres" => NotYounger'
  BY <1>2, <1>4, <1>5, <1>6 DEF NotYounger, ToolInv
<1>8. copy' \in Databases /\ tool.from # None
  BY <1>2 DEF ToolInv
<1> QED
  BY <1>1, <1>4, <1>5, <1>7, <1>8 DEF ToolInv

(* It writes one of the nodes,                                             *)
LEMMA ToolWrites ==
  ASSUME NodesInv, ToolInv, UNCHANGED <<lite, pg, now>>, NEW id \in tool.left, ToolWriteNode(id)
  PROVE  ToolInv'
<1>1. /\ tool.at = "read" /\ ReadNodes = DOMAIN tool.nodes /\ id \in ReadNodes /\ id \in Ids
      /\ copy \in Databases /\ tool.from \in {"sqlite", "postgres"}
  BY DEF ToolWriteNode, ToolInv, ReadNodes
<1>2. PICK node \in NodeRecords : node = tool.nodes[id]
  BY <1>1 DEF ToolInv
<1>3. PICK new : new = copy'
  OBVIOUS
<1>4. new = IF tool.from = "sqlite" THEN PgUpsertNode(copy, id, node) ELSE UpsertNode(copy, id, node)
  BY <1>2, <1>3 DEF ToolWriteNode
<1>5. PICK left : left = tool.left \ {id}
  OBVIOUS
<1>6. /\ tool' = [at |-> "read", from |-> tool.from, ids |-> tool.ids, nodes |-> tool.nodes, edges |-> tool.edges,
                  left |-> left]
  BY <1>1, <1>5 DEF ToolWriteNode, ToolInv
<1>7. /\ tool'.at = "read" /\ tool'.from = tool.from /\ tool'.ids = tool.ids /\ tool'.nodes = tool.nodes
      /\ tool'.edges = tool.edges /\ tool'.left = left
      /\ tool' = [at |-> tool'.at, from |-> tool'.from, ids |-> tool'.ids, nodes |-> tool'.nodes, edges |-> tool'.edges,
                  left |-> tool'.left]
  BY <1>6
<1>8. /\ new \in Databases /\ \A other \in Ids \ {id} : new.nodes[other] = copy.nodes[other]
      /\ id \in Present(new) /\ new.nodes[id] \in NodeRecords
  <2>1. CASE tool.from = "sqlite"
    <3>1. new = [copy EXCEPT !.nodes[id] = node] /\ node \in NodeRecords \cup {None}
      BY <1>4, <2>1 DEF PgUpsertNode
    <3>2. /\ new \in Databases /\ new.nodes[id] = node
          /\ \A other \in Ids \ {id} : new.nodes[other] = copy.nodes[other]
      BY <1>1, <3>1, OtherNode
    <3> QED
      BY <1>1, <3>2, SessionsAssumption DEF Present
  <2>2. CASE tool.from # "sqlite"
    <3>1. new = UpsertNode(copy, id, node)
      BY <1>4, <2>2
    <3>2. /\ new \in Databases /\ new.nodes[id] \in NodeRecords
          /\ \A other \in Ids \ {id} : new.nodes[other] = copy.nodes[other]
      BY <1>1, <3>1, Upserted
    <3> QED
      BY <1>1, <3>2, SessionsAssumption DEF Present
  <2> QED
    BY <2>1, <2>2
<1>9. tool.from = "postgres" => new.nodes[id].created = IF id \in Present(copy) THEN copy.nodes[id].created ELSE node.created
  <2> SUFFICES ASSUME tool.from = "postgres"
               PROVE  new.nodes[id].created = IF id \in Present(copy) THEN copy.nodes[id].created ELSE node.created
    OBVIOUS
  <2>1. new = UpsertNode(copy, id, node)
    BY <1>4
  <2>2. /\ id \notin Present(copy) => new.nodes[id] = node
        /\ id \in Present(copy) => Keeps(copy.nodes[id], new.nodes[id])
    BY <1>1, <2>1, Upserted
  <2> QED
    BY <2>2 DEF Keeps
<1>10. Alike(new.nodes[id], node, tool.from)
  <2>1. node.count >= node.count /\ node.accessed >= node.accessed /\ node.created <= node.created
    BY DEF NodeRecords
  <2>2. CASE tool.from = "sqlite"
    <3>1. new = [copy EXCEPT !.nodes[id] = node] /\ node \in NodeRecords \cup {None}
      BY <1>4, <2>2 DEF PgUpsertNode
    <3>2. new.nodes[id] = node
      BY <1>1, <3>1, OtherNode
    <3> QED
      BY <2>1, <3>2 DEF Alike, SameText
  <2>3. CASE tool.from # "sqlite"
    <3>1. new = UpsertNode(copy, id, node)
      BY <1>4, <2>3
    <3>2. /\ new.nodes[id].title = node.title /\ new.nodes[id].text = node.text /\ new.nodes[id].tags = node.tags
          /\ new.nodes[id].importance = node.importance /\ new.nodes[id].updated = node.updated
          /\ new.nodes[id].verified = node.verified
          /\ new.nodes[id].count >= node.count /\ new.nodes[id].accessed >= node.accessed
      BY <1>1, <3>1, Upserted
    <3>3. new.nodes[id].created <= node.created
      <4>1. tool.from = "postgres" /\ NotYounger
        BY <1>1, <2>3 DEF ToolInv
      <4>2. id \in Present(copy) => copy.nodes[id].created <= node.created
        BY <1>1, <1>2, <4>1 DEF NotYounger
      <4> QED
        BY <1>9, <2>1, <4>1, <4>2
    <3> QED
      BY <2>3, <3>2, <3>3 DEF Alike, SameText
  <2> QED
    BY <2>2, <2>3
<1>11. /\ ReadNodes' = ReadNodes /\ Present(copy)' = Present(new) /\ Present(pg)' = Present(pg)
       /\ Present(new) = Present(copy) \cup {id}
  BY <1>1, <1>3, <1>7, <1>8 DEF ReadNodes, Present
<1>12. tool.from = "postgres" => NotYounger'
  <2> SUFFICES ASSUME tool.from = "postgres" PROVE NotYounger'
    OBVIOUS
  <2>1. NotYounger
    BY DEF ToolInv
  <2>2. ASSUME NEW i \in Present(new)
        PROVE  /\ new.nodes[i].created <= now
               /\ i \in Present(pg) => new.nodes[i].created <= pg.nodes[i].created
               /\ i \in ReadNodes => new.nodes[i].created <= tool.nodes[i].created
    <3>1. CASE i = id /\ i \notin Present(copy)
      <4>1. node.created <= node.created
        BY DEF NodeRecords
      <4> QED
        BY <1>1, <1>2, <1>9, <2>1, <3>1, <4>1 DEF NotYounger
    <3>2. CASE i \in Present(copy)
      <4>1. new.nodes[i].created = copy.nodes[i].created
        BY <1>8, <1>9, <3>2 DEF Present
      <4> QED
        BY <2>1, <3>2, <4>1 DEF NotYounger
    <3> QED
      BY <1>11, <3>1, <3>2
  <2> QED
    BY <1>3, <1>7, <1>11, <2>1, <2>2 DEF NotYounger
<1>13. \A i \in ReadNodes \ left : i \in Present(new) /\ Alike(new.nodes[i], tool.nodes[i], tool.from)
  <2> SUFFICES ASSUME NEW i \in ReadNodes \ left PROVE i \in Present(new) /\ Alike(new.nodes[i], tool.nodes[i], tool.from)
    OBVIOUS
  <2>1. CASE i = id
    BY <1>2, <1>8, <1>10, <2>1
  <2>2. CASE i # id
    <3>1. i \in Present(copy) /\ Alike(copy.nodes[i], tool.nodes[i], tool.from)
      BY <1>1, <1>5, <2>2 DEF ToolInv
    <3>2. new.nodes[i] = copy.nodes[i]
      BY <1>8, <2>2, <3>1 DEF Present
    <3> QED
      BY <1>11, <3>1, <3>2
  <2> QED
    BY <2>1, <2>2
<1>14. left \subseteq ReadNodes
  BY <1>5 DEF ToolInv
<1> QED
  <2>1. /\ tool'.from # None /\ tool'.ids \subseteq Ids /\ tool'.edges \subseteq Edges /\ IsFiniteSet(tool'.edges)
        /\ ReadNodes' \subseteq Ids /\ \A i \in ReadNodes' : tool'.nodes[i] \in NodeRecords
        /\ tool'.from \in {None, "sqlite", "postgres"}
    BY <1>1, <1>7, <1>11, SessionsAssumption DEF ToolInv
  <2> QED
    BY <1>3, <1>7, <1>8, <1>11, <1>12, <1>13, <1>14, <2>1 DEF ToolInv

(* A finite set in the order SetToSeq gives it.                            *)
LEMMA InOrder ==
  ASSUME NEW edges \in SUBSET Edges, IsFiniteSet(edges)
  PROVE  SetToSeq(edges) \in Seq(Edges) /\ \A e \in edges : \E i \in DOMAIN SetToSeq(edges) : SetToSeq(edges)[i] = e
<1>1. PICK n \in Nat : n = Cardinality(edges) /\ IsFiniteSet(1..n) /\ Cardinality(1..n) = n
  BY FS_CardinalityType, FS_Interval
<1>2. \E f \in [1..n -> edges] : IsInjective(f)
  <2>1. ExistsBijection(1..n, edges)
    BY <1>1, FS_CardinalityType
  <2>2. PICK f : f \in Bijection(1..n, edges)
    BY <2>1 DEF ExistsBijection
  <2>3. f \in [1..n -> edges] /\ IsInjective(f)
    BY <2>2 DEF Bijection, Injection, IsInjective
  <2> QED
    BY <2>3
<1>3. PICK f : f = SetToSeq(edges)
  OBVIOUS
<1>4. f \in [1..n -> edges] /\ IsInjective(f)
  BY <1>1, <1>2, <1>3 DEF SetToSeq
<1>5. f \in Injection(1..n, edges)
  BY <1>4 DEF Injection
<1>6. f \in Surjection(1..n, edges)
  BY <1>1, <1>5, FS_Injection
<1>7. \A e \in edges : \E i \in DOMAIN f : f[i] = e
  BY <1>4, <1>6 DEF Surjection
<1>8. f \in Seq(Edges)
  <2>1. f \in [1..n -> Edges]
    BY <1>4
  <2> QED
    BY <2>1
<1> QED
  BY <1>3, <1>7, <1>8

(* and then the edges.                                                     *)
LEMMA ToolWritesEdges ==
  ASSUME NodesInv, ToolInv, UNCHANGED <<lite, pg, now>>, NEW done \in Nat, ToolWriteEdges(done)
  PROVE  ToolInv'
<1>1. /\ tool.at = "read" /\ tool.left = {} /\ ReadNodes = DOMAIN tool.nodes
      /\ copy \in Databases /\ tool.from \in {"sqlite", "postgres"}
      /\ tool.edges \subseteq Edges /\ IsFiniteSet(tool.edges)
  BY DEF ToolWriteEdges, ToolInv, ReadNodes
<1>2. PICK batch \in Seq(Edges) : /\ batch = SetToSeq(tool.edges)
                                  /\ \A e \in tool.edges : \E i \in DOMAIN batch : batch[i] = e
  BY <1>1, InOrder
<1>3. PICK new : new = copy'
  OBVIOUS
<1>4. /\ done <= Chunks(batch)
      /\ new = IF tool.from = "sqlite" THEN PgAppendEdges(copy, batch, done) ELSE FoldLeft(AppendEdge, copy, batch)
      /\ tool' = IF tool.from = "sqlite" /\ done < Chunks(batch) THEN Idle ELSE [tool EXCEPT !.at = "done"]
  BY <1>2, <1>3 DEF ToolWriteEdges, AppendEdges
<1>5. /\ new \in Databases /\ new.nodes = copy.nodes /\ Chunks(batch) \in Nat
      /\ ~(tool.from = "sqlite" /\ done < Chunks(batch)) => \A i \in DOMAIN batch : Clashes(new, batch[i])
  <2>1. /\ PgAppendEdges(copy, batch, done) \in Databases /\ PgAppendEdges(copy, batch, done).nodes = copy.nodes
        /\ Chunks(batch) \in Nat /\ (done >= Chunks(batch) => Appended(copy, PgAppendEdges(copy, batch, done), batch))
    BY <1>1, PartAppended
  <2>2. Appended(copy, FoldLeft(AppendEdge, copy, batch), batch)
    BY <1>1, BatchAppended
  <2>3. CASE tool.from = "sqlite"
    <3>1. new = PgAppendEdges(copy, batch, done) /\ (~(done < Chunks(batch)) => done >= Chunks(batch))
      BY <1>4, <2>1, <2>3
    <3> QED
      BY <2>1, <2>3, <3>1 DEF Appended
  <2>4. CASE tool.from # "sqlite"
    <3>1. new = FoldLeft(AppendEdge, copy, batch)
      BY <1>4, <2>4
    <3> QED
      BY <2>1, <2>2, <3>1 DEF Appended
  <2> QED
    BY <2>3, <2>4
<1>6. Present(copy)' = Present(copy) /\ Present(pg)' = Present(pg)
  BY <1>3, <1>5 DEF Present
<1>7. CASE tool.from = "sqlite" /\ done < Chunks(batch)
  <2>1. /\ tool' = [at |-> "idle", from |-> tool.from, ids |-> {}, nodes |-> <<>>, edges |-> {}, left |-> {}]
    BY <1>4, <1>7 DEF Idle, NoTool
  <2>2. /\ tool'.at = "idle" /\ tool'.from = "sqlite" /\ tool'.ids = {} /\ tool'.edges = {} /\ tool'.left = {}
        /\ tool' = [at |-> tool'.at, from |-> tool'.from, ids |-> tool'.ids, nodes |-> tool'.nodes,
                    edges |-> tool'.edges, left |-> tool'.left]
    BY <1>7, <2>1
  <2>3. ReadNodes' = {}
    BY <2>2 DEF ReadNodes
  <2>4. "sqlite" # None
    BY SessionsAssumption
  <2> QED
    BY <1>3, <1>5, <2>2, <2>3, <2>4, FS_EmptySet DEF ToolInv
<1>8. CASE ~(tool.from = "sqlite" /\ done < Chunks(batch))
  <2>1. tool' = [tool EXCEPT !.at = "done"]
    BY <1>4, <1>8
  <2>2. tool' = [at |-> "done", from |-> tool.from, ids |-> tool.ids, nodes |-> tool.nodes, edges |-> tool.edges,
                 left |-> tool.left]
    BY <2>1 DEF ToolInv
  <2>3. /\ tool'.at = "done" /\ tool'.from = tool.from /\ tool'.ids = tool.ids /\ tool'.nodes = tool.nodes
        /\ tool'.edges = tool.edges /\ tool'.left = {}
        /\ tool' = [at |-> tool'.at, from |-> tool'.from, ids |-> tool'.ids, nodes |-> tool'.nodes,
                    edges |-> tool'.edges, left |-> tool'.left]
    BY <1>1, <2>2
  <2>4. ReadNodes' = ReadNodes
    BY <1>1, <2>3 DEF ReadNodes
  <2>5. tool.from = "postgres" => NotYounger'
    BY <1>3, <1>5, <1>6, <2>3, <2>4 DEF NotYounger, ToolInv
  <2>6. \A e \in tool.edges : Clashes(new, e)
    BY <1>2, <1>5, <1>8
  <2>7. \A i \in ReadNodes : i \in Present(copy)' /\ Alike(new.nodes[i], tool.nodes[i], tool.from)
    BY <1>1, <1>5, <1>6 DEF ToolInv
  <2>8. /\ tool'.from # None /\ tool'.ids \subseteq Ids /\ tool'.edges \subseteq Edges /\ IsFiniteSet(tool'.edges)
        /\ ReadNodes' \subseteq Ids /\ \A i \in ReadNodes' : tool'.nodes[i] \in NodeRecords
        /\ tool'.from \in {None, "sqlite", "postgres"}
    BY <1>1, <2>3, <2>4, SessionsAssumption DEF ToolInv
  <2>9. \A e \in tool'.edges : Clashes(copy, e)'
    BY <1>3, <2>3, <2>6 DEF Clashes, SameTriple
  <2> QED
    BY <1>3, <1>5, <1>6, <2>3, <2>4, <2>5, <2>7, <2>8, <2>9 DEF ToolInv
<1> QED
  BY <1>7, <1>8

(* Every step keeps what it relies on.                                     *)
LEMMA StepTool == NodesInv /\ ToolInv /\ [Next]_vars => ToolInv'
<1> SUFFICES ASSUME NodesInv, ToolInv, [Next]_vars PROVE ToolInv'
  OBVIOUS
<1>0. NodesStep
  BY StepNodes
<1>1. CASE Opening \/ Serve \/ Recalls \/ Tick \/ UNCHANGED vars
  <2>1. UNCHANGED <<tool, copy>>
    BY <1>1 DEF Opening, Serve, Recalls, Recall, Call, RecallSearch, RecallRead, RecallTouch, Tick, vars
  <2> QED
    BY <1>0, <2>1, ToolWaits
<1>2. CASE Calls
  <2>1. UNCHANGED <<tool, copy>>
    BY <1>2 DEF Calls, Upsert, Delete, RemoveEdges, ReplaceEdges, AppendBatch, RemoveEdge, Call
  <2> QED
    BY <1>0, <2>1, ToolWaits
<1>3. CASE OnlyLite
  <2>1. UNCHANGED <<tool, copy>>
    BY <1>3 DEF OnlyLite, DedupFind, DedupWrite, Lifecycle, OnLite, Call
  <2> QED
    BY <1>0, <2>1, ToolWaits
<1>4. CASE Tool
  <2>0. UNCHANGED <<lite, pg, now>>
    BY <1>4, ApartStep
  <2>1. CASE (\E from \in {"sqlite", "postgres"} : ToolList(from)) \/ ToolStop
    <3>1. copy' = copy /\ ((\E from \in {"sqlite", "postgres"} : ToolList(from)) \/ tool' = Idle)
      BY <2>1 DEF ToolList, ToolStop
    <3> QED
      BY <2>0, <3>1, ToolBegins
  <2>2. CASE ToolReadNodes
    BY <2>0, <2>2, ToolReads
  <2>3. CASE ToolReadEdges
    BY <2>0, <2>3, ToolReadsEdges
  <2>4. ASSUME NEW id \in tool.left, ToolWriteNode(id) PROVE ToolInv'
    BY <2>0, <2>4, ToolWrites
  <2>5. ASSUME NEW done \in 0..Cardinality(tool.edges), ToolWriteEdges(done) PROVE ToolInv'
    <3>1. done \in Nat
      OBVIOUS
    <3> QED
      BY <2>0, <2>5, <3>1, ToolWritesEdges
  <2> QED
    BY <1>4, <2>1, <2>2, <2>3, <2>4, <2>5 DEF Tool
<1> QED
  BY <1>1, <1>2, <1>3, <1>4 DEF Next

(* A copy that is done is complete, whatever the databases, the batches    *)
(* and the size of a chunk, wherever earlier attempts stopped and whatever *)
(* calls came in between.                                                  *)
THEOREM CopiesComplete == Spec => []CopyComplete
<1>1. ToolInv => CopyComplete
  <2> SUFFICES ASSUME ToolInv, tool.at = "done" PROVE CopyComplete
    BY DEF CopyComplete
  <2>1. \A e \in tool.edges : Clashes(copy, e)
    BY DEF ToolInv
  <2>2. ASSUME NEW id \in DOMAIN tool.nodes PROVE id \in Present(copy) /\ Alike(copy.nodes[id], tool.nodes[id], tool.from)
    <3>1. id \in ReadNodes \ tool.left
      BY DEF ToolInv, ReadNodes
    <3> QED
      BY <3>1 DEF ToolInv
  <2>3. ASSUME NEW id \in Present(copy)
        PROVE  /\ copy.nodes[id] # None
               /\ Content(copy)[id] = LET n == copy.nodes[id] IN
                                      <<n.title, n.text, n.tags, n.importance, n.updated, n.verified>>
    BY DEF Content, Present
  <2>4. ASSUME NEW id \in DOMAIN tool.nodes
        PROVE  copy.nodes[id] # None /\
               LET read == tool.nodes[id] written == copy.nodes[id] IN
               /\ Content(copy)[id] = <<read.title, read.text, read.tags, read.importance, read.updated, read.verified>>
               /\ tool.from = "sqlite" => written = read
               /\ written.count >= read.count /\ written.accessed >= read.accessed /\ written.created <= read.created
    BY <2>2, <2>3 DEF Alike, SameText
  <2> QED
    BY <2>1, <2>4 DEF CopyComplete
<1> QED
  BY <1>1, InitNodes, InitTool, StepNodes, StepTool, PTL DEF Spec

----------------------------------------------------------------------------
(* Recalls.                                                                *)

(* What an ORDER BY with a LIMIT keeps, in whatever order.                 *)
Keep(ids, limit) ==
  {kept \in SUBSET ids : Cardinality(kept) = IF Cardinality(ids) < limit THEN Cardinality(ids) ELSE limit}

(* It keeps all, or as many as the limit.                                  *)
LEMMA Kept ==
  ASSUME NEW ids, IsFiniteSet(ids), NEW limit \in Nat, NEW kept \in Keep(ids, limit)
  PROVE  /\ kept \subseteq ids
         /\ kept = ids \/ Cardinality(kept) = limit
         /\ Cardinality(ids) <= limit => kept = ids
<1>1. kept \subseteq ids /\ Cardinality(ids) \in Nat
  BY FS_CardinalityType DEF Keep
<1>2. Cardinality(kept) = Cardinality(ids) => kept = ids
  <2>1. Cardinality(ids) = Cardinality(kept) => kept = ids
    BY <1>1, FS_Subset
  <2> QED
    BY <2>1
<1> QED
  BY <1>1, <1>2 DEF Keep

(* What a recall with a hint has to return.                                *)
Matches(db, tag, hint) == {id \in SearchNodesHybrid(db, hint) : InScope(db.nodes[id], tag)}

Recalled(db, tag, hint, ids) ==
  /\ ids \subseteq Matches(db, tag, hint)
  /\ Cardinality(SearchNodesHybrid(db, hint)) <= Fanout * Limit =>
       ids = Matches(db, tag, hint) \/ Cardinality(ids) = Limit

(* And it does.                                                            *)
LEMMA RecallMatches ==
  ASSUME NEW db, NEW tag, NEW hint, hint # None, hint # <<>>, NEW time,
         NEW result \in SmartRecall(db, tag, hint, Limit, time)
  PROVE  Recalled(db, tag, hint, result)
<1> DEFINE all == SearchNodesHybrid(db, hint)
           scope == {id \in Present(db) : InScope(db.nodes[id], tag)}
<1>1. all \subseteq Ids /\ IsFiniteSet(all) /\ all \subseteq Present(db)
  <2>1. all \subseteq Present(db) /\ Present(db) \subseteq Ids
    BY DEF SearchNodesHybrid, SearchNodes, SearchNodesCjk, Present
  <2> QED
    BY <2>1, SessionsAssumption, FS_Subset
<1>2. PICK most \in Nat : most = Fanout * Limit
  BY SessionsAssumption
<1>3. PICK found \in Keep(all, most) : result \in SmartRecallOf(db, tag, hint, found, Limit, time)
  <2>1. PICK found \in Hits(db, hint, SearchNodesHybrid, Limit) :
               result \in SmartRecallOf(db, tag, hint, found, Limit, time)
    BY DEF SmartRecall
  <2>2. found \in Keep(all, most)
    BY <1>2, <2>1 DEF Hits, Best, Keep
  <2> QED
    BY <2>1, <2>2
<1>4. found \subseteq all /\ (Cardinality(all) <= Fanout * Limit => found = all)
  <2> HIDE DEF all
  <2> QED
    BY <1>1, <1>2, <1>3, Kept
<1>5. CASE found = {}
  <2>1. result = {}
    BY <1>3, <1>5 DEF SmartRecallOf
  <2>2. Cardinality(all) <= Fanout * Limit => Matches(db, tag, hint) = {}
    BY <1>4, <1>5 DEF Matches
  <2> QED
    BY <2>1, <2>2 DEF Recalled
<1>6. CASE found # {}
  <2>1. result \in Keep(found \cap scope, Limit)
    <3>1. PICK candidates : /\ candidates \subseteq scope
                            /\ result \in Keep((candidates \cap found) \cup (found \cap scope), Limit)
      BY <1>3, <1>6 DEF SmartRecallOf, Best, Keep
    <3>2. (candidates \cap found) \cup (found \cap scope) = found \cap scope
      BY <3>1
    <3> QED
      BY <3>1, <3>2
  <2>2. found \cap scope \subseteq Matches(db, tag, hint) /\ (found = all => found \cap scope = Matches(db, tag, hint))
    BY <1>1, <1>4 DEF Matches
  <2>3. PICK ids : ids = found \cap scope /\ IsFiniteSet(ids)
    <3>1. found \cap scope \subseteq all
      BY <1>4
    <3>2. IsFiniteSet(found \cap scope)
      <4> HIDE DEF all, scope
      <4> QED
        BY <1>1, <3>1, FS_Subset
    <3> QED
      BY <3>2
  <2>4. result \subseteq ids /\ (result = ids \/ Cardinality(result) = Limit)
    BY <2>1, <2>3, Kept, SessionsAssumption
  <2> HIDE DEF scope, all
  <2> QED
    BY <1>4, <2>2, <2>3, <2>4 DEF Recalled, all
<1> QED
  BY <1>5, <1>6

(* Searches read the words and tags of nodes, which reading does not       *)
(* change.                                                                 *)
LEMMA TouchedMatches ==
  ASSUME NEW db \in Databases, NEW ids, NEW t \in Nat, NEW tag, NEW hint
  PROVE  /\ SearchNodesHybrid(TouchNodes(db, ids, t), hint) = SearchNodesHybrid(db, hint)
         /\ Matches(TouchNodes(db, ids, t), tag, hint) = Matches(db, tag, hint)
<1>1. PICK new : new = TouchNodes(db, ids, t)
  OBVIOUS
<1>2. Present(new) = Present(db)
  <2>1. NodesAged(db, new, t)
    BY <1>1, DatabaseAges
  <2> QED
    BY <2>1, SessionsAssumption DEF NodesAged, Aged, Present
<1>3. ASSUME NEW id \in Present(db) PROVE new.nodes[id].text = db.nodes[id].text /\ new.nodes[id].tags = db.nodes[id].tags
  <2>1. id \in Ids /\ db.nodes[id] \in NodeRecords
    BY Parts
  <2>2. new.nodes[id] \in {db.nodes[id], Touched(db.nodes[id], t)}
    <3> DEFINE nodes == [i \in Ids |-> IF db.nodes[i] # None /\ i \in ids THEN Touched(db.nodes[i], t) ELSE db.nodes[i]]
    <3>1. new = [db EXCEPT !.nodes = nodes]
      BY <1>1 DEF TouchNodes, Update
    <3>2. new.nodes = nodes
      BY <3>1 DEF Databases
    <3> QED
      BY <2>1, <3>2
  <2> QED
    BY <2>1, <2>2 DEF Touched, NodeRecords
<1>4. \A id \in Present(db) : HasPhrase(new.nodes[id], hint) <=> HasPhrase(db.nodes[id], hint)
  BY <1>3 DEF HasPhrase
<1>5. SearchNodesHybrid(new, hint) = SearchNodesHybrid(db, hint)
  BY <1>2, <1>3, <1>4 DEF SearchNodesHybrid, SearchNodes, SearchNodesCjk
<1>6. \A id \in SearchNodesHybrid(db, hint) : InScope(new.nodes[id], tag) <=> InScope(db.nodes[id], tag)
  BY <1>3 DEF InScope, SearchNodesHybrid, SearchNodes, SearchNodesCjk
<1> QED
  BY <1>1, <1>5, <1>6 DEF Matches

(* An answer is right while it stands.                                     *)
AnswerInv ==
  answer # None /\ answer.hint # None /\ answer.hint # <<>> => Recalled(lite, answer.tag, answer.hint, answer.ids)

(* Every step keeps it so.                                                 *)
LEMMA StepAnswer == NodesInv /\ AnswerInv /\ [Next]_vars => AnswerInv'
<1> SUFFICES ASSUME NodesInv, AnswerInv, [Next]_vars PROVE AnswerInv'
  OBVIOUS
<1>0. ASSUME UNCHANGED <<answer, lite>> PROVE AnswerInv'
  <2>1. Recalled(lite, answer.tag, answer.hint, answer.ids)' <=> Recalled(lite, answer.tag, answer.hint, answer.ids)
    BY <1>0 DEF Recalled, Matches, SearchNodesHybrid, SearchNodes, SearchNodesCjk, Present
  <2> QED
    BY <1>0, <2>1 DEF AnswerInv
<1>1. CASE Opening \/ Serve \/ Tool \/ UNCHANGED vars
  <2>1. answer' = answer
    BY <1>1 DEF Opening, Serve, Tool, ToolList, ToolReadNodes, ToolReadEdges, ToolWriteNode, ToolWriteEdges, ToolStop,
                ToolStep, vars
  <2> QED
    BY <1>0, <1>1, <2>1, ApartStep
<1>2. CASE Calls
  <2>1. answer' = None
    BY <1>2 DEF Calls, Upsert, Delete, RemoveEdges, ReplaceEdges, AppendBatch, RemoveEdge, Call
  <2> QED
    BY <2>1 DEF AnswerInv
<1>3. CASE OnlyLite \/ Tick
  <2>1. answer' = None
    BY <1>3 DEF OnlyLite, DedupFind, DedupWrite, Lifecycle, OnLite, Call, Tick
  <2> QED
    BY <2>1 DEF AnswerInv
<1>4. ASSUME NEW tag, NEW hint, NEW result \in SmartRecall(lite, tag, hint, Limit, now), Recall(tag, hint, result)
      PROVE  AnswerInv'
  <2>1. answer' = [tag |-> tag, hint |-> hint, ids |-> result] /\ lite' = TouchNodes(lite, result, now)
    BY <1>4 DEF Recall, Call
  <2>2. answer'.tag = tag /\ answer'.hint = hint /\ answer'.ids = result
    BY <2>1
  <2> SUFFICES ASSUME hint # None, hint # <<>> PROVE Recalled(lite', tag, hint, result)
    BY <2>2 DEF AnswerInv, Recalled, Matches, SearchNodesHybrid, SearchNodes, SearchNodesCjk, Present
  <2>3. Recalled(lite, tag, hint, result)
    BY RecallMatches
  <2>4. lite \in Databases /\ now \in Nat
    BY SessionsAssumption DEF NodesInv
  <2>5. /\ SearchNodesHybrid(lite', hint) = SearchNodesHybrid(lite, hint)
        /\ Matches(lite', tag, hint) = Matches(lite, tag, hint)
    BY <2>1, <2>4, TouchedMatches
  <2> QED
    BY <2>3, <2>5 DEF Recalled
<1>5. ASSUME NEW tag, NEW hint, NEW pgFound, NEW sqlxFound, RecallSearch(tag, hint, pgFound, sqlxFound) PROVE AnswerInv'
  BY <1>5 DEF RecallSearch, AnswerInv
<1>6. CASE (\E pgResult, sqlxResult : RecallRead(pgResult, sqlxResult)) \/ RecallTouch
  BY <1>0, <1>6 DEF RecallRead, RecallTouch
<1> QED
  BY <1>1, <1>2, <1>3, <1>4, <1>5, <1>6 DEF Next, Recalls

(* A recall with a hint returns matches only, and does not lose any,       *)
(* whatever the nodes, words, tags, limits and windows of candidates.      *)
THEOREM MatchesRecalled == Spec => []RecallFindsMatches
<1>1. Init => AnswerInv
  BY DEF Init, AnswerInv
<1>2. AnswerInv => RecallFindsMatches
  BY DEF AnswerInv, RecallFindsMatches, Recalled, Matches
<1> QED
  BY <1>1, <1>2, InitNodes, StepNodes, StepAnswer, PTL DEF Spec

----------------------------------------------------------------------------
(* Three backends.                                                         *)

(* SqlxPgGraph's insertions come to the same                               *)
LEMMA SameInsertion ==
  ASSUME NEW db, NEW batch
  PROVE  SqlxAppendEdgesInTx(db, batch) = FoldLeft(AppendEdge, db, batch)
<1>1. \A x, y : SqlxAppendEdge(x, y) = AppendEdge(x, y)
  BY DEF SqlxAppendEdge, AppendEdge, Clashes, SameTriple
<1> DEFINE P(h) == h = [s \in SUBSET (DOMAIN batch) |->
                          IF s = {} THEN db ELSE AppendEdge(h[s \ {Max(s)}], batch[Max(s)])]
           Q(h) == h = [s \in SUBSET (DOMAIN batch) |->
                          IF s = {} THEN db ELSE SqlxAppendEdge(h[s \ {Max(s)}], batch[Max(s)])]
<1>2. \A h : P(h) <=> Q(h)
  BY <1>1
<1>3. (CHOOSE h : P(h)) = (CHOOSE h : Q(h))
  <2> HIDE DEF P, Q
  <2> QED
    BY <1>2, Zenon
<1>4. FoldLeft(AppendEdge, db, batch) = (CHOOSE h : P(h))[DOMAIN batch]
  BY DEF FoldLeft, MapThenFoldSet
<1>5. FoldLeft(SqlxAppendEdge, db, batch) = (CHOOSE h : Q(h))[DOMAIN batch]
  BY DEF FoldLeft, MapThenFoldSet
<1> HIDE DEF P, Q
<1> QED
  BY <1>3, <1>4, <1>5 DEF SqlxAppendEdgesInTx

(* Its chunks,                                                             *)
ChunkOf(batch, k) ==
  SubSeq(batch, (k - 1) * Chunk + 1, IF k = Chunks(batch) THEN Len(batch) ELSE k * Chunk)

(* which cover the batch,                                                  *)
LEMMA ChunksCover ==
  ASSUME NEW batch \in Seq(Edges)
  PROVE  /\ Chunks(batch) \in Nat
         /\ \E top \in [0..Chunks(batch) -> 0..Len(batch)] :
              /\ top[0] = 0 /\ top[Chunks(batch)] = Len(batch)
              /\ \A k \in 1..Chunks(batch) : /\ top[k - 1] <= top[k]
                                             /\ ChunkOf(batch, k) = SubSeq(batch, top[k - 1] + 1, top[k])
<1>1. PICK last \in Nat, size \in Nat \ {0} : last = Len(batch) /\ size = Chunk
  BY LenProperties, SessionsAssumption
<1>2. PICK m \in Nat : m = last + size - 1
  <2>1. last + size - 1 \in Nat
    BY <1>1
  <2> QED
    BY <2>1
<1>3. PICK n \in Nat : n = m \div size
  OBVIOUS
<1>4. PICK whole \in Nat : whole = n * size
  OBVIOUS
<1>5. Chunks(batch) = n
  BY <1>1, <1>2, <1>3 DEF Chunks
<1>6. m < (m \div size) * size + size /\ (m \div size) * size <= m
  OBVIOUS
<1>7. whole >= last /\ whole < last + size
  BY <1>1, <1>2, <1>3, <1>4, <1>6
<1>8. ASSUME NEW k \in 0..n, k # n PROVE k * size \in Nat /\ k * size <= last /\ (k + 1) * size = k * size + size
  <2>1. k * size \in Nat /\ (k + 1) * size = k * size + size
    OBVIOUS
  <2>2. k + 1 <= n
    BY <1>8
  <2>3. (k + 1) * size <= n * size
    BY <2>2
  <2> QED
    BY <1>4, <1>7, <2>1, <2>3
<1> DEFINE top == [k \in 0..n |-> IF k = n THEN last ELSE k * size]
<1>9. top \in [0..n -> 0..last] /\ top[0] = 0 /\ top[n] = last
  <2>1. \A k \in 0..n : (IF k = n THEN last ELSE k * size) \in 0..last
    BY <1>8
  <2>2. n = 0 => last = 0
    BY <1>4, <1>7
  <2> QED
    BY <2>1, <2>2
<1>10. ASSUME NEW k \in 1..n
       PROVE  top[k - 1] <= top[k] /\ ChunkOf(batch, k) = SubSeq(batch, top[k - 1] + 1, top[k])
  <2>1. k - 1 \in 0..n /\ k - 1 # n /\ k \in 0..n /\ (k - 1) + 1 = k
    OBVIOUS
  <2>2. top[k - 1] = (k - 1) * size /\ top[k] = IF k = n THEN last ELSE k * size
    BY <2>1
  <2>3. (k - 1) * size <= last /\ k * size = (k - 1) * size + size /\ (k - 1) * size \in Nat
    BY <1>8, <2>1
  <2> HIDE DEF top
  <2>4. top[k - 1] <= top[k]
    BY <2>2, <2>3
  <2> QED
    BY <1>1, <1>5, <2>2, <2>4 DEF ChunkOf
<1> HIDE DEF top
<1> QED
  BY <1>1, <1>5, <1>9, <1>10

(* are appended one by one.                                                *)
LEMMA ChunkFold ==
  ASSUME NEW db \in Databases, NEW chunks \in Seq(Seq(Edges))
  PROVE  \E p \in [0..Len(chunks) -> Databases] :
              /\ p[0] = db /\ p[Len(chunks)] = FoldLeft(SqlxAppendEdgesInTx, db, chunks)
              /\ \A k \in 1..Len(chunks) : p[k] = SqlxAppendEdgesInTx(p[k - 1], chunks[k])
<1> DEFINE last == Len(chunks)
           op == [q \in (1..last) \X Databases |-> SqlxAppendEdgesInTx(q[2], chunks[q[1]])]
           P(h) == h = [s \in SUBSET (1..last) |->
                          IF s = {} THEN db ELSE SqlxAppendEdgesInTx(h[s \ {Max(s)}], chunks[Max(s)])]
           fold == CHOOSE h : P(h)
<1>0. last \in Nat /\ DOMAIN chunks = 1..last /\ \A k \in 1..last : chunks[k] \in Seq(Edges)
  BY LenProperties, ElementOfSeq
<1> HIDE DEF last
<1>1. op \in [(1..last) \X Databases -> Databases]
  <2>1. ASSUME NEW q \in (1..last) \X Databases PROVE SqlxAppendEdgesInTx(q[2], chunks[q[1]]) \in Databases
    <3>1. PICK d \in Databases, b \in Seq(Edges) : d = q[2] /\ b = chunks[q[1]]
      BY <1>0, <2>1
    <3> QED
      BY <3>1, SameInsertion, BatchAppended DEF Appended
  <2> QED
    BY <2>1
<1>3. P(fold)
  <2>1. PICK g \in [SUBSET (1..last) -> Databases] : Computes(g, last, Databases, db, op)
    <3> HIDE DEF op
    <3> QED
      BY <1>0, <1>1, LeftRecursion
  <2>2. P(g)
    <3>1. \A s \in SUBSET (1..last) : s # {} => g[s] = SqlxAppendEdgesInTx(g[s \ {Max(s)}], chunks[Max(s)])
      BY <2>1 DEF Computes
    <3> QED
      BY <2>1, <3>1 DEF Computes
  <2> HIDE DEF P
  <2> QED
    BY <2>2
<1>4. FoldLeft(SqlxAppendEdgesInTx, db, chunks) = fold[1..last]
  BY <1>0 DEF FoldLeft, MapThenFoldSet
<1>5. Follows(fold, last, Databases, db, op)
  <2>1. ASSUME NEW h, P(h) PROVE Follows(h, last, Databases, db, op)
    <3>1. \A s \in SUBSET (1..last) : s # {} => Max(s) \in 1..last
      BY <1>0, GreatestChooses DEF Chooses
    <3>2. h[{}] = db
      BY <2>1
    <3>3. ASSUME NEW s \in SUBSET (1..last), s # {}, h[s \ {Max(s)}] \in Databases
          PROVE  h[s] = op[<<Max(s), h[s \ {Max(s)}]>>]
      <4>1. h[s] = SqlxAppendEdgesInTx(h[s \ {Max(s)}], chunks[Max(s)])
        BY <2>1, <3>3
      <4>2. <<Max(s), h[s \ {Max(s)}]>> \in (1..last) \X Databases
        BY <3>1, <3>3
      <4> QED
        BY <4>1, <4>2
    <3> QED
      BY <3>2, <3>3 DEF Follows
  <2> HIDE DEF P, fold
  <2> QED
    BY <1>3, <2>1
<1>6. PICK p \in [0..last -> Databases] : p[last] = fold[1..last] /\ Passes(p, last, db, op)
  <2> HIDE DEF op, fold
  <2> QED
    BY <1>0, <1>1, <1>5, LeftFold
<1>7. ASSUME NEW k \in 1..last PROVE p[k] = SqlxAppendEdgesInTx(p[k - 1], chunks[k])
  <2>1. k - 1 \in 0..last
    BY <1>0
  <2> QED
    BY <1>6, <2>1 DEF Passes
<1> QED
  BY <1>4, <1>6, <1>7 DEF last, Passes

(* How a batch runs through the databases between its edges.               *)
Runs(q, batch) ==
  /\ q \in [0..Len(batch) -> Databases]
  /\ \A k \in 1..Len(batch) : q[k] = AppendEdge(q[k - 1], batch[k])

(* A part of a batch takes a database from where the batch is before that  *)
(* part to where it is after it.                                           *)
LEMMA PartRuns ==
  ASSUME NEW batch \in Seq(Edges), NEW q, Runs(q, batch), NEW low \in 0..Len(batch), NEW high \in 0..Len(batch),
         low <= high
  PROVE  /\ SubSeq(batch, low + 1, high) \in Seq(Edges)
         /\ q[low] \in Databases
         /\ FoldLeft(AppendEdge, q[low], SubSeq(batch, low + 1, high)) = q[high]
<1>1. PICK last \in Nat : last = Len(batch) /\ DOMAIN batch = 1..last /\ \A k \in 1..last : batch[k] \in Edges
  BY LenProperties, ElementOfSeq
<1>2. PICK part : part = SubSeq(batch, low + 1, high)
  OBVIOUS
<1>3. PICK n \in Nat : n = high - low
  <2>1. high - low \in Nat
    BY <1>1
  <2> QED
    BY <2>1
<1>4. part \in Seq(Edges) /\ Len(part) = n /\ \A i \in 1..n : part[i] = batch[low + i]
  <2>1. part = [i \in 1..n |-> batch[low + i]]
    BY <1>1, <1>2, <1>3
  <2>2. \A i \in 1..n : low + i \in 1..last
    BY <1>1, <1>3
  <2>3. \A i \in 1..n : batch[low + i] \in Edges
    BY <1>1, <2>2
  <2>4. [i \in 1..n |-> batch[low + i]] \in Seq(Edges) /\ Len([i \in 1..n |-> batch[low + i]]) = n
    BY <2>3
  <2>5. \A i \in 1..n : [j \in 1..n |-> batch[low + j]][i] = batch[low + i]
    OBVIOUS
  <2> QED
    BY <2>1, <2>4, <2>5
<1>5. q \in [0..last -> Databases] /\ \A k \in 1..last : q[k] = AppendEdge(q[k - 1], batch[k])
  BY <1>1 DEF Runs
<1>6. PICK db \in Databases : db = q[low]
  BY <1>1, <1>5
<1>7. PICK p \in [0..n -> Databases] :
        /\ p[0] = db /\ p[n] = FoldLeft(AppendEdge, db, part)
        /\ \A k \in 1..n : p[k] = AppendEdge(p[k - 1], part[k])
  <2>1. \E p \in [0..Len(part) -> Databases] :
          /\ p[0] = db /\ p[Len(part)] = FoldLeft(AppendEdge, db, part)
          /\ \A k \in 1..Len(part) : p[k] = AppendEdge(p[k - 1], part[k])
    BY <1>4, AppendFold
  <2> QED
    BY <1>4, <2>1
<1> DEFINE U == {k \in 0..n : p[k] # q[low + k]}
<1>8. U = {}
  <2>1. U \subseteq 0..n /\ 0 \notin U
    BY <1>1, <1>6, <1>7
  <2>2. ASSUME NEW k \in 1..n, k - 1 \notin U PROVE k \notin U
    <3>1. k - 1 \in 0..n /\ k \in 0..n /\ low + k \in 1..last /\ (low + k) - 1 = low + (k - 1)
      BY <1>1, <1>3
    <3>2. p[k - 1] = q[low + (k - 1)]
      BY <2>2, <3>1
    <3>3. p[k] = AppendEdge(p[k - 1], batch[low + k])
      BY <1>4, <1>7
    <3>4. q[low + k] = AppendEdge(q[low + (k - 1)], batch[low + k])
      BY <1>5, <3>1
    <3> QED
      BY <3>2, <3>3, <3>4
  <2> HIDE DEF U
  <2> QED
    BY <2>1, <2>2, NothingFrom
<1>9. p[n] = q[low + n] /\ low + n = high
  <2>1. n \in 0..n /\ low + n = high
    BY <1>1, <1>3
  <2> QED
    BY <1>8, <2>1
<1> QED
  BY <1>2, <1>4, <1>6, <1>7, <1>9

(* All chunks of a batch make what PgGraph and SQLite make of it.          *)
LEMMA ChunksAppended ==
  ASSUME NEW db \in Databases, NEW batch \in Seq(Edges)
  PROVE  /\ SqlxAppendEdges(db, batch, Chunks(batch)) = FoldLeft(AppendEdge, db, batch)
         /\ PgAppendEdges(db, batch, Chunks(batch)) = FoldLeft(AppendEdge, db, batch)
<1>1. PICK last \in Nat : last = Len(batch)
  BY LenProperties
<1>2. PICK n \in Nat : n = Chunks(batch)
  BY ChunksCover
<1>3. PICK top \in [0..n -> 0..last] :
        /\ top[0] = 0 /\ top[n] = last
        /\ \A k \in 1..n : top[k - 1] <= top[k] /\ ChunkOf(batch, k) = SubSeq(batch, top[k - 1] + 1, top[k])
  BY <1>1, <1>2, ChunksCover
<1>4. PICK q \in [0..last -> Databases] : /\ q[0] = db /\ q[last] = FoldLeft(AppendEdge, db, batch)
                                          /\ \A k \in 1..last : q[k] = AppendEdge(q[k - 1], batch[k])
  BY <1>1, AppendFold
<1>5. Runs(q, batch)
  BY <1>1, <1>4 DEF Runs
<1>6. ASSUME NEW k \in 1..n
      PROVE  /\ ChunkOf(batch, k) \in Seq(Edges) /\ k - 1 \in 0..n /\ k \in 0..n
             /\ SqlxAppendEdgesInTx(q[top[k - 1]], ChunkOf(batch, k)) = q[top[k]]
  <2>1. k - 1 \in 0..n /\ k \in 0..n
    OBVIOUS
  <2>2. PICK low \in 0..last, high \in 0..last : low = top[k - 1] /\ high = top[k] /\ low <= high
    BY <1>3, <2>1
  <2>3. ChunkOf(batch, k) = SubSeq(batch, low + 1, high)
    BY <1>3, <2>2
  <2>4. /\ SubSeq(batch, low + 1, high) \in Seq(Edges)
        /\ FoldLeft(AppendEdge, q[low], SubSeq(batch, low + 1, high)) = q[high]
    BY <1>1, <1>5, <2>2, PartRuns
  <2> QED
    BY <2>1, <2>2, <2>3, <2>4, SameInsertion
<1>7. PICK chunks : chunks = [k \in 1..n |-> ChunkOf(batch, k)]
  OBVIOUS
<1>8. SqlxAppendEdges(db, batch, n) = FoldLeft(SqlxAppendEdgesInTx, db, chunks)
  BY <1>7 DEF SqlxAppendEdges, ChunkOf
<1>9. chunks \in Seq(Seq(Edges)) /\ Len(chunks) = n /\ \A k \in 1..n : chunks[k] = ChunkOf(batch, k)
  <2>1. \A k \in 1..n : ChunkOf(batch, k) \in Seq(Edges)
    BY <1>6
  <2>2. PICK S : S = Seq(Edges)
    OBVIOUS
  <2>3. [k \in 1..n |-> ChunkOf(batch, k)] \in Seq(S) /\ Len([k \in 1..n |-> ChunkOf(batch, k)]) = n
    BY <2>1, <2>2
  <2> QED
    BY <1>7, <2>2, <2>3
<1>10. PICK p \in [0..n -> Databases] :
        /\ p[0] = db /\ p[n] = FoldLeft(SqlxAppendEdgesInTx, db, chunks)
        /\ \A k \in 1..n : p[k] = SqlxAppendEdgesInTx(p[k - 1], chunks[k])
  <2>1. \E p \in [0..Len(chunks) -> Databases] :
          /\ p[0] = db /\ p[Len(chunks)] = FoldLeft(SqlxAppendEdgesInTx, db, chunks)
          /\ \A k \in 1..Len(chunks) : p[k] = SqlxAppendEdgesInTx(p[k - 1], chunks[k])
    BY <1>9, ChunkFold
  <2> QED
    BY <1>9, <2>1
<1> DEFINE U == {k \in 0..n : p[k] # q[top[k]]}
<1>11. U = {}
  <2>1. U \subseteq 0..n /\ 0 \notin U
    BY <1>3, <1>4, <1>10
  <2>2. ASSUME NEW k \in 1..n, k - 1 \notin U PROVE k \notin U
    <3>1. p[k - 1] = q[top[k - 1]]
      BY <1>6, <2>2
    <3>2. p[k] = SqlxAppendEdgesInTx(q[top[k - 1]], ChunkOf(batch, k))
      BY <1>9, <1>10, <3>1
    <3>3. p[k] = q[top[k]]
      BY <1>6, <3>2
    <3> QED
      BY <3>3
  <2> HIDE DEF U
  <2> QED
    BY <2>1, <2>2, NothingFrom
<1>12. SqlxAppendEdges(db, batch, n) = q[last]
  <2>1. n \in 0..n
    OBVIOUS
  <2>2. p[n] = q[top[n]]
    BY <1>11, <2>1
  <2> QED
    BY <1>3, <1>8, <1>10, <2>2
<1>13. PgAppendEdges(db, batch, n) = FoldLeft(AppendEdge, db, batch)
  <2>1. PICK m \in Nat, size \in Nat \ {0} : m = n * size /\ size = Chunk
    BY SessionsAssumption
  <2>2. m >= last
    <3>1. PICK above \in Nat : above = last + size - 1
      <4>1. last + size - 1 \in Nat
        BY <2>1
      <4> QED
        BY <4>1
    <3>2. n = above \div size
      BY <1>1, <1>2, <2>1, <3>1 DEF Chunks
    <3>3. above < (above \div size) * size + size
      OBVIOUS
    <3> QED
      BY <2>1, <3>1, <3>2, <3>3
  <2>3. SubSeq(batch, 1, IF n * Chunk < Len(batch) THEN n * Chunk ELSE Len(batch)) = batch
    <3>1. SubSeq(batch, 1, last) = batch
      BY <1>1
    <3> QED
      BY <1>1, <2>1, <2>2, <3>1
  <2>4. PgAppendEdges(db, batch, n) = FoldLeft(PgAppendEdge, db, batch)
    BY <2>3 DEF PgAppendEdges
  <2> QED
    BY <2>4, AppendFold
<1> QED
  BY <1>2, <1>4, <1>12, <1>13

(* The edges that come of a batch depend on the edges there were.          *)
LEMMA EdgesFollow ==
  ASSUME NEW a \in Databases, NEW b \in Databases, a.edges = b.edges, NEW batch \in Seq(Edges)
  PROVE  FoldLeft(AppendEdge, a, batch).edges = FoldLeft(AppendEdge, b, batch).edges
<1>1. PICK last \in Nat : last = Len(batch)
  BY LenProperties
<1>2. PICK p \in [0..last -> Databases] : /\ p[0] = a /\ p[last] = FoldLeft(AppendEdge, a, batch)
                                          /\ \A k \in 1..last : p[k] = AppendEdge(p[k - 1], batch[k])
  BY <1>1, AppendFold
<1>3. PICK q \in [0..last -> Databases] : /\ q[0] = b /\ q[last] = FoldLeft(AppendEdge, b, batch)
                                          /\ \A k \in 1..last : q[k] = AppendEdge(q[k - 1], batch[k])
  BY <1>1, AppendFold
<1> DEFINE U == {k \in 0..last : p[k].edges # q[k].edges}
<1>4. U = {}
  <2>1. U \subseteq 0..last /\ 0 \notin U
    BY <1>2, <1>3
  <2>2. ASSUME NEW k \in 1..last, k - 1 \notin U PROVE k \notin U
    <3>1. PICK x \in Databases, y \in Databases : x = p[k - 1] /\ y = q[k - 1] /\ x.edges = y.edges
      <4>1. k - 1 \in 0..last
        OBVIOUS
      <4> QED
        BY <2>2, <4>1
    <3>2. AppendEdge(x, batch[k]).edges = AppendEdge(y, batch[k]).edges
      BY <3>1 DEF AppendEdge, Clashes, Databases
    <3>3. p[k].edges = q[k].edges
      BY <1>2, <1>3, <3>1, <3>2
    <3> QED
      BY <3>3
  <2> HIDE DEF U
  <2> QED
    BY <2>1, <2>2, NothingFrom
<1>5. last \in 0..last
  OBVIOUS
<1> QED
  BY <1>2, <1>3, <1>4, <1>5

(* Two databases hold the same nodes but for when they were created and    *)
(* read.                                                                   *)
SameNodes(a, b) ==
  \A id \in Ids : /\ (a.nodes[id] = None) = (b.nodes[id] = None)
                  /\ a.nodes[id] # None => SameText(a.nodes[id], b.nodes[id])

(* The three databases after calls that all have; once a node was deleted  *)
(* that had edges, SQLite has fewer.                                       *)
Together(a, b, c, fewer) ==
  /\ a \in Databases /\ b \in Databases /\ c \in Databases
  /\ SameNodes(a, b) /\ SameNodes(b, c)
  /\ b.edges = c.edges
  /\ ~fewer => a.edges = b.edges

AgreeInv == common => Together(lite, pg, sqlx, orphaned)

(* To hold the same nodes is an equivalence.                               *)
LEMMA SameEquivalence ==
  /\ \A a : SameNodes(a, a)
  /\ \A a, b : SameNodes(a, b) => SameNodes(b, a)
  /\ \A a, b, c : SameNodes(a, b) /\ SameNodes(b, c) => SameNodes(a, c)
  BY DEF SameNodes, SameText

(* Counting an access is nothing that is compared.                         *)
LEMMA TouchedSame ==
  ASSUME NEW db \in Databases, NEW ids, NEW t \in Nat
  PROVE  /\ SameNodes(db, TouchNodes(db, ids, t)) /\ TouchNodes(db, ids, t) \in Databases
         /\ TouchNodes(db, ids, t).edges = db.edges
         /\ PgTouch(db, ids, t) = TouchNodes(db, ids, t) /\ SqlxTouch(db, ids, t) = TouchNodes(db, ids, t)
<1>1. NodesAged(db, TouchNodes(db, ids, t), t)
  BY DatabaseAges
<1> DEFINE nodes == [id \in Ids |-> IF db.nodes[id] # None /\ id \in ids THEN Touched(db.nodes[id], t) ELSE db.nodes[id]]
<1>2. TouchNodes(db, ids, t) = [db EXCEPT !.nodes = nodes]
  BY DEF TouchNodes, Update
<1>3. PgTouch(db, ids, t) = [db EXCEPT !.nodes = nodes]
  <2>1. [id \in Ids |-> IF id \in ids /\ db.nodes[id] # None THEN Touched(db.nodes[id], t) ELSE db.nodes[id]] = nodes
    OBVIOUS
  <2> QED
    BY <2>1 DEF PgTouch
<1>4. TouchNodes(db, ids, t).nodes = nodes /\ TouchNodes(db, ids, t).edges = db.edges
  BY <1>2 DEF Databases
<1>5. ASSUME NEW n \in NodeRecords PROVE SameText(n, n) /\ SameText(n, Touched(n, t))
  BY DEF NodeRecords, SameText, Touched
<1>6. ASSUME NEW id \in Ids
      PROVE  (db.nodes[id] = None) = (nodes[id] = None) /\ (db.nodes[id] # None => SameText(db.nodes[id], nodes[id]))
  <2>1. CASE db.nodes[id] = None
    BY <2>1
  <2>2. CASE db.nodes[id] # None
    <3>1. PICK n \in NodeRecords : n = db.nodes[id]
      BY <2>2, Parts DEF Present
    <3>2. nodes[id] \in {n, Touched(n, t)}
      BY <3>1
    <3>3. Touched(n, t) \in NodeRecords
      BY NodesAge DEF Aged
    <3> HIDE DEF nodes
    <3> QED
      BY <1>5, <2>2, <3>1, <3>2, <3>3, SessionsAssumption
  <2> QED
    BY <2>1, <2>2
<1> HIDE DEF nodes
<1>7. SameNodes(db, TouchNodes(db, ids, t))
  BY <1>4, <1>6 DEF SameNodes
<1> QED
  BY <1>1, <1>2, <1>3, <1>4, <1>7 DEF NodesAged, SqlxTouch

(* SqlxPgGraph's statements come to the same as PgGraph's, and but for the *)
(* nodes' also as SQLite's.                                                *)
LEMMA SqlxSame ==
  ASSUME NEW db \in Databases, NEW id
  PROVE  /\ \A node : SqlxUpsertNode(db, id, node) = PgUpsertNode(db, id, node)
         /\ SqlxDeleteNode(db, id) = PgDeleteNode(db, id)
         /\ SqlxRemoveEdgesForNode(db, id) = RemoveEdgesForNode(db, id)
         /\ SqlxRemoveEdgesForNodeInTx(db, id) = RemoveEdgesForNode(db, id)
         /\ PgRemoveEdgesForNode(db, id) = RemoveEdgesForNode(db, id)
         /\ SqlxDeleteEdge(db, id) = DeleteEdge(db, id) /\ PgDeleteEdge(db, id) = DeleteEdge(db, id)
<1>1. \A node : SqlxUpsertNode(db, id, node) = PgUpsertNode(db, id, node)
  BY DEF SqlxUpsertNode, PgUpsertNode
<1>2. SqlxDeleteNode(db, id) = PgDeleteNode(db, id)
  BY DEF SqlxDeleteNode, PgDeleteNode
<1>3. {e \in db.edges : e.source # id /\ e.target # id} = {e \in db.edges : ~Touches(e, id)}
  BY DEF Touches
<1> QED
  BY <1>1, <1>2, <1>3 DEF SqlxRemoveEdgesForNode, SqlxRemoveEdgesForNodeInTx, PgRemoveEdgesForNode,
                          RemoveEdgesForNode, SqlxDeleteEdge, PgDeleteEdge, DeleteEdge

(* A node written by all is the same in all.                               *)
LEMMA UpsertTogether ==
  ASSUME NEW a, NEW b, NEW c, NEW fewer, Together(a, b, c, fewer), NEW id \in Ids, NEW node \in NodeRecords
  PROVE  Together(UpsertNode(a, id, node), PgUpsertNode(b, id, node), SqlxUpsertNode(c, id, node), fewer)
<1>1. PICK x : x = UpsertNode(a, id, node)
  OBVIOUS
<1>2. /\ x \in Databases /\ x.edges = a.edges /\ \A other \in Ids \ {id} : x.nodes[other] = a.nodes[other]
      /\ x.nodes[id] # None /\ SameText(x.nodes[id], node)
  BY <1>1, Upserted, SessionsAssumption DEF Together, SameText
<1>3. ASSUME NEW db \in Databases
      PROVE  LET y == PgUpsertNode(db, id, node) IN
             /\ y \in Databases /\ y.edges = db.edges /\ \A other \in Ids \ {id} : y.nodes[other] = db.nodes[other]
             /\ y.nodes[id] # None /\ y.nodes[id] = node
  <2>1. node \in NodeRecords \cup {None} /\ node # None
    BY SessionsAssumption
  <2> QED
    BY <2>1, OtherNode DEF PgUpsertNode
<1>4. PICK y, z : y = PgUpsertNode(b, id, node) /\ z = PgUpsertNode(c, id, node)
  OBVIOUS
<1>5. /\ y \in Databases /\ y.edges = b.edges /\ \A other \in Ids \ {id} : y.nodes[other] = b.nodes[other]
      /\ z \in Databases /\ z.edges = c.edges /\ \A other \in Ids \ {id} : z.nodes[other] = c.nodes[other]
      /\ y.nodes[id] # None /\ y.nodes[id] = node /\ z.nodes[id] # None /\ z.nodes[id] = node
  BY <1>3, <1>4 DEF Together
<1>6. SqlxUpsertNode(c, id, node) = z
  BY <1>4, SqlxSame DEF Together
<1>7. SameNodes(x, y) /\ SameNodes(y, z)
  <2>1. SameText(node, node)
    BY DEF SameText
  <2>2. SameNodes(a, b) /\ SameNodes(b, c)
    BY DEF Together
  <2>3. ASSUME NEW other \in Ids \ {id}
        PROVE  /\ (x.nodes[other] = None) = (y.nodes[other] = None)
               /\ x.nodes[other] # None => SameText(x.nodes[other], y.nodes[other])
               /\ (y.nodes[other] = None) = (z.nodes[other] = None)
               /\ y.nodes[other] # None => SameText(y.nodes[other], z.nodes[other])
    BY <1>2, <1>5, <2>2, <2>3 DEF SameNodes
  <2> QED
    BY <1>2, <1>5, <2>1, <2>3 DEF SameNodes
<1> QED
  BY <1>1, <1>2, <1>4, <1>5, <1>6, <1>7 DEF Together

(* So is one that is deleted, and its edges are still there if it had any. *)
LEMMA DeleteTogether ==
  ASSUME NEW a, NEW b, NEW c, NEW fewer, Together(a, b, c, fewer), NEW id \in Ids
  PROVE  Together(DeleteNode(a, id), PgDeleteNode(b, id), SqlxDeleteNode(c, id), fewer \/ EdgesForNode(a, id) # {})
<1>1. a \in Databases /\ b \in Databases /\ c \in Databases
  BY DEF Together
<1>2. PICK x, y, z : x = DeleteNode(a, id) /\ y = PgDeleteNode(b, id) /\ z = PgDeleteNode(c, id)
  OBVIOUS
<1>3. /\ x \in Databases /\ x.nodes[id] = None /\ \A other \in Ids \ {id} : x.nodes[other] = a.nodes[other]
      /\ y \in Databases /\ y.nodes[id] = None /\ \A other \in Ids \ {id} : y.nodes[other] = b.nodes[other]
      /\ z \in Databases /\ z.nodes[id] = None /\ \A other \in Ids \ {id} : z.nodes[other] = c.nodes[other]
  BY <1>1, <1>2, Removed
<1>4. SqlxDeleteNode(c, id) = z
  BY <1>1, <1>2, SqlxSame
<1>5. y.edges = b.edges /\ z.edges = c.edges
  <2>1. None \in NodeRecords \cup {None}
    OBVIOUS
  <2> QED
    BY <1>1, <1>2, <2>1, OtherNode DEF PgDeleteNode
<1>6. EdgesForNode(a, id) = {} => x.edges = a.edges
  <2>1. PICK rest : rest = RemoveEdgesForNode(a, id)
    OBVIOUS
  <2>2. rest \in Databases /\ rest.edges = {e \in a.edges : ~Touches(e, id)}
    BY <1>1, <2>1, Removed DEF RemoveEdgesForNode, Databases
  <2>3. x = [rest EXCEPT !.nodes[id] = None]
    BY <1>2, <2>1 DEF DeleteNode
  <2>4. x.edges = rest.edges
    BY <2>2, <2>3, OtherNode
  <2> QED
    BY <2>2, <2>4 DEF EdgesForNode
<1>7. SameNodes(x, y) /\ SameNodes(y, z)
  <2>1. SameNodes(a, b) /\ SameNodes(b, c)
    BY DEF Together
  <2>2. ASSUME NEW other \in Ids \ {id}
        PROVE  /\ (x.nodes[other] = None) = (y.nodes[other] = None)
               /\ x.nodes[other] # None => SameText(x.nodes[other], y.nodes[other])
               /\ (y.nodes[other] = None) = (z.nodes[other] = None)
               /\ y.nodes[other] # None => SameText(y.nodes[other], z.nodes[other])
    BY <1>3, <2>1, <2>2 DEF SameNodes
  <2> QED
    BY <1>3, <2>2 DEF SameNodes
<1> QED
  BY <1>2, <1>3, <1>4, <1>5, <1>6, <1>7 DEF Together

(* Other edges with the same nodes.                                        *)
LEMMA EdgesTogether ==
  ASSUME NEW a, NEW b, NEW c, NEW fewer, Together(a, b, c, fewer),
         NEW x \in Databases, NEW y \in Databases, NEW z \in Databases,
         x.nodes = a.nodes, y.nodes = b.nodes, z.nodes = c.nodes, y.edges = z.edges, ~fewer => x.edges = y.edges
  PROVE  Together(x, y, z, fewer)
  BY DEF Together, SameNodes

(* A batch appended to all,                                                *)
LEMMA BatchTogether ==
  ASSUME NEW a, NEW b, NEW c, NEW fewer, Together(a, b, c, fewer), NEW batch \in Seq(Edges)
  PROVE  Together(FoldLeft(AppendEdge, a, batch), FoldLeft(AppendEdge, b, batch), FoldLeft(AppendEdge, c, batch), fewer)
<1>1. a \in Databases /\ b \in Databases /\ c \in Databases
  BY DEF Together
<1>2. PICK x, y, z : /\ x = FoldLeft(AppendEdge, a, batch) /\ y = FoldLeft(AppendEdge, b, batch)
                     /\ z = FoldLeft(AppendEdge, c, batch)
  OBVIOUS
<1>3. /\ x \in Databases /\ x.nodes = a.nodes /\ y \in Databases /\ y.nodes = b.nodes
      /\ z \in Databases /\ z.nodes = c.nodes
  BY <1>1, <1>2, BatchAppended DEF Appended
<1>4. b.edges = c.edges /\ (~fewer => a.edges = b.edges)
  BY DEF Together
<1>5. y.edges = z.edges
  BY <1>1, <1>2, <1>4, EdgesFollow
<1>6. ~fewer => x.edges = y.edges
  BY <1>1, <1>2, <1>4, EdgesFollow
<1>7. Together(x, y, z, fewer)
  BY <1>3, <1>5, <1>6, EdgesTogether
<1> QED
  BY <1>2, <1>7

(* and edges removed from all.                                             *)
LEMMA RemoveTogether ==
  ASSUME NEW a, NEW b, NEW c, NEW fewer, Together(a, b, c, fewer), NEW id
  PROVE  /\ Together(RemoveEdgesForNode(a, id), RemoveEdgesForNode(b, id), RemoveEdgesForNode(c, id), fewer)
         /\ Together(DeleteEdge(a, id), DeleteEdge(b, id), DeleteEdge(c, id), fewer)
<1>1. ASSUME NEW db \in Databases
      PROVE  /\ RemoveEdgesForNode(db, id) \in Databases /\ RemoveEdgesForNode(db, id).nodes = db.nodes
             /\ DeleteEdge(db, id) \in Databases /\ DeleteEdge(db, id).nodes = db.nodes
             /\ RemoveEdgesForNode(db, id).edges = {e \in db.edges : ~Touches(e, id)}
             /\ DeleteEdge(db, id).edges = {e \in db.edges : e.id # id}
  <2>1. /\ RemoveEdgesForNode(db, id) \in Databases /\ RemoveEdgesForNode(db, id).nodes = db.nodes
        /\ DeleteEdge(db, id) \in Databases /\ DeleteEdge(db, id).nodes = db.nodes
    BY Removed
  <2>2. \A edges : [db EXCEPT !.edges = edges].edges = edges
    BY DEF Databases
  <2> QED
    BY <2>1, <2>2 DEF RemoveEdgesForNode, DeleteEdge
<1>2. /\ a \in Databases /\ b \in Databases /\ c \in Databases
      /\ b.edges = c.edges /\ (~fewer => a.edges = b.edges)
  BY DEF Together
<1>3. PICK x, y, z : x = RemoveEdgesForNode(a, id) /\ y = RemoveEdgesForNode(b, id) /\ z = RemoveEdgesForNode(c, id)
  OBVIOUS
<1>4. Together(x, y, z, fewer)
  <2>1. /\ x \in Databases /\ x.nodes = a.nodes /\ y \in Databases /\ y.nodes = b.nodes
        /\ z \in Databases /\ z.nodes = c.nodes /\ y.edges = z.edges
    BY <1>1, <1>2, <1>3
  <2>2. ~fewer => x.edges = y.edges
    BY <1>1, <1>2, <1>3
  <2> QED
    BY <2>1, <2>2, EdgesTogether
<1>5. PICK u, v, w : u = DeleteEdge(a, id) /\ v = DeleteEdge(b, id) /\ w = DeleteEdge(c, id)
  OBVIOUS
<1>6. Together(u, v, w, fewer)
  <2>1. /\ u \in Databases /\ u.nodes = a.nodes /\ v \in Databases /\ v.nodes = b.nodes
        /\ w \in Databases /\ w.nodes = c.nodes /\ v.edges = w.edges
    BY <1>1, <1>2, <1>5
  <2>2. ~fewer => u.edges = v.edges
    BY <1>1, <1>2, <1>5
  <2> QED
    BY <2>1, <2>2, EdgesTogether
<1> QED
  BY <1>3, <1>4, <1>5, <1>6

(* Calls to all keep them together.                                        *)
LEMMA CallsTogether ==
  ASSUME NodesInv, AgreeInv, Calls, common'
  PROVE  Together(lite', pg', sqlx', orphaned')
<1>0. common => Together(lite, pg, sqlx, orphaned)
  BY DEF AgreeInv
<1>a. Together(lite, pg, sqlx, orphaned) => lite \in Databases /\ pg \in Databases /\ sqlx \in Databases
  BY DEF Together
<1>b. ASSUME NEW batch \in Batches PROVE batch \in Seq(Edges)
  BY SessionsAssumption
<1>1. ASSUME NEW id \in Ids, NEW node \in Nodes[now], Upsert(id, node)
      PROVE  Together(lite', pg', sqlx', orphaned')
  <2>1. node \in NodeRecords
    BY SessionsAssumption DEF NodesInv
  <2>2. /\ lite' = UpsertNode(lite, id, node) /\ pg' = PgUpsertNode(pg, id, node) /\ sqlx' = SqlxUpsertNode(sqlx, id, node)
        /\ common' = common /\ orphaned' = orphaned
    BY <1>1 DEF Upsert, Call, history
  <2> QED
    BY <1>0, <2>1, <2>2, UpsertTogether
<1>2. ASSUME NEW id \in Ids, Delete(id)
      PROVE  Together(lite', pg', sqlx', orphaned')
  <2>1. /\ lite' = DeleteNode(lite, id) /\ pg' = PgDeleteNode(pg, id) /\ sqlx' = SqlxDeleteNode(sqlx, id)
        /\ common' = common /\ orphaned' = (orphaned \/ EdgesForNode(lite, id) # {})
    BY <1>2 DEF Delete, Call
  <2> QED
    BY <1>0, <2>1, DeleteTogether
<1>3. ASSUME NEW id \in Ids, RemoveEdges(id)
      PROVE  Together(lite', pg', sqlx', orphaned')
  <2>1. /\ lite' = RemoveEdgesForNode(lite, id) /\ pg' = PgRemoveEdgesForNode(pg, id)
        /\ sqlx' = SqlxRemoveEdgesForNode(sqlx, id) /\ common' = common /\ orphaned' = orphaned
    BY <1>3 DEF RemoveEdges, Call, history
  <2> QED
    BY <1>0, <1>a, <2>1, SqlxSame, RemoveTogether
<1>4. ASSUME NEW id \in Ids, NEW batch \in Batches, NEW fails \in BOOLEAN, ReplaceEdges(id, batch, fails)
      PROVE  Together(lite', pg', sqlx', orphaned')
  <2>1. /\ lite' = IF fails THEN lite ELSE FoldLeft(AppendEdge, RemoveEdgesForNode(lite, id), batch)
        /\ sqlx' = IF fails THEN sqlx ELSE SqlxAppendEdgesInTx(SqlxRemoveEdgesForNodeInTx(sqlx, id), batch)
        /\ pg' = IF fails THEN PgRemoveEdgesForNode(pg, id)
                 ELSE PgAppendEdges(PgRemoveEdgesForNode(pg, id), batch, Chunks(batch))
        /\ common' = (common /\ ~fails) /\ orphaned' = orphaned
    BY <1>4 DEF ReplaceEdges, Call
  <2>2. ~fails /\ Together(lite, pg, sqlx, orphaned)
    BY <1>0, <2>1
  <2>3. PICK x, y, z : x = RemoveEdgesForNode(lite, id) /\ y = RemoveEdgesForNode(pg, id) /\ z = RemoveEdgesForNode(sqlx, id)
    OBVIOUS
  <2>4. Together(x, y, z, orphaned)
    BY <2>2, <2>3, RemoveTogether
  <2>5. y \in Databases /\ z \in Databases
    BY <2>4 DEF Together
  <2>6. lite' = FoldLeft(AppendEdge, x, batch)
    BY <2>1, <2>2, <2>3
  <2>7. pg' = FoldLeft(AppendEdge, y, batch)
    <3>1. pg' = PgAppendEdges(y, batch, Chunks(batch))
      BY <1>a, <2>1, <2>2, <2>3, SqlxSame
    <3> QED
      BY <1>b, <2>5, <3>1, ChunksAppended
  <2>8. sqlx' = FoldLeft(AppendEdge, z, batch)
    <3>1. sqlx' = SqlxAppendEdgesInTx(z, batch)
      BY <1>a, <2>1, <2>2, <2>3, SqlxSame
    <3> QED
      BY <3>1, SameInsertion
  <2> QED
    BY <1>b, <2>1, <2>4, <2>6, <2>7, <2>8, BatchTogether
<1>5. ASSUME NEW batch \in Batches, NEW pgDone, NEW sqlxDone, AppendBatch(batch, pgDone, sqlxDone)
      PROVE  Together(lite', pg', sqlx', orphaned')
  <2>1. /\ lite' = FoldLeft(AppendEdge, lite, batch) /\ pg' = PgAppendEdges(pg, batch, pgDone)
        /\ sqlx' = SqlxAppendEdges(sqlx, batch, sqlxDone)
        /\ common' = (common /\ pgDone = Chunks(batch) /\ sqlxDone = Chunks(batch)) /\ orphaned' = orphaned
    BY <1>5 DEF AppendBatch, AppendEdges, Call
  <2>2. Together(lite, pg, sqlx, orphaned) /\ pgDone = Chunks(batch) /\ sqlxDone = Chunks(batch)
    BY <1>0, <2>1
  <2>3. pg' = FoldLeft(AppendEdge, pg, batch) /\ sqlx' = FoldLeft(AppendEdge, sqlx, batch)
    BY <1>a, <1>b, <2>1, <2>2, ChunksAppended
  <2> QED
    BY <1>b, <2>1, <2>2, <2>3, BatchTogether
<1>6. ASSUME NEW id, RemoveEdge(id)
      PROVE  Together(lite', pg', sqlx', orphaned')
  <2>1. /\ lite' = DeleteEdge(lite, id) /\ pg' = PgDeleteEdge(pg, id) /\ sqlx' = SqlxDeleteEdge(sqlx, id)
        /\ common' = common /\ orphaned' = orphaned
    BY <1>6 DEF RemoveEdge, Call, history
  <2> QED
    BY <1>0, <1>a, <2>1, SqlxSame, RemoveTogether
<1> QED
  BY <1>1, <1>2, <1>3, <1>4, <1>5, <1>6 DEF Calls

(* Recalls touch what is not compared, and what SQLite alone offers ends   *)
(* the comparison.                                                         *)
LEMMA OthersTogether ==
  ASSUME NodesInv, AgreeInv, Recalls \/ OnlyLite \/ Tick \/ Opening \/ Serve \/ Tool \/ UNCHANGED vars, common'
  PROVE  Together(lite', pg', sqlx', orphaned')
<1>0. (common => Together(lite, pg, sqlx, orphaned)) /\ now \in Nat
  BY SessionsAssumption DEF AgreeInv, NodesInv
<1>a. ASSUME UNCHANGED <<lite, pg, sqlx, common, orphaned>> PROVE Together(lite', pg', sqlx', orphaned')
  BY <1>0, <1>a
<1>b. ASSUME NEW x \in Databases, NEW y \in Databases, NEW z \in Databases, common,
             SameNodes(lite, x), SameNodes(pg, y), SameNodes(sqlx, z),
             x.edges = lite.edges, y.edges = pg.edges, z.edges = sqlx.edges
      PROVE  Together(x, y, z, orphaned)
  <2>1. Together(lite, pg, sqlx, orphaned)
    BY <1>0, <1>b
  <2>2. SameNodes(lite, pg) /\ SameNodes(pg, sqlx)
    BY <2>1 DEF Together
  <2>3. SameNodes(x, y) /\ SameNodes(y, z)
    BY <1>b, <2>2, SameEquivalence
  <2> QED
    BY <1>b, <2>1, <2>3 DEF Together
<1>c. Together(lite, pg, sqlx, orphaned) => /\ lite \in Databases /\ pg \in Databases /\ sqlx \in Databases
                                            /\ SameNodes(lite, lite) /\ SameNodes(pg, pg) /\ SameNodes(sqlx, sqlx)
  BY SameEquivalence DEF Together
<1>1. ASSUME NEW tag, NEW hint, NEW result, Recall(tag, hint, result) PROVE Together(lite', pg', sqlx', orphaned')
  <2>1. /\ lite' = TouchNodes(lite, result, now) /\ pg' = pg /\ sqlx' = sqlx
        /\ common' = common /\ orphaned' = orphaned
    BY <1>1 DEF Recall, Call, history
  <2>2. /\ lite' \in Databases /\ SameNodes(lite, lite') /\ lite'.edges = lite.edges
    BY <1>0, <1>c, <2>1, TouchedSame
  <2> QED
    BY <1>0, <1>b, <1>c, <2>1, <2>2
<1>2. ASSUME NEW pgResult, NEW sqlxResult, RecallRead(pgResult, sqlxResult) PROVE Together(lite', pg', sqlx', orphaned')
  <2>1. /\ pg' = PgTouch(pg, pgResult, now) /\ lite' = lite /\ sqlx' = sqlx
        /\ common' = common /\ orphaned' = orphaned
    BY <1>2, Zenon DEF RecallRead, history
  <2>2. /\ pg' \in Databases /\ SameNodes(pg, pg') /\ pg'.edges = pg.edges
    BY <1>0, <1>c, <2>1, TouchedSame
  <2> QED
    BY <1>0, <1>b, <1>c, <2>1, <2>2
<1>3. ASSUME RecallTouch PROVE Together(lite', pg', sqlx', orphaned')
  <2>1. /\ sqlx' = SqlxTouch(sqlx, recall.ids, now) /\ lite' = lite /\ pg' = pg
        /\ common' = common /\ orphaned' = orphaned
    BY <1>3 DEF RecallTouch, history
  <2>2. /\ sqlx' \in Databases /\ SameNodes(sqlx, sqlx') /\ sqlx'.edges = sqlx.edges
    BY <1>0, <1>c, <2>1, TouchedSame
  <2> QED
    BY <1>0, <1>b, <1>c, <2>1, <2>2
<1>4. ASSUME OnlyLite PROVE FALSE
  BY <1>4 DEF OnlyLite, DedupFind, DedupWrite, Lifecycle, OnLite
<1>5. ASSUME NEW tag, NEW hint, NEW pgFound, NEW sqlxFound, RecallSearch(tag, hint, pgFound, sqlxFound)
      PROVE  UNCHANGED <<lite, pg, sqlx, common, orphaned>>
  BY <1>5 DEF RecallSearch, stores, history
<1>6. ASSUME Tick \/ Opening \/ Serve \/ Tool \/ UNCHANGED vars PROVE UNCHANGED <<lite, pg, sqlx, common, orphaned>>
  <2>1. CASE Tick \/ Opening \/ Serve
    BY <2>1 DEF Tick, Opening, Serve, stores, history
  <2>2. CASE Tool
    BY <2>2 DEF Tool, ToolList, ToolReadNodes, ToolReadEdges, ToolWriteNode, ToolWriteEdges, ToolStop, ToolStep,
                stores, history
  <2>3. CASE UNCHANGED vars
    BY <2>3, Zenon DEF vars, stores, history
  <2> QED
    BY <1>6, <2>1, <2>2, <2>3, Zenon
<1> QED
  BY <1>a, <1>1, <1>2, <1>3, <1>4, <1>5, <1>6 DEF Recalls

(* So they stay together.                                                  *)
LEMMA StepAgree == NodesInv /\ AgreeInv /\ [Next]_vars => AgreeInv'
<1> SUFFICES ASSUME NodesInv, AgreeInv, [Next]_vars, common' PROVE Together(lite', pg', sqlx', orphaned')
  BY DEF AgreeInv, Together, SameNodes
<1> QED
  BY CallsTogether, OthersTogether DEF Next

(* Nothing was written at first.                                           *)
LEMMA InitAgree == Init => AgreeInv
<1> SUFFICES ASSUME Init PROVE Together(lite, pg, sqlx, orphaned)
  BY DEF AgreeInv
<1>1. Empty \in Databases
  BY FS_EmptySet DEF Empty, Databases
<1>2. lite = Empty /\ pg = Empty /\ sqlx = Empty
  BY DEF Init
<1> QED
  BY <1>1, <1>2, SameEquivalence DEF Together

(* A phrase is found only where all its words are, and one word wherever   *)
(* it is.                                                                  *)
LEMMA PhraseWords ==
  ASSUME NEW S, NEW T, NEW text \in Seq(S), NEW hint \in Seq(T)
  PROVE  /\ \A i \in 0..Len(text) - Len(hint) : SubSeq(text, i + 1, i + Len(hint)) = hint => ToSet(hint) \subseteq ToSet(text)
         /\ Len(hint) = 1 /\ ToSet(hint) \subseteq ToSet(text) =>
              \E i \in 0..Len(text) - Len(hint) : SubSeq(text, i + 1, i + Len(hint)) = hint
<1>1. PICK last \in Nat, n \in Nat : last = Len(text) /\ n = Len(hint) /\ DOMAIN text = 1..last /\ DOMAIN hint = 1..n
  BY LenProperties
<1>2. ASSUME NEW i \in 0..last - n, SubSeq(text, i + 1, i + n) = hint PROVE ToSet(hint) \subseteq ToSet(text)
  <2>1. ASSUME NEW j \in 1..n PROVE i + j \in 1..last /\ hint[j] = text[i + j]
    <3>1. i + j \in 1..last
      BY <1>1
    <3>2. SubSeq(text, i + 1, i + n) = [k \in 1..n |-> text[i + k]]
      BY <1>1
    <3> QED
      BY <1>2, <3>1, <3>2
  <2> QED
    BY <1>1, <2>1 DEF ToSet
<1>3. ASSUME n = 1, ToSet(hint) \subseteq ToSet(text) PROVE \E i \in 0..last - n : SubSeq(text, i + 1, i + n) = hint
  <2>1. 1 \in DOMAIN hint
    BY <1>1, <1>3
  <2>2. PICK k \in 1..last : text[k] = hint[1]
    BY <1>1, <1>3, <2>1 DEF ToSet
  <2>3. PICK i \in 0..last - 1 : k = i + 1
    <3>1. k - 1 \in 0..last - 1 /\ k = (k - 1) + 1
      OBVIOUS
    <3> QED
      BY <3>1
  <2>4. SubSeq(text, i + 1, i + 1) = [x \in 1..1 |-> text[i + x]]
    BY <1>1, <2>3
  <2>5. hint = [x \in 1..1 |-> hint[x]]
    BY <1>1, <1>3
  <2>6. \A x \in 1..1 : text[i + x] = hint[x]
    BY <2>2, <2>3
  <2> QED
    BY <1>3, <2>4, <2>5, <2>6
<1> QED
  BY <1>1, <1>2, <1>3

(* The databases hold the same content,                                    *)
LEMMA SameContent ==
  ASSUME NEW a \in Databases, NEW b \in Databases, SameNodes(a, b)
  PROVE  Present(a) = Present(b) /\ Content(a) = Content(b)
<1>1. Present(a) = Present(b)
  BY DEF SameNodes, Present
<1>2. ASSUME NEW id \in Present(a) PROVE SameText(a.nodes[id], b.nodes[id])
  BY DEF SameNodes, Present
<1>3. ASSUME NEW id \in Present(a)
      PROVE  LET m == a.nodes[id] n == b.nodes[id] IN
             <<m.title, m.text, m.tags, m.importance, m.updated, m.verified>> =
             <<n.title, n.text, n.tags, n.importance, n.updated, n.verified>>
  BY <1>2 DEF SameText
<1> QED
  BY <1>1, <1>3 DEF Content

(* and a search finds in two what it finds in the third, and in SQLite no  *)
(* more.                                                                   *)
LEMMA ReadTogether ==
  ASSUME Together(lite, pg, sqlx, orphaned)
  PROVE  NodeReadsAgree
<1>1. /\ lite \in Databases /\ pg \in Databases /\ sqlx \in Databases
      /\ SameNodes(lite, pg) /\ SameNodes(pg, sqlx) /\ Present(lite) = Present(pg) /\ Present(pg) = Present(sqlx)
  BY SameContent DEF Together
<1>2. ASSUME NEW id \in Present(lite)
      PROVE  /\ id \in Ids /\ lite.nodes[id] \in NodeRecords
             /\ SameText(lite.nodes[id], pg.nodes[id]) /\ SameText(pg.nodes[id], sqlx.nodes[id])
             /\ lite.nodes[id].text \in Seq(Range(lite.nodes[id].text))
  <2>1. id \in Ids /\ lite.nodes[id] \in NodeRecords
    BY <1>1, Parts
  <2>2. SameText(lite.nodes[id], pg.nodes[id]) /\ SameText(pg.nodes[id], sqlx.nodes[id])
    BY <1>1, <2>1 DEF SameNodes, Present
  <2>3. PICK n \in Written : lite.nodes[id].text = n.text
    BY <2>1 DEF NodeRecords
  <2>4. n.text \in Seq(Range(n.text))
    BY SessionsAssumption
  <2> QED
    BY <2>1, <2>2, <2>3, <2>4
<1>3. ASSUME NEW hint \in Hints \ {None}
      PROVE  /\ PgSearchNodes(pg, hint) = SqlxSearchNodes(sqlx, hint)
             /\ SearchNodesHybrid(lite, hint) \subseteq PgSearchNodes(pg, hint)
             /\ Len(hint) = 1 /\ (Cjk \/ ~Short(hint)) => SearchNodesHybrid(lite, hint) = PgSearchNodes(pg, hint)
  <2>1. hint \in Seq(Range(hint))
    BY SessionsAssumption
  <2>2. PICK Found : Found = {id \in Present(lite) : hint # <<>> /\ ToSet(hint) \subseteq ToSet(lite.nodes[id].text)}
    OBVIOUS
  <2>3. PgSearchNodes(pg, hint) = Found
    <3>1. ASSUME NEW id \in Present(lite) PROVE pg.nodes[id].text = lite.nodes[id].text
      BY <1>2 DEF SameText
    <3>2. \A id \in Present(lite) :
            (\A term \in ToSet(hint) : term \in ToSet(pg.nodes[id].text)) <=> ToSet(hint) \subseteq ToSet(lite.nodes[id].text)
      BY <3>1
    <3> QED
      BY <1>1, <2>2, <3>2 DEF PgSearchNodes, SearchPatterns
  <2>4. SqlxSearchNodes(sqlx, hint) = Found
    <3>1. ASSUME NEW id \in Present(lite) PROVE sqlx.nodes[id].text = lite.nodes[id].text
      BY <1>2 DEF SameText
    <3> QED
      BY <1>1, <2>2, <3>1 DEF SqlxSearchNodes
  <2>5. \A id \in SearchNodes(lite, hint) : id \in Found
    <3>1. ASSUME NEW id \in SearchNodes(lite, hint) PROVE id \in Found
      <4>1. id \in Present(lite) /\ hint # <<>> /\ HasPhrase(lite.nodes[id], hint)
        BY DEF SearchNodes
      <4>2. PICK text : text = lite.nodes[id].text /\ text \in Seq(Range(text))
        BY <1>2, <4>1
      <4>3. PICK i \in 0..Len(text) - Len(hint) : SubSeq(text, i + 1, i + Len(hint)) = hint
        BY <4>1, <4>2 DEF HasPhrase
      <4>4. ToSet(hint) \subseteq ToSet(text)
        <5>1. PICK t \in Seq(Range(text)), h \in Seq(Range(hint)) : t = text /\ h = hint
          BY <2>1, <4>2
        <5>2. i \in 0..Len(t) - Len(h) /\ SubSeq(t, i + 1, i + Len(h)) = h
          BY <4>3, <5>1
        <5>3. ToSet(h) \subseteq ToSet(t)
          BY <5>2, PhraseWords
        <5> QED
          BY <5>1, <5>3
      <4> QED
        BY <2>2, <4>1, <4>2, <4>4
    <3> QED
      BY <3>1
  <2>6. SearchNodesCjk(lite, hint) = Found
    BY <2>2 DEF SearchNodesCjk
  <2>7. ASSUME Len(hint) = 1, ~Short(hint), NEW id \in Found PROVE id \in SearchNodes(lite, hint)
    <3>1. id \in Present(lite) /\ hint # <<>> /\ ToSet(hint) \subseteq ToSet(lite.nodes[id].text)
      BY <2>2
    <3>2. PICK text : text = lite.nodes[id].text /\ text \in Seq(Range(text))
      BY <1>2, <3>1
    <3>3. \E i \in 0..Len(text) - Len(hint) : SubSeq(text, i + 1, i + Len(hint)) = hint
      BY <2>1, <2>7, <3>1, <3>2, PhraseWords
    <3> QED
      BY <2>7, <3>1, <3>2, <3>3 DEF SearchNodes, HasPhrase
  <2> QED
    BY <2>3, <2>4, <2>5, <2>6, <2>7 DEF SearchNodesHybrid
<1>4. ASSUME NEW tag \in Scopes
      PROVE  QueryNodes(lite, tag) = PgQueryNodes(pg, tag) /\ QueryNodes(lite, tag) = SqlxQueryNodes(sqlx, tag)
  <2>1. ASSUME NEW id \in Present(lite) PROVE lite.nodes[id].tags = pg.nodes[id].tags /\ lite.nodes[id].tags = sqlx.nodes[id].tags
    BY <1>2 DEF SameText
  <2> QED
    BY <1>1, <2>1 DEF QueryNodes, PgQueryNodes, SqlxQueryNodes
<1> QED
  BY <1>3, <1>4 DEF NodeReadsAgree

(* The weights of a set of edges add up,                                   *)
Weighs(g, E) == \E w \in [E -> Nat] : Totals(g, E, w) /\ \A e \in E : w[e] = e.weight

(* and Weight is their sum.                                                *)
LEMMA WeightIs ==
  ASSUME NEW E, IsFiniteSet(E), NEW g, Weighs(g, E), NEW A \in SUBSET E
  PROVE  Weight(A) = g[A]
<1>1. PICK w \in [E -> Nat] : Totals(g, E, w) /\ \A e \in E : w[e] = e.weight
  BY DEF Weighs
<1> DEFINE P(h) == h = [s \in SUBSET A |-> IF s = {} THEN 0
                          ELSE (CHOOSE x \in s : TRUE).weight + h[s \ {CHOOSE x \in s : TRUE}]]
           sum == CHOOSE h : P(h)
           some == [s \in SUBSET A |-> g[s]]
<1>2. g[{}] = 0 /\ \A s \in SUBSET A : \A x \in s : g[s] = x.weight + g[s \ {x}]
  BY <1>1 DEF Totals
<1>3. P(some)
  <2>1. ASSUME NEW s \in SUBSET A, s # {}
        PROVE  some[s] = (CHOOSE x \in s : TRUE).weight + some[s \ {CHOOSE x \in s : TRUE}]
    <3>1. PICK x \in s : x = CHOOSE y \in s : TRUE
      BY <2>1
    <3>2. s \ {x} \in SUBSET A /\ g[s] = x.weight + g[s \ {x}]
      BY <1>2
    <3> QED
      BY <3>1, <3>2
  <2>2. \A s \in SUBSET A : some[s] = IF s = {} THEN 0
                          ELSE (CHOOSE x \in s : TRUE).weight + some[s \ {CHOOSE x \in s : TRUE}]
    BY <1>2, <2>1
  <2>3. some = [s \in SUBSET A |-> some[s]]
    OBVIOUS
  <2> HIDE DEF some
  <2> QED
    BY <2>2, <2>3
<1>4. P(sum)
  <2> HIDE DEF P, some
  <2> QED
    BY <1>3
<1>5. Weight(A) = sum[A]
  BY DEF Weight, MapThenSumSet, MapThenFoldSet
<1>6. sum[{}] = 0 /\ \A s \in SUBSET A : s # {} =>
        sum[s] = (CHOOSE x \in s : TRUE).weight + sum[s \ {CHOOSE x \in s : TRUE}]
  <2>1. ASSUME NEW h, P(h)
        PROVE  h[{}] = 0 /\ \A s \in SUBSET A : s # {} =>
                 h[s] = (CHOOSE x \in s : TRUE).weight + h[s \ {CHOOSE x \in s : TRUE}]
    BY <2>1
  <2> HIDE DEF P, sum
  <2> QED
    BY <1>4, <2>1
<1> HIDE DEF sum
<1>7. Agrees(sum, g, A, AnyOf(A))
  <2>1. ASSUME NEW s \in SUBSET A, s # {}, sum[s \ {AnyOf(A)[s]}] = g[s \ {AnyOf(A)[s]}] PROVE sum[s] = g[s]
    <3>1. PICK x \in s : x = CHOOSE y \in s : TRUE
      BY <2>1
    <3>2. AnyOf(A)[s] = x
      BY <3>1 DEF AnyOf
    <3>3. sum[s] = x.weight + sum[s \ {x}]
      BY <1>6, <2>1, <3>1
    <3>4. g[s] = x.weight + g[s \ {x}]
      BY <1>2
    <3> QED
      BY <2>1, <3>2, <3>3, <3>4
  <2> QED
    BY <1>2, <1>6, <2>1 DEF Agrees
<1>8. \A s \in SUBSET A : sum[s] = g[s]
  <2>1. IsFiniteSet(A)
    BY FS_Subset
  <2> QED
    BY <1>7, <2>1, AnyOfChooses, SubsetAgreement
<1> QED
  BY <1>5, <1>8

(* and so do those of the second parts of pairs that differ in them.       *)
LEMMA PairSum ==
  ASSUME NEW E, NEW g, Weighs(g, E), NEW R, IsFiniteSet(R), \A r \in R : r[2] \in E,
         \A q \in R : \A r \in R : q[2] = r[2] => q = r
  PROVE  MapThenSumSet(LAMBDA r : r[2].weight, R) = g[{r[2] : r \in R}]
<1>1. PICK w \in [E -> Nat] : Totals(g, E, w) /\ \A e \in E : w[e] = e.weight
  BY DEF Weighs
<1> DEFINE P(h) == h = [s \in SUBSET R |-> IF s = {} THEN 0
                          ELSE (CHOOSE x \in s : TRUE)[2].weight + h[s \ {CHOOSE x \in s : TRUE}]]
           sum == CHOOSE h : P(h)
           some == [s \in SUBSET R |-> g[{r[2] : r \in s}]]
<1>2. some[{}] = 0 /\ \A s \in SUBSET R : \A x \in s : some[s] = x[2].weight + some[s \ {x}]
  <2>1. some[{}] = 0
    <3>1. {r[2] : r \in {}} = {}
      OBVIOUS
    <3> QED
      BY <1>1, <3>1 DEF Totals
  <2>2. ASSUME NEW s \in SUBSET R, NEW x \in s PROVE some[s] = x[2].weight + some[s \ {x}]
    <3>1. PICK T \in SUBSET E : T = {r[2] : r \in s}
      OBVIOUS
    <3>2. x[2] \in T /\ {r[2] : r \in s \ {x}} = T \ {x[2]}
      BY <3>1
    <3>3. g[T] = x[2].weight + g[T \ {x[2]}]
      <4>1. PICK e \in T : e = x[2] /\ e \in E
        BY <3>2
      <4>2. g[T] = w[e] + g[T \ {e}] /\ w[e] = e.weight
        BY <1>1, <4>1 DEF Totals
      <4> QED
        BY <4>1, <4>2
    <3>4. s \ {x} \in SUBSET R
      OBVIOUS
    <3> QED
      BY <3>1, <3>2, <3>3, <3>4
  <2> QED
    BY <2>1, <2>2
<1>3. some = [s \in SUBSET R |-> some[s]] /\ some[R] = g[{r[2] : r \in R}]
  OBVIOUS
<1> HIDE DEF some
<1>4. P(some)
  <2>1. ASSUME NEW s \in SUBSET R, s # {}
        PROVE  some[s] = (CHOOSE x \in s : TRUE)[2].weight + some[s \ {CHOOSE x \in s : TRUE}]
    <3>1. PICK x \in s : x = CHOOSE y \in s : TRUE
      BY <2>1
    <3> QED
      BY <1>2, <3>1
  <2> QED
    BY <1>2, <1>3, <2>1
<1>5. P(sum)
  <2> HIDE DEF P
  <2> QED
    BY <1>4
<1>6. MapThenSumSet(LAMBDA r : r[2].weight, R) = sum[R]
  BY DEF MapThenSumSet, MapThenFoldSet
<1>7. sum[{}] = 0 /\ \A s \in SUBSET R : s # {} =>
        sum[s] = (CHOOSE x \in s : TRUE)[2].weight + sum[s \ {CHOOSE x \in s : TRUE}]
  <2>1. ASSUME NEW h, P(h)
        PROVE  h[{}] = 0 /\ \A s \in SUBSET R : s # {} =>
                 h[s] = (CHOOSE x \in s : TRUE)[2].weight + h[s \ {CHOOSE x \in s : TRUE}]
    BY <2>1
  <2> HIDE DEF P, sum
  <2> QED
    BY <1>5, <2>1
<1> HIDE DEF sum
<1>8. Agrees(sum, some, R, AnyOf(R))
  <2>1. ASSUME NEW s \in SUBSET R, s # {}, sum[s \ {AnyOf(R)[s]}] = some[s \ {AnyOf(R)[s]}] PROVE sum[s] = some[s]
    <3>1. PICK x \in s : x = CHOOSE y \in s : TRUE
      BY <2>1
    <3>2. AnyOf(R)[s] = x
      BY <3>1 DEF AnyOf
    <3>3. sum[s] = x[2].weight + sum[s \ {x}]
      BY <1>7, <2>1, <3>1
    <3>4. some[s] = x[2].weight + some[s \ {x}]
      BY <1>2
    <3> QED
      BY <2>1, <3>2, <3>3, <3>4
  <2> QED
    BY <1>2, <1>7, <2>1 DEF Agrees
<1>9. \A s \in SUBSET R : sum[s] = some[s]
  BY <1>8, AnyOfChooses, SubsetAgreement
<1> QED
  BY <1>3, <1>6, <1>9

(* Edges have weights.                                                     *)
LEMMA EdgesWeigh ==
  ASSUME NEW E \in SUBSET Edges, IsFiniteSet(E)
  PROVE  \E g : Weighs(g, E)
<1> DEFINE w == [e \in E |-> e.weight]
<1>1. w \in [E -> Nat] /\ \A e \in E : w[e] = e.weight
  BY SessionsAssumption
<1>2. PICK g : Totals(g, E, w)
  <2> HIDE DEF w
  <2> QED
    BY <1>1, TotalsExist
<1> HIDE DEF w
<1> QED
  BY <1>1, <1>2 DEF Weighs

(* The edges from the chosen nodes to another, and from it to them;        *)
AlongTo(E, chosen, dir, relation, nb) ==
  {e \in E : (relation = None \/ e.relation = relation) /\ dir # "in" /\ e.source \in chosen /\ e.target = nb}

AgainstTo(E, chosen, dir, relation, nb) ==
  {e \in E : (relation = None \/ e.relation = relation) /\ dir # "out" /\ e.target \in chosen /\ e.source = nb}

(* with their weights, that is what neighbors_weighted is of any backend.  *)
NeighborsOf(E, chosen, dir, relation) ==
  [nb \in {id \in Ids \ chosen : AlongTo(E, chosen, dir, relation, id) \cup AgainstTo(E, chosen, dir, relation, id) # {}} |->
     Weight(AlongTo(E, chosen, dir, relation, nb)) + Weight(AgainstTo(E, chosen, dir, relation, nb))]

(* The seeds that are read.                                                *)
Read(seeds) == SubSeq(seeds, 1, IF Len(seeds) < MaxSeeds THEN Len(seeds) ELSE MaxSeeds)

(* Of one or two, all are.                                                 *)
LEMMA SeedsRead ==
  ASSUME NEW a, NEW b
  PROVE  /\ ToSet(Read(<<a>>)) = {a} /\ ToSet(Read(<<a, b>>)) = {a, b}
         /\ DOMAIN <<a>> = {1} /\ DOMAIN <<a, b>> = {1, 2} /\ ToSet(<<a>>) = {a} /\ ToSet(<<a, b>>) = {a, b}
<1>1. PICK most \in Nat \ {0, 1} : most = MaxSeeds
  BY SessionsAssumption
<1>2. DOMAIN <<a>> = {1} /\ DOMAIN <<a, b>> = {1, 2} /\ Len(<<a>>) = 1 /\ Len(<<a, b>>) = 2
      /\ <<a>>[1] = a /\ <<a, b>>[1] = a /\ <<a, b>>[2] = b
  OBVIOUS
<1>3. ToSet(<<a>>) = {a} /\ ToSet(<<a, b>>) = {a, b}
  BY <1>2 DEF ToSet
<1>4. SubSeq(<<a>>, 1, 1) = <<a>> /\ SubSeq(<<a, b>>, 1, 2) = <<a, b>>
  <2>1. ASSUME NEW s \in Seq({a, b}), NEW n \in Nat, n = Len(s) PROVE SubSeq(s, 1, n) = s
    BY <2>1
  <2>2. PICK one \in Seq({a, b}) : one = <<a>> /\ Len(one) = 1
    <3>1. <<a>> \in Seq({a, b}) /\ Len(<<a>>) = 1
      OBVIOUS
    <3> QED
      BY <3>1
  <2>3. PICK two \in Seq({a, b}) : two = <<a, b>> /\ Len(two) = 2
    <3>1. <<a, b>> \in Seq({a, b}) /\ Len(<<a, b>>) = 2
      OBVIOUS
    <3> QED
      BY <3>1
  <2>4. SubSeq(one, 1, 1) = one /\ SubSeq(two, 1, 2) = two
    BY <2>1, <2>2, <2>3
  <2> QED
    BY <2>2, <2>3, <2>4
<1>5. (IF 1 < most THEN 1 ELSE most) = 1 /\ (IF 2 < most THEN 2 ELSE most) = 2
  BY <1>1
<1> QED
  BY <1>1, <1>2, <1>3, <1>4, <1>5 DEF Read

(* SQLite's two halves of the query,                                       *)
LEMMA LiteNeighbors ==
  ASSUME NEW db \in Databases, NEW seeds, NEW chosen, chosen = ToSet(Read(seeds)), NEW dir, NEW relation
  PROVE  NeighborsWeighted(db, seeds, dir, relation) = NeighborsOf(db.edges, chosen, dir, relation)
<1> DEFINE typed == {e \in db.edges : relation = None \/ e.relation = relation}
           out == {e \in typed : dir # "in" /\ e.source \in chosen}
           in == {e \in typed : dir # "out" /\ e.target \in chosen}
           far == ({e.target : e \in out} \cup {e.source : e \in in}) \ chosen
           A(nb) == AlongTo(db.edges, chosen, dir, relation, nb)
           B(nb) == AgainstTo(db.edges, chosen, dir, relation, nb)
<1>1. NeighborsWeighted(db, seeds, dir, relation) =
        [nb \in far |-> Weight({e \in out : e.target = nb}) + Weight({e \in in : e.source = nb})]
  BY DEF NeighborsWeighted, Read
<1>2. ASSUME NEW nb PROVE {e \in out : e.target = nb} = A(nb) /\ {e \in in : e.source = nb} = B(nb)
  BY DEF AlongTo, AgainstTo
<1>3. \A e \in db.edges : e.source \in Ids /\ e.target \in Ids
  BY Parts, SessionsAssumption
<1>4. far = {id \in Ids \ chosen : A(id) \cup B(id) # {}}
  <2>1. ASSUME NEW nb \in far PROVE nb \in Ids \ chosen /\ A(nb) \cup B(nb) # {}
    BY <1>3 DEF AlongTo, AgainstTo
  <2>2. ASSUME NEW nb \in Ids \ chosen, A(nb) \cup B(nb) # {} PROVE nb \in far
    <3>1. {e \in out : e.target = nb} # {} \/ {e \in in : e.source = nb} # {}
      BY <1>2, <2>2
    <3> QED
      BY <3>1
  <2> HIDE DEF far, A, B
  <2> QED
    BY <2>1, <2>2
<1> HIDE DEF far, out, in, A, B
<1>5. [nb \in far |-> Weight({e \in out : e.target = nb}) + Weight({e \in in : e.source = nb})]
      = [nb \in {id \in Ids \ chosen : A(id) \cup B(id) # {}} |-> Weight(A(nb)) + Weight(B(nb))]
  BY <1>2, <1>4
<1> QED
  BY <1>1, <1>5 DEF NeighborsOf, A, B

(* SqlxPgGraph's,                                                          *)
LEMMA SqlxNeighbors ==
  ASSUME NEW db \in Databases, NEW seeds, NEW chosen, chosen = ToSet(Read(seeds)), NEW dir, NEW relation
  PROVE  SqlxNeighborsWeighted(db, seeds, dir, relation) = NeighborsOf(db.edges, chosen, dir, relation)
<1> DEFINE typed == {e \in db.edges : relation \in {None, e.relation}}
           Along(nb) == {e \in typed : dir # "in" /\ e.source \in chosen /\ e.target = nb}
           Against(nb) == {e \in typed : dir # "out" /\ e.target \in chosen /\ e.source = nb}
<1>1. SqlxNeighborsWeighted(db, seeds, dir, relation) =
        [nb \in {id \in Ids \ chosen : Along(id) \cup Against(id) # {}} |-> Weight(Along(nb)) + Weight(Against(nb))]
  BY DEF SqlxNeighborsWeighted, Read
<1>2. ASSUME NEW nb
      PROVE  /\ Along(nb) = AlongTo(db.edges, chosen, dir, relation, nb)
             /\ Against(nb) = AgainstTo(db.edges, chosen, dir, relation, nb)
  BY DEF AlongTo, AgainstTo
<1> HIDE DEF Along, Against
<1> QED
  BY <1>1, <1>2 DEF NeighborsOf

(* PgGraph's rows, added up by the program,                                *)
LEMMA PgNeighbors ==
  ASSUME NEW db \in Databases, NEW seeds, NEW chosen, chosen = ToSet(Read(seeds)), NEW dir \in Directions, NEW relation
  PROVE  PgNeighborsWeighted(db, seeds, dir, relation) = NeighborsOf(db.edges, chosen, dir, relation)
<1> DEFINE halves == CASE dir = "out" -> {"source"} [] dir = "in" -> {"target"} [] OTHER -> {"source", "target"}
           Far(half, e) == IF half = "source" THEN e.target ELSE e.source
           rows == {r \in halves \X db.edges : r[2][r[1]] \in chosen /\ (relation # None => r[2].relation = relation)}
           A(nb) == AlongTo(db.edges, chosen, dir, relation, nb)
           B(nb) == AgainstTo(db.edges, chosen, dir, relation, nb)
           at(nb) == {r \in rows : Far(r[1], r[2]) = nb}
           reached == {Far(r[1], r[2]) : r \in rows} \ chosen
<1>1. PgNeighborsWeighted(db, seeds, dir, relation) =
        [nb \in reached |-> MapThenSumSet(LAMBDA r : r[2].weight, at(nb))]
  BY DEF PgNeighborsWeighted, Read
<1>2. db.edges \in SUBSET Edges /\ IsFiniteSet(db.edges) /\ \A e \in db.edges : e.source \in Ids /\ e.target \in Ids
  BY Parts, SessionsAssumption
<1>3. halves \subseteq {"source", "target"} /\ ("source" \in halves <=> dir # "in") /\ ("target" \in halves <=> dir # "out")
  BY DEF Directions
<1>4. IsFiniteSet(rows)
  <2>1. IsFiniteSet(halves)
    <3>1. IsFiniteSet({"source", "target"})
      <4>1. IsFiniteSet({} \cup {"source"})
        BY FS_EmptySet, FS_AddElement
      <4>2. IsFiniteSet(({} \cup {"source"}) \cup {"target"})
        BY <4>1, FS_AddElement
      <4>3. ({} \cup {"source"}) \cup {"target"} = {"source", "target"}
        OBVIOUS
      <4> QED
        BY <4>2, <4>3
    <3> HIDE DEF halves
    <3> QED
      BY <1>3, <3>1, FS_Subset
  <2> HIDE DEF halves
  <2>2. IsFiniteSet(halves \X db.edges)
    BY <1>2, <2>1, FS_Product
  <2> QED
    BY <2>2, FS_Subset
<1> HIDE DEF halves
<1>5. ASSUME NEW r \in rows
      PROVE  /\ r[2] \in db.edges /\ (relation = None \/ r[2].relation = relation) /\ r = <<r[1], r[2]>>
             /\ \/ r[1] = "source" /\ dir # "in" /\ r[2].source \in chosen
                \/ r[1] = "target" /\ dir # "out" /\ r[2].target \in chosen
  <2>1. r \in halves \X db.edges /\ r[2][r[1]] \in chosen /\ (relation # None => r[2].relation = relation)
    OBVIOUS
  <2>2. PICK h \in halves, e \in db.edges : r = <<h, e>>
    BY <2>1
  <2>3. r[1] = h /\ r[2] = e
    BY <2>2
  <2>4. e[h] \in chosen /\ (relation # None => e.relation = relation)
    BY <2>1, <2>3
  <2>5. h = "source" \/ h = "target"
    BY <1>3
  <2>6. h = "source" => dir # "in" /\ e.source \in chosen
    BY <1>3, <2>4
  <2>7. h = "target" => dir # "out" /\ e.target \in chosen
    BY <1>3, <2>4
  <2> QED
    BY <2>2, <2>3, <2>4, <2>5, <2>6, <2>7
<1>6. ASSUME NEW nb, nb \notin chosen PROVE {r[2] : r \in at(nb)} = A(nb) \cup B(nb)
  <2>1. ASSUME NEW r \in at(nb) PROVE r[2] \in A(nb) \cup B(nb)
    <3>1. r \in rows /\ Far(r[1], r[2]) = nb
      OBVIOUS
    <3> HIDE DEF rows
    <3> QED
      BY <1>5, <3>1 DEF AlongTo, AgainstTo
  <2>2. ASSUME NEW e \in A(nb) PROVE \E r \in at(nb) : r[2] = e
    <3>1. e \in db.edges /\ (relation = None \/ e.relation = relation) /\ dir # "in" /\ e.source \in chosen /\ e.target = nb
      BY DEF AlongTo
    <3>2. <<"source", e>> \in rows /\ Far("source", e) = nb
      BY <1>3, <3>1
    <3>3. <<"source", e>> \in at(nb)
      BY <3>2
    <3> QED
      BY <3>3
  <2>3. ASSUME NEW e \in B(nb) PROVE \E r \in at(nb) : r[2] = e
    <3>1. e \in db.edges /\ (relation = None \/ e.relation = relation) /\ dir # "out" /\ e.target \in chosen /\ e.source = nb
      BY DEF AgainstTo
    <3>2. <<"target", e>> \in rows /\ Far("target", e) = nb
      BY <1>3, <3>1
    <3>3. <<"target", e>> \in at(nb)
      BY <3>2
    <3> QED
      BY <3>3
  <2> HIDE DEF at, A, B
  <2> QED
    BY <2>1, <2>2, <2>3
<1>7. ASSUME NEW nb, nb \notin chosen, NEW q \in at(nb), NEW r \in at(nb), q[2] = r[2] PROVE q = r
  <2>1. q \in rows /\ r \in rows /\ Far(q[1], q[2]) = nb /\ Far(r[1], r[2]) = nb
    OBVIOUS
  <2> HIDE DEF rows
  <2>2. q[1] = r[1]
    BY <1>5, <1>7, <2>1
  <2> QED
    BY <1>5, <1>7, <2>1, <2>2
<1>8. PICK g : Weighs(g, db.edges)
  BY <1>2, EdgesWeigh
<1>9. ASSUME NEW nb, nb \notin chosen
      PROVE  MapThenSumSet(LAMBDA r : r[2].weight, at(nb)) = Weight(A(nb)) + Weight(B(nb))
  <2>1. IsFiniteSet(at(nb)) /\ \A r \in at(nb) : r[2] \in db.edges
    <3> HIDE DEF rows
    <3> QED
      BY <1>4, <1>5, FS_Subset
  <2>2. PICK R : R = at(nb)
    OBVIOUS
  <2>3. \A q \in R : \A r \in R : q[2] = r[2] => q = r
    <3> HIDE DEF at
    <3> QED
      BY <1>7, <1>9, <2>2
  <2> HIDE DEF at
  <2>4. MapThenSumSet(LAMBDA r : r[2].weight, R) = g[{r[2] : r \in R}]
    BY <1>8, <2>1, <2>2, <2>3, PairSum
  <2>5. A(nb) \in SUBSET db.edges /\ B(nb) \in SUBSET db.edges /\ A(nb) \cap B(nb) = {}
    BY <1>9 DEF AlongTo, AgainstTo
  <2>6. Weight(A(nb)) = g[A(nb)] /\ Weight(B(nb)) = g[B(nb)]
    BY <1>2, <1>8, <2>5, WeightIs
  <2> HIDE DEF A, B
  <2>7. g[A(nb) \cup B(nb)] = g[A(nb)] + g[B(nb)]
    <3>1. PICK E : E = db.edges /\ IsFiniteSet(E)
      BY <1>2
    <3>2. PICK w \in [E -> Nat] : Totals(g, E, w)
      BY <1>8, <3>1 DEF Weighs
    <3>3. PICK x \in SUBSET E, y \in SUBSET E : x = A(nb) /\ y = B(nb) /\ x \cap y = {}
      BY <2>5, <3>1
    <3>4. g[x \cup y] = g[x] + g[y]
      BY <3>1, <3>2, <3>3, TotalsAdd
    <3> QED
      BY <3>3, <3>4
  <2> QED
    BY <1>6, <1>9, <2>2, <2>4, <2>6, <2>7
<1>10. reached = {id \in Ids \ chosen : A(id) \cup B(id) # {}}
  <2>1. ASSUME NEW nb \in reached PROVE nb \in Ids \ chosen /\ A(nb) \cup B(nb) # {}
    <3>1. nb \notin chosen /\ \E r \in rows : Far(r[1], r[2]) = nb
      OBVIOUS
    <3>2. PICK r \in at(nb) : r[2] \in db.edges /\ nb \in {r[2].source, r[2].target}
      BY <1>5, <3>1
    <3>3. r[2] \in A(nb) \cup B(nb)
      <4> HIDE DEF at, A, B
      <4> QED
        BY <1>6, <3>1
    <3> HIDE DEF at, A, B
    <3> QED
      BY <1>2, <3>1, <3>2, <3>3
  <2>2. ASSUME NEW nb \in Ids \ chosen, A(nb) \cup B(nb) # {} PROVE nb \in reached
    <3>1. at(nb) # {}
      <4> HIDE DEF at, A, B
      <4> QED
        BY <1>6, <2>2
    <3> QED
      BY <3>1
  <2> HIDE DEF reached, A, B
  <2> QED
    BY <2>1, <2>2
<1> HIDE DEF reached, at, A, B
<1>11. [nb \in reached |-> MapThenSumSet(LAMBDA r : r[2].weight, at(nb))]
       = [nb \in {id \in Ids \ chosen : A(id) \cup B(id) # {}} |-> Weight(A(nb)) + Weight(B(nb))]
  <2>1. \A nb \in reached : MapThenSumSet(LAMBDA r : r[2].weight, at(nb)) = Weight(A(nb)) + Weight(B(nb))
    BY <1>9, <1>10
  <2> QED
    BY <1>10, <2>1
<1> QED
  BY <1>1, <1>11 DEF NeighborsOf, A, B

(* and the default of the trait, which walks from seed to seed.            *)
LEMMA DefaultNeighbors ==
  ASSUME NEW db \in Databases, NEW seeds, NEW chosen, chosen = ToSet(seeds), IsFiniteSet(DOMAIN seeds),
         \A i \in DOMAIN seeds : \A j \in DOMAIN seeds : seeds[i] = seeds[j] => i = j,
         NEW dir \in Directions, NEW relation
  PROVE  DefaultNeighborsWeighted(db, seeds, dir, relation) = NeighborsOf(db.edges, chosen, dir, relation)
<1> DEFINE Other(e, seed) == IF e.source = seed THEN e.target ELSE e.source
           walks == UNION {{<<i, e>> : e \in DefaultEdgesForNodeDir(db, seeds[i], dir, relation)} : i \in DOMAIN seeds}
           A(nb) == AlongTo(db.edges, chosen, dir, relation, nb)
           B(nb) == AgainstTo(db.edges, chosen, dir, relation, nb)
           at(nb) == {w \in walks : Other(w[2], seeds[w[1]]) = nb}
           reached == {Other(w[2], seeds[w[1]]) : w \in walks} \ chosen
<1>1. DefaultNeighborsWeighted(db, seeds, dir, relation) =
        [nb \in reached |-> MapThenSumSet(LAMBDA w : w[2].weight, at(nb))]
  BY DEF DefaultNeighborsWeighted
<1>2. db.edges \in SUBSET Edges /\ IsFiniteSet(db.edges) /\ \A e \in db.edges : e.source \in Ids /\ e.target \in Ids
  BY Parts, SessionsAssumption
<1>3. chosen = {seeds[i] : i \in DOMAIN seeds}
  BY DEF ToSet
<1>4. ASSUME NEW i \in DOMAIN seeds, NEW e
      PROVE  <<i, e>> \in walks <=>
               /\ e \in db.edges /\ (relation = None \/ e.relation = relation)
               /\ (dir # "in" /\ e.source = seeds[i]) \/ (dir # "out" /\ e.target = seeds[i])
  <2>1. <<i, e>> \in walks <=> e \in DefaultEdgesForNodeDir(db, seeds[i], dir, relation)
    OBVIOUS
  <2> HIDE DEF walks
  <2> QED
    BY <2>1 DEF DefaultEdgesForNodeDir, EdgesForNode, Touches, Directions
<1>5. ASSUME NEW w \in walks PROVE \E i \in DOMAIN seeds, e \in db.edges : w = <<i, e>>
  BY DEF DefaultEdgesForNodeDir, EdgesForNode
<1>6. IsFiniteSet(walks)
  <2>1. walks \subseteq (DOMAIN seeds) \X db.edges
    <3> HIDE DEF walks
    <3> QED
      BY <1>5
  <2>2. IsFiniteSet((DOMAIN seeds) \X db.edges)
    BY <1>2, FS_Product
  <2> QED
    BY <2>1, <2>2, FS_Subset
<1> HIDE DEF walks
<1>7. ASSUME NEW nb, nb \notin chosen PROVE {w[2] : w \in at(nb)} = A(nb) \cup B(nb)
  <2>1. ASSUME NEW w \in at(nb) PROVE w[2] \in A(nb) \cup B(nb)
    <3>1. PICK i \in DOMAIN seeds, e \in db.edges : w = <<i, e>> /\ <<i, e>> \in walks
      BY <1>5
    <3>2. w[1] = i /\ w[2] = e /\ Other(e, seeds[i]) = nb /\ seeds[i] \in chosen
      BY <1>3, <3>1
    <3> QED
      BY <1>4, <1>7, <3>1, <3>2 DEF AlongTo, AgainstTo
  <2>2. ASSUME NEW e \in A(nb) PROVE \E w \in at(nb) : w[2] = e
    <3>1. e \in db.edges /\ (relation = None \/ e.relation = relation) /\ dir # "in" /\ e.source \in chosen /\ e.target = nb
      BY DEF AlongTo
    <3>2. PICK i \in DOMAIN seeds : e.source = seeds[i]
      BY <1>3, <3>1
    <3>3. <<i, e>> \in walks /\ Other(e, seeds[i]) = nb
      BY <1>4, <3>1, <3>2
    <3>4. <<i, e>> \in at(nb)
      BY <3>3
    <3> QED
      BY <3>4
  <2>3. ASSUME NEW e \in B(nb) PROVE \E w \in at(nb) : w[2] = e
    <3>1. e \in db.edges /\ (relation = None \/ e.relation = relation) /\ dir # "out" /\ e.target \in chosen /\ e.source = nb
      BY DEF AgainstTo
    <3>2. PICK i \in DOMAIN seeds : e.target = seeds[i]
      BY <1>3, <3>1
    <3>3. <<i, e>> \in walks /\ Other(e, seeds[i]) = nb
      BY <1>4, <1>7, <3>1, <3>2
    <3>4. <<i, e>> \in at(nb)
      BY <3>3
    <3> QED
      BY <3>4
  <2> HIDE DEF at, A, B
  <2> QED
    BY <2>1, <2>2, <2>3
<1>8. ASSUME NEW nb, nb \notin chosen, NEW v \in at(nb), NEW w \in at(nb), v[2] = w[2] PROVE v = w
  <2>1. PICK i \in DOMAIN seeds, e \in db.edges : v = <<i, e>> /\ <<i, e>> \in walks
    BY <1>5
  <2>2. PICK j \in DOMAIN seeds, f \in db.edges : w = <<j, f>> /\ <<j, f>> \in walks
    BY <1>5
  <2>3. e = f
    BY <1>8, <2>1, <2>2
  <2>4. Other(e, seeds[i]) = nb /\ Other(e, seeds[j]) = nb
    BY <2>1, <2>2, <2>3
  <2>5. seeds[i] \in chosen /\ seeds[j] \in chosen
    BY <1>3
  <2>6. seeds[i] = seeds[j]
    BY <1>4, <1>8, <2>1, <2>2, <2>3, <2>4, <2>5
  <2> QED
    BY <2>1, <2>2, <2>3, <2>6
<1>9. PICK g : Weighs(g, db.edges)
  BY <1>2, EdgesWeigh
<1>10. ASSUME NEW nb, nb \notin chosen
       PROVE  MapThenSumSet(LAMBDA w : w[2].weight, at(nb)) = Weight(A(nb)) + Weight(B(nb))
  <2>1. IsFiniteSet(at(nb)) /\ \A w \in at(nb) : w[2] \in db.edges
    <3>1. \A w \in walks : w[2] \in db.edges
      BY <1>5
    <3> QED
      BY <1>6, <3>1, FS_Subset
  <2>2. PICK R : R = at(nb)
    OBVIOUS
  <2>3. \A q \in R : \A r \in R : q[2] = r[2] => q = r
    <3> HIDE DEF at
    <3> QED
      BY <1>8, <1>10, <2>2
  <2> HIDE DEF at
  <2>4. MapThenSumSet(LAMBDA w : w[2].weight, R) = g[{r[2] : r \in R}]
    BY <1>9, <2>1, <2>2, <2>3, PairSum
  <2>5. A(nb) \in SUBSET db.edges /\ B(nb) \in SUBSET db.edges /\ A(nb) \cap B(nb) = {}
    BY <1>10 DEF AlongTo, AgainstTo
  <2>6. Weight(A(nb)) = g[A(nb)] /\ Weight(B(nb)) = g[B(nb)]
    BY <1>2, <1>9, <2>5, WeightIs
  <2> HIDE DEF A, B
  <2>7. g[A(nb) \cup B(nb)] = g[A(nb)] + g[B(nb)]
    <3>1. PICK E : E = db.edges /\ IsFiniteSet(E)
      BY <1>2
    <3>2. PICK w \in [E -> Nat] : Totals(g, E, w)
      BY <1>9, <3>1 DEF Weighs
    <3>3. PICK x \in SUBSET E, y \in SUBSET E : x = A(nb) /\ y = B(nb) /\ x \cap y = {}
      BY <2>5, <3>1
    <3>4. g[x \cup y] = g[x] + g[y]
      BY <3>1, <3>2, <3>3, TotalsAdd
    <3> QED
      BY <3>3, <3>4
  <2> QED
    BY <1>7, <1>10, <2>2, <2>4, <2>6, <2>7
<1>11. reached = {id \in Ids \ chosen : A(id) \cup B(id) # {}}
  <2>1. ASSUME NEW nb \in reached PROVE nb \in Ids \ chosen /\ A(nb) \cup B(nb) # {}
    <3>1. nb \notin chosen /\ \E w \in walks : Other(w[2], seeds[w[1]]) = nb
      OBVIOUS
    <3>2. PICK w \in at(nb) : w[2] \in db.edges /\ nb \in {w[2].source, w[2].target}
      BY <1>5, <3>1
    <3>3. w[2] \in A(nb) \cup B(nb)
      <4> HIDE DEF at, A, B
      <4> QED
        BY <1>7, <3>1
    <3> HIDE DEF at, A, B
    <3> QED
      BY <1>2, <3>1, <3>2, <3>3
  <2>2. ASSUME NEW nb \in Ids \ chosen, A(nb) \cup B(nb) # {} PROVE nb \in reached
    <3>1. at(nb) # {}
      <4> HIDE DEF at, A, B
      <4> QED
        BY <1>7, <2>2
    <3> QED
      BY <3>1
  <2> HIDE DEF reached, A, B
  <2> QED
    BY <2>1, <2>2
<1> HIDE DEF reached, at, A, B
<1>12. [nb \in reached |-> MapThenSumSet(LAMBDA w : w[2].weight, at(nb))]
       = [nb \in {id \in Ids \ chosen : A(id) \cup B(id) # {}} |-> Weight(A(nb)) + Weight(B(nb))]
  <2>1. \A nb \in reached : MapThenSumSet(LAMBDA w : w[2].weight, at(nb)) = Weight(A(nb)) + Weight(B(nb))
    BY <1>10, <1>11
  <2> QED
    BY <1>11, <2>1
<1> QED
  BY <1>1, <1>12 DEF NeighborsOf, A, B

(* What one or two steps reach.                                            *)
Reach(db, start, depth) ==
  (Ends(db, {start}) \cup (IF depth = 2 THEN Ends(db, Ends(db, {start})) ELSE {})) \ {start}

(* The recursive queries of SQLite,                                        *)
LEMMA LiteRelated ==
  ASSUME NEW db, NEW start, NEW depth \in 0..2
  PROVE  RelatedNodes(db, start, depth) \ {start} = Reach(db, start, depth)
<1>1. PICK n \in 1..2 : n = Later(depth, 1) /\ (n = 2 <=> depth = 2)
  <2>1. Later(depth, 1) \in 1..2 /\ (Later(depth, 1) = 2 <=> depth = 2)
    BY DEF Later
  <2> QED
    BY <2>1
<1>2. PICK one, two : one = Ends(db, {start}) /\ two = Ends(db, one) \ {start}
  OBVIOUS
<1> DEFINE P(h) == h = [k \in 1..n |-> IF k = 1 THEN Ends(db, {start}) ELSE Ends(db, h[k - 1]) \ {start}]
           level == CHOOSE h : P(h)
           some == [k \in 1..n |-> IF k = 1 THEN one ELSE two]
<1>3. P(some)
  <2>1. some[1] = one
    OBVIOUS
  <2>2. \A k \in 1..n : some[k] = IF k = 1 THEN Ends(db, {start}) ELSE Ends(db, some[k - 1]) \ {start}
    <3>1. ASSUME NEW k \in 1..n, k # 1 PROVE k - 1 = 1
      BY <3>1
    <3> QED
      BY <1>2, <2>1, <3>1
  <2>3. some = [k \in 1..n |-> some[k]]
    OBVIOUS
  <2> HIDE DEF some
  <2> QED
    BY <2>2, <2>3
<1>4. P(level)
  <2> HIDE DEF P, some
  <2> QED
    BY <1>3
<1>5. RelatedNodes(db, start, depth) = UNION {level[k] : k \in DOMAIN level}
  BY <1>1 DEF RelatedNodes
<1>6. DOMAIN level = 1..n /\ level[1] = one /\ (n = 2 => level[2] = two)
  <2>1. ASSUME NEW h, P(h) PROVE DOMAIN h = 1..n /\ h[1] = one /\ (n = 2 => h[2] = two)
    <3>1. DOMAIN h = 1..n /\ h[1] = one
      BY <1>2, <2>1
    <3>2. n = 2 => h[2] = Ends(db, h[1]) \ {start}
      BY <2>1
    <3> QED
      BY <1>2, <3>1, <3>2
  <2> HIDE DEF P, level
  <2> QED
    BY <1>4, <2>1
<1> HIDE DEF level
<1>7. UNION {level[k] : k \in DOMAIN level} = one \cup (IF depth = 2 THEN two ELSE {})
  <2>1. CASE n = 1
    BY <1>1, <1>6, <2>1
  <2>2. CASE n = 2
    <3>1. DOMAIN level = {1, 2}
      BY <1>6, <2>2
    <3> QED
      BY <1>1, <1>6, <2>2, <3>1
  <2> QED
    BY <2>1, <2>2
<1> QED
  BY <1>2, <1>5, <1>7 DEF Reach

(* of SqlxPgGraph and of PgGraph,                                          *)
LEMMA SqlxRelated ==
  ASSUME NEW db, NEW start, NEW depth \in 0..2
  PROVE  /\ SqlxRelatedNodes(db, start, depth) = Reach(db, start, depth)
         /\ PgRelatedNodes(db, start, depth) = Reach(db, start, depth)
<1>1. PICK n \in 1..2 : n = Later(depth, 1) /\ (n = 2 <=> depth = 2)
  <2>1. Later(depth, 1) \in 1..2 /\ (Later(depth, 1) = 2 <=> depth = 2)
    BY DEF Later
  <2> QED
    BY <2>1
<1>2. PICK one, two : one = Ends(db, {start}) /\ two = Ends(db, one)
  OBVIOUS
<1> DEFINE P(h) == h = [k \in 1..n |-> Ends(db, IF k = 1 THEN {start} ELSE h[k - 1])]
           bfs == CHOOSE h : P(h)
           some == [k \in 1..n |-> IF k = 1 THEN one ELSE two]
           Step(ids) == {IF e.source \in ids THEN e.target ELSE e.source : e \in {f \in db.edges : f.source \in ids}}
                        \cup {e.source : e \in {f \in db.edges : f.target \in ids}}
           Q(h) == h = [k \in 1..n |-> IF k = 1 THEN Step({start}) ELSE Step(h[k - 1])]
<1>3. P(some)
  <2>1. some[1] = one
    OBVIOUS
  <2>2. \A k \in 1..n : some[k] = Ends(db, IF k = 1 THEN {start} ELSE some[k - 1])
    <3>1. ASSUME NEW k \in 1..n, k # 1 PROVE k - 1 = 1
      BY <3>1
    <3> QED
      BY <1>2, <2>1, <3>1
  <2>3. some = [k \in 1..n |-> some[k]]
    OBVIOUS
  <2> HIDE DEF some
  <2> QED
    BY <2>2, <2>3
<1>4. P(bfs)
  <2> HIDE DEF P, some
  <2> QED
    BY <1>3
<1>5. SqlxRelatedNodes(db, start, depth) = (UNION {bfs[k] : k \in DOMAIN bfs}) \ {start}
  BY <1>1 DEF SqlxRelatedNodes
<1>6. PgRelatedNodes(db, start, depth) = (UNION {bfs[k] : k \in DOMAIN bfs}) \ {start}
  <2>1. \A ids : Step(ids) = Ends(db, ids)
    BY DEF Ends
  <2>2. \A h : P(h) <=> Q(h)
    <3>1. ASSUME NEW h
          PROVE  [k \in 1..n |-> Ends(db, IF k = 1 THEN {start} ELSE h[k - 1])]
                 = [k \in 1..n |-> IF k = 1 THEN Step({start}) ELSE Step(h[k - 1])]
      <4> HIDE DEF Step
      <4> QED
        BY <2>1
    <3> HIDE DEF Step
    <3> QED
      BY <3>1
  <2>3. bfs = CHOOSE h : Q(h)
    <3> HIDE DEF P, Q
    <3> QED
      BY <2>2, Zenon
  <2>4. PgRelatedNodes(db, start, depth) = (UNION {(CHOOSE h : Q(h))[k] : k \in DOMAIN (CHOOSE h : Q(h))}) \ {start}
    BY <1>1 DEF PgRelatedNodes
  <2> HIDE DEF Q, bfs
  <2> QED
    BY <2>3, <2>4
<1>7. DOMAIN bfs = 1..n /\ bfs[1] = one /\ (n = 2 => bfs[2] = two)
  <2>1. ASSUME NEW h, P(h) PROVE DOMAIN h = 1..n /\ h[1] = one /\ (n = 2 => h[2] = two)
    <3>1. DOMAIN h = 1..n /\ h[1] = one
      BY <1>2, <2>1
    <3>2. n = 2 => h[2] = Ends(db, h[1])
      BY <2>1
    <3> QED
      BY <1>2, <3>1, <3>2
  <2> HIDE DEF P, bfs
  <2> QED
    BY <1>4, <2>1
<1> HIDE DEF bfs
<1>8. UNION {bfs[k] : k \in DOMAIN bfs} = one \cup (IF depth = 2 THEN two ELSE {})
  <2>1. CASE n = 1
    BY <1>1, <1>7, <2>1
  <2>2. CASE n = 2
    <3>1. DOMAIN bfs = {1, 2}
      BY <1>7, <2>2
    <3> QED
      BY <1>1, <1>7, <2>2, <3>1
  <2> QED
    BY <2>1, <2>2
<1> QED
  BY <1>2, <1>5, <1>6, <1>8 DEF Reach

(* and the trait's walk from neighbour to neighbour.                       *)
LEMMA FilteredRelated ==
  ASSUME NEW db \in Databases, NEW start, NEW depth \in 1..2
  PROVE  RelatedNodesFiltered(db, start, depth, "both", None) = Reach(db, start, depth)
<1> DEFINE around(node) == DOMAIN NeighborsWeighted(db, <<node>>, "both", None)
<1>1. ASSUME NEW node PROVE around(node) = Ends(db, {node}) \ {node}
  <2>1. NeighborsWeighted(db, <<node>>, "both", None) = NeighborsOf(db.edges, {node}, "both", None)
    <3>1. PICK seeds, chosen : seeds = <<node>> /\ chosen = ToSet(Read(seeds)) /\ chosen = {node}
      BY SeedsRead
    <3>2. NeighborsWeighted(db, seeds, "both", None) = NeighborsOf(db.edges, chosen, "both", None)
      BY <3>1, LiteNeighbors
    <3> QED
      BY <3>1, <3>2
  <2>2. around(node) = {id \in Ids \ {node} : AlongTo(db.edges, {node}, "both", None, id)
                                              \cup AgainstTo(db.edges, {node}, "both", None, id) # {}}
    BY <2>1 DEF NeighborsOf
  <2>3. \A e \in db.edges : e.source \in Ids /\ e.target \in Ids
    BY Parts, SessionsAssumption
  <2>4. ASSUME NEW id
        PROVE  id \in Ends(db, {node}) <=>
                 \E e \in db.edges : (e.source = node /\ e.target = id) \/ (e.target = node /\ e.source = id)
    BY DEF Ends
  <2>5. ASSUME NEW id
        PROVE  AlongTo(db.edges, {node}, "both", None, id) \cup AgainstTo(db.edges, {node}, "both", None, id) # {} <=>
                 \E e \in db.edges : (e.source = node /\ e.target = id) \/ (e.target = node /\ e.source = id)
    BY DEF AlongTo, AgainstTo
  <2> HIDE DEF around
  <2> QED
    BY <2>2, <2>3, <2>4, <2>5
<1>2. PICK v1, v2 : /\ v1 = {start} \cup UNION {around(node) : node \in {start}}
                    /\ v2 = v1 \cup UNION {around(node) : node \in v1}
  OBVIOUS
<1> DEFINE P(h) == h = [hop \in 0..depth |-> IF hop = 0 THEN {start}
                          ELSE h[hop - 1] \cup (UNION {around(node) : node \in h[hop - 1]})]
           visited == CHOOSE h : P(h)
           some == [hop \in 0..depth |-> IF hop = 0 THEN {start} ELSE IF hop = 1 THEN v1 ELSE v2]
<1>3. RelatedNodesFiltered(db, start, depth, "both", None) = visited[depth] \ {start}
  BY DEF RelatedNodesFiltered
<1> HIDE DEF around
<1>4. P(some)
  <2>1. some[0] = {start} /\ some[1] = v1 /\ (depth = 2 => some[2] = v2)
    OBVIOUS
  <2>2. ASSUME NEW hop \in 0..depth
        PROVE  some[hop] = IF hop = 0 THEN {start} ELSE some[hop - 1] \cup (UNION {around(node) : node \in some[hop - 1]})
    <3>1. CASE hop = 0
      BY <2>1, <3>1
    <3>2. CASE hop = 1
      BY <1>2, <2>1, <3>2
    <3>3. CASE hop = 2 /\ depth = 2
      BY <1>2, <2>1, <3>3
    <3>4. hop = 0 \/ hop = 1 \/ (hop = 2 /\ depth = 2)
      OBVIOUS
    <3> QED
      BY <3>1, <3>2, <3>3, <3>4
  <2>3. some = [hop \in 0..depth |-> some[hop]]
    OBVIOUS
  <2> HIDE DEF some
  <2> QED
    BY <2>2, <2>3
<1>5. P(visited)
  <2> HIDE DEF P, some
  <2> QED
    BY <1>4
<1>6. visited[1] = v1 /\ (depth = 2 => visited[2] = v2)
  <2>1. ASSUME NEW h, P(h) PROVE h[1] = v1 /\ (depth = 2 => h[2] = v2)
    <3>1. h[0] = {start}
      BY <2>1
    <3>2. h[1] = h[0] \cup (UNION {around(node) : node \in h[0]})
      BY <2>1
    <3>3. h[1] = v1
      BY <1>2, <3>1, <3>2
    <3>4. depth = 2 => h[2] = h[1] \cup (UNION {around(node) : node \in h[1]})
      BY <2>1
    <3> QED
      BY <1>2, <3>3, <3>4
  <2> HIDE DEF P, visited
  <2> QED
    BY <1>5, <2>1
<1>7. v1 = {start} \cup Ends(db, {start})
  BY <1>1, <1>2
<1>8. v2 \ {start} = (Ends(db, {start}) \cup Ends(db, Ends(db, {start}))) \ {start}
  <2>1. ASSUME NEW ids, NEW id PROVE id \in Ends(db, ids) <=> \E node \in ids : id \in Ends(db, {node})
    BY DEF Ends
  <2>2. ASSUME NEW id PROVE id \in v2 <=> id \in v1 \/ \E node \in v1 : id \in Ends(db, {node}) /\ id # node
    <3>1. id \in UNION {around(node) : node \in v1} <=> \E node \in v1 : id \in around(node)
      OBVIOUS
    <3>2. \A node : id \in around(node) <=> id \in Ends(db, {node}) /\ id # node
      BY <1>1
    <3> QED
      BY <1>2, <3>1, <3>2
  <2>3. PICK one : one = Ends(db, {start}) /\ v1 = {start} \cup one
    BY <1>7
  <2>4. ASSUME NEW id, id # start PROVE id \in v2 <=> id \in one \/ id \in Ends(db, one)
    <3>1. id \in Ends(db, one) <=> \E node \in one : id \in Ends(db, {node})
      BY <2>1
    <3>2. id \in one <=> id \in Ends(db, {start})
      BY <2>3
    <3> QED
      BY <2>2, <2>3, <2>4, <3>1, <3>2
  <2> QED
    BY <2>3, <2>4
<1> HIDE DEF visited
<1>9. depth = 1 \/ depth = 2
  OBVIOUS
<1> QED
  BY <1>3, <1>6, <1>7, <1>8, <1>9 DEF Reach

(* Equal edges are read alike by all.                                      *)
LEMMA EdgesReadAlike ==
  ASSUME Together(lite, pg, sqlx, orphaned), lite.edges = pg.edges
  PROVE  EdgeReadsAgree
<1>1. /\ lite \in Databases /\ pg \in Databases /\ sqlx \in Databases
      /\ lite.edges = pg.edges /\ lite.edges = sqlx.edges
  BY DEF Together
<1>2. ASSUME NEW id \in Ids PROVE EdgesForNode(lite, id) = PgEdgesForNode(pg, id) /\ EdgesForNode(lite, id) = SqlxEdgesForNode(sqlx, id)
  BY <1>1 DEF EdgesForNode, PgEdgesForNode, SqlxEdgesForNode, Touches
<1>3. ASSUME NEW id \in Ids, NEW dir \in Directions, NEW relation \in Relations
      PROVE  /\ EdgesForNodeDir(lite, id, dir, relation) = PgEdgesForNodeDir(pg, id, dir, relation)
             /\ EdgesForNodeDir(lite, id, dir, relation) = SqlxEdgesForNodeDir(sqlx, id, dir, relation)
             /\ EdgesForNodeDir(lite, id, dir, relation) = DefaultEdgesForNodeDir(lite, id, dir, relation)
  <2>1. PICK E : E = lite.edges /\ E = pg.edges /\ E = sqlx.edges
    BY <1>1
  <2>2. dir = "out" \/ dir = "in" \/ dir = "both"
    BY DEF Directions
  <2>3. PICK F : F = {e \in E : /\ (dir # "in" /\ e.source = id) \/ (dir # "out" /\ e.target = id)
                                /\ relation = None \/ e.relation = relation}
    OBVIOUS
  <2>4. EdgesForNodeDir(lite, id, dir, relation) = F
    BY <2>1, <2>3 DEF EdgesForNodeDir
  <2>5. PgEdgesForNodeDir(pg, id, dir, relation) = F
    BY <2>1, <2>2, <2>3 DEF PgEdgesForNodeDir, Touches
  <2>6. SqlxEdgesForNodeDir(sqlx, id, dir, relation) = F
    BY <2>1, <2>2, <2>3 DEF SqlxEdgesForNodeDir, SqlxEdgesForNode, Touches
  <2>7. DefaultEdgesForNodeDir(lite, id, dir, relation) = F
    BY <2>1, <2>2, <2>3 DEF DefaultEdgesForNodeDir, EdgesForNode, Touches
  <2> QED
    BY <2>4, <2>5, <2>6, <2>7
<1>4. ASSUME NEW id \in Ids, NEW dir \in Directions, NEW relation \in Relations, NEW other \in Ids,
             NEW seeds, seeds = (IF id = other THEN <<id>> ELSE <<id, other>>)
      PROVE  /\ NeighborsWeighted(lite, seeds, dir, relation) = PgNeighborsWeighted(pg, seeds, dir, relation)
             /\ NeighborsWeighted(lite, seeds, dir, relation) = SqlxNeighborsWeighted(sqlx, seeds, dir, relation)
             /\ NeighborsWeighted(lite, seeds, dir, relation) = DefaultNeighborsWeighted(lite, seeds, dir, relation)
  <2>1. PICK chosen : chosen = ToSet(Read(seeds))
    OBVIOUS
  <2>2. chosen = ToSet(seeds) /\ DOMAIN seeds \in {{1}, {1, 2}}
    <3>1. CASE id = other
      BY <1>4, <2>1, <3>1, SeedsRead
    <3>2. CASE id # other
      <4>1. seeds = <<id, other>>
        BY <1>4, <3>2
      <4>2. /\ ToSet(Read(<<id, other>>)) = {id, other} /\ DOMAIN <<id, other>> = {1, 2}
            /\ ToSet(<<id, other>>) = {id, other}
        BY SeedsRead, Zenon
      <4> QED
        BY <2>1, <4>1, <4>2, Zenon
    <3> QED
      BY <3>1, <3>2
  <2>3. IsFiniteSet(DOMAIN seeds)
    <3>1. PICK m \in Int, n \in Int : m = 1 /\ n = 2
      OBVIOUS
    <3>2. IsFiniteSet(m..m) /\ IsFiniteSet(m..n)
      BY FS_Interval
    <3>3. m..m = {1} /\ m..n = {1, 2}
      BY <3>1
    <3> QED
      BY <2>2, <3>2, <3>3
  <2>4. ASSUME NEW i \in DOMAIN seeds, NEW j \in DOMAIN seeds, seeds[i] = seeds[j] PROVE i = j
    <3>1. CASE id = other
      <4>1. DOMAIN seeds = {1}
        BY <1>4, <3>1, SeedsRead
      <4> QED
        BY <4>1
    <3>2. CASE id # other
      <4>1. DOMAIN seeds = {1, 2} /\ seeds[1] = id /\ seeds[2] = other
        BY <1>4, <3>2, SeedsRead
      <4> QED
        BY <2>4, <3>2, <4>1
    <3> QED
      BY <3>1, <3>2
  <2>5. NeighborsWeighted(lite, seeds, dir, relation) = NeighborsOf(lite.edges, chosen, dir, relation)
    BY <1>1, <2>1, LiteNeighbors
  <2>6. PgNeighborsWeighted(pg, seeds, dir, relation) = NeighborsOf(pg.edges, chosen, dir, relation)
    <3>1. pg \in Databases
      BY <1>1
    <3> QED
      BY <2>1, <3>1, PgNeighbors
  <2>7. SqlxNeighborsWeighted(sqlx, seeds, dir, relation) = NeighborsOf(sqlx.edges, chosen, dir, relation)
    BY <1>1, <2>1, SqlxNeighbors
  <2>8. DefaultNeighborsWeighted(lite, seeds, dir, relation) = NeighborsOf(lite.edges, chosen, dir, relation)
    BY <1>1, <2>2, <2>3, <2>4, DefaultNeighbors
  <2> QED
    BY <1>1, <2>5, <2>6, <2>7, <2>8
<1>5. ASSUME NEW id \in Ids, NEW depth \in 0..2
      PROVE  /\ RelatedNodes(lite, id, depth) \ {id} = PgRelatedNodes(pg, id, depth)
             /\ PgRelatedNodes(pg, id, depth) = SqlxRelatedNodes(sqlx, id, depth)
             /\ depth > 0 => PgRelatedNodes(pg, id, depth) = RelatedNodesFiltered(lite, id, depth, "both", None)
  <2>1. \A ids : Ends(lite, ids) = Ends(pg, ids) /\ Ends(lite, ids) = Ends(sqlx, ids)
    BY <1>1 DEF Ends
  <2>2. Reach(lite, id, depth) = Reach(pg, id, depth) /\ Reach(lite, id, depth) = Reach(sqlx, id, depth)
    BY <2>1 DEF Reach
  <2>3. depth > 0 => depth \in 1..2
    OBVIOUS
  <2>4. RelatedNodes(lite, id, depth) \ {id} = Reach(lite, id, depth)
    BY LiteRelated
  <2>5. PgRelatedNodes(pg, id, depth) = Reach(pg, id, depth) /\ SqlxRelatedNodes(sqlx, id, depth) = Reach(sqlx, id, depth)
    BY SqlxRelated
  <2>6. depth > 0 => RelatedNodesFiltered(lite, id, depth, "both", None) = Reach(lite, id, depth)
    BY <1>1, <2>3, FilteredRelated
  <2> QED
    BY <2>2, <2>4, <2>5, <2>6
<1>6. ASSUME NEW id \in Ids, NEW dir \in Directions, NEW relation \in Relations, NEW other \in Ids
      PROVE  LET seeds == IF id = other THEN <<id>> ELSE <<id, other>> IN
             /\ NeighborsWeighted(lite, seeds, dir, relation) = PgNeighborsWeighted(pg, seeds, dir, relation)
             /\ NeighborsWeighted(lite, seeds, dir, relation) = SqlxNeighborsWeighted(sqlx, seeds, dir, relation)
             /\ NeighborsWeighted(lite, seeds, dir, relation) = DefaultNeighborsWeighted(lite, seeds, dir, relation)
  <2>1. PICK seeds : seeds = IF id = other THEN <<id>> ELSE <<id, other>>
    OBVIOUS
  <2>2. /\ NeighborsWeighted(lite, seeds, dir, relation) = PgNeighborsWeighted(pg, seeds, dir, relation)
        /\ NeighborsWeighted(lite, seeds, dir, relation) = SqlxNeighborsWeighted(sqlx, seeds, dir, relation)
        /\ NeighborsWeighted(lite, seeds, dir, relation) = DefaultNeighborsWeighted(lite, seeds, dir, relation)
    BY <1>4, <2>1
  <2> QED
    BY <2>1, <2>2
<1> QED
  BY <1>2, <1>3, <1>5, <1>6 DEF EdgeReadsAgree

(* The three backends hold the same nodes and edges and answer alike, for  *)
(* any nodes, batches of any size in chunks of any size, hints and scopes, *)
(* and after any number of calls.                                          *)
THEOREM BackendsAlike == Spec => []BackendsAgree
<1>1. AgreeInv => BackendsAgree
  <2> SUFFICES ASSUME AgreeInv, common PROVE BackendsAgree
    BY DEF BackendsAgree
  <2>1. Together(lite, pg, sqlx, orphaned)
    BY DEF AgreeInv
  <2>2. Content(lite) = Content(pg) /\ Content(pg) = Content(sqlx)
    BY <2>1, SameContent DEF Together
  <2>3. pg.edges = sqlx.edges /\ (~orphaned => lite.edges = pg.edges)
    BY <2>1 DEF Together
  <2>4. NodeReadsAgree
    BY <2>1, ReadTogether
  <2>5. ~orphaned => EdgeReadsAgree
    BY <2>1, <2>3, EdgesReadAlike
  <2> QED
    BY <2>2, <2>3, <2>4, <2>5 DEF BackendsAgree
<1>2. Spec => []AgreeInv
  <2>1. Init => NodesInv /\ AgreeInv
    BY InitNodes, InitAgree
  <2>2. NodesInv /\ AgreeInv /\ [Next]_vars => NodesInv' /\ AgreeInv'
    BY StepNodes, StepAgree
  <2> QED
    BY <2>1, <2>2, PTL DEF Spec
<1> QED
  BY <1>1, <1>2, PTL

----------------------------------------------------------------------------
(* The snapshot.                                                           *)

(* The nodes, id after id.                                                 *)
LEMMA NumberingFold ==
  ASSUME NEW S, NEW ids \in Seq(S)
  PROVE  \E p \in [0..Len(ids) -> Seq(S)] :
           /\ p[0] = <<>> /\ p[Len(ids)] = FoldLeft(Numbering, <<>>, ids)
           /\ \A k \in 1..Len(ids) : p[k] = Numbering(p[k - 1], ids[k])
<1>0. PICK base \in Seq(S) : base = <<>>
  BY EmptySeq
<1> DEFINE last == Len(ids)
           V == Seq(S)
           op == [q \in (1..last) \X V |-> Numbering(q[2], ids[q[1]])]
           P(h) == h = [s \in SUBSET (1..last) |-> IF s = {} THEN base ELSE Numbering(h[s \ {Max(s)}], ids[Max(s)])]
           fold == CHOOSE h : P(h)
<1>1. last \in Nat /\ DOMAIN ids = 1..last /\ \A k \in 1..last : ids[k] \in S
  OBVIOUS
<1> HIDE DEF last
<1>2. op \in [(1..last) \X V -> V]
  <2>1. ASSUME NEW q \in (1..last) \X V PROVE Numbering(q[2], ids[q[1]]) \in V
    <3>1. q[2] \in Seq(S) /\ ids[q[1]] \in S
      BY <1>1, <2>1
    <3> QED
      BY <3>1 DEF Numbering
  <2> QED
    BY <2>1
<1>3. FoldLeft(Numbering, base, ids) = fold[1..last]
  BY <1>1 DEF FoldLeft, MapThenFoldSet
<1>4. P(fold)
  <2>1. PICK g \in [SUBSET (1..last) -> V] : Computes(g, last, V, base, op)
    <3> HIDE DEF op, V
    <3> QED
      BY <1>0, <1>1, <1>2, LeftRecursion DEF V
  <2>2. P(g)
    <3>1. \A s \in SUBSET (1..last) : s # {} => g[s] = Numbering(g[s \ {Max(s)}], ids[Max(s)])
      BY <2>1 DEF Computes
    <3> QED
      BY <2>1, <3>1 DEF Computes
  <2> HIDE DEF P
  <2> QED
    BY <2>2
<1>5. Follows(fold, last, V, base, op)
  <2>1. ASSUME NEW h, P(h) PROVE Follows(h, last, V, base, op)
    <3>1. \A s \in SUBSET (1..last) : s # {} => Max(s) \in 1..last
      BY <1>1, GreatestChooses DEF Chooses
    <3>2. h[{}] = base
      BY <2>1
    <3>3. ASSUME NEW s \in SUBSET (1..last), s # {}, h[s \ {Max(s)}] \in V
          PROVE  h[s] = op[<<Max(s), h[s \ {Max(s)}]>>]
      <4>1. h[s] = Numbering(h[s \ {Max(s)}], ids[Max(s)])
        BY <2>1, <3>3
      <4>2. <<Max(s), h[s \ {Max(s)}]>> \in (1..last) \X V
        BY <3>1, <3>3
      <4> QED
        BY <4>1, <4>2
    <3> QED
      BY <3>2, <3>3 DEF Follows
  <2> HIDE DEF P, fold
  <2> QED
    BY <1>4, <2>1
<1>6. PICK p \in [0..last -> V] : p[last] = fold[1..last] /\ Passes(p, last, base, op)
  <2> HIDE DEF op, fold, V
  <2> QED
    BY <1>0, <1>1, <1>2, <1>5, LeftFold DEF V
<1>7. ASSUME NEW k \in 1..last PROVE p[k] = Numbering(p[k - 1], ids[k])
  <2>1. k - 1 \in 0..last
    BY <1>1
  <2> QED
    BY <1>6, <2>1 DEF Passes
<1>8. p[0] = base /\ p[last] = FoldLeft(Numbering, base, ids)
  BY <1>3, <1>6 DEF Passes
<1> HIDE DEF fold, P, op
<1> QED
  BY <1>0, <1>7, <1>8 DEF last, V

(* Each id is numbered once, and there is a first.                         *)
LEMMA NodesNumbered ==
  ASSUME NEW S, NEW ids \in Seq(S), ids # <<>>
  PROVE  LET nodes == FoldLeft(Numbering, <<>>, ids)
         IN /\ nodes \in Seq(S) /\ Len(nodes) \in 1..Len(ids)
            /\ \A i, j \in DOMAIN nodes : nodes[i] = nodes[j] => i = j
<1>1. PICK p \in [0..Len(ids) -> Seq(S)] :
           /\ p[0] = <<>> /\ p[Len(ids)] = FoldLeft(Numbering, <<>>, ids)
           /\ \A k \in 1..Len(ids) : p[k] = Numbering(p[k - 1], ids[k])
  BY NumberingFold
<1> DEFINE Good(k) == /\ p[k] \in Seq(S) /\ Len(p[k]) <= k /\ (k > 0 => Len(p[k]) > 0)
                      /\ \A i, j \in 1..Len(p[k]) : p[k][i] = p[k][j] => i = j
           U == {k \in 0..Len(ids) : ~Good(k)}
<1>2. PICK n \in Nat \ {0} : n = Len(ids) /\ \A k \in 1..n : ids[k] \in S
  OBVIOUS
<1>3. 0 \notin U
  BY <1>1
<1>4. ASSUME NEW k \in 1..n, Good(k - 1) PROVE Good(k)
  <2>1. PICK s \in Seq(S) : s = p[k - 1] /\ Len(s) <= k - 1 /\ \A i, j \in 1..Len(s) : s[i] = s[j] => i = j
    BY <1>4
  <2>2. PICK x \in S : x = ids[k]
    BY <1>2
  <2>3. p[k] = IF Contains(s, x) THEN s ELSE Append(s, x)
    <3>1. p[k] = Numbering(p[k - 1], ids[k])
      BY <1>1, <1>2
    <3> QED
      BY <2>1, <2>2, <3>1 DEF Numbering
  <2>4. CASE Contains(s, x)
    <3>1. PICK i \in 1..Len(s) : s[i] = x
      BY <2>4 DEF Contains
    <3> QED
      BY <1>2, <2>1, <2>3, <2>4, <3>1
  <2>5. CASE ~Contains(s, x)
    <3>1. \A i \in 1..Len(s) : s[i] # x
      BY <2>5 DEF Contains
    <3>2. /\ Append(s, x) \in Seq(S) /\ Len(Append(s, x)) = Len(s) + 1
          /\ \A i \in 1..(Len(s) + 1) : Append(s, x)[i] = IF i = Len(s) + 1 THEN x ELSE s[i]
      BY <2>1
    <3>3. ASSUME NEW i \in 1..(Len(s) + 1), NEW j \in 1..(Len(s) + 1), Append(s, x)[i] = Append(s, x)[j]
          PROVE  i = j
      <4>1. i # Len(s) + 1 => i \in 1..Len(s)
        OBVIOUS
      <4>2. j # Len(s) + 1 => j \in 1..Len(s)
        OBVIOUS
      <4> QED
        BY <2>1, <3>1, <3>2, <3>3, <4>1, <4>2
    <3>4. Len(s) + 1 > 0 /\ Len(s) + 1 <= k
      BY <2>1
    <3> QED
      BY <2>3, <2>5, <3>2, <3>3, <3>4
  <2> QED
    BY <2>4, <2>5
<1>5. U = {}
  <2>1. ASSUME NEW k \in 1..n, k \in U PROVE k - 1 \in U
    <3>1. k - 1 \in 0..Len(ids)
      BY <1>2
    <3> QED
      BY <1>4, <2>1, <3>1
  <2>2. U \subseteq 0..n
    BY <1>2
  <2> HIDE DEF U
  <2> QED
    BY <1>3, <2>1, <2>2, NothingFrom
<1>6. Good(n)
  <2>1. n \in 0..Len(ids)
    BY <1>2
  <2> QED
    BY <1>5, <2>1
<1>7. FoldLeft(Numbering, <<>>, ids) = p[n]
  BY <1>1, <1>2
<1> QED
  BY <1>2, <1>6, <1>7

(* The number of an id is where it stands.                                 *)
LEMMA IndexIs ==
  ASSUME NEW S, NEW nodes \in Seq(S), NEW id
  PROVE  /\ Index(nodes, id) \in 0..Len(nodes)
         /\ Index(nodes, id) # 0 => nodes[Index(nodes, id)] = id
<1> DEFINE I == {i \in 1..Len(nodes) : nodes[i] = id}
<1>1. Index(nodes, id) = IF I # {} THEN Min(I) ELSE 0
  BY DEF Index, SelectInSeq
<1>2. I # {} => Min(I) \in I
  <2>1. I \in SUBSET Nat
    OBVIOUS
  <2> HIDE DEF I
  <2> QED
    BY <2>1, LeastIs
<1> QED
  BY <1>1, <1>2

End(n) == [node : 1..n, weight : Nat]
BothWays(g, a, b, weight) ==
  Times(g.out[a], [node |-> b, weight |-> weight]) = Times(g.in[b], [node |-> a, weight |-> weight])

(* A snapshot of n nodes.                                                  *)
Snapshot(g, n) ==
  /\ DOMAIN g.nodes = 1..n /\ Len(g.nodes) = n /\ \A i, j \in 1..n : g.nodes[i] = g.nodes[j] => i = j
  /\ g.out \in [1..n -> Seq(End(n))]
  /\ g.in \in [1..n -> Seq(End(n))]
  /\ \A a, b \in 1..n : \A weight : BothWays(g, a, b, weight)

Holding(f, n, E) == {j \in 1..n : f[j] \in E}

(* However a set is ordered, as many places hold one of some elements as   *)
(* there are of these.                                                     *)
LEMMA PlacesOf ==
  ASSUME NEW T, NEW E \in SUBSET T, NEW n \in Nat, NEW f, Enumerates(f, T, n)
  PROVE  Cardinality(Holding(f, n, E)) = Cardinality(E)
<1> DEFINE J == {j \in 1..n : f[j] \in E}
           h == [j \in J |-> f[j]]
<1>1. h \in Bijection(J, E)
  BY DEF Bijection, Injection, Surjection, IsInjective, Enumerates
<1>2. IsFiniteSet(J)
  BY FS_Interval, FS_Subset
<1> HIDE DEF J, h
<1>3. Cardinality(J) = Cardinality(E)
  BY <1>1, <1>2, FS_Bijection DEF ExistsBijection
<1> QED
  BY <1>3 DEF J, Holding

(* The ends of one node's edges, in whatever order: each as often as there *)
(* are edges to it.                                                        *)
Leaving(here, there, m, a) == {k \in 1..m : here[k] = a /\ there[k] # 0}
EndsAt(at, there, wt) == [k \in DOMAIN at |-> [node |-> there[at[k]], weight |-> wt[at[k]]]]
Between(here, there, wt, m, a, b, weight) ==
  {k \in 1..m : here[k] = a /\ there[k] = b /\ wt[k] = weight}

Listed(ends, here, there, wt, m, n, a) ==
  /\ ends \in Seq(End(n))
  /\ \A b \in 1..n : \A weight :
       Times(ends, [node |-> b, weight |-> weight]) = Cardinality(Between(here, there, wt, m, a, b, weight))

(* However they are ordered, they are ends, and none is lost or repeated.  *)
LEMMA EndsListed ==
  ASSUME NEW m \in Nat, NEW n \in Nat, NEW here \in [1..m -> 0..n], NEW there \in [1..m -> 0..n],
         NEW wt \in [1..m -> Nat], NEW a \in 1..n,
         NEW p \in Nat, NEW at, Enumerates(at, Leaving(here, there, m, a), p)
  PROVE  Listed(EndsAt(at, there, wt), here, there, wt, m, n, a)
<1>1. DOMAIN at = 1..p /\ \A k \in 1..p : at[k] \in Leaving(here, there, m, a)
  BY DEF Enumerates
<1>2. \A k \in 1..p : at[k] \in 1..m /\ here[at[k]] = a /\ there[at[k]] \in 1..n /\ wt[at[k]] \in Nat
  BY <1>1 DEF Leaving
<1>3. PICK ends : ends = EndsAt(at, there, wt)
  OBVIOUS
<1>4. ends = [k \in 1..p |-> [node |-> there[at[k]], weight |-> wt[at[k]]]]
  BY <1>1, <1>3 DEF EndsAt
<1>5. ends \in Seq(End(n))
  <2>1. ends \in [1..p -> End(n)]
    BY <1>2, <1>4 DEF End
  <2> QED
    BY <2>1
<1>6. ASSUME NEW b \in 1..n, NEW weight
      PROVE  Times(ends, [node |-> b, weight |-> weight]) = Cardinality(Between(here, there, wt, m, a, b, weight))
  <2>1. PICK E : E = Between(here, there, wt, m, a, b, weight)
    OBVIOUS
  <2>2. E \in SUBSET Leaving(here, there, m, a)
    BY <2>1 DEF Between, Leaving
  <2>3. \A k \in 1..p : ends[k] = [node |-> b, weight |-> weight] <=> at[k] \in E
    BY <1>2, <1>4, <2>1 DEF Between
  <2>4. {k \in DOMAIN ends : ends[k] = [node |-> b, weight |-> weight]} = Holding(at, p, E)
    <3>1. DOMAIN ends = 1..p
      BY <1>4
    <3> QED
      BY <2>3, <3>1 DEF Holding
  <2>5. Cardinality(Holding(at, p, E)) = Cardinality(E)
    BY <2>2, PlacesOf
  <2> QED
    BY <2>1, <2>4, <2>5 DEF Times
<1> QED
  BY <1>3, <1>5, <1>6 DEF Listed

(* What the algorithms run on is a snapshot.                               *)
LEMMA SnapshotMade ==
  ASSUME NEW edges \in EdgeLists
  PROVE  \E n \in 1..Len(NodeIds) : Snapshot(FromEdges(NodeIds, edges), n)
<1>1. PICK S : NodeIds \in Seq(S) /\ NodeIds # <<>>
  BY AlgorithmsAssumption
<1>2. PICK nodes \in Seq(S) : /\ nodes = FoldLeft(Numbering, <<>>, NodeIds) /\ Len(nodes) \in 1..Len(NodeIds)
                              /\ \A i, j \in DOMAIN nodes : nodes[i] = nodes[j] => i = j
  BY <1>1, NodesNumbered
<1>3. PICK n \in Nat : n = Len(nodes) /\ DOMAIN nodes = 1..n /\ n \in 1..Len(NodeIds)
  BY <1>2
<1>4. PICK m \in Nat : m = Len(edges) /\ DOMAIN edges = 1..m /\ \A k \in 1..m : edges[k].weight \in Nat
  <2>1. edges \in Seq(Range(edges)) /\ \A edge \in Range(edges) : edge.weight \in Nat
    BY AlgorithmsAssumption
  <2>2. Len(edges) \in Nat /\ DOMAIN edges = 1..Len(edges) /\ \A k \in 1..Len(edges) : edges[k] \in Range(edges)
    BY <2>1
  <2> QED
    BY <2>1, <2>2
<1>5. PICK src : src = [k \in 1..m |-> Index(nodes, edges[k].source)]
  OBVIOUS
<1>6. PICK tgt : tgt = [k \in 1..m |-> Index(nodes, edges[k].target)]
  OBVIOUS
<1>7. PICK wt : wt = [k \in 1..m |-> edges[k].weight]
  OBVIOUS
<1>8. src \in [1..m -> 0..n] /\ tgt \in [1..m -> 0..n] /\ wt \in [1..m -> Nat]
  BY <1>3, <1>4, <1>5, <1>6, <1>7, IndexIs
<1>9. ASSUME NEW a \in 1..n
      PROVE  /\ EdgesFrom(nodes, edges, a) = SetToSeq(Leaving(src, tgt, m, a))
             /\ EdgesInto(nodes, edges, a) = SetToSeq(Leaving(tgt, src, m, a))
  <2>1. {k \in DOMAIN edges : Index(nodes, edges[k].source) = a /\ Index(nodes, edges[k].target) # 0}
          = Leaving(src, tgt, m, a)
    BY <1>4, <1>5, <1>6 DEF Leaving
  <2>2. {k \in DOMAIN edges : Index(nodes, edges[k].target) = a /\ Index(nodes, edges[k].source) # 0}
          = Leaving(tgt, src, m, a)
    BY <1>4, <1>5, <1>6 DEF Leaving
  <2> QED
    BY <2>1, <2>2 DEF EdgesFrom, EdgesInto
<1>10. ASSUME NEW here \in [1..m -> 0..n], NEW there \in [1..m -> 0..n], NEW a \in 1..n
       PROVE  \E p \in Nat : Enumerates(SetToSeq(Leaving(here, there, m, a)), Leaving(here, there, m, a), p)
  <2>1. IsFiniteSet(Leaving(here, there, m, a))
    BY FS_Interval, FS_Subset DEF Leaving
  <2> QED
    BY <2>1, InSomeOrder
<1> DEFINE Out(a) == EndsAt(EdgesFrom(nodes, edges, a), tgt, wt)
           In(a) == EndsAt(EdgesInto(nodes, edges, a), src, wt)
<1>11. ASSUME NEW a \in 1..n
       PROVE  Listed(Out(a), src, tgt, wt, m, n, a) /\ Listed(In(a), tgt, src, wt, m, n, a)
  <2>1. PICK p \in Nat : Enumerates(EdgesFrom(nodes, edges, a), Leaving(src, tgt, m, a), p)
    BY <1>8, <1>9, <1>10
  <2>2. PICK q \in Nat : Enumerates(EdgesInto(nodes, edges, a), Leaving(tgt, src, m, a), q)
    BY <1>8, <1>9, <1>10
  <2>3. Listed(Out(a), src, tgt, wt, m, n, a)
    BY <1>3, <1>8, <2>1, EndsListed
  <2>4. Listed(In(a), tgt, src, wt, m, n, a)
    BY <1>3, <1>8, <2>2, EndsListed
  <2> QED
    BY <2>3, <2>4
<1>12. PICK g : g = FromEdges(NodeIds, edges)
  OBVIOUS
<1>13. ASSUME NEW a \in 1..n
       PROVE  /\ \A k \in DOMAIN EdgesFrom(nodes, edges, a) : EdgesFrom(nodes, edges, a)[k] \in 1..m
              /\ \A k \in DOMAIN EdgesInto(nodes, edges, a) : EdgesInto(nodes, edges, a)[k] \in 1..m
  <2>1. PICK p \in Nat : Enumerates(EdgesFrom(nodes, edges, a), Leaving(src, tgt, m, a), p)
    BY <1>8, <1>9, <1>10
  <2>2. PICK q \in Nat : Enumerates(EdgesInto(nodes, edges, a), Leaving(tgt, src, m, a), q)
    BY <1>8, <1>9, <1>10
  <2>3. Leaving(src, tgt, m, a) \subseteq 1..m /\ Leaving(tgt, src, m, a) \subseteq 1..m
    BY DEF Leaving
  <2> QED
    BY <2>1, <2>2, <2>3 DEF Enumerates
<1>14. g.nodes = nodes /\ g.out = [a \in 1..n |-> Out(a)] /\ g.in = [a \in 1..n |-> In(a)]
  <2>1. ASSUME NEW a \in 1..n
        PROVE  /\ [k \in DOMAIN EdgesFrom(nodes, edges, a) |->
                     [node |-> Index(nodes, edges[EdgesFrom(nodes, edges, a)[k]].target),
                      weight |-> edges[EdgesFrom(nodes, edges, a)[k]].weight]] = Out(a)
               /\ [k \in DOMAIN EdgesInto(nodes, edges, a) |->
                     [node |-> Index(nodes, edges[EdgesInto(nodes, edges, a)[k]].source),
                      weight |-> edges[EdgesInto(nodes, edges, a)[k]].weight]] = In(a)
    <3>1. /\ \A k \in DOMAIN EdgesFrom(nodes, edges, a) :
               /\ Index(nodes, edges[EdgesFrom(nodes, edges, a)[k]].target) = tgt[EdgesFrom(nodes, edges, a)[k]]
               /\ edges[EdgesFrom(nodes, edges, a)[k]].weight = wt[EdgesFrom(nodes, edges, a)[k]]
          /\ \A k \in DOMAIN EdgesInto(nodes, edges, a) :
               /\ Index(nodes, edges[EdgesInto(nodes, edges, a)[k]].source) = src[EdgesInto(nodes, edges, a)[k]]
               /\ edges[EdgesInto(nodes, edges, a)[k]].weight = wt[EdgesInto(nodes, edges, a)[k]]
      BY <1>5, <1>6, <1>7, <1>13
    <3> QED
      BY <3>1 DEF EndsAt
  <2> HIDE DEF Out, In
  <2>2. DOMAIN nodes = 1..n
    BY <1>3
  <2>3. g.nodes = nodes
    BY <1>2, <1>12 DEF FromEdges
  <2>4. g.out = [a \in 1..n |-> Out(a)] /\ g.in = [a \in 1..n |-> In(a)]
    BY <1>2, <1>12, <2>1, <2>2 DEF FromEdges
  <2> QED
    BY <2>3, <2>4
<1> HIDE DEF Out, In
<1>15. g.out \in [1..n -> Seq(End(n))] /\ g.in \in [1..n -> Seq(End(n))]
  BY <1>11, <1>14 DEF Listed
<1>16. ASSUME NEW a \in 1..n, NEW b \in 1..n, NEW weight
       PROVE  BothWays(g, a, b, weight)
  <2>1. Between(src, tgt, wt, m, a, b, weight) = Between(tgt, src, wt, m, b, a, weight)
    BY DEF Between
  <2>2. g.out[a] = Out(a) /\ g.in[b] = In(b)
    BY <1>14
  <2> QED
    BY <1>11, <2>1, <2>2 DEF Listed, BothWays
<1>17. DOMAIN g.nodes = 1..n /\ Len(g.nodes) = n /\ \A i, j \in 1..n : g.nodes[i] = g.nodes[j] => i = j
  BY <1>2, <1>3, <1>14
<1>18. Snapshot(g, n)
  BY <1>15, <1>16, <1>17 DEF Snapshot
<1> QED
  BY <1>3, <1>12, <1>18

(* SumFunction is the sum of the lemmas.                                   *)
LEMMA SumFunctionIs ==
  ASSUME NEW S, NEW f \in [S -> Nat] PROVE SumFunction(f) = SumOf(f)
  BY DEF SumFunction, SumFunctionOnSet, SumOf, FoldFunction, FoldFunctionOnSet, MapThenFoldSet

(* Numbers of the places in a finite sequence add up to a number.          *)
LEMMA SumIsNumber ==
  ASSUME NEW S, IsFiniteSet(S), NEW f \in [S -> Nat] PROVE SumFunction(f) \in Nat
<1>1. PICK g \in [SUBSET S -> Nat] : SumOf(f) = g[S]
  BY PartialSums
<1> QED
  BY <1>1, SumFunctionIs

N == Len(csr.nodes)
Vertices == 1..N
Hop(a, b) == \E k \in DOMAIN csr.out[a] : csr.out[a][k].node = b

GraphInv == N \in Nat \ {0} /\ N <= Len(NodeIds) /\ Snapshot(csr, N)

(* Edges are those of the lists, in either direction.                      *)
LEMMA AdjacentIs ==
  ASSUME GraphInv
  PROVE  /\ NodeIndices(csr) = Vertices
         /\ \A a, b \in Vertices : Adjacent(csr, a, b) <=> Hop(a, b) \/ Hop(b, a)
         /\ \A a \in Vertices : \A k \in DOMAIN csr.out[a] : csr.out[a][k].node \in Vertices /\ csr.out[a][k].weight \in Nat
         /\ \A a \in Vertices : \A k \in DOMAIN csr.in[a] : csr.in[a][k].node \in Vertices /\ csr.in[a][k].weight \in Nat
<1>1. NodeIndices(csr) = Vertices
  BY DEF GraphInv, Snapshot, NodeIndices, Vertices
<1>2. ASSUME NEW a \in Vertices
      PROVE  /\ \A k \in DOMAIN csr.out[a] : csr.out[a][k].node \in Vertices /\ csr.out[a][k].weight \in Nat
             /\ \A k \in DOMAIN csr.in[a] : csr.in[a][k].node \in Vertices /\ csr.in[a][k].weight \in Nat
  <2>1. csr.out[a] \in Seq(End(N)) /\ csr.in[a] \in Seq(End(N))
    BY DEF GraphInv, Snapshot, Vertices
  <2>2. /\ \A k \in DOMAIN csr.out[a] : csr.out[a][k] \in End(N)
        /\ \A k \in DOMAIN csr.in[a] : csr.in[a][k] \in End(N)
    BY <2>1
  <2> QED
    BY <2>2 DEF End, Vertices
<1>3. ASSUME NEW a \in Vertices, NEW b \in Vertices PROVE Adjacent(csr, a, b) <=> Hop(a, b) \/ Hop(b, a)
  <2>1. ASSUME Adjacent(csr, a, b) PROVE Hop(a, b) \/ Hop(b, a)
    <3>1. PICK i \in Vertices : \E k \in DOMAIN csr.out[i] : {i, csr.out[i][k].node} = {a, b}
      BY <1>1, <2>1 DEF Adjacent, EdgesOf
    <3>2. PICK k \in DOMAIN csr.out[i] : {i, csr.out[i][k].node} = {a, b}
      BY <3>1
    <3>3. PICK x : x = csr.out[i][k].node
      OBVIOUS
    <3>4. (i = a /\ x = b) \/ (i = b /\ x = a)
      BY <3>2, <3>3
    <3> QED
      BY <3>3, <3>4 DEF Hop
  <2>2. ASSUME NEW x \in Vertices, NEW y \in Vertices, Hop(x, y) PROVE \E e \in EdgesOf(csr) : {e[1], e[2]} = {x, y}
    <3>1. PICK k \in DOMAIN csr.out[x] : csr.out[x][k].node = y
      BY <2>2 DEF Hop
    <3>2. <<x, csr.out[x][k].node, csr.out[x][k].weight>> \in EdgesOf(csr)
      BY <1>1 DEF EdgesOf
    <3> QED
      BY <3>1, <3>2
  <2>3. {a, b} = {b, a}
    OBVIOUS
  <2> QED
    BY <2>1, <2>2, <2>3 DEF Adjacent
<1> QED
  BY <1>1, <1>2, <1>3

(* What is in the list of a target is in the list of the source.           *)
LEMMA InIsOut ==
  ASSUME GraphInv, NEW b \in Vertices, NEW k \in DOMAIN csr.in[b] PROVE Hop(csr.in[b][k].node, b)
<1>1. PICK a, weight : a = csr.in[b][k].node /\ weight = csr.in[b][k].weight /\ a \in Vertices /\ weight \in Nat
  BY AdjacentIs
<1>2. csr.in[b][k] = [node |-> a, weight |-> weight]
  <2>1. csr.in[b] \in Seq(End(N))
    BY DEF GraphInv, Snapshot, Vertices
  <2>2. csr.in[b][k] \in End(N)
    BY <2>1
  <2> QED
    BY <1>1, <2>2 DEF End
<1>3. PICK inn, out : inn = csr.in[b] /\ out = csr.out[a]
  OBVIOUS
<1>4. Times(out, [node |-> b, weight |-> weight]) = Times(inn, [node |-> a, weight |-> weight])
  <2>1. BothWays(csr, a, b, weight)
    BY <1>1 DEF GraphInv, Snapshot, Vertices
  <2> QED
    BY <1>3, <2>1 DEF BothWays
<1>5. IsFiniteSet(DOMAIN inn) /\ IsFiniteSet(DOMAIN out)
  <2>1. inn \in Seq(End(N)) /\ out \in Seq(End(N))
    BY <1>1, <1>3 DEF GraphInv, Snapshot, Vertices
  <2>2. DOMAIN inn = 1..Len(inn) /\ DOMAIN out = 1..Len(out) /\ Len(inn) \in Nat /\ Len(out) \in Nat
    BY <2>1
  <2> QED
    BY <2>2, FS_Interval
<1> DEFINE I == {j \in DOMAIN inn : inn[j] = [node |-> a, weight |-> weight]}
           O == {j \in DOMAIN out : out[j] = [node |-> b, weight |-> weight]}
<1>6. IsFiniteSet(I) /\ IsFiniteSet(O) /\ k \in I
  BY <1>2, <1>3, <1>5, FS_Subset
<1>7. Cardinality(I) = Cardinality(O)
  BY <1>4 DEF Times
<1>8. O # {}
  <2> HIDE DEF I, O
  <2> QED
    BY <1>6, <1>7, FS_EmptySet
<1>9. PICK j \in DOMAIN out : out[j] = [node |-> b, weight |-> weight]
  BY <1>8
<1>10. out[j].node = b
  BY <1>9
<1> QED
  BY <1>1, <1>3, <1>10 DEF Hop

----------------------------------------------------------------------------
(* Communities.                                                            *)

(* A node and what it is given are on one side of every border that no     *)
(* edge crosses.                                                           *)
StaysInside(f) ==
  f \in [Vertices -> Vertices] /\ \A S \in SUBSET Vertices : Closed(csr, S) => \A i \in Vertices : i \in S <=> f[i] \in S

ComponentsInv ==
  /\ StaysInside(components.root)
  /\ components.edges \in Seq(Vertices \X Vertices)
  /\ \A k \in DOMAIN components.edges : Hop(components.edges[k][1], components.edges[k][2])
  /\ \A a, b \in Vertices : Hop(a, b) =>
       \/ components.root[a] = components.root[b]
       \/ \E k \in DOMAIN components.edges : components.edges[k] = <<a, b>>

CommunitiesInv ==
  /\ communities \in [label : [Vertices -> Vertices], rounds : Nat, nodes : Seq(Vertices), changed : BOOLEAN]
  /\ StaysInside(communities.label)

(* At first every node is by itself, and all edges are left.               *)
LEMMA CommunitiesStart == AlgorithmsInit => GraphInv /\ ComponentsInv /\ CommunitiesInv
<1> SUFFICES ASSUME AlgorithmsInit PROVE GraphInv /\ ComponentsInv /\ CommunitiesInv
  OBVIOUS
<1>1. GraphInv
  <2>1. PICK edges \in EdgeLists : csr = FromEdges(NodeIds, edges)
    BY DEF AlgorithmsInit
  <2>2. PICK n \in 1..Len(NodeIds) : Snapshot(csr, n)
    BY <2>1, SnapshotMade
  <2>3. N = n /\ Len(NodeIds) \in Nat
    <3>1. PICK S : NodeIds \in Seq(S)
      BY AlgorithmsAssumption
    <3> QED
      BY <2>2, <3>1 DEF Snapshot, N
  <2> QED
    BY <2>2, <2>3 DEF GraphInv
<1>2. NodeIndices(csr) = Vertices /\ N \in Nat \ {0}
  BY <1>1, AdjacentIs DEF GraphInv
<1>3. Numbered(csr) = [i \in Vertices |-> i]
  BY <1>2 DEF Numbered
<1>4. StaysInside([i \in Vertices |-> i])
  BY DEF StaysInside
<1>5. [i \in Vertices |-> i] \in Seq(Vertices)
  BY <1>2 DEF Vertices
<1>6. CommunitiesInv
  <2>1. communities = [label |-> [i \in Vertices |-> i], rounds |-> LabelRounds, nodes |-> [i \in Vertices |-> i], changed |-> FALSE]
    BY <1>3 DEF AlgorithmsInit
  <2>2. LabelRounds \in Nat
    BY AlgorithmsAssumption
  <2>3. [i \in Vertices |-> i] \in [Vertices -> Vertices]
    OBVIOUS
  <2> QED
    BY <1>4, <1>5, <2>1, <2>2, <2>3 DEF CommunitiesInv
<1>7. ComponentsInv
  <2> DEFINE Part(i) == [k \in DOMAIN csr.out[i] |-> <<i, csr.out[i][k].node>>]
             seqs == [i \in Vertices |-> Part(i)]
  <2>1. ASSUME NEW i \in Vertices PROVE Part(i) \in Seq(Vertices \X Vertices) /\ DOMAIN Part(i) = DOMAIN csr.out[i]
    <3>1. PICK len \in Nat : DOMAIN csr.out[i] = 1..len
      <4>1. csr.out[i] \in Seq(End(N))
        BY <1>1 DEF GraphInv, Snapshot, Vertices
      <4> QED
        BY <4>1
    <3>2. \A k \in 1..len : <<i, csr.out[i][k].node>> \in Vertices \X Vertices
      BY <1>1, <3>1, AdjacentIs
    <3>3. Part(i) \in [1..len -> Vertices \X Vertices]
      BY <3>1, <3>2
    <3> QED
      BY <3>1, <3>3
  <2>2. seqs \in Seq(Seq(Vertices \X Vertices)) /\ DOMAIN seqs = Vertices /\ \A i \in Vertices : seqs[i] = Part(i)
    <3>1. \A i \in 1..N : Part(i) \in Seq(Vertices \X Vertices)
      BY <2>1 DEF Vertices
    <3> HIDE DEF Part
    <3>2. seqs \in [1..N -> Seq(Vertices \X Vertices)]
      BY <3>1 DEF Vertices
    <3>3. [1..N -> Seq(Vertices \X Vertices)] \subseteq Seq(Seq(Vertices \X Vertices))
      BY <1>2
    <3> QED
      BY <3>2, <3>3 DEF Vertices
  <2>3. ASSUME NEW i \in Vertices
        PROVE  DOMAIN seqs[i] = DOMAIN csr.out[i] /\ \A k \in DOMAIN csr.out[i] : seqs[i][k] = <<i, csr.out[i][k].node>>
    <3>1. seqs[i] = Part(i)
      BY <2>2
    <3> QED
      BY <3>1
  <2>4. PICK left : left = FlattenSeq(seqs)
    OBVIOUS
  <2>5. components.edges = left /\ components.root = [i \in Vertices |-> i]
    <3>1. EdgesInOrder(csr) = left
      BY <1>2, <2>4 DEF EdgesInOrder
    <3> QED
      BY <1>3, <3>1 DEF AlgorithmsInit
  <2> HIDE DEF seqs, Part
  <2>6. left \in Seq(Vertices \X Vertices) /\ \A m \in Range(left) : \E i \in DOMAIN seqs : m \in Range(seqs[i])
    BY <2>2, <2>4, FlattenedElements
  <2>7. ASSUME NEW k \in DOMAIN left PROVE Hop(left[k][1], left[k][2])
    <3>1. left[k] \in Range(left)
      BY DEF Range
    <3>2. PICK i \in Vertices : left[k] \in Range(seqs[i])
      BY <2>2, <2>6, <3>1
    <3>3. PICK j \in DOMAIN csr.out[i] : left[k] = <<i, csr.out[i][j].node>>
      BY <2>3, <3>2 DEF Range
    <3> QED
      BY <3>3 DEF Hop
  <2>8. ASSUME NEW a \in Vertices, NEW b \in Vertices, Hop(a, b) PROVE \E k \in DOMAIN left : left[k] = <<a, b>>
    <3>1. PICK j \in DOMAIN csr.out[a] : csr.out[a][j].node = b
      BY <2>8 DEF Hop
    <3>2. PICK m : m = <<a, b>> /\ m \in Range(seqs[a])
      <4>1. j \in DOMAIN seqs[a] /\ seqs[a][j] = <<a, b>>
        BY <2>3, <3>1
      <4> QED
        BY <4>1 DEF Range
    <3>3. a \in DOMAIN seqs
      BY <2>2
    <3>4. m \in Range(left)
      BY <2>2, <2>4, <3>2, <3>3, FlattenedHolds
    <3> QED
      BY <3>2, <3>4 DEF Range
  <2> QED
    BY <1>4, <2>5, <2>6, <2>7, <2>8 DEF ComponentsInv
<1> QED
  BY <1>1, <1>6, <1>7

(* The snapshot stays, and with it what its edges connect.                 *)
LEMMA SnapshotStays ==
  ASSUME GraphInv, UNCHANGED csr
  PROVE  /\ GraphInv' /\ Vertices' = Vertices
         /\ \A a, b : Hop(a, b)' <=> Hop(a, b)
         /\ \A f : StaysInside(f)' <=> StaysInside(f)
<1>1. N' = N /\ Vertices' = Vertices
  BY DEF N, Vertices
<1>2. \A S : Closed(csr, S)' <=> Closed(csr, S)
  OBVIOUS
<1>3. \A f : StaysInside(f)' <=> StaysInside(f)
  BY <1>1, <1>2 DEF StaysInside
<1>4. GraphInv'
  BY <1>1 DEF GraphInv
<1> QED
  BY <1>1, <1>3, <1>4 DEF Hop

(* Roots of the ends of an edge can be given to each other's nodes.        *)
LEMMA UnionKeeps ==
  ASSUME GraphInv, ComponentsInv, UnionEdge
  PROVE  ComponentsInv'
<1>0. components.edges # <<>> /\ csr' = csr
  <2>1. components.edges # <<>>
    BY Zenon DEF UnionEdge
  <2>2. UNCHANGED <<csr, task, goal, search, communities>>
    BY Zenon DEF UnionEdge
  <2> QED
    BY <2>1, <2>2
<1> DEFINE edge == Head(components.edges)
           ri == components.root[edge[1]]
           rj == components.root[edge[2]]
           lower == components.rank[ri] < components.rank[rj]
           top == IF lower THEN rj ELSE ri
           below == IF lower THEN ri ELSE rj
<1>1. PICK x, y : /\ x \in Vertices /\ y \in Vertices /\ edge = <<x, y>> /\ Hop(x, y)
  <2>1. 1 \in DOMAIN components.edges /\ edge = components.edges[1] /\ edge \in Vertices \X Vertices
    BY <1>0 DEF ComponentsInv
  <2> QED
    BY <2>1 DEF ComponentsInv
<1>2. PICK root : root = components.root /\ StaysInside(root)
  BY DEF ComponentsInv
<1>3. /\ ri = root[x] /\ rj = root[y] /\ ri \in Vertices /\ rj \in Vertices
      /\ {top, below} = {ri, rj}
  BY <1>1, <1>2 DEF StaysInside
<1>4. PICK t, u : t = top /\ u = below
  OBVIOUS
<1>5. components'.edges = Tail(components.edges) /\ components'.root = [i \in Vertices |-> IF root[i] = u THEN t ELSE root[i]]
  <2>1. NodeIndices(csr) = Vertices
    BY AdjacentIs
  <2>2. PICK rank : components' = [
                      root |-> [i \in NodeIndices(csr) |-> IF components.root[i] = below THEN top ELSE components.root[i]],
                      rank |-> rank, edges |-> Tail(components.edges)]
    BY Zenon DEF UnionEdge
  <2> HIDE DEF top, below, lower
  <2>3. components'.root = [i \in NodeIndices(csr) |-> IF components.root[i] = below THEN top ELSE components.root[i]]
    BY <2>2
  <2>4. components'.edges = Tail(components.edges)
    BY <2>2
  <2> QED
    BY <1>2, <1>4, <2>1, <2>3, <2>4
<1> HIDE DEF top, below, lower
<1>6. t \in Vertices /\ u \in Vertices /\ ((t = root[x] /\ u = root[y]) \/ (t = root[y] /\ u = root[x]))
  BY <1>3, <1>4
<1>7. PICK merged : merged = components'.root
  OBVIOUS
<1>8. merged \in [Vertices -> Vertices] /\ \A i \in Vertices : merged[i] = IF root[i] = u THEN t ELSE root[i]
  BY <1>2, <1>5, <1>6, <1>7 DEF StaysInside
<1>9. StaysInside(merged)
  <2>1. ASSUME NEW S \in SUBSET Vertices, Closed(csr, S), NEW i \in Vertices PROVE i \in S <=> merged[i] \in S
    <3>1. x \in S <=> y \in S
      <4>1. Adjacent(csr, x, y) /\ Adjacent(csr, y, x) /\ NodeIndices(csr) = Vertices
        BY <1>1, AdjacentIs
      <4> QED
        BY <1>1, <2>1, <4>1 DEF Closed
    <3>2. \A k \in Vertices : k \in S <=> root[k] \in S
      BY <1>2, <2>1 DEF StaysInside
    <3>3. t \in S <=> u \in S
      BY <1>1, <1>6, <3>1, <3>2
    <3> QED
      BY <1>8, <3>2, <3>3
  <2> QED
    BY <1>8, <2>1 DEF StaysInside
<1>10. PICK left \in Seq(Vertices \X Vertices) : left = components.edges /\ left # <<>>
  BY <1>0 DEF ComponentsInv
<1>11. /\ Tail(left) \in Seq(Vertices \X Vertices) /\ DOMAIN Tail(left) = 1..(Len(left) - 1)
       /\ \A k \in 1..(Len(left) - 1) : Tail(left)[k] = left[k + 1] /\ k + 1 \in DOMAIN left
       /\ left[1] = <<x, y>>
       /\ \A k \in DOMAIN left : k = 1 \/ (k - 1 \in 1..(Len(left) - 1) /\ Tail(left)[k - 1] = left[k])
  <2>1. PICK len \in Nat \ {0} : len = Len(left) /\ DOMAIN left = 1..len
    BY <1>10
  <2>2. Tail(left) \in Seq(Vertices \X Vertices) /\ Len(Tail(left)) = len - 1
    BY <1>10, <2>1
  <2>3. \A k \in 1..(len - 1) : Tail(left)[k] = left[k + 1]
    BY <1>10, <2>1
  <2>4. left[1] = <<x, y>>
    <3>1. Head(left) = left[1]
      BY <1>10
    <3> QED
      BY <1>1, <1>10, <3>1
  <2>5. DOMAIN Tail(left) = 1..(len - 1)
    BY <2>2
  <2>6. ASSUME NEW k \in 1..len, k # 1 PROVE k - 1 \in 1..(len - 1) /\ Tail(left)[k - 1] = left[k]
    <3>1. k - 1 \in 1..(len - 1) /\ (k - 1) + 1 = k
      BY <2>6
    <3> QED
      BY <2>3, <3>1
  <2>7. \A k \in 1..(len - 1) : k + 1 \in 1..len
    OBVIOUS
  <2> QED
    BY <2>1, <2>2, <2>3, <2>4, <2>5, <2>6, <2>7
<1>12. \A k \in DOMAIN Tail(left) : Hop(Tail(left)[k][1], Tail(left)[k][2])
  BY <1>10, <1>11 DEF ComponentsInv
<1>13. ASSUME NEW a \in Vertices, NEW b \in Vertices, Hop(a, b)
       PROVE  merged[a] = merged[b] \/ \E k \in DOMAIN Tail(left) : Tail(left)[k] = <<a, b>>
  <2>1. CASE root[a] = root[b]
    BY <1>8, <2>1
  <2>2. CASE \E k \in DOMAIN left : left[k] = <<a, b>>
    <3>1. PICK k \in DOMAIN left : left[k] = <<a, b>>
      BY <2>2
    <3>2. CASE k = 1
      <4>1. a = x /\ b = y
        BY <1>11, <3>1, <3>2
      <4> QED
        BY <1>6, <1>8, <4>1
    <3>3. CASE k # 1
      <4>1. k - 1 \in DOMAIN Tail(left) /\ Tail(left)[k - 1] = <<a, b>>
        BY <1>11, <3>1, <3>3
      <4> QED
        BY <4>1
    <3> QED
      BY <3>2, <3>3
  <2> QED
    BY <1>2, <1>10, <1>13, <2>1, <2>2 DEF ComponentsInv
<1>14. /\ Vertices' = Vertices /\ StaysInside(merged)'
       /\ \A a, b : Hop(a, b)' <=> Hop(a, b)
  BY <1>0, <1>9, SnapshotStays
<1>15. components'.root = merged /\ components'.edges = Tail(left)
  BY <1>5, <1>7, <1>10
<1>16. PICK rest : rest = Tail(left)
  OBVIOUS
<1> HIDE DEF edge, ri, rj
<1>17. StaysInside(components.root)'
  BY <1>14, <1>15 DEF StaysInside
<1>18. (components.edges \in Seq(Vertices \X Vertices))'
  BY <1>11, <1>14, <1>15
<1>19. (\A k \in DOMAIN components.edges : Hop(components.edges[k][1], components.edges[k][2]))'
  <2>1. \A k \in DOMAIN rest : Hop(rest[k][1], rest[k][2])'
    BY <1>12, <1>14, <1>16
  <2> QED
    BY <1>15, <1>16, <2>1
<1>20. (\A a, b \in Vertices : Hop(a, b) =>
          components.root[a] = components.root[b] \/ \E k \in DOMAIN components.edges : components.edges[k] = <<a, b>>)'
  <2>1. \A a, b \in Vertices : Hop(a, b)' => merged[a] = merged[b] \/ \E k \in DOMAIN rest : rest[k] = <<a, b>>
    BY <1>13, <1>14, <1>16
  <2> QED
    <3>1. ASSUME NEW a \in Vertices, NEW b \in Vertices, Hop(a, b)'
          PROVE  (components.root[a] = components.root[b] \/ \E k \in DOMAIN components.edges : components.edges[k] = <<a, b>>)'
      <4>1. (components.root)' = merged /\ (components.edges)' = rest
        BY <1>15, <1>16
      <4> QED
        BY <2>1, <3>1, <4>1
    <3> QED
      BY <1>14, <3>1
<1> QED
  BY <1>17, <1>18, <1>19, <1>20 DEF ComponentsInv

(* Of numbered candidates, one has the most votes and of these the least   *)
(* number.                                                                 *)
LEMMA MostThenLeast ==
  ASSUME NEW n \in Nat, NEW S, S \subseteq 1..n, S # {}, NEW v \in [S -> Nat]
  PROVE  \E l \in S : \A other \in S : v[l] > v[other] \/ (v[l] = v[other] /\ l <= other)
<1> DEFINE R == {p \in S \X S : v[p[1]] > v[p[2]] \/ (v[p[1]] = v[p[2]] /\ p[1] < p[2])}
<1>1. \A x, y \in S : <<x, y>> \in R <=> v[x] > v[y] \/ (v[x] = v[y] /\ x < y)
  OBVIOUS
<1>2. \A x \in S : x \in Nat /\ v[x] \in Nat
  OBVIOUS
<1> HIDE DEF R
<1>3. StrictOrder(R, S)
  <2>1. ASSUME NEW x \in S PROVE <<x, x>> \notin R
    BY <1>1, <1>2
  <2>2. ASSUME NEW x \in S, NEW y \in S, x # y PROVE <<x, y>> \in R \/ <<y, x>> \in R
    <3>1. x \in Nat /\ y \in Nat /\ v[x] \in Nat /\ v[y] \in Nat
      BY <1>2
    <3>2. (v[x] > v[y] \/ (v[x] = v[y] /\ x < y)) \/ (v[y] > v[x] \/ (v[y] = v[x] /\ y < x))
      BY <2>2, <3>1
    <3> QED
      BY <1>1, <3>2
  <2>3. ASSUME NEW x \in S, NEW y \in S, NEW z \in S, <<x, y>> \in R, <<y, z>> \in R PROVE <<x, z>> \in R
    <3>1. /\ x \in Nat /\ y \in Nat /\ z \in Nat /\ v[x] \in Nat /\ v[y] \in Nat /\ v[z] \in Nat
          /\ v[x] > v[y] \/ (v[x] = v[y] /\ x < y)
          /\ v[y] > v[z] \/ (v[y] = v[z] /\ y < z)
      BY <1>1, <1>2, <2>3
    <3>2. v[x] > v[z] \/ (v[x] = v[z] /\ x < z)
      BY <3>1
    <3> QED
      BY <1>1, <3>2
  <2> QED
    BY <2>1, <2>2, <2>3 DEF StrictOrder
<1>4. IsFiniteSet(S)
  <2>1. IsFiniteSet(1..n)
    BY FS_Interval
  <2> QED
    BY <2>1, FS_Subset
<1>5. PICK x \in S : \A y \in S : y = x \/ <<x, y>> \in R
  BY <1>3, <1>4, FirstPlace
<1>6. ASSUME NEW y \in S PROVE v[x] > v[y] \/ (v[x] = v[y] /\ x <= y)
  <2>1. y = x \/ v[x] > v[y] \/ (v[x] = v[y] /\ x < y)
    BY <1>1, <1>5
  <2> QED
    BY <1>2, <2>1
<1> QED
  BY <1>6

(* A node takes its own label or that of a node next to it.                *)
LEMMA LabelOfNeighbour ==
  ASSUME GraphInv, CommunitiesInv, NEW i \in Vertices
  PROVE  \E j \in Vertices : (j = i \/ Adjacent(csr, i, j)) /\ HeaviestLabel(i) = communities.label[j]
<1>1. PICK label : label = communities.label /\ label \in [Vertices -> Vertices]
  BY DEF CommunitiesInv
<1>2. PICK out, inn : out = csr.out[i] /\ inn = csr.in[i] /\ out \in Seq(End(N)) /\ inn \in Seq(End(N))
  BY DEF GraphInv, Snapshot, Vertices
<1>3. PICK votes : votes = out \o inn
  OBVIOUS
<1>4. votes \in Seq(End(N)) /\ \A k \in DOMAIN votes : (\E j \in DOMAIN out : votes[k] = out[j]) \/ (\E j \in DOMAIN inn : votes[k] = inn[j])
  <2>1. /\ votes \in Seq(End(N)) /\ Len(votes) = Len(out) + Len(inn) /\ Len(out) \in Nat /\ Len(inn) \in Nat
        /\ DOMAIN out = 1..Len(out) /\ DOMAIN inn = 1..Len(inn) /\ DOMAIN votes = 1..Len(votes)
    BY <1>2, <1>3
  <2>2. \A k \in 1..(Len(out) + Len(inn)) : votes[k] = IF k <= Len(out) THEN out[k] ELSE inn[k - Len(out)]
    BY <1>2, <1>3
  <2>3. ASSUME NEW k \in 1..(Len(out) + Len(inn))
        PROVE  k \in 1..Len(out) \/ (k > Len(out) /\ k - Len(out) \in 1..Len(inn))
    BY <2>1
  <2>4. ASSUME NEW k \in DOMAIN votes PROVE (\E j \in DOMAIN out : votes[k] = out[j]) \/ (\E j \in DOMAIN inn : votes[k] = inn[j])
    <3>1. k \in 1..(Len(out) + Len(inn))
      BY <2>1
    <3>2. CASE k \in 1..Len(out)
      BY <2>1, <2>2, <3>1, <3>2
    <3>3. CASE k > Len(out) /\ k - Len(out) \in 1..Len(inn)
      <4>1. votes[k] = inn[k - Len(out)]
        BY <2>1, <2>2, <3>1, <3>3
      <4> QED
        BY <2>1, <3>3, <4>1
    <3> QED
      BY <2>3, <3>1, <3>2, <3>3
  <2> QED
    BY <2>1, <2>4
<1>5. ASSUME NEW k \in DOMAIN votes PROVE votes[k].node \in Vertices /\ votes[k].weight \in Nat /\ Adjacent(csr, i, votes[k].node)
  <2>1. CASE \E j \in DOMAIN out : votes[k] = out[j]
    <3>1. PICK j \in DOMAIN out : votes[k] = out[j]
      BY <2>1
    <3>2. Hop(i, votes[k].node)
      BY <1>2, <3>1 DEF Hop
    <3> QED
      BY <1>2, <3>1, <3>2, AdjacentIs
  <2>2. CASE \E j \in DOMAIN inn : votes[k] = inn[j]
    <3>1. PICK j \in DOMAIN inn : votes[k] = inn[j]
      BY <2>2
    <3>2. Hop(votes[k].node, i)
      BY <1>2, <3>1, InIsOut
    <3> QED
      BY <1>2, <3>1, <3>2, AdjacentIs
  <2> QED
    BY <1>4, <2>1, <2>2
<1>6. PICK labels : labels = {label[e.node] : e \in Range(votes)}
  OBVIOUS
<1>7. /\ labels \subseteq Vertices
      /\ \A l \in labels : \E j \in Vertices : Adjacent(csr, i, j) /\ l = label[j]
  <2>1. ASSUME NEW l \in labels PROVE \E j \in Vertices : Adjacent(csr, i, j) /\ l = label[j]
    <3>1. PICK k \in DOMAIN votes : l = label[votes[k].node]
      BY <1>6 DEF Range
    <3> QED
      BY <1>5, <3>1
  <2> QED
    BY <1>1, <2>1
<1>8. CASE votes = <<>>
  <2>1. HeaviestLabel(i) = label[i]
    BY <1>1, <1>2, <1>3, <1>8 DEF HeaviestLabel
  <2> QED
    BY <1>1, <2>1
<1>9. CASE votes # <<>>
  <2>1. labels # {}
    <3>1. 1 \in DOMAIN votes
      BY <1>4, <1>9
    <3>2. votes[1] \in Range(votes)
      BY <3>1 DEF Range
    <3> QED
      BY <1>6, <3>2
  <2>2. PICK v : v = [l \in labels |-> VotesFor(votes, l)]
    OBVIOUS
  <2>3. v \in [labels -> Nat]
    <3>1. ASSUME NEW l \in labels PROVE VotesFor(votes, l) \in Nat
      <4>1. PICK f : f = [k \in DOMAIN votes |-> IF label[votes[k].node] = l THEN votes[k].weight ELSE 0]
        OBVIOUS
      <4>2. f \in [DOMAIN votes -> Nat]
        BY <1>5, <4>1
      <4>3. IsFiniteSet(DOMAIN votes)
        BY <1>4, FS_Interval
      <4>4. SumFunction(f) \in Nat
        BY <4>2, <4>3, SumIsNumber
      <4>5. VotesFor(votes, l) = SumFunction(f)
        BY <1>1, <4>1 DEF VotesFor
      <4> QED
        BY <4>4, <4>5
    <3> QED
      BY <2>2, <3>1
  <2>4. \E l \in labels : \A other \in labels : v[l] > v[other] \/ (v[l] = v[other] /\ l <= other)
    <3>1. labels \subseteq 1..N /\ N \in Nat
      BY <1>7 DEF GraphInv, Vertices
    <3> QED
      BY <2>1, <2>3, <3>1, MostThenLeast
  <2>5. HeaviestLabel(i) = CHOOSE l \in labels : \A other \in labels :
            \/ VotesFor(votes, l) > VotesFor(votes, other)
            \/ VotesFor(votes, l) = VotesFor(votes, other) /\ l <= other
    BY <1>1, <1>2, <1>3, <1>6, <1>9 DEF HeaviestLabel
  <2>6. HeaviestLabel(i) \in labels
    BY <2>2, <2>4, <2>5
  <2> QED
    BY <1>1, <1>7, <2>6
<1> QED
  BY <1>8, <1>9

(* A label that is adopted stays on its side of every border.              *)
LEMMA AdoptKeeps ==
  ASSUME GraphInv, CommunitiesInv, AdoptLabel
  PROVE  CommunitiesInv'
<1>1. PICK label, rounds, nodes, changed :
        /\ communities = [label |-> label, rounds |-> rounds, nodes |-> nodes, changed |-> changed]
        /\ label \in [Vertices -> Vertices] /\ rounds \in Nat /\ nodes \in Seq(Vertices) /\ changed \in BOOLEAN
  BY Zenon DEF CommunitiesInv
<1>2. communities.label = label /\ communities.nodes = nodes /\ nodes # <<>>
  <2>1. communities.nodes # <<>>
    BY Zenon DEF AdoptLabel
  <2> QED
    BY <1>1, <2>1
<1>3. PICK i \in Vertices : i = Head(nodes)
  BY <1>1, <1>2
<1>4. PICK best \in Vertices : /\ best = HeaviestLabel(i)
                            /\ \E j \in Vertices : (j = i \/ Adjacent(csr, i, j)) /\ best = label[j]
  <2>1. \E j \in Vertices : (j = i \/ Adjacent(csr, i, j)) /\ HeaviestLabel(i) = label[j]
    BY <1>2, LabelOfNeighbour
  <2> QED
    BY <1>1, <2>1
<1>5. PICK e \in BOOLEAN : communities' = [communities EXCEPT !.label[i] = best, !.nodes = Tail(@), !.changed = e]
  <2>1. PICK e : /\ e = (communities.changed \/ HeaviestLabel(Head(communities.nodes)) # communities.label[Head(communities.nodes)])
                 /\ communities' = [communities EXCEPT !.label[Head(communities.nodes)] = HeaviestLabel(Head(communities.nodes)),
                                                       !.nodes = Tail(@), !.changed = e]
    BY Zenon DEF AdoptLabel
  <2>2. e \in BOOLEAN
    BY <2>1
  <2>3. Head(communities.nodes) = i /\ HeaviestLabel(i) = best
    BY <1>2, <1>3, <1>4
  <2>4. communities' = [communities EXCEPT !.label[i] = best, !.nodes = Tail(@), !.changed = e]
    BY Zenon, <2>1, <2>3
  <2> QED
    BY Zenon, <2>2, <2>4
<1>6. PICK adopted : adopted = [label EXCEPT ![i] = best]
  OBVIOUS
<1>7. communities' = [label |-> adopted, rounds |-> rounds, nodes |-> Tail(nodes), changed |-> e]
  BY <1>1, <1>5, <1>6
<1>8. csr' = csr
  BY Zenon DEF AdoptLabel
<1>9. StaysInside(adopted)
  <2>1. adopted \in [Vertices -> Vertices] /\ \A k \in Vertices : adopted[k] = IF k = i THEN best ELSE label[k]
    BY <1>1, <1>6
  <2>2. ASSUME NEW S \in SUBSET Vertices, Closed(csr, S), NEW k \in Vertices PROVE k \in S <=> adopted[k] \in S
    <3>1. \A j \in Vertices : j \in S <=> label[j] \in S
      BY <1>2, <2>2 DEF CommunitiesInv, StaysInside
    <3>2. PICK j \in Vertices : (j = i \/ Adjacent(csr, i, j)) /\ best = label[j]
      BY <1>4
    <3>3. j \in S <=> i \in S
      <4>1. NodeIndices(csr) = Vertices
        BY AdjacentIs
      <4>2. Adjacent(csr, i, j) => Adjacent(csr, j, i)
        BY AdjacentIs
      <4> QED
        BY <2>2, <3>2, <4>1, <4>2 DEF Closed
    <3> QED
      BY <2>1, <3>1, <3>2, <3>3
  <2> QED
    BY <2>1, <2>2 DEF StaysInside
<1>10. Vertices' = Vertices /\ StaysInside(adopted)'
  BY <1>8, <1>9, SnapshotStays
<1>11. Tail(nodes) \in Seq(Vertices)
  BY <1>1, <1>2
<1>12. (communities.label)' = adopted
  BY <1>7
<1>13. StaysInside(communities.label)'
  BY <1>10, <1>12 DEF StaysInside
<1>14. adopted \in [Vertices -> Vertices]
  BY <1>9 DEF StaysInside
<1>15. communities' \in [label : [Vertices -> Vertices], rounds : Nat, nodes : Seq(Vertices), changed : BOOLEAN]
  BY <1>1, <1>7, <1>11, <1>14
<1> QED
  BY <1>10, <1>13, <1>15 DEF CommunitiesInv

(* So does every step.                                                     *)
LEMMA CommunitiesStep ==
  GraphInv /\ ComponentsInv /\ CommunitiesInv /\ [AlgorithmsNext]_algorithmVars
    => (GraphInv /\ ComponentsInv /\ CommunitiesInv)'
<1> SUFFICES ASSUME GraphInv, ComponentsInv, CommunitiesInv, [AlgorithmsNext]_algorithmVars
             PROVE  (GraphInv /\ ComponentsInv /\ CommunitiesInv)'
  OBVIOUS
<1>1. csr' = csr
  BY Zenon DEF AlgorithmsNext, VisitNearest, HeapEmpty, UnionEdge, AdoptLabel, EndRound, algorithmVars
<1>2. GraphInv' /\ Vertices' = Vertices
  BY <1>1, SnapshotStays
<1>3. StaysInside(communities.label)' \/ communities'.label # communities.label
  <2>1. PICK label : label = communities.label
    OBVIOUS
  <2>2. StaysInside(label)
    BY <2>1 DEF CommunitiesInv
  <2>3. StaysInside(label)'
    BY <1>1, <2>2, SnapshotStays
  <2> QED
    BY <2>1, <2>3 DEF StaysInside
<1>4. UNCHANGED communities => CommunitiesInv'
  BY <1>2, <1>3 DEF CommunitiesInv
<1>5. UNCHANGED components => ComponentsInv'
  <2> SUFFICES ASSUME UNCHANGED components PROVE ComponentsInv'
    OBVIOUS
  <2>1. PICK root, left : root = components.root /\ left = components.edges
    OBVIOUS
  <2>2. StaysInside(root)
    BY <2>1 DEF ComponentsInv
  <2>3. StaysInside(root)' /\ \A a, b : Hop(a, b)' <=> Hop(a, b)
    BY <1>1, <2>2, SnapshotStays
  <2>4. (components.root)' = root /\ (components.edges)' = left
    BY <2>1
  <2>5. StaysInside(components.root)'
    BY <2>3, <2>4 DEF StaysInside
  <2>6. \A k \in DOMAIN left : Hop(left[k][1], left[k][2])'
    BY <2>1, <2>3 DEF ComponentsInv
  <2>7. (\A k \in DOMAIN components.edges : Hop(components.edges[k][1], components.edges[k][2]))'
    BY <2>4, <2>6
  <2>8. (\A a, b \in Vertices : Hop(a, b) =>
           components.root[a] = components.root[b] \/ \E k \in DOMAIN components.edges : components.edges[k] = <<a, b>>)'
    <3>1. \A a, b \in Vertices : Hop(a, b)' => root[a] = root[b] \/ \E k \in DOMAIN left : left[k] = <<a, b>>
      BY <2>1, <2>3 DEF ComponentsInv
    <3>2. ASSUME NEW a \in Vertices, NEW b \in Vertices, Hop(a, b)'
          PROVE  (components.root[a] = components.root[b] \/ \E k \in DOMAIN components.edges : components.edges[k] = <<a, b>>)'
      BY <2>4, <3>1, <3>2
    <3> QED
      BY <1>2, <3>2
  <2>9. (components.edges \in Seq(Vertices \X Vertices))'
    BY <1>2 DEF ComponentsInv
  <2> QED
    BY <2>5, <2>7, <2>8, <2>9 DEF ComponentsInv
<1>6. CASE VisitNearest \/ HeapEmpty
  <2>1. UNCHANGED components /\ UNCHANGED communities
    BY Zenon, <1>6 DEF VisitNearest, HeapEmpty
  <2> QED
    BY <1>2, <1>4, <1>5, <2>1
<1>7. CASE UnionEdge
  <2>1. UNCHANGED communities
    BY Zenon, <1>7 DEF UnionEdge
  <2> QED
    BY <1>2, <1>4, <1>7, <2>1, UnionKeeps
<1>8. CASE AdoptLabel
  <2>1. UNCHANGED components
    BY Zenon, <1>8 DEF AdoptLabel
  <2> QED
    BY <1>2, <1>5, <1>8, <2>1, AdoptKeeps
<1>9. CASE EndRound
  <2>1. UNCHANGED components
    BY Zenon, <1>9 DEF EndRound
  <2>2. PICK label, rounds, nodes, changed :
          /\ communities = [label |-> label, rounds |-> rounds, nodes |-> nodes, changed |-> changed]
          /\ label \in [Vertices -> Vertices] /\ rounds \in Nat /\ nodes \in Seq(Vertices) /\ changed \in BOOLEAN
    BY Zenon DEF CommunitiesInv
  <2>3. rounds > 0
    <3>1. communities.rounds > 0
      BY Zenon, <1>9 DEF EndRound
    <3> QED
      BY <2>2, <3>1
  <2>4. PICK r \in Nat : communities' = [communities EXCEPT !.rounds = r, !.nodes = Numbered(csr), !.changed = FALSE]
    <3>1. PICK r : /\ r = IF communities.changed THEN communities.rounds - 1 ELSE 0
                   /\ communities' = [communities EXCEPT !.rounds = r, !.nodes = Numbered(csr), !.changed = FALSE]
      BY Zenon, <1>9 DEF EndRound
    <3>2. r = communities.rounds - 1 \/ r = 0
      BY <3>1
    <3>3. communities.rounds = rounds
      BY <2>2
    <3>4. r \in Nat
      BY <2>2, <2>3, <3>2, <3>3
    <3>5. communities' = [communities EXCEPT !.rounds = r, !.nodes = Numbered(csr), !.changed = FALSE]
      BY Zenon, <3>1
    <3> QED
      BY Zenon, <3>4, <3>5
  <2>5. PICK all : all = Numbered(csr) /\ all \in Seq(Vertices)
    <3>1. Numbered(csr) = [i \in Vertices |-> i]
      BY AdjacentIs DEF Numbered
    <3>2. [i \in 1..N |-> i] \in Seq(1..N)
      BY DEF GraphInv
    <3> QED
      BY <3>1, <3>2 DEF Vertices
  <2>6. communities' = [label |-> label, rounds |-> r, nodes |-> all, changed |-> FALSE]
    BY <2>2, <2>4, <2>5
  <2>7. communities'.label = communities.label
    BY <2>2, <2>6
  <2>8. communities' \in [label : [Vertices -> Vertices], rounds : Nat, nodes : Seq(Vertices), changed : BOOLEAN]
    BY <2>2, <2>5, <2>6
  <2>9. CommunitiesInv'
    BY <1>2, <1>3, <2>7, <2>8 DEF CommunitiesInv
  <2> QED
    BY <1>2, <1>5, <2>1, <2>9
<1>10. CASE UNCHANGED algorithmVars
  <2>1. UNCHANGED components /\ UNCHANGED communities
    BY <1>10 DEF algorithmVars
  <2> QED
    BY <1>2, <1>4, <1>5, <2>1
<1> QED
  BY <1>6, <1>7, <1>8, <1>9, <1>10 DEF AlgorithmsNext

(* They hold throughout.                                                   *)
LEMMA AlgorithmsInvariant == AlgorithmsSpec => [](GraphInv /\ ComponentsInv /\ CommunitiesInv)
<1>1. AlgorithmsInit => GraphInv /\ ComponentsInv /\ CommunitiesInv
  BY CommunitiesStart
<1>2. GraphInv /\ ComponentsInv /\ CommunitiesInv /\ [AlgorithmsNext]_algorithmVars
        => (GraphInv /\ ComponentsInv /\ CommunitiesInv)'
  BY CommunitiesStep
<1> QED
  BY <1>1, <1>2, PTL DEF AlgorithmsSpec

(* The snapshot numbers each node once, has no edges of unknown nodes, and *)
(* holds every edge as often in the list of its target as in that of its   *)
(* source.                                                                 *)
THEOREM SnapshotsComplete == AlgorithmsSpec => []SnapshotComplete
<1>1. ASSUME GraphInv PROVE SnapshotComplete
  <2>1. IsInjective(csr.nodes) /\ NodeIndices(csr) = Vertices
    BY <1>1 DEF GraphInv, Snapshot, IsInjective, Vertices, NodeIndices
  <2>2. ASSUME NEW a \in Vertices, NEW b \in Vertices, NEW weight
        PROVE  Times(csr.out[a], [node |-> b, weight |-> weight]) = Times(csr.in[b], [node |-> a, weight |-> weight])
    BY <1>1, <2>2 DEF GraphInv, Snapshot, BothWays, Vertices
  <2>3. ASSUME NEW a \in Vertices, NEW e \in Range(csr.out[a] \o csr.in[a]) PROVE e.node \in Vertices
    <3>1. PICK outs \in Seq(End(N)), ins \in Seq(End(N)) : outs = csr.out[a] /\ ins = csr.in[a]
      BY <1>1 DEF GraphInv, Snapshot, Vertices
    <3>2. outs \o ins \in Seq(End(N))
      OBVIOUS
    <3>3. PICK ends \in Seq(End(N)) : ends = csr.out[a] \o csr.in[a]
      BY <3>1, <3>2
    <3>4. PICK k \in DOMAIN ends : e = ends[k]
      BY Zenon, <2>3, <3>3 DEF Range
    <3>5. e \in End(N)
      BY <3>4
    <3> QED
      BY <3>5 DEF End, Vertices
  <2> QED
    BY <2>1, <2>2, <2>3 DEF SnapshotComplete
<1> QED
  BY <1>1, AlgorithmsInvariant, PTL

(* When all edges are seen, the nodes of one root are a component; the     *)
(* nodes of one label never are of two.                                    *)
THEOREM CommunitiesOfOneComponent == AlgorithmsSpec => []CommunitiesSound
<1>1. ASSUME GraphInv, ComponentsInv, CommunitiesInv PROVE CommunitiesSound
  <2>1. NodeIndices(csr) = Vertices
    BY <1>1, AdjacentIs
  <2>2. ASSUME NEW f, StaysInside(f), NEW a \in Vertices, NEW b \in Vertices, f[b] = f[a] PROVE b \in ComponentOf(csr, a)
    <3>1. \A S \in SUBSET Vertices : Closed(csr, S) /\ a \in S => b \in S
      BY <2>2 DEF StaysInside
    <3> QED
      BY <2>1, <3>1 DEF ComponentOf
  <2>3. ASSUME NEW a \in Vertices, NEW b \in ComponentOf(csr, a), components.edges = <<>>
        PROVE  components.root[b] = components.root[a]
    <3>1. PICK S \in SUBSET Vertices : S = {c \in Vertices : components.root[c] = components.root[a]}
      OBVIOUS
    <3>2. ASSUME NEW x \in Vertices, NEW y \in Vertices, Hop(x, y) PROVE components.root[x] = components.root[y]
      BY <1>1, <2>3, <3>2 DEF ComponentsInv
    <3>3. Closed(csr, S)
      <4>1. \A x, y \in Vertices : Adjacent(csr, x, y) /\ x \in S => y \in S
        BY <1>1, <3>1, <3>2, AdjacentIs
      <4> QED
        BY <2>1, <4>1 DEF Closed
    <3> QED
      BY <2>1, <3>1, <3>3 DEF ComponentOf
  <2>4. ASSUME NEW a \in Vertices, components.edges = <<>>
        PROVE  {b \in Vertices : components.root[b] = components.root[a]} = ComponentOf(csr, a)
    <3>1. ComponentOf(csr, a) \subseteq Vertices
      BY <2>1 DEF ComponentOf
    <3>2. StaysInside(components.root)
      BY <1>1 DEF ComponentsInv
    <3> QED
      BY <2>2, <2>3, <2>4, <3>1, <3>2
  <2>5. ASSUME NEW a \in Vertices
        PROVE  {b \in Vertices : communities.label[b] = communities.label[a]} \subseteq ComponentOf(csr, a)
    <3>1. StaysInside(communities.label)
      BY <1>1 DEF CommunitiesInv
    <3> QED
      BY <2>2, <3>1
  <2> QED
    BY <2>1, <2>4, <2>5 DEF CommunitiesSound
<1> QED
  BY <1>1, AlgorithmsInvariant, PTL

----------------------------------------------------------------------------
(* Predicted links.                                                        *)

(* What is in the list of a source is in the list of the target.           *)
LEMMA OutIsIn ==
  ASSUME GraphInv, NEW a \in Vertices, NEW k \in DOMAIN csr.out[a]
  PROVE  \E j \in DOMAIN csr.in[csr.out[a][k].node] : csr.in[csr.out[a][k].node][j].node = a
<1>1. PICK b, weight : b = csr.out[a][k].node /\ weight = csr.out[a][k].weight /\ b \in Vertices /\ weight \in Nat
  BY AdjacentIs
<1>2. csr.out[a][k] = [node |-> b, weight |-> weight]
  <2>1. csr.out[a] \in Seq(End(N))
    BY DEF GraphInv, Snapshot, Vertices
  <2>2. csr.out[a][k] \in End(N)
    BY <2>1
  <2> QED
    BY <1>1, <2>2 DEF End
<1>3. PICK inn, out : inn = csr.in[b] /\ out = csr.out[a]
  OBVIOUS
<1>4. Times(out, [node |-> b, weight |-> weight]) = Times(inn, [node |-> a, weight |-> weight])
  <2>1. BothWays(csr, a, b, weight)
    BY <1>1 DEF GraphInv, Snapshot, Vertices
  <2> QED
    BY <1>3, <2>1 DEF BothWays
<1>5. IsFiniteSet(DOMAIN inn) /\ IsFiniteSet(DOMAIN out)
  <2>1. inn \in Seq(End(N)) /\ out \in Seq(End(N))
    BY <1>1, <1>3 DEF GraphInv, Snapshot, Vertices
  <2>2. DOMAIN inn = 1..Len(inn) /\ DOMAIN out = 1..Len(out) /\ Len(inn) \in Nat /\ Len(out) \in Nat
    BY <2>1
  <2> QED
    BY <2>2, FS_Interval
<1> DEFINE I == {j \in DOMAIN inn : inn[j] = [node |-> a, weight |-> weight]}
           O == {j \in DOMAIN out : out[j] = [node |-> b, weight |-> weight]}
<1>6. IsFiniteSet(I) /\ IsFiniteSet(O) /\ k \in O
  BY <1>2, <1>3, <1>5, FS_Subset
<1>7. Cardinality(I) = Cardinality(O)
  BY <1>4 DEF Times
<1>8. I # {}
  <2> HIDE DEF I, O
  <2> QED
    BY <1>6, <1>7, FS_EmptySet
<1>9. PICK j \in DOMAIN inn : inn[j] = [node |-> a, weight |-> weight]
  BY <1>8
<1>10. inn[j].node = a
  BY <1>9
<1> QED
  BY <1>1, <1>3, <1>10

(* The neighbours of a node are those an edge joins it with.               *)
LEMMA NeighborsAdjacent ==
  ASSUME GraphInv, NEW x \in Vertices
  PROVE  /\ NeighborSet(csr, x) \subseteq Vertices
         /\ \A y \in Vertices : y \in NeighborSet(csr, x) <=> y # x /\ Adjacent(csr, x, y)
<1>1. PICK out, inn : out = csr.out[x] /\ inn = csr.in[x] /\ out \in Seq(End(N)) /\ inn \in Seq(End(N))
  BY DEF GraphInv, Snapshot, Vertices
<1>2. Range(out \o inn) = Range(out) \cup Range(inn)
  <2>1. /\ Len(out \o inn) = Len(out) + Len(inn) /\ Len(out) \in Nat /\ Len(inn) \in Nat
        /\ DOMAIN out = 1..Len(out) /\ DOMAIN inn = 1..Len(inn) /\ DOMAIN (out \o inn) = 1..(Len(out) + Len(inn))
    BY <1>1
  <2>2. \A k \in 1..(Len(out) + Len(inn)) : (out \o inn)[k] = IF k <= Len(out) THEN out[k] ELSE inn[k - Len(out)]
    BY <1>1
  <2>3. ASSUME NEW k \in 1..(Len(out) + Len(inn)) PROVE (out \o inn)[k] \in Range(out) \cup Range(inn)
    <3>1. k \in 1..Len(out) \/ (k > Len(out) /\ k - Len(out) \in 1..Len(inn))
      BY <2>1
    <3>2. CASE k \in 1..Len(out)
      <4>1. (out \o inn)[k] = out[k]
        BY <2>1, <2>2, <3>2
      <4> QED
        BY <2>1, <3>2, <4>1 DEF Range
    <3>3. CASE k > Len(out) /\ k - Len(out) \in 1..Len(inn)
      <4>1. (out \o inn)[k] = inn[k - Len(out)]
        BY <2>1, <2>2, <3>3
      <4> QED
        BY <2>1, <3>3, <4>1 DEF Range
    <3> QED
      BY <3>1, <3>2, <3>3
  <2>4. ASSUME NEW k \in 1..Len(out) PROVE out[k] \in Range(out \o inn)
    <3>1. k \in 1..(Len(out) + Len(inn)) /\ k <= Len(out)
      BY <2>1
    <3> QED
      BY <2>1, <2>2, <3>1 DEF Range
  <2>5. ASSUME NEW k \in 1..Len(inn) PROVE inn[k] \in Range(out \o inn)
    <3>1. k + Len(out) \in 1..(Len(out) + Len(inn)) /\ ~(k + Len(out) <= Len(out)) /\ (k + Len(out)) - Len(out) = k
      BY <2>1
    <3>2. (out \o inn)[k + Len(out)] = inn[k]
      BY <2>2, <3>1
    <3> QED
      BY <2>1, <3>1, <3>2 DEF Range
  <2> QED
    BY <2>1, <2>3, <2>4, <2>5 DEF Range
<1>3. ASSUME NEW y PROVE y \in NeighborSet(csr, x) <=> y # x /\ ((\E k \in DOMAIN out : out[k].node = y) \/ (\E k \in DOMAIN inn : inn[k].node = y))
  <2>1. NeighborSet(csr, x) = {e.node : e \in Range(out) \cup Range(inn)} \ {x}
    BY <1>1, <1>2 DEF NeighborSet
  <2> QED
    BY <2>1 DEF Range
<1>4. ASSUME NEW y \in Vertices PROVE (\E k \in DOMAIN inn : inn[k].node = y) <=> Hop(y, x)
  <2>1. ASSUME NEW k \in DOMAIN inn, inn[k].node = y PROVE Hop(y, x)
    BY <1>1, <2>1, InIsOut
  <2>2. ASSUME Hop(y, x) PROVE \E k \in DOMAIN inn : inn[k].node = y
    <3>1. PICK k \in DOMAIN csr.out[y] : csr.out[y][k].node = x
      BY <2>2 DEF Hop
    <3> QED
      BY <1>1, <3>1, OutIsIn
  <2> QED
    BY <2>1, <2>2
<1>5. \A y \in Vertices : (\E k \in DOMAIN out : out[k].node = y) <=> Hop(x, y)
  BY <1>1 DEF Hop
<1>6. \A y \in NeighborSet(csr, x) : y \in Vertices
  BY <1>1, <1>3, AdjacentIs
<1> QED
  BY <1>3, <1>4, <1>5, <1>6, AdjacentIs

(* The score of a pair is a number, 0 with no neighbour in common.         *)
LEMMA ScoreIsNumber ==
  ASSUME GraphInv, NEW a \in Vertices, NEW b \in Vertices
  PROVE  AdamicAdar(csr, a, b) \in Nat /\ (CommonNeighbors(csr, a, b) = {} => AdamicAdar(csr, a, b) = 0)
<1>1. PICK C : C = CommonNeighbors(csr, a, b) /\ C \subseteq Vertices
  BY NeighborsAdjacent DEF CommonNeighbors
<1>2. IsFiniteSet(Vertices) /\ Cardinality(Vertices) = N /\ N \in Nat /\ N <= Len(NodeIds) /\ Len(NodeIds) \in Nat
  <2>1. Len(NodeIds) \in Nat
    BY AlgorithmsAssumption
  <2> QED
    BY <2>1, FS_Interval DEF GraphInv, Vertices
<1>3. IsFiniteSet(C)
  BY <1>1, <1>2, FS_Subset
<1>4. ASSUME NEW z \in C PROVE Rarity(Cardinality(NeighborSet(csr, z))) \in Nat
  <2>1. z \in Vertices
    BY <1>1
  <2>2. PICK degree \in Nat : degree = Cardinality(NeighborSet(csr, z)) /\ degree <= N
    <3>1. IsFiniteSet(NeighborSet(csr, z)) /\ Cardinality(NeighborSet(csr, z)) <= Cardinality(Vertices)
      BY <1>2, <2>1, NeighborsAdjacent, FS_Subset
    <3>2. Cardinality(NeighborSet(csr, z)) \in Nat
      BY <3>1, FS_CardinalityType
    <3> QED
      BY <1>2, <3>1, <3>2
  <2>3. degree <= 1 \/ degree \in 2..Len(NodeIds)
    BY <1>2, <2>2
  <2>4. Rarities \in [2..Len(NodeIds) -> Nat]
    BY AlgorithmsAssumption
  <2> QED
    BY <2>2, <2>3, <2>4 DEF Rarity
<1>5. PICK f \in [C -> Nat] : f = [z \in C |-> Rarity(Cardinality(NeighborSet(csr, z)))]
  BY <1>4
<1>6. AdamicAdar(csr, a, b) = SumFunction(f)
  BY <1>1, <1>5 DEF AdamicAdar
<1>7. C = {} => SumFunction(f) = 0
  BY <1>3, SumFunctionIs, SumOfZeros
<1> QED
  BY <1>1, <1>3, <1>5, <1>6, <1>7, SumIsNumber

(* The open pairs can be put in the order of their strength.               *)
LEMMA PairsInOrder ==
  ASSUME GraphInv
  PROVE  /\ IsFiniteSet(OpenPairs(csr))
         /\ \E q \in SetToSeqs(OpenPairs(csr)) : \A i, j \in DOMAIN q : i < j => Stronger(csr, q[i], q[j])
<1>1. PICK S : S = OpenPairs(csr) /\ S \subseteq Vertices \X Vertices
  BY AdjacentIs DEF OpenPairs
<1>2. IsFiniteSet(S)
  <2>1. IsFiniteSet(Vertices)
    BY FS_Interval DEF GraphInv, Vertices
  <2> QED
    BY <1>1, <2>1, FS_Product, FS_Subset
<1>3. PICK R : R = {u \in S \X S : Stronger(csr, u[1], u[2])}
  OBVIOUS
<1>4. \A p, q \in S : <<p, q>> \in R <=> Stronger(csr, p, q)
  BY <1>3
<1>5. ASSUME NEW p \in S PROVE p = <<p[1], p[2]>> /\ p[1] \in Nat /\ p[2] \in Nat /\ AdamicAdar(csr, p[1], p[2]) \in Nat
  BY <1>1, ScoreIsNumber DEF Vertices
<1>6. StrictOrder(R, S)
  <2>1. ASSUME NEW p \in S PROVE <<p, p>> \notin R
    BY <1>4, <1>5 DEF Stronger
  <2>2. ASSUME NEW p \in S, NEW q \in S, p # q PROVE <<p, q>> \in R \/ <<q, p>> \in R
    <3>1. p[1] # q[1] \/ p[2] # q[2]
      BY <1>5, <2>2
    <3>2. /\ p[1] \in Nat /\ p[2] \in Nat /\ AdamicAdar(csr, p[1], p[2]) \in Nat
          /\ q[1] \in Nat /\ q[2] \in Nat /\ AdamicAdar(csr, q[1], q[2]) \in Nat
      BY <1>5
    <3>3. Stronger(csr, p, q) \/ Stronger(csr, q, p)
      BY <3>1, <3>2 DEF Stronger
    <3> QED
      BY <1>4, <3>3
  <2>3. ASSUME NEW p \in S, NEW q \in S, NEW r \in S, <<p, q>> \in R, <<q, r>> \in R PROVE <<p, r>> \in R
    <3>1. Stronger(csr, p, q) /\ Stronger(csr, q, r)
      BY <1>4, <2>3
    <3>2. /\ p[1] \in Nat /\ p[2] \in Nat /\ AdamicAdar(csr, p[1], p[2]) \in Nat
          /\ q[1] \in Nat /\ q[2] \in Nat /\ AdamicAdar(csr, q[1], q[2]) \in Nat
          /\ r[1] \in Nat /\ r[2] \in Nat /\ AdamicAdar(csr, r[1], r[2]) \in Nat
      BY <1>5
    <3>3. Stronger(csr, p, r)
      BY <3>1, <3>2 DEF Stronger
    <3> QED
      BY <1>4, <3>3
  <2> QED
    BY <2>1, <2>2, <2>3 DEF StrictOrder
<1>7. PICK q \in SetToSeqs(S) : \A i, j \in DOMAIN q : i < j => <<q[i], q[j]>> \in R
  BY <1>2, <1>6, Sortable
<1>8. \A i, j \in DOMAIN q : i < j => Stronger(csr, q[i], q[j])
  BY <1>3, <1>7
<1> QED
  BY <1>1, <1>2, <1>7, <1>8

(* The links are between nodes no edge joins, with neighbours in common,   *)
(* and no pair that is left out is stronger than one of them.              *)
THEOREM LinksStrongest == AlgorithmsSpec => []LinksSound
<1>1. ASSUME GraphInv PROVE LinksSound
  <2>1. PICK ranked \in SetToSeqs(OpenPairs(csr)) :
          /\ ranked = CHOOSE s \in SetToSeqs(OpenPairs(csr)) : \A i, j \in DOMAIN s : i < j => Stronger(csr, s[i], s[j])
          /\ \A i, j \in DOMAIN ranked : i < j => Stronger(csr, ranked[i], ranked[j])
    BY <1>1, PairsInOrder
  <2>2. PICK n \in Nat : /\ Len(ranked) = n /\ DOMAIN ranked = 1..n /\ ranked \in [1..n -> OpenPairs(csr)]
                         /\ \A p \in OpenPairs(csr) : \E i \in 1..n : ranked[i] = p
    <3>1. IsFiniteSet(OpenPairs(csr))
      BY <1>1, PairsInOrder
    <3> QED
      BY <3>1, OrderOf
  <2>3. PICK m \in 0..n : m = IF TopLinks < n THEN TopLinks ELSE n
    BY AlgorithmsAssumption
  <2>4. PICK links : links = LinkPrediction(csr, TopLinks)
    OBVIOUS
  <2>5. links = SubSeq(ranked, 1, m)
    BY <2>1, <2>2, <2>3, <2>4 DEF LinkPrediction
  <2>6. Len(links) = m /\ DOMAIN links = 1..m /\ \A k \in 1..m : links[k] = ranked[k] /\ k \in 1..n
    <3>1. ranked \in Seq(OpenPairs(csr))
      BY <2>2
    <3>2. \A k \in 1..m : k \in 1..n
      BY <2>3
    <3> QED
      BY <2>2, <2>3, <2>5, <3>1, <3>2
  <2>7. PICK open : open = {p \in Vertices \X Vertices : p[1] < p[2] /\ ~Adjacent(csr, p[1], p[2])}
    OBVIOUS
  <2>8. ASSUME NEW p PROVE p \in OpenPairs(csr) <=> p \in open /\ CommonNeighbors(csr, p[1], p[2]) # {}
    <3>1. ASSUME p \in Vertices \X Vertices, p[1] < p[2] PROVE p[2] \notin NeighborSet(csr, p[1]) <=> ~Adjacent(csr, p[1], p[2])
      <4>1. p[1] \in Vertices /\ p[2] \in Vertices /\ p[1] # p[2]
        BY <3>1 DEF Vertices
      <4> QED
        BY <1>1, <4>1, NeighborsAdjacent
    <3>2. NodeIndices(csr) = Vertices
      BY <1>1, AdjacentIs
    <3> QED
      BY <2>7, <3>1, <3>2 DEF OpenPairs
  <2>9. \A k \in DOMAIN links : links[k] \in open /\ CommonNeighbors(csr, links[k][1], links[k][2]) # {}
    BY <2>2, <2>6, <2>8
  <2>10. ASSUME NEW p \in open, p \notin Range(links), CommonNeighbors(csr, p[1], p[2]) # {}
         PROVE  ~(Len(links) < TopLinks) /\ \A k \in DOMAIN links : Stronger(csr, links[k], p)
    <3>1. PICK i \in 1..n : ranked[i] = p
      BY <2>2, <2>8, <2>10
    <3>2. i > m
      <4>1. i \notin 1..m
        BY <2>6, <2>10, <3>1 DEF Range
      <4> QED
        BY <2>3, <4>1
    <3>3. m < n
      BY <2>3, <3>2
    <3>4. ~(m < TopLinks)
      BY <2>3, <3>3, AlgorithmsAssumption
    <3>5. \A k \in 1..m : k < i
      BY <2>3, <3>2
    <3>6. ASSUME NEW k \in 1..m PROVE Stronger(csr, links[k], p)
      <4>1. k \in DOMAIN ranked /\ i \in DOMAIN ranked /\ k < i
        BY <2>2, <2>6, <3>5
      <4>2. Stronger(csr, ranked[k], ranked[i])
        BY <2>1, <4>1
      <4> QED
        BY <2>6, <3>1, <4>2
    <3> QED
      BY <2>6, <3>4, <3>6
  <2>11. ASSUME NEW p \in open \ Range(links), NEW k \in DOMAIN links
         PROVE  AdamicAdar(csr, p[1], p[2]) <= AdamicAdar(csr, links[k][1], links[k][2])
    <3>1. p[1] \in Vertices /\ p[2] \in Vertices /\ links[k][1] \in Vertices /\ links[k][2] \in Vertices
      BY <2>7, <2>9
    <3>2. AdamicAdar(csr, p[1], p[2]) \in Nat /\ AdamicAdar(csr, links[k][1], links[k][2]) \in Nat
      BY <1>1, <3>1, ScoreIsNumber
    <3>3. CASE CommonNeighbors(csr, p[1], p[2]) = {}
      <4>1. AdamicAdar(csr, p[1], p[2]) = 0
        BY <1>1, <3>1, <3>3, ScoreIsNumber
      <4> QED
        BY <3>2, <4>1
    <3>4. CASE CommonNeighbors(csr, p[1], p[2]) # {}
      <4>1. Stronger(csr, links[k], p)
        BY <2>10, <3>4
      <4> QED
        BY <3>2, <4>1 DEF Stronger
    <3> QED
      BY <3>3, <3>4
  <2>12. NodeIndices(csr) = Vertices
    BY <1>1, AdjacentIs
  <2>13. \A p \in open \ Range(links) : Len(links) < TopLinks => CommonNeighbors(csr, p[1], p[2]) = {}
    BY <2>10
  <2> DEFINE found == LinkPrediction(csr, TopLinks)
             near == [a \in NodeIndices(csr) |-> {b \in NodeIndices(csr) \ {a} : Adjacent(csr, a, b)}]
             Shared(p) == near[p[1]] \cap near[p[2]]
             Strength(p) == SumFunction([z \in Shared(p) |-> Rarity(Cardinality(near[z]))])
             apart == {p \in NodeIndices(csr) \X NodeIndices(csr) : p[1] < p[2] /\ ~Adjacent(csr, p[1], p[2])}
  <2>14. apart = open /\ found = links
    BY <2>4, <2>7, <2>12
  <2>15. \A x \in Vertices : near[x] = NeighborSet(csr, x)
    BY <1>1, <2>12, NeighborsAdjacent
  <2> HIDE DEF near, found, apart
  <2>16. ASSUME NEW p \in open
         PROVE  CommonNeighbors(csr, p[1], p[2]) = Shared(p) /\ AdamicAdar(csr, p[1], p[2]) = Strength(p)
    <3>1. p[1] \in Vertices /\ p[2] \in Vertices
      BY <2>7
    <3>2. CommonNeighbors(csr, p[1], p[2]) = Shared(p)
      BY <2>15, <3>1 DEF CommonNeighbors
    <3>3. Shared(p) \subseteq Vertices
      BY <1>1, <2>15, <3>1, NeighborsAdjacent
    <3>4. PICK both : both = Shared(p) /\ both = CommonNeighbors(csr, p[1], p[2]) /\ both \subseteq Vertices
      BY <3>2, <3>3
    <3>5. [z \in both |-> Rarity(Cardinality(NeighborSet(csr, z)))] = [z \in both |-> Rarity(Cardinality(near[z]))]
      BY <2>15, <3>4
    <3> QED
      BY <3>2, <3>4, <3>5 DEF AdamicAdar
  <2> HIDE DEF Strength, Shared
  <2>17. \A k \in DOMAIN found : found[k] \in apart /\ Shared(found[k]) # {}
    BY <2>9, <2>14, <2>16
  <2>18. \A p \in apart \ Range(found) : Len(found) < TopLinks => Shared(p) = {}
    BY <2>13, <2>14, <2>16
  <2>19. \A k \in DOMAIN found, p \in apart \ Range(found) : Strength(p) <= Strength(found[k])
    <3>1. ASSUME NEW k \in DOMAIN links, NEW p \in open \ Range(links) PROVE Strength(p) <= Strength(links[k])
      <4>1. links[k] \in open
        BY <2>9
      <4>2. AdamicAdar(csr, p[1], p[2]) = Strength(p) /\ AdamicAdar(csr, links[k][1], links[k][2]) = Strength(links[k])
        BY <2>16, <4>1
      <4> QED
        BY <2>11, <4>2
    <3> QED
      BY <2>14, <3>1
  <2> USE DEF near, found, apart, Strength, Shared
  <2> QED
    BY Zenon, <2>17, <2>18, <2>19 DEF LinksSound
<1> QED
  BY <1>1, AlgorithmsInvariant, PTL

----------------------------------------------------------------------------
(* Shortest paths.                                                         *)

Entries == [dist : Nat, node : Vertices]
Numbers == Nat \cup {None}
Places == Vertices \cup {None}

(* What Relax works on.                                                    *)
Frontier(dist, prev, heap, here) == [dist |-> dist, prev |-> prev, heap |-> heap, here |-> here]

(* An edge that leads nowhere cheaper changes nothing; another sets its    *)
(* end's distance and predecessor and adds an entry.                       *)
Relaxes(dist, prev, heap, here, edge, cost) ==
  /\ cost = None => Relax(Frontier(dist, prev, heap, here), edge) = Frontier(dist, prev, heap, here)
  /\ cost # None /\ dist[edge.node] # None /\ dist[edge.node] <= dist[here] + cost
       => Relax(Frontier(dist, prev, heap, here), edge) = Frontier(dist, prev, heap, here)
  /\ cost # None /\ ~(dist[edge.node] # None /\ dist[edge.node] <= dist[here] + cost)
       => Relax(Frontier(dist, prev, heap, here), edge)
            = Frontier([dist EXCEPT ![edge.node] = dist[here] + cost], [prev EXCEPT ![edge.node] = here],
                       heap \cup {[dist |-> dist[here] + cost, node |-> edge.node]}, here)

(* Relax does so.                                                          *)
LEMMA RelaxIs ==
  ASSUME NEW dist, NEW prev, NEW heap, NEW here, NEW edge, NEW cost, cost = EdgeCost(edge.weight)
  PROVE  Relaxes(dist, prev, heap, here, edge, cost)
<1>1. PICK at : at = Frontier(dist, prev, heap, here)
  OBVIOUS
<1>2. at.dist = dist /\ at.here = here /\ at.heap = heap /\ at.prev = prev
  BY <1>1 DEF Frontier
<1>3. cost = None => Relax(at, edge) = at
  BY Zenon DEF Relax
<1>4. PICK through : through = dist[here] + cost
  OBVIOUS
<1>5. cost # None /\ dist[edge.node] # None /\ dist[edge.node] <= through => Relax(at, edge) = at
  BY Zenon, <1>2, <1>4 DEF Relax
<1>6. ASSUME cost # None, ~(dist[edge.node] # None /\ dist[edge.node] <= through)
      PROVE  Relax(at, edge) = Frontier([dist EXCEPT ![edge.node] = through], [prev EXCEPT ![edge.node] = here],
                                     heap \cup {[dist |-> through, node |-> edge.node]}, here)
  <2>1. Relax(at, edge) = [at EXCEPT !.dist[edge.node] = through, !.prev[edge.node] = at.here,
                                     !.heap = @ \cup {[dist |-> through, node |-> edge.node]}]
    BY Zenon, <1>2, <1>4, <1>6 DEF Relax
  <2>2. PICK d, p, h : /\ d = [dist EXCEPT ![edge.node] = through] /\ p = [prev EXCEPT ![edge.node] = here]
                       /\ h = heap \cup {[dist |-> through, node |-> edge.node]}
    OBVIOUS
  <2>3. Relax(at, edge) = [at EXCEPT !.dist = d, !.prev = p, !.heap = h]
    BY Zenon, <1>2, <2>1, <2>2
  <2>4. [at EXCEPT !.dist = d, !.prev = p, !.heap = h] = Frontier(d, p, h, here)
    <3>1. at = [dist |-> dist, prev |-> prev, heap |-> heap, here |-> here]
      BY <1>1 DEF Frontier
    <3>2. PICK far : far = [at EXCEPT !.dist = d]
      OBVIOUS
    <3>3. far = [dist |-> d, prev |-> prev, heap |-> heap, here |-> here]
      BY <3>1, <3>2
    <3>4. PICK back : back = [far EXCEPT !.prev = p]
      OBVIOUS
    <3>5. back = [dist |-> d, prev |-> p, heap |-> heap, here |-> here]
      BY <3>3, <3>4
    <3>6. [back EXCEPT !.heap = h] = [dist |-> d, prev |-> p, heap |-> h, here |-> here]
      BY <3>5
    <3>7. [at EXCEPT !.dist = d, !.prev = p, !.heap = h] = [back EXCEPT !.heap = h]
      BY Zenon, <3>2, <3>4
    <3> QED
      BY <3>6, <3>7 DEF Frontier
  <2> QED
    BY Zenon, <2>2, <2>3, <2>4
<1> QED
  BY Zenon, <1>1, <1>3, <1>4, <1>5, <1>6 DEF Relaxes

(* What a cost is.                                                         *)
LEMMA CostIs ==
  ASSUME NEW weight \in Nat
  PROVE  EdgeCost(weight) \in Numbers /\ (EdgeCost(weight) = None <=> weight = 0)
<1>1. HopCosts \in [1..3 -> Nat] /\ None \notin Nat
  BY AlgorithmsAssumption
<1>2. weight = 0 \/ weight >= 4 \/ weight \in 1..3
  OBVIOUS
<1>3. weight \in 1..3 => ~(weight = 0) /\ ~(weight >= 4)
  OBVIOUS
<1>4. weight >= 4 => ~(weight = 0)
  OBVIOUS
<1>5. weight = 0 => EdgeCost(weight) = None
  BY DEF EdgeCost
<1>6. weight >= 4 => EdgeCost(weight) = 0
  BY <1>3, <1>4 DEF EdgeCost
<1>7. weight \in 1..3 => EdgeCost(weight) = HopCosts[weight]
  BY <1>3 DEF EdgeCost
<1> QED
  BY <1>1, <1>2, <1>3, <1>4, <1>5, <1>6, <1>7 DEF Numbers

(* Frontiers on which an edge can be relaxed: they have a distance to here.    *)
Frontiers ==
  {at \in [dist : [Vertices -> Numbers], prev : [Vertices -> Places], heap : SUBSET Entries, here : Vertices] :
     at.dist[at.here] # None}

(* What is relaxed can be relaxed further.                                 *)
LEMMA RelaxStays ==
  ASSUME NEW at \in Frontiers, NEW edge \in End(N)
  PROVE  Relax(at, edge) \in Frontiers
<1>1. PICK dist, prev, heap, here :
        /\ at = Frontier(dist, prev, heap, here)
        /\ dist \in [Vertices -> Numbers] /\ prev \in [Vertices -> Places] /\ heap \in SUBSET Entries /\ here \in Vertices
        /\ dist[here] # None
  BY DEF Frontiers, Frontier
<1>2. PICK cost : cost = EdgeCost(edge.weight)
  OBVIOUS
<1>7. Relaxes(dist, prev, heap, here, edge, cost)
  BY <1>2, RelaxIs
<1>3. edge.node \in Vertices /\ edge.weight \in Nat
  BY DEF End, Vertices
<1>4. cost \in Numbers
  BY <1>2, <1>3, CostIs
<1>5. CASE Relax(at, edge) = at
  BY <1>5
<1>6. CASE cost # None /\ ~(dist[edge.node] # None /\ dist[edge.node] <= dist[here] + cost)
  <2>1. PICK through \in Nat : through = dist[here] + cost
    BY <1>1, <1>4, <1>6 DEF Numbers
  <2>2. PICK d, p, h : /\ d = [dist EXCEPT ![edge.node] = through] /\ p = [prev EXCEPT ![edge.node] = here]
                       /\ h = heap \cup {[dist |-> through, node |-> edge.node]}
    OBVIOUS
  <2>3. d \in [Vertices -> Numbers] /\ p \in [Vertices -> Places] /\ h \in SUBSET Entries
    <3>1. [dist |-> through, node |-> edge.node] \in Entries
      BY <1>3, <2>1 DEF Entries
    <3>2. through \in Numbers /\ here \in Places
      BY <1>1, <2>1 DEF Numbers, Places
    <3> QED
      BY <1>1, <1>3, <2>2, <3>1, <3>2
  <2>4. d[here] # None
    <3>1. through # None
      BY <2>1, AlgorithmsAssumption
    <3> QED
      BY <1>1, <1>3, <2>2, <3>1
  <2>5. Relax(at, edge) = Frontier(d, p, h, here)
    BY Zenon, <1>1, <1>7, <1>6, <2>1, <2>2 DEF Relaxes
  <2>6. Frontier(d, p, h, here) \in Frontiers
    BY <1>1, <2>3, <2>4 DEF Frontier, Frontiers
  <2> QED
    BY <2>5, <2>6
<1> QED
  BY Zenon, <1>1, <1>5, <1>6, <1>7 DEF Relaxes

(* Edge after edge is relaxed.                                             *)
LEMMA RelaxFold ==
  ASSUME GraphInv, NEW base \in Frontiers, NEW ends \in Seq(End(N))
  PROVE  \E p \in [0..Len(ends) -> Frontiers] :
           /\ p[0] = base /\ p[Len(ends)] = FoldLeft(Relax, base, ends)
           /\ \A k \in 1..Len(ends) : p[k] = Relax(p[k - 1], ends[k])
<1> DEFINE last == Len(ends)
           V == Frontiers
           op == [q \in (1..last) \X V |-> Relax(q[2], ends[q[1]])]
           P(h) == h = [s \in SUBSET (1..last) |-> IF s = {} THEN base ELSE Relax(h[s \ {Max(s)}], ends[Max(s)])]
           fold == CHOOSE h : P(h)
<1>1. last \in Nat /\ DOMAIN ends = 1..last /\ \A k \in 1..last : ends[k] \in End(N)
  OBVIOUS
<1> HIDE DEF last
<1>2. op \in [(1..last) \X V -> V]
  <2>1. ASSUME NEW q \in (1..last) \X V PROVE Relax(q[2], ends[q[1]]) \in V
    <3>1. q[2] \in Frontiers /\ ends[q[1]] \in End(N)
      BY <1>1, <2>1
    <3> QED
      BY <3>1, RelaxStays
  <2> QED
    BY <2>1
<1>3. FoldLeft(Relax, base, ends) = fold[1..last]
  BY <1>1 DEF FoldLeft, MapThenFoldSet
<1>4. P(fold)
  <2>1. PICK g \in [SUBSET (1..last) -> V] : Computes(g, last, V, base, op)
    <3> HIDE DEF op, V
    <3> QED
      BY <1>1, <1>2, LeftRecursion DEF V
  <2>2. P(g)
    <3>1. \A s \in SUBSET (1..last) : s # {} => g[s] = Relax(g[s \ {Max(s)}], ends[Max(s)])
      BY <2>1 DEF Computes
    <3> QED
      BY <2>1, <3>1 DEF Computes
  <2> HIDE DEF P
  <2> QED
    BY <2>2
<1>5. Follows(fold, last, V, base, op)
  <2>1. ASSUME NEW h, P(h) PROVE Follows(h, last, V, base, op)
    <3>1. \A s \in SUBSET (1..last) : s # {} => Max(s) \in 1..last
      BY <1>1, GreatestChooses DEF Chooses
    <3>2. h[{}] = base
      BY <2>1
    <3>3. ASSUME NEW s \in SUBSET (1..last), s # {}, h[s \ {Max(s)}] \in V
          PROVE  h[s] = op[<<Max(s), h[s \ {Max(s)}]>>]
      <4>1. h[s] = Relax(h[s \ {Max(s)}], ends[Max(s)])
        BY <2>1, <3>3
      <4>2. <<Max(s), h[s \ {Max(s)}]>> \in (1..last) \X V
        BY <3>1, <3>3
      <4> QED
        BY <4>1, <4>2
    <3> QED
      BY <3>2, <3>3 DEF Follows
  <2> HIDE DEF P, fold
  <2> QED
    BY <1>4, <2>1
<1>6. PICK p \in [0..last -> V] : p[last] = fold[1..last] /\ Passes(p, last, base, op)
  <2> HIDE DEF op, fold, V
  <2> QED
    BY <1>1, <1>2, <1>5, LeftFold DEF V
<1>7. ASSUME NEW k \in 1..last PROVE p[k] = Relax(p[k - 1], ends[k])
  <2>1. k - 1 \in 0..last
    BY <1>1
  <2> QED
    BY <1>6, <2>1 DEF Passes
<1>8. p[0] = base /\ p[last] = FoldLeft(Relax, base, ends)
  BY <1>3, <1>6 DEF Passes
<1> HIDE DEF fold, P, op
<1> QED
  BY <1>7, <1>8 DEF last, V

(* Ways back.                                                              *)
Ways == Seq(Vertices) \ {<<>>}

(* A way goes back to a node.                                              *)
LEMMA StepBackStays ==
  ASSUME search.prev \in [Vertices -> Places], NEW path \in Ways, NEW visit
  PROVE  StepBack(path, visit) \in Ways
<1>1. path \in Seq(Vertices) /\ path # <<>> /\ Head(path) \in Vertices
  BY DEF Ways
<1>2. PICK before \in Places : before = search.prev[Head(path)]
  BY <1>1
<1>3. StepBack(path, visit) = IF before = None THEN path ELSE <<before>> \o path
  BY <1>2 DEF StepBack
<1>4. CASE before = None
  BY <1>3, <1>4
<1>5. CASE before # None
  <2>1. before \in Vertices
    BY <1>5 DEF Places
  <2>2. <<before>> \in Seq(Vertices) /\ Len(<<before>>) = 1
    BY <2>1
  <2>3. <<before>> \o path \in Seq(Vertices) /\ Len(<<before>> \o path) = 1 + Len(path) /\ Len(path) \in Nat
    BY <1>1, <2>2
  <2>4. <<before>> \o path # <<>>
    BY <2>3
  <2> QED
    BY <1>3, <1>5, <2>3, <2>4 DEF Ways
<1> QED
  BY <1>4, <1>5

(* Going back step after step.                                             *)
Returning(p, base, visits) ==
  /\ p \in [0..Len(visits) -> Ways] /\ p[0] = base /\ p[Len(visits)] = FoldLeft(StepBack, base, visits)
  /\ \A k \in 1..Len(visits) : p[k] = StepBack(p[k - 1], visits[k])

(* The fold goes back so.                                                  *)
LEMMA StepBackFold ==
  ASSUME search.prev \in [Vertices -> Places], NEW base \in Ways, NEW visits \in Seq(Vertices)
  PROVE  \E p : Returning(p, base, visits)
<1> DEFINE last == Len(visits)
           V == Ways
           op == [q \in (1..last) \X V |-> StepBack(q[2], visits[q[1]])]
           P(h) == h = [s \in SUBSET (1..last) |-> IF s = {} THEN base ELSE StepBack(h[s \ {Max(s)}], visits[Max(s)])]
           fold == CHOOSE h : P(h)
<1>1. last \in Nat /\ DOMAIN visits = 1..last /\ \A k \in 1..last : visits[k] \in Vertices
  OBVIOUS
<1> HIDE DEF last
<1>2. op \in [(1..last) \X V -> V]
  <2>1. ASSUME NEW q \in (1..last) \X V PROVE StepBack(q[2], visits[q[1]]) \in V
    <3>1. q[2] \in Ways /\ visits[q[1]] \in Vertices
      BY <1>1, <2>1
    <3> QED
      BY <3>1, StepBackStays
  <2> QED
    BY <2>1
<1>3. FoldLeft(StepBack, base, visits) = fold[1..last]
  BY <1>1 DEF FoldLeft, MapThenFoldSet
<1>4. P(fold)
  <2>1. PICK g \in [SUBSET (1..last) -> V] : Computes(g, last, V, base, op)
    <3> HIDE DEF op, V
    <3> QED
      BY <1>1, <1>2, LeftRecursion DEF V
  <2>2. P(g)
    <3>1. \A s \in SUBSET (1..last) : s # {} => g[s] = StepBack(g[s \ {Max(s)}], visits[Max(s)])
      BY <2>1 DEF Computes
    <3> QED
      BY <2>1, <3>1 DEF Computes
  <2> HIDE DEF P
  <2> QED
    BY <2>2
<1>5. Follows(fold, last, V, base, op)
  <2>1. ASSUME NEW h, P(h) PROVE Follows(h, last, V, base, op)
    <3>1. \A s \in SUBSET (1..last) : s # {} => Max(s) \in 1..last
      BY <1>1, GreatestChooses DEF Chooses
    <3>2. h[{}] = base
      BY <2>1
    <3>3. ASSUME NEW s \in SUBSET (1..last), s # {}, h[s \ {Max(s)}] \in V
          PROVE  h[s] = op[<<Max(s), h[s \ {Max(s)}]>>]
      <4>1. h[s] = StepBack(h[s \ {Max(s)}], visits[Max(s)])
        BY <2>1, <3>3
      <4>2. <<Max(s), h[s \ {Max(s)}]>> \in (1..last) \X V
        BY <3>1, <3>3
      <4> QED
        BY <4>1, <4>2
    <3> QED
      BY <3>2, <3>3 DEF Follows
  <2> HIDE DEF P, fold
  <2> QED
    BY <1>4, <2>1
<1>6. PICK p \in [0..last -> V] : p[last] = fold[1..last] /\ Passes(p, last, base, op)
  <2> HIDE DEF op, fold, V
  <2> QED
    BY <1>1, <1>2, <1>5, LeftFold DEF V
<1>7. ASSUME NEW k \in 1..last PROVE p[k] = StepBack(p[k - 1], visits[k])
  <2>1. k - 1 \in 0..last
    BY <1>1
  <2> QED
    BY <1>6, <2>1 DEF Passes
<1>8. p[0] = base /\ p[last] = FoldLeft(StepBack, base, visits)
  BY <1>3, <1>6 DEF Passes
<1> HIDE DEF fold, P, op
<1> QED
  BY <1>6, <1>7, <1>8 DEF last, V, Returning

(* An edge that can be passed, and what it costs.                          *)
Way(a, b, c) ==
  \E k \in DOMAIN csr.out[a] : csr.out[a][k].node = b /\ EdgeCost(csr.out[a][k].weight) = c /\ c # None

(* It leads to a node at the cost of a number.                             *)
LEMMA WayIs ==
  ASSUME GraphInv, NEW a \in Vertices, NEW b, NEW c, Way(a, b, c) PROVE b \in Vertices /\ c \in Nat
<1>1. PICK k \in DOMAIN csr.out[a] : csr.out[a][k].node = b /\ EdgeCost(csr.out[a][k].weight) = c /\ c # None
  BY DEF Way
<1>2. csr.out[a][k].node \in Vertices /\ csr.out[a][k].weight \in Nat
  BY AdjacentIs
<1> QED
  BY <1>1, <1>2, CostIs DEF Numbers

(* What relaxing edges from here makes of distances, predecessors and      *)
(* entries.                                                                *)
Improved(dist, prev, here, d, p, h, i) ==
  \/ d[i] = dist[i] /\ p[i] = prev[i]
  \/ /\ d[i] # None /\ p[i] = here /\ (dist[i] = None \/ d[i] < dist[i]) /\ [dist |-> d[i], node |-> i] \in h
     /\ \E c : Way(here, i, c) /\ d[i] = dist[here] + c
Entered(dist, heap, here, d, e) ==
  e \in heap \/ (dist[here] <= e.dist /\ d[e.node] # None /\ d[e.node] <= e.dist)
Passed(dist, here, d, j) ==
  EdgeCost(csr.out[here][j].weight) # None =>
    /\ d[csr.out[here][j].node] # None
    /\ d[csr.out[here][j].node] <= dist[here] + EdgeCost(csr.out[here][j].weight)
Relaxed(dist, prev, heap, here, k, d, p, h) ==
  /\ d \in [Vertices -> Numbers] /\ p \in [Vertices -> Places] /\ h \in SUBSET Entries /\ heap \subseteq h
  /\ \A i \in Vertices : Improved(dist, prev, here, d, p, h, i)
  /\ \A e \in h : Entered(dist, heap, here, d, e)
  /\ \A j \in 1..k : Passed(dist, here, d, j)

(* One more edge.                                                          *)
LEMMA RelaxOne ==
  ASSUME GraphInv, NEW dist \in [Vertices -> Numbers], NEW prev \in [Vertices -> Places],
         NEW heap \in SUBSET Entries, NEW here \in Vertices, dist[here] # None,
         NEW k \in DOMAIN csr.out[here], NEW d, NEW p, NEW h, Relaxed(dist, prev, heap, here, k - 1, d, p, h)
  PROVE  \E d2, p2, h2 : /\ Relax(Frontier(d, p, h, here), csr.out[here][k]) = Frontier(d2, p2, h2, here)
                         /\ Relaxed(dist, prev, heap, here, k, d2, p2, h2)
<1>1. PICK edge, b, cost : edge = csr.out[here][k] /\ b = edge.node /\ cost = EdgeCost(edge.weight)
  OBVIOUS
<1>2. b \in Vertices /\ cost \in Numbers /\ (cost # None => cost \in Nat /\ Way(here, b, cost))
  <2>1. edge.node \in Vertices /\ edge.weight \in Nat
    BY <1>1, AdjacentIs
  <2>2. cost # None => Way(here, b, cost)
    BY <1>1 DEF Way
  <2>3. cost \in Numbers
    BY <1>1, <2>1, CostIs
  <2> QED
    BY <1>1, <2>1, <2>2, <2>3 DEF Numbers
<1>3. /\ d \in [Vertices -> Numbers] /\ p \in [Vertices -> Places] /\ h \in SUBSET Entries /\ heap \subseteq h
      /\ \A i \in Vertices : Improved(dist, prev, here, d, p, h, i)
      /\ \A e \in h : Entered(dist, heap, here, d, e)
      /\ \A j \in 1..(k - 1) : Passed(dist, here, d, j)
  BY DEF Relaxed
<1>4. None \notin Nat /\ \A i \in Vertices : (d[i] = None \/ d[i] \in Nat) /\ (dist[i] = None \/ dist[i] \in Nat)
  BY <1>3, AlgorithmsAssumption DEF Numbers
<1>5. d[here] = dist[here] /\ dist[here] \in Nat
  <2>1. dist[here] \in Nat
    BY <1>4
  <2>2. ASSUME NEW c, Way(here, here, c), d[here] = dist[here] + c, d[here] < dist[here] PROVE FALSE
    <3>1. c \in Nat
      BY <2>2, WayIs
    <3> QED
      BY <2>1, <2>2, <3>1
  <2>3. Improved(dist, prev, here, d, p, h, here)
    BY <1>3
  <2> QED
    BY <2>1, <2>2, <2>3 DEF Improved
<1>6. k \in Nat \ {0} /\ \A j \in 1..k : j \in 1..(k - 1) \/ j = k
  <2>1. csr.out[here] \in Seq(End(N))
    BY DEF GraphInv, Snapshot, Vertices
  <2>2. k \in Nat \ {0}
    BY <2>1
  <2> QED
    BY <2>2
<1>7. Relaxes(d, p, h, here, edge, cost)
  BY <1>1, RelaxIs
<1>8. CASE cost = None
  <2>1. Relax(Frontier(d, p, h, here), edge) = Frontier(d, p, h, here)
    BY Zenon, <1>7, <1>8 DEF Relaxes
  <2>2. Passed(dist, here, d, k)
    BY <1>1, <1>8 DEF Passed
  <2>3. \A j \in 1..k : Passed(dist, here, d, j)
    BY <1>3, <1>6, <2>2
  <2>4. Relaxed(dist, prev, heap, here, k, d, p, h)
    BY <1>3, <2>3 DEF Relaxed
  <2> QED
    BY <1>1, <2>1, <2>4
<1>9. CASE cost # None /\ d[b] # None /\ d[b] <= dist[here] + cost
  <2>1. Relax(Frontier(d, p, h, here), edge) = Frontier(d, p, h, here)
    BY Zenon, <1>1, <1>5, <1>7, <1>9 DEF Relaxes
  <2>2. Passed(dist, here, d, k)
    BY <1>1, <1>9 DEF Passed
  <2>3. \A j \in 1..k : Passed(dist, here, d, j)
    BY <1>3, <1>6, <2>2
  <2>4. Relaxed(dist, prev, heap, here, k, d, p, h)
    BY <1>3, <2>3 DEF Relaxed
  <2> QED
    BY <1>1, <2>1, <2>4
<1>10. CASE cost # None /\ ~(d[b] # None /\ d[b] <= dist[here] + cost)
  <2>1. PICK t \in Nat : t = dist[here] + cost
    BY <1>2, <1>5, <1>10
  <2>2. PICK entry : entry = [dist |-> t, node |-> b]
    OBVIOUS
  <2>3. PICK d2, p2, h2 : /\ d2 = [d EXCEPT ![b] = t] /\ p2 = [p EXCEPT ![b] = here] /\ h2 = h \cup {entry}
    OBVIOUS
  <2>4. Relax(Frontier(d, p, h, here), edge) = Frontier(d2, p2, h2, here)
    BY Zenon, <1>1, <1>5, <1>7, <1>10, <2>1, <2>2, <2>3 DEF Relaxes
  <2>5. entry \in Entries /\ entry.dist = t /\ entry.node = b
    BY <1>2, <2>2 DEF Entries
  <2>6. d2 \in [Vertices -> Numbers] /\ p2 \in [Vertices -> Places] /\ h2 \in SUBSET Entries /\ heap \subseteq h2
    <3>1. t \in Numbers /\ here \in Places
      BY DEF Numbers, Places
    <3> QED
      BY <1>2, <1>3, <2>3, <2>5, <3>1
  <2>7. /\ d2[b] = t /\ p2[b] = here
        /\ \A i \in Vertices : i # b => d2[i] = d[i] /\ p2[i] = p[i]
    BY <1>2, <1>3, <2>3
  <2>8. t # None /\ (d[b] = None \/ (d[b] \in Nat /\ t < d[b]))
    BY <1>2, <1>4, <1>10, <2>1
  <2>9. ASSUME NEW i \in Vertices PROVE Improved(dist, prev, here, d2, p2, h2, i)
    <3>0. Improved(dist, prev, here, d, p, h, i)
      BY <1>3
    <3>1. CASE i # b
      BY <2>3, <2>7, <3>0, <3>1 DEF Improved
    <3>2. CASE i = b
      <4>1. dist[b] = None \/ t < dist[b]
        <5>1. CASE d[b] = dist[b]
          BY <2>8, <5>1
        <5>2. CASE dist[b] = None \/ (d[b] # None /\ d[b] < dist[b])
          BY <1>2, <1>4, <2>8, <5>2
        <5> QED
          BY <3>0, <3>2, <5>1, <5>2 DEF Improved
      <4>2. [dist |-> d2[i], node |-> i] \in h2
        BY <2>2, <2>3, <2>7, <3>2
      <4>3. Way(here, i, cost) /\ d2[i] = dist[here] + cost
        BY <1>2, <1>10, <2>1, <2>7, <3>2
      <4> QED
        BY <2>7, <2>8, <3>2, <4>1, <4>2, <4>3 DEF Improved
    <3> QED
      BY <3>1, <3>2
  <2>10. ASSUME NEW e \in h2 PROVE Entered(dist, heap, here, d2, e)
    <3>1. CASE e = entry
      <4>1. dist[here] <= t /\ t <= t
        BY <1>2, <1>5, <1>10, <2>1
      <4> QED
        BY <2>5, <2>7, <2>8, <3>1, <4>1 DEF Entered
    <3>2. CASE e \in h
      <4>1. e.dist \in Nat /\ e.node \in Vertices
        BY <1>3, <3>2 DEF Entries
      <4>2. Entered(dist, heap, here, d, e)
        BY <1>3, <3>2
      <4>3. d[e.node] # None /\ d[e.node] <= e.dist => d2[e.node] # None /\ d2[e.node] <= e.dist
        BY <1>4, <2>7, <2>8, <4>1
      <4> QED
        BY <4>2, <4>3 DEF Entered
    <3> QED
      BY <2>3, <3>1, <3>2
  <2>11. ASSUME NEW j \in 1..k PROVE Passed(dist, here, d2, j)
    <3>1. CASE j = k
      BY <1>1, <2>1, <2>7, <2>8, <3>1 DEF Passed
    <3>2. CASE j \in 1..(k - 1)
      <4>1. Passed(dist, here, d, j)
        BY <1>3, <3>2
      <4>2. PICK x, c : x = csr.out[here][j].node /\ c = EdgeCost(csr.out[here][j].weight)
        OBVIOUS
      <4>3. x \in Vertices /\ c \in Numbers
        <5>1. csr.out[here] \in Seq(End(N))
          BY DEF GraphInv, Snapshot, Vertices
        <5>2. j \in DOMAIN csr.out[here]
          BY <1>6, <3>2, <5>1
        <5> QED
          BY <4>2, <5>2, AdjacentIs, CostIs
      <4>4. c # None => d[x] # None /\ d[x] <= dist[here] + c
        BY <4>1, <4>2 DEF Passed
      <4>5. c # None => dist[here] + c \in Nat
        BY <1>5, <4>3 DEF Numbers
      <4>6. c # None => d2[x] # None /\ d2[x] <= dist[here] + c
        BY <1>4, <2>7, <2>8, <4>3, <4>4, <4>5
      <4> QED
        BY <4>2, <4>6 DEF Passed
    <3> QED
      BY <1>6, <3>1, <3>2
  <2>12. Relaxed(dist, prev, heap, here, k, d2, p2, h2)
    BY <2>6, <2>9, <2>10, <2>11 DEF Relaxed
  <2> QED
    BY <1>1, <2>4, <2>12
<1> QED
  <2>1. cost = None \/ (cost # None /\ d[b] # None /\ d[b] <= dist[here] + cost)
          \/ (cost # None /\ ~(d[b] # None /\ d[b] <= dist[here] + cost))
    OBVIOUS
  <2> QED
    BY <1>8, <1>9, <1>10, <2>1

(* All edges from here.                                                    *)
LEMMA RelaxAll ==
  ASSUME GraphInv, NEW dist \in [Vertices -> Numbers], NEW prev \in [Vertices -> Places],
         NEW heap \in SUBSET Entries, NEW here \in Vertices, dist[here] # None
  PROVE  \E d, p, h : /\ FoldLeft(Relax, Frontier(dist, prev, heap, here), csr.out[here]) = Frontier(d, p, h, here)
                      /\ Relaxed(dist, prev, heap, here, Len(csr.out[here]), d, p, h)
<1>1. PICK ends \in Seq(End(N)) : ends = csr.out[here]
  BY DEF GraphInv, Snapshot, Vertices
<1>2. PICK n \in Nat : n = Len(ends) /\ DOMAIN ends = 1..n
  BY <1>1
<1>3. PICK base \in Frontiers : base = Frontier(dist, prev, heap, here)
  BY DEF Frontier, Frontiers
<1>4. PICK q \in [0..n -> Frontiers] :
        /\ q[0] = base /\ q[n] = FoldLeft(Relax, base, ends)
        /\ \A k \in 1..n : q[k] = Relax(q[k - 1], ends[k])
  BY <1>2, RelaxFold
<1> DEFINE Good(k) == \E d, p, h : q[k] = Frontier(d, p, h, here) /\ Relaxed(dist, prev, heap, here, k, d, p, h)
           U == {k \in 0..n : ~Good(k)}
<1>5. 0 \notin U
  <2>1. \A i \in Vertices : Improved(dist, prev, here, dist, prev, heap, i)
    BY DEF Improved
  <2>2. \A e \in heap : Entered(dist, heap, here, dist, e)
    BY DEF Entered
  <2>3. \A j \in 1..0 : Passed(dist, here, dist, j)
    OBVIOUS
  <2>4. Relaxed(dist, prev, heap, here, 0, dist, prev, heap)
    BY <2>1, <2>2, <2>3 DEF Relaxed
  <2> QED
    BY <1>3, <1>4, <2>4
<1>6. ASSUME NEW k \in 1..n, Good(k - 1) PROVE Good(k)
  <2>1. PICK d, p, h : q[k - 1] = Frontier(d, p, h, here) /\ Relaxed(dist, prev, heap, here, k - 1, d, p, h)
    BY <1>6
  <2>2. k \in DOMAIN csr.out[here]
    BY <1>1, <1>2
  <2>3. PICK d2, p2, h2 : /\ Relax(Frontier(d, p, h, here), csr.out[here][k]) = Frontier(d2, p2, h2, here)
                          /\ Relaxed(dist, prev, heap, here, k, d2, p2, h2)
    <3>1. Relaxed(dist, prev, heap, here, k - 1, d, p, h)
      BY <2>1
    <3> HIDE DEF Good, U
    <3> QED
      BY ZenonT(60), <2>2, <3>1, RelaxOne
  <2>4. q[k] = Frontier(d2, p2, h2, here)
    BY <1>1, <1>4, <2>1, <2>3
  <2> QED
    BY <2>3, <2>4
<1>7. U = {}
  <2>1. ASSUME NEW k \in 1..n, k \in U PROVE k - 1 \in U
    <3>1. k - 1 \in 0..n
      OBVIOUS
    <3> QED
      BY <1>6, <2>1, <3>1
  <2>2. U \subseteq 0..n
    OBVIOUS
  <2> HIDE DEF U
  <2> QED
    BY <1>5, <2>1, <2>2, NothingFrom
<1>8. Good(n)
  BY <1>7
<1> QED
  BY <1>1, <1>2, <1>3, <1>4, <1>8

(* The search so far.  A node's distance is that of a way to it over nodes *)
(* visited before it; what is not visited waits in the heap, no nearer     *)
(* than what is; and from what is visited every edge has been relaxed.     *)
Visited(visited, i) == \E k \in DOMAIN visited : visited[k] = i
Earlier(visited, a, b) ==
  \E j \in DOMAIN visited : visited[j] = a /\ \A k \in DOMAIN visited : visited[k] = b => j < k

Reached(dist, prev, visited, i) ==
  /\ Earlier(visited, prev[i], i)
  /\ \E c : Way(prev[i], i, c) /\ dist[i] = dist[prev[i]] + c

Settled(dist, visited, heap) ==
  /\ \A k \in DOMAIN visited : dist[visited[k]] # None
  /\ \A k \in DOMAIN visited : \A e \in heap : dist[visited[k]] <= e.dist
  /\ \A j, k \in DOMAIN visited : j < k => dist[visited[j]] <= dist[visited[k]]

Explored(dist, visited) ==
  \A k \in DOMAIN visited : \A b, c : Way(visited[k], b, c) => dist[b] # None /\ dist[b] <= dist[visited[k]] + c

Progress(dist, prev, visited, heap) ==
  /\ dist \in [Vertices -> Numbers] /\ prev \in [Vertices -> Places] /\ heap \in SUBSET Entries
  /\ visited \in Seq(Vertices) /\ \A j, k \in DOMAIN visited : visited[j] = visited[k] => j = k
  /\ dist[1] = 0 /\ prev[1] = None /\ ~Visited(visited, goal)
  /\ \A e \in heap : dist[e.node] # None /\ dist[e.node] <= e.dist
  /\ \A i \in Vertices : dist[i] # None /\ ~Visited(visited, i) => [dist |-> dist[i], node |-> i] \in heap
  /\ Settled(dist, visited, heap)
  /\ Explored(dist, visited)
  /\ \A i \in Vertices : i # 1 /\ dist[i] # None => Reached(dist, prev, visited, i)

(* The end: nothing is left, or nothing nearer than the goal.              *)
Over(dist, heap) ==
  \/ heap = {}
  \/ goal \in Vertices /\ dist[goal] # None /\ \A e \in heap : dist[goal] <= e.dist

Searched(dist, prev, visited, heap, done) ==
  [dist |-> dist, prev |-> prev, visited |-> visited, heap |-> heap, done |-> done]

PathInv ==
  /\ GraphInv /\ goal \in Places
  /\ \E dist, prev, visited, heap, done :
       /\ search = Searched(dist, prev, visited, heap, done)
       /\ done \in BOOLEAN /\ Progress(dist, prev, visited, heap)
       /\ done => Over(dist, heap)

(* Of what is nearest, there is the greatest index.                        *)
LEMMA NearestIs ==
  ASSUME GraphInv, NEW heap \in SUBSET Entries, heap # {}
  PROVE  Nearest(heap) \in heap /\ \A y \in heap : Nearest(heap).dist <= y.dist
<1>1. \A x \in heap : x.dist \in Nat /\ x.node \in Vertices
  BY DEF Entries
<1>2. PICK D : D = {x.dist : x \in heap} /\ D \subseteq Nat /\ D # {}
  BY <1>1
<1>3. PICK d \in D : \A y \in D : d <= y
  BY <1>2, LeastNatural
<1>4. PICK K : K = {x.node : x \in {y \in heap : y.dist = d}}
  OBVIOUS
<1>5. K \subseteq Nat /\ K # {} /\ \A k \in K : k <= N
  BY <1>1, <1>2, <1>4 DEF Vertices
<1>6. PICK k \in K : \A j \in K : j <= k
  BY <1>5, BoundedGreatest DEF GraphInv
<1>7. PICK x \in heap : x.dist = d /\ x.node = k
  BY <1>4
<1>8. \A y \in heap : x.dist < y.dist \/ (x.dist = y.dist /\ x.node >= y.node)
  <2>1. ASSUME NEW y \in heap PROVE x.dist < y.dist \/ (x.dist = y.dist /\ x.node >= y.node)
    <3>1. d <= y.dist /\ d \in Nat /\ y.dist \in Nat
      BY <1>1, <1>2, <1>3
    <3>2. y.dist = d => y.node \in K
      BY <1>4
    <3>3. y.dist = d => y.node <= k
      BY <1>6, <3>2
    <3>4. k \in Nat /\ y.node \in Nat
      BY <1>1, <1>7 DEF Vertices
    <3> QED
      BY <1>7, <3>1, <3>3, <3>4
  <2> QED
    BY <2>1
<1>9. PICK z \in heap : z = Nearest(heap) /\ \A y \in heap : z.dist < y.dist \/ (z.dist = y.dist /\ z.node >= y.node)
  BY <1>8 DEF Nearest
<1>10. \A y \in heap : z.dist <= y.dist
  BY <1>1, <1>9
<1> QED
  BY <1>9, <1>10

(* What is nearest, when it is not visited, is entered with its distance.  *)
LEMMA NearestEntry ==
  ASSUME GraphInv, NEW dist, NEW prev, NEW visited, NEW heap, Progress(dist, prev, visited, heap), heap # {}
  PROVE  LET next == Nearest(heap)
         IN /\ next \in Entries /\ next \in heap /\ next.node \in Vertices /\ next.dist \in Nat
            /\ dist[next.node] \in Nat /\ dist[next.node] <= next.dist
            /\ \A e \in heap : next.dist <= e.dist
            /\ ~Visited(visited, next.node) =>
                 dist[next.node] = next.dist /\ next = [dist |-> dist[next.node], node |-> next.node]
<1>1. PICK next : next = Nearest(heap)
  OBVIOUS
<1>2. /\ heap \in SUBSET Entries /\ dist \in [Vertices -> Numbers]
      /\ \A e \in heap : dist[e.node] # None /\ dist[e.node] <= e.dist
      /\ \A i \in Vertices : dist[i] # None /\ ~Visited(visited, i) => [dist |-> dist[i], node |-> i] \in heap
  BY DEF Progress
<1>3. next \in heap /\ \A e \in heap : next.dist <= e.dist
  BY <1>1, <1>2, NearestIs
<1>4. next \in Entries /\ next.node \in Vertices /\ next.dist \in Nat /\ next = [dist |-> next.dist, node |-> next.node]
  BY <1>2, <1>3 DEF Entries
<1>5. dist[next.node] \in Nat /\ dist[next.node] # None /\ dist[next.node] <= next.dist
  BY <1>2, <1>3, <1>4 DEF Numbers
<1>6. ASSUME ~Visited(visited, next.node) PROVE dist[next.node] = next.dist
  <2>1. PICK e \in heap : e = [dist |-> dist[next.node], node |-> next.node]
    BY <1>2, <1>4, <1>5, <1>6
  <2>2. e.dist = dist[next.node] /\ next.dist <= e.dist
    BY <1>3, <2>1
  <2> QED
    BY <1>4, <1>5, <2>2
<1>7. ~Visited(visited, next.node) => next = [dist |-> dist[next.node], node |-> next.node]
  BY <1>4, <1>6
<1> QED
  BY <1>1, <1>3, <1>4, <1>5, <1>6, <1>7

(* What is visited already is dropped.                                     *)
LEMMA DropVisited ==
  ASSUME GraphInv, NEW dist, NEW prev, NEW visited, NEW heap, Progress(dist, prev, visited, heap),
         NEW next, Visited(visited, next.node)
  PROVE  Progress(dist, prev, visited, heap \ {next})
<1>1. PICK rest : rest = heap \ {next} /\ rest \subseteq heap
  OBVIOUS
<1>2. \A i \in Vertices : dist[i] # None /\ ~Visited(visited, i) => [dist |-> dist[i], node |-> i] \in rest
  <2>1. ASSUME NEW i \in Vertices, dist[i] # None, ~Visited(visited, i) PROVE [dist |-> dist[i], node |-> i] \in rest
    <3>1. PICK e \in heap : e = [dist |-> dist[i], node |-> i]
      BY <2>1 DEF Progress
    <3>2. e.node = i
      BY <3>1
    <3>3. e # next
      BY <2>1, <3>2
    <3> QED
      BY <1>1, <3>1, <3>3
  <2> QED
    BY <2>1
<1>3. Settled(dist, visited, rest)
  <2>1. Settled(dist, visited, heap)
    BY DEF Progress
  <2> QED
    BY <1>1, <2>1 DEF Settled
<1>4. rest \in SUBSET Entries /\ \A e \in rest : dist[e.node] # None /\ dist[e.node] <= e.dist
  BY <1>1 DEF Progress
<1>5. Progress(dist, prev, visited, rest)
  BY <1>2, <1>3, <1>4 DEF Progress
<1> QED
  BY <1>1, <1>5

(* Distances fall, but not those of what is visited or being visited.      *)
Falls(dist, prev, visited, here, d, p) ==
  /\ \A i \in Vertices : Visited(visited, i) \/ i = here \/ i = 1 => d[i] = dist[i] /\ p[i] = prev[i]
  /\ \A i \in Vertices : Visited(visited, i) => dist[i] \in Nat /\ dist[i] <= dist[here]
  /\ \A i \in Vertices : dist[i] # None => d[i] \in Nat /\ dist[i] \in Nat /\ d[i] <= dist[i]

(* They do when edges are relaxed.                                         *)
LEMMA Distances ==
  ASSUME GraphInv, NEW dist, NEW prev, NEW visited, NEW heap, Progress(dist, prev, visited, heap), heap # {},
         NEW here, here = Nearest(heap).node, ~Visited(visited, here),
         NEW n, NEW d, NEW p, NEW h, Relaxed(dist, prev, heap \ {Nearest(heap)}, here, n, d, p, h)
  PROVE  Falls(dist, prev, visited, here, d, p)
<1>1. /\ here \in Vertices /\ dist[here] \in Nat /\ Nearest(heap).dist = dist[here] /\ Nearest(heap) \in heap
  BY NearestEntry
<1>2. /\ dist \in [Vertices -> Numbers] /\ visited \in Seq(Vertices) /\ dist[1] = 0 /\ Settled(dist, visited, heap)
  BY DEF Progress
<1>3. None \notin Nat /\ \A i \in Vertices : dist[i] # None => dist[i] \in Nat
  BY <1>2, AlgorithmsAssumption DEF Numbers
<1>4. d \in [Vertices -> Numbers] /\ \A i \in Vertices : Improved(dist, prev, here, d, p, h, i)
  BY DEF Relaxed
<1>5. \A i \in Vertices : d[i] # None => d[i] \in Nat
  BY <1>4 DEF Numbers
<1>6. ASSUME NEW i \in Vertices, Visited(visited, i) PROVE dist[i] \in Nat /\ dist[i] <= dist[here]
  <2>1. PICK k \in DOMAIN visited : visited[k] = i
    BY <1>6 DEF Visited
  <2>2. dist[i] # None /\ dist[i] <= Nearest(heap).dist
    BY <1>1, <1>2, <2>1 DEF Settled
  <2> QED
    BY <1>1, <1>3, <2>2
<1>7. ASSUME NEW i \in Vertices, dist[i] # None, dist[i] <= dist[here] PROVE d[i] = dist[i] /\ p[i] = prev[i]
  <2>1. ASSUME NEW c, Way(here, i, c), d[i] = dist[here] + c, d[i] < dist[i] PROVE FALSE
    <3>1. c \in Nat /\ dist[i] \in Nat
      BY <1>1, <1>3, <1>7, <2>1, WayIs
    <3> QED
      BY <1>1, <1>7, <2>1, <3>1
  <2>2. Improved(dist, prev, here, d, p, h, i)
    BY <1>4
  <2> QED
    BY <1>7, <2>1, <2>2 DEF Improved
<1>8. ASSUME NEW i \in Vertices, Visited(visited, i) \/ i = here \/ i = 1 PROVE dist[i] # None /\ dist[i] <= dist[here]
  <2>1. dist[1] <= dist[here] /\ dist[1] # None
    BY <1>1, <1>2, <1>3
  <2> QED
    BY <1>1, <1>3, <1>6, <1>8, <2>1
<1>9. ASSUME NEW i \in Vertices, dist[i] # None PROVE d[i] \in Nat /\ dist[i] \in Nat /\ d[i] <= dist[i]
  <2>1. Improved(dist, prev, here, d, p, h, i)
    BY <1>4
  <2>2. dist[i] \in Nat
    BY <1>3, <1>9
  <2>3. d[i] = dist[i] \/ (d[i] # None /\ d[i] < dist[i])
    BY <1>9, <2>1 DEF Improved
  <2>4. CASE d[i] = dist[i]
    BY <2>2, <2>4
  <2>5. CASE d[i] # None /\ d[i] < dist[i]
    BY <1>5, <2>2, <2>5
  <2> QED
    BY <2>3, <2>4, <2>5
<1> QED
  BY <1>6, <1>7, <1>8, <1>9 DEF Falls

(* What is visited last.                                                   *)
JoinsLast(w, visited, here) ==
  /\ w \in Seq(Vertices) /\ Len(visited) \in Nat /\ DOMAIN visited = 1..Len(visited) /\ DOMAIN w = 1..(Len(visited) + 1)
  /\ \A k \in 1..Len(visited) : w[k] = visited[k] /\ k \in DOMAIN w
  /\ w[Len(visited) + 1] = here
  /\ \A i : Visited(w, i) <=> Visited(visited, i) \/ i = here

(* It is appended.                                                         *)
LEMMA VisitedAppended ==
  ASSUME NEW visited \in Seq(Vertices), NEW here \in Vertices
  PROVE  JoinsLast(Append(visited, here), visited, here)
<1>1. PICK w : w = Append(visited, here)
  OBVIOUS
<1>2. PICK n \in Nat : n = Len(visited) /\ DOMAIN visited = 1..n
  OBVIOUS
<1>3. /\ w \in Seq(Vertices) /\ DOMAIN w = 1..(n + 1) /\ w[n + 1] = here
      /\ \A k \in 1..n : w[k] = visited[k] /\ k \in DOMAIN w
  <2>1. w \in Seq(Vertices) /\ Len(w) = n + 1
    BY <1>1, <1>2
  <2>2. w[n + 1] = here /\ \A k \in 1..n : w[k] = visited[k]
    BY <1>1, <1>2
  <2>3. DOMAIN w = 1..(n + 1)
    BY <2>1
  <2> QED
    BY <2>1, <2>2, <2>3
<1>4. \A k \in 1..(n + 1) : k \in 1..n \/ k = n + 1
  OBVIOUS
<1>5. \A i : Visited(w, i) <=> Visited(visited, i) \/ i = here
  <2>1. n + 1 \in 1..(n + 1)
    OBVIOUS
  <2> QED
    BY <1>2, <1>3, <1>4, <2>1 DEF Visited
<1> QED
  BY <1>1, <1>2, <1>3, <1>5 DEF JoinsLast

(* A visit: its edges relaxed, a node joins the visited.                   *)
LEMMA VisitNode ==
  ASSUME GraphInv, NEW dist, NEW prev, NEW visited, NEW heap, Progress(dist, prev, visited, heap), heap # {},
         NEW here, here = Nearest(heap).node, ~Visited(visited, here), here # goal,
         NEW d, NEW p, NEW h, Relaxed(dist, prev, heap \ {Nearest(heap)}, here, Len(csr.out[here]), d, p, h)
  PROVE  Progress(d, p, Append(visited, here), h)
<1>1. PICK next : next = Nearest(heap)
  OBVIOUS
<1>2. /\ here \in Vertices /\ dist[here] \in Nat /\ next.dist = dist[here] /\ next \in heap
      /\ next = [dist |-> dist[here], node |-> here] /\ next.node = here
      /\ \A e \in heap : dist[here] <= e.dist
  BY <1>1, NearestEntry
<1>3. PICK old : old = heap \ {next}
  OBVIOUS
<1>4. /\ d \in [Vertices -> Numbers] /\ p \in [Vertices -> Places] /\ h \in SUBSET Entries /\ old \subseteq h
      /\ \A i \in Vertices : Improved(dist, prev, here, d, p, h, i)
      /\ \A e \in h : Entered(dist, old, here, d, e)
      /\ \A j \in 1..Len(csr.out[here]) : Passed(dist, here, d, j)
  BY <1>1, <1>3 DEF Relaxed
<1>5. /\ dist \in [Vertices -> Numbers] /\ heap \in SUBSET Entries
      /\ visited \in Seq(Vertices) /\ \A j, k \in DOMAIN visited : visited[j] = visited[k] => j = k
      /\ dist[1] = 0 /\ prev[1] = None /\ ~Visited(visited, goal)
      /\ \A e \in heap : dist[e.node] # None /\ dist[e.node] <= e.dist
      /\ \A i \in Vertices : dist[i] # None /\ ~Visited(visited, i) => [dist |-> dist[i], node |-> i] \in heap
      /\ Settled(dist, visited, heap)
      /\ Explored(dist, visited)
      /\ \A i \in Vertices : i # 1 /\ dist[i] # None => Reached(dist, prev, visited, i)
  BY DEF Progress
<1>6. /\ \A i \in Vertices : Visited(visited, i) \/ i = here \/ i = 1 => d[i] = dist[i] /\ p[i] = prev[i]
      /\ \A i \in Vertices : Visited(visited, i) => dist[i] \in Nat /\ dist[i] <= dist[here]
      /\ \A i \in Vertices : dist[i] # None => d[i] \in Nat /\ dist[i] \in Nat /\ d[i] <= dist[i]
  <2>1. Falls(dist, prev, visited, here, d, p)
    BY Distances
  <2> QED
    BY <2>1 DEF Falls
<1>7. PICK w, n : /\ w = Append(visited, here) /\ n = Len(visited)
                  /\ w \in Seq(Vertices) /\ n \in Nat /\ DOMAIN visited = 1..n /\ DOMAIN w = 1..(n + 1)
                  /\ \A k \in 1..n : w[k] = visited[k] /\ k \in DOMAIN w
                  /\ w[n + 1] = here
                  /\ \A i : Visited(w, i) <=> Visited(visited, i) \/ i = here
  <2>1. visited \in Seq(Vertices)
    BY <1>5
  <2>2. JoinsLast(Append(visited, here), visited, here)
    BY <1>2, <2>1, VisitedAppended
  <2>3. PICK w, n : w = Append(visited, here) /\ n = Len(visited)
    OBVIOUS
  <2> QED
    BY <2>2, <2>3 DEF JoinsLast
<1>8. \A k \in 1..(n + 1) : k \in 1..n \/ k = n + 1
  BY <1>7
<1>9. 1 \in Vertices /\ None \notin Nat
  BY AlgorithmsAssumption DEF Vertices, GraphInv
<1>10. \A k \in 1..n : visited[k] \in Vertices /\ Visited(visited, visited[k])
  BY <1>5, <1>7 DEF Visited
<1>11. \A k \in 1..(n + 1) : w[k] \in Vertices /\ d[w[k]] = dist[w[k]] /\ dist[w[k]] \in Nat /\ dist[w[k]] <= dist[here]
  BY <1>2, <1>6, <1>7, <1>8, <1>10
<1>12. \A j, k \in DOMAIN w : w[j] = w[k] => j = k
  <2>1. \A k \in 1..n : visited[k] # here
    BY <1>10
  <2> QED
    BY <1>5, <1>7, <1>8, <2>1
<1>13. d[1] = 0 /\ p[1] = None /\ ~Visited(w, goal)
  BY <1>5, <1>6, <1>7, <1>9
<1>14. ASSUME NEW e \in h PROVE d[e.node] # None /\ d[e.node] <= e.dist
  <2>1. CASE e \in old
    <3>1. e.node \in Vertices /\ e.dist \in Nat /\ e \in heap
      BY <1>3, <1>5, <2>1 DEF Entries
    <3>2. dist[e.node] # None /\ dist[e.node] <= e.dist
      BY <1>5, <3>1
    <3>3. d[e.node] \in Nat /\ dist[e.node] \in Nat /\ d[e.node] <= dist[e.node]
      BY <1>6, <3>1, <3>2
    <3> QED
      BY <1>9, <3>1, <3>2, <3>3
  <2>2. CASE e \notin old
    BY <1>4, <2>2 DEF Entered
  <2> QED
    BY <2>1, <2>2
<1>15. ASSUME NEW i \in Vertices, d[i] # None, ~Visited(w, i) PROVE [dist |-> d[i], node |-> i] \in h
  <2>1. ~Visited(visited, i) /\ i # here
    BY <1>7, <1>15
  <2>2. CASE d[i] = dist[i]
    <3>1. PICK e \in heap : e = [dist |-> dist[i], node |-> i]
      BY <1>5, <1>15, <2>1, <2>2
    <3>2. e # next
      <4>1. e.node = i
        BY <3>1
      <4> QED
        BY <1>2, <2>1, <4>1
    <3>3. e \in h
      BY <1>3, <1>4, <3>1, <3>2
    <3> QED
      BY <2>2, <3>1, <3>3
  <2>3. CASE d[i] # dist[i]
    <3>1. Improved(dist, prev, here, d, p, h, i)
      BY <1>4
    <3> QED
      BY <2>3, <3>1 DEF Improved
  <2> QED
    BY <2>2, <2>3
<1>16. Settled(d, w, h)
  <2>1. ASSUME NEW k \in 1..(n + 1), NEW e \in h PROVE d[w[k]] <= e.dist
    <3>1. dist[here] <= e.dist
      BY <1>2, <1>3, <1>4 DEF Entered
    <3>2. e.dist \in Nat
      BY <1>4 DEF Entries
    <3> QED
      BY <1>2, <1>11, <3>1, <3>2
  <2>2. ASSUME NEW j \in 1..(n + 1), NEW k \in 1..(n + 1), j < k PROVE d[w[j]] <= d[w[k]]
    <3>1. j \in 1..n
      BY <2>2, <1>7
    <3>2. CASE k \in 1..n
      <4>1. dist[visited[j]] <= dist[visited[k]]
        BY <1>5, <1>7, <2>2, <3>1, <3>2 DEF Settled
      <4> QED
        BY <1>7, <1>11, <3>1, <3>2, <4>1
    <3>3. CASE k = n + 1
      BY <1>7, <1>11, <3>3
    <3> QED
      BY <1>8, <3>2, <3>3
  <2>3. \A k \in 1..(n + 1) : d[w[k]] # None
    BY <1>9, <1>11
  <2> QED
    BY <1>7, <2>1, <2>2, <2>3 DEF Settled
<1>17. Explored(d, w)
  <2>1. ASSUME NEW k \in 1..(n + 1), NEW b, NEW c, Way(w[k], b, c) PROVE d[b] # None /\ d[b] <= d[w[k]] + c
    <3>1. b \in Vertices /\ c \in Nat
      BY <1>11, <2>1, WayIs
    <3>2. CASE k \in 1..n
      <4>1. w[k] = visited[k]
        BY <1>7, <3>2
      <4>2. dist[b] # None /\ dist[b] <= dist[w[k]] + c
        BY <1>5, <1>7, <2>1, <3>2, <4>1 DEF Explored
      <4>3. d[b] \in Nat /\ dist[b] \in Nat /\ d[b] <= dist[b]
        BY <1>6, <3>1, <4>2
      <4> QED
        BY <1>9, <1>11, <3>1, <4>2, <4>3
    <3>3. CASE k = n + 1
      <4>1. w[k] = here /\ d[w[k]] = dist[here]
        BY <1>6, <1>2, <1>7, <3>3
      <4>2. PICK j \in DOMAIN csr.out[here] : csr.out[here][j].node = b /\ EdgeCost(csr.out[here][j].weight) = c /\ c # None
        BY <2>1, <4>1 DEF Way
      <4>3. j \in 1..Len(csr.out[here])
        <5>1. csr.out[here] \in Seq(End(N))
          BY <1>2 DEF GraphInv, Snapshot, Vertices
        <5> QED
          BY <5>1
      <4>4. Passed(dist, here, d, j)
        BY <1>4, <4>3
      <4> QED
        BY <4>1, <4>2, <4>4 DEF Passed
    <3> QED
      BY <1>8, <3>2, <3>3
  <2> QED
    BY <1>7, <2>1 DEF Explored
<1>18. ASSUME NEW i \in Vertices, i # 1, d[i] # None PROVE Reached(d, p, w, i)
  <2>1. CASE d[i] = dist[i] /\ p[i] = prev[i]
    <3>1. Earlier(visited, prev[i], i) /\ \E c : Way(prev[i], i, c) /\ dist[i] = dist[prev[i]] + c
      BY <1>5, <1>18, <2>1 DEF Reached
    <3>2. PICK j \in 1..n : visited[j] = prev[i] /\ \A k \in 1..n : visited[k] = i => j < k
      BY <1>7, <3>1 DEF Earlier
    <3>3. \A k \in DOMAIN w : w[k] = i => j < k
      BY <1>7, <1>8, <3>2
    <3>4. j \in DOMAIN w /\ w[j] = p[i]
      BY <1>7, <2>1, <3>2
    <3>5. Earlier(w, p[i], i)
      BY <3>3, <3>4 DEF Earlier
    <3>6. d[p[i]] = dist[prev[i]]
      BY <1>6, <1>10, <2>1, <3>2
    <3> QED
      BY <2>1, <3>1, <3>5, <3>6 DEF Reached
  <2>2. CASE ~(d[i] = dist[i] /\ p[i] = prev[i])
    <3>1. p[i] = here /\ \E c : Way(here, i, c) /\ d[i] = dist[here] + c
      <4>1. Improved(dist, prev, here, d, p, h, i)
        BY <1>4
      <4> QED
        BY <2>2, <4>1 DEF Improved
    <3>2. ~Visited(visited, i) /\ i # here
      BY <1>6, <2>2
    <3>3. \A k \in DOMAIN w : w[k] # i
      BY <1>7, <3>2 DEF Visited
    <3>4. n + 1 \in DOMAIN w
      BY <1>7
    <3>5. Earlier(w, p[i], i)
      BY <1>7, <3>1, <3>3, <3>4 DEF Earlier
    <3>6. d[p[i]] = dist[here]
      BY <1>2, <1>6, <3>1
    <3> QED
      BY <3>1, <3>5, <3>6 DEF Reached
  <2> QED
    BY <2>1, <2>2
<1>19. Progress(d, p, w, h)
  BY <1>4, <1>7, <1>12, <1>13, <1>14, <1>15, <1>16, <1>17, <1>18 DEF Progress
<1> QED
  BY <1>7, <1>19

(* At first the first node waits to be visited.                            *)
LEMMA SearchStart == AlgorithmsInit => PathInv
<1> SUFFICES ASSUME AlgorithmsInit PROVE PathInv
  OBVIOUS
<1>1. GraphInv
  BY CommunitiesStart
<1>2. NodeIndices(csr) = Vertices /\ 1 \in Vertices /\ None \notin Nat
  BY <1>1, AdjacentIs, AlgorithmsAssumption DEF GraphInv, Vertices
<1>3. goal \in Places
  BY <1>2 DEF AlgorithmsInit, Places
<1>4. PICK dist, prev, visited, heap :
        /\ dist = [i \in Vertices |-> IF i = 1 THEN 0 ELSE None] /\ prev = [i \in Vertices |-> None]
        /\ visited = <<>> /\ heap = {[dist |-> 0, node |-> 1]}
  OBVIOUS
<1>5. search = Searched(dist, prev, visited, heap, FALSE)
  <2>1. search = [dist |-> [i \in NodeIndices(csr) |-> IF i = 1 THEN 0 ELSE None],
                  prev |-> [i \in NodeIndices(csr) |-> None],
                  visited |-> <<>>, heap |-> {[dist |-> 0, node |-> 1]}, done |-> FALSE]
    BY Zenon DEF AlgorithmsInit
  <2> QED
    BY Zenon, <1>2, <1>4, <2>1 DEF Searched
<1>6. /\ dist \in [Vertices -> Numbers] /\ dist[1] = 0 /\ \A i \in Vertices : dist[i] # None => i = 1
      /\ prev \in [Vertices -> Places] /\ prev[1] = None
  BY <1>2, <1>4 DEF Numbers, Places
<1>7. PICK e : e = [dist |-> 0, node |-> 1] /\ e \in Entries /\ e.dist = 0 /\ e.node = 1
  <2>1. PICK e : e = [dist |-> 0, node |-> 1]
    OBVIOUS
  <2>2. e \in Entries /\ e.dist = 0 /\ e.node = 1
    <3>1. 1 \in Vertices /\ 0 \in Nat
      BY <1>2
    <3> QED
      BY <2>1, <3>1 DEF Entries
  <2> QED
    BY <2>1, <2>2
<1>8. heap = {e}
  BY <1>4, <1>7
<1>9. visited \in Seq(Vertices) /\ DOMAIN visited = {}
  BY <1>4, EmptySeq
<1>10. \A k \in heap : dist[k.node] # None /\ dist[k.node] <= k.dist
  BY <1>2, <1>6, <1>7, <1>8
<1>11. ASSUME NEW i \in Vertices, dist[i] # None PROVE [dist |-> dist[i], node |-> i] \in heap
  BY <1>6, <1>7, <1>8, <1>11
<1>12. Settled(dist, visited, heap) /\ Explored(dist, visited) /\ ~Visited(visited, goal)
  BY <1>9 DEF Settled, Explored, Visited
<1>13. heap \in SUBSET Entries
  BY <1>7, <1>8
<1>14. Progress(dist, prev, visited, heap)
  BY <1>6, <1>9, <1>10, <1>11, <1>12, <1>13 DEF Progress
<1> QED
  BY <1>1, <1>3, <1>5, <1>14 DEF PathInv

(* A visit of what is nearest.                                             *)
LEMMA VisitKeeps ==
  ASSUME PathInv, VisitNearest
  PROVE  \E dist, prev, visited, heap, done :
           /\ search' = Searched(dist, prev, visited, heap, done)
           /\ done \in BOOLEAN /\ Progress(dist, prev, visited, heap)
           /\ done => Over(dist, heap)
<1>1. PICK dist, prev, visited, heap, done :
        /\ search = Searched(dist, prev, visited, heap, done)
        /\ done \in BOOLEAN /\ Progress(dist, prev, visited, heap)
        /\ done => Over(dist, heap)
  BY Zenon DEF PathInv
<1>2. /\ search.dist = dist /\ search.prev = prev /\ search.visited = visited /\ search.heap = heap
  <2>1. search = [dist |-> dist, prev |-> prev, visited |-> visited, heap |-> heap, done |-> done]
    BY <1>1 DEF Searched
  <2> QED
    BY <2>1
<1>3. heap # {} /\ GraphInv /\ goal \in Places
  <2>1. search.heap # {}
    BY Zenon DEF VisitNearest
  <2> QED
    BY <1>2, <2>1 DEF PathInv
<1>4. PICK next, here, at, relaxed :
        /\ next = Nearest(heap) /\ here = next.node
        /\ at = Frontier(dist, prev, heap \ {next}, here)
        /\ relaxed = FoldLeft(Relax, at, csr.out[here])
  OBVIOUS
<1>5. search' = IF here = goal THEN [search EXCEPT !.done = TRUE]
                ELSE IF Contains(visited, here) THEN [search EXCEPT !.heap = at.heap]
                ELSE [dist |-> relaxed.dist, prev |-> relaxed.prev, heap |-> relaxed.heap,
                      visited |-> Append(visited, here), done |-> FALSE]
  BY Zenon, <1>2, <1>4 DEF VisitNearest, Frontier
<1>6. /\ next \in heap /\ here \in Vertices /\ next.dist \in Nat /\ dist[here] \in Nat /\ dist[here] <= next.dist
      /\ \A e \in heap : next.dist <= e.dist
  BY <1>1, <1>3, <1>4, NearestEntry
<1>7. heap \in SUBSET Entries /\ dist \in [Vertices -> Numbers] /\ prev \in [Vertices -> Places] /\ visited \in Seq(Vertices)
  BY <1>1 DEF Progress
<1>8. Contains(visited, here) <=> Visited(visited, here)
  <2>1. DOMAIN visited = 1..Len(visited)
    BY <1>7
  <2> QED
    BY <2>1 DEF Contains, Visited
<1>9. CASE here = goal
  <2>1. search' = [search EXCEPT !.done = TRUE]
    BY Zenon, <1>5, <1>9
  <2>2. [search EXCEPT !.done = TRUE] = Searched(dist, prev, visited, heap, TRUE)
    <3>1. search = [dist |-> dist, prev |-> prev, visited |-> visited, heap |-> heap, done |-> done]
      BY <1>1 DEF Searched
    <3>2. PICK t : t = TRUE
      OBVIOUS
    <3>3. [search EXCEPT !.done = t] = [dist |-> dist, prev |-> prev, visited |-> visited, heap |-> heap, done |-> t]
      BY <3>1
    <3> QED
      BY Zenon, <3>2, <3>3 DEF Searched
  <2>3. ASSUME NEW e \in heap PROVE dist[goal] <= e.dist
    <3>1. e.dist \in Nat
      BY <1>7 DEF Entries
    <3> QED
      BY <1>6, <1>9, <3>1
  <2>4. dist[goal] # None
    BY <1>6, <1>9, AlgorithmsAssumption
  <2>5. Over(dist, heap)
    BY <1>6, <1>9, <2>3, <2>4 DEF Over
  <2>6. search' = Searched(dist, prev, visited, heap, TRUE)
    BY Zenon, <2>1, <2>2
  <2> QED
    BY <1>1, <2>5, <2>6
<1>10. CASE here # goal /\ Visited(visited, here)
  <2>1. search' = [search EXCEPT !.heap = at.heap]
    BY Zenon, <1>5, <1>8, <1>10
  <2>2. at.heap = heap \ {next}
    BY <1>4 DEF Frontier
  <2>3. [search EXCEPT !.heap = heap \ {next}] = Searched(dist, prev, visited, heap \ {next}, done)
    <3>1. PICK rest : rest = heap \ {next}
      OBVIOUS
    <3>2. [search EXCEPT !.heap = rest] = Searched(dist, prev, visited, rest, done)
      BY <1>1 DEF Searched
    <3> QED
      BY <3>1, <3>2
  <2>4. Progress(dist, prev, visited, heap \ {next})
    BY <1>1, <1>3, <1>4, <1>10, DropVisited
  <2>5. done = FALSE
    <3>1. ~search.done
      BY Zenon DEF VisitNearest
    <3>2. search.done = done
      <4>1. search = [dist |-> dist, prev |-> prev, visited |-> visited, heap |-> heap, done |-> done]
        BY <1>1 DEF Searched
      <4> QED
        BY <4>1
    <3> QED
      BY <1>1, <3>1, <3>2
  <2>6. search' = Searched(dist, prev, visited, heap \ {next}, FALSE)
    BY Zenon, <2>1, <2>2, <2>3, <2>5
  <2> QED
    BY <2>4, <2>6
<1>11. CASE here # goal /\ ~Visited(visited, here)
  <2>1. search' = [dist |-> relaxed.dist, prev |-> relaxed.prev, heap |-> relaxed.heap,
                   visited |-> Append(visited, here), done |-> FALSE]
    BY Zenon, <1>5, <1>8, <1>11
  <2>2. dist[here] # None /\ heap \ {next} \in SUBSET Entries
    BY <1>6, <1>7, AlgorithmsAssumption
  <2>3. PICK d, p, h : /\ FoldLeft(Relax, Frontier(dist, prev, heap \ {next}, here), csr.out[here]) = Frontier(d, p, h, here)
                       /\ Relaxed(dist, prev, heap \ {next}, here, Len(csr.out[here]), d, p, h)
    BY <1>3, <1>6, <1>7, <2>2, RelaxAll
  <2>4. relaxed = [dist |-> d, prev |-> p, heap |-> h, here |-> here]
    BY <1>4, <2>3 DEF Frontier
  <2>5. relaxed.dist = d /\ relaxed.prev = p /\ relaxed.heap = h
    BY <2>4
  <2>6. search' = [dist |-> d, prev |-> p, visited |-> Append(visited, here), heap |-> h, done |-> FALSE]
    BY <2>1, <2>5
  <2>7. search' = Searched(d, p, Append(visited, here), h, FALSE)
    BY Zenon, <2>6 DEF Searched
  <2>8. Progress(d, p, Append(visited, here), h)
    BY <1>1, <1>3, <1>4, <1>11, <2>3, VisitNode
  <2> QED
    BY <2>7, <2>8
<1> QED
  BY <1>9, <1>10, <1>11

(* What a search has found stays true of the snapshot and its goal.        *)
LEMMA ProgressStays ==
  ASSUME GraphInv, UNCHANGED csr, UNCHANGED goal,
         NEW dist, NEW prev, NEW visited, NEW heap
  PROVE  /\ Progress(dist, prev, visited, heap) => Progress(dist, prev, visited, heap)'
         /\ Over(dist, heap) => Over(dist, heap)'
<1>1. Vertices' = Vertices /\ Places' = Places /\ Entries' = Entries
  <2>1. Vertices' = Vertices
    BY SnapshotStays
  <2> QED
    BY <2>1 DEF Places, Entries
<1>2. \A a, b, c : Way(a, b, c)' <=> Way(a, b, c)
  BY DEF Way
<1>3. Over(dist, heap)' <=> Over(dist, heap)
  BY <1>1 DEF Over
<1>4. ASSUME Progress(dist, prev, visited, heap) PROVE Progress(dist, prev, visited, heap)'
  <2>1. (Explored(dist, visited))'
    <3>1. Explored(dist, visited)
      BY <1>4 DEF Progress
    <3> QED
      BY <1>2, <3>1 DEF Explored
  <2>2. (\A i \in Vertices : i # 1 /\ dist[i] # None => Reached(dist, prev, visited, i))'
    <3>1. \A i \in Vertices : i # 1 /\ dist[i] # None => Reached(dist, prev, visited, i)
      BY <1>4 DEF Progress
    <3>2. \A i : Reached(dist, prev, visited, i)' <=> Reached(dist, prev, visited, i)
      BY <1>2 DEF Reached
    <3> QED
      BY <1>1, <3>1, <3>2
  <2>3. (~Visited(visited, goal))'
    BY <1>4 DEF Progress, Visited
  <2>4. (/\ dist \in [Vertices -> Numbers] /\ prev \in [Vertices -> Places] /\ heap \in SUBSET Entries
         /\ visited \in Seq(Vertices))'
    BY <1>1, <1>4 DEF Progress
  <2>5. (\A i \in Vertices : dist[i] # None /\ ~Visited(visited, i) => [dist |-> dist[i], node |-> i] \in heap)'
    BY <1>1, <1>4 DEF Progress
  <2>6. /\ \A j, k \in DOMAIN visited : visited[j] = visited[k] => j = k
        /\ dist[1] = 0 /\ prev[1] = None
        /\ \A e \in heap : dist[e.node] # None /\ dist[e.node] <= e.dist
        /\ Settled(dist, visited, heap)
    BY <1>4 DEF Progress
  <2> QED
    BY <2>1, <2>2, <2>3, <2>4, <2>5, <2>6 DEF Progress
<1> QED
  BY <1>3, <1>4

(* So it is found step by step.                                            *)
LEMMA SearchStep == PathInv /\ [AlgorithmsNext]_algorithmVars => PathInv'
<1> SUFFICES ASSUME PathInv, [AlgorithmsNext]_algorithmVars PROVE PathInv'
  OBVIOUS
<1>1. csr' = csr /\ goal' = goal
  BY Zenon DEF AlgorithmsNext, VisitNearest, HeapEmpty, UnionEdge, AdoptLabel, EndRound, algorithmVars
<1>2. GraphInv /\ goal \in Places
  BY DEF PathInv
<1>3. GraphInv' /\ (goal \in Places)'
  <2>1. GraphInv' /\ Vertices' = Vertices
    BY <1>1, <1>2, SnapshotStays
  <2> QED
    BY <1>1, <1>2, <2>1 DEF Places
<1>4. \E dist, prev, visited, heap, done :
        /\ search' = Searched(dist, prev, visited, heap, done)
        /\ done \in BOOLEAN /\ Progress(dist, prev, visited, heap)
        /\ done => Over(dist, heap)
  <2>1. CASE VisitNearest
    BY <2>1, VisitKeeps
  <2>2. CASE HeapEmpty
    <3>1. PICK dist, prev, visited, heap, done :
            /\ search = Searched(dist, prev, visited, heap, done)
            /\ done \in BOOLEAN /\ Progress(dist, prev, visited, heap)
      BY Zenon DEF PathInv
    <3>2. search = [dist |-> dist, prev |-> prev, visited |-> visited, heap |-> heap, done |-> done]
      BY <3>1 DEF Searched
    <3>3. heap = {}
      <4>1. search.heap = {}
        BY Zenon, <2>2 DEF HeapEmpty
      <4> QED
        BY <3>2, <4>1
    <3>4. PICK t : t = TRUE
      OBVIOUS
    <3>5. [search EXCEPT !.done = t] = [dist |-> dist, prev |-> prev, visited |-> visited, heap |-> heap, done |-> t]
      BY <3>2
    <3>6. search' = Searched(dist, prev, visited, heap, TRUE)
      BY Zenon, <2>2, <3>4, <3>5 DEF Searched, HeapEmpty
    <3>7. Over(dist, heap)
      BY <3>3 DEF Over
    <3> QED
      BY <3>1, <3>6, <3>7
  <2>3. CASE search' = search
    <3>1. PICK dist, prev, visited, heap, done :
            /\ search = Searched(dist, prev, visited, heap, done)
            /\ done \in BOOLEAN /\ Progress(dist, prev, visited, heap)
            /\ done => Over(dist, heap)
      BY Zenon DEF PathInv
    <3> QED
      BY Zenon, <2>3, <3>1
  <2>4. VisitNearest \/ HeapEmpty \/ search' = search
    BY Zenon DEF AlgorithmsNext, UnionEdge, AdoptLabel, EndRound, algorithmVars
  <2> QED
    BY <2>1, <2>2, <2>3, <2>4
<1>5. PICK dist, prev, visited, heap, done :
        /\ search' = Searched(dist, prev, visited, heap, done)
        /\ done \in BOOLEAN /\ Progress(dist, prev, visited, heap)
        /\ done => Over(dist, heap)
  BY <1>4
<1>6. Progress(dist, prev, visited, heap)' /\ (done => Over(dist, heap)')
  BY <1>1, <1>2, <1>5, ProgressStays
<1>7. search' = Searched(dist, prev, visited, heap, done)'
  BY Zenon, <1>5 DEF Searched
<1>8. (\E x1, x2, x3, x4, x5 :
         /\ search = Searched(x1, x2, x3, x4, x5)
         /\ x5 \in BOOLEAN /\ Progress(x1, x2, x3, x4)
         /\ x5 => Over(x1, x4))'
  BY Zenon, <1>5, <1>6, <1>7
<1> QED
  BY Zenon, <1>3, <1>8 DEF PathInv

(* It is true throughout.                                                  *)
LEMMA PathInvariant == AlgorithmsSpec => []PathInv
<1>1. AlgorithmsInit => PathInv
  BY SearchStart
<1>2. PathInv /\ [AlgorithmsNext]_algorithmVars => PathInv'
  BY SearchStep
<1> QED
  BY <1>1, <1>2, PTL DEF AlgorithmsSpec

(* A total in any order is the sum.                                        *)
LEMMA TotalIsSum ==
  ASSUME NEW S, IsFiniteSet(S), NEW w \in [S -> Nat], NEW g, Totals(g, S, w)
  PROVE  g[S] = SumFunction(w)
<1> DEFINE ch == AnyOf(S)
<1>1. PICK h \in [SUBSET S -> Nat] : SumOf(w) = h[S] /\ IsSum(h, w, S)
  BY PartialSums
<1>2. g[{}] = 0 /\ \A T \in SUBSET S : \A x \in T : g[T] = w[x] + g[T \ {x}]
  BY DEF Totals
<1> DEFINE F == {T \in SUBSET S : g[T] # h[T]}
<1>3. F = {}
  <2> SUFFICES ASSUME F # {} PROVE FALSE
    OBVIOUS
  <2>1. \A T \in F : IsFiniteSet(T)
    BY FS_Subset
  <2>2. PICK T \in F : \A s \in F : s \subseteq T => s = T
    <3> HIDE DEF F
    <3> QED
      BY <2>1, LeastSubset
  <2>3. T # {}
    <3>1. h[{}] = 0
      BY <1>1 DEF IsSum
    <3> QED
      BY <1>2, <2>2, <3>1
  <2>4. ch[T] \in T /\ T \in SUBSET S
    BY <2>3, AnyOfChooses DEF Chooses, ch
  <2> HIDE DEF ch
  <2>5. T \ {ch[T]} \in SUBSET S /\ T \ {ch[T]} \notin F
    BY <2>2, <2>4
  <2>6. h[T] = w[ch[T]] + h[T \ {ch[T]}]
    BY <1>1, <2>3, <2>4 DEF IsSum, ch
  <2>7. g[T] = w[ch[T]] + g[T \ {ch[T]}]
    BY <1>2, <2>4
  <2> QED
    BY <2>2, <2>5, <2>6, <2>7
<1>4. g[S] = h[S]
  BY <1>3
<1> QED
  BY <1>1, <1>4, SumFunctionIs

(* The sum, summand after summand.                                         *)
Running(s, w, n) ==
  /\ s \in [0..n -> Nat] /\ s[0] = 0 /\ s[n] = SumFunction(w)
  /\ \A k \in 1..n : s[k] = s[k - 1] + w[k]
  /\ \A k \in 0..n : s[k] <= s[n]

(* It can be added up so.                                                  *)
LEMMA RunningSums == ASSUME NEW n \in Nat, NEW w \in [1..n -> Nat] PROVE \E s : Running(s, w, n)
<1>1. IsFiniteSet(1..n)
  BY FS_Interval
<1>2. PICK g : Totals(g, 1..n, w)
  BY <1>1, TotalsExist
<1>3. g[1..n] = SumFunction(w)
  BY <1>1, <1>2, TotalIsSum
<1>4. PICK s : s = [k \in 0..n |-> g[1..k]]
  OBVIOUS
<1>5. \A k \in 0..n : 1..k \in SUBSET (1..n)
  OBVIOUS
<1>6. s \in [0..n -> Nat] /\ \A k \in 0..n : s[k] = g[1..k]
  BY <1>2, <1>4, <1>5 DEF Totals
<1>7. s[0] = 0
  <2>1. 1..0 = {} /\ 0 \in 0..n
    OBVIOUS
  <2> QED
    BY <1>2, <1>6, <2>1 DEF Totals
<1>8. ASSUME NEW k \in 1..n PROVE s[k] = s[k - 1] + w[k]
  <2>1. k \in 1..k /\ k \in 0..n /\ k - 1 \in 0..n /\ (1..k) \ {k} = 1..(k - 1)
    OBVIOUS
  <2>2. g[1..k] = w[k] + g[(1..k) \ {k}]
    BY <1>2, <1>5, <2>1 DEF Totals
  <2>3. s[k] = w[k] + s[k - 1]
    BY <1>6, <2>1, <2>2
  <2>4. w[k] \in Nat /\ s[k - 1] \in Nat
    BY <1>6, <2>1
  <2> QED
    BY <2>3, <2>4
<1>9. ASSUME NEW k \in 0..n PROVE s[k] <= s[n]
  <2>1. (1..k) \cup ((k + 1)..n) = 1..n /\ (1..k) \cap ((k + 1)..n) = {} /\ (k + 1)..n \in SUBSET (1..n)
    OBVIOUS
  <2>2. g[1..n] = g[1..k] + g[(k + 1)..n]
    <3>1. PICK S : S = 1..n /\ IsFiniteSet(S)
      BY <1>1
    <3>2. PICK v \in [S -> Nat] : Totals(g, S, v)
      BY <1>2, <3>1
    <3>3. PICK A \in SUBSET S, B \in SUBSET S : A = 1..k /\ B = (k + 1)..n /\ A \cap B = {}
      BY <1>5, <2>1, <3>1
    <3>4. g[A \cup B] = g[A] + g[B]
      <4>1. IsFiniteSet(S)
        BY <3>1
      <4>2. A \cap B = {}
        BY <3>3
      <4> QED
        BY <3>2, <4>1, <4>2, TotalsAdd
    <3>5. A \cup B = 1..n
      BY <2>1, <3>3
    <3> QED
      BY <3>3, <3>4, <3>5
  <2>3. g[1..k] \in Nat /\ g[(k + 1)..n] \in Nat
    BY <1>2, <1>5, <2>1 DEF Totals
  <2>4. s[n] = g[1..n] /\ s[k] = g[1..k]
    BY <1>6
  <2> QED
    BY <2>2, <2>3, <2>4
<1>10. s[n] = SumFunction(w)
  BY <1>3, <1>6
<1> QED
  BY <1>6, <1>7, <1>8, <1>9, <1>10 DEF Running

(* What can be passed, and what it costs at least.                         *)
LEMMA HopCostIs ==
  ASSUME GraphInv, NEW a \in Vertices, NEW b \in Vertices
  PROVE  /\ Passable(a, b) # {} <=> \E c : Way(a, b, c)
         /\ Passable(a, b) # {} => HopCost(a, b) \in Nat /\ Way(a, b, HopCost(a, b))
         /\ \A c : Way(a, b, c) => HopCost(a, b) <= c
<1>1. ASSUME NEW c PROVE (\E e \in Passable(a, b) : EdgeCost(e[3]) = c) <=> Way(a, b, c)
  <2>1. ASSUME NEW e \in Passable(a, b), EdgeCost(e[3]) = c PROVE Way(a, b, c)
    <3>1. PICK i \in Vertices : \E k \in DOMAIN csr.out[i] : e = <<i, csr.out[i][k].node, csr.out[i][k].weight>>
      BY AdjacentIs DEF Passable, EdgesOf
    <3>2. PICK k \in DOMAIN csr.out[i] : e = <<i, csr.out[i][k].node, csr.out[i][k].weight>>
      BY <3>1
    <3>3. PICK node, weight : node = csr.out[i][k].node /\ weight = csr.out[i][k].weight /\ weight \in Nat
      BY AdjacentIs
    <3>4. e[1] = i /\ e[2] = node /\ e[3] = weight
      BY <3>2, <3>3
    <3>5. i = a /\ node = b /\ weight > 0
      BY <3>4 DEF Passable
    <3>6. EdgeCost(weight) # None
      BY <3>3, <3>5, CostIs
    <3> QED
      BY <2>1, <3>3, <3>4, <3>5, <3>6 DEF Way
  <2>2. ASSUME Way(a, b, c) PROVE \E e \in Passable(a, b) : EdgeCost(e[3]) = c
    <3>1. PICK k \in DOMAIN csr.out[a] : csr.out[a][k].node = b /\ EdgeCost(csr.out[a][k].weight) = c /\ c # None
      BY <2>2 DEF Way
    <3>2. PICK weight \in Nat : weight = csr.out[a][k].weight
      BY AdjacentIs
    <3>3. weight > 0
      BY <3>1, <3>2, CostIs
    <3>4. PICK e : e = <<a, b, weight>>
      OBVIOUS
    <3>5. e \in EdgesOf(csr)
      BY <3>1, <3>2, <3>4, AdjacentIs DEF EdgesOf
    <3>6. e[1] = a /\ e[2] = b /\ e[3] = weight
      BY <3>4
    <3>7. e \in Passable(a, b)
      BY <3>3, <3>5, <3>6 DEF Passable
    <3> QED
      BY <3>1, <3>2, <3>6, <3>7
  <2> QED
    BY <2>1, <2>2
<1>2. PICK costs : costs = {EdgeCost(e[3]) : e \in Passable(a, b)}
  OBVIOUS
<1>3. \A c : c \in costs <=> Way(a, b, c)
  BY <1>1, <1>2
<1>4. costs \subseteq Nat
  BY <1>3, WayIs
<1>5. Passable(a, b) # {} <=> costs # {}
  BY <1>2
<1>6. HopCost(a, b) = CHOOSE c \in costs : \A d \in costs : c <= d
  BY <1>2 DEF HopCost
<1>7. ASSUME costs # {} PROVE HopCost(a, b) \in costs /\ \A d \in costs : HopCost(a, b) <= d
  <2>1. \E c \in costs : \A d \in costs : c <= d
    BY <1>4, <1>7, LeastNatural
  <2> QED
    BY <1>6, <2>1
<1> QED
  BY <1>3, <1>4, <1>5, <1>7

(* A path from the first node over edges that can be passed, and what it   *)
(* costs up to each of its nodes.                                          *)
Traverses(path, n, to) ==
  /\ path \in [1..n -> Vertices] /\ path[1] = 1 /\ path[n] = to
  /\ \A k \in 1..(n - 1) : /\ HopCost(path[k], path[k + 1]) \in Nat
                           /\ Way(path[k], path[k + 1], HopCost(path[k], path[k + 1]))
Costing(s, path, n) ==
  /\ s \in [0..(n - 1) -> Nat] /\ s[0] = 0 /\ s[n - 1] = PathCost(path)
  /\ \A k \in 1..(n - 1) : s[k] = s[k - 1] + HopCost(path[k], path[k + 1])
  /\ \A k \in 0..(n - 1) : s[k] <= s[n - 1]

(* It costs something.                                                     *)
LEMMA PathCosts ==
  ASSUME GraphInv, NEW n \in Nat \ {0}, NEW to, NEW path, Traverses(path, n, to)
  PROVE  \E s : Costing(s, path, n)
<1>1. PICK last \in Nat : last = n - 1
  OBVIOUS
<1>2. path \in [1..n -> Vertices] /\ Len(path) = n
  <2>1. path \in [1..n -> Vertices]
    BY DEF Traverses
  <2> QED
    BY <2>1
<1>3. PICK w : w = [k \in 1..last |-> HopCost(path[k], path[k + 1])]
  OBVIOUS
<1>4. w \in [1..last -> Nat]
  BY <1>1, <1>3 DEF Traverses
<1>5. PICK s : Running(s, w, last)
  BY <1>4, RunningSums
<1>6. PathCost(path) = SumFunction(w)
  BY <1>1, <1>2, <1>3 DEF PathCost
<1>7. \A k \in 1..last : w[k] = HopCost(path[k], path[k + 1])
  BY <1>3
<1> QED
  BY <1>1, <1>5, <1>6, <1>7 DEF Running, Costing

(* The simple paths are such.                                              *)
LEMMA PathIs ==
  ASSUME GraphInv, NEW to, NEW path \in SimplePaths(1, to)
  PROVE  \E n \in Nat \ {0} : Traverses(path, n, to)
<1>1. PICK n \in 1..N : path \in [1..n -> Vertices]
  BY AdjacentIs DEF SimplePaths, N
<1>2. Len(path) = n /\ n \in Nat \ {0}
  BY <1>1
<1>3. path[1] = 1 /\ path[n] = to /\ \A k \in 1..(n - 1) : Passable(path[k], path[k + 1]) # {}
  BY <1>2 DEF SimplePaths
<1>4. ASSUME NEW k \in 1..(n - 1)
      PROVE  HopCost(path[k], path[k + 1]) \in Nat /\ Way(path[k], path[k + 1], HopCost(path[k], path[k + 1]))
  <2>1. path[k] \in Vertices /\ path[k + 1] \in Vertices
    BY <1>1, <1>2
  <2> QED
    BY <1>3, <2>1, HopCostIs
<1> QED
  BY <1>1, <1>2, <1>3, <1>4 DEF Traverses

(* No path to a node costs less than its distance: what it visits first is *)
(* no farther, and the first it does not is in the heap.                   *)
LEMMA NoCheaperPath ==
  ASSUME GraphInv, NEW dist, NEW prev, NEW visited, NEW heap, Progress(dist, prev, visited, heap), Over(dist, heap),
         NEW to \in Vertices, NEW path \in SimplePaths(1, to)
  PROVE  /\ PathCost(path) \in Nat
         /\ heap = {} => Visited(visited, to) /\ dist[to] \in Nat /\ dist[to] <= PathCost(path)
         /\ to = goal => heap # {} /\ dist[to] \in Nat /\ dist[to] <= PathCost(path)
<1>1. PICK n \in Nat \ {0} : Traverses(path, n, to)
  BY PathIs
<1>2. PICK s : Costing(s, path, n)
  BY <1>1, PathCosts
<1>3. path \in [1..n -> Vertices] /\ path[1] = 1 /\ path[n] = to
  BY <1>1 DEF Traverses
<1>4. /\ s \in [0..(n - 1) -> Nat] /\ s[0] = 0 /\ s[n - 1] = PathCost(path)
      /\ \A k \in 0..(n - 1) : s[k] <= s[n - 1]
  BY <1>2 DEF Costing
<1>5. /\ dist \in [Vertices -> Numbers] /\ dist[1] = 0 /\ ~Visited(visited, goal)
      /\ \A i \in Vertices : dist[i] # None /\ ~Visited(visited, i) => [dist |-> dist[i], node |-> i] \in heap
      /\ Explored(dist, visited)
  BY DEF Progress
<1>6. None \notin Nat /\ \A i \in Vertices : dist[i] # None => dist[i] \in Nat
  BY <1>5, AlgorithmsAssumption DEF Numbers
<1> DEFINE Near(k) == dist[path[k]] \in Nat /\ dist[path[k]] <= s[k - 1]
           Lost == {k \in 1..n : ~Visited(visited, path[k])}
           Far == {k \in 1..n : ~Near(k)}
<1>7. Near(1)
  BY <1>3, <1>4, <1>5
<1>8. ASSUME NEW k \in 1..(n - 1), Near(k), Visited(visited, path[k]) PROVE Near(k + 1)
  <2>1. PICK c \in Nat : /\ c = HopCost(path[k], path[k + 1]) /\ Way(path[k], path[k + 1], c) /\ s[k] = s[k - 1] + c
    BY <1>1, <1>2 DEF Traverses, Costing
  <2>2. PICK j \in DOMAIN visited : visited[j] = path[k]
    BY <1>8 DEF Visited
  <2>3. dist[path[k + 1]] # None /\ dist[path[k + 1]] <= dist[path[k]] + c
    BY <1>5, <2>1, <2>2 DEF Explored
  <2>4. k + 1 \in 1..n /\ k - 1 \in 0..(n - 1) /\ (k + 1) - 1 = k /\ k \in 0..(n - 1)
    OBVIOUS
  <2>5. dist[path[k + 1]] \in Nat
    BY <1>3, <1>6, <2>3, <2>4
  <2>6. s[k - 1] \in Nat /\ s[k] \in Nat /\ dist[path[k]] \in Nat /\ dist[path[k]] <= s[k - 1]
    BY <1>4, <1>8, <2>4
  <2>7. dist[path[k + 1]] <= s[k]
    BY <2>1, <2>3, <2>5, <2>6
  <2> QED
    BY <2>4, <2>5, <2>7
<1> HIDE DEF Near
<1>9. ASSUME NEW k \in 1..n, \A j \in 1..n : j < k => j \notin Lost PROVE Near(k)
  <2> DEFINE B == {j \in 1..n : j <= k /\ ~Near(j)}
  <2> SUFFICES ASSUME B # {} PROVE FALSE
    OBVIOUS
  <2>1. PICK j \in B : \A i \in B : j <= i
    <3>1. B \subseteq Nat
      OBVIOUS
    <3> HIDE DEF B
    <3> QED
      BY <3>1, LeastNatural
  <2>2. j # 1
    BY <1>7, <2>1
  <2>3. j - 1 \in 1..(n - 1) /\ j - 1 \in 1..n /\ (j - 1) + 1 = j /\ j - 1 < k /\ j - 1 <= k /\ ~(j <= j - 1)
    BY <2>1, <2>2
  <2>4. Near(j - 1)
    BY <2>1, <2>3
  <2>5. Visited(visited, path[j - 1])
    BY <1>9, <2>3
  <2> QED
    BY <1>8, <2>1, <2>3, <2>4, <2>5
<1>10. PathCost(path) \in Nat
  BY <1>4
<1>11. ASSUME NEW k \in 1..n, Near(k) PROVE dist[path[k]] \in Nat /\ dist[path[k]] <= PathCost(path)
  <2>1. k - 1 \in 0..(n - 1) /\ n - 1 \in 0..(n - 1)
    OBVIOUS
  <2>2. s[k - 1] <= s[n - 1] /\ s[k - 1] \in Nat /\ s[n - 1] \in Nat
    BY <1>4, <2>1
  <2> QED
    BY <1>4, <1>11, <2>2 DEF Near
<1>12. CASE Lost = {}
  <2>1. n \in 1..n /\ Near(n)
    BY <1>9, <1>12
  <2>2. Visited(visited, to)
    BY <1>3, <1>12, <2>1
  <2>3. to # goal
    BY <1>5, <2>2
  <2> QED
    BY <1>3, <1>10, <1>11, <2>1, <2>2, <2>3
<1>13. CASE Lost # {}
  <2>1. PICK k \in Lost : \A j \in Lost : k <= j
    <3>1. Lost \subseteq Nat
      OBVIOUS
    <3> HIDE DEF Lost
    <3> QED
      BY <1>13, <3>1, LeastNatural
  <2>2. k \in 1..n /\ ~Visited(visited, path[k]) /\ \A j \in 1..n : j < k => j \notin Lost
    BY <2>1
  <2>3. dist[path[k]] \in Nat /\ dist[path[k]] <= PathCost(path)
    BY <1>9, <1>11, <2>2
  <2>4. path[k] \in Vertices
    BY <1>3, <2>2
  <2>5. PICK e \in heap : e = [dist |-> dist[path[k]], node |-> path[k]]
    BY <1>5, <1>6, <2>2, <2>3, <2>4
  <2>6. ASSUME to = goal PROVE dist[to] \in Nat /\ dist[to] <= PathCost(path)
    <3>1. dist[goal] # None /\ dist[goal] <= e.dist
      BY <2>5 DEF Over
    <3>2. e.dist = dist[path[k]]
      BY <2>5
    <3>3. dist[to] \in Nat
      BY <1>6, <2>6, <3>1
    <3> QED
      BY <1>10, <2>3, <2>6, <3>1, <3>2, <3>3
  <2> QED
    BY <1>10, <2>5, <2>6
<1> QED
  BY <1>12, <1>13

(* What is visited before what is visited before, is visited before.       *)
LEMMA EarlierPasses ==
  ASSUME NEW visited \in Seq(Vertices), NEW a, NEW b, NEW c, Earlier(visited, a, b), Earlier(visited, b, c)
  PROVE  Earlier(visited, a, c)
<1>1. PICK j \in DOMAIN visited : visited[j] = a /\ \A k \in DOMAIN visited : visited[k] = b => j < k
  BY DEF Earlier
<1>2. PICK l \in DOMAIN visited : visited[l] = b /\ \A k \in DOMAIN visited : visited[k] = c => l < k
  BY DEF Earlier
<1>3. DOMAIN visited \subseteq Nat
  OBVIOUS
<1>4. \A k \in DOMAIN visited : visited[k] = c => j < k
  BY <1>1, <1>2, <1>3
<1> QED
  BY <1>1, <1>4 DEF Earlier

(* No node is visited before itself.                                       *)
LEMMA EarlierDiffers ==
  ASSUME NEW visited \in Seq(Vertices), NEW a, NEW b, Earlier(visited, a, b) PROVE a # b /\ a \in Vertices
<1>1. PICK j \in DOMAIN visited : visited[j] = a /\ \A k \in DOMAIN visited : visited[k] = b => j < k
  BY DEF Earlier
<1>2. DOMAIN visited \subseteq Nat /\ visited[j] \in Vertices
  OBVIOUS
<1> QED
  BY <1>1, <1>2

(* A way back along the predecessors, and how far back it must have come.  *)
Chained(dist, prev, visited, t, to) ==
  /\ t \in Ways /\ t[Len(t)] = to /\ dist[t[1]] # None
  /\ \A i \in 1..(Len(t) - 1) : t[i] = prev[t[i + 1]] /\ t[i + 1] # 1 /\ dist[t[i + 1]] # None
  /\ \A i, j \in 1..Len(t) : i < j => Earlier(visited, t[i], t[j])
Headed(visited, t, k) == t[1] = 1 \/ k = 0 \/ \E j \in 1..(Len(visited) - k + 1) : visited[j] = t[1]

(* One step back.                                                          *)
LEMMA ChainExtends ==
  ASSUME GraphInv, NEW dist, NEW prev, NEW visited, NEW heap, Progress(dist, prev, visited, heap), search.prev = prev,
         NEW to, NEW t, Chained(dist, prev, visited, t, to),
         NEW k \in 0..(Len(visited) - 1), Headed(visited, t, k), NEW visit
  PROVE  LET u == StepBack(t, visit) IN Chained(dist, prev, visited, u, to) /\ Headed(visited, u, k + 1)
<1>1. PICK n \in Nat \ {0} : n = Len(t)
  BY DEF Chained, Ways
<1>2. /\ t \in Seq(Vertices) /\ t # <<>> /\ t[n] = to /\ dist[t[1]] # None
      /\ \A i \in 1..(n - 1) : t[i] = prev[t[i + 1]] /\ t[i + 1] # 1 /\ dist[t[i + 1]] # None
      /\ \A i, j \in 1..n : i < j => Earlier(visited, t[i], t[j])
  BY <1>1 DEF Chained, Ways
<1>3. PICK first \in Vertices : first = t[1] /\ first = Head(t)
  BY <1>1, <1>2
<1>4. PICK before : before = prev[first]
  OBVIOUS
<1>5. StepBack(t, visit) = IF before = None THEN t ELSE <<before>> \o t
  BY <1>3, <1>4 DEF StepBack
<1>6. /\ visited \in Seq(Vertices) /\ prev[1] = None /\ \A j \in DOMAIN visited : dist[visited[j]] # None
      /\ \A i \in Vertices : i # 1 /\ dist[i] # None => Reached(dist, prev, visited, i)
  BY DEF Progress, Settled
<1>7. CASE first = 1
  <2>1. StepBack(t, visit) = t
    BY <1>4, <1>5, <1>6, <1>7
  <2>2. Headed(visited, t, k + 1)
    BY <1>3, <1>7 DEF Headed
  <2> QED
    BY <2>1, <2>2
<1>8. CASE first # 1
  <2>1. Earlier(visited, before, first)
    BY <1>2, <1>3, <1>4, <1>6, <1>8 DEF Reached
  <2>2. PICK j \in DOMAIN visited : visited[j] = before /\ \A m \in DOMAIN visited : visited[m] = first => j < m
    BY <2>1 DEF Earlier
  <2>3. before \in Vertices /\ before # None /\ dist[before] # None
    <3>1. None \notin Vertices
      BY AlgorithmsAssumption DEF Vertices
    <3> QED
      BY <1>6, <2>2, <3>1
  <2>4. PICK u \in Seq(Vertices) : u = <<before>> \o t
    <3>1. <<before>> \in Seq(Vertices) /\ t \in Seq(Vertices)
      BY <1>2, <2>3
    <3>2. <<before>> \o t \in Seq(Vertices)
      BY <3>1
    <3> QED
      BY <3>2
  <2>5. StepBack(t, visit) = u
    BY <1>5, <2>3, <2>4
  <2>6. Len(u) = n + 1 /\ u[1] = before /\ \A i \in 2..(n + 1) : u[i] = t[i - 1]
    BY <1>1, <1>2, <2>3, <2>4
  <2>7. u \in Ways
    <3>1. u # <<>>
      BY <2>6
    <3> QED
      BY <3>1 DEF Ways
  <2>8. u[n + 1] = to /\ dist[u[1]] # None
    <3>1. n + 1 \in 2..(n + 1) /\ (n + 1) - 1 = n
      OBVIOUS
    <3> QED
      BY <1>2, <2>3, <2>6, <3>1
  <2>9. ASSUME NEW i \in 1..n PROVE u[i] = prev[u[i + 1]] /\ u[i + 1] # 1 /\ dist[u[i + 1]] # None
    <3>1. u[i + 1] = t[i]
      <4>1. i + 1 \in 2..(n + 1) /\ (i + 1) - 1 = i
        OBVIOUS
      <4> QED
        BY <2>6, <4>1
    <3>2. CASE i = 1
      BY <1>2, <1>3, <1>4, <1>8, <2>6, <3>1, <3>2
    <3>3. CASE i # 1
      <4>1. PICK l \in 1..(n - 1) : l = i - 1 /\ l + 1 = i
        BY <3>3
      <4>2. t[l] = prev[t[i]] /\ t[i] # 1 /\ dist[t[i]] # None
        BY <1>2, <4>1
      <4>3. i \in 2..(n + 1)
        BY <3>3
      <4>4. u[i] = t[l]
        BY <2>6, <4>1, <4>3
      <4> QED
        BY <3>1, <4>2, <4>4
    <3> QED
      BY <3>2, <3>3
  <2>10. ASSUME NEW i \in 1..(n + 1), NEW m \in 1..(n + 1), i < m PROVE Earlier(visited, u[i], u[m])
    <3>1. PICK q \in 1..n : q = m - 1
      BY <2>10
    <3>2. u[m] = t[q]
      <4>1. m \in 2..(n + 1)
        BY <2>10
      <4> QED
        BY <2>6, <3>1, <4>1
    <3>3. CASE i = 1
      <4>1. CASE q = 1
        BY <1>3, <2>1, <2>6, <3>2, <3>3, <4>1
      <4>2. CASE q # 1
        <5>1. 1 \in 1..n /\ 1 < q
          BY <4>2
        <5>2. Earlier(visited, first, t[q])
          BY <1>2, <1>3, <5>1
        <5>3. Earlier(visited, before, t[q])
          BY <1>6, <2>1, <5>2, EarlierPasses
        <5> QED
          BY <2>6, <3>2, <3>3, <5>3
      <4> QED
        BY <4>1, <4>2
    <3>4. CASE i # 1
      <4>1. PICK l \in 1..n : l = i - 1 /\ l < q
        BY <2>10, <3>1, <3>4
      <4>2. u[i] = t[l]
        <5>1. i \in 2..(n + 1)
          BY <3>4
        <5> QED
          BY <2>6, <4>1, <5>1
      <4> QED
        BY <1>2, <3>2, <4>1, <4>2
    <3> QED
      BY <3>3, <3>4
  <2>11. Chained(dist, prev, visited, u, to)
    <3>1. Len(u) = n + 1 /\ Len(u) - 1 = n
      BY <2>6
    <3> QED
      BY <2>7, <2>8, <2>9, <2>10, <3>1 DEF Chained
  <2>12. Headed(visited, u, k + 1)
    <3>1. DOMAIN visited = 1..Len(visited) /\ Len(visited) \in Nat
      BY <1>6
    <3>2. CASE k = 0
      <4>1. j \in 1..(Len(visited) - (k + 1) + 1)
        BY <3>1, <3>2
      <4> QED
        BY <2>2, <2>6, <4>1 DEF Headed
    <3>3. CASE k # 0
      <4>1. PICK m \in 1..(Len(visited) - k + 1) : visited[m] = first
        BY <1>3, <1>8, <3>3 DEF Headed
      <4>2. m \in DOMAIN visited
        BY <3>1, <3>3, <4>1
      <4>3. j < m
        BY <2>2, <4>1, <4>2
      <4>4. j \in 1..(Len(visited) - (k + 1) + 1)
        BY <3>1, <4>1, <4>3
      <4> QED
        BY <2>2, <2>6, <4>4 DEF Headed
    <3> QED
      BY <3>2, <3>3
  <2> QED
    BY <2>5, <2>11, <2>12
<1> QED
  BY <1>7, <1>8

(* All steps back.                                                         *)
LEMMA TrailChains ==
  ASSUME GraphInv, NEW dist, NEW prev, NEW visited, NEW heap, Progress(dist, prev, visited, heap), search.prev = prev,
         NEW to \in Vertices, dist[to] # None
  PROVE  LET t == FoldLeft(StepBack, <<to>>, visited) IN Chained(dist, prev, visited, t, to) /\ t[1] = 1
<1>1. /\ visited \in Seq(Vertices) /\ prev \in [Vertices -> Places] /\ dist[1] = 0
      /\ \A i \in Vertices : i # 1 /\ dist[i] # None => Reached(dist, prev, visited, i)
  BY DEF Progress
<1>2. PICK n \in Nat : n = Len(visited) /\ DOMAIN visited = 1..n
  BY <1>1
<1>3. PICK base : base = <<to>>
  OBVIOUS
<1>4. base \in Ways /\ Len(base) = 1 /\ base[1] = to
  <2>1. base \in Seq(Vertices) /\ base # <<>> /\ Len(base) = 1 /\ base[1] = to
    BY <1>3
  <2> QED
    BY <2>1 DEF Ways
<1>5. PICK p \in [0..n -> Ways] :
        /\ p[0] = base /\ p[n] = FoldLeft(StepBack, base, visited)
        /\ \A k \in 1..n : p[k] = StepBack(p[k - 1], visited[k])
  <2>1. search.prev \in [Vertices -> Places]
    BY <1>1
  <2>2. PICK p : Returning(p, base, visited)
    BY <1>1, <1>4, <2>1, StepBackFold
  <2> QED
    BY <1>2, <2>2 DEF Returning
<1> DEFINE Good(k) == Chained(dist, prev, visited, p[k], to) /\ Headed(visited, p[k], k)
           U == {k \in 0..n : ~Good(k)}
<1>6. 0 \notin U
  <2>1. \A i \in 1..(1 - 1) : FALSE
    OBVIOUS
  <2>2. \A i, j \in 1..1 : ~(i < j)
    OBVIOUS
  <2>3. Chained(dist, prev, visited, base, to)
    BY <1>4, <2>1, <2>2 DEF Chained
  <2>4. Headed(visited, base, 0)
    BY DEF Headed
  <2> QED
    BY <1>5, <2>3, <2>4
<1>7. ASSUME NEW k \in 1..n, Good(k - 1) PROVE Good(k)
  <2>1. PICK l \in 0..(Len(visited) - 1) : l = k - 1 /\ l + 1 = k
    BY <1>2
  <2>2. PICK t : t = p[l]
    OBVIOUS
  <2>3. Chained(dist, prev, visited, t, to) /\ Headed(visited, t, l)
    BY <1>7, <2>1, <2>2
  <2>4. p[k] = StepBack(t, visited[k])
    BY <1>5, <2>1, <2>2
  <2>5. Chained(dist, prev, visited, StepBack(t, visited[k]), to) /\ Headed(visited, StepBack(t, visited[k]), l + 1)
    BY <2>3, ChainExtends
  <2> QED
    BY <2>1, <2>4, <2>5
<1>8. U = {}
  <2>1. ASSUME NEW k \in 1..n, k \in U PROVE k - 1 \in U
    <3>1. k - 1 \in 0..n
      OBVIOUS
    <3> QED
      BY <1>7, <2>1, <3>1
  <2>2. U \subseteq 0..n
    OBVIOUS
  <2> HIDE DEF U
  <2> QED
    BY <1>6, <2>1, <2>2, NothingFrom
<1>9. Good(n)
  BY <1>8
<1>10. PICK t : t = p[n] /\ Chained(dist, prev, visited, t, to) /\ Headed(visited, t, n)
  BY <1>9
<1>11. t[1] = 1
  <2> SUFFICES ASSUME t[1] # 1 PROVE FALSE
    OBVIOUS
  <2>1. t[1] \in Vertices /\ dist[t[1]] # None
    BY <1>10 DEF Chained, Ways
  <2>2. Earlier(visited, prev[t[1]], t[1])
    BY <1>1, <2>1 DEF Reached
  <2>3. PICK j \in 1..n : \A k \in 1..n : visited[k] = t[1] => j < k
    BY <1>2, <2>2 DEF Earlier
  <2>4. n # 0
    BY <2>3
  <2>5. PICK k \in 1..(n - n + 1) : visited[k] = t[1]
    BY <1>2, <1>10, <2>4 DEF Headed
  <2>6. k = 1 /\ k \in 1..n
    BY <2>4, <2>5
  <2>7. j < k
    BY <2>3, <2>5, <2>6
  <2> QED
    BY <2>3, <2>6, <2>7
<1> QED
  BY <1>3, <1>5, <1>10, <1>11

(* The way back is a path, and costs no more than the distance.            *)
LEMMA TrailIsPath ==
  ASSUME GraphInv, NEW dist, NEW prev, NEW visited, NEW heap, Progress(dist, prev, visited, heap), search.prev = prev,
         NEW to \in Vertices, dist[to] # None
  PROVE  LET t == FoldLeft(StepBack, <<to>>, visited)
         IN t \in SimplePaths(1, to) /\ PathCost(t) \in Nat /\ PathCost(t) <= dist[to]
<1>1. PICK t : t = FoldLeft(StepBack, <<to>>, visited)
  OBVIOUS
<1>2. Chained(dist, prev, visited, t, to) /\ t[1] = 1
  BY <1>1, TrailChains
<1>3. PICK n \in Nat \ {0} : n = Len(t)
  BY <1>2 DEF Chained, Ways
<1>4. t \in [1..n -> Vertices] /\ t[n] = to
  BY <1>2, <1>3 DEF Chained, Ways
<1>5. \A i \in 1..(n - 1) : t[i] = prev[t[i + 1]] /\ t[i + 1] # 1 /\ dist[t[i + 1]] # None
  BY <1>2, <1>3 DEF Chained
<1>6. /\ visited \in Seq(Vertices) /\ dist[1] = 0 /\ dist \in [Vertices -> Numbers]
      /\ \A i \in Vertices : i # 1 /\ dist[i] # None => Reached(dist, prev, visited, i)
  BY DEF Progress
<1>7. ASSUME NEW i \in 1..n, NEW j \in 1..n, i # j PROVE t[i] # t[j]
  <2>1. i < j \/ j < i
    BY <1>7
  <2>2. ASSUME NEW a \in 1..n, NEW b \in 1..n, a < b PROVE t[a] # t[b]
    <3>1. Earlier(visited, t[a], t[b])
      BY <1>2, <1>3, <2>2 DEF Chained
    <3> QED
      BY <1>6, <3>1, EarlierDiffers
  <2> QED
    BY <2>1, <2>2
<1>8. n <= N
  <2> SUFFICES ASSUME ~(n <= N) PROVE FALSE
    OBVIOUS
  <2>1. N \in Nat
    BY DEF GraphInv
  <2>2. IsFiniteSet(1..n) /\ IsFiniteSet(1..N) /\ Cardinality(1..n) = n /\ Cardinality(1..N) = N
    BY <2>1, FS_Interval
  <2>3. Cardinality(1..N) < Cardinality(1..n)
    BY <2>1, <2>2
  <2>4. PICK S, T : S = 1..n /\ T = 1..N
    OBVIOUS
  <2>5. PICK f \in [S -> T] : f = t
    BY <1>4, <2>4 DEF Vertices
  <2>6. \E x, y \in S : x # y /\ f[x] = f[y]
    <3>1. IsFiniteSet(S)
      BY <2>2, <2>4
    <3>2. IsFiniteSet(T)
      BY <2>2, <2>4
    <3>3. Cardinality(T) < Cardinality(S)
      BY <2>3, <2>4
    <3> QED
      BY <3>1, <3>2, <3>3, FS_PigeonHole
  <2> QED
    BY <1>7, <2>4, <2>5, <2>6
<1>9. ASSUME NEW k \in 1..(n - 1)
      PROVE  /\ Passable(t[k], t[k + 1]) # {} /\ Way(t[k], t[k + 1], HopCost(t[k], t[k + 1]))
             /\ HopCost(t[k], t[k + 1]) \in Nat
             /\ \E c \in Nat : dist[t[k + 1]] = dist[t[k]] + c /\ HopCost(t[k], t[k + 1]) <= c
  <2>1. PICK a \in Vertices, b \in Vertices : a = t[k] /\ b = t[k + 1]
    BY <1>4
  <2>2. Reached(dist, prev, visited, b)
    BY <1>5, <1>6, <2>1
  <2>3. prev[b] = a
    BY <1>5, <2>1
  <2>4. PICK c : Way(a, b, c) /\ dist[b] = dist[a] + c
    BY <2>2, <2>3 DEF Reached
  <2>5. c \in Nat
    BY <2>4, WayIs
  <2>6. Passable(a, b) # {} /\ HopCost(a, b) \in Nat /\ Way(a, b, HopCost(a, b)) /\ HopCost(a, b) <= c
    BY <2>4, HopCostIs
  <2> QED
    BY <2>1, <2>4, <2>5, <2>6
<1>10. t \in SimplePaths(1, to)
  <2>1. n \in 1..Len(csr.nodes) /\ NodeIndices(csr) = Vertices
    BY <1>8, AdjacentIs DEF N
  <2>2. t \in UNION {[1..m -> NodeIndices(csr)] : m \in 1..Len(csr.nodes)}
    BY <1>4, <2>1
  <2>3. Len(t) = n /\ DOMAIN t = 1..n
    BY <1>3, <1>4
  <2>4. IsInjective(t)
    BY <1>7, <2>3 DEF IsInjective
  <2> QED
    BY <1>2, <1>4, <1>9, <2>2, <2>3, <2>4 DEF SimplePaths
<1>11. Traverses(t, n, to)
  BY <1>2, <1>4, <1>9 DEF Traverses
<1>12. PICK s : Costing(s, t, n)
  BY <1>11, PathCosts
<1>13. s \in [0..(n - 1) -> Nat] /\ s[0] = 0 /\ s[n - 1] = PathCost(t)
  BY <1>12 DEF Costing
<1> DEFINE Good(k) == dist[t[k + 1]] \in Nat /\ s[k] <= dist[t[k + 1]]
           U == {k \in 0..(n - 1) : ~Good(k)}
<1>14. 0 \notin U
  BY <1>2, <1>6, <1>13
<1>15. ASSUME NEW k \in 1..(n - 1), Good(k - 1) PROVE Good(k)
  <2>1. PICK c \in Nat : dist[t[k + 1]] = dist[t[k]] + c /\ HopCost(t[k], t[k + 1]) <= c
    BY <1>9
  <2>2. (k - 1) + 1 = k /\ k - 1 \in 0..(n - 1)
    OBVIOUS
  <2>3. dist[t[k]] \in Nat /\ s[k - 1] <= dist[t[k]]
    BY <1>15, <2>2
  <2>4. s[k] = s[k - 1] + HopCost(t[k], t[k + 1])
    BY <1>12 DEF Costing
  <2>5. HopCost(t[k], t[k + 1]) \in Nat /\ s[k - 1] \in Nat
    BY <1>9, <1>13, <2>2
  <2> QED
    BY <2>1, <2>3, <2>4, <2>5
<1>16. U = {}
  <2>1. ASSUME NEW k \in 1..(n - 1), k \in U PROVE k - 1 \in U
    <3>1. k - 1 \in 0..(n - 1)
      OBVIOUS
    <3> QED
      BY <1>15, <2>1, <3>1
  <2>2. U \subseteq 0..(n - 1) /\ n - 1 \in Nat
    OBVIOUS
  <2> HIDE DEF U
  <2>3. PICK last \in Nat : last = n - 1
    BY <2>2
  <2> QED
    BY <1>14, <2>1, <2>2, <2>3, NothingFrom
<1>17. Good(n - 1)
  <2>1. n - 1 \in 0..(n - 1)
    OBVIOUS
  <2> HIDE DEF Good
  <2> QED
    BY <1>16, <2>1
<1>18. PathCost(t) \in Nat /\ PathCost(t) <= dist[to]
  <2>1. (n - 1) + 1 = n /\ n - 1 \in 0..(n - 1)
    OBVIOUS
  <2> QED
    BY <1>4, <1>13, <1>17, <2>1
<1> QED
  BY <1>1, <1>10, <1>18

(* The least cost is that of a path no other is cheaper than.              *)
LEMMA LeastCostIs ==
  ASSUME NEW to, NEW t \in SimplePaths(1, to), PathCost(t) \in Nat,
         \A path \in SimplePaths(1, to) : PathCost(path) \in Nat /\ PathCost(t) <= PathCost(path)
  PROVE  LeastCost(to) = PathCost(t)
<1>1. PICK costs : costs = {PathCost(path) : path \in SimplePaths(1, to)}
  OBVIOUS
<1>2. PathCost(t) \in costs /\ \A d \in costs : d \in Nat /\ PathCost(t) <= d
  BY <1>1
<1>3. LeastCost(to) = CHOOSE c \in costs : \A d \in costs : c <= d
  BY <1>1 DEF LeastCost
<1>4. LeastCost(to) \in costs /\ \A d \in costs : LeastCost(to) <= d
  BY <1>2, <1>3
<1>5. LeastCost(to) <= PathCost(t) /\ PathCost(t) <= LeastCost(to) /\ LeastCost(to) \in Nat
  BY <1>2, <1>4
<1> QED
  BY <1>5

(* A distance found is the least cost of a path to the node, and the way   *)
(* back is a path of that cost.                                            *)
LEMMA FoundIsLeast ==
  ASSUME GraphInv, NEW dist, NEW prev, NEW visited, NEW heap, Progress(dist, prev, visited, heap), search.prev = prev,
         Over(dist, heap), NEW to \in Vertices, dist[to] # None, heap = {} \/ to = goal
  PROVE  LET t == FoldLeft(StepBack, <<to>>, visited)
         IN t \in SimplePaths(1, to) /\ PathCost(t) = LeastCost(to) /\ dist[to] = LeastCost(to)
<1>1. PICK t : t = FoldLeft(StepBack, <<to>>, visited)
  OBVIOUS
<1>2. t \in SimplePaths(1, to) /\ PathCost(t) \in Nat /\ PathCost(t) <= dist[to]
  BY <1>1, TrailIsPath
<1>3. ASSUME NEW path \in SimplePaths(1, to)
      PROVE  PathCost(path) \in Nat /\ dist[to] \in Nat /\ dist[to] <= PathCost(path)
  BY <1>3, NoCheaperPath
<1>4. dist[to] = PathCost(t)
  BY <1>2, <1>3
<1>5. LeastCost(to) = PathCost(t)
  BY <1>2, <1>3, <1>4, LeastCostIs
<1> QED
  BY <1>1, <1>2, <1>4, <1>5

(* What is found when a search for a path is over.                         *)
LEMMA GoalFound ==
  ASSUME GraphInv, NEW dist, NEW prev, NEW visited, NEW heap, Progress(dist, prev, visited, heap),
         search.dist = dist, search.prev = prev, search.visited = visited, Over(dist, heap), goal \in Vertices
  PROVE  IF SimplePaths(1, goal) = {} THEN ShortestPath = None
         ELSE ShortestPath \in SimplePaths(1, goal) /\ PathCost(ShortestPath) = LeastCost(goal)
<1>1. CASE dist[goal] = None
  <2>1. ShortestPath = None
    BY <1>1 DEF ShortestPath
  <2>2. None \notin Nat
    BY AlgorithmsAssumption
  <2>3. ASSUME NEW path \in SimplePaths(1, goal) PROVE FALSE
    <3>1. dist[goal] \in Nat
      BY NoCheaperPath
    <3> QED
      BY <1>1, <2>2, <3>1
  <2> QED
    BY <2>1, <2>3
<1>2. CASE dist[goal] # None
  <2>1. ShortestPath = FoldLeft(StepBack, <<goal>>, visited)
    BY <1>2 DEF ShortestPath
  <2>2. ShortestPath \in SimplePaths(1, goal) /\ PathCost(ShortestPath) = LeastCost(goal)
    BY <1>2, <2>1, FoundIsLeast
  <2> QED
    BY <2>2
<1> QED
  BY <1>1, <1>2

(* What is found when a search for all distances is over.                  *)
LEMMA AllFound ==
  ASSUME GraphInv, NEW dist, NEW prev, NEW visited, NEW heap, Progress(dist, prev, visited, heap),
         search.dist = dist, search.prev = prev, search.visited = visited, heap = {}
  PROVE  /\ IsInjective(search.visited)
         /\ Range(search.visited) = {i \in NodeIndices(csr) : SimplePaths(1, i) # {}}
         /\ \A i \in Range(search.visited) : search.dist[i] = LeastCost(i)
         /\ \A j, k \in DOMAIN search.visited : j < k => search.dist[search.visited[j]] <= search.dist[search.visited[k]]
<1>1. /\ visited \in Seq(Vertices) /\ Settled(dist, visited, heap)
      /\ \A j, k \in DOMAIN visited : visited[j] = visited[k] => j = k
  BY DEF Progress
<1>2. Over(dist, heap)
  BY DEF Over
<1>3. NodeIndices(csr) = Vertices
  BY AdjacentIs
<1>4. ASSUME NEW i \in Range(visited)
      PROVE  i \in Vertices /\ SimplePaths(1, i) # {} /\ dist[i] = LeastCost(i)
  <2>1. PICK k \in DOMAIN visited : visited[k] = i
    BY DEF Range
  <2>2. i \in Vertices /\ dist[i] # None
    BY <1>1, <2>1 DEF Settled
  <2> QED
    BY <1>2, <2>2, FoundIsLeast
<1>5. ASSUME NEW i \in Vertices, SimplePaths(1, i) # {} PROVE i \in Range(visited)
  <2>1. PICK path \in SimplePaths(1, i) : TRUE
    BY <1>5
  <2>2. Visited(visited, i)
    BY <1>2, <2>1, NoCheaperPath
  <2> QED
    BY <2>2 DEF Visited, Range
<1>6. IsInjective(visited)
  BY <1>1 DEF IsInjective
<1>7. \A j, k \in DOMAIN visited : j < k => dist[visited[j]] <= dist[visited[k]]
  BY <1>1 DEF Settled
<1> QED
  BY <1>3, <1>4, <1>5, <1>6, <1>7

(* A search that is over has found the least costs and a path of the least *)
(* cost to its goal.                                                       *)
THEOREM PathsAreShortest == AlgorithmsSpec => []PathsShortest
<1>1. PathInv => PathsShortest
  <2> SUFFICES ASSUME PathInv, search.done PROVE PathsShortest
    BY DEF PathsShortest
  <2>1. GraphInv /\ goal \in Places
    BY DEF PathInv
  <2>2. PICK dist, prev, visited, heap, done :
          /\ search = Searched(dist, prev, visited, heap, done)
          /\ done \in BOOLEAN /\ Progress(dist, prev, visited, heap)
          /\ done => Over(dist, heap)
    BY Zenon DEF PathInv
  <2>3. search.dist = dist /\ search.prev = prev /\ search.visited = visited /\ search.done = done
    BY <2>2 DEF Searched
  <2>4. Progress(dist, prev, visited, heap) /\ Over(dist, heap)
    BY <2>2, <2>3
  <2>5. CASE goal # None
    <3>1. goal \in Vertices
      BY <2>1, <2>5 DEF Places
    <3>2. IF SimplePaths(1, goal) = {} THEN ShortestPath = None
          ELSE ShortestPath \in SimplePaths(1, goal) /\ PathCost(ShortestPath) = LeastCost(goal)
      BY <2>1, <2>3, <2>4, <3>1, GoalFound
    <3> QED
      BY Zenon, <2>5, <3>2 DEF PathsShortest
  <2>6. CASE goal = None
    <3>1. heap = {}
      <4>1. None \notin Vertices
        BY AlgorithmsAssumption DEF Vertices
      <4> QED
        BY <2>4, <2>6, <4>1 DEF Over
    <3>2. /\ IsInjective(search.visited)
          /\ Range(search.visited) = {i \in NodeIndices(csr) : SimplePaths(1, i) # {}}
          /\ \A i \in Range(search.visited) : search.dist[i] = LeastCost(i)
          /\ \A j, k \in DOMAIN search.visited :
               j < k => search.dist[search.visited[j]] <= search.dist[search.visited[k]]
      BY <2>1, <2>3, <2>4, <3>1, AllFound
    <3> QED
      BY Zenon, <2>6, <3>2 DEF PathsShortest
  <2> QED
    BY <2>5, <2>6
<1> QED
  BY <1>1, PathInvariant, PTL

(* What the algorithms compute is what it is defined to be.                *)
THEOREM AlgorithmsRight == AlgorithmsSpec => []AlgorithmsSound
<1>1. SnapshotComplete /\ PathsShortest /\ CommunitiesSound /\ LinksSound => AlgorithmsSound
  BY DEF AlgorithmsSound
<1> QED
  BY <1>1, SnapshotsComplete, PathsAreShortest, CommunitiesOfOneComponent, LinksStrongest, PTL
=============================================================================

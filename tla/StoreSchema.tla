---------------------------- MODULE StoreSchema ----------------------------
(***************************************************************************)
(* Databases whose schema every process checks as it opens them, and the   *)
(* key-value table.  The tables of a database are those of some version,   *)
(* counted in upgrades; statements of the schema create what is missing    *)
(* and leave alone what is there.                                          *)
(***************************************************************************)
EXTENDS Naturals, TLC

CONSTANTS
  Migrators,          (* Processes that open the database.                 *)
  ExpectedVersion,    (* The schema version of the program,                *)
  NewestVersion,      (* and the latest any program gave the database.     *)
  KvKeys, KvValues,
  MaxCrashes          (* Bound: how often a process is killed.             *)

ASSUME StoreAssumption == NewestVersion \in Nat /\ ExpectedVersion \in 0..NewestVersion

VARIABLES
  database,           (* The version it says it has, its tables and rows;  *)
                      (* born is the version it was found with, misread an *)
                      (* older one that was taken for none, or 0.          *)
  method,             (* Whether the program passes a migration callback.  *)
  opener,             (* What a process is at.                             *)
  crashes

storeVars == <<database, method, opener, crashes>>

NotOpen == [at |-> "idle", version |-> 0]

StoreInit ==
  /\ database \in {[born |-> v, version |-> v, tables |-> v, kv |-> <<>>, misread |-> 0] : v \in 0..NewestVersion}
  /\ method \in {"plain", "migrating"}
  /\ opener = [m \in Migrators |-> NotOpen]
  /\ crashes = 0

Opened(m, version) == opener' = [opener EXCEPT ![m] = [at |-> "open", version |-> version]]

(* What a process does about the version it takes the database to have.    *)
TakenFor(m, version) ==
  IF version = ExpectedVersion THEN Opened(m, version)
  ELSE opener' = [opener EXCEPT ![m] = [at |-> method, version |-> version]]

(* The version is read before anything else, outside of any transaction.   *)
ReadVersion(m) ==
  /\ opener[m].at = "idle"
  /\ TakenFor(m, database.version)
  /\ UNCHANGED <<database, method, crashes>>

(* A read that fails, or finds no number, is as if there were no version.  *)
MisreadVersion(m) ==
  /\ opener[m].at = "idle" /\ database.version # 0
  /\ TakenFor(m, 0)
  /\ database' = [database EXCEPT !.misread = IF database.version < ExpectedVersion THEN database.version ELSE @]
  /\ UNCHANGED <<method, crashes>>

(* A fresh database, or one that nobody told how to migrate, whether older *)
(* or newer: all tables first, then the version, each for itself.          *)
UsesDdl(m) == opener[m].at = "plain" \/ (opener[m].at = "migrating" /\ opener[m].version = 0)

RecordFirst(m) ==
  /\ UsesDdl(m)
  /\ database' = [database EXCEPT !.version = ExpectedVersion]
  /\ opener' = [opener EXCEPT ![m] = [at |-> "ddl", version |-> 0]]
  /\ UNCHANGED <<method, crashes>>

ApplyDdl(m) ==
  /\ UsesDdl(m)
  /\ database' = [database EXCEPT !.tables = IF @ = 0 THEN ExpectedVersion ELSE @]
  /\ opener' = [opener EXCEPT ![m].at = "ddl"]
  /\ UNCHANGED <<method, crashes>>

RecordVersion(m) ==
  /\ opener[m].at = "ddl"
  /\ database' = [database EXCEPT !.version = ExpectedVersion]
  /\ Opened(m, opener[m].version)
  /\ UNCHANGED <<method, crashes>>

(* The callback upgrades from the version that was read, which may have    *)
(* passed since, to one it names, or does nothing; the tables and the      *)
(* version change in one transaction.                                      *)
Migrate(m, to) ==
  /\ opener[m].at = "migrating" /\ opener[m].version # 0
  /\ to = opener[m].version \/ to \in (opener[m].version + 1)..ExpectedVersion
  /\ database' = [database EXCEPT !.version = to, !.tables = @ + to - opener[m].version]
  /\ Opened(m, opener[m].version)
  /\ UNCHANGED <<method, crashes>>

(* The callback fails, and rolls back, or a statement of the others does.  *)
OpenFails(m) ==
  /\ opener[m].at \in {"plain", "migrating", "ddl"}
  /\ opener' = [opener EXCEPT ![m] = NotOpen]
  /\ UNCHANGED <<database, method, crashes>>

(* One table of keys and values, under a lock, for those who have it open. *)
Put(m, key, value) ==
  /\ opener[m].at = "open"
  /\ database' = [database EXCEPT !.kv = key :> value @@ @]
  /\ UNCHANGED <<method, opener, crashes>>

Delete(m, key) ==
  /\ opener[m].at = "open"
  /\ database' = [database EXCEPT !.kv = [k \in DOMAIN @ \ {key} |-> @[k]]]
  /\ UNCHANGED <<method, opener, crashes>>

(* A process is killed, or closes the database.                            *)
Close(m) ==
  /\ opener[m].at # "idle" /\ crashes < MaxCrashes
  /\ opener' = [opener EXCEPT ![m] = NotOpen]
  /\ crashes' = crashes + 1
  /\ UNCHANGED <<database, method>>

StoreNext ==
  \E m \in Migrators :
    \/ ReadVersion(m) \/ MisreadVersion(m) \/ ApplyDdl(m) \/ RecordVersion(m)
    \/ \E to \in 1..NewestVersion : Migrate(m, to)
    \/ OpenFails(m)
    \/ \E key \in KvKeys : Delete(m, key) \/ \E value \in KvValues : Put(m, key, value)
    \/ Close(m)

StoreSpec == StoreInit /\ [][StoreNext]_storeVars

----------------------------------------------------------------------------

(* Whoever opens it together, fails or is killed when, a database never    *)
(* claims a version its tables have not reached, but an older one that the *)
(* program gives no migration, or whose version it once failed to read.    *)
StoreTruthful ==
  database.tables < database.version =>
    database.born # 0 /\ (method = "plain" \/ database.misread # 0)
=============================================================================

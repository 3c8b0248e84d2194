--------------------------- MODULE ServiceProofs ---------------------------
(***************************************************************************)
(* Proofs about the services that share no state, as MCServices composes   *)
(* them: opening a store, for any number of processes, any schema version  *)
(* and any number of crashes; saving secrets and a vector index, for any   *)
(* writers, inserts, metadata and power failures; the calls of an          *)
(* asynchronous graph handle, for any number of tasks; writes to several   *)
(* vector indexes and searches that merge their lists; the report of LLM   *)
(* calls and their streams; and the provider catalog, for any catalog,     *)
(* payloads and kills.                                                     *)
(***************************************************************************)
EXTENDS StoreSchema, SavedFiles, Federation, LlmClient, AsyncGraph, ProviderCatalog, DataLemmas, TLAPS

(* The exceptions of StoreTruthful: an old database opened by a program    *)
(* that passes no migration, or that failed to read an older version.      *)
Excused == database.born # 0 /\ (method = "plain" \/ database.misread # 0)

(* StoreTruthful is not inductive.  A process acts on the version it took  *)
(* the database to have: the tables must have been at that version then,   *)
(* and are not taken back; one that has applied the whole schema, or is    *)
(* about to since it misread the version of a database that is no older,   *)
(* goes on to record its version; and a database that was found fresh is   *)
(* either untouched or at the version of the program, so no process        *)
(* upgrades it from between.                                               *)
OpenerInv(o) ==
  /\ o.at \in {"plain", "migrating"} => o.at = method
  /\ database.born = 0 /\ o.at = "migrating" => o.version = 0
  /\ ~Excused =>
       /\ o.version <= database.tables
       /\ o.at = "ddl" => ExpectedVersion <= database.tables
       /\ database.born # 0 /\ o.at = "migrating" /\ o.version = 0 => ExpectedVersion <= database.tables

Databases(kv) == [born : Nat, version : Nat, tables : Nat, kv : {kv}, misread : Nat]

OpenInv ==
  /\ database \in Databases(database.kv)
  /\ method \in {"plain", "migrating"}
  /\ opener \in [Migrators -> [at : {"idle", "open", "plain", "migrating", "ddl"}, version : Nat]]
  /\ database.born = 0 => /\ database.tables \in {0, ExpectedVersion}
                          /\ database.version \in {0, ExpectedVersion}
  /\ database.born # 0 /\ ExpectedVersion # 0 => database.version # 0
  /\ ~Excused => database.version <= database.tables
  /\ \A m \in Migrators : OpenerInv(opener[m])

(* The initial states satisfy the invariant.                               *)
LEMMA InitOpen == StoreInit => OpenInv
  BY StoreAssumption DEF StoreInit, OpenInv, OpenerInv, Excused, Databases, NotOpen

(* What a process relies on stays true while others change the database,   *)
(* as the tables are never taken back.                                     *)
LEMMA Relied ==
  ASSUME OpenInv, NEW m \in Migrators, UNCHANGED method, database'.born = database.born, Excused => Excused',
         database'.tables \in Nat, database.tables <= database'.tables, opener'[m] = opener[m]
  PROVE  OpenerInv(opener[m])'
<1>1. OpenerInv(opener[m]) /\ opener[m].version \in Nat
  BY DEF OpenInv
<1> QED
  BY <1>1, StoreAssumption DEF OpenInv, OpenerInv, Databases

(* Every step keeps it.                                                    *)
LEMMA StepOpen == OpenInv /\ [StoreNext]_storeVars => OpenInv'
<1> USE StoreAssumption
<1> SUFFICES ASSUME OpenInv, [StoreNext]_storeVars PROVE OpenInv'
  OBVIOUS
<1>0. CASE UNCHANGED storeVars
  BY <1>0 DEF storeVars, OpenInv, OpenerInv, Excused
<1>1. ASSUME NEW m \in Migrators, ReadVersion(m) \/ MisreadVersion(m) PROVE OpenInv'
  <2>1. PICK version \in Nat : /\ version = database.version \/ (version = 0 /\ MisreadVersion(m))
                              /\ TakenFor(m, version) /\ UNCHANGED method
    BY <1>1 DEF ReadVersion, MisreadVersion, OpenInv, Databases
  <2>2. PICK at \in {"open", "plain", "migrating"} :
          /\ opener' = [opener EXCEPT ![m] = [at |-> at, version |-> version]]
          /\ at \in {"plain", "migrating"} => at = method /\ version # ExpectedVersion
    BY <2>1 DEF TakenFor, Opened, OpenInv
  <2>3. PICK misread \in Nat :
          /\ database' = [database EXCEPT !.misread = misread]
          /\ database.misread # 0 => misread # 0
          /\ misread # 0 \/ version # 0 \/ database.version = 0 \/ ExpectedVersion <= database.version
    <3>1. CASE ~MisreadVersion(m)
      <4>1. database' = [database EXCEPT !.misread = database.misread] /\ database.misread \in Nat
        BY <1>1, <3>1 DEF ReadVersion, OpenInv, Databases
      <4> QED
        BY <2>1, <3>1, <4>1
    <3>2. CASE MisreadVersion(m)
      BY <3>2 DEF MisreadVersion, OpenInv, Databases
    <3> QED
      BY <3>1, <3>2
  <2>4. /\ database'.born = database.born /\ database'.version = database.version
        /\ database'.tables = database.tables /\ database'.misread = misread
        /\ database' \in Databases(database'.kv)
    <3>1. database.born \in Nat /\ database.version \in Nat /\ database.tables \in Nat
      BY DEF OpenInv, Databases
    <3>2. database' = [database EXCEPT !.misread = misread]
      BY <2>3
    <3> QED
      BY <3>1, <3>2 DEF OpenInv, Databases
  <2>5. /\ opener'[m] = [at |-> at, version |-> version]
        /\ \A d \in Migrators \ {m} : opener'[d] = opener[d]
        /\ opener' \in [Migrators -> [at : {"idle", "open", "plain", "migrating", "ddl"}, version : Nat]]
    BY <2>2 DEF OpenInv
  <2>6. Excused => Excused'
    <3>1. database.misread # 0 => misread # 0
      BY <2>3
    <3> QED
      BY <2>1, <2>4, <3>1 DEF Excused
  <2>7. OpenerInv(opener[m])'
    <3>1. /\ database.born \in Nat /\ database.version \in Nat /\ database.tables \in Nat
          /\ version = 0 /\ at = "migrating" /\ database.born # 0 => misread # 0 \/ ExpectedVersion <= database.version
      BY <2>2, <2>3 DEF OpenInv, Databases
    <3>2. /\ database'.born = 0 /\ at = "migrating" => version = 0
          /\ at \in {"plain", "migrating"} => at = method' /\ at # "ddl"
      BY <2>1, <2>2, <2>4 DEF OpenInv
    <3>3. ASSUME ~Excused' PROVE version <= database.tables /\ database.version <= database.tables
      BY <2>1, <2>6, <3>1, <3>3 DEF OpenInv
    <3>4. ASSUME ~Excused', database'.born # 0, misread # 0 PROVE FALSE
      BY <2>4, <3>4 DEF Excused
    <3>5. ASSUME ~Excused', database'.born # 0, at = "migrating", version = 0 PROVE ExpectedVersion <= database'.tables
      BY <2>4, <3>1, <3>3, <3>4, <3>5
    <3> QED
      BY <2>4, <2>5, <3>2, <3>3, <3>5 DEF OpenerInv
  <2>8. \A d \in Migrators : OpenerInv(opener[d])'
    BY <2>1, <2>4, <2>5, <2>6, <2>7, Relied DEF OpenInv, Databases
  <2>9. ~Excused' => database'.version <= database'.tables
    BY <2>4, <2>6 DEF OpenInv
  <2>10. (\A d \in Migrators : OpenerInv(opener[d]))' /\ method' = method
    BY <2>1, <2>8
  <2>11. /\ database'.born = 0 => /\ database'.tables \in {0, ExpectedVersion}
                                 /\ database'.version \in {0, ExpectedVersion}
         /\ database'.born # 0 /\ ExpectedVersion # 0 => database'.version # 0
         /\ method' \in {"plain", "migrating"}
    BY <2>4, <2>10 DEF OpenInv
  <2> QED
    <3>1. (database \in Databases(database.kv))'
      BY <2>4
    <3> QED
      BY <3>1, <2>5, <2>9, <2>10, <2>11, Zenon DEF OpenInv
<1>2. ASSUME NEW m \in Migrators, ApplyDdl(m) PROVE OpenInv'
  <2>1. ~Excused => database.born = 0 \/ ExpectedVersion <= database.tables
    BY <1>2 DEF ApplyDdl, UsesDdl, OpenInv, OpenerInv, Databases, Excused
  <2>2. /\ database' = [database EXCEPT !.tables = IF @ = 0 THEN ExpectedVersion ELSE @]
        /\ opener' = [opener EXCEPT ![m].at = "ddl"] /\ UNCHANGED method
    BY <1>2 DEF ApplyDdl
  <2>3. /\ database'.born = database.born /\ database'.misread = database.misread /\ database'.version = database.version
        /\ database'.tables = (IF database.tables = 0 THEN ExpectedVersion ELSE database.tables)
        /\ database' \in Databases(database'.kv)
    BY <2>2 DEF OpenInv, Databases
  <2>4. /\ opener'[m] = [at |-> "ddl", version |-> opener[m].version]
        /\ \A d \in Migrators \ {m} : opener'[d] = opener[d]
        /\ opener' \in [Migrators -> [at : {"idle", "open", "plain", "migrating", "ddl"}, version : Nat]]
    BY <2>2 DEF OpenInv
  <2>5. OpenerInv(opener[m])'
    <3>1. OpenerInv(opener[m]) /\ opener[m].version \in Nat
      BY DEF OpenInv
    <3> QED
      BY <2>1, <2>2, <2>3, <2>4, <3>1 DEF OpenInv, OpenerInv, Databases, Excused
  <2>6. \A d \in Migrators : OpenerInv(opener[d])'
    BY <2>2, <2>3, <2>4, <2>5, Relied DEF OpenInv, Databases, Excused
  <2> QED
    BY <2>1, <2>2, <2>3, <2>4, <2>6 DEF OpenInv, Databases, Excused
<1>3. ASSUME NEW m \in Migrators, RecordVersion(m) PROVE OpenInv'
  <2>1. ~Excused => ExpectedVersion <= database.tables
    BY <1>3 DEF RecordVersion, OpenInv, OpenerInv, Databases, Excused
  <2>2. /\ database' = [database EXCEPT !.version = ExpectedVersion]
        /\ opener' = [opener EXCEPT ![m] = [at |-> "open", version |-> opener[m].version]] /\ UNCHANGED method
    BY <1>3 DEF RecordVersion, Opened
  <2>3. /\ database'.born = database.born /\ database'.misread = database.misread /\ database'.version = ExpectedVersion
        /\ database'.tables = database.tables
        /\ database' \in Databases(database'.kv)
    BY <2>2 DEF OpenInv, Databases
  <2>4. /\ opener'[m] = [at |-> "open", version |-> opener[m].version]
        /\ \A d \in Migrators \ {m} : opener'[d] = opener[d]
        /\ opener' \in [Migrators -> [at : {"idle", "open", "plain", "migrating", "ddl"}, version : Nat]]
    BY <2>2 DEF OpenInv
  <2>5. OpenerInv(opener[m])'
    BY <2>2, <2>3, <2>4 DEF OpenInv, OpenerInv, Databases, Excused
  <2>6. \A d \in Migrators : OpenerInv(opener[d])'
    BY <2>2, <2>3, <2>4, <2>5, Relied DEF OpenInv, Databases, Excused
  <2> QED
    BY <2>1, <2>2, <2>3, <2>4, <2>6 DEF OpenInv, Databases, Excused
<1>4. ASSUME NEW m \in Migrators, NEW to \in 1..NewestVersion, Migrate(m, to) PROVE OpenInv'
  <2> DEFINE read == opener[m].version
  <2>1. read \in 1..to /\ opener[m].at = "migrating" /\ OpenerInv(opener[m])
    BY <1>4 DEF Migrate, OpenInv
  <2>2. database.born # 0 /\ database.tables \in Nat /\ (~Excused => read <= database.tables)
    BY <2>1 DEF OpenInv, OpenerInv, Databases
  <2>3. /\ database' = [database EXCEPT !.version = to, !.tables = @ + to - read]
        /\ opener' = [opener EXCEPT ![m] = [at |-> "open", version |-> read]] /\ UNCHANGED method
    BY <1>4 DEF Migrate, Opened
  <2>4. /\ database.tables + to - read \in Nat /\ database.tables <= database.tables + to - read
        /\ ~Excused => to <= database.tables + to - read
    BY <2>1, <2>2 DEF OpenInv
  <2>5. /\ database'.born = database.born /\ database'.misread = database.misread /\ database'.version = to
        /\ database'.tables = database.tables + to - read
        /\ database' \in Databases(database'.kv)
    <3>1. PICK upgraded \in Nat : upgraded = database.tables + to - read
      BY <2>4
    <3>2. database' = [[database EXCEPT !.version = to] EXCEPT !.tables = upgraded]
      BY <2>3, <3>1
    <3>3. database' = [born |-> database.born, version |-> to, tables |-> upgraded, kv |-> database.kv,
                       misread |-> database.misread]
      BY <3>2 DEF OpenInv, Databases
    <3>4. database.born \in Nat /\ database.misread \in Nat /\ to \in Nat
      BY DEF OpenInv, Databases
    <3> QED
      BY <3>1, <3>3, <3>4 DEF Databases
  <2>6. /\ opener'[m] = [at |-> "open", version |-> read]
        /\ \A d \in Migrators \ {m} : opener'[d] = opener[d]
        /\ opener' \in [Migrators -> [at : {"idle", "open", "plain", "migrating", "ddl"}, version : Nat]]
    BY <2>1, <2>3 DEF OpenInv
  <2>7. OpenerInv(opener[m])'
    BY <2>1, <2>2, <2>3, <2>4, <2>5, <2>6 DEF OpenInv, OpenerInv, Databases, Excused
  <2>8. \A d \in Migrators : OpenerInv(opener[d])'
    BY <2>3, <2>4, <2>5, <2>6, <2>7, Relied DEF OpenInv, Databases, Excused
  <2> QED
    BY <2>2, <2>3, <2>4, <2>5, <2>6, <2>8 DEF OpenInv, Databases, Excused
<1>5. ASSUME NEW m \in Migrators, OpenFails(m) \/ Close(m) PROVE OpenInv'
  <2>1. opener' = [opener EXCEPT ![m] = NotOpen] /\ UNCHANGED <<database, method>>
    BY <1>5 DEF OpenFails, Close
  <2>2. opener'[m] = NotOpen /\ \A d \in Migrators \ {m} : opener'[d] = opener[d]
    BY <2>1 DEF OpenInv
  <2>3. OpenerInv(opener[m])'
    BY <2>1, <2>2 DEF OpenInv, OpenerInv, Databases, Excused, NotOpen
  <2>4. \A d \in Migrators : OpenerInv(opener[d])'
    BY <2>1, <2>2, <2>3, Relied DEF OpenInv, Databases, Excused
  <2> QED
    BY <2>1, <2>4 DEF OpenInv, Databases, Excused, NotOpen
<1>6. ASSUME NEW m \in Migrators, NEW key \in KvKeys, Delete(m, key) \/ \E value \in KvValues : Put(m, key, value)
      PROVE OpenInv'
  <2>1. UNCHANGED <<method, opener>>
    BY <1>6 DEF Delete, Put
  <2>2. PICK kv : database' = [database EXCEPT !.kv = kv]
    BY <1>6 DEF Delete, Put
  <2>3. /\ database'.born = database.born /\ database'.misread = database.misread /\ database'.version = database.version
        /\ database'.tables = database.tables
        /\ database' \in Databases(database'.kv)
    BY <2>2 DEF OpenInv, Databases
  <2>4. \A d \in Migrators : OpenerInv(opener[d])'
    BY <2>1, <2>3, Relied DEF OpenInv, Databases, Excused
  <2> QED
    BY <2>1, <2>3, <2>4 DEF OpenInv, Databases, Excused
<1> QED
  BY <1>0, <1>1, <1>2, <1>3, <1>4, <1>5, <1>6 DEF StoreNext

(* Whoever opens a database together, fails to migrate it or is killed     *)
(* between two statements, it never claims a version that its tables have  *)
(* not reached, unless it is an old one that the program gives no          *)
(* migration, or whose version it once failed to read.                     *)
THEOREM VersionsTruthful == StoreSpec => []StoreTruthful
<1>1. OpenInv => StoreTruthful
  BY DEF OpenInv, Databases, StoreTruthful, Excused
<1> QED
  BY <1>1, InitOpen, StepOpen, PTL DEF StoreSpec

----------------------------------------------------------------------------
(* Saved files.                                                            *)

SecretsFile(vault) == [type |-> "secrets", lines |-> SecretLines(vault)]
VectorsFile(save) ==
  [type |-> "vectors", dim |-> index.meta.dim, bits |-> index.meta.bits, ids |-> index.ids, save |-> save]
MetaFile(save) == [type |-> "meta", meta |-> index.meta, save |-> save]

Places == {"secrets", "index", "index.tmp", "meta", "meta.tmp"}
Phases == {"none", "vectors", "meta", "synced", "renamed"}

(* A file is a record.                                                     *)
DiskInv ==
  /\ disk = [path \in Paths |-> disk[path]]
  /\ \A path \in Paths : disk[path] = [data |-> disk[path].data, synced |-> disk[path].synced]

(* The secrets file is synced, and is the one that was found or what the   *)
(* last vault was written as.  Until a writer renames its own file, that   *)
(* holds what it is about to save, and is synced before the rename.        *)
WriterInv(w) ==
  /\ vaultOf[w].at \in {"written", "synced"} => disk[w].data = SecretsFile(vaultOf[w].vault)
  /\ vaultOf[w].at = "synced" => disk[w].synced = TRUE

SecretsInv ==
  /\ vaultOf = [w \in Writers |-> vaultOf[w]]
  /\ \A w \in Writers :
       /\ vaultOf[w] = [at |-> vaultOf[w].at, vault |-> vaultOf[w].vault]
       /\ WriterInv(w)
  /\ disk["secrets"].synced = TRUE
  /\ \A vault \in persisted :
       LoadFrom(disk["secrets"]) = Ok(vault) \/ disk["secrets"].data = SecretsFile(vault)

(* The index and its metadata are never torn.  While a save is under way   *)
(* its temporary files hold the index in memory; both are synced before    *)
(* the first rename.  The metadata is renamed first: without a power       *)
(* failure it is ahead of the vectors between the renames only.            *)
SavingInv ==
  /\ saving \in Phases
  /\ saving # "none" => disk["index.tmp"].data = VectorsFile(saves)
  /\ saving \in {"meta", "synced"} => disk["meta.tmp"].data = MetaFile(saves)
  /\ saving \in {"synced", "renamed"} => disk["index.tmp"].synced = TRUE
  /\ saving = "synced" => disk["meta.tmp"].synced = TRUE
  /\ saving = "renamed" => disk["meta"].data = MetaFile(saves)

SavedInv ==
  /\ saves \in Nat /\ failures \in Nat
  /\ disk["index"].synced = TRUE /\ disk["meta"].synced = TRUE
  /\ disk["index"].data.type \in {"missing", "vectors"}
  /\ disk["meta"].data.type \in {"missing", "meta"}
  /\ disk["index"].data.type = "vectors" =>
       /\ disk["meta"].data.type = "meta"
       /\ disk["index"].data.save \in Nat
       /\ disk["index"].data.save <= disk["meta"].data.save
       /\ failures = 0 /\ saving # "renamed" => disk["index"].data.save = disk["meta"].data.save
  /\ disk["meta"].data.type = "meta" =>
       /\ disk["meta"].data.save \in Nat /\ disk["meta"].data.save <= saves
       /\ failures = 0 /\ saving # "renamed" => disk["index"].data.type = "vectors"

LoadedInv ==
  \A last \in loaded :
    /\ last.vectors.dim = last.meta.meta.dim /\ last.vectors.bits = last.meta.meta.bits
    /\ last.meta.save >= last.vectors.save
    /\ failures = 0 => last.meta.save = last.vectors.save

FilesInv == DiskInv /\ SecretsInv /\ SavingInv /\ SavedInv /\ LoadedInv

(* The initial states satisfy the invariant.                               *)
LEMMA InitFiles == FilesInit => FilesInv
<1> SUFFICES ASSUME FilesInit PROVE FilesInv
  OBVIOUS
<1>1. PICK old \in OldSecrets :
        /\ disk = [path \in Paths |-> IF path = "secrets" THEN old ELSE NoFile]
        /\ persisted = IF LoadFrom(old).ok THEN {LoadFrom(old).value} ELSE {}
  BY DEF FilesInit
<1>2. disk["secrets"] = old /\ \A path \in Paths \ {"secrets"} : disk[path] = NoFile
  BY <1>1 DEF Paths
<1>3. LoadFrom(old).ok => LoadFrom(old) = Ok(LoadFrom(old).value)
  BY DEF LoadFrom, ParseSecrets, Ok, Err
<1>4. DiskInv
  <2>1. disk = [path \in Paths |-> disk[path]]
    BY <1>1
  <2>2. old = [data |-> old.data, synced |-> old.synced]
    BY FilesAssumption
  <2> QED
    BY <1>2, <2>1, <2>2 DEF DiskInv, NoFile
<1>5. SecretsInv
  BY <1>1, <1>2, <1>3, FilesAssumption DEF FilesInit, SecretsInv, WriterInv, NoVault
<1>6. SavingInv /\ SavedInv /\ LoadedInv
  BY <1>2 DEF FilesInit, SavingInv, Phases, SavedInv, LoadedInv, NoFile, Paths
<1> QED
  BY <1>4, <1>5, <1>6 DEF FilesInv

(* What writing, syncing and renaming a file changes.                      *)
LEMMA WrittenDisk ==
  ASSUME DiskInv, NEW path \in Paths, NEW data, disk' = [disk EXCEPT ![path] = Written(data)]
  PROVE  /\ DiskInv'
         /\ disk'[path] = [data |-> data, synced |-> FALSE]
         /\ \A other \in Paths \ {path} : disk'[other] = disk[other]
  BY DEF DiskInv, Written

(* A sync changes nothing but that its path is synced.                      *)
LEMMA SyncedDisk ==
  ASSUME DiskInv, NEW path \in Paths, disk' = Sync(path)
  PROVE  /\ DiskInv'
         /\ disk'[path] = [data |-> disk[path].data, synced |-> TRUE]
         /\ \A other \in Paths \ {path} : disk'[other] = disk[other]
  BY DEF DiskInv, Sync, Synced

(* A rename changes its target alone, which has then what was moved.        *)
LEMMA RenamedDisk ==
  ASSUME DiskInv, NEW from \in Paths, NEW to \in Paths, from # to, disk' = Rename(from, to)
  PROVE  /\ DiskInv'
         /\ disk'[to] = disk[from]
         /\ \A other \in Paths \ {from, to} : disk'[other] = disk[other]
<1>1. disk' = [path \in Paths |-> IF path = from THEN NoFile ELSE IF path = to THEN disk[from] ELSE disk[path]]
  BY DEF DiskInv, Rename
<1>2. \A path \in Paths : disk'[path] = IF path = from THEN NoFile ELSE IF path = to THEN disk[from] ELSE disk[path]
  BY <1>1
<1>3. disk' = [path \in Paths |-> disk'[path]]
  BY <1>1
<1> QED
  BY <1>2, <1>3 DEF DiskInv, NoFile

(* Steps that leave the secrets, or the index, alone.                      *)
LEMMA SecretsKeep ==
  ASSUME SecretsInv, UNCHANGED secretVars, \A path \in Writers \cup {"secrets"} : disk'[path] = disk[path]
  PROVE  SecretsInv'
<1>1. \A w \in Writers : WriterInv(w)'
  BY DEF SecretsInv, WriterInv, secretVars
<1> QED
  BY <1>1 DEF SecretsInv, secretVars

(* A step that leaves the files of the index alone keeps what is known of   *)
(* them.                                                                    *)
LEMMA IndexKeeps ==
  ASSUME SavingInv, SavedInv, LoadedInv, UNCHANGED <<indexVars, failures>>,
         \A path \in Places \ {"secrets"} : disk'[path] = disk[path]
  PROVE  SavingInv' /\ SavedInv' /\ LoadedInv'
<1>1. UNCHANGED <<index, saving, saves, loaded, failures>>
  BY DEF indexVars
<1>2. SavingInv'
  BY <1>1 DEF SavingInv, Places, VectorsFile, MetaFile
<1>3. SavedInv'
  BY <1>1 DEF SavedInv, Places
<1> QED
  BY <1>1, <1>2, <1>3 DEF LoadedInv

(* The writers whose step it is not keep their files.                      *)
LEMMA WritersKeep ==
  ASSUME SecretsInv, NEW w \in Writers,
         \A v \in Writers \ {w} : vaultOf'[v] = vaultOf[v] /\ disk'[v] = disk[v]
  PROVE  \A v \in Writers \ {w} : WriterInv(v)'
  BY DEF SecretsInv, WriterInv

(* A writer's step touches its own file, or renames it over the secrets.   *)
LEMMA StepSecrets ==
  ASSUME FilesInv, NEW w \in Writers,
         \/ LoadVault(w) \/ PersistRefused(w) \/ WriteTmp(w) \/ SyncTmp(w) \/ RenameTmp(w)
         \/ \E put \in SecretInserts[w] : Insert(w, put[1], put[2])
  PROVE  FilesInv'
<1> USE DEF TmpOf
<1>0. DiskInv /\ SecretsInv /\ SavingInv /\ SavedInv /\ LoadedInv
  BY DEF FilesInv
<1>1. /\ w \in Paths /\ w \notin Places
      /\ "secrets" \in Places /\ Places \subseteq Paths /\ Writers \subseteq Paths
  BY FilesAssumption DEF Paths, Places, TmpOf
<1>2. UNCHANGED <<indexVars, failures>>
  BY DEF LoadVault, Insert, PersistRefused, WriteTmp, SyncTmp, RenameTmp
<1>3. ASSUME vaultOf' = [vaultOf EXCEPT ![w] = vaultOf'[w]],
             vaultOf'[w] = [at |-> vaultOf'[w].at, vault |-> vaultOf'[w].vault],
             vaultOf'[w].at \notin {"written", "synced"}, UNCHANGED disk, UNCHANGED persisted
      PROVE  FilesInv'
  <2>1. vaultOf' = [v \in Writers |-> vaultOf'[v]] /\ \A v \in Writers \ {w} : vaultOf'[v] = vaultOf[v]
    BY <1>0, <1>3 DEF SecretsInv
  <2>2. \A v \in Writers : WriterInv(v)'
    BY <1>0, <1>3, <2>1 DEF SecretsInv, WriterInv
  <2>3. SecretsInv'
    BY <1>0, <1>3, <2>1, <2>2 DEF SecretsInv
  <2> QED
    BY <1>0, <1>2, <1>3, <2>3, IndexKeeps DEF DiskInv, FilesInv
<1>4. CASE LoadVault(w) \/ PersistRefused(w) \/ \E put \in SecretInserts[w] : Insert(w, put[1], put[2])
  <2>1. UNCHANGED <<disk, persisted>>
    BY <1>0, <1>4 DEF LoadVault, PersistRefused, Insert
  <2>2. ASSUME NEW at \in {"loaded", "done", "changed"}, NEW vault,
               vaultOf' = [vaultOf EXCEPT ![w] = [at |-> at, vault |-> vault]]
        PROVE  FilesInv'
    <3>1. vaultOf'[w] = [at |-> at, vault |-> vault]
      BY <1>0, <2>2 DEF SecretsInv
    <3>2. vaultOf' = [vaultOf EXCEPT ![w] = vaultOf'[w]]
      BY <2>2, <3>1
    <3>3. /\ vaultOf'[w] = [at |-> vaultOf'[w].at, vault |-> vaultOf'[w].vault]
          /\ vaultOf'[w].at \notin {"written", "synced"}
      BY <3>1
    <3> QED
      BY <1>3, <2>1, <3>2, <3>3
  <2>3. CASE LoadVault(w)
    <3> DEFINE read == LoadFrom(disk["secrets"])
    <3>1. \/ vaultOf' = [vaultOf EXCEPT ![w] = [at |-> "loaded", vault |-> read.value]]
          \/ vaultOf' = [vaultOf EXCEPT ![w] = [at |-> "done", vault |-> <<>>]]
      BY <2>3 DEF LoadVault, NoVault
    <3> HIDE DEF read
    <3> QED
      BY <2>2, <3>1
  <2>4. CASE PersistRefused(w)
    <3>1. vaultOf' = [vaultOf EXCEPT ![w] = [at |-> "done", vault |-> <<>>]]
      BY <2>4 DEF PersistRefused, NoVault
    <3> QED
      BY <2>2, <3>1
  <2>5. ASSUME NEW key, NEW value, Insert(w, key, value) PROVE FilesInv'
    <3> DEFINE changed == key :> value @@ vaultOf[w].vault
    <3>1. vaultOf' = [vaultOf EXCEPT ![w] = [at |-> "changed", vault |-> changed]]
      BY <2>5 DEF Insert
    <3> HIDE DEF changed
    <3> QED
      BY <2>2, <3>1
  <2> QED
    BY <1>4, <2>3, <2>4, <2>5
<1>5. CASE WriteTmp(w)
  <2>1. /\ DiskInv' /\ disk'[w].data = SecretsFile(vaultOf[w].vault)
        /\ \A path \in Paths \ {w} : disk'[path] = disk[path]
    <3>1. disk' = [disk EXCEPT ![w] = Written(SecretsFile(vaultOf[w].vault))]
      BY <1>5 DEF WriteTmp, SecretsFile
    <3>2. DiskInv' /\ disk'[w] = [data |-> SecretsFile(vaultOf[w].vault), synced |-> FALSE]
          /\ \A path \in Paths \ {w} : disk'[path] = disk[path]
      BY <1>0, <1>1, <3>1, WrittenDisk
    <3> QED
      BY <3>2
  <2>2. /\ vaultOf' = [v \in Writers |-> vaultOf'[v]]
        /\ vaultOf'[w] = [at |-> "written", vault |-> vaultOf[w].vault]
        /\ \A v \in Writers \ {w} : vaultOf'[v] = vaultOf[v]
    BY <1>0, <1>5 DEF WriteTmp, SecretsInv
  <2>3. \A v \in Writers : WriterInv(v)'
    <3>1. WriterInv(w)'
      BY <1>0, <2>1, <2>2 DEF SecretsInv, WriterInv
    <3>2. \A v \in Writers \ {w} : vaultOf'[v] = vaultOf[v] /\ disk'[v] = disk[v]
      BY <1>1, <2>1, <2>2
    <3>3. \A v \in Writers \ {w} : WriterInv(v)'
      BY <1>0, <3>2, WritersKeep
    <3> QED
      BY <3>1, <3>3, Zenon
  <2>4. SecretsInv'
    BY <1>0, <1>1, <1>5, <2>1, <2>2, <2>3 DEF SecretsInv, WriteTmp
  <2> QED
    BY <1>0, <1>1, <1>2, <2>1, <2>4, IndexKeeps DEF FilesInv
<1>6. CASE SyncTmp(w)
  <2>1. /\ DiskInv' /\ disk'[w] = [data |-> disk[w].data, synced |-> TRUE]
        /\ \A path \in Paths \ {w} : disk'[path] = disk[path]
    BY <1>0, <1>1, <1>6, SyncedDisk DEF SyncTmp
  <2>2. /\ vaultOf' = [v \in Writers |-> vaultOf'[v]]
        /\ vaultOf[w].at = "written"
        /\ vaultOf'[w] = [at |-> "synced", vault |-> vaultOf[w].vault]
        /\ \A v \in Writers \ {w} : vaultOf'[v] = vaultOf[v]
    BY <1>0, <1>6 DEF SyncTmp, SecretsInv
  <2>3. \A v \in Writers : WriterInv(v)'
    <3>1. WriterInv(w)'
      BY <1>0, <2>1, <2>2 DEF SecretsInv, WriterInv
    <3>2. \A v \in Writers \ {w} : vaultOf'[v] = vaultOf[v] /\ disk'[v] = disk[v]
      BY <1>1, <2>1, <2>2
    <3>3. \A v \in Writers \ {w} : WriterInv(v)'
      BY <1>0, <3>2, WritersKeep
    <3> QED
      BY <3>1, <3>3, Zenon
  <2>4. SecretsInv'
    BY <1>0, <1>1, <1>6, <2>1, <2>2, <2>3 DEF SecretsInv, SyncTmp
  <2> QED
    BY <1>0, <1>1, <1>2, <2>1, <2>4, IndexKeeps DEF FilesInv
<1>7. CASE RenameTmp(w)
  <2>1. /\ DiskInv' /\ disk'["secrets"] = disk[w]
        /\ \A path \in Paths \ {w, "secrets"} : disk'[path] = disk[path]
    BY <1>0, <1>1, <1>7, RenamedDisk DEF RenameTmp
  <2>2. /\ vaultOf' = [v \in Writers |-> vaultOf'[v]]
        /\ vaultOf'[w] = [at |-> "done", vault |-> <<>>]
        /\ \A v \in Writers \ {w} : vaultOf'[v] = vaultOf[v]
    BY <1>0, <1>7 DEF RenameTmp, SecretsInv, NoVault
  <2>3. \A v \in Writers : WriterInv(v)'
    <3>1. WriterInv(w)'
      BY <2>2 DEF WriterInv
    <3>2. \A v \in Writers \ {w} : vaultOf'[v] = vaultOf[v] /\ disk'[v] = disk[v]
      BY <1>1, <2>1, <2>2, FilesAssumption
    <3>3. \A v \in Writers \ {w} : WriterInv(v)'
      BY <1>0, <3>2, WritersKeep
    <3> QED
      BY <3>1, <3>3, Zenon
  <2>4. disk[w].synced = TRUE /\ disk[w].data = SecretsFile(vaultOf[w].vault)
    BY <1>0, <1>7 DEF RenameTmp, SecretsInv, WriterInv
  <2>5. SecretsInv'
    BY <1>0, <1>7, <2>1, <2>2, <2>3, <2>4 DEF SecretsInv, RenameTmp
  <2> QED
    BY <1>0, <1>1, <1>2, <2>1, <2>5, IndexKeeps DEF FilesInv
<1> QED
  BY <1>4, <1>5, <1>6, <1>7

(* The index in memory changes while no save is under way; a save touches  *)
(* the four files of the index only.                                       *)
LEMMA StepMemory ==
  ASSUME FilesInv, saving = "none", UNCHANGED <<disk, secretVars, saving, saves, failures>>, LoadedInv'
  PROVE  FilesInv'
<1>1. DiskInv' /\ SavedInv' /\ SavingInv'
  BY DEF FilesInv, DiskInv, SavedInv, SavingInv, Phases
<1>2. SecretsInv'
  BY SecretsKeep DEF FilesInv
<1> QED
  BY <1>1, <1>2 DEF FilesInv

(* The steps of saving an index keep the invariant.                         *)
LEMMA StepSave ==
  ASSUME FilesInv, SaveVectors \/ SaveMeta \/ SyncBoth \/ RenameMeta \/ RenameVectors
  PROVE  FilesInv'
<1>0. DiskInv /\ SecretsInv /\ SavingInv /\ SavedInv /\ LoadedInv
  BY DEF FilesInv
<1>1. Places \subseteq Paths /\ Writers \subseteq Paths /\ Writers \cap Places = {}
  BY FilesAssumption DEF Places, Paths, TmpOf
<1>2. UNCHANGED <<secretVars, index, loaded, failures>> /\ LoadedInv'
  BY <1>0 DEF SaveVectors, SaveMeta, SyncBoth, RenameMeta, RenameVectors, SaveStep, LoadedInv
<1>3. ASSUME DiskInv', \A path \in Paths \ (Places \ {"secrets"}) : disk'[path] = disk[path],
             SavingInv', SavedInv'
      PROVE  FilesInv'
  <2>1. \A path \in Writers \cup {"secrets"} : disk'[path] = disk[path]
    BY <1>1, <1>3 DEF Places
  <2>2. SecretsInv'
    BY <1>0, <1>2, <2>1, SecretsKeep
  <2> QED
    BY <1>2, <1>3, <2>2 DEF FilesInv
<1>4. CASE SaveVectors
  <2>1. /\ saving = "none" /\ saving' = "vectors" /\ saves' = saves + 1
        /\ disk' = [disk EXCEPT !["index.tmp"] = Written(VectorsFile(saves + 1))]
    BY <1>4 DEF SaveVectors, SaveStep, HasIndex, VectorsFile, Stamp
  <2>2. /\ DiskInv' /\ disk'["index.tmp"] = [data |-> VectorsFile(saves + 1), synced |-> FALSE]
        /\ \A path \in Paths \ {"index.tmp"} : disk'[path] = disk[path]
    BY <1>0, <1>1, <2>1, WrittenDisk DEF Places
  <2>3. SavingInv'
    BY <1>2, <2>1, <2>2 DEF SavingInv, Phases, VectorsFile
  <2>4. SavedInv'
    BY <1>0, <1>1, <1>2, <2>1, <2>2 DEF SavedInv, Places
  <2> QED
    BY <1>3, <2>2, <2>3, <2>4 DEF Places
<1>5. CASE SaveMeta
  <2>1. /\ saving = "vectors" /\ saving' = "meta" /\ saves' = saves
        /\ disk' = [disk EXCEPT !["meta.tmp"] = Written(MetaFile(saves))]
    BY <1>5 DEF SaveMeta, SaveStep, MetaFile
  <2>2. /\ DiskInv' /\ disk'["meta.tmp"] = [data |-> MetaFile(saves), synced |-> FALSE]
        /\ \A path \in Paths \ {"meta.tmp"} : disk'[path] = disk[path]
    BY <1>0, <1>1, <2>1, WrittenDisk DEF Places
  <2>3. SavingInv'
    BY <1>0, <1>1, <1>2, <2>1, <2>2 DEF SavingInv, Phases, VectorsFile, MetaFile, Places
  <2>4. SavedInv'
    BY <1>0, <1>1, <1>2, <2>1, <2>2 DEF SavedInv, Places
  <2> QED
    BY <1>3, <2>2, <2>3, <2>4 DEF Places
<1>6. CASE SyncBoth
  <2>1. /\ saving = "meta" /\ saving' = "synced" /\ saves' = saves
        /\ disk' = [disk EXCEPT !["index.tmp"] = Synced(@), !["meta.tmp"] = Synced(@)]
    BY <1>6 DEF SyncBoth, SaveStep
  <2>2. /\ disk'["index.tmp"] = Synced(disk["index.tmp"]) /\ disk'["meta.tmp"] = Synced(disk["meta.tmp"])
        /\ \A path \in Paths \ {"index.tmp", "meta.tmp"} : disk'[path] = disk[path]
        /\ disk' = [path \in Paths |-> disk'[path]]
    BY <1>0, <1>1, <2>1 DEF Places, DiskInv
  <2>3. SavingInv'
    BY <1>0, <1>2, <2>1, <2>2 DEF SavingInv, Phases, VectorsFile, MetaFile, Synced
  <2>4. SavedInv'
    BY <1>0, <1>1, <1>2, <2>1, <2>2 DEF SavedInv, Places
  <2>5. DiskInv'
    BY <1>0, <2>2 DEF DiskInv, Synced
  <2> QED
    BY <1>3, <2>2, <2>3, <2>4, <2>5 DEF Places
<1>7. CASE RenameMeta
  <2>1. /\ saving = "synced" /\ saving' = "renamed" /\ saves' = saves
        /\ disk' = Rename("meta.tmp", "meta")
    BY <1>7 DEF RenameMeta, SaveStep
  <2>2. /\ DiskInv' /\ disk'["meta"] = disk["meta.tmp"]
        /\ \A path \in Paths \ {"meta", "meta.tmp"} : disk'[path] = disk[path]
    BY <1>0, <1>1, <2>1, RenamedDisk DEF Places
  <2>3. SavingInv'
    BY <1>0, <1>1, <1>2, <2>1, <2>2 DEF SavingInv, Phases, VectorsFile, MetaFile, Places
  <2>4. disk'["meta"].synced = TRUE /\ disk'["meta"].data.type = "meta" /\ disk'["meta"].data.save = saves
        /\ disk'["index"] = disk["index"]
    BY <1>0, <1>1, <2>1, <2>2 DEF SavingInv, MetaFile, Places
  <2>5. SavedInv'
    BY <1>0, <1>2, <2>1, <2>4 DEF SavedInv
  <2> QED
    BY <1>3, <2>2, <2>3, <2>5 DEF Places
<1>8. CASE RenameVectors
  <2>1. /\ saving = "renamed" /\ saving' = "none" /\ saves' = saves
        /\ disk' = Rename("index.tmp", "index")
    BY <1>8 DEF RenameVectors, SaveStep
  <2>2. /\ DiskInv' /\ disk'["index"] = disk["index.tmp"]
        /\ \A path \in Paths \ {"index", "index.tmp"} : disk'[path] = disk[path]
    BY <1>0, <1>1, <2>1, RenamedDisk DEF Places
  <2>3. SavingInv'
    BY <2>1 DEF SavingInv, Phases
  <2>4. /\ disk'["index"].synced = TRUE /\ disk'["index"].data.type = "vectors" /\ disk'["index"].data.save = saves
        /\ disk'["meta"] = disk["meta"] /\ disk["meta"].data.type = "meta" /\ disk["meta"].data.save = saves
    BY <1>0, <1>1, <2>1, <2>2 DEF SavingInv, VectorsFile, MetaFile, Places
  <2>5. SavedInv'
    BY <1>0, <1>2, <2>1, <2>4 DEF SavedInv
  <2> QED
    BY <1>3, <2>2, <2>3, <2>5 DEF Places
<1> QED
  BY <1>4, <1>5, <1>6, <1>7, <1>8

(* A load has read both files whole, and checked one against the other.    *)
LEMMA StepIndex == FilesInv /\ IndexNext /\ ~PowerFails => FilesInv'
<1> SUFFICES ASSUME FilesInv, IndexNext, ~PowerFails PROVE FilesInv'
  OBVIOUS
<1>1. ASSUME NEW meta, NewIndex(meta) PROVE FilesInv'
  BY <1>1, StepMemory DEF NewIndex, FilesInv, LoadedInv
<1>2. ASSUME NEW ids, AddVectors(ids) \/ RemoveVectors(ids) PROVE FilesInv'
  BY <1>2, StepMemory DEF AddVectors, RemoveVectors, HasIndex, FilesInv, LoadedInv
<1>3. CASE LoadIndex
  <2>1. /\ disk["index"].data.dim = disk["meta"].data.meta.dim
        /\ disk["index"].data.bits = disk["meta"].data.meta.bits
        /\ disk["index"].data.type = "vectors"
    BY <1>3 DEF LoadIndex, Loads, IsWhole, FilesInv, SavedInv
  <2>2. LoadedInv'
    BY <1>3, <2>1 DEF LoadIndex, FilesInv, SavedInv, LoadedInv
  <2> QED
    BY <1>3, <2>2, StepMemory DEF LoadIndex
<1> QED
  BY <1>1, <1>2, <1>3, StepSave DEF IndexNext

(* What was synced survives; no writer and no save does.                   *)
LEMMA StepPower == FilesInv /\ PowerFails => FilesInv'
<1> SUFFICES ASSUME FilesInv, PowerFails PROVE FilesInv'
  OBVIOUS
<1>1. PICK torn \in SUBSET {path \in Paths : ~disk[path].synced} :
        disk' = [path \in Paths |-> IF path \in torn THEN Torn ELSE Synced(disk[path])]
  BY DEF PowerFails
<1>2. \A path \in Paths : disk'[path] = IF path \in torn THEN Torn ELSE Synced(disk[path])
  BY <1>1
<1>3. DiskInv'
  <2>1. disk' = [path \in Paths |-> disk'[path]]
    BY <1>1
  <2> QED
    BY <1>2, <2>1 DEF DiskInv, Torn, Synced
<1>4. \A path \in {"secrets", "index", "meta"} : disk'[path] = disk[path]
  <2> SUFFICES ASSUME NEW path \in {"secrets", "index", "meta"} PROVE disk'[path] = disk[path]
    OBVIOUS
  <2>1. path \in Paths /\ disk[path].synced = TRUE
    BY DEF FilesInv, SecretsInv, SavedInv, Paths
  <2>2. disk'[path] = Synced(disk[path])
    BY <1>2, <2>1
  <2> QED
    BY <2>1, <2>2 DEF FilesInv, DiskInv, Synced
<1>5. SecretsInv'
  BY <1>4 DEF PowerFails, FilesInv, SecretsInv, WriterInv, NoVault
<1>6. SavingInv' /\ LoadedInv'
  BY DEF PowerFails, SavingInv, LoadedInv, Phases
<1>7. SavedInv'
  BY <1>4 DEF PowerFails, FilesInv, SavedInv
<1> QED
  BY <1>3, <1>5, <1>6, <1>7 DEF FilesInv

(* Every step keeps the invariant.                                         *)
LEMMA StepFiles == FilesInv /\ [SecretsNext \/ IndexNext]_fileVars => FilesInv'
<1> SUFFICES ASSUME FilesInv, [SecretsNext \/ IndexNext]_fileVars PROVE FilesInv'
  OBVIOUS
<1>1. CASE UNCHANGED fileVars
  <2>1. UNCHANGED <<disk, secretVars, indexVars, failures>>
    BY <1>1 DEF fileVars
  <2> QED
    BY <2>1, SecretsKeep, IndexKeeps DEF FilesInv, DiskInv
<1> QED
  BY <1>1, StepSecrets, StepIndex, StepPower DEF SecretsNext, IndexNext

(* The encoding, of which TLC checks the values it tells apart.            *)
ReadsBack ==
  \A vault \in persisted :
    (\A key \in DOMAIN vault : Kept(vault[key])) => ParseSecrets(SecretLines(vault)) = Ok(vault)

(* Wherever the encoding of a vault reads back as the vault, the secrets   *)
(* file does, after any interleaving of writers and any power failures;    *)
(* and what loads as an index is whole, of the dimension and the width in  *)
(* its metadata, which is never older than the vectors.                    *)
THEOREM SavesSurvive == FilesSpec => [](ReadsBack => SavedFilesWhole)
<1>1. FilesInv => (ReadsBack => SavedFilesWhole)
  <2> SUFFICES ASSUME FilesInv, ReadsBack PROVE SavedFilesWhole
    OBVIOUS
  <2>1. SecretsKept
    <3> SUFFICES ASSUME NEW vault \in persisted, \A key \in DOMAIN vault : Kept(vault[key])
                 PROVE  LoadFrom(disk["secrets"]) = Ok(vault)
      BY DEF SecretsKept
    <3>1. CASE disk["secrets"].data = SecretsFile(vault)
      <4>1. LoadFrom(disk["secrets"]) = ParseSecrets(SecretLines(vault))
        BY <3>1 DEF LoadFrom, SecretsFile
      <4> QED
        BY <4>1 DEF ReadsBack
    <3> QED
      BY <3>1 DEF FilesInv, SecretsInv
  <2>2. IndexKept
    BY DEF FilesInv, SavedInv, LoadedInv, IndexKept, IsWhole
  <2> QED
    BY <2>1, <2>2 DEF SavedFilesWhole
<1> QED
  BY <1>1, InitFiles, StepFiles, PTL DEF FilesSpec

----------------------------------------------------------------------------
(* The calls of an asynchronous graph handle.                              *)

AsyncCall == [kind : {"read", "write"}, at : {"spawned", "locked", "over", "answered"}, ok : BOOLEAN,
         seen : SUBSET Nat, known : SUBSET Nat]

(* A write whose closure has ended well.                                   *)
Finished(i) == calls[i].kind = "write" /\ calls[i].at \in {"over", "answered"} /\ calls[i].ok

(* The types, and the mutex: one closure at most has it, none after a      *)
(* panic.                                                                  *)
LockInv ==
  /\ calls \in Seq(AsyncCall)
  /\ awaited \in [Tasks -> 0..Len(calls)]
  /\ poisoned \in BOOLEAN
  /\ \A i \in DOMAIN calls : calls[i].at = "locked" => holder = i /\ ~poisoned
  /\ \A i \in DOMAIN calls : calls[i].ok => calls[i].at \in {"over", "answered"}

(* AnswersTrue rests on what is written: the takes that are done, each    *)
(* once, in an order that respects what a call knew when it was made.      *)
WriteInv ==
  /\ written \in Seq(DOMAIN calls)
  /\ \A k, l \in DOMAIN written : written[k] = written[l] => k = l
  /\ \A i \in DOMAIN calls : Finished(i) <=> \E k \in DOMAIN written : written[k] = i
  /\ \A i \in DOMAIN calls : \A j \in calls[i].known : j \in DOMAIN calls /\ Finished(j)
  /\ \A i \in DOMAIN calls : calls[i].ok => calls[i].known \subseteq calls[i].seen
  /\ \A k, l \in DOMAIN written : written[l] \in calls[written[k]].known => l < k
  /\ poisoned => Len(written) = beforePanic

(* The initial states satisfy the invariant.                               *)
LEMMA InitAsync == AsyncInit => LockInv /\ WriteInv
<1> SUFFICES ASSUME AsyncInit PROVE LockInv /\ WriteInv
  OBVIOUS
<1>1. calls = <<>> /\ written = <<>> /\ DOMAIN calls = {} /\ DOMAIN written = {} /\ Len(calls) = 0
      /\ calls \in Seq(AsyncCall) /\ written \in Seq(DOMAIN calls)
  BY DEF AsyncInit
<1>2. awaited \in [Tasks -> 0..Len(calls)] /\ poisoned = FALSE
  BY <1>1 DEF AsyncInit
<1> QED
  BY <1>1, <1>2 DEF LockInv, WriteInv

(* A call that moves on without being done, or after it is, disturbs       *)
(* nothing that is written.                                                *)
LEMMA MovedOn ==
  ASSUME LockInv, WriteInv, NEW i \in DOMAIN calls, NEW at \in {"locked", "over", "answered"},
         calls' = [calls EXCEPT ![i].at = at], UNCHANGED written,
         calls[i].ok => at \in {"over", "answered"},
         poisoned' => (poisoned /\ UNCHANGED beforePanic) \/ beforePanic' = Len(written)
  PROVE  /\ calls' \in Seq(AsyncCall) /\ Len(calls') = Len(calls) /\ DOMAIN calls' = DOMAIN calls
         /\ calls'[i] = [calls[i] EXCEPT !.at = at]
         /\ \A j \in DOMAIN calls : j # i => calls'[j] = calls[j]
         /\ WriteInv'
<1>1. /\ calls' \in Seq(AsyncCall) /\ Len(calls') = Len(calls) /\ DOMAIN calls' = DOMAIN calls
      /\ calls'[i] = [calls[i] EXCEPT !.at = at]
      /\ \A j \in DOMAIN calls : j # i => calls'[j] = calls[j]
  <2>1. calls \in Seq(AsyncCall) /\ calls[i] \in AsyncCall
    BY DEF LockInv
  <2>2. PICK moved \in AsyncCall : moved = [calls[i] EXCEPT !.at = at]
    BY <2>1 DEF AsyncCall
  <2>3. calls' = [calls EXCEPT ![i] = moved]
    BY <2>2
  <2> QED
    BY <2>1, <2>2, <2>3
<1>2. calls[i] \in AsyncCall
  BY DEF LockInv
<1>3. calls'[i].kind = calls[i].kind /\ calls'[i].ok = calls[i].ok /\ calls'[i].at = at
      /\ calls'[i].known = calls[i].known /\ calls'[i].seen = calls[i].seen
  BY <1>1, <1>2 DEF AsyncCall
<1>4. \A j \in DOMAIN calls : Finished(j)' <=> Finished(j)
  BY <1>1, <1>3 DEF Finished, LockInv
<1>5. \A j \in DOMAIN calls : /\ calls'[j].known = calls[j].known /\ calls'[j].seen = calls[j].seen
                              /\ calls'[j].ok = calls[j].ok
  BY <1>1, <1>3
<1>6. \A k \in DOMAIN written : written[k] \in DOMAIN calls
  BY DEF WriteInv
<1>7. WriteInv'
  <2>1. written' \in Seq(DOMAIN calls')
    BY <1>1 DEF WriteInv
  <2>2. poisoned' => Len(written') = beforePanic'
    BY DEF WriteInv
  <2>3. \A k, l \in DOMAIN written : written[l] \in calls'[written[k]].known => l < k
    BY <1>5, <1>6 DEF WriteInv
  <2>4. \A j \in DOMAIN calls : \A d \in calls'[j].known : d \in DOMAIN calls /\ Finished(d)'
    BY <1>4, <1>5 DEF WriteInv
  <2>5. \A j \in DOMAIN calls : Finished(j)' <=> \E k \in DOMAIN written : written[k] = j
    BY <1>4 DEF WriteInv
  <2>6. \A j \in DOMAIN calls : calls'[j].ok => calls'[j].known \subseteq calls'[j].seen
    BY <1>5 DEF WriteInv
  <2> QED
    BY <1>1, <2>1, <2>2, <2>3, <2>4, <2>5, <2>6 DEF WriteInv
<1> QED
  BY <1>1, <1>7

(* Every step keeps it.                                                    *)
LEMMA StepAsync == LockInv /\ WriteInv /\ [AsyncNext]_asyncVars => LockInv' /\ WriteInv'
<1> SUFFICES ASSUME LockInv, WriteInv, [AsyncNext]_asyncVars PROVE LockInv' /\ WriteInv'
  OBVIOUS
<1>0. CASE UNCHANGED asyncVars
  BY <1>0 DEF asyncVars, LockInv, WriteInv, Finished
<1>1. ASSUME NEW t \in Tasks, NEW kind \in {"read", "write"}, WithConn(t, kind) PROVE LockInv' /\ WriteInv'
  <2> DEFINE new == [kind |-> kind, at |-> "spawned", ok |-> FALSE, seen |-> {}, known |-> Known("write")]
  <2>1. Known("write") \subseteq DOMAIN calls /\ \A j \in Known("write") : Finished(j)
    BY DEF Known, Finished
  <2>2. new \in AsyncCall
    BY <2>1 DEF AsyncCall, LockInv
  <2>3. /\ calls' = Append(calls, new) /\ awaited' = [awaited EXCEPT ![t] = Len(calls) + 1]
        /\ UNCHANGED <<holder, poisoned, written, beforePanic>>
    BY <1>1 DEF WithConn
  <2> HIDE DEF new
  <2>4. /\ calls' \in Seq(AsyncCall) /\ Len(calls') = Len(calls) + 1 /\ DOMAIN calls' = DOMAIN calls \cup {Len(calls) + 1}
        /\ calls'[Len(calls) + 1] = new /\ \A j \in DOMAIN calls : calls'[j] = calls[j]
        /\ Len(calls) \in Nat /\ DOMAIN calls = 1..Len(calls)
    BY <2>2, <2>3 DEF LockInv
  <2>5. new.at = "spawned" /\ new.ok = FALSE /\ new.known = Known("write") /\ new.seen = {}
    BY DEF new
  <2>6. LockInv'
    BY <2>3, <2>4, <2>5 DEF LockInv
  <2>7. PICK last \in Nat : last = Len(calls) + 1
    BY <2>4
  <2>7a. ~Finished(last)' /\ \A j \in DOMAIN calls : Finished(j)' <=> Finished(j)
    BY <2>4, <2>5, <2>7 DEF Finished
  <2>8. \A k \in DOMAIN written : written[k] \in DOMAIN calls
    BY DEF WriteInv
  <2>9. WriteInv'
    <3>1. written' \in Seq(DOMAIN calls')
      BY <2>3, <2>4 DEF WriteInv
    <3>2. \A j \in DOMAIN calls' : Finished(j)' <=> \E k \in DOMAIN written : written[k] = j
      BY <2>4, <2>7, <2>7a, <2>8 DEF WriteInv
    <3>3. \A j \in DOMAIN calls' : \A d \in calls'[j].known : d \in DOMAIN calls' /\ Finished(d)'
      BY <2>1, <2>4, <2>5, <2>7, <2>7a DEF WriteInv
    <3>4. \A j \in DOMAIN calls' : calls'[j].ok => calls'[j].known \subseteq calls'[j].seen
      BY <2>4, <2>5 DEF WriteInv
    <3>5. \A k, l \in DOMAIN written : written[l] \in calls'[written[k]].known => l < k
      BY <2>4, <2>8 DEF WriteInv
    <3> QED
      BY <2>3, <3>1, <3>2, <3>3, <3>4, <3>5 DEF WriteInv
  <2> QED
    BY <2>6, <2>9
<1>2. ASSUME NEW t \in Tasks, Await(t) PROVE LockInv' /\ WriteInv'
  <2> DEFINE i == awaited[t]
  <2>1. i \in DOMAIN calls /\ calls[i].at = "over"
    BY <1>2 DEF Await, LockInv
  <2>2. calls' = [calls EXCEPT ![i].at = "answered"] /\ awaited' = [awaited EXCEPT ![t] = 0]
        /\ UNCHANGED <<holder, poisoned, written, beforePanic>>
    BY <1>2 DEF Await
  <2> HIDE DEF i
  <2>3. /\ calls' \in Seq(AsyncCall) /\ Len(calls') = Len(calls) /\ DOMAIN calls' = DOMAIN calls
        /\ calls'[i] = [calls[i] EXCEPT !.at = "answered"]
        /\ \A j \in DOMAIN calls : j # i => calls'[j] = calls[j]
        /\ WriteInv'
    BY <2>1, <2>2, MovedOn
  <2>4. calls'[i].at = "answered" /\ calls'[i].ok = calls[i].ok
    BY <2>1, <2>3 DEF LockInv, AsyncCall
  <2>5. LockInv'
    BY <2>2, <2>3, <2>4 DEF LockInv
  <2> QED
    BY <2>3, <2>5
<1>3. ASSUME NEW t \in Tasks, DropFuture(t) PROVE LockInv' /\ WriteInv'
  BY <1>3 DEF DropFuture, LockInv, WriteInv, Finished
<1>4. ASSUME NEW i \in DOMAIN calls, Lock(i) \/ LockPoisoned(i) \/ PanicInClosure(i) PROVE LockInv' /\ WriteInv'
  <2>1. PICK at \in {"locked", "over"} :
          /\ calls' = [calls EXCEPT ![i].at = at] /\ UNCHANGED <<awaited, written>>
          /\ ~calls[i].ok
          /\ at = "locked" => holder' = i /\ ~poisoned'
          /\ \A j \in DOMAIN calls : j # i /\ calls[j].at = "locked" => holder' = holder /\ poisoned' = poisoned
          /\ poisoned' \in BOOLEAN
          /\ poisoned' => (poisoned /\ UNCHANGED beforePanic) \/ beforePanic' = Len(written)
    <3>1. CASE Lock(i)
      <4>1. \A j \in DOMAIN calls : calls[j].at # "locked"
        BY <3>1 DEF Lock, LockInv
      <4> QED
        BY <3>1, <4>1 DEF Lock, LockInv
    <3>2. CASE LockPoisoned(i)
      BY <3>2 DEF LockPoisoned, LockInv
    <3>3. CASE PanicInClosure(i)
      BY <3>3 DEF PanicInClosure, LockInv
    <3> QED
      BY <1>4, <3>1, <3>2, <3>3
  <2>2. /\ calls' \in Seq(AsyncCall) /\ Len(calls') = Len(calls) /\ DOMAIN calls' = DOMAIN calls
        /\ calls'[i] = [calls[i] EXCEPT !.at = at]
        /\ \A j \in DOMAIN calls : j # i => calls'[j] = calls[j]
        /\ WriteInv'
    BY <2>1, MovedOn
  <2>3. calls'[i].at = at /\ ~calls'[i].ok
    BY <2>1, <2>2 DEF LockInv, AsyncCall
  <2>4. LockInv'
    BY <2>1, <2>2, <2>3 DEF LockInv
  <2> QED
    BY <2>2, <2>4
<1>5. ASSUME NEW i \in DOMAIN calls, NEW ok \in BOOLEAN, RunClosure(i, ok) PROVE LockInv' /\ WriteInv'
  <2> DEFINE seen == IF ok THEN ToSet(written) ELSE {}
             takes == ok /\ calls[i].kind = "write"
  <2>1. /\ calls' = [calls EXCEPT ![i] = [@ EXCEPT !.at = "over", !.ok = ok, !.seen = seen]]
        /\ written' = IF takes THEN Append(written, i) ELSE written
        /\ UNCHANGED <<awaited, poisoned, beforePanic>>
        /\ calls[i].at = "locked" /\ ~calls[i].ok /\ ~poisoned
    BY <1>5 DEF RunClosure, LockInv
  <2>2. seen \subseteq DOMAIN calls /\ DOMAIN calls \subseteq Nat /\ calls[i] \in AsyncCall /\ written \in Seq(DOMAIN calls)
    <3>1. written \in Seq(DOMAIN calls) /\ calls \in Seq(AsyncCall)
      BY DEF WriteInv, LockInv
    <3> QED
      BY <3>1 DEF ToSet
  <2>3. ok => calls[i].known \subseteq seen
    BY DEF WriteInv, ToSet
  <2>4. \A j \in DOMAIN written : written[j] # i
    BY <2>1 DEF WriteInv, Finished
  <2>5. \A j \in DOMAIN calls : i \notin calls[j].known
    BY <2>1 DEF WriteInv, Finished
  <2> HIDE DEF seen
  <2>6. /\ calls' \in Seq(AsyncCall) /\ Len(calls') = Len(calls) /\ DOMAIN calls' = DOMAIN calls
        /\ calls'[i] = [kind |-> calls[i].kind, at |-> "over", ok |-> ok, seen |-> seen, known |-> calls[i].known]
        /\ \A j \in DOMAIN calls : j # i => calls'[j] = calls[j]
    <3>1. PICK c \in AsyncCall : c = [calls[i] EXCEPT !.at = "over", !.ok = ok, !.seen = seen]
      BY <2>2 DEF AsyncCall
    <3>1a. c = [kind |-> calls[i].kind, at |-> "over", ok |-> ok, seen |-> seen, known |-> calls[i].known]
      BY <2>2, <3>1 DEF AsyncCall
    <3>2. calls' = [calls EXCEPT ![i] = c]
      BY <2>1, <3>1
    <3>3. calls \in Seq(AsyncCall)
      BY DEF LockInv
    <3> QED
      BY <3>1a, <3>2, <3>3
  <2>7. LockInv'
    BY <2>1, <2>6 DEF LockInv
  <2>8. (\A j \in DOMAIN calls : j # i => (Finished(j)' <=> Finished(j))) /\ ~Finished(i) /\ (Finished(i)' <=> takes)
    <3>1. \A j \in DOMAIN calls : j # i => (Finished(j)' <=> Finished(j))
      BY <2>6 DEF Finished
    <3>2. calls'[i].kind = calls[i].kind /\ calls'[i].at = "over" /\ calls'[i].ok = ok
      BY <2>6
    <3>3. Finished(i)' <=> takes
      BY <3>2 DEF Finished
    <3>4. ~Finished(i)
      BY <2>1 DEF Finished
    <3> QED
      BY <3>1, <3>3, <3>4
  <2>9. \A j \in DOMAIN calls : calls'[j].known = calls[j].known
    BY <2>6
  <2>10. \A j \in DOMAIN calls : \A d \in calls'[j].known : d \in DOMAIN calls /\ Finished(d)'
    BY <2>5, <2>8, <2>9 DEF WriteInv
  <2>11. \A j \in DOMAIN calls : calls'[j].ok => calls'[j].known \subseteq calls'[j].seen
    <3>1. calls'[i].ok = ok /\ calls'[i].known = calls[i].known /\ calls'[i].seen = seen
      BY <2>6
    <3>2. \A j \in DOMAIN calls : j # i /\ calls'[j].ok => calls'[j].known \subseteq calls'[j].seen
      BY <2>6 DEF WriteInv
    <3> QED
      BY <2>3, <3>1, <3>2
  <2>12. WriteInv'
    <3>1. CASE ~takes
      <4>1. written' = written
        BY <2>1, <3>1
      <4>2. \A j \in DOMAIN calls : Finished(j)' <=> Finished(j)
        BY <2>8, <3>1
      <4>3. \A k, l \in DOMAIN written : written[l] \in calls'[written[k]].known => l < k
        BY <2>2, <2>9 DEF WriteInv
      <4> QED
        BY <2>1, <2>6, <2>10, <2>11, <4>1, <4>2, <4>3 DEF WriteInv
    <3>2. CASE takes
      <4>1. written' = Append(written, i)
        BY <2>1, <3>2
      <4>2. /\ written' \in Seq(DOMAIN calls) /\ DOMAIN written' = DOMAIN written \cup {Len(written) + 1}
            /\ written'[Len(written) + 1] = i /\ \A k \in DOMAIN written : written'[k] = written[k]
            /\ Len(written) \in Nat /\ DOMAIN written = 1..Len(written)
        BY <2>2, <4>1
      <4>3. \A k, l \in DOMAIN written' : written'[k] = written'[l] => k = l
        BY <2>4, <4>2 DEF WriteInv
      <4>4. \A j \in DOMAIN calls : Finished(j)' <=> \E k \in DOMAIN written' : written'[k] = j
        BY <2>4, <2>8, <3>2, <4>2 DEF WriteInv
      <4>5. \A k, l \in DOMAIN written' : written'[l] \in calls'[written'[k]].known => l < k
        <5> SUFFICES ASSUME NEW k \in DOMAIN written', NEW l \in DOMAIN written',
                            written'[l] \in calls[written'[k]].known
                     PROVE  l < k
          BY <2>9, <4>2
        <5>0. written'[k] \in DOMAIN calls
          <6>1. CASE k = Len(written) + 1
            BY <4>2, <6>1
          <6>2. CASE k \in DOMAIN written
            BY <2>2, <4>2, <6>2
          <6> QED
            BY <4>2, <6>1, <6>2
        <5>1. l \in DOMAIN written
          BY <2>5, <4>2, <5>0
        <5>2. CASE k \in DOMAIN written
          BY <4>2, <5>1, <5>2 DEF WriteInv
        <5>3. CASE k = Len(written) + 1
          BY <4>2, <5>1, <5>3
        <5> QED
          BY <4>2, <5>2, <5>3
      <4> QED
        <5>1. written' \in Seq(DOMAIN calls') /\ ~poisoned'
          BY <2>1, <2>6, <4>2
        <5> QED
          BY <2>6, <2>10, <2>11, <4>3, <4>4, <4>5, <5>1 DEF WriteInv
    <3> QED
      BY <3>1, <3>2
  <2> QED
    BY <2>7, <2>12
<1> QED
  BY <1>0, <1>1, <1>2, <1>3, <1>4, <1>5 DEF AsyncNext

(* What a call answers is what became of it, however closures, panics and  *)
(* dropped futures interleave.                                             *)
THEOREM TrueAnswers == AsyncSpec => []AnswersTrue
<1>1. LockInv /\ WriteInv => AnswersTrue
  <2> SUFFICES ASSUME LockInv, WriteInv PROVE AnswersTrue
    OBVIOUS
  <2>1. ASSUME NEW i \in DOMAIN calls, calls[i].kind = "write"
        PROVE  Cardinality(Position(i)) = (IF calls[i].at \in {"over", "answered"} /\ calls[i].ok THEN 1 ELSE 0)
    <3>1. CASE Finished(i)
      <4>1. PICK k \in DOMAIN written : written[k] = i
        BY <3>1 DEF WriteInv
      <4>2. Position(i) = {k}
        BY <4>1 DEF WriteInv, Position
      <4> QED
        BY <3>1, <4>2, FS_Singleton DEF Finished
    <3>2. CASE ~Finished(i)
      <4>1. Position(i) = {}
        BY <3>2 DEF WriteInv, Position
      <4> QED
        BY <2>1, <3>2, <4>1, FS_EmptySet DEF Finished
    <3> QED
      BY <3>1, <3>2
  <2>2. ASSUME NEW i \in DOMAIN calls, NEW j \in calls[i].known, NEW k \in Position(i), NEW l \in Position(j)
        PROVE  l < k
    BY <2>2 DEF WriteInv, Position
  <2> QED
    BY <2>1, <2>2 DEF WriteInv, AnswersTrue
<1> QED
  BY <1>1, InitAsync, StepAsync, PTL DEF AsyncSpec

----------------------------------------------------------------------------
(* Writes to several vector indexes.                                       *)

Ids == {id \in Nat : ToPgId(id)}
Tables == UNION {[D -> Nat] : D \in SUBSET Ids}
Rows == Seq([id : Nat, vec : Nat])

(* Rows that no table refuses.                                             *)
Taken(rows) == rows \in Rows /\ PgIds(rows) /\ ~Duplicates(rows)

(* One row more.                                                           *)
LEMMA UpsertOne ==
  ASSUME NEW table \in Tables, NEW row \in [id : Nat, vec : Nat], ToPgId(row.id)
  PROVE  /\ Upsert(table, row) \in Tables
         /\ DOMAIN Upsert(table, row) = DOMAIN table \cup {row.id}
         /\ Upsert(table, row)[row.id] = row.vec
         /\ \A id \in DOMAIN table : id # row.id => Upsert(table, row)[id] = table[id]
<1>1. PICK D \in SUBSET Ids : table \in [D -> Nat]
  BY DEF Tables
<1>2. DOMAIN table = D
  BY <1>1
<1> DEFINE u == [id \in {row.id} \cup D |-> IF id = row.id THEN row.vec ELSE table[id]]
<1>3. Upsert(table, row) = u
  BY <1>2 DEF Upsert
<1>4. u \in [{row.id} \cup D -> Nat] /\ {row.id} \cup D \in SUBSET Ids
  BY <1>1 DEF Ids
<1> QED
  BY <1>2, <1>3, <1>4 DEF Tables

(* An upsert of rows runs through the upserts of its prefixes.             *)
LEMMA UpsertFold ==
  ASSUME NEW V, NEW table \in V, NEW rows \in Rows, \A t \in V : \A k \in 1..Len(rows) : Upsert(t, rows[k]) \in V
  PROVE  \E p \in [0..Len(rows) -> V] :
           /\ p[0] = table /\ p[Len(rows)] = UpsertRows(table, rows)
           /\ \A k \in 1..Len(rows) : p[k] = Upsert(p[k - 1], rows[k])
<1> DEFINE last == Len(rows)
           op == [q \in (1..last) \X V |-> Upsert(q[2], rows[q[1]])]
           P(h) == h = [s \in SUBSET (1..last) |-> IF s = {} THEN table ELSE Upsert(h[s \ {Max(s)}], rows[Max(s)])]
           fold == CHOOSE h : P(h)
<1>0. last \in Nat /\ DOMAIN rows = 1..last
  BY LenProperties DEF Rows
<1> HIDE DEF last
<1>1. op \in [(1..last) \X V -> V]
  <2>1. ASSUME NEW q \in (1..last) \X V PROVE Upsert(q[2], rows[q[1]]) \in V
    BY <1>0, <2>1 DEF last
  <2> QED
    BY <2>1
<1>2. table \in V
  OBVIOUS
<1>3. P(fold)
  <2>1. PICK g \in [SUBSET (1..last) -> V] : Computes(g, last, V, table, op)
    <3> HIDE DEF op
    <3> QED
      BY <1>0, <1>1, <1>2, LeftRecursion
  <2>2. P(g)
    <3>1. \A s \in SUBSET (1..last) : s # {} => g[s] = Upsert(g[s \ {Max(s)}], rows[Max(s)])
      BY <2>1 DEF Computes
    <3> QED
      BY <2>1, <3>1 DEF Computes
  <2> HIDE DEF P
  <2> QED
    BY <2>2
<1>4. UpsertRows(table, rows) = fold[1..last]
  BY <1>0 DEF UpsertRows, FoldLeft, MapThenFoldSet
<1>5. Follows(fold, last, V, table, op)
  <2>1. ASSUME NEW h, P(h) PROVE Follows(h, last, V, table, op)
    <3>1. \A s \in SUBSET (1..last) : s # {} => Max(s) \in 1..last
      BY <1>0, GreatestChooses DEF Chooses
    <3>2. h[{}] = table
      BY <2>1
    <3>3. ASSUME NEW s \in SUBSET (1..last), s # {}, h[s \ {Max(s)}] \in V
          PROVE  h[s] = op[<<Max(s), h[s \ {Max(s)}]>>]
      <4>1. h[s] = Upsert(h[s \ {Max(s)}], rows[Max(s)])
        BY <2>1, <3>3
      <4>2. <<Max(s), h[s \ {Max(s)}]>> \in (1..last) \X V
        BY <3>1, <3>3
      <4> QED
        BY <4>1, <4>2
    <3> QED
      BY <3>2, <3>3 DEF Follows
  <2> HIDE DEF P, fold
  <2> QED
    BY <1>3, <2>1
<1>6. PICK p \in [0..last -> V] : p[last] = fold[1..last] /\ Passes(p, last, table, op)
  <2> HIDE DEF op, fold
  <2> QED
    BY <1>0, <1>1, <1>2, <1>5, LeftFold
<1>7. ASSUME NEW k \in 1..last PROVE p[k] = Upsert(p[k - 1], rows[k])
  <2>1. k - 1 \in 0..last
    BY <1>0
  <2> QED
    BY <1>6, <2>1 DEF Passes
<1> QED
  BY <1>4, <1>6, <1>7 DEF last, Passes

(* Tables that differ in some ids only, and the ids of rows.               *)
Agree(a, b, ids) ==
  /\ DOMAIN a \ ids = DOMAIN b \ ids
  /\ \A id \in DOMAIN a \ ids : a[id] = b[id]

RowIds(rows) == {rows[i].id : i \in DOMAIN rows}

Holds(table, rows) == \A i \in DOMAIN rows : rows[i].id \in DOMAIN table /\ table[rows[i].id] = rows[i].vec

(* What an upsert of rows that name no id twice leaves.                    *)
LEMMA Upserted ==
  ASSUME NEW table \in Tables, NEW rows, Taken(rows)
  PROVE  /\ UpsertRows(table, rows) \in Tables
         /\ Agree(UpsertRows(table, rows), table, RowIds(rows))
         /\ Holds(UpsertRows(table, rows), rows)
<1>1. PICK last \in Nat : /\ last = Len(rows) /\ DOMAIN rows = 1..last
                          /\ \A k \in 1..last : rows[k] \in [id : Nat, vec : Nat] /\ ToPgId(rows[k].id)
                          /\ \A i, j \in 1..last : i # j => rows[i].id # rows[j].id
  <2>1. /\ rows \in Seq([id : Nat, vec : Nat]) /\ \A k \in DOMAIN rows : ToPgId(rows[k].id)
        /\ \A i, j \in DOMAIN rows : i # j => rows[i].id # rows[j].id
    BY DEF Taken, Rows, PgIds, Duplicates
  <2>2. Len(rows) \in Nat /\ DOMAIN rows = 1..Len(rows) /\ \A k \in 1..Len(rows) : rows[k] \in [id : Nat, vec : Nat]
    BY <2>1, LenProperties, ElementOfSeq
  <2> QED
    BY <2>1, <2>2
<1>2. PICK p \in [0..last -> Tables] :
        /\ p[0] = table /\ p[last] = UpsertRows(table, rows)
        /\ \A k \in 1..last : p[k] = Upsert(p[k - 1], rows[k])
  <2>1. rows \in Rows /\ \A t \in Tables : \A k \in 1..Len(rows) : Upsert(t, rows[k]) \in Tables
    BY <1>1, UpsertOne DEF Taken
  <2>2. \E p \in [0..Len(rows) -> Tables] :
          /\ p[0] = table /\ p[Len(rows)] = UpsertRows(table, rows)
          /\ \A k \in 1..Len(rows) : p[k] = Upsert(p[k - 1], rows[k])
    BY <2>1, UpsertFold
  <2> QED
    BY <1>1, <2>2
<1> DEFINE Q(k) == /\ DOMAIN p[k] = DOMAIN table \cup {rows[i].id : i \in 1..k}
                   /\ \A i \in 1..k : p[k][rows[i].id] = rows[i].vec
                   /\ \A id \in DOMAIN table : (\A i \in 1..k : rows[i].id # id) => p[k][id] = table[id]
           U == {k \in 0..last : ~Q(k)}
<1>3. U = {}
  <2>1. U \subseteq 0..last /\ 0 \notin U
    BY <1>2
  <2>2. ASSUME NEW k \in 1..last, k - 1 \notin U PROVE k \notin U
    <3>1. k - 1 \in 0..last /\ k \in 0..last /\ 1..k = (1..(k - 1)) \cup {k} /\ k \notin 1..(k - 1)
      OBVIOUS
    <3>2. Q(k - 1)
      BY <2>2, <3>1
    <3>3. p[k - 1] \in Tables /\ rows[k] \in [id : Nat, vec : Nat] /\ ToPgId(rows[k].id) /\ p[k] = Upsert(p[k - 1], rows[k])
      BY <1>1, <1>2, <3>1
    <3>4. /\ DOMAIN p[k] = DOMAIN p[k - 1] \cup {rows[k].id}
          /\ p[k][rows[k].id] = rows[k].vec
          /\ \A id \in DOMAIN p[k - 1] : id # rows[k].id => p[k][id] = p[k - 1][id]
      <4>1. PICK t \in Tables, row \in [id : Nat, vec : Nat] : t = p[k - 1] /\ row = rows[k]
        BY <3>3
      <4>2. ToPgId(row.id) /\ p[k] = Upsert(t, row)
        BY <3>3, <4>1
      <4>3. /\ DOMAIN Upsert(t, row) = DOMAIN t \cup {row.id}
            /\ Upsert(t, row)[row.id] = row.vec
            /\ \A id \in DOMAIN t : id # row.id => Upsert(t, row)[id] = t[id]
        BY <4>2, UpsertOne
      <4> QED
        BY <4>1, <4>2, <4>3
    <3>5. DOMAIN p[k] = DOMAIN table \cup {rows[i].id : i \in 1..k}
      BY <3>1, <3>2, <3>4
    <3>6. ASSUME NEW i \in 1..k PROVE p[k][rows[i].id] = rows[i].vec
      <4>1. CASE i = k
        BY <3>4, <4>1
      <4>2. CASE i # k
        <5>1. i \in 1..(k - 1) /\ i \in 1..last
          BY <4>2
        <5>2. rows[i].id # rows[k].id
          BY <1>1, <4>2, <5>1
        <5> QED
          BY <3>2, <3>4, <5>1, <5>2
      <4> QED
        BY <4>1, <4>2
    <3>7. ASSUME NEW id \in DOMAIN table, \A i \in 1..k : rows[i].id # id PROVE p[k][id] = table[id]
      <4>1. p[k - 1][id] = table[id] /\ id \in DOMAIN p[k - 1]
        BY <3>1, <3>2, <3>7
      <4>2. id # rows[k].id
        BY <3>1, <3>7
      <4> QED
        BY <3>4, <4>1, <4>2
    <3>8. Q(k)
      BY <3>5, <3>6, <3>7
    <3> QED
      BY <3>1, <3>8
  <2> HIDE DEF U
  <2> QED
    BY <1>1, <2>1, <2>2, NothingFrom
<1>4. Q(last) /\ p[last] \in Tables
  <2>1. last \in 0..last
    OBVIOUS
  <2>2. Q(last)
    BY <1>3, <2>1
  <2>3. p[last] \in Tables
    BY <1>2, <2>1
  <2> QED
    BY <2>2, <2>3
<1>5. RowIds(rows) = {rows[i].id : i \in 1..last}
  BY <1>1 DEF RowIds
<1> HIDE DEF U
<1>6. Holds(p[last], rows)
  BY <1>1, <1>4 DEF Holds
<1>7. Agree(p[last], table, RowIds(rows))
  BY <1>4, <1>5 DEF Agree
<1> QED
  BY <1>2, <1>4, <1>6, <1>7

(* The chunks up to one are a prefix, and all chunks are the whole.        *)
LEMMA Chunks ==
  ASSUME NEW S, NEW s \in Seq(S), NEW size \in Nat \ {0}, NEW n \in Nat
  PROVE  /\ FirstChunks(s, size, n) \in Seq(S)
         /\ Len(FirstChunks(s, size, n)) \in 0..Len(s)
         /\ \A i \in 1..Len(FirstChunks(s, size, n)) : FirstChunks(s, size, n)[i] = s[i]
         /\ n = ChunkCount(s, size) => FirstChunks(s, size, n) = s
<1>1. PICK last \in Nat : last = Len(s) /\ DOMAIN s = 1..last /\ \A i \in 1..last : s[i] \in S
  BY LenProperties, ElementOfSeq
<1>2. PICK m : m = n * size /\ m \in Nat
  OBVIOUS
<1>3. PICK k : k = Min({m, last}) /\ k \in 0..last /\ (m >= last => k = last)
  <2>1. \E k \in {m, last} : \A j \in {m, last} : k <= j
    BY <1>1, <1>2
  <2>2. Min({m, last}) \in {m, last} /\ \A j \in {m, last} : Min({m, last}) <= j
    BY <2>1 DEF Min
  <2> QED
    BY <1>1, <1>2, <2>2
<1>4. FirstChunks(s, size, n) = [i \in 1..k |-> s[i]]
  <2>1. FirstChunks(s, size, n) = SubSeq(s, 1, k)
    BY <1>1, <1>2, <1>3 DEF FirstChunks
  <2>2. SubSeq(s, 1, k) = [i \in 1..k |-> s[i]]
    BY <1>1, <1>3
  <2> QED
    BY <2>1, <2>2
<1>5. \A i \in 1..k : i \in 1..last
  BY <1>1, <1>3
<1>6. [i \in 1..k |-> s[i]] \in Seq(S) /\ Len([i \in 1..k |-> s[i]]) = k
  <2>1. k \in Nat
    BY <1>1, <1>3
  <2>2. ASSUME NEW i \in 1..k PROVE s[i] \in S
    <3>1. i \in 1..last
      BY <1>5
    <3> QED
      BY <1>1, <3>1
  <2> QED
    BY <2>1, <2>2
<1>7. ASSUME n = ChunkCount(s, size) PROVE m >= last
  <2>1. n = (last + size - 1) \div size
    BY <1>1, <1>7 DEF ChunkCount
  <2>2. PICK top \in Nat : top = last + size - 1
    BY <1>1
  <2>3. top < (top \div size) * size + size
    OBVIOUS
  <2> QED
    BY <1>1, <1>2, <2>1, <2>2, <2>3
<1>8. n = ChunkCount(s, size) => FirstChunks(s, size, n) = s
  <2>1. ASSUME k = last PROVE [i \in 1..k |-> s[i]] = s
    <3>1. s = [i \in 1..last |-> s[i]]
      BY <1>1
    <3> QED
      BY <2>1, <3>1
  <2> QED
    BY <1>3, <1>4, <1>7, <2>1
<1> QED
  BY <1>1, <1>3, <1>4, <1>5, <1>6, <1>8

(* A finite set in the order SetToSeq gives it.                            *)
LEMMA InOrder ==
  ASSUME NEW ids \in SUBSET Nat, IsFiniteSet(ids)
  PROVE  SetToSeq(ids) \in Seq(Nat) /\ ToSet(SetToSeq(ids)) = ids
<1>1. PICK n \in Nat : n = Cardinality(ids) /\ IsFiniteSet(1..n) /\ Cardinality(1..n) = n
  BY FS_CardinalityType, FS_Interval
<1>2. \E f \in [1..n -> ids] : IsInjective(f)
  <2>1. ExistsBijection(1..n, ids)
    BY <1>1, FS_CardinalityType
  <2>2. PICK f : f \in Bijection(1..n, ids)
    BY <2>1 DEF ExistsBijection
  <2>3. f \in [1..n -> ids] /\ IsInjective(f)
    BY <2>2 DEF Bijection, Injection, IsInjective
  <2> QED
    BY <2>3
<1>3. PICK f : f = SetToSeq(ids)
  OBVIOUS
<1>4. f \in [1..n -> ids] /\ IsInjective(f)
  BY <1>1, <1>2, <1>3 DEF SetToSeq
<1>5. f \in Injection(1..n, ids)
  BY <1>4 DEF Injection
<1>6. f \in Surjection(1..n, ids)
  BY <1>1, <1>5, FS_Injection
<1>7. ToSet(f) = ids
  BY <1>4, <1>6 DEF Surjection, ToSet
<1>8. f \in Seq(Nat)
  <2>1. f \in [1..n -> Nat]
    BY <1>4
  <2> QED
    BY <2>1
<1> QED
  BY <1>3, <1>7, <1>8

(* A prefix of the rows touches no other ids;                              *)
LEMMA PartUpserted ==
  ASSUME NEW table \in Tables, NEW rows, Taken(rows), NEW part \in Rows, Len(part) \in 0..Len(rows),
         \A i \in 1..Len(part) : part[i] = rows[i]
  PROVE  UpsertRows(table, part) \in Tables /\ Agree(UpsertRows(table, part), table, RowIds(rows))
<1>1. DOMAIN rows = 1..Len(rows) /\ DOMAIN part = 1..Len(part) /\ Len(rows) \in Nat
  <2>1. rows \in Seq([id : Nat, vec : Nat]) /\ part \in Seq([id : Nat, vec : Nat])
    BY DEF Taken, Rows
  <2> QED
    BY <2>1, LenProperties
<1>2. \A i \in DOMAIN part : i \in DOMAIN rows /\ part[i] = rows[i]
  BY <1>1
<1>3. Taken(part)
  BY <1>2 DEF Taken, PgIds, Duplicates
<1>4. /\ UpsertRows(table, part) \in Tables
      /\ Agree(UpsertRows(table, part), table, RowIds(part))
  BY <1>3, Upserted
<1>5. RowIds(part) \subseteq RowIds(rows)
  BY <1>2 DEF RowIds
<1> QED
  BY <1>4, <1>5 DEF Agree

(* nor does a part of the ids that are removed.                            *)
LEMMA PartRemoved ==
  ASSUME NEW table \in Tables, NEW ids, NEW part \in SUBSET ids
  PROVE  /\ RemoveIds(table, part) \in Tables /\ Agree(RemoveIds(table, part), table, ids)
         /\ DOMAIN RemoveIds(table, part) \cap part = {}
<1>1. PICK D \in SUBSET Ids : table \in [D -> Nat]
  BY DEF Tables
<1>2. RemoveIds(table, part) = [id \in D \ part |-> table[id]]
  BY <1>1 DEF RemoveIds
<1>3. RemoveIds(table, part) \in [D \ part -> Nat] /\ D \ part \in SUBSET Ids
  BY <1>1, <1>2
<1>4. RemoveIds(table, part) \in Tables
  BY <1>3 DEF Tables
<1> QED
  BY <1>1, <1>2, <1>4 DEF Agree

(* The mapping holds every id of a table.                                  *)
LEMMA AllMapped == ASSUME NEW table \in Tables PROVE Mapped(table) = table
<1>1. PICK D \in SUBSET Ids : table \in [D -> Nat]
  BY DEF Tables
<1>2. {id \in DOMAIN table : ~ToPgId(id)} = {}
  BY <1>1 DEF Ids
<1> QED
  BY <1>1, <1>2 DEF Mapped, RemoveIds

----------------------------------------------------------------------------
(* What a call of an index may do to it: nothing to other ids than those   *)
(* of the write, and all of the write if it reports success.               *)
Sound(w) ==
  /\ w = [rows |-> w.rows, ids |-> w.ids, left |-> w.left] /\ w.left \subseteq All
  /\ Taken(w.rows) /\ w.ids \in SUBSET Ids /\ IsFiniteSet(w.ids)

Touched(w) == IF w.rows # <<>> THEN RowIds(w.rows) ELSE w.ids

Has(table, w) == IF w.rows # <<>> THEN Holds(table, w.rows) ELSE DOMAIN table \cap w.ids = {}

Effect(table, w, o) ==
  /\ o.index \in Tables /\ Agree(o.index, table, Touched(w))
  /\ o.ok => Has(o.index, w)

(* So it is with adding                                                    *)
LEMMA AddEffects ==
  ASSUME NEW w, Sound(w), NEW table \in Tables, w.rows # <<>>, NEW o,
         \/ o \in QdrantAdd(table, w.rows) \/ o \in ElasticAdd(table, w.rows)
         \/ o \in PgVectorAdd(table, w.rows) \/ o \in PgSparseAdd(table, w.rows)
  PROVE  Effect(table, w, o)
<1>1. PICK rows : rows = w.rows /\ rows # <<>> /\ Taken(rows) /\ rows \in Rows
  BY DEF Sound, Taken
<1>2. Touched(w) = RowIds(rows) /\ \A u : Has(u, w) <=> Holds(u, rows)
  BY <1>1 DEF Touched, Has
<1>3. PICK full : full = UpsertRows(table, rows)
  OBVIOUS
<1>4. full \in Tables /\ Agree(full, table, RowIds(rows)) /\ Holds(full, rows)
  BY <1>1, <1>3, Upserted
<1>5. Agree(table, table, RowIds(rows))
  BY DEF Agree
<1>6. ASSUME o = Outcome(full, TRUE) \/ o = Outcome(full, FALSE) \/ o = Outcome(table, FALSE) PROVE Effect(table, w, o)
  BY <1>2, <1>4, <1>5, <1>6 DEF Effect, Outcome
<1>7. ASSUME NEW size \in Nat \ {0}, NEW n \in Nat
      PROVE  /\ UpsertRows(table, FirstChunks(rows, size, n)) \in Tables
             /\ Agree(UpsertRows(table, FirstChunks(rows, size, n)), table, RowIds(rows))
             /\ n = ChunkCount(rows, size) => UpsertRows(table, FirstChunks(rows, size, n)) = full
  <2>1. PICK part : part = FirstChunks(rows, size, n)
    OBVIOUS
  <2>2. /\ part \in Rows /\ Len(part) \in 0..Len(rows) /\ \A i \in 1..Len(part) : part[i] = rows[i]
        /\ n = ChunkCount(rows, size) => part = rows
    <3>1. PICK S : S = [id : Nat, vec : Nat] /\ rows \in Seq(S)
      BY <1>1 DEF Rows
    <3>2. /\ part \in Seq(S) /\ Len(part) \in 0..Len(rows) /\ \A i \in 1..Len(part) : part[i] = rows[i]
          /\ n = ChunkCount(rows, size) => part = rows
      <4>1. /\ FirstChunks(rows, size, n) \in Seq(S)
            /\ Len(FirstChunks(rows, size, n)) \in 0..Len(rows)
            /\ \A i \in 1..Len(FirstChunks(rows, size, n)) : FirstChunks(rows, size, n)[i] = rows[i]
            /\ n = ChunkCount(rows, size) => FirstChunks(rows, size, n) = rows
        BY <3>1, Chunks
      <4> QED
        BY <2>1, <4>1
    <3> QED
      BY <3>1, <3>2 DEF Rows
  <2>3. UpsertRows(table, part) \in Tables /\ Agree(UpsertRows(table, part), table, RowIds(rows))
    BY <1>1, <2>2, PartUpserted
  <2> QED
    BY <1>3, <2>1, <2>2, <2>3
<1>8. ASSUME NEW size \in Nat \ {0} PROVE ChunkCount(rows, size) \in Nat
  <2>1. PICK top \in Nat : top = Len(rows) + size - 1
    <3>1. Len(rows) \in Nat
      BY <1>1, LenProperties DEF Rows
    <3> QED
      BY <3>1
  <2>2. top \div size \in Nat
    OBVIOUS
  <2> QED
    BY <2>1, <2>2 DEF ChunkCount
<1>9. ASSUME NEW size \in Nat \ {0}, NEW n \in 0..ChunkCount(rows, size), NEW ok, NEW u,
             u = UpsertRows(table, FirstChunks(rows, size, n)), o = Outcome(u, ok), ok => n = ChunkCount(rows, size)
      PROVE  Effect(table, w, o)
  <2>1. n \in Nat
    BY <1>8
  <2>2. u \in Tables /\ Agree(u, table, RowIds(rows)) /\ (ok => u = full)
    BY <1>7, <1>9, <2>1
  <2> QED
    BY <1>2, <1>4, <1>9, <2>2 DEF Effect, Outcome
<1>10. CASE o \in QdrantAdd(table, w.rows)
  BY <1>1, <1>3, <1>6, <1>10 DEF QdrantAdd
<1>11. CASE o \in PgSparseAdd(table, w.rows)
  BY <1>1, <1>3, <1>6, <1>11 DEF PgSparseAdd
<1>12. CASE o \in ElasticAdd(table, w.rows)
  <2>0. PICK size : size = BULK_CHUNK_SIZE /\ size \in Nat \ {0}
    BY IndexAssumption
  <2>1. PICK n \in 0..ChunkCount(rows, size), ok \in BOOLEAN :
          /\ (ok => n = ChunkCount(rows, size))
          /\ o = Outcome(Mapped(UpsertRows(table, FirstChunks(rows, size, n))), ok)
    <3>1. ChunkCount(rows, size) \in Nat
      BY <1>8, <2>0
    <3> QED
      <4>1. PICK count \in Nat : count = ChunkCount(rows, size)
        BY <3>1
      <4> DEFINE after(n) == Mapped(UpsertRows(table, FirstChunks(rows, size, n)))
      <4>2. o \in ElasticAdd(table, rows)
        BY <1>1, <1>12
      <4>3. \/ \E n \in 0..count : o = Outcome(after(n), FALSE)
            \/ o = Outcome(after(count), TRUE)
        BY <1>1, <2>0, <4>1, <4>2 DEF ElasticAdd
      <4> HIDE DEF after
      <4>4. \E n \in 0..count, ok \in BOOLEAN : (ok => n = count) /\ o = Outcome(after(n), ok)
        <5>1. ASSUME NEW n \in 0..count, NEW ok \in BOOLEAN, ok => n = count, o = Outcome(after(n), ok)
              PROVE  \E m \in 0..count, okay \in BOOLEAN : (okay => m = count) /\ o = Outcome(after(m), okay)
          BY <5>1
        <5>2. count \in 0..count /\ TRUE \in BOOLEAN /\ FALSE \in BOOLEAN
          BY <4>1
        <5> QED
          BY <4>3, <5>1, <5>2
      <4> QED
        BY <4>1, <4>4 DEF after
  <2>2. n \in Nat
    BY <1>8, <2>0, <2>1
  <2>3. UpsertRows(table, FirstChunks(rows, size, n)) \in Tables
    BY <1>7, <2>0, <2>2
  <2>4. o = Outcome(UpsertRows(table, FirstChunks(rows, size, n)), ok)
    BY <2>1, <2>3, AllMapped
  <2> QED
    BY <1>9, <2>0, <2>1, <2>2, <2>4
<1>13. CASE o \in PgVectorAdd(table, w.rows)
  <2>0. PICK size : size = ROWS_PER_CHUNK /\ size \in Nat \ {0}
    BY IndexAssumption
  <2>1. PICK n \in 0..ChunkCount(rows, size), ok \in BOOLEAN :
          /\ (ok => n = ChunkCount(rows, size))
          /\ o = Outcome(UpsertRows(table, FirstChunks(rows, size, n)), ok)
    <3>1. ChunkCount(rows, size) \in Nat /\ PgIds(rows)
      BY <1>1, <1>8, <2>0 DEF Taken
    <3> QED
      <4>1. PICK count \in Nat : count = ChunkCount(rows, size)
        BY <3>1
      <4> DEFINE after(n) == UpsertRows(table, FirstChunks(rows, size, n))
      <4>2. o \in PgVectorAdd(table, rows)
        BY <1>1, <1>13
      <4>3. \/ \E n \in 0..count : o = Outcome(after(n), FALSE)
            \/ o = Outcome(after(count), TRUE)
        BY <2>0, <3>1, <4>1, <4>2 DEF PgVectorAdd
      <4> HIDE DEF after
      <4>4. \E n \in 0..count, ok \in BOOLEAN : (ok => n = count) /\ o = Outcome(after(n), ok)
        <5>1. ASSUME NEW n \in 0..count, NEW ok \in BOOLEAN, ok => n = count, o = Outcome(after(n), ok)
              PROVE  \E m \in 0..count, okay \in BOOLEAN : (okay => m = count) /\ o = Outcome(after(m), okay)
          BY <5>1
        <5>2. count \in 0..count /\ TRUE \in BOOLEAN /\ FALSE \in BOOLEAN
          BY <4>1
        <5> QED
          BY <4>3, <5>1, <5>2
      <4> QED
        BY <4>1, <4>4 DEF after
  <2>2. n \in Nat
    BY <1>8, <2>0, <2>1
  <2> QED
    BY <1>9, <2>0, <2>1, <2>2
<1> QED
  BY <1>10, <1>11, <1>12, <1>13

(* and with removing.                                                      *)
LEMMA RemoveEffects ==
  ASSUME NEW w, Sound(w), NEW table \in Tables, w.rows = <<>>, NEW o,
         \/ o \in QdrantRemove(table, w.ids) \/ o \in ElasticRemove(table, w.ids)
         \/ o \in PgVectorRemove(table, w.ids) \/ o \in PgSparseRemove(table, w.ids)
  PROVE  Effect(table, w, o)
<1>1. PICK ids : ids = w.ids /\ ids \in SUBSET Ids /\ IsFiniteSet(ids) /\ ids \in SUBSET Nat
  BY DEF Sound, Ids
<1>2. Touched(w) = ids /\ \A u : Has(u, w) <=> DOMAIN u \cap ids = {}
  BY <1>1 DEF Touched, Has
<1>3. ASSUME NEW part \in SUBSET ids, NEW ok, o = Outcome(RemoveIds(table, part), ok), ok => part = ids
      PROVE  Effect(table, w, o)
  <2>1. /\ RemoveIds(table, part) \in Tables /\ Agree(RemoveIds(table, part), table, ids)
        /\ DOMAIN RemoveIds(table, part) \cap part = {}
    BY PartRemoved
  <2> QED
    BY <1>2, <1>3, <2>1 DEF Effect, Outcome
<1>4. RemoveIds(table, {}) = table
  BY DEF RemoveIds, Tables
<1>5. ASSUME o \in QdrantRemove(table, ids) PROVE Effect(table, w, o)
  <2>1. \/ o = Outcome(RemoveIds(table, ids), TRUE) \/ o = Outcome(RemoveIds(table, ids), FALSE)
        \/ o = Outcome(RemoveIds(table, {}), FALSE)
    BY <1>4, <1>5 DEF QdrantRemove
  <2> QED
    BY <1>3, <2>1
<1>6. o \in PgVectorRemove(table, ids) \/ o \in PgSparseRemove(table, ids) => o \in QdrantRemove(table, ids)
  BY <1>1 DEF PgVectorRemove, PgSparseRemove, Ids
<1>7. CASE o \in ElasticRemove(table, ids)
  <2>1. PICK size, order : size = BULK_CHUNK_SIZE /\ size \in Nat \ {0} /\ order = SetToSeq(ids)
    BY IndexAssumption
  <2>2. order \in Seq(Nat) /\ ToSet(order) = ids
    BY <1>1, <2>1, InOrder
  <2>3. PICK count \in Nat : count = ChunkCount(order, size)
    <3>1. PICK top \in Nat : top = Len(order) + size - 1
      <4>1. Len(order) \in Nat
        BY <2>2, LenProperties
      <4>2. size \in Nat \ {0}
        BY <2>1
      <4>3. \A l \in Nat, k \in Nat \ {0} : l + k - 1 \in Nat
        OBVIOUS
      <4>4. Len(order) + size - 1 \in Nat
        BY <4>1, <4>2, <4>3
      <4> QED
        BY <4>4
    <3>2. top \div size \in Nat
      BY <2>1
    <3> QED
      BY <3>1, <3>2 DEF ChunkCount
  <2> DEFINE part(n) == ToSet(FirstChunks(order, size, n))
  <2>4. \A n \in Nat : part(n) \in SUBSET ids /\ (n = count => part(n) = ids)
    <3>1. ASSUME NEW n \in Nat PROVE part(n) \in SUBSET ids /\ (n = count => part(n) = ids)
      <4>1. PICK first : first = FirstChunks(order, size, n)
        OBVIOUS
      <4>2. /\ first \in Seq(Nat) /\ Len(first) \in 0..Len(order) /\ \A i \in 1..Len(first) : first[i] = order[i]
            /\ (n = count => first = order)
        <5>1. /\ FirstChunks(order, size, n) \in Seq(Nat)
              /\ Len(FirstChunks(order, size, n)) \in 0..Len(order)
              /\ \A i \in 1..Len(FirstChunks(order, size, n)) : FirstChunks(order, size, n)[i] = order[i]
              /\ n = ChunkCount(order, size) => FirstChunks(order, size, n) = order
          BY <2>1, <2>2, Chunks
        <5> QED
          BY <2>3, <4>1, <5>1
      <4>3. DOMAIN first = 1..Len(first) /\ DOMAIN order = 1..Len(order) /\ Len(order) \in Nat
        BY <2>2, <4>2, LenProperties
      <4>4. \A i \in DOMAIN first : i \in DOMAIN order /\ first[i] = order[i]
        BY <4>2, <4>3
      <4>5. ToSet(first) \in SUBSET ids
        BY <2>2, <4>4 DEF ToSet
      <4> QED
        BY <2>2, <4>1, <4>2, <4>5
    <3> QED
      BY <3>1
  <2>5. \/ \E n \in 0..count : o = Outcome(RemoveIds(table, part(n)), FALSE)
        \/ o = Outcome(RemoveIds(table, part(count)), TRUE)
    BY <1>7, <2>1, <2>3 DEF ElasticRemove
  <2> HIDE DEF part
  <2>6. ASSUME NEW n \in 0..count, o = Outcome(RemoveIds(table, part(n)), FALSE) PROVE Effect(table, w, o)
    <3>1. part(n) \in SUBSET ids
      BY <2>4
    <3> QED
      BY <1>3, <2>6, <3>1
  <2>7. ASSUME o = Outcome(RemoveIds(table, part(count)), TRUE) PROVE Effect(table, w, o)
    BY <1>3, <2>4, <2>7
  <2> QED
    BY <2>5, <2>6, <2>7
<1> QED
  BY <1>1, <1>5, <1>6, <1>7

----------------------------------------------------------------------------
(* While no write was refused for good, all indexes hold the same but for  *)
(* what the write under way touches, and those that have taken it hold it. *)
Contents == [qdrant |-> qdrant, elastic |-> elastic, dense |-> dense, lexical |-> lexical]

IndexesInv ==
  /\ Sound(write)
  /\ \A name \in All : Contents[name] \in Tables
  /\ \A name, other \in All : Agree(Contents[name], Contents[other], Touched(write))
  /\ \A name \in All \ write.left : Has(Contents[name], write)

WritesInv == ~drifted => IndexesInv

(* Indexes that have taken the write are equal.                            *)
LEMMA TakenAlike ==
  ASSUME IndexesInv, NEW name \in All \ write.left, NEW other \in All \ write.left
  PROVE  Contents[name] = Contents[other]
<1>1. PICK a \in Tables, b \in Tables : a = Contents[name] /\ b = Contents[other]
  BY DEF IndexesInv
<1>2. Agree(a, b, Touched(write)) /\ Has(a, write) /\ Has(b, write)
  BY <1>1 DEF IndexesInv
<1>3. DOMAIN a = DOMAIN b /\ \A id \in DOMAIN a : a[id] = b[id]
  <2>1. CASE write.rows # <<>>
    <3>1. /\ \A i \in DOMAIN write.rows : /\ write.rows[i].id \in DOMAIN a /\ a[write.rows[i].id] = write.rows[i].vec
                                          /\ write.rows[i].id \in DOMAIN b /\ b[write.rows[i].id] = write.rows[i].vec
      BY <1>2, <2>1 DEF Has, Holds
    <3>2. \A id \in RowIds(write.rows) : id \in DOMAIN a /\ id \in DOMAIN b /\ a[id] = b[id]
      BY <3>1 DEF RowIds
    <3>3. DOMAIN a \ RowIds(write.rows) = DOMAIN b \ RowIds(write.rows) /\ \A id \in DOMAIN a \ RowIds(write.rows) : a[id] = b[id]
      BY <1>2, <2>1 DEF Agree, Touched
    <3> QED
      BY <3>2, <3>3
  <2>2. CASE write.rows = <<>>
    BY <1>2, <2>2 DEF Has, Agree, Touched
  <2> QED
    BY <2>1, <2>2
<1>4. a = [id \in DOMAIN a |-> a[id]] /\ b = [id \in DOMAIN b |-> b[id]]
  BY DEF Tables
<1> QED
  BY <1>1, <1>3, <1>4

(* An index that takes the write, or a part of it.                         *)
LEMMA IndexTakes ==
  ASSUME IndexesInv, NEW name \in All, NEW o, Effect(Contents[name], write, o), Took(name, o),
         Contents' = [Contents EXCEPT ![name] = o.index]
  PROVE  IndexesInv'
<1>1. /\ write' = [rows |-> write.rows, ids |-> write.ids, left |-> write'.left]
      /\ write'.left \subseteq write.left
      /\ \A other \in All : other \notin write'.left => other \notin write.left \/ (other = name /\ o.ok)
  <2>1. write = [rows |-> write.rows, ids |-> write.ids, left |-> write.left]
    BY DEF IndexesInv, Sound
  <2>2. CASE o.ok
    <3>1. write' = [write EXCEPT !.left = @ \ {name}]
      BY <2>2 DEF Took
    <3>2. write' = [rows |-> write.rows, ids |-> write.ids, left |-> write.left \ {name}]
      BY <2>1, <3>1
    <3>3. write'.left = write.left \ {name}
      BY <3>2
    <3> QED
      BY <2>2, <3>2, <3>3
  <2>3. CASE ~o.ok
    BY <2>1, <2>3 DEF Took
  <2> QED
    BY <2>2, <2>3
<1>2. /\ \A other \in All \ {name} : Contents'[other] = Contents[other]
      /\ Contents'[name] = o.index
  <2>1. DOMAIN Contents = All
    BY DEF Contents, All, Backends
  <2> QED
    BY <2>1
<1>3. write'.rows = write.rows /\ write'.ids = write.ids
  BY <1>1
<1>4. Touched(write') = Touched(write) /\ \A u : Has(u, write') <=> Has(u, write)
  BY <1>3 DEF Touched, Has
<1>5. Sound(write')
  <2>1. Sound(write)
    BY DEF IndexesInv
  <2> QED
    BY <1>1, <1>3, <2>1 DEF Sound
<1>6. \A other \in All : Contents'[other] \in Tables
  BY <1>2 DEF IndexesInv, Effect
<1>7. \A other \in All : Agree(Contents'[other], Contents[other], Touched(write))
  <2>1. Agree(Contents'[name], Contents[name], Touched(write))
    BY <1>2 DEF Effect
  <2>2. \A other \in All \ {name} : Agree(Contents'[other], Contents[other], Touched(write))
    BY <1>2 DEF Agree
  <2> QED
    BY <2>1, <2>2
<1>8. ASSUME NEW a \in All, NEW b \in All PROVE Agree(Contents'[a], Contents'[b], Touched(write))
  <2>1. Agree(Contents'[a], Contents[a], Touched(write)) /\ Agree(Contents'[b], Contents[b], Touched(write))
    BY <1>7
  <2>2. Agree(Contents[a], Contents[b], Touched(write))
    BY DEF IndexesInv
  <2> QED
    BY <2>1, <2>2 DEF Agree
<1>9. ASSUME NEW other \in All \ write'.left PROVE Has(Contents'[other], write)
  <2>1. CASE other = name /\ o.ok
    BY <1>2, <2>1 DEF Effect
  <2>2. CASE other \notin write.left /\ other # name
    BY <1>2, <2>2 DEF IndexesInv
  <2>3. other = name => o.ok
    <3>1. name \in write.left
      BY DEF Took
    <3> QED
      BY <1>1, <3>1
  <2> QED
    BY <1>1, <2>1, <2>2, <2>3
<1> QED
  BY <1>4, <1>5, <1>6, <1>8, <1>9 DEF IndexesInv

(* The initial states satisfy it.                                          *)
LEMMA InitWrites == FederationInit => WritesInv
<1> SUFFICES ASSUME FederationInit PROVE IndexesInv
  BY DEF WritesInv
<1>1. NoVectors \in Tables
  <2>1. NoVectors \in [{} -> Nat] /\ {} \in SUBSET Ids
    BY DEF NoVectors
  <2> QED
    BY <2>1 DEF Tables
<1>2. /\ \A name \in All : Contents[name] = NoVectors
      /\ write = [rows |-> <<>>, ids |-> {}, left |-> {}]
  BY DEF FederationInit, Contents, All, Backends, NoWrite
<1>3. Taken(<<>>)
  BY DEF Taken, Rows, PgIds, Duplicates
<1>4. Sound(write)
  BY <1>2, <1>3, FS_EmptySet DEF Sound
<1>5. Touched(write) = {} /\ \A table : Has(table, write)
  BY <1>2 DEF Touched, Has
<1> QED
  BY <1>1, <1>2, <1>4, <1>5 DEF IndexesInv, Agree

(* A write that all indexes have still to take.                            *)
LEMMA WriteBegins ==
  ASSUME IndexesInv, write.left = {}, UNCHANGED indexes, Sound(write'), write'.left = All
  PROVE  IndexesInv'
<1>1. Contents' = Contents
  BY DEF indexes, Contents
<1>2. \A name, other \in All : Contents[name] = Contents[other]
  BY TakenAlike
<1>3. \A name, other \in All : Agree(Contents[name], Contents[other], Touched(write'))
  BY <1>2 DEF Agree
<1> QED
  BY <1>1, <1>3 DEF IndexesInv

(* Rows or ids that are written.                                           *)
LEMMA WriteKeeps ==
  ASSUME WritesInv, ~drifted', NEW rows \in Rows, NEW ids \in SUBSET Nat, IsFiniteSet(ids), Write(rows, ids)
  PROVE  IndexesInv'
<1>1. /\ ~drifted /\ ~Refused(rows) /\ \A id \in ids : ToPgId(id)
      /\ write' = [rows |-> rows, ids |-> ids, left |-> All] /\ write.left = {} /\ UNCHANGED indexes
  BY DEF Write
<1>2. Taken(rows) /\ ids \in SUBSET Ids
  BY <1>1 DEF Taken, Refused, Ids
<1>3. Sound(write') /\ write'.left = All
  BY <1>1, <1>2 DEF Sound
<1> QED
  BY <1>1, <1>3, WriteBegins DEF WritesInv

(* A transaction that prunes both indexes of PostgreSQL.                   *)
LEMMA PruneKeeps ==
  ASSUME IndexesInv, NEW ids \in SUBSET Nat, IsFiniteSet(ids), NEW commits \in BOOLEAN, Prune(ids, commits)
  PROVE  IndexesInv'
<1>1. ids \in SUBSET Ids /\ write.left = {} /\ UNCHANGED <<qdrant, elastic>>
  BY DEF Prune, Ids
<1>2. CASE ~commits
  <2>1. Contents' = Contents /\ write' = write
    BY <1>2 DEF Prune, RemoveInTx, Contents
  <2> QED
    BY <2>1 DEF IndexesInv
<1>3. CASE commits
  <2>1. /\ dense' = RemoveIds(dense, ids) /\ lexical' = RemoveIds(lexical, ids)
        /\ write' = [rows |-> <<>>, ids |-> ids, left |-> {"qdrant", "elastic"}]
    BY <1>1, <1>3 DEF Prune, RemoveInTx
  <2>2. PICK table \in Tables : \A name \in All : Contents[name] = table
    <3>1. "qdrant" \in All
      BY DEF All, Backends
    <3>2. \A name \in All : Contents[name] = Contents["qdrant"]
      BY <1>1, <3>1, TakenAlike
    <3>3. Contents["qdrant"] \in Tables
      BY <3>1 DEF IndexesInv
    <3> QED
      BY <3>2, <3>3
  <2>3. qdrant = table /\ elastic = table /\ dense = table /\ lexical = table
    BY <2>2 DEF Contents, All, Backends
  <2>4. PICK less : less = RemoveIds(table, ids)
    OBVIOUS
  <2>5. less \in Tables /\ Agree(less, table, ids) /\ DOMAIN less \cap ids = {}
    BY <2>4, PartRemoved
  <2>6. /\ \A name \in All : Contents'[name] = (IF name \in {"qdrant", "elastic"} THEN table ELSE less)
    BY <1>1, <2>1, <2>3, <2>4 DEF Contents, All, Backends
  <2>7. Taken(<<>>)
    BY DEF Taken, Rows, PgIds, Duplicates
  <2>8. Sound(write')
    BY <1>1, <2>1, <2>7 DEF Sound, All, Backends
  <2>9. Touched(write') = ids /\ write'.left = {"qdrant", "elastic"} /\ \A u : Has(u, write') <=> DOMAIN u \cap ids = {}
    BY <2>1 DEF Touched, Has
  <2>10. \A u, v \in {table, less} : Agree(u, v, ids)
    BY <2>5 DEF Agree
  <2>11. \A name \in All : Contents'[name] \in {table, less} /\ Contents'[name] \in Tables
    BY <2>5, <2>6
  <2>12. \A name \in All \ write'.left : Has(Contents'[name], write')
    BY <2>5, <2>6, <2>9
  <2>13. \A name, other \in All : Agree(Contents'[name], Contents'[other], Touched(write'))
    BY <2>9, <2>10, <2>11
  <2> QED
    BY <2>8, <2>11, <2>12, <2>13 DEF IndexesInv
<1> QED
  BY <1>2, <1>3

(* One index more, by one of its calls.                                    *)
LEMMA TakeKeeps ==
  ASSUME IndexesInv, WriteQdrant \/ WriteElastic \/ WriteDense \/ WriteLexical
  PROVE  IndexesInv'
<1>1. ASSUME NEW name \in All, NEW o, Effect(Contents[name], write, o), Took(name, o),
             Contents' = [Contents EXCEPT ![name] = o.index]
      PROVE  IndexesInv'
  BY <1>1, IndexTakes
<1>2. /\ Contents["qdrant"] = qdrant /\ Contents["elastic"] = elastic
      /\ Contents["dense"] = dense /\ Contents["lexical"] = lexical
      /\ {"qdrant", "elastic", "dense", "lexical"} \subseteq All
  BY DEF Contents, All, Backends
<1>3. Sound(write) /\ \A name \in All : Contents[name] \in Tables
  BY DEF IndexesInv
<1>4. CASE WriteQdrant
  <2>1. PICK o : /\ o \in IF write.rows # <<>> THEN QdrantAdd(qdrant, write.rows) ELSE QdrantRemove(qdrant, write.ids)
                 /\ Took("qdrant", o) /\ qdrant' = o.index /\ UNCHANGED <<elastic, dense, lexical>>
    BY <1>4 DEF WriteQdrant, TakesWrite
  <2>2. Effect(qdrant, write, o)
    BY <1>2, <1>3, <2>1, AddEffects, RemoveEffects
  <2>3. Contents' = [Contents EXCEPT !["qdrant"] = o.index]
    BY <2>1 DEF Contents
  <2> QED
    BY <1>1, <1>2, <2>1, <2>2, <2>3
<1>5. CASE WriteElastic
  <2>1. PICK o : /\ o \in IF write.rows # <<>> THEN ElasticAdd(elastic, write.rows) ELSE ElasticRemove(elastic, write.ids)
                 /\ Took("elastic", o) /\ elastic' = o.index /\ UNCHANGED <<qdrant, dense, lexical>>
    BY <1>5 DEF WriteElastic, TakesWrite
  <2>2. Effect(elastic, write, o)
    BY <1>2, <1>3, <2>1, AddEffects, RemoveEffects
  <2>3. Contents' = [Contents EXCEPT !["elastic"] = o.index]
    BY <2>1 DEF Contents
  <2> QED
    BY <1>1, <1>2, <2>1, <2>2, <2>3
<1>6. CASE WriteDense
  <2>1. PICK o : /\ o \in IF write.rows # <<>> THEN PgVectorAdd(dense, write.rows) ELSE PgVectorRemove(dense, write.ids)
                 /\ Took("dense", o) /\ dense' = o.index /\ UNCHANGED <<qdrant, elastic, lexical>>
    BY <1>6 DEF WriteDense, TakesWrite
  <2>2. Effect(dense, write, o)
    BY <1>2, <1>3, <2>1, AddEffects, RemoveEffects
  <2>3. Contents' = [Contents EXCEPT !["dense"] = o.index]
    BY <2>1 DEF Contents
  <2> QED
    BY <1>1, <1>2, <2>1, <2>2, <2>3
<1>7. CASE WriteLexical
  <2>1. PICK o : /\ o \in IF write.rows # <<>> THEN PgSparseAdd(lexical, write.rows) ELSE PgSparseRemove(lexical, write.ids)
                 /\ Took("lexical", o) /\ lexical' = o.index /\ UNCHANGED <<qdrant, elastic, dense>>
    BY <1>7 DEF WriteLexical, TakesWrite
  <2>2. Effect(lexical, write, o)
    BY <1>2, <1>3, <2>1, AddEffects, RemoveEffects
  <2>3. Contents' = [Contents EXCEPT !["lexical"] = o.index]
    BY <2>1 DEF Contents
  <2> QED
    BY <1>1, <1>2, <2>1, <2>2, <2>3
<1> QED
  BY <1>4, <1>5, <1>6, <1>7

(* Every step keeps the invariant.                                         *)
LEMMA StepWrites == WritesInv /\ [FederationNext]_searchVars => WritesInv'
<1> SUFFICES ASSUME WritesInv, ~drifted', [FederationNext]_searchVars PROVE IndexesInv'
  BY DEF WritesInv
<1>1. ASSUME UNCHANGED <<indexes, write>>, ~drifted PROVE IndexesInv'
  <2>1. Contents' = Contents /\ write' = write /\ IndexesInv
    BY <1>1 DEF indexes, Contents, WritesInv
  <2> QED
    BY <2>1 DEF IndexesInv
<1>2. ASSUME NEW id \in Nat PROVE {id} \in SUBSET Nat /\ IsFiniteSet({id})
  BY FS_Singleton
<1>3. ~drifted => \A id : id \in DOMAIN qdrant \/ id \in DOMAIN dense => id \in Nat
  <2>1. ~drifted => qdrant \in Tables /\ dense \in Tables
    BY DEF WritesInv, IndexesInv, Contents, All, Backends
  <2> QED
    BY <2>1 DEF Tables, Ids
<1>4. ASSUME NEW i \in DOMAIN VecBatches, Write(VecBatches[i], {}) PROVE IndexesInv'
  BY <1>4, WriteKeeps, FS_EmptySet, FederationAssumption DEF Rows
<1>5. ASSUME NEW id \in DOMAIN qdrant, Write(<<>>, {id}) PROVE IndexesInv'
  <2>1. ~drifted
    BY <1>5 DEF Write
  <2>2. <<>> \in Rows
    BY DEF Rows
  <2> QED
    BY <1>2, <1>3, <1>5, <2>1, <2>2, WriteKeeps
<1>6. ASSUME NEW id \in DOMAIN dense, NEW commits \in BOOLEAN, Prune({id}, commits) PROVE IndexesInv'
  <2>1. ~drifted /\ IndexesInv
    BY <1>6 DEF Prune, WritesInv
  <2> QED
    BY <1>2, <1>3, <1>6, <2>1, PruneKeeps
<1>7. ASSUME WriteQdrant \/ WriteElastic \/ WriteDense \/ WriteLexical PROVE IndexesInv'
  <2>1. ~drifted /\ IndexesInv
    BY <1>7 DEF WriteQdrant, WriteElastic, WriteDense, WriteLexical, Took, WritesInv
  <2> QED
    BY <1>7, <2>1, TakeKeeps
<1>8. ~GiveUp
  BY DEF GiveUp
<1>9. CASE UNCHANGED searchVars
  BY <1>1, <1>9 DEF searchVars
<1>10. CASE \/ Ask \/ ReplyQdrant \/ ReplyElastic \/ ReplyDense \/ Consume
            \/ \E b \in Backends : Fails(b)
            \/ \E strategy \in {"Rrf", "WeightedSum"} : Merge(strategy)
            \/ \E lists \in LocalLists : Local("Rrf", lists) \/ LocalCombMnz(lists)
            \/ \E d, l : Hybrid(d, l)
  BY <1>1, <1>10 DEF Ask, ReplyQdrant, ReplyElastic, ReplyDense, Reply, Asked, Consume, Fails, Merge, Local, LocalCombMnz, Hybrid
<1> QED
  BY <1>4, <1>5, <1>6, <1>7, <1>8, <1>9, <1>10, Zenon DEF FederationNext

(* Once every index has taken all writes, cut in pieces of any size,       *)
(* failed anywhere and repeated as often as needed, they hold the same.    *)
THEOREM IndexesConverge == FederationSpec => []IndexesAgree
<1>1. WritesInv => IndexesAgree
  <2> SUFFICES ASSUME IndexesInv PROVE IndexesAgree
    BY DEF WritesInv, IndexesAgree
  <2>1. /\ Contents["qdrant"] = qdrant /\ Contents["elastic"] = elastic
        /\ Contents["dense"] = dense /\ Contents["lexical"] = lexical
        /\ All = {"qdrant", "elastic", "dense", "lexical"} /\ Backends = {"qdrant", "elastic", "dense"}
    BY DEF Contents, All, Backends
  <2>2. \A name, other \in All \ write.left : Contents[name] = Contents[other]
    BY TakenAlike
  <2>3. write.left = {} => qdrant = elastic /\ elastic = dense
    BY <2>1, <2>2
  <2>4. {"dense", "lexical"} \cap write.left = {} => DOMAIN dense = DOMAIN lexical
    <3>1. {"dense", "lexical"} \cap write.left = {} => dense = lexical
      BY <2>1, <2>2
    <3> QED
      BY <3>1
  <2>5. ASSUME NEW name \in Backends, NEW other \in Backends, {name, other} \cap write.left = {}
        PROVE  LET held == [qdrant |-> qdrant, elastic |-> elastic, dense |-> dense] IN held[name] = held[other]
    <3>1. Contents[name] = Contents[other]
      BY <2>1, <2>2, <2>5
    <3> QED
      BY <2>1, <3>1
  <2> QED
    BY <2>3, <2>4, <2>5 DEF IndexesAgree
<1> QED
  BY <1>1, InitWrites, StepWrites, PTL DEF FederationSpec

----------------------------------------------------------------------------
(* Searches while the indexes are written.                                 *)

Vectors == UNION {[D -> Nat] : D \in {D \in SUBSET Nat : IsFiniteSet(D)}}

(* Of any finite set of ids there is an order by score and id.             *)
LEMMA RankedByIdIs ==
  ASSUME NEW S \in SUBSET Nat, IsFiniteSet(S), NEW score \in [S -> Nat]
  PROVE  RankedById(S, score) \in Ranked(S, score)
<1> DEFINE R == {q \in S \X S : score[q[1]] > score[q[2]] \/ (score[q[1]] = score[q[2]] /\ q[1] < q[2])}
<1>1. StrictOrder(R, S)
  <2>1. \A x \in S : x \in Nat /\ score[x] \in Nat
    OBVIOUS
  <2> QED
    BY <2>1 DEF StrictOrder
<1>2. PICK p \in SetToSeqs(S) : \A i, j \in DOMAIN p : i < j => <<p[i], p[j]>> \in R
  <2> HIDE DEF R
  <2> QED
    BY <1>1, Sortable
<1>3. \A i \in DOMAIN p : p[i] \in S /\ p[i] \in Nat /\ score[p[i]] \in Nat
  <2>1. PICK n \in Nat : DOMAIN p = 1..n /\ p \in [1..n -> S]
    BY OrderOf
  <2> QED
    BY <2>1
<1>4. p \in Ranked(S, score) /\ \A i, j \in DOMAIN p : i < j /\ score[p[i]] = score[p[j]] => p[i] < p[j]
  <2>1. ASSUME NEW i \in DOMAIN p, NEW j \in DOMAIN p, i < j
        PROVE  score[p[i]] > score[p[j]] \/ (score[p[i]] = score[p[j]] /\ p[i] < p[j])
    BY <1>2, <2>1
  <2>2. \A i, j \in DOMAIN p : i < j => score[p[i]] >= score[p[j]]
    BY <1>3, <2>1
  <2>3. \A i, j \in DOMAIN p : i < j /\ score[p[i]] = score[p[j]] => p[i] < p[j]
    BY <1>3, <2>1
  <2> QED
    BY <2>2, <2>3 DEF Ranked
<1> HIDE DEF R
<1> QED
  BY <1>4 DEF RankedById

(* The best of a ranking.                                                  *)
LEMMA BestIs ==
  ASSUME NEW S, IsFiniteSet(S), NEW p \in SetToSeqs(S), NEW k \in Nat
  PROVE  \E n \in Nat : /\ Best(p, k) \in [1..n -> S] /\ DOMAIN Best(p, k) = 1..n /\ Len(Best(p, k)) = n
                        /\ n <= k /\ (n = k \/ n = Cardinality(S)) /\ n <= Cardinality(S)
                        /\ \A i \in 1..n : Best(p, k)[i] = p[i]
                        /\ \A i, j \in 1..n : Best(p, k)[i] = Best(p, k)[j] => i = j
<1>1. PICK m \in Nat : /\ m = Cardinality(S) /\ Len(p) = m /\ DOMAIN p = 1..m /\ p \in [1..m -> S]
                       /\ \A i, j \in 1..m : p[i] = p[j] => i = j
  BY OrderOf
<1>2. PICK n \in Nat : n = Min({k, m}) /\ n <= k /\ n <= m /\ (n = k \/ n = m)
  <2>1. Min({k, m}) \in {k, m} /\ \A j \in {k, m} : Min({k, m}) <= j
    BY LeastIs
  <2> QED
    BY <2>1
<1>3. p \in Seq(S) /\ 1..n \subseteq 1..m
  BY <1>1, <1>2
<1>4. Best(p, k) = SubSeq(p, 1, n)
  BY <1>1, <1>2 DEF Best
<1>5. SubSeq(p, 1, n) = [i \in 1..n |-> p[i]]
  BY <1>1, <1>2, <1>3
<1>6. Best(p, k) = [i \in 1..n |-> p[i]] /\ \A i \in 1..n : p[i] \in S
  BY <1>1, <1>3, <1>4, <1>5
<1>7. Len([i \in 1..n |-> p[i]]) = n
  OBVIOUS
<1>8. Best(p, k) \in [1..n -> S] /\ DOMAIN Best(p, k) = 1..n /\ Len(Best(p, k)) = n
  BY <1>6, <1>7
<1>9. \A i \in 1..n : Best(p, k)[i] = p[i]
  BY <1>6
<1>10. \A i, j \in 1..n : Best(p, k)[i] = Best(p, k)[j] => i = j
  BY <1>1, <1>3, <1>9
<1> QED
  BY <1>1, <1>2, <1>8, <1>9, <1>10

(* A list as a search returns it: no document twice, and no more of them   *)
(* than were asked for.                                                    *)
RankedList(list) ==
  \E m \in 0..(2 * K) : /\ Len(list) = m /\ DOMAIN list = 1..m
                        /\ \A i, j \in 1..m : list[i].id = list[j].id => i = j

RankIn(list, id) == SelectInSeq(list, LAMBDA hit : hit.id = id)

(* What is found in a search is such a list.                               *)
LEMMA HitsRanked ==
  ASSUME NEW S, IsFiniteSet(S), NEW p \in SetToSeqs(S), NEW k \in Nat, k <= 2 * K, NEW score
  PROVE  RankedList(Hits(Best(p, k), score))
<1>1. PICK n \in Nat : /\ DOMAIN Best(p, k) = 1..n /\ n <= k
                       /\ \A i, j \in 1..n : Best(p, k)[i] = Best(p, k)[j] => i = j
  BY BestIs
<1>2. PICK list : list = Hits(Best(p, k), score)
  OBVIOUS
<1>3. list = [i \in 1..n |-> Hit(Best(p, k)[i], score[Best(p, k)[i]])]
  BY <1>1, <1>2 DEF Hits
<1>4. Len(list) = n /\ DOMAIN list = 1..n
  BY <1>3
<1>5. \A i \in 1..n : list[i].id = Best(p, k)[i]
  BY <1>3 DEF Hit
<1>6. n \in 0..(2 * K)
  BY <1>1, FusionAssumption
<1> QED
  BY <1>1, <1>2, <1>4, <1>5, <1>6 DEF RankedList

(* A document is ranked where it stands.                                   *)
LEMMA RankIs ==
  ASSUME NEW list, RankedList(list), NEW id
  PROVE  /\ RankIn(list, id) \in 0..(2 * K)
         /\ RankIn(list, id) = 0 <=> id \notin IdsOf(list)
         /\ \A i \in DOMAIN list : list[i].id = id => RankIn(list, id) = i
<1>1. PICK m \in 0..(2 * K) : /\ Len(list) = m /\ DOMAIN list = 1..m
                              /\ \A i, j \in 1..m : list[i].id = list[j].id => i = j
  BY DEF RankedList
<1> DEFINE I == {i \in 1..m : list[i].id = id}
<1>2. RankIn(list, id) = IF I # {} THEN Min(I) ELSE 0
  BY <1>1 DEF RankIn, SelectInSeq
<1>3. I # {} => Min(I) \in I
  <2>1. I \in SUBSET Nat
    OBVIOUS
  <2> HIDE DEF I
  <2> QED
    BY <2>1, LeastIs
<1>4. I = {} <=> id \notin IdsOf(list)
  BY <1>1 DEF IdsOf
<1>5. \A i \in I : i \in 1..m /\ i \in 0..(2 * K) /\ i # 0
  BY <1>1, FusionAssumption
<1>6. \A i, j \in I : i = j
  BY <1>1
<1>7. \A i \in DOMAIN list : list[i].id = id => i \in I
  BY <1>1
<1>8. 0 \in 0..(2 * K)
  BY FusionAssumption
<1> HIDE DEF I
<1> QED
  BY <1>2, <1>3, <1>4, <1>5, <1>6, <1>7, <1>8

----------------------------------------------------------------------------
(* Credits.                                                                *)

FusedLists(lists, weights) ==
  \E n \in Nat : /\ DOMAIN lists = 1..n
                 /\ \A l \in 1..n : RankedList(lists[l]) /\ weights[l] \in Nat

CreditPart(lists, weights, id) ==
  [l \in DOMAIN lists |-> IF RankIn(lists[l], id) = 0 THEN 0 ELSE weights[l] * (Scale \div (RrfK + RankIn(lists[l], id)))]

(* The parts of a credit.                                                  *)
LEMMA CreditParts ==
  ASSUME NEW lists, NEW weights, FusedLists(lists, weights), NEW id
  PROVE  /\ IsFiniteSet(DOMAIN lists) /\ CreditPart(lists, weights, id) \in [DOMAIN lists -> Nat]
         /\ SumOf(CreditPart(lists, weights, id)) \in Nat
<1>1. IsFiniteSet(DOMAIN lists)
  BY FS_Interval DEF FusedLists
<1>2. ASSUME NEW l \in DOMAIN lists
      PROVE  (IF RankIn(lists[l], id) = 0 THEN 0 ELSE weights[l] * (Scale \div (RrfK + RankIn(lists[l], id)))) \in Nat
  <2>1. RankIn(lists[l], id) \in 0..(2 * K) /\ weights[l] \in Nat
    BY RankIs DEF FusedLists
  <2>2. ASSUME RankIn(lists[l], id) # 0 PROVE Scale \div (RrfK + RankIn(lists[l], id)) \in Nat
    <3>1. PICK d \in Nat \ {0} : d = RrfK + RankIn(lists[l], id)
      BY <2>1, <2>2, FusionAssumption
    <3>2. Scale \div d \in Nat
      BY FusionAssumption
    <3> QED
      BY <3>1, <3>2
  <2>3. ASSUME NEW w \in Nat, NEW c \in Nat PROVE w * c \in Nat
    OBVIOUS
  <2> QED
    BY <2>1, <2>2, <2>3
<1>3. CreditPart(lists, weights, id) \in [DOMAIN lists -> Nat]
  BY <1>2 DEF CreditPart
<1>4. SumOf(CreditPart(lists, weights, id)) \in Nat
  <2>1. PICK f \in [DOMAIN lists -> Nat] : f = CreditPart(lists, weights, id)
    BY <1>3
  <2>2. PICK g \in [SUBSET DOMAIN lists -> Nat] : SumOf(f) = g[DOMAIN lists]
    BY <1>1, PartialSums
  <2> QED
    BY <2>1, <2>2
<1> QED
  BY <1>1, <1>3, <1>4

(* A credit is the sum of its parts.                                       *)
LEMMA CreditIs ==
  ASSUME NEW lists, NEW weights, NEW id \in AllIds(lists)
  PROVE  RrfCredit(lists, weights)[id] = SumOf(CreditPart(lists, weights, id))
<1>1. PICK f : f = CreditPart(lists, weights, id)
  OBVIOUS
<1>2. DOMAIN f = DOMAIN lists
  BY <1>1 DEF CreditPart
<1>3. RrfCredit(lists, weights)[id] = SumOf(f)
  BY <1>1, <1>2 DEF RrfCredit, SumOver, CreditPart, RankIn, SumOf, FoldFunction, FoldFunctionOnSet, MapThenFoldSet
<1> QED
  BY <1>1, <1>3

(* A document that is ahead of another in every list has more credit.      *)
LEMMA CreditOrders ==
  ASSUME NEW lists, NEW weights, FusedLists(lists, weights), NEW a \in AllIds(lists), NEW b \in AllIds(lists),
         Dominates(lists, a, b), \E l \in DOMAIN lists : b \in IdsOf(lists[l]) /\ weights[l] > 0
  PROVE  /\ RrfCredit(lists, weights)[a] \in Nat /\ RrfCredit(lists, weights)[b] \in Nat
         /\ RrfCredit(lists, weights)[b] < RrfCredit(lists, weights)[a]
<1>1. PICK f \in [DOMAIN lists -> Nat], g \in [DOMAIN lists -> Nat] :
        f = CreditPart(lists, weights, b) /\ g = CreditPart(lists, weights, a)
  BY CreditParts
<1>2. ASSUME NEW l \in DOMAIN lists PROVE f[l] <= g[l] /\ (b \in IdsOf(lists[l]) /\ weights[l] > 0 => f[l] < g[l])
  <2>1. f[l] \in Nat /\ g[l] \in Nat /\ weights[l] \in Nat /\ RankedList(lists[l])
    BY DEF FusedLists
  <2>2. PICK q : q = RankIn(lists[l], a)
    OBVIOUS
  <2>3. PICK r : r = RankIn(lists[l], b)
    OBVIOUS
  <2>4. /\ g[l] = IF q = 0 THEN 0 ELSE weights[l] * (Scale \div (RrfK + q))
        /\ f[l] = IF r = 0 THEN 0 ELSE weights[l] * (Scale \div (RrfK + r))
    BY <1>1, <2>2, <2>3 DEF CreditPart
  <2>5. CASE b \notin IdsOf(lists[l])
    <3>1. r = 0
      BY <2>1, <2>3, <2>5, RankIs
    <3> QED
      BY <2>1, <2>4, <2>5, <3>1
  <2>6. CASE b \in IdsOf(lists[l])
    <3>1. PICK i, j \in DOMAIN lists[l] : i < j /\ lists[l][i].id = a /\ lists[l][j].id = b
      BY <2>6 DEF Dominates, Before
    <3>2. q = i /\ r = j
      BY <2>1, <2>2, <2>3, <3>1, RankIs
    <3>3. q \in 1..(2 * K) /\ r \in 1..(2 * K) /\ q < r
      <4>1. PICK m \in 0..(2 * K) : DOMAIN lists[l] = 1..m
        BY <2>1 DEF RankedList
      <4> QED
        BY <3>1, <3>2, <4>1, FusionAssumption
    <3>4. Scale \div (RrfK + r) < Scale \div (RrfK + q)
      BY <3>3, FusionAssumption
    <3>5. PICK c \in Nat, d \in Nat : c = Scale \div (RrfK + r) /\ d = Scale \div (RrfK + q)
      <4>1. ASSUME NEW k \in 1..(2 * K) PROVE Scale \div (RrfK + k) \in Nat
        <5>1. PICK e \in Nat \ {0} : e = RrfK + k
          BY FusionAssumption
        <5>2. Scale \div e \in Nat
          BY FusionAssumption
        <5> QED
          BY <5>1, <5>2
      <4> QED
        BY <3>3, <4>1
    <3>6. ASSUME NEW w \in Nat PROVE w * c <= w * d /\ (w > 0 => w * c < w * d)
      <4>1. c < d
        BY <3>4, <3>5
      <4> QED
        BY <4>1
    <3>7. g[l] = weights[l] * d /\ f[l] = weights[l] * c
      BY <2>4, <3>3, <3>5
    <3> QED
      BY <2>1, <3>6, <3>7
  <2> QED
    BY <2>5, <2>6
<1>3. PICK l \in DOMAIN lists : f[l] < g[l]
  BY <1>2
<1>4. IsFiniteSet(DOMAIN lists)
  BY CreditParts
<1>5. SumOf(f) \in Nat /\ SumOf(g) \in Nat /\ SumOf(f) < SumOf(g)
  BY <1>2, <1>3, <1>4, SumGreater
<1> QED
  BY <1>1, <1>5, CreditIs

(* The ids of finitely many lists are finitely many.                       *)
LEMMA IdsFinite ==
  ASSUME NEW lists, NEW weights, FusedLists(lists, weights) PROVE IsFiniteSet(AllIds(lists))
<1>1. PICK n \in Nat : DOMAIN lists = 1..n /\ \A l \in 1..n : RankedList(lists[l])
  BY DEF FusedLists
<1>2. ASSUME NEW l \in 1..n PROVE IsFiniteSet(IdsOf(lists[l]))
  <2>1. PICK m \in 0..(2 * K) : DOMAIN lists[l] = 1..m
    BY <1>1 DEF RankedList
  <2>2. m \in Nat
    BY FusionAssumption
  <2> DEFINE f == [i \in 1..m |-> lists[l][i].id]
  <2>3. f \in Surjection(1..m, IdsOf(lists[l]))
    BY <2>1 DEF IdsOf, Surjection
  <2> HIDE DEF f
  <2> QED
    BY <2>2, <2>3, FS_Interval, FS_Surjection
<1> DEFINE F == {IdsOf(lists[l]) : l \in 1..n}
           g == [l \in 1..n |-> IdsOf(lists[l])]
<1>3. g \in Surjection(1..n, F)
  BY DEF Surjection
<1>4. \A T \in F : IsFiniteSet(T)
  BY <1>2
<1>5. AllIds(lists) = UNION F
  BY <1>1 DEF AllIds
<1> HIDE DEF g, F
<1>6. IsFiniteSet(F)
  BY <1>3, FS_Interval, FS_Surjection
<1> QED
  BY <1>4, <1>5, <1>6, FS_UNION

(* What FusedSound asks of a result; credit is what it is sorted by.       *)
WellFused(result) ==
  /\ ~result.ok => result.lists = <<>> /\ result.ids = <<>>
  /\ ToSet(result.ids) \subseteq AllIds(result.lists)
  /\ Cardinality(ToSet(result.ids)) = Len(result.ids)
  /\ Len(result.ids) >= Min({K, Cardinality(AllIds(result.lists))})
  /\ result.strategy = "Rrf" =>
       \A i \in DOMAIN result.ids : \A a \in AllIds(result.lists) :
         Dominates(result.lists, a, result.ids[i]) /\ Weighed(result, result.ids[i]) =>
           \E h \in 1..(i - 1) : result.ids[h] = a

(* The lists sorted by credit, or the best of them, are such a result.     *)
LEMMA SortedSound ==
  ASSUME NEW lists, NEW weights, FusedLists(lists, weights), NEW strategy, NEW credit,
         DOMAIN credit = AllIds(lists), strategy = "Rrf" => credit = RrfCredit(lists, weights),
         NEW p \in Ranked(DOMAIN credit, credit), NEW ids, ids = p \/ ids = Best(p, K)
  PROVE  WellFused(Result(TRUE, strategy, ids, lists, weights))
<1>1. PICK S : S = AllIds(lists) /\ IsFiniteSet(S) /\ p \in SetToSeqs(S)
               /\ \A i, j \in DOMAIN p : i < j => credit[p[i]] >= credit[p[j]]
  BY IdsFinite DEF Ranked
<1>2. PICK m \in Nat : /\ m = Cardinality(S) /\ Len(p) = m /\ DOMAIN p = 1..m /\ p \in [1..m -> S]
                       /\ \A i, j \in 1..m : p[i] = p[j] => i = j
                       /\ \A x \in S : \E i \in 1..m : p[i] = x
  BY <1>1, OrderOf
<1>3. PICK n \in Nat : /\ n <= m /\ (n >= K \/ n = m) /\ DOMAIN ids = 1..n /\ Len(ids) = n
                       /\ ids \in [1..n -> S]
                       /\ \A i \in 1..n : ids[i] = p[i]
  <2>1. CASE ids = p
    BY <1>2, <2>1
  <2>2. CASE ids = Best(p, K)
    <3>1. K \in Nat
      BY FusionAssumption
    <3>2. \E n \in Nat : /\ Best(p, K) \in [1..n -> S] /\ DOMAIN Best(p, K) = 1..n /\ Len(Best(p, K)) = n
                        /\ n <= K /\ (n = K \/ n = Cardinality(S)) /\ n <= Cardinality(S)
                        /\ \A i \in 1..n : Best(p, K)[i] = p[i]
      BY <1>1, <3>1, BestIs
    <3> QED
      BY <1>2, <2>2, <3>1, <3>2
  <2> QED
    BY <2>1, <2>2
<1>4. \A i \in 1..n : i \in 1..m
  BY <1>3
<1>5. PICK result : result = Result(TRUE, strategy, ids, lists, weights)
  OBVIOUS
<1>6. /\ result.ok = TRUE /\ result.strategy = strategy /\ result.ids = ids /\ result.lists = lists
      /\ result.weights = weights
  BY <1>5 DEF Result
<1>7. ToSet(ids) \subseteq S
  BY <1>3 DEF ToSet
<1>8. Cardinality(ToSet(ids)) = n
  <2>1. ids \in Bijection(1..n, ToSet(ids))
    BY <1>2, <1>3, <1>4 DEF Bijection, Injection, Surjection, IsInjective, ToSet
  <2>2. ExistsBijection(1..n, ToSet(ids))
    BY <2>1 DEF ExistsBijection
  <2> QED
    BY <2>2, FS_Bijection, FS_Interval
<1>9. n >= Min({K, m})
  <2>1. Min({K, m}) \in {K, m} /\ \A j \in {K, m} : Min({K, m}) <= j
    BY LeastIs, FusionAssumption
  <2> QED
    BY <1>3, <2>1, FusionAssumption
<1>10. ASSUME strategy = "Rrf", NEW i \in 1..n, NEW a \in S, Dominates(lists, a, ids[i]), Weighed(result, ids[i])
       PROVE  \E h \in 1..(i - 1) : ids[h] = a
  <2>1. ids[i] = p[i] /\ ids[i] \in S /\ i \in 1..m
    BY <1>3, <1>4
  <2>2. \E l \in DOMAIN lists : ids[i] \in IdsOf(lists[l]) /\ weights[l] > 0
    BY <1>6, <1>10 DEF Weighed
  <2>3. credit[a] \in Nat /\ credit[ids[i]] \in Nat /\ credit[ids[i]] < credit[a]
    BY <1>1, <1>10, <2>1, <2>2, CreditOrders
  <2>4. PICK h \in 1..m : p[h] = a
    BY <1>2
  <2>5. ~(i <= h)
    BY <1>1, <1>2, <2>1, <2>3, <2>4
  <2>6. h \in 1..(i - 1) /\ h \in 1..n
    BY <1>3, <2>1, <2>5
  <2> QED
    BY <1>3, <2>4, <2>6
<1>11. DOMAIN ids = 1..n /\ Len(ids) = n
  BY <1>3
<1>12. WellFused(result)
  BY <1>1, <1>2, <1>6, <1>7, <1>8, <1>9, <1>10, <1>11 DEF WellFused
<1> QED
  BY <1>5, <1>12

(* Whatever is sent to an index, what it holds are vectors of finitely     *)
(* many ids.                                                               *)
LEMMA VectorsAre ==
  ASSUME NEW t \in Vectors
  PROVE  DOMAIN t \in SUBSET Nat /\ IsFiniteSet(DOMAIN t) /\ t \in [DOMAIN t -> Nat]
BY DEF Vectors

(* Any function from finitely many ids is such an index,                 *)
LEMMA VectorsOf ==
  ASSUME NEW D \in SUBSET Nat, IsFiniteSet(D), NEW t \in [D -> Nat] PROVE t \in Vectors
BY DEF Vectors

(* and stays one whatever is removed                                     *)
LEMMA RemovedVectors ==
  ASSUME NEW t \in Vectors, NEW ids PROVE RemoveIds(t, ids) \in Vectors
<1>1. DOMAIN t \ ids \in SUBSET Nat /\ IsFiniteSet(DOMAIN t \ ids)
  BY VectorsAre, FS_Subset
<1>2. RemoveIds(t, ids) \in [DOMAIN t \ ids -> Nat]
  BY VectorsAre DEF RemoveIds
<1> QED
  BY <1>1, <1>2, VectorsOf

(* or written, ids named twice or too great included;                    *)
LEMMA UpsertedVectors ==
  ASSUME NEW table \in Vectors, NEW rows \in Rows PROVE UpsertRows(table, rows) \in Vectors
<1>1. ASSUME NEW t \in Vectors, NEW k \in 1..Len(rows) PROVE Upsert(t, rows[k]) \in Vectors
  <2>1. PICK row \in [id : Nat, vec : Nat] : row = rows[k]
    BY <1>1, ElementOfSeq DEF Rows
  <2>2. DOMAIN t \cup {row.id} \in SUBSET Nat /\ IsFiniteSet(DOMAIN t \cup {row.id})
    BY VectorsAre, FS_AddElement
  <2>3. Upsert(t, row) \in [DOMAIN t \cup {row.id} -> Nat]
    BY VectorsAre DEF Upsert
  <2> QED
    BY <2>1, <2>2, <2>3, VectorsOf
<1>2. PICK p \in [0..Len(rows) -> Vectors] : p[Len(rows)] = UpsertRows(table, rows)
  BY <1>1, UpsertFold
<1>3. Len(rows) \in 0..Len(rows)
  BY LenProperties DEF Rows
<1> QED
  BY <1>2, <1>3

(* a part of the chunks is no different,                                 *)
LEMMA PartVectors ==
  ASSUME NEW table \in Vectors, NEW rows \in Rows, NEW size \in Nat \ {0}, NEW n \in Nat
  PROVE  UpsertRows(table, FirstChunks(rows, size, n)) \in Vectors
<1>1. PICK S : S = [id : Nat, vec : Nat] /\ rows \in Seq(S)
  BY DEF Rows
<1>2. FirstChunks(rows, size, n) \in Seq(S)
  BY <1>1, Chunks
<1> QED
  BY <1>1, <1>2, UpsertedVectors DEF Rows

(* nor is any outcome of any call that adds                              *)
LEMMA AddedVectors ==
  ASSUME NEW t \in Vectors, NEW rows \in Rows, NEW o,
         \/ o \in QdrantAdd(t, rows) \/ o \in ElasticAdd(t, rows)
         \/ o \in PgVectorAdd(t, rows) \/ o \in PgSparseAdd(t, rows)
  PROVE  o.index \in Vectors
<1>1. ASSUME NEW size \in Nat \ {0} PROVE ChunkCount(rows, size) \in Nat
  <2>1. Len(rows) \in Nat
    BY LenProperties DEF Rows
  <2>2. PICK top \in Nat : top = Len(rows) + size - 1
    BY <2>1
  <2>3. top \div size \in Nat
    OBVIOUS
  <2> QED
    BY <2>2, <2>3 DEF ChunkCount
<1>2. UpsertRows(t, rows) \in Vectors
  BY UpsertedVectors
<1>3. ASSUME NEW u \in Vectors, NEW ok, o = Outcome(u, ok) PROVE o.index \in Vectors
  BY <1>3 DEF Outcome
<1>4. CASE o \in QdrantAdd(t, rows) \/ o \in PgSparseAdd(t, rows)
  <2>1. \E u \in {t, UpsertRows(t, rows)}, ok \in BOOLEAN : o = Outcome(u, ok)
    BY <1>4 DEF QdrantAdd, PgSparseAdd
  <2> QED
    BY <1>2, <1>3, <2>1
<1>5. CASE o \in ElasticAdd(t, rows)
  <2>1. \E n \in 0..ChunkCount(rows, BULK_CHUNK_SIZE), ok \in BOOLEAN :
          o = Outcome(Mapped(UpsertRows(t, FirstChunks(rows, BULK_CHUNK_SIZE, n))), ok)
    <3>1. ChunkCount(rows, BULK_CHUNK_SIZE) \in 0..ChunkCount(rows, BULK_CHUNK_SIZE)
      BY <1>1, IndexAssumption
    <3> QED
      BY <1>5, <3>1 DEF ElasticAdd
  <2>2. PICK n \in Nat, ok \in BOOLEAN : o = Outcome(Mapped(UpsertRows(t, FirstChunks(rows, BULK_CHUNK_SIZE, n))), ok)
    BY <1>1, <2>1, IndexAssumption
  <2>3. PICK u \in Vectors : u = UpsertRows(t, FirstChunks(rows, BULK_CHUNK_SIZE, n))
    BY PartVectors, IndexAssumption
  <2>4. Mapped(u) \in Vectors
    BY RemovedVectors DEF Mapped
  <2> QED
    BY <1>3, <2>2, <2>3, <2>4
<1>6. CASE o \in PgVectorAdd(t, rows)
  <2>1. \/ o = Outcome(t, FALSE)
        \/ \E n \in 0..ChunkCount(rows, ROWS_PER_CHUNK), ok \in BOOLEAN :
             o = Outcome(UpsertRows(t, FirstChunks(rows, ROWS_PER_CHUNK, n)), ok)
    <3>1. ChunkCount(rows, ROWS_PER_CHUNK) \in 0..ChunkCount(rows, ROWS_PER_CHUNK)
      BY <1>1, IndexAssumption
    <3> QED
      BY <1>6, <3>1 DEF PgVectorAdd
  <2>2. ASSUME NEW n \in 0..ChunkCount(rows, ROWS_PER_CHUNK)
        PROVE  UpsertRows(t, FirstChunks(rows, ROWS_PER_CHUNK, n)) \in Vectors
    BY <1>1, PartVectors, IndexAssumption
  <2> QED
    BY <1>3, <2>1, <2>2
<1> QED
  BY <1>4, <1>5, <1>6

(* or removes.                                                           *)
LEMMA LessVectors ==
  ASSUME NEW t \in Vectors, NEW ids, NEW o,
         \/ o \in QdrantRemove(t, ids) \/ o \in ElasticRemove(t, ids)
         \/ o \in PgVectorRemove(t, ids) \/ o \in PgSparseRemove(t, ids)
  PROVE  o.index \in Vectors
<1>1. \E s, ok : o = Outcome(RemoveIds(t, s), ok) \/ o = Outcome(t, ok)
  BY DEF QdrantRemove, ElasticRemove, PgVectorRemove, PgSparseRemove
<1> QED
  BY <1>1, RemovedVectors DEF Outcome

(* What a search returns is a list of ids that the index holds.            *)
ListsOf(list, ids) == RankedList(list) /\ IdsOf(list) \subseteq ids

(* The best of a ranking are;                                            *)
LEMMA HitsAnswer ==
  ASSUME NEW S, IsFiniteSet(S), NEW score, NEW p \in Ranked(S, score), NEW k \in Nat, k <= 2 * K, NEW shown
  PROVE  ListsOf(Hits(Best(p, k), shown), S)
<1>1. p \in SetToSeqs(S)
  BY DEF Ranked
<1>2. RankedList(Hits(Best(p, k), shown))
  BY <1>1, HitsRanked
<1>3. PICK n \in Nat : Best(p, k) \in [1..n -> S]
  BY <1>1, BestIs
<1>4. IdsOf(Hits(Best(p, k), shown)) \subseteq S
  BY <1>3 DEF IdsOf, Hits, Hit
<1> QED
  BY <1>2, <1>4 DEF ListsOf

(* so is the empty list.                                                 *)
LEMMA NothingAnswered == ASSUME NEW S, NEW shown PROVE ListsOf(Hits(<<>>, shown), S) /\ ListsOf(<<>>, S)
<1>1. Hits(<<>>, shown) = <<>>
  BY DEF Hits
<1>2. RankedList(<<>>)
  <2>1. 0 \in 0..(2 * K)
    BY FusionAssumption
  <2> QED
    BY <2>1 DEF RankedList
<1>3. IdsOf(<<>>) = {}
  BY DEF IdsOf
<1> QED
  BY <1>1, <1>2, <1>3 DEF ListsOf

(* The greater of two numbers.                                           *)
LEMMA GreaterIs == ASSUME NEW a \in Nat, NEW b \in Nat PROVE Max({a, b}) \in {a, b}
<1>1. \E x \in {a, b} : \A y \in {a, b} : x >= y
  OBVIOUS
<1> QED
  BY <1>1 DEF Max

(* So does every search of every index.                                    *)
LEMMA DenseAnswers ==
  ASSUME NEW ix \in Vectors, NEW k \in Nat, k <= 2 * K, NEW shown, NEW ids,
         ids \in QdrantSearch(ix, k) \/ ids \in ElasticSearch(ix, k) \/ ids \in PgVectorSearch(ix, k)
  PROVE  ListsOf(Hits(ids, shown), DOMAIN ix)
<1>1. IsFiniteSet(DOMAIN ix) /\ DOMAIN ix \in SUBSET Nat /\ ix \in [DOMAIN ix -> Nat]
  BY VectorsAre
<1>2. CASE ids \in QdrantSearch(ix, k)
  BY <1>1, <1>2, HitsAnswer DEF QdrantSearch
<1>3. CASE ids \in ElasticSearch(ix, k)
  <2>1. PICK m : m = KnnNumCandidates(k)
    OBVIOUS
  <2>2. m \in Nat
    <3>1. Max({k, 1}) \in {k, 1}
      BY GreaterIs
    <3>2. PICK c \in Nat : c = Max({k, 1}) * 10
      BY <3>1
    <3>3. PICK d : d = Min({c, MAX_KNN_CANDIDATES}) /\ d \in {c, MAX_KNN_CANDIDATES}
      BY LeastIs DEF MAX_KNN_CANDIDATES
    <3>4. Max({d, k}) \in {d, k}
      BY <3>3, GreaterIs DEF MAX_KNN_CANDIDATES
    <3>5. m = Max({d, k})
      BY <2>1, <3>2, <3>3 DEF KnnNumCandidates
    <3> QED
      BY <3>3, <3>4, <3>5 DEF MAX_KNN_CANDIDATES
  <2>3. PICK l : l = Min({k, m}) /\ l \in {k, m} /\ l <= k
    BY <2>2, LeastIs
  <2>4. l \in Nat /\ l <= 2 * K
    BY <2>2, <2>3, FusionAssumption
  <2>5. \E p \in Ranked(DOMAIN ix, ix) : ids = Best(p, l)
    BY <1>3, <2>1, <2>3 DEF ElasticSearch
  <2> QED
    BY <1>1, <2>4, <2>5, HitsAnswer
<1>4. CASE ids \in PgVectorSearch(ix, k)
  <2>1. RankedById(DOMAIN ix, ix) \in Ranked(DOMAIN ix, ix)
    BY <1>1, RankedByIdIs
  <2> QED
    BY <1>1, <1>4, <2>1, HitsAnswer DEF PgVectorSearch
<1> QED
  BY <1>2, <1>3, <1>4

(* The sparse index too,                                                 *)
LEMMA SparseAnswers ==
  ASSUME NEW ix \in Vectors, NEW query, NEW shown, NEW ids \in PgSparseSearch(ix, query, K)
  PROVE  ListsOf(Hits(ids, shown), DOMAIN ix)
<1>1. ids = <<>> \/ ids \in PgVectorSearch(ix, K)
  BY DEF PgSparseSearch, PgVectorSearch
<1>2. K \in Nat /\ K <= 2 * K
  BY FusionAssumption
<1> QED
  BY <1>1, <1>2, DenseAnswers, NothingAnswered

(* any index within an allowlist or a predicate,                         *)
LEMMA AllowedVectors ==
  ASSUME NEW ix \in Vectors, NEW allowlist
  PROVE  Allowed(ix, allowlist) \in Vectors /\ DOMAIN Allowed(ix, allowlist) \subseteq DOMAIN ix
<1>1. DOMAIN ix \cap allowlist \in SUBSET Nat /\ IsFiniteSet(DOMAIN ix \cap allowlist)
  BY VectorsAre, FS_Subset
<1>2. Allowed(ix, allowlist) \in [DOMAIN ix \cap allowlist -> Nat]
  BY VectorsAre DEF Allowed
<1> QED
  BY <1>1, <1>2, VectorsOf

(* and the search for keywords.                                          *)
LEMMA KeywordAnswers ==
  ASSUME NEW query, NEW list \in KeywordSearch(Documents, query, K)
  PROVE  RankedList(list)
<1>1. CASE query = {}
  <2>1. list = <<>>
    BY <1>1 DEF KeywordSearch
  <2> QED
    BY <2>1, NothingAnswered DEF ListsOf
<1>2. CASE query # {}
  <2> DEFINE count == [id \in DOMAIN Documents |-> Matches(Documents[id], query)]
             found == {id \in DOMAIN Documents : count[id] # 0}
  <2>1. IsFiniteSet(found)
    BY FS_Subset, FusionAssumption
  <2>2. PICK p \in Ranked(found, count) : list = Hits(Best(p, K), count)
    BY <1>2 DEF KeywordSearch
  <2> HIDE DEF count, found
  <2>3. K \in Nat /\ K <= 2 * K
    BY FusionAssumption
  <2> QED
    BY <2>1, <2>2, <2>3, HitsAnswer DEF ListsOf
<1> QED
  BY <1>1, <1>2

(* The lists of the search under way are lists that backends returned, and *)
(* a result is as FusedSound wants it.                                     *)
AskedInv ==
  asked # None =>
    /\ asked = [left |-> asked.left, lists |-> asked.lists]
    /\ DOMAIN asked.lists \in SUBSET Backends
    /\ \A b \in DOMAIN asked.lists : RankedList(asked.lists[b])

HeldInv ==
  /\ qdrant \in Vectors /\ elastic \in Vectors /\ dense \in Vectors /\ lexical \in Vectors
  /\ write = [rows |-> write.rows, ids |-> write.ids, left |-> write.left] /\ write.rows \in Rows

SearchInv ==
  /\ HeldInv
  /\ AskedInv
  /\ merged # None => WellFused(merged)

(* Writes of any rows and removals of any ids leave vectors.               *)
LEMMA StepHeld == HeldInv /\ [FederationNext]_searchVars => HeldInv'
<1> SUFFICES ASSUME HeldInv, [FederationNext]_searchVars PROVE HeldInv'
  OBVIOUS
<1>1. <<>> \in Rows
  BY DEF Rows
<1>2. ASSUME NEW rows \in Rows, NEW ids, Write(rows, ids) PROVE HeldInv'
  BY <1>2 DEF Write, HeldInv, indexes
<1>3. ASSUME NEW i \in DOMAIN VecBatches PROVE VecBatches[i] \in Rows
  BY FederationAssumption DEF Rows
<1>4. ASSUME NEW name, NEW o, Took(name, o)
      PROVE  write' = [rows |-> write'.rows, ids |-> write'.ids, left |-> write'.left] /\ write'.rows \in Rows
  BY <1>4 DEF Took, HeldInv
<1>5. CASE WriteQdrant
  <2>1. PICK o : /\ o \in IF write.rows # <<>> THEN QdrantAdd(qdrant, write.rows) ELSE QdrantRemove(qdrant, write.ids)
                 /\ Took("qdrant", o) /\ qdrant' = o.index /\ UNCHANGED <<elastic, dense, lexical>>
    BY <1>5 DEF WriteQdrant, TakesWrite
  <2>2. o.index \in Vectors
    BY <2>1, AddedVectors, LessVectors DEF HeldInv
  <2> QED
    BY <1>4, <2>1, <2>2 DEF HeldInv
<1>6. CASE WriteElastic
  <2>1. PICK o : /\ o \in IF write.rows # <<>> THEN ElasticAdd(elastic, write.rows) ELSE ElasticRemove(elastic, write.ids)
                 /\ Took("elastic", o) /\ elastic' = o.index /\ UNCHANGED <<qdrant, dense, lexical>>
    BY <1>6 DEF WriteElastic, TakesWrite
  <2>2. o.index \in Vectors
    BY <2>1, AddedVectors, LessVectors DEF HeldInv
  <2> QED
    BY <1>4, <2>1, <2>2 DEF HeldInv
<1>7. CASE WriteDense
  <2>1. PICK o : /\ o \in IF write.rows # <<>> THEN PgVectorAdd(dense, write.rows) ELSE PgVectorRemove(dense, write.ids)
                 /\ Took("dense", o) /\ dense' = o.index /\ UNCHANGED <<qdrant, elastic, lexical>>
    BY <1>7 DEF WriteDense, TakesWrite
  <2>2. o.index \in Vectors
    BY <2>1, AddedVectors, LessVectors DEF HeldInv
  <2> QED
    BY <1>4, <2>1, <2>2 DEF HeldInv
<1>8. CASE WriteLexical
  <2>1. PICK o : /\ o \in IF write.rows # <<>> THEN PgSparseAdd(lexical, write.rows) ELSE PgSparseRemove(lexical, write.ids)
                 /\ Took("lexical", o) /\ lexical' = o.index /\ UNCHANGED <<qdrant, elastic, dense>>
    BY <1>8 DEF WriteLexical, TakesWrite
  <2>2. o.index \in Vectors
    BY <2>1, AddedVectors, LessVectors DEF HeldInv
  <2> QED
    BY <1>4, <2>1, <2>2 DEF HeldInv
<1>9. CASE GiveUp
  BY <1>1, <1>9 DEF GiveUp, NoWrite, HeldInv, indexes
<1>10. ASSUME NEW ids, NEW commits \in BOOLEAN, Prune(ids, commits) PROVE HeldInv'
  <2>1. RemoveIds(dense, ids) \in Vectors /\ RemoveIds(lexical, ids) \in Vectors
    BY RemovedVectors DEF HeldInv
  <2>2. \/ dense' = RemoveIds(dense, ids) /\ lexical' = RemoveIds(lexical, ids)
        \/ dense' = dense /\ lexical' = lexical
    BY <1>10 DEF Prune, RemoveInTx
  <2>3. write' = [rows |-> write'.rows, ids |-> write'.ids, left |-> write'.left] /\ write'.rows \in Rows
    <3>1. write' = write \/ write' = [rows |-> <<>>, ids |-> ids, left |-> {"qdrant", "elastic"}]
      BY <1>10 DEF Prune
    <3> QED
      BY <1>1, <3>1 DEF HeldInv
  <2> QED
    BY <1>10, <2>1, <2>2, <2>3 DEF Prune, HeldInv
<1>11. ASSUME UNCHANGED <<indexes, write>> PROVE HeldInv'
  BY <1>11 DEF indexes, HeldInv
<1>12. CASE UNCHANGED searchVars
  BY <1>11, <1>12 DEF searchVars
<1>13. CASE \/ Ask \/ ReplyQdrant \/ ReplyElastic \/ ReplyDense \/ Consume
            \/ \E b \in Backends : Fails(b)
            \/ \E strategy \in {"Rrf", "WeightedSum"} : Merge(strategy)
            \/ \E lists \in LocalLists : Local("Rrf", lists) \/ LocalCombMnz(lists)
            \/ \E d, l : Hybrid(d, l)
  <2>1. ASSUME Ask \/ ReplyQdrant \/ ReplyElastic \/ ReplyDense \/ Consume \/ \E b \in Backends : Fails(b)
        PROVE  UNCHANGED <<indexes, write>>
    BY <2>1, Zenon DEF Ask, ReplyQdrant, ReplyElastic, ReplyDense, Reply, Asked, Consume, Fails
  <2>2. ASSUME NEW strategy, Merge(strategy) PROVE UNCHANGED <<indexes, write>>
    BY <2>2, Zenon DEF Merge
  <2>3. ASSUME NEW lists, Local("Rrf", lists) \/ LocalCombMnz(lists) PROVE UNCHANGED <<indexes, write>>
    BY <2>3, Zenon DEF Local, LocalCombMnz
  <2>4. ASSUME NEW d, NEW l, Hybrid(d, l) PROVE UNCHANGED <<indexes, write>>
    BY <2>4, Zenon DEF Hybrid
  <2> QED
    BY <1>11, <1>13, <2>1, <2>2, <2>3, <2>4, Zenon
<1>14. ASSUME NEW i \in DOMAIN VecBatches, Write(VecBatches[i], {}) PROVE HeldInv'
  BY <1>2, <1>3, <1>14
<1>15. ASSUME NEW id, Write(<<>>, {id}) PROVE HeldInv'
  BY <1>1, <1>2, <1>15
<1> QED
  BY <1>5, <1>6, <1>7, <1>8, <1>9, <1>10, <1>12, <1>13, <1>14, <1>15, Zenon DEF FederationNext

(* Each list that is asked for is one of a backend.                        *)
LEMMA StepAsked == HeldInv /\ AskedInv /\ [FederationNext]_searchVars => AskedInv'
<1> SUFFICES ASSUME HeldInv, AskedInv, [FederationNext]_searchVars PROVE AskedInv'
  OBVIOUS
<1>1. 2 * K \in Nat /\ 2 * K <= 2 * K
  BY FusionAssumption
<1>2. ASSUME NEW b \in Backends, NEW list, RankedList(list), Reply(b, list) PROVE AskedInv'
  <2>1. asked # None /\ asked' = [asked EXCEPT !.left = @ \ {b}, !.lists = Replied(@, b, list)]
    BY <1>2 DEF Reply, Asked
  <2>2. asked' = [left |-> asked.left \ {b}, lists |-> Replied(asked.lists, b, list)]
    BY <2>1 DEF AskedInv
  <2>3. /\ DOMAIN Replied(asked.lists, b, list) \in SUBSET Backends
        /\ \A c \in DOMAIN Replied(asked.lists, b, list) : RankedList(Replied(asked.lists, b, list)[c])
    BY <1>2, <2>1 DEF AskedInv, Replied
  <2> QED
    BY <2>2, <2>3 DEF AskedInv
<1>3. "qdrant" \in Backends /\ "elastic" \in Backends /\ "dense" \in Backends
  BY DEF Backends
<1>4. CASE ReplyQdrant
  BY <1>1, <1>2, <1>3, <1>4, DenseAnswers DEF ReplyQdrant, HeldInv, ListsOf
<1>5. CASE ReplyElastic
  BY <1>1, <1>2, <1>3, <1>5, DenseAnswers DEF ReplyElastic, HeldInv, ListsOf
<1>6. CASE ReplyDense
  BY <1>1, <1>2, <1>3, <1>6, DenseAnswers DEF ReplyDense, HeldInv, ListsOf
<1>7. ASSUME NEW b \in Backends, Fails(b) PROVE AskedInv'
  <2>1. asked # None /\ asked' = [asked EXCEPT !.left = @ \ {b}]
    BY <1>7 DEF Fails, Asked
  <2>2. asked' = [left |-> asked.left \ {b}, lists |-> asked.lists]
    BY <2>1 DEF AskedInv
  <2> QED
    BY <2>1, <2>2 DEF AskedInv
<1>8. CASE Ask
  <2>1. asked' = [left |-> Backends, lists |-> <<>>] /\ DOMAIN <<>> = {}
    BY <1>8 DEF Ask
  <2> QED
    BY <2>1 DEF AskedInv
<1>9. ASSUME asked' = None \/ asked' = asked PROVE AskedInv'
  BY <1>9 DEF AskedInv
<1>10. CASE UNCHANGED searchVars
  BY <1>9, <1>10 DEF searchVars
<1>11. CASE \/ Consume \/ GiveUp
            \/ \E rows, ids : Write(rows, ids)
            \/ WriteQdrant \/ WriteElastic \/ WriteDense \/ WriteLexical
            \/ \E ids, commits : Prune(ids, commits)
            \/ \E strategy \in {"Rrf", "WeightedSum"} : Merge(strategy)
            \/ \E lists \in LocalLists : Local("Rrf", lists) \/ LocalCombMnz(lists)
            \/ \E d, l : Hybrid(d, l)
  BY <1>9, <1>11 DEF Consume, GiveUp, Write, WriteQdrant, WriteElastic, WriteDense, WriteLexical, Took, Prune, Merge, Local, LocalCombMnz, Hybrid
<1> QED
  BY <1>4, <1>5, <1>6, <1>7, <1>8, <1>10, <1>11, Zenon DEF FederationNext

(* Lists of the same ids, whatever their scores.                           *)
LEMMA NormalizeKeepsIds == ASSUME NEW list, RankedList(list) PROVE IdsOf(NormalizeMinMax(list)) = IdsOf(list)
<1>1. PICK m \in 0..(2 * K) : DOMAIN list = 1..m
  BY DEF RankedList
<1>2. PICK n : n = NormalizeMinMax(list)
  OBVIOUS
<1>3. CASE list = <<>>
  BY <1>3 DEF NormalizeMinMax
<1>4. CASE list # <<>>
  <2>1. DOMAIN n = 1..m /\ \A i \in 1..m : n[i].id = list[i].id
    BY <1>1, <1>2, <1>4 DEF NormalizeMinMax, Hit
  <2> QED
    BY <1>1, <1>2, <2>1 DEF IdsOf
<1> QED
  BY <1>3, <1>4

(* A finite set in the order SetToSeq gives it.                            *)
LEMMA Survivors ==
  ASSUME NEW S, IsFiniteSet(S) PROVE \E n \in Nat : SetToSeq(S) \in [1..n -> S]
<1>1. PICK n \in Nat : n = Cardinality(S) /\ IsFiniteSet(1..n) /\ Cardinality(1..n) = n
  BY FS_CardinalityType, FS_Interval
<1>2. \E f \in [1..n -> S] : IsInjective(f)
  <2>1. ExistsBijection(1..n, S)
    BY <1>1, FS_CardinalityType
  <2>2. PICK f : f \in Bijection(1..n, S)
    BY <2>1 DEF ExistsBijection
  <2>3. f \in [1..n -> S] /\ IsInjective(f)
    BY <2>2 DEF Bijection, Injection, IsInjective
  <2> QED
    BY <2>3
<1>3. SetToSeq(S) \in [1..n -> S]
  BY <1>1, <1>2 DEF SetToSeq
<1> QED
  BY <1>3

(* Every document of the lists has a credit, and no other.                 *)
LEMMA CreditDomains ==
  ASSUME NEW lists, NEW weights
  PROVE  /\ DOMAIN RrfCredit(lists, weights) = AllIds(lists)
         /\ RrfCredit(lists, weights) = [id \in AllIds(lists) |-> RrfCredit(lists, weights)[id]]
         /\ DOMAIN WeightedSum(lists, weights) = AllIds(lists)
         /\ DOMAIN CombMnz(lists, K) = AllIds(lists)
<1>1. /\ DOMAIN RrfCredit(lists, weights) = AllIds(lists)
      /\ RrfCredit(lists, weights) = [id \in AllIds(lists) |-> RrfCredit(lists, weights)[id]]
  BY DEF RrfCredit, SumOver, SelectInSeq, FoldFunctionOnSet, MapThenFoldSet
<1>2. DOMAIN WeightedSum(lists, weights) = AllIds(lists)
  BY DEF WeightedSum, SumOver, SelectInSeq, FoldFunctionOnSet, MapThenFoldSet
<1>3. DOMAIN CombMnz(lists, K) = AllIds(lists)
  BY DEF CombMnz, SumOver, SelectInSeq, FoldFunctionOnSet, MapThenFoldSet
<1> QED
  BY <1>1, <1>2, <1>3

(* What backends returned, merged.                                         *)
LEMMA MergeSound ==
  ASSUME AskedInv, NEW strategy \in {"Rrf", "WeightedSum"}, Merge(strategy)
  PROVE  WellFused(merged')
<1> DEFINE survivors == SetToSeq(DOMAIN asked.lists)
           lists == [i \in DOMAIN survivors |-> asked.lists[survivors[i]]]
           weights == [i \in DOMAIN survivors |-> Weights[survivors[i]]]
<1>1. DOMAIN asked.lists \in SUBSET Backends /\ \A b \in DOMAIN asked.lists : RankedList(asked.lists[b])
  BY DEF Merge, AskedInv
<1>2. IsFiniteSet(DOMAIN asked.lists)
  <2>1. IsFiniteSet(Backends)
    <3>1. IsFiniteSet({"qdrant"}) /\ IsFiniteSet({"elastic"}) /\ IsFiniteSet({"dense"})
      BY FS_Singleton
    <3>2. IsFiniteSet({"qdrant"} \cup {"elastic"} \cup {"dense"})
      BY <3>1, FS_Union
    <3>3. Backends = {"qdrant"} \cup {"elastic"} \cup {"dense"}
      BY DEF Backends
    <3> QED
      BY <3>2, <3>3
  <2> QED
    BY <1>1, <2>1, FS_Subset
<1>3. PICK n \in Nat : survivors \in [1..n -> DOMAIN asked.lists]
  BY <1>2, Survivors
<1>4. \/ merged' = Result(FALSE, strategy, <<>>, <<>>, <<>>)
      \/ \E ids \in Fused(Credit(strategy, lists, weights)) :
           merged' = Result(TRUE, strategy, Best(ids, K), lists, weights)
  BY DEF Merge
<1>5. FusedLists(lists, weights)
  <2>1. DOMAIN lists = 1..n
    BY <1>3
  <2>2. ASSUME NEW i \in 1..n PROVE RankedList(lists[i]) /\ weights[i] \in Nat
    <3>1. survivors[i] \in DOMAIN asked.lists /\ survivors[i] \in Backends
      BY <1>1, <1>3
    <3>2. lists[i] = asked.lists[survivors[i]] /\ weights[i] = Weights[survivors[i]]
      BY <1>3
    <3> HIDE DEF survivors, lists, weights
    <3>3. Weights[survivors[i]] \in Nat
      BY <3>1, FusionAssumption
    <3> QED
      BY <1>1, <3>1, <3>2, <3>3
  <2> QED
    BY <2>1, <2>2 DEF FusedLists
<1> HIDE DEF survivors, lists, weights
<1>6. DOMAIN Credit(strategy, lists, weights) = AllIds(lists)
  <2>1. CASE strategy = "Rrf"
    BY <2>1, CreditDomains DEF Credit
  <2>2. CASE strategy = "WeightedSum"
    <3>1. PICK norm : norm = [i \in DOMAIN lists |-> NormalizeMinMax(lists[i])]
      OBVIOUS
    <3>2. \A i \in DOMAIN lists : RankedList(lists[i])
      BY <1>5 DEF FusedLists
    <3>3. DOMAIN norm = DOMAIN lists /\ \A i \in DOMAIN lists : IdsOf(norm[i]) = IdsOf(lists[i])
      BY <3>1, <3>2, NormalizeKeepsIds
    <3>4. AllIds(norm) = AllIds(lists)
      BY <3>3 DEF AllIds
    <3>5. Credit(strategy, lists, weights) = WeightedSum(norm, weights)
      BY <2>2, <3>1 DEF Credit
    <3> QED
      BY <3>4, <3>5, CreditDomains
  <2> QED
    BY <2>1, <2>2
<1>7. PICK credit : credit = Credit(strategy, lists, weights)
  OBVIOUS
<1>8. strategy = "Rrf" => credit = RrfCredit(lists, weights)
  BY <1>7 DEF Credit
<1>9. CASE merged' = Result(FALSE, strategy, <<>>, <<>>, <<>>)
  <2>1. PICK result : result = Result(FALSE, strategy, <<>>, <<>>, <<>>)
    OBVIOUS
  <2>2. result.ok = FALSE /\ result.ids = <<>> /\ result.lists = <<>> /\ Len(<<>>) = 0 /\ DOMAIN <<>> = {}
    BY <2>1 DEF Result
  <2>3. ToSet(<<>>) = {} /\ AllIds(<<>>) = {} /\ Cardinality({}) = 0
    BY FS_EmptySet DEF ToSet, AllIds
  <2>4. Min({K, 0}) <= 0
    BY LeastIs, FusionAssumption
  <2>5. WellFused(result)
    BY <2>2, <2>3, <2>4 DEF WellFused
  <2> QED
    BY <1>9, <2>1, <2>5
<1>10. CASE \E ids \in Fused(credit) : merged' = Result(TRUE, strategy, Best(ids, K), lists, weights)
  <2>1. PICK p \in Ranked(DOMAIN credit, credit) : merged' = Result(TRUE, strategy, Best(p, K), lists, weights)
    BY <1>10 DEF Fused
  <2> QED
    BY <1>5, <1>6, <1>7, <1>8, <2>1, SortedSound
<1> QED
  BY <1>4, <1>7, <1>9, <1>10

(* Two lists that count alike.                                             *)
LEMMA TwoLists ==
  ASSUME NEW a, NEW b, RankedList(a), RankedList(b)
  PROVE  FusedLists(<<a, b>>, Alike(<<a, b>>)) /\ AllIds(<<a, b>>) = IdsOf(a) \cup IdsOf(b)
<1>1. PICK lists : lists = <<a, b>>
  OBVIOUS
<1>2. DOMAIN lists = 1..2 /\ lists[1] = a /\ lists[2] = b /\ 1..2 = {1, 2} /\ 2 \in Nat
  BY <1>1
<1>3. \A i \in 1..2 : Alike(lists)[i] = 1
  BY <1>2 DEF Alike
<1>4. FusedLists(lists, Alike(lists))
  BY <1>2, <1>3 DEF FusedLists
<1>5. AllIds(lists) = IdsOf(a) \cup IdsOf(b)
  BY <1>2 DEF AllIds
<1> QED
  BY <1>1, <1>4, <1>5

(* Dense and sparse of PostgreSQL, merged.                                 *)
LEMMA HybridSound ==
  ASSUME NEW S \in SUBSET Nat, NEW T \in SUBSET Nat, NEW d, NEW l,
         ListsOf(Hits(d, dense), S), ListsOf(Hits(l, lexical), T), Hybrid(d, l)
  PROVE  WellFused(merged')
<1>1. PICK a, b : a = Hits(d, dense) /\ b = Hits(l, lexical)
  OBVIOUS
<1>2. PICK lists : lists = <<a, b>>
  OBVIOUS
<1>3. PICK weights : weights = Alike(lists)
  OBVIOUS
<1>4. FusedLists(lists, weights) /\ AllIds(lists) \in SUBSET Nat
  <2>1. RankedList(a) /\ RankedList(b) /\ IdsOf(a) \subseteq S /\ IdsOf(b) \subseteq T
    BY <1>1 DEF ListsOf
  <2>2. FusedLists(<<a, b>>, Alike(<<a, b>>)) /\ AllIds(<<a, b>>) = IdsOf(a) \cup IdsOf(b)
    BY <2>1, TwoLists
  <2> QED
    BY <1>2, <1>3, <2>1, <2>2
<1>5. PICK credit : credit = RrfCredit(lists, weights)
  OBVIOUS
<1>6. DOMAIN credit = AllIds(lists) /\ credit \in [AllIds(lists) -> Nat]
  <2>1. \A id \in AllIds(lists) : credit[id] \in Nat
    BY <1>4, <1>5, CreditIs, CreditParts
  <2>2. DOMAIN credit = AllIds(lists) /\ credit = [id \in AllIds(lists) |-> credit[id]]
    BY <1>5, CreditDomains
  <2> QED
    BY <2>1, <2>2
<1>7. Fuse(credit) \in Ranked(DOMAIN credit, credit)
  BY <1>4, <1>6, IdsFinite, RankedByIdIs DEF Fuse
<1>8. WellFused(Result(TRUE, "Rrf", Best(Fuse(credit), K), lists, weights))
  BY <1>4, <1>5, <1>6, <1>7, SortedSound
<1>9. merged' = Result(TRUE, "Rrf", Best(Fuse(credit), K), lists, weights)
  BY <1>1, <1>2, <1>3, <1>5 DEF Hybrid
<1> QED
  BY <1>8, <1>9

(* Lists that a caller holds, merged.                                      *)
LEMMA LocalSound ==
  ASSUME HeldInv, NEW lists \in LocalLists, Local("Rrf", lists) \/ LocalCombMnz(lists)
  PROVE  WellFused(merged')
<1>1. PICK a, b : lists = <<a, b>> /\ RankedList(a) /\ RankedList(b)
  <2>1. PICK query, a, ids :
          /\ a \in KeywordSearch(Documents, query, K) /\ ids \in QdrantSearchFiltered(qdrant, K, DOMAIN Documents)
          /\ lists = <<a, Hits(ids, qdrant)>>
    BY DEF LocalLists
  <2>2. K \in Nat /\ K <= 2 * K
    BY FusionAssumption
  <2>3. PICK ix \in Vectors : ix = Allowed(qdrant, DOMAIN Documents)
    BY AllowedVectors DEF HeldInv
  <2>4. ids \in QdrantSearch(ix, K)
    BY <2>1, <2>3 DEF QdrantSearchFiltered
  <2>5. RankedList(a)
    BY <2>1, KeywordAnswers
  <2>6. RankedList(Hits(ids, qdrant))
    BY <2>2, <2>4, DenseAnswers DEF ListsOf
  <2> QED
    BY <2>1, <2>5, <2>6
<1>2. PICK weights : weights = Alike(lists) /\ FusedLists(lists, weights)
  BY <1>1, TwoLists
<1>3. CASE Local("Rrf", lists)
  <2>1. PICK credit : credit = RrfCredit(lists, weights) /\ DOMAIN credit = AllIds(lists)
    BY CreditDomains
  <2>2. PICK p \in Ranked(DOMAIN credit, credit) : merged' = Result(TRUE, "Rrf", p, lists, weights)
    BY <1>2, <1>3, <2>1 DEF Local, FederateResults, Credit, Fused
  <2> QED
    BY <1>2, <2>1, <2>2, SortedSound
<1>4. CASE LocalCombMnz(lists)
  <2>1. PICK credit : credit = CombMnz(lists, K) /\ DOMAIN credit = AllIds(lists)
    BY CreditDomains
  <2>2. PICK p \in Ranked(DOMAIN credit, credit) : merged' = Result(TRUE, "CombMnz", p, lists, weights)
    BY <1>2, <1>4, <2>1 DEF LocalCombMnz, Fused
  <2> QED
    BY <1>2, <2>1, <2>2, SortedSound
<1> QED
  BY <1>3, <1>4

(* Indexes that hold nothing satisfy the invariant.                      *)
LEMMA InitSearch == FederationInit => SearchInv
<1> SUFFICES ASSUME FederationInit PROVE SearchInv
  OBVIOUS
<1>1. NoVectors \in Vectors
  <2>1. NoVectors \in [{} -> Nat] /\ {} \in SUBSET Nat /\ IsFiniteSet({})
    BY FS_EmptySet DEF NoVectors
  <2> QED
    BY <2>1, VectorsOf
<1>2. <<>> \in Rows
  BY DEF Rows
<1> QED
  BY <1>1, <1>2 DEF FederationInit, SearchInv, HeldInv, AskedInv, NoWrite

(* Every result is as FusedSound wants it.                                 *)
LEMMA StepSearch == SearchInv /\ [FederationNext]_searchVars => SearchInv'
<1> SUFFICES ASSUME SearchInv, [FederationNext]_searchVars PROVE SearchInv'
  OBVIOUS
<1>1. HeldInv /\ AskedInv /\ HeldInv' /\ AskedInv'
  BY StepHeld, StepAsked DEF SearchInv
<1>2. ASSUME WellFused(merged') \/ merged' = merged \/ merged' = None PROVE SearchInv'
  BY <1>1, <1>2 DEF SearchInv
<1>3. ASSUME NEW strategy \in {"Rrf", "WeightedSum"}, Merge(strategy) PROVE SearchInv'
  BY <1>1, <1>2, <1>3, MergeSound
<1>4. ASSUME NEW lists \in LocalLists, Local("Rrf", lists) \/ LocalCombMnz(lists) PROVE SearchInv'
  BY <1>1, <1>2, <1>4, LocalSound
<1>5. /\ dense \in Vectors /\ lexical \in Vectors
      /\ DOMAIN dense \in SUBSET Nat /\ DOMAIN lexical \in SUBSET Nat /\ K \in Nat /\ K <= 2 * K
  BY <1>1, VectorsAre, FusionAssumption DEF HeldInv
<1>6. ASSUME NEW d \in PgVectorSearch(dense, K), NEW l \in PgSparseSearch(lexical, {"rust"}, K), Hybrid(d, l)
      PROVE  SearchInv'
  <2>1. ListsOf(Hits(d, dense), DOMAIN dense)
    BY <1>5, <1>6, DenseAnswers
  <2>2. ListsOf(Hits(l, lexical), DOMAIN lexical)
    BY <1>5, <1>6, SparseAnswers
  <2> QED
    BY <1>2, <1>5, <1>6, <2>1, <2>2, HybridSound
<1>7. ASSUME NEW d \in PgVectorSearchFiltered(dense, K, DOMAIN lexical),
             NEW l \in PgSparseSearchFiltered(lexical, {}, K, DOMAIN dense), Hybrid(d, l)
      PROVE  SearchInv'
  <2>1. PICK ix \in Vectors : ix = Allowed(dense, DOMAIN lexical)
    BY <1>5, AllowedVectors
  <2>2. PICK other \in Vectors : other = Allowed(lexical, DOMAIN dense)
    BY <1>5, AllowedVectors
  <2>3. d \in PgVectorSearch(ix, K)
    BY <1>7, <2>1 DEF PgVectorSearchFiltered
  <2>4. l \in PgSparseSearch(other, {}, K)
    BY <1>7, <2>2 DEF PgSparseSearchFiltered
  <2>5. ListsOf(Hits(d, dense), DOMAIN ix)
    BY <1>5, <2>3, DenseAnswers
  <2>6. ListsOf(Hits(l, lexical), DOMAIN other)
    BY <2>4, SparseAnswers
  <2>7. DOMAIN ix \in SUBSET Nat /\ DOMAIN other \in SUBSET Nat
    BY VectorsAre
  <2> QED
    BY <1>2, <1>7, <2>5, <2>6, <2>7, HybridSound
<1>8. CASE UNCHANGED searchVars
  BY <1>2, <1>8 DEF searchVars
<1>9. CASE \/ Ask \/ ReplyQdrant \/ ReplyElastic \/ ReplyDense \/ Consume \/ GiveUp
           \/ \E b \in Backends : Fails(b)
           \/ \E rows, ids : Write(rows, ids)
           \/ WriteQdrant \/ WriteElastic \/ WriteDense \/ WriteLexical
           \/ \E ids, commits : Prune(ids, commits)
  <2>1. merged' = merged \/ merged' = None
    BY <1>9, Zenon DEF Ask, ReplyQdrant, ReplyElastic, ReplyDense, Reply, Asked, Consume, GiveUp, Fails, Write,
       WriteQdrant, WriteElastic, WriteDense, WriteLexical, Took, Prune
  <2> QED
    BY <1>2, <2>1
<1> QED
  BY <1>3, <1>4, <1>6, <1>7, <1>8, <1>9, Zenon DEF FederationNext

(* A merged result lists each document once, is full when there are enough *)
(* and never ranks one before, or instead of, another that is ahead of it  *)
(* in every list: for any weights, documents, writes and failures.         *)
THEOREM MergesSound == FederationSpec => []FusedSound
<1>1. SearchInv => FusedSound
  BY DEF SearchInv, WellFused, FusedSound
<1> QED
  BY <1>1, InitSearch, StepSearch, PTL DEF FederationSpec

----------------------------------------------------------------------------
(* The report of LLM calls.                                                *)

IsCall(c) ==
  c = [at |-> c.at, call |-> c.call, method |-> c.method, request |-> c.request,
       answer |-> c.answer, result |-> c.result, open |-> c.open]
  /\ c.call \in Nat

(* A closed exporter has nothing left to export.                           *)
IsExporter(e) ==
  /\ e = [open |-> e.open, queue |-> e.queue, exported |-> e.exported]
  /\ e.queue \in Seq(ToSet(e.queue))
  /\ e.open \in BOOLEAN /\ (~e.open => e.queue = <<>>)

Queued == exporter.exported \cup ToSet(exporter.queue)

Tells(s, c) == s.attributes["level"] = Level(IF c.result.ok THEN "ok" ELSE "error")

(* Spans of a call there are none until it is answered, and one, that says *)
(* what came of it, when it returns.                                       *)
SpansInv ==
  /\ IsExporter(exporter)
  /\ \A s \in Queued : /\ s.call \in Nat /\ s.call <= llm.call
                       /\ llm.at \in {"sent", "answered"} => s.call # llm.call
                       /\ llm.at = "reported" /\ s.call = llm.call => Tells(s, llm)
  /\ \A s, t \in Queued : s.call = t.call => s = t

Sent(call, level) == \E s \in Queued : s.call = call /\ s.attributes["level"] = level

(* The log holds calls that ended, each with the span it has, if any.      *)
IsLogged(r) ==
  /\ r.call \in Nat /\ r.call <= llm.call /\ (llm.at # "idle" => r.call # llm.call)
  /\ \A s \in Queued : s.call = r.call => r.came # "nothing" /\ s.attributes["level"] = Level(r.came)
  /\ r.outcome = "returned" /\ r.open => Sent(r.call, Level(r.came))

ReportInv ==
  /\ IsCall(llm) /\ SpansInv
  /\ llm.at = "reported" /\ llm.open => Sent(llm.call, Level(IF llm.result.ok THEN "ok" ELSE "error"))
  /\ llmLog \in Seq(ToSet(llmLog))
  /\ \A r \in ToSet(llmLog) : IsLogged(r)

(* One element more.                                                       *)
LEMMA Appended ==
  ASSUME NEW q, q \in Seq(ToSet(q)), NEW e
  PROVE  Append(q, e) \in Seq(ToSet(Append(q, e))) /\ ToSet(Append(q, e)) = ToSet(q) \cup {e}
<1>1. PICK S : S = ToSet(q) \cup {e} /\ q \in Seq(S) /\ e \in S
  <2>1. q \in Seq(ToSet(q) \cup {e})
    OBVIOUS
  <2> QED
    BY <2>1
<1>2. PICK n \in Nat : n = Len(q) /\ DOMAIN q = 1..n
  BY <1>1, LenProperties
<1>3. PICK t : t = Append(q, e) /\ t \in Seq(S) /\ DOMAIN t = 1..(n + 1) /\ t[n + 1] = e /\ \A i \in 1..n : t[i] = q[i]
  <2>1. Append(q, e) \in Seq(S) /\ Len(Append(q, e)) = n + 1 /\ Append(q, e)[n + 1] = e /\ \A i \in 1..n : Append(q, e)[i] = q[i]
    BY <1>1, <1>2, AppendProperties
  <2>2. DOMAIN Append(q, e) = 1..(n + 1)
    BY <2>1, LenProperties
  <2> QED
    BY <2>1, <2>2
<1>4. \A i : i \in 1..(n + 1) <=> i \in 1..n \/ i = n + 1
  OBVIOUS
<1>5. ToSet(t) = ToSet(q) \cup {e}
  BY <1>2, <1>3, <1>4 DEF ToSet
<1> QED
  BY <1>1, <1>3, <1>5

(* A call that moves on without being reported or logged.                  *)
LEMMA CallMoves ==
  ASSUME ReportInv, UNCHANGED <<llmLog, exporter>>, IsCall(llm'), llm'.at # "reported",
         \/ llm'.call = llm.call /\ (llm'.at \in {"sent", "answered"} => llm.at \in {"sent", "answered"})
            /\ (llm.at = "idle" => llm'.at = "idle")
         \/ llm'.call = llm.call + 1
  PROVE  ReportInv'
<1>1. Queued' = Queued /\ llm.call \in Nat /\ llm'.call \in Nat
  BY DEF Queued, ReportInv, IsCall
<1>2. SpansInv'
  BY <1>1 DEF SpansInv, ReportInv
<1>3. ASSUME NEW r, IsLogged(r) PROVE IsLogged(r)'
  BY <1>1, <1>3 DEF IsLogged, Sent
<1> QED
  BY <1>2, <1>3 DEF ReportInv

(* An entry more in the log, when the call has ended.                      *)
LEMMA CallEnds ==
  ASSUME ReportInv, NEW outcome, Logged(outcome), UNCHANGED exporter, llm' = Idle,
         llm.at \in {"sent", "answered", "reported"}, outcome = "returned" => llm.at = "reported"
  PROVE  ReportInv'
<1>1. Queued' = Queued /\ IsCall(llm') /\ llm'.call = llm.call /\ llm'.at = "idle" /\ llm.call \in Nat
  BY DEF Queued, ReportInv, IsCall, Idle, NoCall
<1>2. PICK came, open : /\ came = Came /\ open = (IF llm.at = "reported" THEN llm.open ELSE exporter.open)
                        /\ llmLog' = Append(llmLog, [call |-> llm.call, outcome |-> outcome, came |-> came, open |-> open])
  BY DEF Logged
<1>3. PICK r : r = [call |-> llm.call, outcome |-> outcome, came |-> came, open |-> open] /\ llmLog' = Append(llmLog, r)
  BY <1>2
<1>4. llmLog' \in Seq(ToSet(llmLog')) /\ ToSet(llmLog') = ToSet(llmLog) \cup {r}
  BY <1>3, Appended DEF ReportInv
<1>5. SpansInv'
  BY <1>1 DEF SpansInv, ReportInv
<1>6. ASSUME NEW e, IsLogged(e) PROVE IsLogged(e)'
  BY <1>1, <1>6 DEF IsLogged, Sent
<1>7. llm.at = "reported" => came = IF llm.result.ok THEN "ok" ELSE "error"
  BY <1>2 DEF Came
<1>8. IsLogged(r)'
  <2>1. ASSUME NEW s \in Queued, s.call = llm.call
        PROVE  came # "nothing" /\ s.attributes["level"] = Level(came)
    <3>1. llm.at = "reported" /\ Tells(s, llm)
      BY <2>1 DEF ReportInv, SpansInv
    <3> QED
      BY <1>7, <3>1 DEF Tells
  <2>2. outcome = "returned" /\ open => Sent(llm.call, Level(came))
    BY <1>2, <1>7 DEF ReportInv
  <2> QED
    BY <1>1, <1>3, <2>1, <2>2 DEF IsLogged, Sent
<1> QED
  BY <1>1, <1>4, <1>5, <1>6, <1>8 DEF ReportInv

(* What the exporter takes, or sends.                                      *)
LEMMA SpanTaken ==
  ASSUME ReportInv, llm.at = "answered", Report
  PROVE  ReportInv'
<1> DEFINE span == IF llm.result.ok
                   THEN Span(llm.call, llm.request, GenerationAttributes(llm.request, llm.result.response, Settings))
                   ELSE Span(llm.call, llm.request, ErrorAttributes(llm.request, llm.result.error, Settings))
           level == Level(IF llm.result.ok THEN "ok" ELSE "error")
<1>1. /\ exporter' = Emit(exporter, span) /\ llm' = [llm EXCEPT !.at = "reported", !.open = exporter.open]
      /\ UNCHANGED llmLog
  BY DEF Report, OnResponse, OnError
<1>2. span.call = llm.call /\ span.attributes["level"] = level
  BY DEF Span, GenerationAttributes, ErrorAttributes, With, Level
<1> HIDE DEF span
<1>3. /\ IsCall(llm') /\ llm'.call = llm.call /\ llm'.at = "reported" /\ llm'.result = llm.result
      /\ llm'.open = exporter.open /\ llm.call \in Nat
  BY <1>1 DEF ReportInv, IsCall
<1>4. CASE exporter.open
  <2>1. /\ exporter'.queue = Append(exporter.queue, span) /\ exporter'.exported = exporter.exported
        /\ exporter' = [open |-> exporter.open, queue |-> Append(exporter.queue, span), exported |-> exporter.exported]
    BY <1>1, <1>4 DEF Emit, ReportInv, SpansInv, IsExporter
  <2>2. exporter'.queue \in Seq(ToSet(exporter'.queue)) /\ ToSet(exporter'.queue) = ToSet(exporter.queue) \cup {span}
    BY <2>1, Appended DEF ReportInv, SpansInv, IsExporter
  <2>3. Queued' = Queued \cup {span}
    BY <2>1, <2>2 DEF Queued
  <2>4. IsExporter(exporter')
    BY <1>4, <2>1, <2>2 DEF IsExporter
  <2>5. \A s \in Queued : s.call \in Nat /\ s.call <= llm.call /\ s.call # llm.call
    BY DEF ReportInv, SpansInv
  <2>6. Tells(span, llm')
    BY <1>2, <1>3 DEF Tells
  <2>7. SpansInv'
    BY <1>2, <1>3, <2>3, <2>4, <2>5, <2>6 DEF ReportInv, SpansInv
  <2>8. Sent(llm.call, level)'
    BY <1>2, <2>3, <1>3 DEF Sent
  <2>9. ASSUME NEW r, IsLogged(r) PROVE IsLogged(r)'
    BY <1>2, <1>3, <2>3, <2>9 DEF IsLogged, Sent
  <2> QED
    BY <1>1, <1>3, <2>7, <2>8, <2>9 DEF ReportInv
<1>5. CASE ~exporter.open
  <2>1. exporter' = exporter
    BY <1>1, <1>5 DEF Emit
  <2>2. Queued' = Queued
    BY <2>1 DEF Queued
  <2>3. SpansInv'
    BY <1>3, <2>1, <2>2 DEF ReportInv, SpansInv
  <2>4. ASSUME NEW r, IsLogged(r) PROVE IsLogged(r)'
    BY <1>3, <2>2, <2>4 DEF IsLogged, Sent
  <2> QED
    BY <1>1, <1>3, <1>5, <2>3, <2>4 DEF ReportInv
<1> QED
  BY <1>4, <1>5

(* A flush exports what is queued, and a shutdown leaves nothing behind.   *)
LEMMA SpansFlushed ==
  ASSUME ReportInv, UNCHANGED <<llm, llmLog>>, exporter' = Flush(exporter) \/ exporter' = Shutdown(exporter)
  PROVE  ReportInv'
<1>1. /\ exporter'.queue = <<>> /\ exporter'.exported = exporter.exported \cup ToSet(exporter.queue)
      /\ exporter' = [open |-> exporter'.open, queue |-> exporter'.queue, exported |-> exporter'.exported]
      /\ exporter'.open \in BOOLEAN
  BY DEF Flush, Shutdown, ReportInv, SpansInv, IsExporter
<1>2. ToSet(<<>>) = {} /\ <<>> \in Seq(ToSet(<<>>))
  BY DEF ToSet
<1>3. Queued' = Queued /\ IsExporter(exporter')
  BY <1>1, <1>2 DEF Queued, IsExporter
<1>4. SpansInv'
  BY <1>3 DEF ReportInv, SpansInv
<1>5. ASSUME NEW r, IsLogged(r) PROVE IsLogged(r)'
  BY <1>3, <1>5 DEF IsLogged, Sent
<1>6. \A call, level : Sent(call, level) => Sent(call, level)'
  BY <1>3 DEF Sent
<1> QED
  BY <1>1, <1>4, <1>5, <1>6 DEF ReportInv

(* The initial states satisfy it.                                          *)
LEMMA InitReport == ClientInit => ReportInv
<1> SUFFICES ASSUME ClientInit PROVE ReportInv
  OBVIOUS
<1>1. ToSet(<<>>) = {} /\ <<>> \in Seq(ToSet(<<>>))
  BY DEF ToSet
<1>2. Queued = {} /\ IsExporter(exporter)
  BY <1>1 DEF ClientInit, NewExporter, Queued, IsExporter
<1>3. IsCall(llm) /\ llm.at = "idle" /\ llmLog = <<>>
  BY DEF ClientInit, NoCall, IsCall
<1> QED
  BY <1>1, <1>2, <1>3 DEF ReportInv, SpansInv

(* Every step keeps it.                                                    *)
LEMMA StepReport == ReportInv /\ [ClientNext]_llmVars => ReportInv'
<1> SUFFICES ASSUME ReportInv, [ClientNext]_llmVars PROVE ReportInv'
  OBVIOUS
<1>0. IsCall(llm)
  BY DEF ReportInv
<1>1. ASSUME NEW kind, NEW request, NEW answer, Begin(kind, request, answer) PROVE ReportInv'
  <2>1. IsCall(llm') /\ llm'.at = "sent" /\ llm'.call = llm.call + 1
    BY <1>0, <1>1 DEF Begin, IsCall
  <2> QED
    BY <1>1, <2>1, CallMoves DEF Begin
<1>2. ASSUME NEW result, Answered(result) PROVE ReportInv'
  <2>1. IsCall(llm') /\ llm'.at = "answered" /\ llm'.call = llm.call /\ llm.at = "sent"
    BY <1>0, <1>2 DEF Answered, IsCall
  <2> QED
    BY <1>2, <2>1, CallMoves DEF Answered
<1>3. CASE Report
  BY <1>3, SpanTaken DEF Report
<1>4. CASE ReturnResult
  BY <1>4, CallEnds DEF ReturnResult
<1>5. CASE Cancel
  <2>1. CASE llm.method = "complete"
    BY <1>5, <2>1, CallEnds DEF Cancel
  <2>2. CASE llm.method # "complete"
    <3>1. IsCall(llm') /\ llm'.at = "idle" /\ llm'.call = llm.call
      BY <1>0, <1>5 DEF Cancel, Idle, NoCall, IsCall
    <3> QED
      BY <1>5, <2>2, <3>1, CallMoves DEF Cancel
  <2> QED
    BY <2>1, <2>2
<1>6. CASE ExportBatch \/ ShutdownExporter
  BY <1>6, SpansFlushed DEF ExportBatch, ShutdownExporter
<1>7. CASE StreamFails \/ DropStream
  <2>1. IsCall(llm') /\ llm'.at = "idle" /\ llm'.call = llm.call
    BY <1>0, <1>7 DEF StreamFails, DropStream, Idle, NoCall, IsCall
  <2> QED
    BY <1>7, <2>1, CallMoves DEF StreamFails, DropStream
<1>8. CASE OpenStream
  <2>1. IsCall(llm') /\ llm'.at = "streaming" /\ llm'.call = llm.call
    BY <1>0, <1>8 DEF OpenStream, IsCall
  <2> QED
    BY <1>8, <2>1, CallMoves DEF OpenStream
<1>9. ASSUME UNCHANGED <<llm, llmLog, exporter>> PROVE ReportInv'
  <2>1. Queued' = Queued
    BY <1>9 DEF Queued
  <2>2. SpansInv' /\ \A call, level : Sent(call, level) => Sent(call, level)'
    BY <1>9, <2>1 DEF ReportInv, SpansInv, Sent
  <2>3. ASSUME NEW r, IsLogged(r) PROVE IsLogged(r)'
    BY <1>9, <2>1, <2>3 DEF IsLogged, Sent
  <2> QED
    BY <1>9, <2>2, <2>3 DEF ReportInv
<1>10. CASE Reading \/ Take
  <2>1. UNCHANGED <<llm, llmLog, exporter>>
    BY <1>10, Zenon DEF Reading, ReadChunk, ParseLine, Send, Eof, Break, Ending, Take
  <2> QED
    BY <1>9, <2>1
<1>11. CASE UNCHANGED llmVars
  BY <1>9, <1>11 DEF llmVars
<1> QED
  BY <1>1, <1>2, <1>3, <1>4, <1>5, <1>6, <1>7, <1>8, <1>10, <1>11, Zenon DEF ClientNext

(* A call of complete that returns is reported once with what came of it,  *)
(* whenever the exporter sends and is shut down, and the shutdown exports  *)
(* the span; one that is dropped is not reported as what it did not come   *)
(* to.                                                                     *)
THEOREM CompletionsReported == ClientSpec => []CallsReported
<1>1. ReportInv => CallsReported
  <2> SUFFICES ASSUME ReportInv PROVE CallsReported
    OBVIOUS
  <2>1. Spans = Queued
    <3>1. ToSet(<<>>) = {}
      BY DEF ToSet
    <3> QED
      BY <3>1 DEF ReportInv, SpansInv, IsExporter, Spans, Queued
  <2>2. \A k \in DOMAIN llmLog : IsLogged(llmLog[k])
    BY DEF ReportInv, ToSet
  <2>3. \A s, t \in Spans : s.call = t.call => s = t
    BY <2>1 DEF ReportInv, SpansInv
  <2> QED
    BY <2>1, <2>2, <2>3 DEF CallsReported, Reported, IsLogged, Sent
<1> QED
  BY <1>1, InitReport, StepReport, PTL DEF ClientSpec

----------------------------------------------------------------------------
(* Streams: what is asked for.                                             *)

(* The key that one body over another has, and a body with one key.        *)
LEMMA OverIs ==
  ASSUME NEW f, NEW g, NEW key
  PROVE  /\ key \in DOMAIN (f ++ g) <=> key \in DOMAIN f \/ key \in DOMAIN g
         /\ key \in DOMAIN f => (f ++ g)[key] = f[key]
         /\ key \notin DOMAIN f /\ key \in DOMAIN g => (f ++ g)[key] = g[key]
BY DEF ++

(* Keys left out are no keys of the body, keys given have their value.     *)
LEMMA KeyIs ==
  ASSUME NEW key, NEW value
  PROVE  /\ DOMAIN Only(key, value) = {key} /\ Only(key, value)[key] = value
         /\ DOMAIN Key(key, value) = IF value = None THEN {} ELSE {key}
         /\ value # None => Key(key, value)[key] = value
BY DEF Only, Key

(* Two bodies that say the same of a key.                                  *)
Same(f, g, key) ==
  /\ key \in DOMAIN f <=> key \in DOMAIN g
  /\ key \in DOMAIN f => f[key] = g[key]

(* They do so still over and under a third, and beside what lacks the key. *)
LEMMA SameOver ==
  ASSUME NEW f, NEW g, NEW h, NEW key, Same(f, g, key)
  PROVE  Same(f ++ h, g ++ h, key) /\ Same(h ++ f, h ++ g, key)
BY OverIs DEF Same

(* What lacks the key changes nothing of it.                               *)
LEMMA SameBeside ==
  ASSUME NEW f, NEW g, NEW h, NEW key, Same(f, g, key), key \notin DOMAIN h
  PROVE  Same(f ++ h, g, key) /\ Same(f, g ++ h, key)
BY OverIs DEF Same

(* The body of a stream and that of complete: the one asks for a stream,   *)
(* the other does not, and they agree on the keys of neither alone.        *)
AsksAlike(streamed, complete, left) ==
  /\ "stream" \in DOMAIN streamed /\ streamed["stream"]
  /\ "stream" \notin DOMAIN complete
  /\ \A key : key \notin left \cup {"stream"} => Same(streamed, complete, key)

(* A key may be reasoning's or not, whatever its value.                    *)
LEMMA ReasoningKeys ==
  ASSUME NEW config
  PROVE  DOMAIN OpenAiReasoning(config) \subseteq {"reasoning_effort", "reasoning"}
<1>1. PICK e : e = Or(config, ReasoningConfig).effort
  OBVIOUS
<1>2. PICK obj : obj = Key("enabled", Or(config, ReasoningConfig).enabled) ++ Key("summary", Or(config, ReasoningConfig).summary)
  OBVIOUS
<1>3. PICK r1 : r1 = Key("reasoning_effort", e) 
  OBVIOUS
<1>4. PICK r2 : r2 = IF obj = <<>> THEN <<>> ELSE Only("reasoning", obj)
  OBVIOUS
<1>5. OpenAiReasoning(config) = r1 ++ r2
  BY <1>1, <1>2, <1>3, <1>4 DEF OpenAiReasoning
<1>6. DOMAIN r1 \subseteq {"reasoning_effort"}
  BY <1>3, KeyIs
<1>7. DOMAIN r2 \subseteq {"reasoning"}
  <2>1. CASE obj = <<>>
    BY <1>4, <2>1
  <2>2. CASE obj # <<>>
    BY <1>4, <2>2, KeyIs
  <2> QED
    BY <2>1, <2>2
<1>8. DOMAIN (r1 ++ r2) = DOMAIN r1 \cup DOMAIN r2
  BY OverIs
<1> QED
  BY <1>5, <1>6, <1>7, <1>8

(* OpenAI is asked alike but for tools and a format,                       *)
LEMMA OpenAiBodies ==
  ASSUME NEW request, "stream" \notin DOMAIN request.extra_body
  PROVE  AsksAlike(OpenAiStreamBody(request, "own"), OpenAiCompleteBody(request, "own"), {"tools", "response_format"})
<1>1. PICK s1 : s1 = Only("model", Or(request.model, "own")) /\ DOMAIN s1 = {"model"}
  BY KeyIs
<1>2. PICK s2 : s2 = Only("messages", OpenAiMessages(request)) /\ DOMAIN s2 = {"messages"}
  BY KeyIs
<1>3. PICK s3 : s3 = Only("temperature", Or(request.temperature, 7)) /\ DOMAIN s3 = {"temperature"}
  BY KeyIs
<1>4. PICK s4 : s4 = Key("max_tokens", request.max_tokens) /\ DOMAIN s4 \subseteq {"max_tokens"}
  BY KeyIs
<1>5. PICK t : t = Key("tools", Tools(request)) /\ DOMAIN t \subseteq {"tools"}
  BY KeyIs
<1>6. PICK f : f = Key("response_format", OpenAiResponseFormat(request.response_format)) /\ DOMAIN f \subseteq {"response_format"}
  BY KeyIs
<1>7. PICK o : o = Only("stream", TRUE) /\ DOMAIN o = {"stream"}
  BY KeyIs
<1>8. PICK r : r = OpenAiReasoning(request.reasoning) /\ DOMAIN r \subseteq {"reasoning_effort", "reasoning"}
  BY ReasoningKeys
<1>9. PICK v : v = Key("verbosity", request.verbosity) /\ DOMAIN v \subseteq {"verbosity"}
  BY KeyIs
<1>10. PICK x : x = request.extra_body /\ "stream" \notin DOMAIN x
  OBVIOUS
<1>11. PICK s : s = s1 ++ s2 ++ s3 ++ s4
  OBVIOUS
<1>12. OpenAiStreamBody(request, "own") = x ++ (((s ++ o) ++ r) ++ v)
  BY <1>1, <1>2, <1>3, <1>4, <1>7, <1>8, <1>9, <1>10, <1>11 DEF OpenAiStreamBody, BodyWithExtra
<1>13. OpenAiCompleteBody(request, "own") = x ++ ((((s ++ t) ++ f) ++ r) ++ v)
  BY <1>1, <1>2, <1>3, <1>4, <1>5, <1>6, <1>8, <1>9, <1>10, <1>11 DEF OpenAiCompleteBody, BodyWithExtra
<1>14. "stream" \notin DOMAIN s
  BY <1>1, <1>2, <1>3, <1>4, <1>11, OverIs
<1>15. "stream" \in DOMAIN (x ++ (((s ++ o) ++ r) ++ v)) /\ (x ++ (((s ++ o) ++ r) ++ v))["stream"] = TRUE
  <2>1. "stream" \in DOMAIN (s ++ o) /\ (s ++ o)["stream"] = TRUE
    <3>1. "stream" \in DOMAIN (s ++ o)
      BY <1>7, <1>14, OverIs
    <3>2. (s ++ o)["stream"] = o["stream"]
      <4>1. "stream" \in DOMAIN o
        BY <1>7
      <4>2. \A key : key \notin DOMAIN s /\ key \in DOMAIN o => (s ++ o)[key] = o[key]
        BY OverIs
      <4> QED
        BY <1>14, <4>1, <4>2
    <3>3. o["stream"] = TRUE
      BY <1>7, KeyIs
    <3> QED
      BY <3>1, <3>2, <3>3
  <2>2. "stream" \in DOMAIN ((s ++ o) ++ r) /\ ((s ++ o) ++ r)["stream"] = TRUE
    BY <2>1, OverIs
  <2>3. "stream" \in DOMAIN (((s ++ o) ++ r) ++ v) /\ (((s ++ o) ++ r) ++ v)["stream"] = TRUE
    BY <2>2, OverIs
  <2> QED
    BY <1>10, <2>3, OverIs
<1>16. "stream" \notin DOMAIN (x ++ ((((s ++ t) ++ f) ++ r) ++ v))
  BY <1>5, <1>6, <1>8, <1>9, <1>10, <1>14, OverIs
<1>17. ASSUME NEW key, key \notin {"tools", "response_format"} \cup {"stream"}
       PROVE Same(x ++ (((s ++ o) ++ r) ++ v), x ++ ((((s ++ t) ++ f) ++ r) ++ v), key)
  <2>1. key \notin DOMAIN o /\ key \notin DOMAIN t /\ key \notin DOMAIN f
    BY <1>5, <1>6, <1>7, <1>17
  <2>2. Same(s, s, key)
    BY DEF Same
  <2>3. Same(s ++ o, s, key)
    BY <2>1, <2>2, SameBeside
  <2>4. Same(s ++ o, s ++ t, key)
    BY <2>1, <2>3, SameBeside
  <2>5. Same(s ++ o, (s ++ t) ++ f, key)
    BY <2>1, <2>4, SameBeside
  <2>6. Same((s ++ o) ++ r, ((s ++ t) ++ f) ++ r, key)
    BY <2>5, SameOver
  <2>7. Same(((s ++ o) ++ r) ++ v, (((s ++ t) ++ f) ++ r) ++ v, key)
    BY <2>6, SameOver
  <2> QED
    BY <2>7, SameOver
<1> QED
  BY <1>12, <1>13, <1>15, <1>16, <1>17 DEF AsksAlike

(* An output_config is one key at most.                                    *)
LEMMA OutputConfigKeys ==
  ASSUME NEW format, NEW config
  PROVE  DOMAIN AnthropicOutputConfig(format, config) \subseteq {"output_config"}
<1>1. PICK obj : obj = Key("format", IF format = "json_schema" THEN format ELSE None)
                       ++ Key("effort", Or(config, ReasoningConfig).effort)
  OBVIOUS
<1>2. AnthropicOutputConfig(format, config) = IF obj = <<>> THEN <<>> ELSE Only("output_config", obj)
  BY <1>1 DEF AnthropicOutputConfig
<1>3. CASE obj = <<>>
  BY <1>2, <1>3
<1>4. CASE obj # <<>>
  <2>1. AnthropicOutputConfig(format, config) = Only("output_config", obj)
    BY <1>2, <1>4
  <2>2. DOMAIN Only("output_config", obj) = {"output_config"}
    BY KeyIs
  <2> QED
    BY <2>1, <2>2
<1> QED
  BY <1>3, <1>4

(* The effort that is asked for is the caller's, whatever the format.      *)
LEMMA EffortIs ==
  ASSUME NEW f, NEW format, NEW config, "output_config" \notin DOMAIN f
  PROVE  Effort(f ++ AnthropicOutputConfig(format, config)) = Or(config, ReasoningConfig).effort
<1>1. PICK e : e = Or(config, ReasoningConfig).effort
  OBVIOUS
<1>2. PICK s : s = IF format = "json_schema" THEN format ELSE None
  OBVIOUS
<1>3. PICK a : a = Key("format", s) /\ DOMAIN a \subseteq {"format"}
  BY KeyIs
<1>4. PICK b : b = Key("effort", e) /\ DOMAIN b = (IF e = None THEN {} ELSE {"effort"}) /\ (e # None => b["effort"] = e)
  BY KeyIs
<1>5. PICK obj : obj = a ++ b
  OBVIOUS
<1>6. PICK c : c = IF obj = <<>> THEN <<>> ELSE Only("output_config", obj)
  OBVIOUS
<1>7. AnthropicOutputConfig(format, config) = c
  BY <1>1, <1>2, <1>3, <1>4, <1>5, <1>6 DEF AnthropicOutputConfig
<1>8. "effort" \notin DOMAIN a
  BY <1>3
<1>9. CASE e = None
  <2>1. "effort" \notin DOMAIN obj
    BY <1>4, <1>5, <1>8, <1>9, OverIs
  <2>2. CASE obj = <<>>
    <3>1. "output_config" \notin DOMAIN c
      BY <1>6, <2>2
    <3>2. "output_config" \notin DOMAIN (f ++ c)
      BY <3>1, OverIs
    <3> QED
      BY <1>1, <1>7, <1>9, <3>2 DEF Effort
  <2>3. CASE obj # <<>>
    <3>1. "output_config" \in DOMAIN c /\ c["output_config"] = obj
      <4>1. c = Only("output_config", obj)
        BY <1>6, <2>3
      <4> QED
        BY <4>1, KeyIs
    <3>2. (f ++ c)["output_config"] = obj
      BY <3>1, OverIs
    <3> QED
      BY <1>1, <1>7, <1>9, <2>1, <3>2 DEF Effort
  <2> QED
    BY <2>2, <2>3
<1>10. CASE e # None
  <2>1. "effort" \in DOMAIN b /\ b["effort"] = e
    BY <1>4, <1>10
  <2>2. "effort" \in DOMAIN obj
    BY <1>5, <2>1, OverIs
  <2>3. obj["effort"] = e
    <3>1. \A key : key \notin DOMAIN a /\ key \in DOMAIN b => (a ++ b)[key] = b[key]
      BY OverIs
    <3> QED
      BY <1>5, <1>8, <2>1, <3>1
  <2>4. obj # <<>>
    BY <2>2
  <2>5. "output_config" \in DOMAIN c /\ c["output_config"] = obj
    <3>1. c = Only("output_config", obj)
      BY <1>6, <2>4
    <3> QED
      BY <3>1, KeyIs
  <2>6. "output_config" \in DOMAIN (f ++ c) /\ (f ++ c)["output_config"] = obj
    BY <2>5, OverIs
  <2> QED
    BY <1>1, <1>7, <2>2, <2>3, <2>6 DEF Effort
<1> QED
  BY <1>9, <1>10

(* It is extra_body's if that has one, and else that of the body.          *)
LEMMA ExtraEffort ==
  ASSUME NEW x, NEW f, NEW g, Effort(f) = Effort(g)
  PROVE  Effort(x ++ f) = Effort(x ++ g)
<1>1. CASE "output_config" \in DOMAIN x
  BY <1>1, OverIs DEF Effort
<1>2. CASE "output_config" \notin DOMAIN x
  <2>1. ASSUME NEW h PROVE Effort(x ++ h) = Effort(h)
    BY <1>2, OverIs DEF Effort
  <2> QED
    BY <2>1
<1> QED
  BY <1>1, <1>2

(* Anthropic is asked alike but for tools and the format.                  *)
LEMMA AnthropicBodies ==
  ASSUME NEW request, "stream" \notin DOMAIN request.extra_body
  PROVE  /\ AsksAlike(AnthropicStreamBody(request, "own"), AnthropicCompleteBody(request, "own"), {"tools", "output_config"})
         /\ Effort(AnthropicStreamBody(request, "own")) = Effort(AnthropicCompleteBody(request, "own"))
<1>1. PICK s1 : s1 = Only("model", Or(request.model, "own")) /\ DOMAIN s1 = {"model"}
  BY KeyIs
<1>2. PICK s2 : s2 = Only("max_tokens", Or(request.max_tokens, 4096)) /\ DOMAIN s2 = {"max_tokens"}
  <2>1. PICK most : most = Or(request.max_tokens, 4096)
    OBVIOUS
  <2>2. DOMAIN Only("max_tokens", most) = {"max_tokens"}
    BY KeyIs
  <2> QED
    BY <2>1, <2>2
<1>3. PICK s3 : s3 = Key("temperature", request.temperature) /\ DOMAIN s3 \subseteq {"temperature"}
  BY KeyIs
<1>4. PICK s4 : s4 = Key("system", request.system) /\ DOMAIN s4 \subseteq {"system"}
  BY KeyIs
<1>5. PICK s5 : s5 = Only("messages", AnthropicMessages(request)) /\ DOMAIN s5 = {"messages"}
  BY KeyIs
<1>6. PICK t : t = Key("tools", Tools(request)) /\ DOMAIN t \subseteq {"tools"}
  BY KeyIs
<1>7. PICK o : o = Only("stream", TRUE) /\ DOMAIN o = {"stream"}
  BY KeyIs
<1>8. PICK c : c = AnthropicOutputConfig(None, request.reasoning) /\ DOMAIN c \subseteq {"output_config"}
  BY OutputConfigKeys
<1>9. PICK d : d = AnthropicOutputConfig(request.response_format, request.reasoning) /\ DOMAIN d \subseteq {"output_config"}
  BY OutputConfigKeys
<1>10. PICK x : x = request.extra_body /\ "stream" \notin DOMAIN x
  OBVIOUS
<1>11. PICK s : s = s1 ++ s2 ++ s3 ++ s4 ++ s5
  OBVIOUS
<1>12. AnthropicStreamBody(request, "own") = x ++ ((s ++ o) ++ c)
  BY <1>1, <1>2, <1>3, <1>4, <1>5, <1>7, <1>8, <1>10, <1>11 DEF AnthropicStreamBody, BodyWithExtra
<1>13. AnthropicCompleteBody(request, "own") = x ++ ((s ++ t) ++ d)
  BY <1>1, <1>2, <1>3, <1>4, <1>5, <1>6, <1>9, <1>10, <1>11 DEF AnthropicCompleteBody, BodyWithExtra
<1>14. DOMAIN s \subseteq {"model", "max_tokens", "temperature", "system", "messages"}
  BY <1>1, <1>2, <1>3, <1>4, <1>5, <1>11, OverIs
<1>15. "stream" \in DOMAIN (x ++ ((s ++ o) ++ c)) /\ (x ++ ((s ++ o) ++ c))["stream"] = TRUE
  <2>1. "stream" \in DOMAIN (s ++ o) /\ (s ++ o)["stream"] = TRUE
    <3>1. "stream" \in DOMAIN o /\ "stream" \notin DOMAIN s
      BY <1>7, <1>14
    <3>2. \A key : key \notin DOMAIN s /\ key \in DOMAIN o => (s ++ o)[key] = o[key]
      BY OverIs
    <3>3. o["stream"] = TRUE
      BY <1>7, KeyIs
    <3>4. "stream" \in DOMAIN (s ++ o)
      BY <3>1, OverIs
    <3> QED
      BY <3>1, <3>2, <3>3, <3>4
  <2>2. "stream" \in DOMAIN ((s ++ o) ++ c) /\ ((s ++ o) ++ c)["stream"] = TRUE
    BY <2>1, OverIs
  <2> QED
    BY <1>10, <2>2, OverIs
<1>16. "stream" \notin DOMAIN (x ++ ((s ++ t) ++ d))
  BY <1>6, <1>9, <1>10, <1>14, OverIs
<1>17. ASSUME NEW key, key \notin {"tools", "output_config"} \cup {"stream"}
       PROVE Same(x ++ ((s ++ o) ++ c), x ++ ((s ++ t) ++ d), key)
  <2>1. key \notin DOMAIN o /\ key \notin DOMAIN t /\ key \notin DOMAIN c /\ key \notin DOMAIN d
    BY <1>6, <1>7, <1>8, <1>9, <1>17
  <2>2. Same(s, s, key)
    BY DEF Same
  <2>3. Same(s ++ o, s, key)
    BY <2>1, <2>2, SameBeside
  <2>4. Same(s ++ o, s ++ t, key)
    BY <2>1, <2>3, SameBeside
  <2>5. Same((s ++ o) ++ c, s ++ t, key)
    BY <2>1, <2>4, SameBeside
  <2>6. Same((s ++ o) ++ c, (s ++ t) ++ d, key)
    BY <2>1, <2>5, SameBeside
  <2> QED
    BY <2>6, SameOver
<1>18. Effort(x ++ ((s ++ o) ++ c)) = Effort(x ++ ((s ++ t) ++ d))
  <2>1. "output_config" \notin DOMAIN (s ++ o) /\ "output_config" \notin DOMAIN (s ++ t)
    <3>1. "output_config" \notin DOMAIN s /\ "output_config" \notin DOMAIN o /\ "output_config" \notin DOMAIN t
      BY <1>6, <1>7, <1>14
    <3> QED
      BY <3>1, OverIs
  <2>2. Effort((s ++ o) ++ c) = Or(request.reasoning, ReasoningConfig).effort
    BY <1>8, <2>1, EffortIs
  <2>3. Effort((s ++ t) ++ d) = Or(request.reasoning, ReasoningConfig).effort
    BY <1>9, <2>1, EffortIs
  <2> QED
    BY <2>2, <2>3, ExtraEffort
<1> QED
  BY <1>12, <1>13, <1>15, <1>16, <1>17, <1>18 DEF AsksAlike

(* What StreamMatchesComplete says of the two bodies of a request.         *)
BodiesMatch(provider, request) ==
  LET streamed == Body(provider, "stream", request)
      complete == Body(provider, "complete", request)
      kept == DOMAIN complete \ Unstreamed
  IN /\ streamed["stream"] /\ kept \subseteq DOMAIN streamed
     /\ \A key \in kept : streamed[key] = complete[key]
     /\ Effort(streamed) = Effort(complete)

(* Bodies that ask alike match;                                            *)
LEMMA AlikeBodies ==
  ASSUME NEW streamed, NEW complete, NEW left, left \subseteq Unstreamed, AsksAlike(streamed, complete, left)
  PROVE  /\ streamed["stream"] /\ DOMAIN complete \ Unstreamed \subseteq DOMAIN streamed
         /\ \A key \in DOMAIN complete \ Unstreamed : streamed[key] = complete[key]
BY DEF AsksAlike, Same

(* those of any request do.                                                *)
LEMMA BodiesAgree ==
  ASSUME NEW request \in Requests, NEW provider \in {"openai", "anthropic"}
  PROVE  BodiesMatch(provider, request)
<1>1. "stream" \notin DOMAIN request.extra_body
  BY StreamAssumption
<1>2. CASE provider = "openai"
  <2>1. PICK streamed, complete : streamed = OpenAiStreamBody(request, "own") /\ complete = OpenAiCompleteBody(request, "own")
    OBVIOUS
  <2>2. AsksAlike(streamed, complete, {"tools", "response_format"})
    BY <1>1, <2>1, OpenAiBodies
  <2>3. Same(streamed, complete, "output_config")
    BY <2>2 DEF AsksAlike
  <2>4. Effort(streamed) = Effort(complete)
    BY <2>3 DEF Same, Effort
  <2>5. {"tools", "response_format"} \subseteq Unstreamed
    BY DEF Unstreamed
  <2>6. /\ streamed["stream"] /\ DOMAIN complete \ Unstreamed \subseteq DOMAIN streamed
        /\ \A key \in DOMAIN complete \ Unstreamed : streamed[key] = complete[key]
    BY <2>2, <2>5, AlikeBodies
  <2>7. Body(provider, "stream", request) = streamed /\ Body(provider, "complete", request) = complete
    BY <1>2, <2>1 DEF Body
  <2> QED
    BY <2>4, <2>6, <2>7 DEF BodiesMatch
<1>3. CASE provider = "anthropic"
  <2>1. PICK streamed, complete : streamed = AnthropicStreamBody(request, "own") /\ complete = AnthropicCompleteBody(request, "own")
    OBVIOUS
  <2>2. AsksAlike(streamed, complete, {"tools", "output_config"}) /\ Effort(streamed) = Effort(complete)
    BY <1>1, <2>1, AnthropicBodies
  <2>3. {"tools", "output_config"} \subseteq Unstreamed
    BY DEF Unstreamed
  <2>4. /\ streamed["stream"] /\ DOMAIN complete \ Unstreamed \subseteq DOMAIN streamed
        /\ \A key \in DOMAIN complete \ Unstreamed : streamed[key] = complete[key]
    BY <2>2, <2>3, AlikeBodies
  <2>5. Body(provider, "stream", request) = streamed /\ Body(provider, "complete", request) = complete
    BY <1>3, <2>1 DEF Body
  <2> QED
    BY <2>2, <2>4, <2>5 DEF BodiesMatch
<1> QED
  BY <1>2, <1>3

----------------------------------------------------------------------------
(* What the lines of an answer are read as.                                *)

(* Events none of which is the error that the reader itself reports.       *)
Quiet(s, S) == s \in Seq(S) /\ \A e \in S : e.type # "error"

(* An event of a line is never the error the reader itself reports.        *)
LEMMA LineEvents ==
  ASSUME NEW provider, NEW event, NEW line
  PROVE  /\ \E S : Line(provider, event, line).events \in Seq(S) /\ \A e \in S : e # StreamError
         /\ Line(provider, event, line).event \in {event, None, line.name}
<1> DEFINE Told(s) == \E S : Quiet(s, S)
<1>1. Told(<<>>)
  <2>1. Quiet(<<>>, {})
    BY DEF Quiet
  <2> QED
    BY <2>1
<1>2. ASSUME NEW e, e.type # "error" PROVE Told(<<e>>)
  <2>1. Quiet(<<e>>, {e})
    BY <1>2 DEF Quiet
  <2> QED
    BY <2>1
<1>3. ASSUME NEW s, NEW t, Told(s), Told(t) PROVE Told(s \o t)
  <2>1. PICK S : Quiet(s, S)
    BY <1>3
  <2>2. PICK T : Quiet(t, T)
    BY <1>3
  <2>3. s \in Seq(S \cup T) /\ t \in Seq(S \cup T)
    BY <2>1, <2>2 DEF Quiet
  <2>4. s \o t \in Seq(S \cup T)
    BY <2>3, ConcatProperties
  <2>5. Quiet(s \o t, S \cup T)
    BY <2>1, <2>2, <2>4 DEF Quiet
  <2> QED
    BY <2>5
<1>4. /\ \A type, text : Text(type, text).type = type
      /\ \A usage : Usage(usage).type = "usage" /\ AnthropicUsage(usage).type = "usage"
      /\ \A reason : Stopped(reason).type = "stopped"
      /\ Done.type = "done" /\ StreamError.type = "error"
  BY DEF Text, Usage, AnthropicUsage, Stopped, Done, StreamError
<1> HIDE DEF Told
<1>5. ASSUME NEW json PROVE Told(ParseOpenAiSse(json))
  <2>1. ParseOpenAiSse(json) \in {<<>>, <<Text("reasoning", json.delta.reasoning)>>, <<Text("delta", json.delta.content)>>,
                                  <<Usage(json.usage)>>, <<Done>>}
    BY DEF ParseOpenAiSse
  <2>2. Told(<<Text("reasoning", json.delta.reasoning)>>) /\ Told(<<Text("delta", json.delta.content)>>)
    BY <1>2, <1>4
  <2>3. Told(<<Usage(json.usage)>>) /\ Told(<<Done>>)
    BY <1>2, <1>4
  <2> QED
    BY <1>1, <2>1, <2>2, <2>3
<1>6. ASSUME NEW json PROVE Told(MessageDelta(json))
  <2>1. Told(IF json.stop = None THEN <<>> ELSE <<Stopped(json.stop)>>)
    BY <1>1, <1>2, <1>4
  <2>2. Told(IF json.usage = None \/ json.usage.completion = None THEN <<Done>> ELSE <<AnthropicUsage(json.usage)>>)
    BY <1>1, <1>2, <1>4
  <2> QED
    BY <1>3, <2>1, <2>2 DEF MessageDelta
<1>7. ASSUME NEW json PROVE Told(ParseAnthropicSse(event, json))
  <2>1. Told(IF json.usage = None THEN <<>> ELSE <<AnthropicUsage(json.usage)>>)
    BY <1>1, <1>2, <1>4
  <2>2. Told(IF json.delta = None \/ Missing(json.delta.text) THEN <<>>
             ELSE <<Text(IF json.delta.type = "thinking_delta" THEN "reasoning" ELSE "delta", json.delta.text)>>)
    <3>1. PICK type \in {"reasoning", "delta"} : type = IF json.delta.type = "thinking_delta" THEN "reasoning" ELSE "delta"
      OBVIOUS
    <3>2. Told(<<Text(type, json.delta.text)>>)
      BY <1>2, <1>4
    <3> QED
      BY <1>1, <3>1, <3>2
  <2>3. Told(<<Done>>)
    BY <1>2, <1>4
  <2>4. PICK parses : parses = Parses(json)
    OBVIOUS
  <2> QED
    BY <1>1, <1>6, <2>1, <2>2, <2>3, Zenon DEF ParseAnthropicSse
<1>8. /\ Told(OpenAiLine(event, line).events) /\ OpenAiLine(event, line).event = event
  BY <1>1, <1>5 DEF OpenAiLine
<1>9. /\ Told(AnthropicLine(event, line).events) /\ AnthropicLine(event, line).event \in {event, None, line.name}
  <2>1. Told(<<Done>>)
    BY <1>2, <1>4
  <2>2. CASE line.type = "event"
    BY <1>1, <2>2 DEF AnthropicLine
  <2>3. CASE line.type = "done"
    BY <2>1, <2>3 DEF AnthropicLine
  <2>4. CASE line.type = "data"
    BY <1>7, <2>4 DEF AnthropicLine
  <2>5. CASE line.type \notin {"event", "done", "data"}
    BY <1>1, <2>5 DEF AnthropicLine
  <2> QED
    BY <2>2, <2>3, <2>4, <2>5
<1>10. Told(Line(provider, event, line).events) /\ Line(provider, event, line).event \in {event, None, line.name}
  BY <1>8, <1>9 DEF Line
<1>11. PICK S : Line(provider, event, line).events \in Seq(S) /\ \A e \in S : e.type # "error"
  BY <1>10 DEF Told, Quiet
<1>12. \A e \in S : e # StreamError
  BY <1>4, <1>11
<1> QED
  BY <1>10, <1>11, <1>12

(* A recursive function over a line's number is what its equation says.    *)
LEMMA LinesReadIs ==
  ASSUME NEW answer, Len(answer.lines) \in Nat
  PROVE  /\ LinesRead(answer)[0] = [event |-> None, events |-> <<>>]
         /\ \A k \in 1..Len(answer.lines) :
              LinesRead(answer)[k] = Line(answer.provider, LinesRead(answer)[k - 1].event, answer.lines[k])
<1> DEFINE n == Len(answer.lines)
           base == [event |-> None, events |-> <<>>]
           P(h) == h = [k \in 0..n |-> IF k = 0 THEN base ELSE Line(answer.provider, h[k - 1].event, answer.lines[k])]
           read == CHOOSE h : P(h)
<1>0. n \in Nat
  OBVIOUS
<1> HIDE DEF n
<1>10. PICK names : names = [k \in 1..n |-> answer.lines[k].name]
  OBVIOUS
<1>11. PICK E : E = {None} \cup Range(names)
  OBVIOUS
<1>1. None \in E /\ \A k \in 1..n : answer.lines[k].name \in E
  <2>1. DOMAIN names = 1..n /\ \A k \in 1..n : names[k] = answer.lines[k].name
    BY <1>10
  <2>2. \A k \in 1..n : names[k] \in Range(names)
    BY <2>1 DEF Range
  <2> QED
    BY <1>11, <2>1, <2>2
<1>2. PICK V : /\ base \in V /\ \A v \in V : v.event \in E
               /\ \A e \in E : \A k \in 1..n : Line(answer.provider, e, answer.lines[k]) \in V
  <2>1. PICK L : L = [q \in E \X (1..n) |-> Line(answer.provider, q[1], answer.lines[q[2]])]
    OBVIOUS
  <2>2. ASSUME NEW q \in E \X (1..n) PROVE L[q].event \in E
    <3>1. q[1] \in E /\ q[2] \in 1..n /\ L[q] = Line(answer.provider, q[1], answer.lines[q[2]])
      BY <2>1
    <3>2. L[q].event \in {q[1], None, answer.lines[q[2]].name}
      BY <3>1, LineEvents
    <3> QED
      BY <1>1, <3>1, <3>2
  <2>3. base.event \in E
    BY <1>1
  <2>4. ASSUME NEW e \in E, NEW k \in 1..n PROVE <<e, k>> \in E \X (1..n) /\ L[<<e, k>>] = Line(answer.provider, e, answer.lines[k])
    BY <2>1
  <2>5. PICK V : V = {base} \cup Range(L)
    OBVIOUS
  <2> HIDE DEF base
  <2>6. DOMAIN L = E \X (1..n)
    BY <2>1
  <2>7. \A v \in V : v.event \in E
    BY <2>2, <2>3, <2>5, <2>6 DEF Range
  <2>8. ASSUME NEW e \in E, NEW k \in 1..n PROVE Line(answer.provider, e, answer.lines[k]) \in V
    BY <2>4, <2>5, <2>6 DEF Range
  <2> QED
    BY <2>5, <2>7, <2>8
<1> DEFINE op == [q \in (1..n) \X V |-> Line(answer.provider, q[2].event, answer.lines[q[1]])]
<1>9. op \in [(1..n) \X V -> V] /\ base \in V
  <2>1. ASSUME NEW q \in (1..n) \X V PROVE Line(answer.provider, q[2].event, answer.lines[q[1]]) \in V
    BY <1>2
  <2> QED
    BY <1>2, <2>1
<1>3. PICK g \in [SUBSET (1..n) -> V] : Computes(g, n, V, base, op)
  <2> HIDE DEF op, base
  <2> QED
    BY <1>0, <1>9, LeftRecursion
<1>4. PICK p \in [0..n -> V] : Passes(p, n, base, op)
  <2>1. Follows(g, n, V, base, op)
    BY <1>3 DEF Computes, Follows
  <2> HIDE DEF op, base
  <2> QED
    BY <1>0, <1>9, <2>1, LeftFold
<1>5. P(p)
  <2>1. ASSUME NEW k \in 0..n PROVE p[k] = IF k = 0 THEN base ELSE Line(answer.provider, p[k - 1].event, answer.lines[k])
    <3>1. CASE k = 0
      BY <1>4, <3>1 DEF Passes
    <3>2. CASE k # 0
      <4>1. k \in 1..n /\ k - 1 \in 0..n
        BY <1>0, <3>2
      <4>2. p[k] = op[<<k, p[k - 1]>>] /\ p[k - 1] \in V
        BY <1>4, <4>1 DEF Passes
      <4>3. <<k, p[k - 1]>> \in (1..n) \X V
        BY <4>1, <4>2
      <4> QED
        BY <3>2, <4>2, <4>3
    <3> QED
      BY <3>1, <3>2
  <2> HIDE DEF base
  <2> QED
    BY <2>1
<1>6. P(read)
  <2> HIDE DEF P
  <2> QED
    BY <1>5
<1>7. LinesRead(answer) = read
  BY DEF LinesRead, n
<1>8. ASSUME NEW h, P(h)
      PROVE  h[0] = base /\ \A k \in 1..n : h[k] = Line(answer.provider, h[k - 1].event, answer.lines[k])
  <2>1. 0 \in 0..n /\ \A k \in 1..n : k \in 0..n /\ k # 0
    BY <1>0
  <2> HIDE DEF base
  <2> QED
    BY <1>8, <2>1
<1> HIDE DEF P, read, base
<1> QED
  BY <1>6, <1>7, <1>8 DEF n, base

(* The half lines a server sends: two for every line, in its order.        *)
HalvesOf(lines) == FlattenSeq([i \in DOMAIN lines |-> Halves(lines[i])])

HalfLines(S) == [line : S, end : BOOLEAN]

(* The halves of a line,                                                   *)
LEMMA HalvesIs ==
  ASSUME NEW S, NEW line \in S
  PROVE  /\ Halves(line) \in Seq(HalfLines(S)) /\ Len(Halves(line)) = 2
         /\ Halves(line)[1] = [line |-> line, end |-> FALSE] /\ Halves(line)[2] = [line |-> line, end |-> TRUE]
<1>0. \A end \in BOOLEAN : [line |-> line, end |-> end] \in HalfLines(S)
  BY DEF HalfLines
<1>1. PICK a : a = [line |-> line, end |-> FALSE]
  OBVIOUS
<1>2. PICK b : b = [line |-> line, end |-> TRUE]
  OBVIOUS
<1>5. a \in HalfLines(S) /\ b \in HalfLines(S)
  <2>1. FALSE \in BOOLEAN /\ TRUE \in BOOLEAN
    OBVIOUS
  <2> QED
    BY <1>0, <1>1, <1>2, <2>1, Zenon
<1>3. Halves(line) = <<a, b>>
  BY <1>1, <1>2 DEF Halves
<1>4. <<a, b>> \in Seq(HalfLines(S)) /\ Len(<<a, b>>) = 2 /\ <<a, b>>[1] = a /\ <<a, b>>[2] = b
  BY <1>5
<1> QED
  BY <1>1, <1>2, <1>3, <1>4

(* and those of all lines, two for each.                                   *)
LEMMA WireIs ==
  ASSUME NEW S, NEW lines \in Seq(S)
  PROVE  /\ HalvesOf(lines) \in Seq(HalfLines(S)) /\ Len(HalvesOf(lines)) = 2 * Len(lines)
         /\ \A j \in 1..Len(lines) : /\ HalvesOf(lines)[2 * j - 1] = Halves(lines[j])[1]
                                     /\ HalvesOf(lines)[2 * j] = Halves(lines[j])[2]
<1>1. PICK n \in Nat : n = Len(lines) /\ DOMAIN lines = 1..n /\ \A i \in 1..n : lines[i] \in S
  OBVIOUS
<1>2. PICK parts : parts = [i \in DOMAIN lines |-> Halves(lines[i])]
  OBVIOUS
<1>3. PICK T : T = HalfLines(S)
  OBVIOUS
<1>4. /\ parts \in Seq(Seq(T)) /\ Len(parts) = n
      /\ \A i \in 1..n : parts[i] = Halves(lines[i]) /\ parts[i] \in Seq(T) /\ Len(parts[i]) = 2
  <2>1. \A i \in 1..n : parts[i] = Halves(lines[i]) /\ parts[i] \in Seq(T) /\ Len(parts[i]) = 2
    BY <1>1, <1>2, <1>3, HalvesIs
  <2>2. parts = [i \in 1..n |-> parts[i]]
    BY <1>1, <1>2
  <2> QED
    BY <1>1, <2>1, <2>2
<1>5. HalvesOf(lines) = FlattenSeq(parts)
  BY <1>2 DEF HalvesOf
<1>6. CASE n = 0
  <2>1. parts = <<>>
    BY <1>4, <1>6
  <2>2. FlattenSeq(parts) = <<>>
    BY <2>1 DEF FlattenSeq
  <2> QED
    BY <1>1, <1>3, <1>5, <1>6, <2>2
<1>7. CASE n # 0
  <2>0. parts # <<>>
    BY <1>4, <1>7
  <2>1. PICK f \in [1..n -> Seq(T)] : FlattenSeq(parts) = f[n] /\ Appends(f, parts)
    BY <1>4, <2>0, FlattenedParts
  <2> DEFINE Fits(k) == Len(f[k]) = 2 * k /\ \A j \in 1..k : f[k][2 * j - 1] = parts[j][1] /\ f[k][2 * j] = parts[j][2]
             U == {k \in 1..n : ~Fits(k)}
  <2>2. 1 \notin U
    <3>1. f[1] = parts[1] /\ Len(parts[1]) = 2
      BY <1>4, <1>7, <2>1 DEF Appends
    <3> QED
      BY <1>1, <1>7, <3>1
  <2>3. ASSUME NEW k \in 2..n, k - 1 \notin U PROVE k \notin U
    <3>1. k \in Nat /\ k \in 1..n /\ k - 1 \in 1..n /\ Fits(k - 1)
      BY <1>1, <2>3
    <3>10. \A i \in 2..n : f[i] = f[i - 1] \o parts[i]
      BY <1>4, <2>1 DEF Appends
    <3>11. f[k] = f[k - 1] \o parts[k]
      BY <2>3, <3>10
    <3>12. f[k - 1] \in Seq(T) /\ parts[k] \in Seq(T) /\ Len(parts[k]) = 2
      BY <1>4, <2>1, <3>1
    <3>2. PICK a, b, c : /\ a = f[k - 1] /\ b = parts[k] /\ c = f[k] /\ a \in Seq(T) /\ b \in Seq(T) /\ Len(b) = 2
                         /\ c = a \o b
      BY <3>11, <3>12
    <3>13. a \in Seq(T) /\ b \in Seq(T) /\ c = a \o b
      BY <3>2
    <3>14. k \in Nat /\ Len(b) = 2
      BY <3>1, <3>2
    <3>3. Len(a) = 2 * (k - 1)
      BY <3>1, <3>2
    <3>9. Len(c) = 2 * k /\ \A i \in 1..(2 * k) : c[i] = IF i <= 2 * (k - 1) THEN a[i] ELSE b[i - 2 * (k - 1)]
      <4>1. Len(a) + Len(b) = 2 * k
        BY <3>3, <3>14
      <4>2. Len(c) = Len(a) + Len(b) /\ \A i \in 1..(Len(a) + Len(b)) : c[i] = IF i <= Len(a) THEN a[i] ELSE b[i - Len(a)]
        BY <3>13, ConcatProperties
      <4> QED
        BY <3>3, <4>1, <4>2
    <3>4. ASSUME NEW j \in 1..(k - 1) PROVE f[k][2 * j - 1] = parts[j][1] /\ f[k][2 * j] = parts[j][2]
      <4>1. 2 * j - 1 \in 1..(2 * k) /\ 2 * j \in 1..(2 * k) /\ 2 * j - 1 <= 2 * (k - 1) /\ 2 * j <= 2 * (k - 1)
        BY <3>1
      <4>2. c[2 * j - 1] = a[2 * j - 1] /\ c[2 * j] = a[2 * j]
        BY <3>9, <4>1
      <4> QED
        BY <3>1, <3>2, <4>2
    <3>5. f[k][2 * k - 1] = parts[k][1] /\ f[k][2 * k] = parts[k][2]
      <4>1. 2 * k - 1 \in 1..(2 * k) /\ 2 * k \in 1..(2 * k) /\ ~(2 * k - 1 <= 2 * (k - 1)) /\ ~(2 * k <= 2 * (k - 1))
        BY <3>1
      <4>2. 2 * k - 1 - 2 * (k - 1) = 1 /\ 2 * k - 2 * (k - 1) = 2
        BY <3>1
      <4>3. c[2 * k - 1] = b[1] /\ c[2 * k] = b[2]
        BY <3>9, <4>1, <4>2
      <4> QED
        BY <3>2, <4>3
    <3>6. \A j \in 1..k : j \in 1..(k - 1) \/ j = k
      BY <1>1
    <3>7. Fits(k)
      BY <3>2, <3>4, <3>5, <3>6, <3>9
    <3> QED
      BY <3>7
  <2>4. U \subseteq 1..n
    OBVIOUS
  <2>5. U = {}
    <3> HIDE DEF U
    <3> SUFFICES ASSUME U # {} PROVE FALSE
      OBVIOUS
    <3>0. U \subseteq Nat
      BY <2>4
    <3>1. PICK k \in U : \A j \in U : k <= j
      BY <3>0, LeastNatural
    <3>2. k \in 2..n /\ k - 1 \notin U
      BY <1>1, <2>2, <2>4, <3>1
    <3> QED
      BY <2>3, <3>1, <3>2
  <2>6. Fits(n)
    <3>1. n \in 1..n
      BY <1>1, <1>7
    <3> HIDE DEF Fits
    <3> QED
      BY <2>5, <3>1
  <2>7. PICK w : w = f[n] /\ w \in Seq(T) /\ Len(w) = 2 * n
    BY <1>1, <1>7, <2>1, <2>6
  <2>8. \A j \in 1..n : w[2 * j - 1] = Halves(lines[j])[1] /\ w[2 * j] = Halves(lines[j])[2]
    BY <1>4, <2>6, <2>7
  <2>9. HalvesOf(lines) = w
    BY <1>5, <2>1, <2>7
  <2> QED
    BY <1>1, <1>3, <2>7, <2>8, <2>9
<1> QED
  BY <1>6, <1>7

----------------------------------------------------------------------------
(* Chunks: the buffer holds the half of a line that a chunk has cut off.   *)

NothingRead(buffer) == [lines |-> <<>>, buffer |-> buffer]

(* A chunk runs through what its half lines make of the buffer, in order.  *)
LEMMA DrainFold ==
  ASSUME NEW V, NEW S, NEW buffer, NEW chunk \in Seq(S), NothingRead(buffer) \in V,
         \A t \in V : \A h \in S : TakeHalf(t, h) \in V
  PROVE  \E p \in [0..Len(chunk) -> V] :
           /\ p[0] = NothingRead(buffer) /\ p[Len(chunk)] = DrainSseLines(buffer, chunk)
           /\ \A k \in 1..Len(chunk) : p[k] = TakeHalf(p[k - 1], chunk[k])
<1> DEFINE last == Len(chunk)
           base == NothingRead(buffer)
           op == [q \in (1..last) \X V |-> TakeHalf(q[2], chunk[q[1]])]
           P(h) == h = [s \in SUBSET (1..last) |-> IF s = {} THEN base ELSE TakeHalf(h[s \ {Max(s)}], chunk[Max(s)])]
           fold == CHOOSE h : P(h)
<1>0. last \in Nat /\ DOMAIN chunk = 1..last /\ \A k \in 1..last : chunk[k] \in S
  OBVIOUS
<1> HIDE DEF last
<1>1. op \in [(1..last) \X V -> V]
  <2>1. ASSUME NEW q \in (1..last) \X V PROVE TakeHalf(q[2], chunk[q[1]]) \in V
    BY <1>0, <2>1
  <2> QED
    BY <2>1
<1>2. base \in V
  OBVIOUS
<1>3. DrainSseLines(buffer, chunk) = fold[1..last]
  BY <1>0 DEF DrainSseLines, NothingRead, FoldLeft, MapThenFoldSet
<1>4. P(fold)
  <2>1. PICK g \in [SUBSET (1..last) -> V] : Computes(g, last, V, base, op)
    <3> HIDE DEF op
    <3> QED
      BY <1>0, <1>1, <1>2, LeftRecursion
  <2>2. P(g)
    <3>1. \A s \in SUBSET (1..last) : s # {} => g[s] = TakeHalf(g[s \ {Max(s)}], chunk[Max(s)])
      BY <2>1 DEF Computes
    <3> QED
      BY <2>1, <3>1 DEF Computes
  <2> HIDE DEF P
  <2> QED
    BY <2>2
<1>5. Follows(fold, last, V, base, op)
  <2>1. ASSUME NEW h, P(h) PROVE Follows(h, last, V, base, op)
    <3>1. \A s \in SUBSET (1..last) : s # {} => Max(s) \in 1..last
      BY <1>0, GreatestChooses DEF Chooses
    <3>2. h[{}] = base
      BY <2>1
    <3>3. ASSUME NEW s \in SUBSET (1..last), s # {}, h[s \ {Max(s)}] \in V
          PROVE  h[s] = op[<<Max(s), h[s \ {Max(s)}]>>]
      <4>1. h[s] = TakeHalf(h[s \ {Max(s)}], chunk[Max(s)])
        BY <2>1, <3>3
      <4>2. <<Max(s), h[s \ {Max(s)}]>> \in (1..last) \X V
        BY <3>1, <3>3
      <4> QED
        BY <4>1, <4>2
    <3> QED
      BY <3>2, <3>3 DEF Follows
  <2> HIDE DEF P, fold
  <2> QED
    BY <1>4, <2>1
<1>6. PICK p \in [0..last -> V] : p[last] = fold[1..last] /\ Passes(p, last, base, op)
  <2> HIDE DEF op, fold
  <2> QED
    BY <1>0, <1>1, <1>2, <1>5, LeftFold
<1>7. ASSUME NEW k \in 1..last PROVE p[k] = TakeHalf(p[k - 1], chunk[k])
  <2>1. k - 1 \in 0..last
    BY <1>0
  <2> QED
    BY <1>6, <2>1 DEF Passes
<1>8. p[0] = base /\ p[last] = DrainSseLines(buffer, chunk)
  BY <1>3, <1>6 DEF Passes
<1> HIDE DEF fold, P, op
<1> QED
  BY <1>7, <1>8 DEF last

(* What a buffer keeps when q lines and, if b = 1, half a line were read,  *)
(* and what draining gives when it began after p of these lines.           *)
HalfKept(lines, q, b) == IF b = 0 THEN <<>> ELSE <<Halves(lines[q + 1])[1]>>
Drained(lines, p, q, b) == [lines |-> SubSeq(lines, p + 1, q), buffer |-> HalfKept(lines, q, b)]

(* A half line more.                                                       *)
LEMMA HalfTaken ==
  ASSUME NEW S, NEW lines \in Seq(S), NEW p \in Nat, NEW q \in Nat, p <= q, q < Len(lines)
  PROVE  /\ TakeHalf(Drained(lines, p, q, 0), Halves(lines[q + 1])[1]) = Drained(lines, p, q, 1)
         /\ TakeHalf(Drained(lines, p, q, 1), Halves(lines[q + 1])[2]) = Drained(lines, p, q + 1, 0)
<1>1. PICK line \in S : line = lines[q + 1]
  <2>1. q + 1 \in 1..Len(lines)
    BY LenProperties
  <2> QED
    BY <2>1
<1>2. PICK a, z : a = Halves(line)[1] /\ z = Halves(line)[2]
  OBVIOUS
<1>12. a = [line |-> line, end |-> FALSE] /\ z = [line |-> line, end |-> TRUE]
  BY <1>1, <1>2, HalvesIs
<1>3. a.line = line /\ ~a.end /\ z.line = line /\ z.end
  BY <1>12
<1>13. PICK T : T = {a, z}
  OBVIOUS
<1>14. a \in T /\ z \in T
  BY <1>13
<1>4. PICK u, v : u = SubSeq(lines, p + 1, q) /\ v = SubSeq(lines, p + 1, q + 1)
  OBVIOUS
<1>5. v = Append(u, line)
  <2>1. p + 1 \in 1..Len(lines) /\ q + 1 \in (p + 1)..Len(lines) /\ (q + 1) - 1 = q
    BY LenProperties
  <2>2. v = u \o <<line>>
    BY <1>1, <1>4, <2>1, SubSeqRecursiveSecond
  <2>3. u \in Seq(S)
    <3>1. \A i \in (p + 1)..q : lines[i] \in S
      BY LenProperties
    <3> QED
      BY <1>4, <3>1, SubSeqProperties
  <2> QED
    BY <1>1, <2>2, <2>3, AppendIsConcat
<1>6. Append(<<>>, a) = <<a>> /\ Len(Append(<<a>>, z)) = 2 /\ Append(<<a>>, z)[2] = z
  <2>1. Append(<<>>, a) = <<>> \o <<a>> /\ <<>> \o <<a>> = <<a>>
    <3>1. <<>> \in Seq(T) /\ <<a>> \in Seq(T)
      BY <1>14
    <3> QED
      BY <1>14, <3>1, AppendIsConcat, ConcatEmptySeq
  <2>2. <<a>> \in Seq(T) /\ Len(<<a>>) = 1
    BY <1>14
  <2>3. Len(Append(<<a>>, z)) = 2 /\ Append(<<a>>, z)[2] = z
    BY <1>14, <2>2, AppendProperties
  <2> QED
    BY <2>1, <2>3
<1>7. Drained(lines, p, q, 0) = [lines |-> u, buffer |-> <<>>]
  BY <1>4 DEF Drained, HalfKept
<1>8. Drained(lines, p, q, 1) = [lines |-> u, buffer |-> <<a>>]
  BY <1>1, <1>2, <1>4 DEF Drained, HalfKept
<1>9. Drained(lines, p, q + 1, 0) = [lines |-> v, buffer |-> <<>>]
  BY <1>4 DEF Drained, HalfKept
<1>10. TakeHalf([lines |-> u, buffer |-> <<>>], a) = [lines |-> u, buffer |-> <<a>>]
  BY <1>3, <1>6 DEF TakeHalf
<1>11. TakeHalf([lines |-> u, buffer |-> <<a>>], z) = [lines |-> v, buffer |-> <<>>]
  BY <1>3, <1>5, <1>6 DEF TakeHalf, Ended
<1> QED
  BY <1>1, <1>2, <1>7, <1>8, <1>9, <1>10, <1>11

(* Wherever it is cut, a chunk gives the lines that end in it.             *)
LEMMA ChunkDrained ==
  ASSUME NEW S, NEW lines \in Seq(S), NEW q \in Nat, NEW b \in {0, 1}, NEW n \in Nat,
         2 * q + b + n <= 2 * Len(lines)
  PROVE  \E r \in q..Len(lines), c \in {0, 1} :
           /\ 2 * r + c = 2 * q + b + n
           /\ DrainSseLines(HalfKept(lines, q, b), SubSeq(HalvesOf(lines), 2 * q + b + 1, 2 * q + b + n)) = Drained(lines, q, r, c)
<1>0. PICK w : w = HalvesOf(lines)
  OBVIOUS
<1>1. /\ w \in Seq(HalfLines(S)) /\ Len(w) = 2 * Len(lines)
      /\ \A j \in 1..Len(lines) : w[2 * j - 1] = Halves(lines[j])[1] /\ w[2 * j] = Halves(lines[j])[2]
  BY <1>0, WireIs
<1>2. PICK m \in Nat : m = 2 * q + b
  OBVIOUS
<1>3. PICK L \in Nat : L = Len(lines) /\ \A i \in 1..L : lines[i] \in S
  OBVIOUS
<1>4. PICK chunk \in Seq(HalfLines(S)) : /\ chunk = SubSeq(w, m + 1, m + n) /\ Len(chunk) = n
                                         /\ \A k \in 1..n : chunk[k] = w[m + k]
  <2>1. PICK x \in Int, y \in Int : x = m + 1 /\ y = m + n
    OBVIOUS
  <2>2. \A i \in x..y : w[i] \in HalfLines(S)
    BY <1>1, <1>2, <1>3, <2>1
  <2>3. PICK chunk : chunk = SubSeq(w, x, y)
    OBVIOUS
  <2>4. /\ chunk \in Seq(HalfLines(S)) /\ Len(chunk) = (IF x <= y THEN y - x + 1 ELSE 0)
        /\ \A i \in 1..(y - x + 1) : chunk[i] = w[x + i - 1]
    BY <2>2, <2>3, SubSeqProperties
  <2>5. Len(chunk) = n
    BY <2>1, <2>4
  <2>6. \A k \in 1..n : chunk[k] = w[m + k]
    <3>1. ASSUME NEW k \in 1..n PROVE k \in 1..(y - x + 1) /\ x + k - 1 = m + k
      BY <2>1
    <3> QED
      BY <2>4, <3>1
  <2> QED
    BY <2>1, <2>3, <2>4, <2>5, <2>6
<1>5. PICK T : T = HalfLines(S)
  OBVIOUS
<1>6. PICK V : V = [lines : Seq(S \cup {Garbled}), buffer : Seq(T)]
  OBVIOUS
<1>7. \A t \in V : \A h \in T : TakeHalf(t, h) \in V
  <2> SUFFICES ASSUME NEW t \in V, NEW h \in T PROVE TakeHalf(t, h) \in V
    OBVIOUS
  <2>1. t.lines \in Seq(S \cup {Garbled}) /\ t.buffer \in Seq(T)
    BY <1>6
  <2>2. PICK s : s = Append(t.buffer, h) /\ s \in Seq(T)
    BY <2>1, AppendProperties
  <2>3. Ended(s) \in S \cup {Garbled}
    <3>1. CASE Len(s) = 2
      <4>1. s[2] \in HalfLines(S)
        BY <1>5, <2>2, <3>1
      <4>2. s[2].line \in S
        BY <4>1 DEF HalfLines
      <4> QED
        BY <3>1, <4>2 DEF Ended
    <3>2. CASE Len(s) # 2
      BY <3>2 DEF Ended
    <3> QED
      BY <3>1, <3>2
  <2>4. Append(t.lines, Ended(s)) \in Seq(S \cup {Garbled})
    BY <2>1, <2>3, AppendProperties
  <2>5. CASE h.end
    <3>1. TakeHalf(t, h) = [lines |-> Append(t.lines, Ended(s)), buffer |-> <<>>]
      BY <2>2, <2>5 DEF TakeHalf
    <3>2. <<>> \in Seq(T)
      OBVIOUS
    <3> QED
      BY <1>6, <2>4, <3>1, <3>2
  <2>6. CASE ~h.end
    <3>1. TakeHalf(t, h) = [t EXCEPT !.buffer = s]
      BY <2>2, <2>6 DEF TakeHalf
    <3> QED
      BY <1>6, <2>2, <3>1
  <2> QED
    BY <2>5, <2>6
<1>18. PICK buffer : buffer = HalfKept(lines, q, b)
  OBVIOUS
<1>8. buffer \in Seq(T)
  <2>1. CASE b = 0
    <3>1. buffer = <<>>
      BY <1>18, <2>1 DEF HalfKept
    <3> QED
      BY <3>1
  <2>2. CASE b = 1
    <3>1. q + 1 \in 1..L
      BY <1>3, <2>2
    <3>3. buffer = <<Halves(lines[q + 1])[1]>>
      BY <1>18, <2>2 DEF HalfKept
    <3>2. Halves(lines[q + 1])[1] \in T
      <4>1. PICK h : h = Halves(lines[q + 1]) /\ h \in Seq(T) /\ Len(h) = 2
        BY <1>3, <1>5, <3>1, HalvesIs
      <4> QED
        BY <4>1
    <3> QED
      BY <3>2, <3>3
  <2> QED
    BY <2>1, <2>2
<1>9. NothingRead(buffer) \in V
  <2>1. <<>> \in Seq(S \cup {Garbled})
    OBVIOUS
  <2> QED
    BY <1>6, <1>8, <2>1 DEF NothingRead
<1>10. PICK p \in [0..n -> V] : /\ p[0] = NothingRead(buffer) /\ p[n] = DrainSseLines(buffer, chunk)
                                /\ \A k \in 1..n : p[k] = TakeHalf(p[k - 1], chunk[k])
  <2>1. PICK H : H = T /\ chunk \in Seq(H) /\ \A t \in V : \A h \in H : TakeHalf(t, h) \in V
    BY <1>4, <1>5, <1>7
  <2>3. Len(chunk) = n
    BY <1>4
  <2>4. PICK p \in [0..Len(chunk) -> V] :
           /\ p[0] = NothingRead(buffer) /\ p[Len(chunk)] = DrainSseLines(buffer, chunk)
           /\ \A k \in 1..Len(chunk) : p[k] = TakeHalf(p[k - 1], chunk[k])
    BY <1>9, <2>1, DrainFold
  <2> QED
    BY <2>3, <2>4
<1> DEFINE Fits(k) == \E r \in q..L, c \in {0, 1} : 2 * r + c = m + k /\ p[k] = Drained(lines, q, r, c)
           U == {k \in 0..n : ~Fits(k)}
<1>11. 0 \notin U
  <2>1. SubSeq(lines, q + 1, q) = <<>>
    BY SubSeqEmpty
  <2>2. NothingRead(buffer) = Drained(lines, q, q, b)
    BY <1>18, <2>1 DEF Drained, NothingRead
  <2>3. q \in q..L /\ 2 * q + b = m + 0
    BY <1>2, <1>3
  <2>4. Fits(0)
    BY <1>10, <2>2, <2>3
  <2> QED
    BY <2>4
<1>12. ASSUME NEW k \in 1..n, k - 1 \notin U PROVE k \notin U
  <2>1. k \in Nat /\ k - 1 \in 0..n /\ k \in 0..n /\ m + k <= 2 * L
    BY <1>2, <1>3
  <2>2. Fits(k - 1)
    BY <1>12, <2>1
  <2>3. PICK r \in q..L, c \in {0, 1} : 2 * r + c = m + (k - 1) /\ p[k - 1] = Drained(lines, q, r, c)
    BY <2>2
  <2>9. r \in Nat /\ q <= r /\ 2 * r + c = m + (k - 1)
    BY <1>3, <2>3
  <2>4. r \in Nat /\ q <= r /\ r < L
    <3>1. 2 * r < 2 * L
      BY <2>1, <2>9
    <3> QED
      BY <2>9, <3>1
  <2>5. r + 1 \in 1..L
    BY <1>3, <2>4
  <2>6. p[k] = TakeHalf(Drained(lines, q, r, c), w[m + k])
    BY <1>4, <1>10, <2>3
  <2>7. CASE c = 0
    <3>1. m + k = 2 * (r + 1) - 1
      BY <1>2, <2>1, <2>3, <2>4, <2>7
    <3>2. w[m + k] = Halves(lines[r + 1])[1]
      BY <1>1, <1>3, <2>5, <3>1
    <3>3. p[k] = Drained(lines, q, r, 1)
      <4>1. TakeHalf(Drained(lines, q, r, 0), Halves(lines[r + 1])[1]) = Drained(lines, q, r, 1)
        BY <1>3, <2>4, HalfTaken
      <4> QED
        BY <2>6, <2>7, <3>2, <4>1
    <3>4. 2 * r + 1 = m + k
      BY <1>2, <2>1, <2>3, <2>4, <2>7
    <3>5. Fits(k)
      BY <3>3, <3>4
    <3> QED
      BY <3>5
  <2>8. CASE c = 1
    <3>1. m + k = 2 * (r + 1)
      BY <1>2, <2>1, <2>3, <2>4, <2>8
    <3>2. w[m + k] = Halves(lines[r + 1])[2]
      BY <1>1, <1>3, <2>5, <3>1
    <3>3. p[k] = Drained(lines, q, r + 1, 0)
      <4>1. TakeHalf(Drained(lines, q, r, 1), Halves(lines[r + 1])[2]) = Drained(lines, q, r + 1, 0)
        BY <1>3, <2>4, HalfTaken
      <4> QED
        BY <2>6, <2>8, <3>2, <4>1
    <3>4. 2 * (r + 1) + 0 = m + k /\ r + 1 \in q..L
      BY <1>2, <1>3, <2>1, <2>4, <3>1
    <3>5. Fits(k)
      BY <3>3, <3>4
    <3> QED
      BY <3>5
  <2> QED
    BY <2>7, <2>8
<1>13. U \subseteq 0..n
  OBVIOUS
<1>14. U = {}
  <2> HIDE DEF U
  <2> SUFFICES ASSUME U # {} PROVE FALSE
    OBVIOUS
  <2>0. U \subseteq Nat
    BY <1>13
  <2>1. PICK k \in U : \A j \in U : k <= j
    BY <2>0, LeastNatural
  <2>2. k \in 1..n /\ k - 1 \notin U
    BY <1>11, <1>13, <2>1
  <2> QED
    BY <1>12, <2>1, <2>2
<1>15. Fits(n)
  <2>1. n \in 0..n
    OBVIOUS
  <2> HIDE DEF Fits
  <2> QED
    BY <1>14, <2>1
<1>16. SubSeq(HalvesOf(lines), 2 * q + b + 1, 2 * q + b + n) = chunk
  BY <1>0, <1>2, <1>4
<1>17. PICK r \in q..L, c \in {0, 1} : 2 * r + c = m + n /\ p[n] = Drained(lines, q, r, c)
  BY <1>15
<1> HIDE DEF U, Fits
<1> QED
  BY <1>2, <1>3, <1>10, <1>16, <1>17, <1>18

----------------------------------------------------------------------------
(* The events of an answer.                                                *)

(* The first end of some events, and what comes before it.                 *)
LEMMA UntilDoneIs ==
  ASSUME NEW S, Done \in S, NEW e \in Seq(S), NEW rest \in Seq(S), \A i \in 1..Len(e) : e[i] # Done
  PROVE  \E tail \in Seq(S) : /\ UntilDone(e \o rest) = e \o tail
                              /\ (IF rest = <<>> THEN TRUE ELSE rest[1] = Done) => tail = <<Done>>
<1>1. PICK n \in Nat, k \in Nat : n = Len(e) /\ k = Len(rest)
  BY LenProperties
<1>18. PICK all : all = e \o rest
  OBVIOUS
<1>2. /\ all \in Seq(S) /\ Len(all) = n + k
      /\ \A i \in 1..(n + k) : all[i] = IF i <= n THEN e[i] ELSE rest[i - n]
  BY <1>1, <1>18, ConcatProperties
<1>19. PICK ended : ended = Append(all, Done)
  OBVIOUS
<1>3. ended \in Seq(S) /\ Len(ended) = n + k + 1
  <2>1. ended \in Seq(S) /\ Len(ended) = Len(all) + 1
    BY <1>2, <1>19, AppendProperties
  <2> QED
    BY <1>1, <1>2, <2>1
<1>4. \A i \in 1..(n + k) : ended[i] = all[i]
  BY <1>1, <1>2, <1>19, AppendProperties
<1>5. ended[n + k + 1] = Done
  BY <1>1, <1>2, <1>19, AppendProperties
<1>6. PICK I : I = {i \in 1..Len(ended) : ended[i] = Done}
  OBVIOUS
<1>7. PICK m : m = SelectInSeq(ended, LAMBDA d : d = Done)
  OBVIOUS
<1>8. I \subseteq Nat /\ n + k + 1 \in I
  BY <1>1, <1>3, <1>5, <1>6
<1>9. m = Min(I)
  BY <1>6, <1>7, <1>8 DEF SelectInSeq
<1>10. m \in I /\ \A j \in I : m <= j
  BY <1>8, <1>9, LeastIs
<1>11. m \in (n + 1)..(n + k + 1)
  <2>1. m \in 1..(n + k + 1) /\ ended[m] = Done
    BY <1>3, <1>6, <1>10
  <2>2. CASE m <= n
    <3>1. m \in 1..n /\ m \in 1..(n + k)
      BY <1>1, <2>1, <2>2
    <3>2. ended[m] = e[m]
      BY <1>2, <1>4, <2>2, <3>1
    <3> QED
      BY <1>1, <2>1, <3>1, <3>2
  <2> QED
    BY <1>1, <2>1, <2>2
<1>12. UntilDone(all) = SubSeq(ended, 1, m)
  BY <1>7, <1>19 DEF UntilDone
<1>13. PICK tail : tail = SubSeq(ended, n + 1, m)
  OBVIOUS
<1>14. tail \in Seq(S)
  <2>1. \A i \in (n + 1)..m : ended[i] \in S
    BY <1>1, <1>3, <1>11
  <2> QED
    BY <1>1, <1>11, <1>13, <2>1, SubSeqProperties
<1>15. SubSeq(ended, 1, n) = e
  <2>1. \A i \in 1..n : ended[i] = e[i] /\ e[i] \in S
    BY <1>1, <1>2, <1>4
  <2>2. PICK head : head = SubSeq(ended, 1, n)
    OBVIOUS
  <2>3. head \in Seq(S) /\ Len(head) = n /\ \A i \in 1..n : head[i] = ended[i]
    <3>1. n - 1 + 1 = n /\ (IF 1 <= n THEN n - 1 + 1 ELSE 0) = n /\ \A i \in 1..n : 1 + i - 1 = i
      BY <1>1
    <3>2. \A i \in 1..n : ended[i] \in S
      BY <2>1
    <3>3. /\ head \in Seq(S) /\ Len(head) = (IF 1 <= n THEN n - 1 + 1 ELSE 0)
          /\ \A i \in 1..(n - 1 + 1) : head[i] = ended[1 + i - 1]
      BY <2>2, <3>2, SubSeqProperties
    <3> QED
      BY <3>1, <3>3
  <2>4. head = e
    BY <1>1, <2>1, <2>3, SeqEqual
  <2> QED
    BY <2>2, <2>4
<1>16. SubSeq(ended, 1, m) = e \o tail
  <2>1. 1 \in 1..(Len(ended) + 1) /\ n \in (1 - 1)..Len(ended) /\ m \in n..Len(ended)
    BY <1>1, <1>3, <1>11
  <2>2. SubSeq(ended, 1, n) \o SubSeq(ended, n + 1, m) = SubSeq(ended, 1, m)
    BY <2>1, ConcatAdjacentSubSeq
  <2> QED
    BY <1>13, <1>15, <2>2
<1>17. ASSUME IF rest = <<>> THEN TRUE ELSE rest[1] = Done PROVE tail = <<Done>>
  <2>1. ended[n + 1] = Done
    <3>1. CASE rest = <<>>
      BY <1>1, <1>5, <3>1
    <3>2. CASE rest # <<>>
      <4>1. k >= 1 /\ n + 1 \in 1..(n + k) /\ ~(n + 1 <= n) /\ n + 1 - n = 1
        BY <1>1, <3>2
      <4>2. ended[n + 1] = rest[1]
        <5>1. PICK x : x = n + 1 /\ x \in 1..(n + k) /\ ~(x <= n) /\ x - n = 1
          BY <4>1
        <5>2. ended[x] = rest[x - n]
          BY <1>2, <1>4, <5>1
        <5> QED
          BY <5>1, <5>2
      <4> QED
        BY <1>17, <3>2, <4>2
    <3> QED
      BY <3>1, <3>2
  <2>2. n + 1 \in I
    BY <1>1, <1>3, <1>6, <2>1
  <2>3. m = n + 1
    BY <1>1, <1>10, <1>11, <2>2
  <2>4. tail \in Seq(S) /\ Len(tail) = 1 /\ tail[1] = Done
    <3>1. \A i \in (n + 1)..(n + 1) : ended[i] \in S
      BY <1>1, <1>3
    <3>2. PICK x \in Int : x = n + 1
      BY <1>1
    <3>3. tail = SubSeq(ended, x, x)
      BY <1>13, <2>3, <3>2
    <3>4. /\ Len(tail) = (IF x <= x THEN x - x + 1 ELSE 0)
          /\ \A i \in 1..(x - x + 1) : tail[i] = ended[x + i - 1]
      BY <3>1, <3>2, <3>3, SubSeqProperties
    <3>5. x - x + 1 = 1 /\ x + 1 - 1 = x /\ x <= x
      BY <3>2
    <3> QED
      BY <1>14, <2>1, <3>2, <3>4, <3>5
  <2> QED
    BY <2>4
<1> QED
  BY <1>12, <1>14, <1>16, <1>17, <1>18

(* The events there are in an answer, the reader's own included, and what  *)
(* its first p lines tell.                                                 *)
EventsIn(answer) == UNION {ToSet(LinesRead(answer)[k].events) : k \in DOMAIN answer.lines}
EventSet(answer) == EventsIn(answer) \cup {Done, StreamError}
Told(answer, p) == FlattenSeq([k \in 1..p |-> LinesRead(answer)[k].events])

(* A sequence is one over its own elements.                                *)
LEMMA OwnElements ==
  ASSUME NEW S, NEW s \in Seq(S)
  PROVE  s \in Seq(ToSet(s)) /\ ToSet(s) \subseteq S
<1>1. PICK n \in Nat : n = Len(s) /\ DOMAIN s = 1..n /\ \A i \in 1..n : s[i] \in S
  BY LenProperties
<1>2. ToSet(s) \subseteq S /\ \A i \in 1..n : s[i] \in ToSet(s)
  BY <1>1 DEF ToSet
<1>3. PICK T : T = ToSet(s)
  OBVIOUS
<1>4. s = [i \in 1..n |-> s[i]]
  BY <1>1
<1>5. s \in Seq(T)
  BY <1>1, <1>2, <1>3, <1>4
<1> QED
  BY <1>2, <1>3, <1>5

(* Told line by line, an answer tells its events.                          *)
LEMMA EventsAreTold ==
  ASSUME NEW answer, answer.lines \in Seq(ToSet(answer.lines))
  PROVE  /\ StreamError \notin EventsIn(answer)
         /\ Told(answer, 0) = <<>>
         /\ \A p \in 1..Len(answer.lines) :
              /\ LinesRead(answer)[p].events \in Seq(EventsIn(answer))
              /\ Told(answer, p) = Told(answer, p - 1) \o LinesRead(answer)[p].events
         /\ \A p \in 0..Len(answer.lines) :
              /\ Told(answer, p) \in Seq(EventsIn(answer))
              /\ \E rest \in Seq(EventsIn(answer)) : EventsOf(answer) = Told(answer, p) \o rest
         /\ EventsOf(answer) = Told(answer, Len(answer.lines))
<1>1. PICK n \in Nat : n = Len(answer.lines) /\ DOMAIN answer.lines = 1..n
  BY LenProperties
<1>2. PICK read : read = LinesRead(answer)
  OBVIOUS
<1>3. PICK S : S = EventsIn(answer)
  OBVIOUS
<1>4. ASSUME NEW k \in 1..n
      PROVE  /\ read[k].events \in Seq(ToSet(read[k].events)) /\ StreamError \notin ToSet(read[k].events)
             /\ ToSet(read[k].events) \subseteq S
  <2>1. read[k] = Line(answer.provider, read[k - 1].event, answer.lines[k])
    BY <1>1, <1>2, LinesReadIs
  <2>2. PICK T : read[k].events \in Seq(T) /\ \A e \in T : e # StreamError
    BY <2>1, LineEvents
  <2>3. ToSet(read[k].events) \subseteq S
    BY <1>1, <1>2, <1>3 DEF EventsIn
  <2> QED
    BY <2>2, <2>3, OwnElements
<1>5. \A k \in 1..n : read[k].events \in Seq(S)
  <2> SUFFICES ASSUME NEW k \in 1..n PROVE read[k].events \in Seq(S)
    OBVIOUS
  <2>1. PICK s, T : s = read[k].events /\ T = ToSet(read[k].events) /\ s \in Seq(T) /\ T \subseteq S
    BY <1>4
  <2> QED
    BY <2>1
<1>6. StreamError \notin S
  <2> SUFFICES ASSUME StreamError \in S PROVE FALSE
    OBVIOUS
  <2>1. PICK k \in 1..n : StreamError \in ToSet(read[k].events)
    BY <1>1, <1>2, <1>3 DEF EventsIn
  <2> QED
    BY <1>4, <2>1
<1>7. PICK seqs : seqs = [k \in 1..n |-> read[k].events]
  OBVIOUS
<1>8. seqs \in Seq(Seq(S)) /\ Len(seqs) = n /\ \A k \in 1..n : seqs[k] = read[k].events
  BY <1>5, <1>7
<1>9. ASSUME NEW p \in 0..n
      PROVE  /\ SubSeq(seqs, 1, p) \in Seq(Seq(S)) /\ Told(answer, p) = FlattenSeq(SubSeq(seqs, 1, p))
             /\ Len(SubSeq(seqs, 1, p)) = p
  <2>1. PICK t : t = [k \in 1..p |-> read[k].events]
    OBVIOUS
  <2>2. \A k \in 1..p : k \in 1..n
    OBVIOUS
  <2>3. t \in Seq(Seq(S)) /\ Len(t) = p /\ \A k \in 1..p : t[k] = seqs[k]
    BY <1>5, <1>8, <2>1, <2>2
  <2>4. PICK u : u = SubSeq(seqs, 1, p)
    OBVIOUS
  <2>5. u \in Seq(Seq(S)) /\ Len(u) = p /\ \A k \in 1..p : u[k] = seqs[k]
    <3>1. \A k \in 1..p : seqs[k] \in Seq(S)
      BY <1>5, <1>8, <2>2
    <3>2. /\ u \in Seq(Seq(S)) /\ Len(u) = (IF 1 <= p THEN p - 1 + 1 ELSE 0)
          /\ \A i \in 1..(p - 1 + 1) : u[i] = seqs[1 + i - 1]
      BY <2>4, <3>1, SubSeqProperties
    <3>3. p - 1 + 1 = p /\ (IF 1 <= p THEN p - 1 + 1 ELSE 0) = p /\ \A i \in 1..p : 1 + i - 1 = i
      OBVIOUS
    <3> QED
      BY <3>2, <3>3
  <2>6. t = u
    BY <2>3, <2>5, SeqEqual
  <2>7. Told(answer, p) = FlattenSeq(t)
    BY <1>2, <2>1 DEF Told
  <2> QED
    BY <2>4, <2>5, <2>6, <2>7
<1>10. ASSUME NEW p \in 0..n PROVE Told(answer, p) \in Seq(S)
  BY <1>9, FlattenedElements
<1>11. Told(answer, 0) = <<>>
  <2>1. SubSeq(seqs, 1, 0) = <<>>
    BY SubSeqEmpty
  <2>2. FlattenSeq(<<>>) = <<>>
    BY DEF FlattenSeq
  <2>3. 0 \in 0..n
    OBVIOUS
  <2>4. Told(answer, 0) = FlattenSeq(SubSeq(seqs, 1, 0))
    BY <1>9, <2>3
  <2> QED
    BY <2>1, <2>2, <2>4
<1>12. ASSUME NEW p \in 1..n PROVE Told(answer, p) = Told(answer, p - 1) \o read[p].events
  <2>1. p \in 0..n /\ p - 1 \in 0..n /\ 1 \in 1..Len(seqs) /\ p \in 1..Len(seqs)
    BY <1>8
  <2>2. SubSeq(seqs, 1, p) = SubSeq(seqs, 1, p - 1) \o <<seqs[p]>>
    BY <1>8, <2>1, SubSeqRecursiveSecond
  <2>3. PICK x : x = seqs[p] /\ x = read[p].events /\ x \in Seq(S)
    BY <1>5, <1>8
  <2>4. <<x>> \in Seq(Seq(S)) /\ FlattenSeq(<<x>>) = x
    <3>1. <<>> \in Seq(S)
      OBVIOUS
    <3>2. <<x>> \in Seq(Seq(S))
      BY <2>3
    <3> QED
      BY <2>3, <3>1, <3>2, FlattenShort
  <2>5. FlattenSeq(SubSeq(seqs, 1, p - 1) \o <<x>>) = FlattenSeq(SubSeq(seqs, 1, p - 1)) \o FlattenSeq(<<x>>)
    BY <1>9, <2>1, <2>4, FlattenConcat
  <2> QED
    BY <1>9, <2>1, <2>2, <2>3, <2>4, <2>5
<1>13. EventsOf(answer) = FlattenSeq(seqs)
  BY <1>1, <1>2, <1>7 DEF EventsOf
<1>14. ASSUME NEW p \in 0..n PROVE \E rest \in Seq(S) : EventsOf(answer) = Told(answer, p) \o rest
  <2>1. 1 \in 1..(Len(seqs) + 1) /\ p \in (1 - 1)..Len(seqs) /\ n \in p..Len(seqs)
    BY <1>8
  <2>2. SubSeq(seqs, 1, p) \o SubSeq(seqs, p + 1, n) = SubSeq(seqs, 1, n)
    BY <1>8, <2>1, ConcatAdjacentSubSeq
  <2>3. SubSeq(seqs, 1, n) = seqs
    BY <1>8, SubSeqFull
  <2>4. PICK v : v = SubSeq(seqs, p + 1, n)
    OBVIOUS
  <2>5. v \in Seq(Seq(S))
    <3>1. PICK x \in Int : x = p + 1
      OBVIOUS
    <3>2. \A i \in x..n : seqs[i] \in Seq(S)
      BY <1>5, <1>8, <3>1
    <3>3. v = SubSeq(seqs, x, n)
      BY <2>4, <3>1
    <3> QED
      BY <3>2, <3>3, SubSeqProperties
  <2>6. FlattenSeq(SubSeq(seqs, 1, p) \o v) = FlattenSeq(SubSeq(seqs, 1, p)) \o FlattenSeq(v)
    BY <1>9, <2>5, FlattenConcat
  <2>7. FlattenSeq(v) \in Seq(S)
    BY <2>5, FlattenedElements
  <2> QED
    BY <1>9, <1>13, <2>2, <2>3, <2>4, <2>6, <2>7
<1>15. EventsOf(answer) = Told(answer, n)
  <2>1. n \in 0..n
    OBVIOUS
  <2>2. SubSeq(seqs, 1, n) = seqs
    BY <1>8, SubSeqFull
  <2> QED
    BY <1>9, <1>13, <2>1, <2>2
<1> QED
  BY <1>1, <1>2, <1>3, <1>5, <1>6, <1>10, <1>11, <1>12, <1>14, <1>15

(* What comes first is a prefix.                                           *)
LEMMA PrefixOfConcat ==
  ASSUME NEW S, NEW s \in Seq(S), NEW t \in Seq(S)
  PROVE  IsPrefix(s, s \o t)
<1>1. Len(s) \in Nat /\ Len(t) \in Nat /\ Len(s \o t) = Len(s) + Len(t)
  BY LenProperties, ConcatProperties
<1>2. SubSeq(s, 1, Len(s)) = s
  BY SubSeqFull
<1>3. SubSeq(s \o t, 1, Len(s)) = s
  <2>1. CASE Len(s) = 0
    <3>1. s = <<>>
      BY <2>1
    <3>2. SubSeq(s \o t, 1, 0) = <<>>
      BY SubSeqEmpty
    <3> QED
      BY <2>1, <3>1, <3>2
  <2>2. CASE Len(s) # 0
    <3>1. 1 \in 1..Len(s) /\ Len(s) \in 1..Len(s)
      BY <1>1, <2>2
    <3> QED
      BY <1>2, <3>1, SubSeqOfConcat1
  <2> QED
    BY <2>1, <2>2
<1> QED
  BY <1>1, <1>2, <1>3 DEF IsPrefix

(* Texts of some type that follow each other are texts of the whole.       *)
LEMMA TextsConcat ==
  ASSUME NEW S, NEW type, \A e \in S : e.type = type => e.text \in Seq(STRING), NEW u \in Seq(S), NEW v \in Seq(S)
  PROVE  Texts(u, type) \in Seq(STRING) /\ Texts(u \o v, type) = Texts(u, type) \o Texts(v, type)
<1>1. PICK T : T = STRING
  OBVIOUS
<1>2. PICK g : g = [e \in S |-> IF e.type = type THEN e.text ELSE <<>>]
  OBVIOUS
<1>3. Expands(g, S, T)
  <2>1. ASSUME NEW e \in S PROVE (IF e.type = type THEN e.text ELSE <<>>) \in Seq(T)
    <3>1. <<>> \in Seq(T)
      OBVIOUS
    <3>2. e.type = type => e.text \in Seq(T)
      BY <1>1
    <3> QED
      BY <3>1, <3>2
  <2> QED
    BY <1>2, <2>1 DEF Expands
<1>4. ASSUME NEW w \in Seq(S) PROVE Texts(w, type) = Expanded(g, w)
  <2>1. PICK n \in Nat : DOMAIN w = 1..n /\ \A i \in 1..n : w[i] \in S
    BY LenProperties
  <2>2. [i \in DOMAIN w |-> IF w[i].type = type THEN w[i].text ELSE <<>>] = [i \in DOMAIN w |-> g[w[i]]]
    BY <1>2, <2>1
  <2> QED
    BY <2>2 DEF Texts, Expanded
<1>5. u \o v \in Seq(S)
  BY ConcatProperties
<1>6. Expanded(g, u) \in Seq(T) /\ Expanded(g, u \o v) = Expanded(g, u) \o Expanded(g, v)
  BY <1>3, ExpandedConcat
<1> QED
  BY <1>1, <1>4, <1>5, <1>6

----------------------------------------------------------------------------
(* The invariant of a stream.                                              *)

IsReader(r) ==
  r = [at |-> r.at, why |-> r.why, provider |-> r.provider, buffer |-> r.buffer, event |-> r.event,
       lines |-> r.lines, events |-> r.events]

Ends == {Done, StreamError}

(* The reader has q lines and b halves of the next, p of them parsed: the  *)
(* rest is on the wire, in the buffer and in its lines, and what the caller*)
(* has or will take, followed by what the reader still sends, is what the  *)
(* first p lines tell.                                                     *)
ReadsOn(answer, sent, left, r) ==
  \E q \in 0..Len(answer.lines), b \in {0, 1} : \E p \in 0..q :
    /\ 2 * q + b <= 2 * Len(answer.lines)
    /\ left = SubSeq(HalvesOf(answer.lines), 2 * q + b + 1, 2 * Len(answer.lines))
    /\ r.buffer = HalfKept(answer.lines, q, b)
    /\ r.lines = SubSeq(answer.lines, p + 1, q)
    /\ r.event = LinesRead(answer)[p].event
    /\ sent \o r.events = Told(answer, p)

UnderWay(answer, sent, left, r) ==
  /\ r.provider = answer.provider /\ r.events \in Seq(EventsIn(answer))
  /\ \A i \in 1..Len(sent) : sent[i] \notin Ends
  /\ ReadsOn(answer, sent, left, r)

(* The reader is gone: what it sent is a part of the events up to the end, *)
(* and an end of its own, which is the answer's if it is done.             *)
Over(answer, sent, why) ==
  \E e \in Seq(EventSet(answer)), tail \in Seq(EventSet(answer)), last \in Ends :
    /\ sent = Append(e, last) /\ \A i \in 1..Len(e) : e[i] \notin Ends
    /\ UntilDone(EventsOf(answer)) = e \o tail
    /\ why = "done" => last = Done /\ tail = <<Done>>

StreamInv ==
  /\ IsCall(llm) /\ IsReader(reader) /\ reader.at \in {"reading", "gone"}
  /\ llm.at # "idle" => llm.request \in Requests /\ llm.answer \in Answers
  /\ llm.at = "sent" => reader.at = "gone" /\ received = <<>> /\ channel = <<>>
  /\ llm.at = "streaming" =>
       /\ received \in Seq(EventSet(llm.answer)) /\ channel \in Seq(EventSet(llm.answer))
       /\ reader.at = "reading" => UnderWay(llm.answer, received \o channel, wire, reader)
       /\ reader.at = "gone" => Over(llm.answer, received \o channel, reader.why)

(* The assumption on answers.                                              *)
LEMMA AnswerIs ==
  ASSUME NEW answer \in Answers
  PROVE  answer.provider \in {"openai", "anthropic"} /\ answer.lines \in Seq(ToSet(answer.lines))
BY StreamAssumption

(* What was sent so far is a part of the events up to the end; all of them,*)
(* with an end, when the rest begins with one or there is none.            *)
LEMMA SentIs ==
  ASSUME NEW answer \in Answers, NEW sent \in Seq(EventSet(answer)), NEW left, NEW r, UnderWay(answer, sent, left, r)
  PROVE  \E tail \in Seq(EventSet(answer)) :
           /\ UntilDone(EventsOf(answer)) = sent \o tail
           /\ (r.events # <<>> /\ Head(r.events) = Done) => tail = <<Done>>
           /\ (r.lines = <<>> /\ r.events = <<>> /\ left = <<>>) => tail = <<Done>>
<1>1. answer.lines \in Seq(ToSet(answer.lines))
  BY AnswerIs
<1>2. PICK S : S = EventSet(answer)
  OBVIOUS
<1>3. Done \in S /\ EventsIn(answer) \subseteq S
  BY <1>2 DEF EventSet
<1>4. PICK q \in 0..Len(answer.lines), b \in {0, 1} : \E p \in 0..q :
        /\ 2 * q + b <= 2 * Len(answer.lines)
        /\ left = SubSeq(HalvesOf(answer.lines), 2 * q + b + 1, 2 * Len(answer.lines))
        /\ r.lines = SubSeq(answer.lines, p + 1, q)
        /\ sent \o r.events = Told(answer, p)
  BY DEF UnderWay, ReadsOn
<1>5. PICK p \in 0..q :
        /\ 2 * q + b <= 2 * Len(answer.lines)
        /\ left = SubSeq(HalvesOf(answer.lines), 2 * q + b + 1, 2 * Len(answer.lines))
        /\ r.lines = SubSeq(answer.lines, p + 1, q)
        /\ sent \o r.events = Told(answer, p)
  BY <1>4
<1>6. PICK L \in Nat : L = Len(answer.lines) /\ q \in Nat /\ q <= L /\ p \in Nat /\ p <= q
  BY <1>1, LenProperties
<1>16. 2 * q + b <= 2 * L
  BY <1>5, <1>6
<1>7. PICK rest : rest \in Seq(EventsIn(answer)) /\ EventsOf(answer) = Told(answer, p) \o rest
  <2>1. \A k \in 0..Len(answer.lines) : \E rest \in Seq(EventsIn(answer)) : EventsOf(answer) = Told(answer, k) \o rest
    BY <1>1, EventsAreTold
  <2>2. p \in 0..Len(answer.lines)
    BY <1>6
  <2> QED
    BY <2>1, <2>2
<1>8. PICK ev : ev = r.events
  OBVIOUS
<1>15. ev \in Seq(S) /\ rest \in Seq(S)
  BY <1>3, <1>7, <1>8 DEF UnderWay
<1>9. PICK more : more = ev \o rest /\ more \in Seq(S)
  BY <1>15, ConcatProperties
<1>10. EventsOf(answer) = sent \o more
  <2>1. sent \in Seq(S)
    BY <1>2
  <2>2. (sent \o ev) \o rest = sent \o (ev \o rest)
    BY <1>15, <2>1, ConcatAssociative
  <2> QED
    BY <1>5, <1>7, <1>8, <1>9, <2>2
<1>11. \A i \in 1..Len(sent) : sent[i] # Done
  BY DEF UnderWay, Ends
<1>12. PICK tail \in Seq(S) : /\ UntilDone(sent \o more) = sent \o tail
                              /\ (IF more = <<>> THEN TRUE ELSE more[1] = Done) => tail = <<Done>>
  BY <1>2, <1>3, <1>9, <1>11, UntilDoneIs
<1>13. ASSUME ev # <<>>, Head(ev) = Done PROVE tail = <<Done>>
  <2>1. Len(ev) \in Nat /\ Len(ev) >= 1 /\ ev[1] = Done
    BY <1>15, <1>13
  <2>2. 1 \in 1..(Len(ev) + Len(rest)) /\ 1 <= Len(ev)
    BY <1>15, <2>1, LenProperties
  <2>3. more[1] = Done
    BY <1>9, <1>15, <2>1, <2>2, ConcatProperties
  <2> QED
    BY <1>12, <2>3
<1>14. ASSUME r.lines = <<>>, ev = <<>>, left = <<>> PROVE tail = <<Done>>
  <2>1. p = q
    <3> SUFFICES ASSUME p < q PROVE FALSE
      BY <1>6
    <3>1. \A i \in (p + 1)..q : answer.lines[i] \in ToSet(answer.lines)
      BY <1>1, <1>6
    <3>2. PICK x \in Int : x = p + 1 /\ x <= q
      BY <1>6
    <3>3. Len(SubSeq(answer.lines, x, q)) = q - x + 1
      BY <1>6, <3>1, <3>2, SubSeqProperties
    <3>4. Len(<<>>) = 0 /\ q - x + 1 # 0
      BY <1>6, <3>2
    <3> QED
      BY <1>5, <1>14, <3>2, <3>3, <3>4
  <2>2. 2 * q + b = 2 * L
    <3> SUFFICES ASSUME 2 * q + b < 2 * L PROVE FALSE
      BY <1>6, <1>16
    <3>1. PICK w : w = HalvesOf(answer.lines) /\ w \in Seq(HalfLines(ToSet(answer.lines))) /\ Len(w) = 2 * L
      BY <1>1, <1>6, WireIs
    <3>2. PICK x \in Int, y \in Int : x = 2 * q + b + 1 /\ y = 2 * L /\ x <= y /\ x >= 1
      BY <1>6
    <3>3. \A i \in x..y : w[i] \in HalfLines(ToSet(answer.lines))
      <4>1. Len(w) = y /\ \A i \in 1..Len(w) : w[i] \in HalfLines(ToSet(answer.lines))
        BY <3>1, <3>2
      <4>2. \A i \in x..y : i \in 1..y
        BY <3>2
      <4> QED
        BY <4>1, <4>2
    <3>4. Len(SubSeq(w, x, y)) = y - x + 1
      BY <3>2, <3>3, SubSeqProperties
    <3>5. Len(<<>>) = 0 /\ y - x + 1 # 0
      BY <3>2
    <3> QED
      BY <1>5, <1>6, <1>14, <3>1, <3>2, <3>4, <3>5
  <2>3. q = L
    BY <1>6, <2>2
  <2>4. EventsOf(answer) = sent \o <<>>
    <3>1. EventsOf(answer) = Told(answer, L)
      BY <1>1, <1>6, EventsAreTold
    <3> QED
      BY <1>5, <1>8, <1>14, <2>1, <2>3, <3>1
  <2>5. more = <<>>
    <3>1. sent \in Seq(S) /\ <<>> \in Seq(S)
      BY <1>2
    <3>2. sent \o more = sent
      BY <1>10, <2>4, <3>1, ConcatEmptySeq
    <3> QED
      BY <1>9, <3>1, <3>2, ConcatEqualIffEmpty
  <2> QED
    BY <1>12, <2>5
<1> QED
  BY <1>2, <1>8, <1>10, <1>12, <1>13, <1>14

(* It holds at first.                                                      *)
LEMMA InitStream == ClientInit => StreamInv
<1> SUFFICES ASSUME ClientInit PROVE StreamInv
  OBVIOUS
<1>1. IsCall(llm) /\ llm.at = "idle"
  BY DEF ClientInit, NoCall, IsCall
<1>2. IsReader(reader) /\ reader.at = "gone"
  BY DEF ClientInit, NoReader, IsReader
<1> QED
  BY <1>1, <1>2 DEF StreamInv

(* A call that moves on without a stream.                                  *)
LEMMA CallGoesOn ==
  ASSUME StreamInv, UNCHANGED streamVars, IsCall(llm'), llm'.at \notin {"sent", "streaming"},
         llm'.at # "idle" => llm.at # "idle" /\ llm'.request = llm.request /\ llm'.answer = llm.answer
  PROVE  StreamInv'
BY DEF StreamInv, streamVars

(* A step of the reader: no call has been sent, and what it does is to the *)
(* stream that is held, if one is.                                         *)
LEMMA ReaderMoves ==
  ASSUME StreamInv, UNCHANGED <<llm, received>>, reader.at = "reading", IsReader(reader'), reader'.at \in {"reading", "gone"},
         llm.at = "streaming" =>
           /\ channel' \in Seq(EventSet(llm.answer))
           /\ reader'.at = "reading" => UnderWay(llm.answer, received \o channel', wire', reader')
           /\ reader'.at = "gone" => Over(llm.answer, received \o channel', reader'.why)
  PROVE  StreamInv'
BY DEF StreamInv

(* A stream that is opened: nothing of it was read.                        *)
LEMMA StreamOpens == ASSUME StreamInv, OpenStream PROVE StreamInv'
<1>1. IsCall(llm) /\ llm.at = "sent" /\ llm.answer \in Answers /\ llm.request \in Requests /\ received = <<>> /\ channel = <<>>
  BY DEF StreamInv, OpenStream
<1>2. PICK answer \in Answers : answer = llm.answer /\ answer.lines \in Seq(ToSet(answer.lines))
  BY <1>1, AnswerIs
<1>3. PICK r : r = [NoReader EXCEPT !.at = "reading", !.provider = answer.provider]
  OBVIOUS
<1>4. /\ IsReader(r) /\ r.at = "reading" /\ r.provider = answer.provider /\ r.buffer = <<>> /\ r.event = None
      /\ r.lines = <<>> /\ r.events = <<>>
  BY <1>3 DEF NoReader, IsReader
<1>5. PICK w : w = HalvesOf(answer.lines)
  OBVIOUS
<1>6. PICK c : c = [llm EXCEPT !.at = "streaming"]
  OBVIOUS
<1>7. llm' = c /\ wire' = w /\ reader' = r /\ UNCHANGED <<channel, received>>
  BY <1>2, <1>3, <1>5, <1>6 DEF OpenStream, HalvesOf
<1>8. IsCall(c) /\ c.at = "streaming" /\ c.answer = answer /\ c.request = llm.request
  BY <1>1, <1>2, <1>6 DEF IsCall
<1>9. <<>> \in Seq(EventSet(answer)) /\ <<>> \in Seq(EventsIn(answer)) /\ <<>> \o <<>> = <<>> /\ Len(<<>>) = 0
  OBVIOUS
<1>10. ReadsOn(answer, <<>>, w, r)
  <2>1. w = SubSeq(w, 1, 2 * Len(answer.lines))
    BY <1>2, <1>5, WireIs, SubSeqFull
  <2>2. SubSeq(answer.lines, 1, 0) = <<>>
    BY SubSeqEmpty
  <2>3. LinesRead(answer)[0].event = None
    BY <1>2, LinesReadIs, LenProperties
  <2>4. Told(answer, 0) = <<>>
    BY <1>2, EventsAreTold
  <2>5. HalfKept(answer.lines, 0, 0) = <<>>
    BY DEF HalfKept
  <2>6. PICK L \in Nat : L = Len(answer.lines)
    BY <1>2, LenProperties
  <2>7. /\ 2 * 0 + 0 <= 2 * L /\ 2 * 0 + 0 + 1 = 1 /\ 0 + 1 = 1 /\ 0 \in 0..L /\ 0 \in {0, 1} /\ 0 \in 0..0
    BY <2>6
  <2> QED
    BY <1>4, <1>5, <1>9, <2>1, <2>2, <2>3, <2>4, <2>5, <2>6, <2>7 DEF ReadsOn
<1>11. UnderWay(answer, <<>>, w, r)
  BY <1>4, <1>9, <1>10 DEF UnderWay
<1> QED
  BY <1>1, <1>2, <1>4, <1>7, <1>8, <1>9, <1>11 DEF StreamInv

(* The reader once it read a chunk, and once it parsed a line.             *)
WithChunk(r, chunk) ==
  LET drained == DrainSseLines(r.buffer, chunk)
  IN [r EXCEPT !.buffer = drained.buffer, !.lines = drained.lines]

WithLine(r) ==
  LET parsed == Line(r.provider, r.event, Head(r.lines))
  IN [r EXCEPT !.lines = Tail(@), !.event = parsed.event, !.events = parsed.events]

(* A chunk: whole lines, and the half of one for the buffer.               *)
LEMMA ChunkRead ==
  ASSUME NEW answer \in Answers, NEW sent, NEW n \in Nat, NEW r, IsReader(r), UnderWay(answer, sent, wire, r),
         r.lines = <<>>, r.events = <<>>, n <= Len(wire)
  PROVE  UnderWay(answer, sent, SubSeq(wire, n + 1, Len(wire)), WithChunk(r, SubSeq(wire, 1, n)))
<1>1. PICK lines, S : lines = answer.lines /\ lines \in Seq(S)
  BY AnswerIs
<1>2. PICK L \in Nat : L = Len(lines) /\ \A i \in 1..L : lines[i] \in S
  BY <1>1, LenProperties
<1>3. PICK w : w = HalvesOf(lines)
  OBVIOUS
<1>4. w \in Seq(HalfLines(S)) /\ Len(w) = 2 * L
  BY <1>1, <1>2, <1>3, WireIs
<1>5. PICK q \in 0..L, b \in {0, 1} : \E p \in 0..q :
        /\ 2 * q + b <= 2 * L /\ wire = SubSeq(w, 2 * q + b + 1, 2 * L) /\ r.buffer = HalfKept(lines, q, b)
        /\ r.lines = SubSeq(lines, p + 1, q) /\ r.event = LinesRead(answer)[p].event /\ sent \o r.events = Told(answer, p)
  BY <1>1, <1>2, <1>3 DEF UnderWay, ReadsOn
<1>6. PICK p \in 0..q :
        /\ 2 * q + b <= 2 * L /\ wire = SubSeq(w, 2 * q + b + 1, 2 * L) /\ r.buffer = HalfKept(lines, q, b)
        /\ r.lines = SubSeq(lines, p + 1, q) /\ r.event = LinesRead(answer)[p].event /\ sent \o r.events = Told(answer, p)
  BY <1>5
<1>7. PICK m \in Nat : m = 2 * q + b
  OBVIOUS
<1>8. m <= 2 * L /\ wire = SubSeq(w, m + 1, 2 * L) /\ q \in Nat /\ q <= L /\ p \in Nat /\ p <= q
  BY <1>6, <1>7
<1>21. PICK M \in Nat : M = 2 * L
  OBVIOUS
<1>22. m <= M /\ Len(w) = M /\ wire = SubSeq(w, m + 1, M)
  BY <1>4, <1>8, <1>21
<1>9. Len(wire) = M - m
  <2>1. PICK x \in Int, y \in Int : x = m + 1 /\ y = M
    OBVIOUS
  <2>2. \A i \in x..y : w[i] \in HalfLines(S)
    <3>1. \A i \in 1..Len(w) : w[i] \in HalfLines(S)
      BY <1>4
    <3>2. Len(w) = y /\ \A i \in x..y : i \in 1..y
      BY <1>22, <2>1
    <3> QED
      BY <3>1, <3>2
  <2>3. Len(SubSeq(w, x, y)) = (IF x <= y THEN y - x + 1 ELSE 0)
    BY <2>2, SubSeqProperties
  <2>4. (IF x <= y THEN y - x + 1 ELSE 0) = M - m
    <3>1. m <= M
      BY <1>22
    <3> QED
      BY <2>1, <3>1
  <2> QED
    BY <1>22, <2>1, <2>3, <2>4
<1>10. wire \in Seq(HalfLines(S))
  <2>1. \A i \in (m + 1)..M : w[i] \in HalfLines(S)
    <3>1. \A i \in 1..Len(w) : w[i] \in HalfLines(S)
      BY <1>4
    <3>2. Len(w) = M /\ \A i \in (m + 1)..M : i \in 1..M
      BY <1>22
    <3> QED
      BY <3>1, <3>2
  <2>2. PICK x \in Int, y \in Int : x = m + 1 /\ y = M
    OBVIOUS
  <2> QED
    BY <1>22, <2>1, <2>2, SubSeqProperties
<1>23. PICK z \in Nat : z = Len(wire)
  BY <1>10, LenProperties
<1>11. m + n <= M /\ n <= z /\ m + z = M
  BY <1>9, <1>22, <1>23
<1>12. SubSeq(wire, 1, n) = SubSeq(w, m + 1, m + n)
  <2>1. CASE n = 0
    <3>1. SubSeq(wire, 1, 0) = <<>> /\ SubSeq(w, m + 1, m) = <<>>
      BY SubSeqEmpty
    <3> QED
      BY <2>1, <3>1
  <2>2. CASE n # 0
    <3>0. m + 1 \in 1..M /\ M \in 1..M
      BY <1>11, <2>2
    <3>1. PICK i \in 1..Len(w), j \in 1..Len(w) : i = m + 1 /\ j = M
      BY <1>22, <3>0
    <3>2. 1 \in 1..(j - i + 1) /\ n \in 1..(j - i + 1)
      BY <1>11, <2>2, <3>1
    <3>3. SubSeq(SubSeq(w, i, j), 1, n) = SubSeq(w, i + 1 - 1, i + n - 1)
      BY <1>4, <3>2, SubSeqOfSubSeq
    <3>4. i + 1 - 1 = m + 1 /\ i + n - 1 = m + n
      BY <3>1
    <3> QED
      BY <1>22, <3>1, <3>3, <3>4
  <2> QED
    BY <2>1, <2>2
<1>13. SubSeq(wire, n + 1, Len(wire)) = SubSeq(w, m + n + 1, M)
  <2>1. CASE n = z
    <3>1. SubSeq(wire, n + 1, n) = <<>> /\ m + n = M
      BY <1>11, <2>1, SubSeqEmpty
    <3>2. SubSeq(w, m + n + 1, m + n) = <<>>
      BY SubSeqEmpty
    <3> QED
      BY <1>23, <2>1, <3>1, <3>2
  <2>2. CASE n # z
    <3>0. m + 1 \in 1..M /\ M \in 1..M
      BY <1>11, <2>2
    <3>1. PICK i \in 1..Len(w), j \in 1..Len(w) : i = m + 1 /\ j = M
      BY <1>22, <3>0
    <3>5. j - i + 1 = z /\ n + 1 \in 1..z /\ z \in 1..z
      BY <1>11, <2>2, <3>1
    <3>2. PICK h \in 1..(j - i + 1), k \in 1..(j - i + 1) : h = n + 1 /\ k = z
      BY <3>5
    <3>3. SubSeq(SubSeq(w, i, j), h, k) = SubSeq(w, i + h - 1, i + k - 1)
      BY <1>4, SubSeqOfSubSeq
    <3>4. i + h - 1 = m + n + 1 /\ i + k - 1 = M
      BY <1>11, <3>1, <3>2
    <3> QED
      BY <1>22, <1>23, <3>1, <3>2, <3>3, <3>4
  <2> QED
    BY <2>1, <2>2
<1>14. p = q
  <2> SUFFICES ASSUME p < q PROVE FALSE
    BY <1>8
  <2>1. PICK x \in Int : x = p + 1 /\ x <= q /\ x >= 1
    BY <1>8
  <2>2. \A i \in x..q : lines[i] \in S
    BY <1>2, <1>8, <2>1
  <2>3. Len(SubSeq(lines, x, q)) = q - x + 1
    BY <1>8, <2>1, <2>2, SubSeqProperties
  <2>4. Len(<<>>) = 0 /\ q - x + 1 # 0
    BY <1>8, <2>1
  <2> QED
    BY <1>6, <2>1, <2>3, <2>4
<1>15. PICK t \in q..L, c \in {0, 1} :
         /\ 2 * t + c = 2 * q + b + n
         /\ DrainSseLines(HalfKept(lines, q, b), SubSeq(HalvesOf(lines), 2 * q + b + 1, 2 * q + b + n)) = Drained(lines, q, t, c)
  <2>1. 2 * q + b + n <= 2 * Len(lines)
    BY <1>2, <1>7, <1>11, <1>21
  <2>2. lines \in Seq(S) /\ q \in Nat
    BY <1>1
  <2>3. \E t \in q..Len(lines), c \in {0, 1} :
         /\ 2 * t + c = 2 * q + b + n
         /\ DrainSseLines(HalfKept(lines, q, b), SubSeq(HalvesOf(lines), 2 * q + b + 1, 2 * q + b + n)) = Drained(lines, q, t, c)
    BY <2>1, <2>2, ChunkDrained, ZenonT(60)
  <2> QED
    BY <1>2, <2>3
<1>16. PICK drained : drained = DrainSseLines(r.buffer, SubSeq(wire, 1, n))
  OBVIOUS
<1>17. drained.buffer = HalfKept(lines, t, c) /\ drained.lines = SubSeq(lines, p + 1, t)
  <2>1. drained = Drained(lines, q, t, c)
    BY <1>3, <1>6, <1>7, <1>12, <1>15, <1>16
  <2> QED
    BY <1>14, <2>1 DEF Drained
<1>18. PICK s : s = [r EXCEPT !.buffer = drained.buffer, !.lines = drained.lines]
  OBVIOUS
<1>24. WithChunk(r, SubSeq(wire, 1, n)) = s
  BY <1>16, <1>18 DEF WithChunk
<1>19. s.buffer = drained.buffer /\ s.lines = drained.lines /\ s.provider = r.provider /\ s.event = r.event /\ s.events = r.events
  BY <1>18 DEF IsReader
<1>20. ReadsOn(answer, sent, SubSeq(w, m + n + 1, M), s)
  <2>0. 2 * t + c = 2 * q + b + n
    BY <1>15
  <2>2. 2 * t + c = m + n
    BY <1>7, <2>0
  <2>1. t \in 0..L /\ p \in 0..t /\ 2 * t + c = m + n /\ 2 * t + c <= 2 * L
    BY <1>11, <1>14, <1>21, <2>2
  <2> QED
    BY <1>1, <1>2, <1>3, <1>6, <1>17, <1>19, <1>21, <2>1 DEF ReadsOn
<1> QED
  BY <1>13, <1>19, <1>20, <1>24 DEF UnderWay

(* A line: its events follow those told so far.                            *)
LEMMA LineParsed ==
  ASSUME NEW answer \in Answers, NEW sent, NEW left, NEW r, IsReader(r), UnderWay(answer, sent, left, r),
         r.lines # <<>>, r.events = <<>>, sent \in Seq(EventSet(answer))
  PROVE  UnderWay(answer, sent, left, WithLine(r))
<1>1. PICK lines, S : lines = answer.lines /\ lines \in Seq(S) /\ S = ToSet(lines)
  BY AnswerIs
<1>2. PICK L \in Nat : L = Len(lines) /\ \A i \in 1..L : lines[i] \in S
  BY <1>1, LenProperties
<1>3. PICK q \in 0..L, b \in {0, 1} : \E p \in 0..q :
        /\ 2 * q + b <= 2 * L /\ left = SubSeq(HalvesOf(lines), 2 * q + b + 1, 2 * L) /\ r.buffer = HalfKept(lines, q, b)
        /\ r.lines = SubSeq(lines, p + 1, q) /\ r.event = LinesRead(answer)[p].event /\ sent \o r.events = Told(answer, p)
  BY <1>1, <1>2 DEF UnderWay, ReadsOn
<1>4. PICK p \in 0..q :
        /\ 2 * q + b <= 2 * L /\ left = SubSeq(HalvesOf(lines), 2 * q + b + 1, 2 * L) /\ r.buffer = HalfKept(lines, q, b)
        /\ r.lines = SubSeq(lines, p + 1, q) /\ r.event = LinesRead(answer)[p].event /\ sent \o r.events = Told(answer, p)
  BY <1>3
<1>5. q \in Nat /\ q <= L /\ p \in Nat /\ p <= q
  OBVIOUS
<1>6. p < q
  <2> SUFFICES ASSUME p = q PROVE FALSE
    BY <1>5
  <2>1. SubSeq(lines, q + 1, q) = <<>>
    BY <1>5, SubSeqEmpty
  <2> QED
    BY <1>4, <2>1
<1>7. PICK k \in 1..L : k = p + 1 /\ k \in 1..q /\ k - 1 = p
  BY <1>5, <1>6
<1>8. Head(r.lines) = lines[k] /\ Tail(r.lines) = SubSeq(lines, k + 1, q)
  <2>1. k \in 1..Len(lines) /\ q \in k..Len(lines)
    BY <1>2, <1>5, <1>7
  <2> QED
    BY <1>1, <1>4, <1>7, <2>1, HeadTailOfSubSeq
<1>9. PICK parsed : parsed = Line(r.provider, r.event, Head(r.lines))
  OBVIOUS
<1>10. parsed = LinesRead(answer)[k]
  <2>1. LinesRead(answer)[k] = Line(answer.provider, LinesRead(answer)[k - 1].event, answer.lines[k])
    BY <1>1, <1>2, LinesReadIs
  <2> QED
    BY <1>1, <1>4, <1>7, <1>8, <1>9, <2>1 DEF UnderWay
<1>11. parsed.events \in Seq(EventsIn(answer)) /\ Told(answer, k) = Told(answer, k - 1) \o parsed.events
  BY <1>1, <1>2, <1>10, EventsAreTold
<1>12. sent \o parsed.events = Told(answer, k)
  <2>1. sent = Told(answer, p)
    <3>1. sent \o <<>> = Told(answer, p)
      BY <1>4
    <3> QED
      BY <3>1, ConcatEmptySeq
  <2> QED
    BY <1>7, <1>11, <2>1
<1>13. PICK s : s = [r EXCEPT !.lines = Tail(@), !.event = parsed.event, !.events = parsed.events]
  OBVIOUS
<1>16. WithLine(r) = s
  BY <1>9, <1>13 DEF WithLine
<1>14. s.lines = Tail(r.lines) /\ s.event = parsed.event /\ s.events = parsed.events /\ s.provider = r.provider /\ s.buffer = r.buffer
  BY <1>13 DEF IsReader
<1>15. ReadsOn(answer, sent, left, s)
  <2>1. k \in 0..q
    BY <1>7
  <2> QED
    BY <1>1, <1>2, <1>4, <1>8, <1>10, <1>12, <1>14, <2>1 DEF ReadsOn
<1> QED
  BY <1>11, <1>14, <1>15, <1>16 DEF UnderWay

(* A reader that sends an end and is gone.                                 *)
LEMMA EndSent ==
  ASSUME NEW answer \in Answers, NEW sent \in Seq(EventSet(answer)), NEW left, NEW r, UnderWay(answer, sent, left, r),
         NEW last \in Ends, NEW why,
         why = "done" => /\ last = Done
                         /\ \/ r.events # <<>> /\ Head(r.events) = Done
                            \/ r.lines = <<>> /\ r.events = <<>> /\ left = <<>>
  PROVE  Over(answer, Append(sent, last), why)
<1>1. PICK tail \in Seq(EventSet(answer)) :
        /\ UntilDone(EventsOf(answer)) = sent \o tail
        /\ (r.events # <<>> /\ Head(r.events) = Done) => tail = <<Done>>
        /\ (r.lines = <<>> /\ r.events = <<>> /\ left = <<>>) => tail = <<Done>>
  BY SentIs
<1>2. \A i \in 1..Len(sent) : sent[i] \notin Ends
  BY DEF UnderWay
<1> QED
  BY <1>1, <1>2 DEF Over

(* An event more is told and no longer to be sent.                         *)
LEMMA OneSent ==
  ASSUME NEW answer \in Answers, NEW sent \in Seq(EventSet(answer)), NEW left, NEW r, IsReader(r),
         UnderWay(answer, sent, left, r), r.events # <<>>, Head(r.events) # Done
  PROVE  UnderWay(answer, Append(sent, Head(r.events)), left, [r EXCEPT !.events = Tail(@)])
<1>1. PICK S : S = EventSet(answer)
  OBVIOUS
<1>2. EventsIn(answer) \subseteq S
  BY <1>1 DEF EventSet
<1>3. PICK ev, h, t : ev = r.events /\ h = Head(ev) /\ t = Tail(ev)
  OBVIOUS
<1>4. ev \in Seq(EventsIn(answer)) /\ ev # <<>>
  BY <1>3 DEF UnderWay
<1>5. h \in EventsIn(answer) /\ t \in Seq(EventsIn(answer)) /\ ev = <<h>> \o t
  <2>1. h \in EventsIn(answer) /\ t \in Seq(EventsIn(answer)) /\ Len(t) = Len(ev) - 1 /\ \A i \in 1..Len(t) : t[i] = ev[i + 1]
    BY <1>3, <1>4, HeadTailProperties
  <2>2. h = ev[1] /\ Len(ev) \in Nat /\ Len(ev) >= 1
    BY <1>3, <1>4
  <2>3. 1 \in 1..Len(ev) /\ Len(ev) \in 1..Len(ev)
    BY <2>2
  <2>4. SubSeq(ev, 1, Len(ev)) = <<ev[1]>> \o SubSeq(ev, 2, Len(ev))
    BY <1>4, <2>3, SubSeqRecursiveFirst
  <2>5. SubSeq(ev, 1, Len(ev)) = ev
    BY <1>4, SubSeqFull
  <2>6. t = SubSeq(ev, 2, Len(ev))
    BY <1>3, <1>4, TailIsSubSeq
  <2> QED
    BY <2>1, <2>2, <2>4, <2>5, <2>6
<1>6. h \in S /\ t \in Seq(S) /\ sent \in Seq(S)
  BY <1>1, <1>2, <1>5
<1>7. PICK more : more = Append(sent, h)
  OBVIOUS
<1>8. more = sent \o <<h>> /\ <<h>> \in Seq(S)
  BY <1>6, <1>7, AppendIsConcat
<1>9. more \o t = sent \o ev
  <2>1. (sent \o <<h>>) \o t = sent \o (<<h>> \o t)
    BY <1>6, <1>8, ConcatAssociative
  <2> QED
    BY <1>5, <1>8, <2>1
<1>10. h \notin Ends
  <2>1. StreamError \notin EventsIn(answer)
    BY AnswerIs, EventsAreTold
  <2> QED
    BY <1>3, <1>5, <2>1 DEF Ends
<1>11. \A i \in 1..Len(more) : more[i] \notin Ends
  <2>1. Len(sent) \in Nat /\ Len(more) = Len(sent) + 1 /\ more[Len(sent) + 1] = h /\ \A i \in 1..Len(sent) : more[i] = sent[i]
    BY <1>6, <1>7, AppendProperties, LenProperties
  <2>2. \A i \in 1..Len(sent) : sent[i] \notin Ends
    BY DEF UnderWay
  <2>3. \A i \in 1..Len(more) : i \in 1..Len(sent) \/ i = Len(sent) + 1
    BY <2>1
  <2> QED
    BY <1>10, <2>1, <2>2, <2>3
<1>12. PICK s : s = [r EXCEPT !.events = Tail(@)]
  OBVIOUS
<1>13. /\ s.events = t /\ s.lines = r.lines /\ s.event = r.event /\ s.provider = r.provider /\ s.buffer = r.buffer
  BY <1>3, <1>12 DEF IsReader
<1>14. ReadsOn(answer, more, left, s)
  <2>1. more \o s.events = sent \o r.events
    BY <1>3, <1>9, <1>13
  <2> QED
    BY <1>13, <2>1 DEF UnderWay, ReadsOn
<1> QED
  BY <1>3, <1>5, <1>7, <1>11, <1>12, <1>13, <1>14 DEF UnderWay

(* Events of a stream, as the caller has them and will have them.          *)
LEMMA Handed ==
  ASSUME NEW S, NEW s \in Seq(S), NEW c \in Seq(S), NEW e \in S
  PROVE  s \o c \in Seq(S) /\ Append(c, e) \in Seq(S) /\ s \o Append(c, e) = Append(s \o c, e)
<1>1. Append(c, e) = c \o <<e>> /\ <<e>> \in Seq(S)
  BY AppendIsConcat
<1>2. s \o c \in Seq(S)
  BY ConcatProperties
<1>3. Append(s \o c, e) = (s \o c) \o <<e>>
  BY <1>2, AppendIsConcat
<1>4. (s \o c) \o <<e>> = s \o (c \o <<e>>)
  BY <1>1, ConcatAssociative
<1>5. Append(c, e) \in Seq(S)
  BY AppendProperties
<1> QED
  BY <1>1, <1>2, <1>3, <1>4, <1>5

(* The reader sends an event, or finds that nobody takes it.               *)
LEMMA SendKeeps == ASSUME StreamInv, Send PROVE StreamInv'
<1>1. /\ reader.at = "reading" /\ reader.events # <<>> /\ UNCHANGED <<llm, received, wire>>
      /\ IsReader(reader)
  BY DEF Send, StreamInv
<1>2. CASE ~Held
  <2>1. reader' = Gone("closed") /\ channel' = channel
    BY <1>2 DEF Send
  <2>2. IsReader(reader') /\ reader'.at = "gone"
    BY <2>1 DEF Gone, NoReader, IsReader
  <2>3. llm.at # "streaming"
    BY <1>2 DEF Held
  <2> QED
    BY <1>1, <2>2, <2>3, ReaderMoves
<1>3. CASE Held
  <2>1. PICK answer \in Answers : /\ answer = llm.answer /\ received \in Seq(EventSet(answer)) /\ channel \in Seq(EventSet(answer))
                                  /\ UnderWay(answer, received \o channel, wire, reader)
    BY <1>1, <1>3 DEF StreamInv, Held
  <2>2. PICK h : h = Head(reader.events) /\ h \in EventsIn(answer)
    <3>1. reader.events \in Seq(EventsIn(answer))
      BY <2>1 DEF UnderWay
    <3> QED
      BY <1>1, <3>1, HeadTailProperties
  <2>3. h \in EventSet(answer)
    BY <2>2 DEF EventSet
  <2>4. channel' = Append(channel, h) /\ reader' = (IF h = Done THEN Gone("done") ELSE [reader EXCEPT !.events = Tail(@)])
    BY <1>3, <2>2 DEF Send
  <2>5. PICK sent \in Seq(EventSet(answer)) : sent = received \o channel
    BY <2>1, <2>3, Handed
  <2>6. channel' \in Seq(EventSet(answer)) /\ received \o channel' = Append(sent, h)
    BY <2>1, <2>3, <2>4, <2>5, Handed
  <2>7. CASE h = Done
    <3>1. IsReader(reader') /\ reader'.at = "gone" /\ reader'.why = "done"
      BY <2>4, <2>7 DEF Gone, NoReader, IsReader
    <3>2. Done \in Ends
      BY DEF Ends
    <3>3. Over(answer, Append(sent, Done), "done")
      BY <1>1, <2>1, <2>2, <2>5, <2>7, <3>2, EndSent
    <3> QED
      BY <1>1, <2>1, <2>6, <2>7, <3>1, <3>3, ReaderMoves
  <2>8. CASE h # Done
    <3>1. PICK r : r = [reader EXCEPT !.events = Tail(@)]
      OBVIOUS
    <3>2. UnderWay(answer, Append(sent, h), wire, r)
      BY <1>1, <2>1, <2>2, <2>5, <2>8, <3>1, OneSent
    <3>3. reader' = r /\ IsReader(r) /\ r.at = "reading"
      BY <1>1, <2>4, <2>8, <3>1 DEF IsReader
    <3> QED
      BY <1>1, <2>1, <2>6, <3>2, <3>3, ReaderMoves
  <2> QED
    BY <2>7, <2>8
<1> QED
  BY <1>2, <1>3

(* The connection ends or breaks.                                          *)
LEMMA EndingKeeps ==
  ASSUME StreamInv, NEW event \in Ends, NEW why, Ending(event, why), why = "done" => event = Done /\ wire = <<>>
  PROVE  StreamInv'
<1>1. /\ reader.at = "reading" /\ reader.events = <<>> /\ reader.lines = <<>> /\ UNCHANGED <<llm, received, wire>>
      /\ reader' = Gone(why)
  BY DEF Ending, Waiting
<1>2. IsReader(reader') /\ reader'.at = "gone" /\ reader'.why = why
  BY <1>1 DEF Gone, NoReader, IsReader
<1>3. CASE ~Held
  <2>1. llm.at # "streaming"
    BY <1>3 DEF Held
  <2> QED
    BY <1>1, <1>2, <2>1, ReaderMoves
<1>4. CASE Held
  <2>1. PICK answer \in Answers : /\ answer = llm.answer /\ received \in Seq(EventSet(answer)) /\ channel \in Seq(EventSet(answer))
                                  /\ UnderWay(answer, received \o channel, wire, reader)
    BY <1>1, <1>4 DEF StreamInv, Held
  <2>2. event \in EventSet(answer)
    BY DEF EventSet, Ends
  <2>3. channel' = Append(channel, event)
    BY <1>4 DEF Ending
  <2>4. PICK sent \in Seq(EventSet(answer)) : sent = received \o channel
    BY <2>1, <2>2, Handed
  <2>5. channel' \in Seq(EventSet(answer)) /\ received \o channel' = Append(sent, event)
    BY <2>1, <2>2, <2>3, <2>4, Handed
  <2>6. Over(answer, Append(sent, event), why)
    BY <1>1, <2>1, <2>4, EndSent
  <2> QED
    BY <1>1, <1>2, <2>1, <2>5, <2>6, ReaderMoves
<1> QED
  BY <1>3, <1>4

(* The caller takes an event.                                              *)
LEMMA TakingKeeps == ASSUME StreamInv, Take PROVE StreamInv'
<1>1. llm.at = "streaming" /\ channel # <<>> /\ UNCHANGED <<llm, wire, reader>>
  BY DEF Take, Held
<1>2. PICK S : S = EventSet(llm.answer) /\ received \in Seq(S) /\ channel \in Seq(S)
  BY <1>1 DEF StreamInv
<1>3. PICK h, t : h = Head(channel) /\ t = Tail(channel) /\ received' = Append(received, h) /\ channel' = t
  BY DEF Take
<1>4. h \in S /\ t \in Seq(S) /\ channel = <<h>> \o t
  <2>1. h \in S /\ t \in Seq(S)
    BY <1>1, <1>2, <1>3, HeadTailProperties
  <2>2. h = channel[1] /\ Len(channel) \in Nat /\ Len(channel) >= 1
    BY <1>1, <1>2, <1>3
  <2>3. 1 \in 1..Len(channel) /\ Len(channel) \in 1..Len(channel)
    BY <2>2
  <2>4. SubSeq(channel, 1, Len(channel)) = <<channel[1]>> \o SubSeq(channel, 2, Len(channel))
    BY <1>2, <2>3, SubSeqRecursiveFirst
  <2>5. SubSeq(channel, 1, Len(channel)) = channel
    BY <1>2, SubSeqFull
  <2>6. t = SubSeq(channel, 2, Len(channel))
    BY <1>1, <1>2, <1>3, TailIsSubSeq
  <2> QED
    BY <2>1, <2>2, <2>4, <2>5, <2>6
<1>5. received' \in Seq(S) /\ received' = received \o <<h>> /\ <<h>> \in Seq(S)
  <2>1. PICK told : told = received /\ told \in Seq(S)
    BY <1>2
  <2>2. h \in S
    BY <1>4
  <2>3. Append(told, h) \in Seq(S)
    BY <2>1, <2>2, AppendProperties
  <2>4. Append(told, h) = told \o <<h>>
    BY <2>1, <2>2, AppendIsConcat
  <2>5. <<h>> \in Seq(S)
    BY <2>2
  <2> QED
    BY <1>3, <2>1, <2>3, <2>4, <2>5
<1>6. received' \o channel' = received \o channel
  <2>1. (received \o <<h>>) \o t = received \o (<<h>> \o t)
    BY <1>2, <1>4, <1>5, ConcatAssociative
  <2> QED
    BY <1>3, <1>4, <1>5, <2>1
<1> QED
  BY <1>1, <1>2, <1>3, <1>4, <1>5, <1>6 DEF StreamInv

(* The reader reads a chunk of half lines.                                 *)
LEMMA ChunkKeeps == ASSUME StreamInv, NEW n \in 1..MaxChunk, ReadChunk(n) PROVE StreamInv'
<1>1. /\ reader.at = "reading" /\ reader.lines = <<>> /\ reader.events = <<>> /\ n <= Len(wire) /\ n \in Nat
      /\ UNCHANGED <<llm, received, channel>> /\ IsReader(reader)
  BY DEF ReadChunk, Waiting, StreamInv
<1>2. PICK r : r = WithChunk(reader, SubSeq(wire, 1, n))
  OBVIOUS
<1>4. reader' = r /\ wire' = SubSeq(wire, n + 1, Len(wire))
  BY <1>2 DEF ReadChunk, WithChunk
<1>5. IsReader(r) /\ r.at = "reading"
  BY <1>1, <1>2 DEF IsReader, WithChunk
<1>6. ASSUME llm.at = "streaming"
      PROVE  channel' \in Seq(EventSet(llm.answer)) /\ UnderWay(llm.answer, received \o channel', wire', r)
  <2>1. PICK answer \in Answers : /\ answer = llm.answer /\ channel \in Seq(EventSet(answer))
                                  /\ UnderWay(answer, received \o channel, wire, reader)
    BY <1>1, <1>6 DEF StreamInv
  <2>2. PICK sent : sent = received \o channel
    OBVIOUS
  <2>3. UnderWay(answer, sent, SubSeq(wire, n + 1, Len(wire)), r)
    BY <1>1, <1>2, <2>1, <2>2, ChunkRead
  <2> QED
    BY <1>1, <1>4, <2>1, <2>2, <2>3
<1> QED
  BY <1>1, <1>4, <1>5, <1>6, ReaderMoves

(* The reader parses a line.                                               *)
LEMMA LineKeeps == ASSUME StreamInv, ParseLine PROVE StreamInv'
<1>1. /\ reader.at = "reading" /\ reader.lines # <<>> /\ reader.events = <<>>
      /\ UNCHANGED <<llm, received, channel, wire>> /\ IsReader(reader)
  BY DEF ParseLine, StreamInv
<1>2. PICK r : r = WithLine(reader)
  OBVIOUS
<1>4. reader' = r
  BY <1>2 DEF ParseLine, WithLine
<1>5. IsReader(r) /\ r.at = "reading"
  BY <1>1, <1>2 DEF IsReader, WithLine
<1>6. ASSUME llm.at = "streaming"
      PROVE  channel' \in Seq(EventSet(llm.answer)) /\ UnderWay(llm.answer, received \o channel', wire', r)
  <2>1. PICK answer \in Answers : /\ answer = llm.answer /\ channel \in Seq(EventSet(answer)) /\ received \in Seq(EventSet(answer))
                                  /\ UnderWay(answer, received \o channel, wire, reader)
    BY <1>1, <1>6 DEF StreamInv
  <2>2. PICK sent : sent = received \o channel /\ sent \in Seq(EventSet(answer))
    BY <2>1, ConcatProperties
  <2>3. UnderWay(answer, sent, wire, r)
    BY <1>1, <1>2, <2>1, <2>2, LineParsed
  <2> QED
    BY <1>1, <1>4, <2>1, <2>2, <2>3
<1> QED
  BY <1>1, <1>4, <1>5, <1>6, ReaderMoves

(* A call begins once the reader of the last is gone.                      *)
LEMMA BeginKeeps ==
  ASSUME StreamInv, NEW way, NEW request \in Requests, NEW answer \in Answers, Begin(way, request, answer)
  PROVE  StreamInv'
<1>1. /\ reader.at = "gone" /\ IsReader(reader) /\ llm.call \in Nat /\ UNCHANGED reader
      /\ channel' = <<>> /\ received' = <<>>
  BY DEF Begin, StreamInv, IsCall
<1>2. PICK k \in Nat : k = llm.call + 1
  BY <1>1
<1>3. PICK c : c = [at |-> "sent", call |-> k, method |-> way, request |-> request, answer |-> answer,
                   result |-> None, open |-> FALSE]
  OBVIOUS
<1>4. llm' = c /\ IsCall(c) /\ c.at = "sent" /\ c.request = request /\ c.answer = answer
  BY <1>2, <1>3 DEF Begin, IsCall
<1> QED
  BY <1>1, <1>4 DEF StreamInv

(* An end of a call, whatever it was.                                      *)
LEMMA IdleIs == ASSUME StreamInv PROVE IsCall(Idle) /\ Idle.at = "idle"
<1>0. PICK closed \in BOOLEAN : closed = FALSE
  OBVIOUS
<1>1. PICK call : call = llm.call
  OBVIOUS
<1>2. PICK n : n = [at |-> "idle", call |-> 0, method |-> None, request |-> None, answer |-> None,
                    result |-> None, open |-> closed]
  OBVIOUS
<1>3. [n EXCEPT !.call = call]
        = [at |-> "idle", call |-> call, method |-> None, request |-> None, answer |-> None,
           result |-> None, open |-> closed]
  BY <1>2
<1>4. Idle = [n EXCEPT !.call = call]
  BY <1>0, <1>1, <1>2, Zenon DEF Idle, NoCall
<1>5. call \in Nat
  BY <1>1 DEF StreamInv, IsCall
<1> QED
  BY <1>3, <1>4, <1>5 DEF IsCall

(* An answer, or a failure in its place.                                   *)
LEMMA AnsweredKeeps == ASSUME StreamInv, NEW result, Answered(result) PROVE StreamInv'
<1>0. IsCall(llm)
  BY DEF StreamInv
<1>1. PICK c : c = [llm EXCEPT !.at = "answered", !.result = result]
  OBVIOUS
<1>2. IsCall(c) /\ c.at = "answered" /\ c.request = llm.request /\ c.answer = llm.answer
  <2>1. c = [at |-> "answered", call |-> llm.call, method |-> llm.method, request |-> llm.request,
             answer |-> llm.answer, result |-> result, open |-> llm.open] /\ llm.call \in Nat
    BY <1>0, <1>1 DEF IsCall
  <2> QED
    BY <2>1 DEF IsCall
<1>3. llm' = c /\ UNCHANGED streamVars /\ llm.at = "sent"
  BY <1>1 DEF Answered
<1> QED
  BY <1>2, <1>3, CallGoesOn

(* What else a call does but a stream, and the exporter.                   *)
LEMMA OtherKeeps ==
  ASSUME StreamInv,
         \/ Report \/ ReturnResult \/ Cancel \/ StreamFails
         \/ ExportBatch \/ ShutdownExporter
  PROVE  StreamInv'
<1>0. IsCall(llm)
  BY DEF StreamInv
<1>2. CASE Report
  <2>1. PICK c : c = [llm EXCEPT !.at = "reported", !.open = exporter.open]
    OBVIOUS
  <2>2. IsCall(c) /\ c.at = "reported" /\ c.request = llm.request /\ c.answer = llm.answer
    <3>1. c = [at |-> "reported", call |-> llm.call, method |-> llm.method, request |-> llm.request,
               answer |-> llm.answer, result |-> llm.result, open |-> exporter.open] /\ llm.call \in Nat
      BY <1>0, <2>1 DEF IsCall
    <3> QED
      BY <3>1 DEF IsCall
  <2>3. llm' = c /\ UNCHANGED streamVars /\ llm.at = "answered"
    BY <1>2, <2>1 DEF Report
  <2> QED
    BY <2>2, <2>3, CallGoesOn
<1>3. CASE ReturnResult \/ Cancel \/ StreamFails
  <2>1. llm' = Idle /\ UNCHANGED streamVars
    BY <1>3 DEF ReturnResult, Cancel, StreamFails
  <2> QED
    BY <2>1, IdleIs, CallGoesOn
<1>4. CASE ExportBatch \/ ShutdownExporter
  <2>1. UNCHANGED <<llm, wire, reader, channel, received>>
    BY <1>4 DEF ExportBatch, ShutdownExporter, streamVars
  <2> QED
    BY <2>1 DEF StreamInv
<1> QED
  BY <1>2, <1>3, <1>4

(* Each step keeps the invariant of a stream.                              *)
LEMMA StepStream == ASSUME StreamInv, [ClientNext]_llmVars PROVE StreamInv'
<1>1. CASE \E way \in {"complete", "stream"}, request \in Requests, answer \in Answers : Begin(way, request, answer)
  BY <1>1, BeginKeeps
<1>2. CASE llm.at = "sent" /\ Answered(CompleteResult(llm.answer))
  BY <1>2, AnsweredKeeps
<1>3. CASE \E error \in Failures : Answered([ok |-> FALSE, error |-> error])
  BY <1>3, AnsweredKeeps
<1>4. CASE Report \/ ReturnResult \/ Cancel \/ StreamFails \/ ExportBatch \/ ShutdownExporter
  BY <1>4, OtherKeeps
<1>5. CASE OpenStream
  BY <1>5, StreamOpens
<1>6. CASE \E n \in 1..MaxChunk : ReadChunk(n)
  BY <1>6, ChunkKeeps
<1>7. CASE ParseLine
  BY <1>7, LineKeeps
<1>8. CASE Send
  BY <1>8, SendKeeps
<1>9. CASE Eof
  <2>1. PICK why : why = IF wire = <<>> THEN "done" ELSE "cut"
    OBVIOUS
  <2>2. why = "done" => wire = <<>>
    BY <2>1
  <2>3. Ending(Done, why) /\ Done \in Ends
    BY <1>9, <2>1 DEF Eof, Ends
  <2> QED
    BY <2>2, <2>3, EndingKeeps
<1>10. CASE Break
  <2>1. Ending(StreamError, "broken") /\ StreamError \in Ends
    BY <1>10 DEF Break, Ends
  <2> QED
    BY <2>1, EndingKeeps
<1>11. CASE Take
  BY <1>11, TakingKeeps
<1>12. CASE DropStream
  <2>1. llm' = Idle /\ channel' = <<>> /\ UNCHANGED <<reader>>
    BY <1>12 DEF DropStream
  <2> QED
    BY <2>1, IdleIs DEF StreamInv
<1>13. CASE UNCHANGED llmVars
  BY <1>13 DEF llmVars, StreamInv
<1> QED
  BY <1>1, <1>2, <1>3, <1>4, <1>5, <1>6, <1>7, <1>8, <1>9, <1>10, <1>11, <1>12, <1>13 DEF ClientNext, Reading

----------------------------------------------------------------------------
(* What a caller has of a stream.                                          *)

(* What a readable answer tells, by the assumption on answers.             *)
LEMMA AnswerTold ==
  ASSUME NEW answer \in Answers, Readable(answer), NEW events, events = UntilDone(EventsOf(answer))
  PROVE  /\ \A i \in DOMAIN events : events[i].type \in {"delta", "reasoning"} => events[i].text \in Seq(STRING)
         /\ Texts(events, "delta") = answer.content /\ Texts(events, "reasoning") = answer.reasoning
         /\ Rebuilt(events) = Whole(answer)
BY StreamAssumption

(* An event of another type has no text.                                   *)
LEMMA NoText ==
  ASSUME NEW e, NEW type, e.type # type
  PROVE  Texts(<<e>>, type) = <<>>
<1>1. PICK seqs : seqs = <<(<<>>)>>
  OBVIOUS
<1>2. [i \in DOMAIN <<e>> |-> IF <<e>>[i].type = type THEN <<e>>[i].text ELSE <<>>] = seqs
  <2>1. DOMAIN <<e>> = 1..1 /\ <<e>>[1] = e
    OBVIOUS
  <2>2. \A i \in 1..1 : i = 1
    OBVIOUS
  <2>3. [i \in DOMAIN <<e>> |-> IF <<e>>[i].type = type THEN <<e>>[i].text ELSE <<>>] = [i \in 1..1 |-> <<>>]
    BY <2>1, <2>2
  <2>4. [i \in 1..1 |-> <<>>] = <<(<<>>)>>
    OBVIOUS
  <2> QED
    BY <1>1, <2>3, <2>4
<1>3. seqs \in Seq(Seq({})) /\ seqs # <<>> /\ Len(seqs) = 1 /\ seqs[1] = <<>>
  BY <1>1
<1>4. PICK f \in [1..Len(seqs) -> Seq({})] : FlattenSeq(seqs) = f[Len(seqs)] /\ Appends(f, seqs)
  BY <1>3, FlattenedParts
<1>5. FlattenSeq(seqs) = <<>>
  BY <1>3, <1>4 DEF Appends
<1> QED
  BY <1>2, <1>5 DEF Texts

(* Sequences are over a set that has what they are together of.            *)
LEMMA ConcatOver ==
  ASSUME NEW S, NEW T, NEW u \in Seq(S), NEW v \in Seq(S), \A i \in 1..Len(u \o v) : (u \o v)[i] \in T
  PROVE  u \in Seq(T) /\ v \in Seq(T)
<1>1. PICK n \in Nat, k \in Nat : n = Len(u) /\ k = Len(v)
  BY LenProperties
<1>2. /\ Len(u \o v) = n + k
      /\ \A i \in 1..n : (u \o v)[i] = u[i]
      /\ \A i \in 1..k : (u \o v)[i + n] = v[i]
  <2>1. PICK w : w = u \o v
    OBVIOUS
  <2>2. Len(w) = n + k /\ \A i \in 1..(n + k) : w[i] = IF i <= n THEN u[i] ELSE v[i - n]
    BY <1>1, <2>1, ConcatProperties
  <2>3. \A i \in 1..n : w[i] = u[i]
    <3>1. \A i \in 1..n : i \in 1..(n + k) /\ i <= n
      OBVIOUS
    <3> QED
      BY <2>2, <3>1
  <2>4. \A i \in 1..k : w[i + n] = v[i]
    <3>1. \A i \in 1..k : i + n \in 1..(n + k) /\ ~(i + n <= n) /\ i + n - n = i
      OBVIOUS
    <3> QED
      BY <2>2, <3>1
  <2> QED
    BY <2>1, <2>2, <2>3, <2>4
<1>3. \A i \in 1..n : u[i] \in T
  <2>1. \A i \in 1..n : i \in 1..(n + k)
    OBVIOUS
  <2> QED
    BY <1>2, <2>1
<1>4. \A i \in 1..k : v[i] \in T
  <2>1. \A i \in 1..k : i + n \in 1..(n + k)
    OBVIOUS
  <2> QED
    BY <1>2, <2>1
<1>5. u \in [1..n -> T]
  BY <1>1, <1>3
<1>6. v \in [1..k -> T]
  BY <1>1, <1>4
<1> QED
  BY <1>5, <1>6, SeqDef

(* A sequence of one element.                                              *)
LEMMA Single == ASSUME NEW S, NEW e \in S PROVE <<e>> \in Seq(S)
OBVIOUS

(* Events whose texts are texts.                                           *)
Texted(S) == {e \in S : e.type \in {"delta", "reasoning"} => e.text \in Seq(STRING)}

(* Events that begin those an answer tells have the beginning of its texts.*)
LEMMA BeginningTold ==
  ASSUME NEW answer \in Answers, Readable(answer), NEW e \in Seq(EventSet(answer)), NEW tail \in Seq(EventSet(answer)),
         UntilDone(EventsOf(answer)) = e \o tail
  PROVE  /\ e \in Seq(Texted(EventSet(answer)))
         /\ IsPrefix(Texts(e, "delta"), answer.content) /\ IsPrefix(Texts(e, "reasoning"), answer.reasoning)
<1>1. PICK S : S = EventSet(answer)
  OBVIOUS
<1>2. PICK T : T = Texted(S)
  OBVIOUS
<1>3. PICK events : events = UntilDone(EventsOf(answer))
  OBVIOUS
<1>4. /\ \A i \in DOMAIN events : events[i].type \in {"delta", "reasoning"} => events[i].text \in Seq(STRING)
      /\ Texts(events, "delta") = answer.content /\ Texts(events, "reasoning") = answer.reasoning
  BY <1>3, AnswerTold
<1>5. events = e \o tail
  BY <1>3
<1>6. PICK n \in Nat, k \in Nat : n = Len(e) /\ k = Len(tail)
  BY LenProperties
<1>7. events \in Seq(S) /\ DOMAIN events = 1..(n + k) /\ \A i \in 1..(n + k) : events[i] = IF i <= n THEN e[i] ELSE tail[i - n]
  BY <1>1, <1>5, <1>6, ConcatProperties
<1>8. \A i \in 1..(n + k) : events[i] \in T
  <2>1. \A i \in 1..(n + k) : events[i] \in S
    BY <1>7
  <2> QED
    BY <1>2, <1>4, <1>7, <2>1 DEF Texted
<1>9. e \in Seq(T) /\ tail \in Seq(T)
  <2>1. Len(events) = n + k
    BY <1>7
  <2>2. \A i \in 1..Len(e \o tail) : (e \o tail)[i] \in T
    BY <1>5, <1>8, <2>1
  <2> QED
    BY <1>1, <2>2, ConcatOver
<1>11. ASSUME NEW type \in {"delta", "reasoning"} PROVE IsPrefix(Texts(e, type), Texts(events, type))
  <2>1. \A x \in T : x.type = type => x.text \in Seq(STRING)
    BY <1>2 DEF Texted
  <2>2. /\ Texts(e, type) \in Seq(STRING) /\ Texts(tail, type) \in Seq(STRING)
        /\ Texts(events, type) = Texts(e, type) \o Texts(tail, type)
    BY <1>5, <1>9, <2>1, TextsConcat
  <2> QED
    BY <2>2, PrefixOfConcat
<1> QED
  BY <1>1, <1>2, <1>4, <1>9, <1>11

(* What StreamMatchesComplete says of the events of a stream.              *)
Shown(answer, events) ==
  /\ \A i \in DOMAIN events : events[i] \in {Done, StreamError} => i = Len(events)
  /\ IsPrefix(Texts(events, "delta"), answer.content)
  /\ IsPrefix(Texts(events, "reasoning"), answer.reasoning)

(* It is true while the reader reads,                                      *)
LEMMA ShownUnderWay ==
  ASSUME NEW answer \in Answers, Readable(answer), NEW sent \in Seq(EventSet(answer)), NEW left, NEW r,
         UnderWay(answer, sent, left, r)
  PROVE  Shown(answer, sent)
<1>1. PICK tail \in Seq(EventSet(answer)) : UntilDone(EventsOf(answer)) = sent \o tail
  BY SentIs
<1>2. \A i \in 1..Len(sent) : sent[i] \notin {Done, StreamError}
  BY DEF UnderWay, Ends
<1>3. DOMAIN sent = 1..Len(sent)
  OBVIOUS
<1> QED
  BY <1>1, <1>2, <1>3, BeginningTold DEF Shown

(* and once it is gone, when a stream that is done is whole.               *)
LEMMA ShownOver ==
  ASSUME NEW answer \in Answers, Readable(answer), NEW sent, NEW why, Over(answer, sent, why)
  PROVE  Shown(answer, sent) /\ (why = "done" => Rebuilt(sent) = Whole(answer))
<1>1. PICK e \in Seq(EventSet(answer)), tail \in Seq(EventSet(answer)), last \in Ends :
        /\ sent = Append(e, last) /\ \A i \in 1..Len(e) : e[i] \notin Ends
        /\ UntilDone(EventsOf(answer)) = e \o tail
        /\ why = "done" => last = Done /\ tail = <<Done>>
  BY DEF Over
<1>2. PICK S : S = Texted(EventSet(answer))
  OBVIOUS
<1>3. e \in Seq(S) /\ IsPrefix(Texts(e, "delta"), answer.content) /\ IsPrefix(Texts(e, "reasoning"), answer.reasoning)
  BY <1>1, <1>2, BeginningTold
<1>4. last.type \notin {"delta", "reasoning"} /\ last \in EventSet(answer)
  BY DEF Ends, Done, StreamError, EventSet
<1>5. last \in S
  BY <1>2, <1>4 DEF Texted
<1>6. PICK u : u = <<last>>
  OBVIOUS
<1>11. u \in Seq(S)
  BY <1>5, <1>6, Single
<1>12. e \in Seq(S)
  BY <1>3
<1>7. sent = e \o u
  <2>1. Append(e, last) = e \o <<last>>
    BY <1>3, <1>5, AppendIsConcat
  <2> QED
    BY <1>1, <1>6, <2>1
<1>8. ASSUME NEW type \in {"delta", "reasoning"} PROVE Texts(sent, type) = Texts(e, type)
  <2>1. \A x \in S : x.type = type => x.text \in Seq(STRING)
    BY <1>2 DEF Texted
  <2>2. Texts(e, type) \in Seq(STRING) /\ Texts(e \o u, type) = Texts(e, type) \o Texts(u, type)
    BY <1>11, <1>12, <2>1, TextsConcat
  <2>3. Texts(u, type) = <<>>
    BY <1>4, <1>6, NoText
  <2>4. Texts(e, type) \o <<>> = Texts(e, type)
    BY <2>2, ConcatEmptySeq
  <2> QED
    BY <1>7, <2>2, <2>3, <2>4
<1>9. \A i \in DOMAIN sent : sent[i] \in {Done, StreamError} => i = Len(sent)
  <2>1. Len(e) \in Nat /\ Len(sent) = Len(e) + 1 /\ DOMAIN sent = 1..Len(sent) /\ \A i \in 1..Len(e) : sent[i] = e[i]
    BY <1>1, <1>3, <1>5, AppendProperties, LenProperties
  <2>2. \A i \in 1..Len(sent) : i \in 1..Len(e) \/ i = Len(sent)
    BY <2>1
  <2>3. \A i \in 1..Len(e) : sent[i] \notin {Done, StreamError}
    BY <1>1, <2>1 DEF Ends
  <2> QED
    BY <2>1, <2>2, <2>3
<1>10. ASSUME why = "done" PROVE Rebuilt(sent) = Whole(answer)
  <2>1. sent = e \o <<Done>>
    BY <1>1, <1>6, <1>7, <1>10
  <2>2. sent = UntilDone(EventsOf(answer))
    BY <1>1, <1>10, <2>1
  <2> QED
    BY <2>2, AnswerTold
<1> QED
  BY <1>3, <1>8, <1>9, <1>10 DEF Shown

(* The invariant has what a caller may expect of a stream in it.           *)
LEMMA StreamSays == StreamInv => StreamMatchesComplete
<1> SUFFICES ASSUME StreamInv, llm.at \in {"sent", "streaming"}, llm.method = "stream", Readable(llm.answer)
             PROVE  /\ BodiesMatch(llm.answer.provider, llm.request) /\ Shown(llm.answer, received \o channel)
                    /\ (reader.at = "gone" /\ reader.why = "done" /\ llm.at = "streaming") =>
                         Rebuilt(received \o channel) = Whole(llm.answer)
  BY DEF StreamMatchesComplete, BodiesMatch, Shown
<1>1. PICK answer \in Answers, request \in Requests : answer = llm.answer /\ request = llm.request
  BY DEF StreamInv
<1>2. BodiesMatch(answer.provider, request)
  BY <1>1, AnswerIs, BodiesAgree
<1>3. CASE llm.at = "sent"
  <2>1. received \o channel = <<>>
    BY <1>3 DEF StreamInv
  <2>2. PICK S : S = EventSet(answer)
    OBVIOUS
  <2>3. Done \in S /\ EventsIn(answer) \subseteq S /\ <<>> \in Seq(S)
    BY <2>2 DEF EventSet
  <2>4. PICK rest \in Seq(S) : EventsOf(answer) = <<>> \o rest
    <3>1. PICK p \in 0..Len(answer.lines) : p = 0
      BY AnswerIs, LenProperties
    <3>2. Told(answer, p) = <<>>
      BY <3>1, AnswerIs, EventsAreTold
    <3>3. PICK rest \in Seq(EventsIn(answer)) : EventsOf(answer) = Told(answer, p) \o rest
      BY <3>1, AnswerIs, EventsAreTold
    <3> QED
      BY <2>3, <3>2, <3>3
  <2>5. PICK none \in Seq(S) : none = <<>>
    BY <2>3
  <2>6. PICK tail \in Seq(S) : UntilDone(EventsOf(answer)) = <<>> \o tail
    <3>1. \A i \in 1..Len(none) : none[i] # Done
      <4>1. Len(none) = 0 /\ 1..0 = {}
        BY <2>5
      <4> QED
        BY <4>1
    <3>2. \E tail \in Seq(S) : UntilDone(none \o rest) = none \o tail
      BY <2>3, <3>1, UntilDoneIs
    <3> QED
      BY <2>4, <2>5, <3>2
  <2>7. IsPrefix(Texts(<<>>, "delta"), answer.content) /\ IsPrefix(Texts(<<>>, "reasoning"), answer.reasoning)
    BY <1>1, <2>2, <2>3, <2>6, BeginningTold
  <2>8. Shown(answer, <<>>)
    BY <2>7 DEF Shown
  <2> QED
    BY <1>1, <1>2, <1>3, <2>1, <2>8
<1>4. CASE llm.at = "streaming"
  <2>1. /\ received \in Seq(EventSet(answer)) /\ channel \in Seq(EventSet(answer)) /\ reader.at \in {"reading", "gone"}
        /\ reader.at = "reading" => UnderWay(answer, received \o channel, wire, reader)
        /\ reader.at = "gone" => Over(answer, received \o channel, reader.why)
    BY <1>1, <1>4 DEF StreamInv
  <2>2. PICK sent \in Seq(EventSet(answer)) : sent = received \o channel
    BY <2>1, ConcatProperties
  <2>3. CASE reader.at = "reading"
    BY <1>1, <1>2, <2>1, <2>2, <2>3, ShownUnderWay
  <2>4. CASE reader.at = "gone"
    BY <1>1, <1>2, <2>1, <2>2, <2>4, ShownOver
  <2> QED
    BY <2>1, <2>3, <2>4
<1> QED
  BY <1>3, <1>4

(* What a caller receives from a stream is what complete would have        *)
(* answered, however the connection cuts it and whenever it ends.          *)
THEOREM StreamsMatch == ClientSpec => []StreamMatchesComplete
<1>1. ClientInit => StreamInv
  BY InitStream
<1>2. StreamInv /\ [ClientNext]_llmVars => StreamInv'
  BY StepStream
<1>3. StreamInv => StreamMatchesComplete
  BY StreamSays
<1> QED
  BY <1>1, <1>2, <1>3, PTL DEF ClientSpec

----------------------------------------------------------------------------
(* The provider catalog: models by id.                                     *)

(* The first of some models with an id, and the last of some providers.    *)
LEMMA FirstAt ==
  ASSUME NEW S, NEW q \in Seq(S), NEW id
  PROVE  /\ HasModel(q, id) => \E k \in 1..Len(q) :
              /\ FirstPosition(q, id) = k /\ FirstModel(q, id) = q[k] /\ q[k].id = id
              /\ \A j \in 1..(k - 1) : q[j].id # id
         /\ ~HasModel(q, id) => FirstPosition(q, id) = 0
<1> DEFINE I == {i \in 1..Len(q) : q[i].id = id}
<1>1. Len(q) \in Nat /\ DOMAIN q = 1..Len(q) /\ I \in SUBSET Nat
  BY LenProperties
<1>2. FirstPosition(q, id) = IF I # {} THEN Min(I) ELSE 0
  BY DEF FirstPosition, SelectInSeq
<1>3. HasModel(q, id) <=> I # {}
  BY <1>1 DEF HasModel
<1>4. ASSUME I # {} PROVE Min(I) \in I /\ \A j \in 1..(Min(I) - 1) : q[j].id # id
  <2>1. Min(I) \in I /\ \A j \in I : Min(I) <= j
    BY <1>1, <1>4, LeastIs
  <2>2. ASSUME NEW j \in 1..(Min(I) - 1) PROVE q[j].id # id
    <3>1. j \in 1..Len(q) /\ ~(Min(I) <= j)
      BY <1>1, <2>1
    <3> QED
      BY <2>1, <3>1
  <2> QED
    BY <2>1, <2>2
<1>5. FirstModel(q, id) = q[FirstPosition(q, id)]
  BY DEF FirstModel
<1>6. CASE I # {}
  <2>1. Min(I) \in 1..Len(q) /\ q[Min(I)].id = id
    BY <1>4, <1>6
  <2> HIDE DEF I
  <2> QED
    BY <1>2, <1>3, <1>4, <1>5, <1>6, <2>1
<1>7. CASE I = {}
  <2> HIDE DEF I
  <2> QED
    BY <1>2, <1>3, <1>7
<1> QED
  BY <1>6, <1>7

(* and the first is where none before it is like it.                       *)
LEMMA FirstOnly ==
  ASSUME NEW S, NEW q \in Seq(S), NEW k \in 1..Len(q), \A j \in 1..(k - 1) : q[j].id # q[k].id
  PROVE  /\ HasModel(q, q[k].id) /\ FirstModel(q, q[k].id) = q[k]
         /\ FirstPosition(q, q[k].id) = k
<1>1. Len(q) \in Nat /\ DOMAIN q = 1..Len(q)
  BY LenProperties
<1>2. PICK id : id = q[k].id
  OBVIOUS
<1>3. HasModel(q, id)
  BY <1>1, <1>2 DEF HasModel
<1>4. PICK i \in 1..Len(q) :
        /\ FirstPosition(q, id) = i /\ FirstModel(q, id) = q[i] /\ q[i].id = id
        /\ \A j \in 1..(i - 1) : q[j].id # id
  BY <1>3, FirstAt
<1>5. i = k
  <2>1. i < k => i \in 1..(k - 1)
    BY <1>1
  <2>2. k < i => k \in 1..(i - 1)
    BY <1>1
  <2> QED
    BY <1>1, <1>2, <1>4, <2>1, <2>2
<1> QED
  BY <1>2, <1>3, <1>4, <1>5

(* A refreshed list has the same ids, each with what upstream says of it.  *)
LEMMA RefreshIs ==
  ASSUME NEW q \in Seq(Models), NEW fresh \in Seq(Models)
  PROVE  /\ Refresh(q, fresh) \in Seq(Models) /\ Len(Refresh(q, fresh)) = Len(q)
         /\ \A i \in 1..Len(q) :
              /\ Refresh(q, fresh)[i].id = q[i].id
              /\ HasModel(fresh, q[i].id) => Refresh(q, fresh)[i] = FirstModel(fresh, q[i].id)
              /\ ~HasModel(fresh, q[i].id) => Refresh(q, fresh)[i] = q[i]
<1>1. Len(q) \in Nat /\ DOMAIN q = 1..Len(q) /\ \A i \in 1..Len(q) : q[i] \in Models
  BY LenProperties, ElementOfSeq
<1>2. PICK n \in Nat : n = Len(q)
  BY LenProperties
<1>3. ASSUME NEW id, HasModel(fresh, id) PROVE FirstModel(fresh, id) \in Models /\ FirstModel(fresh, id).id = id
  <2>1. PICK k \in 1..Len(fresh) : FirstModel(fresh, id) = fresh[k] /\ fresh[k].id = id
    BY <1>3, FirstAt
  <2>2. fresh[k] \in Models
    BY ElementOfSeq
  <2> QED
    BY <2>1, <2>2
<1> DEFINE r == [i \in 1..n |-> IF HasModel(fresh, q[i].id) THEN FirstModel(fresh, q[i].id) ELSE q[i]]
<1>4. r = Refresh(q, fresh)
  BY <1>1, <1>2 DEF Refresh
<1>5. \A i \in 1..n : r[i] \in Models /\ r[i].id = q[i].id
  BY <1>1, <1>2, <1>3
<1>6. r \in Seq(Models) /\ Len(r) = n
  BY <1>5, IsASeq, LenProperties
<1> QED
  BY <1>2, <1>4, <1>5, <1>6

KeepNew(all, m) == IF HasModel(all, m.id) THEN all ELSE Append(all, m)

(* New models are appended one by one.                                     *)
LEMMA KeepFold ==
  ASSUME NEW models \in Seq(Models), NEW fresh \in Seq(Models)
  PROVE  \E p \in [0..Len(fresh) -> Seq(Models)] :
           /\ p[0] = models /\ p[Len(fresh)] = AppendNew(models, fresh)
           /\ \A k \in 1..Len(fresh) : p[k] = KeepNew(p[k - 1], fresh[k])
<1> DEFINE last == Len(fresh)
           Lists == Seq(Models)
           op == [q \in (1..last) \X Lists |-> KeepNew(q[2], fresh[q[1]])]
           P(h) == h = [s \in SUBSET (1..last) |-> IF s = {} THEN models ELSE KeepNew(h[s \ {Max(s)}], fresh[Max(s)])]
           fold == CHOOSE h : P(h)
<1>0. last \in Nat /\ DOMAIN fresh = 1..last /\ \A k \in 1..last : fresh[k] \in Models
  BY LenProperties, ElementOfSeq
<1> HIDE DEF last
<1>1. op \in [(1..last) \X Lists -> Lists]
  <2>1. ASSUME NEW q \in (1..last) \X Lists PROVE KeepNew(q[2], fresh[q[1]]) \in Lists
    BY <1>0, <2>1, AppendProperties DEF KeepNew
  <2> QED
    BY <2>1
<1>2. models \in Lists
  OBVIOUS
<1> HIDE DEF Lists
<1>3. P(fold)
  <2>1. PICK g \in [SUBSET (1..last) -> Lists] : Computes(g, last, Lists, models, op)
    <3> HIDE DEF op
    <3> QED
      BY <1>0, <1>1, <1>2, LeftRecursion
  <2>2. P(g)
    <3>1. \A s \in SUBSET (1..last) : s # {} => g[s] = KeepNew(g[s \ {Max(s)}], fresh[Max(s)])
      BY <2>1 DEF Computes
    <3> QED
      BY <2>1, <3>1 DEF Computes
  <2> HIDE DEF P
  <2> QED
    BY <2>2
<1>4. AppendNew(models, fresh) = fold[1..last]
  BY <1>0 DEF AppendNew, KeepNew, FoldLeft, MapThenFoldSet
<1>5. Follows(fold, last, Lists, models, op)
  <2>1. ASSUME NEW h, P(h) PROVE Follows(h, last, Lists, models, op)
    <3>1. \A s \in SUBSET (1..last) : s # {} => Max(s) \in 1..last
      BY <1>0, GreatestChooses DEF Chooses
    <3>2. h[{}] = models
      BY <2>1
    <3>3. ASSUME NEW s \in SUBSET (1..last), s # {}, h[s \ {Max(s)}] \in Lists
          PROVE  h[s] = op[<<Max(s), h[s \ {Max(s)}]>>]
      <4>1. h[s] = KeepNew(h[s \ {Max(s)}], fresh[Max(s)])
        BY <2>1, <3>3
      <4>2. <<Max(s), h[s \ {Max(s)}]>> \in (1..last) \X Lists
        BY <3>1, <3>3
      <4> QED
        BY <4>1, <4>2
    <3> QED
      BY <3>2, <3>3 DEF Follows
  <2> HIDE DEF P, fold
  <2> QED
    BY <1>3, <2>1
<1>6. PICK p \in [0..last -> Lists] : p[last] = fold[1..last] /\ Passes(p, last, models, op)
  <2> HIDE DEF op, fold
  <2> QED
    BY <1>0, <1>1, <1>2, <1>5, LeftFold
<1>7. ASSUME NEW k \in 1..last PROVE p[k] = KeepNew(p[k - 1], fresh[k])
  <2>1. k - 1 \in 0..last
    BY <1>0
  <2> QED
    BY <1>6, <2>1 DEF Passes
<1> QED
  BY <1>4, <1>6, <1>7 DEF last, Passes, Lists

(* What is left of a list after the first k upstream models: the list, and *)
(* after it the first of each id that it does not have.                    *)
Extended(q, fresh, k, r) ==
  /\ Len(q) <= Len(r)
  /\ \A i \in 1..Len(q) : r[i] = q[i]
  /\ \A j \in 1..k : HasModel(r, fresh[j].id)
  /\ \A i \in (Len(q) + 1)..Len(r) : \E j \in 1..k :
       r[i] = fresh[j] /\ \A h \in 1..(j - 1) : fresh[h].id # fresh[j].id
  /\ IsInjective(ModelIds(q)) => IsInjective(ModelIds(r))

(* One model more.                                                         *)
LEMMA KeptOne ==
  ASSUME NEW q \in Seq(Models), NEW fresh \in Seq(Models), NEW k \in 1..Len(fresh), NEW r \in Seq(Models),
         Extended(q, fresh, k - 1, r)
  PROVE  Extended(q, fresh, k, KeepNew(r, fresh[k]))
<1>1. Len(q) \in Nat /\ Len(r) \in Nat /\ Len(fresh) \in Nat /\ DOMAIN r = 1..Len(r)
  BY LenProperties
<1>2. 1..k = (1..(k - 1)) \cup {k}
  BY <1>1
<1>3. CASE HasModel(r, fresh[k].id)
  <2>1. \A j \in 1..k : HasModel(r, fresh[j].id)
    BY <1>2, <1>3 DEF Extended
  <2>2. \A i \in (Len(q) + 1)..Len(r) : \E j \in 1..k :
          r[i] = fresh[j] /\ \A h \in 1..(j - 1) : fresh[h].id # fresh[j].id
    BY <1>2 DEF Extended
  <2> QED
    BY <1>3, <2>1, <2>2 DEF Extended, KeepNew
<1>4. CASE ~HasModel(r, fresh[k].id)
  <2>1. PICK t \in Seq(Models) : t = Append(r, fresh[k]) /\ Len(t) = Len(r) + 1 /\ t[Len(r) + 1] = fresh[k]
                                 /\ \A i \in 1..Len(r) : t[i] = r[i]
    <3>1. PICK m \in Models : m = fresh[k]
      BY ElementOfSeq
    <3>2. /\ Append(r, m) \in Seq(Models) /\ Len(Append(r, m)) = Len(r) + 1 /\ Append(r, m)[Len(r) + 1] = m
          /\ \A i \in 1..Len(r) : Append(r, m)[i] = r[i]
      BY AppendProperties
    <3> QED
      BY <3>1, <3>2
  <2>2. DOMAIN t = 1..(Len(r) + 1)
    BY <2>1, LenProperties
  <2>3. Len(q) <= Len(t) /\ \A i \in 1..Len(q) : t[i] = q[i]
    BY <1>1, <2>1 DEF Extended
  <2>4. ASSUME NEW id, HasModel(r, id) PROVE HasModel(t, id)
    BY <1>1, <2>1, <2>2, <2>4 DEF HasModel
  <2>5. HasModel(t, fresh[k].id)
    BY <1>1, <2>1, <2>2 DEF HasModel
  <2>6. \A j \in 1..k : HasModel(t, fresh[j].id)
    BY <1>2, <2>4, <2>5 DEF Extended
  <2>7. \A h \in 1..(k - 1) : fresh[h].id # fresh[k].id
    BY <1>4 DEF Extended
  <2>8. ASSUME NEW i \in (Len(q) + 1)..Len(t)
        PROVE  \E j \in 1..k : t[i] = fresh[j] /\ \A h \in 1..(j - 1) : fresh[h].id # fresh[j].id
    <3>1. CASE i = Len(r) + 1
      BY <1>2, <2>1, <2>7, <3>1
    <3>2. CASE i # Len(r) + 1
      <4>1. i \in (Len(q) + 1)..Len(r) /\ i \in 1..Len(r)
        BY <1>1, <2>1, <3>2
      <4> QED
        BY <1>2, <2>1, <4>1 DEF Extended
    <3> QED
      BY <3>1, <3>2
  <2>9. ASSUME IsInjective(ModelIds(r)) PROVE IsInjective(ModelIds(t))
    <3>1. \A i \in 1..Len(r) : t[i].id # fresh[k].id
      BY <1>1, <1>4, <2>1 DEF HasModel
    <3>2. \A i, j \in 1..Len(r) : r[i].id = r[j].id => i = j
      BY <1>1, <2>9 DEF IsInjective, ModelIds
    <3>3. ASSUME NEW i \in 1..(Len(r) + 1), NEW j \in 1..(Len(r) + 1), t[i].id = t[j].id PROVE i = j
      <4>1. PICK n \in Nat : n = Len(r)
        BY LenProperties
      <4>2. (i \in 1..n \/ i = n + 1) /\ (j \in 1..n \/ j = n + 1)
        BY <4>1
      <4> QED
        BY <2>1, <3>1, <3>2, <3>3, <4>1, <4>2
    <3> QED
      BY <2>2, <3>3 DEF IsInjective, ModelIds
  <2> QED
    BY <1>4, <2>1, <2>3, <2>6, <2>8, <2>9 DEF Extended, KeepNew
<1> QED
  BY <1>3, <1>4

(* All of them.                                                            *)
LEMMA AppendNewIs ==
  ASSUME NEW q \in Seq(Models), NEW fresh \in Seq(Models)
  PROVE  AppendNew(q, fresh) \in Seq(Models) /\ Extended(q, fresh, Len(fresh), AppendNew(q, fresh))
<1>1. PICK n \in Nat : n = Len(fresh)
  BY LenProperties
<1>2. PICK p \in [0..n -> Seq(Models)] :
        p[0] = q /\ p[n] = AppendNew(q, fresh) /\ \A k \in 1..n : p[k] = KeepNew(p[k - 1], fresh[k])
  BY <1>1, KeepFold
<1> DEFINE U == {k \in 0..n : ~Extended(q, fresh, k, p[k])}
<1>3. 0 \notin U
  <2>1. Len(q) \in Nat
    BY LenProperties
  <2>2. Extended(q, fresh, 0, q)
    BY <2>1 DEF Extended
  <2> QED
    BY <1>2, <2>2
<1>4. ASSUME NEW k \in 1..n, k \in U PROVE k - 1 \in U
  <2>1. k - 1 \in 0..n /\ k \in 0..n
    OBVIOUS
  <2>2. p[k - 1] \in Seq(Models) /\ p[k] = KeepNew(p[k - 1], fresh[k])
    BY <1>2, <2>1
  <2> QED
    BY <1>1, <1>4, <2>1, <2>2, KeptOne
<1>5. U = {}
  <2>1. U \subseteq 0..n
    OBVIOUS
  <2> HIDE DEF U
  <2> QED
    BY <1>3, <1>4, <2>1, NothingFrom
<1>6. n \in 0..n
  OBVIOUS
<1> QED
  BY <1>1, <1>2, <1>5, <1>6

(* What has all ids already takes nothing more.                            *)
LEMMA NothingNew ==
  ASSUME NEW q \in Seq(Models), NEW fresh \in Seq(Models), \A j \in 1..Len(fresh) : HasModel(q, fresh[j].id)
  PROVE  AppendNew(q, fresh) = q
<1>1. PICK n \in Nat : n = Len(fresh)
  BY LenProperties
<1>2. PICK p \in [0..n -> Seq(Models)] :
        p[0] = q /\ p[n] = AppendNew(q, fresh) /\ \A k \in 1..n : p[k] = KeepNew(p[k - 1], fresh[k])
  BY <1>1, KeepFold
<1> DEFINE U == {k \in 0..n : p[k] # q}
<1>3. 0 \notin U
  BY <1>2
<1>4. ASSUME NEW k \in 1..n, k \in U PROVE k - 1 \in U
  <2>1. k - 1 \in 0..n /\ p[k] = KeepNew(p[k - 1], fresh[k]) /\ HasModel(q, fresh[k].id)
    BY <1>1, <1>2
  <2> QED
    BY <1>4, <2>1 DEF KeepNew
<1>5. U = {}
  <2>1. U \subseteq 0..n
    OBVIOUS
  <2> HIDE DEF U
  <2> QED
    BY <1>3, <1>4, <2>1, NothingFrom
<1>6. n \in 0..n
  OBVIOUS
<1> QED
  BY <1>2, <1>5, <1>6

(* Merging the models of a provider once more changes none, and the first  *)
(* merge keeps the ids that are there where they are.                      *)
LEMMA MergedModels ==
  ASSUME NEW q \in Seq(Models), NEW fresh \in Seq(Models), NEW r, r = AppendNew(Refresh(q, fresh), fresh)
  PROVE  /\ r \in Seq(Models) /\ Len(q) <= Len(r)
         /\ \A i \in 1..Len(q) : r[i] = Refresh(q, fresh)[i] /\ r[i].id = q[i].id
         /\ IsInjective(ModelIds(q)) => IsInjective(ModelIds(r))
         /\ Refresh(r, fresh) = r /\ AppendNew(r, fresh) = r
<1>1. PICK s \in Seq(Models) : s = Refresh(q, fresh) /\ Len(s) = Len(q)
                               /\ \A i \in 1..Len(q) : /\ s[i].id = q[i].id
                                                       /\ HasModel(fresh, q[i].id) => s[i] = FirstModel(fresh, q[i].id)
  BY RefreshIs
<1>2. r \in Seq(Models) /\ Extended(s, fresh, Len(fresh), r)
  BY <1>1, AppendNewIs
<1>3. Len(q) \in Nat /\ Len(r) \in Nat /\ Len(s) \in Nat /\ Len(fresh) \in Nat /\ DOMAIN q = 1..Len(q) /\ DOMAIN s = 1..Len(s)
  BY <1>1, <1>2, LenProperties
<1>4. ASSUME IsInjective(ModelIds(q)) PROVE IsInjective(ModelIds(r))
  <2>1. ModelIds(s) = ModelIds(q)
    BY <1>1, <1>3 DEF ModelIds
  <2> QED
    BY <1>2, <1>4, <2>1 DEF Extended
<1>5. ASSUME NEW i \in 1..Len(r), HasModel(fresh, r[i].id) PROVE r[i] = FirstModel(fresh, r[i].id)
  <2>1. CASE i \in 1..Len(q)
    <3>1. r[i] = s[i]
      BY <1>1, <1>2, <2>1 DEF Extended
    <3> QED
      BY <1>1, <1>5, <2>1, <3>1
  <2>2. CASE i \notin 1..Len(q)
    <3>1. i \in (Len(s) + 1)..Len(r)
      BY <1>1, <1>3, <2>2
    <3>2. PICK j \in 1..Len(fresh) : r[i] = fresh[j] /\ \A h \in 1..(j - 1) : fresh[h].id # fresh[j].id
      BY <1>2, <3>1 DEF Extended
    <3> QED
      BY <3>2, FirstOnly
  <2> QED
    BY <2>1, <2>2
<1>6. Refresh(r, fresh) = r
  <2>1. PICK t \in Seq(Models) :
          /\ t = Refresh(r, fresh) /\ Len(t) = Len(r)
          /\ \A i \in 1..Len(r) : /\ HasModel(fresh, r[i].id) => t[i] = FirstModel(fresh, r[i].id)
                                  /\ ~HasModel(fresh, r[i].id) => t[i] = r[i]
    BY <1>2, RefreshIs
  <2>2. \A i \in 1..Len(r) : t[i] = r[i]
    BY <1>5, <2>1
  <2> QED
    BY <1>2, <2>1, <2>2, SeqEqual
<1>7. AppendNew(r, fresh) = r
  BY <1>2, NothingNew DEF Extended
<1> QED
  BY <1>1, <1>2, <1>3, <1>4, <1>6, <1>7 DEF Extended

(* What upstream publishes becomes entries, and these descriptors.         *)
Keys == {"openai", "other", "zai"}
ModelEntries == [provider : Keys, id : STRING, cost : Costs, context : Limits, output : Limits, tools : BOOLEAN]

(* What upstream publishes is typed.                                       *)
LEMMA UpstreamTyped ==
  ASSUME NEW payload \in Payloads, NEW key
  PROVE  /\ key \in Keys => Entries(payload, key) \in Seq(ModelEntries)
         /\ UpstreamModels(payload, key) \in Seq(Models) /\ UpstreamApi(payload, key) \in STRING \cup {None}
<1>1. CASE key \notin DOMAIN payload
  <2>1. Entries(payload, key) = <<>> /\ UpstreamModels(payload, key) = <<>> /\ UpstreamApi(payload, key) = None
    BY <1>1 DEF Entries, UpstreamModels, UpstreamApi
  <2> QED
    BY <2>1
<1>2. CASE key \in DOMAIN payload
  <2>1. PICK raws \in Seq(RawModels) : raws = payload[key].models
    BY <1>2, CatalogAssumption
  <2>2. PICK n \in Nat : n = Len(raws) /\ DOMAIN raws = 1..n /\ \A i \in 1..n : raws[i] \in RawModels
    BY LenProperties, ElementOfSeq
  <2>3. Entries(payload, key) = [i \in 1..n |-> ModelEntry(key, raws[i])]
    BY <1>2, <2>1, <2>2 DEF Entries
  <2>4. ASSUME NEW raw \in RawModels
        PROVE  /\ key \in Keys => ModelEntry(key, raw) \in ModelEntries
               /\ Descriptor(ModelEntry(key, raw)) \in Models
    <3>1. Or(raw.tools, FALSE) \in BOOLEAN
      BY DEF Or, RawModels
    <3>2. raw.id \in STRING /\ raw.cost \in Costs /\ raw.context \in Limits /\ raw.output \in Limits
      BY DEF RawModels
    <3> QED
      BY <3>1, <3>2 DEF ModelEntry, ModelEntries, Descriptor, ModelDescriptor, Models, Limits
  <2>5. UpstreamModels(payload, key) = [i \in 1..n |-> Descriptor(ModelEntry(key, raws[i]))]
    BY <2>3 DEF UpstreamModels
  <2>6. UpstreamModels(payload, key) \in Seq(Models)
    <3>1. \A i \in 1..n : Descriptor(ModelEntry(key, raws[i])) \in Models
      BY <2>2, <2>4
    <3>2. UpstreamModels(payload, key) \in [1..n -> Models]
      BY <2>5, <3>1
    <3> QED
      BY <3>2, SeqDef
  <2>7. ASSUME key \in Keys PROVE Entries(payload, key) \in Seq(ModelEntries)
    <3>1. \A i \in 1..n : ModelEntry(key, raws[i]) \in ModelEntries
      BY <2>2, <2>4, <2>7
    <3>2. Entries(payload, key) \in [1..n -> ModelEntries]
      BY <2>3, <3>1
    <3> QED
      BY <3>2, SeqDef
  <2>8. UpstreamApi(payload, key) \in STRING \cup {None}
    BY <1>2, CatalogAssumption DEF UpstreamApi
  <2> QED
    BY <2>6, <2>7, <2>8
<1> QED
  BY <1>1, <1>2

(* What a merge leaves as it was, whatever it adds.                        *)
Keeps(was, is) ==
  /\ is.id = was.id
  /\ Len(was.models) <= Len(is.models) /\ \A i \in 1..Len(was.models) : is.models[i].id = was.models[i].id
  /\ IsInjective(ModelIds(was.models)) => IsInjective(ModelIds(is.models))
  /\ was.api \notin NotGiven => is.api = was.api
  /\ Resolve(was.id) = None => is = was

(* The merge of a provider that follows upstream.                          *)
LEMMA SyncedProvider ==
  ASSUME NEW svc \in Services, NEW payload \in Payloads, NEW key, key = Resolve(svc.id), key # None,
         NEW fresh, fresh = UpstreamModels(payload, key)
  PROVE  /\ fresh \in Seq(Models) /\ UpstreamApi(payload, key) \in STRING \cup {None}
         /\ MergeProvider(svc, payload) = [id |-> svc.id, api |-> FillOpt(svc.api, UpstreamApi(payload, key)),
                                           models |-> AppendNew(Refresh(svc.models, fresh), fresh)]
<1>2. fresh \in Seq(Models) /\ UpstreamApi(payload, key) \in STRING \cup {None}
  BY UpstreamTyped
<1>3. svc = [id |-> svc.id, api |-> svc.api, models |-> svc.models]
  BY DEF Services
<1>4. MergeProvider(svc, payload) =
        [svc EXCEPT !.models = AppendNew(Refresh(svc.models, fresh), fresh), !.api = FillOpt(svc.api, UpstreamApi(payload, key))]
  BY DEF MergeProvider
<1> QED
  BY <1>2, <1>3, <1>4

(* A merge keeps what there was, and a second one changes nothing.         *)
LEMMA MergeProviderIs ==
  ASSUME NEW svc \in Services, NEW payload \in Payloads
  PROVE  /\ MergeProvider(svc, payload) \in Services
         /\ Keeps(svc, MergeProvider(svc, payload))
         /\ MergeProvider(MergeProvider(svc, payload), payload) = MergeProvider(svc, payload)
<1>1. CASE Resolve(svc.id) = None
  <2>1. MergeProvider(svc, payload) = svc
    BY <1>1 DEF MergeProvider
  <2>2. svc.models \in Seq(Models) /\ Len(svc.models) \in Nat
    BY LenProperties DEF Services
  <2> QED
    BY <2>1, <2>2 DEF Keeps
<1>2. CASE Resolve(svc.id) # None
  <2>1. PICK key : key = Resolve(svc.id) /\ key # None
    BY <1>2
  <2>2. PICK fresh \in Seq(Models) : fresh = UpstreamModels(payload, key)
    BY <2>1, SyncedProvider
  <2>3. PICK models \in Seq(Models) : models = svc.models
    BY DEF Services
  <2>4. PICK r : r = AppendNew(Refresh(models, fresh), fresh)
    OBVIOUS
  <2>5. PICK api : api = FillOpt(svc.api, UpstreamApi(payload, key))
    OBVIOUS
  <2>6. PICK m : m = [id |-> svc.id, api |-> api, models |-> r]
    OBVIOUS
  <2>7. MergeProvider(svc, payload) = m
    BY <2>1, <2>2, <2>3, <2>4, <2>5, <2>6, SyncedProvider
  <2>8. /\ r \in Seq(Models) /\ Len(models) <= Len(r) /\ \A i \in 1..Len(models) : r[i].id = models[i].id
        /\ IsInjective(ModelIds(models)) => IsInjective(ModelIds(r))
        /\ Refresh(r, fresh) = r /\ AppendNew(r, fresh) = r
    BY <2>4, MergedModels
  <2>9. /\ api \in STRING \cup {None} /\ svc.id \in Names
        /\ svc.api \notin NotGiven => api = svc.api
        /\ FillOpt(api, UpstreamApi(payload, key)) = api
    <3>1. UpstreamApi(payload, key) \in STRING \cup {None}
      BY <2>1, <2>2, SyncedProvider
    <3> QED
      BY <2>5, <3>1 DEF FillOpt, Services
  <2>10. m \in Services
    BY <2>6, <2>8, <2>9 DEF Services
  <2>11. Keeps(svc, m)
    BY <1>2, <2>3, <2>6, <2>8, <2>9 DEF Keeps
  <2>12. MergeProvider(m, payload) = m
    <3>1. m.id = svc.id /\ m.models = r /\ m.api = api
      BY <2>6
    <3> QED
      BY <2>1, <2>2, <2>6, <2>8, <2>9, <2>10, <3>1, SyncedProvider
  <2> QED
    BY <2>7, <2>10, <2>11, <2>12
<1> QED
  BY <1>1, <1>2

(* To keep is transitive.                                                  *)
LEMMA KeptOn ==
  ASSUME NEW a \in Services, NEW b \in Services, NEW c \in Services, Keeps(a, b), Keeps(b, c)
  PROVE  Keeps(a, c)
<1>1. PICK l \in Nat, m \in Nat, n \in Nat : l = Len(a.models) /\ m = Len(b.models) /\ n = Len(c.models)
  <2>1. a.models \in Seq(Models) /\ b.models \in Seq(Models) /\ c.models \in Seq(Models)
    BY DEF Services
  <2> QED
    BY <2>1, LenProperties
<1>2. l <= m /\ m <= n
  BY <1>1 DEF Keeps
<1>3. \A i \in 1..l : c.models[i].id = a.models[i].id
  BY <1>1, <1>2 DEF Keeps
<1> QED
  BY <1>1, <1>2, <1>3 DEF Keeps

(* The merge of a catalog.                                                 *)
LEMMA MergeCatalogIs ==
  ASSUME NEW c \in Seq(Services), NEW payload \in Payloads
  PROVE  /\ MergeCatalog(c, payload) \in Seq(Services) /\ Len(MergeCatalog(c, payload)) = Len(c)
         /\ \A i \in 1..Len(c) : /\ MergeCatalog(c, payload)[i] = MergeProvider(c[i], payload)
                                 /\ Keeps(c[i], MergeCatalog(c, payload)[i])
         /\ MergeCatalog(MergeCatalog(c, payload), payload) = MergeCatalog(c, payload)
<1>1. PICK n \in Nat : n = Len(c) /\ DOMAIN c = 1..n /\ \A i \in 1..n : c[i] \in Services
  BY LenProperties, ElementOfSeq
<1>2. PICK r : r = [i \in 1..n |-> MergeProvider(c[i], payload)]
  OBVIOUS
<1>3. MergeCatalog(c, payload) = r
  BY <1>1, <1>2 DEF MergeCatalog
<1>4. \A i \in 1..n : r[i] = MergeProvider(c[i], payload) /\ r[i] \in Services /\ Keeps(c[i], r[i]) /\ MergeProvider(r[i], payload) = r[i]
  BY <1>1, <1>2, MergeProviderIs
<1>5. r \in Seq(Services) /\ Len(r) = n /\ DOMAIN r = 1..n
  BY <1>2, <1>4, IsASeq, LenProperties
<1>6. MergeCatalog(r, payload) = r
  BY <1>2, <1>4, <1>5 DEF MergeCatalog
<1> QED
  BY <1>1, <1>3, <1>4, <1>5, <1>6

(* What a merge says of a provider it does not change.                     *)
LEMMA UnchangedClean ==
  ASSUME NEW svc \in Services, NEW payload \in Payloads, Resolve(svc.id) # None, MergeProvider(svc, payload) = svc
  PROVE  Added(svc, payload) = {} /\ \A c \in Refreshed(svc, payload) : c.before = c.after
<1>1. PICK key : key = Resolve(svc.id) /\ key # None
  OBVIOUS
<1>2. PICK fresh \in Seq(Models) : fresh = UpstreamModels(payload, key)
  BY <1>1, SyncedProvider
<1>3. PICK models \in Seq(Models) : models = svc.models
  BY DEF Services
<1>4. AppendNew(Refresh(models, fresh), fresh) = models
  BY <1>1, <1>2, <1>3, SyncedProvider
<1>5. PICK n \in Nat : n = Len(models) /\ DOMAIN models = 1..n
  BY LenProperties
<1>6. \A i \in 1..n : Refresh(models, fresh)[i] = models[i]
  BY <1>4, <1>5, MergedModels
<1>7. Added(svc, payload) = {}
  BY <1>3, <1>5 DEF Added
<1>8. \A c \in Refreshed(svc, payload) : c.before = c.after
  BY <1>1, <1>2, <1>3, <1>5, <1>6 DEF Refreshed
<1> QED
  BY <1>7, <1>8

(* and of a catalog.                                                       *)
LEMMA CleanMerge ==
  ASSUME NEW c \in Seq(Services), NEW payload \in Payloads, MergeCatalog(c, payload) = c
  PROVE  IsClean(CatalogDiff(c, payload))
<1>1. ASSUME NEW svc \in Range(c) PROVE svc \in Services /\ MergeProvider(svc, payload) = svc
  <2>1. PICK i \in 1..Len(c) : svc = c[i]
    BY LenProperties DEF Range
  <2> QED
    BY <2>1, ElementOfSeq, MergeCatalogIs
<1>2. PICK T : T = {svc \in Range(c) : Resolve(svc.id) # None}
  OBVIOUS
<1>3. \A svc \in T : Added(svc, payload) = {} /\ \A change \in Refreshed(svc, payload) : change.before = change.after
  BY <1>1, <1>2, UnchangedClean
<1>4. UNION {Added(svc, payload) : svc \in T} = {}
  BY <1>3
<1>5. PICK all : all = UNION {Refreshed(svc, payload) : svc \in T}
  OBVIOUS
<1>6. \A change \in all : change.before = change.after
  BY <1>3, <1>5
<1> QED
  BY <1>2, <1>4, <1>5, <1>6 DEF CatalogDiff, IsClean

(* A merge lists every price it moves.                                     *)
LEMMA PricesListed ==
  ASSUME NEW c \in Seq(Services), NEW payload \in Payloads, NEW i \in DOMAIN c, NEW j \in DOMAIN c[i].models,
         Price(c[i].models[j]) # Price(MergeCatalog(c, payload)[i].models[j])
  PROVE  <<c[i].id, c[i].models[j].id>> \in CatalogDiff(c, payload).prices
<1>1. PICK svc \in Services : svc = c[i] /\ svc \in Range(c)
  BY LenProperties, ElementOfSeq DEF Range
<1>2. PICK models \in Seq(Models) : models = svc.models
  BY DEF Services
<1>3. MergeCatalog(c, payload)[i] = MergeProvider(svc, payload)
  BY <1>1, LenProperties, MergeCatalogIs
<1>4. Resolve(svc.id) # None
  BY <1>1, <1>3 DEF MergeProvider
<1>5. PICK key : key = Resolve(svc.id) /\ key # None
  BY <1>4
<1>6. PICK fresh \in Seq(Models) : fresh = UpstreamModels(payload, key)
  BY <1>5, SyncedProvider
<1>7. MergeProvider(svc, payload).models = AppendNew(Refresh(models, fresh), fresh)
  BY <1>2, <1>5, <1>6, SyncedProvider
<1>8. j \in 1..Len(models)
  BY <1>1, <1>2, LenProperties
<1>9. MergeProvider(svc, payload).models[j] = Refresh(models, fresh)[j]
  BY <1>7, <1>8, MergedModels
<1>10. PICK after : after = MergeProvider(svc, payload).models[j]
  OBVIOUS
<1>11. PICK change : change = [provider |-> svc.id, before |-> models[j], after |-> after]
  OBVIOUS
<1>12. change \in Refreshed(svc, payload)
  BY <1>1, <1>2, <1>5, <1>6, <1>9, <1>10, <1>11 DEF Refreshed
<1>13. Price(change.before) # Price(change.after) /\ change.provider = svc.id /\ change.before.id = models[j].id
  BY <1>1, <1>2, <1>3, <1>10, <1>11
<1> QED
  BY <1>1, <1>2, <1>4, <1>12, <1>13 DEF CatalogDiff

(* The last of some providers with an id.                                  *)
LEMMA LastAt ==
  ASSUME NEW c \in Seq(Services), NEW id
  PROVE  /\ \A i \in 1..Len(c) : c[i].id = id /\ (\A j \in (i + 1)..Len(c) : c[j].id # id) =>
              LastPosition(c, id) = i /\ GetProvider(c, id) = c[i]
         /\ (\A i \in 1..Len(c) : c[i].id # id) =>
              LastPosition(c, id) = 0 /\ GetProvider(c, id) = None
<1> DEFINE I == {i \in 1..Len(c) : c[i].id = id}
<1>1. PICK n \in Nat : n = Len(c)
  BY LenProperties
<1>2. LastPosition(c, id) = IF I # {} THEN Max(I) ELSE 0
  BY DEF LastPosition, SelectLastInSeq
<1>3. PICK at : at = LastPosition(c, id)
  OBVIOUS
<1>4. GetProvider(c, id) = IF at = 0 THEN None ELSE c[at]
  BY <1>3 DEF GetProvider
<1>5. ASSUME NEW i \in 1..n, c[i].id = id, \A j \in (i + 1)..n : c[j].id # id PROVE at = i
  <2>1. i \in I /\ \A j \in I : i >= j
    BY <1>1, <1>5
  <2>2. I \subseteq Nat
    OBVIOUS
  <2>3. Max(I) = i
    <3> HIDE DEF I
    <3>1. Max(I) \in I /\ \A y \in I : Max(I) >= y
      BY <2>1 DEF Max
    <3>2. i >= Max(I) /\ Max(I) >= i /\ i \in Nat /\ Max(I) \in Nat
      BY <2>1, <2>2, <3>1
    <3> QED
      BY <3>2
  <2> QED
    BY <1>2, <1>3, <2>1, <2>3
<1>6. ASSUME \A i \in 1..n : c[i].id # id PROVE at = 0
  <2>1. I = {}
    BY <1>1, <1>6
  <2> QED
    BY <1>2, <1>3, <2>1
<1>7. ASSUME NEW i \in 1..Len(c), c[i].id = id, \A j \in (i + 1)..Len(c) : c[j].id # id
      PROVE  LastPosition(c, id) = i /\ GetProvider(c, id) = c[i]
  <2>1. at = i /\ i # 0
    BY <1>1, <1>5, <1>7
  <2> QED
    BY <1>3, <1>4, <2>1
<1>8. ASSUME \A i \in 1..Len(c) : c[i].id # id
      PROVE  LastPosition(c, id) = 0 /\ GetProvider(c, id) = None
  BY <1>1, <1>3, <1>4, <1>6, <1>8
<1> QED
  BY <1>7, <1>8

(* A model takes the place of the first of its id, or the end.             *)
LEMMA SetModelIs ==
  ASSUME NEW q \in Seq(Models), NEW model \in Models, NEW r, r = SetModel(q, model)
  PROVE  /\ r \in Seq(Models)
         /\ HasModel(r, model.id) /\ FirstModel(r, model.id) = model
         /\ \A id : id # model.id /\ HasModel(q, id) => HasModel(r, id) /\ FirstModel(r, id) = FirstModel(q, id)
         /\ IsInjective(ModelIds(q)) => IsInjective(ModelIds(r))
<1>1. PICK n \in Nat : n = Len(q) /\ DOMAIN q = 1..n /\ \A i \in 1..n : q[i] \in Models
  BY LenProperties, ElementOfSeq
<1>2. CASE HasModel(q, model.id)
  <2>1. PICK k \in 1..n : FirstPosition(q, model.id) = k /\ q[k].id = model.id
                          /\ \A j \in 1..(k - 1) : q[j].id # model.id
    BY <1>1, <1>2, FirstAt
  <2>2. r = [q EXCEPT ![k] = model]
    BY <1>2, <2>1 DEF SetModel
  <2>3. /\ r \in [1..n -> Models] /\ \A i \in 1..n : r[i] = IF i = k THEN model ELSE q[i]
    BY <1>1, <2>2
  <2>4. r \in Seq(Models) /\ Len(r) = n /\ DOMAIN r = 1..n
    BY <2>3, SeqDef, LenProperties
  <2>5. \A i \in 1..n : r[i].id = q[i].id
    BY <2>1, <2>3
  <2>6. HasModel(r, model.id) /\ FirstModel(r, model.id) = model
    <3>1. \A j \in 1..(k - 1) : r[j].id # r[k].id
      BY <2>1, <2>5
    <3>2. r[k] = model
      BY <2>3
    <3> QED
      BY <2>4, <3>1, <3>2, FirstOnly
  <2>7. ASSUME NEW id, id # model.id, HasModel(q, id) PROVE HasModel(r, id) /\ FirstModel(r, id) = FirstModel(q, id)
    <3>1. PICK i \in 1..n : FirstModel(q, id) = q[i] /\ q[i].id = id /\ \A j \in 1..(i - 1) : q[j].id # id
      BY <1>1, <2>7, FirstAt
    <3>2. r[i] = q[i] /\ \A j \in 1..(i - 1) : r[j].id # r[i].id
      <4>1. i # k
        BY <2>1, <2>7, <3>1
      <4>2. \A j \in 1..(i - 1) : j \in 1..n
        BY <1>1
      <4> QED
        BY <2>3, <2>5, <3>1, <4>1, <4>2
    <3> QED
      BY <2>4, <3>1, <3>2, FirstOnly
  <2>8. ModelIds(r) = ModelIds(q)
    BY <1>1, <2>4, <2>5 DEF ModelIds
  <2> QED
    BY <2>4, <2>6, <2>7, <2>8
<1>3. CASE ~HasModel(q, model.id)
  <2>1. r = Append(q, model)
    BY <1>3 DEF SetModel
  <2>2. r \in Seq(Models) /\ Len(r) = n + 1 /\ r[n + 1] = model /\ \A i \in 1..n : r[i] = q[i]
    BY <1>1, <2>1, AppendProperties
  <2>3. DOMAIN r = 1..(n + 1)
    BY <2>2, LenProperties
  <2>4. \A i \in 1..n : r[i].id # model.id
    BY <1>1, <1>3, <2>2 DEF HasModel
  <2>5. HasModel(r, model.id) /\ FirstModel(r, model.id) = model
    <3>1. \A j \in 1..((n + 1) - 1) : r[j].id # r[n + 1].id
      BY <2>2, <2>4
    <3>2. n + 1 \in 1..Len(r)
      BY <2>2
    <3> QED
      BY <2>2, <3>1, <3>2, FirstOnly
  <2>6. ASSUME NEW id, id # model.id, HasModel(q, id) PROVE HasModel(r, id) /\ FirstModel(r, id) = FirstModel(q, id)
    <3>1. PICK i \in 1..n : FirstModel(q, id) = q[i] /\ q[i].id = id /\ \A j \in 1..(i - 1) : q[j].id # id
      BY <1>1, <2>6, FirstAt
    <3>2. \A j \in 1..(i - 1) : j \in 1..n
      BY <1>1
    <3>3. i \in 1..Len(r) /\ r[i] = q[i] /\ \A j \in 1..(i - 1) : r[j].id # r[i].id
      BY <2>2, <3>1, <3>2
    <3>4. HasModel(r, r[i].id) /\ FirstModel(r, r[i].id) = r[i]
      BY <2>2, <3>3, FirstOnly
    <3> QED
      BY <3>1, <3>3, <3>4
  <2>7. ASSUME IsInjective(ModelIds(q)) PROVE IsInjective(ModelIds(r))
    <3>1. \A i, j \in 1..n : q[i].id = q[j].id => i = j
      BY <1>1, <2>7 DEF IsInjective, ModelIds
    <3>2. ASSUME NEW i \in 1..(n + 1), NEW j \in 1..(n + 1), r[i].id = r[j].id PROVE i = j
      <4>1. (i \in 1..n \/ i = n + 1) /\ (j \in 1..n \/ j = n + 1)
        OBVIOUS
      <4> QED
        BY <2>2, <2>4, <3>1, <3>2, <4>1
    <3> QED
      BY <2>3, <3>2 DEF IsInjective, ModelIds
  <2> QED
    BY <2>2, <2>5, <2>6, <2>7
<1> QED
  BY <1>2, <1>3

(* No two providers have one id.                                           *)
Distinct(c) == \A i, j \in 1..Len(c) : c[i].id = c[j].id => i = j

(* With distinct ids, the last provider of an id is the one.               *)
LEMMA ProviderAt ==
  ASSUME NEW c \in Seq(Services), Distinct(c), NEW id
  PROVE  /\ \A i \in 1..Len(c) : c[i].id = id => LastPosition(c, id) = i /\ GetProvider(c, id) = c[i]
         /\ (\A i \in 1..Len(c) : c[i].id # id) => LastPosition(c, id) = 0 /\ GetProvider(c, id) = None
         /\ GetProvider(c, id) = None => \A i \in 1..Len(c) : c[i].id # id
<1>1. PICK n \in Nat : n = Len(c) /\ \A i \in 1..n : c[i] \in Services
  BY LenProperties, ElementOfSeq
<1>2. ASSUME NEW i \in 1..n, c[i].id = id
      PROVE  LastPosition(c, id) = i /\ GetProvider(c, id) = c[i] /\ GetProvider(c, id) # None
  <2>1. ASSUME NEW j \in (i + 1)..n PROVE c[j].id # id
    <3>1. j \in 1..n /\ j # i
      BY <1>1
    <3> QED
      BY <1>1, <1>2, <3>1 DEF Distinct
  <2>2. LastPosition(c, id) = i /\ GetProvider(c, id) = c[i]
    BY <1>1, <1>2, <2>1, LastAt
  <2> QED
    BY <1>1, <2>2, CatalogAssumption
<1>3. ASSUME \A i \in 1..n : c[i].id # id PROVE LastPosition(c, id) = 0 /\ GetProvider(c, id) = None
  BY <1>1, <1>3, LastAt
<1> QED
  BY <1>1, <1>2, <1>3

(* The descriptor of an entry.                                             *)
LEMMA DescriptorIs ==
  ASSUME NEW e \in ModelEntries
  PROVE  /\ Descriptor(e) \in Models /\ Descriptor(e).id = e.id /\ e.provider \in Keys
BY DEF ModelEntries, Descriptor, ModelDescriptor, Models, Limits

(* What an overlay leaves as it was.                                       *)
Overlaid(c) ==
  {v \in Seq(Services) : /\ Len(v) = Len(c)
                         /\ \A i \in 1..Len(c) : /\ v[i].id = c[i].id
                                                 /\ IsInjective(ModelIds(c[i].models)) => IsInjective(ModelIds(v[i].models))}

(* One entry is merged into its provider, and into no other.               *)
LEMMA OverlayOne ==
  ASSUME NEW c \in Seq(Services), Distinct(c), NEW v \in Overlaid(c), NEW e \in ModelEntries,
         NEW w, w = Overlay(c, v, e)
  PROVE  /\ w \in Overlaid(c)
         /\ \A i \in 1..Len(c) : IF c[i].id = e.provider THEN w[i].models = SetModel(v[i].models, Descriptor(e))
                                                         ELSE w[i] = v[i]
<1>1. PICK n \in Nat : n = Len(c) /\ n = Len(v) /\ DOMAIN v = 1..n /\ \A i \in 1..n : v[i] \in Services
  BY LenProperties, ElementOfSeq DEF Overlaid
<1>2. CASE \A i \in 1..n : c[i].id # e.provider
  <2>1. w = v
    BY <1>1, <1>2, ProviderAt DEF Overlay
  <2> QED
    BY <1>1, <1>2, <2>1
<1>3. CASE \E i \in 1..n : c[i].id = e.provider
  <2>1. PICK at \in 1..n : c[at].id = e.provider /\ LastPosition(c, e.provider) = at
    BY <1>1, <1>3, ProviderAt
  <2>2. PICK q \in Seq(Models) : q = v[at].models
    BY <1>1 DEF Services
  <2>3. PICK model \in Models : model = Descriptor(e)
    BY DescriptorIs
  <2>4. PICK r : r = SetModel(q, model)
    OBVIOUS
  <2>5. r \in Seq(Models) /\ (IsInjective(ModelIds(q)) => IsInjective(ModelIds(r)))
    BY <2>4, SetModelIs
  <2>6. w = [v EXCEPT ![at].models = r]
    <3>1. at # 0
      OBVIOUS
    <3> QED
      BY <2>1, <2>2, <2>3, <2>4, <3>1 DEF Overlay
  <2>7. PICK svc : svc = [v[at] EXCEPT !.models = r]
    OBVIOUS
  <2>8. svc \in Services /\ svc.id = v[at].id /\ svc.models = r
    BY <1>1, <2>5, <2>7 DEF Services
  <2>9. w \in [1..n -> Services] /\ \A i \in 1..n : w[i] = IF i = at THEN svc ELSE v[i]
    BY <1>1, <2>6, <2>7, <2>8
  <2>10. w \in Seq(Services) /\ Len(w) = n
    BY <2>9, SeqDef, LenProperties
  <2>11. \A i \in 1..n : /\ v[i].id = c[i].id
                         /\ IsInjective(ModelIds(c[i].models)) => IsInjective(ModelIds(v[i].models))
    BY <1>1 DEF Overlaid
  <2>12. \A i \in 1..n : /\ w[i].id = c[i].id
                         /\ IsInjective(ModelIds(c[i].models)) => IsInjective(ModelIds(w[i].models))
    BY <2>2, <2>5, <2>8, <2>9, <2>11
  <2>13. w \in Overlaid(c)
    BY <1>1, <2>10, <2>12 DEF Overlaid
  <2>14. \A i \in 1..n : c[i].id = e.provider => i = at
    BY <1>1, <2>1 DEF Distinct
  <2>15. ASSUME NEW i \in 1..n
         PROVE  IF c[i].id = e.provider THEN w[i].models = SetModel(v[i].models, Descriptor(e)) ELSE w[i] = v[i]
    BY <2>1, <2>2, <2>3, <2>4, <2>8, <2>9, <2>14
  <2> QED
    BY <1>1, <2>13, <2>15
<1> QED
  BY <1>2, <1>3

(* Entries are overlaid one by one,                                        *)
LEMMA KnownFold ==
  ASSUME NEW c \in Seq(Services), Distinct(c), NEW entries \in Seq(ModelEntries)
  PROVE  \E p \in [0..Len(entries) -> Overlaid(c)] :
           /\ p[0] = c /\ p[Len(entries)] = KnownProviders(c, entries)
           /\ \A k \in 1..Len(entries) : p[k] = Overlay(c, p[k - 1], entries[k])
<1> DEFINE last == Len(entries)
           Lists == Overlaid(c)
           op == [q \in (1..last) \X Lists |-> Overlay(c, q[2], entries[q[1]])]
           P(h) == h = [s \in SUBSET (1..last) |-> IF s = {} THEN c ELSE Overlay(c, h[s \ {Max(s)}], entries[Max(s)])]
           fold == CHOOSE h : P(h)
<1>0. last \in Nat /\ DOMAIN entries = 1..last /\ \A k \in 1..last : entries[k] \in ModelEntries
  BY LenProperties, ElementOfSeq
<1> HIDE DEF last
<1>1. op \in [(1..last) \X Lists -> Lists]
  <2>1. ASSUME NEW q \in (1..last) \X Lists PROVE Overlay(c, q[2], entries[q[1]]) \in Lists
    BY <1>0, <2>1, OverlayOne
  <2> QED
    BY <2>1
<1>2. c \in Lists
  BY DEF Overlaid
<1> HIDE DEF Lists
<1>3. P(fold)
  <2>1. PICK g \in [SUBSET (1..last) -> Lists] : Computes(g, last, Lists, c, op)
    <3> HIDE DEF op
    <3> QED
      BY <1>0, <1>1, <1>2, LeftRecursion
  <2>2. P(g)
    <3>1. \A s \in SUBSET (1..last) : s # {} => g[s] = Overlay(c, g[s \ {Max(s)}], entries[Max(s)])
      BY <2>1 DEF Computes
    <3> QED
      BY <2>1, <3>1 DEF Computes
  <2> HIDE DEF P
  <2> QED
    BY <2>2
<1>4. KnownProviders(c, entries) = fold[1..last]
  BY <1>0 DEF KnownProviders, FoldLeft, MapThenFoldSet
<1>5. Follows(fold, last, Lists, c, op)
  <2>1. ASSUME NEW h, P(h) PROVE Follows(h, last, Lists, c, op)
    <3>1. \A s \in SUBSET (1..last) : s # {} => Max(s) \in 1..last
      BY <1>0, GreatestChooses DEF Chooses
    <3>2. h[{}] = c
      BY <2>1
    <3>3. ASSUME NEW s \in SUBSET (1..last), s # {}, h[s \ {Max(s)}] \in Lists
          PROVE  h[s] = op[<<Max(s), h[s \ {Max(s)}]>>]
      <4>1. h[s] = Overlay(c, h[s \ {Max(s)}], entries[Max(s)])
        BY <2>1, <3>3
      <4>2. <<Max(s), h[s \ {Max(s)}]>> \in (1..last) \X Lists
        BY <3>1, <3>3
      <4> QED
        BY <4>1, <4>2
    <3> QED
      BY <3>2, <3>3 DEF Follows
  <2> HIDE DEF P, fold
  <2> QED
    BY <1>3, <2>1
<1>6. PICK p \in [0..last -> Lists] : p[last] = fold[1..last] /\ Passes(p, last, c, op)
  <2> HIDE DEF op, fold
  <2> QED
    BY <1>0, <1>1, <1>2, <1>5, LeftFold
<1>7. ASSUME NEW k \in 1..last PROVE p[k] = Overlay(c, p[k - 1], entries[k])
  <2>1. k - 1 \in 0..last
    BY <1>0
  <2> QED
    BY <1>6, <2>1 DEF Passes
<1> QED
  BY <1>4, <1>6, <1>7 DEF last, Passes, Lists

(* and those of unknown providers gathered one by one.                     *)
LEMMA UnknownFold ==
  ASSUME NEW c, NEW entries \in Seq(ModelEntries)
  PROVE  \E p \in [0..Len(entries) -> Seq(Models)] :
           /\ p[0] = <<>> /\ p[Len(entries)] = UnknownModels(c, entries)
           /\ \A k \in 1..Len(entries) : p[k] = Synthetic(c, p[k - 1], entries[k])
<1> DEFINE last == Len(entries)
           Lists == Seq(Models)
           op == [q \in (1..last) \X Lists |-> Synthetic(c, q[2], entries[q[1]])]
           P(h) == h = [s \in SUBSET (1..last) |-> IF s = {} THEN <<>> ELSE Synthetic(c, h[s \ {Max(s)}], entries[Max(s)])]
           fold == CHOOSE h : P(h)
<1>0. last \in Nat /\ DOMAIN entries = 1..last /\ \A k \in 1..last : entries[k] \in ModelEntries
  BY LenProperties, ElementOfSeq
<1> HIDE DEF last
<1>1. op \in [(1..last) \X Lists -> Lists]
  <2>1. ASSUME NEW q \in (1..last) \X Lists PROVE Synthetic(c, q[2], entries[q[1]]) \in Lists
    BY <1>0, <2>1, AppendProperties, DescriptorIs DEF Synthetic
  <2> QED
    BY <2>1
<1>2. <<>> \in Lists
  OBVIOUS
<1> HIDE DEF Lists
<1>3. P(fold)
  <2>1. PICK g \in [SUBSET (1..last) -> Lists] : Computes(g, last, Lists, <<>>, op)
    <3> HIDE DEF op
    <3> QED
      BY <1>0, <1>1, <1>2, LeftRecursion
  <2>2. P(g)
    <3>1. \A s \in SUBSET (1..last) : s # {} => g[s] = Synthetic(c, g[s \ {Max(s)}], entries[Max(s)])
      BY <2>1 DEF Computes
    <3> QED
      BY <2>1, <3>1 DEF Computes
  <2> HIDE DEF P
  <2> QED
    BY <2>2
<1>4. UnknownModels(c, entries) = fold[1..last]
  BY <1>0 DEF UnknownModels, FoldLeft, MapThenFoldSet
<1>5. Follows(fold, last, Lists, <<>>, op)
  <2>1. ASSUME NEW h, P(h) PROVE Follows(h, last, Lists, <<>>, op)
    <3>1. \A s \in SUBSET (1..last) : s # {} => Max(s) \in 1..last
      BY <1>0, GreatestChooses DEF Chooses
    <3>2. h[{}] = <<>>
      BY <2>1
    <3>3. ASSUME NEW s \in SUBSET (1..last), s # {}, h[s \ {Max(s)}] \in Lists
          PROVE  h[s] = op[<<Max(s), h[s \ {Max(s)}]>>]
      <4>1. h[s] = Synthetic(c, h[s \ {Max(s)}], entries[Max(s)])
        BY <2>1, <3>3
      <4>2. <<Max(s), h[s \ {Max(s)}]>> \in (1..last) \X Lists
        BY <3>1, <3>3
      <4> QED
        BY <4>1, <4>2
    <3> QED
      BY <3>2, <3>3 DEF Follows
  <2> HIDE DEF P, fold
  <2> QED
    BY <1>3, <2>1
<1>6. PICK p \in [0..last -> Lists] : p[last] = fold[1..last] /\ Passes(p, last, <<>>, op)
  <2> HIDE DEF op, fold
  <2> QED
    BY <1>0, <1>1, <1>2, <1>5, LeftFold
<1>7. ASSUME NEW k \in 1..last PROVE p[k] = Synthetic(c, p[k - 1], entries[k])
  <2>1. k - 1 \in 0..last
    BY <1>0
  <2> QED
    BY <1>6, <2>1 DEF Passes
<1> QED
  BY <1>4, <1>6, <1>7 DEF last, Passes, Lists

(* What the first k entries brought, the last of each model, is in v.      *)
Latest(entries, e, k) ==
  \A j \in (e + 1)..k : entries[j].provider = entries[e].provider => entries[j].id # entries[e].id

Brought(c, entries, k, v) ==
  \A e \in 1..k : \A i \in 1..Len(c) :
    c[i].id = entries[e].provider /\ Latest(entries, e, k) =>
      HasModel(v[i].models, entries[e].id) /\ FirstModel(v[i].models, entries[e].id) = Descriptor(entries[e])

(* One entry more.                                                         *)
LEMMA BroughtOne ==
  ASSUME NEW c \in Seq(Services), Distinct(c), NEW entries \in Seq(ModelEntries), NEW k \in 1..Len(entries),
         NEW v \in Overlaid(c), Brought(c, entries, k - 1, v), NEW w, w = Overlay(c, v, entries[k])
  PROVE  Brought(c, entries, k, w)
<1>1. PICK new \in ModelEntries : new = entries[k]
  BY ElementOfSeq
<1>2. \A i \in 1..Len(c) : IF c[i].id = new.provider THEN w[i].models = SetModel(v[i].models, Descriptor(new))
                                                     ELSE w[i] = v[i]
  BY <1>1, OverlayOne
<1>3. ASSUME NEW e \in 1..k, NEW i \in 1..Len(c), c[i].id = entries[e].provider, Latest(entries, e, k)
      PROVE  HasModel(w[i].models, entries[e].id) /\ FirstModel(w[i].models, entries[e].id) = Descriptor(entries[e])
  <2>1. PICK q \in Seq(Models) : q = v[i].models
    <3>1. v \in Seq(Services) /\ i \in 1..Len(v)
      BY DEF Overlaid
    <3>2. v[i] \in Services
      BY <3>1, ElementOfSeq
    <3> QED
      BY <3>2 DEF Services
  <2>2. PICK model \in Models : model = Descriptor(new) /\ model.id = new.id
    BY DescriptorIs
  <2>3. PICK r : r = SetModel(q, model)
    OBVIOUS
  <2>4. /\ HasModel(r, model.id) /\ FirstModel(r, model.id) = model
        /\ \A id : id # model.id /\ HasModel(q, id) => HasModel(r, id) /\ FirstModel(r, id) = FirstModel(q, id)
    BY <2>3, SetModelIs
  <2>5. CASE e = k
    BY <1>1, <1>2, <1>3, <2>1, <2>2, <2>3, <2>4, <2>5
  <2>6. CASE e # k
    <3>1. PICK n \in Nat : n = Len(entries)
      BY LenProperties
    <3>2. e \in 1..(k - 1) /\ k \in (e + 1)..k /\ \A j \in (e + 1)..(k - 1) : j \in (e + 1)..k
      BY <2>6, <3>1
    <3>3. Latest(entries, e, k - 1)
      BY <1>3, <3>2 DEF Latest
    <3>4. HasModel(q, entries[e].id) /\ FirstModel(q, entries[e].id) = Descriptor(entries[e])
      BY <1>3, <2>1, <3>2, <3>3 DEF Brought
    <3>5. CASE c[i].id = new.provider
      <4>1. entries[e].id # new.id
        BY <1>1, <1>3, <3>2, <3>5 DEF Latest
      <4>2. w[i].models = r
        BY <1>2, <2>1, <2>2, <2>3, <3>5
      <4> QED
        BY <2>2, <2>4, <3>4, <4>1, <4>2
    <3>6. CASE c[i].id # new.provider
      BY <1>2, <2>1, <3>4, <3>6
    <3> QED
      BY <3>5, <3>6
  <2> QED
    BY <2>5, <2>6
<1> QED
  BY <1>3 DEF Brought

(* All of them.                                                            *)
LEMMA KnownIs ==
  ASSUME NEW c \in Seq(Services), Distinct(c), NEW entries \in Seq(ModelEntries)
  PROVE  KnownProviders(c, entries) \in Overlaid(c) /\ Brought(c, entries, Len(entries), KnownProviders(c, entries))
<1>1. PICK n \in Nat : n = Len(entries)
  BY LenProperties
<1>2. PICK p \in [0..n -> Overlaid(c)] :
        p[0] = c /\ p[n] = KnownProviders(c, entries) /\ \A k \in 1..n : p[k] = Overlay(c, p[k - 1], entries[k])
  BY <1>1, KnownFold
<1> DEFINE U == {k \in 0..n : ~Brought(c, entries, k, p[k])}
<1>3. 0 \notin U
  BY DEF Brought
<1>4. ASSUME NEW k \in 1..n, k \in U PROVE k - 1 \in U
  <2>1. k - 1 \in 0..n /\ p[k - 1] \in Overlaid(c) /\ p[k] = Overlay(c, p[k - 1], entries[k])
    BY <1>2
  <2> QED
    BY <1>1, <1>4, <2>1, BroughtOne
<1>5. U = {}
  <2>1. U \subseteq 0..n
    OBVIOUS
  <2> HIDE DEF U
  <2> QED
    BY <1>3, <1>4, <2>1, NothingFrom
<1>6. n \in 0..n
  OBVIOUS
<1> QED
  BY <1>1, <1>2, <1>5, <1>6

(* The entries of unknown providers among the first k are in q.            *)
Gathered(c, entries, k, q) ==
  \A e \in 1..k : GetProvider(c, entries[e].provider) = None => \E j \in 1..Len(q) : q[j] = Descriptor(entries[e])

(* Every one of them is gathered.                                          *)
LEMMA UnknownIs ==
  ASSUME NEW c, NEW entries \in Seq(ModelEntries)
  PROVE  /\ UnknownModels(c, entries) \in Seq(Models)
         /\ Gathered(c, entries, Len(entries), UnknownModels(c, entries))
<1>1. PICK n \in Nat : n = Len(entries) /\ \A k \in 1..n : entries[k] \in ModelEntries
  BY LenProperties, ElementOfSeq
<1>2. PICK p \in [0..n -> Seq(Models)] :
        p[0] = <<>> /\ p[n] = UnknownModels(c, entries) /\ \A k \in 1..n : p[k] = Synthetic(c, p[k - 1], entries[k])
  <2>1. \E p \in [0..Len(entries) -> Seq(Models)] :
          /\ p[0] = <<>> /\ p[Len(entries)] = UnknownModels(c, entries)
          /\ \A k \in 1..Len(entries) : p[k] = Synthetic(c, p[k - 1], entries[k])
    BY UnknownFold
  <2> QED
    BY <1>1, <2>1
<1> DEFINE U == {k \in 0..n : ~Gathered(c, entries, k, p[k])}
<1>3. 0 \notin U
  BY DEF Gathered
<1>4. ASSUME NEW k \in 1..n, Gathered(c, entries, k - 1, p[k - 1]) PROVE Gathered(c, entries, k, p[k])
  <2>1. PICK q \in Seq(Models) : q = p[k - 1]
    <3>1. k - 1 \in 0..n
      OBVIOUS
    <3> QED
      BY <1>2, <3>1
  <2>2. PICK model \in Models : model = Descriptor(entries[k])
    BY <1>1, DescriptorIs
  <2>3. PICK l \in Nat : l = Len(q)
    BY LenProperties
  <2>4. p[k] = IF GetProvider(c, entries[k].provider) = None THEN Append(q, model) ELSE q
    BY <1>2, <2>1, <2>2 DEF Synthetic
  <2>5. 1..k = (1..(k - 1)) \cup {k}
    OBVIOUS
  <2>6. CASE GetProvider(c, entries[k].provider) = None
    <3>1. Len(p[k]) = l + 1 /\ p[k][l + 1] = model /\ \A j \in 1..l : p[k][j] = q[j]
      BY <2>3, <2>4, <2>6, AppendProperties
    <3>2. l + 1 \in 1..(l + 1) /\ \A j \in 1..l : j \in 1..(l + 1)
      BY <2>3
    <3>3. ASSUME NEW e \in 1..(k - 1), GetProvider(c, entries[e].provider) = None
          PROVE  \E j \in 1..Len(p[k]) : p[k][j] = Descriptor(entries[e])
      <4>1. PICK j \in 1..l : q[j] = Descriptor(entries[e])
        BY <1>4, <2>1, <2>3, <3>3 DEF Gathered
      <4> QED
        BY <3>1, <3>2, <4>1
    <3> QED
      BY <2>2, <2>5, <3>1, <3>2, <3>3 DEF Gathered
  <2>7. CASE GetProvider(c, entries[k].provider) # None
    <3>1. p[k] = p[k - 1]
      BY <2>1, <2>4, <2>7
    <3> QED
      BY <1>4, <2>5, <2>7, <3>1 DEF Gathered
  <2> QED
    BY <2>6, <2>7
<1>5. U = {}
  <2>1. U \subseteq 0..n /\ \A k \in 1..n : k \in U => k - 1 \in U
    BY <1>4
  <2> HIDE DEF U
  <2> QED
    BY <1>3, <2>1, NothingFrom
<1>6. n \in 0..n
  OBVIOUS
<1>7. UnknownModels(c, entries) \in Seq(Models)
  BY <1>2, <1>6
<1> QED
  BY <1>1, <1>2, <1>5, <1>6, <1>7

(* The limit of a provider is at least that of each of its models.         *)
LEMMA ContextLimitIs ==
  ASSUME NEW svc \in Services, NEW q \in Seq(Models), q = svc.models, NEW at \in 1..Len(q), q[at].limit # None
  PROVE  ContextLimit(svc) >= q[at].limit
<1>1. PICK n \in Nat : n = Len(q) /\ DOMAIN q = 1..n /\ \A j \in 1..n : q[j] \in Models
  BY LenProperties, ElementOfSeq
<1>2. \A j \in 1..n : q[j].limit # None => q[j].limit \in Nat
  BY <1>1 DEF Models, Limits
<1> DEFINE Bounds(k, b) == \A j \in 1..k : q[j].limit # None => q[j].limit <= b
           U == {k \in 0..n : ~\E b \in Nat : Bounds(k, b)}
<1>3. 0 \notin U
  OBVIOUS
<1>4. ASSUME NEW k \in 1..n, NEW b \in Nat, Bounds(k - 1, b) PROVE \E a \in Nat : Bounds(k, a)
  <2>1. 1..k = (1..(k - 1)) \cup {k} /\ \A j \in 1..(k - 1) : j \in 1..n
    BY <1>1
  <2>2. CASE q[k].limit = None
    <3>1. Bounds(k, b)
      BY <1>4, <2>1, <2>2
    <3> QED
      BY <3>1
  <2>3. CASE q[k].limit # None
    <3>1. PICK l \in Nat : l = q[k].limit
      BY <1>2, <2>3
    <3>2. PICK a \in Nat : l <= a /\ \A x \in Nat : x <= b => x <= a
      <4>1. l <= b + l /\ b + l \in Nat /\ \A x \in Nat : x <= b => x <= b + l
        OBVIOUS
      <4> QED
        BY <4>1
    <3>3. ASSUME NEW j \in 1..k, q[j].limit # None PROVE q[j].limit <= a
      <4>1. CASE j = k
        BY <3>1, <3>2, <4>1
      <4>2. CASE j # k
        <5>1. j \in 1..(k - 1) /\ q[j].limit \in Nat
          BY <1>2, <2>1, <3>3, <4>2
        <5>2. PICK x \in Nat : x = q[j].limit /\ x <= b
          BY <1>4, <3>3, <5>1
        <5>3. x <= a
          BY <3>2, <5>2
        <5> QED
          BY <5>2, <5>3
      <4> QED
        BY <4>1, <4>2
    <3> QED
      BY <3>3
  <2> QED
    BY <2>2, <2>3
<1>5. U = {}
  <2>1. U \subseteq 0..n
    OBVIOUS
  <2>2. ASSUME NEW k \in 1..n, k \in U PROVE k - 1 \in U
    <3>1. k - 1 \in 0..n
      OBVIOUS
    <3> QED
      BY <1>4, <2>2, <3>1
  <2> HIDE DEF U
  <2> QED
    BY <1>3, <2>1, <2>2, NothingFrom
<1>6. PICK b \in Nat : Bounds(n, b)
  <2>1. n \in 0..n
    OBVIOUS
  <2> QED
    BY <1>5, <2>1
<1>7. PICK known : known = KnownLimits(svc)
  OBVIOUS
<1>8. /\ \A x \in known : x \in Nat /\ x <= b
      /\ q[at].limit \in known
  <2>1. known = {m.limit : m \in Range(q)} \ {None}
    BY <1>7 DEF KnownLimits
  <2>2. \A x \in known : \E j \in 1..n : x = q[j].limit /\ q[j].limit # None
    BY <1>1, <2>1 DEF Range
  <2>3. q[at] \in Range(q)
    BY <1>1 DEF Range
  <2> QED
    BY <1>2, <1>6, <2>1, <2>2, <2>3
<1>9. PICK x \in known : \A y \in known : y <= x
  <2>1. known \subseteq Nat
    BY <1>8
  <2> QED
    BY <1>8, <2>1, BoundedGreatest
<1>10. Max(known) \in known /\ \A y \in known : Max(known) >= y
  <2>1. \A y \in known : x >= y
    BY <1>8, <1>9
  <2> QED
    BY <1>9, <2>1 DEF Max
<1>11. ContextLimit(svc) = Max(known)
  BY <1>7, <1>8 DEF ContextLimit
<1> QED
  BY <1>8, <1>10, <1>11

(* A model that one provider lists is found there.                         *)
LEMMA FoundOnce ==
  ASSUME NEW c \in Seq(Services), NEW id, NEW at \in 1..Len(c), HasModel(c[at].models, id),
         \A j \in 1..Len(c) : HasModel(c[j].models, id) => j = at
  PROVE  FindModel(c, id) = FirstModel(c[at].models, id)
<1> DEFINE I == {i \in 1..Len(c) : HasModel(c[i].models, id)}
<1>1. I = {at} /\ at \in Nat /\ at # 0
  OBVIOUS
<1>2. PICK first : first = SelectInSeq(c, LAMBDA p : HasModel(p.models, id))
  OBVIOUS
<1>3. first = at
  <2>1. first = IF I # {} THEN Min(I) ELSE 0
    BY <1>2 DEF SelectInSeq
  <2>2. Min(I) \in I
    <3> HIDE DEF I
    <3> QED
      BY <1>1, LeastIs
  <2> HIDE DEF I
  <2> QED
    BY <1>1, <2>1, <2>2
<1>4. FindModel(c, id) = IF first = 0 THEN None ELSE FirstModel(c[first].models, id)
  BY <1>2 DEF FindModel
<1> QED
  BY <1>1, <1>3, <1>4

(* The providers there were, each as it was overlaid, and perhaps one more. *)
Indexed(n, overlaid, known, unknown) ==
  /\ overlaid \in Seq(Services)
  /\ \A i \in 1..n : i \in 1..Len(overlaid) /\ overlaid[i] = known[i]
  /\ Len(overlaid) = n \/ Len(overlaid) = n + 1
  /\ Len(overlaid) = n + 1 => overlaid[n + 1].id = "discovered" /\ overlaid[n + 1].models = unknown
  /\ unknown # <<>> => Len(overlaid) = n + 1

(* This is an index after an overlay.                                      *)
LEMMA IndexIs ==
  ASSUME NEW c \in Seq(Services), Distinct(c), NEW entries \in Seq(ModelEntries)
  PROVE  Indexed(Len(c), WithDiscovered(c, entries), KnownProviders(c, entries), UnknownModels(c, entries))
<1> SUFFICES ASSUME NEW overlaid, overlaid = WithDiscovered(c, entries), NEW unknown, unknown = UnknownModels(c, entries), NEW n, n = Len(c)
             PROVE  Indexed(n, overlaid, KnownProviders(c, entries), unknown)
  OBVIOUS
<1>1. PICK known \in Seq(Services) : known = KnownProviders(c, entries) /\ Len(known) = n
  BY KnownIs DEF Overlaid
<1>2. n \in Nat /\ DOMAIN known = 1..n
  BY <1>1, LenProperties
<1>3. unknown \in Seq(Models)
  BY UnknownIs
<1>4. PICK synth : synth = ServiceDescriptor("discovered", None, unknown)
  OBVIOUS
<1>5. synth \in Services /\ synth.id = "discovered" /\ synth.models = unknown
  BY <1>3, <1>4 DEF ServiceDescriptor, Services, Names
<1>6. CASE unknown = <<>>
  <2>1. overlaid = known \o <<>>
    BY <1>1, <1>6 DEF WithDiscovered
  <2>2. overlaid = known
    BY <1>1, <2>1, ConcatEmptySeq
  <2>3. \A i \in 1..n : i \in 1..Len(overlaid) /\ overlaid[i] = known[i]
    BY <1>1, <2>2
  <2>4. Len(overlaid) # n + 1
    BY <1>1, <1>2, <2>2
  <2> QED
    BY <1>1, <1>2, <1>6, <2>2, <2>3, <2>4 DEF Indexed
<1>7. CASE unknown # <<>>
  <2>1. overlaid = known \o <<synth>>
    BY <1>1, <1>4, <1>7 DEF WithDiscovered
  <2>2. <<synth>> \in Seq(Services) /\ Len(<<synth>>) = 1 /\ <<synth>>[1] = synth
    BY <1>5
  <2>3. /\ overlaid \in Seq(Services) /\ Len(overlaid) = n + 1 /\ \A i \in 1..n : overlaid[i] = known[i]
        /\ overlaid[n + 1] = synth
    <3>1. PICK one \in Seq(Services) : one = <<synth>> /\ Len(one) = 1 /\ one[1] = synth
      BY <2>2
    <3>2. /\ known \o one \in Seq(Services) /\ Len(known \o one) = Len(known) + Len(one)
          /\ \A i \in 1..(Len(known) + Len(one)) :
               (known \o one)[i] = IF i <= Len(known) THEN known[i] ELSE one[i - Len(known)]
      BY <1>1, <3>1, ConcatProperties
    <3>3. \A i \in 1..(n + 1) : overlaid[i] = IF i <= n THEN known[i] ELSE one[i - n]
      BY <1>1, <2>1, <3>1, <3>2
    <3>4. n + 1 \in 1..(n + 1) /\ ~(n + 1 <= n) /\ (n + 1) - n = 1 /\ \A i \in 1..n : i \in 1..(n + 1) /\ i <= n
      BY <1>2
    <3> QED
      BY <1>1, <2>1, <3>1, <3>2, <3>3, <3>4
  <2> QED
    BY <1>1, <1>2, <1>5, <1>7, <2>3 DEF Indexed
<1> QED
  BY <1>6, <1>7

(* The model of an entry is in the one provider of its id.                 *)
AtHome(overlaid, was, is, entry, at) ==
  /\ overlaid \in Seq(Services) /\ at \in 1..Len(overlaid) /\ is = overlaid[at] /\ is \in Services
  /\ HasModel(is.models, entry.id) /\ FirstModel(is.models, entry.id) = Descriptor(entry)
  /\ IsInjective(ModelIds(was.models)) => IsInjective(ModelIds(is.models))
  /\ \A j \in 1..Len(overlaid) : overlaid[j].id = entry.provider => j = at

(* It is, if the catalog knows the provider.                               *)
LEMMA FoundAtHome ==
  ASSUME NEW c \in Seq(Services), Distinct(c), NEW entries \in Seq(ModelEntries),
         NEW e \in 1..Len(entries), Latest(entries, e, Len(entries)), GetProvider(c, entries[e].provider) # None
  PROVE  \E at : AtHome(WithDiscovered(c, entries), GetProvider(c, entries[e].provider),
                       GetProvider(WithDiscovered(c, entries), entries[e].provider), entries[e], at)
<1>0. PICK overlaid, was, is : /\ overlaid = WithDiscovered(c, entries) /\ was = GetProvider(c, entries[e].provider)
                            /\ is = GetProvider(overlaid, entries[e].provider)
  OBVIOUS
<1>1. PICK n \in Nat : n = Len(c) /\ Indexed(n, overlaid, KnownProviders(c, entries), UnknownModels(c, entries))
  BY <1>0, LenProperties, IndexIs
<1>2. PICK entry \in ModelEntries : entry = entries[e] /\ entry.provider \in Keys
  BY ElementOfSeq, DescriptorIs
<1>3. PICK at \in 1..n : c[at].id = entry.provider /\ was = c[at]
  BY <1>0, <1>1, <1>2, ProviderAt
<1>4. PICK known \in Overlaid(c) : known = KnownProviders(c, entries) /\ Brought(c, entries, Len(entries), known)
  BY KnownIs
<1>5. HasModel(known[at].models, entry.id) /\ FirstModel(known[at].models, entry.id) = Descriptor(entry)
  BY <1>1, <1>2, <1>3, <1>4 DEF Brought
<1>6. /\ \A i \in 1..n : known[i].id = c[i].id
      /\ IsInjective(ModelIds(was.models)) => IsInjective(ModelIds(known[at].models))
  BY <1>1, <1>3 DEF Overlaid
<1>8. /\ overlaid \in Seq(Services) /\ \A i \in 1..n : i \in 1..Len(overlaid) /\ overlaid[i] = known[i]
      /\ Len(overlaid) = n \/ Len(overlaid) = n + 1
      /\ Len(overlaid) = n + 1 => overlaid[n + 1].id = "discovered"
  BY <1>1, <1>4 DEF Indexed
<1>9. ASSUME NEW j \in 1..Len(overlaid), overlaid[j].id = entry.provider PROVE j = at
  <2>1. j \in 1..n \/ (j = n + 1 /\ Len(overlaid) = n + 1)
    BY <1>1, <1>8
  <2>2. entry.provider # "discovered"
    BY <1>2 DEF Keys
  <2>3. j \in 1..n
    BY <1>8, <1>9, <2>1, <2>2
  <2>4. c[j].id = c[at].id
    BY <1>3, <1>6, <1>8, <1>9, <2>3
  <2> QED
    BY <1>1, <2>3, <2>4 DEF Distinct
<1>10. is = overlaid[at]
  <2>1. at \in 1..Len(overlaid) /\ overlaid[at].id = entry.provider
    BY <1>3, <1>6, <1>8
  <2>2. ASSUME NEW j \in (at + 1)..Len(overlaid) PROVE overlaid[j].id # entry.provider
    <3>1. j \in 1..Len(overlaid) /\ j # at
      BY <1>1, <1>8
    <3> QED
      BY <1>9, <3>1
  <2> QED
    <3>1. is = GetProvider(overlaid, entry.provider)
      BY <1>0, <1>2
    <3>2. PICK id : id = entry.provider
      OBVIOUS
    <3>3. overlaid[at].id = id /\ \A j \in (at + 1)..Len(overlaid) : overlaid[j].id # id
      BY <2>1, <2>2, <3>2
    <3>4. GetProvider(overlaid, id) = overlaid[at]
      BY <1>8, <2>1, <3>3, LastAt
    <3> QED
      BY <3>1, <3>2, <3>4
<1>11. is \in Services /\ is = known[at] /\ at \in 1..Len(overlaid)
  BY <1>8, <1>10, ElementOfSeq
<1> QED
  BY <1>0, <1>2, <1>5, <1>6, <1>8, <1>9, <1>10, <1>11 DEF AtHome

(* A provider lists a model.                                               *)
Lists(svc, model) == svc \in Services /\ \E j \in 1..Len(svc.models) : svc.models[j] = model

(* The model of any other entry is apart.                                  *)
LEMMA FoundApart ==
  ASSUME NEW c \in Seq(Services), Distinct(c), NEW entries \in Seq(ModelEntries),
         NEW e \in 1..Len(entries), GetProvider(c, entries[e].provider) = None
  PROVE  Lists(GetProvider(WithDiscovered(c, entries), "discovered"), Descriptor(entries[e]))
<1>0. PICK overlaid, is : overlaid = WithDiscovered(c, entries) /\ is = GetProvider(overlaid, "discovered")
  OBVIOUS
<1>1. PICK n \in Nat :
        n = Len(c) /\ Indexed(n, overlaid, KnownProviders(c, entries), UnknownModels(c, entries))
  BY <1>0, LenProperties, IndexIs
<1>2. PICK unknown \in Seq(Models) : unknown = UnknownModels(c, entries) /\ Gathered(c, entries, Len(entries), unknown)
  BY UnknownIs
<1>3. PICK j \in 1..Len(unknown) : unknown[j] = Descriptor(entries[e])
  BY <1>2 DEF Gathered
<1>4. unknown # <<>>
  BY <1>3
<1>5. overlaid \in Seq(Services) /\ Len(overlaid) = n + 1 /\ overlaid[n + 1].id = "discovered" /\ overlaid[n + 1].models = unknown
  BY <1>1, <1>2, <1>4 DEF Indexed
<1>6. is = overlaid[n + 1]
  <2>1. n + 1 \in 1..Len(overlaid) /\ \A i \in ((n + 1) + 1)..Len(overlaid) : FALSE
    BY <1>1, <1>5
  <2> QED
    BY <1>0, <1>5, <2>1, LastAt
<1>7. is \in Services
  <2>1. n + 1 \in 1..Len(overlaid)
    BY <1>1, <1>5
  <2> QED
    BY <1>5, <1>6, <2>1, ElementOfSeq
<1> QED
  BY <1>0, <1>2, <1>3, <1>5, <1>6, <1>7 DEF Lists

(* What a provider can do with a model that it lists.                      *)
LEMMA Listed ==
  ASSUME NEW svc \in Services, NEW j \in 1..Len(svc.models)
  PROVE  /\ svc.models[j] \in Range(svc.models)
         /\ svc.models[j].tools => SupportsToolCalling(svc)
         /\ svc.models[j].limit # None => ContextLimit(svc) >= svc.models[j].limit
<1>1. PICK q \in Seq(Models) : q = svc.models
  BY DEF Services
<1>2. DOMAIN q = 1..Len(q)
  BY LenProperties
<1> QED
  BY <1>1, <1>2, ContextLimitIs DEF Range, SupportsToolCalling

(* A catalog with a payload overlaid finds what the payload says.          *)
LEMMA OverlayFinds ==
  ASSUME NEW c \in Seq(Services), Distinct(c), NEW entries \in Seq(ModelEntries),
         NEW overlaid, overlaid = WithDiscovered(c, entries)
  PROVE  FoundIn(c, entries, overlaid)
<1>1. PICK n \in Nat : n = Len(entries) /\ DOMAIN entries = 1..n
  BY LenProperties
<1>2. ASSUME NEW e \in 1..n, NEW model, model = Descriptor(entries[e]), NEW was, was = GetProvider(c, entries[e].provider),
             NEW home, home = IF was = None THEN "discovered" ELSE entries[e].provider,
             NEW is, is = GetProvider(overlaid, home), Latest(entries, e, n)
      PROVE  /\ model \in Range(ModelsFor(overlaid, home))
             /\ was # None /\ IsInjective(ModelIds(was.models)) => IsInjective(ModelIds(is.models))
             /\ model.tools => SupportsToolCalling(is)
             /\ model.limit # None => ContextLimit(is) >= model.limit
             /\ was # None /\ model.cost # None
                /\ (\A j \in DOMAIN overlaid : overlaid[j].id # home => ~HasModel(overlaid[j].models, model.id)) =>
                  EstimateCost(overlaid, model.id, 1, 0) = model.cost.input
  <2>1. model \in Models /\ model.id = entries[e].id
    <3>1. entries[e] \in ModelEntries
      BY <1>1, ElementOfSeq
    <3> QED
      BY <1>2, <3>1, DescriptorIs
  <2>0. ASSUME was # None PROVE \E at : AtHome(overlaid, was, is, entries[e], at)
    <3>1. is = GetProvider(overlaid, entries[e].provider)
      BY <1>2, <2>0
    <3>2. Latest(entries, e, Len(entries)) /\ e \in 1..Len(entries)
      BY <1>1, <1>2
    <3>3. \E at : AtHome(WithDiscovered(c, entries), GetProvider(c, entries[e].provider),
                       GetProvider(WithDiscovered(c, entries), entries[e].provider), entries[e], at)
      BY <1>2, <2>0, <3>2, FoundAtHome
    <3> QED
      BY <1>2, <3>1, <3>3
  <2>2. Lists(is, model)
    <3>1. CASE was = None
      <4>1. is = GetProvider(overlaid, "discovered")
        BY <1>2, <3>1
      <4>2. Lists(GetProvider(WithDiscovered(c, entries), "discovered"), Descriptor(entries[e]))
        BY <1>1, <1>2, <3>1, FoundApart
      <4> QED
        BY <1>2, <4>1, <4>2
    <3>2. CASE was # None
      <4>2. is \in Services /\ HasModel(is.models, model.id) /\ FirstModel(is.models, model.id) = model
        BY <1>2, <2>0, <2>1, <3>2 DEF AtHome
      <4>3. is.models \in Seq(Models)
        BY <4>2 DEF Services
      <4> QED
        BY <4>2, <4>3, FirstAt DEF Lists
    <3> QED
      BY <3>1, <3>2
  <2>3. is \in Services /\ \E j \in 1..Len(is.models) : is.models[j] = model
    BY <2>2 DEF Lists
  <2>4. model \in Range(is.models) /\ (model.tools => SupportsToolCalling(is))
        /\ (model.limit # None => ContextLimit(is) >= model.limit)
    BY <2>3, Listed
  <2>5. ModelsFor(overlaid, home) = is.models
    <3>1. is # None
      BY <2>3, CatalogAssumption
    <3> QED
      BY <1>2, <3>1 DEF ModelsFor
  <2>6. ASSUME was # None PROVE IsInjective(ModelIds(was.models)) => IsInjective(ModelIds(is.models))
    BY <2>0, <2>6 DEF AtHome
  <2>7. ASSUME was # None, model.cost # None,
               \A i \in DOMAIN overlaid : overlaid[i].id # home => ~HasModel(overlaid[i].models, model.id)
        PROVE  EstimateCost(overlaid, model.id, 1, 0) = model.cost.input
    <3>1. home = entries[e].provider
      BY <1>2, <2>7
    <3>2. PICK at \in 1..Len(overlaid) :
            /\ overlaid \in Seq(Services) /\ is = overlaid[at]
            /\ HasModel(is.models, model.id) /\ FirstModel(is.models, model.id) = model
            /\ \A i \in 1..Len(overlaid) : overlaid[i].id = home => i = at
      BY <1>2, <2>0, <2>1, <2>7, <3>1 DEF AtHome
    <3>3. \A i \in 1..Len(overlaid) : HasModel(overlaid[i].models, model.id) => i = at
      BY <2>7, <3>2, LenProperties
    <3>4. FindModel(overlaid, model.id) = model
      BY <3>2, <3>3, FoundOnce
    <3>5. model # None /\ model.cost \in [input : Nat, output : Nat, cacheRead : Nat \cup {None}]
      BY <2>1, <2>7, CatalogAssumption DEF Models, Costs
    <3>6. EstimateCost(overlaid, model.id, 1, 0) = model.cost.input * 1 + model.cost.output * 0
      BY <2>7, <3>4, <3>5 DEF EstimateCost
    <3>7. model.cost.input \in Nat /\ model.cost.output \in Nat
      BY <3>5
    <3>8. \A x \in Nat, y \in Nat : x * 1 + y * 0 = x
      OBVIOUS
    <3> QED
      BY <3>6, <3>7, <3>8
  <2> QED
    BY <2>4, <2>5, <2>6, <2>7
<1> QED
  BY <1>1, <1>2 DEF FoundIn, Latest

(* What a payload offers to overlay.                                       *)
LEMMA AllEntriesTyped == ASSUME NEW payload \in Payloads PROVE AllEntries(payload) \in Seq(ModelEntries)
<1> DEFINE order == <<"openai", "other", "zai">>
           S == Seq(ModelEntries)
           seqs == [i \in 1..3 |-> Entries(payload, order[i])]
<1>1. \A i \in 1..3 : order[i] \in Keys
  <2>1. order[1] \in Keys /\ order[2] \in Keys /\ order[3] \in Keys
    BY DEF Keys
  <2>2. \A i \in 1..3 : i = 1 \/ i = 2 \/ i = 3
    OBVIOUS
  <2> QED
    BY <2>1, <2>2
<1>2. seqs \in [1..3 -> S]
  <2>1. \A i \in 1..3 : Entries(payload, order[i]) \in S
    BY <1>1, UpstreamTyped
  <2> QED
    BY <2>1
<1>3. AllEntries(payload) = FlattenSeq(seqs)
  BY DEF AllEntries
<1> HIDE DEF seqs, S
<1>4. seqs \in Seq(S) /\ Len(seqs) = 3 /\ seqs # <<>>
  <2>1. seqs \in Seq(S)
    BY <1>2, SeqDef
  <2>2. Len(seqs) = 3 /\ Len(<<>>) = 0
    BY <1>2, <2>1, LenProperties
  <2> QED
    BY <2>1, <2>2
<1>5. PICK f \in [1..3 -> S] : FlattenSeq(seqs) = f[3]
  BY <1>4, FlattenedParts DEF S
<1> QED
  BY <1>3, <1>5 DEF S

----------------------------------------------------------------------------
(* The catalog: the invariant.                                             *)

FileKept ==
  /\ catalogFile \in Seq(Services) /\ Len(catalogFile) = Len(BornCatalog)
  /\ \A i \in 1..Len(BornCatalog) : Keeps(BornCatalog[i], catalogFile[i])

SyncedFrom == syncedWith = None \/ (syncedWith \in Payloads /\ MergeCatalog(catalogFile, syncedWith) = catalogFile)

SyncFollows ==
  /\ sync = [at |-> sync.at, payload |-> sync.payload, merged |-> sync.merged, diff |-> sync.diff, verdict |-> sync.verdict]
  /\ sync.at \in {"idle", "fetched", "merged", "staged"}
  /\ sync.at # "idle" => sync.payload \in Payloads /\ sync.verdict = None
  /\ sync.at \in {"merged", "staged"} => /\ sync.merged = MergeCatalog(catalogFile, sync.payload)
                                         /\ sync.diff = CatalogDiff(catalogFile, sync.payload)
  /\ sync.at = "staged" => tmpFile = sync.merged
  /\ sync.verdict = "clean" => IsClean(sync.diff)

CatalogInv ==
  /\ upstream \in Payloads /\ payloadCache \in Payloads \cup {None, Malformed}
  /\ FileKept /\ SyncedFrom /\ SyncFollows /\ OverlayFound

(* No id is there twice.                                                   *)
LEMMA IdsDistinct == ASSUME FileKept PROVE Distinct(catalogFile)
<1>1. Len(BornCatalog) \in Nat /\ DOMAIN BornCatalog = 1..Len(BornCatalog)
  BY CatalogAssumption, LenProperties
<1>2. \A i \in 1..Len(BornCatalog) : catalogFile[i].id = BornCatalog[i].id
  BY DEF FileKept, Keeps
<1>3. \A i, j \in DOMAIN BornCatalog : BornCatalog[i].id = BornCatalog[j].id => i = j
  BY CatalogAssumption
<1> QED
  BY <1>1, <1>2, <1>3 DEF FileKept, Distinct

(* It holds at first.                                                      *)
LEMMA CatalogStart == CatalogInit => CatalogInv
<1> SUFFICES ASSUME CatalogInit PROVE CatalogInv
  OBVIOUS
<1>1. upstream \in Payloads /\ payloadCache \in Payloads \cup {None, Malformed} /\ SyncedFrom
  BY DEF CatalogInit, SyncedFrom
<1>2. FileKept
  <2>1. BornCatalog \in Seq(Services)
    BY CatalogAssumption
  <2>2. ASSUME NEW i \in 1..Len(BornCatalog) PROVE Keeps(BornCatalog[i], BornCatalog[i])
    <3>1. BornCatalog[i] \in Services
      BY <2>1, <2>2, ElementOfSeq
    <3>2. Len(BornCatalog[i].models) \in Nat
      BY <3>1, LenProperties DEF Services
    <3> QED
      BY <3>2 DEF Keeps
  <2> QED
    BY <2>1, <2>2 DEF CatalogInit, FileKept
<1>3. SyncFollows
  BY CatalogAssumption DEF CatalogInit, NoSync, SyncFollows
<1>4. OverlayFound
  <2>1. overlay.entries = <<>> /\ DOMAIN <<>> = {}
    BY DEF CatalogInit
  <2> QED
    BY <2>1 DEF OverlayFound, FoundIn
<1> QED
  BY <1>1, <1>2, <1>3, <1>4 DEF CatalogInv

(* Every step keeps it.                                                    *)
LEMMA CatalogStep == CatalogInv /\ [CatalogNext]_catalogVars => CatalogInv'
<1> SUFFICES ASSUME CatalogInv, [CatalogNext]_catalogVars PROVE CatalogInv'
  OBVIOUS
<1> USE DEF CatalogInv
<1>1. ASSUME NEW payload \in Payloads, Publish(payload) PROVE CatalogInv'
  BY <1>1 DEF Publish, FileKept, SyncedFrom, SyncFollows, OverlayFound
<1>2. CASE FetchUpstream
  <2>1. SyncFollows'
    BY <1>2, CatalogAssumption DEF FetchUpstream, NoSync, SyncFollows
  <2> QED
    BY <1>2, <2>1 DEF FetchUpstream, FileKept, SyncedFrom, OverlayFound
<1>3. CASE CheckDrift
  <2>1. SyncFollows'
    <3>1. PICK diff, verdict : /\ diff = CatalogDiff(catalogFile, sync.payload)
                               /\ verdict = IF MergeCatalog(catalogFile, sync.payload) = catalogFile THEN "clean" ELSE "stale"
      OBVIOUS
    <3>2. sync' = [sync EXCEPT !.at = "idle", !.diff = diff, !.verdict = verdict]
      BY <1>3, <3>1 DEF CheckDrift
    <3>3. verdict = "clean" => IsClean(diff)
      BY <1>3, <3>1, CleanMerge DEF CheckDrift, FileKept, SyncFollows
    <3> QED
      BY <3>2, <3>3 DEF SyncFollows
  <2> QED
    BY <1>3, <2>1 DEF CheckDrift, FileKept, SyncedFrom, OverlayFound
<1>4. CASE MergeUpstream
  <2>1. SyncFollows'
    BY <1>4, CatalogAssumption DEF MergeUpstream, SyncFollows
  <2> QED
    BY <1>4, <2>1 DEF MergeUpstream, FileKept, SyncedFrom, OverlayFound
<1>5. CASE StageCatalog
  <2>1. SyncFollows'
    BY <1>5 DEF StageCatalog, SyncFollows
  <2> QED
    BY <1>5, <2>1 DEF StageCatalog, FileKept, SyncedFrom, OverlayFound
<1>6. CASE ReplaceCatalog
  <2>1. PICK payload \in Payloads : payload = sync.payload
    BY <1>6 DEF ReplaceCatalog, SyncFollows
  <2>2. catalogFile' = MergeCatalog(catalogFile, payload)
    BY <1>6, <2>1 DEF ReplaceCatalog, SyncFollows
  <2>3. /\ catalogFile' \in Seq(Services) /\ Len(catalogFile') = Len(catalogFile)
        /\ \A i \in 1..Len(catalogFile) : Keeps(catalogFile[i], catalogFile'[i])
        /\ MergeCatalog(catalogFile', payload) = catalogFile'
    BY <2>2, MergeCatalogIs DEF FileKept
  <2>4. FileKept'
    <3>1. ASSUME NEW i \in 1..Len(BornCatalog) PROVE Keeps(BornCatalog[i], catalogFile'[i])
      <4>1. /\ BornCatalog[i] \in Services /\ catalogFile[i] \in Services /\ catalogFile'[i] \in Services
            /\ Keeps(BornCatalog[i], catalogFile[i]) /\ Keeps(catalogFile[i], catalogFile'[i])
        BY <2>3, <3>1, CatalogAssumption, ElementOfSeq DEF FileKept
      <4> QED
        BY <4>1, KeptOn
    <3> QED
      BY <2>3, <3>1 DEF FileKept
  <2>5. SyncedFrom'
    BY <1>6, <2>1, <2>3 DEF ReplaceCatalog, SyncedFrom
  <2>6. SyncFollows'
    BY <1>6, CatalogAssumption DEF ReplaceCatalog, NoSync, SyncFollows
  <2> QED
    BY <1>6, <2>4, <2>5, <2>6 DEF ReplaceCatalog, OverlayFound
<1>7. CASE KillSync
  <2>1. SyncFollows'
    BY <1>7, CatalogAssumption DEF KillSync, NoSync, SyncFollows
  <2> QED
    BY <1>7, <2>1 DEF KillSync, FileKept, SyncedFrom, OverlayFound
<1>8. ASSUME NEW body \in {upstream, Malformed}, FetchAndCache(body) PROVE CatalogInv'
  BY <1>8 DEF FetchAndCache, FileKept, SyncedFrom, SyncFollows, OverlayFound
<1>9. ASSUME NEW payload \in {upstream, payloadCache}, Discover(payload) PROVE CatalogInv'
  <2>1. payload \in Payloads
    BY <1>9 DEF Discover, IsPayload
  <2>2. PICK entries \in Seq(ModelEntries) : entries = AllEntries(payload)
    BY <2>1, AllEntriesTyped
  <2>3. PICK overlaid : overlaid = WithDiscovered(catalogFile, entries)
    OBVIOUS
  <2>4. overlay' = [base |-> catalogFile, entries |-> entries, index |-> overlaid]
    BY <1>9, <2>2, <2>3 DEF Discover
  <2>5. FoundIn(catalogFile, entries, overlaid)
    BY <2>3, IdsDistinct, OverlayFinds DEF FileKept
  <2>6. OverlayFound'
    BY <2>4, <2>5 DEF OverlayFound
  <2> QED
    BY <1>9, <2>6 DEF Discover, FileKept, SyncedFrom, SyncFollows
<1>10. CASE UNCHANGED catalogVars
  BY <1>10 DEF catalogVars, FileKept, SyncedFrom, SyncFollows, OverlayFound
<1> QED
  BY <1>1, <1>2, <1>3, <1>4, <1>5, <1>6, <1>7, <1>8, <1>9, <1>10 DEF CatalogNext

(* What was kept is not lost.                                              *)
LEMMA KeptNotLost == ASSUME FileKept PROVE NothingLost
<1>1. ASSUME NEW i \in DOMAIN BornCatalog
      PROVE  /\ Keeps(BornCatalog[i], catalogFile[i])
             /\ IsPrefix(ModelIds(BornCatalog[i].models), ModelIds(catalogFile[i].models))
  <2>1. i \in 1..Len(BornCatalog)
    BY CatalogAssumption, LenProperties
  <2>2. Keeps(BornCatalog[i], catalogFile[i])
    BY <2>1 DEF FileKept
  <2>3. BornCatalog[i].models \in Seq(Models) /\ catalogFile[i].models \in Seq(Models)
    <3>1. BornCatalog[i] \in Services /\ catalogFile[i] \in Services
      BY <2>1, CatalogAssumption, ElementOfSeq DEF FileKept
    <3> QED
      BY <3>1 DEF Services
  <2>4. PICK p \in Seq(Models), q \in Seq(Models) : p = BornCatalog[i].models /\ q = catalogFile[i].models
    BY <2>3
  <2>5. PICK m \in Nat, n \in Nat : m = Len(p) /\ n = Len(q) /\ m <= n /\ DOMAIN p = 1..m /\ DOMAIN q = 1..n
    BY <2>2, <2>4, LenProperties DEF Keeps
  <2>6. PICK a, b : a = ModelIds(p) /\ b = ModelIds(q)
    OBVIOUS
  <2>7. a = [j \in 1..m |-> p[j].id] /\ b = [j \in 1..n |-> q[j].id]
    BY <2>5, <2>6 DEF ModelIds
  <2>8. a \in Seq(STRING) /\ b \in Seq(STRING) /\ Len(a) = m /\ Len(b) = n
    <3>1. \A x \in Models : x.id \in STRING
      BY DEF Models
    <3>2. a \in [1..m -> STRING] /\ b \in [1..n -> STRING]
      BY <2>4, <2>5, <2>7, <3>1, ElementOfSeq
    <3>3. a \in Seq(STRING) /\ b \in Seq(STRING)
      BY <3>2, SeqDef
    <3>4. DOMAIN a = 1..m /\ DOMAIN b = 1..n
      BY <2>7
    <3> QED
      BY <3>3, <3>4, LenProperties
  <2>9. \A j \in 1..m : a[j] = b[j]
    BY <2>2, <2>4, <2>5, <2>7 DEF Keeps
  <2>10. SubSeq(a, 1, m) = SubSeq(b, 1, m)
    BY <2>5, <2>9
  <2> QED
    BY <2>2, <2>4, <2>5, <2>6, <2>8, <2>10 DEF IsPrefix
<1> QED
  BY <1>1 DEF NothingLost, Keeps

(* However often the catalog is synced, from whatever is published, and    *)
(* the tool is killed: a merge is idempotent and reports what it changes,  *)
(* no model is lost or moved, and what is overlaid is found.               *)
THEOREM CatalogConverged == CatalogSpec => []CatalogConverges
<1>1. CatalogInv => CatalogConverges
  <2> SUFFICES ASSUME CatalogInv PROVE CatalogConverges
    OBVIOUS
  <2>1. MergeIdempotent
    BY CleanMerge DEF CatalogInv, FileKept, SyncedFrom, IsPayload, MergeIdempotent
  <2>2. NothingLost
    BY KeptNotLost DEF CatalogInv
  <2>3. PricesReported
    <3>1. ASSUME sync.at \in {"merged", "staged"}, NEW i \in DOMAIN catalogFile, NEW j \in DOMAIN catalogFile[i].models,
                 Price(catalogFile[i].models[j]) # Price(sync.merged[i].models[j])
          PROVE  <<catalogFile[i].id, catalogFile[i].models[j].id>> \in sync.diff.prices
      BY <3>1, PricesListed DEF CatalogInv, FileKept, SyncFollows
    <3> QED
      BY <3>1 DEF CatalogInv, SyncFollows, PricesReported
  <2> QED
    BY <2>1, <2>2, <2>3 DEF CatalogInv, CatalogConverges
<1> QED
  BY <1>1, CatalogStart, CatalogStep, PTL DEF CatalogSpec
=============================================================================

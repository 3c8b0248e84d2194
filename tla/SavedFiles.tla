----------------------------- MODULE SavedFiles -----------------------------
(***************************************************************************)
(* What the library keeps in files: the secrets of a vault, which several  *)
(* processes load, change and write back, and a compressed vector index,   *)
(* saved as two files.  Power may fail between any two steps: a file whose *)
(* data was not yet synced may be torn after that, however it got its      *)
(* name, and all processes start again.                                    *)
(***************************************************************************)
EXTENDS SecretVault, FiniteSets

CONSTANTS
  Writers,            (* Processes that write the secrets.                 *)
  SecretInserts,      (* The keys and values each may insert.              *)
  OldSecrets,         (* What the secrets file may hold at first.          *)
  Metas,              (* Metadata of indexes: dimension, width, policy.    *)
  MaxId, MaxSaves, MaxFailures  (* Bounds: ids, saves of the index, power  *)
                      (* failures.                                         *)

ASSUME FilesAssumption ==
  /\ Writers \cap {"secrets", "index", "index.tmp", "meta", "meta.tmp"} = {}
  /\ \A old \in OldSecrets : old = [data |-> old.data, synced |-> TRUE]

VARIABLES
  disk,       (* Path -> what a reader finds there, and whether it is      *)
              (* synced.                                                   *)
  vaultOf,    (* What a writer is at, with its vault.                      *)
  persisted,  (* History: the vaults whose save reached the file.          *)
  index, saving, saves,     (* The index in memory and its save under way. *)
  loaded,     (* The index as it was last loaded.                          *)
  failures

secretVars == <<vaultOf, persisted>>
indexVars == <<index, saving, saves, loaded>>
fileVars == <<disk, secretVars, indexVars, failures>>

NoFile == [data |-> [type |-> "missing"], synced |-> TRUE]
Torn == [data |-> [type |-> "torn"], synced |-> TRUE]
Written(data) == [data |-> data, synced |-> FALSE]
(* The temporary file of a writer has a name of its own.                   *)
TmpOf(writer) == writer
Paths == {"secrets", "index", "index.tmp", "meta", "meta.tmp"} \cup {TmpOf(w) : w \in Writers}

Synced(file) == [data |-> file.data, synced |-> TRUE]
Sync(path) == [disk EXCEPT ![path] = Synced(@)]
Rename(from, to) == [disk EXCEPT ![to] = disk[from], ![from] = NoFile]

NoVault(at) == [at |-> at, vault |-> <<>>]
NoIndex == [meta |-> [dim |-> 0, bits |-> 0, policy |-> 0], ids |-> {}]

(* No file is an empty vault; a link or an unreadable line is an error.    *)
LoadFrom(file) ==
  CASE file.data.type = "missing" -> Ok(<<>>)
    [] file.data.type = "secrets" -> ParseSecrets(file.data.lines)
    [] OTHER -> Err

FilesInit ==
  /\ \E old \in OldSecrets :
       /\ disk = [path \in Paths |-> IF path = "secrets" THEN old ELSE NoFile]
       /\ persisted = IF LoadFrom(old).ok THEN {LoadFrom(old).value} ELSE {}
  /\ vaultOf = [w \in Writers |-> NoVault("idle")]
  /\ index = NoIndex /\ saving = "none" /\ saves = 0 /\ loaded = {}
  /\ failures = 0

----------------------------------------------------------------------------
(* Secrets.  A writer loads, inserts and saves once; it starts again after *)
(* a power failure.                                                        *)

LoadVault(w) ==
  /\ vaultOf[w].at = "idle"
  /\ LET read == LoadFrom(disk["secrets"])
     IN vaultOf' = [vaultOf EXCEPT ![w] = IF read.ok THEN [at |-> "loaded", vault |-> read.value] ELSE NoVault("done")]
  /\ UNCHANGED <<disk, persisted, indexVars, failures>>

Insert(w, key, value) ==
  /\ vaultOf[w].at = "loaded"
  /\ vaultOf' = [vaultOf EXCEPT ![w] = [at |-> "changed", vault |-> key :> value @@ @.vault]]
  /\ UNCHANGED <<disk, persisted, indexVars, failures>>

(* persist_to: a key that cannot be written is an error before anything    *)
(* is; then write_atomic writes a temporary file of its own, syncs it and  *)
(* renames it.                                                             *)
PersistRefused(w) ==
  /\ vaultOf[w].at = "changed" /\ ~Persistable(vaultOf[w].vault)
  /\ vaultOf' = [vaultOf EXCEPT ![w] = NoVault("done")]
  /\ UNCHANGED <<disk, persisted, indexVars, failures>>

WriteTmp(w) ==
  /\ vaultOf[w].at = "changed" /\ Persistable(vaultOf[w].vault)
  /\ disk' = [disk EXCEPT ![TmpOf(w)] = Written([type |-> "secrets", lines |-> SecretLines(vaultOf[w].vault)])]
  /\ vaultOf' = [vaultOf EXCEPT ![w].at = "written"]
  /\ UNCHANGED <<persisted, indexVars, failures>>

SkipSyncTmp(w) ==
  /\ vaultOf[w].at = "written"
  /\ vaultOf' = [vaultOf EXCEPT ![w].at = "synced"]
  /\ UNCHANGED <<disk, persisted, indexVars, failures>>

SyncTmp(w) ==
  /\ vaultOf[w].at = "written"
  /\ disk' = Sync(TmpOf(w))
  /\ vaultOf' = [vaultOf EXCEPT ![w].at = "synced"]
  /\ UNCHANGED <<persisted, indexVars, failures>>

RenameTmp(w) ==
  /\ vaultOf[w].at = "synced"
  /\ disk' = Rename(TmpOf(w), "secrets")
  /\ persisted' = {vaultOf[w].vault}
  /\ vaultOf' = [vaultOf EXCEPT ![w] = NoVault("done")]
  /\ UNCHANGED <<indexVars, failures>>

----------------------------------------------------------------------------
(* The vector index, with the metadata its consumer gives it.              *)

ValidWidth(width) == width \in {2, 4}

NewIndex(meta) ==
  /\ saving = "none" /\ saves < MaxSaves /\ ValidWidth(meta.bits)
  /\ index' = [meta |-> meta, ids |-> {}]
  /\ UNCHANGED <<disk, secretVars, saving, saves, loaded, failures>>

HasIndex == index.meta.dim # 0 /\ saving = "none"

(* Ids of their own begin with the number of vectors: after a removal they *)
(* may be taken, and the whole call is an error, as it is for given ids.   *)
AddVectors(ids) ==
  /\ HasIndex /\ ids \cap index.ids = {} /\ ids \subseteq 0..MaxId
  /\ index' = [index EXCEPT !.ids = @ \cup ids]
  /\ UNCHANGED <<disk, secretVars, saving, saves, loaded, failures>>
AutoIds(n) == Cardinality(index.ids)..(Cardinality(index.ids) + n - 1)

RemoveVectors(ids) ==
  /\ HasIndex
  /\ index' = [index EXCEPT !.ids = @ \ ids]
  /\ UNCHANGED <<disk, secretVars, saving, saves, loaded, failures>>

SaveStep(from, to, written) ==
  /\ saving = from /\ saving' = to
  /\ disk' = written
  /\ saves' = IF from = "none" THEN saves + 1 ELSE saves
  /\ UNCHANGED <<secretVars, index, loaded, failures>>

(* Vectors know their dimension and width; the metadata is a file of its   *)
(* own beside them.                                                        *)
Stamp == saves + 1
SaveVectors ==
  /\ HasIndex /\ saves < MaxSaves
  /\ SaveStep("none", "vectors", [disk EXCEPT !["index.tmp"] =
       Written([type |-> "vectors", dim |-> index.meta.dim, bits |-> index.meta.bits, ids |-> index.ids, save |-> Stamp])])
SaveMeta ==
  SaveStep("vectors", "meta", [disk EXCEPT !["meta.tmp"] = Written([type |-> "meta", meta |-> index.meta, save |-> saves])])
SyncBoth == SaveStep("meta", "synced", [disk EXCEPT !["index.tmp"] = Synced(@), !["meta.tmp"] = Synced(@)])
RenameMeta == SaveStep("synced", "renamed", Rename("meta.tmp", "meta"))
RenameVectors == SaveStep("renamed", "none", Rename("index.tmp", "index"))

IsWhole(path) == disk[path].data.type \in {"vectors", "meta"}

LoadsUnchecked ==
  /\ IsWhole("index") /\ IsWhole("meta")
  /\ ValidWidth(disk["meta"].data.meta.bits)

(* Both files must be read and agree on dimension and width.               *)
Loads ==
  /\ IsWhole("index") /\ IsWhole("meta")
  /\ LET vectors == disk["index"].data
         meta == disk["meta"].data.meta
     IN ValidWidth(meta.bits) /\ meta.dim > 0 /\ vectors.dim = meta.dim /\ vectors.bits = meta.bits

(* The index is that of the vectors with what the metadata says of them.   *)
LoadIndex ==
  /\ saving = "none" /\ Loads
  /\ loaded' = {[vectors |-> disk["index"].data, meta |-> disk["meta"].data]}
  /\ index' = [meta |-> disk["meta"].data.meta, ids |-> disk["index"].data.ids]
  /\ UNCHANGED <<disk, secretVars, saving, saves, failures>>

----------------------------------------------------------------------------

PowerFails ==
  /\ failures < MaxFailures
  /\ failures' = failures + 1
  /\ \E torn \in SUBSET {path \in Paths : ~disk[path].synced} :
       disk' = [path \in Paths |-> IF path \in torn THEN Torn ELSE Synced(disk[path])]
  /\ vaultOf' = [w \in Writers |-> NoVault("idle")]
  /\ index' = NoIndex /\ saving' = "none" /\ loaded' = {}
  /\ UNCHANGED <<persisted, saves>>

SecretsNext ==
  \/ \E w \in Writers :
       \/ LoadVault(w) \/ PersistRefused(w) \/ WriteTmp(w) \/ SyncTmp(w) \/ RenameTmp(w)
       \/ \E put \in SecretInserts[w] : Insert(w, put[1], put[2])
  \/ PowerFails

IndexNext ==
  \/ \E meta \in Metas : NewIndex(meta)
  \/ AddVectors(AutoIds(1)) \/ AddVectors({1})
  \/ RemoveVectors({0})
  \/ SaveVectors \/ SaveMeta \/ SyncBoth \/ RenameMeta \/ RenameVectors \/ LoadIndex
  \/ PowerFails

FilesSpec == FilesInit /\ [][SecretsNext \/ IndexNext]_fileVars

----------------------------------------------------------------------------

(* A value the encoding keeps: one that is written bare and ends in        *)
(* whitespace of another kind is trimmed as it is read.                    *)
Kept(value) == value = <<>> \/ NeedsQuoting(value) \/ Last(value) # Return

(* Whatever is interrupted, the secrets file reads back as exactly the     *)
(* last vault that was saved.                                              *)
SecretsKept ==
  \A vault \in persisted :
    (\A key \in DOMAIN vault : Kept(vault[key])) => LoadFrom(disk["secrets"]) = Ok(vault)

(* An index that loads has whole vectors, of the dimension and the width   *)
(* its metadata names, and metadata at most one save ahead of them: never  *)
(* behind.  If no save was interrupted they are from the same one.         *)
IndexKept ==
  /\ IsWhole("index") => IsWhole("meta")
  /\ \A last \in loaded :
       /\ last.vectors.dim = last.meta.meta.dim /\ last.vectors.bits = last.meta.meta.bits
       /\ last.meta.save >= last.vectors.save
       /\ failures = 0 => last.meta.save = last.vectors.save

SavedFilesWhole == SecretsKept /\ IndexKept
=============================================================================

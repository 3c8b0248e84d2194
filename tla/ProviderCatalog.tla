--------------------------- MODULE ProviderCatalog ---------------------------
(***************************************************************************)
(* The provider catalog: a list of providers with their models, looked up  *)
(* by id, refreshed from an upstream payload by a tool that may be killed, *)
(* and overlaid at run time by discovered models.                          *)
(***************************************************************************)
EXTENDS Options, Naturals, SequencesExt, TLC

CONSTANTS
  BornCatalog,        (* The catalog the repository holds at first.        *)
  Payloads,           (* What upstream may publish: provider key -> its    *)
                      (* base URL and its models, by key.                  *)
  MaxPublished, MaxKills   (* Bounds.                                      *)

Costs == {None} \cup [input : Nat, output : Nat, cacheRead : Nat \cup {None}]
Limits == {None} \cup Nat
Models == [id : STRING, cost : Costs, limit : Limits, tools : BOOLEAN]
Names == {svc.id : svc \in Range(BornCatalog)} \cup {"discovered"}
Services == [id : Names, api : STRING \cup {None}, models : Seq(Models)]
RawModels == [id : STRING, cost : Costs, context : Limits, output : Limits, tools : BOOLEAN \cup {None}]

(* The catalog has no id twice; what is published parses to its types.     *)
ASSUME CatalogAssumption ==
  /\ None \notin Services \cup Models /\ None # "clean"
  /\ BornCatalog \in Seq(Services)
  /\ \A i, j \in DOMAIN BornCatalog : BornCatalog[i].id = BornCatalog[j].id => i = j
  /\ \A payload \in Payloads : \A key \in DOMAIN payload :
       payload[key].api \in STRING \cup {None} /\ payload[key].models \in Seq(RawModels)

VARIABLES
  upstream,       (* What is published now.                                *)
  catalogFile, tmpFile,
  sync,           (* The run of the tool under way.                        *)
  syncedWith,     (* History: the payload the file was last written from.  *)
  payloadCache,   (* The file a fetched body is cached in.                 *)
  overlay,        (* The index after the last overlay, and its entries.    *)
  published, kills

catalogVars == <<upstream, catalogFile, tmpFile, sync, syncedWith, payloadCache, overlay, published, kills>>

Malformed == [type |-> "malformed"]
IsPayload(body) == body # None /\ body # Malformed

----------------------------------------------------------------------------
(* Descriptors and payloads.  Names, dates, modalities and the flags that  *)
(* nothing here reads are left out.                                        *)

ModelCost(input, output, cacheRead) == [input |-> input, output |-> output, cacheRead |-> cacheRead]
ModelDescriptor(id, cost, limit, tools) == [id |-> id, cost |-> cost, limit |-> limit, tools |-> tools]
ServiceDescriptor(id, api, models) == [id |-> id, api |-> api, models |-> models]

RawModel(id, cost, context, limit, tools) ==
  [id |-> id, cost |-> cost, context |-> context, output |-> limit, tools |-> tools]

(* A model is listed under the id it gives itself; a flag that is not      *)
(* given is off.                                                           *)
ModelEntry(key, raw) ==
  [provider |-> key, id |-> raw.id, cost |-> raw.cost, context |-> raw.context, output |-> raw.output,
   tools |-> Or(raw.tools, FALSE)]

(* In the order of the keys.                                               *)
Entries(payload, key) ==
  IF key \notin DOMAIN payload THEN <<>>
  ELSE [i \in DOMAIN payload[key].models |-> ModelEntry(key, payload[key].models[i])]

(* A limit needs both numbers.                                             *)
Descriptor(entry) ==
  ModelDescriptor(entry.id, entry.cost,
                  IF None \in {entry.context, entry.output} THEN None ELSE entry.context, entry.tools)

UpstreamModels(payload, key) == [i \in DOMAIN Entries(payload, key) |-> Descriptor(Entries(payload, key)[i])]
UpstreamApi(payload, key) == IF key \in DOMAIN payload THEN payload[key].api ELSE None

AllEntries(payload) ==
  FlattenSeq([i \in 1..3 |-> Entries(payload, <<"openai", "other", "zai">>[i])])

(* The upstream key of a provider, or None for one that is kept by hand.   *)
Resolve(id) ==
  CASE id = "openai" -> id
    [] id = "zai-cn" -> "zai"
    [] OTHER -> None

----------------------------------------------------------------------------
(* The merge.                                                              *)

HasModel(models, id) == \E i \in DOMAIN models : models[i].id = id
FirstPosition(models, id) == SelectInSeq(models, LAMBDA m : m.id = id)
FirstModel(models, id) == models[FirstPosition(models, id)]

Refresh(models, fresh) ==
  [i \in DOMAIN models |-> IF HasModel(fresh, models[i].id) THEN FirstModel(fresh, models[i].id) ELSE models[i]]

AppendAll(models, fresh) == models \o fresh

AppendNew(models, fresh) ==
  FoldLeft(LAMBDA all, m : IF HasModel(all, m.id) THEN all ELSE Append(all, m), models, fresh)

(* What is empty counts as missing.                                        *)
NotGiven == {None, ""}
FillOpt(kept, upstreamValue) == IF kept \notin NotGiven THEN kept ELSE upstreamValue

MergeProvider(svc, payload) ==
  LET key == Resolve(svc.id)
      fresh == UpstreamModels(payload, key)
  IN IF key = None THEN svc
     ELSE [svc EXCEPT !.models = AppendNew(Refresh(svc.models, fresh), fresh),
                      !.api = FillOpt(svc.api, UpstreamApi(payload, key))]

MergeCatalog(providers, payload) == [i \in DOMAIN providers |-> MergeProvider(providers[i], payload)]

Price(model) == IF model.cost = None THEN None ELSE [input |-> model.cost.input, output |-> model.cost.output]

(* What a merge says it changed: <<provider, model>> added, updated, or    *)
(* with a price that moved.                                                *)
Added(svc, payload) ==
  LET merged == MergeProvider(svc, payload).models
  IN {<<svc.id, merged[j].id>> : j \in (Len(svc.models) + 1)..Len(merged)}

Refreshed(svc, payload) ==
  LET refreshed == Refresh(svc.models, UpstreamModels(payload, Resolve(svc.id)))
  IN {[provider |-> svc.id, before |-> svc.models[j], after |-> refreshed[j]] : j \in DOMAIN svc.models}

CatalogDiff(providers, payload) ==
  LET synced == {svc \in Range(providers) : Resolve(svc.id) # None}
      all == UNION {Refreshed(svc, payload) : svc \in synced}
      Named(changes) == {<<c.provider, c.before.id>> : c \in changes}
  IN [added |-> UNION {Added(svc, payload) : svc \in synced},
      updated |-> Named({c \in all : c.before # c.after}),
      prices |-> Named({c \in all : Price(c.before) # Price(c.after)})]

IsClean(diff) == diff.added = {} /\ diff.updated = {} /\ diff.prices = {}

----------------------------------------------------------------------------
(* Looking up, and the overlay.                                            *)

(* The last provider of an id.                                             *)
LastPosition(providers, id) == SelectLastInSeq(providers, LAMBDA p : p.id = id)
GetProvider(providers, id) ==
  IF LastPosition(providers, id) = 0 THEN None ELSE providers[LastPosition(providers, id)]

ModelsFor(providers, id) ==
  LET provider == GetProvider(providers, id) IN IF provider = None THEN <<>> ELSE provider.models

(* The first provider that has a model of that id.                         *)
FindModel(providers, id) ==
  LET at == SelectInSeq(providers, LAMBDA p : HasModel(p.models, id))
  IN IF at = 0 THEN None ELSE FirstModel(providers[at].models, id)

EstimateCost(providers, id, prompt, completion) ==
  LET model == FindModel(providers, id)
  IN IF model = None THEN None
     ELSE IF model.cost = None THEN None
     ELSE model.cost.input * prompt + model.cost.output * completion

KnownLimits(provider) == {m.limit : m \in Range(provider.models)} \ {None}
ContextLimit(provider) == IF KnownLimits(provider) = {} THEN None ELSE Max(KnownLimits(provider))
SupportsToolCalling(provider) == \E i \in DOMAIN provider.models : provider.models[i].tools

KeepFirst(models, model) == AppendNew(models, <<model>>)

SetModel(models, model) ==
  IF HasModel(models, model.id)
  THEN [models EXCEPT ![FirstPosition(models, model.id)] = model]
  ELSE Append(models, model)

(* A model is merged into its provider; those of providers the catalog     *)
(* does not know go to one of their own.                                   *)
Overlay(providers, all, entry) ==
  LET at == LastPosition(providers, entry.provider)
  IN IF at = 0 THEN all ELSE [all EXCEPT ![at].models = SetModel(@, Descriptor(entry))]

Synthetic(providers, models, entry) ==
  IF GetProvider(providers, entry.provider) = None THEN Append(models, Descriptor(entry)) ELSE models

KnownProviders(providers, entries) == FoldLeft(LAMBDA all, e : Overlay(providers, all, e), providers, entries)
UnknownModels(providers, entries) == FoldLeft(LAMBDA models, e : Synthetic(providers, models, e), <<>>, entries)

WithDiscovered(providers, entries) ==
  LET unknown == UnknownModels(providers, entries)
  IN KnownProviders(providers, entries)
     \o (IF unknown = <<>> THEN <<>> ELSE <<ServiceDescriptor("discovered", None, unknown)>>)

----------------------------------------------------------------------------

NoSync == [at |-> "idle", payload |-> None, merged |-> <<>>, diff |-> None, verdict |-> None]

CatalogInit ==
  /\ upstream \in Payloads
  /\ catalogFile = BornCatalog /\ tmpFile = None
  /\ sync = NoSync /\ syncedWith = None
  /\ payloadCache = None
  /\ overlay = [base |-> <<>>, entries |-> <<>>, index |-> <<>>]
  /\ published = 0 /\ kills = 0

Publish(payload) ==
  /\ published < MaxPublished /\ payload # upstream
  /\ upstream' = payload /\ published' = published + 1
  /\ UNCHANGED <<catalogFile, tmpFile, sync, syncedWith, payloadCache, overlay, kills>>

FetchUpstream ==
  /\ sync.at = "idle"
  /\ sync' = [NoSync EXCEPT !.at = "fetched", !.payload = upstream]
  /\ UNCHANGED <<upstream, catalogFile, tmpFile, syncedWith, payloadCache, overlay, published, kills>>

(* A check compares and writes nothing.                                    *)
CheckDrift ==
  /\ sync.at = "fetched"
  /\ LET merged == MergeCatalog(catalogFile, sync.payload)
     IN sync' = [sync EXCEPT !.at = "idle", !.diff = CatalogDiff(catalogFile, sync.payload),
                             !.verdict = IF merged = catalogFile THEN "clean" ELSE "stale"]
  /\ UNCHANGED <<upstream, catalogFile, tmpFile, syncedWith, payloadCache, overlay, published, kills>>

MergeUpstream ==
  /\ sync.at = "fetched"
  /\ sync' = [sync EXCEPT !.at = "merged", !.merged = MergeCatalog(catalogFile, sync.payload),
                          !.diff = CatalogDiff(catalogFile, sync.payload)]
  /\ UNCHANGED <<upstream, catalogFile, tmpFile, syncedWith, payloadCache, overlay, published, kills>>

StageCatalog ==
  /\ sync.at = "merged"
  /\ tmpFile' = sync.merged
  /\ sync' = [sync EXCEPT !.at = "staged"]
  /\ UNCHANGED <<upstream, catalogFile, syncedWith, payloadCache, overlay, published, kills>>

ReplaceCatalog ==
  /\ sync.at = "staged"
  /\ catalogFile' = tmpFile /\ tmpFile' = None
  /\ syncedWith' = sync.payload
  /\ sync' = NoSync
  /\ UNCHANGED <<upstream, payloadCache, overlay, published, kills>>

KillSync ==
  /\ sync.at \notin {"idle", "fetched"} /\ kills < MaxKills
  /\ kills' = kills + 1
  /\ sync' = NoSync
  /\ UNCHANGED <<upstream, catalogFile, tmpFile, syncedWith, payloadCache, overlay, published>>

(* The body is cached before it is parsed.                                 *)
FetchAndCache(body) ==
  /\ sync.at = "idle" /\ payloadCache # body
  /\ payloadCache' = body
  /\ UNCHANGED <<upstream, catalogFile, tmpFile, sync, syncedWith, overlay, published, kills>>

(* A program overlays what it fetched, or cached, on the catalog it has.   *)
Discover(payload) ==
  /\ sync.at = "idle" /\ IsPayload(payload)
  /\ LET entries == AllEntries(payload)
     IN overlay' = [base |-> catalogFile, entries |-> entries, index |-> WithDiscovered(catalogFile, entries)]
  /\ overlay' # overlay
  /\ UNCHANGED <<upstream, catalogFile, tmpFile, sync, syncedWith, payloadCache, published, kills>>

CatalogNext ==
  \/ \E payload \in Payloads : Publish(payload)
  \/ FetchUpstream \/ CheckDrift \/ MergeUpstream \/ StageCatalog \/ ReplaceCatalog \/ KillSync
  \/ \E body \in {upstream, Malformed} : FetchAndCache(body)
  \/ \E payload \in {upstream, payloadCache} : Discover(payload)

CatalogSpec == CatalogInit /\ [][CatalogNext]_catalogVars

----------------------------------------------------------------------------

(* A catalog written from a payload is in sync with it: merging again      *)
(* changes and reports nothing.                                            *)
MergeIdempotent ==
  IsPayload(syncedWith) =>
    MergeCatalog(catalogFile, syncedWith) = catalogFile /\ IsClean(CatalogDiff(catalogFile, syncedWith))

ModelIds(models) == [i \in DOMAIN models |-> models[i].id]

(* However often the catalog is synced and the tool is killed, no model is *)
(* lost or moved, no model is there twice that was not, and what does not  *)
(* come from upstream is as it was.                                        *)
NothingLost ==
  \A i \in DOMAIN BornCatalog :
    LET was == BornCatalog[i]
        is == catalogFile[i]
    IN /\ IsPrefix(ModelIds(was.models), ModelIds(is.models))
       /\ IsInjective(ModelIds(was.models)) => IsInjective(ModelIds(is.models))
       /\ was.api \notin NotGiven => is.api = was.api
       /\ Resolve(was.id) = None => is = was

(* A merge that is about to be written lists every price it moves, and a   *)
(* check calls a catalog clean only if nothing differs.                    *)
PricesReported ==
  /\ sync.at \in {"merged", "staged"} =>
       \A i \in DOMAIN catalogFile : \A j \in DOMAIN catalogFile[i].models :
         Price(catalogFile[i].models[j]) # Price(sync.merged[i].models[j]) =>
           <<catalogFile[i].id, catalogFile[i].models[j].id>> \in sync.diff.prices
  /\ sync.verdict = "clean" => IsClean(sync.diff)

(* What was discovered is found: in its provider with the data of its last *)
(* entry, listed no more often than it was, counted in what the provider   *)
(* can do, and with its cost if no other provider lists the model.         *)
FoundIn(base, entries, index) ==
  \A i \in DOMAIN entries :
    LET entry == entries[i]
        model == Descriptor(entry)
        was == GetProvider(base, entry.provider)
        home == IF was = None THEN "discovered" ELSE entry.provider
        is == GetProvider(index, home)
        Only(p) == p.id # home => ~HasModel(p.models, model.id)
    IN (\A j \in (i + 1)..Len(entries) : entries[j].provider = entry.provider => entries[j].id # entry.id) =>
         /\ model \in Range(ModelsFor(index, home))
         /\ was # None /\ IsInjective(ModelIds(was.models)) => IsInjective(ModelIds(is.models))
         /\ model.tools => SupportsToolCalling(is)
         /\ model.limit # None => ContextLimit(is) >= model.limit
         /\ was # None /\ model.cost # None /\ (\A j \in DOMAIN index : Only(index[j])) =>
              EstimateCost(index, model.id, 1, 0) = model.cost.input

OverlayFound == FoundIn(overlay.base, overlay.entries, overlay.index)

CatalogConverges == MergeIdempotent /\ NothingLost /\ PricesReported /\ OverlayFound
=============================================================================

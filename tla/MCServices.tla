------------------------------ MODULE MCServices ------------------------------
(***************************************************************************)
(* The services that share no state with each other, each on an instance   *)
(* of its own.  A behavior is one of a single service, its part; the       *)
(* others stand still in an initial state with nothing in it.              *)
(***************************************************************************)
EXTENDS LlmClient, Federation, SavedFiles, StoreSchema, ProviderCatalog, GraphAlgorithms, TextTools, QualityGate, AsyncGraph

CONSTANTS w1, w2

VARIABLE part

----------------------------------------------------------------------------
(* Two requests, one that sets nothing and one that sets everything, and   *)
(* three answers: content, reasoning alone, and all kinds of blocks.       *)

DataLine(json) == [type |-> "data", json |-> json]
EventLine(name) == [type |-> "event", name |-> name]
OtherLine == [type |-> "other"]

Counts(p, c) == [prompt |-> p, completion |-> c, total |-> p + c, reasoning |-> None]

OpenAiChunk(quality, r, c, usage, finish) ==
  DataLine([quality |-> quality, delta |-> [reasoning |-> r, content |-> c], usage |-> usage, finish |-> finish])

OpenAiAnswer(r, c, quality, lines) ==
  [provider |-> "openai", reasoning |-> Or(r, <<>>), content |-> c, lines |-> lines,
   json |-> [quality |-> quality, model |-> "m", usage |-> Counts(1, 2),
             choices |-> <<[content |-> IF c = <<>> THEN None ELSE c, reasoning |-> r, tools |-> <<>>, finish |-> "stop"]>>]]

MCOpenAiAnswers ==
  {OpenAiAnswer(<<"r">>, <<"c", "d">>, "control",
     <<OpenAiChunk("strict", <<"r">>, None, None, None), OtherLine, OpenAiChunk("control", None, <<"c">>, None, None),
       OpenAiChunk("strict", None, <<"d">>, None, None), OpenAiChunk("strict", None, <<>>, Counts(1, 2), "stop"),
       [type |-> "done"]>>),
   OpenAiAnswer(<<"r">>, <<>>, "strict",
     <<OpenAiChunk("strict", <<"r">>, <<>>, None, None), OpenAiChunk("strict", None, None, Counts(1, 2), None),
       OpenAiChunk("strict", None, None, None, "stop")>>)}

AnthropicEvent(name, data) == <<EventLine(name), DataLine([quality |-> "strict"] @@ data)>>
Piece(type, piece) == [delta |-> [type |-> type, text |-> <<piece>>]]

MCAnthropicAnswers ==
  {[provider |-> "anthropic", reasoning |-> <<"r">>, content |-> <<"c", "d">>,
    json |-> [quality |-> "strict", model |-> "m", usage |-> Counts(1, 2), stop |-> "end_turn",
              content |-> <<[type |-> "thinking", text |-> <<"r">>], [type |-> "text", text |-> <<"c">>],
                            [type |-> "tool_use", text |-> <<"t">>], [type |-> "text", text |-> <<"d">>]>>],
    lines |-> AnthropicEvent("message_start", [usage |-> [prompt |-> 1, completion |-> 0]])
              \o AnthropicEvent("content_block_delta", Piece("thinking_delta", "r"))
              \o AnthropicEvent("content_block_delta", Piece("text_delta", "c"))
              \o AnthropicEvent("content_block_delta", Piece("text_delta", "d"))
              \o AnthropicEvent("message_delta", [stop |-> "end_turn", usage |-> [prompt |-> None, completion |-> 2]])
              \o AnthropicEvent("message_stop", <<>>)]}

MCAnswers == MCOpenAiAnswers \cup MCAnthropicAnswers

MCRequests ==
  {Request([messages |-> <<Message("user", "q")>>]),
   Request([system |-> "s", messages |-> <<Message("user", "q")>>, temperature |-> None, max_tokens |-> 5,
            model |-> "other", tools |-> <<"f">>, response_format |-> "json_schema", verbosity |-> "high",
            reasoning |-> [ReasoningConfig EXCEPT !.effort = "low", !.enabled = FALSE], extra_body |-> "seed" :> 1,
            observability |-> [NoContext EXCEPT !.session_id = "s1", !.metadata = "k" :> "v"]])}

MCSettings == FromEnv("LANGFUSE_PUBLIC_KEY" :> "p" @@ "LANGFUSE_SECRET_KEY" :> "s" @@ "LANGFUSE_HOST" :> "")

----------------------------------------------------------------------------
(* Batches within a BIGINT, with an id twice, and with one beyond it.      *)

MCBatches == <<<<Row(1, 2), Row(2, 1)>>, <<Row(3, 3), Row(1, 1)>>, <<Row(4, 2), Row(1, 3), Row(1, 2)>>>>
MCDocuments == (1 :> <<"rust", "db">>) @@ (3 :> <<"db">>)
MCWeights == [qdrant |-> 1, elastic |-> 0, dense |-> 2]

----------------------------------------------------------------------------
(* Values that the encoding of the vault tells apart, files it may find,   *)
(* and metadata of indexes that differs in one field.                      *)

MCValues ==
  {<<>>, <<"a">>, <<"n", Return>>, <<"$">>, <<Newline, "n">>, <<Quote, Return, Quote>>,
   <<"$", Quote, Backslash>>, <<Backslash, "n", Quote>>, <<"DQ", Backslash, "DQ">>}
MCInserts ==
  w1 :> ({"API_KEY"} \X MCValues)
  @@ w2 :> {<<"API_KEY", <<"$">>>>, <<"OTHER_KEY", <<"a">>>>, <<"bad key", <<"a">>>>}

Found(type, lines) == [data |-> [type |-> type, lines |-> lines], synced |-> TRUE]
MCOld ==
  {NoFile, Found("link", <<>>), Found("secrets", <<[type |-> "bad"]>>),
   Found("secrets", <<[type |-> "skipped"], Entry("API_KEY", <<"DQ", "a", Backslash, "DQ", "DQ">>),
                      Entry("API_KEY", <<Quote, "n", Quote>>)>>)}

Meta(d, b, p) == [dim |-> d, bits |-> b, policy |-> p]
MCMetas == {Meta(2, 4, 1), Meta(2, 4, 2), Meta(3, 4, 1), Meta(2, 3, 1)}

----------------------------------------------------------------------------
(* A provider with an upstream, one that shares its upstream's key with    *)
(* none, and one kept by hand that lists a model of the first.             *)

MCBorn ==
  <<ServiceDescriptor("openai", None,
      <<ModelDescriptor("m1", ModelCost(1, 2, None), 8, FALSE), ModelDescriptor("m2", None, None, FALSE)>>),
    ServiceDescriptor("zai-cn", "zai.example", <<ModelDescriptor("g1", ModelCost(1, 1, None), None, TRUE)>>),
    ServiceDescriptor("native", "", <<ModelDescriptor("m1", ModelCost(3, 3, None), None, FALSE)>>)>>

Upstream(api, openai, zai) ==
  "openai" :> [api |-> api, models |-> openai] @@ "zai" :> [api |-> "other.example", models |-> zai]
MCPayloads ==
  {Upstream(None, <<>>, <<RawModel("g1", ModelCost(2, 1, None), 4, 4, FALSE)>>),
   Upstream("api.example", <<RawModel("m1", ModelCost(1, 3, None), 8, None, FALSE)>>,
     <<RawModel("g2", ModelCost(1, 1, None), 4, 4, FALSE), RawModel("g2", None, 8, 8, TRUE)>>),
   Upstream("api.example", <<RawModel("m1", ModelCost(1, 2, 1), 16, 4, TRUE), RawModel("m1", ModelCost(2, 2, None), 8, 4, FALSE),
                             RawModel("m3", None, None, None, None)>>, <<>>),
   "other" :> [api |-> None, models |-> <<RawModel("m1", ModelCost(9, 9, None), None, 4, FALSE)>>]}

----------------------------------------------------------------------------
(* Four nodes, one named twice, and all graphs of some of these edges.     *)

MCNodeIds == <<"a", "b", "a", "c", "d">>
MCSlots ==
  <<<<"a", "b">>, <<"a", "c">>, <<"b", "c">>, <<"c", "b">>, <<"d", "c">>, <<"b", "d">>, <<"d", "x">>, <<"a", "a">>>>
MCWeightings == {-1, 1, 4} \X {-1, 1, 3} \X {-1, 8} \X {-1, 2} \X {-1, 0, 4} \X {-1, 2} \X {1} \X {1}
MCHopCosts == <<200, 100, 42>>
MCRarities == (2 :> 144) @@ (3 :> 91) @@ (4 :> 72) @@ (5 :> 62)
MCEdgeLists ==
  {SelectSeq([k \in DOMAIN MCSlots |-> [source |-> MCSlots[k][1], target |-> MCSlots[k][2], weight |-> ws[k]]],
             LAMBDA e : e.weight # -1) : ws \in MCWeightings}

----------------------------------------------------------------------------
(* Texts of up to five sentences, lines and blanks; JSON values whose      *)
(* strings hold brackets, quotes and backslashes, in prose and in fences;  *)
(* findings that overlap, touch and nest; weights that tie; the embeddings *)
(* of a batch in every order, and one short; messages, matches of rules,   *)
(* times and escapes.                                                      *)

MCSentences ==
  {<<"latin", ".">>, <<"space", "cjk", "cjk", "cjk">>, <<"latin", "space", "cyrillic", "latin", "newline">>,
   <<"emoji", "emoji", ".">>, <<"newline">>}
MCTexts ==
  {<<>>} \cup {FlattenSeq(s) : s \in UNION {[1..n -> MCSentences] : n \in {1, 4}}
                               \cup {<<<<"latin", ".">>, <<"latin", ".">>>> \o s : s \in [1..3 -> MCSentences]}}
MCChunkJobs ==
  {[type |-> "chunk", text |-> text, opts |-> o] : text \in MCTexts,
     o \in {ChunkOptions(0, 1), ChunkOptions(3, 0), ChunkOptions(3, 2), ChunkOptions(4, 9)}}

MCStrings ==
  {<<"DQ", "DQ">>, <<"DQ", "}", "DQ">>, <<"DQ", "\\", "DQ", "{", "DQ">>, <<"DQ", "\\", "\\", "DQ">>,
   <<"DQ", Fence, "DQ">>}
MCFlat == {<<"{", "}">>} \cup {<<"{">> \o s \o <<"}">> : s \in MCStrings}
MCJson ==
  MCFlat \cup {<<"[">> \o s \o <<"]">> : s \in MCFlat}
  \cup {<<"{">> \o s \o v \o <<"}">> : s \in MCStrings, v \in MCFlat}
MCAround ==
  {<<<<>>, <<>>>>, <<<<"a", "DQ">>, <<"}", "a">>>>, <<<<"[", "a">>, <<"{">>>>, <<<<"a", Fence>>, <<Fence>>>>,
   <<<<"newline", Fence, "json", "newline">>, <<"newline", Fence, "a">>>>,
   <<<<Fence, "newline", "a", Fence, "a">>, <<"}">>>>, <<<<Fence>>, <<"newline", Fence>>>>,
   <<<<"[", "a", "]">>, <<>>>>, <<<<"[", "a", "]", Fence, "newline">>, <<Fence>>>>,
   <<<<Fence, "json", "newline", "a">>, <<"newline", Fence>>>>}
MCJsonJobs ==
  {[type |-> "json", before |-> around[1], json |-> v, after |-> around[2]] : around \in MCAround, v \in MCJson}

Finding(s, e, severity) == [start |-> s, end |-> e, severity |-> severity]
MCFindings ==
  {Finding(0, 2, "low"), Finding(1, 4, "critical"), Finding(2, 3, "high"), Finding(3, 5, "medium"),
   Finding(5, 6, "high"), Finding(1, 2, "low")}
MCScanJobs ==
  {[type |-> "scan", length |-> 6, findings |-> f, family |-> family] :
     f \in UNION {[1..n -> MCFindings] : n \in 0..3}, family \in {"local", "cloud"}}

Weight(i, v) == [index |-> i, value |-> v]
MCPruneJobs ==
  {[type |-> "prune", elements |-> <<Weight(7, v[1]), Weight(2, v[2]), Weight(5, v[3])>>, k |-> k] :
     v \in [1..3 -> {-2, 0, 1, 2}], k \in 0..4}

Embedding(i) == [index |-> i, vector |-> <<"v", i>>]
MCEmbedJobs ==
  {[type |-> "embed", texts |-> <<"t0", "t1", "t2">>, data |-> d] :
     d \in {<<Embedding(p[1]), Embedding(p[2]), Embedding(p[3])>> : p \in {q \in [1..3 -> 0..2] : IsInjective(q)}}
           \cup {<<Embedding(1), Embedding(0)>>}}

MCWords ==
  {"error[", "E0412", "e0412", "]", "mismatched types", "clippy::", "test failed", "panic", "of"}
MCClassifyJobs ==
  {[type |-> "classify", message |-> m] : m \in UNION {[1..n -> MCWords] : n \in 0..4}}
\* The sixth rule asks for more than the fourth does.
MCInjectionJobs ==
  {[type |-> "injection", matched |-> m] :
     m \in {m \in UNION {kSubset(n, 1..13) : n \in 0..4} : 6 \in m => 4 \in m}}

(* The days around the ends of months and of leap years, to 2101.          *)
MCDays == {0, 30, 31, 58, 59, 364, 365, 789, 790, 1095, 1096, 11015, 11016, 11322, 11323, 47540, 47541, 47846, 47847}
MCTimes == [day : MCDays, sec : {0, 3661, 86399}]
MCStampJobs == {[type |-> "stamp", times |-> <<t, u>>] : t, u \in MCTimes}

MCPieces == {<<"a">>, <<"[">>, <<"0">>, <<"newline">>, <<"ESC", "[", "m">>, <<"ESC", "[", "0", "0", "[">>}
MCStripJobs ==
  {[type |-> "strip", pieces |-> p, end |-> e] : p \in UNION {[1..n -> MCPieces] : n \in 0..4},
     e \in {<<>>, <<"ESC">>, <<"ESC", "[", "0">>}}

MCTextJobs ==
  MCChunkJobs \cup MCJsonJobs \cup MCScanJobs \cup MCPruneJobs \cup MCEmbedJobs \cup MCClassifyJobs \cup MCInjectionJobs \cup MCStampJobs \cup MCStripJobs

----------------------------------------------------------------------------

(* Datasets of one or two entries, with answers that are right, that a     *)
(* revision makes worse or better, and files that are empty or gone.       *)

Tokens_(actual, estimated) == [actual |-> actual, estimated |-> estimated]
Safe(expected, actual) == [expected |-> expected, actual |-> actual]
Scan(expected, actual, right) == [expected |-> expected, actual |-> actual, sensitivity_right |-> right]
Case(injection, score) == [injection |-> injection, score |-> score]
Search(expected, fused) == [expected |-> expected, fused |-> fused]
Query(type, expected, found) == [type |-> type, expected |-> expected, found |-> found]
Korean(t5, t10, c5, c10) ==
  [expected |-> {1, 2}, trigram5 |-> t5, trigram10 |-> t10, cjk5 |-> c5, cjk10 |-> c10]

MCGood ==
  [tokens |-> <<Tokens_(30, 32), Tokens_(10, 16)>>, safety |-> <<Safe(<<"k", "*">>, <<"k", "*">>), Safe(<<"*">>, <<"*">>)>>,
   dlp |-> <<Scan({"secret"}, {"secret"}, TRUE), Scan({}, {}, TRUE)>>, benign |-> <<FALSE>>,
   embedding |-> "identity_accuracy" :> <<TRUE, TRUE>> @@ "range_accuracy" :> <<TRUE>>,
   injection |-> <<Case(TRUE, 8), Case(TRUE, 4), Case(FALSE, 0), Case(FALSE, 0), Case(TRUE, 3)>>,
   search |-> <<Search({1, 2}, <<3, 1, 2, 4, 5, 6>>), Search({1}, <<1>>)>>,
   graph |-> <<Query("fts_search", {1, 2}, {1, 2}), Query("pagerank", {1}, {1}), Query("cypher", {1}, {})>>,
   graph_korean |-> <<Korean({}, {1}, {1, 2}, {1, 2}), Korean({1}, {1}, {1, 2, 3}, {1, 2, 3, 4})>>]

MCAnswersOf ==
  [tokens |-> {None, <<>>, <<Tokens_(30, 32), Tokens_(10, 17)>>, <<Tokens_(30, 29), Tokens_(10, 10)>>, <<Tokens_(30, 32), Tokens_(10, 60)>>},
   safety |-> {None, <<Safe(<<"k", "*">>, <<"k">>), Safe(<<"*">>, <<"*">>)>>, <<Safe(<<"k", "*">>, <<"k", "*">>), Safe(<<"*">>, <<"s">>)>>,
               <<Safe(<<"k", "*">>, <<"k", "*", "*">>), Safe(<<"*">>, <<"*">>)>>},
   dlp |-> {<<>>, <<Scan({"secret"}, {}, TRUE), Scan({}, {}, TRUE)>>, <<Scan({"secret"}, {"secret"}, TRUE), Scan({}, {}, FALSE)>>},
   benign |-> {None, <<TRUE>>},
   embedding |-> {"identity_accuracy" :> <<TRUE, FALSE>> @@ "range_accuracy" :> <<TRUE>>},
   injection |-> {<<Case(TRUE, 8), Case(TRUE, 4), Case(FALSE, 0), Case(FALSE, 2), Case(TRUE, 3)>>,
                  <<Case(TRUE, 8), Case(TRUE, 4), Case(FALSE, 0), Case(FALSE, 0), Case(TRUE, 4)>>},
   search |-> {None, <<Search({1, 2}, <<3, 1, 7, 4, 5, 2>>), Search({1}, <<1>>)>>, <<Search({1, 2}, <<1, 2>>), Search({1}, <<>>)>>,
               <<Search({1, 2}, <<1, 2>>), Search({1}, <<2, 1>>)>>},
   graph |-> {<<>>, <<Query("fts_search", {1, 2}, {1}), Query("pagerank", {1}, {1})>>, <<Query("cypher", {1}, {})>>,
              <<Query("fts_search", {1, 2}, {1}), Query("pagerank", {1}, {1}), Query("cypher", {1}, {})>>,
              <<Query("fts_search", {1, 2}, {1, 2, 3}), Query("pagerank", {1}, {1}), Query("cypher", {1}, {})>>},
   graph_korean |-> {None, <<>>, <<Korean({}, {1}, {1}, {1, 2}), Korean({1}, {1}, {1, 2, 3}, {1, 2, 3, 4})>>,
                     <<Korean({1, 2}, {1, 2}, {1, 2}, {1, 2}), Korean({1, 2}, {1}, {1, 2}, {1, 2})>>}]

MCRevisions == UNION {{[MCGood EXCEPT ![m] = content] : content \in MCAnswersOf[m]} : m \in DOMAIN MCAnswersOf}
MCAccepted == {MCGood, [MCGood EXCEPT !.graph = <<Query("fts_search", {1, 2}, {1}), Query("pagerank", {1}, {2}), Query("cypher", {1}, {})>>]}
MCCorpora ==
  MCRevisions \cup {MCGood} \cup {[c EXCEPT !.search = content] : c \in MCRevisions, content \in {None, <<Search({1, 2}, <<1, 2>>), Search({1}, <<2, 1>>)>>}}
MCModules == {"tokens", "safety", "dlp", "embedding", "injection", "search", "graph", "graph_korean"}
MCBuilds == {MCModules, MCModules \ {"dlp", "graph", "graph_korean"}}

----------------------------------------------------------------------------

CatalogIdle ==
  /\ upstream = None /\ catalogFile = BornCatalog /\ tmpFile = None /\ sync = NoSync /\ syncedWith = None
  /\ payloadCache = None /\ overlay = [base |-> <<>>, entries |-> <<>>, index |-> <<>>]
  /\ published = 0 /\ kills = 0

AlgorithmsIdle ==
  /\ csr = FromEdges(<<>>, <<>>) /\ task = "paths" /\ goal = None
  /\ search = [done |-> FALSE] /\ components = [edges |-> <<>>] /\ communities = None

GateIdle ==
  /\ corpus = MCGood /\ build = MCModules
  /\ baseline = None /\ savedOn = None /\ run = None

TextIdle == job = [type |-> "none"] /\ packing = [chunks |-> <<>>] /\ output = None

Init ==
  /\ part \in {"client", "search", "secrets", "index", "store", "catalog", "algorithms", "text", "gate", "async"}
  /\ ClientInit
  /\ AsyncInit
  /\ FederationInit
  /\ FilesInit /\ (part # "secrets" => disk["secrets"] = NoFile)
  /\ StoreInit /\ (part # "store" => database.born = 0 /\ method = "plain")
  /\ IF part = "catalog" THEN CatalogInit ELSE CatalogIdle
  /\ IF part = "algorithms" THEN AlgorithmsInit ELSE AlgorithmsIdle
  /\ IF part = "text" THEN TextInit ELSE TextIdle
  /\ IF part = "gate" THEN GateInit ELSE GateIdle

Next ==
  /\ UNCHANGED part
  /\ \/ /\ part = "client" /\ ClientNext
        /\ UNCHANGED <<searchVars, fileVars, storeVars, catalogVars, algorithmVars, textVars, gateVars, asyncVars>>
     \/ /\ part = "search" /\ FederationNext
        /\ UNCHANGED <<llmVars, fileVars, storeVars, catalogVars, algorithmVars, textVars, gateVars, asyncVars>>
     \/ /\ \/ part = "secrets" /\ SecretsNext
           \/ part = "index" /\ IndexNext
        /\ UNCHANGED <<llmVars, searchVars, storeVars, catalogVars, algorithmVars, textVars, gateVars, asyncVars>>
     \/ /\ part = "store" /\ StoreNext
        /\ UNCHANGED <<llmVars, searchVars, fileVars, catalogVars, algorithmVars, textVars, gateVars, asyncVars>>
     \/ /\ part = "catalog" /\ CatalogNext
        /\ UNCHANGED <<llmVars, searchVars, fileVars, storeVars, algorithmVars, textVars, gateVars, asyncVars>>
     \/ /\ part = "algorithms" /\ AlgorithmsNext
        /\ UNCHANGED <<llmVars, searchVars, fileVars, storeVars, catalogVars, textVars, gateVars, asyncVars>>
     \/ /\ part = "text" /\ TextNext
        /\ UNCHANGED <<llmVars, searchVars, fileVars, storeVars, catalogVars, algorithmVars, gateVars, asyncVars>>
     \/ /\ part = "gate" /\ GateNext
        /\ UNCHANGED <<llmVars, searchVars, fileVars, storeVars, catalogVars, algorithmVars, textVars, asyncVars>>
     \/ /\ part = "async" /\ AsyncNext
        /\ UNCHANGED <<llmVars, searchVars, fileVars, storeVars, catalogVars, algorithmVars, textVars, gateVars>>

Spec ==
  Init /\ [][Next]_<<part, llmVars, searchVars, fileVars, storeVars, catalogVars, algorithmVars, textVars, gateVars, asyncVars>>
=============================================================================

----------------------------- MODULE QualityGate -----------------------------
(***************************************************************************)
(* llm-kernel-eval, the gate of continuous integration: what it measures   *)
(* of the library's answers on its datasets, how it compares that with a   *)
(* baseline saved earlier, and how it exits.  A metric is a fraction       *)
(* <<n, d>> and None where the program divides zero by zero; percentages   *)
(* are shares.                                                             *)
(***************************************************************************)
EXTENDS Options, Integers, SequencesExt, FiniteSetsExt, TLC

CONSTANTS
  Corpora,      (* For every module its entries with what the library      *)
                (* answers; None is a file that cannot be loaded.          *)
  Accepted,     (* Those a baseline was made from.                         *)
  Builds,       (* The sets of modules that are compiled in.               *)
  Commands      (* A module each, or "all".                                *)

VARIABLES
  corpus, build,
  baseline,     (* The reports of an earlier run, or None,                 *)
  savedOn,      (* History: and what it was made from.                     *)
  run           (* The last run: its command, flag, reports and exit code. *)

gateVars == <<corpus, build, baseline, savedOn, run>>

----------------------------------------------------------------------------
(* Fractions.                                                              *)

Less(a, b) == a[1] * b[2] < b[1] * a[2]
Plus(a, b) == <<a[1] * b[2] + b[1] * a[2], a[2] * b[2]>>
OfAll(n, total) == IF total = 0 THEN <<1, 1>> ELSE <<n, total>>
Share(entries, Good(_)) == <<Quantify(DOMAIN entries, LAMBDA i : Good(entries[i])), Len(entries)>>
Average(entries, Measure(_)) ==
  LET sum == FoldLeft(LAMBDA s, e : Plus(s, Measure(e)), <<0, 1>>, entries)
  IN IF entries = <<>> THEN None ELSE <<sum[1], sum[2] * Len(entries)>>
F1(p, r) == IF p[1] + r[1] = 0 THEN <<0, 1>> ELSE <<2 * p[1] * r[1], p[1] * r[2] + r[1] * p[2]>>

EvalReport(module, metrics, passed) == [module |-> module, metrics |-> metrics, passed |-> passed]
Errored(module) == EvalReport(module, None, FALSE)

(* No entries is an error too.                                             *)
Loaded(module, entries, Eval(_)) == IF entries \in {None, <<>>} THEN Errored(module) ELSE Eval(entries)

----------------------------------------------------------------------------
(* The modules.                                                            *)

TokenError(e) == IF e.estimated < e.actual THEN e.actual - e.estimated ELSE e.estimated - e.actual

EvalTokens(entries) ==
  LET mae == Average(entries, LAMBDA e : <<TokenError(e), 1>>)
  IN EvalReport("tokens",
       "mae" :> mae
       @@ "max_error" :> <<Max({TokenError(e) : e \in Range(entries)}), 1>>
       @@ "pct_within_3" :> Share(entries, LAMBDA e : TokenError(e) <= 3)
       @@ "pct_within_10pct" :> Share(entries, LAMBDA e : e.actual > 0 /\ 10 * TokenError(e) <= e.actual),
       Less(mae, <<10, 1>>))

(* Characters are compared where they stand; what is missing at the end is *)
(* missed, what is wrong or too much is false.                             *)
CharMetrics(e) ==
  LET tp == Quantify(DOMAIN e.actual \cap DOMAIN e.expected, LAMBDA i : e.actual[i] = e.expected[i])
  IN [tp |-> tp, fp |-> Len(e.actual) - tp, fn |-> Max({0, Len(e.expected) - Len(e.actual)})]

EvalSafety(entries) ==
  LET p == Average(entries, LAMBDA e : OfAll(CharMetrics(e).tp, CharMetrics(e).tp + CharMetrics(e).fp))
      r == Average(entries, LAMBDA e : OfAll(CharMetrics(e).tp, CharMetrics(e).tp + CharMetrics(e).fn))
  IN EvalReport("safety",
       "exact_match_rate" :> Share(entries, LAMBDA e : e.actual = e.expected)
       @@ "avg_precision" :> p @@ "avg_recall" :> r @@ "avg_f1" :> F1(p, r)
       @@ "missed_secrets" :> <<Quantify(DOMAIN entries, LAMBDA i : CharMetrics(entries[i]).fn > 0), 1>>,
       ~Less(F1(p, r), <<9, 10>>))

(* A file of benign traffic that cannot be loaded counts as empty.         *)
EvalDlp(entries, benign) ==
  LET Count(Of(_)) == FoldLeft(LAMBDA n, e : n + Cardinality(Of(e)), 0, entries)
      tp == Count(LAMBDA e : e.actual \cap e.expected)
      p == OfAll(tp, Count(LAMBDA e : e.actual))
      r == OfAll(tp, Count(LAMBDA e : e.expected))
      right == Share(entries, LAMBDA e : e.sensitivity_right)
      flagged == IF Or(benign, <<>>) = <<>> THEN <<0, 1>> ELSE Share(benign, LAMBDA flag : flag)
  IN EvalReport("dlp",
       "false_positive_rate" :> flagged @@ "category_precision" :> p @@ "category_recall" :> r
       @@ "category_f1" :> F1(p, r) @@ "sensitivity_exact_match_rate" :> right,
       ~Less(F1(p, r), <<9, 10>>) /\ ~Less(right, <<9, 10>>) /\ flagged[1] = 0)

(* The four kinds of checks, each a sequence of what passed.               *)
EvalEmbedding(checks) ==
  EvalReport("embedding",
    [metric \in DOMAIN checks |-> Share(checks[metric], LAMBDA passed : passed)],
    \A metric \in DOMAIN checks : FALSE \notin Range(checks[metric]))

(* Scores are in tenths; between 2 and 4 neither is right.                 *)
RightCase(c) == IF c.injection THEN c.score >= 4 ELSE c.score < 2

EvalInjection(cases) ==
  LET Of(kind) == SelectSeq(cases, LAMBDA c : c.injection = kind)
      Right(kind) == Share(Of(kind), RightCase)
      accuracy == Share(cases, RightCase)
  IN EvalReport("injection",
       "injection_recall" :> OfAll(Right(TRUE)[1], Right(TRUE)[2])
       @@ "benign_specificity" :> OfAll(Right(FALSE)[1], Right(FALSE)[2]) @@ "accuracy" :> accuracy,
       ~Less(accuracy, <<8, 10>>))

Top5(e) == Range(SubSeq(e.fused, 1, Min({5, Len(e.fused)})))
FirstRight(e) == SelectInSeq(e.fused, LAMBDA id : id \in e.expected)

EvalSearch(entries) ==
  LET p == Average(entries, LAMBDA e : <<Cardinality(Top5(e) \cap e.expected), Max({1, Cardinality(Top5(e))})>>)
      r == Average(entries, LAMBDA e : <<Cardinality(Top5(e) \cap e.expected), Max({1, Cardinality(e.expected)})>>)
      mrr == Average(entries, LAMBDA e : IF FirstRight(e) = 0 THEN <<0, 1>> ELSE <<1, FirstRight(e)>>)
  IN EvalReport("search", "avg_precision_at_5" :> p @@ "avg_recall_at_5" :> r @@ "avg_mrr" :> mrr,
            ~Less(p, <<1, 2>>) /\ ~Less(r, <<1, 2>>))

PrecisionOf(found, expected) == OfAll(Cardinality(found \cap expected), Cardinality(found))
RecallOf(found, expected) == OfAll(Cardinality(found \cap expected), Cardinality(expected))

(* Entries of another type are passed over.                                *)
EvalGraph(all) ==
  LET entries == SelectSeq(all, LAMBDA e : e.type \in {"fts_search", "pagerank"})
      f1 == Average(entries, LAMBDA e : F1(PrecisionOf(e.found, e.expected), RecallOf(e.found, e.expected)))
  IN IF entries = <<>> THEN Errored("graph")
     ELSE EvalReport("graph",
            "avg_precision" :> Average(entries, LAMBDA e : PrecisionOf(e.found, e.expected))
            @@ "avg_recall" :> Average(entries, LAMBDA e : RecallOf(e.found, e.expected)) @@ "avg_f1" :> f1,
            ~Less(f1, <<8, 10>>))

FalseRate(found, expected) == <<Cardinality(found \ expected), Max({1, Cardinality(found)})>>
Minus(a, b) == IF None \in {a, b} THEN None ELSE Plus(a, <<-b[1], b[2]>>)

(* Both ways to find a Korean word, on the same documents; without any     *)
(* query every metric is zero over zero.                                   *)
EvalGraphKorean(queries) ==
  LET At(path, of(_, _)) == Average(queries, LAMBDA q : of(q[path], q.expected))
      cjk == At("cjk5", RecallOf)
      trigram == At("trigram5", RecallOf)
  IN IF queries = None THEN Errored("graph_korean")
     ELSE EvalReport("graph_korean",
            "trigram_recall_at_5" :> trigram @@ "trigram_recall_at_10" :> At("trigram10", RecallOf)
            @@ "trigram_precision_at_5" :> At("trigram5", PrecisionOf) @@ "trigram_fp_rate" :> At("trigram5", FalseRate)
            @@ "cjk_recall_at_5" :> cjk @@ "cjk_recall_at_10" :> At("cjk10", RecallOf)
            @@ "cjk_precision_at_5" :> At("cjk5", PrecisionOf) @@ "cjk_fp_rate" :> At("cjk5", FalseRate)
            @@ "recall_gain_at_5" :> Minus(cjk, trigram)
            @@ "fp_reduction" :> Minus(At("trigram5", FalseRate), At("cjk5", FalseRate)),
            cjk # None /\ ~Less(cjk, <<85, 100>>) /\ Less(trigram, cjk))

----------------------------------------------------------------------------
(* The comparison and the gate.                                            *)

HIGHER_IS_BETTER ==
  {"pct_within_3", "pct_within_10pct", "exact_match_rate", "avg_precision", "avg_recall", "avg_f1",
   "avg_precision_at_5", "avg_recall_at_5", "avg_mrr", "identity_accuracy", "orthogonality_accuracy",
   "symmetry_accuracy", "range_accuracy", "injection_recall", "benign_specificity", "accuracy",
   "trigram_recall_at_5", "trigram_recall_at_10", "trigram_precision_at_5", "cjk_recall_at_5",
   "cjk_recall_at_10", "cjk_precision_at_5", "recall_gain_at_5", "fp_reduction"}
LOWER_IS_BETTER == {"mae", "max_error", "missed_secrets", "trigram_fp_rate", "cjk_fp_rate"}

Regresses(metric, was, is) ==
  \/ metric \in HIGHER_IS_BETTER /\ Less(is, was)
  \/ metric \in LOWER_IS_BETTER /\ Less(was, is)

(* The mutant: only modules that fail are compared.                        *)
CompareFailing(current, base) ==
  \E r \in Range(current), b \in Range(base) :
    /\ r.module = b.module /\ None \notin {r.metrics, b.metrics} /\ ~r.passed
    /\ \E metric \in DOMAIN r.metrics \cap DOMAIN b.metrics :
         None \notin {r.metrics[metric], b.metrics[metric]} /\ Regresses(metric, b.metrics[metric], r.metrics[metric])

(* Only what both runs measured is compared.                               *)
CompareReports(current, base) ==
  \E r \in Range(current), b \in Range(base) :
    /\ r.module = b.module /\ None \notin {r.metrics, b.metrics}
    /\ \E metric \in DOMAIN r.metrics \cap DOMAIN b.metrics :
         None \notin {r.metrics[metric], b.metrics[metric]} /\ Regresses(metric, b.metrics[metric], r.metrics[metric])

GateFailures(current) == {r.module : r \in {r \in Range(current) : ~r.passed \/ r.metrics = None}}
MissingModules(current, base) == {b.module : b \in Range(base)} \ {r.module : r \in Range(current)}

ModuleOrder == <<"tokens", "safety", "dlp", "embedding", "injection", "search", "graph", "graph_korean">>

Evaluated(module) ==
  CASE module = "tokens" -> Loaded(module, corpus.tokens, EvalTokens)
    [] module = "safety" -> Loaded(module, corpus.safety, EvalSafety)
    [] module = "dlp" -> Loaded(module, corpus.dlp, LAMBDA entries : EvalDlp(entries, corpus.benign))
    [] module = "embedding" -> EvalEmbedding(corpus.embedding)
    [] module = "injection" -> EvalInjection(corpus.injection)
    [] module = "search" -> Loaded(module, corpus.search, EvalSearch)
    [] module = "graph" -> Loaded(module, corpus.graph, EvalGraph)
    [] module = "graph_korean" -> EvalGraphKorean(corpus.graph_korean)

Results(command) ==
  LET modules == SelectSeq(ModuleOrder, LAMBDA m : m \in build /\ command \in {m, "all"})
  IN [i \in DOMAIN modules |-> Evaluated(modules[i])]

(* A regression, a failure or a module that is gone; without the flag the  *)
(* program only reports, and without a baseline it has nothing to compare. *)
ExitCode(strict, results) ==
  IF strict /\ \/ baseline # None /\ CompareReports(results, baseline)
               \/ GateFailures(results) # {}
               \/ baseline # None /\ MissingModules(results, baseline) # {}
  THEN 1 ELSE 0

----------------------------------------------------------------------------

GateInit ==
  /\ corpus \in Accepted /\ build \in Builds
  /\ baseline = None /\ savedOn = None /\ run = None

(* The reports are saved as the baseline.                                  *)
SaveBaseline(command) ==
  /\ corpus \in Accepted /\ baseline = None /\ run = None /\ Results(command) # <<>>
  /\ baseline' = Results(command)
  /\ savedOn' = [corpus |-> corpus, build |-> build, command |-> command]
  /\ UNCHANGED <<corpus, build, run>>

(* The library, its datasets or the features it is built with change.      *)
(* Bound: once, from what was accepted.                                    *)
Revise(c, b) ==
  /\ corpus \in Accepted /\ run = None /\ (c # corpus \/ b # build)
  /\ corpus' = c /\ build' = b
  /\ UNCHANGED <<baseline, savedOn, run>>

Evaluate(command, strict) ==
  /\ run = None /\ (command # "all" => command \in build)
  /\ LET results == Results(command)
     IN run' = [command |-> command, strict |-> strict, results |-> results, exit |-> ExitCode(strict, results)]
  /\ UNCHANGED <<corpus, build, baseline, savedOn>>

GateNext ==
  \/ \E command \in Commands : SaveBaseline(command)
  \/ \E c \in Corpora, b \in Builds : Revise(c, b)
  \/ \E command \in Commands, strict \in BOOLEAN : Evaluate(command, strict)

----------------------------------------------------------------------------
(* The library answers no entry better than it did, and one worse.         *)
Declined(was, is, Worse(_, _)) ==
  /\ None \notin {was, is} /\ DOMAIN was = DOMAIN is
  /\ \A i \in DOMAIN was : ~Worse(is[i], was[i])
  /\ \E i \in DOMAIN was : Worse(was[i], is[i])

Lost(path, e, f) == f[path] \cap f.expected \subseteq e[path] \cap e.expected /\ f[path] \cap f.expected # e[path] \cap e.expected

ModuleDeclined(module, was, is) ==
  CASE module = "tokens" -> Declined(was.tokens, is.tokens, LAMBDA e, f : TokenError(f) > TokenError(e))
    [] module = "safety" -> Declined(was.safety, is.safety, LAMBDA e, f : e.actual = e.expected /\ f.actual # f.expected)
    [] module = "embedding" ->
         \E kind \in DOMAIN was.embedding : Declined(was.embedding[kind], is.embedding[kind], LAMBDA e, f : e /\ ~f)
    [] module = "injection" -> Declined(was.injection, is.injection, LAMBDA e, f : RightCase(e) /\ ~RightCase(f))
    [] module = "search" ->
         Declined(was.search, is.search, LAMBDA e, f : Cardinality(Top5(f) \cap f.expected) < Cardinality(Top5(e) \cap e.expected))
    [] module = "graph" -> Declined(was.graph, is.graph, LAMBDA e, f : Lost("found", e, f))
    [] module = "graph_korean" -> Declined(was.graph_korean, is.graph_korean, LAMBDA e, f : Lost("cjk5", e, f))
    [] OTHER -> FALSE

(* The strict gate lets a change pass only if every module of the baseline *)
(* still runs and passes and none but dlp, whose metrics have no direction,*)
(* answers worse on the entries it was measured on; and it does not stop a *)
(* change that changes nothing.                                            *)
GateSound ==
  run # None /\ run.strict /\ baseline # None =>
    /\ run.exit = 0 =>
         \A b \in Range(baseline) :
           /\ \E r \in Range(run.results) : r.module = b.module /\ r.passed /\ r.metrics # None
           /\ ~ModuleDeclined(b.module, savedOn.corpus, corpus)
    /\ run.exit = 1 =>
         \/ [corpus |-> corpus, build |-> build, command |-> run.command] # savedOn
         \/ \E b \in Range(baseline) : ~b.passed
=============================================================================

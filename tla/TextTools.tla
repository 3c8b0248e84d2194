------------------------------ MODULE TextTools ------------------------------
(***************************************************************************)
(* What the library does with a text or a vector before or after a model   *)
(* sees it: estimating its tokens, cutting it into chunks, finding the     *)
(* JSON in it, masking what a scan found and deciding whether it may be    *)
(* sent, pruning sparse vectors and ordering embeddings; classifying error *)
(* messages and prompts; and the stamps and escapes of plain texts.  A job *)
(* is one such call; only the chunker takes several steps.                 *)
(***************************************************************************)
EXTENDS Options, Integers, SequencesExt, FiniteSets, TLC

CONSTANTS Mask, TextJobs

VARIABLES job, packing, output

textVars == <<job, packing, output>>

----------------------------------------------------------------------------
(* Tokens.                                                                 *)

(* Twelfths of a token that a character of a script weighs.                *)
CharWeight(ch) ==
  CASE ch \in {"latin", "space", "newline", "."} -> 3
    [] ch \in {"arabic", "cyrillic", "greek", "hebrew"} -> 6
    [] ch = "cjk" -> 8
    [] ch = "emoji" -> 12
    [] ch = "control" -> 0

EstimateTokens(text) ==
  LET weight == FoldLeft(LAMBDA sum, ch : sum + CharWeight(ch), 0, text)
  IN IF weight = 0 THEN 0 ELSE IF weight < 18 THEN 1 ELSE (weight + 6) \div 12

----------------------------------------------------------------------------
(* Chunks.                                                                 *)

IsTerminator(ch) == ch = "."
Blank(ch) == ch = "space"

Trimmed(text, Cut(_)) ==
  LET kept == {i \in DOMAIN text : ~Cut(text[i])}
  IN IF kept = {} THEN <<>>
     ELSE SubSeq(text, CHOOSE i \in kept : \A j \in kept : i <= j, CHOOSE i \in kept : \A j \in kept : i >= j)

(* Sentences keep their terminator, lines lose their newline, and neither  *)
(* is kept if nothing is in it.                                            *)
Segment(text) ==
  LET Close(cut) ==
        IF Trimmed(cut.current, Blank) = <<>> THEN [cut EXCEPT !.current = <<>>]
        ELSE [units |-> Append(cut.units, Trimmed(cut.current, Blank)), current |-> <<>>]
      Take(cut, ch) ==
        CASE ch = "newline" -> Close(cut)
          [] IsTerminator(ch) -> Close([cut EXCEPT !.current = Append(@, ch)])
          [] OTHER -> [cut EXCEPT !.current = Append(@, ch)]
  IN Close(FoldLeft(Take, [units |-> <<>>, current |-> <<>>], text)).units

(* An overlap leaves room for at least one token that is new.              *)
ChunkOptions(max, overlap) ==
  LET most == IF max = 0 THEN 1 ELSE max
  IN [max |-> most, overlap |-> IF overlap < most THEN overlap ELSE most - 1]

Join(units, from, to) ==
  FlattenSeq([k \in 1..(to - from + 1) |-> IF k = 1 THEN units[from] ELSE <<"space">> \o units[from + k - 1]])
Tokens(from, to) == EstimateTokens(Join(packing.units, from, to))

(* From where the units before end fit the overlap; at least one of them.  *)
OverlapStart(start, end, overlap) ==
  LET fits == {i \in start..(end - 1) : \A j \in i..(end - 1) : Tokens(j, end - 1) <= overlap}
  IN IF fits = {} THEN end - 1 ELSE CHOOSE i \in fits : \A j \in fits : i <= j

Chunking == job.type = "chunk" /\ output = None
Units == packing.units

PackUnit ==
  /\ Chunking /\ packing.end <= Len(Units)
  /\ Tokens(packing.start, packing.end) <= job.opts.max
  /\ packing' = [packing EXCEPT !.end = @ + 1]
  /\ UNCHANGED <<job, output>>

EmitLongUnit ==
  /\ Chunking /\ packing.end <= Len(Units) /\ packing.start = packing.end
  /\ Tokens(packing.start, packing.end) > job.opts.max
  /\ packing' = [packing EXCEPT !.chunks = Append(@, <<packing.start, packing.end>>),
                                !.end = @ + 1, !.start = packing.end + 1]
  /\ UNCHANGED <<job, output>>

RestartAtOverlap(start, end) ==
  IF job.opts.overlap = 0 THEN end ELSE OverlapStart(start, end, job.opts.overlap)

(* No overlap when all of the chunk would fit it.                          *)
RestartFresh(start, end) ==
  LET s == OverlapStart(start, end, job.opts.overlap)
  IN IF job.opts.overlap = 0 \/ s <= start THEN end ELSE s

(* The next chunk starts with the overlap, or the last unit when that is   *)
(* all of this chunk; with nothing of it when it is a single unit, or when *)
(* the last unit and the next do not fit together.                         *)
NextStart(start, end) ==
  LET s == OverlapStart(start, end, job.opts.overlap)
      carried == IF s <= start THEN end - 1 ELSE s
  IN CASE job.opts.overlap = 0 \/ end - start <= 1 -> end
       [] carried = end - 1 /\ Tokens(end - 1, end) > job.opts.max -> end
       [] OTHER -> carried

EmitChunk ==
  /\ Chunking /\ packing.end <= Len(Units) /\ packing.start < packing.end
  /\ Tokens(packing.start, packing.end) > job.opts.max
  /\ packing' = [packing EXCEPT !.chunks = Append(@, <<packing.start, packing.end - 1>>),
                                !.start = NextStart(packing.start, packing.end)]
  /\ UNCHANGED <<job, output>>

EmitRest ==
  /\ Chunking /\ packing.end > Len(Units)
  /\ output' = IF packing.start > Len(Units) THEN packing.chunks
               ELSE Append(packing.chunks, <<packing.start, Len(Units)>>)
  /\ UNCHANGED <<job, packing>>

----------------------------------------------------------------------------
(* JSON in the answer of a model.                                          *)

Fence == "fence"
Whitespace(ch) == ch = "newline"

FirstFrom(text, from, Is(_)) ==
  LET at == {i \in from..Len(text) : Is(i)} IN IF at = {} THEN 0 ELSE CHOOSE i \in at : \A j \in at : i <= j

(* The body begins after the line of the fence, if that line ends, and is  *)
(* what is before the next fence.                                          *)
ExtractFenced(text, lang) ==
  LET open == FirstFrom(text, 1, LAMBDA i : text[i] = Fence /\ (lang = "" \/ (i < Len(text) /\ text[i + 1] = lang)))
      after == open + (IF lang = "" THEN 1 ELSE 2)
      line == FirstFrom(text, after, LAMBDA i : text[i] = "newline")
      from == IF line = 0 THEN after ELSE line + 1
      close == FirstFrom(text, from, LAMBDA i : text[i] = Fence)
      body == Trimmed(SubSeq(text, from, close - 1), Whitespace)
  IN IF open = 0 \/ close = 0 \/ body = <<>> THEN None ELSE body

LooksLikeJson(text) == text[1] \in {"{", "["}

Closing(open) == IF open = "{" THEN "}" ELSE "]"

BalancedEndIgnoringStrings(text, start) ==
  LET Depth(j) == Cardinality({i \in start..j : text[i] = text[start]}) - Cardinality({i \in start..j : text[i] = Closing(text[start])})
  IN FirstFrom(text, start, LAMBDA j : Depth(j) = 0)

(* Where the bracket at start is closed; brackets in strings do not count, *)
(* and in a string the character after a backslash is just that.           *)
BalancedEnd(text, start) ==
  LET Step(at, i) ==
        LET ch == text[i]
        IN CASE at.end # 0 -> at
             [] at.end = 0 /\ at.escape -> [at EXCEPT !.escape = FALSE]
             [] at.end = 0 /\ ~at.escape /\ at.quoted /\ ch = "\\" -> [at EXCEPT !.escape = TRUE]
             [] at.end = 0 /\ ~at.escape /\ ch = "DQ" -> [at EXCEPT !.quoted = ~@]
             [] at.end = 0 /\ ~at.quoted /\ ch = text[start] -> [at EXCEPT !.depth = @ + 1]
             [] at.end = 0 /\ ~at.quoted /\ ch = Closing(text[start]) ->
                  [at EXCEPT !.depth = @ - 1, !.end = IF at.depth = 1 THEN i ELSE 0]
             [] OTHER -> at
  IN FoldLeft(Step, [depth |-> 0, quoted |-> FALSE, escape |-> FALSE, end |-> 0],
              [k \in 1..(Len(text) - start + 1) |-> start + k - 1]).end

FindBalanced(text) ==
  LET start == FirstFrom(text, 1, LAMBDA i : text[i] \in {"{", "["} /\ BalancedEnd(text, i) # 0)
  IN IF start = 0 THEN None ELSE SubSeq(text, start, BalancedEnd(text, start))

ExtractJson(answer) ==
  LET text == Trimmed(answer, Whitespace)
      json == ExtractFenced(text, "json")
      any == ExtractFenced(text, "")
  IN CASE json # None -> json
       [] json = None /\ any # None /\ LooksLikeJson(any) -> any
       [] OTHER -> FindBalanced(text)

----------------------------------------------------------------------------
(* What a scan found, and what becomes of the text.                        *)

SpanBefore(s, t) == s.start < t.start \/ (s.start = t.start /\ s.end < t.end)

Severities == <<"low", "medium", "high", "critical">>
SeverityRank(severity) == SelectInSeq(Severities, LAMBDA s : s = severity)
(* Public, internal, confidential, restricted.                             *)
SensitivityOf(severity) ==
  CASE severity = "critical" -> 3
    [] severity = "high" -> 2
    [] OTHER -> 1

ScanReport(findings) ==
  LET worst == CHOOSE f \in Range(findings) : \A g \in Range(findings) : SeverityRank(g.severity) <= SeverityRank(f.severity)
  IN [redact |-> SetToSortSeq({[start |-> f.start, end |-> f.end] : f \in Range(findings)}, SpanBefore),
      sensitivity |-> IF findings = <<>> THEN 0 ELSE SensitivityOf(worst.severity)]

MergeSpans(spans) ==
  FoldLeft(LAMBDA merged, s :
    IF merged # <<>> /\ s.start <= Last(merged).end
    THEN [merged EXCEPT ![Len(merged)].end = IF @ < s.end THEN s.end ELSE @]
    ELSE Append(merged, s), <<>>, spans)

(* The text as the positions that are left of it, with a mask for each     *)
(* span; end is one past the last position of a span.                      *)
ApplyRedactions(length, spans) ==
  LET Slice(from, to) == [k \in 1..(to - from) |-> from + k - 1]
      Splice(at, s) == [out |-> at.out \o Slice(at.pos, s.start) \o <<Mask>>, pos |-> s.end]
      end == FoldLeft(Splice, [out |-> <<>>, pos |-> 0], MergeSpans(spans))
  IN end.out \o Slice(end.pos, length)

Threshold(min, action) == [min |-> min, action |-> action]
DefaultPolicy(family) ==
  IF family = "local" THEN <<>>
  ELSE <<Threshold(3, "block"), Threshold(2, "reroute"), Threshold(1, "warn")>>

(* The highest threshold that is met, the last of equals.                  *)
LookupAction(policy, sensitivity) ==
  LET met == {i \in DOMAIN policy : sensitivity >= policy[i].min}
      best == CHOOSE i \in met : \A j \in met : policy[j].min < policy[i].min \/ (policy[j].min = policy[i].min /\ j <= i)
  IN IF met = {} THEN "allow" ELSE policy[best].action

----------------------------------------------------------------------------
(* Messages and prompts, by the rules they match.                          *)

(* In order; a phrase stands for the patterns of its category in a row.    *)
FailureRules ==
  <<<<"error[E0412]", "lint_fail">>, <<"mismatched types", "type_error">>, <<"syntax error", "syntax_error">>,
    <<"test failed", "test_fail">>, <<"clippy::", "lint_fail">>, <<"build failed", "build_fail">>,
    <<"permission denied", "permission_denied">>, <<"timed out", "timeout">>, <<"not found", "not_found">>,
    <<"panic", "runtime_error">>>>

(* The code of a diagnostic is in brackets, in capitals or not.            *)
Diagnostic(message) ==
  \E i \in 1..(Len(message) - 2) :
    message[i] = "error[" /\ message[i + 1] \in {"E0412", "e0412"} /\ message[i + 2] = "]"
MatchesRule(message, phrase) ==
  IF phrase = "error[E0412]" THEN Diagnostic(message) ELSE phrase \in Range(message)

FirstRule(message) ==
  LET at == SelectInSeq(FailureRules, LAMBDA rule : MatchesRule(message, rule[1]))
  IN IF at = 0 THEN "unknown" ELSE FailureRules[at][2]

(* A message that begins with a code is classified without the rules.      *)
ClassifyFailure(message) ==
  LET end == SelectInSeq(message, LAMBDA word : word = "]")
  IN IF message # <<>> /\ message[1] = "error[" /\ end # 0 /\ SubSeq(message, 2, end - 1) = <<"E0412">>
     THEN "lint_fail" ELSE FirstRule(message)

(* The signal of each rule and its weight in tenths.                       *)
InjectionRules ==
  <<<<"instruction_override", 5>>, <<"instruction_override", 5>>, <<"instruction_override", 5>>,
    <<"role_hijack", 4>>, <<"role_hijack", 4>>, <<"role_hijack", 4>>,
    <<"delimiter_escape", 4>>, <<"delimiter_escape", 4>>, <<"delimiter_escape", 3>>,
    <<"jailbreak", 5>>, <<"jailbreak", 4>>, <<"payload_drop", 5>>, <<"payload_drop", 5>>>>

DetectInjection(matched) ==
  LET Add(found, i) ==
        IF i \notin matched THEN found
        ELSE [sum |-> found.sum + InjectionRules[i][2],
              signals |-> IF InjectionRules[i][1] \in Range(found.signals) THEN found.signals
                          ELSE Append(found.signals, InjectionRules[i][1])]
      all == FoldLeft(Add, [sum |-> 0, signals |-> <<>>], [i \in DOMAIN InjectionRules |-> i])
  IN [score |-> IF all.sum < 10 THEN all.sum ELSE 10, signals |-> all.signals]

----------------------------------------------------------------------------
(* Vectors.  An element of a sparse vector is [index, value].              *)

ByIndex(e, f) == e.index < f.index
SparseVector(elements) == SetToSortSeq({e \in Range(elements) : e.value # 0}, ByIndex)

Magnitude(e) == IF e.value < 0 THEN -e.value ELSE e.value
Heavier(e, f) == Magnitude(e) > Magnitude(f) \/ (Magnitude(e) = Magnitude(f) /\ e.index < f.index)
PruneTopK(sparse, k) ==
  IF k >= Len(sparse) THEN sparse
  ELSE SetToSortSeq(Range(SubSeq(SetToSortSeq(Range(sparse), Heavier), 1, k)), ByIndex)

(* Answers come in any order, and each says which text it is for.          *)
EmbedBatch(texts, data) ==
  LET sorted == SortSeq(data, ByIndex)
  IN IF Len(data) # Len(texts) THEN None
     ELSE [i \in DOMAIN texts |-> [text |-> texts[i], vector |-> sorted[i].vector]]

----------------------------------------------------------------------------
(* Stamps.  A time is the day since 1970 and the second of the day.        *)

IsLeap(y) == (y % 4 = 0 /\ y % 100 # 0) \/ y % 400 = 0
MonthDays(y) == <<31, IF IsLeap(y) THEN 29 ELSE 28, 31, 30, 31, 30, 31, 31, 30, 31, 30, 31>>

DaysToYmd(days) ==
  LET Year[y \in Nat, left \in Nat] ==
        LET length == IF IsLeap(y) THEN 366 ELSE 365
        IN IF left < length THEN [year |-> y, left |-> left] ELSE Year[y + 1, left - length]
      in == Year[1970, days]
      Before(m) == FoldLeft(+, 0, SubSeq(MonthDays(in.year), 1, m - 1))
      month == CHOOSE m \in 1..12 : Before(m) <= in.left /\ in.left < Before(m) + MonthDays(in.year)[m]
  IN <<in.year, month, in.left - Before(month) + 1>>

NowIso(time) == DaysToYmd(time.day) \o <<time.sec \div 3600, (time.sec \div 60) % 60, time.sec % 60>>

DaysSinceEpoch(y, month, day) ==
  LET LeapsTo(x) == x \div 4 - x \div 100 + x \div 400
      months == FoldLeft(+, 0, SubSeq(MonthDays(1970), 1, month - 1)) + (IF month > 2 /\ IsLeap(y) THEN 1 ELSE 0)
  IN (y - 1970) * 365 + LeapsTo(y - 1) - LeapsTo(1969) + months + day - 1

ParseIso(stamp) ==
  [day |-> DaysSinceEpoch(stamp[1], stamp[2], stamp[3]), sec |-> stamp[4] * 3600 + stamp[5] * 60 + stamp[6]]

----------------------------------------------------------------------------
(* Escapes: "[" and "m" may end a sequence, "0" stands in it, a newline    *)
(* breaks it off.                                                          *)

StripAnsi(text) ==
  LET Keep(at, ch) == IF ch = "ESC" THEN [at EXCEPT !.mode = "escape"] ELSE [out |-> Append(at.out, ch), mode |-> "text"]
      Step(at, ch) ==
        CASE at.mode = "escape" /\ ch = "[" -> [at EXCEPT !.mode = "sequence"]
          [] at.mode = "sequence" /\ ch = "0" -> at
          [] at.mode = "sequence" /\ ch \in {"[", "m"} -> [at EXCEPT !.mode = "text"]
          [] OTHER -> Keep(at, ch)
  IN FoldLeft(Step, [out |-> <<>>, mode |-> "text"], text).out

----------------------------------------------------------------------------

TextInit ==
  /\ job \in TextJobs
  /\ packing = [units |-> IF job.type = "chunk" THEN Segment(job.text) ELSE <<>>, start |-> 1, end |-> 1, chunks |-> <<>>]
  /\ output = None

Answer(result) ==
  /\ output = None
  /\ output' = result
  /\ UNCHANGED <<job, packing>>

ExtractJsonJob == job.type = "json" /\ Answer([found |-> ExtractJson(job.before \o job.json \o job.after)])
ScanJob ==
  /\ job.type = "scan"
  /\ LET report == ScanReport(job.findings)
     IN Answer([report |-> report, text |-> ApplyRedactions(job.length, report.redact),
                action |-> LookupAction(DefaultPolicy(job.family), report.sensitivity)])
PruneJob == job.type = "prune" /\ Answer([kept |-> PruneTopK(SparseVector(job.elements), job.k)])
EmbedJob == job.type = "embed" /\ Answer([results |-> EmbedBatch(job.texts, job.data)])
StampJob == job.type = "stamp" /\ Answer([stamps |-> <<NowIso(job.times[1]), NowIso(job.times[2])>>])
ClassifyJob == job.type = "classify" /\ Answer([category |-> ClassifyFailure(job.message)])
InjectionJob == job.type = "injection" /\ Answer(DetectInjection(job.matched))
StripJob == job.type = "strip" /\ Answer([plain |-> StripAnsi(FlattenSeq(job.pieces) \o job.end)])

TextNext ==
  \/ PackUnit \/ EmitLongUnit \/ EmitChunk \/ EmitRest
  \/ ExtractJsonJob \/ ScanJob \/ PruneJob \/ EmbedJob \/ ClassifyJob \/ InjectionJob \/ StampJob \/ StripJob

----------------------------------------------------------------------------

Unshared(chunk) == job.opts.overlap = 0 \/ chunk[1] = chunk[2]

(* Chunks hold every unit, in order and none beyond its budget unless it   *)
(* is a single unit; each shares with the one before it the overlap or the *)
(* last unit, and nothing only if no overlap is asked for, that one is a   *)
(* single unit, or its last does not fit with the unit after.              *)
ChunksCover(chunks) ==
  LET n == Len(packing.units)
      visible == SelectSeq(job.text, LAMBDA ch : ch \notin {"space", "newline"})
  IN /\ SelectSeq(FlattenSeq(packing.units), LAMBDA ch : ch # "space") = visible
     /\ n > 0 => chunks # <<>> /\ chunks[1][1] = 1 /\ Last(chunks)[2] = n
     /\ \A k \in DOMAIN chunks : Tokens(chunks[k][1], chunks[k][2]) <= job.opts.max \/ chunks[k][1] = chunks[k][2]
     /\ \A k \in 1..(Len(chunks) - 1) :
          LET a == chunks[k]
              b == chunks[k + 1]
          IN /\ b[2] >= a[2] /\ b[1] <= a[2] + 1
             /\ b[1] <= a[2] => (job.opts.overlap > 0 /\ (b[1] = a[2] \/ Tokens(b[1], a[2]) <= job.opts.overlap))
             /\ b[1] > a[2] => Unshared(a) \/ Tokens(a[2], a[2] + 1) > job.opts.max

(* Or the loop would never end.                                            *)
ChunksAdvance == \A k \in 1..(Len(packing.chunks) - 1) : packing.chunks[k][1] < packing.chunks[k + 1][1]

(* Where an answer does not mislead: a value in prose that fences nothing  *)
(* after it, and whose brackets before it stay open; and one that is alone *)
(* in the one block of the answer.                                         *)
Brackets == {"{", "["}

InPlainProse ==
  LET StaysOpen(i) ==
        LET rest == SubSeq(job.before, i + 1, Len(job.before))
        IN "DQ" \notin Range(rest) /\ Closing(job.before[i]) \notin Range(rest \o job.after)
  IN /\ Fence \notin Range(job.json \o job.after)
     /\ Fence \in Range(job.before) => Range(job.before) \cap (Brackets \cup {"json"}) = {}
     /\ \A i \in DOMAIN job.before : job.before[i] \in Brackets => StaysOpen(i)

InOwnBlock ==
  /\ Fence \notin Range(job.json)
  /\ \E i \in DOMAIN job.before, j \in DOMAIN job.after :
       /\ {k \in DOMAIN job.before : job.before[k] = Fence} = {i}
       /\ {k \in DOMAIN job.after : job.after[k] = Fence} = {j}
       /\ LET tag == SubSeq(job.before, i + 1, Len(job.before))
              gap == SubSeq(job.after, 1, j - 1)
          IN /\ \/ tag \in {<<"newline">>, <<"json", "newline">>}
                \/ tag = <<>> /\ "newline" \notin Range(job.json \o gap)
             /\ Range(gap) \subseteq {"newline"}

(* The JSON value of an answer is found whole, whatever its strings hold   *)
(* but fences, where the prose around it does not mislead; and elsewhere,  *)
(* too, what is found is a piece of the answer.                            *)
JsonFound ==
  LET answer == job.before \o job.json \o job.after
  IN /\ \E i, j \in DOMAIN answer : output.found = SubSeq(answer, i, j)
     /\ InPlainProse \/ InOwnBlock => output.found = job.json

(* What a span covers is masked and nothing else is, no two masks stand    *)
(* side by side, and what holds a secret goes to no provider but a local.  *)
Masked ==
  LET covered == {p \in 0..(job.length - 1) : \E f \in Range(job.findings) : f.start <= p /\ p < f.end}
  IN /\ SelectSeq(output.text, LAMBDA x : x # Mask) = SetToSortSeq((0..(job.length - 1)) \ covered, <)
     /\ \A k \in 1..(Len(output.text) - 1) : output.text[k] = Mask => output.text[k + 1] # Mask
     /\ covered # {} <=> Mask \in Range(output.text)
     /\ job.family # "local" =>
          /\ (\E f \in Range(job.findings) : f.severity = "critical") => output.action = "block"
          /\ output.action = "allow" <=> job.findings = <<>>

(* A pruned vector keeps k weights if it has them, none lighter than one   *)
(* that was dropped.                                                       *)
PrunedHeaviest ==
  LET weights == {e \in Range(job.elements) : e.value # 0}
      kept == Range(output.kept)
  IN /\ kept \subseteq weights
     /\ Cardinality(kept) = (IF job.k < Cardinality(weights) THEN job.k ELSE Cardinality(weights))
     /\ \A e \in kept, f \in weights \ kept : Magnitude(e) >= Magnitude(f)
     /\ \A i, j \in DOMAIN output.kept : i < j => output.kept[i].index < output.kept[j].index

(* Every text gets the vector that was made for it, or none gets any.      *)
EmbeddingsMatch ==
  output.results # None =>
    \A i \in DOMAIN job.texts : \E d \in Range(job.data) :
      d.index = i - 1 /\ output.results[i] = [text |-> job.texts[i], vector |-> d.vector]

(* The fast path decides as the rules would, which are in an order of      *)
(* priority: where a phrase stands in a message does not matter.           *)
ClassifiedByPriority ==
  LET present == {i \in DOMAIN FailureRules : MatchesRule(job.message, FailureRules[i][1])}
  IN output.category = (IF present = {} THEN "unknown" ELSE FailureRules[CHOOSE i \in present : \A j \in present : i <= j][2])

(* A prompt is above suspicion only if it matches no rule, more matches    *)
(* never make it look safer, and each signal is named once.                *)
SuspicionGrows ==
  /\ output.score = 0 <=> job.matched = {}
  /\ \A fewer \in SUBSET job.matched : DetectInjection(fewer).score <= output.score /\ output.score <= 10
  /\ IsInjective(output.signals) /\ Range(output.signals) = {InjectionRules[i][1] : i \in job.matched}

(* A stamp is read back as the time it was made of, and stamps compare as  *)
(* their times do, digit by digit: every query by age relies on it.        *)
StampsOrdered ==
  LET Earlier(a, b) == a.day < b.day \/ (a.day = b.day /\ a.sec < b.sec)
      Less(s, t) == \E i \in 1..6 : s[i] < t[i] /\ SubSeq(s, 1, i - 1) = SubSeq(t, 1, i - 1)
  IN /\ \A i \in 1..2 : ParseIso(output.stamps[i]) = job.times[i]
     /\ Earlier(job.times[1], job.times[2]) <=> Less(output.stamps[1], output.stamps[2])

(* Of a text with escape sequences in it only these are gone.              *)
VisibleKept == output.plain = FlattenSeq(SelectSeq(job.pieces, LAMBDA piece : Len(piece) = 1))

(* Whatever becomes of a text, nothing of it is lost, leaked or put in the *)
(* wrong place.                                                            *)
TextsSound ==
  /\ ChunksAdvance
  /\ output # None =>
    CASE job.type = "chunk" -> ChunksCover(output)
      [] job.type = "json" -> JsonFound
      [] job.type = "scan" -> Masked
      [] job.type = "prune" -> PrunedHeaviest
      [] job.type = "embed" -> EmbeddingsMatch
      [] job.type = "classify" -> ClassifiedByPriority
      [] job.type = "injection" -> SuspicionGrows
      [] job.type = "stamp" -> StampsOrdered
      [] job.type = "strip" -> VisibleKept
=============================================================================

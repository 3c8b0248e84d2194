------------------------------- MODULE LlmStack -------------------------------
(***************************************************************************)
(* Calls through the client decorators of src/src/llm: CacheClient over    *)
(* RouterClient over one RetryClient per backend.  Several stacks share    *)
(* one key-value store.  A call is made once; the steps of concurrent      *)
(* calls interleave at the awaits.  Time passes in ticks, any number of    *)
(* which make a second, and the wall clock may be set back.                *)
(***************************************************************************)
EXTENDS Naturals, Sequences, FiniteSets, SequencesExt

CONSTANTS
  Calls,       (* The calls that are made.                                 *)
  Stacks,      (* The client stacks on the store.                          *)
  Chain,       (* The backends of a stack, in insertion order.             *)
  Rank,        (* A backend's priority, or its cost (unknown: the last).   *)
  Requests,
  MaxRetries,  (* RetryConfig.max_retries                                  *)
  Second,      (* The ticks of a second.                                   *)
  Ttl,         (* CacheClient.ttl in ticks.                                *)
  MaxClock,    (* Bound on time, in ticks.                                 *)
  MaxLag,      (* Bound on how far the wall clock is set back, in ticks.   *)
  Nothing

ASSUME StackAssumption ==
  /\ MaxRetries \in Nat /\ Second \in Nat \ {0}
  /\ Ttl \in Nat /\ MaxClock \in Nat /\ MaxLag \in Nat
  /\ \A s \in Stacks :
       /\ Chain[s] \in Seq(Range(Chain[s])) \ {<<>>}
       /\ \A b \in Range(Chain[s]) : Rank[b] \in Nat

Kinds == {"complete", "stream"}

VARIABLES
  pc,       (* Where each call is: "new", "lookup", "send", "backoff",     *)
            (* "store", "orphan" (dropped while it stores), or how it      *)
            (* ended: "answered", "failed" or "dropped".                   *)
  call,     (* Its stack, request and kind.                                *)
  at,       (* The position of the backend the router is at.               *)
  attempt,  (* The retry client's attempt.                                 *)
  answer,   (* The response it got; History: from whom, to which request,  *)
            (* through which stack.                                        *)
  cache,    (* The store: an entry or Nothing for each key.                *)
  clock,    (* The time that has passed,                                   *)
  lag,      (* and by how much the wall clock has been set back.           *)
  log       (* History: what each call tried, with the outcome.            *)

vars == <<pc, call, at, attempt, answer, cache, clock, lag, log>>
clocks == <<clock, lag>>

Backends == UNION {Range(Chain[s]) : s \in Stacks}

(* compute_order: a stable sort of the chain by rank.                      *)
Sorted(chain) ==
  LET Before(i, j) == Rank[chain[i]] < Rank[chain[j]] \/ (Rank[chain[i]] = Rank[chain[j]] /\ i < j)
      Place(i) == 1 + Cardinality({j \in DOMAIN chain : Before(j, i)})
  IN  [k \in DOMAIN chain |-> chain[CHOOSE i \in DOMAIN chain : Place(i) = k]]

Order == [s \in Stacks |-> Sorted(Chain[s])]

(* A router's model_name is that of the backend it prefers.                *)
ModelName == [s \in Stacks |-> Order[s][1]]

Keys == {ModelName[s] : s \in Stacks} \X Requests

(* cache_key of a request under the client's model name.  The mutant       *)
(* leaves the request out.                                                 *)
KeyOfModel(c) == <<ModelName[call[c].stack], CHOOSE r \in Requests : TRUE>>

Key(c) == <<ModelName[call[c].stack], call[c].request>>

Response == [by : Backends, to : Requests, via : Stacks]
Entry == [secs : Nat, at : Nat, lag : Nat, response : Response]
Outcomes == {"ok", "busy", "lost", "refused"}
Ended == {"answered", "failed", "dropped"}
Labels == {"new", "lookup", "send", "backoff", "store", "orphan"} \cup Ended

(* The type of every variable.                                             *)
StackTypeOK ==
  /\ pc \in [Calls -> Labels]
  /\ call \in [Calls -> [stack : Stacks, request : Requests, kind : Kinds]]
  /\ \A c \in Calls : at[c] \in 1..Len(Chain[call[c].stack])
  /\ attempt \in [Calls -> 0..MaxRetries]
  /\ answer \in [Calls -> Response \cup {Nothing}]
  /\ cache \in [Keys -> Entry \cup {Nothing}]
  /\ clock \in 0..MaxClock /\ lag \in 0..MaxLag /\ lag <= clock
  /\ log \in [Calls -> Seq([by : Backends, outcome : Outcomes])]

----------------------------------------------------------------------------
(* Steps of the code.                                                      *)

Init ==
  /\ pc = [c \in Calls |-> "new"]
  /\ call \in [Calls -> [stack : Stacks, request : Requests, kind : Kinds]]
  /\ at = [c \in Calls |-> 1]
  /\ attempt = [c \in Calls |-> 0]
  /\ answer = [c \in Calls |-> Nothing]
  /\ cache = [k \in Keys |-> Nothing]
  /\ clock = 0 /\ lag = 0
  /\ log = [c \in Calls |-> <<>>]

Goto(c, label) == pc' = [pc EXCEPT ![c] = label]

(* A caller calls complete or stream_complete, which is never cached.      *)
Start(c) ==
  /\ pc[c] = "new"
  /\ Goto(c, IF call[c].kind = "complete" THEN "lookup" ELSE "send")
  /\ UNCHANGED <<call, at, attempt, answer, cache, clocks, log>>

(* now_secs reads the wall clock, and as_secs drops the rest of a second.  *)
Secs(ticks) == ticks \div Second

NowSecs == Secs(clock - lag)

(* saturating_sub, and the age test of lookup.  The mutant compares        *)
(* seconds with ticks.                                                     *)
Age(entry) == IF entry.secs < NowSecs THEN NowSecs - entry.secs ELSE 0

FreshInTicks(entry) == Age(entry) <= Ttl

Fresh(entry) == Age(entry) <= Secs(Ttl)

(* A hit returns the stored response.  Without one, or when the store      *)
(* cannot be read, the inner client is asked.  The mutants fail the call   *)
(* instead, and wait for others that ask for the same.                     *)
Hit(c) ==
  /\ cache[Key(c)] # Nothing
  /\ Fresh(cache[Key(c)])
  /\ Goto(c, "answered")
  /\ answer' = [answer EXCEPT ![c] = cache[Key(c)].response]

LookupOrFail(c) ==
  /\ pc[c] = "lookup"
  /\ \/ Hit(c)
     \/ \E label \in {"send", "failed"} : Goto(c, label) /\ UNCHANGED answer
  /\ UNCHANGED <<call, at, attempt, cache, clocks, log>>

LookupCoalesced(c) ==
  /\ pc[c] = "lookup"
  /\ \/ Hit(c)
     \/ /\ \A d \in Calls \ {c} :
             Key(d) = Key(c) => pc[d] \notin {"lookup", "send", "backoff", "store"}
        /\ Goto(c, "send") /\ UNCHANGED answer
  /\ UNCHANGED <<call, at, attempt, cache, clocks, log>>

Lookup(c) ==
  /\ pc[c] = "lookup"
  /\ Hit(c) \/ (Goto(c, "send") /\ UNCHANGED answer)
  /\ UNCHANGED <<call, at, attempt, cache, clocks, log>>

Backend(c) == Order[call[c].stack][at[c]]

Logged(c, outcome) ==
  log' = [log EXCEPT ![c] = Append(@, [by |-> Backend(c), outcome |-> outcome])]

(* The provider answers.                                                   *)
Succeed(c) ==
  /\ pc[c] = "send"
  /\ answer' = [answer EXCEPT
       ![c] = [by |-> Backend(c), to |-> call[c].request, via |-> call[c].stack]]
  /\ Goto(c, IF call[c].kind = "complete" THEN "store" ELSE "answered")
  /\ Logged(c, "ok")
  /\ UNCHANGED <<call, at, attempt, cache, clocks>>

(* An outcome that retry_delay retries: 429 and 5xx.  The mutant retries   *)
(* 408 and network errors, too.                                            *)
RetriesAny(c, outcome) ==
  /\ call[c].kind = "complete"
  /\ outcome \in {"busy", "lost"} /\ attempt[c] < MaxRetries

Retries(c, outcome) ==
  /\ call[c].kind = "complete"
  /\ outcome = "busy" /\ attempt[c] < MaxRetries

Retry(c, outcome) ==
  /\ pc[c] = "send" /\ Retries(c, outcome)
  /\ attempt' = [attempt EXCEPT ![c] = @ + 1]
  /\ Goto(c, "backoff")
  /\ Logged(c, outcome)
  /\ UNCHANGED <<call, at, answer, cache, clocks>>

Backoff(c) ==
  /\ pc[c] = "backoff"
  /\ Goto(c, "send")
  /\ UNCHANGED <<call, at, attempt, answer, cache, clocks, log>>

(* The router returns a permanent error, and the error of the last         *)
(* backend; from any other it falls through.                               *)
GivesUp(c, outcome) == outcome = "refused" \/ at[c] = Len(Chain[call[c].stack])

Fail(c, outcome) ==
  /\ pc[c] = "send" /\ ~Retries(c, outcome) /\ GivesUp(c, outcome)
  /\ Goto(c, "failed")
  /\ Logged(c, outcome)
  /\ UNCHANGED <<call, at, attempt, answer, cache, clocks>>

FallThrough(c, outcome) ==
  /\ pc[c] = "send" /\ ~Retries(c, outcome) /\ ~GivesUp(c, outcome)
  /\ at' = [at EXCEPT ![c] = @ + 1]
  /\ attempt' = [attempt EXCEPT ![c] = 0]
  /\ Logged(c, outcome)
  /\ UNCHANGED <<pc, call, answer, cache, clocks>>

(* The blocking task stores the response or fails to; a call that was      *)
(* dropped meanwhile does not stop it.                                     *)
Store(c) ==
  /\ pc[c] \in {"store", "orphan"}
  /\ Goto(c, IF pc[c] = "store" THEN "answered" ELSE "dropped")
  /\ \/ cache' = [cache EXCEPT ![Key(c)] =
                    [secs |-> NowSecs, at |-> clock, lag |-> lag, response |-> answer[c]]]
     \/ UNCHANGED cache
  /\ UNCHANGED <<call, at, attempt, answer, clocks, log>>

(* The caller drops the call's future at an await.                         *)
Drop(c) ==
  /\ pc[c] \in {"lookup", "send", "backoff", "store"}
  /\ Goto(c, IF pc[c] = "store" THEN "orphan" ELSE "dropped")
  /\ UNCHANGED <<call, at, attempt, answer, cache, clocks, log>>

Tick ==
  /\ clock < MaxClock
  /\ clock' = clock + 1
  /\ UNCHANGED <<pc, call, at, attempt, answer, cache, lag, log>>

(* The wall clock is set back; to set it forward only makes entries older. *)
SetBack(ticks) ==
  /\ lag + ticks <= MaxLag /\ lag + ticks <= clock
  /\ lag' = lag + ticks
  /\ UNCHANGED <<pc, call, at, attempt, answer, cache, clock, log>>

Upstream(c) ==
  \/ Succeed(c)
  \/ \E o \in Outcomes \ {"ok"} : Retry(c, o) \/ FallThrough(c, o) \/ Fail(c, o)

CallStep(c) == Start(c) \/ Lookup(c) \/ Upstream(c) \/ Backoff(c) \/ Store(c)

ClockStep == Tick \/ \E ticks \in 1..MaxLag : SetBack(ticks)

Next ==
  \/ ClockStep
  \/ \E c \in Calls : CallStep(c) \/ Drop(c)

Spec == Init /\ [][Next]_vars

(* A call that was made goes on: the blocking tasks run, the HTTP client   *)
(* has a total timeout, and a back-off ends.                               *)
Fairness ==
  \A c \in Calls : WF_vars(Lookup(c) \/ Upstream(c) \/ Backoff(c) \/ Store(c))

FairSpec == Spec /\ Fairness

----------------------------------------------------------------------------
(* Properties.                                                             *)

(* Whoever filled the cache: a response answers the request it is returned *)
(* for, and was obtained under the same model name.                        *)
AnswersOwnRequest ==
  \A c \in Calls : pc[c] = "answered" =>
    /\ answer[c].to = call[c].request
    /\ ModelName[answer[c].via] = ModelName[call[c].stack]

(* What a call tries follows from the outcomes alone: it starts with the   *)
(* preferred backend; it goes on after neither success nor a permanent     *)
(* error; it tries a backend again only when it was busy, and then until   *)
(* max_retries; otherwise it goes to the next one.                         *)
TriesOf(c, b) == Cardinality({i \in DOMAIN log[c] : log[c][i].by = b})

TriesFollowPolicy ==
  \A c \in Calls :
    LET order == Order[call[c].stack]
        retried == call[c].kind = "complete"
    IN  /\ log[c] # <<>> => log[c][1].by = order[1]
        /\ \A b \in Backends : TriesOf(c, b) <= IF retried THEN MaxRetries + 1 ELSE 1
        /\ \A i \in 1..(Len(log[c]) - 1) :
             LET this == log[c][i]
                 next == log[c][i + 1]
             IN  /\ this.outcome \in {"busy", "lost"}
                 /\ \/ next.by = this.by /\ this.outcome = "busy" /\ retried
                    \/ /\ \E k \in 2..Len(order) : this.by = order[k - 1] /\ next.by = order[k]
                       /\ this.outcome = "busy" /\ retried => TriesOf(c, this.by) = MaxRetries + 1

(* A call fails only by its providers: with a permanent error, or when the *)
(* last backend has failed.  A store that fails never fails it.            *)
FailureExplained ==
  \A c \in Calls : pc[c] = "failed" =>
    /\ log[c] # <<>>
    /\ \/ Last(log[c]).outcome = "refused"
       \/ /\ Last(log[c]).outcome \in {"busy", "lost"}
          /\ Last(log[c]).by = Last(Order[call[c].stack])

(* An entry is served for less than a second after the whole seconds of    *)
(* its time to live, since the time it was stored at and the time it is    *)
(* read at lose the rest of a second each; and longer only by what the     *)
(* wall clock was set back meanwhile.                                      *)
TtlBounds ==
  [][\A c \in Calls : pc[c] = "lookup" /\ pc'[c] = "answered"
       => LET entry == cache[Key(c)]
          IN clock - entry.at < (Secs(Ttl) + 1) * Second + (lag - entry.lag)]_vars

(* Every call that is made ends.                                           *)
CallsReturn == \A c \in Calls : pc[c] # "new" ~> pc[c] \in Ended

(* "two different providers sharing one KvStore never cross-contaminate":  *)
(* a call is answered by a provider of its own stack.                      *)
NoCrossContamination ==
  \A c \in Calls : pc[c] = "answered" => answer[c].by \in Range(Chain[call[c].stack])
=============================================================================

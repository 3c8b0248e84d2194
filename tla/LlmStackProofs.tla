---------------------------- MODULE LlmStackProofs ----------------------------
(***************************************************************************)
(* Proofs about the client stack, for any calls, stacks, chains of         *)
(* backends, costs, retry counts and times.                                *)
(***************************************************************************)
EXTENDS LlmStack, SequenceTheorems, FiniteSetTheorems, TLAPS

(* A response belongs to a request under a model name.                     *)
Belongs(response, model, request) ==
  response.to = request /\ ModelName[response.via] = model

(* AnswersOwnRequest is not inductive: it rests on what the shared store   *)
(* holds under each key, and on the answers that are still to be stored,   *)
(* those of dropped calls included.                                        *)
StoreInv ==
  /\ pc \in [Calls -> Labels]
  /\ call \in [Calls -> [stack : Stacks, request : Requests, kind : Kinds]]
  /\ answer = [c \in Calls |-> answer[c]]
  /\ cache = [k \in Keys |-> cache[k]]
  /\ \A k \in Keys : cache[k] # Nothing => Belongs(cache[k].response, k[1], k[2])
  /\ \A c \in Calls : pc[c] \in {"store", "orphan", "answered"} =>
       Belongs(answer[c], ModelName[call[c].stack], call[c].request)

(* Every call has its key.                                                 *)
LEMMA KeyOfCall ==
  ASSUME NEW c \in Calls, call \in [Calls -> [stack : Stacks, request : Requests, kind : Kinds]]
  PROVE  Key(c) \in Keys /\ Key(c)[1] = ModelName[call[c].stack] /\ Key(c)[2] = call[c].request
  BY DEF Key, Keys

(* The initial states satisfy the invariant.                               *)
LEMMA InitStore == Init => StoreInv
  BY DEF Init, StoreInv, Labels, Ended

(* Moving a call to a place where it owes no answer keeps the invariant.   *)
LEMMA Moved ==
  ASSUME StoreInv, NEW c \in Calls, NEW label \in {"new", "lookup", "send", "backoff", "failed", "dropped"},
         Goto(c, label) \/ UNCHANGED pc, UNCHANGED <<call, answer, cache>>
  PROVE  StoreInv'
<1>1. /\ pc' \in [Calls -> Labels]
      /\ \A d \in Calls : pc'[d] \in {"store", "orphan", "answered"} => pc'[d] = pc[d]
  BY DEF StoreInv, Goto, Labels, Ended
<1> QED
  BY <1>1 DEF StoreInv

(* Every step keeps it.                                                    *)
LEMMA StepStore == StoreInv /\ [Next]_vars => StoreInv'
<1> SUFFICES ASSUME StoreInv, [Next]_vars PROVE StoreInv'
  OBVIOUS
<1>1. CASE ClockStep \/ UNCHANGED vars
  BY <1>1 DEF ClockStep, Tick, SetBack, vars, StoreInv
<1>2. ASSUME NEW c \in Calls, Start(c) PROVE StoreInv'
  <2>1. \E label \in {"lookup", "send"} : Goto(c, label)
    BY <1>2 DEF Start
  <2> QED
    BY <1>2, <2>1, Moved DEF Start
<1>3. ASSUME NEW c \in Calls, Lookup(c) PROVE StoreInv'
  <2>1. CASE Hit(c)
    <3>1. Belongs(cache[Key(c)].response, ModelName[call[c].stack], call[c].request)
      BY <2>1, KeyOfCall DEF StoreInv, Hit
    <3>2. /\ pc' = [pc EXCEPT ![c] = "answered"]
          /\ answer' = [answer EXCEPT ![c] = cache[Key(c)].response]
          /\ UNCHANGED <<call, cache>>
      BY <1>3, <2>1 DEF Lookup, Hit, Goto
    <3>3. pc' \in [Calls -> Labels] /\ answer' = [d \in Calls |-> answer'[d]]
      BY <3>2 DEF StoreInv, Labels, Ended
    <3>4. answer'[c] = cache[Key(c)].response
          /\ \A d \in Calls \ {c} : answer'[d] = answer[d] /\ pc'[d] = pc[d]
      BY <3>2 DEF StoreInv
    <3> QED
      BY <3>1, <3>2, <3>3, <3>4 DEF StoreInv
  <2>2. CASE Goto(c, "send") /\ UNCHANGED answer
    BY <1>3, <2>2, Moved DEF Lookup
  <2> QED
    BY <1>3, <2>1, <2>2 DEF Lookup
<1>4. ASSUME NEW c \in Calls, Succeed(c) PROVE StoreInv'
  <2> DEFINE response == [by |-> Backend(c), to |-> call[c].request, via |-> call[c].stack]
  <2>1. PICK label \in {"store", "answered"} : Goto(c, label)
    BY <1>4 DEF Succeed
  <2>2. pc' = [pc EXCEPT ![c] = label] /\ answer' = [answer EXCEPT ![c] = response]
        /\ UNCHANGED <<call, cache>>
    BY <1>4, <2>1 DEF Succeed, Goto
  <2>3. pc' \in [Calls -> Labels] /\ answer' = [d \in Calls |-> answer'[d]]
    BY <2>2 DEF StoreInv, Labels, Ended
  <2>4. answer'[c] = response
        /\ \A d \in Calls \ {c} : answer'[d] = answer[d] /\ pc'[d] = pc[d]
    BY <2>2 DEF StoreInv
  <2>5. Belongs(response, ModelName[call[c].stack], call[c].request)
    BY DEF Belongs
  <2> QED
    BY <2>2, <2>3, <2>4, <2>5 DEF StoreInv
<1>5. ASSUME NEW c \in Calls, NEW o \in Outcomes, Retry(c, o) \/ FallThrough(c, o) \/ Fail(c, o)
      PROVE StoreInv'
  BY <1>5, Moved DEF Retry, FallThrough, Fail
<1>6. ASSUME NEW c \in Calls, Backoff(c) PROVE StoreInv'
  BY <1>6, Moved DEF Backoff
<1>7. ASSUME NEW c \in Calls, Store(c) PROVE StoreInv'
  <2>1. Belongs(answer[c], ModelName[call[c].stack], call[c].request)
    BY <1>7 DEF Store, StoreInv
  <2>2. PICK label \in {"answered", "dropped"} : pc' = [pc EXCEPT ![c] = label]
    BY <1>7 DEF Store, Goto
  <2>3. pc' \in [Calls -> Labels] /\ UNCHANGED <<call, answer>>
        /\ \A d \in Calls : d # c => pc'[d] = pc[d]
    BY <1>7, <2>2 DEF Store, StoreInv, Labels, Ended
  <2>4. cache' = [k \in Keys |-> cache'[k]]
        /\ \A k \in Keys : cache'[k] # Nothing => Belongs(cache'[k].response, k[1], k[2])
    <3>1. CASE UNCHANGED cache
      BY <3>1 DEF StoreInv
    <3>2. CASE cache' = [cache EXCEPT ![Key(c)] =
                 [secs |-> NowSecs, at |-> clock, lag |-> lag, response |-> answer[c]]]
      <4>1. cache'[Key(c)].response = answer[c]
            /\ \A k \in Keys : k # Key(c) => cache'[k] = cache[k]
        BY <3>2, KeyOfCall DEF StoreInv
      <4> QED
        BY <2>1, <3>2, <4>1, KeyOfCall DEF StoreInv
    <3> QED
      BY <1>7, <3>1, <3>2 DEF Store
  <2> QED
    BY <2>1, <2>3, <2>4 DEF StoreInv
<1>8. ASSUME NEW c \in Calls, Drop(c) PROVE StoreInv'
  <2>1. CASE pc[c] = "store"
    <3>1. Belongs(answer[c], ModelName[call[c].stack], call[c].request)
      BY <2>1 DEF StoreInv
    <3>2. pc' = [pc EXCEPT ![c] = "orphan"] /\ UNCHANGED <<call, answer, cache>>
      BY <1>8, <2>1 DEF Drop, Goto
    <3> QED
      BY <3>1, <3>2 DEF StoreInv, Labels
  <2>2. CASE pc[c] # "store"
    BY <1>8, <2>2, Moved DEF Drop
  <2> QED
    BY <2>1, <2>2
<1> QED
  BY <1>1, <1>2, <1>3, <1>4, <1>5, <1>6, <1>7, <1>8 DEF Next, CallStep, Upstream

(* Every response answers the request it is returned for, and was obtained *)
(* under the caller's model name: no interleaving of lookups, retries,     *)
(* fall-throughs, stores and dropped calls returns another.                *)
THEOREM OwnAnswers == Spec => []AnswersOwnRequest
<1>1. StoreInv => AnswersOwnRequest
  BY DEF StoreInv, AnswersOwnRequest, Belongs
<1> QED
  BY <1>1, InitStore, StepStore, PTL DEF Spec

----------------------------------------------------------------------------
(* Why a call failed.                                                      *)

FailedByProvider(c) ==
  /\ log[c] # <<>>
  /\ \/ Last(log[c]).outcome = "refused"
     \/ /\ Last(log[c]).outcome \in {"busy", "lost"}
        /\ Last(log[c]).by = Last(Order[call[c].stack])

(* FailureExplained with the shape of the logs it speaks of.               *)
LogInv ==
  /\ pc \in [Calls -> Labels]
  /\ call \in [Calls -> [stack : Stacks, request : Requests, kind : Kinds]]
  /\ log = [c \in Calls |-> log[c]]
  /\ \A c \in Calls : log[c] \in Seq(Range(log[c]))
  /\ \A c \in Calls : pc[c] = "failed" => FailedByProvider(c)

(* The order of a router is as long as its chain, whatever the ranks.      *)
LEMMA OrderLength ==
  ASSUME NEW s \in Stacks
  PROVE  Last(Order[s]) = Order[s][Len(Chain[s])]
<1> DEFINE n == Len(Chain[s])
<1> DEFINE S == {Order[s][k] : k \in 1..n}
<1>1. n \in Nat /\ DOMAIN Chain[s] = 1..n
  BY StackAssumption, LenProperties
<1>2. Order[s] = [k \in 1..n |-> Order[s][k]]
  BY <1>1 DEF Order, Sorted
<1>3. Order[s] \in [1..n -> S]
  BY <1>2
<1>4. Order[s] \in Seq(S)
  BY <1>1, <1>3, SeqDef
<1>5. Len(Order[s]) = n
  BY <1>1, <1>3, <1>4, LenProperties
<1> QED
  BY <1>5 DEF Last

(* What an append to a call's log leaves.                                  *)
LEMMA Appended ==
  ASSUME LogInv, NEW c \in Calls, NEW o, Logged(c, o)
  PROVE  /\ log' = [d \in Calls |-> log'[d]]
         /\ \A d \in Calls : log'[d] \in Seq(Range(log'[d]))
         /\ \A d \in Calls \ {c} : log'[d] = log[d]
         /\ log'[c] # <<>> /\ Last(log'[c]) = [by |-> Backend(c), outcome |-> o]
<1> DEFINE r == [by |-> Backend(c), outcome |-> o]
<1> DEFINE S == Range(log[c]) \cup {r}
<1> DEFINE t == Append(log[c], r)
<1>1. log' = [log EXCEPT ![c] = t]
  BY DEF Logged
<1>2. log'[c] = t /\ log' = [d \in Calls |-> log'[d]] /\ \A d \in Calls \ {c} : log'[d] = log[d]
  BY <1>1 DEF LogInv
<1>3. log[c] \in Seq(S) /\ r \in S
  BY DEF LogInv
<1>4. t \in Seq(S) /\ Len(t) = Len(log[c]) + 1 /\ t[Len(t)] = r /\ Len(log[c]) \in Nat
  BY <1>3, AppendProperties, LenProperties
<1>5. t # <<>> /\ Last(t) = r
  BY <1>4, EmptySeq DEF Last
<1>6. t \in [1..Len(t) -> Range(t)]
  <2>1. t \in [1..Len(t) -> S] /\ DOMAIN t = 1..Len(t)
    BY <1>4, LenProperties
  <2> QED
    BY <2>1 DEF Range
<1>7. t \in Seq(Range(t))
  <2>1. Len(t) \in Nat
    BY <1>4
  <2> HIDE DEF t
  <2> QED
    BY <1>6, <2>1, SeqDef
<1> QED
  BY <1>2, <1>5, <1>7 DEF LogInv

(* A step that logs for one call leaves the others explained.              *)
LEMMA OthersLogged ==
  ASSUME LogInv, NEW c \in Calls, NEW o, Logged(c, o), UNCHANGED call,
         \A d \in Calls \ {c} : pc'[d] = pc[d]
  PROVE  /\ log' = [d \in Calls |-> log'[d]]
         /\ \A d \in Calls : log'[d] \in Seq(Range(log'[d]))
         /\ \A d \in Calls \ {c} : pc'[d] = "failed" => FailedByProvider(d)'
<1>1. ASSUME NEW d \in Calls \ {c}, pc'[d] = "failed" PROVE FailedByProvider(d)'
  <2>1. log'[d] = log[d]
    BY Appended
  <2>2. FailedByProvider(d)
    BY <1>1 DEF LogInv
  <2> QED
    BY <2>1, <2>2 DEF FailedByProvider
<1> QED
  BY <1>1, Appended

(* Steps that fail no call and log nothing.                                *)
LEMMA Unlogged ==
  ASSUME LogInv, UNCHANGED <<call, log>>,
         UNCHANGED pc \/ \E c \in Calls, label \in Labels \ {"failed"} : Goto(c, label)
  PROVE  LogInv'
<1>1. pc' \in [Calls -> Labels] /\ \A d \in Calls : pc'[d] = "failed" => pc[d] = "failed"
  BY DEF LogInv, Goto
<1> QED
  BY <1>1 DEF LogInv, FailedByProvider

(* Every step keeps it: only Fail fails a call, on what it has just        *)
(* logged.                                                                 *)
LEMMA StepLog == LogInv /\ [Next]_vars => LogInv'
<1> SUFFICES ASSUME LogInv, [Next]_vars PROVE LogInv'
  OBVIOUS
<1>1. CASE ClockStep \/ UNCHANGED vars
  BY <1>1, Unlogged DEF ClockStep, Tick, SetBack, vars
<1>2. ASSUME NEW c \in Calls, Start(c) \/ Lookup(c) \/ Backoff(c) \/ Store(c) \/ Drop(c)
      PROVE LogInv'
  <2>1. UNCHANGED <<call, log>>
    BY <1>2 DEF Start, Lookup, Backoff, Store, Drop
  <2>2. \E label \in Labels \ {"failed"} : Goto(c, label)
    BY <1>2, Zenon DEF Start, Lookup, Hit, Backoff, Store, Drop, Labels, Ended
  <2> QED
    BY <2>1, <2>2, Unlogged
<1>3. ASSUME NEW c \in Calls, NEW o \in Outcomes, pc[c] = "send", Logged(c, o), UNCHANGED call,
             UNCHANGED pc \/ \E label \in Labels \ {"failed"} : Goto(c, label)
      PROVE LogInv'
  <2>1. /\ pc' \in [Calls -> Labels] /\ pc'[c] # "failed"
        /\ \A d \in Calls \ {c} : pc'[d] = pc[d]
    BY <1>3 DEF LogInv, Goto
  <2> QED
    BY <1>3, <2>1, OthersLogged DEF LogInv
<1>4. ASSUME NEW c \in Calls, Succeed(c) PROVE LogInv'
  <2>1. \E label \in Labels \ {"failed"} : Goto(c, label)
    BY <1>4 DEF Succeed, Labels, Ended
  <2> QED
    BY <1>3, <1>4, <2>1 DEF Succeed, Outcomes
<1>5. ASSUME NEW c \in Calls, NEW o \in Outcomes \ {"ok"}, Retry(c, o) \/ FallThrough(c, o)
      PROVE LogInv'
  <2>1. UNCHANGED pc \/ \E label \in Labels \ {"failed"} : Goto(c, label)
    BY <1>5, Zenon DEF Retry, FallThrough, Labels, Ended
  <2> QED
    BY <1>3, <1>5, <2>1 DEF Retry, FallThrough
<1>6. ASSUME NEW c \in Calls, NEW o \in Outcomes \ {"ok"}, Fail(c, o) PROVE LogInv'
  <2>1. /\ pc' \in [Calls -> Labels] /\ UNCHANGED call
        /\ \A d \in Calls \ {c} : pc'[d] = pc[d]
    BY <1>6 DEF Fail, Goto, LogInv, Labels, Ended
  <2>2. /\ log'[c] # <<>> /\ Last(log'[c]).outcome = o /\ Last(log'[c]).by = Backend(c)
    <3>1. Logged(c, o)
      BY <1>6 DEF Fail
    <3>2. log'[c] # <<>> /\ Last(log'[c]) = [by |-> Backend(c), outcome |-> o]
      BY <3>1, Appended
    <3> QED
      BY <3>2
  <2>3. o = "refused" \/ (o \in {"busy", "lost"} /\ Backend(c) = Last(Order[call[c].stack]))
    <3>1. call[c].stack \in Stacks
      BY DEF LogInv
    <3> QED
      BY <1>6, <3>1, OrderLength DEF Fail, GivesUp, Outcomes, Backend
  <2>4. FailedByProvider(c)'
    BY <2>1, <2>2, <2>3 DEF FailedByProvider
  <2>5. /\ log' = [d \in Calls |-> log'[d]]
        /\ \A d \in Calls : log'[d] \in Seq(Range(log'[d]))
        /\ \A d \in Calls \ {c} : pc'[d] = "failed" => FailedByProvider(d)'
    BY <1>6, <2>1, OthersLogged DEF Fail
  <2>6. \A d \in Calls : (pc[d] = "failed" => FailedByProvider(d))'
    BY <2>4, <2>5
  <2>7. (call \in [Calls -> [stack : Stacks, request : Requests, kind : Kinds]])'
    BY <2>1 DEF LogInv
  <2> QED
    BY <2>1, <2>5, <2>6, <2>7 DEF LogInv
<1> QED
  BY <1>1, <1>2, <1>4, <1>5, <1>6 DEF Next, CallStep, Upstream

(* A call fails only by its providers, with a permanent error or at the    *)
(* last backend of its order; caching and storing never fail it.           *)
THEOREM FailuresExplained == Spec => []FailureExplained
<1>1. Init => LogInv
  <2>1. ASSUME Init, NEW c \in Calls PROVE log[c] = <<>>
    BY <2>1 DEF Init
  <2>2. \A S : <<>> \in Seq(S)
    BY EmptySeq
  <2> QED
    BY <2>1, <2>2 DEF Init, LogInv, Labels, Ended
<1>2. LogInv => FailureExplained
  BY DEF LogInv, FailureExplained, FailedByProvider
<1> QED
  BY <1>1, <1>2, StepLog, PTL DEF Spec

----------------------------------------------------------------------------
(* How old an answer from the cache is.                                    *)

(* The wall clock shows a time, which is no negative number; an entry      *)
(* carries the second it showed when it was stored.                        *)
TimeInv ==
  /\ clock \in Nat /\ lag \in 0..clock
  /\ call \in [Calls -> [stack : Stacks, request : Requests, kind : Kinds]]
  /\ pc = [c \in Calls |-> pc[c]]
  /\ cache = [k \in Keys |-> cache[k]]
  /\ \A k \in Keys : cache[k] # Nothing =>
       /\ cache[k].at \in Nat /\ cache[k].lag \in 0..cache[k].at
       /\ cache[k].secs = Secs(cache[k].at - cache[k].lag)

(* A time is in the second that Secs says, wherever in it.                 *)
LEMMA InSecond ==
  ASSUME NEW ticks \in Nat
  PROVE  /\ Secs(ticks) \in Nat
         /\ Secs(ticks) * Second <= ticks /\ ticks < (Secs(ticks) + 1) * Second
  BY StackAssumption DEF Secs

(* Ages in whole seconds, of which the time to live is not less, are less  *)
(* than a second wrong.                                                    *)
LEMMA WholeSeconds ==
  ASSUME NEW now \in Nat, NEW then \in Nat, NEW ttl \in Nat,
         Secs(now) <= Secs(then) + Secs(ttl)
  PROVE  now - then < (Secs(ttl) + 1) * Second
<1>1. PICK n \in Nat, t \in Nat, l \in Nat, second \in Nat :
        n = Secs(now) /\ t = Secs(then) /\ l = Secs(ttl) /\ second = Second
  BY InSecond, StackAssumption
<1>2. t * second <= then /\ now < (n + 1) * second
  BY <1>1, InSecond
<1>3. PICK rest \in Nat : t + l = n + rest
  <2>1. n <= t + l
    BY <1>1
  <2>2. t + l - n \in Nat /\ t + l = n + (t + l - n)
    BY <2>1
  <2> QED
    BY <2>2
<1>4. (t + l + 1) * second = (n + 1) * second + rest * second /\ rest * second \in Nat
  BY <1>3
<1>5. (t + l + 1) * second = t * second + (l + 1) * second
  OBVIOUS
<1>6. PICK a \in Nat, b \in Nat, d \in Nat, e \in Nat :
        a = t * second /\ b = (n + 1) * second /\ d = rest * second /\ e = (l + 1) * second
  OBVIOUS
<1>7. a <= then /\ now < b /\ b + d = a + e
  BY <1>2, <1>4, <1>5, <1>6
<1>8. now - then < e
  BY <1>7
<1> QED
  BY <1>1, <1>6, <1>8

(* Every step keeps it.                                                    *)
LEMMA StepTime == TimeInv /\ [Next]_vars => TimeInv'
<1> SUFFICES ASSUME TimeInv, [Next]_vars PROVE TimeInv'
  OBVIOUS
<1>1. CASE UNCHANGED vars
  BY <1>1 DEF vars, TimeInv
<1>2. CASE ClockStep
  BY <1>2, StackAssumption DEF ClockStep, Tick, SetBack, TimeInv
<1>3. ASSUME NEW c \in Calls, CallStep(c) \/ Drop(c), UNCHANGED cache PROVE TimeInv'
  <2>1. UNCHANGED <<call, clock, lag>> /\ (UNCHANGED pc \/ \E label : Goto(c, label))
    BY <1>3, Zenon DEF clocks, CallStep, Drop, Start, Lookup, Hit, Upstream, Succeed, Retry,
         FallThrough, Fail, Backoff, Store
  <2>2. pc' = [d \in Calls |-> pc'[d]]
    BY <2>1 DEF Goto, TimeInv
  <2> QED
    BY <1>3, <2>1, <2>2 DEF TimeInv
<1>4. ASSUME NEW c \in Calls, Store(c),
             cache' = [cache EXCEPT ![Key(c)] =
               [secs |-> NowSecs, at |-> clock, lag |-> lag, response |-> answer[c]]]
      PROVE TimeInv'
  <2>1. UNCHANGED <<call, clock, lag>> /\ pc' = [d \in Calls |-> pc'[d]]
    BY <1>4 DEF clocks, Store, Goto, TimeInv
  <2>2. Key(c) \in Keys
    BY KeyOfCall DEF TimeInv
  <2>3. /\ cache'[Key(c)].at = clock /\ cache'[Key(c)].lag = lag /\ cache'[Key(c)].secs = Secs(clock - lag)
        /\ \A k \in Keys \ {Key(c)} : cache'[k] = cache[k]
        /\ cache' = [k \in Keys |-> cache'[k]]
    BY <1>4, <2>2 DEF NowSecs, TimeInv
  <2> QED
    BY <2>1, <2>3 DEF TimeInv
<1>5. ASSUME NEW c \in Calls, CallStep(c) \/ Drop(c) PROVE TimeInv'
  <2>1. CASE UNCHANGED cache
    BY <1>3, <1>5, <2>1
  <2>2. CASE ~UNCHANGED cache
    BY <1>4, <1>5, <2>2 DEF CallStep, Drop, Start, Lookup, Upstream, Succeed, Retry, FallThrough,
         Fail, Backoff, Store
  <2> QED
    BY <2>1, <2>2
<1> QED
  BY <1>1, <1>2, <1>5 DEF Next

(* Only a hit answers a call that looks its request up, and it returns an  *)
(* entry for less than a second after the whole seconds of its time to     *)
(* live, and for what the wall clock was set back since it was stored.     *)
THEOREM HitsInTime == Spec => TtlBounds
<1> DEFINE InTime(c) == pc[c] = "lookup" /\ pc'[c] = "answered"
                          => LET entry == cache[Key(c)]
                             IN clock - entry.at < (Secs(Ttl) + 1) * Second + (lag - entry.lag)
<1>1. Init => TimeInv
  BY DEF Init, TimeInv
<1>2. ASSUME TimeInv, [Next]_vars PROVE \A c \in Calls : InTime(c)
  <2> SUFFICES ASSUME NEW c \in Calls, pc[c] = "lookup", pc'[c] = "answered"
               PROVE  clock - cache[Key(c)].at < (Secs(Ttl) + 1) * Second + (lag - cache[Key(c)].lag)
    OBVIOUS
  <2>1. pc = [d \in Calls |-> pc[d]]
    BY <1>2 DEF TimeInv
  <2>2. PICK d \in Calls : CallStep(d) \/ Drop(d)
    BY <1>2 DEF Next, ClockStep, Tick, SetBack, vars
  <2>3. UNCHANGED pc \/ \E label : Goto(d, label)
    BY <2>2, Zenon DEF CallStep, Drop, Start, Lookup, Hit, Upstream, Succeed, Retry, FallThrough,
         Fail, Backoff, Store
  <2>4. d = c
    BY <2>1, <2>3 DEF Goto
  <2>5. Lookup(c)
    BY <2>1, <2>2, <2>4 DEF CallStep, Drop, Start, Upstream, Succeed, Retry, FallThrough,
         Fail, Backoff, Store, Goto
  <2>6. Hit(c)
    BY <2>1, <2>5 DEF Lookup, Goto
  <2>7. Key(c) \in Keys
    BY <1>2, KeyOfCall DEF TimeInv
  <2>8. PICK entry : entry = cache[Key(c)] /\ Fresh(entry)
    BY <2>6 DEF Hit
  <2>9. PICK now \in Nat, then \in Nat :
          /\ now = clock - lag /\ then = entry.at - entry.lag /\ entry.secs = Secs(then)
          /\ clock \in Nat /\ lag \in Nat /\ entry.at \in Nat /\ entry.lag \in Nat
    BY <1>2, <2>6, <2>7, <2>8 DEF TimeInv, Hit
  <2>10. Secs(now) \in Nat /\ Secs(then) \in Nat /\ Secs(Ttl) \in Nat
    BY InSecond, StackAssumption
  <2>11. Secs(now) <= Secs(then) + Secs(Ttl)
    BY <2>8, <2>9, <2>10 DEF Fresh, Age, NowSecs
  <2>12. now - then < (Secs(Ttl) + 1) * Second
    BY <2>11, WholeSeconds, StackAssumption
  <2>13. (Secs(Ttl) + 1) * Second \in Nat
    BY <2>10, StackAssumption
  <2>14. PICK most \in Nat : most = (Secs(Ttl) + 1) * Second
    BY <2>13
  <2> QED
    BY <2>8, <2>9, <2>12, <2>14
<1>3. TimeInv /\ [Next]_vars => [\A c \in Calls : InTime(c)]_vars
  BY <1>2
<1> QED
  BY <1>1, <1>3, StepTime, PTL DEF Spec, TtlBounds

----------------------------------------------------------------------------
(* What a call tries.                                                      *)

(* An injection of 1..n into itself takes every value.                     *)
LEMMA AllPlaces ==
  ASSUME NEW n \in Nat, NEW f \in [1..n -> 1..n], \A i, j \in 1..n : f[i] = f[j] => i = j
  PROVE  \A k \in 1..n : \E i \in 1..n : f[i] = k
<1>1. IsFiniteSet(1..n)
  BY FS_Interval
<1>2. f \in Injection(1..n, 1..n)
  BY DEF Injection, IsInjective
<1>3. f \in Surjection(1..n, 1..n)
  BY <1>1, <1>2, FS_Injection
<1> QED
  BY <1>3 DEF Surjection

(* Whether a chain's entry at i sorts before that at j, and the place this *)
(* gives an entry.                                                         *)
Ahead(chain, i, j) == Rank[chain[i]] < Rank[chain[j]] \/ (Rank[chain[i]] = Rank[chain[j]] /\ i < j)

PlaceIn(chain, i) == 1 + Cardinality({j \in DOMAIN chain : Ahead(chain, j, i)})

Ranked(chain, n) == DOMAIN chain = 1..n /\ \A i \in 1..n : Rank[chain[i]] \in Nat

Placed(f, chain, n) ==
  /\ f \in [1..n -> 1..n]
  /\ \A i \in 1..n : f[i] = PlaceIn(chain, i)
  /\ \A k \in 1..n : \E i \in 1..n : f[i] = k

(* Every position of a chain has its place in the order of the ranks, and  *)
(* a place of its own.                                                     *)
LEMMA PlacesTaken ==
  ASSUME NEW n \in Nat, NEW chain, Ranked(chain, n)
  PROVE  \E f : Placed(f, chain, n)
<1> USE DEF Ranked
<1> DEFINE B(i) == {j \in 1..n : Ahead(chain, j, i)}
           f == [i \in 1..n |-> 1 + Cardinality(B(i))]
<1>1. IsFiniteSet(1..n) /\ Cardinality(1..n) = n
  BY FS_Interval
<1>2. ASSUME NEW i \in 1..n PROVE B(i) \in SUBSET (1..n) /\ IsFiniteSet(B(i)) /\ Cardinality(B(i)) \in Nat /\ i \notin B(i)
  <2>1. B(i) \in SUBSET (1..n)
    OBVIOUS
  <2>2. i \notin B(i)
    BY DEF Ahead
  <2> HIDE DEF B
  <2> QED
    BY <1>1, <2>1, <2>2, FS_Subset, FS_CardinalityType
<1>3. ASSUME NEW i \in 1..n PROVE f[i] \in 1..n
  <2>1. Cardinality(B(i)) <= n /\ Cardinality(B(i)) # n
    <3>1. PICK D : D = 1..n
      OBVIOUS
    <3>2. IsFiniteSet(D) /\ Cardinality(D) = n /\ i \in D /\ B(i) \in SUBSET D
      BY <1>1, <1>2, <3>1
    <3> HIDE DEF B
    <3> QED
      BY <1>2, <3>2, FS_Subset
  <2> HIDE DEF B
  <2> QED
    BY <1>2, <2>1
<1>4. ASSUME NEW i \in 1..n, NEW j \in 1..n, Ahead(chain, i, j) PROVE f[i] # f[j]
  <2>1. B(i) \in SUBSET B(j)
    <3>1. ASSUME NEW h \in 1..n, Ahead(chain, h, i) PROVE Ahead(chain, h, j)
      BY <1>4, <3>1 DEF Ahead
    <3> QED
      BY <3>1
  <2>2. i \in B(j) /\ i \notin B(i)
    BY <1>2, <1>4
  <2> HIDE DEF B
  <2>3. Cardinality(B(i)) # Cardinality(B(j))
    BY <1>2, <2>1, <2>2, FS_Subset
  <2> QED
    BY <1>2, <2>3
<1>5. \A i, j \in 1..n : f[i] = f[j] => i = j
  <2>1. ASSUME NEW i \in 1..n, NEW j \in 1..n, i # j PROVE Ahead(chain, i, j) \/ Ahead(chain, j, i)
    BY <2>1 DEF Ahead
  <2> HIDE DEF f
  <2> QED
    BY <1>4, <2>1
<1>6. f \in [1..n -> 1..n]
  <2> HIDE DEF B
  <2> QED
    BY <1>3
<1> HIDE DEF f
<1>7. \A k \in 1..n : \E i \in 1..n : f[i] = k
  BY <1>5, <1>6, AllPlaces
<1>8. ASSUME NEW i \in 1..n PROVE f[i] = PlaceIn(chain, i)
  <2>1. f[i] = 1 + Cardinality(B(i))
    BY DEF f
  <2>2. B(i) = {j \in DOMAIN chain : Ahead(chain, j, i)}
    OBVIOUS
  <2> QED
    BY <2>1, <2>2 DEF PlaceIn
<1> QED
  BY <1>6, <1>7, <1>8 DEF Placed

(* A router's backends are clients of their own, each once in the chain.   *)
ChainsDistinct == \A s \in Stacks : \A i, j \in DOMAIN Chain[s] : Chain[s][i] = Chain[s][j] => i = j

Orderly(order) ==
  /\ order \in Seq(Backends) /\ order # <<>>
  /\ \A i, j \in 1..Len(order) : order[i] = order[j] => i = j

(* So the order of a router has each once, too.                            *)
LEMMA OrderDistinct ==
  ASSUME ChainsDistinct, NEW s \in Stacks
  PROVE  Orderly(Order[s]) /\ Len(Order[s]) = Len(Chain[s])
<1>1. PICK chain : chain = Chain[s]
  OBVIOUS
<1>2. PICK n \in Nat : n = Len(chain) /\ n # 0 /\ DOMAIN chain = 1..n
  BY <1>1, StackAssumption, LenProperties, EmptySeq
<1>3. /\ \A i \in 1..n : Rank[chain[i]] \in Nat
      /\ \A i \in 1..n : chain[i] \in Backends
      /\ \A i, j \in 1..n : chain[i] = chain[j] => i = j
  <2>1. \A i \in 1..n : chain[i] \in Range(chain)
    BY <1>2 DEF Range
  <2>2. \A b \in Range(chain) : Rank[b] \in Nat /\ b \in Backends
    BY <1>1, StackAssumption DEF Backends
  <2> QED
    BY <1>1, <1>2, <2>1, <2>2 DEF ChainsDistinct
<1>4. PICK f : Placed(f, chain, n)
  <2>1. Ranked(chain, n)
    BY <1>2, <1>3 DEF Ranked
  <2> QED
    BY <2>1, PlacesTaken
<1> DEFINE PositionOf(k) == CHOOSE i \in 1..n : PlaceIn(chain, i) = k
<1>5. Order[s] = [k \in 1..n |-> chain[PositionOf(k)]]
  <2>1. Order[s] = Sorted(chain)
    BY <1>1 DEF Order
  <2>2. Sorted(chain) = [k \in DOMAIN chain |-> chain[CHOOSE i \in DOMAIN chain : PlaceIn(chain, i) = k]]
    BY DEF Sorted, PlaceIn, Ahead
  <2> QED
    BY <1>2, <2>1, <2>2
<1>6. ASSUME NEW k \in 1..n PROVE PositionOf(k) \in 1..n /\ f[PositionOf(k)] = k
  BY <1>4 DEF Placed
<1> HIDE DEF PositionOf
<1>7. \A k, l \in 1..n : chain[PositionOf(k)] = chain[PositionOf(l)] => k = l
  BY <1>3, <1>6
<1>8. \A k \in 1..n : chain[PositionOf(k)] \in Backends
  BY <1>3, <1>6
<1>9. Order[s] \in Seq(Backends) /\ Len(Order[s]) = n
  BY <1>5, <1>8
<1>10. \A k \in 1..n : Order[s][k] = chain[PositionOf(k)]
  BY <1>5
<1> QED
  BY <1>1, <1>2, <1>7, <1>9, <1>10 DEF Orderly

(* How often a log names a backend.                                        *)
Tries(s, b) == Cardinality({i \in DOMAIN s : s[i].by = b})
Try == [by : Backends, outcome : Outcomes]

(* An entry more counts for the backend it names.                          *)
LEMMA OneMore ==
  ASSUME NEW s \in Seq(Try), NEW r \in Try, NEW b
  PROVE  /\ Tries(s, b) \in Nat
         /\ Tries(Append(s, r), b) = Tries(s, b) + IF r.by = b THEN 1 ELSE 0
<1> DEFINE n == Len(s)
           S == {i \in 1..n : s[i].by = b}
           t == Append(s, r)
           T == {i \in 1..(n + 1) : t[i].by = b}
<1>1. n \in Nat /\ DOMAIN s = 1..n /\ DOMAIN t = 1..(n + 1) /\ t[n + 1] = r /\ \A i \in 1..n : t[i] = s[i]
  <2>1. t \in Seq(Try) /\ Len(t) = n + 1 /\ n \in Nat
    BY AppendProperties
  <2> QED
    BY <2>1, AppendProperties
<1>2. IsFiniteSet(S) /\ Cardinality(S) \in Nat /\ n + 1 \notin S
  <2>1. S \in SUBSET (1..n) /\ n + 1 \notin 1..n /\ IsFiniteSet(1..n)
    BY <1>1, FS_Interval
  <2> HIDE DEF S, n
  <2> QED
    BY <2>1, FS_Subset, FS_CardinalityType
<1>3. Tries(s, b) = Cardinality(S) /\ Tries(t, b) = Cardinality(T)
  BY <1>1 DEF Tries
<1> HIDE DEF n, t
<1>4. CASE r.by = b
  <2>1. T = S \cup {n + 1}
    BY <1>1, <1>4
  <2> HIDE DEF S, T
  <2>2. Cardinality(S \cup {n + 1}) = Cardinality(S) + 1
    BY <1>2, FS_AddElement
  <2> QED
    BY <1>2, <1>3, <1>4, <2>1, <2>2 DEF t
<1>5. CASE r.by # b
  <2>1. T = S
    <3>1. \A i \in 1..(n + 1) : i \in 1..n \/ i = n + 1
      BY <1>1
    <3> QED
      BY <1>1, <1>5, <3>1
  <2> HIDE DEF S, T
  <2> QED
    BY <1>2, <1>3, <1>5, <2>1 DEF t
<1> QED
  BY <1>4, <1>5

(* What a log says of the policy: the last conjunct of TriesFollowPolicy   *)
(* for the entry at i, its whole for a call whose router is at k, and what *)
(* holds as long as the call may go on to try.                             *)
Continues(order, kind, s, i) ==
  /\ s[i].outcome \in {"busy", "lost"}
  /\ \/ s[i + 1].by = s[i].by /\ s[i].outcome = "busy" /\ kind = "complete"
     \/ /\ \E k \in 2..Len(order) : s[i].by = order[k - 1] /\ s[i + 1].by = order[k]
        /\ s[i].outcome = "busy" /\ kind = "complete" => Tries(s, s[i].by) = MaxRetries + 1

Most(kind) == IF kind = "complete" THEN MaxRetries + 1 ELSE 1

Policy(order, kind, s, k, a) ==
  /\ s \in Seq(Try) /\ k \in 1..Len(order) /\ a \in 0..MaxRetries
  /\ kind = "complete" \/ a = 0
  /\ s # <<>> => s[1].by = order[1]
  /\ \A i \in 1..Len(s) : \E j \in 1..k : s[i].by = order[j]
  /\ \A j \in 1..k : Tries(s, order[j]) <= Most(kind)
  /\ \A i \in 1..(Len(s) - 1) : Continues(order, kind, s, i)

GoesOn(order, kind, s, k, a) ==
  /\ Tries(s, order[k]) = a
  /\ s = <<>> => k = 1 /\ a = 0
  /\ s # <<>> =>
       \/ a > 0 /\ s[Len(s)].by = order[k] /\ s[Len(s)].outcome = "busy"
       \/ /\ a = 0 /\ k > 1 /\ s[Len(s)].by = order[k - 1] /\ s[Len(s)].outcome \in {"busy", "lost"}
          /\ s[Len(s)].outcome = "busy" /\ kind = "complete" => Tries(s, order[k - 1]) = MaxRetries + 1

(* A try more at the same backend                                          *)
Tried(order, kind, s, k, a, r, t) ==
  /\ Orderly(order) /\ Policy(order, kind, s, k, a) /\ GoesOn(order, kind, s, k, a)
  /\ r \in Try /\ r.by = order[k] /\ t = Append(s, r)

(* keeps the policy.                                                       *)
LEMMA TriedOnce ==
  ASSUME NEW order, NEW kind, NEW s, NEW k, NEW a, NEW r, NEW t, Tried(order, kind, s, k, a, r, t)
  PROVE  /\ Policy(order, kind, t, k, a)
         /\ Tries(t, order[k]) = a + 1 /\ t # <<>> /\ t[Len(t)] = r
<1> USE DEF Tried
<1> DEFINE n == Len(s)
<1>1. n \in Nat /\ s \in Seq(Try) /\ k \in 1..Len(order) /\ a \in 0..MaxRetries /\ MaxRetries \in Nat /\ Len(order) \in Nat
  BY StackAssumption DEF Policy, Orderly
<1>2. t \in Seq(Try) /\ Len(t) = n + 1 /\ t[n + 1] = r /\ \A i \in 1..n : t[i] = s[i]
  BY <1>1, AppendProperties
<1>3. \A b : Tries(s, b) \in Nat /\ Tries(t, b) = Tries(s, b) + IF r.by = b THEN 1 ELSE 0
  BY <1>1, OneMore
<1>4. Tries(t, order[k]) = a + 1
  BY <1>3 DEF GoesOn
<1>5. \A j \in 1..k : j # k => Tries(t, order[j]) = Tries(s, order[j])
  BY <1>1, <1>3 DEF Orderly
<1>6. a + 1 <= Most(kind)
  BY <1>1 DEF Most, Policy
<1>7. \A j \in 1..k : Tries(t, order[j]) <= Most(kind)
  BY <1>4, <1>5, <1>6 DEF Policy
<1>8. \A i \in 1..Len(t) : \E j \in 1..k : t[i].by = order[j]
  <2>1. \A i \in 1..(n + 1) : i \in 1..n \/ i = n + 1
    BY <1>1
  <2>2. k \in 1..k
    BY <1>1
  <2>3. ASSUME NEW i \in 1..n PROVE \E j \in 1..k : t[i].by = order[j]
    BY <1>2 DEF Policy
  <2> QED
    BY <1>2, <2>1, <2>2, <2>3
<1>9. t[1].by = order[1]
  <2>1. CASE s = <<>>
    BY <1>1, <1>2, <2>1 DEF GoesOn
  <2>2. CASE s # <<>>
    <3>1. 1 \in 1..n
      BY <1>1, <2>2
    <3> QED
      BY <1>2, <2>2, <3>1 DEF Policy
  <2> QED
    BY <2>1, <2>2
<1>10. ASSUME NEW i \in 1..(n - 1) PROVE Continues(order, kind, t, i)
  <2>1. i \in 1..n /\ i + 1 \in 1..n
    BY <1>1
  <2>2. t[i] = s[i] /\ t[i + 1] = s[i + 1]
    BY <1>2, <2>1
  <2>3. Continues(order, kind, s, i)
    BY DEF Policy
  <2>4. CASE s[i + 1].by = s[i].by /\ s[i].outcome = "busy" /\ kind = "complete"
    BY <2>2, <2>3, <2>4 DEF Continues
  <2>5. ASSUME NEW j \in 2..Len(order), s[i].by = order[j - 1], s[i + 1].by = order[j],
               s[i].outcome = "busy" /\ kind = "complete" => Tries(s, s[i].by) = MaxRetries + 1
        PROVE  Continues(order, kind, t, i)
    <3>1. j \in 1..Len(order) /\ j - 1 \in 1..Len(order)
      BY <1>1
    <3>2. j <= k
      <4>1. PICK h \in 1..k : s[i + 1].by = order[h]
        BY <2>1 DEF Policy
      <4>2. h \in 1..Len(order) /\ order[h] = order[j]
        BY <1>1, <2>5, <4>1
      <4>3. h = j
        BY <3>1, <4>2 DEF Orderly
      <4> QED
        BY <4>3
    <3>3. order[j - 1] # order[k]
      <4>1. j - 1 # k
        BY <1>1, <3>1, <3>2
      <4> QED
        BY <1>1, <3>1, <4>1 DEF Orderly
    <3>4. Tries(t, s[i].by) = Tries(s, s[i].by)
      BY <1>3, <2>5, <3>3
    <3> QED
      BY <2>2, <2>3, <2>5, <3>4 DEF Continues
  <2> QED
    BY <2>3, <2>4, <2>5 DEF Continues
<1>11. ASSUME n >= 1 PROVE Continues(order, kind, t, n)
  <2>1. s # <<>> /\ n \in 1..n
    BY <1>1, <1>11
  <2>2. t[n] = s[n] /\ t[n + 1] = r
    BY <1>2, <2>1
  <2>3. CASE a > 0 /\ s[n].by = order[k] /\ s[n].outcome = "busy"
    BY <2>2, <2>3 DEF Continues, Policy
  <2>4. CASE /\ a = 0 /\ k > 1 /\ s[n].by = order[k - 1] /\ s[n].outcome \in {"busy", "lost"}
             /\ s[n].outcome = "busy" /\ kind = "complete" => Tries(s, order[k - 1]) = MaxRetries + 1
    <3>1. k \in 2..Len(order) /\ k - 1 \in 1..k /\ k - 1 # k
      BY <1>1, <2>4
    <3>2. Tries(t, order[k - 1]) = Tries(s, order[k - 1])
      BY <1>5, <3>1
    <3> QED
      BY <2>2, <2>4, <3>1, <3>2 DEF Continues
  <2> QED
    BY <2>1, <2>3, <2>4 DEF GoesOn
<1>12. \A i \in 1..(Len(t) - 1) : Continues(order, kind, t, i)
  <2>1. Len(t) - 1 = n /\ \A i \in 1..n : (i \in 1..(n - 1) \/ i = n) /\ n >= 1
    BY <1>1, <1>2
  <2> HIDE DEF n
  <2> QED
    BY <1>10, <1>11, <2>1
<1>13. t # <<>> /\ t[Len(t)] = r
  BY <1>1, <1>2
<1> QED
  BY <1>1, <1>2, <1>4, <1>7, <1>8, <1>9, <1>12, <1>13 DEF Policy

(* A busy backend may be tried again;                                      *)
LEMMA TriedAgain ==
  ASSUME NEW order, NEW kind, NEW s, NEW k, NEW a, NEW r, NEW t, Tried(order, kind, s, k, a, r, t),
         kind = "complete", a < MaxRetries, r.outcome = "busy"
  PROVE  Policy(order, kind, t, k, a + 1) /\ GoesOn(order, kind, t, k, a + 1)
<1>1. /\ Policy(order, kind, t, k, a)
      /\ Tries(t, order[k]) = a + 1 /\ t # <<>> /\ t[Len(t)] = r
  BY TriedOnce
<1>2. a + 1 \in 0..MaxRetries /\ a + 1 > 0
  BY StackAssumption DEF Policy, Tried
<1> QED
  BY <1>1, <1>2 DEF Policy, GoesOn, Tried

(* from one that failed otherwise the call goes on to the next.            *)
LEMMA TriedNext ==
  ASSUME NEW order, NEW kind, NEW s, NEW k, NEW a, NEW r, NEW t, Tried(order, kind, s, k, a, r, t),
         k # Len(order), r.outcome \in {"busy", "lost"},
         r.outcome = "busy" /\ kind = "complete" => a = MaxRetries
  PROVE  Policy(order, kind, t, k + 1, 0) /\ GoesOn(order, kind, t, k + 1, 0)
<1>1. /\ Policy(order, kind, t, k, a)
      /\ Tries(t, order[k]) = a + 1 /\ t # <<>> /\ t[Len(t)] = r
  BY TriedOnce
<1>2. k + 1 \in 1..Len(order) /\ 0 \in 0..MaxRetries /\ k + 1 > 1 /\ (k + 1) - 1 = k /\ Len(order) \in Nat /\ k \in 1..Len(order)
  BY StackAssumption DEF Policy, Orderly, Tried
<1>3. Tries(t, order[k + 1]) = 0
  <2>1. ASSUME NEW i \in 1..Len(t) PROVE t[i].by # order[k + 1]
    <3>1. PICK j \in 1..k : t[i].by = order[j]
      BY <1>1 DEF Policy
    <3>2. j \in 1..Len(order) /\ j # k + 1
      BY <1>2
    <3> QED
      BY <1>2, <3>1, <3>2 DEF Orderly, Tried
  <2>2. {i \in DOMAIN t : t[i].by = order[k + 1]} = {}
    <3>1. DOMAIN t = 1..Len(t)
      BY <1>1 DEF Policy
    <3> QED
      BY <2>1, <3>1
  <2> QED
    BY <2>2, FS_EmptySet DEF Tries
<1>4. \A j \in 1..(k + 1) : j \in 1..k \/ j = k + 1
  BY <1>2
<1>5. 0 <= Most(kind)
  BY StackAssumption DEF Most
<1>6. Policy(order, kind, t, k + 1, 0)
  <2>1. \A i \in 1..Len(t) : \E j \in 1..(k + 1) : t[i].by = order[j]
    BY <1>1, <1>2 DEF Policy
  <2>2. \A j \in 1..(k + 1) : Tries(t, order[j]) <= Most(kind)
    BY <1>1, <1>3, <1>4, <1>5 DEF Policy
  <2> QED
    BY <1>1, <1>2, <2>1, <2>2 DEF Policy
<1>7. GoesOn(order, kind, t, k + 1, 0)
  <2>1. r.outcome = "busy" /\ kind = "complete" => Tries(t, order[k]) = MaxRetries + 1
    BY <1>1, StackAssumption
  <2>2. t[Len(t)].by = order[(k + 1) - 1] /\ t[Len(t)].outcome \in {"busy", "lost"}
    BY <1>1, <1>2 DEF Tried
  <2>3. t[Len(t)].outcome = "busy" /\ kind = "complete" => Tries(t, order[(k + 1) - 1]) = MaxRetries + 1
    BY <1>1, <1>2, <2>1
  <2> QED
    BY <1>1, <1>2, <1>3, <2>2, <2>3 DEF GoesOn
<1> QED
  BY <1>6, <1>7

(* Every call keeps to the policy, and one that still tries may go on.     *)
Trying == {"new", "lookup", "send", "backoff"}

TryInv ==
  /\ pc \in [Calls -> Labels]
  /\ call \in [Calls -> [stack : Stacks, request : Requests, kind : Kinds]]
  /\ at = [c \in Calls |-> at[c]] /\ attempt = [c \in Calls |-> attempt[c]] /\ log = [c \in Calls |-> log[c]]
  /\ \A c \in Calls : Policy(Order[call[c].stack], call[c].kind, log[c], at[c], attempt[c])
  /\ \A c \in Calls : pc[c] \in Trying => GoesOn(Order[call[c].stack], call[c].kind, log[c], at[c], attempt[c])

(* The initial states keep to it.                                          *)
LEMMA InitTries == ASSUME ChainsDistinct PROVE Init => TryInv
<1> SUFFICES ASSUME Init PROVE TryInv
  OBVIOUS
<1>1. ASSUME NEW order, NEW kind, Orderly(order)
      PROVE  Policy(order, kind, <<>>, 1, 0) /\ GoesOn(order, kind, <<>>, 1, 0)
  <2>1. 1 \in 1..Len(order)
    BY <1>1 DEF Orderly
  <2>2. \A b : Tries(<<>>, b) = 0
    <3>1. \A b : {i \in DOMAIN <<>> : <<>>[i].by = b} = {}
      OBVIOUS
    <3> QED
      BY <3>1, FS_EmptySet DEF Tries
  <2>3. <<>> \in Seq(Try) /\ Len(<<>>) = 0
    OBVIOUS
  <2>4. 0 \in 0..MaxRetries /\ 0 <= Most(kind)
    BY StackAssumption DEF Most
  <2>5. Policy(order, kind, <<>>, 1, 0)
    BY <2>1, <2>2, <2>3, <2>4 DEF Policy
  <2> QED
    BY <2>2, <2>5 DEF GoesOn
<1>2. ASSUME NEW c \in Calls PROVE Orderly(Order[call[c].stack])
  BY OrderDistinct DEF Init
<1> QED
  BY <1>1, <1>2 DEF Init, TryInv, Labels, Ended

(* What a backend answered is a try.                                       *)
LEMMA LogTries ==
  ASSUME ChainsDistinct, TryInv, NEW c \in Calls, pc[c] = "send", NEW o \in Outcomes, Logged(c, o)
  PROVE  /\ Tried(Order[call[c].stack], call[c].kind, log[c], at[c], attempt[c], [by |-> Backend(c), outcome |-> o], log'[c])
         /\ log' = [d \in Calls |-> log'[d]] /\ \A d \in Calls \ {c} : log'[d] = log[d]
<1> DEFINE r == [by |-> Backend(c), outcome |-> o]
<1>1. /\ log'[c] = Append(log[c], r)
      /\ log' = [d \in Calls |-> log'[d]] /\ \A d \in Calls \ {c} : log'[d] = log[d]
  BY DEF Logged, TryInv
<1>2. Orderly(Order[call[c].stack])
  BY OrderDistinct DEF TryInv
<1>3. Policy(Order[call[c].stack], call[c].kind, log[c], at[c], attempt[c])
  BY DEF TryInv
<1>4. GoesOn(Order[call[c].stack], call[c].kind, log[c], at[c], attempt[c])
  BY DEF TryInv, Trying
<1>5. Backend(c) = Order[call[c].stack][at[c]]
  BY DEF Backend
<1>6. Backend(c) \in Backends
  BY <1>2, <1>3, <1>5 DEF Orderly, Policy
<1>7. r \in Try /\ r.by = Order[call[c].stack][at[c]]
  BY <1>5, <1>6 DEF Try
<1> QED
  BY <1>1, <1>2, <1>3, <1>4, <1>7 DEF Tried

(* Moving a call without a try keeps to it, unless it would try again.     *)
LEMMA MovedOn ==
  ASSUME TryInv, NEW c \in Calls, NEW label \in Labels, Goto(c, label), label \in Trying => pc[c] \in Trying,
         UNCHANGED <<call, at, attempt, log>>
  PROVE  TryInv'
<1>1. /\ pc' \in [Calls -> Labels]
      /\ \A d \in Calls : pc'[d] \in Trying => pc[d] \in Trying
  BY DEF TryInv, Goto
<1> QED
  BY <1>1 DEF TryInv

(* A try that ends the trying, too.                                        *)
LEMMA TriedLast ==
  ASSUME ChainsDistinct, TryInv, NEW c \in Calls, pc[c] = "send", NEW o \in Outcomes, Logged(c, o),
         NEW label \in Labels \ Trying, Goto(c, label), UNCHANGED <<call, at, attempt>>
  PROVE  TryInv'
<1>1. /\ pc' \in [Calls -> Labels] /\ pc'[c] \notin Trying
      /\ \A d \in Calls \ {c} : pc'[d] = pc[d]
  BY DEF TryInv, Goto
<1>2. /\ Tried(Order[call[c].stack], call[c].kind, log[c], at[c], attempt[c], [by |-> Backend(c), outcome |-> o], log'[c])
      /\ log' = [d \in Calls |-> log'[d]] /\ \A d \in Calls \ {c} : log'[d] = log[d]
  BY LogTries
<1>3. Policy(Order[call[c].stack], call[c].kind, log'[c], at[c], attempt[c])
  BY <1>2, TriedOnce
<1> QED
  BY <1>1, <1>2, <1>3 DEF TryInv

(* Every step keeps to it.                                                 *)
LEMMA StepTries == ASSUME ChainsDistinct PROVE TryInv /\ [Next]_vars => TryInv'
<1> SUFFICES ASSUME TryInv, [Next]_vars PROVE TryInv'
  OBVIOUS
<1>1. CASE ClockStep \/ UNCHANGED vars
  BY <1>1 DEF ClockStep, Tick, SetBack, vars, TryInv
<1>2. ASSUME NEW c \in Calls, Start(c) \/ Lookup(c) \/ Backoff(c) \/ Store(c) \/ Drop(c)
      PROVE TryInv'
  <2>1. UNCHANGED <<call, at, attempt, log>>
    BY <1>2 DEF Start, Lookup, Backoff, Store, Drop
  <2>2. \E label \in Labels : Goto(c, label) /\ (label \in Trying => pc[c] \in Trying)
    <3> USE DEF Labels, Ended, Trying
    <3>1. CASE Start(c)
      BY <3>1, Zenon DEF Start
    <3>2. CASE Lookup(c)
      BY <3>2, Zenon DEF Lookup, Hit
    <3>3. CASE Backoff(c)
      BY <3>3, Zenon DEF Backoff
    <3>4. CASE Store(c)
      <4>1. Goto(c, "answered") \/ Goto(c, "dropped")
        BY <3>4 DEF Store
      <4>2. \A l \in {"answered", "dropped"} : l \in Labels /\ l \notin Trying
        OBVIOUS
      <4> HIDE DEF Labels, Trying
      <4> QED
        BY <4>1, <4>2, Zenon
    <3>5. CASE Drop(c)
      <4>1. Goto(c, "orphan") \/ Goto(c, "dropped")
        BY <3>5 DEF Drop
      <4>2. \A l \in {"orphan", "dropped"} : l \in Labels /\ l \notin Trying
        OBVIOUS
      <4> HIDE DEF Labels, Trying
      <4> QED
        BY <4>1, <4>2, Zenon
    <3> QED
      BY <1>2, <3>1, <3>2, <3>3, <3>4, <3>5
  <2> QED
    BY <2>1, <2>2, MovedOn
<1>3. ASSUME NEW c \in Calls, Succeed(c) PROVE TryInv'
  <2>1. \E label \in Labels \ Trying : Goto(c, label)
    BY <1>3, Zenon DEF Succeed, Labels, Ended, Trying
  <2>2. "ok" \in Outcomes
    BY DEF Outcomes
  <2> QED
    BY <1>3, <2>1, <2>2, TriedLast DEF Succeed
<1>4. ASSUME NEW c \in Calls, NEW o \in Outcomes \ {"ok"}, Fail(c, o) PROVE TryInv'
  <2>1. \E label \in Labels \ Trying : Goto(c, label)
    BY <1>4, Zenon DEF Fail, Labels, Ended, Trying
  <2> QED
    BY <1>4, <2>1, TriedLast DEF Fail
<1>5. ASSUME NEW c \in Calls, NEW o \in Outcomes \ {"ok"}, Retry(c, o) \/ FallThrough(c, o)
      PROVE TryInv'
  <2>1. pc[c] = "send" /\ Logged(c, o) /\ UNCHANGED call
    BY <1>5 DEF Retry, FallThrough
  <2>2. /\ Tried(Order[call[c].stack], call[c].kind, log[c], at[c], attempt[c], [by |-> Backend(c), outcome |-> o], log'[c])
        /\ log' = [d \in Calls |-> log'[d]] /\ \A d \in Calls \ {c} : log'[d] = log[d]
    BY <2>1, LogTries
  <2>3. /\ pc' \in [Calls -> Labels] /\ \A d \in Calls \ {c} : pc'[d] = pc[d]
        /\ at' = [d \in Calls |-> at'[d]] /\ \A d \in Calls \ {c} : at'[d] = at[d]
        /\ attempt' = [d \in Calls |-> attempt'[d]] /\ \A d \in Calls \ {c} : attempt'[d] = attempt[d]
    BY <1>5 DEF Retry, FallThrough, TryInv, Goto, Labels
  <2>4. /\ Policy(Order[call[c].stack], call[c].kind, log'[c], at'[c], attempt'[c])
        /\ GoesOn(Order[call[c].stack], call[c].kind, log'[c], at'[c], attempt'[c])
    <3>1. CASE Retry(c, o)
      <4>1. at'[c] = at[c] /\ attempt'[c] = attempt[c] + 1 /\ call[c].kind = "complete" /\ o = "busy" /\ attempt[c] < MaxRetries
        BY <3>1 DEF Retry, Retries, TryInv
      <4> QED
        BY <2>2, <4>1, TriedAgain
    <3>2. CASE FallThrough(c, o)
      <4>1. at'[c] = at[c] + 1 /\ attempt'[c] = 0 /\ ~Retries(c, o) /\ ~GivesUp(c, o)
        BY <3>2 DEF FallThrough, TryInv
      <4>2. o \in {"busy", "lost"} /\ at[c] # Len(Order[call[c].stack])
        BY <4>1, OrderDistinct DEF GivesUp, Outcomes, TryInv
      <4>3. o = "busy" /\ call[c].kind = "complete" => attempt[c] = MaxRetries
        BY <4>1, StackAssumption DEF Retries, TryInv, Policy
      <4> QED
        BY <2>2, <4>1, <4>2, <4>3, TriedNext
    <3> QED
      BY <1>5, <3>1, <3>2
  <2> QED
    BY <2>1, <2>2, <2>3, <2>4 DEF TryInv
<1> QED
  BY <1>1, <1>2, <1>3, <1>4, <1>5 DEF Next, CallStep, Upstream

(* What a call tries follows from the outcomes alone, for any chains of    *)
(* distinct backends, ranks and retry counts: it starts with the preferred *)
(* backend, tries one again only when it was busy and the calls of         *)
(* complete then until max_retries, and otherwise goes to the next.        *)
THEOREM PolicyFollowed == ASSUME ChainsDistinct PROVE Spec => []TriesFollowPolicy
<1>1. TryInv => TriesFollowPolicy
  <2> SUFFICES ASSUME TryInv, NEW c \in Calls
               PROVE  LET order == Order[call[c].stack]
                          retried == call[c].kind = "complete"
                      IN  /\ log[c] # <<>> => log[c][1].by = order[1]
                          /\ \A b \in Backends : TriesOf(c, b) <= IF retried THEN MaxRetries + 1 ELSE 1
                          /\ \A i \in 1..(Len(log[c]) - 1) :
                               LET this == log[c][i]
                                   next == log[c][i + 1]
                               IN  /\ this.outcome \in {"busy", "lost"}
                                   /\ \/ next.by = this.by /\ this.outcome = "busy" /\ retried
                                      \/ /\ \E k \in 2..Len(order) : this.by = order[k - 1] /\ next.by = order[k]
                                         /\ this.outcome = "busy" /\ retried => TriesOf(c, this.by) = MaxRetries + 1
    BY DEF TriesFollowPolicy
  <2> DEFINE order == Order[call[c].stack]
  <2>1. Policy(order, call[c].kind, log[c], at[c], attempt[c]) /\ \A b : TriesOf(c, b) = Tries(log[c], b)
    BY DEF TryInv, TriesOf, Tries
  <2>2. ASSUME NEW b PROVE TriesOf(c, b) <= Most(call[c].kind)
    <3>1. CASE \E j \in 1..at[c] : b = order[j]
      BY <2>1, <3>1 DEF Policy
    <3>2. CASE ~\E j \in 1..at[c] : b = order[j]
      <4>1. {i \in DOMAIN log[c] : log[c][i].by = b} = {}
        <5>1. DOMAIN log[c] = 1..Len(log[c])
          BY <2>1 DEF Policy
        <5> QED
          BY <2>1, <3>2, <5>1 DEF Policy
      <4>2. TriesOf(c, b) = 0
        BY <4>1, FS_EmptySet DEF TriesOf
      <4> QED
        BY <4>2, StackAssumption DEF Most
    <3> QED
      BY <3>1, <3>2
  <2> QED
    BY <2>1, <2>2 DEF Policy, Continues, Most
<1> QED
  BY <1>1, InitTries, StepTries, PTL DEF Spec
=============================================================================

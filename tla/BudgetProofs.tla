---------------------------- MODULE BudgetProofs ----------------------------
(***************************************************************************)
(* Proofs about the token budget and about a conversation history that     *)
(* shares one, for any number of threads, any capacity, any width of the   *)
(* counter, any sizes of messages and any length of the history.           *)
(***************************************************************************)
EXTENDS ChatHistory, DataLemmas, TLAPS

(* WithinTotal is not inductive: a compare-and-swap that is about to       *)
(* succeed must be known to store a value that fits, and a release must    *)
(* be known not to give back more than its thread holds.                   *)
BudgetInv ==
  /\ TypeOK
  /\ WithinTotal
  /\ \A t \in Threads : pc[t] # "idle" => n[t] \in Amounts
  /\ \A t \in Threads : pc[t] # "idle" /\ job[t] = "release" => n[t] <= held[t]
  /\ \A t \in Threads : pc[t] = "swap" /\ job[t] = "reserve"
                          => SaturatingAdd(seen[t], n[t]) <= Total

(* The saturating operations stay within u32.                              *)
LEMMA Saturation ==
  ASSUME NEW a \in 0..MaxU32, NEW b \in 0..MaxU32
  PROVE  /\ SaturatingAdd(a, b) \in 0..MaxU32
         /\ SaturatingSub(a, b) \in 0..MaxU32
         /\ SaturatingSub(a, b) <= a
  BY BudgetAssumption DEF SaturatingAdd, SaturatingSub

(* The initial states satisfy the invariant.                               *)
LEMMA InitInv == Init => BudgetInv
  BY BudgetAssumption DEF Init, BudgetInv, TypeOK, WithinTotal

(* Every step keeps it.                                                    *)
LEMMA StepInv == BudgetInv /\ [Next]_vars => BudgetInv'
<1> USE BudgetAssumption DEF BudgetInv, TypeOK, WithinTotal
<1> SUFFICES ASSUME BudgetInv, [Next]_vars PROVE BudgetInv'
  OBVIOUS
<1>1. CASE Reset
  BY <1>1 DEF Reset
<1>2. ASSUME NEW t \in Threads, Call(t) PROVE BudgetInv'
  <2>1. PICK k \in Amounts, j \in {"reserve", "release"} :
          /\ j = "release" => k <= held[t]
          /\ Begin(t, j, k)
    BY <1>2 DEF Call
  <2>2. k \in 0..MaxU32
    OBVIOUS
  <2>3. TypeOK' /\ WithinTotal'
    BY <1>2, <2>1, <2>2 DEF Begin
  <2>4. /\ pc'[t] = "load" /\ job'[t] = j /\ n'[t] = k
        /\ UNCHANGED <<seen, held>>
        /\ \A u \in Threads \ {t} :
             pc'[u] = pc[u] /\ job'[u] = job[u] /\ n'[u] = n[u]
    BY <1>2, <2>1 DEF Begin
  <2> QED
    BY <2>1, <2>3, <2>4
<1>3. ASSUME NEW t \in Threads, Load(t) PROVE BudgetInv'
  <2>1. CASE Refuses(t)
    BY <1>3, <2>1 DEF Load
  <2>2. CASE ~Refuses(t)
    <3>1. /\ seen' = [seen EXCEPT ![t] = used]
          /\ pc' = [pc EXCEPT ![t] = "swap"]
          /\ UNCHANGED <<used, job, n, held, wipes>>
      BY <1>3, <2>2 DEF Load
    <3>2. job[t] = "reserve" => SaturatingAdd(used, n[t]) <= Total
      <4>1. used \in 0..MaxU32 /\ n[t] \in 0..MaxU32
        OBVIOUS
      <4>2. SaturatingAdd(used, n[t]) \in 0..MaxU32
        BY <4>1, Saturation
      <4> QED
        BY <2>2, <4>2 DEF Refuses
    <3>3. seen'[t] = used /\ \A u \in Threads \ {t} : seen'[u] = seen[u] /\ pc'[u] = pc[u]
      BY <3>1
    <3>4. pc[t] # "idle"
      BY <1>3 DEF Load
    <3> QED
      BY <3>1, <3>2, <3>3, <3>4
  <2> QED
    BY <2>1, <2>2
<1>4. ASSUME NEW t \in Threads, Swap(t) PROVE BudgetInv'
  <2>1. used' \in 0..MaxU32 /\ used' <= Total
    <3>1. CASE job[t] = "reserve"
      BY <1>4, <3>1, Saturation DEF Swap, New
    <3>2. CASE job[t] = "release"
      <4>1. used' = SaturatingSub(used, n[t])
        BY <1>4, <3>2 DEF Swap, New
      <4> QED
        BY <4>1, Saturation
    <3> QED
      BY <3>1, <3>2
  <2>2. held' \in [Threads -> Nat] /\ \A u \in Threads \ {t} : held'[u] = held[u]
    <3>1. CASE job[t] = "reserve"
      BY <1>4, <3>1 DEF Swap
    <3>2. CASE job[t] = "release"
      BY <1>4, <3>2 DEF Swap
    <3> QED
      BY <3>1, <3>2
  <2> QED
    BY <1>4, <2>1, <2>2 DEF Swap
<1>5. ASSUME NEW t \in Threads, SwapFails(t) PROVE BudgetInv'
  BY <1>5 DEF SwapFails
<1>6. CASE UNCHANGED vars
  BY <1>6 DEF vars
<1> QED
  BY <1>1, <1>2, <1>3, <1>4, <1>5, <1>6 DEF Next

(* The inductive invariant holds in every reachable state.                 *)
THEOREM Invariance == Spec => []BudgetInv
  BY InitInv, StepInv, PTL DEF Spec

(* Type correctness.                                                       *)
THEOREM TypeCorrect == Spec => []TypeOK
  BY Invariance, PTL DEF BudgetInv

(* No interleaving of the loops overdraws the budget.                      *)
THEOREM NeverOverdrawn == Spec => []WithinTotal
  BY Invariance, PTL DEF BudgetInv

(* Unless total is u32::MAX, the loops implement the atomic budget.        *)
THEOREM Linearizable == ASSUME Total < MaxU32 PROVE Spec => ImplementsAtomicBudget
<1>1. Init => Atomic!Init
  BY DEF Init, Atomic!Init
<1>2. BudgetInv /\ [Next]_vars => [Atomic!Next]_used
  <2> SUFFICES ASSUME BudgetInv, [Next]_vars PROVE [Atomic!Next]_used
    OBVIOUS
  <2> USE BudgetAssumption DEF BudgetInv, TypeOK, Atomic!Next
  <2>1. CASE Reset
    BY <2>1 DEF Reset, Atomic!Reset
  <2>2. ASSUME NEW t \in Threads, Swap(t) PROVE [Atomic!Next]_used
    <3>1. n[t] \in Amounts
      BY <2>2 DEF Swap
    <3>2. CASE job[t] = "reserve"
      BY <2>2, <3>1, <3>2 DEF Swap, New, SaturatingAdd, Atomic!Reserve
    <3>3. CASE job[t] = "release"
      BY <2>2, <3>1, <3>3 DEF Swap, New, SaturatingSub, Atomic!Release
    <3> QED
      BY <3>2, <3>3
  <2>3. ASSUME NEW t \in Threads, Call(t) \/ Load(t) \/ SwapFails(t)
        PROVE [Atomic!Next]_used
    BY <2>3 DEF Call, Begin, Load, SwapFails
  <2>4. CASE UNCHANGED vars
    BY <2>4 DEF vars
  <2> QED
    BY <2>1, <2>2, <2>3, <2>4 DEF Next
<1> QED
  BY <1>1, <1>2, Invariance, PTL DEF Spec, ImplementsAtomicBudget, Atomic!Spec

(* HeldTokens is the sum over the threads.                                  *)
LEMMA HeldIsSum == HeldTokens = SumOf(held)
  BY DEF HeldTokens, SumOf

(* What a thread holds is a part of what all of them hold.                 *)
LEMMA PartOfHeld ==
  ASSUME held \in [Threads -> Nat], NEW t \in Threads
  PROVE  SumOf(held) \in Nat /\ held[t] <= SumOf(held)
<1>1. PICK rest \in [Threads -> Nat] : rest = [held EXCEPT ![t] = 0]
  OBVIOUS
<1>2. SameBut(held, rest, Threads, t) /\ rest[t] = 0
  BY <1>1 DEF SameBut
<1>3. SumOf(held) \in Nat /\ SumOf(rest) \in Nat /\ SumOf(rest) + held[t] = SumOf(held) + rest[t]
  BY <1>2, SumChanges, BudgetAssumption
<1> QED
  BY <1>2, <1>3

(* Conservation alone is inductive where BudgetInv holds: a reservation    *)
(* does not saturate, a release takes no more than there is.               *)
LEMMA StepConserves ==
  ASSUME Total < MaxU32
  PROVE  BudgetInv /\ Conservation /\ [Next]_vars => Conservation'
<1> SUFFICES ASSUME BudgetInv, Conservation, [Next]_vars PROVE Conservation'
  OBVIOUS
<1>0. /\ held \in [Threads -> Nat] /\ used \in Nat /\ wipes \in Nat /\ n \in [Threads -> 0..MaxU32]
      /\ IsFiniteSet(Threads)
  BY BudgetAssumption DEF BudgetInv, TypeOK
<1>9. HeldTokens = SumOf(held)
  BY HeldIsSum
<1>10. HeldTokens' = SumOf(held')
  <2>1. (HeldTokens = SumOf(held))'
    BY HeldIsSum, PTL
  <2> QED
    BY <2>1
<1>1. CASE UNCHANGED <<used, held, wipes>>
  BY <1>1, <1>9, <1>10 DEF Conservation
<1>2. CASE Reset
  <2>1. CASE \A t \in Threads : held[t] = 0
    <3>1. SumOf(held) = 0
      BY <1>0, <2>1, SumOfZeros
    <3> QED
      BY <1>0, <1>2, <1>10, <3>1 DEF Reset, Conservation
  <2>2. CASE wipes' = wipes + 1
    BY <1>0, <2>2 DEF Conservation
  <2> QED
    BY <1>2, <2>1, <2>2 DEF Reset
<1>3. ASSUME NEW t \in Threads, Swap(t) PROVE Conservation'
  <2> SUFFICES ASSUME wipes = 0 PROVE used' = SumOf(held')
    BY <1>0, <1>3, <1>10 DEF Conservation, Swap
  <2>1. used = SumOf(held)
    BY <1>9 DEF Conservation
  <2>2. held[t] \in Nat /\ n[t] \in Nat /\ SumOf(held) \in Nat /\ held[t] <= SumOf(held)
    BY <1>0, PartOfHeld
  <2>3. CASE job[t] = "reserve"
    <3>1. used' = used + n[t]
      <4>1. used' = SaturatingAdd(used, n[t]) /\ SaturatingAdd(used, n[t]) <= Total
        BY <1>3, <2>3 DEF Swap, New, BudgetInv
      <4> QED
        BY <1>0, <2>2, <4>1, BudgetAssumption DEF SaturatingAdd
    <3>2. held' = [held EXCEPT ![t] = held[t] + n[t]] /\ held[t] + n[t] \in Nat
      BY <1>0, <1>3, <2>2, <2>3 DEF Swap
    <3>3. SumOf(held') + held[t] = SumOf(held) + (held[t] + n[t]) /\ SumOf(held') \in Nat
      <4>1. held' \in [Threads -> Nat] /\ held'[t] = held[t] + n[t] /\ SameBut(held, held', Threads, t)
        BY <1>0, <3>2 DEF SameBut
      <4> QED
        BY <1>0, <4>1, SumChanges
    <3> QED
      BY <2>1, <2>2, <3>1, <3>3
  <2>4. CASE job[t] # "reserve"
    <3>1. n[t] <= held[t]
      BY <1>3, <2>4 DEF Swap, BudgetInv, TypeOK
    <3>2. used' = used - n[t]
      BY <1>0, <1>3, <2>1, <2>2, <2>4, <3>1 DEF Swap, New, SaturatingSub
    <3>3. held' = [held EXCEPT ![t] = held[t] - n[t]] /\ held[t] - n[t] \in Nat
      BY <1>0, <1>3, <2>2, <2>4, <3>1 DEF Swap
    <3>4. SumOf(held') + held[t] = SumOf(held) + (held[t] - n[t]) /\ SumOf(held') \in Nat
      <4>1. held' \in [Threads -> Nat] /\ held'[t] = held[t] - n[t] /\ SameBut(held, held', Threads, t)
        BY <1>0, <3>3 DEF SameBut
      <4> QED
        BY <1>0, <4>1, SumChanges
    <3> QED
      BY <2>1, <2>2, <3>1, <3>2, <3>4
  <2> QED
    BY <2>3, <2>4
<1> QED
  BY <1>1, <1>2, <1>3 DEF Next, Call, Begin, Load, SwapFails, vars

(* Unless total is u32::MAX, no compare-and-swap loses or repeats an       *)
(* update: until a reset throws reservations away, used is what all the    *)
(* threads hold.                                                           *)
THEOREM NothingLost == ASSUME Total < MaxU32 PROVE Spec => []Conservation
<1>1. Init => Conservation
  <2> SUFFICES ASSUME Init PROVE Conservation
    OBVIOUS
  <2>1. held \in [Threads -> Nat] /\ \A t \in Threads : held[t] = 0
    BY DEF Init
  <2>2. SumOf(held) = 0
    BY <2>1, SumOfZeros, BudgetAssumption
  <2> QED
    BY <2>2, HeldIsSum DEF Init, Conservation
<1>2. BudgetInv /\ Conservation /\ [Next]_vars => Conservation'
  BY StepConserves
<1> QED
  BY <1>1, <1>2, Invariance, PTL DEF Spec

----------------------------------------------------------------------------
(* The conversation history.                                               *)

(* RemainderAlternates is not inductive: a message is pushed some steps    *)
(* after its role was checked, and one is removed some steps after the     *)
(* loop of the truncation found that there is one to remove.               *)
ChatInv ==
  /\ messages \in Seq(Message)
  /\ draft \in Roles
  /\ needed \in Amounts \cup {0}
  /\ stage \in {"first", "loop", "again", "remove"} => needed \in Amounts
  /\ n \in [Threads -> 0..MaxU32]
  /\ pc \in [Threads -> {"idle", "load", "swap"}]
  /\ job \in [Threads -> {"reserve", "release"}]
  /\ stage \in {"idle", "charge", "first", "loop", "again", "remove", "back"}
  /\ pc[Owner] # "idle" => n[Owner] \in Amounts
  /\ pc[Owner] # "idle" => \/ stage \in {"charge", "first", "again"} /\ job[Owner] = "reserve"
                           \/ stage \in {"remove", "back"} /\ job[Owner] = "release"
  /\ stage = "charge" => Allowed(draft)
  /\ stage \in {"again", "remove"} => Len(messages) > Kept
  /\ RemainderAlternates

(* The initial states satisfy the invariant.                               *)
LEMMA InitChat == ChatInit => ChatInv
<1> SUFFICES ASSUME ChatInit PROVE ChatInv
  OBVIOUS
<1>1. messages \in Seq(Message) /\ Len(messages) = 0
  BY DEF ChatInit
<1>2. RemainderAlternates
  BY <1>1 DEF RemainderAlternates
<1> QED
  BY <1>1, <1>2, BudgetAssumption, OwnerAssumption DEF ChatInit, Init, ChatInv, Roles

(* A call of the budget, whoever makes it, has the arguments it may have.  *)
LEMMA Begun ==
  ASSUME ChatInv, NEW t \in Threads, NEW j \in {"reserve", "release"}, NEW k \in Amounts, Begin(t, j, k)
  PROVE  /\ n' \in [Threads -> 0..MaxU32]
         /\ pc' \in [Threads -> {"idle", "load", "swap"}]
         /\ job' \in [Threads -> {"reserve", "release"}]
         /\ job'[t] = j /\ n'[t] = k
         /\ \A u \in Threads \ {t} : pc'[u] = pc[u] /\ job'[u] = job[u] /\ n'[u] = n[u]
  BY BudgetAssumption DEF Begin, ChatInv

(* Its other steps change neither who calls what nor an amount.            *)
LEMMA Continued ==
  ASSUME ChatInv, NEW t \in Threads, Load(t) \/ Swap(t) \/ SwapFails(t)
  PROVE  /\ UNCHANGED <<n, job>>
         /\ pc' \in [Threads -> {"idle", "load", "swap"}]
         /\ \A u \in Threads \ {t} : pc'[u] = pc[u]
         /\ pc[t] # "idle"
  BY DEF Load, Swap, SwapFails, ChatInv

(* A role that may follow keeps the rule.                                  *)
LEMMA Push ==
  ASSUME messages \in Seq(Message), RemainderAlternates, NEW m \in Message, Allowed(m.role),
         messages' = Append(messages, m)
  PROVE  messages' \in Seq(Message) /\ RemainderAlternates'
<1>1. /\ messages' \in Seq(Message) /\ Len(messages') = Len(messages) + 1 /\ Len(messages) \in Nat
      /\ messages'[Len(messages) + 1] = m
      /\ \A i \in 1..Len(messages) : messages'[i] = messages[i]
  OBVIOUS
<1>2. ASSUME NEW i \in 2..Len(messages'), messages'[i - 1].role # "System"
      PROVE  messages'[i].role \in MayFollow(messages'[i - 1].role)
  <2>1. CASE i \in 2..Len(messages)
    BY <1>1, <1>2, <2>1 DEF RemainderAlternates
  <2>2. CASE i = Len(messages) + 1
    <3>1. messages # <<>> /\ Last(messages) = messages[i - 1] /\ messages'[i - 1] = messages[i - 1]
      BY <1>1, <1>2, <2>2 DEF Last
    <3> QED
      BY <1>1, <2>2, <3>1 DEF Allowed
  <2> QED
    BY <1>1, <1>2, <2>1, <2>2
<1> QED
  BY <1>1, <1>2 DEF RemainderAlternates

(* Removing the first message, or the one after the system message, joins  *)
(* no two others.                                                          *)
LEMMA RemoveOldest ==
  ASSUME messages \in Seq(Message), RemainderAlternates, Len(messages) > Kept,
         messages' = RemoveAt(messages, Kept + 1)
  PROVE  /\ messages' \in Seq(Message) /\ RemainderAlternates'
         /\ Kept = 1 => messages' # <<>> /\ messages'[1] = messages[1]
<1>1. Kept \in {0, 1} /\ Len(messages) \in Nat /\ (Kept = 1 => messages[1].role = "System")
  BY DEF Kept
<1>2. CASE Kept = 0
  <2>2. /\ messages' \in Seq(Message) /\ Len(messages') = Len(messages) - 1
        /\ \A i \in 1..Len(messages') : messages'[i] = messages[i + 1]
    <3>1. /\ RemoveAt(messages, 1) \in Seq(Message) /\ Len(RemoveAt(messages, 1)) = Len(messages) - 1
          /\ \A i \in 1..(Len(messages) - 1) :
               RemoveAt(messages, 1)[i] = IF i < 1 THEN messages[i] ELSE messages[i + 1]
      <4>1. 1 \in 1..Len(messages)
        BY <1>1, <1>2
      <4>2. messages \in Seq(Message)
        OBVIOUS
      <4> QED
        BY <4>1, <4>2, Spliced, Zenon
    <3>2. messages' = RemoveAt(messages, 1)
      BY <1>2
    <3> QED
      BY <1>1, <1>2, <3>1, <3>2
  <2>3. ASSUME NEW i \in 2..Len(messages'), messages'[i - 1].role # "System"
        PROVE  messages'[i].role \in MayFollow(messages'[i - 1].role)
    <3>1. messages'[i] = messages[i + 1] /\ messages'[i - 1] = messages[i] /\ i + 1 \in 2..Len(messages)
      BY <1>1, <2>2
    <3> QED
      BY <2>3, <3>1 DEF RemainderAlternates
  <2> QED
    BY <1>2, <2>2, <2>3 DEF RemainderAlternates
<1>3. CASE Kept = 1
  <2>2. /\ messages' \in Seq(Message) /\ Len(messages') = Len(messages) - 1
        /\ messages'[1] = messages[1]
        /\ \A i \in 2..Len(messages') : messages'[i] = messages[i + 1]
    <3>1. /\ RemoveAt(messages, 2) \in Seq(Message) /\ Len(RemoveAt(messages, 2)) = Len(messages) - 1
          /\ \A i \in 1..(Len(messages) - 1) :
               RemoveAt(messages, 2)[i] = IF i < 2 THEN messages[i] ELSE messages[i + 1]
      <4>1. 2 \in 1..Len(messages)
        BY <1>1, <1>3
      <4>2. messages \in Seq(Message)
        OBVIOUS
      <4> QED
        BY <4>1, <4>2, Spliced, Zenon
    <3>2. messages' = RemoveAt(messages, 2)
      BY <1>3
    <3> QED
      BY <1>1, <1>3, <3>1, <3>2
  <2>3. ASSUME NEW i \in 2..Len(messages'), messages'[i - 1].role # "System"
        PROVE  messages'[i].role \in MayFollow(messages'[i - 1].role)
    <3>1. i # 2
      BY <1>1, <1>3, <2>2, <2>3
    <3>2. messages'[i] = messages[i + 1] /\ messages'[i - 1] = messages[i] /\ i + 1 \in 2..Len(messages)
      BY <1>1, <2>2, <3>1
    <3> QED
      BY <2>3, <3>2 DEF RemainderAlternates
  <2>4. messages' # <<>>
    BY <1>1, <1>3, <2>2
  <2> QED
    BY <2>2, <2>3, <2>4 DEF RemainderAlternates
<1> QED
  BY <1>1, <1>2, <1>3

(* A step that leaves messages and draft alone keeps what is said of them. *)
LEMMA Untouched ==
  ASSUME ChatInv, UNCHANGED <<messages, draft>>
  PROVE  /\ messages' \in Seq(Message) /\ draft' \in Roles /\ RemainderAlternates'
         /\ Kept' = Kept /\ Len(messages') = Len(messages) /\ (Allowed(draft)' <=> Allowed(draft))
  BY DEF ChatInv, RemainderAlternates, Kept, Allowed

(* Every step keeps the invariant.                                         *)
LEMMA StepChat == ChatInv /\ [ChatNext]_chatVars => ChatInv'
<1> USE BudgetAssumption, OwnerAssumption
<1> SUFFICES ASSUME ChatInv, [ChatNext]_chatVars PROVE ChatInv'
  OBVIOUS
<1>0. CASE UNCHANGED chatVars
  BY <1>0, Untouched DEF chatVars, vars, ownerVars, ChatInv
<1>1. ASSUME NEW m \in Message, Charge(m) PROVE ChatInv'
  <2>1. m.role \in Roles /\ m.tokens \in Amounts /\ Begin(Owner, "reserve", m.tokens)
    BY <1>1 DEF Charge, Message
  <2>2. UNCHANGED <<messages, needed>> /\ stage' = "charge" /\ draft' = m.role /\ Allowed(draft)'
    BY <1>1 DEF Charge, Allowed
  <2>3. RemainderAlternates'
    BY <2>2 DEF ChatInv, RemainderAlternates
  <2> QED
    BY <2>1, <2>2, <2>3, Begun DEF ChatInv
<1>2. ASSUME NEW k \in Amounts, Truncate(k) PROVE ChatInv'
  <2>1. k \in Amounts /\ Begin(Owner, "reserve", k)
    BY <1>2 DEF Truncate
  <2>2. UNCHANGED <<messages, draft>> /\ stage' = "first" /\ needed' = k
    BY <1>2 DEF Truncate
  <2> QED
    BY <2>1, <2>2, Begun, Untouched DEF ChatInv
<1>3. ASSUME NEW k \in Amounts, GiveBack(k) PROVE ChatInv'
  <2>1. k \in Amounts /\ Begin(Owner, "release", k)
    BY <1>3 DEF GiveBack
  <2>2. UNCHANGED <<messages, draft, needed>> /\ stage' = "back"
    BY <1>3 DEF GiveBack
  <2> QED
    BY <2>1, <2>2, Begun, Untouched DEF ChatInv
<1>4. CASE TryAgain
  <2>1. UNCHANGED <<messages, draft, needed>>
    BY <1>4 DEF TryAgain
  <2>2. CASE Len(messages) > Kept /\ Begin(Owner, "reserve", needed) /\ stage' = "again"
    <3>1. needed \in Amounts
      BY <1>4 DEF TryAgain, ChatInv
    <3> QED
      BY <2>1, <2>2, <3>1, Begun, Untouched DEF ChatInv
  <2>3. CASE stage' = "idle" /\ UNCHANGED vars
    <3>1. pc'[Owner] = "idle"
      BY <1>4, <2>3 DEF TryAgain, ChatInv, vars
    <3> QED
      BY <2>1, <2>3, <3>1, Untouched DEF ChatInv, vars
  <2> QED
    BY <1>4, <2>2, <2>3 DEF TryAgain
<1>5. CASE ReleaseOldest
  <2>1. stage = "remove" /\ Begin(Owner, "release", messages[Kept + 1].tokens) /\ UNCHANGED ownerVars
    BY <1>5 DEF ReleaseOldest
  <2>2. messages[Kept + 1] \in Message
    <3>1. messages \in Seq(Message) /\ Kept + 1 \in 1..Len(messages)
      BY <2>1 DEF ChatInv, Kept
    <3> QED
      BY <3>1
  <2>3. messages[Kept + 1].tokens \in Amounts
    BY <2>2 DEF Message
  <2> QED
    BY <2>1, <2>3, Begun, Untouched DEF ChatInv, ownerVars
<1>6. CASE OwnerLoad
  <2>1. Load(Owner) /\ UNCHANGED <<messages, draft, needed>>
    BY <1>6 DEF OwnerLoad
  <2>2. CASE Refuses(Owner)
    <3>1. job[Owner] = "reserve" /\ pc'[Owner] = "idle" /\ pc[Owner] = "load"
      BY <2>1, <2>2 DEF Refuses, Load, ChatInv
    <3>2. \/ stage = "charge" /\ stage' = "idle"
          \/ stage = "first" /\ stage' = "loop"
          \/ stage = "again" /\ stage' = "remove"
      BY <1>6, <2>2, <3>1 DEF OwnerLoad, ChatInv
    <3> QED
      BY <2>1, <3>1, <3>2, Continued, Untouched DEF ChatInv
  <2>3. CASE ~Refuses(Owner)
    <3>1. stage' = stage
      BY <1>6, <2>3 DEF OwnerLoad
    <3> QED
      BY <2>1, <3>1, Continued, Untouched DEF ChatInv
  <2> QED
    BY <2>2, <2>3
<1>7. CASE OwnerSwap
  <2>1. Swap(Owner) /\ UNCHANGED <<draft, needed>> /\ pc'[Owner] = "idle"
    BY <1>7 DEF OwnerSwap, Swap, ChatInv
  <2>2. CASE Pushed
    <3> DEFINE m == [role |-> draft, tokens |-> n[Owner]]
    <3>1. m \in Message /\ m.role = draft
      BY <2>1 DEF Swap, ChatInv, Message
    <3>2. stage = "charge" /\ stage' = "idle" /\ messages' = Append(messages, m)
      BY <2>2 DEF Pushed
    <3> HIDE DEF m
    <3>3. Allowed(m.role) /\ messages \in Seq(Message) /\ RemainderAlternates
      BY <3>1, <3>2 DEF ChatInv
    <3>4. messages' \in Seq(Message) /\ RemainderAlternates'
      BY <3>1, <3>2, <3>3, Push
    <3> QED
      BY <2>1, <3>2, <3>4, Continued DEF ChatInv
  <2>3. CASE Granted \/ GivenBack
    <3>1. UNCHANGED messages /\ stage' = "idle"
      BY <2>3 DEF Granted, GivenBack
    <3> QED
      BY <2>1, <3>1, Continued, Untouched DEF ChatInv
  <2>4. CASE Removed
    <3>1. stage = "remove" /\ stage' = "loop" /\ messages' = RemoveAt(messages, Kept + 1)
      BY <2>4 DEF Removed
    <3>2. messages' \in Seq(Message) /\ RemainderAlternates'
      BY <3>1, RemoveOldest DEF ChatInv
    <3> QED
      BY <2>1, <3>1, <3>2, Continued DEF ChatInv
  <2> QED
    BY <1>7, <2>2, <2>3, <2>4 DEF OwnerSwap
<1>8. CASE SwapFails(Owner) /\ UNCHANGED ownerVars
  BY <1>8, Continued, Untouched DEF ChatInv, ownerVars
<1>9. ASSUME NEW t \in Threads \ {Owner}, OtherStep(t) PROVE ChatInv'
  <2>1. UNCHANGED ownerVars
    BY <1>9 DEF OtherStep
  <2>2. CASE Call(t)
    <3>1. PICK j \in {"reserve", "release"}, k \in Amounts : Begin(t, j, k)
      BY <2>2 DEF Call
    <3>2. k \in Amounts
      OBVIOUS
    <3> QED
      BY <2>1, <3>1, <3>2, Begun, Untouched DEF ChatInv, ownerVars
  <2>3. CASE Load(t) \/ Swap(t) \/ SwapFails(t)
    BY <2>1, <2>3, Continued, Untouched DEF ChatInv, ownerVars
  <2> QED
    BY <1>9, <2>2, <2>3 DEF OtherStep
<1>10. CASE Reset /\ UNCHANGED ownerVars
  BY <1>10, Untouched DEF Reset, ChatInv, ownerVars
<1> QED
  BY <1>0, <1>1, <1>2, <1>3, <1>4, <1>5, <1>6, <1>7, <1>8, <1>9, <1>10 DEF ChatNext, OwnerStep

(* Whatever is pushed and removed, consecutive messages after the system   *)
(* message obey the rules of push.                                         *)
THEOREM RolesRemain == ChatSpec => []RemainderAlternates
<1>1. ChatInv => RemainderAlternates
  BY DEF ChatInv
<1> QED
  BY <1>1, InitChat, StepChat, PTL DEF ChatSpec

(* No step takes the leading system message away.                          *)
THEOREM SystemStays == ChatSpec => SystemSurvives
<1> DEFINE Survives == messages # <<>> /\ messages[1].role = "System"
                         => messages' # <<>> /\ messages'[1] = messages[1]
<1>1. ChatInv /\ [ChatNext]_chatVars => [Survives]_chatVars
  <2> SUFFICES ASSUME ChatInv, ChatNext, messages # <<>>, messages[1].role = "System"
               PROVE  messages' # <<>> /\ messages'[1] = messages[1]
    OBVIOUS
  <2>1. CASE UNCHANGED messages
    BY <2>1
  <2>2. CASE OwnerSwap /\ Pushed
    BY <2>2 DEF Pushed, ChatInv
  <2>3. CASE OwnerSwap /\ Removed
    <3>1. messages' = RemoveAt(messages, Kept + 1) /\ Len(messages) > Kept
          /\ messages \in Seq(Message) /\ RemainderAlternates
      BY <2>3 DEF Removed, ChatInv
    <3>2. Kept = 1
      BY DEF Kept
    <3> QED
      BY <3>1, <3>2, RemoveOldest
  <2> QED
    BY <2>1, <2>2, <2>3 DEF ChatNext, OwnerStep, OwnerSwap, Charge, Truncate, GiveBack, TryAgain,
       ReleaseOldest, OwnerLoad, Granted, GivenBack, OtherStep, ownerVars
<1> QED
  BY <1>1, InitChat, StepChat, PTL DEF ChatSpec, SystemSurvives

----------------------------------------------------------------------------
(* What the messages amount to.                                            *)

TokensOf(seq) == FoldLeft(LAMBDA sum, m : sum + m.tokens, 0, seq)

(* A message counts for a natural number of tokens.                        *)
LEMMA Sizes == \A m \in Message : m.tokens \in Nat
<1> SUFFICES ASSUME NEW m \in Message PROVE m.tokens \in Nat
  OBVIOUS
<1>1. m.tokens \in Amounts
  BY DEF Message
<1>2. \A k \in Amounts : k \in Nat
  BY BudgetAssumption
<1> QED
  BY <1>1, <1>2

(* The fold runs through the sums of the prefixes.                         *)
LEMMA RunningTokens ==
  ASSUME NEW seq \in Seq(Message)
  PROVE  \E p \in [0..Len(seq) -> Nat] :
           p[0] = 0 /\ p[Len(seq)] = TokensOf(seq) /\ \A k \in 1..Len(seq) : p[k] = p[k - 1] + seq[k].tokens
<1> DEFINE last == Len(seq)
           op == [q \in (1..last) \X Nat |-> q[2] + seq[q[1]].tokens]
           P(h) == h = [s \in SUBSET (1..last) |-> IF s = {} THEN 0 ELSE h[s \ {Max(s)}] + seq[Max(s)].tokens]
           fold == CHOOSE h : P(h)
<1>0. last \in Nat /\ DOMAIN seq = 1..last /\ \A k \in 1..last : seq[k].tokens \in Nat
  BY Sizes
<1> HIDE DEF last
<1>1. op \in [(1..last) \X Nat -> Nat]
  BY <1>0
<1>2. 0 \in Nat
  OBVIOUS
<1>3. P(fold)
  <2>1. PICK g \in [SUBSET (1..last) -> Nat] : Computes(g, last, Nat, 0, op)
    <3> HIDE DEF op
    <3> QED
      BY <1>0, <1>1, <1>2, LeftRecursion
  <2>2. P(g)
    BY <2>1 DEF Computes
  <2> HIDE DEF P
  <2> QED
    BY <2>2
<1>4. TokensOf(seq) = fold[1..last]
  BY <1>0 DEF TokensOf, FoldLeft, MapThenFoldSet
<1>5. Follows(fold, last, Nat, 0, op)
  <2>1. ASSUME NEW h, P(h) PROVE Follows(h, last, Nat, 0, op)
    <3>1. \A s \in SUBSET (1..last) : s # {} => Max(s) \in 1..last
      BY <1>0, GreatestChooses DEF Chooses
    <3> QED
      BY <2>1, <3>1 DEF Follows
  <2> HIDE DEF P, fold
  <2> QED
    BY <1>3, <2>1
<1>6. PICK p \in [0..last -> Nat] : p[last] = fold[1..last] /\ Passes(p, last, 0, op)
  <2> HIDE DEF op, fold
  <2> QED
    BY <1>0, <1>1, <1>2, <1>5, LeftFold
<1>7. ASSUME NEW k \in 1..last PROVE p[k] = p[k - 1] + seq[k].tokens
  <2>1. k - 1 \in 0..last
    BY <1>0
  <2> QED
    BY <1>6, <2>1 DEF Passes
<1> QED
  BY <1>4, <1>6, <1>7 DEF last, Passes

(* The tokens of a history are a number.                                    *)
LEMMA TokensCounted == ASSUME NEW seq \in Seq(Message) PROVE TokensOf(seq) \in Nat
<1>1. PICK p \in [0..Len(seq) -> Nat] : p[Len(seq)] = TokensOf(seq)
  BY RunningTokens
<1> QED
  BY <1>1

(* A message that is pushed adds its tokens,                               *)
LEMMA TokensPushed ==
  ASSUME NEW seq \in Seq(Message), NEW m \in Message
  PROVE  TokensOf(Append(seq, m)) = TokensOf(seq) + m.tokens
<1>0. PICK last \in Nat, more \in Seq(Message) : last = Len(seq) /\ more = Append(seq, m)
  <2>1. Len(seq) \in Nat /\ Append(seq, m) \in Seq(Message)
    OBVIOUS
  <2> QED
    BY <2>1
<1>1. Len(more) = last + 1 /\ more[last + 1] = m /\ \A k \in 1..last : more[k] = seq[k]
  BY <1>0
<1>2. PICK p \in [0..last -> Nat] :
        p[0] = 0 /\ p[last] = TokensOf(seq) /\ \A k \in 1..last : p[k] = p[k - 1] + seq[k].tokens
  BY <1>0, RunningTokens
<1>3. PICK q \in [0..(last + 1) -> Nat] :
        /\ q[0] = 0 /\ q[last + 1] = TokensOf(more)
        /\ \A k \in 1..(last + 1) : q[k] = q[k - 1] + more[k].tokens
  <2>1. PICK q \in [0..Len(more) -> Nat] :
          /\ q[0] = 0 /\ q[Len(more)] = TokensOf(more)
          /\ \A k \in 1..Len(more) : q[k] = q[k - 1] + more[k].tokens
    BY RunningTokens
  <2> QED
    BY <1>1, <2>1
<1> DEFINE U == {k \in 0..last : q[k] # p[k]}
<1>4. U = {}
  <2>1. U \subseteq 0..last /\ 0 \notin U
    BY <1>2, <1>3
  <2>2. ASSUME NEW k \in 1..last, k - 1 \notin U PROVE k \notin U
    <3>1. k - 1 \in 0..last /\ k \in 1..(last + 1)
      OBVIOUS
    <3>2. q[k - 1] = p[k - 1]
      BY <2>2, <3>1
    <3> QED
      BY <1>1, <1>2, <1>3, <3>1, <3>2
  <2> HIDE DEF U
  <2> QED
    BY <2>1, <2>2, NothingFrom
<1>5. last \in 0..last /\ last + 1 \in 1..(last + 1) /\ (last + 1) - 1 = last
  OBVIOUS
<1>6. q[last] = p[last] /\ q[last + 1] = q[last] + m.tokens
  BY <1>1, <1>3, <1>4, <1>5
<1> QED
  BY <1>0, <1>2, <1>3, <1>6

(* and one that is removed takes away its own.                             *)
LEMMA TokensRemoved ==
  ASSUME NEW seq \in Seq(Message), NEW i \in 1..Len(seq)
  PROVE  TokensOf(RemoveAt(seq, i)) + seq[i].tokens = TokensOf(seq)
<1>0. PICK last \in Nat, rest \in Seq(Message) : last = Len(seq) /\ rest = RemoveAt(seq, i)
  <2>1. Len(seq) \in Nat /\ RemoveAt(seq, i) \in Seq(Message)
    BY Spliced
  <2> QED
    BY <2>1
<1>1. /\ i \in 1..last /\ last - 1 \in Nat /\ Len(rest) = last - 1
      /\ \A k \in 1..(last - 1) : rest[k] = IF k < i THEN seq[k] ELSE seq[k + 1]
  <2>1. i \in 1..last
    BY <1>0
  <2> QED
    BY <1>0, <2>1, Spliced
<1>2. PICK p \in [0..last -> Nat] :
        p[0] = 0 /\ p[last] = TokensOf(seq) /\ \A k \in 1..last : p[k] = p[k - 1] + seq[k].tokens
  BY <1>0, RunningTokens
<1>3. PICK q \in [0..(last - 1) -> Nat] :
        /\ q[0] = 0 /\ q[last - 1] = TokensOf(rest)
        /\ \A k \in 1..(last - 1) : q[k] = q[k - 1] + rest[k].tokens
  <2>1. PICK q \in [0..Len(rest) -> Nat] :
          /\ q[0] = 0 /\ q[Len(rest)] = TokensOf(rest)
          /\ \A k \in 1..Len(rest) : q[k] = q[k - 1] + rest[k].tokens
    BY RunningTokens
  <2> QED
    BY <1>1, <2>1
<1>4. PICK size \in [1..last -> Nat] : \A k \in 1..last : size[k] = seq[k].tokens
  <2>1. \A k \in 1..last : seq[k].tokens \in Nat
    BY <1>0, Sizes
  <2>2. [k \in 1..last |-> seq[k].tokens] \in [1..last -> Nat]
    BY <2>1
  <2> QED
    BY <2>2
<1>10. ASSUME NEW k \in 1..(last - 1)
       PROVE  q[k] = q[k - 1] + (IF k < i THEN size[k] ELSE size[k + 1])
  <2>1. k \in 1..last /\ k + 1 \in 1..last
    BY <1>1
  <2>2. q[k] = q[k - 1] + rest[k].tokens
    BY <1>3
  <2>3. CASE k < i
    <3>1. rest[k] = seq[k]
      BY <1>1, <2>3
    <3> QED
      BY <1>4, <2>1, <2>2, <2>3, <3>1
  <2>4. CASE ~(k < i)
    <3>1. rest[k] = seq[k + 1]
      BY <1>1, <2>4
    <3> QED
      BY <1>4, <2>1, <2>2, <2>4, <3>1
  <2> QED
    BY <2>3, <2>4
<1>11. ASSUME NEW k \in 1..last PROVE p[k] = p[k - 1] + size[k]
  BY <1>2, <1>4
<1> DEFINE U == {k \in 0..(last - 1) : (k < i /\ q[k] # p[k]) \/ (~(k < i) /\ q[k] + size[i] # p[k + 1])}
<1>5. U = {}
  <2>1. U \subseteq 0..(last - 1) /\ 0 \notin U
    BY <1>1, <1>2, <1>3
  <2>2. ASSUME NEW k \in 1..(last - 1), k - 1 \notin U PROVE k \notin U
    <3>1. k - 1 \in 0..(last - 1) /\ k - 1 \in 0..last /\ k \in 0..last /\ k + 1 \in 1..last /\ (k + 1) - 1 = k /\ k \in 1..last
      BY <1>1
    <3>2. p[k + 1] = p[k] + size[k + 1] /\ p[k] = p[k - 1] + size[k]
      BY <1>11, <3>1
    <3>3. q[k - 1] \in Nat /\ p[k - 1] \in Nat /\ size[k] \in Nat /\ size[k + 1] \in Nat /\ size[i] \in Nat
      BY <1>1, <3>1
    <3>4. (k - 1 < i => q[k - 1] = p[k - 1]) /\ (~(k - 1 < i) => q[k - 1] + size[i] = p[(k - 1) + 1])
      BY <2>2, <3>1
    <3>5. CASE k < i
      <4>1. q[k - 1] = p[k - 1] /\ q[k] = q[k - 1] + size[k]
        BY <1>1, <1>10, <3>4, <3>5
      <4> QED
        BY <3>2, <3>5, <4>1
    <3>6. CASE k = i
      <4>1. q[k - 1] = p[k - 1] /\ q[k] = q[k - 1] + size[k + 1]
        BY <1>1, <1>10, <3>4, <3>6
      <4>2. q[k] + size[k] = p[k + 1]
        BY <3>2, <3>3, <4>1
      <4> QED
        BY <3>6, <4>2
    <3>7. CASE k > i
      <4>1. q[k - 1] + size[i] = p[k] /\ q[k] = q[k - 1] + size[k + 1]
        <5>1. ~(k - 1 < i) /\ (k - 1) + 1 = k /\ ~(k < i)
          BY <1>1, <3>7
        <5> QED
          BY <1>10, <3>4, <5>1
      <4>2. p[k + 1] = (q[k - 1] + size[i]) + size[k + 1]
        BY <3>2, <4>1
      <4>3. (q[k - 1] + size[i]) + size[k + 1] = (q[k - 1] + size[k + 1]) + size[i]
        <5>1. \A a, b, c \in Nat : (a + b) + c = (a + c) + b
          OBVIOUS
        <5> QED
          BY <3>3, <5>1, Zenon
      <4> QED
        BY <1>1, <3>7, <4>1, <4>2, <4>3
    <3> QED
      BY <1>1, <3>5, <3>6, <3>7
  <2> HIDE DEF U
  <2> QED
    BY <1>1, <2>1, <2>2, NothingFrom
<1>6. last - 1 \in 0..(last - 1) /\ last - 1 \notin U /\ (last - 1) + 1 = last /\ last \in 1..last
  <2> HIDE DEF U
  <2> QED
    BY <1>1, <1>5
<1>7. size[i] = seq[i].tokens
  BY <1>1, <1>4
<1>8. CASE last - 1 < i
  <2>1. i = last
    BY <1>1, <1>8
  <2>2. q[last - 1] = p[last - 1]
    BY <1>6, <1>8
  <2>3. p[last] = p[last - 1] + size[i]
    BY <1>6, <1>11, <2>1
  <2> QED
    BY <1>0, <1>2, <1>3, <1>7, <2>2, <2>3
<1>9. CASE ~(last - 1 < i)
  <2>1. q[last - 1] + size[i] = p[last]
    BY <1>6, <1>9
  <2> QED
    BY <1>0, <1>2, <1>3, <1>7, <2>1
<1> QED
  BY <1>8, <1>9

----------------------------------------------------------------------------
(* The history and the budget that it shares.                              *)

(* A release gives back no more than its thread holds.                     *)
GivesBackItsOwn == \A t \in Threads : pc[t] # "idle" /\ job[t] = "release" => n[t] <= held[t]

(* Accounting is not inductive: a call that is under way must be known to  *)
(* be about the amount that its success will add or take away.             *)
AccountInv ==
  /\ held \in [Threads -> Nat] /\ granted \in Nat
  /\ held[Owner] = TokensOf(messages) + granted
  /\ GivesBackItsOwn
  /\ pc[Owner] # "idle" /\ stage \in {"first", "again"} => n[Owner] = needed
  /\ pc[Owner] # "idle" /\ stage = "back" => n[Owner] <= granted
  /\ pc[Owner] # "idle" /\ stage = "remove" => n[Owner] = messages[Kept + 1].tokens

(* Calls change nothing of what is held,                                   *)
LEMMA BegunHeld ==
  ASSUME ChatInv, AccountInv, NEW t \in Threads, NEW j \in {"reserve", "release"}, NEW k \in Amounts,
         j = "release" => k <= held[t], Begin(t, j, k)
  PROVE  UNCHANGED held /\ GivesBackItsOwn'
<1>1. UNCHANGED held
  BY DEF Begin
<1>2. /\ job'[t] = j /\ n'[t] = k
      /\ \A u \in Threads \ {t} : pc'[u] = pc[u] /\ job'[u] = job[u] /\ n'[u] = n[u]
  BY Begun
<1> QED
  BY <1>1, <1>2 DEF AccountInv, GivesBackItsOwn

(* and their other steps only what the caller holds.                       *)
LEMMA ContinuedHeld ==
  ASSUME ChatInv, AccountInv, NEW t \in Threads, Load(t) \/ Swap(t) \/ SwapFails(t)
  PROVE  /\ held' \in [Threads -> Nat] /\ GivesBackItsOwn'
         /\ \A u \in Threads \ {t} : held'[u] = held[u]
         /\ Load(t) \/ SwapFails(t) => UNCHANGED held
         /\ Swap(t) => held'[t] = IF job[t] = "reserve" THEN held[t] + n[t] ELSE held[t] - n[t]
<1>0. /\ held \in [Threads -> Nat] /\ held[t] \in Nat /\ n[t] \in Nat
      /\ job[t] = "release" /\ pc[t] # "idle" => n[t] <= held[t]
  BY BudgetAssumption DEF ChatInv, AccountInv, GivesBackItsOwn
<1>1. UNCHANGED <<n, job>> /\ \A u \in Threads \ {t} : pc'[u] = pc[u]
  BY Continued
<1>2. CASE Load(t) \/ SwapFails(t)
  <2>1. UNCHANGED held /\ pc[t] # "idle"
    BY <1>2 DEF Load, SwapFails
  <2>2. GivesBackItsOwn'
    BY <1>1, <2>1 DEF AccountInv, GivesBackItsOwn
  <2>3. ~Swap(t)
    <3>1. CASE Load(t)
      BY <3>1 DEF Load, Swap
    <3>2. CASE SwapFails(t)
      BY <3>2 DEF SwapFails, Swap, ChatInv
    <3> QED
      BY <1>2, <3>1, <3>2
  <2> QED
    BY <1>0, <2>1, <2>2, <2>3
<1>3. CASE Swap(t)
  <2>1. /\ held' = [held EXCEPT ![t] = IF job[t] = "reserve" THEN @ + n[t] ELSE @ - n[t]]
        /\ pc[t] = "swap" /\ pc' = [pc EXCEPT ![t] = "idle"]
    BY <1>3 DEF Swap
  <2>2. (IF job[t] = "reserve" THEN held[t] + n[t] ELSE held[t] - n[t]) \in Nat
    BY <1>0, <2>1 DEF ChatInv
  <2>3. /\ held' \in [Threads -> Nat] /\ \A u \in Threads \ {t} : held'[u] = held[u]
        /\ held'[t] = IF job[t] = "reserve" THEN held[t] + n[t] ELSE held[t] - n[t]
    BY <1>0, <2>1, <2>2
  <2>4. pc'[t] = "idle"
    BY <2>1 DEF ChatInv
  <2>5. GivesBackItsOwn'
    BY <1>1, <2>3, <2>4 DEF AccountInv, GivesBackItsOwn
  <2>6. ~Load(t) /\ ~SwapFails(t)
    BY <2>1, <2>4 DEF Load, SwapFails, ChatInv
  <2> QED
    BY <2>3, <2>5, <2>6
<1> QED
  BY <1>2, <1>3

(* The message a truncation is about to remove.                            *)
LEMMA Oldest ==
  ASSUME ChatInv, stage = "remove"
  PROVE  /\ Kept + 1 \in 1..Len(messages) /\ messages[Kept + 1].tokens \in Amounts
         /\ messages[Kept + 1].tokens \in Nat
<1>1. messages \in Seq(Message) /\ Kept + 1 \in 1..Len(messages)
  BY DEF ChatInv, Kept
<1>2. messages[Kept + 1] \in Message
  BY <1>1
<1> QED
  BY <1>1, <1>2, Sizes DEF Message

(* What is removed is a part of what the history holds.                    *)
LEMMA OldestHeld ==
  ASSUME ChatInv, AccountInv, stage = "remove"
  PROVE  messages[Kept + 1].tokens <= held[Owner]
<1>1. messages \in Seq(Message) /\ Kept + 1 \in 1..Len(messages) /\ messages[Kept + 1].tokens \in Nat
  BY Oldest DEF ChatInv
<1>2. TokensOf(RemoveAt(messages, Kept + 1)) + messages[Kept + 1].tokens = TokensOf(messages)
  BY <1>1, TokensRemoved
<1>3. TokensOf(RemoveAt(messages, Kept + 1)) \in Nat
  BY <1>1, Spliced, TokensCounted
<1> QED
  BY <1>1, <1>2, <1>3, OwnerAssumption DEF AccountInv

(* Every step keeps it.                                                    *)
LEMMA StepAccount == ChatInv /\ AccountInv /\ [ChatNext]_chatVars => AccountInv'
<1> USE OwnerAssumption
<1> SUFFICES ASSUME ChatInv, AccountInv, [ChatNext]_chatVars PROVE AccountInv'
  OBVIOUS
<1>a. held[Owner] \in Nat /\ n[Owner] \in Nat /\ TokensOf(messages) \in Nat /\ granted \in Nat
  BY BudgetAssumption, TokensCounted DEF ChatInv, AccountInv
<1>0. CASE UNCHANGED chatVars
  BY <1>0 DEF chatVars, vars, ownerVars, AccountInv, GivesBackItsOwn, Kept
<1>1. ASSUME NEW m \in Message, Charge(m) PROVE AccountInv'
  <2>1. m.tokens \in Amounts /\ Begin(Owner, "reserve", m.tokens) /\ stage' = "charge" /\ UNCHANGED <<messages, granted>>
    BY <1>1 DEF Charge, Message
  <2>2. UNCHANGED held /\ GivesBackItsOwn'
    BY <2>1, BegunHeld
  <2> QED
    BY <2>1, <2>2 DEF AccountInv
<1>2. ASSUME NEW k \in Amounts, Truncate(k) PROVE AccountInv'
  <2>1. Begin(Owner, "reserve", k) /\ stage' = "first" /\ needed' = k /\ UNCHANGED <<messages, granted>>
    BY <1>2 DEF Truncate
  <2>2. UNCHANGED held /\ GivesBackItsOwn' /\ n'[Owner] = k
    BY <2>1, BegunHeld, Begun
  <2> QED
    BY <2>1, <2>2 DEF AccountInv
<1>3. ASSUME NEW k \in Amounts, GiveBack(k) PROVE AccountInv'
  <2>1. Begin(Owner, "release", k) /\ stage' = "back" /\ k <= granted /\ UNCHANGED <<messages, granted>>
    BY <1>3 DEF GiveBack
  <2>2. k <= held[Owner]
    BY <1>a, <2>1, BudgetAssumption DEF AccountInv
  <2>3. UNCHANGED held /\ GivesBackItsOwn' /\ n'[Owner] = k
    BY <2>1, <2>2, BegunHeld, Begun
  <2> QED
    BY <2>1, <2>3 DEF AccountInv
<1>4. CASE TryAgain
  <2>1. UNCHANGED <<messages, needed, granted>>
    BY <1>4 DEF TryAgain
  <2>2. CASE Begin(Owner, "reserve", needed) /\ stage' = "again"
    <3>1. needed \in Amounts
      BY <1>4 DEF TryAgain, ChatInv
    <3>2. UNCHANGED held /\ GivesBackItsOwn' /\ n'[Owner] = needed
      BY <2>2, <3>1, BegunHeld, Begun
    <3> QED
      BY <2>1, <2>2, <3>2 DEF AccountInv
  <2>3. CASE stage' = "idle" /\ UNCHANGED vars
    BY <2>1, <2>3 DEF AccountInv, GivesBackItsOwn, vars
  <2> QED
    BY <1>4, <2>2, <2>3 DEF TryAgain
<1>5. CASE ReleaseOldest
  <2>1. stage = "remove" /\ Begin(Owner, "release", messages[Kept + 1].tokens) /\ UNCHANGED ownerVars
    BY <1>5 DEF ReleaseOldest
  <2>2. UNCHANGED held /\ GivesBackItsOwn' /\ n'[Owner] = messages[Kept + 1].tokens
    BY <2>1, Oldest, OldestHeld, BegunHeld, Begun
  <2>3. Kept' = Kept
    BY <2>1 DEF ownerVars, Kept
  <2> QED
    BY <2>1, <2>2, <2>3 DEF AccountInv, ownerVars
<1>6. CASE OwnerLoad
  <2>1. Load(Owner) /\ UNCHANGED <<messages, needed, granted>>
    BY <1>6 DEF OwnerLoad
  <2>2. UNCHANGED <<held, n>> /\ GivesBackItsOwn'
    BY <2>1, ContinuedHeld, Continued
  <2>3. Kept' = Kept
    BY <2>1 DEF Kept
  <2>4. CASE Refuses(Owner)
    <3>1. pc'[Owner] = "idle"
      BY <2>1, <2>4 DEF Load, ChatInv
    <3> QED
      BY <2>1, <2>2, <3>1 DEF AccountInv
  <2>5. CASE ~Refuses(Owner)
    <3>1. stage' = stage /\ pc[Owner] # "idle"
      BY <1>6, <2>1, <2>5 DEF OwnerLoad, Load
    <3> QED
      BY <2>1, <2>2, <2>3, <3>1 DEF AccountInv
  <2> QED
    BY <2>4, <2>5
<1>7. CASE OwnerSwap
  <2>1. Swap(Owner) /\ pc'[Owner] = "idle" /\ pc[Owner] # "idle"
    BY <1>7 DEF OwnerSwap, Swap, ChatInv
  <2>2. /\ held' \in [Threads -> Nat] /\ GivesBackItsOwn'
        /\ held'[Owner] = IF job[Owner] = "reserve" THEN held[Owner] + n[Owner] ELSE held[Owner] - n[Owner]
    BY <2>1, ContinuedHeld
  <2>3. CASE Pushed
    <3>1. PICK m \in Message : m.tokens = n[Owner] /\ messages' = Append(messages, m)
      <4>1. [role |-> draft, tokens |-> n[Owner]] \in Message
        BY <2>1 DEF ChatInv, Message
      <4> QED
        BY <2>3, <4>1 DEF Pushed
    <3>2. TokensOf(messages') = TokensOf(messages) + n[Owner]
      BY <3>1, TokensPushed DEF ChatInv
    <3>3. job[Owner] = "reserve" /\ UNCHANGED granted
      BY <2>1, <2>3 DEF Pushed, ChatInv
    <3> QED
      BY <1>a, <2>1, <2>2, <3>2, <3>3 DEF AccountInv
  <2>4. CASE Granted
    <3>1. UNCHANGED messages /\ granted' = granted + n[Owner] /\ job[Owner] = "reserve"
      BY <2>1, <2>4 DEF Granted, ChatInv, AccountInv
    <3> QED
      BY <1>a, <2>1, <2>2, <3>1 DEF AccountInv
  <2>5. CASE Removed
    <3>1. /\ stage = "remove" /\ messages' = RemoveAt(messages, Kept + 1) /\ UNCHANGED granted
          /\ job[Owner] = "release" /\ n[Owner] = messages[Kept + 1].tokens
      BY <2>1, <2>5 DEF Removed, ChatInv, AccountInv
    <3>2. Kept + 1 \in 1..Len(messages) /\ messages \in Seq(Message)
      BY <3>1, Oldest DEF ChatInv
    <3>3. TokensOf(messages') + n[Owner] = TokensOf(messages) /\ TokensOf(messages') \in Nat
      BY <3>1, <3>2, TokensRemoved, Spliced, TokensCounted
    <3> QED
      BY <1>a, <2>1, <2>2, <3>1, <3>3 DEF AccountInv
  <2>6. CASE GivenBack
    <3>1. UNCHANGED messages /\ granted' = granted - n[Owner] /\ job[Owner] = "release" /\ n[Owner] <= granted
      BY <2>1, <2>6 DEF GivenBack, ChatInv, AccountInv
    <3> QED
      BY <1>a, <2>1, <2>2, <3>1 DEF AccountInv
  <2> QED
    BY <1>7, <2>3, <2>4, <2>5, <2>6 DEF OwnerSwap
<1>8. CASE SwapFails(Owner) /\ UNCHANGED ownerVars
  <2>1. UNCHANGED <<held, n>> /\ GivesBackItsOwn' /\ pc[Owner] # "idle"
    BY <1>8, ContinuedHeld, Continued
  <2>2. Kept' = Kept
    BY <1>8 DEF ownerVars, Kept
  <2> QED
    BY <1>8, <2>1, <2>2 DEF AccountInv, ownerVars
<1>9. ASSUME NEW t \in Threads \ {Owner}, OtherStep(t) PROVE AccountInv'
  <2>1. UNCHANGED <<messages, stage, needed, granted>> /\ Kept' = Kept
    BY <1>9 DEF OtherStep, ownerVars, Kept
  <2>2. /\ held' \in [Threads -> Nat] /\ GivesBackItsOwn' /\ held'[Owner] = held[Owner]
        /\ n'[Owner] = n[Owner] /\ pc'[Owner] = pc[Owner]
    <3>1. CASE Call(t)
      <4>1. PICK j \in {"reserve", "release"}, k \in Amounts : (j = "release" => k <= held[t]) /\ Begin(t, j, k)
        BY <3>1 DEF Call
      <4>2. UNCHANGED held /\ GivesBackItsOwn'
        BY <4>1, BegunHeld
      <4> QED
        BY <4>1, <4>2, Begun DEF AccountInv
    <3>2. CASE Load(t) \/ Swap(t) \/ SwapFails(t)
      BY <3>2, ContinuedHeld, Continued
    <3> QED
      BY <1>9, <3>1, <3>2 DEF OtherStep
  <2> QED
    BY <2>1, <2>2 DEF AccountInv
<1>10. CASE Reset /\ UNCHANGED ownerVars
  BY <1>10 DEF Reset, ownerVars, AccountInv, GivesBackItsOwn, Kept
<1> QED
  BY <1>0, <1>1, <1>2, <1>3, <1>4, <1>5, <1>6, <1>7, <1>8, <1>9, <1>10 DEF ChatNext, OwnerStep

(* A history that has just been made holds nothing.                        *)
LEMMA InitAccount == ChatInit => AccountInv
<1> SUFFICES ASSUME ChatInit PROVE AccountInv
  OBVIOUS
<1>1. messages = <<>> /\ granted = 0 /\ held = [t \in Threads |-> 0] /\ pc = [t \in Threads |-> "idle"]
  BY DEF ChatInit, Init
<1>2. TokensOf(messages) = 0
  <2>1. PICK p \in [0..Len(messages) -> Nat] : p[0] = 0 /\ p[Len(messages)] = TokensOf(messages)
    <3>1. messages \in Seq(Message)
      BY <1>1
    <3> QED
      BY <3>1, RunningTokens
  <2>2. Len(messages) = 0
    BY <1>1
  <2> QED
    BY <2>1, <2>2
<1> QED
  BY <1>1, <1>2, OwnerAssumption DEF AccountInv, GivesBackItsOwn

(* Whatever is pushed, truncated and given back, and whatever other users  *)
(* do in between, the owner holds what its messages and grants amount to.  *)
THEOREM Accounted == ChatSpec => []Accounting
<1>1. AccountInv => Accounting
  BY DEF AccountInv, Accounting, Tokens, TokensOf
<1> QED
  BY <1>1, InitChat, StepChat, InitAccount, StepAccount, PTL DEF ChatSpec

(* The owner of a history is one more user of the budget: each of its      *)
(* steps is a step that any thread may take, above all a release of no     *)
(* more than it holds.  What is proved of the budget holds of the          *)
(* composition.                                                            *)
THEOREM HistoryUsesBudget == ChatSpec => Spec
<1>1. ChatInit => Init
  BY DEF ChatInit
<1>2. ChatInv /\ AccountInv /\ [ChatNext]_chatVars => [Next]_vars
  <2> USE OwnerAssumption
  <2> SUFFICES ASSUME ChatInv, AccountInv, ChatNext PROVE [Next]_vars
    BY DEF chatVars
  <2>1. ASSUME NEW j \in {"reserve", "release"}, NEW k \in Amounts, j = "release" => k <= held[Owner],
               Begin(Owner, j, k)
        PROVE  Next
    BY <2>1 DEF Next, Call
  <2>2. ASSUME NEW m \in Message, Charge(m) PROVE Next
    BY <2>1, <2>2 DEF Charge, Message
  <2>3. ASSUME NEW k \in Amounts, Truncate(k) PROVE Next
    BY <2>1, <2>3 DEF Truncate
  <2>4. ASSUME NEW k \in Amounts, GiveBack(k) PROVE Next
    <3>1. k <= held[Owner]
      <4>1. k <= granted /\ TokensOf(messages) \in Nat /\ granted \in Nat /\ k \in Nat
        BY <2>4, BudgetAssumption, TokensCounted DEF GiveBack, AccountInv, ChatInv
      <4> QED
        BY <4>1 DEF AccountInv
    <3> QED
      BY <2>1, <2>4, <3>1 DEF GiveBack
  <2>5. CASE TryAgain
    BY <2>1, <2>5 DEF TryAgain, ChatInv
  <2>6. CASE ReleaseOldest
    BY <2>1, <2>6, Oldest, OldestHeld DEF ReleaseOldest
  <2>7. CASE OwnerLoad \/ OwnerSwap \/ SwapFails(Owner)
    BY <2>7 DEF Next, OwnerLoad, OwnerSwap
  <2>8. ASSUME NEW t \in Threads, OtherStep(t) PROVE Next
    BY <2>8 DEF Next, OtherStep
  <2>9. CASE Reset
    BY <2>9 DEF Next
  <2> QED
    BY <2>2, <2>3, <2>4, <2>5, <2>6, <2>7, <2>8, <2>9 DEF ChatNext, OwnerStep
<1> QED
  BY <1>1, <1>2, InitChat, StepChat, InitAccount, StepAccount, PTL DEF ChatSpec, Spec

(* However a truncation interleaves with other users of the budget, used   *)
(* stays within total,                                                     *)
THEOREM SharedNotOverdrawn == ChatSpec => []WithinTotal
  BY HistoryUsesBudget, NeverOverdrawn, PTL

(* and, unless total is u32::MAX, the history loses no token and its loops *)
(* implement the atomic budget.                                            *)
THEOREM SharedBudgetAtomic ==
  ASSUME Total < MaxU32
  PROVE  ChatSpec => []Conservation /\ ImplementsAtomicBudget
<1>1. Spec => []Conservation
  BY NothingLost
<1>2. Spec => ImplementsAtomicBudget
  BY Linearizable
<1> QED
  BY <1>1, <1>2, HistoryUsesBudget, PTL
=============================================================================

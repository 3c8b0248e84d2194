----------------------------- MODULE ChatHistory -----------------------------
(***************************************************************************)
(* ConversationHistory (src/src/llm/history.rs) on a token budget that its *)
(* owner shares with other threads.  The history itself has one owner; its *)
(* truncation interleaves with the others' compare-and-swap loops, one     *)
(* atomic operation of TokenBudget at a time.  A message is its role and   *)
(* its size in tokens.                                                     *)
(***************************************************************************)
EXTENDS TokenBudget, Sequences, SequencesExt

CONSTANTS
  Owner,        (* The thread that owns the history.                       *)
  MaxMessages   (* Bound: how long the history grows.                      *)

ASSUME OwnerAssumption == Owner \in Threads /\ MaxMessages \in Nat

Roles == {"System", "User", "Assistant", "Tool"}

Message == [role : Roles, tokens : Amounts]

VARIABLES
  messages,  (* ConversationHistory.messages                               *)
  stage,     (* What the owner is doing: "idle"; "charge"ing a message;    *)
             (* in truncate_to_budget, at its "first" try, at the head of  *)
             (* the "loop", trying "again", or about to "remove" a         *)
             (* message; or giving a grant "back".                         *)
  draft,     (* The role of the message it is charging; its size is n.     *)
  needed,    (* The argument of truncate_to_budget.                        *)
  granted    (* History: what truncations reserved and is not given back.  *)

ownerVars == <<messages, stage, draft, needed, granted>>
chatVars == <<vars, ownerVars>>

(* The types of the history and of the budget.                             *)
ChatTypeOK ==
  /\ TypeOK
  /\ messages \in Seq(Message) /\ Len(messages) <= MaxMessages
  /\ stage \in {"idle", "charge", "first", "loop", "again", "remove", "back"}
  /\ draft \in Roles
  /\ needed \in Amounts \cup {0}
  /\ granted \in Nat

----------------------------------------------------------------------------
(* Steps of the code.                                                      *)

(* The rules of push: which roles may follow a role, and come first.       *)
MayFollow(role) ==
  CASE role = "System"    -> {"User"}
    [] role = "User"      -> {"Assistant"}
    [] role = "Assistant" -> {"User", "Tool"}
    [] role = "Tool"      -> {"Assistant", "Tool"}

MayBeFirst == {"System", "User", "Tool"}

Allowed(role) ==
  role \in IF messages = <<>> THEN MayBeFirst ELSE MayFollow(Last(messages).role)

(* The messages a truncation keeps: a leading system message.  The mutant  *)
(* takes it for any other.                                                 *)
KeepNothing == 0

Kept == IF messages # <<>> /\ messages[1].role = "System" THEN 1 ELSE 0

ChatInit ==
  /\ Init
  /\ messages = <<>>
  /\ stage = "idle"
  /\ draft = "User"
  /\ needed = 0
  /\ granted = 0

(* The owner reserves the tokens of a message that it is about to push.    *)
Charge(m) ==
  /\ stage = "idle" /\ Len(messages) < MaxMessages
  /\ Allowed(m.role)
  /\ Begin(Owner, "reserve", m.tokens)
  /\ stage' = "charge" /\ draft' = m.role
  /\ UNCHANGED <<messages, needed, granted>>

(* truncate_to_budget tries once before it looks at the messages.          *)
Truncate(k) ==
  /\ stage = "idle"
  /\ Begin(Owner, "reserve", k)
  /\ stage' = "first" /\ needed' = k
  /\ UNCHANGED <<messages, draft, granted>>

(* The head of its loop: another try, or no message left to remove.        *)
TryAgain ==
  /\ stage = "loop"
  /\ \/ /\ Len(messages) > Kept
        /\ Begin(Owner, "reserve", needed)
        /\ stage' = "again"
     \/ /\ Len(messages) <= Kept
        /\ stage' = "idle"
        /\ UNCHANGED vars
  /\ UNCHANGED <<messages, draft, needed, granted>>

(* It releases the tokens of the oldest message.  The mutant releases what *)
(* it needs.                                                               *)
ReleaseNeeded ==
  /\ stage = "remove"
  /\ Begin(Owner, "release", needed)
  /\ UNCHANGED ownerVars

ReleaseOldest ==
  /\ stage = "remove"
  /\ Begin(Owner, "release", messages[Kept + 1].tokens)
  /\ UNCHANGED ownerVars

(* The owner gives grants back when its request is done.                   *)
GiveBack(k) ==
  /\ stage = "idle" /\ k <= granted
  /\ Begin(Owner, "release", k)
  /\ stage' = "back"
  /\ UNCHANGED <<messages, draft, needed, granted>>

(* The owner's load, and where it goes on when try_reserve returns false.  *)
OwnerLoad ==
  /\ Load(Owner)
  /\ stage' = IF ~Refuses(Owner) THEN stage
              ELSE CASE stage = "charge" -> "idle"
                     [] stage = "first"  -> "loop"
                     [] stage = "again"  -> "remove"
  /\ UNCHANGED <<messages, draft, needed, granted>>

(* What follows a call that succeeded: the charged message is pushed, a    *)
(* truncation returns with its grant, or it removes the message whose      *)
(* tokens it released.  The mutant removes the message after it.           *)
Pushed ==
  /\ stage = "charge" /\ stage' = "idle"
  /\ messages' = Append(messages, [role |-> draft, tokens |-> n[Owner]])
  /\ UNCHANGED granted

Granted ==
  /\ stage \in {"first", "again"} /\ stage' = "idle"
  /\ granted' = granted + needed
  /\ UNCHANGED messages

RemoveSecond ==
  /\ stage = "remove" /\ stage' = "loop"
  /\ messages' = RemoveAt(messages, IF Len(messages) > Kept + 1 THEN Kept + 2 ELSE Kept + 1)
  /\ UNCHANGED granted

Removed ==
  /\ stage = "remove" /\ stage' = "loop"
  /\ messages' = RemoveAt(messages, Kept + 1)
  /\ UNCHANGED granted

GivenBack ==
  /\ stage = "back" /\ stage' = "idle"
  /\ granted' = granted - n[Owner]
  /\ UNCHANGED messages

OwnerSwap ==
  /\ Swap(Owner)
  /\ Pushed \/ Granted \/ Removed \/ GivenBack
  /\ UNCHANGED <<draft, needed>>

OwnerStep ==
  \/ \E m \in Message : Charge(m)
  \/ \E k \in Amounts : Truncate(k) \/ GiveBack(k)
  \/ TryAgain \/ ReleaseOldest
  \/ OwnerLoad \/ OwnerSwap
  \/ SwapFails(Owner) /\ UNCHANGED ownerVars

(* The other threads use the budget as they like.                          *)
OtherStep(t) ==
  /\ Call(t) \/ Load(t) \/ Swap(t) \/ SwapFails(t)
  /\ UNCHANGED ownerVars

ChatNext ==
  \/ OwnerStep
  \/ \E t \in Threads \ {Owner} : OtherStep(t)
  \/ Reset /\ UNCHANGED ownerVars

ChatSpec == ChatInit /\ [][ChatNext]_chatVars

----------------------------------------------------------------------------
(* Properties.                                                             *)

(* Between the calls of its owner and during a truncation alike, what the  *)
(* owner holds of the budget is what its messages and its grants amount    *)
(* to: a truncation frees exactly what it removes.                         *)
Tokens == FoldLeft(LAMBDA sum, m : sum + m.tokens, 0, messages)

Accounting == held[Owner] = Tokens + granted

(* Whatever truncation removes, consecutive messages that remain obey the  *)
(* rules of push; only the message after the system message may not.       *)
RemainderAlternates ==
  \A i \in 2..Len(messages) :
    messages[i - 1].role # "System" => messages[i].role \in MayFollow(messages[i - 1].role)

(* The leading system message survives every step.                         *)
SystemSurvives ==
  [][messages # <<>> /\ messages[1].role = "System"
       => messages' # <<>> /\ messages'[1] = messages[1]]_chatVars

(* "enforces role alternation rules": the first message is one that may    *)
(* come first, and each later one may follow the one before it.            *)
RolesAlternate ==
  /\ messages # <<>> => messages[1].role \in MayBeFirst
  /\ \A i \in 2..Len(messages) : messages[i].role \in MayFollow(messages[i - 1].role)
=============================================================================

---------------------------- MODULE SecretVault ----------------------------
(***************************************************************************)
(* The text of a secrets file: lines KEY=value whose values are quoted for *)
(* a shell when they need to be.  A value is a sequence of the characters  *)
(* that the encoding tells apart.                                          *)
(***************************************************************************)
EXTENDS Naturals, SequencesExt, TLC

Newline == "NL"
Return == "CR"       (* Whitespace that is trimmed but never quoted.       *)
Quote == "'"
Backslash == "\\"

Ok(value) == [ok |-> TRUE, value |-> value]
Err == [ok |-> FALSE]

IsValidEnvKey(key) == key \in {"API_KEY", "OTHER_KEY"}

Quoted == {Newline, Quote, "DQ", Backslash}
NeedsQuoting(value) == value[1] = "$" \/ \E i \in DOMAIN value : value[i] \in Quoted

EscapeOnlyQuotes(c) ==
  CASE c = Newline -> <<Backslash, "n">>
    [] c = Quote -> <<Backslash, c>>
    [] OTHER -> <<c>>

Escape(c) ==
  CASE c = Newline -> <<Backslash, "n">>
    [] c \in {Backslash, Quote} -> <<Backslash, c>>
    [] OTHER -> <<c>>

EncodeForShell(value) ==
  CASE value = <<>> -> <<Quote, Quote>>
    [] value # <<>> /\ ~NeedsQuoting(value) -> value
    [] OTHER -> <<"$", Quote>> \o FlattenSeq([i \in DOMAIN value |-> Escape(value[i])]) \o <<Quote>>

(* A backslash and what follows it make one character; a backslash that    *)
(* nothing follows is an error.                                            *)
UnescapeAnsi(text) ==
  LET Step(state, c) ==
        CASE state.escape -> [out |-> Append(state.out, IF c = "n" THEN Newline ELSE c), escape |-> FALSE]
          [] ~state.escape /\ c = Backslash -> [state EXCEPT !.escape = TRUE]
          [] OTHER -> [state EXCEPT !.out = Append(@, c)]
      end == FoldLeft(Step, [out |-> <<>>, escape |-> FALSE], text)
  IN IF end.escape THEN Err ELSE Ok(end.out)

(* \" stands for a double quote, any other backslash for itself.           *)
UnescapeDouble(text) ==
  FlattenSeq([i \in DOMAIN text |->
    IF i < Len(text) /\ text[i] = Backslash /\ text[i + 1] = "DQ" THEN <<>> ELSE <<text[i]>>])

Encloses(open, close, text) ==
  /\ Len(text) >= Len(open) + 1
  /\ IsPrefix(open, text) /\ Last(text) = close
Inner(open, text) == SubSeq(text, Len(open) + 1, Len(text) - 1)

DecodeShellValue(text) ==
  CASE Encloses(<<Quote>>, Quote, text) -> Ok(Inner(<<Quote>>, text))
    [] Encloses(<<"$", Quote>>, Quote, text) -> UnescapeAnsi(Inner(<<"$", Quote>>, text))
    [] Encloses(<<"DQ">>, "DQ", text) -> Ok(UnescapeDouble(Inner(<<"DQ">>, text)))
    [] OTHER -> Ok(text)

(* Lines are trimmed; the key in front keeps what a value begins with.     *)
Trim(text) == SubSeq(text, 1, Max({0} \cup {i \in DOMAIN text : text[i] # Return}))

Entry(key, text) == [type |-> "entry", key |-> key, text |-> text]

(* A file is a sequence of lines: entries, skipped lines (blank ones and   *)
(* comments) and bad ones (no UTF-8, or nothing like KEY=value), which are *)
(* an error, as skipping one would erase it with the next save.            *)
ParseSecrets(lines) ==
  LET value == [i \in DOMAIN lines |-> IF lines[i].type = "entry" THEN DecodeShellValue(Trim(lines[i].text)) ELSE Ok(<<>>)]
      Insert(vault, i) == IF lines[i].type = "entry" THEN lines[i].key :> value[i].value @@ vault ELSE vault
  IN IF \E i \in DOMAIN lines :
          \/ lines[i].type = "bad" \/ ~value[i].ok
          \/ lines[i].type = "entry" /\ ~IsValidEnvKey(lines[i].key)
     THEN Err
     ELSE Ok(FoldLeft(Insert, <<>>, [i \in DOMAIN lines |-> i]))

(* A line for every key, or an error for one that could not be read back.  *)
Persistable(vault) == \A key \in DOMAIN vault : IsValidEnvKey(key)
SecretLines(vault) ==
  LET keys == SetToSeq(DOMAIN vault)
  IN [i \in DOMAIN keys |-> Entry(keys[i], EncodeForShell(vault[keys[i]]))]
=============================================================================

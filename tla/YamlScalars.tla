---------------------------- MODULE YamlScalars ----------------------------
(***************************************************************************)
(* The text of a scalar, as a sequence of characters: what                 *)
(* Emitter.analyze_scalar finds out about it, and whether the scanner      *)
(* reads it back when it is written plain, on one line.  "a" and "1" stand *)
(* for the letters and digits, "quote" for both quotes, "nl" for the line  *)
(* breaks, "tab" for the characters that only a double-quoted scalar may   *)
(* hold.                                                                   *)
(***************************************************************************)
EXTENDS Naturals, Sequences, SequencesExt

DocumentMarks == {<<"-", "-", "-">>, <<".", ".", ".">>}
StartsAsMark(text) == \E mark \in DocumentMarks : IsPrefix(mark, text)

Blank == {" ", "tab", "nl"}
White == {" ", "nl"}

Places(text) == DOMAIN text
\* Past the end there is a blank.
Next(text, i) == IF i < Len(text) THEN text[i + 1] ELSE "nl"
Prev(text, i) == IF i > 1 THEN text[i - 1] ELSE "nl"

(* ----------------------------- analyze_scalar ---------------------------- *)

LeadingIndicators == {"#", ",", "[", "]", "{", "}", "&", "*", "!", "|", ">", "quote", "%",
                      "@", "backquote"}

\* Indicators that a plain scalar must not hold, outside and inside "[]" and "{}".
BlockIndicators(text) ==
  \/ StartsAsMark(text)
  \/ text[1] \in LeadingIndicators
  \/ text[1] \in {"?", ":", "-"} /\ Next(text, 1) \in Blank
  \/ \E i \in Places(text) \ {1} : \/ text[i] = ":" /\ Next(text, i) \in Blank
                                   \/ text[i] = "#" /\ Prev(text, i) \in Blank
FlowIndicatorsIn(text) ==
  \/ BlockIndicators(text)
  \/ text[1] \in {"?", ":"}
  \/ \E i \in Places(text) \ {1} : text[i] \in {",", "?", "[", "]", "{", "}", ":"}

\* The longest runs of spaces and breaks.
Runs(text) ==
  {<<i, j>> \in Places(text) \X Places(text) :
     /\ i <= j /\ \A k \in i..j : text[k] \in White
     /\ i > 1 => text[i - 1] \notin White
     /\ j < Len(text) => text[j + 1] \notin White}
Made(text, run) == {text[k] : k \in run[1]..run[2]}
\* A break behind a space of the run.
Mixed(text, run) ==
  \E k, l \in run[1]..run[2] : k < l /\ text[k] = " " /\ text[l] = "nl"

Analyze(text) ==
  LET runs == Runs(text)
      leading == {run \in runs : run[1] = 1}
      trailing == {run \in runs : run[2] = Len(text)}
      inner == runs \ (leading \cup trailing)
      Of(kind, set) == \E run \in set : Made(text, run) = kind
      mixed == \/ Of(White, leading \cup trailing)
               \/ \E run \in inner : Mixed(text, run)
      breaksSpaces == \E run \in inner : Made(text, run) = White /\ ~Mixed(text, run)
      multiline == \E i \in Places(text) : text[i] = "nl"
      never == mixed \/ \E i \in Places(text) : text[i] = "tab"
      leads == Of({" "}, leading \cup trailing) \/ Of({"nl"}, leading)
      plain == ~leads /\ ~Of({"nl"}, trailing) /\ ~breaksSpaces /\ ~never /\ ~multiline
  IN IF text = <<>>
       THEN [multiline |-> FALSE, flowPlain |-> FALSE, blockPlain |-> TRUE,
             singleQuoted |-> TRUE, block |-> FALSE]
       ELSE [multiline |-> multiline,
             flowPlain |-> plain /\ ~FlowIndicatorsIn(text),
             blockPlain |-> plain /\ ~BlockIndicators(text),
             singleQuoted |-> ~breaksSpaces /\ ~never,
             block |-> ~leads /\ ~never]

(* ------------------------------- scan_plain ------------------------------ *)

\* check_plain
StartsPlain(text, flow) ==
  \/ text[1] \notin Blank \cup LeadingIndicators \cup {"-", "?", ":"}
  \/ /\ Next(text, 1) \notin Blank
     /\ text[1] = "-" \/ (~flow /\ text[1] \in {"?", ":"})

\* Where scan_plain stops before the end.
StopsPlain(text, i, flow) ==
  \/ text[i] = "#" /\ Prev(text, i) \in Blank
  \/ ~flow /\ text[i] = ":" /\ Next(text, i) \in Blank
  \/ flow /\ text[i] \in {",", ":", "?", "[", "]", "{", "}"}

\* The text, on a line of its own, is read as a plain scalar, all of it.
ScansPlain(text, flow) ==
  /\ StartsPlain(text, flow)
  /\ \A i \in Places(text) : text[i] \notin {"nl", "tab"} /\ ~StopsPlain(text, i, flow)
  /\ text[Len(text)] # " "
  /\ ~StartsAsMark(text)
=============================================================================

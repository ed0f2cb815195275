---------------------------- MODULE YamlScanner ----------------------------
(***************************************************************************)
(* yaml/scanner.py: text into tokens.  The text is a sequence of lexemes,  *)
(* what fetch_more_tokens dispatches on; the characters of each are        *)
(* abstracted, its place is not: columns are counted in cells, one lexeme  *)
(* of a line per cell.  What makes the scanner hard is kept whole: the     *)
(* indentation levels that make BLOCK-START and BLOCK-END tokens, and the  *)
(* possible simple keys, for which it reads ahead of the parser and puts   *)
(* KEY and BLOCK-MAPPING-START in front of tokens it already has.          *)
(*                                                                         *)
(* The state of the scanner is a record, so that each method of the class  *)
(* is an operator from state to state; an exception is the field "error".  *)
(***************************************************************************)
EXTENDS Integers, Sequences, SequencesExt, FiniteSetsExt, Functions

CONSTANTS
  MaxCol,   \* bound: the last cell in which a block collection may start
  MaxFlow,  \* bound: nesting of "[" and "{"
  Far       \* bound: tokens that stand for the 1024 characters of a simple key

ASSUME ScannerAssumption == MaxCol \in Nat /\ MaxFlow \in Nat /\ Far \in Nat \ {0}

Token(kind, text) == [kind |-> kind, text |-> text]
Mark(kind) == Token(kind, "")

\* __init__: STREAM-START is there, the scanner is at the start of a line.
\* "indents" has the current level on top; the key of a flow level is "at" the
\* place of its token in the queue (token_number - tokens_taken).
NewScanner ==
  [tokens |-> <<Mark("<stream>")>>, done |-> FALSE, flow |-> 0, indents |-> <<-1>>,
   allow |-> TRUE, keys |-> <<>>, kind |-> "other", newline |-> TRUE, col |-> 0,
   error |-> "none"]

Indent(s) == Last(s.indents)
Fail(s, what) == IF s.error = "none" THEN [s EXCEPT !.error = what] ELSE s
AddToken(s, token) == [s EXCEPT !.tokens = Append(@, token)]

(* ------------------------------ simple keys ----------------------------- *)

NextPossibleKey(s) == Min({s.keys[level].at : level \in DOMAIN s.keys})

NeedMore(s) ==
  ~s.done /\ (s.tokens = <<>> \/ (DOMAIN s.keys # {} /\ NextPossibleKey(s) = 0))

\* A required key that turns out to be none is an error.
DropKeys(s, levels) ==
  IF \E level \in levels : s.keys[level].required
    THEN Fail(s, "no ':'")
    ELSE [s EXCEPT !.keys = Restrict(@, DOMAIN @ \ levels)]

RemoveKey(s) == DropKeys(s, DOMAIN s.keys \cap {s.flow})
\* stale_possible_simple_keys, once the line has changed.
DropAll(s) == DropKeys(s, DOMAIN s.keys)
\* ... and on the same line, by distance.
DropFar(s) == DropKeys(s, {level \in DOMAIN s.keys :
                             Len(s.tokens) - s.keys[level].at > Far})

SaveKey(s, col) ==
  LET required == s.flow = 0 /\ Indent(s) = col
      key == [at |-> Len(s.tokens), required |-> required, col |-> col]
  IN IF required /\ ~s.allow THEN Fail(s, "scanner assert")
     ELSE IF s.allow THEN [RemoveKey(s) EXCEPT !.keys =
            [level \in DOMAIN @ \cup {s.flow} |-> IF level = s.flow THEN key ELSE @[level]]]
     ELSE s

(* ------------------------------ indentation ----------------------------- *)

\* Back to the innermost level that is not beyond the column.
Unwind(s, col) ==
  LET stack == s.indents
      keep == Max({i \in 1..Len(stack) : stack[i] <= col})
  IN IF s.flow # 0 THEN s
     ELSE [s EXCEPT !.indents = SubSeq(stack, 1, keep),
                    !.tokens = @ \o [i \in 1..(Len(stack) - keep) |-> Mark("<end>")]]

\* add_indent, and the BLOCK-START token at place "at" when it says so.
AddIndent(s, col, at, start) ==
  IF s.flow = 0 /\ Indent(s) < col
    THEN [s EXCEPT !.indents = Append(@, col), !.tokens = InsertAt(@, at + 1, Mark(start))]
    ELSE s

(* -------------------------------- lexemes ------------------------------- *)

\* break: what is between it and the one before ("none": at most spaces);
\* ends: where its scan ends ("line": on the line it began, "wrapped": on a
\* later line, or more than 1024 characters on; "newline": past a line break).
Lexeme(kind, text, break, col, ends, end) ==
  [kind |-> kind, text |-> text, break |-> break, col |-> col, ends |-> ends,
   end |-> end]

FlowIndicators == {",", "?", ":", "[", "]", "{", "}"}

\* check_directive, check_document_start, check_document_end, the indicators of
\* block scalars, and what scan_plain takes for a part of the scalar before.
CanFollow(s, lex) ==
  /\ lex.kind \in {"%", "---", "..."} => lex.col = 0 /\ lex.break # "none"
  /\ lex.kind = "block" => s.flow = 0
  /\ s.newline => lex.break = "line"
  /\ s.kind = "%" => lex.break # "none"
  /\ s.kind = "plain" =>
       IF ~s.newline
         THEN \/ lex.break = "comment"
              \/ /\ lex.break = "none"
                 /\ lex.kind \in {"eof"} \cup (IF s.flow = 0 THEN {":"} ELSE FlowIndicators)
         ELSE \/ lex.kind \in {"eof", "---", "..."}
              \/ lex.kind \in (IF s.flow = 0 THEN {":"} ELSE FlowIndicators)
              \/ s.flow = 0 /\ lex.col <= Indent(s)

(* --------------------------------- scans -------------------------------- *)

\* What a scan that begins in cell "col" may find: the text of its token, and
\* where it ends.  The characters are free, and what is malformed is a lexeme of
\* the kind "bad", so each scan is a set of outcomes.
SameLine(col) == {<<"line", Min({col + 1, MaxCol + 1})>>}
LaterLine == {"wrapped"} \X (1..MaxCol)

\* A directive or a tag bears one of the names, or (!!, !<uri>, an unknown
\* directive) none that matters.
ScanDirective(col, names) == (names \cup {""}) \X SameLine(col)
ScanTag(col, names) == (names \cup {""}) \X SameLine(col)
ScanAnchor(col) == {""} \X SameLine(col)
\* The chomped breaks belong to a block scalar, the next token starts a line.
ScanBlockScalar == {"t"} \X {<<"newline", 0>>}
\* Quotes may be closed on a later line, which scan_flow_scalar_spaces joins.
ScanFlowScalar(col) == {"t"} \X (SameLine(col) \cup LaterLine)
\* scan_plain_spaces has read the breaks after a plain scalar before it is known
\* that the scalar does not go on.
ScanPlain(col) == {"t"} \X (SameLine(col) \cup LaterLine \cup {<<"newline", 0>>})

Scan(kind, col, names) ==
  CASE kind = "%"      -> ScanDirective(col, names)
    [] kind = "!"      -> ScanTag(col, names)
    [] kind \in {"&", "*"} -> ScanAnchor(col)
    [] kind = "block"  -> ScanBlockScalar
    [] kind = "quoted" -> ScanFlowScalar(col)
    [] kind = "plain"  -> ScanPlain(col)
    [] OTHER           -> {""} \X SameLine(col)

(* ------------------------------- fetchers ------------------------------- *)

FetchStreamEnd(s) ==
  [AddToken([Unwind(s, -1) EXCEPT !.allow = FALSE, !.keys = <<>>], Mark("</stream>"))
     EXCEPT !.done = TRUE]

\* fetch_directive and fetch_document_indicator
FetchDocument(s, token) ==
  AddToken([RemoveKey(Unwind(s, -1)) EXCEPT !.allow = FALSE], token)

FetchFlowStart(s, kind, col) ==
  AddToken([SaveKey(s, col) EXCEPT !.flow = @ + 1, !.allow = TRUE], Mark(kind))

\* Variant: the possible key of the level that ends is kept.
FlowEndKeepsKey(s, kind) ==
  AddToken([s EXCEPT !.flow = @ - 1, !.allow = FALSE], Mark(kind))

FetchFlowEnd(s, kind) ==
  AddToken([RemoveKey(s) EXCEPT !.flow = @ - 1, !.allow = FALSE], Mark(kind))

FetchFlowEntry(s) == AddToken(RemoveKey([s EXCEPT !.allow = TRUE]), Mark(","))

\* fetch_block_entry, fetch_key, and the second half of fetch_value
FetchIndicator(s, kind, col, start, allow) ==
  LET begun == AddIndent(s, col, Len(s.tokens), start)
  IN IF s.flow = 0 /\ ~s.allow THEN Fail(s, "not allowed here")
     ELSE AddToken(RemoveKey([begun EXCEPT !.allow = allow]), Mark(kind))

FetchBlockEntry(s, col) == FetchIndicator(s, "-", col, "<seq>", TRUE)
FetchKey(s, col) == FetchIndicator(s, "?", col, "<map>", s.flow = 0)

FetchValue(s, col) ==
  IF s.flow \in DOMAIN s.keys
    THEN LET key == s.keys[s.flow]
             found == [s EXCEPT !.keys = Restrict(@, DOMAIN @ \ {s.flow}),
                                !.tokens = InsertAt(@, key.at + 1, Mark("?")),
                                !.allow = FALSE]
         IN AddToken(AddIndent(found, key.col, key.at, "<map>"), Mark(":"))
    ELSE FetchIndicator(s, ":", col, "<map>", s.flow = 0)

\* fetch_alias, fetch_anchor, fetch_tag, fetch_flow_scalar, fetch_plain
FetchNode(s, col, token) ==
  AddToken([SaveKey(s, col) EXCEPT !.allow = FALSE], token)

FetchBlockScalar(s, token) == AddToken(RemoveKey([s EXCEPT !.allow = TRUE]), token)

Fetch(s, lex) ==
  CASE lex.kind = "eof"                  -> FetchStreamEnd(s)
    [] lex.kind \in {"%", "---", "..."}  -> FetchDocument(s, Token(lex.kind, lex.text))
    [] lex.kind \in {"[", "{"}           -> FetchFlowStart(s, lex.kind, lex.col)
    [] lex.kind \in {"]", "}"}           -> FetchFlowEnd(s, lex.kind)
    [] lex.kind = ","                    -> FetchFlowEntry(s)
    [] lex.kind = "-"                    -> FetchBlockEntry(s, lex.col)
    [] lex.kind = "?"                    -> FetchKey(s, lex.col)
    [] lex.kind = ":"                    -> FetchValue(s, lex.col)
    [] lex.kind \in {"&", "*", "!"}      -> FetchNode(s, lex.col, Token(lex.kind, lex.text))
    [] lex.kind = "plain"                -> FetchNode(s, lex.col, Token("plain", lex.text))
    [] lex.kind = "quoted"               -> FetchNode(s, lex.col, Token("scalar", lex.text))
    [] lex.kind = "block"                -> FetchBlockScalar(s, Token("scalar", lex.text))
    [] OTHER                             -> Fail(s, "bad lexeme")

(* --------------------------- fetch_more_tokens --------------------------- *)

\* scan_to_next_token: a line break allows a simple key, in block context or
\* (scan_plain_spaces) after a plain scalar; then the staleness of the keys and
\* the indentation.
Arrive(s, lex) ==
  LET here == IF lex.break = "none" THEN s
              ELSE DropAll([s EXCEPT !.allow = @ \/ s.flow = 0])
  IN Unwind(here, lex.col)

\* Where the scan of the lexeme ends, and the staleness that the next
\* need_more_tokens finds.
Depart(s, lex) ==
  LET newline == lex.ends = "newline"
      there == [s EXCEPT !.kind = IF lex.kind \in {"plain", "%"} THEN lex.kind ELSE "other",
                         !.newline = newline, !.col = lex.end,
                         !.allow = @ \/ (lex.kind = "plain" /\ newline)]
  IN IF s.done THEN there
     ELSE IF lex.ends = "line" THEN DropFar(there) ELSE DropAll(there)

FetchMore(s, lex) ==
  LET t == Depart(Fetch(Arrive(s, lex), lex), lex)
  IN IF t.error = "none" THEN t ELSE [NewScanner EXCEPT !.error = t.error]
=============================================================================

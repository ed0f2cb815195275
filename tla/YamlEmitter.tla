---------------------------- MODULE YamlEmitter ----------------------------
(***************************************************************************)
(* yaml/emitter.py: events into text.  As in YamlScanner the text is a     *)
(* sequence of lexemes and the state of the class a record; columns are    *)
(* characters here, beyond Width all the same.  The emitter looks ahead in *)
(* its queue of events before it starts a document or a collection, keeps  *)
(* a stack of what to expect, and decides for every lexeme whether a line  *)
(* break or a space goes before it.                                        *)
(*                                                                         *)
(* An event has the tag of its node and the pair of booleans "implicit"    *)
(* that Serializer.serialize_node gives it: whether the tag is found again *)
(* when the scalar is written plain, and when it is written quoted.        *)
(***************************************************************************)
EXTENDS Integers, Sequences, SequencesExt, FiniteSetsExt

CONSTANTS
  Width,      \* best_width
  Analysis,   \* analyze_scalar: what it finds out about each text
  KeyLimit,   \* the 128 characters that a simple key must stay below
  NameWidth,  \* characters of each anchor, and of each tag as prepare_tag writes it
  Shorthand   \* tag -> handle: the %TAG directive that abbreviates it

BestIndent == 2
None == -1

NewEmitter(canonical) ==
  [state |-> "stream_start", states |-> <<>>, queue |-> <<>>, indents |-> <<None>>,
   flow |-> 0, mapping |-> FALSE, simple |-> FALSE, col |-> 0, whitespace |-> TRUE,
   indention |-> TRUE, broke |-> TRUE, text |-> <<>>, canonical |-> canonical,
   handles |-> {}, error |-> FALSE]

(* ------------------------------- lookahead ------------------------------ *)

Depth == [type \in {"DocumentStart", "SequenceStart", "MappingStart"} |-> 1]
         @@ [type \in {"DocumentEnd", "SequenceEnd", "MappingEnd"} |-> -1]
Level(events) ==
  FoldLeft(LAMBDA level, ev : IF ev.type \in DOMAIN Depth THEN level + Depth[ev.type]
                              ELSE level, 0, events)

\* need_events: count events after the first, or the end of what it starts.
NeedEvents(queue, count) ==
  LET rest == Tail(queue)
  IN /\ \A n \in 1..Len(rest) : /\ Level(SubSeq(rest, 1, n)) >= 0
                               /\ rest[n].type # "StreamEnd"
     /\ Len(queue) < count + 1

NeedMoreEvents(e) ==
  e.queue # <<>> =>
     LET first == Head(e.queue).type
     IN \/ first = "DocumentStart" /\ NeedEvents(e.queue, 1)
        \/ first = "SequenceStart" /\ NeedEvents(e.queue, 2)
        \/ first = "MappingStart" /\ NeedEvents(e.queue, 3)

(* -------------------------------- writers ------------------------------- *)

Cap(col) == Min({col, Width + 1})
IndentOf(e) == Last(e.indents)

IncreaseIndent(e, flow, indentless) ==
  LET indent == IndentOf(e)
  IN [e EXCEPT !.indents = Append(@,
        IF indent = None THEN (IF flow THEN BestIndent ELSE 0)
        ELSE IF indentless THEN indent ELSE indent + BestIndent)]
DecreaseIndent(e) == [e EXCEPT !.indents = Front(@)]

LineBreak(e) ==
  [e EXCEPT !.col = 0, !.whitespace = TRUE, !.indention = TRUE, !.broke = TRUE]

WriteIndent(e) ==
  LET indent == Max({IndentOf(e), 0})
      line == IF \/ ~e.indention \/ e.col > indent
                 \/ e.col = indent /\ ~e.whitespace
              THEN LineBreak(e) ELSE e
  IN IF line.col < indent THEN [line EXCEPT !.col = indent, !.whitespace = TRUE] ELSE line

\* A lexeme of the text, with a space before it where one is needed.  One that
\* is wrapped goes on in column "on" of a later line.
Put(e, kind, text, width, spaced) ==
  LET at == Cap(IF spaced /\ ~e.whitespace THEN e.col + 1 ELSE e.col)
      lex == [kind |-> kind, text |-> text, break |-> IF e.broke THEN "line" ELSE "none",
              col |-> at, ends |-> "line", on |-> 0]
  IN [e EXCEPT !.text = Append(@, lex), !.col = Cap(at + width), !.broke = FALSE]

WriteIndicator(e, kind, text, width, spaced, whitespace, indention) ==
  [Put(e, kind, text, width, spaced)
     EXCEPT !.whitespace = whitespace, !.indention = e.indention /\ indention]
Indicator(e, kind, spaced) == WriteIndicator(e, kind, "", 1, spaced, FALSE, FALSE)

\* Characters that are written as two: a quote is doubled in single quotes, and
\* what double quotes escape gets a backslash ("quote" stands for the quote of
\* either kind, "tab" for escapes of any length).
Doubled == {"quote"}
Escaped == {"quote", "nl", "tab"}

\* The scalar that is being written goes on at the indent of the next line.
Wrap(e) ==
  LET there == WriteIndent(e)
      last == Len(e.text)
  IN [there EXCEPT !.broke = FALSE, !.text[last].ends = "wrapped",
                   !.text[last].on = there.col]

\* A single space between other characters.
Lone(chars, p) ==
  /\ 1 < p /\ p < Len(chars) /\ chars[p] = " "
  /\ chars[p - 1] # " " /\ chars[p + 1] # " "

\* Variant: keys are folded too.
FoldsKeys(e, chars, p) ==
  IF chars[p] = "nl" \/ (Lone(chars, p) /\ e.col > Width)
    THEN Wrap(e)
    ELSE [e EXCEPT !.col = Cap(@ + IF chars[p] \in Doubled THEN 2 ELSE 1)]

\* write_plain, write_single_quoted: a line break in the text is one in the
\* scalar; beyond best_width, but for a simple key (not split), so is a lone space.
FoldedChar(e, chars, p) ==
  IF chars[p] = "nl" \/ (Lone(chars, p) /\ e.col > Width /\ ~e.simple)
    THEN Wrap(e)
    ELSE [e EXCEPT !.col = Cap(@ + IF chars[p] \in Doubled THEN 2 ELSE 1)]

\* write_plain resets "writespace", an attribute of no other use: the flag
\* "whitespace" stays as it was, or as the last fold left it.
WritePlain(e, text) ==
  LET chars == Analysis[text].chars
      Char(at, p) == [FoldedChar(at, chars, p) EXCEPT !.indention = FALSE]
      put == [Put(e, "plain", text, 0, TRUE) EXCEPT !.indention = FALSE]
  IN IF text = "" THEN e ELSE FoldLeftDomain(Char, put, chars)

Quote(e) == [e EXCEPT !.col = Cap(@ + 1), !.whitespace = FALSE, !.indention = FALSE]
OpenQuote(e, text) == Quote(Put(e, "quoted", text, 0, TRUE))

WriteSingleQuoted(e, text) ==
  LET chars == Analysis[text].chars
      Char(at, p) == FoldedChar(at, chars, p)
  IN Quote(FoldLeftDomain(Char, OpenQuote(e, text), chars))

\* write_double_quoted may fold at a space and next to an escape, neither before
\* the first character nor next to the last: a backslash ends the line, another
\* one keeps a space that begins the next.
WriteDoubleQuoted(e, text) ==
  LET chars == Analysis[text].chars
      Char(at, p) ==
        LET escaped == chars[p] \in Escaped
            folds == /\ 1 < p /\ p < Len(chars) /\ ~e.simple
                     /\ escaped \/ chars[p] = " " \/ chars[p - 1] \in Escaped
                     /\ at.col + (IF escaped THEN 1 ELSE 0) > Width
            first == IF escaped THEN chars[p + 1] ELSE chars[p]
            there == [Wrap(at) EXCEPT !.whitespace = FALSE, !.indention = FALSE,
                                      !.col = @ + IF first = " " THEN 1 ELSE 0]
            width == IF escaped THEN 2 ELSE 1
        IN IF folds THEN [there EXCEPT !.col = Cap(@ + IF escaped THEN 0 ELSE 1)]
                    ELSE [at EXCEPT !.col = Cap(@ + width)]
  IN Quote(FoldLeftDomain(Char, OpenQuote(e, text), chars))

\* write_literal and write_folded end at the start of a line; their lines, those
\* that write_folded makes too, are inside of the lexeme.
WriteBlock(e, text) ==
  LET put == Put(e, "block", text, 1, TRUE)
  IN LineBreak([put EXCEPT !.text[Len(put.text)].ends = "newline"])

(* ------------------------------ looking at events ----------------------- *)

NextIs(e, type) == e.queue # <<>> /\ Head(e.queue).type = type
EmptyCollection(e, ev) ==
  \/ ev.type = "SequenceStart" /\ NextIs(e, "SequenceEnd")
  \/ ev.type = "MappingStart" /\ NextIs(e, "MappingEnd")

\* check_empty_document
EmptyDocument(e) ==
  /\ NextIs(e, "Scalar")
  /\ LET root == Head(e.queue) IN root.anchor = "none" /\ root.tag = "none" /\ root.text = ""

\* prepare_tag: by the handle that the document has declared for it, if any.
PrepareTag(e, tag) ==
  IF tag \in DOMAIN Shorthand /\ Shorthand[tag] \in e.handles THEN Shorthand[tag] ELSE tag

\* check_simple_key: anchor, tag (also one that will not be written) and text
\* together.
KeyLength(e, ev) ==
  (IF ev.anchor = "none" THEN 0 ELSE NameWidth[ev.anchor])
  + (IF ev.tag = "none" THEN 0 ELSE NameWidth[PrepareTag(e, ev.tag)])
  + (IF ev.type = "Scalar" THEN Len(Analysis[ev.text].chars) ELSE 0)
SimpleKey(e, ev) ==
  /\ KeyLength(e, ev) < KeyLimit
  /\ \/ ev.type = "Alias"
     \/ EmptyCollection(e, ev)
     \/ ev.type = "Scalar" /\ ev.text # "" /\ ~Analysis[ev.text].multiline

\* choose_scalar_style
Style(e, ev) ==
  LET a == Analysis[ev.text]
      bad == e.simple /\ (ev.text = "" \/ a.multiline)
  IN IF e.canonical \/ ev.style = "double" THEN "double"
     ELSE IF /\ ev.style = "none" /\ ev.implicit[1] /\ ~bad
             /\ IF e.flow > 0 THEN a.flowPlain ELSE a.blockPlain
            THEN "plain"
     ELSE IF ev.style = "block" /\ e.flow = 0 /\ ~e.simple /\ a.block THEN "block"
     ELSE IF ev.style # "block" /\ a.singleQuoted /\ ~(e.simple /\ a.multiline) THEN "single"
     ELSE "double"

\* process_anchor
Anchor(e, kind, name) ==
  IF name = "none" THEN e
  ELSE WriteIndicator(e, kind, name, NameWidth[name] + 1, TRUE, FALSE, FALSE)

\* process_tag: the tag is left out where reading the text finds it again.
Tag(e, ev) ==
  LET found == IF ev.type = "Scalar"
                 THEN ev.implicit[IF Style(e, ev) = "plain" THEN 1 ELSE 2]
                 ELSE ev.implicit[1]
  IN IF found /\ (~e.canonical \/ ev.tag = "none") THEN e
     ELSE IF ev.tag = "none" THEN [e EXCEPT !.error = TRUE]
     ELSE LET written == PrepareTag(e, ev.tag)
          IN WriteIndicator(e, "!", written, NameWidth[written], TRUE, FALSE, FALSE)

(* -------------------------------- handlers ------------------------------ *)

Goto(e, state) == [e EXCEPT !.state = state]
Push(e, state) == [e EXCEPT !.states = Append(@, state)]
Pop(e) == [e EXCEPT !.state = Last(e.states), !.states = Front(@)]

\* expect_scalar and process_scalar
Scalar(e, ev) ==
  LET style == Style(e, ev)
      inner == IncreaseIndent(Tag(e, ev), TRUE, FALSE)
      written == CASE style = "plain"  -> WritePlain(inner, ev.text)
                   [] style = "single" -> WriteSingleQuoted(inner, ev.text)
                   [] style = "double" -> WriteDoubleQuoted(inner, ev.text)
                   [] style = "block"  -> WriteBlock(inner, ev.text)
  IN Pop(DecreaseIndent(written))

FlowStart(e, kind, state) ==
  Goto(IncreaseIndent([WriteIndicator(e, kind, "", 1, TRUE, TRUE, FALSE) EXCEPT !.flow = @ + 1],
                      TRUE, FALSE), state)

\* expect_block_sequence: in a mapping the items may stand below their key.
BlockSequence(e) ==
  Goto(IncreaseIndent(e, FALSE, e.mapping /\ ~e.indention), "first_block_sequence_item")

\* expect_node
Node(e, ev, mapping, simple) ==
  LET here == [e EXCEPT !.mapping = mapping, !.simple = simple]
      named == Anchor(here, "&", ev.anchor)
      flow == e.flow > 0 \/ e.canonical \/ ev.flow \/ EmptyCollection(e, ev)
      tagged == Tag(named, ev)
  IN CASE ev.type = "Alias"  -> Pop(Anchor(here, "*", ev.anchor))
       [] ev.type = "Scalar" -> Scalar(named, ev)
       [] ev.type = "SequenceStart" ->
            IF flow THEN FlowStart(tagged, "[", "first_flow_sequence_item")
                    ELSE BlockSequence(tagged)
       [] ev.type = "MappingStart" ->
            IF flow THEN FlowStart(tagged, "{", "first_flow_mapping_key")
                    ELSE Goto(IncreaseIndent(tagged, FALSE, FALSE), "first_block_mapping_key")
       [] OTHER -> [e EXCEPT !.error = TRUE]

\* Between the entries of a flow collection.
FlowBreak(e) == IF e.canonical \/ e.col > Width THEN WriteIndent(e) ELSE e

FlowEnd(e, kind, first) ==
  LET outer == [DecreaseIndent(e) EXCEPT !.flow = @ - 1]
      last == IF e.canonical /\ ~first THEN WriteIndent(Indicator(outer, ",", FALSE)) ELSE outer
  IN Pop(Indicator(last, kind, FALSE))

FlowSequenceItem(e, ev, first) ==
  IF ev.type = "SequenceEnd" THEN FlowEnd(e, "]", first)
  ELSE LET there == FlowBreak(IF first THEN e ELSE Indicator(e, ",", FALSE))
       IN Node(Push(there, "flow_sequence_item"), ev, FALSE, FALSE)

FlowMappingKey(e, ev, first) ==
  IF ev.type = "MappingEnd" THEN FlowEnd(e, "}", first)
  ELSE LET there == FlowBreak(IF first THEN e ELSE Indicator(e, ",", FALSE))
       IN IF ~e.canonical /\ SimpleKey(e, ev)
            THEN Node(Push(there, "flow_mapping_simple_value"), ev, TRUE, TRUE)
            ELSE Node(Push(Indicator(there, "?", TRUE), "flow_mapping_value"), ev, TRUE, FALSE)

BlockIndicator(e, kind) ==
  WriteIndicator(WriteIndent(e), kind, "", 1, TRUE, FALSE, TRUE)

BlockSequenceItem(e, ev, first) ==
  IF ~first /\ ev.type = "SequenceEnd" THEN Pop(DecreaseIndent(e))
  ELSE Node(Push(BlockIndicator(e, "-"), "block_sequence_item"), ev, FALSE, FALSE)

BlockMappingKey(e, ev, first) ==
  IF ~first /\ ev.type = "MappingEnd" THEN Pop(DecreaseIndent(e))
  ELSE IF SimpleKey(e, ev)
    THEN Node(Push(WriteIndent(e), "block_mapping_simple_value"), ev, TRUE, TRUE)
    ELSE Node(Push(BlockIndicator(e, "?"), "block_mapping_value"), ev, TRUE, FALSE)

\* write_version_directive, write_tag_directive
Directive(e, name) == LineBreak(Put(e, "%", name, 1, FALSE))

\* The handles of the document before are forgotten; any directive makes the
\* start explicit.
DocumentStart(e, ev, first) ==
  LET versioned == IF ev.version THEN Directive(e, "YAML") ELSE e
      declared == FoldLeft(Directive, [versioned EXCEPT !.handles = ev.handles],
                           SetToSeq(ev.handles))
      implicit == /\ first /\ ~ev.explicit /\ ~e.canonical
                  /\ ~ev.version /\ ev.handles = {} /\ ~EmptyDocument(e)
      begun == Indicator(WriteIndent(declared), "---", TRUE)
  IN CASE ev.type = "DocumentStart" ->
            Goto(IF implicit THEN declared
                 ELSE IF e.canonical THEN WriteIndent(begun) ELSE begun,
                 "document_root")
       [] ev.type = "StreamEnd" ->
            Goto(Put(e, "eof", "", 0, FALSE), "nothing")
       [] OTHER -> [e EXCEPT !.error = TRUE]

DocumentEnd(e, ev) ==
  LET ended == WriteIndent(e)
  IN IF ev.type # "DocumentEnd" THEN [e EXCEPT !.error = TRUE]
     ELSE Goto(IF ev.explicit THEN WriteIndent(Indicator(ended, "...", TRUE)) ELSE ended,
               "document_start")

Handle(e, ev) ==
  CASE e.state = "stream_start"   -> Goto(e, "first_document_start")
    [] e.state = "first_document_start" -> DocumentStart(e, ev, TRUE)
    [] e.state = "document_start" -> DocumentStart(e, ev, FALSE)
    [] e.state = "document_root"  -> Node(Push(e, "document_end"), ev, FALSE, FALSE)
    [] e.state = "document_end"   -> DocumentEnd(e, ev)
    [] e.state = "first_flow_sequence_item" -> FlowSequenceItem(e, ev, TRUE)
    [] e.state = "flow_sequence_item"       -> FlowSequenceItem(e, ev, FALSE)
    [] e.state = "first_flow_mapping_key"   -> FlowMappingKey(e, ev, TRUE)
    [] e.state = "flow_mapping_key"         -> FlowMappingKey(e, ev, FALSE)
    [] e.state = "flow_mapping_simple_value" ->
         Node(Push(Indicator(e, ":", FALSE), "flow_mapping_key"), ev, TRUE, FALSE)
    [] e.state = "flow_mapping_value" ->
         Node(Push(Indicator(FlowBreak(e), ":", TRUE), "flow_mapping_key"), ev, TRUE, FALSE)
    [] e.state = "first_block_sequence_item" -> BlockSequenceItem(e, ev, TRUE)
    [] e.state = "block_sequence_item"       -> BlockSequenceItem(e, ev, FALSE)
    [] e.state = "first_block_mapping_key"   -> BlockMappingKey(e, ev, TRUE)
    [] e.state = "block_mapping_key"         -> BlockMappingKey(e, ev, FALSE)
    [] e.state = "block_mapping_simple_value" ->
         Node(Push(Indicator(e, ":", FALSE), "block_mapping_key"), ev, TRUE, FALSE)
    [] e.state = "block_mapping_value" ->
         Node(Push(BlockIndicator(e, ":"), "block_mapping_key"), ev, TRUE, FALSE)
    [] OTHER -> [e EXCEPT !.error = TRUE]

\* One turn of the loop of emit.
EmitNext(e) == Handle([e EXCEPT !.queue = Tail(@)], Head(e.queue))
Emit(e, ev) == [e EXCEPT !.queue = Append(@, ev)]
=============================================================================

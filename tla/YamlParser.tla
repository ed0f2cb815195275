----------------------------- MODULE YamlParser -----------------------------
(***************************************************************************)
(* yaml/parser.py on top of yaml/scanner.py.  The parser is a table of     *)
(* rows: where it is, the next token, what it does.  "pos" is the method   *)
(* that self.state names, or a place inside a method, behind a get_token   *)
(* ("method:place"), because the scanner may have to read on before the    *)
(* token after it can be looked at.                                        *)
(***************************************************************************)
EXTENDS YamlScanner

CONSTANTS
  Text,  \* bound: the kinds of lexeme the text is made of
  Names, \* what names a tag or directive may bear
  Reader(_, _), \* what the reader of the events keeps of one more of them
  Nothing       \* what it has at first

VARIABLES
  scanner,  \* state of the scanner
  pos,      \* self.state, or a place in a method
  states,   \* self.states
  marks,    \* Len(self.marks)
  props,    \* anchor and tag of the node being parsed
  handles,  \* self.tag_handles beyond the default ones, and "YAML" for yaml_version
  failed,   \* the exception that ended the parse
  reader,   \* what the reader of the events has of them
  open      \* history: what the events so far have opened (see Opened)

pvars == <<pos, states, marks, props, handles, failed, reader, open>>
vars == <<scanner, pvars>>

Events == INSTANCE YamlEvents
NoProps == [anchor |-> "none", tag |-> "none"]
\* plain: whether the tag of a scalar is to be found from its text (implicit[0]).
Event(type, with, text, plain) ==
  [type |-> type, anchor |-> with.anchor, tag |-> with.tag, text |-> text, plain |-> plain]

Kinds == {"<stream>", "</stream>", "<seq>", "<map>", "<end>", "%", "---", "...", "[", "]",
          "{", "}", ",", "-", "?", ":", "*", "&", "!", "scalar", "plain"}
But(kinds) == Kinds \ kinds

(* --------------------------------- rows --------------------------------- *)

\* take: get_token; emit: type of the event made; push: onto states; to: the
\* next position, or "pop" for states.pop(); mark: change of Len(marks).
Row(at, on, take, emit, push, to, mark) ==
  [at |-> at, on |-> on, take |-> take, emit |-> emit, push |-> push, to |-> to,
   mark |-> mark]

\* Variant: peek_token where get_token is meant.
Peek(at, on, to) == Row(at, on, FALSE, "none", "none", to, 0)
Take(at, on, to) == Row(at, on, TRUE, "none", "none", to, 0)
Go(at, on, to) == Row(at, on, FALSE, "none", "none", to, 0)
Node(at, on, back, to) == Row(at, on, FALSE, "none", back, to, 0)
Empty(at, on, to) == Row(at, on, FALSE, "Empty", "none", to, 0)
Begin(at, to) == Row(at, Kinds, TRUE, "none", "none", to, 1)
\* Variant: the mark of the collection stays.
FinishKeepsMark(at, on, type) == Row(at, {on}, TRUE, type, "none", "pop", 0)
\* Variant: every collection ends as a sequence does.
FinishSequence(at, on, type) == Row(at, {on}, TRUE, "SequenceEnd", "none", "pop", -1)
Finish(at, on, type) == Row(at, {on}, TRUE, type, "none", "pop", -1)

DocumentRows == {
  Row("stream_start", Kinds, TRUE, "StreamStart", "none", "implicit_document_start", 0),
  Row("implicit_document_start", But({"%", "---", "</stream>"}), FALSE, "DocumentStart",
      "document_end", "block_node", 0),
  Go("implicit_document_start", {"%", "---", "</stream>"}, "document_start"),
  Take("document_start", {"..."}, "document_start"),
  Row("document_start", {"</stream>"}, TRUE, "StreamEnd", "none", "none", 0),
  Go("document_start", But({"...", "</stream>"}), "directives"),
  Row("directives", {"---"}, TRUE, "DocumentStart", "document_end", "document_content", 0),
  Empty("document_content", {"%", "---", "...", "</stream>"}, "pop"),
  Go("document_content", But({"%", "---", "...", "</stream>"}), "block_node"),
  Row("document_end", {"..."}, TRUE, "DocumentEnd", "none", "document_start", 0),
  Row("document_end", But({"..."}), FALSE, "DocumentEnd", "none", "document_start", 0)}

BlockSequenceRows == {
  Begin("block_sequence_first_entry", "block_sequence_entry"),
  Take("block_sequence_entry", {"-"}, "block_sequence_entry:item"),
  Finish("block_sequence_entry", "<end>", "SequenceEnd"),
  Empty("block_sequence_entry:item", {"-", "<end>"}, "block_sequence_entry"),
  Node("block_sequence_entry:item", But({"-", "<end>"}), "block_sequence_entry", "block_node"),
  Take("indentless_sequence_entry", {"-"}, "indentless_sequence_entry:item"),
  Row("indentless_sequence_entry", But({"-"}), FALSE, "SequenceEnd", "none", "pop", 0),
  Empty("indentless_sequence_entry:item", {"-", "?", ":", "<end>"},
        "indentless_sequence_entry"),
  Node("indentless_sequence_entry:item", But({"-", "?", ":", "<end>"}),
       "indentless_sequence_entry", "block_node")}

BlockMappingRows == {
  Begin("block_mapping_first_key", "block_mapping_key"),
  Take("block_mapping_key", {"?"}, "block_mapping_key:node"),
  Finish("block_mapping_key", "<end>", "MappingEnd"),
  Empty("block_mapping_key:node", {"?", ":", "<end>"}, "block_mapping_value"),
  Node("block_mapping_key:node", But({"?", ":", "<end>"}), "block_mapping_value",
       "block_node_or_indentless_sequence"),
  Take("block_mapping_value", {":"}, "block_mapping_value:node"),
  Empty("block_mapping_value", But({":"}), "block_mapping_key"),
  Empty("block_mapping_value:node", {"?", ":", "<end>"}, "block_mapping_key"),
  Node("block_mapping_value:node", But({"?", ":", "<end>"}), "block_mapping_key",
       "block_node_or_indentless_sequence")}

FlowSequenceRows == {
  Begin("flow_sequence_first_entry", "flow_sequence_entry:item"),
  Finish("flow_sequence_entry", "]", "SequenceEnd"),
  Take("flow_sequence_entry", {","}, "flow_sequence_entry:item"),
  Finish("flow_sequence_entry:item", "]", "SequenceEnd"),
  Row("flow_sequence_entry:item", {"?"}, FALSE, "MappingStart", "none",
      "flow_sequence_entry_mapping_key", 0),
  Node("flow_sequence_entry:item", But({"]", "?"}), "flow_sequence_entry", "flow_node"),
  Take("flow_sequence_entry_mapping_key", Kinds, "flow_sequence_entry_mapping_key:node"),
  Empty("flow_sequence_entry_mapping_key:node", {":", ",", "]"},
        "flow_sequence_entry_mapping_value"),
  Node("flow_sequence_entry_mapping_key:node", But({":", ",", "]"}),
       "flow_sequence_entry_mapping_value", "flow_node"),
  Take("flow_sequence_entry_mapping_value", {":"}, "flow_sequence_entry_mapping_value:node"),
  Empty("flow_sequence_entry_mapping_value", But({":"}), "flow_sequence_entry_mapping_end"),
  Empty("flow_sequence_entry_mapping_value:node", {",", "]"},
        "flow_sequence_entry_mapping_end"),
  Node("flow_sequence_entry_mapping_value:node", But({",", "]"}),
       "flow_sequence_entry_mapping_end", "flow_node"),
  Row("flow_sequence_entry_mapping_end", Kinds, FALSE, "MappingEnd", "none",
      "flow_sequence_entry", 0)}

FlowMappingRows == {
  Begin("flow_mapping_first_key", "flow_mapping_key:item"),
  Finish("flow_mapping_key", "}", "MappingEnd"),
  Take("flow_mapping_key", {","}, "flow_mapping_key:item"),
  Finish("flow_mapping_key:item", "}", "MappingEnd"),
  Take("flow_mapping_key:item", {"?"}, "flow_mapping_key:node"),
  Node("flow_mapping_key:item", But({"}", "?"}), "flow_mapping_empty_value", "flow_node"),
  Empty("flow_mapping_key:node", {":", ",", "}"}, "flow_mapping_value"),
  Node("flow_mapping_key:node", But({":", ",", "}"}), "flow_mapping_value", "flow_node"),
  Take("flow_mapping_value", {":"}, "flow_mapping_value:node"),
  Empty("flow_mapping_value", But({":"}), "flow_mapping_key"),
  Empty("flow_mapping_value:node", {",", "}"}, "flow_mapping_key"),
  Node("flow_mapping_value:node", But({",", "}"}), "flow_mapping_key", "flow_node"),
  Empty("flow_mapping_empty_value", Kinds, "flow_mapping_key")}

Rows == DocumentRows \cup BlockSequenceRows \cup BlockMappingRows
        \cup FlowSequenceRows \cup FlowMappingRows
RowsAt == [at \in {row.at : row \in Rows} |-> {row \in Rows : row.at = at}]

(* -------------------------------- the state ------------------------------ *)

NodePositions == {"block_node", "flow_node", "block_node_or_indentless_sequence"}
Positions == DOMAIN RowsAt \cup NodePositions \cup {"none"}

TypeOK ==
  /\ pos \in Positions /\ states \in Seq(Positions)
  /\ marks \in Nat
  /\ props \in [{"anchor", "tag"} -> {"none", ""} \cup Names] /\ handles \subseteq Names
  /\ failed \in {"none", "no ':'", "scanner assert", "not allowed here", "bad lexeme", "parser",
                 "parser assert"}
  /\ open \in Seq(Events!Frames)
  /\ scanner.flow \in -1..MaxFlow
  /\ scanner.tokens \in Seq([kind : Kinds, text : {"", "t"} \cup Names])

Init ==
  /\ scanner = NewScanner
  /\ pos = "stream_start" /\ states = <<>> /\ marks = 0
  /\ props = NoProps /\ handles = {} /\ failed = "none"
  /\ reader = Nothing /\ open = <<>>

Ended == pos = "none" \/ failed # "none"

\* check_token, peek_token and get_token read on until the next token is sure.
Ready == ~Ended /\ ~NeedMore(scanner)
token == Head(scanner.tokens)

\* One token less is in front of each possible key.
Nearer(keys) == [level \in DOMAIN keys |-> [keys[level] EXCEPT !.at = @ - 1]]

GetToken == scanner' = [scanner EXCEPT !.tokens = Tail(@), !.keys = Nearer(@)]

\* What the events have opened; when the grammar allows no event of that type
\* now, the stream is wrong, and not one of the grammar's from here on.
Opened(stack, type) ==
  IF Events!Allowed(stack, type) THEN Events!After(stack, type) ELSE <<"wrong">>

MakeEvent(e) == reader' = Reader(reader, e) /\ open' = Opened(open, e.type)
NoneMade == UNCHANGED <<reader, open>>

\* self.state = to, or states.pop()
GoTo(to) ==
  IF to = "pop" THEN pos' = Last(states) /\ states' = Front(states)
                ELSE pos' = to /\ UNCHANGED states

(* -------------------------------- the steps ------------------------------ *)

\* An exception leaves scanner and parser behind, to be thrown away.
Raise(what) ==
  /\ failed' = what /\ scanner' = NewScanner
  /\ pos' = "stream_start" /\ states' = <<>> /\ marks' = 0 /\ props' = NoProps /\ handles' = {}
  /\ reader' = Nothing /\ open' = <<"error">>

Hungry == ~Ended /\ NeedMore(scanner)

FetchLexeme(lex) ==
  /\ CanFollow(scanner, lex)
  /\ LET read == FetchMore(scanner, lex)
     IN IF read.error # "none" THEN Raise(read.error)
        ELSE /\ scanner' = read /\ NoneMade
             /\ UNCHANGED <<pos, states, marks, props, handles, failed>>

\* A row of the table; at the end of the stream the parser asserts that
\* nothing is left on its stacks.
Follow(row) ==
  /\ token.kind \in row.on
  /\ IF row.emit = "StreamEnd" /\ (states # <<>> \/ marks # 0) THEN Raise("parser assert")
     ELSE /\ IF row.take THEN GetToken ELSE UNCHANGED scanner
          /\ IF row.push = "none" THEN GoTo(row.to)
                                  ELSE pos' = row.to /\ states' = Append(states, row.push)
          /\ CASE row.emit = "none"  -> NoneMade
               [] row.emit = "Empty" -> MakeEvent(Event("Scalar", NoProps, "", TRUE))
               [] OTHER              -> MakeEvent(Event(row.emit, NoProps, "", TRUE))
          /\ marks' = marks + row.mark
          /\ handles' = IF row.to = "directives" \/ row.at = "implicit_document_start"
                        THEN {} ELSE handles
          /\ UNCHANGED <<props, failed>>

\* process_directives: a duplicate is an error, an unknown name is ignored.
Directive ==
  /\ Ready /\ pos = "directives" /\ token.kind = "%"
  /\ IF token.text \in handles THEN Raise("parser")
     ELSE /\ GetToken /\ NoneMade
          /\ handles' = handles \cup ({token.text} \cap Names)
          /\ UNCHANGED <<pos, states, marks, props, failed>>

\* parse_node, an anchor or a tag: one of each, in either order.
IsProperty(kind) ==
  \/ kind = "&" /\ props.anchor = "none"
  \/ kind = "!" /\ props.tag = "none"

Property ==
  /\ Ready /\ pos \in NodePositions /\ IsProperty(token.kind)
  /\ IF token.kind = "!" /\ token.text \in Names \ handles THEN Raise("parser")
     ELSE /\ GetToken /\ NoneMade
          /\ props' = IF token.kind = "&" THEN [props EXCEPT !.anchor = token.text]
                                         ELSE [props EXCEPT !.tag = token.text]
          /\ UNCHANGED <<pos, states, marks, handles, failed>>

\* The collections a node may be, with the state each continues in.
Collection(where, kind) ==
  CASE kind = "-" /\ where = "block_node_or_indentless_sequence" ->
         <<"SequenceStart", "indentless_sequence_entry">>
    [] kind = "["     -> <<"SequenceStart", "flow_sequence_first_entry">>
    [] kind = "{"     -> <<"MappingStart", "flow_mapping_first_key">>
    [] kind = "<seq>" /\ where # "flow_node" ->
         <<"SequenceStart", "block_sequence_first_entry">>
    [] kind = "<map>" /\ where # "flow_node" ->
         <<"MappingStart", "block_mapping_first_key">>
    [] OTHER -> <<>>

\* parse_node, the content: an alias, a scalar, a collection, or after an anchor
\* or a tag nothing at all.
Content ==
  LET collection == Collection(pos, token.kind)
      scalar == token.kind \in {"scalar", "plain"}
  IN /\ Ready /\ pos \in NodePositions /\ ~IsProperty(token.kind)
     /\ \/ /\ token.kind = "*" /\ props = NoProps
           /\ GetToken /\ GoTo("pop")
           /\ MakeEvent(Event("Alias", [NoProps EXCEPT !.anchor = token.text], "", FALSE))
        \/ /\ scalar
           /\ GetToken /\ GoTo("pop")
           /\ MakeEvent(Event("Scalar", props, token.text, token.kind = "plain"))
        \/ /\ collection # <<>>
           /\ UNCHANGED scanner /\ GoTo(collection[2])
           /\ MakeEvent(Event(collection[1], props, "", TRUE))
        \/ /\ collection = <<>> /\ ~scalar /\ props # NoProps
           /\ UNCHANGED scanner /\ GoTo("pop")
           /\ MakeEvent(Event("Scalar", props, "", TRUE))
     /\ props' = NoProps
     /\ UNCHANGED <<marks, handles, failed>>

\* Nothing the method at this place accepts.
Unexpected ==
  /\ Ready
  /\ \/ pos \in NodePositions /\ props = NoProps /\ Collection(pos, token.kind) = <<>>
        /\ token.kind \notin {"&", "!", "*", "scalar", "plain"}
     \/ pos \notin NodePositions /\ ~(pos = "directives" /\ token.kind = "%")
        /\ ~\E row \in RowsAt[pos] : token.kind \in row.on
  /\ Raise("parser")

Finished == Ended /\ UNCHANGED vars

Step == Ready /\ pos \in DOMAIN RowsAt /\ \E row \in RowsAt[pos] : Follow(row)

Parse == Step \/ Directive \/ Property \/ Content \/ Unexpected

(* ----------------------------- any text at all --------------------------- *)

\* Where a lexeme may stand.  A lexeme on the same line is in the next
\* cell; beyond MaxCol no block collection may start.
Places(s) ==
  {<<"none", Min({s.col, MaxCol + 1})>>}
  \cup (({"line"} \cup (IF s.kind = "plain" THEN {"comment"} ELSE {})) \X (0..MaxCol))

InBounds(s, lex) ==
  /\ s.flow >= MaxFlow => lex.kind \notin {"[", "{"}
  /\ lex.col > MaxCol /\ s.flow = 0 => ~s.allow \/ lex.kind = "eof"

Read ==
  /\ Hungry
  /\ \E kind \in Text, place \in Places(scanner) :
       \E found \in Scan(kind, place[2], Names) :
         LET lex == Lexeme(kind, found[1], place[1], place[2], found[2][1], found[2][2])
         IN InBounds(scanner, lex) /\ FetchLexeme(lex)

Next == Read \/ Parse \/ Finished

Spec == Init /\ [][Next]_vars
FairSpec == Spec /\ WF_vars(Parse)

(* ------------------------------- properties ------------------------------ *)

\* yaml/scanner.py:553: KEY and BLOCK-MAPPING-START are put in front of a token
\* that the parser has not taken yet.  An outer key lies before an inner one, so
\* no insertion moves the place of another key.
KeysAhead ==
    \A level \in DOMAIN scanner.keys :
      /\ scanner.keys[level].at \in 0..(Len(scanner.tokens) - 1)
      /\ level \in 0..scanner.flow
      /\ \A inner \in DOMAIN scanner.keys :
           level < inner => scanner.keys[level].at < scanner.keys[inner].at

\* yaml/parser.py:180: a stream that ends leaves nothing open: neither on the
\* parser's stacks, nor in the scanner, nor in what its events have opened.
StreamEndsBalanced ==
  /\ failed # "parser assert"
  /\ pos = "none" => /\ states = <<>> /\ marks = 0 /\ open = <<"end">>
                     /\ scanner.flow = 0 /\ scanner.indents = <<-1>>
                     /\ scanner.tokens = <<>>

\* yaml/emitter.py:2: the events of any text obey the grammar its readers rely
\* on: each event is of a type that is allowed where it comes, so a key has a
\* value, no node stands where none may, and what is opened is closed by its own
\* kind.  An event that is not allowed makes "open" what no step of the grammar
\* can (Opened).
ImplementsYamlEvents == Events!Spec

\* yaml/scanner.py:142: the parser always gets on to read more text, or ends; it
\* does not make events without end from the tokens it has, least of all when
\* there is no more text.
ReadsOn == []<>(Hungry \/ Ended)
=============================================================================

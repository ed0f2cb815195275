---------------------------- MODULE YamlObjects ----------------------------
(***************************************************************************)
(* How a configuration file becomes an object: yaml_listener hands each    *)
(* event of the parser to yaml_builder, whose stack says where in the      *)
(* document it is, and yaml_object with validation makes the objects.      *)
(*                                                                         *)
(* What makes this hard: objects are made from the top.  A list or a       *)
(* nested object is given to its owner, and validated, when it begins and  *)
(* is still empty; what it holds is put in afterwards, through the         *)
(* reference that the owner has, and is only looked at again when the      *)
(* owner ends.  Lists and objects are therefore on a heap.                 *)
(*                                                                         *)
(* The events are any that the grammar YamlEvents allows.  An operator     *)
(* marked "Variant" is a fault put in place of the one it precedes to see  *)
(* that the property it breaks can be broken.                              *)
(***************************************************************************)
EXTENDS Naturals, Sequences, SequencesExt, Functions

CONSTANTS
  Schema,    \* class -> attribute -> rule (ATTRIBUTES of the Validated classes)
  Root,      \* default_class
  Keys,      \* texts of keys
  Texts,     \* texts of scalars; "null" is resolved to None
  MaxEvents  \* bound: events between the start and the end of the stream

VARIABLES
  open,      \* what is open in the events so far
  builder,   \* BuilderHandler: its stack, the heap, whether it has raised
  results,   \* its results
  text,      \* history: the nodes of the text, numbered as they begin
  roots,     \* history: those that are the root of a document
  path,      \* history: the collections that are open, with the place in each
  count      \* events so far

vars == <<open, builder, results, text, roots, path, count>>

Events == INSTANCE YamlEvents

(* ------------------------- values and validators ------------------------ *)

\* Values: None, strings, references to objects and lists, and an _ObjectSequencer
\* left in place of the list it wraps.
None == [kind |-> "none"]
Str(says) == [kind |-> "str", text |-> says]
Ref(kind, at) == [kind |-> kind, at |-> at]
Wrapper == [kind |-> "wrapper"]
Invalid == [kind |-> "invalid"]

\* Rules: [type, optional, of]; the type is "str" (a Type that converts), "word"
\* (Regex), "object" (Type of the class "of") or "repeated" (Repeated, of a class or
\* of "word").
Classes == DOMAIN Schema
Rules ==
  [type : {"str", "word"}, optional : BOOLEAN, of : {"", "word"}]
    \cup [type : {"object"}, optional : BOOLEAN, of : Classes]
    \cup [type : {"repeated"}, optional : BOOLEAN, of : Classes \cup {"word"}]
\* Every attribute has a rule, and a class is none of the tokens used beside classes.
ASSUME SchemaAssumption ==
  /\ Root \in Classes
  /\ \A class \in Classes : \A key \in DOMAIN Schema[class] : Schema[class][key] \in Rules
  /\ Classes \cap {"word", "other", "nothing"} = {}

Item(rule) == [type |-> IF rule.of = "word" THEN "word" ELSE "object",
               optional |-> FALSE, of |-> rule.of]

\* Type.Validate, Regex.Validate and the item checks of Repeated.Validate
ValidItem(heap, rule, value) ==
  CASE rule.type = "str"     -> IF value.kind = "str" THEN value ELSE Str("converted")
    [] rule.type = "word"    -> IF value.kind = "str" THEN value ELSE Invalid
    [] rule.type = "object"  ->
         IF value.kind = "object" /\ heap[value.at].class = rule.of THEN value ELSE Invalid
    [] OTHER                 -> Invalid

\* Optional.Validate and Repeated.Validate
Validate(heap, rule, value) ==
  IF value.kind = "none" THEN IF rule.optional THEN None ELSE Invalid
  ELSE IF rule.type # "repeated" THEN ValidItem(heap, rule, value)
  ELSE IF /\ value.kind = "list"
          /\ \A i \in DOMAIN heap[value.at].items :
               ValidItem(heap, Item(rule), heap[value.at].items[i]) # Invalid
         THEN value ELSE Invalid

(* -------------------------- the object builder -------------------------- *)

Fail(b) == [b EXCEPT !.raised = TRUE]

NewObject(class) == [class |-> class, attrs |-> [a \in DOMAIN Schema[class] |-> None]]
NewList == [items |-> <<>>]
Alloc(b, cell) == [b EXCEPT !.heap = Append(@, cell)]
Newest(b) == Len(b.heap)

\* Validated.Set
Set(b, at, key, value) ==
  LET valid == Validate(b.heap, Schema[b.heap[at].class][key], value)
  IN IF valid = Invalid THEN Fail(b) ELSE [b EXCEPT !.heap[at].attrs[key] = valid]

\* Validated.CheckInitialized, and ObjectBuilder.EndMapping: only an object has it.
CheckInitialized(b, mapper) ==
  IF /\ mapper.value.kind = "object"
     /\ LET object == b.heap[mapper.value.at]
        IN \A a \in DOMAIN object.attrs :
             Validate(b.heap, Schema[object.class][a], object.attrs[a]) # Invalid
    THEN b ELSE Fail(b)

\* Frames of the stack: a token and the value with it.  An _ObjectMapper has the
\* value it maps to and the keys seen, an _ObjectSequencer a list and what it makes
\* of a mapping among its items.
Frame(token) == [token |-> token, value |-> None, seen |-> {}, makes |-> "nothing"]
Mapper(value) == [Frame("mapping") EXCEPT !.value = value]
Sequencer(list, makes) == [Frame("sequence") EXCEPT !.value = list, !.makes = makes]
Key(value) == [Frame("key") EXCEPT !.value = value]

Top(b) == Last(b.stack)
Push(b, frame) == IF b.raised THEN b ELSE [b EXCEPT !.stack = Append(@, frame)]
Pop(b) == [b EXCEPT !.stack = Front(@)]
\* The assertions of the handlers.
Asserted(b, holds, next) == IF holds THEN next ELSE Fail(b)

\* The object that a mapping is to fill: expected_type(), or the constructor.  That
\* of anything but a class is no validated object.
Make(b, class) == IF class \in Classes THEN Alloc(b, NewObject(class)) ELSE b
Made(b, class) == IF class \in Classes THEN Ref("object", Newest(b)) ELSE Str("")

\* _ObjectMapper.see
See(b, key) ==
  LET n == Len(b.stack)
  IN IF key \in b.stack[n].seen THEN Fail(b)
     ELSE [b EXCEPT !.stack[n].seen = @ \cup {key}]

\* The rule for a key of the mapping on top, if it is one of a validated object; that
\* there is a mapping on top is asserted.
Known(b, key) ==
  /\ Top(b).token = "mapping" /\ Top(b).value.kind = "object" /\ key.kind = "str"
  /\ key.text \in DOMAIN Schema[b.heap[Top(b).value.at].class]
RuleOf(b, key) == Schema[b.heap[Top(b).value.at].class][key.text]

\* MapTo, the key popped before: "value" is what is assigned.
MapTo(b, key, value) ==
  LET seen == See(b, key.text) IN
  IF seen.raised THEN seen ELSE Set(seen, Top(b).value.at, key.text, value)

AppendTo(b, value) == [b EXCEPT !.heap[Top(b).value.at].items = Append(@, value)]

(* -------------------------- the builder handler ------------------------- *)

\* _HandleValue for a scalar; at the top of a document it is dropped.
Scalar(b, says) ==
  LET value == IF says = "null" THEN None ELSE Str(says)
      key == Top(b).value
  IN CASE Top(b).token = "key"      ->
            IF Known(Pop(b), key) THEN MapTo(Pop(b), key, value) ELSE Fail(b)
       [] Top(b).token = "mapping"  -> Push(b, Key(Str(says)))
       [] Top(b).token = "sequence" -> AppendTo(b, value)
       [] OTHER                     -> b

\* A mapping as a key has no object to fill.
MappingStart(b) ==
  LET key == Top(b).value
      owner == Pop(b)
      class == IF Known(owner, key) /\ RuleOf(owner, key).type = "object"
               THEN RuleOf(owner, key).of ELSE "other"
      made == Make(owner, class)
      item == Make(b, Top(b).makes)
  IN CASE Top(b).token = "key"      ->
            IF ~Known(owner, key) THEN Fail(b)
            ELSE Push(MapTo(made, key, Made(made, class)), Mapper(Made(made, class)))
       [] Top(b).token = "mapping"  -> Push(Push(b, Key(Wrapper)), Mapper(None))
       [] Top(b).token = "sequence" ->
            IF Top(b).makes \in {"word", "nothing"} THEN Fail(b)
            ELSE Push(AppendTo(item, Made(item, Top(b).makes)),
                      Mapper(Made(item, Top(b).makes)))
       [] OTHER                     -> Push(b, Mapper(Top(b).value))

\* The list is assigned to its attribute at once; a list in a list stays wrapped.
SequenceStart(b) ==
  LET key == Top(b).value
      made == Alloc(b, NewList)
      list == Ref("list", Newest(made))
      owner == Pop(made)
      makes == IF RuleOf(owner, key).type = "repeated" THEN RuleOf(owner, key).of ELSE "other"
  IN CASE Top(b).token = "key"      ->
            IF ~Known(owner, key) THEN Fail(b)
            ELSE Push(MapTo(owner, key, list), Sequencer(list, makes))
       [] Top(b).token = "mapping"  -> Push(Push(made, Key(Wrapper)), Sequencer(list, "nothing"))
       [] Top(b).token = "sequence" -> Push(AppendTo(made, Wrapper), Sequencer(list, "nothing"))
       [] OTHER                     -> Push(made, Sequencer(list, "nothing"))

\* Variant: an object is not looked at again when it ends.
EndUnchecked(b) == Pop(b)
MappingEnd(b) == Asserted(b, Top(b).token = "mapping", CheckInitialized(Pop(b), Top(b)))
\* Variant: a list is looked at as an object is.
ListChecked(b) == CheckInitialized(Pop(b), Top(b))
SequenceEnd(b) == Asserted(b, Top(b).token = "sequence", Pop(b))

DocumentStart(b) ==
  LET made == Alloc(b, NewObject(Root))
      frame == [Frame("document") EXCEPT !.value = Ref("object", Newest(made))]
  IN Asserted(b, b.stack = <<>>, Push(made, frame))
DocumentEnd(b) == Asserted(b, Top(b).token = "document", Pop(b))
StreamEnd(b) == Asserted(b, b.stack = <<>>, b)

\* HandleEvent
Handle(b, type, says) ==
  CASE type = "Scalar"        -> Scalar(b, says)
    [] type = "MappingStart"  -> MappingStart(b)
    [] type = "SequenceStart" -> SequenceStart(b)
    [] type = "MappingEnd"    -> MappingEnd(b)
    [] type = "SequenceEnd"   -> SequenceEnd(b)
    [] type = "DocumentStart" -> DocumentStart(b)
    [] type = "DocumentEnd"   -> DocumentEnd(b)
    [] type = "StreamEnd"     -> StreamEnd(b)
    [] OTHER                  -> b

(* ---------------------------- what was written -------------------------- *)

\* A node: its kind ("leaf", "map" or "seq"), what a leaf says, the collection "up" it
\* is in (0 for a root) and what it is there ("as"); "at" is the number of an item
\* among the items, and for the value of a key the node of the key.  "rule" is the
\* rule that the schema has for it, if any.
RootRule == [type |-> "object", optional |-> FALSE, of |-> Root]
NoRule == [type |-> "none", optional |-> FALSE, of |-> ""]

Here == Last(path)
Above == text[Here.node]
Role ==
  IF path = <<>> THEN "root"
  ELSE IF Above.kind = "seq" THEN "item"
  ELSE IF Here.at = 0 THEN "key" ELSE "value"
Place == CASE Role = "item" -> Here.at + 1 [] Role = "value" -> Here.at [] OTHER -> 0

\* Is it a key of the class that a mapping should be of?
Attribute(map, key) ==
  map.rule.type = "object" /\ key.kind = "leaf" /\ key.says \in DOMAIN Schema[map.rule.of]
RuleHere ==
  CASE Role = "root" -> RootRule
    [] Role = "item" /\ Above.rule.type = "repeated" -> Item(Above.rule)
    [] Role = "value" /\ Attribute(Above, text[Here.at]) ->
         Schema[Above.rule.of][text[Here.at].says]
    [] OTHER -> NoRule

Number == Len(text) + 1
\* A node begins: a collection's place is the items so far, or the key before a value.
Put(kind, says) ==
  /\ text' = Append(text, [kind |-> kind, says |-> says, as |-> Role,
                           up |-> IF path = <<>> THEN 0 ELSE Here.node,
                           at |-> Place, rule |-> RuleHere])
  /\ roots' = IF Role = "root" THEN Append(roots, Number) ELSE roots
  /\ LET next == CASE Role = "item" -> Here.at + 1 [] Role = "key" -> Number [] OTHER -> 0
         moved == IF path = <<>> THEN <<>> ELSE [path EXCEPT ![Len(path)].at = next]
     IN path' = IF kind = "leaf" THEN moved ELSE Append(moved, [node |-> Number, at |-> 0])

ReadOn(type, says) ==
  CASE type = "Scalar"        -> Put("leaf", says)
    [] type = "SequenceStart" -> Put("seq", "")
    [] type = "MappingStart"  -> Put("map", "")
    [] type \in {"SequenceEnd", "MappingEnd"} ->
         path' = Front(path) /\ UNCHANGED <<text, roots>>
    [] OTHER -> UNCHANGED <<text, roots, path>>

(* --------------------------------- steps -------------------------------- *)

Init ==
  /\ open = <<"stream">> /\ count = 0
  /\ builder = [stack |-> <<>>, heap |-> <<>>, raised |-> FALSE]
  /\ results = <<>> /\ text = <<>> /\ roots = <<>> /\ path = <<>>

\* Within the bound; what is open can still be closed.
Room(type) ==
  \/ count < MaxEvents
  \/ type \in {"SequenceEnd", "MappingEnd", "DocumentEnd", "StreamEnd"}
  \/ Last(open) \in {"value", "root"} /\ type = "Scalar"

\* The parser makes an event and the listener hands it on.  After an exception, which
\* nobody handles, only the history goes on, to know what the text says.
Event(type, says) ==
  /\ Events!Allowed(open, type) /\ Room(type)
  /\ open' = Events!After(open, type)
  /\ builder' = IF builder.raised THEN builder ELSE Handle(builder, type, says)
  /\ results' = IF type = "DocumentEnd" /\ ~builder'.raised
                  THEN Append(results, Top(builder).value) ELSE results
  /\ ReadOn(type, says)
  /\ count' = count + 1

\* A node with an anchor, and an alias, are refused: the end of the reading.
Unsupported ==
  /\ Events!Allowed(open, "Alias") /\ count < MaxEvents /\ ~builder.raised
  /\ open' = <<"error">> /\ builder' = Fail(builder) /\ count' = count + 1
  /\ UNCHANGED <<results, text, roots, path>>

\* BuildObjects returns the results.
Ended == open = <<"end">>

Next ==
  \/ \E says \in IF Last(open) = "key" THEN Keys ELSE Texts : Event("Scalar", says)
  \/ \E type \in Events!Types \ {"Scalar", "Alias"} : Event(type, "")
  \/ Unsupported
  \/ open \in {<<"end">>, <<"error">>} /\ UNCHANGED vars

Spec == Init /\ [][Next]_vars

(* ------------------------------- properties ----------------------------- *)

Nodes == DOMAIN text
KeysOf(map) == {n \in Nodes : text[n].up = map /\ text[n].as = "key"}
ValuesOf(map) == {n \in Nodes : text[n].up = map /\ text[n].as = "value"}
ItemsOf(seq) == {n \in Nodes : text[n].up = seq /\ text[n].as = "item"}
KeyOf(value) == text[text[value].at].says

\* A node is what its rule wants, what is in it left aside.
RightLeaf(n) ==
  IF text[n].says = "null" THEN text[n].rule.optional ELSE text[n].rule.type \in {"str", "word"}
RightMap(n) ==
  /\ text[n].rule.type = "object"
  /\ \A key \in KeysOf(n) : Attribute(text[n], text[key])
  /\ \A key, other \in KeysOf(n) : text[key].says = text[other].says => key = other
  /\ \A name \in DOMAIN Schema[text[n].rule.of] :
       Schema[text[n].rule.of][name].optional \/ \E key \in KeysOf(n) : text[key].says = name
Right(n) ==
  CASE text[n].kind = "leaf" -> RightLeaf(n)
    [] text[n].kind = "map"  -> RightMap(n)
    [] OTHER                 -> text[n].rule.type = "repeated"
AllRight == \A n \in Nodes : text[n].as # "key" => Right(n)

\* What the heap holds for the nodes, when the collections are in these cells.
Collections == {n \in Nodes : text[n].kind # "leaf"}
Meant(n, cell) ==
  CASE text[n].kind = "leaf" -> IF text[n].says = "null" THEN None ELSE Str(text[n].says)
    [] text[n].kind = "map"  -> Ref("object", cell[n])
    [] OTHER                 -> Ref("list", cell[n])
ObjectOf(n, cell) ==
  LET object == builder.heap[cell[n]]
  IN /\ object.class = text[n].rule.of
     /\ DOMAIN object.attrs = DOMAIN Schema[object.class]
     /\ \A value \in ValuesOf(n) : object.attrs[KeyOf(value)] = Meant(value, cell)
     /\ \A name \in DOMAIN object.attrs :
          object.attrs[name] = None \/ \E value \in ValuesOf(n) : KeyOf(value) = name
ListOf(n, cell) ==
  LET items == builder.heap[cell[n]].items
  IN /\ \A item \in ItemsOf(n) :
          text[item].at \in DOMAIN items /\ items[text[item].at] = Meant(item, cell)
     /\ \A i \in DOMAIN items : \E item \in ItemsOf(n) : text[item].at = i
HeapIs(cell) ==
  /\ IsInjective(cell)
  /\ \A n \in Collections :
       IF text[n].kind = "map" THEN ObjectOf(n, cell) ELSE ListOf(n, cell)
  /\ results = [i \in DOMAIN roots |-> Ref("object", cell[roots[i]])]

\* A root that is no mapping, and a sequence for what is converted from a scalar.
RootsAreMaps == \A i \in DOMAIN roots : text[roots[i]].kind = "map"
ListForScalar == \E n \in Nodes : text[n].kind = "seq" /\ text[n].rule.type = "str"

\* api/yaml_object.py:278: what BuildObjects returns is what the text says, all of it
\* and nothing else, each collection in a cell of its own, and is valid: though each
\* list and object was assigned and validated before it was filled.  Except that a
\* document whose root is no mapping gives an object nobody has checked, and that a
\* list for an attribute that is converted from a scalar is converted while it is
\* empty.
BuiltAsWritten ==
  Ended /\ ~builder.raised /\ RootsAreMaps /\ ~ListForScalar =>
    AllRight /\ \E cell \in [Collections -> DOMAIN builder.heap] : HeapIs(cell)
\* api/yaml_builder.py:249: no text that is right is refused, by an assertion of the
\* builder, by a check made too early or by anything else.
RefusedOnlyIfWrong == Ended /\ builder.raised => ~AllRight
=============================================================================

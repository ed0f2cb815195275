----------------------------- MODULE YamlEvents -----------------------------
(***************************************************************************)
(* The streams of YAML events that the parser promises and the emitter     *)
(* expects (the grammar at the head of yaml/emitter.py):                   *)
(*                                                                         *)
(*   stream   ::= STREAM-START document* STREAM-END                        *)
(*   document ::= DOCUMENT-START node DOCUMENT-END                         *)
(*   node     ::= SCALAR | ALIAS | sequence | mapping                      *)
(*   sequence ::= SEQUENCE-START node* SEQUENCE-END                        *)
(*   mapping  ::= MAPPING-START (node node)* MAPPING-END                   *)
(*                                                                         *)
(* "open" is the stack of what is open, each with what it expects next.    *)
(* Everything that reads events (composer, listener, emitter) relies on    *)
(* this grammar.                                                           *)
(***************************************************************************)
EXTENDS Sequences, SequencesExt

VARIABLE open  \* stack of frames

\* What a frame expects: a document's root, an item, a key or a value.
Frames == {"stream", "root", "rootdone", "seq", "key", "value", "end", "error"}
NodeNext == [root |-> "rootdone", seq |-> "seq", key |-> "value", value |-> "key"]

Starts == {"SequenceStart", "MappingStart"}
Nodes == {"Scalar", "Alias"} \cup Starts
Types == {"StreamStart", "StreamEnd", "DocumentStart", "DocumentEnd",
          "SequenceEnd", "MappingEnd"} \cup Nodes

\* The frame an event must find on top.
Allowed(stack, type) ==
  CASE type = "StreamStart"   -> stack = <<>>
    [] type = "StreamEnd"     -> stack = <<"stream">>
    [] type = "DocumentStart" -> stack = <<"stream">>
    [] type = "DocumentEnd"   -> stack = <<"stream", "rootdone">>
    [] type = "SequenceEnd"   -> stack # <<>> /\ Last(stack) = "seq"
    [] type = "MappingEnd"    -> stack # <<>> /\ Last(stack) = "key"
    [] OTHER                  -> stack # <<>> /\ Last(stack) \in DOMAIN NodeNext

\* What is open after it.
After(stack, type) ==
  LET Node == IF stack # <<>> /\ Last(stack) \in DOMAIN NodeNext
                THEN Append(Front(stack), NodeNext[Last(stack)])
                ELSE stack
  IN CASE type = "StreamStart"   -> <<"stream">>
       [] type = "StreamEnd"     -> <<"end">>
       [] type = "DocumentStart" -> Append(stack, "root")
       [] type = "SequenceStart" -> Append(Node, "seq")
       [] type = "MappingStart"  -> Append(Node, "key")
       [] type \in {"DocumentEnd", "SequenceEnd", "MappingEnd"} ->
            IF stack = <<>> THEN stack ELSE Front(stack)
       [] OTHER                  -> Node

Init == open = <<>>

Make(type) == Allowed(open, type) /\ open' = After(open, type)

\* The text or the events were wrong: an exception.
Break == open' = <<"error">>

Next == Break \/ \E type \in Types : Make(type)

Spec == Init /\ [][Next]_open
=============================================================================

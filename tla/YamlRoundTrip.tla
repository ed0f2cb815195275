--------------------------- MODULE YamlRoundTrip ---------------------------
(***************************************************************************)
(* A dump read back: the events of a serializer go through yaml/emitter.py *)
(* and the text it writes through yaml/scanner.py, yaml/parser.py and the  *)
(* composer (yaml/composer.py), which finds the nodes that aliases name.   *)
(* Nothing else is in the text than what the emitter put there, and what   *)
(* the parser makes of it is compared with what was sent.  The loader runs *)
(* as soon as it has the text it looks at, so that streams of any length   *)
(* pass through; that dump and load really happen one after the other      *)
(* makes no difference, the loader sees the same text.                     *)
(***************************************************************************)
EXTENDS YamlParser

CONSTANTS
  MaxDepth,      \* bound: collections open at a time
  Width,         \* the emitter's line width
  Chars,         \* the characters of each text
  Looks,         \* the tag that the resolver's patterns find for each text
  KeyLimit,      \* bound: the characters that stand for the 128 of a simple key
  NameWidth,     \* characters of each anchor and of each tag
  Shorthand,     \* tag -> the handle of the %TAG directive that abbreviates it
  Directives,    \* version and handles of a document: what its directives may be
  SentScalars,   \* scalars of the serializer: text, tag, style
  Anchors,       \* anchors of nodes, "none" for a node without
  Tags,          \* tags of collections, "default" for the one they have anyway
  MaxSpecial,    \* bound: special things on their way at a time
  EmptyRoots,    \* whether a document may be an empty text and nothing else
  OpenPlainRoots \* whether directives may follow a plain root not ended by "..."

VARIABLES
  emitter,  \* state of the emitter
  sending,  \* what is open in the events sent
  anchored  \* the serializer's anchors of the nodes sent in this document

rtvars == <<vars, emitter, sending, anchored>>

ASSUME RoundTripAssumption == MaxDepth \in Nat /\ Width \in Nat /\ Width > 4

Characters == INSTANCE YamlScalars
\* ScalarAnalysis, and what else the emitter and the resolver see in a text.
Analysis == [t \in DOMAIN Chars |->
  Characters!Analyze(Chars[t]) @@ [chars |-> Chars[t], look |-> Looks[t]]]
Em == INSTANCE YamlEmitter
Sent(type, anchor, tag, implicit, text, style, flow, explicit) ==
  [type |-> type, anchor |-> anchor, tag |-> tag, implicit |-> implicit, text |-> text,
   style |-> style, flow |-> flow, explicit |-> explicit, version |-> FALSE, handles |-> {}]
Plain(type, explicit) ==
  Sent(type, "none", "default", <<TRUE, TRUE>>, "", "none", FALSE, explicit)

(* ------------------------------ the serializer --------------------------- *)

\* anchor_node: a node has an anchor if there is an alias of it; no two of a document
\* have the same.
NewAnchors == Anchors \ anchored

\* serialize_node: a tag is implicit where resolve finds it again, from the text
\* of a plain scalar, as a string otherwise.
ScalarEvents ==
  {Sent("Scalar", anchor, s.tag, <<s.tag = Analysis[s.text].look, s.tag = "str">>,
        s.text, s.style, FALSE, FALSE) :
     s \in {t \in SentScalars : t.text = "" /\ Last(sending) = "root" => EmptyRoots},
     anchor \in NewAnchors}
CollectionEvents(type) ==
  {Sent(type, anchor, tag, <<tag = "default", tag = "default">>, "", "none", flow, FALSE) :
     anchor \in NewAnchors, tag \in Tags, flow \in BOOLEAN}

\* The plain scalar on its way, if it is all that the document holds.
PlainRoot(lex) ==
  lex.kind = "plain" /\ scanner.flow = 0 /\ Indent(Unwind(scanner, lex.col)) = -1

\* use_explicit_start, use_version and use_tags, here for each document anew.
MayDeclare ==
  OpenPlainRoots \/ emitter.text = <<>> \/ ~PlainRoot(Last(emitter.text))
DocumentStarts ==
  {[Plain("DocumentStart", explicit) EXCEPT !.version = with[1], !.handles = with[2]] :
     explicit \in BOOLEAN, with \in IF MayDeclare THEN Directives ELSE {<<FALSE, {}>>}}

\* serialize, open and close: the events that may come next.
ToSend(type) ==
  CASE type = "Scalar"  -> ScalarEvents
    [] type \in Events!Starts ->
         IF Len(sending) < MaxDepth + 2 THEN CollectionEvents(type) ELSE {}
    [] type = "Alias"   ->
         {Sent("Alias", anchor, "none", <<FALSE, FALSE>>, "", "none", FALSE, FALSE) :
            anchor \in anchored}
    [] type = "DocumentStart" -> DocumentStarts
    [] type = "DocumentEnd" -> {Plain(type, explicit) : explicit \in BOOLEAN}
    [] OTHER -> {Plain(type, FALSE)}

(* --------------------------------- the load ------------------------------ *)

\* Resolver.resolve: the tag of what was read.
Resolve(got) ==
  IF got.tag \in Range(Shorthand) THEN CHOOSE tag \in DOMAIN Shorthand : Shorthand[tag] = got.tag
  ELSE IF got.tag # "none" THEN got.tag
  ELSE IF got.type # "Scalar" THEN "default"
  ELSE IF got.plain THEN Analysis[got.text].look
  ELSE "str"

\* Composer.anchors: an alias names a node of the document that has begun, and no
\* anchor is given twice; they are forgotten at the end of the document.
Composes(anchors, got) == got.type = "Alias" <=> got.anchor \in anchors
Composed(anchors, got) ==
  IF got.type = "DocumentEnd" THEN {} ELSE anchors \cup ({got.anchor} \ {"none"})

Same(sent, got) ==
  /\ sent.type = got.type /\ sent.anchor = got.anchor /\ sent.text = got.text
  /\ sent.type # "Alias" => sent.tag = Resolve(got)

\* The composer takes an event: the one that was sent, and one it accepts.
ReadBack(read, got) ==
  IF read.sent # <<>> /\ Same(Head(read.sent), got) /\ Composes(read.anchors, got)
    THEN [sent |-> Tail(read.sent), anchors |-> Composed(read.anchors, got)]
    ELSE [read EXCEPT !.sent = <<[type |-> "Mismatch"]>>]

\* The next lexeme.  Whether a plain scalar has reached the end of its line shows
\* in the one after it.
Deliverable == emitter.text # <<>> /\ (Head(emitter.text).kind = "plain" => Len(emitter.text) > 1)

\* scan_plain reads all of the scalar: it takes the characters, goes on where the
\* emitter wrapped it, and stops at the lexeme on the line after it.
ReadsPlain(lex, next) ==
  LET there == [Unwind(scanner, lex.col) EXCEPT !.kind = "plain", !.newline = TRUE]
  IN /\ Characters!ScansPlain(Chars[lex.text], scanner.flow > 0)
     /\ lex.ends = "wrapped" => scanner.flow > 0 \/ lex.on > Indent(there)
     /\ next.break = "line" => CanFollow(there, next)

NextLexeme ==
  LET lex == Head(emitter.text) @@ [end |-> 0]
  IN CASE lex.kind # "plain" -> lex
       [] ~ReadsPlain(lex, emitter.text[2]) -> [lex EXCEPT !.kind = "bad"]
       [] emitter.text[2].break = "line" -> [lex EXCEPT !.ends = "newline"]
       [] OTHER -> lex

Load ==
  \/ Parse /\ UNCHANGED <<emitter, sending, anchored>>
  \/ /\ Hungry /\ Deliverable
     /\ FetchLexeme(NextLexeme)
     /\ emitter' = [emitter EXCEPT !.text = Tail(@)]
     /\ UNCHANGED <<sending, anchored>>

(* --------------------------------- the dump ------------------------------ *)

Waits == ~Ended /\ Hungry /\ ~Deliverable

EmitNext ==
  /\ Waits /\ ~Em!NeedMoreEvents(emitter)
  /\ emitter' = Em!EmitNext(emitter)
  /\ UNCHANGED <<vars, sending, anchored>>

\* Bound: so many special things on their way: directives, a name (anchor or tag),
\* a text that is no word.
Specials(ev) ==
  Cardinality({thing \in {"directives", "name", "text"} :
     CASE thing = "directives" -> ev.version \/ ev.handles # {}
       [] thing = "name" -> ev.anchor # "none" \/ ev.implicit = <<FALSE, FALSE>>
       [] thing = "text" -> ev.text \notin {"", "word"}})
InBoundsToSend(ev) ==
  Specials(ev) > 0 =>
    FoldLeft(LAMBDA n, want : n + want.specials, Specials(ev), reader.sent) <= MaxSpecial

\* What is to arrive when that event is sent.
Wanted(ev) == [type |-> ev.type, anchor |-> ev.anchor, tag |-> ev.tag, text |-> ev.text,
               specials |-> Specials(ev)]

\* "reader" is what was sent and is yet to be read back, with the composer's anchors.
Send ==
  /\ Waits /\ Em!NeedMoreEvents(emitter)
  /\ \E type \in Events!Types : \E ev \in ToSend(type) :
       /\ Events!Allowed(sending, type)
       /\ InBoundsToSend(ev)
       /\ sending' = Events!After(sending, type)
       /\ emitter' = Em!Emit(emitter, ev)
       /\ reader' = [reader EXCEPT !.sent = Append(@, Wanted(ev))]
       /\ anchored' = Composed(anchored, ev)
  /\ UNCHANGED <<scanner, pos, states, marks, props, handles, failed, open>>

\* open has sent STREAM-START, which is what the reader waits for at first.
Opening == Plain("StreamStart", FALSE)
RTInit ==
  /\ Init /\ sending = <<"stream">> /\ anchored = {}
  /\ \E canonical \in BOOLEAN : emitter = Em!Emit(Em!NewEmitter(canonical), Opening)

RTNext == Load \/ EmitNext \/ Send \/ (Ended /\ UNCHANGED rtvars)

RTSpec == RTInit /\ [][RTNext]_rtvars

(* ------------------------------- properties ------------------------------ *)

\* yaml/emitter.py:2: whatever is dumped is read back as it was: the same nodes,
\* anchors and texts, each with the tag it had, and every alias names its node.  A
\* mismatch stays in "reader".
RoundTrip ==
  /\ failed = "none"
  /\ \A i \in DOMAIN reader.sent : reader.sent[i].type # "Mismatch"
  /\ pos = "none" => /\ reader.sent = <<>> /\ sending = <<"end">>
                     /\ emitter.queue = <<>> /\ emitter.text = <<>>

=============================================================================

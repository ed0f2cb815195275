-------------------------- MODULE YamlParserProofs --------------------------
(* Theorems about the parser and the scanner under it, for every text, every *)
(* depth of nesting and every reader of the events.  First what the tables   *)
(* and the two stacks of parser.py make of whatever tokens the scanner has;  *)
(* then what the scanner has: where the possible simple keys are, and that   *)
(* nothing is left open when a stream ends.                                  *)
EXTENDS YamlParser, SequenceTheorems, NaturalsInduction, WellFoundedInduction, TLAPS

(* What a position stands for in the events.  In an inner position a         *)
(* collection is open; a pair is a mapping of one key in a flow sequence.    *)
SeqPositions ==
  {"block_sequence_first_entry", "block_sequence_entry", "block_sequence_entry:item",
   "indentless_sequence_entry", "indentless_sequence_entry:item",
   "flow_sequence_first_entry", "flow_sequence_entry", "flow_sequence_entry:item"}
PairKeys ==
  {"flow_sequence_entry_mapping_key", "flow_sequence_entry_mapping_key:node",
   "flow_sequence_entry_mapping_end"}
PairValues ==
  {"flow_sequence_entry_mapping_value", "flow_sequence_entry_mapping_value:node"}
KeyPositions ==
  {"block_mapping_first_key", "block_mapping_key", "block_mapping_key:node",
   "flow_mapping_first_key", "flow_mapping_key", "flow_mapping_key:item",
   "flow_mapping_key:node"}
ValuePositions ==
  {"block_mapping_value", "block_mapping_value:node", "flow_mapping_value",
   "flow_mapping_value:node", "flow_mapping_empty_value"}

Pairs == PairKeys \cup PairValues
Inner == SeqPositions \cup Pairs \cup KeyPositions \cup ValuePositions
Outer == {"implicit_document_start", "document_start", "directives", "document_end", "none"}
Nodal == NodePositions \cup {"document_content"}

(* The frame on top of what is open, and the one while a node is awaited.    *)
Top(p) ==
  IF p \in SeqPositions THEN "seq"
  ELSE IF p \in KeyPositions \cup PairKeys THEN "key"
  ELSE IF p \in ValuePositions \cup PairValues THEN "value"
  ELSE IF p = "document_end" THEN "rootdone"
  ELSE IF p = "none" THEN "end"
  ELSE "stream"

Awaiting(p) ==
  IF p \in SeqPositions THEN "seq"
  ELSE IF p \in KeyPositions \cup PairKeys THEN "value"
  ELSE IF p \in ValuePositions \cup PairValues THEN "key"
  ELSE "root"

Base(low, p) ==
  IF p \in Pairs THEN Append(low, "seq")
  ELSE IF p = "document_end" THEN Append(low, "stream")
  ELSE low

On(low, p) == Append(Base(low, p), Top(p))
Awaits(low, p) == Append(Base(low, p), Awaiting(p))

(* The collections that have a mark: those that begin with a token.          *)
Unmarked ==
  Outer \cup {"block_sequence_first_entry", "block_mapping_first_key",
   "flow_sequence_first_entry", "flow_mapping_first_key",
   "indentless_sequence_entry", "indentless_sequence_entry:item"}
Marked(p) == IF p \in Unmarked THEN 0 ELSE 1

(* What the positions on a stack stand for, from the bottom up.              *)
Under(below, p) == [open |-> On(below.open, p), marks |-> below.marks + Marked(p)]

Nowhere == [open |-> <<>>, marks |-> 0]

Layouts == [open : Seq(Events!Frames), marks : Nat]

LaysOut(f, st, low) ==
  /\ f \in [0..Len(st) -> Layouts] /\ f[0] = Nowhere /\ f[Len(st)] = low
  /\ \A i \in 1..Len(st) : f[i] = Under(f[i - 1], st[i])

Laid(st, low) == \E f : LaysOut(f, st, low)

(* The bottom of the stack is the document.                                  *)
Rooted(st) ==
  /\ st \in Seq(Inner \cup {"document_end"})
  /\ \A i \in 1..Len(st) : st[i] = "document_end" <=> i = 1

(* What is open is what the stack and the position stand for; while a node   *)
(* is awaited, what the position to return to waits for.                     *)
Stands(p, st, op, mk) ==
  \E low \in Layouts : Laid(st, low) /\ op = On(low.open, p) /\ mk = low.marks + Marked(p)

AwaitsNode(st, op, mk) ==
  /\ st # <<>>
  /\ \E low \in Layouts : /\ Laid(Front(st), low)
                          /\ op = Awaits(low.open, Last(st))
                          /\ mk = low.marks + Marked(Last(st))

Agree(p, st, op, mk) ==
  /\ p \in {"stream_start"} \cup Outer \cup Inner \cup Nodal
  /\ Rooted(st)
  /\ p = "stream_start" => st = <<>> /\ mk = 0 /\ op = <<>>
  /\ p \in Outer => st = <<>> /\ Stands(p, st, op, mk)
  /\ p \in Inner => st # <<>> /\ Stands(p, st, op, mk)
  /\ p \in Nodal => AwaitsNode(st, op, mk)

GrammarInv == failed = "none" => Agree(pos, states, open, marks)

-----------------------------------------------------------------------------
(* Sequences.                                                                *)

(* SequencesExt's Front and Last undo Append.                                *)
LEMMA FrontLastAppend ==
  ASSUME NEW S, NEW s \in Seq(S), NEW x \in S
  PROVE  Append(s, x) # <<>> /\ Last(Append(s, x)) = x /\ Front(Append(s, x)) = s
<1> DEFINE q == Append(s, x)
<1>1. q \in Seq(S) /\ q # <<>> /\ Len(q) = Len(s) + 1 /\ Len(s) \in Nat
      /\ (\A i \in 1..Len(s) : q[i] = s[i]) /\ q[Len(s) + 1] = x
  BY AppendProperties, LenProperties
<1> HIDE DEF q
<1>2. Last(q) = x
  BY <1>1 DEF Last
<1>3. Front(q) = SubSeq(q, 1, Len(s))
  BY <1>1 DEF Front
<1>4. SubSeq(q, 1, Len(s)) \in Seq(S) /\ Len(SubSeq(q, 1, Len(s))) = Len(s)
      /\ \A i \in 1..Len(s) : SubSeq(q, 1, Len(s))[i] = s[i]
  BY <1>1
<1>5. Front(q) = s
  BY <1>3, <1>4, SeqEqual
<1> QED
  BY <1>1, <1>2, <1>5 DEF q

(* A sequence is its front and its last element.                             *)
LEMMA FrontLastProperties ==
  ASSUME NEW S, NEW s \in Seq(S), s # <<>>
  PROVE  /\ Front(s) \in Seq(S) /\ Last(s) \in S /\ s = Append(Front(s), Last(s))
         /\ Len(s) \in Nat /\ Len(s) > 0 /\ Len(Front(s)) = Len(s) - 1 /\ Last(s) = s[Len(s)]
         /\ \A i \in 1..Len(Front(s)) : Front(s)[i] = s[i]
<1>1. PICK q \in Seq(S), x \in S : s = Append(q, x)
  BY SequenceEmptyOrAppend
<1>2. Last(s) = x /\ Front(s) = q
  BY <1>1, FrontLastAppend
<1> QED
  BY <1>1, <1>2, AppendProperties, LenProperties

-----------------------------------------------------------------------------
(* Layouts.                                                                  *)

Returns == Inner \cup {"document_end"}

(* What positions stand for are frames.                                      *)
LEMMA FrameTypes ==
  ASSUME NEW low \in Seq(Events!Frames), NEW p
  PROVE  /\ Top(p) \in Events!Frames /\ Awaiting(p) \in Events!Frames
         /\ Base(low, p) \in Seq(Events!Frames)
         /\ On(low, p) \in Seq(Events!Frames) /\ Awaits(low, p) \in Seq(Events!Frames)
<1>1. Top(p) \in Events!Frames /\ Awaiting(p) \in Events!Frames
  BY DEF Top, Awaiting, Events!Frames
<1>2. "seq" \in Events!Frames /\ "stream" \in Events!Frames
  BY DEF Events!Frames
<1>3. Base(low, p) \in Seq(Events!Frames)
  BY <1>2 DEF Base
<1> QED
  BY <1>1, <1>3 DEF On, Awaits

(* One more position makes a layout of a layout.                             *)
LEMMA UnderType ==
  ASSUME NEW low \in Layouts, NEW p
  PROVE  Under(low, p) \in Layouts
<1>1. low.open \in Seq(Events!Frames) /\ low.marks \in Nat
  BY DEF Layouts
<1>2. On(low.open, p) \in Seq(Events!Frames)
  BY <1>1, FrameTypes
<1>3. Marked(p) \in Nat
  BY DEF Marked
<1> QED
  BY <1>1, <1>2, <1>3 DEF Under, Layouts

(* An empty stack stands for nothing.                                        *)
LEMMA LaidEmpty ==
  /\ Nowhere \in Layouts /\ Laid(<<>>, Nowhere)
  /\ \A low : Laid(<<>>, low) => low = Nowhere
<1>1. Nowhere \in Layouts
  BY DEF Nowhere, Layouts
<1>2. LaysOut([i \in 0..0 |-> Nowhere], <<>>, Nowhere)
  BY <1>1 DEF LaysOut
<1>3. ASSUME NEW low, Laid(<<>>, low) PROVE low = Nowhere
  BY <1>3 DEF Laid, LaysOut
<1> QED
  BY <1>1, <1>2, <1>3 DEF Laid

(* A position pushed.                                                        *)
LEMMA LaidPush ==
  ASSUME NEW S, NEW st \in Seq(S), NEW low \in Layouts, Laid(st, low), NEW p \in S
  PROVE  Laid(Append(st, p), Under(low, p)) /\ Under(low, p) \in Layouts
<1> DEFINE n == Len(st)
           q == Append(st, p)
<1>1. PICK f : LaysOut(f, st, low)
  BY DEF Laid
<1>2. Under(low, p) \in Layouts
  BY UnderType
<1>3. n \in Nat /\ Len(q) = n + 1 /\ (\A i \in 1..n : q[i] = st[i]) /\ q[n + 1] = p
  BY AppendProperties, LenProperties
<1> DEFINE g == [i \in 0..(n + 1) |-> IF i <= n THEN f[i] ELSE Under(low, p)]
<1>4. g \in [0..(n + 1) -> Layouts]
  BY <1>1, <1>2, <1>3 DEF LaysOut
<1>5. g[0] = Nowhere /\ g[n + 1] = Under(low, p) /\ \A i \in 0..n : g[i] = f[i]
  BY <1>1, <1>3 DEF LaysOut
<1>6. ASSUME NEW i \in 1..(n + 1) PROVE g[i] = Under(g[i - 1], q[i])
  <2>1. CASE i <= n
    <3>1. i \in 1..n /\ i - 1 \in 0..n /\ i \in 0..n
      BY <1>3, <2>1
    <3>2. f[i] = Under(f[i - 1], st[i])
      BY <1>1, <3>1 DEF LaysOut
    <3> QED
      BY <1>3, <1>5, <3>1, <3>2
  <2>2. CASE i = n + 1
    <3>1. f[n] = low
      BY <1>1 DEF LaysOut
    <3>2. g[i - 1] = low /\ q[i] = p
      BY <1>3, <1>5, <2>2, <3>1
    <3> QED
      BY <1>5, <2>2, <3>2
  <2> QED
    BY <1>3, <2>1, <2>2
<1> HIDE DEF g
<1>7. LaysOut(g, q, Under(low, p))
  BY <1>3, <1>4, <1>5, <1>6 DEF LaysOut
<1> QED
  BY <1>2, <1>7 DEF Laid

(* A position popped.                                                        *)
LEMMA LaidPop ==
  ASSUME NEW S, NEW st \in Seq(S), st # <<>>, NEW low, Laid(st, low)
  PROVE  \E b \in Layouts : Laid(Front(st), b) /\ low = Under(b, Last(st))
<1> DEFINE q == Front(st)
           n == Len(q)
<1>1. PICK f : LaysOut(f, st, low)
  BY DEF Laid
<1>2. n \in Nat /\ Len(st) = n + 1 /\ Last(st) = st[n + 1] /\ \A i \in 1..n : q[i] = st[i]
  BY FrontLastProperties, LenProperties
<1> HIDE DEF q, n
<1> DEFINE g == [i \in 0..n |-> f[i]]
<1>3. g \in [0..n -> Layouts] /\ g[0] = Nowhere /\ \A i \in 0..n : g[i] = f[i]
  BY <1>1, <1>2 DEF LaysOut
<1>4. ASSUME NEW i \in 1..n PROVE g[i] = Under(g[i - 1], q[i])
  <2>1. i \in 1..Len(st) /\ i - 1 \in 0..n /\ i \in 0..n
    BY <1>2
  <2>2. f[i] = Under(f[i - 1], st[i])
    BY <1>1, <2>1 DEF LaysOut
  <2> QED
    BY <1>2, <1>3, <2>1, <2>2
<1> HIDE DEF g
<1>5. LaysOut(g, q, g[n])
  BY <1>3, <1>4 DEF LaysOut, n
<1>6. low = Under(g[n], Last(st)) /\ g[n] \in Layouts
  <2>1. n + 1 \in 1..Len(st) /\ n \in 0..n /\ (n + 1) - 1 = n
    BY <1>2
  <2>2. f[n + 1] = Under(f[n], st[n + 1]) /\ f[n + 1] = low
    BY <1>1, <1>2, <2>1 DEF LaysOut
  <2> QED
    BY <1>2, <1>3, <2>1, <2>2
<1> QED
  BY <1>5, <1>6 DEF Laid, q

-----------------------------------------------------------------------------
(* The stack of positions to return to.                                      *)

(* The document's position is pushed first, and once.                        *)
LEMMA RootedPush ==
  ASSUME NEW st, Rooted(st), NEW p, (p \in Inner /\ st # <<>>) \/ (p = "document_end" /\ st = <<>>)
  PROVE  Rooted(Append(st, p)) /\ Append(st, p) # <<>>
<1>1. st \in Seq(Returns) /\ p \in Returns /\ Len(st) \in Nat /\ (Len(st) = 0 <=> st = <<>>)
  BY LenProperties, EmptySeq DEF Rooted, Returns
<1>2. /\ Append(st, p) \in Seq(Returns) /\ Append(st, p) # <<>> /\ Len(Append(st, p)) = Len(st) + 1
      /\ \A i \in 1..Len(st) : Append(st, p)[i] = st[i]
      /\ Append(st, p)[Len(st) + 1] = p
  BY <1>1, AppendProperties
<1>3. p = "document_end" <=> Len(st) + 1 = 1
  BY <1>1 DEF Inner, SeqPositions, Pairs, PairKeys, PairValues, KeyPositions, ValuePositions
<1>4. \A i \in 1..Len(st) : st[i] = "document_end" <=> i = 1
  BY DEF Rooted
<1>5. ASSUME NEW i \in 1..Len(Append(st, p)) PROVE Append(st, p)[i] = "document_end" <=> i = 1
  <2>1. CASE i \in 1..Len(st)
    BY <1>2, <1>4, <2>1
  <2>2. CASE i = Len(st) + 1
    BY <1>2, <1>3, <2>2
  <2> QED
    BY <1>1, <1>2, <2>1, <2>2
<1> QED
  BY <1>2, <1>5 DEF Rooted, Returns

(* The document's position is popped last.                                   *)
LEMMA RootedPop ==
  ASSUME NEW st, Rooted(st), st # <<>>
  PROVE  /\ Rooted(Front(st)) /\ Last(st) \in Returns /\ st \in Seq(Returns)
         /\ Last(st) = "document_end" <=> Front(st) = <<>>
<1>1. st \in Seq(Returns)
  BY DEF Rooted, Returns
<1>2. /\ Front(st) \in Seq(Returns) /\ Last(st) \in Returns /\ Last(st) = st[Len(st)]
      /\ Len(st) \in Nat /\ Len(st) > 0 /\ Len(Front(st)) = Len(st) - 1
      /\ \A i \in 1..Len(Front(st)) : Front(st)[i] = st[i]
  BY <1>1, FrontLastProperties
<1>3. \A i \in 1..Len(st) : st[i] = "document_end" <=> i = 1
  BY DEF Rooted
<1>4. Rooted(Front(st))
  BY <1>2, <1>3 DEF Rooted, Returns
<1>5. Front(st) = <<>> <=> Len(Front(st)) = 0
  BY <1>2, EmptySeq
<1>6. Last(st) = "document_end" <=> Len(st) = 1
  BY <1>2, <1>3
<1> QED
  BY <1>1, <1>2, <1>4, <1>5, <1>6

-----------------------------------------------------------------------------
(* The grammar of the events.                                                *)

(* The grammar's own Last and Front are the parser's.                        *)
LEMMA EventsFrontLast == \A q : Events!Last(q) = Last(q) /\ Events!Front(q) = Front(q)
BY DEF Events!Last, Last, Events!Front, Front

(* What a node does to the frame that expects it.                            *)
LEMMA NodeEvents ==
  ASSUME NEW s \in Seq(Events!Frames), NEW x \in {"root", "seq", "key", "value"}
  PROVE  LET op == Append(s, x)
             done == Append(s, Events!NodeNext[x])
         IN /\ \A type \in Events!Nodes : Events!Allowed(op, type)
            /\ Events!After(op, "Scalar") = done /\ Events!After(op, "Alias") = done
            /\ Events!After(op, "SequenceStart") = Append(done, "seq")
            /\ Events!After(op, "MappingStart") = Append(done, "key")
<1> DEFINE op == Append(s, x)
<1>1. x \in Events!Frames /\ x \in DOMAIN Events!NodeNext
  BY DEF Events!Frames, Events!NodeNext
<1>2. op # <<>> /\ Last(op) = x /\ Front(op) = s
  BY <1>1, FrontLastAppend
<1> HIDE DEF op
<1>3. \A type \in Events!Nodes : Events!Allowed(op, type)
  BY <1>1, <1>2, EventsFrontLast DEF Events!Allowed, Events!Nodes, Events!Starts
<1>4. /\ Events!After(op, "Scalar") = Append(s, Events!NodeNext[x])
      /\ Events!After(op, "Alias") = Append(s, Events!NodeNext[x])
      /\ Events!After(op, "SequenceStart") = Append(Append(s, Events!NodeNext[x]), "seq")
      /\ Events!After(op, "MappingStart") = Append(Append(s, Events!NodeNext[x]), "key")
  BY <1>1, <1>2, EventsFrontLast DEF Events!After
<1> QED
  BY <1>3, <1>4 DEF op

(* A node, where the position to return to awaits it.                        *)
LEMMA AwaitedNode ==
  ASSUME NEW low \in Seq(Events!Frames), NEW p \in Returns
  PROVE  LET op == Awaits(low, p)
         IN /\ \A type \in Events!Nodes : Events!Allowed(op, type)
            /\ Events!After(op, "Scalar") = On(low, p) /\ Events!After(op, "Alias") = On(low, p)
            /\ Events!After(op, "SequenceStart") = Append(On(low, p), "seq")
            /\ Events!After(op, "MappingStart") = Append(On(low, p), "key")
<1>1. Base(low, p) \in Seq(Events!Frames)
  BY FrameTypes
<1>2. Awaiting(p) \in {"root", "seq", "key", "value"}
  BY DEF Awaiting
<1>3. Events!NodeNext[Awaiting(p)] = Top(p)
  BY DEF Returns, Inner, Pairs, SeqPositions, PairKeys, PairValues, KeyPositions, ValuePositions,
     Awaiting, Top, Events!NodeNext
<1> QED
  BY <1>1, <1>2, <1>3, NodeEvents DEF Awaits, On

(* A collection closes when its own kind is on top.                          *)
LEMMA EndEvents ==
  ASSUME NEW s \in Seq(Events!Frames)
  PROVE  /\ Events!Allowed(Append(s, "seq"), "SequenceEnd")
         /\ Events!After(Append(s, "seq"), "SequenceEnd") = s
         /\ Events!Allowed(Append(s, "key"), "MappingEnd")
         /\ Events!After(Append(s, "key"), "MappingEnd") = s
<1>1. "seq" \in Events!Frames /\ "key" \in Events!Frames
  BY DEF Events!Frames
<1>2. /\ Append(s, "seq") # <<>> /\ Last(Append(s, "seq")) = "seq" /\ Front(Append(s, "seq")) = s
      /\ Append(s, "key") # <<>> /\ Last(Append(s, "key")) = "key" /\ Front(Append(s, "key")) = s
  BY <1>1, FrontLastAppend
<1>3. /\ Events!Allowed(Append(s, "seq"), "SequenceEnd")
      /\ Events!Allowed(Append(s, "key"), "MappingEnd")
  BY <1>2, EventsFrontLast DEF Events!Allowed
<1> QED
  BY <1>2, <1>3, EventsFrontLast DEF Events!After

-----------------------------------------------------------------------------
(* What one method does to the stacks and the events.                        *)

(* The positions are told apart by what they stand for.                      *)
LEMMA Classes ==
  /\ Inner \cap Outer = {} /\ Inner \cap Nodal = {} /\ Outer \cap Nodal = {}
  /\ "stream_start" \notin Inner \cup Outer \cup Nodal
  /\ "document_end" \in Outer
BY DEF Inner, Outer, Nodal, NodePositions, Pairs, SeqPositions, PairKeys, PairValues,
   KeyPositions, ValuePositions

(* A node that is done: the parser returns to the position on the stack.     *)
LEMMA NodeDone ==
  ASSUME NEW p \in Nodal, NEW st, NEW op, NEW mk, Agree(p, st, op, mk)
  PROVE  /\ st # <<>> /\ \A type \in Events!Nodes : Events!Allowed(op, type)
         /\ Agree(Last(st), Front(st), Events!After(op, "Scalar"), mk)
         /\ Events!After(op, "Alias") = Events!After(op, "Scalar")
<1>1. Rooted(st) /\ AwaitsNode(st, op, mk)
  BY DEF Agree
<1>2. PICK low \in Layouts : /\ Laid(Front(st), low)
                             /\ op = Awaits(low.open, Last(st))
                             /\ mk = low.marks + Marked(Last(st))
  BY <1>1 DEF AwaitsNode
<1>3. st # <<>> /\ Rooted(Front(st)) /\ Last(st) \in Returns
      /\ (Last(st) = "document_end" <=> Front(st) = <<>>)
  BY <1>1, RootedPop DEF AwaitsNode
<1>4. low.open \in Seq(Events!Frames)
  BY DEF Layouts
<1>5. /\ \A type \in Events!Nodes : Events!Allowed(op, type)
      /\ Events!After(op, "Scalar") = On(low.open, Last(st))
      /\ Events!After(op, "Alias") = On(low.open, Last(st))
  BY <1>2, <1>3, <1>4, AwaitedNode
<1>6. Stands(Last(st), Front(st), Events!After(op, "Scalar"), mk)
  BY <1>2, <1>5 DEF Stands
<1>7. Last(st) = "document_end" \/ (Last(st) \in Inner /\ Last(st) # "document_end")
  BY <1>3, Classes DEF Returns
<1>8. Agree(Last(st), Front(st), Events!After(op, "Scalar"), mk)
  BY <1>3, <1>6, <1>7, Classes DEF Agree
<1> QED
  BY <1>3, <1>5, <1>8

(* A collection that begins.                                                 *)
LEMMA CollectionBegins ==
  ASSUME NEW p \in Nodal, NEW st, NEW op, NEW mk, Agree(p, st, op, mk),
         NEW q \in Inner \ Pairs, Marked(q) = 0, NEW type,
         \/ type = "SequenceStart" /\ Top(q) = "seq"
         \/ type = "MappingStart" /\ Top(q) = "key"
  PROVE  Events!Allowed(op, type) /\ Agree(q, st, Events!After(op, type), mk)
<1>1. Rooted(st) /\ AwaitsNode(st, op, mk)
  BY DEF Agree
<1>2. PICK low \in Layouts : /\ Laid(Front(st), low)
                             /\ op = Awaits(low.open, Last(st))
                             /\ mk = low.marks + Marked(Last(st))
  BY <1>1 DEF AwaitsNode
<1>3. st # <<>> /\ Last(st) \in Returns /\ st \in Seq(Returns)
  BY <1>1, RootedPop DEF AwaitsNode
<1>4. low.open \in Seq(Events!Frames) /\ low.marks \in Nat
  BY DEF Layouts
<1>5. /\ Events!Allowed(op, type)
      /\ Events!After(op, type) = Append(On(low.open, Last(st)), Top(q))
  BY <1>2, <1>3, <1>4, AwaitedNode DEF Events!Nodes, Events!Starts
<1>6. Laid(st, Under(low, Last(st))) /\ Under(low, Last(st)) \in Layouts
  <2>1. Front(st) \in Seq(Returns) /\ st = Append(Front(st), Last(st))
    BY <1>3, FrontLastProperties
  <2> QED
    BY <1>2, <1>3, <2>1, LaidPush
<1>7. Base(Under(low, Last(st)).open, q) = On(low.open, Last(st))
  <2>1. q # "document_end" /\ q \notin Pairs
    BY Classes
  <2> QED
    BY <2>1 DEF Base, Under
<1>8. Events!After(op, type) = On(Under(low, Last(st)).open, q)
  BY <1>5, <1>7 DEF On
<1>9. mk = Under(low, Last(st)).marks + Marked(q)
  <2>1. Under(low, Last(st)).marks = mk /\ Marked(Last(st)) \in Nat
    BY <1>2 DEF Under, Marked
  <2> QED
    BY <1>2, <1>4, <2>1
<1>10. Stands(q, st, Events!After(op, type), mk)
  BY <1>6, <1>8, <1>9 DEF Stands
<1> QED
  BY <1>1, <1>3, <1>5, <1>10, Classes DEF Agree

-----------------------------------------------------------------------------
(* The rows of the tables.                                                   *)

(* Two positions that stand for the same.                                    *)
Alike(p, q) == Top(p) = Top(q) /\ (p \in Pairs <=> q \in Pairs)

Moving(row) ==
  /\ row.emit = "none" /\ row.push = "none"
  /\ \/ row.at \in Nodal /\ row.to \in Nodal /\ row.mark = 0
     \/ /\ \/ row.at \in Inner /\ row.to \in Inner
           \/ row.at \in Outer \ {"document_end", "none"} /\ row.to \in Outer \ {"document_end", "none"}
        /\ Alike(row.at, row.to) /\ Marked(row.to) = Marked(row.at) + row.mark

\* To a node, and back to where the other half of a pair, or the next item, is.
Awaited(p, q) ==
  /\ p \in Inner /\ q \in Inner
  /\ Awaiting(q) = Top(p) /\ (p \in Pairs <=> q \in Pairs) /\ Marked(q) = Marked(p)

Descending(row) ==
  row.emit = "none" /\ row.mark = 0 /\ row.to \in NodePositions /\ Awaited(row.at, row.push)

LeftOut(row) ==
  row.emit = "Empty" /\ row.push = "none" /\ row.mark = 0 /\ Awaited(row.at, row.to)

EmptyRoot(row) ==
  row.emit = "Empty" /\ row.push = "none" /\ row.mark = 0 /\ row.at \in Nodal /\ row.to = "pop"

Closing(row) ==
  /\ row.push = "none" /\ row.to = "pop" /\ row.at \in Inner \ Pairs
  /\ \/ row.emit = "SequenceEnd" /\ Top(row.at) = "seq"
     \/ row.emit = "MappingEnd" /\ Top(row.at) = "key"
  /\ Marked(row.at) + row.mark = 0

PairBegins(row) ==
  /\ row.emit = "MappingStart" /\ row.push = "none" /\ row.mark = 0
  /\ row.at \in SeqPositions /\ row.to \in PairKeys /\ Marked(row.at) = Marked(row.to)

PairEnds(row) ==
  /\ row.emit = "MappingEnd" /\ row.push = "none" /\ row.mark = 0
  /\ row.at \in PairKeys /\ row.to \in SeqPositions /\ Marked(row.at) = Marked(row.to)

OfDocument(row) ==
  /\ row.mark = 0
  /\ \/ /\ row.emit = "StreamStart" /\ row.push = "none"
        /\ row.at = "stream_start" /\ row.to = "implicit_document_start"
     \/ /\ row.emit = "DocumentStart" /\ row.push = "document_end"
        /\ row.at \in Outer \ {"document_end", "none"} /\ row.to \in Nodal
     \/ /\ row.emit = "DocumentEnd" /\ row.push = "none"
        /\ row.at = "document_end" /\ row.to = "document_start"
     \/ /\ row.emit = "StreamEnd" /\ row.push = "none"
        /\ row.at = "document_start" /\ row.to = "none"

Fits(row) ==
  /\ row.mark \in {-1, 0, 1}
  /\ \/ Moving(row) \/ Descending(row) \/ LeftOut(row) \/ EmptyRoot(row) \/ Closing(row)
     \/ PairBegins(row) \/ PairEnds(row) \/ OfDocument(row)

(* Every row of the five tables is of one of these kinds.                    *)
LEMMA DocumentRowsFit == \A row \in DocumentRows : Fits(row)
BY DEF DocumentRows, Row, Go, Take, Empty, Fits, Moving, EmptyRoot, OfDocument, Alike, Marked, Unmarked,
   Top, Pairs, PairKeys, PairValues, SeqPositions, KeyPositions, ValuePositions, Outer, Nodal,
   NodePositions

(* The rows of block collections.                                            *)
LEMMA BlockRowsFit == \A row \in BlockSequenceRows \cup BlockMappingRows : Fits(row)
BY DEF BlockSequenceRows, BlockMappingRows, Row, Begin, Take, Finish, Empty, Node, Fits, Moving,
   Descending, LeftOut, Closing, Awaited, Awaiting, Alike, Marked, Unmarked, Top, Inner, Pairs,
   PairKeys, PairValues, SeqPositions, KeyPositions, ValuePositions, Outer, NodePositions

(* The rows of flow sequences and their pairs.                               *)
LEMMA FlowSequenceRowsFit == \A row \in FlowSequenceRows : Fits(row)
<1> USE DEF Row, Begin, Take, Finish, Empty, Node, Fits, Moving, Descending, LeftOut, Closing,
            PairBegins, PairEnds, Awaited, Awaiting, Alike, Marked, Unmarked, Top, Inner, Pairs,
            PairKeys, PairValues, SeqPositions, KeyPositions, ValuePositions, Outer, NodePositions
<1>1. Fits(Begin("flow_sequence_first_entry", "flow_sequence_entry:item"))
  OBVIOUS
<1>2. Fits(Finish("flow_sequence_entry", "]", "SequenceEnd"))
  OBVIOUS
<1>3. Fits(Take("flow_sequence_entry", {","}, "flow_sequence_entry:item"))
  OBVIOUS
<1>4. Fits(Finish("flow_sequence_entry:item", "]", "SequenceEnd"))
  OBVIOUS
<1>5. Fits(Row("flow_sequence_entry:item", {"?"}, FALSE, "MappingStart", "none",
                "flow_sequence_entry_mapping_key", 0))
  OBVIOUS
<1>6. Fits(Node("flow_sequence_entry:item", But({"]", "?"}), "flow_sequence_entry", "flow_node"))
  OBVIOUS
<1>7. Fits(Take("flow_sequence_entry_mapping_key", Kinds, "flow_sequence_entry_mapping_key:node"))
  OBVIOUS
<1>8. Fits(Empty("flow_sequence_entry_mapping_key:node", {":", ",", "]"},
                "flow_sequence_entry_mapping_value"))
  OBVIOUS
<1>9. Fits(Node("flow_sequence_entry_mapping_key:node", But({":", ",", "]"}),
                "flow_sequence_entry_mapping_value", "flow_node"))
  OBVIOUS
<1>10. Fits(Take("flow_sequence_entry_mapping_value", {":"}, "flow_sequence_entry_mapping_value:node"))
  OBVIOUS
<1>11. Fits(Empty("flow_sequence_entry_mapping_value", But({":"}), "flow_sequence_entry_mapping_end"))
  OBVIOUS
<1>12. Fits(Empty("flow_sequence_entry_mapping_value:node", {",", "]"},
                "flow_sequence_entry_mapping_end"))
  OBVIOUS
<1>13. Fits(Node("flow_sequence_entry_mapping_value:node", But({",", "]"}),
                "flow_sequence_entry_mapping_end", "flow_node"))
  OBVIOUS
<1>14. Fits(Row("flow_sequence_entry_mapping_end", Kinds, FALSE, "MappingEnd", "none",
                "flow_sequence_entry", 0))
  OBVIOUS
<1> HIDE DEF Row, Begin, Take, Finish, Empty, Node, Fits
<1> QED
  BY <1>1, <1>2, <1>3, <1>4, <1>5, <1>6, <1>7, <1>8, <1>9, <1>10, <1>11, <1>12, <1>13, <1>14, ZenonT(30) DEF FlowSequenceRows

(* The rows of flow mappings.                                                *)
LEMMA FlowMappingRowsFit == \A row \in FlowMappingRows : Fits(row)
<1> USE DEF Row, Begin, Take, Finish, Empty, Node, Fits, Moving, Descending, LeftOut, Closing,
            PairBegins, PairEnds, Awaited, Awaiting, Alike, Marked, Unmarked, Top, Inner, Pairs,
            PairKeys, PairValues, SeqPositions, KeyPositions, ValuePositions, Outer, NodePositions
<1>1. Fits(Begin("flow_mapping_first_key", "flow_mapping_key:item"))
  OBVIOUS
<1>2. Fits(Finish("flow_mapping_key", "}", "MappingEnd"))
  OBVIOUS
<1>3. Fits(Take("flow_mapping_key", {","}, "flow_mapping_key:item"))
  OBVIOUS
<1>4. Fits(Finish("flow_mapping_key:item", "}", "MappingEnd"))
  OBVIOUS
<1>5. Fits(Take("flow_mapping_key:item", {"?"}, "flow_mapping_key:node"))
  OBVIOUS
<1>6. Fits(Node("flow_mapping_key:item", But({"}", "?"}), "flow_mapping_empty_value", "flow_node"))
  OBVIOUS
<1>7. Fits(Empty("flow_mapping_key:node", {":", ",", "}"}, "flow_mapping_value"))
  OBVIOUS
<1>8. Fits(Node("flow_mapping_key:node", But({":", ",", "}"}), "flow_mapping_value", "flow_node"))
  OBVIOUS
<1>9. Fits(Take("flow_mapping_value", {":"}, "flow_mapping_value:node"))
  OBVIOUS
<1>10. Fits(Empty("flow_mapping_value", But({":"}), "flow_mapping_key"))
  OBVIOUS
<1>11. Fits(Empty("flow_mapping_value:node", {",", "}"}, "flow_mapping_key"))
  OBVIOUS
<1>12. Fits(Node("flow_mapping_value:node", But({",", "}"}), "flow_mapping_key", "flow_node"))
  OBVIOUS
<1>13. Fits(Empty("flow_mapping_empty_value", Kinds, "flow_mapping_key"))
  OBVIOUS
<1> HIDE DEF Row, Begin, Take, Finish, Empty, Node, Fits
<1> QED
  BY <1>1, <1>2, <1>3, <1>4, <1>5, <1>6, <1>7, <1>8, <1>9, <1>10, <1>11, <1>12, <1>13, ZenonT(30) DEF FlowMappingRows

(* All rows.                                                                 *)
LEMMA RowsFit == \A row \in Rows : Fits(row)
BY DocumentRowsFit, BlockRowsFit, FlowSequenceRowsFit, FlowMappingRowsFit DEF Rows

-----------------------------------------------------------------------------
(* Each kind of row keeps the stacks and the events in step.                 *)

(* The parts of a layout.                                                    *)
LEMMA LayoutTypes ==
  ASSUME NEW low \in Layouts, NEW p
  PROVE  low.open \in Seq(Events!Frames) /\ low.marks \in Nat /\ Marked(p) \in {0, 1}
BY DEF Layouts, Marked

(* On to a position that stands for the same.                                *)
LEMMA MovingAgrees ==
  ASSUME NEW row, Moving(row), row.mark \in {-1, 0, 1},
         NEW st, NEW op, NEW mk \in Int, Agree(row.at, st, op, mk)
  PROVE  Agree(row.to, st, op, mk + row.mark)
<1>1. CASE row.at \in Nodal /\ row.to \in Nodal /\ row.mark = 0
  BY <1>1, Classes DEF Agree
<1>2. CASE /\ \/ row.at \in Inner /\ row.to \in Inner
              \/ row.at \in Outer \ {"document_end", "none"} /\ row.to \in Outer \ {"document_end", "none"}
           /\ Alike(row.at, row.to) /\ Marked(row.to) = Marked(row.at) + row.mark
  <2>1. Stands(row.at, st, op, mk)
    BY <1>2 DEF Agree
  <2>2. \A low : On(low, row.to) = On(low, row.at)
    BY <1>2, Classes DEF On, Base, Alike
  <2>3. Stands(row.to, st, op, mk + row.mark)
    <3>1. PICK low \in Layouts : /\ Laid(st, low) /\ op = On(low.open, row.at)
                                 /\ mk = low.marks + Marked(row.at)
      BY <2>1 DEF Stands
    <3>2. mk + row.mark = low.marks + Marked(row.to)
      BY <1>2, <3>1, LayoutTypes
    <3> QED
      BY <2>2, <3>1, <3>2 DEF Stands
  <2> QED
    BY <1>2, <2>3, Classes DEF Agree
<1> QED
  BY <1>1, <1>2 DEF Moving

(* To a node: the position to come back to awaits it.                        *)
LEMMA AwaitedFrames ==
  ASSUME NEW p, NEW q, Awaited(p, q), NEW low
  PROVE  On(low, p) = Awaits(low, q)
BY Classes DEF Awaited, On, Awaits, Base

(* Down to a node, with the position to come back to pushed.                 *)
LEMMA DescendingAgrees ==
  ASSUME NEW row, Descending(row), NEW st, NEW op, NEW mk \in Int, Agree(row.at, st, op, mk)
  PROVE  Agree(row.to, Append(st, row.push), op, mk + row.mark)
<1> DEFINE q == Append(st, row.push)
<1>1. /\ row.at \in Inner /\ row.push \in Inner /\ row.mark = 0 /\ row.to \in Nodal
      /\ Awaited(row.at, row.push) /\ Marked(row.push) = Marked(row.at)
  BY DEF Descending, Awaited, Nodal
<1>2. Rooted(st) /\ st # <<>> /\ Stands(row.at, st, op, mk)
  BY <1>1 DEF Agree
<1>3. Rooted(q) /\ q # <<>> /\ st \in Seq(Returns) /\ row.push \in Returns
  BY <1>1, <1>2, RootedPush, RootedPop DEF Returns
<1>4. Front(q) = st /\ Last(q) = row.push
  BY <1>3, FrontLastAppend
<1> HIDE DEF q
<1>5. PICK low \in Layouts : /\ Laid(st, low) /\ op = On(low.open, row.at)
                             /\ mk = low.marks + Marked(row.at)
  BY <1>2 DEF Stands
<1>6. op = Awaits(low.open, row.push)
  BY <1>1, <1>5, AwaitedFrames
<1>7. AwaitsNode(q, op, mk)
  BY <1>1, <1>3, <1>4, <1>5, <1>6 DEF AwaitsNode
<1>8. mk + row.mark = mk
  BY <1>1
<1> QED
  BY <1>1, <1>3, <1>7, <1>8, Classes DEF Agree, q

(* A node that is left out is an empty scalar.                               *)
LEMMA LeftOutAgrees ==
  ASSUME NEW row, LeftOut(row), NEW st, NEW op, NEW mk \in Int, Agree(row.at, st, op, mk)
  PROVE  /\ Events!Allowed(op, "Scalar")
         /\ Agree(row.to, st, Events!After(op, "Scalar"), mk + row.mark)
<1>1. /\ row.at \in Inner /\ row.to \in Inner /\ row.mark = 0
      /\ Awaited(row.at, row.to) /\ Marked(row.to) = Marked(row.at)
  BY DEF LeftOut, Awaited
<1>2. Rooted(st) /\ st # <<>> /\ Stands(row.at, st, op, mk)
  BY <1>1 DEF Agree
<1>3. PICK low \in Layouts : /\ Laid(st, low) /\ op = On(low.open, row.at)
                             /\ mk = low.marks + Marked(row.at)
  BY <1>2 DEF Stands
<1>4. op = Awaits(low.open, row.to)
  BY <1>1, <1>3, AwaitedFrames
<1>5. Events!Allowed(op, "Scalar") /\ Events!After(op, "Scalar") = On(low.open, row.to)
  <2>1. row.to \in Returns /\ "Scalar" \in Events!Nodes
    BY <1>1 DEF Returns, Events!Nodes
  <2> QED
    BY <1>4, <2>1, AwaitedNode, LayoutTypes
<1>6. Stands(row.to, st, Events!After(op, "Scalar"), mk)
  BY <1>1, <1>3, <1>5 DEF Stands
<1>7. mk + row.mark = mk
  BY <1>1
<1> QED
  BY <1>1, <1>2, <1>5, <1>6, <1>7, Classes DEF Agree

(* A collection that closes.                                                 *)
LEMMA ClosingAgrees ==
  ASSUME NEW row, Closing(row), row.mark \in {-1, 0, 1},
         NEW st, NEW op, NEW mk \in Int, Agree(row.at, st, op, mk)
  PROVE  /\ Events!Allowed(op, row.emit)
         /\ Agree(Last(st), Front(st), Events!After(op, row.emit), mk + row.mark)
<1> DEFINE p == row.at
<1>1. /\ p \in Inner /\ p \notin Pairs /\ p # "document_end" /\ Marked(p) + row.mark = 0
      /\ \/ row.emit = "SequenceEnd" /\ Top(p) = "seq"
         \/ row.emit = "MappingEnd" /\ Top(p) = "key"
  BY Classes DEF Closing
<1>2. Rooted(st) /\ st # <<>> /\ Stands(p, st, op, mk)
  BY <1>1 DEF Agree
<1>3. PICK low \in Layouts : Laid(st, low) /\ op = On(low.open, p) /\ mk = low.marks + Marked(p)
  BY <1>2 DEF Stands
<1>4. op = Append(low.open, Top(p)) /\ low.open \in Seq(Events!Frames)
  BY <1>1, <1>3, LayoutTypes DEF On, Base
<1>5. Events!Allowed(op, row.emit) /\ Events!After(op, row.emit) = low.open
  BY <1>1, <1>4, EndEvents
<1>6. mk + row.mark = low.marks
  BY <1>1, <1>3, LayoutTypes
<1>7. /\ Rooted(Front(st)) /\ Last(st) \in Returns /\ st \in Seq(Returns)
      /\ (Last(st) = "document_end" <=> Front(st) = <<>>)
  BY <1>2, RootedPop
<1>8. PICK b \in Layouts : Laid(Front(st), b) /\ low = Under(b, Last(st))
  BY <1>2, <1>3, <1>7, LaidPop
<1>9. low.open = On(b.open, Last(st)) /\ low.marks = b.marks + Marked(Last(st))
  BY <1>8 DEF Under
<1>10. Stands(Last(st), Front(st), low.open, low.marks)
  BY <1>8, <1>9 DEF Stands
<1>11. Last(st) = "document_end" \/ (Last(st) \in Inner /\ Last(st) # "document_end")
  BY <1>7, Classes DEF Returns
<1>12. Agree(Last(st), Front(st), low.open, low.marks)
  BY <1>7, <1>10, <1>11, Classes DEF Agree
<1> QED
  BY <1>5, <1>6, <1>12

(* A pair in a flow sequence is a mapping of its own.                        *)
LEMMA PairAgrees ==
  ASSUME NEW row, PairBegins(row) \/ PairEnds(row),
         NEW st, NEW op, NEW mk \in Int, Agree(row.at, st, op, mk)
  PROVE  /\ Events!Allowed(op, row.emit)
         /\ Agree(row.to, st, Events!After(op, row.emit), mk + row.mark)
<1>1. /\ row.at \in Inner /\ row.to \in Inner /\ row.mark = 0 /\ Marked(row.to) = Marked(row.at)
  BY DEF PairBegins, PairEnds, Inner, Pairs
<1>2. Rooted(st) /\ st # <<>> /\ Stands(row.at, st, op, mk)
  BY <1>1 DEF Agree
<1>3. PICK low \in Layouts : /\ Laid(st, low) /\ op = On(low.open, row.at)
                             /\ mk = low.marks + Marked(row.at)
  BY <1>2 DEF Stands
<1>4. low.open \in Seq(Events!Frames) /\ "seq" \in Events!Frames
  BY LayoutTypes DEF Events!Frames
<1>5. /\ \A p \in SeqPositions : On(low.open, p) = Append(low.open, "seq")
      /\ \A p \in PairKeys : On(low.open, p) = Append(Append(low.open, "seq"), "key")
  BY DEF On, Base, Top, Pairs, SeqPositions, PairKeys, PairValues, KeyPositions
<1>6. Append(low.open, "seq") \in Seq(Events!Frames)
  BY <1>4
<1>7. Events!Allowed(op, row.emit) /\ Events!After(op, row.emit) = On(low.open, row.to)
  <2>1. CASE PairBegins(row)
    <3>1. op = Append(low.open, "seq") /\ row.emit = "MappingStart"
          /\ On(low.open, row.to) = Append(Append(low.open, "seq"), "key")
      BY <1>3, <1>5, <2>1 DEF PairBegins
    <3>2. Events!NodeNext["seq"] = "seq" /\ "MappingStart" \in Events!Nodes
      BY DEF Events!NodeNext, Events!Nodes, Events!Starts
    <3> QED
      BY <1>4, <3>1, <3>2, NodeEvents
  <2>2. CASE PairEnds(row)
    <3>1. op = Append(Append(low.open, "seq"), "key") /\ row.emit = "MappingEnd"
          /\ On(low.open, row.to) = Append(low.open, "seq")
      BY <1>3, <1>5, <2>2 DEF PairEnds
    <3> QED
      BY <1>6, <3>1, EndEvents
  <2> QED
    BY <2>1, <2>2
<1>8. Stands(row.to, st, Events!After(op, row.emit), mk)
  BY <1>1, <1>3, <1>7 DEF Stands
<1>9. mk + row.mark = mk
  BY <1>1
<1> QED
  BY <1>1, <1>2, <1>7, <1>8, <1>9, Classes DEF Agree

(* Outside of a node the stacks are empty.                                   *)
LEMMA OuterStands ==
  ASSUME NEW p \in Outer, NEW st, NEW op, NEW mk
  PROVE  Agree(p, st, op, mk) <=> st = <<>> /\ op = On(<<>>, p) /\ mk = 0
<1>1. Rooted(<<>>)
  BY DEF Rooted
<1>2. Marked(p) = 0
  BY DEF Marked, Unmarked
<1>3. Stands(p, <<>>, op, mk) <=> op = On(<<>>, p) /\ mk = 0
  BY <1>2, LaidEmpty DEF Stands, Nowhere
<1> QED
  BY <1>1, <1>3, Classes DEF Agree

(* The short sequences.                                                      *)
LEMMA ShortAppend ==
  /\ \A x : Append(<<>>, x) = <<x>>
  /\ \A x, y : Append(<<x>>, y) = <<x, y>>
<1>1. ASSUME NEW x PROVE Append(<<>>, x) = <<x>>
  <2>1. /\ <<>> \in Seq({x}) /\ Len(<<>>) = 0 /\ <<x>> \in Seq({x}) /\ Len(<<x>>) = 1
        /\ <<x>>[1] = x
    OBVIOUS
  <2>2. /\ Append(<<>>, x) \in Seq({x}) /\ Len(Append(<<>>, x)) = 1
        /\ Append(<<>>, x)[1] = x
    BY <2>1, AppendProperties
  <2>3. \A i \in 1..1 : i = 1
    OBVIOUS
  <2> QED
    BY <2>1, <2>2, <2>3, SeqEqual
<1>2. ASSUME NEW x, NEW y PROVE Append(<<x>>, y) = <<x, y>>
  <2>1. /\ <<x>> \in Seq({x, y}) /\ Len(<<x>>) = 1 /\ <<x>>[1] = x
        /\ <<x, y>> \in Seq({x, y}) /\ Len(<<x, y>>) = 2
        /\ <<x, y>>[1] = x /\ <<x, y>>[2] = y
    OBVIOUS
  <2>2. /\ Append(<<x>>, y) \in Seq({x, y}) /\ Len(Append(<<x>>, y)) = 2
        /\ Append(<<x>>, y)[1] = x /\ Append(<<x>>, y)[2] = y
    BY <2>1, AppendProperties
  <2>3. \A i \in 1..2 : i = 1 \/ i = 2
    OBVIOUS
  <2> QED
    BY <2>1, <2>2, <2>3, SeqEqual
<1> QED
  BY <1>1, <1>2

(* What is open outside of a node.                                           *)
LEMMA OuterFrames ==
  /\ \A p \in {"implicit_document_start", "document_start", "directives"} : On(<<>>, p) = <<"stream">>
  /\ On(<<>>, "document_end") = <<"stream", "rootdone">>
  /\ On(<<>>, "none") = <<"end">>
  /\ Awaits(<<>>, "document_end") = <<"stream", "root">>
<1>1. \A p \in {"implicit_document_start", "document_start", "directives"} :
        Base(<<>>, p) = <<>> /\ Top(p) = "stream"
  BY DEF Base, Top, Pairs, SeqPositions, PairKeys, PairValues, KeyPositions, ValuePositions
<1>2. /\ Base(<<>>, "document_end") = Append(<<>>, "stream") /\ Top("document_end") = "rootdone"
      /\ Awaiting("document_end") = "root"
  BY DEF Base, Top, Awaiting, Pairs, SeqPositions, PairKeys, PairValues, KeyPositions, ValuePositions
<1>3. Base(<<>>, "none") = <<>> /\ Top("none") = "end"
  BY DEF Base, Top, Pairs, SeqPositions, PairKeys, PairValues, KeyPositions, ValuePositions
<1> QED
  BY <1>1, <1>2, <1>3, ShortAppend DEF On, Awaits

(* The events of stream and document.                                        *)
LEMMA DocumentEvents ==
  /\ Events!Allowed(<<>>, "StreamStart") /\ Events!After(<<>>, "StreamStart") = <<"stream">>
  /\ Events!Allowed(<<"stream">>, "StreamEnd") /\ Events!After(<<"stream">>, "StreamEnd") = <<"end">>
  /\ Events!Allowed(<<"stream">>, "DocumentStart")
  /\ Events!After(<<"stream">>, "DocumentStart") = <<"stream", "root">>
  /\ Events!Allowed(<<"stream", "rootdone">>, "DocumentEnd")
  /\ Events!After(<<"stream", "rootdone">>, "DocumentEnd") = <<"stream">>
<1>1. /\ Events!Allowed(<<>>, "StreamStart") /\ Events!Allowed(<<"stream">>, "StreamEnd")
      /\ Events!Allowed(<<"stream">>, "DocumentStart")
      /\ Events!Allowed(<<"stream", "rootdone">>, "DocumentEnd")
  BY DEF Events!Allowed
<1>2. /\ Events!After(<<>>, "StreamStart") = <<"stream">>
      /\ Events!After(<<"stream">>, "StreamEnd") = <<"end">>
  BY DEF Events!After
<1>3. Events!After(<<"stream">>, "DocumentStart") = <<"stream", "root">>
  <2>1. Events!After(<<"stream">>, "DocumentStart") = Append(<<"stream">>, "root")
    BY DEF Events!After
  <2> QED
    BY <2>1, ShortAppend
<1>4. Events!After(<<"stream", "rootdone">>, "DocumentEnd") = <<"stream">>
  <2>1. <<"stream">> \in Seq(Events!Frames) /\ "rootdone" \in Events!Frames
    BY DEF Events!Frames
  <2>2. Append(<<"stream">>, "rootdone") = <<"stream", "rootdone">>
    BY ShortAppend
  <2>3. Front(<<"stream", "rootdone">>) = <<"stream">> /\ <<"stream", "rootdone">> # <<>>
    BY <2>1, <2>2, FrontLastAppend
  <2> QED
    BY <2>3, EventsFrontLast DEF Events!After
<1> QED
  BY <1>1, <1>2, <1>3, <1>4

(* Stream and documents begin and end.                                       *)
LEMMA DocumentAgrees ==
  ASSUME NEW row, OfDocument(row), NEW st, NEW op, NEW mk, Agree(row.at, st, op, mk)
  PROVE  /\ Events!Allowed(op, row.emit)
         /\ Agree(row.to, IF row.push = "none" THEN st ELSE Append(st, row.push),
                  Events!After(op, row.emit), mk + row.mark)
<1>1. row.mark = 0
  BY DEF OfDocument
<1>2. row.at = "stream_start" => st = <<>> /\ mk = 0 /\ op = <<>>
  BY DEF Agree
<1>3. row.at \in Outer => st = <<>> /\ op = On(<<>>, row.at) /\ mk = 0
  BY OuterStands
<1>4. "implicit_document_start" \in Outer /\ "document_start" \in Outer /\ "none" \in Outer
  BY DEF Outer
<1>5. CASE /\ row.emit = "StreamStart" /\ row.push = "none"
           /\ row.at = "stream_start" /\ row.to = "implicit_document_start"
  <2>1. Agree(row.to, <<>>, <<"stream">>, 0)
    BY <1>4, <1>5, OuterStands, OuterFrames
  <2> QED
    BY <1>1, <1>2, <1>5, <2>1, DocumentEvents
<1>6. CASE /\ row.emit = "DocumentStart" /\ row.push = "document_end"
           /\ row.at \in Outer \ {"document_end", "none"} /\ row.to \in Nodal
  <2> DEFINE q == Append(st, "document_end")
  <2>1. st = <<>> /\ op = <<"stream">> /\ mk = 0
    BY <1>3, <1>6, OuterFrames DEF Outer
  <2>2. Rooted(st)
    BY DEF Agree
  <2>3. Rooted(q) /\ q # <<>>
    BY <2>1, <2>2, RootedPush
  <2>4. Front(q) = <<>> /\ Last(q) = "document_end"
    <3>1. <<>> \in Seq({"document_end"})
      OBVIOUS
    <3> QED
      BY <2>1, <3>1, FrontLastAppend
  <2>5. Marked("document_end") = 0 /\ Nowhere.open = <<>> /\ Nowhere.marks = 0
    BY DEF Marked, Unmarked, Outer, Nowhere
  <2> HIDE DEF q
  <2>6. AwaitsNode(q, <<"stream", "root">>, 0)
    <3>1. <<"stream", "root">> = Awaits(Nowhere.open, Last(q))
      BY <2>4, <2>5, OuterFrames
    <3>2. Laid(Front(q), Nowhere) /\ Nowhere \in Layouts
      BY <2>4, LaidEmpty
    <3>3. 0 = Nowhere.marks + Marked(Last(q))
      BY <2>4, <2>5
    <3> QED
      BY <2>3, <3>1, <3>2, <3>3 DEF AwaitsNode
  <2>7. Agree(row.to, q, <<"stream", "root">>, 0)
    BY <1>6, <2>3, <2>6, Classes DEF Agree
  <2> QED
    BY <1>1, <1>6, <2>1, <2>7, DocumentEvents DEF q
<1>7. CASE /\ row.emit = "DocumentEnd" /\ row.push = "none"
           /\ row.at = "document_end" /\ row.to = "document_start"
  <2>1. Agree(row.to, <<>>, <<"stream">>, 0)
    BY <1>4, <1>7, OuterStands, OuterFrames
  <2>2. st = <<>> /\ op = <<"stream", "rootdone">> /\ mk = 0
    BY <1>3, <1>7, OuterFrames, Classes
  <2> QED
    BY <1>1, <1>7, <2>1, <2>2, DocumentEvents
<1>8. CASE /\ row.emit = "StreamEnd" /\ row.push = "none"
           /\ row.at = "document_start" /\ row.to = "none"
  <2>1. Agree(row.to, <<>>, <<"end">>, 0)
    BY <1>4, <1>8, OuterStands, OuterFrames
  <2>2. st = <<>> /\ op = <<"stream">> /\ mk = 0
    BY <1>3, <1>4, <1>8, OuterFrames
  <2> QED
    BY <1>1, <1>8, <2>1, <2>2, DocumentEvents
<1> QED
  BY <1>5, <1>6, <1>7, <1>8 DEF OfDocument

(* The marks are counted by the layout.                                      *)
LEMMA MarksType ==
  ASSUME NEW p, NEW st, NEW op, NEW mk, Agree(p, st, op, mk)
  PROVE  mk \in Nat
<1>1. ASSUME NEW q, Stands(q, st, op, mk) PROVE mk \in Nat
  BY <1>1, LayoutTypes DEF Stands
<1>2. ASSUME AwaitsNode(st, op, mk) PROVE mk \in Nat
  BY <1>2, LayoutTypes DEF AwaitsNode
<1>3. p = "stream_start" => mk \in Nat
  BY DEF Agree
<1>4. p \in {"stream_start"} \cup Outer \cup Inner \cup Nodal
  BY DEF Agree
<1> QED
  BY <1>1, <1>2, <1>3, <1>4 DEF Agree

-----------------------------------------------------------------------------
(* The steps.                                                                *)

(* A step makes no event, an event the grammar allows, or an exception.      *)
Obeys ==
  \/ open' = open \/ open' = <<"error">>
  \/ \E type \in Events!Types : Events!Allowed(open, type) /\ open' = Events!After(open, type)

(* Such a step is one of the grammar's.                                      *)
LEMMA ObeysGrammar == Obeys => [Events!Next]_open
BY DEF Obeys, Events!Next, Events!Make, Events!Break

(* Agreement after a step.                                                   *)
LEMMA AgreesThen ==
  ASSUME Agree(pos', states', open', marks')
  PROVE  GrammarInv'
BY DEF GrammarInv

(* An exception ends the events.                                             *)
LEMMA RaiseObeys ==
  ASSUME NEW what, what # "none", Raise(what)
  PROVE  Obeys /\ GrammarInv'
BY DEF Raise, Obeys, GrammarInv

(* parse_...: any row of the tables.                                         *)
LEMMA FollowObeys ==
  ASSUME Agree(pos, states, open, marks), NEW row \in Rows, row.at = pos, Follow(row)
  PROVE  Obeys /\ GrammarInv'
<1>1. Fits(row) /\ row.mark \in {-1, 0, 1} /\ marks \in Int
  BY RowsFit, MarksType DEF Fits
<1>2. CASE row.emit = "StreamEnd" /\ (states # <<>> \/ marks # 0)
  BY <1>2, RaiseObeys DEF Follow
<1>3. CASE ~(row.emit = "StreamEnd" /\ (states # <<>> \/ marks # 0))
  <2>1. /\ IF row.push = "none" THEN GoTo(row.to)
                               ELSE pos' = row.to /\ states' = Append(states, row.push)
        /\ row.emit = "none" => open' = open
        /\ row.emit = "Empty" => open' = Opened(open, "Scalar")
        /\ row.emit \notin {"none", "Empty"} => open' = Opened(open, row.emit)
        /\ marks' = marks + row.mark
    BY <1>3 DEF Follow, MakeEvent, NoneMade, Event
  <2>2. row.push = "none" /\ row.to # "pop" => pos' = row.to /\ states' = states
    BY <2>1 DEF GoTo
  <2>3. row.push = "none" /\ row.to = "pop" => pos' = Last(states) /\ states' = Front(states)
    BY <2>1 DEF GoTo
  <2>4. row.push # "none" => pos' = row.to /\ states' = Append(states, row.push)
    BY <2>1
  <2>5. "pop" \notin Inner \cup Outer \cup Nodal /\ "none" \notin Inner
    BY DEF Inner, Outer, Nodal, NodePositions, Pairs, SeqPositions, PairKeys, PairValues,
       KeyPositions, ValuePositions
  <2>6. {"Scalar", "SequenceEnd", "MappingEnd", "MappingStart", "StreamStart", "StreamEnd",
         "DocumentStart", "DocumentEnd"} \subseteq Events!Types
    BY DEF Events!Types, Events!Nodes, Events!Starts
  <2>7. CASE Moving(row)
    <3>1. pos' = row.to /\ states' = states /\ open' = open
      BY <2>1, <2>2, <2>5, <2>7 DEF Moving
    <3>2. Agree(row.to, states, open, marks + row.mark)
      BY <1>1, <2>7, MovingAgrees
    <3>3. Agree(pos', states', open', marks')
      BY <2>1, <3>1, <3>2
    <3> QED
      BY <3>1, <3>3, AgreesThen DEF Obeys
  <2>8. CASE Descending(row)
    <3>1. pos' = row.to /\ states' = Append(states, row.push) /\ open' = open
      BY <2>1, <2>4, <2>5, <2>8 DEF Descending, Awaited
    <3>2. Agree(row.to, Append(states, row.push), open, marks + row.mark)
      BY <1>1, <2>8, DescendingAgrees
    <3>3. Agree(pos', states', open', marks')
      BY <2>1, <3>1, <3>2
    <3> QED
      BY <3>1, <3>3, AgreesThen DEF Obeys
  <2>9. CASE LeftOut(row)
    <3>1. /\ Events!Allowed(open, "Scalar")
          /\ Agree(row.to, states, Events!After(open, "Scalar"), marks + row.mark)
      BY <1>1, <2>9, LeftOutAgrees
    <3>2. pos' = row.to /\ states' = states /\ open' = Events!After(open, "Scalar")
      BY <2>1, <2>2, <2>5, <2>9, <3>1 DEF LeftOut, Awaited, Opened
    <3>3. Agree(pos', states', open', marks')
      BY <2>1, <3>1, <3>2
    <3> QED
      BY <2>6, <3>1, <3>2, <3>3, AgreesThen DEF Obeys
  <2>10. CASE EmptyRoot(row)
    <3>1. /\ Events!Allowed(open, "Scalar")
          /\ Agree(Last(states), Front(states), Events!After(open, "Scalar"), marks)
      BY <2>10, NodeDone DEF EmptyRoot, Events!Nodes
    <3>2. /\ pos' = Last(states) /\ states' = Front(states) /\ row.at \in Nodal
          /\ open' = Events!After(open, "Scalar") /\ marks' = marks
      BY <1>1, <2>1, <2>3, <2>10, <3>1 DEF EmptyRoot, Opened
    <3>3. Agree(pos', states', open', marks')
      BY <3>1, <3>2
    <3> QED
      BY <2>6, <3>1, <3>2, <3>3, AgreesThen DEF Obeys
  <2>11. CASE Closing(row)
    <3>1. /\ Events!Allowed(open, row.emit)
          /\ Agree(Last(states), Front(states), Events!After(open, row.emit), marks + row.mark)
      BY <1>1, <2>11, ClosingAgrees
    <3>2. /\ pos' = Last(states) /\ states' = Front(states) /\ open' = Events!After(open, row.emit)
          /\ row.emit \in Events!Types
      BY <2>1, <2>3, <2>6, <2>11, <3>1 DEF Closing, Opened
    <3>3. Agree(pos', states', open', marks')
      BY <2>1, <3>1, <3>2
    <3> QED
      BY <3>1, <3>2, <3>3, AgreesThen DEF Obeys
  <2>12. CASE PairBegins(row) \/ PairEnds(row)
    <3>1. /\ Events!Allowed(open, row.emit)
          /\ Agree(row.to, states, Events!After(open, row.emit), marks + row.mark)
      BY <1>1, <2>12, PairAgrees
    <3>2. /\ pos' = row.to /\ states' = states /\ open' = Events!After(open, row.emit)
          /\ row.emit \in Events!Types
      <4>1. row.to \in Inner
        BY <2>12 DEF PairBegins, PairEnds, Inner, Pairs
      <4> QED
        BY <2>1, <2>2, <2>5, <2>6, <2>12, <3>1, <4>1 DEF PairBegins, PairEnds, Opened
    <3>3. Agree(pos', states', open', marks')
      BY <2>1, <3>1, <3>2
    <3> QED
      BY <3>1, <3>2, <3>3, AgreesThen DEF Obeys
  <2>13. CASE OfDocument(row)
    <3>1. /\ Events!Allowed(open, row.emit)
          /\ Agree(row.to, IF row.push = "none" THEN states ELSE Append(states, row.push),
                   Events!After(open, row.emit), marks + row.mark)
      BY <2>13, DocumentAgrees
    <3>2. /\ pos' = row.to /\ open' = Events!After(open, row.emit) /\ row.emit \in Events!Types
          /\ states' = IF row.push = "none" THEN states ELSE Append(states, row.push)
      BY <2>1, <2>2, <2>4, <2>6, <2>13, <3>1 DEF OfDocument, Opened
    <3>3. Agree(pos', states', open', marks')
      BY <2>1, <3>1, <3>2
    <3> QED
      BY <3>1, <3>2, <3>3, AgreesThen DEF Obeys
  <2> QED
    BY <1>1, <2>7, <2>8, <2>9, <2>10, <2>11, <2>12, <2>13 DEF Fits
<1> QED
  BY <1>2, <1>3

(* The lines before a document.                                              *)
LEMMA DirectiveObeys ==
  ASSUME Agree(pos, states, open, marks), Directive
  PROVE  Obeys /\ GrammarInv'
<1>1. CASE token.text \in handles
  BY <1>1, RaiseObeys DEF Directive
<1>2. CASE token.text \notin handles
  BY <1>2, AgreesThen DEF Directive, NoneMade, Obeys
<1> QED
  BY <1>1, <1>2

(* parse_node: an anchor or a tag.                                           *)
LEMMA PropertyObeys ==
  ASSUME Agree(pos, states, open, marks), Property
  PROVE  Obeys /\ GrammarInv'
<1>1. CASE token.kind = "!" /\ token.text \in Names \ handles
  BY <1>1, RaiseObeys DEF Property
<1>2. CASE ~(token.kind = "!" /\ token.text \in Names \ handles)
  BY <1>2, AgreesThen DEF Property, NoneMade, Obeys
<1> QED
  BY <1>1, <1>2

(* The collection a node is begins at its first entry, or its first key.     *)
LEMMA CollectionStarts ==
  ASSUME NEW where, NEW kind, Collection(where, kind) # <<>>
  PROVE  LET type == Collection(where, kind)[1]
             q == Collection(where, kind)[2]
         IN /\ q \in Inner \ Pairs /\ q # "pop" /\ Marked(q) = 0 /\ type \in Events!Types
            /\ \/ type = "SequenceStart" /\ Top(q) = "seq"
               \/ type = "MappingStart" /\ Top(q) = "key"
<1>1. Collection(where, kind) \in
        {<<"SequenceStart", "indentless_sequence_entry">>,
         <<"SequenceStart", "flow_sequence_first_entry">>,
         <<"MappingStart", "flow_mapping_first_key">>,
         <<"SequenceStart", "block_sequence_first_entry">>,
         <<"MappingStart", "block_mapping_first_key">>}
  BY DEF Collection
<1>2. {"SequenceStart", "MappingStart"} \subseteq Events!Types
  BY DEF Events!Types, Events!Nodes, Events!Starts
<1>3. \A q \in {"indentless_sequence_entry", "flow_sequence_first_entry",
               "block_sequence_first_entry"} :
        q \in Inner \ Pairs /\ q # "pop" /\ Marked(q) = 0 /\ Top(q) = "seq"
  BY DEF Inner, Pairs, Marked, Unmarked, Outer, Top, SeqPositions, PairKeys, PairValues,
     KeyPositions, ValuePositions
<1>4. \A q \in {"flow_mapping_first_key", "block_mapping_first_key"} :
        q \in Inner \ Pairs /\ q # "pop" /\ Marked(q) = 0 /\ Top(q) = "key"
  BY DEF Inner, Pairs, Marked, Unmarked, Outer, Top, SeqPositions, PairKeys, PairValues,
     KeyPositions, ValuePositions
<1> QED
  BY <1>1, <1>2, <1>3, <1>4

(* parse_node: an alias, a scalar, a collection or an empty node.            *)
LEMMA ContentObeys ==
  ASSUME Agree(pos, states, open, marks), Content
  PROVE  Obeys /\ GrammarInv'
<1> DEFINE collection == Collection(pos, token.kind)
<1>1. pos \in Nodal /\ marks' = marks
  BY DEF Content, Nodal
<1>2. /\ Events!Allowed(open, "Scalar") /\ Events!Allowed(open, "Alias")
      /\ Agree(Last(states), Front(states), Events!After(open, "Scalar"), marks)
      /\ Events!After(open, "Alias") = Events!After(open, "Scalar")
  BY <1>1, NodeDone DEF Events!Nodes, Events!Starts
<1>3. "Scalar" \in Events!Types /\ "Alias" \in Events!Types
  BY DEF Events!Types, Events!Nodes, Events!Starts
<1>4. \/ /\ GoTo("pop")
         /\ \/ open' = Opened(open, "Alias")
            \/ open' = Opened(open, "Scalar")
      \/ collection # <<>> /\ GoTo(collection[2]) /\ open' = Opened(open, collection[1])
  BY DEF Content, MakeEvent, Event
<1> HIDE DEF collection
<1>5. CASE GoTo("pop") /\ (\/ open' = Opened(open, "Alias")
                         \/ open' = Opened(open, "Scalar"))
  <2>1. pos' = Last(states) /\ states' = Front(states)
    BY <1>5 DEF GoTo
  <2>2. open' = Events!After(open, "Scalar")
    BY <1>2, <1>5 DEF Opened
  <2>3. Agree(pos', states', open', marks')
    BY <1>1, <1>2, <2>1, <2>2
  <2> QED
    BY <1>2, <1>3, <2>2, <2>3, AgreesThen DEF Obeys
<1>6. CASE collection # <<>> /\ GoTo(collection[2]) /\ open' = Opened(open, collection[1])
  <2>1. /\ collection[2] \in Inner \ Pairs /\ collection[2] # "pop" /\ Marked(collection[2]) = 0
        /\ collection[1] \in Events!Types
        /\ \/ collection[1] = "SequenceStart" /\ Top(collection[2]) = "seq"
           \/ collection[1] = "MappingStart" /\ Top(collection[2]) = "key"
    BY <1>6, CollectionStarts DEF collection
  <2>2. pos' = collection[2] /\ states' = states
    BY <1>6, <2>1 DEF GoTo
  <2>3. /\ Events!Allowed(open, collection[1])
        /\ Agree(collection[2], states, Events!After(open, collection[1]), marks)
    BY <1>1, <2>1, CollectionBegins
  <2>4. open' = Events!After(open, collection[1])
    BY <1>6, <2>3 DEF Opened
  <2>5. Agree(pos', states', open', marks')
    BY <1>1, <2>2, <2>3, <2>4
  <2> QED
    BY <2>1, <2>3, <2>4, <2>5, AgreesThen DEF Obeys
<1> QED
  BY <1>4, <1>5, <1>6

(* fetch_more_tokens makes no events.                                        *)
LEMMA ReadObeys ==
  ASSUME Agree(pos, states, open, marks), Read
  PROVE  Obeys /\ GrammarInv'
<1>1. PICK lex : FetchLexeme(lex)
  BY DEF Read
<1>2. \/ FetchMore(scanner, lex).error # "none" /\ Raise(FetchMore(scanner, lex).error)
      \/ NoneMade /\ UNCHANGED <<pos, states, marks>>
  BY <1>1 DEF FetchLexeme
<1>3. CASE NoneMade /\ UNCHANGED <<pos, states, marks>>
  BY <1>3, AgreesThen DEF NoneMade, Obeys
<1> QED
  BY <1>2, <1>3, RaiseObeys

(* At first nothing is open.                                                 *)
LEMMA GrammarInit == Init => GrammarInv
<1>1. Rooted(<<>>)
  BY DEF Rooted
<1> QED
  BY <1>1, Classes DEF Init, GrammarInv, Agree

(* Every step keeps stacks and events in step.                               *)
LEMMA GrammarStep ==
  ASSUME GrammarInv, [Next]_vars
  PROVE  Obeys /\ GrammarInv'
<1>1. CASE UNCHANGED vars
  BY <1>1 DEF vars, pvars, Obeys, GrammarInv
<1>2. CASE Finished
  BY <1>1, <1>2 DEF Finished
<1>3. ASSUME Read \/ Parse PROVE Agree(pos, states, open, marks)
  BY <1>3 DEF Read, Parse, Step, Directive, Property, Content, Unexpected, Hungry, Ready, Ended,
     GrammarInv
<1>4. CASE Read
  BY <1>3, <1>4, ReadObeys
<1>5. CASE Step
  <2>1. PICK row \in RowsAt[pos] : Follow(row)
    BY <1>5 DEF Step
  <2>2. row \in Rows /\ row.at = pos
    BY <1>5, <2>1 DEF Step, RowsAt
  <2> QED
    BY <1>3, <1>5, <2>1, <2>2, FollowObeys DEF Parse
<1>6. CASE Directive
  BY <1>3, <1>6, DirectiveObeys DEF Parse
<1>7. CASE Property
  BY <1>3, <1>7, PropertyObeys DEF Parse
<1>8. CASE Content
  BY <1>3, <1>8, ContentObeys DEF Parse
<1>9. CASE Unexpected
  BY <1>9, RaiseObeys DEF Unexpected
<1> QED
  BY <1>1, <1>2, <1>4, <1>5, <1>6, <1>7, <1>8, <1>9 DEF Next, Parse

(* The invariant holds in every state: what the stack of states and the marks *)
(* of parser.py stand for is what the events have opened.                    *)
THEOREM GrammarAlways == Spec => []GrammarInv
BY GrammarInit, GrammarStep, PTL DEF Spec

(* parser.py makes events of any tokens in the order that the grammar at the *)
(* head of emitter.py lays down: each is of a type allowed where it comes, or *)
(* "open" would become what no step of YamlEvents makes of it.               *)
THEOREM EventsObeyGrammar == Spec => ImplementsYamlEvents
<1>1. Init => Events!Init
  BY DEF Init, Events!Init
<1>2. GrammarInv /\ [Next]_vars => [Events!Next]_open
  BY GrammarStep, ObeysGrammar
<1> QED
  BY <1>1, <1>2, GrammarAlways, PTL DEF Spec, ImplementsYamlEvents, Events!Spec
-----------------------------------------------------------------------------
(* The scanner.                                                              *)

(* A walk along a sequence: from a number, by the weight of each element, to *)
(* a number, within R.                                                       *)
Walk(f, R, w, q, from, to) ==
  /\ f \in [0..Len(q) -> R] /\ f[0] = from /\ f[Len(q)] = to
  /\ \A i \in 1..Len(q) : f[i] = f[i - 1] + w[q[i]]

Walks(R, w, q, from, to) == \E f : Walk(f, R, w, q, from, to)

-----------------------------------------------------------------------------
(* Walks.                                                                    *)

(* A walk along nothing leads nowhere.                                       *)
LEMMA WalksEmpty ==
  ASSUME NEW R, NEW w, NEW from \in R, NEW to
  PROVE  Walks(R, w, <<>>, from, to) <=> to = from
<1>1. Walk([i \in 0..0 |-> from], R, w, <<>>, from, from)
  BY DEF Walk
<1>2. ASSUME NEW f, Walk(f, R, w, <<>>, from, to) PROVE to = from
  BY <1>2 DEF Walk
<1> QED
  BY <1>1, <1>2 DEF Walks

(* One more element at the end.                                              *)
LEMMA WalksAppend ==
  ASSUME NEW S, NEW R, NEW w, NEW q \in Seq(S), NEW x \in S, NEW from, NEW to,
         Walks(R, w, q, from, to), to + w[x] \in R
  PROVE  Walks(R, w, Append(q, x), from, to + w[x])
<1> DEFINE n == Len(q)
           p == Append(q, x)
<1>1. PICK f : Walk(f, R, w, q, from, to)
  BY DEF Walks
<1>2. n \in Nat /\ Len(p) = n + 1 /\ (\A i \in 1..n : p[i] = q[i]) /\ p[n + 1] = x
  BY AppendProperties, LenProperties
<1> HIDE DEF n, p
<1> DEFINE g == [i \in 0..(n + 1) |-> IF i <= n THEN f[i] ELSE to + w[x]]
<1>3. f \in [0..n -> R] /\ f[0] = from /\ f[n] = to /\ \A i \in 1..n : f[i] = f[i - 1] + w[q[i]]
  BY <1>1 DEF Walk, n
<1>4. g \in [0..(n + 1) -> R]
  BY <1>2, <1>3
<1>5. g[0] = from /\ g[n + 1] = to + w[x] /\ \A i \in 0..n : g[i] = f[i]
  BY <1>2, <1>3
<1> HIDE DEF g
<1>6. ASSUME NEW i \in 1..(n + 1) PROVE g[i] = g[i - 1] + w[p[i]]
  <2>1. CASE i <= n
    <3>1. i \in 1..n /\ i - 1 \in 0..n /\ i \in 0..n
      BY <1>2, <2>1
    <3> QED
      BY <1>2, <1>3, <1>5, <3>1
  <2>2. CASE i = n + 1
    <3>1. i - 1 = n /\ n \in 0..n
      BY <1>2, <2>2
    <3> QED
      BY <1>2, <1>3, <1>5, <2>2, <3>1
  <2> QED
    BY <1>2, <2>1, <2>2
<1>7. Walk(g, R, w, p, from, to + w[x])
  BY <1>2, <1>4, <1>5, <1>6 DEF Walk
<1> QED
  BY <1>7 DEF Walks, p

(* The last element taken away.                                              *)
LEMMA WalksFront ==
  ASSUME NEW S, NEW R \in {Nat, Int}, NEW w \in [S -> R], NEW q \in Seq(S), q # <<>>,
         NEW from, NEW to, Walks(R, w, q, from, to)
  PROVE  \E mid \in R : Walks(R, w, Front(q), from, mid) /\ to = mid + w[Last(q)]
<1> DEFINE p == Front(q)
           n == Len(p)
<1>1. PICK f : Walk(f, R, w, q, from, to)
  BY DEF Walks
<1>2. /\ n \in Nat /\ Len(q) = n + 1 /\ Last(q) = q[n + 1] /\ \A i \in 1..n : p[i] = q[i]
  <2>1. /\ Len(q) \in Nat /\ Len(q) > 0 /\ n = Len(q) - 1 /\ Last(q) = q[Len(q)]
        /\ \A i \in 1..n : p[i] = q[i]
    BY FrontLastProperties
  <2> HIDE DEF n, p
  <2> QED
    BY <2>1
<1> HIDE DEF p, n
<1> DEFINE g == [i \in 0..n |-> f[i]]
<1>3. /\ f \in [0..(n + 1) -> R] /\ f[0] = from /\ f[n + 1] = to
      /\ \A i \in 1..(n + 1) : f[i] = f[i - 1] + w[q[i]]
  BY <1>1, <1>2 DEF Walk
<1>4. g \in [0..n -> R] /\ g[0] = from /\ g[n] = f[n] /\ f[n] \in R /\ \A i \in 0..n : g[i] = f[i]
  BY <1>2, <1>3
<1> HIDE DEF g
<1>5. ASSUME NEW i \in 1..n PROVE g[i] = g[i - 1] + w[p[i]]
  <2>1. i \in 1..(n + 1) /\ i - 1 \in 0..n /\ i \in 0..n
    BY <1>2
  <2> QED
    BY <1>2, <1>3, <1>4, <2>1
<1>6. Walk(g, R, w, p, from, f[n])
  BY <1>4, <1>5 DEF Walk, n
<1>7. to = f[n] + w[Last(q)]
  <2>1. n + 1 \in 1..(n + 1) /\ (n + 1) - 1 = n
    BY <1>2
  <2> QED
    BY <1>2, <1>3, <2>1
<1> QED
  BY <1>4, <1>6, <1>7 DEF Walks, p

(* The first element taken away.                                             *)
LEMMA WalksTail ==
  ASSUME NEW S, NEW w \in [S -> Int], NEW q \in Seq(S), q # <<>>,
         NEW from \in Int, NEW to, Walks(Int, w, q, from, to)
  PROVE  Walks(Int, w, Tail(q), from + w[Head(q)], to)
<1> DEFINE p == Tail(q)
           n == Len(p)
<1>1. PICK f : Walk(f, Int, w, q, from, to)
  BY DEF Walks
<1>2. /\ n \in Nat /\ Len(q) = n + 1 /\ Head(q) = q[1]
      /\ \A i \in 1..n : p[i] = q[i + 1]
  <2>1. q # <<>> /\ Len(q) \in Nat
    BY LenProperties
  <2> QED
    BY <2>1, HeadTailProperties, LenProperties
<1> HIDE DEF p, n
<1> DEFINE g == [i \in 0..n |-> f[i + 1]]
<1>3. /\ f \in [0..(n + 1) -> Int] /\ f[0] = from /\ f[n + 1] = to
      /\ \A i \in 1..(n + 1) : f[i] = f[i - 1] + w[q[i]]
  BY <1>1, <1>2 DEF Walk
<1>4. g \in [0..n -> Int] /\ g[0] = f[1] /\ g[n] = to /\ \A i \in 0..n : g[i] = f[i + 1]
  BY <1>2, <1>3
<1> HIDE DEF g
<1>5. ASSUME NEW i \in 1..n PROVE g[i] = g[i - 1] + w[p[i]]
  <2>1. i + 1 \in 1..(n + 1) /\ i - 1 \in 0..n /\ i \in 0..n /\ (i + 1) - 1 = (i - 1) + 1
    BY <1>2
  <2>2. f[i + 1] = f[(i - 1) + 1] + w[q[i + 1]]
    BY <1>3, <2>1
  <2> QED
    BY <1>2, <1>4, <2>1, <2>2
<1>6. f[1] = from + w[Head(q)]
  <2>1. 1 \in 1..(n + 1) /\ 1 - 1 = 0
    BY <1>2
  <2> QED
    BY <1>2, <1>3, <2>1
<1>7. Walk(g, Int, w, p, from + w[Head(q)], to)
  BY <1>4, <1>5, <1>6 DEF Walk, n
<1> QED
  BY <1>7 DEF Walks, p

(* What a sequence with an element put in has where.                         *)
LEMMA InsertAtProperties ==
  ASSUME NEW S, NEW q \in Seq(S), NEW i \in 1..(Len(q) + 1), NEW x \in S
  PROVE  /\ InsertAt(q, i, x) \in Seq(S) /\ Len(InsertAt(q, i, x)) = Len(q) + 1
         /\ \A j \in 1..(i - 1) : InsertAt(q, i, x)[j] = q[j]
         /\ InsertAt(q, i, x)[i] = x
         /\ \A j \in (i + 1)..(Len(q) + 1) : InsertAt(q, i, x)[j] = q[j - 1]
<1> DEFINE n == Len(q)
           a == SubSeq(q, 1, i - 1)
           b == SubSeq(q, i, n)
<1>1. n \in Nat /\ i \in Int /\ \A j \in 1..n : q[j] \in S
  BY LenProperties, ElementOfSeq
<1>2. a \in Seq(S) /\ Len(a) = i - 1 /\ \A j \in 1..(i - 1) : a[j] = q[j]
  <2>1. \A j \in 1..(i - 1) : q[j] \in S
    BY <1>1
  <2>2. /\ a \in Seq(S) /\ Len(a) = (IF 1 <= i - 1 THEN (i - 1) - 1 + 1 ELSE 0)
        /\ \A j \in 1..((i - 1) - 1 + 1) : a[j] = q[1 + j - 1]
    BY <1>1, <2>1, SubSeqProperties
  <2> QED
    BY <1>1, <2>2
<1>3. b \in Seq(S) /\ Len(b) = n - i + 1 /\ \A j \in 1..(n - i + 1) : b[j] = q[i + j - 1]
  <2>1. \A j \in i..n : q[j] \in S
    BY <1>1
  <2>2. /\ b \in Seq(S) /\ Len(b) = (IF i <= n THEN n - i + 1 ELSE 0)
        /\ \A j \in 1..(n - i + 1) : b[j] = q[i + j - 1]
    BY <1>1, <2>1, SubSeqProperties
  <2> QED
    BY <1>1, <2>2
<1>4. <<x>> \in Seq(S) /\ Len(<<x>>) = 1 /\ <<x>>[1] = x
  OBVIOUS
<1> HIDE DEF a, b, n
<1> DEFINE c == a \o <<x>>
<1>5. c \in Seq(S) /\ Len(c) = i /\ (\A j \in 1..(i - 1) : c[j] = q[j]) /\ c[i] = x
  <2>1. /\ c \in Seq(S) /\ Len(c) = Len(a) + 1
        /\ \A j \in 1..(Len(a) + 1) : c[j] = IF j <= Len(a) THEN a[j] ELSE <<x>>[j - Len(a)]
    BY <1>2, <1>4, ConcatProperties
  <2>2. \A j \in 1..(i - 1) : j \in 1..(Len(a) + 1) /\ j <= Len(a)
    BY <1>1, <1>2
  <2>3. i \in 1..(Len(a) + 1) /\ ~(i <= Len(a)) /\ i - Len(a) = 1 /\ Len(a) + 1 = i
    BY <1>1, <1>2
  <2> HIDE DEF c
  <2> QED
    BY <1>2, <1>4, <2>1, <2>2, <2>3
<1> HIDE DEF c
<1>6. /\ c \o b \in Seq(S) /\ Len(c \o b) = i + (n - i + 1)
      /\ \A j \in 1..(i + (n - i + 1)) : (c \o b)[j] = IF j <= i THEN c[j] ELSE b[j - i]
  <2>1. /\ c \o b \in Seq(S) /\ Len(c \o b) = Len(c) + Len(b)
        /\ \A j \in 1..(Len(c) + Len(b)) : (c \o b)[j] = IF j <= Len(c) THEN c[j] ELSE b[j - Len(c)]
    BY <1>3, <1>5, ConcatProperties
  <2>2. Len(c) = i /\ Len(b) = n - i + 1
    BY <1>3, <1>5
  <2> QED
    BY <2>1, <2>2
<1>7. InsertAt(q, i, x) = c \o b
  BY DEF InsertAt, a, b, c, n
<1>8. Len(c \o b) = n + 1
  BY <1>1, <1>6
<1>9. \A j \in 1..(i - 1) : (c \o b)[j] = q[j]
  BY <1>1, <1>5, <1>6
<1>10. (c \o b)[i] = x
  BY <1>1, <1>5, <1>6
<1>11. ASSUME NEW j \in (i + 1)..(n + 1) PROVE (c \o b)[j] = q[j - 1]
  <2>1. j \in 1..(i + (n - i + 1)) /\ ~(j <= i) /\ j - i \in 1..(n - i + 1) /\ i + (j - i) - 1 = j - 1
    BY <1>1
  <2> QED
    BY <1>3, <1>6, <2>1
<1> QED
  BY <1>6, <1>7, <1>8, <1>9, <1>10, <1>11 DEF n

(* A weightless element put in anywhere.                                     *)
LEMMA WalksInsert ==
  ASSUME NEW S, NEW w \in [S -> Int], NEW q \in Seq(S), NEW from, NEW to, Walks(Int, w, q, from, to),
         NEW i \in 1..(Len(q) + 1), NEW x \in S, w[x] = 0
  PROVE  Walks(Int, w, InsertAt(q, i, x), from, to)
<1> DEFINE n == Len(q)
           p == InsertAt(q, i, x)
<1>1. PICK f : Walk(f, Int, w, q, from, to)
  BY DEF Walks
<1>2. /\ n \in Nat /\ Len(p) = n + 1 /\ (\A j \in 1..(i - 1) : p[j] = q[j]) /\ p[i] = x
      /\ \A j \in (i + 1)..(n + 1) : p[j] = q[j - 1]
  BY InsertAtProperties, LenProperties
<1>3. i \in 1..(n + 1)
  OBVIOUS
<1> HIDE DEF n, p
<1> DEFINE g == [j \in 0..(n + 1) |-> IF j < i THEN f[j] ELSE f[j - 1]]
<1>4. f \in [0..n -> Int] /\ f[0] = from /\ f[n] = to /\ \A j \in 1..n : f[j] = f[j - 1] + w[q[j]]
  BY <1>1 DEF Walk, n
<1>5. g \in [0..(n + 1) -> Int]
  <2>1. ASSUME NEW j \in 0..(n + 1) PROVE (IF j < i THEN f[j] ELSE f[j - 1]) \in Int
    <3>1. (j < i => j \in 0..n) /\ (~(j < i) => j - 1 \in 0..n)
      BY <1>2, <1>3
    <3> QED
      BY <1>4, <3>1
  <2> QED
    BY <2>1
<1>6. /\ g[0] = from /\ g[n + 1] = to
      /\ \A j \in 0..(n + 1) : g[j] = IF j < i THEN f[j] ELSE f[j - 1]
  BY <1>2, <1>3, <1>4
<1> HIDE DEF g
<1>7. ASSUME NEW j \in 1..(n + 1) PROVE g[j] = g[j - 1] + w[p[j]]
  <2>1. j \in 0..(n + 1) /\ j - 1 \in 0..(n + 1)
    BY <1>2
  <2>2. CASE j < i
    <3>1. j \in 1..(i - 1) /\ j \in 1..n /\ j - 1 < i
      BY <1>2, <1>3, <2>2
    <3> QED
      BY <1>2, <1>4, <1>6, <2>1, <2>2, <3>1
  <2>3. CASE j = i
    <3>1. g[j] = f[j - 1] /\ g[j - 1] = f[j - 1] /\ f[j - 1] \in Int
      BY <1>2, <1>3, <1>4, <1>6, <2>1, <2>3
    <3> QED
      BY <1>2, <2>3, <3>1
  <2>4. CASE j > i
    <3>1. j \in (i + 1)..(n + 1) /\ j - 1 \in 1..n /\ ~(j < i) /\ ~(j - 1 < i)
      BY <1>2, <1>3, <2>4
    <3>2. g[j] = f[j - 1] /\ g[j - 1] = f[(j - 1) - 1] /\ p[j] = q[j - 1]
      BY <1>2, <1>6, <2>1, <3>1
    <3> QED
      BY <1>4, <3>1, <3>2
  <2> QED
    BY <1>2, <1>3, <2>2, <2>3, <2>4
<1>8. Walk(g, Int, w, p, from, to)
  BY <1>2, <1>5, <1>6, <1>7 DEF Walk
<1> QED
  BY <1>8 DEF Walks, p

(* Weightless elements put behind.                                           *)
LEMMA WalksConcat ==
  ASSUME NEW S, NEW w \in [S -> Int], NEW q \in Seq(S), NEW from, NEW to, Walks(Int, w, q, from, to),
         NEW t \in Seq(S), \A i \in 1..Len(t) : w[t[i]] = 0
  PROVE  Walks(Int, w, q \o t, from, to)
<1> DEFINE n == Len(q)
           m == Len(t)
           p == q \o t
<1>1. PICK f : Walk(f, Int, w, q, from, to)
  BY DEF Walks
<1>2. /\ n \in Nat /\ m \in Nat /\ Len(p) = n + m
      /\ \A i \in 1..(n + m) : p[i] = IF i <= n THEN q[i] ELSE t[i - n]
  BY ConcatProperties, LenProperties
<1>3. \A i \in 1..m : w[t[i]] = 0
  OBVIOUS
<1> HIDE DEF n, m, p
<1> DEFINE g == [i \in 0..(n + m) |-> IF i <= n THEN f[i] ELSE to]
<1>4. f \in [0..n -> Int] /\ f[0] = from /\ f[n] = to /\ \A i \in 1..n : f[i] = f[i - 1] + w[q[i]]
  BY <1>1 DEF Walk, n
<1>5. g \in [0..(n + m) -> Int] /\ to \in Int
  BY <1>2, <1>4
<1>6. /\ g[0] = from /\ (\A i \in 0..n : g[i] = f[i])
      /\ \A i \in n..(n + m) : g[i] = to
  BY <1>2, <1>4
<1> HIDE DEF g
<1>7. ASSUME NEW i \in 1..(n + m) PROVE g[i] = g[i - 1] + w[p[i]]
  <2>1. CASE i <= n
    <3>1. i \in 1..n /\ i - 1 \in 0..n /\ i \in 0..n
      BY <1>2, <2>1
    <3> QED
      BY <1>2, <1>4, <1>6, <2>1, <3>1
  <2>2. CASE i > n
    <3>1. i \in n..(n + m) /\ i - 1 \in n..(n + m) /\ i - n \in 1..m
      BY <1>2, <2>2
    <3>2. p[i] = t[i - n] /\ w[t[i - n]] = 0 /\ g[i] = to /\ g[i - 1] = to
      BY <1>2, <1>3, <1>6, <2>2, <3>1
    <3> QED
      BY <1>5, <3>2
  <2> QED
    BY <1>2, <2>1, <2>2
<1>8. g[n + m] = to
  <2>1. n + m \in n..(n + m)
    BY <1>2
  <2> QED
    BY <1>6, <2>1
<1>9. Walk(g, Int, w, p, from, to)
  BY <1>2, <1>5, <1>6, <1>7, <1>8 DEF Walk
<1> QED
  BY <1>9 DEF Walks, p

-----------------------------------------------------------------------------
(* The parts of a scanner.                                                   *)

Texts == {"", "t"} \cup Names
Tokens == [kind : Kinds, text : Texts]

(* A token that is not the last of the stream.                               *)
Pending == [kind : Kinds \ {"</stream>"}, text : Texts]

(* What a token changes in the nesting of "[" and "{".                       *)
Delta(kind) ==
  IF kind = "[" \/ kind = "{" THEN 1 ELSE IF kind = "]" \/ kind = "}" THEN -1 ELSE 0
Weight == [t \in Tokens |-> Delta(t.kind)]

KeyRecords == [at : Int, required : BOOLEAN, col : Nat]
KeyTables == UNION {[D -> KeyRecords] : D \in SUBSET Int}

Errors == {"none", "no ':'", "scanner assert", "not allowed here", "bad lexeme"}

Scanners ==
  [tokens : Seq(Tokens), done : BOOLEAN, flow : Int, indents : Seq(Int), allow : BOOLEAN,
   keys : KeyTables, kind : {"other", "plain", "%"}, newline : BOOLEAN, col : Nat,
   error : Errors]

(* The keys are places of the first n tokens, outer ones before inner ones.  *)
KeysOk(keys, n, flow) ==
  /\ keys \in KeyTables
  /\ \A level \in DOMAIN keys :
       /\ keys[level].at \in 0..(n - 1) /\ level \in 0..flow
       /\ \A inner \in DOMAIN keys : level < inner => keys[level].at < keys[inner].at

IndentsOk(q) ==
  q \in Seq(Int) /\ Len(q) > 0 /\ q[1] = -1 /\ \A i \in 2..Len(q) : q[i] >= 0

(* The parser has consumed d more of "[" and "{" than of "]" and "}".        *)
Sound(s, d) ==
  /\ s.tokens \in Seq(Pending) /\ Walks(Int, Weight, s.tokens, d, s.flow)
  /\ IndentsOk(s.indents) /\ KeysOk(s.keys, Len(s.tokens), s.flow)

Reading(s, d) == s \in Scanners /\ ~s.done /\ Sound(s, d)

AtEnd(s, d) ==
  /\ s \in Scanners /\ s.done /\ DOMAIN s.keys = {} /\ Walks(Int, Weight, s.tokens, d, s.flow)
  /\ s.flow = 0 => s.indents = <<-1>>
  /\ \/ s.tokens = <<>>
     \/ \E q \in Seq(Pending) : s.tokens = Append(q, Mark("</stream>"))

(* The fields of a scanner, but those that say where it is in the text.      *)
Is(s, tokens, done, flow, indents, allow, keys, error) ==
  /\ s \in Scanners /\ s.tokens = tokens /\ s.done = done /\ s.flow = flow
  /\ s.indents = indents /\ s.allow = allow /\ s.keys = keys /\ s.error = error

-----------------------------------------------------------------------------
(* Possible simple keys.                                                     *)

(* A table of keys has a record for each of some levels.                     *)
LEMMA KeyTableIs ==
  ASSUME NEW keys
  PROVE  keys \in KeyTables <=> keys \in [DOMAIN keys -> KeyRecords] /\ DOMAIN keys \subseteq Int
<1>1. ASSUME keys \in KeyTables
      PROVE  keys \in [DOMAIN keys -> KeyRecords] /\ DOMAIN keys \subseteq Int
  <2>1. PICK D \in SUBSET Int : keys \in [D -> KeyRecords]
    BY <1>1 DEF KeyTables
  <2>2. DOMAIN keys = D
    BY <2>1
  <2> QED
    BY <2>1, <2>2
<1>2. ASSUME keys \in [DOMAIN keys -> KeyRecords], DOMAIN keys \subseteq Int
      PROVE  keys \in KeyTables
  BY <1>2 DEF KeyTables
<1> QED
  BY <1>1, <1>2

(* Fewer keys.                                                               *)
LEMMA KeysRestrict ==
  ASSUME NEW keys, NEW n, NEW flow, KeysOk(keys, n, flow), NEW levels
  PROVE  KeysOk(Restrict(keys, DOMAIN keys \ levels), n, flow)
<1> DEFINE r == Restrict(keys, DOMAIN keys \ levels)
<1>1. keys \in [DOMAIN keys -> KeyRecords] /\ DOMAIN keys \subseteq Int
  BY KeyTableIs DEF KeysOk
<1>2. DOMAIN r = DOMAIN keys \ levels /\ \A level \in DOMAIN keys \ levels : r[level] = keys[level]
  BY DEF Restrict
<1>3. r \in [DOMAIN keys \ levels -> KeyRecords]
  BY <1>1 DEF Restrict
<1> HIDE DEF r
<1>4. r \in KeyTables
  BY <1>1, <1>2, <1>3, KeyTableIs
<1>5. \A level \in DOMAIN r :
        /\ r[level].at \in 0..(n - 1) /\ level \in 0..flow
        /\ \A inner \in DOMAIN r : level < inner => r[level].at < r[inner].at
  BY <1>2 DEF KeysOk
<1> QED
  BY <1>4, <1>5 DEF KeysOk, r

(* More tokens, and more nesting.                                            *)
LEMMA KeysGrow ==
  ASSUME NEW n \in Nat, NEW flow \in Int, NEW keys, KeysOk(keys, n, flow),
         NEW m \in Nat, m >= n, NEW deeper \in Int, deeper >= flow
  PROVE  KeysOk(keys, m, deeper)
<1>1. ASSUME NEW level \in DOMAIN keys
      PROVE  keys[level].at \in 0..(m - 1) /\ level \in 0..deeper
  <2>1. keys[level].at \in 0..(n - 1) /\ level \in 0..flow
    BY DEF KeysOk
  <2> HIDE DEF KeysOk
  <2> QED
    BY <2>1
<1> QED
  BY <1>1 DEF KeysOk

(* save_possible_simple_key: the token that comes next.                      *)
LEMMA KeysSave ==
  ASSUME NEW n \in Nat, NEW flow \in Nat, NEW keys, KeysOk(keys, n, flow),
         NEW key \in KeyRecords, key.at = n
  PROVE  KeysOk([level \in DOMAIN keys \cup {flow} |-> IF level = flow THEN key ELSE keys[level]],
                n + 1, flow)
<1> DEFINE r == [level \in DOMAIN keys \cup {flow} |-> IF level = flow THEN key ELSE keys[level]]
<1>1. keys \in [DOMAIN keys -> KeyRecords] /\ DOMAIN keys \subseteq Int
  BY KeyTableIs DEF KeysOk
<1>2. /\ DOMAIN r = DOMAIN keys \cup {flow} /\ r[flow] = key
      /\ \A level \in DOMAIN keys : level # flow => r[level] = keys[level]
  OBVIOUS
<1>3. r \in [DOMAIN keys \cup {flow} -> KeyRecords]
  BY <1>1
<1> HIDE DEF r
<1>4. r \in KeyTables
  BY <1>1, <1>2, <1>3, KeyTableIs
<1>5. \A level \in DOMAIN keys :
        /\ keys[level].at \in 0..(n - 1) /\ level \in 0..flow
        /\ \A inner \in DOMAIN keys : level < inner => keys[level].at < keys[inner].at
  BY DEF KeysOk
<1>6. ASSUME NEW level \in DOMAIN r
      PROVE  /\ r[level].at \in 0..((n + 1) - 1) /\ level \in 0..flow
             /\ \A inner \in DOMAIN r : level < inner => r[level].at < r[inner].at
  <2>1. CASE level = flow
    <3>1. \A inner \in DOMAIN r : inner \in Int /\ inner <= flow
      BY <1>1, <1>2, <1>5
    <3> QED
      BY <1>2, <2>1, <3>1
  <2>2. CASE level # flow
    <3>1. level \in DOMAIN keys /\ r[level] = keys[level]
      BY <1>2, <2>2
    <3>2. keys[level].at \in 0..(n - 1) /\ level \in 0..flow
      BY <1>5, <3>1
    <3>3. ASSUME NEW inner \in DOMAIN r, level < inner PROVE r[level].at < r[inner].at
      <4>1. CASE inner = flow
        BY <1>2, <3>1, <3>2, <4>1
      <4>2. CASE inner # flow
        BY <1>2, <1>5, <3>1, <3>3, <4>2
      <4> QED
        BY <4>1, <4>2
    <3>4. r[level].at \in 0..((n + 1) - 1)
      BY <3>1, <3>2
    <3> QED
      BY <3>2, <3>3, <3>4
  <2> QED
    BY <2>1, <2>2
<1> QED
  BY <1>4, <1>6 DEF KeysOk, r

(* fetch_flow_collection_end: no key of the level that ends.                 *)
LEMMA KeysInside ==
  ASSUME NEW keys, NEW n, NEW flow \in Int, KeysOk(keys, n, flow), flow \notin DOMAIN keys
  PROVE  KeysOk(keys, n, flow - 1)
<1>1. ASSUME NEW level \in DOMAIN keys PROVE level \in 0..(flow - 1)
  <2>1. level \in 0..flow /\ level # flow
    BY DEF KeysOk
  <2> HIDE DEF KeysOk
  <2> QED
    BY <2>1
<1> QED
  BY <1>1 DEF KeysOk

(* get_token: every key has come one place nearer.                           *)
LEMMA KeysTaken ==
  ASSUME NEW keys, NEW n \in Nat, NEW flow, KeysOk(keys, n, flow),
         \A level \in DOMAIN keys : keys[level].at # 0
  PROVE  KeysOk(Nearer(keys), n - 1, flow)
<1> DEFINE r == Nearer(keys)
<1>1. keys \in [DOMAIN keys -> KeyRecords] /\ DOMAIN keys \subseteq Int
  BY KeyTableIs DEF KeysOk
<1>2. \A key \in KeyRecords : /\ [key EXCEPT !.at = @ - 1] \in KeyRecords
                              /\ [key EXCEPT !.at = @ - 1].at = key.at - 1 /\ key.at \in Int
  BY DEF KeyRecords
<1>3. \A level \in DOMAIN keys : keys[level] \in KeyRecords
  BY <1>1
<1>4. r \in [DOMAIN keys -> KeyRecords] /\ DOMAIN r = DOMAIN keys
      /\ \A level \in DOMAIN keys : r[level].at = keys[level].at - 1 /\ keys[level].at \in Int
  BY <1>2, <1>3 DEF Nearer
<1> HIDE DEF r
<1>5. r \in KeyTables
  BY <1>1, <1>4, KeyTableIs
<1>6. \A level \in DOMAIN keys :
        /\ keys[level].at \in 0..(n - 1) /\ level \in 0..flow
        /\ \A inner \in DOMAIN keys : level < inner => keys[level].at < keys[inner].at
  BY DEF KeysOk
<1>7. \A level \in DOMAIN keys : keys[level].at # 0
  OBVIOUS
<1>8. \A level \in DOMAIN r :
        /\ r[level].at \in 0..((n - 1) - 1) /\ level \in 0..flow
        /\ \A inner \in DOMAIN r : level < inner => r[level].at < r[inner].at
  BY <1>4, <1>6, <1>7
<1> QED
  BY <1>5, <1>8 DEF KeysOk, r

-----------------------------------------------------------------------------
(* Tokens.                                                                   *)

(* Kinds are told apart by their spelling.                                   *)
LEMMA KindsOf ==
  /\ "<stream>" \in Kinds /\ "<seq>" \in Kinds /\ "<map>" \in Kinds /\ "<end>" \in Kinds
  /\ "%" \in Kinds /\ "---" \in Kinds /\ "..." \in Kinds /\ "[" \in Kinds /\ "]" \in Kinds
  /\ "{" \in Kinds /\ "}" \in Kinds /\ "," \in Kinds /\ "-" \in Kinds /\ "?" \in Kinds
  /\ ":" \in Kinds /\ "*" \in Kinds /\ "&" \in Kinds /\ "!" \in Kinds /\ "scalar" \in Kinds
  /\ "plain" \in Kinds /\ "</stream>" \in Kinds
BY Zenon DEF Kinds

(* Only brackets and braces nest.                                            *)
LEMMA DeltaOf ==
  /\ Delta("[") = 1 /\ Delta("{") = 1 /\ Delta("]") = -1 /\ Delta("}") = -1
  /\ \A kind : kind \notin {"[", "]"} /\ kind # "{" /\ kind # "}" => Delta(kind) = 0
BY DEF Delta

(* What a token weighs is a number.                                          *)
LEMMA DeltaType == \A kind : Delta(kind) \in Int
BY DEF Delta

(* A mark is a token of no text.                                             *)
LEMMA MarkIs ==
  ASSUME NEW kind \in Kinds \ {"</stream>"}
  PROVE  Mark(kind) \in Pending /\ Mark(kind).kind = kind
BY DEF Mark, Token, Pending, Texts

(* A token in front of the last one is a token.                              *)
LEMMA PendingTokens ==
  /\ Pending \subseteq Tokens /\ Seq(Pending) \subseteq Seq(Tokens)
  /\ \A t \in Pending : t.kind \in Kinds /\ t.kind # "</stream>"
  /\ Mark("</stream>") \in Tokens /\ Mark("</stream>").kind = "</stream>"
<1>1. Pending \subseteq Tokens
  BY DEF Pending, Tokens
<1>2. ASSUME NEW q \in Seq(Pending) PROVE q \in Seq(Tokens)
  <2>1. \A i \in 1..Len(q) : q[i] \in Tokens
    BY <1>1, ElementOfSeq
  <2> QED
    BY <2>1
<1>3. \A t \in Pending : t.kind \in Kinds /\ t.kind # "</stream>"
  BY DEF Pending
<1>4. Mark("</stream>") \in Tokens /\ Mark("</stream>").kind = "</stream>"
  BY KindsOf DEF Mark, Token, Tokens, Texts
<1> QED
  BY <1>1, <1>2, <1>3, <1>4

(* The weight of a token is what its kind nests.                             *)
LEMMA WeightIs == Weight \in [Tokens -> Int] /\ \A t \in Tokens : Weight[t] = Delta(t.kind)
BY DeltaType DEF Weight

-----------------------------------------------------------------------------
(* The operators of the scanner, field by field.                             *)

(* A table of no keys.                                                       *)
LEMMA NoKeys == <<>> \in KeyTables /\ DOMAIN <<>> = {}
<1>1. <<>> \in [{} -> KeyRecords] /\ DOMAIN <<>> = {}
  OBVIOUS
<1> QED
  BY <1>1, KeyTableIs

(* The fields of a scanner are what they are.                                *)
LEMMA ScannerIs ==
  ASSUME NEW s \in Scanners
  PROVE  /\ Is(s, s.tokens, s.done, s.flow, s.indents, s.allow, s.keys, s.error)
         /\ s.tokens \in Seq(Tokens) /\ s.done \in BOOLEAN /\ s.flow \in Int /\ s.indents \in Seq(Int)
         /\ s.allow \in BOOLEAN /\ s.keys \in KeyTables /\ s.col \in Nat /\ s.error \in Errors
BY DEF Is, Scanners

(* An exception changes nothing else, and the first one stays.               *)
LEMMA FailIs ==
  ASSUME NEW s \in Scanners, NEW what \in Errors, what # "none"
  PROVE  /\ Is(Fail(s, what), s.tokens, s.done, s.flow, s.indents, s.allow, s.keys, Fail(s, what).error)
         /\ Fail(s, what).error # "none"
<1>1. \A e \in Errors : LET x == [s EXCEPT !.error = e]
                        IN Is(x, s.tokens, s.done, s.flow, s.indents, s.allow, s.keys, e)
  BY DEF Scanners, Is
<1>2. CASE s.error = "none"
  BY <1>1, <1>2 DEF Fail, Is
<1>3. CASE s.error # "none"
  BY <1>3, ScannerIs DEF Fail
<1> QED
  BY <1>2, <1>3

(* A token behind the others.                                                *)
LEMMA AddTokenIs ==
  ASSUME NEW s \in Scanners, NEW t \in Tokens
  PROVE  Is(AddToken(s, t), Append(s.tokens, t), s.done, s.flow, s.indents, s.allow, s.keys, s.error)
<1>1. Append(s.tokens, t) \in Seq(Tokens)
  BY ScannerIs, AppendProperties
<1>2. \A q \in Seq(Tokens) : LET x == [s EXCEPT !.tokens = q]
                            IN Is(x, q, s.done, s.flow, s.indents, s.allow, s.keys, s.error)
  BY DEF Scanners, Is
<1>3. AddToken(s, t) = [s EXCEPT !.tokens = Append(s.tokens, t)]
  BY DEF AddToken
<1> QED
  BY <1>1, <1>2, <1>3

(* Other keys, and whether one is allowed.                                   *)
LEMMA PutKeys ==
  ASSUME NEW s \in Scanners, NEW k \in KeyTables, NEW a \in BOOLEAN
  PROVE  /\ Is([s EXCEPT !.keys = k], s.tokens, s.done, s.flow, s.indents, s.allow, k, s.error)
         /\ Is([s EXCEPT !.allow = a], s.tokens, s.done, s.flow, s.indents, a, s.keys, s.error)
         /\ Is([s EXCEPT !.allow = a, !.keys = k], s.tokens, s.done, s.flow, s.indents, a, k, s.error)
BY DEF Scanners, Is

(* A level of nesting.                                                       *)
LEMMA PutFlow ==
  ASSUME NEW s \in Scanners, NEW f \in Int, NEW a \in BOOLEAN
  PROVE  Is([s EXCEPT !.flow = f, !.allow = a], s.tokens, s.done, f, s.indents, a, s.keys, s.error)
BY DEF Scanners, Is

(* Tokens and the levels of indentation.                                     *)
LEMMA PutIndents ==
  ASSUME NEW s \in Scanners, NEW q \in Seq(Tokens), NEW i \in Seq(Int)
  PROVE  Is([s EXCEPT !.indents = i, !.tokens = q], q, s.done, s.flow, i, s.allow, s.keys, s.error)
BY DEF Scanners, Is

(* A key that was found.                                                     *)
LEMMA PutFound ==
  ASSUME NEW s \in Scanners, NEW q \in Seq(Tokens), NEW k \in KeyTables
  PROVE  Is([s EXCEPT !.keys = k, !.tokens = q, !.allow = FALSE], q, s.done, s.flow, s.indents,
            FALSE, k, s.error)
BY DEF Scanners, Is

(* Fewer keys, or an exception where one of the others was required.         *)
LEMMA DropKeysIs ==
  ASSUME NEW s \in Scanners, NEW levels
  PROVE  LET r == DropKeys(s, levels)
         IN \E k \in {s.keys, Restrict(s.keys, DOMAIN s.keys \ levels)} :
              /\ Is(r, s.tokens, s.done, s.flow, s.indents, s.allow, k, r.error)
              /\ r.error = "none" => s.error = "none" /\ k = Restrict(s.keys, DOMAIN s.keys \ levels)
<1> DEFINE k == Restrict(s.keys, DOMAIN s.keys \ levels)
<1>1. CASE \E level \in levels : s.keys[level].required
  <2>1. DropKeys(s, levels) = Fail(s, "no ':'") /\ "no ':'" \in Errors /\ "no ':'" # "none"
    BY <1>1 DEF DropKeys, Errors
  <2> QED
    BY <2>1, FailIs
<1>2. CASE ~\E level \in levels : s.keys[level].required
  <2>1. DropKeys(s, levels) = [s EXCEPT !.keys = k]
    BY <1>2 DEF DropKeys
  <2>2. k \in KeyTables
    <3>1. s.keys \in [DOMAIN s.keys -> KeyRecords] /\ DOMAIN s.keys \subseteq Int
      BY ScannerIs, KeyTableIs
    <3>2. k \in [DOMAIN s.keys \ levels -> KeyRecords] /\ DOMAIN k = DOMAIN s.keys \ levels
      BY <3>1 DEF Restrict
    <3> HIDE DEF k
    <3> QED
      BY <3>1, <3>2, KeyTableIs
  <2>3. Is([s EXCEPT !.keys = k], s.tokens, s.done, s.flow, s.indents, s.allow, k, s.error)
    BY <2>2, PutKeys
  <2> HIDE DEF k
  <2>4. DropKeys(s, levels).error = s.error
    BY <2>1, <2>3 DEF Is
  <2> QED
    BY <2>1, <2>3, <2>4 DEF k
<1> QED
  BY <1>1, <1>2

-----------------------------------------------------------------------------
(* Indentation.                                                              *)

(* A number of a set of naturals than which none is smaller.                 *)
LEMMA Least ==
  ASSUME NEW S \in SUBSET Nat, S # {}
  PROVE  \E x \in S : \A y \in S : x <= y
<1> DEFINE R == {p \in Nat \X Nat : p[1] < p[2]}
<1>1. IsWellFoundedOn(OpToRel(<, Nat), Nat)
  BY NatLessThanWellFounded
<1>2. OpToRel(<, Nat) = R
  BY DEF OpToRel
<1>3. IsWellFoundedOn(R, Nat)
  BY <1>1, <1>2
<1>4. \A x, y \in Nat : <<y, x>> \in R <=> y < x
  OBVIOUS
<1> HIDE DEF R
<1>5. \E x \in S : \A y \in S : <<y, x>> \notin R
  BY <1>3, WFMin
<1>6. PICK x \in S : \A y \in S : <<y, x>> \notin R
  BY <1>5
<1>7. ASSUME NEW y \in S PROVE x <= y
  <2>1. <<y, x>> \notin R /\ x \in Nat /\ y \in Nat
    BY <1>6
  <2>2. ~(y < x)
    BY <1>4, <2>1
  <2> QED
    BY <2>1, <2>2
<1> QED
  BY <1>7

(* The innermost level that is not beyond the column.                        *)
LEMMA InnermostIs ==
  ASSUME NEW q, IndentsOk(q), NEW col \in Int, col >= -1
  PROVE  LET keep == Max({i \in 1..Len(q) : q[i] <= col})
         IN keep \in 1..Len(q) /\ q[keep] <= col
<1> DEFINE n == Len(q)
           D == {i \in 1..n : q[i] <= col}
           S == {n - i : i \in D}
<1>1. n \in Nat /\ n > 0 /\ 1 \in D
  BY LenProperties DEF IndentsOk
<1>2. S \in SUBSET Nat /\ S # {}
  BY <1>1
<1>3. PICK x \in S : \A y \in S : x <= y
  BY <1>2, Least
<1>4. PICK i \in D : x = n - i
  OBVIOUS
<1>5. \A j \in D : i >= j
  <2>1. \A j \in D : n - j \in S /\ j \in Int
    OBVIOUS
  <2>2. i \in Int
    OBVIOUS
  <2> HIDE DEF D, S, n
  <2> QED
    BY <1>1, <1>3, <1>4, <2>1, <2>2
<1>6. Max(D) \in D
  BY <1>4, <1>5 DEF Max
<1> QED
  BY <1>6

(* unwind_indent: levels go, and as many BLOCK-END tokens come.              *)
LEMMA UnwindIs ==
  ASSUME NEW s \in Scanners, IndentsOk(s.indents), NEW col \in Int, col >= -1
  PROVE  \E q \in Seq(Int), t \in Seq(Pending) :
           /\ Is(Unwind(s, col), s.tokens \o t, s.done, s.flow, q, s.allow, s.keys, s.error)
           /\ IndentsOk(q) /\ \A i \in 1..Len(t) : Weight[t[i]] = 0
           /\ s.flow = 0 /\ col = -1 => q = <<-1>>
<1> DEFINE stack == s.indents
           keep == Max({i \in 1..Len(stack) : stack[i] <= col})
           t == [i \in 1..(Len(stack) - keep) |-> Mark("<end>")]
           q == SubSeq(stack, 1, keep)
<1>1. s.tokens \in Seq(Tokens) /\ stack \in Seq(Int) /\ s.flow \in Int
  BY ScannerIs
<1>2. CASE s.flow # 0
  <2>1. Unwind(s, col) = s /\ s.tokens \o <<>> = s.tokens
    BY <1>1, <1>2 DEF Unwind
  <2>2. <<>> \in Seq(Pending) /\ \A i \in 1..Len(<<>>) : Weight[<<>>[i]] = 0
    OBVIOUS
  <2> QED
    BY <1>1, <1>2, <2>1, <2>2, ScannerIs
<1>3. CASE s.flow = 0
  <2>1. Unwind(s, col) = [s EXCEPT !.indents = q, !.tokens = s.tokens \o t]
    BY <1>3 DEF Unwind
  <2>2. keep \in 1..Len(stack) /\ stack[keep] <= col /\ Len(stack) \in Nat
    BY <1>1, InnermostIs, LenProperties
  <2>3. Mark("<end>") \in Pending /\ Mark("<end>") \in Tokens /\ Weight[Mark("<end>")] = 0
    <3>1. "<end>" \in Kinds \ {"</stream>"} /\ Delta("<end>") = 0
      BY KindsOf, DeltaOf
    <3> QED
      BY <3>1, MarkIs, PendingTokens, WeightIs
  <2> HIDE DEF keep
  <2>4. Len(stack) - keep \in Nat
    BY <2>2
  <2>5. t \in Seq(Pending) /\ t \in Seq(Tokens) /\ \A i \in 1..Len(t) : Weight[t[i]] = 0
    <3> DEFINE m == Len(stack) - keep
    <3> HIDE DEF m
    <3>1. /\ [i \in 1..m |-> Mark("<end>")] \in Seq(Pending)
          /\ [i \in 1..m |-> Mark("<end>")] \in Seq(Tokens)
          /\ \A i \in 1..Len([j \in 1..m |-> Mark("<end>")]) :
               [j \in 1..m |-> Mark("<end>")][i] = Mark("<end>")
      BY <2>3, <2>4 DEF m
    <3> QED
      BY <2>3, <3>1 DEF m
  <2>6. q \in Seq(Int) /\ Len(q) = keep /\ \A i \in 1..keep : q[i] = stack[i]
    <3>1. \A i \in 1..keep : stack[i] \in Int
      BY <1>1, <2>2, ElementOfSeq
    <3>2. /\ q \in Seq(Int) /\ Len(q) = (IF 1 <= keep THEN keep - 1 + 1 ELSE 0)
          /\ \A i \in 1..(keep - 1 + 1) : q[i] = stack[1 + i - 1]
      BY <1>1, <2>2, <3>1, SubSeqProperties
    <3> HIDE DEF q
    <3> QED
      BY <2>2, <3>2
  <2>7. s.tokens \o t \in Seq(Tokens)
    BY <1>1, <2>5, ConcatProperties
  <2> HIDE DEF q, t
  <2>8. Is(Unwind(s, col), s.tokens \o t, s.done, s.flow, q, s.allow, s.keys, s.error)
    BY <2>1, <2>6, <2>7, PutIndents
  <2>9. IndentsOk(q)
    <3>1. stack[1] = -1 /\ \A i \in 2..Len(stack) : stack[i] >= 0
      BY DEF IndentsOk
    <3>2. keep >= 1 /\ keep \in Int /\ \A i \in 2..keep : i \in 2..Len(stack) /\ i \in 1..keep
      BY <2>2
    <3>3. q[1] = -1 /\ \A i \in 2..keep : q[i] >= 0
      BY <2>6, <3>1, <3>2
    <3> QED
      BY <2>6, <3>2, <3>3 DEF IndentsOk
  <2>10. ASSUME col = -1 PROVE q = <<-1>>
    <3>1. keep = 1
      BY <2>2, <2>10 DEF IndentsOk
    <3>2. Len(q) = 1 /\ q[1] = -1
      BY <2>6, <3>1 DEF IndentsOk
    <3> QED
      BY <2>6, <3>2
  <2> QED
    BY <2>5, <2>6, <2>8, <2>9, <2>10
<1> QED
  BY <1>2, <1>3

(* Only the tokens and the levels of indentation have changed.               *)
Kept(r, s) ==
  r.done = s.done /\ r.flow = s.flow /\ r.allow = s.allow /\ r.keys = s.keys /\ r.error = s.error

(* BLOCK-END tokens disturb nothing.                                         *)
LEMMA UnwindReads ==
  ASSUME NEW s, NEW d, Reading(s, d), NEW col \in Int, col >= -1
  PROVE  /\ Reading(Unwind(s, col), d) /\ Kept(Unwind(s, col), s)
         /\ s.flow = 0 /\ col = -1 => Unwind(s, col).indents = <<-1>>
<1> DEFINE r == Unwind(s, col)
<1>1. s \in Scanners /\ ~s.done /\ s.tokens \in Seq(Pending) /\ IndentsOk(s.indents)
      /\ Walks(Int, Weight, s.tokens, d, s.flow) /\ KeysOk(s.keys, Len(s.tokens), s.flow)
  BY DEF Reading, Sound
<1>2. PICK q \in Seq(Int), t \in Seq(Pending) :
        /\ Is(r, s.tokens \o t, s.done, s.flow, q, s.allow, s.keys, s.error)
        /\ IndentsOk(q) /\ \A i \in 1..Len(t) : Weight[t[i]] = 0
        /\ s.flow = 0 /\ col = -1 => q = <<-1>>
  BY <1>1, UnwindIs
<1>3. s.tokens \in Seq(Tokens) /\ t \in Seq(Tokens)
  BY <1>1, PendingTokens
<1> HIDE DEF r
<1>4. Walks(Int, Weight, s.tokens \o t, d, s.flow)
  BY <1>1, <1>2, <1>3, WeightIs, WalksConcat
<1>5. s.tokens \o t \in Seq(Pending) /\ Len(s.tokens \o t) = Len(s.tokens) + Len(t)
      /\ Len(s.tokens) \in Nat /\ Len(t) \in Nat
  BY <1>1, ConcatProperties, LenProperties
<1>6. KeysOk(s.keys, Len(s.tokens \o t), s.flow)
  <2>1. s.flow \in Int /\ Len(s.tokens \o t) \in Nat /\ Len(s.tokens \o t) >= Len(s.tokens)
        /\ s.flow >= s.flow
    BY <1>1, <1>5, ScannerIs
  <2> QED
    BY <1>1, <1>5, <2>1, KeysGrow
<1> QED
  BY <1>1, <1>2, <1>4, <1>5, <1>6 DEF Reading, Sound, Is, Kept, r

(* A level further in.                                                       *)
LEMMA IndentsAppend ==
  ASSUME NEW q, IndentsOk(q), NEW col \in Nat
  PROVE  IndentsOk(Append(q, col))
<1>1. q \in Seq(Int) /\ Len(q) \in Nat /\ Len(q) > 0 /\ q[1] = -1 /\ \A i \in 2..Len(q) : q[i] >= 0
  BY LenProperties DEF IndentsOk
<1>2. /\ Append(q, col) \in Seq(Int) /\ Len(Append(q, col)) = Len(q) + 1
      /\ Append(q, col)[Len(q) + 1] = col /\ \A i \in 1..Len(q) : Append(q, col)[i] = q[i]
  BY <1>1, AppendProperties
<1> DEFINE r == Append(q, col)
           n == Len(q)
<1> HIDE DEF r, n
<1>3. r \in Seq(Int) /\ Len(r) = n + 1 /\ r[n + 1] = col /\ \A i \in 1..n : r[i] = q[i]
  BY <1>2 DEF r, n
<1>4. n \in Nat /\ n > 0 /\ q[1] = -1 /\ \A i \in 2..n : q[i] >= 0
  BY <1>1 DEF n
<1>5. r[1] = -1 /\ Len(r) > 0
  BY <1>3, <1>4
<1>6. ASSUME NEW i \in 2..(n + 1) PROVE r[i] >= 0
  <2>1. CASE i = n + 1
    BY <1>3, <2>1
  <2>2. CASE i # n + 1
    <3>1. i \in 2..n /\ i \in 1..n
      BY <1>4, <2>2
    <3> QED
      BY <1>3, <1>4, <3>1
  <2> QED
    BY <2>1, <2>2
<1> QED
  BY <1>3, <1>5, <1>6 DEF IndentsOk, r

(* add_indent: BLOCK-START in front of a token that begins a collection.     *)
LEMMA AddIndentReads ==
  ASSUME NEW s, NEW d, Reading(s, d), NEW col \in Nat, NEW at \in 0..Len(s.tokens),
         NEW start \in {"<seq>", "<map>"}
  PROVE  Reading(AddIndent(s, col, at, start), d) /\ Kept(AddIndent(s, col, at, start), s)
<1> DEFINE r == AddIndent(s, col, at, start)
           p == InsertAt(s.tokens, at + 1, Mark(start))
           q == Append(s.indents, col)
<1>1. s \in Scanners /\ ~s.done /\ s.tokens \in Seq(Pending) /\ IndentsOk(s.indents)
      /\ Walks(Int, Weight, s.tokens, d, s.flow) /\ KeysOk(s.keys, Len(s.tokens), s.flow)
  BY DEF Reading, Sound
<1>2. CASE s.flow = 0 /\ Indent(s) < col
  <2>1. r = [s EXCEPT !.indents = q, !.tokens = p]
    BY <1>2 DEF AddIndent
  <2>2. start \in Kinds \ {"</stream>"} /\ Delta(start) = 0
    BY KindsOf, DeltaOf
  <2>3. Mark(start) \in Pending /\ Mark(start) \in Tokens /\ Weight[Mark(start)] = 0
    BY <2>2, MarkIs, PendingTokens, WeightIs
  <2>4. Len(s.tokens) \in Nat /\ at + 1 \in 1..(Len(s.tokens) + 1) /\ s.tokens \in Seq(Tokens)
    BY <1>1, LenProperties, PendingTokens
  <2>5. p \in Seq(Pending) /\ Len(p) = Len(s.tokens) + 1
    <3>1. ASSUME NEW w \in Seq(Pending), NEW i \in 1..(Len(w) + 1), NEW x \in Pending
          PROVE  InsertAt(w, i, x) \in Seq(Pending) /\ Len(InsertAt(w, i, x)) = Len(w) + 1
      BY InsertAtProperties
    <3> QED
      BY <1>1, <2>3, <2>4, <3>1
  <2>6. p \in Seq(Tokens)
    BY <2>5, PendingTokens
  <2>7. Walks(Int, Weight, p, d, s.flow)
    BY <1>1, <2>3, <2>4, WeightIs, WalksInsert
  <2>8. q \in Seq(Int) /\ IndentsOk(q)
    <3>1. s.indents \in Seq(Int)
      BY <1>1 DEF IndentsOk
    <3> QED
      BY <1>1, <3>1, IndentsAppend, AppendProperties
  <2> HIDE DEF p, q, r
  <2>9. Is(r, p, s.done, s.flow, q, s.allow, s.keys, s.error)
    BY <1>1, <2>1, <2>6, <2>8, PutIndents
  <2>10. KeysOk(s.keys, Len(p), s.flow)
    <3>1. s.flow \in Int /\ Len(p) \in Nat /\ Len(p) >= Len(s.tokens) /\ s.flow >= s.flow
      BY <1>1, <2>4, <2>5, ScannerIs
    <3> QED
      BY <1>1, <2>4, <3>1, KeysGrow
  <2> QED
    BY <1>1, <2>5, <2>7, <2>8, <2>9, <2>10 DEF Reading, Sound, Is, Kept, r
<1>3. CASE ~(s.flow = 0 /\ Indent(s) < col)
  BY <1>3 DEF AddIndent, Kept
<1> QED
  BY <1>2, <1>3

-----------------------------------------------------------------------------
(* The fetchers.                                                             *)

(* A token behind the others, counted by what it nests.                      *)
LEMMA AddTokenReads ==
  ASSUME NEW s \in Scanners, NEW d, ~s.done, s.tokens \in Seq(Pending), IndentsOk(s.indents),
         NEW f \in Int, Walks(Int, Weight, s.tokens, d, f),
         KeysOk(s.keys, Len(s.tokens) + 1, s.flow),
         NEW t \in Pending, s.flow = f + Delta(t.kind)
  PROVE  Reading(AddToken(s, t), d)
<1> DEFINE r == AddToken(s, t)
           q == Append(s.tokens, t)
<1>1. t \in Tokens /\ s.tokens \in Seq(Tokens) /\ Weight[t] = Delta(t.kind) /\ s.flow \in Int
  BY PendingTokens, WeightIs, ScannerIs
<1>2. Is(r, q, s.done, s.flow, s.indents, s.allow, s.keys, s.error)
  BY <1>1, AddTokenIs
<1>3. q \in Seq(Pending) /\ Len(q) = Len(s.tokens) + 1
  BY AppendProperties
<1>4. Walks(Int, Weight, q, d, f + Weight[t])
  <2>1. f + Weight[t] \in Int
    BY <1>1
  <2> QED
    BY <1>1, <2>1, WalksAppend
<1> HIDE DEF r, q
<1> QED
  BY <1>1, <1>2, <1>3, <1>4 DEF Reading, Sound, Is, r

(* A token that does not nest.                                               *)
LEMMA AddPlainReads ==
  ASSUME NEW s, NEW d, Reading(s, d), NEW t \in Pending, Delta(t.kind) = 0
  PROVE  Reading(AddToken(s, t), d)
<1>1. s \in Scanners /\ ~s.done /\ s.tokens \in Seq(Pending) /\ IndentsOk(s.indents)
      /\ Walks(Int, Weight, s.tokens, d, s.flow) /\ KeysOk(s.keys, Len(s.tokens), s.flow)
  BY DEF Reading, Sound
<1>2. s.flow \in Int /\ Len(s.tokens) \in Nat
  BY <1>1, ScannerIs, LenProperties
<1>3. s.flow = s.flow + Delta(t.kind) /\ Len(s.tokens) + 1 >= Len(s.tokens)
      /\ Len(s.tokens) + 1 \in Nat /\ s.flow >= s.flow
  BY <1>2
<1>4. KeysOk(s.keys, Len(s.tokens) + 1, s.flow)
  BY <1>1, <1>2, <1>3, KeysGrow
<1> QED
  BY <1>1, <1>2, <1>3, <1>4, AddTokenReads

(* Whether a key is allowed does not matter.                                 *)
LEMMA AllowReads ==
  ASSUME NEW s, NEW d, Reading(s, d), NEW a \in BOOLEAN
  PROVE  LET r == [s EXCEPT !.allow = a]
         IN /\ Reading(r, d) /\ r.tokens = s.tokens /\ r.flow = s.flow /\ r.indents = s.indents
            /\ r.keys = s.keys /\ r.error = s.error /\ r.done = s.done
<1> DEFINE r == [s EXCEPT !.allow = a]
<1>1. Is(r, s.tokens, s.done, s.flow, s.indents, a, s.keys, s.error)
  <2>1. s \in Scanners
    BY DEF Reading
  <2> QED
    BY <2>1, NoKeys, PutKeys
<1> HIDE DEF r
<1>2. Reading(r, d)
  BY <1>1 DEF Reading, Sound, Is
<1> QED
  BY <1>1, <1>2 DEF Is, r

(* Keys that are dropped disturb nothing.                                    *)
LEMMA DropKeysReads ==
  ASSUME NEW s, NEW d, Reading(s, d), NEW levels
  PROVE  LET r == DropKeys(s, levels)
         IN /\ Reading(r, d) /\ r.tokens = s.tokens /\ r.flow = s.flow /\ r.indents = s.indents
            /\ r.done = s.done /\ r.allow = s.allow
            /\ r.error = "none" =>
                 s.error = "none" /\ DOMAIN r.keys = DOMAIN s.keys \ levels
<1> DEFINE r == DropKeys(s, levels)
<1>1. s \in Scanners /\ ~s.done /\ s.tokens \in Seq(Pending) /\ IndentsOk(s.indents)
      /\ Walks(Int, Weight, s.tokens, d, s.flow) /\ KeysOk(s.keys, Len(s.tokens), s.flow)
  BY DEF Reading, Sound
<1>2. PICK k \in {s.keys, Restrict(s.keys, DOMAIN s.keys \ levels)} :
        /\ Is(r, s.tokens, s.done, s.flow, s.indents, s.allow, k, r.error)
        /\ r.error = "none" => s.error = "none" /\ k = Restrict(s.keys, DOMAIN s.keys \ levels)
  BY <1>1, DropKeysIs
<1>3. KeysOk(k, Len(s.tokens), s.flow)
  BY <1>1, KeysRestrict
<1>4. DOMAIN Restrict(s.keys, DOMAIN s.keys \ levels) = DOMAIN s.keys \ levels
  BY DEF Restrict
<1> HIDE DEF r
<1>5. Reading(r, d)
  BY <1>1, <1>2, <1>3 DEF Reading, Sound, Is
<1> QED
  BY <1>2, <1>4, <1>5 DEF Is, r

(* remove_possible_simple_key.                                               *)
LEMMA RemoveKeyReads ==
  ASSUME NEW s, NEW d, Reading(s, d)
  PROVE  LET r == RemoveKey(s)
         IN /\ Reading(r, d) /\ r.tokens = s.tokens /\ r.flow = s.flow /\ r.indents = s.indents
            /\ r.done = s.done /\ r.allow = s.allow
            /\ r.error = "none" => s.error = "none" /\ s.flow \notin DOMAIN r.keys
<1> DEFINE levels == DOMAIN s.keys \cap {s.flow}
<1>1. RemoveKey(s) = DropKeys(s, levels) /\ s.flow \notin DOMAIN s.keys \ levels
  BY DEF RemoveKey
<1> HIDE DEF levels
<1> QED
  BY <1>1, DropKeysReads

(* save_possible_simple_key: the key is the token that comes next.           *)
Saved(r, s, d) ==
  /\ r \in Scanners /\ ~r.done /\ r.tokens = s.tokens /\ r.flow = s.flow /\ r.indents = s.indents
  /\ KeysOk(r.keys, Len(s.tokens) + 1, s.flow)

(* It is saved whether or not one of its level was there before.             *)
LEMMA SaveKeySaves ==
  ASSUME NEW s, NEW d, Reading(s, d), s.flow >= 0, NEW col \in Nat
  PROVE  Saved(SaveKey(s, col), s, d)
<1> DEFINE required == s.flow = 0 /\ Indent(s) = col
           key == [at |-> Len(s.tokens), required |-> required, col |-> col]
           x == RemoveKey(s)
           k == [level \in DOMAIN x.keys \cup {s.flow} |-> IF level = s.flow THEN key ELSE x.keys[level]]
<1>1. s \in Scanners /\ ~s.done /\ KeysOk(s.keys, Len(s.tokens), s.flow)
      /\ s.tokens \in Seq(Pending)
  BY DEF Reading, Sound
<1>2. s.flow \in Nat /\ Len(s.tokens) \in Nat
  BY <1>1, ScannerIs, LenProperties
<1>3. KeysOk(s.keys, Len(s.tokens) + 1, s.flow)
  <2>1. Len(s.tokens) + 1 \in Nat /\ Len(s.tokens) + 1 >= Len(s.tokens) /\ s.flow >= s.flow
        /\ s.flow \in Int
    BY <1>2
  <2> QED
    BY <1>1, <1>2, <2>1, KeysGrow
<1>4. CASE required /\ ~s.allow
  <2>1. SaveKey(s, col) = Fail(s, "scanner assert") /\ "scanner assert" \in Errors
        /\ "scanner assert" # "none"
    BY <1>4 DEF SaveKey, Errors
  <2>2. Is(Fail(s, "scanner assert"), s.tokens, s.done, s.flow, s.indents, s.allow, s.keys,
           Fail(s, "scanner assert").error)
    BY <1>1, <2>1, FailIs
  <2> QED
    BY <1>1, <1>3, <2>1, <2>2 DEF Saved, Is
<1>5. CASE s.allow
  <2>1. SaveKey(s, col) = [x EXCEPT !.keys = k]
    BY <1>5 DEF SaveKey
  <2>2. /\ Reading(x, d) /\ x.tokens = s.tokens /\ x.flow = s.flow /\ x.indents = s.indents
        /\ x.done = s.done
    BY RemoveKeyReads
  <2>3. key \in KeyRecords /\ key.at = Len(s.tokens)
    <3>1. required \in BOOLEAN
      OBVIOUS
    <3> HIDE DEF required
    <3> QED
      BY <1>2, <3>1 DEF KeyRecords
  <2> HIDE DEF x, key
  <2>4. x \in Scanners /\ KeysOk(x.keys, Len(s.tokens), s.flow)
    BY <2>2 DEF Reading, Sound
  <2>5. KeysOk(k, Len(s.tokens) + 1, s.flow)
    BY <1>2, <2>3, <2>4, KeysSave
  <2> HIDE DEF k
  <2>6. k \in KeyTables
    BY <2>5 DEF KeysOk
  <2>7. Is([x EXCEPT !.keys = k], x.tokens, x.done, x.flow, x.indents, x.allow, k, x.error)
    BY <2>4, <2>6, PutKeys
  <2> QED
    BY <1>1, <2>1, <2>2, <2>5, <2>7 DEF Saved, Is
<1>6. CASE ~(required /\ ~s.allow) /\ ~s.allow
  <2>1. SaveKey(s, col) = s
    BY <1>6 DEF SaveKey
  <2> QED
    BY <1>1, <1>3, <2>1 DEF Saved
<1> QED
  BY <1>4, <1>5, <1>6

(* What a fetcher leaves, unless it has raised an exception.                 *)
Ending(r, d) == AtEnd(r, d) /\ r.tokens # <<>>
Fetched(r, d) == r \in Scanners /\ (r.error = "none" => Reading(r, d) \/ Ending(r, d))

(* No exception, and more to read.                                           *)
LEMMA ReadingFetched ==
  ASSUME NEW r, NEW d, Reading(r, d)
  PROVE  Fetched(r, d)
BY DEF Reading, Fetched

(* A token of a kind.                                                        *)
LEMMA TokenIs ==
  ASSUME NEW kind \in Kinds \ {"</stream>"}, NEW text \in Texts
  PROVE  Token(kind, text) \in Pending /\ Token(kind, text).kind = kind
BY DEF Token, Pending

(* fetch_stream_end: no key is left, and no indentation outside of brackets. *)
LEMMA FetchStreamEndReads ==
  ASSUME NEW s, NEW d, Reading(s, d)
  PROVE  Fetched(FetchStreamEnd(s), d)
<1> DEFINE u == Unwind(s, -1)
           x == [u EXCEPT !.allow = FALSE, !.keys = <<>>]
           t == Mark("</stream>")
           y == AddToken(x, t)
           r == [y EXCEPT !.done = TRUE]
           q == Append(u.tokens, t)
<1>1. FetchStreamEnd(s) = r
  BY DEF FetchStreamEnd
<1>2. Reading(u, d) /\ Kept(u, s) /\ (s.flow = 0 => u.indents = <<-1>>)
  <2>1. -1 \in Int /\ -1 >= -1
    OBVIOUS
  <2> QED
    BY <2>1, UnwindReads
<1> HIDE DEF u
<1>3. u \in Scanners /\ u.tokens \in Seq(Pending) /\ Walks(Int, Weight, u.tokens, d, u.flow)
      /\ u.flow = s.flow
  BY <1>2 DEF Reading, Sound, Kept
<1>4. t \in Tokens /\ Weight[t] = 0 /\ u.tokens \in Seq(Tokens) /\ u.flow \in Int
  <2>1. t \in Tokens /\ t.kind = "</stream>" /\ u.tokens \in Seq(Tokens)
    BY <1>3, PendingTokens
  <2> HIDE DEF t
  <2> QED
    BY <1>3, <2>1, WeightIs, DeltaOf, ScannerIs
<1>5. Is(x, u.tokens, u.done, u.flow, u.indents, FALSE, <<>>, u.error)
  <2>1. FALSE \in BOOLEAN /\ <<>> \in KeyTables
    BY NoKeys
  <2> QED
    BY <1>3, <2>1, PutKeys
<1> HIDE DEF x, t
<1>6. Is(y, q, u.done, u.flow, u.indents, FALSE, <<>>, u.error)
  <2>1. x \in Scanners
    BY <1>5 DEF Is
  <2>2. Is(y, Append(x.tokens, t), x.done, x.flow, x.indents, x.allow, x.keys, x.error)
    BY <1>4, <2>1, AddTokenIs
  <2> HIDE DEF y
  <2> QED
    BY <1>5, <2>2 DEF Is
<1> HIDE DEF y
<1>7. Is(r, q, TRUE, u.flow, u.indents, FALSE, <<>>, u.error)
  <2>1. \A z \in Scanners : LET w == [z EXCEPT !.done = TRUE]
                           IN Is(w, z.tokens, TRUE, z.flow, z.indents, z.allow, z.keys, z.error)
    BY DEF Scanners, Is
  <2>2. y \in Scanners
    BY <1>6 DEF Is
  <2>3. Is(r, y.tokens, TRUE, y.flow, y.indents, y.allow, y.keys, y.error)
    BY <2>1, <2>2
  <2> HIDE DEF r
  <2> QED
    BY <1>6, <2>3 DEF Is
<1>8. Walks(Int, Weight, q, d, u.flow)
  <2>1. u.flow + Weight[t] = u.flow /\ u.flow + Weight[t] \in Int
    BY <1>4
  <2>2. Walks(Int, Weight, q, d, u.flow + Weight[t])
    BY <1>3, <1>4, <2>1, WalksAppend
  <2> QED
    BY <2>1, <2>2
<1>9. \E p \in Seq(Pending) : q = Append(p, Mark("</stream>"))
  BY <1>3 DEF t
<1>10. q # <<>>
  BY <1>4, AppendProperties
<1>11. Ending(r, d)
  <2> HIDE DEF r, q
  <2> QED
    BY <1>2, <1>3, <1>7, <1>8, <1>9, <1>10, NoKeys DEF Ending, AtEnd, Is
<1> QED
  BY <1>1, <1>11 DEF Fetched, Ending, AtEnd

(* fetch_directive and fetch_document_indicator.                             *)
LEMMA FetchDocumentReads ==
  ASSUME NEW s, NEW d, Reading(s, d), NEW t \in Pending, Delta(t.kind) = 0
  PROVE  Reading(FetchDocument(s, t), d)
<1> DEFINE u == Unwind(s, -1)
           x == RemoveKey(u)
           y == [x EXCEPT !.allow = FALSE]
<1>1. Reading(u, d)
  <2>1. -1 \in Int /\ -1 >= -1
    OBVIOUS
  <2> QED
    BY <2>1, UnwindReads
<1>2. FetchDocument(s, t) = AddToken(y, t)
  BY DEF FetchDocument
<1> HIDE DEF u
<1>3. Reading(x, d)
  BY <1>1, RemoveKeyReads
<1> HIDE DEF x
<1>4. Reading(y, d)
  BY <1>3, AllowReads
<1> HIDE DEF y
<1> QED
  BY <1>2, <1>4, AddPlainReads

(* fetch_flow_sequence_start and fetch_flow_mapping_start.                   *)
LEMMA FetchFlowStartReads ==
  ASSUME NEW s, NEW d, Reading(s, d), s.flow >= 0, NEW col \in Nat,
         NEW kind \in Kinds \ {"</stream>"}, Delta(kind) = 1
  PROVE  Reading(FetchFlowStart(s, kind, col), d)
<1> DEFINE x == SaveKey(s, col)
           y == [x EXCEPT !.flow = x.flow + 1, !.allow = TRUE]
<1>1. FetchFlowStart(s, kind, col) = AddToken(y, Mark(kind))
  BY DEF FetchFlowStart
<1>2. /\ x \in Scanners /\ ~x.done /\ x.tokens = s.tokens /\ x.flow = s.flow /\ x.indents = s.indents
      /\ KeysOk(x.keys, Len(s.tokens) + 1, s.flow)
  BY SaveKeySaves DEF Saved
<1>3. s.tokens \in Seq(Pending) /\ IndentsOk(s.indents) /\ Walks(Int, Weight, s.tokens, d, s.flow)
      /\ s.flow \in Int /\ Len(s.tokens) \in Nat
  BY ScannerIs, LenProperties DEF Reading, Sound
<1> HIDE DEF x
<1>4. Is(y, x.tokens, x.done, x.flow + 1, x.indents, TRUE, x.keys, x.error)
  <2>1. x.flow + 1 \in Int /\ TRUE \in BOOLEAN
    BY <1>2, <1>3
  <2> QED
    BY <1>2, <2>1, PutFlow
<1>5. KeysOk(x.keys, Len(s.tokens) + 1, s.flow + 1)
  <2>1. Len(s.tokens) + 1 \in Nat /\ Len(s.tokens) + 1 >= Len(s.tokens) + 1 /\ s.flow + 1 \in Int
        /\ s.flow + 1 >= s.flow
    BY <1>3
  <2> QED
    BY <1>2, <1>3, <2>1, KeysGrow
<1>6. Mark(kind) \in Pending /\ Mark(kind).kind = kind
  BY MarkIs
<1> HIDE DEF y
<1>7. /\ y \in Scanners /\ ~y.done /\ y.tokens = s.tokens /\ y.flow = s.flow + Delta(Mark(kind).kind)
      /\ y.indents = s.indents /\ KeysOk(y.keys, Len(y.tokens) + 1, y.flow)
  BY <1>2, <1>4, <1>5, <1>6 DEF Is
<1> QED
  BY <1>1, <1>3, <1>6, <1>7, AddTokenReads

(* fetch_flow_sequence_end and fetch_flow_mapping_end: the key of the level  *)
(* that ends goes with it.                                                   *)
LEMMA FetchFlowEndReads ==
  ASSUME NEW s, NEW d, Reading(s, d), NEW kind \in Kinds \ {"</stream>"}, Delta(kind) = -1
  PROVE  Fetched(FetchFlowEnd(s, kind), d)
<1> DEFINE x == RemoveKey(s)
           y == [x EXCEPT !.flow = x.flow - 1, !.allow = FALSE]
           t == Mark(kind)
           r == AddToken(y, t)
<1>1. FetchFlowEnd(s, kind) = r
  BY DEF FetchFlowEnd
<1>2. /\ Reading(x, d) /\ x.flow = s.flow
      /\ x.error = "none" => s.flow \notin DOMAIN x.keys
  BY RemoveKeyReads
<1> HIDE DEF x
<1>3. x \in Scanners /\ ~x.done /\ x.tokens \in Seq(Pending) /\ IndentsOk(x.indents)
      /\ Walks(Int, Weight, x.tokens, d, x.flow) /\ KeysOk(x.keys, Len(x.tokens), x.flow)
  BY <1>2 DEF Reading, Sound
<1>4. x.flow \in Int /\ Len(x.tokens) \in Nat
  BY <1>3, ScannerIs, LenProperties
<1>5. Is(y, x.tokens, x.done, x.flow - 1, x.indents, FALSE, x.keys, x.error)
  <2>1. x.flow - 1 \in Int /\ FALSE \in BOOLEAN
    BY <1>4
  <2> QED
    BY <1>3, <2>1, PutFlow
<1>6. t \in Pending /\ t \in Tokens /\ t.kind = kind
  BY MarkIs, PendingTokens
<1> HIDE DEF y, t
<1>7. y \in Scanners
  BY <1>5 DEF Is
<1>8. r \in Scanners /\ r.error = x.error
  <2>1. Is(r, Append(y.tokens, t), y.done, y.flow, y.indents, y.allow, y.keys, y.error)
    BY <1>6, <1>7, AddTokenIs
  <2> HIDE DEF r
  <2> QED
    BY <1>5, <2>1 DEF Is
<1>9. ASSUME x.error = "none" PROVE Reading(r, d)
  <2>1. KeysOk(x.keys, Len(x.tokens), x.flow - 1)
    BY <1>2, <1>3, <1>4, <1>9, KeysInside
  <2>2. KeysOk(x.keys, Len(x.tokens) + 1, x.flow - 1)
    <3>1. Len(x.tokens) + 1 \in Nat /\ Len(x.tokens) + 1 >= Len(x.tokens) /\ x.flow - 1 \in Int
          /\ x.flow - 1 >= x.flow - 1
      BY <1>4
    <3> QED
      BY <1>4, <2>1, <3>1, KeysGrow
  <2>3. /\ ~y.done /\ y.tokens = x.tokens /\ y.flow = x.flow + Delta(t.kind) /\ y.indents = x.indents
        /\ KeysOk(y.keys, Len(y.tokens) + 1, y.flow)
    <3>1. x.flow - 1 = x.flow + Delta(t.kind)
      BY <1>4, <1>6
    <3> QED
      BY <1>3, <1>5, <2>2, <3>1 DEF Is
  <2> QED
    BY <1>3, <1>4, <1>6, <1>7, <2>3, AddTokenReads
<1> HIDE DEF r
<1> QED
  BY <1>1, <1>8, <1>9 DEF Fetched

(* fetch_flow_entry.                                                         *)
LEMMA FetchFlowEntryReads ==
  ASSUME NEW s, NEW d, Reading(s, d)
  PROVE  Reading(FetchFlowEntry(s), d)
<1> DEFINE x == [s EXCEPT !.allow = TRUE]
           y == RemoveKey(x)
<1>1. FetchFlowEntry(s) = AddToken(y, Mark(","))
  BY DEF FetchFlowEntry
<1>2. Reading(x, d)
  BY AllowReads
<1> HIDE DEF x
<1>3. Reading(y, d)
  BY <1>2, RemoveKeyReads
<1> HIDE DEF y
<1>4. "," \in Kinds /\ "," # "</stream>" /\ Delta(",") = 0
  <2>1. "," # "[" /\ "," # "]" /\ "," # "{" /\ "," # "}" /\ "," # "</stream>"
    BY Zenon
  <2> QED
    BY <2>1, KindsOf, Zenon DEF Delta
<1>5. Mark(",") \in Pending /\ Delta(Mark(",").kind) = 0
  BY <1>4, MarkIs, Zenon
<1> QED
  BY <1>1, <1>3, <1>5, AddPlainReads, Zenon

(* fetch_block_entry, fetch_key, and fetch_value of no simple key.           *)
LEMMA FetchIndicatorReads ==
  ASSUME NEW s, NEW d, Reading(s, d), NEW kind \in Kinds \ {"</stream>"}, Delta(kind) = 0,
         NEW col \in Nat, NEW start \in {"<seq>", "<map>"}, NEW allow \in BOOLEAN
  PROVE  Reading(FetchIndicator(s, kind, col, start, allow), d)
<1> DEFINE begun == AddIndent(s, col, Len(s.tokens), start)
           x == [begun EXCEPT !.allow = allow]
           y == RemoveKey(x)
<1>1. CASE s.flow = 0 /\ ~s.allow
  <2>1. FetchIndicator(s, kind, col, start, allow) = Fail(s, "not allowed here")
        /\ "not allowed here" \in Errors /\ "not allowed here" # "none"
    BY <1>1 DEF FetchIndicator, Errors
  <2>2. s \in Scanners
    BY DEF Reading
  <2>3. Is(Fail(s, "not allowed here"), s.tokens, s.done, s.flow, s.indents, s.allow, s.keys,
           Fail(s, "not allowed here").error)
    BY <2>1, <2>2, FailIs
  <2> QED
    BY <2>1, <2>3 DEF Reading, Sound, Is
<1>2. CASE ~(s.flow = 0 /\ ~s.allow)
  <2>1. FetchIndicator(s, kind, col, start, allow) = AddToken(y, Mark(kind))
    BY <1>2 DEF FetchIndicator
  <2>2. Reading(begun, d)
    <3>1. Len(s.tokens) \in 0..Len(s.tokens)
      BY LenProperties DEF Reading, Sound
    <3> QED
      BY <3>1, AddIndentReads
  <2> HIDE DEF begun
  <2>3. Reading(x, d)
    BY <2>2, AllowReads
  <2> HIDE DEF x
  <2>4. Reading(y, d)
    BY <2>3, RemoveKeyReads
  <2> HIDE DEF y
  <2>5. Mark(kind) \in Pending /\ Delta(Mark(kind).kind) = 0
    BY MarkIs
  <2> QED
    BY <2>1, <2>4, <2>5, AddPlainReads
<1> QED
  BY <1>1, <1>2

(* fetch_value: KEY, and it may be BLOCK-MAPPING-START, in front of the      *)
(* token where the simple key is; the other keys are in front of that.       *)
LEMMA FetchValueReads ==
  ASSUME NEW s, NEW d, Reading(s, d), NEW col \in Nat
  PROVE  Reading(FetchValue(s, col), d)
<1>1. s \in Scanners /\ ~s.done /\ s.tokens \in Seq(Pending) /\ IndentsOk(s.indents)
      /\ Walks(Int, Weight, s.tokens, d, s.flow) /\ KeysOk(s.keys, Len(s.tokens), s.flow)
  BY DEF Reading, Sound
<1>2. ":" \in Kinds \ {"</stream>"} /\ "?" \in Kinds \ {"</stream>"}
      /\ Delta(":") = 0 /\ Delta("?") = 0
  BY KindsOf, DeltaOf
<1>3. CASE s.flow \notin DOMAIN s.keys
  <2>1. PICK a \in BOOLEAN : FetchValue(s, col) = FetchIndicator(s, ":", col, "<map>", a)
    <3>1. FetchValue(s, col) = FetchIndicator(s, ":", col, "<map>", s.flow = 0)
      BY <1>3 DEF FetchValue
    <3>2. (s.flow = 0) = TRUE \/ (s.flow = 0) = FALSE
      OBVIOUS
    <3> QED
      BY <3>1, <3>2, Zenon
  <2>2. "<map>" \in {"<seq>", "<map>"}
    OBVIOUS
  <2> QED
    BY <1>2, <2>1, <2>2, FetchIndicatorReads
<1>4. CASE s.flow \in DOMAIN s.keys
  <2> DEFINE key == s.keys[s.flow]
             q == InsertAt(s.tokens, key.at + 1, Mark("?"))
             k == Restrict(s.keys, DOMAIN s.keys \ {s.flow})
             found == [s EXCEPT !.keys = k, !.tokens = q, !.allow = FALSE]
             x == AddIndent(found, key.col, key.at, "<map>")
  <2>1. FetchValue(s, col) = AddToken(x, Mark(":"))
    BY <1>4 DEF FetchValue
  <2>2. Len(s.tokens) \in Nat /\ s.tokens \in Seq(Tokens) /\ s.flow \in Int
    BY <1>1, LenProperties, PendingTokens, ScannerIs
  <2>3. key.at \in 0..(Len(s.tokens) - 1) /\ key.col \in Nat
    <3>1. key.at \in 0..(Len(s.tokens) - 1)
      BY <1>1, <1>4 DEF KeysOk
    <3>2. key \in KeyRecords
      <4>1. s.keys \in [DOMAIN s.keys -> KeyRecords]
        BY <1>1, KeyTableIs DEF KeysOk
      <4> QED
        BY <1>4, <4>1
    <3> QED
      BY <3>1, <3>2 DEF KeyRecords
  <2> HIDE DEF key
  <2>4. key.at + 1 \in 1..(Len(s.tokens) + 1)
    BY <2>2, <2>3
  <2>5. Mark("?") \in Pending /\ Mark("?") \in Tokens /\ Weight[Mark("?")] = 0
    BY <1>2, MarkIs, PendingTokens, WeightIs
  <2>6. q \in Seq(Pending) /\ q \in Seq(Tokens) /\ Len(q) = Len(s.tokens) + 1
    BY <1>1, <2>4, <2>5, InsertAtProperties, PendingTokens
  <2>7. Walks(Int, Weight, q, d, s.flow)
    BY <1>1, <2>2, <2>4, <2>5, WeightIs, WalksInsert
  <2>8. KeysOk(k, Len(s.tokens), s.flow)
    BY <1>1, KeysRestrict
  <2> HIDE DEF q, k
  <2>9. KeysOk(k, Len(q), s.flow)
    <3>1. Len(q) \in Nat /\ Len(q) >= Len(s.tokens) /\ s.flow >= s.flow
      BY <2>2, <2>6
    <3> QED
      BY <2>2, <2>8, <3>1, KeysGrow
  <2>10. Is(found, q, s.done, s.flow, s.indents, FALSE, k, s.error)
    <3>1. k \in KeyTables
      BY <2>8 DEF KeysOk
    <3> QED
      BY <1>1, <2>6, <3>1, PutFound
  <2> HIDE DEF found
  <2>11. Reading(found, d) /\ found.tokens = q
    BY <1>1, <2>6, <2>7, <2>9, <2>10 DEF Reading, Sound, Is
  <2>12. Reading(x, d)
    <3>1. key.at \in 0..Len(found.tokens) /\ "<map>" \in {"<seq>", "<map>"}
      BY <2>2, <2>3, <2>6, <2>11
    <3> QED
      BY <2>3, <2>11, <3>1, AddIndentReads
  <2> HIDE DEF x
  <2>13. Mark(":") \in Pending /\ Delta(Mark(":").kind) = 0
    BY <1>2, MarkIs
  <2> QED
    BY <2>1, <2>12, <2>13, AddPlainReads
<1> QED
  BY <1>3, <1>4

(* fetch_alias, fetch_anchor, fetch_tag, fetch_flow_scalar, fetch_plain.     *)
LEMMA FetchNodeReads ==
  ASSUME NEW s, NEW d, Reading(s, d), s.flow >= 0, NEW col \in Nat,
         NEW t \in Pending, Delta(t.kind) = 0
  PROVE  Reading(FetchNode(s, col, t), d)
<1> DEFINE x == SaveKey(s, col)
           y == [x EXCEPT !.allow = FALSE]
<1>1. FetchNode(s, col, t) = AddToken(y, t)
  BY DEF FetchNode
<1>2. /\ x \in Scanners /\ ~x.done /\ x.tokens = s.tokens /\ x.flow = s.flow /\ x.indents = s.indents
      /\ KeysOk(x.keys, Len(s.tokens) + 1, s.flow)
  BY SaveKeySaves DEF Saved
<1>3. s.tokens \in Seq(Pending) /\ IndentsOk(s.indents) /\ Walks(Int, Weight, s.tokens, d, s.flow)
      /\ s.flow \in Int
  BY ScannerIs DEF Reading, Sound
<1> HIDE DEF x
<1>4. Is(y, x.tokens, x.done, x.flow, x.indents, FALSE, x.keys, x.error)
  <2>1. FALSE \in BOOLEAN
    OBVIOUS
  <2> QED
    BY <1>2, <2>1, NoKeys, PutKeys
<1> HIDE DEF y
<1>5. s.flow = s.flow + Delta(t.kind)
  BY <1>3
<1>6. /\ y \in Scanners /\ ~y.done /\ y.tokens = s.tokens /\ y.flow = s.flow + Delta(t.kind)
      /\ y.indents = s.indents /\ KeysOk(y.keys, Len(y.tokens) + 1, y.flow)
  BY <1>2, <1>4, <1>5 DEF Is
<1> QED
  BY <1>1, <1>3, <1>6, AddTokenReads

(* fetch_block_scalar.                                                       *)
LEMMA FetchBlockScalarReads ==
  ASSUME NEW s, NEW d, Reading(s, d), NEW t \in Pending, Delta(t.kind) = 0
  PROVE  Reading(FetchBlockScalar(s, t), d)
<1> DEFINE x == [s EXCEPT !.allow = TRUE]
           y == RemoveKey(x)
<1>1. FetchBlockScalar(s, t) = AddToken(y, t)
  BY DEF FetchBlockScalar
<1>2. Reading(x, d)
  BY AllowReads
<1> HIDE DEF x
<1>3. Reading(y, d)
  BY <1>2, RemoveKeyReads
<1> HIDE DEF y
<1> QED
  BY <1>1, <1>3, AddPlainReads

(* fetch_more_tokens, after the indentation: any of them.                    *)
LEMMA FetchFetches ==
  ASSUME NEW s, NEW d, Reading(s, d), s.flow >= 0,
         NEW lex, lex.text \in Texts, lex.col \in Nat
  PROVE  Fetched(Fetch(s, lex), d)
<1> DEFINE r == Fetch(s, lex)
           kind == lex.kind
           Neutral == {"%", "---", "...", "&", "*", "!", "plain", "scalar", "-", "?"}
<1> SUFFICES Fetched(r, d)
  OBVIOUS
<1>1. \A k \in Neutral : k \in Kinds \ {"</stream>"} /\ Delta(k) = 0
  BY KindsOf, DeltaOf
<1>2. \A k \in Neutral : Token(k, lex.text) \in Pending /\ Delta(Token(k, lex.text).kind) = 0
  BY <1>1, TokenIs
<1>3. CASE kind = "eof"
  <2>1. r = FetchStreamEnd(s)
    BY <1>3 DEF Fetch
  <2> QED
    BY <2>1, FetchStreamEndReads
<1>4. CASE kind \in {"%", "---", "..."}
  <2>1. r = FetchDocument(s, Token(kind, lex.text)) /\ kind \in Neutral
    BY <1>4 DEF Fetch
  <2> HIDE DEF r, Neutral
  <2> QED
    BY <1>2, <2>1, FetchDocumentReads, ReadingFetched
<1>5. CASE kind = "[" \/ kind = "{"
  <2>1. r = FetchFlowStart(s, kind, lex.col)
    BY <1>5 DEF Fetch
  <2>2. kind \in Kinds \ {"</stream>"} /\ Delta(kind) = 1
    BY <1>5, KindsOf, DeltaOf
  <2> HIDE DEF r, kind
  <2> QED
    BY <2>1, <2>2, FetchFlowStartReads, ReadingFetched
<1>6. CASE kind = "]" \/ kind = "}"
  <2>1. r = FetchFlowEnd(s, kind)
    BY <1>6, Zenon DEF Fetch
  <2>2. kind \in Kinds \ {"</stream>"} /\ Delta(kind) = -1
    BY <1>6, KindsOf, DeltaOf
  <2> HIDE DEF r, kind
  <2> QED
    BY <2>1, <2>2, FetchFlowEndReads
<1>7. CASE kind = ","
  <2>1. r = FetchFlowEntry(s)
    BY <1>7, Zenon DEF Fetch
  <2> HIDE DEF r, kind
  <2> QED
    BY <2>1, FetchFlowEntryReads, ReadingFetched
<1>8. CASE kind = "-"
  <2>1. r = FetchIndicator(s, "-", lex.col, "<seq>", TRUE)
    BY <1>8 DEF Fetch, FetchBlockEntry
  <2>2. "-" \in Neutral /\ "<seq>" \in {"<seq>", "<map>"} /\ TRUE \in BOOLEAN
    OBVIOUS
  <2> HIDE DEF r, Neutral
  <2> QED
    BY <1>1, <2>1, <2>2, FetchIndicatorReads, ReadingFetched
<1>9. CASE kind = "?"
  <2>1. PICK a \in BOOLEAN : r = FetchIndicator(s, "?", lex.col, "<map>", a)
    <3>1. r = FetchIndicator(s, "?", lex.col, "<map>", s.flow = 0)
      BY <1>9 DEF Fetch, FetchKey
    <3>2. (s.flow = 0) = TRUE \/ (s.flow = 0) = FALSE
      OBVIOUS
    <3> HIDE DEF r
    <3> QED
      BY <3>1, <3>2, Zenon
  <2>2. "?" \in Neutral /\ "<map>" \in {"<seq>", "<map>"}
    OBVIOUS
  <2> HIDE DEF r, Neutral
  <2> QED
    BY <1>1, <2>1, <2>2, FetchIndicatorReads, ReadingFetched
<1>10. CASE kind = ":"
  <2>1. r = FetchValue(s, lex.col)
    BY <1>10 DEF Fetch
  <2> HIDE DEF r
  <2> QED
    BY <2>1, FetchValueReads, ReadingFetched
<1>11. CASE kind \in {"&", "*", "!", "plain", "quoted"}
  <2>1. PICK k \in Neutral : r = FetchNode(s, lex.col, Token(k, lex.text))
    <3>1. kind \in {"&", "*", "!"} => r = FetchNode(s, lex.col, Token(kind, lex.text)) /\ kind \in Neutral
      BY DEF Fetch
    <3>2. kind = "plain" => r = FetchNode(s, lex.col, Token("plain", lex.text)) /\ "plain" \in Neutral
      BY DEF Fetch
    <3>3. kind = "quoted" => r = FetchNode(s, lex.col, Token("scalar", lex.text)) /\ "scalar" \in Neutral
      BY DEF Fetch
    <3> HIDE DEF r, Neutral
    <3> QED
      BY <1>11, <3>1, <3>2, <3>3
  <2> HIDE DEF r, Neutral
  <2> QED
    BY <1>2, <2>1, FetchNodeReads, ReadingFetched
<1>12. CASE kind = "block"
  <2>1. r = FetchBlockScalar(s, Token("scalar", lex.text)) /\ "scalar" \in Neutral
    BY <1>12 DEF Fetch
  <2> HIDE DEF r, Neutral
  <2> QED
    BY <1>2, <2>1, FetchBlockScalarReads, ReadingFetched
<1>13. CASE /\ kind \notin {"eof", "%", "---", "...", "[", "]", "-", "?", ":", "&", "*", "!",
                            "plain", "quoted", "block"}
            /\ kind # "{" /\ kind # "}" /\ kind # ","
  <2>1. r = Fail(s, "bad lexeme")
    BY <1>13, Zenon DEF Fetch
  <2>2. s \in Scanners /\ "bad lexeme" \in Errors /\ "bad lexeme" # "none"
    BY DEF Reading, Errors
  <2>3. /\ Is(r, s.tokens, s.done, s.flow, s.indents, s.allow, s.keys, r.error)
        /\ r.error # "none"
    BY <2>1, <2>2, FailIs
  <2> HIDE DEF r
  <2> QED
    BY <2>3 DEF Fetched, Is
<1> QED
  BY <1>3, <1>4, <1>5, <1>6, <1>7, <1>8, <1>9, <1>10, <1>11, <1>12, <1>13, Zenon

-----------------------------------------------------------------------------
(* fetch_more_tokens.                                                        *)

(* A simple key allowed or not.                                              *)
LEMMA AllowedReads ==
  ASSUME NEW s, NEW d, Reading(s, d), NEW P
  PROVE  LET r == [s EXCEPT !.allow = s.allow \/ P]
         IN Reading(r, d) /\ r.flow = s.flow
<1>1. (s.allow \/ P) = TRUE \/ (s.allow \/ P) = FALSE
  OBVIOUS
<1>2. \A a \in BOOLEAN : LET r == [s EXCEPT !.allow = a] IN Reading(r, d) /\ r.flow = s.flow
  BY AllowReads
<1> QED
  BY <1>1, <1>2, Zenon

(* scan_to_next_token, staleness and indentation.                            *)
LEMMA ArriveReads ==
  ASSUME NEW s, NEW d, Reading(s, d), NEW lex, lex.col \in Nat
  PROVE  Reading(Arrive(s, lex), d) /\ Arrive(s, lex).flow = s.flow
<1> DEFINE x == [s EXCEPT !.allow = s.allow \/ s.flow = 0]
           here == IF lex.break = "none" THEN s ELSE DropKeys(x, DOMAIN x.keys)
<1>1. Arrive(s, lex) = Unwind(here, lex.col)
  BY DEF Arrive, DropAll
<1>2. Reading(x, d) /\ x.flow = s.flow
  BY AllowedReads
<1> HIDE DEF x
<1>3. Reading(here, d) /\ here.flow = s.flow
  <2>1. Reading(DropKeys(x, DOMAIN x.keys), d) /\ DropKeys(x, DOMAIN x.keys).flow = x.flow
    BY <1>2, DropKeysReads
  <2> QED
    BY <1>2, <2>1
<1> HIDE DEF here
<1>4. lex.col \in Int /\ lex.col >= -1
  OBVIOUS
<1> QED
  BY <1>1, <1>3, <1>4, UnwindReads, SMTT(30) DEF Kept

(* Where the scanner is in the text.                                         *)
LEMMA PutPlace ==
  ASSUME NEW s \in Scanners, NEW kind \in {"other", "plain", "%"}, NEW newline \in BOOLEAN,
         NEW col \in Nat, NEW a \in BOOLEAN
  PROVE  Is([s EXCEPT !.kind = kind, !.newline = newline, !.col = col, !.allow = a],
            s.tokens, s.done, s.flow, s.indents, a, s.keys, s.error)
BY DEF Scanners, Is

(* Keys that are dropped do not hide an exception.                           *)
LEMMA DropKeysFetched ==
  ASSUME NEW s, NEW d, Fetched(s, d), ~s.done, NEW levels
  PROVE  Fetched(DropKeys(s, levels), d)
<1> DEFINE r == DropKeys(s, levels)
<1>1. s \in Scanners /\ (s.error = "none" => Reading(s, d))
  BY DEF Fetched, Ending, AtEnd
<1>2. r \in Scanners /\ (r.error = "none" => s.error = "none")
  <2>1. \E k : Is(r, s.tokens, s.done, s.flow, s.indents, s.allow, k, r.error)
               /\ (r.error = "none" => s.error = "none")
    BY <1>1, DropKeysIs
  <2> QED
    BY <2>1 DEF Is
<1>3. Reading(s, d) => Reading(r, d)
  BY DropKeysReads
<1> HIDE DEF r
<1> QED
  BY <1>1, <1>2, <1>3 DEF Fetched, r

(* The end of a scan, and the staleness that need_more_tokens finds.         *)
LEMMA DepartFetched ==
  ASSUME NEW s, NEW d, Fetched(s, d), NEW lex, lex.end \in Nat
  PROVE  Fetched(Depart(s, lex), d)
<1> DEFINE newline == lex.ends = "newline"
           kind == IF lex.kind \in {"plain", "%"} THEN lex.kind ELSE "other"
           P == lex.kind = "plain" /\ newline
           there == [s EXCEPT !.kind = kind, !.newline = newline, !.col = lex.end,
                              !.allow = s.allow \/ P]
<1>1. Depart(s, lex) = IF s.done THEN there
                       ELSE IF lex.ends = "line" THEN DropFar(there) ELSE DropAll(there)
  BY DEF Depart
<1>2. kind \in {"other", "plain", "%"} /\ s \in Scanners
  BY DEF Fetched
<1>3. \E a \in BOOLEAN :
        Is(there, s.tokens, s.done, s.flow, s.indents, a, s.keys, s.error)
  <2>1. (newline = TRUE \/ newline = FALSE) /\ ((s.allow \/ P) = TRUE \/ (s.allow \/ P) = FALSE)
    OBVIOUS
  <2> HIDE DEF kind, newline, P
  <2>2. \A n, a \in BOOLEAN :
          Is([s EXCEPT !.kind = kind, !.newline = n, !.col = lex.end, !.allow = a],
             s.tokens, s.done, s.flow, s.indents, a, s.keys, s.error)
    BY <1>2, PutPlace
  <2> QED
    BY <2>1, <2>2, Zenon
<1> HIDE DEF there
<1>4. Fetched(there, d) /\ there.done = s.done
  BY <1>3 DEF Fetched, Reading, Sound, Ending, AtEnd, Is
<1>5. CASE s.done
  BY <1>1, <1>4, <1>5
<1>6. CASE ~s.done
  <2>1. \A levels : Fetched(DropKeys(there, levels), d)
    BY <1>4, <1>6, DropKeysFetched
  <2> QED
    BY <1>1, <1>6, <2>1 DEF DropFar, DropAll
<1> QED
  BY <1>5, <1>6

(* There may be more text, or there is none.                                 *)
Good(s, d) == Reading(s, d) \/ AtEnd(s, d)

(* fetch_more_tokens: it reads a lexeme, or raises one of its exceptions.    *)
LEMMA FetchMoreReads ==
  ASSUME NEW s, NEW d, Reading(s, d), s.flow >= 0,
         NEW lex, lex.text \in Texts, lex.col \in Nat, lex.end \in Nat
  PROVE  /\ FetchMore(s, lex).error \in Errors
         /\ FetchMore(s, lex).error = "none" =>
              /\ Good(FetchMore(s, lex), d)
              /\ ~FetchMore(s, lex).done \/ FetchMore(s, lex).tokens # <<>>
<1> DEFINE x == Arrive(s, lex)
           y == Fetch(x, lex)
           t == Depart(y, lex)
<1>1. FetchMore(s, lex) = IF t.error = "none" THEN t ELSE [NewScanner EXCEPT !.error = t.error]
  BY DEF FetchMore
<1>2. Reading(x, d) /\ x.flow >= 0
  BY ArriveReads
<1> HIDE DEF x
<1>3. Fetched(y, d)
  BY <1>2, FetchFetches
<1> HIDE DEF y
<1>4. Fetched(t, d)
  BY <1>3, DepartFetched
<1> HIDE DEF t
<1>5. t.error \in Errors /\ (t.error = "none" => Good(t, d) /\ (~t.done \/ t.tokens # <<>>))
  BY <1>4, ScannerIs DEF Fetched, Ending, Good, Reading
<1>6. [NewScanner EXCEPT !.error = t.error].error = t.error
  BY DEF NewScanner
<1> QED
  BY <1>1, <1>5, <1>6

(* At first there is only STREAM-START.                                      *)
LEMMA NewScannerReads ==
  /\ Reading(NewScanner, 0) /\ ~NeedMore(NewScanner) /\ NewScanner.tokens # <<>>
  /\ Head(NewScanner.tokens).kind = "<stream>" /\ NewScanner.keys = <<>>
<1> DEFINE t == Mark("<stream>")
<1>1. t \in Pending /\ t.kind = "<stream>" /\ Delta("<stream>") = 0
  BY KindsOf, MarkIs, DeltaOf
<1>2. t \in Tokens /\ Weight[t] = 0
  BY <1>1, PendingTokens, WeightIs
<1>3. NewScanner = [tokens |-> <<t>>, done |-> FALSE, flow |-> 0, indents |-> <<-1>>,
                    allow |-> TRUE, keys |-> <<>>, kind |-> "other", newline |-> TRUE, col |-> 0,
                    error |-> "none"]
  BY DEF NewScanner
<1> HIDE DEF t
<1>4. <<t>> \in Seq(Pending) /\ <<t>> \in Seq(Tokens) /\ <<t>> = Append(<<>>, t) /\ Len(<<t>>) = 1
      /\ <<t>> # <<>> /\ Head(<<t>>) = t
  BY <1>1, <1>2
<1>5. Walks(Int, Weight, <<t>>, 0, 0)
  <2>1. Walks(Int, Weight, <<>>, 0, 0) /\ <<>> \in Seq(Tokens) /\ 0 + Weight[t] = 0 /\ 0 \in Int
    <3>1. 0 \in Int /\ <<>> \in Seq(Tokens) /\ 0 + Weight[t] = 0
      BY <1>2
    <3> QED
      BY <3>1, WalksEmpty
  <2>2. Walks(Int, Weight, Append(<<>>, t), 0, 0 + Weight[t])
    BY <1>2, <2>1, WalksAppend
  <2> QED
    BY <1>4, <2>1, <2>2
<1>6. IndentsOk(<<-1>>) /\ <<-1>> \in Seq(Int)
  BY DEF IndentsOk
<1>7. KeysOk(<<>>, Len(<<t>>), 0) /\ <<>> \in KeyTables /\ DOMAIN <<>> = {}
  BY NoKeys DEF KeysOk
<1>8. NewScanner \in Scanners
  <2>1. "none" \in Errors
    BY DEF Errors
  <2> QED
    BY <1>3, <1>4, <1>6, <1>7, <2>1 DEF Scanners
<1>9. NewScanner.tokens = <<t>> /\ ~NewScanner.done /\ NewScanner.flow = 0
      /\ NewScanner.indents = <<-1>> /\ NewScanner.keys = <<>>
  BY <1>3
<1>10. Reading(NewScanner, 0)
  BY <1>4, <1>5, <1>6, <1>7, <1>8, <1>9 DEF Reading, Sound
<1> QED
  BY <1>1, <1>4, <1>7, <1>9, <1>10 DEF NeedMore

-----------------------------------------------------------------------------
(* get_token.                                                                *)

(* The tail of a sequence that has been appended to.                         *)
LEMMA TailAppend ==
  ASSUME NEW S, NEW q \in Seq(S), NEW x \in S
  PROVE  /\ q = <<>> => Tail(Append(q, x)) = <<>> /\ Head(Append(q, x)) = x
         /\ q # <<>> => Tail(Append(q, x)) = Append(Tail(q), x) /\ Head(Append(q, x)) = Head(q)
                        /\ Tail(q) \in Seq(S) /\ Head(q) \in S
<1>1. CASE q = <<>>
  BY <1>1
<1>2. CASE q # <<>>
  <2> DEFINE p == Append(q, x)
             n == Len(q)
  <2>1. /\ p \in Seq(S) /\ Len(p) = n + 1 /\ n \in Nat /\ n > 0 /\ p[n + 1] = x
        /\ \A i \in 1..n : p[i] = q[i]
    BY <1>2, AppendProperties, LenProperties, EmptySeq
  <2>2. p # <<>>
    BY AppendProperties
  <2>3. /\ Head(q) = q[1] /\ Head(q) \in S /\ Tail(q) \in Seq(S) /\ Len(Tail(q)) = n - 1
        /\ \A i \in 1..(n - 1) : Tail(q)[i] = q[i + 1]
    <3>1. /\ Head(q) = q[1] /\ Head(q) \in S /\ Tail(q) \in Seq(S) /\ Len(Tail(q)) = Len(q) - 1
          /\ \A i \in 1..Len(Tail(q)) : Tail(q)[i] = q[i + 1]
      BY <1>2, HeadTailProperties
    <3> QED
      BY <3>1
  <2>4. /\ Head(p) = p[1] /\ Tail(p) \in Seq(S) /\ Len(Tail(p)) = n
        /\ \A i \in 1..n : Tail(p)[i] = p[i + 1]
    <3>1. /\ Head(p) = p[1] /\ Tail(p) \in Seq(S) /\ Len(Tail(p)) = Len(p) - 1
          /\ \A i \in 1..Len(Tail(p)) : Tail(p)[i] = p[i + 1]
      BY <2>1, <2>2, HeadTailProperties
    <3> HIDE DEF p, n
    <3> QED
      BY <2>1, <3>1
  <2> DEFINE r == Append(Tail(q), x)
  <2>5. r \in Seq(S) /\ Len(r) = n /\ r[n] = x /\ \A i \in 1..(n - 1) : r[i] = Tail(q)[i]
    <3>1. /\ r \in Seq(S) /\ Len(r) = Len(Tail(q)) + 1 /\ r[Len(Tail(q)) + 1] = x
          /\ \A i \in 1..Len(Tail(q)) : r[i] = Tail(q)[i]
      BY <2>3, AppendProperties
    <3>2. Len(Tail(q)) = n - 1 /\ (n - 1) + 1 = n
      BY <2>1, <2>3
    <3> HIDE DEF r, n
    <3> QED
      BY <3>1, <3>2
  <2> HIDE DEF p, n, r
  <2>6. ASSUME NEW i \in 1..n PROVE Tail(p)[i] = r[i]
    <3>1. CASE i = n
      BY <2>1, <2>4, <2>5, <3>1
    <3>2. CASE i # n
      <4>1. i \in 1..(n - 1) /\ i + 1 \in 1..n
        BY <2>1, <3>2
      <4> QED
        BY <2>1, <2>3, <2>4, <2>5, <4>1
    <3> QED
      BY <3>1, <3>2
  <2>7. Tail(p) = r
    BY <2>4, <2>5, <2>6, SeqEqual
  <2>8. Head(p) = Head(q)
    BY <2>1, <2>3, <2>4
  <2> QED
    BY <1>2, <2>3, <2>7, <2>8 DEF p, r
<1> QED
  BY <1>1, <1>2

(* The next token ends the stream when it is the last, and there is no more  *)
(* text.                                                                     *)
LEMMA HeadOfGood ==
  ASSUME NEW s, NEW d, Good(s, d), s.tokens # <<>>
  PROVE  /\ Head(s.tokens) \in Tokens
         /\ Head(s.tokens).kind = "</stream>" => s.done /\ Tail(s.tokens) = <<>>
         /\ s.done /\ Tail(s.tokens) = <<>> => Head(s.tokens).kind = "</stream>"
<1>1. CASE Reading(s, d)
  <2>1. s.tokens \in Seq(Pending) /\ ~s.done
    BY <1>1 DEF Reading, Sound
  <2>2. Head(s.tokens) \in Pending
    BY <2>1, HeadTailProperties
  <2> QED
    BY <2>1, <2>2, PendingTokens
<1>2. CASE AtEnd(s, d)
  <2> DEFINE x == Mark("</stream>")
  <2>1. PICK q \in Seq(Pending) : s.tokens = Append(q, x)
    BY <1>2 DEF AtEnd
  <2>2. q \in Seq(Tokens) /\ x \in Tokens /\ x.kind = "</stream>" /\ s.done
    BY <1>2, PendingTokens DEF AtEnd
  <2> HIDE DEF x
  <2>3. CASE q = <<>>
    BY <2>1, <2>2, <2>3, TailAppend
  <2>4. CASE q # <<>>
    <3>1. Head(s.tokens) = Head(q) /\ Head(q) \in Pending /\ Tail(s.tokens) = Append(Tail(q), x)
          /\ Tail(q) \in Seq(Tokens)
      BY <2>1, <2>2, <2>4, TailAppend, HeadTailProperties
    <3>2. Append(Tail(q), x) # <<>>
      BY <2>2, <3>1, AppendProperties
    <3> QED
      BY <3>1, <3>2, PendingTokens
  <2> QED
    BY <2>3, <2>4
<1> QED
  BY <1>1, <1>2 DEF Good

(* What get_token makes of the scanner.                                      *)
Taken(s) == [s EXCEPT !.tokens = Tail(@), !.keys = Nearer(@)]

(* get_token when need_more_tokens has said no: no key is lost, and what the *)
(* parser has consumed is counted.                                           *)
LEMMA TakenGood ==
  ASSUME NEW s, NEW d \in Int, Good(s, d), s.tokens # <<>>, ~NeedMore(s)
  PROVE  /\ Good(Taken(s), d + Delta(Head(s.tokens).kind))
         /\ Taken(s).tokens = Tail(s.tokens) /\ Taken(s).done = s.done
<1> DEFINE k == Nearer(s.keys)
           r == Taken(s)
           h == Head(s.tokens)
           e == d + Delta(h.kind)
<1>1. r = [s EXCEPT !.tokens = Tail(s.tokens), !.keys = k]
  BY DEF Taken
<1>2. s \in Scanners /\ s.tokens \in Seq(Tokens) /\ Walks(Int, Weight, s.tokens, d, s.flow)
  BY ScannerIs DEF Good, Reading, Sound, AtEnd
<1>3. Tail(s.tokens) \in Seq(Tokens) /\ h \in Tokens /\ Weight[h] = Delta(h.kind)
      /\ Len(Tail(s.tokens)) = Len(s.tokens) - 1
  BY <1>2, WeightIs, HeadTailProperties
<1>4. Walks(Int, Weight, Tail(s.tokens), e, s.flow)
  BY <1>2, <1>3, WeightIs, WalksTail
<1>5. DOMAIN k = DOMAIN s.keys
  BY DEF Nearer
<1>6. k \in KeyTables
  <2>1. s.keys \in [DOMAIN s.keys -> KeyRecords] /\ DOMAIN s.keys \subseteq Int
    BY <1>2, ScannerIs, KeyTableIs
  <2>2. \A key \in KeyRecords : [key EXCEPT !.at = @ - 1] \in KeyRecords
    BY DEF KeyRecords
  <2>3. k \in [DOMAIN s.keys -> KeyRecords]
    BY <2>1, <2>2 DEF Nearer
  <2> HIDE DEF k
  <2> QED
    BY <1>5, <2>1, <2>3, KeyTableIs
<1> HIDE DEF k, r, h, e
<1>7. Is(r, Tail(s.tokens), s.done, s.flow, s.indents, s.allow, k, s.error)
  <2>1. \A z \in Scanners, p \in Seq(Tokens), t \in KeyTables :
          LET w == [z EXCEPT !.tokens = p, !.keys = t]
          IN Is(w, p, z.done, z.flow, z.indents, z.allow, t, z.error)
    BY ZenonT(60) DEF Scanners, Is
  <2> QED
    BY <1>1, <1>2, <1>3, <1>6, <2>1
<1>8. ASSUME Reading(s, d) PROVE Reading(r, e)
  <2>1. s.tokens \in Seq(Pending) /\ ~s.done /\ IndentsOk(s.indents)
        /\ KeysOk(s.keys, Len(s.tokens), s.flow)
    BY <1>8 DEF Reading, Sound
  <2>2. Tail(s.tokens) \in Seq(Pending)
    BY <2>1, HeadTailProperties
  <2>3. \A level \in DOMAIN s.keys : s.keys[level].at # 0
    <3>1. SUFFICES ASSUME NEW level \in DOMAIN s.keys, s.keys[level].at = 0 PROVE FALSE
      OBVIOUS
    <3> DEFINE S == {s.keys[l].at : l \in DOMAIN s.keys}
    <3>2. 0 \in S /\ \A n \in S : n >= 0 /\ n \in Int
      BY <2>1, <3>1 DEF KeysOk
    <3>3. NeedMore(s) <=> Min(S) = 0
      BY <2>1 DEF NeedMore, NextPossibleKey
    <3> HIDE DEF S
    <3>4. Min(S) \in S /\ \A n \in S : Min(S) <= n
      BY <3>2 DEF Min
    <3>5. Min(S) = 0
      BY <3>2, <3>4
    <3> QED
      BY <3>3, <3>5
  <2>4. KeysOk(k, Len(s.tokens) - 1, s.flow)
    <3>1. Len(s.tokens) \in Nat
      BY <2>1, LenProperties
    <3> QED
      BY <2>1, <2>3, <3>1, KeysTaken DEF k
  <2> QED
    BY <1>3, <1>4, <1>7, <2>1, <2>2, <2>4 DEF Reading, Sound, Is
<1>9. ASSUME AtEnd(s, d) PROVE AtEnd(r, e)
  <2> DEFINE x == Mark("</stream>")
  <2>1. PICK q \in Seq(Pending) : s.tokens = Append(q, x)
    BY <1>9 DEF AtEnd
  <2>2. q \in Seq(Tokens) /\ x \in Tokens
    BY PendingTokens
  <2> HIDE DEF x
  <2>3. Tail(s.tokens) = <<>> \/ \E p \in Seq(Pending) : Tail(s.tokens) = Append(p, x)
    <3>1. CASE q = <<>>
      BY <2>1, <2>2, <3>1, TailAppend
    <3>2. CASE q # <<>>
      <4>1. Tail(s.tokens) = Append(Tail(q), x)
        BY <2>1, <2>2, <3>2, TailAppend
      <4>2. Tail(q) \in Seq(Pending)
        BY <3>2, HeadTailProperties
      <4> QED
        BY <4>1, <4>2
    <3> QED
      BY <3>1, <3>2
  <2>4. s.done /\ DOMAIN s.keys = {} /\ (s.flow = 0 => s.indents = <<-1>>)
    BY <1>9 DEF AtEnd
  <2>5. Tail(s.tokens) = <<>> \/ \E p \in Seq(Pending) : Tail(s.tokens) = Append(p, Mark("</stream>"))
    BY <2>3 DEF x
  <2> QED
    BY <1>4, <1>5, <1>7, <2>4, <2>5 DEF AtEnd, Is
<1> QED
  BY <1>7, <1>8, <1>9 DEF Good, Is, r, e, h

-----------------------------------------------------------------------------
(* The parser on top of the scanner.                                         *)

(* The positions inside of brackets or braces: the opening one is consumed,  *)
(* the closing one is not.                                                   *)
FlowPositions ==
  Pairs \cup
  {"flow_sequence_entry", "flow_sequence_entry:item", "flow_mapping_key",
   "flow_mapping_key:item", "flow_mapping_key:node", "flow_mapping_value",
   "flow_mapping_value:node", "flow_mapping_empty_value"}
Flowed(p) == IF p \in FlowPositions THEN 1 ELSE 0

(* The positions that take a token which has been looked at before.          *)
Sure ==
  {"stream_start", "block_sequence_first_entry", "block_mapping_first_key",
   "flow_sequence_first_entry", "flow_mapping_first_key", "flow_sequence_entry_mapping_key"}

Expects(p, kind) ==
  /\ p = "stream_start" => kind = "<stream>"
  /\ p = "block_sequence_first_entry" => kind = "<seq>"
  /\ p = "block_mapping_first_key" => kind = "<map>"
  /\ p = "flow_sequence_first_entry" => kind = "["
  /\ p = "flow_mapping_first_key" => kind = "{"
  /\ p = "flow_sequence_entry_mapping_key" => kind = "?"

(* The positions to return to, and how many of them are inside of brackets.  *)
Resumed == (Inner \cup {"document_end"}) \ Sure
FlowedOf == [p \in Resumed |-> Flowed(p)]

Neutral(kind) == kind # "[" /\ kind # "{" /\ kind # "]" /\ kind # "}"

(* What a row does to the nesting.                                           *)
Even(row) ==
  /\ row.take => /\ row.at \notin {"flow_sequence_first_entry", "flow_mapping_first_key"}
                 /\ row.at \in Sure \/ \A k \in row.on : Neutral(k)
  /\ row.push = "none" =>
       IF row.to = "pop" THEN row.at \notin FlowPositions
       ELSE row.to \in FlowPositions <=> row.at \in FlowPositions
  /\ row.push # "none" => /\ row.to \notin FlowPositions
                          /\ row.push \in FlowPositions <=> row.at \in FlowPositions

Opens(row) ==
  /\ row.take /\ row.push = "none" /\ row.to # "pop"
  /\ row.at \in {"flow_sequence_first_entry", "flow_mapping_first_key"}
  /\ row.at \notin FlowPositions /\ row.to \in FlowPositions

Closes(row) ==
  /\ row.take /\ row.push = "none" /\ row.to = "pop" /\ row.at \in FlowPositions
  /\ \A k \in row.on : k = "]" \/ k = "}"

(* What a row needs to know of the next token.                               *)
Knows(row) ==
  /\ row.push # "none" => row.push \in Resumed /\ row.to # "pop"
  /\ row.to = "pop" => row.at \in Inner \cup Nodal
  /\ row.to = "none" => row.take /\ row.push = "none" /\ row.on = {"</stream>"}
  /\ row.to # "none" /\ row.take => row.at \in Sure \/ \A k \in row.on : k # "</stream>"
  /\ row.to \in Sure => ~row.take /\ row.to = "flow_sequence_entry_mapping_key" /\ row.on = {"?"}
  /\ row.emit = "StreamEnd" => row.at = "document_start"

Nests(row) == Knows(row) /\ (Even(row) \/ Opens(row) \/ Closes(row))

(* Every row of the five tables is of one of these kinds.                    *)
LEMMA DocumentRowsNest == \A row \in DocumentRows : Nests(row)
<1> USE DEF Row, Begin, Go, Take, Finish, Empty, Node, Nests, Knows, Even, Opens, Closes, Neutral,
            FlowPositions, Sure, Resumed, Inner, Pairs, PairKeys, PairValues, SeqPositions,
            KeyPositions, ValuePositions, Nodal, NodePositions
<1>1. Nests(Row("stream_start", Kinds, TRUE, "StreamStart", "none", "implicit_document_start", 0))
  OBVIOUS
<1>2. Nests(Row("implicit_document_start", But({"%", "---", "</stream>"}), FALSE, "DocumentStart",
             "document_end", "block_node", 0))
  OBVIOUS
<1>3. Nests(Go("implicit_document_start", {"%", "---", "</stream>"}, "document_start"))
  OBVIOUS
<1>4. Nests(Take("document_start", {"..."}, "document_start"))
  OBVIOUS
<1>5. Nests(Row("document_start", {"</stream>"}, TRUE, "StreamEnd", "none", "none", 0))
  OBVIOUS
<1>6. Nests(Go("document_start", But({"...", "</stream>"}), "directives"))
  OBVIOUS
<1>7. Nests(Row("directives", {"---"}, TRUE, "DocumentStart", "document_end", "document_content", 0))
  OBVIOUS
<1>8. Nests(Empty("document_content", {"%", "---", "...", "</stream>"}, "pop"))
  OBVIOUS
<1>9. Nests(Go("document_content", But({"%", "---", "...", "</stream>"}), "block_node"))
  OBVIOUS
<1>10. Nests(Row("document_end", {"..."}, TRUE, "DocumentEnd", "none", "document_start", 0))
  OBVIOUS
<1>11. Nests(Row("document_end", But({"..."}), FALSE, "DocumentEnd", "none", "document_start", 0))
  OBVIOUS
<1> HIDE DEF Row, Begin, Go, Take, Finish, Empty, Node, Nests
<1> QED
  BY <1>1, <1>2, <1>3, <1>4, <1>5, <1>6, <1>7, <1>8, <1>9, <1>10, <1>11, ZenonT(30) DEF DocumentRows

(* The rows of block sequences.                                              *)
LEMMA BlockSequenceRowsNest == \A row \in BlockSequenceRows : Nests(row)
<1> USE DEF Row, Begin, Go, Take, Finish, Empty, Node, Nests, Knows, Even, Opens, Closes, Neutral,
            FlowPositions, Sure, Resumed, Inner, Pairs, PairKeys, PairValues, SeqPositions,
            KeyPositions, ValuePositions, Nodal, NodePositions
<1>1. Nests(Begin("block_sequence_first_entry", "block_sequence_entry"))
  OBVIOUS
<1>2. Nests(Take("block_sequence_entry", {"-"}, "block_sequence_entry:item"))
  OBVIOUS
<1>3. Nests(Finish("block_sequence_entry", "<end>", "SequenceEnd"))
  OBVIOUS
<1>4. Nests(Empty("block_sequence_entry:item", {"-", "<end>"}, "block_sequence_entry"))
  OBVIOUS
<1>5. Nests(Node("block_sequence_entry:item", But({"-", "<end>"}), "block_sequence_entry", "block_node"))
  OBVIOUS
<1>6. Nests(Take("indentless_sequence_entry", {"-"}, "indentless_sequence_entry:item"))
  OBVIOUS
<1>7. Nests(Row("indentless_sequence_entry", But({"-"}), FALSE, "SequenceEnd", "none", "pop", 0))
  OBVIOUS
<1>8. Nests(Empty("indentless_sequence_entry:item", {"-", "?", ":", "<end>"},
             "indentless_sequence_entry"))
  OBVIOUS
<1>9. Nests(Node("indentless_sequence_entry:item", But({"-", "?", ":", "<end>"}),
             "indentless_sequence_entry", "block_node"))
  OBVIOUS
<1> HIDE DEF Row, Begin, Go, Take, Finish, Empty, Node, Nests
<1> QED
  BY <1>1, <1>2, <1>3, <1>4, <1>5, <1>6, <1>7, <1>8, <1>9, ZenonT(30) DEF BlockSequenceRows

(* The rows of block mappings.                                               *)
LEMMA BlockMappingRowsNest == \A row \in BlockMappingRows : Nests(row)
<1> USE DEF Row, Begin, Go, Take, Finish, Empty, Node, Nests, Knows, Even, Opens, Closes, Neutral,
            FlowPositions, Sure, Resumed, Inner, Pairs, PairKeys, PairValues, SeqPositions,
            KeyPositions, ValuePositions, Nodal, NodePositions
<1>1. Nests(Begin("block_mapping_first_key", "block_mapping_key"))
  OBVIOUS
<1>2. Nests(Take("block_mapping_key", {"?"}, "block_mapping_key:node"))
  OBVIOUS
<1>3. Nests(Finish("block_mapping_key", "<end>", "MappingEnd"))
  OBVIOUS
<1>4. Nests(Empty("block_mapping_key:node", {"?", ":", "<end>"}, "block_mapping_value"))
  OBVIOUS
<1>5. Nests(Node("block_mapping_key:node", But({"?", ":", "<end>"}), "block_mapping_value",
             "block_node_or_indentless_sequence"))
  OBVIOUS
<1>6. Nests(Take("block_mapping_value", {":"}, "block_mapping_value:node"))
  OBVIOUS
<1>7. Nests(Empty("block_mapping_value", But({":"}), "block_mapping_key"))
  OBVIOUS
<1>8. Nests(Empty("block_mapping_value:node", {"?", ":", "<end>"}, "block_mapping_key"))
  OBVIOUS
<1>9. Nests(Node("block_mapping_value:node", But({"?", ":", "<end>"}), "block_mapping_key",
             "block_node_or_indentless_sequence"))
  OBVIOUS
<1> HIDE DEF Row, Begin, Go, Take, Finish, Empty, Node, Nests
<1> QED
  BY <1>1, <1>2, <1>3, <1>4, <1>5, <1>6, <1>7, <1>8, <1>9, ZenonT(30) DEF BlockMappingRows

(* The rows of flow sequences and their pairs.                               *)
LEMMA FlowSequenceRowsNest == \A row \in FlowSequenceRows : Nests(row)
<1> USE DEF Row, Begin, Take, Finish, Empty, Node, Nests, Knows, Even, Opens, Closes, Neutral,
            FlowPositions, Sure, Resumed, Inner, Pairs, PairKeys, PairValues, SeqPositions,
            KeyPositions, ValuePositions, Nodal, NodePositions
<1>1. Nests(Begin("flow_sequence_first_entry", "flow_sequence_entry:item"))
  OBVIOUS
<1>2. Nests(Finish("flow_sequence_entry", "]", "SequenceEnd"))
  OBVIOUS
<1>3. Nests(Take("flow_sequence_entry", {","}, "flow_sequence_entry:item"))
  OBVIOUS
<1>4. Nests(Finish("flow_sequence_entry:item", "]", "SequenceEnd"))
  OBVIOUS
<1>5. Nests(Row("flow_sequence_entry:item", {"?"}, FALSE, "MappingStart", "none",
                "flow_sequence_entry_mapping_key", 0))
  OBVIOUS
<1>6. Nests(Node("flow_sequence_entry:item", But({"]", "?"}), "flow_sequence_entry", "flow_node"))
  OBVIOUS
<1>7. Nests(Take("flow_sequence_entry_mapping_key", Kinds, "flow_sequence_entry_mapping_key:node"))
  OBVIOUS
<1>8. Nests(Empty("flow_sequence_entry_mapping_key:node", {":", ",", "]"},
                "flow_sequence_entry_mapping_value"))
  OBVIOUS
<1>9. Nests(Node("flow_sequence_entry_mapping_key:node", But({":", ",", "]"}),
                "flow_sequence_entry_mapping_value", "flow_node"))
  OBVIOUS
<1>10. Nests(Take("flow_sequence_entry_mapping_value", {":"}, "flow_sequence_entry_mapping_value:node"))
  OBVIOUS
<1>11. Nests(Empty("flow_sequence_entry_mapping_value", But({":"}), "flow_sequence_entry_mapping_end"))
  OBVIOUS
<1>12. Nests(Empty("flow_sequence_entry_mapping_value:node", {",", "]"},
                "flow_sequence_entry_mapping_end"))
  OBVIOUS
<1>13. Nests(Node("flow_sequence_entry_mapping_value:node", But({",", "]"}),
                "flow_sequence_entry_mapping_end", "flow_node"))
  OBVIOUS
<1>14. Nests(Row("flow_sequence_entry_mapping_end", Kinds, FALSE, "MappingEnd", "none",
                "flow_sequence_entry", 0))
  OBVIOUS
<1> HIDE DEF Row, Begin, Take, Finish, Empty, Node, Nests
<1> QED
  BY <1>1, <1>2, <1>3, <1>4, <1>5, <1>6, <1>7, <1>8, <1>9, <1>10, <1>11, <1>12, <1>13, <1>14, ZenonT(30) DEF FlowSequenceRows

(* The rows of flow mappings.                                                *)
LEMMA FlowMappingRowsNest == \A row \in FlowMappingRows : Nests(row)
<1> USE DEF Row, Begin, Take, Finish, Empty, Node, Nests, Knows, Even, Opens, Closes, Neutral,
            FlowPositions, Sure, Resumed, Inner, Pairs, PairKeys, PairValues, SeqPositions,
            KeyPositions, ValuePositions, Nodal, NodePositions
<1>1. Nests(Begin("flow_mapping_first_key", "flow_mapping_key:item"))
  OBVIOUS
<1>2. Nests(Finish("flow_mapping_key", "}", "MappingEnd"))
  OBVIOUS
<1>3. Nests(Take("flow_mapping_key", {","}, "flow_mapping_key:item"))
  OBVIOUS
<1>4. Nests(Finish("flow_mapping_key:item", "}", "MappingEnd"))
  OBVIOUS
<1>5. Nests(Take("flow_mapping_key:item", {"?"}, "flow_mapping_key:node"))
  OBVIOUS
<1>6. Nests(Node("flow_mapping_key:item", But({"}", "?"}), "flow_mapping_empty_value", "flow_node"))
  OBVIOUS
<1>7. Nests(Empty("flow_mapping_key:node", {":", ",", "}"}, "flow_mapping_value"))
  OBVIOUS
<1>8. Nests(Node("flow_mapping_key:node", But({":", ",", "}"}), "flow_mapping_value", "flow_node"))
  OBVIOUS
<1>9. Nests(Take("flow_mapping_value", {":"}, "flow_mapping_value:node"))
  OBVIOUS
<1>10. Nests(Empty("flow_mapping_value", But({":"}), "flow_mapping_key"))
  OBVIOUS
<1>11. Nests(Empty("flow_mapping_value:node", {",", "}"}, "flow_mapping_key"))
  OBVIOUS
<1>12. Nests(Node("flow_mapping_value:node", But({",", "}"}), "flow_mapping_key", "flow_node"))
  OBVIOUS
<1>13. Nests(Empty("flow_mapping_empty_value", Kinds, "flow_mapping_key"))
  OBVIOUS
<1> HIDE DEF Row, Begin, Take, Finish, Empty, Node, Nests
<1> QED
  BY <1>1, <1>2, <1>3, <1>4, <1>5, <1>6, <1>7, <1>8, <1>9, <1>10, <1>11, <1>12, <1>13, ZenonT(30) DEF FlowMappingRows

(* All rows.                                                                 *)
LEMMA RowsNest == \A row \in Rows : Nests(row)
BY DocumentRowsNest, BlockSequenceRowsNest, BlockMappingRowsNest, FlowSequenceRowsNest, FlowMappingRowsNest DEF Rows

-----------------------------------------------------------------------------
(* The invariant of scanner and parser.                                      *)

Deep(st, n) == st \in Seq(Resumed) /\ n \in Nat /\ Walks(Nat, FlowedOf, st, 0, n)

(* Positions, stack and scanner agree on the nesting of brackets; a position *)
(* that takes a token unseen has it; the last token is there until the end.  *)
Nested(p, st, s) ==
  /\ \E n : Deep(st, n) /\ Good(s, n + Flowed(p))
  /\ p \in Sure => ~NeedMore(s) /\ s.tokens # <<>> /\ Expects(p, Head(s.tokens).kind)
  /\ p # "none" => ~s.done \/ s.tokens # <<>>
  /\ p = "none" => s.done /\ s.tokens = <<>>

ScanInv ==
  /\ failed \in Errors \cup {"parser"}
  /\ failed = "none" => Nested(pos, states, scanner)
  /\ failed # "none" => pos = "stream_start" /\ scanner = NewScanner

(* What is on the stack weighs 0 or 1.                                       *)
LEMMA FlowedIs ==
  /\ FlowedOf \in [Resumed -> Nat] /\ \A p \in Resumed : FlowedOf[p] = Flowed(p)
  /\ \A p : Flowed(p) \in Nat
  /\ \A p : (p \in FlowPositions => Flowed(p) = 1) /\ (p \notin FlowPositions => Flowed(p) = 0)
<1>1. \A p : Flowed(p) \in Nat
  BY DEF Flowed
<1> QED
  BY <1>1 DEF FlowedOf, Flowed

(* Push and pop of the stack of states.                                      *)
LEMMA DeepStack ==
  ASSUME NEW st, NEW n, Deep(st, n)
  PROVE  /\ \A p \in Resumed : Deep(Append(st, p), n + Flowed(p))
         /\ st # <<>> => /\ Last(st) \in Resumed
                         /\ \E m : Deep(Front(st), m) /\ n = m + Flowed(Last(st))
<1>1. st \in Seq(Resumed) /\ n \in Nat /\ Walks(Nat, FlowedOf, st, 0, n)
  BY DEF Deep
<1>2. ASSUME NEW p \in Resumed PROVE Deep(Append(st, p), n + Flowed(p))
  <2>1. FlowedOf[p] = Flowed(p) /\ n + Flowed(p) \in Nat /\ Append(st, p) \in Seq(Resumed)
    BY <1>1, FlowedIs, AppendProperties
  <2>2. Walks(Nat, FlowedOf, Append(st, p), 0, n + FlowedOf[p])
    BY <1>1, <2>1, WalksAppend
  <2> QED
    BY <2>1, <2>2 DEF Deep
<1>3. ASSUME st # <<>>
      PROVE  /\ Last(st) \in Resumed
             /\ \E m : Deep(Front(st), m) /\ n = m + Flowed(Last(st))
  <2>1. Front(st) \in Seq(Resumed) /\ Last(st) \in Resumed
    BY <1>1, <1>3, FrontLastProperties
  <2>2. Nat \in {Nat, Int}
    OBVIOUS
  <2>3. PICK m \in Nat : Walks(Nat, FlowedOf, Front(st), 0, m) /\ n = m + FlowedOf[Last(st)]
    BY <1>1, <1>3, <2>2, FlowedIs, WalksFront
  <2>4. Deep(Front(st), m) /\ n = m + Flowed(Last(st))
    BY <2>1, <2>3, FlowedIs DEF Deep
  <2> QED
    BY <2>1, <2>4
<1> QED
  BY <1>2, <1>3

(* The scanner after get_token, or without it.                               *)
After(s, take) == IF take THEN Taken(s) ELSE s
Change(s, take) == IF take THEN Delta(Head(s.tokens).kind) ELSE 0

(* Nesting is counted in integers.                                           *)
LEMMA ChangeType == \A s, take : Change(s, take) \in Int
<1> TAKE s, take
<1>1. CASE take
  BY <1>1, DeltaType DEF Change
<1>2. CASE ~take
  BY <1>2 DEF Change
<1> QED
  BY <1>1, <1>2

(* get_token keeps the scanner sound, and takes the last token last.         *)
LEMMA AfterGood ==
  ASSUME NEW s, NEW d \in Int, Good(s, d), s.tokens # <<>>, ~NeedMore(s), NEW take
  PROVE  /\ Good(After(s, take), d + Change(s, take))
         /\ ~take \/ Head(s.tokens).kind # "</stream>" =>
              ~After(s, take).done \/ After(s, take).tokens # <<>>
         /\ take /\ Head(s.tokens).kind = "</stream>" =>
              After(s, take).done /\ After(s, take).tokens = <<>>
<1>1. CASE take
  <2>1. After(s, take) = Taken(s) /\ Change(s, take) = Delta(Head(s.tokens).kind)
    BY <1>1 DEF After, Change
  <2>2. /\ Good(Taken(s), d + Delta(Head(s.tokens).kind))
        /\ Taken(s).tokens = Tail(s.tokens) /\ Taken(s).done = s.done
    BY TakenGood
  <2>3. /\ Head(s.tokens).kind = "</stream>" => s.done /\ Tail(s.tokens) = <<>>
        /\ s.done /\ Tail(s.tokens) = <<>> => Head(s.tokens).kind = "</stream>"
    BY HeadOfGood
  <2> QED
    BY <1>1, <2>1, <2>2, <2>3
<1>2. CASE ~take
  <2>1. After(s, take) = s /\ Change(s, take) = 0 /\ d + 0 = d
    BY <1>2 DEF After, Change
  <2> QED
    BY <1>2, <2>1
<1> QED
  BY <1>1, <1>2

(* A position that is returned to has no token to take unseen.               *)
LEMMA ResumedIs ==
  ASSUME NEW p \in Resumed
  PROVE  p \notin Sure /\ p # "none" /\ p # "pop"
BY DEF Resumed, Inner, Pairs, SeqPositions, PairKeys, PairValues, KeyPositions, ValuePositions

(* self.state = to: nesting and position change alike.                       *)
LEMMA GoesOn ==
  ASSUME NEW p, NEW st, NEW s, Nested(p, st, s), ~NeedMore(s), p # "none", NEW take,
         NEW to, Flowed(to) = Flowed(p) + Change(s, take),
         to \in Sure => ~take /\ Expects(to, Head(s.tokens).kind),
         to # "none" /\ take => Head(s.tokens).kind # "</stream>",
         to = "none" => take /\ Head(s.tokens).kind = "</stream>"
  PROVE  Nested(to, st, After(s, take))
<1>1. PICK n : Deep(st, n) /\ Good(s, n + Flowed(p))
  BY DEF Nested
<1>2. s.tokens # <<>>
  BY DEF Nested, NeedMore
<1>3. n \in Nat /\ Flowed(p) \in Nat /\ Flowed(to) \in Nat /\ n + Flowed(p) \in Int
      /\ Change(s, take) \in Int
  <2>1. Change(s, take) \in Int
    BY ChangeType
  <2>2. n \in Nat /\ Flowed(p) \in Nat /\ Flowed(to) \in Nat
    BY <1>1, FlowedIs DEF Deep
  <2> QED
    BY <2>1, <2>2
<1>4. (n + Flowed(p)) + Change(s, take) = n + Flowed(to)
  BY <1>3
<1>5. /\ Good(After(s, take), (n + Flowed(p)) + Change(s, take))
      /\ ~take \/ Head(s.tokens).kind # "</stream>" =>
           ~After(s, take).done \/ After(s, take).tokens # <<>>
      /\ take /\ Head(s.tokens).kind = "</stream>" =>
           After(s, take).done /\ After(s, take).tokens = <<>>
  BY <1>1, <1>2, <1>3, AfterGood
<1>6. Good(After(s, take), n + Flowed(to))
  BY <1>4, <1>5
<1>7. to \in Sure => After(s, take) = s
  BY DEF After
<1> QED
  BY <1>1, <1>2, <1>5, <1>6, <1>7 DEF Nested

(* self.state = self.states.pop().                                           *)
LEMMA GoesBack ==
  ASSUME NEW p, NEW st, NEW s, Nested(p, st, s), ~NeedMore(s), p # "none", NEW take, st # <<>>,
         Flowed(p) + Change(s, take) = 0, take => Head(s.tokens).kind # "</stream>"
  PROVE  Nested(Last(st), Front(st), After(s, take))
<1>1. PICK n : Deep(st, n) /\ Good(s, n + Flowed(p))
  BY DEF Nested
<1>2. s.tokens # <<>>
  BY DEF Nested, NeedMore
<1>3. n \in Nat /\ Flowed(p) \in Nat /\ n + Flowed(p) \in Int /\ Change(s, take) \in Int
  <2>1. Change(s, take) \in Int
    BY ChangeType
  <2>2. n \in Nat /\ Flowed(p) \in Nat
    BY <1>1, FlowedIs DEF Deep
  <2> QED
    BY <2>1, <2>2
<1>4. (n + Flowed(p)) + Change(s, take) = n
  BY <1>3
<1>5. /\ Good(After(s, take), (n + Flowed(p)) + Change(s, take))
      /\ ~After(s, take).done \/ After(s, take).tokens # <<>>
  BY <1>1, <1>2, <1>3, AfterGood
<1>6. PICK m : Deep(Front(st), m) /\ n = m + Flowed(Last(st))
  BY <1>1, DeepStack
<1>7. Last(st) \notin Sure /\ Last(st) # "none"
  BY <1>1, DeepStack, ResumedIs
<1>8. Good(After(s, take), m + Flowed(Last(st)))
  BY <1>4, <1>5, <1>6
<1> QED
  BY <1>5, <1>6, <1>7, <1>8 DEF Nested

(* A node: where to go on is pushed.                                         *)
LEMMA GoesDown ==
  ASSUME NEW p, NEW st, NEW s, Nested(p, st, s), ~NeedMore(s), p # "none", NEW take,
         NEW back \in Resumed, NEW to, to \notin Sure, to # "none",
         Flowed(back) + Flowed(to) = Flowed(p) + Change(s, take),
         take => Head(s.tokens).kind # "</stream>"
  PROVE  Nested(to, Append(st, back), After(s, take))
<1>1. PICK n : Deep(st, n) /\ Good(s, n + Flowed(p))
  BY DEF Nested
<1>2. s.tokens # <<>>
  BY DEF Nested, NeedMore
<1>3. n \in Nat /\ Flowed(p) \in Nat /\ Flowed(to) \in Nat /\ Flowed(back) \in Nat
      /\ n + Flowed(p) \in Int /\ Change(s, take) \in Int
  <2>1. Change(s, take) \in Int
    BY ChangeType
  <2>2. n \in Nat /\ Flowed(p) \in Nat /\ Flowed(to) \in Nat /\ Flowed(back) \in Nat
    BY <1>1, FlowedIs DEF Deep
  <2> QED
    BY <2>1, <2>2
<1>4. (n + Flowed(p)) + Change(s, take) = (n + Flowed(back)) + Flowed(to)
  BY <1>3
<1>5. /\ Good(After(s, take), (n + Flowed(p)) + Change(s, take))
      /\ ~After(s, take).done \/ After(s, take).tokens # <<>>
  BY <1>1, <1>2, <1>3, AfterGood
<1>6. Deep(Append(st, back), n + Flowed(back))
  BY <1>1, DeepStack
<1>7. Good(After(s, take), (n + Flowed(back)) + Flowed(to))
  BY <1>4, <1>5
<1> QED
  BY <1>5, <1>6, <1>7 DEF Nested

-----------------------------------------------------------------------------
(* The steps of the parser.                                                  *)

(* What a row takes changes the nesting as its two positions differ.         *)
LEMMA RowChange ==
  ASSUME NEW row, Nests(row), NEW s, Head(s.tokens).kind \in row.on,
         row.at \in Sure => Expects(row.at, Head(s.tokens).kind)
  PROVE  LET kind == Head(s.tokens).kind
             change == Change(s, row.take)
         IN /\ row.push = "none" /\ row.to # "pop" => Flowed(row.to) = Flowed(row.at) + change
            /\ row.to = "pop" => row.push = "none" /\ Flowed(row.at) + change = 0
            /\ row.push # "none" => /\ row.push \in Resumed /\ row.to \notin Sure /\ row.to # "none"
                                    /\ Flowed(row.push) + Flowed(row.to) = Flowed(row.at) + change
            /\ row.to \in Sure => ~row.take /\ Expects(row.to, kind)
            /\ row.to # "none" /\ row.take => kind # "</stream>"
            /\ row.to = "none" => row.take /\ kind = "</stream>"
<1> DEFINE kind == Head(s.tokens).kind
           change == Change(s, row.take)
<1>1. Knows(row) /\ (Even(row) \/ Opens(row) \/ Closes(row)) /\ kind \in row.on
  BY DEF Nests
<1>2. \A k : Neutral(k) => Delta(k) = 0
  BY DEF Neutral, Delta
<1>3. row.at \in Sure => kind # "</stream>"
  BY DEF Sure, Expects
<1>4. row.at \in Sure \ {"flow_sequence_first_entry", "flow_mapping_first_key"} => Neutral(kind)
  BY DEF Sure, Expects, Neutral
<1>5. row.at \in {"flow_sequence_first_entry", "flow_mapping_first_key"} => kind = "[" \/ kind = "{"
  BY DEF Sure, Expects
<1>6. (row.take => change = Delta(kind)) /\ (~row.take => change = 0)
  BY DEF Change
<1>7. row.to \in Sure => ~row.take /\ Expects(row.to, kind)
  BY <1>1 DEF Knows, Expects
<1> HIDE DEF kind, change
<1>8. /\ row.to # "none" /\ row.take => kind # "</stream>"
      /\ row.to = "none" => row.take /\ kind = "</stream>"
  BY <1>1, <1>3 DEF Knows
<1>9. row.push # "none" => row.push \in Resumed /\ row.to \notin Sure /\ row.to # "none" /\ row.to # "pop"
  <2>1. row.push # "none" => row.push \in Resumed /\ row.to # "none" /\ row.to # "pop"
    BY <1>1 DEF Knows
  <2>2. row.push # "none" => row.to \notin Sure
    <3>1. row.to = "flow_sequence_entry_mapping_key" => row.to \in FlowPositions
      BY DEF FlowPositions, Pairs, PairKeys
    <3>2. row.push # "none" => row.to \notin FlowPositions
      BY <1>1 DEF Even, Opens, Closes
    <3>3. row.to \in Sure => row.to = "flow_sequence_entry_mapping_key"
      BY <1>1 DEF Knows
    <3> QED
      BY <3>1, <3>2, <3>3
  <2> QED
    BY <2>1, <2>2
<1>10. CASE Even(row)
  <2>1. change = 0
    BY <1>1, <1>2, <1>4, <1>6, <1>10 DEF Even
  <2>2. row.push = "none" /\ row.to # "pop" => Flowed(row.to) = Flowed(row.at)
    BY <1>10 DEF Even, Flowed
  <2>3. row.to = "pop" => row.push = "none" /\ Flowed(row.at) = 0
    BY <1>9, <1>10 DEF Even, Flowed
  <2>4. row.push # "none" => Flowed(row.to) = 0 /\ Flowed(row.push) = Flowed(row.at)
    BY <1>10 DEF Even, Flowed
  <2>5. Flowed(row.to) \in Nat /\ Flowed(row.at) \in Nat /\ Flowed(row.push) \in Nat
    BY FlowedIs
  <2> QED
    BY <1>7, <1>8, <1>9, <2>1, <2>2, <2>3, <2>4, <2>5 DEF kind, change
<1>11. CASE Opens(row)
  <2>1. change = 1
    BY <1>5, <1>6, <1>11, DeltaOf DEF Opens
  <2>2. row.push = "none" /\ row.to # "pop" /\ Flowed(row.to) = 1 /\ Flowed(row.at) = 0
    BY <1>11 DEF Opens, Flowed
  <2> QED
    BY <1>7, <1>8, <2>1, <2>2 DEF kind, change
<1>12. CASE Closes(row)
  <2>1. change = -1
    BY <1>1, <1>6, <1>12, DeltaOf DEF Closes
  <2>2. row.push = "none" /\ row.to = "pop" /\ Flowed(row.at) = 1
    BY <1>12 DEF Closes, Flowed
  <2> QED
    BY <1>7, <1>8, <2>1, <2>2 DEF kind, change
<1> QED
  BY <1>1, <1>10, <1>11, <1>12

(* What holds before a step of the parser.                                   *)
LEMMA BeforeStep ==
  ASSUME ScanInv, GrammarInv, Ready
  PROVE  /\ failed = "none" /\ pos # "none" /\ ~NeedMore(scanner) /\ scanner.tokens # <<>>
         /\ Nested(pos, states, scanner) /\ Agree(pos, states, open, marks)
         /\ pos \in Sure => Expects(pos, token.kind)
<1>1. failed = "none" /\ pos # "none" /\ ~NeedMore(scanner)
  BY DEF Ready, Ended
<1>2. Nested(pos, states, scanner) /\ Agree(pos, states, open, marks)
  BY <1>1 DEF ScanInv, GrammarInv
<1>3. scanner.tokens # <<>>
  BY <1>1, <1>2 DEF Nested, NeedMore
<1>4. pos \in Sure => Expects(pos, token.kind)
  BY <1>2 DEF Nested, token
<1> QED
  BY <1>1, <1>2, <1>3, <1>4

(* An exception: scanner and parser are thrown away.                         *)
LEMMA RaiseScans ==
  ASSUME NEW what \in Errors \cup {"parser"}, what # "none", Raise(what)
  PROVE  ScanInv'
<1>1. failed' = what /\ scanner' = NewScanner /\ pos' = "stream_start"
  BY DEF Raise
<1> QED
  BY <1>1 DEF ScanInv

(* No exception.                                                             *)
LEMMA NestedThen ==
  ASSUME failed' = "none", Nested(pos', states', scanner')
  PROVE  ScanInv'
<1>1. "none" \in Errors
  BY DEF Errors
<1> QED
  BY <1>1 DEF ScanInv

(* get_token.                                                                *)
LEMMA GetTokenIs ==
  /\ GetToken => scanner' = After(scanner, TRUE)
  /\ UNCHANGED scanner => scanner' = After(scanner, FALSE)
BY DEF GetToken, After, Taken

(* parse_...: any row of the tables.  The stream does not end with anything  *)
(* on the stacks.                                                            *)
LEMMA FollowScans ==
  ASSUME ScanInv, GrammarInv, Ready, NEW row \in Rows, row.at = pos, Follow(row)
  PROVE  ScanInv'
<1>1. /\ failed = "none" /\ pos # "none" /\ ~NeedMore(scanner) /\ scanner.tokens # <<>>
      /\ Nested(pos, states, scanner) /\ Agree(pos, states, open, marks)
      /\ pos \in Sure => Expects(pos, token.kind)
  BY BeforeStep
<1>2. Nests(row) /\ Knows(row) /\ token.kind \in row.on
  BY RowsNest DEF Nests, Follow
<1>3. ~(row.emit = "StreamEnd" /\ (states # <<>> \/ marks # 0))
  <2>1. ASSUME pos = "document_start" PROVE states = <<>> /\ marks = 0
    <3>1. "document_start" \in Outer
      BY DEF Outer
    <3> QED
      BY <1>1, <2>1, <3>1, OuterStands
  <2> QED
    BY <1>2, <2>1 DEF Knows
<1>4. /\ IF row.take THEN GetToken ELSE UNCHANGED scanner
      /\ IF row.push = "none" THEN GoTo(row.to)
                              ELSE pos' = row.to /\ states' = Append(states, row.push)
      /\ failed' = "none"
  BY <1>1, <1>3 DEF Follow
<1>5. scanner' = After(scanner, row.take)
  BY <1>4, GetTokenIs DEF After
<1> DEFINE kind == Head(scanner.tokens).kind
           change == Change(scanner, row.take)
<1>6. /\ row.push = "none" /\ row.to # "pop" => Flowed(row.to) = Flowed(row.at) + change
      /\ row.to = "pop" => row.push = "none" /\ Flowed(row.at) + change = 0
      /\ row.push # "none" => /\ row.push \in Resumed /\ row.to \notin Sure /\ row.to # "none"
                              /\ Flowed(row.push) + Flowed(row.to) = Flowed(row.at) + change
      /\ row.to \in Sure => ~row.take /\ Expects(row.to, kind)
      /\ row.to # "none" /\ row.take => kind # "</stream>"
      /\ row.to = "none" => row.take /\ kind = "</stream>"
  <2>1. Head(scanner.tokens).kind \in row.on
        /\ (row.at \in Sure => Expects(row.at, Head(scanner.tokens).kind))
    BY <1>1, <1>2 DEF token
  <2> QED
    BY <1>2, <2>1, RowChange
<1>7. CASE row.push = "none" /\ row.to # "pop"
  <2>1. pos' = row.to /\ states' = states
    BY <1>4, <1>7 DEF GoTo
  <2>2. Nested(row.to, states, After(scanner, row.take))
    BY <1>1, <1>6, <1>7, GoesOn
  <2> QED
    BY <1>4, <1>5, <2>1, <2>2, NestedThen
<1>8. CASE row.push = "none" /\ row.to = "pop"
  <2>1. pos' = Last(states) /\ states' = Front(states)
    BY <1>4, <1>8 DEF GoTo
  <2>2. states # <<>>
    <3>1. pos \in Inner \cup Nodal
      BY <1>2, <1>8 DEF Knows
    <3> QED
      BY <1>1, <3>1 DEF Agree, AwaitsNode
  <2>3. row.take => kind # "</stream>"
    BY <1>6, <1>8
  <2>4. Nested(Last(states), Front(states), After(scanner, row.take))
    BY <1>1, <1>6, <1>8, <2>2, <2>3, GoesBack
  <2> QED
    BY <1>4, <1>5, <2>1, <2>4, NestedThen
<1>9. CASE row.push # "none"
  <2>1. pos' = row.to /\ states' = Append(states, row.push)
    BY <1>4, <1>9
  <2>2. Nested(row.to, Append(states, row.push), After(scanner, row.take))
    BY <1>1, <1>6, <1>9, GoesDown
  <2> QED
    BY <1>4, <1>5, <2>1, <2>2, NestedThen
<1> QED
  BY <1>7, <1>8, <1>9

(* A token that neither nests nor ends the stream is consumed, and the       *)
(* position stays.                                                           *)
LEMMA StaysScans ==
  ASSUME ScanInv, GrammarInv, Ready, pos \notin Sure,
         Neutral(token.kind), token.kind # "</stream>",
         GetToken, UNCHANGED <<pos, states, failed>>
  PROVE  ScanInv'
<1>1. /\ failed = "none" /\ pos # "none" /\ ~NeedMore(scanner) /\ Nested(pos, states, scanner)
  BY BeforeStep
<1> DEFINE change == Change(scanner, TRUE)
<1>2. change = 0
  BY DEF Change, token, Neutral, Delta
<1> HIDE DEF change
<1>3. Flowed(pos) = Flowed(pos) + change
  BY <1>2, FlowedIs
<1>4. Head(scanner.tokens).kind # "</stream>"
  BY DEF token
<1>5. Nested(pos, states, After(scanner, TRUE))
  BY <1>1, <1>3, <1>4, GoesOn DEF change
<1> QED
  BY <1>1, <1>5, GetTokenIs, NestedThen

(* The lines before a document.                                              *)
LEMMA DirectiveScans ==
  ASSUME ScanInv, GrammarInv, Directive
  PROVE  ScanInv'
<1>1. Ready /\ pos \notin Sure /\ Neutral(token.kind) /\ token.kind # "</stream>"
  BY DEF Directive, Sure, Neutral
<1>2. CASE Raise("parser")
  BY <1>2, RaiseScans
<1>3. CASE GetToken /\ UNCHANGED <<pos, states, failed>>
  BY <1>1, <1>3, StaysScans
<1> QED
  BY <1>2, <1>3 DEF Directive

(* parse_node: an anchor or a tag.                                           *)
LEMMA PropertyScans ==
  ASSUME ScanInv, GrammarInv, Property
  PROVE  ScanInv'
<1>1. Ready /\ pos \notin Sure /\ Neutral(token.kind) /\ token.kind # "</stream>"
  BY DEF Property, IsProperty, NodePositions, Sure, Neutral
<1>2. CASE Raise("parser")
  BY <1>2, RaiseScans
<1>3. CASE GetToken /\ UNCHANGED <<pos, states, failed>>
  BY <1>1, <1>3, StaysScans
<1> QED
  BY <1>2, <1>3 DEF Property

(* A collection begins at a position outside of its brackets, which expects  *)
(* the token that was seen.                                                  *)
LEMMA CollectionExpects ==
  ASSUME NEW where, NEW kind, Collection(where, kind) # <<>>
  PROVE  LET q == Collection(where, kind)[2]
         IN Flowed(q) = 0 /\ q # "pop" /\ q # "none" /\ (q \in Sure => Expects(q, kind))
<1>1. \/ Collection(where, kind)[2] = "indentless_sequence_entry"
      \/ kind = "[" /\ Collection(where, kind)[2] = "flow_sequence_first_entry"
      \/ kind = "{" /\ Collection(where, kind)[2] = "flow_mapping_first_key"
      \/ kind = "<seq>" /\ Collection(where, kind)[2] = "block_sequence_first_entry"
      \/ kind = "<map>" /\ Collection(where, kind)[2] = "block_mapping_first_key"
  BY DEF Collection
<1>2. \A q \in {"indentless_sequence_entry", "flow_sequence_first_entry", "flow_mapping_first_key",
               "block_sequence_first_entry", "block_mapping_first_key"} : q \notin FlowPositions
  BY DEF FlowPositions, Pairs, PairKeys, PairValues
<1>3. "indentless_sequence_entry" \notin Sure
  BY DEF Sure
<1> QED
  BY <1>1, <1>2, <1>3, FlowedIs DEF Expects

(* parse_node: an alias, a scalar, a collection or an empty node.            *)
LEMMA ContentScans ==
  ASSUME ScanInv, GrammarInv, Content
  PROVE  ScanInv'
<1> DEFINE kind == Head(scanner.tokens).kind
           collection == Collection(pos, kind)
<1>1. pos \in Nodal /\ pos \notin FlowPositions /\ Ready /\ failed' = failed
  BY DEF Content, Nodal, NodePositions, FlowPositions, Pairs, PairKeys, PairValues
<1>2. /\ failed = "none" /\ pos # "none" /\ ~NeedMore(scanner) /\ scanner.tokens # <<>>
      /\ Nested(pos, states, scanner) /\ Agree(pos, states, open, marks)
  BY <1>1, BeforeStep
<1>3. states # <<>> /\ Flowed(pos) = 0
  BY <1>1, <1>2, FlowedIs DEF Agree, AwaitsNode
<1>4. \/ (kind = "*" \/ kind \in {"scalar", "plain"}) /\ GetToken /\ GoTo("pop")
      \/ UNCHANGED scanner /\ GoTo("pop")
      \/ collection # <<>> /\ UNCHANGED scanner /\ GoTo(collection[2])
  BY DEF Content, token
<1>5. GoTo("pop") => pos' = Last(states) /\ states' = Front(states)
  BY DEF GoTo
<1>6. Flowed(pos) + Change(scanner, FALSE) = 0
  BY <1>3 DEF Change
<1>7. CASE (kind = "*" \/ kind \in {"scalar", "plain"}) /\ GetToken /\ GoTo("pop")
  <2> DEFINE change == Change(scanner, TRUE)
  <2>1. change = 0 /\ kind # "</stream>"
    BY <1>7 DEF Change, Delta
  <2> HIDE DEF change
  <2>2. Flowed(pos) + change = 0
    BY <1>3, <2>1
  <2>3. Nested(Last(states), Front(states), After(scanner, TRUE))
    BY <1>2, <1>3, <2>1, <2>2, GoesBack DEF change
  <2> QED
    BY <1>1, <1>2, <1>5, <1>7, <2>3, GetTokenIs, NestedThen
<1>8. CASE UNCHANGED scanner /\ GoTo("pop")
  <2>1. Nested(Last(states), Front(states), After(scanner, FALSE))
    BY <1>2, <1>3, <1>6, GoesBack
  <2> QED
    BY <1>1, <1>2, <1>5, <1>8, <2>1, GetTokenIs, NestedThen
<1>9. CASE collection # <<>> /\ UNCHANGED scanner /\ GoTo(collection[2])
  <2> DEFINE q == collection[2]
  <2>1. Flowed(q) = 0 /\ q # "pop" /\ q # "none" /\ (q \in Sure => Expects(q, kind))
    BY <1>9, CollectionExpects
  <2>2. pos' = q /\ states' = states
    BY <1>9, <2>1 DEF GoTo
  <2> HIDE DEF q
  <2>3. Flowed(q) = Flowed(pos) + Change(scanner, FALSE)
    BY <1>6, <2>1
  <2>4. Nested(q, states, After(scanner, FALSE))
    BY <1>2, <2>1, <2>3, GoesOn
  <2> QED
    BY <1>1, <1>2, <1>9, <2>2, <2>4, GetTokenIs, NestedThen
<1> QED
  BY <1>4, <1>7, <1>8, <1>9

(* What no method accepts.                                                   *)
LEMMA UnexpectedScans ==
  ASSUME Unexpected
  PROVE  ScanInv'
BY RaiseScans DEF Unexpected

(* The lesser of two naturals is one of them.                                *)
LEMMA MinOfTwo ==
  ASSUME NEW a \in Nat, NEW b \in Nat
  PROVE  Min({a, b}) \in Nat
<1> DEFINE m == Min({a, b})
<1>1. \E x \in {a, b} : \A y \in {a, b} : x <= y
  <2>1. CASE a <= b
    BY <2>1
  <2>2. CASE ~(a <= b)
    BY <2>2
  <2> QED
    BY <2>1, <2>2
<1>2. m \in {a, b}
  BY <1>1 DEF Min
<1> QED
  BY <1>2

(* A lexeme has a text, and begins and ends somewhere.                       *)
LEMMA ScanFinds ==
  ASSUME NEW kind, NEW col \in Nat, NEW found \in Scan(kind, col, Names)
  PROVE  found[1] \in Texts /\ found[2][2] \in Nat
<1>1. MaxCol \in Nat
  BY ScannerAssumption
<1>2. \A end \in SameLine(col) : end[2] \in Nat
  BY <1>1, MinOfTwo DEF SameLine
<1>3. \A end \in LaterLine : end[2] \in Nat
  BY DEF LaterLine
<1>4. \A end \in {<<"newline", 0>>} : end[2] \in Nat
  OBVIOUS
<1>5. {"", "t"} \subseteq Texts /\ Names \cup {""} \subseteq Texts
  BY DEF Texts
<1>6. \/ found \in (Names \cup {""}) \X SameLine(col)
      \/ found \in {""} \X SameLine(col)
      \/ found \in {"t"} \X {<<"newline", 0>>}
      \/ found \in {"t"} \X (SameLine(col) \cup LaterLine)
      \/ found \in {"t"} \X (SameLine(col) \cup LaterLine \cup {<<"newline", 0>>})
  BY DEF Scan, ScanDirective, ScanTag, ScanAnchor, ScanBlockScalar, ScanFlowScalar, ScanPlain
<1> HIDE DEF SameLine, LaterLine
<1>7. found[1] \in Texts /\ found[2] \in SameLine(col) \cup LaterLine \cup {<<"newline", 0>>}
  BY <1>5, <1>6
<1> QED
  BY <1>2, <1>3, <1>4, <1>7

(* It stands at a column.                                                    *)
LEMMA PlacesAre ==
  ASSUME NEW s \in Scanners, NEW place \in Places(s)
  PROVE  place[2] \in Nat
<1>1. MaxCol \in Nat /\ s.col \in Nat
  BY ScannerAssumption, ScannerIs
<1>2. \/ place \in {<<"none", Min({s.col, MaxCol + 1})>>}
      \/ place[2] \in 0..MaxCol
  BY DEF Places
<1>3. Min({s.col, MaxCol + 1}) \in Nat
  BY <1>1, MinOfTwo
<1> QED
  BY <1>1, <1>2, <1>3

(* Where the scanner has to read on, no closing bracket is without its       *)
(* opening one.                                                              *)
LEMMA HungryReads ==
  ASSUME NEW s, NEW d \in Nat, Good(s, d), NeedMore(s)
  PROVE  Reading(s, d) /\ s.flow >= 0
<1>1. ~s.done /\ (s.tokens = <<>> \/ DOMAIN s.keys # {})
  BY DEF NeedMore
<1>2. Reading(s, d)
  BY <1>1 DEF Good, AtEnd
<1>3. /\ s.flow \in Int /\ Walks(Int, Weight, s.tokens, d, s.flow)
      /\ KeysOk(s.keys, Len(s.tokens), s.flow)
  BY <1>2, ScannerIs DEF Reading, Sound
<1>4. CASE s.tokens = <<>>
  <2>1. d \in Int
    OBVIOUS
  <2>2. s.flow = d
    BY <1>3, <1>4, <2>1, WalksEmpty
  <2> QED
    BY <1>2, <2>2
<1>5. CASE DOMAIN s.keys # {}
  <2>1. PICK level \in DOMAIN s.keys : level \in 0..s.flow
    BY <1>3, <1>5 DEF KeysOk
  <2> QED
    BY <1>2, <1>3, <2>1
<1> QED
  BY <1>1, <1>4, <1>5

(* fetch_more_tokens.                                                        *)
LEMMA ReadScans ==
  ASSUME ScanInv, Read
  PROVE  ScanInv'
<1>1. failed = "none" /\ pos # "none" /\ NeedMore(scanner) /\ Nested(pos, states, scanner)
  BY DEF Read, Hungry, Ended, ScanInv
<1>2. PICK n : Deep(states, n) /\ Good(scanner, n + Flowed(pos))
  BY <1>1 DEF Nested
<1>3. n + Flowed(pos) \in Nat
  BY <1>2, FlowedIs DEF Deep
<1>4. Reading(scanner, n + Flowed(pos)) /\ scanner.flow >= 0
  BY <1>1, <1>2, <1>3, HungryReads
<1>5. PICK kind \in Text, place \in Places(scanner) :
        \E found \in Scan(kind, place[2], Names) :
          FetchLexeme(Lexeme(kind, found[1], place[1], place[2], found[2][1], found[2][2]))
  BY DEF Read
<1>6. place[2] \in Nat
  BY <1>4, PlacesAre DEF Reading
<1>7. PICK found \in Scan(kind, place[2], Names) :
        FetchLexeme(Lexeme(kind, found[1], place[1], place[2], found[2][1], found[2][2]))
  BY <1>5
<1>8. found[1] \in Texts /\ found[2][2] \in Nat
  BY <1>6, ScanFinds
<1>9. PICK lex : FetchLexeme(lex) /\ lex.text \in Texts /\ lex.col \in Nat /\ lex.end \in Nat
  BY <1>6, <1>7, <1>8 DEF Lexeme
<1>10. PICK read : read = FetchMore(scanner, lex)
  OBVIOUS
<1>11. /\ read.error \in Errors
       /\ read.error = "none" => Good(read, n + Flowed(pos)) /\ (~read.done \/ read.tokens # <<>>)
  BY <1>4, <1>9, <1>10, FetchMoreReads
<1>12. CASE read.error # "none"
  BY <1>9, <1>10, <1>11, <1>12, RaiseScans DEF FetchLexeme
<1>13. CASE read.error = "none"
  <2>1. scanner' = read /\ pos' = pos /\ states' = states /\ failed' = failed
    BY <1>9, <1>10, <1>13 DEF FetchLexeme
  <2>2. pos \notin Sure
    BY <1>1 DEF Nested
  <2>3. Nested(pos, states, read)
    BY <1>1, <1>2, <1>11, <1>13, <2>2 DEF Nested
  <2> QED
    BY <1>1, <2>1, <2>3, NestedThen
<1> QED
  BY <1>12, <1>13

(* At first the parser expects STREAM-START, and it is there.                *)
LEMMA ScanInit == Init => ScanInv
<1> SUFFICES ASSUME Init PROVE ScanInv
  OBVIOUS
<1>1. scanner = NewScanner /\ pos = "stream_start" /\ states = <<>> /\ failed = "none"
  BY DEF Init
<1>2. Flowed("stream_start") = 0
  <2>1. "stream_start" \notin FlowPositions
    BY DEF FlowPositions, Pairs, PairKeys, PairValues
  <2> QED
    BY <2>1, FlowedIs
<1>3. Deep(<<>>, 0)
  <2>1. Walks(Nat, FlowedOf, <<>>, 0, 0)
    BY WalksEmpty
  <2> QED
    BY <2>1 DEF Deep
<1>4. Good(NewScanner, 0 + Flowed("stream_start"))
  BY <1>2, NewScannerReads DEF Good
<1>5. Expects("stream_start", "<stream>")
  BY DEF Expects
<1>6. Nested("stream_start", <<>>, NewScanner)
  BY <1>3, <1>4, <1>5, NewScannerReads DEF Nested
<1> QED
  BY <1>1, <1>6 DEF ScanInv, Errors

(* Every step keeps it.                                                      *)
LEMMA ScanStep ==
  ASSUME ScanInv, GrammarInv, [Next]_vars
  PROVE  ScanInv'
<1>1. CASE UNCHANGED vars
  BY <1>1 DEF vars, pvars, ScanInv
<1>2. CASE Finished
  BY <1>1, <1>2 DEF Finished
<1>3. CASE Read
  BY <1>3, ReadScans
<1>4. CASE Step
  <2>1. PICK row \in RowsAt[pos] : Follow(row)
    BY <1>4 DEF Step
  <2>2. row \in Rows /\ row.at = pos /\ Ready
    BY <1>4, <2>1 DEF Step, RowsAt
  <2> QED
    BY <2>1, <2>2, FollowScans
<1>5. CASE Directive
  BY <1>5, DirectiveScans
<1>6. CASE Property
  BY <1>6, PropertyScans
<1>7. CASE Content
  BY <1>7, ContentScans
<1>8. CASE Unexpected
  BY <1>8, UnexpectedScans
<1> QED
  BY <1>1, <1>2, <1>3, <1>4, <1>5, <1>6, <1>7, <1>8 DEF Next, Parse

(* The invariant holds in every state: the scanner's count of open brackets  *)
(* and what its tokens and the stack of states of parser.py stand for agree. *)
THEOREM ScanAlways == Spec => []ScanInv
BY ScanInit, ScanStep, GrammarAlways, PTL DEF Spec

(* scanner.py and parser.py: a possible simple key is at a token that the    *)
(* parser has not taken, an outer key before an inner one.                   *)
THEOREM KeysStayAhead == Spec => []KeysAhead
<1>1. ASSUME NEW s, NEW d, Good(s, d)
      PROVE  \A level \in DOMAIN s.keys :
               /\ s.keys[level].at \in 0..(Len(s.tokens) - 1) /\ level \in 0..s.flow
               /\ \A inner \in DOMAIN s.keys : level < inner => s.keys[level].at < s.keys[inner].at
  <2>1. CASE Reading(s, d)
    BY <2>1 DEF Reading, Sound, KeysOk
  <2>2. CASE AtEnd(s, d)
    BY <2>2 DEF AtEnd
  <2> QED
    BY <1>1, <2>1, <2>2 DEF Good
<1>2. ScanInv => \E d : Good(scanner, d)
  <2>1. CASE failed = "none"
    BY <2>1 DEF ScanInv, Nested
  <2>2. CASE failed # "none"
    BY <2>2, NewScannerReads DEF ScanInv, Good
  <2> QED
    BY <2>1, <2>2
<1>3. ScanInv => KeysAhead
  BY <1>1, <1>2 DEF KeysAhead
<1> QED
  BY <1>3, ScanAlways, PTL

(* What the two invariants say of the end of a stream.                       *)
LEMMA NothingLeftOpen ==
  ASSUME ScanInv, GrammarInv
  PROVE  StreamEndsBalanced
<1>1. failed # "parser assert"
  BY DEF ScanInv, Errors
<1>2. ASSUME pos = "none" PROVE failed = "none" /\ Nested("none", states, scanner)
  BY <1>2 DEF ScanInv
<1>3. ASSUME pos = "none" PROVE states = <<>> /\ marks = 0 /\ open = <<"end">>
  <2>1. "none" \in Outer
    BY DEF Outer
  <2>2. Agree("none", states, open, marks)
    BY <1>2, <1>3 DEF GrammarInv
  <2> QED
    BY <2>1, <2>2, OuterStands, OuterFrames
<1>4. ASSUME pos = "none"
      PROVE  scanner.flow = 0 /\ scanner.indents = <<-1>> /\ scanner.tokens = <<>>
  <2>1. scanner.done /\ scanner.tokens = <<>>
    BY <1>2, <1>4 DEF Nested
  <2>2. PICK n : Deep(<<>>, n) /\ Good(scanner, n + Flowed("none"))
    BY <1>2, <1>3, <1>4 DEF Nested
  <2>3. Flowed("none") = 0
    <3>1. "none" \notin FlowPositions
      BY DEF FlowPositions, Pairs, PairKeys, PairValues
    <3> QED
      BY <3>1, FlowedIs
  <2>4. n = 0
    BY <2>2, WalksEmpty DEF Deep
  <2>5. AtEnd(scanner, 0)
    BY <2>1, <2>2, <2>3, <2>4 DEF Good, Reading
  <2>6. 0 \in Int /\ Walks(Int, Weight, <<>>, 0, scanner.flow) /\ (scanner.flow = 0 => scanner.indents = <<-1>>)
    BY <2>1, <2>5 DEF AtEnd
  <2>7. scanner.flow = 0
    BY <2>6, WalksEmpty
  <2> QED
    BY <2>1, <2>6, <2>7
<1> QED
  BY <1>1, <1>3, <1>4 DEF StreamEndsBalanced

(* parser.py:180: where a stream ends nothing is left open, neither on the   *)
(* parser's stacks nor in the scanner nor in what the events have opened;    *)
(* the assertion at the end of the stream holds.                             *)
THEOREM StreamsEndBalanced == Spec => []StreamEndsBalanced
BY NothingLeftOpen, ScanAlways, GrammarAlways, PTL
=============================================================================

------------------------- MODULE YamlObjectsProofs -------------------------
(* Theorems about the objects built from a text, for every schema and every  *)
(* text: the heap holds what the text says, and no text that is right is     *)
(* refused.                                                                  *)
EXTENDS YamlObjects, SequenceTheorems, TLAPS

(* ------------------------------- the text -------------------------------- *)

Says == Keys \cup Texts \cup {""}
NodeType == [kind : {"leaf", "map", "seq"}, says : Says, as : {"root", "key", "value", "item"},
             up : Nat, at : Nat, rule : Rules \cup {NoRule}]
PlaceType == [node : Nat \ {0}, at : Nat]

\* What there is in a collection of the text.
In(tx, m, role) == {n \in 1..Len(tx) : tx[n].up = m /\ tx[n].as = role}

\* What a node of the text knows of the collection it is in.
ValueRule(above, key) ==
  IF Attribute(above, key) THEN Schema[above.rule.of][key.says] ELSE NoRule
ItemRule(above) == IF above.rule.type = "repeated" THEN Item(above.rule) ELSE NoRule
NodeOK(tx, n) ==
  LET node == tx[n]
      above == tx[node.up]
  IN /\ node.as = "root" => node.up = 0 /\ node.rule = RootRule
     /\ node.as # "root" => node.up \in 1..(n - 1)
     /\ node.as \in {"key", "value"} => above.kind = "map"
     /\ node.as = "key" => node.rule = NoRule
     /\ node.as = "value" =>
          /\ node.at \in In(tx, node.up, "key") /\ node.at < n
          /\ node.rule = ValueRule(above, tx[node.at])
     /\ node.as = "item" => above.kind = "seq" /\ node.rule = ItemRule(above)

(* What is open: each collection in the one before.                          *)
Pending(tx, pa, i) == tx[pa[i].node].kind = "map" /\ pa[i].at # 0
FrameOf(tx, pa, i) ==
  IF tx[pa[i].node].kind = "seq" THEN "seq" ELSE IF pa[i].at = 0 THEN "key" ELSE "value"
PlaceOK(tx, pa, i) ==
  LET place == pa[i]
  IN /\ place.node \in 1..Len(tx) /\ tx[place.node].kind # "leaf"
     /\ tx[place.node].up = IF i = 1 THEN 0 ELSE pa[i - 1].node
     /\ \A n \in In(tx, place.node, "item") : tx[n].at \in 1..place.at
     /\ Pending(tx, pa, i) =>
          /\ place.at \in In(tx, place.node, "key")
          /\ \A n \in In(tx, place.node, "value") : tx[n].at # place.at
Deeper(pa) == \A i, j \in 1..Len(pa) : i < j => pa[i].node < pa[j].node
\* Every key but a pending one has its value.
KeyDone(tx, pa, n) ==
  \/ \E value \in In(tx, tx[n].up, "value") : tx[value].at = n
  \/ \E i \in 1..Len(pa) : pa[i].node = tx[n].up /\ pa[i].at = n

Inside(tx, pa, op) ==
  /\ Len(op) = Len(pa) + 2 /\ op[1] = "stream" /\ op[2] = "rootdone"
  /\ \A i \in 1..Len(pa) : op[i + 2] = FrameOf(tx, pa, i)
OpenOK(tx, pa, op) ==
  /\ op \in Seq(Events!Frames)
  /\ \/ op \in {<<"stream">>, <<"end">>, <<"stream", "root">>} /\ pa = <<>>
     \/ op = <<"error">>
     \/ Inside(tx, pa, op)
RootsOK(tx, ro) == \A i \in 1..Len(ro) : ro[i] \in 1..Len(tx) /\ tx[ro[i]].as = "root"
TreeOK(tx, pa) ==
  /\ tx \in Seq(NodeType) /\ pa \in Seq(PlaceType)
  /\ \A n \in 1..Len(tx) : NodeOK(tx, n)
  /\ \A i \in 1..Len(pa) : PlaceOK(tx, pa, i)
  /\ Deeper(pa)
  /\ \A n \in 1..Len(tx) : tx[n].as = "key" => KeyDone(tx, pa, n)
TextOK ==
  /\ TreeOK(text, path) /\ OpenOK(text, path, open)
  /\ roots \in Seq(Nat) /\ RootsOK(text, roots)

LEMMA TextStarts == Init => TextOK
<1> SUFFICES ASSUME Init PROVE TextOK
  OBVIOUS
<1>1. text = <<>> /\ path = <<>> /\ roots = <<>> /\ open = <<"stream">>
  BY DEF Init
<1>2. Len(text) = 0 /\ Len(path) = 0 /\ Len(roots) = 0
  BY <1>1
<1>3. open \in Seq(Events!Frames)
  BY <1>1 DEF Events!Frames
<1>4. TreeOK(text, path)
  BY <1>1, <1>2 DEF TreeOK, Deeper
<1> QED
  BY <1>1, <1>2, <1>3, <1>4 DEF TextOK, RootsOK, OpenOK

LEMMA Sorts ==
  ASSUME TextOK
  PROVE  /\ text \in Seq(NodeType) /\ path \in Seq(PlaceType) /\ open \in Seq(Events!Frames)
         /\ roots \in Seq(Nat)
         /\ Len(text) \in Nat /\ Len(path) \in Nat /\ Len(open) \in Nat /\ Len(roots) \in Nat
<1>1. TreeOK(text, path) /\ OpenOK(text, path, open) /\ roots \in Seq(Nat)
  BY DEF TextOK
<1>2. text \in Seq(NodeType) /\ path \in Seq(PlaceType)
  BY <1>1 DEF TreeOK
<1>3. open \in Seq(Events!Frames)
  BY <1>1 DEF OpenOK
<1> QED
  BY <1>1, <1>2, <1>3

LEMMA Empty ==
  ASSUME TextOK
  PROVE  /\ path = <<>> <=> Len(path) = 0
         /\ path # <<>> => Len(path) \in Nat \ {0}
         /\ open = <<>> <=> Len(open) = 0
BY Sorts

LEMMA InsideLength ==
  ASSUME NEW tx, NEW pa, NEW op, Inside(tx, pa, op)
  PROVE  Len(op) = Len(pa) + 2 /\ op[1] = "stream" /\ op[2] = "rootdone"
BY Zenon DEF Inside

\* The cases of what is open.
LEMMA OpenCases ==
  ASSUME TextOK
  PROVE  \/ path = <<>> /\ Len(open) = 1 /\ (open[1] = "stream" \/ open[1] = "end")
         \/ path = <<>> /\ open = <<"stream", "root">> /\ Len(open) = 2 /\ open[2] = "root"
         \/ open = <<"error">> /\ Len(open) = 1 /\ open[1] = "error"
         \/ Inside(text, path, open)
<1>1. OpenOK(text, path, open)
  BY DEF TextOK
<1>2. CASE open = <<"stream">> /\ path = <<>>
  BY <1>2
<1>3. CASE open = <<"end">> /\ path = <<>>
  BY <1>3
<1>4. CASE open = <<"stream", "root">> /\ path = <<>>
  BY <1>4
<1>5. CASE open = <<"error">>
  BY <1>5
<1>6. CASE Inside(text, path, open)
  BY <1>6
<1> QED
  BY <1>1, <1>2, <1>3, <1>4, <1>5, <1>6 DEF OpenOK

\* The model's names for it.
LEMMA Named ==
  ASSUME TextOK, NEW m
  PROVE  /\ KeysOf(m) = In(text, m, "key") /\ ValuesOf(m) = In(text, m, "value")
         /\ ItemsOf(m) = In(text, m, "item") /\ Nodes = 1..Len(text)
<1>1. Nodes = 1..Len(text)
  BY DEF TextOK, TreeOK, Nodes
<1> QED
  BY <1>1 DEF KeysOf, ValuesOf, ItemsOf, In

(* The last of a sequence, and what is before it.                            *)
LEMMA Fronts ==
  ASSUME NEW S, NEW s \in Seq(S), s # <<>>
  PROVE  /\ Len(s) \in Nat \ {0} /\ Last(s) = s[Len(s)] /\ Last(s) \in S
         /\ Front(s) \in Seq(S) /\ Len(Front(s)) = Len(s) - 1
         /\ \A i \in 1..(Len(s) - 1) : Front(s)[i] = s[i]
<1>1. Len(s) \in Nat \ {0} /\ Last(s) = s[Len(s)] /\ Last(s) \in S
  BY DEF Last
<1>2. Front(s) = SubSeq(s, 1, Len(s) - 1)
  BY DEF Front
<1>3. PICK k \in Nat : k = Len(s) - 1
  BY <1>1
<1>4. \A i \in 1..k : s[i] \in S
  BY <1>1, <1>3
<1>5. /\ SubSeq(s, 1, k) \in Seq(S) /\ Len(SubSeq(s, 1, k)) = IF 1 <= k THEN k - 1 + 1 ELSE 0
      /\ \A i \in 1..(k - 1 + 1) : SubSeq(s, 1, k)[i] = s[1 + i - 1]
  BY <1>3, <1>4, SubSeqProperties
<1> QED
  BY <1>1, <1>2, <1>3, <1>5

LEMMA Appends ==
  ASSUME NEW S, NEW s \in Seq(S), NEW x \in S
  PROVE  /\ Append(s, x) \in Seq(S) /\ Len(Append(s, x)) = Len(s) + 1
         /\ Append(s, x)[Len(s) + 1] = x
         /\ \A i \in 1..Len(s) : Append(s, x)[i] = s[i]
OBVIOUS

(* ---------------------------- a node begins ------------------------------ *)

Kinds == {"leaf", "map", "seq"}
RuleTypes == Rules \cup {NoRule}

LEMMA RuleKinds ==
  ASSUME NEW rule \in RuleTypes
  PROVE  /\ rule.type = "object" => rule.of \in Classes
         /\ rule.type = "repeated" => rule.of \in Classes \cup {"word"}
         /\ rule.type \in {"str", "word", "object", "repeated", "none"}
<1>1. CASE rule \in [type : {"str", "word"}, optional : BOOLEAN, of : {"", "word"}]
  BY <1>1
<1>2. CASE rule \in [type : {"object"}, optional : BOOLEAN, of : Classes]
  BY <1>2
<1>3. CASE rule \in [type : {"repeated"}, optional : BOOLEAN, of : Classes \cup {"word"}]
  BY <1>3
<1>4. CASE rule = NoRule
  BY <1>4 DEF NoRule
<1> QED
  BY <1>1, <1>2, <1>3, <1>4 DEF RuleTypes, Rules

LEMMA ItemTypes ==
  ASSUME NEW rule \in RuleTypes, rule.type = "repeated"
  PROVE  /\ Item(rule) \in Rules /\ Item(rule).type \in {"word", "object"}
         /\ Item(rule).optional = FALSE
         /\ Item(rule).type = "object" => Item(rule).of = rule.of /\ rule.of \in Classes
         /\ Item(rule).type = "word" <=> rule.of = "word"
<1>2. rule.of \in Classes \cup {"word"} /\ "word" \notin Classes
  BY RuleKinds, SchemaAssumption
<1>3. CASE rule.of = "word"
  BY <1>2, <1>3 DEF Item, Rules
<1>4. CASE rule.of # "word"
  BY <1>2, <1>4 DEF Item, Rules
<1> QED
  BY <1>3, <1>4

LEMMA ObjectRules ==
  ASSUME NEW rule \in RuleTypes, rule.type = "object"
  PROVE  rule.of \in Classes
BY RuleKinds

LEMMA AttributeRules ==
  ASSUME NEW map \in NodeType, NEW key, Attribute(map, key)
  PROVE  Schema[map.rule.of][key.says] \in Rules
<1>1. map.rule.of \in Classes
  BY ObjectRules DEF Attribute, NodeType, RuleTypes
<1> QED
  BY <1>1, SchemaAssumption DEF Attribute

(* Where the next node goes.                                                 *)
LEMMA Roles ==
  ASSUME TextOK
  PROVE  /\ Role \in {"root", "item", "key", "value"}
         /\ Role = "root" <=> path = <<>>
         /\ path # <<>> => /\ Here = path[Len(path)] /\ Len(path) \in Nat \ {0}
                           /\ Here \in PlaceType /\ Here.node \in 1..Len(text)
                           /\ Above \in NodeType /\ Above = text[Here.node]
                           /\ Above.kind \in {"map", "seq"}
                           /\ Role = "item" <=> Above.kind = "seq"
                           /\ Role = "key" <=> Above.kind = "map" /\ Here.at = 0
                           /\ Role = "value" <=> Above.kind = "map" /\ Here.at # 0
                           /\ Role = "value" => /\ Here.at \in In(text, Here.node, "key")
                                                /\ Here.at \in 1..Len(text)
                                                /\ text[Here.at] \in NodeType
<1>1. CASE path = <<>>
  BY <1>1 DEF Role
<1>2. CASE path # <<>>
  <2>1. /\ Len(path) \in Nat \ {0} /\ Here = path[Len(path)] /\ Here \in PlaceType
    BY <1>2, Fronts DEF TextOK, TreeOK, Here
  <2>2. PlaceOK(text, path, Len(path))
    BY <2>1 DEF TextOK, TreeOK
  <2>3. Here.node \in 1..Len(text) /\ text[Here.node].kind # "leaf"
    BY <2>1, <2>2 DEF PlaceOK
  <2>4. Above \in NodeType /\ Above = text[Here.node]
    BY <2>3 DEF TextOK, TreeOK, Above
  <2>5. Above.kind \in {"map", "seq"}
    BY <2>3, <2>4 DEF NodeType
  <2>6. /\ Role \in {"item", "key", "value"}
        /\ Role = "item" <=> Above.kind = "seq"
        /\ Role = "key" <=> Above.kind = "map" /\ Here.at = 0
        /\ Role = "value" <=> Above.kind = "map" /\ Here.at # 0
    BY <1>2, <2>5 DEF Role
  <2>7. Role = "value" => Here.at \in In(text, Here.node, "key")
    BY <2>1, <2>2, <2>4, <2>6 DEF PlaceOK, Pending
  <2>8. Role = "value" => Here.at \in 1..Len(text) /\ text[Here.at] \in NodeType
    BY <2>7 DEF In, TextOK, TreeOK
  <2> QED
    BY <1>2, <2>1, <2>3, <2>4, <2>5, <2>6, <2>7, <2>8
<1> QED
  BY <1>1, <1>2

Grew(kind, says, N) ==
  /\ N = Len(text) + 1 /\ N \in Nat \ {0} /\ Len(text) \in Nat
  /\ text' \in Seq(NodeType) /\ Len(text') = N
  /\ \A n \in 1..Len(text) : text'[n] = text[n]
  /\ text'[N].kind = kind /\ text'[N].says = says /\ text'[N].as = Role
  /\ text'[N].up = IF path = <<>> THEN 0 ELSE Here.node
  /\ text'[N].at = Place /\ text'[N].rule = RuleHere

LEMMA PutText ==
  ASSUME TextOK, NEW kind \in Kinds, NEW says \in Says, Put(kind, says)
  PROVE  \E N \in Nat \ {0} : Grew(kind, says, N)
<1> DEFINE new == [kind |-> kind, says |-> says, as |-> Role,
                   up |-> IF path = <<>> THEN 0 ELSE Here.node,
                   at |-> Place, rule |-> RuleHere]
<1>1. text' = Append(text, new) /\ text \in Seq(NodeType)
  BY DEF Put, TextOK, TreeOK
<1>2. Role \in {"root", "item", "key", "value"}
  BY Roles
<1>3. (IF path = <<>> THEN 0 ELSE Here.node) \in Nat /\ Place \in Nat
  <2>1. CASE path = <<>>
    BY <2>1, Roles DEF Place
  <2>2. CASE path # <<>>
    BY <2>2, Roles DEF Place, PlaceType
  <2> QED
    BY <2>1, <2>2
<1>4. RuleHere \in RuleTypes
  <2>1. CASE Role = "root"
    BY <2>1, SchemaAssumption DEF RuleHere, RuleTypes, Rules, RootRule
  <2>2. CASE Role = "item"
    <3>1. CASE Above.rule.type = "repeated"
      <4>1. Above.rule \in RuleTypes
        BY <2>2, Roles DEF NodeType, RuleTypes
      <4>2. RuleHere = Item(Above.rule)
        BY <2>2, <3>1 DEF RuleHere
      <4> QED
        BY <3>1, <4>1, <4>2, ItemTypes DEF RuleTypes
    <3>2. CASE Above.rule.type # "repeated"
      BY <2>2, <3>2 DEF RuleHere, RuleTypes
    <3> QED
      BY <3>1, <3>2
  <2>3. CASE Role = "value"
    <3>1. CASE Attribute(Above, text[Here.at])
      <4>1. RuleHere = Schema[Above.rule.of][text[Here.at].says]
        BY <2>3, <3>1 DEF RuleHere
      <4>2. Above \in NodeType
        BY <2>3, Roles
      <4> QED
        BY <3>1, <4>1, <4>2, AttributeRules DEF RuleTypes
    <3>2. CASE ~Attribute(Above, text[Here.at])
      BY <2>3, <3>2 DEF RuleHere, RuleTypes
    <3> QED
      BY <3>1, <3>2
  <2>4. CASE Role = "key"
    BY <2>4 DEF RuleHere, RuleTypes
  <2> QED
    BY <1>2, <2>1, <2>2, <2>3, <2>4
<1>5. new \in NodeType
  BY <1>2, <1>3, <1>4 DEF NodeType, Kinds, RuleTypes
<1>6. PICK N \in Nat \ {0} : N = Len(text) + 1
  BY <1>1
<1>7. /\ text' \in Seq(NodeType) /\ Len(text') = N /\ text'[N] = new
      /\ \A n \in 1..Len(text) : text'[n] = text[n]
  <2> HIDE DEF new
  <2> QED
    BY <1>1, <1>5, <1>6, Appends
<1> QED
  BY <1>1, <1>6, <1>7 DEF Grew

\* What there is in a collection after it.
NewIn(role, m, N) == IF Role = role /\ m = Here.node THEN {N} ELSE {}

LEMMA Children ==
  ASSUME TextOK, NEW kind, NEW says, NEW N, Grew(kind, says, N), NEW m,
         NEW role \in {"key", "value", "item"}
  PROVE  In(text', m, role) = In(text, m, role) \cup NewIn(role, m, N)
<1>1. /\ 1..Len(text') = 1..Len(text) \cup {N} /\ N \notin 1..Len(text)
      /\ \A n \in 1..Len(text) : text'[n] = text[n]
      /\ text'[N].as = Role /\ (Role # "root" => text'[N].up = Here.node)
  BY Roles DEF Grew
<1> DEFINE in == In(text, m, role)
           after == In(text', m, role)
<1>2. ASSUME NEW n \in 1..Len(text) PROVE n \in after <=> n \in in
  BY <1>1 DEF In
<1>3. N \in after <=> Role = role /\ m = Here.node
  BY <1>1 DEF In
<1>4. NewIn(role, m, N) = {n \in {N} : Role = role /\ m = Here.node}
  BY DEF NewIn
<1>5. after \subseteq 1..Len(text) \cup {N} /\ in \subseteq 1..Len(text)
  BY <1>1 DEF In
<1> HIDE DEF in, after
<1>6. after = in \cup NewIn(role, m, N)
  BY <1>1, <1>2, <1>3, <1>4, <1>5
<1> QED
  BY <1>6 DEF in, after

NextAt(N) == CASE Role = "item" -> Here.at + 1 [] Role = "key" -> N [] OTHER -> 0
PathGrew(kind, N) ==
  /\ path' \in Seq(PlaceType)
  /\ Len(path') = Len(path) + IF kind = "leaf" THEN 0 ELSE 1
  /\ kind # "leaf" => path'[Len(path) + 1] = [node |-> N, at |-> 0]
  /\ \A i \in 1..Len(path) : path'[i].node = path[i].node
  /\ \A i \in 1..(Len(path) - 1) : path'[i] = path[i]
  /\ path # <<>> => path'[Len(path)].at = NextAt(N)

LEMMA PutPath ==
  ASSUME TextOK, NEW kind \in Kinds, NEW says, Put(kind, says), NEW N, Grew(kind, says, N)
  PROVE  PathGrew(kind, N)
<1> DEFINE moved == IF path = <<>> THEN <<>> ELSE [path EXCEPT ![Len(path)].at = NextAt(N)]
<1>1. path' = IF kind = "leaf" THEN moved ELSE Append(moved, [node |-> N, at |-> 0])
  BY DEF Put, Grew, Number, NextAt
<1>2. path \in Seq(PlaceType) /\ Len(path) \in Nat /\ N \in Nat \ {0}
  BY DEF TextOK, TreeOK, Grew
<1>3. path # <<>> => NextAt(N) \in Nat
  BY <1>2, Roles DEF NextAt, PlaceType
<1>4. /\ moved \in Seq(PlaceType) /\ Len(moved) = Len(path)
      /\ \A i \in 1..Len(path) : moved[i].node = path[i].node
      /\ \A i \in 1..(Len(path) - 1) : moved[i] = path[i]
      /\ path # <<>> => moved[Len(path)].at = NextAt(N)
  <2>1. CASE path = <<>>
    BY <1>2, <2>1
  <2>2. CASE path # <<>>
    <3>1. PICK k, a \in Nat : k = Len(path) /\ a = NextAt(N)
      BY <1>2, <1>3, <2>2
    <3>2. k \in 1..Len(path) /\ path[k] \in PlaceType
      BY <1>2, <2>2, <3>1
    <3>3. moved = [path EXCEPT ![k] = [path[k] EXCEPT !.at = a]]
      BY <2>2, <3>1, <3>2
    <3>4. PICK new \in PlaceType : new = [path[k] EXCEPT !.at = a] /\ new.at = a /\ new.node = path[k].node
      <4>1. [path[k] EXCEPT !.at = a] = [node |-> path[k].node, at |-> a]
        BY <3>2 DEF PlaceType
      <4>2. [node |-> path[k].node, at |-> a] \in PlaceType
        BY <3>1, <3>2 DEF PlaceType
      <4> QED
        BY <4>1, <4>2
    <3>5. moved = [path EXCEPT ![k] = new]
      BY <3>3, <3>4
    <3> HIDE DEF moved
    <3> QED
      BY <1>2, <3>1, <3>2, <3>4, <3>5
  <2> QED
    BY <2>1, <2>2
<1>5. [node |-> N, at |-> 0] \in PlaceType
  BY <1>2 DEF PlaceType
<1> HIDE DEF moved
<1>6. CASE kind = "leaf"
  BY <1>1, <1>2, <1>4, <1>6 DEF PathGrew
<1>7. CASE kind # "leaf"
  <2>1. path' = Append(moved, [node |-> N, at |-> 0])
    BY <1>1, <1>7
  <2>2. /\ path' \in Seq(PlaceType) /\ Len(path') = Len(path) + 1
        /\ path'[Len(path) + 1] = [node |-> N, at |-> 0]
        /\ \A i \in 1..Len(path) : path'[i] = moved[i]
    BY <1>4, <1>5, <2>1, Appends
  <2> QED
    BY <1>2, <1>4, <1>7, <2>2 DEF PathGrew
<1> QED
  BY <1>6, <1>7

(* Nodes come after the collection they are in.                              *)
LEMMA ChildrenAfter ==
  ASSUME TextOK, NEW m, NEW role \in {"key", "value", "item"}, NEW n \in In(text, m, role)
  PROVE  /\ n \in 1..Len(text) /\ m \in 1..(n - 1) /\ m \in 1..Len(text)
         /\ text[n].up = m /\ text[n].as = role /\ NodeOK(text, n) /\ text[n] \in NodeType
<1>1. n \in 1..Len(text) /\ text[n].up = m /\ text[n].as = role /\ text[n].as # "root"
  BY DEF In
<1>2. NodeOK(text, n) /\ Len(text) \in Nat /\ text[n] \in NodeType
  BY <1>1 DEF TextOK, TreeOK
<1>3. m \in 1..(n - 1)
  BY <1>1, <1>2 DEF NodeOK
<1> QED
  BY <1>1, <1>2, <1>3

LEMMA NodesStay ==
  ASSUME TextOK, NEW kind, NEW says, NEW N, Grew(kind, says, N), NEW n \in 1..Len(text)
  PROVE  NodeOK(text', n)
<1>1. NodeOK(text, n) /\ text'[n] = text[n] /\ Len(text) \in Nat
  BY DEF TextOK, TreeOK, Grew
<1>2. PICK up : up = text[n].up
  OBVIOUS
<1>3. text[n].as # "root" => text'[up] = text[up]
  <2> SUFFICES ASSUME text[n].as # "root" PROVE up \in 1..Len(text)
    BY DEF Grew
  <2>1. up \in 1..(n - 1)
    BY <1>1, <1>2 DEF NodeOK
  <2> QED
    BY <1>1, <2>1
<1>4. In(text, up, "key") \subseteq In(text', up, "key")
  BY Children
<1>5. text[n].as = "value" => /\ text[n].at \in In(text, up, "key")
                              /\ text'[text[n].at] = text[text[n].at]
  <2> SUFFICES ASSUME text[n].as = "value"
               PROVE  /\ text[n].at \in In(text, up, "key")
                      /\ text'[text[n].at] = text[text[n].at]
    OBVIOUS
  <2>1. text[n].at \in In(text, up, "key")
    BY <1>1, <1>2 DEF NodeOK
  <2>2. text[n].at \in 1..Len(text)
    BY <2>1 DEF In
  <2> QED
    BY <2>1, <2>2 DEF Grew
<1> QED
  BY <1>1, <1>2, <1>3, <1>4, <1>5 DEF NodeOK

LEMMA NewNode ==
  ASSUME TextOK, NEW kind, NEW says, NEW N, Grew(kind, says, N)
  PROVE  NodeOK(text', N)
<1>1. CASE Role = "root"
  <2>1. text'[N].as = "root" /\ text'[N].up = 0 /\ text'[N].rule = RootRule
    BY <1>1, Roles DEF Grew, RuleHere
  <2> QED
    BY <2>1 DEF NodeOK
<1>2. CASE Role # "root"
  <2>1. /\ text'[N].as = Role /\ text'[N].up = Here.node /\ Here.node \in 1..Len(text)
        /\ text'[Here.node] = Above /\ text'[N].at = Place /\ text'[N].rule = RuleHere
    BY <1>2, Roles DEF Grew
  <2>2. Here.node \in 1..(N - 1)
    BY <2>1 DEF Grew
  <2>3. CASE Role = "item"
    <3>1. Above.kind = "seq" /\ RuleHere = ItemRule(Above)
      BY <2>3, <1>2, Roles DEF RuleHere, ItemRule
    <3> QED
      BY <2>1, <2>2, <2>3, <3>1 DEF NodeOK
  <2>4. CASE Role = "key"
    <3>1. Above.kind = "map" /\ RuleHere = NoRule
      BY <2>4, <1>2, Roles DEF RuleHere
    <3> QED
      BY <2>1, <2>2, <2>4, <3>1 DEF NodeOK
  <2>5. CASE Role = "value"
    <3>1. /\ Above.kind = "map" /\ Here.at \in In(text, Here.node, "key")
          /\ Here.at \in 1..Len(text)
          /\ Place = Here.at /\ RuleHere = ValueRule(Above, text[Here.at])
      BY <2>5, <1>2, Roles DEF RuleHere, ValueRule, Place
    <3>2. Here.at \in In(text', Here.node, "key") /\ Here.at < N /\ text'[Here.at] = text[Here.at]
      <4>1. Here.at \in In(text', Here.node, "key")
        BY <3>1, Children
      <4>2. Here.at < N
        BY <3>1 DEF Grew
      <4> QED
        BY <3>1, <4>1, <4>2 DEF Grew
    <3> QED
      BY <2>1, <2>2, <2>5, <3>1, <3>2 DEF NodeOK
  <2> QED
    BY <1>2, <2>3, <2>4, <2>5, Roles
<1> QED
  BY <1>1, <1>2

LEMMA PathNodes ==
  ASSUME TextOK, NEW i \in 1..Len(path)
  PROVE  /\ path[i] \in PlaceType /\ path[i].node \in 1..Len(text)
         /\ text[path[i].node].kind # "leaf" /\ PlaceOK(text, path, i)
         /\ (i < Len(path) => path[i].node # Here.node)
         /\ (i = Len(path) => path[i] = Here)
         /\ path # <<>> /\ Len(path) \in Nat
<1>1. path \in Seq(PlaceType) /\ PlaceOK(text, path, i) /\ Deeper(path)
  BY DEF TextOK, TreeOK
<1>2. path[i] \in PlaceType /\ path # <<>>
  BY <1>1
<1>3. text[path[i].node].kind # "leaf" /\ path[i].node \in 1..Len(text)
  BY <1>1 DEF PlaceOK
<1>4. Here = path[Len(path)] /\ Here \in PlaceType
  BY <1>2, Roles
<1>5. i < Len(path) => path[i].node < path[Len(path)].node
  BY <1>1 DEF Deeper
<1>6. path[i].node \in Nat /\ Here.node \in Nat
  BY <1>2, <1>4 DEF PlaceType
<1> QED
  BY <1>1, <1>2, <1>3, <1>4, <1>5, <1>6

LEMMA PlacesStay ==
  ASSUME TextOK, NEW kind, NEW says, NEW N, Grew(kind, says, N), PathGrew(kind, N),
         NEW i \in 1..Len(path), i < Len(path)
  PROVE  /\ PlaceOK(text', path', i) /\ FrameOf(text', path', i) = FrameOf(text, path, i)
         /\ path'[i] = path[i] /\ Pending(text', path', i) = Pending(text, path, i)
<1>1. PlaceOK(text, path, i) /\ Len(path) \in Nat
  BY PathNodes
<1>2. PICK m : m = path[i].node
  OBVIOUS
<1>3. m \in 1..Len(text) /\ m # Here.node /\ text[m].kind # "leaf"
  BY <1>2, PathNodes
<1>4. path'[i] = path[i] /\ text'[m] = text[m] /\ (i # 1 => path'[i - 1] = path[i - 1])
  <2>1. i \in 1..(Len(path) - 1) /\ (i # 1 => i - 1 \in 1..(Len(path) - 1))
    BY <1>1
  <2>2. \A j \in 1..(Len(path) - 1) : path'[j] = path[j]
    BY DEF PathGrew
  <2>3. text'[m] = text[m]
    BY <1>3 DEF Grew
  <2> QED
    BY <2>1, <2>2, <2>3
<1>5. \A role \in {"key", "value", "item"} : In(text', m, role) = In(text, m, role)
  <2>1. ASSUME NEW role \in {"key", "value", "item"} PROVE In(text', m, role) = In(text, m, role)
    <3>1. In(text', m, role) = In(text, m, role) \cup NewIn(role, m, N)
      BY Children
    <3>2. NewIn(role, m, N) = {}
      BY <1>3 DEF NewIn
    <3> QED
      BY <3>1, <3>2
  <2> QED
    BY <2>1
<1>6. \A role \in {"key", "value", "item"} : \A n \in In(text, m, role) : text'[n] = text[n]
  BY ChildrenAfter DEF Grew
<1>7. Pending(text', path', i) = Pending(text, path, i)
      /\ FrameOf(text', path', i) = FrameOf(text, path, i)
  BY <1>2, <1>4 DEF Pending, FrameOf
<1>8. m \in 1..Len(text') /\ text'[m].kind # "leaf"
  BY <1>3, <1>4 DEF Grew
<1> QED
  BY <1>1, <1>2, <1>4, <1>5, <1>6, <1>7, <1>8 DEF PlaceOK

LEMMA HerePlace ==
  ASSUME TextOK, NEW kind, NEW says, NEW N, Grew(kind, says, N), PathGrew(kind, N), path # <<>>,
         NEW k, k = Len(path)
  PROVE  PlaceOK(text', path', k)
<1>1. PICK m : m = Here.node
  OBVIOUS
<1>2. /\ k \in Nat \ {0} /\ Here = path[k] /\ m \in 1..Len(text) /\ Here.at \in Nat
      /\ Above = text[m] /\ N \in Nat
  BY <1>1, Roles DEF PlaceType, Grew
<1>3. PlaceOK(text, path, k) /\ text[m].kind # "leaf"
  BY <1>1, <1>2, PathNodes
<1>4. /\ path'[k].node = m /\ path'[k].at = NextAt(N) /\ text'[m] = text[m]
      /\ (k # 1 => path'[k - 1].node = path[k - 1].node)
  <2>1. k \in 1..Len(path) /\ (k # 1 => k - 1 \in 1..Len(path))
    BY <1>2
  <2>2. /\ \A j \in 1..Len(path) : path'[j].node = path[j].node
        /\ path'[Len(path)].at = NextAt(N)
    BY DEF PathGrew
  <2>3. text'[m] = text[m]
    BY <1>2 DEF Grew
  <2> QED
    BY <1>1, <1>2, <2>1, <2>2, <2>3
<1>5. text'[m].up = IF k = 1 THEN 0 ELSE path'[k - 1].node
  BY <1>1, <1>2, <1>3, <1>4 DEF PlaceOK
<1>6. m \in 1..Len(text') /\ text'[m].kind # "leaf"
  BY <1>2, <1>3, <1>4 DEF Grew
<1>7. \A role \in {"key", "value", "item"} : \A n \in In(text, m, role) :
        n \in 1..Len(text) /\ text'[n] = text[n] /\ NodeOK(text, n)
        /\ text[n].up = m /\ text[n].as = role
  BY ChildrenAfter DEF Grew
<1>8. CASE Role = "item"
  <2>1. /\ text[m].kind = "seq" /\ NextAt(N) = Here.at + 1 /\ text'[N].at = Here.at + 1
        /\ In(text', m, "item") = In(text, m, "item") \cup {N}
    <3>1. text[m].kind = "seq"
      BY <1>2, <1>8, Roles
    <3>2. In(text', m, "item") = In(text, m, "item") \cup {N}
      BY <1>1, <1>8, Children DEF NewIn
    <3> QED
      BY <1>8, <3>1, <3>2 DEF NextAt, Grew, Place
  <2>2. \A n \in In(text', m, "item") : text'[n].at \in 1..NextAt(N)
    <3>1. \A n \in In(text, m, "item") : text[n].at \in 1..Here.at
      BY <1>1, <1>2, <1>3 DEF PlaceOK
    <3>2. \A n \in In(text, m, "item") : text'[n] = text[n]
      BY <1>7
    <3>3. 1..Here.at \subseteq 1..NextAt(N) /\ NextAt(N) \in 1..NextAt(N)
      BY <1>2, <2>1
    <3> QED
      BY <2>1, <3>1, <3>2, <3>3
  <2>3. ~Pending(text', path', k)
    BY <1>4, <2>1 DEF Pending
  <2> QED
    BY <1>4, <1>5, <1>6, <2>2, <2>3 DEF PlaceOK
<1>9. CASE Role # "item"
  <2>1. text[m].kind = "map" /\ Role \in {"key", "value"}
    BY <1>2, <1>9, Roles
  <2>2. In(text', m, "item") = In(text, m, "item")
    BY <1>9, Children DEF NewIn
  <2>3. \A n \in In(text', m, "item") : FALSE
    BY <1>7, <2>1, <2>2 DEF NodeOK
  <2>4. CASE Role = "value"
    <3>1. ~Pending(text', path', k)
      BY <1>4, <2>4 DEF Pending, NextAt
    <3> QED
      BY <1>4, <1>5, <1>6, <2>3, <3>1 DEF PlaceOK
  <2>5. CASE Role = "key"
    <3>1. NextAt(N) = N
      BY <2>5 DEF NextAt
    <3>2. In(text', m, "key") = In(text, m, "key") \cup {N}
          /\ In(text', m, "value") = In(text, m, "value")
      BY <1>1, <2>5, Children DEF NewIn
    <3>3. \A n \in In(text', m, "value") : text'[n].at # N
      <4>1. \A n \in In(text, m, "value") : text[n].at \in 1..Len(text) /\ text'[n] = text[n]
        BY <1>7 DEF NodeOK, In
      <4> QED
        BY <3>2, <4>1 DEF Grew
    <3> QED
      BY <1>4, <1>5, <1>6, <2>3, <3>1, <3>2, <3>3 DEF PlaceOK
  <2> QED
    BY <2>1, <2>4, <2>5
<1> QED
  BY <1>8, <1>9

LEMMA NewPlace ==
  ASSUME TextOK, NEW kind, NEW says, NEW N, Grew(kind, says, N), PathGrew(kind, N), kind # "leaf",
         NEW k, k = Len(path)
  PROVE  PlaceOK(text', path', k + 1)
<1>1. k \in Nat /\ path'[k + 1] = [node |-> N, at |-> 0] /\ path'[k + 1].node = N
      /\ path'[k + 1].at = 0
  BY DEF TextOK, TreeOK, PathGrew
<1>2. N \in 1..Len(text') /\ text'[N].kind # "leaf"
  BY DEF Grew
<1>3. text'[N].up = IF k + 1 = 1 THEN 0 ELSE path'[(k + 1) - 1].node
  <2>1. CASE path = <<>>
    BY <2>1 DEF Grew
  <2>2. CASE path # <<>>
    <3>1. k \in Nat \ {0} /\ path'[k].node = Here.node
      BY <2>2, Roles DEF PathGrew
    <3> QED
      BY <2>2, <3>1 DEF Grew
  <2> QED
    BY <2>1, <2>2
<1>4. \A n \in In(text', N, "item") : FALSE
  <2>1. path = <<>> \/ Here.node # N
    BY Roles DEF Grew
  <2>2. NewIn("item", N, N) = {}
    BY <2>1, Roles DEF NewIn
  <2>3. In(text', N, "item") = In(text, N, "item")
    BY <2>2, Children
  <2>4. N \notin 1..Len(text)
    BY DEF Grew
  <2> QED
    BY <2>3, <2>4, ChildrenAfter
<1>5. ~Pending(text', path', k + 1)
  BY <1>1 DEF Pending
<1> QED
  BY <1>1, <1>2, <1>3, <1>4, <1>5 DEF PlaceOK

LEMMA KeysStay ==
  ASSUME TextOK, NEW kind, NEW says, NEW N, Grew(kind, says, N), PathGrew(kind, N),
         NEW n \in 1..Len(text), text[n].as = "key"
  PROVE  KeyDone(text', path', n)
<1>1. KeyDone(text, path, n) /\ text'[n] = text[n] /\ NodeOK(text, n) /\ Len(path) \in Nat
  BY DEF TextOK, TreeOK, Grew
<1>2. PICK up : up = text[n].up
  OBVIOUS
<1>3. text[up].kind = "map" /\ n # 0
  BY <1>1, <1>2 DEF NodeOK
<1>4. CASE \E value \in In(text, up, "value") : text[value].at = n
  <2>1. PICK value \in In(text, up, "value") : text[value].at = n
    BY <1>4
  <2>2. value \in In(text', up, "value") /\ text'[value] = text[value]
    BY Children, ChildrenAfter DEF Grew
  <2> QED
    BY <1>1, <1>2, <2>1, <2>2 DEF KeyDone
<1>5. CASE \E i \in 1..Len(path) : path[i].node = up /\ path[i].at = n
  <2>1. PICK i \in 1..Len(path) : path[i].node = up /\ path[i].at = n
    BY <1>5
  <2>2. CASE i < Len(path)
    <3>1. path'[i] = path[i]
      BY <1>1, <2>2 DEF PathGrew
    <3>2. i \in 1..Len(path')
      BY <1>1 DEF PathGrew
    <3> QED
      BY <1>1, <1>2, <2>1, <3>1, <3>2 DEF KeyDone
  <2>3. CASE i = Len(path)
    <3>1. Here = path[i] /\ path # <<>>
      BY <2>3, PathNodes
    <3>2. Role = "value"
      BY <1>3, <2>1, <3>1, Roles
    <3>3. N \in In(text', up, "value") /\ text'[N].at = n
      <4>1. NewIn("value", up, N) = {N}
        BY <2>1, <3>1, <3>2 DEF NewIn
      <4>2. N \in In(text', up, "value")
        BY <4>1, Children
      <4> QED
        BY <2>1, <3>1, <3>2, <4>2 DEF Grew, Place
    <3> QED
      BY <1>1, <1>2, <3>3 DEF KeyDone
  <2> QED
    BY <1>1, <2>2, <2>3
<1> QED
  BY <1>1, <1>2, <1>4, <1>5 DEF KeyDone

LEMMA PutTree ==
  ASSUME TextOK, NEW kind, NEW says, NEW N, Grew(kind, says, N), PathGrew(kind, N)
  PROVE  TreeOK(text', path')
<1>1. text' \in Seq(NodeType) /\ path' \in Seq(PlaceType) /\ Len(text') = Len(text) + 1
      /\ N = Len(text) + 1 /\ Len(text) \in Nat
  BY DEF Grew, PathGrew
<1>2. ASSUME NEW n \in 1..Len(text') PROVE NodeOK(text', n)
  <2>1. n \in 1..Len(text) \/ n = N
    BY <1>1
  <2> QED
    BY <2>1, NodesStay, NewNode
<1>3. PICK k \in Nat : k = Len(path)
  BY DEF TextOK, TreeOK
<1>4. ASSUME NEW i \in 1..Len(path') PROVE PlaceOK(text', path', i)
  <2>1. Len(path') = IF kind = "leaf" THEN k ELSE k + 1
    BY <1>3 DEF PathGrew
  <2>2. CASE i < k
    BY <1>3, <2>2, PlacesStay
  <2>3. CASE i = k
    <3>1. path # <<>>
      BY <1>3, <2>3
    <3> QED
      BY <1>3, <2>3, <3>1, HerePlace
  <2>4. CASE i > k
    <3>1. i = k + 1 /\ kind # "leaf"
      BY <1>3, <2>1, <2>4
    <3> QED
      BY <1>3, <3>1, NewPlace
  <2> QED
    BY <1>3, <2>2, <2>3, <2>4
<1>5. Deeper(path')
  <2> SUFFICES ASSUME NEW i \in 1..Len(path'), NEW j \in 1..Len(path'), i < j
               PROVE  path'[i].node < path'[j].node
    BY DEF Deeper
  <2>1. Len(path') = IF kind = "leaf" THEN k ELSE k + 1
    BY <1>3 DEF PathGrew
  <2>2. i \in 1..k /\ path'[i].node = path[i].node
    BY <1>3, <2>1 DEF PathGrew
  <2>3. CASE j <= k
    <3>1. path'[j].node = path[j].node
      BY <1>3, <2>3 DEF PathGrew
    <3> QED
      BY <1>3, <2>2, <2>3, <3>1 DEF TextOK, TreeOK, Deeper
  <2>4. CASE j > k
    <3>1. path'[j].node = N
      BY <1>3, <2>1, <2>4 DEF PathGrew
    <3>2. path[i].node \in 1..Len(text)
      BY <1>3, <2>2, PathNodes
    <3> QED
      BY <1>1, <2>2, <3>1, <3>2
  <2> QED
    BY <1>3, <2>3, <2>4
<1>6. ASSUME NEW n \in 1..Len(text'), text'[n].as = "key" PROVE KeyDone(text', path', n)
  <2>1. CASE n \in 1..Len(text)
    BY <1>6, <2>1, KeysStay DEF Grew
  <2>2. CASE n = N
    <3>1. Role = "key" /\ path # <<>>
      BY <1>6, <2>2, Roles DEF Grew
    <3>2. k \in 1..Len(path') /\ path'[k].node = text'[N].up /\ path'[k].at = N
      <4>1. k \in 1..Len(path) /\ Here = path[k]
        BY <1>3, <3>1, Roles
      <4>2. path'[k].node = Here.node /\ path'[k].at = N
        BY <1>3, <3>1, <4>1 DEF PathGrew, NextAt
      <4>3. k \in 1..Len(path')
        BY <1>3, <4>1 DEF PathGrew
      <4> QED
        BY <3>1, <4>2, <4>3 DEF Grew
    <3> QED
      BY <2>2, <3>2 DEF KeyDone
  <2> QED
    BY <1>1, <2>1, <2>2
<1> QED
  BY <1>1, <1>2, <1>4, <1>5, <1>6 DEF TreeOK

LEMMA PutRoots ==
  ASSUME TextOK, NEW kind, NEW says, NEW N, Grew(kind, says, N), Put(kind, says)
  PROVE  /\ roots' \in Seq(Nat) /\ RootsOK(text', roots')
         /\ (Role = "root" => roots' = Append(roots, N)) /\ (Role # "root" => roots' = roots)
<1>1. (Role = "root" => roots' = Append(roots, N)) /\ (Role # "root" => roots' = roots)
  BY DEF Put, Number, Grew
<1>2. roots \in Seq(Nat) /\ RootsOK(text, roots) /\ N \in Nat
  BY DEF TextOK, Grew
<1>3. \A i \in 1..Len(roots) : roots[i] \in 1..Len(text') /\ text'[roots[i]].as = "root"
  BY <1>2 DEF RootsOK, Grew
<1>4. CASE Role = "root"
  <2>1. /\ roots' \in Seq(Nat) /\ Len(roots') = Len(roots) + 1 /\ roots'[Len(roots) + 1] = N
        /\ \A i \in 1..Len(roots) : roots'[i] = roots[i]
    BY <1>1, <1>2, <1>4, Appends
  <2>2. N \in 1..Len(text') /\ text'[N].as = "root"
    BY <1>4 DEF Grew
  <2>3. ASSUME NEW i \in 1..Len(roots') PROVE roots'[i] \in 1..Len(text') /\ text'[roots'[i]].as = "root"
    <3>1. i \in 1..Len(roots) \/ i = Len(roots) + 1
      BY <1>2, <2>1
    <3> QED
      BY <1>3, <2>1, <2>2, <3>1
  <2> QED
    BY <1>1, <2>1, <2>3 DEF RootsOK
<1>5. CASE Role # "root"
  BY <1>1, <1>2, <1>3, <1>5 DEF RootsOK
<1> QED
  BY <1>1, <1>4, <1>5

(* The grammar of the events.                                                *)
LEMMA EventsFrontLast == \A q : Events!Last(q) = Last(q) /\ Events!Front(q) = Front(q)
BY DEF Events!Last, Last, Events!Front, Front

StartOf(kind) ==
  CASE kind = "leaf" -> "Scalar" [] kind = "seq" -> "SequenceStart" [] OTHER -> "MappingStart"
FirstFrame(kind) == IF kind = "seq" THEN "seq" ELSE "key"

\* The last frame, the frames before it, and how the frame changes.
LEMMA NodeEvents ==
  ASSUME NEW op \in Seq(Events!Frames), NEW kind \in Kinds, Events!Allowed(op, StartOf(kind))
  PROVE  /\ op # <<>> /\ Last(op) \in {"root", "seq", "key", "value"}
         /\ Events!After(op, StartOf(kind)) =
              IF kind = "leaf" THEN Append(Front(op), Events!NodeNext[Last(op)])
              ELSE Append(Append(Front(op), Events!NodeNext[Last(op)]), FirstFrame(kind))
<1>1. DOMAIN Events!NodeNext = {"root", "seq", "key", "value"}
  BY DEF Events!NodeNext
<1>2. StartOf(kind) \in {"Scalar", "SequenceStart", "MappingStart"}
  BY DEF StartOf, Kinds
<1>3. op # <<>> /\ Last(op) \in {"root", "seq", "key", "value"}
  BY <1>1, <1>2, EventsFrontLast DEF Events!Allowed
<1>4. CASE kind = "leaf"
  BY <1>1, <1>3, <1>4, EventsFrontLast DEF Events!After, StartOf
<1>5. CASE kind = "seq"
  BY <1>1, <1>3, <1>5, EventsFrontLast DEF Events!After, StartOf, FirstFrame
<1>6. CASE kind = "map"
  BY <1>1, <1>3, <1>6, EventsFrontLast DEF Events!After, StartOf, FirstFrame
<1> QED
  BY <1>3, <1>4, <1>5, <1>6 DEF Kinds

LEMMA PutOpen ==
  ASSUME TextOK, NEW kind \in Kinds, NEW says, NEW N, Grew(kind, says, N), PathGrew(kind, N),
         Events!Allowed(open, StartOf(kind)), open' = Events!After(open, StartOf(kind))
  PROVE  /\ OpenOK(text', path', open') /\ open # <<"error">>
         /\ (Role = "root" <=> open = <<"stream", "root">>)
         /\ (Role # "root" => Inside(text, path, open))
         /\ Inside(text', path', open')
<1>1. /\ open \in Seq(Events!Frames) /\ open # <<>> /\ Last(open) \in {"root", "seq", "key", "value"}
      /\ Len(open) \in Nat \ {0} /\ Last(open) = open[Len(open)] /\ Len(path) \in Nat
  <2>1. open \in Seq(Events!Frames) /\ Len(path) \in Nat
    BY DEF TextOK, OpenOK, TreeOK
  <2>2. open # <<>> /\ Last(open) \in {"root", "seq", "key", "value"}
    BY <2>1, NodeEvents
  <2>3. Len(open) \in Nat \ {0} /\ Last(open) = open[Len(open)]
    BY <2>1, <2>2, Fronts
  <2> QED
    BY <2>1, <2>2, <2>3
<1>2. /\ open # <<"error">> /\ open # <<"stream">> /\ open # <<"end">>
  BY <1>1
<1>3. PICK q : q = Append(Front(open), Events!NodeNext[Last(open)])
  OBVIOUS
<1>4. Events!NodeNext[Last(open)] \in Events!Frames
  BY <1>1 DEF Events!NodeNext, Events!Frames
<1>5. /\ q \in Seq(Events!Frames) /\ Len(q) = Len(open) /\ q[Len(open)] = Events!NodeNext[Last(open)]
      /\ \A i \in 1..(Len(open) - 1) : q[i] = open[i]
  <2>1. PICK f \in Seq(Events!Frames) : f = Front(open) /\ Len(f) = Len(open) - 1
                                        /\ \A i \in 1..(Len(open) - 1) : f[i] = open[i]
    BY <1>1, Fronts
  <2>2. /\ q \in Seq(Events!Frames) /\ Len(q) = Len(f) + 1
        /\ q[Len(f) + 1] = Events!NodeNext[Last(open)]
        /\ \A i \in 1..Len(f) : q[i] = f[i]
    BY <1>3, <1>4, <2>1, Appends
  <2> QED
    BY <1>1, <2>1, <2>2
<1>6. open' = IF kind = "leaf" THEN q ELSE Append(q, FirstFrame(kind))
  BY <1>1, <1>3, NodeEvents
<1>7. open' \in Seq(Events!Frames) /\ Len(open') = Len(open) + (IF kind = "leaf" THEN 0 ELSE 1)
      /\ (\A i \in 1..Len(open) : open'[i] = q[i])
      /\ (kind # "leaf" => open'[Len(open) + 1] = FirstFrame(kind))
  <2>1. FirstFrame(kind) \in Events!Frames
    BY DEF FirstFrame, Events!Frames
  <2>2. CASE kind = "leaf"
    BY <1>1, <1>5, <1>6, <2>2
  <2>3. CASE kind # "leaf"
    <3>1. open' = Append(q, FirstFrame(kind))
      BY <1>6, <2>3
    <3> QED
      BY <1>5, <2>1, <2>3, <3>1, Appends
  <2> QED
    BY <2>2, <2>3
<1>8. Len(path') = Len(path) + (IF kind = "leaf" THEN 0 ELSE 1)
  BY DEF PathGrew
\* The frame of a collection that begins.
<1>9. kind # "leaf" => FrameOf(text', path', Len(path) + 1) = FirstFrame(kind)
  BY DEF PathGrew, Grew, FrameOf, FirstFrame, Kinds
<1>10. CASE open = <<"stream", "root">>
  <2>1. Len(open) = 2 /\ Last(open) = "root" /\ path = <<>> /\ Len(path) = 0
    <3>1. ~Inside(text, path, open)
      BY <1>10 DEF Inside
    <3> QED
      BY <1>1, <1>2, <1>10, <3>1 DEF TextOK, OpenOK
  <2>2. q[2] = "rootdone" /\ q[1] = "stream"
    BY <1>5, <1>10, <2>1 DEF Events!NodeNext
  <2>3. \A i \in 1..Len(path') : open'[i + 2] = FrameOf(text', path', i)
    <3>1. \A i \in 1..Len(path') : i = 1 /\ kind # "leaf" /\ i = Len(path) + 1
      BY <1>8, <2>1
    <3> QED
      BY <1>7, <1>9, <2>1, <3>1
  <2>4. Inside(text', path', open')
    BY <1>7, <1>8, <2>1, <2>2, <2>3 DEF Inside
  <2> QED
    BY <1>2, <1>7, <1>10, <2>1, <2>4, Roles DEF OpenOK
<1>11. CASE open # <<"stream", "root">>
  <2>1. Inside(text, path, open)
    BY <1>2, <1>11 DEF TextOK, OpenOK
  <2>2. PICK k \in Nat : k = Len(path)
    BY <1>1
  <2>3. Len(open) = k + 2 /\ open[1] = "stream" /\ open[2] = "rootdone"
        /\ \A i \in 1..k : open[i + 2] = FrameOf(text, path, i)
    BY <2>1, <2>2 DEF Inside
  <2>4. k # 0 /\ path # <<>>
    <3>1. CASE k = 0
      <4>1. Last(open) = "rootdone"
        BY <1>1, <2>3, <3>1
      <4> QED
        BY <1>1, <4>1
    <3> QED
      BY <2>2, <3>1
  <2>5. Last(open) = FrameOf(text, path, k) /\ Here = path[k] /\ Above = text[path[k].node]
    BY <1>1, <2>2, <2>3, <2>4, Roles
  <2>6. path'[k].node = path[k].node /\ text'[path[k].node] = text[path[k].node]
        /\ path'[k].at = NextAt(N)
    <3>1. path[k].node \in 1..Len(text)
      BY <2>4, <2>5, Roles
    <3> QED
      BY <2>2, <2>4, <3>1 DEF PathGrew, Grew
  <2>7. FrameOf(text', path', k) = Events!NodeNext[Last(open)]
    <3>1. Role # "root" /\ Role \in {"root", "item", "key", "value"}
          /\ (Role = "item" <=> Above.kind = "seq")
          /\ (Role = "key" <=> Above.kind = "map" /\ Here.at = 0)
          /\ (Role = "value" <=> Above.kind = "map" /\ Here.at # 0)
      BY <2>4, Roles
    <3>2. N # 0
      BY DEF Grew
    <3>3. CASE Role = "item"
      BY <2>5, <2>6, <3>1, <3>3 DEF FrameOf, Events!NodeNext
    <3>4. CASE Role = "key"
      BY <2>5, <2>6, <3>1, <3>2, <3>4 DEF FrameOf, Events!NodeNext, NextAt
    <3>5. CASE Role = "value"
      BY <2>5, <2>6, <3>1, <3>5 DEF FrameOf, Events!NodeNext, NextAt
    <3> QED
      BY <3>1, <3>3, <3>4, <3>5
  <2>8. ASSUME NEW i \in 1..Len(path') PROVE open'[i + 2] = FrameOf(text', path', i)
    <3>1. CASE i < k
      <4>1. open'[i + 2] = open[i + 2]
        BY <1>5, <1>7, <2>3, <3>1
      <4> QED
        BY <2>2, <2>3, <3>1, <4>1, PlacesStay
    <3>2. CASE i = k
      BY <1>5, <1>7, <2>3, <2>7, <3>2
    <3>3. CASE i > k
      <4>1. i = Len(path) + 1 /\ kind # "leaf" /\ i + 2 = Len(open) + 1
        BY <1>8, <2>2, <2>3, <3>3
      <4> QED
        BY <1>7, <1>9, <4>1
    <3> QED
      BY <2>2, <3>1, <3>2, <3>3
  <2>9. open'[1] = "stream" /\ open'[2] = "rootdone"
    BY <1>5, <1>7, <2>3, <2>4
  <2>10. Inside(text', path', open')
    BY <1>7, <1>8, <2>2, <2>3, <2>8, <2>9 DEF Inside
  <2> QED
    BY <1>2, <1>7, <1>11, <2>1, <2>4, <2>10, Roles DEF OpenOK
<1> QED
  BY <1>10, <1>11

(* --------------------------- the other events ---------------------------- *)

\* Short stacks of what is open.
LEMMA Singles ==
  ASSUME NEW a, NEW b
  PROVE  /\ <<a>> # <<>> /\ Len(<<a>>) = 1 /\ <<a>>[1] = a
         /\ <<a, b>> # <<>> /\ Len(<<a, b>>) = 2 /\ <<a, b>>[1] = a /\ <<a, b>>[2] = b
OBVIOUS

LEMMA SinglesLast ==
  ASSUME NEW a, NEW b
  PROVE  Last(<<a>>) = a /\ Last(<<a, b>>) = b
BY Singles DEF Last

LEMMA ShortFrames ==
  ASSUME NEW a \in Events!Frames, NEW b \in Events!Frames
  PROVE  <<a>> \in Seq(Events!Frames) /\ <<a, b>> \in Seq(Events!Frames)
OBVIOUS

LEMMA DocumentOpens == Append(<<"stream">>, "root") = <<"stream", "root">>
<1>1. PICK s : s = <<"stream">>
  OBVIOUS
<1>2. PICK t : t = <<"stream", "root">>
  OBVIOUS
<1>3. \A a \in {"stream", "root", "rootdone"} : a \in Events!Frames
  BY DEF Events!Frames
<1>4. s \in Seq(Events!Frames) /\ Len(s) = 1 /\ s[1] = "stream"
  BY <1>1, <1>3
<1>5. t \in Seq(Events!Frames) /\ Len(t) = 2 /\ t[1] = "stream" /\ t[2] = "root"
  BY <1>2, <1>3
<1>6. PICK q : q = Append(s, "root")
  OBVIOUS
<1>7. /\ q \in Seq(Events!Frames) /\ Len(q) = 2 /\ q[2] = "root" /\ q[1] = "stream"
  <2>1. PICK r \in Events!Frames : r = "root"
    BY <1>3
  <2>2. PICK S : S = Events!Frames
    OBVIOUS
  <2>3. s \in Seq(S) /\ r \in S /\ q = Append(s, r)
    BY <1>4, <1>6, <2>1, <2>2
  <2>4. /\ q \in Seq(S) /\ Len(q) = Len(s) + 1 /\ q[Len(s) + 1] = r
        /\ \A i \in 1..Len(s) : q[i] = s[i]
    BY <2>3, Appends
  <2> QED
    BY <1>4, <2>1, <2>2, <2>4
<1>8. \A i \in 1..Len(q) : q[i] = t[i]
  BY <1>5, <1>7
<1>9. q = t
  BY <1>5, <1>7, <1>8, SeqEqual
<1> QED
  BY <1>1, <1>2, <1>6, <1>9

LEMMA DocumentCloses == Front(<<"stream", "rootdone">>) = <<"stream">>
<1>1. PICK s : s = <<"stream">>
  OBVIOUS
<1>2. PICK t : t = <<"stream", "rootdone">>
  OBVIOUS
<1>3. \A a \in {"stream", "rootdone"} : a \in Events!Frames
  BY DEF Events!Frames
<1>4. s \in Seq(Events!Frames) /\ Len(s) = 1 /\ s[1] = "stream"
  BY <1>1, <1>3
<1>5. t \in Seq(Events!Frames) /\ Len(t) = 2 /\ t[1] = "stream" /\ t # <<>>
  BY <1>2, <1>3
<1>6. PICK q : q = Front(t)
  OBVIOUS
<1>7. /\ q \in Seq(Events!Frames) /\ Len(q) = 1 /\ q[1] = "stream"
  <2>1. /\ q \in Seq(Events!Frames) /\ Len(q) = Len(t) - 1
        /\ \A i \in 1..(Len(t) - 1) : q[i] = t[i]
    BY <1>5, <1>6, Fronts
  <2> QED
    BY <1>5, <2>1
<1>8. \A i \in 1..Len(q) : q[i] = s[i]
  BY <1>4, <1>7
<1>9. q = s
  BY <1>4, <1>7, <1>8, SeqEqual
<1> QED
  BY <1>1, <1>2, <1>6, <1>9

\* What is open when the last of it is no frame of a node.
LEMMA InsideOrNot ==
  ASSUME TextOK, ~Inside(text, path, open)
  PROVE  \/ (open = <<"stream">> \/ open = <<"end">> \/ open = <<"stream", "root">>) /\ path = <<>>
         \/ open = <<"error">>
BY DEF TextOK, OpenOK

LEMMA InsideLong ==
  ASSUME TextOK, Inside(text, path, open)
  PROVE  Len(open) = Len(path) + 2
BY Zenon DEF Inside

LEMMA InsideSecond ==
  ASSUME TextOK, Inside(text, path, open)
  PROVE  open[2] = "rootdone"
BY Zenon DEF Inside

LEMMA InsideBare ==
  ASSUME TextOK, Inside(text, path, open), Len(path) = 0
  PROVE  Len(open) = 2 /\ open[2] = "rootdone"
<1>1. Len(open) = Len(path) + 2
  BY InsideLong
<1>2. open[2] = "rootdone"
  BY InsideSecond
<1> QED
  BY <1>1, <1>2

LEMMA TopPlace ==
  ASSUME TextOK, path # <<>>
  PROVE  Len(path) \in 1..Len(path)
BY Sorts

LEMMA NotInside ==
  ASSUME TextOK, Inside(text, path, open)
  PROVE  /\ open # <<"stream">> /\ open # <<"end">> /\ open # <<"error">> /\ open # <<"stream", "root">>
         /\ open # <<>>
<1>1. Len(open) = Len(path) + 2 /\ open[2] = "rootdone" /\ Len(path) \in Nat
  BY InsideLong, InsideSecond, Sorts
<1>2. \A a : <<a>> # open
  BY <1>1, Singles
<1>3. <<"stream", "root">> # open
  BY <1>1, Singles
<1>4. open # <<>>
  BY <1>1
<1> QED
  BY <1>2, <1>3, <1>4

LEMMA RootDone ==
  ASSUME TextOK, open = <<"stream", "rootdone">>
  PROVE  path = <<>> /\ Inside(text, path, open)
<1>1. Len(open) = 2 /\ open[2] = "rootdone"
  BY Singles
<1>2. Inside(text, path, open)
  <2>1. \A a : open # <<a>>
    BY <1>1, Singles
  <2>2. open # <<"stream", "root">>
    BY <1>1, Singles
  <2> QED
    BY <2>1, <2>2, InsideOrNot
<1>3. Len(path) + 2 = 2 /\ Len(path) \in Nat
  BY <1>1, <1>2, InsideLong, Sorts
<1>4. path = <<>>
  BY <1>3, Sorts
<1> QED
  BY <1>2, <1>4

\* A collection ends.
Left ==
  /\ path # <<>> /\ path' = Front(path) /\ UNCHANGED <<text, roots>>
  /\ open' = Front(open) /\ Inside(text, path, open)

LEMMA Leaving ==
  ASSUME TextOK, NEW type \in {"SequenceEnd", "MappingEnd"},
         Events!Allowed(open, type), open' = Events!After(open, type), ReadOn(type, "")
  PROVE  /\ Left
         /\ (type = "SequenceEnd" => Above.kind = "seq")
         /\ (type = "MappingEnd" => Above.kind = "map" /\ Here.at = 0)
<1>1. /\ open # <<>> /\ Last(open) \in {"seq", "key"}
      /\ (type = "SequenceEnd" => Last(open) = "seq") /\ (type = "MappingEnd" => Last(open) = "key")
      /\ open' = Front(open)
  BY EventsFrontLast DEF Events!Allowed, Events!After
<1>2. open \in Seq(Events!Frames) /\ Len(path) \in Nat
  BY Sorts
<1>3. Len(open) \in Nat \ {0} /\ Last(open) = open[Len(open)]
  BY <1>1, <1>2, Fronts
<1>4. Inside(text, path, open)
  <2>1. Last(open) \notin {"stream", "end", "root", "error"}
    BY <1>1
  <2>2. Last(<<"stream">>) = "stream" /\ Last(<<"end">>) = "end" /\ Last(<<"error">>) = "error"
        /\ Last(<<"stream", "root">>) = "root"
    BY SinglesLast
  <2> QED
    BY <2>1, <2>2, InsideOrNot
<1>5. path # <<>>
  <2>1. CASE path = <<>>
    <3>1. Len(path) = 0
      BY <2>1
    <3>2. Len(open) = 2 /\ open[2] = "rootdone"
      BY <1>4, <3>1, InsideBare
    <3> QED
      BY <1>1, <1>3, <3>2
  <2> QED
    BY <2>1
<1>6. path' = Front(path) /\ UNCHANGED <<text, roots>>
  BY DEF ReadOn
<1>7. Last(open) = FrameOf(text, path, Len(path)) /\ Here = path[Len(path)] /\ Above = text[Here.node]
      /\ Above.kind \in {"map", "seq"}
  <2>1. Here = path[Len(path)] /\ Above = text[Here.node] /\ Above.kind \in {"map", "seq"}
    BY <1>5, Roles
  <2>2. Len(path) \in 1..Len(path)
    BY <1>5, TopPlace
  <2>3. Len(open) = Len(path) + 2
    BY <1>4, InsideLong
  <2>4. \A i \in 1..Len(path) : open[i + 2] = FrameOf(text, path, i)
    BY Zenon, <1>4 DEF Inside
  <2> QED
    BY <1>3, <2>1, <2>2, <2>3, <2>4
<1> QED
  BY <1>1, <1>4, <1>5, <1>6, <1>7 DEF Left, FrameOf

LEMMA LeftPath ==
  ASSUME TextOK, Left
  PROVE  /\ path' \in Seq(PlaceType) /\ Len(path') = Len(path) - 1 /\ Len(path) \in Nat \ {0}
         /\ \A i \in 1..(Len(path) - 1) : path'[i] = path[i]
         /\ text' = text /\ roots' = roots
BY Fronts DEF Left, TextOK, TreeOK

LEMMA LeftText ==
  ASSUME TextOK, Left, Above.kind = "seq" \/ Here.at = 0
  PROVE  TextOK' /\ Inside(text', path', open')
<1>1. PICK k \in Nat : k = Len(path) - 1
  BY LeftPath
<1>2. /\ path' \in Seq(PlaceType) /\ Len(path') = k /\ Len(path) = k + 1
      /\ \A i \in 1..k : path'[i] = path[i]
      /\ text' = text /\ roots' = roots
  BY <1>1, LeftPath
<1>3. \A i \in 1..k : PlaceOK(text', path', i) /\ FrameOf(text', path', i) = FrameOf(text, path, i)
  <2> SUFFICES ASSUME NEW i \in 1..k
               PROVE  PlaceOK(text', path', i) /\ FrameOf(text', path', i) = FrameOf(text, path, i)
    OBVIOUS
  <2>1. PlaceOK(text, path, i) /\ path'[i] = path[i] /\ (i # 1 => path'[i - 1] = path[i - 1])
    BY <1>2 DEF TextOK, TreeOK
  <2> QED
    BY <1>2, <2>1 DEF PlaceOK, Pending, FrameOf
<1>4. Deeper(path')
  BY <1>2 DEF TextOK, TreeOK, Deeper
<1>5. ASSUME NEW n \in 1..Len(text), text[n].as = "key" PROVE KeyDone(text', path', n)
  <2>1. KeyDone(text, path, n) /\ NodeOK(text, n)
    BY <1>5 DEF TextOK, TreeOK
  <2>2. CASE \E value \in In(text, text[n].up, "value") : text[value].at = n
    BY <1>2, <2>2 DEF KeyDone
  <2>3. CASE \E i \in 1..Len(path) : path[i].node = text[n].up /\ path[i].at = n
    <3>1. PICK i \in 1..Len(path) : path[i].node = text[n].up /\ path[i].at = n
      BY <2>3
    <3>2. i # k + 1
      <4>1. CASE i = k + 1
        <5>1. Here = path[i] /\ Above = text[path[i].node]
          BY <1>2, <4>1, Roles DEF Left
        <5>2. Above.kind = "map" /\ n # 0
          BY <1>5, <2>1, <3>1, <5>1 DEF NodeOK
        <5> QED
          BY <3>1, <5>1, <5>2
      <4> QED
        BY <4>1
    <3>3. i \in 1..k
      BY <1>2, <3>2
    <3> QED
      BY <1>2, <3>1, <3>3 DEF KeyDone
  <2> QED
    BY <2>1, <2>2, <2>3 DEF KeyDone
<1>6. TreeOK(text', path')
  BY <1>2, <1>3, <1>4, <1>5 DEF TextOK, TreeOK
<1>7. open \in Seq(Events!Frames) /\ Inside(text, path, open) /\ open # <<>>
  <2>1. open \in Seq(Events!Frames) /\ Inside(text, path, open)
    BY DEF TextOK, OpenOK, Left
  <2> QED
    BY <1>1, <1>2, <2>1 DEF Inside
<1>8. open' \in Seq(Events!Frames) /\ Len(open') = Len(open) - 1
      /\ \A i \in 1..(Len(open) - 1) : open'[i] = open[i]
  BY <1>7, Fronts DEF Left
<1>9. Inside(text', path', open')
  <2>1. Len(open) = k + 3 /\ open[1] = "stream" /\ open[2] = "rootdone"
        /\ \A i \in 1..(k + 1) : open[i + 2] = FrameOf(text, path, i)
    BY <1>2, <1>7 DEF Inside
  <2>2. Len(open') = Len(path') + 2 /\ open'[1] = "stream" /\ open'[2] = "rootdone"
    BY <1>2, <1>8, <2>1
  <2>3. ASSUME NEW i \in 1..Len(path') PROVE open'[i + 2] = FrameOf(text', path', i)
    <3>1. i \in 1..k /\ i \in 1..(k + 1) /\ i + 2 \in 1..(Len(open) - 1)
      BY <1>2, <2>1
    <3> QED
      BY <1>3, <1>8, <2>1, <3>1
  <2> QED
    BY <2>2, <2>3 DEF Inside
<1>10. RootsOK(text', roots') /\ roots' \in Seq(Nat)
  BY <1>2 DEF TextOK
<1> QED
  BY <1>6, <1>8, <1>9, <1>10 DEF TextOK, OpenOK

LEMMA Surrounded ==
  ASSUME TextOK, NEW type \in {"DocumentStart", "DocumentEnd", "StreamStart", "StreamEnd"},
         Events!Allowed(open, type), open' = Events!After(open, type), ReadOn(type, "")
  PROVE  /\ TextOK' /\ UNCHANGED <<text, path, roots>> /\ path = <<>> /\ type # "StreamStart"
         /\ type = "DocumentStart" => open = <<"stream">> /\ open' = <<"stream", "root">>
         /\ type = "DocumentEnd" => open = <<"stream", "rootdone">> /\ open' = <<"stream">>
         /\ type = "StreamEnd" => open = <<"stream">> /\ open' = <<"end">>
<1>1. UNCHANGED <<text, path, roots>>
  BY DEF ReadOn
<1>2. type # "StreamStart" /\ (type \in {"DocumentStart", "StreamEnd"} => open = <<"stream">>)
      /\ (type = "DocumentEnd" => open = <<"stream", "rootdone">>)
  <2>1. open # <<>>
    <3>1. CASE Inside(text, path, open)
      BY <3>1, NotInside
    <3>2. CASE ~Inside(text, path, open)
      BY <3>2, InsideOrNot, Singles
    <3> QED
      BY <3>1, <3>2
  <2> QED
    BY <2>1 DEF Events!Allowed
<1>3. path = <<>>
  <2>1. CASE open = <<"stream">>
    <3>1. ~Inside(text, path, open)
      BY <2>1, NotInside
    <3>2. open # <<"error">>
      <4>1. <<"stream">> # <<"error">>
        OBVIOUS
      <4> QED
        BY <2>1, <4>1
    <3> QED
      BY <3>1, <3>2, InsideOrNot
  <2>2. CASE open = <<"stream", "rootdone">>
    BY <2>2, RootDone
  <2> QED
    BY <1>2, <2>1, <2>2
<1>4. /\ (type = "DocumentStart" => open' = <<"stream", "root">>)
      /\ (type = "DocumentEnd" => open' = <<"stream">>)
      /\ (type = "StreamEnd" => open' = <<"end">>)
  <2>1. CASE type = "DocumentStart"
    <3>1. open = <<"stream">> /\ open' = Append(open, "root")
      BY <1>2, <2>1 DEF Events!After
    <3> QED
      BY <2>1, <3>1, DocumentOpens
  <2>2. CASE type = "DocumentEnd"
    <3>1. open' = Front(open) /\ open = <<"stream", "rootdone">>
      <4>1. open # <<>>
        BY <1>2, <2>2, Singles
      <4> QED
        BY <1>2, <2>2, <4>1, EventsFrontLast DEF Events!After
    <3> QED
      BY <2>2, <3>1, DocumentCloses
  <2>3. CASE type = "StreamEnd"
    BY <2>3 DEF Events!After
  <2> QED
    BY <2>1, <2>2, <2>3
<1>5. open' \in Seq(Events!Frames) /\ open' \in {<<"stream">>, <<"end">>, <<"stream", "root">>}
  <2>1. open' \in {<<"stream">>, <<"end">>, <<"stream", "root">>}
    BY <1>2, <1>4
  <2>2. \A f \in {"stream", "end", "root"} : f \in Events!Frames
    BY DEF Events!Frames
  <2> QED
    BY <2>1, <2>2, ShortFrames
<1> QED
  BY <1>1, <1>2, <1>3, <1>4, <1>5 DEF TextOK, OpenOK

(* ------------------------------- each event ------------------------------ *)

\* A node begins, a collection ends, or what is around the documents changes.
Starts(kind, says, N) ==
  /\ Put(kind, says) /\ Grew(kind, says, N) /\ PathGrew(kind, N)
  /\ Events!Allowed(open, StartOf(kind)) /\ open' = Events!After(open, StartOf(kind))

LEMMA StartsText ==
  ASSUME TextOK, NEW kind \in Kinds, NEW says, NEW N, Starts(kind, says, N)
  PROVE  TextOK'
<1>1. TreeOK(text', path')
  BY PutTree DEF Starts
<1>2. OpenOK(text', path', open')
  BY PutOpen DEF Starts
<1>3. roots' \in Seq(Nat) /\ RootsOK(text', roots')
  BY PutRoots DEF Starts
<1> QED
  BY <1>1, <1>2, <1>3 DEF TextOK

LEMMA StartsThere ==
  ASSUME TextOK, NEW kind \in Kinds, NEW says \in Says, Put(kind, says),
         Events!Allowed(open, StartOf(kind)), open' = Events!After(open, StartOf(kind))
  PROVE  \E N \in Nat \ {0} : Starts(kind, says, N)
<1>1. PICK N \in Nat \ {0} : Grew(kind, says, N)
  BY PutText
<1>2. PathGrew(kind, N)
  BY <1>1, PutPath
<1> QED
  BY <1>1, <1>2 DEF Starts

Around == {"DocumentStart", "DocumentEnd", "StreamEnd"}
Surrounds(type) ==
  /\ UNCHANGED <<text, path, roots>> /\ path = <<>>
  /\ type = "DocumentStart" => open = <<"stream">> /\ open' = <<"stream", "root">>
  /\ type = "DocumentEnd" => open = <<"stream", "rootdone">> /\ open' = <<"stream">>
  /\ type = "StreamEnd" => open = <<"stream">> /\ open' = <<"end">>

\* What an event does to the text.
Leaves(type) ==
  /\ Left /\ (type = "SequenceEnd" => Above.kind = "seq")
  /\ (type = "MappingEnd" => Above.kind = "map" /\ Here.at = 0)
LEMMA EventCases ==
  ASSUME TextOK, NEW type \in Events!Types \ {"Alias"}, NEW says \in Says,
         type = "Scalar" \/ says = "", Event(type, says)
  PROVE  \/ \E kind \in Kinds, N \in Nat \ {0} : type = StartOf(kind) /\ Starts(kind, says, N)
         \/ type \in {"SequenceEnd", "MappingEnd"} /\ Leaves(type)
         \/ type \in Around /\ Surrounds(type)
<1>1. Events!Allowed(open, type) /\ open' = Events!After(open, type) /\ ReadOn(type, says)
  BY DEF Event
<1>2. CASE type = "Scalar"
  <2>1. Put("leaf", says) /\ type = StartOf("leaf") /\ "leaf" \in Kinds
    BY <1>1, <1>2 DEF ReadOn, StartOf, Kinds
  <2>2. PICK N \in Nat \ {0} : Starts("leaf", says, N)
    BY <1>1, <2>1, StartsThere
  <2> QED
    BY <2>1, <2>2
<1>3. CASE type = "SequenceStart"
  <2>1. Put("seq", says) /\ type = StartOf("seq") /\ "seq" \in Kinds
    BY <1>1, <1>3 DEF ReadOn, StartOf, Kinds
  <2>2. PICK N \in Nat \ {0} : Starts("seq", says, N)
    BY <1>1, <2>1, StartsThere
  <2> QED
    BY <2>1, <2>2
<1>4. CASE type = "MappingStart"
  <2>1. Put("map", says) /\ type = StartOf("map") /\ "map" \in Kinds
    BY <1>1, <1>4 DEF ReadOn, StartOf, Kinds
  <2>2. PICK N \in Nat \ {0} : Starts("map", says, N)
    BY <1>1, <2>1, StartsThere
  <2> QED
    BY <2>1, <2>2
<1>5. CASE type \in {"SequenceEnd", "MappingEnd"}
  <2>1. ReadOn(type, "")
    BY <1>1, <1>5
  <2>2. Leaves(type)
    BY <1>1, <1>5, <2>1, Leaving DEF Leaves
  <2> QED
    BY <1>5, <2>2
<1>6. CASE type \in {"DocumentStart", "DocumentEnd", "StreamStart", "StreamEnd"}
  <2>1. ReadOn(type, "")
    BY <1>1, <1>6
  <2>2. Surrounds(type) /\ type # "StreamStart"
    BY <1>1, <1>6, <2>1, Surrounded DEF Surrounds
  <2> QED
    BY <1>6, <2>2 DEF Around
<1> QED
  BY <1>2, <1>3, <1>4, <1>5, <1>6 DEF Events!Types, Events!Nodes, Events!Starts

LEMMA LeavesText ==
  ASSUME TextOK, NEW type \in {"SequenceEnd", "MappingEnd"}, Leaves(type)
  PROVE  TextOK' /\ Inside(text', path', open')
<1>1. Left /\ (Above.kind = "seq" \/ Here.at = 0)
  BY DEF Leaves
<1> QED
  BY <1>1, LeftText

LEMMA SurroundsText ==
  ASSUME TextOK, NEW type \in Around, Surrounds(type)
  PROVE  TextOK'
<1>1. UNCHANGED <<text, path, roots>> /\ path = <<>>
  BY DEF Surrounds
<1>2. open' \in {<<"stream">>, <<"end">>, <<"stream", "root">>}
  BY DEF Surrounds, Around
<1>3. open' \in Seq(Events!Frames)
  <2>1. \A f \in {"stream", "end", "root"} : f \in Events!Frames
    BY DEF Events!Frames
  <2> QED
    BY <1>2, <2>1, ShortFrames
<1> QED
  BY <1>1, <1>2, <1>3 DEF TextOK, OpenOK

\* An alias: nothing of the text changes.
LEMMA UnsupportedText ==
  ASSUME TextOK, Unsupported
  PROVE  TextOK' /\ open' = <<"error">> /\ UNCHANGED <<text, roots, path>>
<1>1. UNCHANGED <<text, roots, path>> /\ open' = <<"error">>
  BY DEF Unsupported
<1>2. open' \in Seq(Events!Frames)
  <2>1. "error" \in Events!Frames
    BY DEF Events!Frames
  <2> QED
    BY <1>1, <2>1, ShortFrames
<1> QED
  BY <1>1, <1>2 DEF TextOK, OpenOK

LEMMA NextCases ==
  ASSUME Next
  PROVE  \/ \E type \in Events!Types \ {"Alias"}, says \in Says :
               (type = "Scalar" \/ says = "") /\ Event(type, says)
         \/ Unsupported
         \/ UNCHANGED vars
<1>1. CASE \E says \in IF Last(open) = "key" THEN Keys ELSE Texts : Event("Scalar", says)
  <2>1. PICK says \in Says : Event("Scalar", says)
    BY <1>1 DEF Says
  <2>2. "Scalar" \in Events!Types \ {"Alias"}
    BY DEF Events!Types, Events!Nodes
  <2> QED
    BY <2>1, <2>2
<1>2. CASE \E type \in Events!Types \ {"Scalar", "Alias"} : Event(type, "")
  BY <1>2 DEF Says
<1> QED
  BY <1>1, <1>2 DEF Next

LEMMA TextNext ==
  ASSUME TextOK, [Next]_vars
  PROVE  TextOK'
<1>1. CASE UNCHANGED vars
  BY <1>1 DEF vars, TextOK
<1>2. CASE Unsupported
  BY <1>2, UnsupportedText
<1>3. ASSUME NEW type \in Events!Types \ {"Alias"}, NEW says \in Says,
             type = "Scalar" \/ says = "", Event(type, says)
      PROVE  TextOK'
  <2>1. CASE \E kind \in Kinds, N \in Nat \ {0} : type = StartOf(kind) /\ Starts(kind, says, N)
    BY <2>1, StartsText
  <2>2. CASE type \in {"SequenceEnd", "MappingEnd"} /\ Leaves(type)
    BY <2>2, LeavesText
  <2>3. CASE type \in Around /\ Surrounds(type)
    BY <2>3, SurroundsText
  <2> QED
    BY <1>3, <2>1, <2>2, <2>3, EventCases
<1> QED
  BY <1>1, <1>2, <1>3, NextCases
(* ------------------------------ what is wrong ---------------------------- *)

LeafRight(node) ==
  IF node.says = "null" THEN node.rule.optional ELSE node.rule.type \in {"str", "word"}
\* What no later node puts right.
KeysRight(tx, n) ==
  /\ tx[n].rule.type = "object"
  /\ \A key \in In(tx, n, "key") : Attribute(tx[n], tx[key])
  /\ \A key, other \in In(tx, n, "key") : tx[key].says = tx[other].says => key = other
HasAll(tx, n) ==
  \A name \in DOMAIN Schema[tx[n].rule.of] :
    Schema[tx[n].rule.of][name].optional \/ \E key \in In(tx, n, "key") : tx[key].says = name
NodeRight(tx, n) ==
  CASE tx[n].kind = "leaf" -> LeafRight(tx[n])
    [] tx[n].kind = "map"  -> KeysRight(tx, n) /\ HasAll(tx, n)
    [] OTHER               -> tx[n].rule.type = "repeated"

\* Nodes that are wrong whatever comes, and those that are wrong and have ended.
OpenMap(tx, pa, n) == tx[n].kind = "map" /\ \E i \in 1..Len(pa) : pa[i].node = n
Fault(tx, pa, n) ==
  /\ tx[n].as # "key" /\ ~NodeRight(tx, n)
  /\ OpenMap(tx, pa, n) => ~KeysRight(tx, n)
Wrong(tx, pa) == \E n \in 1..Len(tx) : Fault(tx, pa, n)
Closed(tx, pa, n) == tx[n].as # "key" /\ ~NodeRight(tx, n) /\ ~OpenMap(tx, pa, n)
ComplexKey(tx) == \E n \in 1..Len(tx) : tx[n].as = "key" /\ tx[n].kind # "leaf"
Usual(tx, ro) ==
  /\ \A i \in 1..Len(ro) : tx[ro[i]].kind = "map"
  /\ \A n \in 1..Len(tx) : ~(tx[n].kind = "seq" /\ tx[n].rule.type = "str")

\* What makes the builder raise before an open mapping ends, or when it ends.
ItemFits(node) ==
  CASE node.kind = "leaf" -> LeafRight(node)
    [] node.kind = "map"  -> node.rule.type = "object"
    [] OTHER              -> FALSE
BadList(tx, list) ==
  /\ tx[list].kind = "seq" /\ tx[list].rule.type = "repeated"
  /\ \E item \in In(tx, list, "item") : ~ItemFits(tx[item])
Doom(tx, pa, i) ==
  /\ tx[pa[i].node].kind = "map"
  /\ \/ pa[i].at # 0 /\ tx[pa[i].at].kind # "leaf"
     \/ \E value \in In(tx, pa[i].node, "value") : BadList(tx, value)
Doomed(tx, pa) == \E i \in 1..Len(pa) : Doom(tx, pa, i)
\* A key that is a collection waits while it is open.
KeyOpen(tx, pa) ==
  \A i \in 1..Len(pa) : i # 1 /\ tx[pa[i].node].as = "key" => pa[i - 1].at = pa[i].node
FaultsOK(tx, pa) == (\E n \in 1..Len(tx) : Closed(tx, pa, n)) => Doomed(tx, pa)

(* ------------------------------ the builder ------------------------------ *)

Values ==
  {None, Wrapper} \cup [kind : {"str"}, text : Says \cup {"converted"}]
    \cup [kind : {"object", "list"}, at : Nat]
ObjectCell(class) == [class : {class}, attrs : [DOMAIN Schema[class] -> Values]]
ListCell == [items : Seq(Values)]
Cells == ListCell \cup UNION {ObjectCell(class) : class \in Classes}
FrameType == [token : {"document", "mapping", "sequence", "key"}, value : Values,
              seen : SUBSET Says, makes : Classes \cup {"word", "nothing", "other"}]

\* The collections with a cell, and what there is for a node in its collection.
Live(node) == node.kind = "map" /\ node.rule.type = "object"
HasCell(node) == node.kind = "seq" \/ Live(node)
Celled(tx) == {n \in 1..Len(tx) : HasCell(tx[n])}
Held(node, at) ==
  CASE node.kind = "leaf" -> IF node.says = "null" THEN None ELSE Str(node.says)
    [] node.kind = "map"  -> IF Live(node) THEN Ref("object", at) ELSE Str("")
    [] OTHER              -> IF node.as = "item" THEN Wrapper ELSE Ref("list", at)
KeyText(tx, value) == tx[tx[value].at].says
MapHeld(tx, n, object, cell) ==
  /\ tx[n].rule.of \in Classes /\ object \in ObjectCell(tx[n].rule.of)
  /\ \A v \in In(tx, n, "value") : Attribute(tx[n], tx[tx[v].at])
  /\ \A v \in In(tx, n, "value") : object.attrs[KeyText(tx, v)] = Held(tx[v], cell[v])
  /\ \A v, w \in In(tx, n, "value") : KeyText(tx, v) = KeyText(tx, w) => v = w
  /\ \A name \in DOMAIN Schema[tx[n].rule.of] :
       object.attrs[name] = None \/ \E v \in In(tx, n, "value") : KeyText(tx, v) = name
SeqHeld(tx, n, list, cell) ==
  /\ list \in ListCell
  /\ \A v \in In(tx, n, "item") : /\ tx[v].at \in 1..Len(list.items)
                                  /\ list.items[tx[v].at] = Held(tx[v], cell[v])
                                  /\ tx[v].kind = "map" => Live(tx[v])
  /\ \A i \in 1..Len(list.items) : \E v \in In(tx, n, "item") : tx[v].at = i
CellHeld(tx, n, it, cell) ==
  /\ tx[n].kind = "map" => MapHeld(tx, n, it, cell)
  /\ tx[n].kind = "seq" => SeqHeld(tx, n, it, cell)
CellsOK(tx, heap, cell) ==
  /\ cell \in [Celled(tx) -> 1..Len(heap)]
  /\ \A a, b \in Celled(tx) : cell[a] = cell[b] => a = b
HeapOK(tx, heap, cell) ==
  CellsOK(tx, heap, cell) /\ \A n \in Celled(tx) : CellHeld(tx, n, heap[cell[n]], cell)

\* The stack has each open collection at its place, a key that waits above it.
FrameFits(tx, n, frame, cell) ==
  /\ tx[n].kind = "seq" =>
       /\ frame.token = "sequence" /\ frame.value = Ref("list", cell[n])
       /\ frame.makes = IF tx[n].rule.type = "repeated" THEN tx[n].rule.of ELSE "nothing"
  /\ tx[n].kind = "map" =>
       /\ frame.token = "mapping"
       /\ Live(tx[n]) => /\ frame.value = Ref("object", cell[n])
                         /\ frame.seen = {KeyText(tx, v) : v \in In(tx, n, "value")}
       /\ ~Live(tx[n]) => frame.value.kind # "object"
KeyFits(key, frame) ==
  frame.token = "key" /\ frame.value = IF key.kind = "leaf" THEN Str(key.says) ELSE Wrapper
Extra(tx, pa, i) == IF Pending(tx, pa, i) THEN 1 ELSE 0
PosOK(tx, pa, len, pos) ==
  /\ pos \in [1..Len(pa) -> 1..len]
  /\ len = IF Len(pa) = 0 THEN 1 ELSE pos[Len(pa)] + Extra(tx, pa, Len(pa))
  /\ Len(pa) # 0 => pos[1] = 2
  /\ \A i \in 1..Len(pa) : i # 1 => pos[i] = pos[i - 1] + Extra(tx, pa, i - 1) + 1
  /\ \A i, j \in 1..Len(pa) : i < j => pos[i] + Extra(tx, pa, i) < pos[j]
FramesOK(tx, pa, st, pos, cell) ==
  \A i \in 1..Len(pa) :
    /\ FrameFits(tx, pa[i].node, st[pos[i]], cell)
    /\ Pending(tx, pa, i) => KeyFits(tx[pa[i].at], st[pos[i] + 1])
ListsOK(tx, pa, heap, cell) ==
  \A i \in 1..Len(pa) :
    tx[pa[i].node].kind = "seq" => Len(heap[cell[pa[i].node]].items) = pa[i].at
StackOK(tx, pa, st, pos, cell) ==
  PosOK(tx, pa, Len(st), pos) /\ FramesOK(tx, pa, st, pos, cell)

Document(frame, at) == frame.token = "document" /\ frame.value = Ref("object", at)
ResultsOK(ro, rs, cell) ==
  /\ Len(rs) \in Nat /\ Len(rs) <= Len(ro)
  /\ rs = [i \in 1..Len(rs) |-> Ref("object", cell[ro[i]])]
\* By what is open: nothing, a document without its root, or its root.
NothingOpen(st, ro, rs) == st = <<>> /\ Len(ro) = Len(rs)
RootOpen(st, heap, ro, rs, cell) ==
  /\ Len(ro) = Len(rs) /\ Len(st) = 1
  /\ \E at \in 1..Len(heap) :
       /\ Document(st[1], at) /\ heap[at] = NewObject(Root)
       /\ \A n \in DOMAIN cell : cell[n] # at
NodesOpen(tx, pa, st, heap, ro, rs, cell) ==
  /\ Len(ro) = Len(rs) + 1 /\ Document(st[1], cell[ro[Len(ro)]])
  /\ ListsOK(tx, pa, heap, cell)
  /\ \E pos \in [1..Len(pa) -> 1..Len(st)] : StackOK(tx, pa, st, pos, cell)
OpenIs(tx, pa, op, b, ro, rs, cell) ==
  /\ op \in {<<"stream">>, <<"end">>} => NothingOpen(b.stack, ro, rs)
  /\ op = <<"stream", "root">> => RootOpen(b.stack, b.heap, ro, rs, cell)
  /\ Inside(tx, pa, op) => NodesOpen(tx, pa, b.stack, b.heap, ro, rs, cell)
BuilderType(b) == b \in [stack : Seq(FrameType), heap : Seq(Cells), raised : BOOLEAN]
BuilderIs(tx, pa, op, b, ro, rs, cell) ==
  /\ HeapOK(tx, b.heap, cell) /\ ResultsOK(ro, rs, cell) /\ OpenIs(tx, pa, op, b, ro, rs, cell)
Going ==
  ~builder.raised /\ Usual(text, roots) =>
    /\ FaultsOK(text, path) /\ BuilderType(builder)
    /\ \E cell \in [Celled(text) -> 1..Len(builder.heap)] :
         BuilderIs(text, path, open, builder, roots, results, cell)
Faulty == /\ builder.raised /\ open # <<"error">> => Wrong(text, path)
          /\ ComplexKey(text) => Wrong(text, path)
IInv == TextOK /\ KeyOpen(text, path) /\ Faulty /\ Going
(* --------------------- what is wrong stays wrong ------------------------- *)

LEMMA StartsFacts ==
  ASSUME TextOK, NEW kind, NEW says, NEW N, Starts(kind, says, N)
  PROVE  /\ N = Len(text) + 1 /\ Len(text') = N /\ N \in Nat \ {0} /\ Len(text) \in Nat
         /\ 1..Len(text') = 1..Len(text) \cup {N} /\ N \notin 1..Len(text)
         /\ \A n \in 1..Len(text) : text'[n] = text[n]
         /\ text' \in Seq(NodeType) /\ text'[N] \in NodeType
<1>1. /\ N = Len(text) + 1 /\ Len(text') = N /\ N \in Nat \ {0} /\ Len(text) \in Nat
      /\ \A n \in 1..Len(text) : text'[n] = text[n]
      /\ text' \in Seq(NodeType)
  BY DEF Starts, Grew
<1>2. text'[N] \in NodeType
  BY <1>1
<1> QED
  BY <1>1, <1>2

LEMMA NewNodeIs ==
  ASSUME TextOK, NEW kind, NEW says, NEW N, Starts(kind, says, N)
  PROVE  /\ text'[N].kind = kind /\ text'[N].says = says /\ text'[N].as = Role
         /\ text'[N].at = Place /\ text'[N].rule = RuleHere
         /\ (path # <<>> => text'[N].up = Here.node)
BY DEF Starts, Grew

LEMMA SameChildren ==
  ASSUME TextOK, NEW kind, NEW says, NEW N, Starts(kind, says, N), NEW m,
         NEW role \in {"key", "value", "item"}, Role # role \/ m # Here.node
  PROVE  In(text', m, role) = In(text, m, role)
<1>1. In(text', m, role) = In(text, m, role) \cup NewIn(role, m, N)
  BY Children DEF Starts
<1>2. NewIn(role, m, N) = {}
  BY DEF NewIn
<1> QED
  BY <1>1, <1>2

LEMMA MoreChildren ==
  ASSUME TextOK, NEW kind, NEW says, NEW N, Starts(kind, says, N), Role # "root"
  PROVE  In(text', Here.node, Role) = In(text, Here.node, Role) \cup {N}
<1>1. Role \in {"key", "value", "item"}
  BY Roles
<1>2. In(text', Here.node, Role) = In(text, Here.node, Role) \cup NewIn(Role, Here.node, N)
  BY <1>1, Children DEF Starts
<1>3. NewIn(Role, Here.node, N) = {N}
  BY DEF NewIn
<1> QED
  BY <1>2, <1>3

LEMMA OldChildren ==
  ASSUME TextOK, NEW kind, NEW says, NEW N, Starts(kind, says, N), NEW m,
         NEW role \in {"key", "value", "item"}, NEW n \in In(text, m, role)
  PROVE  /\ n \in In(text', m, role) /\ text'[n] = text[n] /\ n \in 1..Len(text)
<1>1. In(text', m, role) = In(text, m, role) \cup NewIn(role, m, N)
  BY Children DEF Starts
<1>2. n \in 1..Len(text)
  BY DEF In
<1> QED
  BY <1>1, <1>2, StartsFacts

LEMMA KeysRightStays ==
  ASSUME TextOK, NEW kind, NEW says, NEW N, Starts(kind, says, N), NEW n \in 1..Len(text),
         KeysRight(text', n)
  PROVE  KeysRight(text, n)
<1>1. text'[n] = text[n]
  BY StartsFacts
<1>2. \A key \in In(text, n, "key") : key \in In(text', n, "key") /\ text'[key] = text[key]
  BY OldChildren
<1>3. text[n].rule.type = "object"
  BY <1>1 DEF KeysRight
<1>4. ASSUME NEW key \in In(text, n, "key") PROVE Attribute(text[n], text[key])
  <2>1. Attribute(text'[n], text'[key])
    BY <1>2 DEF KeysRight
  <2> QED
    BY <1>1, <1>2, <2>1
<1>5. ASSUME NEW key \in In(text, n, "key"), NEW other \in In(text, n, "key"),
             text[key].says = text[other].says
      PROVE  key = other
  <2>1. text'[key].says = text'[other].says
    BY <1>2, <1>5
  <2> QED
    BY <1>2, <2>1 DEF KeysRight
<1> QED
  BY <1>3, <1>4, <1>5 DEF KeysRight

\* The text of a node that is not the collection a node begins in.
LEMMA OthersRight ==
  ASSUME TextOK, NEW kind, NEW says, NEW N, Starts(kind, says, N), NEW n \in 1..Len(text),
         text[n].kind # "map" \/ n # Here.node \/ Role = "root"
  PROVE  NodeRight(text', n) <=> NodeRight(text, n)
<1>1. text'[n] = text[n]
  BY StartsFacts
<1>2. CASE text[n].kind # "map"
  BY <1>1, <1>2 DEF NodeRight
<1>3. CASE text[n].kind = "map"
  <2>1. PICK keys : keys = In(text, n, "key")
    OBVIOUS
  <2>2. In(text', n, "key") = keys
    BY <1>3, <2>1, SameChildren
  <2>3. \A key \in keys : text'[key] = text[key]
    BY <2>1, OldChildren
  <2>4. KeysRight(text', n) <=> KeysRight(text, n)
    BY <1>1, <2>1, <2>2, <2>3 DEF KeysRight
  <2>5. HasAll(text', n) <=> HasAll(text, n)
    BY <1>1, <2>1, <2>2, <2>3 DEF HasAll
  <2> QED
    BY <1>1, <1>3, <2>4, <2>5 DEF NodeRight
<1> QED
  BY <1>2, <1>3

LEMMA OpenMaps ==
  ASSUME TextOK, NEW kind, NEW says, NEW N, Starts(kind, says, N), NEW n \in 1..Len(text)
  PROVE  OpenMap(text', path', n) <=> OpenMap(text, path, n)
<1>1. text'[n] = text[n] /\ n # N
  BY StartsFacts
<1>2. PICK k \in Nat : k = Len(path)
  BY Sorts
<1>3. /\ Len(path') = k + (IF kind = "leaf" THEN 0 ELSE 1)
      /\ \A i \in 1..k : path'[i].node = path[i].node
      /\ kind # "leaf" => path'[k + 1].node = N
  BY <1>2 DEF Starts, PathGrew
<1>4. (\E i \in 1..Len(path') : path'[i].node = n) <=> \E i \in 1..k : path[i].node = n
  <2>1. ASSUME NEW i \in 1..Len(path'), path'[i].node = n PROVE i \in 1..k /\ path[i].node = n
    <3>1. i \in 1..k \/ (i = k + 1 /\ kind # "leaf")
      BY <1>2, <1>3
    <3> QED
      BY <1>1, <1>3, <2>1, <3>1
  <2>2. ASSUME NEW i \in 1..k, path[i].node = n PROVE i \in 1..Len(path') /\ path'[i].node = n
    BY <1>2, <1>3, <2>2
  <2> QED
    BY <2>1, <2>2
<1> QED
  BY <1>1, <1>2, <1>4 DEF OpenMap

LEMMA HereOpen ==
  ASSUME TextOK, path # <<>>
  PROVE  /\ (Above.kind = "map" <=> OpenMap(text, path, Here.node))
         /\ Here.node \in 1..Len(text) /\ text[Here.node] = Above
<1>1. Len(path) \in 1..Len(path) /\ path[Len(path)] = Here /\ Above = text[Here.node]
      /\ Here.node \in 1..Len(text)
  BY Roles, TopPlace
<1> QED
  BY <1>1 DEF OpenMap

LEMMA FaultStays ==
  ASSUME TextOK, NEW kind, NEW says, NEW N, Starts(kind, says, N), NEW n \in 1..Len(text),
         Fault(text, path, n)
  PROVE  Fault(text', path', n)
<1>1. text'[n] = text[n] /\ text[n].as # "key" /\ ~NodeRight(text, n)
  BY StartsFacts DEF Fault
<1>2. CASE OpenMap(text, path, n)
  <2>1. ~KeysRight(text', n) /\ text[n].kind = "map"
    BY <1>2, KeysRightStays DEF Fault, OpenMap
  <2> QED
    BY <1>1, <2>1 DEF Fault, NodeRight
<1>3. CASE ~OpenMap(text, path, n)
  <2>1. text[n].kind # "map" \/ n # Here.node \/ Role = "root"
    <3>1. CASE path = <<>>
      BY <3>1, Roles
    <3>2. CASE path # <<>>
      BY <1>3, <3>2, HereOpen
    <3> QED
      BY <3>1, <3>2
  <2>2. ~NodeRight(text', n)
    BY <1>1, <2>1, OthersRight
  <2>3. ~OpenMap(text', path', n)
    BY <1>3, OpenMaps
  <2> QED
    BY <1>1, <2>2, <2>3 DEF Fault
<1> QED
  BY <1>2, <1>3

LEMMA WrongStays ==
  ASSUME TextOK, NEW kind, NEW says, NEW N, Starts(kind, says, N), Wrong(text, path)
  PROVE  Wrong(text', path')
<1>1. PICK n \in 1..Len(text) : Fault(text, path, n)
  BY DEF Wrong
<1>2. Fault(text', path', n) /\ n \in 1..Len(text')
  BY <1>1, FaultStays, StartsFacts
<1> QED
  BY <1>2 DEF Wrong

LEMMA LeftMaps ==
  ASSUME TextOK, Left, NEW n
  PROVE  OpenMap(text', path', n) => OpenMap(text, path, n)
<1>1. /\ Len(path') = Len(path) - 1 /\ Len(path) \in Nat /\ text' = text
      /\ \A i \in 1..(Len(path) - 1) : path'[i] = path[i]
  BY LeftPath
<1>2. \A i \in 1..Len(path') : i \in 1..Len(path) /\ path'[i] = path[i]
  BY <1>1
<1> QED
  BY <1>1, <1>2 DEF OpenMap

LEMMA WrongLeft ==
  ASSUME TextOK, Left, Wrong(text, path)
  PROVE  Wrong(text', path')
<1>1. PICK n \in 1..Len(text) : Fault(text, path, n)
  BY DEF Wrong
<1>2. text' = text
  BY LeftPath
<1>3. Fault(text', path', n)
  BY <1>1, <1>2, LeftMaps DEF Fault
<1> QED
  BY <1>2, <1>3 DEF Wrong

\* A root that is no mapping, or a list for what is converted, is wrong.
LEMMA Unusual ==
  ASSUME NEW tx, NEW pa, NEW ro, TreeOK(tx, pa), RootsOK(tx, ro), ~Usual(tx, ro)
  PROVE  Wrong(tx, pa)
<1>1. CASE \E i \in 1..Len(ro) : tx[ro[i]].kind # "map"
  <2>1. PICK n \in 1..Len(tx) : tx[n].kind # "map" /\ tx[n].as = "root"
    BY <1>1 DEF RootsOK
  <2>2. tx[n] \in NodeType /\ tx[n].rule = RootRule
    BY <2>1 DEF TreeOK, NodeOK
  <2>3. tx[n].rule.type = "object" /\ tx[n].rule.optional = FALSE
    BY <2>2 DEF RootRule
  <2>4. ~NodeRight(tx, n)
    BY <2>1, <2>2, <2>3 DEF NodeRight, LeafRight, NodeType
  <2> QED
    BY <2>1, <2>4 DEF Wrong, Fault, OpenMap
<1>2. CASE \E n \in 1..Len(tx) : tx[n].kind = "seq" /\ tx[n].rule.type = "str"
  <2>1. PICK n \in 1..Len(tx) : tx[n].kind = "seq" /\ tx[n].rule.type = "str"
    BY <1>2
  <2>2. ~NodeRight(tx, n)
    BY <2>1 DEF NodeRight
  <2>3. tx[n].as # "key"
    <3>1. NodeOK(tx, n)
      BY DEF TreeOK
    <3>2. tx[n].as = "key" => tx[n].rule = NoRule
      BY <3>1 DEF NodeOK
    <3>3. NoRule.type = "none"
      BY DEF NoRule
    <3> QED
      BY <2>1, <3>2, <3>3
  <2> QED
    BY <2>1, <2>2, <2>3 DEF Wrong, Fault, OpenMap
<1> QED
  BY <1>1, <1>2 DEF Usual

\* A mapping with a key that is a collection is wrong; if it is a key itself, what
\* it is in.
LEMMA ComplexKeys ==
  ASSUME TextOK, NEW kind \in Kinds, NEW says, NEW N, Starts(kind, says, N),
         ComplexKey(text) => Wrong(text, path), ComplexKey(text')
  PROVE  Wrong(text', path')
<1>1. CASE ComplexKey(text)
  BY <1>1, WrongStays
<1>2. CASE ~ComplexKey(text)
  <2>1. PICK n \in 1..Len(text') : text'[n].as = "key" /\ text'[n].kind # "leaf"
    BY DEF ComplexKey
  <2>2. n = N
    BY <1>2, <2>1, StartsFacts DEF ComplexKey
  <2>3. Role = "key" /\ kind # "leaf" /\ path # <<>>
    BY <2>1, <2>2, NewNodeIs, Roles
  <2>4. PICK m : m = Here.node
    OBVIOUS
  <2>5. m \in 1..Len(text) /\ Above = text[m] /\ text[m].kind = "map"
    BY <2>3, <2>4, Roles
  <2>6. text[m].as # "key"
    BY <1>2, <2>5 DEF ComplexKey
  <2>7. N \in In(text', m, "key") /\ text'[m] = text[m] /\ m \in 1..Len(text')
    BY <2>3, <2>4, <2>5, MoreChildren, StartsFacts
  <2>8. ~KeysRight(text', m)
    BY <2>1, <2>2, <2>7 DEF KeysRight, Attribute
  <2> QED
    BY <2>5, <2>6, <2>7, <2>8 DEF Wrong, Fault, NodeRight
<1> QED
  BY <1>1, <1>2

LEMMA UsualStays ==
  ASSUME TextOK, NEW kind, NEW says, NEW N, Starts(kind, says, N), Usual(text', roots')
  PROVE  Usual(text, roots)
<1>1. \A n \in 1..Len(text) : text'[n] = text[n] /\ n \in 1..Len(text')
  BY StartsFacts
<1>2. \A i \in 1..Len(roots) : roots[i] \in 1..Len(text) /\ roots'[i] = roots[i] /\ i \in 1..Len(roots')
  <2>1. (Role = "root" => roots' = Append(roots, N)) /\ (Role # "root" => roots' = roots)
    BY PutRoots DEF Starts
  <2>2. roots \in Seq(Nat) /\ RootsOK(text, roots) /\ N \in Nat
    BY StartsFacts DEF TextOK
  <2>3. CASE Role = "root"
    <3>1. \A i \in 1..Len(roots) : roots'[i] = roots[i] /\ i \in 1..Len(roots')
      BY <2>1, <2>2, <2>3
    <3> QED
      BY <2>2, <3>1 DEF RootsOK
  <2>4. CASE Role # "root"
    BY <2>1, <2>2, <2>4 DEF RootsOK
  <2> QED
    BY <2>3, <2>4
<1>3. \A i \in 1..Len(roots) : text[roots[i]].kind = "map"
  BY <1>1, <1>2 DEF Usual
<1>4. \A n \in 1..Len(text) : ~(text[n].kind = "seq" /\ text[n].rule.type = "str")
  BY <1>1 DEF Usual
<1> QED
  BY <1>3, <1>4 DEF Usual
(* ----------------------- the heap as a node begins ----------------------- *)

FreshCell(node, it) ==
  /\ node.kind = "map" => it = NewObject(node.rule.of)
  /\ node.kind = "seq" => it = NewList
MapPut(object, key, value, object2) ==
  object2 = [object EXCEPT !.attrs = [object.attrs EXCEPT ![key] = value]]
SeqPut(list, value, list2) == list2 = [items |-> Append(list.items, value)]

\* The cells: one for the new node if it has one, and those there were.
CellsGrew(N, cell, heap2, cell2) ==
  /\ cell2 \in [Celled(text') -> 1..Len(heap2)]
  /\ \A n \in Celled(text) : cell2[n] = cell[n]
  /\ HasCell(text'[N]) =>
       /\ \A n \in Celled(text) : cell[n] # cell2[N]
       /\ FreshCell(text'[N], heap2[cell2[N]])
OthersSame(heap, cell, heap2) ==
  \A n \in Celled(text) :
    n # Here.node \/ Role \in {"root", "key"} => heap2[cell[n]] = heap[cell[n]]
ValuePut(N, heap, cell, heap2, cell2) ==
  LET m == Here.node
      key == text[Here.at].says
  IN Role = "value" =>
       /\ Live(text[m]) /\ Attribute(text[m], text[Here.at])
       /\ \A v \in In(text, m, "value") : KeyText(text, v) # key
       /\ MapPut(heap[cell[m]], key, Held(text'[N], cell2[N]), heap2[cell[m]])
       /\ Held(text'[N], cell2[N]) \in Values
ItemPut(N, heap, cell, heap2, cell2) ==
  LET m == Here.node
  IN Role = "item" =>
       /\ Len(heap[cell[m]].items) = Here.at
       /\ text'[N].kind = "map" => Live(text'[N])
       /\ SeqPut(heap[cell[m]], Held(text'[N], cell2[N]), heap2[cell[m]])
       /\ Held(text'[N], cell2[N]) \in Values
HeapGrew(N, heap, cell, heap2, cell2) ==
  /\ CellsGrew(N, cell, heap2, cell2) /\ OthersSame(heap, cell, heap2)
  /\ ValuePut(N, heap, cell, heap2, cell2) /\ ItemPut(N, heap, cell, heap2, cell2)

LEMMA CelledGrows ==
  ASSUME TextOK, NEW kind, NEW says, NEW N, Starts(kind, says, N)
  PROVE  /\ N \notin Celled(text) /\ Celled(text) \subseteq 1..Len(text)
         /\ \A n : n \in Celled(text') <=> n \in Celled(text) \/ (n = N /\ HasCell(text'[N]))
BY StartsFacts DEF Celled

LEMMA HeldSame ==
  ASSUME TextOK, NEW kind, NEW says, NEW N, Starts(kind, says, N), NEW cell, NEW heap2, NEW cell2,
         CellsGrew(N, cell, heap2, cell2), NEW v \in 1..Len(text)
  PROVE  Held(text'[v], cell2[v]) = Held(text[v], cell[v])
<1>1. text'[v] = text[v] /\ text[v] \in NodeType
  BY StartsFacts DEF TextOK, TreeOK
<1>2. CASE HasCell(text[v])
  <2>1. cell2[v] = cell[v]
    BY <1>2 DEF CellsGrew, Celled
  <2> QED
    BY <1>1, <2>1
<1>3. CASE ~HasCell(text[v])
  <2>1. text[v].kind = "leaf" \/ (text[v].kind = "map" /\ ~Live(text[v]))
    BY <1>1, <1>3 DEF HasCell, NodeType
  <2> QED
    BY <1>1, <2>1 DEF Held
<1> QED
  BY <1>2, <1>3

LEMMA KeyTextSame ==
  ASSUME TextOK, NEW kind, NEW says, NEW N, Starts(kind, says, N), NEW m,
         NEW v \in In(text, m, "value")
  PROVE  /\ KeyText(text', v) = KeyText(text, v) /\ text'[text'[v].at] = text[text[v].at]
         /\ text[v].at \in In(text, m, "key") /\ text[v].at \in 1..Len(text)
<1>1. text'[v] = text[v] /\ NodeOK(text, v) /\ text[v].as = "value" /\ text[v].up = m
  BY OldChildren, ChildrenAfter
<1>2. text[v].at \in In(text, m, "key")
  BY <1>1 DEF NodeOK
<1>3. text[v].at \in 1..Len(text)
  BY <1>2 DEF In
<1> QED
  BY <1>1, <1>2, <1>3, StartsFacts DEF KeyText

LEMMA OthersHeld ==
  ASSUME TextOK, NEW kind, NEW says, NEW N, Starts(kind, says, N), NEW cell, NEW heap2, NEW cell2,
         CellsGrew(N, cell, heap2, cell2), NEW n \in Celled(text),
         n # Here.node \/ Role \in {"root", "key"},
         NEW it, CellHeld(text, n, it, cell)
  PROVE  CellHeld(text', n, it, cell2)
<1>1. n \in 1..Len(text) /\ text'[n] = text[n]
  BY CelledGrows, StartsFacts
<1>2. In(text', n, "value") = In(text, n, "value") /\ In(text', n, "item") = In(text, n, "item")
  BY SameChildren
<1>3. \A role \in {"value", "item"} : \A v \in In(text, n, role) :
        /\ text'[v] = text[v] /\ Held(text'[v], cell2[v]) = Held(text[v], cell[v])
  BY OldChildren, HeldSame
<1>4. \A v \in In(text, n, "value") : /\ KeyText(text', v) = KeyText(text, v)
                                      /\ text'[text'[v].at] = text[text[v].at]
  BY KeyTextSame
<1>5. CASE text[n].kind = "map"
  <2>1. MapHeld(text, n, it, cell)
    BY <1>5 DEF CellHeld
  <2>2. MapHeld(text', n, it, cell2)
    BY <1>1, <1>2, <1>3, <1>4, <2>1 DEF MapHeld
  <2> QED
    BY <1>1, <1>5, <2>2 DEF CellHeld
<1>6. CASE text[n].kind = "seq"
  <2>1. SeqHeld(text, n, it, cell)
    BY <1>6 DEF CellHeld
  <2>2. SeqHeld(text', n, it, cell2)
    BY <1>1, <1>2, <1>3, <2>1 DEF SeqHeld
  <2> QED
    BY <1>1, <1>6, <2>2 DEF CellHeld
<1>7. CASE text[n].kind \notin {"map", "seq"}
  BY <1>1, <1>7 DEF CellHeld
<1> QED
  BY <1>5, <1>6, <1>7

\* There is nothing in a collection that begins.
LEMMA NewIsEmpty ==
  ASSUME TextOK, NEW kind, NEW says, NEW N, Starts(kind, says, N),
         NEW role \in {"key", "value", "item"}
  PROVE  In(text', N, role) = {}
<1>1. Role # role \/ N # Here.node
  <2>1. Role = "root" \/ Here.node \in 1..Len(text)
    BY Roles
  <2> QED
    BY <2>1, StartsFacts
<1>2. In(text', N, role) = In(text, N, role)
  BY <1>1, SameChildren
<1>3. \A n \in In(text, N, role) : N \in 1..Len(text)
  BY ChildrenAfter
<1> QED
  BY <1>2, <1>3, StartsFacts

LEMMA FreshHeld ==
  ASSUME TextOK, NEW kind, NEW says, NEW N, Starts(kind, says, N), NEW cell2,
         HasCell(text'[N]), NEW it, FreshCell(text'[N], it)
  PROVE  CellHeld(text', N, it, cell2)
<1>1. \A role \in {"key", "value", "item"} : In(text', N, role) = {}
  BY NewIsEmpty
<1>2. In(text', N, "value") = {} /\ In(text', N, "item") = {}
  BY <1>1
<1>3. PICK node \in NodeType : node = text'[N]
  BY StartsFacts
<1>4. CASE node.kind = "map"
  <2>1. it = NewObject(node.rule.of) /\ node.rule.type = "object"
    BY <1>3, <1>4 DEF FreshCell, HasCell, Live
  <2>2. node.rule.of \in Classes
    BY <1>3, <2>1, ObjectRules DEF NodeType, RuleTypes
  <2>3. None \in Values
    BY DEF Values
  <2>4. it \in ObjectCell(node.rule.of) /\ \A name \in DOMAIN Schema[node.rule.of] : it.attrs[name] = None
    BY <2>1, <2>3 DEF NewObject, ObjectCell
  <2>5. MapHeld(text', N, it, cell2)
    BY <1>2, <1>3, <2>2, <2>4 DEF MapHeld
  <2> QED
    BY <1>3, <1>4, <2>5 DEF CellHeld
<1>5. CASE node.kind = "seq"
  <2>1. it = [items |-> <<>>]
    BY <1>3, <1>5 DEF FreshCell, NewList
  <2>2. it \in ListCell /\ Len(it.items) = 0
    BY <2>1 DEF ListCell
  <2>3. SeqHeld(text', N, it, cell2)
    BY <1>2, <2>2 DEF SeqHeld
  <2> QED
    BY <1>3, <1>5, <2>3 DEF CellHeld
<1> QED
  BY <1>3, <1>4, <1>5 DEF HasCell, Live

\* The value of a key is put in the mapping.
LEMMA ValueHeld ==
  ASSUME TextOK, NEW kind, NEW says, NEW N, Starts(kind, says, N), NEW cell, NEW heap2, NEW cell2,
         CellsGrew(N, cell, heap2, cell2), Role = "value", NEW m, m = Here.node,
         NEW key, key = text[Here.at].says, Live(text[m]), Attribute(text[m], text[Here.at]),
         \A v \in In(text, m, "value") : KeyText(text, v) # key,
         NEW value \in Values, value = Held(text'[N], cell2[N]),
         NEW it, MapHeld(text, m, it, cell), NEW it2, MapPut(it, key, value, it2)
  PROVE  MapHeld(text', m, it2, cell2)
<1>1. m \in 1..Len(text) /\ text'[m] = text[m] /\ Here.at \in 1..Len(text)
  <2>1. path # <<>>
    BY Roles
  <2> QED
    BY <2>1, Roles, StartsFacts
<1>2. PICK class \in Classes : class = text[m].rule.of
  BY DEF MapHeld
<1>3. PICK names : names = DOMAIN Schema[class]
  OBVIOUS
<1>4. key \in names
  BY <1>2, <1>3 DEF Attribute
<1>5. it = [class |-> class, attrs |-> it.attrs] /\ it.attrs \in [names -> Values]
  BY <1>2, <1>3 DEF MapHeld, ObjectCell
<1>6. it2 = [class |-> class, attrs |-> [it.attrs EXCEPT ![key] = value]]
  BY <1>5 DEF MapPut
<1>7. PICK attrs2 : attrs2 = [it.attrs EXCEPT ![key] = value]
  OBVIOUS
<1>8. it2.attrs = attrs2 /\ it2 \in ObjectCell(class)
      /\ attrs2[key] = value /\ \A name \in names : name # key => attrs2[name] = it.attrs[name]
  BY <1>3, <1>4, <1>5, <1>6, <1>7 DEF ObjectCell
<1>9. In(text', m, "value") = In(text, m, "value") \cup {N}
  BY MoreChildren
<1>10. KeyText(text', N) = key /\ Attribute(text'[m], text'[text'[N].at])
  <2>1. text'[N].at = Here.at
    BY NewNodeIs DEF Place
  <2> QED
    BY <1>1, <2>1, StartsFacts DEF KeyText
<1>11. \A v \in In(text, m, "value") :
         /\ text'[v] = text[v] /\ Held(text'[v], cell2[v]) = Held(text[v], cell[v])
         /\ KeyText(text', v) = KeyText(text, v) /\ text'[text'[v].at] = text[text[v].at]
         /\ v # N
  BY OldChildren, HeldSame, KeyTextSame, StartsFacts
<1>12. \A v \in In(text, m, "value") : KeyText(text, v) \in names
  BY <1>2, <1>3 DEF MapHeld, Attribute, KeyText
<1>13. ASSUME NEW v \in In(text', m, "value")
       PROVE  /\ Attribute(text'[m], text'[text'[v].at])
              /\ it2.attrs[KeyText(text', v)] = Held(text'[v], cell2[v])
  <2>1. CASE v = N
    BY <1>8, <1>10, <2>1
  <2>2. CASE v \in In(text, m, "value")
    <3>1. Attribute(text'[m], text'[text'[v].at])
      BY <1>1, <1>11, <2>2 DEF MapHeld
    <3>2. it.attrs[KeyText(text, v)] = Held(text[v], cell[v])
      BY <2>2 DEF MapHeld
    <3> QED
      BY <1>8, <1>11, <1>12, <2>2, <3>1, <3>2
  <2> QED
    BY <1>9, <2>1, <2>2
<1>14. ASSUME NEW v \in In(text', m, "value"), NEW w \in In(text', m, "value"),
              KeyText(text', v) = KeyText(text', w)
       PROVE  v = w
  <2>1. CASE v \in In(text, m, "value") /\ w \in In(text, m, "value")
    <3>1. KeyText(text, v) = KeyText(text, w)
      BY <1>11, <1>14, <2>1
    <3> QED
      BY <2>1, <3>1 DEF MapHeld
  <2>2. CASE ~(v \in In(text, m, "value") /\ w \in In(text, m, "value"))
    BY <1>9, <1>10, <1>11, <1>14, <2>2
  <2> QED
    BY <2>1, <2>2
<1>15. ASSUME NEW name \in names
       PROVE  it2.attrs[name] = None \/ \E v \in In(text', m, "value") : KeyText(text', v) = name
  <2>1. CASE name = key
    BY <1>9, <1>10, <2>1
  <2>2. CASE name # key
    <3>1. it.attrs[name] = None \/ \E v \in In(text, m, "value") : KeyText(text, v) = name
      BY <1>2, <1>3 DEF MapHeld
    <3> QED
      BY <1>8, <1>9, <1>11, <2>2, <3>1
  <2> QED
    BY <2>1, <2>2
<1> QED
  BY <1>1, <1>2, <1>3, <1>8, <1>13, <1>14, <1>15 DEF MapHeld

\* An item is appended to the list.
LEMMA ItemHeld ==
  ASSUME TextOK, NEW kind, NEW says, NEW N, Starts(kind, says, N), NEW cell, NEW heap2, NEW cell2,
         CellsGrew(N, cell, heap2, cell2), Role = "item", NEW m, m = Here.node,
         text'[N].kind = "map" => Live(text'[N]),
         NEW value \in Values, value = Held(text'[N], cell2[N]),
         NEW it, SeqHeld(text, m, it, cell), Len(it.items) = Here.at,
         NEW it2, SeqPut(it, value, it2)
  PROVE  SeqHeld(text', m, it2, cell2)
<1>1. m \in 1..Len(text) /\ text'[m] = text[m] /\ Here.at \in Nat
  <2>1. path # <<>>
    BY Roles
  <2> QED
    BY <2>1, Roles, StartsFacts DEF PlaceType
<1>2. it.items \in Seq(Values) /\ it2 = [items |-> Append(it.items, value)]
  BY DEF SeqHeld, ListCell, SeqPut
<1>3. PICK a \in Nat : a = Here.at
  BY <1>1
<1>4. /\ it2.items \in Seq(Values) /\ Len(it2.items) = a + 1 /\ it2.items[a + 1] = value
      /\ \A i \in 1..a : it2.items[i] = it.items[i]
  BY <1>2, <1>3, Appends
<1>5. it2 \in ListCell
  BY <1>2, <1>4 DEF ListCell
<1>6. In(text', m, "item") = In(text, m, "item") \cup {N}
  BY MoreChildren
<1>7. text'[N].at = a + 1
  BY <1>3, NewNodeIs DEF Place
<1>8. \A v \in In(text, m, "item") :
        /\ text'[v] = text[v] /\ Held(text'[v], cell2[v]) = Held(text[v], cell[v])
  BY OldChildren, HeldSame
<1>9. ASSUME NEW v \in In(text', m, "item")
      PROVE  /\ text'[v].at \in 1..Len(it2.items)
             /\ it2.items[text'[v].at] = Held(text'[v], cell2[v])
             /\ text'[v].kind = "map" => Live(text'[v])
  <2>1. CASE v = N
    BY <1>4, <1>7, <2>1
  <2>2. CASE v \in In(text, m, "item")
    <3>1. /\ text[v].at \in 1..a /\ it.items[text[v].at] = Held(text[v], cell[v])
          /\ text[v].kind = "map" => Live(text[v])
      BY <1>3, <2>2 DEF SeqHeld
    <3> QED
      BY <1>4, <1>8, <2>2, <3>1
  <2> QED
    BY <1>6, <2>1, <2>2
<1>10. ASSUME NEW i \in 1..Len(it2.items) PROVE \E v \in In(text', m, "item") : text'[v].at = i
  <2>1. CASE i = a + 1
    BY <1>6, <1>7, <2>1
  <2>2. CASE i # a + 1
    <3>1. i \in 1..Len(it.items)
      BY <1>3, <1>4, <2>2
    <3>2. PICK v \in In(text, m, "item") : text[v].at = i
      BY <3>1 DEF SeqHeld
    <3> QED
      BY <1>6, <1>8, <3>2
  <2> QED
    BY <2>1, <2>2
<1> QED
  BY <1>5, <1>9, <1>10 DEF SeqHeld

LEMMA HeapPut ==
  ASSUME TextOK, NEW kind, NEW says, NEW N, Starts(kind, says, N), NEW heap, NEW cell,
         HeapOK(text, heap, cell), NEW heap2, NEW cell2, HeapGrew(N, heap, cell, heap2, cell2)
  PROVE  HeapOK(text', heap2, cell2)
<1>1. /\ CellsGrew(N, cell, heap2, cell2) /\ OthersSame(heap, cell, heap2)
      /\ ValuePut(N, heap, cell, heap2, cell2) /\ ItemPut(N, heap, cell, heap2, cell2)
  BY DEF HeapGrew
<1>2. CellsOK(text', heap2, cell2)
  <2>1. cell2 \in [Celled(text') -> 1..Len(heap2)]
    BY <1>1 DEF CellsGrew
  <2>2. ASSUME NEW a \in Celled(text'), NEW b \in Celled(text'), cell2[a] = cell2[b] PROVE a = b
    <3>1. \A n \in Celled(text) : cell2[n] = cell[n]
      BY <1>1 DEF CellsGrew
    <3>2. HasCell(text'[N]) => \A n \in Celled(text) : cell[n] # cell2[N]
      BY <1>1 DEF CellsGrew
    <3>3. \A x, y \in Celled(text) : cell[x] = cell[y] => x = y
      BY DEF HeapOK, CellsOK
    <3> QED
      BY <2>2, <3>1, <3>2, <3>3, CelledGrows
  <2> QED
    BY <2>1, <2>2 DEF CellsOK
<1>3. ASSUME NEW n \in Celled(text') PROVE CellHeld(text', n, heap2[cell2[n]], cell2)
  <2>1. CASE n \notin Celled(text)
    <3>1. n = N /\ HasCell(text'[N])
      BY <1>3, <2>1, CelledGrows
    <3>2. FreshCell(text'[N], heap2[cell2[N]])
      BY <1>1, <3>1 DEF CellsGrew
    <3> QED
      BY <3>1, <3>2, FreshHeld
  <2>2. CASE n \in Celled(text)
    <3>1. cell2[n] = cell[n] /\ CellHeld(text, n, heap[cell[n]], cell)
      BY <1>1, <2>2 DEF CellsGrew, HeapOK
    <3>2. CASE n # Here.node \/ Role \in {"root", "key"}
      <4>1. heap2[cell[n]] = heap[cell[n]]
        BY <1>1, <2>2, <3>2 DEF OthersSame
      <4> QED
        BY <1>1, <2>2, <3>1, <3>2, <4>1, OthersHeld
    <3>3. CASE n = Here.node /\ Role = "value"
      <4>1. /\ Live(text[n]) /\ Attribute(text[n], text[Here.at])
            /\ \A v \in In(text, n, "value") : KeyText(text, v) # text[Here.at].says
            /\ MapPut(heap[cell[n]], text[Here.at].says, Held(text'[N], cell2[N]), heap2[cell[n]])
            /\ Held(text'[N], cell2[N]) \in Values
        BY <1>1, <3>3 DEF ValuePut
      <4>2. MapHeld(text, n, heap[cell[n]], cell) /\ text'[n] = text[n] /\ text[n].kind = "map"
        BY <2>2, <3>1, <4>1, CelledGrows, StartsFacts DEF CellHeld, Live
      <4>3. PICK key, value : key = text[Here.at].says /\ value = Held(text'[N], cell2[N])
        OBVIOUS
      <4>4. MapHeld(text', n, heap2[cell[n]], cell2)
        BY <1>1, <3>3, <4>1, <4>2, <4>3, ValueHeld
      <4> QED
        BY <3>1, <4>2, <4>4 DEF CellHeld
    <3>4. CASE n = Here.node /\ Role = "item"
      <4>1. /\ Len(heap[cell[n]].items) = Here.at
            /\ text'[N].kind = "map" => Live(text'[N])
            /\ SeqPut(heap[cell[n]], Held(text'[N], cell2[N]), heap2[cell[n]])
            /\ Held(text'[N], cell2[N]) \in Values
        BY <1>1, <3>4 DEF ItemPut
      <4>2. text'[n] = text[n] /\ text[n].kind = "seq"
        <5>1. path # <<>>
          BY <3>4, Roles
        <5> QED
          BY <2>2, <3>4, <5>1, Roles, CelledGrows, StartsFacts
      <4>3. SeqHeld(text, n, heap[cell[n]], cell)
        BY <3>1, <4>2 DEF CellHeld
      <4>4. SeqHeld(text', n, heap2[cell[n]], cell2)
        BY <1>1, <3>4, <4>1, <4>3, ItemHeld
      <4> QED
        BY <3>1, <4>2, <4>4 DEF CellHeld
    <3> QED
      BY <3>2, <3>3, <3>4, Roles
  <2> QED
    BY <2>1, <2>2
<1> QED
  BY <1>2, <1>3 DEF HeapOK
(* ----------------------- the stack as a node begins ---------------------- *)

SeenToo(frame, key, frame2) == frame2 = [frame EXCEPT !.seen = frame.seen \cup {key}]
Grown(kind) == IF kind = "leaf" THEN 0 ELSE 1
Waits == IF Role = "key" THEN 1 ELSE 0
\* Nothing changes below the innermost open collection, at "top"; a key may be put on
\* it, and the frame of a new collection.
AboveTop(kind, N, st, top, st2) ==
  /\ Len(st2) = top + Waits + Grown(kind) /\ \A j \in 1..(top - 1) : st2[j] = st[j]
  /\ Role = "value" => /\ SeenToo(st[top], text[Here.at].says, st2[top])
                       /\ Live(text[Here.node]) /\ text[Here.at].kind = "leaf"
  /\ Role # "value" => st2[top] = st[top]
  /\ Role = "key" => KeyFits(text'[N], st2[top + 1])
AboveRoot(kind, st, st2) == kind # "leaf" /\ Len(st2) = 2 /\ st2[1] = st[1]
StackGrew(kind, N, st, pos, st2, cell2) ==
  /\ path = <<>> => AboveRoot(kind, st, st2)
  /\ path # <<>> => AboveTop(kind, N, st, pos[Len(path)], st2)
  /\ kind # "leaf" => FrameFits(text', N, st2[Len(st2)], cell2)
NextPos(pos, st2) == [i \in 1..Len(path') |-> IF i <= Len(path) THEN pos[i] ELSE Len(st2)]

LEMMA ExtraStays ==
  ASSUME TextOK, NEW kind, NEW says, NEW N, Starts(kind, says, N), NEW i \in 1..Len(path)
  PROVE  Extra(text', path', i) =
           IF i < Len(path) THEN Extra(text, path, i) ELSE Waits
<1>1. CASE i < Len(path)
  <2>1. Pending(text', path', i) <=> Pending(text, path, i)
    BY <1>1, PlacesStay DEF Starts
  <2> QED
    BY <1>1, <2>1 DEF Extra
<1>2. CASE i = Len(path)
  <2>1. path # <<>> /\ i \in Nat \ {0}
    BY <1>2, PathNodes, Sorts
  <2>2. /\ path'[i].node = Here.node /\ path'[i].at = NextAt(N) /\ text'[Here.node] = Above
    BY <1>2, <2>1, Roles, StartsFacts DEF Starts, PathGrew
  <2>3. Role \in {"item", "key", "value"} /\ (Role = "item" <=> Above.kind = "seq")
        /\ (Role # "item" <=> Above.kind = "map") /\ N # 0
    BY <2>1, Roles, StartsFacts
  <2>4. Pending(text', path', i) <=> Role = "key"
    BY <2>2, <2>3 DEF Pending, NextAt
  <2> QED
    BY <1>2, <2>4 DEF Extra, Waits
<1> QED
  BY <1>1, <1>2, Sorts

LEMMA ExtraNew ==
  ASSUME TextOK, NEW kind, NEW says, NEW N, Starts(kind, says, N), kind # "leaf",
         NEW k, k = Len(path)
  PROVE  Extra(text', path', k + 1) = 0 /\ path'[k + 1].node = N /\ path'[k + 1].at = 0
         /\ ~Pending(text', path', k + 1)
<1>1. path'[k + 1] = [node |-> N, at |-> 0]
  BY DEF Starts, PathGrew
<1> QED
  BY <1>1 DEF Extra, Pending

LEMMA PathLength ==
  ASSUME TextOK, NEW kind, NEW says, NEW N, Starts(kind, says, N)
  PROVE  /\ Len(path') = Len(path) + Grown(kind) /\ Len(path) \in Nat
         /\ \A i \in 1..Len(path) : path'[i].node = path[i].node
         /\ \A i \in 1..(Len(path) - 1) : path'[i] = path[i]
         /\ path # <<>> => path'[Len(path)].at = NextAt(N)
BY Sorts DEF Starts, PathGrew, Grown

LEMMA ExtraType == \A tx, pa, i : Extra(tx, pa, i) \in {0, 1}
BY DEF Extra

\* The numbers alone.
Numbers(k, e, len, pos) ==
  /\ pos \in [1..k -> 1..len]
  /\ k # 0 => pos[1] = 2 /\ len = pos[k] + e[k]
  /\ \A i \in 1..k : i # 1 => pos[i] = pos[i - 1] + e[i - 1] + 1
  /\ \A i, j \in 1..k : i < j => pos[i] + e[i] < pos[j]
Growing(k, g, w, e, len, pos, k2, e2, len2, pos2) ==
  /\ k \in Nat /\ g \in {0, 1} /\ w \in {0, 1} /\ len \in Nat /\ len2 \in Nat
  /\ k2 \in Nat /\ k2 = k + g /\ e \in [1..k -> {0, 1}] /\ e2 \in [1..k2 -> {0, 1}]
  /\ \A i \in 1..k : e2[i] = IF i < k THEN e[i] ELSE w
  /\ g = 1 => e2[k + 1] = 0
  /\ Numbers(k, e, len, pos)
  /\ k = 0 => g = 1 /\ len2 = 2
  /\ k # 0 => len2 = pos[k] + w + g
  /\ pos2 = [i \in 1..k2 |-> IF i <= k THEN pos[i] ELSE len2]
LEMMA Positions ==
  ASSUME NEW k, NEW g, NEW w, NEW e, NEW len, NEW pos, NEW k2, NEW e2, NEW len2, NEW pos2,
         Growing(k, g, w, e, len, pos, k2, e2, len2, pos2)
  PROVE  Numbers(k2, e2, len2, pos2) /\ k2 # 0
<1> USE DEF Growing
<1>a. /\ k \in Nat /\ g \in {0, 1} /\ w \in {0, 1} /\ len \in Nat /\ len2 \in Nat
      /\ k2 \in Nat /\ k2 = k + g /\ e \in [1..k -> {0, 1}] /\ e2 \in [1..k2 -> {0, 1}]
      /\ \A i \in 1..k : e2[i] = IF i < k THEN e[i] ELSE w
      /\ g = 1 => e2[k + 1] = 0
      /\ k = 0 => g = 1 /\ len2 = 2
      /\ k # 0 => len2 = pos[k] + w + g
      /\ pos2 = [i \in 1..k2 |-> IF i <= k THEN pos[i] ELSE len2]
  OBVIOUS
<1>0. /\ pos \in [1..k -> 1..len]
      /\ k # 0 => pos[1] = 2 /\ len = pos[k] + e[k]
      /\ \A i \in 1..k : i # 1 => pos[i] = pos[i - 1] + e[i - 1] + 1
      /\ \A i, j \in 1..k : i < j => pos[i] + e[i] < pos[j]
  BY DEF Numbers
<1>1. CASE k = 0
  <2>1. k2 = 1 /\ g = 1 /\ len2 = 2 /\ e2[1] = 0
    BY <1>1
  <2>2. pos2 \in [1..k2 -> 1..len2] /\ pos2[1] = 2
    BY <1>1, <2>1
  <2> QED
    BY <2>1, <2>2 DEF Numbers
<1>2. CASE k # 0
  <2>1. \A i \in 1..k : pos[i] \in Nat \ {0} /\ pos[i] <= pos[k] /\ e[i] \in {0, 1}
    <3>1. \A i \in 1..k : pos[i] \in Nat \ {0} /\ e[i] \in {0, 1}
      BY <1>0
    <3>2. k \in 1..k
      BY <1>2
    <3>3. ASSUME NEW i \in 1..k, i # k PROVE pos[i] <= pos[k]
      <4>1. pos[i] + e[i] < pos[k]
        BY <1>0, <3>2, <3>3
      <4> QED
        BY <3>1, <3>2, <4>1
    <3> QED
      BY <3>1, <3>2, <3>3
  <2>2. pos[k] \in Nat \ {0} /\ pos[k] <= len2 /\ len2 \in Nat \ {0}
    BY <1>2, <2>1
  <2>3. ASSUME NEW i \in 1..k2 PROVE pos2[i] \in 1..len2
    <3>1. CASE i <= k
      BY <2>1, <2>2, <3>1
    <3>2. CASE i > k
      BY <2>2, <3>2
    <3> QED
      BY <3>1, <3>2
  <2>4. pos2 \in [1..k2 -> 1..len2]
    BY <2>3
  <2>5. CASE g = 0
    <3>1. k2 = k /\ \A i \in 1..k : pos2[i] = pos[i]
      BY <2>5
    <3>2. \A i \in 1..k : i # 1 => e2[i - 1] = e[i - 1]
      OBVIOUS
    <3>3. \A i, j \in 1..k : i < j => e2[i] = e[i]
      OBVIOUS
    <3>4. e2[k] = w /\ len2 = pos[k] + w
      BY <1>2, <2>2, <2>5
    <3>5. \A i \in 1..k : i # 1 => pos2[i] = pos2[i - 1] + e2[i - 1] + 1
      <4> SUFFICES ASSUME NEW i \in 1..k, i # 1 PROVE pos2[i] = pos2[i - 1] + e2[i - 1] + 1
        OBVIOUS
      <4>1. i - 1 \in 1..k
        OBVIOUS
      <4>2. pos[i] = pos[i - 1] + e[i - 1] + 1
        BY <1>0
      <4> QED
        BY <3>1, <3>2, <4>1, <4>2
    <3>6. \A i, j \in 1..k : i < j => pos2[i] + e2[i] < pos2[j]
      BY <1>0, <3>1, <3>3
    <3>7. pos2[1] = 2 /\ len2 = pos2[k2] + e2[k2]
      BY <1>0, <1>2, <3>1, <3>4
    <3> QED
      BY <1>2, <2>4, <3>1, <3>5, <3>6, <3>7 DEF Numbers
  <2>6. CASE g = 1
    <3>1. k2 = k + 1 /\ (\A i \in 1..k : pos2[i] = pos[i]) /\ pos2[k + 1] = len2
      BY <2>6
    <3>2. e2[k + 1] = 0 /\ e2[k] = w /\ \A i \in 1..k : i < k => e2[i] = e[i]
      BY <1>2, <2>6
    <3>3. ASSUME NEW i \in 1..k2, i # 1 PROVE pos2[i] = pos2[i - 1] + e2[i - 1] + 1
      <4>1. CASE i = k + 1
        BY <1>2, <2>2, <2>6, <3>1, <3>2, <4>1
      <4>2. CASE i # k + 1
        <5>1. i \in 1..k /\ i - 1 \in 1..k /\ i - 1 < k
          BY <3>1, <3>3, <4>2
        <5>2. pos[i] = pos[i - 1] + e[i - 1] + 1
          BY <1>0, <3>3, <5>1
        <5> QED
          BY <3>1, <3>2, <5>1, <5>2
      <4> QED
        BY <4>1, <4>2
    <3>4. ASSUME NEW i \in 1..k2, NEW j \in 1..k2, i < j PROVE pos2[i] + e2[i] < pos2[j]
      <4>1. i \in 1..k
        BY <3>1, <3>4
      <4>2. CASE j = k + 1
        <5>1. CASE i = k
          BY <2>2, <2>6, <3>1, <3>2, <4>1, <4>2, <5>1, <1>2
        <5>2. CASE i < k
          <6>1. pos[i] + e[i] < pos[k] /\ pos2[i] = pos[i] /\ e2[i] = e[i] /\ pos2[j] = len2
            BY <1>0, <1>2, <3>1, <3>2, <4>1, <4>2, <5>2
          <6>2. pos[i] \in Nat /\ e[i] \in Nat
            BY <2>1, <4>1
          <6> QED
            BY <2>2, <6>1, <6>2
        <5> QED
          BY <4>1, <5>1, <5>2
      <4>3. CASE j # k + 1
        <5>1. j \in 1..k /\ i < k
          BY <3>1, <3>4, <4>1, <4>3
        <5>2. pos[i] + e[i] < pos[j]
          BY <1>0, <3>4, <4>1, <5>1
        <5> QED
          BY <3>1, <3>2, <4>1, <5>1, <5>2
      <4> QED
        BY <4>2, <4>3
    <3>5. pos2[1] = 2 /\ len2 = pos2[k2] + e2[k2] /\ k2 # 0
      BY <1>0, <1>2, <2>2, <3>1, <3>2
    <3> QED
      BY <2>4, <3>3, <3>4, <3>5 DEF Numbers
  <2> QED
    BY <2>5, <2>6
<1> QED
  BY <1>1, <1>2

LEMMA PosPut ==
  ASSUME TextOK, NEW kind, NEW says, NEW N, Starts(kind, says, N), NEW st, NEW pos,
         Len(st) \in Nat, PosOK(text, path, Len(st), pos), NEW st2, NEW cell2,
         Len(st2) \in Nat, StackGrew(kind, N, st, pos, st2, cell2)
  PROVE  PosOK(text', path', Len(st2), NextPos(pos, st2))
<1>1. PICK k \in Nat, k2 \in Nat, g \in {0, 1}, w \in {0, 1} :
        k = Len(path) /\ k2 = Len(path') /\ g = Grown(kind) /\ w = Waits /\ k2 = k + g
  BY PathLength DEF Grown, Waits
<1>2. PICK e : e = [i \in 1..k |-> Extra(text, path, i)]
  OBVIOUS
<1>3. PICK e2 : e2 = [i \in 1..k2 |-> Extra(text', path', i)]
  OBVIOUS
<1>4. PICK len \in Nat, len2 \in Nat : len = Len(st) /\ len2 = Len(st2)
  OBVIOUS
<1>5. PICK pos2 : pos2 = NextPos(pos, st2)
  OBVIOUS
<1>6. e \in [1..k -> {0, 1}] /\ e2 \in [1..k2 -> {0, 1}]
  BY <1>2, <1>3, ExtraType
<1>7. \A i \in 1..k : e2[i] = IF i < k THEN e[i] ELSE w
  BY <1>1, <1>2, <1>3, ExtraStays
<1>8. g = 1 => e2[k + 1] = 0
  <2> SUFFICES ASSUME g = 1 PROVE e2[k + 1] = 0
    OBVIOUS
  <2>1. kind # "leaf" /\ k + 1 \in 1..k2
    BY <1>1 DEF Grown
  <2> QED
    BY <1>1, <1>3, <2>1, ExtraNew
<1>9. Numbers(k, e, len, pos)
  <2>1. k # 0 => k \in 1..k
    OBVIOUS
  <2>2. \A i \in 1..k : i # 1 => i - 1 \in 1..k
    OBVIOUS
  <2> QED
    BY <1>1, <1>2, <1>4, <2>1, <2>2 DEF PosOK, Numbers
<1>10. path = <<>> <=> k = 0
  BY <1>1, Sorts
<1>11. (k = 0 => g = 1 /\ len2 = 2) /\ (k # 0 => len2 = pos[k] + w + g)
  BY <1>1, <1>4, <1>10 DEF StackGrew, AboveRoot, AboveTop, Grown
<1>12. pos2 = [i \in 1..k2 |-> IF i <= k THEN pos[i] ELSE len2]
  BY <1>1, <1>4, <1>5 DEF NextPos
<1>13. Numbers(k2, e2, len2, pos2) /\ k2 # 0
  <2>1. Growing(k, g, w, e, len, pos, k2, e2, len2, pos2)
    BY <1>1, <1>4, <1>6, <1>7, <1>8, <1>9, <1>11, <1>12 DEF Growing
  <2> QED
    BY <2>1, Positions
<1>14. \A i \in 1..k2 : e2[i] = Extra(text', path', i)
  BY <1>3
<1>15. k2 \in 1..k2 /\ \A i \in 1..k2 : i # 1 => i - 1 \in 1..k2
  BY <1>13
<1>16. /\ pos2 \in [1..k2 -> 1..len2] /\ pos2[1] = 2
       /\ len2 = pos2[k2] + Extra(text', path', k2)
  BY <1>13, <1>14, <1>15 DEF Numbers
<1>17. \A i \in 1..k2 : i # 1 => pos2[i] = pos2[i - 1] + Extra(text', path', i - 1) + 1
  BY <1>13, <1>14, <1>15 DEF Numbers
<1>18. \A i, j \in 1..k2 : i < j => pos2[i] + Extra(text', path', i) < pos2[j]
  BY <1>13, <1>14 DEF Numbers
<1> QED
  BY <1>1, <1>4, <1>5, <1>13, <1>16, <1>17, <1>18 DEF PosOK
\* The frame of a collection that nothing is put in, but a key or an item.
LEMMA FrameStays ==
  ASSUME TextOK, NEW kind, NEW says, NEW N, Starts(kind, says, N), NEW cell, NEW heap2, NEW cell2,
         CellsGrew(N, cell, heap2, cell2), NEW n \in 1..Len(text),
         n # Here.node \/ Role # "value", NEW frame, FrameFits(text, n, frame, cell)
  PROVE  FrameFits(text', n, frame, cell2)
<1>1. text'[n] = text[n]
  BY StartsFacts
<1>2. text[n].kind = "seq" \/ Live(text[n]) => cell2[n] = cell[n]
  BY DEF CellsGrew, Celled, HasCell
<1>3. CASE text[n].kind = "map"
  <2>1. In(text', n, "value") = In(text, n, "value")
    BY SameChildren
  <2>2. \A v \in In(text, n, "value") : KeyText(text', v) = KeyText(text, v)
    BY KeyTextSame
  <2>3. {KeyText(text', v) : v \in In(text', n, "value")} = {KeyText(text, v) : v \in In(text, n, "value")}
    BY <2>1, <2>2
  <2> QED
    BY <1>1, <1>2, <1>3, <2>3 DEF FrameFits
<1>4. CASE text[n].kind # "map"
  BY <1>1, <1>2, <1>4 DEF FrameFits
<1> QED
  BY <1>3, <1>4

LEMMA FrameSees ==
  ASSUME TextOK, NEW kind, NEW says, NEW N, Starts(kind, says, N), NEW cell, NEW heap2, NEW cell2,
         CellsGrew(N, cell, heap2, cell2), NEW n, n = Here.node, Role = "value",
         Live(text[n]), NEW frame \in FrameType, FrameFits(text, n, frame, cell),
         NEW frame2, SeenToo(frame, text[Here.at].says, frame2)
  PROVE  FrameFits(text', n, frame2, cell2)
<1>0. n \in 1..Len(text) /\ Here.at \in 1..Len(text)
  <2>1. path # <<>>
    BY Roles
  <2> QED
    BY <2>1, Roles
<1>1. text'[n] = text[n] /\ Here.at \in 1..Len(text) /\ text[n].kind = "map"
  BY <1>0, StartsFacts DEF Live
<1>2. cell2[n] = cell[n]
  BY <1>0 DEF CellsGrew, Celled, HasCell
<1>3. In(text', n, "value") = In(text, n, "value") \cup {N}
  BY MoreChildren
<1>4. \A v \in In(text, n, "value") : KeyText(text', v) = KeyText(text, v)
  BY KeyTextSame
<1>5. KeyText(text', N) = text[Here.at].says
  <2>1. text'[N].at = Here.at
    BY NewNodeIs DEF Place
  <2> QED
    BY <1>1, <2>1, StartsFacts DEF KeyText
<1>6. {KeyText(text', v) : v \in In(text', n, "value")}
        = {KeyText(text, v) : v \in In(text, n, "value")} \cup {text[Here.at].says}
  BY <1>3, <1>4, <1>5
<1>7. /\ frame2.token = frame.token /\ frame2.value = frame.value
      /\ frame2.seen = frame.seen \cup {text[Here.at].says}
  BY DEF SeenToo, FrameType
<1>8. /\ frame.token = "mapping" /\ frame.value = Ref("object", cell[n])
      /\ frame.seen = {KeyText(text, v) : v \in In(text, n, "value")}
  BY <1>1 DEF FrameFits
<1>9. frame2.token = "mapping" /\ frame2.value = Ref("object", cell2[n])
      /\ frame2.seen = {KeyText(text', v) : v \in In(text', n, "value")}
  BY <1>2, <1>6, <1>7, <1>8
<1> QED
  BY <1>1, <1>9 DEF FrameFits

LEMMA FramesPut ==
  ASSUME TextOK, NEW kind, NEW says, NEW N, Starts(kind, says, N), NEW cell, NEW heap2, NEW cell2,
         CellsGrew(N, cell, heap2, cell2), NEW st \in Seq(FrameType), NEW pos,
         StackOK(text, path, st, pos, cell), NEW st2, StackGrew(kind, N, st, pos, st2, cell2)
  PROVE  FramesOK(text', path', st2, NextPos(pos, st2), cell2)
<1>1. PICK k \in Nat : k = Len(path)
  BY Sorts
<1>2. PICK pos2 : pos2 = NextPos(pos, st2)
  OBVIOUS
<1>3. /\ \A i \in 1..k : pos2[i] = pos[i] /\ path'[i].node = path[i].node
      /\ kind # "leaf" => pos2[k + 1] = Len(st2)
      /\ Len(path') = k + Grown(kind)
  <2>1. Len(path') = k + Grown(kind) /\ \A i \in 1..k : path'[i].node = path[i].node
    BY <1>1, PathLength
  <2>2. \A i \in 1..k : i \in 1..Len(path')
    BY <2>1 DEF Grown
  <2>3. kind # "leaf" => k + 1 \in 1..Len(path')
    BY <2>1 DEF Grown
  <2> QED
    BY <1>1, <1>2, <2>1, <2>2, <2>3 DEF NextPos
<1>4. /\ pos \in [1..k -> 1..Len(st)] /\ Len(st) \in Nat
      /\ \A i, j \in 1..k : i < j => pos[i] + Extra(text, path, i) < pos[j]
      /\ k # 0 => Len(st) = pos[k] + Extra(text, path, k)
  BY <1>1 DEF StackOK, PosOK
<1>5. ASSUME NEW i \in 1..k, i # k
      PROVE  /\ FrameFits(text', path'[i].node, st2[pos2[i]], cell2)
             /\ Pending(text', path', i) => KeyFits(text'[path'[i].at], st2[pos2[i] + 1])
  <2>1. path # <<>> /\ k \in 1..k /\ i < k
    BY <1>1, <1>5
  <2>2. \A j \in 1..(pos[k] - 1) : st2[j] = st[j]
    BY <1>1, <2>1 DEF StackGrew, AboveTop
  <2>3. pos[i] + Extra(text, path, i) < pos[k] /\ pos[i] \in Nat \ {0} /\ pos[k] \in Nat
    BY <1>4, <1>5, <2>1
  <2>4. st2[pos[i]] = st[pos[i]]
    BY <2>2, <2>3, ExtraType
  <2>5. path[i].node \in 1..Len(text) /\ path[i].node # Here.node /\ path'[i] = path[i]
        /\ (Pending(text', path', i) <=> Pending(text, path, i))
        /\ PlaceOK(text, path, i)
    BY <1>1, <1>5, <2>1, PathNodes, PlacesStay DEF Starts
  <2>6. FrameFits(text, path[i].node, st[pos[i]], cell)
        /\ (Pending(text, path, i) => KeyFits(text[path[i].at], st[pos[i] + 1]))
    BY <1>1 DEF StackOK, FramesOK
  <2>7. FrameFits(text', path[i].node, st[pos[i]], cell2)
    BY <2>5, <2>6, FrameStays
  <2>8. Pending(text, path, i) => /\ st2[pos[i] + 1] = st[pos[i] + 1]
                                  /\ text'[path[i].at] = text[path[i].at]
    <3> SUFFICES ASSUME Pending(text, path, i)
                 PROVE  /\ st2[pos[i] + 1] = st[pos[i] + 1]
                        /\ text'[path[i].at] = text[path[i].at]
      OBVIOUS
    <3>1. Extra(text, path, i) = 1
      BY DEF Extra
    <3>2. pos[i] + 1 \in 1..(pos[k] - 1)
      BY <2>3, <3>1
    <3>3. path[i].at \in In(text, path[i].node, "key")
      BY <2>5 DEF PlaceOK
    <3>4. path[i].at \in 1..Len(text)
      BY <3>3 DEF In
    <3> QED
      BY <2>2, <3>2, <3>4, StartsFacts
  <2> QED
    BY <1>3, <2>4, <2>5, <2>6, <2>7, <2>8
<1>6. ASSUME k # 0
      PROVE  /\ FrameFits(text', path'[k].node, st2[pos2[k]], cell2)
             /\ Pending(text', path', k) => KeyFits(text'[path'[k].at], st2[pos2[k] + 1])
  <2>1. path # <<>> /\ k \in 1..k
    BY <1>1, <1>6
  <2>2. Here = path[k] /\ Here.node \in 1..Len(text) /\ Role \in {"item", "key", "value"}
    BY <1>1, <2>1, Roles
  <2>3. AboveTop(kind, N, st, pos[k], st2)
    BY <1>1, <2>1 DEF StackGrew
  <2>4. FrameFits(text, Here.node, st[pos[k]], cell) /\ st[pos[k]] \in FrameType
    <3>1. FrameFits(text, path[k].node, st[pos[k]], cell)
      BY <1>1, <2>1 DEF StackOK, FramesOK
    <3>2. pos[k] \in 1..Len(st)
      BY <1>4, <2>1
    <3> QED
      BY <2>2, <3>1, <3>2
  <2>5. FrameFits(text', Here.node, st2[pos[k]], cell2)
    <3>1. CASE Role = "value"
      <4>1. SeenToo(st[pos[k]], text[Here.at].says, st2[pos[k]]) /\ Live(text[Here.node])
        BY <2>3, <3>1 DEF AboveTop
      <4> QED
        BY <2>4, <3>1, <4>1, FrameSees
    <3>2. CASE Role # "value"
      <4>1. st2[pos[k]] = st[pos[k]]
        BY <2>3, <3>2 DEF AboveTop
      <4> QED
        BY <2>2, <2>4, <3>2, <4>1, FrameStays
    <3> QED
      BY <3>1, <3>2
  <2>6. Pending(text', path', k) => KeyFits(text'[path'[k].at], st2[pos[k] + 1])
    <3> SUFFICES ASSUME Pending(text', path', k)
                 PROVE  KeyFits(text'[path'[k].at], st2[pos[k] + 1])
      OBVIOUS
    <3>1. Extra(text', path', k) = Waits
      BY <1>1, <2>1, ExtraStays
    <3>2. Role = "key"
      BY <3>1 DEF Extra, Waits
    <3>3. path'[k].at = N
      BY <1>1, <2>1, <3>2, PathLength DEF NextAt
    <3> QED
      BY <2>3, <3>2, <3>3 DEF AboveTop
  <2> QED
    BY <1>3, <2>1, <2>2, <2>5, <2>6
<1>7. ASSUME kind # "leaf"
      PROVE  /\ FrameFits(text', path'[k + 1].node, st2[pos2[k + 1]], cell2)
             /\ ~Pending(text', path', k + 1)
  BY <1>1, <1>3, <1>7, ExtraNew DEF StackGrew
<1>8. \A i \in 1..Len(path') : i \in 1..k \/ (i = k + 1 /\ kind # "leaf")
  BY <1>3 DEF Grown
<1>9. ASSUME NEW i \in 1..Len(path')
      PROVE  /\ FrameFits(text', path'[i].node, st2[pos2[i]], cell2)
             /\ Pending(text', path', i) => KeyFits(text'[path'[i].at], st2[pos2[i] + 1])
  <2>1. CASE i \in 1..k /\ i # k
    BY <1>5, <2>1
  <2>2. CASE i = k /\ k # 0
    BY <1>6, <2>2
  <2>3. CASE i = k + 1 /\ kind # "leaf"
    BY <1>7, <2>3
  <2> QED
    BY <1>8, <2>1, <2>2, <2>3
<1> QED
  BY <1>2, <1>9 DEF FramesOK

LEMMA StackPut ==
  ASSUME TextOK, NEW kind, NEW says, NEW N, Starts(kind, says, N), NEW cell, NEW heap2, NEW cell2,
         CellsGrew(N, cell, heap2, cell2), NEW st \in Seq(FrameType), NEW pos,
         StackOK(text, path, st, pos, cell), NEW st2 \in Seq(FrameType),
         StackGrew(kind, N, st, pos, st2, cell2)
  PROVE  \E pos2 \in [1..Len(path') -> 1..Len(st2)] : StackOK(text', path', st2, pos2, cell2)
<1>1. PICK pos2 : pos2 = NextPos(pos, st2)
  OBVIOUS
<1>2. PosOK(text, path, Len(st), pos) /\ Len(st) \in Nat /\ Len(st2) \in Nat
  BY DEF StackOK
<1>3. PosOK(text', path', Len(st2), pos2)
  BY <1>1, <1>2, PosPut
<1>4. FramesOK(text', path', st2, pos2, cell2)
  BY <1>1, FramesPut
<1>5. pos2 \in [1..Len(path') -> 1..Len(st2)]
  BY <1>3 DEF PosOK
<1> QED
  BY <1>3, <1>4, <1>5 DEF StackOK

\* The lists that are open have as many items as nodes.
LEMMA ListsPut ==
  ASSUME TextOK, NEW kind, NEW says, NEW N, Starts(kind, says, N), NEW heap, NEW cell,
         HeapOK(text, heap, cell), NEW heap2, NEW cell2, HeapGrew(N, heap, cell, heap2, cell2),
         ListsOK(text, path, heap, cell)
  PROVE  ListsOK(text', path', heap2, cell2)
<1> SUFFICES ASSUME NEW i \in 1..Len(path'), text'[path'[i].node].kind = "seq"
             PROVE  Len(heap2[cell2[path'[i].node]].items) = path'[i].at
  BY DEF ListsOK
<1>1. PICK k \in Nat : k = Len(path)
  BY Sorts
<1>2. i \in 1..k \/ (i = k + 1 /\ kind # "leaf")
  BY <1>1, PathLength DEF Grown
<1>3. CellsGrew(N, cell, heap2, cell2) /\ OthersSame(heap, cell, heap2) /\ ItemPut(N, heap, cell, heap2, cell2)
  BY DEF HeapGrew
<1>4. CASE i \in 1..k
  <2>1. PICK n \in 1..Len(text) : n = path[i].node /\ path'[i].node = n /\ text'[n] = text[n]
    BY <1>1, <1>4, PathNodes, PathLength, StartsFacts
  <2>2. text[n].kind = "seq" /\ n \in Celled(text) /\ cell2[n] = cell[n]
    BY <1>3, <2>1 DEF Celled, HasCell, CellsGrew
  <2>3. Len(heap[cell[n]].items) = path[i].at
    BY <1>1, <1>4, <2>1, <2>2 DEF ListsOK
  <2>4. CASE i < k
    <3>0. i \in 1..Len(path) /\ i < Len(path) /\ i \in 1..(Len(path) - 1)
      BY <1>1, <1>4, <2>4
    <3>4. n # Here.node
      BY <2>1, <3>0, PathNodes
    <3>1. n # Here.node /\ path'[i] = path[i]
      BY <3>0, <3>4, PathLength
    <3>2. heap2[cell[n]] = heap[cell[n]]
      BY <1>3, <2>2, <3>1 DEF OthersSame
    <3> QED
      BY <2>1, <2>2, <2>3, <3>1, <3>2
  <2>5. CASE i = k
    <3>1. path # <<>> /\ Here = path[i]
      BY <1>1, <1>4, <2>5, PathNodes
    <3>2. Role = "item" /\ n = Here.node /\ Here.at \in Nat
      BY <2>1, <2>2, <3>1, Roles DEF PlaceType
    <3>3. /\ SeqPut(heap[cell[n]], Held(text'[N], cell2[N]), heap2[cell[n]])
          /\ Held(text'[N], cell2[N]) \in Values
      BY <1>3, <3>2 DEF ItemPut
    <3>4. heap[cell[n]].items \in Seq(Values)
      BY <2>2 DEF HeapOK, CellHeld, SeqHeld, ListCell
    <3>5. PICK items \in Seq(Values), value \in Values :
            items = heap[cell[n]].items /\ value = Held(text'[N], cell2[N])
      BY <3>3, <3>4
    <3>6. heap2[cell[n]].items = Append(items, value)
      BY <3>3, <3>5 DEF SeqPut
    <3>7. Len(heap2[cell[n]].items) = Len(items) + 1
      BY <3>5, <3>6, Appends
    <3>8. path'[i].at = Here.at + 1
      BY <1>1, <2>5, <3>1, <3>2, PathLength DEF NextAt
    <3> QED
      BY <2>1, <2>2, <2>3, <3>1, <3>5, <3>7, <3>8
  <2> QED
    BY <1>1, <1>4, <2>4, <2>5
<1>5. CASE i = k + 1 /\ kind # "leaf"
  <2>1. path'[i].node = N /\ path'[i].at = 0
    BY <1>1, <1>5, ExtraNew
  <2>2. text'[N].kind = "seq"
    BY <2>1
  <2>3. heap2[cell2[N]] = NewList
    BY <1>3, <2>2 DEF CellsGrew, FreshCell, HasCell
  <2> QED
    BY <2>1, <2>3 DEF NewList
<1> QED
  BY <1>2, <1>4, <1>5
(* ----------------------- the operations of the builder ------------------- *)

\* A builder that has not raised, by its stack and its heap.
Is(b, st, heap) == b \in [stack : {st}, heap : {heap}, raised : BOOLEAN] /\ ~b.raised

LEMMA BuilderIsOf ==
  ASSUME NEW b, NEW st, NEW heap, Is(b, st, heap)
  PROVE  /\ b.stack = st /\ b.heap = heap /\ Top(b) = Last(st) /\ Newest(b) = Len(heap)
         /\ ~b.raised
BY DEF Top, Newest, Is

LEMMA BuilderAlloc ==
  ASSUME NEW b, NEW st, NEW heap, Is(b, st, heap), NEW it
  PROVE  Is(Alloc(b, it), st, Append(heap, it))
BY DEF Alloc, Is

LEMMA BuilderPush ==
  ASSUME NEW b, NEW st, NEW heap, Is(b, st, heap), NEW frame
  PROVE  Is(Push(b, frame), Append(st, frame), heap)
BY DEF Push, Is

LEMMA BuilderPop ==
  ASSUME NEW b, NEW st, NEW heap, Is(b, st, heap)
  PROVE  Is(Pop(b), Front(st), heap)
BY DEF Pop, Is

LEMMA FailRaises ==
  ASSUME NEW b, NEW st, NEW heap, Is(b, st, heap)
  PROVE  Fail(b).raised = TRUE
BY DEF Fail, Is

LEMMA PushRaised ==
  ASSUME NEW b, NEW frame, b.raised = TRUE
  PROVE  Push(b, frame) = b
BY DEF Push

LEMMA BuilderAppend ==
  ASSUME NEW b, NEW st, NEW heap \in Seq(Cells), Is(b, st, heap),
         NEW at, at = Last(st).value.at, at \in 1..Len(heap),
         heap[at] \in ListCell, NEW value
  PROVE  Is(AppendTo(b, value), st, [heap EXCEPT ![at] = [items |-> Append(heap[at].items, value)]])
<1>1. Top(b) = Last(st)
  BY BuilderIsOf
<1>2. [heap[at] EXCEPT !.items = Append(heap[at].items, value)] = [items |-> Append(heap[at].items, value)]
  <2>1. heap[at] = [items |-> heap[at].items]
    BY DEF ListCell
  <2>2. PICK it, list : it = heap[at] /\ list = heap[at].items
    OBVIOUS
  <2>3. it = [items |-> list]
    BY <2>1, <2>2
  <2>4. PICK list2 : list2 = Append(list, value)
    OBVIOUS
  <2>5. [it EXCEPT !.items = list2] = [items |-> list2]
    BY <2>3
  <2> QED
    BY <2>2, <2>4, <2>5
<1>3. at \in DOMAIN heap
  OBVIOUS
<1>4. [heap EXCEPT ![at].items = Append(@, value)]
        = [heap EXCEPT ![at] = [heap[at] EXCEPT !.items = Append(heap[at].items, value)]]
  BY <1>3
<1>5. Is(AppendTo(b, value), st, [heap EXCEPT ![at].items = Append(@, value)])
  <2>1. PICK heap2 : heap2 = [heap EXCEPT ![at].items = Append(@, value)]
    OBVIOUS
  <2>2. AppendTo(b, value) = [b EXCEPT !.heap[at].items = Append(@, value)]
    BY <1>1 DEF AppendTo
  <2>3. [b EXCEPT !.heap[at].items = Append(@, value)] = [b EXCEPT !.heap = heap2]
    BY <2>1 DEF Is
  <2>4. Is([b EXCEPT !.heap = heap2], st, heap2)
    BY DEF Is
  <2> QED
    BY <2>1, <2>2, <2>3, <2>4
<1> QED
  BY <1>2, <1>4, <1>5

\* Validated.Set after _ObjectMapper.see, for the mapping on top of the stack.
SeenFrame(st, key) ==
  [st EXCEPT ![Len(st)] = [Last(st) EXCEPT !.seen = Last(st).seen \cup {key}]]
PutAttr(heap, at, key, value) ==
  [heap EXCEPT ![at] = [heap[at] EXCEPT !.attrs = [heap[at].attrs EXCEPT ![key] = value]]]

LEMMA BuilderSee ==
  ASSUME NEW b, NEW st \in Seq(FrameType), st # <<>>, NEW heap, Is(b, st, heap), NEW key
  PROVE  /\ key \notin Last(st).seen => Is(See(b, key), SeenFrame(st, key), heap)
         /\ key \in Last(st).seen => See(b, key).raised = TRUE
<1>1. Len(st) \in DOMAIN st /\ Last(st) = st[Len(st)]
  <2>1. Len(st) \in Nat \ {0} /\ Last(st) = st[Len(st)]
    BY Fronts
  <2>2. DOMAIN st = 1..Len(st)
    OBVIOUS
  <2> QED
    BY <2>1, <2>2
<1>2. b.stack = st
  BY BuilderIsOf
<1>3. CASE key \in Last(st).seen
  <2>1. See(b, key) = Fail(b)
    BY <1>1, <1>2, <1>3 DEF See
  <2> QED
    BY <1>3, <2>1, FailRaises
<1>4. CASE key \notin Last(st).seen
  <2>1. See(b, key) = [b EXCEPT !.stack[Len(st)].seen = @ \cup {key}]
    BY <1>1, <1>2, <1>4 DEF See
  <2>2. PICK st2 : st2 = [st EXCEPT ![Len(st)].seen = @ \cup {key}]
    OBVIOUS
  <2>3. st2 = SeenFrame(st, key)
    BY <1>1, <2>2 DEF SeenFrame
  <2>4. [b EXCEPT !.stack[Len(st)].seen = @ \cup {key}] = [b EXCEPT !.stack = st2]
    BY <2>2 DEF Is
  <2>5. Is([b EXCEPT !.stack = st2], st2, heap)
    BY DEF Is
  <2> QED
    BY <1>4, <2>1, <2>3, <2>4, <2>5
<1> QED
  BY <1>3, <1>4

LEMMA BuilderSet ==
  ASSUME NEW b, NEW st, NEW heap \in Seq(Cells), Is(b, st, heap), NEW at \in 1..Len(heap),
         NEW class \in Classes, heap[at] \in ObjectCell(class), NEW key, NEW value,
         NEW valid, valid = Validate(heap, Schema[class][key], value)
  PROVE  /\ valid = Invalid => Set(b, at, key, value).raised = TRUE
         /\ valid # Invalid => Is(Set(b, at, key, value), st, PutAttr(heap, at, key, valid))
<1>1. heap[at].class = class /\ at \in DOMAIN heap
  BY DEF ObjectCell
<1>2. heap[at] = [class |-> class, attrs |-> heap[at].attrs]
  BY DEF ObjectCell
<1>3. PICK heap2 : heap2 = [heap EXCEPT ![at].attrs[key] = valid]
  OBVIOUS
<1>4. heap2 = PutAttr(heap, at, key, valid)
  BY <1>1, <1>2, <1>3 DEF PutAttr
<1>5. b.heap = heap
  BY BuilderIsOf
<1>6. Set(b, at, key, value) = IF valid = Invalid THEN Fail(b) ELSE [b EXCEPT !.heap[at].attrs[key] = valid]
  BY <1>1, <1>5 DEF Set
<1>7. [b EXCEPT !.heap[at].attrs[key] = valid] = [b EXCEPT !.heap = heap2]
  BY <1>3 DEF Is
<1>8. Is([b EXCEPT !.heap = heap2], st, heap2)
  BY DEF Is
<1> QED
  BY <1>4, <1>6, <1>7, <1>8, FailRaises

Mapped(x, valid, name, st, heap, at) ==
  \/ name \in Last(st).seen /\ x.raised = TRUE
  \/ valid = Invalid /\ x.raised = TRUE
  \/ /\ name \notin Last(st).seen /\ valid # Invalid
     /\ Is(x, SeenFrame(st, name), PutAttr(heap, at, name, valid))
LEMMA BuilderMapTo ==
  ASSUME NEW b, NEW st \in Seq(FrameType), st # <<>>, NEW heap \in Seq(Cells), Is(b, st, heap),
         NEW at \in 1..Len(heap), Last(st).value = Ref("object", at),
         NEW class \in Classes, heap[at] \in ObjectCell(class),
         NEW key, NEW name, name = key.text, NEW value,
         NEW valid, valid = Validate(heap, Schema[class][name], value),
         NEW x, x = MapTo(b, key, value)
  PROVE  Mapped(x, valid, name, st, heap, at)
<1>1. PICK seen : seen = See(b, name)
  OBVIOUS
<1>2. Top(b).value.at = at
  BY BuilderIsOf DEF Ref
<1>3. MapTo(b, key, value) = IF seen.raised THEN seen ELSE Set(seen, at, name, value)
  BY <1>1, <1>2 DEF MapTo
<1>4. CASE name \in Last(st).seen
  <2>1. seen.raised = TRUE
    BY <1>1, <1>4, BuilderSee
  <2> QED
    BY <1>3, <1>4, <2>1 DEF Mapped
<1>5. CASE name \notin Last(st).seen
  <2>1. PICK st2 : st2 = SeenFrame(st, name)
    OBVIOUS
  <2>2. Is(seen, st2, heap)
    BY <1>1, <1>5, <2>1, BuilderSee
  <2>3. MapTo(b, key, value) = Set(seen, at, name, value)
    BY <1>3, <2>2, BuilderIsOf
  <2>4. CASE valid = Invalid
    <3>1. Set(seen, at, name, value).raised = TRUE
      BY <2>2, <2>4, BuilderSet
    <3> QED
      BY <2>3, <2>4, <3>1 DEF Mapped
  <2>5. CASE valid # Invalid
    <3>1. Is(Set(seen, at, name, value), st2, PutAttr(heap, at, name, valid))
      BY <2>2, <2>5, BuilderSet
    <3>2. Is(x, SeenFrame(st, name), PutAttr(heap, at, name, valid))
      BY <2>1, <2>3, <3>1
    <3> QED
      BY <1>5, <2>5, <3>2 DEF Mapped
  <2> QED
    BY <2>4, <2>5
<1> QED
  BY <1>4, <1>5

LEMMA BuilderRecord ==
  ASSUME NEW b, BuilderType(b), ~b.raised
  PROVE  /\ Is(b, b.stack, b.heap) /\ b.stack \in Seq(FrameType) /\ b.heap \in Seq(Cells)
         /\ Len(b.stack) \in Nat /\ Len(b.heap) \in Nat
<1>1. b \in [stack : Seq(FrameType), heap : Seq(Cells), raised : BOOLEAN]
  BY DEF BuilderType
<1> QED
  BY <1>1 DEF Is

LEMMA RecordType ==
  ASSUME NEW b, NEW st \in Seq(FrameType), NEW heap \in Seq(Cells), Is(b, st, heap)
  PROVE  BuilderType(b)
BY DEF BuilderType, Is

\* What there is on top of the stack.
LEMMA TopOf ==
  ASSUME TextOK, path # <<>>, NEW st \in Seq(FrameType), NEW pos, NEW cell,
         StackOK(text, path, st, pos, cell), NEW top, top = pos[Len(path)]
  PROVE  /\ top \in 1..Len(st) /\ top \in Nat /\ top >= 2 /\ FrameFits(text, Here.node, st[top], cell)
         /\ Role # "value" => Len(st) = top
         /\ Role = "value" => Len(st) = top + 1 /\ KeyFits(text[Here.at], st[top + 1])
         /\ st # <<>> /\ st[top] \in FrameType
<1>1. PICK k \in Nat \ {0} : k = Len(path)
  BY Roles
<1>2. /\ pos \in [1..k -> 1..Len(st)] /\ Len(st) = pos[k] + Extra(text, path, k) /\ pos[1] = 2
      /\ \A i, j \in 1..k : i < j => pos[i] + Extra(text, path, i) < pos[j]
  BY <1>1 DEF StackOK, PosOK
<1>3. top \in 1..Len(st) /\ top \in Nat /\ st # <<>> /\ st[top] \in FrameType
  BY <1>1, <1>2
<1>4. top >= 2
  <2>1. CASE k = 1
    BY <1>1, <1>2, <2>1
  <2>2. CASE k # 1
    <3>1. pos[1] + Extra(text, path, 1) < pos[k] /\ Extra(text, path, 1) \in {0, 1}
      BY <1>2, <2>2, ExtraType
    <3> QED
      BY <1>1, <1>2, <1>3, <3>1
  <2> QED
    BY <2>1, <2>2
<1>5. Here = path[k] /\ FrameFits(text, Here.node, st[top], cell)
      /\ (Pending(text, path, k) => KeyFits(text[Here.at], st[top + 1]))
  <2>1. Here = path[k]
    BY <1>1, Roles
  <2>2. k \in 1..Len(path)
    BY <1>1
  <2> QED
    BY <1>1, <2>1, <2>2 DEF StackOK, FramesOK
<1>6. Pending(text, path, k) <=> Role = "value"
  BY <1>1, <1>5, Roles DEF Pending
<1> QED
  BY <1>1, <1>2, <1>3, <1>4, <1>5, <1>6 DEF Extra
(* ---------------------- a key, an item and a value ----------------------- *)

LEMMA FrameFields ==
  ASSUME NEW value, NEW makes
  PROVE  /\ Key(value).token = "key" /\ Key(value).value = value
         /\ Mapper(value).token = "mapping" /\ Mapper(value).value = value /\ Mapper(value).seen = {}
         /\ Sequencer(value, makes).token = "sequence" /\ Sequencer(value, makes).value = value
         /\ Sequencer(value, makes).makes = makes
BY DEF Key, Mapper, Sequencer, Frame

LEMMA FrameTypes ==
  ASSUME NEW value \in Values, NEW makes \in Classes \cup {"word", "nothing", "other"}
  PROVE  /\ Key(value) \in FrameType /\ Mapper(value) \in FrameType
         /\ Sequencer(value, makes) \in FrameType
BY DEF Key, Mapper, Sequencer, Frame, FrameType

LEMMA ValueTypes ==
  /\ None \in Values /\ Wrapper \in Values /\ \A t \in Says : Str(t) \in Values
  /\ \A at \in Nat : Ref("object", at) \in Values /\ Ref("list", at) \in Values
  /\ Str("") \in Values
BY DEF Values, Str, Ref, Says

\* The frame of a list.
LEMMA ListFrame ==
  ASSUME NEW at \in Nat, NEW makes \in Classes \cup {"word", "nothing", "other"}
  PROVE  LET frame == Sequencer(Ref("list", at), makes)
         IN /\ frame \in FrameType /\ frame.token = "sequence" /\ frame.value = Ref("list", at)
            /\ frame.makes = makes
<1>1. PICK value \in Values : value = Ref("list", at)
  BY ValueTypes
<1> QED
  BY <1>1, FrameTypes, FrameFields

LEMMA ObjectFrame ==
  ASSUME NEW at \in Nat
  PROVE  LET frame == Mapper(Ref("object", at))
         IN /\ frame \in FrameType /\ frame.token = "mapping" /\ frame.value = Ref("object", at)
            /\ frame.seen = {}
<1>1. PICK value \in Values : value = Ref("object", at)
  BY ValueTypes
<1> QED
  BY <1>1, FrameTypes, FrameFields

Ready(st, heap, pos, cell) ==
  /\ path # <<>> /\ st \in Seq(FrameType) /\ heap \in Seq(Cells) /\ HeapOK(text, heap, cell)
  /\ StackOK(text, path, st, pos, cell) /\ ListsOK(text, path, heap, cell)
PutDone(b2, kind, N, st, heap, pos, cell) ==
  \E heap2 \in Seq(Cells), st2 \in Seq(FrameType) : \E cell2 :
    /\ Is(b2, st2, heap2) /\ HeapGrew(N, heap, cell, heap2, cell2)
    /\ StackGrew(kind, N, st, pos, st2, cell2)

LEMMA ReadyTop ==
  ASSUME TextOK, NEW st, NEW heap, NEW pos, NEW cell, Ready(st, heap, pos, cell),
         NEW top, top = pos[Len(path)]
  PROVE  /\ path # <<>> /\ st \in Seq(FrameType) /\ heap \in Seq(Cells) /\ Len(heap) \in Nat
         /\ top \in Nat /\ top >= 2 /\ top \in 1..Len(st) /\ FrameFits(text, Here.node, st[top], cell)
         /\ Role # "value" => Len(st) = top /\ Last(st) = st[top]
         /\ Role = "value" => Len(st) = top + 1 /\ KeyFits(text[Here.at], Last(st))
         /\ st # <<>> /\ st[top] \in FrameType
<1>1. path # <<>> /\ st \in Seq(FrameType) /\ heap \in Seq(Cells) /\ Len(heap) \in Nat
  BY DEF Ready
<1>2. StackOK(text, path, st, pos, cell)
  BY DEF Ready
<1>3. /\ top \in 1..Len(st) /\ top \in Nat /\ top >= 2 /\ FrameFits(text, Here.node, st[top], cell)
      /\ (Role # "value" => Len(st) = top)
      /\ (Role = "value" => Len(st) = top + 1 /\ KeyFits(text[Here.at], st[top + 1]))
      /\ st # <<>> /\ st[top] \in FrameType
  BY <1>1, <1>2, TopOf
<1>4. Last(st) = st[Len(st)]
  BY <1>1, <1>3, Fronts
<1> QED
  BY <1>1, <1>3, <1>4

\* The cells stay, or there is one more.
LEMMA CellsKept ==
  ASSUME TextOK, NEW kind, NEW says, NEW N, Starts(kind, says, N), NEW heap, NEW cell,
         CellsOK(text, heap, cell), ~HasCell(text'[N]), NEW heap2, Len(heap2) = Len(heap)
  PROVE  CellsGrew(N, cell, heap2, cell)
<1>1. Celled(text') = Celled(text)
  BY CelledGrows
<1>2. cell \in [Celled(text') -> 1..Len(heap2)]
  BY <1>1 DEF CellsOK
<1> QED
  BY <1>2 DEF CellsGrew

LEMMA CellsNew ==
  ASSUME TextOK, NEW kind, NEW says, NEW N, Starts(kind, says, N), NEW heap \in Seq(Cells), NEW cell,
         CellsOK(text, heap, cell), HasCell(text'[N]), NEW heap2, NEW new, new = Len(heap) + 1,
         Len(heap2) = new, FreshCell(text'[N], heap2[new])
  PROVE  \E cell2 : CellsGrew(N, cell, heap2, cell2) /\ cell2[N] = new
<1> DEFINE c2 == [n \in Celled(text') |-> IF n = N THEN new ELSE cell[n]]
<1>1. Len(heap) \in Nat /\ new \in Nat /\ new \in 1..Len(heap2)
  OBVIOUS
<1>2. \A n \in Celled(text) : cell[n] \in 1..Len(heap) /\ cell[n] # new /\ n # N
  BY <1>1, CelledGrows DEF CellsOK
<1>3. \A n \in Celled(text') : n = N \/ n \in Celled(text)
  BY CelledGrows
<1>4. N \in Celled(text') /\ \A n \in Celled(text) : n \in Celled(text')
  BY CelledGrows
<1>5. c2[N] = new /\ \A n \in Celled(text) : c2[n] = cell[n]
  BY <1>2, <1>4
<1>6. \A n \in Celled(text') : c2[n] \in 1..Len(heap2)
  BY <1>1, <1>2, <1>3, <1>5
<1>7. c2 \in [Celled(text') -> 1..Len(heap2)]
  BY <1>6
<1>8. CellsGrew(N, cell, heap2, c2)
  <2> HIDE DEF c2
  <2> QED
    BY <1>2, <1>5, <1>7 DEF CellsGrew
<1> QED
  BY <1>5, <1>8

LEMMA HeldLeaf ==
  ASSUME NEW node, node.kind = "leaf", NEW at
  PROVE  Held(node, at) = IF node.says = "null" THEN None ELSE Str(node.says)
BY DEF Held

\* A frame is pushed on the innermost collection or on its key.
LEMMA Pushed ==
  ASSUME NEW st \in Seq(FrameType), NEW frame \in FrameType, NEW len \in Nat, len = Len(st)
  PROVE  /\ Append(st, frame) \in Seq(FrameType) /\ Len(Append(st, frame)) = len + 1
         /\ Append(st, frame)[len + 1] = frame
         /\ \A i \in 1..len : Append(st, frame)[i] = st[i]
         /\ Append(st, frame) # <<>> /\ Last(Append(st, frame)) = frame
<1>1. PICK s : s = Append(st, frame)
  OBVIOUS
<1>2. s \in Seq(FrameType) /\ Len(s) = len + 1 /\ s[len + 1] = frame /\ \A i \in 1..len : s[i] = st[i]
  BY <1>1, Appends
<1>3. s # <<>>
  BY <1>2
<1>4. Last(s) = frame
  BY <1>2 DEF Last
<1> QED
  BY <1>1, <1>2, <1>3, <1>4

LEMMA KeyPut ==
  ASSUME TextOK, NEW kind \in Kinds, NEW says \in Says, NEW N, Starts(kind, says, N), Role = "key",
         NEW st, NEW heap, NEW pos, NEW cell, Ready(st, heap, pos, cell), NEW b, Is(b, st, heap)
  PROVE  PutDone(Handle(b, StartOf(kind), says), kind, N, st, heap, pos, cell)
<1>1. PICK top : top = pos[Len(path)]
  OBVIOUS
<1>2. /\ path # <<>> /\ st \in Seq(FrameType) /\ heap \in Seq(Cells) /\ Len(heap) \in Nat
      /\ top \in Nat /\ top >= 2 /\ Len(st) = top /\ Last(st) = st[top] /\ st # <<>>
      /\ FrameFits(text, Here.node, st[top], cell)
  BY <1>1, ReadyTop
<1>3. Top(b) = Last(st) /\ Last(st).token = "mapping"
  <2>1. text[Here.node].kind = "map"
    BY <1>2, Roles
  <2> QED
    BY <1>2, <2>1, BuilderIsOf DEF FrameFits
<1>4. HeapOK(text, heap, cell) /\ CellsOK(text, heap, cell)
  BY DEF Ready, HeapOK
<1>5. text'[N].kind = kind /\ text'[N].says = says /\ text'[N].as = "key" /\ text'[N].rule = NoRule
  BY NewNodeIs DEF RuleHere
<1>6. NoRule.type = "none"
  BY DEF NoRule
<1>7. CASE kind = "leaf"
  <2>1. PICK frame : frame = Key(Str(says))
    OBVIOUS
  <2>2. frame \in FrameType /\ frame.token = "key" /\ frame.value = Str(says)
    BY <2>1, FrameTypes, FrameFields, ValueTypes
  <2>3. Handle(b, StartOf(kind), says) = Push(b, frame)
    BY <1>3, <1>7, <2>1 DEF Handle, StartOf, Scalar
  <2>4. PICK st2 : st2 = Append(st, frame)
    OBVIOUS
  <2>5. Is(Handle(b, StartOf(kind), says), st2, heap)
    BY <2>3, <2>4, BuilderPush
  <2>6. /\ st2 \in Seq(FrameType) /\ Len(st2) = top + 1 /\ st2[top + 1] = frame
        /\ \A i \in 1..top : st2[i] = st[i]
    BY <1>2, <2>2, <2>4, Pushed
  <2>7. CellsGrew(N, cell, heap, cell)
    BY <1>4, <1>5, <1>7, CellsKept DEF HasCell, Live
  <2>8. HeapGrew(N, heap, cell, heap, cell)
    BY <2>7 DEF HeapGrew, OthersSame, ValuePut, ItemPut
  <2>9. KeyFits(text'[N], st2[top + 1])
    BY <1>5, <1>7, <2>2, <2>6 DEF KeyFits
  <2>10. AboveTop(kind, N, st, top, st2)
    BY <1>2, <1>7, <2>6, <2>9 DEF AboveTop, Waits, Grown
  <2>11. StackGrew(kind, N, st, pos, st2, cell)
    BY <1>1, <1>2, <1>7, <2>10 DEF StackGrew
  <2> QED
    BY <1>2, <2>5, <2>6, <2>8, <2>11 DEF PutDone
<1>8. CASE kind = "map"
  <2>1. PICK frame, frame2 : frame = Key(Wrapper) /\ frame2 = Mapper(None)
    OBVIOUS
  <2>2. /\ frame \in FrameType /\ frame.token = "key" /\ frame.value = Wrapper
        /\ frame2 \in FrameType /\ frame2.token = "mapping" /\ frame2.value = None
    BY <2>1, FrameTypes, FrameFields, ValueTypes
  <2>3. Handle(b, StartOf(kind), says) = Push(Push(b, frame), frame2)
    BY <1>3, <1>8, <2>1 DEF Handle, StartOf, MappingStart
  <2>4. PICK st1 : st1 = Append(st, frame)
    OBVIOUS
  <2>5. PICK st2 : st2 = Append(st1, frame2)
    OBVIOUS
  <2>6. Is(Handle(b, StartOf(kind), says), st2, heap)
    BY <2>3, <2>4, <2>5, BuilderPush
  <2>7. /\ st1 \in Seq(FrameType) /\ Len(st1) = top + 1 /\ st1[top + 1] = frame
        /\ \A i \in 1..top : st1[i] = st[i]
    BY <1>2, <2>2, <2>4, Pushed
  <2>8. /\ st2 \in Seq(FrameType) /\ Len(st2) = (top + 1) + 1 /\ st2[(top + 1) + 1] = frame2
        /\ \A i \in 1..(top + 1) : st2[i] = st1[i]
    BY <1>2, <2>2, <2>5, <2>7, Pushed
  <2>9. CellsGrew(N, cell, heap, cell)
    BY <1>4, <1>5, <1>6, <1>8, CellsKept DEF HasCell, Live
  <2>10. HeapGrew(N, heap, cell, heap, cell)
    BY <2>9 DEF HeapGrew, OthersSame, ValuePut, ItemPut
  <2>11. KeyFits(text'[N], st2[top + 1])
    BY <1>2, <1>5, <1>8, <2>2, <2>7, <2>8 DEF KeyFits
  <2>12. AboveTop(kind, N, st, top, st2)
    BY <1>2, <1>8, <2>7, <2>8, <2>11 DEF AboveTop, Waits, Grown
  <2>13. FrameFits(text', N, st2[Len(st2)], cell)
    BY <1>5, <1>6, <1>8, <2>2, <2>8 DEF FrameFits, Live, None
  <2>14. StackGrew(kind, N, st, pos, st2, cell)
    BY <1>1, <1>2, <2>12, <2>13 DEF StackGrew
  <2> QED
    BY <1>2, <2>6, <2>8, <2>10, <2>14 DEF PutDone
<1>9. CASE kind = "seq"
  <2>0. PICK new : new = Len(heap) + 1
    OBVIOUS
  <2>1. PICK frame, frame2 : frame = Key(Wrapper) /\ frame2 = Sequencer(Ref("list", new), "nothing")
    OBVIOUS
  <2>2. /\ frame \in FrameType /\ frame.token = "key" /\ frame.value = Wrapper
        /\ frame2 \in FrameType /\ frame2.token = "sequence" /\ frame2.value = Ref("list", new)
        /\ frame2.makes = "nothing"
    <3>0. new \in Nat
      BY <1>2, <2>0
    <3>5. Wrapper \in Values
      BY ValueTypes
    <3>1. new \in Nat /\ Wrapper \in Values
      BY <3>0, <3>5
    <3>2. /\ frame2 \in FrameType /\ frame2.token = "sequence" /\ frame2.value = Ref("list", new)
          /\ frame2.makes = "nothing"
      BY <2>1, <3>1, ListFrame
    <3>3. frame \in FrameType /\ frame.token = "key" /\ frame.value = Wrapper
      BY <2>1, <3>1, FrameTypes, FrameFields
    <3> QED
      BY <3>2, <3>3
  <2>3. PICK made : made = Alloc(b, NewList)
    OBVIOUS
  <2>4. PICK heap2 : heap2 = Append(heap, NewList)
    OBVIOUS
  <2>5. NewList \in Cells
    BY DEF NewList, Cells, ListCell
  <2>6. /\ heap2 \in Seq(Cells) /\ Len(heap2) = new /\ heap2[new] = NewList
        /\ \A i \in 1..Len(heap) : heap2[i] = heap[i]
    BY <1>2, <2>0, <2>4, <2>5, Appends
  <2>7. Is(made, st, heap2)
    BY <2>3, <2>4, BuilderAlloc
  <2>8. Newest(made) = new
    BY <2>6, <2>7, BuilderIsOf
  <2>9. Handle(b, StartOf(kind), says) = Push(Push(made, frame), frame2)
    BY <1>3, <1>9, <2>1, <2>3, <2>8 DEF Handle, StartOf, SequenceStart
  <2>10. PICK st1 : st1 = Append(st, frame)
    OBVIOUS
  <2>11. PICK st2 : st2 = Append(st1, frame2)
    OBVIOUS
  <2>12. Is(Handle(b, StartOf(kind), says), st2, heap2)
    BY <2>7, <2>9, <2>10, <2>11, BuilderPush
  <2>13. /\ st1 \in Seq(FrameType) /\ Len(st1) = top + 1 /\ st1[top + 1] = frame
         /\ \A i \in 1..top : st1[i] = st[i]
    BY <1>2, <2>2, <2>10, Pushed
  <2>14. /\ st2 \in Seq(FrameType) /\ Len(st2) = (top + 1) + 1 /\ st2[(top + 1) + 1] = frame2
         /\ \A i \in 1..(top + 1) : st2[i] = st1[i]
    BY <1>2, <2>2, <2>11, <2>13, Pushed
  <2>15. HasCell(text'[N]) /\ FreshCell(text'[N], heap2[new])
    BY <1>5, <1>9, <2>6 DEF HasCell, FreshCell
  <2>16. PICK cell2 : CellsGrew(N, cell, heap2, cell2) /\ cell2[N] = new
    BY <1>2, <1>4, <2>0, <2>6, <2>15, CellsNew
  <2>17. OthersSame(heap, cell, heap2)
    BY <1>4, <2>6 DEF OthersSame, CellsOK
  <2>18. HeapGrew(N, heap, cell, heap2, cell2)
    BY <2>16, <2>17 DEF HeapGrew, ValuePut, ItemPut
  <2>19. KeyFits(text'[N], st2[top + 1])
    BY <1>2, <1>5, <1>9, <2>2, <2>13, <2>14 DEF KeyFits
  <2>20. AboveTop(kind, N, st, top, st2)
    BY <1>2, <1>9, <2>13, <2>14, <2>19 DEF AboveTop, Waits, Grown
  <2>21. FrameFits(text', N, st2[Len(st2)], cell2)
    BY <1>5, <1>6, <1>9, <2>2, <2>14, <2>16 DEF FrameFits
  <2>22. StackGrew(kind, N, st, pos, st2, cell2)
    BY <1>1, <1>2, <2>20, <2>21 DEF StackGrew
  <2> QED
    BY <2>6, <2>12, <2>14, <2>18, <2>22 DEF PutDone
<1> QED
  BY <1>7, <1>8, <1>9 DEF Kinds
\* A value is appended to a list.
AppendItem(heap, at, value) ==
  [heap EXCEPT ![at] = [items |-> Append(heap[at].items, value)]]

LEMMA ItemAppended ==
  ASSUME NEW heap \in Seq(Cells), NEW at \in 1..Len(heap), heap[at] \in ListCell,
         NEW value \in Values, NEW heap2, heap2 = AppendItem(heap, at, value)
  PROVE  /\ heap2 \in Seq(Cells) /\ Len(heap2) = Len(heap)
         /\ SeqPut(heap[at], value, heap2[at])
         /\ \A i \in 1..Len(heap) : i # at => heap2[i] = heap[i]
<1>1. PICK items \in Seq(Values) : heap[at].items = items
  BY DEF ListCell
<1>2. PICK new : new = [items |-> Append(items, value)]
  OBVIOUS
<1>3. new \in Cells
  <2>1. Append(items, value) \in Seq(Values)
    OBVIOUS
  <2> QED
    BY <1>2, <2>1 DEF Cells, ListCell
<1>4. heap2 = [heap EXCEPT ![at] = new]
  BY <1>1, <1>2 DEF AppendItem
<1>5. heap2[at] = new
  BY <1>4
<1> QED
  BY <1>1, <1>2, <1>3, <1>4, <1>5 DEF SeqPut

\* The list that an item goes into.
LEMMA ItemReady ==
  ASSUME TextOK, Role = "item", NEW st, NEW heap, NEW pos, NEW cell, Ready(st, heap, pos, cell),
         NEW m, m = Here.node, NEW at, at = cell[m]
  PROVE  /\ m \in Celled(text) /\ at \in 1..Len(heap) /\ heap[at] \in ListCell
         /\ Len(heap[at].items) = Here.at /\ heap \in Seq(Cells) /\ CellsOK(text, heap, cell)
         /\ Last(st).token = "sequence" /\ Last(st).value = Ref("list", at)
         /\ Last(st).makes = IF Above.rule.type = "repeated" THEN Above.rule.of ELSE "nothing"
<1>1. PICK top : top = pos[Len(path)]
  OBVIOUS
<1>2. /\ path # <<>> /\ FrameFits(text, m, st[top], cell) /\ Last(st) = st[top]
      /\ heap \in Seq(Cells)
  BY <1>1, ReadyTop
<1>3. HeapOK(text, heap, cell) /\ ListsOK(text, path, heap, cell)
  BY DEF Ready
<1>4. CellsOK(text, heap, cell) /\ \A n \in Celled(text) : CellHeld(text, n, heap[cell[n]], cell)
  BY <1>3 DEF HeapOK
<1>5. text[m].kind = "seq" /\ m \in 1..Len(text) /\ Above = text[m]
  BY <1>2, Roles
<1>6. m \in Celled(text)
  BY <1>5 DEF Celled, HasCell
<1>7. at \in 1..Len(heap) /\ heap[at] \in ListCell
  <2>1. CellHeld(text, m, heap[at], cell) /\ cell \in [Celled(text) -> 1..Len(heap)]
    BY <1>4, <1>6 DEF CellsOK
  <2> QED
    BY <1>5, <1>6, <2>1 DEF CellHeld, SeqHeld
<1>8. Len(heap[at].items) = Here.at
  <2>1. Len(path) \in 1..Len(path) /\ Here = path[Len(path)]
    BY <1>2, TopPlace, Roles
  <2> QED
    BY <1>3, <1>5, <2>1 DEF ListsOK
<1>9. /\ Last(st).token = "sequence" /\ Last(st).value = Ref("list", at)
      /\ Last(st).makes = IF Above.rule.type = "repeated" THEN Above.rule.of ELSE "nothing"
  BY <1>2, <1>5 DEF FrameFits
<1> QED
  BY <1>2, <1>4, <1>6, <1>7, <1>8, <1>9

\* The new cells there may be before the list is changed.
Longer(heap, heap1) ==
  /\ heap1 \in Seq(Cells) /\ Len(heap1) >= Len(heap)
  /\ \A i \in 1..Len(heap) : heap1[i] = heap[i]
LEMMA ItemHeap ==
  ASSUME TextOK, NEW kind, NEW says, NEW N, Starts(kind, says, N), Role = "item",
         NEW st, NEW heap, NEW pos, NEW cell, Ready(st, heap, pos, cell),
         NEW at, at = cell[Here.node], NEW heap1, Longer(heap, heap1), NEW value \in Values,
         NEW heap2, heap2 = AppendItem(heap1, at, value),
         NEW cell2, CellsGrew(N, cell, heap2, cell2), value = Held(text'[N], cell2[N]),
         text'[N].kind = "map" => Live(text'[N])
  PROVE  HeapGrew(N, heap, cell, heap2, cell2)
<1>1. PICK m : m = Here.node
  OBVIOUS
<1>2. /\ m \in Celled(text) /\ at \in 1..Len(heap) /\ heap[at] \in ListCell
      /\ Len(heap[at].items) = Here.at /\ heap \in Seq(Cells) /\ CellsOK(text, heap, cell)
  BY <1>1, ItemReady
<1>3. /\ heap1 \in Seq(Cells) /\ at \in 1..Len(heap1) /\ heap1[at] = heap[at]
      /\ Len(heap) \in Nat /\ Len(heap1) \in Nat /\ 1..Len(heap) \subseteq 1..Len(heap1)
  BY <1>2 DEF Longer
<1>4. SeqPut(heap1[at], value, heap2[at]) /\ \A i \in 1..Len(heap1) : i # at => heap2[i] = heap1[i]
  BY <1>2, <1>3, ItemAppended
<1>5. \A n \in Celled(text) : n # m => heap2[cell[n]] = heap[cell[n]]
  BY <1>1, <1>2, <1>3, <1>4 DEF CellsOK, Longer
<1>6. OthersSame(heap, cell, heap2)
  BY <1>1, <1>5 DEF OthersSame
<1>7. SeqPut(heap[cell[m]], Held(text'[N], cell2[N]), heap2[cell[m]])
  BY <1>1, <1>3, <1>4
<1>8. ItemPut(N, heap, cell, heap2, cell2)
  BY <1>1, <1>2, <1>7 DEF ItemPut
<1> QED
  BY <1>6, <1>8 DEF HeapGrew, ValuePut

\* What is pushed above the innermost collection: nothing or one frame.
LEMMA ItemStack ==
  ASSUME TextOK, NEW kind \in Kinds, NEW says, NEW N, Starts(kind, says, N), Role = "item",
         NEW st, NEW heap, NEW pos, NEW cell, Ready(st, heap, pos, cell), NEW st2, NEW cell2,
         kind = "leaf" => st2 = st,
         kind # "leaf" => \E frame \in FrameType : /\ st2 = Append(st, frame)
                                                   /\ FrameFits(text', N, frame, cell2)
  PROVE  st2 \in Seq(FrameType) /\ StackGrew(kind, N, st, pos, st2, cell2)
<1>1. PICK top : top = pos[Len(path)]
  OBVIOUS
<1>2. /\ path # <<>> /\ st \in Seq(FrameType) /\ top \in Nat /\ Len(st) = top /\ top >= 2
  BY <1>1, ReadyTop
<1>3. CASE kind = "leaf"
  <2>1. AboveTop(kind, N, st, top, st2)
    BY <1>2, <1>3 DEF AboveTop, Waits, Grown
  <2> QED
    BY <1>1, <1>2, <1>3, <2>1 DEF StackGrew
<1>4. CASE kind # "leaf"
  <2>1. PICK frame \in FrameType : st2 = Append(st, frame) /\ FrameFits(text', N, frame, cell2)
    BY <1>4
  <2>2. /\ st2 \in Seq(FrameType) /\ Len(st2) = top + 1 /\ st2[top + 1] = frame
        /\ \A i \in 1..top : st2[i] = st[i]
    BY <1>2, <2>1, Pushed
  <2>3. AboveTop(kind, N, st, top, st2)
    BY <1>2, <1>4, <2>2 DEF AboveTop, Waits, Grown
  <2>4. FrameFits(text', N, st2[Len(st2)], cell2)
    BY <2>1, <2>2
  <2> QED
    BY <1>1, <1>2, <2>2, <2>3, <2>4 DEF StackGrew
<1> QED
  BY <1>3, <1>4

LEMMA HereNode ==
  ASSUME TextOK, path # <<>>
  PROVE  Above = text[Here.node] /\ Here.node \in 1..Len(text) /\ Above \in NodeType
         /\ Above.rule \in RuleTypes
<1>1. Above = text[Here.node] /\ Here.node \in 1..Len(text) /\ Above \in NodeType
  BY Roles
<1> QED
  BY <1>1 DEF NodeType, RuleTypes

\* The rule of an item.
LEMMA ItemRuleIs ==
  ASSUME TextOK, NEW kind, NEW says, NEW N, Starts(kind, says, N), Role = "item"
  PROVE  /\ text'[N].rule = ItemRule(Above) /\ text'[N].as = "item"
         /\ Above.rule.type = "repeated" /\ Above.rule.of \in Classes =>
              text'[N].rule.type = "object" /\ text'[N].rule.of = Above.rule.of
         /\ ~(Above.rule.type = "repeated" /\ Above.rule.of \in Classes) =>
              text'[N].rule.type \notin {"object", "repeated"}
         /\ text'[N].rule.type # "repeated"
<1>1. path # <<>>
  BY Roles
<1>2. Above.rule \in RuleTypes
  BY <1>1, HereNode
<1>3. text'[N].rule = ItemRule(Above) /\ text'[N].as = "item"
  BY NewNodeIs DEF RuleHere, ItemRule
<1>4. CASE Above.rule.type = "repeated"
  <2>1. ItemRule(Above) = Item(Above.rule)
    BY <1>4 DEF ItemRule
  <2>2. Above.rule.of \in Classes => Above.rule.of # "word"
    BY SchemaAssumption
  <2> QED
    BY <1>2, <1>3, <1>4, <2>1, <2>2, ItemTypes
<1>5. CASE Above.rule.type # "repeated"
  <2>1. text'[N].rule.type = "none"
    <3>1. text'[N].rule = NoRule
      BY <1>3, <1>5 DEF ItemRule
    <3>2. NoRule.type = "none"
      BY DEF NoRule
    <3> QED
      BY <3>1, <3>2
  <2> QED
    BY <1>3, <1>5, <2>1
<1> QED
  BY <1>4, <1>5
Refused(b2) == b2.raised = TRUE /\ Wrong(text', path')

LEMMA ItemLeafPut ==
  ASSUME TextOK, NEW kind, kind = "leaf", NEW says \in Says, NEW N, Starts(kind, says, N),
         Role = "item", NEW st, NEW heap, NEW pos, NEW cell, Ready(st, heap, pos, cell),
         NEW b, Is(b, st, heap)
  PROVE  PutDone(Handle(b, StartOf(kind), says), kind, N, st, heap, pos, cell)
<1>1. PICK m : m = Here.node
  OBVIOUS
<1>2. PICK at : at = cell[m]
  OBVIOUS
<1>3. /\ m \in Celled(text) /\ at \in 1..Len(heap) /\ heap[at] \in ListCell
      /\ heap \in Seq(Cells) /\ CellsOK(text, heap, cell)
      /\ Last(st).token = "sequence" /\ Last(st).value = Ref("list", at)
  BY <1>1, <1>2, ItemReady
<1>4. PICK value \in Values : value = IF says = "null" THEN None ELSE Str(says)
  BY ValueTypes
<1>5. /\ Top(b) = Last(st) /\ Last(st).value.at = at
  BY <1>3, BuilderIsOf DEF Ref
<1>6. Handle(b, StartOf(kind), says) = AppendTo(b, value)
  BY <1>3, <1>4, <1>5 DEF Handle, StartOf, Scalar
<1>7. PICK heap2 : heap2 = AppendItem(heap, at, value)
  OBVIOUS
<1>8. heap2 \in Seq(Cells) /\ Len(heap2) = Len(heap)
  BY <1>3, <1>7, ItemAppended
<1>9. Is(Handle(b, StartOf(kind), says), st, heap2)
  <2>1. at = Last(st).value.at /\ Is(b, st, heap)
    BY <1>5
  <2>2. Is(AppendTo(b, value), st,
           [heap EXCEPT ![at] = [items |-> Append(heap[at].items, value)]])
    BY <1>3, <2>1, BuilderAppend
  <2>3. heap2 = [heap EXCEPT ![at] = [items |-> Append(heap[at].items, value)]]
    BY <1>7 DEF AppendItem
  <2> QED
    BY <1>6, <2>2, <2>3
<1>10. text'[N].kind = "leaf" /\ text'[N].says = says
  BY NewNodeIs
<1>11. CellsGrew(N, cell, heap2, cell)
  BY <1>3, <1>8, <1>10, CellsKept DEF HasCell, Live
<1>12. Longer(heap, heap)
  BY <1>3 DEF Longer
<1>13. value = Held(text'[N], cell[N])
  BY <1>4, <1>10, HeldLeaf
<1>14. HeapGrew(N, heap, cell, heap2, cell)
  BY <1>1, <1>2, <1>7, <1>10, <1>11, <1>12, <1>13, ItemHeap
<1>15. st \in Seq(FrameType) /\ StackGrew(kind, N, st, pos, st, cell)
  BY ItemStack DEF Kinds
<1> QED
  BY <1>8, <1>9, <1>14, <1>15 DEF PutDone

LEMMA ItemSeqPut ==
  ASSUME TextOK, NEW kind, kind = "seq", NEW says \in Says, NEW N, Starts(kind, says, N),
         Role = "item", NEW st, NEW heap, NEW pos, NEW cell, Ready(st, heap, pos, cell),
         NEW b, Is(b, st, heap)
  PROVE  PutDone(Handle(b, StartOf(kind), says), kind, N, st, heap, pos, cell)
<1>1. PICK m : m = Here.node
  OBVIOUS
<1>2. PICK at : at = cell[m]
  OBVIOUS
<1>3. /\ m \in Celled(text) /\ at \in 1..Len(heap) /\ heap[at] \in ListCell
      /\ heap \in Seq(Cells) /\ CellsOK(text, heap, cell) /\ Len(heap) \in Nat
      /\ Last(st).token = "sequence" /\ Last(st).value = Ref("list", at)
  BY <1>1, <1>2, ItemReady
<1>4. /\ Top(b) = Last(st) /\ Last(st).value.at = at
  BY <1>3, BuilderIsOf DEF Ref
<1>5. PICK new \in Nat : new = Len(heap) + 1
  BY <1>3
<1>6. PICK frame : frame = Sequencer(Ref("list", new), "nothing")
  OBVIOUS
<1>7. /\ frame \in FrameType /\ frame.token = "sequence" /\ frame.value = Ref("list", new)
      /\ frame.makes = "nothing"
  BY <1>6, ListFrame
<1>8. PICK made : made = Alloc(b, NewList)
  OBVIOUS
<1>9. PICK heap1 : heap1 = Append(heap, NewList)
  OBVIOUS
<1>10. NewList \in Cells
  BY DEF NewList, Cells, ListCell
<1>11. /\ heap1 \in Seq(Cells) /\ Len(heap1) = new /\ heap1[new] = NewList
       /\ \A i \in 1..Len(heap) : heap1[i] = heap[i]
  BY <1>3, <1>5, <1>9, <1>10, Appends
<1>12. Is(made, st, heap1)
  BY <1>8, <1>9, BuilderAlloc
<1>13. Newest(made) = new /\ Top(made) = Last(st)
  BY <1>11, <1>12, BuilderIsOf
<1>14. Handle(b, StartOf(kind), says) = Push(AppendTo(made, Wrapper), frame)
  BY <1>3, <1>4, <1>6, <1>8, <1>13 DEF Handle, StartOf, SequenceStart
<1>15. PICK heap2 : heap2 = AppendItem(heap1, at, Wrapper)
  OBVIOUS
<1>16. at \in 1..Len(heap1) /\ heap1[at] \in ListCell /\ at # new /\ new \in 1..Len(heap1)
  BY <1>3, <1>5, <1>11
<1>17. Is(AppendTo(made, Wrapper), st, heap2)
  BY <1>4, <1>11, <1>12, <1>15, <1>16, BuilderAppend DEF AppendItem
<1>18. PICK st2 : st2 = Append(st, frame)
  OBVIOUS
<1>19. Is(Handle(b, StartOf(kind), says), st2, heap2)
  BY <1>14, <1>17, <1>18, BuilderPush
<1>20. heap2 \in Seq(Cells) /\ Len(heap2) = new /\ heap2[new] = NewList
  <2>1. Wrapper \in Values
    BY ValueTypes
  <2>2. /\ heap2 \in Seq(Cells) /\ Len(heap2) = Len(heap1)
        /\ \A i \in 1..Len(heap1) : i # at => heap2[i] = heap1[i]
    BY <1>11, <1>15, <1>16, <2>1, ItemAppended
  <2> QED
    BY <1>11, <1>16, <2>2
<1>21. text'[N].kind = "seq" /\ text'[N].as = "item" /\ text'[N].rule.type # "repeated"
  BY NewNodeIs, ItemRuleIs
<1>22. HasCell(text'[N]) /\ FreshCell(text'[N], heap2[new])
  BY <1>20, <1>21 DEF HasCell, FreshCell
<1>23. PICK cell2 : CellsGrew(N, cell, heap2, cell2) /\ cell2[N] = new
  BY <1>3, <1>5, <1>20, <1>22, CellsNew
<1>24. Longer(heap, heap1)
  BY <1>3, <1>5, <1>11 DEF Longer
<1>25. Held(text'[N], cell2[N]) = Wrapper
  BY <1>21 DEF Held
<1>26. HeapGrew(N, heap, cell, heap2, cell2)
  BY <1>1, <1>2, <1>15, <1>21, <1>23, <1>24, <1>25, ItemHeap, ValueTypes
<1>27. FrameFits(text', N, frame, cell2)
  BY <1>7, <1>21, <1>23 DEF FrameFits
<1>28. st2 \in Seq(FrameType) /\ StackGrew(kind, N, st, pos, st2, cell2)
  BY <1>7, <1>18, <1>27, ItemStack DEF Kinds
<1> QED
  BY <1>19, <1>20, <1>26, <1>28 DEF PutDone

LEMMA NewObjectCell ==
  ASSUME NEW class \in Classes
  PROVE  NewObject(class) \in ObjectCell(class) /\ NewObject(class) \in Cells
         /\ NewObject(class).class = class
<1>1. None \in Values
  BY ValueTypes
<1>2. NewObject(class) \in ObjectCell(class)
  BY <1>1 DEF NewObject, ObjectCell
<1> QED
  BY <1>2 DEF Cells, NewObject

LEMMA ItemMapPut ==
  ASSUME TextOK, NEW kind, kind = "map", NEW says \in Says, NEW N, Starts(kind, says, N),
         Role = "item", NEW st, NEW heap, NEW pos, NEW cell, Ready(st, heap, pos, cell),
         NEW b, Is(b, st, heap)
  PROVE  \/ PutDone(Handle(b, StartOf(kind), says), kind, N, st, heap, pos, cell)
         \/ Refused(Handle(b, StartOf(kind), says))
<1>1. PICK m : m = Here.node
  OBVIOUS
<1>2. PICK at : at = cell[m]
  OBVIOUS
<1>3. /\ m \in Celled(text) /\ at \in 1..Len(heap) /\ heap[at] \in ListCell
      /\ heap \in Seq(Cells) /\ CellsOK(text, heap, cell) /\ Len(heap) \in Nat
      /\ Last(st).token = "sequence" /\ Last(st).value = Ref("list", at)
      /\ Last(st).makes = IF Above.rule.type = "repeated" THEN Above.rule.of ELSE "nothing"
  BY <1>1, <1>2, ItemReady
<1>4. /\ Top(b) = Last(st) /\ Last(st).value.at = at
  BY <1>3, BuilderIsOf DEF Ref
<1>5. Above.rule \in RuleTypes /\ path # <<>>
  BY Roles, HereNode
<1>6. text'[N].kind = "map" /\ text'[N].as = "item" /\ N \in 1..Len(text')
  BY NewNodeIs, StartsFacts, ItemRuleIs
<1>7. CASE Above.rule.type = "repeated" /\ Above.rule.of \in Classes
  <2>1. PICK class \in Classes : class = Above.rule.of
    BY <1>7
  <2>2. Last(st).makes = class /\ class \notin {"word", "nothing"}
    BY <1>3, <1>7, <2>1, SchemaAssumption
  <2>3. text'[N].rule.type = "object" /\ text'[N].rule.of = class
    BY <1>7, <2>1, ItemRuleIs
  <2>4. PICK new \in Nat : new = Len(heap) + 1
    BY <1>3
  <2>5. PICK value \in Values : value = Ref("object", new)
    BY ValueTypes
  <2>6. PICK frame : frame = Mapper(value)
    OBVIOUS
  <2>7. /\ frame \in FrameType /\ frame.token = "mapping" /\ frame.value = Ref("object", new)
        /\ frame.seen = {}
    BY <2>5, <2>6, ObjectFrame
  <2>8. PICK made : made = Alloc(b, NewObject(class))
    OBVIOUS
  <2>9. PICK heap1 : heap1 = Append(heap, NewObject(class))
    OBVIOUS
  <2>10. NewObject(class) \in Cells
    BY NewObjectCell
  <2>11. /\ heap1 \in Seq(Cells) /\ Len(heap1) = new /\ heap1[new] = NewObject(class)
         /\ \A i \in 1..Len(heap) : heap1[i] = heap[i]
    BY <1>3, <2>4, <2>9, <2>10, Appends
  <2>12. Is(made, st, heap1)
    BY <2>8, <2>9, BuilderAlloc
  <2>13. Newest(made) = new /\ Top(made) = Last(st)
    BY <2>11, <2>12, BuilderIsOf
  <2>14. Make(b, Top(b).makes) = made /\ Made(made, Top(b).makes) = value
    BY <1>4, <2>2, <2>5, <2>8, <2>13 DEF Make, Made
  <2>15. Handle(b, StartOf(kind), says) = Push(AppendTo(made, value), frame)
    BY <1>3, <1>4, <2>2, <2>6, <2>14 DEF Handle, StartOf, MappingStart
  <2>16. PICK heap2 : heap2 = AppendItem(heap1, at, value)
    OBVIOUS
  <2>17. at \in 1..Len(heap1) /\ heap1[at] \in ListCell /\ at # new /\ new \in 1..Len(heap1)
    BY <1>3, <2>4, <2>11
  <2>18. Is(AppendTo(made, value), st, heap2)
    BY <1>4, <2>11, <2>12, <2>16, <2>17, BuilderAppend DEF AppendItem
  <2>19. PICK st2 : st2 = Append(st, frame)
    OBVIOUS
  <2>20. Is(Handle(b, StartOf(kind), says), st2, heap2)
    BY <2>15, <2>18, <2>19, BuilderPush
  <2>21. heap2 \in Seq(Cells) /\ Len(heap2) = new /\ heap2[new] = NewObject(class)
    BY <2>11, <2>16, <2>17, ItemAppended
  <2>22. Live(text'[N]) /\ HasCell(text'[N]) /\ FreshCell(text'[N], heap2[new])
    BY <1>6, <2>3, <2>21 DEF HasCell, FreshCell, Live
  <2>23. PICK cell2 : CellsGrew(N, cell, heap2, cell2) /\ cell2[N] = new
    BY <1>3, <2>4, <2>21, <2>22, CellsNew
  <2>24. Longer(heap, heap1)
    BY <1>3, <2>4, <2>11 DEF Longer
  <2>25. Held(text'[N], cell2[N]) = value
    BY <1>6, <2>5, <2>22, <2>23 DEF Held
  <2>26. HeapGrew(N, heap, cell, heap2, cell2)
    BY <1>1, <1>2, <2>16, <2>22, <2>23, <2>24, <2>25, ItemHeap
  <2>27. In(text', N, "value") = {}
    BY NewIsEmpty
  <2>28. FrameFits(text', N, frame, cell2)
    BY <1>6, <2>7, <2>22, <2>23, <2>27 DEF FrameFits
  <2>29. st2 \in Seq(FrameType) /\ StackGrew(kind, N, st, pos, st2, cell2)
    BY <2>7, <2>19, <2>28, ItemStack DEF Kinds
  <2> QED
    BY <2>20, <2>21, <2>26, <2>29 DEF PutDone
<1>8. CASE ~(Above.rule.type = "repeated" /\ Above.rule.of \in Classes)
  <2>1. Last(st).makes \in {"word", "nothing"}
    BY <1>3, <1>5, <1>8, RuleKinds
  <2>2. Handle(b, StartOf(kind), says) = Fail(b)
    BY <1>3, <1>4, <2>1 DEF Handle, StartOf, MappingStart
  <2>3. text'[N].rule.type # "object"
    BY <1>8, ItemRuleIs
  <2>4. Fault(text', path', N)
    BY <1>6, <2>3 DEF Fault, NodeRight, KeysRight
  <2> QED
    BY <1>6, <2>2, <2>4, FailRaises DEF Refused, Wrong
<1> QED
  BY <1>7, <1>8
(* -------------------------- the value of a key --------------------------- *)

\* The mapping that the value of a key is put in, below the key.
LEMMA ValueReady ==
  ASSUME TextOK, Role = "value", NEW st, NEW heap, NEW pos, NEW cell, Ready(st, heap, pos, cell),
         NEW top, top = pos[Len(path)], NEW below, below = Front(st)
  PROVE  /\ below \in Seq(FrameType) /\ below # <<>> /\ Len(below) = top /\ Last(below) = st[top]
         /\ \A i \in 1..top : below[i] = st[i]
         /\ FrameFits(text, Here.node, Last(below), cell) /\ KeyFits(text[Here.at], Last(st))
         /\ Len(below) \in Nat \ {0} /\ Last(below) \in FrameType
<1>1. /\ path # <<>> /\ st \in Seq(FrameType) /\ top \in Nat /\ top >= 2 /\ st # <<>>
      /\ FrameFits(text, Here.node, st[top], cell)
      /\ Len(st) = top + 1 /\ KeyFits(text[Here.at], Last(st)) /\ st[top] \in FrameType
  BY ReadyTop
<1>2. /\ below \in Seq(FrameType) /\ Len(below) = Len(st) - 1
      /\ \A i \in 1..(Len(st) - 1) : below[i] = st[i]
  BY <1>1, Fronts
<1>3. Len(below) = top /\ \A i \in 1..top : below[i] = st[i]
  BY <1>1, <1>2
<1>4. below # <<>>
  BY <1>1, <1>3
<1>5. Last(below) = st[top]
  <2>1. Last(below) = below[Len(below)]
    BY <1>2, <1>4, Fronts
  <2>2. top \in 1..top
    BY <1>1
  <2> QED
    BY <1>3, <2>1, <2>2
<1> QED
  BY <1>1, <1>2, <1>3, <1>4, <1>5

\* The object of it.
LEMMA ValueObject ==
  ASSUME TextOK, Role = "value", NEW st, NEW heap, NEW pos, NEW cell, Ready(st, heap, pos, cell),
         NEW m, m = Here.node, Live(text[m]), NEW below, below = Front(st)
  PROVE  /\ m \in Celled(text) /\ cell[m] \in 1..Len(heap) /\ text[m].rule.of \in Classes
         /\ heap[cell[m]] \in ObjectCell(text[m].rule.of) /\ heap \in Seq(Cells)
         /\ Last(below).value = Ref("object", cell[m])
         /\ Last(below).seen = {KeyText(text, v) : v \in In(text, m, "value")}
         /\ CellsOK(text, heap, cell)
<1>1. PICK top : top = pos[Len(path)]
  OBVIOUS
<1>2. FrameFits(text, m, Last(below), cell)
  BY <1>1, ValueReady
<1>3. HeapOK(text, heap, cell) /\ heap \in Seq(Cells) /\ path # <<>>
  BY DEF Ready
<1>4. CellsOK(text, heap, cell) /\ \A n \in Celled(text) : CellHeld(text, n, heap[cell[n]], cell)
  BY <1>3 DEF HeapOK
<1>5. text[m].kind = "map" /\ m \in 1..Len(text)
  BY <1>3, HereNode DEF Live
<1>6. m \in Celled(text)
  BY <1>5 DEF Celled, HasCell
<1>7. CellHeld(text, m, heap[cell[m]], cell) /\ cell[m] \in 1..Len(heap)
  BY <1>4, <1>6 DEF CellsOK
<1>8. MapHeld(text, m, heap[cell[m]], cell)
  BY <1>5, <1>7 DEF CellHeld
<1>9. text[m].rule.of \in Classes /\ heap[cell[m]] \in ObjectCell(text[m].rule.of)
  BY <1>8 DEF MapHeld
<1>10. /\ Last(below).value = Ref("object", cell[m])
       /\ Last(below).seen = {KeyText(text, v) : v \in In(text, m, "value")}
  BY <1>2, <1>5 DEF FrameFits
<1> QED
  BY <1>3, <1>4, <1>6, <1>7, <1>9, <1>10

\* The key is an attribute of the object when the node of the key says so.
KeyValue(key) == IF key.kind = "leaf" THEN Str(key.says) ELSE Wrapper
LEMMA KnownIs ==
  ASSUME TextOK, Role = "value", NEW st, NEW heap, NEW pos, NEW cell, Ready(st, heap, pos, cell),
         NEW m, m = Here.node, NEW below, below = Front(st), NEW heap1, Longer(heap, heap1),
         NEW b, Is(b, below, heap1), NEW key, key = text[Here.at]
  PROVE  /\ Known(b, KeyValue(key)) <=> Attribute(text[m], key)
         /\ Attribute(text[m], key) =>
              /\ Live(text[m]) /\ KeyValue(key).text = key.says
              /\ RuleOf(b, KeyValue(key)) = Schema[text[m].rule.of][key.says]
<1>1. PICK top : top = pos[Len(path)]
  OBVIOUS
<1>2. FrameFits(text, m, Last(below), cell) /\ path # <<>>
  BY <1>1, ValueReady DEF Ready
<1>3. text[m].kind = "map"
  BY <1>2, Roles
<1>4. Top(b) = Last(below) /\ b.heap = heap1 /\ Last(below).token = "mapping"
  BY <1>2, <1>3, BuilderIsOf DEF FrameFits
<1>5. KeyValue(key).kind = "str" <=> key.kind = "leaf"
  BY DEF KeyValue, Str, Wrapper
<1>6. key.kind = "leaf" => KeyValue(key).text = key.says
  BY DEF KeyValue, Str
<1>7. CASE Live(text[m])
  <2>1. /\ cell[m] \in 1..Len(heap) /\ text[m].rule.of \in Classes
        /\ heap[cell[m]] \in ObjectCell(text[m].rule.of) /\ Last(below).value = Ref("object", cell[m])
    BY <1>7, ValueObject
  <2>2. heap1[cell[m]].class = text[m].rule.of
    BY <2>1 DEF Longer, ObjectCell
  <2>3. Last(below).value.kind = "object" /\ Last(below).value.at = cell[m]
    BY <2>1 DEF Ref
  <2>4. text[m].rule.type = "object"
    BY <1>7 DEF Live
  <2> QED
    BY <1>4, <1>5, <1>6, <1>7, <2>2, <2>3, <2>4 DEF Known, RuleOf, Attribute
<1>8. CASE ~Live(text[m])
  <2>1. Last(below).value.kind # "object"
    BY <1>2, <1>3, <1>8 DEF FrameFits
  <2>2. text[m].rule.type # "object"
    BY <1>3, <1>8 DEF Live
  <2> QED
    BY <1>4, <2>1, <2>2 DEF Known, Attribute
<1> QED
  BY <1>7, <1>8

\* A key that is no attribute, or comes twice, is wrong.
LEMMA KeysWrong ==
  ASSUME TextOK, ComplexKey(text) => Wrong(text, path),
         NEW kind, NEW says, NEW N, Starts(kind, says, N), Role = "value",
         NEW m, m = Here.node, ~KeysRight(text, m) \/ text[Here.at].kind # "leaf"
  PROVE  Wrong(text', path')
<1>1. path # <<>>
  BY Roles
<1>2. m \in 1..Len(text) /\ text[m].kind = "map" /\ Here.at \in In(text, m, "key")
  BY <1>1, Roles
<1>3. Here.at \in 1..Len(text) /\ text[Here.at].as = "key"
  BY <1>2 DEF In
<1>4. CASE text[Here.at].kind # "leaf"
  BY <1>3, <1>4, WrongStays DEF ComplexKey
<1>5. CASE text[m].as = "key"
  BY <1>2, <1>5, WrongStays DEF ComplexKey
<1>6. CASE text[m].as # "key" /\ ~KeysRight(text, m)
  <2>1. Fault(text, path, m)
    BY <1>2, <1>6 DEF Fault, NodeRight
  <2> QED
    BY <1>2, <2>1, WrongStays DEF Wrong
<1> QED
  BY <1>4, <1>5, <1>6

LEMMA UnknownKey ==
  ASSUME TextOK, NEW m, Here.at \in In(text, m, "key"), ~Attribute(text[m], text[Here.at])
  PROVE  ~KeysRight(text, m)
BY DEF KeysRight

LEMMA SeenTwice ==
  ASSUME TextOK, Role = "value", NEW m, m = Here.node, NEW v \in In(text, m, "value"),
         KeyText(text, v) = text[Here.at].says
  PROVE  ~KeysRight(text, m)
<1>1. path # <<>>
  BY Roles
<1>2. text[m].kind = "map" /\ Here.at \in In(text, m, "key") /\ Here.at # 0 /\ Here = path[Len(path)]
  BY <1>1, Roles
<1>3. Len(path) \in 1..Len(path)
  BY <1>1, TopPlace
<1>4. PlaceOK(text, path, Len(path))
  BY <1>3, PathNodes
<1>5. Pending(text, path, Len(path))
  BY <1>2 DEF Pending
<1>6. text[v].at # Here.at
  BY <1>2, <1>4, <1>5 DEF PlaceOK
<1>7. NodeOK(text, v) /\ text[v].as = "value" /\ text[v].up = m
  BY ChildrenAfter
<1>8. text[v].at \in In(text, m, "key")
  BY <1>7 DEF NodeOK
<1> QED
  BY <1>2, <1>6, <1>8 DEF KeysRight, KeyText
\* What Validated.Set makes of the value, when it is given.
LEMMA NodeRuleIs ==
  ASSUME TextOK, NEW kind, NEW says, NEW N, Starts(kind, says, N), Role = "value",
         NEW m, m = Here.node, Attribute(text[m], text[Here.at])
  PROVE  /\ text'[N].rule = Schema[text[m].rule.of][text[Here.at].says]
         /\ text'[N].rule \in Rules /\ text'[N].as = "value"
         /\ text[Here.at].says \in DOMAIN Schema[text[m].rule.of]
<1>1. path # <<>>
  BY Roles
<1>2. Above = text[m] /\ Above \in NodeType
  BY <1>1, HereNode
<1>3. text'[N].rule = RuleHere /\ text'[N].as = "value"
  BY NewNodeIs
<1>4. RuleHere = Schema[text[m].rule.of][text[Here.at].says]
  BY <1>2 DEF RuleHere
<1>5. Schema[text[m].rule.of][text[Here.at].says] \in Rules
  BY <1>2, AttributeRules
<1>6. text[Here.at].says \in DOMAIN Schema[text[m].rule.of]
  BY DEF Attribute
<1> QED
  BY <1>3, <1>4, <1>5, <1>6

LEMMA RuleTypesAre ==
  ASSUME NEW rule \in Rules
  PROVE  /\ rule.type \in {"str", "word", "object", "repeated"} /\ rule.optional \in BOOLEAN
         /\ rule.type = "object" => rule.of \in Classes
         /\ rule.type = "repeated" => rule.of \in Classes \cup {"word"}
BY DEF Rules

LEMMA ValidLeaf ==
  ASSUME NEW rule \in Rules, NEW says, NEW heap,
         NEW value, value = IF says = "null" THEN None ELSE Str(says)
  PROVE  Validate(heap, rule, value) =
           IF (IF says = "null" THEN rule.optional ELSE rule.type \in {"str", "word"})
             THEN value ELSE Invalid
<1>1. rule.type \in {"str", "word", "object", "repeated"}
  BY RuleTypesAre
<1>2. CASE says = "null"
  BY <1>2 DEF Validate, None
<1>3. CASE says # "null"
  <2>1. value.kind = "str"
    BY <1>3 DEF Str
  <2> QED
    BY <1>1, <1>3, <2>1 DEF Validate, ValidItem
<1> QED
  BY <1>2, <1>3

LEMMA NotInvalid ==
  /\ \A says : Str(says) # Invalid /\ None # Invalid
  /\ \A kind, at : kind # "invalid" => Ref(kind, at) # Invalid
<1>1. Invalid.kind = "invalid"
  BY DEF Invalid
<1>2. \A says : Str(says).kind = "str"
  BY DEF Str
<1>3. None.kind = "none"
  BY DEF None
<1>4. \A kind, at : Ref(kind, at).kind = kind
  BY DEF Ref
<1> QED
  BY <1>1, <1>2, <1>3, <1>4

LEMMA ValidObject ==
  ASSUME NEW rule \in Rules, rule.type = "object", NEW heap, NEW at, heap[at].class = rule.of
  PROVE  Validate(heap, rule, Ref("object", at)) = Ref("object", at)
BY DEF Validate, ValidItem, Ref

LEMMA ValidNothing ==
  ASSUME NEW rule \in Rules, rule.type # "object", NEW heap
  PROVE  Validate(heap, rule, Str("")) = IF rule.type = "repeated" THEN Invalid ELSE Str("")
<1>1. rule.type \in {"str", "word", "repeated"}
  BY RuleTypesAre
<1> QED
  BY <1>1 DEF Validate, ValidItem, Str

LEMMA ValidList ==
  ASSUME NEW rule \in Rules, rule.type # "str", NEW heap, NEW at, heap[at] = NewList
  PROVE  Validate(heap, rule, Ref("list", at)) =
           IF rule.type = "repeated" THEN Ref("list", at) ELSE Invalid
<1>1. rule.type \in {"word", "object", "repeated"}
  BY RuleTypesAre
<1>2. Ref("list", at).kind = "list" /\ Ref("list", at).at = at
  BY DEF Ref
<1>3. DOMAIN heap[at].items = {}
  BY DEF NewList
<1> QED
  BY <1>1, <1>2, <1>3 DEF Validate, ValidItem

\* An attribute is set.
LEMMA AttrPut ==
  ASSUME NEW heap \in Seq(Cells), NEW at \in 1..Len(heap), NEW class \in Classes,
         heap[at] \in ObjectCell(class), NEW name \in DOMAIN Schema[class],
         NEW value \in Values, NEW heap2, heap2 = PutAttr(heap, at, name, value)
  PROVE  /\ heap2 \in Seq(Cells) /\ Len(heap2) = Len(heap)
         /\ MapPut(heap[at], name, value, heap2[at])
         /\ \A i \in 1..Len(heap) : i # at => heap2[i] = heap[i]
<1>1. PICK attrs \in [DOMAIN Schema[class] -> Values] : heap[at].attrs = attrs
  BY DEF ObjectCell
<1>2. PICK attrs2 : attrs2 = [attrs EXCEPT ![name] = value]
  OBVIOUS
<1>3. attrs2 \in [DOMAIN Schema[class] -> Values]
  BY <1>2
<1>4. PICK new : new = [heap[at] EXCEPT !.attrs = attrs2]
  OBVIOUS
<1>5. new = [class |-> class, attrs |-> attrs2]
  BY <1>4 DEF ObjectCell
<1>6. new \in ObjectCell(class)
  BY <1>3, <1>5 DEF ObjectCell
<1>7. new \in Cells
  BY <1>6 DEF Cells
<1>8. heap2 = [heap EXCEPT ![at] = new]
  BY <1>1, <1>2, <1>4 DEF PutAttr
<1>9. heap2[at] = new
  BY <1>8
<1> QED
  BY <1>1, <1>2, <1>4, <1>7, <1>8, <1>9 DEF MapPut

LEMMA ValueHeap ==
  ASSUME TextOK, NEW kind, NEW says, NEW N, Starts(kind, says, N), Role = "value",
         NEW st, NEW heap, NEW pos, NEW cell, Ready(st, heap, pos, cell),
         NEW m, m = Here.node, Attribute(text[m], text[Here.at]), Live(text[m]),
         NEW name, name = text[Here.at].says,
         \A v \in In(text, m, "value") : KeyText(text, v) # name,
         NEW heap1, Longer(heap, heap1), NEW value \in Values,
         NEW heap2, heap2 = PutAttr(heap1, cell[m], name, value),
         NEW cell2, CellsGrew(N, cell, heap2, cell2), value = Held(text'[N], cell2[N])
  PROVE  HeapGrew(N, heap, cell, heap2, cell2)
<1>1. PICK at : at = cell[m]
  OBVIOUS
<1>2. PICK class \in Classes : class = text[m].rule.of
  BY ValueObject
<1>3. /\ m \in Celled(text) /\ at \in 1..Len(heap) /\ heap[at] \in ObjectCell(class)
      /\ heap \in Seq(Cells) /\ CellsOK(text, heap, cell)
  BY <1>1, <1>2, ValueObject
<1>4. /\ heap1 \in Seq(Cells) /\ at \in 1..Len(heap1) /\ heap1[at] = heap[at]
      /\ Len(heap) \in Nat /\ Len(heap1) \in Nat /\ 1..Len(heap) \subseteq 1..Len(heap1)
  BY <1>3 DEF Longer
<1>5. name \in DOMAIN Schema[class]
  BY <1>2, NodeRuleIs
<1>6. MapPut(heap1[at], name, value, heap2[at]) /\ \A i \in 1..Len(heap1) : i # at => heap2[i] = heap1[i]
  BY <1>1, <1>3, <1>4, <1>5, AttrPut
<1>7. \A n \in Celled(text) : n # m => heap2[cell[n]] = heap[cell[n]]
  BY <1>1, <1>3, <1>4, <1>6 DEF CellsOK, Longer
<1>8. OthersSame(heap, cell, heap2)
  BY <1>7 DEF OthersSame
<1>9. MapPut(heap[cell[m]], name, Held(text'[N], cell2[N]), heap2[cell[m]])
  BY <1>1, <1>4, <1>6
<1>10. ValuePut(N, heap, cell, heap2, cell2)
  BY <1>9 DEF ValuePut
<1> QED
  BY <1>8, <1>10 DEF HeapGrew, ItemPut
LEMMA SeenType ==
  ASSUME NEW frame \in FrameType, NEW name \in Says
  PROVE  [frame EXCEPT !.seen = frame.seen \cup {name}] \in FrameType
BY DEF FrameType

LEMMA ValueStack ==
  ASSUME TextOK, NEW kind \in Kinds, NEW says, NEW N, Starts(kind, says, N), Role = "value",
         NEW st, NEW heap, NEW pos, NEW cell, Ready(st, heap, pos, cell), NEW cell2,
         Live(text[Here.node]), text[Here.at].kind = "leaf",
         NEW name, name = text[Here.at].says,
         NEW below, below = SeenFrame(Front(st), name), NEW st2,
         kind = "leaf" => st2 = below,
         kind # "leaf" => \E frame \in FrameType : /\ st2 = Append(below, frame)
                                                   /\ FrameFits(text', N, frame, cell2)
  PROVE  st2 \in Seq(FrameType) /\ StackGrew(kind, N, st, pos, st2, cell2)
<1>1. PICK top : top = pos[Len(path)]
  OBVIOUS
<1>2. PICK front : front = Front(st)
  OBVIOUS
<1>3. /\ path # <<>> /\ top \in Nat /\ top >= 2
  BY <1>1, ReadyTop
<1>4. /\ front \in Seq(FrameType) /\ Len(front) = top /\ Last(front) = st[top]
      /\ \A i \in 1..top : front[i] = st[i]
      /\ Last(front) \in FrameType
  BY <1>1, <1>2, ValueReady
<1>5. name \in Says
  <2>1. Here.at \in 1..Len(text) /\ text[Here.at] \in NodeType
    BY <1>3, Roles
  <2> QED
    BY <2>1 DEF NodeType
<1>6. PICK new : new = [Last(front) EXCEPT !.seen = Last(front).seen \cup {name}]
  OBVIOUS
<1>7. new \in FrameType
  BY <1>4, <1>5, <1>6, SeenType
<1>8. below = [front EXCEPT ![top] = new]
  BY <1>2, <1>4, <1>6 DEF SeenFrame
<1>9. /\ below \in Seq(FrameType) /\ Len(below) = top /\ below[top] = new
      /\ \A j \in 1..(top - 1) : below[j] = st[j]
  BY <1>3, <1>4, <1>7, <1>8
<1>10. SeenToo(st[top], name, below[top])
  BY <1>4, <1>6, <1>9 DEF SeenToo
<1>11. CASE kind = "leaf"
  <2>1. AboveTop(kind, N, st, top, st2)
    BY <1>3, <1>9, <1>10, <1>11 DEF AboveTop, Waits, Grown
  <2> QED
    BY <1>1, <1>3, <1>9, <1>11, <2>1 DEF StackGrew
<1>12. CASE kind # "leaf"
  <2>1. PICK frame \in FrameType : st2 = Append(below, frame) /\ FrameFits(text', N, frame, cell2)
    BY <1>12
  <2>2. /\ st2 \in Seq(FrameType) /\ Len(st2) = top + 1 /\ st2[top + 1] = frame
        /\ \A i \in 1..top : st2[i] = below[i]
    BY <1>3, <1>9, <2>1, Pushed
  <2>3. /\ st2[top] = below[top] /\ \A j \in 1..(top - 1) : st2[j] = st[j]
    BY <1>3, <1>9, <2>2
  <2>4. AboveTop(kind, N, st, top, st2)
    BY <1>3, <1>10, <1>12, <2>2, <2>3 DEF AboveTop, Waits, Grown
  <2>5. FrameFits(text', N, st2[Len(st2)], cell2)
    BY <2>1, <2>2
  <2> QED
    BY <1>1, <1>3, <2>2, <2>4, <2>5 DEF StackGrew
<1> QED
  BY <1>11, <1>12

\* A value is given to the object: refused, or put there.
Given(x, valid, below, heap1, m, name, cell) ==
  \/ Refused(x)
  \/ valid = Invalid /\ x.raised = TRUE
  \/ /\ valid # Invalid /\ \A v \in In(text, m, "value") : KeyText(text, v) # name
     /\ Is(x, SeenFrame(below, name), PutAttr(heap1, cell[m], name, valid))
LEMMA ValueGiven ==
  ASSUME TextOK, ComplexKey(text) => Wrong(text, path),
         NEW kind, NEW says, NEW N, Starts(kind, says, N), Role = "value",
         NEW st, NEW heap, NEW pos, NEW cell, Ready(st, heap, pos, cell),
         NEW m, m = Here.node, NEW key, key = text[Here.at], Attribute(text[m], key),
         NEW below, below = Front(st), NEW heap1, Longer(heap, heap1),
         NEW b, Is(b, below, heap1), NEW value,
         NEW valid, valid = Validate(heap1, text'[N].rule, value)
  PROVE  Given(MapTo(b, KeyValue(key), value), valid, below, heap1, m, key.says, cell)
<1>1. PICK top : top = pos[Len(path)]
  OBVIOUS
<1>2. below \in Seq(FrameType) /\ below # <<>>
  BY <1>1, ValueReady
<1>3. Live(text[m]) /\ KeyValue(key).text = key.says
  BY KnownIs
<1>4. PICK class \in Classes : class = text[m].rule.of
  BY <1>3, ValueObject
<1>5. /\ m \in Celled(text) /\ cell[m] \in 1..Len(heap) /\ heap[cell[m]] \in ObjectCell(class)
      /\ heap \in Seq(Cells) /\ Last(below).value = Ref("object", cell[m])
      /\ Last(below).seen = {KeyText(text, v) : v \in In(text, m, "value")}
  BY <1>3, <1>4, ValueObject
<1>6. /\ heap1 \in Seq(Cells) /\ cell[m] \in 1..Len(heap1) /\ heap1[cell[m]] \in ObjectCell(class)
  BY <1>5 DEF Longer
<1>7. text'[N].rule = Schema[class][key.says]
  BY <1>4, NodeRuleIs
<1>8. PICK name : name = key.says
  OBVIOUS
<1>9. PICK x : x = MapTo(b, KeyValue(key), value)
  OBVIOUS
<1>10. PICK at : at = cell[m]
  OBVIOUS
<1>11. valid = Validate(heap1, Schema[class][name], value) /\ name = KeyValue(key).text
  BY <1>3, <1>7, <1>8
<1>12. \/ name \in Last(below).seen /\ x.raised = TRUE
       \/ valid = Invalid /\ x.raised = TRUE
       \/ /\ name \notin Last(below).seen /\ valid # Invalid
          /\ Is(x, SeenFrame(below, name), PutAttr(heap1, at, name, valid))
  <2>1. PICK key2 : key2 = KeyValue(key)
    OBVIOUS
  <2>2. name = key2.text /\ x = MapTo(b, key2, value)
    BY <1>9, <1>11, <2>1
  <2>3. /\ at \in 1..Len(heap1) /\ heap1[at] \in ObjectCell(class) /\ heap1 \in Seq(Cells)
        /\ Last(below).value = Ref("object", at)
    BY <1>5, <1>6, <1>10
  <2>4. Mapped(x, valid, name, below, heap1, at)
    BY <1>2, <1>11, <2>2, <2>3, BuilderMapTo
  <2> QED
    BY <2>4 DEF Mapped
<1>13. name \in Last(below).seen => Wrong(text', path')
  <2> SUFFICES ASSUME name \in Last(below).seen PROVE Wrong(text', path')
    OBVIOUS
  <2>1. PICK v \in In(text, m, "value") : KeyText(text, v) = name
    BY <1>5
  <2>2. ~KeysRight(text, m)
    BY <1>8, <2>1, SeenTwice
  <2> QED
    BY <2>2, KeysWrong
<1>14. name \notin Last(below).seen => \A v \in In(text, m, "value") : KeyText(text, v) # name
  BY <1>5
<1> QED
  BY <1>8, <1>9, <1>10, <1>12, <1>13, <1>14 DEF Given, Refused
\* The mapping has no such attribute.
LEMMA ValueUnknown ==
  ASSUME TextOK, ComplexKey(text) => Wrong(text, path), NEW kind \in Kinds, NEW says, NEW N,
         Starts(kind, says, N), Role = "value",
         NEW st, NEW heap, NEW pos, NEW cell, Ready(st, heap, pos, cell),
         NEW b, Is(b, st, heap), ~Attribute(text[Here.node], text[Here.at])
  PROVE  Refused(Handle(b, StartOf(kind), says))
<1>1. PICK m, key : m = Here.node /\ key = text[Here.at]
  OBVIOUS
<1>2. path # <<>> /\ heap \in Seq(Cells)
  BY DEF Ready
<1>3. Wrong(text', path')
  <2>1. Here.at \in In(text, m, "key")
    BY <1>1, <1>2, Roles
  <2>2. ~KeysRight(text, m)
    BY <1>1, <2>1, UnknownKey
  <2> QED
    BY <1>1, <2>2, KeysWrong
<1>4. Top(b) = Last(st) /\ KeyFits(key, Last(st))
  <2>1. PICK top : top = pos[Len(path)]
    OBVIOUS
  <2> QED
    BY <1>1, <2>1, ValueReady, BuilderIsOf
<1>5. Top(b).token = "key" /\ Top(b).value = KeyValue(key)
  BY <1>4 DEF KeyFits, KeyValue
<1>6. Longer(heap, heap) /\ Is(Pop(b), Front(st), heap)
  BY <1>2, BuilderPop DEF Longer
<1>7. ~Known(Pop(b), KeyValue(key))
  BY <1>1, <1>6, KnownIs
<1>8. PICK made : made = Alloc(b, NewList)
  OBVIOUS
<1>9. Longer(heap, Append(heap, NewList))
  <2>1. NewList \in Cells
    BY DEF NewList, Cells, ListCell
  <2>2. PICK heap1 : heap1 = Append(heap, NewList)
    OBVIOUS
  <2>3. heap1 \in Seq(Cells) /\ Len(heap1) = Len(heap) + 1 /\ \A i \in 1..Len(heap) : heap1[i] = heap[i]
    BY <1>2, <2>1, <2>2, Appends
  <2> QED
    BY <1>2, <2>2, <2>3 DEF Longer
<1>10. Is(Pop(made), Front(st), Append(heap, NewList))
  BY <1>8, BuilderAlloc, BuilderPop
<1>11. ~Known(Pop(made), KeyValue(key))
  BY <1>1, <1>9, <1>10, KnownIs
<1>12. Handle(b, StartOf(kind), says) = Fail(b)
  <2>1. CASE kind = "leaf"
    BY <1>5, <1>7, <2>1 DEF Handle, StartOf, Scalar
  <2>2. CASE kind = "map"
    BY <1>5, <1>7, <2>2 DEF Handle, StartOf, MappingStart
  <2>3. CASE kind = "seq"
    BY <1>5, <1>8, <1>11, <2>3 DEF Handle, StartOf, SequenceStart
  <2> QED
    BY <2>1, <2>2, <2>3 DEF Kinds
<1> QED
  BY <1>3, <1>12, FailRaises DEF Refused

\* What is on the stack for a value.
LEMMA ValueTop ==
  ASSUME TextOK, Role = "value", NEW st, NEW heap, NEW pos, NEW cell, Ready(st, heap, pos, cell),
         NEW b, NEW heap1, Is(b, st, heap1)
  PROVE  Top(b).token = "key" /\ Top(b).value = KeyValue(text[Here.at])
<1>1. PICK top : top = pos[Len(path)]
  OBVIOUS
<1>2. Top(b) = Last(st) /\ KeyFits(text[Here.at], Last(st))
  BY <1>1, ValueReady, BuilderIsOf
<1> QED
  BY <1>2 DEF KeyFits, KeyValue

LEMMA FaultRefuses ==
  ASSUME TextOK, NEW kind, NEW says, NEW N, Starts(kind, says, N), Fault(text', path', N),
         NEW x, x.raised = TRUE
  PROVE  Refused(x)
BY StartsFacts DEF Refused, Wrong

LEMMA ValueLeafPut ==
  ASSUME TextOK, ComplexKey(text) => Wrong(text, path), NEW kind, kind = "leaf",
         NEW says \in Says, NEW N, Starts(kind, says, N), Role = "value",
         NEW st, NEW heap, NEW pos, NEW cell, Ready(st, heap, pos, cell),
         NEW b, Is(b, st, heap), Attribute(text[Here.node], text[Here.at])
  PROVE  \/ /\ PutDone(Handle(b, StartOf(kind), says), kind, N, st, heap, pos, cell)
            /\ NodeRight(text', N)
         \/ Refused(Handle(b, StartOf(kind), says))
<1>1. PICK m, key : m = Here.node /\ key = text[Here.at]
  OBVIOUS
<1>2. PICK name, below : name = key.says /\ below = Front(st)
  OBVIOUS
<1>3. PICK value \in Values : value = IF says = "null" THEN None ELSE Str(says)
  BY ValueTypes
<1>4. Top(b).token = "key" /\ Top(b).value = KeyValue(key)
  BY <1>1, ValueTop
<1>5. heap \in Seq(Cells) /\ Longer(heap, heap) /\ Is(Pop(b), below, heap)
  BY <1>2, BuilderPop DEF Longer, Ready
<1>6. Known(Pop(b), KeyValue(key)) /\ Live(text[m])
  BY <1>1, <1>2, <1>5, KnownIs
<1>7. PICK x : x = MapTo(Pop(b), KeyValue(key), value)
  OBVIOUS
<1>8. Handle(b, StartOf(kind), says) = x
  BY <1>3, <1>4, <1>6, <1>7 DEF Handle, StartOf, Scalar
<1>9. PICK rule \in Rules : rule = text'[N].rule
  BY NodeRuleIs
<1>10. PICK valid : valid = Validate(heap, rule, value)
  OBVIOUS
<1>11. Given(x, valid, below, heap, m, name, cell)
  BY <1>1, <1>2, <1>5, <1>7, <1>9, <1>10, ValueGiven
<1>12. text'[N].kind = "leaf" /\ text'[N].says = says /\ text'[N].as = "value"
  BY NewNodeIs, NodeRuleIs
<1>13. valid = IF LeafRight(text'[N]) THEN value ELSE Invalid
  <2>1. Validate(heap, rule, value) =
          IF (IF says = "null" THEN rule.optional ELSE rule.type \in {"str", "word"})
            THEN value ELSE Invalid
    BY <1>3, ValidLeaf
  <2>2. LeafRight(text'[N])
          <=> (IF says = "null" THEN rule.optional ELSE rule.type \in {"str", "word"})
    BY <1>9, <1>12 DEF LeafRight
  <2> QED
    BY <1>10, <2>1, <2>2
<1>14. value # Invalid
  BY <1>3, NotInvalid
<1>15. CASE Refused(x)
  BY <1>8, <1>15
<1>16. CASE valid = Invalid /\ x.raised = TRUE
  <2>1. ~LeafRight(text'[N])
    BY <1>13, <1>14, <1>16
  <2>2. Fault(text', path', N)
    BY <1>12, <2>1 DEF Fault, NodeRight, OpenMap
  <2> QED
    BY <1>8, <1>16, <2>2, FaultRefuses
<1>17. CASE /\ valid # Invalid /\ \A v \in In(text, m, "value") : KeyText(text, v) # name
            /\ Is(x, SeenFrame(below, name), PutAttr(heap, cell[m], name, valid))
  <2>1. valid = value
    BY <1>13, <1>17
  <2>2. PICK heap2, st2 : heap2 = PutAttr(heap, cell[m], name, value) /\ st2 = SeenFrame(below, name)
    OBVIOUS
  <2>3. Is(x, st2, heap2)
    BY <1>17, <2>1, <2>2
  <2>4. PICK class \in Classes : class = text[m].rule.of
    BY <1>1, <1>6, ValueObject
  <2>5. cell[m] \in 1..Len(heap) /\ heap[cell[m]] \in ObjectCell(class) /\ CellsOK(text, heap, cell)
    BY <1>1, <1>6, <2>4, ValueObject
  <2>6. name \in DOMAIN Schema[class]
    BY <1>1, <1>2, <2>4, NodeRuleIs
  <2>7. heap2 \in Seq(Cells) /\ Len(heap2) = Len(heap)
    BY <1>5, <2>2, <2>5, <2>6, AttrPut
  <2>8. CellsGrew(N, cell, heap2, cell)
    BY <1>12, <2>5, <2>7, CellsKept DEF HasCell, Live
  <2>9. value = Held(text'[N], cell[N])
    BY <1>3, <1>12, HeldLeaf
  <2>10. HeapGrew(N, heap, cell, heap2, cell)
    BY <1>1, <1>2, <1>5, <1>6, <1>17, <2>2, <2>8, <2>9, ValueHeap
  <2>11. key.kind = "leaf"
    BY <1>1 DEF Attribute
  <2>12. st2 \in Seq(FrameType) /\ StackGrew(kind, N, st, pos, st2, cell)
    BY <1>1, <1>2, <1>6, <2>2, <2>11, ValueStack DEF Kinds
  <2>13. NodeRight(text', N)
    BY <1>12, <1>13, <1>17 DEF NodeRight
  <2> QED
    BY <1>8, <2>3, <2>7, <2>10, <2>12, <2>13 DEF PutDone
<1> QED
  BY <1>11, <1>15, <1>16, <1>17 DEF Given
\* A mapping for an attribute: an object if the attribute has a class.
LEMMA ValueObjectPut ==
  ASSUME TextOK, ComplexKey(text) => Wrong(text, path), NEW kind, kind = "map",
         NEW says \in Says, NEW N, Starts(kind, says, N), Role = "value",
         NEW st, NEW heap, NEW pos, NEW cell, Ready(st, heap, pos, cell),
         NEW b, Is(b, st, heap), Attribute(text[Here.node], text[Here.at]),
         text'[N].rule.type = "object"
  PROVE  \/ PutDone(Handle(b, StartOf(kind), says), kind, N, st, heap, pos, cell)
         \/ Refused(Handle(b, StartOf(kind), says))
<1>1. PICK m, key : m = Here.node /\ key = text[Here.at]
  OBVIOUS
<1>2. PICK name, below : name = key.says /\ below = Front(st)
  OBVIOUS
<1>3. Top(b).token = "key" /\ Top(b).value = KeyValue(key)
  BY <1>1, ValueTop
<1>4. heap \in Seq(Cells) /\ Len(heap) \in Nat /\ Longer(heap, heap) /\ Is(Pop(b), below, heap)
  BY <1>2, BuilderPop DEF Longer, Ready
<1>5. PICK rule \in Rules : rule = text'[N].rule
  BY NodeRuleIs
<1>6. PICK class \in Classes : class = rule.of
  BY <1>5, RuleTypesAre
<1>7. Known(Pop(b), KeyValue(key)) /\ Live(text[m]) /\ RuleOf(Pop(b), KeyValue(key)) = rule
  BY <1>1, <1>2, <1>4, <1>5, KnownIs, NodeRuleIs
<1>8. PICK new \in Nat : new = Len(heap) + 1
  BY <1>4
<1>9. PICK value \in Values : value = Ref("object", new)
  BY ValueTypes
<1>10. PICK made, heap1 : /\ made = Alloc(Pop(b), NewObject(class))
                          /\ heap1 = Append(heap, NewObject(class))
  OBVIOUS
<1>11. NewObject(class) \in Cells /\ NewObject(class).class = class
  BY NewObjectCell
<1>12. /\ heap1 \in Seq(Cells) /\ Len(heap1) = new /\ heap1[new] = NewObject(class)
       /\ \A i \in 1..Len(heap) : heap1[i] = heap[i]
  BY <1>4, <1>8, <1>10, <1>11, Appends
<1>13. Is(made, below, heap1) /\ Newest(made) = new
  <2>1. Is(made, below, heap1)
    BY <1>4, <1>10, BuilderAlloc
  <2> QED
    BY <1>12, <2>1, BuilderIsOf
<1>14. Longer(heap, heap1)
  BY <1>4, <1>8, <1>12 DEF Longer
<1>15. Make(Pop(b), class) = made /\ Made(made, class) = value
  BY <1>9, <1>10, <1>13 DEF Make, Made
<1>16. PICK x, frame : x = MapTo(made, KeyValue(key), value) /\ frame = Mapper(value)
  OBVIOUS
<1>17. Handle(b, StartOf(kind), says) = Push(x, frame)
  BY <1>3, <1>5, <1>6, <1>7, <1>15, <1>16 DEF Handle, StartOf, MappingStart
<1>18. PICK valid : valid = Validate(heap1, rule, value)
  OBVIOUS
<1>19. Given(x, valid, below, heap1, m, name, cell)
  BY <1>1, <1>2, <1>5, <1>13, <1>14, <1>16, <1>18, ValueGiven
<1>20. valid = value /\ value # Invalid
  BY <1>5, <1>6, <1>9, <1>11, <1>12, <1>18, ValidObject, NotInvalid
<1>21. CASE Refused(x)
  BY <1>17, <1>21, PushRaised DEF Refused
<1>22. CASE /\ valid # Invalid /\ \A v \in In(text, m, "value") : KeyText(text, v) # name
            /\ Is(x, SeenFrame(below, name), PutAttr(heap1, cell[m], name, valid))
  <2>1. PICK heap2, st1 : heap2 = PutAttr(heap1, cell[m], name, value) /\ st1 = SeenFrame(below, name)
    OBVIOUS
  <2>2. PICK st2 : st2 = Append(st1, frame)
    OBVIOUS
  <2>3. Is(Handle(b, StartOf(kind), says), st2, heap2)
    BY <1>17, <1>20, <1>22, <2>1, <2>2, BuilderPush
  <2>4. PICK owner \in Classes : owner = text[m].rule.of
    BY <1>1, <1>7, ValueObject
  <2>5. cell[m] \in 1..Len(heap) /\ heap[cell[m]] \in ObjectCell(owner) /\ CellsOK(text, heap, cell)
    BY <1>1, <1>7, <2>4, ValueObject
  <2>6. name \in DOMAIN Schema[owner]
    BY <1>1, <1>2, <2>4, NodeRuleIs
  <2>7. cell[m] \in 1..Len(heap1) /\ heap1[cell[m]] \in ObjectCell(owner) /\ cell[m] # new
        /\ new \in 1..Len(heap1)
    BY <1>4, <1>8, <1>12, <2>5
  <2>8. heap2 \in Seq(Cells) /\ Len(heap2) = new /\ heap2[new] = NewObject(class)
    BY <1>12, <2>1, <2>6, <2>7, AttrPut
  <2>9. text'[N].kind = "map" /\ text'[N].as = "value"
    BY NewNodeIs, NodeRuleIs
  <2>10. Live(text'[N]) /\ HasCell(text'[N]) /\ FreshCell(text'[N], heap2[new])
    BY <1>5, <1>6, <2>8, <2>9 DEF HasCell, FreshCell, Live
  <2>11. PICK cell2 : CellsGrew(N, cell, heap2, cell2) /\ cell2[N] = new
    BY <1>4, <1>8, <2>5, <2>8, <2>10, CellsNew
  <2>12. value = Held(text'[N], cell2[N])
    BY <1>9, <2>9, <2>10, <2>11 DEF Held
  <2>13. HeapGrew(N, heap, cell, heap2, cell2)
    BY <1>1, <1>2, <1>7, <1>14, <1>22, <2>1, <2>11, <2>12, ValueHeap
  <2>14. key.kind = "leaf"
    BY <1>1 DEF Attribute
  <2>15. /\ frame \in FrameType /\ frame.token = "mapping" /\ frame.value = Ref("object", new)
         /\ frame.seen = {}
    BY <1>9, <1>16, ObjectFrame
  <2>16. In(text', N, "value") = {}
    BY NewIsEmpty
  <2>17. FrameFits(text', N, frame, cell2)
    BY <2>9, <2>10, <2>11, <2>15, <2>16 DEF FrameFits
  <2>18. st2 \in Seq(FrameType) /\ StackGrew(kind, N, st, pos, st2, cell2)
    BY <1>1, <1>2, <1>7, <2>1, <2>2, <2>14, <2>15, <2>17, ValueStack DEF Kinds
  <2> QED
    BY <2>3, <2>8, <2>13, <2>18 DEF PutDone
<1> QED
  BY <1>19, <1>20, <1>21, <1>22 DEF Given

LEMMA ValueNothingPut ==
  ASSUME TextOK, ComplexKey(text) => Wrong(text, path), NEW kind, kind = "map",
         NEW says \in Says, NEW N, Starts(kind, says, N), Role = "value",
         NEW st, NEW heap, NEW pos, NEW cell, Ready(st, heap, pos, cell),
         NEW b, Is(b, st, heap), Attribute(text[Here.node], text[Here.at]),
         text'[N].rule.type # "object"
  PROVE  \/ PutDone(Handle(b, StartOf(kind), says), kind, N, st, heap, pos, cell)
         \/ Refused(Handle(b, StartOf(kind), says))
<1>1. PICK m, key : m = Here.node /\ key = text[Here.at]
  OBVIOUS
<1>2. PICK name, below : name = key.says /\ below = Front(st)
  OBVIOUS
<1>3. Top(b).token = "key" /\ Top(b).value = KeyValue(key)
  BY <1>1, ValueTop
<1>4. heap \in Seq(Cells) /\ Longer(heap, heap) /\ Is(Pop(b), below, heap)
  BY <1>2, BuilderPop DEF Longer, Ready
<1>5. PICK rule \in Rules : rule = text'[N].rule
  BY NodeRuleIs
<1>6. Known(Pop(b), KeyValue(key)) /\ Live(text[m]) /\ RuleOf(Pop(b), KeyValue(key)) = rule
  BY <1>1, <1>2, <1>4, <1>5, KnownIs, NodeRuleIs
<1>7. "other" \notin Classes
  BY SchemaAssumption
<1>8. PICK value \in Values : value = Str("")
  BY ValueTypes
<1>9. Make(Pop(b), "other") = Pop(b) /\ Made(Pop(b), "other") = value
  BY <1>7, <1>8 DEF Make, Made
<1>10. PICK x, frame : x = MapTo(Pop(b), KeyValue(key), value) /\ frame = Mapper(value)
  OBVIOUS
<1>11. Handle(b, StartOf(kind), says) = Push(x, frame)
  BY <1>3, <1>5, <1>6, <1>9, <1>10 DEF Handle, StartOf, MappingStart
<1>12. PICK valid : valid = Validate(heap, rule, value)
  OBVIOUS
<1>13. Given(x, valid, below, heap, m, name, cell)
  BY <1>1, <1>2, <1>4, <1>5, <1>10, <1>12, ValueGiven
<1>14. valid = IF rule.type = "repeated" THEN Invalid ELSE value
  BY <1>5, <1>8, <1>12, ValidNothing
<1>15. value # Invalid
  BY <1>8, NotInvalid
<1>16. text'[N].kind = "map" /\ text'[N].as = "value"
  BY NewNodeIs, NodeRuleIs
<1>17. CASE Refused(x)
  BY <1>11, <1>17, PushRaised DEF Refused
<1>18. CASE valid = Invalid /\ x.raised = TRUE
  <2>1. Fault(text', path', N)
    BY <1>16 DEF Fault, NodeRight, KeysRight
  <2> QED
    BY <1>11, <1>18, <2>1, PushRaised, FaultRefuses
<1>19. CASE /\ valid # Invalid /\ \A v \in In(text, m, "value") : KeyText(text, v) # name
            /\ Is(x, SeenFrame(below, name), PutAttr(heap, cell[m], name, valid))
  <2>1. valid = value
    BY <1>14, <1>19
  <2>2. PICK heap2, st1 : heap2 = PutAttr(heap, cell[m], name, value) /\ st1 = SeenFrame(below, name)
    OBVIOUS
  <2>3. PICK st2 : st2 = Append(st1, frame)
    OBVIOUS
  <2>4. Is(Handle(b, StartOf(kind), says), st2, heap2)
    BY <1>11, <1>19, <2>1, <2>2, <2>3, BuilderPush
  <2>5. PICK owner \in Classes : owner = text[m].rule.of
    BY <1>1, <1>6, ValueObject
  <2>6. cell[m] \in 1..Len(heap) /\ heap[cell[m]] \in ObjectCell(owner) /\ CellsOK(text, heap, cell)
    BY <1>1, <1>6, <2>5, ValueObject
  <2>7. name \in DOMAIN Schema[owner]
    BY <1>1, <1>2, <2>5, NodeRuleIs
  <2>8. heap2 \in Seq(Cells) /\ Len(heap2) = Len(heap)
    BY <1>4, <2>2, <2>6, <2>7, AttrPut
  <2>9. ~Live(text'[N]) /\ ~HasCell(text'[N])
    BY <1>16 DEF HasCell, Live
  <2>10. CellsGrew(N, cell, heap2, cell)
    BY <2>6, <2>8, <2>9, CellsKept
  <2>11. value = Held(text'[N], cell[N])
    BY <1>8, <1>16, <2>9 DEF Held
  <2>12. HeapGrew(N, heap, cell, heap2, cell)
    BY <1>1, <1>2, <1>4, <1>6, <1>19, <2>2, <2>10, <2>11, ValueHeap
  <2>13. key.kind = "leaf"
    BY <1>1 DEF Attribute
  <2>14. frame \in FrameType /\ frame.token = "mapping" /\ frame.value = value
    BY <1>10, FrameTypes, FrameFields
  <2>15. value.kind = "str"
    BY <1>8 DEF Str
  <2>16. FrameFits(text', N, frame, cell)
    BY <1>16, <2>9, <2>14, <2>15 DEF FrameFits
  <2>17. st2 \in Seq(FrameType) /\ StackGrew(kind, N, st, pos, st2, cell)
    BY <1>1, <1>2, <1>6, <2>2, <2>3, <2>13, <2>14, <2>16, ValueStack DEF Kinds
  <2> QED
    BY <2>4, <2>8, <2>12, <2>17 DEF PutDone
<1> QED
  BY <1>13, <1>17, <1>18, <1>19 DEF Given

\* A list for an attribute, given to the object while it is empty.
LEMMA ValueListPut ==
  ASSUME TextOK, ComplexKey(text) => Wrong(text, path), NEW kind, kind = "seq",
         NEW says \in Says, NEW N, Starts(kind, says, N), Role = "value",
         NEW st, NEW heap, NEW pos, NEW cell, Ready(st, heap, pos, cell),
         NEW b, Is(b, st, heap), Attribute(text[Here.node], text[Here.at]),
         text'[N].rule.type # "str"
  PROVE  \/ /\ PutDone(Handle(b, StartOf(kind), says), kind, N, st, heap, pos, cell)
            /\ NodeRight(text', N)
         \/ Refused(Handle(b, StartOf(kind), says))
<1>1. PICK m, key : m = Here.node /\ key = text[Here.at]
  OBVIOUS
<1>2. PICK name, below : name = key.says /\ below = Front(st)
  OBVIOUS
<1>3. Top(b).token = "key" /\ Top(b).value = KeyValue(key)
  BY <1>1, ValueTop
<1>4. heap \in Seq(Cells) /\ Len(heap) \in Nat
  BY DEF Ready
<1>5. PICK rule \in Rules : rule = text'[N].rule
  BY NodeRuleIs
<1>6. PICK new \in Nat : new = Len(heap) + 1
  BY <1>4
<1>7. PICK value \in Values : value = Ref("list", new)
  BY <1>6, ValueTypes
<1>8. PICK made, heap1 : made = Alloc(b, NewList) /\ heap1 = Append(heap, NewList)
  OBVIOUS
<1>9. PICK owner : owner = Pop(made)
  OBVIOUS
<1>10. NewList \in Cells
  BY DEF NewList, Cells, ListCell
<1>11. /\ heap1 \in Seq(Cells) /\ Len(heap1) = new /\ heap1[new] = NewList
       /\ \A i \in 1..Len(heap) : heap1[i] = heap[i]
  BY <1>4, <1>6, <1>8, <1>10, Appends
<1>12. Is(made, st, heap1) /\ Newest(made) = new /\ Is(owner, below, heap1)
  <2>1. Is(made, st, heap1)
    BY <1>8, BuilderAlloc
  <2> QED
    BY <1>2, <1>9, <1>11, <2>1, BuilderIsOf, BuilderPop
<1>13. Longer(heap, heap1)
  BY <1>4, <1>6, <1>11 DEF Longer
<1>14. Known(owner, KeyValue(key)) /\ Live(text[m]) /\ RuleOf(owner, KeyValue(key)) = rule
  BY <1>1, <1>2, <1>5, <1>12, <1>13, KnownIs, NodeRuleIs
<1>15. PICK makes : makes = IF rule.type = "repeated" THEN rule.of ELSE "other"
  OBVIOUS
<1>16. PICK x, frame : x = MapTo(owner, KeyValue(key), value) /\ frame = Sequencer(value, makes)
  OBVIOUS
<1>17. Handle(b, StartOf(kind), says) = Push(x, frame)
  BY <1>3, <1>7, <1>8, <1>9, <1>12, <1>14, <1>15, <1>16 DEF Handle, StartOf, SequenceStart
<1>18. PICK valid : valid = Validate(heap1, rule, value)
  OBVIOUS
<1>19. Given(x, valid, below, heap1, m, name, cell)
  BY <1>1, <1>2, <1>5, <1>12, <1>13, <1>16, <1>18, ValueGiven
<1>20. valid = IF rule.type = "repeated" THEN value ELSE Invalid
  BY <1>5, <1>7, <1>11, <1>18, ValidList
<1>21. text'[N].kind = "seq" /\ text'[N].as = "value"
  BY NewNodeIs, NodeRuleIs
<1>22. CASE Refused(x)
  BY <1>17, <1>22, PushRaised DEF Refused
<1>23. CASE valid = Invalid /\ x.raised = TRUE
  <2>1. value # Invalid
    BY <1>7, NotInvalid
  <2>2. rule.type # "repeated"
    BY <1>20, <1>23, <2>1
  <2>3. Fault(text', path', N)
    BY <1>5, <1>21, <2>2 DEF Fault, NodeRight, OpenMap
  <2> QED
    BY <1>17, <1>23, <2>3, PushRaised, FaultRefuses
<1>24. CASE /\ valid # Invalid /\ \A v \in In(text, m, "value") : KeyText(text, v) # name
            /\ Is(x, SeenFrame(below, name), PutAttr(heap1, cell[m], name, valid))
  <2>1. valid = value /\ rule.type = "repeated"
    BY <1>20, <1>24
  <2>2. PICK heap2, st1 : heap2 = PutAttr(heap1, cell[m], name, value) /\ st1 = SeenFrame(below, name)
    OBVIOUS
  <2>3. PICK st2 : st2 = Append(st1, frame)
    OBVIOUS
  <2>4. Is(Handle(b, StartOf(kind), says), st2, heap2)
    BY <1>17, <1>24, <2>1, <2>2, <2>3, BuilderPush
  <2>5. PICK class \in Classes : class = text[m].rule.of
    BY <1>1, <1>14, ValueObject
  <2>6. cell[m] \in 1..Len(heap) /\ heap[cell[m]] \in ObjectCell(class) /\ CellsOK(text, heap, cell)
    BY <1>1, <1>14, <2>5, ValueObject
  <2>7. name \in DOMAIN Schema[class]
    BY <1>1, <1>2, <2>5, NodeRuleIs
  <2>8. cell[m] \in 1..Len(heap1) /\ heap1[cell[m]] \in ObjectCell(class) /\ cell[m] # new
        /\ new \in 1..Len(heap1)
    BY <1>4, <1>6, <1>11, <2>6
  <2>9. heap2 \in Seq(Cells) /\ Len(heap2) = new /\ heap2[new] = NewList
    BY <1>11, <2>2, <2>7, <2>8, AttrPut
  <2>10. HasCell(text'[N]) /\ FreshCell(text'[N], heap2[new])
    BY <1>21, <2>9 DEF HasCell, FreshCell
  <2>11. PICK cell2 : CellsGrew(N, cell, heap2, cell2) /\ cell2[N] = new
    BY <1>4, <1>6, <2>6, <2>9, <2>10, CellsNew
  <2>12. value = Held(text'[N], cell2[N])
    BY <1>7, <1>21, <2>11 DEF Held
  <2>13. HeapGrew(N, heap, cell, heap2, cell2)
    BY <1>1, <1>2, <1>13, <1>14, <1>21, <1>24, <2>2, <2>11, <2>12, ValueHeap
  <2>14. key.kind = "leaf"
    BY <1>1 DEF Attribute
  <2>15. makes \in Classes \cup {"word", "nothing", "other"} /\ makes = rule.of
    BY <1>5, <1>15, <2>1, RuleTypesAre
  <2>16. /\ frame \in FrameType /\ frame.token = "sequence" /\ frame.value = Ref("list", new)
         /\ frame.makes = makes
    BY <1>7, <1>16, <2>15, ListFrame
  <2>17. FrameFits(text', N, frame, cell2)
    BY <1>5, <1>21, <2>1, <2>11, <2>15, <2>16 DEF FrameFits
  <2>18. st2 \in Seq(FrameType) /\ StackGrew(kind, N, st, pos, st2, cell2)
    BY <1>1, <1>2, <1>14, <2>2, <2>3, <2>14, <2>16, <2>17, ValueStack DEF Kinds
  <2>19. NodeRight(text', N)
    BY <1>5, <1>21, <2>1 DEF NodeRight
  <2> QED
    BY <2>4, <2>9, <2>13, <2>18, <2>19 DEF PutDone
<1> QED
  BY <1>19, <1>22, <1>23, <1>24 DEF Given
\* The value of a key, if it is not refused, is for an attribute and is right.
Fitting(kind, N) ==
  Role = "value" =>
    Attribute(text[Here.node], text[Here.at]) /\ (kind # "map" => NodeRight(text', N))
LEMMA NodePut ==
  ASSUME TextOK, ComplexKey(text) => Wrong(text, path), NEW kind \in Kinds,
         NEW says \in Says, NEW N, Starts(kind, says, N), Role # "root", Usual(text', roots'),
         NEW st, NEW heap, NEW pos, NEW cell, Ready(st, heap, pos, cell),
         NEW b, Is(b, st, heap)
  PROVE  \/ /\ PutDone(Handle(b, StartOf(kind), says), kind, N, st, heap, pos, cell)
            /\ Fitting(kind, N)
         \/ Refused(Handle(b, StartOf(kind), says))
<1>1. Role \in {"item", "key", "value"}
  BY Roles
<1>2. CASE Role = "key"
  BY <1>2, KeyPut DEF Fitting
<1>3. CASE Role = "item"
  <2>1. CASE kind = "leaf"
    BY <1>3, <2>1, ItemLeafPut DEF Fitting
  <2>2. CASE kind = "seq"
    BY <1>3, <2>2, ItemSeqPut DEF Fitting
  <2>3. CASE kind = "map"
    BY <1>3, <2>3, ItemMapPut DEF Fitting
  <2> QED
    BY <2>1, <2>2, <2>3 DEF Kinds
<1>4. CASE Role = "value" /\ ~Attribute(text[Here.node], text[Here.at])
  BY <1>4, ValueUnknown
<1>5. CASE Role = "value" /\ Attribute(text[Here.node], text[Here.at])
  <2>1. CASE kind = "leaf"
    BY <1>5, <2>1, ValueLeafPut DEF Fitting
  <2>2. CASE kind = "seq"
    <3>1. text'[N].kind = "seq" /\ N \in 1..Len(text')
      BY <2>2, NewNodeIs, StartsFacts
    <3>2. text'[N].rule.type # "str"
      BY <3>1 DEF Usual
    <3> QED
      BY <1>5, <2>2, <3>2, ValueListPut DEF Fitting
  <2>3. CASE kind = "map" /\ text'[N].rule.type = "object"
    BY <1>5, <2>3, ValueObjectPut DEF Fitting
  <2>4. CASE kind = "map" /\ text'[N].rule.type # "object"
    BY <1>5, <2>4, ValueNothingPut DEF Fitting
  <2> QED
    BY <2>1, <2>2, <2>3, <2>4 DEF Kinds
<1> QED
  BY <1>1, <1>2, <1>3, <1>4, <1>5

\* The roots have cells.
LEMMA RootCelled ==
  ASSUME NEW tx, NEW pa, NEW ro, TreeOK(tx, pa), RootsOK(tx, ro), Usual(tx, ro),
         NEW i \in 1..Len(ro)
  PROVE  ro[i] \in Celled(tx) /\ tx[ro[i]].rule = RootRule /\ tx[ro[i]].kind = "map"
<1>1. ro[i] \in 1..Len(tx) /\ tx[ro[i]].as = "root"
  BY DEF RootsOK
<1>2. NodeOK(tx, ro[i])
  BY <1>1 DEF TreeOK
<1>3. tx[ro[i]].rule = RootRule /\ tx[ro[i]].kind = "map"
  BY <1>1, <1>2 DEF NodeOK, Usual
<1>4. tx[ro[i]].rule.type = "object"
  BY <1>3 DEF RootRule
<1> QED
  BY <1>1, <1>3, <1>4 DEF Celled, HasCell, Live

LEMMA NotEmpty ==
  ASSUME NEW s, Len(s) # 0
  PROVE  s # <<>>
<1>1. Len(<<>>) = 0
  OBVIOUS
<1> QED
  BY <1>1

LEMMA InsideNot ==
  ASSUME NEW tx, NEW pa \in Seq(PlaceType), NEW op \in Seq(Events!Frames), Inside(tx, pa, op)
  PROVE  /\ op # <<"stream">> /\ op # <<"end">> /\ op # <<"error">> /\ op # <<"stream", "root">>
         /\ op # <<>>
<1>1. Len(op) = Len(pa) + 2 /\ op[2] = "rootdone" /\ Len(pa) \in Nat
  BY InsideLength
<1>2. Len(op) >= 2
  BY <1>1
<1>3. op # <<>> /\ Len(op) # 1
  <2>1. Len(op) # 0 /\ Len(op) # 1
    BY <1>1
  <2> QED
    BY <2>1, NotEmpty
<1> QED
  BY <1>1, <1>3, Singles

\* The documents that are done keep their objects.
LEMMA ResultsStay ==
  ASSUME NEW ro, NEW rs, NEW cell, ResultsOK(ro, rs, cell), NEW ro2, NEW cell2,
         \A i \in 1..Len(rs) : ro2[i] = ro[i] /\ cell2[ro[i]] = cell[ro[i]],
         Len(ro2) \in Nat, Len(ro) \in Nat, Len(ro2) >= Len(ro)
  PROVE  ResultsOK(ro2, rs, cell2)
<1>1. Len(rs) \in Nat /\ Len(rs) <= Len(ro2)
  BY DEF ResultsOK
<1>2. PICK n : n = Len(rs)
  OBVIOUS
<1>3. rs = [i \in 1..n |-> Ref("object", cell[ro[i]])]
  BY <1>2 DEF ResultsOK
<1>4. [i \in 1..n |-> Ref("object", cell[ro[i]])] = [i \in 1..n |-> Ref("object", cell2[ro2[i]])]
  BY <1>2
<1>5. rs = [i \in 1..Len(rs) |-> Ref("object", cell2[ro2[i]])]
  BY <1>2, <1>3, <1>4
<1> QED
  BY <1>1, <1>5 DEF ResultsOK

LEMMA RootsGrow ==
  ASSUME TextOK, NEW kind, NEW says, NEW N, Starts(kind, says, N)
  PROVE  /\ Len(roots) \in Nat /\ Len(roots') \in Nat /\ Len(roots') >= Len(roots)
         /\ \A i \in 1..Len(roots) : roots'[i] = roots[i]
         /\ Role = "root" => Len(roots') = Len(roots) + 1 /\ roots'[Len(roots) + 1] = N
         /\ Role # "root" => roots' = roots
<1>1. (Role = "root" => roots' = Append(roots, N)) /\ (Role # "root" => roots' = roots)
  BY PutRoots DEF Starts
<1>2. roots \in Seq(Nat) /\ N \in Nat
  BY StartsFacts DEF TextOK
<1>3. CASE Role = "root"
  <2>1. /\ roots' \in Seq(Nat) /\ Len(roots') = Len(roots) + 1 /\ roots'[Len(roots) + 1] = N
        /\ \A i \in 1..Len(roots) : roots'[i] = roots[i]
    BY <1>1, <1>2, <1>3, Appends
  <2> QED
    BY <1>2, <1>3, <2>1
<1>4. CASE Role # "root"
  BY <1>1, <1>2, <1>4
<1> QED
  BY <1>3, <1>4

\* What a node gives, put in the heap and on the stack, is what the builder has.
LEMMA PutGoes ==
  ASSUME TextOK, NEW kind \in Kinds, NEW says \in Says, NEW N, Starts(kind, says, N),
         Usual(text', roots'), NEW st \in Seq(FrameType), NEW heap \in Seq(Cells), NEW pos, NEW cell,
         HeapOK(text, heap, cell), ListsOK(text, path, heap, cell),
         StackOK(text, path, st, pos, cell), ResultsOK(roots, results, cell),
         NEW heap2 \in Seq(Cells), NEW st2 \in Seq(FrameType), NEW cell2,
         HeapGrew(N, heap, cell, heap2, cell2), StackGrew(kind, N, st, pos, st2, cell2),
         Len(roots') = Len(results) + 1, Document(st2[1], cell2[roots'[Len(roots')]]),
         NEW b, Is(b, st2, heap2)
  PROVE  /\ cell2 \in [Celled(text') -> 1..Len(b.heap)] /\ BuilderType(b)
         /\ BuilderIs(text', path', open', b, roots', results, cell2)
<1>1. HeapOK(text', heap2, cell2) /\ CellsGrew(N, cell, heap2, cell2)
  BY HeapPut DEF HeapGrew
<1>2. ListsOK(text', path', heap2, cell2)
  BY ListsPut
<1>3. \E pos2 \in [1..Len(path') -> 1..Len(st2)] : StackOK(text', path', st2, pos2, cell2)
  BY <1>1, StackPut
<1>4. b.stack = st2 /\ b.heap = heap2 /\ BuilderType(b)
  BY BuilderIsOf, RecordType
<1>5. NodesOpen(text', path', st2, heap2, roots', results, cell2)
  BY <1>2, <1>3 DEF NodesOpen
<1>6. Inside(text', path', open') /\ open' \in Seq(Events!Frames) /\ path' \in Seq(PlaceType)
  <2>1. Inside(text', path', open')
    BY PutOpen DEF Starts
  <2>2. TextOK'
    BY StartsText
  <2>3. TreeOK(text', path') /\ OpenOK(text', path', open')
    BY <2>2 DEF TextOK
  <2>4. open' \in Seq(Events!Frames)
    BY <2>3 DEF OpenOK
  <2>5. path' \in Seq(PlaceType)
    BY <2>3 DEF TreeOK
  <2> QED
    BY <2>1, <2>4, <2>5
<1>7. OpenIs(text', path', open', b, roots', results, cell2)
  <2>1. PICK op, pa : op = open' /\ pa = path'
    OBVIOUS
  <2>2. op # <<"stream">> /\ op # <<"end">> /\ op # <<"stream", "root">>
    BY <1>6, <2>1, InsideNot
  <2> QED
    BY <1>4, <1>5, <2>1, <2>2 DEF OpenIs
<1>8. Usual(text, roots) /\ TreeOK(text, path) /\ RootsOK(text, roots)
  BY UsualStays DEF TextOK
<1>9. /\ Len(roots) \in Nat /\ Len(roots') \in Nat /\ Len(roots') >= Len(roots)
      /\ \A i \in 1..Len(roots) : roots'[i] = roots[i]
  BY RootsGrow
<1>10. \A i \in 1..Len(roots) : cell2[roots[i]] = cell[roots[i]]
  BY <1>1, <1>8, RootCelled DEF CellsGrew
<1>11. 1..Len(results) \subseteq 1..Len(roots)
  BY <1>9 DEF ResultsOK
<1>12. ResultsOK(roots', results, cell2)
  BY <1>9, <1>10, <1>11, ResultsStay
<1> QED
  BY <1>1, <1>4, <1>7, <1>12 DEF BuilderIs, HeapOK, CellsOK
\* What the builder is after it: the event is refused, for a text that is wrong, or
\* the builder has what the text says.
Outcome(b2) ==
  \/ Refused(b2)
  \/ /\ BuilderType(b2) /\ ~b2.raised
     /\ \E cell \in [Celled(text') -> 1..Len(b2.heap)] :
          BuilderIs(text', path', open', b2, roots', results, cell)

LEMMA NodeOutcome ==
  ASSUME TextOK, ComplexKey(text) => Wrong(text, path), NEW kind \in Kinds,
         NEW says \in Says, NEW N, Starts(kind, says, N), Role # "root", Usual(text', roots'),
         NEW b, BuilderType(b), ~b.raised, NEW cell,
         BuilderIs(text, path, open, b, roots, results, cell)
  PROVE  \/ Refused(Handle(b, StartOf(kind), says))
         \/ Outcome(Handle(b, StartOf(kind), says)) /\ Fitting(kind, N)
<1>1. PICK st, heap : st = b.stack /\ heap = b.heap
  OBVIOUS
<1>2. /\ Is(b, st, heap) /\ st \in Seq(FrameType) /\ heap \in Seq(Cells)
  BY <1>1, BuilderRecord
<1>3. Inside(text, path, open)
  BY PutOpen DEF Starts
<1>4. HeapOK(text, heap, cell) /\ ResultsOK(roots, results, cell)
  BY <1>1 DEF BuilderIs
<1>5. NodesOpen(text, path, st, heap, roots, results, cell)
  BY <1>1, <1>3 DEF BuilderIs, OpenIs
<1>6. ListsOK(text, path, heap, cell) /\ Len(roots) = Len(results) + 1
      /\ Document(st[1], cell[roots[Len(roots)]])
  BY <1>5 DEF NodesOpen
<1>7. PICK pos : StackOK(text, path, st, pos, cell)
  BY <1>5 DEF NodesOpen
<1>8. path # <<>>
  BY Roles
<1>9. Ready(st, heap, pos, cell)
  BY <1>2, <1>4, <1>6, <1>7, <1>8 DEF Ready
<1>10. PICK b2 : b2 = Handle(b, StartOf(kind), says)
  OBVIOUS
<1>11. CASE Refused(b2)
  BY <1>10, <1>11
<1>12. CASE PutDone(b2, kind, N, st, heap, pos, cell) /\ Fitting(kind, N)
  <2>0. PICK heap2 \in Seq(Cells), st2 \in Seq(FrameType) :
           \E cell2 : /\ Is(b2, st2, heap2) /\ HeapGrew(N, heap, cell, heap2, cell2)
                      /\ StackGrew(kind, N, st, pos, st2, cell2)
    BY <1>12 DEF PutDone
  <2>1. PICK cell2 : /\ Is(b2, st2, heap2) /\ HeapGrew(N, heap, cell, heap2, cell2)
                     /\ StackGrew(kind, N, st, pos, st2, cell2)
    BY <2>0
  <2>2. roots' = roots
    BY RootsGrow
  <2>3. Len(roots) \in 1..Len(roots)
    <3>1. Len(roots) \in Nat /\ Len(results) \in Nat
      BY <1>4, Sorts DEF ResultsOK
    <3> QED
      BY <1>6, <3>1
  <2>4. roots[Len(roots)] \in Celled(text)
    BY <2>3, UsualStays, RootCelled DEF TextOK
  <2>5. cell2[roots[Len(roots)]] = cell[roots[Len(roots)]]
    BY <2>1, <2>4 DEF HeapGrew, CellsGrew
  <2>6. st2[1] = st[1]
    <3>1. PICK top : top = pos[Len(path)]
      OBVIOUS
    <3>2. top \in Nat /\ top >= 2
      BY <1>9, <3>1, ReadyTop
    <3>3. AboveTop(kind, N, st, top, st2)
      BY <1>8, <2>1, <3>1 DEF StackGrew
    <3>4. \A j \in 1..(top - 1) : st2[j] = st[j]
      BY <3>3 DEF AboveTop
    <3>5. 1 \in 1..(top - 1)
      BY <3>2
    <3> QED
      BY <3>4, <3>5
  <2>7. Document(st2[1], cell2[roots'[Len(roots')]]) /\ Len(roots') = Len(results) + 1
    BY <1>6, <2>2, <2>5, <2>6
  <2>8. /\ cell2 \in [Celled(text') -> 1..Len(b2.heap)] /\ BuilderType(b2)
        /\ BuilderIs(text', path', open', b2, roots', results, cell2)
    BY <1>2, <1>4, <1>6, <1>7, <2>1, <2>7, PutGoes
  <2>9. ~b2.raised
    BY <2>1 DEF Is
  <2> QED
    BY <1>10, <1>12, <2>8, <2>9 DEF Outcome
<1> QED
  BY <1>2, <1>9, <1>10, <1>11, <1>12, NodePut

\* The root of a document: the object was made as the document began.
LEMMA RootOutcome ==
  ASSUME TextOK, NEW kind \in Kinds,
         NEW says \in Says, NEW N, Starts(kind, says, N), Role = "root", Usual(text', roots'),
         NEW b, BuilderType(b), ~b.raised, NEW cell,
         BuilderIs(text, path, open, b, roots, results, cell)
  PROVE  Outcome(Handle(b, StartOf(kind), says))
<1>1. PICK st, heap : st = b.stack /\ heap = b.heap
  OBVIOUS
<1>2. /\ Is(b, st, heap) /\ st \in Seq(FrameType) /\ heap \in Seq(Cells) /\ Len(heap) \in Nat
  BY <1>1, BuilderRecord
<1>3. open = <<"stream", "root">> /\ path = <<>>
  BY PutOpen, Roles DEF Starts
<1>4. HeapOK(text, heap, cell) /\ ResultsOK(roots, results, cell) /\ CellsOK(text, heap, cell)
  BY <1>1 DEF BuilderIs, HeapOK
<1>5. RootOpen(st, heap, roots, results, cell)
  BY <1>1, <1>3 DEF BuilderIs, OpenIs
<1>6. PICK at \in 1..Len(heap) :
        /\ Document(st[1], at) /\ heap[at] = NewObject(Root)
        /\ \A n \in DOMAIN cell : cell[n] # at
  BY <1>5 DEF RootOpen
<1>7. Len(roots) = Len(results) /\ Len(st) = 1
  BY <1>5 DEF RootOpen
<1>8. Len(roots') = Len(results) + 1 /\ roots'[Len(roots')] = N /\ Len(roots') \in 1..Len(roots')
  <2>1. Len(roots) \in Nat /\ Len(roots') = Len(roots) + 1 /\ roots'[Len(roots) + 1] = N
    BY RootsGrow
  <2> QED
    BY <1>7, <2>1
<1>9. text'[N].kind = "map" /\ text'[N].rule = RootRule /\ N \in Celled(text')
  <2>1. TextOK'
    BY StartsText
  <2>2. TreeOK(text', path') /\ RootsOK(text', roots')
    BY <2>1 DEF TextOK
  <2>3. PICK i : i = Len(roots')
    OBVIOUS
  <2>4. i \in 1..Len(roots') /\ roots'[i] = N
    BY <1>8, <2>3
  <2> QED
    <3>1. PICK tx, pa, ro : tx = text' /\ pa = path' /\ ro = roots'
      OBVIOUS
    <3>2. TreeOK(tx, pa) /\ RootsOK(tx, ro) /\ Usual(tx, ro) /\ i \in 1..Len(ro) /\ ro[i] = N
      BY <2>2, <2>4, <3>1
    <3>3. ro[i] \in Celled(tx) /\ tx[ro[i]].rule = RootRule /\ tx[ro[i]].kind = "map"
      BY <3>2, RootCelled
    <3> QED
      BY <3>1, <3>2, <3>3
<1>10. kind = "map"
  BY <1>9, NewNodeIs
<1>11. Last(st) = st[1] /\ st # <<>>
  <2>0. Len(st) # 0
    BY <1>7
  <2>1. st # <<>>
    BY <2>0, NotEmpty
  <2> QED
    BY <1>2, <1>7, <2>1, Fronts
<1>12. Top(b) = st[1] /\ st[1].token = "document" /\ st[1].value = Ref("object", at)
  BY <1>2, <1>6, <1>11, BuilderIsOf DEF Document
<1>13. PICK frame : frame = Mapper(Ref("object", at))
  OBVIOUS
<1>14. at \in Nat
  BY <1>2
<1>15. /\ frame \in FrameType /\ frame.token = "mapping" /\ frame.value = Ref("object", at)
       /\ frame.seen = {}
  BY <1>13, <1>14, ObjectFrame
<1>16. PICK b2 : b2 = Handle(b, StartOf(kind), says)
  OBVIOUS
<1>17. b2 = Push(b, frame)
  BY <1>10, <1>12, <1>13, <1>16 DEF Handle, StartOf, MappingStart
<1>18. PICK st2 : st2 = Append(st, frame)
  OBVIOUS
<1>19. Is(b2, st2, heap)
  BY <1>2, <1>17, <1>18, BuilderPush
<1>20. /\ st2 \in Seq(FrameType) /\ Len(st2) = 2 /\ st2[2] = frame /\ st2[1] = st[1]
  <2>1. PICK len \in Nat : len = Len(st)
    BY <1>7
  <2>2. /\ st2 \in Seq(FrameType) /\ Len(st2) = len + 1 /\ st2[len + 1] = frame
        /\ \A i \in 1..len : st2[i] = st[i]
    BY <1>2, <1>15, <1>18, <2>1, Pushed
  <2> QED
    BY <1>7, <2>1, <2>2
<1>21. PICK cell2 : cell2 = [n \in Celled(text') |-> IF n = N THEN at ELSE cell[n]]
  OBVIOUS
<1>22. /\ cell2[N] = at /\ \A n \in Celled(text) : cell2[n] = cell[n] /\ cell[n] # at
  <2>1. \A n \in Celled(text) : n \in Celled(text') /\ n # N
    BY CelledGrows
  <2>2. DOMAIN cell = Celled(text)
    BY <1>4 DEF CellsOK
  <2> QED
    BY <1>6, <1>9, <1>21, <2>1, <2>2
<1>23. cell2 \in [Celled(text') -> 1..Len(heap)]
  <2>1. \A n \in Celled(text') : n = N \/ n \in Celled(text)
    BY CelledGrows
  <2>2. \A n \in Celled(text) : cell[n] \in 1..Len(heap)
    BY <1>4 DEF CellsOK
  <2>3. \A n \in Celled(text') : cell2[n] \in 1..Len(heap)
    BY <1>6, <1>22, <2>1, <2>2
  <2> QED
    BY <1>21, <2>3
<1>24. FreshCell(text'[N], heap[cell2[N]])
  BY <1>6, <1>9, <1>22 DEF FreshCell, RootRule
<1>25. CellsGrew(N, cell, heap, cell2)
  BY <1>22, <1>23, <1>24 DEF CellsGrew
<1>26. HeapGrew(N, heap, cell, heap, cell2)
  BY <1>25 DEF HeapGrew, OthersSame, ValuePut, ItemPut
<1>27. FrameFits(text', N, frame, cell2)
  <2>1. In(text', N, "value") = {}
    BY NewIsEmpty
  <2>2. Live(text'[N])
    BY <1>9 DEF Live, RootRule
  <2> QED
    BY <1>9, <1>15, <1>22, <2>1, <2>2 DEF FrameFits
<1>28. Len(path) = 0
  BY <1>3
<1>29. PICK pos : pos = [i \in 1..Len(path) |-> 1]
  OBVIOUS
<1>30. StackOK(text, path, st, pos, cell) /\ ListsOK(text, path, heap, cell)
  <2>1. PosOK(text, path, Len(st), pos)
    BY <1>7, <1>28, <1>29 DEF PosOK
  <2>2. FramesOK(text, path, st, pos, cell) /\ ListsOK(text, path, heap, cell)
    BY <1>28 DEF FramesOK, ListsOK
  <2> QED
    BY <2>1, <2>2 DEF StackOK
<1>31. StackGrew(kind, N, st, pos, st2, cell2)
  BY <1>3, <1>10, <1>20, <1>27 DEF StackGrew, AboveRoot
<1>32. Document(st2[1], cell2[roots'[Len(roots')]])
  BY <1>6, <1>8, <1>20, <1>22
<1>33. /\ cell2 \in [Celled(text') -> 1..Len(b2.heap)] /\ BuilderType(b2)
       /\ BuilderIs(text', path', open', b2, roots', results, cell2)
  BY <1>2, <1>4, <1>8, <1>19, <1>20, <1>26, <1>30, <1>31, <1>32, PutGoes
<1> QED
  BY <1>16, <1>19, <1>33 DEF Outcome, Is
(* ---------------------------- a collection ends -------------------------- *)

Shrinking(k, e, len, pos, l, len2, pos2) ==
  /\ k \in Nat \ {0} /\ e \in [1..k -> {0, 1}] /\ len \in Nat /\ Numbers(k, e, len, pos)
  /\ e[k] = 0 /\ l = k - 1 /\ len2 = len - 1 /\ pos2 = [i \in 1..l |-> pos[i]]
LEMMA Shrunk ==
  ASSUME NEW k, NEW e, NEW len, NEW pos, NEW l, NEW len2, NEW pos2,
         Shrinking(k, e, len, pos, l, len2, pos2)
  PROVE  /\ pos2 \in [1..l -> 1..len2] /\ l \in Nat
         /\ l = 0 => len2 = 1
         /\ l # 0 => pos2[1] = 2 /\ len2 = pos2[l] + e[l]
<1>1. /\ k \in Nat \ {0} /\ len \in Nat /\ e[k] = 0 /\ l = k - 1 /\ len2 = len - 1
      /\ pos2 = [i \in 1..l |-> pos[i]] /\ e \in [1..k -> {0, 1}]
  BY DEF Shrinking
<1>2. /\ pos \in [1..k -> 1..len] /\ pos[1] = 2 /\ len = pos[k] + e[k]
      /\ \A i \in 1..k : i # 1 => pos[i] = pos[i - 1] + e[i - 1] + 1
      /\ \A i, j \in 1..k : i < j => pos[i] + e[i] < pos[j]
  BY DEF Shrinking, Numbers
<1>3. len = pos[k] /\ k \in 1..k /\ l \in Nat /\ \A i \in 1..l : i \in 1..k /\ i < k
  BY <1>1, <1>2
<1>4. ASSUME NEW i \in 1..l PROVE pos2[i] \in 1..len2
  <2>1. pos[i] + e[i] < len /\ pos[i] \in 1..len /\ e[i] \in {0, 1} /\ pos2[i] = pos[i]
    BY <1>1, <1>2, <1>3
  <2> QED
    BY <1>1, <2>1
<1>5. pos2 \in [1..l -> 1..len2]
  BY <1>1, <1>4
<1>6. l = 0 => len2 = 1
  BY <1>1, <1>2, <1>3
<1>7. l # 0 => pos2[1] = 2 /\ len2 = pos2[l] + e[l]
  <2> SUFFICES ASSUME l # 0 PROVE pos2[1] = 2 /\ len2 = pos2[l] + e[l]
    OBVIOUS
  <2>1. l \in 1..l /\ 1 \in 1..l /\ k # 1 /\ k - 1 = l
    BY <1>1, <1>3
  <2>2. pos[k] = pos[l] + e[l] + 1
    BY <1>2, <1>3, <2>1
  <2>3. pos2[l] = pos[l] /\ pos2[1] = pos[1]
    BY <1>1, <2>1
  <2>4. pos[l] \in Nat /\ e[l] \in Nat
    BY <1>1, <1>2, <1>3, <2>1
  <2> QED
    BY <1>1, <1>2, <1>3, <2>2, <2>3, <2>4
<1> QED
  BY <1>3, <1>5, <1>6, <1>7

EndPos(pos) == [i \in 1..Len(path') |-> pos[i]]
LEMMA PosEnd ==
  ASSUME TextOK, Left, Above.kind = "seq" \/ Here.at = 0, NEW len \in Nat, NEW pos,
         PosOK(text, path, len, pos)
  PROVE  PosOK(text', path', len - 1, EndPos(pos))
<1>1. PICK k \in Nat \ {0} : k = Len(path)
  BY LeftPath
<1>2. PICK l \in Nat : l = k - 1
  BY <1>1
<1>3. /\ Len(path') = l /\ text' = text /\ \A i \in 1..l : path'[i] = path[i] /\ i \in 1..k
  BY <1>1, <1>2, LeftPath
<1>4. PICK e : e = [i \in 1..k |-> Extra(text, path, i)]
  OBVIOUS
<1>5. PICK pos2 : pos2 = EndPos(pos)
  OBVIOUS
<1>6. e \in [1..k -> {0, 1}]
  BY <1>4, ExtraType
<1>7. e[k] = 0
  <2>1. Here = path[k] /\ path # <<>>
    BY <1>1, Sorts, Empty, Roles
  <2>2. ~Pending(text, path, k)
    BY <2>1, HereNode DEF Pending
  <2> QED
    BY <1>4, <2>2 DEF Extra
<1>8. Numbers(k, e, len, pos)
  <2>1. k \in 1..k
    OBVIOUS
  <2>2. \A i \in 1..k : i # 1 => i - 1 \in 1..k
    OBVIOUS
  <2> QED
    BY <1>1, <1>4, <2>1, <2>2 DEF PosOK, Numbers
<1>9. PICK len2 : len2 = len - 1
  OBVIOUS
<1>10. pos2 = [i \in 1..l |-> pos[i]]
  BY <1>3, <1>5 DEF EndPos
<1>11. /\ pos2 \in [1..l -> 1..len2] /\ (l = 0 => len2 = 1)
       /\ (l # 0 => pos2[1] = 2 /\ len2 = pos2[l] + e[l])
  <2>1. Shrinking(k, e, len, pos, l, len2, pos2)
    BY <1>2, <1>6, <1>7, <1>8, <1>9, <1>10 DEF Shrinking
  <2> QED
    BY <2>1, Shrunk
<1>12. \A i \in 1..l : e[i] = Extra(text', path', i)
  BY <1>3, <1>4 DEF Extra, Pending
<1>13. /\ \A i \in 1..k : i # 1 => pos[i] = pos[i - 1] + e[i - 1] + 1
       /\ \A i, j \in 1..k : i < j => pos[i] + e[i] < pos[j]
  BY <1>8 DEF Numbers
<1>14. \A i \in 1..l : i # 1 => pos2[i] = pos2[i - 1] + Extra(text', path', i - 1) + 1
  <2> SUFFICES ASSUME NEW i \in 1..l, i # 1
               PROVE  pos2[i] = pos2[i - 1] + Extra(text', path', i - 1) + 1
    OBVIOUS
  <2>1. i - 1 \in 1..l /\ i \in 1..k
    BY <1>3
  <2>2. pos[i] = pos[i - 1] + e[i - 1] + 1
    BY <1>13, <2>1
  <2>3. pos2[i] = pos[i] /\ pos2[i - 1] = pos[i - 1] /\ e[i - 1] = Extra(text', path', i - 1)
    BY <1>10, <1>12, <2>1
  <2> QED
    BY <2>2, <2>3
<1>15. \A i, j \in 1..l : i < j => pos2[i] + Extra(text', path', i) < pos2[j]
  <2> SUFFICES ASSUME NEW i \in 1..l, NEW j \in 1..l, i < j
               PROVE  pos2[i] + Extra(text', path', i) < pos2[j]
    OBVIOUS
  <2>1. pos[i] + e[i] < pos[j]
    BY <1>3, <1>13
  <2>2. pos2[i] = pos[i] /\ pos2[j] = pos[j] /\ e[i] = Extra(text', path', i)
    BY <1>10, <1>12
  <2> QED
    BY <2>1, <2>2
<1>16. l # 0 => l \in 1..l
  OBVIOUS
<1>17. len2 = IF l = 0 THEN 1 ELSE pos2[l] + Extra(text', path', l)
  BY <1>11, <1>12, <1>16
<1> QED
  BY <1>3, <1>5, <1>9, <1>11, <1>14, <1>15, <1>17 DEF PosOK

LEMMA StackEnd ==
  ASSUME TextOK, Left, Above.kind = "seq" \/ Here.at = 0, NEW st \in Seq(FrameType), NEW pos,
         NEW cell, StackOK(text, path, st, pos, cell), NEW st2, st2 = Front(st)
  PROVE  /\ st2 \in Seq(FrameType) /\ st2[1] = st[1] /\ st # <<>>
         /\ FrameFits(text, Here.node, Last(st), cell)
         /\ \E pos2 \in [1..Len(path') -> 1..Len(st2)] : StackOK(text', path', st2, pos2, cell)
<1>1. PICK k \in Nat \ {0} : k = Len(path)
  BY LeftPath
<1>2. PICK l \in Nat : l = k - 1
  BY <1>1
<1>3. /\ Len(path') = l /\ text' = text /\ \A i \in 1..l : path'[i] = path[i] /\ i \in 1..k
  BY <1>1, <1>2, LeftPath
<1>4. path # <<>>
  BY DEF Left
<1>5. PICK top : top = pos[Len(path)]
  OBVIOUS
<1>6. Role # "value"
  BY <1>4, Roles
<1>7. /\ top \in Nat /\ top >= 2 /\ Len(st) = top /\ st # <<>>
      /\ FrameFits(text, Here.node, st[top], cell)
  BY <1>4, <1>5, <1>6, TopOf
<1>8. /\ st2 \in Seq(FrameType) /\ Len(st2) = top - 1 /\ Last(st) = st[top]
      /\ \A i \in 1..(top - 1) : st2[i] = st[i]
  BY <1>7, Fronts
<1>9. PosOK(text, path, top, pos) /\ FramesOK(text, path, st, pos, cell)
  BY <1>7 DEF StackOK
<1>10. PICK pos2 : pos2 = EndPos(pos)
  OBVIOUS
<1>11. PosOK(text', path', Len(st2), pos2)
  BY <1>7, <1>8, <1>9, <1>10, PosEnd
<1>12. pos2 \in [1..l -> 1..Len(st2)]
  BY <1>3, <1>11 DEF PosOK
<1>13. FramesOK(text', path', st2, pos2, cell)
  <2> SUFFICES ASSUME NEW i \in 1..l
               PROVE  /\ FrameFits(text', path'[i].node, st2[pos2[i]], cell)
                      /\ Pending(text', path', i) => KeyFits(text'[path'[i].at], st2[pos2[i] + 1])
    BY <1>3 DEF FramesOK
  <2>1. i \in 1..k /\ path'[i] = path[i] /\ pos2[i] = pos[i]
    BY <1>3, <1>10 DEF EndPos
  <2>2. /\ FrameFits(text, path[i].node, st[pos[i]], cell)
        /\ Pending(text, path, i) => KeyFits(text[path[i].at], st[pos[i] + 1])
    BY <1>1, <1>9, <2>1 DEF FramesOK
  <2>3. pos[i] + Extra(text, path, i) < top
    <3>1. i < k /\ k \in 1..k
      BY <1>2
    <3> QED
      BY <1>1, <1>5, <1>9, <2>1, <3>1 DEF PosOK
  <2>4. pos[i] \in Nat \ {0}
    BY <1>12, <2>1
  <2>5. pos[i] \in 1..(top - 1) /\ st2[pos[i]] = st[pos[i]]
    <3>1. Extra(text, path, i) \in {0, 1}
      BY ExtraType
    <3>2. pos[i] \in 1..(top - 1)
      BY <1>7, <2>3, <2>4, <3>1
    <3> QED
      BY <1>8, <3>2
  <2>6. Pending(text, path, i) => st2[pos[i] + 1] = st[pos[i] + 1]
    <3> SUFFICES ASSUME Pending(text, path, i) PROVE pos[i] + 1 \in 1..(top - 1)
      BY <1>8
    <3>1. Extra(text, path, i) = 1
      BY DEF Extra
    <3> QED
      BY <1>7, <2>3, <2>4, <3>1
  <2>7. Pending(text', path', i) <=> Pending(text, path, i)
    BY <1>3, <2>1 DEF Pending
  <2> QED
    BY <1>3, <2>1, <2>2, <2>5, <2>6, <2>7
<1>14. st2[1] = st[1]
  <2>1. 1 \in 1..(top - 1)
    BY <1>7
  <2> QED
    BY <1>8, <2>1
<1>15. StackOK(text', path', st2, pos2, cell)
  BY <1>11, <1>13 DEF StackOK
<1> QED
  BY <1>3, <1>7, <1>8, <1>12, <1>14, <1>15
(* --------------------------- an object is checked ------------------------ *)

LEMMA CellOf ==
  ASSUME NEW tx, NEW heap, NEW cell, HeapOK(tx, heap, cell), NEW n \in 1..Len(tx), HasCell(tx[n])
  PROVE  CellHeld(tx, n, heap[cell[n]], cell) /\ cell[n] \in 1..Len(heap) /\ n \in Celled(tx)
<1>1. n \in Celled(tx)
  BY DEF Celled
<1> QED
  BY <1>1 DEF HeapOK, CellsOK

LEMMA ClassOf ==
  ASSUME NEW tx, NEW heap, NEW cell, HeapOK(tx, heap, cell), NEW n \in 1..Len(tx), Live(tx[n])
  PROVE  /\ heap[cell[n]] \in ObjectCell(tx[n].rule.of) /\ heap[cell[n]].class = tx[n].rule.of
         /\ MapHeld(tx, n, heap[cell[n]], cell) /\ tx[n].rule.of \in Classes
<1>1. HasCell(tx[n]) /\ tx[n].kind = "map"
  BY DEF HasCell, Live
<1>2. MapHeld(tx, n, heap[cell[n]], cell)
  BY <1>1, CellOf DEF CellHeld
<1>3. heap[cell[n]] \in ObjectCell(tx[n].rule.of) /\ tx[n].rule.of \in Classes
  BY <1>2 DEF MapHeld
<1> QED
  BY <1>2, <1>3 DEF ObjectCell

LEMMA ItemNode ==
  ASSUME TextOK, NEW v, NEW w \in In(text, v, "item"), text[v].rule.type = "repeated"
  PROVE  /\ w \in 1..Len(text) /\ text[w].as = "item" /\ text[w].rule = Item(text[v].rule)
         /\ text[v].rule \in RuleTypes /\ text[w].rule.type \in {"word", "object"}
         /\ text[w].rule.optional = FALSE
         /\ text[w].kind \in {"leaf", "map", "seq"}
<1>1. /\ w \in 1..Len(text) /\ text[w].up = v /\ text[w].as = "item" /\ NodeOK(text, w)
      /\ text[w] \in NodeType /\ v \in 1..Len(text)
  BY ChildrenAfter
<1>2. text[w].rule = ItemRule(text[v])
  BY <1>1 DEF NodeOK
<1>3. text[v] \in NodeType
  BY <1>1, Sorts
<1>4. text[v].rule \in RuleTypes
  BY <1>3 DEF NodeType, RuleTypes
<1> QED
  BY <1>1, <1>2, <1>4, ItemTypes DEF ItemRule, NodeType

\* An item is valid when it is what the rule wants.
LEMMA ItemValid ==
  ASSUME TextOK, NEW heap, NEW cell, HeapOK(text, heap, cell),
         NEW v, NEW w \in In(text, v, "item"), text[v].rule.type = "repeated",
         text[w].kind = "map" => Live(text[w])
  PROVE  ValidItem(heap, Item(text[v].rule), Held(text[w], cell[w])) # Invalid
           <=> ItemFits(text[w])
<1>1. /\ w \in 1..Len(text) /\ text[w].as = "item" /\ text[w].rule.type \in {"word", "object"}
      /\ text[w].rule.optional = FALSE /\ text[w].kind \in {"leaf", "map", "seq"}
  BY ItemNode
<1>2. PICK rule : rule = text[w].rule /\ rule = Item(text[v].rule)
  BY ItemNode
<1>3. PICK held : held = Held(text[w], cell[w])
  OBVIOUS
<1>4. CASE text[w].kind = "leaf" /\ text[w].says = "null"
  <2>1. held = None
    BY <1>3, <1>4 DEF Held
  <2>2. ValidItem(heap, rule, held) = Invalid
    BY <1>1, <1>2, <2>1 DEF ValidItem, None
  <2>3. ~ItemFits(text[w])
    BY <1>1, <1>4 DEF ItemFits, LeafRight
  <2> QED
    BY <1>2, <1>3, <2>2, <2>3
<1>5. CASE text[w].kind = "leaf" /\ text[w].says # "null"
  <2>1. held = Str(text[w].says) /\ held.kind = "str"
    BY <1>3, <1>5 DEF Held, Str
  <2>2. held # Invalid
    BY <2>1, NotInvalid
  <2>3. ValidItem(heap, rule, held) = IF rule.type = "word" THEN held ELSE Invalid
    BY <1>1, <1>2, <2>1 DEF ValidItem
  <2>4. ItemFits(text[w]) <=> rule.type = "word"
    BY <1>1, <1>2, <1>5 DEF ItemFits, LeafRight
  <2> QED
    BY <1>2, <1>3, <2>2, <2>3, <2>4
<1>6. CASE text[w].kind = "map"
  <2>1. Live(text[w]) /\ rule.type = "object"
    BY <1>2, <1>6 DEF Live
  <2>2. held = Ref("object", cell[w]) /\ held.kind = "object" /\ held.at = cell[w]
    BY <1>3, <1>6, <2>1 DEF Held, Ref
  <2>3. heap[cell[w]].class = rule.of
    <3>1. heap[cell[w]].class = text[w].rule.of
      BY <1>1, <2>1, ClassOf
    <3> QED
      BY <1>2, <3>1
  <2>4. ValidItem(heap, rule, held) = held
    BY <2>1, <2>2, <2>3 DEF ValidItem
  <2>5. held # Invalid
    BY <2>2, NotInvalid
  <2>6. ItemFits(text[w])
    BY <1>2, <1>6, <2>1 DEF ItemFits
  <2> QED
    BY <1>2, <1>3, <2>4, <2>5, <2>6
<1>7. CASE text[w].kind = "seq"
  <2>1. held = Wrapper /\ held.kind = "wrapper"
    BY <1>1, <1>3, <1>7 DEF Held, Wrapper
  <2>2. ValidItem(heap, rule, held) = Invalid
    BY <1>1, <1>2, <2>1 DEF ValidItem
  <2> QED
    BY <1>2, <1>3, <1>7, <2>2 DEF ItemFits
<1> QED
  BY <1>1, <1>4, <1>5, <1>6, <1>7

LEMMA ItemWrong ==
  ASSUME TextOK, NEW v, NEW w \in In(text, v, "item"), text[v].rule.type = "repeated",
         text[w].kind # "map", ~ItemFits(text[w])
  PROVE  Wrong(text, path)
<1>1. /\ w \in 1..Len(text) /\ text[w].as = "item" /\ text[w].rule.type \in {"word", "object"}
      /\ text[w].kind \in {"leaf", "seq"}
  BY ItemNode
<1>2. ~NodeRight(text, w)
  BY <1>1 DEF ItemFits, NodeRight
<1>3. Fault(text, path, w)
  BY <1>1, <1>2 DEF Fault, OpenMap
<1> QED
  BY <1>1, <1>3 DEF Wrong

\* A list, when the object that has it is checked.
LEMMA ListValid ==
  ASSUME TextOK, NEW heap, NEW cell, HeapOK(text, heap, cell), NEW v \in 1..Len(text),
         text[v].kind = "seq", text[v].rule.type = "repeated"
  PROVE  /\ Validate(heap, text[v].rule, Ref("list", cell[v])) = Invalid => Wrong(text, path)
         /\ BadList(text, v) => Validate(heap, text[v].rule, Ref("list", cell[v])) = Invalid
<1>1. PICK list, items : list = heap[cell[v]] /\ items = list.items
  OBVIOUS
<1>2. SeqHeld(text, v, list, cell)
  BY <1>1, CellOf DEF HasCell, CellHeld
<1>3. /\ list \in ListCell /\ items \in Seq(Values)
  BY <1>1, <1>2 DEF SeqHeld, ListCell
<1>4. DOMAIN items = 1..Len(items)
  BY <1>3
<1>5. PICK rule : rule = text[v].rule
  OBVIOUS
<1>6. Validate(heap, rule, Ref("list", cell[v])) = Invalid
        <=> \E i \in 1..Len(items) : ValidItem(heap, Item(rule), items[i]) = Invalid
  <2>1. Ref("list", cell[v]).kind = "list" /\ Ref("list", cell[v]).at = cell[v]
    BY DEF Ref
  <2>2. Ref("list", cell[v]) # Invalid
    BY NotInvalid
  <2> QED
    BY <1>1, <1>4, <1>5, <2>1, <2>2 DEF Validate
<1>7. \A w \in In(text, v, "item") : /\ text[w].at \in 1..Len(items)
                                     /\ items[text[w].at] = Held(text[w], cell[w])
                                     /\ text[w].kind = "map" => Live(text[w])
  BY <1>1, <1>2 DEF SeqHeld
<1>8. \A w \in In(text, v, "item") :
        ValidItem(heap, Item(rule), items[text[w].at]) # Invalid <=> ItemFits(text[w])
  BY <1>5, <1>7, ItemValid
<1>9. ASSUME Validate(heap, rule, Ref("list", cell[v])) = Invalid PROVE Wrong(text, path)
  <2>1. PICK i \in 1..Len(items) : ValidItem(heap, Item(rule), items[i]) = Invalid
    BY <1>6, <1>9
  <2>2. PICK w \in In(text, v, "item") : text[w].at = i
    BY <1>1, <1>2 DEF SeqHeld
  <2>3. ~ItemFits(text[w])
    BY <1>8, <2>1, <2>2
  <2>4. text[w].kind # "map"
    BY <1>7, <2>3 DEF ItemFits, Live
  <2> QED
    BY <2>3, <2>4, ItemWrong
<1>10. ASSUME BadList(text, v) PROVE Validate(heap, rule, Ref("list", cell[v])) = Invalid
  <2>1. PICK w \in In(text, v, "item") : ~ItemFits(text[w])
    BY <1>10 DEF BadList
  <2> QED
    BY <1>6, <1>7, <1>8, <2>1
<1> QED
  BY <1>5, <1>9, <1>10

\* The value of a key of an object.
LEMMA ValueNode ==
  ASSUME TextOK, NEW m, NEW v \in In(text, m, "value"), Attribute(text[m], text[text[v].at])
  PROVE  /\ v \in 1..Len(text) /\ text[v].as = "value"
         /\ text[v].rule = Schema[text[m].rule.of][KeyText(text, v)]
         /\ text[v].rule \in Rules /\ text[v].kind \in {"leaf", "map", "seq"}
         /\ text[v].at \in In(text, m, "key")
<1>1. /\ v \in 1..Len(text) /\ text[v].up = m /\ text[v].as = "value" /\ NodeOK(text, v)
      /\ text[v] \in NodeType /\ m \in 1..Len(text)
  BY ChildrenAfter
<1>2. text[v].rule = ValueRule(text[m], text[text[v].at]) /\ text[v].at \in In(text, m, "key")
  BY <1>1 DEF NodeOK
<1>3. text[v].rule = Schema[text[m].rule.of][KeyText(text, v)]
  BY <1>2 DEF ValueRule, KeyText
<1>4. text[m] \in NodeType
  BY <1>1, Sorts
<1>5. text[v].rule \in Rules
  BY <1>3, <1>4, AttributeRules DEF KeyText
<1> QED
  BY <1>1, <1>2, <1>3, <1>5 DEF NodeType

LEMMA HeldValid ==
  ASSUME TextOK, Usual(text, roots), NEW heap, NEW cell, HeapOK(text, heap, cell),
         NEW m, NEW v \in In(text, m, "value"), Attribute(text[m], text[text[v].at])
  PROVE  /\ Validate(heap, text[v].rule, Held(text[v], cell[v])) = Invalid => Wrong(text, path)
         /\ BadList(text, v) => Validate(heap, text[v].rule, Held(text[v], cell[v])) = Invalid
<1>1. /\ v \in 1..Len(text) /\ text[v].as = "value" /\ text[v].rule \in Rules
      /\ text[v].kind \in {"leaf", "map", "seq"}
  BY ValueNode
<1>2. PICK rule \in Rules : rule = text[v].rule
  BY <1>1
<1>3. PICK held : held = Held(text[v], cell[v])
  OBVIOUS
<1>4. CASE text[v].kind = "leaf"
  <2>1. held = IF text[v].says = "null" THEN None ELSE Str(text[v].says)
    BY <1>3, <1>4 DEF Held
  <2>2. held # Invalid
    BY <2>1, NotInvalid
  <2>3. Validate(heap, rule, held) = IF LeafRight(text[v]) THEN held ELSE Invalid
    BY <1>2, <2>1, ValidLeaf DEF LeafRight
  <2>4. ~LeafRight(text[v]) => Fault(text, path, v)
    BY <1>1, <1>4 DEF Fault, OpenMap, NodeRight
  <2>5. ~BadList(text, v)
    BY <1>4 DEF BadList
  <2> QED
    BY <1>1, <1>2, <1>3, <2>2, <2>3, <2>4, <2>5 DEF Wrong
<1>5. CASE text[v].kind = "map"
  <2>1. ~BadList(text, v)
    BY <1>5 DEF BadList
  <2>2. CASE rule.type = "object"
    <3>1. Live(text[v])
      BY <1>2, <1>5, <2>2 DEF Live
    <3>2. held = Ref("object", cell[v])
      BY <1>3, <1>5, <3>1 DEF Held
    <3>3. heap[cell[v]].class = rule.of
      BY <1>1, <1>2, <3>1, ClassOf
    <3>4. Validate(heap, rule, held) = held
      BY <2>2, <3>2, <3>3, ValidObject
    <3>5. held # Invalid
      BY <3>2, NotInvalid
    <3> QED
      BY <1>2, <1>3, <2>1, <3>4, <3>5
  <2>3. CASE rule.type # "object"
    <3>1. Fault(text, path, v)
      BY <1>1, <1>2, <1>5, <2>3 DEF Fault, NodeRight, KeysRight
    <3> QED
      BY <1>1, <2>1, <3>1 DEF Wrong
  <2> QED
    BY <2>2, <2>3
<1>6. CASE text[v].kind = "seq"
  <2>1. held = Ref("list", cell[v])
    BY <1>1, <1>3, <1>6 DEF Held
  <2>2. CASE rule.type = "repeated"
    BY <1>1, <1>2, <1>3, <1>6, <2>1, <2>2, ListValid
  <2>3. CASE rule.type # "repeated"
    <3>1. Fault(text, path, v)
      BY <1>1, <1>2, <1>6, <2>3 DEF Fault, NodeRight, OpenMap
    <3>2. ~BadList(text, v)
      BY <1>2, <2>3 DEF BadList
    <3> QED
      BY <1>1, <3>1, <3>2 DEF Wrong
  <2> QED
    BY <2>2, <2>3
<1> QED
  BY <1>1, <1>4, <1>5, <1>6
\* When a mapping ends, its keys have their values.
AllDone(m) == \A key \in In(text, m, "key") : \E v \in In(text, m, "value") : text[v].at = key
LEMMA KeysDone ==
  ASSUME TextOK, path # <<>>, Here.at = 0, NEW m, m = Here.node
  PROVE  AllDone(m)
<1> SUFFICES ASSUME NEW key \in In(text, m, "key")
             PROVE  \E v \in In(text, m, "value") : text[v].at = key
  BY DEF AllDone
<1>1. key \in 1..Len(text) /\ text[key].as = "key" /\ text[key].up = m
  BY DEF In
<1>2. KeyDone(text, path, key)
  BY <1>1 DEF TextOK, TreeOK
<1>3. ASSUME NEW i \in 1..Len(path), path[i].node = m, path[i].at = key PROVE FALSE
  <2>1. (i < Len(path) => path[i].node # Here.node) /\ (i = Len(path) => path[i] = Here)
        /\ Len(path) \in Nat
    BY PathNodes
  <2>2. i = Len(path)
    BY <1>3, <2>1
  <2> QED
    BY <1>1, <1>3, <2>1, <2>2
<1> QED
  BY <1>1, <1>2, <1>3 DEF KeyDone

\* What CheckInitialized finds.
AllValid(heap, object) ==
  \A a \in DOMAIN object.attrs :
    Validate(heap, Schema[object.class][a], object.attrs[a]) # Invalid

LEMMA Checked ==
  ASSUME TextOK, Usual(text, roots), NEW heap, NEW cell, HeapOK(text, heap, cell),
         NEW m \in 1..Len(text), Live(text[m]), AllDone(m), NEW object, object = heap[cell[m]]
  PROVE  /\ AllValid(heap, object) =>
              NodeRight(text, m) /\ \A v \in In(text, m, "value") : ~BadList(text, v)
         /\ ~AllValid(heap, object) => Wrong(text, path) \/ ~HasAll(text, m)
<1>1. PICK class \in Classes : class = text[m].rule.of
  BY ClassOf
<1>2. object \in ObjectCell(class) /\ object.class = class /\ MapHeld(text, m, object, cell)
  BY <1>1, ClassOf
<1>3. DOMAIN object.attrs = DOMAIN Schema[class]
  BY <1>2 DEF ObjectCell
<1>4. text[m].kind = "map" /\ text[m].rule.type = "object"
  BY DEF Live
<1>5. /\ \A v \in In(text, m, "value") : Attribute(text[m], text[text[v].at])
      /\ \A v \in In(text, m, "value") : object.attrs[KeyText(text, v)] = Held(text[v], cell[v])
      /\ \A v, w \in In(text, m, "value") : KeyText(text, v) = KeyText(text, w) => v = w
      /\ \A name \in DOMAIN Schema[class] :
           object.attrs[name] = None \/ \E v \in In(text, m, "value") : KeyText(text, v) = name
  BY <1>1, <1>2 DEF MapHeld
<1>6. \A v \in In(text, m, "value") :
        /\ text[v].rule = Schema[class][KeyText(text, v)]
        /\ KeyText(text, v) \in DOMAIN Schema[class]
        /\ text[v].at \in In(text, m, "key")
  BY <1>1, <1>5, ValueNode DEF Attribute, KeyText
<1>7. ASSUME AllValid(heap, object)
      PROVE  NodeRight(text, m) /\ \A v \in In(text, m, "value") : ~BadList(text, v)
  <2>1. \A v \in In(text, m, "value") : ~BadList(text, v)
    <3> SUFFICES ASSUME NEW v \in In(text, m, "value") PROVE ~BadList(text, v)
      OBVIOUS
    <3>1. Validate(heap, text[v].rule, Held(text[v], cell[v])) # Invalid
      BY <1>2, <1>3, <1>5, <1>6, <1>7 DEF AllValid
    <3> QED
      BY <1>5, <3>1, HeldValid
  <2>2. \A key \in In(text, m, "key") : Attribute(text[m], text[key])
    BY <1>5 DEF AllDone
  <2>3. \A key, other \in In(text, m, "key") : text[key].says = text[other].says => key = other
    <3> SUFFICES ASSUME NEW key \in In(text, m, "key"), NEW other \in In(text, m, "key"),
                        text[key].says = text[other].says
                 PROVE  key = other
      OBVIOUS
    <3>1. PICK v \in In(text, m, "value") : text[v].at = key
      BY DEF AllDone
    <3>2. PICK w \in In(text, m, "value") : text[w].at = other
      BY DEF AllDone
    <3>3. KeyText(text, v) = KeyText(text, w)
      BY <3>1, <3>2 DEF KeyText
    <3> QED
      BY <1>5, <3>1, <3>2, <3>3
  <2>4. HasAll(text, m)
    <3> SUFFICES ASSUME NEW name \in DOMAIN Schema[class], ~Schema[class][name].optional
                 PROVE  \E key \in In(text, m, "key") : text[key].says = name
      BY <1>1 DEF HasAll
    <3>1. object.attrs[name] # None
      <4>1. Validate(heap, Schema[class][name], object.attrs[name]) # Invalid
        BY <1>2, <1>3, <1>7 DEF AllValid
      <4> QED
        <5>1. PICK rule : rule = Schema[class][name]
          OBVIOUS
        <5>2. ~rule.optional
          BY <5>1
        <5>3. None.kind = "none"
          BY DEF None
        <5>4. Validate(heap, rule, None) = Invalid
          BY <5>2, <5>3 DEF Validate
        <5> QED
          BY <4>1, <5>1, <5>4
    <3>2. PICK v \in In(text, m, "value") : KeyText(text, v) = name
      BY <1>5, <3>1
    <3> QED
      BY <1>6, <3>2 DEF KeyText
  <2> QED
    BY <1>4, <2>1, <2>2, <2>3, <2>4 DEF NodeRight, KeysRight
<1>8. ASSUME ~AllValid(heap, object), HasAll(text, m) PROVE Wrong(text, path)
  <2>1. PICK a \in DOMAIN Schema[class] : Validate(heap, Schema[class][a], object.attrs[a]) = Invalid
    BY <1>2, <1>3, <1>8 DEF AllValid
  <2>2. CASE \E v \in In(text, m, "value") : KeyText(text, v) = a
    <3>1. PICK v \in In(text, m, "value") : KeyText(text, v) = a
      BY <2>2
    <3>2. Validate(heap, text[v].rule, Held(text[v], cell[v])) = Invalid
      BY <1>5, <1>6, <2>1, <3>1
    <3> QED
      BY <1>5, <3>2, HeldValid
  <2>3. CASE ~\E v \in In(text, m, "value") : KeyText(text, v) = a
    <3>1. object.attrs[a] = None
      BY <1>5, <2>3
    <3>2. ~Schema[class][a].optional
      <4>1. None # Invalid
        BY NotInvalid
      <4> QED
        BY <2>1, <3>1, <4>1 DEF Validate, None
    <3>3. PICK key \in In(text, m, "key") : text[key].says = a
      BY <1>1, <1>8, <3>2 DEF HasAll
    <3>4. PICK v \in In(text, m, "value") : text[v].at = key
      BY DEF AllDone
    <3> QED
      BY <2>3, <3>3, <3>4 DEF KeyText
  <2> QED
    BY <2>2, <2>3
<1> QED
  BY <1>7, <1>8

\* A mapping that ends and is not right is wrong, or a key that is a collection is.
LEMMA EndWrong ==
  ASSUME TextOK, Left, ComplexKey(text) => Wrong(text, path), NEW m, m = Here.node,
         Above.kind = "map", ~NodeRight(text, m)
  PROVE  Wrong(text', path')
<1>1. path # <<>>
  BY DEF Left
<1>2. m \in 1..Len(text) /\ text[m].kind = "map" /\ text' = text
  BY <1>1, HereNode, LeftPath
<1>3. CASE text[m].as = "key"
  BY <1>2, <1>3, WrongLeft DEF ComplexKey
<1>4. CASE text[m].as # "key"
  <2>1. ~OpenMap(text', path', m)
    <3> SUFFICES ASSUME NEW i \in 1..Len(path'), path'[i].node = m PROVE FALSE
      BY DEF OpenMap
    <3>1. /\ Len(path') = Len(path) - 1 /\ Len(path) \in Nat \ {0}
          /\ \A j \in 1..(Len(path) - 1) : path'[j] = path[j]
      BY LeftPath
    <3>2. i \in 1..Len(path) /\ i < Len(path) /\ path'[i] = path[i]
      BY <3>1
    <3> QED
      BY <3>2, PathNodes
  <2>2. Fault(text', path', m)
    BY <1>2, <1>4, <2>1 DEF Fault
  <2> QED
    BY <1>2, <2>2 DEF Wrong
<1> QED
  BY <1>3, <1>4
LEMMA EndGoes ==
  ASSUME TextOK, Left, Above.kind = "seq" \/ Here.at = 0,
         NEW b, BuilderType(b), ~b.raised, NEW cell,
         cell \in [Celled(text) -> 1..Len(b.heap)],
         BuilderIs(text, path, open, b, roots, results, cell),
         NEW b2, Is(b2, Front(b.stack), b.heap)
  PROVE  Outcome(b2)
<1>1. PICK st, heap : st = b.stack /\ heap = b.heap
  OBVIOUS
<1>2. /\ Is(b, st, heap) /\ st \in Seq(FrameType) /\ heap \in Seq(Cells)
  BY <1>1, BuilderRecord
<1>3. Inside(text, path, open)
  BY DEF Left
<1>4. HeapOK(text, heap, cell) /\ ResultsOK(roots, results, cell)
  BY <1>1 DEF BuilderIs
<1>5. NodesOpen(text, path, st, heap, roots, results, cell)
  BY <1>1, <1>3 DEF BuilderIs, OpenIs
<1>6. ListsOK(text, path, heap, cell) /\ Len(roots) = Len(results) + 1
      /\ Document(st[1], cell[roots[Len(roots)]])
  BY <1>5 DEF NodesOpen
<1>7. PICK pos : StackOK(text, path, st, pos, cell)
  BY <1>5 DEF NodesOpen
<1>8. PICK st2 : st2 = Front(st)
  OBVIOUS
<1>9. /\ st2 \in Seq(FrameType) /\ st2[1] = st[1]
      /\ \E pos2 \in [1..Len(path') -> 1..Len(st2)] : StackOK(text', path', st2, pos2, cell)
  BY <1>2, <1>7, <1>8, StackEnd
<1>10. text' = text /\ roots' = roots /\ Len(path') = Len(path) - 1 /\ Len(path) \in Nat \ {0}
       /\ \A i \in 1..(Len(path) - 1) : path'[i] = path[i]
  BY LeftPath
<1>11. ListsOK(text', path', heap, cell)
  BY <1>6, <1>10 DEF ListsOK
<1>12. NodesOpen(text', path', st2, heap, roots', results, cell)
  BY <1>6, <1>9, <1>10, <1>11 DEF NodesOpen
<1>13. Is(b2, st2, heap) /\ b2.stack = st2 /\ b2.heap = heap /\ BuilderType(b2) /\ ~b2.raised
  <2>1. Is(b2, st2, heap)
    BY <1>1, <1>8
  <2> QED
    BY <1>2, <1>9, <2>1, BuilderIsOf, RecordType
<1>14. Inside(text', path', open') /\ open' \in Seq(Events!Frames) /\ path' \in Seq(PlaceType)
  <2>1. TextOK' /\ Inside(text', path', open')
    BY LeftText
  <2>2. TreeOK(text', path') /\ OpenOK(text', path', open')
    BY <2>1 DEF TextOK
  <2>3. open' \in Seq(Events!Frames)
    BY <2>2 DEF OpenOK
  <2>4. path' \in Seq(PlaceType)
    BY <2>2 DEF TreeOK
  <2> QED
    BY <2>1, <2>3, <2>4
<1>15. OpenIs(text', path', open', b2, roots', results, cell)
  <2>1. PICK op, pa : op = open' /\ pa = path'
    OBVIOUS
  <2>2. op # <<"stream">> /\ op # <<"end">> /\ op # <<"stream", "root">>
    BY <1>14, <2>1, InsideNot
  <2> QED
    BY <1>12, <1>13, <2>1, <2>2 DEF OpenIs
<1>16. BuilderIs(text', path', open', b2, roots', results, cell)
  BY <1>4, <1>10, <1>13, <1>15 DEF BuilderIs
<1>17. cell \in [Celled(text') -> 1..Len(b2.heap)]
  BY <1>1, <1>10, <1>13
<1> QED
  BY <1>13, <1>16, <1>17 DEF Outcome

LEMMA TopFits ==
  ASSUME TextOK, Left, Above.kind = "seq" \/ Here.at = 0,
         NEW b, BuilderType(b), ~b.raised, NEW cell,
         BuilderIs(text, path, open, b, roots, results, cell)
  PROVE  FrameFits(text, Here.node, Top(b), cell) /\ Above = text[Here.node]
<1>1. PICK st, heap : st = b.stack /\ heap = b.heap
  OBVIOUS
<1>2. /\ Is(b, st, heap) /\ st \in Seq(FrameType) /\ Top(b) = Last(st)
  BY <1>1, BuilderRecord, BuilderIsOf
<1>3. NodesOpen(text, path, st, heap, roots, results, cell)
  BY <1>1 DEF Left, BuilderIs, OpenIs
<1>4. PICK pos : StackOK(text, path, st, pos, cell)
  BY <1>3 DEF NodesOpen
<1>5. PICK st2 : st2 = Front(st)
  OBVIOUS
<1>6. FrameFits(text, Here.node, Last(st), cell)
  BY <1>2, <1>4, <1>5, StackEnd
<1>7. Above = text[Here.node]
  BY HereNode DEF Left
<1> QED
  BY <1>2, <1>6, <1>7

LEMMA SequenceOutcome ==
  ASSUME TextOK, Leaves("SequenceEnd"),
         NEW b, BuilderType(b), ~b.raised, NEW cell,
         cell \in [Celled(text) -> 1..Len(b.heap)],
         BuilderIs(text, path, open, b, roots, results, cell), NEW says
  PROVE  Outcome(Handle(b, "SequenceEnd", says))
<1>1. Left /\ Above.kind = "seq"
  BY DEF Leaves
<1>2. Handle(b, "SequenceEnd", says) = Pop(b)
  <2>1. FrameFits(text, Here.node, Top(b), cell) /\ Above = text[Here.node]
    BY <1>1, TopFits
  <2>2. Top(b).token = "sequence"
    BY <1>1, <2>1 DEF FrameFits
  <2> QED
    BY <2>2 DEF Handle, SequenceEnd, Asserted
<1>3. Is(b, b.stack, b.heap)
  BY BuilderRecord
<1>4. Is(Pop(b), Front(b.stack), b.heap)
  BY <1>3, BuilderPop
<1> QED
  BY <1>1, <1>2, <1>4, EndGoes

\* The mapping that ends is right, if it is not refused.
Sound(m) == NodeRight(text, m) /\ \A v \in In(text, m, "value") : ~BadList(text, v)
LEMMA MappingOutcome ==
  ASSUME TextOK, ComplexKey(text) => Wrong(text, path), Usual(text, roots), Leaves("MappingEnd"),
         NEW b, BuilderType(b), ~b.raised, NEW cell,
         cell \in [Celled(text) -> 1..Len(b.heap)],
         BuilderIs(text, path, open, b, roots, results, cell), NEW says
  PROVE  \/ Refused(Handle(b, "MappingEnd", says))
         \/ Outcome(Handle(b, "MappingEnd", says)) /\ Sound(Here.node)
<1>1. Left /\ Above.kind = "map" /\ Here.at = 0
  BY DEF Leaves
<1>2. PICK st, heap, m : st = b.stack /\ heap = b.heap /\ m = Here.node
  OBVIOUS
<1>3. /\ Is(b, st, heap) /\ st \in Seq(FrameType) /\ heap \in Seq(Cells)
  BY <1>2, BuilderRecord
<1>4. PICK b2 : b2 = Handle(b, "MappingEnd", says)
  OBVIOUS
<1>5. b2 = CheckInitialized(Pop(b), Top(b)) /\ Top(b) = Last(st)
  <2>1. FrameFits(text, Here.node, Top(b), cell) /\ Above = text[Here.node]
    BY <1>1, TopFits
  <2>2. Top(b).token = "mapping"
    BY <1>1, <2>1 DEF FrameFits
  <2> QED
    BY <1>3, <1>4, <2>2, BuilderIsOf DEF Handle, MappingEnd, Asserted
<1>6. path # <<>> /\ m \in 1..Len(text) /\ text[m] = Above
  BY <1>1, <1>2, HereNode DEF Left
<1>7. Inside(text, path, open) /\ HeapOK(text, heap, cell)
  BY <1>1, <1>2 DEF Left, BuilderIs
<1>8. PICK pos : StackOK(text, path, st, pos, cell)
  BY <1>2, <1>7 DEF BuilderIs, OpenIs, NodesOpen
<1>9. FrameFits(text, m, Last(st), cell)
  BY <1>1, <1>2, <1>3, <1>8, StackEnd
<1>10. Is(Pop(b), Front(st), heap) /\ Pop(b).heap = heap
  BY <1>3, BuilderPop, BuilderIsOf
<1>11. Fail(Pop(b)).raised = TRUE
  BY <1>10, FailRaises
<1>12. CASE ~Live(text[m])
  <2>1. Last(st).value.kind # "object"
    BY <1>1, <1>6, <1>9, <1>12 DEF FrameFits
  <2>2. b2 = Fail(Pop(b))
    BY <1>5, <2>1 DEF CheckInitialized
  <2>3. ~NodeRight(text, m)
    BY <1>1, <1>6, <1>12 DEF NodeRight, KeysRight, Live
  <2>4. Wrong(text', path')
    BY <1>1, <1>2, <2>3, EndWrong
  <2> QED
    BY <1>4, <1>11, <2>2, <2>4 DEF Refused
<1>13. CASE Live(text[m])
  <2>1. Last(st).value = Ref("object", cell[m])
    BY <1>1, <1>6, <1>9, <1>13 DEF FrameFits
  <2>2. Last(st).value.kind = "object" /\ Last(st).value.at = cell[m]
    BY <2>1 DEF Ref
  <2>3. PICK object : object = heap[cell[m]]
    OBVIOUS
  <2>4. b2 = IF AllValid(heap, object) THEN Pop(b) ELSE Fail(Pop(b))
    BY <1>5, <1>10, <2>2, <2>3 DEF CheckInitialized, AllValid
  <2>5. AllDone(m)
    BY <1>1, <1>2, <1>6, KeysDone
  <2>6. CASE AllValid(heap, object)
    <3>1. Sound(m)
      BY <1>6, <1>7, <1>13, <2>3, <2>5, <2>6, Checked DEF Sound
    <3>2. Is(b2, Front(b.stack), b.heap)
      BY <1>2, <1>10, <2>4, <2>6
    <3>3. Outcome(b2)
      BY <1>1, <3>2, EndGoes
    <3> QED
      BY <1>2, <1>4, <3>1, <3>3
  <2>7. CASE ~AllValid(heap, object)
    <3>1. Wrong(text, path) \/ ~HasAll(text, m)
      BY <1>6, <1>7, <1>13, <2>3, <2>5, <2>7, Checked
    <3>2. ~HasAll(text, m) => ~NodeRight(text, m)
      BY <1>1, <1>6 DEF NodeRight
    <3>3. Wrong(text', path')
      BY <1>1, <1>2, <3>1, <3>2, WrongLeft, EndWrong
    <3> QED
      BY <1>4, <1>11, <2>4, <2>7, <3>3 DEF Refused
  <2> QED
    BY <2>6, <2>7
<1> QED
  BY <1>12, <1>13
(* --------------------------- around the documents ------------------------ *)

LEMMA ShortOpen ==
  ASSUME NEW tx, NEW pa \in Seq(PlaceType), NEW op,
         op = <<"stream">> \/ op = <<"end">> \/ op = <<"stream", "root">>
  PROVE  /\ ~Inside(tx, pa, op)
         /\ op = <<"stream", "root">> => op \notin {<<"stream">>, <<"end">>}
         /\ op \in {<<"stream">>, <<"end">>} => op # <<"stream", "root">>
<1>1. op \in Seq(Events!Frames)
  BY ShortFrames DEF Events!Frames
<1>2. ~Inside(tx, pa, op)
  BY <1>1, InsideNot
<1>3. \A a : <<a>> # <<"stream", "root">>
  <2> SUFFICES ASSUME NEW a PROVE <<a>> # <<"stream", "root">>
    OBVIOUS
  <2>1. Len(<<a>>) = 1 /\ Len(<<"stream", "root">>) = 2
    BY Singles
  <2> QED
    BY <2>1
<1> QED
  BY <1>2, <1>3

LEMMA DocumentStartOutcome ==
  ASSUME TextOK, Surrounds("DocumentStart"), NEW b, BuilderType(b), ~b.raised, NEW cell,
         cell \in [Celled(text) -> 1..Len(b.heap)],
         BuilderIs(text, path, open, b, roots, results, cell), NEW says
  PROVE  Outcome(Handle(b, "DocumentStart", says))
<1>1. /\ text' = text /\ path' = path /\ roots' = roots /\ open = <<"stream">>
      /\ open' = <<"stream", "root">>
  BY DEF Surrounds
<1>2. PICK st, heap : st = b.stack /\ heap = b.heap
  OBVIOUS
<1>3. /\ Is(b, st, heap) /\ st \in Seq(FrameType) /\ heap \in Seq(Cells) /\ Len(heap) \in Nat
  BY <1>2, BuilderRecord
<1>4. HeapOK(text, heap, cell) /\ ResultsOK(roots, results, cell)
  BY <1>2 DEF BuilderIs
<1>5. st = <<>> /\ Len(roots) = Len(results)
  BY <1>1, <1>2 DEF BuilderIs, OpenIs, NothingOpen
<1>6. PICK new \in Nat : new = Len(heap) + 1
  BY <1>3
<1>7. PICK value \in Values : value = Ref("object", new)
  BY ValueTypes
<1>8. PICK frame : frame = [Frame("document") EXCEPT !.value = value]
  OBVIOUS
<1>9. frame \in FrameType /\ frame.token = "document" /\ frame.value = value
  BY <1>8 DEF Frame, FrameType
<1>10. PICK made, heap2 : made = Alloc(b, NewObject(Root)) /\ heap2 = Append(heap, NewObject(Root))
  OBVIOUS
<1>11. NewObject(Root) \in Cells
  BY NewObjectCell, SchemaAssumption
<1>12. /\ heap2 \in Seq(Cells) /\ Len(heap2) = new /\ heap2[new] = NewObject(Root)
       /\ \A i \in 1..Len(heap) : heap2[i] = heap[i]
  BY <1>3, <1>6, <1>10, <1>11, Appends
<1>13. Is(made, st, heap2) /\ Newest(made) = new
  <2>1. Is(made, st, heap2)
    BY <1>3, <1>10, BuilderAlloc
  <2> QED
    BY <1>12, <2>1, BuilderIsOf
<1>14. PICK b2, st2 : b2 = Handle(b, "DocumentStart", says) /\ st2 = Append(st, frame)
  OBVIOUS
<1>15. b2 = Push(made, frame)
  BY <1>2, <1>5, <1>7, <1>8, <1>10, <1>13, <1>14 DEF Handle, DocumentStart, Asserted
<1>16. Is(b2, st2, heap2)
  BY <1>13, <1>14, <1>15, BuilderPush
<1>17. st2 \in Seq(FrameType) /\ Len(st2) = 1 /\ st2[1] = frame
  BY <1>3, <1>5, <1>9, <1>14
<1>18. /\ cell \in [Celled(text) -> 1..Len(heap)] /\ 1..Len(heap) \subseteq 1..Len(heap2)
       /\ new \in 1..Len(heap2) /\ \A n \in Celled(text) : cell[n] # new /\ heap2[cell[n]] = heap[cell[n]]
  <2>1. cell \in [Celled(text) -> 1..Len(heap)]
    BY <1>2
  <2> QED
    BY <1>3, <1>6, <1>12, <2>1
<1>19. cell \in [Celled(text) -> 1..Len(heap2)]
  BY <1>18
<1>20. HeapOK(text, heap2, cell)
  BY <1>4, <1>18, <1>19 DEF HeapOK, CellsOK
<1>21. RootOpen(st2, heap2, roots, results, cell)
  BY <1>5, <1>7, <1>9, <1>12, <1>17, <1>18 DEF RootOpen, Document
<1>22. b2.stack = st2 /\ b2.heap = heap2 /\ BuilderType(b2) /\ ~b2.raised
  BY <1>12, <1>16, <1>17, BuilderIsOf, RecordType
<1>23. OpenIs(text', path', open', b2, roots', results, cell)
  <2>1. PICK op : op = open'
    OBVIOUS
  <2>2. path \in Seq(PlaceType) /\ op = <<"stream", "root">>
    BY <1>1, <2>1, Sorts
  <2>3. ~Inside(text, path, op) /\ op \notin {<<"stream">>, <<"end">>}
    BY <2>2, ShortOpen
  <2>4. OpenIs(text, path, op, b2, roots, results, cell)
    BY <1>21, <1>22, <2>3 DEF OpenIs
  <2> QED
    BY <1>1, <2>1, <2>4
<1>24. BuilderIs(text', path', open', b2, roots', results, cell)
  BY <1>1, <1>4, <1>20, <1>22, <1>23 DEF BuilderIs
<1> QED
  BY <1>1, <1>14, <1>19, <1>22, <1>24 DEF Outcome

\* The object of the document that ends comes to the results.
OneMore(ro, rs, cell, value, rs2) ==
  /\ ResultsOK(ro, rs, cell) /\ Len(ro) = Len(rs) + 1
  /\ \A i \in 1..Len(ro) : cell[ro[i]] \in Nat
  /\ value = Ref("object", cell[ro[Len(ro)]]) /\ rs2 = Append(rs, value)
AllResults(ro, rs2, cell) == ResultsOK(ro, rs2, cell) /\ Len(rs2) = Len(ro)
LEMMA ResultsMore ==
  ASSUME NEW ro, NEW rs, NEW cell, NEW value, NEW rs2, OneMore(ro, rs, cell, value, rs2)
  PROVE  AllResults(ro, rs2, cell)
<1>0. /\ ResultsOK(ro, rs, cell) /\ Len(ro) = Len(rs) + 1
      /\ \A i \in 1..Len(ro) : cell[ro[i]] \in Nat
      /\ value = Ref("object", cell[ro[Len(ro)]]) /\ rs2 = Append(rs, value)
  BY DEF OneMore
<1>1. PICK n \in Nat : n = Len(rs)
  BY <1>0 DEF ResultsOK
<1>2. PICK f : f = [i \in 1..(n + 1) |-> Ref("object", cell[ro[i]])]
  OBVIOUS
<1>3. rs = [i \in 1..n |-> Ref("object", cell[ro[i]])]
  BY <1>0, <1>1 DEF ResultsOK
<1>4. \A i \in 1..n : i \in 1..Len(ro) /\ Ref("object", cell[ro[i]]) \in Values
  <2> SUFFICES ASSUME NEW i \in 1..n
               PROVE  i \in 1..Len(ro) /\ Ref("object", cell[ro[i]]) \in Values
    OBVIOUS
  <2>1. i \in 1..Len(ro)
    BY <1>0, <1>1
  <2>2. cell[ro[i]] \in Nat
    BY <1>0, <2>1
  <2> QED
    BY <2>1, <2>2, ValueTypes
<1>5. rs \in Seq(Values)
  BY <1>3, <1>4
<1>6. value \in Values
  <2>1. Len(ro) \in 1..Len(ro)
    BY <1>0, <1>1
  <2>2. cell[ro[Len(ro)]] \in Nat
    BY <1>0, <2>1
  <2> QED
    BY <1>0, <2>2, ValueTypes
<1>7. rs2 \in Seq(Values) /\ Len(rs2) = n + 1 /\ rs2[n + 1] = value /\ \A i \in 1..n : rs2[i] = rs[i]
  BY <1>0, <1>1, <1>5, <1>6, Appends
<1>8. \A i \in 1..(n + 1) : rs2[i] = f[i]
  <2> SUFFICES ASSUME NEW i \in 1..(n + 1) PROVE rs2[i] = f[i]
    OBVIOUS
  <2>1. CASE i = n + 1
    BY <1>0, <1>1, <1>2, <1>7, <2>1
  <2>2. CASE i # n + 1
    <3>1. i \in 1..n
      BY <2>2
    <3> QED
      BY <1>2, <1>3, <1>7, <3>1
  <2> QED
    BY <2>1, <2>2
<1>9. rs2 = f
  <2>1. DOMAIN rs2 = 1..(n + 1)
    BY <1>7
  <2>2. rs2 = [i \in 1..(n + 1) |-> rs2[i]]
    BY <1>7, <2>1
  <2> QED
    BY <1>2, <1>8, <2>2
<1> QED
  BY <1>0, <1>1, <1>2, <1>7, <1>9 DEF AllResults, ResultsOK

LEMMA DocumentEndOutcome ==
  ASSUME TextOK, Usual(text, roots), Surrounds("DocumentEnd"), NEW b, BuilderType(b), ~b.raised,
         NEW cell, cell \in [Celled(text) -> 1..Len(b.heap)],
         BuilderIs(text, path, open, b, roots, results, cell), NEW says,
         NEW b2, b2 = Handle(b, "DocumentEnd", says),
         NEW rs2, rs2 = Append(results, Top(b).value)
  PROVE  /\ BuilderType(b2) /\ ~b2.raised /\ cell \in [Celled(text') -> 1..Len(b2.heap)]
         /\ BuilderIs(text', path', open', b2, roots', rs2, cell)
<1>1. /\ text' = text /\ path' = path /\ roots' = roots /\ open = <<"stream", "rootdone">>
      /\ open' = <<"stream">> /\ path = <<>>
  BY DEF Surrounds
<1>2. PICK st, heap : st = b.stack /\ heap = b.heap
  OBVIOUS
<1>3. /\ Is(b, st, heap) /\ st \in Seq(FrameType) /\ heap \in Seq(Cells) /\ Len(heap) \in Nat
  BY <1>2, BuilderRecord
<1>4. HeapOK(text, heap, cell) /\ ResultsOK(roots, results, cell)
  BY <1>2 DEF BuilderIs
<1>5. Inside(text, path, open)
  BY <1>1, RootDone
<1>6. NodesOpen(text, path, st, heap, roots, results, cell)
  BY <1>2, <1>5 DEF BuilderIs, OpenIs
<1>7. Len(roots) = Len(results) + 1 /\ Document(st[1], cell[roots[Len(roots)]])
  BY <1>6 DEF NodesOpen
<1>8. PICK pos : StackOK(text, path, st, pos, cell)
  BY <1>6 DEF NodesOpen
<1>9. Len(st) = 1
  <2>1. Len(path) = 0
    BY <1>1
  <2> QED
    BY <1>8, <2>1 DEF StackOK, PosOK
<1>10. st # <<>> /\ Last(st) = st[1]
  <2>0. Len(st) # 0
    BY <1>9
  <2>1. st # <<>>
    BY <2>0, NotEmpty
  <2> QED
    BY <1>3, <1>9, <2>1, Fronts
<1>11. PICK st2 : st2 = Front(st)
  OBVIOUS
<1>12. st2 \in Seq(FrameType) /\ st2 = <<>>
  <2>1. st2 \in Seq(FrameType) /\ Len(st2) = 0
    BY <1>3, <1>9, <1>10, <1>11, Fronts
  <2> QED
    BY <2>1
<1>13. Is(b2, st2, heap)
  <2>1. b2 = Pop(b)
    <3>1. Top(b) = st[1]
      BY <1>3, <1>10, BuilderIsOf
    <3>2. Top(b).token = "document"
      BY <1>7, <3>1 DEF Document
    <3> QED
      BY <3>2 DEF Handle, DocumentEnd, Asserted
  <2> QED
    BY <1>3, <1>11, <2>1, BuilderPop
<1>14. b2.stack = st2 /\ b2.heap = heap /\ BuilderType(b2) /\ ~b2.raised
  BY <1>3, <1>12, <1>13, BuilderIsOf, RecordType
<1>15. Top(b).value = Ref("object", cell[roots[Len(roots)]])
  BY <1>3, <1>7, <1>10, BuilderIsOf DEF Document
<1>16. \A i \in 1..Len(roots) : cell[roots[i]] \in Nat
  <2> SUFFICES ASSUME NEW i \in 1..Len(roots) PROVE cell[roots[i]] \in Nat
    OBVIOUS
  <2>1. roots[i] \in Celled(text)
    BY RootCelled DEF TextOK
  <2>2. cell[roots[i]] \in 1..Len(heap)
    BY <1>2, <2>1
  <2> QED
    BY <2>2
<1>17. ResultsOK(roots, rs2, cell) /\ Len(rs2) = Len(roots)
  <2>1. PICK ro, rs, value : ro = roots /\ rs = results /\ value = Top(b).value
    OBVIOUS
  <2>2. ResultsOK(ro, rs, cell) /\ Len(ro) = Len(rs) + 1
    BY <1>4, <1>7, <2>1
  <2>3. \A i \in 1..Len(ro) : cell[ro[i]] \in Nat
    BY <1>16, <2>1
  <2>4. value = Ref("object", cell[ro[Len(ro)]])
    BY <1>15, <2>1
  <2>5. rs2 = Append(rs, value)
    BY <2>1
  <2>6. OneMore(ro, rs, cell, value, rs2)
    BY <2>2, <2>3, <2>4, <2>5 DEF OneMore
  <2>7. AllResults(ro, rs2, cell)
    BY <2>6, ResultsMore
  <2> QED
    BY <2>1, <2>7 DEF AllResults
<1>18. OpenIs(text', path', open', b2, roots', rs2, cell)
  <2>1. PICK op : op = open'
    OBVIOUS
  <2>2. path \in Seq(PlaceType) /\ op = <<"stream">>
    BY <1>1, <2>1, Sorts
  <2>3. ~Inside(text, path, op) /\ op # <<"stream", "root">>
    BY <2>2, ShortOpen
  <2>4. OpenIs(text, path, op, b2, roots, rs2, cell)
    BY <1>12, <1>14, <1>17, <2>3 DEF OpenIs, NothingOpen
  <2> QED
    BY <1>1, <2>1, <2>4
<1> QED
  BY <1>1, <1>2, <1>4, <1>14, <1>17, <1>18 DEF BuilderIs

LEMMA StreamEndOutcome ==
  ASSUME TextOK, Surrounds("StreamEnd"), NEW b, BuilderType(b), ~b.raised, NEW cell,
         cell \in [Celled(text) -> 1..Len(b.heap)],
         BuilderIs(text, path, open, b, roots, results, cell), NEW says
  PROVE  Outcome(Handle(b, "StreamEnd", says))
<1>1. /\ text' = text /\ path' = path /\ roots' = roots /\ open = <<"stream">> /\ open' = <<"end">>
  BY DEF Surrounds
<1>2. Handle(b, "StreamEnd", says) = b
  <2>1. NothingOpen(b.stack, roots, results)
    BY <1>1 DEF BuilderIs, OpenIs
  <2>2. b.stack = <<>>
    BY <2>1 DEF NothingOpen
  <2> QED
    BY <2>2 DEF Handle, StreamEnd, Asserted
<1>3. PICK op : op = open'
  OBVIOUS
<1>4. path \in Seq(PlaceType) /\ op = <<"end">>
  BY <1>1, <1>3, Sorts
<1>5. ~Inside(text, path, op) /\ op # <<"stream", "root">>
  BY <1>4, ShortOpen
<1>6. NothingOpen(b.stack, roots, results)
  BY <1>1 DEF BuilderIs, OpenIs
<1>7. OpenIs(text, path, op, b, roots, results, cell)
  BY <1>5, <1>6 DEF OpenIs
<1>8. BuilderIs(text, path, op, b, roots, results, cell)
  BY <1>7 DEF BuilderIs
<1> QED
  BY <1>1, <1>2, <1>3, <1>8 DEF Outcome
(* ------------------------ what has ended and is wrong -------------------- *)

LEMMA KeyOpenPut ==
  ASSUME TextOK, KeyOpen(text, path), NEW kind \in Kinds, NEW says, NEW N, Starts(kind, says, N)
  PROVE  KeyOpen(text', path')
<1> SUFFICES ASSUME NEW i \in 1..Len(path'), i # 1, text'[path'[i].node].as = "key"
             PROVE  path'[i - 1].at = path'[i].node
  BY DEF KeyOpen
<1>1. PICK k \in Nat : k = Len(path)
  BY Sorts
<1>2. i \in 1..k \/ (i = k + 1 /\ kind # "leaf")
  BY <1>1, PathLength DEF Grown
<1>3. CASE i \in 1..k
  <2>1. path'[i].node = path[i].node /\ path[i].node \in 1..Len(text)
    BY <1>1, <1>3, PathLength, PathNodes
  <2>2. text'[path[i].node] = text[path[i].node]
    BY <2>1, StartsFacts
  <2>3. i - 1 \in 1..(k - 1)
    BY <1>3
  <2>4. path'[i - 1] = path[i - 1]
    BY <1>1, <2>3, PathLength
  <2>5. path[i - 1].at = path[i].node
    BY <1>1, <1>3, <2>1, <2>2 DEF KeyOpen
  <2> QED
    BY <2>1, <2>4, <2>5
<1>4. CASE i = k + 1 /\ kind # "leaf"
  <2>1. path'[i].node = N
    BY <1>1, <1>4, ExtraNew
  <2>2. Role = "key"
    BY <2>1, NewNodeIs
  <2>3. path # <<>>
    BY <2>2, Roles
  <2>4. path'[k].at = NextAt(N)
    BY <1>1, <2>3, PathLength
  <2>5. i - 1 = k
    BY <1>4
  <2> QED
    BY <2>1, <2>2, <2>4, <2>5 DEF NextAt
<1> QED
  BY <1>2, <1>3, <1>4

LEMMA KeyOpenLeft ==
  ASSUME TextOK, KeyOpen(text, path), Left
  PROVE  KeyOpen(text', path')
<1>1. PICK k \in Nat \ {0} : k = Len(path)
  BY LeftPath
<1>2. Len(path') = k - 1 /\ text' = text /\ \A i \in 1..(k - 1) : path'[i] = path[i]
  BY <1>1, LeftPath
<1> SUFFICES ASSUME NEW i \in 1..(k - 1), i # 1, text[path[i].node].as = "key"
             PROVE  path[i - 1].at = path[i].node /\ i - 1 \in 1..(k - 1)
  BY <1>2 DEF KeyOpen
<1>3. i \in 1..k /\ i - 1 \in 1..(k - 1)
  BY <1>1
<1> QED
  BY <1>1, <1>3 DEF KeyOpen

\* A list that has an item that does not fit keeps it.
LEMMA BadStays ==
  ASSUME TextOK, NEW kind \in Kinds, NEW says, NEW N, Starts(kind, says, N),
         NEW v \in 1..Len(text), BadList(text, v)
  PROVE  BadList(text', v)
<1>1. text'[v] = text[v]
  BY StartsFacts
<1>2. PICK w \in In(text, v, "item") : ~ItemFits(text[w])
  BY DEF BadList
<1>3. w \in In(text', v, "item") /\ text'[w] = text[w]
  BY OldChildren
<1> QED
  BY <1>1, <1>2, <1>3 DEF BadList

LEMMA DoomStays ==
  ASSUME TextOK, NEW kind \in Kinds, NEW says, NEW N, Starts(kind, says, N),
         Fitting(kind, N), Doomed(text, path)
  PROVE  Doomed(text', path')
<1>1. PICK i \in 1..Len(path) : Doom(text, path, i)
  BY DEF Doomed
<1>2. PICK m \in 1..Len(text) : m = path[i].node
  BY PathNodes
<1>3. path'[i].node = m /\ text'[m] = text[m] /\ i \in 1..Len(path')
  <2>1. Len(path') = Len(path) + Grown(kind) /\ Len(path) \in Nat /\ Grown(kind) \in {0, 1}
    BY PathLength DEF Grown
  <2> QED
    BY <1>2, <2>1, PathLength, StartsFacts
<1>4. text[m].kind = "map"
  BY <1>1, <1>2 DEF Doom
<1>5. CASE \E v \in In(text, m, "value") : BadList(text, v)
  <2>1. PICK v \in In(text, m, "value") : BadList(text, v)
    BY <1>5
  <2>2. v \in In(text', m, "value") /\ v \in 1..Len(text)
    BY OldChildren
  <2>3. BadList(text', v)
    BY <2>1, <2>2, BadStays
  <2>4. Doom(text', path', i)
    BY <1>3, <1>4, <2>2, <2>3 DEF Doom
  <2> QED
    BY <1>3, <2>4 DEF Doomed
<1>6. CASE path[i].at # 0 /\ text[path[i].at].kind # "leaf"
  <2>1. CASE i < Len(path)
    <3>1. path'[i] = path[i]
      <4>1. i \in 1..(Len(path) - 1)
        BY <2>1, PathNodes
      <4> QED
        BY <4>1, PathLength
    <3>2. PlaceOK(text, path, i) /\ Pending(text, path, i)
      BY <1>2, <1>4, <1>6, PathNodes DEF Pending
    <3>3. path[i].at \in 1..Len(text)
      BY <3>2 DEF PlaceOK, In
    <3>4. text'[path[i].at] = text[path[i].at]
      BY <3>3, StartsFacts
    <3>5. Doom(text', path', i)
      BY <1>3, <1>4, <1>6, <3>1, <3>4 DEF Doom
    <3> QED
      BY <1>3, <3>5 DEF Doomed
  <2>2. CASE i = Len(path)
    <3>1. path[i] = Here /\ path # <<>>
      BY <2>2, PathNodes
    <3>2. Role = "value"
      BY <1>2, <1>4, <1>6, <3>1, Roles
    <3> QED
      BY <1>6, <3>1, <3>2 DEF Fitting, Attribute
  <2> QED
    BY <2>1, <2>2, PathNodes
<1> QED
  BY <1>1, <1>2, <1>5, <1>6 DEF Doom

\* The collection that the innermost one is in.
LEMMA OwnerPlace ==
  ASSUME TextOK, path # <<>>, NEW list, list = Here.node, text[list].as # "root"
  PROVE  LET k == Len(path)
         IN /\ k \in Nat /\ k # 1 /\ k - 1 \in 1..k /\ k - 1 < k /\ path[k] = Here
            /\ text[list].up = path[k - 1].node /\ path[k - 1].node \in 1..Len(text)
            /\ list \in 1..Len(text)
<1>1. PICK k \in Nat \ {0} : k = Len(path)
  BY Empty
<1>2. k \in 1..k /\ path[k] = Here
  BY <1>1, Roles
<1>3. PlaceOK(text, path, k) /\ list \in 1..Len(text)
  BY <1>1, <1>2, PathNodes, HereNode
<1>4. NodeOK(text, list) /\ Len(text) \in Nat
  BY <1>3 DEF TextOK, TreeOK
<1>5. text[list].up # 0
  BY <1>3, <1>4 DEF NodeOK
<1>6. k # 1 /\ text[list].up = path[k - 1].node
  BY <1>2, <1>3, <1>5 DEF PlaceOK
<1>7. k - 1 \in 1..k /\ k - 1 < k
  BY <1>6
<1>8. path[k - 1].node \in 1..Len(text)
  BY <1>1, <1>7, PathNodes
<1> QED
  BY <1>1, <1>2, <1>3, <1>6, <1>7, <1>8

\* What the nodes are, and the rules for items.
LEMMA NodeFields ==
  ASSUME TextOK, NEW n \in 1..Len(text)
  PROVE  /\ text[n] \in NodeType /\ NodeOK(text, n)
         /\ text[n].kind \in {"leaf", "map", "seq"}
         /\ text[n].as \in {"root", "key", "value", "item"} /\ text[n].rule \in RuleTypes
<1>1. text[n] \in NodeType
  BY Sorts
<1>2. PICK node \in NodeType : node = text[n]
  BY <1>1
<1>3. /\ node.kind \in {"leaf", "map", "seq"} /\ node.as \in {"root", "key", "value", "item"}
      /\ node.rule \in RuleTypes
  BY <1>2 DEF NodeType, RuleTypes
<1>4. NodeOK(text, n)
  BY DEF TextOK, TreeOK
<1> QED
  BY <1>1, <1>2, <1>3, <1>4

LEMMA ItemRuleTypes ==
  ASSUME NEW above, above.rule \in RuleTypes
  PROVE  ItemRule(above).type # "repeated"
<1>1. CASE above.rule.type = "repeated"
  <2>1. ItemRule(above) = Item(above.rule)
    BY <1>1 DEF ItemRule
  <2>2. PICK rule \in RuleTypes : rule = above.rule
    OBVIOUS
  <2>3. Item(rule).type \in {"word", "object"}
    BY <1>1, <2>2, ItemTypes
  <2> QED
    BY <2>1, <2>2, <2>3
<1>2. CASE above.rule.type # "repeated"
  <2>1. ItemRule(above) = NoRule
    BY <1>2 DEF ItemRule
  <2>2. NoRule.type = "none"
    BY DEF NoRule
  <2> QED
    BY <2>1, <2>2
<1> QED
  BY <1>1, <1>2

\* An item that is wrong and is no mapping.
LEMMA ItemDooms ==
  ASSUME TextOK, KeyOpen(text, path), FaultsOK(text, path), NEW kind \in Kinds, kind # "map",
         NEW says, NEW N, Starts(kind, says, N), Role = "item", Fitting(kind, N),
         ~NodeRight(text', N)
  PROVE  Doomed(text', path')
<1>1. path # <<>>
  BY Roles
<1>2. PICK list : list = Here.node
  OBVIOUS
<1>3. text[list].kind = "seq" /\ list \in 1..Len(text) /\ text'[list] = text[list]
      /\ Above = text[list]
  BY <1>1, <1>2, HereNode, Roles, StartsFacts
<1>4. PICK k : k = Len(path)
  OBVIOUS
<1>5. text[list].as \in {"root", "key", "value", "item"} /\ NodeOK(text, list)
  BY <1>3, NodeFields
<1>6. CASE text[list].as # "key" /\ ~NodeRight(text, list)
  <2>1. Closed(text, path, list)
    BY <1>3, <1>6 DEF Closed, OpenMap
  <2>2. Doomed(text, path)
    BY <1>3, <2>1 DEF FaultsOK
  <2> QED
    BY <2>2, DoomStays
<1>7. CASE text[list].as # "key" /\ NodeRight(text, list)
  <2>1. text[list].rule.type = "repeated"
    BY <1>3, <1>7 DEF NodeRight
  <2>2. text[list].as # "root"
    BY <1>5, <2>1 DEF NodeOK, RootRule
  <2>3. text[list].as # "item"
    <3> SUFFICES ASSUME text[list].as = "item" PROVE FALSE
      OBVIOUS
    <3>1. /\ text[list].rule = ItemRule(text[text[list].up]) /\ text[list].up \in 1..Len(text)
      <4>1. text[list].up \in 1..Len(text)
        BY <1>1, <1>2, <2>2, OwnerPlace
      <4> QED
        BY <1>5, <4>1 DEF NodeOK
    <3>2. PICK above : above = text[text[list].up]
      OBVIOUS
    <3>3. above.rule \in RuleTypes
      BY <3>1, <3>2, NodeFields
    <3>4. ItemRule(above).type # "repeated"
      BY <3>3, ItemRuleTypes
    <3> QED
      BY <2>1, <3>1, <3>2, <3>4
  <2>4. text[list].as = "value"
    BY <1>5, <1>7, <2>2, <2>3
  <2>5. PICK m \in 1..Len(text) : m = text[list].up
    BY <1>1, <1>2, <2>2, OwnerPlace
  <2>6. PICK j : j = k - 1
    OBVIOUS
  <2>7. j \in 1..k /\ j < k /\ path[j].node = m /\ k \in Nat
    BY <1>1, <1>2, <1>4, <2>2, <2>5, <2>6, OwnerPlace
  <2>8. text[m].kind = "map" /\ list \in In(text, m, "value")
    BY <1>3, <1>5, <2>4, <2>5 DEF NodeOK, In
  <2>9. list \in In(text', m, "value") /\ text'[m] = text[m]
    BY <2>5, <2>8, OldChildren, StartsFacts
  <2>10. N \in In(text', list, "item") /\ text'[N].kind = kind
    <3>1. N \in In(text', Here.node, Role)
      BY MoreChildren
    <3> QED
      BY <1>2, <3>1, NewNodeIs
  <2>11. ~ItemFits(text'[N])
    BY <2>10 DEF ItemFits, NodeRight, Kinds
  <2>12. BadList(text', list)
    BY <1>3, <2>1, <2>10, <2>11 DEF BadList
  <2>13. path'[j].node = m
    BY <1>4, <2>7, PathLength
  <2>14. Doom(text', path', j)
    BY <2>8, <2>9, <2>12, <2>13 DEF Doom
  <2>15. j \in 1..Len(path')
    <3>1. Len(path') = k + Grown(kind) /\ Grown(kind) \in {0, 1}
      BY <1>4, PathLength DEF Grown
    <3> QED
      BY <2>7, <3>1
  <2> QED
    BY <2>14, <2>15 DEF Doomed
<1>8. CASE text[list].as = "key"
  <2>1. PICK j : j = k - 1
    OBVIOUS
  <2>2. /\ k \in 1..k /\ k # 1 /\ j \in 1..k /\ j < k /\ path[k].node = list /\ k \in Nat
        /\ path[j].node = text[list].up /\ path[j].node \in 1..Len(text)
    <3>1. path[k] = Here /\ k \in Nat /\ k # 1 /\ k - 1 \in 1..k
      BY <1>1, <1>2, <1>4, <1>8, OwnerPlace
    <3> QED
      BY <1>1, <1>2, <1>4, <1>8, <2>1, <3>1, OwnerPlace
  <2>3. path[j].at = list
    BY <1>4, <1>8, <2>1, <2>2 DEF KeyOpen
  <2>4. text[path[j].node].kind = "map"
    BY <1>5, <1>8, <2>2 DEF NodeOK
  <2>5. path'[j] = path[j]
    <3>1. j \in 1..(k - 1)
      BY <2>2
    <3> QED
      BY <1>4, <3>1, PathLength
  <2>6. text'[path[j].node] = text[path[j].node]
    BY <2>2, StartsFacts
  <2>7. list # 0
    BY <1>3
  <2>8. Doom(text', path', j)
    BY <1>3, <2>3, <2>4, <2>5, <2>6, <2>7 DEF Doom
  <2>9. j \in 1..Len(path')
    <3>1. Len(path') = k + Grown(kind) /\ Grown(kind) \in {0, 1}
      BY <1>4, PathLength DEF Grown
    <3> QED
      BY <2>2, <3>1
  <2> QED
    BY <2>8, <2>9 DEF Doomed
<1> QED
  BY <1>6, <1>7, <1>8

LEMMA FaultsPut ==
  ASSUME TextOK, KeyOpen(text, path), FaultsOK(text, path), NEW kind \in Kinds, NEW says, NEW N,
         Starts(kind, says, N), Usual(text', roots'), Fitting(kind, N)
  PROVE  FaultsOK(text', path')
<1> SUFFICES ASSUME NEW n \in 1..Len(text'), Closed(text', path', n)
             PROVE  Doomed(text', path')
  BY DEF FaultsOK
<1>1. n \in 1..Len(text) \/ n = N
  BY StartsFacts
<1>2. CASE n \in 1..Len(text)
  <2>1. text'[n] = text[n] /\ ~OpenMap(text, path, n)
    BY <1>2, StartsFacts, OpenMaps DEF Closed
  <2>2. text[n].kind # "map" \/ n # Here.node \/ Role = "root"
    <3>1. CASE path = <<>>
      BY <3>1, Roles
    <3>2. CASE path # <<>>
      BY <2>1, <3>2, HereOpen
    <3> QED
      BY <3>1, <3>2
  <2>3. ~NodeRight(text, n)
    BY <1>2, <2>2, OthersRight DEF Closed
  <2>4. Closed(text, path, n)
    BY <2>1, <2>3 DEF Closed
  <2>5. Doomed(text, path)
    BY <1>2, <2>4 DEF FaultsOK
  <2> QED
    BY <2>5, DoomStays
<1>3. CASE n = N
  <2>1. text'[N].kind = kind /\ text'[N].as = Role /\ ~NodeRight(text', N) /\ Role # "key"
    BY <1>3, NewNodeIs DEF Closed
  <2>2. kind # "map"
    <3> SUFFICES ASSUME kind = "map" PROVE FALSE
      OBVIOUS
    <3>1. PICK k \in Nat : k = Len(path)
      BY Sorts
    <3>2. path'[k + 1].node = N
      BY <3>1, ExtraNew
    <3>3. Len(path') = k + 1
      BY <3>1, PathLength DEF Grown
    <3>4. k + 1 \in 1..Len(path')
      BY <3>1, <3>3
    <3>5. OpenMap(text', path', N)
      BY <2>1, <3>2, <3>4 DEF OpenMap
    <3> QED
      BY <1>3, <3>5 DEF Closed
  <2>3. Role # "root"
    <3> SUFFICES ASSUME Role = "root" PROVE FALSE
      OBVIOUS
    <3>1. PICK r \in Nat : r = Len(roots)
      BY Sorts
    <3>2. Len(roots') = r + 1 /\ roots'[r + 1] = N
      BY <3>1, RootsGrow
    <3>3. r + 1 \in 1..Len(roots')
      BY <3>1, <3>2
    <3> QED
      BY <2>1, <2>2, <3>2, <3>3 DEF Usual
  <2>4. Role # "value"
    BY <2>1, <2>2 DEF Fitting
  <2>5. Role = "item"
    BY <2>1, <2>3, <2>4, Roles
  <2> QED
    BY <2>1, <2>2, <2>5, ItemDooms
<1> QED
  BY <1>1, <1>2, <1>3

LEMMA FaultsLeft ==
  ASSUME TextOK, FaultsOK(text, path), NEW type \in {"SequenceEnd", "MappingEnd"}, Leaves(type),
         type = "MappingEnd" => Sound(Here.node)
  PROVE  FaultsOK(text', path')
<1>1. PICK k \in Nat \ {0} : k = Len(path)
  BY LeftPath DEF Leaves
<1>2. Len(path') = k - 1 /\ text' = text /\ \A i \in 1..(k - 1) : path'[i] = path[i]
  BY <1>1, LeftPath DEF Leaves
<1>3. path # <<>> /\ k \in 1..k /\ path[k] = Here /\ Above = text[Here.node]
  BY <1>1, Roles DEF Leaves, Left
<1>4. Above.kind = "map" => type = "MappingEnd" /\ Here.at = 0 /\ Sound(Here.node)
  BY DEF Leaves
<1> SUFFICES ASSUME NEW n \in 1..Len(text), Closed(text, path', n)
             PROVE  Doomed(text, path')
  BY <1>2 DEF FaultsOK
<1>5. CASE Closed(text, path, n)
  <2>1. PICK i \in 1..k : Doom(text, path, i)
    BY <1>1, <1>5 DEF FaultsOK, Doomed
  <2>2. i # k
    <3> SUFFICES ASSUME i = k PROVE FALSE
      OBVIOUS
    <3>1. Doom(text, path, k)
      BY <2>1
    <3>2. Above.kind = "map"
      BY <1>3, <3>1 DEF Doom
    <3>3. \E v \in In(text, Here.node, "value") : BadList(text, v)
      BY <1>3, <1>4, <3>1, <3>2 DEF Doom
    <3> QED
      BY <1>4, <3>2, <3>3 DEF Sound
  <2>3. i \in 1..(k - 1)
    BY <2>2
  <2>4. Doom(text, path', i)
    BY <1>2, <2>1, <2>3 DEF Doom
  <2> QED
    BY <1>2, <2>3, <2>4 DEF Doomed
<1>6. CASE ~Closed(text, path, n)
  <2>1. OpenMap(text, path, n) /\ ~OpenMap(text, path', n) /\ ~NodeRight(text, n)
    BY <1>6 DEF Closed
  <2>2. PICK i \in 1..k : path[i].node = n
    BY <1>1, <2>1 DEF OpenMap
  <2>3. i = k
    <3> SUFFICES ASSUME i # k PROVE FALSE
      OBVIOUS
    <3>1. i \in 1..(k - 1)
      OBVIOUS
    <3>2. i \in 1..Len(path') /\ path'[i].node = n
      BY <1>2, <2>2, <3>1
    <3> QED
      BY <2>1, <3>2 DEF OpenMap
  <2>4. n = Here.node
    BY <1>3, <2>2, <2>3
  <2>5. Above.kind = "map"
    BY <1>3, <2>1, <2>4 DEF OpenMap
  <2> QED
    BY <1>4, <2>1, <2>4, <2>5 DEF Sound
<1> QED
  BY <1>5, <1>6
(* --------------------------------- steps -------------------------------- *)

LEMMA NotError ==
  ASSUME NEW op, op = <<"stream">> \/ op = <<"end">> \/ op = <<"stream", "root">>
  PROVE  op # <<"error">>
<1>1. Len(<<"stream">>) = 1 /\ <<"stream">>[1] = "stream" /\ <<"end">>[1] = "end"
      /\ <<"error">>[1] = "error" /\ Len(<<"error">>) = 1
  BY Singles
<1>2. Len(<<"stream", "root">>) = 2
  BY Singles
<1> QED
  BY <1>1, <1>2

\* What is shown of a step that leaves the text and the rest in order.
Resumes == KeyOpen(text', path') /\ Faulty' /\ Going'

LEMMA NodeStep ==
  ASSUME IInv, NEW kind \in Kinds, NEW says \in Says, NEW N, Starts(kind, says, N),
         builder' = IF builder.raised THEN builder ELSE Handle(builder, StartOf(kind), says),
         results' = results
  PROVE  Resumes
<1> USE DEF IInv
<1>1. TextOK' /\ TextOK
  BY StartsText
<1>2. TreeOK(text', path') /\ RootsOK(text', roots') /\ open # <<"error">>
  <2>1. open # <<"error">>
    BY PutOpen DEF Starts
  <2> QED
    BY <1>1, <2>1 DEF TextOK
<1>3. ComplexKey(text) => Wrong(text, path)
  BY DEF Faulty
<1>4. ComplexKey(text') => Wrong(text', path')
  BY <1>3, ComplexKeys
<1>5. ~Usual(text', roots') => Wrong(text', path')
  BY <1>2, Unusual
<1>6. builder.raised => Wrong(text', path')
  BY <1>2, WrongStays DEF Faulty
<1>7. PICK b2 : b2 = Handle(builder, StartOf(kind), says)
  OBVIOUS
<1>8. ASSUME ~builder.raised, Usual(text', roots')
      PROVE  Refused(b2) \/ (Outcome(b2) /\ Fitting(kind, N) /\ FaultsOK(text', path'))
  <2>1. Usual(text, roots)
    BY <1>8, UsualStays
  <2>2. FaultsOK(text, path) /\ BuilderType(builder)
    BY <1>8, <2>1 DEF Going
  <2>3. PICK cell : BuilderIs(text, path, open, builder, roots, results, cell)
    BY <1>8, <2>1 DEF Going
  <2>4. Refused(b2) \/ (Outcome(b2) /\ Fitting(kind, N))
    <3>1. CASE Role = "root"
      <4>1. Outcome(Handle(builder, StartOf(kind), says))
        BY <1>8, <2>2, <2>3, <3>1, RootOutcome
      <4> QED
        BY <1>7, <3>1, <4>1 DEF Fitting
    <3>2. CASE Role # "root"
      <4>1. \/ Refused(Handle(builder, StartOf(kind), says))
            \/ Outcome(Handle(builder, StartOf(kind), says)) /\ Fitting(kind, N)
        BY <1>3, <1>8, <2>2, <2>3, <3>2, NodeOutcome
      <4> QED
        BY <1>7, <4>1
    <3> QED
      BY <3>1, <3>2
  <2>5. Fitting(kind, N) => FaultsOK(text', path')
    BY <1>8, <2>2, FaultsPut
  <2> QED
    BY <2>4, <2>5
<1>9. KeyOpen(text', path')
  BY KeyOpenPut
<1>10. Faulty'
  <2>1. CASE builder.raised
    BY <1>4, <1>6, <2>1 DEF Faulty
  <2>2. CASE ~builder.raised
    <3>1. builder' = b2
      BY <1>7, <2>2
    <3>2. b2.raised => Wrong(text', path')
      <4>1. CASE ~Usual(text', roots')
        BY <1>5, <4>1
      <4>2. CASE Usual(text', roots')
        BY <1>8, <2>2, <4>2 DEF Refused, Outcome
      <4> QED
        BY <4>1, <4>2
    <3> QED
      BY <1>4, <3>1, <3>2 DEF Faulty
  <2> QED
    BY <2>1, <2>2
<1>11. Going'
  <2> SUFFICES ASSUME ~builder'.raised, Usual(text', roots')
               PROVE  /\ FaultsOK(text', path') /\ BuilderType(builder')
                      /\ \E cell \in [Celled(text') -> 1..Len(builder'.heap)] :
                           BuilderIs(text', path', open', builder', roots', results', cell)
    BY DEF Going
  <2>1. ~builder.raised
    OBVIOUS
  <2>2. builder' = b2
    BY <1>7, <2>1
  <2>3. ~Refused(b2)
    BY <2>2 DEF Refused
  <2>4. Outcome(b2) /\ FaultsOK(text', path')
    BY <1>8, <2>1, <2>3
  <2> QED
    BY <2>2, <2>3, <2>4 DEF Outcome
<1> QED
  BY <1>9, <1>10, <1>11 DEF Resumes

LEMMA EndStep ==
  ASSUME IInv, NEW type \in {"SequenceEnd", "MappingEnd"}, Leaves(type),
         builder' = IF builder.raised THEN builder ELSE Handle(builder, type, ""),
         results' = results
  PROVE  Resumes
<1> USE DEF IInv
<1>1. Left /\ text' = text /\ roots' = roots
  BY DEF Leaves, Left
<1>2. open # <<"error">>
  BY <1>1, NotInside DEF Left
<1>3. ComplexKey(text) => Wrong(text, path)
  BY DEF Faulty
<1>4. Wrong(text, path) => Wrong(text', path')
  BY <1>1, WrongLeft
<1>5. ~Usual(text, roots) => Wrong(text', path')
  BY <1>4, Unusual DEF TextOK
<1>6. builder.raised => Wrong(text', path')
  BY <1>2, <1>4 DEF Faulty
<1>7. PICK b2 : b2 = Handle(builder, type, "")
  OBVIOUS
<1>8. ASSUME ~builder.raised, Usual(text, roots)
      PROVE  Refused(b2) \/ (Outcome(b2) /\ FaultsOK(text', path'))
  <2>1. FaultsOK(text, path) /\ BuilderType(builder)
    BY <1>8 DEF Going
  <2>2. PICK cell \in [Celled(text) -> 1..Len(builder.heap)] :
               BuilderIs(text, path, open, builder, roots, results, cell)
    BY <1>8 DEF Going
  <2>3. CASE type = "SequenceEnd"
    <3>1. Leaves("SequenceEnd")
      BY <2>3
    <3>2. Outcome(Handle(builder, "SequenceEnd", ""))
      BY <1>8, <2>1, <2>2, <3>1, SequenceOutcome
    <3>3. FaultsOK(text', path')
      BY <2>1, <2>3, FaultsLeft
    <3> QED
      BY <1>7, <2>3, <3>2, <3>3
  <2>4. CASE type = "MappingEnd"
    <3>1. Leaves("MappingEnd")
      BY <2>4
    <3>2. \/ Refused(Handle(builder, "MappingEnd", ""))
          \/ Outcome(Handle(builder, "MappingEnd", "")) /\ Sound(Here.node)
      BY <1>3, <1>8, <2>1, <2>2, <3>1, MappingOutcome
    <3>3. Sound(Here.node) => FaultsOK(text', path')
      BY <2>1, FaultsLeft
    <3> QED
      BY <1>7, <2>4, <3>2, <3>3
  <2> QED
    BY <2>3, <2>4
<1>9. KeyOpen(text', path')
  BY <1>1, KeyOpenLeft
<1>10. Faulty'
  <2>1. CASE builder.raised
    BY <1>1, <1>3, <1>4, <1>6, <2>1 DEF Faulty
  <2>2. CASE ~builder.raised
    <3>1. builder' = b2
      BY <1>7, <2>2
    <3>2. b2.raised => Wrong(text', path')
      <4>1. CASE ~Usual(text, roots)
        BY <1>5, <4>1
      <4>2. CASE Usual(text, roots)
        BY <1>8, <2>2, <4>2 DEF Refused, Outcome
      <4> QED
        BY <4>1, <4>2
    <3>3. ComplexKey(text') => Wrong(text', path')
      BY <1>1, <1>3, <1>4
    <3> QED
      BY <3>1, <3>2, <3>3 DEF Faulty
  <2> QED
    BY <2>1, <2>2
<1>11. Going'
  <2> SUFFICES ASSUME ~builder'.raised, Usual(text', roots')
               PROVE  /\ FaultsOK(text', path') /\ BuilderType(builder')
                      /\ \E cell \in [Celled(text') -> 1..Len(builder'.heap)] :
                           BuilderIs(text', path', open', builder', roots', results', cell)
    BY DEF Going
  <2>1. ~builder.raised
    OBVIOUS
  <2>2. builder' = b2
    BY <1>7, <2>1
  <2>3. ~Refused(b2)
    BY <2>2 DEF Refused
  <2>4. Usual(text, roots)
    BY <1>1
  <2>5. Outcome(b2) /\ FaultsOK(text', path')
    BY <1>8, <2>1, <2>3, <2>4
  <2> QED
    BY <2>2, <2>3, <2>5 DEF Outcome
<1> QED
  BY <1>9, <1>10, <1>11 DEF Resumes

LEMMA SurroundStep ==
  ASSUME IInv, NEW type \in Around, Surrounds(type),
         builder' = IF builder.raised THEN builder ELSE Handle(builder, type, ""),
         results' = IF type = "DocumentEnd" /\ ~builder'.raised
                      THEN Append(results, Top(builder).value) ELSE results
  PROVE  Resumes
<1> USE DEF IInv
<1>1. text' = text /\ roots' = roots /\ path' = path
  BY DEF Surrounds
<1>2. open # <<"error">>
  <2>1. CASE type = "DocumentEnd"
    <3>1. open = <<"stream", "rootdone">>
      BY <2>1 DEF Surrounds
    <3>2. Inside(text, path, open)
      BY <3>1, RootDone
    <3> QED
      BY <3>2, NotInside
  <2>2. CASE type # "DocumentEnd"
    <3>1. open = <<"stream">>
      BY <2>2 DEF Surrounds, Around
    <3> QED
      BY <3>1, NotError
  <2> QED
    BY <2>1, <2>2
<1>3. ~Usual(text, roots) => Wrong(text, path)
  BY Unusual DEF TextOK
<1>4. PICK b2 : b2 = Handle(builder, type, "")
  OBVIOUS
<1>5. PICK rs2 : rs2 = results'
  OBVIOUS
<1>6. ASSUME ~builder.raised, Usual(text, roots)
      PROVE  \/ Refused(b2)
             \/ /\ BuilderType(b2) /\ ~b2.raised
                /\ \E cell \in [Celled(text') -> 1..Len(b2.heap)] :
                     BuilderIs(text', path', open', b2, roots', rs2, cell)
  <2>1. BuilderType(builder)
    BY <1>6 DEF Going
  <2>2. PICK cell \in [Celled(text) -> 1..Len(builder.heap)] :
               BuilderIs(text, path, open, builder, roots, results, cell)
    BY <1>6 DEF Going
  <2>3. CASE type = "DocumentStart"
    <3>1. Surrounds("DocumentStart")
      BY <2>3
    <3>2. Outcome(Handle(builder, "DocumentStart", ""))
      BY <1>6, <2>1, <2>2, <3>1, DocumentStartOutcome
    <3> QED
      BY <1>4, <1>5, <2>3, <3>2 DEF Outcome
  <2>4. CASE type = "DocumentEnd"
    <3>1. Surrounds("DocumentEnd")
      BY <2>4
    <3>2. PICK more : more = Append(results, Top(builder).value)
      OBVIOUS
    <3>3. b2 = Handle(builder, "DocumentEnd", "") /\ builder' = b2
      BY <1>4, <1>6, <2>4
    <3>4. /\ BuilderType(b2) /\ ~b2.raised /\ cell \in [Celled(text') -> 1..Len(b2.heap)]
          /\ BuilderIs(text', path', open', b2, roots', more, cell)
      BY <1>6, <2>1, <2>2, <3>1, <3>2, <3>3, DocumentEndOutcome
    <3>5. rs2 = more
      BY <1>5, <2>4, <3>2, <3>3, <3>4
    <3> QED
      BY <3>4, <3>5
  <2>5. CASE type = "StreamEnd"
    <3>1. Surrounds("StreamEnd")
      BY <2>5
    <3>2. Outcome(Handle(builder, "StreamEnd", ""))
      BY <1>6, <2>1, <2>2, <3>1, StreamEndOutcome
    <3> QED
      BY <1>4, <1>5, <2>5, <3>2 DEF Outcome
  <2> QED
    BY <2>3, <2>4, <2>5 DEF Around
<1>7. KeyOpen(text', path')
  BY <1>1
<1>8. Faulty'
  <2>1. ComplexKey(text') => Wrong(text', path')
    BY <1>1 DEF Faulty
  <2>2. CASE builder.raised
    BY <1>1, <1>2, <2>1, <2>2 DEF Faulty
  <2>3. CASE ~builder.raised
    <3>1. builder' = b2
      BY <1>4, <2>3
    <3>2. b2.raised => Wrong(text', path')
      <4>1. CASE ~Usual(text, roots)
        BY <1>1, <1>3, <4>1
      <4>2. CASE Usual(text, roots)
        BY <1>6, <2>3, <4>2 DEF Refused
      <4> QED
        BY <4>1, <4>2
    <3> QED
      BY <2>1, <3>1, <3>2 DEF Faulty
  <2> QED
    BY <2>2, <2>3
<1>9. Going'
  <2> SUFFICES ASSUME ~builder'.raised, Usual(text', roots')
               PROVE  /\ FaultsOK(text', path') /\ BuilderType(builder')
                      /\ \E cell \in [Celled(text') -> 1..Len(builder'.heap)] :
                           BuilderIs(text', path', open', builder', roots', results', cell)
    BY DEF Going
  <2>1. ~builder.raised
    OBVIOUS
  <2>2. builder' = b2
    BY <1>4, <2>1
  <2>3. ~Refused(b2)
    BY <2>2 DEF Refused
  <2>4. Usual(text, roots)
    BY <1>1
  <2>5. FaultsOK(text', path')
    BY <1>1, <2>1, <2>4 DEF Going
  <2>6. /\ BuilderType(b2)
        /\ \E cell \in [Celled(text') -> 1..Len(b2.heap)] :
             BuilderIs(text', path', open', b2, roots', rs2, cell)
    BY <1>6, <2>1, <2>3, <2>4
  <2> QED
    BY <1>5, <2>2, <2>5, <2>6
<1> QED
  BY <1>7, <1>8, <1>9 DEF Resumes

\* The end of the reading: nothing is said of what was raised.
LEMMA UnsupportedStep ==
  ASSUME IInv, Unsupported
  PROVE  Resumes
<1> USE DEF IInv
<1>1. UNCHANGED <<text, roots, path>> /\ open' = <<"error">>
  BY UnsupportedText
<1>2. builder' = Fail(builder) /\ ~builder.raised
  BY DEF Unsupported
<1>3. Faulty'
  BY <1>1 DEF Faulty
<1>4. Going'
  <2> SUFFICES ASSUME ~builder'.raised, Usual(text, roots)
               PROVE  FALSE
    BY <1>1 DEF Going
  <2>1. BuilderType(builder)
    BY <1>2 DEF Going
  <2>2. Fail(builder).raised = TRUE
    BY <2>1 DEF Fail, BuilderType
  <2> QED
    BY <1>2, <2>2
<1> QED
  BY <1>1, <1>3, <1>4 DEF Resumes

LEMMA EventStep ==
  ASSUME IInv, NEW type \in Events!Types \ {"Alias"}, NEW says \in Says,
         type = "Scalar" \/ says = "", Event(type, says)
  PROVE  Resumes
<1>1. builder' = IF builder.raised THEN builder ELSE Handle(builder, type, says)
  BY DEF Event
<1>2. results' = IF type = "DocumentEnd" /\ ~builder'.raised
                   THEN Append(results, Top(builder).value) ELSE results
  BY DEF Event
<1>3. \/ \E kind \in Kinds, N \in Nat \ {0} : type = StartOf(kind) /\ Starts(kind, says, N)
      \/ type \in {"SequenceEnd", "MappingEnd"} /\ Leaves(type)
      \/ type \in Around /\ Surrounds(type)
  BY EventCases DEF IInv
<1>4. CASE \E kind \in Kinds, N \in Nat \ {0} : type = StartOf(kind) /\ Starts(kind, says, N)
  <2>1. PICK kind \in Kinds, N \in Nat \ {0} : type = StartOf(kind) /\ Starts(kind, says, N)
    BY <1>4
  <2>2. type # "DocumentEnd"
    BY <2>1 DEF StartOf
  <2>3. results' = results
    BY <1>2, <2>2
  <2> QED
    BY <1>1, <2>1, <2>3, NodeStep
<1>5. CASE type \in {"SequenceEnd", "MappingEnd"} /\ Leaves(type)
  <2>1. says = "" /\ results' = results
    BY <1>2, <1>5
  <2> QED
    BY <1>1, <1>5, <2>1, EndStep
<1>6. CASE type \in Around /\ Surrounds(type)
  <2>1. says = ""
    BY <1>6 DEF Around
  <2> QED
    BY <1>1, <1>2, <1>6, <2>1, SurroundStep
<1> QED
  BY <1>3, <1>4, <1>5, <1>6

LEMMA IInvNext ==
  ASSUME IInv, [Next]_vars
  PROVE  IInv'
<1>1. TextOK'
  BY TextNext DEF IInv
<1>2. CASE UNCHANGED vars
  BY <1>1, <1>2 DEF vars, IInv, Faulty, Going
<1>3. CASE Next
  <2>1. CASE \E type \in Events!Types \ {"Alias"}, says \in Says :
                (type = "Scalar" \/ says = "") /\ Event(type, says)
    <3>1. Resumes
      BY <2>1, EventStep
    <3> QED
      BY <1>1, <3>1 DEF IInv, Resumes
  <2>2. CASE Unsupported
    <3>1. Resumes
      BY <2>2, UnsupportedStep
    <3> QED
      BY <1>1, <3>1 DEF IInv, Resumes
  <2> QED
    BY <1>2, <1>3, <2>1, <2>2, NextCases
<1> QED
  BY <1>2, <1>3

LEMMA IInvStarts == Init => IInv
<1> SUFFICES ASSUME Init PROVE IInv
  OBVIOUS
<1>1. TextOK
  BY TextStarts
<1>2. /\ open = <<"stream">> /\ builder = [stack |-> <<>>, heap |-> <<>>, raised |-> FALSE]
      /\ results = <<>> /\ text = <<>> /\ roots = <<>> /\ path = <<>>
  BY DEF Init
<1>3. Len(text) = 0 /\ Len(path) = 0 /\ Len(roots) = 0 /\ Len(results) = 0
  BY <1>2
<1>4. KeyOpen(text, path) /\ ~builder.raised /\ ~ComplexKey(text)
  BY <1>2, <1>3 DEF KeyOpen, ComplexKey
<1>5. FaultsOK(text, path)
  BY <1>3 DEF FaultsOK
<1>6. BuilderType(builder)
  BY <1>2 DEF BuilderType
<1>7. Celled(text) = {}
  BY <1>3 DEF Celled
<1>8. PICK cell : cell = [n \in {} |-> 0]
  OBVIOUS
<1>9. cell \in [Celled(text) -> 1..Len(builder.heap)]
  BY <1>7, <1>8
<1>10. HeapOK(text, builder.heap, cell)
  BY <1>7, <1>9 DEF HeapOK, CellsOK
<1>11. ResultsOK(roots, results, cell)
  BY <1>2, <1>3 DEF ResultsOK
<1>12. OpenIs(text, path, open, builder, roots, results, cell)
  <2>1. path \in Seq(PlaceType)
    BY <1>1, Sorts
  <2>2. ~Inside(text, path, open) /\ open # <<"stream", "root">>
    BY <1>2, <2>1, ShortOpen
  <2>3. NothingOpen(builder.stack, roots, results)
    BY <1>2, <1>3 DEF NothingOpen
  <2> QED
    BY <2>2, <2>3 DEF OpenIs
<1>13. BuilderIs(text, path, open, builder, roots, results, cell)
  BY <1>10, <1>11, <1>12 DEF BuilderIs
<1>14. Going
  BY <1>5, <1>6, <1>9, <1>13 DEF Going
<1> QED
  BY <1>1, <1>4, <1>14 DEF IInv, Faulty
(* ------------------------- what the invariant says ----------------------- *)

LEMMA RightIs ==
  ASSUME TextOK, NEW n \in 1..Len(text)
  PROVE  Right(n) <=> NodeRight(text, n)
<1>1. PICK keys : keys = In(text, n, "key")
  OBVIOUS
<1>2. KeysOf(n) = keys
  BY <1>1, Named
<1>3. RightMap(n) <=> KeysRight(text, n) /\ HasAll(text, n)
  BY <1>1, <1>2 DEF RightMap, KeysRight, HasAll
<1>4. RightLeaf(n) <=> LeafRight(text[n])
  BY DEF RightLeaf, LeafRight
<1> QED
  BY <1>3, <1>4 DEF Right, NodeRight

LEMMA AllRightIs ==
  ASSUME TextOK
  PROVE  AllRight <=> \A n \in 1..Len(text) : text[n].as # "key" => NodeRight(text, n)
BY RightIs, Named DEF AllRight

LEMMA EndIs ==
  ASSUME TextOK, Ended
  PROVE  open = <<"end">> /\ open # <<"error">> /\ path = <<>> /\ Len(path) = 0
<1>1. open = <<"end">> /\ open # <<"error">>
  BY NotError DEF Ended
<1>2. ~Inside(text, path, open)
  BY <1>1, NotInside
<1> QED
  BY <1>1, <1>2, InsideOrNot

LEMMA IInvRefused == IInv => RefusedOnlyIfWrong
<1> SUFFICES ASSUME IInv, Ended, builder.raised PROVE ~AllRight
  BY DEF RefusedOnlyIfWrong
<1>1. TextOK
  BY DEF IInv
<1>2. Wrong(text, path)
  BY <1>1, EndIs DEF IInv, Faulty
<1>3. PICK n \in 1..Len(text) : text[n].as # "key" /\ ~NodeRight(text, n)
  BY <1>2 DEF Wrong, Fault
<1> QED
  BY <1>1, <1>3, AllRightIs

\* An item of a list that is what it should be is no list.
LEMMA ItemNoList ==
  ASSUME TextOK, NEW n \in 1..Len(text), text[n].as = "item"
  PROVE  text[n].rule.type # "repeated"
<1>1. NodeOK(text, n)
  BY NodeFields
<1>2. text[n].up \in 1..(n - 1) /\ text[n].rule = ItemRule(text[text[n].up])
  BY <1>1 DEF NodeOK
<1>3. text[n].up \in 1..Len(text)
  BY <1>2, Sorts
<1>4. PICK above : above = text[text[n].up]
  OBVIOUS
<1>5. above.rule \in RuleTypes
  BY <1>3, <1>4, NodeFields
<1>6. ItemRule(above).type # "repeated"
  BY <1>5, ItemRuleTypes
<1> QED
  BY <1>2, <1>4, <1>6

LEMMA HeldIsMeant ==
  ASSUME TextOK, NEW n \in 1..Len(text), NEW cell, NodeRight(text, n)
  PROVE  Held(text[n], cell[n]) = Meant(n, cell)
<1>1. text[n].kind \in {"leaf", "map", "seq"}
  BY NodeFields
<1>2. CASE text[n].kind = "leaf"
  BY <1>2 DEF Held, Meant
<1>3. CASE text[n].kind = "map"
  BY <1>3 DEF Held, Meant, NodeRight, KeysRight, Live
<1>4. CASE text[n].kind = "seq"
  <2>1. text[n].as # "item"
    BY <1>4, ItemNoList DEF NodeRight
  <2> QED
    BY <1>4, <2>1 DEF Held, Meant
<1> QED
  BY <1>1, <1>2, <1>3, <1>4

LEMMA ObjectBuilt ==
  ASSUME TextOK, NEW n \in 1..Len(text), NEW cell,
         \A m \in 1..Len(text) : text[m].as # "key" => NodeRight(text, m),
         MapHeld(text, n, builder.heap[cell[n]], cell)
  PROVE  ObjectOf(n, cell)
<1>1. PICK object : object = builder.heap[cell[n]]
  OBVIOUS
<1>2. MapHeld(text, n, object, cell)
  BY <1>1
<1>3. PICK values : values = In(text, n, "value")
  OBVIOUS
<1>4. ValuesOf(n) = values
  BY <1>3, Named
<1>5. object.class = text[n].rule.of /\ DOMAIN object.attrs = DOMAIN Schema[text[n].rule.of]
  BY <1>2 DEF MapHeld, ObjectCell
<1>6. ASSUME NEW v \in values
      PROVE  object.attrs[KeyOf(v)] = Meant(v, cell)
  <2>1. v \in 1..Len(text) /\ NodeRight(text, v)
    BY <1>3 DEF In
  <2>2. object.attrs[KeyText(text, v)] = Held(text[v], cell[v])
    BY <1>2, <1>3 DEF MapHeld
  <2>3. Held(text[v], cell[v]) = Meant(v, cell)
    BY <2>1, HeldIsMeant
  <2> QED
    BY <2>2, <2>3 DEF KeyOf, KeyText
<1>7. ASSUME NEW name \in DOMAIN object.attrs
      PROVE  object.attrs[name] = None \/ \E v \in values : KeyOf(v) = name
  BY <1>2, <1>3, <1>5 DEF MapHeld, KeyOf, KeyText
<1> QED
  BY <1>1, <1>4, <1>5, <1>6, <1>7 DEF ObjectOf

LEMMA ListBuilt ==
  ASSUME TextOK, NEW n \in 1..Len(text), NEW cell,
         \A m \in 1..Len(text) : text[m].as # "key" => NodeRight(text, m),
         SeqHeld(text, n, builder.heap[cell[n]], cell)
  PROVE  ListOf(n, cell)
<1>1. PICK items : items = builder.heap[cell[n]].items
  OBVIOUS
<1>2. PICK inside : inside = In(text, n, "item")
  OBVIOUS
<1>3. ItemsOf(n) = inside
  BY <1>2, Named
<1>4. items \in Seq(Values) /\ DOMAIN items = 1..Len(items)
  BY <1>1 DEF SeqHeld, ListCell
<1>5. ASSUME NEW v \in inside
      PROVE  text[v].at \in 1..Len(items) /\ items[text[v].at] = Meant(v, cell)
  <2>1. v \in 1..Len(text) /\ NodeRight(text, v)
    BY <1>2 DEF In
  <2>2. text[v].at \in 1..Len(items) /\ items[text[v].at] = Held(text[v], cell[v])
    BY <1>1, <1>2 DEF SeqHeld
  <2>3. Held(text[v], cell[v]) = Meant(v, cell)
    BY <2>1, HeldIsMeant
  <2> QED
    BY <2>2, <2>3
<1>6. \A i \in 1..Len(items) : \E v \in inside : text[v].at = i
  BY <1>1, <1>2 DEF SeqHeld
<1> QED
  BY <1>1, <1>3, <1>4, <1>5, <1>6 DEF ListOf

LEMMA IInvBuilt == IInv => BuiltAsWritten
<1> SUFFICES ASSUME IInv, Ended, ~builder.raised, RootsAreMaps, ~ListForScalar
             PROVE  AllRight /\ \E cell \in [Collections -> DOMAIN builder.heap] : HeapIs(cell)
  BY DEF BuiltAsWritten
<1>1. TextOK /\ Nodes = 1..Len(text) /\ DOMAIN roots = 1..Len(roots)
  BY Named, Sorts DEF IInv
<1>2. Usual(text, roots)
  BY <1>1 DEF Usual, RootsAreMaps, ListForScalar
<1>3. /\ FaultsOK(text, path) /\ BuilderType(builder)
      /\ \E cell \in [Celled(text) -> 1..Len(builder.heap)] :
           BuilderIs(text, path, open, builder, roots, results, cell)
  BY <1>2 DEF IInv, Going
<1>4. Len(path) = 0 /\ open = <<"end">>
  BY <1>1, EndIs
<1>5. \A n \in 1..Len(text) : text[n].as # "key" => NodeRight(text, n)
  <2>1. ~Doomed(text, path) /\ \A n : ~OpenMap(text, path, n)
    BY <1>4 DEF Doomed, OpenMap
  <2>2. \A n \in 1..Len(text) : ~Closed(text, path, n)
    BY <1>3, <2>1 DEF FaultsOK
  <2> QED
    BY <2>1, <2>2 DEF Closed
<1>6. AllRight
  BY <1>1, <1>5, AllRightIs
<1>7. ~ComplexKey(text)
  BY <1>5 DEF IInv, Faulty, Wrong, Fault
<1>8. \A n \in 1..Len(text) : text[n].kind # "leaf" <=> HasCell(text[n])
  <2> SUFFICES ASSUME NEW n \in 1..Len(text) PROVE text[n].kind # "leaf" <=> HasCell(text[n])
    OBVIOUS
  <2>1. text[n].kind \in {"leaf", "map", "seq"}
    BY <1>1, NodeFields
  <2>2. text[n].kind = "map" => text[n].rule.type = "object"
    BY <1>5, <1>7 DEF ComplexKey, NodeRight, KeysRight
  <2> QED
    BY <2>1, <2>2 DEF HasCell, Live
<1>9. Collections = Celled(text)
  BY <1>1, <1>8 DEF Collections, Celled
<1>10. PICK cell \in [Celled(text) -> 1..Len(builder.heap)] :
               BuilderIs(text, path, open, builder, roots, results, cell)
  BY <1>3
<1>11. DOMAIN builder.heap = 1..Len(builder.heap)
  BY <1>3 DEF BuilderType
<1>12. CellsOK(text, builder.heap, cell)
       /\ \A n \in Celled(text) : CellHeld(text, n, builder.heap[cell[n]], cell)
  BY <1>10 DEF BuilderIs, HeapOK
<1>13. IsInjective(cell)
  BY <1>10, <1>12 DEF IsInjective, CellsOK
<1>14. ASSUME NEW n \in Celled(text)
       PROVE  IF text[n].kind = "map" THEN ObjectOf(n, cell) ELSE ListOf(n, cell)
  <2>1. n \in 1..Len(text) /\ text[n].kind \in {"map", "seq"}
    BY DEF Celled, HasCell, Live
  <2>2. CellHeld(text, n, builder.heap[cell[n]], cell)
    BY <1>12
  <2>3. CASE text[n].kind = "map"
    BY <1>1, <1>5, <2>1, <2>2, <2>3, ObjectBuilt DEF CellHeld
  <2>4. CASE text[n].kind = "seq"
    BY <1>1, <1>5, <2>1, <2>2, <2>4, ListBuilt DEF CellHeld
  <2> QED
    BY <2>1, <2>3, <2>4
<1>15. results = [i \in DOMAIN roots |-> Ref("object", cell[roots[i]])]
  <2>1. Len(roots) = Len(results)
    BY <1>4, <1>10 DEF BuilderIs, OpenIs, NothingOpen
  <2>2. results = [i \in 1..Len(results) |-> Ref("object", cell[roots[i]])]
    BY <1>10 DEF BuilderIs, ResultsOK
  <2> QED
    BY <1>1, <2>1, <2>2
<1>16. HeapIs(cell)
  BY <1>9, <1>13, <1>14, <1>15 DEF HeapIs
<1> QED
  BY <1>6, <1>9, <1>10, <1>11, <1>16

(* -------------------------------- theorems ------------------------------- *)

(* yaml_listener.py:159 and the grammar of the parser: what has been handed  *)
(* to the builder is always the text of a tree, each node with the           *)
(* collection it is in, the key it is the value of or its number as an item, *)
(* and each key but the one that waits has its value.                        *)
THEOREM TextIsTree == Spec => []TextOK
<1>1. Init => TextOK
  BY TextStarts
<1>2. TextOK /\ [Next]_vars => TextOK'
  BY TextNext
<1> QED
  BY <1>1, <1>2, PTL DEF Spec

(* yaml_builder.py and yaml_object.py: what BuildObjects returns is what the *)
(* text says, all of it and nothing else, and is valid, although lists and   *)
(* objects are assigned and validated before they are filled:                *)
(* BuiltAsWritten, with the exceptions that it names.                        *)
THEOREM AsWritten == Spec => []BuiltAsWritten
<1>1. Init => IInv
  BY IInvStarts
<1>2. IInv /\ [Next]_vars => IInv'
  BY IInvNext
<1> QED
  BY <1>1, <1>2, IInvBuilt, PTL DEF Spec

(* yaml_builder.py and yaml_object.py: no assertion of the builder and no    *)
(* check made while a list or an object is still being filled refuses a text *)
(* that is right: RefusedOnlyIfWrong.                                        *)
THEOREM OnlyIfWrong == Spec => []RefusedOnlyIfWrong
<1>1. Init => IInv
  BY IInvStarts
<1>2. IInv /\ [Next]_vars => IInv'
  BY IInvNext
<1> QED
  BY <1>1, <1>2, IInvRefused, PTL DEF Spec
=============================================================================

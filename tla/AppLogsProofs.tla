--------------------------- MODULE AppLogsProofs ---------------------------
(* Theorems about request_logs, for every page and block size and any        *)
(* bounds: the output holds whole records in order, and misses none.         *)
(*                                                                           *)
(* The temporary file is a text of whole records, newest first, and the      *)
(* output one of whole records.  While the server is asked, "at" goes down   *)
(* the log and never below the output's last record when a sentinel was      *)
(* found; while the file is copied, what is left of it, its blocks and the   *)
(* spillover together, ends where a record ends.  Inv says this, and More    *)
(* that there are no gaps in what was found, is left and was written.        *)
EXTENDS AppLogs, SequenceTheorems, TLAPS

(* ------------------------------ the invariant --------------------------- *)

Record == [text : Nat \ {0}, subs : Nat, day : Nat]
Line == Nat \X Nat
Asked == [append : BOOLEAN, late : BOOLEAN, first : Nat, end : Nat, had : Nat, whole : BOOLEAN]

TypeOK ==
  /\ log \in Seq(Record) /\ today \in 1..MaxDay
  /\ file \in Seq(Line)
  /\ pc \in {"idle", "asking", "reading", "copying"}
  /\ dates \in Nat \X Nat /\ until \in Nat /\ sentinel \in Nat
  /\ at \in Nat /\ offset \in Nat
  /\ tf \in Seq(Line) /\ block \in Nat /\ spill \in Seq(Line)
  /\ runs \in 0..MaxRuns
  /\ asked \in Asked
  /\ doubled \in BOOLEAN /\ torn \in BOOLEAN

\* The lines of record id are those from s on.
RecordAt(lines, s, id, lg) ==
  /\ id \in 1..Len(lg) /\ s \in 1..Len(lines) /\ s + lg[id].subs <= Len(lines)
  /\ \A d \in 0..lg[id].subs : lines[s + d] = <<id, d>>
\* In the temporary file, with a line break before and after.
TextAt(text, s, id, lg) ==
  /\ RecordAt(text, s, id, lg)
  /\ s + lg[id].subs + 1 <= Len(text) /\ text[s + lg[id].subs + 1] = NewLine
  /\ s = 1 \/ text[s - 1] = NewLine

FileWhole(lines, lg) ==
  \A i \in 1..Len(lines) : \E s \in 1..i, id \in 1..Len(lg) :
    RecordAt(lines, s, id, lg) /\ i <= s + lg[id].subs
TextWhole(text, lg) ==
  \A i \in 1..Len(text) : \E s \in 1..i, id \in 1..Len(lg) :
    TextAt(text, s, id, lg) /\ i <= s + lg[id].subs + 1

\* A record's first line is above every line before it, or below.
Ascending(lines) ==
  \A i, j \in 1..Len(lines) : i < j /\ lines[j][2] = 0 => lines[i][1] < lines[j][1]
Descending(text) ==
  \A i, j \in 1..Len(text) :
    i < j /\ text[i] # NewLine /\ text[j] # NewLine /\ text[j][2] = 0 => text[j][1] < text[i][1]

\* The records in the first n lines.
Ids(lines, n) == {lines[i][1] : i \in 1..n} \ {0}
LastId(lines) == lines[Len(lines)][1]

\* The days of the records go up, but for those without a date.
DaysGoUp ==
  /\ \A i \in 1..Len(log) : log[i].day <= today
  /\ \A i, j \in 1..Len(log) : i < j /\ log[j].day > 0 => log[i].day <= log[j].day

Fetching == pc \in {"asking", "reading"}
Started == pc = "reading" \/ offset > 0

Places ==
  /\ ~Fetching => at = 0 /\ offset = 0 /\ sentinel = 0
  /\ pc = "asking" => at = offset /\ (offset = 0 => tf = <<>>)
  /\ offset <= at /\ at <= Len(log)
  /\ pc # "copying" => spill = <<>> /\ block = 0
  /\ pc = "idle" => tf = <<>>

TextOK == TextWhole(tf, log) /\ Descending(tf)
FileOK == FileWhole(file, log) /\ (~doubled => Ascending(file))

\* What was fetched is above the place in the log, and that is not below the record
\* that the sentinel was taken from.
AbovePlace == Fetching => \A id \in Ids(tf, Len(tf)) : at < id
SentinelOK ==
  sentinel # 0 =>
    /\ asked.append /\ file # <<>> /\ log[LastId(file)].text = sentinel
    /\ Started => LastId(file) <= at

\* How much of a text of n characters is before block b, and what of the temporary
\* file is not in the output yet.
Pos(b, n) == IF b * BlockSize < n THEN b * BlockSize ELSE n
Left == Pos(block, Len(tf)) + Len(spill)

\* len characters of a text from p + 1 on.
PieceOf(piece, text, p, len) ==
  Len(piece) = len /\ \A i \in 1..len : piece[i] = text[p + i]

CopyOK ==
  pc = "copying" =>
    /\ Left <= Len(tf)
    /\ PieceOf(spill, tf, Pos(block, Len(tf)), Len(spill))
    /\ Left = 0 \/ tf[Left] = NewLine
    /\ ~doubled => \A id \in Ids(tf, Left), other \in Ids(file, Len(file)) : other < id

Inv == TypeOK /\ DaysGoUp /\ Places /\ TextOK /\ FileOK /\ AbovePlace /\ SentinelOK /\ CopyOK

(* -------------------------- lines and their records --------------------- *)

(* A member that no other exceeds is the maximum.                            *)
LEMMA MaxIs ==
  ASSUME NEW S \in SUBSET Nat, NEW m \in S, \A x \in S : x <= m
  PROVE  Max(S) = m
<1>1. \A x \in S : (\A y \in S : x >= y) => x = m
  OBVIOUS
<1> QED
  BY <1>1 DEF Max

(* The fields of a record.                                                   *)
LEMMA RecordFields ==
  ASSUME NEW lg \in Seq(Record), NEW id \in 1..Len(lg)
  PROVE  lg[id].subs \in Nat /\ lg[id].day \in Nat /\ lg[id].text \in Nat \ {0} /\ id \in Nat \ {0}
<1>1. lg[id] \in Record /\ Len(lg) \in Nat
  OBVIOUS
<1> QED
  BY <1>1, SMTT(30) DEF Record

(* A range tells its length.                                                 *)
LEMMA SameLength ==
  ASSUME NEW m \in Nat, NEW n \in Nat, 1..m = 1..n
  PROVE  m = n
<1>1. ASSUME NEW a \in Nat, NEW b \in Nat, 1..a = 1..b, a < b PROVE FALSE
  <2>1. b \in 1..b /\ b \notin 1..a
    BY <1>1
  <2> QED
    BY <1>1, <2>1
<1>2. ~(m < n) /\ ~(n < m)
  BY <1>1
<1> QED
  BY <1>2

(* What Chars writes: the parts of the record and a line break.              *)
LEMMA CharsOfRecord ==
  ASSUME NEW lg \in Seq(Record), NEW id \in 1..Len(lg),
         NEW chars, chars = [i \in 1..(lg[id].subs + 2) |->
                               IF i = lg[id].subs + 2 THEN NewLine ELSE <<id, i - 1>>]
  PROVE  /\ chars \in Seq(Line) /\ Len(chars) = lg[id].subs + 2
         /\ \A d \in 0..lg[id].subs : chars[d + 1] = <<id, d>>
         /\ chars[lg[id].subs + 2] = NewLine
<1>1. lg[id].subs \in Nat
  BY RecordFields
<1> DEFINE n == lg[id].subs + 2
           e(i) == IF i = n THEN NewLine ELSE <<id, i - 1>>
<1>2. n \in Nat /\ id \in Nat /\ \A i \in 1..n : e(i) \in Line
  BY <1>1 DEF Line, NewLine
<1>3. chars = [i \in 1..n |-> e(i)]
  OBVIOUS
<1>4. n = lg[id].subs + 2 /\ \A i \in 1..n : e(i) = IF i = n THEN NewLine ELSE <<id, i - 1>>
  OBVIOUS
<1> HIDE DEF n, e
<1>5. chars \in Seq(Line) /\ Len(chars) = n
  <2>1. chars \in [1..n -> Line]
    BY <1>2, <1>3
  <2>2. Seq(Line) = UNION {[1..m -> Line] : m \in Nat}
    OBVIOUS
  <2>3. chars \in Seq(Line)
    BY <2>1, <2>2, <1>2
  <2>4. 1..Len(chars) = 1..n /\ Len(chars) \in Nat
    BY <2>1, <2>3, LenProperties
  <2> QED
    BY <2>3, <2>4, <1>2, SameLength
<1>6. ASSUME NEW d \in 0..lg[id].subs PROVE chars[d + 1] = <<id, d>>
  <2>1. d + 1 \in 1..n /\ d + 1 # n /\ (d + 1) - 1 = d
    BY <1>1, <1>4
  <2> QED
    BY <2>1, <1>3, <1>4
<1>7. chars[n] = NewLine
  <2>1. n \in 1..n
    BY <1>1, <1>4
  <2> QED
    BY <2>1, <1>3, <1>4
<1> QED
  BY <1>4, <1>5, <1>6, <1>7

(* A record that is logged leaves the older ones as they are.                *)
LEMMA Older ==
  ASSUME NEW lg \in Seq(Record), NEW r \in Record
  PROVE  /\ Append(lg, r) \in Seq(Record) /\ Len(Append(lg, r)) = Len(lg) + 1
         /\ Append(lg, r)[Len(lg) + 1] = r
         /\ \A id \in 1..Len(lg) : Append(lg, r)[id] = lg[id]
OBVIOUS

(* ... and so the files hold whole records still.                            *)
LEMMA WholeWhileLogged ==
  ASSUME NEW lg \in Seq(Record), NEW r \in Record, NEW lines \in Seq(Line)
  PROVE  /\ FileWhole(lines, lg) => FileWhole(lines, Append(lg, r))
         /\ TextWhole(lines, lg) => TextWhole(lines, Append(lg, r))
<1> DEFINE lr == Append(lg, r)
<1>1. /\ Len(lr) = Len(lg) + 1 /\ Len(lg) \in Nat
      /\ \A id \in 1..Len(lg) : id \in 1..Len(lr) /\ lr[id] = lg[id]
  BY Older
<1> HIDE DEF lr
<1>2. \A s, id : RecordAt(lines, s, id, lg) => RecordAt(lines, s, id, lr)
  BY <1>1 DEF RecordAt
<1>3. \A s, id : TextAt(lines, s, id, lg) => TextAt(lines, s, id, lr)
  BY <1>1, <1>2 DEF TextAt, RecordAt
<1>4. FileWhole(lines, lg) => FileWhole(lines, lr)
  BY <1>1, <1>2 DEF FileWhole
<1>5. TextWhole(lines, lg) => TextWhole(lines, lr)
  BY <1>1, <1>3 DEF TextWhole
<1> QED
  BY <1>4, <1>5 DEF lr

\* n lines are followed by more of record id.
GoesOn(lines, longer, n, more, id) ==
  /\ \A i \in 1..n : longer[i] = lines[i]
  /\ \A d \in 1..more : longer[n + d][1] \in {0, id}
  /\ \E d \in 1..more : longer[n + d][1] = id

(* The records of a longer text.                                             *)
LEMMA IdsMore ==
  ASSUME NEW lines, NEW longer, NEW n \in Nat, NEW more \in Nat, NEW len \in Nat,
         NEW id \in Nat \ {0}, len = n + more, GoesOn(lines, longer, n, more, id)
  PROVE  Ids(longer, len) = Ids(lines, n) \cup {id}
<1>1. Ids(longer, len) \subseteq Ids(lines, n) \cup {id}
  <2> SUFFICES ASSUME NEW i \in 1..(len), longer[i][1] # 0
               PROVE  longer[i][1] \in Ids(lines, n) \cup {id}
    BY DEF Ids
  <2>1. CASE i <= n
    <3>1. i \in 1..n
      BY <2>1
    <3> QED
      BY <3>1 DEF Ids, GoesOn
  <2>2. CASE i > n
    <3>1. i - n \in 1..more /\ n + (i - n) = i
      BY <2>2
    <3>2. longer[i][1] \in {0, id}
      BY <3>1 DEF GoesOn
    <3> QED
      BY <3>2
  <2> QED
    BY <2>1, <2>2
<1>2. Ids(lines, n) \subseteq Ids(longer, len)
  <2> SUFFICES ASSUME NEW i \in 1..n, lines[i][1] # 0
               PROVE  lines[i][1] \in Ids(longer, len)
    BY DEF Ids
  <2>1. i \in 1..(len) /\ longer[i] = lines[i]
    BY DEF GoesOn
  <2> QED
    BY <2>1 DEF Ids
<1>3. id \in Ids(longer, len)
  <2>1. PICK d \in 1..more : longer[n + d][1] = id
    BY DEF GoesOn
  <2>2. n + d \in 1..(len)
    OBVIOUS
  <2> QED
    BY <2>1, <2>2 DEF Ids
<1> QED
  BY <1>1, <1>2, <1>3

(* Two sequences, one behind the other.                                      *)
LEMMA Joins ==
  ASSUME NEW S, NEW s \in Seq(S), NEW t \in Seq(S)
  PROVE  /\ s \o t \in Seq(S) /\ Len(s \o t) = Len(s) + Len(t)
         /\ Len(s) \in Nat /\ Len(t) \in Nat
         /\ \A i \in 1..Len(s) : (s \o t)[i] = s[i]
         /\ \A i \in 1..Len(t) : (s \o t)[Len(s) + i] = t[i]
<1>1. /\ s \o t \in Seq(S) /\ Len(s \o t) = Len(s) + Len(t)
      /\ \A i \in 1 .. Len(s) + Len(t) : (s \o t)[i] = IF i <= Len(s) THEN s[i] ELSE t[i - Len(s)]
  BY ConcatProperties
<1>2. Len(s) \in Nat /\ Len(t) \in Nat
  BY LenProperties
<1>3. ASSUME NEW i \in 1..Len(t) PROVE (s \o t)[Len(s) + i] = t[i]
  <2>1. Len(s) + i \in 1 .. Len(s) + Len(t) /\ ~(Len(s) + i <= Len(s)) /\ (Len(s) + i) - Len(s) = i
    BY <1>2
  <2> QED
    BY <2>1, <1>1
<1> QED
  BY <1>1, <1>2, <1>3

\* Line i is of record id at s, or the break behind it.
InRecord(text, i, s, id, lg) ==
  /\ TextAt(text, s, id, lg) /\ i <= s + lg[id].subs + 1
  /\ lg[id].subs \in Nat /\ id \in Nat \ {0}
  /\ text[i] = NewLine => i = s + lg[id].subs + 1
  /\ text[i] # NewLine => i <= s + lg[id].subs /\ text[i] = <<id, i - s>>

(* A line of a text of whole records is in one of them.                      *)
LEMMA RecordOf ==
  ASSUME NEW lg \in Seq(Record), NEW text, NEW n \in Nat, n = Len(text),
         TextWhole(text, lg), NEW i \in 1..n
  PROVE  \E s \in 1..i, id \in 1..Len(lg) : InRecord(text, i, s, id, lg)
<1>1. PICK s \in 1..i, id \in 1..Len(lg) : TextAt(text, s, id, lg) /\ i <= s + lg[id].subs + 1
  BY DEF TextWhole
<1>2. lg[id].subs \in Nat /\ id \in Nat \ {0}
  BY RecordFields
<1>3. text[s + lg[id].subs + 1] = NewLine
  BY <1>1 DEF TextAt
<1>4. i <= s + lg[id].subs => text[i] = <<id, i - s>> /\ text[i] # NewLine
  <2> SUFFICES ASSUME i <= s + lg[id].subs PROVE text[i] = <<id, i - s>> /\ text[i] # NewLine
    OBVIOUS
  <2>1. i - s \in 0..lg[id].subs /\ s + (i - s) = i
    BY <1>2
  <2>2. text[i] = <<id, i - s>>
    BY <2>1, <1>1 DEF TextAt, RecordAt
  <2> QED
    BY <2>2, <1>2 DEF NewLine
<1>5. i <= s + lg[id].subs \/ i = s + lg[id].subs + 1
  BY <1>1, <1>2
<1>6. InRecord(text, i, s, id, lg)
  BY <1>1, <1>2, <1>3, <1>4, <1>5 DEF InRecord
<1> QED
  BY <1>6

(* ... and its record is one of the text's.                                  *)
LEMMA TextIds ==
  ASSUME NEW lg \in Seq(Record), NEW text, NEW n \in Nat, n = Len(text),
         TextWhole(text, lg), NEW i \in 1..n, text[i] # NewLine
  PROVE  text[i][1] \in Ids(text, n)
<1>1. PICK s \in 1..i, id \in 1..Len(lg) : InRecord(text, i, s, id, lg)
  BY RecordOf
<1>2. text[i] = <<id, i - s>> /\ id # 0
  BY <1>1 DEF InRecord
<1> QED
  BY <1>2 DEF Ids

\* The first e characters end with a record, which begins at s.
EndsWith(text, e, s, id, k, lg) ==
  /\ TextAt(text, s, id, lg) /\ e = s + k + 1 /\ k = lg[id].subs /\ k \in Nat /\ id \in Nat \ {0}
EndsWithRecord(text, e, lg) ==
  \E s \in 1..e, id \in 1..Len(lg) : EndsWith(text, e, s, id, lg[id].subs, lg)

(* Where a break is, a record ends.                                          *)
LEMMA LastRecord ==
  ASSUME NEW lg \in Seq(Record), NEW text, NEW n \in Nat, n = Len(text),
         TextWhole(text, lg), NEW e \in 1..n, text[e] = NewLine
  PROVE  EndsWithRecord(text, e, lg)
BY RecordOf DEF InRecord, EndsWithRecord, EndsWith

(* ... and a text of whole records ends with one.                            *)
LEMMA TextEnds ==
  ASSUME NEW lg \in Seq(Record), NEW text, NEW n \in Nat \ {0}, n = Len(text), TextWhole(text, lg)
  PROVE  text[n] = NewLine
<1>1. n \in 1..n
  OBVIOUS
<1>2. PICK s \in 1..n, id \in 1..Len(lg) : InRecord(text, n, s, id, lg)
  BY <1>1, RecordOf
<1>3. s + lg[id].subs + 1 <= n /\ text[s + lg[id].subs + 1] = NewLine
  BY <1>2 DEF TextAt, InRecord
<1>4. s + lg[id].subs + 1 = n
  BY <1>2, <1>3 DEF InRecord
<1> QED
  BY <1>3, <1>4

(* A record of a text is one of a text that goes on behind it.               *)
LEMMA TextStays ==
  ASSUME NEW lg \in Seq(Record), NEW text, NEW both, NEW n \in Nat, NEW m \in Nat, n <= m,
         Len(text) = n, Len(both) = m, \A i \in 1..n : both[i] = text[i],
         NEW s \in Nat, NEW id \in 1..Len(lg), TextAt(text, s, id, lg)
  PROVE  TextAt(both, s, id, lg)
<1> DEFINE k == lg[id].subs
<1>1. k \in Nat
  BY RecordFields
<1>2. /\ s \in 1..n /\ s + k + 1 <= n /\ text[s + k + 1] = NewLine
      /\ \A d \in 0..k : text[s + d] = <<id, d>>
      /\ s = 1 \/ text[s - 1] = NewLine
  BY DEF TextAt, RecordAt
<1>3. s + k + 1 \in 1..n /\ (s # 1 => s - 1 \in 1..n) /\ \A d \in 0..k : s + d \in 1..n
  <2> HIDE DEF k
  <2>1. s \in 1..n /\ s + k + 1 <= n
    BY <1>2
  <2>2. s + k + 1 \in 1..n
    BY <1>1, <2>1
  <2>3. s # 1 => s - 1 \in 1..n
    BY <2>1
  <2>4. ASSUME NEW d \in 0..k  PROVE s + d \in 1..n
    BY <1>1, <2>1, <2>4
  <2> QED
    BY <2>2, <2>3, <2>4
<1>4. both[s + k + 1] = NewLine /\ (s = 1 \/ both[s - 1] = NewLine)
  BY <1>2, <1>3
<1>5. \A d \in 0..k : both[s + d] = <<id, d>>
  BY <1>2, <1>3
<1>6. s + k + 1 <= m /\ s + k <= m /\ s \in 1..m
  BY <1>1, <1>2
<1> QED
  BY <1>4, <1>5, <1>6 DEF TextAt, RecordAt

\* The lines of record id, k + 1 of them, come behind n lines.
LinesAfter(lines, both, n, k, id) ==
  /\ \A i \in 1..n : both[i] = lines[i]
  /\ \A d \in 0..k : both[n + 1 + d] = <<id, d>>

\* The records of the first n lines are above id, or below it.
AllAbove(lines, n, id) == \A x \in Ids(lines, n) : id < x
AllBelow(lines, n, id) == \A x \in Ids(lines, n) : x < id

\* What the longer file is: whole records, one more than before.
TextGrown(text, both, n, id, lg) ==
  /\ TextWhole(both, lg) /\ Descending(both)
  /\ Ids(both, Len(both)) = Ids(text, n) \cup {id}
FileGrown(lines, both, n, id, lg) ==
  /\ FileWhole(both, lg) /\ LastId(both) = id
  /\ Ids(both, Len(both)) = Ids(lines, n) \cup {id}
  /\ Ascending(lines) /\ AllBelow(lines, n, id) => Ascending(both)

(* A record's characters after a text of whole records, all of them above    *)
(* it: again such a text, with one record more.                              *)
LEMMA TextGrows ==
  ASSUME NEW lg \in Seq(Record), NEW text, NEW both, NEW n \in Nat, NEW k \in Nat,
         NEW id \in 1..Len(lg), id \in Nat \ {0}, lg[id].subs = k,
         Len(text) = n, NEW len \in Nat, len = n + k + 2, Len(both) = len,
         TextWhole(text, lg), Descending(text), AllAbove(text, n, id),
         LinesAfter(text, both, n, k, id), both[len] = NewLine
  PROVE  TextGrown(text, both, n, id, lg)
<1> USE DEF AllAbove, LinesAfter
<1>1. n = 0 \/ both[n] = NewLine
  BY TextEnds
<1>2. TextAt(both, n + 1, id, lg)
  <2>1. RecordAt(both, n + 1, id, lg)
    <3>1. n + 1 \in 1..len /\ (n + 1) + k <= len
      OBVIOUS
    <3>2. \A d \in 0..k : both[n + 1 + d] = <<id, d>>
      OBVIOUS
    <3> QED
      BY <3>1, <3>2 DEF RecordAt
  <2>2. n + 1 = 1 \/ both[(n + 1) - 1] = NewLine
    BY <1>1
  <2>3. (n + 1) + k + 1 = n + k + 2
    OBVIOUS
  <2> QED
    BY <2>1, <2>2, <2>3 DEF TextAt
<1>3. TextWhole(both, lg)
  <2> SUFFICES ASSUME NEW i \in 1..(n + k + 2)
               PROVE  \E s \in 1..i, x \in 1..Len(lg) :
                        TextAt(both, s, x, lg) /\ i <= s + lg[x].subs + 1
    <3>1. 1..Len(both) = 1..(n + k + 2)
      OBVIOUS
    <3> QED
      BY <3>1, Zenon DEF TextWhole
  <2>1. CASE i <= n
    <3>1. i \in 1..n
      BY <2>1
    <3>2. PICK s \in 1..i, x \in 1..Len(lg) : TextAt(text, s, x, lg) /\ i <= s + lg[x].subs + 1
      BY <3>1, RecordOf DEF InRecord
    <3>3. n + k + 2 \in Nat /\ n <= n + k + 2 /\ s \in Nat
      OBVIOUS
    <3>4. TextAt(both, s, x, lg)
      BY <3>2, <3>3, TextStays, SMTT(30)
    <3> QED
      BY <3>2, <3>4
  <2>2. CASE i > n
    <3>1. n + 1 \in 1..i /\ i <= (n + 1) + k + 1
      BY <2>2
    <3> QED
      BY <3>1, <1>2
  <2> QED
    BY <2>1, <2>2
<1>4. Descending(both)
  <2> SUFFICES ASSUME NEW i \in 1..(n + k + 2), NEW j \in 1..(n + k + 2), i < j,
                      both[i] # NewLine, both[j] # NewLine, both[j][2] = 0
               PROVE  both[j][1] < both[i][1]
    BY DEF Descending
  <2>1. CASE j <= n
    <3>1. i \in 1..n /\ j \in 1..n
      BY <2>1
    <3> QED
      BY <3>1 DEF Descending
  <2>2. CASE j > n
    <3>1. PICK d \in 0..(k + 1) : j = n + 1 + d
      <4>1. j - (n + 1) \in 0..(k + 1) /\ j = n + 1 + (j - (n + 1))
        BY <2>2
      <4> QED
        BY <4>1
    <3>2. d # k + 1
      <4>1. d = k + 1 => j = n + k + 2
        BY <3>1
      <4> QED
        BY <4>1
    <3>3. d \in 0..k /\ both[j] = <<id, d>>
      <4>1. d \in 0..k
        BY <3>2
      <4> QED
        BY <4>1, <3>1
    <3>4. d = 0 /\ both[j][1] = id
      BY <3>3
    <3>5. i \in 1..n /\ text[i] # NewLine /\ both[i] = text[i]
      <4>1. i \in 1..n
        BY <3>1, <3>4
      <4> QED
        BY <4>1
    <3>6. text[i][1] \in Ids(text, n)
      BY <3>5, TextIds
    <3> QED
      BY <3>4, <3>5, <3>6
  <2> QED
    BY <2>1, <2>2
<1>5. Ids(both, n + k + 2) = Ids(text, n) \cup {id}
  <2>1. \A d \in 1..(k + 2) : both[n + d][1] \in {0, id}
    <3> TAKE d \in 1..(k + 2)
    <3>1. CASE d = k + 2
      <4>1. n + d = n + k + 2
        BY <3>1
      <4>2. both[n + d] = <<0, 0>>
        BY <4>1 DEF NewLine
      <4> QED
        BY <4>2
    <3>2. CASE d # k + 2
      <4>1. d - 1 \in 0..k /\ n + d = n + 1 + (d - 1)
        BY <3>2
      <4>2. both[n + d] = <<id, d - 1>>
        BY <4>1
      <4> QED
        BY <4>2
    <3> QED
      BY <3>1, <3>2
  <2>2. both[n + 1][1] = id
    <3>1. 0 \in 0..k /\ n + 1 = n + 1 + 0
      OBVIOUS
    <3>2. both[n + 1] = <<id, 0>>
      BY <3>1
    <3> QED
      BY <3>2
  <2>3. GoesOn(text, both, n, k + 2, id)
    <3>1. 1 \in 1..(k + 2)
      OBVIOUS
    <3> QED
      BY <2>1, <2>2, <3>1 DEF GoesOn
  <2>4. k + 2 \in Nat /\ n + k + 2 \in Nat /\ n + k + 2 = n + (k + 2)
    OBVIOUS
  <2> QED
    BY <2>3, <2>4, IdsMore
<1> QED
  BY <1>3, <1>4, <1>5 DEF TextGrown

\* Line i of the output is of record id at s.
InLines(lines, i, s, id, lg) ==
  /\ RecordAt(lines, s, id, lg) /\ i <= s + lg[id].subs
  /\ lg[id].subs \in Nat /\ id \in Nat \ {0} /\ lines[i] = <<id, i - s>>

(* A line of the output is in a whole record.                                *)
LEMMA LineOf ==
  ASSUME NEW lg \in Seq(Record), NEW lines, NEW n \in Nat, n = Len(lines),
         FileWhole(lines, lg), NEW i \in 1..n
  PROVE  \E s \in 1..i, id \in 1..Len(lg) : InLines(lines, i, s, id, lg)
<1>1. PICK s \in 1..i, id \in 1..Len(lg) : RecordAt(lines, s, id, lg) /\ i <= s + lg[id].subs
  BY DEF FileWhole
<1>2. lg[id].subs \in Nat /\ id \in Nat \ {0}
  BY RecordFields
<1>3. i - s \in 0..lg[id].subs /\ s + (i - s) = i
  BY <1>1, <1>2
<1>4. lines[i] = <<id, i - s>>
  BY <1>1, <1>3 DEF RecordAt
<1> QED
  BY <1>1, <1>2, <1>4 DEF InLines

(* ... that is one of the output's.                                          *)
LEMMA LineIds ==
  ASSUME NEW lg \in Seq(Record), NEW lines, NEW n \in Nat, n = Len(lines),
         FileWhole(lines, lg), NEW i \in 1..n
  PROVE  lines[i][1] \in Ids(lines, n) /\ lines[i][1] \in 1..Len(lg)
<1>1. PICK s \in 1..i, id \in 1..Len(lg) : InLines(lines, i, s, id, lg)
  BY LineOf
<1>2. lines[i] = <<id, i - s>> /\ id # 0
  BY <1>1 DEF InLines
<1> QED
  BY <1>2 DEF Ids

(* The records of the output are records of the server.                      *)
LEMMA IdsLogged ==
  ASSUME NEW lg \in Seq(Record), NEW lines, NEW n \in Nat, n = Len(lines),
         FileWhole(lines, lg), NEW x \in Ids(lines, n)
  PROVE  x \in 1..Len(lg)
<1>1. PICK i \in 1..n : x = lines[i][1]
  BY DEF Ids
<1> QED
  BY <1>1, LineIds

\* The last record's first line is at s, the last one of its kind.
LastHead(lines, n, s) ==
  /\ lines[s] = <<LastId(lines), 0>>
  /\ \A i \in 1..n : s < i => lines[i][2] # 0

(* The last record of the output begins with the last first line.            *)
LEMMA LastLines ==
  ASSUME NEW lg \in Seq(Record), NEW lines, NEW n \in Nat \ {0}, n = Len(lines),
         FileWhole(lines, lg)
  PROVE  /\ LastId(lines) \in 1..Len(lg) /\ LastId(lines) \in Ids(lines, n)
         /\ lines[n][2] = lg[LastId(lines)].subs
         /\ \E s \in 1..n : LastHead(lines, n, s)
<1>1. n \in 1..n
  OBVIOUS
<1>2. PICK s \in 1..n, id \in 1..Len(lg) : InLines(lines, n, s, id, lg)
  BY <1>1, LineOf
<1>3. /\ n = s + lg[id].subs /\ lg[id].subs \in Nat /\ lines[n] = <<id, n - s>>
      /\ \A d \in 0..lg[id].subs : lines[s + d] = <<id, d>>
  <2>1. s + lg[id].subs <= n /\ \A d \in 0..lg[id].subs : lines[s + d] = <<id, d>>
    BY <1>2 DEF InLines, RecordAt
  <2>2. n <= s + lg[id].subs /\ lg[id].subs \in Nat /\ lines[n] = <<id, n - s>>
    BY <1>2 DEF InLines
  <2>3. n = s + lg[id].subs
    BY <2>1, <2>2
  <2> QED
    BY <2>1, <2>2, <2>3
<1>4. LastId(lines) = id /\ lines[n][2] = lg[id].subs
  BY <1>3 DEF LastId
<1>5. lines[s] = <<id, 0>>
  <2>1. 0 \in 0..lg[id].subs /\ s + 0 = s
    BY <1>3
  <2> QED
    BY <2>1, <1>3
<1>6. ASSUME NEW i \in 1..n, s < i PROVE lines[i][2] # 0
  <2>1. i - s \in 0..lg[id].subs /\ s + (i - s) = i /\ i - s # 0
    BY <1>3, <1>6
  <2>2. lines[i] = <<id, i - s>>
    BY <2>1, <1>3
  <2> QED
    BY <2>1, <2>2
<1>7. LastHead(lines, n, s)
  BY <1>4, <1>5, <1>6 DEF LastHead
<1> QED
  BY <1>1, <1>4, <1>7, LineIds DEF LastId

(* The records of an output in order are not above the last.                 *)
LEMMA LastIsGreatest ==
  ASSUME NEW lg \in Seq(Record), NEW lines, NEW n \in Nat \ {0}, n = Len(lines),
         FileWhole(lines, lg), Ascending(lines), NEW x \in Ids(lines, n)
  PROVE  x <= LastId(lines)
<1>1. PICK i \in 1..n : x = lines[i][1]
  BY DEF Ids
<1>2. PICK s \in 1..n : LastHead(lines, n, s)
  BY LastLines
<1>3. PICK s2 \in 1..i, id \in 1..Len(lg) : InLines(lines, i, s2, id, lg)
  BY LineOf
<1>4. lines[s2] = <<id, 0>> /\ id = x /\ lines[s2][2] = 0
  <2>1. 0 \in 0..lg[id].subs /\ s2 + 0 = s2
    BY <1>3 DEF InLines
  <2> QED
    BY <2>1, <1>1, <1>3 DEF InLines, RecordAt
<1>5. s2 <= s
  BY <1>2, <1>4 DEF LastHead
<1>6. CASE s2 = s
  BY <1>2, <1>4, <1>6 DEF LastHead
<1>7. CASE s2 # s
  <2>1. s2 \in 1..n /\ s2 < s /\ lines[s][2] = 0 /\ lines[s][1] = LastId(lines)
    BY <1>2, <1>5, <1>7 DEF LastHead
  <2>2. lines[s2][1] < lines[s][1]
    BY <2>1 DEF Ascending
  <2>3. LastId(lines) \in 1..Len(lg)
    BY LastLines
  <2> QED
    BY <2>1, <2>2, <2>3, <1>4
<1> QED
  BY <1>6, <1>7

(* A record's lines behind whole records; in order when it is above them.    *)
LEMMA FileGrows ==
  ASSUME NEW lg \in Seq(Record), NEW lines, NEW both, NEW n \in Nat, NEW k \in Nat,
         NEW id \in 1..Len(lg), id \in Nat \ {0}, lg[id].subs = k,
         Len(lines) = n, NEW len \in Nat, len = n + k + 1, Len(both) = len, FileWhole(lines, lg),
         LinesAfter(lines, both, n, k, id)
  PROVE  FileGrown(lines, both, n, id, lg)
<1> USE DEF LinesAfter, AllBelow
<1>1. RecordAt(both, n + 1, id, lg)
  BY SMTT(30) DEF RecordAt
<1>2. FileWhole(both, lg)
  <2> SUFFICES ASSUME NEW i \in 1..(n + k + 1)
               PROVE  \E s \in 1..i, x \in 1..Len(lg) :
                        RecordAt(both, s, x, lg) /\ i <= s + lg[x].subs
    BY DEF FileWhole
  <2>1. CASE i <= n
    <3>1. i \in 1..n
      BY <2>1
    <3>2. PICK s \in 1..i, x \in 1..Len(lg) : InLines(lines, i, s, x, lg)
      BY <3>1, LineOf
    <3>3. lg[x].subs \in Nat /\ s + lg[x].subs <= n /\ \A d \in 0..lg[x].subs : lines[s + d] = <<x, d>>
      BY <3>2 DEF InLines, RecordAt
    <3>4. \A d \in 0..lg[x].subs : both[s + d] = <<x, d>>
      <4> TAKE d \in 0..lg[x].subs
      <4>1. lines[s + d] = <<x, d>>
        BY <3>3
      <4>2. s + d \in 1..n
        BY <3>3
      <4> QED
        BY <4>1, <4>2
    <3>5. s \in 1..(n + k + 1) /\ s + lg[x].subs <= n + k + 1 /\ i <= s + lg[x].subs
      BY <3>2, <3>3, SMTT(30) DEF InLines
    <3> QED
      BY <3>4, <3>5 DEF RecordAt
  <2>2. CASE i > n
    <3>1. n + 1 \in 1..i /\ i <= (n + 1) + k
      BY <2>2
    <3> QED
      BY <3>1, <1>1
  <2> QED
    BY <2>1, <2>2
<1>3. LastId(both) = id
  <2>1. k \in 0..k /\ n + 1 + k = n + k + 1
    OBVIOUS
  <2>2. both[n + k + 1] = <<id, k>>
    BY <2>1
  <2> QED
    BY <2>2 DEF LastId
<1>4. \A d \in 1..(k + 1) : both[n + d] = <<id, d - 1>>
  <2> TAKE d \in 1..(k + 1)
  <2>1. d - 1 \in 0..k /\ n + d = n + 1 + (d - 1)
    OBVIOUS
  <2> QED
    BY <2>1
<1>5. Ids(both, n + k + 1) = Ids(lines, n) \cup {id}
  <2>1. \A d \in 1..(k + 1) : both[n + d][1] = id
    <3> TAKE d \in 1..(k + 1)
    <3>1. both[n + d] = <<id, d - 1>>
      BY <1>4
    <3> QED
      BY <3>1
  <2>2. GoesOn(lines, both, n, k + 1, id)
    <3>1. 1 \in 1..(k + 1)
      OBVIOUS
    <3> QED
      BY <2>1, <3>1 DEF GoesOn
  <2>3. k + 1 \in Nat /\ n + k + 1 \in Nat /\ n + k + 1 = n + (k + 1)
    OBVIOUS
  <2> QED
    BY <2>2, <2>3, IdsMore
<1>6. ASSUME Ascending(lines), \A x \in Ids(lines, n) : x < id PROVE Ascending(both)
  <2> SUFFICES ASSUME NEW i \in 1..(n + k + 1), NEW j \in 1..(n + k + 1), i < j, both[j][2] = 0
               PROVE  both[i][1] < both[j][1]
    BY DEF Ascending
  <2>1. CASE j <= n
    <3>1. i \in 1..n /\ j \in 1..n
      BY <2>1
    <3> QED
      BY <3>1, <1>6 DEF Ascending
  <2>2. CASE j > n
    <3>1. j - n \in 1..(k + 1) /\ n + (j - n) = j
      BY <2>2
    <3>2. both[j] = <<id, (j - n) - 1>>
      BY <3>1, <1>4
    <3>3. j = n + 1 /\ both[j][1] = id
      BY <3>1, <3>2
    <3>4. i \in 1..n /\ both[i] = lines[i]
      BY <3>3
    <3>5. lines[i][1] \in Ids(lines, n)
      BY <3>4, LineIds
    <3> QED
      BY <3>3, <3>4, <3>5, <1>6
  <2> QED
    BY <2>1, <2>2
<1> QED
  BY <1>2, <1>3, <1>5, <1>6 DEF FileGrown

\* The first len characters without that record: the others are above it.
TextShrunk(text, len, s, id) ==
  /\ Ids(text, len) = Ids(text, s - 1) \cup {id}
  /\ AllAbove(text, s - 1, id)

(* A text without its last record: the record is below the others.           *)
LEMMA TextShrinks ==
  ASSUME NEW lg \in Seq(Record), NEW text, NEW n \in Nat, n = Len(text),
         TextWhole(text, lg), Descending(text),
         NEW s \in 1..n, NEW id \in 1..Len(lg), TextAt(text, s, id, lg),
         NEW len \in Nat, len = s + lg[id].subs + 1
  PROVE  TextShrunk(text, len, s, id)
<1> DEFINE k == lg[id].subs
<1>1. k \in Nat /\ id \in Nat \ {0}
  BY RecordFields
<1>2. /\ s + k + 1 <= n /\ text[s + k + 1] = NewLine
      /\ \A d \in 0..k : text[s + d] = <<id, d>>
  BY DEF TextAt, RecordAt
<1> HIDE DEF k
<1>3. \A d \in 1..(k + 1) : text[(s - 1) + d] = <<id, d - 1>>
  <2> TAKE d \in 1..(k + 1)
  <2>1. d - 1 \in 0..k /\ (s - 1) + d = s + (d - 1)
    BY <1>1
  <2> QED
    BY <2>1, <1>2
<1>4. GoesOn(text, text, s - 1, k + 2, id)
  <2>1. \A d \in 1..(k + 2) : text[(s - 1) + d][1] \in {0, id}
    <3> TAKE d \in 1..(k + 2)
    <3>1. CASE d = k + 2
      <4>1. (s - 1) + d = s + k + 1
        BY <3>1, <1>1
      <4>2. text[(s - 1) + d] = <<0, 0>>
        BY <4>1, <1>2 DEF NewLine
      <4> QED
        BY <4>2
    <3>2. CASE d # k + 2
      <4>1. d \in 1..(k + 1)
        BY <3>2, <1>1
      <4>2. text[(s - 1) + d] = <<id, d - 1>>
        BY <4>1, <1>3
      <4> QED
        BY <4>2
    <3> QED
      BY <3>1, <3>2
  <2>2. 1 \in 1..(k + 2) /\ 1 \in 1..(k + 1)
    BY <1>1
  <2>3. text[(s - 1) + 1] = <<id, 0>>
    BY <2>2, <1>3
  <2>4. text[(s - 1) + 1][1] = id
    BY <2>3
  <2> QED
    BY <2>1, <2>2, <2>4 DEF GoesOn
<1>5. Ids(text, s + k + 1) = Ids(text, s - 1) \cup {id}
  <2>1. s - 1 \in Nat /\ k + 2 \in Nat /\ s + k + 1 \in Nat /\ s + k + 1 = (s - 1) + (k + 2)
    BY <1>1
  <2> QED
    BY <2>1, <1>1, <1>4, IdsMore
<1>6. ASSUME NEW x \in Ids(text, s - 1) PROVE id < x
  <2>1. PICK i \in 1..(s - 1) : x = text[i][1] /\ x # 0
    BY DEF Ids
  <2>2. i \in 1..n /\ i < s
    OBVIOUS
  <2>3. text[i] # NewLine
    <3>1. text[i] = <<0, 0>> => x = 0
      BY <2>1
    <3> QED
      BY <3>1, <2>1 DEF NewLine
  <2>4. text[s] = <<id, 0>>
    <3>1. 0 \in 0..k /\ s + 0 = s
      BY <1>1
    <3> QED
      BY <3>1, <1>2
  <2>5. text[s] # NewLine /\ text[s][2] = 0 /\ text[s][1] = id
    BY <2>4, <1>1 DEF NewLine
  <2>6. text[s][1] < text[i][1]
    BY <2>2, <2>3, <2>5 DEF Descending
  <2> QED
    BY <2>1, <2>5, <2>6
<1> QED
  BY <1>5, <1>6 DEF k, AllAbove, TextShrunk

(* --------------------------- the operators of the model ------------------ *)

\* The last line of a piece behind p characters starts at s, or with the piece.
EndsFrom(piece, p, s) == LastLine(piece) = IF p < s THEN s - p ELSE 1

(* What is above the break before the last record, of a spillover that goes  *)
(* from p to the end of the record: where its last line starts.              *)
LEMMA LastLineIs ==
  ASSUME NEW lg \in Seq(Record), NEW text, NEW n \in Nat, n = Len(text),
         NEW s \in 1..n, NEW id \in 1..Len(lg), TextAt(text, s, id, lg),
         NEW k \in Nat, k = lg[id].subs, NEW p \in Nat, NEW len \in Nat \ {0},
         NEW end \in Nat, end = p + len, end = s + k + 1,
         NEW piece, PieceOf(piece, text, p, len)
  PROVE  EndsFrom(piece, p, s)
<1> DEFINE breaks == {i \in 1..(len - 1) : piece[i] = NewLine}
           S == {0} \cup breaks
<1>1. /\ id \in Nat \ {0} /\ text[s + k + 1] = NewLine /\ (s = 1 \/ text[s - 1] = NewLine)
      /\ \A d \in 0..k : text[s + d] = <<id, d>>
  BY RecordFields DEF TextAt, RecordAt
<1>2. S \subseteq Nat /\ LastLine(piece) = Max(S) + 1
  BY DEF LastLine, PieceOf
<1>3. ASSUME NEW i \in breaks PROVE p + i < s
  <2> SUFFICES ASSUME ~(p + i < s) PROVE FALSE
    OBVIOUS
  <2>1. i \in 1..len /\ i <= len - 1 /\ piece[i] = NewLine
    OBVIOUS
  <2>2. (p + i) - s \in 0..k /\ s + ((p + i) - s) = p + i
    BY <2>1, SMTT(30)
  <2>3. text[p + i] = <<id, (p + i) - s>>
    BY <2>2, <1>1
  <2>4. text[p + i] = <<0, 0>>
    BY <2>1 DEF NewLine, PieceOf
  <2> QED
    BY <2>3, <2>4, <1>1
<1>4. CASE p < s
  <2>1. (s - 1) - p \in S
    <3>1. CASE p = s - 1
      BY <3>1
    <3>2. CASE p # s - 1
      <4>1. (s - 1) - p \in 1..(len - 1) /\ s # 1 /\ p + ((s - 1) - p) = s - 1
        BY <1>4, <3>2
      <4>2. piece[(s - 1) - p] = text[s - 1]
        BY <4>1, SMTT(30) DEF PieceOf
      <4> QED
        BY <4>1, <4>2, <1>1
    <3> QED
      BY <3>1, <3>2
  <2>2. \A i \in S : i <= (s - 1) - p
    BY <1>3, <1>4
  <2> HIDE DEF S
  <2>3. Max(S) = (s - 1) - p
    BY <2>1, <2>2, <1>2, MaxIs
  <2> QED
    BY <2>3, <1>2, <1>4 DEF EndsFrom
<1>5. CASE ~(p < s)
  <2>1. 0 \in S /\ \A i \in S : i <= 0
    BY <1>3, <1>5
  <2> HIDE DEF S
  <2>2. Max(S) = 0
    BY <2>1, <1>2, MaxIs
  <2> QED
    BY <2>2, <1>2, <1>5 DEF EndsFrom
<1> QED
  BY <1>4, <1>5

(* FindSentinel finds the text of the output's last record, or nothing.      *)
LEMMA SentinelFound ==
  ASSUME TypeOK, FileOK, FindSentinel # 0
  PROVE  file # <<>> /\ FindSentinel = log[LastId(file)].text
<1> DEFINE n == Len(file)
           heads == {i \in DOMAIN file : /\ file[i][2] = 0
                                         /\ i > 1 /\ i + FindBlock > Len(file) + 1}
<1>1. n \in Nat /\ DOMAIN file = 1..n /\ log \in Seq(Record) /\ FileWhole(file, log)
  BY DEF TypeOK, FileOK
<1>2. heads # {} /\ FindSentinel = log[file[Max(heads)][1]].text
  BY DEF FindSentinel
<1>3. file # <<>> /\ n # 0
  <2>1. PICK i \in DOMAIN file : TRUE
    BY <1>2, Zenon
  <2>2. n # 0
    BY <2>1, <1>1
  <2>3. file = <<>> => n = 0
    OBVIOUS
  <2> QED
    BY <2>2, <2>3
<1>4. PICK s \in 1..n : LastHead(file, n, s)
  BY <1>1, <1>3, LastLines
<1>5. \A i \in heads : i \in Nat /\ i <= s
  BY <1>1, <1>4 DEF LastHead
<1>6. s \in heads
  <2>1. PICK i \in heads : TRUE
    BY <1>2
  <2>2. i > 1 /\ i + FindBlock > n + 1 /\ i <= s /\ i \in Nat
    BY <2>1, <1>5
  <2>3. s > 1 /\ s + FindBlock > n + 1
    BY <2>2, <1>1, SizesAssumption
  <2>4. file[s][2] = 0
    BY <1>4 DEF LastHead
  <2> QED
    BY <2>3, <2>4, <1>1
<1> HIDE DEF heads, n
<1>7. Max(heads) = s
  <2>1. heads \in SUBSET Nat
    BY <1>5
  <2> QED
    BY <2>1, <1>5, <1>6, MaxIs
<1>8. file[s][1] = LastId(file)
  BY <1>4 DEF LastHead
<1> QED
  BY <1>2, <1>3, <1>7, <1>8

(* Blocks: where the one before begins.                                      *)
LEMMA PosBefore ==
  ASSUME NEW b \in Nat \ {0}, NEW n \in Nat
  PROVE  LET start == (b - 1) * BlockSize
             end == IF start + BlockSize < n THEN start + BlockSize ELSE n
         IN /\ start \in Nat /\ end = Pos(b, n) /\ end \in Nat /\ end <= n
            /\ Pos(b - 1, n) = IF start < end THEN start ELSE end
<1>1. BlockSize \in Nat \ {0}
  BY SizesAssumption
<1>2. b * BlockSize = (b - 1) * BlockSize + BlockSize /\ (b - 1) * BlockSize \in Nat
  BY <1>1
<1> QED
  BY <1>1, <1>2 DEF Pos

(* ... the first one at the beginning, and those behind the end at the end.  *)
LEMMA PosEnds ==
  ASSUME NEW n \in Nat
  PROVE  /\ Pos(0, n) = 0
         /\ n \div BlockSize + 2 \in Nat /\ Pos(n \div BlockSize + 2, n) = n
         /\ \A b \in Nat : Pos(b, n) \in Nat /\ Pos(b, n) <= n
<1>1. BlockSize \in Nat \ {0}
  BY SizesAssumption
<1>2. Pos(0, n) = 0
  BY <1>1 DEF Pos
<1>3. PICK q \in Nat : q = n \div BlockSize /\ n < (q + 1) * BlockSize
  BY <1>1
<1>4. (q + 2) * BlockSize = (q + 1) * BlockSize + BlockSize /\ (q + 1) * BlockSize \in Nat
  BY <1>1
<1>5. Pos(q + 2, n) = n
  BY <1>1, <1>3, <1>4 DEF Pos
<1>6. ASSUME NEW b \in Nat PROVE Pos(b, n) \in Nat /\ Pos(b, n) <= n
  <2>1. b * BlockSize \in Nat
    BY <1>1
  <2> QED
    BY <2>1 DEF Pos
<1> QED
  BY <1>2, <1>3, <1>5, <1>6

(* A part of a sequence.                                                     *)
LEMMA PartOf ==
  ASSUME NEW S, NEW s \in Seq(S), NEW m \in Nat, NEW n \in Nat, n <= Len(s)
  PROVE  /\ SubSeq(s, m + 1, n) \in Seq(S)
         /\ Len(SubSeq(s, m + 1, n)) = IF m < n THEN n - m ELSE 0
         /\ \A i \in 1..(n - m) : SubSeq(s, m + 1, n)[i] = s[m + i]
<1>1. PICK q \in Nat : q = m + 1
  OBVIOUS
<1>2. \A i \in q..n : s[i] \in S
  <2> TAKE i \in q..n
  <2>1. i \in 1..Len(s)
    BY <1>1
  <2> QED
    BY <2>1, ElementOfSeq
<1>3. /\ SubSeq(s, q, n) \in Seq(S)
      /\ Len(SubSeq(s, q, n)) = IF q <= n THEN n - q + 1 ELSE 0
      /\ \A i \in 1..(n - q + 1) : SubSeq(s, q, n)[i] = s[q + i - 1]
  BY <1>2, SubSeqProperties
<1>4. Len(SubSeq(s, q, n)) = IF m < n THEN n - m ELSE 0
  BY <1>1, <1>3
<1>5. \A i \in 1..(n - m) : SubSeq(s, q, n)[i] = s[m + i]
  <2> TAKE i \in 1..(n - m)
  <2>1. i \in 1..(n - q + 1) /\ q + i - 1 = m + i
    BY <1>1
  <2> QED
    BY <2>1, <1>3
<1> QED
  BY <1>1, <1>3, <1>4, <1>5

(* A block that is read, put before the spillover: a longer piece of the     *)
(* text, with the same end.                                                  *)
LEMMA BlockRead ==
  ASSUME NEW text \in Seq(Line), NEW n \in Nat, n = Len(text),
         NEW start \in Nat, NEW end \in Nat, end <= n,
         NEW p \in Nat, p = IF start < end THEN start ELSE end,
         NEW rest \in Seq(Line), NEW len \in Nat, PieceOf(rest, text, end, len),
         NEW left \in Nat, left = end + len, left <= n, left = 0 \/ text[left] = NewLine
  PROVE  LET piece == Joined(SubSeq(text, start + 1, end), rest)
         IN piece \in Seq(Line) /\ PieceOf(piece, text, p, left - p)
<1> DEFINE data == SubSeq(text, start + 1, end)
           both == data \o rest
<1>2. /\ data \in Seq(Line) /\ Len(data) = end - p
      /\ \A i \in 1..(end - p) : data[i] = text[p + i]
  <2>1. /\ SubSeq(text, start + 1, end) \in Seq(Line)
        /\ Len(SubSeq(text, start + 1, end)) = IF start < end THEN end - start ELSE 0
        /\ \A i \in 1..(end - start) : SubSeq(text, start + 1, end)[i] = text[start + i]
    <3>1. end <= Len(text)
      OBVIOUS
    <3> QED
      BY <3>1, PartOf
  <2>2. /\ data \in Seq(Line) /\ Len(data) = IF start < end THEN end - start ELSE 0
        /\ \A i \in 1..(end - start) : data[i] = text[start + i]
    BY <2>1
  <2> HIDE DEF data
  <2>4. CASE start < end
    <3>1. p = start
      BY <2>4
    <3> QED
      BY <2>2, <2>4, <3>1
  <2>5. CASE ~(start < end)
    <3>1. p = end /\ end - p = 0 /\ 1..(end - p) = {}
      BY <2>5
    <3> QED
      BY <2>2, <2>5, <3>1
  <2> QED
    BY <2>4, <2>5
<1> HIDE DEF data
<1>8. /\ data \o rest \in Seq(Line)
      /\ Len(data \o rest) = Len(data) + Len(rest)
      /\ \A i \in 1 .. Len(data) + Len(rest) : (data \o rest)[i] =
                IF i <= Len(data) THEN data[i] ELSE rest[i - Len(data)]
  BY <1>2, ConcatProperties
<1>3. /\ both \in Seq(Line) /\ Len(both) = Len(data) + Len(rest)
      /\ \A i \in 1..Len(data) : both[i] = data[i]
      /\ \A i \in 1..Len(rest) : both[Len(data) + i] = rest[i]
  <2>1. Len(data) \in Nat /\ Len(rest) \in Nat
    BY <1>2, LenProperties
  <2>2. \A i \in 1..Len(rest) : both[Len(data) + i] = rest[i]
    <3> TAKE i \in 1..Len(rest)
    <3>1. /\ Len(data) + i \in 1 .. Len(data) + Len(rest)
          /\ ~(Len(data) + i <= Len(data)) /\ (Len(data) + i) - Len(data) = i
      BY <2>1
    <3> QED
      BY <3>1, <1>8
  <2> QED
    BY <2>1, <2>2, <1>8
<1> HIDE DEF both
<1>4. p \in Nat /\ end - p \in Nat /\ left - p = (end - p) + len /\ left = end + len
  <2>1. p <= end
    OBVIOUS
  <2> QED
    BY <2>1
<1>9. Len(rest) = len /\ \A i \in 1..len : rest[i] = text[end + i]
  BY DEF PieceOf
<1>5. Len(both) = left - p /\ left - p \in Nat
  BY <1>2, <1>3, <1>4, <1>9
<1>6. \A i \in 1..(left - p) : both[i] = text[p + i]
  <2> TAKE i \in 1..(left - p)
  <2>1. CASE i <= end - p
    <3>1. i \in 1..(end - p)
      BY <2>1, <1>4
    <3> QED
      BY <3>1, <1>2, <1>3
  <2>2. CASE ~(i <= end - p)
    <3>1. PICK j \in 1..len : (end - p) + j = i /\ end + j = p + i
      <4>1. i \in Nat /\ i <= (end - p) + len /\ i > end - p /\ end \in Nat /\ p \in Nat
            /\ len \in Nat /\ end - p \in Nat
        BY <2>2, <1>4
      <4>2. i - (end - p) \in 1..len /\ (end - p) + (i - (end - p)) = i /\ end + (i - (end - p)) = p + i
        BY <4>1
      <4> QED
        BY <4>2
    <3>2. both[(end - p) + j] = rest[j]
      BY <1>2, <1>3, <1>9
    <3>3. rest[j] = text[end + j]
      BY <1>9
    <3> QED
      BY <3>1, <3>2, <3>3
  <2> QED
    BY <2>1, <2>2
<1>7. Joined(data, rest) = both
  <2>1. CASE left - p = 0
    <3>1. both = <<>>
      BY <2>1, <1>3, <1>5, EmptySeq
    <3> QED
      BY <3>1 DEF Joined, Ended, both
  <2>2. CASE left - p # 0
    <3>1. left - p \in 1..(left - p) /\ p + (left - p) = left /\ left # 0
      <4>1. p \in Nat /\ left \in Nat /\ left - p \in Nat
        BY <1>4, <1>5
      <4> QED
        BY <2>2, <4>1
    <3>2. both[Len(both)] = NewLine
      BY <3>1, <1>5, <1>6
    <3> QED
      BY <3>2 DEF Joined, Ended, both
  <2> QED
    BY <2>1, <2>2
<1> QED
  BY <1>3, <1>5, <1>6, <1>7 DEF PieceOf, data

\* The lines of record id, k + 1 of them, are in the text from s on.
LinesIn(text, s, id, k) == \A d \in 0..k : text[s + d] = <<id, d>>

\* What is taken from a piece is record id, and m characters are left.
Taken(piece, text, id, k, p, m, e) ==
  /\ SubSeq(piece, m + 1, e) \in Seq(Line) /\ Len(SubSeq(piece, m + 1, e)) = k + 1
  /\ \A d \in 0..k : SubSeq(piece, m + 1, e)[d + 1] = <<id, d>>
  /\ SubSeq(piece, 1, m) \in Seq(Line) /\ PieceOf(SubSeq(piece, 1, m), text, p, m)

(* A record at the end of a piece of the text: the lines that are written    *)
(* and the piece that is left, of m characters.                              *)
LEMMA LineTaken ==
  ASSUME NEW text, NEW s \in Nat, NEW id, NEW k \in Nat, LinesIn(text, s, id, k),
         NEW p \in Nat, NEW m \in Nat, s = p + m + 1,
         NEW e \in Nat, e = m + k + 1, NEW len \in Nat, len = m + k + 2,
         NEW piece \in Seq(Line), PieceOf(piece, text, p, len)
  PROVE  Taken(piece, text, id, k, p, m, e)
<1>1. m < e /\ e - m = k + 1 /\ e <= len /\ m <= len /\ m - 0 = m /\ 0 + 1 = 1
      /\ (IF 0 < m THEN m - 0 ELSE 0) = m
  OBVIOUS
<1>2. Len(piece) = len
  BY DEF PieceOf
<1>3. \A i \in 1..len : piece[i] = text[p + i]
  BY DEF PieceOf
<1>4. /\ SubSeq(piece, m + 1, e) \in Seq(Line)
      /\ Len(SubSeq(piece, m + 1, e)) = IF m < e THEN e - m ELSE 0
      /\ \A i \in 1..(e - m) : SubSeq(piece, m + 1, e)[i] = piece[m + i]
  <2>1. e <= Len(piece)
    BY <1>1, <1>2
  <2> QED
    BY <2>1, PartOf
<1>5. ASSUME NEW d \in 0..k PROVE SubSeq(piece, m + 1, e)[d + 1] = <<id, d>>
  <2>1. d + 1 \in 1..(e - m) /\ m + (d + 1) \in 1..len /\ p + (m + (d + 1)) = s + d
    OBVIOUS
  <2>2. SubSeq(piece, m + 1, e)[d + 1] = piece[m + (d + 1)]
    BY <2>1, <1>4
  <2>3. piece[m + (d + 1)] = text[p + (m + (d + 1))]
    BY <2>1, <1>3
  <2>4. text[s + d] = <<id, d>>
    BY DEF LinesIn
  <2> QED
    BY <2>1, <2>2, <2>3, <2>4
<1>6. /\ SubSeq(piece, 0 + 1, m) \in Seq(Line)
      /\ Len(SubSeq(piece, 0 + 1, m)) = IF 0 < m THEN m - 0 ELSE 0
      /\ \A i \in 1..(m - 0) : SubSeq(piece, 0 + 1, m)[i] = piece[0 + i]
  <2>1. m <= Len(piece) /\ 0 \in Nat
    BY <1>1, <1>2
  <2> QED
    BY <2>1, PartOf
<1>7. SubSeq(piece, 1, m) \in Seq(Line) /\ Len(SubSeq(piece, 1, m)) = m
  BY <1>1, <1>6
<1>8. ASSUME NEW i \in 1..m PROVE SubSeq(piece, 1, m)[i] = text[p + i]
  <2>1. i \in 1..len /\ 0 + i = i
    OBVIOUS
  <2>2. SubSeq(piece, 1, m)[i] = piece[i]
    BY <1>1, <1>6, <2>1
  <2> QED
    BY <2>1, <2>2, <1>3
<1> QED
  BY <1>1, <1>4, <1>5, <1>7, <1>8 DEF PieceOf, Taken

(* ------------------------------ the invariant kept ---------------------- *)

(* Nothing has records if it is empty.                                       *)
LEMMA NoIds == ASSUME NEW lines PROVE Ids(lines, 0) = {}
<1>1. 1..0 = {}
  OBVIOUS
<1> QED
  BY <1>1, Zenon DEF Ids

(* Empty files are whole and in order.                                       *)
LEMMA EmptyFiles ==
  ASSUME NEW lg
  PROVE  /\ TextWhole(<<>>, lg) /\ Descending(<<>>) /\ FileWhole(<<>>, lg) /\ Ascending(<<>>)
         /\ Ids(<<>>, Len(<<>>)) = {}
<1>1. Len(<<>>) = 0 /\ 1..0 = {}
  OBVIOUS
<1> QED
  BY <1>1, NoIds DEF TextWhole, Descending, FileWhole, Ascending

(* The invariant holds before the first run.                                 *)
LEMMA InvInit == ASSUME Init PROVE Inv
<1>1. TypeOK
  <2>1. /\ log \in Seq(Record) /\ file \in Seq(Line) /\ tf \in Seq(Line) /\ spill \in Seq(Line)
    BY DEF Init
  <2>2. today \in 1..MaxDay /\ runs \in 0..MaxRuns
    BY BoundsAssumption DEF Init
  <2>3. /\ pc \in {"idle", "asking", "reading", "copying"} /\ dates \in Nat \X Nat /\ until \in Nat
        /\ sentinel \in Nat /\ at \in Nat /\ offset \in Nat /\ block \in Nat
        /\ doubled \in BOOLEAN /\ torn \in BOOLEAN
    BY DEF Init
  <2>4. asked \in Asked
    BY DEF Init, Asked
  <2> QED
    BY <2>1, <2>2, <2>3, <2>4 DEF TypeOK
<1>2. DaysGoUp
  BY DEF Init, DaysGoUp
<1>3. Places
  BY DEF Init, Places
<1>4. TextOK /\ FileOK
  BY EmptyFiles DEF Init, TextOK, FileOK
<1>5. AbovePlace /\ SentinelOK /\ CopyOK
  BY DEF Init, AbovePlace, SentinelOK, CopyOK, Fetching
<1> QED
  BY <1>1, <1>2, <1>3, <1>4, <1>5 DEF Inv

(* A run begins: the sentinel is the text of the output's last record.       *)
LEMMA BeginStep ==
  ASSUME Inv, NEW append \in BOOLEAN, NEW end \in 1..today, NEW days \in 0..MaxSpan,
         days <= end, Begin(append, end, days)
  PROVE  Inv'
<1> USE DEF Inv
<1>1. FindSentinel \in Nat
  <2>1. CASE FindSentinel # 0
    <3>1. file # <<>> /\ FindSentinel = log[LastId(file)].text
      BY <2>1, SentinelFound
    <3>2. PICK n \in Nat \ {0} : n = Len(file)
      BY <3>1 DEF TypeOK
    <3>3. LastId(file) \in 1..Len(log)
      BY <3>2, LastLines DEF TypeOK, FileOK
    <3> QED
      BY <3>1, <3>3, RecordFields DEF TypeOK
  <2> QED
    BY <2>1
<1>2. TypeOK'
  <2>1. /\ log' \in Seq(Record) /\ today' \in 1..MaxDay /\ file' \in Seq(Line)
        /\ pc' \in {"idle", "asking", "reading", "copying"}
        /\ sentinel' \in Nat /\ at' \in Nat /\ offset' \in Nat
        /\ tf' \in Seq(Line) /\ block' \in Nat /\ spill' \in Seq(Line)
        /\ doubled' \in BOOLEAN /\ torn' \in BOOLEAN
    BY <1>1 DEF TypeOK, Begin, world, copy
  <2>2. runs' \in 0..MaxRuns
    BY BoundsAssumption DEF TypeOK, Begin
  <2>3. end \in Nat /\ days \in Nat /\ (end + 1) - days \in Nat
    BY BoundsAssumption DEF TypeOK
  <2>4. until' \in Nat /\ dates' \in Nat \X Nat /\ dates'[1] \in Nat
    BY <2>3, BoundsAssumption DEF Begin
  <2>5. Len(log) \in Nat
    BY DEF TypeOK
  <2>6. (end = today /\ days > 0) \in BOOLEAN
    OBVIOUS
  <2>7. asked' \in Asked
    BY <2>3, <2>4, <2>5, <2>6 DEF Begin, Asked
  <2> QED
    BY <2>1, <2>2, <2>4, <2>7 DEF TypeOK
<1>3. DaysGoUp'
  BY DEF Begin, DaysGoUp, world
<1>4. Places'
  BY DEF Begin, Places, Fetching, world, copy
<1>5. TextOK' /\ FileOK'
  BY DEF Begin, TextOK, FileOK, world, copy
<1>6. AbovePlace'
  BY NoIds DEF Begin, AbovePlace, Places
<1>7. SentinelOK'
  <2>1. ~Started'
    BY DEF Begin, Started, Places, Fetching
  <2>2. sentinel' # 0 => FindSentinel # 0 /\ append /\ sentinel' = FindSentinel
    BY DEF Begin
  <2>3. asked'.append = append
    BY DEF Begin
  <2> QED
    BY <2>1, <2>2, <2>3, SentinelFound DEF SentinelOK, Begin, world, copy
<1>8. CopyOK'
  BY DEF Begin, CopyOK
<1> QED
  BY <1>2, <1>3, <1>4, <1>5, <1>6, <1>7, <1>8

(* An answer: its first record is the place in the log.                      *)
LEMMA AnswerStep == ASSUME Inv, Answer PROVE Inv'
<1> USE DEF Inv
<1>1. PICK first \in Nat : /\ first = IF offset = 0 THEN Len(log) ELSE offset
                           /\ at' = first /\ first <= Len(log)
  BY DEF Answer, TypeOK, Places
<1>2. PICK n \in 0..Limit : n <= first /\ offset' = first - n
  BY <1>1 DEF Answer
<1>3. offset' \in Nat /\ offset' <= at' /\ at' \in Nat
  BY <1>1, <1>2, SizesAssumption
<1>4. TypeOK'
  BY <1>3 DEF TypeOK, Answer, world, run, copy
<1>5. DaysGoUp'
  BY DEF Answer, DaysGoUp, world
<1>6. Places'
  BY <1>1, <1>3 DEF Answer, Places, Fetching, world, run, copy
<1>7. TextOK' /\ FileOK'
  BY DEF Answer, TextOK, FileOK, world, copy
<1>8. AbovePlace'
  <2>1. CASE offset = 0
    BY <2>1, EmptyFiles DEF Answer, AbovePlace, Places
  <2>2. CASE offset # 0
    BY <2>2, <1>1 DEF Answer, AbovePlace, Places, Fetching
  <2> QED
    BY <2>1, <2>2
<1>9. SentinelOK'
  <2>1. CASE sentinel = 0
    BY <2>1 DEF Answer, SentinelOK, run
  <2>2. CASE sentinel # 0
    <3>1. PICK n2 \in Nat \ {0} : n2 = Len(file)
      BY <2>2 DEF SentinelOK, TypeOK
    <3>2. LastId(file) \in 1..Len(log)
      BY <3>1, LastLines DEF TypeOK, FileOK
    <3>3. LastId(file) <= at'
      <4>1. CASE offset = 0
        BY <4>1, <3>2, <1>1
      <4>2. CASE offset # 0
        BY <4>2, <2>2, <1>1 DEF SentinelOK, Started, Places, Answer, TypeOK
      <4> QED
        BY <4>1, <4>2
    <3> QED
      BY <2>2, <3>3 DEF SentinelOK, Answer, run, copy, world
  <2> QED
    BY <2>1, <2>2
<1>10. CopyOK'
  BY DEF Answer, CopyOK
<1> QED
  BY <1>4, <1>5, <1>6, <1>7, <1>8, <1>9, <1>10

(* A line less of the answer, that is not the sentinel: the output's last    *)
(* record is below it still.                                                 *)
LEMMA PlaceMoves ==
  ASSUME Inv, Reading, ~IsSentinel(at), at' = at - 1, pc' = pc, offset' = offset,
         sentinel' = sentinel, asked' = asked, file' = file, log' = log
  PROVE  /\ at \in 1..Len(log) /\ at' \in Nat /\ offset' <= at' /\ at' <= Len(log)
         /\ SentinelOK'
<1> USE DEF Inv
<1>1. at \in 1..Len(log) /\ at' \in Nat /\ offset' <= at' /\ at' <= Len(log)
  BY DEF Reading, TypeOK, Places
<1>2. SentinelOK'
  <2>1. CASE sentinel = 0
    BY <2>1 DEF SentinelOK
  <2>2. CASE sentinel # 0
    <3>1. PICK n2 \in Nat \ {0} : n2 = Len(file)
      BY <2>2 DEF SentinelOK, TypeOK
    <3>2. LastId(file) \in 1..Len(log)
      BY <3>1, LastLines DEF TypeOK, FileOK
    <3>3. LastId(file) <= at /\ LastId(file) # at
      BY <2>2 DEF SentinelOK, Started, Reading, IsSentinel
    <3>4. LastId(file) <= at'
      BY <3>2, <3>3, <1>1
    <3> QED
      BY <2>2, <3>4 DEF SentinelOK
  <2> QED
    BY <2>1, <2>2
<1> QED
  BY <1>1, <1>2

(* A line is passed over.                                                    *)
LEMMA SkipStep == ASSUME Inv, SkipLine PROVE Inv'
<1> USE DEF Inv
<1>1. /\ at \in 1..Len(log) /\ at' \in Nat /\ offset' <= at' /\ at' <= Len(log)
      /\ SentinelOK'
  BY PlaceMoves DEF SkipLine, world, run, copy
<1>2. TypeOK'
  BY <1>1 DEF TypeOK, SkipLine, world, run, copy
<1>3. DaysGoUp' /\ TextOK' /\ FileOK'
  BY DEF SkipLine, DaysGoUp, TextOK, FileOK, world, copy
<1>4. Places'
  BY <1>1 DEF Places, SkipLine, Reading, Fetching, copy, run, world
<1>5. AbovePlace'
  <2>1. tf' = tf /\ Fetching
    BY DEF SkipLine, Reading, Fetching
  <2>2. ASSUME NEW id \in Ids(tf, Len(tf)) PROVE at' < id
    <3>1. at < id /\ id \in Nat
      <4>1. at < id
        BY <2>1 DEF AbovePlace
      <4>2. PICK n \in Nat : n = Len(tf)
        BY DEF TypeOK
      <4>3. id \in Nat
        BY <4>2, SMTT(30) DEF Ids, TypeOK, Line
      <4> QED
        BY <4>1, <4>3
    <3> QED
      BY <3>1, <1>1 DEF SkipLine
  <2> QED
    BY <2>1, <2>2 DEF AbovePlace
<1>6. CopyOK'
  BY DEF SkipLine, Reading, CopyOK
<1> QED
  BY <1>1, <1>2, <1>3, <1>4, <1>5, <1>6

(* A line is kept: the temporary file has one record more.                   *)
LEMMA Kept ==
  ASSUME Inv, KeepLine
  PROVE  /\ tf' \in Seq(Line) /\ TextWhole(tf', log) /\ Descending(tf')
         /\ Ids(tf', Len(tf')) = Ids(tf, Len(tf)) \cup {at}
<1> USE DEF Inv
<1>1. /\ at \in 1..Len(log) /\ at' \in Nat /\ offset' <= at' /\ at' <= Len(log)
      /\ SentinelOK'
  BY PlaceMoves DEF KeepLine, world, run, copy
<1>2. PICK k \in Nat : k = log[at].subs
  BY <1>1, RecordFields DEF TypeOK
<1>3. /\ Chars(at) \in Seq(Line) /\ Len(Chars(at)) = k + 2
      /\ \A d \in 0..k : Chars(at)[d + 1] = <<at, d>>
      /\ Chars(at)[k + 2] = NewLine
  <2>1. log \in Seq(Record)
    BY DEF TypeOK
  <2>2. PICK chars : chars = [i \in 1..(log[at].subs + 2) |->
                                IF i = log[at].subs + 2 THEN NewLine ELSE <<at, i - 1>>]
    OBVIOUS
  <2>3. Chars(at) = chars
    BY <2>2 DEF Chars
  <2> QED
    BY <2>1, <2>2, <2>3, <1>1, <1>2, CharsOfRecord, SMTT(30)
<1>4. PICK n \in Nat : n = Len(tf)
  BY DEF TypeOK
<1>5. /\ tf' \in Seq(Line) /\ Len(tf') = n + k + 2
      /\ \A i \in 1..n : tf'[i] = tf[i]
      /\ \A i \in 1..(k + 2) : tf'[n + i] = Chars(at)[i]
  <2>1. tf' = tf \o Chars(at) /\ tf \in Seq(Line)
    BY DEF KeepLine, TypeOK
  <2>2. Chars(at) \in Seq(Line)
    BY <1>3
  <2>3. /\ tf \o Chars(at) \in Seq(Line) /\ Len(tf \o Chars(at)) = Len(tf) + Len(Chars(at))
        /\ \A i \in 1..Len(tf) : (tf \o Chars(at))[i] = tf[i]
        /\ \A i \in 1..Len(Chars(at)) : (tf \o Chars(at))[Len(tf) + i] = Chars(at)[i]
    BY <2>1, <2>2, Joins
  <2> QED
    BY <2>1, <2>3, <1>3, <1>4
<1>6. \A d \in 0..k : tf'[n + 1 + d] = <<at, d>>
  <2> TAKE d \in 0..k
  <2>1. d + 1 \in 1..(k + 2) /\ n + (d + 1) = n + 1 + d
    OBVIOUS
  <2> QED
    BY <2>1, <1>3, <1>5
<1>7. tf'[n + k + 2] = NewLine
  <2>1. k + 2 \in 1..(k + 2) /\ n + (k + 2) = n + k + 2
    OBVIOUS
  <2> QED
    BY <2>1, <1>3, <1>5
<1>8. \A x \in Ids(tf, n) : at < x
  BY <1>4 DEF AbovePlace, KeepLine, Reading, Fetching
<1>9. /\ TextWhole(tf', log) /\ Descending(tf')
      /\ Ids(tf', Len(tf')) = Ids(tf, n) \cup {at}
  <2>1. /\ log \in Seq(Record) /\ at \in Nat \ {0} /\ log[at].subs = k /\ Len(tf) = n
        /\ TextWhole(tf, log) /\ Descending(tf) /\ at \in 1..Len(log) /\ Len(tf') = n + k + 2
    BY <1>1, <1>2, <1>4, <1>5 DEF TypeOK, TextOK
  <2>2. PICK lg, text, both, id, len : /\ lg = log /\ text = tf /\ both = tf' /\ id = at
                                       /\ len \in Nat /\ len = n + k + 2
    OBVIOUS
  <2>3. /\ lg \in Seq(Record) /\ id \in Nat \ {0} /\ lg[id].subs = k /\ Len(text) = n
        /\ TextWhole(text, lg) /\ Descending(text) /\ id \in 1..Len(lg) /\ Len(both) = len
    BY <2>1, <2>2
  <2>4. AllAbove(text, n, id) /\ LinesAfter(text, both, n, k, id) /\ both[len] = NewLine
    BY <2>2, <1>5, <1>6, <1>7, <1>8 DEF AllAbove, LinesAfter
  <2>5. TextGrown(text, both, n, id, lg)
    BY <2>2, <2>3, <2>4, TextGrows
  <2> QED
    BY <2>2, <2>5 DEF TextGrown
<1> QED
  BY <1>4, <1>5, <1>9

(* ... which is the place in the log.                                        *)
LEMMA KeepStep == ASSUME Inv, KeepLine PROVE Inv'
<1> USE DEF Inv
<1>1. /\ at \in 1..Len(log) /\ at' \in Nat /\ offset' <= at' /\ at' <= Len(log)
      /\ SentinelOK'
  BY PlaceMoves DEF KeepLine, world, run, copy
<1>2. PICK n \in Nat : n = Len(tf)
  BY DEF TypeOK
<1>3. /\ tf' \in Seq(Line) /\ TextWhole(tf', log) /\ Descending(tf')
      /\ Ids(tf', Len(tf')) = Ids(tf, n) \cup {at}
  BY <1>2, Kept
<1>4. \A x \in Ids(tf, n) : at < x
  BY <1>2 DEF AbovePlace, KeepLine, Reading, Fetching
<1>5. TypeOK'
  BY <1>1, <1>3 DEF TypeOK, KeepLine, world, run, copy
<1>6. DaysGoUp' /\ TextOK' /\ FileOK'
  BY <1>3 DEF KeepLine, DaysGoUp, TextOK, FileOK, world, copy
<1>7. Places'
  BY <1>1 DEF Places, KeepLine, Reading, Fetching, copy, run, world
<1>8. AbovePlace'
  <2>1. ASSUME NEW id \in Ids(tf', Len(tf')) PROVE at' < id
    <3>1. at <= id /\ id \in Nat
      <4>1. CASE id = at
        BY <4>1, <1>1
      <4>2. CASE id \in Ids(tf, n)
        <5>1. at < id
          BY <4>2, <1>4
        <5>2. id \in Nat
          BY <4>2, <1>2, SMTT(30) DEF Ids, TypeOK, Line
        <5> QED
          BY <5>1, <5>2, <1>1
      <4> QED
        BY <4>1, <4>2, <1>3
    <3> QED
      BY <3>1, <1>1 DEF KeepLine
  <2> QED
    BY <2>1 DEF AbovePlace
<1>9. CopyOK'
  BY DEF KeepLine, Reading, CopyOK
<1> QED
  BY <1>1, <1>5, <1>6, <1>7, <1>8, <1>9

(* The output is opened: what was fetched is above what it keeps.            *)
LEMMA OpenStep ==
  ASSUME Inv, Fetching, NEW early \in BOOLEAN, Open(early), asked' \in Asked
  PROVE  Inv'
<1> USE DEF Inv
<1>1. PICK n \in Nat : n = Len(tf)
  BY DEF TypeOK
<1>2. /\ block' = n \div BlockSize + 2 /\ block' \in Nat /\ Pos(block', n) = n
  BY <1>1, PosEnds DEF Open
<1>3. TypeOK'
  <2>1. /\ log' \in Seq(Record) /\ today' \in 1..MaxDay /\ file' \in Seq(Line)
        /\ pc' \in {"idle", "asking", "reading", "copying"}
        /\ dates' \in Nat \X Nat /\ until' \in Nat
        /\ sentinel' \in Nat /\ at' \in Nat /\ offset' \in Nat /\ runs' \in 0..MaxRuns
        /\ tf' \in Seq(Line) /\ spill' \in Seq(Line)
    BY DEF TypeOK, Open, Forget, world
  <2>2. (sentinel = 0 /\ file # <<>>) \in BOOLEAN
    OBVIOUS
  <2>3. doubled' \in BOOLEAN /\ torn' \in BOOLEAN
    BY <2>2 DEF Open
  <2> QED
    BY <1>2, <2>1, <2>3 DEF TypeOK
<1>4. DaysGoUp' /\ TextOK'
  BY DEF Open, DaysGoUp, TextOK, world
<1>5. FileOK'
  <2>1. CASE asked.append
    BY <2>1 DEF Open, FileOK, world
  <2>2. CASE ~asked.append
    BY <2>2, EmptyFiles DEF Open, FileOK, world
  <2> QED
    BY <2>1, <2>2
<1>6. Places'
  <2>1. /\ pc' = "copying" /\ at' = 0 /\ offset' = 0 /\ sentinel' = 0
        /\ 0 <= Len(log')
    BY DEF Open, Forget, TypeOK, world
  <2> QED
    BY <2>1 DEF Places, Fetching
<1>7. AbovePlace' /\ SentinelOK'
  BY DEF AbovePlace, SentinelOK, Open, Forget, Fetching
<1>8. CopyOK'
  <2>1. tf' = tf /\ spill' = <<>> /\ Len(<<>>) = 0
    BY DEF Open
  <2>2. Pos(block', Len(tf')) = n /\ Left' = n
    <3>1. Pos(block', Len(tf')) = n
      BY <2>1, <1>1, <1>2
    <3>2. Left' = Pos(block', Len(tf')) + Len(spill')
      BY DEF Left
    <3> QED
      BY <3>1, <3>2, <2>1, <1>1
  <2>3. PieceOf(spill', tf', n, Len(spill'))
    BY <2>1 DEF PieceOf
  <2>4. n = 0 \/ tf[n] = NewLine
    <3>1. log \in Seq(Record)
      BY DEF TypeOK
    <3> QED
      BY <3>1, <1>1, TextEnds DEF TextOK
  <2>5. ASSUME ~doubled', NEW id \in Ids(tf, n), NEW other \in Ids(file', Len(file'))
        PROVE  other < id
    <3>1. CASE file' = <<>>
      BY <3>1, <2>5, EmptyFiles
    <3>2. CASE file' # <<>>
      <4>1. file' = file /\ asked.append /\ file # <<>> /\ ~doubled /\ sentinel # 0
        BY <3>2, <2>5 DEF Open
      <4>2. Started
        <5>1. CASE pc = "asking" /\ offset = 0
          BY <5>1, <1>1, <2>5, EmptyFiles DEF Places
        <5> QED
          BY <5>1 DEF Fetching, Started, Places, TypeOK
      <4>3. LastId(file) <= at
        BY <4>1, <4>2 DEF SentinelOK
      <4>4. at < id
        BY <2>5, <1>1 DEF AbovePlace
      <4>5. PICK m \in Nat \ {0} : m = Len(file)
        BY <4>1 DEF TypeOK
      <4>6. other \in Ids(file, m)
        BY <2>5, <4>1, <4>5
      <4>7. log \in Seq(Record) /\ FileWhole(file, log) /\ Ascending(file)
        BY <4>1 DEF TypeOK, FileOK
      <4>8. other <= LastId(file)
        BY <4>5, <4>6, <4>7, LastIsGreatest
      <4>9. LastId(file) \in Nat /\ other \in Nat
        BY <4>5, <4>6, <4>7, LastLines, IdsLogged
      <4>10. id \in Nat
        BY <2>5, <1>1, SMTT(30) DEF Ids, TypeOK, Line
      <4> QED
        BY <4>3, <4>4, <4>8, <4>9, <4>10, SMTT(30) DEF TypeOK
    <3> QED
      BY <3>1, <3>2
  <2>6. n <= Len(tf')
    BY <2>1, <1>1
  <2> QED
    BY <2>1, <2>2, <2>3, <2>4, <2>5, <2>6 DEF CopyOK
<1> QED
  BY <1>3, <1>4, <1>5, <1>6, <1>7, <1>8

(* The run is over.                                                          *)
LEMMA OverStep == ASSUME Inv, Over, asked' \in Asked PROVE Inv'
<1> USE DEF Inv
<1>1. TypeOK'
  BY DEF TypeOK, Over, Forget, world
<1>2. DaysGoUp' /\ FileOK'
  BY DEF Over, DaysGoUp, FileOK, world
<1>3. TextOK'
  BY EmptyFiles DEF Over, TextOK
<1>4. Places'
  <2>1. /\ pc' = "idle" /\ at' = 0 /\ offset' = 0 /\ sentinel' = 0 /\ 0 <= Len(log')
        /\ tf' = <<>> /\ block' = 0 /\ spill' = <<>>
    BY DEF Over, Forget, TypeOK, world
  <2> QED
    BY <2>1 DEF Places, Fetching
<1>5. AbovePlace' /\ SentinelOK' /\ CopyOK'
  BY DEF AbovePlace, SentinelOK, CopyOK, Over, Forget, Fetching
<1> QED
  BY <1>1, <1>2, <1>3, <1>4, <1>5

(* What is left while the file is copied, and how the spillover lies in it.  *)
LEMMA WhatIsLeft ==
  ASSUME Inv, pc = "copying"
  PROVE  \E n, pos, len, left \in Nat :
           /\ n = Len(tf) /\ len = Len(spill) /\ pos = Pos(block, n) /\ left = Left
           /\ left = pos + len /\ left <= n /\ PieceOf(spill, tf, pos, len)
           /\ left = 0 \/ tf[left] = NewLine
           /\ ~doubled => \A id \in Ids(tf, left), other \in Ids(file, Len(file)) : other < id
<1>1. PICK n \in Nat : n = Len(tf)
  BY DEF Inv, TypeOK
<1>2. PICK len \in Nat : len = Len(spill)
  BY DEF Inv, TypeOK
<1>3. PICK pos \in Nat : pos = Pos(block, n)
  BY PosEnds DEF Inv, TypeOK
<1>4. Left = pos + len /\ pos + len \in Nat
  BY <1>1, <1>2, <1>3 DEF Left
<1> QED
  BY <1>1, <1>2, <1>3, <1>4 DEF Inv, CopyOK

(* A block is read: what is left stays, and the spillover is more of it.     *)
LEMMA BlockLeft ==
  ASSUME Inv, CopyBlock
  PROVE  \E p \in Nat : /\ Left' = Left /\ block' \in Nat /\ spill' \in Seq(Line)
                       /\ Pos(block', Len(tf')) = p /\ PieceOf(spill', tf, p, Len(spill'))
<1>1. pc = "copying" /\ block > 0 /\ block' = block - 1
      /\ UNCHANGED <<world, run, pc, page, tf, file, doubled, torn>>
  BY DEF CopyBlock
<1>2. PICK n, pos, len, left \in Nat :
           /\ n = Len(tf) /\ len = Len(spill) /\ pos = Pos(block, n) /\ left = Left
           /\ left = pos + len /\ left <= n /\ PieceOf(spill, tf, pos, len)
           /\ left = 0 \/ tf[left] = NewLine
           /\ ~doubled => \A id \in Ids(tf, left), other \in Ids(file, Len(file)) : other < id
  BY <1>1, WhatIsLeft
<1>3. block \in Nat \ {0} /\ block' \in Nat
  BY <1>1 DEF Inv, TypeOK
<1>4. PICK start, end : /\ start = (block - 1) * BlockSize
                        /\ end = IF start + BlockSize < n THEN start + BlockSize ELSE n
  OBVIOUS
<1>5. /\ start \in Nat /\ end = pos /\ end \in Nat /\ end <= n
      /\ Pos(block - 1, n) = IF start < end THEN start ELSE end
  BY <1>2, <1>3, <1>4, PosBefore
<1>6. PICK p \in Nat : p = (IF start < end THEN start ELSE end) /\ p <= end
  BY <1>5
<1>7. spill' = Joined(SubSeq(tf, start + 1, end), spill)
  BY <1>2, <1>4 DEF CopyBlock
<1>8. spill' \in Seq(Line) /\ PieceOf(spill', tf, p, left - p)
  <2>1. tf \in Seq(Line) /\ spill \in Seq(Line)
    BY DEF Inv, TypeOK
  <2>2. left = end + len /\ PieceOf(spill, tf, end, len)
    BY <1>2, <1>5
  <2> QED
    BY <2>1, <2>2, <1>2, <1>5, <1>6, <1>7, BlockRead
<1>9. left - p \in Nat /\ Len(spill') = left - p
  <2>1. left = end + len /\ p <= end
    BY <1>2, <1>5, <1>6
  <2> QED
    BY <2>1, <1>2, <1>5, <1>6, <1>8 DEF PieceOf
<1>10. Pos(block', Len(tf')) = p /\ Left' = left
  <2>1. Pos(block', Len(tf')) = p
    BY <1>1, <1>2, <1>5, <1>6
  <2>2. Left' = Pos(block', Len(tf')) + Len(spill')
    BY DEF Left
  <2>3. p + (left - p) = left
    BY <1>2, <1>6
  <2> QED
    BY <2>1, <2>2, <2>3, <1>9
<1> QED
  BY <1>2, <1>3, <1>8, <1>9, <1>10

(* ... and the output is as it was.                                          *)
LEMMA BlockStep == ASSUME Inv, CopyBlock PROVE Inv'
<1>1. pc = "copying" /\ block > 0 /\ block' = block - 1
      /\ UNCHANGED <<world, run, pc, page, tf, file, doubled, torn>>
  BY DEF CopyBlock
<1>2. PICK n, pos, len, left \in Nat :
           /\ n = Len(tf) /\ len = Len(spill) /\ pos = Pos(block, n) /\ left = Left
           /\ left = pos + len /\ left <= n /\ PieceOf(spill, tf, pos, len)
           /\ left = 0 \/ tf[left] = NewLine
           /\ ~doubled => \A id \in Ids(tf, left), other \in Ids(file, Len(file)) : other < id
  BY <1>1, WhatIsLeft
<1>3. PICK p \in Nat : /\ Left' = Left /\ block' \in Nat /\ spill' \in Seq(Line)
                      /\ Pos(block', Len(tf')) = p /\ PieceOf(spill', tf, p, Len(spill'))
  BY BlockLeft
<1>4. TypeOK'
  BY <1>1, <1>3 DEF Inv, TypeOK, world, run, page
<1>5. DaysGoUp' /\ TextOK' /\ FileOK'
  BY <1>1 DEF Inv, DaysGoUp, TextOK, FileOK, world
<1>6. Places'
  BY <1>1 DEF Inv, Places, Fetching, world, run, page
<1>7. AbovePlace' /\ SentinelOK'
  BY <1>1 DEF Inv, AbovePlace, SentinelOK, Fetching, Places, run
<1>8. CopyOK'
  <2>1. Left' <= Len(tf') /\ (Left' = 0 \/ tf'[Left'] = NewLine)
    BY <1>1, <1>2, <1>3
  <2>2. PieceOf(spill', tf', Pos(block', Len(tf')), Len(spill'))
    BY <1>1, <1>3
  <2>3. ~doubled' => \A id \in Ids(tf', Left'), other \in Ids(file', Len(file')) : other < id
    BY <1>1, <1>2, <1>3
  <2> QED
    BY <2>1, <2>2, <2>3 DEF CopyOK
<1> QED
  BY <1>4, <1>5, <1>6, <1>7, <1>8 DEF Inv

(* The line that is written: a record, the last one of what is left.         *)
LEMMA LineWritten ==
  ASSUME Inv, CopyLine
  PROVE  \E s, k, id, m, n \in Nat :
           /\ n = Len(file) /\ id \in 1..Len(log) /\ id # 0 /\ log[id].subs = k
           /\ s \in 1..Len(tf) /\ TextAt(tf, s, id, log) /\ Left = s + k + 1
           /\ s = Pos(block, Len(tf)) + m + 1
           /\ file' \in Seq(Line) /\ Len(file') = n + k + 1 /\ LinesAfter(file, file', n, k, id)
           /\ spill' \in Seq(Line) /\ PieceOf(spill', tf, Pos(block, Len(tf)), m)
<1>1. pc = "copying" /\ HasLine
      /\ file' = file \o SubSeq(spill, LastLine(spill), Len(spill) - 1)
      /\ spill' = SubSeq(spill, 1, LastLine(spill) - 1)
  BY DEF CopyLine
<1>2. PICK tn, pos, len, left \in Nat :
           /\ tn = Len(tf) /\ len = Len(spill) /\ pos = Pos(block, tn) /\ left = Left
           /\ left = pos + len /\ left <= tn /\ PieceOf(spill, tf, pos, len)
           /\ left = 0 \/ tf[left] = NewLine
  BY <1>1, WhatIsLeft
<1>3. /\ file \in Seq(Line) /\ spill \in Seq(Line) /\ tf \in Seq(Line) /\ log \in Seq(Record)
      /\ TextWhole(tf, log) /\ Descending(tf)
  BY DEF Inv, TypeOK, TextOK
<1>4. len # 0 /\ left # 0 /\ left \in 1..tn /\ tf[left] = NewLine
  <2>1. spill # <<>>
    BY <1>1 DEF HasLine
  <2>2. len # 0
    BY <2>1, <1>2, <1>3, EmptySeq
  <2> QED
    BY <2>2, <1>2
<1>5. PICK s \in 1..left, id \in 1..Len(log) :
           EndsWith(tf, left, s, id, log[id].subs, log)
  <2>1. EndsWithRecord(tf, left, log)
    BY <1>2, <1>3, <1>4, LastRecord
  <2> QED
    BY <2>1 DEF EndsWithRecord
<1>6. PICK k \in Nat : /\ k = log[id].subs /\ id \in Nat \ {0}
                      /\ TextAt(tf, s, id, log) /\ left = s + k + 1
  BY <1>5 DEF EndsWith
<1>7. s \in Nat \ {0} /\ s \in 1..tn /\ s \in 1..Len(tf) /\ left = s + k + 1
  BY <1>2, <1>5, <1>6, SMTT(30)
<1>8. LastLine(spill) = IF pos < s THEN s - pos ELSE 1
  <2>1. len \in Nat \ {0} /\ left = pos + len /\ left = s + k + 1
    BY <1>2, <1>4, <1>7
  <2> QED
    <3>1. /\ log \in Seq(Record) /\ tn \in Nat /\ tn = Len(tf) /\ s \in 1..tn /\ id \in 1..Len(log)
          /\ TextAt(tf, s, id, log) /\ k \in Nat /\ k = log[id].subs /\ pos \in Nat
          /\ PieceOf(spill, tf, pos, len)
      BY <1>2, <1>3, <1>6, <1>7
    <3>2. EndsFrom(spill, pos, s)
      BY <1>2, <2>1, <3>1, LastLineIs
    <3> QED
      BY <3>2 DEF EndsFrom
<1>9. pos < s
  <2>1. CASE block = 0
    BY <2>1, <1>2, <1>7, PosEnds
  <2>2. CASE block # 0
    <3>1. LastLine(spill) > 1
      BY <2>2, <1>1 DEF HasLine
    <3> QED
      BY <3>1, <1>8
  <2> QED
    BY <2>1, <2>2
<1>10. PICK m \in Nat : s = pos + m + 1
  <2>1. (s - pos) - 1 \in Nat /\ s = pos + ((s - pos) - 1) + 1
    BY <1>2, <1>7, <1>9
  <2> QED
    BY <2>1
<1>11. PICK e \in Nat : e = m + k + 1
  BY <1>6, <1>10, SMTT(30)
<1>12. len = m + k + 2
  <2>1. pos + len = (pos + m + 1) + k + 1
    <3>1. pos + len = left /\ left = s + k + 1
      BY <1>2, <1>7
    <3> QED
      BY <3>1, <1>10
  <2> QED
    BY <2>1
<1>13. LastLine(spill) = m + 1 /\ Len(spill) - 1 = e /\ LastLine(spill) - 1 = m
  <2>1. s - pos = m + 1 /\ len - 1 = e /\ (m + 1) - 1 = m
    <3>1. pos \in Nat /\ k \in Nat
      BY <1>2, <1>6
    <3>2. s - pos = m + 1 /\ (m + 1) - 1 = m
      BY <1>10, <3>1
    <3>3. len - 1 = e
      BY <1>11, <1>12, <3>1
    <3> QED
      BY <3>2, <3>3
  <2>2. LastLine(spill) = s - pos
    BY <1>8, <1>9
  <2> QED
    BY <2>1, <2>2, <1>2
<1>14. LinesIn(tf, s, id, k)
  BY <1>6 DEF LinesIn, TextAt, RecordAt
<1>15. /\ SubSeq(spill, m + 1, e) \in Seq(Line) /\ Len(SubSeq(spill, m + 1, e)) = k + 1
       /\ \A d \in 0..k : SubSeq(spill, m + 1, e)[d + 1] = <<id, d>>
       /\ SubSeq(spill, 1, m) \in Seq(Line) /\ PieceOf(SubSeq(spill, 1, m), tf, pos, m)
  <2>1. Taken(spill, tf, id, k, pos, m, e)
    BY <1>2, <1>3, <1>7, <1>10, <1>11, <1>12, <1>14, LineTaken
  <2> QED
    BY <2>1 DEF Taken
<1>16. PICK lines : lines = SubSeq(spill, m + 1, e)
  OBVIOUS
<1>17. /\ lines \in Seq(Line) /\ Len(lines) = k + 1 /\ \A d \in 0..k : lines[d + 1] = <<id, d>>
       /\ file' = file \o lines /\ spill' = SubSeq(spill, 1, m)
  BY <1>1, <1>13, <1>15, <1>16
<1>18. PICK n \in Nat : n = Len(file)
  BY <1>3
<1>19. /\ file \o lines \in Seq(Line) /\ Len(file \o lines) = Len(file) + Len(lines)
       /\ \A i \in 1..Len(file) : (file \o lines)[i] = file[i]
       /\ \A i \in 1..Len(lines) : (file \o lines)[Len(file) + i] = lines[i]
  <2>1. lines \in Seq(Line)
    BY <1>17
  <2> QED
    BY <2>1, <1>3, Joins
<1>20. file' \in Seq(Line) /\ Len(file') = n + k + 1
  BY <1>6, <1>17, <1>18, <1>19, SMTT(30)
<1>21. LinesAfter(file, file', n, k, id)
  <2>1. \A i \in 1..n : file'[i] = file[i]
    BY <1>17, <1>18, <1>19
  <2>2. ASSUME NEW d \in 0..k PROVE file'[n + 1 + d] = <<id, d>>
    <3>1. d + 1 \in 1..(k + 1) /\ n + (d + 1) = n + 1 + d
      BY <1>6, <1>18, SMTT(30)
    <3>2. (file \o lines)[n + (d + 1)] = lines[d + 1]
      BY <3>1, <1>17, <1>18, <1>19
    <3> QED
      BY <3>1, <3>2, <1>17
  <2> QED
    BY <2>1, <2>2 DEF LinesAfter
<1>22. spill' \in Seq(Line) /\ PieceOf(spill', tf, pos, m)
  BY <1>15, <1>17
<1> QED
  BY <1>2, <1>6, <1>7, <1>10, <1>18, <1>20, <1>21, <1>22

(* The record that is written is the lowest of those that are left.          *)
LEMMA RecordMoves ==
  ASSUME Inv, CopyLine
  PROVE  \E id, left \in Nat :
           /\ left = Left' /\ left <= Len(tf) /\ (left = 0 \/ tf[left] = NewLine)
           /\ Ids(tf, Left) = Ids(tf, left) \cup {id} /\ AllAbove(tf, left, id)
           /\ file' \in Seq(Line) /\ FileGrown(file, file', Len(file), id, log)
           /\ spill' \in Seq(Line) /\ PieceOf(spill', tf, Pos(block, Len(tf)), Len(spill'))
<1>1. pc = "copying" /\ UNCHANGED <<world, run, pc, page, tf, block, doubled, torn>>
  BY DEF CopyLine
<1>2. PICK s, k, id, m, n \in Nat :
           /\ n = Len(file) /\ id \in 1..Len(log) /\ id # 0 /\ log[id].subs = k
           /\ s \in 1..Len(tf) /\ TextAt(tf, s, id, log) /\ Left = s + k + 1
           /\ s = Pos(block, Len(tf)) + m + 1
           /\ file' \in Seq(Line) /\ Len(file') = n + k + 1 /\ LinesAfter(file, file', n, k, id)
           /\ spill' \in Seq(Line) /\ PieceOf(spill', tf, Pos(block, Len(tf)), m)
  BY LineWritten
<1>3. PICK tn, pos, len, left \in Nat :
           /\ tn = Len(tf) /\ len = Len(spill) /\ pos = Pos(block, tn) /\ left = Left
           /\ left = pos + len /\ left <= tn /\ PieceOf(spill, tf, pos, len)
           /\ left = 0 \/ tf[left] = NewLine
           /\ ~doubled => \A x \in Ids(tf, left), other \in Ids(file, Len(file)) : other < x
  BY <1>1, WhatIsLeft
<1>4. /\ file \in Seq(Line) /\ tf \in Seq(Line) /\ log \in Seq(Record)
      /\ TextWhole(tf, log) /\ Descending(tf) /\ FileWhole(file, log)
      /\ ~doubled => Ascending(file)
  BY DEF Inv, TypeOK, TextOK, FileOK
<1>5. FileGrown(file, file', n, id, log)
  <2>1. PICK lg, lines, both, flen : /\ lg = log /\ lines = file /\ both = file'
                                     /\ flen \in Nat /\ flen = n + k + 1
    OBVIOUS
  <2>2. /\ lg \in Seq(Record) /\ id \in 1..Len(lg) /\ id \in Nat \ {0} /\ lg[id].subs = k
        /\ Len(lines) = n /\ Len(both) = flen /\ FileWhole(lines, lg)
        /\ LinesAfter(lines, both, n, k, id)
    BY <2>1, <1>2, <1>4
  <2>3. FileGrown(lines, both, n, id, lg)
    BY <2>1, <2>2, FileGrows
  <2> QED
    BY <2>1, <2>3
<1>6. /\ Ids(tf, left) = Ids(tf, s - 1) \cup {id}
      /\ AllAbove(tf, s - 1, id)
  <2>1. s \in 1..tn /\ left = s + log[id].subs + 1
    BY <1>2, <1>3
  <2>2. TextShrunk(tf, left, s, id)
    BY <2>1, <1>2, <1>3, <1>4, TextShrinks
  <2> QED
    BY <2>2 DEF TextShrunk
<1>7. Len(spill') = m /\ Left' = s - 1
  <2>1. Len(spill') = m
    BY <1>2 DEF PieceOf
  <2>2. Left' = Pos(block', Len(tf')) + Len(spill')
    BY DEF Left
  <2>3. s - 1 = pos + m
    <3>1. s = pos + m + 1
      BY <1>2, <1>3
    <3> QED
      BY <3>1
  <2> QED
    BY <2>1, <2>2, <2>3, <1>1, <1>3
<1>8. s - 1 \in Nat /\ s - 1 <= tn
  <2>1. s \in 1..tn
    BY <1>2, <1>3
  <2> QED
    BY <2>1
<1>9. s - 1 = 0 \/ tf[s - 1] = NewLine
  BY <1>2 DEF TextAt
<1> QED
  BY <1>2, <1>3, <1>5, <1>6, <1>7, <1>8, <1>9

(* ... and above those in the output.                                        *)
LEMMA LineStep == ASSUME Inv, CopyLine PROVE Inv'
<1>1. pc = "copying" /\ UNCHANGED <<world, run, pc, page, tf, block, doubled, torn>>
  BY DEF CopyLine
<1>2. PICK id, left \in Nat :
        /\ left = Left' /\ left <= Len(tf) /\ (left = 0 \/ tf[left] = NewLine)
        /\ Ids(tf, Left) = Ids(tf, left) \cup {id} /\ AllAbove(tf, left, id)
        /\ file' \in Seq(Line) /\ FileGrown(file, file', Len(file), id, log)
        /\ spill' \in Seq(Line) /\ PieceOf(spill', tf, Pos(block, Len(tf)), Len(spill'))
  BY RecordMoves
<1>3. ASSUME ~doubled PROVE AllBelow(file, Len(file), id)
  <2>1. id \in Ids(tf, Left)
    BY <1>2
  <2> QED
    BY <2>1, <1>1, <1>3 DEF Inv, CopyOK, AllBelow
<1>4. TypeOK'
  BY <1>1, <1>2 DEF Inv, TypeOK, world, run, page
<1>5. DaysGoUp' /\ TextOK'
  BY <1>1 DEF Inv, DaysGoUp, TextOK, world
<1>6. FileOK'
  BY <1>1, <1>2, <1>3 DEF FileGrown, Inv, FileOK, world
<1>7. Places'
  BY <1>1 DEF Inv, Places, Fetching, world, run, page
<1>8. AbovePlace' /\ SentinelOK'
  BY <1>1 DEF Inv, AbovePlace, SentinelOK, Fetching, Places, run
<1>9. CopyOK'
  <2>1. ASSUME ~doubled', NEW x \in Ids(tf, left), NEW other \in Ids(file', Len(file'))
        PROVE  other < x
    <3>1. id < x /\ x \in Ids(tf, Left)
      BY <1>2 DEF AllAbove
    <3>2. other \in Ids(file, Len(file)) \/ other = id
      BY <1>2 DEF FileGrown
    <3>3. CASE other = id
      BY <3>1, <3>3
    <3>4. CASE other \in Ids(file, Len(file))
      BY <3>1, <3>4, <2>1, <1>1 DEF Inv, CopyOK
    <3> QED
      BY <3>2, <3>3, <3>4
  <2>2. ~doubled' => \A x \in Ids(tf', Left'), other \in Ids(file', Len(file')) : other < x
    BY <2>1, <1>1, <1>2
  <2> QED
    BY <2>2, <1>1, <1>2 DEF CopyOK
<1> QED
  BY <1>4, <1>5, <1>6, <1>7, <1>8, <1>9 DEF Inv

(* A request is logged: the files are of the same records still.             *)
LEMMA LoggedStep == ASSUME Inv, Logged PROVE Inv'
<1>1. PICK r \in Record : log' = Append(log, r) /\ r.day \in {0, today}
  <2>1. PICK subs \in 0..MaxSubs, day \in {0, today}, twin \in BOOLEAN :
          /\ twin => log # <<>>
          /\ log' = Append(log, [text |-> IF twin THEN log[Len(log)].text ELSE Len(log) + 1,
                                 subs |-> subs, day |-> day])
    BY DEF Logged
  <2>2. log \in Seq(Record) /\ Len(log) \in Nat /\ today \in Nat
    BY DEF Inv, TypeOK
  <2>3. (IF twin THEN log[Len(log)].text ELSE Len(log) + 1) \in Nat \ {0}
    <3>1. CASE twin
      <4>1. Len(log) \in 1..Len(log)
        <5>1. Len(log) # 0
          BY <3>1, <2>1, <2>2, EmptySeq
        <5> QED
          BY <5>1, <2>2
      <4> QED
        BY <3>1, <4>1, <2>2, RecordFields
    <3>2. CASE ~twin
      BY <3>2, <2>2
    <3> QED
      BY <3>1, <3>2
  <2>4. subs \in Nat /\ day \in Nat
    BY <2>2, BoundsAssumption
  <2>5. PICK text \in Nat \ {0} : text = IF twin THEN log[Len(log)].text ELSE Len(log) + 1
    BY <2>3
  <2>6. [text |-> text, subs |-> subs, day |-> day] \in Record
    BY <2>4 DEF Record
  <2> QED
    BY <2>1, <2>5, <2>6
<1>2. UNCHANGED <<today, run, pc, page, tf, copy>>
  BY DEF Logged
<1>3. /\ log \in Seq(Record) /\ file \in Seq(Line) /\ tf \in Seq(Line)
      /\ FileWhole(file, log) /\ TextWhole(tf, log)
  BY DEF Inv, TypeOK, TextOK, FileOK
<1>4. PICK n \in Nat : n = Len(log)
  BY <1>3
<1>5. /\ log' \in Seq(Record) /\ Len(log') = n + 1 /\ log'[n + 1] = r
      /\ \A id \in 1..n : log'[id] = log[id]
  BY <1>1, <1>3, <1>4, Older
<1>6. FileWhole(file, log') /\ TextWhole(tf, log')
  BY <1>1, <1>3, WholeWhileLogged
<1>7. TypeOK'
  BY <1>2, <1>5 DEF Inv, TypeOK, run, page, copy
<1>8. DaysGoUp'
  <2>1. \A i \in 1..(n + 1) : log'[i].day <= today
    <3> TAKE i \in 1..(n + 1)
    <3>1. CASE i \in 1..n
      BY <3>1, <1>4, <1>5 DEF Inv, DaysGoUp
    <3>2. CASE i = n + 1
      BY <3>2, <1>1, <1>5 DEF Inv, TypeOK
    <3> QED
      BY <3>1, <3>2, <1>4
  <2>2. ASSUME NEW i \in 1..(n + 1), NEW j \in 1..(n + 1), i < j, log'[j].day > 0
        PROVE  log'[i].day <= log'[j].day
    <3>1. i \in 1..n
      BY <2>2, <1>4
    <3>2. CASE j \in 1..n
      BY <3>1, <3>2, <2>2, <1>4, <1>5 DEF Inv, DaysGoUp
    <3>3. CASE j = n + 1
      BY <3>3, <2>1, <2>2, <1>1, <1>5
    <3> QED
      BY <3>2, <3>3, <1>4
  <2> QED
    BY <2>1, <2>2, <1>2, <1>5 DEF DaysGoUp
<1>9. Places'
  BY <1>2, <1>4, <1>5 DEF Inv, Places, Fetching, TypeOK, run, page, copy
<1>10. TextOK' /\ FileOK'
  BY <1>2, <1>6 DEF Inv, TextOK, FileOK, copy
<1>11. AbovePlace' /\ CopyOK'
  BY <1>2 DEF Inv, AbovePlace, Fetching, CopyOK, Left, page, copy
<1>12. SentinelOK'
  <2>1. CASE sentinel = 0
    BY <2>1, <1>2 DEF SentinelOK, run
  <2>2. CASE sentinel # 0
    <3>1. PICK m \in Nat \ {0} : m = Len(file)
      BY <2>2, <1>3, EmptySeq DEF Inv, SentinelOK
    <3>2. LastId(file) \in 1..n
      BY <3>1, <1>3, <1>4, LastLines
    <3> QED
      BY <3>2, <1>2, <1>5 DEF Inv, SentinelOK, Started, run, page, copy
  <2> QED
    BY <2>1, <2>2
<1> QED
  BY <1>7, <1>8, <1>9, <1>10, <1>11, <1>12 DEF Inv

(* A day passes.                                                             *)
LEMMA MidnightStep == ASSUME Inv, Midnight PROVE Inv'
<1>1. today' = today + 1 /\ today < MaxDay /\ UNCHANGED <<log, run, pc, page, tf, copy>>
  BY DEF Midnight
<1>2. TypeOK'
  <2>1. today' \in 1..MaxDay
    BY <1>1, BoundsAssumption DEF Inv, TypeOK
  <2> QED
    BY <1>1, <2>1 DEF Inv, TypeOK, run, page, copy
<1>3. DaysGoUp'
  <2>1. ASSUME NEW i \in 1..Len(log) PROVE log[i].day <= today + 1
    <3>1. log[i].day \in Nat
      BY RecordFields DEF Inv, TypeOK
    <3> QED
      BY <3>1 DEF Inv, DaysGoUp, TypeOK
  <2> QED
    BY <2>1, <1>1 DEF Inv, DaysGoUp
<1>4. Places' /\ TextOK' /\ FileOK' /\ AbovePlace' /\ SentinelOK' /\ CopyOK'
  BY <1>1 DEF Inv, Places, TextOK, FileOK, AbovePlace, SentinelOK, CopyOK, Fetching, Started,
              Left, run, page, copy
<1> QED
  BY <1>2, <1>3, <1>4 DEF Inv

(* Nothing happens.                                                          *)
LEMMA InvStutter == ASSUME Inv, UNCHANGED vars PROVE Inv'
BY DEF Inv, vars, TypeOK, DaysGoUp, Places, TextOK, FileOK, AbovePlace, SentinelOK, CopyOK,
       Fetching, Started, Left

(* Every step keeps the invariant.                                           *)
LEMMA InvNext == ASSUME Inv, [Next]_vars PROVE Inv'
<1>1. asked \in Asked /\ [asked EXCEPT !.whole = FALSE] \in Asked
  BY DEF Inv, TypeOK, Asked
<1>2. ASSUME NEW append \in BOOLEAN, NEW end \in 1..today, NEW days \in 0..MaxSpan,
             days <= end, Begin(append, end, days)
      PROVE  Inv'
  BY <1>2, BeginStep
<1>3. CASE Answer
  BY <1>3, AnswerStep
<1>4. CASE SkipLine
  BY <1>4, SkipStep
<1>5. CASE KeepLine
  BY <1>5, KeepStep
<1>6. CASE StopAtSentinel
  BY <1>1, <1>6, OpenStep DEF StopAtSentinel, Reading, Fetching
<1>7. CASE StopAtDate
  BY <1>1, <1>7, OpenStep DEF StopAtDate, Reading, Fetching
<1>8. CASE NextPage
  <2>1. CASE Open(FALSE)
    BY <1>1, <1>8, <2>1, OpenStep DEF NextPage, Fetching
  <2>2. CASE /\ offset > 0 /\ pc' = "asking"
             /\ UNCHANGED <<world, dates, sentinel, runs, page, tf, copy>>
    <3>1. pc = "reading" /\ at = offset /\ asked' = asked
      BY <1>8 DEF NextPage
    <3>2. TypeOK' /\ DaysGoUp' /\ TextOK' /\ FileOK'
      BY <2>2, <3>1 DEF Inv, TypeOK, DaysGoUp, TextOK, FileOK, world, page, copy
    <3>3. Places' /\ AbovePlace' /\ SentinelOK' /\ CopyOK'
      BY <2>2, <3>1 DEF Inv, Places, AbovePlace, SentinelOK, CopyOK, Fetching, Started,
                        world, page, copy
    <3> QED
      BY <3>2, <3>3 DEF Inv
  <2> QED
    BY <1>8, <2>1, <2>2 DEF NextPage
<1>9. CASE Interrupt
  BY <1>1, <1>9, OpenStep DEF Interrupt, Fetching
<1>10. CASE Fails
  BY <1>1, <1>10, OverStep DEF Fails
<1>11. CASE CopyBlock
  BY <1>11, BlockStep
<1>12. CASE CopyLine
  BY <1>12, LineStep
<1>13. CASE Copied
  BY <1>1, <1>13, OverStep DEF Copied
<1>14. CASE InterruptCopy
  BY <1>1, <1>14, OverStep DEF InterruptCopy
<1>15. CASE Logged
  BY <1>15, LoggedStep
<1>16. CASE Midnight
  BY <1>16, MidnightStep
<1>17. CASE UNCHANGED vars
  BY <1>17, InvStutter
<1> QED
  BY <1>2, <1>3, <1>4, <1>5, <1>6, <1>7, <1>8, <1>9, <1>10, <1>11, <1>12, <1>13, <1>14,
     <1>15, <1>16, <1>17 DEF Next

(* The invariant holds in every state.                                       *)
LEMMA InvAlways == Spec => []Inv
<1> QED
  BY InvInit, InvNext, PTL DEF Spec

(* The type invariant holds for all page and block sizes and bounds.         *)
THEOREM TypeCorrect == Spec => []TypeOK
<1>1. Inv => TypeOK
  BY DEF Inv
<1> QED
  BY <1>1, InvAlways, PTL

(* A line that is not the last is followed by its record's next, or by the   *)
(* first line of a newer record.                                             *)
LEMMA LineFollows ==
  ASSUME NEW lg \in Seq(Record), NEW lines, NEW n \in Nat, n = Len(lines),
         FileWhole(lines, lg), Ascending(lines), NEW i \in 1..(n - 1),
         lines[i] \in Line, lines[i + 1] \in Line
  PROVE  IF lines[i][2] < lg[lines[i][1]].subs
         THEN lines[i + 1] = <<lines[i][1], lines[i][2] + 1>>
         ELSE lines[i + 1][2] = 0 /\ lines[i][1] < lines[i + 1][1]
<1>1. i \in 1..n /\ i + 1 \in 1..n /\ i \in Nat
  OBVIOUS
<1>2. PICK s \in 1..i, id \in 1..Len(lg) : InLines(lines, i, s, id, lg)
  BY <1>1, LineOf
<1>3. PICK k \in Nat : k = lg[id].subs
  BY RecordFields
<1>4. /\ \A d \in 0..k : lines[s + d] = <<id, d>>
      /\ i <= s + k /\ s + k <= n
  BY <1>2, <1>3 DEF InLines, RecordAt
<1>5. PICK d \in 0..k : s + d = i
  <2>1. i - s \in 0..k /\ s + (i - s) = i
    BY <1>4
  <2> QED
    BY <2>1
<1>6. lines[i] = <<id, d>>
  BY <1>4, <1>5
<1>7. CASE d < k
  <2>1. d + 1 \in 0..k /\ s + (d + 1) = i + 1
    BY <1>5, <1>7
  <2>2. lines[i + 1] = <<id, d + 1>>
    BY <2>1, <1>4
  <2> QED
    BY <2>2, <1>3, <1>6, <1>7
<1>8. CASE d = k
  <2>1. PICK t \in 1..(i + 1), other \in 1..Len(lg) : InLines(lines, i + 1, t, other, lg)
    BY <1>1, LineOf
  <2>2. PICK j \in Nat : j = lg[other].subs
    BY RecordFields
  <2>3. /\ \A e \in 0..j : lines[t + e] = <<other, e>>
        /\ i + 1 <= t + j
    BY <2>1, <2>2 DEF InLines, RecordAt
  <2>4. t = i + 1
    <3> SUFFICES ASSUME t <= i PROVE FALSE
      OBVIOUS
    <3>1. i - t \in 0..j /\ t + (i - t) = i /\ (i - t) + 1 \in 0..j /\ t + ((i - t) + 1) = i + 1
      BY <2>3
    <3>2. lines[i] = <<other, i - t>>
      BY <3>1, <2>3
    <3>3. other = id /\ i - t = k
      BY <3>2, <1>6, <1>8
    <3>4. k + 1 <= j
      BY <3>1, <3>3
    <3> QED
      BY <3>3, <3>4, <1>3, <2>2
  <2>5. lines[i + 1] = <<other, 0>>
    <3>1. 0 \in 0..j /\ t + 0 = i + 1
      BY <2>4
    <3> QED
      BY <3>1, <2>3
  <2>6. lines[i][1] < lines[i + 1][1]
    <3>1. lines[i + 1][2] = 0 /\ i < i + 1
      BY <2>5
    <3> QED
      BY <3>1, <1>1 DEF Ascending
  <2> QED
    BY <2>5, <2>6, <1>3, <1>6, <1>8
<1> QED
  BY <1>7, <1>8

(* appcfg.py:1375: the output holds whole records, oldest first and each     *)
(* once, after any runs: OnceInOrder.                                        *)
THEOREM OldestFirst == Spec => []OnceInOrder
<1>1. ASSUME Inv PROVE OnceInOrder
  <2> SUFFICES ASSUME ~doubled, file # <<>>
               PROVE  /\ file[1][2] = 0
                      /\ \A i \in 1..(Len(file) - 1) : Follows(file[i], file[i + 1])
                      /\ file[Len(file)][2] = log[file[Len(file)][1]].subs
    BY DEF OnceInOrder
  <2>1. /\ log \in Seq(Record) /\ file \in Seq(Line) /\ FileWhole(file, log)
        /\ Ascending(file)
    BY <1>1 DEF Inv, TypeOK, FileOK
  <2>2. PICK n \in Nat \ {0} : n = Len(file)
    BY <2>1, EmptySeq
  <2>3. file[1][2] = 0
    <3>1. PICK s \in 1..1, id \in 1..Len(log) : InLines(file, 1, s, id, log)
      BY <2>1, <2>2, LineOf
    <3>2. log[id].subs \in Nat
      BY <2>1, RecordFields
    <3>3. 0 \in 0..log[id].subs /\ s + 0 = 1
      BY <3>2
    <3>4. file[1] = <<id, 0>>
      BY <3>1, <3>3 DEF InLines, RecordAt
    <3> QED
      BY <3>4
  <2>4. ASSUME NEW i \in 1..(n - 1) PROVE Follows(file[i], file[i + 1])
    <3>1. i \in 1..n /\ i + 1 \in 1..n
      BY <2>2
    <3>2. file[i] \in Line /\ file[i + 1] \in Line
      BY <3>1, <2>1, <2>2, ElementOfSeq
    <3> QED
      BY <3>2, <2>1, <2>2, LineFollows DEF Follows
  <2>5. file[n][2] = log[file[n][1]].subs
    BY <2>1, <2>2, LastLines DEF LastId
  <2> QED
    BY <2>2, <2>3, <2>4, <2>5
<1> QED
  BY <1>1, InvAlways, PTL

(* --------------------------- nothing is missing ------------------------- *)

\* What this run asks for.
AskedOK ==
  /\ asked.had <= Len(log)
  /\ Fetching => dates[1] = asked.first /\ (dates = <<1, MaxDay>> \/ dates[2] = asked.end)

\* While there is a day to skip down to, nothing was found; when there is none, the
\* records from here on are not above the days, or the run is one of the exceptions.
DaysBelow(top, day, lg) == \A id \in 1..top : lg[id].day <= day
UntilOK ==
  Fetching =>
    /\ until # 0 => until = asked.end /\ tf = <<>>
    /\ until = 0 => \/ asked.late \/ dates = <<1, MaxDay>>
                    \/ Started /\ DaysBelow(at, asked.end, log)

\* Every record above the place in the log that has a date was found, or is newer
\* than all that were found and not one that was asked for.
Found(id, S, as, lg) ==
  id \in S \/ ((\A other \in S : other < id) /\ (id > as.had \/ lg[id].day > as.end))
FoundOK ==
  Fetching /\ Started =>
    \A id \in 1..Len(log) :
      id > at /\ log[id].day > 0 => Found(id, Ids(tf, Len(tf)), asked, log)

\* Between a record of S and top S has every record with a date.
NoGap(S, top, lg) ==
  \A id \in 1..Len(lg) :
    lg[id].day > 0 /\ id <= top /\ (\E other \in S : other < id) => id \in S

\* The records that the output has, or will have.
Got == Ids(file, Len(file)) \cup (IF pc = "copying" THEN Ids(tf, Left) ELSE {})

Whole == ~torn /\ ~Twins
FileGapOK == Whole /\ file # <<>> => NoGap(Ids(file, Len(file)), LastId(file), log)
LeftGapOK == Whole /\ pc = "copying" => \A top \in Ids(tf, Left) : NoGap(Got, top, log)

\* The promise of NothingMissing for a record, when S is in the output.
Covered(id, S, as, lg) ==
  \/ id \in S
  \/ as.append /\ S # {} /\ \A other \in S : id < other
  \/ as.late /\ \E other \in 1..Len(lg) : lg[other].day > as.end
Promised(S, as, lg) ==
  \A id \in 1..as.had :
    lg[id].day > 0 /\ lg[id].day \in as.first..as.end => Covered(id, S, as, lg)
PromiseOK == Whole /\ ~Fetching /\ asked.whole => Promised(Got, asked, log)

More == AskedOK /\ UntilOK /\ FoundOK /\ FileGapOK /\ LeftGapOK /\ PromiseOK

(* The records of the temporary file are records of the server.              *)
LEMMA TextLogged ==
  ASSUME NEW lg \in Seq(Record), NEW text, NEW n \in Nat, n = Len(text),
         TextWhole(text, lg), NEW m \in 0..n, NEW x \in Ids(text, m)
  PROVE  x \in 1..Len(lg) /\ x \in Nat
<1>1. PICK i \in 1..m : x = text[i][1] /\ x # 0
  BY DEF Ids
<1>2. i \in 1..n
  OBVIOUS
<1>3. PICK s \in 1..i, id \in 1..Len(lg) : InRecord(text, i, s, id, lg)
  BY <1>2, RecordOf
<1>4. text[i] # NewLine
  BY <1>1 DEF NewLine
<1>5. x = id
  BY <1>1, <1>3, <1>4 DEF InRecord
<1> QED
  BY <1>5

(* All the records of the files are the server's.                            *)
LEMMA GotLogged ==
  ASSUME Inv
  PROVE  /\ Ids(file, Len(file)) \subseteq 1..Len(log) /\ Ids(tf, Len(tf)) \subseteq 1..Len(log)
         /\ pc = "copying" => Ids(tf, Left) \subseteq 1..Len(log)
         /\ Got \subseteq 1..Len(log) /\ Len(log) \in Nat
<1>1. /\ log \in Seq(Record) /\ FileWhole(file, log) /\ TextWhole(tf, log)
  BY DEF Inv, TypeOK, TextOK, FileOK
<1>2. PICK n, m \in Nat : n = Len(file) /\ m = Len(tf)
  BY DEF Inv, TypeOK
<1>3. Ids(file, n) \subseteq 1..Len(log)
  BY <1>1, <1>2, IdsLogged
<1>4. ASSUME NEW e \in 0..m PROVE Ids(tf, e) \subseteq 1..Len(log)
  BY <1>1, <1>2, TextLogged
<1>5. Ids(tf, m) \subseteq 1..Len(log)
  <2>1. m \in 0..m
    OBVIOUS
  <2> QED
    BY <2>1, <1>4
<1>6. pc = "copying" => Left \in 0..m
  BY <1>2, WhatIsLeft
<1>7. pc = "copying" => Ids(tf, Left) \subseteq 1..Len(log)
  BY <1>4, <1>6
<1> QED
  BY <1>1, <1>2, <1>3, <1>5, <1>7 DEF Got

(* With the day of a record that has a date, all before it are not above it. *)
LEMMA DaysBefore ==
  ASSUME Inv, NEW top \in 1..Len(log), log[top].day > 0, NEW id \in 1..top
  PROVE  log[id].day <= log[top].day
<1>1. log \in Seq(Record)
  BY DEF Inv, TypeOK
<1>2. log[top].day \in Nat /\ id \in 1..Len(log)
  BY <1>1, RecordFields
<1>3. CASE id = top
  BY <1>2, <1>3
<1>4. CASE id # top
  <2>1. id < top
    BY <1>4
  <2> QED
    BY <2>1, <1>2 DEF Inv, DaysGoUp
<1> QED
  BY <1>3, <1>4

(* Where no two records have the same text, none has that of a record added. *)
LEMMA TwinsStay == ASSUME Inv, Logged, Twins PROVE Twins'
<1>1. PICK i, j \in DOMAIN log : i # j /\ log[i].text = log[j].text
  BY DEF Twins
<1>2. PICK r : log' = Append(log, r)
  BY DEF Logged
<1>3. DOMAIN log \subseteq DOMAIN log' /\ \A id \in DOMAIN log : log'[id] = log[id]
  BY <1>2, SMTT(30) DEF Inv, TypeOK
<1> QED
  BY <1>1, <1>3 DEF Twins

(* What was found stays found, when an older one is found too.               *)
LEMMA FoundMore ==
  ASSUME NEW S \in SUBSET Nat, NEW id \in Nat, NEW older \in Nat, older < id, NEW as, NEW lg,
         Found(id, S, as, lg)
  PROVE  Found(id, S \cup {older}, as, lg)
BY DEF Found

(* A run begins.                                                             *)
LEMMA BeginMore ==
  ASSUME Inv, More, NEW append \in BOOLEAN, NEW end \in 1..today, NEW days \in 0..MaxSpan,
         days <= end, Begin(append, end, days)
  PROVE  More'
<1>1. /\ pc = "idle" /\ pc' = "asking" /\ log' = log /\ tf' = tf /\ file' = file /\ torn' = torn
      /\ offset' = offset /\ today' = today
      /\ until' = IF end < today THEN end ELSE 0
      /\ dates' = IF days = 0 THEN <<1, MaxDay>> ELSE <<(end + 1) - days, end>>
      /\ asked' = [append |-> append, late |-> end = today /\ days > 0, first |-> dates'[1],
                   end |-> end, had |-> Len(log), whole |-> TRUE]
  BY DEF Begin, world, copy
<1>2. /\ asked'.late = (end = today /\ days > 0) /\ asked'.first = dates'[1]
      /\ asked'.end = end /\ asked'.had = Len(log)
  BY <1>1
<1>3. end \in Nat /\ days \in Nat /\ today \in Nat /\ end <= today /\ end # 0
  BY BoundsAssumption DEF Inv, TypeOK
<1>4. AskedOK'
  <2>1. dates' = <<1, MaxDay>> \/ dates'[2] = end
    BY <1>1
  <2>2. Len(log) <= Len(log)
    BY DEF Inv, TypeOK
  <2> QED
    BY <2>1, <2>2, <1>1, <1>2 DEF AskedOK
<1>5. UntilOK'
  <2>1. tf' = <<>>
    BY <1>1 DEF Inv, Places
  <2>2. until' # 0 => until' = end
    BY <1>1
  <2>3. until' = 0 => end = today
    BY <1>1, <1>3
  <2>4. days # 0 => days > 0
    BY <1>3
  <2>5. until' = 0 => asked'.late \/ dates' = <<1, MaxDay>>
    <3>1. CASE days = 0
      BY <3>1, <1>1
    <3>2. CASE days # 0
      BY <3>2, <2>3, <2>4, <1>2
    <3> QED
      BY <3>1, <3>2
  <2> QED
    BY <2>1, <2>2, <2>5, <1>2 DEF UntilOK
<1>6. FoundOK'
  <2>1. ~Started'
    BY <1>1 DEF Started, Inv, Places, Fetching
  <2> QED
    BY <2>1 DEF FoundOK
<1>7. FileGapOK'
  BY <1>1 DEF More, FileGapOK, Whole, Twins
<1>8. LeftGapOK' /\ PromiseOK'
  BY <1>1 DEF LeftGapOK, PromiseOK, Fetching
<1> QED
  BY <1>4, <1>5, <1>6, <1>7, <1>8 DEF More

(* An answer.                                                                *)
LEMMA AnswerMore == ASSUME Inv, More, Answer PROVE More'
<1>1. /\ pc = "asking" /\ pc' = "reading" /\ at' = IF offset = 0 THEN Len(log) ELSE offset
      /\ log' = log /\ tf' = tf /\ file' = file /\ torn' = torn /\ asked' = asked
      /\ dates' = dates /\ until' = until
  BY DEF Answer, world, run, copy
<1>2. AskedOK'
  BY <1>1 DEF More, AskedOK, Fetching
<1>3. Started <=> offset # 0
  BY <1>1 DEF Started, Inv, TypeOK
<1>4. offset # 0 => at' = at
  BY <1>1 DEF Inv, Places
<1>5. UntilOK'
  BY <1>1, <1>3, <1>4 DEF More, UntilOK, Fetching, Started
<1>6. FoundOK'
  <2>1. CASE offset = 0
    <3>1. at' = Len(log') /\ Len(log') \in Nat
      BY <2>1, <1>1 DEF Inv, TypeOK
    <3>2. \A id \in 1..Len(log') : ~(id > at')
      BY <3>1
    <3> QED
      BY <3>2 DEF FoundOK
  <2>2. CASE offset # 0
    BY <2>2, <1>1, <1>3, <1>4 DEF More, FoundOK, Fetching
  <2> QED
    BY <2>1, <2>2
<1>7. FileGapOK'
  BY <1>1 DEF More, FileGapOK, Whole, Twins
<1>8. LeftGapOK' /\ PromiseOK'
  BY <1>1 DEF LeftGapOK, PromiseOK, Fetching
<1> QED
  BY <1>2, <1>5, <1>6, <1>7, <1>8 DEF More

(* A line is passed over: it has no date, or is of a later day than any that *)
(* was asked for, and nothing was found yet.                                 *)
LEMMA SkipMore == ASSUME Inv, More, SkipLine PROVE More'
<1>1. /\ pc = "reading" /\ pc' = pc /\ at > offset /\ at' = at - 1 /\ offset' = offset
      /\ log' = log /\ tf' = tf /\ file' = file /\ torn' = torn /\ asked' = asked
      /\ dates' = dates /\ until' = until /\ Skipped(at)
  BY DEF SkipLine, Reading, world, run, copy
<1>2. AskedOK'
  BY <1>1 DEF More, AskedOK, Fetching
<1>3. at \in Nat \ {0} /\ at' \in Nat /\ at <= Len(log)
  BY <1>1 DEF Inv, TypeOK, Places
<1>4. UntilOK'
  <2>1. DaysBelow(at, asked.end, log) => DaysBelow(at', asked'.end, log')
    BY <1>1, <1>3 DEF DaysBelow
  <2> QED
    BY <2>1, <1>1 DEF More, UntilOK, Fetching, Started
<1>5. FoundOK'
  <2>1. ASSUME NEW id \in 1..Len(log), id > at', log[id].day > 0
        PROVE  Found(id, Ids(tf, Len(tf)), asked, log)
    <3>1. CASE id > at
      BY <2>1, <3>1, <1>1 DEF More, FoundOK, Fetching, Started
    <3>2. CASE id = at
      <4>1. until # 0 /\ log[id].day > until
        BY <3>2, <2>1, <1>1 DEF Skipped, Dated
      <4>2. until = asked.end /\ tf = <<>>
        BY <4>1, <1>1 DEF More, UntilOK, Fetching
      <4>3. Ids(tf, Len(tf)) = {}
        BY <4>2, EmptyFiles
      <4> QED
        BY <4>1, <4>2, <4>3 DEF Found
    <3>3. id > at \/ id = at
      BY <2>1, <1>1, <1>3
    <3> QED
      BY <3>1, <3>2, <3>3
  <2> QED
    BY <2>1, <1>1 DEF FoundOK
<1>6. FileGapOK'
  BY <1>1 DEF More, FileGapOK, Whole, Twins
<1>7. LeftGapOK' /\ PromiseOK'
  BY <1>1 DEF LeftGapOK, PromiseOK, Fetching
<1> QED
  BY <1>2, <1>4, <1>5, <1>6, <1>7 DEF More

(* A line is kept: older ones are of no later day.                           *)
LEMMA KeepMore == ASSUME Inv, More, KeepLine PROVE More'
<1>1. /\ pc = "reading" /\ pc' = pc /\ at > offset /\ at' = at - 1 /\ offset' = offset
      /\ log' = log /\ file' = file /\ torn' = torn /\ asked' = asked
      /\ dates' = dates /\ until' = 0 /\ ~Skipped(at) /\ tf' = tf \o Chars(at)
  BY DEF KeepLine, Reading, world, run, copy
<1>2. AskedOK'
  BY <1>1 DEF More, AskedOK, Fetching
<1>3. at \in Nat \ {0} /\ at' \in Nat /\ at \in 1..Len(log) /\ log \in Seq(Record)
  BY <1>1 DEF Inv, TypeOK, Places
<1>4. log[at].day > 0 /\ (until # 0 => ~(log[at].day > until))
  BY <1>1 DEF Skipped, Dated
<1>5. UntilOK'
  <2>1. CASE until # 0
    <3>1. until = asked.end /\ ~(log[at].day > asked.end)
      BY <2>1, <1>1, <1>4 DEF More, UntilOK, Fetching
    <3>2. log[at].day \in Nat /\ asked.end \in Nat
      BY <1>3, RecordFields DEF Inv, TypeOK, Asked
    <3>3. ASSUME NEW id \in 1..at' PROVE log[id].day <= asked.end
      <4>1. id \in 1..at /\ id \in 1..Len(log)
        BY <1>1, <1>3
      <4>2. log[id].day <= log[at].day
        BY <4>1, <1>3, <1>4, DaysBefore
      <4>3. log[id].day \in Nat
        BY <4>1, <1>3, RecordFields
      <4> QED
        BY <3>1, <3>2, <4>2, <4>3
    <3>4. DaysBelow(at', asked'.end, log')
      BY <3>3, <1>1 DEF DaysBelow
    <3> QED
      BY <3>4, <1>1 DEF UntilOK, Started
  <2>2. CASE until = 0
    <3>1. DaysBelow(at, asked.end, log) => DaysBelow(at', asked'.end, log')
      BY <1>1, <1>3 DEF DaysBelow
    <3> QED
      BY <3>1, <2>2, <1>1 DEF More, UntilOK, Fetching, Started
  <2> QED
    BY <2>1, <2>2
<1>6. Ids(tf', Len(tf')) = Ids(tf, Len(tf)) \cup {at}
  BY Kept
<1>7. FoundOK'
  <2>1. Ids(tf, Len(tf)) \subseteq Nat
    BY GotLogged
  <2>2. ASSUME NEW id \in 1..Len(log), id > at', log[id].day > 0
        PROVE  Found(id, Ids(tf', Len(tf')), asked, log)
    <3>1. CASE id > at
      <4>1. Found(id, Ids(tf, Len(tf)), asked, log)
        BY <2>2, <3>1, <1>1 DEF More, FoundOK, Fetching, Started
      <4>2. id \in Nat /\ at < id /\ at \in Nat
        BY <3>1, <1>3
      <4> QED
        BY <4>1, <4>2, <2>1, <1>6, FoundMore
    <3>2. CASE id = at
      BY <3>2, <1>6 DEF Found
    <3>3. id > at \/ id = at
      BY <2>2, <1>1, <1>3
    <3> QED
      BY <3>1, <3>2, <3>3
  <2> QED
    BY <2>2, <1>1 DEF FoundOK
<1>8. FileGapOK'
  BY <1>1 DEF More, FileGapOK, Whole, Twins
<1>9. LeftGapOK' /\ PromiseOK'
  BY <1>1 DEF LeftGapOK, PromiseOK, Fetching
<1> QED
  BY <1>2, <1>5, <1>7, <1>8, <1>9 DEF More

(* What the output has, or will have, when it is opened.                     *)
LEMMA GotOpened ==
  ASSUME Inv, NEW early \in BOOLEAN, Open(early)
  PROVE  /\ Left' = Len(tf) /\ tf' = tf /\ log' = log /\ pc' = "copying"
         /\ asked.append => file' = file /\ Got' = Ids(file, Len(file)) \cup Ids(tf, Len(tf))
         /\ ~asked.append => file' = <<>> /\ Got' = Ids(tf, Len(tf))
<1>1. /\ tf' = tf /\ log' = log /\ pc' = "copying" /\ spill' = <<>>
      /\ block' = Len(tf) \div BlockSize + 2
      /\ file' = IF asked.append THEN file ELSE <<>>
  BY DEF Open, world
<1>2. PICK n \in Nat : n = Len(tf)
  BY DEF Inv, TypeOK
<1>3. Pos(block', Len(tf')) = n
  BY <1>1, <1>2, PosEnds
<1>4. Left' = Pos(block', Len(tf')) + Len(spill')
  BY DEF Left
<1>5. Left' = n
  BY <1>1, <1>2, <1>3, <1>4
<1>6. Got' = Ids(file', Len(file')) \cup Ids(tf, n)
  BY <1>1, <1>5 DEF Got
<1>7. Ids(<<>>, Len(<<>>)) = {}
  BY EmptyFiles
<1>8. asked.append => file' = file /\ Got' = Ids(file, Len(file)) \cup Ids(tf, Len(tf))
  BY <1>1, <1>2, <1>6
<1>9. ~asked.append => file' = <<>> /\ Got' = Ids(tf, Len(tf))
  BY <1>1, <1>2, <1>6, <1>7
<1> QED
  BY <1>1, <1>2, <1>5, <1>8, <1>9

(* Where the sentinel is found, and no two records have the same text, is    *)
(* the output's last record.                                                 *)
LEMMA AtSentinel ==
  ASSUME Inv, Reading, IsSentinel(at), ~Twins
  PROVE  at = LastId(file) /\ asked.append /\ file # <<>> /\ at \in Ids(file, Len(file))
<1>1. asked.append /\ file # <<>> /\ log[LastId(file)].text = log[at].text
  BY DEF Inv, SentinelOK, IsSentinel
<1>2. at \in 1..Len(log)
  BY DEF Inv, Reading, TypeOK, Places
<1>3. PICK n \in Nat \ {0} : n = Len(file)
  BY <1>1, EmptySeq DEF Inv, TypeOK
<1>4. LastId(file) \in 1..Len(log) /\ LastId(file) \in Ids(file, n)
  BY <1>3, LastLines DEF Inv, TypeOK, FileOK
<1>5. 1..Len(log) = DOMAIN log
  BY DEF Inv, TypeOK
<1>6. at = LastId(file)
  BY <1>1, <1>2, <1>4, <1>5 DEF Twins
<1> QED
  BY <1>1, <1>3, <1>4, <1>6

(* The output is opened: what was found goes on where the output ends, or is *)
(* alone in it.                                                              *)
LEMMA OpenGaps ==
  ASSUME Inv, More, Fetching, NEW early \in BOOLEAN, Open(early),
         asked'.had = asked.had, early \/ at = 0 \/ (Reading /\ IsSentinel(at))
  PROVE  AskedOK' /\ UntilOK' /\ FoundOK' /\ FileGapOK' /\ LeftGapOK'
<1>1. /\ Left' = Len(tf) /\ tf' = tf /\ log' = log /\ pc' = "copying"
      /\ asked.append => file' = file /\ Got' = Ids(file, Len(file)) \cup Ids(tf, Len(tf))
      /\ ~asked.append => file' = <<>> /\ Got' = Ids(tf, Len(tf))
  BY GotOpened
<1>2. torn' = (asked.append /\ (torn \/ early))
  BY DEF Open
<1>3. AskedOK' /\ UntilOK' /\ FoundOK'
  BY <1>1 DEF More, AskedOK, UntilOK, FoundOK, Fetching
<1>4. Twins' = Twins
  BY <1>1 DEF Twins
<1>5. FileGapOK'
  <2>1. CASE asked.append
    BY <2>1, <1>1, <1>2, <1>4 DEF More, FileGapOK, Whole
  <2>2. CASE ~asked.append
    BY <2>2, <1>1 DEF FileGapOK
  <2> QED
    BY <2>1, <2>2
<1>6. ASSUME Whole', NEW top \in Ids(tf, Len(tf)), NEW id \in 1..Len(log), log[id].day > 0,
             id <= top, NEW other \in Got', other < id
      PROVE  id \in Got'
  <2>1. /\ Len(log) \in Nat /\ Ids(file, Len(file)) \subseteq 1..Len(log)
        /\ Ids(tf, Len(tf)) \subseteq 1..Len(log) /\ at \in Nat
    BY GotLogged DEF Inv, TypeOK
  <2>2. Started
    <3>1. CASE pc = "asking" /\ offset = 0
      <4>1. Ids(tf, Len(tf)) = {}
        BY <3>1, EmptyFiles DEF Inv, Places
      <4> QED
        BY <4>1
    <3> QED
      BY <3>1 DEF Fetching, Started, Inv, Places, TypeOK
  <2>3. at < top
    BY DEF Inv, AbovePlace
  <2>4. ASSUME id > at PROVE id \in Ids(tf, Len(tf)) \/ \A x \in Ids(tf, Len(tf)) : x < id
    BY <2>2, <2>4, <1>6 DEF More, FoundOK, Found
  <2>5. CASE id > at
    <3>1. ~(top < id)
      BY <1>6, <2>1
    <3>2. id \in Ids(tf, Len(tf))
      BY <2>4, <2>5, <3>1
    <3> QED
      BY <3>2, <1>1
  <2>6. CASE ~(id > at)
    <3>1. id <= at
      BY <2>1, <2>6
    <3>2. other \notin Ids(tf, Len(tf))
      <4>1. ASSUME other \in Ids(tf, Len(tf)) PROVE FALSE
        <5>1. at < other /\ other \in Nat
          BY <4>1, <2>1 DEF Inv, AbovePlace
        <5> QED
          BY <5>1, <3>1, <1>6, <2>1
      <4> QED
        BY <4>1
    <3>3. asked.append /\ other \in Ids(file, Len(file))
      BY <3>2, <1>1, <1>6
    <3>4. ~torn /\ ~early /\ ~Twins
      BY <3>3, <1>2, <1>4, <1>6 DEF Whole
    <3>5. at = LastId(file) /\ file # <<>>
      BY <3>1, <3>4, AtSentinel
    <3>6. NoGap(Ids(file, Len(file)), at, log)
      BY <3>4, <3>5 DEF More, FileGapOK, Whole
    <3>7. id \in Ids(file, Len(file))
      BY <3>1, <3>3, <3>6, <1>6 DEF NoGap
    <3> QED
      BY <3>3, <3>7, <1>1
  <2> QED
    BY <2>5, <2>6
<1>7. LeftGapOK'
  BY <1>1, <1>6 DEF LeftGapOK, NoGap
<1> QED
  BY <1>3, <1>5, <1>7

(* A run comes to the sentinel: what it did not read is in the output, or    *)
(* before what it went on from.                                              *)
LEMMA AllAtSentinel ==
  ASSUME Inv, More, StopAtSentinel, Whole', NEW id \in 1..asked.had, log[id].day > 0,
         log[id].day \in asked.first..asked.end, ~(id > at)
  PROVE  Covered(id, Got', asked, log)
<1>1. Reading /\ IsSentinel(at) /\ Open(FALSE) /\ Fetching
  BY DEF StopAtSentinel, Reading, Fetching
<1>2. /\ tf' = tf /\ log' = log
      /\ asked.append => file' = file /\ Got' = Ids(file, Len(file)) \cup Ids(tf, Len(tf))
  BY <1>1, GotOpened
<1>3. ~Twins
  BY <1>2 DEF Whole, Twins
<1>4. at = LastId(file) /\ asked.append /\ file # <<>> /\ at \in Ids(file, Len(file))
  BY <1>1, <1>3, AtSentinel
<1>5. ~torn
  BY <1>1, <1>4 DEF Whole, Open
<1>6. /\ Len(log) \in Nat /\ Ids(file, Len(file)) \subseteq 1..Len(log)
      /\ Ids(tf, Len(tf)) \subseteq 1..Len(log) /\ at \in Nat
      /\ id \in 1..Len(log) /\ asked.had \in Nat
  <2>1. Ids(file, Len(file)) \subseteq 1..Len(log) /\ Ids(tf, Len(tf)) \subseteq 1..Len(log)
    BY GotLogged DEF Inv
  <2>2. Len(log) \in Nat /\ at \in Nat /\ asked.had \in Nat
    BY SMTT(30) DEF Inv, TypeOK, Asked
  <2>3. asked.had <= Len(log)
    BY DEF More, AskedOK
  <2> QED
    BY <2>1, <2>2, <2>3
<1>7. NoGap(Ids(file, Len(file)), at, log)
  BY <1>3, <1>4, <1>5 DEF More, FileGapOK, Whole
<1>8. CASE \E other \in Ids(file, Len(file)) : other < id
  <2>1. id <= at
    BY <1>6
  <2>2. id \in Ids(file, Len(file))
    BY <2>1, <1>6, <1>7, <1>8 DEF NoGap
  <2> QED
    BY <2>2, <1>2, <1>4 DEF Covered
<1>9. CASE ~ \E other \in Ids(file, Len(file)) : other < id
  <2>1. CASE id \in Ids(file, Len(file))
    BY <2>1, <1>2, <1>4 DEF Covered
  <2>2. CASE id \notin Ids(file, Len(file))
    <3>1. ASSUME NEW other \in Got' PROVE id < other
      <4>1. CASE other \in Ids(file, Len(file))
        <5>1. other \in Nat /\ id \in Nat /\ ~(other < id) /\ other # id
          BY <4>1, <2>2, <1>6, <1>9
        <5> QED
          BY <5>1
      <4>2. CASE other \in Ids(tf, Len(tf))
        <5>1. at < other /\ other \in Nat
          BY <4>2, <1>1, <1>6 DEF Inv, AbovePlace
        <5> QED
          BY <5>1, <1>6
      <4> QED
        BY <4>1, <4>2, <1>2, <1>4
    <3>2. Got' # {}
      BY <1>2, <1>4
    <3> QED
      BY <3>1, <3>2, <1>4 DEF Covered
  <2> QED
    BY <2>1, <2>2
<1> QED
  BY <1>8, <1>9

(* A run ends at a date: what it did not read is before the days it was to   *)
(* get, or the first record read was of the next day.                        *)
LEMMA AllAtDate ==
  ASSUME Inv, More, StopAtDate, NEW id \in 1..asked.had, log[id].day > 0,
         log[id].day \in asked.first..asked.end, ~(id > at), NEW S
  PROVE  Covered(id, S, asked, log)
<1>1. pc = "reading" /\ at > offset /\ ~Skipped(at) /\ ~InDates(at) /\ Fetching /\ Started
  BY DEF StopAtDate, Reading, Fetching, Started
<1>2. /\ log \in Seq(Record) /\ at \in 1..Len(log) /\ id \in 1..at /\ id \in 1..Len(log)
      /\ asked.first \in Nat /\ asked.end \in Nat /\ dates[1] \in Nat /\ dates[2] \in Nat
  BY <1>1 DEF Inv, More, AskedOK, TypeOK, Places, Asked
<1>3. log[at].day \in Nat /\ log[id].day \in Nat
  BY <1>2, RecordFields
<1>4. log[at].day > 0 /\ (until # 0 => ~(log[at].day > until))
  BY <1>1 DEF Skipped, Dated
<1>5. log[id].day <= log[at].day
  BY <1>2, <1>4, DaysBefore
<1>6. dates[1] = asked.first /\ (dates = <<1, MaxDay>> \/ dates[2] = asked.end)
  BY <1>1 DEF More, AskedOK
<1>7. ~(log[at].day < dates[1])
  BY <1>2, <1>3, <1>5, <1>6
<1>8. log[at].day > dates[2]
  BY <1>1, <1>2, <1>3, <1>7 DEF InDates
<1>9. dates # <<1, MaxDay>>
  <2>1. log[at].day <= today /\ today \in 1..MaxDay
    BY <1>2 DEF Inv, DaysGoUp, TypeOK
  <2>2. log[at].day <= MaxDay
    BY <2>1, <1>3, BoundsAssumption
  <2>3. ASSUME dates = <<1, MaxDay>> PROVE FALSE
    <3>1. dates[2] = MaxDay
      BY <2>3
    <3> QED
      BY <3>1, <2>2, <1>2, <1>3, <1>8, BoundsAssumption
  <2> QED
    BY <2>3
<1>10. log[at].day > asked.end
  BY <1>6, <1>8, <1>9
<1>11. until = 0
  <2>1. until # 0 => until = asked.end
    BY <1>1 DEF More, UntilOK
  <2> QED
    BY <2>1, <1>4, <1>10
<1>12. asked.late
  <2>1. ~DaysBelow(at, asked.end, log)
    <3>1. at \in 1..at
      BY <1>2
    <3> QED
      BY <3>1, <1>2, <1>3, <1>10 DEF DaysBelow
  <2> QED
    BY <2>1, <1>1, <1>9, <1>11 DEF More, UntilOK
<1> QED
  BY <1>2, <1>10, <1>12 DEF Covered

(* A record that was read and asked for was found.                           *)
LEMMA AllThatWasRead ==
  ASSUME Inv, More, pc = "reading", NEW early \in BOOLEAN, Open(early),
         NEW id \in 1..asked.had, log[id].day > 0,
         log[id].day \in asked.first..asked.end, id > at
  PROVE  Covered(id, Got', asked, log)
<1>1. Fetching /\ Started
  BY DEF Fetching, Started
<1>2. /\ Len(log) \in Nat /\ asked.had \in Nat /\ id \in 1..Len(log) /\ asked.end \in Nat
      /\ asked.first \in Nat
  <2>1. Len(log) \in Nat /\ asked.had \in Nat /\ asked.end \in Nat /\ asked.first \in Nat
    BY SMTT(30) DEF Inv, TypeOK, Asked
  <2>2. asked.had <= Len(log)
    BY DEF More, AskedOK
  <2> QED
    BY <2>1, <2>2
<1>3. Found(id, Ids(tf, Len(tf)), asked, log)
  BY <1>1, <1>2 DEF More, FoundOK
<1>4. ~(id > asked.had) /\ ~(log[id].day > asked.end)
  BY <1>2
<1>5. id \in Ids(tf, Len(tf))
  BY <1>3, <1>4 DEF Found
<1>6. id \in Got'
  BY <1>5, GotOpened
<1> QED
  BY <1>6 DEF Covered

\* The steps that open the output.
Opens == StopAtSentinel \/ StopAtDate \/ Interrupt \/ (NextPage /\ Open(FALSE))

(* The output is opened.                                                     *)
LEMMA OpenMore == ASSUME Inv, More, Opens PROVE More'
<1> USE DEF Opens
<1>1. asked'.had = asked.had
  BY DEF StopAtSentinel, StopAtDate, Interrupt, NextPage, Inv, TypeOK, Asked
<1>2. \E early \in BOOLEAN : Open(early) /\ (early \/ at = 0 \/ (Reading /\ IsSentinel(at)))
  <2>1. CASE StopAtSentinel
    BY <2>1 DEF StopAtSentinel
  <2>2. CASE StopAtDate \/ Interrupt
    <3>1. Open(TRUE)
      BY <2>2 DEF StopAtDate, Interrupt
    <3> WITNESS TRUE \in BOOLEAN
    <3> QED
      BY <3>1
  <2>3. CASE NextPage /\ Open(FALSE)
    <3>1. at = 0
      BY <2>3 DEF NextPage, Open, Inv, Places
    <3> WITNESS FALSE \in BOOLEAN
    <3> QED
      BY <2>3, <3>1
  <2> QED
    BY <2>1, <2>2, <2>3
<1> PICK early \in BOOLEAN : Open(early) /\ (early \/ at = 0 \/ (Reading /\ IsSentinel(at)))
  BY <1>2
<1>3. Fetching
  BY DEF StopAtSentinel, StopAtDate, Interrupt, NextPage, Reading, Fetching
<1>4. AskedOK' /\ UntilOK' /\ FoundOK' /\ FileGapOK' /\ LeftGapOK'
  BY <1>1, <1>2, <1>3, OpenGaps
<1>5. log' = log
  BY <1>2, GotOpened
<1>6. PromiseOK'
  <2>1. CASE Interrupt
    <3>1. asked'.whole = FALSE
      BY <2>1 DEF Interrupt, Inv, TypeOK, Asked
    <3> QED
      BY <3>1 DEF PromiseOK
  <2>2. CASE ~Interrupt
    <3>1. pc = "reading" /\ asked' = asked
      BY <2>2 DEF StopAtSentinel, StopAtDate, NextPage, Reading
    <3>2. ASSUME Whole', NEW id \in 1..asked.had, log[id].day > 0,
                 log[id].day \in asked.first..asked.end
          PROVE  Covered(id, Got', asked, log)
      <4>1. CASE id > at
        BY <4>1, <3>1, <3>2, <1>2, AllThatWasRead
      <4>2. CASE ~(id > at) /\ StopAtSentinel
        BY <4>2, <3>2, AllAtSentinel
      <4>3. CASE ~(id > at) /\ StopAtDate
        BY <4>3, <3>2, AllAtDate
      <4>4. CASE ~(id > at) /\ NextPage /\ Open(FALSE)
        <5>1. at = 0 /\ asked.had \in Nat
          BY <4>4 DEF NextPage, Open, Inv, Places, TypeOK, Asked
        <5> QED
          BY <5>1, <4>4
      <4> QED
        BY <4>1, <4>2, <4>3, <4>4, <2>2
    <3> QED
      BY <3>1, <3>2, <1>5 DEF PromiseOK, Promised
  <2> QED
    BY <2>1, <2>2
<1> QED
  BY <1>4, <1>6 DEF More

(* The copy is over: nothing is left.                                        *)
LEMMA NothingLeft ==
  ASSUME Inv, Copied
  PROVE  Got = Ids(file, Len(file))
<1>1. pc = "copying" /\ spill = <<>> /\ block = 0
  BY DEF Copied, HasLine
<1>2. Left = 0
  <2>1. Pos(block, Len(tf)) = 0
    BY <1>1, PosEnds DEF Inv, TypeOK
  <2> QED
    BY <1>1, <2>1 DEF Left
<1> QED
  BY <1>1, <1>2, NoIds DEF Got

(* The run is over.                                                          *)
LEMMA OverMore == ASSUME Inv, More, Fails \/ Copied \/ InterruptCopy PROVE More'
<1>1. /\ pc' = "idle" /\ log' = log /\ file' = file /\ torn' = torn
      /\ asked'.had = asked.had
  BY DEF Fails, Copied, InterruptCopy, Over, world, Inv, TypeOK, Asked
<1>2. Twins' = Twins
  BY <1>1 DEF Twins
<1>3. AskedOK' /\ UntilOK' /\ FoundOK' /\ LeftGapOK'
  BY <1>1 DEF More, AskedOK, UntilOK, FoundOK, LeftGapOK, Fetching
<1>4. FileGapOK'
  BY <1>1, <1>2 DEF More, FileGapOK, Whole
<1>5. PromiseOK'
  <2>1. CASE Fails \/ InterruptCopy
    <3>1. asked'.whole = FALSE
      BY <2>1 DEF Fails, InterruptCopy, Inv, TypeOK, Asked
    <3> QED
      BY <3>1 DEF PromiseOK
  <2>2. CASE Copied
    <3>1. asked' = asked /\ pc = "copying"
      BY <2>2 DEF Copied
    <3>2. Got' = Got
      <4>1. Got' = Ids(file, Len(file)) \cup {}
        BY <1>1 DEF Got
      <4> QED
        BY <4>1, <2>2, NothingLeft
    <3> QED
      BY <3>1, <3>2, <1>1, <1>2 DEF More, PromiseOK, Whole, Fetching
  <2> QED
    BY <2>1, <2>2
<1> QED
  BY <1>3, <1>4, <1>5 DEF More

(* While the files are copied, what the output has or will have stays.       *)
LEMMA CopyMore ==
  ASSUME Inv, More, pc = "copying", Got' = Got, Ids(tf', Left') \subseteq Ids(tf, Left),
         pc' = pc, log' = log, torn' = torn, asked' = asked
  PROVE  AskedOK' /\ UntilOK' /\ FoundOK' /\ LeftGapOK' /\ PromiseOK'
<1>1. Twins' = Twins
  BY DEF Twins
<1>2. AskedOK' /\ UntilOK' /\ FoundOK'
  BY DEF More, AskedOK, UntilOK, FoundOK, Fetching
<1>3. LeftGapOK'
  BY <1>1 DEF More, LeftGapOK, Whole
<1>4. PromiseOK'
  BY <1>1 DEF More, PromiseOK, Whole, Fetching
<1> QED
  BY <1>2, <1>3, <1>4

(* A block is read: nothing is written.                                      *)
LEMMA BlockMore == ASSUME Inv, More, CopyBlock PROVE More'
<1>1. /\ pc = "copying" /\ pc' = pc /\ log' = log /\ torn' = torn /\ asked' = asked
      /\ tf' = tf /\ file' = file
  BY DEF CopyBlock, world, run
<1>2. Left' = Left
  BY BlockLeft
<1>3. Got' = Got
  BY <1>1, <1>2 DEF Got
<1>4. FileGapOK'
  BY <1>1 DEF More, FileGapOK, Whole, Twins
<1>5. AskedOK' /\ UntilOK' /\ FoundOK' /\ LeftGapOK' /\ PromiseOK'
  BY <1>1, <1>2, <1>3, CopyMore
<1> QED
  BY <1>4, <1>5 DEF More

(* A record is written: those between it and the oldest in the output are in *)
(* the output, as they are not left.                                         *)
LEMMA LineMore == ASSUME Inv, More, CopyLine PROVE More'
<1>1. /\ pc = "copying" /\ pc' = pc /\ log' = log /\ torn' = torn /\ asked' = asked
      /\ tf' = tf
  BY DEF CopyLine, world, run
<1>2. PICK id, rest :
        /\ Ids(tf, Left) = rest \cup {id} /\ Ids(tf, Left') = rest /\ \A x \in rest : id < x
        /\ Ids(file', Len(file')) = Ids(file, Len(file)) \cup {id} /\ LastId(file') = id
  <2>1. PICK id, left \in Nat :
          /\ left = Left'
          /\ Ids(tf, Left) = Ids(tf, left) \cup {id} /\ AllAbove(tf, left, id)
          /\ FileGrown(file, file', Len(file), id, log)
    BY RecordMoves
  <2> QED
    BY <2>1, <1>1 DEF AllAbove, FileGrown
<1>3. Got' = Got
  BY <1>1, <1>2 DEF Got
<1>4. AskedOK' /\ UntilOK' /\ FoundOK' /\ LeftGapOK' /\ PromiseOK'
  BY <1>1, <1>2, <1>3, CopyMore
<1>5. FileGapOK'
  <2>1. ASSUME Whole', NEW x \in 1..Len(log), log[x].day > 0, x <= id,
               NEW other \in Ids(file', Len(file')), other < x
        PROVE  x \in Ids(file', Len(file'))
    <3>1. Whole
      BY <2>1, <1>1 DEF Whole, Twins
    <3>2. Got \subseteq 1..Len(log) /\ Len(log) \in Nat
      BY GotLogged
    <3>3. id \in Got /\ id \in Nat /\ x \in Nat /\ other \in Got /\ other \in Nat
      BY <3>2, <1>1, <1>2, <2>1 DEF Got
    <3>4. id \in Ids(tf, Left)
      BY <1>2
    <3>5. NoGap(Got, id, log)
      BY <3>1, <3>4, <1>1 DEF More, LeftGapOK
    <3>6. x \in Got
      BY <3>3, <3>5, <2>1 DEF NoGap
    <3>7. x \notin rest
      BY <3>3, <2>1, <1>2
    <3> QED
      BY <3>6, <3>7, <1>1, <1>2 DEF Got
  <2> QED
    BY <2>1, <1>1, <1>2 DEF FileGapOK, NoGap
<1> QED
  BY <1>4, <1>5 DEF More

(* A request is logged: it is newer than all that was asked for, found or    *)
(* written.                                                                  *)
LEMMA LoggedMore == ASSUME Inv, More, Logged PROVE More'
<1>1. PICK r : log' = Append(log, r)
  BY DEF Logged
<1>2. /\ pc' = pc /\ file' = file /\ tf' = tf /\ torn' = torn /\ asked' = asked
      /\ dates' = dates /\ until' = until /\ at' = at /\ offset' = offset
      /\ spill' = spill /\ block' = block
  BY DEF Logged, run, page, copy
<1>3. PICK n \in Nat : n = Len(log)
  BY DEF Inv, TypeOK
<1>4. Len(log') = n + 1 /\ \A id \in 1..n : log'[id] = log[id]
  BY <1>1, <1>3 DEF Inv, TypeOK
<1>5. /\ Ids(file, Len(file)) \subseteq 1..n /\ Ids(tf, Len(tf)) \subseteq 1..n
      /\ pc = "copying" => Ids(tf, Left) \subseteq 1..n
      /\ Got \subseteq 1..n
  BY <1>3, GotLogged
<1>6. Left' = Left /\ Got' = Got
  BY <1>2 DEF Got, Left
<1>7. Whole' => Whole
  BY <1>2, TwinsStay DEF Whole
<1>8. AskedOK'
  BY <1>2, <1>3, <1>4 DEF More, AskedOK, Fetching, Inv, TypeOK, Asked
<1>9. at \in Nat /\ at <= n /\ asked.had \in Nat /\ asked.had <= n
  BY <1>3 DEF Inv, TypeOK, Places, More, AskedOK, Asked
<1>10. UntilOK'
  <2>1. DaysBelow(at, asked.end, log) => DaysBelow(at, asked.end, log')
    BY <1>4, <1>9 DEF DaysBelow
  <2> QED
    BY <2>1, <1>2 DEF More, UntilOK, Fetching, Started
<1>11. FoundOK'
  <2>1. ASSUME Fetching, Started, NEW id \in 1..(n + 1), id > at, log'[id].day > 0
        PROVE  Found(id, Ids(tf, Len(tf)), asked, log')
    <3>1. CASE id \in 1..n
      <4>1. Found(id, Ids(tf, Len(tf)), asked, log)
        BY <2>1, <3>1, <1>3, <1>4 DEF More, FoundOK
      <4> QED
        BY <4>1, <3>1, <1>4 DEF Found
    <3>2. CASE id = n + 1
      <4>1. id > asked.had /\ \A other \in Ids(tf, Len(tf)) : other < id
        BY <3>2, <1>5, <1>9
      <4> QED
        BY <4>1 DEF Found
    <3> QED
      BY <3>1, <3>2
  <2> QED
    BY <2>1, <1>2, <1>4 DEF FoundOK, Fetching, Started
<1>12. ASSUME NEW S, S \subseteq 1..n, NEW top \in 1..n, NoGap(S, top, log)
       PROVE  NoGap(S, top, log')
  <2> SUFFICES ASSUME NEW id \in 1..Len(log'), log'[id].day > 0, id <= top,
                      \E other \in S : other < id
               PROVE  id \in S
    BY DEF NoGap
  <2>1. id \in 1..n
    BY <1>4
  <2> QED
    BY <2>1, <1>3, <1>4, <1>12 DEF NoGap
<1>13. FileGapOK'
  <2>1. ASSUME Whole, file # <<>>
        PROVE  NoGap(Ids(file, Len(file)), LastId(file), log')
    <3>1. PICK m \in Nat \ {0} : m = Len(file)
      BY <2>1, EmptySeq DEF Inv, TypeOK
    <3>2. LastId(file) \in 1..n
      BY <3>1, <1>3, LastLines DEF Inv, TypeOK, FileOK
    <3> QED
      BY <3>2, <2>1, <1>5, <1>12 DEF More, FileGapOK
  <2> QED
    BY <2>1, <1>2, <1>7 DEF FileGapOK
<1>14. LeftGapOK'
  BY <1>2, <1>5, <1>6, <1>7, <1>12 DEF More, LeftGapOK
<1>15. PromiseOK'
  <2>1. ASSUME NEW id \in 1..asked.had, Covered(id, Got, asked, log)
        PROVE  Covered(id, Got, asked, log')
    <3>1. CASE \E other \in 1..n : log[other].day > asked.end
      <4>1. \E other \in 1..Len(log') : log'[other].day > asked.end
        <5>1. PICK other \in 1..n : log[other].day > asked.end
          BY <3>1
        <5>2. other \in 1..Len(log') /\ log'[other].day > asked.end
          BY <5>1, <1>4
        <5> QED
          BY <5>2
      <4> QED
        BY <4>1, <2>1 DEF Covered
    <3>2. CASE ~ \E other \in 1..n : log[other].day > asked.end
      BY <3>2, <2>1, <1>3 DEF Covered
    <3> QED
      BY <3>1, <3>2
  <2>2. ASSUME Promised(Got, asked, log) PROVE Promised(Got, asked, log')
    <3> SUFFICES ASSUME NEW id \in 1..asked.had, log'[id].day > 0,
                        log'[id].day \in asked.first..asked.end
                 PROVE  Covered(id, Got, asked, log')
      BY DEF Promised
    <3>1. log'[id] = log[id]
      BY <1>4, <1>9
    <3> QED
      BY <3>1, <2>1, <2>2 DEF Promised
  <2> QED
    BY <2>2, <1>2, <1>6, <1>7 DEF More, PromiseOK, Fetching
<1> QED
  BY <1>8, <1>10, <1>11, <1>13, <1>14, <1>15 DEF More

(* Nothing that matters here changes.                                        *)
LEMMA SameMore ==
  ASSUME More, UNCHANGED <<log, file, tf, torn, asked, dates, until, at, spill, block>>,
         Fetching' <=> Fetching, Started' <=> Started, (pc' = "copying") <=> (pc = "copying")
  PROVE  More'
<1>1. Left' = Left /\ Got' = Got /\ Whole' = Whole
  BY DEF Left, Got, Whole, Twins
<1>2. AskedOK' /\ UntilOK' /\ FoundOK'
  BY DEF More, AskedOK, UntilOK, FoundOK
<1>3. FileGapOK' /\ LeftGapOK' /\ PromiseOK'
  BY <1>1 DEF More, FileGapOK, LeftGapOK, PromiseOK
<1> QED
  BY <1>2, <1>3 DEF More

(* Every step keeps this part of the invariant too.                          *)
LEMMA MoreNext == ASSUME Inv, More, [Next]_vars PROVE More'
<1>1. ASSUME NEW append \in BOOLEAN, NEW end \in 1..today, NEW days \in 0..MaxSpan,
             days <= end, Begin(append, end, days)
      PROVE  More'
  BY <1>1, BeginMore
<1>2. CASE Answer
  BY <1>2, AnswerMore
<1>3. CASE SkipLine
  BY <1>3, SkipMore
<1>4. CASE KeepLine
  BY <1>4, KeepMore
<1>5. CASE StopAtSentinel \/ StopAtDate \/ Interrupt
  <2>1. Opens
    BY <1>5 DEF Opens
  <2> QED
    BY <2>1, OpenMore
<1>6. CASE NextPage
  <2>1. CASE Open(FALSE)
    <3>1. Opens
      BY <1>6, <2>1 DEF Opens
    <3> QED
      BY <3>1, OpenMore
  <2>2. CASE /\ offset > 0 /\ pc' = "asking"
             /\ UNCHANGED <<world, dates, sentinel, runs, page, tf, copy>>
    <3>1. pc = "reading" /\ asked' = asked
      BY <1>6 DEF NextPage
    <3>2. Fetching /\ Fetching' /\ Started /\ Started' /\ pc' # "copying" /\ pc # "copying"
      BY <2>2, <3>1 DEF Fetching, Started, page
    <3> QED
      BY <2>2, <3>1, <3>2, SameMore DEF world, page, copy
  <2> QED
    BY <1>6, <2>1, <2>2 DEF NextPage
<1>7. CASE Fails \/ Copied \/ InterruptCopy
  BY <1>7, OverMore
<1>8. CASE CopyBlock
  BY <1>8, BlockMore
<1>9. CASE CopyLine
  BY <1>9, LineMore
<1>10. CASE Logged
  BY <1>10, LoggedMore
<1>11. CASE Midnight
  BY <1>11, SameMore DEF Midnight, run, page, copy, Fetching, Started
<1>12. CASE UNCHANGED vars
  BY <1>12, SameMore DEF vars, Fetching, Started
<1> QED
  BY <1>1, <1>2, <1>3, <1>4, <1>5, <1>6, <1>7, <1>8, <1>9, <1>10, <1>11, <1>12 DEF Next

(* It holds before the first run.                                            *)
LEMMA MoreInit == ASSUME Init PROVE More
<1>1. /\ log = <<>> /\ file = <<>> /\ pc = "idle" /\ asked.whole = FALSE /\ asked.had = 0
      /\ Len(log) = 0
  BY DEF Init
<1> QED
  BY <1>1 DEF More, AskedOK, UntilOK, FoundOK, FileGapOK, LeftGapOK, PromiseOK, Fetching

(* appcfg.py:1187: after a run that went through, every record of the days   *)
(* it was to get is in the output, or is before what it was appended to:     *)
(* NothingMissing, with the exceptions that it names.                        *)
THEOREM AllFetched == Spec => []NothingMissing
<1>1. Inv /\ More => NothingMissing
  <2> SUFFICES ASSUME Inv, More, pc = "idle", asked.whole, ~torn, ~Twins,
                      NEW id \in 1..asked.had, Dated(id), log[id].day \in asked.first..asked.end
               PROVE  \/ id \in Records
                      \/ asked.append /\ Records # {} /\ \A other \in Records : id < other
                      \/ asked.late /\ \E other \in DOMAIN log : log[other].day > asked.end
    BY DEF NothingMissing
  <2>1. PICK n \in Nat : n = Len(file) /\ DOMAIN file = 1..n
    BY DEF Inv, TypeOK
  <2>2. Records = Ids(file, n)
    <3>1. ASSUME NEW i \in 1..n PROVE file[i][1] # 0
      <4>1. file[i][1] \in Ids(file, n)
        BY <2>1, LineIds DEF Inv, TypeOK, FileOK
      <4> QED
        BY <4>1 DEF Ids
    <3> QED
      BY <3>1, <2>1 DEF Records, Ids
  <2>3. Got = Ids(file, n)
    BY <2>1 DEF Got
  <2>4. DOMAIN log = 1..Len(log)
    BY DEF Inv, TypeOK
  <2>5. Covered(id, Got, asked, log)
    BY DEF More, PromiseOK, Whole, Fetching, Promised, Dated
  <2> QED
    BY <2>2, <2>3, <2>4, <2>5 DEF Covered
<1>2. Init => Inv /\ More
  BY InvInit, MoreInit
<1>3. Inv /\ More /\ [Next]_vars => (Inv /\ More)'
  BY InvNext, MoreNext
<1> QED
  BY <1>1, <1>2, <1>3, PTL DEF Spec
=============================================================================

------------------------------ MODULE AppLogs ------------------------------
(***************************************************************************)
(* appcfg request_logs (google/appengine/tools/appcfg.py): LogsRequester   *)
(* asks the server for pages of request logs, newest first, into a         *)
(* temporary file, and CopyReversedLines copies that to the output, oldest *)
(* first, a block of bytes at a time from its end.  With --append the last *)
(* line of the output tells where to stop.  Run after run, while the       *)
(* server's log grows and days pass, and Ctrl-C comes between any two      *)
(* lines of a page or blocks of the copy.                                  *)
(*                                                                         *)
(* What a record says is abstracted to a text, how many application log    *)
(* lines belong to it and its day; the temporary file to characters, one   *)
(* for each of its parts, for blocks to end anywhere.  The server is       *)
(* external: a page goes on where the offset says, and is empty only when  *)
(* nothing is left.                                                        *)
(***************************************************************************)
EXTENDS Naturals, Sequences, FiniteSetsExt

CONSTANTS
  Limit,      \* records in a page, at most
  BlockSize,  \* characters in a block of the temporary file
  FindBlock,  \* lines in the last block of the output, where the sentinel is sought
  MaxRecords, \* bound: records of the server
  MaxSubs,    \* bound: application log lines of a record
  MaxDay,     \* bound: days
  MaxSpan,    \* bound: num_days
  MaxRuns     \* bound: runs of appcfg

ASSUME SizesAssumption == Limit \in Nat \ {0} /\ BlockSize \in Nat \ {0} /\ FindBlock \in Nat
ASSUME BoundsAssumption ==
  /\ MaxRecords \in Nat /\ MaxSubs \in Nat /\ MaxDay \in Nat \ {0} /\ MaxSpan \in Nat
  /\ MaxRuns \in Nat

VARIABLES
  log,      \* the server's records, oldest first
  today,    \* the day
  file,     \* the output: lines <<record, part>>, part 0 the first
  pc,       \* idle, asking, reading (an answer's lines) or copying
  dates,    \* valid_dates, first and last
  until,    \* skip_until, 0 for False
  sentinel, \* text of the sentinel, 0 for None
  at,       \* the record of the next line; those from it down to offset + 1 are
            \* the lines that are left of the answer
  offset,   \* the record the next page starts with, 0 for None
  tf,       \* characters of the temporary file
  block,    \* iblock
  spill,    \* lines of the block, and spillover
  runs,     \* runs begun
  asked,    \* history: the options of this run, and what log there was
  doubled,  \* history: records were appended without a sentinel, or none in reach
  torn      \* history: an append ended before it came to the sentinel

vars == <<log, today, file, pc, dates, until, sentinel, at, offset, tf, block, spill,
          runs, asked, doubled, torn>>
run == <<dates, sentinel, asked, runs>>
page == <<at, offset, until>>
copy == <<file, block, spill, doubled, torn>>
world == <<log, today>>

(* -------------------------------- the files ----------------------------- *)

NewLine == <<0, 0>>
\* A record's line: the parts behind the first stand for a null byte and an
\* application log line each.
Chars(id) == [i \in 1..(log[id].subs + 2) |->
                IF i = log[id].subs + 2 THEN NewLine ELSE <<id, i - 1>>]

\* Where the last of splitlines(True) starts.
LastLine(text) == Max({0} \cup {i \in 1..(Len(text) - 1) : text[i] = NewLine}) + 1

\* FindSentinel: the last line that starts with no tab, of those in the last block,
\* the first of which is left out.
FindSentinel ==
  LET heads == {i \in DOMAIN file : /\ file[i][2] = 0
                                    /\ i > 1 /\ i + FindBlock > Len(file) + 1}
  IN IF heads = {} THEN 0 ELSE log[file[Max(heads)][1]].text

(* ------------------------------- the requests --------------------------- *)

Init ==
  /\ log = <<>> /\ today = 1 /\ file = <<>> /\ pc = "idle"
  /\ dates = <<1, 1>> /\ until = 0 /\ sentinel = 0 /\ at = 0 /\ offset = 0
  /\ tf = <<>> /\ block = 0 /\ spill = <<>> /\ runs = 0
  /\ asked = [append |-> FALSE, late |-> FALSE, first |-> 1, end |-> 0, had |-> 0, whole |-> FALSE]
  /\ doubled = FALSE /\ torn = FALSE

\* RequestLogs and LogsRequester.__init__; "days" is num_days, 0 for all.
Begin(append, end, days) ==
  /\ pc = "idle" /\ runs < MaxRuns
  /\ pc' = "asking" /\ runs' = runs + 1
  /\ sentinel' = IF append THEN FindSentinel ELSE 0
  /\ until' = IF end < today THEN end ELSE 0
  /\ dates' = IF days = 0 THEN <<1, MaxDay>> ELSE <<(end + 1) - days, end>>
  /\ asked' = [append |-> append, late |-> end = today /\ days > 0, first |-> dates'[1], end |-> end,
               had |-> Len(log), whole |-> TRUE]
  /\ UNCHANGED <<world, at, offset, tf, copy>>

\* A request is answered with a page of n records, newest first.  The server gives
\* an offset while records are left.
Answer ==
  LET first == IF offset = 0 THEN Len(log) ELSE offset
  IN /\ pc = "asking" /\ pc' = "reading" /\ at' = first
     /\ \E n \in 0..Limit :
          n <= first /\ (first > 0 => n > 0) /\ offset' = first - n
  /\ UNCHANGED <<world, run, until, tf, copy>>

\* RequestLogLines: what becomes of a line.
Dated(id) == log[id].day > 0
IsSentinel(id) == sentinel # 0 /\ log[id].text = sentinel
\* Variant: a line without a date is not passed over.
SkippedIfLate(id) == until # 0 /\ log[id].day > until
Skipped(id) == ~Dated(id) \/ (until # 0 /\ log[id].day > until)
InDates(id) == log[id].day \in dates[1]..dates[2]

Reading == pc = "reading" /\ at > offset

SkipLine ==
  /\ Reading /\ ~IsSentinel(at) /\ Skipped(at)
  /\ at' = at - 1
  /\ UNCHANGED <<world, run, pc, until, offset, tf, copy>>

KeepLine ==
  /\ Reading /\ ~IsSentinel(at) /\ ~Skipped(at) /\ InDates(at)
  /\ tf' = tf \o Chars(at) /\ at' = at - 1 /\ until' = 0
  /\ UNCHANGED <<world, run, pc, offset, copy>>

\* What only the requests need is forgotten after them.
Forget == dates' = <<1, 1>> /\ until' = 0 /\ sentinel' = 0 /\ at' = 0 /\ offset' = 0

\* DownloadLogs: the output is opened, and emptied unless it is appended to; "early"
\* says that the run has not come to the sentinel.
Open(early) ==
  /\ pc' = "copying" /\ block' = Len(tf) \div BlockSize + 2 /\ spill' = <<>>
  /\ file' = IF asked.append THEN file ELSE <<>>
  /\ doubled' = (asked.append /\ (doubled \/ (sentinel = 0 /\ file # <<>>)))
  /\ torn' = (asked.append /\ (torn \/ early))
  /\ Forget /\ UNCHANGED <<world, runs, tf>>

StopAtSentinel == Reading /\ IsSentinel(at) /\ Open(FALSE) /\ UNCHANGED asked

StopAtDate ==
  /\ Reading /\ ~IsSentinel(at) /\ ~Skipped(at) /\ ~InDates(at)
  /\ Open(TRUE) /\ UNCHANGED asked

\* The lines are read: the next request, or the end.
NextPage ==
  /\ pc = "reading" /\ at = offset
  /\ \/ offset = 0 /\ Open(FALSE)
     \/ offset > 0 /\ pc' = "asking" /\ UNCHANGED <<world, dates, sentinel, runs, page, tf, copy>>
  /\ UNCHANGED asked

\* Ctrl-C while asking or reading: what has come so far is saved.
Interrupt ==
  /\ pc \in {"asking", "reading"} /\ Open(TRUE)
  /\ asked' = [asked EXCEPT !.whole = FALSE]

\* The run is over: the requester and the temporary file are gone.
Over ==
  /\ pc' = "idle" /\ tf' = <<>> /\ block' = 0 /\ spill' = <<>>
  /\ Forget /\ UNCHANGED <<world, file, runs, doubled, torn>>

\* The request fails and the exception ends the run; the output is not opened yet.
Fails ==
  /\ pc = "asking" /\ Over
  /\ asked' = [asked EXCEPT !.whole = FALSE]

(* ------------------------------ the reverse copy ------------------------ *)

Ended(text) ==
  IF text = <<>> \/ text[Len(text)] = NewLine THEN text ELSE Append(text, NewLine)
\* Variant: a line over the end of a block is not put together.
Apart(data, rest) == Ended(data) \o rest
\* The last line of a block goes on in what is left of the block behind it.
Joined(data, rest) == Ended(data \o rest)

\* Of all but the first block the first line may begin in the block before, and is
\* left for it.
HasLine == spill # <<>> /\ (block = 0 \/ LastLine(spill) > 1)

\* CopyReversedLines, a block is read.
CopyBlock ==
  /\ pc = "copying" /\ ~HasLine /\ block > 0
  /\ LET start == (block - 1) * BlockSize
         end == IF start + BlockSize < Len(tf) THEN start + BlockSize ELSE Len(tf)
     IN spill' = Joined(SubSeq(tf, start + 1, end), spill)
  /\ block' = block - 1
  /\ UNCHANGED <<world, run, pc, page, tf, file, doubled, torn>>

\* Its lines are written, the last one first.  A null byte becomes a line that
\* starts with a tab: every character but the line break is a line of the output.
\* They are one write, and nothing comes between them.
CopyLine ==
  /\ pc = "copying" /\ HasLine
  /\ file' = file \o SubSeq(spill, LastLine(spill), Len(spill) - 1)
  /\ spill' = SubSeq(spill, 1, LastLine(spill) - 1)
  /\ UNCHANGED <<world, run, pc, page, tf, block, doubled, torn>>

Copied == pc = "copying" /\ ~HasLine /\ block = 0 /\ Over /\ UNCHANGED asked

\* Ctrl-C again, while copying: the file is closed as it is.
InterruptCopy ==
  /\ pc = "copying" /\ ~HasLine /\ Over
  /\ asked' = [asked EXCEPT !.whole = FALSE]

(* -------------------------------- the world ----------------------------- *)

\* A request is logged: its text is new or the same as the one before.  A line
\* whose date cannot be read has day 0.
Logged ==
  /\ Len(log) < MaxRecords
  /\ \E subs \in 0..MaxSubs, day \in {0, today}, twin \in BOOLEAN :
       /\ twin => log # <<>>
       /\ log' = Append(log, [text |-> IF twin THEN log[Len(log)].text ELSE Len(log) + 1,
                              subs |-> subs, day |-> day])
  /\ UNCHANGED <<today, run, pc, page, tf, copy>>

Midnight ==
  /\ today < MaxDay /\ today' = today + 1
  /\ UNCHANGED <<log, run, pc, page, tf, copy>>

Next ==
  \/ \E append \in BOOLEAN, end \in 1..today, days \in 0..MaxSpan :
       days <= end /\ Begin(append, end, days)
  \/ Answer \/ SkipLine \/ KeepLine \/ StopAtSentinel \/ StopAtDate \/ NextPage
  \/ Interrupt \/ Fails
  \/ CopyBlock \/ CopyLine \/ Copied \/ InterruptCopy
  \/ Logged \/ Midnight
  \/ pc = "idle" /\ runs = MaxRuns /\ UNCHANGED vars

Spec == Init /\ [][Next]_vars

(* ------------------------------- properties ----------------------------- *)

\* appcfg.py:1375: the lines of the output are those of the records in it, oldest
\* first, each record whole and once: after any runs, interrupted or not.  Said of
\* neighbours: a record starts with its part 0, goes on with the next part up to its
\* last, and a newer one follows.  Except that "Append mode disabled" only disables
\* the search for a place to go on: what is in the output already is appended again.
Follows(line, next) ==
  IF line[2] < log[line[1]].subs THEN next = <<line[1], line[2] + 1>>
                                 ELSE next[2] = 0 /\ line[1] < next[1]
OnceInOrder ==
  ~doubled /\ file # <<>> =>
    /\ file[1][2] = 0
    /\ \A i \in 1..(Len(file) - 1) : Follows(file[i], file[i + 1])
    /\ file[Len(file)][2] = log[file[Len(file)][1]].subs

Records == {file[i][1] : i \in DOMAIN file}
Twins == \E i, j \in DOMAIN log : i # j /\ log[i].text = log[j].text

\* appcfg.py:1187: after a run that went through, every record that there was when
\* it began, of the days it was to get, is in the output, or was before what an
\* append goes on from.  Except after an append that was interrupted, or ended at a
\* date, which leaves a gap that no later one closes; where a record has the text of
\* the sentinel; and where the first page begins with a record of the next day.
NothingMissing ==
  pc = "idle" /\ asked.whole /\ ~torn /\ ~Twins =>
    \A id \in 1..asked.had :
      Dated(id) /\ log[id].day \in asked.first..asked.end =>
        \/ id \in Records
        \/ asked.append /\ Records # {} /\ \A other \in Records : id < other
        \/ asked.late /\ \E other \in DOMAIN log : log[other].day > asked.end
=============================================================================

----------------------------- MODULE LogViewer -----------------------------
(***************************************************************************)
(* The audit log and its viewer. Clients and their chat windows open one   *)
(* file and append lines to it; the viewer reads the file once, keeps the  *)
(* lines in a linked list and filters the list by time. A line is its time *)
(* stamp and the process that wrote it.                                    *)
(***************************************************************************)
EXTENDS Integers, FiniteSets, SequencesExt

CONSTANTS Writer,    \* processes with the file open
          Instant,   \* <<year, month, day, hour, minute>> of the clock
          NoStamp,
          NoList,
          MaxLines   \* bound: lines in the file

VARIABLES clock,     \* the instant time() returns
          opened,    \* the processes that have the file open
          stamp,     \* the stamp of the line a process is about to write
          file,      \* the lines in the file
          logList    \* the viewer's list, NoList while it is not running

vars == <<clock, opened, stamp, file, logList>>

-----------------------------------------------------------------------------
(* Time stamps.                                                            *)

\* The order of tuples, position by position. strncmp orders the text of
\* stamps like this, for every field has a fixed width.
Before(s, t) ==
  \E i \in DOMAIN s \cap DOMAIN t :
    s[i] < t[i] /\ \A j \in 1 .. i - 1 : s[j] = t[j]

\* getTimeStamp: strftime with "%D-%I:%M%p", that is
\* <<month, day, year, hour of twelve, minute, 0 for AM and 1 for PM>>.
GetTimeStamp(instant) ==
  LET hour == instant[4]
  IN  <<instant[2], instant[3], instant[1],
        IF hour % 12 = 0 THEN 12 ELSE hour % 12, instant[5], hour \div 12>>

\* What the user types as a bound: a date, or a whole stamp.
Date(s) == SubSeq(s, 1, 3)
Bounds == LET stamps == {GetTimeStamp(t) : t \in Instant}
          IN  stamps \cup {Date(s) : s \in stamps}

-----------------------------------------------------------------------------
(* The viewer's list: its nodes are numbered in the order of malloc.       *)

EmptyList == [head |-> 0, tail |-> 0, count |-> 0, next |-> <<>>, line |-> <<>>]

InsertLogInfo(list, line) ==
  LET node == Len(list.next) + 1
      next == Append(list.next, 0)
  IN  [head  |-> IF list.count = 0 THEN node ELSE list.head,
       tail  |-> node,
       count |-> list.count + 1,
       next  |-> IF list.count = 0 THEN next ELSE [next EXCEPT ![list.tail] = node],
       line  |-> Append(list.line, line)]

ParseFile(lines) ==
  LET list[i \in 0 .. Len(lines)] ==
        IF i = 0 THEN EmptyList ELSE InsertLogInfo(list[i - 1], lines[i])
  IN  list[Len(lines)]

\* The lines a loop over the list comes to: count steps from the head on.
PrintEntireLogInfo(list) ==
  LET node[i \in 1 .. list.count] ==
        IF i = 1 THEN list.head ELSE list.next[node[i - 1]]
  IN  [i \in 1 .. list.count |-> list.line[node[i]]]

\* strncmp over the length of the bound says start <= line, and end >= line.
Within(start, end, line) == ~Before(line.stamp, start) /\ ~Before(end, line.stamp)

\* Mutant: the loop ends at the first line past the end, as if the lines were
\* in the order of their stamps.
FilterSorted(list, start, end) ==
  LET lines == PrintEntireLogInfo(list)
      past  == {i \in DOMAIN lines : Before(end, lines[i].stamp)}
      stop  == IF past = {} THEN Len(lines) ELSE Min(past) - 1
  IN  SelectSeq(SubSeq(lines, 1, stop), LAMBDA line : Within(start, end, line))

FilterLogByTime(list, start, end) ==
  LET lines == PrintEntireLogInfo(list)
      shown[i \in 0 .. Len(lines)] ==   \* what the first i steps of the loop print
        IF i = 0 THEN <<>>
        ELSE IF Within(start, end, lines[i]) THEN Append(shown[i - 1], lines[i])
        ELSE shown[i - 1]
  IN  shown[Len(lines)]

-----------------------------------------------------------------------------
Init ==
  /\ clock \in Instant
  /\ opened = {}
  /\ stamp = [w \in Writer |-> NoStamp]
  /\ file = <<>>
  /\ logList = NoList

Tick ==
  /\ clock' \in {t \in Instant : Before(clock, t)}
  /\ UNCHANGED <<opened, stamp, file, logList>>

\* The client opens the file with O_CREAT and O_APPEND.
Open(w) ==
  /\ w \notin opened
  /\ opened' = opened \cup {w}
  /\ UNCHANGED <<clock, stamp, file, logList>>

\* print...Log takes the stamp first ...
TakeStamp(w) ==
  /\ w \in opened
  /\ stamp[w] = NoStamp
  /\ Len(file) < MaxLines
  /\ stamp' = [stamp EXCEPT ![w] = GetTimeStamp(clock)]
  /\ UNCHANGED <<clock, opened, file, logList>>

\* ... and appends the whole line under the lock of the file.
WriteLine(w) ==
  /\ stamp[w] # NoStamp
  /\ file' = Append(file, [stamp |-> stamp[w], writer |-> w])
  /\ stamp' = [stamp EXCEPT ![w] = NoStamp]
  /\ UNCHANGED <<clock, opened, logList>>

\* The process ends.
Close(w) ==
  /\ w \in opened
  /\ stamp[w] = NoStamp
  /\ opened' = opened \ {w}
  /\ UNCHANGED <<clock, stamp, file, logList>>

\* The viewer starts and reads the file to its end.
StartViewer ==
  /\ logList = NoList
  /\ logList' = ParseFile(file)
  /\ UNCHANGED <<clock, opened, stamp, file>>

\* Option 5.
ExitViewer ==
  /\ logList # NoList
  /\ logList' = NoList
  /\ UNCHANGED <<clock, opened, stamp, file>>

Next ==
  \/ Tick \/ StartViewer \/ ExitViewer
  \/ \E w \in Writer : Open(w) \/ TakeStamp(w) \/ WriteLine(w) \/ Close(w)

-----------------------------------------------------------------------------
\* The instant of a stamp, whole or a date.
InstantOf(s) ==
  LET date == <<s[3], s[1], s[2]>>
  IN  IF Len(s) = 3 THEN date ELSE date \o <<(s[4] % 12) + 12 * s[6], s[5]>>

\* The comparison of the texts is the comparison of the instants: the years
\* agree and so do the days, the halves of the day and whether it is the hour
\* of twelve, as far as the comparison gets to them.
Comparable(bound, s) ==
  /\ bound[3] = s[3]
  /\ Len(bound) > 3 /\ Date(bound) = Date(s) =>
       /\ bound[6] = s[6]
       /\ (bound[4] = 12) <=> (s[4] = 12)

(* Of the lines the file had when it was read, the filter shows exactly    *)
(* those stamped between the bounds, as long as both bounds can be compared *)
(* with the line: although the lines of several processes are not in the   *)
(* order of their stamps, stamps are compared as text, and the file grows  *)
(* in the meantime (parseFile, insertLogInfo, filterLogByTime).            *)
FilterIsInterval ==
  logList # NoList =>
    \A start, end \in Bounds :
      LET shown == ToSet(FilterLogByTime(logList, start, end))
      IN  \A line \in ToSet(SubSeq(file, 1, logList.count)) :
            Comparable(start, line.stamp) /\ Comparable(end, line.stamp) =>
              ( line \in shown <=>
                  /\ ~Before(InstantOf(line.stamp), InstantOf(start))
                  /\ ~Before(InstantOf(end), InstantOf(line.stamp)) )
=============================================================================

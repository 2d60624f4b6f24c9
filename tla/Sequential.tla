----------------------------- MODULE Sequential -----------------------------
(***************************************************************************)
(* The parts that are algorithms on data: the set of reserved names, and   *)
(* the audit log with its viewer. They share nothing, so the log starts    *)
(* only in the states where no name is reserved.                           *)
(***************************************************************************)
EXTENDS NameSetOps

CONSTANTS Writer, Instant, NoStamp, NoList, MaxLines

\* Years have two digits; months, days, hours and minutes are those of strftime.
ASSUME InstantAssumption ==
  Instant \subseteq (0 .. 99) \X (1 .. 12) \X (1 .. 31) \X (0 .. 23) \X (0 .. 59)

VARIABLES clock, opened, stamp, file, logList

Logs == INSTANCE LogViewer

logs == <<clock, opened, stamp, file, logList>>

LogIdle == file = <<>> /\ opened = {} /\ logList = NoList

SequentialInit == Init /\ Logs!Init

SequentialNext ==
  \/ Next /\ LogIdle /\ UNCHANGED logs
  \/ Logs!Next /\ nameSet = <<>> /\ UNCHANGED nameSet

SequentialSpec == SequentialInit /\ [][SequentialNext]_<<nameSet, logs>>

-----------------------------------------------------------------------------
(* See FilterIsInterval of LogViewer (filterLogByTime).                    *)
FilterIsInterval == Logs!FilterIsInterval
=============================================================================

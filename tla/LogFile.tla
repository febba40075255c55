------------------------------ MODULE LogFile ------------------------------
(***************************************************************************)
(* The file side of the log thread (Log/PlatformLog.cpp, Update and the    *)
(* fclose calls of WorkThread; Log/PlatformLogCtx.cpp, PrintFile): which   *)
(* file each log line goes to.                                             *)
(*                                                                         *)
(* Time is a number of half hours since the epoch, the finest grain that   *)
(* an hour and a time zone of whole half hours tell apart.  Update decides *)
(* to reopen on the UTC hour (the duration since the epoch cast to hours)  *)
(* and names the file after the local hour (tm_hour), so the two are kept  *)
(* apart: Offset is what localtime adds in each UTC hour, summer time      *)
(* included (a zone that changes in the middle of a UTC hour is left out). *)
(* A file is identified by the local hour in its name.                     *)
(***************************************************************************)
EXTENDS Integers, Sequences

CONSTANTS Offset,      \* local time minus UTC in each UTC hour, in half hours
          Logs,        \* the log contexts the thread may be given
          MaxWritten   \* bound: lines on disk at which the model stops

UtcHour(t)   == t \div 2
LocalTime(t) == t + Offset[UtcHour(t)]
LocalHour(t) == LocalTime(t) \div 2

ASSUME LogFileAssumption ==
  /\ Logs \subseteq [id : Nat, time : Nat]
  /\ \A log \in Logs :
       Offset[UtcHour(log.time)] \in Int /\ LocalTime(log.time) \in Nat
  /\ MaxWritten \in Nat

VARIABLES logHours,    \* _logHours: the UTC hour the open file was chosen for
          fp,          \* _fp: the open file, or NoFile
          written      \* the lines on disk, oldest first: [log, file]

vars == <<logHours, fp, written>>

NoFile == -1

-----------------------------------------------------------------------------
Init == /\ logHours = 0
        /\ fp = NoFile
        /\ written = <<>>

\* fclose(_fp) when it is open; _logHours keeps its value.
CloseFile == /\ fp' = NoFile
             /\ UNCHANGED <<logHours, written>>

\* A faulty variant: the hour is not looked at once a file is open.
KeepAnyFile(t) == /\ fp # NoFile
                  /\ UNCHANGED <<logHours, fp>>

\* A faulty variant: a log of an hour that is over goes to the file there is.
KeepNewerFile(t) == /\ fp # NoFile
                    /\ logHours >= UtcHour(t)
                    /\ UNCHANGED <<logHours, fp>>

\* Update, the condition of its one if is false.
KeepFile(t) == /\ fp # NoFile
               /\ logHours = UtcHour(t)
               /\ UNCHANGED <<logHours, fp>>

\* A faulty variant: the hour of the new file is not taken over.
ChangeFileNotHour(t) == /\ fp = NoFile \/ logHours # UtcHour(t)
                        /\ fp' \in {NoFile, LocalHour(t)}
                        /\ UNCHANGED logHours

\* Update, the condition holds: the hour is taken over before the directory
\* and the file are known to open, and either may fail.
ChangeFile(t) == /\ fp = NoFile \/ logHours # UtcHour(t)
                 /\ logHours' = UtcHour(t)
                 /\ fp' \in {NoFile, LocalHour(t)}

Update(log) == KeepFile(log.time) \/ ChangeFile(log.time)

\* A faulty variant: the line is written whether or not a file is open.
PrintAnyFile(log) == written' = Append(written, [log |-> log, file |-> fp'])

\* PrintFile on the file Update left open: without one the line is lost.
PrintFile(log) ==
  written' = IF fp' = NoFile THEN written
                             ELSE Append(written, [log |-> log, file |-> fp'])

\* One turn of the write loop of WorkThread.
WriteLog(log) == Update(log) /\ PrintFile(log)

Next == \/ CloseFile
        \/ \E log \in Logs : Len(written) < MaxWritten /\ WriteLog(log)

Spec == Init /\ [][Next]_vars

-----------------------------------------------------------------------------
Lines == [log : [id : Nat, time : Nat], file : Nat]

TypeOK == /\ logHours \in Nat
          /\ fp \in Nat \cup {NoFile}
          /\ written \in Seq(Lines)

(***************************************************************************)
(* Update never lets a line into a file of another hour, although _fp is   *)
(* closed and reopened by the clearing, opens may fail, and logs arrive    *)
(* with times that go back over the hour.  While local time is whole hours *)
(* from UTC the file's hour is exactly the line's local hour ...           *)
(***************************************************************************)
LogInItsHourFile ==
  \A i \in DOMAIN written :
    LET time == written[i].log.time IN
    Offset[UtcHour(time)] % 2 = 0 => written[i].file = LocalHour(time)

(***************************************************************************)
(* ... and while it is not, when the UTC hour changes in the middle of a   *)
(* local hour, a line may land in the file of the hour before or after its *)
(* own, but never further than half an hour off.                           *)
(***************************************************************************)
LogWithinHalfHourOfFile ==
  \A i \in DOMAIN written :
    LocalTime(written[i].log.time) \in
        2 * written[i].file - 1 .. 2 * written[i].file + 2

(***************************************************************************)
(* The open file was named by some log of the UTC hour in _logHours: what  *)
(* makes it sound for Update to keep the file by comparing hours alone.    *)
(***************************************************************************)
FileOfHour ==
  fp # NoFile => \E t \in {2 * logHours, 2 * logHours + 1} : fp = LocalHour(t)

FileInv == /\ TypeOK
           /\ FileOfHour
           /\ LogInItsHourFile
           /\ LogWithinHalfHourOfFile
=============================================================================

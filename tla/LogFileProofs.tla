--------------------------- MODULE LogFileProofs ---------------------------
(***************************************************************************)
(* Which file each log line goes to, for every time zone, every set of     *)
(* logs and any number of lines.                                           *)
(***************************************************************************)
EXTENDS LogFile, SequenceTheorems, TLAPS

LogTypes == [id : Nat, time : Nat]

\* The half hours of an hour are its double and the one after.
LEMMA HourOfHalfHours ==
  ASSUME NEW t \in Int
  PROVE  /\ t \div 2 \in Int
         /\ t \in {2 * (t \div 2), 2 * (t \div 2) + 1}
  OBVIOUS

\* The file chosen for one log of an hour, seen from another log of that hour.
LEMMA FileFitsHour ==
  ASSUME NEW t \in Nat, NEW t0 \in Nat, UtcHour(t) = UtcHour(t0),
         Offset[UtcHour(t)] \in Int
  PROVE  /\ LocalTime(t) \in 2 * LocalHour(t0) - 1 .. 2 * LocalHour(t0) + 2
         /\ Offset[UtcHour(t)] % 2 = 0 => LocalHour(t0) = LocalHour(t)
  BY HourOfHalfHours DEF UtcHour, LocalTime, LocalHour

\* Every conjunct of FileInv but the last two follows from these.
LEMMA FileInit ==
  ASSUME Init
  PROVE  FileInv
  BY LogFileAssumption, EmptySeq
     DEF Init, FileInv, TypeOK, FileOfHour, LogInItsHourFile,
         LogWithinHalfHourOfFile, NoFile

LEMMA FileClose ==
  ASSUME FileInv, CloseFile
  PROVE  FileInv'
  BY DEF CloseFile, FileInv, TypeOK, FileOfHour, LogInItsHourFile,
         LogWithinHalfHourOfFile, NoFile

\* What Update leaves open was named by a log of the hour of this log.
LEMMA UpdateOpens ==
  ASSUME FileInv, NEW log \in LogTypes, LocalTime(log.time) \in Nat,
         Offset[UtcHour(log.time)] \in Int, Update(log)
  PROVE  /\ logHours' \in Nat
         /\ fp' \in Nat \cup {NoFile}
         /\ logHours' = UtcHour(log.time)
         /\ FileOfHour'
<1>1. log.time \in Nat
  BY DEF LogTypes
<1>2. UtcHour(log.time) \in Nat /\ LocalHour(log.time) \in Nat
  BY <1>1 DEF UtcHour, LocalHour
<1>3. CASE KeepFile(log.time)
  BY <1>3 DEF KeepFile, FileInv, TypeOK, FileOfHour
<1>4. CASE ChangeFile(log.time)
  <2>1. log.time \in {2 * UtcHour(log.time), 2 * UtcHour(log.time) + 1}
    BY <1>1, HourOfHalfHours DEF UtcHour
  <2>2. FileOfHour'
    BY <1>4, <2>1 DEF ChangeFile, FileOfHour, LocalHour, LocalTime
  <2> QED
    BY <1>2, <1>4, <2>2 DEF ChangeFile
<1> QED
  BY <1>3, <1>4 DEF Update

LEMMA FileWrite ==
  ASSUME FileInv, NEW log \in LogTypes, LocalTime(log.time) \in Nat,
         Offset[UtcHour(log.time)] \in Int, WriteLog(log)
  PROVE  FileInv'
<1>1. /\ logHours' \in Nat
      /\ fp' \in Nat \cup {NoFile}
      /\ logHours' = UtcHour(log.time)
      /\ FileOfHour'
  BY UpdateOpens DEF WriteLog
<1>2. CASE fp' = NoFile
  BY <1>1, <1>2
     DEF WriteLog, PrintFile, FileInv, TypeOK, LogInItsHourFile,
         LogWithinHalfHourOfFile, LocalHour, LocalTime
<1>3. CASE fp' # NoFile
  <2> DEFINE line == [log |-> log, file |-> fp']
  <2>1. written' = Append(written, line)
    BY <1>3 DEF WriteLog, PrintFile
  <2>2. line \in Lines /\ written \in Seq(Lines)
    BY <1>1, <1>3 DEF Lines, LogTypes, FileInv, TypeOK
  <2>3. written' \in Seq(Lines) /\ Len(written') = Len(written) + 1
    BY <2>1, <2>2
  <2>4. ASSUME NEW i \in DOMAIN written'
        PROVE  \/ i \in DOMAIN written /\ written'[i] = written[i]
               \/ written'[i] = line
    BY <2>1, <2>2, <2>3
  <2>5. /\ LocalTime(log.time) \in 2 * fp' - 1 .. 2 * fp' + 2
        /\ Offset[UtcHour(log.time)] % 2 = 0 => fp' = LocalHour(log.time)
    <3>1. PICK t0 \in {2 * logHours', 2 * logHours' + 1} : fp' = LocalHour(t0)
      BY <1>1, <1>3 DEF FileOfHour, LocalHour, LocalTime
    <3>2. t0 \in Nat /\ UtcHour(t0) = UtcHour(log.time)
      BY <1>1, <3>1 DEF UtcHour
    <3> QED
      BY <3>1, <3>2, FileFitsHour DEF LogTypes
  <2>6. LogInItsHourFile'
    BY <2>4, <2>5 DEF FileInv, LogInItsHourFile, LocalHour, LocalTime
  <2>7. LogWithinHalfHourOfFile'
    BY <2>4, <2>5 DEF FileInv, LogWithinHalfHourOfFile, LocalTime
  <2> QED
    BY <1>1, <2>3, <2>6, <2>7 DEF FileInv, TypeOK
<1> QED
  BY <1>2, <1>3

(***************************************************************************)
(* The whole invariant of the log files holds throughout: Update compares  *)
(* UTC hours, names files by local ones, and the two still agree to within *)
(* half an hour.                                                           *)
(***************************************************************************)
THEOREM FileCorrect == Spec => []FileInv
<1>1. Init => FileInv
  BY FileInit
<1>2. FileInv /\ [Next]_vars => FileInv'
  <2> SUFFICES ASSUME FileInv, [Next]_vars
               PROVE  FileInv'
    OBVIOUS
  <2>1. CASE CloseFile
    BY <2>1, FileClose
  <2>2. ASSUME NEW log \in Logs, WriteLog(log)
        PROVE  FileInv'
    <3>1. /\ log \in LogTypes /\ LocalTime(log.time) \in Nat
          /\ Offset[UtcHour(log.time)] \in Int
      BY LogFileAssumption DEF LogTypes
    <3> QED
      BY <2>2, <3>1, FileWrite
  <2>3. CASE UNCHANGED vars
    BY <2>3 DEF vars, FileInv, TypeOK, FileOfHour, LogInItsHourFile,
                LogWithinHalfHourOfFile, LocalHour, LocalTime
  <2> QED
    BY <2>1, <2>2, <2>3 DEF Next
<1> QED
  BY <1>1, <1>2, PTL DEF Spec

(***************************************************************************)
(* Every line that is written is that of a log, and the open file is known *)
(* by a local hour and by the UTC hour in which it was named.              *)
(***************************************************************************)
THEOREM FileTypeCorrect == Spec => []TypeOK
<1>1. FileInv => TypeOK
  BY DEF FileInv
<1> QED
  BY <1>1, FileCorrect, PTL

(***************************************************************************)
(* While local time is whole hours from UTC a line is in the file of its   *)
(* own hour.                                                               *)
(***************************************************************************)
THEOREM LinesInTheirHour == Spec => []LogInItsHourFile
<1>1. FileInv => LogInItsHourFile
  BY DEF FileInv
<1> QED
  BY <1>1, FileCorrect, PTL

(***************************************************************************)
(* In any time zone of half hours it is at most half an hour off.          *)
(***************************************************************************)
THEOREM LinesWithinHalfHour == Spec => []LogWithinHalfHourOfFile
<1>1. FileInv => LogWithinHalfHourOfFile
  BY DEF FileInv
<1> QED
  BY <1>1, FileCorrect, PTL
=============================================================================

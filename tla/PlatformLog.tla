---------------------------- MODULE PlatformLog ----------------------------
(***************************************************************************)
(* One log handle (Log/PlatformLog.cpp): threads that call SendLog, the    *)
(* work thread that takes the queued logs a batch at a time and writes     *)
(* them, and the thread that destroys the handle.                          *)
(*                                                                         *)
(* The queue, its counter and its flags are guarded by _mutLog, but        *)
(* SendLog reads _bWorkThread and _isLogFull before it locks, and Stop     *)
(* stores _bWorkThread and _isLogReady and notifies without the lock.      *)
(* Every such unlocked access is a step of its own.  A critical section    *)
(* of SendLog is one step: all it touches is only touched under the lock   *)
(* by the other threads that run at that time, except for the read of      *)
(* _isLogFull, which may fall before or after the section.                 *)
(*                                                                         *)
(* A log is identified by the id SendLog counts for it.  The state starts  *)
(* where PlatformLogCreate returns: constructed, and Start done.           *)
(***************************************************************************)
EXTENDS Integers, Sequences, FiniteSets, SequencesExt

CONSTANTS Senders,     \* the threads that log through this handle
          MaxCount,    \* _maxCount
          Times,       \* what the system clock may read, in half hours
          Offset,      \* the time zone: local time minus UTC (LogFile)
          MaxSends     \* bound: calls of SendLog

ASSUME PlatformLogAssumption ==
  /\ IsFiniteSet(Senders)
  /\ MaxCount \in Nat \ {0}    \* the constructor turns 0 into 10000
  /\ Times \subseteq Nat
  /\ \A t \in Times : Offset[t \div 2] \in Int /\ t + Offset[t \div 2] \in Nat
  /\ MaxSends \in Nat

VARIABLES
  id,            \* _id: calls of SendLog counted so far
  logInCnt,      \* _logInCnt: calls counted since the last batch was taken
  logList,       \* the list from _logDummy to _logTail
  isLogFull,     \* _isLogFull
  isLogReady,    \* _isLogReady
  bWorkThread,   \* _bWorkThread
  locked,        \* _mutLog is held (by the work thread: see above)
  wpc,           \* where WorkThread is
  spc,           \* where each sender is in SendLog
  stopPc,        \* where the destroying thread is in Stop
  batch,         \* logCtx of WorkThread: what is left of the batch taken
  batchCnt,      \* logCnt of WorkThread
  logHours, fp, written,   \* the file (LogFile)
  refused,       \* ids counted without a log: SendLog's early return
  discarded,     \* ids whose log was deleted unwritten
  reported       \* sum of the counts printed as lost

qvars    == <<id, logInCnt, logList, isLogFull>>
filevars == <<logHours, fp, written>>
fates    == <<refused, discarded, reported>>
vars     == <<qvars, isLogReady, bWorkThread, locked, wpc, spc, stopPc,
              batch, batchCnt, filevars, fates>>

LogRecords == [id : 1 .. MaxSends, time : Times]

File == INSTANCE LogFile WITH Logs <- LogRecords, MaxWritten <- MaxSends

WorkerAt == {"loop", "lock", "test", "block", "waiting", "take",
             "report", "write", "done"}
SenderAt == {"idle", "drop", "enqueue"}
StopAt   == {"idle", "ready", "notify", "join", "done"}

Ids(s) == {s[i].id : i \in DOMAIN s}

\* A faulty variant: the wake-up is forgotten.
NotifyForgotten == UNCHANGED wpc

\* notify_one and notify_all are one: only the work thread ever waits.
Notify == wpc' = IF wpc = "waiting" THEN "lock" ELSE wpc

-----------------------------------------------------------------------------
Init ==
  /\ id = 0 /\ logInCnt = 0 /\ logList = <<>>
  /\ isLogFull = FALSE /\ isLogReady = FALSE
  /\ bWorkThread = TRUE
  /\ locked = FALSE
  /\ wpc = "loop"
  /\ spc = [s \in Senders |-> "idle"]
  /\ stopPc = "idle"
  /\ batch = <<>> /\ batchCnt = 0
  /\ File!Init
  /\ refused = {} /\ discarded = {} /\ reported = 0

-----------------------------------------------------------------------------
InFlight == {s \in Senders : spc[s] # "idle"}

\* SendLog reads the two flags without the lock.  The handle is destroyed
\* after the last call returned (stopPc), as a caller must see to.
SendCheck(s) ==
  /\ spc[s] = "idle"
  /\ stopPc = "idle"
  /\ id + Cardinality(InFlight) < MaxSends
  /\ spc' = [spc EXCEPT ![s] = IF ~bWorkThread \/ isLogFull THEN "drop"
                                                           ELSE "enqueue"]
  /\ UNCHANGED <<qvars, isLogReady, bWorkThread, locked, wpc, stopPc,
                 batch, batchCnt, filevars, fates>>

\* A faulty variant: the call is counted for the batch, but gets no id.
SendDropWithoutId(s) ==
  /\ spc[s] = "drop"
  /\ ~locked
  /\ id' = id
  /\ logInCnt' = logInCnt + 1
  /\ refused' = refused \cup {id'}
  /\ spc' = [spc EXCEPT ![s] = "idle"]
  /\ UNCHANGED <<logList, isLogFull, isLogReady, bWorkThread, locked, wpc,
                 stopPc, batch, batchCnt, filevars, discarded, reported>>

\* The early return: the call is counted, its log is never made.
SendDrop(s) ==
  /\ spc[s] = "drop"
  /\ ~locked
  /\ id' = id + 1
  /\ logInCnt' = logInCnt + 1
  /\ refused' = refused \cup {id'}
  /\ spc' = [spc EXCEPT ![s] = "idle"]
  /\ UNCHANGED <<logList, isLogFull, isLogReady, bWorkThread, locked, wpc,
                 stopPc, batch, batchCnt, filevars, discarded, reported>>

\* A faulty variant: the count is compared before it is incremented.
SetFullTooLate == isLogFull' = (isLogFull \/ logInCnt > MaxCount)

SetFull == isLogFull' = (isLogFull \/ logInCnt' > MaxCount)

\* The log is made, stamped with the time, before the lock is taken: the
\* time is any, and in particular need not follow the order of the ids.
SendEnqueue(s) ==
  /\ spc[s] = "enqueue"
  /\ ~locked
  /\ id' = id + 1
  /\ logInCnt' = logInCnt + 1
  /\ SetFull
  /\ \E t \in Times : logList' = Append(logList, [id |-> id', time |-> t])
  /\ isLogReady' = TRUE
  /\ Notify
  /\ spc' = [spc EXCEPT ![s] = "idle"]
  /\ UNCHANGED <<bWorkThread, locked, stopPc, batch, batchCnt, filevars,
                 fates>>

-----------------------------------------------------------------------------
\* The loop condition holds; when the clearing is due, the file is closed
\* before it (what DoClear removes is LogClear's business).
WorkLoop ==
  /\ wpc = "loop"
  /\ bWorkThread
  /\ wpc' = "lock"
  /\ File!CloseFile \/ UNCHANGED filevars
  /\ UNCHANGED <<qvars, isLogReady, bWorkThread, locked, spc, stopPc,
                 batch, batchCnt, fates>>

WorkExit ==
  /\ wpc = "loop"
  /\ ~bWorkThread
  /\ wpc' = "done"
  /\ File!CloseFile
  /\ UNCHANGED <<qvars, isLogReady, bWorkThread, locked, spc, stopPc,
                 batch, batchCnt, fates>>

\* unique_lock, and the return of wait with the lock taken again.
WorkLock ==
  /\ wpc = "lock"
  /\ ~locked
  /\ locked' = TRUE
  /\ wpc' = "test"
  /\ UNCHANGED <<qvars, isLogReady, bWorkThread, spc, stopPc,
                 batch, batchCnt, filevars, fates>>

\* The predicate of wait.
WorkTest ==
  /\ wpc = "test"
  /\ wpc' = IF isLogReady THEN "take" ELSE "block"
  /\ UNCHANGED <<qvars, isLogReady, bWorkThread, locked, spc, stopPc,
                 batch, batchCnt, filevars, fates>>

\* wait releases the lock and joins the waiters in one step.
WorkBlock ==
  /\ wpc = "block"
  /\ locked' = FALSE
  /\ wpc' = "waiting"
  /\ UNCHANGED <<qvars, isLogReady, bWorkThread, spc, stopPc,
                 batch, batchCnt, filevars, fates>>

SpuriousWake ==
  /\ wpc = "waiting"
  /\ wpc' = "lock"
  /\ UNCHANGED <<qvars, isLogReady, bWorkThread, locked, spc, stopPc,
                 batch, batchCnt, filevars, fates>>

\* Faulty variants: one of the resets is forgotten, or the count is lowered
\* by what one batch may hold.
ResetButList  == logInCnt' = 0 /\ isLogFull' = FALSE /\ UNCHANGED logList
ResetButCount == logList' = <<>> /\ isLogFull' = FALSE /\ UNCHANGED logInCnt
ResetButFull  == logList' = <<>> /\ logInCnt' = 0 /\ UNCHANGED isLogFull
ResetByMax    == /\ logList' = <<>> /\ isLogFull' = FALSE
                 /\ logInCnt' = logInCnt - MaxCount

ResetQueue == /\ logList' = <<>>
              /\ logInCnt' = 0
              /\ isLogFull' = FALSE

\* A faulty variant: off by one.
TooManyByOne(cnt) == cnt > MaxCount + 1

TooMany(cnt) == cnt > MaxCount

WorkTake ==
  /\ wpc = "take"
  /\ batch' = logList
  /\ batchCnt' = logInCnt
  /\ ResetQueue
  /\ isLogReady' = FALSE
  /\ locked' = FALSE
  /\ wpc' = IF TooMany(batchCnt') THEN "report" ELSE "write"
  /\ UNCHANGED <<id, bWorkThread, spc, stopPc, filevars, fates>>

\* Too many calls were counted: the batch is deleted and its count printed.
WorkReport ==
  /\ wpc = "report"
  /\ reported' = reported + batchCnt
  /\ discarded' = discarded \cup Ids(batch)
  /\ batch' = <<>>
  /\ wpc' = "loop"
  /\ UNCHANGED <<qvars, isLogReady, bWorkThread, locked, spc, stopPc,
                 batchCnt, filevars, refused>>

\* One log of the batch: its line is lost when its file cannot be opened.
WorkWrite ==
  /\ wpc = "write"
  /\ batch # <<>>
  /\ File!WriteLog(Head(batch))
  /\ discarded' = IF fp' = File!NoFile THEN discarded \cup {Head(batch).id}
                                       ELSE discarded
  /\ batch' = Tail(batch)
  /\ UNCHANGED <<qvars, isLogReady, bWorkThread, locked, wpc, spc, stopPc,
                 batchCnt, refused, reported>>

WorkBatchDone ==
  /\ wpc = "write"
  /\ batch = <<>>
  /\ wpc' = "loop"
  /\ UNCHANGED <<qvars, isLogReady, bWorkThread, locked, spc, stopPc,
                 batch, batchCnt, filevars, fates>>

-----------------------------------------------------------------------------
\* Stop, one store at a time, without the lock.
StopStore ==
  /\ stopPc = "idle"
  /\ InFlight = {}
  /\ bWorkThread' = FALSE
  /\ stopPc' = "ready"
  /\ UNCHANGED <<qvars, isLogReady, locked, wpc, spc,
                 batch, batchCnt, filevars, fates>>

\* A faulty variant: only the loop condition is cleared.
StopReadyForgotten ==
  /\ stopPc = "ready"
  /\ stopPc' = "notify"
  /\ UNCHANGED <<qvars, isLogReady, bWorkThread, locked, wpc, spc,
                 batch, batchCnt, filevars, fates>>

StopReady ==
  /\ stopPc = "ready"
  /\ isLogReady' = TRUE
  /\ stopPc' = "notify"
  /\ UNCHANGED <<qvars, bWorkThread, locked, wpc, spc,
                 batch, batchCnt, filevars, fates>>

StopNotify ==
  /\ stopPc = "notify"
  /\ Notify
  /\ stopPc' = "join"
  /\ UNCHANGED <<qvars, isLogReady, bWorkThread, locked, spc,
                 batch, batchCnt, filevars, fates>>

\* join returns; what is still queued is deleted unwritten.
StopJoin ==
  /\ stopPc = "join"
  /\ wpc = "done"
  /\ discarded' = discarded \cup Ids(logList)
  /\ logList' = <<>>
  /\ logInCnt' = 0
  /\ isLogReady' = FALSE
  /\ stopPc' = "done"
  /\ UNCHANGED <<id, isLogFull, bWorkThread, locked, wpc, spc,
                 batch, batchCnt, filevars, refused, reported>>

-----------------------------------------------------------------------------
Send(s) == SendCheck(s) \/ SendDrop(s) \/ SendEnqueue(s)

Work == \/ WorkLoop \/ WorkExit \/ WorkLock \/ WorkTest \/ WorkBlock
        \/ WorkTake \/ WorkReport \/ WorkWrite \/ WorkBatchDone

Stop == StopStore \/ StopReady \/ StopNotify \/ StopJoin

Next == (\E s \in Senders : Send(s)) \/ Work \/ SpuriousWake \/ Stop

Spec == Init /\ [][Next]_vars

\* The scheduler runs a thread that can run.  Nobody has to call Stop, and
\* nothing promises a spurious wake-up.
FairSpec == /\ Spec
            /\ WF_vars(Work)
            /\ WF_vars(StopReady \/ StopNotify \/ StopJoin)

-----------------------------------------------------------------------------
LogType == [id : Nat, time : Times]

TypeOK ==
  /\ id \in Nat /\ logInCnt \in Nat /\ batchCnt \in Nat /\ reported \in Nat
  /\ logList \in Seq(LogType)
  /\ batch \in Seq(LogType)
  /\ isLogFull \in BOOLEAN /\ isLogReady \in BOOLEAN
  /\ bWorkThread \in BOOLEAN /\ locked \in BOOLEAN
  /\ wpc \in WorkerAt
  /\ spc \in [Senders -> SenderAt]
  /\ stopPc \in StopAt
  /\ refused \subseteq Nat /\ discarded \subseteq Nat

WrittenLogs == [i \in DOMAIN written |-> written[i].log]

\* Every log that still has or had a place, from the oldest line on disk to
\* the newest log of the queue.
AllLogs == WrittenLogs \o batch \o logList

(***************************************************************************)
(* The queue is bounded although SendLog tests _isLogFull without the lock:*)
(* only the senders that had passed the test can go over _maxCount, by one *)
(* log each.                                                               *)
(***************************************************************************)
QueueBounded == Len(logList) <= MaxCount + Cardinality(Senders)

(***************************************************************************)
(* A batch that is written has at most _maxCount logs: "the most logs      *)
(* handled at one time" of include/PlatformLog.h.                          *)
(***************************************************************************)
BatchWithinMaxCount == wpc = "write" => Len(batch) <= MaxCount

(***************************************************************************)
(* A sender that read _isLogFull just before the queue was taken is counted*)
(* into the next batch.  While that one is not full, at most one such call *)
(* per sender can hide in the counter: what is lost without ever being     *)
(* reported is bounded by the senders, whatever the load.                  *)
(***************************************************************************)
SilentRefusalsBounded ==
  ~isLogFull => logInCnt - Len(logList) <= Cardinality(Senders)

(***************************************************************************)
(* The other side of those stale counts: they can make a batch of no more  *)
(* than _maxCount logs look too big and have it deleted, but only one that *)
(* is full up to the number of senders.                                    *)
(***************************************************************************)
DiscardOnlyNearlyFull ==
  wpc = "report" => Len(batch) > MaxCount - Cardinality(Senders)

(***************************************************************************)
(* A call counted by _id has exactly one fate: refused, deleted, on disk,  *)
(* in the batch or in the queue; none is counted twice and none vanishes,  *)
(* and the count printed as lost never exceeds what really was lost.       *)
(***************************************************************************)
OneFateEach ==
  LET kept == Ids(AllLogs) IN
  /\ refused \cup discarded \cup kept = 1 .. id
  /\ refused \cap discarded = {}
  /\ kept \cap (refused \cup discarded) = {}
  /\ reported <= Cardinality(refused \cup discarded)

(***************************************************************************)
(* The lines on disk, the batch and the queue are in the order of the ids, *)
(* with no id twice, through full queues, deleted batches and failed opens.*)
(***************************************************************************)
WrittenInIdOrder ==
  \A i, j \in DOMAIN AllLogs : i < j => AllLogs[i].id < AllLogs[j].id

(***************************************************************************)
(* The work thread never sleeps, and never is about to sleep, on a queue   *)
(* that has logs: SendLog's wake-up cannot be lost.                        *)
(***************************************************************************)
NoSleepOnQueuedLogs == wpc \in {"block", "waiting"} => logList = <<>>

(***************************************************************************)
(* What a handle promises (LogService), implemented by the threads.        *)
(***************************************************************************)
IdSeq(s) == [i \in DOMAIN s |-> s[i].id]

Service == INSTANCE LogService WITH
             Capacity <- 2 * (MaxCount + Cardinality(Senders)),
             sent     <- id,
             pending  <- IdSeq(batch \o logList),
             settled  <- IdSeq(WrittenLogs),
             lost     <- refused \cup discarded,
             closed   <- stopPc = "done"

ImplementsService == Service!Spec

(***************************************************************************)
(* Logs that are queued do not stay: the work thread comes for them, or    *)
(* Stop deletes them.                                                      *)
(***************************************************************************)
QueueDrains == logList # <<>> ~> logList = <<>>

(***************************************************************************)
(* Stop returns whenever the work thread was not asleep or about to sleep  *)
(* when notify_all ran.                                                    *)
(***************************************************************************)
StopReturnsIfAwake ==
  (stopPc = "join" /\ wpc \notin {"block", "waiting"}) ~> stopPc = "done"

(***************************************************************************)
(* What include/PlatformLog.h promises of PlatformLogDestroy, and the end  *)
(* of every test of TestLog.cpp waits for: the handle is destroyed.        *)
(***************************************************************************)
StopReturns == stopPc = "ready" ~> stopPc = "done"
=============================================================================

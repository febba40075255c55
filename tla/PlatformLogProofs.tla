------------------------- MODULE PlatformLogProofs -------------------------
(***************************************************************************)
(* One log handle, for any number of senders and any _maxCount.  In turn:  *)
(* the queue and its bounds, what becomes of every call of SendLog, that   *)
(* the threads do nothing LogService does not allow, and that they use the *)
(* file as LogFile says.                                                   *)
(***************************************************************************)
EXTENDS PlatformLog, FiniteSetTheorems, SequenceTheorems, TLAPS

(***************************************************************************)
(* The queue: type correctness, its bound, what stale reads of _isLogFull  *)
(* can cost, and that the work thread never sleeps on logs.                *)
(***************************************************************************)
\* The senders at p, when f says where each is.
At(f, p) == {s \in Senders : f[s] = p}

N == Cardinality(Senders)

-----------------------------------------------------------------------------
(* The inductive invariant. *)

\* The lock is held exactly where the work thread is inside its section, and
\* nobody is in SendLog once Stop began.
Control ==
  /\ locked <=> wpc \in {"test", "block", "take"}
  /\ bWorkThread <=> stopPc = "idle"
  /\ stopPc = "done" => wpc = "done"
  /\ stopPc # "idle" => \A s \in Senders : spc[s] = "idle"

\* The counter counts at least the queued logs; while the queue is not full
\* they fit, and what else it counts leaves room for the senders that are
\* about to add to that.
Room ==
  /\ Len(logList) <= logInCnt
  /\ ~isLogFull => /\ Len(logList) <= MaxCount
                   /\ logInCnt - Len(logList) + Cardinality(At(spc, "drop"))
                        <= N
  /\ isLogFull =>
       Len(logList) + Cardinality(At(spc, "enqueue")) <= MaxCount + N
  /\ isLogFull /\ stopPc # "done" => Len(logList) > MaxCount - N

\* What the work thread took and where it sleeps.
Taken ==
  /\ BatchWithinMaxCount
  /\ DiscardOnlyNearlyFull
  /\ logList # <<>> => isLogReady
  /\ NoSleepOnQueuedLogs

QueueInv == TypeOK /\ Control /\ Room /\ Taken

-----------------------------------------------------------------------------
(* Counting the senders at one place. *)

LEMMA SendersCount ==
  ASSUME NEW f, NEW p
  PROVE  /\ IsFiniteSet(At(f, p))
         /\ Cardinality(At(f, p)) \in Nat
         /\ N \in Nat
         /\ Cardinality(At(f, p)) <= N
<1>1. IsFiniteSet(Senders) /\ At(f, p) \subseteq Senders
  BY PlatformLogAssumption DEF At
<1> QED
  BY <1>1, FS_Subset, FS_CardinalityType DEF N

\* From f to g only s moved, away from p.
LEMMA SenderLeaves ==
  ASSUME NEW f, NEW g, NEW p, NEW s \in Senders, f[s] = p, g[s] # p,
         \A x \in Senders \ {s} : g[x] = f[x]
  PROVE  Cardinality(At(g, p)) = Cardinality(At(f, p)) - 1
<1>1. s \in At(f, p) /\ At(g, p) = At(f, p) \ {s}
  BY DEF At
<1>2. Cardinality(At(f, p) \ {s}) = Cardinality(At(f, p)) - 1
  BY <1>1, SendersCount, FS_RemoveElement
<1> QED
  BY <1>1, <1>2

\* From f to g only s moved, neither from p nor to it.
LEMMA SenderElsewhere ==
  ASSUME NEW f, NEW g, NEW p, NEW s \in Senders, f[s] # p, g[s] # p,
         \A x \in Senders \ {s} : g[x] = f[x]
  PROVE  Cardinality(At(g, p)) = Cardinality(At(f, p))
<1>1. At(g, p) = At(f, p)
  BY DEF At
<1> QED
  BY <1>1

\* Room and what it counts are as before when nothing of it changes.
LEMMA RoomUnchanged ==
  ASSUME Room, UNCHANGED <<qvars, spc>>, stopPc = "done" => stopPc' = "done"
  PROVE  Room'
  BY DEF Room, qvars, At, N

LEMMA IdsAreNat ==
  ASSUME NEW q \in Seq(LogType)
  PROVE  Ids(q) \subseteq Nat
<1>1. \A i \in DOMAIN q : q[i] \in LogType
  OBVIOUS
<1>2. \A i \in DOMAIN q : q[i].id \in Nat
  BY <1>1 DEF LogType
<1> QED
  BY <1>2 DEF Ids

-----------------------------------------------------------------------------
LEMMA QueueInit ==
  ASSUME Init
  PROVE  QueueInv
<1>1. TypeOK
  <2>1. spc \in [Senders -> SenderAt]
    BY DEF Init, SenderAt
  <2>2. /\ logList \in Seq(LogType)
        /\ batch \in Seq(LogType)
    BY DEF Init
  <2> QED
    BY <2>1, <2>2 DEF Init, TypeOK, WorkerAt, StopAt
<1>2. Control
  BY DEF Init, Control
<1>3. At(spc, "drop") = {}
  BY DEF Init, At
<1>4. Room
  BY <1>3, SendersCount, FS_EmptySet, PlatformLogAssumption DEF Init, Room
<1>5. Taken
  BY DEF Init, Taken, BatchWithinMaxCount, DiscardOnlyNearlyFull,
         NoSleepOnQueuedLogs
<1> QED
  BY <1>1, <1>2, <1>4, <1>5 DEF QueueInv

LEMMA SendCheckKeeps ==
  ASSUME QueueInv, NEW s \in Senders, SendCheck(s)
  PROVE  QueueInv'
<1> USE DEF QueueInv
<1>1. PICK to \in {"drop", "enqueue"} :
        /\ to = (IF ~bWorkThread \/ isLogFull THEN "drop" ELSE "enqueue")
        /\ spc' = [spc EXCEPT ![s] = to]
  BY DEF SendCheck
<1>2. TypeOK'
  BY <1>1 DEF SendCheck, TypeOK, SenderAt, qvars, filevars, fates
<1>3. Control'
  BY DEF SendCheck, Control
<1>4. to = IF isLogFull THEN "drop" ELSE "enqueue"
  BY <1>1 DEF SendCheck, Control
<1>5. ASSUME NEW p \in {"drop", "enqueue"} \ {to}
      PROVE  Cardinality(At(spc', p)) = Cardinality(At(spc, p))
  <2>1. /\ spc[s] # p /\ spc'[s] # p
        /\ \A x \in Senders \ {s} : spc'[x] = spc[x]
    BY <1>1 DEF SendCheck, TypeOK
  <2> QED
    BY <2>1, SenderElsewhere, Zenon
<1>6. Room'
  BY <1>4, <1>5 DEF SendCheck, Room, qvars, N
<1>7. Taken'
  BY DEF SendCheck, Taken, BatchWithinMaxCount, DiscardOnlyNearlyFull,
         NoSleepOnQueuedLogs, qvars
<1> QED
  BY <1>2, <1>3, <1>6, <1>7

LEMMA SendDropKeeps ==
  ASSUME QueueInv, NEW s \in Senders, SendDrop(s)
  PROVE  QueueInv'
<1> USE DEF QueueInv
<1>1. TypeOK'
  BY DEF SendDrop, TypeOK, SenderAt, filevars
<1>2. Control'
  BY DEF SendDrop, Control
<1>3. /\ Cardinality(At(spc', "drop")) = Cardinality(At(spc, "drop")) - 1
      /\ Cardinality(At(spc', "enqueue")) = Cardinality(At(spc, "enqueue"))
  <2>1. /\ spc[s] = "drop" /\ spc'[s] # "drop"
        /\ spc[s] # "enqueue" /\ spc'[s] # "enqueue"
        /\ \A x \in Senders \ {s} : spc'[x] = spc[x]
    BY DEF SendDrop, TypeOK
  <2>2. Cardinality(At(spc', "drop")) = Cardinality(At(spc, "drop")) - 1
    BY <2>1, SenderLeaves, SendersCount, SMT
  <2>3. Cardinality(At(spc', "enqueue")) = Cardinality(At(spc, "enqueue"))
    BY <2>1, SenderElsewhere, Zenon
  <2> QED
    BY <2>2, <2>3
<1>4. Len(logList) \in Nat /\ logInCnt \in Nat
  BY DEF TypeOK
<1>5. Room'
  BY <1>3, <1>4, SendersCount, PlatformLogAssumption DEF SendDrop, Room, N
<1>6. Taken'
  BY DEF SendDrop, Taken, BatchWithinMaxCount, DiscardOnlyNearlyFull,
         NoSleepOnQueuedLogs
<1> QED
  BY <1>1, <1>2, <1>5, <1>6

LEMMA SendEnqueueKeeps ==
  ASSUME QueueInv, NEW s \in Senders, SendEnqueue(s)
  PROVE  QueueInv'
<1> USE DEF QueueInv
<1>1. PICK t \in Times : logList' = Append(logList, [id |-> id', time |-> t])
  BY DEF SendEnqueue
<1>a. /\ id' = id + 1 /\ id \in Nat
      /\ logList \in Seq(LogType)
      /\ logInCnt \in Nat
  BY DEF SendEnqueue, TypeOK
<1>b. spc[s] = "enqueue" /\ spc' = [spc EXCEPT ![s] = "idle"]
  BY DEF SendEnqueue
<1>2. /\ logList' \in Seq(LogType)
      /\ Len(logList') = Len(logList) + 1
      /\ Len(logList) \in Nat /\ logInCnt \in Nat
      /\ logList' # <<>>
  <2>1. [id |-> id', time |-> t] \in LogType
    BY <1>a DEF LogType
  <2> QED
    BY <1>1, <1>a, <2>1, AppendProperties
<1>3. TypeOK'
  BY <1>2 DEF SendEnqueue, SetFull, Notify, TypeOK, WorkerAt, SenderAt,
              filevars, fates
<1>4. Control'
  BY DEF SendEnqueue, Notify, Control
<1>5. /\ Cardinality(At(spc', "enqueue"))
            = Cardinality(At(spc, "enqueue")) - 1
      /\ Cardinality(At(spc', "drop")) = Cardinality(At(spc, "drop"))
  <2>1. /\ spc[s] = "enqueue" /\ spc'[s] # "enqueue"
        /\ spc[s] # "drop" /\ spc'[s] # "drop"
        /\ \A x \in Senders \ {s} : spc'[x] = spc[x]
    BY <1>b DEF TypeOK
  <2>2. Cardinality(At(spc', "enqueue")) = Cardinality(At(spc, "enqueue")) - 1
    BY <2>1, SenderLeaves, SendersCount, SMT
  <2>3. Cardinality(At(spc', "drop")) = Cardinality(At(spc, "drop"))
    BY <2>1, SenderElsewhere, Zenon
  <2> QED
    BY <2>2, <2>3
<1>6. Room'
  <2>1. /\ logInCnt' = logInCnt + 1
        /\ isLogFull' <=> isLogFull \/ logInCnt + 1 > MaxCount
    BY DEF SendEnqueue, SetFull
  <2>2. stopPc = "idle" /\ stopPc' = "idle"
    BY DEF SendEnqueue, Control
  <2>3. /\ Cardinality(At(spc, "enqueue")) \in Nat
        /\ Cardinality(At(spc, "enqueue")) <= N
        /\ Cardinality(At(spc, "drop")) \in Nat
        /\ N \in Nat /\ MaxCount \in Nat
    BY SendersCount, PlatformLogAssumption
  <2>4. N' = N
    BY DEF N
  <2> QED
    BY <1>2, <1>5, <2>1, <2>2, <2>3, <2>4 DEF Room
<1>7. Taken'
  BY DEF SendEnqueue, Notify, Control, Taken, BatchWithinMaxCount,
         DiscardOnlyNearlyFull, NoSleepOnQueuedLogs
<1> QED
  BY <1>3, <1>4, <1>6, <1>7

LEMMA WorkLoopKeeps ==
  ASSUME QueueInv, WorkLoop
  PROVE  QueueInv'
<1> USE DEF QueueInv
<1>1. TypeOK'
  BY DEF WorkLoop, TypeOK, WorkerAt, StopAt, qvars, filevars, fates
<1>2. Control'
  BY DEF WorkLoop, Control
<1>3. Room'
  BY RoomUnchanged DEF WorkLoop
<1>4. Taken'
  BY DEF WorkLoop, Taken, BatchWithinMaxCount, DiscardOnlyNearlyFull,
         NoSleepOnQueuedLogs, qvars, TypeOK
<1> QED
  BY <1>1, <1>2, <1>3, <1>4

LEMMA WorkExitKeeps ==
  ASSUME QueueInv, WorkExit
  PROVE  QueueInv'
<1> USE DEF QueueInv
<1>1. TypeOK'
  BY DEF WorkExit, TypeOK, WorkerAt, StopAt, qvars, filevars, fates
<1>2. Control'
  BY DEF WorkExit, Control
<1>3. Room'
  BY RoomUnchanged DEF WorkExit
<1>4. Taken'
  BY DEF WorkExit, Taken, BatchWithinMaxCount, DiscardOnlyNearlyFull,
         NoSleepOnQueuedLogs, qvars, TypeOK
<1> QED
  BY <1>1, <1>2, <1>3, <1>4

LEMMA WorkLockKeeps ==
  ASSUME QueueInv, WorkLock
  PROVE  QueueInv'
<1> USE DEF QueueInv
<1>1. TypeOK'
  BY DEF WorkLock, TypeOK, WorkerAt, StopAt, qvars, filevars, fates
<1>2. Control'
  BY DEF WorkLock, Control
<1>3. Room'
  BY RoomUnchanged DEF WorkLock
<1>4. Taken'
  BY DEF WorkLock, Taken, BatchWithinMaxCount, DiscardOnlyNearlyFull,
         NoSleepOnQueuedLogs, qvars, TypeOK
<1> QED
  BY <1>1, <1>2, <1>3, <1>4

LEMMA WorkTestKeeps ==
  ASSUME QueueInv, WorkTest
  PROVE  QueueInv'
<1> USE DEF QueueInv
<1>1. TypeOK'
  BY DEF WorkTest, TypeOK, WorkerAt, StopAt, qvars, filevars, fates
<1>2. Control'
  BY DEF WorkTest, Control
<1>3. Room'
  BY RoomUnchanged DEF WorkTest
<1>4. Taken'
  BY DEF WorkTest, Control, Taken, BatchWithinMaxCount, DiscardOnlyNearlyFull,
         NoSleepOnQueuedLogs, qvars, TypeOK
<1> QED
  BY <1>1, <1>2, <1>3, <1>4

LEMMA WorkBlockKeeps ==
  ASSUME QueueInv, WorkBlock
  PROVE  QueueInv'
<1> USE DEF QueueInv
<1>1. TypeOK'
  BY DEF WorkBlock, TypeOK, WorkerAt, StopAt, qvars, filevars, fates
<1>2. Control'
  BY DEF WorkBlock, Control
<1>3. Room'
  BY RoomUnchanged DEF WorkBlock
<1>4. Taken'
  BY DEF WorkBlock, Taken, BatchWithinMaxCount, DiscardOnlyNearlyFull,
         NoSleepOnQueuedLogs, qvars, TypeOK
<1> QED
  BY <1>1, <1>2, <1>3, <1>4

LEMMA SpuriousWakeKeeps ==
  ASSUME QueueInv, SpuriousWake
  PROVE  QueueInv'
<1> USE DEF QueueInv
<1>1. TypeOK'
  BY DEF SpuriousWake, TypeOK, WorkerAt, StopAt, qvars, filevars, fates
<1>2. Control'
  BY DEF SpuriousWake, Control
<1>3. Room'
  BY RoomUnchanged DEF SpuriousWake
<1>4. Taken'
  BY DEF SpuriousWake, Taken, BatchWithinMaxCount, DiscardOnlyNearlyFull,
         NoSleepOnQueuedLogs, qvars, TypeOK
<1> QED
  BY <1>1, <1>2, <1>3, <1>4

LEMMA WorkBatchDoneKeeps ==
  ASSUME QueueInv, WorkBatchDone
  PROVE  QueueInv'
<1> USE DEF QueueInv
<1>1. TypeOK'
  BY DEF WorkBatchDone, TypeOK, WorkerAt, StopAt, qvars, filevars, fates
<1>2. Control'
  BY DEF WorkBatchDone, Control
<1>3. Room'
  BY RoomUnchanged DEF WorkBatchDone
<1>4. Taken'
  BY DEF WorkBatchDone, Taken, BatchWithinMaxCount, DiscardOnlyNearlyFull,
         NoSleepOnQueuedLogs, qvars, TypeOK
<1> QED
  BY <1>1, <1>2, <1>3, <1>4

LEMMA StopStoreKeeps ==
  ASSUME QueueInv, StopStore
  PROVE  QueueInv'
<1> USE DEF QueueInv
<1>1. TypeOK'
  BY DEF StopStore, TypeOK, WorkerAt, StopAt, qvars, filevars, fates
<1>2. Control'
  BY DEF StopStore, InFlight, Control
<1>3. Room'
  BY RoomUnchanged DEF StopStore
<1>4. Taken'
  BY DEF StopStore, Taken, BatchWithinMaxCount, DiscardOnlyNearlyFull,
         NoSleepOnQueuedLogs, qvars, TypeOK
<1> QED
  BY <1>1, <1>2, <1>3, <1>4

LEMMA StopReadyKeeps ==
  ASSUME QueueInv, StopReady
  PROVE  QueueInv'
<1> USE DEF QueueInv
<1>1. TypeOK'
  BY DEF StopReady, TypeOK, WorkerAt, StopAt, qvars, filevars, fates
<1>2. Control'
  BY DEF StopReady, Control
<1>3. Room'
  BY RoomUnchanged DEF StopReady
<1>4. Taken'
  BY DEF StopReady, Taken, BatchWithinMaxCount, DiscardOnlyNearlyFull,
         NoSleepOnQueuedLogs, qvars, TypeOK
<1> QED
  BY <1>1, <1>2, <1>3, <1>4

LEMMA StopNotifyKeeps ==
  ASSUME QueueInv, StopNotify
  PROVE  QueueInv'
<1> USE DEF QueueInv
<1>1. TypeOK'
  BY DEF StopNotify, Notify, TypeOK, WorkerAt, StopAt, qvars, filevars, fates
<1>2. Control'
  BY DEF StopNotify, Notify, Control
<1>3. Room'
  BY RoomUnchanged DEF StopNotify, Notify
<1>4. Taken'
  BY DEF StopNotify, Notify, Taken, BatchWithinMaxCount, DiscardOnlyNearlyFull,
         NoSleepOnQueuedLogs, qvars, TypeOK
<1> QED
  BY <1>1, <1>2, <1>3, <1>4

LEMMA WorkTakeKeeps ==
  ASSUME QueueInv, WorkTake
  PROVE  QueueInv'
<1> USE DEF QueueInv
<1>1. /\ wpc = "take" /\ wpc' \in {"report", "write"}
      /\ wpc' = "report" <=> batchCnt' > MaxCount
      /\ batch' = logList /\ batchCnt' = logInCnt
      /\ logList' = <<>> /\ logInCnt' = 0
      /\ isLogFull' = FALSE /\ isLogReady' = FALSE /\ locked' = FALSE
      /\ UNCHANGED <<id, bWorkThread, spc, stopPc, fates>>
  BY DEF WorkTake, ResetQueue, TooMany
<1>2. TypeOK'
  <2>1. /\ logList' \in Seq(LogType)
        /\ batch' \in Seq(LogType)
    BY <1>1 DEF TypeOK
  <2> QED
    BY <1>1, <2>1 DEF TypeOK, WorkerAt, fates
<1>3. Control'
  BY <1>1 DEF Control
<1>4. /\ N \in Nat /\ MaxCount \in Nat
      /\ Cardinality(At(spc, "drop")) \in Nat
      /\ Cardinality(At(spc, "drop")) <= N
  BY SendersCount, PlatformLogAssumption
<1>5. Room'
  <2>1. Len(logList') = 0 /\ Cardinality(At(spc', "drop")) <= N'
    BY <1>1, <1>4 DEF N
  <2> QED
    BY <1>1, <1>4, <2>1 DEF Room, N
<1>6. Taken'
  <2>1. Len(batch') \in Nat /\ batchCnt' \in Nat
    BY <1>1 DEF TypeOK
  <2>2. stopPc # "done"
    BY <1>1 DEF Control
  <2>3. wpc' = "write" => Len(batch') <= MaxCount
    BY <1>1, <1>4, <2>1 DEF Room
  <2>4. wpc' = "report" => Len(batch') > MaxCount - N
    BY <1>1, <1>4, <2>1, <2>2 DEF Room
  <2> QED
    BY <1>1, <2>3, <2>4
       DEF Taken, BatchWithinMaxCount, DiscardOnlyNearlyFull,
           NoSleepOnQueuedLogs, N
<1> QED
  BY <1>2, <1>3, <1>5, <1>6

LEMMA WorkReportKeeps ==
  ASSUME QueueInv, WorkReport
  PROVE  QueueInv'
<1> USE DEF QueueInv
<1>1. /\ Ids(batch) \subseteq Nat
      /\ batch' \in Seq(LogType)
  <2>1. batch \in Seq(LogType)
    BY DEF TypeOK
  <2> QED
    BY <2>1, IdsAreNat DEF WorkReport
<1>2. TypeOK'
  <2>1. /\ discarded' = discarded \cup Ids(batch)
        /\ reported' = reported + batchCnt
    BY DEF WorkReport
  <2>2. /\ discarded \subseteq Nat
        /\ reported \in Nat /\ batchCnt \in Nat
    BY DEF TypeOK
  <2>3. discarded' \subseteq Nat
    BY <1>1, <2>1, <2>2, Zenon
  <2>4. reported' \in Nat
    BY <2>1, <2>2
  <2> QED
    BY <1>1, <2>3, <2>4 DEF WorkReport, TypeOK, WorkerAt, qvars
<1>3. Control'
  BY DEF WorkReport, Control
<1>4. Room'
  BY RoomUnchanged DEF WorkReport
<1>5. Taken'
  BY DEF WorkReport, Taken, BatchWithinMaxCount, DiscardOnlyNearlyFull,
         NoSleepOnQueuedLogs, qvars
<1> QED
  BY <1>2, <1>3, <1>4, <1>5

LEMMA WorkWriteKeeps ==
  ASSUME QueueInv, WorkWrite
  PROVE  QueueInv'
<1> USE DEF QueueInv
<1>1. /\ Head(batch).id \in Nat
      /\ Tail(batch) \in Seq(LogType)
      /\ Len(Tail(batch)) = Len(batch) - 1 /\ Len(batch) \in Nat
  <2>1. batch \in Seq(LogType) /\ batch # <<>>
    BY DEF WorkWrite, TypeOK
  <2>2. /\ Head(batch) \in LogType
        /\ Tail(batch) \in Seq(LogType)
        /\ Len(Tail(batch)) = Len(batch) - 1
    BY <2>1, HeadTailProperties
  <2>3. Head(batch).id \in Nat
    BY <2>2 DEF LogType
  <2> QED
    BY <2>1, <2>2, <2>3
<1>2. TypeOK'
  <2>1. discarded' \subseteq Nat
    BY <1>1 DEF WorkWrite, TypeOK
  <2> QED
    BY <1>1, <2>1 DEF WorkWrite, TypeOK, qvars
<1>3. Control'
  BY DEF WorkWrite, Control
<1>4. Room'
  BY RoomUnchanged DEF WorkWrite
<1>5. Taken'
  <2>1. Len(batch') <= MaxCount
    BY <1>1, PlatformLogAssumption DEF WorkWrite, Taken, BatchWithinMaxCount
  <2> QED
    BY <2>1 DEF WorkWrite, Taken, BatchWithinMaxCount, DiscardOnlyNearlyFull,
                NoSleepOnQueuedLogs, qvars
<1> QED
  BY <1>2, <1>3, <1>4, <1>5

LEMMA StopJoinKeeps ==
  ASSUME QueueInv, StopJoin
  PROVE  QueueInv'
<1> USE DEF QueueInv
<1>1. /\ Ids(logList) \subseteq Nat
      /\ logList' \in Seq(LogType)
  <2>1. logList \in Seq(LogType)
    BY DEF TypeOK
  <2> QED
    BY <2>1, IdsAreNat DEF StopJoin
<1>2. TypeOK'
  BY <1>1 DEF StopJoin, TypeOK, StopAt, filevars
<1>3. Control'
  BY DEF StopJoin, Control
<1>4. /\ N \in Nat /\ MaxCount \in Nat
      /\ \A p \in {"drop", "enqueue"} :
           /\ Cardinality(At(spc, p)) \in Nat
           /\ Cardinality(At(spc, p)) <= N
  BY SendersCount, PlatformLogAssumption
<1>5. Room'
  <2>1. /\ Len(logList') = 0 /\ logInCnt' = 0
        /\ stopPc' = "done" /\ UNCHANGED <<spc, isLogFull>>
    BY DEF StopJoin
  <2> QED
    BY <1>4, <2>1 DEF Room, N
<1>6. Taken'
  BY DEF StopJoin, Taken, BatchWithinMaxCount, DiscardOnlyNearlyFull,
         NoSleepOnQueuedLogs
<1> QED
  BY <1>2, <1>3, <1>5, <1>6

-----------------------------------------------------------------------------
(***************************************************************************)
(* The inductive invariant: what _isLogFull, _logInCnt and the queue have  *)
(* to do with each other and with the senders between their unlocked test  *)
(* and their lock.                                                         *)
(***************************************************************************)
THEOREM QueueInvariant == Spec => []QueueInv
<1>1. Init => QueueInv
  BY QueueInit
<1>2. QueueInv /\ [Next]_vars => QueueInv'
  <2> SUFFICES ASSUME QueueInv, [Next]_vars
               PROVE  QueueInv'
    OBVIOUS
  <2>1. ASSUME NEW s \in Senders, Send(s)
        PROVE  QueueInv'
    BY <2>1, SendCheckKeeps, SendDropKeeps, SendEnqueueKeeps DEF Send
  <2>2. CASE Work
    BY <2>2, WorkLoopKeeps, WorkExitKeeps, WorkLockKeeps, WorkTestKeeps,
       WorkBlockKeeps, WorkTakeKeeps, WorkReportKeeps, WorkWriteKeeps,
       WorkBatchDoneKeeps DEF Work
  <2>3. CASE SpuriousWake
    BY <2>3, SpuriousWakeKeeps
  <2>4. CASE Stop
    BY <2>4, StopStoreKeeps, StopReadyKeeps, StopNotifyKeeps, StopJoinKeeps
       DEF Stop
  <2>5. CASE UNCHANGED vars
    <3>1. /\ UNCHANGED <<qvars, isLogReady, bWorkThread, locked, wpc, spc>>
          /\ UNCHANGED <<stopPc, batch, batchCnt, fates>>
      BY <2>5 DEF vars
    <3>2. TypeOK' /\ Control' /\ Taken'
      BY <3>1 DEF QueueInv, TypeOK, Control, Taken, BatchWithinMaxCount,
                  DiscardOnlyNearlyFull, NoSleepOnQueuedLogs, qvars, fates
    <3>3. Room'
      BY <3>1, RoomUnchanged DEF QueueInv
    <3> QED
      BY <3>2, <3>3 DEF QueueInv
  <2> QED
    BY <2>1, <2>2, <2>3, <2>4, <2>5 DEF Next
<1> QED
  BY <1>1, <1>2, PTL DEF Spec

(***************************************************************************)
(* Type correctness of the handle and its threads.                         *)
(***************************************************************************)
THEOREM TypeCorrect == Spec => []TypeOK
<1>1. QueueInv => TypeOK
  BY DEF QueueInv
<1> QED
  BY <1>1, QueueInvariant, PTL

(***************************************************************************)
(* The queue never holds more than _maxCount logs and one per sender,      *)
(* although SendLog tests _isLogFull without the lock.                     *)
(***************************************************************************)
THEOREM QueueIsBounded == Spec => []QueueBounded
<1>1. QueueInv => QueueBounded
  <2> SUFFICES ASSUME QueueInv
               PROVE  Len(logList) <= MaxCount + N
    BY DEF QueueBounded, N
  <2>1. /\ N \in Nat /\ MaxCount \in Nat /\ Len(logList) \in Nat
        /\ Cardinality(At(spc, "enqueue")) \in Nat
    BY SendersCount, PlatformLogAssumption DEF QueueInv, TypeOK
  <2> QED
    BY <2>1 DEF QueueInv, Room, TypeOK
<1> QED
  BY <1>1, QueueInvariant, PTL

(***************************************************************************)
(* While the queue is not full, at most one refused call per sender hides  *)
(* in _logInCnt: the bound on what one batch loses without a report.       *)
(***************************************************************************)
THEOREM SilentRefusalsAreBounded == Spec => []SilentRefusalsBounded
<1>1. QueueInv => SilentRefusalsBounded
  <2> SUFFICES ASSUME QueueInv, ~isLogFull
               PROVE  logInCnt - Len(logList) <= N
    BY DEF SilentRefusalsBounded, N
  <2>1. /\ N \in Nat /\ logInCnt \in Nat /\ Len(logList) \in Nat
        /\ Cardinality(At(spc, "drop")) \in Nat
    BY SendersCount DEF QueueInv, TypeOK
  <2> QED
    BY <2>1 DEF QueueInv, Room
<1> QED
  BY <1>1, QueueInvariant, PTL

(***************************************************************************)
(* A batch is written only when it holds at most _maxCount logs, although  *)
(* the queue it was taken from may have held more.                         *)
(***************************************************************************)
THEOREM BatchesAreSized == Spec => []BatchWithinMaxCount
<1>1. QueueInv => BatchWithinMaxCount
  BY DEF QueueInv, Taken
<1> QED
  BY <1>1, QueueInvariant, PTL

(***************************************************************************)
(* A batch is deleted unwritten only when it is full up to the number of   *)
(* senders, although refused calls count as much as queued ones.           *)
(***************************************************************************)
THEOREM DiscardsAreNearlyFull == Spec => []DiscardOnlyNearlyFull
<1>1. QueueInv => DiscardOnlyNearlyFull
  BY DEF QueueInv, Taken
<1> QED
  BY <1>1, QueueInvariant, PTL

(***************************************************************************)
(* The work thread never sleeps while logs are queued: no wake-up of       *)
(* SendLog is lost.                                                        *)
(***************************************************************************)
THEOREM NoLogsSleptOn == Spec => []NoSleepOnQueuedLogs
<1>1. QueueInv => NoSleepOnQueuedLogs
  BY DEF QueueInv, Taken
<1> QED
  BY <1>1, QueueInvariant, PTL

-----------------------------------------------------------------------------
(***************************************************************************)
(* What becomes of the calls of SendLog: every id has one fate, the ids on *)
(* disk, in the batch and in the queue rise, and nothing is reported lost  *)
(* that is not.                                                            *)
(***************************************************************************)
Rising(s) == \A i, j \in DOMAIN s : i < j => s[i].id < s[j].id

Below(A, B) == \A a \in A, b \in B : a < b

LineType == [log : LogType, file : Int]

Kept == Ids(WrittenLogs) \cup Ids(batch) \cup Ids(logList)

Lost == refused \cup discarded

-----------------------------------------------------------------------------
(* The inductive invariant, beside QueueInv. *)

\* The three places, from the oldest log to the newest.
Placed ==
  /\ written \in Seq(LineType) /\ fp \in Int
  /\ wpc \notin {"report", "write"} => batch = <<>>
  /\ Rising(WrittenLogs) /\ Rising(batch) /\ Rising(logList)
  /\ Below(Ids(WrittenLogs), Ids(batch) \cup Ids(logList))
  /\ Below(Ids(batch), Ids(logList))

Fates ==
  /\ Lost \cup Kept = 1 .. id
  /\ refused \cap discarded = {}
  /\ Kept \cap Lost = {}

\* The calls that _logInCnt, or logCnt of a batch to be deleted, counts beside
\* the logs there are were refused.
Unreported ==
  logInCnt - Len(logList) + IF wpc = "report" THEN batchCnt - Len(batch) ELSE 0

Counted ==
  /\ IsFiniteSet(Lost)
  /\ reported + Unreported <= Cardinality(Lost)
  /\ wpc = "report" => Len(batch) <= batchCnt

OrderInv == Placed /\ Fates /\ Counted

-----------------------------------------------------------------------------
(* Sequences of logs, and their ids. *)

LEMMA NoIds == Ids(<<>>) = {} /\ Rising(<<>>)
  BY DEF Ids, Rising

LEMMA IdsOfAppend ==
  ASSUME NEW s \in Seq(LogType), NEW r \in LogType
  PROVE  /\ Ids(Append(s, r)) = Ids(s) \cup {r.id}
         /\ Rising(s) /\ (\A a \in Ids(s) : a < r.id) => Rising(Append(s, r))
<1> DEFINE t == Append(s, r)
<1>1. /\ DOMAIN s = 1 .. Len(s) /\ DOMAIN t = 1 .. Len(s) + 1
      /\ Len(s) \in Nat
      /\ \A i \in 1 .. Len(s) : t[i] = s[i]
      /\ t[Len(s) + 1] = r
  BY AppendProperties, LenProperties
<1> HIDE DEF t
<1>2. Ids(t) = Ids(s) \cup {r.id}
  <2>1. ASSUME NEW i \in DOMAIN t PROVE t[i].id \in Ids(s) \cup {r.id}
    <3>1. i \in DOMAIN s \/ i = Len(s) + 1
      BY <1>1
    <3> QED
      BY <1>1, <3>1 DEF Ids
  <2>2. ASSUME NEW i \in DOMAIN s PROVE s[i].id \in Ids(t)
    <3>1. i \in DOMAIN t /\ t[i] = s[i]
      BY <1>1
    <3> QED
      BY <3>1 DEF Ids
  <2>3. r.id \in Ids(t)
    <3>1. Len(s) + 1 \in DOMAIN t
      BY <1>1
    <3> QED
      BY <1>1, <3>1 DEF Ids
  <2> QED
    BY <2>1, <2>2, <2>3 DEF Ids
<1>3. Rising(s) /\ (\A a \in Ids(s) : a < r.id) => Rising(t)
  <2> SUFFICES ASSUME Rising(s), \A a \in Ids(s) : a < r.id,
                      NEW i \in DOMAIN t, NEW j \in DOMAIN t, i < j
               PROVE  t[i].id < t[j].id
    BY DEF Rising
  <2>1. i \in DOMAIN s /\ t[i] = s[i]
    BY <1>1
  <2>2. CASE j \in DOMAIN s
    BY <1>1, <2>1, <2>2 DEF Rising
  <2>3. CASE j = Len(s) + 1
    BY <1>1, <2>1, <2>3 DEF Ids
  <2> QED
    BY <1>1, <2>2, <2>3
<1> QED
  BY <1>2, <1>3 DEF t

LEMMA IdsOfTail ==
  ASSUME NEW s \in Seq(LogType), s # <<>>
  PROVE  /\ Ids(s) = {Head(s).id} \cup Ids(Tail(s))
         /\ Rising(s) => /\ Rising(Tail(s))
                         /\ \A a \in Ids(Tail(s)) : Head(s).id < a
<1> DEFINE t == Tail(s)
<1>1. /\ DOMAIN s = 1 .. Len(s) /\ DOMAIN t = 1 .. Len(s) - 1
      /\ Len(s) \in Nat \ {0}
      /\ \A i \in 1 .. Len(s) - 1 : t[i] = s[i + 1]
      /\ Head(s) = s[1]
  BY HeadTailProperties, LenProperties, EmptySeq
<1> HIDE DEF t
<1>2. Ids(s) = {Head(s).id} \cup Ids(t)
  <2>1. ASSUME NEW i \in DOMAIN s PROVE s[i].id \in {Head(s).id} \cup Ids(t)
    <3>1. CASE i = 1
      BY <1>1, <3>1
    <3>2. CASE i # 1
      <4>1. i - 1 \in DOMAIN t /\ t[i - 1] = s[i]
        BY <1>1, <3>2
      <4> QED
        BY <4>1 DEF Ids
    <3> QED
      BY <3>1, <3>2
  <2>2. ASSUME NEW i \in DOMAIN t PROVE t[i].id \in Ids(s)
    <3>1. i + 1 \in DOMAIN s /\ t[i] = s[i + 1]
      BY <1>1
    <3> QED
      BY <3>1 DEF Ids
  <2>3. Head(s).id \in Ids(s)
    <3>1. 1 \in DOMAIN s
      BY <1>1
    <3> QED
      BY <1>1, <3>1 DEF Ids
  <2> QED
    BY <2>1, <2>2, <2>3 DEF Ids
<1>3. ASSUME Rising(s) PROVE Rising(t)
  <2> SUFFICES ASSUME NEW i \in DOMAIN t, NEW j \in DOMAIN t, i < j
               PROVE  t[i].id < t[j].id
    BY DEF Rising
  <2>1. /\ i + 1 \in DOMAIN s /\ j + 1 \in DOMAIN s /\ i + 1 < j + 1
        /\ t[i] = s[i + 1] /\ t[j] = s[j + 1]
    BY <1>1
  <2> QED
    BY <1>3, <2>1 DEF Rising
<1>4. ASSUME Rising(s), NEW a \in Ids(t) PROVE Head(s).id < a
  <2>1. PICK i \in DOMAIN t : a = t[i].id
    BY DEF Ids
  <2>2. 1 \in DOMAIN s /\ i + 1 \in DOMAIN s /\ 1 < i + 1 /\ t[i] = s[i + 1]
    BY <1>1
  <2> QED
    BY <1>1, <1>4, <2>1, <2>2 DEF Rising
<1> QED
  BY <1>2, <1>3, <1>4 DEF t

LEMMA IdsOfConcat ==
  ASSUME NEW s \in Seq(LogType), NEW t \in Seq(LogType)
  PROVE  /\ s \o t \in Seq(LogType)
         /\ Ids(s \o t) = Ids(s) \cup Ids(t)
         /\ Rising(s) /\ Rising(t) /\ Below(Ids(s), Ids(t)) => Rising(s \o t)
<1> DEFINE u == s \o t
<1>1. /\ DOMAIN s = 1 .. Len(s) /\ DOMAIN t = 1 .. Len(t)
      /\ Len(s) \in Nat /\ Len(t) \in Nat
      /\ u \in Seq(LogType)
      /\ DOMAIN u = 1 .. Len(s) + Len(t)
      /\ \A i \in DOMAIN u : u[i] = IF i <= Len(s) THEN s[i] ELSE t[i - Len(s)]
  BY ConcatProperties, LenProperties
<1> HIDE DEF u
<1>2. Ids(u) = Ids(s) \cup Ids(t)
  <2>1. ASSUME NEW i \in DOMAIN u PROVE u[i].id \in Ids(s) \cup Ids(t)
    <3>1. \/ i \in DOMAIN s /\ u[i] = s[i]
          \/ i - Len(s) \in DOMAIN t /\ u[i] = t[i - Len(s)]
      BY <1>1
    <3> QED
      BY <3>1 DEF Ids
  <2>2. ASSUME NEW i \in DOMAIN s PROVE s[i].id \in Ids(u)
    <3>1. i \in DOMAIN u /\ u[i] = s[i]
      BY <1>1
    <3> QED
      BY <3>1 DEF Ids
  <2>3. ASSUME NEW i \in DOMAIN t PROVE t[i].id \in Ids(u)
    <3>1. i + Len(s) \in DOMAIN u /\ u[i + Len(s)] = t[i]
      BY <1>1
    <3> QED
      BY <3>1 DEF Ids
  <2> QED
    BY <2>1, <2>2, <2>3 DEF Ids
<1>3. ASSUME Rising(s), Rising(t), Below(Ids(s), Ids(t)) PROVE Rising(u)
  <2> SUFFICES ASSUME NEW i \in DOMAIN u, NEW j \in DOMAIN u, i < j
               PROVE  u[i].id < u[j].id
    BY DEF Rising
  <2>1. CASE i <= Len(s) /\ j <= Len(s)
    <3>1. i \in DOMAIN s /\ j \in DOMAIN s /\ u[i] = s[i] /\ u[j] = s[j]
      BY <1>1, <2>1
    <3> QED
      BY <1>3, <3>1 DEF Rising
  <2>2. CASE i <= Len(s) /\ j > Len(s)
    <3>1. i \in DOMAIN s /\ j - Len(s) \in DOMAIN t
          /\ u[i] = s[i] /\ u[j] = t[j - Len(s)]
      BY <1>1, <2>2
    <3> QED
      BY <1>3, <3>1 DEF Below, Ids
  <2>3. CASE i > Len(s)
    <3>1. /\ i - Len(s) \in DOMAIN t /\ j - Len(s) \in DOMAIN t
          /\ i - Len(s) < j - Len(s)
          /\ u[i] = t[i - Len(s)] /\ u[j] = t[j - Len(s)]
      BY <1>1, <2>3
    <3> QED
      BY <1>3, <3>1 DEF Rising
  <2> QED
    BY <1>1, <2>1, <2>2, <2>3
<1> QED
  BY <1>1, <1>2, <1>3 DEF u

\* Rising ids are as many as the logs.
LEMMA IdsAreMany ==
  ASSUME NEW s \in Seq(LogType), Rising(s)
  PROVE  IsFiniteSet(Ids(s)) /\ Cardinality(Ids(s)) = Len(s)
<1> DEFINE f == [i \in 1 .. Len(s) |-> s[i].id]
<1>1. DOMAIN s = 1 .. Len(s) /\ Len(s) \in Nat
  BY LenProperties
<1>2. \A i \in 1 .. Len(s) : s[i].id \in Nat
  <2>1. \A i \in 1 .. Len(s) : s[i] \in LogType
    BY ElementOfSeq
  <2> QED
    BY <2>1 DEF LogType
<1>3. f \in [1 .. Len(s) -> Ids(s)]
  BY <1>1 DEF Ids
<1>4. \A b \in Ids(s) : \E i \in 1 .. Len(s) : f[i] = b
  BY <1>1 DEF Ids
<1>5. \A i, j \in 1 .. Len(s) : f[i] = f[j] => i = j
  <2> SUFFICES ASSUME NEW i \in 1 .. Len(s), NEW j \in 1 .. Len(s), i # j
               PROVE  f[i] # f[j]
    OBVIOUS
  <2>1. i < j => f[i] < f[j]
    BY <1>1 DEF Rising
  <2>2. j < i => f[j] < f[i]
    BY <1>1 DEF Rising
  <2> QED
    BY <1>1, <1>2, <2>1, <2>2
<1>6. f \in Bijection(1 .. Len(s), Ids(s))
  BY <1>3, <1>4, <1>5 DEF Bijection, Injection, Surjection, IsInjective
<1>7. ExistsBijection(1 .. Len(s), Ids(s))
  BY <1>6 DEF ExistsBijection
<1>8. IsFiniteSet(1 .. Len(s)) /\ Cardinality(1 .. Len(s)) = Len(s)
  <2>1. \A n \in Nat : IF 1 > n THEN 0 = n ELSE n - 1 + 1 = n
    OBVIOUS
  <2>2. 1 \in Int /\ Len(s) \in Int /\ Len(s) \in Nat
    BY <1>1
  <2>3. /\ IsFiniteSet(1 .. Len(s))
        /\ Cardinality(1 .. Len(s)) = IF 1 > Len(s) THEN 0 ELSE Len(s) - 1 + 1
    BY <2>2, FS_Interval, Zenon
  <2> QED
    BY <2>1, <2>2, <2>3
<1> QED
  BY <1>7, <1>8, FS_Bijection

\* The lines on disk as logs.
LEMMA WrittenTyped ==
  ASSUME NEW w \in Seq(LineType)
  PROVE  [i \in DOMAIN w |-> w[i].log] \in Seq(LogType)
<1>1. DOMAIN w = 1 .. Len(w) /\ Len(w) \in Nat
  BY LenProperties
<1>2. \A i \in 1 .. Len(w) : w[i].log \in LogType
  <2>1. \A i \in 1 .. Len(w) : w[i] \in LineType
    BY ElementOfSeq
  <2> QED
    BY <2>1 DEF LineType
<1>3. [i \in 1 .. Len(w) |-> w[i].log] \in [1 .. Len(w) -> LogType]
  BY <1>2
<1> QED
  BY <1>1, <1>3, SeqDef

LEMMA LogsOfAppend ==
  ASSUME NEW w \in Seq(LineType), NEW line \in LineType
  PROVE  [i \in DOMAIN Append(w, line) |-> Append(w, line)[i].log]
           = Append([i \in DOMAIN w |-> w[i].log], line.log)
<1> DEFINE v == Append(w, line)
           l == [i \in DOMAIN w |-> w[i].log]
           k == [i \in DOMAIN v |-> v[i].log]
<1>1. /\ DOMAIN w = 1 .. Len(w) /\ Len(w) \in Nat
      /\ v \in Seq(LineType) /\ DOMAIN v = 1 .. Len(w) + 1
      /\ \A i \in 1 .. Len(w) : v[i] = w[i]
      /\ v[Len(w) + 1] = line
  BY AppendProperties, LenProperties
<1>2. l \in Seq(LogType) /\ k \in Seq(LogType) /\ line.log \in LogType
  BY <1>1, WrittenTyped DEF LineType
<1> HIDE DEF v
<1>3. DOMAIN l = 1 .. Len(w) /\ Len(l) = Len(w) /\ Len(k) = Len(w) + 1
  BY <1>1, <1>2, LenProperties
<1>4. /\ Append(l, line.log) \in Seq(LogType)
      /\ Len(Append(l, line.log)) = Len(w) + 1
      /\ \A i \in 1 .. Len(w) : Append(l, line.log)[i] = l[i]
      /\ Append(l, line.log)[Len(w) + 1] = line.log
  <2> HIDE DEF l
  <2> QED
    BY <1>2, <1>3, AppendProperties
<1>5. \A i \in 1 .. Len(w) + 1 : k[i] = Append(l, line.log)[i]
  BY <1>1, <1>4
<1>6. k = Append(l, line.log)
  <2> HIDE DEF l, k
  <2> QED
    BY <1>2, <1>3, <1>4, <1>5, SeqEqual
<1> QED
  BY <1>6 DEF v

-----------------------------------------------------------------------------
LEMMA OrderInit ==
  ASSUME Init
  PROVE  OrderInv
<1>1. /\ written = <<>> /\ fp = -1 /\ batch = <<>> /\ logList = <<>>
      /\ id = 0 /\ refused = {} /\ discarded = {} /\ reported = 0
      /\ logInCnt = 0 /\ wpc = "loop"
  BY DEF Init, File!Init, File!NoFile
<1>2. WrittenLogs = <<>>
  BY <1>1 DEF WrittenLogs
<1>3. Placed
  BY <1>1, <1>2, NoIds DEF Placed, Below
<1>4. Fates
  BY <1>1, <1>2, NoIds DEF Fates, Lost, Kept
<1>5. Counted
  <2>1. Lost = {}
    BY <1>1 DEF Lost
  <2>2. Len(logList) = 0
    BY <1>1
  <2>3. Unreported = 0
    <3>1. wpc # "report" /\ logInCnt = 0
      BY <1>1
    <3> QED
      BY <2>2, <3>1 DEF Unreported
  <2> QED
    BY <1>1, <2>1, <2>3, FS_EmptySet DEF Counted
<1> QED
  BY <1>3, <1>4, <1>5 DEF OrderInv

\* Steps that move no log.
LEMMA NoLogMoves ==
  ASSUME OrderInv, fp' \in Int,
         UNCHANGED <<id, logInCnt, logList, batch, batchCnt, written, refused,
                     discarded, reported>>,
         wpc' \notin {"report", "write"} => batch = <<>>,
         wpc' = "report" <=> wpc = "report"
  PROVE  OrderInv'
<1>1. UNCHANGED <<WrittenLogs, Lost, Kept>>
  BY DEF WrittenLogs, Lost, Kept, Ids
<1>2. Unreported' = Unreported
  BY DEF Unreported
<1>3. Placed'
  BY <1>1 DEF OrderInv, Placed, Rising, Below, Ids
<1>4. Fates'
  BY <1>1 DEF OrderInv, Fates
<1>5. Counted'
  BY <1>1, <1>2 DEF OrderInv, Counted
<1> QED
  BY <1>3, <1>4, <1>5 DEF OrderInv

\* The counters as numbers.
LEMMA CountsTyped ==
  ASSUME QueueInv, OrderInv
  PROVE  /\ id \in Nat /\ logInCnt \in Nat /\ batchCnt \in Nat /\ reported \in Nat
         /\ Len(logList) \in Nat /\ Len(batch) \in Nat
         /\ Len(logList) <= logInCnt
         /\ Unreported \in Nat
         /\ Cardinality(Lost) \in Nat
<1>1. /\ id \in Nat /\ logInCnt \in Nat /\ batchCnt \in Nat /\ reported \in Nat
      /\ Len(logList) \in Nat /\ Len(batch) \in Nat
      /\ Len(logList) <= logInCnt
  BY DEF QueueInv, TypeOK, Room
<1>2. Unreported \in Nat
  BY <1>1 DEF Unreported, OrderInv, Counted
<1>3. Cardinality(Lost) \in Nat
  BY FS_CardinalityType DEF OrderInv, Counted
<1> QED
  BY <1>1, <1>2, <1>3

LEMMA SendDropOrder ==
  ASSUME QueueInv, OrderInv, NEW s \in Senders, SendDrop(s)
  PROVE  OrderInv'
<1>1. /\ id' = id + 1 /\ logInCnt' = logInCnt + 1
      /\ refused' = refused \cup {id + 1}
      /\ UNCHANGED <<logList, wpc, batch, batchCnt, logHours, fp, written,
                     discarded, reported>>
  BY DEF SendDrop, filevars
<1>2. UNCHANGED <<WrittenLogs, Kept>>
  BY <1>1 DEF WrittenLogs, Kept, Ids
<1>3. Lost' = Lost \cup {id + 1}
  BY <1>1 DEF Lost
<1>4. /\ Lost \cup Kept = 1 .. id /\ id \in Nat
      /\ 1 .. id + 1 = 1 .. id \cup {id + 1}
      /\ id + 1 \notin 1 .. id
  BY CountsTyped DEF OrderInv, Fates
<1>5. id + 1 \notin Lost /\ id + 1 \notin Kept
  BY <1>4, Zenon
<1>6. Placed'
  BY <1>1, <1>2 DEF OrderInv, Placed, Rising, Below, Ids
<1>7. Fates'
  <2>1. Lost' \cup Kept' = 1 .. id'
    BY <1>1, <1>2, <1>3, <1>4, Zenon
  <2>2. refused' \cap discarded' = {}
    BY <1>1, <1>5 DEF OrderInv, Fates, Lost
  <2>3. Kept' \cap Lost' = {}
    BY <1>2, <1>3, <1>5 DEF OrderInv, Fates
  <2> QED
    BY <2>1, <2>2, <2>3 DEF Fates
<1>8. Counted'
  <2>1. Unreported' = Unreported + 1
    <3> PICK r : r = IF wpc = "report" THEN batchCnt - Len(batch) ELSE 0
      OBVIOUS
    <3>1. /\ logInCnt \in Nat /\ Len(logList) \in Nat
          /\ batchCnt \in Nat /\ Len(batch) \in Nat
      BY CountsTyped
    <3>2. Unreported = logInCnt - Len(logList) + r /\ r \in Int
      BY <3>1 DEF Unreported
    <3>3. Unreported' = (logInCnt + 1) - Len(logList) + r
      BY <1>1 DEF Unreported
    <3>4. \A n, l \in Nat : \A z \in Int : (n + 1) - l + z = (n - l + z) + 1
      OBVIOUS
    <3> QED
      BY <3>1, <3>2, <3>3, <3>4
  <2>2. IsFiniteSet(Lost') /\ Cardinality(Lost') = Cardinality(Lost) + 1
    BY <1>3, <1>5, FS_AddElement DEF OrderInv, Counted
  <2>3. reported + Unreported <= Cardinality(Lost) /\ (wpc = "report" => Len(batch) <= batchCnt)
    BY DEF OrderInv, Counted
  <2>4. reported + (Unreported + 1) <= Cardinality(Lost) + 1
    BY <2>3, CountsTyped
  <2> QED
    BY <1>1, <2>1, <2>2, <2>3, <2>4 DEF Counted
<1> QED
  BY <1>6, <1>7, <1>8 DEF OrderInv

LEMMA SendEnqueueOrder ==
  ASSUME QueueInv, OrderInv, NEW s \in Senders, SendEnqueue(s)
  PROVE  OrderInv'
<1>1. PICK t \in Times : logList' = Append(logList, [id |-> id + 1, time |-> t])
  BY DEF SendEnqueue
<1> DEFINE r == [id |-> id + 1, time |-> t]
<1>2. /\ id' = id + 1 /\ logInCnt' = logInCnt + 1
      /\ wpc' = IF wpc = "waiting" THEN "lock" ELSE wpc
      /\ UNCHANGED <<batch, batchCnt, fp, written, refused, discarded, reported>>
  BY DEF SendEnqueue, Notify, filevars, fates
<1>3. /\ id \in Nat /\ r \in LogType /\ r.id = id + 1
      /\ logList \in Seq(LogType)
  BY CountsTyped DEF LogType, QueueInv, TypeOK
<1> HIDE DEF r
<1>4. /\ Ids(logList') = Ids(logList) \cup {id + 1}
      /\ Len(logList') = Len(logList) + 1
      /\ Rising(logList) /\ (\A a \in Ids(logList) : a < id + 1) => Rising(logList')
  BY <1>1, <1>3, IdsOfAppend, AppendProperties DEF r
<1>5. UNCHANGED <<WrittenLogs, Lost, Ids(batch), Ids(WrittenLogs)>>
  BY <1>2 DEF WrittenLogs, Lost, Ids
<1>6. Kept' = Kept \cup {id + 1}
  BY <1>4, <1>5 DEF Kept
<1>7. /\ Lost \cup Kept = 1 .. id
      /\ 1 .. id + 1 = 1 .. id \cup {id + 1}
      /\ id + 1 \notin 1 .. id
      /\ \A a \in 1 .. id : a < id + 1
  BY <1>3 DEF OrderInv, Fates
<1>8. id + 1 \notin Lost /\ \A a \in Kept : a < id + 1
  BY <1>7, Zenon
<1>9. Placed'
  <2>1. Rising(logList')
    BY <1>4, <1>8 DEF OrderInv, Placed, Kept
  <2>2. /\ Below(Ids(WrittenLogs), Ids(batch) \cup Ids(logList'))
        /\ Below(Ids(batch), Ids(logList'))
    BY <1>4, <1>8 DEF OrderInv, Placed, Below, Kept
  <2>3. Rising(WrittenLogs)' /\ Rising(batch)'
    BY <1>2, <1>5 DEF OrderInv, Placed, Rising
  <2>4. wpc' \notin {"report", "write"} => batch' = <<>>
    BY <1>2 DEF OrderInv, Placed
  <2> QED
    BY <1>2, <1>5, <2>1, <2>2, <2>3, <2>4 DEF OrderInv, Placed
<1>10. Fates'
  <2>1. Lost' \cup Kept' = 1 .. id'
    BY <1>2, <1>5, <1>6, <1>7, Zenon
  <2>2. Kept' \cap Lost' = {}
    BY <1>5, <1>6, <1>8 DEF OrderInv, Fates
  <2> QED
    BY <1>2, <2>1, <2>2 DEF OrderInv, Fates
<1>11. Counted'
  <2>1. Unreported' = Unreported
    <3> PICK n : n = IF wpc = "report" THEN batchCnt - Len(batch) ELSE 0
      OBVIOUS
    <3>1. logInCnt \in Nat /\ Len(logList) \in Nat
      BY CountsTyped
    <3>2. Unreported = (logInCnt - Len(logList)) + n
      BY DEF Unreported
    <3>3. Unreported' = ((logInCnt + 1) - (Len(logList) + 1)) + n
      BY <1>2, <1>4 DEF Unreported
    <3>4. \A a, b \in Nat : (a + 1) - (b + 1) = a - b
      OBVIOUS
    <3> QED
      BY <3>1, <3>2, <3>3, <3>4
  <2> QED
    BY <1>2, <1>5, <2>1 DEF OrderInv, Counted
<1> QED
  BY <1>9, <1>10, <1>11 DEF OrderInv

LEMMA WorkTakeOrder ==
  ASSUME QueueInv, OrderInv, WorkTake
  PROVE  OrderInv'
<1>1. /\ wpc = "take" /\ wpc' \in {"report", "write"}
      /\ batch' = logList /\ batchCnt' = logInCnt
      /\ logList' = <<>> /\ logInCnt' = 0
      /\ UNCHANGED <<id, fp, written, refused, discarded, reported>>
  BY DEF WorkTake, ResetQueue, filevars, fates
<1>2. batch = <<>>
  BY <1>1 DEF OrderInv, Placed
<1>3. UNCHANGED <<WrittenLogs, Lost, Ids(WrittenLogs)>>
  BY <1>1 DEF WrittenLogs, Lost, Ids
<1>4. /\ Ids(batch) = {} /\ Ids(logList') = {} /\ Ids(batch') = Ids(logList)
      /\ Rising(logList')
  BY <1>1, <1>2, NoIds
<1>5. Kept' = Kept
  BY <1>3, <1>4 DEF Kept
<1>6. Placed'
  <2>1. Rising(WrittenLogs)' /\ Rising(batch)'
    BY <1>1, <1>3 DEF OrderInv, Placed, Rising
  <2> QED
    BY <1>1, <1>3, <1>4, <2>1 DEF OrderInv, Placed, Below
<1>7. Fates'
  BY <1>1, <1>3, <1>5 DEF OrderInv, Fates
<1>8. Counted'
  <2>1. Len(logList') = 0 /\ Len(batch') = Len(logList)
    BY <1>1
  <2>2. Unreported' \in Nat /\ Unreported' <= Unreported
    BY <1>1, <2>1, CountsTyped DEF Unreported
  <2> QED
    BY <1>1, <1>3, <2>1, <2>2, CountsTyped DEF OrderInv, Counted
<1> QED
  BY <1>6, <1>7, <1>8 DEF OrderInv

LEMMA WorkReportOrder ==
  ASSUME QueueInv, OrderInv, WorkReport
  PROVE  OrderInv'
<1>1. /\ wpc = "report" /\ wpc' = "loop"
      /\ reported' = reported + batchCnt
      /\ discarded' = discarded \cup Ids(batch)
      /\ batch' = <<>>
      /\ UNCHANGED <<id, logInCnt, logList, batchCnt, fp, written, refused>>
  BY DEF WorkReport, qvars, filevars
<1>2. UNCHANGED <<WrittenLogs, Ids(WrittenLogs), Ids(logList)>>
  BY <1>1 DEF WrittenLogs, Ids
<1>3. Ids(batch') = {} /\ Rising(batch')
  BY <1>1, NoIds
<1>4. /\ IsFiniteSet(Ids(batch)) /\ Cardinality(Ids(batch)) = Len(batch)
  BY IdsAreMany DEF OrderInv, Placed, QueueInv, TypeOK
<1>5. Lost' = Lost \cup Ids(batch)
  BY <1>1 DEF Lost
<1>6. Ids(batch) \cap Lost = {}
  BY DEF OrderInv, Fates, Kept
<1>7. /\ Ids(batch) \cap Ids(WrittenLogs) = {}
      /\ Ids(batch) \cap Ids(logList) = {}
  <2>1. \A a \in Ids(batch) \cup Ids(WrittenLogs) : a \in Int
    <3>1. Kept \subseteq 1 .. id
      BY DEF OrderInv, Fates
    <3> QED
      BY <3>1 DEF Kept
  <2> QED
    BY <2>1 DEF OrderInv, Placed, Below
<1>8. Placed'
  <2>1. Rising(WrittenLogs)' /\ Rising(logList)'
    BY <1>1, <1>2 DEF OrderInv, Placed, Rising
  <2> QED
    BY <1>1, <1>2, <1>3, <2>1 DEF OrderInv, Placed, Below
<1>9. Fates'
  <2>1. Kept' = Ids(WrittenLogs) \cup Ids(logList)
    BY <1>2, <1>3 DEF Kept
  <2>2. Lost' \cup Kept' = 1 .. id'
    BY <1>1, <1>5, <2>1 DEF OrderInv, Fates, Kept
  <2>3. refused' \cap discarded' = {}
    BY <1>1, <1>6 DEF OrderInv, Fates, Lost
  <2>4. Kept' \cap Lost' = {}
    BY <1>5, <1>7, <2>1 DEF OrderInv, Fates, Kept
  <2> QED
    BY <2>2, <2>3, <2>4 DEF Fates
<1>10. Counted'
  <2>1. Unreported' = Unreported - (batchCnt - Len(batch))
    BY <1>1, CountsTyped DEF Unreported
  <2>2. /\ IsFiniteSet(Lost')
        /\ Cardinality(Lost') = Cardinality(Lost) + Len(batch)
    <3>1. IsFiniteSet(Lost) /\ Lost \cap Ids(batch) = {}
      BY <1>6 DEF OrderInv, Counted
    <3>2. Cardinality(Lost \cap Ids(batch)) = 0
      BY <3>1, FS_EmptySet, Zenon
    <3>3. /\ IsFiniteSet(Lost \cup Ids(batch))
          /\ Cardinality(Lost \cup Ids(batch))
               = Cardinality(Lost) + Cardinality(Ids(batch))
                 - Cardinality(Lost \cap Ids(batch))
      BY <1>4, <3>1, FS_Union
    <3>4. Cardinality(Lost) \in Nat /\ Len(batch) \in Nat
      BY CountsTyped
    <3>5. Cardinality(Lost \cup Ids(batch)) = Cardinality(Lost) + Len(batch)
      BY <1>4, <3>1, <3>2, <3>3, <3>4
    <3> QED
      BY <1>5, <3>3, <3>5
  <2>3. /\ reported \in Nat /\ Unreported \in Nat /\ Cardinality(Lost) \in Nat
        /\ batchCnt \in Nat /\ Len(batch) \in Nat
    BY CountsTyped
  <2>4. reported + Unreported <= Cardinality(Lost)
    BY DEF OrderInv, Counted
  <2>5. \A r, u, l, n, b \in Nat :
          r + u <= l => (r + n) + (u - (n - b)) <= l + b
    OBVIOUS
  <2>6. reported' + Unreported' <= Cardinality(Lost')
    BY <1>1, <2>1, <2>2, <2>3, <2>4, <2>5
  <2> QED
    BY <1>1, <2>2, <2>6 DEF Counted
<1> QED
  BY <1>8, <1>9, <1>10 DEF OrderInv

LEMMA WorkWriteOrder ==
  ASSUME QueueInv, OrderInv, WorkWrite
  PROVE  OrderInv'
<1> DEFINE h == Head(batch)
<1>1. /\ wpc = "write" /\ wpc' = "write" /\ batch # <<>>
      /\ batch' = Tail(batch)
      /\ discarded' = IF fp' = -1 THEN discarded \cup {h.id} ELSE discarded
      /\ written' = IF fp' = -1 THEN written
                    ELSE Append(written, [log |-> h, file |-> fp'])
      /\ UNCHANGED <<id, logInCnt, logList, batchCnt, refused, reported>>
  BY DEF WorkWrite, File!WriteLog, File!PrintFile, File!NoFile, qvars
<1>2. /\ batch \in Seq(LogType) /\ h \in LogType
      /\ Tail(batch) \in Seq(LogType)
  BY <1>1, HeadTailProperties DEF QueueInv, TypeOK
<1>3. fp' \in Int
  <2>1. h.time \in Nat /\ Offset[h.time \div 2] \in Int
    BY <1>2, PlatformLogAssumption DEF LogType
  <2>2. File!LocalHour(h.time) \in Int
    BY <2>1 DEF File!LocalHour, File!LocalTime, File!UtcHour
  <2> QED
    BY <2>2 DEF WorkWrite, File!WriteLog, File!Update, File!KeepFile,
                File!ChangeFile, File!NoFile, OrderInv, Placed
<1>4. /\ Ids(batch) = {h.id} \cup Ids(batch')
      /\ Rising(batch') /\ \A a \in Ids(batch') : h.id < a
  BY <1>1, <1>2, IdsOfTail DEF OrderInv, Placed
<1>5. Ids(logList') = Ids(logList) /\ Rising(logList')
  BY <1>1 DEF OrderInv, Placed
<1>6. h.id \in Nat /\ Kept \subseteq 1 .. id /\ h.id \in Kept
  BY <1>2, <1>4 DEF LogType, OrderInv, Fates, Kept
<1>7. Unreported' = Unreported
  BY <1>1 DEF Unreported
<1>8. CASE fp' = -1
  <2>1. /\ UNCHANGED <<WrittenLogs, Ids(WrittenLogs)>>
        /\ Rising(WrittenLogs')
        /\ written' \in Seq(LineType)
    BY <1>1, <1>8 DEF WrittenLogs, Ids, Rising, OrderInv, Placed
  <2>2. Lost' = Lost \cup {h.id}
    BY <1>1, <1>8 DEF Lost
  <2>3. h.id \notin Lost
    BY <1>6 DEF OrderInv, Fates
  <2>4. /\ h.id \notin Ids(WrittenLogs) /\ h.id \notin Ids(batch')
        /\ h.id \notin Ids(logList)
    <3>1. h.id \in Nat /\ h.id \in Ids(batch)
      BY <1>4, <1>6
    <3>2. ~(h.id < h.id)
      BY <3>1
    <3>3. /\ \A a \in Ids(WrittenLogs) : a < h.id
          /\ \A a \in Ids(logList) : h.id < a
      BY <3>1 DEF OrderInv, Placed, Below
    <3> QED
      BY <1>4, <3>2, <3>3, Zenon
  <2>5. Placed'
    BY <1>1, <1>3, <1>4, <1>5, <2>1 DEF OrderInv, Placed, Below
  <2>6. Fates'
    <3>1. Kept' = Ids(WrittenLogs) \cup Ids(batch') \cup Ids(logList)
      BY <1>5, <2>1 DEF Kept
    <3>2. Lost' \cup Kept' = 1 .. id'
      BY <1>1, <1>4, <2>2, <3>1 DEF OrderInv, Fates, Kept
    <3>3. refused' \cap discarded' = {}
      BY <1>1, <1>8, <2>3 DEF OrderInv, Fates, Lost
    <3>4. Kept' \cap Lost' = {}
      BY <1>4, <2>2, <2>4, <3>1 DEF OrderInv, Fates, Kept
    <3> QED
      BY <3>2, <3>3, <3>4 DEF Fates
  <2>7. Counted'
    <3>1. IsFiniteSet(Lost') /\ Cardinality(Lost') = Cardinality(Lost) + 1
      BY <2>2, <2>3, FS_AddElement DEF OrderInv, Counted
    <3> QED
      BY <1>1, <1>7, <3>1, CountsTyped DEF OrderInv, Counted
  <2> QED
    BY <2>5, <2>6, <2>7 DEF OrderInv
<1>9. CASE fp' # -1
  <2> DEFINE line == [log |-> h, file |-> fp']
  <2>1. line \in LineType /\ written \in Seq(LineType) /\ line.log = h
    BY <1>2, <1>3 DEF LineType, OrderInv, Placed
  <2>2. written' = Append(written, line)
    BY <1>1, <1>9
  <2> HIDE DEF line
  <2>3. written' \in Seq(LineType) /\ WrittenLogs \in Seq(LogType)
    BY <2>1, <2>2, AppendProperties, WrittenTyped DEF WrittenLogs
  <2>4. WrittenLogs' = Append(WrittenLogs, h)
    BY <2>1, <2>2, LogsOfAppend DEF WrittenLogs
  <2>5. /\ Ids(WrittenLogs') = Ids(WrittenLogs) \cup {h.id}
        /\ Rising(WrittenLogs')
    <3>1. \A a \in Ids(WrittenLogs) : a < h.id
      BY <1>4 DEF OrderInv, Placed, Below
    <3> QED
      BY <1>2, <2>3, <2>4, <3>1, IdsOfAppend DEF OrderInv, Placed
  <2>6. Lost' = Lost
    BY <1>1, <1>9 DEF Lost
  <2>7. Kept' = Kept
    BY <1>4, <1>5, <2>5 DEF Kept
  <2>8. Placed'
    BY <1>1, <1>3, <1>4, <1>5, <2>3, <2>5 DEF OrderInv, Placed, Below
  <2>9. Fates'
    BY <1>1, <1>9, <2>6, <2>7 DEF OrderInv, Fates
  <2>10. Counted'
    BY <1>1, <1>7, <2>6 DEF OrderInv, Counted
  <2> QED
    BY <2>8, <2>9, <2>10 DEF OrderInv
<1> QED
  BY <1>8, <1>9

LEMMA StopJoinOrder ==
  ASSUME QueueInv, OrderInv, StopJoin
  PROVE  OrderInv'
<1>1. /\ wpc = "done" /\ wpc' = "done"
      /\ discarded' = discarded \cup Ids(logList)
      /\ logList' = <<>> /\ logInCnt' = 0
      /\ UNCHANGED <<id, batch, batchCnt, fp, written, refused, reported>>
  BY DEF StopJoin, filevars
<1>2. UNCHANGED <<WrittenLogs, Ids(WrittenLogs), Ids(batch)>>
  BY <1>1 DEF WrittenLogs, Ids
<1>3. batch = <<>> /\ Ids(batch) = {} /\ Ids(logList') = {} /\ Rising(logList')
  BY <1>1, NoIds DEF OrderInv, Placed
<1>4. Lost' = Lost \cup Ids(logList)
  BY <1>1 DEF Lost
<1>5. Ids(logList) \cap Lost = {}
  BY DEF OrderInv, Fates, Kept
<1>6. Ids(logList) \cap Ids(WrittenLogs) = {}
  <2>1. \A a \in Ids(logList) \cup Ids(WrittenLogs) : a \in Int
    <3>1. Kept \subseteq 1 .. id
      BY DEF OrderInv, Fates
    <3> QED
      BY <3>1 DEF Kept
  <2> QED
    BY <2>1 DEF OrderInv, Placed, Below
<1>7. Placed'
  <2>1. Rising(WrittenLogs)' /\ Rising(batch)'
    BY <1>1, <1>2 DEF OrderInv, Placed, Rising
  <2> QED
    BY <1>1, <1>2, <1>3, <2>1 DEF OrderInv, Placed, Below
<1>8. Fates'
  <2>1. Kept' = Ids(WrittenLogs)
    BY <1>2, <1>3 DEF Kept
  <2>2. Lost' \cup Kept' = 1 .. id'
    BY <1>1, <1>3, <1>4, <2>1 DEF OrderInv, Fates, Kept
  <2>3. refused' \cap discarded' = {}
    BY <1>1, <1>5 DEF OrderInv, Fates, Lost
  <2>4. Kept' \cap Lost' = {}
    BY <1>4, <1>6, <2>1 DEF OrderInv, Fates, Kept
  <2> QED
    BY <2>2, <2>3, <2>4 DEF Fates
<1>9. Counted'
  <2>1. Len(logList') = 0
    BY <1>1
  <2>2. Unreported' = 0
    <3>1. wpc' # "report" /\ logInCnt' = 0
      BY <1>1
    <3> QED
      BY <2>1, <3>1 DEF Unreported
  <2>3. /\ IsFiniteSet(Ids(logList)) /\ Cardinality(Ids(logList)) = Len(logList)
    BY IdsAreMany DEF OrderInv, Placed, QueueInv, TypeOK
  <2>4. IsFiniteSet(Lost') /\ Cardinality(Lost) <= Cardinality(Lost')
    <3>1. IsFiniteSet(Lost) /\ Lost \subseteq Lost'
      BY <1>4 DEF OrderInv, Counted
    <3>2. IsFiniteSet(Lost')
      BY <1>4, <2>3, <3>1, FS_Union
    <3> QED
      BY <3>1, <3>2, FS_Subset
  <2>5. Cardinality(Lost') \in Nat
    BY <2>4, FS_CardinalityType
  <2> QED
    BY <1>1, <2>2, <2>4, <2>5, CountsTyped DEF OrderInv, Counted
<1> QED
  BY <1>7, <1>8, <1>9 DEF OrderInv

\* The other steps move the threads and leave the logs where they are.
LEMMA OtherStepsOrder ==
  ASSUME QueueInv, OrderInv,
         \/ \E s \in Senders : SendCheck(s)
         \/ WorkLoop \/ WorkExit \/ WorkLock \/ WorkTest \/ WorkBlock
         \/ WorkBatchDone \/ SpuriousWake
         \/ StopStore \/ StopReady \/ StopNotify
         \/ UNCHANGED vars
  PROVE  OrderInv'
<1>1. UNCHANGED <<id, logInCnt, logList, batch, batchCnt, written, refused,
                  discarded, reported>>
  BY DEF SendCheck, WorkLoop, WorkExit, WorkLock, WorkTest, WorkBlock,
         WorkBatchDone, SpuriousWake, StopStore, StopReady, StopNotify, vars,
         qvars, fates, filevars, File!CloseFile
<1>2. fp' = fp \/ fp' = -1
  BY DEF SendCheck, WorkLoop, WorkExit, WorkLock, WorkTest, WorkBlock,
         WorkBatchDone, SpuriousWake, StopStore, StopReady, StopNotify, vars,
         filevars, File!CloseFile, File!NoFile
<1>3. \/ wpc' = wpc
      \/ wpc = "write" /\ wpc' = "loop" /\ batch = <<>>
      \/ wpc \notin {"report", "write"} /\ wpc' \notin {"report", "write"}
  BY DEF SendCheck, WorkLoop, WorkExit, WorkLock, WorkTest, WorkBlock,
         WorkBatchDone, SpuriousWake, StopStore, StopReady, StopNotify, Notify,
         vars
<1>4. fp' \in Int
  BY <1>2 DEF OrderInv, Placed
<1>5. wpc' \notin {"report", "write"} => batch = <<>>
  BY <1>3 DEF OrderInv, Placed
<1>6. wpc' = "report" <=> wpc = "report"
  BY <1>3
<1> QED
  BY <1>1, <1>4, <1>5, <1>6, NoLogMoves

-----------------------------------------------------------------------------
(***************************************************************************)
(* The inductive invariant: where the logs are, what became of the calls,  *)
(* and what the counters owe to the count of what is lost.                 *)
(***************************************************************************)
THEOREM OrderInvariant == Spec => []OrderInv
<1>1. Init => OrderInv
  BY OrderInit
<1>2. QueueInv /\ OrderInv /\ [Next]_vars => OrderInv'
  <2> SUFFICES ASSUME QueueInv, OrderInv, [Next]_vars
               PROVE  OrderInv'
    OBVIOUS
  <2>1. ASSUME NEW s \in Senders, Send(s)
        PROVE  OrderInv'
    BY <2>1, SendDropOrder, SendEnqueueOrder, OtherStepsOrder DEF Send
  <2>2. CASE Work
    BY <2>2, WorkTakeOrder, WorkReportOrder, WorkWriteOrder, OtherStepsOrder
       DEF Work
  <2>3. CASE Stop
    BY <2>3, StopJoinOrder, OtherStepsOrder DEF Stop
  <2>4. CASE SpuriousWake \/ UNCHANGED vars
    BY <2>4, OtherStepsOrder
  <2> QED
    BY <2>1, <2>2, <2>3, <2>4 DEF Next
<1> QED
  BY <1>1, <1>2, QueueInvariant, PTL DEF Spec

\* All logs in one sequence.
LEMMA AllLogsTyped ==
  ASSUME QueueInv, OrderInv
  PROVE  AllLogs \in Seq(LogType) /\ Ids(AllLogs) = Kept /\ Rising(AllLogs)
<1>1. /\ WrittenLogs \in Seq(LogType)
      /\ batch \in Seq(LogType) /\ logList \in Seq(LogType)
  BY WrittenTyped DEF OrderInv, Placed, WrittenLogs, QueueInv, TypeOK
<1>2. /\ WrittenLogs \o batch \in Seq(LogType)
      /\ Ids(WrittenLogs \o batch) = Ids(WrittenLogs) \cup Ids(batch)
      /\ Rising(WrittenLogs \o batch)
  BY <1>1, IdsOfConcat DEF OrderInv, Placed, Below
<1>3. Below(Ids(WrittenLogs \o batch), Ids(logList))
  BY <1>2 DEF OrderInv, Placed, Below
<1>4. /\ (WrittenLogs \o batch) \o logList \in Seq(LogType)
      /\ Ids((WrittenLogs \o batch) \o logList) = Kept
      /\ Rising((WrittenLogs \o batch) \o logList)
  BY <1>1, <1>2, <1>3, IdsOfConcat DEF OrderInv, Placed, Kept
<1> QED
  BY <1>4 DEF AllLogs

(***************************************************************************)
(* The lines on disk, the batch and the queue are in the order of the ids, *)
(* whoever sends, however often the queue overflows or a file fails.       *)
(***************************************************************************)
THEOREM IdOrderIsKept == Spec => []WrittenInIdOrder
<1>1. QueueInv /\ OrderInv => WrittenInIdOrder
  BY AllLogsTyped DEF WrittenInIdOrder, Rising
<1> QED
  BY <1>1, QueueInvariant, OrderInvariant, PTL

(***************************************************************************)
(* A call counted by _id has exactly one fate, and the counts printed as   *)
(* lost never exceed what was lost, although _logInCnt is cut off and      *)
(* reset without regard to the senders about to be refused.                *)
(***************************************************************************)
THEOREM FatesAreUnique == Spec => []OneFateEach
<1>1. QueueInv /\ OrderInv => OneFateEach
  <2> SUFFICES ASSUME QueueInv, OrderInv
               PROVE  OneFateEach
    OBVIOUS
  <2>1. Ids(AllLogs) = Kept
    BY AllLogsTyped
  <2>2. reported <= Cardinality(refused \cup discarded)
    BY CountsTyped DEF OrderInv, Counted, Lost
  <2> QED
    BY <2>1, <2>2 DEF OneFateEach, OrderInv, Fates, Lost
<1> QED
  BY <1>1, QueueInvariant, OrderInvariant, PTL

-----------------------------------------------------------------------------
(***************************************************************************)
(* The threads of a log handle do nothing that LogService does not allow:  *)
(* every state they start in and every step they take is one of LogService *)
(* or leaves what LogService speaks of as it is.                           *)
(***************************************************************************)
-----------------------------------------------------------------------------
(* Sequences of numbers. *)

LEMMA TailOfConcat ==
  ASSUME NEW p \in Seq(Nat), NEW q \in Seq(Nat), p # <<>>
  PROVE  Head(p \o q) = Head(p) /\ Tail(p \o q) = Tail(p) \o q /\ p \o q # <<>>
<1>1. /\ Len(p) \in Nat \ {0} /\ Len(q) \in Nat
      /\ Tail(p) \in Seq(Nat) /\ Len(Tail(p)) = Len(p) - 1
      /\ \A i \in 1 .. Len(p) - 1 : Tail(p)[i] = p[i + 1]
      /\ Head(p) = p[1]
  BY HeadTailProperties, EmptySeq, LenProperties
<1>2. /\ p \o q \in Seq(Nat) /\ Len(p \o q) = Len(p) + Len(q)
      /\ \A i \in 1 .. Len(p) + Len(q) :
           (p \o q)[i] = IF i <= Len(p) THEN p[i] ELSE q[i - Len(p)]
  BY <1>1, ConcatProperties
<1>3. p \o q # <<>>
  BY <1>1, <1>2
<1>4. Head(p \o q) = Head(p)
  BY <1>1, <1>2, <1>3
<1>5. /\ Tail(p \o q) \in Seq(Nat) /\ Len(Tail(p \o q)) = Len(p) + Len(q) - 1
      /\ \A i \in 1 .. Len(p) + Len(q) - 1 : Tail(p \o q)[i] = (p \o q)[i + 1]
  BY <1>1, <1>2, <1>3, HeadTailProperties
<1>6. /\ Tail(p) \o q \in Seq(Nat) /\ Len(Tail(p) \o q) = Len(p) + Len(q) - 1
      /\ \A i \in 1 .. Len(p) + Len(q) - 1 :
           (Tail(p) \o q)[i] = IF i <= Len(p) - 1 THEN Tail(p)[i] ELSE q[i - Len(p) + 1]
  <2>1. \A i \in 1 .. Len(Tail(p)) + Len(q) :
          (Tail(p) \o q)[i] = IF i <= Len(Tail(p)) THEN Tail(p)[i] ELSE q[i - Len(Tail(p))]
    BY <1>1, ConcatProperties
  <2>2. Tail(p) \o q \in Seq(Nat) /\ Len(Tail(p) \o q) = Len(Tail(p)) + Len(q)
    BY <1>1, ConcatProperties
  <2>3. \A i \in Int : i - (Len(p) - 1) = i - Len(p) + 1
    BY <1>1
  <2> QED
    BY <1>1, <2>1, <2>2, <2>3
<1>7. \A i \in 1 .. Len(p) + Len(q) - 1 : Tail(p \o q)[i] = (Tail(p) \o q)[i]
  <2> SUFFICES ASSUME NEW i \in 1 .. Len(p) + Len(q) - 1
               PROVE  Tail(p \o q)[i] = (Tail(p) \o q)[i]
    OBVIOUS
  <2>1. /\ i + 1 \in 1 .. Len(p) + Len(q)
        /\ Tail(p \o q)[i] = IF i + 1 <= Len(p) THEN p[i + 1] ELSE q[(i + 1) - Len(p)]
    <3>1. i + 1 \in 1 .. Len(p) + Len(q)
      BY <1>1
    <3>2. Tail(p \o q)[i] = (p \o q)[i + 1]
      BY <1>5
    <3> QED
      BY <1>2, <3>1, <3>2
  <2>2. (i + 1) - Len(p) = i - Len(p) + 1
    BY <1>1
  <2> QED
    BY <1>1, <1>6, <2>1, <2>2
<1>8. Tail(p \o q) = Tail(p) \o q
  BY <1>1, <1>5, <1>6, <1>7, SeqEqual
<1> QED
  BY <1>3, <1>4, <1>8

LEMMA AppendToConcat ==
  ASSUME NEW p \in Seq(Nat), NEW q \in Seq(Nat), NEW e \in Nat
  PROVE  p \o Append(q, e) = Append(p \o q, e)
<1> DEFINE u == p \o q
<1>1. u \in Seq(Nat) /\ <<e>> \in Seq(Nat)
  BY ConcatProperties
<1> HIDE DEF u
<1>2. Append(q, e) = q \o <<e>> /\ Append(u, e) = u \o <<e>>
  BY <1>1, AppendIsConcat
<1>3. u \o <<e>> = p \o (q \o <<e>>)
  BY <1>1, ConcatAssociative DEF u
<1> QED
  BY <1>2, <1>3 DEF u

LEMMA RestOfConcat ==
  ASSUME NEW p \in Seq(Nat), NEW q \in Seq(Nat)
  PROVE  /\ Len(p \o q) = Len(p) + Len(q)
         /\ SubSeq(p \o q, Len(p) + 1, Len(p \o q)) = q
         /\ {(p \o q)[i] : i \in 1 .. Len(p)} = {p[i] : i \in DOMAIN p}
<1> DEFINE u == p \o q
           r == SubSeq(u, Len(p) + 1, Len(u))
<1>1. /\ Len(p) \in Nat /\ Len(q) \in Nat /\ DOMAIN p = 1 .. Len(p)
      /\ u \in Seq(Nat) /\ Len(u) = Len(p) + Len(q)
      /\ \A i \in 1 .. Len(p) + Len(q) :
           u[i] = IF i <= Len(p) THEN p[i] ELSE q[i - Len(p)]
  BY ConcatProperties, LenProperties
<1> HIDE DEF u
<1>2. /\ r \in Seq(Nat)
      /\ Len(r) = IF Len(p) + 1 <= Len(u) THEN Len(u) - (Len(p) + 1) + 1 ELSE 0
      /\ \A i \in 1 .. Len(u) - (Len(p) + 1) + 1 : r[i] = u[(Len(p) + 1) + i - 1]
  <2>1. \A i \in Len(p) + 1 .. Len(u) : u[i] \in Nat
    <3>1. \A i \in 1 .. Len(u) : u[i] \in Nat
      BY <1>1, ElementOfSeq
    <3>2. \A i \in Len(p) + 1 .. Len(u) : i \in 1 .. Len(u)
      BY <1>1
    <3> QED
      BY <3>1, <3>2
  <2>2. Len(p) + 1 \in Int /\ Len(u) \in Int
    BY <1>1
  <2> QED
    BY <2>1, <2>2, SubSeqProperties
<1> HIDE DEF r
<1>3. Len(r) = Len(q)
  BY <1>1, <1>2
<1>4. \A i \in 1 .. Len(q) : r[i] = q[i]
  <2> SUFFICES ASSUME NEW i \in 1 .. Len(q) PROVE r[i] = q[i]
    OBVIOUS
  <2>1. /\ i \in 1 .. Len(u) - (Len(p) + 1) + 1
        /\ (Len(p) + 1) + i - 1 = Len(p) + i
        /\ Len(p) + i \in 1 .. Len(p) + Len(q)
        /\ ~(Len(p) + i <= Len(p)) /\ (Len(p) + i) - Len(p) = i
    BY <1>1
  <2> QED
    BY <1>1, <1>2, <2>1
<1>5. r = q
  BY <1>2, <1>3, <1>4, SeqEqual
<1>6. {u[i] : i \in 1 .. Len(p)} = {p[i] : i \in DOMAIN p}
  <2>1. \A i \in 1 .. Len(p) : u[i] = p[i]
    BY <1>1
  <2> QED
    BY <1>1, <2>1
<1> QED
  BY <1>1, <1>5, <1>6 DEF r, u

-----------------------------------------------------------------------------
(* The ids of sequences of logs. *)

LEMMA IdSeqTyped ==
  ASSUME NEW s \in Seq(LogType)
  PROVE  /\ IdSeq(s) \in Seq(Nat) /\ Len(IdSeq(s)) = Len(s)
         /\ \A i \in 1 .. Len(s) : IdSeq(s)[i] = s[i].id
         /\ {IdSeq(s)[i] : i \in DOMAIN IdSeq(s)} = Ids(s)
         /\ IdSeq(s) = <<>> <=> s = <<>>
<1>1. DOMAIN s = 1 .. Len(s) /\ Len(s) \in Nat
  BY LenProperties
<1>2. \A i \in 1 .. Len(s) : s[i].id \in Nat
  <2>1. \A i \in 1 .. Len(s) : s[i] \in LogType
    BY ElementOfSeq
  <2> QED
    BY <2>1 DEF LogType
<1>3. /\ IdSeq(s) \in [1 .. Len(s) -> Nat]
      /\ \A i \in 1 .. Len(s) : IdSeq(s)[i] = s[i].id
  BY <1>1, <1>2 DEF IdSeq
<1>4. IdSeq(s) \in Seq(Nat)
  BY <1>1, <1>3, SeqDef
<1>5. Len(IdSeq(s)) = Len(s)
  BY <1>1, <1>3, <1>4, LenProperties
<1>6. {IdSeq(s)[i] : i \in DOMAIN IdSeq(s)} = Ids(s)
  BY <1>1, <1>3 DEF Ids
<1>7. IdSeq(s) = <<>> <=> s = <<>>
  BY <1>4, <1>5, EmptySeq
<1> QED
  BY <1>3, <1>4, <1>5, <1>6, <1>7

LEMMA IdSeqOfAppend ==
  ASSUME NEW s \in Seq(LogType), NEW r \in LogType
  PROVE  IdSeq(Append(s, r)) = Append(IdSeq(s), r.id)
<1> DEFINE t == Append(s, r)
<1>1. /\ t \in Seq(LogType) /\ Len(t) = Len(s) + 1 /\ Len(s) \in Nat
      /\ \A i \in 1 .. Len(s) : t[i] = s[i]
      /\ t[Len(s) + 1] = r
  BY AppendProperties, LenProperties
<1> HIDE DEF t
<1>2. /\ IdSeq(t) \in Seq(Nat) /\ Len(IdSeq(t)) = Len(s) + 1
      /\ \A i \in 1 .. Len(s) + 1 : IdSeq(t)[i] = t[i].id
  BY <1>1, IdSeqTyped
<1>3. /\ IdSeq(s) \in Seq(Nat) /\ Len(IdSeq(s)) = Len(s)
      /\ \A i \in 1 .. Len(s) : IdSeq(s)[i] = s[i].id
      /\ r.id \in Nat
  BY IdSeqTyped DEF LogType
<1> DEFINE u == Append(IdSeq(s), r.id)
<1>4. /\ u \in Seq(Nat) /\ Len(u) = Len(s) + 1
      /\ \A i \in 1 .. Len(s) : u[i] = IdSeq(s)[i]
      /\ u[Len(s) + 1] = r.id
  BY <1>3, AppendProperties
<1> HIDE DEF u
<1>5. \A i \in 1 .. Len(s) + 1 : IdSeq(t)[i] = u[i]
  <2> SUFFICES ASSUME NEW i \in 1 .. Len(s) + 1 PROVE IdSeq(t)[i] = u[i]
    OBVIOUS
  <2>1. i \in 1 .. Len(s) \/ i = Len(s) + 1
    BY <1>1
  <2> QED
    BY <1>1, <1>2, <1>3, <1>4, <2>1
<1>6. IdSeq(t) = u
  BY <1>2, <1>4, <1>5, SeqEqual
<1> QED
  BY <1>6 DEF t, u

LEMMA IdSeqOfTail ==
  ASSUME NEW s \in Seq(LogType), s # <<>>
  PROVE  IdSeq(Tail(s)) = Tail(IdSeq(s)) /\ Head(IdSeq(s)) = Head(s).id
<1> DEFINE t == Tail(s)
           u == Tail(IdSeq(s))
<1>1. /\ t \in Seq(LogType) /\ Len(t) = Len(s) - 1 /\ Len(s) \in Nat \ {0}
      /\ \A i \in 1 .. Len(s) - 1 : t[i] = s[i + 1]
      /\ Head(s) = s[1]
  BY HeadTailProperties, LenProperties, EmptySeq
<1> HIDE DEF t
<1>2. /\ IdSeq(t) \in Seq(Nat) /\ Len(IdSeq(t)) = Len(s) - 1
      /\ \A i \in 1 .. Len(s) - 1 : IdSeq(t)[i] = t[i].id
  BY <1>1, IdSeqTyped
<1>3. /\ IdSeq(s) \in Seq(Nat) /\ Len(IdSeq(s)) = Len(s)
      /\ \A i \in 1 .. Len(s) : IdSeq(s)[i] = s[i].id
      /\ IdSeq(s) # <<>>
  BY IdSeqTyped
<1>4. /\ u \in Seq(Nat) /\ Len(u) = Len(s) - 1
      /\ \A i \in 1 .. Len(s) - 1 : u[i] = IdSeq(s)[i + 1]
      /\ Head(IdSeq(s)) = IdSeq(s)[1]
  BY <1>3, HeadTailProperties
<1> HIDE DEF u
<1>5. \A i \in 1 .. Len(s) - 1 : IdSeq(t)[i] = u[i]
  <2> SUFFICES ASSUME NEW i \in 1 .. Len(s) - 1 PROVE IdSeq(t)[i] = u[i]
    OBVIOUS
  <2>1. i + 1 \in 1 .. Len(s)
    BY <1>1
  <2> QED
    BY <1>1, <1>2, <1>3, <1>4, <2>1
<1>6. IdSeq(t) = u
  BY <1>2, <1>4, <1>5, SeqEqual
<1>7. Head(IdSeq(s)) = Head(s).id
  BY <1>1, <1>3, <1>4
<1> QED
  BY <1>6, <1>7 DEF t, u

LEMMA IdSeqOfConcat ==
  ASSUME NEW s \in Seq(LogType), NEW t \in Seq(LogType)
  PROVE  IdSeq(s \o t) = IdSeq(s) \o IdSeq(t)
<1> DEFINE u == s \o t
           v == IdSeq(s) \o IdSeq(t)
<1>1. /\ Len(s) \in Nat /\ Len(t) \in Nat
      /\ u \in Seq(LogType) /\ Len(u) = Len(s) + Len(t)
      /\ \A i \in 1 .. Len(s) + Len(t) : u[i] = IF i <= Len(s) THEN s[i] ELSE t[i - Len(s)]
  BY ConcatProperties, LenProperties
<1> HIDE DEF u
<1>2. /\ IdSeq(u) \in Seq(Nat) /\ Len(IdSeq(u)) = Len(s) + Len(t)
      /\ \A i \in 1 .. Len(s) + Len(t) : IdSeq(u)[i] = u[i].id
  BY <1>1, IdSeqTyped
<1>3. /\ IdSeq(s) \in Seq(Nat) /\ Len(IdSeq(s)) = Len(s)
      /\ \A i \in 1 .. Len(s) : IdSeq(s)[i] = s[i].id
      /\ IdSeq(t) \in Seq(Nat) /\ Len(IdSeq(t)) = Len(t)
      /\ \A i \in 1 .. Len(t) : IdSeq(t)[i] = t[i].id
  BY IdSeqTyped
<1>4. /\ v \in Seq(Nat) /\ Len(v) = Len(s) + Len(t)
      /\ \A i \in 1 .. Len(s) + Len(t) :
           v[i] = IF i <= Len(s) THEN IdSeq(s)[i] ELSE IdSeq(t)[i - Len(s)]
  BY <1>3, ConcatProperties
<1> HIDE DEF v
<1>5. \A i \in 1 .. Len(s) + Len(t) : IdSeq(u)[i] = v[i]
  <2> SUFFICES ASSUME NEW i \in 1 .. Len(s) + Len(t) PROVE IdSeq(u)[i] = v[i]
    OBVIOUS
  <2>1. CASE i <= Len(s)
    <3>1. i \in 1 .. Len(s)
      BY <1>1, <2>1
    <3> QED
      BY <1>1, <1>2, <1>3, <1>4, <2>1, <3>1
  <2>2. CASE ~(i <= Len(s))
    <3>1. i - Len(s) \in 1 .. Len(t)
      BY <1>1, <2>2
    <3> QED
      BY <1>1, <1>2, <1>3, <1>4, <2>2, <3>1
  <2> QED
    BY <2>1, <2>2
<1>6. IdSeq(u) = v
  BY <1>2, <1>4, <1>5, SeqEqual
<1> QED
  BY <1>6 DEF u, v

-----------------------------------------------------------------------------
(* What the variables of LogService stand for. *)

Pending == IdSeq(batch \o logList)

Settled == IdSeq(WrittenLogs)

Closed == stopPc = "done"

(***************************************************************************)
(* A batch is a queue that was taken, so that both together stay within    *)
(* the capacity of the service.                                            *)
(***************************************************************************)
BatchBounded == Len(batch) <= MaxCount + N

LEMMA QueueBound ==
  ASSUME QueueInv
  PROVE  /\ Len(logList) \in Nat /\ Len(batch) \in Nat
         /\ MaxCount \in Nat \ {0} /\ N \in Nat
         /\ Len(logList) <= MaxCount + N
         /\ (\E s \in Senders : spc[s] = "enqueue") => Len(logList) < MaxCount + N
<1>1. /\ Len(logList) \in Nat /\ Len(batch) \in Nat
      /\ MaxCount \in Nat \ {0} /\ N \in Nat
  BY SendersCount, PlatformLogAssumption DEF QueueInv, TypeOK
<1>2. /\ Cardinality(At(spc, "enqueue")) \in Nat
      /\ Cardinality(At(spc, "enqueue")) <= N
      /\ IsFiniteSet(At(spc, "enqueue"))
  BY SendersCount
<1>3. Len(logList) <= MaxCount + N
  BY <1>1, <1>2 DEF QueueInv, Room
<1>4. ASSUME NEW s \in Senders, spc[s] = "enqueue"
      PROVE  Len(logList) < MaxCount + N
  <2>1. Cardinality(At(spc, "enqueue")) # 0
    <3>1. s \in At(spc, "enqueue")
      BY <1>4 DEF At
    <3> QED
      BY <1>2, <3>1, FS_EmptySet
  <2> QED
    BY <1>1, <1>2, <2>1 DEF QueueInv, Room
<1> QED
  BY <1>1, <1>3, <1>4

LEMMA BatchBoundedInvariant == Spec => []BatchBounded
<1>1. Init => BatchBounded
  <2> SUFFICES ASSUME Init PROVE BatchBounded
    OBVIOUS
  <2>1. batch = <<>>
    BY DEF Init
  <2>2. Len(batch) = 0
    BY <2>1
  <2> QED
    BY <2>2, SendersCount, PlatformLogAssumption DEF BatchBounded
<1>2. QueueInv /\ BatchBounded /\ [Next]_vars => BatchBounded'
  <2> SUFFICES ASSUME QueueInv, BatchBounded, [Next]_vars
               PROVE  Len(batch') <= MaxCount + N
    BY DEF BatchBounded, N
  <2>1. \/ batch' = batch \/ batch' = logList \/ batch' = <<>>
        \/ batch # <<>> /\ batch' = Tail(batch)
    BY DEF Next, Send, SendCheck, SendDrop, SendEnqueue, Work, WorkLoop, WorkExit,
           WorkLock, WorkTest, WorkBlock, WorkTake, WorkReport, WorkWrite,
           WorkBatchDone, SpuriousWake, Stop, StopStore, StopReady, StopNotify,
           StopJoin, vars
  <2>2. CASE batch' = batch \/ batch' = logList
    BY <2>2, QueueBound DEF BatchBounded
  <2>3. CASE batch' = <<>>
    <3>1. Len(batch') = 0
      BY <2>3
    <3> QED
      BY <3>1, QueueBound
  <2>4. CASE batch # <<>> /\ batch' = Tail(batch)
    <3>1. Len(batch') = Len(batch) - 1
      BY <2>4, HeadTailProperties DEF QueueInv, TypeOK
    <3> QED
      BY <3>1, QueueBound DEF BatchBounded
  <2> QED
    BY <2>1, <2>2, <2>3, <2>4
<1> QED
  BY <1>1, <1>2, QueueInvariant, PTL DEF Spec

LEMMA PlacesTyped ==
  ASSUME QueueInv, OrderInv
  PROVE  /\ batch \in Seq(LogType) /\ logList \in Seq(LogType)
         /\ WrittenLogs \in Seq(LogType)
         /\ Pending = IdSeq(batch) \o IdSeq(logList)
         /\ IdSeq(batch) \in Seq(Nat) /\ IdSeq(logList) \in Seq(Nat)
         /\ id \in Nat
<1>1. /\ batch \in Seq(LogType) /\ logList \in Seq(LogType)
      /\ WrittenLogs \in Seq(LogType)
  BY WrittenTyped DEF OrderInv, Placed, WrittenLogs, QueueInv, TypeOK
<1> QED
  BY <1>1, IdSeqTyped, IdSeqOfConcat, CountsTyped DEF Pending

-----------------------------------------------------------------------------
(* Each step of the threads as a step of the service. *)

LEMMA InitIsServiceInit ==
  ASSUME Init
  PROVE  Service!Init
<1>1. /\ id = 0 /\ written = <<>> /\ batch = <<>> /\ logList = <<>>
      /\ refused = {} /\ discarded = {} /\ stopPc = "idle"
  BY DEF Init, File!Init
<1>2. <<>> \in Seq(LogType)
  OBVIOUS
<1>3. IdSeq(<<>>) = <<>>
  BY <1>2, IdSeqTyped
<1>4. batch \o logList = <<>>
  BY <1>1, <1>2, ConcatEmptySeq
<1>5. WrittenLogs = <<>>
  BY <1>1 DEF WrittenLogs
<1> QED
  BY <1>1, <1>3, <1>4, <1>5 DEF Service!Init

LEMMA DropIsRefuse ==
  ASSUME QueueInv, OrderInv, NEW s \in Senders, SendDrop(s)
  PROVE  Service!Refuse
<1>1. stopPc = "idle" /\ stopPc' = "idle"
  BY DEF SendDrop, QueueInv, Control
<1>2. /\ id' = id + 1
      /\ refused' = refused \cup {id'}
      /\ UNCHANGED <<batch, logList, written, discarded>>
  BY DEF SendDrop, filevars
<1>3. WrittenLogs' = WrittenLogs
  BY <1>2 DEF WrittenLogs
<1>4. (refused \cup discarded)' = (refused \cup discarded) \cup {id'}
  BY <1>2
<1> QED
  BY <1>1, <1>2, <1>3, <1>4 DEF Service!Refuse, IdSeq

LEMMA EnqueueIsAccept ==
  ASSUME QueueInv, OrderInv, BatchBounded, NEW s \in Senders, SendEnqueue(s)
  PROVE  Service!Accept
<1>1. stopPc = "idle" /\ stopPc' = "idle"
  BY DEF SendEnqueue, QueueInv, Control
<1>2. PICK t \in Times : logList' = Append(logList, [id |-> id', time |-> t])
  BY DEF SendEnqueue
<1>3. /\ id' = id + 1
      /\ UNCHANGED <<batch, written, refused, discarded>>
  BY DEF SendEnqueue, filevars, fates
<1>4. WrittenLogs' = WrittenLogs
  BY <1>3 DEF WrittenLogs
<1> DEFINE r == [id |-> id', time |-> t]
<1>5. r \in LogType /\ r.id = id' /\ id' \in Nat
  BY <1>3, PlacesTyped DEF LogType
<1> HIDE DEF r
<1>6. logList' = Append(logList, r) /\ logList' \in Seq(LogType)
  BY <1>2, <1>5, PlacesTyped, AppendProperties DEF r
<1>7. IdSeq(batch \o logList)' = Append(IdSeq(batch \o logList), id')
  <2>1. IdSeq(logList') = Append(IdSeq(logList), id')
    BY <1>5, <1>6, PlacesTyped, IdSeqOfAppend
  <2>2. IdSeq(batch' \o logList') = IdSeq(batch) \o IdSeq(logList')
    BY <1>3, <1>6, PlacesTyped, IdSeqOfConcat
  <2>3. IdSeq(batch) \o Append(IdSeq(logList), id')
          = Append(IdSeq(batch) \o IdSeq(logList), id')
    BY <1>5, PlacesTyped, AppendToConcat
  <2> QED
    BY <2>1, <2>2, <2>3, PlacesTyped DEF Pending
<1>8. Len(IdSeq(batch \o logList)) < 2 * (MaxCount + Cardinality(Senders))
  <2>1. Len(batch \o logList) = Len(batch) + Len(logList)
        /\ batch \o logList \in Seq(LogType)
    BY PlacesTyped, ConcatProperties
  <2>2. Len(IdSeq(batch \o logList)) = Len(batch) + Len(logList)
    BY <2>1, IdSeqTyped
  <2>3. Len(logList) < MaxCount + N /\ Len(batch) <= MaxCount + N
    BY QueueBound DEF SendEnqueue, BatchBounded
  <2>4. Len(batch) + Len(logList) < 2 * (MaxCount + N)
    BY <2>3, QueueBound
  <2> QED
    BY <2>2, <2>4 DEF N
<1> QED
  BY <1>1, <1>3, <1>4, <1>7, <1>8 DEF Service!Accept

\* The service sees nothing of a step that keeps these.
LEMMA ServiceStutters ==
  ASSUME UNCHANGED <<id, Pending, written, refused, discarded>>,
         stopPc' = "done" <=> stopPc = "done"
  PROVE  UNCHANGED Service!vars
<1>1. WrittenLogs' = WrittenLogs
  BY DEF WrittenLogs
<1>2. (stopPc = "done")' = (stopPc = "done")
  BY Zenon
<1> QED
  BY <1>1, <1>2 DEF Service!vars, Pending, IdSeq

LEMMA TakeIsNothing ==
  ASSUME QueueInv, OrderInv, WorkTake
  PROVE  UNCHANGED Service!vars
<1>1. /\ wpc = "take"
      /\ batch' = logList /\ logList' = <<>>
      /\ UNCHANGED <<id, written, refused, discarded, stopPc>>
  BY DEF WorkTake, ResetQueue, filevars, fates
<1>2. batch = <<>>
  BY <1>1 DEF OrderInv, Placed
<1>3. batch \o logList = logList /\ batch' \o logList' = logList
  BY <1>1, <1>2, PlacesTyped, ConcatEmptySeq
<1>4. Pending' = Pending
  BY <1>3 DEF Pending, IdSeq
<1> QED
  BY <1>1, <1>4, ServiceStutters

LEMMA ReportIsLose ==
  ASSUME QueueInv, OrderInv, WorkReport
  PROVE  Service!LoseSome \/ UNCHANGED Service!vars
<1>1. /\ discarded' = discarded \cup Ids(batch)
      /\ batch' = <<>>
      /\ UNCHANGED <<id, logList, written, refused, stopPc>>
  BY DEF WorkReport, qvars, filevars
<1>2. WrittenLogs' = WrittenLogs
  BY <1>1 DEF WrittenLogs
<1>3. batch' \o logList' = logList
  BY <1>1, PlacesTyped, ConcatEmptySeq
<1>4. CASE batch = <<>>
  <2>1. batch \o logList = logList /\ Ids(batch) = {}
    BY <1>4, PlacesTyped, ConcatEmptySeq, NoIds
  <2>2. Pending' = Pending /\ discarded' = discarded
    BY <1>1, <1>3, <2>1 DEF Pending, IdSeq
  <2> QED
    BY <1>1, <2>2, ServiceStutters
<1>5. CASE batch # <<>>
  <2> DEFINE k == Len(IdSeq(batch))
             p == IdSeq(batch \o logList)
  <2>1. p = IdSeq(batch) \o IdSeq(logList)
    BY PlacesTyped DEF Pending
  <2>2. /\ Len(p) = k + Len(IdSeq(logList))
        /\ SubSeq(p, k + 1, Len(p)) = IdSeq(logList)
        /\ {p[i] : i \in 1 .. k} = {IdSeq(batch)[i] : i \in DOMAIN IdSeq(batch)}
    <3> PICK a : a = IdSeq(batch)
      OBVIOUS
    <3> PICK b : b = IdSeq(logList)
      OBVIOUS
    <3>1. a \in Seq(Nat) /\ b \in Seq(Nat) /\ p = a \o b /\ k = Len(a)
      BY <2>1, PlacesTyped
    <3> HIDE DEF p, k
    <3>2. a \in Seq(Nat) /\ b \in Seq(Nat)
      BY <3>1
    <3>3. /\ Len(a \o b) = Len(a) + Len(b)
          /\ SubSeq(a \o b, Len(a) + 1, Len(a \o b)) = b
          /\ {(a \o b)[i] : i \in 1 .. Len(a)} = {a[i] : i \in DOMAIN a}
      BY <3>2, RestOfConcat, Zenon
    <3>4. p = a \o b /\ k = Len(a)
      BY <3>1
    <3>5. Len(p) = k + Len(b) /\ SubSeq(p, k + 1, Len(p)) = b
      BY <3>3, <3>4
    <3>6. {p[i] : i \in 1 .. k} = {a[i] : i \in DOMAIN a}
      BY <3>3, <3>4
    <3> QED
      BY <3>5, <3>6
  <2>3. {p[i] : i \in 1 .. k} = Ids(batch)
    BY <2>2, PlacesTyped, IdSeqTyped
  <2>4. k \in Nat \ {0} /\ Len(IdSeq(logList)) \in Nat
    BY <1>5, PlacesTyped, IdSeqTyped, EmptySeq, LenProperties
  <2> HIDE DEF k
  <2>5. k \in 1 .. Len(p)
    BY <2>2, <2>4
  <2>6. p' = SubSeq(p, k + 1, Len(p))
    BY <1>1, <1>3, <2>2 DEF IdSeq
  <2>7. (refused \cup discarded)' = (refused \cup discarded) \cup {p[i] : i \in 1 .. k}
    BY <1>1, <2>3
  <2>8. Service!Lose(k)
    BY <1>1, <1>2, <2>6, <2>7 DEF Service!Lose, IdSeq
  <2> QED
    BY <2>5, <2>8 DEF Service!LoseSome
<1> QED
  BY <1>4, <1>5

LEMMA WriteIsWriteOrLose ==
  ASSUME QueueInv, OrderInv, OrderInv', WorkWrite
  PROVE  Service!Write \/ Service!LoseSome
<1> DEFINE h == Head(batch)
           p == IdSeq(batch \o logList)
<1>1. /\ batch # <<>> /\ batch' = Tail(batch)
      /\ discarded' = IF fp' = -1 THEN discarded \cup {h.id} ELSE discarded
      /\ written' = IF fp' = -1 THEN written
                    ELSE Append(written, [log |-> h, file |-> fp'])
      /\ UNCHANGED <<id, logList, refused, stopPc>>
  BY DEF WorkWrite, File!WriteLog, File!PrintFile, File!NoFile, qvars
<1>2. batch' \in Seq(LogType) /\ h \in LogType
  BY <1>1, PlacesTyped, HeadTailProperties
<1>3. p = IdSeq(batch) \o IdSeq(logList) /\ IdSeq(batch) # <<>>
  BY <1>1, PlacesTyped, IdSeqTyped DEF Pending
<1>4. Tail(IdSeq(batch)) = IdSeq(batch') /\ Head(IdSeq(batch)) = h.id
  BY <1>1, PlacesTyped, IdSeqOfTail
<1>5. p # <<>> /\ Head(p) = h.id /\ Tail(p) = IdSeq(batch') \o IdSeq(logList)
  <2> DEFINE b == IdSeq(batch)
             q == IdSeq(logList)
  <2>1. b \in Seq(Nat) /\ q \in Seq(Nat) /\ b # <<>>
    BY <1>3, PlacesTyped
  <2> HIDE DEF b, q
  <2>2. Head(b \o q) = Head(b) /\ Tail(b \o q) = Tail(b) \o q /\ b \o q # <<>>
    BY <2>1, TailOfConcat
  <2> QED
    BY <1>3, <1>4, <2>2 DEF b, q
<1>6. p' = Tail(p)
  <2>1. IdSeq(batch' \o logList') = IdSeq(batch') \o IdSeq(logList)
    BY <1>1, <1>2, PlacesTyped, IdSeqOfConcat
  <2> QED
    BY <1>5, <2>1
<1>7. p \in Seq(Nat)
  BY <1>3, PlacesTyped, ConcatProperties
<1>8. CASE fp' = -1
  <2>1. WrittenLogs' = WrittenLogs
    BY <1>1, <1>8 DEF WrittenLogs
  <2>2. Len(p) \in Nat \ {0} /\ Head(p) = p[1]
    BY <1>5, <1>7, EmptySeq
  <2>3. {p[i] : i \in 1 .. 1} = {h.id}
    BY <1>5, <2>2
  <2>4. Tail(p) = SubSeq(p, 1 + 1, Len(p))
    BY <1>5, <1>7, TailIsSubSeq
  <2>5. (refused \cup discarded)' = (refused \cup discarded) \cup {p[i] : i \in 1 .. 1}
    BY <1>1, <1>8, <2>3
  <2>6. Service!Lose(1)
    BY <1>1, <1>6, <2>1, <2>4, <2>5 DEF Service!Lose, IdSeq
  <2> QED
    BY <2>2, <2>6 DEF Service!LoseSome
<1>9. CASE fp' # -1
  <2> DEFINE line == [log |-> h, file |-> fp']
  <2>1. line \in LineType /\ line.log = h /\ written \in Seq(LineType)
    BY <1>2 DEF LineType, OrderInv, Placed
  <2>2. written' = Append(written, line)
    BY <1>1, <1>9
  <2> HIDE DEF line
  <2>3. WrittenLogs' = Append(WrittenLogs, h)
    BY <2>1, <2>2, LogsOfAppend DEF WrittenLogs
  <2>4. IdSeq(WrittenLogs)' = Append(IdSeq(WrittenLogs), Head(p))
    <3>1. IdSeq(Append(WrittenLogs, h)) = Append(IdSeq(WrittenLogs), h.id)
      BY <1>2, PlacesTyped, IdSeqOfAppend
    <3>2. IdSeq(WrittenLogs)' = IdSeq(WrittenLogs')
      BY DEF IdSeq
    <3> QED
      BY <1>5, <2>3, <3>1, <3>2
  <2>5. (refused \cup discarded)' = refused \cup discarded
    BY <1>1, <1>9
  <2>6. Service!Write
    BY <1>1, <1>5, <1>6, <2>4, <2>5 DEF Service!Write
  <2> QED
    BY <2>6
<1> QED
  BY <1>8, <1>9

LEMMA JoinIsClose ==
  ASSUME QueueInv, OrderInv, StopJoin
  PROVE  Service!Close
<1>1. /\ wpc = "done" /\ stopPc = "join" /\ stopPc' = "done"
      /\ discarded' = discarded \cup Ids(logList)
      /\ logList' = <<>>
      /\ UNCHANGED <<id, batch, written, refused>>
  BY DEF StopJoin, filevars
<1>2. batch = <<>>
  BY <1>1 DEF OrderInv, Placed
<1>3. WrittenLogs' = WrittenLogs
  BY <1>1 DEF WrittenLogs
<1>4. batch \o logList = logList /\ batch' \o logList' = <<>>
  BY <1>1, <1>2, PlacesTyped, ConcatEmptySeq
<1> DEFINE p == IdSeq(batch \o logList)
<1>5. p' = <<>>
  BY <1>4, IdSeqTyped, EmptySeq DEF IdSeq
<1>6. {p[i] : i \in DOMAIN p} = Ids(logList)
  BY <1>4, PlacesTyped, IdSeqTyped
<1>7. (refused \cup discarded)' = (refused \cup discarded) \cup {p[i] : i \in DOMAIN p}
  BY <1>1, <1>6
<1> QED
  BY <1>1, <1>3, <1>5, <1>7 DEF Service!Close, IdSeq

\* The other steps are about the threads alone.
LEMMA OthersAreNothing ==
  ASSUME \/ \E s \in Senders : SendCheck(s)
         \/ WorkLoop \/ WorkExit \/ WorkLock \/ WorkTest \/ WorkBlock
         \/ WorkBatchDone \/ SpuriousWake
         \/ StopStore \/ StopReady \/ StopNotify
         \/ UNCHANGED vars
  PROVE  UNCHANGED Service!vars
<1>1. /\ UNCHANGED <<id, batch, logList, written, refused, discarded>>
      /\ stopPc' = "done" <=> stopPc = "done"
  BY DEF SendCheck, WorkLoop, WorkExit, WorkLock, WorkTest, WorkBlock,
         WorkBatchDone, SpuriousWake, StopStore, StopReady, StopNotify, vars,
         qvars, fates, filevars, File!CloseFile
<1>2. Pending' = Pending
  BY <1>1 DEF Pending, IdSeq
<1> QED
  BY <1>1, <1>2, ServiceStutters

-----------------------------------------------------------------------------
(***************************************************************************)
(* What ImplementsService says but for its fairness: the queue, the batch, *)
(* the stale reads of the flags and Stop do nothing to the logs that the   *)
(* service does not allow.  Pending logs are the batch and the queue, and  *)
(* their capacity is twice the proved bound of the queue.                  *)
(***************************************************************************)
THEOREM StepsImplementService ==
  Spec => Service!Init /\ [][Service!Next]_(Service!vars)
<1>1. Init => Service!Init
  BY InitIsServiceInit
<1>2. QueueInv /\ OrderInv /\ OrderInv' /\ BatchBounded /\ [Next]_vars
        => [Service!Next]_(Service!vars)
  <2> SUFFICES ASSUME QueueInv, OrderInv, OrderInv', BatchBounded, [Next]_vars
               PROVE  Service!Next \/ UNCHANGED Service!vars
    BY Zenon
  <2>1. ASSUME NEW s \in Senders, Send(s)
        PROVE  Service!Next \/ UNCHANGED Service!vars
    BY <2>1, DropIsRefuse, EnqueueIsAccept, OthersAreNothing
       DEF Send, Service!Next
  <2>2. CASE Work
    BY <2>2, TakeIsNothing, ReportIsLose, WriteIsWriteOrLose, OthersAreNothing
       DEF Work, Service!Next
  <2>3. CASE Stop
    BY <2>3, JoinIsClose, OthersAreNothing DEF Stop, Service!Next
  <2>4. CASE SpuriousWake \/ UNCHANGED vars
    BY <2>4, OthersAreNothing
  <2> QED
    BY <2>1, <2>2, <2>3, <2>4 DEF Next
<1> QED
  BY <1>1, <1>2, QueueInvariant, OrderInvariant, BatchBoundedInvariant, PTL
     DEF Spec

-----------------------------------------------------------------------------
(***************************************************************************)
(* The work thread uses the file as LogFile says, with the handle's other  *)
(* threads around it: what is proved of the file alone holds in the whole. *)
(***************************************************************************)
FileProofs == INSTANCE LogFileProofs WITH Logs <- LogRecords, MaxWritten <- MaxSends

-----------------------------------------------------------------------------
(* The bound on the calls, which LogFile knows as a bound on its lines. *)

CallsBounded ==
  IsFiniteSet(InFlight) /\ id + Cardinality(InFlight) <= MaxSends

\* A call that begins is counted in flight, and one that ends by its id.
LEMMA CallsBoundedInvariant == Spec => []CallsBounded
<1>1. Init => CallsBounded
  <2> SUFFICES ASSUME Init PROVE CallsBounded
    OBVIOUS
  <2>1. id = 0 /\ InFlight = {}
    BY DEF Init, InFlight
  <2> QED
    BY <2>1, FS_EmptySet, PlatformLogAssumption DEF CallsBounded
<1>2. QueueInv /\ CallsBounded /\ [Next]_vars => CallsBounded'
  <2> SUFFICES ASSUME QueueInv, CallsBounded, [Next]_vars
               PROVE  CallsBounded'
    OBVIOUS
  <2>1. /\ id \in Nat /\ MaxSends \in Nat /\ spc \in [Senders -> SenderAt]
        /\ IsFiniteSet(InFlight) /\ Cardinality(InFlight) \in Nat
    BY PlatformLogAssumption, FS_CardinalityType DEF QueueInv, TypeOK, CallsBounded
  <2>2. ASSUME NEW s \in Senders, SendCheck(s)
        PROVE  CallsBounded'
    <3>1. InFlight' = InFlight \cup {s} /\ s \notin InFlight
      BY <2>1, <2>2 DEF SendCheck, InFlight, SenderAt
    <3>2. /\ IsFiniteSet(InFlight')
          /\ Cardinality(InFlight') = Cardinality(InFlight) + 1
      BY <2>1, <3>1, FS_AddElement
    <3>3. id' = id /\ id + Cardinality(InFlight) < MaxSends
      BY <2>2 DEF SendCheck, qvars
    <3> QED
      BY <2>1, <3>2, <3>3 DEF CallsBounded
  <2>3. ASSUME NEW s \in Senders, SendDrop(s) \/ SendEnqueue(s)
        PROVE  CallsBounded'
    <3>1. InFlight' = InFlight \ {s} /\ s \in InFlight
      BY <2>1, <2>3 DEF SendDrop, SendEnqueue, InFlight, SenderAt
    <3>2. /\ IsFiniteSet(InFlight')
          /\ Cardinality(InFlight') = Cardinality(InFlight) - 1
      BY <2>1, <3>1, FS_RemoveElement
    <3>3. id' = id + 1
      BY <2>3 DEF SendDrop, SendEnqueue
    <3> QED
      BY <2>1, <3>2, <3>3 DEF CallsBounded
  <2>4. CASE Work \/ SpuriousWake \/ Stop \/ UNCHANGED vars
    <3>1. UNCHANGED <<id, spc>>
      BY <2>4 DEF Work, WorkLoop, WorkExit, WorkLock, WorkTest, WorkBlock,
                  WorkTake, WorkReport, WorkWrite, WorkBatchDone, SpuriousWake,
                  Stop, StopStore, StopReady, StopNotify, StopJoin, vars, qvars
    <3>2. InFlight' = InFlight
      BY <3>1 DEF InFlight
    <3> QED
      BY <3>1, <3>2 DEF CallsBounded
  <2> QED
    BY <2>2, <2>3, <2>4 DEF Next, Send
<1> QED
  BY <1>1, <1>2, QueueInvariant, PTL DEF Spec

-----------------------------------------------------------------------------
\* There is room on disk for the next log of a batch, and it is one of those
\* LogFile speaks of.
LEMMA NextLogFits ==
  ASSUME QueueInv, OrderInv, CallsBounded, batch # <<>>
  PROVE  Head(batch) \in LogRecords /\ Len(written) < MaxSends
<1> DEFINE h == Head(batch)
<1>1. h \in LogType /\ h.id \in Nat /\ h.time \in Times
  <2>1. h \in LogType
    BY HeadTailProperties DEF QueueInv, TypeOK
  <2> QED
    BY <2>1 DEF LogType
<1>2. Ids(batch) = {h.id} \cup Ids(Tail(batch))
  BY IdsOfTail DEF QueueInv, TypeOK
<1>3. id \in Nat /\ MaxSends \in Nat /\ id <= MaxSends
  <2>1. /\ id \in Nat /\ MaxSends \in Nat /\ Cardinality(InFlight) \in Nat
    BY CountsTyped, PlatformLogAssumption, FS_CardinalityType DEF CallsBounded
  <2> QED
    BY <2>1 DEF CallsBounded
<1>4. Kept \subseteq 1 .. id
  BY DEF OrderInv, Fates
<1>5. h.id \in 1 .. MaxSends /\ Ids(WrittenLogs) \subseteq 1 .. MaxSends
  BY <1>2, <1>3, <1>4 DEF Kept
<1>6. h.id \notin Ids(WrittenLogs)
  <2>1. \A a \in Ids(WrittenLogs) : a < h.id
    BY <1>2 DEF OrderInv, Placed, Below
  <2>2. ~(h.id < h.id)
    BY <1>1
  <2> QED
    BY <2>1, <2>2
<1>7. Cardinality((1 .. MaxSends) \ {h.id}) = MaxSends - 1
      /\ IsFiniteSet((1 .. MaxSends) \ {h.id})
  <2>1. IsFiniteSet(1 .. MaxSends) /\ Cardinality(1 .. MaxSends) = MaxSends
    BY <1>3, FS_Interval
  <2> QED
    BY <1>5, <2>1, FS_RemoveElement
<1>8. WrittenLogs \in Seq(LogType) /\ Len(WrittenLogs) = Len(written)
  <2>1. written \in Seq(LineType)
    BY DEF OrderInv, Placed
  <2>2. WrittenLogs \in Seq(LogType)
    BY <2>1, WrittenTyped DEF WrittenLogs
  <2>3. DOMAIN WrittenLogs = DOMAIN written
    BY DEF WrittenLogs
  <2> QED
    BY <2>1, <2>2, <2>3, LenProperties
<1>9. Cardinality(Ids(WrittenLogs)) = Len(written)
  BY <1>8, IdsAreMany DEF OrderInv, Placed
<1>10. Len(written) <= MaxSends - 1
  <2>1. Ids(WrittenLogs) \subseteq (1 .. MaxSends) \ {h.id}
    BY <1>5, <1>6
  <2> QED
    BY <1>7, <1>9, <2>1, FS_Subset
<1>11. Len(written) < MaxSends
  <2>1. Len(written) \in Nat
    BY LenProperties DEF OrderInv, Placed
  <2> QED
    BY <1>3, <1>10, <2>1
<1>12. h \in LogRecords
  BY <1>1, <1>5 DEF LogRecords, LogType
<1> QED
  BY <1>11, <1>12

(***************************************************************************)
(* The whole handle implements LogFile: the file is closed, and changed    *)
(* and written to for one log at a time, and nothing else happens to it,   *)
(* whatever the senders and Stop do.                                       *)
(***************************************************************************)
THEOREM ThreadsUseTheFile == Spec => File!Spec
<1>1. Init => File!Init
  BY DEF Init
<1>2. QueueInv /\ OrderInv /\ CallsBounded /\ [Next]_vars => [File!Next]_(File!vars)
  <2> SUFFICES ASSUME QueueInv, OrderInv, CallsBounded, [Next]_vars
               PROVE  File!Next \/ UNCHANGED File!vars
    BY Zenon
  <2>1. CASE WorkLoop \/ WorkExit
    BY <2>1 DEF WorkLoop, WorkExit, filevars, File!Next, File!vars
  <2>2. CASE WorkWrite
    <3>1. File!WriteLog(Head(batch)) /\ batch # <<>>
      BY <2>2 DEF WorkWrite
    <3> QED
      BY <3>1, NextLogFits DEF File!Next
  <2>3. CASE ~WorkLoop /\ ~WorkExit /\ ~WorkWrite
    BY <2>3 DEF Next, Send, SendCheck, SendDrop, SendEnqueue, Work, WorkLock,
                WorkTest, WorkBlock, WorkTake, WorkReport, WorkBatchDone,
                SpuriousWake, Stop, StopStore, StopReady, StopNotify, StopJoin,
                vars, filevars, File!vars
  <2> QED
    BY <2>1, <2>2, <2>3
<1> QED
  BY <1>1, <1>2, QueueInvariant, OrderInvariant, CallsBoundedInvariant, PTL
     DEF Spec, File!Spec

\* LogFile's assumption on its constants, of this use of it.
LEMMA FileAssumption == FileProofs!LogFileAssumption
<1>1. LogRecords \subseteq [id : Nat, time : Nat]
  <2> SUFFICES ASSUME NEW log \in LogRecords
               PROVE  log \in [id : Nat, time : Nat]
    OBVIOUS
  <2>1. /\ log = [id |-> log.id, time |-> log.time]
        /\ log.id \in 1 .. MaxSends /\ log.time \in Times
    BY DEF LogRecords
  <2>2. log.id \in Nat /\ log.time \in Nat
    BY <2>1, PlatformLogAssumption
  <2> QED
    BY <2>1, <2>2
<1>2. \A log \in LogRecords :
        /\ Offset[FileProofs!UtcHour(log.time)] \in Int
        /\ FileProofs!LocalTime(log.time) \in Nat
  BY PlatformLogAssumption DEF LogRecords, FileProofs!LocalTime, FileProofs!UtcHour
<1> QED
  BY <1>1, <1>2, PlatformLogAssumption DEF FileProofs!LogFileAssumption

(***************************************************************************)
(* Each line is in the file of its hour, while local time is whole hours   *)
(* from UTC, and at most half an hour off at any time: with the senders'   *)
(* times in any order, batches deleted and the file closed for the         *)
(* clearing.                                                               *)
(***************************************************************************)
THEOREM LinesOfTheHandleInTheirHour ==
  Spec => [](File!LogInItsHourFile /\ File!LogWithinHalfHourOfFile)
<1>1. File!Spec <=> FileProofs!Spec
  <2>1. File!Init <=> FileProofs!Init
    BY DEF File!Init, FileProofs!Init, File!NoFile, FileProofs!NoFile
  <2>2. [File!Next]_(File!vars) <=> [FileProofs!Next]_(FileProofs!vars)
    BY DEF File!Next, FileProofs!Next, File!vars, FileProofs!vars,
           File!CloseFile, FileProofs!CloseFile, File!WriteLog, FileProofs!WriteLog,
           File!Update, FileProofs!Update, File!KeepFile, FileProofs!KeepFile,
           File!ChangeFile, FileProofs!ChangeFile, File!PrintFile, FileProofs!PrintFile,
           File!UtcHour, FileProofs!UtcHour, File!LocalHour, FileProofs!LocalHour,
           File!LocalTime, FileProofs!LocalTime,
           File!NoFile, FileProofs!NoFile
  <2> QED
    BY <2>1, <2>2, PTL DEF File!Spec, FileProofs!Spec
<1>2. FileProofs!Spec => []FileProofs!LogInItsHourFile
  BY FileAssumption, FileProofs!LinesInTheirHour
<1>3. FileProofs!Spec => []FileProofs!LogWithinHalfHourOfFile
  BY FileAssumption, FileProofs!LinesWithinHalfHour
<1>4. /\ FileProofs!LogInItsHourFile => File!LogInItsHourFile
      /\ FileProofs!LogWithinHalfHourOfFile => File!LogWithinHalfHourOfFile
  BY DEF File!LogInItsHourFile, FileProofs!LogInItsHourFile,
         File!LogWithinHalfHourOfFile, FileProofs!LogWithinHalfHourOfFile,
         File!LocalHour, FileProofs!LocalHour, File!LocalTime, FileProofs!LocalTime,
         File!UtcHour, FileProofs!UtcHour
<1> QED
  BY <1>1, <1>2, <1>3, <1>4, ThreadsUseTheFile, PTL
=============================================================================

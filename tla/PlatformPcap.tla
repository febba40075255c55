---------------------------- MODULE PlatformPcap ----------------------------
(***************************************************************************)
(* One capture (Pcap/PlatformPcap.cpp): the thread that starts and stops   *)
(* it, a thread that changes its callback or its dump file, and the        *)
(* capture thread, which opens the device, reads packets, and closes and   *)
(* opens again after an error.                                             *)
(*                                                                         *)
(* The two Update functions hold _capThreadMutex; the capture thread takes *)
(* it only in UpdateCap, once it has seen a flag set.  OpenCap reads       *)
(* _dumpFileName without it.  What libpcap finds (a device that does not   *)
(* open, an error, no packet, a packet) is any of its results.             *)
(***************************************************************************)
EXTENDS Naturals

CONSTANTS Names,       \* the names of dump files
          Callbacks,   \* the callbacks, with their private data
          MaxStarts,   \* bound: calls of Start that start a thread
          MaxUpdates   \* bound: calls of UpdateCallback and UpdateDumpFileName

ASSUME PlatformPcapAssumption == MaxStarts \in Nat /\ MaxUpdates \in Nat

VARIABLES
  type,                    \* _type
  fd,                      \* _fd is the socket of a multicast group
  isRunning,               \* _isRunning
  capThread,               \* _capThread is not NULL
  app,                     \* where the controlling thread is: Stop joins
  upd,                     \* where the updating thread is, in its lock
  pPcapCb, newPPcapCb,     \* _pPcapCb, _newPPcapCb
  isCallbackUpdate,        \* _isCallbackUpdate
  dumpFileName,            \* _dumpFileName
  isDumpFileNameUpdate,    \* _isDumpFileNameUpdate
  pc, status,              \* where CapThread is, and its status
  pcapHdl,                 \* _pcapHdl is not NULL
  dump, dumpOf,            \* _pcapDumpHdl, and the file it was opened on
  misuse,                  \* what was done with a handle that is not open
  failed,                  \* the device failed at least once
  starts, updates          \* how often, for the bounds

control == <<isRunning, capThread, app, fd, starts, type>>
update  == <<upd, newPPcapCb, dumpFileName, updates>>
flags   == <<isCallbackUpdate, isDumpFileNameUpdate>>
handles == <<pcapHdl, dump, dumpOf, misuse>>
vars    == <<control, update, flags, handles, pPcapCb, pc, status, failed>>

Types  == {"UDP", "FILTER", "DUMP"}
NULL   == "NULL"
NoName == ""

\* What can go wrong with _pcapDumpHdl.
Misuses == {"lost", "written after close", "closed twice", "dump of no device"}

-----------------------------------------------------------------------------
\* One of the three constructors; only that of a dump takes a name.
Init ==
  /\ type \in Types
  /\ dumpFileName \in IF type = "DUMP" THEN Names \cup {NoName} ELSE {NoName}
  /\ fd = FALSE /\ isRunning = FALSE /\ capThread = FALSE
  /\ app = "idle" /\ upd = "idle"
  /\ pPcapCb = NULL /\ newPPcapCb = NULL
  /\ isCallbackUpdate = FALSE /\ isDumpFileNameUpdate = FALSE
  /\ pc = "none" /\ status = "INIT"
  /\ pcapHdl = FALSE /\ dump = NULL /\ dumpOf = NoName
  /\ misuse = {} /\ failed = FALSE
  /\ starts = 0 /\ updates = 0

\* A multicast group of a UDP capture is joined before anything can fail.
JoinGroup == fd' \in IF type = "UDP" THEN {fd, TRUE} ELSE {fd}

\* A capture is started when it is not running, as a caller must see to.
Start ==
  /\ app = "idle" /\ ~capThread
  /\ starts < MaxStarts
  /\ starts' = starts + 1
  /\ JoinGroup
  /\ isRunning' = TRUE /\ capThread' = TRUE
  /\ pc' = "loop" /\ status' = "INIT"
  /\ UNCHANGED <<app, type, update, flags, handles, pPcapCb, failed>>

\* No list of devices.
StartFails ==
  /\ app = "idle" /\ ~capThread
  /\ JoinGroup
  /\ UNCHANGED <<isRunning, capThread, app, starts, type, update, flags,
                 handles, pPcapCb, pc, status, failed>>

\* A faulty variant: the thread is joined but not told.
StopUntold ==
  /\ app = "idle"
  /\ app' = "join"
  /\ UNCHANGED <<isRunning, capThread, fd, starts, type, update, flags, handles,
                 pPcapCb, pc, status, failed>>

Stop ==
  /\ app = "idle"
  /\ isRunning' = FALSE
  /\ app' = "join"
  /\ UNCHANGED <<capThread, fd, starts, type, update, flags, handles, pPcapCb,
                 pc, status, failed>>

StopJoin ==
  /\ app = "join" /\ pc = "none"
  /\ capThread' = FALSE
  /\ fd' = FALSE
  /\ app' = "idle"
  /\ UNCHANGED <<isRunning, starts, type, update, flags, handles, pPcapCb, pc,
                 status, failed>>

-----------------------------------------------------------------------------
UpdateCallback(cb) ==
  /\ upd = "idle" /\ updates < MaxUpdates
  /\ upd' = "flag"
  /\ newPPcapCb' = cb
  /\ updates' = updates + 1
  /\ UNCHANGED <<dumpFileName, control, flags, handles, pPcapCb, pc, status, failed>>

UpdateDumpFileName(name) ==
  /\ upd = "idle" /\ updates < MaxUpdates
  /\ upd' = "flag"
  /\ dumpFileName' = name
  /\ updates' = updates + 1
  /\ UNCHANGED <<newPPcapCb, control, flags, handles, pPcapCb, pc, status, failed>>

\* A faulty variant: the other flag.
SetCallbackFlag == isCallbackUpdate' = TRUE /\ UNCHANGED isDumpFileNameUpdate

\* Both functions set the same flag.
SetFlag == isDumpFileNameUpdate' = TRUE /\ UNCHANGED isCallbackUpdate

UpdateFlag ==
  /\ upd = "flag"
  /\ upd' = "idle"
  /\ SetFlag
  /\ UNCHANGED <<newPPcapCb, dumpFileName, updates, control, handles, pPcapCb,
                 pc, status, failed>>

-----------------------------------------------------------------------------
Leave == pc' = "closeLast"

\* The loop of CapThread: _isRunning is read, then the status is acted on.
\* (The default of its switch is for a status that nothing sets.)
Loop ==
  /\ pc = "loop"
  /\ IF isRunning
     THEN pc' = CASE status = "INIT"  -> "open"
                  [] status = "WORK"  -> "cap"
                  [] status = "ERROR" -> "close"
     ELSE Leave
  /\ UNCHANGED <<control, update, flags, handles, pPcapCb, status, failed>>

\* A faulty variant: the failure is not reported.
FailAsWork == status' = "WORK" /\ failed' = TRUE

Fail == status' = "ERROR" /\ failed' = TRUE

\* The device, and its filter; either may fail.
OpenCap ==
  /\ pc = "open"
  /\ \/ /\ pcapHdl' = TRUE
        /\ pc' = "openDump"
        /\ UNCHANGED <<status, failed>>
     \/ /\ pcapHdl' \in BOOLEAN
        /\ pc' = "updateCb"
        /\ Fail
  /\ UNCHANGED <<control, update, flags, dump, dumpOf, misuse, pPcapCb>>

\* A faulty variant: a dump that does not open leaves the old one.
KeepDumpIfOpenFails ==
  /\ \/ dump' = "open" /\ dumpFileName # NoName
     \/ dump' = IF dump = "open" THEN "closed" ELSE dump
  /\ dumpOf' = dumpFileName
  /\ UNCHANGED pcapHdl

\* pcap_dump_open: needs an open device, and may fail; what was in
\* _pcapDumpHdl is overwritten.
OpenDump ==
  /\ \/ dump' = "open" /\ dumpFileName # NoName
     \/ dump' = NULL
  /\ dumpOf' = dumpFileName
  /\ UNCHANGED pcapHdl

OpenCapDump ==
  /\ pc = "openDump"
  /\ IF dumpFileName = NoName
     THEN UNCHANGED handles
     ELSE OpenDump /\ misuse' = misuse \cup IF dump = "open" THEN {"lost"} ELSE {}
  /\ status' = "WORK"
  /\ pc' = "updateCb"
  /\ UNCHANGED <<control, update, flags, pPcapCb, failed>>

\* No packet in time, or a packet, given to the callback or to the dump.
DoCap ==
  /\ pc = "cap"
  /\ \/ status' = "WORK" /\ UNCHANGED <<misuse, failed>>
     \/ /\ type = "DUMP" /\ dump = "closed"
        /\ misuse' = misuse \cup {"written after close"}
        /\ status' = "WORK"
        /\ UNCHANGED failed
     \/ Fail /\ UNCHANGED misuse
  /\ pc' = "updateCb"
  /\ UNCHANGED <<control, update, flags, pcapHdl, dump, dumpOf, pPcapCb>>

\* pcap_dump_close of what _pcapDumpHdl points to.
MisuseOfClose == IF dump = "closed" THEN {"closed twice"} ELSE {}

\* A faulty variant: a status that the thread does not know.
ClosedStatus == "CLOSED"

AfterClose == "INIT"

\* _pcapDumpHdl keeps its value.
CloseCap ==
  /\ pc \in {"close", "closeLast"}
  /\ misuse' = misuse \cup MisuseOfClose
  /\ dump' = IF dump = "open" THEN "closed" ELSE dump
  /\ pcapHdl' = FALSE
  /\ status' = AfterClose
  /\ pc' = IF pc = "close" THEN "updateCb" ELSE "none"
  /\ UNCHANGED <<control, update, flags, dumpOf, pPcapCb, failed>>

\* A flag seen set stays set: only this thread resets it.
UpdateCapCallback ==
  /\ pc = "updateCb"
  /\ isCallbackUpdate => upd = "idle"
  /\ pPcapCb' = IF isCallbackUpdate THEN newPPcapCb ELSE pPcapCb
  /\ isCallbackUpdate' = FALSE
  /\ pc' = "updateDump"
  /\ UNCHANGED <<control, update, isDumpFileNameUpdate, handles, status, failed>>

MisuseOfOpen == IF pcapHdl THEN {} ELSE {"dump of no device"}

MisuseOfReopen == MisuseOfClose \cup MisuseOfOpen

UpdateCapDump ==
  /\ pc = "updateDump"
  /\ IF isDumpFileNameUpdate
     THEN upd = "idle" /\ OpenDump /\ misuse' = misuse \cup MisuseOfReopen
     ELSE UNCHANGED handles
  /\ isDumpFileNameUpdate' = FALSE
  /\ pc' = "loop"
  /\ UNCHANGED <<control, update, isCallbackUpdate, pPcapCb, status, failed>>

-----------------------------------------------------------------------------
CapThread == \/ Loop \/ OpenCap \/ OpenCapDump \/ DoCap \/ CloseCap
             \/ UpdateCapCallback \/ UpdateCapDump

Update == \/ \E cb \in Callbacks : UpdateCallback(cb)
          \/ \E name \in Names \cup {NoName} : UpdateDumpFileName(name)
          \/ UpdateFlag

Next == Start \/ StartFails \/ Stop \/ StopJoin \/ Update \/ CapThread

Spec == Init /\ [][Next]_vars

\* What the capture thread does by itself.  When pcap_next_ex comes back is not
\* its own: on some systems the second it is given only begins with a packet.
OwnSteps == Loop \/ OpenCap \/ OpenCapDump \/ CloseCap \/ UpdateCapCallback \/ UpdateCapDump

\* The threads run, and one in a critical section leaves it; but a read of the
\* device may last for ever.
FairSpec == Spec /\ WF_vars(OwnSteps) /\ WF_vars(UpdateFlag) /\ WF_vars(StopJoin)

ReadsForEver == [](pc = "cap")

-----------------------------------------------------------------------------
ControlTypes ==
  /\ type \in Types
  /\ fd \in BOOLEAN /\ isRunning \in BOOLEAN /\ capThread \in BOOLEAN
  /\ app \in {"idle", "join"}
  /\ starts \in 0 .. MaxStarts

UpdateTypes ==
  /\ upd \in {"idle", "flag"}
  /\ pPcapCb \in Callbacks \cup {NULL} /\ newPPcapCb \in Callbacks \cup {NULL}
  /\ isCallbackUpdate \in BOOLEAN /\ isDumpFileNameUpdate \in BOOLEAN
  /\ dumpFileName \in Names \cup {NoName}
  /\ updates \in 0 .. MaxUpdates

HandleTypes ==
  /\ pcapHdl \in BOOLEAN
  /\ dump \in {NULL, "open", "closed"}
  /\ dumpOf \in Names \cup {NoName}
  /\ misuse \subseteq Misuses

ThreadTypes ==
  /\ pc \in {"none", "loop", "open", "openDump", "cap", "close", "closeLast",
             "updateCb", "updateDump"}
  /\ status \in {"INIT", "WORK", "ERROR"}
  /\ failed \in BOOLEAN

TypeOK == ControlTypes /\ UpdateTypes /\ HandleTypes /\ ThreadTypes

\* No device and no dump is left open by a capture that is not running.
ClosedWhenStopped == pc = "none" => ~pcapHdl /\ dump # "open"

(***************************************************************************)
(* Packets are only read from a device that is open, through all failures, *)
(* restarts and updates: DoCap does not test _pcapHdl.  And what was       *)
(* opened is closed again when the capture stops.                          *)
(***************************************************************************)
ReadsOpenDevice == (pc = "cap" => pcapHdl) /\ ClosedWhenStopped

(***************************************************************************)
(* The dump is written to the file last asked for, but for an update that  *)
(* the capture thread has yet to see: none is lost, although OpenCap reads *)
(* the name without the lock while UpdateDumpFileName may be changing it.  *)
(***************************************************************************)
DumpFollowsName ==
  dump = "open" => \/ dumpOf = dumpFileName
                   \/ isDumpFileNameUpdate \/ upd = "flag"

(***************************************************************************)
(* In a capture that is started once and whose device does not fail, the   *)
(* handle of the dump is used as it must be whatever is updated and        *)
(* whenever it is stopped.  (After a failure, or in a second start, it is  *)
(* not: CloseCap leaves _pcapDumpHdl set.)                                 *)
(***************************************************************************)
DumpSafeInFirstRun == misuse # {} => failed \/ starts > 1

(***************************************************************************)
(* Stop waits for nothing but a read that does not come back: not for an   *)
(* update, nor for a device that fails and is opened again and again.  (If *)
(* the program survives the misuses of its dump, that is.)  Such a read    *)
(* does keep it for ever, for nothing breaks the read off.                 *)
(***************************************************************************)
StopReturns == app = "join" ~> (app = "idle" \/ ReadsForEver)

(***************************************************************************)
(* A callback that is given to a running capture is installed in it, as    *)
(* the test programs expect, which set it and wait for its output, unless  *)
(* no read of the device comes back any more.                              *)
(***************************************************************************)
CallbackInstalled ==
  \A cb \in Callbacks :
    (newPPcapCb = cb /\ isRunning)
      ~> \/ pPcapCb = cb \/ newPPcapCb # cb \/ ~isRunning
         \/ misuse # {} \/ ReadsForEver
=============================================================================

------------------------- MODULE PlatformPcapProofs -------------------------
(***************************************************************************)
(* One capture, for any names, callbacks and bounds: which handles are     *)
(* open where, and which file the dump goes to.                            *)
(***************************************************************************)
EXTENDS PlatformPcap, TLAPS

-----------------------------------------------------------------------------
(* The inductive invariant. *)

\* The status WORK is only reached, and left, with the device open.
WorksOnOpenDevice ==
  /\ pc = "openDump" => pcapHdl
  /\ pc = "cap" => status = "WORK"
  /\ status = "WORK" => pcapHdl

\* Up to the first failure of the first run, no update finds the device or
\* its dump closed, and the device is opened before any dump is.
FirstRun == ~failed /\ starts <= 1

FirstRunSafe ==
  FirstRun =>
    /\ misuse = {}
    /\ status # "ERROR" /\ pc # "close"
    /\ starts = 0 => pc = "none" /\ dump = NULL
    /\ dump = "closed" => pc = "none"
    /\ pc \in {"updateCb", "updateDump"} => status = "WORK"
    /\ pc \in {"open", "openDump"} => status = "INIT"
    /\ pc \in {"loop", "open", "openDump"} /\ status = "INIT" => dump = NULL

PcapInv == /\ TypeOK
           /\ WorksOnOpenDevice
           /\ ClosedWhenStopped
           /\ DumpFollowsName
           /\ FirstRunSafe

-----------------------------------------------------------------------------
(* Every step keeps it. *)

LEMMA StartKeeps ==
  ASSUME PcapInv, Start
  PROVE  PcapInv'
<1> USE PlatformPcapAssumption DEF PcapInv, PlatformPcapAssumption, Start,
                                   JoinGroup, control, update, flags, handles
<1>1. TypeOK'
  <2>1. ControlTypes'
    <3>1. starts' \in 0 .. MaxStarts
      BY DEF TypeOK, ControlTypes
    <3>2. fd' \in BOOLEAN /\ type' \in Types
      BY DEF TypeOK, ControlTypes
    <3> QED
      BY <3>1, <3>2 DEF TypeOK, ControlTypes
  <2>2. UpdateTypes'
    BY DEF TypeOK, UpdateTypes
  <2>3. HandleTypes'
    BY DEF TypeOK, HandleTypes, UpdateTypes, Misuses
  <2>4. ThreadTypes'
    BY DEF TypeOK, ThreadTypes, ControlTypes
  <2> QED
    BY <2>1, <2>2, <2>3, <2>4 DEF TypeOK
<1>2. WorksOnOpenDevice'
  BY DEF WorksOnOpenDevice, TypeOK, HandleTypes, ThreadTypes
<1>3. ClosedWhenStopped'
  BY DEF ClosedWhenStopped, TypeOK, HandleTypes, ThreadTypes, NULL
<1>4. DumpFollowsName'
  BY DEF DumpFollowsName, TypeOK, HandleTypes, UpdateTypes, NULL
<1>5. FirstRunSafe'
  BY DEF FirstRunSafe, FirstRun, TypeOK, ControlTypes, HandleTypes,
         ThreadTypes, WorksOnOpenDevice, NULL
<1> QED
  BY <1>1, <1>2, <1>3, <1>4, <1>5

LEMMA StartFailsKeeps ==
  ASSUME PcapInv, StartFails
  PROVE  PcapInv'
<1> USE PlatformPcapAssumption DEF PcapInv, PlatformPcapAssumption, StartFails,
                                   JoinGroup, control, update, flags, handles
<1>1. TypeOK'
  <2>1. ControlTypes'
    BY DEF TypeOK, ControlTypes
  <2>2. UpdateTypes'
    BY DEF TypeOK, UpdateTypes
  <2>3. HandleTypes'
    BY DEF TypeOK, HandleTypes, UpdateTypes, Misuses
  <2>4. ThreadTypes'
    BY DEF TypeOK, ThreadTypes, ControlTypes
  <2> QED
    BY <2>1, <2>2, <2>3, <2>4 DEF TypeOK
<1>2. WorksOnOpenDevice'
  BY DEF WorksOnOpenDevice, TypeOK, HandleTypes, ThreadTypes
<1>3. ClosedWhenStopped'
  BY DEF ClosedWhenStopped, TypeOK, HandleTypes, ThreadTypes, NULL
<1>4. DumpFollowsName'
  BY DEF DumpFollowsName, TypeOK, HandleTypes, UpdateTypes, NULL
<1>5. FirstRunSafe'
  BY DEF FirstRunSafe, FirstRun, TypeOK, ControlTypes, HandleTypes,
         ThreadTypes, WorksOnOpenDevice, NULL
<1> QED
  BY <1>1, <1>2, <1>3, <1>4, <1>5

LEMMA StopKeeps ==
  ASSUME PcapInv, Stop
  PROVE  PcapInv'
<1> USE PlatformPcapAssumption DEF PcapInv, PlatformPcapAssumption, Stop,
                                   control, update, flags, handles
<1>1. TypeOK'
  <2>1. ControlTypes'
    BY DEF TypeOK, ControlTypes
  <2>2. UpdateTypes'
    BY DEF TypeOK, UpdateTypes
  <2>3. HandleTypes'
    BY DEF TypeOK, HandleTypes, UpdateTypes, Misuses
  <2>4. ThreadTypes'
    BY DEF TypeOK, ThreadTypes, ControlTypes
  <2> QED
    BY <2>1, <2>2, <2>3, <2>4 DEF TypeOK
<1>2. WorksOnOpenDevice'
  BY DEF WorksOnOpenDevice, TypeOK, HandleTypes, ThreadTypes
<1>3. ClosedWhenStopped'
  BY DEF ClosedWhenStopped, TypeOK, HandleTypes, ThreadTypes, NULL
<1>4. DumpFollowsName'
  BY DEF DumpFollowsName, TypeOK, HandleTypes, UpdateTypes, NULL
<1>5. FirstRunSafe'
  BY DEF FirstRunSafe, FirstRun, TypeOK, ControlTypes, HandleTypes,
         ThreadTypes, WorksOnOpenDevice, NULL
<1> QED
  BY <1>1, <1>2, <1>3, <1>4, <1>5

LEMMA StopJoinKeeps ==
  ASSUME PcapInv, StopJoin
  PROVE  PcapInv'
<1> USE PlatformPcapAssumption DEF PcapInv, PlatformPcapAssumption, StopJoin,
                                   control, update, flags, handles
<1>1. TypeOK'
  <2>1. ControlTypes'
    BY DEF TypeOK, ControlTypes
  <2>2. UpdateTypes'
    BY DEF TypeOK, UpdateTypes
  <2>3. HandleTypes'
    BY DEF TypeOK, HandleTypes, UpdateTypes, Misuses
  <2>4. ThreadTypes'
    BY DEF TypeOK, ThreadTypes, ControlTypes
  <2> QED
    BY <2>1, <2>2, <2>3, <2>4 DEF TypeOK
<1>2. WorksOnOpenDevice'
  BY DEF WorksOnOpenDevice, TypeOK, HandleTypes, ThreadTypes
<1>3. ClosedWhenStopped'
  BY DEF ClosedWhenStopped, TypeOK, HandleTypes, ThreadTypes, NULL
<1>4. DumpFollowsName'
  BY DEF DumpFollowsName, TypeOK, HandleTypes, UpdateTypes, NULL
<1>5. FirstRunSafe'
  BY DEF FirstRunSafe, FirstRun, TypeOK, ControlTypes, HandleTypes,
         ThreadTypes, WorksOnOpenDevice, NULL
<1> QED
  BY <1>1, <1>2, <1>3, <1>4, <1>5

LEMMA UpdateCallbackKeeps ==
  ASSUME PcapInv, NEW cb \in Callbacks, UpdateCallback(cb)
  PROVE  PcapInv'
<1> USE PlatformPcapAssumption DEF PcapInv, PlatformPcapAssumption,
                                   UpdateCallback, control, update, flags,
                                   handles
<1>1. TypeOK'
  <2>1. ControlTypes'
    BY DEF TypeOK, ControlTypes
  <2>2. UpdateTypes'
    BY DEF TypeOK, UpdateTypes
  <2>3. HandleTypes'
    BY DEF TypeOK, HandleTypes, UpdateTypes, Misuses
  <2>4. ThreadTypes'
    BY DEF TypeOK, ThreadTypes, ControlTypes
  <2> QED
    BY <2>1, <2>2, <2>3, <2>4 DEF TypeOK
<1>2. WorksOnOpenDevice'
  BY DEF WorksOnOpenDevice, TypeOK, HandleTypes, ThreadTypes
<1>3. ClosedWhenStopped'
  BY DEF ClosedWhenStopped, TypeOK, HandleTypes, ThreadTypes, NULL
<1>4. DumpFollowsName'
  BY DEF DumpFollowsName, TypeOK, HandleTypes, UpdateTypes, NULL
<1>5. FirstRunSafe'
  BY DEF FirstRunSafe, FirstRun, TypeOK, ControlTypes, HandleTypes,
         ThreadTypes, WorksOnOpenDevice, NULL
<1> QED
  BY <1>1, <1>2, <1>3, <1>4, <1>5

LEMMA UpdateDumpFileNameKeeps ==
  ASSUME PcapInv, NEW name \in Names \cup {NoName}, UpdateDumpFileName(name)
  PROVE  PcapInv'
<1> USE PlatformPcapAssumption DEF PcapInv, PlatformPcapAssumption,
                                   UpdateDumpFileName, control, update, flags,
                                   handles
<1>1. TypeOK'
  <2>1. ControlTypes'
    BY DEF TypeOK, ControlTypes
  <2>2. UpdateTypes'
    BY DEF TypeOK, UpdateTypes
  <2>3. HandleTypes'
    BY DEF TypeOK, HandleTypes, UpdateTypes, Misuses
  <2>4. ThreadTypes'
    BY DEF TypeOK, ThreadTypes, ControlTypes
  <2> QED
    BY <2>1, <2>2, <2>3, <2>4 DEF TypeOK
<1>2. WorksOnOpenDevice'
  BY DEF WorksOnOpenDevice, TypeOK, HandleTypes, ThreadTypes
<1>3. ClosedWhenStopped'
  BY DEF ClosedWhenStopped, TypeOK, HandleTypes, ThreadTypes, NULL
<1>4. DumpFollowsName'
  BY DEF DumpFollowsName, TypeOK, HandleTypes, UpdateTypes, NULL
<1>5. FirstRunSafe'
  BY DEF FirstRunSafe, FirstRun, TypeOK, ControlTypes, HandleTypes,
         ThreadTypes, WorksOnOpenDevice, NULL
<1> QED
  BY <1>1, <1>2, <1>3, <1>4, <1>5

LEMMA UpdateFlagKeeps ==
  ASSUME PcapInv, UpdateFlag
  PROVE  PcapInv'
<1> USE PlatformPcapAssumption DEF PcapInv, PlatformPcapAssumption, UpdateFlag,
                                   SetFlag, control, update, flags, handles
<1>1. TypeOK'
  <2>1. ControlTypes'
    BY DEF TypeOK, ControlTypes
  <2>2. UpdateTypes'
    BY DEF TypeOK, UpdateTypes
  <2>3. HandleTypes'
    BY DEF TypeOK, HandleTypes, UpdateTypes, Misuses
  <2>4. ThreadTypes'
    BY DEF TypeOK, ThreadTypes, ControlTypes
  <2> QED
    BY <2>1, <2>2, <2>3, <2>4 DEF TypeOK
<1>2. WorksOnOpenDevice'
  BY DEF WorksOnOpenDevice, TypeOK, HandleTypes, ThreadTypes
<1>3. ClosedWhenStopped'
  BY DEF ClosedWhenStopped, TypeOK, HandleTypes, ThreadTypes, NULL
<1>4. DumpFollowsName'
  BY DEF DumpFollowsName, TypeOK, HandleTypes, UpdateTypes, NULL
<1>5. FirstRunSafe'
  BY DEF FirstRunSafe, FirstRun, TypeOK, ControlTypes, HandleTypes,
         ThreadTypes, WorksOnOpenDevice, NULL
<1> QED
  BY <1>1, <1>2, <1>3, <1>4, <1>5

LEMMA LoopKeeps ==
  ASSUME PcapInv, Loop
  PROVE  PcapInv'
<1> USE PlatformPcapAssumption DEF PcapInv, PlatformPcapAssumption, Loop,
                                   Leave, control, update, flags, handles
<1>1. TypeOK'
  <2>1. ControlTypes'
    BY DEF TypeOK, ControlTypes
  <2>2. UpdateTypes'
    BY DEF TypeOK, UpdateTypes
  <2>3. HandleTypes'
    BY DEF TypeOK, HandleTypes, UpdateTypes, Misuses
  <2>4. ThreadTypes'
    BY DEF TypeOK, ThreadTypes, ControlTypes
  <2> QED
    BY <2>1, <2>2, <2>3, <2>4 DEF TypeOK
<1>2. WorksOnOpenDevice'
  BY DEF WorksOnOpenDevice, TypeOK, HandleTypes, ThreadTypes
<1>3. ClosedWhenStopped'
  BY DEF ClosedWhenStopped, TypeOK, HandleTypes, ThreadTypes, NULL
<1>4. DumpFollowsName'
  BY DEF DumpFollowsName, TypeOK, HandleTypes, UpdateTypes, NULL
<1>5. FirstRunSafe'
  BY DEF FirstRunSafe, FirstRun, TypeOK, ControlTypes, HandleTypes,
         ThreadTypes, WorksOnOpenDevice, NULL
<1> QED
  BY <1>1, <1>2, <1>3, <1>4, <1>5

LEMMA OpenCapKeeps ==
  ASSUME PcapInv, OpenCap
  PROVE  PcapInv'
<1> USE PlatformPcapAssumption DEF PcapInv, PlatformPcapAssumption, OpenCap,
                                   Fail, control, update, flags, handles
<1>1. TypeOK'
  <2>1. ControlTypes'
    BY DEF TypeOK, ControlTypes
  <2>2. UpdateTypes'
    BY DEF TypeOK, UpdateTypes
  <2>3. HandleTypes'
    BY DEF TypeOK, HandleTypes, UpdateTypes, Misuses
  <2>4. ThreadTypes'
    BY DEF TypeOK, ThreadTypes, ControlTypes
  <2> QED
    BY <2>1, <2>2, <2>3, <2>4 DEF TypeOK
<1>2. WorksOnOpenDevice'
  BY DEF WorksOnOpenDevice, TypeOK, HandleTypes, ThreadTypes
<1>3. ClosedWhenStopped'
  BY DEF ClosedWhenStopped, TypeOK, HandleTypes, ThreadTypes, NULL
<1>4. DumpFollowsName'
  BY DEF DumpFollowsName, TypeOK, HandleTypes, UpdateTypes, NULL
<1>5. FirstRunSafe'
  BY DEF FirstRunSafe, FirstRun, TypeOK, ControlTypes, HandleTypes,
         ThreadTypes, WorksOnOpenDevice, NULL
<1> QED
  BY <1>1, <1>2, <1>3, <1>4, <1>5

LEMMA OpenCapDumpKeeps ==
  ASSUME PcapInv, OpenCapDump
  PROVE  PcapInv'
<1> USE PlatformPcapAssumption DEF PcapInv, PlatformPcapAssumption,
                                   OpenCapDump, OpenDump, control, update,
                                   flags, handles
<1>1. TypeOK'
  <2>1. ControlTypes'
    BY DEF TypeOK, ControlTypes
  <2>2. UpdateTypes'
    BY DEF TypeOK, UpdateTypes
  <2>3. HandleTypes'
    BY DEF TypeOK, HandleTypes, UpdateTypes, Misuses
  <2>4. ThreadTypes'
    BY DEF TypeOK, ThreadTypes, ControlTypes
  <2> QED
    BY <2>1, <2>2, <2>3, <2>4 DEF TypeOK
<1>2. WorksOnOpenDevice'
  BY DEF WorksOnOpenDevice, TypeOK, HandleTypes, ThreadTypes
<1>3. ClosedWhenStopped'
  BY DEF ClosedWhenStopped, TypeOK, HandleTypes, ThreadTypes, NULL
<1>4. DumpFollowsName'
  BY DEF DumpFollowsName, TypeOK, HandleTypes, UpdateTypes, NULL
<1>5. FirstRunSafe'
  BY DEF FirstRunSafe, FirstRun, TypeOK, ControlTypes, HandleTypes,
         ThreadTypes, WorksOnOpenDevice, NULL
<1> QED
  BY <1>1, <1>2, <1>3, <1>4, <1>5

LEMMA DoCapKeeps ==
  ASSUME PcapInv, DoCap
  PROVE  PcapInv'
<1> USE PlatformPcapAssumption DEF PcapInv, PlatformPcapAssumption, DoCap,
                                   Fail, control, update, flags, handles
<1>1. TypeOK'
  <2>1. ControlTypes'
    BY DEF TypeOK, ControlTypes
  <2>2. UpdateTypes'
    BY DEF TypeOK, UpdateTypes
  <2>3. HandleTypes'
    BY DEF TypeOK, HandleTypes, UpdateTypes, Misuses
  <2>4. ThreadTypes'
    BY DEF TypeOK, ThreadTypes, ControlTypes
  <2> QED
    BY <2>1, <2>2, <2>3, <2>4 DEF TypeOK
<1>2. WorksOnOpenDevice'
  BY DEF WorksOnOpenDevice, TypeOK, HandleTypes, ThreadTypes
<1>3. ClosedWhenStopped'
  BY DEF ClosedWhenStopped, TypeOK, HandleTypes, ThreadTypes, NULL
<1>4. DumpFollowsName'
  BY DEF DumpFollowsName, TypeOK, HandleTypes, UpdateTypes, NULL
<1>5. FirstRunSafe'
  BY DEF FirstRunSafe, FirstRun, TypeOK, ControlTypes, HandleTypes,
         ThreadTypes, WorksOnOpenDevice, NULL
<1> QED
  BY <1>1, <1>2, <1>3, <1>4, <1>5

LEMMA CloseCapKeeps ==
  ASSUME PcapInv, CloseCap
  PROVE  PcapInv'
<1> USE PlatformPcapAssumption DEF PcapInv, PlatformPcapAssumption, CloseCap,
                                   MisuseOfClose, AfterClose, control, update,
                                   flags, handles
<1>1. TypeOK'
  <2>1. ControlTypes'
    BY DEF TypeOK, ControlTypes
  <2>2. UpdateTypes'
    BY DEF TypeOK, UpdateTypes
  <2>3. HandleTypes'
    BY DEF TypeOK, HandleTypes, UpdateTypes, Misuses
  <2>4. ThreadTypes'
    BY DEF TypeOK, ThreadTypes, ControlTypes
  <2> QED
    BY <2>1, <2>2, <2>3, <2>4 DEF TypeOK
<1>2. WorksOnOpenDevice'
  BY DEF WorksOnOpenDevice, TypeOK, HandleTypes, ThreadTypes
<1>3. ClosedWhenStopped'
  BY DEF ClosedWhenStopped, TypeOK, HandleTypes, ThreadTypes, NULL
<1>4. DumpFollowsName'
  BY DEF DumpFollowsName, TypeOK, HandleTypes, UpdateTypes, NULL
<1>5. FirstRunSafe'
  BY DEF FirstRunSafe, FirstRun, TypeOK, ControlTypes, HandleTypes,
         ThreadTypes, WorksOnOpenDevice, NULL
<1> QED
  BY <1>1, <1>2, <1>3, <1>4, <1>5

LEMMA UpdateCapCallbackKeeps ==
  ASSUME PcapInv, UpdateCapCallback
  PROVE  PcapInv'
<1> USE PlatformPcapAssumption DEF PcapInv, PlatformPcapAssumption,
                                   UpdateCapCallback, control, update, flags,
                                   handles
<1>1. TypeOK'
  <2>1. ControlTypes'
    BY DEF TypeOK, ControlTypes
  <2>2. UpdateTypes'
    BY DEF TypeOK, UpdateTypes
  <2>3. HandleTypes'
    BY DEF TypeOK, HandleTypes, UpdateTypes, Misuses
  <2>4. ThreadTypes'
    BY DEF TypeOK, ThreadTypes, ControlTypes
  <2> QED
    BY <2>1, <2>2, <2>3, <2>4 DEF TypeOK
<1>2. WorksOnOpenDevice'
  BY DEF WorksOnOpenDevice, TypeOK, HandleTypes, ThreadTypes
<1>3. ClosedWhenStopped'
  BY DEF ClosedWhenStopped, TypeOK, HandleTypes, ThreadTypes, NULL
<1>4. DumpFollowsName'
  BY DEF DumpFollowsName, TypeOK, HandleTypes, UpdateTypes, NULL
<1>5. FirstRunSafe'
  BY DEF FirstRunSafe, FirstRun, TypeOK, ControlTypes, HandleTypes,
         ThreadTypes, WorksOnOpenDevice, NULL
<1> QED
  BY <1>1, <1>2, <1>3, <1>4, <1>5

LEMMA UpdateCapDumpKeeps ==
  ASSUME PcapInv, UpdateCapDump
  PROVE  PcapInv'
<1> USE PlatformPcapAssumption DEF PcapInv, PlatformPcapAssumption,
                                   UpdateCapDump, OpenDump, MisuseOfReopen,
                                   MisuseOfClose, MisuseOfOpen, control,
                                   update, flags, handles
<1>1. TypeOK'
  <2>1. ControlTypes'
    BY DEF TypeOK, ControlTypes
  <2>2. UpdateTypes'
    BY DEF TypeOK, UpdateTypes
  <2>3. HandleTypes'
    BY DEF TypeOK, HandleTypes, UpdateTypes, Misuses
  <2>4. ThreadTypes'
    BY DEF TypeOK, ThreadTypes, ControlTypes
  <2> QED
    BY <2>1, <2>2, <2>3, <2>4 DEF TypeOK
<1>2. WorksOnOpenDevice'
  BY DEF WorksOnOpenDevice, TypeOK, HandleTypes, ThreadTypes
<1>3. ClosedWhenStopped'
  BY DEF ClosedWhenStopped, TypeOK, HandleTypes, ThreadTypes, NULL
<1>4. DumpFollowsName'
  BY DEF DumpFollowsName, TypeOK, HandleTypes, UpdateTypes, NULL
<1>5. FirstRunSafe'
  BY DEF FirstRunSafe, FirstRun, TypeOK, ControlTypes, HandleTypes,
         ThreadTypes, WorksOnOpenDevice, NULL
<1> QED
  BY <1>1, <1>2, <1>3, <1>4, <1>5

LEMMA PcapInit == Init => PcapInv
<1> SUFFICES ASSUME Init
             PROVE  PcapInv
  OBVIOUS
<1> USE DEF Init
<1>1. TypeOK
  <2>1. starts \in 0 .. MaxStarts /\ updates \in 0 .. MaxUpdates
    BY PlatformPcapAssumption DEF PlatformPcapAssumption
  <2>2. ControlTypes /\ UpdateTypes
    BY <2>1 DEF ControlTypes, UpdateTypes
  <2>3. HandleTypes /\ ThreadTypes
    BY DEF HandleTypes, ThreadTypes, NULL, NoName
  <2> QED
    BY <2>1, <2>2, <2>3 DEF TypeOK
<1>2. WorksOnOpenDevice /\ ClosedWhenStopped /\ DumpFollowsName
  BY DEF WorksOnOpenDevice, ClosedWhenStopped, DumpFollowsName, NULL
<1>3. FirstRunSafe
  BY DEF FirstRunSafe
<1> QED
  BY <1>1, <1>2, <1>3 DEF PcapInv

-----------------------------------------------------------------------------
(***************************************************************************)
(* The inductive invariant: what the status of the capture thread says of  *)
(* its device, and what the first run of a capture keeps true of its dump. *)
(***************************************************************************)
THEOREM PcapInvariant == Spec => []PcapInv
<1>1. PcapInv /\ [Next]_vars => PcapInv'
  <2> SUFFICES ASSUME PcapInv, [Next]_vars
               PROVE  PcapInv'
    OBVIOUS
  <2>1. CASE Start \/ StartFails \/ Stop \/ StopJoin
    BY <2>1, StartKeeps, StartFailsKeeps, StopKeeps, StopJoinKeeps
  <2>2. CASE Update
    BY <2>2, UpdateCallbackKeeps, UpdateDumpFileNameKeeps, UpdateFlagKeeps
       DEF Update
  <2>3. CASE CapThread
    BY <2>3, LoopKeeps, OpenCapKeeps, OpenCapDumpKeeps, DoCapKeeps,
       CloseCapKeeps, UpdateCapCallbackKeeps, UpdateCapDumpKeeps DEF CapThread
  <2>4. CASE UNCHANGED vars
    BY <2>4 DEF vars, control, update, flags, handles, PcapInv, TypeOK,
       ControlTypes, UpdateTypes, HandleTypes, ThreadTypes, WorksOnOpenDevice,
       ClosedWhenStopped, DumpFollowsName, FirstRunSafe, FirstRun
  <2> QED
    BY <2>1, <2>2, <2>3, <2>4 DEF Next
<1> QED
  BY <1>1, PcapInit, PTL DEF Spec

(***************************************************************************)
(* Type correctness of a capture.                                          *)
(***************************************************************************)
THEOREM PcapTypeCorrect == Spec => []TypeOK
<1>1. PcapInv => TypeOK
  BY DEF PcapInv
<1> QED
  BY <1>1, PcapInvariant, PTL

(***************************************************************************)
(* DoCap reads from an open device, through every sequence of failures,    *)
(* restarts and updates; and a capture that is not running has nothing     *)
(* open.                                                                   *)
(***************************************************************************)
THEOREM DeviceIsOpenWhenRead == Spec => []ReadsOpenDevice
<1>1. PcapInv => ReadsOpenDevice
  BY DEF PcapInv, WorksOnOpenDevice, ReadsOpenDevice
<1> QED
  BY <1>1, PcapInvariant, PTL

(***************************************************************************)
(* No change of the dump's name is lost, although OpenCap reads the name   *)
(* without the lock.                                                       *)
(***************************************************************************)
THEOREM NoNameIsLost == Spec => []DumpFollowsName
<1>1. PcapInv => DumpFollowsName
  BY DEF PcapInv
<1> QED
  BY <1>1, PcapInvariant, PTL

(***************************************************************************)
(* The dump's handle is not misused before a failure or a second start,    *)
(* however often and whenever its name or callback is updated.             *)
(***************************************************************************)
THEOREM FirstRunIsSafe == Spec => []DumpSafeInFirstRun
<1>1. PcapInv => DumpSafeInFirstRun
  <2> SUFFICES ASSUME PcapInv, ~failed, ~(starts > 1)
               PROVE  misuse = {}
    BY DEF DumpSafeInFirstRun
  <2>1. starts <= 1
    BY PlatformPcapAssumption
       DEF PcapInv, TypeOK, ControlTypes, PlatformPcapAssumption
  <2> QED
    BY <2>1 DEF PcapInv, FirstRunSafe, FirstRun
<1> QED
  BY <1>1, PcapInvariant, PTL
=============================================================================

------------------------ MODULE PlatformSyncIoProofs ------------------------
(***************************************************************************)
(* The select loop for any number of descriptors and any size of an        *)
(* fd_set: the type of its state, and that whatever callbacks do to the    *)
(* registrations, no callback is called for what was not asked for.        *)
(***************************************************************************)
EXTENDS PlatformSyncIo, FiniteSetTheorems, SequenceTheorems, TLAPS

\* Whatever is still in a set was asked for when the round began.
SetsArePolled == /\ \A fd \in rfds : "read" \in polled[fd]
                 /\ \A fd \in wfds : "write" \in polled[fd]

IoInv == TypeOK /\ SetsArePolled /\ OnlyPolledEvents

-----------------------------------------------------------------------------
LEMMA FdSetWithin ==
  ASSUME NEW walk, NEW S, NEW size
  PROVE  FdSet(walk, S, size) \subseteq S
  BY DEF FdSet

\* An order of the walk is a sequence of descriptors.
LEMMA WalkTyped ==
  ASSUME NEW S \in SUBSET Fds, NEW walk \in SetToSeqs(S)
  PROVE  walk \in Seq(Fds)
<1>1. Cardinality(S) \in Nat
  BY SyncIoAssumption, FS_Subset, FS_CardinalityType
<1>2. walk \in [1 .. Cardinality(S) -> S]
  BY DEF SetToSeqs
<1>3. walk \in [1 .. Cardinality(S) -> Fds]
  BY <1>2
<1> QED
  BY <1>1, <1>3, SeqDef

\* What a callback calls, and what the application does, keeps the types of
\* the registrations.
LEMMA CallbackTyped ==
  ASSUME TypeOK, NEW fd \in Fds, CallbackCall(fd)
  PROVE  registered' \subseteq Fds /\ event' \in [Fds -> SUBSET Events]
  BY DEF CallbackCall, EnableEvent, DisableEvent, SetFdCallback,
         RemoveFdCallback, TypeOK, app

LEMMA AppTyped ==
  ASSUME TypeOK, AppCall
  PROVE  registered' \subseteq Fds /\ event' \in [Fds -> SUBSET Events]
  BY DEF AppCall, EnableEvent, DisableEvent, SetFdCallback,
         RemoveFdCallback, TypeOK

LEMMA ReturnsTyped ==
  ASSUME TypeOK, NEW fd \in Fds, todo # <<>>, Returns(fd)
  PROVE  todo' \in Seq(Fds) /\ setRemoveFd' \subseteq Fds
<1>1. todo \in Seq(Fds) /\ setRemoveFd \subseteq Fds
  BY DEF TypeOK
<1>2. Tail(todo) \in Seq(Fds)
  BY <1>1, HeadTailProperties
<1> QED
  BY <1>1, <1>2 DEF Returns, WalkAfterFail

-----------------------------------------------------------------------------
LEMMA IoInit ==
  ASSUME Init
  PROVE  IoInv
<1>1. TypeOK
  BY EmptySeq DEF Init, TypeOK, None
<1> QED
  BY <1>1 DEF Init, IoInv, SetsArePolled, OnlyPolledEvents

LEMMA AppCallKeeps ==
  ASSUME IoInv, AppCall
  PROVE  IoInv'
<1>1. TypeOK'
  BY AppTyped DEF IoInv, AppCall, TypeOK, os
<1> QED
  BY <1>1 DEF IoInv, AppCall, SetsArePolled, OnlyPolledEvents

LEMMA PollKeeps ==
  ASSUME IoInv, Poll
  PROVE  IoInv'
<1>1. /\ registered \subseteq Fds
      /\ event \in [Fds -> SUBSET Events]
  BY DEF IoInv, TypeOK
<1>2. /\ rfds' \subseteq {fd \in registered : WantsRead(fd)}
      /\ wfds' \subseteq {fd \in registered : WantsWrite(fd)}
  BY FdSetWithin DEF Poll
<1>3. /\ \A fd \in registered : polled'[fd] = event[fd]
      /\ polled' \in [Fds -> SUBSET Events]
  BY <1>1 DEF Poll
<1>4. order' \in Seq(Fds)
  BY <1>1, WalkTyped DEF Poll
<1>5. SetsArePolled'
  BY <1>1, <1>2, <1>3 DEF SetsArePolled, WantsRead, WantsWrite
<1>6. TypeOK'
  BY <1>1, <1>2, <1>3, <1>4 DEF IoInv, Poll, TypeOK, app, os
<1>7. OnlyPolledEvents'
  BY DEF Poll, OnlyPolledEvents
<1> QED
  BY <1>5, <1>6, <1>7 DEF IoInv

LEMMA SelectKeeps ==
  ASSUME IoInv, Select
  PROVE  IoInv'
<1>1. CASE SelectFail \/ SelectTimeout
  <2>1. /\ pc' = "idle" /\ rfds' = {} /\ wfds' = {}
        /\ order' = <<>> /\ todo' = <<>> /\ setRemoveFd' = {}
        /\ UNCHANGED <<registered, event, readable, writable, polled, called>>
    BY <1>1 DEF SelectFail, SelectTimeout, Return, app, os
  <2>2. <<>> \in Seq(Fds)
    BY EmptySeq
  <2> QED
    BY <2>1, <2>2 DEF IoInv, TypeOK, SetsArePolled, OnlyPolledEvents
<1>2. CASE SelectReady
  BY <1>2 DEF SelectReady, IoInv, TypeOK, SetsArePolled, OnlyPolledEvents, app, os
<1> QED
  BY <1>1, <1>2 DEF Select

LEMMA DispatchWriteKeeps ==
  ASSUME IoInv, NEW fd \in Fds, DispatchWrite(fd)
  PROVE  IoInv'
<1>1. /\ registered' \subseteq Fds /\ event' \in [Fds -> SUBSET Events]
      /\ todo' \in Seq(Fds) /\ setRemoveFd' \subseteq Fds
  BY CallbackTyped, ReturnsTyped DEF IoInv, DispatchWrite, Here
<1>2. /\ fd \in wfds /\ wfds' = wfds \ {fd} /\ called' = <<fd, "write">>
      /\ writable' \subseteq writable
      /\ UNCHANGED <<readable, pc, rfds, order, polled>>
  BY DEF DispatchWrite
<1>3. TypeOK'
  BY <1>1, <1>2 DEF IoInv, TypeOK, Events
<1>4. called'[1] = fd /\ called'[2] = "write"
  BY <1>2
<1> QED
  BY <1>2, <1>3, <1>4 DEF IoInv, SetsArePolled, OnlyPolledEvents

LEMMA DispatchReadKeeps ==
  ASSUME IoInv, NEW fd \in Fds, DispatchRead(fd)
  PROVE  IoInv'
<1>1. /\ registered' \subseteq Fds /\ event' \in [Fds -> SUBSET Events]
      /\ todo' \in Seq(Fds) /\ setRemoveFd' \subseteq Fds
  BY CallbackTyped, ReturnsTyped DEF IoInv, DispatchRead, Here
<1>2. /\ fd \in rfds /\ rfds' = rfds \ {fd} /\ called' = <<fd, "read">>
      /\ readable' \subseteq readable
      /\ UNCHANGED <<writable, pc, wfds, order, polled>>
  BY DEF DispatchRead
<1>3. TypeOK'
  BY <1>1, <1>2 DEF IoInv, TypeOK, Events
<1>4. called'[1] = fd /\ called'[2] = "read"
  BY <1>2
<1> QED
  BY <1>2, <1>3, <1>4 DEF IoInv, SetsArePolled, OnlyPolledEvents

LEMMA DispatchNextKeeps ==
  ASSUME IoInv, DispatchNext
  PROVE  IoInv'
<1>1. todo' \in Seq(Fds)
  BY HeadTailProperties DEF IoInv, TypeOK, DispatchNext
<1> QED
  BY <1>1 DEF DispatchNext, IoInv, TypeOK, SetsArePolled, OnlyPolledEvents, app, os

LEMMA RemoveFailedKeeps ==
  ASSUME IoInv, RemoveFailed
  PROVE  IoInv'
<1>1. /\ pc' = "idle" /\ rfds' = {} /\ wfds' = {}
      /\ order' = <<>> /\ todo' = <<>> /\ setRemoveFd' = {}
      /\ called' = None
      /\ UNCHANGED <<readable, writable, polled>>
  BY DEF RemoveFailed, Return, os
<1>2. /\ registered' \subseteq Fds
      /\ event' \in [Fds -> SUBSET Events]
  BY DEF RemoveFailed, IoInv, TypeOK
<1>3. <<>> \in Seq(Fds)
  BY EmptySeq
<1> QED
  BY <1>1, <1>2, <1>3 DEF IoInv, TypeOK, SetsArePolled, OnlyPolledEvents

LEMMA BecomesReadyKeeps ==
  ASSUME IoInv, BecomesReady
  PROVE  IoInv'
  BY DEF BecomesReady, IoInv, TypeOK, SetsArePolled, OnlyPolledEvents, app

-----------------------------------------------------------------------------
(***************************************************************************)
(* The invariant of the loop: what the sets given back by select still     *)
(* hold was asked for, however the registrations changed since.            *)
(***************************************************************************)
THEOREM IoInvariant == Spec => []IoInv
<1>1. Init => IoInv
  BY IoInit
<1>2. IoInv /\ [Next]_vars => IoInv'
  <2> SUFFICES ASSUME IoInv, [Next]_vars
               PROVE  IoInv'
    OBVIOUS
  <2>1. CASE AppCall \/ Poll \/ Select \/ BecomesReady
    BY <2>1, AppCallKeeps, PollKeeps, SelectKeeps, BecomesReadyKeeps
  <2>2. CASE Dispatch
    BY <2>2, DispatchWriteKeeps, DispatchReadKeeps, DispatchNextKeeps,
       RemoveFailedKeeps DEF Dispatch
  <2>3. CASE UNCHANGED vars
    BY <2>3 DEF vars, app, os, IoInv, TypeOK, SetsArePolled, OnlyPolledEvents
  <2> QED
    BY <2>1, <2>2, <2>3 DEF Next
<1> QED
  BY <1>1, <1>2, PTL DEF Spec

(***************************************************************************)
(* Type correctness of the loop and its registrations.                     *)
(***************************************************************************)
THEOREM IoTypeCorrect == Spec => []TypeOK
<1>1. IoInv => TypeOK
  BY DEF IoInv
<1> QED
  BY <1>1, IoInvariant, PTL

(***************************************************************************)
(* For any number of descriptors a callback is only called with an event   *)
(* that its descriptor had asked for when the round began.                 *)
(***************************************************************************)
THEOREM OnlyAskedForIsCalled == Spec => []OnlyPolledEvents
<1>1. IoInv => OnlyPolledEvents
  BY DEF IoInv
<1> QED
  BY <1>1, IoInvariant, PTL
=============================================================================

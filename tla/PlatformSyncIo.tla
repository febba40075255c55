--------------------------- MODULE PlatformSyncIo ---------------------------
(***************************************************************************)
(* The select loop (SyncIo/PlatformSyncIoSelect.cpp): descriptors          *)
(* registered with a callback and the events it wants, and Execute, one    *)
(* round of select and callbacks.  One thread uses a handle: its interface *)
(* says that nothing in it is locked.                                      *)
(*                                                                         *)
(* Execute is split where the world can change under it: at select, and at *)
(* every callback, which may itself use the handle.  A callback may do     *)
(* what leaves the loop over _mapEvents defined: change events, replace a  *)
(* registration, remove that of another descriptor.                        *)
(***************************************************************************)
EXTENDS Naturals, Sequences, FiniteSets, SequencesExt

CONSTANTS Fds,        \* the descriptors that may be registered
          FdSetSize   \* how many an fd_set takes; FD_SET ignores the rest

ASSUME SyncIoAssumption == IsFiniteSet(Fds) /\ FdSetSize \in Nat \ {0}

VARIABLES
  registered,          \* the keys of _mapEvents
  event,               \* SEvent.event of each
  readable, writable,  \* the descriptors that are ready (the operating system)
  pc,                  \* "idle", or where Execute is
  rfds, wfds,          \* the sets given to select, then those it gives back
  order,               \* the order in which _mapEvents is walked this round
  todo,                \* what is left of it
  setRemoveFd,         \* the descriptors whose callback failed this round
  polled,              \* what each descriptor asked for when the round began
  called               \* the callback that ran last: <<fd, event>>, or None

app  == <<registered, event>>
os   == <<readable, writable>>
vars == <<app, os, pc, rfds, wfds, order, todo, setRemoveFd, polled, called>>

Events == {"read", "write"}
None   == <<>>

-----------------------------------------------------------------------------
Init == /\ registered = {}
        /\ event = [fd \in Fds |-> {}]
        /\ readable = {} /\ writable = {}
        /\ pc = "idle"
        /\ rfds = {} /\ wfds = {}
        /\ order = <<>> /\ todo = <<>>
        /\ setRemoveFd = {}
        /\ polled = [fd \in Fds |-> {}]
        /\ called = None

\* SetFdCallback with a callback, a new one or in the place of the old one.
SetFdCallback(fd, es) == /\ registered' = registered \cup {fd}
                         /\ event' = [event EXCEPT ![fd] = es]

\* A faulty variant: the SEvent is deleted and its key stays, with no SEvent.
RemoveButKeepKey(fd) == /\ event' = [event EXCEPT ![fd] = {"deleted"}]
                        /\ UNCHANGED registered

\* SetFdCallback without one.
RemoveFdCallback(fd) == /\ registered' = registered \ {fd}
                        /\ event' = [event EXCEPT ![fd] = {}]

EnableEvent(fd, e) == /\ fd \in registered
                      /\ event' = [event EXCEPT ![fd] = @ \cup {e}]
                      /\ UNCHANGED registered

DisableEvent(fd, e) == /\ fd \in registered
                       /\ event' = [event EXCEPT ![fd] = @ \ {e}]
                       /\ UNCHANGED registered

\* A call between two rounds.
AppCall ==
  /\ pc = "idle"
  /\ \E fd \in Fds :
       \/ \E es \in SUBSET Events : SetFdCallback(fd, es)
       \/ RemoveFdCallback(fd)
       \/ \E e \in Events : EnableEvent(fd, e) \/ DisableEvent(fd, e)
  /\ called' = None
  /\ UNCHANGED <<os, pc, rfds, wfds, order, todo, setRemoveFd, polled>>

\* What the callback of fd may call: it must not insert a descriptor nor
\* remove its own, either of which invalidates the iterator of Execute.
CallbackCall(fd) ==
  \/ UNCHANGED app
  \/ \E e \in Events, fd2 \in Fds : EnableEvent(fd2, e) \/ DisableEvent(fd2, e)
  \/ \E fd2 \in registered, es \in SUBSET Events : SetFdCallback(fd2, es)
  \/ \E fd2 \in Fds \ {fd} : RemoveFdCallback(fd2)

-----------------------------------------------------------------------------
\* The descriptors of S, in the order of the walk as far as an fd_set holds.
FdSet(walk, S, size) ==
  {walk[i] : i \in {j \in DOMAIN walk :
     walk[j] \in S /\ Cardinality({k \in 1 .. j : walk[k] \in S}) <= size}}

WantsRead(fd) == "read" \in event[fd]

\* A faulty variant: a descriptor is polled for writing all the time.
AlwaysWantsWrite(fd) == ~WantsRead(fd)

\* The else if of the polling loop.
WantsWrite(fd) == ~WantsRead(fd) /\ "write" \in event[fd]

\* rfds also holds the idle socket, which is never ready.
Poll ==
  /\ pc = "idle"
  /\ pc' = "select"
  /\ order' \in SetToSeqs(registered)
  /\ rfds' = FdSet(order', {fd \in registered : WantsRead(fd)}, FdSetSize - 1)
  /\ wfds' = FdSet(order', {fd \in registered : WantsWrite(fd)}, FdSetSize)
  /\ polled' = [fd \in Fds |-> IF fd \in registered THEN event[fd] ELSE {}]
  /\ called' = None
  /\ UNCHANGED <<app, os, todo, setRemoveFd>>

\* Execute returns: its sets are gone.
Return == /\ pc' = "idle"
          /\ rfds' = {} /\ wfds' = {}
          /\ order' = <<>> /\ todo' = <<>>
          /\ setRemoveFd' = {}

SelectFail ==
  /\ pc = "select"
  /\ Return
  /\ UNCHANGED <<app, os, polled, called>>

SelectTimeout ==
  /\ pc = "select"
  /\ rfds \cap readable = {} /\ wfds \cap writable = {}
  /\ Return
  /\ UNCHANGED <<app, os, polled, called>>

SelectReady ==
  /\ pc = "select"
  /\ rfds \cap readable # {} \/ wfds \cap writable # {}
  /\ rfds' = rfds \cap readable
  /\ wfds' = wfds \cap writable
  /\ todo' = order
  /\ pc' = "dispatch"
  /\ UNCHANGED <<app, os, order, setRemoveFd, polled, called>>

-----------------------------------------------------------------------------
\* The descriptor the walk is at: what a callback removed is not met.
Here(fd) == pc = "dispatch" /\ todo # <<>> /\ fd = Head(todo) /\ fd \in registered

\* A faulty variant: a failed callback ends the walk.
WalkAfterFailStops == <<>>

\* A failed callback: the walk continues with the next descriptor.
WalkAfterFail == Tail(todo)

\* A callback that returns anything but failure, or failure.
Returns(fd) ==
  \/ UNCHANGED <<todo, setRemoveFd>>
  \/ todo' = WalkAfterFail /\ setRemoveFd' = setRemoveFd \cup {fd}

\* The callback may use up what made the descriptor ready, or not.
DispatchWrite(fd) ==
  /\ Here(fd) /\ fd \in wfds
  /\ wfds' = wfds \ {fd}
  /\ called' = <<fd, "write">>
  /\ CallbackCall(fd)
  /\ writable' \in {writable, writable \ {fd}}
  /\ Returns(fd)
  /\ UNCHANGED <<readable, pc, rfds, order, polled>>

DispatchRead(fd) ==
  /\ Here(fd) /\ fd \notin wfds /\ fd \in rfds
  /\ rfds' = rfds \ {fd}
  /\ called' = <<fd, "read">>
  /\ CallbackCall(fd)
  /\ readable' \in {readable, readable \ {fd}}
  /\ Returns(fd)
  /\ UNCHANGED <<writable, pc, wfds, order, polled>>

DispatchNext ==
  /\ pc = "dispatch" /\ todo # <<>>
  /\ Head(todo) \in registered => Head(todo) \notin rfds \cup wfds
  /\ todo' = Tail(todo)
  /\ called' = None
  /\ UNCHANGED <<app, os, pc, rfds, wfds, order, setRemoveFd, polled>>

RemoveFailed ==
  /\ pc = "dispatch" /\ todo = <<>>
  /\ registered' = registered \ setRemoveFd
  /\ event' = [fd \in Fds |-> IF fd \in setRemoveFd THEN {} ELSE event[fd]]
  /\ Return
  /\ called' = None
  /\ UNCHANGED <<os, polled>>

\* The other ends of the descriptors.
BecomesReady ==
  /\ \E fd \in Fds : \/ readable' = readable \cup {fd} /\ UNCHANGED writable
                     \/ writable' = writable \cup {fd} /\ UNCHANGED readable
  /\ UNCHANGED <<app, pc, rfds, wfds, order, todo, setRemoveFd, polled, called>>

-----------------------------------------------------------------------------
Dispatch == \/ \E fd \in Fds : DispatchWrite(fd) \/ DispatchRead(fd)
            \/ DispatchNext
            \/ RemoveFailed

Select == SelectFail \/ SelectTimeout \/ SelectReady

Next == AppCall \/ Poll \/ Select \/ Dispatch \/ BecomesReady

Spec == Init /\ [][Next]_vars

\* The application keeps calling Execute, which runs; and a select that finds
\* something ready again and again does not fail every time.
FairSpec == /\ Spec
            /\ SF_vars(Poll)
            /\ WF_vars(Select)
            /\ SF_vars(SelectReady)
            /\ WF_vars(Dispatch)

-----------------------------------------------------------------------------
TypeOK == /\ registered \subseteq Fds
          /\ event \in [Fds -> SUBSET Events]
          /\ readable \subseteq Fds /\ writable \subseteq Fds
          /\ pc \in {"idle", "select", "dispatch"}
          /\ rfds \subseteq Fds /\ wfds \subseteq Fds
          /\ order \in Seq(Fds) /\ todo \in Seq(Fds)
          /\ setRemoveFd \subseteq Fds
          /\ polled \in [Fds -> SUBSET Events]
          /\ called \in (Fds \X Events) \cup {None}

(***************************************************************************)
(* A callback is only called with an event its descriptor had asked for    *)
(* when the round began, whatever the callbacks before it in the round did *)
(* to the registrations.                                                   *)
(***************************************************************************)
OnlyPolledEvents == called # None => called[2] \in polled[called[1]]

Waits(fd, e, ready) == fd \in registered /\ e \in event[fd] /\ fd \in ready

(***************************************************************************)
(* A registered descriptor that stays readable gets its callback, however  *)
(* the others behave.                                                      *)
(***************************************************************************)
ReadServed ==
  \A fd \in Fds : Waits(fd, "read", readable)
                    ~> (called = <<fd, "read">> \/ ~Waits(fd, "read", readable))

(***************************************************************************)
(* So does a writable one that does not also ask to read.                  *)
(***************************************************************************)
WaitsToWriteOnly(fd) == Waits(fd, "write", writable) /\ "read" \notin event[fd]

WriteOnlyServed ==
  \A fd \in Fds : WaitsToWriteOnly(fd)
                    ~> (called = <<fd, "write">> \/ ~WaitsToWriteOnly(fd))

(***************************************************************************)
(* "First handle the writing ... then handle the reading" of one           *)
(* descriptor, say the comments of Execute's second loop: a descriptor     *)
(* that asked for both and stays writable is called to write.              *)
(***************************************************************************)
WriteServed ==
  \A fd \in Fds : Waits(fd, "write", writable)
                    ~> (called = <<fd, "write">> \/ ~Waits(fd, "write", writable))
=============================================================================

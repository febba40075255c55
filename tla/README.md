# Verification of PlatformBase

PlatformBase is a small C++ library: an asynchronous file logger, file and
directory helpers, socket helpers and addresses, a select loop and a packet
capture.  This directory holds TLA+ models of its stateful parts, the TLC
configurations that check them on small instances, and TLAPS proofs of their
main safety properties for every value of their constants.

Paths below are relative to the repository.

## 1. Inventory

| Component | Source | State | Operations | Model |
|---|---|---|---|---|
| Log queue and threads | `src/Log/PlatformLog.cpp` | list of records, `_logInCnt`, `_isLogFull`, `_isLogReady`, `_bWorkThread`, static `_id`, mutex, condition variable | `Start`, `SendLog`, `WorkThread`, `Stop` | `PlatformLog`, `LogService` |
| Log files | `src/Log/PlatformLog.cpp`, `PlatformLogCtx.cpp` | `_fp`, `_logHours` | `Update`, `PrintFile`, the `fclose` calls of `WorkThread` | `LogFile` |
| Log clearing | `src/Log/PlatformLog.cpp` | the directory, `clearSize` | `DoClear`, `ClearLog` | `LogClear` |
| Files | `src/File/PlatformFile.cpp` | none of its own; the disk, and a tree of `SPlatformFileInfo` | `GetFileInfo` (search, merge sort), `FreeFileInfo`, `PFMakeDirectory`, `PFMakeParentDirectory`, `PFRemoveFile` | `PlatformFile`; as the clearing uses them, `LogClear` |
| Select loop | `src/SyncIo/PlatformSyncIoSelect.cpp` | `_mapEvents` | `SetFdCallback`, `EnableEvent`, `DisableEvent`, `Execute` | `PlatformSyncIo` |
| Packet capture | `src/Pcap/PlatformPcap.cpp` | device, dump file, callback and their update flags, thread, mutex | `Start`, `Stop`, `UpdateCallback`, `UpdateDumpFileName`, `CapThread` | `PlatformPcap` |
| Socket addresses | `src/Socket/PlatformSockAddr*.cpp` | one address and the name of its interface; the options of a socket | create, destroy, compare, increase, decrease, accept, receive, bind, six calls about multicast groups | `PlatformSockAddr` |
| Socket helpers | `src/Socket/PlatformSocket.cpp` | none | socket options | not modelled |
| Library log | `src/Base/PlatformBaseApi.cpp` | one function pointer | `PBLogOut`, `PlatformBaseLogSetCallback` | not modelled |
| Test programs, build scripts | `test/`, `build/` | | | not modelled; quoted where they say what is expected |

How they interact.  Any thread calls `SendLog`; it appends to the queue under
`_mutLog` and notifies the handle's one work thread, which takes the whole queue
at once, and writes the batch to the file of the hour, or deletes it when more
calls were counted than `_maxCount`.  The same thread clears the log directory
now and then, through the file component, with its own file closed.  The
destroying thread stores two flags, notifies and joins.  In a capture, the
capture thread polls flags that the `Update` functions set under a mutex it takes
only once it has seen them.  The select loop has no thread of its own: `Execute`
calls back into code that may use the handle.  The file functions keep nothing
between calls; what their callers share is the disk.  A socket address is handed to
one socket after another, and some calls put a new object where an old one was.

What is hard here:

- unlocked accesses: `SendLog` reads `_bWorkThread` and `_isLogFull` before it
  locks, `Stop` stores and notifies without the lock, `OpenCap` reads
  `_dumpFileName` without it;
- the accounting of the full queue: `_logInCnt` counts refused calls and queued
  ones alike and decides the fate of a whole batch;
- hours: the file is changed on the UTC hour and named after the local hour, and
  records can be queued in another order than their times;
- failures half way: a file that does not open, an entry that is not removed, a
  device that fails at any step and is reopened;
- a disk that changes between two system calls of a search, a removal or the
  making of a directory, and the recursion over it: links, sizes, lists, frees;
- carries over the bytes of an address, and six near-copies of one call that differ
  in one option;
- registrations that change while they are walked;
- endings: `join` returning, logs queued during the last batch.

`PROJECT.json` lists these hazards at their lines, each with the properties that
would catch it going wrong or the reason why none does.

## 2. The log

### 2.1 `LogFile`: which file a line goes to

Time is a number of half hours.  `Offset` is local time minus UTC in half hours, of
each UTC hour, so that zones such as +5:30 and summer time can be expressed (but not a
zone that changes within a UTC hour).  The two disjuncts of `Update` are
the two outcomes of its `if`; in `ChangeFile` the directory or the file may fail
to open, after `_logHours` was set, as in the code.  `PrintFile` appends a line
`[log, file]` to `written`, or nothing without a file.

- `LogInItsHourFile`: while local time is whole hours from UTC each line is in the file
  named after its own local hour.
- `LogWithinHalfHourOfFile`: while it is not, a line can be in the neighbouring file,
  but never further than half an hour off.

`FileOfHour`, a part of the inductive invariant `FileInv`, says why comparing the
UTC hour alone is sound: the open file was named in the hour kept in `_logHours`.

### 2.2 `PlatformLog`: the threads

| Model | Code |
|---|---|
| `SendCheck` | the unlocked test at the top of `SendLog` |
| `SendDrop` | its early return, which counts the call under the lock |
| `SendEnqueue` | its critical section; `Notify` is `notify_one` |
| `WorkLoop`, `WorkExit` | the loop condition, with the `fclose` of a due clearing or of the end |
| `WorkLock`, `WorkTest`, `WorkBlock`, `SpuriousWake` | `unique_lock` and `wait` with its predicate; releasing the lock and joining the waiters is one step, testing the predicate before that another |
| `WorkTake` | the rest of the section: the queue is taken and everything reset |
| `WorkReport`, `WorkWrite`, `WorkBatchDone` | the batch deleted and reported, or written record by record (`LogFile`) |
| `StopStore`, `StopReady`, `StopNotify`, `StopJoin` | `Stop`, one access at a time |

`SendLog`'s critical section is one step because what it touches is touched by
others only under the lock while senders are running, but for the unlocked reads
of `_isLogFull` and `_bWorkThread`, which are steps of their own (`SendCheck`).
The file component is instantiated as `File`.  `refused`, `discarded` and
`reported` are kept for the properties: ids counted without a record, ids whose
record was deleted unwritten, and the sum of the counts printed as lost.

Two duties of the caller are assumed: a handle is used after `PlatformLogCreate`
returned, and it is destroyed when no call is in `SendLog` (`InFlight = {}` in
`StopStore`), as the test programs do.

Properties: `QueueBounded`, `BatchWithinMaxCount`, `SilentRefusalsBounded` and
`DiscardOnlyNearlyFull` say what the stale read of `_isLogFull` can cost, at most
one log per sender in each case; `OneFateEach`: every id is refused, deleted, on
disk, in the batch or in the queue, and in only one of these, and the counts printed
as lost never exceed what was lost; `WrittenInIdOrder` over disk, batch and queue;
`NoSleepOnQueuedLogs`; `QueueDrains`; `StopReturnsIfAwake`.  That the lines of a
whole handle are in the files of their hours follows from `LogFile` by a proof
(section 8).

`LogService` is what a handle promises, without threads or flags: calls are
numbered, a record is pending until it is written or lost, pending records are
written in order from the oldest, closing loses the rest, and the number pending
is bounded.  `ImplementsService` is the refinement: pending is the batch followed
by the queue, with the capacity `2 * (MaxCount + Cardinality(Senders))`, two
queues of the proved bound.

### 2.3 `LogClear`: the clearing

The constants give a tree, the variables a size for every entry, an order of each
directory's children (by time, any order in the model) and what is on disk.  The
recursion of `ClearLog` is unfolded into `todo`, the nodes still to be visited in
preorder.  `RemoveFile` removes an entry with everything below it, or leaves some
of it; `ClearLog` does not look.  Properties: `ClearSizePositive` (the unsigned
`clearSize` never reaches zero, let alone wraps, so that never more is cleared than
down to 8/10 of the maximum), `NothingLeftFits`, `NewerGoesOnlyIfSmaller`,
`ClearEnds`.

## 3. The file functions: `PlatformFile`

Threads call `PFMakeDirectory`, `PFMakeParentDirectory`, `PFRemoveFile`, and
`GetFileInfo` followed by `FreeFileInfo`, and share nothing but the disk.  Each
system call that looks at the disk or changes it is a step, so that anything may
happen between the `lstat` that calls an entry a directory and its `opendir`.

| Model | Code |
|---|---|
| `StartMake`, `MakeStep`, `MakeDone` | the loop over the separators in `PFMakeDirectory`, one `mkdir` each; `EEXIST`, whatever exists, is passed over |
| `StartWalk` | the call of `PFRemoveFile` or `GetFileInfo`, a pseudo-directory `Top` with the path as its one entry |
| `ReadGone`, `ReadToRemove`, `ReadToSearch` | one turn of the `readdir` loop: the entry's `lstat` and its node |
| `EnterOpens`, `EnterFails` | the recursive call: its own `lstat`, and `opendir` |
| `RemoveEntry`, `RemoveFrameEnds`, `RemoveDir` | `remove`, the end of a directory, `rmdir` after it |
| `SearchFrameEnds` | the end of a directory in a search: `SortList` and `totalSize` |
| `FreeFileInfo` | the recursion over children, next and the node itself |

`readdir` returns what was there at the opening and still is, in any order, and may
return what came later.  `anew` keeps what was made in a directory that a walk has
open: a removal may be given an entry once more that it has removed and another
thread has made again, or may not be, and then its `rmdir` fails.  A disk has
directories that cannot be entered (`denied`) or removed (`busy`) and may have a link
out of the tree.  A `sortMode` that the code does not know leaves the list in the
order it was read in.  `SortList`, `MergeTwoList`
and `FreedNodes` are the code's recursions, as recursive functions: on a sequence of
entries, on the pair of sequences that are merged, and on a sequence of nodes.

Limits of the model, each named in the module: no path goes through a symbolic link
(`mkdir` would follow it; a part of `PlatformFileAssumption`); a path stands for a
file, so that a directory that is removed and made again under a walk that has it
open counts as the same one; and since a search's nodes are paths, it is not given
the same path twice.

- `RemoveOkMeansGone`: 0 is returned only when nothing visible is left, whoever
  else removes the same, and it is returned when nobody and nothing is in the way.
- `MakeOkMeansMade`: 0 exactly when nothing is in the way; threads that make the
  same directories do not disturb each other.
- `OthersSpared`: nothing outside the path goes or is found, links included.
- `SearchFindsAll`, `SizesAddUp`, `ListsSorted`, `AllNodesFreed`: the tree that
  `GetFileInfo` returns is complete, its sizes (which the clearing counts on) add
  up even if the disk changes meanwhile, its lists are sorted with equal keys in
  reverse order of reading (an unknown mode keeps the order of reading), and each
  node is freed once.
- `CallsReturn`: every call ends, whatever the others do to the disk.

## 4. The select loop: `PlatformSyncIo`

`Execute` is `Poll` (the two sets are built), one of `SelectFail`,
`SelectTimeout`, `SelectReady`, the walk `DispatchWrite`, `DispatchRead`,
`DispatchNext`, and `RemoveFailed`.  It is split where the world changes: at
`select` and at each callback.  A callback changes events, replaces registrations
and removes that of another descriptor (`CallbackCall`); inserting a descriptor
or removing its own would invalidate the iterator and is excluded.  The interface
says that nothing is locked, so a handle has one thread.

`OnlyPolledEvents`: whatever earlier callbacks changed, a callback runs only for
what its descriptor had asked for when the round began.  `ReadServed` and
`WriteOnlyServed`: a descriptor that stays ready is served.

## 5. The packet capture: `PlatformPcap`

The controlling thread (`Start`, `StartFails`, `Stop`, `StopJoin`), an updating
thread (`UpdateCallback`, `UpdateDumpFileName`, and `UpdateFlag`, the second
statement of either, still in the lock; the name may be empty, which turns the dump
off), and the capture thread: `Loop` (reads `_isRunning` and turns to the status),
`OpenCap`, `OpenCapDump`, `DoCap`, `CloseCap`, and the two halves of `UpdateCap`.  A
flag is only ever reset by the capture thread, so seeing it and taking the lock is
one step.  libpcap is external: a device opens or not, a filter fails, a read fails,
times out, gives a packet or never comes back.  `Loop` has no case for a status
other than the three that are ever set; the code has a default that takes it for an
error.  `misuse` collects what would be done with a dump handle that is not open;
the capture is undefined from then on.  `Start` is only called when no thread runs.

`ReadsOpenDevice` (packets are read from an open device, and nothing is open once
no capture runs), `DumpFollowsName`, `StopReturns` (the `join` of `Stop` returns,
unless a read of the device never does: nothing in `Stop` breaks it off), and
`DumpSafeInFirstRun`: up to the first failure of the device and the second start
the dump's handle is never misused.  The condition is needed: `CloseCap` leaves
`_pcapDumpHdl` set, so a later close, or an update that finds no device, misuses
it.  TLC reaches all four kinds of misuse once it is dropped.

## 6. Socket addresses: `PlatformSockAddr`

One thread has three handles, named for what they are given to calls as, and one
socket.  An address is its family and its bytes; `Base` and `Width` are constants,
so that every carry happens in a small instance.

| Model | Code |
|---|---|
| `Create`, `CreateLocal`, `Destroy` | `PSockAddrCreate`, `PSockAddrCreateLocal` (literal or name; the walk over the interfaces in `SetLocalArgs`), `PSockAddrDestroy` |
| `Increase`, `Decrease`, `Cmp`, `Compare` | the loops of both classes over the bytes |
| `Accept`, `Recvfrom` | the calls that destroy the caller's handle and put a new one in its place |
| `Bind` | `bind`, and for IPv4 with a local handle `SO_BINDTODEVICE` after it |
| `GroupCall` | join, leave, and add, drop, block and unblock a source; `Option` is the one constant in which the copies differ |

The kernel's side of the multicast options (`Setsockopt`, `Refused`) is external and
follows Linux.  A membership lets in all sources but some, or some only.  Once it has
a list of sources (`Listed`) its mode is fixed; one without (`Unlisted`) is switched
to the mode of a request about a source before the source is looked for (`Switched`),
so that a call that then fails with -1 has changed it: a drop in a group that was
joined plainly leaves it letting in nothing.  `objects` counts allocations: `TypeOK`
says that it is the number of handles that hold one.

- `CountsByOne`: counting goes to the very next address in the order of
  `PSockAddrCompare`, and fails exactly at the ends.
- `FilterAsAsked`: a call about a group that returns 0 has done to the sources what
  it is named for, and nothing to another group or source, but that the first source
  of a plainly joined group may turn its mode.  One that returns -1 has left a group
  with a list of sources as it was, and others too; without a list it may have been
  switched, and a failed add may have joined it.
- `Local4HasInterface`: an IPv4 handle knows its interface, and a socket bound with
  it is bound to that interface.  For IPv6 see
  `SourcesOfBothFamilies`.
- `SourcesOfBothFamilies` joins what `PlatformSocket.h` says of both families and of
  local handles: on the interface of a local handle a source of a group can be added.
  The run `SockAddrIpv6` refutes it.

`PlatformSocket.h:287` also says that `PSockAddrRecvfrom` returns the number of bytes,
and 0 when the peer has closed the connection.  The code returns -1 whenever `recvfrom`
gave no address (`PlatformSockAddr.cpp:299`), and on a stream it gives none: neither
the number nor the 0 reaches the caller.  `Recvfrom` returns what the code returns; no
property is about it.

## 7. Runs

| Run | Instance | Shows |
|---|---|---|
| `LogFile` | logs of four half hours, at whose middle the zone goes from +11 to +10:30, 3 lines | every order of four times over an hour's end, with closes and failed opens |
| `LogQueue` | 2 senders, `MaxCount` 3, 9 calls | all safety properties of the threads: the queue fills, overflows, is taken with a stale read pending, is deleted, and fills again |
| `LogLive` | 2 senders, `MaxCount` 1, 4 calls | refinement of `LogService`, liveness |
| `LogStop` | 2 senders, 2 calls | violation: `Stop` need not return |
| `LogClear` | a directory of two days with two files each, sizes 1 and 7, maximum 20 | the clearing, every size, order and failed removal |
| `Files` | 8 paths, 7 disks (a full tree, a link out of it, an empty disk, directories that cannot be entered or removed), two threads of one call each | all properties of the file functions, every order of `readdir` and of the two threads' system calls |
| `SockAddr` | bytes of 3 values, addresses of 1 and 2 bytes, 4 literals, the source's handle counted and received into, a group of each family, up to 2 of 3 sources in a membership | handles, counting, binding, interfaces, and what a call about a group did when it returns 0 and when it returns -1 |
| `SockAddrIpv6` | the same | violation: no source can be added to an IPv6 group on the interface of a local handle |
| `SyncIo` | 2 descriptors | types, `OnlyPolledEvents`, no starvation |
| `SyncIoWrite` | 1 descriptor | violation: a descriptor that asks for both events never writes |
| `Pcap` | 3 types, 2 names and the empty one, 1 callback, 2 starts, 2 updates | handles, names, `StopReturns` |
| `PcapCallback` | 1 start, 1 update | violation: a callback is never installed |

Why the bounds are enough.  In `LogQueue`, `MaxCount` is larger than the number of
senders, so that a nearly full batch differs from a small one, and 9 calls go through
more than two full queues: a count or flag left over from one batch shows in the
next.  Three senders add states and no new order of unlocked read and reset, and the
bounds themselves are proved for any number.  Two callbacks of the same round are
what one descriptor's callback can do to another; a third descriptor adds a
repetition.  In `Files` one thread makes every kind of call and the other those that
change the disk under it; four entries in one directory sort lists of up to four with
equal keys, two levels have a directory in a directory.  In `SockAddr` two bytes have
a carry, and three values a byte that is at neither end; the proofs are for any
number of both.  With two of three sources a list can gain a second source, be full,
refuse a third, and lose one or the last.  A socket that is bound and in a group does
nothing more (`BoundOrInGroups`): the two have nothing to do with each other.  In
`LogFile` the zone is that of Lord Howe Island at the end of its summer time, so that
one hour has local time whole hours from UTC and the next has not.  Two starts are
the first and one that finds what a stop left.  `MaxSends`, `MaxWritten`, `MaxStarts`
and `MaxUpdates` only bound how often the environment acts; the constants they bound
are otherwise free.  `LogQueue`, `LogLive` and `LogStop` end when the handle is
destroyed, `LogClear` when the clearing ends, and `Files` when every thread made its
call: they do not check for deadlock.  Neither do the runs of `PlatformSockAddr`: one
thread that waits for nothing cannot be in one.

### Fairness

- `PlatformLog`: weak fairness of the work thread and of a `Stop` once begun, that
  is, the scheduler runs a thread that can run.  None for the senders, for
  beginning `Stop`, or for a spurious wake-up, which the language does not promise.
- `LogClear`: weak fairness of its one sequential process.
- `PlatformFile`: weak fairness of each thread that made a call; none for making
  one.
- `PlatformSockAddr`: none; it has no liveness property.
- `PlatformSyncIo`: the application keeps calling `Execute` (strong, as it does
  other things in between), `Execute` runs, and a `select` that again and again has
  something ready does not fail every time.
- `PlatformPcap`: weak fairness of the capture thread's own steps, of leaving the
  critical section, and of `join`; none for a read of the device.  The timeout of
  1000 ms that it is opened with does not bound `pcap_next_ex`: on some platforms it
  only starts with a first packet.  `StopReturns` and `CallbackInstalled` therefore
  allow a capture that reads for ever (`ReadsForEver`).

### What the violations show

- `LogStop`: `Stop` stores `_isLogReady` and notifies without the lock
  (`PlatformLog.cpp:51`).  Between the work thread's test of the predicate and its
  sleep both are missed; it sleeps for good and `join` does not return, nor does
  `PlatformLogDestroy`.  `StopReturnsIfAwake` is what does hold.
- `SyncIoWrite`: the `else if` at `PlatformSyncIoSelect.cpp:141` never polls a
  descriptor for writing while it asks for reading.
- `PcapCallback`: `UpdateCallback` sets the dump file's flag
  (`PlatformPcap.cpp:159`), so `UpdateCap` never takes the new callback over.
- `SockAddrIpv6`: two faults, either of which is enough.  `SetLocalArgs` of the IPv6
  class walks the interfaces with `nIfa` and compares the first of the list, `ifa`
  (`PlatformSockAddrIpv6.cpp:63`): the entry with the handle's own address is never
  recognised.  And the requests about sources have the bare address where their family
  belongs (`PlatformSockAddrIpv6.cpp:192` and the three copies of it), so the kernel
  refuses all of them.

`ClearLog` removes only entries smaller than what is still to be cleared, so that a
complete clearing may leave more than `maxSize`; `NothingLeftFits` is what it does
promise.

Every property of a passing run has a mutant in `PROJECT.json`: a faulty variant
of one mapped definition, kept beside it in the module, under which TLC finds the
property violated.

## 8. Proofs

TLAPS checks eight modules, for every value of the constants that satisfies the
named assumption of the component's module (finite senders, a positive `MaxCount`,
times that are natural numbers also in local time, finite trees of entries and of
paths, and disks on which what is in a directory is in a directory, and no path goes
through a link).  The theorems
about the invariants below have the form `Spec => []Inv`; each inductive invariant
was first checked by TLC on the run of its module.

`LogFileProofs`: `FileInv` is inductive (`FileCorrect`).  `FileOfHour` is what makes
it so: that `KeepFile` is sound follows from the hour the open file was named in.
Lemma `FileFitsHour` is the arithmetic of half hours.  `FileTypeCorrect`,
`LinesInTheirHour` and `LinesWithinHalfHour` follow.

`PlatformLogProofs` has four parts.

1. The queue.  Neither the bound on the queue nor the bounds on what stale reads
   cost are inductive.  `QueueInv` adds
   - `Control`: the lock is held exactly where the work thread is in its section,
     and nobody is in `SendLog` once `Stop` began;
   - `Room`: while the flag is down the queue fits, and the excess of the counter
     together with the senders about to count a refused call is at most the number
     of senders; while it is up, the queue together with the senders about to append
     is at most `MaxCount` and the number of senders;
   - `Taken`: what the batch holds where the work thread is, and that a queue with
     records has `_isLogReady` set.

   The senders at each place are counted by cardinalities; lemmas `SenderLeaves` and
   `SenderElsewhere` say how these change when one sender moves.  One lemma per
   action proves that it keeps `QueueInv`.  The theorems are `TypeCorrect`,
   `QueueIsBounded`, `SilentRefusalsAreBounded`, `BatchesAreSized`,
   `DiscardsAreNearlyFull` and `NoLogsSleptOn`.
2. The order.  `OrderInv`, relative to `QueueInv`, has three parts.  `Placed`: ids
   rise along disk, batch and queue.  `Fates`: the ids refused, deleted and kept are
   disjoint and make up `1 .. _id`.  `Counted`: what was reported, with what the
   counters hold beyond the records there are, is at most the number of ids lost.
   The theorems are `IdOrderIsKept` and `FatesAreUnique`.
3. The service.  The step simulation of `LogService`, one lemma per action: a call,
   a record written or lost, a deleted batch and closing are service steps, all else
   stutters.  The capacity of two queues comes from the bounds in `QueueInv`.
   `StepsImplementService` is `ImplementsService` without its fairness.
4. The file.  The handle implements `LogFile` (`ThreadsUseTheFile`).  The bound on
   lines that `LogFile` has needs `OrderInv`, lines on disk have different ids, and a
   count of the calls in flight (`CallsBounded`).  With the theorems of
   `LogFileProofs`, instantiated for the handle's records, the lines of a whole
   handle are in the files of their hours (`LinesOfTheHandleInTheirHour`).

`RecursionLemmas` holds what the proofs about trees need and the library does not
give in a form its users can instantiate: induction on a measure and over the
subsets of a finite set, stated with sets in the place of predicates; that a
function defined by recursion on a measure exists (`RecursionExists`); and what
`MapThenSumSet` adds up to.  A sum is the number of pairs of an element and a unit
of it (`SumIsUnits`), so that the library's facts on cardinalities carry over:
`SumOfUnion`, `SumOfCover`, and `SumOfSums` for disjoint sets.

`LogClearProofs`: that `clearSize` stays positive is not inductive.  `ClearInv` adds

- `Accounted`: the size of the directory at the start is at most what is on the disk
  and what is accounted for as freed (`RemoveFile` may remove less than it should),
  and what was freed and what is still to be cleared are together the excess;
- `VisitedOnce` and `InOrder`: no entry in `todo` is there twice or below another,
  and entries of one directory are there in their order;
- `WithSiblings`, `Covered` and `OlderFirst`: what was left is too large to go, and
  remains so, since `clearSize` only falls; what was not seen to is in `todo` or
  below something in it.

The theorems are `ClearingNeverWraps`, `ClearingIsComplete` and `OldestGoFirst`.

`PlatformFileProofs`, for any number of threads: lemma `ThisThread` reduces each
step to the thread that takes it, as the others keep what is theirs and see only
the disk change, by one entry that is made or removed (`OneThreadSteps`).  `Above`
and `Chain` are recursive functions; that they are what their definitions say
(`AboveDefined`, `ChainDefined`) is proved from the tree, and the rest by
`TreeInduction` from the top to the leaves.

- `WalkInv` is the form of the walk: the stack goes from the path down, each
  directory an entry that was read from the one before, an entry that was read is
  only returned again when another thread that makes directories has made it anew
  (`AnewOk`), and there are only nodes below the path.  It gives `FileTypeCorrect`, and with
  `DiskInv` (the disk stays a tree, and what is missing was below the path of a
  removal) `NothingElseIsRemoved`.
- `RemoveInv` has the two halves of `RemoveOkMeansGone`.  `PathGone`: once the path
  was seen to with no failure, it is gone, and since the disk is a tree so is all
  that was below it.  `NothingFails`: in a removal that is alone, whatever is left in an
  open directory is yet to be read, but for the entry the walk is at, so that every
  `rmdir` finds its directory empty.  `RemovalIsComplete` follows.
- `MakeInv`: while nobody removes, the disk only gains directories (`OnlyGrows`), and
  the directories on the way to the path are those made and the steps left, in an
  order in which each finds its parent (`MakeWay`); a failure means that something
  was in the way from the start.  `PathNotMade` leaves the path of
  `PFMakeParentDirectory` alone.  `DirectoriesAreMade` follows.
- `SizeInv`: the list of an open directory holds just those of its entries that have a
  node, a node's directory has a node, an open directory counts for itself, and every
  other node for all nodes below it.  A new node adds to no size, because what is
  above it is open (`OpenDirs`); at the end of a directory the nodes below it are
  divided among its entries (`Siblings`, `EntryBetween`), and `SumOfSums` adds them
  up.  `SizesAreTotals` follows.
- The sort.  `MergeDefined` and `SortDefined` say what the merge of two lists and the
  sort of one compute, by recursion on the sum of the lengths and on the length.  For
  any transitive relation that agrees with what the merge compares, `MergeSorts` makes
  one list in order of two, and loses nothing.  `SortOrder` is the relation: the key,
  and for equal keys the later place, since the merge takes the left element only when
  it is less, or, for an unknown mode, the earlier place; `SortSorts` and `SortedList`
  follow for every list without equal elements.
- The nodes.  `Forest` says when lists lead to nodes: each node has the list of those
  of its entries that have nodes, and a node other than the path has its directory's.
  A list then weighs as many nodes as are in it and below, and the lists of its
  head's children and of what follows the head weigh less (`ForestShrinks`).
  `FreeFileInfo` and `Reached` are recursions on that weight; by induction on it, they
  come to all nodes (`FreedAll`, `ReachedAll`), the first to none of them twice, since
  what is below two entries of one directory is apart.
- `NodeInv`: a search that goes on has the sorted list of what was found in each
  directory that is no longer open, and no other call has a node.  When the search
  has ended no directory is open, so its nodes are a forest (`ListsLead`).
  `ListsAreSorted` and `NodesAreFreed` follow, whatever others do to the disk.
- `FoundInv`: in a search that is alone, what can be seen in an open directory is yet
  to be read or has a node, and in a directory with a node that is neither open, nor
  about to be, nor denied, it has a node.  At the end `TreeInduction` from the path
  down finds a node for all that can be seen (`AllIsFound`), and with `ReachedAll`
  the returned list leads to just that (`AllIsReached`).

`PlatformSyncIoProofs`: `OnlyPolledEvents` speaks of the moment of a callback; the
invariant `IoInv` adds that what the sets given back by `select` still hold was
asked for when the round began, through every change of the registrations
(`SetsArePolled`).

`PlatformPcapProofs`: `PcapInv` adds to the properties that the status `WORK`
implies an open device, wherever the capture thread is, and that up to the first
failure of the first run an update always finds the device open, and the device
is opened before any dump (`FirstRunSafe`).  The theorems are `PcapTypeCorrect`,
`DeviceIsOpenWhenRead`, `NoNameIsLost` and `FirstRunIsSafe`.

`PlatformSockAddrProofs`: the last byte that does not overflow and the first one
that differs exist because sets of indices are finite; counting is then a matter of
the bytes before, at and after that index, modulo `Base` (`CountingIsExact`).
`HandleInv` and `SockInv` keep the handles typed and counted
(`SockAddrTypeCorrect`); `LocalHandlesKnowTheirInterface` has one step per call.
`GroupCallsDoAsNamed` goes by the options: `LetsInBefore` says what a membership let
in before it was switched, `SourceAdded` and `SourceRemoved` what it lets in after a
source was added to its list or taken from it, and `RefusedSwitches` what a refusal
leaves behind.

Only model-checked: liveness (`CallsReturn` and the like), and the fairness of
`ImplementsService`, which are out of the prover's reach.  Every invariant and
every action property of the runs that pass is a theorem.

## 9. Not modelled

- The text of a line, level names, colours and `PrintScreen`: wording and layout.
- Packet parsing and the choice of a device: they change no state; and, because of
  the finding above, no callback is reached.
- `PlatformSocket.cpp`: single system calls, flags and conversions without state.
  Of the addresses: ports, texts, what is sent and received, `Connect` and `Sendto`
  (they pass an address on), `_scopeId`, which is copied and never read, and the loop
  on `EAI_AGAIN`, which only the resolver can end; and a list of interfaces whose first
  entry has no address, which `SetLocalArgs` of the IPv6 class would follow.
- Of the files: the texts of paths (separators, trailing or doubled), and the empty
  path and `/`, for which `GetFileInfo` and `PFRemoveFile` look at the last
  character of an empty string; paths through a symbolic link, which `mkdir` follows;
  and a search that is given the same path twice.
- Windows branches other than that of the select loop (which only Windows builds).
- Several handles at once: `_id` is static and guarded by each handle's own mutex.
- A clock: when a clearing is due, and a capture's pause after an error, are any
  interleaving.

## 10. Plan

Done: the models `LogFile`, `PlatformLog`, `LogService`, `LogClear`, `PlatformFile`,
`PlatformSyncIo`, `PlatformPcap` and `PlatformSockAddr`, and eight proof modules,
which state all safety properties of the runs that pass.

Left:

1. Several handles that share `_id`, where ids may repeat across handles.
2. `LogClear` on top of `PlatformFile`, so that other programs change the directory
   between the search and the removals.
3. Callbacks that insert descriptors into the select loop, once its iterator
   survives them.

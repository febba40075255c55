---------------------------- MODULE LogService -----------------------------
(***************************************************************************)
(* What one log handle promises the threads that call it, with the queue,  *)
(* the batches, the flags and the lock of PlatformLog left out.            *)
(*                                                                         *)
(* Calls are numbered in the order the handle counts them.  A call is      *)
(* refused at once or its log is pending; pending logs are settled from    *)
(* the oldest on, one at a time on disk or any number of them lost; what   *)
(* is pending when the handle is closed is lost.  A handle holds a bounded *)
(* number of logs.                                                         *)
(***************************************************************************)
EXTENDS Naturals, Sequences

CONSTANT Capacity   \* the most logs ever pending

VARIABLES sent,      \* calls so far
          pending,   \* the numbers of the logs that wait, oldest first
          settled,   \* the numbers of the logs on disk, oldest first
          lost,      \* the numbers of all others
          closed     \* the handle is destroyed

vars == <<sent, pending, settled, lost, closed>>

Init == /\ sent = 0
        /\ pending = <<>>
        /\ settled = <<>>
        /\ lost = {}
        /\ closed = FALSE

Accept == /\ ~closed
          /\ Len(pending) < Capacity
          /\ sent' = sent + 1
          /\ pending' = Append(pending, sent')
          /\ UNCHANGED <<settled, lost, closed>>

Refuse == /\ ~closed
          /\ sent' = sent + 1
          /\ lost' = lost \cup {sent'}
          /\ UNCHANGED <<pending, settled, closed>>

Write == /\ pending # <<>>
         /\ settled' = Append(settled, Head(pending))
         /\ pending' = Tail(pending)
         /\ UNCHANGED <<sent, lost, closed>>

Lose(k) == /\ lost' = lost \cup {pending[i] : i \in 1 .. k}
           /\ pending' = SubSeq(pending, k + 1, Len(pending))
           /\ UNCHANGED <<sent, settled, closed>>

LoseSome == \E k \in 1 .. Len(pending) : Lose(k)

Close == /\ ~closed
         /\ closed' = TRUE
         /\ lost' = lost \cup {pending[i] : i \in DOMAIN pending}
         /\ pending' = <<>>
         /\ UNCHANGED <<sent, settled>>

Next == Accept \/ Refuse \/ Write \/ LoseSome \/ Close

\* A log does not stay pending: it is written, lost, or the handle closes.
Spec == /\ Init
        /\ [][Next]_vars
        /\ WF_vars(Write \/ LoseSome \/ (pending # <<>> /\ Close))
=============================================================================

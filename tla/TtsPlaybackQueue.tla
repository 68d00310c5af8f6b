--------------------------- MODULE TtsPlaybackQueue ---------------------------
(***************************************************************************)
(* The playback queue of the natural conversation: one audio element at a  *)
(* time, later chunks wait.  The state is a record and every method or     *)
(* callback an operator on it.  A chunk is known by its owner, the         *)
(* exchange it belongs to.                                                 *)
(*                                                                         *)
(* play() returns a promise.  When a chunk is finished before its promise  *)
(* has settled, the rejection arrives later and its handler does not ask   *)
(* whose it is.  Sentences that are synthesised on demand are left out:    *)
(* nothing enqueues any.                                                   *)
(***************************************************************************)
EXTENDS Naturals, Sequences

CONSTANTS
  MaxQueueLength,  \* maxQueueLength: the chunks that wait at most
  Nobody           \* no chunk

ASSUME QueueHoldsSomething == MaxQueueLength \in Nat \ {0}

EmptyQueue == [current |-> Nobody, starting |-> FALSE, pending |-> <<>>, late |-> 0]

Playing(q) == q.current # Nobody

\* playNext: the next chunk starts, if none plays.
PlayNext(q) ==
  IF Playing(q) \/ q.pending = <<>> THEN q
  ELSE [q EXCEPT !.current = Head(q.pending), !.starting = TRUE, !.pending = Tail(@)]

\* playNext has found nothing left and calls onDrained.
Drained(q) == ~Playing(q) /\ q.pending = <<>>

\* finishCurrent: the element is paused; a play() that has not begun rejects later.
FinishCurrent(q) ==
  [q EXCEPT !.current = Nobody, !.starting = FALSE,
            !.late = IF Playing(q) /\ q.starting THEN @ + 1 ELSE @]

\* enqueue: the oldest waiting chunk makes room.
Enqueue(q, owner) ==
  PlayNext([q EXCEPT !.pending =
              Append(IF Len(@) >= MaxQueueLength THEN Tail(@) ELSE @, owner)])

Clear(q) == FinishCurrent([q EXCEPT !.pending = <<>>])

\* The element has begun to play; it has played to its end; it fails; its play() is
\* refused; a play() of an earlier element rejects.
Begins(q) == [q EXCEPT !.starting = FALSE]
Ends(q) == PlayNext(FinishCurrent(q))
Refused(q) == PlayNext(FinishCurrent(Begins(q)))
RejectsLate(q) == PlayNext(FinishCurrent([q EXCEPT !.late = @ - 1]))
=============================================================================

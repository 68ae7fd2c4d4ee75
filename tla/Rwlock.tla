------------------------------- MODULE Rwlock -------------------------------
(***************************************************************************)
(* pthread_rwlock_t as the C library implements it (glibc, readers         *)
(* preferred), also where its use is undefined: the counter of readers     *)
(* goes below zero when a lock is unlocked more often than it was locked,  *)
(* and a reader that would then overflow it is answered EAGAIN, which the  *)
(* file system does not look at.                                           *)
(*                                                                         *)
(* A lock is the counter of readers, the thread that has it for writing    *)
(* and whether it is in its write phase: a thread that asks to write gets  *)
(* it when no reader is counted, or when it is in the write phase already. *)
(***************************************************************************)
EXTENDS Integers

CONSTANT NoThread

Rwlocks(Threads) ==
  [readers : Int, writer : Threads \cup {NoThread}, wrphase : BOOLEAN]

NewLock == [readers |-> 0, writer |-> NoThread, wrphase |-> FALSE]

CanWrite(l) == l.writer = NoThread /\ (l.wrphase \/ l.readers = 0)
WrLock(l, t) == [l EXCEPT !.writer = t, !.wrphase = TRUE]

(* EAGAIN: the counter, unsigned, would exceed its largest value.          *)
Overflows(l) == l.readers + 1 < 0

CanRead(l) == Overflows(l) \/ ~l.wrphase \/ l.writer = NoThread
RdLock(l) ==
  IF Overflows(l) THEN l ELSE [l EXCEPT !.readers = @ + 1, !.wrphase = FALSE]

(* Unlocks for writing if t is the writer, for reading otherwise. The last *)
(* reader starts the write phase for the writer that waits for it.         *)
Unlock(l, t) ==
  IF l.writer = t
  THEN [l EXCEPT !.writer = NoThread, !.wrphase = (l.readers = 0)]
  ELSE [l EXCEPT !.readers = @ - 1]
=============================================================================

---------------------------- MODULE ShutdownGate ----------------------------
(***************************************************************************)
(* tfs_destroy_after_all_closed against tfs_open and tfs_close of Projeto2 *)
(* (fs/operations.c): threads that share single_global_lock, the condition *)
(* no_open_files, the counter open_files and the flag can_open_files. What *)
(* the operations do to the tables is in TecnicoFS.                        *)
(*                                                                         *)
(* tfs_open tests can_open_files before it takes the lock, and             *)
(* tfs_destroy destroys the lock with no regard to who is about to use it. *)
(* The mutex behaves as glibc's: mutex_lock and mutex_unlock on a          *)
(* destroyed one return EINVAL, a thread already queued on it still gets   *)
(* it, and mutex_destroy returns EBUSY, and does nothing, while a thread   *)
(* holds it or is in a wait that released it.                              *)
(***************************************************************************)
EXTENDS Integers, FiniteSets

CONSTANTS
  Openers,     (* threads that open and close files, one at a time         *)
  Destroyers,  (* threads that call tfs_destroy_after_all_closed, once     *)
  NoThread

ASSUME ThreadsAssumption ==
  /\ Openers \cap Destroyers = {} /\ NoThread \notin Openers \cup Destroyers
  /\ IsFiniteSet(Openers)

Threads == Openers \cup Destroyers

VARIABLES
  can_open_files, open_files,
  holder,      (* of single_global_lock                                    *)
  destroyed,   (* single_global_lock has been                              *)
  opened,      (* the threads a file was opened for and not closed yet     *)
  pc

vars == <<can_open_files, open_files, holder, destroyed, opened, pc>>

Init ==
  /\ can_open_files = 1 /\ open_files = 0
  /\ holder = NoThread /\ destroyed = FALSE
  /\ opened = {}
  /\ pc = [t \in Threads |-> "idle"]

Goes(t, to) == pc' = [pc EXCEPT ![t] = to]

(* pthread_mutex_lock: the test of the mutex, then the queue.              *)
LockCall(t, to, failed) ==
  /\ Goes(t, IF destroyed THEN failed ELSE to)
  /\ UNCHANGED <<can_open_files, open_files, holder, destroyed, opened>>

Acquire(t) == holder = NoThread /\ holder' = t

(* pthread_mutex_unlock: fails on a destroyed mutex, which stays locked.   *)
UnlockCall(t, to, failed) ==
  /\ Goes(t, IF destroyed THEN failed ELSE to)
  /\ holder' = IF destroyed THEN holder ELSE NoThread
  /\ UNCHANGED <<can_open_files, open_files, destroyed, opened>>

----------------------------------------------------------------------------
(* tfs_open *)

UncheckedGate == "enter"
Gate == IF can_open_files = 0 THEN "idle" ELSE "enter"

OpenCheck(t) ==
  /\ pc[t] = "idle"
  /\ Goes(t, Gate)
  /\ UNCHANGED <<can_open_files, open_files, holder, destroyed, opened>>

OpenLock(t) == pc[t] = "enter" /\ LockCall(t, "queue", "idle")

CountedOnce(n) == 1
Counted(n) == n + 1

(* _tfs_open_unsynchronized, which may fail, and the count.                *)
OpenInside(t) ==
  /\ pc[t] = "queue" /\ Acquire(t)
  /\ \/ open_files' = Counted(open_files) /\ opened' = opened \cup {t}
     \/ UNCHANGED <<open_files, opened>>
  /\ Goes(t, "inside")
  /\ UNCHANGED <<can_open_files, destroyed>>

(* If the unlock fails the caller is told -1 and never has the handle.     *)
OpenUnlock(t) ==
  pc[t] = "inside" /\ UnlockCall(t, IF t \in opened THEN "open" ELSE "idle", "idle")

----------------------------------------------------------------------------
(* tfs_close *)

CloseLock(t) == pc[t] = "open" /\ LockCall(t, "close", "open")

(* A second close of the same handle.                                      *)
CloseAgain(t) == pc[t] = "idle" /\ t \notin opened /\ LockCall(t, "close", "idle")

Left(t) == IF t \in opened THEN open_files - 1 ELSE open_files

CountBeforeClose(t) == open_files = 0
LastClosed(t) == Left(t) = 0

Waiting == {d \in Destroyers : pc[d] = "waiting"}

(* With no file left open no_open_files is signalled, also by a close that *)
(* fails: one waiting thread, if there is any, tries for the lock again.   *)
CloseInside(t) ==
  /\ pc[t] = "close" /\ Acquire(t)
  /\ open_files' = Left(t) /\ opened' = opened \ {t}
  /\ IF LastClosed(t) /\ Waiting # {}
     THEN \E d \in Waiting : pc' = [pc EXCEPT ![t] = "closed", ![d] = "relock"]
     ELSE Goes(t, "closed")
  /\ UNCHANGED <<can_open_files, destroyed>>

CloseUnlock(t) == pc[t] = "closed" /\ UnlockCall(t, "idle", "idle")

----------------------------------------------------------------------------
(* tfs_destroy_after_all_closed *)

DestroyLock(d) == pc[d] = "idle" /\ LockCall(d, "shut", "failed")

DestroyShut(d) ==
  /\ pc[d] = "shut" /\ Acquire(d)
  /\ can_open_files' = 0
  /\ Goes(d, "test")
  /\ UNCHANGED <<open_files, destroyed, opened>>

(* while (open_files != 0) pthread_cond_wait: the wait gives the lock up,  *)
(* or fails at once when the mutex is destroyed, and the loop spins.       *)
DestroyTest(d) ==
  /\ pc[d] = "test"
  /\ IF open_files = 0 THEN Goes(d, "unlock") /\ UNCHANGED holder
     ELSE /\ ~destroyed
          /\ Goes(d, "waiting") /\ holder' = NoThread
  /\ UNCHANGED <<can_open_files, open_files, destroyed, opened>>

(* A wait may also end with no signal.                                     *)
SpuriousWakeup(d) ==
  /\ pc[d] = "waiting" /\ Goes(d, "relock")
  /\ UNCHANGED <<can_open_files, open_files, holder, destroyed, opened>>

NoTest == "unlock"
BackToTest == "test"

DestroyRelock(d) ==
  /\ pc[d] = "relock" /\ Acquire(d)
  /\ Goes(d, BackToTest)
  /\ UNCHANGED <<can_open_files, open_files, destroyed, opened>>

DestroyUnlock(d) == pc[d] = "unlock" /\ UnlockCall(d, "destroy", "failed")

InUse == holder # NoThread \/ \E e \in Destroyers : pc[e] \in {"waiting", "relock"}

(* tfs_destroy, whose return value is dropped; then 0 is returned.         *)
DestroyMutex(d) ==
  /\ pc[d] = "destroy"
  /\ destroyed' = (destroyed \/ ~InUse)
  /\ Goes(d, "done")
  /\ UNCHANGED <<can_open_files, open_files, holder, opened>>

----------------------------------------------------------------------------
Open(t) == OpenLock(t) \/ OpenInside(t) \/ OpenUnlock(t)
Close(t) == CloseLock(t) \/ CloseInside(t) \/ CloseUnlock(t)
Destroy(d) == DestroyShut(d) \/ DestroyTest(d) \/ DestroyRelock(d)
              \/ DestroyUnlock(d) \/ DestroyMutex(d)

Next ==
  \/ \E t \in Openers : OpenCheck(t) \/ Open(t) \/ CloseAgain(t) \/ Close(t)
  \/ \E d \in Destroyers : DestroyLock(d) \/ Destroy(d) \/ SpuriousWakeup(d)

(* A call that has begun goes on, files that are open get closed, and a    *)
(* thread queued on the lock gets it if it is released again and again.    *)
(* No thread has to begin a call.                                          *)
Fairness ==
  /\ \A t \in Openers : SF_vars(Open(t)) /\ SF_vars(Close(t))
  /\ \A d \in Destroyers : SF_vars(Destroy(d))

Spec == Init /\ [][Next]_vars /\ Fairness

----------------------------------------------------------------------------
TypeOK ==
  /\ can_open_files \in {0, 1} /\ open_files \in Nat
  /\ holder \in Threads \cup {NoThread} /\ destroyed \in BOOLEAN
  /\ opened \subseteq Openers
  /\ pc \in [Threads -> {"idle", "enter", "queue", "inside", "open", "close", "closed",
                         "shut", "test", "waiting", "relock", "unlock", "destroy",
                         "done", "failed"}]

(* open_files counts the files that are open, through every race of opens, *)
(* closes and destruction: also when the lock is destroyed under a thread. *)
CountExact == open_files = Cardinality(opened)

(* At most one thread is between a lock and its unlock.                    *)
Locking == {t \in Threads : pc[t] \in {"inside", "closed", "test", "unlock"}}

(* Only one thread at a time is in a critical section, and a destroyer     *)
(* that has left its loop sees no open file for as long as it holds the    *)
(* lock: a wakeup, signalled or spurious, is no proof of it.               *)
DestroysWhenEmpty ==
  /\ \A t, u \in Locking : t = u
  /\ \A d \in Destroyers : pc[d] = "unlock" => open_files = 0

(* Once the gate is shut, the threads with a file open or past the test of *)
(* can_open_files only become fewer.                                       *)
PastGate == opened \cup {t \in Openers : pc[t] \in {"enter", "queue"}}
GateHolds == [][can_open_files = 0 => PastGate' \subseteq PastGate]_vars

(* If the files that are open get closed, a shutdown that has begun makes  *)
(* some shutdown return. (With two at once only one may: the last close    *)
(* signals one waiter.)                                                    *)
SomeDestroyReturns ==
  \A d \in Destroyers : pc[d] = "shut" ~> \E e \in Destroyers : pc[e] \in {"done", "failed"}

(* operations.h: tfs_destroy_after_all_closed "Waits until no file is open *)
(* and then destroy tecnicofs": once it has returned, no file is open.     *)
NoFileAfterDestroy == \A d \in Destroyers : pc[d] = "done" => opened = {}
=============================================================================

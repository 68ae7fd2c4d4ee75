------------------------ MODULE ShutdownGate_proofs ------------------------
(* The safety of ShutdownGate, for any number of threads.                  *)
EXTENDS ShutdownGate, TLAPS, FiniteSetTheorems

OpenerPcs == {"idle", "enter", "queue", "inside", "open", "close", "closed"}
DestroyerPcs == {"idle", "shut", "test", "waiting", "relock", "unlock", "destroy",
                 "done", "failed"}

(* Who is between a lock and its unlock holds the lock; a thread about to  *)
(* open has no file open, and an idle one only if the unlock failed; the   *)
(* gate is shut from the first destroyer on.                               *)
HolderInside == \A t \in Locking : holder = t
OpenedByPc ==
  \A t \in Openers :
    /\ pc[t] \in {"enter", "queue", "closed"} => t \notin opened
    /\ pc[t] = "idle" /\ t \in opened => destroyed
GateShut ==
  /\ \A d \in Destroyers :
       pc[d] \in {"test", "waiting", "relock", "unlock", "destroy"} => can_open_files = 0
  /\ destroyed => can_open_files = 0
PcOK ==
  /\ \A t \in Openers : pc[t] \in OpenerPcs
  /\ \A d \in Destroyers : pc[d] \in DestroyerPcs
EmptyAtUnlock == \A d \in Destroyers : pc[d] = "unlock" => open_files = 0

IInv == /\ TypeOK /\ PcOK /\ CountExact /\ HolderInside /\ OpenedByPc
        /\ GateShut /\ EmptyAtUnlock

(* The invariant holds at first (tfs_init).                                *)
THEOREM InitInv == Init => IInv
  <1> SUFFICES ASSUME Init PROVE IInv
    OBVIOUS
  <1>1. TypeOK
    <2>1. destroyed \in BOOLEAN
      BY Zenon DEF Init
    <2> QED BY <2>1 DEF Init, TypeOK
  <1>2. CountExact
    BY FS_EmptySet DEF Init, CountExact
  <1>3. PcOK
    BY DEF Init, PcOK, Threads, OpenerPcs, DestroyerPcs
  <1>4. HolderInside /\ OpenedByPc /\ EmptyAtUnlock
    BY DEF Init, HolderInside, OpenedByPc, EmptyAtUnlock, Locking, Threads
  <1>5. GateShut
    BY DEF Init, GateShut, Threads
  <1> QED BY <1>1, <1>2, <1>3, <1>4, <1>5 DEF IInv

(* One more file open is one more counted.                                 *)
LEMMA CountAdd ==
  ASSUME IInv, NEW t \in Openers, t \notin opened
  PROVE  Cardinality(opened \cup {t}) = open_files + 1
  BY ThreadsAssumption, FS_Subset, FS_AddElement DEF IInv, TypeOK, CountExact

(* One file less open is one less counted, and the count stays above -1.   *)
LEMMA CountRemove ==
  ASSUME IInv, NEW t \in opened
  PROVE  Cardinality(opened \ {t}) = open_files - 1 /\ open_files - 1 \in Nat
  <1>1. IsFiniteSet(opened)
    BY ThreadsAssumption, FS_Subset DEF IInv, TypeOK
  <1> QED BY <1>1, FS_RemoveElement, FS_CardinalityType, FS_Subset DEF IInv, CountExact

(* A step that moves one thread, leaves the count, the files and the gate  *)
(* alone, and takes or gives back nothing but that thread's lock.          *)
LEMMA OneThreadMoves ==
  ASSUME IInv, NEW t \in Threads, NEW to, Goes(t, to),
         UNCHANGED <<can_open_files, open_files, destroyed, opened>>,
         t \in Openers => /\ to \in OpenerPcs
                          /\ to \in {"enter", "queue", "closed"} => t \notin opened
                          /\ to = "idle" /\ t \in opened => destroyed,
         t \in Destroyers =>
           /\ to \in DestroyerPcs
           /\ to \in {"test", "waiting", "relock", "unlock", "destroy"} => can_open_files = 0
           /\ to = "unlock" => open_files = 0,
         holder' \in Threads \cup {NoThread},
         to \in {"inside", "closed", "test", "unlock"} => holder' = t,
         holder' = holder \/ holder = NoThread \/ holder = t
  PROVE  IInv'
  <1>1. /\ pc' \in [Threads -> OpenerPcs \cup DestroyerPcs]
        /\ pc'[t] = to /\ \A u \in Threads \ {t} : pc'[u] = pc[u]
    BY DEF Goes, IInv, TypeOK, Threads, PcOK, OpenerPcs, DestroyerPcs
  <1>2. TypeOK'
    <2>1. destroyed' \in BOOLEAN
      BY Zenon DEF IInv, TypeOK
    <2> QED BY <1>1, <2>1 DEF IInv, TypeOK, OpenerPcs, DestroyerPcs
  <1>3. PcOK'
    BY <1>1 DEF IInv, PcOK, Threads
  <1>4. CountExact'
    BY DEF IInv, CountExact
  <1>5. HolderInside'
    <2> SUFFICES ASSUME NEW u \in Threads, u \in Locking' PROVE holder' = u
      BY DEF HolderInside, Locking
    <2>1. CASE u = t
      BY <1>1, <2>1 DEF Locking
    <2>2. CASE u # t
      <3>1. u \in Locking /\ holder = u
        BY <1>1, <2>2 DEF Locking, IInv, HolderInside
      <3> QED BY <2>2, <3>1, ThreadsAssumption DEF Threads
    <2> QED BY <2>1, <2>2
  <1>6. OpenedByPc'
    BY <1>1 DEF IInv, OpenedByPc, Threads
  <1>7. GateShut'
    BY <1>1 DEF IInv, GateShut, Threads
  <1>8. EmptyAtUnlock'
    BY <1>1 DEF IInv, EmptyAtUnlock, Threads
  <1> QED BY <1>2, <1>3, <1>4, <1>5, <1>6, <1>7, <1>8 DEF IInv

(* tfs_open inside the lock.                                               *)
LEMMA OpenInsideInv ==
  ASSUME IInv, NEW t \in Openers, OpenInside(t)
  PROVE  IInv'
  <1>1. /\ pc' = [pc EXCEPT ![t] = "inside"] /\ pc[t] = "queue" /\ t \notin opened
        /\ holder = NoThread /\ holder' = t
        /\ UNCHANGED <<can_open_files, destroyed>>
    BY DEF OpenInside, Acquire, Goes, IInv, OpenedByPc
  <1>2. /\ pc'[t] = "inside" /\ \A u \in Threads \ {t} : pc'[u] = pc[u]
        /\ pc' \in [Threads -> OpenerPcs \cup DestroyerPcs]
    BY <1>1 DEF IInv, TypeOK, Threads, OpenerPcs, DestroyerPcs
  <1>3. Locking = {}
    BY <1>1, ThreadsAssumption DEF IInv, HolderInside, Locking, Threads
  <1>4. CASE open_files' = Counted(open_files) /\ opened' = opened \cup {t}
    <2>1. CountExact' /\ open_files' \in Nat
      BY <1>1, <1>4, CountAdd DEF Counted, CountExact, IInv, TypeOK
    <2>2. TypeOK'
      <3>1. destroyed' \in BOOLEAN
        BY <1>1, Zenon DEF IInv, TypeOK
      <3> QED BY <1>1, <1>2, <1>4, <2>1, <3>1 DEF IInv, TypeOK, Threads, OpenerPcs, DestroyerPcs
    <2>3. PcOK'
      BY <1>2, ThreadsAssumption DEF IInv, PcOK, Threads, OpenerPcs
    <2>4. HolderInside'
      BY <1>1, <1>2, <1>3 DEF HolderInside, Locking
    <2>5. OpenedByPc'
      BY <1>1, <1>2, <1>4 DEF IInv, OpenedByPc, Threads
    <2>6. GateShut' /\ EmptyAtUnlock'
      BY <1>1, <1>2, <1>3, ThreadsAssumption DEF IInv, GateShut, EmptyAtUnlock, Threads, Locking
    <2> QED BY <2>1, <2>2, <2>3, <2>4, <2>5, <2>6 DEF IInv
  <1>5. CASE UNCHANGED <<open_files, opened>>
    <2>1. /\ t \in Threads /\ t \notin Destroyers /\ "inside" \in OpenerPcs /\ Goes(t, "inside")
          /\ UNCHANGED <<can_open_files, open_files, destroyed, opened>>
      BY <1>1, <1>5, ThreadsAssumption DEF Threads, OpenerPcs, Goes
    <2> QED BY <1>1, <2>1, OneThreadMoves
  <1> QED BY <1>4, <1>5 DEF OpenInside

(* tfs_close inside the lock, with the signal to a waiting destroyer.      *)
LEMMA CloseInsideInv ==
  ASSUME IInv, NEW t \in Openers, CloseInside(t)
  PROVE  IInv'
  <1>1. /\ pc[t] = "close" /\ holder = NoThread /\ holder' = t
        /\ open_files' = Left(t) /\ opened' = opened \ {t}
        /\ UNCHANGED <<can_open_files, destroyed>>
    BY DEF CloseInside, Acquire
  <1>2. /\ pc' \in [Threads -> OpenerPcs \cup DestroyerPcs]
        /\ pc'[t] = "closed"
        /\ \A u \in Threads \ {t} :
             \/ pc'[u] = pc[u]
             \/ u \in Destroyers /\ pc[u] = "waiting" /\ pc'[u] = "relock"
    <2>1. pc \in [Threads -> OpenerPcs \cup DestroyerPcs] /\ t \in Threads /\ t \notin Destroyers
      BY ThreadsAssumption DEF IInv, TypeOK, Threads, OpenerPcs, DestroyerPcs
    <2> DEFINE Pcs == OpenerPcs \cup DestroyerPcs
    <2>2. "closed" \in Pcs /\ "relock" \in Pcs /\ pc \in [Threads -> Pcs]
      BY <2>1 DEF OpenerPcs, DestroyerPcs
    <2> HIDE DEF Pcs
    <2>4. CASE Goes(t, "closed")
      <3>1. /\ pc' \in [Threads -> Pcs] /\ pc'[t] = "closed"
            /\ \A u \in Threads \ {t} : pc'[u] = pc[u]
        BY <2>1, <2>2, <2>4 DEF Goes
      <3> QED BY <3>1 DEF Pcs
    <2>3. ASSUME NEW d \in Waiting, pc' = [pc EXCEPT ![t] = "closed", ![d] = "relock"]
          PROVE  /\ pc' \in [Threads -> OpenerPcs \cup DestroyerPcs]
                 /\ pc'[t] = "closed"
                 /\ \A u \in Threads \ {t} :
                      \/ pc'[u] = pc[u]
                      \/ u \in Destroyers /\ pc[u] = "waiting" /\ pc'[u] = "relock"
      <3>1. d \in Destroyers /\ d \in Threads /\ d # t /\ pc[d] = "waiting"
        BY <2>1 DEF Waiting, Threads
      <3>2. pc' \in [Threads -> Pcs]
        BY <2>1, <2>2, <2>3, <3>1
      <3>3. /\ pc'[t] = "closed" /\ pc'[d] = "relock"
            /\ \A u \in Threads \ {t, d} : pc'[u] = pc[u]
        BY <2>1, <2>2, <2>3, <3>1
      <3> QED BY <3>1, <3>2, <3>3 DEF Pcs
    <2> QED BY <2>3, <2>4 DEF CloseInside
  <1>3. Locking = {}
    BY <1>1, ThreadsAssumption DEF IInv, HolderInside, Locking, Threads
  <1>4. CountExact' /\ open_files' \in Nat
    <2>1. CASE t \in opened
      BY <1>1, <2>1, CountRemove DEF Left, CountExact
    <2>2. CASE t \notin opened
      <3>1. opened' = opened
        BY <1>1, <2>2
      <3> QED BY <1>1, <2>2, <3>1 DEF Left, CountExact, IInv, TypeOK
    <2> QED BY <2>1, <2>2
  <1>5. TypeOK'
    <2>1. destroyed' \in BOOLEAN
      BY <1>1, Zenon DEF IInv, TypeOK
    <2> QED BY <1>1, <1>2, <1>4, <2>1 DEF IInv, TypeOK, Threads, OpenerPcs, DestroyerPcs
  <1>6. PcOK'
    BY <1>2, ThreadsAssumption DEF IInv, PcOK, Threads, OpenerPcs, DestroyerPcs
  <1>7. HolderInside'
    BY <1>1, <1>2, <1>3 DEF HolderInside, Locking
  <1>8. OpenedByPc'
    BY <1>1, <1>2, ThreadsAssumption DEF IInv, OpenedByPc, Threads
  <1>9. GateShut'
    BY <1>1, <1>2, ThreadsAssumption DEF IInv, GateShut, Threads
  <1>10. EmptyAtUnlock'
    BY <1>2, <1>3, ThreadsAssumption DEF EmptyAtUnlock, Threads, Locking
  <1> QED BY <1>4, <1>5, <1>6, <1>7, <1>8, <1>9, <1>10 DEF IInv

(* tfs_destroy_after_all_closed shuts the gate.                            *)
LEMMA DestroyShutInv ==
  ASSUME IInv, NEW d \in Destroyers, DestroyShut(d)
  PROVE  IInv'
  <1>1. /\ pc' = [pc EXCEPT ![d] = "test"] /\ holder = NoThread /\ holder' = d
        /\ can_open_files' = 0 /\ UNCHANGED <<open_files, destroyed, opened>>
    BY DEF DestroyShut, Acquire, Goes
  <1>2. /\ pc'[d] = "test" /\ \A u \in Threads \ {d} : pc'[u] = pc[u]
        /\ pc' \in [Threads -> OpenerPcs \cup DestroyerPcs]
    BY <1>1 DEF IInv, TypeOK, Threads, OpenerPcs, DestroyerPcs
  <1>3. Locking = {}
    BY <1>1, ThreadsAssumption DEF IInv, HolderInside, Locking, Threads
  <1>4. TypeOK'
    <2>1. destroyed' \in BOOLEAN
      BY <1>1, Zenon DEF IInv, TypeOK
    <2> QED BY <1>1, <1>2, <2>1 DEF IInv, TypeOK, Threads, OpenerPcs, DestroyerPcs
  <1>5. PcOK' /\ OpenedByPc'
    BY <1>1, <1>2, ThreadsAssumption DEF IInv, PcOK, OpenedByPc, Threads, DestroyerPcs
  <1>6. CountExact' /\ GateShut'
    BY <1>1 DEF IInv, CountExact, GateShut
  <1>7. HolderInside'
    BY <1>1, <1>2, <1>3 DEF HolderInside, Locking
  <1>8. EmptyAtUnlock'
    BY <1>1, <1>2 DEF IInv, EmptyAtUnlock, Threads
  <1> QED BY <1>4, <1>5, <1>6, <1>7, <1>8 DEF IInv

(* tfs_destroy, whether it finds the mutex in use or not.                  *)
LEMMA DestroyMutexInv ==
  ASSUME IInv, NEW d \in Destroyers, DestroyMutex(d)
  PROVE  IInv'
  <1>1. /\ pc' = [pc EXCEPT ![d] = "done"] /\ can_open_files = 0
        /\ UNCHANGED <<can_open_files, open_files, holder, opened>>
        /\ destroyed => destroyed'
    BY DEF DestroyMutex, Goes, IInv, GateShut
  <1>2. /\ pc'[d] = "done" /\ \A u \in Threads \ {d} : pc'[u] = pc[u]
        /\ pc' \in [Threads -> OpenerPcs \cup DestroyerPcs]
    BY <1>1 DEF IInv, TypeOK, Threads, OpenerPcs, DestroyerPcs
  <1>3. TypeOK'
    <2>1. destroyed' \in BOOLEAN
      BY Zenon DEF DestroyMutex
    <2> QED BY <1>1, <1>2, <2>1 DEF IInv, TypeOK, OpenerPcs, DestroyerPcs
  <1>4. PcOK' /\ OpenedByPc'
    BY <1>1, <1>2, ThreadsAssumption DEF IInv, PcOK, OpenedByPc, Threads, DestroyerPcs
  <1>5. CountExact' /\ GateShut'
    BY <1>1 DEF IInv, CountExact, GateShut
  <1>6. HolderInside' /\ EmptyAtUnlock'
    BY <1>1, <1>2 DEF IInv, HolderInside, EmptyAtUnlock, Locking, Threads
  <1> QED BY <1>3, <1>4, <1>5, <1>6 DEF IInv

(* Every step keeps the invariant.                                         *)
THEOREM StepInv == IInv /\ [Next]_vars => IInv'
  <1> SUFFICES ASSUME IInv, [Next]_vars PROVE IInv'
    OBVIOUS
  <1> USE ThreadsAssumption
  <1>1. ASSUME NEW t \in Openers, OpenCheck(t) PROVE IInv'
    <2>1. /\ t \in Threads /\ t \notin Destroyers /\ pc[t] = "idle" /\ Goes(t, Gate)
          /\ UNCHANGED <<can_open_files, open_files, holder, destroyed, opened>>
      BY <1>1 DEF OpenCheck, Threads
    <2>2. Gate \in OpenerPcs /\ Gate \in {"idle", "enter"}
          /\ (Gate = "enter" => t \notin opened) /\ (Gate = "idle" /\ t \in opened => destroyed)
      BY <2>1 DEF Gate, OpenerPcs, IInv, OpenedByPc, GateShut
    <2>3. holder' \in Threads \cup {NoThread}
      BY <2>1 DEF IInv, TypeOK
    <2> HIDE DEF Gate
    <2> QED BY <2>1, <2>2, <2>3, OneThreadMoves
  <1>2. ASSUME NEW t \in Openers, OpenLock(t) \/ CloseLock(t) \/ CloseAgain(t) PROVE IInv'
    <2> DEFINE to == pc'[t]
    <2>1. /\ t \in Threads /\ t \notin Destroyers
          /\ UNCHANGED <<can_open_files, open_files, holder, destroyed, opened>>
      BY <1>2 DEF OpenLock, CloseLock, CloseAgain, LockCall, Threads
    <2>2. /\ Goes(t, to)
          /\ \/ to = "queue" /\ t \notin opened
             \/ to \in {"close", "open"}
             \/ to = "idle" /\ (t \in opened => destroyed)
      BY <1>2, <2>1 DEF OpenLock, CloseLock, CloseAgain, LockCall, Goes, IInv, TypeOK, OpenedByPc
    <2>3. holder' \in Threads \cup {NoThread} /\ to \in OpenerPcs
      BY <2>1, <2>2 DEF IInv, TypeOK, OpenerPcs
    <2> HIDE DEF to
    <2> QED BY <2>1, <2>2, <2>3, OneThreadMoves
  <1>3. ASSUME NEW t \in Openers, OpenUnlock(t) \/ CloseUnlock(t) PROVE IInv'
    <2> DEFINE to == pc'[t]
    <2>1. /\ t \in Threads /\ t \notin Destroyers /\ holder = t
          /\ UNCHANGED <<can_open_files, open_files, destroyed, opened>>
      BY <1>3 DEF OpenUnlock, CloseUnlock, UnlockCall, Threads, IInv, HolderInside, Locking
    <2>2. /\ Goes(t, to) /\ holder' \in Threads \cup {NoThread}
          /\ to = "open" \/ (to = "idle" /\ (t \in opened => destroyed))
      BY <1>3, <2>1 DEF OpenUnlock, CloseUnlock, UnlockCall, Goes, IInv, TypeOK, OpenedByPc
    <2>3. to \in OpenerPcs
      BY <2>2 DEF OpenerPcs
    <2> HIDE DEF to
    <2> QED BY <2>1, <2>2, <2>3, OneThreadMoves
  <1>4. ASSUME NEW d \in Destroyers, DestroyLock(d) \/ SpuriousWakeup(d) PROVE IInv'
    <2> DEFINE to == pc'[d]
    <2>1. /\ d \in Threads /\ d \notin Openers
          /\ UNCHANGED <<can_open_files, open_files, holder, destroyed, opened>>
      BY <1>4 DEF DestroyLock, SpuriousWakeup, LockCall, Threads
    <2>2. /\ Goes(d, to)
          /\ to \in {"shut", "failed"} \/ (to = "relock" /\ can_open_files = 0)
      BY <1>4, <2>1 DEF DestroyLock, SpuriousWakeup, LockCall, Goes, IInv, TypeOK, GateShut
    <2>3. holder' \in Threads \cup {NoThread} /\ to \in DestroyerPcs
      BY <2>1, <2>2 DEF IInv, TypeOK, DestroyerPcs
    <2> HIDE DEF to
    <2> QED BY <2>1, <2>2, <2>3, OneThreadMoves
  <1>5. ASSUME NEW d \in Destroyers, DestroyTest(d) \/ DestroyRelock(d) \/ DestroyUnlock(d)
        PROVE  IInv'
    <2> DEFINE to == pc'[d]
    <2>1. /\ d \in Threads /\ d \notin Openers /\ can_open_files = 0
          /\ UNCHANGED <<can_open_files, open_files, destroyed, opened>>
      BY <1>5 DEF DestroyTest, DestroyRelock, DestroyUnlock, UnlockCall, Threads, IInv, GateShut
    <2>2. /\ Goes(d, to)
          /\ \/ to = "unlock" /\ open_files = 0 /\ holder = d /\ holder' = d
             \/ to = "test" /\ holder = NoThread /\ holder' = d
             \/ to \in {"waiting", "destroy", "failed"} /\ holder = d /\ holder' \in {d, NoThread}
      BY <1>5, <2>1 DEF DestroyTest, DestroyRelock, DestroyUnlock, UnlockCall, Acquire, BackToTest,
                        Goes, IInv, TypeOK, HolderInside, Locking
    <2>3. to \in DestroyerPcs /\ holder' \in Threads \cup {NoThread}
      BY <2>1, <2>2 DEF DestroyerPcs
    <2> HIDE DEF to
    <2> QED BY <2>1, <2>2, <2>3, OneThreadMoves
  <1>6. CASE UNCHANGED vars
    <2>1. /\ UNCHANGED <<can_open_files, open_files, holder, opened, pc>> /\ destroyed' = destroyed
      BY <1>6 DEF vars
    <2>2. destroyed' \in BOOLEAN
      BY <2>1, Zenon DEF IInv, TypeOK
    <2> QED BY <2>1, <2>2 DEF IInv, TypeOK, PcOK, CountExact, HolderInside, OpenedByPc, GateShut,
                              EmptyAtUnlock, Locking
  <1> QED BY <1>1, <1>2, <1>3, <1>4, <1>5, <1>6, OpenInsideInv, CloseInsideInv, DestroyShutInv,
             DestroyMutexInv DEF Next, Open, Close, Destroy

(* Type correctness: only threads hold the lock, and open_files is never   *)
(* counted below zero.                                                     *)
THEOREM TypeCorrect == Spec => []TypeOK
  <1>1. IInv => TypeOK
    BY DEF IInv
  <1> QED BY <1>1, InitInv, StepInv, PTL DEF Spec

(* open_files, kept under the lock by tfs_open and tfs_close, is the       *)
(* number of open files whatever is destroyed when.                        *)
THEOREM CountCorrect == Spec => []CountExact
  <1>1. IInv => CountExact
    BY DEF IInv
  <1> QED BY <1>1, InitInv, StepInv, PTL DEF Spec

(* Critical sections exclude each other, and the loop of                   *)
(* tfs_destroy_after_all_closed is left only with no file open.            *)
THEOREM DestroyCorrect == Spec => []DestroysWhenEmpty
  <1>1. IInv => DestroysWhenEmpty
    BY DEF IInv, DestroysWhenEmpty, HolderInside, EmptyAtUnlock
  <1> QED BY <1>1, InitInv, StepInv, PTL DEF Spec

(* Once can_open_files is 0 no thread comes to open a file that had not    *)
(* already passed tfs_open's test of it.                                   *)
THEOREM GateCorrect == Spec => GateHolds
  <1> DEFINE A == can_open_files = 0 => PastGate' \subseteq PastGate
  <1>1. IInv /\ [Next]_vars => [A]_vars
    <2> SUFFICES ASSUME IInv, Next, can_open_files = 0 PROVE PastGate' \subseteq PastGate
      OBVIOUS
    <2> USE ThreadsAssumption
    <2>1. \A u \in Openers : u \in Threads /\ u \notin Destroyers
      BY DEF Threads
    <2>2. pc \in [Threads -> OpenerPcs \cup DestroyerPcs]
      BY DEF IInv, TypeOK, OpenerPcs, DestroyerPcs
    <2>3. opened' \subseteq opened \cup {u \in Openers : pc[u] = "queue"}
      BY DEF Next, OpenCheck, Open, OpenLock, OpenInside, OpenUnlock, Close, CloseLock, CloseAgain,
             CloseInside, CloseUnlock, DestroyLock, Destroy, DestroyShut, DestroyTest, DestroyRelock,
             DestroyUnlock, DestroyMutex, SpuriousWakeup, LockCall, UnlockCall
    <2>4. \A u \in Openers : pc'[u] \in {"enter", "queue"} => pc[u] \in {"enter", "queue"}
      <3> SUFFICES ASSUME NEW u \in Openers, pc'[u] \in {"enter", "queue"}
                   PROVE  pc[u] \in {"enter", "queue"}
        OBVIOUS
      <3>1. ASSUME NEW t \in Openers, OpenCheck(t) \/ Open(t) \/ CloseAgain(t) \/ Close(t)
            PROVE  pc[u] \in {"enter", "queue"}
        BY <2>1, <2>2, <3>1 DEF OpenCheck, Gate, Open, OpenLock, OpenInside, OpenUnlock, Close,
             CloseLock, CloseAgain, CloseInside, CloseUnlock, LockCall, UnlockCall, Goes, Waiting
      <3>2. ASSUME NEW d \in Destroyers, DestroyLock(d) \/ Destroy(d) \/ SpuriousWakeup(d)
            PROVE  pc[u] \in {"enter", "queue"}
        <4>1. d \in Threads /\ u # d /\ u \in Threads
          BY DEF Threads
        <4>2. pc' = [pc EXCEPT ![d] = pc'[d]]
          BY <2>2, <3>2, <4>1 DEF DestroyLock, Destroy, DestroyShut, DestroyTest, DestroyRelock,
               DestroyUnlock, DestroyMutex, SpuriousWakeup, LockCall, UnlockCall, Goes
        <4> QED BY <2>2, <4>1, <4>2
      <3> QED BY <3>1, <3>2 DEF Next
    <2> QED BY <2>3, <2>4 DEF PastGate
  <1> QED BY <1>1, InitInv, StepInv, PTL DEF Spec, GateHolds
=============================================================================

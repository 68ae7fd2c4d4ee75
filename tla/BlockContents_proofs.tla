------------------------ MODULE BlockContents_proofs ------------------------
(* What the files of BlockFS contain while threads write, read and         *)
(* truncate them: FramedWrites, WrittenSoFar and ReadSoFar, from the       *)
(* ownership of blocks (BlockFS_proofs).                                   *)
EXTENDS BlockFS_proofs

----------------------------------------------------------------------------
(* The calls under way: what a step does to the call of its thread.        *)

(* A thread goes on with the same call.                                    *)
SameCall(t) ==
  /\ InLoop(t) /\ InLoop(t)'
  /\ call'[t].op = call[t].op /\ call'[t].fh = call[t].fh /\ call'[t].inum = call[t].inum
  /\ call'[t].byte = call[t].byte /\ call'[t].start = call[t].start

(* It neither moves its handle nor its lock.                               *)
Works(t) == SameCall(t) /\ call'[t].buffer = call[t].buffer /\ UNCHANGED <<handles, rwl>>

LEMMA AllocWorks ==
  ASSUME TypeOK, NEW t \in Threads, Alloc(t)
  PROVE  Works(t) /\ call'[t].pc # "dead" /\ \A u \in Threads \ {t} : call'[u] = call[u]
  <1>1. InLoop(t) /\ UNCHANGED <<handles, rwl>>
    BY DEF InLoop, Alloc
  <1>2. PICK b : call'[t] = [call[t] EXCEPT !.pc = "got", !.place = Here(t), !.block = b]
                 /\ call' = [call EXCEPT ![t] = call'[t]] /\ call'[t].pc = "got"
    BY AllocStep
  <1>3. \A u \in Threads \ {t} : call'[u] = call[u]
    BY <1>2 DEF TypeOK
  <1>4. /\ call'[t].op = call[t].op /\ call'[t].fh = call[t].fh /\ call'[t].inum = call[t].inum
        /\ call'[t].byte = call[t].byte /\ call'[t].start = call[t].start
        /\ call'[t].buffer = call[t].buffer
    BY <1>1, <1>2, LoopCall DEF InLoop, LoopPcs, LoopCalls
  <1>5. InLoop(t)'
    BY <1>2 DEF InLoop
  <1> QED BY <1>1, <1>2, <1>3, <1>4, <1>5 DEF Works, SameCall

LEMMA PcWorks ==
  ASSUME TypeOK, NEW t \in Threads, InLoop(t), NEW p \in LoopPcs, call' = [call EXCEPT ![t].pc = p],
         UNCHANGED <<handles, rwl>>
  PROVE  Works(t) /\ call'[t].pc # "dead" /\ \A u \in Threads \ {t} : call'[u] = call[u]
  <1>1. call[t].pc \in LoopPcs
    BY DEF InLoop, LoopPcs
  <1>2. /\ \A u \in Threads \ {t} : call'[u] = call[u]
        /\ call'[t] = [call[t] EXCEPT !.pc = p] /\ call'[t].pc = p
    BY <1>1, PcMoves
  <1>3. /\ call'[t].op = call[t].op /\ call'[t].fh = call[t].fh /\ call'[t].inum = call[t].inum
        /\ call'[t].byte = call[t].byte /\ call'[t].start = call[t].start
        /\ call'[t].buffer = call[t].buffer
    BY <1>1, <1>2, LoopCall DEF LoopPcs, LoopCalls
  <1>4. InLoop(t)' /\ p # "dead"
    BY <1>2 DEF InLoop, LoopPcs
  <1> QED BY <1>2, <1>3, <1>4 DEF Works, SameCall

(* A call that ends.                                                       *)
Ends(t) == InLoop(t) /\ Leaves(t) /\ UNCHANGED handles

LEMMA StoreMoves ==
  ASSUME TypeOK, NEW t \in Threads, Store(t)
  PROVE  \/ Works(t) /\ call'[t].pc # "dead" /\ \A u \in Threads \ {t} : call'[u] = call[u]
         \/ Ends(t)
  <1>0. PICK p, b : p = call[t].place /\ b = call[t].block
    OBVIOUS
  <1>1. /\ call[t].pc = "got"
        /\ b = -1 => Leaves(t)
        /\ b # -1 => /\ call' = [call EXCEPT ![t].pc = IF p = IndirectPlace THEN "fill" ELSE "use"]
                     /\ UNCHANGED rwl
        /\ UNCHANGED handles
    BY <1>0 DEF Store
  <1>2. InLoop(t)
    BY <1>1 DEF InLoop
  <1>3. CASE b = -1
    BY <1>1, <1>2, <1>3 DEF Ends
  <1>4. CASE b # -1
    <2>1. PICK x \in LoopPcs : call' = [call EXCEPT ![t].pc = x]
      BY <1>1, <1>4 DEF LoopPcs
    <2> QED BY <1>1, <1>2, <1>4, <2>1, PcWorks
  <1> QED BY <1>3, <1>4

LEMMA CopyInMoves ==
  ASSUME TypeOK, NEW t \in Threads, CopyIn(t)
  PROVE  /\ SameCall(t) /\ call'[t].buffer = call[t].buffer /\ rwl' = rwl /\ call'[t].pc # "dead"
         /\ \A u \in Threads \ {t} : call'[u] = call[u]
         /\ Offset(t)' = Offset(t) + Chunk(t)
  <1>1. InLoop(t) /\ call[t].pc \in LoopPcs /\ Copying(t, "write") /\ rwl' = rwl
    BY DEF CopyIn, Copying, InLoop, LoopPcs
  <1>2. PICK n : call'[t] = [call[t] EXCEPT !.pc = "run", !.left = n]
    BY CopyInCall
  <1>3. /\ call'[t].op = call[t].op /\ call'[t].fh = call[t].fh /\ call'[t].inum = call[t].inum
        /\ call'[t].byte = call[t].byte /\ call'[t].start = call[t].start
        /\ call'[t].buffer = call[t].buffer /\ call'[t].pc = "run"
    BY <1>1, <1>2, LoopCall DEF LoopCalls
  <1>4. Offset(t)' = Offset(t) + Chunk(t)
    BY <1>1, <1>3, CopyingStep DEF Offset
  <1> QED BY <1>1, <1>3, <1>4, CopyInCall DEF SameCall, InLoop

LEMMA CopyOutMoves ==
  ASSUME TypeOK, NEW t \in Threads, CopyOut(t)
  PROVE  /\ SameCall(t) /\ rwl' = rwl /\ call'[t].pc # "dead"
         /\ \A u \in Threads \ {t} : call'[u] = call[u]
         /\ Offset(t)' = Offset(t) + Chunk(t)
         /\ \E b \in Blocks : \E s \in Seq(Int) :
              /\ b = At(call[t].inum, Here(t))
              /\ call'[t].buffer = call[t].buffer \o s /\ Len(s) = Chunk(t)
              /\ \A k \in 1 .. Chunk(t) : s[k] = fs_data[b][InBlock(t) + k - 1]
  <1>1. InLoop(t) /\ call[t].pc \in LoopPcs /\ Copying(t, "read") /\ rwl' = rwl
    BY DEF CopyOut, Copying, InLoop, LoopPcs
  <1>2. PICK b \in Blocks :
          /\ b = At(call[t].inum, Here(t)) /\ \A u \in Threads \ {t} : call'[u] = call[u]
          /\ call'[t] = [call[t] EXCEPT !.pc = "run", !.left = call[t].left - Chunk(t),
                                        !.buffer = call[t].buffer \o FromOffset(t, fs_data[b])]
          /\ FromOffset(t, fs_data[b]) \in Seq(Int)
          /\ Len(FromOffset(t, fs_data[b])) = Chunk(t)
          /\ \A k \in 1 .. Chunk(t) : FromOffset(t, fs_data[b])[k] = fs_data[b][InBlock(t) + k - 1]
    BY CopyOutStep
  <1>3. PICK n, r, s : n = call[t].left - Chunk(t) /\ s = FromOffset(t, fs_data[b]) /\ r = call[t].buffer \o s
    OBVIOUS
  <1>4. call'[t] = [call[t] EXCEPT !.pc = "run", !.left = n, !.buffer = r]
    BY <1>2, <1>3
  <1>5. /\ call'[t].op = call[t].op /\ call'[t].fh = call[t].fh /\ call'[t].inum = call[t].inum
        /\ call'[t].byte = call[t].byte /\ call'[t].start = call[t].start
        /\ call'[t].buffer = r /\ call'[t].pc = "run"
    BY <1>1, <1>4, LoopCall DEF LoopCalls
  <1>6. Offset(t)' = Offset(t) + Chunk(t)
    BY <1>1, <1>5, CopyingStep DEF Offset
  <1>7. /\ s \in Seq(Int) /\ Len(s) = Chunk(t)
        /\ \A k \in 1 .. Chunk(t) : s[k] = fs_data[b][InBlock(t) + k - 1]
    BY <1>2, <1>3
  <1>8. b = At(call[t].inum, Here(t)) /\ call'[t].buffer = call[t].buffer \o s
    BY <1>2, <1>3, <1>5
  <1>9. SameCall(t) /\ call'[t].pc # "dead"
    BY <1>1, <1>5 DEF SameCall, InLoop
  <1> QED BY <1>1, <1>2, <1>6, <1>7, <1>8, <1>9

(* A thread outside of a write or read, that stays outside.                *)
Opens(t) ==
  \/ call[t].pc = "idle" /\ OpenCreate(t)
  \/ OpenTruncated(t)
  \/ /\ call[t].pc = "idle"
     /\ \E i \in Files, append \in BOOLEAN : OpenExisting(t, i, append) \/ OpenTruncate(t, i, append)
  \/ call[t].pc = "idle" /\ \E fh \in Issued : TfsClose(t, fh)

LEMMA OpensMove ==
  ASSUME TypeOK, CallInv, NEW t \in Threads, damage' = {}, Opens(t)
  PROVE  /\ call'[t].pc \in {"idle", "truncated"} /\ \A u \in Threads \ {t} : call'[u] = call[u]
         /\ \A u \in Threads : InLoop(u) =>
              open_file_table'[call[u].fh].of_offset = open_file_table[call[u].fh].of_offset
  <1>1. ASSUME NEW i \in Inodes, NEW n \in Nat, AddToOpenFileTable(t, i, n)
        PROVE  /\ call'[t].pc \in {"idle", "truncated"} /\ \A u \in Threads \ {t} : call'[u] = call[u]
               /\ \A u \in Threads : InLoop(u) =>
                    open_file_table'[call[u].fh].of_offset = open_file_table[call[u].fh].of_offset
    BY <1>1, HandleAdded DEF Idle
  <1>2. CASE OpenCreate(t)
    <2>1. PICK i \in Inodes : AddToOpenFileTable(t, i, 0)
      BY <1>2 DEF OpenCreate, TypeOK
    <2> QED BY <1>1, <2>1
  <1>3. CASE OpenTruncated(t)
    <2>1. PICK i \in Inodes : i = call[t].inum
      BY <1>3 DEF OpenTruncated, CallInv, Good, Files
    <2>2. PICK n \in Nat : AddToOpenFileTable(t, i, n)
      BY <1>3, <2>1 DEF OpenTruncated, TypeOK
    <2> QED BY <1>1, <2>2
  <1>4. ASSUME NEW i \in Files, NEW append \in BOOLEAN, OpenExisting(t, i, append)
        PROVE  \E n \in Nat : AddToOpenFileTable(t, i, n) /\ i \in Inodes
    BY <1>4 DEF OpenExisting, TypeOK, Files
  <1>5. ASSUME NEW i \in Files, NEW append \in BOOLEAN, OpenTruncate(t, i, append)
        PROVE  /\ call'[t].pc \in {"idle", "truncated"} /\ \A u \in Threads \ {t} : call'[u] = call[u]
               /\ open_file_table' = open_file_table
    <2>1. open_file_table' = open_file_table
      BY <1>5 DEF OpenTruncate, handles
    <2> QED BY <1>5, <2>1, TruncateStep
  <1>6. ASSUME NEW fh \in Issued, TfsClose(t, fh)
        PROVE  /\ call'[t].pc = "idle" /\ \A u \in Threads \ {t} : call'[u] = call[u]
               /\ open_file_table' = open_file_table
    <2>1. call' = [call EXCEPT ![t] = Idle] /\ open_file_table' = open_file_table
      BY <1>6 DEF TfsClose, Returns
    <2> QED BY <2>1, CallMoves DEF Idle
  <1> QED BY <1>1, <1>2, <1>3, <1>4, <1>5, <1>6 DEF Opens

(* A call that begins.                                                     *)
Made(t, op, fh, byte, n) == call' = [call EXCEPT ![t] = Call(op, fh, byte, n)]

LEMMA CallBegins ==
  ASSUME TypeOK, NEW t \in Threads, NEW op \in {"write", "read"}, NEW fh \in Issued,
         NEW byte \in Data \cup {0}, NEW n \in Nat, Made(t, op, fh, byte, n), UNCHANGED handles
  PROVE  /\ call'[t].pc = "run" /\ call'[t].op = op /\ call'[t].buffer = <<>>
         /\ call'[t].fh = fh /\ call'[t].start = Offset(t)'
         /\ call'[t].inum = open_file_table[fh].of_inumber /\ call'[t].inum \in Inodes
         /\ \A u \in Threads \ {t} : call'[u] = call[u]
  <1>1. PICK c \in LoopCalls : c = Call(op, fh, byte, n)
    BY CallTyped
  <1>2. /\ c.pc = "run" /\ c.op = op /\ c.buffer = <<>> /\ c.fh = fh
        /\ c.start = open_file_table[fh].of_offset /\ c.inum = open_file_table[fh].of_inumber
    BY <1>1 DEF Call
  <1>3. call'[t] = c /\ \A u \in Threads \ {t} : call'[u] = call[u]
    BY <1>1, CallMoves DEF Made
  <1>4. Offset(t)' = open_file_table[fh].of_offset
    BY <1>2, <1>3 DEF Offset, handles
  <1> QED BY <1>2, <1>3, <1>4, CallTyped

Enter(t) ==
  call[t].pc = "idle" /\ \E fh \in Issued, len \in Lengths : ReadBegin(t, fh, len) \/ \E byte \in Data : WriteBegin(t, fh, byte, len)

LEMMA EnterMoves ==
  ASSUME TypeOK, NEW t \in Threads, Enter(t)
  PROVE  /\ call'[t].pc = "run" /\ call'[t].buffer = <<>> /\ call'[t].start = Offset(t)'
         /\ call'[t].inum \in Inodes /\ \A u \in Threads \ {t} : call'[u] = call[u]
         /\ UNCHANGED <<tables, handles, damage>>
         /\ \/ /\ Lock!CanRead(rwl[call'[t].inum]) /\ call'[t].op = "read"
               /\ rwl' = [rwl EXCEPT ![call'[t].inum] = Lock!RdLock(@)]
            \/ /\ Lock!CanWrite(rwl[call'[t].inum]) /\ call'[t].op = "write"
               /\ rwl' = [rwl EXCEPT ![call'[t].inum] = Lock!WrLock(@, t)]
  <1>1. ASSUME NEW fh \in Issued, NEW len \in Lengths, NEW byte \in Data, WriteBegin(t, fh, byte, len)
        PROVE  /\ call'[t].pc = "run" /\ call'[t].buffer = <<>> /\ call'[t].start = Offset(t)'
               /\ call'[t].inum \in Inodes /\ \A u \in Threads \ {t} : call'[u] = call[u]
               /\ UNCHANGED <<tables, handles, damage>>
               /\ Lock!CanWrite(rwl[call'[t].inum]) /\ call'[t].op = "write"
               /\ rwl' = [rwl EXCEPT ![call'[t].inum] = Lock!WrLock(@, t)]
    <2>1. PICK i \in Inodes : i = open_file_table[fh].of_inumber
      BY DEF Issued, TypeOK
    <2>2. /\ call' = [call EXCEPT ![t] = Call("write", fh, byte, len)] /\ len \in Nat
          /\ UNCHANGED <<tables, handles, damage>> /\ Lock!CanWrite(rwl[i])
          /\ rwl' = [rwl EXCEPT ![i] = Lock!WrLock(@, t)]
      BY <1>1, <2>1, SizesAssumption DEF WriteBegin
    <2>3. /\ Made(t, "write", fh, byte, len) /\ len \in Nat
          /\ byte \in Data \cup {0} /\ "write" \in {"write", "read"} /\ UNCHANGED handles
      BY <2>2 DEF Made
    <2>4. /\ call'[t].pc = "run" /\ call'[t].buffer = <<>> /\ call'[t].start = Offset(t)'
          /\ call'[t].inum = open_file_table[fh].of_inumber /\ call'[t].op = "write"
          /\ \A u \in Threads \ {t} : call'[u] = call[u]
      BY <2>3, CallBegins
    <2> QED BY <2>1, <2>2, <2>4
  <1>2. ASSUME NEW fh \in Issued, NEW len \in Lengths, ReadBegin(t, fh, len)
        PROVE  /\ call'[t].pc = "run" /\ call'[t].buffer = <<>> /\ call'[t].start = Offset(t)'
               /\ call'[t].inum \in Inodes /\ \A u \in Threads \ {t} : call'[u] = call[u]
               /\ UNCHANGED <<tables, handles, damage>>
               /\ Lock!CanRead(rwl[call'[t].inum]) /\ call'[t].op = "read"
               /\ rwl' = [rwl EXCEPT ![call'[t].inum] = Lock!RdLock(@)]
    <2>1. PICK i \in Inodes : i = open_file_table[fh].of_inumber
      BY DEF Issued, TypeOK
    <2>2. PICK n \in Nat : n = ToRead(inode_table[i].i_size, open_file_table[fh].of_offset, len)
      BY <2>1, ToReadNat
    <2>3. /\ call' = [call EXCEPT ![t] = Call("read", fh, 0, n)]
          /\ UNCHANGED <<tables, handles, damage>> /\ Lock!CanRead(rwl[i])
          /\ rwl' = [rwl EXCEPT ![i] = Lock!RdLock(@)]
      BY <1>2, <2>1, <2>2 DEF ReadBegin
    <2>4. /\ Made(t, "read", fh, 0, n)
          /\ 0 \in Data \cup {0} /\ "read" \in {"write", "read"} /\ UNCHANGED handles
      BY <2>3 DEF Made
    <2>5. /\ call'[t].pc = "run" /\ call'[t].buffer = <<>> /\ call'[t].start = Offset(t)'
          /\ call'[t].inum = open_file_table[fh].of_inumber /\ call'[t].op = "read"
          /\ \A u \in Threads \ {t} : call'[u] = call[u]
      BY <2>4, CallBegins
    <2> QED BY <2>1, <2>3, <2>5
  <1> QED BY <1>1, <1>2 DEF Enter

(* Every step is of one of these kinds.                                    *)
LEMMA StepIs ==
  ASSUME TypeOK, Next, \A t \in Threads : ~Dies(t)
  PROVE  \E t \in Threads :
           \/ Opens(t) \/ Enter(t) \/ CopyIn(t) \/ CopyOut(t) \/ Ends(t)
           \/ /\ Works(t) /\ call'[t].pc # "dead" /\ \A u \in Threads \ {t} : call'[u] = call[u]
              /\ Alloc(t) \/ Store(t) \/ Fill(t)
  <1>2. ASSUME NEW t \in Threads, call[t].pc = "idle", Begins(t) PROVE Opens(t) \/ Enter(t)
    BY <1>2 DEF Begins, Opens, Enter
  <1>3. ASSUME NEW t \in Threads, Fill(t)
        PROVE  Works(t) /\ call'[t].pc # "dead" /\ \A u \in Threads \ {t} : call'[u] = call[u]
    <2>1. InLoop(t) /\ call' = [call EXCEPT ![t].pc = "run"] /\ "run" \in LoopPcs
          /\ UNCHANGED <<handles, rwl>>
      BY <1>3 DEF Fill, InLoop, LoopPcs
    <2> QED BY <2>1, PcWorks
  <1>4. ASSUME NEW t \in Threads, NoBlock(t) \/ WriteEnd(t) \/ ReadEnd(t) PROVE Ends(t)
    BY <1>4 DEF NoBlock, WriteEnd, ReadEnd, InLoop, Ends
  <1>5. ASSUME NEW t \in Threads, GoesOn(t)
        PROVE  \/ OpenTruncated(t) \/ CopyIn(t) \/ CopyOut(t) \/ Alloc(t) \/ Store(t) \/ Fill(t)
               \/ NoBlock(t) \/ WriteEnd(t) \/ ReadEnd(t)
    BY <1>5 DEF GoesOn
  <1>6. ASSUME NEW t \in Threads, OpenTruncated(t) PROVE Opens(t)
    BY <1>6 DEF Opens
  <1> QED BY <1>2, <1>3, <1>4, <1>5, <1>6, AllocWorks, StoreMoves DEF Next

LEMMA EndsMove ==
  ASSUME TypeOK, NEW t \in Threads, Ends(t)
  PROVE  /\ call'[t].pc = "idle" /\ \A u \in Threads \ {t} : call'[u] = call[u]
         /\ rwl' = [rwl EXCEPT ![call[t].inum] = Lock!Unlock(@, t)]
  <1>1. call' = [call EXCEPT ![t] = Idle] /\ rwl' = [rwl EXCEPT ![call[t].inum] = Lock!Unlock(@, t)]
    BY DEF Ends, Leaves, Returns
  <1> QED BY <1>1, CallMoves DEF Idle

(* A step leaves the other threads' calls and handles alone.               *)
LEMMA OthersStay ==
  ASSUME TypeOK, CallInv, damage' = {}, NEW t \in Threads, NEW u \in Threads \ {t},
         \/ Opens(t) \/ Enter(t) \/ CopyIn(t) \/ CopyOut(t) \/ Ends(t)
         \/ Works(t) /\ \A v \in Threads \ {t} : call'[v] = call[v]
  PROVE  call'[u] = call[u] /\ (InLoop(u) => Offset(u)' = Offset(u))
  <1>1. CASE Opens(t)
    BY <1>1, OpensMove DEF Offset
  <1>2. CASE Enter(t)
    BY <1>2, EnterMoves DEF Offset, handles
  <1>3. ASSUME Copying(t, "write") \/ Copying(t, "read"), call'[u] = call[u], InLoop(u)
        PROVE  Offset(u)' = Offset(u)
    <2>1. InLoop(t) /\ call[u].pc \in LoopPcs
      BY <1>3 DEF Copying, InLoop, LoopPcs
    <2>2. call[u].fh \in Handles \ {call[t].fh}
      BY <1>3, <2>1, LoopCall DEF CallInv, HandlesApart
    <2> QED BY <1>3, <2>2, CopyingStep DEF Offset
  <1>4. CASE CopyIn(t)
    BY <1>3, <1>4, CopyInMoves DEF CopyIn
  <1>5. CASE CopyOut(t)
    BY <1>3, <1>5, CopyOutMoves DEF CopyOut
  <1>6. CASE Ends(t)
    BY <1>6, EndsMove DEF Ends, Offset, handles
  <1>7. CASE Works(t) /\ \A v \in Threads \ {t} : call'[v] = call[v]
    BY <1>7 DEF Works, Offset, handles
  <1> QED BY <1>1, <1>2, <1>4, <1>5, <1>6, <1>7

(* A call that is under way after a step was so before it, or began.       *)
LEMMA CallsFrom ==
  ASSUME TypeOK, CallInv, Next, ~Dead', damage' = {}, NEW t \in Threads, InLoop(t)'
  PROVE  \/ Enter(t) \/ CopyIn(t) \/ CopyOut(t)
         \/ SameCall(t) /\ Offset(t)' = Offset(t) /\ call'[t].buffer = call[t].buffer
  <1>1. PICK u \in Threads :
           \/ Opens(u) \/ Enter(u) \/ CopyIn(u) \/ CopyOut(u) \/ Ends(u)
           \/ Works(u) /\ \A v \in Threads \ {u} : call'[v] = call[v]
    BY StepIs, DeathStays
  <1>2. CASE u = t
    <2>1. ~Opens(t) /\ ~Ends(t)
      BY OpensMove, EndsMove DEF InLoop
    <2>2. Works(t) => SameCall(t) /\ Offset(t)' = Offset(t) /\ call'[t].buffer = call[t].buffer
      BY DEF Works, SameCall, Offset, handles
    <2> QED BY <1>1, <1>2, <2>1, <2>2
  <1>3. CASE u # t
    <2>1. call'[t] = call[t] /\ (InLoop(t) => Offset(t)' = Offset(t))
      BY <1>1, <1>3, OthersStay
    <2> QED BY <2>1 DEF SameCall, InLoop
  <1> QED BY <1>2, <1>3

----------------------------------------------------------------------------
(* The cells of a file. A cell is there when a reference of the file leads *)
(* to its block.                                                           *)

HasRef(i, k, a, l) ==
  /\ Place(i, k) = [blk |-> a, at |-> l] /\ Place(i, k) # IndirectPlace
  /\ InFile(i, a, l) /\ Kept(i, a, l) \in Blocks
HasCell(i, k) == \E a, l : HasRef(i, k, a, l)

(* Its contents are those of that block ...                                *)
CellsRead ==
  \A i \in Files, k \in Nat : \A a, l :
    HasRef(i, k, a, l) => CellAt(i, k) = fs_data[Kept(i, a, l)][k % BLOCK_SIZE]

LEMMA CellsAreRead == TypeOK => CellsRead
  <1> SUFFICES ASSUME TypeOK, NEW i \in Files, NEW k \in Nat, NEW a, NEW l, HasRef(i, k, a, l)
               PROVE  CellAt(i, k) = fs_data[Kept(i, a, l)][k % BLOCK_SIZE]
    BY DEF CellsRead
  <1>1. PICK p, b : p = Place(i, k) /\ b = Kept(i, a, l)
    OBVIOUS
  <1>2. /\ p.blk = a /\ p.at = l /\ p # IndirectPlace /\ b \in Blocks /\ IsPlace(i, a, l)
    BY <1>1 DEF HasRef, InFile
  <1>3. InMemory(p) /\ (p.blk # -1 => Filled(p.blk))
    <2>1. a = -1 \/ (a \in Blocks /\ Filled(a))
      BY <1>2 DEF IsPlace
    <2>2. DATA_BLOCKS \in Nat \ {0}
      BY SizesAssumption
    <2> QED BY <1>2, <2>1, <2>2 DEF InMemory, Blocks
  <1>4. At(i, p) = b
    BY <1>1, <1>2 DEF At, Kept
  <1> QED BY <1>1, <1>2, <1>3, <1>4 DEF CellAt

LEMMA CellsAreReadThen == TypeOK' => CellsRead'
  BY CellsAreRead, PTL

(* ... and what is there is no -1 elsewhere.                               *)
LEMMA CellIsThere ==
  ASSUME TypeOK, NEW i \in Files, NEW k \in Nat, k < MAX_FILE_SIZE, CellAt(i, k) # -1
  PROVE  HasCell(i, k)
  <1> DEFINE q == k \div BLOCK_SIZE
  <1>1. PICK p : p = Place(i, k)
    OBVIOUS
  <1>2. /\ p # IndirectPlace /\ InMemory(p) /\ (p.blk # -1 => Filled(p.blk)) /\ At(i, p) \in Blocks
    BY <1>1 DEF CellAt
  <1>3. i \in Inodes /\ q \in Nat
    BY DivMod, Sizes DEF Files
  <1>4. CASE q < INDIRECT_ACCESS_BLOCK
    <2>1. p = [blk |-> -1, at |-> q] /\ q \in BlockRefs
      BY <1>1, <1>3, <1>4, PlaceExact
    <2> HIDE DEF q
    <2>2. IsPlace(i, -1, q) /\ Kept(i, -1, q) = At(i, p)
      BY <2>1 DEF IsPlace, Kept, At
    <2>3. HasRef(i, k, -1, q)
      BY <1>1, <1>2, <2>1, <2>2, Sizes DEF HasRef, InFile
    <2> QED BY <2>3 DEF HasCell
  <1>5. CASE q >= INDIRECT_ACCESS_BLOCK
    <2>1. Indirect(i) # -1
      BY <1>1, <1>2, <1>3, <1>5, PlaceExact
    <2>2. PICK a, l : a = Indirect(i) /\ l = q - INDIRECT_ACCESS_BLOCK
      OBVIOUS
    <2>3. p = [blk |-> a, at |-> l] /\ l \in Cells /\ a \in Blocks
      BY <1>1, <1>3, <1>5, <2>1, <2>2, PlaceExact
    <2> HIDE DEF q
    <2>4. IsPlace(i, a, l) /\ Kept(i, a, l) = At(i, p)
      BY <1>2, <2>1, <2>2, <2>3 DEF IsPlace, Kept, At
    <2>5. HasRef(i, k, a, l)
      BY <1>1, <1>2, <2>3, <2>4, Sizes DEF HasRef, InFile
    <2> QED BY <2>5 DEF HasCell
  <1> QED BY <1>3, <1>4, <1>5, Sizes

(* Offsets of different blocks have different places.                      *)
LEMMA PlaceTells ==
  ASSUME TypeOK, NEW i \in Inodes, NEW k \in Nat, k < MAX_FILE_SIZE, NEW n \in Nat, n < MAX_FILE_SIZE,
         Place(i, k) = Place(i, n), Place(i, k) # IndirectPlace
  PROVE  k \div BLOCK_SIZE = n \div BLOCK_SIZE
  <1> DEFINE q == k \div BLOCK_SIZE
             r == n \div BLOCK_SIZE
  <1>1. q \in Nat /\ r \in Nat
    BY DivMod, Sizes
  <1>2. /\ q < INDIRECT_ACCESS_BLOCK => Place(i, k) = [blk |-> -1, at |-> q]
        /\ q >= INDIRECT_ACCESS_BLOCK /\ Indirect(i) = -1 => Place(i, k) = IndirectPlace
        /\ q >= INDIRECT_ACCESS_BLOCK /\ Indirect(i) # -1 =>
             Place(i, k) = [blk |-> Indirect(i), at |-> q - INDIRECT_ACCESS_BLOCK]
    BY PlaceExact
  <1>3. /\ r < INDIRECT_ACCESS_BLOCK => Place(i, n) = [blk |-> -1, at |-> r]
        /\ r >= INDIRECT_ACCESS_BLOCK /\ Indirect(i) = -1 => Place(i, n) = IndirectPlace
        /\ r >= INDIRECT_ACCESS_BLOCK /\ Indirect(i) # -1 =>
             Place(i, n) = [blk |-> Indirect(i), at |-> r - INDIRECT_ACCESS_BLOCK]
    BY PlaceExact
  <1> HIDE DEF q, r
  <1>4. q = r
    <2>1. CASE q < INDIRECT_ACCESS_BLOCK
      <3>1. Place(i, k).blk = -1 /\ Place(i, k).at = q
        BY <1>2, <2>1
      <3>2. CASE r < INDIRECT_ACCESS_BLOCK
        BY <1>3, <3>1, <3>2
      <3>3. CASE r >= INDIRECT_ACCESS_BLOCK
        BY <1>3, <3>1, <3>3
      <3> QED BY <1>1, <3>2, <3>3, Sizes
    <2>2. CASE q >= INDIRECT_ACCESS_BLOCK
      <3>1. Indirect(i) # -1 /\ Place(i, k).blk = Indirect(i) /\ Place(i, k).at = q - INDIRECT_ACCESS_BLOCK
        BY <1>2, <2>2
      <3>2. CASE r < INDIRECT_ACCESS_BLOCK
        BY <1>3, <3>1, <3>2
      <3>3. CASE r >= INDIRECT_ACCESS_BLOCK
        <4>1. q - INDIRECT_ACCESS_BLOCK = r - INDIRECT_ACCESS_BLOCK
          BY <1>3, <3>1, <3>3
        <4> QED BY <1>1, <4>1, Sizes
      <3> QED BY <1>1, <3>2, <3>3, Sizes
    <2> QED BY <1>1, <2>1, <2>2, Sizes
  <1> QED BY <1>4 DEF q, r

(* No data lie in a block of references.                                   *)
LEMMA DataNotRefs ==
  ASSUME TypeOK, Owned, NEW i \in Files, NEW k \in Nat, NEW a, NEW l, HasRef(i, k, a, l), NEW j \in Files
  PROVE  Indirect(j) # Kept(i, a, l)
  <1> SUFFICES ASSUME Indirect(j) = Kept(i, a, l) PROVE FALSE
    OBVIOUS
  <1>1. Kept(i, a, l) # -1 /\ InFile(i, a, l)
    BY DEF HasRef, InFile
  <1>2. InFile(j, -1, INDIRECT_ACCESS_BLOCK) /\ Kept(j, -1, INDIRECT_ACCESS_BLOCK) = Indirect(j)
    BY <1>1, IndirectInFile
  <1>3. a = -1 /\ l = INDIRECT_ACCESS_BLOCK
    BY <1>1, <1>2 DEF Owned, RefsApart
  <1> QED BY <1>3 DEF HasRef, IndirectPlace

(* A reference that stays leads to the same block.                         *)
LEMMA RefStays ==
  ASSUME TypeOK, NEW i \in Files, NEW k \in Nat, k < MAX_FILE_SIZE, NEW a, NEW l, HasRef(i, k, a, l), RefsStay(i)
  PROVE  HasRef(i, k, a, l)' /\ Kept(i, a, l)' = Kept(i, a, l)
  <1>1. InFile(i, a, l)' /\ Kept(i, a, l)' = Kept(i, a, l) /\ InFile(i, a, l) /\ IsPlace(i, a, l)
    BY DEF HasRef, RefsStay, InFile
  <1>2. Place(i, k)' = Place(i, k)
    <2>1. CASE k \div BLOCK_SIZE < INDIRECT_ACCESS_BLOCK
      BY <2>1 DEF Place
    <2>2. CASE ~(k \div BLOCK_SIZE < INDIRECT_ACCESS_BLOCK)
      <3>1. k \div BLOCK_SIZE >= INDIRECT_ACCESS_BLOCK /\ i \in Inodes
        BY <2>2, DivMod, Sizes DEF Files
      <3>2. Indirect(i) # -1
        BY <3>1, PlaceExact DEF HasRef
      <3>3. InFile(i, -1, INDIRECT_ACCESS_BLOCK)
        BY <3>2, IndirectInFile
      <3>4. Kept(i, -1, INDIRECT_ACCESS_BLOCK)' = Kept(i, -1, INDIRECT_ACCESS_BLOCK)
        BY <3>3 DEF RefsStay
      <3>5. Indirect(i)' = Indirect(i)
        BY <3>4 DEF Kept, Indirect
      <3> QED BY <3>5 DEF Place, Indirect
    <2> QED BY <2>1, <2>2
  <1> QED BY <1>1, <1>2 DEF HasRef

(* A cell whose block nobody copies into stays as it is.                   *)
LEMMA CellStays ==
  ASSUME TypeOK, TypeOK', NEW i \in Files, NEW k \in Nat, k < MAX_FILE_SIZE, NEW a, NEW l, HasRef(i, k, a, l),
         RefsStay(i), fs_data'[Kept(i, a, l)] = fs_data[Kept(i, a, l)]
  PROVE  HasCell(i, k)' /\ CellAt(i, k)' = CellAt(i, k)
  <1>1. PICK b : b = Kept(i, a, l)
    OBVIOUS
  <1>2. HasRef(i, k, a, l)' /\ Kept(i, a, l)' = b
    BY <1>1, RefStays
  <1>3. i \in Files'
    BY <1>2 DEF HasRef, InFile
  <1>4. CellAt(i, k) = fs_data[b][k % BLOCK_SIZE]
    BY <1>1, CellsAreRead DEF CellsRead
  <1>5. CellAt(i, k)' = fs_data'[b][k % BLOCK_SIZE]
    BY <1>2, <1>3, CellsAreReadThen DEF CellsRead
  <1> QED BY <1>1, <1>2, <1>4, <1>5 DEF HasCell

(* A chunk of a copy lies within one block of its file.                    *)
LEMMA ChunkBelow ==
  ASSUME NEW n \in Nat, n < MAX_FILE_SIZE, NEW d \in Nat, (n % BLOCK_SIZE) + d < BLOCK_SIZE
  PROVE  /\ n + d \in Nat /\ n + d < MAX_FILE_SIZE
         /\ (n + d) \div BLOCK_SIZE = n \div BLOCK_SIZE /\ (n + d) % BLOCK_SIZE = (n % BLOCK_SIZE) + d
  <1>1. (n + d) \div BLOCK_SIZE = n \div BLOCK_SIZE /\ (n + d) % BLOCK_SIZE = (n % BLOCK_SIZE) + d
    BY Sizes, SameBlock
  <1>2. PICK q, m : q = n \div BLOCK_SIZE /\ m = INDIRECT_ACCESS_BLOCK + BLOCK_SIZE
    OBVIOUS
  <1>3. m \in Nat /\ MAX_FILE_SIZE = m * BLOCK_SIZE
    BY <1>2, Sizes DEF MAX_FILE_SIZE, INDIRECT_REFERENCES
  <1>4. q \in Nat /\ q < m
    BY <1>2, <1>3, Sizes, BlockBelow, DivMod
  <1>5. BLOCK_SIZE * q + BLOCK_SIZE <= BLOCK_SIZE * m
    BY <1>3, <1>4, Sizes, FartherBlock
  <1>6. n + d = BLOCK_SIZE * q + ((n % BLOCK_SIZE) + d)
    <2>1. n + d \in Nat
      OBVIOUS
    <2>2. n + d = BLOCK_SIZE * ((n + d) \div BLOCK_SIZE) + ((n + d) % BLOCK_SIZE)
      BY <2>1, Sizes, DivMod
    <2> QED BY <1>1, <1>2, <2>2
  <1>7. PICK r : r = n % BLOCK_SIZE
    OBVIOUS
  <1>8. r \in Nat
    BY <1>7, Sizes, DivMod
  <1>9. BLOCK_SIZE * q \in Nat /\ BLOCK_SIZE * m = m * BLOCK_SIZE
    BY <1>3, <1>4, Sizes
  <1>10. n + d < MAX_FILE_SIZE
    BY <1>3, <1>5, <1>6, <1>7, <1>8, <1>9, Sizes
  <1> QED BY <1>1, <1>10

LEMMA CopyCells ==
  ASSUME TypeOK, CallInv, Owned, NEW t \in Threads, NEW op \in {"write", "read"}, Copying(t, op), damage' = {}
  PROVE  /\ Offset(t) < MAX_FILE_SIZE
         /\ \E a, l :
              /\ HasRef(call[t].inum, Offset(t), a, l)
              /\ Kept(call[t].inum, a, l) = At(call[t].inum, Here(t))
              /\ \A d \in Nat : d < Chunk(t) =>
                   /\ HasRef(call[t].inum, Offset(t) + d, a, l)
                   /\ Offset(t) + d \in Nat /\ Offset(t) + d < MAX_FILE_SIZE
                   /\ (Offset(t) + d) % BLOCK_SIZE = InBlock(t) + d
  <1>1. call[t].pc \in LoopPcs /\ NotesUse(t)
    BY DEF Copying, LoopPcs
  <1>2. PICK n \in Nat : n = Offset(t)
    BY <1>1, ChunkFits
  <1>3. n < MAX_FILE_SIZE
    <2>1. ~(n >= MAX_FILE_SIZE)
      BY <1>1, <1>2 DEF NotesUse, PastEnd
    <2>2. MAX_FILE_SIZE \in Nat
      BY Sizes DEF MAX_FILE_SIZE, INDIRECT_REFERENCES
    <2> QED BY <2>1, <2>2
  <1>4. PICK i \in Files : i = call[t].inum
    BY CopiesIntoData
  <1>5. PICK a, l : /\ Here(t) = [blk |-> a, at |-> l] /\ InFile(i, a, l) /\ Here(t) # IndirectPlace
                    /\ Kept(i, a, l) = At(i, Here(t)) /\ At(i, Here(t)) \in Blocks
    BY <1>4, CopiesIntoData
  <1>6. HasRef(i, n, a, l)
    BY <1>2, <1>4, <1>5 DEF HasRef, Here
  <1>7. ASSUME NEW d \in Nat, d < Chunk(t)
        PROVE  /\ HasRef(i, n + d, a, l) /\ n + d \in Nat /\ n + d < MAX_FILE_SIZE
               /\ (n + d) % BLOCK_SIZE = InBlock(t) + d
    <2>1. (n % BLOCK_SIZE) + d < BLOCK_SIZE /\ InBlock(t) = n % BLOCK_SIZE
      <3>1. InBlock(t) = n % BLOCK_SIZE
        BY <1>2 DEF InBlock
      <3>2. InBlock(t) \in Nat /\ Chunk(t) \in Nat /\ InBlock(t) + Chunk(t) <= BLOCK_SIZE
        BY <1>1, ChunkFits, Sizes
      <3> QED BY <1>7, <3>1, <3>2, Sizes
    <2>2. /\ n + d \in Nat /\ n + d < MAX_FILE_SIZE
          /\ (n + d) \div BLOCK_SIZE = n \div BLOCK_SIZE /\ (n + d) % BLOCK_SIZE = (n % BLOCK_SIZE) + d
      BY <1>3, <2>1, ChunkBelow
    <2>3. Place(i, n + d) = Place(i, n)
      BY <2>2 DEF Place
    <2> QED BY <1>6, <2>1, <2>2, <2>3 DEF HasRef
  <1> QED BY <1>2, <1>3, <1>4, <1>5, <1>6, <1>7

(* What a copy writes to its file, and that it writes nothing else.        *)
LEMMA CopyInContents ==
  ASSUME TypeOK, TypeOK', CallInv, Owned, NEW t \in Threads, CopyIn(t), damage' = {}
  PROVE  /\ \A i \in Files, k \in Nat : i = call[t].inum /\ Offset(t) <= k /\ k < Offset(t) + Chunk(t) =>
              k < MAX_FILE_SIZE /\ HasCell(i, k)' /\ CellAt(i, k)' = call[t].byte
         /\ \A i \in Files, k \in Nat : k < MAX_FILE_SIZE /\ HasCell(i, k) =>
              /\ HasCell(i, k)'
              /\ \/ CellAt(i, k)' = CellAt(i, k)
                 \/ i = call[t].inum /\ Offset(t) <= k /\ k < Offset(t) + Chunk(t)
  <1>1. Copying(t, "write") /\ call[t].pc \in LoopPcs
    BY DEF CopyIn, Copying, LoopPcs
  <1>2. PICK i \in Files : i = call[t].inum
    BY <1>1, CopiesIntoData
  <1>3. PICK n \in Nat, m \in Nat, x \in Nat :
          /\ n = Offset(t) /\ m = Chunk(t) /\ x = InBlock(t) /\ x + m <= BLOCK_SIZE
    BY <1>1, ChunkFits, Sizes
  <1>4. PICK a, l :
          /\ HasRef(i, n, a, l) /\ Kept(i, a, l) = At(i, Here(t))
          /\ \A d \in Nat : d < m =>
               /\ HasRef(i, n + d, a, l) /\ n + d \in Nat /\ n + d < MAX_FILE_SIZE
               /\ (n + d) % BLOCK_SIZE = x + d
    BY <1>1, <1>2, <1>3, CopyCells
  <1>5. PICK b \in Blocks :
          /\ b = Kept(i, a, l)
          /\ \A c \in Blocks \ {b} : fs_data'[c] = fs_data[c]
          /\ \A k \in Cells : fs_data'[b][k] = IF x <= k /\ k < x + m THEN call[t].byte ELSE fs_data[b][k]
    BY <1>2, <1>3, <1>4, CopyInStep
  <1>6. n < MAX_FILE_SIZE /\ x = n % BLOCK_SIZE /\ \A j \in Files : RefsStay(j)
    BY <1>1, <1>3, CopyCells, CopyInOwned DEF InBlock
  <1>7. ASSUME NEW k \in Nat, n <= k, k < n + m
        PROVE  k < MAX_FILE_SIZE /\ HasCell(i, k)' /\ CellAt(i, k)' = call[t].byte
    <2>1. PICK d \in Nat : d = k - n /\ n + d = k /\ d < m
      BY <1>7
    <2>2. HasRef(i, k, a, l) /\ k < MAX_FILE_SIZE /\ k % BLOCK_SIZE = x + d
      BY <1>4, <2>1
    <2>3. HasRef(i, k, a, l)' /\ Kept(i, a, l)' = b
      BY <1>5, <1>6, <2>2, RefStays
    <2>4. i \in Files'
      BY <2>3 DEF HasRef, InFile
    <2>5. CellAt(i, k)' = fs_data'[b][x + d]
      BY <2>2, <2>3, <2>4, CellsAreReadThen DEF CellsRead
    <2>6. x + d \in Cells /\ x <= x + d /\ x + d < x + m
      BY <1>3, <2>1, Sizes DEF Cells
    <2> QED BY <1>5, <2>2, <2>3, <2>5, <2>6 DEF HasCell
  <1>8. ASSUME NEW j \in Files, NEW k \in Nat, k < MAX_FILE_SIZE, HasCell(j, k), ~(j = i /\ n <= k /\ k < n + m)
        PROVE  HasCell(j, k)' /\ CellAt(j, k)' = CellAt(j, k)
    <2>1. PICK c, o : HasRef(j, k, c, o)
      BY <1>8 DEF HasCell
    <2>2. CASE Kept(j, c, o) # b
      <3>1. fs_data'[Kept(j, c, o)] = fs_data[Kept(j, c, o)]
        BY <1>5, <2>1, <2>2 DEF HasRef
      <3> QED BY <1>6, <1>8, <2>1, <3>1, CellStays
    <2>3. CASE Kept(j, c, o) = b
      <3>1. j = i /\ c = a /\ o = l
        BY <1>4, <1>5, <2>1, <2>3 DEF HasRef, Owned, RefsApart
      <3>2. k \div BLOCK_SIZE = n \div BLOCK_SIZE
        <4>1. Place(i, k) = Place(i, n) /\ Place(i, k) # IndirectPlace /\ i \in Inodes
          BY <1>4, <2>1, <3>1 DEF HasRef, Files
        <4> QED BY <1>6, <1>8, <4>1, PlaceTells
      <3>3. PICK y, q : y = k % BLOCK_SIZE /\ q = n \div BLOCK_SIZE
        OBVIOUS
      <3>4. y \in Cells /\ ~(x <= y /\ y < x + m)
        <4>1. y \in 0 .. BLOCK_SIZE - 1 /\ k = BLOCK_SIZE * q + y
          BY <3>2, <3>3, DivMod, Sizes
        <4>2. n = BLOCK_SIZE * q + x /\ q \in Nat
          BY <1>6, <3>3, DivMod, Sizes
        <4>3. BLOCK_SIZE * q \in Nat
          BY <4>2, Sizes
        <4> QED BY <1>8, <3>1, <4>1, <4>2, <4>3 DEF Cells
      <3>5. fs_data'[b][y] = fs_data[b][y]
        BY <1>5, <3>4
      <3>6. HasRef(j, k, c, o)' /\ Kept(j, c, o)' = b
        BY <1>6, <1>8, <2>1, <2>3, RefStays
      <3>7. j \in Files'
        BY <3>6 DEF HasRef, InFile
      <3>8. CellAt(j, k) = fs_data[b][y]
        BY <2>1, <2>3, <3>3, CellsAreRead DEF CellsRead
      <3>9. CellAt(j, k)' = fs_data'[b][y]
        BY <3>3, <3>6, <3>7, CellsAreReadThen DEF CellsRead
      <3> QED BY <3>5, <3>6, <3>8, <3>9 DEF HasCell
    <2> QED BY <2>2, <2>3
  <1>9. ASSUME NEW j \in Files, NEW k \in Nat, k < MAX_FILE_SIZE, HasCell(j, k), j = i, n <= k, k < n + m
        PROVE  HasCell(j, k)'
    BY <1>7, <1>9
  <1>10. ASSUME NEW j \in Files, NEW k \in Nat, k < MAX_FILE_SIZE, HasCell(j, k)
         PROVE  HasCell(j, k)' /\ (CellAt(j, k)' = CellAt(j, k) \/ (j = i /\ n <= k /\ k < n + m))
    BY <1>8, <1>9, <1>10
  <1>11. \A j \in Files, k \in Nat : j = call[t].inum /\ Offset(t) <= k /\ k < Offset(t) + Chunk(t) =>
           k < MAX_FILE_SIZE /\ HasCell(j, k)' /\ CellAt(j, k)' = call[t].byte
    BY <1>2, <1>3, <1>7
  <1>12. \A j \in Files, k \in Nat : k < MAX_FILE_SIZE /\ HasCell(j, k) =>
           /\ HasCell(j, k)'
           /\ \/ CellAt(j, k)' = CellAt(j, k)
              \/ j = call[t].inum /\ Offset(t) <= k /\ k < Offset(t) + Chunk(t)
    BY <1>2, <1>3, <1>10
  <1> QED BY <1>11, <1>12

(* A step that is not the copy of a write changes what is in files only    *)
(* when it truncates one.                                                  *)
LEMMA StepOwns ==
  ASSUME TypeOK, CallInv, Owned, Next, damage' = {}, \A t \in Threads : ~Dies(t)
  PROVE  \/ OwnedStep
         \/ \E t \in Threads : CopyIn(t)
         \/ \E t \in Threads, i \in Files, append \in BOOLEAN :
              OpenTruncate(t, i, append) /\ call[t].pc = "idle"
  <1>1. ASSUME NEW t \in Threads, GoesOn(t) PROVE OwnedStep \/ CopyIn(t)
    BY <1>1, QuietGoesOn, AllocOwned, StoreOwned, FillOwned DEF GoesOn
  <1>2. ASSUME NEW t \in Threads, call[t].pc = "idle", Begins(t)
        PROVE  OwnedStep \/ \E i \in Files, append \in BOOLEAN : OpenTruncate(t, i, append)
    BY <1>2, OpenCreateOwned, QuietBegins DEF Begins
  <1> QED BY <1>1, <1>2 DEF Next

LEMMA QuietCells ==
  ASSUME TypeOK, TypeOK', Owned, DataStays, NEW i \in Files, RefsStay(i),
         NEW k \in Nat, k < MAX_FILE_SIZE, HasCell(i, k)
  PROVE  HasCell(i, k)' /\ CellAt(i, k)' = CellAt(i, k)
  <1>1. PICK a, l : HasRef(i, k, a, l)
    BY DEF HasCell
  <1>2. PICK b \in Blocks : b = Kept(i, a, l)
    BY <1>1 DEF HasRef
  <1>3. fs_data'[b] = fs_data[b]
    BY <1>1, <1>2, DataNotRefs DEF DataStays
  <1> QED BY <1>1, <1>2, <1>3, CellStays

LEMMA ContentsStep ==
  ASSUME TypeOK, TypeOK', CallInv, Owned, Next, damage' = {}, \A t \in Threads : ~Dies(t),
         NEW i \in Files, NEW k \in Nat, k < MAX_FILE_SIZE, HasCell(i, k)
  PROVE  \/ HasCell(i, k)' /\ CellAt(i, k)' = CellAt(i, k)
         \/ \E t \in Threads : CopyIn(t) /\ i = call[t].inum /\ Offset(t) <= k /\ k < Offset(t) + Chunk(t)
         \/ \E t \in Threads, append \in BOOLEAN :
              OpenTruncate(t, i, append) /\ call[t].pc = "idle" /\ Truncates(t, i)
  <1>1. CASE OwnedStep
    BY <1>1, QuietCells DEF OwnedStep
  <1>2. ASSUME NEW t \in Threads, CopyIn(t)
        PROVE  HasCell(i, k)' /\ \/ CellAt(i, k)' = CellAt(i, k)
                                 \/ i = call[t].inum /\ Offset(t) <= k /\ k < Offset(t) + Chunk(t)
    BY <1>2, CopyInContents
  <1>3. ASSUME NEW t \in Threads, NEW j \in Files, NEW append \in BOOLEAN,
               OpenTruncate(t, j, append), call[t].pc = "idle"
        PROVE  (HasCell(i, k)' /\ CellAt(i, k)' = CellAt(i, k)) \/ (j = i /\ Truncates(t, i))
    <2>1. DataStays /\ (RefsStay(i) \/ (j = i /\ Truncates(t, i)))
      BY <1>3, OpenTruncateOwned
    <2> QED BY <2>1, QuietCells
  <1> QED BY <1>1, <1>2, <1>3, StepOwns

----------------------------------------------------------------------------
(* The end of the process is everybody's.                                  *)
DeadInv == damage = {} /\ Dead => \A t \in Threads : call[t].pc = "dead"

LEMMA NobodySteps == ASSUME TypeOK, \A t \in Threads : call[t].pc = "dead" PROVE ~Next
  <1>1. ASSUME NEW t \in Threads, GoesOn(t) PROVE FALSE
    BY <1>1, AllocStep DEF GoesOn, OpenTruncated, Store, Fill, NoBlock, CopyIn, CopyOut, Copying,
                           WriteEnd, ReadEnd, Dies
  <1> QED BY <1>1 DEF Next

LEMMA NextDead == TypeOK /\ CallInv /\ DeadInv /\ [Next]_vars => DeadInv'
  <1> SUFFICES ASSUME TypeOK, CallInv, DeadInv, [Next]_vars, damage' = {}, Dead'
               PROVE  \A t \in Threads : call'[t].pc = "dead"
    BY DEF DeadInv
  <1>1. CASE UNCHANGED vars
    BY <1>1 DEF vars, DeadInv, Dead
  <1>2. CASE \E t \in Threads : Dies(t)
    BY <1>2 DEF Dies
  <1>3. CASE Next /\ \A t \in Threads : ~Dies(t)
    <2>1. ~Dead
      BY <1>3, NobodySteps, DamageStays DEF DeadInv
    <2>2. PICK t \in Threads : call'[t].pc # "dead" /\ \A u \in Threads \ {t} : call'[u] = call[u]
      BY <1>3, StepIs, OpensMove, EnterMoves, CopyInMoves, CopyOutMoves, EndsMove
    <2> QED BY <2>1, <2>2 DEF Dead
  <1> QED BY <1>1, <1>2, <1>3

(* It leaves the files as they are.                                        *)
LEMMA DiesQuietly ==
  ASSUME TypeOK, TypeOK', NEW t \in Threads, Dies(t), NEW i \in Files, NEW k \in Nat, k < MAX_FILE_SIZE,
         HasCell(i, k)
  PROVE  CellAt(i, k)' = CellAt(i, k)
  <1>1. /\ UNCHANGED <<inode_table, freeinode_ts, fs_data>>
        /\ \A u \in Threads : call'[u].pc = "dead"
    BY DEF Dies, tables
  <1>2. \A b : Filled(b)'
    BY <1>1 DEF Filled
  <1>3. RefsStay(i)
    BY <1>1, <1>2 DEF RefsStay, InFile, IsPlace, Kept, Files, Indirect
  <1>4. PICK a, l : HasRef(i, k, a, l)
    BY DEF HasCell
  <1> QED BY <1>1, <1>3, <1>4, CellStays

LEMMA ContentsInv == Spec => [](TypeOK /\ CallInv /\ OwnInv /\ DeadInv)
  <1>1. Init => DeadInv
    BY DEF Init, DeadInv, Dead, Idle
  <1>2. TypeOK /\ CallInv /\ OwnInv /\ DeadInv /\ [Next]_vars => (TypeOK /\ CallInv /\ OwnInv /\ DeadInv)'
    BY NextTyped, NextCalls, NextOwned, NextDead
  <1> QED BY <1>1, <1>2, InitTyped, InitCalls, InitOwned, PTL DEF Spec

LEMMA FramedStep ==
  TypeOK /\ TypeOK' /\ CallInv /\ OwnInv /\ DeadInv /\ [Next]_vars => [damage' = {} => Framed]_vars
  <1> SUFFICES ASSUME TypeOK, TypeOK', CallInv, OwnInv, DeadInv, Next, damage' = {},
                      NEW i \in Files, NEW k \in 0 .. MAX_FILE_SIZE - 1,
                      CellAt(i, k) # -1, CellAt(i, k)' # CellAt(i, k)
               PROVE  \E t \in Threads : WritesCell(t, i, k) \/ Truncates(t, i)
    BY DEF Framed
  <1>1. k \in Nat /\ k < MAX_FILE_SIZE /\ HasCell(i, k)
    <2>1. k \in Nat /\ k < MAX_FILE_SIZE
      BY Sizes DEF MAX_FILE_SIZE, INDIRECT_REFERENCES
    <2> QED BY <2>1, CellIsThere
  <1>2. Owned
    BY NobodySteps, DamageStays DEF DeadInv, OwnInv
  <1>3. \A t \in Threads : ~Dies(t)
    BY <1>1, DiesQuietly
  <1>4. ASSUME NEW t \in Threads, CopyIn(t), i = call[t].inum, Offset(t) <= k, k < Offset(t) + Chunk(t)
        PROVE  WritesCell(t, i, k)
    <2>1. Offset(t)' = Offset(t) + Chunk(t)
      BY <1>4, CopyInMoves
    <2>2. Doing(t, "write")
      BY <1>4 DEF Doing, InLoop, CopyIn, Copying
    <2> QED BY <1>4, <2>1, <2>2 DEF WritesCell
  <1> QED BY <1>1, <1>2, <1>3, <1>4, ContentsStep

(* While nothing has gone wrong, a cell within a file changes only when    *)
(* the file is truncated or a thread that writes to the file passes over   *)
(* it, with any number of threads, files, blocks and handles.              *)
THEOREM WritesFramed == Spec => FramedWrites
  BY ContentsInv, FramedStep, PTL DEF Spec, FramedWrites

----------------------------------------------------------------------------
(* What a write has written is there: it has its file's lock, so nobody    *)
(* truncates the file or copies into it meanwhile.                         *)
WrittenInv ==
  damage = {} =>
    \A t \in Threads, i \in Files : Doing(t, "write") /\ call[t].inum = i =>
      \A k \in Nat : call[t].start <= k /\ k < Offset(t) =>
        k < MAX_FILE_SIZE /\ HasCell(i, k) /\ CellAt(i, k) = call[t].byte

OffsetsNat == \A t \in Threads : InLoop(t) => call[t].start \in Nat /\ Offset(t) \in Nat
LEMMA OffsetsTyped == TypeOK => OffsetsNat
  BY LoopCall, ChunkFits DEF OffsetsNat, InLoop, LoopPcs
LEMMA OffsetsTypedThen == TypeOK' => OffsetsNat'
  BY OffsetsTyped, PTL

(* A process in which something is done has not ended.                     *)
LEMMA StillAlive ==
  ASSUME TypeOK, OwnInv, DeadInv', Next, damage' = {}, NEW t \in Threads, InLoop(t)'
  PROVE  ~Dead' /\ damage = {} /\ Owned /\ \A u \in Threads : ~Dies(u)
  <1>1. ~Dead'
    BY DEF DeadInv, InLoop
  <1> QED BY <1>1, DamageStays, DeathStays DEF OwnInv

LEMMA WrittenStep ==
  ASSUME TypeOK, TypeOK', CallInv, OwnInv, DeadInv', WrittenInv, Next, damage' = {},
         NEW t \in Threads, Doing(t, "write")', NEW i, call'[t].inum = i,
         NEW k \in Nat, call'[t].start <= k, k < Offset(t)'
  PROVE  k < MAX_FILE_SIZE /\ HasCell(i, k)' /\ CellAt(i, k)' = call'[t].byte
  <1>0. InLoop(t)' /\ call'[t].op = "write"
    BY DEF Doing
  <1>1. ~Dead' /\ damage = {} /\ Owned /\ \A u \in Threads : ~Dies(u)
    BY <1>0, StillAlive
  <1>2. ~Enter(t)
    <2>1. call'[t].start \in Nat /\ Offset(t)' \in Nat
      BY <1>0, OffsetsTypedThen DEF OffsetsNat
    <2> QED BY <2>1, EnterMoves
  <1>3. ~CopyOut(t)
    BY <1>0, CopyOutMoves DEF CopyOut, Copying, SameCall
  <1>4. ASSUME SameCall(t)
        PROVE  /\ Doing(t, "write") /\ i \in Files /\ i = call[t].inum /\ call'[t].byte = call[t].byte
               /\ call'[t].start = call[t].start /\ call[t].start \in Nat /\ Offset(t) \in Nat
               /\ k < Offset(t) => k < MAX_FILE_SIZE /\ HasCell(i, k) /\ CellAt(i, k) = call[t].byte
    <2>1. /\ Doing(t, "write") /\ i = call[t].inum /\ call'[t].byte = call[t].byte
          /\ call'[t].start = call[t].start
      BY <1>0, <1>4 DEF SameCall, Doing
    <2>2. i \in Files
      BY <2>1 DEF CallInv, Good, Doing
    <2>3. call[t].start \in Nat /\ Offset(t) \in Nat
      BY <2>1, OffsetsTyped DEF OffsetsNat, Doing
    <2> QED BY <1>1, <2>1, <2>2, <2>3 DEF WrittenInv
  <1>5. CASE CopyIn(t)
    <2>1. SameCall(t) /\ Offset(t)' = Offset(t) + Chunk(t)
      BY <1>5, CopyInMoves
    <2>2. CASE k < Offset(t)
      <3>1. k < MAX_FILE_SIZE /\ HasCell(i, k) /\ CellAt(i, k) = call[t].byte /\ i \in Files
        BY <1>4, <2>1, <2>2
      <3>2. ~(Offset(t) <= k)
        BY <1>4, <2>1, <2>2
      <3>3. HasCell(i, k)' /\ CellAt(i, k)' = CellAt(i, k)
        BY <1>1, <1>5, <3>1, <3>2, CopyInContents
      <3> QED BY <1>4, <2>1, <3>1, <3>3
    <2>3. CASE Offset(t) <= k
      <3>1. i \in Files /\ i = call[t].inum /\ k < Offset(t) + Chunk(t) /\ call'[t].byte = call[t].byte
        BY <1>4, <2>1
      <3>2. k < MAX_FILE_SIZE /\ HasCell(i, k)' /\ CellAt(i, k)' = call[t].byte
        BY <1>1, <1>5, <2>3, <3>1, CopyInContents
      <3> QED BY <3>1, <3>2
    <2> QED BY <1>4, <2>1, <2>2, <2>3
  <1>6. CASE ~CopyIn(t) /\ SameCall(t) /\ Offset(t)' = Offset(t)
    <2>1. /\ Doing(t, "write") /\ i \in Files /\ i = call[t].inum /\ call'[t].byte = call[t].byte
          /\ k < MAX_FILE_SIZE /\ HasCell(i, k) /\ CellAt(i, k) = call[t].byte
      BY <1>4, <1>6
    <2>2. ASSUME NEW u \in Threads, CopyIn(u) PROVE i # call[u].inum
      <3>1. Doing(u, "write") /\ u # t
        BY <1>6, <2>2 DEF CopyIn, Copying, Doing, InLoop
      <3> QED BY <2>1, <3>1, WritersApart
    <2>3. ASSUME NEW u \in Threads, NEW append \in BOOLEAN, OpenTruncate(u, i, append) PROVE FALSE
      <3>1. rwl[i].writer = NoThread /\ i \in Inodes
        BY <2>1, <2>3 DEF OpenTruncate, Lock!CanWrite, Files
      <3> QED BY <2>1, <3>1, NobodyWrites
    <2>4. HasCell(i, k)' /\ CellAt(i, k)' = CellAt(i, k)
      BY <1>1, <2>1, <2>2, <2>3, ContentsStep
    <2> QED BY <2>1, <2>4
  <1> QED BY <1>0, <1>1, <1>2, <1>3, <1>5, <1>6, CallsFrom

LEMMA NextWritten ==
  TypeOK /\ TypeOK' /\ CallInv /\ OwnInv /\ DeadInv' /\ WrittenInv /\ [Next]_vars => WrittenInv'
  <1>1. ASSUME TypeOK, TypeOK', CallInv, OwnInv, DeadInv', WrittenInv, Next PROVE WrittenInv'
    BY <1>1, WrittenStep DEF WrittenInv
  <1>2. ASSUME WrittenInv, UNCHANGED vars PROVE WrittenInv'
    <2>1. ASSUME NEW i, NEW k PROVE (HasCell(i, k)' <=> HasCell(i, k)) /\ CellAt(i, k)' = CellAt(i, k)
      BY <1>2 DEF vars, tables, HasCell, HasRef, InFile, IsPlace, Kept, Files, Indirect, Filled, Place,
                  CellAt, At
    <2>2. \A t \in Threads : (Doing(t, "write")' <=> Doing(t, "write")) /\ Offset(t)' = Offset(t)
      BY <1>2 DEF vars, handles, Doing, InLoop, Offset
    <2>3. call' = call /\ Files' = Files /\ damage' = damage
      BY <1>2 DEF vars, tables, Files
    <2> QED BY <1>2, <2>1, <2>2, <2>3 DEF WrittenInv
  <1> QED BY <1>1, <1>2

LEMMA WrittenAlways == Spec => [](TypeOK /\ CallInv /\ WrittenInv)
  <1>1. Init => WrittenInv
    BY DEF Init, WrittenInv, Doing, InLoop, Idle
  <1> QED BY <1>1, NextWritten, ContentsInv, PTL DEF Spec

LEMMA WrittenNow == ASSUME TypeOK, CallInv, WrittenInv PROVE WrittenSoFar
  <1> SUFFICES ASSUME damage = {}, NEW t \in Threads, Doing(t, "write"),
                      NEW k \in call[t].start .. Offset(t) - 1
               PROVE  CellAt(call[t].inum, k) = call[t].byte
    BY DEF WrittenSoFar
  <1>1. call[t].start \in Nat /\ Offset(t) \in Nat
    BY OffsetsTyped DEF OffsetsNat, Doing
  <1>2. k \in Nat /\ call[t].start <= k /\ k < Offset(t)
    BY <1>1
  <1>3. PICK i \in Files : i = call[t].inum
    BY DEF CallInv, Good, Doing
  <1> QED BY <1>2, <1>3 DEF WrittenInv

(* What a write has written so far is in its file, at the offsets its      *)
(* handle has moved over, however many blocks, threads and calls.          *)
THEOREM WrittenIsThere == Spec => []WrittenSoFar
  BY WrittenAlways, WrittenNow, PTL

----------------------------------------------------------------------------
(* The locks. The writer of a file has its rwl in the write phase, and a   *)
(* write phase counts no readers: at most, too few.                        *)
LockGood(l) == (l.writer # NoThread => l.wrphase) /\ (l.wrphase => l.readers <= 0)
LocksGood == \A i \in Inodes : LockGood(rwl[i])

LEMMA LockOps ==
  ASSUME NEW l \in Lock!Rwlocks(Threads), LockGood(l), NEW t \in Threads
  PROVE  /\ Lock!CanWrite(l) =>
              /\ LockGood(Lock!WrLock(l, t)) /\ LockGood(Lock!Unlock(Lock!WrLock(l, t), t))
              /\ Lock!Unlock(Lock!WrLock(l, t), t).readers = l.readers
         /\ Lock!CanRead(l) => LockGood(Lock!RdLock(l)) /\ Lock!RdLock(l).readers <= l.readers + 1
         /\ LockGood(Lock!Unlock(l, t)) /\ Lock!Unlock(l, t).readers <= l.readers
         /\ l.writer # t => Lock!Unlock(l, t).readers = l.readers - 1
  <1>1. l.readers \in Int /\ l.writer \in Threads \cup {NoThread} /\ l.wrphase \in BOOLEAN /\ t # NoThread
    BY Sizes DEF Lock!Rwlocks
  <1>2. ASSUME NEW m \in Lock!Rwlocks(Threads), LockGood(m)
        PROVE  /\ LockGood(Lock!Unlock(m, t)) /\ Lock!Unlock(m, t).readers <= m.readers
               /\ m.writer # t => Lock!Unlock(m, t).readers = m.readers - 1
               /\ m.writer = t => Lock!Unlock(m, t).readers = m.readers
    <2>1. CASE m.writer = t
      <3>1. PICK last \in BOOLEAN : last = (m.readers = 0)
        OBVIOUS
      <3>4. last => m.readers <= 0
        <4>1. (m.readers = 0) => m.readers <= 0
          BY DEF Lock!Rwlocks
        <4>2. last => m.readers = 0
          BY <3>1, Zenon
        <4> QED BY <4>1, <4>2
      <3>2. Lock!Unlock(m, t) = [m EXCEPT !.writer = NoThread, !.wrphase = last]
        BY <2>1, <3>1 DEF Lock!Unlock
      <3>3. /\ Lock!Unlock(m, t).writer = NoThread /\ Lock!Unlock(m, t).wrphase = last
            /\ Lock!Unlock(m, t).readers = m.readers /\ m.readers \in Int
        BY <3>2 DEF Lock!Rwlocks
      <3>5. LockGood(Lock!Unlock(m, t))
        BY <3>3, <3>4 DEF LockGood
      <3>6. Lock!Unlock(m, t).readers <= m.readers
        BY <3>3
      <3> QED BY <2>1, <3>3, <3>5, <3>6
    <2>2. CASE m.writer # t
      <3>1. PICK n \in Int : n = m.readers - 1 /\ n <= m.readers /\ (m.readers <= 0 => n <= 0)
        BY DEF Lock!Rwlocks
      <3>2. Lock!Unlock(m, t) = [m EXCEPT !.readers = n]
        BY <2>2, <3>1 DEF Lock!Unlock
      <3>3. /\ Lock!Unlock(m, t).writer = m.writer /\ Lock!Unlock(m, t).wrphase = m.wrphase
            /\ Lock!Unlock(m, t).readers = n
        BY <3>2 DEF Lock!Rwlocks
      <3> QED BY <1>2, <2>2, <3>1, <3>3 DEF LockGood
    <2> QED BY <2>1, <2>2
  <1>3. ASSUME Lock!CanWrite(l)
        PROVE  /\ LockGood(Lock!WrLock(l, t)) /\ LockGood(Lock!Unlock(Lock!WrLock(l, t), t))
               /\ Lock!Unlock(Lock!WrLock(l, t), t).readers = l.readers
    <2>1. PICK m \in Lock!Rwlocks(Threads) : m = Lock!WrLock(l, t) /\ m.writer = t /\ m.readers = l.readers
      BY RwlockOps
    <2>2. m.wrphase = TRUE
      BY <2>1 DEF Lock!WrLock, Lock!Rwlocks
    <2>3. LockGood(m)
      BY <1>1, <1>3, <2>1, <2>2 DEF LockGood, Lock!CanWrite
    <2> QED BY <1>2, <2>1, <2>3
  <1>4. ASSUME Lock!CanRead(l)
        PROVE  LockGood(Lock!RdLock(l)) /\ Lock!RdLock(l).readers <= l.readers + 1
    <2>1. CASE Lock!Overflows(l)
      BY <1>1, <2>1 DEF Lock!RdLock
    <2>2. CASE ~Lock!Overflows(l)
      <3>1. l.writer = NoThread
        BY <1>4, <2>2 DEF Lock!CanRead, LockGood
      <3>2. PICK n \in Int : n = l.readers + 1
        BY <1>1
      <3>3. Lock!RdLock(l) = [l EXCEPT !.readers = n, !.wrphase = FALSE]
        BY <2>2, <3>2 DEF Lock!RdLock
      <3>4. /\ Lock!RdLock(l).writer = NoThread /\ Lock!RdLock(l).wrphase = FALSE
            /\ Lock!RdLock(l).readers = n
        BY <3>1, <3>3 DEF Lock!Rwlocks
      <3> QED BY <3>2, <3>4 DEF LockGood
    <2> QED BY <2>1, <2>2
  <1> QED BY <1>2, <1>3, <1>4

(* Each step does one thing to one lock.                                   *)
Locks(t, i) ==
  \/ rwl' = [rwl EXCEPT ![i] = Lock!Unlock(@, t)]
  \/ Lock!CanWrite(rwl[i]) /\ rwl' = [rwl EXCEPT ![i] = Lock!Unlock(Lock!WrLock(@, t), t)]
  \/ Lock!CanWrite(rwl[i]) /\ rwl' = [rwl EXCEPT ![i] = Lock!WrLock(@, t)]
  \/ Lock!CanRead(rwl[i]) /\ rwl' = [rwl EXCEPT ![i] = Lock!RdLock(@)]

LEMMA LocksMove ==
  ASSUME TypeOK, CallInv, Next
  PROVE  rwl' = rwl \/ \E t \in Threads, i \in Inodes : Locks(t, i)
  <1>1. ASSUME NEW t \in Threads, call[t].pc = "idle", Begins(t) PROVE rwl' = rwl \/ \E i \in Inodes : Locks(t, i)
    <2>1. CASE OpenCreate(t) \/ \E fh \in Issued : TfsClose(t, fh)
      BY <2>1 DEF OpenCreate, TfsClose
    <2>2. ASSUME NEW i \in Files, NEW append \in BOOLEAN, OpenExisting(t, i, append) \/ OpenTruncate(t, i, append)
          PROVE  i \in Inodes /\ Locks(t, i)
      BY <2>2 DEF OpenExisting, OpenTruncate, Locks, Files
    <2>3. CASE Enter(t)
      <3>1. PICK i \in Inodes : i = call'[t].inum
        BY <2>3, EnterMoves
      <3> QED BY <2>3, <3>1, EnterMoves DEF Locks
    <2> QED BY <1>1, <2>1, <2>2, <2>3 DEF Begins, Enter
  <1>2. ASSUME NEW t \in Threads, GoesOn(t) PROVE rwl' = rwl \/ \E i \in Inodes : Locks(t, i)
    <2>1. CASE OpenTruncated(t)
      <3>1. call[t].inum \in Inodes
        BY <2>1 DEF OpenTruncated, CallInv, Good, Files
      <3> QED BY <2>1, <3>1 DEF OpenTruncated, Locks
    <2>2. CASE Alloc(t) \/ Fill(t) \/ CopyIn(t) \/ CopyOut(t) \/ Dies(t)
      BY <2>2 DEF Alloc, Fill, CopyIn, CopyOut, Dies
    <2>3. ASSUME Ends(t) PROVE \E i \in Inodes : Locks(t, i)
      <3>1. call[t].inum \in Inodes
        BY <2>3, LoopCall DEF Ends, InLoop, LoopPcs
      <3> QED BY <2>3, <3>1, EndsMove DEF Locks
    <2>4. CASE Store(t)
      BY <2>3, <2>4, StoreMoves DEF Works
    <2>5. CASE NoBlock(t) \/ WriteEnd(t) \/ ReadEnd(t)
      BY <2>3, <2>5 DEF NoBlock, WriteEnd, ReadEnd, InLoop, Ends
    <2> QED BY <1>2, <2>1, <2>2, <2>4, <2>5 DEF GoesOn
  <1> QED BY <1>1, <1>2 DEF Next

LEMMA NextLocks == TypeOK /\ CallInv /\ LocksGood /\ [Next]_vars => LocksGood'
  <1> SUFFICES ASSUME TypeOK, CallInv, LocksGood, [Next]_vars, NEW j \in Inodes PROVE LockGood(rwl'[j])
    BY DEF LocksGood
  <1>1. ASSUME NEW t \in Threads, NEW i \in Inodes, Locks(t, i) PROVE LockGood(rwl'[j])
    <2>1. PICK l \in Lock!Rwlocks(Threads) : l = rwl[i] /\ LockGood(l)
      BY DEF TypeOK, LocksGood
    <2>2. PICK m : rwl' = [rwl EXCEPT ![i] = m] /\ LockGood(m)
      BY <1>1, <2>1, LockOps DEF Locks
    <2>3. rwl'[j] = IF j = i THEN m ELSE rwl[j]
      BY <2>2 DEF TypeOK
    <2> QED BY <2>2, <2>3 DEF LocksGood
  <1>2. ASSUME rwl' = rwl PROVE LockGood(rwl'[j])
    BY <1>2 DEF LocksGood
  <1> QED BY <1>1, <1>2, LocksMove DEF vars

(* A file that is being read, and whose lock counts all who read it, is    *)
(* not written to, nor is it truncated.                                    *)
Counted(i) == rwl[i].readers >= Cardinality(Readers(i))

LEMMA ReadersFinite ==
  ASSUME NEW i PROVE IsFiniteSet(Readers(i)) /\ Cardinality(Readers(i)) \in Nat
  <1>1. Readers(i) \in SUBSET Threads
    BY DEF Readers
  <1>2. IsFiniteSet(Readers(i))
    BY <1>1, ThreadsAssumption, FS_Subset
  <1> QED BY <1>2, FS_CardinalityType

LEMMA ReadersFiniteThen ==
  ASSUME NEW i PROVE IsFiniteSet(Readers(i)') /\ Cardinality(Readers(i)') \in Nat
  <1>1. Readers(i)' \in SUBSET Threads
    BY DEF Readers
  <1>2. IsFiniteSet(Readers(i)')
    BY <1>1, ThreadsAssumption, FS_Subset
  <1> QED BY <1>2, FS_CardinalityType

LEMMA SomeReader == ASSUME NEW R, IsFiniteSet(R), NEW t \in R PROVE Cardinality(R) >= 1
  <1>1. Cardinality(R) \in Nat
    BY FS_CardinalityType
  <1>2. Cardinality(R) # 0
    BY FS_EmptySet
  <1> QED BY <1>1, <1>2

LEMMA ReadersAlone ==
  ASSUME TypeOK, LocksGood, NEW i \in Inodes, Counted(i), NEW t \in Readers(i)
  PROVE  rwl[i].writer = NoThread /\ ~Lock!CanWrite(rwl[i])
  <1>1. Cardinality(Readers(i)) \in Nat /\ Cardinality(Readers(i)) >= 1
    BY ReadersFinite, SomeReader
  <1>2. rwl[i].readers \in Int
    BY DEF TypeOK, Lock!Rwlocks
  <1>3. rwl[i].readers >= 1
    BY <1>1, <1>2 DEF Counted
  <1> QED BY <1>2, <1>3 DEF LocksGood, LockGood, Lock!CanWrite

(* A lock that counts its readers after a step has done so before it.      *)
LEMMA CountedFrom ==
  ASSUME TypeOK, TypeOK', NEW i \in Inodes, NEW u \in Threads, \A v \in Threads \ {u} : call'[v] = call[v],
         Counted(i)',
         \/ (u \in Readers(i)' <=> u \in Readers(i)) /\ rwl'[i].readers <= rwl[i].readers
         \/ u \notin Readers(i) /\ u \in Readers(i)' /\ rwl'[i].readers <= rwl[i].readers + 1
         \/ u \in Readers(i) /\ u \notin Readers(i)' /\ rwl'[i].readers = rwl[i].readers - 1
  PROVE  Counted(i)
  <1>1. PICK R, Q : R = Readers(i) /\ Q = Readers(i)'
    OBVIOUS
  <1>2. R \subseteq Threads /\ Q \subseteq Threads /\ \A v \in Threads \ {u} : v \in Q <=> v \in R
    BY <1>1 DEF Readers, Doing, InLoop
  <1>3. IsFiniteSet(R) /\ Cardinality(R) \in Nat /\ Cardinality(Q) \in Nat
    BY <1>1, ReadersFinite, ReadersFiniteThen
  <1>4. rwl[i].readers \in Int /\ rwl'[i].readers \in Int
    BY DEF TypeOK, Lock!Rwlocks
  <1>5. rwl'[i].readers >= Cardinality(Q)
    BY <1>1 DEF Counted
  <1>6. CASE (u \in Q <=> u \in R) /\ rwl'[i].readers <= rwl[i].readers
    <2>1. Q = R
      BY <1>2, <1>6
    <2> QED BY <1>1, <1>3, <1>4, <1>5, <1>6, <2>1 DEF Counted
  <1>7. CASE u \notin R /\ u \in Q /\ rwl'[i].readers <= rwl[i].readers + 1
    <2>1. Q = R \cup {u}
      BY <1>2, <1>7
    <2>2. Cardinality(Q) = Cardinality(R) + 1
      BY <1>3, <1>7, <2>1, FS_AddElement
    <2> QED BY <1>1, <1>3, <1>4, <1>5, <1>7, <2>2 DEF Counted
  <1>8. CASE u \in R /\ u \notin Q /\ rwl'[i].readers = rwl[i].readers - 1
    <2>1. Q = R \ {u}
      BY <1>2, <1>8
    <2>2. Cardinality(Q) = Cardinality(R) - 1
      BY <1>3, <1>8, <2>1, FS_RemoveElement
    <2> QED BY <1>1, <1>3, <1>4, <1>5, <1>8, <2>2 DEF Counted
  <1> QED BY <1>1, <1>6, <1>7, <1>8

LEMMA OpensLock ==
  ASSUME TypeOK, CallInv, LocksGood, NEW t \in Threads, Opens(t), NEW j \in Inodes
  PROVE  rwl'[j].readers <= rwl[j].readers
  <1>1. rwl[j].readers \in Int
    BY DEF TypeOK, Lock!Rwlocks
  <1>2. CASE rwl' = rwl
    BY <1>1, <1>2
  <1>3. ASSUME NEW i \in Inodes,
               \/ rwl' = [rwl EXCEPT ![i] = Lock!Unlock(@, t)]
               \/ Lock!CanWrite(rwl[i]) /\ rwl' = [rwl EXCEPT ![i] = Lock!Unlock(Lock!WrLock(@, t), t)]
        PROVE  rwl'[j].readers <= rwl[j].readers
    <2>1. PICK l \in Lock!Rwlocks(Threads) : l = rwl[i] /\ LockGood(l) /\ l.readers \in Int
      BY DEF TypeOK, LocksGood, Lock!Rwlocks
    <2>2. PICK m : rwl' = [rwl EXCEPT ![i] = m] /\ m.readers <= l.readers
      BY <1>3, <2>1, LockOps
    <2>3. rwl'[j] = IF j = i THEN m ELSE rwl[j]
      BY <2>2 DEF TypeOK
    <2> QED BY <1>1, <2>1, <2>2, <2>3
  <1>4. CASE OpenTruncated(t)
    <2>1. call[t].inum \in Inodes
      BY <1>4 DEF OpenTruncated, CallInv, Good, Files
    <2> QED BY <1>3, <1>4, <2>1 DEF OpenTruncated
  <1>5. ASSUME NEW i \in Files, NEW append \in BOOLEAN, OpenExisting(t, i, append) \/ OpenTruncate(t, i, append)
        PROVE  rwl'[j].readers <= rwl[j].readers
    BY <1>3, <1>5 DEF OpenExisting, OpenTruncate, Files
  <1>6. CASE OpenCreate(t) \/ \E fh \in Issued : TfsClose(t, fh)
    BY <1>2, <1>6 DEF OpenCreate, TfsClose
  <1> QED BY <1>4, <1>5, <1>6 DEF Opens

LEMMA CountedBack ==
  ASSUME TypeOK, TypeOK', CallInv, LocksGood, Next, damage' = {}, \A u \in Threads : ~Dies(u),
         NEW i \in Inodes, Counted(i)', NEW t \in Readers(i)'
  PROVE  t \in Readers(i) => Counted(i)
  <1>1. PICK u \in Threads :
           \/ Opens(u) \/ Enter(u) \/ Ends(u)
           \/ /\ SameCall(u) /\ rwl' = rwl /\ \A v \in Threads \ {u} : call'[v] = call[v]
    BY StepIs, CopyInMoves, CopyOutMoves DEF Works
  <1>2. rwl[i].readers \in Int /\ rwl'[i].readers \in Int /\ rwl[i] \in Lock!Rwlocks(Threads) /\ LockGood(rwl[i])
    BY DEF TypeOK, Lock!Rwlocks, LocksGood
  <1>3. CASE Opens(u)
    <2>1. call'[u].pc \in {"idle", "truncated"} /\ \A v \in Threads \ {u} : call'[v] = call[v]
      BY <1>3, OpensMove
    <2>2. u \notin Readers(i) /\ u \notin Readers(i)'
      BY <1>3, <2>1 DEF Opens, OpenTruncated, Readers, Doing, InLoop
    <2> QED BY <1>3, <2>1, <2>2, OpensLock, CountedFrom
  <1>4. CASE Enter(u)
    <2>1. PICK j \in Inodes : j = call'[u].inum
      BY <1>4, EnterMoves
    <2>2. /\ \A v \in Threads \ {u} : call'[v] = call[v]
          /\ \/ Lock!CanRead(rwl[j]) /\ call'[u].op = "read" /\ rwl' = [rwl EXCEPT ![j] = Lock!RdLock(@)]
             \/ call'[u].op = "write" /\ rwl' = [rwl EXCEPT ![j] = Lock!WrLock(@, u)]
      BY <1>4, <2>1, EnterMoves
    <2>3. u \notin Readers(i)
      BY <1>4 DEF Enter, Readers, Doing, InLoop
    <2>4. CASE i # j
      <3>1. u \notin Readers(i)' /\ rwl'[i] = rwl[i]
        BY <2>1, <2>2, <2>4 DEF Readers, TypeOK
      <3> QED BY <1>2, <2>2, <2>3, <3>1, CountedFrom
    <2>5. CASE i = j /\ call'[u].op = "write"
      <3>1. rwl'[i] = Lock!WrLock(rwl[i], u)
        BY <2>2, <2>5 DEF TypeOK
      <3>2. rwl'[i].readers <= rwl[i].readers
        BY <1>2, <3>1, RwlockOps
      <3>3. u \notin Readers(i)'
        BY <2>5 DEF Readers, Doing
      <3> QED BY <2>2, <2>3, <3>2, <3>3, CountedFrom
    <2>6. CASE i = j /\ call'[u].op = "read"
      <3>1. rwl'[i] = Lock!RdLock(rwl[i]) /\ Lock!CanRead(rwl[i])
        BY <2>2, <2>6 DEF TypeOK
      <3>2. u \in Readers(i)' /\ rwl'[i].readers <= rwl[i].readers + 1
        <4>1. call'[u].pc = "run"
          BY <1>4, EnterMoves
        <4> QED BY <1>2, <2>1, <2>6, <3>1, <4>1, LockOps DEF Readers, Doing, InLoop
      <3> QED BY <1>2, <2>2, <2>3, <3>2, CountedFrom
    <2> QED BY <2>2, <2>4, <2>5, <2>6
  <1>5. CASE Ends(u)
    <2>1. PICK j \in Inodes : j = call[u].inum
      BY <1>5, LoopCall DEF Ends, InLoop, LoopPcs
    <2>2. /\ call'[u].pc = "idle" /\ \A v \in Threads \ {u} : call'[v] = call[v]
          /\ rwl' = [rwl EXCEPT ![j] = Lock!Unlock(@, u)]
      BY <1>5, <2>1, EndsMove
    <2>3. u \notin Readers(i)'
      BY <2>2 DEF Readers, Doing, InLoop
    <2>4. CASE i # j
      <3>1. u \notin Readers(i) /\ rwl'[i] = rwl[i]
        BY <2>1, <2>2, <2>4 DEF Readers, TypeOK
      <3> QED BY <1>2, <2>2, <2>3, <3>1, CountedFrom
    <2>5. CASE i = j
      <3>1. /\ rwl'[i].readers <= rwl[i].readers
            /\ rwl[i].writer # u => rwl'[i].readers = rwl[i].readers - 1
        <4>1. rwl'[i] = Lock!Unlock(rwl[i], u)
          BY <2>2, <2>5 DEF TypeOK
        <4> QED BY <1>2, <4>1, LockOps
      <3>2. CASE rwl[i].writer = u
        <4>1. rwl[i].readers <= 0
          BY <1>2, <3>2, Sizes DEF LockGood
        <4>2. Cardinality(Readers(i)') \in Nat /\ Cardinality(Readers(i)') >= 1
          BY ReadersFiniteThen, SomeReader
        <4> QED BY <1>2, <3>1, <4>1, <4>2 DEF Counted
      <3>3. CASE rwl[i].writer # u
        BY <1>2, <2>2, <2>3, <3>1, <3>3, CountedFrom
      <3> QED BY <3>2, <3>3
    <2> QED BY <2>4, <2>5
  <1>6. CASE SameCall(u) /\ rwl' = rwl /\ \A v \in Threads \ {u} : call'[v] = call[v]
    <2>1. u \in Readers(i)' <=> u \in Readers(i)
      BY <1>6 DEF SameCall, Readers, Doing
    <2> QED BY <1>2, <1>6, <2>1, CountedFrom
  <1> QED BY <1>1, <1>3, <1>4, <1>5, <1>6

----------------------------------------------------------------------------
(* What a read has put into its buffer is there. Its handle has moved by   *)
(* as much ...                                                             *)
BufferFills ==
  damage = {} =>
    \A t \in Threads : Doing(t, "read") => Offset(t) = call[t].start + Len(call[t].buffer)

BuffersSeq == \A t \in Threads : InLoop(t) => call[t].buffer \in Seq(Int)
LEMMA BuffersTyped == TypeOK => BuffersSeq
  BY LoopCall DEF BuffersSeq, InLoop, LoopPcs
LEMMA BuffersTypedThen == TypeOK' => BuffersSeq'
  BY BuffersTyped, PTL

LEMMA FillsStep ==
  ASSUME TypeOK, TypeOK', CallInv, OwnInv, DeadInv', BufferFills, Next, damage' = {},
         NEW t \in Threads, Doing(t, "read")'
  PROVE  Offset(t)' = call'[t].start + Len(call'[t].buffer)
  <1>0. InLoop(t)' /\ call'[t].op = "read"
    BY DEF Doing
  <1>1. ~Dead' /\ damage = {}
    BY <1>0, StillAlive
  <1>2. ASSUME SameCall(t)
        PROVE  /\ Offset(t) = call[t].start + Len(call[t].buffer) /\ call'[t].start = call[t].start
               /\ call[t].start \in Nat /\ call[t].buffer \in Seq(Int)
    <2>1. Doing(t, "read") /\ call'[t].start = call[t].start
      BY <1>0, <1>2 DEF SameCall, Doing
    <2> QED BY <1>1, <2>1, OffsetsTyped, BuffersTyped DEF BufferFills, OffsetsNat, BuffersSeq, Doing
  <1>3. CASE Enter(t)
    <2>1. call'[t].buffer = <<>> /\ call'[t].start = Offset(t)'
      BY <1>3, EnterMoves
    <2>2. call'[t].start \in Nat
      BY <1>0, OffsetsTypedThen DEF OffsetsNat
    <2> QED BY <2>1, <2>2
  <1>4. ~CopyIn(t)
    BY <1>0, CopyInMoves DEF CopyIn, Copying, SameCall
  <1>5. CASE CopyOut(t)
    <2>1. PICK s \in Seq(Int) : call'[t].buffer = call[t].buffer \o s /\ Len(s) = Chunk(t)
      BY <1>5, CopyOutMoves
    <2>2. SameCall(t) /\ Offset(t)' = Offset(t) + Chunk(t)
      BY <1>5, CopyOutMoves
    <2>3. Len(call'[t].buffer) = Len(call[t].buffer) + Chunk(t)
      <3>1. PICK r \in Seq(Int) : r = call[t].buffer
        BY <1>2, <2>2
      <3>2. Len(r \o s) = Len(r) + Len(s)
        OBVIOUS
      <3> QED BY <2>1, <3>1, <3>2
    <2>4. Chunk(t) \in Nat /\ Len(call[t].buffer) \in Nat
      BY <1>2, <2>1, <2>2
    <2> QED BY <1>2, <2>2, <2>3, <2>4
  <1>6. CASE SameCall(t) /\ Offset(t)' = Offset(t) /\ call'[t].buffer = call[t].buffer
    BY <1>2, <1>6
  <1> QED BY <1>0, <1>1, <1>3, <1>4, <1>5, <1>6, CallsFrom

(* ... and, while the lock counts its readers, its file does not change.   *)
ReadInv ==
  damage = {} =>
    \A t \in Threads, i \in Files : t \in Readers(i) /\ Counted(i) =>
      \A k \in Nat : 1 <= k /\ k <= Len(call[t].buffer) =>
        LET n == call[t].start + k - 1
        IN  n < MAX_FILE_SIZE /\ HasCell(i, n) /\ call[t].buffer[k] = CellAt(i, n)

(* The cells that a copy adds to the buffer.                               *)
LEMMA CopyOutContents ==
  ASSUME TypeOK, CallInv, Owned, BufferFills, NEW t \in Threads, CopyOut(t), damage = {}, damage' = {},
         NEW i \in Files, i = call[t].inum, NEW k \in Nat, Len(call[t].buffer) < k, k <= Len(call'[t].buffer),
         NEW n, n = call[t].start + k - 1
  PROVE  n \in Nat /\ n < MAX_FILE_SIZE /\ HasCell(i, n) /\ call'[t].buffer[k] = CellAt(i, n)
  <1>1. Copying(t, "read") /\ Doing(t, "read") /\ call[t].pc \in LoopPcs
    BY DEF CopyOut, Copying, Doing, InLoop, LoopPcs
  <1>2. PICK b \in Blocks, s \in Seq(Int) :
          /\ b = At(i, Here(t)) /\ call'[t].buffer = call[t].buffer \o s /\ Len(s) = Chunk(t)
          /\ \A j \in 1 .. Chunk(t) : s[j] = fs_data[b][InBlock(t) + j - 1]
    BY CopyOutMoves
  <1>3. PICK r \in Seq(Int) : r = call[t].buffer
    BY <1>1, LoopCall
  <1>4. PICK c \in Nat, x \in Nat : c = Chunk(t) /\ x = InBlock(t)
    BY <1>1, ChunkFits, Sizes
  <1>5. PICK d \in Nat : d = k - Len(r) - 1 /\ d < c /\ d + 1 \in 1 .. c /\ call'[t].buffer[k] = s[d + 1]
    <2>1. PICK m \in Nat : m = Len(r)
      OBVIOUS
    <2>2. Len(s) = c /\ call'[t].buffer = r \o s
      BY <1>2, <1>3, <1>4
    <2>3. m < k /\ k <= m + c
      BY <1>3, <2>1, <2>2
    <2>4. PICK d \in Nat : d = k - m - 1 /\ d < c /\ d + 1 \in 1 .. c /\ d + 1 = k - m
      BY <2>3
    <2>5. (r \o s)[k] = s[k - m]
      BY <2>1, <2>2, <2>3
    <2> QED BY <2>1, <2>2, <2>4, <2>5
  <1>6. n = Offset(t) + d
    <2>1. Offset(t) = call[t].start + Len(r) /\ call[t].start \in Nat /\ Len(r) \in Nat
      BY <1>1, <1>3, LoopCall DEF BufferFills
    <2> QED BY <1>5, <2>1
  <1>7. PICK a, l :
          /\ Kept(i, a, l) = b /\ HasRef(i, n, a, l) /\ n \in Nat /\ n < MAX_FILE_SIZE /\ n % BLOCK_SIZE = x + d
    BY <1>1, <1>2, <1>4, <1>5, <1>6, CopyCells
  <1>8. CellAt(i, n) = fs_data[b][x + d]
    BY <1>7, CellsAreRead DEF CellsRead
  <1>9. s[d + 1] = fs_data[b][x + d]
    <2>1. PICK e \in 1 .. c : e = d + 1 /\ x + e - 1 = x + d
      BY <1>4, <1>5
    <2>2. s[e] = fs_data[b][x + e - 1]
      BY <1>2, <1>4
    <2> QED BY <2>1, <2>2
  <1> QED BY <1>5, <1>7, <1>8, <1>9 DEF HasCell

LEMMA ReadStep ==
  ASSUME TypeOK, TypeOK', CallInv, OwnInv, DeadInv', LocksGood, BufferFills, ReadInv, Next, damage' = {},
         NEW i, NEW t \in Readers(i)', Counted(i)', NEW k \in Nat, 1 <= k, k <= Len(call'[t].buffer),
         NEW n, n = call'[t].start + k - 1
  PROVE  n < MAX_FILE_SIZE /\ HasCell(i, n)' /\ call'[t].buffer[k] = CellAt(i, n)'
  <1>0. InLoop(t)' /\ call'[t].op = "read" /\ call'[t].inum = i /\ t \in Threads
    BY DEF Doing, Readers
  <1>1. ~Dead' /\ damage = {} /\ Owned /\ \A u \in Threads : ~Dies(u)
    BY <1>0, StillAlive
  <1>2. ~Enter(t)
    <2>1. Enter(t) => Len(call'[t].buffer) = 0
      BY <1>0, EnterMoves
    <2> QED BY <2>1
  <1>3. ~CopyIn(t)
    BY <1>0, CopyInMoves DEF CopyIn, Copying, SameCall
  <1>4. SameCall(t) /\ (CopyOut(t) \/ call'[t].buffer = call[t].buffer)
    BY <1>0, <1>1, <1>2, <1>3, CallsFrom, CopyOutMoves
  <1>5. t \in Readers(i) /\ i = call[t].inum /\ call'[t].start = call[t].start
    BY <1>0, <1>4 DEF SameCall, Readers, Doing
  <1>6. i \in Files /\ i \in Inodes
    BY <1>5 DEF Readers, Doing, CallInv, Good, Files
  <1>7. Counted(i)
    BY <1>1, <1>5, <1>6, CountedBack
  <1>8. n \in Nat /\ n < MAX_FILE_SIZE /\ HasCell(i, n) /\ call'[t].buffer[k] = CellAt(i, n)
    <2>1. call[t].start \in Nat /\ call[t].buffer \in Seq(Int)
      BY <1>4, OffsetsTyped, BuffersTyped, <1>0 DEF OffsetsNat, BuffersSeq, SameCall
    <2>2. n \in Nat
      BY <1>5, <2>1
    <2>3. k <= Len(call[t].buffer) =>
            n < MAX_FILE_SIZE /\ HasCell(i, n) /\ call[t].buffer[k] = CellAt(i, n)
      BY <1>0, <1>1, <1>5, <1>6, <1>7 DEF ReadInv
    <2>4. CASE CopyOut(t)
      <3>1. CASE k <= Len(call[t].buffer)
        <4>1. PICK s \in Seq(Int) : call'[t].buffer = call[t].buffer \o s
          BY <1>0, <2>4, CopyOutMoves
        <4>2. (call[t].buffer \o s)[k] = call[t].buffer[k]
          BY <2>1, <3>1
        <4> QED BY <2>2, <2>3, <3>1, <4>1, <4>2
      <3>2. CASE Len(call[t].buffer) < k
        BY <1>0, <1>1, <1>5, <1>6, <2>4, <3>2, CopyOutContents
      <3>3. Len(call[t].buffer) \in Nat
        BY <2>1
      <3> QED BY <3>1, <3>2, <3>3
    <2> QED BY <1>4, <2>2, <2>3, <2>4
  <1>9. rwl[i].writer = NoThread /\ ~Lock!CanWrite(rwl[i])
    BY <1>5, <1>6, <1>7, ReadersAlone
  <1>10. ASSUME NEW u \in Threads, CopyIn(u) PROVE i # call[u].inum
    <2>1. Doing(u, "write")
      BY <1>10 DEF CopyIn, Copying, Doing, InLoop
    <2> QED BY <1>6, <1>9, <2>1, NobodyWrites
  <1>11. ASSUME NEW u \in Threads, NEW append \in BOOLEAN, OpenTruncate(u, i, append) PROVE FALSE
    BY <1>9, <1>11 DEF OpenTruncate
  <1>12. HasCell(i, n)' /\ CellAt(i, n)' = CellAt(i, n)
    BY <1>1, <1>6, <1>8, <1>10, <1>11, ContentsStep
  <1> QED BY <1>8, <1>12

LEMMA NextRead ==
  TypeOK /\ TypeOK' /\ CallInv /\ OwnInv /\ DeadInv' /\ LocksGood /\ BufferFills /\ ReadInv /\ [Next]_vars =>
    BufferFills' /\ ReadInv'
  <1>1. ASSUME TypeOK, TypeOK', CallInv, OwnInv, DeadInv', LocksGood, BufferFills, ReadInv, Next
        PROVE  BufferFills' /\ ReadInv'
    <2>1. BufferFills'
      BY <1>1, FillsStep DEF BufferFills
    <2>2. ReadInv'
      <3> SUFFICES ASSUME damage' = {}, NEW t \in Threads, NEW i \in Files', t \in Readers(i)', Counted(i)',
                          NEW k \in Nat, 1 <= k, k <= Len(call'[t].buffer),
                          NEW n, n = call'[t].start + k - 1
                   PROVE  n < MAX_FILE_SIZE /\ HasCell(i, n)' /\ call'[t].buffer[k] = CellAt(i, n)'
        BY DEF ReadInv
      <3> QED BY <1>1, ReadStep
    <2> QED BY <2>1, <2>2
  <1>2. ASSUME BufferFills, ReadInv, UNCHANGED vars PROVE BufferFills' /\ ReadInv'
    <2>1. ASSUME NEW i, NEW k PROVE (HasCell(i, k)' <=> HasCell(i, k)) /\ CellAt(i, k)' = CellAt(i, k)
      BY <1>2 DEF vars, tables, HasCell, HasRef, InFile, IsPlace, Kept, Files, Indirect, Filled, Place,
                  CellAt, At
    <2>2. /\ \A t \in Threads : (Doing(t, "read")' <=> Doing(t, "read")) /\ Offset(t)' = Offset(t)
          /\ \A i : Readers(i)' = Readers(i)
      BY <1>2 DEF vars, handles, Doing, InLoop, Offset, Readers
    <2>3. call' = call /\ Files' = Files /\ damage' = damage /\ \A i : Counted(i)' <=> Counted(i)
      BY <1>2, <2>2 DEF vars, tables, Files, Counted
    <2>4. BufferFills'
      BY <1>2, <2>2, <2>3 DEF BufferFills
    <2>5. ReadInv'
      BY <1>2, <2>1, <2>2, <2>3 DEF ReadInv
    <2> QED BY <2>4, <2>5
  <1> QED BY <1>1, <1>2

LEMMA ReadAlways == Spec => [](TypeOK /\ CallInv /\ ReadInv)
  <1>1. Init => BufferFills /\ ReadInv
    BY DEF Init, BufferFills, ReadInv, Readers, Doing, InLoop, Idle
  <1>2. Init => LocksGood
    BY Sizes DEF Init, LocksGood, LockGood, Lock!NewLock
  <1> QED BY <1>1, <1>2, NextLocks, NextRead, ContentsInv, PTL DEF Spec

LEMMA ReadNow == ASSUME TypeOK, CallInv, ReadInv PROVE ReadSoFar
  <1> SUFFICES ASSUME damage = {}, NEW t \in Threads, Doing(t, "read"),
                      rwl[call[t].inum].readers >= Cardinality(Readers(call[t].inum)),
                      NEW k \in 1 .. Len(call[t].buffer)
               PROVE  call[t].buffer[k] = CellAt(call[t].inum, call[t].start + k - 1)
    BY DEF ReadSoFar
  <1>1. PICK i \in Files : i = call[t].inum
    BY DEF CallInv, Good, Doing
  <1>2. t \in Readers(i) /\ Counted(i)
    BY <1>1 DEF Readers, Counted
  <1>3. k \in Nat /\ 1 <= k /\ k <= Len(call[t].buffer)
    BY BuffersTyped DEF BuffersSeq, Doing
  <1> QED BY <1>1, <1>2, <1>3 DEF ReadInv

(* What a read has put into its buffer is what its file holds, as long as  *)
(* the file's lock counts all who read it: nobody writes to the file, nor  *)
(* truncates it, with any number of threads that read it at a time.        *)
THEOREM ReadIsThere == Spec => []ReadSoFar
  BY ReadAlways, ReadNow, PTL
=============================================================================

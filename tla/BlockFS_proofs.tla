--------------------------- MODULE BlockFS_proofs ---------------------------
(* The safety of BlockFS, for any number of threads, files, handles and    *)
(* blocks of any size.                                                     *)
EXTENDS BlockFS, TLAPS, FiniteSetTheorems, NaturalsInduction, WellFoundedInduction

----------------------------------------------------------------------------
(* Blocks and offsets.                                                     *)
LEMMA DivMod ==
  ASSUME NEW n \in Nat, NEW b \in Nat \ {0}
  PROVE  n \div b \in Nat /\ n % b \in 0 .. b - 1 /\ n = b * (n \div b) + (n % b)
  <1>1. n \in Int /\ b \in Int /\ b > 0
    OBVIOUS
  <1>2. n = b * (n \div b) + (n % b)
    BY <1>1, SMTT(60)
  <1>3. n \div b \in Int /\ n % b \in 0 .. b - 1
    OBVIOUS
  <1>4. ASSUME n \div b < 0 PROVE FALSE
    <2>1. b * (n \div b) + b <= b * 0
      BY <1>3, <1>4
    <2> QED BY <1>2, <1>3, <2>1
  <1> QED BY <1>2, <1>3, <1>4

LEMMA FartherBlock ==
  ASSUME NEW b \in Nat \ {0}, NEW q \in Int, NEW p \in Int, q < p
  PROVE  b * q + b <= b * p
  OBVIOUS

LEMMA DivUnique ==
  ASSUME NEW b \in Nat \ {0}, NEW q \in Int, NEW r \in 0 .. b - 1, NEW p \in Int, NEW s \in 0 .. b - 1,
         b * q + r = b * p + s
  PROVE  q = p /\ r = s
  <1>1. CASE q < p
    BY <1>1, FartherBlock
  <1>2. CASE p < q
    BY <1>2, FartherBlock
  <1> QED BY <1>1, <1>2

(* Up to the end of its block an offset stays in it.                       *)
LEMMA SameBlock ==
  ASSUME NEW n \in Nat, NEW b \in Nat \ {0}, NEW d \in Nat, (n % b) + d < b
  PROVE  (n + d) \div b = n \div b /\ (n + d) % b = (n % b) + d
  <1> DEFINE q == n \div b
             r == n % b
             p == (n + d) \div b
             z == (n + d) % b
  <1>1. q \in Nat /\ r \in 0 .. b - 1 /\ n = b * q + r
    BY DivMod
  <1>2. n + d \in Nat
    OBVIOUS
  <1>3. p \in Nat /\ z \in 0 .. b - 1 /\ n + d = b * p + z
    BY <1>2, DivMod
  <1>4. r + d < b
    OBVIOUS
  <1> HIDE DEF q, r, p, z
  <1>5. r + d \in 0 .. b - 1 /\ b * q \in Nat /\ n + d = b * q + (r + d)
    BY <1>1, <1>4
  <1>6. p = q /\ z = r + d
    BY <1>1, <1>3, <1>5, DivUnique
  <1> QED BY <1>6 DEF q, r, p, z

LEMMA BlockBelow ==
  ASSUME NEW n \in Nat, NEW b \in Nat \ {0}, NEW c \in Nat, n < c * b
  PROVE  n \div b < c
  <1>1. n \div b \in Nat /\ n % b \in 0 .. b - 1 /\ n = b * (n \div b) + (n % b)
    BY DivMod
  <1>2. ASSUME c <= n \div b PROVE FALSE
    <2>1. b * c <= b * (n \div b)
      BY <1>1, <1>2
    <2> QED BY <1>1, <1>2, <2>1
  <1> QED BY <1>1, <1>2

LEMMA NatLeast ==
  ASSUME NEW S, S \subseteq Nat, NEW m \in S
  PROVE  \E k \in S : \A j \in S : k <= j
  <1> DEFINE R == OpToRel(<, Nat)
  <1>1. IsWellFoundedOn(R, Nat)
    BY NatLessThanWellFounded
  <1>2. \A x, y \in Nat : <<y, x>> \in R <=> y < x
    BY DEF OpToRel
  <1> HIDE DEF R
  <1>3. PICK k \in S : \A j \in S : ~ (<<j, k>> \in R)
    BY <1>1, WFMin
  <1>4. ASSUME NEW j \in S PROVE k <= j
    <2>1. ~(j < k)
      BY <1>2, <1>3
    <2> QED BY <2>1
  <1> QED BY <1>4

(* The truncation's loop stops at the first reference that is none.        *)
LEMMA FreedStops ==
  ASSUME NEW refs, NEW n \in Nat
  PROVE  /\ Freed(refs, n) \in 0 .. n
         /\ \A j \in 0 .. Freed(refs, n) - 1 : refs[j] \in Blocks
         /\ Freed(refs, n) < n => refs[Freed(refs, n)] \notin Blocks
  <1> DEFINE Stop(k) == /\ \A j \in 0 .. k - 1 : refs[j] \in Blocks
                        /\ k < n => refs[k] \notin Blocks
             S == {j \in 0 .. n : j < n => refs[j] \notin Blocks}
  <1>1. n \in S /\ S \subseteq Nat
    OBVIOUS
  <1>2. PICK k \in S : \A j \in S : k <= j
    BY <1>1, NatLeast
  <1>3. k \in 0 .. n /\ Stop(k)
    <2>1. ASSUME NEW j \in 0 .. k - 1 PROVE refs[j] \in Blocks
      <3>1. j \notin S
        BY <1>2
      <3> QED BY <3>1
    <2> QED BY <2>1
  <1>4. Freed(refs, n) = CHOOSE j \in 0 .. n : Stop(j)
    BY DEF Freed
  <1> HIDE DEF Stop
  <1>5. Freed(refs, n) \in 0 .. n /\ Stop(Freed(refs, n))
    BY <1>3, <1>4
  <1> QED BY <1>5 DEF Stop

LEMMA RwlockOps ==
  ASSUME NEW l \in Lock!Rwlocks(Threads), NEW t \in Threads
  PROVE  /\ Lock!WrLock(l, t) \in Lock!Rwlocks(Threads) /\ Lock!WrLock(l, t).writer = t
         /\ Lock!RdLock(l) \in Lock!Rwlocks(Threads) /\ Lock!RdLock(l).writer = l.writer
         /\ Lock!Unlock(l, t) \in Lock!Rwlocks(Threads)
         /\ Lock!Unlock(l, t).writer = IF l.writer = t THEN NoThread ELSE l.writer
         /\ Lock!WrLock(l, t).readers = l.readers /\ Lock!Unlock(l, t).readers <= l.readers
  <1>1. /\ Lock!WrLock(l, t) \in Lock!Rwlocks(Threads) /\ Lock!WrLock(l, t).writer = t
        /\ Lock!WrLock(l, t).readers = l.readers
    BY DEF Lock!Rwlocks, Lock!WrLock
  <1>2. /\ Lock!RdLock(l) \in Lock!Rwlocks(Threads) /\ Lock!RdLock(l).writer = l.writer
    <2>1. CASE Lock!Overflows(l)
      BY <2>1 DEF Lock!RdLock
    <2>2. CASE ~Lock!Overflows(l)
      <3> DEFINE more == l.readers + 1
      <3>1. Lock!RdLock(l) = [l EXCEPT !.readers = more, !.wrphase = FALSE]
        BY <2>2 DEF Lock!RdLock
      <3>2. more \in Int
        BY DEF Lock!Rwlocks
      <3> HIDE DEF more
      <3> QED BY <3>1, <3>2 DEF Lock!Rwlocks
    <2> QED BY <2>1, <2>2
  <1>3. /\ Lock!Unlock(l, t) \in Lock!Rwlocks(Threads)
        /\ Lock!Unlock(l, t).writer = IF l.writer = t THEN NoThread ELSE l.writer
        /\ Lock!Unlock(l, t).readers <= l.readers
    <2> DEFINE last == l.readers = 0
    <2>1. CASE l.writer = t
      <3>1. Lock!Unlock(l, t) = [l EXCEPT !.writer = NoThread, !.wrphase = last]
        BY <2>1 DEF Lock!Unlock
      <3>2. last \in BOOLEAN
        OBVIOUS
      <3>3. l.readers \in Int
        BY DEF Lock!Rwlocks
      <3> HIDE DEF last
      <3>4. Lock!Unlock(l, t).writer = NoThread /\ Lock!Unlock(l, t).readers = l.readers
            /\ Lock!Unlock(l, t) \in Lock!Rwlocks(Threads)
        BY <3>1, <3>2 DEF Lock!Rwlocks
      <3> QED BY <2>1, <3>3, <3>4
    <2>2. CASE l.writer # t
      <3>1. Lock!Unlock(l, t) = [l EXCEPT !.readers = @ - 1]
        BY <2>2 DEF Lock!Unlock
      <3> QED BY <2>2, <3>1 DEF Lock!Rwlocks
    <2> QED BY <2>1, <2>2
  <1> QED BY <1>1, <1>2, <1>3

----------------------------------------------------------------------------
(* Type correctness.                                                       *)

LoopPcs == {"run", "got", "use", "fill"}
LoopCalls ==
  [pc : LoopPcs, op : {"write", "read"}, fh : Handles, inum : Inodes, byte : Data \cup {0},
   left : Nat, start : Nat, size : Nat, buffer : Seq(Int), place : References, block : Blocks \cup {-1}]
TruncatedCalls == [pc : {"truncated"}, inum : Inodes, append : BOOLEAN]

LEMMA CallKinds ==
  ASSUME TypeOK, NEW t \in Threads
  PROVE  /\ call[t].pc \in LoopPcs => call[t] \in LoopCalls
         /\ call[t].pc = "truncated" => call[t] \in TruncatedCalls
         /\ call[t].pc \in LoopPcs \cup {"truncated", "idle", "dead"}
  <1>1. call[t] \in [pc : {"idle", "dead"}] \cup TruncatedCalls \cup LoopCalls
    BY DEF TypeOK, Calls, TruncatedCalls, LoopCalls, LoopPcs
  <1> QED BY <1>1 DEF TruncatedCalls, LoopCalls, LoopPcs

LEMMA CallMoves ==
  ASSUME TypeOK, NEW t \in Threads, NEW c \in {Idle} \cup TruncatedCalls \cup LoopCalls,
         call' = [call EXCEPT ![t] = c]
  PROVE  call' \in [Threads -> Calls] /\ call'[t] = c /\ \A u \in Threads \ {t} : call'[u] = call[u]
  <1>1. c \in Calls
    BY DEF Calls, TruncatedCalls, LoopCalls, LoopPcs, Idle
  <1> QED BY <1>1 DEF TypeOK

LEMMA Sizes ==
  /\ BLOCK_SIZE \in Nat \ {0} /\ INDIRECT_ACCESS_BLOCK \in Nat \ {0} /\ MAX_CALLS \in Nat
  /\ 0 \in Blocks /\ 0 \in Cells /\ INDIRECT_ACCESS_BLOCK \in BlockRefs
  /\ Data \subseteq Int /\ NoThread \notin Threads
  /\ Blocks \subseteq Nat /\ Cells \subseteq Nat /\ BlockRefs \subseteq Nat
  BY SizesAssumption, DataAssumption, ThreadsAssumption DEF Blocks, Cells, BlockRefs

(* Where a reference is kept: in the i-node, or at a place of a block.     *)
LEMMA PlaceKept ==
  ASSUME TypeOK, NEW i \in Inodes, NEW n \in Nat
  PROVE  \/ Place(i, n) \in [blk : {-1}, at : BlockRefs]
         \/ Place(i, n) \in [blk : Nat, at : Cells]
  <1> DEFINE q == n \div BLOCK_SIZE
             b == inode_table[i].i_data_block[INDIRECT_ACCESS_BLOCK]
             far == q - INDIRECT_ACCESS_BLOCK
             x == b + far \div BLOCK_SIZE
             y == far % BLOCK_SIZE
  <1>1. q \in Nat
    BY Sizes, DivMod
  <1>2. b \in Blocks \cup {-1}
    BY Sizes DEF TypeOK
  <1>3. Place(i, n) = IF q < INDIRECT_ACCESS_BLOCK THEN [blk |-> -1, at |-> q]
                      ELSE IF b = -1 THEN IndirectPlace ELSE [blk |-> x, at |-> y]
    BY DEF Place
  <1>4. CASE q < INDIRECT_ACCESS_BLOCK
    <2>1. q \in BlockRefs
      BY <1>1, <1>4, Sizes DEF BlockRefs
    <2> HIDE DEF q
    <2> QED BY <1>3, <1>4, <2>1
  <1>5. CASE q >= INDIRECT_ACCESS_BLOCK /\ b = -1
    <2> HIDE DEF q, b
    <2> QED BY <1>1, <1>3, <1>5, Sizes DEF IndirectPlace
  <1>6. CASE q >= INDIRECT_ACCESS_BLOCK /\ b # -1
    <2>1. far \in Nat
      BY <1>1, <1>6, Sizes
    <2> HIDE DEF far
    <2>2. far \div BLOCK_SIZE \in Nat /\ y \in Cells
      BY <2>1, Sizes, DivMod DEF Cells
    <2>3. x \in Nat
      <3> DEFINE d == far \div BLOCK_SIZE
      <3>1. b \in Nat /\ d \in Nat
        BY <1>2, <1>6, <2>2, Sizes
      <3>2. x = b + d
        OBVIOUS
      <3> HIDE DEF b, d, x
      <3> QED BY <3>1, <3>2
    <2>4. Place(i, n) = [blk |-> x, at |-> y]
      <3> HIDE DEF q, b, x, y
      <3> QED BY <1>1, <1>3, <1>6, Sizes
    <2> HIDE DEF x, y
    <2> QED BY <2>2, <2>3, <2>4
  <1> QED BY <1>1, <1>4, <1>5, <1>6, Sizes

LEMMA KeptAt ==
  ASSUME TypeOK, NEW i \in Inodes, NEW n \in Nat, InMemory(Place(i, n))
  PROVE  /\ Place(i, n) \in References
         /\ At(i, Place(i, n)) \in Blocks \cup {-1} \cup Data
         /\ Place(i, n).blk = -1 => Place(i, n).at \in BlockRefs
         /\ Place(i, n).blk # -1 => Place(i, n).blk \in Blocks /\ Place(i, n).at \in Cells
  <1>1. PICK p : p = Place(i, n)
    OBVIOUS
  <1>2. CASE p \in [blk : {-1}, at : BlockRefs]
    <2>1. p.blk = -1 /\ p.at \in BlockRefs
      BY <1>2
    <2>2. p \in References
      BY <1>2 DEF References
    <2>3. At(i, p) \in Blocks \cup {-1}
      BY <2>1 DEF At, TypeOK
    <2> QED BY <1>1, <2>1, <2>2, <2>3
  <1>3. CASE p \in [blk : Nat, at : Cells]
    <2>1. p.blk \in Blocks /\ p.at \in Cells /\ p.blk # -1
      BY <1>1, <1>3, SizesAssumption DEF InMemory, Blocks
    <2>2. p \in References
      BY <1>3, <2>1 DEF References
    <2>3. At(i, p) \in Blocks \cup {-1} \cup Data
      BY <2>1 DEF At, TypeOK
    <2> QED BY <1>1, <2>1, <2>2, <2>3
  <1> QED BY <1>1, <1>2, <1>3, PlaceKept

(* The part of a block that one round of the loop copies.                  *)
LEMMA ChunkFits ==
  ASSUME TypeOK, NEW t \in Threads, call[t].pc \in LoopPcs
  PROVE  /\ Offset(t) \in Nat /\ InBlock(t) \in Cells /\ Chunk(t) \in Nat
         /\ Chunk(t) <= call[t].left /\ InBlock(t) + Chunk(t) <= BLOCK_SIZE
         /\ call[t].left > 0 => Chunk(t) > 0
  <1>1. call[t].left \in Nat /\ call[t].fh \in Handles
    BY CallKinds DEF LoopCalls
  <1>2. Offset(t) \in Nat
    BY <1>1 DEF Offset, TypeOK
  <1>3. InBlock(t) \in Cells
    BY <1>2, Sizes, DivMod DEF InBlock, Cells
  <1>4. BLOCK_SIZE - InBlock(t) \in Nat \ {0}
    BY <1>3, Sizes DEF Cells
  <1>5. Chunk(t) = Min2(call[t].left, BLOCK_SIZE - InBlock(t))
    BY DEF Chunk
  <1> QED BY <1>1, <1>2, <1>3, <1>4, <1>5, Sizes DEF Min2, Cells

LEMMA AddsHandle ==
  ASSUME TypeOK, NEW t \in Threads, NEW i \in Inodes, NEW n \in Nat, AddToOpenFileTable(t, i, n)
  PROVE  /\ open_file_table' \in [Handles -> [of_inumber : Inodes \cup {0}, of_offset : Nat]]
         /\ free_open_file_entries' \subseteq Handles
         /\ call' \in [Threads -> Calls]
  <1>1. call' \in [Threads -> Calls]
    BY CallMoves DEF AddToOpenFileTable, Returns
  <1>2. [of_inumber |-> i, of_offset |-> n] \in [of_inumber : Inodes \cup {0}, of_offset : Nat]
    OBVIOUS
  <1>3. CASE UNCHANGED handles
    BY <1>1, <1>3 DEF handles, TypeOK
  <1>4. ASSUME NEW fh \in free_open_file_entries,
               open_file_table' = [open_file_table EXCEPT ![fh] = [of_inumber |-> i, of_offset |-> n]],
               free_open_file_entries' = free_open_file_entries \ {fh}
        PROVE  /\ open_file_table' \in [Handles -> [of_inumber : Inodes \cup {0}, of_offset : Nat]]
               /\ free_open_file_entries' \subseteq Handles
    BY <1>2, <1>4 DEF TypeOK
  <1> QED BY <1>1, <1>3, <1>4 DEF AddToOpenFileTable

(* The lock of one i-node changes.                                         *)
LEMMA LockTyped ==
  ASSUME TypeOK, NEW i \in Inodes, NEW l \in Lock!Rwlocks(Threads), rwl' = [rwl EXCEPT ![i] = l]
  PROVE  rwl' \in [Inodes -> Lock!Rwlocks(Threads)]
  BY DEF TypeOK

LEMMA OpenCreateTyped ==
  ASSUME TypeOK, NEW t \in Threads, OpenCreate(t), calls' \in 0 .. MAX_CALLS PROVE TypeOK'
  <1>1. PICK i \in freeinode_ts :
          /\ freeinode_ts' = freeinode_ts \ {i}
          /\ inode_table' = [inode_table EXCEPT ![i] = NewFile]
          /\ AddToOpenFileTable(t, i, 0)
    BY DEF OpenCreate
  <1>2. i \in Inodes
    BY DEF TypeOK
  <1>3. NewFile \in [i_size : Nat, i_data_block : [BlockRefs -> Blocks \cup {-1}]]
    BY DEF NewFile
  <1>4. inode_table' \in [Inodes -> [i_size : Nat, i_data_block : [BlockRefs -> Blocks \cup {-1}]]]
    BY <1>1, <1>3 DEF TypeOK
  <1>5. UNCHANGED <<fs_data, free_blocks, rwl, damage>>
    BY DEF OpenCreate
  <1> QED BY <1>1, <1>2, <1>4, <1>5, AddsHandle DEF TypeOK

LEMMA OpenExistingTyped ==
  ASSUME TypeOK, NEW t \in Threads, NEW i \in Files, NEW append \in BOOLEAN,
         OpenExisting(t, i, append), calls' \in 0 .. MAX_CALLS
  PROVE  TypeOK'
  <1>1. i \in Inodes
    BY DEF Files
  <1>2. PICK l : l = Lock!Unlock(Lock!WrLock(rwl[i], t), t)
    OBVIOUS
  <1>3. l \in Lock!Rwlocks(Threads) /\ rwl' = [rwl EXCEPT ![i] = l]
    BY <1>1, <1>2, RwlockOps DEF OpenExisting, TypeOK
  <1>4. PICK n \in Nat : AddToOpenFileTable(t, i, n)
    BY <1>1 DEF OpenExisting, TypeOK
  <1>5. UNCHANGED <<tables, damage>>
    BY DEF OpenExisting
  <1> QED BY <1>1, <1>3, <1>4, <1>5, AddsHandle, LockTyped DEF TypeOK, tables

LEMMA BlankedTyped ==
  ASSUME NEW S, NEW V, NEW f \in [S -> V], NEW n, -1 \in V
  PROVE  Blanked(f, n) \in [S -> V]
  BY DEF Blanked

LEMMA OpenTruncateTyped ==
  ASSUME TypeOK, NEW t \in Threads, NEW i \in Files, NEW append \in BOOLEAN,
         OpenTruncate(t, i, append), calls' \in 0 .. MAX_CALLS
  PROVE  TypeOK'
  <1> DEFINE refs == inode_table[i].i_data_block
             last_block == refs[INDIRECT_ACCESS_BLOCK]
             bonus_block == fs_data[last_block]
             indirect == IF last_block = -1 THEN 0 ELSE Freed(bonus_block, INDIRECT_REFERENCES)
             failed == /\ last_block # -1 /\ indirect < INDIRECT_REFERENCES
                       /\ bonus_block[indirect] # -1
             freed == DirectFreed(refs) \cup First(bonus_block, indirect)
                        \cup (IF last_block = -1 \/ failed THEN {} ELSE {last_block})
             empty == inode_table[i].i_size = 0
             c == IF inode_table[i].i_size > 0 /\ failed THEN Idle
                  ELSE [pc |-> "truncated", inum |-> i, append |-> append]
             size == IF failed THEN inode_table[i].i_size ELSE 0
             l == Lock!Unlock(Lock!WrLock(rwl[i], t), t)
  <1>1. /\ i \in Inodes /\ refs \in [BlockRefs -> Blocks \cup {-1}] /\ inode_table[i].i_size \in Nat
        /\ last_block \in Blocks \cup {-1}
    BY Sizes DEF TypeOK, Files
  <1>2. /\ rwl' = [rwl EXCEPT ![i] = l] /\ call' = [call EXCEPT ![t] = c]
        /\ UNCHANGED <<freeinode_ts, handles>>
        /\ empty => UNCHANGED <<inode_table, fs_data, free_blocks, damage>>
        /\ ~empty => /\ inode_table' = [inode_table EXCEPT ![i].i_data_block = ForgottenRefs(i),
                                                           ![i].i_size = size]
                     /\ fs_data' = IF last_block = -1 THEN fs_data
                                   ELSE [fs_data EXCEPT ![last_block] = Blanked(@, indirect)]
                     /\ free_blocks' = free_blocks \cup freed
                     /\ Notes(last_block # -1, "freed")
    BY DEF OpenTruncate
  <1>3. l \in Lock!Rwlocks(Threads)
    BY <1>1, RwlockOps DEF TypeOK
  <1>4. c \in {Idle} \cup TruncatedCalls
    BY <1>1 DEF TruncatedCalls
  <1>5. call' \in [Threads -> Calls] /\ rwl' \in [Inodes -> Lock!Rwlocks(Threads)]
    <2> HIDE DEF c, l
    <2> QED BY <1>1, <1>2, <1>3, <1>4, CallMoves, LockTyped
  <1>6. inode_table' \in [Inodes -> [i_size : Nat, i_data_block : [BlockRefs -> Blocks \cup {-1}]]]
    <2>1. ForgottenRefs(i) \in [BlockRefs -> Blocks \cup {-1}]
      BY <1>1, BlankedTyped DEF ForgottenRefs
    <2>2. size \in Nat
      BY <1>1
    <2>3. CASE empty
      BY <1>2, <2>3 DEF TypeOK
    <2>4. CASE ~empty
      <3>1. PICK f \in [BlockRefs -> Blocks \cup {-1}] : f = ForgottenRefs(i)
        BY <2>1
      <3>2. inode_table' = [inode_table EXCEPT ![i].i_data_block = f, ![i].i_size = size]
        BY <1>2, <2>4, <3>1
      <3> DEFINE V == [BlockRefs -> Blocks \cup {-1}]
      <3>3. inode_table \in [Inodes -> [i_size : Nat, i_data_block : V]] /\ f \in V
        BY DEF TypeOK
      <3> HIDE DEF size, V
      <3>4. inode_table'[i] = [inode_table[i] EXCEPT !.i_data_block = f, !.i_size = size]
        BY <1>1, <3>2, <3>3
      <3>5. inode_table'[i] \in [i_size : Nat, i_data_block : V]
        BY ZenonT(30), <1>1, <2>2, <3>3, <3>4
      <3> QED BY <1>1, <3>2, <3>3, <3>5 DEF V
    <2> QED BY <2>3, <2>4
  <1>7. fs_data' \in [Blocks -> [Cells -> Blocks \cup {-1} \cup Data]]
    <2>1. CASE last_block = -1
      BY <1>2, <2>1 DEF TypeOK
    <2>2. CASE last_block # -1
      <3>1. Blanked(fs_data[last_block], indirect) \in [Cells -> Blocks \cup {-1} \cup Data]
        BY <1>1, <2>2, BlankedTyped DEF TypeOK
      <3> HIDE DEF last_block, indirect
      <3> QED BY <1>1, <1>2, <2>2, <3>1 DEF TypeOK
    <2> QED BY <2>1, <2>2
  <1>8. free_blocks' \subseteq Blocks
    <2>1. DirectFreed(refs) \subseteq Blocks
      BY FreedStops, Sizes DEF DirectFreed, First
    <2>2. First(bonus_block, indirect) \subseteq Blocks
      <3>1. CASE last_block = -1
        BY <3>1 DEF First
      <3>2. CASE last_block # -1
        <4>1. indirect = Freed(bonus_block, INDIRECT_REFERENCES) /\ INDIRECT_REFERENCES \in Nat
          BY <3>2, Sizes DEF INDIRECT_REFERENCES
        <4> HIDE DEF bonus_block, indirect
        <4> QED BY <4>1, FreedStops DEF First
      <3> QED BY <3>1, <3>2
    <2>3. freed \subseteq Blocks
      <3> HIDE DEF refs, bonus_block, indirect, failed
      <3> QED BY <1>1, <2>1, <2>2 
    <2> HIDE DEF freed
    <2> QED BY <1>2, <2>3 DEF TypeOK
  <1>9. damage' \subseteq {"freed", "beyond", "raced"}
    BY <1>2 DEF TypeOK, Notes
  <1> QED BY <1>2, <1>5, <1>6, <1>7, <1>8, <1>9 DEF TypeOK, handles

LEMMA OpenTruncatedTyped ==
  ASSUME TypeOK, NEW t \in Threads, OpenTruncated(t), calls' \in 0 .. MAX_CALLS PROVE TypeOK'
  <1>1. call[t].inum \in Inodes
    BY CallKinds DEF OpenTruncated, TruncatedCalls
  <1>2. PICK l : l = Lock!Unlock(rwl[call[t].inum], t)
    OBVIOUS
  <1>3. l \in Lock!Rwlocks(Threads) /\ rwl' = [rwl EXCEPT ![call[t].inum] = l]
    BY <1>1, <1>2, RwlockOps DEF OpenTruncated, TypeOK
  <1>4. PICK n \in Nat : AddToOpenFileTable(t, call[t].inum, n)
    BY <1>1 DEF OpenTruncated, TypeOK
  <1>5. UNCHANGED <<tables, damage>>
    BY DEF OpenTruncated
  <1> QED BY <1>1, <1>3, <1>4, <1>5, AddsHandle, LockTyped DEF TypeOK, tables

LEMMA TfsCloseTyped ==
  ASSUME TypeOK, NEW t \in Threads, NEW fh \in Issued, TfsClose(t, fh), calls' \in 0 .. MAX_CALLS
  PROVE  TypeOK'
  <1>1. fh \in Handles /\ call' = [call EXCEPT ![t] = Idle]
    BY DEF Issued, TfsClose, Returns
  <1> QED BY <1>1, CallMoves DEF TfsClose, tables, TypeOK

LEMMA CallTyped ==
  ASSUME TypeOK, NEW op \in {"write", "read"}, NEW fh \in Issued, NEW byte \in Data \cup {0}, NEW n \in Nat
  PROVE  /\ fh \in Handles /\ open_file_table[fh].of_inumber \in Inodes
         /\ Call(op, fh, byte, n) \in LoopCalls
  <1>1. fh \in Handles /\ open_file_table[fh].of_inumber \in Inodes /\ open_file_table[fh].of_offset \in Nat
    BY DEF Issued, TypeOK
  <1>2. inode_table[open_file_table[fh].of_inumber].i_size \in Nat
    BY <1>1 DEF TypeOK
  <1>3. IndirectPlace \in References
    BY Sizes DEF IndirectPlace, References
  <1> QED BY <1>1, <1>2, <1>3 DEF Call, LoopCalls, LoopPcs

LEMMA BeginTyped ==
  ASSUME TypeOK, NEW t \in Threads, NEW fh \in Issued, NEW len \in Lengths, calls' \in 0 .. MAX_CALLS,
         ReadBegin(t, fh, len) \/ \E byte \in Data : WriteBegin(t, fh, byte, len)
  PROVE  TypeOK'
  <1> DEFINE i == open_file_table[fh].of_inumber
  <1>1. fh \in Handles /\ i \in Inodes
    BY DEF Issued, TypeOK
  <1>2. \E op \in {"write", "read"}, byte \in Data \cup {0}, n \in Nat :
          call' = [call EXCEPT ![t] = Call(op, fh, byte, n)]
    <2>1. ASSUME NEW byte \in Data, WriteBegin(t, fh, byte, len)
          PROVE  call' = [call EXCEPT ![t] = Call("write", fh, byte, len)] /\ len \in Nat
      BY <2>1, SizesAssumption DEF WriteBegin
    <2>2. CASE ReadBegin(t, fh, len)
      <3> DEFINE a == inode_table[i].i_size
                 o == open_file_table[fh].of_offset
                 n == ToRead(a, o, len)
      <3>1. a - o \in Int /\ len \in Nat /\ SIZE_T \in Nat \ {0}
        BY <1>1, SizesAssumption DEF TypeOK
      <3>2. (a - o) % SIZE_T \in Nat
        <4> HIDE DEF a, o
        <4> QED BY <3>1
      <3>3. n \in Nat
        BY <3>1, <3>2 DEF ToRead, SizeSub, Min2
      <3>4. call' = [call EXCEPT ![t] = Call("read", fh, 0, n)]
        BY <2>2 DEF ReadBegin
      <3> QED BY <3>3, <3>4
    <2> QED BY <2>1, <2>2
  <1>3. call' \in [Threads -> Calls]
    <2>1. PICK op \in {"write", "read"}, byte \in Data \cup {0}, n \in Nat :
            call' = [call EXCEPT ![t] = Call(op, fh, byte, n)]
      BY <1>2
    <2>2. Call(op, fh, byte, n) \in LoopCalls
      BY CallTyped
    <2> QED BY <2>1, <2>2, CallMoves
  <1>4. \E l \in Lock!Rwlocks(Threads) : rwl' = [rwl EXCEPT ![i] = l]
    <2>1. rwl[i] \in Lock!Rwlocks(Threads)
      BY <1>1 DEF TypeOK
    <2> QED BY <2>1, RwlockOps DEF ReadBegin, WriteBegin
  <1>5. rwl' \in [Inodes -> Lock!Rwlocks(Threads)]
    BY <1>1, <1>4, LockTyped
  <1>6. UNCHANGED <<tables, handles, damage>>
    BY DEF ReadBegin, WriteBegin
  <1> QED BY <1>3, <1>5, <1>6 DEF TypeOK, tables, handles

LEMMA LoopCall ==
  ASSUME TypeOK, NEW t \in Threads, call[t].pc \in LoopPcs
  PROVE  /\ call[t] \in LoopCalls /\ call[t].op \in {"write", "read"}
         /\ call[t].fh \in Handles /\ call[t].inum \in Inodes /\ call[t].byte \in Data \cup {0}
         /\ call[t].left \in Nat /\ call[t].start \in Nat /\ call[t].size \in Nat
         /\ call[t].buffer \in Seq(Int) /\ call[t].place \in References
         /\ call[t].block \in Blocks \cup {-1}
  <1>1. call[t] \in LoopCalls
    BY CallKinds
  <1> QED BY <1>1 DEF LoopCalls

LEMMA LeavesTyped ==
  ASSUME TypeOK, NEW t \in Threads, call[t].pc \in LoopPcs, Leaves(t)
  PROVE  call' \in [Threads -> Calls] /\ rwl' \in [Inodes -> Lock!Rwlocks(Threads)]
  <1>1. call' \in [Threads -> Calls]
    BY CallMoves DEF Leaves, Returns
  <1>2. PICK l : l = Lock!Unlock(rwl[call[t].inum], t)
    OBVIOUS
  <1>3. l \in Lock!Rwlocks(Threads) /\ rwl' = [rwl EXCEPT ![call[t].inum] = l]
    BY <1>2, LoopCall, RwlockOps DEF Leaves, TypeOK
  <1> QED BY <1>1, <1>3, LoopCall, LockTyped

LEMMA UseTyped ==
  ASSUME TypeOK, NEW t \in Threads, NotesUse(t)
  PROVE  damage' \subseteq {"freed", "beyond", "raced"}
  BY DEF NotesUse, TypeOK

LEMMA AllocStep ==
  ASSUME TypeOK, NEW t \in Threads, Alloc(t)
  PROVE  /\ call[t].pc = "run" /\ call[t].left > 0
         /\ InMemory(Here(t)) /\ Here(t) \in References /\ At(call[t].inum, Here(t)) = -1
         /\ \E b \in Blocks \cup {-1} :
              /\ IF free_blocks = {} THEN b = -1 ELSE b \in free_blocks
              /\ free_blocks' = free_blocks \ {b}
              /\ call'[t] \in LoopCalls /\ call'[t].pc = "got" /\ call'[t].left = call[t].left
              /\ call'[t] = [call[t] EXCEPT !.pc = "got", !.place = Here(t), !.block = b]
              /\ call' = [call EXCEPT ![t] = call'[t]]
  <1>1. call[t].pc = "run" /\ call[t].left > 0 /\ InMemory(Here(t)) /\ At(call[t].inum, Here(t)) = -1
    BY DEF Alloc
  <1>2. call[t] \in LoopCalls /\ call[t].inum \in Inodes /\ Offset(t) \in Nat
    BY <1>1, LoopCall, ChunkFits DEF LoopPcs
  <1>3. PICK p : p = Here(t)
    OBVIOUS
  <1>4. p \in References
    BY <1>1, <1>2, <1>3, KeptAt DEF Here
  <1>5. PICK b \in Blocks \cup {-1} :
          /\ IF free_blocks = {} THEN b = -1 ELSE FirstFree(b)
          /\ free_blocks' = free_blocks \ {b}
          /\ call' = [call EXCEPT ![t] = [@ EXCEPT !.pc = "got", !.place = p, !.block = b]]
    BY <1>3 DEF Alloc
  <1> DEFINE c == [call[t] EXCEPT !.pc = "got", !.place = p, !.block = b]
  <1>6. c \in LoopCalls /\ c.pc = "got" /\ c.left = call[t].left
    BY <1>2, <1>4 DEF LoopCalls, LoopPcs
  <1>7. call' = [call EXCEPT ![t] = c]
    BY <1>5
  <1> HIDE DEF c
  <1>8. call'[t] = c
    BY <1>7 DEF TypeOK
  <1>9. free_blocks # {} => b \in free_blocks
    BY <1>5 DEF FirstFree, IsFirst
  <1> QED BY <1>1, <1>3, <1>4, <1>5, <1>6, <1>7, <1>8, <1>9 DEF c

LEMMA AllocTyped ==
  ASSUME TypeOK, NEW t \in Threads, Alloc(t), calls' \in 0 .. MAX_CALLS PROVE TypeOK'
  <1>1. PICK c : c = call'[t]
    OBVIOUS
  <1>2. c \in LoopCalls /\ call' = [call EXCEPT ![t] = c] /\ free_blocks' \subseteq Blocks
    BY <1>1, AllocStep DEF TypeOK
  <1>3. call' \in [Threads -> Calls]
    BY <1>2, CallMoves
  <1>4. NotesUse(t) /\ UNCHANGED <<inode_table, freeinode_ts, fs_data, handles, rwl>>
    BY DEF Alloc
  <1> QED BY <1>2, <1>3, <1>4, UseTyped DEF TypeOK, handles

(* The step of a call that goes on: only its place in the loop changes, or *)
(* what is left of it.                                                     *)
LEMMA PcMoves ==
  ASSUME TypeOK, NEW t \in Threads, call[t].pc \in LoopPcs, NEW p \in LoopPcs,
         call' = [call EXCEPT ![t].pc = p]
  PROVE  /\ call' \in [Threads -> Calls] /\ \A u \in Threads \ {t} : call'[u] = call[u]
         /\ call'[t] = [call[t] EXCEPT !.pc = p] /\ call'[t] \in LoopCalls
         /\ call'[t].pc = p
  <1> DEFINE c == [call[t] EXCEPT !.pc = p]
  <1>1. c \in LoopCalls /\ c.pc = p
    BY LoopCall DEF LoopCalls
  <1>2. call' = [call EXCEPT ![t] = c]
    OBVIOUS
  <1> HIDE DEF c
  <1>3. call' \in [Threads -> Calls] /\ call'[t] = c /\ \A u \in Threads \ {t} : call'[u] = call[u]
    BY <1>1, <1>2, CallMoves
  <1> QED BY <1>1, <1>3 DEF c

LEMMA RefStored ==
  ASSUME TypeOK, NEW i \in Inodes, NEW k, NEW b \in Blocks \cup {-1},
         inode_table' = [inode_table EXCEPT ![i].i_data_block[k] = b]
  PROVE  /\ inode_table' \in [Inodes -> [i_size : Nat, i_data_block : [BlockRefs -> Blocks \cup {-1}]]]
         /\ \A j \in Inodes : inode_table'[j].i_size = inode_table[j].i_size
         /\ \A j \in Inodes : \A x \in BlockRefs :
              (j # i \/ x # k) => inode_table'[j].i_data_block[x] = inode_table[j].i_data_block[x]
  <1> DEFINE V == [BlockRefs -> Blocks \cup {-1}]
             f == inode_table[i].i_data_block
             g == [f EXCEPT ![k] = b]
             e == [inode_table[i] EXCEPT !.i_data_block = g]
  <1>1. inode_table \in [Inodes -> [i_size : Nat, i_data_block : V]] /\ f \in V
    BY DEF TypeOK
  <1>2. g \in V /\ \A x \in BlockRefs : g[x] = IF x = k THEN b ELSE f[x]
    BY <1>1
  <1>3. inode_table' = [inode_table EXCEPT ![i] = e]
    OBVIOUS
  <1>4. e \in [i_size : Nat, i_data_block : V] /\ e.i_size = inode_table[i].i_size /\ e.i_data_block = g
    <2> HIDE DEF g, V
    <2> QED BY <1>1, <1>2
  <1>5. /\ inode_table' \in [Inodes -> [i_size : Nat, i_data_block : V]]
        /\ inode_table'[i] = e /\ \A j \in Inodes \ {i} : inode_table'[j] = inode_table[j]
    <2> HIDE DEF e, V
    <2> QED BY <1>1, <1>3, <1>4
  <1> HIDE DEF e, g
  <1>6. /\ inode_table'[i].i_size = inode_table[i].i_size
        /\ \A x \in BlockRefs : inode_table'[i].i_data_block[x] = IF x = k THEN b ELSE f[x]
    BY <1>2, <1>4, <1>5
  <1> QED BY <1>5, <1>6

LEMMA CellStored ==
  ASSUME TypeOK, NEW a \in Blocks, NEW k, NEW b \in Blocks \cup {-1},
         fs_data' = [fs_data EXCEPT ![a][k] = b]
  PROVE  /\ fs_data' \in [Blocks -> [Cells -> Blocks \cup {-1} \cup Data]]
         /\ \A j \in Blocks, x \in Cells :
              fs_data'[j][x] = IF j = a /\ x = k THEN b ELSE fs_data[j][x]
  <1> DEFINE V == Blocks \cup {-1} \cup Data
             g == [fs_data[a] EXCEPT ![k] = b]
  <1>1. fs_data \in [Blocks -> [Cells -> V]] /\ fs_data[a] \in [Cells -> V] /\ b \in V
    BY DEF TypeOK
  <1> HIDE DEF V
  <1>2. g \in [Cells -> V] /\ \A x \in Cells : g[x] = IF x = k THEN b ELSE fs_data[a][x]
    BY <1>1
  <1>3. fs_data' = [fs_data EXCEPT ![a] = g]
    OBVIOUS
  <1> HIDE DEF g
  <1> QED BY <1>1, <1>2, <1>3 DEF V

LEMMA StoreStep ==
  ASSUME TypeOK, NEW t \in Threads, Store(t)
  PROVE  \E p \in References, i \in Inodes, b \in Blocks \cup {-1} :
           /\ call[t].pc = "got" /\ p = call[t].place /\ i = call[t].inum /\ b = call[t].block
           /\ b # -1 \/ p # IndirectPlace
           /\ p.blk = -1 => inode_table' = [inode_table EXCEPT ![i].i_data_block[p.at] = b]
                            /\ UNCHANGED fs_data
           /\ p.blk # -1 => fs_data' = [fs_data EXCEPT ![p.blk][p.at] = b] /\ UNCHANGED inode_table
           /\ b = -1 => Leaves(t)
           /\ b # -1 => /\ call' = [call EXCEPT ![t].pc = IF p = IndirectPlace THEN "fill" ELSE "use"]
                        /\ UNCHANGED rwl
           /\ Notes(At(i, p) # -1, "raced")
           /\ UNCHANGED <<freeinode_ts, free_blocks, handles>>
  <1>1. call[t].pc = "got"
    BY DEF Store
  <1>2. /\ call[t].place \in References /\ call[t].inum \in Inodes
        /\ call[t].block \in Blocks \cup {-1}
    BY <1>1, LoopCall DEF LoopPcs
  <1> QED BY <1>1, <1>2 DEF Store

LEMMA StoreTyped ==
  ASSUME TypeOK, NEW t \in Threads, Store(t), calls' \in 0 .. MAX_CALLS PROVE TypeOK'
  <1>1. PICK p \in References, i \in Inodes, b \in Blocks \cup {-1} :
          /\ call[t].pc = "got" /\ p = call[t].place /\ i = call[t].inum /\ b = call[t].block
          /\ b # -1 \/ p # IndirectPlace
          /\ p.blk = -1 => inode_table' = [inode_table EXCEPT ![i].i_data_block[p.at] = b]
                            /\ UNCHANGED fs_data
          /\ p.blk # -1 => fs_data' = [fs_data EXCEPT ![p.blk][p.at] = b] /\ UNCHANGED inode_table
          /\ b = -1 => Leaves(t)
          /\ b # -1 => /\ call' = [call EXCEPT ![t].pc = IF p = IndirectPlace THEN "fill" ELSE "use"]
                       /\ UNCHANGED rwl
          /\ Notes(At(i, p) # -1, "raced")
          /\ UNCHANGED <<freeinode_ts, free_blocks, handles>>
    BY StoreStep
  <1>2. inode_table' \in [Inodes -> [i_size : Nat, i_data_block : [BlockRefs -> Blocks \cup {-1}]]]
    <2>1. CASE p.blk = -1
      <3>1. PICK k : k = p.at
        OBVIOUS
      <3>2. inode_table' = [inode_table EXCEPT ![i].i_data_block[k] = b]
        BY <1>1, <2>1, <3>1
      <3> QED BY <3>2, RefStored
    <2>2. CASE p.blk # -1
      BY <1>1, <2>2 DEF TypeOK
    <2> QED BY <2>1, <2>2
  <1>3. fs_data' \in [Blocks -> [Cells -> Blocks \cup {-1} \cup Data]]
    <2>1. CASE p.blk # -1
      <3>1. PICK a, k : a = p.blk /\ k = p.at
        OBVIOUS
      <3>2. fs_data' = [fs_data EXCEPT ![a][k] = b] /\ a \in Blocks
        BY <1>1, <2>1, <3>1 DEF References
      <3> QED BY <3>2, CellStored
    <2>2. CASE p.blk = -1
      BY <1>1, <2>2 DEF TypeOK
    <2> QED BY <2>1, <2>2
  <1>4. call' \in [Threads -> Calls] /\ rwl' \in [Inodes -> Lock!Rwlocks(Threads)]
    <2>1. CASE b = -1
      BY <1>1, <2>1, LeavesTyped DEF LoopPcs
    <2>2. CASE b # -1
      <3>1. PICK x \in LoopPcs : call' = [call EXCEPT ![t].pc = x]
        BY <1>1, <2>2 DEF LoopPcs
      <3> QED BY <1>1, <2>2, <3>1, PcMoves DEF TypeOK, LoopPcs
    <2> QED BY <2>1, <2>2
  <1>5. damage' \subseteq {"freed", "beyond", "raced"}
    BY <1>1 DEF Notes, TypeOK
  <1> QED BY <1>1, <1>2, <1>3, <1>4, <1>5 DEF TypeOK, handles

LEMMA FillTyped ==
  ASSUME TypeOK, NEW t \in Threads, Fill(t), calls' \in 0 .. MAX_CALLS PROVE TypeOK'
  <1>1. PICK b \in Blocks \cup {-1} : b = call[t].block
    BY LoopCall DEF Fill, LoopPcs
  <1>2. /\ fs_data' = [fs_data EXCEPT ![b] = [k \in Cells |-> -1]]
        /\ inode_table' = [inode_table EXCEPT ![call[t].inum].i_data_block[INDIRECT_ACCESS_BLOCK] = b]
        /\ call' = [call EXCEPT ![t].pc = "run"] /\ call[t].pc = "fill"
        /\ UNCHANGED <<freeinode_ts, free_blocks, handles, rwl, damage>>
    BY <1>1 DEF Fill
  <1>3. call[t].inum \in Inodes
    BY <1>2, LoopCall DEF LoopPcs
  <1>4. inode_table' \in [Inodes -> [i_size : Nat, i_data_block : [BlockRefs -> Blocks \cup {-1}]]]
    BY <1>2, <1>3, RefStored
  <1>5. fs_data' \in [Blocks -> [Cells -> Blocks \cup {-1} \cup Data]]
    BY <1>2 DEF TypeOK
  <1>6. call' \in [Threads -> Calls]
    BY <1>2, PcMoves DEF LoopPcs
  <1> QED BY <1>2, <1>4, <1>5, <1>6 DEF TypeOK, handles

LEMMA NoBlockTyped ==
  ASSUME TypeOK, NEW t \in Threads, NoBlock(t), calls' \in 0 .. MAX_CALLS PROVE TypeOK'
  <1>1. call[t].pc \in LoopPcs /\ Leaves(t) /\ NotesUse(t) /\ UNCHANGED <<tables, handles>>
    BY DEF NoBlock, LoopPcs
  <1> QED BY <1>1, LeavesTyped, UseTyped DEF TypeOK, tables, handles

(* CopyIn: what the block, the offset, the size and the call become.       *)
LEMMA CopyingStep ==
  ASSUME TypeOK, NEW t \in Threads, NEW op \in {"write", "read"}, Copying(t, op)
  PROVE  /\ call[t].pc \in {"run", "use"} /\ call[t].op = op /\ call[t].left > 0
         /\ InMemory(Here(t)) /\ At(call[t].inum, Here(t)) \in Blocks
         /\ NotesUse(t)
         /\ open_file_table' \in [Handles -> [of_inumber : Inodes \cup {0}, of_offset : Nat]]
         /\ open_file_table'[call[t].fh].of_offset = Offset(t) + Chunk(t)
         /\ \A fh \in Handles : open_file_table'[fh].of_inumber = open_file_table[fh].of_inumber
         /\ \A fh \in Handles \ {call[t].fh} : open_file_table'[fh] = open_file_table[fh]
  <1>1. call[t].pc \in {"run", "use"} /\ call[t].op = op /\ call[t].left > 0
        /\ InMemory(Here(t)) /\ At(call[t].inum, Here(t)) \in Blocks
        /\ NotesUse(t)
    BY DEF Copying
  <1> DEFINE E == [of_inumber : Inodes \cup {0}, of_offset : Nat]
             n == Offset(t) + Chunk(t)
             fh == call[t].fh
             e == [open_file_table[fh] EXCEPT !.of_offset = n]
  <1>2. n \in Nat /\ fh \in Handles /\ open_file_table[fh] \in E
    BY <1>1, ChunkFits, LoopCall DEF LoopPcs, TypeOK
  <1>3. open_file_table' = [open_file_table EXCEPT ![fh] = e]
    BY DEF Copying, Offset
  <1>4. e \in E /\ e.of_offset = n /\ e.of_inumber = open_file_table[fh].of_inumber
    <2> HIDE DEF n, fh
    <2> QED BY <1>2
  <1>5. /\ open_file_table' \in [Handles -> E] /\ open_file_table'[fh] = e
        /\ \A h \in Handles \ {fh} : open_file_table'[h] = open_file_table[h]
    <2> HIDE DEF e, fh, E
    <2> QED BY <1>2, <1>3, <1>4 DEF TypeOK, E
  <1> HIDE DEF e, n
  <1> QED BY <1>1, <1>4, <1>5 DEF n

LEMMA CopyInStep ==
  ASSUME TypeOK, NEW t \in Threads, CopyIn(t)
  PROVE  \E a \in Blocks :
           /\ a = At(call[t].inum, Here(t))
           /\ fs_data' \in [Blocks -> [Cells -> Blocks \cup {-1} \cup Data]]
           /\ \A b \in Blocks \ {a} : fs_data'[b] = fs_data[b]
           /\ \A k \in Cells :
                fs_data'[a][k] = IF InBlock(t) <= k /\ k < InBlock(t) + Chunk(t) THEN call[t].byte
                                 ELSE fs_data[a][k]
  <1>1. call[t].pc \in LoopPcs /\ At(call[t].inum, Here(t)) \in Blocks
    BY DEF CopyIn, Copying, LoopPcs
  <1>2. PICK a \in Blocks : a = At(call[t].inum, Here(t))
    BY <1>1
  <1> DEFINE V == Blocks \cup {-1} \cup Data
             W(k) == InBlock(t) <= k /\ k < InBlock(t) + Chunk(t)
             g == [k \in Cells |-> IF W(k) THEN call[t].byte ELSE fs_data[a][k]]
  <1>3. call[t].byte \in V
    BY <1>1, LoopCall, Sizes
  <1>4. fs_data \in [Blocks -> [Cells -> V]]
    BY DEF TypeOK
  <1>5. fs_data' = [fs_data EXCEPT ![a] = g]
    BY <1>2 DEF CopyIn
  <1> HIDE DEF V, W
  <1>6. g \in [Cells -> V] /\ \A k \in Cells : g[k] = IF W(k) THEN call[t].byte ELSE fs_data[a][k]
    BY <1>3, <1>4
  <1> HIDE DEF g
  <1>7. fs_data' \in [Blocks -> [Cells -> V]] /\ fs_data'[a] = g
        /\ \A b \in Blocks \ {a} : fs_data'[b] = fs_data[b]
    BY <1>4, <1>5, <1>6
  <1> QED BY <1>2, <1>6, <1>7 DEF V, W

LEMMA SizeStored ==
  ASSUME TypeOK, NEW i \in Inodes, NEW n \in Nat, inode_table' = [inode_table EXCEPT ![i].i_size = n]
  PROVE  /\ inode_table' \in [Inodes -> [i_size : Nat, i_data_block : [BlockRefs -> Blocks \cup {-1}]]]
         /\ inode_table'[i].i_size = n
         /\ \A j \in Inodes \ {i} : inode_table'[j] = inode_table[j]
         /\ \A j \in Inodes : inode_table'[j].i_data_block = inode_table[j].i_data_block
  <1> DEFINE V == [BlockRefs -> Blocks \cup {-1}]
             e == [inode_table[i] EXCEPT !.i_size = n]
  <1>1. inode_table \in [Inodes -> [i_size : Nat, i_data_block : V]]
    BY DEF TypeOK
  <1>2. inode_table' = [inode_table EXCEPT ![i] = e]
    OBVIOUS
  <1> HIDE DEF V
  <1>3. e \in [i_size : Nat, i_data_block : V] /\ e.i_size = n
        /\ e.i_data_block = inode_table[i].i_data_block
    BY <1>1
  <1> HIDE DEF e
  <1>4. inode_table' \in [Inodes -> [i_size : Nat, i_data_block : V]] /\ inode_table'[i] = e
        /\ \A j \in Inodes \ {i} : inode_table'[j] = inode_table[j]
    BY <1>1, <1>2, <1>3
  <1> QED BY <1>3, <1>4 DEF V

LEMMA CopyInTyped ==
  ASSUME TypeOK, NEW t \in Threads, CopyIn(t), calls' \in 0 .. MAX_CALLS PROVE TypeOK'
  <1> DEFINE i == call[t].inum
             n == inode_table[i].i_size + Chunk(t)
             left == call[t].left - Chunk(t)
             c == [call[t] EXCEPT !.pc = "run", !.left = left]
  <1>1. Copying(t, "write") /\ call[t].pc \in LoopPcs /\ i \in Inodes
    BY LoopCall DEF CopyIn, Copying, LoopPcs
  <1>2. n \in Nat /\ left \in Nat
    BY SMTT(30), <1>1, ChunkFits, LoopCall DEF TypeOK
  <1>3. inode_table' = [inode_table EXCEPT ![i].i_size = n] /\ call' = [call EXCEPT ![t] = c]
    BY DEF CopyIn
  <1>4. c \in LoopCalls
    <2> HIDE DEF left
    <2> QED BY <1>1, <1>2, LoopCall DEF LoopCalls, LoopPcs
  <1>5. call' \in [Threads -> Calls]
    <2> HIDE DEF c
    <2> QED BY <1>3, <1>4, CallMoves
  <1>6. inode_table' \in [Inodes -> [i_size : Nat, i_data_block : [BlockRefs -> Blocks \cup {-1}]]]
    <2> HIDE DEF n
    <2> QED BY <1>1, <1>2, <1>3, SizeStored
  <1>7. fs_data' \in [Blocks -> [Cells -> Blocks \cup {-1} \cup Data]]
    BY CopyInStep
  <1>8. /\ open_file_table' \in [Handles -> [of_inumber : Inodes \cup {0}, of_offset : Nat]]
        /\ NotesUse(t)
    BY <1>1, CopyingStep
  <1>9. UNCHANGED <<freeinode_ts, free_blocks, free_open_file_entries, rwl>>
    BY DEF CopyIn
  <1> QED BY <1>5, <1>6, <1>7, <1>8, <1>9, UseTyped DEF TypeOK

LEMMA CopyOutStep ==
  ASSUME TypeOK, NEW t \in Threads, CopyOut(t)
  PROVE  \E a \in Blocks :
           /\ a = At(call[t].inum, Here(t))
           /\ call' \in [Threads -> Calls] /\ \A u \in Threads \ {t} : call'[u] = call[u]
           /\ call'[t] = [call[t] EXCEPT !.pc = "run", !.left = call[t].left - Chunk(t),
                                         !.buffer = call[t].buffer \o FromOffset(t, fs_data[a])]
           /\ FromOffset(t, fs_data[a]) \in Seq(Int)
           /\ Len(FromOffset(t, fs_data[a])) = Chunk(t)
           /\ \A k \in 1 .. Chunk(t) : FromOffset(t, fs_data[a])[k] = fs_data[a][InBlock(t) + k - 1]
  <1>1. call[t].pc \in LoopPcs /\ At(call[t].inum, Here(t)) \in Blocks
    BY DEF CopyOut, Copying, LoopPcs
  <1>2. PICK a \in Blocks : a = At(call[t].inum, Here(t))
    BY <1>1
  <1> DEFINE s == FromOffset(t, fs_data[a])
             left == call[t].left - Chunk(t)
             buffer == call[t].buffer \o s
             c == [call[t] EXCEPT !.pc = "run", !.left = left, !.buffer = buffer]
  <1>3. /\ InBlock(t) \in Nat /\ Chunk(t) \in Nat /\ InBlock(t) + Chunk(t) <= BLOCK_SIZE
        /\ left \in Nat
    BY <1>1, ChunkFits, LoopCall DEF Cells
  <1>4. /\ s = [k \in 1 .. Chunk(t) |-> fs_data[a][InBlock(t) + k - 1]]
        /\ \A k \in 1 .. Chunk(t) : fs_data[a][InBlock(t) + k - 1] \in Int
    <2>1. \A k \in 1 .. Chunk(t) : InBlock(t) + k - 1 \in Cells
      BY <1>3, Sizes DEF Cells
    <2>2. \A k \in Cells : fs_data[a][k] \in Int
      <3>1. \A k \in Cells : fs_data[a][k] \in Blocks \cup {-1} \cup Data
        BY DEF TypeOK
      <3>2. Blocks \cup {-1} \cup Data \subseteq Int
        <4>1. Blocks \subseteq Int
          BY Sizes
        <4> QED BY <4>1, Sizes
      <3> QED BY <3>1, <3>2
    <2> QED BY <2>1, <2>2 DEF FromOffset
  <1>5. s \in Seq(Int) /\ Len(s) = Chunk(t)
        /\ \A k \in 1 .. Chunk(t) : s[k] = fs_data[a][InBlock(t) + k - 1]
    BY SMTT(30), <1>3, <1>4
  <1>6. call' = [call EXCEPT ![t] = c]
    BY <1>2 DEF CopyOut
  <1>7. c \in LoopCalls
    <2>1. buffer \in Seq(Int)
      <3> HIDE DEF s
      <3> QED BY <1>1, <1>5, LoopCall
    <2> HIDE DEF left, buffer
    <2> QED BY <1>1, <1>3, <2>1, LoopCall DEF LoopCalls, LoopPcs
  <1>8. /\ call' \in [Threads -> Calls] /\ call'[t] = c /\ \A u \in Threads \ {t} : call'[u] = call[u]
    <2> HIDE DEF c
    <2> QED BY <1>6, <1>7, CallMoves
  <1> QED BY <1>2, <1>5, <1>8

LEMMA CopyOutTyped ==
  ASSUME TypeOK, NEW t \in Threads, CopyOut(t), calls' \in 0 .. MAX_CALLS PROVE TypeOK'
  <1>1. Copying(t, "read") /\ UNCHANGED <<tables, free_open_file_entries, rwl>>
    BY DEF CopyOut
  <1>2. /\ open_file_table' \in [Handles -> [of_inumber : Inodes \cup {0}, of_offset : Nat]]
        /\ NotesUse(t)
    BY <1>1, CopyingStep
  <1>3. call' \in [Threads -> Calls]
    BY CopyOutStep
  <1> QED BY <1>1, <1>2, <1>3, UseTyped DEF TypeOK, tables

LEMMA SizeWrittenType ==
  ASSUME TypeOK, NEW t \in Threads, call[t].pc \in LoopPcs PROVE SizeWritten(t) \in Nat
  <1>1. SizeAdded(t) \in Nat
    BY LoopCall DEF SizeAdded, TypeOK
  <1> QED BY <1>1, LoopCall, ChunkFits DEF SizeWritten, Max2

LEMMA EndTyped ==
  ASSUME TypeOK, NEW t \in Threads, WriteEnd(t) \/ ReadEnd(t), calls' \in 0 .. MAX_CALLS PROVE TypeOK'
  <1>1. call[t].pc \in LoopPcs /\ Leaves(t) /\ UNCHANGED <<freeinode_ts, fs_data, free_blocks, handles, damage>>
    BY DEF WriteEnd, ReadEnd, LoopPcs, tables
  <1>2. inode_table' \in [Inodes -> [i_size : Nat, i_data_block : [BlockRefs -> Blocks \cup {-1}]]]
    <2>1. CASE WriteEnd(t)
      <3>1. PICK n \in Nat : n = SizeWritten(t)
        BY <1>1, SizeWrittenType
      <3>2. inode_table' = [inode_table EXCEPT ![call[t].inum].i_size = n]
        BY <2>1, <3>1 DEF WriteEnd
      <3> QED BY <1>1, <3>2, LoopCall, SizeStored
    <2>2. CASE ReadEnd(t)
      BY <2>2 DEF ReadEnd, tables, TypeOK
    <2> QED BY <2>1, <2>2
  <1> QED BY <1>1, <1>2, LeavesTyped DEF TypeOK, handles

LEMMA DiesTyped ==
  ASSUME TypeOK, NEW t \in Threads, Dies(t), calls' \in 0 .. MAX_CALLS PROVE TypeOK'
  BY DEF Dies, TypeOK, Calls, tables, handles

LEMMA InitTyped == Init => TypeOK
  <1> SUFFICES ASSUME Init PROVE TypeOK
    OBVIOUS
  <1>1. inode_table \in [Inodes -> [i_size : Nat, i_data_block : [BlockRefs -> Blocks \cup {-1}]]]
    BY Sizes DEF Init
  <1>2. fs_data \in [Blocks -> [Cells -> Blocks \cup {-1} \cup Data]]
    BY Sizes DEF Init
  <1>3. rwl \in [Inodes -> Lock!Rwlocks(Threads)]
    BY DEF Init, Lock!NewLock, Lock!Rwlocks
  <1>4. call \in [Threads -> Calls]
    BY DEF Init, Idle, Calls
  <1> QED BY <1>1, <1>2, <1>3, <1>4, Sizes DEF Init, TypeOK

LEMMA NextTyped == TypeOK /\ [Next]_vars => TypeOK'
  <1> SUFFICES ASSUME TypeOK, [Next]_vars PROVE TypeOK'
    OBVIOUS
  <1>1. CASE UNCHANGED vars
    BY <1>1 DEF vars, tables, handles, TypeOK
  <1>2. ASSUME NEW t \in Threads, UNCHANGED calls, GoesOn(t) PROVE TypeOK'
    <2>1. calls' \in 0 .. MAX_CALLS
      BY <1>2 DEF TypeOK
    <2> QED BY <1>2, <2>1, OpenTruncatedTyped, AllocTyped, StoreTyped, FillTyped, NoBlockTyped, CopyInTyped,
               CopyOutTyped, EndTyped, DiesTyped DEF GoesOn
  <1>3. ASSUME NEW t \in Threads, calls < MAX_CALLS, calls' = calls + 1, Begins(t) PROVE TypeOK'
    <2>1. calls' \in 0 .. MAX_CALLS
      BY <1>3, Sizes DEF TypeOK
    <2> QED BY <1>3, <2>1, OpenCreateTyped, OpenExistingTyped, OpenTruncateTyped, TfsCloseTyped, BeginTyped
            DEF Begins
  <1> QED BY <1>1, <1>2, <1>3 DEF Next

(* The tables stay well formed: references are block numbers, only block   *)
(* numbers are put into the free list, whatever has gone wrong, for any    *)
(* number of threads and blocks of any size.                               *)
THEOREM TypeCorrect == Spec => []TypeOK
  BY InitTyped, NextTyped, PTL DEF Spec

----------------------------------------------------------------------------
(* Whoever writes to a file has its lock, and whoever uses a handle is     *)
(* alone with it; so the size and the offset move together.                *)

Good(t) ==
  /\ call[t].pc = "truncated" => call[t].inum \in Files
  /\ InLoop(t) =>
       /\ call[t].inum \in Files
       /\ call[t].pc # "run" => call[t].left > 0
  /\ Doing(t, "write") =>
       /\ rwl[call[t].inum].writer = t /\ call[t].byte \in Data /\ call[t].start <= Offset(t)
       /\ inode_table[call[t].inum].i_size = call[t].size + (Offset(t) - call[t].start)
HandlesLead == \A fh \in Issued : open_file_table[fh].of_inumber \in Files
HandlesApart == \A t, u \in Threads : InLoop(t) /\ InLoop(u) /\ call[t].fh = call[u].fh => t = u

CallInv == (\A t \in Threads : Good(t)) /\ HandlesLead /\ HandlesApart

(* The step of one thread that leaves the others' files and handles alone. *)
LEMMA CallsKept ==
  ASSUME TypeOK, CallInv, NEW t \in Threads, \A u \in Threads \ {t} : call'[u] = call[u],
         Files \subseteq Files', Good(t)', HandlesLead',
         \A u \in Threads \ {t} : InLoop(u) =>
           open_file_table'[call[u].fh].of_offset = open_file_table[call[u].fh].of_offset,
         \A u \in Threads \ {t} : Doing(u, "write") =>
           /\ rwl'[call[u].inum].writer = u
           /\ inode_table'[call[u].inum].i_size = inode_table[call[u].inum].i_size,
         InLoop(t)' => \A u \in Threads \ {t} : InLoop(u) => call[u].fh # call'[t].fh
  PROVE  CallInv'
  <1>1. ASSUME NEW u \in Threads \ {t} PROVE Good(u)'
    BY DEF CallInv, Good, InLoop, Doing, Offset
  <1>2. HandlesApart'
    BY DEF CallInv, HandlesApart, InLoop
  <1> QED BY <1>1, <1>2 DEF CallInv

LEMMA WritersStay ==
  ASSUME TypeOK, CallInv, NEW t \in Threads, NEW i \in Inodes, NEW l, rwl' = [rwl EXCEPT ![i] = l],
         l.writer = rwl[i].writer \/ rwl[i].writer \in {t, NoThread}
  PROVE  \A u \in Threads \ {t} : Doing(u, "write") => rwl'[call[u].inum].writer = u
  <1> SUFFICES ASSUME NEW u \in Threads \ {t}, Doing(u, "write")
               PROVE  rwl'[call[u].inum].writer = u
    OBVIOUS
  <1>1. rwl[call[u].inum].writer = u /\ call[u].inum \in Inodes
    BY DEF CallInv, Good, Doing, InLoop, Files
  <1> QED BY <1>1, Sizes DEF TypeOK

(* Who may have the lock for writing finds nobody writing to the file.     *)
LEMMA NobodyWrites ==
  ASSUME TypeOK, CallInv, NEW i \in Inodes, rwl[i].writer = NoThread, NEW u \in Threads, Doing(u, "write")
  PROVE  call[u].inum # i
  BY Sizes DEF CallInv, Good

LEMMA HandleAdded ==
  ASSUME TypeOK, CallInv, NEW t \in Threads, NEW i \in Inodes, NEW n \in Nat, AddToOpenFileTable(t, i, n)
  PROVE  /\ call'[t] = Idle /\ \A u \in Threads \ {t} : call'[u] = call[u]
         /\ \A u \in Threads : InLoop(u) =>
              open_file_table'[call[u].fh].of_offset = open_file_table[call[u].fh].of_offset
         /\ \A fh \in Handles :
              open_file_table'[fh].of_inumber \in {open_file_table[fh].of_inumber, i}
  <1>1. call'[t] = Idle /\ \A u \in Threads \ {t} : call'[u] = call[u]
    BY CallMoves DEF AddToOpenFileTable, Returns
  <1>2. CASE UNCHANGED handles
    BY <1>1, <1>2 DEF handles
  <1>3. ASSUME NEW fh \in free_open_file_entries, FileLockFree(fh),
               open_file_table' = [open_file_table EXCEPT ![fh] = [of_inumber |-> i, of_offset |-> n]]
        PROVE  /\ \A u \in Threads : InLoop(u) =>
                    open_file_table'[call[u].fh].of_offset = open_file_table[call[u].fh].of_offset
               /\ \A h \in Handles :
                    open_file_table'[h].of_inumber \in {open_file_table[h].of_inumber, i}
    BY <1>3 DEF FileLockFree, TypeOK
  <1> QED BY <1>1, <1>2, <1>3 DEF AddToOpenFileTable

LEMMA IdleGood == ASSUME NEW t \in Threads, call'[t] = Idle PROVE Good(t)' /\ ~InLoop(t)'
  BY DEF Good, InLoop, Doing, Idle

LEMMA OpenCreateCalls ==
  ASSUME TypeOK, CallInv, NEW t \in Threads, OpenCreate(t) PROVE CallInv'
  <1>1. PICK i \in freeinode_ts :
          /\ freeinode_ts' = freeinode_ts \ {i}
          /\ inode_table' = [inode_table EXCEPT ![i] = NewFile]
          /\ AddToOpenFileTable(t, i, 0)
    BY DEF OpenCreate
  <1>2. i \in Inodes /\ i \notin Files /\ Files' = Files \cup {i}
    BY <1>1 DEF TypeOK, Files
  <1>3. \A u \in Threads : Doing(u, "write") =>
          inode_table'[call[u].inum].i_size = inode_table[call[u].inum].i_size
    BY <1>1, <1>2 DEF CallInv, Good, Doing, Files, TypeOK
  <1>4. rwl' = rwl
    BY DEF OpenCreate
  <1>5. \A u \in Threads : Doing(u, "write") => rwl'[call[u].inum].writer = u
    BY <1>4 DEF CallInv, Good, Doing
  <1>6. HandlesLead'
    BY <1>1, <1>2, HandleAdded DEF CallInv, HandlesLead, Issued
  <1>7. /\ call'[t] = Idle /\ \A u \in Threads \ {t} : call'[u] = call[u]
        /\ \A u \in Threads : InLoop(u) =>
              open_file_table'[call[u].fh].of_offset = open_file_table[call[u].fh].of_offset
    BY <1>1, <1>2, HandleAdded
  <1> QED BY <1>2, <1>3, <1>5, <1>6, <1>7, IdleGood, CallsKept

LEMMA LockReturned ==
  ASSUME TypeOK, CallInv, NEW t \in Threads, NEW i \in Inodes,
         \/ rwl' = [rwl EXCEPT ![i] = Lock!Unlock(@, t)]
         \/ /\ Lock!CanWrite(rwl[i])
            /\ rwl' = [rwl EXCEPT ![i] = Lock!Unlock(Lock!WrLock(@, t), t)]
         \/ /\ Lock!CanWrite(rwl[i])
            /\ rwl' = [rwl EXCEPT ![i] = Lock!WrLock(@, t)]
         \/ rwl' = [rwl EXCEPT ![i] = Lock!RdLock(@)]
  PROVE  \A u \in Threads \ {t} : Doing(u, "write") => rwl'[call[u].inum].writer = u
  <1>1. rwl[i] \in Lock!Rwlocks(Threads)
    BY DEF TypeOK
  <1>2. Lock!WrLock(rwl[i], t) \in Lock!Rwlocks(Threads)
    BY <1>1, RwlockOps
  <1>3. PICK l : rwl' = [rwl EXCEPT ![i] = l]
                 /\ (l.writer = rwl[i].writer \/ rwl[i].writer \in {t, NoThread})
    <2>1. Lock!Unlock(rwl[i], t).writer = rwl[i].writer \/ rwl[i].writer = t
      BY <1>1, RwlockOps
    <2>2. Lock!CanWrite(rwl[i]) => rwl[i].writer = NoThread
      BY DEF Lock!CanWrite
    <2>3. Lock!RdLock(rwl[i]).writer = rwl[i].writer
      BY <1>1, RwlockOps
    <2> QED BY <2>1, <2>2, <2>3
  <1> QED BY <1>3, WritersStay

LEMMA OpenExistingCalls ==
  ASSUME TypeOK, CallInv, NEW t \in Threads, NEW i \in Files, NEW append \in BOOLEAN,
         OpenExisting(t, i, append)
  PROVE  CallInv'
  <1>1. i \in Inodes /\ UNCHANGED tables
    BY DEF Files, OpenExisting
  <1>2. PICK n \in Nat : AddToOpenFileTable(t, i, n)
    BY <1>1 DEF OpenExisting, TypeOK
  <1>3. \A u \in Threads \ {t} : Doing(u, "write") => rwl'[call[u].inum].writer = u
    BY <1>1, LockReturned DEF OpenExisting
  <1>4. Files' = Files /\ inode_table' = inode_table
    BY <1>1 DEF tables, Files
  <1>5. HandlesLead'
    BY <1>1, <1>2, <1>4, HandleAdded DEF CallInv, HandlesLead, Issued
  <1>6. /\ call'[t] = Idle /\ \A u \in Threads \ {t} : call'[u] = call[u]
        /\ \A u \in Threads : InLoop(u) =>
              open_file_table'[call[u].fh].of_offset = open_file_table[call[u].fh].of_offset
    BY <1>1, <1>2, HandleAdded
  <1> QED BY <1>3, <1>4, <1>5, <1>6, IdleGood, CallsKept

LEMMA OpenTruncatedCalls ==
  ASSUME TypeOK, CallInv, NEW t \in Threads, OpenTruncated(t) PROVE CallInv'
  <1>1. PICK i \in Files : i = call[t].inum
    BY DEF OpenTruncated, CallInv, Good
  <1>2. i \in Inodes /\ UNCHANGED tables
    BY DEF Files, OpenTruncated
  <1>3. PICK n \in Nat : AddToOpenFileTable(t, i, n)
    BY <1>1, <1>2 DEF OpenTruncated, TypeOK
  <1>4. \A u \in Threads \ {t} : Doing(u, "write") => rwl'[call[u].inum].writer = u
    BY <1>1, <1>2, LockReturned DEF OpenTruncated
  <1>5. Files' = Files /\ inode_table' = inode_table
    BY <1>2 DEF tables, Files
  <1>6. HandlesLead'
    BY <1>2, <1>3, <1>5, HandleAdded DEF CallInv, HandlesLead, Issued
  <1>7. /\ call'[t] = Idle /\ \A u \in Threads \ {t} : call'[u] = call[u]
        /\ \A u \in Threads : InLoop(u) =>
              open_file_table'[call[u].fh].of_offset = open_file_table[call[u].fh].of_offset
    BY <1>2, <1>3, HandleAdded
  <1> QED BY <1>4, <1>5, <1>6, <1>7, IdleGood, CallsKept

LEMMA TfsCloseCalls ==
  ASSUME TypeOK, CallInv, NEW t \in Threads, NEW fh \in Issued, TfsClose(t, fh) PROVE CallInv'
  <1>1. /\ call'[t] = Idle /\ \A u \in Threads \ {t} : call'[u] = call[u]
        /\ UNCHANGED <<tables, open_file_table, rwl>>
    BY CallMoves DEF TfsClose, Returns
  <1>2. Files' = Files /\ inode_table' = inode_table
    BY <1>1 DEF tables, Files
  <1>3. HandlesLead'
    BY <1>1, <1>2 DEF CallInv, HandlesLead, Issued
  <1>4. \A u \in Threads : Doing(u, "write") => rwl'[call[u].inum].writer = u
    BY <1>1 DEF CallInv, Good, Doing
  <1> QED BY <1>1, <1>2, <1>3, <1>4, IdleGood, CallsKept

LEMMA OpenTruncateCalls ==
  ASSUME TypeOK, CallInv, NEW t \in Threads, NEW i \in Files, NEW append \in BOOLEAN,
         OpenTruncate(t, i, append)
  PROVE  CallInv'
  <1>1. i \in Inodes /\ Lock!CanWrite(rwl[i]) /\ rwl[i].writer = NoThread
    BY DEF Files, OpenTruncate, Lock!CanWrite
  <1>2. \A u \in Threads \ {t} : Doing(u, "write") => rwl'[call[u].inum].writer = u
    <2>1. rwl' = [rwl EXCEPT ![i] = Lock!Unlock(Lock!WrLock(@, t), t)]
      BY DEF OpenTruncate
    <2> QED BY <1>1, <2>1, LockReturned
  <1>3. UNCHANGED <<freeinode_ts, handles>>
    BY DEF OpenTruncate
  <1>4. Files' = Files /\ HandlesLead'
    BY <1>3 DEF Files, HandlesLead, CallInv, Issued, handles
  <1>5. \A j \in Inodes \ {i} : inode_table'[j] = inode_table[j]
    BY <1>1 DEF OpenTruncate, TypeOK
  <1>6. \A u \in Threads \ {t} : Doing(u, "write") =>
          inode_table'[call[u].inum].i_size = inode_table[call[u].inum].i_size
    BY <1>1, <1>5, NobodyWrites, LoopCall DEF Doing, InLoop, LoopPcs
  <1>7. \E c \in {Idle} \cup TruncatedCalls :
          call' = [call EXCEPT ![t] = c] /\ (c.pc = "truncated" => c.inum = i)
    <2> DEFINE last_block == inode_table[i].i_data_block[INDIRECT_ACCESS_BLOCK]
               bonus_block == fs_data[last_block]
               indirect == IF last_block = -1 THEN 0 ELSE Freed(bonus_block, INDIRECT_REFERENCES)
               failed == /\ last_block # -1 /\ indirect < INDIRECT_REFERENCES
                         /\ bonus_block[indirect] # -1
               r == [pc |-> "truncated", inum |-> i, append |-> append]
               d == IF inode_table[i].i_size > 0 /\ failed THEN Idle ELSE r
    <2>1. call' = [call EXCEPT ![t] = d]
      BY DEF OpenTruncate
    <2>2. r \in TruncatedCalls /\ r.inum = i /\ Idle.pc # "truncated"
      BY <1>1 DEF TruncatedCalls, Idle
    <2>3. d = Idle \/ d = r
      OBVIOUS
    <2> HIDE DEF d, r, last_block, bonus_block, indirect, failed
    <2>4. d \in {Idle} \cup TruncatedCalls /\ (d.pc = "truncated" => d.inum = i)
      BY <2>2, <2>3
    <2> QED BY <2>1, <2>4
  <1>8. PICK c \in {Idle} \cup TruncatedCalls :
          call' = [call EXCEPT ![t] = c] /\ (c.pc = "truncated" => c.inum = i)
    BY <1>7
  <1>9. call'[t] = c /\ \A u \in Threads \ {t} : call'[u] = call[u]
    BY <1>8, CallMoves
  <1>10. Good(t)' /\ ~InLoop(t)'
    <2>1. c.pc \in {"idle", "truncated"}
      BY <1>8 DEF Idle, TruncatedCalls
    <2> QED BY <1>4, <1>8, <1>9, <2>1 DEF Good, InLoop, Doing
  <1>11. \A u \in Threads : InLoop(u) =>
           open_file_table'[call[u].fh].of_offset = open_file_table[call[u].fh].of_offset
    BY <1>3 DEF handles
  <1> QED BY <1>2, <1>4, <1>6, <1>9, <1>10, <1>11, CallsKept

LEMMA Enters ==
  ASSUME TypeOK, CallInv, NEW t \in Threads, NEW op \in {"write", "read"}, NEW fh \in Issued,
         NEW byte \in Data \cup {0}, NEW n \in Nat,
         FileLockFree(fh), call' = [call EXCEPT ![t] = Call(op, fh, byte, n)],
         UNCHANGED <<tables, handles>>,
         op = "write" => byte \in Data /\ rwl'[open_file_table[fh].of_inumber].writer = t,
         \A u \in Threads \ {t} : Doing(u, "write") => rwl'[call[u].inum].writer = u
  PROVE  CallInv'
  <1>1. PICK c : c = Call(op, fh, byte, n)
    OBVIOUS
  <1>2. c \in LoopCalls /\ fh \in Handles
    BY <1>1, CallTyped
  <1>3. call'[t] = c /\ \A u \in Threads \ {t} : call'[u] = call[u]
    BY <1>1, <1>2, CallMoves
  <1>4. Files' = Files /\ HandlesLead' /\ inode_table' = inode_table /\ open_file_table' = open_file_table
    BY DEF Files, HandlesLead, CallInv, Issued, handles, tables
  <1>5. /\ c.pc = "run" /\ c.op = op /\ c.fh = fh /\ c.inum = open_file_table[fh].of_inumber
        /\ c.byte = byte /\ c.start = open_file_table[fh].of_offset
        /\ c.size = inode_table[c.inum].i_size
    BY <1>1 DEF Call
  <1>6. c.inum \in Files /\ c.inum \in Inodes /\ c.start \in Nat /\ c.size \in Nat
    BY <1>2, <1>5 DEF CallInv, HandlesLead, LoopCalls
  <1>7. Good(t)'
    <2>1. call'[t].inum \in Files' /\ call'[t].pc = "run"
      BY <1>3, <1>4, <1>5, <1>6
    <2>2. Offset(t)' = c.start /\ inode_table'[c.inum].i_size = c.size
      BY <1>3, <1>4, <1>5 DEF Offset
    <2>3. call'[t].op = "write" => rwl'[call'[t].inum].writer = t /\ call'[t].byte \in Data
      BY <1>3, <1>5
    <2>4. call'[t].start <= Offset(t)'
          /\ inode_table'[call'[t].inum].i_size = call'[t].size + (Offset(t)' - call'[t].start)
      BY <1>3, <1>6, <2>2
    <2> QED BY <2>1, <2>3, <2>4 DEF Good, InLoop, Doing
  <1>8. \A u \in Threads \ {t} : InLoop(u) => call[u].fh # call'[t].fh
    BY <1>3, <1>5 DEF FileLockFree
  <1> QED BY <1>3, <1>4, <1>7, <1>8, CallsKept

LEMMA WriteBeginCalls ==
  ASSUME TypeOK, CallInv, NEW t \in Threads, NEW fh \in Issued, NEW len \in Lengths, NEW byte \in Data,
         WriteBegin(t, fh, byte, len)
  PROVE  CallInv'
  <1>1. PICK i \in Inodes : i = open_file_table[fh].of_inumber
    BY DEF Issued, TypeOK
  <1>2. /\ FileLockFree(fh) /\ Lock!CanWrite(rwl[i]) /\ rwl' = [rwl EXCEPT ![i] = Lock!WrLock(@, t)]
        /\ call' = [call EXCEPT ![t] = Call("write", fh, byte, len)] /\ UNCHANGED <<tables, handles>>
    BY <1>1 DEF WriteBegin
  <1>3. rwl'[i].writer = t
    <2>1. PICK l : l = Lock!WrLock(rwl[i], t)
      OBVIOUS
    <2>2. l.writer = t /\ rwl' = [rwl EXCEPT ![i] = l]
      BY <1>2, <2>1, RwlockOps DEF TypeOK
    <2> QED BY <2>2 DEF TypeOK
  <1>4. \A u \in Threads \ {t} : Doing(u, "write") => rwl'[call[u].inum].writer = u
    BY <1>2, LockReturned
  <1>5. len \in Nat
    BY SizesAssumption
  <1> QED BY <1>1, <1>2, <1>3, <1>4, <1>5, Enters

LEMMA ToReadNat ==
  ASSUME TypeOK, NEW fh \in Issued, NEW len \in Lengths
  PROVE  ToRead(inode_table[open_file_table[fh].of_inumber].i_size, open_file_table[fh].of_offset, len) \in Nat
  <1> DEFINE i == open_file_table[fh].of_inumber
             a == inode_table[i].i_size
             o == open_file_table[fh].of_offset
  <1>1. a - o \in Int /\ len \in Nat /\ SIZE_T \in Nat \ {0}
    BY SizesAssumption DEF TypeOK, Issued
  <1>2. (a - o) % SIZE_T \in Nat
    <2> HIDE DEF a, o
    <2> QED BY <1>1
  <1> QED BY <1>1, <1>2 DEF ToRead, SizeSub, Min2

LEMMA ReadBeginCalls ==
  ASSUME TypeOK, CallInv, NEW t \in Threads, NEW fh \in Issued, NEW len \in Lengths, ReadBegin(t, fh, len)
  PROVE  CallInv'
  <1>1. PICK i \in Inodes : i = open_file_table[fh].of_inumber
    BY DEF Issued, TypeOK
  <1>2. PICK n \in Nat : n = ToRead(inode_table[i].i_size, open_file_table[fh].of_offset, len)
    BY <1>1, ToReadNat
  <1>3. /\ FileLockFree(fh) /\ rwl' = [rwl EXCEPT ![i] = Lock!RdLock(@)]
        /\ call' = [call EXCEPT ![t] = Call("read", fh, 0, n)] /\ UNCHANGED <<tables, handles>>
    BY <1>1, <1>2 DEF ReadBegin
  <1>4. \A u \in Threads \ {t} : Doing(u, "write") => rwl'[call[u].inum].writer = u
    BY <1>3, LockReturned
  <1> QED BY <1>3, <1>4, Enters

LEMMA WritersApart ==
  ASSUME TypeOK, CallInv, NEW t \in Threads, NEW u \in Threads \ {t}, Doing(t, "write"), Doing(u, "write")
  PROVE  call[t].inum # call[u].inum
  BY DEF CallInv, Good

LEMMA LoopStays ==
  ASSUME TypeOK, CallInv, NEW t \in Threads, InLoop(t), InLoop(t)', freeinode_ts' = freeinode_ts, rwl' = rwl,
         \A u \in Threads \ {t} : call'[u] = call[u],
         call'[t].op = call[t].op, call'[t].fh = call[t].fh, call'[t].inum = call[t].inum,
         call'[t].byte = call[t].byte, call'[t].start = call[t].start, call'[t].size = call[t].size,
         call'[t].pc # "run" => call'[t].left > 0,
         \A fh \in Handles : open_file_table'[fh].of_inumber = open_file_table[fh].of_inumber,
         \A fh \in Handles \ {call[t].fh} : open_file_table'[fh].of_offset = open_file_table[fh].of_offset,
         \A i \in Inodes : \/ inode_table'[i].i_size = inode_table[i].i_size
                           \/ Doing(t, "write") /\ i = call[t].inum,
         Doing(t, "write") =>
           \E n \in Nat : /\ Offset(t)' = Offset(t) + n
                          /\ inode_table'[call[t].inum].i_size = inode_table[call[t].inum].i_size + n
  PROVE  CallInv'
  <1>1. Files' = Files /\ HandlesLead'
    BY DEF Files, HandlesLead, CallInv, Issued
  <1>2. call[t].pc \in LoopPcs
    BY DEF InLoop, LoopPcs
  <1>3. call[t].inum \in Inodes /\ call[t].start \in Nat /\ call[t].size \in Nat /\ Offset(t) \in Nat
        /\ inode_table[call[t].inum].i_size \in Nat
    BY <1>2, LoopCall, ChunkFits DEF TypeOK
  <1>4. call'[t].pc # "truncated" /\ call'[t].inum \in Files'
    BY <1>1 DEF CallInv, Good, InLoop
  <1>5. Good(t)'
    <2>1. ASSUME Doing(t, "write")'
          PROVE  /\ rwl'[call'[t].inum].writer = t /\ call'[t].byte \in Data
                 /\ call'[t].start <= Offset(t)'
                 /\ inode_table'[call'[t].inum].i_size = call'[t].size + (Offset(t)' - call'[t].start)
      <3>1. Doing(t, "write")
        BY <2>1 DEF Doing
      <3>2. PICK n \in Nat : /\ Offset(t)' = Offset(t) + n
                             /\ inode_table'[call[t].inum].i_size = inode_table[call[t].inum].i_size + n
        BY <3>1
      <3>3. /\ rwl[call[t].inum].writer = t /\ call[t].byte \in Data /\ call[t].start <= Offset(t)
            /\ inode_table[call[t].inum].i_size = call[t].size + (Offset(t) - call[t].start)
        BY <3>1 DEF CallInv, Good
      <3> QED BY <1>3, <3>2, <3>3
    <2> QED BY <1>4, <2>1 DEF Good
  <1>6. \A u \in Threads \ {t} : InLoop(u) => call[u].fh \in Handles \ {call[t].fh} /\ call[u].inum \in Inodes
    <2> SUFFICES ASSUME NEW u \in Threads \ {t}, InLoop(u)
                 PROVE  call[u].fh \in Handles \ {call[t].fh} /\ call[u].inum \in Inodes
      OBVIOUS
    <2>1. call[u].fh \in Handles /\ call[u].inum \in Inodes
      BY LoopCall DEF InLoop, LoopPcs
    <2> QED BY <2>1 DEF CallInv, HandlesApart
  <1>7. \A u \in Threads \ {t} : Doing(u, "write") =>
          /\ rwl'[call[u].inum].writer = u
          /\ inode_table'[call[u].inum].i_size = inode_table[call[u].inum].i_size
    <2> SUFFICES ASSUME NEW u \in Threads \ {t}, Doing(u, "write")
                 PROVE  /\ rwl'[call[u].inum].writer = u
                        /\ inode_table'[call[u].inum].i_size = inode_table[call[u].inum].i_size
      OBVIOUS
    <2>1. rwl[call[u].inum].writer = u /\ call[u].inum \in Inodes
      BY <1>6 DEF CallInv, Good, Doing
    <2> QED BY <2>1, WritersApart
  <1> QED BY <1>1, <1>5, <1>6, <1>7, CallsKept

LEMMA LoopLeft ==
  ASSUME TypeOK, CallInv, NEW t \in Threads, InLoop(t), Leaves(t), UNCHANGED <<freeinode_ts, handles>>,
         \A i \in Inodes : \/ inode_table'[i].i_size = inode_table[i].i_size
                           \/ Doing(t, "write") /\ i = call[t].inum
  PROVE  CallInv'
  <1>1. Files' = Files /\ HandlesLead'
    BY DEF Files, HandlesLead, CallInv, Issued, handles
  <1>2. call'[t] = Idle /\ \A u \in Threads \ {t} : call'[u] = call[u]
    BY CallMoves DEF Leaves, Returns
  <1>3. call[t].inum \in Inodes
    BY LoopCall DEF InLoop, LoopPcs
  <1>4. \A u \in Threads \ {t} : Doing(u, "write") => rwl'[call[u].inum].writer = u
    <2>1. PICK i \in Inodes : i = call[t].inum
      BY <1>3
    <2>2. rwl' = [rwl EXCEPT ![i] = Lock!Unlock(@, t)]
      BY <2>1 DEF Leaves
    <2> QED BY <2>2, LockReturned
  <1>5. \A u \in Threads \ {t} : Doing(u, "write") =>
          inode_table'[call[u].inum].i_size = inode_table[call[u].inum].i_size
    <2> SUFFICES ASSUME NEW u \in Threads \ {t}, Doing(u, "write")
                 PROVE  inode_table'[call[u].inum].i_size = inode_table[call[u].inum].i_size
      OBVIOUS
    <2>1. call[u].inum \in Inodes
      BY LoopCall DEF Doing, InLoop, LoopPcs
    <2> QED BY <2>1, WritersApart
  <1>6. \A u \in Threads : InLoop(u) =>
          open_file_table'[call[u].fh].of_offset = open_file_table[call[u].fh].of_offset
    BY DEF handles
  <1> QED BY <1>1, <1>2, <1>4, <1>5, <1>6, IdleGood, CallsKept

LEMMA AllocCalls ==
  ASSUME TypeOK, CallInv, NEW t \in Threads, Alloc(t) PROVE CallInv'
  <1>1. InLoop(t) /\ UNCHANGED <<inode_table, freeinode_ts, handles, rwl>>
    BY DEF InLoop, Alloc
  <1>2. PICK b : call'[t] = [call[t] EXCEPT !.pc = "got", !.place = Here(t), !.block = b]
                 /\ call' = [call EXCEPT ![t] = call'[t]]
                 /\ call'[t].pc = "got" /\ call'[t].left = call[t].left /\ call[t].left > 0
    BY AllocStep
  <1>3. \A u \in Threads \ {t} : call'[u] = call[u]
    BY <1>2 DEF TypeOK
  <1>4. /\ call'[t].op = call[t].op /\ call'[t].fh = call[t].fh /\ call'[t].inum = call[t].inum
        /\ call'[t].byte = call[t].byte /\ call'[t].start = call[t].start /\ call'[t].size = call[t].size
    BY <1>1, <1>2, LoopCall DEF InLoop, LoopPcs, LoopCalls
  <1>5. InLoop(t)'
    BY <1>2 DEF InLoop
  <1>6. Offset(t)' = Offset(t) + 0 /\ inode_table[call[t].inum].i_size = inode_table[call[t].inum].i_size + 0
    <2>1. Offset(t) \in Nat /\ inode_table[call[t].inum].i_size \in Nat
      BY <1>1, ChunkFits, LoopCall DEF InLoop, LoopPcs, TypeOK
    <2> QED BY <1>1, <1>4, <2>1 DEF Offset, handles
  <1> QED BY <1>1, <1>2, <1>3, <1>4, <1>5, <1>6, LoopStays DEF handles

LEMMA MovesOn ==
  ASSUME TypeOK, CallInv, NEW t \in Threads, InLoop(t), NEW p \in LoopPcs, call' = [call EXCEPT ![t].pc = p],
         call[t].left > 0, UNCHANGED <<freeinode_ts, handles, rwl>>,
         \A i \in Inodes : inode_table'[i].i_size = inode_table[i].i_size
  PROVE  CallInv'
  <1>1. /\ \A u \in Threads \ {t} : call'[u] = call[u]
        /\ call'[t] = [call[t] EXCEPT !.pc = p] /\ call'[t].pc = p
    BY PcMoves DEF InLoop, LoopPcs
  <1>2. /\ call'[t].op = call[t].op /\ call'[t].fh = call[t].fh /\ call'[t].inum = call[t].inum
        /\ call'[t].byte = call[t].byte /\ call'[t].start = call[t].start /\ call'[t].size = call[t].size
        /\ call'[t].left = call[t].left
    BY <1>1, LoopCall DEF InLoop, LoopPcs, LoopCalls
  <1>3. InLoop(t)'
    BY <1>1 DEF InLoop, LoopPcs
  <1>4. Offset(t)' = Offset(t) + 0 /\ inode_table'[call[t].inum].i_size = inode_table[call[t].inum].i_size + 0
    <2>1. Offset(t) \in Nat /\ inode_table[call[t].inum].i_size \in Nat /\ call[t].inum \in Inodes
      BY ChunkFits, LoopCall DEF InLoop, LoopPcs, TypeOK
    <2> QED BY <1>2, <2>1 DEF Offset, handles
  <1> QED BY <1>1, <1>2, <1>3, <1>4, LoopStays DEF handles

LEMMA StoreCalls ==
  ASSUME TypeOK, CallInv, NEW t \in Threads, Store(t) PROVE CallInv'
  <1>1. PICK p \in References, i \in Inodes, b \in Blocks \cup {-1} :
          /\ call[t].pc = "got" /\ p = call[t].place /\ i = call[t].inum /\ b = call[t].block
          /\ b # -1 \/ p # IndirectPlace
          /\ p.blk = -1 => inode_table' = [inode_table EXCEPT ![i].i_data_block[p.at] = b]
                            /\ UNCHANGED fs_data
          /\ p.blk # -1 => fs_data' = [fs_data EXCEPT ![p.blk][p.at] = b] /\ UNCHANGED inode_table
          /\ b = -1 => Leaves(t)
          /\ b # -1 => /\ call' = [call EXCEPT ![t].pc = IF p = IndirectPlace THEN "fill" ELSE "use"]
                       /\ UNCHANGED rwl
          /\ Notes(At(i, p) # -1, "raced")
          /\ UNCHANGED <<freeinode_ts, free_blocks, handles>>
    BY StoreStep
  <1>2. InLoop(t) /\ call[t].left > 0
    BY <1>1 DEF InLoop, CallInv, Good
  <1>3. \A j \in Inodes : inode_table'[j].i_size = inode_table[j].i_size
    <2>1. CASE p.blk = -1
      <3>1. PICK k : k = p.at
        OBVIOUS
      <3>2. inode_table' = [inode_table EXCEPT ![i].i_data_block[k] = b]
        BY <1>1, <2>1, <3>1
      <3> QED BY <3>2, RefStored
    <2>2. CASE p.blk # -1
      BY <1>1, <2>2
    <2> QED BY <2>1, <2>2
  <1>4. CASE b = -1
    BY <1>1, <1>2, <1>3, <1>4, LoopLeft
  <1>5. CASE b # -1
    <2>1. PICK x \in LoopPcs : call' = [call EXCEPT ![t].pc = x]
      BY <1>1, <1>5 DEF LoopPcs
    <2> QED BY <1>1, <1>2, <1>3, <1>5, <2>1, MovesOn
  <1> QED BY <1>4, <1>5

LEMMA FillCalls ==
  ASSUME TypeOK, CallInv, NEW t \in Threads, Fill(t) PROVE CallInv'
  <1>1. PICK b \in Blocks \cup {-1} : b = call[t].block
    BY LoopCall DEF Fill, LoopPcs
  <1>2. PICK i \in Inodes : i = call[t].inum
    BY LoopCall DEF Fill, LoopPcs
  <1>3. /\ inode_table' = [inode_table EXCEPT ![i].i_data_block[INDIRECT_ACCESS_BLOCK] = b]
        /\ call' = [call EXCEPT ![t].pc = "run"] /\ call[t].pc = "fill"
        /\ UNCHANGED <<freeinode_ts, handles, rwl>>
    BY <1>1, <1>2 DEF Fill
  <1>4. \A j \in Inodes : inode_table'[j].i_size = inode_table[j].i_size
    BY <1>3, RefStored
  <1>5. InLoop(t) /\ call[t].left > 0 /\ "run" \in LoopPcs
    BY <1>3 DEF InLoop, CallInv, Good, LoopPcs
  <1> QED BY <1>3, <1>4, <1>5, MovesOn

LEMMA NoBlockCalls ==
  ASSUME TypeOK, CallInv, NEW t \in Threads, NoBlock(t) PROVE CallInv'
  <1>1. InLoop(t) /\ Leaves(t) /\ UNCHANGED <<tables, handles>>
    BY DEF NoBlock, InLoop
  <1> QED BY <1>1, LoopLeft DEF tables

LEMMA CopyInCall ==
  ASSUME TypeOK, NEW t \in Threads, CopyIn(t)
  PROVE  /\ \A u \in Threads \ {t} : call'[u] = call[u]
         /\ call'[t] = [call[t] EXCEPT !.pc = "run", !.left = call[t].left - Chunk(t)]
         /\ call'[t] \in LoopCalls
  <1> DEFINE left == call[t].left - Chunk(t)
             c == [call[t] EXCEPT !.pc = "run", !.left = left]
  <1>1. Copying(t, "write") /\ call[t].pc \in LoopPcs
    BY DEF CopyIn, Copying, LoopPcs
  <1>2. left \in Nat
    BY <1>1, ChunkFits, LoopCall
  <1>3. call' = [call EXCEPT ![t] = c]
    BY DEF CopyIn
  <1>4. c \in LoopCalls
    <2> HIDE DEF left
    <2> QED BY <1>1, <1>2, LoopCall DEF LoopCalls, LoopPcs
  <1>5. call'[t] = c /\ \A u \in Threads \ {t} : call'[u] = call[u]
    <2> HIDE DEF c
    <2> QED BY <1>3, <1>4, CallMoves
  <1> QED BY <1>4, <1>5

LEMMA CopyInCalls ==
  ASSUME TypeOK, CallInv, NEW t \in Threads, CopyIn(t) PROVE CallInv'
  <1>1. Copying(t, "write") /\ InLoop(t) /\ Doing(t, "write") /\ call[t].pc \in LoopPcs
        /\ rwl' = rwl /\ freeinode_ts' = freeinode_ts
    BY DEF CopyIn, Copying, InLoop, Doing, LoopPcs
  <1>2. PICK i \in Inodes : i = call[t].inum
    BY <1>1, LoopCall
  <1>3. PICK d \in Nat : d = Chunk(t)
    BY <1>1, ChunkFits
  <1>4. \A u \in Threads \ {t} : call'[u] = call[u]
    BY CopyInCall
  <1>5. /\ call'[t].op = call[t].op /\ call'[t].fh = call[t].fh /\ call'[t].inum = call[t].inum
        /\ call'[t].byte = call[t].byte /\ call'[t].start = call[t].start /\ call'[t].size = call[t].size
        /\ call'[t].pc = "run"
    <2>1. PICK n : call'[t] = [call[t] EXCEPT !.pc = "run", !.left = n]
      BY CopyInCall
    <2> QED BY <1>1, <2>1, LoopCall DEF LoopCalls
  <1>6. inode_table' = [inode_table EXCEPT ![i].i_size = @ + d]
    BY <1>2, <1>3 DEF CopyIn
  <1>7. PICK n \in Nat : n = inode_table[i].i_size + d
    BY DEF TypeOK
  <1>8. inode_table' = [inode_table EXCEPT ![i].i_size = n]
    BY <1>6, <1>7
  <1>9. inode_table'[i].i_size = inode_table[i].i_size + d
        /\ \A j \in Inodes \ {i} : inode_table'[j] = inode_table[j]
    BY <1>7, <1>8, SizeStored
  <1>10. /\ Offset(t)' = Offset(t) + d
         /\ \A fh \in Handles : open_file_table'[fh].of_inumber = open_file_table[fh].of_inumber
         /\ \A fh \in Handles \ {call[t].fh} : open_file_table'[fh] = open_file_table[fh]
    <2>1. open_file_table'[call[t].fh].of_offset = Offset(t) + Chunk(t)
      BY <1>1, CopyingStep
    <2>2. \A fh \in Handles : open_file_table'[fh].of_inumber = open_file_table[fh].of_inumber
      BY <1>1, CopyingStep
    <2>3. \A fh \in Handles \ {call[t].fh} : open_file_table'[fh] = open_file_table[fh]
      BY <1>1, CopyingStep
    <2> QED BY <1>3, <1>5, <2>1, <2>2, <2>3 DEF Offset
  <1>11. InLoop(t)'
    BY <1>5 DEF InLoop
  <1> QED BY <1>1, <1>2, <1>4, <1>5, <1>9, <1>10, <1>11, LoopStays

LEMMA CopyOutCalls ==
  ASSUME TypeOK, CallInv, NEW t \in Threads, CopyOut(t) PROVE CallInv'
  <1>1. Copying(t, "read") /\ InLoop(t) /\ ~Doing(t, "write") /\ call[t].pc \in LoopPcs
        /\ rwl' = rwl /\ UNCHANGED tables
    BY DEF CopyOut, Copying, InLoop, Doing, LoopPcs
  <1>2. PICK n, s : call'[t] = [call[t] EXCEPT !.pc = "run", !.left = n, !.buffer = s]
    <2>1. PICK a \in Blocks :
            call'[t] = [call[t] EXCEPT !.pc = "run", !.left = call[t].left - Chunk(t),
                                       !.buffer = call[t].buffer \o FromOffset(t, fs_data[a])]
      BY CopyOutStep
    <2>2. PICK n, s : n = call[t].left - Chunk(t) /\ s = call[t].buffer \o FromOffset(t, fs_data[a])
      OBVIOUS
    <2> QED BY <2>1, <2>2
  <1>3. \A u \in Threads \ {t} : call'[u] = call[u]
    BY CopyOutStep
  <1>4. /\ call'[t].op = call[t].op /\ call'[t].fh = call[t].fh /\ call'[t].inum = call[t].inum
        /\ call'[t].byte = call[t].byte /\ call'[t].start = call[t].start /\ call'[t].size = call[t].size
        /\ call'[t].pc = "run"
    BY <1>1, <1>2, LoopCall DEF LoopCalls
  <1>5. /\ \A fh \in Handles : open_file_table'[fh].of_inumber = open_file_table[fh].of_inumber
        /\ \A fh \in Handles \ {call[t].fh} : open_file_table'[fh].of_offset = open_file_table[fh].of_offset
    BY <1>1, CopyingStep
  <1>6. InLoop(t)'
    BY <1>4 DEF InLoop
  <1> QED BY <1>1, <1>3, <1>4, <1>5, <1>6, LoopStays DEF tables

LEMMA WriteEndCalls ==
  ASSUME TypeOK, CallInv, NEW t \in Threads, WriteEnd(t) PROVE CallInv'
  <1>1. InLoop(t) /\ Leaves(t) /\ UNCHANGED <<freeinode_ts, handles>> /\ Doing(t, "write")
    BY DEF WriteEnd, InLoop, Doing
  <1>2. PICK i \in Inodes : i = call[t].inum
    BY <1>1, LoopCall DEF InLoop, LoopPcs
  <1>3. PICK n \in Nat : n = SizeWritten(t)
    BY <1>1, SizeWrittenType DEF InLoop, LoopPcs
  <1>4. inode_table' = [inode_table EXCEPT ![i].i_size = n]
    BY <1>2, <1>3 DEF WriteEnd
  <1>5. \A j \in Inodes \ {i} : inode_table'[j] = inode_table[j]
    BY <1>4, SizeStored
  <1> QED BY <1>1, <1>2, <1>5, LoopLeft

LEMMA ReadEndCalls ==
  ASSUME TypeOK, CallInv, NEW t \in Threads, ReadEnd(t) PROVE CallInv'
  <1>1. InLoop(t) /\ Leaves(t) /\ UNCHANGED <<tables, handles>>
    BY DEF ReadEnd, InLoop
  <1> QED BY <1>1, LoopLeft DEF tables

LEMMA DiesCalls ==
  ASSUME TypeOK, CallInv, NEW t \in Threads, Dies(t) PROVE CallInv'
  <1>1. \A u \in Threads : call'[u].pc = "dead"
    BY DEF Dies
  <1>2. \A u \in Threads : Good(u)' /\ ~InLoop(u)'
    BY <1>1 DEF Good, InLoop, Doing
  <1>3. HandlesLead'
    BY DEF Dies, CallInv, HandlesLead, Issued, Files, tables, handles
  <1> QED BY <1>2, <1>3 DEF CallInv, HandlesApart

LEMMA InitCalls == Init => CallInv
  BY DEF Init, CallInv, Good, HandlesLead, HandlesApart, InLoop, Doing, Idle, Issued

LEMMA NextCalls == TypeOK /\ CallInv /\ [Next]_vars => CallInv'
  <1> SUFFICES ASSUME TypeOK, CallInv, [Next]_vars PROVE CallInv'
    OBVIOUS
  <1>1. CASE UNCHANGED vars
    BY <1>1 DEF vars, tables, handles, CallInv, Good, HandlesLead, HandlesApart, InLoop, Doing, Issued,
                Files, Offset
  <1>2. ASSUME NEW t \in Threads, GoesOn(t) PROVE CallInv'
    BY <1>2, OpenTruncatedCalls, AllocCalls, StoreCalls, FillCalls, NoBlockCalls, CopyInCalls,
       CopyOutCalls, WriteEndCalls, ReadEndCalls, DiesCalls DEF GoesOn
  <1>3. ASSUME NEW t \in Threads, Begins(t) PROVE CallInv'
    BY <1>3, OpenCreateCalls, OpenExistingCalls, OpenTruncateCalls, TfsCloseCalls, ReadBeginCalls,
       WriteBeginCalls DEF Begins
  <1> QED BY <1>1, <1>2, <1>3 DEF Next

LEMMA CallsExclusive == Spec => [](TypeOK /\ CallInv)
  <1>1. TypeOK /\ CallInv /\ [Next]_vars => (TypeOK /\ CallInv)'
    BY NextTyped, NextCalls
  <1> QED BY <1>1, InitTyped, InitCalls, PTL DEF Spec

----------------------------------------------------------------------------
(* The sizes that writes leave.                                            *)

LEMMA OneCallBegins ==
  ASSUME NEW t \in Threads, Begins(t) PROVE \E c : call' = [call EXCEPT ![t] = c]
  <1>1. ASSUME NEW i, NEW n, AddToOpenFileTable(t, i, n) PROVE \E c : call' = [call EXCEPT ![t] = c]
    BY <1>1 DEF AddToOpenFileTable, Returns
  <1>2. CASE OpenCreate(t)
    BY <1>1, <1>2 DEF OpenCreate
  <1>3. ASSUME NEW i \in Files, NEW append \in BOOLEAN, OpenExisting(t, i, append)
        PROVE  \E c : call' = [call EXCEPT ![t] = c]
    BY <1>1, <1>3 DEF OpenExisting
  <1>4. ASSUME NEW i \in Files, NEW append \in BOOLEAN, OpenTruncate(t, i, append)
        PROVE  \E c : call' = [call EXCEPT ![t] = c]
    BY <1>4 DEF OpenTruncate
  <1>5. ASSUME NEW fh, TfsClose(t, fh) PROVE \E c : call' = [call EXCEPT ![t] = c]
    BY <1>5 DEF TfsClose, Returns
  <1>6. ASSUME NEW fh, NEW len, ReadBegin(t, fh, len) PROVE \E c : call' = [call EXCEPT ![t] = c]
    BY <1>6 DEF ReadBegin
  <1>7. ASSUME NEW fh, NEW byte, NEW len, WriteBegin(t, fh, byte, len)
        PROVE  \E c : call' = [call EXCEPT ![t] = c]
    BY <1>7 DEF WriteBegin
  <1> QED BY <1>2, <1>3, <1>4, <1>5, <1>6, <1>7 DEF Begins

LEMMA OneCallGoesOn ==
  ASSUME TypeOK, NEW t \in Threads, GoesOn(t), ~Dies(t) PROVE \E c : call' = [call EXCEPT ![t] = c]
  <1>1. CASE OpenTruncated(t)
    BY <1>1 DEF OpenTruncated, AddToOpenFileTable, Returns
  <1>2. CASE Alloc(t)
    BY <1>2, AllocStep
  <1>3. CASE Store(t)
    BY <1>3 DEF Store, Leaves, Returns
  <1>4. CASE Fill(t)
    BY <1>4 DEF Fill
  <1>5. CASE NoBlock(t) \/ WriteEnd(t) \/ ReadEnd(t)
    BY <1>5 DEF NoBlock, WriteEnd, ReadEnd, Leaves, Returns
  <1>6. CASE CopyIn(t)
    BY <1>6 DEF CopyIn
  <1>7. CASE CopyOut(t)
    BY <1>7 DEF CopyOut
  <1> QED BY <1>1, <1>2, <1>3, <1>4, <1>5, <1>6, <1>7 DEF GoesOn

LEMMA EndsHere ==
  ASSUME TypeOK, CallInv, Next, NEW t \in Threads, Doing(t, "write"), call[t].left = 0,
         call'[t].pc = "idle"
  PROVE  WriteEnd(t)
  <1>1. call[t].pc = "run" /\ call[t].op = "write"
    BY DEF CallInv, Good, Doing, InLoop
  <1>2. ASSUME NEW u \in Threads, call[u].pc = "idle", Begins(u) PROVE call'[t] = call[t]
    <2>1. u # t
      BY <1>1, <1>2
    <2>2. PICK c : call' = [call EXCEPT ![u] = c]
      BY <1>2, OneCallBegins
    <2> QED BY <2>1, <2>2 DEF TypeOK
  <1>3. ASSUME NEW u \in Threads \ {t}, GoesOn(u), ~Dies(u) PROVE call'[t] = call[t]
    <2>1. PICK c : call' = [call EXCEPT ![u] = c]
      BY <1>3, OneCallGoesOn
    <2> QED BY <2>1 DEF TypeOK
  <1>4. ASSUME NEW u \in Threads, Dies(u) PROVE FALSE
    BY <1>4 DEF Dies
  <1>5. ASSUME GoesOn(t) PROVE WriteEnd(t)
    <2>1. ~(call[t].left > 0)
      OBVIOUS
    <2>2. ~OpenTruncated(t) /\ ~Store(t) /\ ~Fill(t) /\ ~ReadEnd(t) /\ ~Alloc(t) /\ ~NoBlock(t)
      BY <1>1, <2>1 DEF OpenTruncated, Store, Fill, ReadEnd, Alloc, NoBlock
    <2>3. ~CopyIn(t) /\ ~CopyOut(t)
      BY <2>1 DEF CopyIn, CopyOut, Copying
    <2> QED BY <1>4, <1>5, <2>2, <2>3 DEF GoesOn
  <1> QED BY <1>1, <1>2, <1>3, <1>4, <1>5 DEF Next

LEMMA SizesStep ==
  TypeOK /\ CallInv /\ [Next]_vars =>
    [\A t \in Threads :
       Doing(t, "write") /\ call[t].left = 0 /\ call'[t].pc = "idle" =>
         inode_table'[call[t].inum].i_size = Max2(call[t].size, Offset(t))]_vars
  <1> SUFFICES ASSUME TypeOK, CallInv, Next, NEW t \in Threads,
                      Doing(t, "write"), call[t].left = 0, call'[t].pc = "idle"
               PROVE  inode_table'[call[t].inum].i_size = Max2(call[t].size, Offset(t))
    OBVIOUS
  <1>1. WriteEnd(t) /\ call[t].pc \in LoopPcs
    BY EndsHere DEF Doing, InLoop, LoopPcs
  <1>2. PICK i \in Inodes : i = call[t].inum
    BY <1>1, LoopCall
  <1>3. PICK n \in Nat : n = SizeWritten(t)
    BY <1>1, SizeWrittenType
  <1>4. inode_table'[i].i_size = n
    <2>1. inode_table' = [inode_table EXCEPT ![i].i_size = n]
      BY <1>1, <1>2, <1>3 DEF WriteEnd
    <2> QED BY <2>1, SizeStored
  <1>5. /\ call[t].start <= Offset(t)
        /\ inode_table[i].i_size = call[t].size + (Offset(t) - call[t].start)
    BY <1>2 DEF CallInv, Good
  <1>6. call[t].start \in Nat /\ call[t].size \in Nat /\ Offset(t) \in Nat
    BY <1>1, LoopCall, ChunkFits
  <1>7. n = Max2(call[t].size, Offset(t))
    BY <1>2, <1>3, <1>5, <1>6 DEF SizeWritten, SizeAdded, Max2
  <1> QED BY <1>2, <1>4, <1>7

(* A write that succeeds leaves i_size at the farther of the file's old    *)
(* end and its own, with any number of writers, readers and blocks.        *)
THEOREM SizesRight == Spec => WriteSizes
  BY CallsExclusive, SizesStep, PTL DEF Spec, WriteSizes

----------------------------------------------------------------------------
(* The ownership of blocks, while nothing has gone wrong. A place is where *)
(* a reference of a file can be: in its i-node, or in its block of         *)
(* references once that is filled.                                         *)

Kept(i, a, k) == IF a = -1 THEN inode_table[i].i_data_block[k] ELSE fs_data[a][k]
IsPlace(i, a, k) ==
  \/ a = -1 /\ k \in BlockRefs
  \/ a \in Blocks /\ a = Indirect(i) /\ k \in Cells /\ Filled(a)
InFile(i, a, k) == i \in Files /\ IsPlace(i, a, k) /\ Kept(i, a, k) # -1

RefsTaken ==
  /\ 0 \notin free_blocks
  /\ \A i, a, k : InFile(i, a, k) => Kept(i, a, k) \in Blocks \ (free_blocks \cup {0})
RefsApart ==
  \A i, a, k, j, b, l :
    InFile(i, a, k) /\ InFile(j, b, l) /\ Kept(i, a, k) = Kept(j, b, l) => i = j /\ a = b /\ k = l
GivenApart ==
  \A t \in OnItsWay :
    /\ call[t].block \in Blocks \ (free_blocks \cup {0})
    /\ \A i, a, k : InFile(i, a, k) => Kept(i, a, k) # call[t].block
    /\ \A u \in OnItsWay : call[t].block = call[u].block => t = u
NoneLost ==
  \A b \in Blocks \ (free_blocks \cup {0}) :
    \/ \E i, a, k : InFile(i, a, k) /\ Kept(i, a, k) = b
    \/ \E t \in OnItsWay : call[t].block = b

PlacesKnown ==
  \A t \in Threads : call[t].pc = "got" => IsPlace(call[t].inum, call[t].place.blk, call[t].place.at)
FillsApart ==
  \A t \in Threads : call[t].pc = "fill" =>
    /\ call[t].block \in Blocks /\ Indirect(call[t].inum) = call[t].block
    /\ \A u \in Threads : call[u].pc = "fill" /\ call[u].block = call[t].block => t = u

Owned == RefsTaken /\ RefsApart /\ GivenApart /\ NoneLost /\ PlacesKnown /\ FillsApart
OwnInv == damage = {} /\ ~Dead => Owned

(* What a step does to the contents of files: their references stay, and   *)
(* so do all data, unless in what is a block of references.                *)
RefsStay(i) == \A a, k : InFile(i, a, k) => InFile(i, a, k)' /\ Kept(i, a, k)' = Kept(i, a, k)
DataStays == \A b \in Blocks : fs_data'[b] = fs_data[b] \/ \E j \in Files : Indirect(j) = b
OwnedStep == Owned' /\ (\A i \in Files : RefsStay(i)) /\ DataStays

LEMMA PlaceTyped ==
  ASSUME TypeOK, NEW i \in Inodes, NEW a, NEW k, IsPlace(i, a, k)
  PROVE  /\ (a = -1 /\ k \in BlockRefs) \/ (a \in Blocks /\ a # -1 /\ k \in Cells)
         /\ Kept(i, a, k) \in Blocks \cup {-1} \cup Data
         /\ a = -1 => Kept(i, a, k) \in Blocks \cup {-1}
  <1>1. CASE a = -1 /\ k \in BlockRefs
    BY <1>1 DEF Kept, TypeOK
  <1>2. CASE a \in Blocks /\ k \in Cells
    <2>1. a # -1
      BY <1>2, Sizes
    <2> QED BY <1>2, <2>1 DEF Kept, TypeOK
  <1> QED BY <1>1, <1>2 DEF IsPlace

(* The references stay as they are.                                        *)
LEMMA RefsKept ==
  ASSUME Owned, free_blocks' = free_blocks, OnItsWay' = OnItsWay,
         \A t \in OnItsWay : call'[t].block = call[t].block,
         \A i, a, k : InFile(i, a, k)' <=> InFile(i, a, k),
         \A i, a, k : InFile(i, a, k) => Kept(i, a, k)' = Kept(i, a, k)
  PROVE  RefsTaken' /\ RefsApart' /\ GivenApart' /\ NoneLost'
  <1>1. RefsTaken'
    BY DEF Owned, RefsTaken
  <1>2. RefsApart'
    BY DEF Owned, RefsApart
  <1>3. GivenApart'
    BY DEF Owned, GivenApart
  <1>4. NoneLost'
    BY DEF Owned, NoneLost
  <1> QED BY <1>1, <1>2, <1>3, <1>4

(* The steps of a thread that neither gets a block nor fills one, nor      *)
(* changes a reference.                                                    *)
LEMMA QuietOwned ==
  ASSUME TypeOK, Owned, NEW t \in Threads,
         \A u \in Threads \ {t} : call'[u] = call[u],
         call[t].pc \notin {"got", "fill"}, call'[t].pc \notin {"got", "fill"},
         UNCHANGED <<freeinode_ts, fs_data, free_blocks>>,
         \A i \in Inodes : inode_table'[i].i_data_block = inode_table[i].i_data_block
  PROVE  OwnedStep
  <1>1. Files' = Files /\ OnItsWay' = OnItsWay
    BY DEF Files, OnItsWay
  <1>2. \A a : Filled(a)' <=> Filled(a)
    BY DEF Filled
  <1>3. \A i \in Inodes : \A a, k : IsPlace(i, a, k)' <=> IsPlace(i, a, k)
    BY <1>2 DEF IsPlace, Indirect
  <1>4. \A i \in Inodes : \A a, k : Kept(i, a, k)' = Kept(i, a, k)
    BY DEF Kept
  <1>5. \A i, a, k : InFile(i, a, k)' <=> InFile(i, a, k)
    BY <1>1, <1>3, <1>4 DEF InFile, Files
  <1>6. \A i, a, k : InFile(i, a, k) => Kept(i, a, k)' = Kept(i, a, k)
    BY <1>4 DEF InFile, Files
  <1>7. \A u \in OnItsWay : call'[u].block = call[u].block
    BY DEF OnItsWay
  <1>8. RefsTaken' /\ RefsApart' /\ GivenApart' /\ NoneLost'
    BY <1>1, <1>5, <1>6, <1>7, RefsKept
  <1>9. PlacesKnown'
    <2> SUFFICES ASSUME NEW u \in Threads, call'[u].pc = "got"
                 PROVE  IsPlace(call[u].inum, call[u].place.blk, call[u].place.at)'
      BY DEF PlacesKnown
    <2>1. u # t /\ call'[u] = call[u] /\ call[u].pc = "got"
      OBVIOUS
    <2>2. PICK i, a, k : i = call[u].inum /\ a = call[u].place.blk /\ k = call[u].place.at
                         /\ i \in Inodes
      BY <2>1, LoopCall DEF LoopPcs
    <2>3. IsPlace(i, a, k)
      BY <2>1, <2>2 DEF Owned, PlacesKnown
    <2>4. IsPlace(i, a, k)'
      BY <1>3, <2>2, <2>3
    <2> QED BY <2>1, <2>2, <2>4
  <1>10. FillsApart'
    <2> SUFFICES ASSUME NEW u \in Threads, call'[u].pc = "fill"
                 PROVE  /\ call'[u].block \in Blocks /\ Indirect(call[u].inum)' = call'[u].block
                        /\ \A v \in Threads : call'[v].pc = "fill" /\ call'[v].block = call'[u].block => u = v
      BY DEF FillsApart
    <2>1. u # t /\ call'[u] = call[u] /\ call[u].inum \in Inodes
      BY LoopCall DEF LoopPcs
    <2>2. Indirect(call[u].inum)' = Indirect(call[u].inum)
      BY <2>1 DEF Indirect
    <2>3. \A v \in Threads : call'[v].pc = "fill" => v # t /\ call'[v] = call[v]
      OBVIOUS
    <2> QED BY <2>1, <2>2, <2>3 DEF Owned, FillsApart
  <1> QED BY <1>5, <1>6, <1>8, <1>9, <1>10 DEF Owned, OwnedStep, RefsStay, DataStays

LEMMA QuietOpens ==
  ASSUME TypeOK, CallInv, Owned, NEW t \in Threads, call[t].pc \notin {"got", "fill"},
         UNCHANGED tables, NEW i \in Inodes, NEW n \in Nat, AddToOpenFileTable(t, i, n)
  PROVE  OwnedStep
  <1>1. call'[t] = Idle /\ \A u \in Threads \ {t} : call'[u] = call[u]
    BY HandleAdded
  <1>2. call'[t].pc \notin {"got", "fill"}
    BY <1>1 DEF Idle
  <1>3. UNCHANGED <<inode_table, freeinode_ts, fs_data, free_blocks>>
    BY DEF tables
  <1> QED BY <1>1, <1>2, <1>3, QuietOwned

LEMMA QuietBegins ==
  ASSUME TypeOK, CallInv, Owned, NEW t \in Threads, call[t].pc = "idle",
         \/ \E i \in Files, append \in BOOLEAN : OpenExisting(t, i, append)
         \/ \E fh \in Issued :
              \/ TfsClose(t, fh)
              \/ \E len \in Lengths :
                   ReadBegin(t, fh, len) \/ \E byte \in Data : WriteBegin(t, fh, byte, len)
  PROVE  OwnedStep
  <1>1. ASSUME NEW i \in Files, NEW append \in BOOLEAN, OpenExisting(t, i, append) PROVE OwnedStep
    <2>1. PICK n \in Nat : AddToOpenFileTable(t, i, n)
      BY <1>1 DEF OpenExisting, TypeOK, Files
    <2>2. i \in Inodes /\ UNCHANGED tables
      BY <1>1 DEF OpenExisting, Files
    <2> QED BY <2>1, <2>2, QuietOpens
  <1>2. ASSUME NEW c \in {Idle} \cup LoopCalls, call' = [call EXCEPT ![t] = c], c.pc \in {"idle", "run"},
               UNCHANGED tables
        PROVE  OwnedStep
    <2>1. call'[t] = c /\ \A u \in Threads \ {t} : call'[u] = call[u]
      BY <1>2, CallMoves
    <2>2. UNCHANGED <<inode_table, freeinode_ts, fs_data, free_blocks>>
      BY <1>2 DEF tables
    <2> QED BY <1>2, <2>1, <2>2, QuietOwned
  <1>3. ASSUME NEW fh \in Issued, TfsClose(t, fh) PROVE OwnedStep
    <2>1. call' = [call EXCEPT ![t] = Idle] /\ UNCHANGED tables /\ Idle.pc = "idle"
      BY <1>3 DEF TfsClose, Returns, Idle
    <2> QED BY <1>2, <2>1
  <1>4. ASSUME NEW fh \in Issued, NEW len \in Lengths, NEW byte \in Data, WriteBegin(t, fh, byte, len)
        PROVE  OwnedStep
    <2>1. PICK c : c = Call("write", fh, byte, len)
      OBVIOUS
    <2>2. call' = [call EXCEPT ![t] = c] /\ UNCHANGED tables /\ c.pc = "run"
      BY <1>4, <2>1 DEF WriteBegin, Call
    <2>3. len \in Nat
      BY SizesAssumption
    <2>4. c \in LoopCalls
      BY <2>1, <2>3, CallTyped
    <2> QED BY <1>2, <2>2, <2>4
  <1>5. ASSUME NEW fh \in Issued, NEW len \in Lengths, ReadBegin(t, fh, len) PROVE OwnedStep
    <2>1. PICK i \in Inodes : i = open_file_table[fh].of_inumber
      BY DEF Issued, TypeOK
    <2>2. PICK n \in Nat : n = ToRead(inode_table[i].i_size, open_file_table[fh].of_offset, len)
      BY <2>1, ToReadNat
    <2>3. PICK c : c = Call("read", fh, 0, n)
      OBVIOUS
    <2>4. call' = [call EXCEPT ![t] = c] /\ UNCHANGED tables /\ c.pc = "run"
      BY <1>5, <2>1, <2>2, <2>3 DEF ReadBegin, Call
    <2>5. c \in LoopCalls
      BY <2>3, CallTyped
    <2> QED BY <1>2, <2>4, <2>5
  <1> QED BY <1>1, <1>3, <1>4, <1>5

LEMMA QuietGoesOn ==
  ASSUME TypeOK, CallInv, Owned, NEW t \in Threads,
         OpenTruncated(t) \/ NoBlock(t) \/ CopyOut(t) \/ WriteEnd(t) \/ ReadEnd(t)
  PROVE  OwnedStep
  <1>1. CASE OpenTruncated(t)
    <2>1. PICK i \in Files : i = call[t].inum
      BY <1>1 DEF OpenTruncated, CallInv, Good
    <2>2. i \in Inodes /\ UNCHANGED tables /\ call[t].pc \notin {"got", "fill"}
      BY <1>1 DEF Files, OpenTruncated
    <2>3. PICK n \in Nat : AddToOpenFileTable(t, i, n)
      BY <1>1, <2>1, <2>2 DEF OpenTruncated, TypeOK
    <2> QED BY <2>2, <2>3, QuietOpens
  <1>2. CASE NoBlock(t) \/ WriteEnd(t) \/ ReadEnd(t)
    <2>1. /\ Leaves(t) /\ call[t].pc \in LoopPcs /\ call[t].pc \notin {"got", "fill"}
          /\ UNCHANGED <<freeinode_ts, fs_data, free_blocks>>
      BY <1>2 DEF NoBlock, WriteEnd, ReadEnd, tables, LoopPcs
    <2>2. call'[t] = Idle /\ \A u \in Threads \ {t} : call'[u] = call[u]
      BY <2>1, CallMoves DEF Leaves, Returns
    <2>3. \A i \in Inodes : inode_table'[i].i_data_block = inode_table[i].i_data_block
      <3>1. CASE WriteEnd(t)
        <4>1. PICK n \in Nat : n = SizeWritten(t)
          BY <2>1, SizeWrittenType
        <4>2. PICK i \in Inodes : i = call[t].inum
          BY <2>1, LoopCall
        <4>3. inode_table' = [inode_table EXCEPT ![i].i_size = n]
          BY <3>1, <4>1, <4>2 DEF WriteEnd
        <4> QED BY <4>3, SizeStored
      <3>2. CASE NoBlock(t) \/ ReadEnd(t)
        BY <3>2 DEF NoBlock, ReadEnd, tables
      <3> QED BY <1>2, <3>1, <3>2
    <2>4. call'[t].pc \notin {"got", "fill"}
      BY <2>2 DEF Idle
    <2> QED BY <2>1, <2>2, <2>3, <2>4, QuietOwned
  <1>3. CASE CopyOut(t)
    <2>1. UNCHANGED <<inode_table, freeinode_ts, fs_data, free_blocks>> /\ call[t].pc \in {"run", "use"}
      BY <1>3 DEF CopyOut, Copying, tables
    <2>2. \A u \in Threads \ {t} : call'[u] = call[u]
      BY <1>3, CopyOutStep
    <2>3. call'[t].pc = "run"
      <3>1. PICK n, s : call'[t] = [call[t] EXCEPT !.pc = "run", !.left = n, !.buffer = s]
        <4>1. PICK a \in Blocks :
                call'[t] = [call[t] EXCEPT !.pc = "run", !.left = call[t].left - Chunk(t),
                                           !.buffer = call[t].buffer \o FromOffset(t, fs_data[a])]
          BY <1>3, CopyOutStep
        <4>2. PICK n, s : n = call[t].left - Chunk(t) /\ s = call[t].buffer \o FromOffset(t, fs_data[a])
          OBVIOUS
        <4> QED BY <4>1, <4>2
      <3> QED BY <2>1, <3>1, LoopCall DEF LoopPcs, LoopCalls
    <2> QED BY <2>1, <2>2, <2>3, QuietOwned
  <1> QED BY <1>1, <1>2, <1>3

LEMMA GotAndFills ==
  ASSUME TypeOK, CallInv, Owned, NEW t \in Threads,
         \A u \in Threads \ {t} : call'[u] = call[u],
         call'[t].pc = "got" => IsPlace(call[t].inum, call[t].place.blk, call[t].place.at)',
         call'[t].pc = "fill" =>
           /\ call'[t].block \in Blocks /\ Indirect(call[t].inum)' = call'[t].block
           /\ \A u \in Threads \ {t} : call[u].pc = "fill" => call[u].block # call'[t].block,
         \A i \in Files : \A a, k : IsPlace(i, a, k) => IsPlace(i, a, k)',
         \A u \in Threads \ {t} : call[u].pc = "fill" => Indirect(call[u].inum)' = call[u].block
  PROVE  PlacesKnown' /\ FillsApart'
  <1>1. PlacesKnown'
    <2> SUFFICES ASSUME NEW u \in Threads \ {t}, call'[u].pc = "got"
                 PROVE  IsPlace(call[u].inum, call[u].place.blk, call[u].place.at)'
      BY DEF PlacesKnown
    <2>1. call'[u] = call[u] /\ call[u].pc = "got"
      OBVIOUS
    <2>2. PICK i, a, k : i = call[u].inum /\ a = call[u].place.blk /\ k = call[u].place.at
                         /\ i \in Files
      BY <2>1 DEF CallInv, Good, InLoop
    <2>3. IsPlace(i, a, k)
      BY <2>1, <2>2 DEF Owned, PlacesKnown
    <2>4. IsPlace(i, a, k)'
      BY <2>2, <2>3
    <2> QED BY <2>1, <2>2, <2>4
  <1>2. FillsApart'
    <2> SUFFICES ASSUME NEW u \in Threads, call'[u].pc = "fill"
                 PROVE  /\ call'[u].block \in Blocks /\ Indirect(call[u].inum)' = call'[u].block
                        /\ \A v \in Threads : call'[v].pc = "fill" /\ call'[v].block = call'[u].block => u = v
      BY DEF FillsApart
    <2>1. CASE u = t
      BY <2>1
    <2>2. CASE u # t
      <3>1. call'[u] = call[u] /\ call[u].pc = "fill" /\ call[u].block \in Blocks
        BY <2>2 DEF Owned, FillsApart
      <3>2. Indirect(call[u].inum)' = call'[u].block
        <4>1. PICK i : i = call[u].inum
          OBVIOUS
        <4>2. Indirect(i)' = call[u].block
          BY <2>2, <3>1, <4>1
        <4> QED BY <3>1, <4>1, <4>2
      <3>3. ASSUME NEW v \in Threads, call'[v].pc = "fill", call'[v].block = call'[u].block PROVE u = v
        BY <2>2, <3>1, <3>3 DEF Owned, FillsApart
      <3> QED BY <3>1, <3>2, <3>3
    <2> QED BY <2>1, <2>2
  <1> QED BY <1>1, <1>2

LEMMA OpenCreateOwned ==
  ASSUME TypeOK, CallInv, Owned, NEW t \in Threads, call[t].pc = "idle", OpenCreate(t)
  PROVE  OwnedStep
  <1>1. PICK i \in freeinode_ts :
          /\ freeinode_ts' = freeinode_ts \ {i}
          /\ inode_table' = [inode_table EXCEPT ![i] = NewFile]
          /\ AddToOpenFileTable(t, i, 0)
    BY DEF OpenCreate
  <1>2. /\ i \in Inodes /\ i \notin Files /\ Files' = Files \cup {i} /\ Files \subseteq Inodes
        /\ UNCHANGED <<fs_data, free_blocks>>
    BY <1>1 DEF TypeOK, Files, OpenCreate
  <1>3. call'[t] = Idle /\ \A u \in Threads \ {t} : call'[u] = call[u]
    BY <1>1, <1>2, HandleAdded
  <1>4. Idle.pc = "idle"
    BY DEF Idle
  <1>5. OnItsWay' = OnItsWay /\ (\A a : Filled(a)' <=> Filled(a))
        /\ \A u \in OnItsWay : call'[u].block = call[u].block
    BY <1>3, <1>4 DEF OnItsWay, Filled
  <1>6. inode_table'[i] = NewFile /\ \A j \in Files : inode_table'[j] = inode_table[j]
    BY <1>1, <1>2 DEF TypeOK
  <1>7. \A j \in Files : \A a, k : (IsPlace(j, a, k)' <=> IsPlace(j, a, k)) /\ Kept(j, a, k)' = Kept(j, a, k)
    BY <1>2, <1>5, <1>6 DEF IsPlace, Kept, Indirect
  <1>8. \A a, k : ~InFile(i, a, k)'
    <2> SUFFICES ASSUME NEW a, NEW k, InFile(i, a, k)' PROVE FALSE
      OBVIOUS
    <2>1. IsPlace(i, a, k)' /\ Kept(i, a, k)' # -1
      BY DEF InFile
    <2>2. Indirect(i)' = -1
      BY <1>6, Sizes DEF Indirect, NewFile
    <2>3. a = -1 /\ k \in BlockRefs
      BY <2>1, <2>2, Sizes DEF IsPlace
    <2> QED BY <1>6, <2>1, <2>3 DEF Kept, NewFile
  <1>9. \A j, a, k : InFile(j, a, k)' <=> InFile(j, a, k)
    BY <1>2, <1>7, <1>8 DEF InFile
  <1>10. \A j, a, k : InFile(j, a, k) => Kept(j, a, k)' = Kept(j, a, k)
    BY <1>7 DEF InFile
  <1>11. RefsTaken' /\ RefsApart' /\ GivenApart' /\ NoneLost'
    BY <1>2, <1>5, <1>9, <1>10, RefsKept
  <1>12. \A u \in Threads \ {t} : call[u].pc = "fill" => Indirect(call[u].inum)' = call[u].block
    <2> SUFFICES ASSUME NEW u \in Threads \ {t}, call[u].pc = "fill"
                 PROVE  Indirect(call[u].inum)' = call[u].block
      OBVIOUS
    <2>1. call[u].inum \in Files /\ Indirect(call[u].inum) = call[u].block /\ call'[u] = call[u]
      BY <1>3 DEF CallInv, Good, InLoop, Owned, FillsApart
    <2> QED BY <1>6, <2>1 DEF Indirect
  <1>13. PlacesKnown' /\ FillsApart'
    BY <1>3, <1>4, <1>7, <1>12, GotAndFills
  <1> QED BY <1>2, <1>9, <1>10, <1>11, <1>13 DEF Owned, OwnedStep, RefsStay, DataStays

LEMMA TruncateStep ==
  ASSUME TypeOK, NEW t \in Threads, NEW i \in Files, NEW append \in BOOLEAN,
         OpenTruncate(t, i, append), damage' = {}
  PROVE  /\ freeinode_ts' = freeinode_ts /\ fs_data' = fs_data
         /\ \A u \in Threads \ {t} : call'[u] = call[u]
         /\ call'[t].pc \in {"idle", "truncated"}
         /\ \A j \in Inodes \ {i} : inode_table'[j] = inode_table[j]
         /\ \/ inode_table' = inode_table /\ free_blocks' = free_blocks
            \/ /\ Indirect(i) = -1 /\ call'[t].pc = "truncated" /\ call'[t].inum = i
               /\ inode_table'[i].i_data_block = ForgottenRefs(i)
               /\ free_blocks' = free_blocks \cup DirectFreed(inode_table[i].i_data_block)
  <1> DEFINE refs == inode_table[i].i_data_block
             last_block == refs[INDIRECT_ACCESS_BLOCK]
             bonus_block == fs_data[last_block]
             indirect == IF last_block = -1 THEN 0 ELSE Freed(bonus_block, INDIRECT_REFERENCES)
             failed == /\ last_block # -1 /\ indirect < INDIRECT_REFERENCES
                       /\ bonus_block[indirect] # -1
             freed == DirectFreed(refs) \cup First(bonus_block, indirect)
                        \cup (IF last_block = -1 \/ failed THEN {} ELSE {last_block})
             empty == inode_table[i].i_size = 0
             r == [pc |-> "truncated", inum |-> i, append |-> append]
             c == IF inode_table[i].i_size > 0 /\ failed THEN Idle ELSE r
             size == IF failed THEN inode_table[i].i_size ELSE 0
  <1>1. i \in Inodes
    BY DEF Files
  <1>2. /\ call' = [call EXCEPT ![t] = c] /\ freeinode_ts' = freeinode_ts
        /\ empty => UNCHANGED <<inode_table, fs_data, free_blocks, damage>>
        /\ ~empty => /\ inode_table' = [inode_table EXCEPT ![i].i_data_block = ForgottenRefs(i),
                                                           ![i].i_size = size]
                     /\ fs_data' = IF last_block = -1 THEN fs_data
                                   ELSE [fs_data EXCEPT ![last_block] = Blanked(@, indirect)]
                     /\ free_blocks' = free_blocks \cup freed
                     /\ Notes(last_block # -1, "freed")
    BY DEF OpenTruncate
  <1>3. /\ \A u \in Threads \ {t} : call'[u] = call[u]
        /\ call'[t].pc \in {"idle", "truncated"}
    <2>1. r \in TruncatedCalls /\ r.pc = "truncated" /\ Idle.pc = "idle"
      BY <1>1 DEF TruncatedCalls, Idle
    <2>2. c = Idle \/ c = r
      OBVIOUS
    <2> HIDE DEF c, r
    <2> QED BY <1>2, <2>1, <2>2, CallMoves
  <1>4. CASE empty
    BY <1>2, <1>3, <1>4
  <1>5. CASE ~empty
    <2>1. last_block = -1
      BY <1>2, <1>5 DEF Notes
    <2>2. freed = DirectFreed(refs)
      BY <2>1 DEF First
    <2>3. PICK f, n : f = ForgottenRefs(i) /\ n = size
      OBVIOUS
    <2>4. inode_table' = [inode_table EXCEPT ![i].i_data_block = f, ![i].i_size = n]
      BY <1>2, <1>5, <2>3
    <2>5. inode_table'[i].i_data_block = f /\ \A j \in Inodes \ {i} : inode_table'[j] = inode_table[j]
      BY <1>1, <2>4 DEF TypeOK
    <2>6. fs_data' = fs_data /\ free_blocks' = free_blocks \cup freed
      BY <1>2, <1>5, <2>1
    <2>7. call'[t].pc = "truncated" /\ call'[t].inum = i
      <3>1. c = r /\ r \in TruncatedCalls /\ r.pc = "truncated" /\ r.inum = i
        BY <1>1, <2>1 DEF TruncatedCalls
      <3> HIDE DEF c, r
      <3> QED BY <1>2, <3>1, CallMoves
    <2> HIDE DEF freed, c
    <2> QED BY <1>2, <1>3, <2>1, <2>2, <2>3, <2>5, <2>6, <2>7 DEF Indirect
  <1> QED BY <1>4, <1>5

(* The references that are forgotten are those whose blocks are freed.     *)
LEMMA ForgottenRefsFreed ==
  ASSUME TypeOK, NEW i \in Inodes
  PROVE  \E n \in 0 .. INDIRECT_ACCESS_BLOCK :
           /\ \A k \in 0 .. n - 1 : inode_table[i].i_data_block[k] \in Blocks
           /\ DirectFreed(inode_table[i].i_data_block) = {inode_table[i].i_data_block[k] : k \in 0 .. n - 1}
           /\ \A k \in BlockRefs :
                ForgottenRefs(i)[k] = IF k < n THEN -1 ELSE inode_table[i].i_data_block[k]
  <1>1. PICK refs : refs = inode_table[i].i_data_block /\ refs \in [BlockRefs -> Blocks \cup {-1}]
    BY DEF TypeOK
  <1>2. PICK n \in 0 .. INDIRECT_ACCESS_BLOCK : n = Freed(refs, INDIRECT_ACCESS_BLOCK)
    BY FreedStops, Sizes
  <1>3. \A k \in 0 .. n - 1 : refs[k] \in Blocks
    BY <1>2, FreedStops, Sizes
  <1>4. DirectFreed(refs) = {refs[k] : k \in 0 .. n - 1}
    BY <1>2 DEF DirectFreed, First
  <1>5. \A k \in BlockRefs : ForgottenRefs(i)[k] = IF k < n THEN -1 ELSE refs[k]
    BY <1>1, <1>2 DEF ForgottenRefs, Blanked
  <1> QED BY <1>1, <1>3, <1>4, <1>5

LEMMA OpenTruncateOwned ==
  ASSUME TypeOK, CallInv, Owned, NEW t \in Threads, call[t].pc = "idle", NEW i \in Files,
         NEW append \in BOOLEAN, OpenTruncate(t, i, append), damage' = {}
  PROVE  /\ Owned' /\ DataStays
         /\ \A j \in Files : RefsStay(j) \/ (j = i /\ Truncates(t, i))
  <1>1. /\ freeinode_ts' = freeinode_ts /\ fs_data' = fs_data
        /\ \A u \in Threads \ {t} : call'[u] = call[u]
        /\ call'[t].pc \notin {"got", "fill"}
        /\ \A j \in Inodes \ {i} : inode_table'[j] = inode_table[j]
        /\ i \in Inodes /\ Files \subseteq Inodes /\ Files' = Files
    BY TruncateStep DEF Files
  <1>2. CASE inode_table' = inode_table /\ free_blocks' = free_blocks
    BY <1>1, <1>2, QuietOwned DEF OwnedStep
  <1>3. CASE /\ Indirect(i) = -1 /\ call'[t].pc = "truncated" /\ call'[t].inum = i
             /\ inode_table'[i].i_data_block = ForgottenRefs(i)
             /\ free_blocks' = free_blocks \cup DirectFreed(inode_table[i].i_data_block)
    <2>1. PICK n \in 0 .. INDIRECT_ACCESS_BLOCK :
            /\ \A k \in 0 .. n - 1 : inode_table[i].i_data_block[k] \in Blocks
            /\ DirectFreed(inode_table[i].i_data_block) = {inode_table[i].i_data_block[k] : k \in 0 .. n - 1}
            /\ \A k \in BlockRefs :
                 ForgottenRefs(i)[k] = IF k < n THEN -1 ELSE inode_table[i].i_data_block[k]
      BY <1>1, ForgottenRefsFreed
    <2>2. Indirect(i)' = -1 /\ \A j \in Inodes : Indirect(j)' = Indirect(j)
      <3>1. ~(INDIRECT_ACCESS_BLOCK < n)
        BY <2>1, Sizes
      <3> QED BY <1>1, <1>3, <2>1, <3>1, Sizes DEF Indirect
    <2>3. OnItsWay' = OnItsWay /\ (\A a : Filled(a)' <=> Filled(a))
          /\ \A u \in OnItsWay : call'[u].block = call[u].block
      BY <1>1 DEF OnItsWay, Filled
    <2>4. \A j \in Files : \A a, k : IsPlace(j, a, k)' <=> IsPlace(j, a, k)
      BY <1>1, <2>2, <2>3 DEF IsPlace
    <2>5. \A j \in Files : \A a, k : (j # i \/ a # -1) => Kept(j, a, k)' = Kept(j, a, k)
      BY <1>1 DEF Kept
    <2>6. \A k \in BlockRefs : Kept(i, -1, k)' = IF k < n THEN -1 ELSE Kept(i, -1, k)
      BY <1>3, <2>1 DEF Kept
    <2>7. \A k \in BlockRefs : IsPlace(i, -1, k)
      BY DEF IsPlace
    <2>8. \A k \in 0 .. n - 1 : k \in BlockRefs /\ InFile(i, -1, k) /\ Kept(i, -1, k) \in Blocks
      <3> SUFFICES ASSUME NEW k \in 0 .. n - 1
                   PROVE  k \in BlockRefs /\ InFile(i, -1, k) /\ Kept(i, -1, k) \in Blocks
        OBVIOUS
      <3>1. k \in BlockRefs
        BY Sizes DEF BlockRefs
      <3>2. Kept(i, -1, k) \in Blocks /\ Kept(i, -1, k) # -1
        BY <2>1, Sizes DEF Kept
      <3> QED BY <2>7, <3>1, <3>2 DEF InFile
    <2>9. \A j, a, k : InFile(j, a, k)' =>
            /\ InFile(j, a, k) /\ Kept(j, a, k)' = Kept(j, a, k)
            /\ ~(j = i /\ a = -1 /\ k \in 0 .. n - 1)
      <3> SUFFICES ASSUME NEW j, NEW a, NEW k, InFile(j, a, k)'
                   PROVE  /\ InFile(j, a, k) /\ Kept(j, a, k)' = Kept(j, a, k)
                          /\ ~(j = i /\ a = -1 /\ k \in 0 .. n - 1)
        OBVIOUS
      <3>1. j \in Files /\ IsPlace(j, a, k) /\ Kept(j, a, k)' # -1
        BY <1>1, <2>4 DEF InFile
      <3>2. CASE j # i \/ a # -1
        BY <2>5, <3>1, <3>2 DEF InFile
      <3>3. CASE j = i /\ a = -1
        <4>1. k \in BlockRefs
          BY <3>1, <3>3, Sizes DEF IsPlace
        <4>2. ~(k < n)
          BY <2>6, <3>1, <3>3, <4>1
        <4>3. k \notin 0 .. n - 1
          BY <4>2
        <4> QED BY <2>6, <3>1, <3>3, <4>1, <4>2, <4>3 DEF InFile
      <3> QED BY <3>2, <3>3
    <2>10. \A j, a, k : InFile(j, a, k) => InFile(j, a, k)' \/ (j = i /\ a = -1 /\ k \in 0 .. n - 1)
      <3> SUFFICES ASSUME NEW j, NEW a, NEW k, InFile(j, a, k), ~(j = i /\ a = -1 /\ k \in 0 .. n - 1)
                   PROVE  InFile(j, a, k)'
        OBVIOUS
      <3>1. j \in Files /\ IsPlace(j, a, k)' /\ Kept(j, a, k) # -1
        BY <2>4 DEF InFile
      <3>2. CASE j # i \/ a # -1
        BY <1>1, <2>5, <3>1, <3>2 DEF InFile
      <3>3. CASE j = i /\ a = -1
        <4>1. k \in BlockRefs /\ k \in Nat
          <5>1. IsPlace(j, a, k)
            BY DEF InFile
          <5>2. k \in BlockRefs
            BY <3>3, <5>1, Sizes DEF IsPlace
          <5> QED BY <5>2, Sizes
        <4>2. ~(k < n)
          BY <3>3, <4>1
        <4> QED BY <1>1, <2>6, <3>1, <3>3, <4>1, <4>2 DEF InFile
      <3> QED BY <3>2, <3>3
    <2>11. free_blocks' = free_blocks \cup {Kept(i, -1, k) : k \in 0 .. n - 1}
      BY <1>3, <2>1 DEF Kept
    <2>12. RefsTaken'
      <3>1. 0 \notin free_blocks'
        BY <2>8, <2>11 DEF Owned, RefsTaken
      <3>2. ASSUME NEW j, NEW a, NEW k, InFile(j, a, k)'
            PROVE  Kept(j, a, k)' \in Blocks \ (free_blocks' \cup {0})
        <4>1. InFile(j, a, k) /\ Kept(j, a, k)' = Kept(j, a, k) /\ ~(j = i /\ a = -1 /\ k \in 0 .. n - 1)
          BY <2>9, <3>2
        <4>2. \A l \in 0 .. n - 1 : Kept(i, -1, l) # Kept(j, a, k)
          BY <2>8, <4>1 DEF Owned, RefsApart
        <4> QED BY <2>11, <4>1, <4>2 DEF Owned, RefsTaken
      <3> QED BY <3>1, <3>2 DEF RefsTaken
    <2>13. RefsApart'
      BY <2>9 DEF Owned, RefsApart
    <2>14. GivenApart'
      <3>1. \A u \in OnItsWay : call[u].block \notin free_blocks'
        BY <2>8, <2>11 DEF Owned, GivenApart
      <3> QED BY <2>3, <2>9, <3>1 DEF Owned, GivenApart
    <2>15. NoneLost'
      <3> SUFFICES ASSUME NEW b \in Blocks \ (free_blocks' \cup {0})
                   PROVE  \/ \E j, a, k : InFile(j, a, k)' /\ Kept(j, a, k)' = b
                          \/ \E u \in OnItsWay' : call'[u].block = b
        BY DEF NoneLost
      <3>1. b \in Blocks \ (free_blocks \cup {0}) /\ \A k \in 0 .. n - 1 : Kept(i, -1, k) # b
        BY <2>11
      <3>2. CASE \E u \in OnItsWay : call[u].block = b
        BY <2>3, <3>2
      <3>3. ASSUME NEW j, NEW a, NEW k, InFile(j, a, k), Kept(j, a, k) = b
            PROVE  InFile(j, a, k)' /\ Kept(j, a, k)' = b
        BY <2>9, <2>10, <3>1, <3>3
      <3> QED BY <3>1, <3>2, <3>3 DEF Owned, NoneLost
    <2>16. \A u \in Threads \ {t} : call[u].pc = "fill" => Indirect(call[u].inum)' = call[u].block
      <3> SUFFICES ASSUME NEW u \in Threads \ {t}, call[u].pc = "fill"
                   PROVE  Indirect(call[u].inum)' = call[u].block
        OBVIOUS
      <3>1. call[u].inum \in Inodes /\ Indirect(call[u].inum) = call[u].block /\ call'[u] = call[u]
        BY <1>1, LoopCall DEF Owned, FillsApart, LoopPcs
      <3>2. PICK j \in Inodes : j = call[u].inum
        BY <3>1
      <3>3. Indirect(j)' = call[u].block
        BY <2>2, <3>1, <3>2
      <3> QED BY <3>1, <3>2, <3>3
    <2>17. PlacesKnown' /\ FillsApart'
      BY <1>1, <2>4, <2>16, GotAndFills
    <2>18. \A j \in Files \ {i} : RefsStay(j)
      BY <2>9, <2>10 DEF RefsStay
    <2>19. Truncates(t, i) /\ DataStays
      BY <1>1, <1>3 DEF Truncates, DataStays
    <2> QED BY <2>12, <2>13, <2>14, <2>15, <2>17, <2>18, <2>19 DEF Owned
  <1> QED BY <1>2, <1>3, TruncateStep

LEMMA PlaceExact ==
  ASSUME TypeOK, NEW i \in Inodes, NEW n \in Nat, n < MAX_FILE_SIZE
  PROVE  LET q == n \div BLOCK_SIZE
         IN  /\ q < INDIRECT_ACCESS_BLOCK => Place(i, n) = [blk |-> -1, at |-> q] /\ q \in BlockRefs
             /\ q >= INDIRECT_ACCESS_BLOCK /\ Indirect(i) = -1 => Place(i, n) = IndirectPlace
             /\ q >= INDIRECT_ACCESS_BLOCK /\ Indirect(i) # -1 =>
                  /\ Place(i, n) = [blk |-> Indirect(i), at |-> q - INDIRECT_ACCESS_BLOCK]
                  /\ q - INDIRECT_ACCESS_BLOCK \in Cells /\ Indirect(i) \in Blocks
  <1> DEFINE q == n \div BLOCK_SIZE
             b == inode_table[i].i_data_block[INDIRECT_ACCESS_BLOCK]
             far == q - INDIRECT_ACCESS_BLOCK
             x == b + far \div BLOCK_SIZE
             y == far % BLOCK_SIZE
  <1>1. q \in Nat /\ q < INDIRECT_ACCESS_BLOCK + BLOCK_SIZE
    <2>1. n < (INDIRECT_ACCESS_BLOCK + BLOCK_SIZE) * BLOCK_SIZE
      BY DEF MAX_FILE_SIZE, INDIRECT_REFERENCES
    <2>2. INDIRECT_ACCESS_BLOCK + BLOCK_SIZE \in Nat
      BY Sizes
    <2> QED BY <2>1, <2>2, Sizes, BlockBelow, DivMod
  <1>2. b \in Blocks \cup {-1} /\ b = Indirect(i)
    BY Sizes DEF TypeOK, Indirect
  <1>3. Place(i, n) = IF q < INDIRECT_ACCESS_BLOCK THEN [blk |-> -1, at |-> q]
                      ELSE IF b = -1 THEN IndirectPlace ELSE [blk |-> x, at |-> y]
    BY DEF Place
  <1>4. ASSUME q >= INDIRECT_ACCESS_BLOCK, b # -1
        PROVE  x = b /\ y = far /\ far \in Cells
    <2>1. far \in 0 .. BLOCK_SIZE - 1
      <3> HIDE DEF q
      <3> QED BY <1>1, <1>4, Sizes
    <2> HIDE DEF far
    <2>2. far \div BLOCK_SIZE \in Nat /\ y \in 0 .. BLOCK_SIZE - 1 /\ far = BLOCK_SIZE * (far \div BLOCK_SIZE) + y
      <3>1. far \in Nat
        BY <2>1, Sizes
      <3> QED BY <3>1, Sizes, DivMod
    <2>3. PICK d : d = far \div BLOCK_SIZE
      OBVIOUS
    <2> HIDE DEF y
    <2>4. BLOCK_SIZE * d + y = BLOCK_SIZE * 0 + far /\ d \in Int
      BY <2>1, <2>2, <2>3, Sizes
    <2>5. d = 0 /\ y = far
      BY <2>1, <2>2, <2>4, Sizes, DivUnique
    <2>6. b \in Int
      <3> HIDE DEF b
      <3>1. b \in Blocks
        BY <1>2, <1>4
      <3> QED BY <3>1, Sizes
    <2> QED BY <2>1, <2>3, <2>5, <2>6 DEF Cells
  <1>5. q < INDIRECT_ACCESS_BLOCK => q \in BlockRefs
    BY <1>1, Sizes DEF BlockRefs
  <1> HIDE DEF q, x, y, b
  <1>6. q < INDIRECT_ACCESS_BLOCK \/ q >= INDIRECT_ACCESS_BLOCK
    BY <1>1, Sizes
  <1>7. q >= INDIRECT_ACCESS_BLOCK => ~(q < INDIRECT_ACCESS_BLOCK)
    BY <1>1, Sizes
  <1>8. q >= INDIRECT_ACCESS_BLOCK /\ b # -1 =>
          Place(i, n) = [blk |-> b, at |-> far] /\ far \in Cells /\ b \in Blocks
    BY <1>2, <1>3, <1>4, <1>7
  <1> HIDE DEF far
  <1>9. /\ q < INDIRECT_ACCESS_BLOCK => Place(i, n) = [blk |-> -1, at |-> q] /\ q \in BlockRefs
        /\ q >= INDIRECT_ACCESS_BLOCK /\ b = -1 => Place(i, n) = IndirectPlace
    BY <1>3, <1>5, <1>7
  <1> QED BY <1>2, <1>8, <1>9 DEF q, far

LEMMA HereIsPlace ==
  ASSUME TypeOK, NEW i \in Inodes, NEW n \in Nat, n < MAX_FILE_SIZE, Filled(Place(i, n).blk)
  PROVE  \E a, k :
           /\ Place(i, n) = [blk |-> a, at |-> k] /\ IsPlace(i, a, k) /\ At(i, Place(i, n)) = Kept(i, a, k)
           /\ Place(i, n) = IndirectPlace => Kept(i, a, k) = -1
           /\ Place(i, n) # IndirectPlace => ~(a = -1 /\ k = INDIRECT_ACCESS_BLOCK)
  <1> DEFINE q == n \div BLOCK_SIZE
  <1>1. q \in Nat
    BY DivMod, Sizes
  <1>2. CASE q < INDIRECT_ACCESS_BLOCK
    <2>1. Place(i, n) = [blk |-> -1, at |-> q] /\ q \in BlockRefs
      BY <1>2, PlaceExact
    <2>2. q # INDIRECT_ACCESS_BLOCK
      BY <1>1, <1>2, Sizes
    <2> HIDE DEF q
    <2>3. IsPlace(i, -1, q) /\ At(i, Place(i, n)) = Kept(i, -1, q)
      BY <2>1 DEF IsPlace, At, Kept
    <2>4. Place(i, n) # IndirectPlace
      BY <2>1, <2>2 DEF IndirectPlace
    <2> QED BY <2>1, <2>2, <2>3, <2>4
  <1>3. CASE q >= INDIRECT_ACCESS_BLOCK /\ Indirect(i) = -1
    <2>1. Place(i, n) = IndirectPlace
      BY <1>3, PlaceExact
    <2>2. IsPlace(i, -1, INDIRECT_ACCESS_BLOCK)
          /\ At(i, Place(i, n)) = Kept(i, -1, INDIRECT_ACCESS_BLOCK)
          /\ Kept(i, -1, INDIRECT_ACCESS_BLOCK) = -1
      BY <1>3, <2>1, Sizes DEF IsPlace, At, Kept, IndirectPlace, Indirect
    <2> QED BY <2>1, <2>2 DEF IndirectPlace
  <1>4. CASE q >= INDIRECT_ACCESS_BLOCK /\ Indirect(i) # -1
    <2>1. PICK a, k : a = Indirect(i) /\ k = q - INDIRECT_ACCESS_BLOCK
      OBVIOUS
    <2>2. Place(i, n) = [blk |-> a, at |-> k] /\ k \in Cells /\ a \in Blocks
      BY <1>4, <2>1, PlaceExact
    <2>3. a # -1
      BY <2>2, Sizes
    <2>4. IsPlace(i, a, k) /\ At(i, Place(i, n)) = Kept(i, a, k)
      BY <2>1, <2>2, <2>3 DEF IsPlace, At, Kept
    <2>5. Place(i, n) # IndirectPlace
      BY <2>2, <2>3 DEF IndirectPlace
    <2> QED BY <2>2, <2>3, <2>4, <2>5
  <1> QED BY <1>1, <1>2, <1>3, <1>4, Sizes

(* A reference that is used without damage is one of the file's.           *)
LEMMA UsedIsPlace ==
  ASSUME TypeOK, NEW t \in Threads, call[t].pc \in LoopPcs, NotesUse(t), damage' = {}
  PROVE  \E a, k :
           /\ Here(t) = [blk |-> a, at |-> k] /\ IsPlace(call[t].inum, a, k)
           /\ At(call[t].inum, Here(t)) = Kept(call[t].inum, a, k)
           /\ Here(t) = IndirectPlace => Kept(call[t].inum, a, k) = -1
           /\ Here(t) # IndirectPlace => ~(a = -1 /\ k = INDIRECT_ACCESS_BLOCK)
  <1>1. ~PastEnd(t) /\ Filled(Here(t).blk)
    BY DEF NotesUse
  <1>2. PICK i \in Inodes, n \in Nat : i = call[t].inum /\ n = Offset(t)
    BY LoopCall, ChunkFits
  <1>3. n < MAX_FILE_SIZE /\ Here(t) = Place(i, n)
    <2>1. ~(n >= MAX_FILE_SIZE)
      BY <1>1, <1>2 DEF PastEnd
    <2>2. MAX_FILE_SIZE \in Nat
      BY Sizes DEF MAX_FILE_SIZE, INDIRECT_REFERENCES
    <2> QED BY <1>2, <2>1, <2>2 DEF Here
  <1>4. Filled(Place(i, n).blk)
    BY <1>1, <1>3
  <1> QED BY <1>2, <1>3, <1>4, HereIsPlace

LEMMA AllocOwned ==
  ASSUME TypeOK, CallInv, Owned, NEW t \in Threads, Alloc(t), damage' = {}
  PROVE  OwnedStep
  <1>1. /\ UNCHANGED <<inode_table, freeinode_ts, fs_data>> /\ call[t].pc = "run" /\ NotesUse(t)
    BY DEF Alloc
  <1>2. PICK b \in Blocks \cup {-1} :
          /\ IF free_blocks = {} THEN b = -1 ELSE b \in free_blocks
          /\ free_blocks' = free_blocks \ {b}
          /\ call'[t] = [call[t] EXCEPT !.pc = "got", !.place = Here(t), !.block = b]
          /\ call'[t].pc = "got"
          /\ call' = [call EXCEPT ![t] = call'[t]]
    BY AllocStep
  <1>3. PICK i \in Inodes : i = call[t].inum
    BY <1>1, LoopCall DEF LoopPcs
  <1>4. PICK a, k : Here(t) = [blk |-> a, at |-> k] /\ IsPlace(i, a, k)
    BY <1>1, <1>3, UsedIsPlace DEF LoopPcs
  <1>5. /\ \A u \in Threads \ {t} : call'[u] = call[u]
        /\ call'[t].inum = i /\ call'[t].block = b /\ call'[t].place = [blk |-> a, at |-> k]
    BY <1>1, <1>2, <1>3, <1>4, LoopCall DEF LoopPcs, LoopCalls, TypeOK
  <1>6. /\ t \notin OnItsWay /\ OnItsWay' = IF b = -1 THEN OnItsWay ELSE OnItsWay \cup {t}
        /\ \A u \in OnItsWay : u # t /\ call'[u].block = call[u].block
        /\ \A c : Filled(c)' <=> Filled(c)
    <2>1. t \notin OnItsWay /\ \A u \in OnItsWay : u # t /\ call'[u].block = call[u].block
      BY <1>1, <1>5 DEF OnItsWay
    <2>2. \A u \in Threads : u \in OnItsWay' <=> u \in OnItsWay \/ (u = t /\ b # -1)
      BY <1>1, <1>2, <1>5 DEF OnItsWay
    <2>3. OnItsWay \subseteq Threads /\ OnItsWay' \subseteq Threads
      BY DEF OnItsWay
    <2>4. OnItsWay' = IF b = -1 THEN OnItsWay ELSE OnItsWay \cup {t}
      BY <2>2, <2>3
    <2>5. \A c : Filled(c)' <=> Filled(c)
      BY <1>1, <1>2, <1>5 DEF Filled
    <2> QED BY <2>1, <2>4, <2>5
  <1>7. \A j, c, l : /\ IsPlace(j, c, l)' <=> IsPlace(j, c, l)
                     /\ InFile(j, c, l)' <=> InFile(j, c, l)
                     /\ Kept(j, c, l)' = Kept(j, c, l)
    BY <1>1, <1>6 DEF IsPlace, Indirect, InFile, Files, Kept
  <1>8. RefsTaken' /\ RefsApart'
    BY <1>2, <1>7 DEF Owned, RefsTaken, RefsApart
  <1>9. b # -1 => b \in Blocks \ (free_blocks' \cup {0}) /\ b \in free_blocks
    BY <1>2 DEF Owned, RefsTaken
  <1>10. GivenApart'
    <2> SUFFICES ASSUME NEW u \in OnItsWay'
                 PROVE  /\ call'[u].block \in Blocks \ (free_blocks' \cup {0})
                        /\ \A j, c, l : InFile(j, c, l) => Kept(j, c, l) # call'[u].block
                        /\ \A v \in OnItsWay' : call'[u].block = call'[v].block => u = v
      BY <1>7 DEF GivenApart
    <2>1. CASE u = t
      <3>1. b # -1 /\ b \in free_blocks
        BY <1>6, <1>9, <2>1
      <3>2. \A j, c, l : InFile(j, c, l) => Kept(j, c, l) # b
        BY <3>1 DEF Owned, RefsTaken
      <3>3. \A v \in OnItsWay : call'[v].block # b
        BY <1>6, <3>1 DEF Owned, GivenApart
      <3> QED BY <1>5, <1>6, <1>9, <2>1, <3>1, <3>2, <3>3
    <2>2. CASE u # t
      <3>1. u \in OnItsWay /\ call'[u].block = call[u].block
        BY <1>6, <2>2
      <3>2. call[u].block \in Blocks \ (free_blocks \cup {0})
        BY <3>1 DEF Owned, GivenApart
      <3>3. \A j, c, l : InFile(j, c, l) => Kept(j, c, l) # call[u].block
        BY <3>1 DEF Owned, GivenApart
      <3>4. ASSUME NEW v \in OnItsWay', call'[u].block = call'[v].block PROVE u = v
        BY <1>5, <1>6, <1>9, <3>1, <3>2, <3>4 DEF Owned, GivenApart
      <3> QED BY <1>2, <3>1, <3>2, <3>3, <3>4
    <2> QED BY <2>1, <2>2
  <1>11. NoneLost'
    <2> SUFFICES ASSUME NEW c \in Blocks \ (free_blocks' \cup {0})
                 PROVE  \/ \E j, d, l : InFile(j, d, l) /\ Kept(j, d, l) = c
                        \/ \E u \in OnItsWay' : call'[u].block = c
      BY <1>7 DEF NoneLost
    <2>1. CASE c \in free_blocks
      <3>1. c = b /\ b # -1
        BY <1>2, <2>1, Sizes
      <3> QED BY <1>5, <1>6, <3>1
    <2>2. CASE c \notin free_blocks
      BY <1>6, <2>2 DEF Owned, NoneLost
    <2> QED BY <2>1, <2>2
  <1>12. \A u \in Threads \ {t} : call[u].pc = "fill" => Indirect(call[u].inum)' = call[u].block
    <2> SUFFICES ASSUME NEW u \in Threads \ {t}, call[u].pc = "fill"
                 PROVE  Indirect(call[u].inum)' = call[u].block
      OBVIOUS
    <2>1. Indirect(call[u].inum) = call[u].block /\ call'[u] = call[u]
      BY <1>5 DEF Owned, FillsApart
    <2> QED BY <1>1, <2>1 DEF Indirect
  <1>13. IsPlace(call[t].inum, call[t].place.blk, call[t].place.at)'
    <2>1. call'[t].inum = i /\ call'[t].place.blk = a /\ call'[t].place.at = k
      BY <1>5
    <2>2. IsPlace(i, a, k)'
      BY <1>4, <1>7
    <2> QED BY <2>1, <2>2
  <1>14. PlacesKnown' /\ FillsApart'
    BY <1>2, <1>5, <1>7, <1>12, <1>13, GotAndFills
  <1>15. (\A j \in Files : RefsStay(j)) /\ DataStays
    BY <1>1, <1>7 DEF RefsStay, DataStays
  <1> QED BY <1>8, <1>10, <1>11, <1>14, <1>15 DEF Owned, OwnedStep

LEMMA RefAdded ==
  ASSUME Owned, NEW t \in OnItsWay, NEW i, NEW a, NEW k, OnItsWay' = OnItsWay \ {t},
         free_blocks' = free_blocks,
         \A u \in OnItsWay \ {t} : call'[u].block = call[u].block,
         \A j, c, l : InFile(j, c, l)' <=> InFile(j, c, l) \/ (j = i /\ c = a /\ l = k),
         \A j, c, l : InFile(j, c, l) => Kept(j, c, l)' = Kept(j, c, l),
         Kept(i, a, k)' = call[t].block
  PROVE  RefsTaken' /\ RefsApart' /\ GivenApart' /\ NoneLost'
  <1>1. /\ call[t].block \in Blocks \ (free_blocks \cup {0})
        /\ \A j, c, l : InFile(j, c, l) => Kept(j, c, l) # call[t].block
        /\ \A u \in OnItsWay : call[u].block = call[t].block => t = u
    BY DEF Owned, GivenApart
  <1>2. RefsTaken'
    BY <1>1 DEF Owned, RefsTaken
  <1>3. RefsApart'
    BY <1>1 DEF Owned, RefsApart
  <1>4. GivenApart'
    <2> SUFFICES ASSUME NEW u \in OnItsWay \ {t}
                 PROVE  /\ call[u].block \in Blocks \ (free_blocks \cup {0})
                        /\ \A j, c, l : InFile(j, c, l)' => Kept(j, c, l)' # call[u].block
                        /\ \A v \in OnItsWay \ {t} : call[u].block = call[v].block => u = v
      BY DEF GivenApart
    <2>1. /\ call[u].block \in Blocks \ (free_blocks \cup {0})
          /\ \A j, c, l : InFile(j, c, l) => Kept(j, c, l) # call[u].block
          /\ \A v \in OnItsWay : call[u].block = call[v].block => u = v
      BY DEF Owned, GivenApart
    <2> QED BY <1>1, <2>1
  <1>5. NoneLost'
    <2> SUFFICES ASSUME NEW b \in Blocks \ (free_blocks \cup {0})
                 PROVE  \/ \E j, c, l : InFile(j, c, l)' /\ Kept(j, c, l)' = b
                        \/ \E u \in OnItsWay \ {t} : call'[u].block = b
      BY DEF NoneLost
    <2>1. CASE \E j, c, l : InFile(j, c, l) /\ Kept(j, c, l) = b
      BY <2>1
    <2>2. CASE call[t].block = b
      BY <2>2
    <2>3. CASE \E u \in OnItsWay \ {t} : call[u].block = b
      BY <2>3
    <2> QED BY <2>1, <2>2, <2>3 DEF Owned, NoneLost
  <1> QED BY <1>2, <1>3, <1>4, <1>5

(* The block of references of a file is itself one of its references.      *)
LEMMA IndirectInFile ==
  ASSUME TypeOK, NEW i \in Files, Indirect(i) # -1
  PROVE  InFile(i, -1, INDIRECT_ACCESS_BLOCK) /\ Kept(i, -1, INDIRECT_ACCESS_BLOCK) = Indirect(i)
  BY Sizes DEF InFile, IsPlace, Kept, Indirect

(* A stored reference: what all places hold then.                          *)
LEMMA StoredRef ==
  ASSUME TypeOK, Owned, NEW i \in Files, NEW p \in References, NEW b \in Blocks \cup {-1},
         IsPlace(i, p.blk, p.at),
         p.blk = -1 => inode_table' = [inode_table EXCEPT ![i].i_data_block[p.at] = b]
                       /\ UNCHANGED fs_data,
         p.blk # -1 => fs_data' = [fs_data EXCEPT ![p.blk][p.at] = b] /\ UNCHANGED inode_table
  PROVE  /\ Kept(i, p.blk, p.at)' = b
         /\ \A j \in Files : \A c, l :
              IsPlace(j, c, l) /\ ~(j = i /\ c = p.blk /\ l = p.at) => Kept(j, c, l)' = Kept(j, c, l)
         /\ \A j \in Files :
              Indirect(j)' = IF j = i /\ p.blk = -1 /\ p.at = INDIRECT_ACCESS_BLOCK THEN b ELSE Indirect(j)
  <1>1. PICK a, k : a = p.blk /\ k = p.at
    OBVIOUS
  <1>2. Files \subseteq Inodes
    BY DEF Files
  <1>3. CASE a = -1
    <2>1. k \in BlockRefs
      BY <1>1, <1>3, Sizes DEF IsPlace
    <2>2. inode_table' = [inode_table EXCEPT ![i].i_data_block[k] = b] /\ fs_data' = fs_data
      BY <1>1, <1>3
    <2>3. \A j \in Inodes, x \in BlockRefs :
            inode_table'[j].i_data_block[x] = IF j = i /\ x = k THEN b ELSE inode_table[j].i_data_block[x]
      <3>1. i \in Inodes
        BY <1>2
      <3>2. inode_table'[i].i_data_block[k] = b
        <4> DEFINE g == [inode_table[i].i_data_block EXCEPT ![k] = b]
                   e == [inode_table[i] EXCEPT !.i_data_block = g]
        <4>1. inode_table' = [inode_table EXCEPT ![i] = e]
          BY <2>2
        <4>2. e.i_data_block = g
          <5> HIDE DEF g
          <5> QED BY <3>1 DEF TypeOK
        <4>3. g[k] = b
          BY <2>1, <3>1 DEF TypeOK
        <4> HIDE DEF e, g
        <4>4. inode_table'[i] = e
          BY <3>1, <4>1 DEF TypeOK
        <4> QED BY <4>2, <4>3, <4>4
      <3>3. \A j \in Inodes : \A x \in BlockRefs :
              (j # i \/ x # k) => inode_table'[j].i_data_block[x] = inode_table[j].i_data_block[x]
        BY <2>2, <3>1, RefStored
      <3> QED BY <2>1, <3>2, <3>3
    <2>4. Kept(i, a, k)' = b
      BY <1>2, <1>3, <2>1, <2>3 DEF Kept
    <2>5. ASSUME NEW j \in Files, NEW c, NEW l, IsPlace(j, c, l), ~(j = i /\ c = a /\ l = k)
          PROVE  Kept(j, c, l)' = Kept(j, c, l)
      <3>1. CASE c = -1
        <4>1. l \in BlockRefs
          BY <2>5, <3>1, Sizes DEF IsPlace
        <4> QED BY <1>2, <1>3, <2>3, <2>5, <3>1, <4>1 DEF Kept
      <3>2. CASE c # -1
        BY <2>2, <3>2 DEF Kept
      <3> QED BY <3>1, <3>2
    <2>6. \A j \in Files : Indirect(j)' = IF j = i /\ k = INDIRECT_ACCESS_BLOCK THEN b ELSE Indirect(j)
      BY <1>2, <2>3, Sizes DEF Indirect
    <2> QED BY <1>1, <1>3, <2>4, <2>5, <2>6
  <1>4. CASE a # -1
    <2>1. a \in Blocks /\ k \in Cells /\ a = Indirect(i)
      BY <1>1, <1>4 DEF IsPlace
    <2>2. fs_data' = [fs_data EXCEPT ![a][k] = b] /\ inode_table' = inode_table
      BY <1>1, <1>4
    <2>3. \A j \in Blocks, x \in Cells :
            fs_data'[j][x] = IF j = a /\ x = k THEN b ELSE fs_data[j][x]
      BY ZenonT(30), <2>1, <2>2, CellStored
    <2>4. Kept(i, a, k)' = b
      BY <1>4, <2>1, <2>3 DEF Kept
    <2>5. ASSUME NEW j \in Files, NEW c, NEW l, IsPlace(j, c, l), ~(j = i /\ c = a /\ l = k)
          PROVE  Kept(j, c, l)' = Kept(j, c, l)
      <3>1. CASE c = -1
        BY <2>2, <3>1 DEF Kept
      <3>2. CASE c # -1
        <4>1. c \in Blocks /\ l \in Cells /\ c = Indirect(j)
          BY <2>5, <3>2 DEF IsPlace
        <4>2. c = a => j = i
          <5>1. /\ InFile(i, -1, INDIRECT_ACCESS_BLOCK) /\ Kept(i, -1, INDIRECT_ACCESS_BLOCK) = a
            BY <1>4, <2>1, IndirectInFile
          <5>2. /\ InFile(j, -1, INDIRECT_ACCESS_BLOCK) /\ Kept(j, -1, INDIRECT_ACCESS_BLOCK) = c
            BY <3>2, <4>1, IndirectInFile
          <5> QED BY <5>1, <5>2 DEF Owned, RefsApart
        <4> QED BY <2>3, <2>5, <3>2, <4>1, <4>2 DEF Kept
      <3> QED BY <3>1, <3>2
    <2>6. \A j \in Files : Indirect(j)' = Indirect(j)
      BY <2>2 DEF Indirect
    <2> QED BY <1>1, <1>4, <2>4, <2>5, <2>6
  <1> QED BY <1>3, <1>4

LEMMA StoreOwned ==
  ASSUME TypeOK, CallInv, Owned, NEW t \in Threads, Store(t), damage' = {}
  PROVE  OwnedStep
  <1>1. PICK p \in References, i \in Inodes, b \in Blocks \cup {-1} :
          /\ call[t].pc = "got" /\ p = call[t].place /\ i = call[t].inum /\ b = call[t].block
          /\ b # -1 \/ p # IndirectPlace
          /\ p.blk = -1 => inode_table' = [inode_table EXCEPT ![i].i_data_block[p.at] = b]
                            /\ UNCHANGED fs_data
          /\ p.blk # -1 => fs_data' = [fs_data EXCEPT ![p.blk][p.at] = b] /\ UNCHANGED inode_table
          /\ b = -1 => Leaves(t)
          /\ b # -1 => /\ call' = [call EXCEPT ![t].pc = IF p = IndirectPlace THEN "fill" ELSE "use"]
                       /\ UNCHANGED rwl
          /\ Notes(At(i, p) # -1, "raced")
          /\ UNCHANGED <<freeinode_ts, free_blocks, handles>>
    BY StoreStep
  <1>2. i \in Files /\ IsPlace(i, p.blk, p.at) /\ Files \subseteq Inodes /\ Files' = Files
    BY <1>1 DEF CallInv, Good, InLoop, Owned, PlacesKnown, Files
  <1>3. PICK a, k : a = p.blk /\ k = p.at
    OBVIOUS
  <1>4. Kept(i, a, k) = -1 /\ ~InFile(i, a, k) /\ IsPlace(i, a, k)
    <2>1. At(i, p) = -1
      BY <1>1 DEF Notes
    <2> QED BY <1>2, <1>3, <2>1 DEF At, Kept, InFile
  <1>5. /\ Kept(i, a, k)' = b
        /\ \A j \in Files : \A c, l :
             IsPlace(j, c, l) /\ ~(j = i /\ c = a /\ l = k) => Kept(j, c, l)' = Kept(j, c, l)
        /\ \A j \in Files :
             Indirect(j)' = IF j = i /\ a = -1 /\ k = INDIRECT_ACCESS_BLOCK THEN b ELSE Indirect(j)
    <2>1. /\ Kept(i, p.blk, p.at)' = b
          /\ \A j \in Files : \A c, l :
               IsPlace(j, c, l) /\ ~(j = i /\ c = p.blk /\ l = p.at) => Kept(j, c, l)' = Kept(j, c, l)
          /\ \A j \in Files :
               Indirect(j)' = IF j = i /\ p.blk = -1 /\ p.at = INDIRECT_ACCESS_BLOCK THEN b ELSE Indirect(j)
      <3>1. p.blk = -1 => inode_table' = [inode_table EXCEPT ![i].i_data_block[p.at] = b] /\ UNCHANGED fs_data
        BY <1>1
      <3>2. p.blk # -1 => fs_data' = [fs_data EXCEPT ![p.blk][p.at] = b] /\ UNCHANGED inode_table
        BY <1>1
      <3> QED BY <1>2, <3>1, <3>2, StoredRef, SMTT(60)
    <2>2. p' = p
      BY <1>1
    <2> QED BY <1>3, <2>1
  <1>6. p = IndirectPlace <=> a = -1 /\ k = INDIRECT_ACCESS_BLOCK
    BY <1>3 DEF IndirectPlace, References
  <1>7. \A j, c, l : InFile(j, c, l) => Kept(j, c, l)' = Kept(j, c, l)
    BY <1>4, <1>5 DEF InFile
  <1>10. DataStays
    <2>1. CASE a = -1
      BY <1>1, <1>3, <2>1 DEF DataStays
    <2>2. CASE a # -1
      <3>1. a \in Blocks /\ a = Indirect(i)
        BY <1>4, <2>2 DEF IsPlace
      <3>2. \A c \in Blocks \ {a} : fs_data'[c] = fs_data[c]
        BY <1>1, <1>3, <2>2, <3>1 DEF TypeOK
      <3> QED BY <1>2, <3>1, <3>2 DEF DataStays
    <2> QED BY <2>1, <2>2
  <1>8. CASE b = -1
    <2>1. call'[t] = Idle /\ (\A u \in Threads \ {t} : call'[u] = call[u]) /\ Idle.pc = "idle"
      BY <1>1, <1>8, CallMoves DEF Leaves, Returns, Idle
    <2>2. t \notin OnItsWay /\ OnItsWay' = OnItsWay /\ (\A c : Filled(c)' <=> Filled(c))
          /\ \A u \in OnItsWay : call'[u].block = call[u].block
      <3>1. t \notin OnItsWay /\ t \notin OnItsWay'
        BY <1>1, <1>8, <2>1 DEF OnItsWay
      <3>2. \A u \in Threads \ {t} : u \in OnItsWay' <=> u \in OnItsWay
        BY <2>1 DEF OnItsWay
      <3>3. OnItsWay \subseteq Threads /\ OnItsWay' \subseteq Threads
        BY DEF OnItsWay
      <3>4. OnItsWay' = OnItsWay
        BY <3>1, <3>2, <3>3
      <3>5. \A c : Filled(c)' <=> Filled(c)
        BY <1>1, <2>1 DEF Filled
      <3> QED BY <2>1, <3>1, <3>3, <3>4, <3>5
    <2>3. \A j \in Files : Indirect(j)' = Indirect(j)
      BY <1>4, <1>5, <1>8 DEF Kept, Indirect
    <2>4. \A j \in Files : \A c, l : IsPlace(j, c, l)' <=> IsPlace(j, c, l)
      BY <2>2, <2>3 DEF IsPlace
    <2>5. \A j \in Files : \A c, l : IsPlace(j, c, l) => Kept(j, c, l)' = Kept(j, c, l)
      BY <1>4, <1>5, <1>8
    <2>6. \A j, c, l : InFile(j, c, l)' <=> InFile(j, c, l)
      BY <1>2, <2>4, <2>5 DEF InFile
    <2>7. RefsTaken' /\ RefsApart' /\ GivenApart' /\ NoneLost'
      BY <1>1, <1>7, <2>2, <2>6, RefsKept
    <2>8. \A u \in Threads \ {t} : call[u].pc = "fill" => Indirect(call[u].inum)' = call[u].block
      <3> SUFFICES ASSUME NEW u \in Threads \ {t}, call[u].pc = "fill"
                   PROVE  Indirect(call[u].inum)' = call[u].block
        OBVIOUS
      <3>1. PICK j \in Files : j = call[u].inum
        BY DEF CallInv, Good, InLoop
      <3>2. Indirect(j) = call[u].block /\ call'[u] = call[u]
        BY <2>1, <3>1 DEF Owned, FillsApart
      <3>3. Indirect(j)' = call[u].block
        BY <2>3, <3>2
      <3> QED BY <3>1, <3>2, <3>3
    <2>9. PlacesKnown' /\ FillsApart'
      BY <2>1, <2>4, <2>8, GotAndFills
    <2> QED BY <1>7, <1>10, <2>6, <2>7, <2>9 DEF Owned, OwnedStep, RefsStay
  <1>9. CASE b # -1
    <2>1. PICK x \in {"use", "fill"} :
            call' = [call EXCEPT ![t].pc = x] /\ (x = "fill" <=> p = IndirectPlace)
      BY <1>1, <1>9
    <2>2. /\ call'[t] = [call[t] EXCEPT !.pc = x] /\ call'[t].pc = x
          /\ \A u \in Threads \ {t} : call'[u] = call[u]
      BY <1>1, <2>1, PcMoves DEF LoopPcs
    <2>3. call'[t].inum = i /\ call'[t].block = b
      BY <1>1, <2>2, LoopCall DEF LoopPcs, LoopCalls
    <2>4. t \in OnItsWay /\ OnItsWay' = OnItsWay \ {t}
          /\ \A u \in OnItsWay \ {t} : call'[u].block = call[u].block
      <3>1. t \in OnItsWay /\ t \notin OnItsWay'
        BY <1>1, <1>9, <2>1, <2>2 DEF OnItsWay
      <3>2. \A u \in Threads \ {t} : u \in OnItsWay' <=> u \in OnItsWay
        BY <2>2 DEF OnItsWay
      <3>3. OnItsWay \subseteq Threads /\ OnItsWay' \subseteq Threads
        BY DEF OnItsWay
      <3>4. OnItsWay' = OnItsWay \ {t}
        BY <3>1, <3>2, <3>3
      <3> QED BY <2>2, <3>1, <3>3, <3>4
    <2>5. \A c : /\ x = "use" => (Filled(c)' <=> Filled(c))
                 /\ c # b => (Filled(c)' <=> Filled(c))
                 /\ x = "fill" /\ c = b => ~Filled(c)'
      BY <1>1, <2>1, <2>2, <2>3 DEF Filled
    <2>6. \A j \in Files : Indirect(j) # b
      <3> SUFFICES ASSUME NEW j \in Files, Indirect(j) = b PROVE FALSE
        OBVIOUS
      <3>1. InFile(j, -1, INDIRECT_ACCESS_BLOCK) /\ Kept(j, -1, INDIRECT_ACCESS_BLOCK) = b
        BY <1>9, IndirectInFile
      <3> QED BY <1>1, <2>4, <3>1 DEF Owned, GivenApart
    <2>7. \A j \in Files : \A c, l : IsPlace(j, c, l)' <=> IsPlace(j, c, l)
      <3>1. CASE x = "use"
        BY <1>5, <1>6, <2>1, <2>5, <3>1 DEF IsPlace
      <3>2. CASE x = "fill"
        <4>1. Indirect(i) = -1 /\ Indirect(i)' = b /\ \A j \in Files \ {i} : Indirect(j)' = Indirect(j)
          BY <1>2, <1>4, <1>5, <1>6, <2>1, <3>2 DEF Kept, Indirect
        <4>2. ~Filled(b)'
          BY <2>5, <3>2
        <4>3. \A c, l : IsPlace(i, c, l)' <=> IsPlace(i, c, l)
          BY <4>1, <4>2, Sizes DEF IsPlace
        <4>4. ASSUME NEW j \in Files \ {i}, NEW c, NEW l PROVE IsPlace(j, c, l)' <=> IsPlace(j, c, l)
          <5>1. Indirect(j)' = Indirect(j) /\ Indirect(j) # b
            BY <2>6, <4>1
          <5>2. c # b => (Filled(c)' <=> Filled(c))
            BY <2>5
          <5> QED BY <5>1, <5>2 DEF IsPlace
        <4> QED BY <4>3, <4>4
      <3> QED BY <2>1, <3>1, <3>2
    <2>8. \A j, c, l : InFile(j, c, l)' <=> InFile(j, c, l) \/ (j = i /\ c = a /\ l = k)
      <3> SUFFICES ASSUME NEW j, NEW c, NEW l
                   PROVE  InFile(j, c, l)' <=> InFile(j, c, l) \/ (j = i /\ c = a /\ l = k)
        OBVIOUS
      <3>1. CASE j = i /\ c = a /\ l = k
        BY <1>2, <1>4, <1>5, <1>9, <2>7, <3>1 DEF InFile
      <3>2. CASE ~(j = i /\ c = a /\ l = k)
        BY <1>2, <1>5, <2>7, <3>2 DEF InFile
      <3> QED BY <3>1, <3>2
    <2>9. RefsTaken' /\ RefsApart' /\ GivenApart' /\ NoneLost'
      BY <1>1, <1>5, <1>7, <2>4, <2>8, RefAdded
    <2>10. \A u \in Threads \ {t} : call[u].pc = "fill" =>
             Indirect(call[u].inum)' = call[u].block /\ call[u].block # b
      <3> SUFFICES ASSUME NEW u \in Threads \ {t}, call[u].pc = "fill"
                   PROVE  Indirect(call[u].inum)' = call[u].block /\ call[u].block # b
        OBVIOUS
      <3>1. PICK j \in Files : j = call[u].inum
        BY DEF CallInv, Good, InLoop
      <3>2. Indirect(j) = call[u].block /\ call[u].block \in Blocks /\ call'[u] = call[u]
        BY <2>2, <3>1 DEF Owned, FillsApart
      <3>3. ~(j = i /\ a = -1 /\ k = INDIRECT_ACCESS_BLOCK)
        BY <1>4, <3>2, Sizes DEF Kept, Indirect
      <3>4. Indirect(j)' = Indirect(j)
        BY <1>5, <3>3
      <3> QED BY <2>6, <3>1, <3>2, <3>4
    <2>11. call'[t].pc = "fill" => call'[t].block \in Blocks /\ Indirect(call[t].inum)' = call'[t].block
      <3>1. x = "fill" => Indirect(i)' = b
        BY <1>2, <1>5, <1>6, <2>1
      <3> QED BY <1>9, <2>2, <2>3, <3>1
    <2>12. PlacesKnown' /\ FillsApart'
      BY <2>2, <2>3, <2>7, <2>10, <2>11, GotAndFills
    <2> QED BY <1>7, <1>10, <2>8, <2>9, <2>12 DEF Owned, OwnedStep, RefsStay
  <1> QED BY <1>8, <1>9

LEMMA FillOwned ==
  ASSUME TypeOK, CallInv, Owned, NEW t \in Threads, Fill(t) PROVE OwnedStep
  <1>1. PICK i \in Files, b \in Blocks : i = call[t].inum /\ b = call[t].block
    BY DEF Fill, CallInv, Good, InLoop, Owned, FillsApart
  <1>2. /\ fs_data' = [fs_data EXCEPT ![b] = [k \in Cells |-> -1]]
        /\ inode_table' = [inode_table EXCEPT ![i].i_data_block[INDIRECT_ACCESS_BLOCK] = b]
        /\ call' = [call EXCEPT ![t].pc = "run"] /\ call[t].pc = "fill"
        /\ UNCHANGED <<freeinode_ts, free_blocks>>
    BY <1>1 DEF Fill
  <1>3. /\ Files \subseteq Inodes /\ Files' = Files /\ Indirect(i) = b /\ ~Filled(b)
        /\ \A u \in Threads \ {t} : call[u].pc = "fill" => call[u].block # b
    BY <1>1, <1>2 DEF Files, Owned, FillsApart, Filled
  <1>4. /\ \A u \in Threads \ {t} : call'[u] = call[u]
        /\ call'[t].pc = "run"
    BY <1>2, PcMoves DEF LoopPcs
  <1>5. OnItsWay' = OnItsWay /\ \A u \in OnItsWay : call'[u].block = call[u].block
    BY <1>2, <1>4 DEF OnItsWay
  <1>6. Filled(b)' /\ \A c : c # b => (Filled(c)' <=> Filled(c))
    BY <1>1, <1>2, <1>3, <1>4 DEF Filled
  <1>7. \A j \in Inodes, x \in BlockRefs :
          inode_table'[j].i_data_block[x] = inode_table[j].i_data_block[x]
    <2>1. PICK refs : refs = inode_table[i].i_data_block
      OBVIOUS
    <2>2. refs \in [BlockRefs -> Blocks \cup {-1}] /\ refs[INDIRECT_ACCESS_BLOCK] = b /\ i \in Inodes
      BY <1>3, <2>1 DEF TypeOK, Indirect
    <2>3. [refs EXCEPT ![INDIRECT_ACCESS_BLOCK] = b] = refs
      BY <2>2
    <2>4. inode_table' = [inode_table EXCEPT ![i].i_data_block = refs]
      BY <1>2, <2>1, <2>3
    <2>5. inode_table'[i].i_data_block = refs /\ \A j \in Inodes \ {i} : inode_table'[j] = inode_table[j]
      BY <2>2, <2>4 DEF TypeOK
    <2> QED BY <2>1, <2>5
  <1>8. \A j \in Files : Indirect(j)' = Indirect(j)
    BY <1>3, <1>7, Sizes DEF Indirect
  <1>9. (\A k \in Cells : fs_data'[b][k] = -1) /\ \A c \in Blocks \ {b} : fs_data'[c] = fs_data[c]
    BY <1>2 DEF TypeOK
  <1>10. \A j \in Files : \A c, l : c # b => (IsPlace(j, c, l)' <=> IsPlace(j, c, l))
    BY <1>6, <1>8 DEF IsPlace
  <1>11. \A j \in Files : \A c, l : ~IsPlace(j, b, l) /\ (IsPlace(j, b, l)' => l \in Cells)
    <2>1. b # -1
      BY Sizes
    <2> QED BY <1>3, <2>1 DEF IsPlace
  <1>12. \A j \in Files : \A c, l : IsPlace(j, c, l) => Kept(j, c, l)' = Kept(j, c, l)
    <2> SUFFICES ASSUME NEW j \in Files, NEW c, NEW l, IsPlace(j, c, l)
                 PROVE  Kept(j, c, l)' = Kept(j, c, l)
      OBVIOUS
    <2>1. CASE c = -1
      <3>1. l \in BlockRefs
        BY <2>1, Sizes DEF IsPlace
      <3> QED BY <1>3, <1>7, <2>1, <3>1 DEF Kept
    <2>2. CASE c # -1
      <3>1. c \in Blocks \ {b}
        BY <1>3, <2>2 DEF IsPlace
      <3> QED BY <1>9, <2>2, <3>1 DEF Kept
    <2> QED BY <2>1, <2>2
  <1>13. \A j \in Files : \A l : ~InFile(j, b, l)'
    <2>1. b # -1
      BY Sizes
    <2> QED BY <1>9, <1>11, <2>1 DEF InFile, Kept
  <1>14. \A j, c, l : InFile(j, c, l)' <=> InFile(j, c, l)
    BY <1>3, <1>10, <1>11, <1>12, <1>13 DEF InFile
  <1>15. \A j, c, l : InFile(j, c, l) => Kept(j, c, l)' = Kept(j, c, l)
    BY <1>12 DEF InFile
  <1>16. RefsTaken' /\ RefsApart' /\ GivenApart' /\ NoneLost'
    BY <1>2, <1>5, <1>14, <1>15, RefsKept
  <1>17. \A j \in Files : \A c, l : IsPlace(j, c, l) => IsPlace(j, c, l)'
    BY <1>10, <1>11
  <1>18. \A u \in Threads \ {t} : call[u].pc = "fill" => Indirect(call[u].inum)' = call[u].block
    <2> SUFFICES ASSUME NEW u \in Threads \ {t}, call[u].pc = "fill"
                 PROVE  Indirect(call[u].inum)' = call[u].block
      OBVIOUS
    <2>1. PICK j \in Files : j = call[u].inum
      BY DEF CallInv, Good, InLoop
    <2>2. Indirect(j) = call[u].block /\ call'[u] = call[u]
      BY <1>4, <2>1 DEF Owned, FillsApart
    <2>3. Indirect(j)' = call[u].block
      BY <1>8, <2>2
    <2> QED BY <2>1, <2>2, <2>3
  <1>19. PlacesKnown' /\ FillsApart'
    BY <1>4, <1>17, <1>18, GotAndFills
  <1>20. (\A j \in Files : RefsStay(j)) /\ DataStays
    BY <1>3, <1>9, <1>14, <1>15 DEF RefsStay, DataStays
  <1> QED BY <1>16, <1>19, <1>20 DEF Owned, OwnedStep

(* What a write without damage copies into is a block of its file, and no  *)
(* block of references.                                                    *)
LEMMA CopiesIntoData ==
  ASSUME TypeOK, CallInv, Owned, NEW t \in Threads, NEW op, Copying(t, op), damage' = {}
  PROVE  /\ call[t].inum \in Files
         /\ At(call[t].inum, Here(t)) \in Blocks /\ Here(t) # IndirectPlace
         /\ \E a, k :
              /\ Here(t) = [blk |-> a, at |-> k] /\ InFile(call[t].inum, a, k)
              /\ Kept(call[t].inum, a, k) = At(call[t].inum, Here(t))
         /\ \A j \in Files : Indirect(j) # At(call[t].inum, Here(t))
  <1>1. call[t].pc \in LoopPcs /\ NotesUse(t) /\ At(call[t].inum, Here(t)) \in Blocks
    BY DEF Copying, LoopPcs
  <1>2. PICK i \in Files : i = call[t].inum
    BY <1>1 DEF CallInv, Good, InLoop, LoopPcs
  <1>3. PICK a, k :
          /\ Here(t) = [blk |-> a, at |-> k] /\ IsPlace(i, a, k)
          /\ At(i, Here(t)) = Kept(i, a, k)
          /\ Here(t) = IndirectPlace => Kept(i, a, k) = -1
          /\ Here(t) # IndirectPlace => ~(a = -1 /\ k = INDIRECT_ACCESS_BLOCK)
    BY <1>1, <1>2, UsedIsPlace
  <1>4. PICK b \in Blocks : b = At(i, Here(t)) /\ b # -1
    <2>1. PICK b \in Blocks : b = At(i, Here(t))
      BY <1>1, <1>2
    <2>2. b # -1
      BY Sizes
    <2> QED BY <2>1, <2>2
  <1>5. InFile(i, a, k) /\ Here(t) # IndirectPlace /\ ~(a = -1 /\ k = INDIRECT_ACCESS_BLOCK)
    BY <1>3, <1>4 DEF InFile
  <1>6. ASSUME NEW j \in Files, Indirect(j) = b PROVE FALSE
    <2>1. InFile(j, -1, INDIRECT_ACCESS_BLOCK) /\ Kept(j, -1, INDIRECT_ACCESS_BLOCK) = b
      BY <1>4, <1>6, IndirectInFile
    <2> QED BY <1>3, <1>4, <1>5, <2>1 DEF Owned, RefsApart
  <1> QED BY <1>1, <1>2, <1>3, <1>4, <1>5, <1>6

LEMMA CopyInOwned ==
  ASSUME TypeOK, CallInv, Owned, NEW t \in Threads, CopyIn(t), damage' = {}
  PROVE  Owned' /\ \A i \in Files : RefsStay(i)
  <1>1. Copying(t, "write") /\ call[t].pc \in {"run", "use"} /\ call[t].pc \in LoopPcs
        /\ UNCHANGED <<freeinode_ts, free_blocks>>
    BY DEF CopyIn, Copying, LoopPcs
  <1>2. PICK b \in Blocks : b = At(call[t].inum, Here(t)) /\ \A c \in Blocks \ {b} : fs_data'[c] = fs_data[c]
    BY CopyInStep
  <1>3. /\ \A j \in Files : Indirect(j) # b
        /\ Files \subseteq Inodes /\ Files' = Files
    BY <1>1, <1>2, CopiesIntoData DEF Files
  <1>4. \A j \in Inodes : inode_table'[j].i_data_block = inode_table[j].i_data_block
    <2>1. PICK i \in Inodes : i = call[t].inum
      BY <1>1, LoopCall
    <2>2. PICK n \in Nat : n = inode_table[i].i_size + Chunk(t)
      BY <1>1, ChunkFits DEF TypeOK
    <2>3. inode_table' = [inode_table EXCEPT ![i].i_size = n]
      BY <2>1, <2>2 DEF CopyIn
    <2> QED BY <2>3, SizeStored
  <1>5. (\A u \in Threads \ {t} : call'[u] = call[u]) /\ call'[t].pc = "run"
    <2>1. PICK n : call'[t] = [call[t] EXCEPT !.pc = "run", !.left = n]
      BY CopyInCall
    <2> QED BY <1>1, <2>1, CopyInCall, LoopCall DEF LoopCalls
  <1>6. OnItsWay' = OnItsWay /\ (\A c : Filled(c)' <=> Filled(c))
        /\ \A u \in OnItsWay : call'[u].block = call[u].block
    BY <1>1, <1>5 DEF OnItsWay, Filled
  <1>7. \A j \in Files : Indirect(j)' = Indirect(j)
    BY <1>3, <1>4 DEF Indirect
  <1>8. \A j \in Files : \A c, l : IsPlace(j, c, l)' <=> IsPlace(j, c, l)
    BY <1>6, <1>7 DEF IsPlace
  <1>9. \A j \in Files : \A c, l : IsPlace(j, c, l) => Kept(j, c, l)' = Kept(j, c, l)
    <2> SUFFICES ASSUME NEW j \in Files, NEW c, NEW l, IsPlace(j, c, l)
                 PROVE  Kept(j, c, l)' = Kept(j, c, l)
      OBVIOUS
    <2>1. CASE c = -1
      BY <1>3, <1>4, <2>1 DEF Kept
    <2>2. CASE c # -1
      <3>1. c \in Blocks \ {b}
        BY <1>3, <2>2 DEF IsPlace
      <3> QED BY <1>2, <2>2, <3>1 DEF Kept
    <2> QED BY <2>1, <2>2
  <1>10. \A j, c, l : InFile(j, c, l)' <=> InFile(j, c, l)
    BY <1>3, <1>8, <1>9 DEF InFile
  <1>11. \A j, c, l : InFile(j, c, l) => Kept(j, c, l)' = Kept(j, c, l)
    BY <1>9 DEF InFile
  <1>12. RefsTaken' /\ RefsApart' /\ GivenApart' /\ NoneLost'
    BY <1>1, <1>6, <1>10, <1>11, RefsKept
  <1>13. \A u \in Threads \ {t} : call[u].pc = "fill" => Indirect(call[u].inum)' = call[u].block
    <2> SUFFICES ASSUME NEW u \in Threads \ {t}, call[u].pc = "fill"
                 PROVE  Indirect(call[u].inum)' = call[u].block
      OBVIOUS
    <2>1. PICK j \in Files : j = call[u].inum
      BY DEF CallInv, Good, InLoop
    <2>2. Indirect(j) = call[u].block /\ call'[u] = call[u]
      BY <1>5, <2>1 DEF Owned, FillsApart
    <2>3. Indirect(j)' = call[u].block
      BY <1>7, <2>2
    <2> QED BY <2>1, <2>2, <2>3
  <1>14. PlacesKnown' /\ FillsApart'
    BY <1>5, <1>8, <1>13, GotAndFills
  <1> QED BY <1>10, <1>11, <1>12, <1>14 DEF Owned, RefsStay

LEMMA InitOwned == Init => OwnInv
  <1> SUFFICES ASSUME Init PROVE Owned
    BY DEF OwnInv
  <1>1. \A i, a, k : ~InFile(i, a, k)
    BY DEF Init, InFile, Files
  <1>2. \A t \in Threads : call[t].pc = "idle"
    BY DEF Init, Idle
  <1>3. OnItsWay = {}
    BY <1>2 DEF OnItsWay
  <1>4. RefsTaken /\ RefsApart /\ GivenApart
    BY <1>1, <1>3 DEF RefsTaken, RefsApart, GivenApart, Init
  <1>5. NoneLost
    BY DEF NoneLost, Init
  <1>6. PlacesKnown /\ FillsApart
    BY <1>2 DEF PlacesKnown, FillsApart
  <1> QED BY <1>4, <1>5, <1>6 DEF Owned

(* Damage stays, and a process that has ended does not come back.          *)
LEMMA DamageStays ==
  ASSUME Next PROVE damage' = {} => damage = {}
  <1>1. ASSUME NEW t \in Threads, Begins(t), damage' = {} PROVE damage = {}
    BY <1>1 DEF Begins, OpenCreate, OpenExisting, OpenTruncate, TfsClose, ReadBegin, WriteBegin, Notes
  <1>2. ASSUME NEW t \in Threads, GoesOn(t), damage' = {} PROVE damage = {}
    BY <1>2 DEF GoesOn, OpenTruncated, Alloc, Store, Fill, NoBlock, CopyIn, CopyOut, Copying, WriteEnd,
                ReadEnd, Dies, Notes, NotesUse
  <1> QED BY <1>1, <1>2 DEF Next

LEMMA DeathStays ==
  ASSUME TypeOK, Next, ~Dead' PROVE ~Dead /\ \A t \in Threads : ~Dies(t)
  <1>1. ASSUME NEW t \in Threads, Dies(t) PROVE FALSE
    BY <1>1 DEF Dies, Dead
  <1>2. PICK t \in Threads : (call[t].pc = "idle" /\ Begins(t)) \/ GoesOn(t)
    BY DEF Next
  <1>3. call[t].pc # "dead"
    <2>1. CASE GoesOn(t)
      BY <1>1, <2>1, AllocStep DEF GoesOn, OpenTruncated, Store, Fill, NoBlock, CopyIn, CopyOut, Copying, WriteEnd,
                                   ReadEnd
    <2> QED BY <1>2, <2>1
  <1>4. \A u \in Threads \ {t} : call'[u] = call[u]
    <2>1. CASE Begins(t)
      <3>1. PICK c : call' = [call EXCEPT ![t] = c]
        BY <2>1, OneCallBegins
      <3> QED BY <3>1 DEF TypeOK
    <2>2. CASE GoesOn(t)
      <3>1. PICK c : call' = [call EXCEPT ![t] = c]
        BY <1>1, <2>2, OneCallGoesOn
      <3> QED BY <3>1 DEF TypeOK
    <2> QED BY <1>2, <2>1, <2>2
  <1> QED BY <1>1, <1>3, <1>4 DEF Dead

LEMMA NextOwned == TypeOK /\ CallInv /\ OwnInv /\ [Next]_vars => OwnInv'
  <1> SUFFICES ASSUME TypeOK, CallInv, OwnInv, [Next]_vars, damage' = {}, ~Dead'
               PROVE  Owned'
    BY DEF OwnInv
  <1>1. CASE UNCHANGED vars
    <2>1. Owned
      BY <1>1 DEF OwnInv, vars, Dead
    <2> QED BY <1>1, <2>1 DEF vars, tables, handles, Owned, RefsTaken, RefsApart, GivenApart, NoneLost,
               PlacesKnown, FillsApart, InFile, IsPlace, Kept, Files, Indirect, Filled, OnItsWay
  <1>2. CASE Next
    <2>1. Owned /\ \A t \in Threads : ~Dies(t)
      BY <1>2, DamageStays, DeathStays DEF OwnInv
    <2>2. ASSUME NEW t \in Threads, GoesOn(t) PROVE Owned'
      BY <2>1, <2>2, QuietGoesOn, AllocOwned, StoreOwned, FillOwned, CopyInOwned DEF GoesOn, OwnedStep
    <2>3. ASSUME NEW t \in Threads, call[t].pc = "idle", Begins(t) PROVE Owned'
      BY <2>1, <2>3, OpenCreateOwned, OpenTruncateOwned, QuietBegins DEF Begins, OwnedStep
    <2> QED BY <1>2, <2>2, <2>3 DEF Next
  <1> QED BY <1>1, <1>2

LEMMA BlocksInv == Spec => [](TypeOK /\ CallInv /\ OwnInv)
  <1>1. TypeOK /\ CallInv /\ OwnInv /\ [Next]_vars => (TypeOK /\ CallInv /\ OwnInv)'
    BY NextTyped, NextCalls, NextOwned
  <1> QED BY <1>1, InitTyped, InitCalls, InitOwned, PTL DEF Spec

LEMMA InUseIsInFile ==
  ASSUME TypeOK, NEW r \in InUse
  PROVE  \E i, a, k : /\ r = <<i, [blk |-> a, at |-> k]>>
                      /\ InFile(i, a, k) /\ At(r[1], r[2]) = Kept(i, a, k)
  <1> DEFINE Direct == [blk : {-1}, at : BlockRefs]
             Behind == [blk : {Indirect(i) : i \in Files} \ {-1}, at : Cells]
  <1>1. /\ r \in Files \X (Direct \cup Behind)
        /\ r[2].blk # -1 => r[2].blk = Indirect(r[1]) /\ Filled(r[2].blk)
        /\ At(r[1], r[2]) # -1
    BY DEF InUse
  <1>2. PICK i, p : r = <<i, p>> /\ i \in Files /\ p \in Direct \cup Behind
    BY <1>1
  <1>3. PICK a, k : p = [blk |-> a, at |-> k] /\ a = p.blk /\ k = p.at
    BY <1>2
  <1>4. At(r[1], r[2]) = Kept(i, a, k) /\ Kept(i, a, k) # -1
    BY <1>1, <1>2, <1>3 DEF At, Kept
  <1>5. IsPlace(i, a, k)
    <2>1. CASE a = -1
      <3>1. p \in Direct
        BY <1>2, <1>3, <2>1
      <3> QED BY <1>3, <2>1, <3>1 DEF IsPlace
    <2>2. CASE a # -1
      <3>1. p \in Behind
        BY <1>2, <1>3, <2>2
      <3>2. a = Indirect(i) /\ Filled(a) /\ k \in Cells
        BY <1>1, <1>2, <1>3, <2>2, <3>1
      <3>3. a \in Blocks
        BY <1>2, <2>2, <3>2, Sizes DEF Indirect, TypeOK, Files
      <3> QED BY <3>2, <3>3 DEF IsPlace
    <2> QED BY <2>1, <2>2
  <1> QED BY <1>2, <1>3, <1>4, <1>5 DEF InFile

LEMMA InFileIsInUse ==
  ASSUME TypeOK, NEW i, NEW a, NEW k, InFile(i, a, k)
  PROVE  <<i, [blk |-> a, at |-> k]>> \in InUse
         /\ At(<<i, [blk |-> a, at |-> k]>>[1], <<i, [blk |-> a, at |-> k]>>[2]) = Kept(i, a, k)
  <1> DEFINE Direct == [blk : {-1}, at : BlockRefs]
             Behind == [blk : {Indirect(j) : j \in Files} \ {-1}, at : Cells]
  <1>1. i \in Files /\ IsPlace(i, a, k) /\ Kept(i, a, k) # -1
    BY DEF InFile
  <1>2. PICK p : p = [blk |-> a, at |-> k]
    OBVIOUS
  <1>3. p.blk = a /\ p.at = k /\ At(i, p) = Kept(i, a, k)
    BY <1>2 DEF At, Kept
  <1>4. p \in Direct \cup Behind /\ (p.blk # -1 => p.blk = Indirect(i) /\ Filled(p.blk))
    <2>1. CASE a = -1 /\ k \in BlockRefs
      BY <1>2, <1>3, <2>1
    <2>2. CASE a \in Blocks /\ a = Indirect(i) /\ k \in Cells /\ Filled(a)
      <3>1. a # -1
        BY <2>2, Sizes
      <3>2. a \in {Indirect(j) : j \in Files} \ {-1}
        BY <1>1, <2>2, <3>1
      <3>3. p \in Behind
        BY <1>2, <2>2, <3>2
      <3> QED BY <1>3, <2>2, <3>3
    <2> QED BY <1>1, <2>1, <2>2 DEF IsPlace
  <1>5. PICK r : r = <<i, p>> /\ r[1] = i /\ r[2] = p
    <2>1. <<i, p>>[1] = i /\ <<i, p>>[2] = p
      OBVIOUS
    <2> QED BY <2>1
  <1>6. r \in Files \X (Direct \cup Behind)
    <2> HIDE DEF Direct, Behind
    <2> QED BY <1>1, <1>4, <1>5
  <1>7. r \in InUse
    BY <1>1, <1>3, <1>4, <1>5, <1>6 DEF InUse
  <1> QED BY <1>2, <1>3, <1>5, <1>7

LEMMA OwnedNow == ASSUME TypeOK, OwnInv PROVE BlocksOwned /\ NoBlockLost
  <1>1. CASE damage = {} /\ ~Dead
    <2>1. Owned
      BY <1>1 DEF OwnInv
    <2>2. ASSUME NEW r \in InUse PROVE At(r[1], r[2]) \in Blocks \ (free_blocks \cup {0})
      BY <2>1, InUseIsInFile DEF Owned, RefsTaken
    <2>3. ASSUME NEW r \in InUse, NEW s \in InUse, At(r[1], r[2]) = At(s[1], s[2]) PROVE r = s
      <3>1. PICK i, a, k : /\ r = <<i, [blk |-> a, at |-> k]>>
                           /\ InFile(i, a, k) /\ At(r[1], r[2]) = Kept(i, a, k)
        BY InUseIsInFile
      <3>2. PICK j, b, l : /\ s = <<j, [blk |-> b, at |-> l]>>
                           /\ InFile(j, b, l) /\ At(s[1], s[2]) = Kept(j, b, l)
        BY InUseIsInFile
      <3>3. i = j /\ a = b /\ k = l
        BY <2>1, <2>3, <3>1, <3>2 DEF Owned, RefsApart
      <3> QED BY <3>1, <3>2, <3>3
    <2>4. ASSUME NEW t \in OnItsWay
          PROVE  /\ call[t].block \notin free_blocks
                 /\ \A r \in InUse : At(r[1], r[2]) # call[t].block
                 /\ \A u \in OnItsWay : call[t].block = call[u].block => t = u
      <3>1. ASSUME NEW r \in InUse PROVE At(r[1], r[2]) # call[t].block
        BY <2>1, InUseIsInFile DEF Owned, GivenApart
      <3> QED BY <2>1, <3>1 DEF Owned, GivenApart
    <2>5. ASSUME NEW b \in Blocks \ (free_blocks \cup {0})
          PROVE  \/ \E r \in InUse : At(r[1], r[2]) = b
                 \/ \E t \in OnItsWay : call[t].block = b
      <3>1. CASE \E t \in OnItsWay : call[t].block = b
        BY <3>1
      <3>2. ASSUME NEW i, NEW a, NEW k, InFile(i, a, k), Kept(i, a, k) = b
            PROVE  \E r \in InUse : At(r[1], r[2]) = b
        BY <3>2, InFileIsInUse
      <3> QED BY <2>1, <3>1, <3>2 DEF Owned, NoneLost
    <2> QED BY <2>2, <2>3, <2>4, <2>5 DEF BlocksOwned, NoBlockLost
  <1>2. CASE ~(damage = {} /\ ~Dead)
    BY <1>2 DEF BlocksOwned, NoBlockLost
  <1> QED BY <1>1, <1>2

(* No block belongs to two files, to two places of one, or to a file and   *)
(* the free list, nor to a thread as well, whatever allocations, writes,   *)
(* reads, truncations and failures of any number of threads interleave.    *)
THEOREM BlocksHaveOwners == Spec => []BlocksOwned
  BY BlocksInv, OwnedNow, PTL

(* Every block that is not free is some file's or some thread's.           *)
THEOREM BlocksNotLost == Spec => []NoBlockLost
  BY BlocksInv, OwnedNow, PTL
=============================================================================

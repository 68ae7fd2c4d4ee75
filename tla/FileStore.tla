------------------------------ MODULE FileStore ------------------------------
(***************************************************************************)
(* What fs/operations.h of Projeto2 promises its callers: files that are   *)
(* sequences of bytes, names that lead to them, and handles that are a     *)
(* file and a position in it. No i-nodes, blocks, directory entries or     *)
(* free maps. StoreRefinement shows that TecnicoFS implements it.          *)
(*                                                                         *)
(* Where the code promises less than a caller expects the module says so   *)
(* in an action of its own: ReadStale and the hole of WriteBytes (a file   *)
(* truncated through another handle), and Overrun.                         *)
(***************************************************************************)
EXTENDS Integers

CONSTANTS
  Files, NoFile, Handles,
  Names, Empty, Stored, Paths,   (* as in TecnicoFS                        *)
  Bytes,                         (* what callers write                     *)
  ByteValues,                    (* what a byte of a file may be           *)
  MAX_FILE_SIZE,
  MAX_LEN                        (* bound: the longest buffer              *)

VARIABLES
  names,     (* for each name the file it leads to, as a set               *)
  files,     (* the files there are                                        *)
  file,      (* their contents                                             *)
  handle,    (* for each handle its file and position                      *)
  open,      (* the handles that are open                                  *)
  reply,     (* what the last call returned                                *)
  dead       (* the process has been killed                                *)

vars == <<names, files, file, handle, open, reply, dead>>

EmptyFile == [len |-> 0, bytes |-> [k \in {} |-> 0]]

Init ==
  /\ names = [n \in Names |-> {}]
  /\ files = {}
  /\ file = [f \in Files |-> EmptyFile]
  /\ handle = [h \in Handles |-> [file |-> NoFile, pos |-> 0]]
  /\ open = {}
  /\ reply = [ret |-> 0, data |-> <<>>]
  /\ dead = FALSE

Returns(r) == reply' = [ret |-> r, data |-> <<>>]

Lookup(path) == IF path.abs /\ path.sub # Empty THEN names[path.sub] ELSE {}

(* A handle that is not open is given out, unless they all are.            *)
Give(f, pos) ==
  \/ /\ open = Handles /\ Returns(-1)
     /\ UNCHANGED <<handle, open>>
  \/ \E h \in Handles \ open :
       /\ handle' = [handle EXCEPT ![h] = [file |-> f, pos |-> pos]]
       /\ open' = open \cup {h}
       /\ Returns(h)

Open(path, trunc, append) ==
  \E f \in Lookup(path) :
    LET now == IF trunc THEN EmptyFile ELSE file[f]
    IN  /\ Give(f, IF append THEN now.len ELSE 0)
        /\ file' = [file EXCEPT ![f] = now]
        /\ UNCHANGED <<names, files, dead>>

(* The new file gets the name that is stored, unless another file has it.  *)
Create(path) ==
  /\ Lookup(path) = {} /\ path.sub # Empty
  /\ \E f \in Files \ files :
       /\ Give(f, 0)
       /\ files' = files \cup {f}
       /\ file' = [file EXCEPT ![f] = EmptyFile]
       /\ names' = [names EXCEPT ![Stored[path.sub]] = IF @ = {} THEN {f} ELSE @]
  /\ UNCHANGED dead

Refuse(path) ==
  /\ Lookup(path) = {}
  /\ Returns(-1)
  /\ UNCHANGED <<names, files, file, handle, open, dead>>

Close(h) ==
  /\ IF h \in open THEN open' = open \ {h} /\ Returns(0)
                   ELSE UNCHANGED open /\ Returns(-1)
  /\ UNCHANGED <<names, files, file, handle, dead>>

----------------------------------------------------------------------------
(* A handle keeps its file and position when it is closed, and reads and   *)
(* writes do not ask whether it is open.                                   *)
Issued == {h \in Handles : handle[h].file \in files}

Min2(a, b) == IF a < b THEN a ELSE b
Max2(a, b) == IF a < b THEN b ELSE a

(* Between the old end of the file and the position anything may appear.   *)
WriteBytes(h, byte, len) ==
  LET f == handle[h].file
      from == handle[h].pos
      to == Min2(from + len, MAX_FILE_SIZE)
      size == Max2(file[f].len, to)
  IN  /\ from < to
      /\ Returns(to - from)
      /\ handle' = [handle EXCEPT ![h].pos = to]
      /\ \E hole \in [file[f].len .. from - 1 -> ByteValues] :
           file' = [file EXCEPT ![f] =
             [len |-> size,
              bytes |-> [k \in 0 .. size - 1 |->
                           IF from <= k /\ k < to THEN byte
                           ELSE IF k < @.len THEN @.bytes[k] ELSE hole[k]]]]
      /\ UNCHANGED <<names, files, open, dead>>

WriteNothing(h, len) ==
  /\ len = 0 \/ handle[h].pos = MAX_FILE_SIZE
  /\ Returns(0)
  /\ UNCHANGED <<names, files, file, handle, open, dead>>

(* Only a file that is empty can find the store full.                      *)
WriteFull(h) ==
  /\ file[handle[h].file].len = 0
  /\ Returns(-1)
  /\ UNCHANGED <<names, files, file, handle, open, dead>>

Overrun(h) ==
  /\ handle[h].pos > MAX_FILE_SIZE
  /\ dead' = TRUE
  /\ UNCHANGED <<names, files, file, handle, open, reply>>

Read(h, len) ==
  LET f == handle[h].file
      pos == handle[h].pos
      n == Min2(len, file[f].len - pos)
  IN  /\ pos <= file[f].len
      /\ reply' = [ret |-> n, data |-> [k \in 1 .. n |-> file[f].bytes[pos + k - 1]]]
      /\ handle' = [handle EXCEPT ![h].pos = pos + n]
      /\ UNCHANGED <<names, files, file, open, dead>>

(* The file has become shorter than the position: anything is read.        *)
ReadStale(h, len) ==
  /\ handle[h].pos > file[handle[h].file].len
  /\ \/ /\ \E data \in [1 .. len -> ByteValues] : reply' = [ret |-> len, data |-> data]
        /\ handle' = [handle EXCEPT ![h].pos = @ + len]
     \/ Returns(-1) /\ UNCHANGED handle
  /\ UNCHANGED <<names, files, file, open, dead>>

Next ==
  /\ ~dead
  /\ \/ \E path \in Paths :
          \/ \E trunc, append \in BOOLEAN : Open(path, trunc, append)
          \/ Create(path)
          \/ Refuse(path)
     \/ \E h \in Handles \cup {-1} : Close(h)
     \/ \E h \in Issued, len \in 0 .. MAX_LEN :
          \/ \E byte \in Bytes : WriteBytes(h, byte, len)
          \/ WriteNothing(h, len) \/ WriteFull(h) \/ Overrun(h)
          \/ Read(h, len) \/ ReadStale(h, len)

Spec == Init /\ [][Next]_vars
=============================================================================

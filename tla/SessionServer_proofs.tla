------------------------ MODULE SessionServer_proofs ------------------------
(* The safety properties of SessionServer, for any number of clients and   *)
(* sessions. They are not inductive: that a session has one owner rests on *)
(* where the requests of each client are. A client has at most one request *)
(* in the system, dead clients included, and it is in the server pipe, at  *)
(* the main thread, in a buffer its worker has yet to read, at the worker, *)
(* answered, or lost.                                                      *)
EXTENDS SessionServer, TLAPS, SequenceTheorems

MainPcs == {"read", "open", "table", "malloc", "opcode", "message", "signal"}
WorkerPcs == {"check", "block", "waiting", "dispatch", "reply", "unlock", "release"}
ClientPcs == {"out", "opening", "waiting", "in", "dead"}
MainType == [pc : MainPcs, req : Request \cup {NULL}, slot : Sessions \cup {-1}]
WorkerType == [pc : WorkerPcs, req : Request \cup {NULL}]
ClientType == [pc : ClientPcs, op : Ops, session : Sessions \cup {-1}]

(* TypeOK, in terms of these sets.                                         *)
TypeParts ==
  /\ server_pipe \in Seq(Request) /\ main \in MainType /\ freesession_entries \subseteq Sessions
  /\ table_lock \in Sessions \cup {MainThread, NULL}
  /\ thread_buffer \in [Sessions -> Buffer \cup {NULL}]
  /\ client_fd \in [Sessions -> Clients \cup {NULL}]
  /\ worker \in [Sessions -> WorkerType] /\ client \in [Clients -> ClientType]
  /\ replies \in [Clients -> Seq(Reply)] /\ misread \in BOOLEAN /\ crashed \in BOOLEAN

(* Steps of the main thread between malloc and the signal.                 *)
Copying == {"opcode", "message", "signal"}

(* A request that must carry a session does.                               *)
WellFormed(r) == r \in Request /\ (r.op # "mount" => r.session \in Sessions)

(* What every thread takes for granted of the record it has in hand, also  *)
(* after a message was misread.                                            *)
PipeFormed == \A k \in 1 .. Len(server_pipe) : WellFormed(server_pipe[k])
MainFormed ==
  /\ main.pc # "read" => WellFormed(main.req)
  /\ main.pc \in {"open", "table"} => main.req.op = "mount"
  /\ main.pc = "malloc" => main.req.op # "mount"
  /\ main.pc \in {"malloc"} \cup Copying =>
       main.slot \in Sessions /\ (main.req.op # "mount" => main.slot = main.req.session)
BuffersFormed ==
  \A s \in Sessions :
    /\ thread_buffer[s] # NULL => thread_buffer[s] \in Buffer /\ WellFormed(thread_buffer[s].req)
    /\ worker[s].pc = "dispatch" => thread_buffer[s] \in Buffer /\ WellFormed(thread_buffer[s].req)
WorkersFormed ==
  \A s \in Sessions : worker[s].pc \in {"reply", "unlock"} =>
    worker[s].req \in Request /\ worker[s].req.session \in Sessions
ClientsFormed ==
  /\ \A c \in InSession : client[c].session \in Sessions
  /\ \A c \in Clients : client[c].pc = "opening" => client[c].op = "mount"

TypeInv == TypeParts /\ PipeFormed /\ MainFormed /\ BuffersFormed /\ WorkersFormed /\ ClientsFormed

----------------------------------------------------------------------------
(* Pipes and records *)

(* Session numbers are numbers, and 0 is one.                              *)
LEMMA SessionFacts ==
  Sessions \subseteq Nat /\ 0 \in Sessions /\ -1 \notin Sessions /\ NULL \notin Sessions
    /\ NULL \notin Clients /\ NULL # MainThread /\ MainThread \notin Sessions
  BY ServerAssumption DEF Sessions, MainThread

(* Reading from a pipe.                                                    *)
LEMMA PipeRead ==
  ASSUME NEW S, NEW p \in Seq(S), p # <<>>
  PROVE  /\ Head(p) \in S /\ Head(p) = p[1] /\ Tail(p) \in Seq(S)
         /\ Len(p) \in Nat \ {0} /\ Len(Tail(p)) = Len(p) - 1
         /\ \A k \in 1 .. Len(Tail(p)) : Tail(p)[k] = p[k + 1]
  BY HeadTailProperties

(* Writing to a pipe.                                                      *)
LEMMA PipeWritten ==
  ASSUME NEW S, NEW p \in Seq(S), NEW e \in S
  PROVE  /\ Append(p, e) \in Seq(S) /\ Append(p, e) # <<>>
         /\ Len(p) \in Nat /\ Len(Append(p, e)) = Len(p) + 1
         /\ \A k \in 1 .. Len(p) : Append(p, e)[k] = p[k]
         /\ Append(p, e)[Len(p) + 1] = e
  BY AppendProperties

(* The main thread moves on.                                               *)
LEMMA MainGoesTo ==
  ASSUME main \in MainType, NEW pc \in MainPcs, MainGoes(pc)
  PROVE  main' \in MainType /\ main'.pc = pc /\ main'.req = main.req /\ main'.slot = main.slot
  BY DEF MainGoes, MainType

(* A worker moves on.                                                      *)
LEMMA WorkerGoesTo ==
  ASSUME worker \in [Sessions -> WorkerType], NEW s \in Sessions, NEW pc \in WorkerPcs,
         WorkerGoes(s, pc)
  PROVE  /\ worker' \in [Sessions -> WorkerType]
         /\ worker'[s].pc = pc /\ worker'[s].req = worker[s].req
         /\ \A t \in Sessions \ {s} : worker'[t] = worker[t]
  BY DEF WorkerGoes, WorkerType

(* The server answers, or dies.                                            *)
LEMMA ReplyWritten ==
  ASSUME replies \in [Clients -> Seq(Reply)], NEW fd \in Clients \cup {NULL},
         NEW reply \in Reply, WriteReply(fd, reply)
  PROVE  /\ replies' \in [Clients -> Seq(Reply)] /\ crashed' \in BOOLEAN
         /\ fd \in Reading => replies'[fd] = Append(replies[fd], reply)
         /\ fd \notin Reading => replies' = replies
         /\ \A c \in Clients \ {fd} : replies'[c] = replies[c]
  <1>1. crashed' \in BOOLEAN
    <2>1. CASE fd # NULL /\ fd \notin Reading
      BY <2>1 DEF WriteReply
    <2>2. CASE ~(fd # NULL /\ fd \notin Reading)
      BY <2>2 DEF WriteReply
    <2> QED BY <2>1, <2>2
  <1>2. CASE fd \in Reading
    <2>1. fd \in Clients /\ Append(replies[fd], reply) \in Seq(Reply)
      BY <1>2, PipeWritten DEF Reading
    <2>2. replies' = [replies EXCEPT ![fd] = Append(replies[fd], reply)]
      BY <1>2 DEF WriteReply
    <2> QED BY <1>1, <1>2, <2>1, <2>2
  <1>3. CASE fd \notin Reading
    BY <1>1, <1>3 DEF WriteReply
  <1> QED BY <1>2, <1>3

(* It is TypeOK.                                                           *)
LEMMA TypeOKParts == TypeParts => TypeOK
  BY Zenon DEF TypeOK, TypeParts, MainType, MainPcs, WorkerType, WorkerPcs, ClientType, ClientPcs

(* The server starts with empty hands.                                     *)
LEMMA InitTypeInv == Init => TypeInv
  <1> SUFFICES ASSUME Init PROVE TypeInv
    OBVIOUS
  <1> USE SessionFacts
  <1>1. server_pipe \in Seq(Request) /\ Len(server_pipe) = 0
    BY DEF Init
  <1>2. main \in MainType /\ main.pc = "read"
    BY DEF Init, MainType, MainPcs
  <1>3. /\ freesession_entries \subseteq Sessions /\ table_lock \in Sessions \cup {MainThread, NULL}
        /\ thread_buffer \in [Sessions -> Buffer \cup {NULL}]
        /\ client_fd \in [Sessions -> Clients \cup {NULL}]
        /\ \A s \in Sessions : thread_buffer[s] = NULL
    BY DEF Init
  <1>4. worker \in [Sessions -> WorkerType] /\ \A s \in Sessions : worker[s].pc = "check"
    BY DEF Init, WorkerType, WorkerPcs
  <1>5. /\ client \in [Clients -> ClientType] /\ InSession = {}
        /\ \A c \in Clients : client[c].pc = "out"
    BY DEF Init, ClientType, ClientPcs, Ops, InSession
  <1>6. replies \in [Clients -> Seq(Reply)]
    BY DEF Init
  <1>7. misread \in BOOLEAN /\ crashed \in BOOLEAN
    BY Zenon DEF Init
  <1>8. TypeParts
    BY <1>1, <1>2, <1>3, <1>4, <1>5, <1>6, <1>7 DEF TypeParts
  <1> QED BY <1>1, <1>2, <1>3, <1>4, <1>5, <1>8
       DEF TypeInv, PipeFormed, MainFormed, BuffersFormed, WorkersFormed, ClientsFormed, Copying

----------------------------------------------------------------------------
(* The type invariant *)

(* The main thread takes a request from the server pipe.                   *)
LEMMA MainReadType == TypeInv /\ MainRead => TypeInv'
  <1> SUFFICES ASSUME TypeInv, MainRead PROVE TypeInv'
    OBVIOUS
  <1> USE SessionFacts
  <1>1. TypeParts
    BY DEF TypeInv
  <1>2. PICK req : req = Head(server_pipe)
    OBVIOUS
  <1>3. /\ req = server_pipe[1] /\ req \in Request /\ server_pipe' \in Seq(Request)
        /\ Len(server_pipe) \in Nat \ {0} /\ Len(server_pipe') = Len(server_pipe) - 1
        /\ \A k \in 1 .. Len(server_pipe') : server_pipe'[k] = server_pipe[k + 1]
    BY <1>1, <1>2, PipeRead DEF MainRead, TypeParts
  <1>4. WellFormed(req) /\ PipeFormed'
    BY <1>3 DEF TypeInv, PipeFormed
  <1>5. main' = [pc |-> IF req.op = "mount" THEN "open" ELSE "malloc",
                 req |-> req, slot |-> req.session]
    BY <1>2 DEF MainRead
  <1>6. main' \in MainType /\ MainFormed'
    BY <1>4, <1>5 DEF MainType, MainPcs, MainFormed, WellFormed, Request, Copying
  <1>7. UNCHANGED <<table, worker, client, replies, misread, crashed>>
    BY DEF MainRead
  <1>8. TypeParts'
    BY <1>1, <1>3, <1>6, <1>7 DEF TypeParts, table
  <1>9. BuffersFormed' /\ WorkersFormed' /\ ClientsFormed'
    BY <1>7 DEF TypeInv, BuffersFormed, WorkersFormed, ClientsFormed, table, InSession
  <1> QED BY <1>4, <1>6, <1>8, <1>9 DEF TypeInv

(* The client's pipe is open at both ends.                                 *)
LEMMA MainOpenPipeType == TypeInv /\ MainOpenPipe => TypeInv'
  <1> SUFFICES ASSUME TypeInv, MainOpenPipe PROVE TypeInv'
    OBVIOUS
  <1> USE SessionFacts
  <1>1. TypeParts
    BY DEF TypeInv
  <1>2. main' \in MainType /\ main'.pc = "table" /\ main'.req = main.req /\ main'.slot = main.slot
    BY <1>1, MainGoesTo DEF MainOpenPipe, TypeParts, MainPcs
  <1>3. main.req.op = "mount" /\ WellFormed(main.req)
    BY DEF TypeInv, MainFormed, MainOpenPipe
  <1>4. UNCHANGED <<server_pipe, table, worker, replies, misread, crashed>>
    BY DEF MainOpenPipe
  <1>5. PICK c \in Clients : c = main.req.client
    BY <1>3 DEF WellFormed, Request
  <1>6. /\ client' \in [Clients -> ClientType] /\ client'[c].pc = "waiting"
        /\ client'[c].session = client[c].session
        /\ \A d \in Clients \ {c} : client'[d] = client[d]
    BY ZenonT(30), <1>1, <1>5 DEF MainOpenPipe, TypeParts, ClientType, ClientPcs
  <1>7. TypeParts'
    BY <1>1, <1>2, <1>4, <1>6 DEF TypeParts, table
  <1>8. PipeFormed' /\ BuffersFormed' /\ WorkersFormed'
    BY <1>4 DEF TypeInv, PipeFormed, BuffersFormed, WorkersFormed, table
  <1>9. MainFormed'
    BY <1>2, <1>3 DEF TypeInv, MainFormed, Copying
  <1>10. client[c].op = "mount" /\ client'[c].op = "mount"
    BY <1>1, <1>5 DEF MainOpenPipe, TypeParts, ClientType, TypeInv, ClientsFormed
  <1>11. ClientsFormed'
    BY <1>6, <1>10 DEF TypeInv, ClientsFormed, InSession
  <1> QED BY <1>7, <1>8, <1>9, <1>11 DEF TypeInv

(* A buffer is put into an entry.                                          *)
LEMMA BufferGiven ==
  ASSUME TypeInv, NEW s \in Sessions, WellFormed(main.req),
         thread_buffer' = [thread_buffer EXCEPT ![s] = NewBuffer]
  PROVE  /\ thread_buffer' \in [Sessions -> Buffer \cup {NULL}]
         /\ thread_buffer'[s] = NewBuffer /\ NewBuffer \in Buffer
         /\ NewBuffer.req = main.req /\ NewBuffer.copied = 0
         /\ \A t \in Sessions \ {s} : thread_buffer'[t] = thread_buffer[t]
  <1>1. thread_buffer \in [Sessions -> Buffer \cup {NULL}]
    BY DEF TypeInv, TypeParts
  <1>2. NewBuffer \in Buffer /\ NewBuffer.req = main.req /\ NewBuffer.copied = 0
    BY DEF NewBuffer, Buffer, WellFormed
  <1> QED BY <1>1, <1>2

(* tfs_mount takes an entry.                                               *)
LEMMA MainTakeSessionType == TypeInv /\ MainTakeSession => TypeInv'
  <1> SUFFICES ASSUME TypeInv, MainTakeSession PROVE TypeInv'
    OBVIOUS
  <1> USE SessionFacts
  <1>1. TypeParts
    BY DEF TypeInv
  <1>2. WellFormed(main.req) /\ main.req.op = "mount"
    BY DEF TypeInv, MainFormed, MainTakeSession
  <1>3. PICK s \in Sessions :
          /\ freesession_entries' = freesession_entries \ {s}
          /\ thread_buffer' = [thread_buffer EXCEPT ![s] = NewBuffer]
          /\ main' = [main EXCEPT !.pc = "opcode", !.slot = s]
    BY DEF MainTakeSession, TakeEntry
  <1>4. /\ thread_buffer' \in [Sessions -> Buffer \cup {NULL}]
        /\ thread_buffer'[s] = NewBuffer /\ NewBuffer \in Buffer
        /\ NewBuffer.req = main.req
        /\ \A t \in Sessions \ {s} : thread_buffer'[t] = thread_buffer[t]
    BY <1>2, <1>3, BufferGiven
  <1>5. main' \in MainType /\ main'.pc = "opcode" /\ main'.req = main.req /\ main'.slot = s
    BY <1>1, <1>3 DEF TypeParts, MainType, MainPcs
  <1>6. UNCHANGED <<server_pipe, client_fd, worker, client, replies, misread, crashed>>
        /\ table_lock' = MainThread
    BY DEF MainTakeSession
  <1>7. TypeParts'
    BY <1>1, <1>3, <1>4, <1>5, <1>6 DEF TypeParts
  <1>8. PipeFormed' /\ WorkersFormed' /\ ClientsFormed'
    BY <1>6 DEF TypeInv, PipeFormed, WorkersFormed, ClientsFormed, InSession
  <1>9. MainFormed'
    BY <1>2, <1>5 DEF MainFormed, Copying
  <1>10. BuffersFormed'
    BY <1>2, <1>4, <1>6 DEF TypeInv, BuffersFormed
  <1> QED BY <1>7, <1>8, <1>9, <1>10 DEF TypeInv

(* The other requests get their buffer.                                    *)
LEMMA MainMallocType == TypeInv /\ MainMalloc => TypeInv'
  <1> SUFFICES ASSUME TypeInv, MainMalloc PROVE TypeInv'
    OBVIOUS
  <1> USE SessionFacts
  <1>1. TypeParts
    BY DEF TypeInv
  <1>2. /\ WellFormed(main.req) /\ main.req.op # "mount"
        /\ main.slot \in Sessions /\ main.slot = main.req.session
    BY DEF TypeInv, MainFormed, MainMalloc
  <1>3. PICK s \in Sessions : s = main.slot
    BY <1>2
  <1>4. /\ thread_buffer' \in [Sessions -> Buffer \cup {NULL}]
        /\ thread_buffer'[s] = NewBuffer /\ NewBuffer \in Buffer
        /\ NewBuffer.req = main.req
        /\ \A t \in Sessions \ {s} : thread_buffer'[t] = thread_buffer[t]
    BY <1>2, <1>3, BufferGiven DEF MainMalloc
  <1>5. main' \in MainType /\ main'.pc = "opcode" /\ main'.req = main.req /\ main'.slot = main.slot
    BY <1>1, MainGoesTo DEF MainMalloc, TypeParts, MainPcs
  <1>6. UNCHANGED <<server_pipe, freesession_entries, table_lock, client_fd, worker, client,
                    replies, misread, crashed>>
    BY DEF MainMalloc
  <1>7. TypeParts'
    BY <1>1, <1>4, <1>5, <1>6 DEF TypeParts
  <1>8. PipeFormed' /\ WorkersFormed' /\ ClientsFormed'
    BY <1>6 DEF TypeInv, PipeFormed, WorkersFormed, ClientsFormed, InSession
  <1>9. MainFormed'
    BY <1>2, <1>5 DEF MainFormed, Copying
  <1>10. BuffersFormed'
    BY <1>2, <1>4, <1>6 DEF TypeInv, BuffersFormed
  <1> QED BY <1>7, <1>8, <1>9, <1>10 DEF TypeInv

(* A memcpy into an entry's buffer, if there is one.                       *)
LEMMA Copied ==
  ASSUME TypeInv, NEW s \in Sessions, NEW n \in 0 .. 2, CopyInto(s, n)
  PROVE  /\ thread_buffer' \in [Sessions -> Buffer \cup {NULL}] /\ crashed' \in BOOLEAN
         /\ \A t \in Sessions \ {s} : thread_buffer'[t] = thread_buffer[t]
         /\ thread_buffer[s] = NULL => thread_buffer'[s] = NULL
         /\ thread_buffer[s] # NULL =>
              thread_buffer'[s] \in Buffer /\ thread_buffer'[s].req = thread_buffer[s].req
                /\ thread_buffer'[s].copied = n
  <1>1. thread_buffer \in [Sessions -> Buffer \cup {NULL}] /\ crashed \in BOOLEAN
    BY DEF TypeInv, TypeParts
  <1>2. CASE thread_buffer[s] = NULL
    BY <1>1, <1>2, Zenon DEF CopyInto
  <1>3. CASE thread_buffer[s] # NULL
    <2>1. thread_buffer[s] \in Buffer
      BY <1>1, <1>3
    <2>2. PICK b \in Buffer : b = thread_buffer[s]
      BY <2>1
    <2>3. [b EXCEPT !.copied = n] \in Buffer /\ [b EXCEPT !.copied = n].req = b.req
          /\ [b EXCEPT !.copied = n].copied = n
      BY DEF Buffer
    <2>4. thread_buffer' = [thread_buffer EXCEPT ![s] = [b EXCEPT !.copied = n]] /\ UNCHANGED crashed
      BY <1>3, <2>2 DEF CopyInto
    <2> QED BY <1>1, <1>3, <2>2, <2>3, <2>4
  <1> QED BY <1>2, <1>3

(* A memcpy leaves every buffer well formed.                               *)
LEMMA BuffersFormedCopied ==
  ASSUME TypeInv, NEW s \in Sessions, NEW n \in 0 .. 2, CopyInto(s, n), UNCHANGED worker
  PROVE  BuffersFormed'
  <1>1. /\ \A t \in Sessions \ {s} : thread_buffer'[t] = thread_buffer[t]
        /\ thread_buffer[s] = NULL => thread_buffer'[s] = NULL
        /\ thread_buffer[s] # NULL =>
             thread_buffer'[s] \in Buffer /\ thread_buffer'[s].req = thread_buffer[s].req
    BY Copied
  <1>2. ASSUME NEW t \in Sessions
        PROVE  /\ thread_buffer'[t] # NULL =>
                    thread_buffer'[t] \in Buffer /\ WellFormed(thread_buffer'[t].req)
               /\ worker'[t].pc = "dispatch" =>
                    thread_buffer'[t] \in Buffer /\ WellFormed(thread_buffer'[t].req)
    <2>1. CASE t # s
      BY <1>1, <2>1 DEF TypeInv, BuffersFormed
    <2>2. CASE t = s /\ thread_buffer[s] # NULL
      BY <1>1, <2>2 DEF TypeInv, BuffersFormed
    <2>3. CASE t = s /\ thread_buffer[s] = NULL
      BY <1>1, <2>3 DEF TypeInv, BuffersFormed
    <2> QED BY <2>1, <2>2, <2>3
  <1> QED BY <1>2 DEF BuffersFormed

(* The opcode is copied.                                                   *)
LEMMA MainCopyOpcodeType == TypeInv /\ MainCopyOpcode => TypeInv'
  <1> SUFFICES ASSUME TypeInv, MainCopyOpcode PROVE TypeInv'
    OBVIOUS
  <1> USE SessionFacts
  <1>1. TypeParts
    BY DEF TypeInv
  <1>2. /\ WellFormed(main.req) /\ main.slot \in Sessions
        /\ main.req.op # "mount" => main.slot = main.req.session
    BY DEF TypeInv, MainFormed, MainCopyOpcode, Copying
  <1>3. CopyInto(main.slot, 1) /\ UNCHANGED worker
    BY DEF MainCopyOpcode
  <1>4. /\ thread_buffer' \in [Sessions -> Buffer \cup {NULL}] /\ crashed' \in BOOLEAN
        /\ BuffersFormed'
    <2>1. PICK s \in Sessions : s = main.slot
      BY <1>2
    <2>2. CopyInto(s, 1)
      BY <1>3, <2>1 DEF CopyInto
    <2> QED BY <1>3, <2>2, Copied, BuffersFormedCopied
  <1>5. main' \in MainType /\ main'.pc = "message" /\ main'.req = main.req /\ main'.slot = main.slot
    BY <1>1, MainGoesTo DEF MainCopyOpcode, TypeParts, MainPcs
  <1>6. UNCHANGED <<server_pipe, freesession_entries, table_lock, worker, client, replies, misread>>
    BY DEF MainCopyOpcode
  <1>7. client_fd' \in [Sessions -> Clients \cup {NULL}]
    BY <1>1, <1>2 DEF MainCopyOpcode, TypeParts, WellFormed, Request
  <1>8. TypeParts'
    BY <1>1, <1>4, <1>5, <1>6, <1>7 DEF TypeParts
  <1>9. PipeFormed' /\ WorkersFormed' /\ ClientsFormed'
    BY <1>6 DEF TypeInv, PipeFormed, WorkersFormed, ClientsFormed, InSession
  <1>10. MainFormed'
    BY <1>2, <1>5 DEF MainFormed, Copying
  <1> QED BY <1>4, <1>8, <1>9, <1>10 DEF TypeInv

(* The message is copied.                                                  *)
LEMMA MainCopyMessageType == TypeInv /\ MainCopyMessage => TypeInv'
  <1> SUFFICES ASSUME TypeInv, MainCopyMessage PROVE TypeInv'
    OBVIOUS
  <1> USE SessionFacts
  <1>1. TypeParts
    BY DEF TypeInv
  <1>2. /\ WellFormed(main.req) /\ main.slot \in Sessions
        /\ main.req.op # "mount" => main.slot = main.req.session
    BY DEF TypeInv, MainFormed, MainCopyMessage, Copying
  <1>3. CopyInto(main.slot, 2) /\ UNCHANGED worker
    BY DEF MainCopyMessage
  <1>4. /\ thread_buffer' \in [Sessions -> Buffer \cup {NULL}] /\ crashed' \in BOOLEAN
        /\ BuffersFormed'
    <2>1. PICK s \in Sessions : s = main.slot
      BY <1>2
    <2>2. CopyInto(s, 2)
      BY <1>3, <2>1 DEF CopyInto
    <2> QED BY <1>3, <2>2, Copied, BuffersFormedCopied
  <1>5. main' \in MainType /\ main'.pc = "signal" /\ main'.req = main.req /\ main'.slot = main.slot
    BY <1>1, MainGoesTo DEF MainCopyMessage, TypeParts, MainPcs
  <1>6. UNCHANGED <<server_pipe, freesession_entries, table_lock, client_fd, worker, client,
                    replies, misread>>
    BY DEF MainCopyMessage
  <1>7. TypeParts'
    BY <1>1, <1>4, <1>5, <1>6 DEF TypeParts
  <1>8. PipeFormed' /\ WorkersFormed' /\ ClientsFormed'
    BY <1>6 DEF TypeInv, PipeFormed, WorkersFormed, ClientsFormed, InSession
  <1>9. MainFormed'
    BY <1>2, <1>5 DEF MainFormed, Copying
  <1> QED BY <1>4, <1>7, <1>8, <1>9 DEF TypeInv

(* The worker is signalled.                                                *)
LEMMA MainSignalType == TypeInv /\ MainSignal => TypeInv'
  <1> SUFFICES ASSUME TypeInv, MainSignal PROVE TypeInv'
    OBVIOUS
  <1> USE SessionFacts
  <1>1. TypeParts
    BY DEF TypeInv
  <1>2. PICK s \in Sessions : s = main.slot
    BY DEF TypeInv, MainFormed, MainSignal, Copying
  <1>3. main' \in MainType /\ main'.pc = "read"
    BY <1>1, MainGoesTo DEF MainSignal, TypeParts, MainPcs
  <1>4. UNCHANGED <<server_pipe, freesession_entries, thread_buffer, client_fd, client,
                    replies, misread, crashed>>
    BY DEF MainSignal
  <1>5. /\ worker' \in [Sessions -> WorkerType]
        /\ \A t \in Sessions : worker'[t] = worker[t] \/ worker'[t].pc = "check"
    BY ZenonT(30), <1>1, <1>2 DEF MainSignal, TypeParts, WorkerType, WorkerPcs
  <1>6. table_lock' \in Sessions \cup {MainThread, NULL}
    BY <1>1 DEF MainSignal, TypeParts
  <1>7. TypeParts'
    BY <1>1, <1>3, <1>4, <1>5, <1>6 DEF TypeParts
  <1>8. PipeFormed' /\ MainFormed' /\ ClientsFormed'
    BY <1>3, <1>4 DEF TypeInv, PipeFormed, MainFormed, ClientsFormed, InSession, Copying
  <1>9. BuffersFormed' /\ WorkersFormed'
    BY <1>4, <1>5 DEF TypeInv, BuffersFormed, WorkersFormed
  <1> QED BY <1>7, <1>8, <1>9 DEF TypeInv

(* No entry is free.                                                       *)
LEMMA MainRefuseType == TypeInv /\ MainRefuse => TypeInv'
  <1> SUFFICES ASSUME TypeInv, MainRefuse PROVE TypeInv'
    OBVIOUS
  <1> USE SessionFacts
  <1>1. TypeParts
    BY DEF TypeInv
  <1>2. main.req \in Request
    BY DEF TypeInv, MainFormed, MainRefuse, WellFormed
  <1>3. PICK c \in Clients : c = main.req.client
    BY <1>2 DEF Request
  <1>4. [op |-> "mount", client |-> c, val |-> -1] \in Reply
    BY DEF Reply, Ops
  <1>5. replies' \in [Clients -> Seq(Reply)] /\ crashed' \in BOOLEAN
    <2>1. WriteReply(c, [op |-> "mount", client |-> c, val |-> -1])
      BY <1>3 DEF MainRefuse, WriteReply
    <2> QED BY <1>1, <1>4, <2>1, ReplyWritten DEF TypeParts
  <1>6. main' \in MainType /\ main'.pc = "read"
    BY <1>1, MainGoesTo DEF MainRefuse, TypeParts, MainPcs
  <1>7. UNCHANGED <<server_pipe, table, worker, client, misread>>
    BY DEF MainRefuse
  <1>8. TypeParts'
    BY <1>1, <1>5, <1>6, <1>7 DEF TypeParts, table
  <1>9. PipeFormed' /\ MainFormed' /\ BuffersFormed' /\ WorkersFormed' /\ ClientsFormed'
    BY <1>6, <1>7 DEF TypeInv, PipeFormed, MainFormed, BuffersFormed, WorkersFormed, ClientsFormed,
       InSession, Copying, table
  <1> QED BY <1>8, <1>9 DEF TypeInv

(* A worker changes; the session of what it has in hand is a session.      *)
LEMMA WorkerChangesType ==
  ASSUME TypeInv, NEW s \in Sessions,
         worker' \in [Sessions -> WorkerType], \A t \in Sessions \ {s} : worker'[t] = worker[t],
         worker'[s].pc = "dispatch" => thread_buffer[s] # NULL \/ worker[s].pc = "dispatch",
         worker'[s].pc \in {"reply", "unlock"} =>
           worker'[s].req \in Request /\ worker'[s].req.session \in Sessions,
         UNCHANGED <<server_pipe, main, thread_buffer, client>>,
         freesession_entries' \subseteq Sessions,
         table_lock' \in Sessions \cup {MainThread, NULL},
         client_fd' \in [Sessions -> Clients \cup {NULL}],
         replies' \in [Clients -> Seq(Reply)], misread' \in BOOLEAN, crashed' \in BOOLEAN
  PROVE  TypeInv'
  <1>1. TypeParts'
    BY DEF TypeInv, TypeParts
  <1>2. PipeFormed' /\ MainFormed' /\ ClientsFormed'
    BY DEF TypeInv, PipeFormed, MainFormed, ClientsFormed, InSession
  <1>3. BuffersFormed' /\ WorkersFormed'
    BY DEF TypeInv, BuffersFormed, WorkersFormed
  <1> QED BY <1>1, <1>2, <1>3 DEF TypeInv

(* The worker's loop, up to finding its buffer.                            *)
LEMMA WorkerLoopsType ==
  ASSUME TypeInv, NEW s \in Sessions, WorkerCheck(s) \/ WorkerWait(s) \/ SpuriousWakeup(s)
  PROVE  TypeInv'
  <1>1. TypeParts
    BY DEF TypeInv
  <1>2. PICK pc \in {"check", "block", "dispatch", "waiting"} :
          WorkerGoes(s, pc) /\ (pc = "dispatch" => thread_buffer[s] # NULL)
    <2>1. CASE WorkerCheck(s)
      BY <2>1 DEF WorkerCheck, WorkerGoes
    <2>2. CASE WorkerWait(s)
      BY <2>2 DEF WorkerWait, WorkerGoes
    <2>3. CASE SpuriousWakeup(s)
      BY <2>3 DEF SpuriousWakeup, WorkerGoes
    <2> QED BY <2>1, <2>2, <2>3
  <1>3. /\ worker' \in [Sessions -> WorkerType] /\ worker'[s].pc = pc
        /\ \A t \in Sessions \ {s} : worker'[t] = worker[t]
    BY <1>1, <1>2, WorkerGoesTo DEF TypeParts, WorkerPcs
  <1>4. UNCHANGED <<server_pipe, main, freesession_entries, table_lock, thread_buffer, client_fd,
                    client, replies, misread, crashed>>
    BY DEF WorkerCheck, WorkerWait, SpuriousWakeup, table
  <1> QED BY <1>1, <1>2, <1>3, <1>4, WorkerChangesType DEF TypeParts

(* The worker reads its buffer: whatever it makes of it is a request.      *)
LEMMA WorkerDispatched ==
  ASSUME TypeInv, NEW s \in Sessions, WorkerDispatch(s)
  PROVE  /\ worker' \in [Sessions -> WorkerType]
         /\ \A t \in Sessions \ {s} : worker'[t] = worker[t]
         /\ worker'[s].pc \in {"dispatch", "reply", "release"}
         /\ worker'[s].pc = "dispatch" => misread' /\ worker'[s] = worker[s]
         /\ worker'[s].pc = "reply" =>
              /\ worker'[s].req \in Request /\ worker'[s].req.session \in Sessions
              /\ worker'[s].req.op = thread_buffer[s].req.op
              /\ worker'[s].req.client = thread_buffer[s].req.client
              /\ worker'[s].req.op # "shutdown"
              /\ ~misread' => worker'[s].req.session =
                                IF worker'[s].req.op = "mount" THEN s ELSE thread_buffer[s].req.session
         /\ misread' \in BOOLEAN /\ crashed' \in BOOLEAN /\ (~misread' => ~misread)
         /\ UNCHANGED <<server_pipe, main, table, client, replies>>
  <1>1. TypeParts
    BY DEF TypeInv
  <1>2. PICK r : r = thread_buffer[s].req
    OBVIOUS
  <1>3. r \in Request /\ (r.op # "mount" => r.session \in Sessions)
    BY <1>2 DEF TypeInv, BuffersFormed, WorkerDispatch, WellFormed
  <1>4. /\ worker \in [Sessions -> WorkerType] /\ worker[s].pc = "dispatch"
        /\ misread \in BOOLEAN /\ crashed \in BOOLEAN
    BY <1>1 DEF TypeParts, WorkerDispatch
  <1>5. \A g \in Sessions : /\ [r EXCEPT !.session = g] \in Request
                            /\ [r EXCEPT !.session = g].session = g
                            /\ [r EXCEPT !.session = g].op = r.op
                            /\ [r EXCEPT !.session = g].client = r.client
    BY <1>3 DEF Request
  <1>6. \A q \in Request : [pc |-> "reply", req |-> q] \in WorkerType
    BY DEF WorkerType, WorkerPcs
  <1>7. UNCHANGED <<server_pipe, main, table, client, replies>>
    BY DEF WorkerDispatch
  <1>8. CASE WorkerGoes(s, "release") /\ UNCHANGED <<misread, crashed>>
    <2>1. /\ worker' \in [Sessions -> WorkerType] /\ worker'[s].pc = "release"
          /\ \A t \in Sessions \ {s} : worker'[t] = worker[t]
      BY <1>4, <1>8, WorkerGoesTo DEF WorkerPcs
    <2>2. misread' \in BOOLEAN /\ crashed' \in BOOLEAN /\ (~misread' => ~misread)
      BY <1>4, <1>8, Zenon
    <2> QED BY <1>7, <2>1, <2>2
  <1>9. CASE /\ r.op = "mount" /\ UNCHANGED <<misread, crashed>>
             /\ worker' = [worker EXCEPT ![s] = [pc |-> "reply", req |-> [r EXCEPT !.session = s]]]
    <2>1. PICK q \in Request : /\ q = [r EXCEPT !.session = s] /\ q.op = r.op
                               /\ q.client = r.client /\ q.session = s
      BY <1>5
    <2>2. /\ worker' \in [Sessions -> WorkerType] /\ worker'[s] = [pc |-> "reply", req |-> q]
          /\ \A t \in Sessions \ {s} : worker'[t] = worker[t]
      BY <1>4, <1>6, <1>9, <2>1
    <2>3. misread' \in BOOLEAN /\ crashed' \in BOOLEAN /\ (~misread' => ~misread)
      BY <1>4, <1>9, Zenon
    <2> QED BY <1>2, <1>7, <1>9, <2>1, <2>2, <2>3
  <1>10. CASE /\ r.op \in {"access", "unmount"} /\ UNCHANGED <<misread, crashed>>
              /\ worker' = [worker EXCEPT ![s] = [pc |-> "reply", req |-> r]]
    <2>1. /\ worker' \in [Sessions -> WorkerType] /\ worker'[s] = [pc |-> "reply", req |-> r]
          /\ \A t \in Sessions \ {s} : worker'[t] = worker[t]
      BY <1>3, <1>4, <1>6, <1>10
    <2>2. misread' \in BOOLEAN /\ crashed' \in BOOLEAN /\ (~misread' => ~misread)
      BY <1>4, <1>10, Zenon
    <2> QED BY <1>2, <1>3, <1>7, <1>10, <2>1, <2>2
  <1>11. CASE /\ r.op \in {"access", "unmount"} /\ misread' = TRUE /\ UNCHANGED crashed
              /\ \E g \in Sessions :
                   worker' = [worker EXCEPT ![s] = [pc |-> "reply", req |-> [r EXCEPT !.session = g]]]
    <2>1. PICK g \in Sessions :
            worker' = [worker EXCEPT ![s] = [pc |-> "reply", req |-> [r EXCEPT !.session = g]]]
      BY <1>11
    <2>2. PICK q \in Request : /\ q = [r EXCEPT !.session = g] /\ q.op = r.op
                               /\ q.client = r.client /\ q.session = g
      BY <1>5
    <2>3. /\ worker' \in [Sessions -> WorkerType] /\ worker'[s] = [pc |-> "reply", req |-> q]
          /\ \A t \in Sessions \ {s} : worker'[t] = worker[t]
      BY <1>4, <1>6, <2>1, <2>2
    <2>4. misread' \in BOOLEAN /\ crashed' \in BOOLEAN /\ misread'
      BY <1>4, <1>11, Zenon
    <2> QED BY <1>2, <1>7, <1>11, <2>2, <2>3, <2>4
  <1>12. CASE misread' = TRUE /\ crashed' = TRUE /\ UNCHANGED worker
    BY <1>4, <1>7, <1>12
  <1> QED BY <1>2, <1>8, <1>9, <1>10, <1>11, <1>12 DEF WorkerDispatch

(* ... so the types hold.                                                  *)
LEMMA WorkerDispatchType ==
  ASSUME TypeInv, NEW s \in Sessions, WorkerDispatch(s)
  PROVE  TypeInv'
  <1>1. /\ worker' \in [Sessions -> WorkerType]
        /\ \A t \in Sessions \ {s} : worker'[t] = worker[t]
        /\ worker'[s].pc \in {"dispatch", "reply", "release"}
        /\ worker'[s].pc = "reply" => worker'[s].req \in Request /\ worker'[s].req.session \in Sessions
        /\ misread' \in BOOLEAN /\ crashed' \in BOOLEAN
        /\ UNCHANGED <<server_pipe, main, freesession_entries, table_lock, thread_buffer, client_fd,
                       client, replies>>
    BY WorkerDispatched DEF table
  <1>2. TypeParts /\ worker[s].pc = "dispatch"
    BY DEF TypeInv, WorkerDispatch
  <1> QED BY <1>1, <1>2, WorkerChangesType DEF TypeParts

(* What a worker writes is a reply, and it writes it to a client that this *)
(* entry was given to, or nowhere.                                         *)
LEMMA WorkerReplied ==
  ASSUME TypeInv, NEW s \in Sessions, WorkerReply(s)
  PROVE  \E val \in Sessions \cup {0, -1} :
           /\ worker[s].req.op = "mount" => val = s
           /\ WriteReply(client_fd[worker[s].req.session],
                         [op |-> worker[s].req.op, client |-> worker[s].req.client, val |-> val])
           /\ [op |-> worker[s].req.op, client |-> worker[s].req.client, val |-> val] \in Reply
           /\ client_fd[worker[s].req.session] \in Clients \cup {NULL}
  <1>1. worker[s].req \in Request /\ worker[s].req.session \in Sessions
    BY DEF TypeInv, WorkersFormed, WorkerReply
  <1>2. client_fd[worker[s].req.session] \in Clients \cup {NULL}
    BY <1>1 DEF TypeInv, TypeParts
  <1>3. PICK val \in IF worker[s].req.op = "mount" THEN {s} ELSE {0, -1} :
          WriteReply(ReplyTo(worker[s].req.session), Answer(worker[s].req, val))
    BY DEF WorkerReply
  <1>4. WriteReply(client_fd[worker[s].req.session],
                   [op |-> worker[s].req.op, client |-> worker[s].req.client, val |-> val])
    BY <1>3 DEF ReplyTo, Answer
  <1>5. val \in Sessions \cup {0, -1} /\ (worker[s].req.op = "mount" => val = s)
    BY <1>3
  <1>6. [op |-> worker[s].req.op, client |-> worker[s].req.client, val |-> val] \in Reply
    BY <1>1, <1>5 DEF Reply, Request
  <1> QED BY <1>2, <1>4, <1>5, <1>6

(* worker_mount and the operations answer.                                 *)
LEMMA WorkerReplyType ==
  ASSUME TypeInv, NEW s \in Sessions, WorkerReply(s)
  PROVE  TypeInv'
  <1>1. TypeParts
    BY DEF TypeInv
  <1>2. /\ worker' \in [Sessions -> WorkerType] /\ worker'[s].pc = "release"
        /\ \A t \in Sessions \ {s} : worker'[t] = worker[t]
    BY <1>1, WorkerGoesTo DEF TypeParts, WorkerPcs, WorkerReply
  <1>3. UNCHANGED <<server_pipe, main, freesession_entries, table_lock, thread_buffer, client_fd,
                    client, misread>>
    BY DEF WorkerReply, table
  <1>4. replies' \in [Clients -> Seq(Reply)] /\ crashed' \in BOOLEAN
    <2>1. PICK val \in Sessions \cup {0, -1} :
            /\ WriteReply(client_fd[worker[s].req.session],
                          [op |-> worker[s].req.op, client |-> worker[s].req.client, val |-> val])
            /\ [op |-> worker[s].req.op, client |-> worker[s].req.client, val |-> val] \in Reply
            /\ client_fd[worker[s].req.session] \in Clients \cup {NULL}
      BY WorkerReplied
    <2>2. PICK fd \in Clients \cup {NULL}, a \in Reply :
            /\ fd = client_fd[worker[s].req.session]
            /\ a = [op |-> worker[s].req.op, client |-> worker[s].req.client, val |-> val]
      BY <2>1
    <2>3. WriteReply(fd, a)
      BY <2>1, <2>2 DEF WriteReply
    <2> QED BY <1>1, <2>3, ReplyWritten DEF TypeParts
  <1> QED BY <1>1, <1>2, <1>3, <1>4, WorkerChangesType DEF TypeParts

(* What worker_unmount writes, and to whom.                                *)
LEMMA WorkerUnmounted ==
  ASSUME TypeInv, NEW s \in Sessions, WorkerUnmount(s)
  PROVE  \E fd \in Clients \cup {NULL}, a \in Reply :
           /\ worker[s].req \in Request /\ worker[s].req.session \in Sessions
           /\ fd = client_fd[worker[s].req.session]
           /\ a = [op |-> "unmount", client |-> worker[s].req.client,
                   val |-> IF worker[s].req.session \in freesession_entries THEN -1 ELSE 0]
           /\ WriteReply(fd, a)
           /\ worker' \in [Sessions -> WorkerType]
           /\ worker'[s].pc = IF fd = NULL THEN "release" ELSE "unlock"
           /\ worker'[s].req = worker[s].req
           /\ \A t \in Sessions \ {s} : worker'[t] = worker[t]
  <1>1. /\ worker[s].req \in Request /\ worker[s].req.session \in Sessions
        /\ worker[s].req.op = "unmount"
    BY DEF TypeInv, WorkersFormed, WorkerUnmount
  <1>2. client_fd \in [Sessions -> Clients \cup {NULL}] /\ worker \in [Sessions -> WorkerType]
    BY DEF TypeInv, TypeParts
  <1>3. PICK fd \in Clients \cup {NULL} : fd = client_fd[worker[s].req.session]
    BY <1>1, <1>2
  <1>4. [op |-> "unmount", client |-> worker[s].req.client,
         val |-> IF worker[s].req.session \in freesession_entries THEN -1 ELSE 0] \in Reply
    BY <1>1 DEF Reply, Request, Ops
  <1>5. PICK a \in Reply :
          a = [op |-> "unmount", client |-> worker[s].req.client,
               val |-> IF worker[s].req.session \in freesession_entries THEN -1 ELSE 0]
    BY <1>4
  <1>6. WriteReply(fd, a)
    BY <1>1, <1>3, <1>5 DEF WorkerUnmount, WriteReply, ReplyTo, Answer
  <1>7. PICK pc \in WorkerPcs : pc = IF fd = NULL THEN "release" ELSE "unlock"
    BY DEF WorkerPcs
  <1>8. WorkerGoes(s, pc)
    BY <1>3, <1>7 DEF WorkerUnmount, WorkerGoes, ReplyTo
  <1>9. /\ worker' \in [Sessions -> WorkerType]
        /\ worker'[s].pc = pc /\ worker'[s].req = worker[s].req
        /\ \A t \in Sessions \ {s} : worker'[t] = worker[t]
    BY <1>2, <1>8, WorkerGoesTo
  <1> QED BY <1>1, <1>3, <1>5, <1>6, <1>7, <1>9

(* worker_unmount frees the entry and answers.                             *)
LEMMA WorkerUnmountType ==
  ASSUME TypeInv, NEW s \in Sessions, WorkerUnmount(s)
  PROVE  TypeInv'
  <1>1. TypeParts
    BY DEF TypeInv
  <1>2. PICK fd \in Clients \cup {NULL}, a \in Reply :
          /\ worker[s].req \in Request /\ worker[s].req.session \in Sessions
          /\ WriteReply(fd, a)
          /\ worker' \in [Sessions -> WorkerType]
          /\ worker'[s].pc = IF fd = NULL THEN "release" ELSE "unlock"
          /\ worker'[s].req = worker[s].req
          /\ \A t \in Sessions \ {s} : worker'[t] = worker[t]
    BY WorkerUnmounted
  <1>3. UNCHANGED <<server_pipe, main, thread_buffer, client_fd, client, misread>>
        /\ table_lock' = s /\ freesession_entries' \subseteq Sessions
    BY <1>1, <1>2 DEF WorkerUnmount, TypeParts
  <1>4. replies' \in [Clients -> Seq(Reply)] /\ crashed' \in BOOLEAN
    BY <1>1, <1>2, ReplyWritten DEF TypeParts
  <1> QED BY <1>1, <1>2, <1>3, <1>4, WorkerChangesType DEF TypeParts

(* ... and gives the lock back.                                            *)
LEMMA WorkerUnlockType ==
  ASSUME TypeInv, NEW s \in Sessions, WorkerUnlock(s)
  PROVE  TypeInv'
  <1>1. TypeParts
    BY DEF TypeInv
  <1>2. /\ worker' \in [Sessions -> WorkerType] /\ worker'[s].pc = "release"
        /\ \A t \in Sessions \ {s} : worker'[t] = worker[t]
    BY <1>1, WorkerGoesTo DEF TypeParts, WorkerPcs, WorkerUnlock
  <1>3. UNCHANGED <<server_pipe, main, freesession_entries, thread_buffer, client, replies, misread,
                    crashed>>
        /\ table_lock' = NULL
        /\ client_fd' = [client_fd EXCEPT ![worker[s].req.session] = NULL]
    BY DEF WorkerUnlock, Unlocked
  <1>4. client_fd' \in [Sessions -> Clients \cup {NULL}]
    BY <1>1, <1>3 DEF TypeParts
  <1> QED BY <1>1, <1>2, <1>3, <1>4, WorkerChangesType DEF TypeParts

(* The worker frees its buffer and starts over.                            *)
LEMMA WorkerReleaseType ==
  ASSUME TypeInv, NEW s \in Sessions, WorkerRelease(s)
  PROVE  TypeInv'
  <1>1. TypeParts
    BY DEF TypeInv
  <1>2. /\ worker' \in [Sessions -> WorkerType] /\ worker'[s].pc = "check"
        /\ \A t \in Sessions \ {s} : worker'[t] = worker[t]
    BY <1>1 DEF WorkerRelease, TypeParts, WorkerType, WorkerPcs
  <1>3. /\ thread_buffer' \in [Sessions -> Buffer \cup {NULL}] /\ thread_buffer'[s] = NULL
        /\ \A t \in Sessions \ {s} : thread_buffer'[t] = thread_buffer[t]
    BY <1>1 DEF WorkerRelease, TypeParts
  <1>4. UNCHANGED <<server_pipe, main, freesession_entries, table_lock, client_fd,
                    client, replies, misread, crashed>>
    BY DEF WorkerRelease
  <1>5. TypeParts'
    BY <1>1, <1>2, <1>3, <1>4 DEF TypeParts
  <1>6. PipeFormed' /\ MainFormed' /\ ClientsFormed'
    BY <1>4 DEF TypeInv, PipeFormed, MainFormed, ClientsFormed, InSession
  <1>7. BuffersFormed' /\ WorkersFormed'
    BY <1>2, <1>3 DEF TypeInv, BuffersFormed, WorkersFormed
  <1> QED BY <1>5, <1>6, <1>7 DEF TypeInv

(* A client changes, and perhaps adds a request to the server pipe.        *)
LEMMA ClientChangesType ==
  ASSUME TypeInv, NEW c \in Clients,
         client' \in [Clients -> ClientType], \A d \in Clients \ {c} : client'[d] = client[d],
         client'[c].pc = "in" \/ (client'[c].pc = "waiting" /\ client'[c].op # "mount") =>
           client'[c].session \in Sessions,
         client'[c].pc = "opening" => client'[c].op = "mount",
         server_pipe' \in Seq(Request), PipeFormed',
         replies' \in [Clients -> Seq(Reply)],
         UNCHANGED <<main, table, worker, misread, crashed>>
  PROVE  TypeInv'
  <1>1. TypeParts'
    BY DEF TypeInv, TypeParts, table
  <1>2. MainFormed' /\ BuffersFormed' /\ WorkersFormed'
    BY DEF TypeInv, MainFormed, BuffersFormed, WorkersFormed, table
  <1>3. ClientsFormed'
    BY DEF TypeInv, ClientsFormed, InSession
  <1> QED BY <1>1, <1>2, <1>3 DEF TypeInv

(* The request a client sends is well formed and goes to the end of the    *)
(* server pipe.                                                            *)
LEMMA Sent ==
  ASSUME TypeInv, NEW c \in Clients, NEW op \in Ops, NEW pc \in ClientPcs, Send(c, op, pc),
         op # "mount" => client[c].session \in Sessions
  PROVE  \E r \in Request :
           /\ r = [op |-> op, client |-> c, session |-> IF op = "mount" THEN -1 ELSE client[c].session]
           /\ WellFormed(r)
           /\ server_pipe' = Append(server_pipe, r) /\ server_pipe' \in Seq(Request)
           /\ Len(server_pipe) \in Nat /\ Len(server_pipe') = Len(server_pipe) + 1
           /\ \A k \in 1 .. Len(server_pipe) : server_pipe'[k] = server_pipe[k]
           /\ server_pipe'[Len(server_pipe) + 1] = r
           /\ PipeFormed'
           /\ client' \in [Clients -> ClientType]
           /\ client'[c].pc = pc /\ client'[c].op = op /\ client'[c].session = client[c].session
           /\ \A d \in Clients \ {c} : client'[d] = client[d]
  <1>1. TypeParts
    BY DEF TypeInv
  <1>2. PICK r \in Request :
          r = [op |-> op, client |-> c, session |-> IF op = "mount" THEN -1 ELSE client[c].session]
    <2>1. PICK n \in Sessions \cup {-1} : n = IF op = "mount" THEN -1 ELSE client[c].session
      OBVIOUS
    <2>2. [op |-> op, client |-> c, session |-> n] \in Request
      BY DEF Request
    <2> QED BY <2>1, <2>2
  <1>3. WellFormed(r)
    BY <1>2 DEF WellFormed
  <1>4. server_pipe' = Append(server_pipe, r)
    BY <1>2 DEF Send
  <1>5. /\ server_pipe' \in Seq(Request)
        /\ Len(server_pipe) \in Nat /\ Len(server_pipe') = Len(server_pipe) + 1
        /\ \A k \in 1 .. Len(server_pipe) : server_pipe'[k] = server_pipe[k]
        /\ server_pipe'[Len(server_pipe) + 1] = r
    BY <1>1, <1>4, PipeWritten DEF TypeParts
  <1>6. PipeFormed'
    <2> SUFFICES ASSUME NEW k \in 1 .. Len(server_pipe') PROVE WellFormed(server_pipe'[k])
      BY DEF PipeFormed
    <2>1. k \in 1 .. Len(server_pipe) \/ k = Len(server_pipe) + 1
      BY <1>5
    <2> QED BY <1>3, <1>5, <2>1 DEF TypeInv, PipeFormed
  <1>7. /\ client' \in [Clients -> ClientType]
        /\ client'[c].pc = pc /\ client'[c].op = op /\ client'[c].session = client[c].session
        /\ \A d \in Clients \ {c} : client'[d] = client[d]
    BY <1>1 DEF Send, TypeParts, ClientType
  <1> QED BY <1>2, <1>3, <1>4, <1>5, <1>6, <1>7

(* A client mounts.                                                        *)
LEMMA ClientMountType ==
  ASSUME TypeInv, NEW c \in Clients, ClientMount(c)
  PROVE  TypeInv'
  <1>1. TypeParts
    BY DEF TypeInv
  <1>2. /\ server_pipe' \in Seq(Request) /\ PipeFormed'
        /\ client' \in [Clients -> ClientType] /\ client'[c].pc = "opening" /\ client'[c].op = "mount"
        /\ \A d \in Clients \ {c} : client'[d] = client[d]
    BY Sent DEF ClientMount, Ops, ClientPcs
  <1>3. replies' \in [Clients -> Seq(Reply)] /\ UNCHANGED <<main, table, worker, misread, crashed>>
    BY <1>1 DEF ClientMount, TypeParts
  <1> QED BY <1>2, <1>3, ClientChangesType

(* A client calls.                                                         *)
LEMMA ClientCallType ==
  ASSUME TypeInv, NEW c \in Clients, NEW op \in Ops \ {"mount"}, ClientCall(c, op)
  PROVE  TypeInv'
  <1>1. TypeParts
    BY DEF TypeInv
  <1>2. client[c].session \in Sessions
    BY DEF TypeInv, ClientsFormed, InSession, ClientCall
  <1>3. /\ server_pipe' \in Seq(Request) /\ PipeFormed'
        /\ client' \in [Clients -> ClientType] /\ client'[c].pc = "waiting"
        /\ client'[c].session \in Sessions
        /\ \A d \in Clients \ {c} : client'[d] = client[d]
    BY <1>2, Sent DEF ClientCall, ClientPcs
  <1>4. replies' \in [Clients -> Seq(Reply)] /\ UNCHANGED <<main, table, worker, misread, crashed>>
    BY <1>1 DEF ClientCall, TypeParts
  <1> QED BY <1>3, <1>4, ClientChangesType

(* What a client makes of an answer.                                       *)
LEMMA Received ==
  ASSUME TypeInv, NEW c \in Clients, ClientReceive(c)
  PROVE  \E a \in Reply :
           /\ a = Head(replies[c])
           /\ client[c].pc = "waiting" /\ replies[c] # <<>>
           /\ client' \in [Clients -> ClientType]
           /\ client'[c].op = client[c].op
           /\ client[c].op = "mount" =>
                /\ client'[c].pc = IF a.val = -1 THEN "out" ELSE "in"
                /\ client'[c].session = a.val
           /\ client[c].op # "mount" => client'[c].session = client[c].session
           /\ client[c].op \in {"unmount", "shutdown"} =>
                client'[c].pc = IF a.val = -1 THEN "in" ELSE "out"
           /\ client[c].op = "access" => client'[c].pc = "in"
           /\ \A d \in Clients \ {c} : client'[d] = client[d] /\ replies'[d] = replies[d]
           /\ replies' \in [Clients -> Seq(Reply)] /\ replies'[c] = Tail(replies[c])
           /\ Len(replies[c]) \in Nat \ {0} /\ Len(replies'[c]) = Len(replies[c]) - 1
  <1>1. TypeParts
    BY DEF TypeInv
  <1>2. replies[c] \in Seq(Reply) /\ replies[c] # <<>>
    BY <1>1 DEF TypeParts, ClientReceive
  <1>3. PICK a \in Reply : a = Head(replies[c])
    BY <1>2, PipeRead
  <1>4. /\ Tail(replies[c]) \in Seq(Reply) /\ Len(replies[c]) \in Nat \ {0}
        /\ Len(Tail(replies[c])) = Len(replies[c]) - 1
    BY <1>2, PipeRead
  <1>5. client \in [Clients -> ClientType]
    BY <1>1 DEF TypeParts
  <1>6. PICK p \in ClientPcs : p =
          CASE client[c].op = "mount" -> IF a.val = -1 THEN "out" ELSE "in"
            [] client[c].op \in {"unmount", "shutdown"} -> IF a.val = -1 THEN "in" ELSE "out"
            [] client[c].op = "access" -> "in"
    BY <1>5 DEF ClientType, ClientPcs, Ops
  <1>7. PICK n \in Sessions \cup {-1} :
          n = IF client[c].op = "mount" THEN a.val ELSE client[c].session
    BY <1>5, SessionFacts DEF ClientType, Reply
  <1>8. client' = [client EXCEPT ![c] = [pc |-> p, op |-> client[c].op, session |-> n]]
    BY <1>3, <1>6, <1>7 DEF ClientReceive
  <1>9. /\ client' \in [Clients -> ClientType]
        /\ client'[c] = [pc |-> p, op |-> client[c].op, session |-> n]
        /\ \A d \in Clients \ {c} : client'[d] = client[d]
    BY <1>5, <1>8 DEF ClientType
  <1>10. /\ replies' \in [Clients -> Seq(Reply)] /\ replies'[c] = Tail(replies[c])
         /\ \A d \in Clients \ {c} : replies'[d] = replies[d]
    BY <1>1, <1>4 DEF ClientReceive, TypeParts
  <1>11. client[c].pc = "waiting"
    BY DEF ClientReceive
  <1>12. /\ client[c].op = "mount" => p = IF a.val = -1 THEN "out" ELSE "in"
         /\ client[c].op \in {"unmount", "shutdown"} => p = IF a.val = -1 THEN "in" ELSE "out"
         /\ client[c].op = "access" => p = "in"
    BY <1>6
  <1> QED BY <1>2, <1>3, <1>4, <1>7, <1>9, <1>10, <1>11, <1>12

(* A client takes its answer.                                              *)
LEMMA ClientReceiveType ==
  ASSUME TypeInv, NEW c \in Clients, ClientReceive(c)
  PROVE  TypeInv'
  <1>1. TypeParts
    BY DEF TypeInv
  <1>2. PICK a \in Reply :
          /\ client[c].pc = "waiting"
          /\ client' \in [Clients -> ClientType]
          /\ client'[c].op = client[c].op
          /\ client[c].op = "mount" =>
               /\ client'[c].pc = IF a.val = -1 THEN "out" ELSE "in"
               /\ client'[c].session = a.val
          /\ client[c].op # "mount" => client'[c].session = client[c].session
          /\ client[c].op \in {"unmount", "shutdown"} =>
               client'[c].pc = IF a.val = -1 THEN "in" ELSE "out"
          /\ client[c].op = "access" => client'[c].pc = "in"
          /\ \A d \in Clients \ {c} : client'[d] = client[d]
          /\ replies' \in [Clients -> Seq(Reply)]
    BY SMTT(30), Received
  <1>3. client[c].op \in Ops /\ (client[c].op # "mount" => client[c].session \in Sessions)
    BY <1>1, <1>2 DEF TypeParts, ClientType, TypeInv, ClientsFormed, InSession
  <1>4. client'[c].pc \in {"in", "out"} /\ (client'[c].pc = "in" => client'[c].session \in Sessions)
    BY <1>2, <1>3, SessionFacts DEF Ops, Reply
  <1>5. UNCHANGED <<server_pipe, main, table, worker, misread, crashed>>
    BY DEF ClientReceive
  <1>6. server_pipe' \in Seq(Request) /\ PipeFormed'
    BY <1>1, <1>5 DEF TypeInv, TypeParts, PipeFormed
  <1> QED BY <1>2, <1>4, <1>5, <1>6, ClientChangesType

(* A client dies.                                                          *)
LEMMA ClientDiesType ==
  ASSUME TypeInv, NEW c \in Clients, ClientDies(c)
  PROVE  TypeInv'
  <1>1. TypeParts
    BY DEF TypeInv
  <1>2. /\ client' \in [Clients -> ClientType] /\ client'[c].pc = "dead"
        /\ \A d \in Clients \ {c} : client'[d] = client[d]
    BY <1>1 DEF ClientDies, TypeParts, ClientType, ClientPcs, Ops
  <1>3. replies' \in [Clients -> Seq(Reply)]
    BY <1>1 DEF ClientDies, TypeParts
  <1>4. UNCHANGED <<server_pipe, main, table, worker, misread, crashed>>
    BY DEF ClientDies
  <1>5. server_pipe' \in Seq(Request) /\ PipeFormed'
    BY <1>1, <1>4 DEF TypeInv, TypeParts, PipeFormed
  <1> QED BY <1>2, <1>3, <1>4, <1>5, ClientChangesType

(* Every step keeps the types.                                             *)
LEMMA TypeInvStep == TypeInv /\ [Next]_vars => TypeInv'
  <1> SUFFICES ASSUME TypeInv, [Next]_vars PROVE TypeInv'
    OBVIOUS
  <1>1. CASE UNCHANGED vars
    BY <1>1 DEF vars, table, TypeInv, TypeParts, PipeFormed, MainFormed, BuffersFormed, WorkersFormed,
       ClientsFormed, InSession
  <1>2. CASE Main
    BY <1>2, MainReadType, MainOpenPipeType, MainTakeSessionType, MainRefuseType, MainMallocType,
       MainCopyOpcodeType, MainCopyMessageType, MainSignalType DEF Main
  <1>3. ASSUME NEW s \in Sessions, Worker(s) \/ SpuriousWakeup(s) PROVE TypeInv'
    BY <1>3, WorkerLoopsType, WorkerDispatchType, WorkerReplyType, WorkerUnmountType,
       WorkerUnlockType, WorkerReleaseType DEF Worker
  <1>4. ASSUME NEW c \in Clients,
               \/ ClientMount(c) \/ ClientReceive(c) \/ ClientDies(c)
               \/ \E op \in Ops \ {"mount"} : ClientCall(c, op)
        PROVE  TypeInv'
    BY <1>4, ClientMountType, ClientCallType, ClientReceiveType, ClientDiesType
  <1> QED BY <1>1, <1>2, <1>3, <1>4 DEF Next

(* However the clients call and die and whatever a worker misreads, the    *)
(* records of the server stay well typed: in particular the session number *)
(* that indexes session_table, freesession_entries and the fds is never    *)
(* out of range (tfs_server.c), but in the one case that is a crash here.  *)
THEOREM TypesHold == Spec => []TypeOK
  <1>1. TypeInv => TypeOK
    BY TypeOKParts DEF TypeInv
  <1> QED BY InitTypeInv, TypeInvStep, <1>1, PTL DEF Spec

----------------------------------------------------------------------------
(* Who owns a session *)

(* Entry s is taken and its worker answers on the pipe of c.               *)
Owns(c, s) == s \in Sessions \ freesession_entries /\ client_fd[s] = c

(* The client of r waits for its answer, unless it died; if it is not      *)
(* mounting, the session is its own, even then.                            *)
Sound(r) ==
  /\ client[r.client].pc # "dead" =>
       /\ client[r.client].op = r.op /\ replies[r.client] = <<>>
       /\ r.op = "mount" => client[r.client].pc \in {"opening", "waiting"}
       /\ r.op # "mount" => client[r.client].pc = "waiting" /\ client[r.client].session = r.session
  /\ r.op # "mount" => Owns(r.client, r.session)

(* The buffer of s will still be read by its worker.                       *)
Live(s) == thread_buffer[s] # NULL /\ worker[s].pc \in {"check", "block", "waiting", "dispatch"}

(* Where a request is. What main has given to a worker is the worker's.    *)
InPipe(r, k) == k \in 1 .. Len(server_pipe) /\ server_pipe[k] = r
AtMain(r) == main.pc \in {"open", "table", "malloc"} /\ main.req = r
InBuffer(r, s) == Live(s) /\ thread_buffer[s].req = r
AtWorker(r, s) == worker[s].pc = "reply" /\ worker[s].req = r

InHand(r) == \/ \E k \in Nat : InPipe(r, k)
             \/ AtMain(r)
             \/ \E s \in Sessions : InBuffer(r, s) \/ AtWorker(r, s)

RequestsSound == \A r \in Request : InHand(r) => Sound(r)

(* No client has a request in two places, not even a dead one.             *)
OneRequest ==
  \A q, r \in Request : q.client = r.client =>
    /\ \A j, k \in Nat : InPipe(q, j) /\ InPipe(r, k) => j = k
    /\ \A k \in Nat : InPipe(q, k) =>
         ~AtMain(r) /\ \A s \in Sessions : ~InBuffer(r, s) /\ ~AtWorker(r, s)
    /\ AtMain(q) => \A s \in Sessions : ~InBuffer(r, s) /\ ~AtWorker(r, s)
    /\ \A s, t \in Sessions :
         /\ InBuffer(q, s) => ~AtWorker(r, t)
         /\ InBuffer(q, s) /\ InBuffer(r, t) => s = t
         /\ AtWorker(q, s) /\ AtWorker(r, t) => s = t

(* A worker has requests of its own session only. A mount is in the buffer *)
(* a moment before the entry gets its client.                              *)
HandsPlaced ==
  \A r \in Request, s \in Sessions :
    /\ InBuffer(r, s) =>
         /\ r.op # "mount" => r.session = s
         /\ r.op = "mount" => /\ s \notin freesession_entries
                              /\ client_fd[s] = r.client \/ (main.pc = "opcode" /\ main.slot = s)
    /\ AtWorker(r, s) => r.session = s /\ Owns(r.client, s) /\ r.op # "shutdown"

(* An answer is the one its client waits for, and grants only what is      *)
(* the client's.                                                           *)
Fits(a, c) ==
  /\ client[c].pc = "waiting" /\ a.client = c /\ a.op = client[c].op /\ a.op # "shutdown"
  /\ a.op = "mount" /\ a.val # -1 => Owns(c, a.val)
  /\ a.op = "access" => Owns(c, client[c].session)
  /\ a.op = "unmount" => a.val = 0

AnswersFit ==
  \A c \in Clients, a \in Reply :
    replies[c] # <<>> => Len(replies[c]) = 1 /\ (a = Head(replies[c]) => Fits(a, c))

HoldersOwn == \A c \in InSession : replies[c] = <<>> => Owns(c, client[c].session)

(* table_lock protects the entries that are being taken or freed.          *)
EntriesGuarded ==
  /\ \A s \in Sessions :
       /\ worker[s].pc = "unlock" =>
            table_lock = s /\ s \in freesession_entries /\ worker[s].req.session = s
       /\ s \in freesession_entries => client_fd[s] = NULL \/ worker[s].pc = "unlock"
  /\ main.pc \in Copying /\ main.req.op = "mount" => table_lock = MainThread
  /\ main.pc = "opcode" =>
       /\ main.req.op = "mount" => client_fd[main.slot] = NULL /\ main.slot \notin freesession_entries
       /\ thread_buffer[main.slot] # NULL =>
            thread_buffer[main.slot].req = main.req /\ thread_buffer[main.slot].copied = 0

Orderly == RequestsSound /\ OneRequest /\ HandsPlaced /\ AnswersFit /\ HoldersOwn /\ EntriesGuarded

SessionInv == TypeInv /\ (~misread => Orderly)

(* What a step leaves alone. A request stays sound ...                     *)
LEMMA SoundKept ==
  ASSUME NEW r \in Request, Sound(r),
         client'[r.client] = client[r.client], replies'[r.client] = replies[r.client],
         Owns(r.client, r.session) => Owns(r.client, r.session)'
  PROVE  Sound(r)'
  <1> DEFINE P == Owns(r.client, r.session)
  <1>1. r.op # "mount" => P /\ P'
    BY DEF Sound
  <1> HIDE DEF P
  <1>2. client'[r.client].pc # "dead" =>
       /\ client'[r.client].op = r.op /\ replies'[r.client] = <<>>
       /\ r.op = "mount" => client'[r.client].pc \in {"opening", "waiting"}
       /\ r.op # "mount" => client'[r.client].pc = "waiting" /\ client'[r.client].session = r.session
    BY DEF Sound
  <1> QED BY <1>1, <1>2 DEF Sound, P

(* ... all of them do, when none comes up ...                              *)
LEMMA RequestsKept ==
  ASSUME RequestsSound,
         \A r \in Request : InHand(r)' =>
           /\ InHand(r)
           /\ client'[r.client] = client[r.client] /\ replies'[r.client] = replies[r.client]
           /\ Owns(r.client, r.session) => Owns(r.client, r.session)'
  PROVE  RequestsSound'
  <1> SUFFICES ASSUME NEW r \in Request, InHand(r)' PROVE Sound(r)'
    BY DEF RequestsSound
  <1>1. Sound(r)
    BY DEF RequestsSound
  <1> QED BY <1>1, SoundKept

(* ... no client gets a second place when no request is in a new one ...   *)
LEMMA PlacesKept ==
  ASSUME OneRequest,
         \A r \in Request :
           /\ \A k \in Nat : InPipe(r, k)' => InPipe(r, k)
           /\ AtMain(r)' => AtMain(r)
           /\ \A s \in Sessions : /\ InBuffer(r, s)' => InBuffer(r, s)
                                  /\ AtWorker(r, s)' => AtWorker(r, s)
  PROVE  OneRequest' /\ \A r \in Request : InHand(r)' => InHand(r)
  <1>1. \A r \in Request : InHand(r)' => InHand(r)
    BY DEF InHand
  <1>2. OneRequest'
    <2> SUFFICES ASSUME NEW q \in Request, NEW r \in Request, q.client = r.client
                 PROVE  (/\ \A j, k \in Nat : InPipe(q, j) /\ InPipe(r, k) => j = k
                         /\ \A k \in Nat : InPipe(q, k) =>
                              ~AtMain(r) /\ \A s \in Sessions : ~InBuffer(r, s) /\ ~AtWorker(r, s)
                         /\ AtMain(q) => \A s \in Sessions : ~InBuffer(r, s) /\ ~AtWorker(r, s)
                         /\ \A s, t \in Sessions :
                              /\ InBuffer(q, s) => ~AtWorker(r, t)
                              /\ InBuffer(q, s) /\ InBuffer(r, t) => s = t
                              /\ AtWorker(q, s) /\ AtWorker(r, t) => s = t)'
      BY DEF OneRequest
    <2> QED BY Zenon DEF OneRequest
  <1> QED BY <1>1, <1>2

(* ... an answer that stays where it is still fits ...                     *)
LEMMA AnswersKept ==
  ASSUME AnswersFit,
         \A c \in Clients : replies'[c] # <<>> =>
           /\ replies'[c] = replies[c] /\ client'[c] = client[c]
           /\ \A s \in Sessions \cup {-1} : Owns(c, s) => Owns(c, s)',
         client \in [Clients -> ClientType]
  PROVE  AnswersFit'
  <1> SUFFICES ASSUME NEW c \in Clients, NEW a \in Reply, replies'[c] # <<>>
               PROVE  Len(replies'[c]) = 1 /\ (a = Head(replies'[c]) => Fits(a, c)')
    BY DEF AnswersFit
  <1>1. /\ Len(replies'[c]) = 1 /\ (a = Head(replies'[c]) => Fits(a, c)) /\ client'[c] = client[c]
    BY DEF AnswersFit
  <1>2. SUFFICES ASSUME Fits(a, c) PROVE Fits(a, c)'
    BY <1>1
  <1>3. PICK s \in Sessions \cup {-1} : s = client[c].session
    BY DEF ClientType
  <1>4. a.op = "mount" /\ a.val # -1 => Owns(c, a.val)'
    <2>1. a.op = "mount" /\ a.val # -1 => a.val \in Sessions \cup {-1} /\ Owns(c, a.val)
      BY <1>2, SessionFacts DEF Fits, Reply
    <2> QED BY <2>1
  <1>5. a.op = "access" => Owns(c, s)'
    <2>1. a.op = "access" => Owns(c, s)
      BY <1>2, <1>3 DEF Fits
    <2> QED BY <2>1
  <1>6. /\ client'[c].pc = "waiting" /\ a.client = c /\ a.op = client'[c].op /\ a.op # "shutdown"
        /\ a.op = "unmount" => a.val = 0
    BY <1>1, <1>2 DEF Fits
  <1>7. a.op = "access" => client_fd'[client'[c].session] = c
                             /\ client'[c].session \in Sessions \ freesession_entries'
    BY <1>1, <1>3, <1>5 DEF Owns
  <1> QED BY <1>4, <1>6, <1>7 DEF Fits, Owns

(* ... and a session that was a client's still is.                         *)
LEMMA HoldersKept ==
  ASSUME HoldersOwn,
         \A c \in InSession' : replies'[c] = <<>> =>
           /\ replies[c] = <<>> /\ client'[c] = client[c]
           /\ \A s \in Sessions : Owns(c, s) => Owns(c, s)'
  PROVE  HoldersOwn'
  <1> SUFFICES ASSUME NEW c \in InSession', replies'[c] = <<>>
               PROVE  Owns(c, client[c].session)'
    BY DEF HoldersOwn
  <1>1. replies[c] = <<>> /\ client'[c] = client[c] /\ c \in InSession
    BY DEF InSession
  <1>2. Owns(c, client[c].session)
    BY <1>1 DEF HoldersOwn
  <1>3. PICK s \in Sessions : s = client[c].session
    BY <1>2 DEF Owns
  <1>4. Owns(c, s)'
    BY <1>2, <1>3
  <1> QED BY <1>1, <1>3, <1>4 DEF Owns

(* Only taking and freeing an entry and setting its client matter here.    *)
LEMMA OwnsKept ==
  ASSUME UNCHANGED <<freesession_entries, client_fd>>
  PROVE  \A c, s : Owns(c, s) => Owns(c, s)'
  BY DEF Owns

(* A step that touches no client, no entry's owner and no pipe of a client *)
(* and brings no request to a new place.                                   *)
LEMMA QuietStep ==
  ASSUME TypeInv, Orderly, UNCHANGED <<client, replies, freesession_entries, client_fd>>,
         main.pc = "opcode" => UNCHANGED main,
         \A r \in Request :
           /\ \A k \in Nat : InPipe(r, k)' => InPipe(r, k)
           /\ AtMain(r)' => AtMain(r)
           /\ \A s \in Sessions : /\ InBuffer(r, s)' => InBuffer(r, s)
                                  /\ AtWorker(r, s)' => AtWorker(r, s)
  PROVE  RequestsSound' /\ OneRequest' /\ HandsPlaced' /\ AnswersFit' /\ HoldersOwn'
  <1>1. \A c, s : Owns(c, s) => Owns(c, s)'
    BY OwnsKept
  <1>2. OneRequest' /\ \A r \in Request : InHand(r)' => InHand(r)
    BY PlacesKept DEF Orderly
  <1>3. RequestsSound'
    BY <1>1, <1>2, RequestsKept DEF Orderly
  <1>4. AnswersFit'
    BY <1>1, AnswersKept DEF Orderly, TypeInv, TypeParts
  <1>5. HoldersOwn'
    BY <1>1, HoldersKept DEF Orderly
  <1>6. HandsPlaced'
    <2> SUFFICES ASSUME NEW r \in Request, NEW s \in Sessions
                 PROVE  /\ InBuffer(r, s)' =>
                             /\ r.op # "mount" => r.session = s
                             /\ r.op = "mount" =>
                                  /\ s \notin freesession_entries'
                                  /\ client_fd'[s] = r.client \/ (main'.pc = "opcode" /\ main'.slot = s)
                        /\ AtWorker(r, s)' => r.session = s /\ Owns(r.client, s)' /\ r.op # "shutdown"
      BY DEF HandsPlaced
    <2>1. InBuffer(r, s)' => InBuffer(r, s)
      OBVIOUS
    <2>2. AtWorker(r, s)' => r.session = s /\ Owns(r.client, s)' /\ r.op # "shutdown"
      BY <1>1 DEF Orderly, HandsPlaced
    <2> QED BY <2>1, <2>2 DEF Orderly, HandsPlaced
  <1> QED BY <1>2, <1>3, <1>4, <1>5, <1>6

(* The worker's loop.                                                      *)
LEMMA WorkerLoopsOrderly ==
  ASSUME TypeInv, Orderly, NEW s \in Sessions, WorkerCheck(s) \/ WorkerWait(s) \/ SpuriousWakeup(s)
  PROVE  Orderly'
  <1>1. PICK pc \in {"check", "block", "dispatch", "waiting"} : WorkerGoes(s, pc)
    BY DEF WorkerCheck, WorkerWait, SpuriousWakeup, WorkerGoes
  <1>2. /\ worker'[s].pc = pc
        /\ \A t \in Sessions \ {s} : worker'[t] = worker[t]
    BY <1>1, WorkerGoesTo DEF TypeInv, TypeParts, WorkerPcs
  <1>3. UNCHANGED <<server_pipe, main, freesession_entries, table_lock, thread_buffer, client_fd,
                    client, replies, misread, crashed>>
    BY DEF WorkerCheck, WorkerWait, SpuriousWakeup, table
  <1>4. worker[s].pc \in {"check", "block", "waiting"}
    BY DEF WorkerCheck, WorkerWait, SpuriousWakeup
  <1>5. \A r \in Request :
          /\ \A k \in Nat : InPipe(r, k)' => InPipe(r, k)
          /\ AtMain(r)' => AtMain(r)
          /\ \A t \in Sessions : /\ InBuffer(r, t)' => InBuffer(r, t)
                                 /\ AtWorker(r, t)' => AtWorker(r, t)
    BY <1>2, <1>3, <1>4 DEF InPipe, AtMain, InBuffer, Live, AtWorker
  <1>6. EntriesGuarded'
    BY <1>2, <1>3, <1>4 DEF Orderly, EntriesGuarded
  <1> QED BY <1>3, <1>5, <1>6, QuietStep DEF Orderly

(* The worker frees its buffer.                                            *)
LEMMA WorkerReleaseOrderly ==
  ASSUME TypeInv, Orderly, NEW s \in Sessions, WorkerRelease(s)
  PROVE  Orderly'
  <1>1. /\ worker'[s].pc = "check" /\ worker[s].pc = "release"
        /\ \A t \in Sessions \ {s} : worker'[t] = worker[t]
    BY DEF WorkerRelease, TypeInv, TypeParts
  <1>2. UNCHANGED <<server_pipe, main, freesession_entries, table_lock, client_fd,
                    client, replies, misread, crashed>>
    BY DEF WorkerRelease
  <1>3. thread_buffer'[s] = NULL /\ \A t \in Sessions \ {s} : thread_buffer'[t] = thread_buffer[t]
    BY DEF WorkerRelease, TypeInv, TypeParts
  <1>4. \A r \in Request :
          /\ \A k \in Nat : InPipe(r, k)' => InPipe(r, k)
          /\ AtMain(r)' => AtMain(r)
          /\ \A t \in Sessions : /\ InBuffer(r, t)' => InBuffer(r, t)
                                 /\ AtWorker(r, t)' => AtWorker(r, t)
    BY <1>1, <1>2, <1>3 DEF InPipe, AtMain, InBuffer, Live, AtWorker
  <1>5. main.pc = "opcode" => main.slot \in Sessions
    BY DEF TypeInv, MainFormed, Copying
  <1>6. EntriesGuarded'
    BY <1>1, <1>2, <1>3, <1>5 DEF Orderly, EntriesGuarded
  <1> QED BY <1>2, <1>4, <1>6, QuietStep DEF Orderly

(* The message is copied.                                                  *)
LEMMA MainCopyMessageOrderly ==
  ASSUME TypeInv, Orderly, MainCopyMessage
  PROVE  Orderly'
  <1>1. PICK s \in Sessions : s = main.slot
    BY DEF TypeInv, MainFormed, MainCopyMessage, Copying
  <1>2. CopyInto(s, 2)
    BY <1>1 DEF MainCopyMessage, CopyInto
  <1>3. /\ \A t \in Sessions \ {s} : thread_buffer'[t] = thread_buffer[t]
        /\ thread_buffer[s] = NULL => thread_buffer'[s] = NULL
        /\ thread_buffer[s] # NULL => thread_buffer'[s].req = thread_buffer[s].req
    BY <1>2, Copied
  <1>4. UNCHANGED <<server_pipe, freesession_entries, table_lock, client_fd, worker, client,
                    replies, misread>>
    BY DEF MainCopyMessage
  <1>5. main.pc = "message" /\ main'.pc = "signal" /\ main'.req = main.req
    BY MainGoesTo DEF MainCopyMessage, TypeInv, TypeParts, MainPcs
  <1>6. \A r \in Request :
          /\ \A k \in Nat : InPipe(r, k)' => InPipe(r, k)
          /\ AtMain(r)' => AtMain(r)
          /\ \A t \in Sessions : /\ InBuffer(r, t)' => InBuffer(r, t)
                                 /\ AtWorker(r, t)' => AtWorker(r, t)
    BY <1>3, <1>4, <1>5 DEF InPipe, AtMain, InBuffer, Live, AtWorker
  <1>7. EntriesGuarded'
    BY <1>4, <1>5 DEF Orderly, EntriesGuarded, Copying
  <1> QED BY <1>4, <1>5, <1>6, <1>7, QuietStep DEF Orderly

(* The worker is signalled, and tfs_mount gives the table back.            *)
LEMMA MainSignalOrderly ==
  ASSUME TypeInv, Orderly, MainSignal
  PROVE  Orderly'
  <1>1. PICK s \in Sessions : s = main.slot
    BY DEF TypeInv, MainFormed, MainSignal, Copying
  <1>2. UNCHANGED <<server_pipe, freesession_entries, thread_buffer, client_fd, client,
                    replies, misread, crashed>>
    BY DEF MainSignal
  <1>3. main.pc = "signal" /\ main'.pc = "read"
    BY MainGoesTo DEF MainSignal, TypeInv, TypeParts, MainPcs
  <1>4. \A t \in Sessions : \/ worker'[t] = worker[t]
                            \/ worker[t].pc = "waiting" /\ worker'[t].pc = "check"
    BY <1>1 DEF MainSignal, TypeInv, TypeParts
  <1>5. \A r \in Request :
          /\ \A k \in Nat : InPipe(r, k)' => InPipe(r, k)
          /\ AtMain(r)' => AtMain(r)
          /\ \A t \in Sessions : /\ InBuffer(r, t)' => InBuffer(r, t)
                                 /\ AtWorker(r, t)' => AtWorker(r, t)
    BY <1>2, <1>3, <1>4 DEF InPipe, AtMain, InBuffer, Live, AtWorker
  <1>6. table_lock' = table_lock \/ table_lock = MainThread
    BY <1>3 DEF MainSignal, Orderly, EntriesGuarded, Copying
  <1>7. EntriesGuarded'
    BY <1>2, <1>3, <1>4, <1>6, SessionFacts DEF Orderly, EntriesGuarded, Copying
  <1> QED BY <1>2, <1>3, <1>5, <1>7, QuietStep DEF Orderly

(* The main thread takes the first request of the server pipe.             *)
LEMMA MainReadOrderly ==
  ASSUME TypeInv, Orderly, MainRead
  PROVE  Orderly'
  <1>1. /\ Len(server_pipe) \in Nat \ {0} /\ Len(server_pipe') = Len(server_pipe) - 1
        /\ Head(server_pipe) = server_pipe[1]
        /\ \A k \in 1 .. Len(server_pipe') : server_pipe'[k] = server_pipe[k + 1]
    BY PipeRead DEF TypeInv, TypeParts, MainRead
  <1>2. /\ main.pc = "read" /\ main'.req = server_pipe[1]
        /\ main'.pc = IF server_pipe[1].op = "mount" THEN "open" ELSE "malloc"
    BY <1>1 DEF MainRead
  <1>3. UNCHANGED <<freesession_entries, table_lock, thread_buffer, client_fd, worker, client,
                    replies, misread, crashed>>
    BY DEF MainRead, table
  <1>4. ASSUME NEW r \in Request
        PROVE  /\ \A k \in Nat : InPipe(r, k)' => k + 1 \in Nat /\ k # 0 /\ InPipe(r, k + 1)
               /\ AtMain(r)' => InPipe(r, 1) /\ ~AtMain(r)
               /\ \A s \in Sessions : /\ InBuffer(r, s)' <=> InBuffer(r, s)
                                      /\ AtWorker(r, s)' <=> AtWorker(r, s)
    <2>1. ASSUME NEW k \in Nat, InPipe(r, k)' PROVE k # 0 /\ InPipe(r, k + 1)
      BY <1>1, <2>1 DEF InPipe
    <2>2. AtMain(r)' => InPipe(r, 1) /\ ~AtMain(r)
      BY <1>1, <1>2 DEF InPipe, AtMain
    <2>3. \A s \in Sessions : /\ InBuffer(r, s)' <=> InBuffer(r, s)
                              /\ AtWorker(r, s)' <=> AtWorker(r, s)
      BY <1>3 DEF InBuffer, Live, AtWorker
    <2> QED BY <2>1, <2>2, <2>3
  <1>5. \A r \in Request : InHand(r)' => InHand(r)
    BY <1>4 DEF InHand
  <1>6. \A c, s : Owns(c, s) => Owns(c, s)'
    BY <1>3, OwnsKept
  <1>7. RequestsSound'
    BY <1>3, <1>5, <1>6, RequestsKept DEF Orderly
  <1>8. OneRequest'
    <2> SUFFICES ASSUME NEW q \in Request, NEW r \in Request, q.client = r.client
                 PROVE  (/\ \A j, k \in Nat : InPipe(q, j) /\ InPipe(r, k) => j = k
                         /\ \A k \in Nat : InPipe(q, k) =>
                              ~AtMain(r) /\ \A s \in Sessions : ~InBuffer(r, s) /\ ~AtWorker(r, s)
                         /\ AtMain(q) => \A s \in Sessions : ~InBuffer(r, s) /\ ~AtWorker(r, s)
                         /\ \A s, t \in Sessions :
                              /\ InBuffer(q, s) => ~AtWorker(r, t)
                              /\ InBuffer(q, s) /\ InBuffer(r, t) => s = t
                              /\ AtWorker(q, s) /\ AtWorker(r, t) => s = t)'
      BY DEF OneRequest
    <2>0. OneRequest
      BY DEF Orderly
    <2>1. ASSUME NEW j \in Nat, NEW k \in Nat, InPipe(q, j)', InPipe(r, k)' PROVE j = k
      <3>1. InPipe(q, j + 1) /\ InPipe(r, k + 1)
        BY <1>4, <2>1
      <3>2. j + 1 = k + 1
        BY <2>0, <3>1 DEF OneRequest
      <3> QED BY <3>2
    <2>2. ASSUME NEW k \in Nat, InPipe(q, k)'
          PROVE  /\ ~AtMain(r)'
                 /\ \A s \in Sessions : ~InBuffer(r, s)' /\ ~AtWorker(r, s)'
      <3>1. InPipe(q, k + 1) /\ k # 0 /\ k + 1 \in Nat
        BY <1>4, <2>2
      <3>2. ~InPipe(r, 1)
        <4>1. InPipe(r, 1) => k + 1 = 1
          BY <2>0, <3>1 DEF OneRequest
        <4> QED BY <3>1, <4>1
      <3> QED BY <1>4, <2>0, <3>1, <3>2 DEF OneRequest
    <2>3. AtMain(q)' => \A s \in Sessions : ~InBuffer(r, s)' /\ ~AtWorker(r, s)'
      BY <1>4, <2>0 DEF OneRequest
    <2>4. \A s, t \in Sessions : /\ InBuffer(q, s)' => ~AtWorker(r, t)'
                                 /\ InBuffer(q, s)' /\ InBuffer(r, t)' => s = t
                                 /\ AtWorker(q, s)' /\ AtWorker(r, t)' => s = t
      BY <1>4, <2>0 DEF OneRequest
    <2> QED BY <2>1, <2>2, <2>3, <2>4
  <1>9. HandsPlaced'
    BY <1>2, <1>3, <1>4 DEF Orderly, HandsPlaced, Owns
  <1>10. AnswersFit' /\ HoldersOwn'
    BY <1>3, <1>6, AnswersKept, HoldersKept DEF Orderly, TypeInv, TypeParts
  <1>11. EntriesGuarded'
    BY <1>2, <1>3 DEF Orderly, EntriesGuarded, Copying
  <1> QED BY <1>7, <1>8, <1>9, <1>10, <1>11 DEF Orderly

(* The client whose mount the main thread has in hand opens its pipe.      *)
LEMMA MainOpenPipeOrderly ==
  ASSUME TypeInv, Orderly, MainOpenPipe
  PROVE  Orderly'
  <1>1. main.pc = "open" /\ main'.pc = "table" /\ main'.req = main.req
    BY MainGoesTo DEF MainOpenPipe, TypeInv, TypeParts, MainPcs
  <1>2. UNCHANGED <<server_pipe, freesession_entries, table_lock, thread_buffer, client_fd, worker,
                    replies, misread, crashed>>
    BY DEF MainOpenPipe, table
  <1>3. PICK c \in Clients : c = main.req.client
    BY <1>1 DEF TypeInv, MainFormed, WellFormed, Request
  <1>4. /\ client[c].pc = "opening" /\ client'[c].pc = "waiting"
        /\ client[c].op = "mount" /\ client'[c].op = "mount"
        /\ \A d \in Clients \ {c} : client'[d] = client[d]
    BY <1>3 DEF MainOpenPipe, TypeInv, TypeParts, ClientType, ClientsFormed
  <1>5. \A r \in Request :
          /\ \A k \in Nat : InPipe(r, k)' => InPipe(r, k)
          /\ AtMain(r)' => AtMain(r)
          /\ \A t \in Sessions : /\ InBuffer(r, t)' => InBuffer(r, t)
                                 /\ AtWorker(r, t)' => AtWorker(r, t)
    BY <1>1, <1>2 DEF InPipe, AtMain, InBuffer, Live, AtWorker
  <1>6. OneRequest' /\ \A r \in Request : InHand(r)' => InHand(r)
    BY <1>5, PlacesKept DEF Orderly
  <1>7. \A d, s : Owns(d, s) => Owns(d, s)'
    BY <1>2, OwnsKept
  <1>8. RequestsSound'
    <2> SUFFICES ASSUME NEW r \in Request, InHand(r)' PROVE Sound(r)'
      BY DEF RequestsSound
    <2>1. Sound(r)
      BY <1>6 DEF Orderly, RequestsSound
    <2>2. CASE r.client # c
      <3>1. r.client \in Clients
        BY DEF Request
      <3> QED BY <1>2, <1>4, <1>7, <2>1, <2>2, <3>1, SoundKept
    <2>3. CASE r.client = c
      BY <1>2, <1>4, <2>1, <2>3 DEF Sound
    <2> QED BY <2>2, <2>3
  <1>9. HandsPlaced'
    BY <1>1, <1>2, <1>5, <1>7 DEF Orderly, HandsPlaced
  <1>10. replies[c] = <<>>
    <2>1. main.req \in Request
      BY <1>1 DEF TypeInv, MainFormed, WellFormed
    <2>2. Sound(main.req)
      BY <1>1, <2>1 DEF Orderly, RequestsSound, InHand, AtMain
    <2> QED BY <1>3, <1>4, <2>2 DEF Sound
  <1>11. AnswersFit'
    <2>1. \A d \in Clients : replies'[d] # <<>> => replies'[d] = replies[d] /\ client'[d] = client[d]
      BY <1>2, <1>4, <1>10
    <2> QED BY <1>7, <2>1, AnswersKept DEF Orderly, TypeInv, TypeParts
  <1>12. HoldersOwn'
    <2>1. \A d \in InSession' : d # c
      BY <1>4 DEF InSession
    <2>2. \A d \in InSession' : replies'[d] = replies[d] /\ client'[d] = client[d]
      BY <1>2, <1>4, <2>1 DEF InSession
    <2> QED BY <1>7, <2>2, HoldersKept DEF Orderly
  <1>13. EntriesGuarded'
    BY <1>1, <1>2 DEF Orderly, EntriesGuarded, Copying
  <1> QED BY <1>6, <1>8, <1>9, <1>11, <1>12, <1>13 DEF Orderly

(* What the main thread gives to a worker it no longer has.                *)
LEMMA GivenAway ==
  ASSUME TypeInv, Orderly, NEW s \in Sessions,
         main.pc \in {"table", "malloc"}, main'.pc = "opcode",
         UNCHANGED <<server_pipe, worker, client, replies>>,
         thread_buffer'[s].req = main.req,
         \A t \in Sessions \ {s} : thread_buffer'[t] = thread_buffer[t],
         \A c, t : Owns(c, t) => Owns(c, t)'
  PROVE  RequestsSound' /\ OneRequest' /\ AnswersFit' /\ HoldersOwn'
  <1>1. ASSUME NEW r \in Request
        PROVE  /\ \A k \in Nat : InPipe(r, k)' <=> InPipe(r, k)
               /\ ~AtMain(r)'
               /\ InBuffer(r, s)' => AtMain(r)
               /\ \A t \in Sessions \ {s} : InBuffer(r, t)' <=> InBuffer(r, t)
               /\ \A t \in Sessions : AtWorker(r, t)' <=> AtWorker(r, t)
    BY DEF InPipe, AtMain, InBuffer, Live, AtWorker
  <1>2. \A r \in Request : InHand(r)' => InHand(r)
    BY <1>1 DEF InHand
  <1>3. RequestsSound'
    BY <1>2, RequestsKept DEF Orderly
  <1>4. OneRequest'
    <2> SUFFICES ASSUME NEW q \in Request, NEW r \in Request, q.client = r.client
                 PROVE  (/\ \A j, k \in Nat : InPipe(q, j) /\ InPipe(r, k) => j = k
                         /\ \A k \in Nat : InPipe(q, k) =>
                              ~AtMain(r) /\ \A t \in Sessions : ~InBuffer(r, t) /\ ~AtWorker(r, t)
                         /\ AtMain(q) => \A t \in Sessions : ~InBuffer(r, t) /\ ~AtWorker(r, t)
                         /\ \A t, u \in Sessions :
                              /\ InBuffer(q, t) => ~AtWorker(r, u)
                              /\ InBuffer(q, t) /\ InBuffer(r, u) => t = u
                              /\ AtWorker(q, t) /\ AtWorker(r, u) => t = u)'
      BY DEF OneRequest
    <2>0. OneRequest
      BY DEF Orderly
    <2>1. \A j, k \in Nat : InPipe(q, j)' /\ InPipe(r, k)' => j = k
      BY <1>1, <2>0 DEF OneRequest
    <2>2. \A k \in Nat : InPipe(q, k)' =>
            ~AtMain(r)' /\ \A t \in Sessions : ~InBuffer(r, t)' /\ ~AtWorker(r, t)'
      BY <1>1, <2>0 DEF OneRequest
    <2>3. ASSUME NEW t \in Sessions, NEW u \in Sessions
          PROVE  /\ InBuffer(q, t)' => ~AtWorker(r, u)'
                 /\ InBuffer(q, t)' /\ InBuffer(r, u)' => t = u
                 /\ AtWorker(q, t)' /\ AtWorker(r, u)' => t = u
      BY <1>1, <2>0 DEF OneRequest
    <2> QED BY <1>1, <2>1, <2>2, <2>3
  <1>5. AnswersFit' /\ HoldersOwn'
    BY AnswersKept, HoldersKept DEF Orderly, TypeInv, TypeParts
  <1> QED BY <1>3, <1>4, <1>5

(* tfs_mount takes a free entry: nobody's, for table_lock is free.         *)
LEMMA MainTakeSessionOrderly ==
  ASSUME TypeInv, Orderly, MainTakeSession
  PROVE  Orderly'
  <1>1. /\ main.pc = "table" /\ table_lock = NULL /\ table_lock' = MainThread
        /\ UNCHANGED <<server_pipe, client_fd, worker, client, replies, misread, crashed>>
    BY DEF MainTakeSession
  <1>2. PICK s \in Sessions :
          /\ s \in freesession_entries /\ freesession_entries' = freesession_entries \ {s}
          /\ thread_buffer' = [thread_buffer EXCEPT ![s] = NewBuffer]
          /\ main' = [main EXCEPT !.pc = "opcode", !.slot = s]
    BY DEF MainTakeSession, TakeEntry, IsFirst
  <1>3. WellFormed(main.req) /\ main.req.op = "mount"
    BY <1>1 DEF TypeInv, MainFormed
  <1>4. /\ thread_buffer'[s].req = main.req /\ thread_buffer'[s].copied = 0
        /\ \A t \in Sessions \ {s} : thread_buffer'[t] = thread_buffer[t]
    BY <1>2, <1>3, BufferGiven
  <1>5. main'.pc = "opcode" /\ main'.req = main.req /\ main'.slot = s
    BY <1>2 DEF TypeInv, TypeParts, MainType
  <1>6. client_fd[s] = NULL
    BY <1>1, <1>2, SessionFacts DEF Orderly, EntriesGuarded
  <1>7. \A c, t : Owns(c, t) => Owns(c, t)'
    <2> SUFFICES ASSUME NEW c, NEW t, Owns(c, t) PROVE Owns(c, t)'
      OBVIOUS
    <2>1. t \in Sessions /\ t # s
      BY <1>2 DEF Owns
    <2> QED BY <1>1, <1>2, <2>1 DEF Owns
  <1>8. RequestsSound' /\ OneRequest' /\ AnswersFit' /\ HoldersOwn'
    BY <1>1, <1>4, <1>5, <1>7, GivenAway
  <1>9. HandsPlaced'
    <2> SUFFICES ASSUME NEW r \in Request, NEW t \in Sessions
                 PROVE  /\ InBuffer(r, t)' =>
                             /\ r.op # "mount" => r.session = t
                             /\ r.op = "mount" =>
                                  /\ t \notin freesession_entries'
                                  /\ client_fd'[t] = r.client \/ (main'.pc = "opcode" /\ main'.slot = t)
                        /\ AtWorker(r, t)' => r.session = t /\ Owns(r.client, t)' /\ r.op # "shutdown"
      BY DEF HandsPlaced
    <2>1. AtWorker(r, t)' => r.session = t /\ Owns(r.client, t)' /\ r.op # "shutdown"
      BY <1>1, <1>7 DEF Orderly, HandsPlaced, AtWorker
    <2>2. CASE t = s
      BY <1>2, <1>3, <1>4, <1>5, <2>1, <2>2 DEF InBuffer
    <2>3. CASE t # s
      <3>1. InBuffer(r, t)' => InBuffer(r, t)
        BY <1>1, <1>4, <2>3 DEF InBuffer, Live
      <3> QED BY <1>1, <1>2, <2>1, <3>1 DEF Orderly, HandsPlaced
    <2> QED BY <2>2, <2>3
  <1>10. EntriesGuarded'
    BY <1>1, <1>2, <1>4, <1>5, <1>6, SessionFacts DEF Orderly, EntriesGuarded, Copying
  <1> QED BY <1>8, <1>9, <1>10 DEF Orderly

(* The other requests go into the entry of their own session.              *)
LEMMA MainMallocOrderly ==
  ASSUME TypeInv, Orderly, MainMalloc
  PROVE  Orderly'
  <1>1. /\ main.pc = "malloc"
        /\ UNCHANGED <<server_pipe, freesession_entries, table_lock, client_fd, worker, client,
                       replies, misread, crashed>>
    BY DEF MainMalloc
  <1>2. /\ WellFormed(main.req) /\ main.req.op # "mount"
        /\ main.slot \in Sessions /\ main.slot = main.req.session
    BY <1>1 DEF TypeInv, MainFormed
  <1>3. PICK s \in Sessions : s = main.slot
    BY <1>2
  <1>4. /\ thread_buffer'[s].req = main.req /\ thread_buffer'[s].copied = 0
        /\ \A t \in Sessions \ {s} : thread_buffer'[t] = thread_buffer[t]
    BY <1>2, <1>3, BufferGiven DEF MainMalloc
  <1>5. main'.pc = "opcode" /\ main'.req = main.req /\ main'.slot = main.slot
    BY MainGoesTo DEF MainMalloc, TypeInv, TypeParts, MainPcs
  <1>6. \A c, t : Owns(c, t) => Owns(c, t)'
    BY <1>1, OwnsKept
  <1>7. RequestsSound' /\ OneRequest' /\ AnswersFit' /\ HoldersOwn'
    BY <1>1, <1>4, <1>5, <1>6, GivenAway
  <1>8. HandsPlaced'
    <2> SUFFICES ASSUME NEW r \in Request, NEW t \in Sessions
                 PROVE  /\ InBuffer(r, t)' =>
                             /\ r.op # "mount" => r.session = t
                             /\ r.op = "mount" =>
                                  /\ t \notin freesession_entries'
                                  /\ client_fd'[t] = r.client \/ (main'.pc = "opcode" /\ main'.slot = t)
                        /\ AtWorker(r, t)' => r.session = t /\ Owns(r.client, t)' /\ r.op # "shutdown"
      BY DEF HandsPlaced
    <2>1. AtWorker(r, t)' => r.session = t /\ Owns(r.client, t)' /\ r.op # "shutdown"
      BY <1>1, <1>6 DEF Orderly, HandsPlaced, AtWorker
    <2>2. CASE t = s
      BY <1>2, <1>3, <1>4, <2>1, <2>2 DEF InBuffer
    <2>3. CASE t # s
      <3>1. InBuffer(r, t)' => InBuffer(r, t)
        BY <1>1, <1>4, <2>3 DEF InBuffer, Live
      <3> QED BY <1>1, <2>1, <3>1 DEF Orderly, HandsPlaced
    <2> QED BY <2>2, <2>3
  <1>9. EntriesGuarded'
    BY <1>1, <1>2, <1>3, <1>4, <1>5 DEF Orderly, EntriesGuarded, Copying
  <1> QED BY <1>7, <1>8, <1>9 DEF Orderly

(* The opcode is copied, and the entry of a mount gets its client.         *)
LEMMA MainCopyOpcodeOrderly ==
  ASSUME TypeInv, Orderly, MainCopyOpcode
  PROVE  Orderly'
  <1>1. PICK s \in Sessions : s = main.slot
    BY DEF TypeInv, MainFormed, MainCopyOpcode, Copying
  <1>2. CopyInto(s, 1)
    BY <1>1 DEF MainCopyOpcode, CopyInto
  <1>3. /\ \A t \in Sessions \ {s} : thread_buffer'[t] = thread_buffer[t]
        /\ thread_buffer[s] = NULL => thread_buffer'[s] = NULL
        /\ thread_buffer[s] # NULL => thread_buffer'[s].req = thread_buffer[s].req
    BY <1>2, Copied
  <1>4. UNCHANGED <<server_pipe, freesession_entries, table_lock, worker, client, replies, misread>>
    BY DEF MainCopyOpcode
  <1>5. main.pc = "opcode" /\ main'.pc = "message" /\ main'.req = main.req
    BY MainGoesTo DEF MainCopyOpcode, TypeInv, TypeParts, MainPcs
  <1>6. /\ main.req.op = "mount" => /\ client_fd[s] = NULL /\ s \notin freesession_entries
                                    /\ table_lock = MainThread
        /\ thread_buffer[s] # NULL => thread_buffer[s].req = main.req
    BY <1>1, <1>5 DEF Orderly, EntriesGuarded, Copying
  <1>7. /\ \A t \in Sessions \ {s} : client_fd'[t] = client_fd[t]
        /\ main.req.op = "mount" => client_fd'[s] = main.req.client
        /\ main.req.op # "mount" => client_fd'[s] = client_fd[s]
    BY <1>1 DEF MainCopyOpcode, TypeInv, TypeParts
  <1>8. \A c \in Clients : \A t : Owns(c, t) => Owns(c, t)'
    BY <1>4, <1>6, <1>7, SessionFacts DEF Owns
  <1>9. \A r \in Request :
          /\ \A k \in Nat : InPipe(r, k)' => InPipe(r, k)
          /\ AtMain(r)' => AtMain(r)
          /\ \A t \in Sessions : /\ InBuffer(r, t)' => InBuffer(r, t)
                                 /\ AtWorker(r, t)' => AtWorker(r, t)
    BY <1>3, <1>4, <1>5 DEF InPipe, AtMain, InBuffer, Live, AtWorker
  <1>10. OneRequest' /\ \A r \in Request : InHand(r)' => InHand(r)
    BY <1>9, PlacesKept DEF Orderly
  <1>11. \A r \in Request : r.client \in Clients
    BY DEF Request
  <1>12. RequestsSound'
    BY <1>4, <1>8, <1>10, <1>11, RequestsKept DEF Orderly
  <1>13. AnswersFit' /\ HoldersOwn'
    <2>1. \A c \in InSession' : c \in Clients
      BY DEF InSession
    <2> QED BY <1>4, <1>8, <2>1, AnswersKept, HoldersKept DEF Orderly, TypeInv, TypeParts
  <1>14. HandsPlaced'
    <2> SUFFICES ASSUME NEW r \in Request, NEW t \in Sessions
                 PROVE  /\ InBuffer(r, t)' =>
                             /\ r.op # "mount" => r.session = t
                             /\ r.op = "mount" =>
                                  /\ t \notin freesession_entries'
                                  /\ client_fd'[t] = r.client \/ (main'.pc = "opcode" /\ main'.slot = t)
                        /\ AtWorker(r, t)' => r.session = t /\ Owns(r.client, t)' /\ r.op # "shutdown"
      BY DEF HandsPlaced
    <2>1. AtWorker(r, t)' => r.session = t /\ Owns(r.client, t)' /\ r.op # "shutdown"
      BY <1>8, <1>9, <1>11 DEF Orderly, HandsPlaced
    <2>2. InBuffer(r, t)' => InBuffer(r, t)
      BY <1>9
    <2>3. CASE t = s
      <3>1. InBuffer(r, s) => r = main.req
        BY <1>6 DEF InBuffer, Live
      <3> QED BY <1>4, <1>7, <2>1, <2>2, <2>3, <3>1 DEF Orderly, HandsPlaced
    <2>4. CASE t # s
      BY <1>1, <1>4, <1>7, <2>1, <2>2, <2>4 DEF Orderly, HandsPlaced
    <2> QED BY <2>3, <2>4
  <1>15. EntriesGuarded'
    BY <1>4, <1>5, <1>6, <1>7 DEF Orderly, EntriesGuarded, Copying
  <1> QED BY <1>10, <1>12, <1>13, <1>14, <1>15 DEF Orderly

(* An answer goes into a pipe that was empty.                              *)
LEMMA FirstAnswer ==
  ASSUME NEW a \in Reply
  PROVE  Append(<<>>, a) # <<>> /\ Len(Append(<<>>, a)) = 1 /\ Head(Append(<<>>, a)) = a
  <1>1. <<>> \in Seq(Reply) /\ Len(<<>>) = 0
    OBVIOUS
  <1>2. /\ Append(<<>>, a) \in Seq(Reply) /\ Append(<<>>, a) # <<>>
        /\ Len(Append(<<>>, a)) = 1 /\ Append(<<>>, a)[1] = a
    BY <1>1, PipeWritten
  <1>3. Head(Append(<<>>, a)) = Append(<<>>, a)[1]
    BY <1>2, PipeRead
  <1> QED BY <1>2, <1>3

(* The one request q of client c is answered with a.                       *)
LEMMA AnswerGiven ==
  ASSUME TypeInv, Orderly, NEW c \in Clients, NEW a \in Reply, NEW q \in Request,
         q.client = c, Sound(q), WriteReply(c, a), UNCHANGED client,
         \A r \in Request : InHand(r)' => InHand(r) /\ r.client # c,
         \A d \in Clients \ {c} : \A t : Owns(d, t) => Owns(d, t)',
         c \in Reading => Fits(a, c)'
  PROVE  RequestsSound' /\ AnswersFit' /\ HoldersOwn'
  <1>1. /\ c \in Reading => replies'[c] = Append(replies[c], a)
        /\ c \notin Reading => replies' = replies
        /\ \A d \in Clients \ {c} : replies'[d] = replies[d]
    BY ReplyWritten DEF TypeInv, TypeParts
  <1>2. c \in Reading => replies[c] = <<>> /\ replies'[c] = Append(<<>>, a)
    BY <1>1 DEF Reading, Sound
  <1>3. c \notin Reading => replies'[c] = <<>> /\ c \notin InSession
    <2>1. replies[c] # <<>> => client[c].pc = "waiting"
      <3> SUFFICES ASSUME replies[c] # <<>> PROVE client[c].pc = "waiting"
        OBVIOUS
      <3>1. Head(replies[c]) \in Reply
        BY PipeRead DEF TypeInv, TypeParts
      <3> QED BY <3>1 DEF Orderly, AnswersFit, Fits
    <2> QED BY <1>1, <2>1 DEF Reading, InSession
  <1>4. RequestsSound'
    <2>1. \A r \in Request : InHand(r)' => r.client \in Clients \ {c}
      BY DEF Request
    <2> QED BY <1>1, <2>1, RequestsKept DEF Orderly
  <1>5. AnswersFit'
    <2> SUFFICES ASSUME NEW d \in Clients, NEW b \in Reply, replies'[d] # <<>>
                 PROVE  Len(replies'[d]) = 1 /\ (b = Head(replies'[d]) => Fits(b, d)')
      BY DEF AnswersFit
    <2>1. CASE d = c
      BY <1>2, <1>3, <2>1, FirstAnswer
    <2>2. CASE d # c
      <3>1. Len(replies'[d]) = 1 /\ (b = Head(replies'[d]) => Fits(b, d))
        BY <1>1, <2>2 DEF Orderly, AnswersFit
      <3>2. /\ b.val \in Sessions \cup {0, -1} /\ client[d].session \in Sessions \cup {-1}
            /\ client' = client
        BY DEF Reply, TypeInv, TypeParts, ClientType
      <3>3. \A t : Owns(d, t) => Owns(d, t)'
        BY <2>2
      <3>4. PICK t : t = client[d].session
        OBVIOUS
      <3>5. Fits(b, d) => Fits(b, d)'
        <4> SUFFICES ASSUME Fits(b, d) PROVE Fits(b, d)'
          OBVIOUS
        <4>1. b.op = "mount" /\ b.val # -1 => Owns(d, b.val)'
          BY <3>3 DEF Fits
        <4>2. b.op = "access" => Owns(d, t)'
          BY <3>3, <3>4 DEF Fits
        <4>3. b.op = "access" => client_fd'[client'[d].session] = d
                                 /\ client'[d].session \in Sessions \ freesession_entries'
          BY <3>2, <3>4, <4>2 DEF Owns
        <4> QED BY <3>2, <4>1, <4>3 DEF Fits, Owns
      <3> QED BY <3>1, <3>5
    <2> QED BY <2>1, <2>2
  <1>6. HoldersOwn'
    <2>1. \A d \in InSession' : replies'[d] = <<>> => d \in Clients \ {c}
      BY <1>2, <1>3, FirstAnswer DEF InSession
    <2> QED BY <1>1, <2>1, HoldersKept DEF Orderly
  <1> QED BY <1>4, <1>5, <1>6

(* A mount is refused.                                                     *)
LEMMA MainRefuseOrderly ==
  ASSUME TypeInv, Orderly, MainRefuse
  PROVE  Orderly'
  <1>1. /\ main.pc = "table" /\ UNCHANGED <<server_pipe, freesession_entries, table_lock,
             thread_buffer, client_fd, worker, client, misread>>
    BY DEF MainRefuse, table
  <1>2. main'.pc = "read"
    BY MainGoesTo DEF MainRefuse, TypeInv, TypeParts, MainPcs
  <1>3. main.req \in Request /\ main.req.op = "mount"
    BY <1>1 DEF TypeInv, MainFormed, WellFormed
  <1>4. PICK q \in Request, c \in Clients, a \in Reply :
          /\ q = main.req /\ c = q.client
          /\ a = [op |-> "mount", client |-> c, val |-> -1]
    <2>1. [op |-> "mount", client |-> main.req.client, val |-> -1] \in Reply
      BY <1>3 DEF Request, Reply, Ops
    <2> QED BY <1>3, <2>1 DEF Request
  <1>5. AtMain(q) /\ Sound(q)
    <2>1. AtMain(q)
      BY <1>1, <1>4 DEF AtMain
    <2> QED BY <2>1 DEF Orderly, RequestsSound, InHand
  <1>6. WriteReply(c, a)
    BY <1>4 DEF MainRefuse, WriteReply
  <1>7. \A r \in Request :
          /\ \A k \in Nat : InPipe(r, k)' => InPipe(r, k)
          /\ ~AtMain(r)'
          /\ \A t \in Sessions : /\ InBuffer(r, t)' => InBuffer(r, t)
                                 /\ AtWorker(r, t)' => AtWorker(r, t)
    BY <1>1, <1>2 DEF InPipe, AtMain, InBuffer, Live, AtWorker
  <1>8. OneRequest' /\ \A r \in Request : InHand(r)' => InHand(r)
    BY <1>7, PlacesKept DEF Orderly
  <1>9. \A r \in Request : InHand(r)' => r.client # c
    <2> SUFFICES ASSUME NEW r \in Request, InHand(r)', r.client = c PROVE FALSE
      OBVIOUS
    <2>1. \/ \E k \in Nat : InPipe(r, k)
          \/ \E t \in Sessions : InBuffer(r, t) \/ AtWorker(r, t)
      BY <1>7 DEF InHand
    <2> QED BY <1>4, <1>5, <2>1 DEF Orderly, OneRequest
  <1>10. \A d, s : Owns(d, s) => Owns(d, s)'
    BY <1>1, OwnsKept
  <1>11. c \in Reading => Fits(a, c)'
    BY <1>1, <1>3, <1>4, <1>5 DEF Reading, Sound, Fits
  <1>12. RequestsSound' /\ AnswersFit' /\ HoldersOwn'
    BY <1>1, <1>4, <1>5, <1>6, <1>8, <1>9, <1>10, <1>11, AnswerGiven
  <1>13. HandsPlaced'
    BY <1>1, <1>7, <1>10 DEF Orderly, HandsPlaced
  <1>14. EntriesGuarded'
    BY <1>1, <1>2 DEF Orderly, EntriesGuarded, Copying
  <1> QED BY <1>8, <1>12, <1>13, <1>14 DEF Orderly

(* The request a worker answers is that of the one client of its session.  *)
LEMMA WorkerServes ==
  ASSUME TypeInv, Orderly, NEW s \in Sessions, worker[s].pc = "reply"
  PROVE  \E q \in Request :
           /\ q = worker[s].req /\ q.client \in Clients /\ AtWorker(q, s) /\ Sound(q)
           /\ q.session = s /\ Owns(q.client, s) /\ client_fd[s] = q.client /\ q.op # "shutdown"
           /\ \A r \in Request : q.client = r.client =>
                /\ ~AtMain(r) /\ \A k \in Nat : ~InPipe(r, k)
                /\ \A t \in Sessions : ~InBuffer(r, t) /\ (AtWorker(r, t) => t = s)
  <1>1. PICK q \in Request : q = worker[s].req
    BY DEF TypeInv, WorkersFormed
  <1>2. q.client \in Clients /\ AtWorker(q, s)
    BY <1>1 DEF Request, AtWorker
  <1>3. Sound(q)
    BY <1>2 DEF Orderly, RequestsSound, InHand
  <1>4. q.session = s /\ Owns(q.client, s) /\ q.op # "shutdown"
    BY <1>2 DEF Orderly, HandsPlaced
  <1>5. client_fd[s] = q.client
    BY <1>4 DEF Owns
  <1>6. ASSUME NEW r \in Request, q.client = r.client
        PROVE  /\ ~AtMain(r) /\ \A k \in Nat : ~InPipe(r, k)
               /\ \A t \in Sessions : ~InBuffer(r, t) /\ (AtWorker(r, t) => t = s)
    BY <1>2, <1>6 DEF Orderly, OneRequest
  <1> QED BY <1>1, <1>2, <1>3, <1>4, <1>5, <1>6

(* worker_mount and the operations answer.                                 *)
LEMMA WorkerReplyOrderly ==
  ASSUME TypeInv, Orderly, NEW s \in Sessions, WorkerReply(s)
  PROVE  Orderly'
  <1>1. /\ worker[s].pc = "reply" /\ worker[s].req.op # "unmount"
        /\ UNCHANGED <<server_pipe, main, freesession_entries, table_lock, thread_buffer, client_fd,
                       client, misread>>
    BY DEF WorkerReply, table
  <1>2. worker'[s].pc = "release" /\ \A t \in Sessions \ {s} : worker'[t] = worker[t]
    BY WorkerGoesTo DEF WorkerReply, TypeInv, TypeParts, WorkerPcs
  <1>3. PICK q \in Request :
          /\ q = worker[s].req /\ q.client \in Clients /\ AtWorker(q, s) /\ Sound(q)
          /\ q.session = s /\ Owns(q.client, s) /\ client_fd[s] = q.client /\ q.op # "shutdown"
          /\ \A r \in Request : q.client = r.client =>
               /\ ~AtMain(r) /\ \A k \in Nat : ~InPipe(r, k)
               /\ \A t \in Sessions : ~InBuffer(r, t) /\ (AtWorker(r, t) => t = s)
    BY <1>1, WorkerServes
  <1>4. PICK val \in Sessions \cup {0, -1} :
          /\ q.op = "mount" => val = s
          /\ WriteReply(client_fd[q.session], [op |-> q.op, client |-> q.client, val |-> val])
          /\ [op |-> q.op, client |-> q.client, val |-> val] \in Reply
    BY <1>3, WorkerReplied
  <1>5. PICK c \in Clients, a \in Reply :
          c = q.client /\ a = [op |-> q.op, client |-> c, val |-> val]
    BY <1>3, <1>4
  <1>6. WriteReply(c, a)
    BY <1>3, <1>4, <1>5 DEF WriteReply
  <1>7. \A r \in Request :
          /\ \A k \in Nat : InPipe(r, k)' => InPipe(r, k)
          /\ AtMain(r)' => AtMain(r)
          /\ \A t \in Sessions : /\ InBuffer(r, t)' => InBuffer(r, t)
                                 /\ AtWorker(r, t)' => AtWorker(r, t) /\ t # s
    BY <1>1, <1>2 DEF InPipe, AtMain, InBuffer, Live, AtWorker
  <1>8. OneRequest' /\ \A r \in Request : InHand(r)' => InHand(r)
    BY <1>7, PlacesKept DEF Orderly
  <1>9. \A r \in Request : InHand(r)' => r.client # c
    BY <1>3, <1>5, <1>7 DEF InHand
  <1>10. \A d, t : Owns(d, t) => Owns(d, t)'
    BY <1>1, OwnsKept
  <1>11. c \in Reading => Fits(a, c)'
    <2> SUFFICES ASSUME c \in Reading PROVE Fits(a, c)'
      OBVIOUS
    <2>1. client[c].pc = "waiting" /\ client[c].op = q.op
          /\ (q.op # "mount" => client[c].session = s)
      BY <1>3, <1>5 DEF Reading, Sound
    <2>2. Owns(c, s)'
      BY <1>3, <1>5, <1>10
    <2>3. q.op # "mount" => Owns(c, client[c].session)'
      BY <1>1, <2>1, <2>2 DEF Owns
    <2> QED BY <1>1, <1>3, <1>4, <1>5, <2>1, <2>2, <2>3 DEF Fits
  <1>12. RequestsSound' /\ AnswersFit' /\ HoldersOwn'
    BY <1>1, <1>3, <1>5, <1>6, <1>8, <1>9, <1>10, <1>11, AnswerGiven
  <1>13. HandsPlaced'
    BY <1>1, <1>7, <1>10 DEF Orderly, HandsPlaced
  <1>14. EntriesGuarded'
    BY <1>1, <1>2 DEF Orderly, EntriesGuarded
  <1> QED BY <1>8, <1>12, <1>13, <1>14 DEF Orderly

(* worker_unmount frees the entry of the client it answers.                *)
LEMMA WorkerUnmountOrderly ==
  ASSUME TypeInv, Orderly, NEW s \in Sessions, WorkerUnmount(s)
  PROVE  Orderly'
  <1>1. /\ worker[s].pc = "reply" /\ worker[s].req.op = "unmount"
        /\ table_lock = NULL /\ table_lock' = s
        /\ UNCHANGED <<server_pipe, main, thread_buffer, client_fd, client, misread>>
        /\ freesession_entries' = freesession_entries \cup {worker[s].req.session}
    BY DEF WorkerUnmount
  <1>2. PICK q \in Request :
          /\ q = worker[s].req /\ q.client \in Clients /\ AtWorker(q, s) /\ Sound(q)
          /\ q.session = s /\ Owns(q.client, s) /\ client_fd[s] = q.client /\ q.op # "shutdown"
          /\ \A r \in Request : q.client = r.client =>
               /\ ~AtMain(r) /\ \A k \in Nat : ~InPipe(r, k)
               /\ \A t \in Sessions : ~InBuffer(r, t) /\ (AtWorker(r, t) => t = s)
    BY <1>1, WorkerServes
  <1>3. PICK fd \in Clients \cup {NULL}, a \in Reply :
          /\ fd = client_fd[worker[s].req.session]
          /\ a = [op |-> "unmount", client |-> worker[s].req.client,
                  val |-> IF worker[s].req.session \in freesession_entries THEN -1 ELSE 0]
          /\ WriteReply(fd, a)
          /\ worker'[s].pc = IF fd = NULL THEN "release" ELSE "unlock"
          /\ worker'[s].req = worker[s].req
          /\ \A t \in Sessions \ {s} : worker'[t] = worker[t]
    BY WorkerUnmounted
  <1>4. PICK c \in Clients : c = q.client
    BY <1>2
  <1>5. /\ fd = c /\ c # NULL /\ s \notin freesession_entries
        /\ a.op = "unmount" /\ a.client = c /\ a.val = 0
        /\ freesession_entries' = freesession_entries \cup {s}
    BY <1>1, <1>2, <1>3, <1>4, SessionFacts DEF Owns
  <1>6. worker'[s].pc = "unlock" /\ worker'[s].req.session = s
    BY <1>2, <1>3, <1>5
  <1>7. \A r \in Request :
          /\ \A k \in Nat : InPipe(r, k)' => InPipe(r, k)
          /\ AtMain(r)' => AtMain(r)
          /\ \A t \in Sessions : /\ InBuffer(r, t)' => InBuffer(r, t) /\ t # s
                                 /\ AtWorker(r, t)' => AtWorker(r, t) /\ t # s
    BY <1>1, <1>3, <1>6 DEF InPipe, AtMain, InBuffer, Live, AtWorker
  <1>8. OneRequest' /\ \A r \in Request : InHand(r)' => InHand(r)
    BY <1>7, PlacesKept DEF Orderly
  <1>9. \A r \in Request : InHand(r)' => r.client # c
    BY <1>2, <1>4, <1>7 DEF InHand
  <1>10. \A d, t : d # c /\ Owns(d, t) => Owns(d, t)'
    BY <1>1, <1>2, <1>4, <1>5 DEF Owns
  <1>11. c \in Reading => Fits(a, c)'
    <2> SUFFICES ASSUME c \in Reading PROVE Fits(a, c)'
      OBVIOUS
    <2>1. client[c].pc = "waiting" /\ client[c].op = "unmount"
      BY <1>1, <1>2, <1>4 DEF Reading, Sound
    <2> QED BY <1>1, <1>5, <2>1 DEF Fits
  <1>12. RequestsSound' /\ AnswersFit' /\ HoldersOwn'
    <2>1. WriteReply(c, a)
      BY <1>3, <1>5 DEF WriteReply
    <2> QED BY <1>1, <1>2, <1>4, <1>8, <1>9, <1>10, <1>11, <2>1, AnswerGiven
  <1>13. HandsPlaced'
    <2> SUFFICES ASSUME NEW r \in Request, NEW t \in Sessions
                 PROVE  /\ InBuffer(r, t)' =>
                             /\ r.op # "mount" => r.session = t
                             /\ r.op = "mount" =>
                                  /\ t \notin freesession_entries'
                                  /\ client_fd'[t] = r.client \/ (main'.pc = "opcode" /\ main'.slot = t)
                        /\ AtWorker(r, t)' => r.session = t /\ Owns(r.client, t)' /\ r.op # "shutdown"
      BY DEF HandsPlaced
    <2>1. InBuffer(r, t)' => InBuffer(r, t) /\ t # s
      BY <1>7
    <2>2. AtWorker(r, t)' => r.session = t /\ Owns(r.client, t) /\ r.op # "shutdown" /\ r.client # c
      BY <1>2, <1>4, <1>7 DEF Orderly, HandsPlaced
    <2>3. AtWorker(r, t)' => Owns(r.client, t)'
      BY <1>10, <2>2
    <2> QED BY <1>1, <1>5, <2>1, <2>2, <2>3 DEF Orderly, HandsPlaced
  <1>14. EntriesGuarded'
    <2>1. ~(main.pc \in Copying /\ main.req.op = "mount")
      BY <1>1, SessionFacts DEF Orderly, EntriesGuarded
    <2>2. \A t \in Sessions : worker[t].pc # "unlock"
      BY <1>1, SessionFacts DEF Orderly, EntriesGuarded
    <2> QED BY <1>1, <1>3, <1>5, <1>6, <2>1, <2>2 DEF Orderly, EntriesGuarded, Copying
  <1> QED BY <1>8, <1>12, <1>13, <1>14 DEF Orderly

(* ... and gives the lock back: the entry is free by then.                 *)
LEMMA WorkerUnlockOrderly ==
  ASSUME TypeInv, Orderly, NEW s \in Sessions, WorkerUnlock(s)
  PROVE  Orderly'
  <1>1. /\ worker[s].pc = "unlock" /\ table_lock' = NULL
        /\ client_fd' = [client_fd EXCEPT ![worker[s].req.session] = NULL]
        /\ UNCHANGED <<server_pipe, main, freesession_entries, thread_buffer,
                       client, replies, misread, crashed>>
    BY DEF WorkerUnlock, Unlocked
  <1>2. worker'[s].pc = "release" /\ \A t \in Sessions \ {s} : worker'[t] = worker[t]
    BY WorkerGoesTo DEF WorkerUnlock, TypeInv, TypeParts, WorkerPcs
  <1>3. table_lock = s /\ s \in freesession_entries /\ worker[s].req.session = s
    BY <1>1 DEF Orderly, EntriesGuarded
  <1>4. client_fd'[s] = NULL /\ \A t \in Sessions \ {s} : client_fd'[t] = client_fd[t]
    BY <1>1, <1>3 DEF TypeInv, TypeParts
  <1>5. \A c, t : Owns(c, t) => Owns(c, t)'
    BY <1>1, <1>3, <1>4 DEF Owns
  <1>6. \A r \in Request :
          /\ \A k \in Nat : InPipe(r, k)' => InPipe(r, k)
          /\ AtMain(r)' => AtMain(r)
          /\ \A t \in Sessions : /\ InBuffer(r, t)' => InBuffer(r, t)
                                 /\ AtWorker(r, t)' => AtWorker(r, t)
    BY <1>1, <1>2 DEF InPipe, AtMain, InBuffer, Live, AtWorker
  <1>7. OneRequest' /\ \A r \in Request : InHand(r)' => InHand(r)
    BY <1>6, PlacesKept DEF Orderly
  <1>8. RequestsSound'
    BY <1>1, <1>5, <1>7, RequestsKept DEF Orderly
  <1>9. AnswersFit' /\ HoldersOwn'
    BY <1>1, <1>5, AnswersKept, HoldersKept DEF Orderly, TypeInv, TypeParts
  <1>10. HandsPlaced'
    BY <1>1, <1>3, <1>4, <1>5, <1>6 DEF Orderly, HandsPlaced
  <1>11. EntriesGuarded'
    <2>1. ~(main.pc \in Copying /\ main.req.op = "mount")
      BY <1>3, SessionFacts DEF Orderly, EntriesGuarded
    <2>2. \A t \in Sessions \ {s} : worker[t].pc # "unlock"
      BY <1>3 DEF Orderly, EntriesGuarded
    <2> QED BY <1>1, <1>2, <1>4, <2>1, <2>2 DEF Orderly, EntriesGuarded, Copying
  <1> QED BY <1>7, <1>8, <1>9, <1>10, <1>11 DEF Orderly

(* The worker takes the request from its buffer, or drops it.              *)
LEMMA WorkerDispatchOrderly ==
  ASSUME TypeInv, Orderly, NEW s \in Sessions, WorkerDispatch(s), ~misread'
  PROVE  Orderly'
  <1>1. /\ \A t \in Sessions \ {s} : worker'[t] = worker[t]
        /\ worker'[s].pc \in {"reply", "release"}
        /\ worker'[s].pc = "reply" =>
             /\ worker'[s].req \in Request
             /\ worker'[s].req.op = thread_buffer[s].req.op
             /\ worker'[s].req.client = thread_buffer[s].req.client
             /\ worker'[s].req.op # "shutdown"
             /\ worker'[s].req.session =
                  IF worker'[s].req.op = "mount" THEN s ELSE thread_buffer[s].req.session
        /\ UNCHANGED <<server_pipe, main, freesession_entries, table_lock, thread_buffer, client_fd,
                       client, replies>>
    BY WorkerDispatched DEF table
  <1>2. worker[s].pc = "dispatch" /\ thread_buffer[s] \in Buffer /\ thread_buffer[s].req \in Request
    BY DEF WorkerDispatch, TypeInv, BuffersFormed, WellFormed
  <1>3. worker'[s].pc = "reply" => thread_buffer[s].copied # 0
    <2> SUFFICES ASSUME thread_buffer[s].copied = 0 PROVE worker'[s].pc = "release"
      BY <1>1
    <2>1. WorkerGoes(s, "release")
      BY DEF WorkerDispatch
    <2> QED BY <2>1, WorkerGoesTo DEF TypeInv, TypeParts, WorkerPcs
  <1>4. \A c, t : Owns(c, t) => Owns(c, t)'
    BY <1>1, OwnsKept
  <1>5. PICK b \in Request : b = thread_buffer[s].req
    BY <1>2
  <1>6. thread_buffer[s] # NULL => InBuffer(b, s)
    BY <1>2, <1>5 DEF InBuffer, Live
  <1>7. thread_buffer[s] # NULL
    BY <1>2, ServerAssumption
  <1>8. ASSUME NEW r \in Request
        PROVE  /\ \A k \in Nat : InPipe(r, k)' <=> InPipe(r, k)
               /\ AtMain(r)' <=> AtMain(r)
               /\ \A t \in Sessions : InBuffer(r, t)' => InBuffer(r, t) /\ t # s
               /\ \A t \in Sessions \ {s} : AtWorker(r, t)' => AtWorker(r, t)
               /\ AtWorker(r, s)' =>
                    /\ r.client = b.client /\ r.op = b.op /\ r.op # "shutdown"
                    /\ r.session = IF r.op = "mount" THEN s ELSE b.session
    BY <1>1, <1>5 DEF InPipe, AtMain, InBuffer, Live, AtWorker
  <1>9. Sound(b) /\ InBuffer(b, s)
    BY <1>6, <1>7 DEF Orderly, RequestsSound, InHand
  <1>10. RequestsSound'
    <2> SUFFICES ASSUME NEW r \in Request, InHand(r)' PROVE Sound(r)'
      BY DEF RequestsSound
    <2>1. Sound(r)
      <3>1. CASE AtWorker(r, s)'
        BY <1>8, <1>9, <3>1 DEF Sound
      <3>2. CASE ~AtWorker(r, s)'
        <4>1. InHand(r)
          BY <1>8, <3>2 DEF InHand
        <4> QED BY <4>1 DEF Orderly, RequestsSound
      <3> QED BY <3>1, <3>2
    <2> QED BY <1>1, <1>4, <2>1, SoundKept
  <1>11. OneRequest'
    <2> SUFFICES ASSUME NEW q \in Request, NEW r \in Request, q.client = r.client
                 PROVE  (/\ \A j, k \in Nat : InPipe(q, j) /\ InPipe(r, k) => j = k
                         /\ \A k \in Nat : InPipe(q, k) =>
                              ~AtMain(r) /\ \A t \in Sessions : ~InBuffer(r, t) /\ ~AtWorker(r, t)
                         /\ AtMain(q) => \A t \in Sessions : ~InBuffer(r, t) /\ ~AtWorker(r, t)
                         /\ \A t, u \in Sessions :
                              /\ InBuffer(q, t) => ~AtWorker(r, u)
                              /\ InBuffer(q, t) /\ InBuffer(r, u) => t = u
                              /\ AtWorker(q, t) /\ AtWorker(r, u) => t = u)'
      BY DEF OneRequest
    <2>0. OneRequest
      BY DEF Orderly
    <2>1. \A j, k \in Nat : InPipe(q, j)' /\ InPipe(r, k)' => j = k
      BY <1>8, <2>0 DEF OneRequest
    <2>2. ASSUME NEW x \in Request, AtWorker(x, s)', NEW y \in Request, x.client = y.client
          PROVE  /\ ~AtMain(y)' /\ \A k \in Nat : ~InPipe(y, k)'
                 /\ \A t \in Sessions : ~InBuffer(y, t)' /\ (AtWorker(y, t)' => t = s)
      <3>1. b.client = y.client
        BY <1>8, <2>2
      <3>2. /\ ~AtMain(y) /\ \A k \in Nat : ~InPipe(y, k)
            /\ \A t \in Sessions : (InBuffer(y, t) => t = s) /\ ~AtWorker(y, t)
        BY <1>9, <2>0, <3>1 DEF OneRequest
      <3> QED BY <1>8, <3>2
    <2>3. \A k \in Nat : InPipe(q, k)' =>
            ~AtMain(r)' /\ \A t \in Sessions : ~InBuffer(r, t)' /\ ~AtWorker(r, t)'
      BY <1>8, <2>0, <2>2 DEF OneRequest
    <2>4. AtMain(q)' => \A t \in Sessions : ~InBuffer(r, t)' /\ ~AtWorker(r, t)'
      BY <1>8, <2>0, <2>2 DEF OneRequest
    <2>5. ASSUME NEW t \in Sessions, NEW u \in Sessions
          PROVE  /\ InBuffer(q, t)' => ~AtWorker(r, u)'
                 /\ InBuffer(q, t)' /\ InBuffer(r, u)' => t = u
                 /\ AtWorker(q, t)' /\ AtWorker(r, u)' => t = u
      <3>1. CASE AtWorker(q, s)' \/ AtWorker(r, s)'
        BY <2>2, <3>1
      <3>2. CASE ~AtWorker(q, s)' /\ ~AtWorker(r, s)'
        BY <1>8, <2>0, <3>2 DEF OneRequest
      <3> QED BY <3>1, <3>2
    <2> QED BY <2>1, <2>3, <2>4, <2>5
  <1>12. HandsPlaced'
    <2> SUFFICES ASSUME NEW r \in Request, NEW t \in Sessions
                 PROVE  /\ InBuffer(r, t)' =>
                             /\ r.op # "mount" => r.session = t
                             /\ r.op = "mount" =>
                                  /\ t \notin freesession_entries'
                                  /\ client_fd'[t] = r.client \/ (main'.pc = "opcode" /\ main'.slot = t)
                        /\ AtWorker(r, t)' => r.session = t /\ Owns(r.client, t)' /\ r.op # "shutdown"
      BY DEF HandsPlaced
    <2>1. InBuffer(r, t)' => InBuffer(r, t)
      BY <1>8
    <2>2. CASE t # s \/ ~AtWorker(r, t)'
      BY <1>1, <1>4, <1>8, <2>1, <2>2 DEF Orderly, HandsPlaced
    <2>3. CASE t = s /\ AtWorker(r, t)'
      <3>1. r.client = b.client /\ r.op = b.op /\ r.op # "shutdown"
            /\ r.session = IF r.op = "mount" THEN s ELSE b.session
        BY <1>8, <2>3
      <3>2. worker'[s].pc = "reply"
        BY <2>3 DEF AtWorker
      <3>3. ~(main.pc = "opcode" /\ main.slot = s)
        BY <1>3, <1>7, <3>2 DEF Orderly, EntriesGuarded
      <3>4. CASE r.op = "mount"
        <4>1. s \notin freesession_entries /\ client_fd[s] = b.client
          BY ZenonT(30), <1>9, <3>1, <3>3, <3>4 DEF Orderly, HandsPlaced
        <4>2. Owns(r.client, s)'
          BY <1>1, <3>1, <4>1 DEF Owns
        <4> QED BY <1>8, <2>3, <3>1, <3>4, <4>2
      <3>5. CASE r.op # "mount"
        <4>1. b.session = s /\ Owns(b.client, s)
          BY <1>9, <3>1, <3>5 DEF Orderly, HandsPlaced, Sound
        <4>2. Owns(r.client, s)'
          BY <1>4, <3>1, <4>1
        <4> QED BY <1>8, <2>3, <3>1, <3>5, <4>1, <4>2
      <3> QED BY <3>4, <3>5
    <2> QED BY <2>2, <2>3
  <1>13. AnswersFit' /\ HoldersOwn'
    BY <1>1, <1>4, AnswersKept, HoldersKept DEF Orderly, TypeInv, TypeParts
  <1>14. EntriesGuarded'
    BY <1>1, <1>2 DEF Orderly, EntriesGuarded
  <1> QED BY <1>10, <1>11, <1>12, <1>13, <1>14 DEF Orderly

(* A client with nothing under way has no request anywhere.                *)
LEMMA NoneInHand ==
  ASSUME Orderly, NEW c \in Clients,
         client[c].pc \in {"out", "in"} \/ (client[c].pc = "waiting" /\ replies[c] # <<>>)
  PROVE  \A r \in Request : InHand(r) => r.client # c
  <1> SUFFICES ASSUME NEW r \in Request, InHand(r), r.client = c PROVE FALSE
    OBVIOUS
  <1>1. Sound(r)
    BY DEF Orderly, RequestsSound
  <1> QED BY <1>1 DEF Sound

(* A client that has no request anywhere and no answer to read sends one.  *)
LEMMA ClientSends ==
  ASSUME TypeInv, Orderly, NEW c \in Clients, NEW r \in Request, r.client = c,
         Len(server_pipe) \in Nat, Len(server_pipe') = Len(server_pipe) + 1,
         \A k \in 1 .. Len(server_pipe) : server_pipe'[k] = server_pipe[k],
         server_pipe'[Len(server_pipe) + 1] = r,
         UNCHANGED <<main, table, worker>>,
         \A d \in Clients \ {c} : client'[d] = client[d] /\ replies'[d] = replies[d],
         replies'[c] = <<>>,
         \A x \in Request : InHand(x) => x.client # c,
         Sound(r)',
         c \in InSession' => Owns(c, client[c].session)'
  PROVE  Orderly'
  <1> DEFINE n == Len(server_pipe) + 1
  <1>1. UNCHANGED <<freesession_entries, table_lock, thread_buffer, client_fd>>
    BY DEF table
  <1>2. ASSUME NEW x \in Request
        PROVE  /\ \A k \in Nat : InPipe(x, k)' => InPipe(x, k) \/ (k = n /\ x = r)
               /\ AtMain(x)' => AtMain(x)
               /\ \A t \in Sessions : /\ InBuffer(x, t)' => InBuffer(x, t)
                                      /\ AtWorker(x, t)' => AtWorker(x, t)
    <2>1. ASSUME NEW k \in Nat, InPipe(x, k)' PROVE InPipe(x, k) \/ (k = n /\ x = r)
      <3>1. k \in 1 .. Len(server_pipe) \/ k = n
        BY <2>1 DEF InPipe
      <3> QED BY <2>1, <3>1 DEF InPipe
    <2> QED BY <1>1, <2>1 DEF AtMain, InBuffer, Live, AtWorker
  <1> HIDE DEF n
  <1>3. \A x \in Request : InHand(x)' => InHand(x) \/ x = r
    BY <1>2 DEF InHand
  <1>4. \A d, t : Owns(d, t) => Owns(d, t)'
    BY <1>1, OwnsKept
  <1>5. RequestsSound'
    <2> SUFFICES ASSUME NEW x \in Request, InHand(x)' PROVE Sound(x)'
      BY DEF RequestsSound
    <2>1. CASE x = r
      <3> QED BY <2>1
    <2>2. CASE InHand(x)
      <3>1. Sound(x) /\ x.client \in Clients \ {c}
        BY <2>2 DEF Orderly, RequestsSound, Request
      <3> QED BY <1>4, <3>1, SoundKept
    <2> QED BY <1>3, <2>1, <2>2
  <1>6. OneRequest'
    <2> SUFFICES ASSUME NEW q \in Request, NEW x \in Request, q.client = x.client
                 PROVE  (/\ \A j, k \in Nat : InPipe(q, j) /\ InPipe(x, k) => j = k
                         /\ \A k \in Nat : InPipe(q, k) =>
                              ~AtMain(x) /\ \A t \in Sessions : ~InBuffer(x, t) /\ ~AtWorker(x, t)
                         /\ AtMain(q) => \A t \in Sessions : ~InBuffer(x, t) /\ ~AtWorker(x, t)
                         /\ \A t, u \in Sessions :
                              /\ InBuffer(q, t) => ~AtWorker(x, u)
                              /\ InBuffer(q, t) /\ InBuffer(x, u) => t = u
                              /\ AtWorker(q, t) /\ AtWorker(x, u) => t = u)'
      BY DEF OneRequest
    <2>1. OneRequest
      BY DEF Orderly
    <2>2. CASE q.client = c
      <3>1. ASSUME NEW y \in Request, y.client = c
            PROVE  /\ \A k \in Nat : InPipe(y, k)' => k = n
                   /\ ~AtMain(y)' /\ \A t \in Sessions : ~InBuffer(y, t)' /\ ~AtWorker(y, t)'
        <4>1. ~InHand(y)
          BY <3>1
        <4> QED BY <1>2, <4>1 DEF InHand
      <3>2. /\ \A j, k \in Nat : InPipe(q, j)' /\ InPipe(x, k)' => j = k
            /\ ~AtMain(q)' /\ ~AtMain(x)'
            /\ \A t \in Sessions : /\ ~InBuffer(q, t)' /\ ~AtWorker(q, t)'
                                   /\ ~InBuffer(x, t)' /\ ~AtWorker(x, t)'
        BY <2>2, <3>1
      <3> QED BY <3>2
    <2>3. CASE q.client # c
      <3>1. ASSUME NEW y \in Request, y.client # c
            PROVE  /\ \A k \in Nat : InPipe(y, k)' => InPipe(y, k)
                   /\ AtMain(y)' => AtMain(y)
                   /\ \A t \in Sessions : /\ InBuffer(y, t)' => InBuffer(y, t)
                                          /\ AtWorker(y, t)' => AtWorker(y, t)
        BY <1>2, <3>1
      <3>2. \A j, k \in Nat : InPipe(q, j)' /\ InPipe(x, k)' => j = k
        BY <2>1, <2>3, <3>1 DEF OneRequest
      <3>3. \A k \in Nat : InPipe(q, k)' =>
              ~AtMain(x)' /\ \A t \in Sessions : ~InBuffer(x, t)' /\ ~AtWorker(x, t)'
        BY <2>1, <2>3, <3>1 DEF OneRequest
      <3>4. AtMain(q)' => \A t \in Sessions : ~InBuffer(x, t)' /\ ~AtWorker(x, t)'
        BY <2>1, <2>3, <3>1 DEF OneRequest
      <3>5. \A t, u \in Sessions : /\ InBuffer(q, t)' => ~AtWorker(x, u)'
                                   /\ InBuffer(q, t)' /\ InBuffer(x, u)' => t = u
                                   /\ AtWorker(q, t)' /\ AtWorker(x, u)' => t = u
        BY <2>1, <2>3, <3>1 DEF OneRequest
      <3> QED BY <3>2, <3>3, <3>4, <3>5
    <2> QED BY <2>2, <2>3
  <1>7. HandsPlaced'
    BY <1>1, <1>2, <1>4 DEF Orderly, HandsPlaced
  <1>8. AnswersFit'
    BY <1>4, AnswersKept DEF Orderly, TypeInv, TypeParts
  <1>9. HoldersOwn'
    <2> SUFFICES ASSUME NEW d \in InSession', replies'[d] = <<>> PROVE Owns(d, client[d].session)'
      BY DEF HoldersOwn
    <2>1. CASE d = c
      BY <2>1
    <2>2. CASE d # c
      <3>1. d \in InSession /\ client'[d] = client[d] /\ replies[d] = <<>>
        BY <2>2 DEF InSession
      <3>2. Owns(d, client[d].session)
        BY <3>1 DEF Orderly, HoldersOwn
      <3> QED BY <1>1, <3>1, <3>2 DEF Owns
    <2> QED BY <2>1, <2>2
  <1>10. EntriesGuarded'
    BY <1>1 DEF Orderly, EntriesGuarded
  <1> QED BY <1>5, <1>6, <1>7, <1>8, <1>9, <1>10 DEF Orderly

(* A client mounts.                                                        *)
LEMMA ClientMountOrderly ==
  ASSUME TypeInv, Orderly, NEW c \in Clients, ClientMount(c)
  PROVE  Orderly'
  <1>1. PICK r \in Request :
          /\ r = [op |-> "mount", client |-> c, session |-> -1]
          /\ Len(server_pipe) \in Nat /\ Len(server_pipe') = Len(server_pipe) + 1
          /\ \A k \in 1 .. Len(server_pipe) : server_pipe'[k] = server_pipe[k]
          /\ server_pipe'[Len(server_pipe) + 1] = r
          /\ client'[c].pc = "opening" /\ client'[c].op = "mount"
          /\ \A d \in Clients \ {c} : client'[d] = client[d]
    BY Sent DEF ClientMount, Ops, ClientPcs
  <1>2. client[c].pc = "out" /\ UNCHANGED <<main, table, worker, misread, crashed>>
    BY DEF ClientMount
  <1>3. replies'[c] = <<>> /\ \A d \in Clients \ {c} : replies'[d] = replies[d]
    BY DEF ClientMount, TypeInv, TypeParts
  <1>4. \A x \in Request : InHand(x) => x.client # c
    BY <1>2, NoneInHand
  <1>5. Sound(r)'
    BY <1>1, <1>3 DEF Sound
  <1>6. c \notin InSession'
    BY <1>1 DEF InSession
  <1>7. r.client = c
    BY <1>1
  <1> QED BY <1>1, <1>2, <1>3, <1>4, <1>5, <1>6, <1>7, ClientSends

(* A client calls: the session is its own.                                 *)
LEMMA ClientCallOrderly ==
  ASSUME TypeInv, Orderly, NEW c \in Clients, NEW op \in Ops \ {"mount"}, ClientCall(c, op)
  PROVE  Orderly'
  <1>1. client[c].pc = "in" /\ UNCHANGED <<main, table, worker, replies, misread, crashed>>
    BY DEF ClientCall
  <1>2. client[c].session \in Sessions /\ c \in InSession
    BY <1>1 DEF TypeInv, ClientsFormed, InSession
  <1>3. PICK r \in Request :
          /\ r = [op |-> op, client |-> c, session |-> client[c].session]
          /\ Len(server_pipe) \in Nat /\ Len(server_pipe') = Len(server_pipe) + 1
          /\ \A k \in 1 .. Len(server_pipe) : server_pipe'[k] = server_pipe[k]
          /\ server_pipe'[Len(server_pipe) + 1] = r
          /\ client'[c].pc = "waiting" /\ client'[c].op = op
          /\ client'[c].session = client[c].session
          /\ \A d \in Clients \ {c} : client'[d] = client[d]
    BY <1>2, Sent DEF ClientCall, ClientPcs
  <1>4. replies[c] = <<>>
    <2> SUFFICES ASSUME replies[c] # <<>> PROVE FALSE
      OBVIOUS
    <2>1. Head(replies[c]) \in Reply
      BY PipeRead DEF TypeInv, TypeParts
    <2> QED BY <1>1, <2>1 DEF Orderly, AnswersFit, Fits
  <1>5. Owns(c, client[c].session)
    BY <1>2, <1>4 DEF Orderly, HoldersOwn
  <1>6. \A x \in Request : InHand(x) => x.client # c
    BY <1>1, NoneInHand
  <1>7. UNCHANGED <<freesession_entries, client_fd>>
    BY <1>1 DEF table
  <1>8. Owns(c, client[c].session)'
    BY <1>3, <1>5, <1>7 DEF Owns
  <1>9. Sound(r)'
    BY <1>1, <1>3, <1>4, <1>5, <1>7 DEF Sound, Owns
  <1>10. r.client = c
    BY <1>3
  <1> QED BY <1>1, <1>3, <1>4, <1>6, <1>8, <1>9, <1>10, ClientSends

(* A client takes its answer: a mount's makes the session its own.         *)
LEMMA ClientReceiveOrderly ==
  ASSUME TypeInv, Orderly, NEW c \in Clients, ClientReceive(c)
  PROVE  Orderly'
  <1>1. PICK a \in Reply :
          /\ a = Head(replies[c])
          /\ client[c].pc = "waiting" /\ replies[c] # <<>>
          /\ client[c].op = "mount" =>
               /\ client'[c].pc = IF a.val = -1 THEN "out" ELSE "in"
               /\ client'[c].session = a.val
          /\ client[c].op # "mount" => client'[c].session = client[c].session
          /\ client[c].op \in {"unmount", "shutdown"} =>
               client'[c].pc = IF a.val = -1 THEN "in" ELSE "out"
          /\ client[c].op = "access" => client'[c].pc = "in"
          /\ \A d \in Clients \ {c} : client'[d] = client[d] /\ replies'[d] = replies[d]
          /\ replies' \in [Clients -> Seq(Reply)]
          /\ Len(replies[c]) \in Nat \ {0} /\ Len(replies'[c]) = Len(replies[c]) - 1
    BY Received
  <1>2. Len(replies[c]) = 1 /\ Fits(a, c)
    BY <1>1 DEF Orderly, AnswersFit
  <1>3. replies'[c] = <<>>
    <2>1. replies'[c] \in Seq(Reply) /\ Len(replies'[c]) = 0
      BY <1>1, <1>2
    <2> QED BY <2>1, EmptySeq
  <1>4. UNCHANGED <<server_pipe, main, freesession_entries, table_lock, thread_buffer, client_fd,
                    worker, misread, crashed>>
    BY DEF ClientReceive, table
  <1>5. \A r \in Request :
          /\ \A k \in Nat : InPipe(r, k)' => InPipe(r, k)
          /\ AtMain(r)' => AtMain(r)
          /\ \A t \in Sessions : /\ InBuffer(r, t)' => InBuffer(r, t)
                                 /\ AtWorker(r, t)' => AtWorker(r, t)
    BY <1>4 DEF InPipe, AtMain, InBuffer, Live, AtWorker
  <1>6. OneRequest' /\ \A r \in Request : InHand(r)' => InHand(r)
    BY <1>5, PlacesKept DEF Orderly
  <1>7. \A d, t : Owns(d, t) => Owns(d, t)'
    BY <1>4, OwnsKept
  <1>8. RequestsSound'
    <2>1. \A r \in Request : InHand(r)' => r.client \in Clients \ {c}
      BY <1>1, <1>6, NoneInHand DEF Request
    <2> QED BY <1>1, <1>6, <1>7, <2>1, RequestsKept DEF Orderly
  <1>9. HandsPlaced'
    BY <1>4, <1>5, <1>7 DEF Orderly, HandsPlaced
  <1>10. AnswersFit'
    BY <1>1, <1>3, <1>7, AnswersKept DEF Orderly, TypeInv, TypeParts
  <1>11. HoldersOwn'
    <2> SUFFICES ASSUME NEW d \in InSession', replies'[d] = <<>> PROVE Owns(d, client[d].session)'
      BY DEF HoldersOwn
    <2>1. CASE d = c
      <3>1. client[c].op \in Ops
        BY DEF TypeInv, TypeParts, ClientType
      <3>2. client'[c].pc = "in"
        BY <1>1, <2>1, <3>1 DEF InSession, Ops
      <3>3. CASE client[c].op = "mount"
        <4>1. client'[c].session = a.val /\ Owns(c, a.val)
          BY <1>1, <1>2, <3>2, <3>3 DEF Fits
        <4> QED BY <1>4, <2>1, <4>1 DEF Owns
      <3>4. CASE client[c].op = "access"
        <4>1. client'[c].session = client[c].session /\ Owns(c, client[c].session)
          BY <1>1, <1>2, <3>4 DEF Fits
        <4> QED BY <1>4, <2>1, <4>1 DEF Owns
      <3>5. client[c].op \notin {"unmount", "shutdown"}
        BY <1>1, <1>2, <3>2 DEF Fits
      <3> QED BY <3>1, <3>3, <3>4, <3>5 DEF Ops
    <2>2. CASE d # c
      <3>1. d \in InSession /\ client'[d] = client[d] /\ replies[d] = <<>>
        BY <1>1, <2>2 DEF InSession
      <3>2. Owns(d, client[d].session)
        BY <3>1 DEF Orderly, HoldersOwn
      <3> QED BY <1>4, <3>1, <3>2 DEF Owns
    <2> QED BY <2>1, <2>2
  <1>12. EntriesGuarded'
    BY <1>4 DEF Orderly, EntriesGuarded
  <1> QED BY <1>6, <1>8, <1>9, <1>10, <1>11, <1>12 DEF Orderly

(* A client dies: its session stays its own.                               *)
LEMMA ClientDiesOrderly ==
  ASSUME TypeInv, Orderly, NEW c \in Clients, ClientDies(c)
  PROVE  Orderly'
  <1>1. /\ client'[c].pc = "dead" /\ replies'[c] = <<>>
        /\ \A d \in Clients \ {c} : client'[d] = client[d] /\ replies'[d] = replies[d]
    BY DEF ClientDies, TypeInv, TypeParts
  <1>2. UNCHANGED <<server_pipe, main, freesession_entries, table_lock, thread_buffer, client_fd,
                    worker, misread, crashed>>
    BY DEF ClientDies, table
  <1>3. \A r \in Request :
          /\ \A k \in Nat : InPipe(r, k)' => InPipe(r, k)
          /\ AtMain(r)' => AtMain(r)
          /\ \A t \in Sessions : /\ InBuffer(r, t)' => InBuffer(r, t)
                                 /\ AtWorker(r, t)' => AtWorker(r, t)
    BY <1>2 DEF InPipe, AtMain, InBuffer, Live, AtWorker
  <1>4. OneRequest' /\ \A r \in Request : InHand(r)' => InHand(r)
    BY <1>3, PlacesKept DEF Orderly
  <1>5. \A d, t : Owns(d, t) => Owns(d, t)'
    BY <1>2, OwnsKept
  <1>6. RequestsSound'
    <2> SUFFICES ASSUME NEW r \in Request, InHand(r)' PROVE Sound(r)'
      BY DEF RequestsSound
    <2>1. Sound(r)
      BY <1>4 DEF Orderly, RequestsSound
    <2>2. CASE r.client = c
      BY <1>1, <1>2, <2>1, <2>2 DEF Sound, Owns
    <2>3. CASE r.client # c
      <3>1. r.client \in Clients \ {c}
        BY <2>3 DEF Request
      <3> QED BY <1>1, <1>5, <2>1, <3>1, SoundKept
    <2> QED BY <2>2, <2>3
  <1>7. HandsPlaced'
    BY <1>2, <1>3, <1>5 DEF Orderly, HandsPlaced
  <1>8. AnswersFit'
    BY <1>1, <1>5, AnswersKept DEF Orderly, TypeInv, TypeParts
  <1>9. HoldersOwn'
    <2>1. \A d \in InSession' : d \in Clients \ {c}
      BY <1>1 DEF InSession
    <2> QED BY <1>1, <1>5, <2>1, HoldersKept DEF Orderly
  <1>10. EntriesGuarded'
    BY <1>2 DEF Orderly, EntriesGuarded
  <1> QED BY <1>4, <1>6, <1>7, <1>8, <1>9, <1>10 DEF Orderly

(* Nobody has asked for anything yet.                                      *)
LEMMA InitOrderly == Init => Orderly
  <1> SUFFICES ASSUME Init PROVE Orderly
    OBVIOUS
  <1>1. /\ Len(server_pipe) = 0 /\ main.pc = "read" /\ freesession_entries = Sessions
        /\ \A s \in Sessions : thread_buffer[s] = NULL /\ client_fd[s] = NULL
                               /\ worker[s].pc = "check"
        /\ \A c \in Clients : client[c].pc = "out" /\ replies[c] = <<>>
    BY DEF Init
  <1>2. \A r \in Request :
          /\ \A k \in Nat : ~InPipe(r, k)
          /\ ~AtMain(r) /\ \A s \in Sessions : ~InBuffer(r, s) /\ ~AtWorker(r, s)
    BY <1>1 DEF InPipe, AtMain, InBuffer, Live, AtWorker
  <1>3. RequestsSound
    BY <1>2 DEF RequestsSound, InHand
  <1>4. OneRequest
    BY <1>2 DEF OneRequest
  <1>5. HandsPlaced
    BY <1>2 DEF HandsPlaced
  <1>6. AnswersFit /\ HoldersOwn
    BY <1>1 DEF AnswersFit, HoldersOwn, InSession
  <1>7. EntriesGuarded
    BY <1>1 DEF EntriesGuarded, Copying
  <1> QED BY <1>3, <1>4, <1>5, <1>6, <1>7 DEF Orderly

(* No step takes the misreading back.                                      *)
LEMMA MisreadStays ==
  ASSUME TypeInv, [Next]_vars, ~misread'
  PROVE  ~misread
  <1>1. CASE UNCHANGED vars
    BY <1>1 DEF vars
  <1>2. CASE Main
    BY <1>2 DEF Main, MainRead, MainOpenPipe, MainTakeSession, MainRefuse, MainMalloc,
       MainCopyOpcode, MainCopyMessage, MainSignal
  <1>3. ASSUME NEW s \in Sessions, Worker(s) \/ SpuriousWakeup(s) PROVE ~misread
    <2>1. CASE WorkerDispatch(s)
      BY <2>1, WorkerDispatched
    <2>2. CASE ~WorkerDispatch(s)
      BY <1>3, <2>2 DEF Worker, SpuriousWakeup, WorkerCheck, WorkerWait, WorkerReply, WorkerUnmount,
         WorkerUnlock, WorkerRelease
    <2> QED BY <2>1, <2>2
  <1>4. ASSUME NEW c \in Clients,
               \/ ClientMount(c) \/ ClientReceive(c) \/ ClientDies(c)
               \/ \E op \in Ops \ {"mount"} : ClientCall(c, op)
        PROVE  ~misread
    BY <1>4 DEF ClientMount, ClientReceive, ClientDies, ClientCall
  <1> QED BY <1>1, <1>2, <1>3, <1>4 DEF Next

(* Every step keeps the order, but the one that misreads.                  *)
LEMMA OrderlyStep ==
  ASSUME TypeInv, Orderly, [Next]_vars, ~misread'
  PROVE  Orderly'
  <1>1. CASE UNCHANGED vars
    <2>1. UNCHANGED <<server_pipe, main, freesession_entries, table_lock, thread_buffer, client_fd,
                      worker, client, replies>>
      BY <1>1 DEF vars, table
    <2>2. \A r \in Request :
            /\ \A k \in Nat : InPipe(r, k)' => InPipe(r, k)
            /\ AtMain(r)' => AtMain(r)
            /\ \A t \in Sessions : /\ InBuffer(r, t)' => InBuffer(r, t)
                                   /\ AtWorker(r, t)' => AtWorker(r, t)
      BY <2>1 DEF InPipe, AtMain, InBuffer, Live, AtWorker
    <2>3. EntriesGuarded'
      BY <2>1 DEF Orderly, EntriesGuarded
    <2> QED BY <2>1, <2>2, <2>3, QuietStep DEF Orderly
  <1>2. CASE Main
    BY <1>2, MainReadOrderly, MainOpenPipeOrderly, MainTakeSessionOrderly, MainRefuseOrderly,
       MainMallocOrderly, MainCopyOpcodeOrderly, MainCopyMessageOrderly, MainSignalOrderly DEF Main
  <1>3. ASSUME NEW s \in Sessions, Worker(s) \/ SpuriousWakeup(s) PROVE Orderly'
    BY <1>3, WorkerLoopsOrderly, WorkerDispatchOrderly, WorkerReplyOrderly, WorkerUnmountOrderly,
       WorkerUnlockOrderly, WorkerReleaseOrderly DEF Worker
  <1>4. ASSUME NEW c \in Clients,
               \/ ClientMount(c) \/ ClientReceive(c) \/ ClientDies(c)
               \/ \E op \in Ops \ {"mount"} : ClientCall(c, op)
        PROVE  Orderly'
    BY <1>4, ClientMountOrderly, ClientCallOrderly, ClientReceiveOrderly, ClientDiesOrderly
  <1> QED BY <1>1, <1>2, <1>3, <1>4 DEF Next

(* The inductive invariant.                                                *)
LEMMA SessionInvStep == SessionInv /\ [Next]_vars => SessionInv'
  BY TypeInvStep, MisreadStays, OrderlyStep DEF SessionInv

(* It gives every client that knows a session the session.                 *)
LEMMA OrderlyIsExclusive == SessionInv => SessionsExclusive
  <1> SUFFICES ASSUME SessionInv, ~misread
               PROVE  /\ \A c, d \in InSession : client[c].session = client[d].session /\ c # d =>
                           replies[c] # <<>> \/ replies[d] # <<>>
                      /\ \A c \in InSession : replies[c] = <<>> =>
                           /\ client[c].session \in Sessions \ freesession_entries
                           /\ client_fd[client[c].session] = c
    BY DEF SessionsExclusive
  <1>1. \A c \in InSession : replies[c] = <<>> =>
          /\ client[c].session \in Sessions \ freesession_entries
          /\ client_fd[client[c].session] = c
    BY DEF SessionInv, Orderly, HoldersOwn, Owns
  <1> QED BY <1>1

(* ... and every client its own answer.                                    *)
LEMMA OrderlyMatches == SessionInv => RepliesMatch
  <1> SUFFICES ASSUME SessionInv, ~misread, NEW c \in Clients, replies[c] # <<>>
               PROVE  /\ client[c].pc = "waiting" /\ Len(replies[c]) = 1
                      /\ Head(replies[c]).client = c /\ Head(replies[c]).op = client[c].op
    BY DEF RepliesMatch
  <1>1. PICK a \in Reply : a = Head(replies[c])
    BY PipeRead DEF SessionInv, TypeInv, TypeParts
  <1>2. Len(replies[c]) = 1 /\ Fits(a, c)
    BY <1>1 DEF SessionInv, Orderly, AnswersFit
  <1> QED BY <1>1, <1>2 DEF Fits

(* Whatever the order of mounts, calls, unmounts and deaths, and of the    *)
(* steps of main and the workers on table_lock, thread_buffer and the      *)
(* free entries, a session that a client knows is its own and its worker   *)
(* answers on its pipe (tfs_server.c tfs_mount, worker_unmount), as long   *)
(* as no worker reads a message before it is copied.                       *)
THEOREM SessionsStayExclusive == Spec => []SessionsExclusive
  <1>1. Init => SessionInv
    BY InitTypeInv, InitOrderly DEF SessionInv
  <1> QED BY <1>1, SessionInvStep, OrderlyIsExclusive, PTL DEF Spec

(* ... and what a client finds in its pipe is the one answer to the call   *)
(* it is making (request_handler of tecnicofs_client_api.c relies on it:   *)
(* it takes the first bytes it reads for the answer).                      *)
THEOREM AnswersMatch == Spec => []RepliesMatch
  <1>1. Init => SessionInv
    BY InitTypeInv, InitOrderly DEF SessionInv
  <1> QED BY <1>1, SessionInvStep, OrderlyMatches, PTL DEF Spec
============================================================================

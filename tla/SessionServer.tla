--------------------------- MODULE SessionServer ---------------------------
(***************************************************************************)
(* The server of Projeto2 (fs/tfs_server.c) and its clients                *)
(* (client/tecnicofs_client_api.c). The main thread reads requests from    *)
(* the server pipe and hands each to the worker thread of its session      *)
(* through that session's thread_buffer; the worker answers on the pipe    *)
(* of the client and frees the buffer.                                     *)
(*                                                                         *)
(* The lock of a session entry is no variable here: only its own worker    *)
(* ever takes it, so it excludes nobody. What it fails to protect is       *)
(* thread_buffer, whose three steps (malloc, copy of the opcode, copy of   *)
(* the message) the worker can see one by one.                             *)
(*                                                                         *)
(* The requests open, close, write and read follow one protocol and are    *)
(* "access" here; TecnicoFS models what they do. Requests arrive whole     *)
(* (writes up to PIPE_BUF bytes). Clients may die at any time, between     *)
(* calls or during one; one that comes back is another client.             *)
(***************************************************************************)
EXTENDS Integers, Sequences, FiniteSets

CONSTANTS
  Clients,       (* client processes                                       *)
  MAX_CLIENTS,   (* session entries (common.h)                             *)
  MAX_DEATHS,    (* bound: how many clients die                            *)
  NULL           (* no buffer, no client, no thread                        *)

Sessions == 0 .. MAX_CLIENTS - 1
MainThread == -1
Ops == {"mount", "unmount", "access", "shutdown"}

(* A request. Only a mount carries its client (the name of the pipe); in   *)
(* the others it is kept to say whose request a reply answers. Only they   *)
(* carry a session.                                                        *)
Request == [op : Ops, client : Clients, session : Sessions \cup {-1}]

(* copied: 0 after malloc, 1 with the opcode, 2 with the message as well.  *)
Buffer == [req : Request, copied : 0 .. 2]

Reply == [op : Ops, client : Clients, val : Sessions \cup {0, -1}]

ASSUME ServerAssumption ==
  /\ MAX_CLIENTS \in Nat \ {0} /\ MAX_DEATHS \in Nat
  /\ NULL \notin Clients \cup Sessions \cup {MainThread} \cup Buffer

VARIABLES
  server_pipe,         (* requests written and not yet read                *)
  main,                (* the main thread: pc, request, session            *)
  freesession_entries, (* the entries marked FREE                          *)
  table_lock,          (* who holds it: a worker, MainThread or NULL       *)
  thread_buffer, client_fd,  (* session_table                              *)
  worker,              (* the worker threads: pc and request               *)
  client,              (* the clients: pc, pending operation, session_id   *)
  replies,             (* the clients' pipes                               *)
  misread,             (* a worker read a message before it was copied     *)
  crashed              (* the server process was killed by a signal        *)

table == <<freesession_entries, table_lock, thread_buffer, client_fd>>
vars == <<server_pipe, main, table, worker, client, replies, misread, crashed>>

IsFirst(i, S) == i \in S /\ \A j \in S : i <= j

Init ==
  /\ server_pipe = <<>>
  /\ main = [pc |-> "read", req |-> NULL, slot |-> -1]
  /\ freesession_entries = Sessions
  /\ table_lock = NULL
  /\ thread_buffer = [s \in Sessions |-> NULL]
  /\ client_fd = [s \in Sessions |-> NULL]
  /\ worker = [s \in Sessions |-> [pc |-> "check", req |-> NULL]]
  /\ client = [c \in Clients |-> [pc |-> "out", op |-> "mount", session |-> -1]]
  /\ replies = [c \in Clients |-> <<>>]
  /\ misread = FALSE
  /\ crashed = FALSE

----------------------------------------------------------------------------
(* Pipes *)

(* The clients that have the read end of their pipe open.                  *)
Reading == {c \in Clients : client[c].pc \in {"in", "waiting"}}

WriteSuccessOnly(fd, reply) ==
  /\ replies' = IF fd \in Reading /\ reply.val # -1
                THEN [replies EXCEPT ![fd] = Append(@, reply)] ELSE replies
  /\ crashed' = (fd # NULL /\ fd \notin Reading)

(* write to a client: into its pipe, or death by SIGPIPE once the client   *)
(* has closed it, or an error (EBADF) when there is no such descriptor.    *)
WriteReply(fd, reply) ==
  /\ replies' = IF fd \in Reading
                THEN [replies EXCEPT ![fd] = Append(@, reply)] ELSE replies
  /\ crashed' = (fd # NULL /\ fd \notin Reading)

----------------------------------------------------------------------------
(* Clients (tecnicofs_client_api.c) *)

Send(c, op, pc) ==
  /\ server_pipe' = Append(server_pipe,
       [op |-> op, client |-> c, session |-> IF op = "mount" THEN -1 ELSE client[c].session])
  /\ client' = [client EXCEPT ![c].pc = pc, ![c].op = op]

(* tfs_mount: a new pipe, the request, then open blocks for the server.    *)
ClientMount(c) ==
  /\ client[c].pc = "out"
  /\ Send(c, "mount", "opening")
  /\ replies' = [replies EXCEPT ![c] = <<>>]
  /\ UNCHANGED <<main, table, worker, misread, crashed>>

ClientCall(c, op) ==
  /\ client[c].pc = "in"
  /\ Send(c, op, "waiting")
  /\ UNCHANGED <<main, table, worker, replies, misread, crashed>>

(* The end of request_handler: -1 leaves things as they were, a mount's    *)
(* answer is the session, an unmount or a shutdown closes the pipes.       *)
ClientReceive(c) ==
  /\ client[c].pc = "waiting" /\ replies[c] # <<>>
  /\ LET val == Head(replies[c]).val
         op == client[c].op
     IN  client' = [client EXCEPT ![c] =
           [pc |-> CASE op = "mount" -> IF val = -1 THEN "out" ELSE "in"
                     [] op \in {"unmount", "shutdown"} -> IF val = -1 THEN "in" ELSE "out"
                     [] op = "access" -> "in",
            op |-> op,
            session |-> IF op = "mount" THEN val ELSE @.session]]
  /\ replies' = [replies EXCEPT ![c] = Tail(@)]
  /\ UNCHANGED <<server_pipe, main, table, worker, misread, crashed>>

(* The process ends: its end of its pipe is closed, with what is in it.    *)
(* What it wrote to the server pipe stays there, and its session is its    *)
(* own for ever.                                                           *)
ClientDies(c) ==
  /\ client[c].pc \in {"opening", "waiting", "in"}
  /\ Cardinality({d \in Clients : client[d].pc = "dead"}) < MAX_DEATHS
  /\ client' = [client EXCEPT ![c] = [pc |-> "dead", op |-> "mount", session |-> -1]]
  /\ replies' = [replies EXCEPT ![c] = <<>>]
  /\ UNCHANGED <<server_pipe, main, table, worker, misread, crashed>>

----------------------------------------------------------------------------
(* The main thread *)

MainGoes(pc) == main' = [main EXCEPT !.pc = pc]

MainRead ==
  /\ main.pc = "read" /\ server_pipe # <<>>
  /\ LET req == Head(server_pipe)
     IN  main' = [pc |-> IF req.op = "mount" THEN "open" ELSE "malloc",
                  req |-> req, slot |-> req.session]
  /\ server_pipe' = Tail(server_pipe)
  /\ UNCHANGED <<table, worker, client, replies, misread, crashed>>

(* open(client_pipe, O_WRONLY) and the client's open(O_RDONLY) wait for    *)
(* each other; main waits for good if the client dies before it opens.     *)
MainOpenPipe ==
  /\ main.pc = "open" /\ client[main.req.client].pc = "opening"
  /\ MainGoes("table")
  /\ client' = [client EXCEPT ![main.req.client].pc = "waiting"]
  /\ UNCHANGED <<server_pipe, table, worker, replies, misread, crashed>>

NewBuffer == [req |-> main.req, copied |-> 0]

TakeNothing(S, s) == S
TakeEntry(S, s) == S \ {s}

(* tfs_mount takes table_lock and the first free entry.                    *)
MainTakeSession ==
  /\ main.pc = "table" /\ table_lock = NULL
  /\ \E s \in Sessions :
       /\ IsFirst(s, freesession_entries)
       /\ freesession_entries' = TakeEntry(freesession_entries, s)
       /\ thread_buffer' = [thread_buffer EXCEPT ![s] = NewBuffer]
       /\ main' = [main EXCEPT !.pc = "opcode", !.slot = s]
  /\ table_lock' = MainThread
  /\ UNCHANGED <<server_pipe, client_fd, worker, client, replies, misread, crashed>>

(* No entry is free: the client is told -1 (its descriptor stays open).    *)
MainRefuse ==
  /\ main.pc = "table" /\ table_lock = NULL /\ freesession_entries = {}
  /\ WriteReply(main.req.client, [op |-> "mount", client |-> main.req.client, val |-> -1])
  /\ MainGoes("read")
  /\ UNCHANGED <<server_pipe, table, worker, client, misread>>

(* The other requests: thread_buffer is assigned with no lock held.        *)
MainMalloc ==
  /\ main.pc = "malloc"
  /\ thread_buffer' = [thread_buffer EXCEPT ![main.slot] = NewBuffer]
  /\ MainGoes("opcode")
  /\ UNCHANGED <<server_pipe, freesession_entries, table_lock, client_fd,
                 worker, client, replies, misread, crashed>>

(* A memcpy into thread_buffer. It is read anew for each: when the worker  *)
(* has set it to NULL meanwhile, the copy kills the server.                *)
CopyInto(s, copied) ==
  IF thread_buffer[s] = NULL
  THEN crashed' = TRUE /\ UNCHANGED thread_buffer
  ELSE /\ thread_buffer' = [thread_buffer EXCEPT ![s].copied = copied]
       /\ UNCHANGED crashed

MainCopyOpcode ==
  /\ main.pc = "opcode"
  /\ CopyInto(main.slot, 1)
  /\ client_fd' = IF main.req.op = "mount"
                  THEN [client_fd EXCEPT ![main.slot] = main.req.client] ELSE client_fd
  /\ MainGoes("message")
  /\ UNCHANGED <<server_pipe, freesession_entries, table_lock, worker, client, replies, misread>>

MainCopyMessage ==
  /\ main.pc = "message"
  /\ CopyInto(main.slot, 2)
  /\ MainGoes("signal")
  /\ UNCHANGED <<server_pipe, freesession_entries, table_lock, client_fd,
                 worker, client, replies, misread>>

(* pthread_cond_signal wakes the worker if it waits, and is forgotten      *)
(* otherwise. tfs_mount then unlocks the table.                            *)
MainSignal ==
  /\ main.pc = "signal"
  /\ worker' = IF worker[main.slot].pc = "waiting"
               THEN [worker EXCEPT ![main.slot].pc = "check"] ELSE worker
  /\ table_lock' = IF main.req.op = "mount" THEN NULL ELSE table_lock
  /\ MainGoes("read")
  /\ UNCHANGED <<server_pipe, freesession_entries, thread_buffer, client_fd,
                 client, replies, misread, crashed>>

Main == \/ MainRead \/ MainOpenPipe \/ MainTakeSession \/ MainRefuse \/ MainMalloc
        \/ MainCopyOpcode \/ MainCopyMessage \/ MainSignal

----------------------------------------------------------------------------
(* The worker of session s (thread_func) *)

WorkerGoes(s, pc) == worker' = [worker EXCEPT ![s].pc = pc]

WorkerCheck(s) ==
  /\ worker[s].pc = "check"
  /\ WorkerGoes(s, IF thread_buffer[s] = NULL THEN "block" ELSE "dispatch")
  /\ UNCHANGED <<server_pipe, main, table, client, replies, misread, crashed>>

(* pthread_cond_wait: from here on, and not before, a signal is heard.     *)
WorkerWait(s) ==
  /\ worker[s].pc = "block"
  /\ WorkerGoes(s, "waiting")
  /\ UNCHANGED <<server_pipe, main, table, client, replies, misread, crashed>>

(* POSIX lets pthread_cond_wait return with no signal; it need not.        *)
SpuriousWakeup(s) ==
  /\ worker[s].pc = "waiting"
  /\ WorkerGoes(s, "check")
  /\ UNCHANGED <<server_pipe, main, table, client, replies, misread, crashed>>

(* What the worker finds in its buffer. Fresh or recycled memory holds no  *)
(* opcode, so a buffer with nothing copied is dropped by the default case, *)
(* as a shutdown is by its own. Where the session number was not copied    *)
(* yet, the memory may hold any.                                           *)
WorkerDispatch(s) ==
  /\ worker[s].pc = "dispatch"
  /\ LET req == thread_buffer[s].req
         copied == thread_buffer[s].copied
     IN  \/ /\ copied = 0 \/ req.op = "shutdown"
            /\ WorkerGoes(s, "release")
            /\ UNCHANGED <<misread, crashed>>
         \/ /\ copied > 0 /\ req.op = "mount"
            /\ worker' = [worker EXCEPT ![s] = [pc |-> "reply", req |-> [req EXCEPT !.session = s]]]
            /\ UNCHANGED <<misread, crashed>>
         \/ /\ copied = 2 /\ req.op \in {"access", "unmount"}
            /\ worker' = [worker EXCEPT ![s] = [pc |-> "reply", req |-> req]]
            /\ UNCHANGED <<misread, crashed>>
         \/ /\ copied = 1 /\ req.op \in {"access", "unmount"}
            /\ \E g \in Sessions :
                 worker' = [worker EXCEPT ![s] = [pc |-> "reply", req |-> [req EXCEPT !.session = g]]]
            /\ misread' = TRUE /\ UNCHANGED crashed
         \/ /\ copied = 1 /\ req.op \in {"access", "unmount"}
            /\ misread' = TRUE /\ crashed' = TRUE    (* no valid index      *)
            /\ UNCHANGED worker
  /\ UNCHANGED <<server_pipe, main, table, client, replies>>

LastMounted(s) == main.req.client
ReplyTo(s) == client_fd[s]

AnswerFromOne(req, val) == [op |-> req.op, client |-> req.client, val |-> val + 1]
Answer(req, val) == [op |-> req.op, client |-> req.client, val |-> val]

(* worker_mount, and worker_open ... worker_read once their tfs_ operation *)
(* is done: the reply goes to the client of the session named in the       *)
(* message.                                                                *)
WorkerReply(s) ==
  /\ worker[s].pc = "reply" /\ worker[s].req.op # "unmount"
  /\ LET req == worker[s].req
     IN  \E val \in IF req.op = "mount" THEN {s} ELSE {0, -1} :
           WriteReply(ReplyTo(req.session), Answer(req, val))
  /\ WorkerGoes(s, "release")
  /\ UNCHANGED <<server_pipe, main, table, client, misread>>

(* worker_unmount: with table_lock held, free the entry and answer. When   *)
(* the write fails it returns there, still holding the lock.               *)
WorkerUnmount(s) ==
  /\ worker[s].pc = "reply" /\ worker[s].req.op = "unmount" /\ table_lock = NULL
  /\ LET req == worker[s].req
         fd == ReplyTo(req.session)
     IN  /\ WriteReply(fd, Answer(req, IF req.session \in freesession_entries THEN -1 ELSE 0))
         /\ freesession_entries' = freesession_entries \cup {req.session}
         /\ WorkerGoes(s, IF fd = NULL THEN "release" ELSE "unlock")
  /\ table_lock' = s
  /\ UNCHANGED <<server_pipe, main, thread_buffer, client_fd, client, misread>>

NotUnlocked == table_lock
Unlocked == NULL

(* ... close(fdc) and the unlock. The number stays in the entry, closed:   *)
(* NULL here. Until the next mount of the entry sets it again, only a      *)
(* message misread leads to it.                                            *)
WorkerUnlock(s) ==
  /\ worker[s].pc = "unlock"
  /\ client_fd' = [client_fd EXCEPT ![worker[s].req.session] = NULL]
  /\ table_lock' = Unlocked
  /\ WorkerGoes(s, "release")
  /\ UNCHANGED <<server_pipe, main, freesession_entries, thread_buffer,
                 client, replies, misread, crashed>>

(* free(thread_buffer); thread_buffer = NULL: of the buffer that is there  *)
(* now, which need not be the one that was served. (Free and assignment    *)
(* are one step: a copy that falls between them goes to freed memory and   *)
(* is lost like one that came just before.)                                *)
WorkerRelease(s) ==
  /\ worker[s].pc = "release"
  /\ thread_buffer' = [thread_buffer EXCEPT ![s] = NULL]
  /\ worker' = [worker EXCEPT ![s] = [pc |-> "check", req |-> NULL]]
  /\ UNCHANGED <<server_pipe, main, freesession_entries, table_lock, client_fd,
                 client, replies, misread, crashed>>

Worker(s) == \/ WorkerCheck(s) \/ WorkerWait(s) \/ WorkerDispatch(s) \/ WorkerReply(s)
             \/ WorkerUnmount(s) \/ WorkerUnlock(s) \/ WorkerRelease(s)

----------------------------------------------------------------------------
Next ==
  /\ ~crashed
  /\ \/ Main
     \/ \E s \in Sessions : Worker(s) \/ SpuriousWakeup(s)
     \/ \E c \in Clients : \/ ClientMount(c) \/ ClientReceive(c) \/ ClientDies(c)
                           \/ \E op \in Ops \ {"mount"} : ClientCall(c, op)

Running(A) == ~crashed /\ A

(* Threads that can run do, a mutex that is released again and again is    *)
(* not denied forever, and a client reads the answer it waits for. Whether *)
(* a client ever makes another call, or a wait ends with no signal, is     *)
(* left open.                                                              *)
Fairness ==
  /\ WF_vars(Running(Main))
  /\ \A s \in Sessions : /\ WF_vars(Running(Worker(s)))
                         /\ SF_vars(Running(WorkerUnmount(s)))
  /\ \A c \in Clients : WF_vars(Running(ClientReceive(c)))

Spec == Init /\ [][Next]_vars /\ Fairness

----------------------------------------------------------------------------
TypeOK ==
  /\ server_pipe \in Seq(Request)
  /\ main \in [pc : {"read", "open", "table", "malloc", "opcode", "message", "signal"},
               req : Request \cup {NULL}, slot : Sessions \cup {-1}]
  /\ freesession_entries \subseteq Sessions
  /\ table_lock \in Sessions \cup {MainThread, NULL}
  /\ thread_buffer \in [Sessions -> Buffer \cup {NULL}]
  /\ client_fd \in [Sessions -> Clients \cup {NULL}]
  /\ worker \in [Sessions ->
       [pc : {"check", "block", "waiting", "dispatch", "reply", "unlock", "release"},
        req : Request \cup {NULL}]]
  /\ client \in [Clients -> [pc : {"out", "opening", "waiting", "in", "dead"}, op : Ops,
                             session : Sessions \cup {-1}]]
  /\ replies \in [Clients -> Seq(Reply)]
  /\ misread \in BOOLEAN /\ crashed \in BOOLEAN

(* The clients that know a session number.                                 *)
InSession == {c \in Clients : \/ client[c].pc = "in"
                              \/ client[c].pc = "waiting" /\ client[c].op # "mount"}

(* While no worker has read a half copied message, a session belongs to    *)
(* one client, whose pipe its worker answers on, until the reply to the    *)
(* unmount is on its way: no order of mounts and unmounts gives one entry  *)
(* to two clients.                                                         *)
SessionsExclusive ==
  ~misread =>
    /\ \A c, d \in InSession : client[c].session = client[d].session /\ c # d =>
         replies[c] # <<>> \/ replies[d] # <<>>
    /\ \A c \in InSession : replies[c] = <<>> =>
         /\ client[c].session \in Sessions \ freesession_entries
         /\ client_fd[client[c].session] = c

(* ... and what a client finds in its pipe is the one answer to the call   *)
(* it is making.                                                           *)
RepliesMatch ==
  ~misread => \A c \in Clients : replies[c] # <<>> =>
    /\ client[c].pc = "waiting" /\ Len(replies[c]) = 1
    /\ Head(replies[c]).client = c /\ Head(replies[c]).op = client[c].op

(* The main thread always gets back to its read, whatever becomes of the   *)
(* requests (in particular worker_unmount gives table_lock back), and also *)
(* when clients die: only one that dies between its mount request and its  *)
(* open keeps it for good.                                                 *)
WaitsForTheDead == main.pc = "open" /\ client[main.req.client].pc = "dead"
MainKeepsServing == []<>(main.pc = "read" \/ crashed \/ misread \/ WaitsForTheDead)

(* A call that its worker has begun to serve is answered.                  *)
ServedIsAnswered ==
  \A s \in Sessions, c \in Clients :
    worker[s].pc = "reply" /\ worker[s].req.client = c ~>
      (replies[c] # <<>> \/ crashed \/ misread)

(* client_server_simple_test.c asserts what every call returns, and so     *)
(* that it returns: tfs_open, tfs_write ... tfs_unmount come back.         *)
EveryCallReturns ==
  \A c \in Clients : client[c].pc = "waiting" /\ client[c].op # "shutdown" ~>
                       (client[c].pc # "waiting" \/ crashed)
=============================================================================

# TecnicoFS: models, checks and proofs

The repository holds two programs. `Projeto1SO/tecnicofs` is a file system kept in memory and used
by several threads, with a lock for every table and i-node. `Projeto2/tecnicofs_ex2` is a smaller file
system under one lock, a server that offers it to client processes over named pipes, and the client's
library. This directory models both.

## Inventory

| Component | State | Operations | Interacts by | What is hard | What makes it correct |
|---|---|---|---|---|---|
| P2 tables and operations (`fs/state.c`, `fs/operations.c`) | `inode_table`, `freeinode_ts`, the root directory's block, `fs_data`, `free_blocks`, `open_file_table`, `free_open_file_entries`, `open_files` | `tfs_open`, `tfs_close`, `tfs_write`, `tfs_read`, `tfs_lookup` | called by the workers, all inside `single_global_lock` | several handles on one file, truncation under a handle, stale handles, full tables, `size_t` arithmetic, an open that fails half way | each block belongs to one file; directory and i-nodes agree; handles lead to live files; what is written is read back, nothing else changes |
| P2 shutdown (`fs/operations.c`) | `can_open_files`, `open_files`, `single_global_lock`, `no_open_files` | `tfs_destroy_after_all_closed`, `tfs_destroy`, the frame of `tfs_open` and `tfs_close` | mutex and condition variable | a flag read without the lock, a mutex destroyed in use, lost and spurious wakeups | exact count, no shutdown while a file is open, a shutdown ends |
| P2 server (`fs/tfs_server.c`) | `session_table`, `freesession_entries`, `table_lock`, main's and workers' positions | one handler of main and one of the workers per request | server pipe, `thread_buffer`, condition variables, client pipes | hand-over of requests with no common lock, reuse of sessions, blocking `open`, errors with a lock held | a session has one client; an answer reaches its caller; every call is answered; main never stops |
| P2 client API (`client/tecnicofs_client_api.c`) | `session_id`, two descriptors | `tfs_mount`, `tfs_unmount`, `tfs_open`, `tfs_close`, `tfs_write`, `tfs_read`, `tfs_shutdown_after_all_closed` | server pipe, own pipe | waits for an answer without a limit | every call returns, with its own answer |
| P1 blocks (`fs/state.c`, `fs/operations.c`) | ten direct blocks and one block of references for each i-node | the same, and `tfs_copy_to_external_fs` | locks, `free_blocks` | holes, truncation of indirect blocks, a write that fails half way, reads that allocate | as in P2, for several blocks and threads |
| P1 locks | `inode_table_lock`, `open_file_table_lock`, a `rwl` for each i-node, a `file_lock` for each open file | all operations, from several threads | locks | lock order, creation outside the lock, locks kept or released twice | no deadlock, one file for a name, a file is written or truncated by one call at a time |

The hazards, each at its line, are listed in `PROJECT.json`.

## Plan

Order: what the server's users depend on first.

1. `TecnicoFS` (done): P2's tables under their operations; invariants proved.
2. `SessionServer` (done): clients, which may die, main and workers. `ShutdownGate` (done): the shutdown. Safety of both proved.
3. `FileStore` and `StoreRefinement` (done): what a caller of P2 may rely on, and that `TecnicoFS` implements it; proved.
4. `BlockFS` over `Rwlock` (done): P1's direct and indirect blocks, one memory access at a time, from several threads;
   types, ownership of blocks, sizes and contents proved.
5. `FSLocks` over `Rwlock` (done): P1's threads and locks; safety proved.
6. Every safety property of the passing runs is proved. Still open: a store for P1's calls, as `FileStore` is one for P2's, which
   they implement until something is damaged.

A composition of `SessionServer` with the file system was planned and given up: a shutdown is never served
(`tfs_server.c:189`), so the two meet in calls that return at once. Every module takes its sizes as CONSTANTS with named
assumptions and uses no RECURSIVE operator.

## TecnicoFS

One action for each outcome of an operation; the operation is their disjunction. Each operation holds
`single_global_lock` from its first access to the tables to its last, so it is one step.

- `TfsOpen(path, flags)`: `OpenExisting` (with the truncation and the initial offset), `OpenCreate`, `OpenUndone`
  (`add_dir_entry` failed, `inode_delete` undoes `inode_create`), `OpenRefused`. The open file table may be full in
  the first two (`AddToOpenFileTable`): the file stays created or truncated, as in the code.
- `TfsClose(fh)`, also of handles that are closed or out of range.
- `TfsWrite(fh, byte, len)`: `WriteNothing`, `WriteNoBlock`, `WriteBytes`, `WriteOverrun`. Lengths are `size_t`
  (`SizeSub`): past the end of the block the length wraps and `memcpy` kills the process.
- `TfsRead(fh, len)`: `ReadBytes`, `ReadNothing`; the same wrap with the offset past the end of the file.

Abstractions. A path is its first character (slash or not) and the rest, a name; `Stored` gives what
`strncpy` keeps of a name. Bytes are a few values and `Junk`, which stands for memory nobody wrote there. A write
fills with one byte. The free maps are the sets of free entries. The root directory's block is a
variable of its own (`dir`). `insert_delay` is left out. Callers use handles that `tfs_open` returned at
some time, open or closed since. No operation deletes a file, so no name ever leaves the directory. `tfs_lookup`
changes nothing: it is the operator `Lookup`.

| Property | Meaning |
|---|---|
| `BlockAccounting` | a block is free or belongs to one i-node with contents; none leaks, none has two owners |
| `DirectoryExact` | entries and allocated files correspond one to one, also after a failed create |
| `HandlesExact` | handles lead to allocated files; `open_files` counts the open ones |
| `FramedWrites` | a step changes a file only by emptying it or, through a handle of its own, between that handle's old and new offset |
| `ReadsDeliverContents` | a read that starts within the file delivers its bytes and advances by as many |

Run `fs_core`: three i-nodes, two directory entries, three blocks of two bytes, two handles, buffers up to two
bytes. Two files can share and exhaust the blocks and the handles, a write can fill and overrun a block, both
refusals of an open occur, and a handle can outlive a truncation and its own close. One byte value
is enough: it differs from what was never written. `MAX_OFFSET` bounds how far reads that have
wrapped may take an offset: past the end of a block, which is where writes wrap. A write that wraps ends the run
(`crashed`), so deadlock is not checked. The run has 50,125 states.

`fs_stale_offset` finds the read past the end of a file after a truncation through another handle.

### FileStore

What `fs/operations.h` promises: `names`, each leading to at most one file; `file`, sequences of bytes; `handle`, a file and
a position, kept after the close. There are no i-nodes, blocks, directory entries or free maps. Where callers get less than
they would expect the module says so: a new file is found under the name that is stored, so one with a long name, or
with a path that lacks its slash, may never be found again, and another is made by the next open (`Create`); between the end of a
truncated file and an older handle's position anything may appear (the hole of `WriteBytes`, `ReadStale`); a position past
the largest size ends the process (`Overrun`). Which calls find the table of handles, the directory or the blocks full is
left open.

`StoreRefinement` gives the mapping: a file is an i-node other than the root's with the first `i_size` bytes of its block,
a name leads where `Lookup` finds it. `ImplementsStore` (`Store!Spec`) is checked by `fs_core`, whose paths include a long name, the name it is cut
to, a path without slash and "/".

## SessionServer

The main thread goes through `read`, `open` (the client's pipe), `table` (waiting for `table_lock`), `malloc`,
`opcode`, `message`, `signal`; a worker through `check`, `block` (about to wait), `waiting`, `dispatch`,
`reply`, `unlock`, `release`; a client through `out`, `opening`, `waiting`, `in`. `thread_buffer[s]` is `NULL` or a request
of which nothing, the opcode or everything has been copied. A session's `lock` is taken by its own worker only: it
has no effect on anyone else, which is the root of the lost requests, and is not a variable. `pthread_cond_signal`
has an effect on a worker in `waiting` only.

The four file requests are one operation, `access`: in this module they differ only in the value returned.
Opening the client's pipe is one joint step of main and the client, since FIFOs open by rendezvous. Undefined
behaviour: memory with nothing copied into it holds no opcode (the allocator leaves it zero or part of a
pointer); a session number not copied yet may be any, or an invalid index that kills the server; a copy through NULL
kills it. A client may die in any call or between two (`ClientDies`): its pipe is closed, so that the next answer kills the
server by SIGPIPE, and a main thread that is to open the pipe waits for good. What the dead client wrote is still served. `misread` records that a worker read a message before it was copied: from there on answers may go astray,
and the properties below speak about the behaviours without it.

| Property | Meaning |
|---|---|
| `SessionsExclusive` | no two clients believe they have one session; a client's session is marked taken and answers to it |
| `RepliesMatch` | what is in a client's pipe is one answer, to the call it is making |
| `MainKeepsServing` | main is at its read again and again, unless a client died between its mount request and its open |
| `ServedIsAnswered` | a call its worker has taken up is answered |

Run `server`: two clients, of which either or both may die, and one session, so that mounts are refused, and the session passes from client to
client while its worker is still between an answer and its `free`. 39,061 states. One session shows what can be shared or go astray: workers
touch their own entries only, and all that sessions have in common is main, `table_lock` and the search for the first free entry. What the run does not
show, that with several sessions none is confused with another, is proved: `SessionsStayExclusive` and `AnswersMatch` hold for any number of clients and
sessions.
`server_lost_request` needs one client, which lives. Fairness: a thread that can run does (weak);
a thread that waits for `table_lock` gets it if it is free again and again (strong); a client reads the answer it
waits for. No client has to make a call, no wait has to end without a signal. Clients may all stop calling, so
deadlock is not checked.

`server_lost_request` shows a call that never returns: main publishes and signals outside the session's lock, so
the signal can come before the wait, and the worker's final `free`, after its answer, takes away a request that
arrived meanwhile. (A shutdown is never answered either: `thread_func` has an empty case for it and nothing calls
`worker_shutdown`. `EveryCallReturns` excepts it.)

## ShutdownGate

Threads that open and close (one file at a time, also closing twice) and threads that shut down. Every access to
shared state outside the lock, every wait for the lock and every critical section is a step. `holder` is the mutex;
`destroyed` that `pthread_mutex_destroy` succeeded. The mutex is glibc's: it answers `EINVAL` once destroyed,
`EBUSY` to a destroy while it is held or a wait has released it, and a thread that queued before the destruction still
gets it.

| Property | Meaning |
|---|---|
| `CountExact` | `open_files` is the number of open files |
| `DestroysWhenEmpty` | critical sections exclude each other; a shutdown leaves its loop with no file open |
| `GateHolds` | once `can_open_files` is 0, the threads with a file open or past the test only become fewer |
| `SomeDestroyReturns` | if files are closed, some shutdown returns |

Run `gate`: two threads of each kind, enough for a close that races an open, a waiter that is overtaken, and two
waiters of which one is signalled. Fairness is strong for each thread's own call: calls that have begun go on and open files get
closed; no thread must begin a call. Threads end or stay queued on a dead mutex, so deadlock is not checked. Each
destroyer calls once and `tfs_init` is not called again.

`gate_late_open` shows a file opened after `tfs_destroy_after_all_closed` has seen none open and returned 0:
`tfs_open` had passed its test, made without the lock. Of two shutdowns at once the second may wait for good, since
`pthread_cond_signal` wakes one waiter; only the return of some shutdown is claimed.

## BlockFS

Projeto1's `tfs_open`, `tfs_close`, `tfs_write` and `tfs_read` from several threads. A call begins (`WriteBegin`, `ReadBegin`)
with the file's `rwl` and the handle's `file_lock`; each round of its loop looks where the number of the current block
is kept (`Place`: in the i-node or in the block of references), allocates a block if there is none (`Alloc`), stores its number
(`Store`), clears a new block of references (`Fill`), and copies (`CopyIn`, `CopyOut`); a round may fail (`NoBlock`, `Store` of -1)
or end the process (`Dies`: `bonus_block_init` writes through NULL). Each of these is a step, since reads share the lock and allocate too. An open
of a file is a step, with a truncation two: the offset is read after the lock has been released. Opens of new files are here without
the directory (that is `FSLocks`).

Memory is counted in cells of `sizeof(int)` bytes, so that a block has as many cells as references. `fs_data` is one
array: an index past the end of the block of references reads the next block, as in the code, and past the last block ends the
process. Static storage is zero: an i-node never used refers to block 0. `Rwlock` is `pthread_rwlock_t` as glibc implements it, also
for the unlock too many of a truncating open, after which its count of readers is wrong.

`damage` records what has gone wrong for good: `freed` (a truncation left a block of references in use), `beyond` (a reference behind
the end of its block was used), `raced` (two readers allocated for one place, or one used a block of references that the other
had not cleared). The properties about contents and ownership speak about the behaviours before that; `TypeOK` and `WriteSizes` about all.
The end of the process stops a thread that was clearing a block of references, which then leads anywhere: ownership ends there too.

| Property | Meaning |
|---|---|
| `BlocksOwned` | references lead to blocks that are taken, no two to one, nor to one that a thread has just been given, until the process ends |
| `NoBlockLost` | a block that is taken is referred to, or on its way to be |
| `WrittenSoFar` | what a write has written so far is in its file at the offsets it passed, over all its blocks |
| `ReadSoFar` | what a read has read so far is what the file holds, while nobody writes |
| `FramedWrites` | a cell of a file changes only by a truncation or under a thread that writes to it at that offset |
| `WriteSizes` | a write that succeeds leaves the larger of the old size and its own end, although `i_size` grows with every block |

Run `blocks`: two threads, two files, two handles, one direct block and one block of two references, so that a file has up to
three blocks of two cells and the five blocks, one of them the root's, can run out; buffers of one and three cells, so that a write crosses two
boundaries or none; symmetry of the threads (safety only). `MAX_CALLS` (6) bounds how many calls are made: two opens of each of
two files, and a call of each thread under way, or any longer sequence on one file. 359,450 states. Calls stop at the bound, so
deadlock is not checked.

`blocks_truncate` (one thread, longer buffers) finds a write that changes another file: a truncation frees the block of references but
assigns -1 to a local variable; the next file to need one is given that block, and a handle opened before the truncation
still writes through it.

## FSLocks

The same operations and `tfs_copy_to_external_fs`, as what they lock: a step goes from one wait for a lock to the next, so that every
order in which two threads can wait, hold and release is a behaviour. The mutexes are recursive. `inode_table_lock` is held while a thread
waits for a file's `rwl`, `open_file_table_lock` while it waits for a `file_lock`; `add_to_open_file_table` takes the handles' locks one by one.
The directory, `freeinode_ts` and the open file table are here, since they are what the locks are for; contents are not. A copy is
`CopyTable`, then the steps of an open, `CopyFile`, those of any number of reads, `TfsClose`, `CopyRwUnlock`, `CopyEnd`, with its failures.
`tfs_close` is a call as well: it waits for `open_file_table_lock` (`TfsClose`), and meanwhile the handle it is about to free may be used or freed by others. `Operations` says which
operations each thread calls, `Flags` with which flags it opens. A failed
truncation, a missing block and `fopen` are free choices.

| Property | Meaning |
|---|---|
| `FileExclusive` | nobody else reads, writes, truncates or copies a file that is being written or truncated; one call at a time uses a handle |
| `DirectoryAgrees` | an i-node that is taken has one entry, or one thread about to add it or to give the i-node back; handles lead to files of the directory |
| `LocksReturned` | a thread in no call holds no lock, but for `inode_create`, which keeps that of the i-node table when there is no i-node left |
| `HandlesStable` | a handle is not given out again under a call that uses it, although closes take no lock of the handle |
| `CallsReturn` | every call that neither copies nor truncates returns, closes included, while there is an i-node left |

Run `locks`: two threads, three i-nodes for two directory entries, two names, two handles, every operation, with and without truncation; symmetry of
threads and of names. Directory, i-nodes and handles can each run out, also while another creation is under way, two files can be used at
once, and two threads meet at every lock. `MAX_OFF` bounds how far a lock may get out of count before no more calls begin: an i-node
unlocked once too often, the i-node table kept twice. Calls need not begin, so deadlock is not checked in any of these runs. 2,008,125 states.

Run `locks_readers` (`MCFSLocksReaders`), the liveness: starvation of a writer takes two readers whose reads overlap, so there are three threads. One
reads; one reads and closes; one writes, and opens with `TFS_O_CREAT`. They begin when two files have been created and opened, which takes up the directory
and the handles: `f` and `g` are opened again (and find the table of handles full until one is closed), a third name is created and undone, since one i-node is left. 255,108 states.

Fairness is strong, for each thread's call under way: POSIX promises no more than that some waiting thread gets a lock that becomes
free, and a thread that is scheduled and tries again and again gets it. It is needed between two threads that take turns. It does not by itself let a writer in
that waits for overlapping readers, since the `rwl`, which prefers readers, need never be free. What lets it in is that it waits with
`inode_table_lock` held, which every new reader needs first: if reads did not keep that lock while they wait for the `rwl`, TLC finds two readers that starve
an open. `CallsReturn` has no exceptions; the run leaves out the calls of which it is false or that keep others from returning: copies (`locks_copy` shows why),
opens that truncate, which unlock an i-node twice, and an i-node table that runs out, whose lock `inode_create` then keeps.

`locks_copy` finds the deadlock: a copy holds its handle's lock and wants `open_file_table_lock`, whose owner wants that
handle's lock. `locks_create_twice` finds two files of one name: the table's lock is released between the lookup and the creation.

## What is proved

`TecnicoFS_proofs`, from `SizesAssumption` (sizes are positive, `SIZE_T` exceeds every length in use) and
`NamesAssumption`: `TypeCorrect`, `BlocksAccounted`, `DirectoryAgrees`, `HandlesCorrect`, for all sizes and any set
of paths. The inductive invariant is the conjunction of the four properties, and none is inductive alone: a write may assign a block to
the i-node its handle leads to only because that i-node is allocated (`HandlesExact`), which an open ensures because
directory entries lead to allocated i-nodes (`DirectoryExact`) and the root stays allocated (`BlockAccounting`);
`open_files` stays a natural number because it is a count. There is a lemma for each outcome of each operation.
The runs check the same four as invariants.

`WritesFramed` and `ReadsCorrect`, the action properties `FramedWrites` and `ReadsDeliverContents`, follow from it step by step: a write to
another file's block is excluded by `BlockAccounting`.

`StoreRefinement_proofs`: `StoreImplemented`, that `TecnicoFS` implements `FileStore` (`ImplementsStore`). Every outcome of an operation is
shown to be a step of the store or to change nothing it can see, from the invariant of `TecnicoFS` and one more,
`DirectoryPacked`: the entries in use come before the unused ones, without which a new name might be added in front of an
older one that it equals, and the old file be lost to its callers. `NatLeast`, that a set of naturals has a least member, gives the
entry `Lookup` finds.

`ShutdownGate_proofs`, from `ThreadsAssumption` (finitely many openers, the kinds of threads disjoint):
`TypeCorrect`, `CountCorrect`, `DestroyCorrect`, `GateCorrect`, for any number of threads. The inductive invariant adds that whoever is
between a lock and its unlock holds the lock, that a thread about to open has no file open, and that the gate is shut from
the first shutdown on; `OneThreadMoves` serves all steps that change one thread's position only.

`SessionServer_proofs`, from `ServerAssumption` (`NULL` is no client, session, thread or buffer): `TypesHold`, `SessionsStayExclusive` and
`AnswersMatch`, for any number of clients and sessions. The inductive invariant has two parts. `TypeInv` holds always: who has a
request in hand, whichever thread, may take for granted that it carries a session unless it is a mount. `Orderly` holds until a
worker has read a message before it was copied (`misread`): a client has at most one request in the system, and it is in one of
the places a request passes through, in the order it passes them; until it is answered the client's pipe is empty. Neither property
is inductive because both depend on where the requests are that have not been answered yet. A client that died keeps its
request in the system, so `Orderly` speaks of the dead ones also.

`FSLocks_proofs`, from `SizesAssumption` (finitely many threads, positive sizes): `TypeCorrect`, `LocksAreReturned`, `HandlesAreStable`,
`FilesAreExclusive` and `DirectoryIsRight`, for any number of threads, names, i-nodes and handles and whatever `MAX_OFF`. The inductive invariant `IInv` says of every lock
who has it and how often, from where each thread is in its call: none of the properties says that of the calls under way, and so none is
inductive. A thread may hold the i-node table's lock once more than its call needs, but then no i-node is free, which stays so because
giving one back (`inode_delete`) needs that lock. `LocksAreReturned` and `HandlesAreStable` are read off the invariant. `FilesAreExclusive`
needs a second one, `ReadersInv`: an i-node's lock counts at most as many readers as it has, since all unlocks in excess lower the count, and
where it counts them all it counts none in its write phase; with a copy's handle leading to one i-node throughout. `OneThreadMoves` and
`ReadersKept` reduce every step to the thread that takes it. That a lock's count is sound is a premise of `FileExclusive`
and not proved: an open with `TFS_O_TRUNC` breaks it. `DirectoryIsRight` needs `DirInv`: an i-node has one entry at most, and between taking
it and listing it, or giving it back, one thread only has it and no entry leads to it. The lock of the i-node table is released in between; what
keeps others away is that the i-node is no longer among the free ones.

`BlockFS_proofs`, from `SizesAssumption`, `DataAssumption` and `ThreadsAssumption` (finitely many threads, `NoThread` none of them): `TypeCorrect`,
`SizesRight`, `BlocksHaveOwners` and `BlocksNotLost`, for any number of threads, files, blocks, references and handles and whatever
`MAX_CALLS`. Three invariants stand on each other. `TypeOK` is inductive: also where a truncation or a reference behind the end of its block
has left numbers in data or data in references, an index stays within its array or the process ends. `CallInv` says of each thread in a loop what its call
depends on: the writer has the file's lock, no two calls have one handle, the size and the offset have grown by as much; with
it `SizesRight`. `Owned`, until damage or the end of the process, says of every reference, whether in an i-node or in a block of references,
that its block is taken and no other reference's (`RefsApart`), that blocks just given to threads are nobody's (`GivenApart`), that
none is lost (`NoneLost`), that the place a thread is about to store to is still one of its file (`PlacesKnown`), and that two threads do not fill one block
(`FillsApart`). Reads allocate under a shared lock, so two threads may be on their way to one place; the store of the second is what `damage`
records as `raced`, and without that premise `NoneLost` is false.

`BlockContents_proofs`, from the same assumptions: `WritesFramed`, `WrittenIsThere` and `ReadIsThere`, what files contain. The lemma they share is
`ContentsStep`: a cell of a file that has a block keeps it and its value in every step but the copy of a write that passes over it and a truncation of its file.
It needs `RefsApart`, so that no other file's copy, nor the number a thread stores or the block it fills, goes to the cell's block. `WrittenIsThere`
adds that the writer has the file's lock (`CallInv`), so that no other write and no truncation comes in between. `ReadIsThere` needs the lock from the other
side (`LocksGood`: a lock with readers has no writer and is in no write phase) and, since an unlock too many may make the count of readers wrong, that a lock
which counts all its readers after a step has done so before it (`CountedBack`): a reader that leaves lowers the count by one, unless it is taken for a writer,
and then the count is not positive. That is the premise of `ReadSoFar`, which a truncating open can break.

Proving led to corrections of `BlockFS`: differences of sizes are taken modulo `SIZE_T` (adding `SIZE_T` once is right only
for offsets below it); threads are finitely many and `NoThread` is not one; `BlocksOwned` does not speak of a process that
ended while a block was being filled, which with four blocks TLC shows to break it.

Model-checked only: every liveness property (`MainKeepsServing`, `ServedIsAnswered`, `SomeDestroyReturns`, `CallsReturn`), which is beyond TLAPS. The
properties of the runs that are violations are false of the code.

## Not modelled

Projeto2: requests longer than `PIPE_BUF`, which other clients' may interleave; partial reads and
writes; failures of `malloc`, `pthread_create` and the like; descriptors that a refused mount never closes; `close_all_pipes` and
`worker_shutdown`, which run only when the server ends or never.

Projeto1: `tfs_destroy`, which destroys the locks and is called by no test while others run; directories other than the root, for which
`tfs_open` and `inode_delete` have branches but which nothing creates; the bytes that a copy writes outside, which are those its reads
return (`ReadSoFar`); names, cut as in Projeto2. `BlockFS` and `FSLocks` are not composed: a call of `BlockFS` begins with both its locks, and what may
happen between them is the subject of `FSLocks`.

The tests and the Makefiles keep no state; the tests are quoted where they expect something.

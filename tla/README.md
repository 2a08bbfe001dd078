# A TLA+ verification project for code_tools

code_tools is a collection of C programs and libraries: two fork-per-connection
servers (`samples/ctproxy`, `samples/server_epoll`), a single-instance daemon
(`samples/daemon.c`), and `c/libgs`, a library of small data structures and
wrappers. This directory holds specifications of the parts that carry the
repository's own logic, the TLC configurations that check them, and TLAPS proofs
of the most important results. Paths below are relative to the repository; line
numbers are those `PROJECT.json` lists under `map`.

## 1. Inventory

| Component | State | Operations | Interacts with | What is hard |
|---|---|---|---|---|
| ctproxy master, `samples/ctproxy/ctserver.c` | `clients_t`, descriptor table, edge-triggered epoll set, batch of events, SIGCHLD mask and pending bit, `epoll_num_running` | event loop: error, child output, hang-up, accept (full / no child / child); `sigchld_exit` | clients through the listen queues; children through fork, two pipes, exit, SIGCHLD | numbers of closed descriptors are kept and closed again; several events per `epoll_wait`; each of accept, pipe, fork, exec, epoll_ctl may fail; edges and signals merge |
| ctproxy child, `ctchild.c`, `ctio.c` | back server descriptor, buffer, progress of `safe_write` | connect, select, read, write in parts, timeout | client, back server, pipe to the master | partial writes, half-close, a peer that does not read, a function that ends without `return` |
| server_epoll master, `samples/server_epoll/server.c` | as the ctproxy master | as above, but reads a child's output to the end of the pipe and accepts on one socket | as above | output, further output and hang-up against one edge |
| server_epoll child, `child.c` | epoll set, `client_state`, buffer, `nw_tmp` | set-up, command, read loops, write loops | client, back server, master | edges that arrive during a handler, partial writes, a full socket, death of the master |
| Start and end of both servers | pid file, signal handlers, the descriptor table up to a child's exec | configuration, `create_pid_file`, `become_daemon`, set-up, `fd_copy`, `fd_move`, `server_exit` | `stop.sh`, which kills the process the file names | O_EXCL file after a crash; a handler interrupted by another signal; moves of descriptors whose source is the target of another |
| Daemon, `samples/daemon.c` | pid file, its name, its record lock | `daemon_init`, `alread_running`, `sig_term` | `samples/service.sh` | unlink of the name against the lock of the file |
| Dictionary, `c/libgs/dictionary/dictionary.c` (three identical copies under `confparser`) | parallel arrays `key`, `val`, `hash`, counter `n` | new, del, get, set, unset, dump | ini parser, configuration of all programs | `n` decides about growth and about searching; allocations fail one by one |
| Hash table, `c/libgs/hashmap/hashmap.c` | buckets, entries with `next`/`prev`, 16-bit `used` | create, insert, find, locate, delete, free, walk, list | its callers | growth relinks the entries and leaves `prev` as it was |
| Ini parser, `confparser/iniparser.c`, `confparser.c` | a dictionary, current section, line buffer | load from file and memory, get, set, unset, dump, `load_conf` | dictionary | continuation lines, overlong lines, errors that are overwritten |
| Memory file, `libmfile/mfile.c` | queue of blocks, write and read position, `is_full`, `is_empty`, `ccache` | open, write to both ends, read by length, character and line, seek, write to a file, copy, close | – | the kinds of read share flags and positions with the writes |
| Growing strings, `libstralloc/stralloc.c` | buffer, length, capacity, static pool | ready, copy, cat, free | malloc | sizes that wrap, appending a string to itself, memory that runs out |
| base64, `base64.c` | decoder context | encode, decode in pieces, `clear_garbage` | – | a group of four cut by a piece's end; room computed from the piece alone |
| UTF-8, `utf8str.c` | – | check, length, copy, trim | – | truncated and malformed characters at a limit |
| MySQL, memcache and curl wrappers, `ctapi_*` | handle and connection; result strings | connect, query and result with retry; set, get, delete; post, free | external libraries and servers | lost connections and replies, late effects, transfers that break off, options that stay set |
| Timed reads and writes, `server_epoll/utils.c`, `iorw_timeout.c`, `ctproxy/ctio.c` | descriptor flags, `last_read_time` | `write_fd_timeout`, `read_fd_timeout`, `safe_read`, `read_line` | the other end | partial writes, signals, failures in the middle of a line |
| Echo server, `epoll_echoman.c` | epoll set, the one `struct epoll_event` | error, accept, read, answer | clients | edges; one struct for all registrations |
| Digests, `ctcrypt/ctcrypt.c` | the caller's buffer | `ct_md5`, `ct_sha1`, `ct_hash_hmac` | OpenSSL | the remaining size is a `size_t` and may wrap; a digest longer than `hash_ret` |
| `cthash`, `ctlog`, PHP and shell scripts, build files | – | pure functions, external calls, output | – | – |

The properties that make the components correct:

* **masters** – a living session is never cut by the clean-up of another; no
  event is applied to a descriptor that was recycled; no error path loses a
  descriptor or hands one entry to two children; entries and zombies are
  released in the end;
* **relays** – what one side receives is a prefix of what the other sent, all of
  it if the sender closed, and the session ends;
* **pid files** – at most one process runs and the file names it;
* **dictionary, hash table** – every call answers as the same call on a map,
  whatever the order of calls, the growth and the collisions, and memory is never
  accessed outside the arrays or after it was freed;
* **other libraries** – what was put in comes out, however it was cut into calls;
  buffers are never overrun; a return value claims no more than what happened.

The hazards behind these properties, each at its line, are listed in
`PROJECT.json`.

## 2. Plan

Order of work, the most important behaviour first; all items are done.

1. `CtServer` with the abstract `SessionPool`, and its proofs.
2. `CtChild`, the relay of ctproxy.
3. `Dictionary` with the abstract `MapStore`, and its proofs; `Hashmap`.
4. `ServerEpoll`, which reuses the table, the descriptors and the children of
   `CtServer`.
5. `Daemon`, `ServerLife` and their proofs.
6. `EpollChild`, the relay of server_epoll (`child.c`).
7. `TimedIo`, `EchoMan`, the libraries (`Mfile`, `Stralloc`, `IniParser`, `Base64`,
   `Utf8str`, `Ctcrypt`), the wrappers (`MysqlConn`, `Memcache`, `CurlPost`, with the external
   library as the environment), and `ChildSetup`, the descriptors between fork
   and exec.
8. Proofs: the invariants of `CtServer` for `ServerSpec`; order and completeness of
   both relays; the wrappers and the timed I/O; the descriptors of the children; the growing
   strings.
9. Proofs about what goes step by step through a structure: the buckets, counter and answers of
   `Hashmap`, the text that `Ctcrypt` prints, the edges and answers of `EchoMan`.

Left to TLC for good are the properties listed at the end of section 5.

| Module | Role |
|---|---|
| `CtServer` | ctproxy master |
| `SessionPool` | abstract pool of sessions that `CtServer` implements |
| `CtServerProofs` | inductive invariant, safety theorems, refinement |
| `ServerEpoll`, `ServerEpollProofs` | server_epoll master (EXTENDS `CtServer`), the same theorems for it |
| `CtChild`, `CtChildProofs` | ctproxy relay, order and completeness |
| `EpollChild`, `EpollChildProofs` | server_epoll relay, order and completeness |
| `Dictionary`, `MapStore`, `DictionaryProofs` | dictionary, abstract map, proofs |
| `Hashmap` | hash table |
| `Daemon`, `ServerLife` | pid files of the daemon and the servers |
| `ChildSetup` | descriptors of master and child between fork and exec |
| `LifecycleProofs` | proofs about these three |
| `Mfile`, `Base64`, `Utf8str`, `Stralloc`, `IniParser`, `Ctcrypt` | the libraries of the same names |
| `MysqlConn`, `Memcache`, `CurlPost` | `ctapi_mysql`, `ctapi_mc`, `ctapi_curl` |
| `TimedIo` | reads and writes with a timeout |
| `EchoMan` | echo server |
| `ServicesProofs` | proofs about the three wrappers, `TimedIo` and `EchoMan` |
| `LibraryProofs` | proofs about `Stralloc`, `Ctcrypt` and `Hashmap` |
| `MC_Lifecycle` | composes `Daemon`, `ServerLife` and `ChildSetup` |
| `MC_Libraries` | composes `Hashmap` and the six library modules |
| `MC_Services` | composes the wrappers, `TimedIo` and `EchoMan` |
| `MC_CtServer`, `MC_ServerEpoll`, `MC_CtChild`, `MC_EpollChild`, `MC_Dictionary`, `MC_Hashmap` | instances for TLC |

The parts of `MC_Lifecycle`, `MC_Libraries` and `MC_Services` share no state in the
code either: `part` selects the one a behaviour is about, and the others stay in
their first state. `ChildSetup` is kept apart from `CtServer` because the latter
takes the result of the fork for granted: a child has its three descriptors and no others.


## 3. The models and the code

**CtServer.** `fds` is the master's descriptor table: numbers are allocated
lowest first, as POSIX prescribes, and a number denotes a permanent descriptor
(below `FirstFd`), the read end of the pipe from child *k* or the write end of
the pipe to it. `clients` is `clients_t` without its texts. `watch` is the epoll
registration of a number (`"no"`, `"idle"`, or `"ready"` when an edge has not
been reported), `batch` the events of the last `epoll_wait` that are not handled
yet. Handling one event is one step: the process has one thread, and the only
handler that returns, `sigchld_exit`, is blocked between `sig_childblock` and
`sig_childunblock`; the `EPOLLERR` branch, which skips the latter, leaves
`blocked` TRUE. Each branch of the loop is an action: `HandleErr` (781–786),
`HandleChildData` (862–877), `HandleHup` (879–898), `AcceptFull` (822–828),
`AcceptNoChild` (pipe or fork fails) and `AcceptChild`; `sigchld_exit` collects
the zombies in any order and stops at the first crashed one. A child closes its
descriptors (`ChildEnd`) before it becomes a zombie and SIGCHLD is sent
(`ChildZombie`). Accepting goes on with `connfd = -1` after a failed accept, as in
the code; the child then dies in `fd_move`.

**ServerEpoll** has the same table and children. Its loop reads a child's pipe
until EAGAIN (`ReadAll`) or to its end (`ReadToEnd`, which releases the entry),
and does nothing after a failed accept (`ServerNoAccept`).

**CtChild.** One action per system call of `main`, `trans_data` and `safe_write`;
between two of them the peers send, receive, half-close or leave. The *i*-th byte
a peer sends is the number *i*, so order, gaps and repetitions are visible.
`back_fd` may be `"pipe"`: a name that cannot be resolved yields descriptor 1.
`FallsOff` stands for the value of `safe_write` when it ends without `return`.

**EpollChild.** Also one action per system call. `edge` is the ready list of
the child's edge-triggered epoll set, `batch` the events not yet looked at; an
event leads to reads until EAGAIN, each followed by its write loop. What the client
sends first is its command: it is not passed on (`skipped`), it makes the child
connect to the back server (`Connect`, `Register`). A write that finds the
destination full is repeated: unchanged to the back server, but to the client with
`nw_tmp` larger by one, because the code subtracts the -1 that `write` returned
(`Retry`; `over` counts these writes). Bytes in front of the buffer are 0.

**Dictionary.** Strings are members of `Key` and `Val`, the hash is a parameter,
so collisions happen. Every allocation of `dictionary_set` may fail on its own.
After a failed doubling the old arrays are freed and the structure is unusable
(`state = "lost"`); the model ends there. The abstract `MapStore` also records the
last call and its answer, so the refinement covers what the calls return.
`PutShort` is the map's version of an insertion whose string copies failed: the
code reports success.

**Hashmap.** Entries are numbered cells with `next` and `prev`; freeing one makes
it unreadable. `stack` is a ghost with the values stored under each key. An insertion into a
full table takes several steps: `hashmap_insert` allocates the larger array, `hashmap_grow` links one
entry of the old buckets (`grow.left`) after the other, `InsertGrown` adds the new entry; no other operation
runs in between. Operations are defined only while no freed cell is reachable (`Defined`), and
`Chained` says that this is always so.

**Daemon.** Files are numbered: `name` is the file PID_FILE stands for, `fd` the
file each instance has open, `lock` the owner of each file's record lock. `raced`
is a ghost set when SIGTERM unlinks a file another instance has open. The write
of the process number, whose result the code does not test (daemon.c:104), writes all of it, a part
(`Cut`) or nothing, and the instance runs in each case; the ghost `unwritten` names those whose number
was not written whole.

**ServerLife.** `pidfile` is the file's content. The file must be new
(`create_pid_file`); most failures of the set-up go through `server_exit`, a failed
`listen` exits directly (ctserver.c:698–701). server.c has the same functions at
389–461. An empty pid file name in the configuration, for which no file is
created, is not modelled.

**ChildSetup.** `mtab` is the master's table from the start on, with any of 0, 1 and
2 closed; `become_daemon` replaces them by `/dev/null` one by one, sockets and the
epoll descriptor take the lowest numbers, and are not opened if none is free. `create_child_and_exec` is the whole
function: the child's closes and three moves act on a copy of the table
(`ChildTable`), exec closes what is marked, and the child ends if a move fails. `fd_copy` uses
F_DUPFD, which gives the lowest free number from `to` on: it is `to` only because
`to` was closed before.

**Mfile.** A pointer to a block is its place in the queue. `mlog` is history: the
contents, what was read since the last seek, and `odd`, the first of the situations
the reader does not survive (section 4). Every call is one step: the library has no
concurrency. Memory may run out at each block, also at those of the copy that `mfile_copy` makes
(`mem` is how many pieces the copy finds memory for, `mlog.lack` that one found none).

**Base64, Utf8str.** Functions of their arguments, enumerated by appending
characters; the decoder keeps its context from piece to piece. The references
(`Meaning`, `Grouped`, `Cut`, `KeptOf`) are written from the definitions of base64 and UTF-8, not
from the code. SizeBits is the width of `size_t`.

**Stralloc.** Addresses below `SPACE` are the static pool, which is never taken
back, malloc's blocks lie above. Sizes are computed modulo `2^UintBits`.
`dangling` records that freed memory was read, `overrun` that a block was overrun.

**IniParser.** Here the text is the data, so strings are sequences of characters. The
file grows line by line; after each line it is loaded again by the loop of `iniparser_load`
(`LoadStep`: fgets, joining, `iniparser_line`, `dictionary_set`) and compared with what the
lines of `IniLines` are declared to mean. `below` is the byte in front of the line
buffer, which the code reads for a blank line; the
dictionary that is being made is a record `D`: its slots, `n`, its size, the allocations `made` so far,
the numbers of those that find no memory (`lacks`), and the arrays that are null pointers (`lost`). A key or
value that `xstrdup` cannot copy is stored as a null pointer and `dictionary_set` returns 0; a doubling that fails returns
-1, and what reads the arrays afterwards ends in `Crash`. A dictionary that was loaded is the sequence of its slots,
holes included, or one of `NoDict`, `Crash` and `Broken` (made with an array missing that was not needed yet).

**Ctcrypt.** OpenSSL answers with any digest or fails. `Prints` is one turn of the printing loop,
and `snprintf` writes into what is left of the buffer, with the difference of sizes modulo
`2 ^ CryptBits`; `out` is a function on the addresses written, those behind the buffer included. The
functions keep nothing between calls, so a behaviour has one call.

**MysqlConn, Memcache, CurlPost.** The handle, the results and the control of the
wrappers are modelled line by line; the library answers with any of the values the code
tells apart. A statement or request may be executed although its answer is lost,
and by memcached even later. Rounds of a retry are separate steps. libcurl keeps the address of a POST's
data, not the data, and reads the body of a POST that has none from the standard input (`Bodies`).

**TimedIo.** One step per round of each loop; select runs out, is interrupted or fails,
writes are cut short, and the peer may send an urgent byte, which `safe_read` selects on
(`e_fds`) and never takes: its select then returns at once, the time is not looked at, and the loop goes round
(`LineUrgent`). `read_fd_timeout` is its call, its select and its read. `write_nb_timeout` differs from `write_fd_timeout` in what it
does after 0 characters and errors; both are in the model. The clock of `safe_read` is
explicit, because `last_read_time` is older than the call.

**EchoMan.** One step per event of a batch, and one per accept: an event of the listening socket
leads to accepts (`OnAccept`) until one does not succeed (`OnAcceptEnd`). `event.data.fd` is `em.evfd`: EPOLL_CTL_MOD stores
whatever descriptor was accepted last. A reset leaves an error on the connection: the first write
after it fails and takes the error away (`"dead"`), which the server does not notice (epoll_echoman.c:177), and only a write
to a dead connection ends the process by SIGPIPE; a connection is dead at once if its client resets it after its
end was reported. Calls whose failure aborts the
program (`perror`, `abort`) are taken to succeed.

## 4. Runs

| Run | Question | Bounds |
|---|---|---|
| `ctserver_safety` | sessions are kept apart, events are fresh, stale numbers are harmless, the count is right, the pool is implemented | 2 entries, 3 connections, 2 listening sockets, 7 free numbers, 1 socket error; fork, exec, epoll_ctl fail; children write and crash |
| `ctserver_live` | no descriptor is lost at the limit; entries are released; zombies are collected | 2 entries, 3 connections, 6 free numbers, so that the second session's pipe() fails; accept and exec fail |
| `ctserver_backlog` (violated) | every connection is taken out of the queue | 2 connections |
| `server_epoll` | the same safety for server.c; every entry is released and all output read | as above, 7 free numbers, 1 socket error |
| `ctchild` | order, completeness and end of a session | 3 bytes in each direction, a buffer of 2, sockets that hold 1 byte; every call may fail |
| `epoll_child` | order and completeness, no lost edge, end of the process | 3 bytes in each direction, a buffer of 2, sockets that hold 1 byte, 1 write to a full client; every call may fail, the master may die |
| `dictionary` | arrays, keys, count, map | 3 keys, two with one hash, slots from 1 to 4, every allocation may fail |
| `hashmap_stale_prev` (violated) | buckets, with deletions after growth | 4 keys, sizes 3 and 5, 4 entries |
| `lifecycle` | pid files of daemon and servers; the children's descriptors | 4 instances, 3 files; 3 servers; 2 listening sockets, 3 sessions, 17 numbers |
| `daemon_two` (violated) | only one instance runs | the same |
| `libraries` | each library gives back what was put into it | hash table as above, deletions until it grows; 3 characters in blocks of 2; 4 bytes encoded, 7 characters decoded in pieces of up to 4; strings of 5 bytes of 7 kinds; 2 growing strings, 5 calls, 6-bit sizes; ini files of 3 out of 15 kinds of lines, a dictionary of 1 slot, 8 sets of failing allocations, 2 changes; digests of up to 4 bytes, buffers of 0 to 9 characters, `hash_ret` of 3 |
| `services` | wrappers, timed I/O and the echo server against an outside that fails | 2 statements, 4 connections; 2 keys, 5 values; 2 requests, answers of 5 bytes, buffers of 3; 2 calls of 3 characters, a read buffer of 2, an urgent byte at any time, timeout 1, clock 3; 2 clients with 2 messages |

The properties of a library are checked as one conjunction of named parts, each stated with
its comment in the module:

| Property | Parts |
|---|---|
| `TableSound` | `TypeOK`, `Chained`, `PrevIsPredecessor`, `UsedCount`, `FindsStored` |
| `MfileFaithful` | `MfileStored`, `ReadsContent`, `NoJunk`, `CopiesRange` |
| `Base64Correct` | `PiecesDecode`, `EncodeDecodes`, `OverflowFound`, `GarbageCleared` |
| `Utf8Correct` | `CopyWhole`, `StrlenCounts`, `LtrimSpaces` |
| `StringsSafe` | `StrallocHolds`, `StrallocFits`, `HeapOwned` |
| `IniCorrect` | `LoadMeans`, `MemAgrees`, `DumpLoads`, `ConfRead`, `AnswersAgree` |
| `RetryIsSound` | `OneConnection`, `AnsweredOnce`, `RowsOfQuery` |
| `McHonest` | `McKnown`, `McAnswers` |
| `CurlHonest` | `CurlText`, `CurlOwned`, `CurlAnswer`, `SentAsAsked` |
| `TimedIoCorrect` | `WriteExact`, `BlockingAgain`, `ReadTrue`, `LineTrue`, `WaitsBound` |
| `EchoCorrect` | `EchoOwn`, `EdgesKept`, `StaysConnected` |

Why the bounds are enough. Two entries and three connections let one entry be
used twice while the other one serves a session, and the pool be full; that is
what recycling of descriptors and entries needs. Six or seven free numbers
are just short of, or just enough for, a third set of pipes. With three bytes
and a buffer of two every copy splits and a split copy is followed by another.
Three keys with two equal hashes and one slot at the start give two
doublings, a collision and a freed slot in front of a colliding key. Sizes 3 and 5
give two growths, counting the first allocation, and four entries fill a bucket. A
second unlink of a daemon's file needs three instances and three files. Blocks of two with
three characters give a full block, a partly filled one and one in front; pieces of up to
four characters cut a base64 group everywhere. Sizes of six bits make requests of 50 and 63
bytes wrap in the addition of the slack and in the rounding. A dictionary of one slot doubles at the second
and the third entry of a file, and the sets of failing allocations hit its first arrays, a key, a value, and the arrays and strings
around each doubling. Two statements are what a stale
result needs, two requests what a stale option, two clients what a shared event. `MaxConns`, `MaxErrs`, `MaxBytes`, `MaxOver`,
`MaxSize`, `MaxEntries`, `MaxFiles`, `MaxListeners`, `MaxSessions`, `MfileBytes`, `MfileBlocks`, `MaxPlain`, `MaxText`,
`MaxPiece`, `MaxOctets`, `StrCalls`, `MaxLines`, `MaxEdits`, `MyConns`, `MyQueries`, `CurlCalls`, `CurlBytes`, `IoLen`,
`IoCalls`, `IoClock` and `EchoSends` bound only the environment or the memory;
`MaxConns` does not block the master, since it forks at most once per connection.

`CHECK_DEADLOCK FALSE` is set everywhere because clients may stop connecting,
callers may stop calling and processes end.

**Fairness.** `Fairness` of `CtServer` and `ServerFairness`: the master is
scheduled, so an enabled `epoll_wait`, handler or signal delivery is taken in the
end; the kernel finishes a process that has begun to terminate or has no program
to run. Clients and running children owe nothing. `CtChild`: the child is
scheduled and time passes (its timeout is a step of the child); the peers owe
nothing, not even to read. `EpollChild`: the child is scheduled; its write loops have
no timeout, so `NoLostEdge` and `RelayEnds` name the condition that the destinations
read (`PeersRead`) in the properties themselves.

**Limits of the properties.** The statements are as strong as the code allows:

* `SlotsReleased` excludes children that left output in the pipe: the ctproxy
  master takes the EPOLLIN branch for an event with EPOLLIN and EPOLLHUP, reads
  nothing, and never sees another edge (ctserver.c:879). `AllReleased` has no such
  exception for server.c, which reads to the end.
* `AllReaped` is about behaviours without crashes: `sigchld_exit` returns at the
  first crashed child (ctserver.c:77), and others may stay zombies.
* A failed pipe or fork leaves the entry marked used for good (ctserver.c:852,
  server.c:738–744): the place is `Lost` in `SessionPool`.
* `FindsStored` and `PrevIsPredecessor` promise less once the table has grown:
  growth reverses a bucket, so of two equal keys the older may be found.
* The 16-bit `used` is modelled modulo `UsedMod`; the run stays below it. From
  65536 entries on the count is wrong (hashmap.c:77) and `hashmap_list` too short.
* `dictionary_set(d, key, NULL)` stores the key; the comment at dictionary.c:219–222
  says it deletes it.
* `hashmap_find` and `hashmap_delete` on a table without insertions take a
  remainder by 0 (hashmap.c:197); the operations of the model require a size.
  When the bucket array cannot be allocated during growth the entries are lost
  (hashmap.c:85), which is not modelled.
* `RelayInOrder`, `NoLostEdge` and `RelayEnds` except a client whose socket was full:
  the child of server_epoll then repeats bytes and sends what lies in front of its
  buffer (child.c:409).
* A client that shuts down its sending side ends the ctproxy session before the
  answer is passed on (ctchild.c:354): `AllPassedOn` is about the closing side.
* The daemon's pid file is opened without O_TRUNC: `PidFileNamesInstance` is about
  what the file begins with; digits of a longer old number may follow. It excepts an instance whose
  number was not written whole (daemon.c:104); what the file then begins with is a part of a number, nothing, or the number
  of an instance that is gone, never that of another one that is up.
* server.c passes an uninitialised length to accept (server.c:695); a failure
  that results is one of the outcomes of accept in the model.
* Linux does not report EPOLLERR for listening TCP sockets or for the read end
  of a pipe; the branch is modelled and checked with one such event. Two
  listening sockets, an error on one and a failed accept on the other together
  would make `StaleFdHarmless` false, because closing a listening socket frees a
  number below `FirstFd`. The theorems about ctproxy assume that there are no such errors or
  only one listening socket (`ErrorsHarmless`); server_epoll has one, and its theorems
  assume nothing.
* `ReadsContent`, `NoJunk`, `CopiesRange`: after a seek to the end of a block, a write to the block
  the reader has finished, a CR without LF, or a line longer than its buffer, `mfile.c` loses or
  invents characters; the model reaches each of these.
* `CopiesRange`: `mfile_copy` ignores the -1 of `mwrite` (mfile.c:504) and returns `end - start` (mfile.c:511) also when
  memory ran out. The property says that characters are missing in the copy then and only then, so the answer alone does
  not tell.
* `PiecesDecode` excepts a piece that completes a group begun before it: `needlen` (base64.c:593)
  has no room for its third byte, which is dropped.
* `StrallocFits` excepts sizes that wrap (stralloc.c:83, "XXX: could overflow"), `HeapOwned` a
  string appended to itself, whose text is read after it was freed.
* `LoadMeans` states that an error is forgotten when a later line is read well (iniparser.c:602), and
  assumes that the byte in front of the line buffer is not a backslash. "Returns non-zero in case of failure"
  (dictionary.c:224) is not so: a string that cannot be copied loses an entry, or its value, and 0 is returned (dictionary.c:246,
  277–281); the property bounds what is lost by the number of failed allocations. After a failed doubling
  `dictionary_del` (154–158) reads arrays that are gone. `MemAgrees` excepts
  continuation lines, which the loader for memory does not join.
* `DigestText` excepts buffers that lack two characters of the text or more, behind which the code
  writes (ctcrypt.c:51, 94, 180), digests longer than `hash_ret` (ctcrypt.c:121), algorithms that are not
  listed, and the NULL algorithm, for which not even a NUL is written.
* `AnsweredOnce`: a query whose connection is lost without retry, or twice, returns 0, and one
  whose reply is lost is executed twice.
* `McAnswers`: `delete_mc` returns 1 when it cannot connect; ctapi_mc.c:162 says "1:key not found
  2:fail". A value of 128 characters or more does not fit the `char` that counts it.
* `CurlAnswer`: a transfer that breaks off returns the length of what was taken, and 0 only if that is nothing;
  ctapi_curl.c:128 promises 0 for an error. A transfer that ends well returns 0 if the server gave nothing. So neither 0 nor another
  number tells which it was; the property says what the number is. `SentAsAsked`: after a POST the handle sends
  every request as one; a POST without data sends what is on the standard input, because line 155
  sets no POSTFIELDS, or what is at the address of the data of an earlier POST.
* `WaitsBound` excepts an urgent byte that waits: `safe_read` then loops without looking at the time (ctio.c:35–58)
  and never gives up. Without one it gives up within twice the timeout.
* `LineTrue`: `read_line` goes on after -1 and -2 with what was in the buffer; ctio.c:156 says
  "0 for I/O error". In a buffer the caller had not cleared, the character at that place becomes part of the line;
  the property admits that character and no other. `BlockingAgain`: after a write of 0 characters `write_fd_timeout` leaves the
  descriptor non-blocking.
* `EchoOwn` and `StaysConnected` hold until two connections are open at once; from then on the
  shared event sends answers to the wrong client (epoll_echoman.c:172). A client that reset its connection
  may lose an answer the server counts as given (epoll_echoman.c:177–179): of it, `EchoOwn` says only that it is answered no
  more often than read. `EdgesKept` is, with any number of connections open, about the listening socket and the connection
  accepted last; it excepts clients left in the queue by an accept that failed, and, once two were open, the older connections.

**Findings** (runs expected to be violated): connections that arrive together
wait in the queue (`ctserver_backlog`); deletion after growth leaves a bucket
pointing to freed memory (`hashmap_stale_prev`); two daemons run after SIGTERM
reached one that was only starting (`daemon_two`).

## 5. Proofs

All theorems hold for every value of the constants that satisfies the named assumptions, which
say that bounds and sizes are numbers, buffers are not empty, and texts are finite sequences:
`LimitsAssumption`, `ListenersAssumption`, `FaultsAssumption`, `OneListener` (server.c binds one address),
`BuffersAssumption`, `RelayAssumption`, `StringsAssumption`, `HashAssumption`, `SizesAssumption`,
`DaemonAssumption` (no instance's number is the same as none or a part of one), `ServerAssumption`, `ChildSetupAssumption` (numbers 0 to 2 exist),
`MyAssumption`, `McAssumption`, `CurlAssumption`, `IoAssumption`, `StrallocAssumption`,
`CryptAssumption` (lengths, and twice the length of a digest, fit a `size_t`), `EchoAssumption`, `TableAssumption`
(no size in the list of primes is 0). Where a model
computes modulo a power of two, the assumption names the power
(`UintMod`, `CharHalf`, `SizeMod`) as a number greater than 0. `ErrorsHarmless` is a
hypothesis of theorems, not an assumption, and so are the two of `TablesSound`: callers do not
delete after the table has grown (`~ LateDeletes`; with such deletions the property is false, as
`hashmap_stale_prev` shows) and fewer entries exist than `used` can count (`MaxEntries < UsedMod`; beyond,
the count wraps).

**CtServerProofs** (with `ErrorsHarmless`, except for `TypeCorrect`). The
properties are not inductive: that a clean-up cannot hurt depends on which
numbers the entries keep. The invariant `IInv` consists of `Gap` (numbers below
`FirstFd` are the permanent descriptors and `FirstFd` itself is free between two
events), `Entries` (what an entry holds by its state, in particular
`fd \in {-1, FirstFd}`), `OneEntryPerChild`, `Owned` (every open pipe end belongs
to an entry), `Children`, `Watches` and `Events` (events are about different
descriptors, which are still those they were reported for). `Gap` is the heart:
the first descriptor a handler creates is `connfd` or, after a failed accept,
`pfd1[0]`; it gets number `FirstFd` and is closed by the same handler. So
the stale numbers in `clients_t` are all `FirstFd`, and that is never open. From it follow
`SessionsSafe`, `EventsAreFresh`, `StaleFdsHarmless`, `NoLeak`, `RunningCounted`
(by the cardinality of the set of entries with a child) and `PoolImplemented`
(every step of the master is a step of the pool or a stutter).

**DictionaryProofs.** `IInv` adds to the type that stored hashes are those of
the keys, that keys are unique, and `Counted`: `n` is at least the number of slots
in use. It gives `SlotAlwaysFound` (the loop of `dictionary_set` stops inside the
arrays), `KeysAreUnique`, `DumpIsComplete` and `MapImplemented`: every call, with
or without allocation failures, is a step of `MapStore`.

**ServerEpollProofs.** The same `IInv` is an invariant of `ServerSpec`. With one listening socket an
EPOLLERR needs no hypothesis: closing the socket frees a number below `FirstFd`, but
no descriptor is created after it. Hang-ups and accepts are steps of `CtServer`
(`SharedSteps`) and reuse its lemmas; `ReadAll`, `ReadToEnd`, `ServerNoAccept` and `server_epoll_wait` are
server.c's own. The end of a pipe is read only after its child
terminated (`EndReleases`), so the entry that is released belongs to no living child.

**CtChildProofs.** `InOrder` and `AllPassedOn` need an account of every byte: what was written to a
destination and what `safe_write` still holds is what was read from the other side. The
buffer is shared by both directions, so the invariant says which one is in it (`Direction`), that
the other is complete (`PassedOn`), and that a side which select reported stays readable
until it is read (`Reported`); a read of 0 bytes is then the end of that side, with all it
sent passed on (`Ended`).

**EpollChildProofs.** The same account, with the command in front: before `trans` everything read is
`skipped` (`Command`), afterwards `out`, `skipped` and the rest of the buffer (`Remaining`) add up to
what was read (`ToBack`, `ToClient`). The direction to the client is exempt once `stalled`: from the first
write to a full client on `nw_tmp` is not the number of bytes left, and the direction to
the back server is proved to be unharmed by it.

**LifecycleProofs.** For the daemon, an instance that is up has open the file
PID_FILE names as long as no unlink raced (`SameFile`), and whoever runs holds the
lock of its file (`HoldsLock`); two that run would hold one lock. `PidFileNamesInstance` follows from two more facts:
the number of one that runs begins its file if it was written whole (`WroteFirst`), and a number in any file is that
of the holder of the file's lock or of an instance that is gone (`OwnNumber`). For the servers,
`PidFileNamesServer` is inductive with the fact that a server which has unlinked
owns no file. For `ChildSetup`, `SetupInv` finds the counterpart of `Gap` in a table that begins
with any of 0, 1 and 2 closed: once the master serves there is a number `f`, at least 2, below which
everything is permanent and which is free between two handlers (`Floor`). The
connection gets `f`, or the first pipe end does, and the four pipe ends get numbers in ascending
order above; so no target of a move is the source of a later one, and the stale
numbers of cleaned entries close nothing. All ends the master has are marked for exec (`Marked`), so no
child inherits another's. A `HasFree` of five means that all five numbers exist; this and the lowest
free number rest on a least-number argument (`LeastNat`).

**ServicesProofs.** For MySQL (`MysqlInv`): the handle's object is among those made, and only an open one
is connected (`LastMade`); a call that runs has made a second round exactly if it has connected again
(`Rounds`); every execution of a statement that is still being tried had its reply lost, and with it
the connection, hence at most one execution for each round (`Executions`); rows that wait are those of the
last statement if it was executed (`Waiting`). For memcache (`McInv`) the property is inductive
with its types; the work is in `SentWhole`, the length that passes through a `char`. For curl
(`CurlInv`): a transfer that runs is not answered (`NotAnswered`), and options that a handle keeps
were set by a POST (`OptionsOfPost`), so that a handle without them has no data, and a first POST without data sends
the standard input. For `TimedIo` (`IoInv`): `Between` says what a call leaves behind,
`Written` that a write's count is what the other end got, `LineSoFar` that `read_line` has stored what it
read without the returns, `FromBuffer` that the rest of its buffer is still the caller's, which is why a
failure can let only the character of that place into the line, and `Clock` that a wait without an urgent byte was not
longer than the timeout.

For the echo server (`EchoInv`): no client waits twice, and one that waits has no descriptor and was
not read from (`InLine`); no connection is registered with the number of the listening socket, whatever `event`
holds (`OwnNumber`); and until two connections have been open at once, `event` holds the only open descriptor (`Alone`), and an
event still to be handled is the only one of its descriptor and agrees with the registration
(`Fresh`). With these `EchoOwn` and `StaysConnected` are inductive. `EdgesKept` has to hold whatever the older connections'
events do to the registrations: the connection accepted last is registered with its own number, and what it
waits for is on the ready list or in the batch, as an event that the handler will not take for another kind
(`Latest`); a client in the queue wakes the listening socket (`Listening`). Since an only connection is the latest one, the
property follows from these (`EdgesFrom`).

**LibraryProofs.** For the growing strings `StrallocInv` adds to the properties that a pointer leads to a block (`Held`), that a
block of malloc is some string's (`NoLeak`), and that what is left of the pool lies below
every block in use (`PoolBelow`), which is what keeps blocks of the pool apart although they are never
given back. Growing keeps the old text because the new size exceeds the capacity asked for
(`RoundedIs`) unless something wraps, and appending reads freed memory only if both
strings have one block, hence are one string. Malloc always has a free address, because there are
more addresses than strings (`MallocFindsRoom`).

For the digests (`CryptInv`): `pout_len` counts one digit for each turn of `ct_md5` and `ct_sha1` and two for
each of `ct_hash_hmac` (`Printing`), and the buffer holds that many digits and a NUL, or as many as fit;
behind it something is written only once two digits did not fit (`Printed`).

For the hash table, the loops follow pointers, so the invariant `HashInv` names what they will meet: for every bucket a
sequence of distinct cells linked by `next` (`Chains`), over the cells `L` that are in the table,
and during a growth the same for the old buckets over the rest of `live`; `used` is the number of
`L`; and every entry has a `rank` that makes it one of the values of `stack` (`Ranked`). Until the table grows
the `prev` pointers run backwards through the sequences (`Prevs`) and equal keys come in the order of their
ranks (`InOrder`), which is why `hashmap_find` answers the last value and `hashmap_delete` takes out the entry
it found. Growth takes the first cell from an old sequence and puts it in front of a new one
(`FirstTaken`, `Pushed`), which keeps `Chains` and loses `Prevs`. The lemma `Visits` says that the recursive
walk `Visit` meets exactly the cells of the sequence; it is the only place where recursion is unfolded, by a least
counterexample.

**Only model-checked:**

* the liveness properties (`SlotsReleased`, `AllReaped`, `SessionEnds`, `AllReleased`, `OutputRead`,
  `NoLostEdge`, `RelayEnds`): fairness and ENABLED are outside what TLAPS proves here;
* `MfileFaithful`, `Base64Correct`, `Utf8Correct`, `IniCorrect`: the modules' recursive operators keep the SMT
  backend from being used, and what these compute for every input would need induction over data.

## 6. Not modelled

* `create_and_bind` and `exit_child_with_sockfd` of ctserver.c: no caller.
* Signals between fork and exec: the child still has the master's handlers, and a signal to the
  process group in that window makes it unlink the master's pid file. The descriptor that syslog
  opens, and that children inherit the other listening sockets and the epoll
  descriptor, which keeps a port bound after the master dies.
* Reuse of process numbers by the kernel.
* `stralloc_starts`,
  `_mysql_real_escape_string`, `create_unique_id`, `conv_ip_to_hex_str_family`: they convert, compare or
  print and keep no state. The copies of the ini parser under `samples/` differ in a `snprintf` only;
  the modules map the one under `c/libgs`.
* Which values a configuration holds; texts (session ids, addresses, log lines).
* The size of the buffer given to `utf8_strncpy`: its caller in utf8str.c:124 reserves three bytes
  per character, where a character may have more.
* The HMAC context that `ct_hash_hmac` does not clean up when it fails.
* `cthash` (pure arithmetic without a reference to compare with), `ctlog` (output), PHP and shell scripts, generated build files, the vendored
  `queue.h`.

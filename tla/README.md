# ubervisor in TLA+

ubervisor is a process supervisor: a server (`ubervisor server`, `src/cmd_server.c`)
starts groups of processes, restarts what dies, gives a group up when it fails
too often, and obeys commands that clients send over a UNIX socket. This
directory holds a model of it in TLA+, the TLC configurations that check the
model, and proofs for TLAPS. References like `cmd_server.c:783` are to `src/`.

    tlc -workers 2 -config sup_safety.cfg MCSupervisor      # a run
    tlapm ChildConfigProofs.tla                             # the proofs
    tlapm SupervisorProofs.tla; tlapm GroupProofs.tla; tlapm ErrorWindowProofs.tla
    tlapm FramingProofs.tla
    tlapm SeqFilterProofs.tla; tlapm SessionProofs.tla
    tlapm LifecycleProofs.tla

## 1. The system

| component | state | operations | source |
|---|---|---|---|
| supervision core | `child_config_hash`, `process_hash`, `cc_childs[]` of a group, `p_child_config`/`p_instance`/`p_terminated` of a process, `cc_status`, `cc_error`, `cc_errtime` | `spawn`, `sigchld_cb`, `heartbeat_cb`, `run_fatal_cb`, the handlers `c_spwn`, `c_updt`, `c_dele`, `c_kill`, `c_exit`, `load_dump` | `cmd_server.c`, `process.c` |
| group configuration | `struct child_config` | parse and serialise (JSON), defaults, insert, find, remove | `child_config.c` |
| error accounting | `cc_error`, `cc_errtime` | the block 803-819 of `sigchld_cb`, the reset in `c_updt` | `cmd_server.c` |
| connections, framing | `struct client_con`: `c_len`, `c_cid`, the bufferevent, its low watermark | `accept_cb`, `read_cb`, `error_cb`, `run_server_command`, `send_message`, `drop_client_connection` | `cmd_server.c` |
| subscriptions | `subscription_list` (connection, event mask, cid) | `c_subs`, `send_notification`, `subscription_remove_for_client` | `cmd_server.c`, `subscription.c` |
| dump and restore | the files `uberdump_<count>_<uid>_<time>` of the directory, their modification times, a counter | `c_dump`, `load_newest_dump`, `load_dump` | `cmd_server.c` |
| startup | socket file, what the options set (`allow_exit`, `auto_dump`, the dump to load) | `cmd_server`: socket takeover, log, fork, load | `cmd_server.c`, `paths.h` |
| log reading | none | `c_read`, `replace_str` | `cmd_server.c`, `cmd_read.c` |
| hash tables | chained buckets, of fixed number | `uvhash_*`, `uvstrhash_*` | `uvhash.c` |
| C client | the socket | `sock_connect`, `sock_send_command`, `read_reply`, `get_status_reply` | `client.c` |
| proxy | two buffers | stdin/stdout to socket and back | `cmd_proxy.c` |
| Python client | `cid`, `_inuse_cids`, the socket | `_increment_cid`, `_send`, `wait`, `_reply`, the commands | `python/ubervisor.py` |
| command line | none that outlives a request | option parsing, one request, one reply | `main.c`, `cmd_*.c` |

How they interact. The server is one thread around libevent's loop: callbacks
run one after another and none waits for another, so two handlers never
interleave. What does interleave with them is the kernel's side: processes end
at any time, also between the `waitpid` calls of one run of `sigchld_cb`, and
SIGCHLD is neither queued nor delivered at once; libevent's C handler counts it
and the callback runs later. Clients talk to the server over a stream socket
(requests arrive in fragments, replies and notifications share the
connection); the configuration of a group passes from client to server, from
server to dump, and from dump to the next server, always as the same JSON
object. `sigchld_cb`, the handlers and the timers share the two hashes by raw
pointers: a slot of `cc_childs` to a `struct process`, a process to its group,
a timer to its process. Processes of a dump inherit the listening socket, which
is marked close-on-exec only after they have been started (2458-2466), so it can
outlive its server.

What is hard, and what makes each part correct:

* **Supervision.** Pointers between groups and processes survive deletion,
  shrinking, restart and pid reuse; a running group is complete; a stopped or
  broken one starts nothing; no death is overlooked; only the server's own
  children are signalled; a process over its age ends even if it ignores its
  kill signal; the status subscribers saw last is true. Hard because deaths,
  signals and commands come in any order, `fork` can fail in the middle of a
  loop, and helpers (the heartbeat and fatal commands) are children too but
  are in no hash.
* **Error accounting.** A single counter and a single time stamp stand for "too
  many errors lately"; hard at the boundaries and when the group is resized,
  stopped or killed while errors come in.
* **Connections.** Every complete request is executed once, in order, whatever
  the fragments, and gets one reply; none is written to a dead connection; the
  client takes chunks for what the server made of its messages.
* **Subscriptions.** They end with their connection, in whatever way it ends; a
  notification fits a chunk.
* **Dump.** No crash leaves a dump that was never written, and the last good one
  is what the next server loads. Hard because a write may fail unnoticed, times
  have seconds, and a name can be used twice.
* **Startup.** A server that answers is left alone, also when it answers late;
  whoever starts comes to serve or ends. Nothing locks the socket file, and a socket
  on which a `connect` succeeds need have no server any more.
* **Hashes.** The string hash is a table, although a name can be in it twice and
  entries are removed by the address of their key.
* **Clients.** The cid tells replies and notifications apart, also after it has
  wrapped around; a client never waits for what will not come.

`PROJECT.json` lists the individual hazards with their lines, and the
properties that cover them.

## 2. Modules

| module | models | EXTENDS |
|---|---|---|
| `ChildConfig` | the configuration and group records, defaults, validation, the pure part of `c_updt` and of the accounting in `sigchld_cb` | `Integers` |
| `Kernel` | *external*: process table (`fork`, exit, `wait`, `kill`), SIGCHLD pending and counted | `ChildConfig` |
| `Supervisor` | the handlers, timers and `sigchld_cb`; properties; fairness | `Kernel` |
| `SupervisorClaims` | a promise of the documentation the code does not keep | `Supervisor` |
| `MCSupervisor` | request sets and symmetry for TLC | `SupervisorClaims` |
| `ErrorWindow` | the error counter of one group with the clock | `ChildConfig` |
| `MCErrorWindow` | its requests for TLC | `ErrorWindow` |
| `ChildConfigProofs` | lemmas about the operators of `ChildConfig` | `ChildConfig`, `TLAPS` |
| `SupervisorProofs` | types and bookkeeping: theorems | `Supervisor`, `ChildConfigProofs` |
| `GroupProofs` | what subscribers know, who is started and signalled, full strength, no lost child: theorems | `SupervisorProofs` |
| `ErrorWindowProofs` | theorems | `ErrorWindow`, `ChildConfigProofs` |
| `RequestStream` | abstract: a client's requests are executed whole, in order, once, with their own cids | `Integers`, `Sequences` |
| `Framing` | `accept_cb`, `read_cb`, `error_cb` on a byte stream in fragments; implements `RequestStream` | `Integers`, `Sequences`, instance of `RequestStream` |
| `MCFraming` | kinds of requests for TLC | `Framing` |
| `FramingProofs` | theorems | `Framing`, `TLAPS` |
| `SeqFilter` | the elements of a list that lie in a set, by recursion over the list | `Sequences` |
| `SeqFilterProofs` | what it does to lists of any length: lemmas | `SeqFilter`, `TLAPS`, theorems of the library |
| `Chunks` | how a message is cut into chunks (`send_message`, `send_notification`) and read (`read_reply`, `wait`) | `SeqFilter` |
| `Connection` | the server's end of its connections: the reply of every command, notifications, drops, `EXIT` | `Chunks` |
| `Session` | the clients: C programs and the Python client, composed with `Connection` | `Connection` |
| `MCSession` | ways to build and start servers, for TLC | `Session` |
| `SessionProofs` | theorems | `Session`, `SeqFilterProofs` |
| `NameTable` | abstract: a table from names to values, the newest first | `Sequences` |
| `UvHash` | the string hash and the list of groups; implements `NameTable` (in `Lifecycle`) | `Integers`, `Sequences`, `SequencesExt`, `SeqFilter` |
| `Startup` | several servers taking over one socket | `Integers` |
| `Dump` | the dump files, what is done to them | `Integers`, `FiniteSets` |
| `Lifecycle` | lives of servers in one directory: start, load, commands, dumps, crashes | `Startup`, `Dump`, `UvHash`, instance of `NameTable` |
| `MCLifecycle` | ways to start servers, colliding names, for TLC | `Lifecycle` |
| `LifecycleProofs` | theorems | `Lifecycle`, `SeqFilterProofs`, `FiniteSetTheorems` |

### ChildConfig

`Config` is what a request or a dump can say, `Group` what the server keeps.
Options a handler only tests for presence (heartbeat, fatal command, args, uid
and gid) are booleans; options that matter only inside the child (directory,
output files, log rotation) are left out. `childs` is a function over all
slots up to `MaxInst`; a slot beyond `instances` is memory that does not exist
and is `NULL`. `WILD` is what `xrealloc` leaves in a slot nobody has written.
`Updated`, `Dropped` and `ToStart` split `c_updt` into the record it leaves, the
processes it lets go of and the slots it calls `spawn` for, in the order of the
code: size first (looking at the old status), then status, then the rest.
`AfterExit` and `Breaks` are lines 803-819 of `sigchld_cb`.

### Kernel

A task is free, running, bound to die (`killed`, it was sent SIGKILL) or a
zombie. Any running task may end at any time for any cause, so signals other
than SIGKILL need no record. `pending` is the one SIGCHLD that can be pending,
`caught` libevent's count (the count of `evsignal`, bounded by `MaxCaught`: at
the bound delivery waits, which hides nothing because one counted signal makes
the callback reap everything).

### Supervisor

| action | code |
|---|---|
| `load_dump`, `EnterLoop` | `load_dump` for one entry of the dump; `cmd_server` 2466-2479, the handlers being installed after the dump is loaded |
| `c_spwn`, `c_updt`, `c_dele`, `c_kill`, `c_exit` | the command handlers, accepted requests only (a rejected request changes no state here) |
| `wild_deref` | a handler that walks `cc_childs` meets an unwritten slot: undefined behaviour, the outcome modelled is the crash |
| `PassAge`, `heartbeat_cb` | time passes the limit; the timer of one process |
| `SigchldBegin`, `ReapHelper`, `ReapOrphan`, `ReapMember`, `ReapDone` | `sigchld_cb`: one action per `waitpid` that returns a pid, by what the pid turns out to be; the last one is the `waitpid` that finds nothing |
| `TaskExit`, `Deliver` | the kernel |

`groups` and `processes` are the two hashes (`NULL`: no entry). A group has an
address, its name and how many of that name came before it: `load_dump` inserts
the entries of a file without looking for their names (2164), so a name can be there
twice. Commands reach the newer group (`Found`), and the older one when that has
been deleted; processes and timers point to their own. `spawn` takes
the state the handler has made so far and one of the possible outcomes of its
forks, so a handler that calls `spawn` in a loop is still one action, with
every combination of successes and failures. `told` is the last status a
subscriber was sent for a name; the rest of the notifications is not modelled.
The clock is not modelled either: `over` of a process is set by `PassAge` at any
time after the start, and whether an error is the first one in a period is
chosen freely (`expired`). `ErrorWindow` has the clock for the latter.

Properties:

* `HashedUnreaped`, `SlotsOwned`, `MembersSlotted`: the two hashes, the process
  table and the pointers between them agree.
* `FullStrength`: a running group has a process for each instance, if `fork` works.
* `SubscriberView`: what subscribers were told last of a name is the status of its
  group. Of a name that a dump had twice (`shared`) it is not: a notification has
  nothing but the name, so when the newer group is deleted, or the one that cannot
  be addressed breaks, they are told what is not true of the other. Such a name is
  excepted until it is given to a new group, which takes the deletion of both.
* `StartsOnlyWhenRunning`, `SignalsOnlyChildren`: what a step may never do.
* `NoLostChild`: a zombie has a SIGCHLD on its way or a `sigchld_cb` at work.
* `DeadChildReaped`, `OverAgeDies`: the liveness properties.

Fairness (`Fairness`): the kernel delivers a pending signal and ends a task that
was sent SIGKILL; libevent runs the callback of a counted signal; `sigchld_cb`
goes on. Timers and the end of the reaping loop get strong fairness: commands
and other signals can disable them again and again, but libevent serves
everything that is due in a round before it polls for more, and a loop of
`sigchld_cb` ends unless processes die as fast as they are reaped. There is no
fairness on clients, and none that makes a process end by itself.

### ErrorWindow

`Supervisor` abstracts the clock; here it is the point. One group, its processes
only counted, and a `log` of the error times since the status was last set that
the code does not have. `CounterIsLastRun` says what the number `cc_error` means
in terms of the log, `BurstBreaks` that enough errors within a period always
break the group, `BreaksOnlySteadily` that nothing less than that many errors
without a pause does, `StoppedStaysStopped` that errors of the processes being
killed never turn a stopped group broken, unless it was shrunk meanwhile.

### Framing

One connection. A request is two bytes of length, two of cid, and the payload.
Bytes have no values in the model, only offsets: `queue` and `start` say what
the client wrote and where, and a field that the server reads at the offset where
it was written has its value; a field read anywhere else can have any value. So
a parser that lost its place would be seen at once, and payloads need no content.

| variable or action | code |
|---|---|
| `c_len`, `c_cid` | the fields of `struct client_con`; 0 is "not read yet" |
| `low` | the low watermark (`bufferevent_setwatermark`, 1997, 2013, 2027, 2084); the high one is the constant `ChunkSiz` |
| `filled`, `pos` | what libevent has put in the input buffer, what `read_cb` has taken out; the buffer holds the difference |
| `busy` | control is inside `read_cb`; only the client can act meanwhile |
| `Init` | `accept_cb` 2052-2102 |
| `Fill` | *external*: libevent reads a fragment of any size up to the high watermark and calls `read_cb` when the low one is reached |
| `read_len`, `read_cid`, `run_server_command` | one turn each of the loop of `read_cb`: length with its bounds, cid, payload and handler |
| `Return` | the `return` when the next field is not complete |
| `error_cb`, `Disconnect` | end of file or write error, at any time the client chooses |

Of a handler only the result counts: `ok` is whether it returns 1; if not, the
connection is freed. `done` is the record of what was executed.

`InOrder` is the refinement of `RequestStream`, `NothingWaits` that `read_cb`
never returns with a complete request in the buffer nor leaves a watermark above
what the next request still needs, and `Served` that every request which none
before it prevents is executed unless the client leaves. Fairness: libevent
reads what has arrived as long as the buffer is below the high watermark
(`Fill`), and the loop of `read_cb` runs on; none on the client.

### Chunks, Connection, Session

`Framing` ends where a request has been taken out of the stream; `Connection`
begins there. A request is a cid and a command. A handler looks at the rest of
the payload alone, so what it says is a choice of the handler's action: each
handler has one disjunct for every way it ends, which are a refusal that drops
the connection (`Fail`: it sends a status message and returns 0), a refusal that
keeps it (`Refuse`), and success. Which of them a handler has, and in which
order it writes replies, log lines and notifications, is the code's; several lines
logged in a row are one `log` event. Of the groups one is kept, and of it two
lengths: that of its configuration as JSON text (`cfg`), which is what `GETC` and the
notification of an update send, and that of the notification of its status
(`notice`), in which its name is escaped: `SPWN` takes a name of any length, and
JSON makes up to six bytes of one. The name is in the configuration too, so the
first is at least as long.

| variable or action | code |
|---|---|
| `connections`, `subscriptions` | `client_con_list`, `subscription_list` |
| `backlog`, `Accept` | who is connected to the listening socket; `accept_cb` takes one |
| `held`, `HeirsEnd` | the server has ended, and processes of a dump still hold its listening socket (2466): the backlog stays connected, and takes more; until they end |
| `out`, `wire` | the output buffer of a bufferevent, what is in the socket; the latter outlives the connection |
| `Keep`, `drop_client_connection`, `End` | a handler returned 1; it returned 0, or the client has gone; the process ends with all it has buffered |
| `c_*` | the handlers; `c_dump` also for commands with `auto_dump`, whose reply is the dump's |
| `Event` | log lines and the status "broken" that come from `sigchld_cb`, the timers and the log pipe |
| `Flush`/`Transmit` | *external*: libevent writes to a socket that accepts it |
| `sock_send_command` | a C program: connect, one request with cid 1; `Forever` is the loop of `cmd_subscribe` |
| `connect`, `Call`, `wait`, `close` | the Python client; `Call` is each of its commands with `wait = True` or `False` |
| `ReadChunk`, `Deliver` | `read_reply`, `wait`: one chunk, and the end of a message |
| `EndOfFile`, `ShortRead` | a read that returns nothing, or a part of the header; both end the client |

`twice` has the clients that got two replies to one request, which `c_dump` sends
when its last write fails (1226-1231): what follows on such a connection is left
out, as is what a client does after it took a length for another one (`lost`).
The second `fclose` on that path may end the process (`crashed`).

* `SubscribersConnected`: no subscription outlives its connection.
* `RepliesConserved`: the replies under way and the requests not handled yet are
  what the client has asked, one for one, in order, under the same cids.
* `CidsTellApart`: no two waiting calls share a cid, and no notification has the
  cid of a call.
* `ReadAsWritten`: lengths and flags of chunks are read for what they were
  written as (by both clients, which decode them differently): of every reply,
  whatever its length, and of every notification that fits a chunk.
* `Answered`: who waits for a reply gets it or learns that none will come, but for
  clients that were not accepted before the server ended, or connect later, while
  its listening socket is held (`Stranded`).
* `NotificationFits`: the assertion in `send_notification`; it does not hold.

Fairness: the server's loop gets to every connection that waits to be accepted or
has a request, libevent writes what a socket accepts, and a client that has begun to read goes on. None
on clients beginning anything, on events, on short reads, and on the end of the
processes that hold a socket.

### UvHash, Startup, Dump, Lifecycle

`Startup` is `cmd_server` up to `listen`, one action per system call on the socket:
`sock_connect`, `sock_send_helo` (which blocks until the other one answers or
ends), `stat`, `unlink`, `bind`, `listen`. A socket is the one of a server in one of its
lives; `socket` is the one the file is. `heirs` are the sockets that processes of a
dump hold (`restore` adds to them, at each group whose processes it starts): on one
of these `connect` succeeds also when its server has ended, those it had not
accepted read no end of the stream (`Stopped`), and `sock_send_helo` waits until the
last of the processes ends (`HeirsEnd`).
`earlier` is history: who listened when this server looked. `Dump` has the files as
a record: contents by inode, and the temporary and the final name of each dump;
two names can lead to one inode, which is how `link` before a crash and a second
`fopen` of the same temporary name meet. `UvHash` has buckets as sequences of
entries, a key being characters and an address. `Lifecycle` puts them together:

| action | code |
|---|---|
| `Starting` | `cmd_server` up to `listen` (`Startup`) |
| `read_dump`, `restore` | `load_dump` or `load_newest_dump`: the choice of the file; each pass of the loop that inserts a group |
| `c_spwn`, `c_dele`, `c_exit`, `c_dump` | the handlers; with `auto_dump` the first part of a dump, up to `fopen`, is part of `c_spwn` and `c_exit`. `c_updt` changes no name: with `auto_dump` it is `c_dump` here |
| `write`, `link_dump`, `unlink_dump` | the rest of `c_dump`, a step each, so that the process can crash between |
| `Crash`, `Leave`, `Tick` | *external*: the server ends in any state; the last process that holds its socket ends; time passes |

A dump fits the buffer of stdio, so it is written by `fclose`, whose result
nobody looks at: the file may end up whole, cut off (`part`), or empty. Commands
come only to the server that has the socket, because clients find it by its name.
A crash of a server that has no socket yet is not told from one that goes no
further. The backlog of a listening socket (16) is taken to be never full. Dumps that no later server would read (none uses `-l`) are left out.

* `HashIsList`, `HashIsTable`: the hash and the list of groups agree; the hash
  implements `NameTable` (`INSTANCE NameTable WITH table <- ...`).
* `DumpsAreClosed`: a final name never leads to a file that is still being written.
* `Restores`: what a server loads is what the last successful dump was about, if
  the disk worked and no other dump is as new (`LastStands`).
* `NotStolen`: no server removes the socket of one that listened when it looked.
* `Starts`: a server that starts serves or ends, or waits on a socket whose server
  has ended and which processes of that server's dump hold (`WaitsForHeirs`). The
  exception is what the code does: it has no timeout, and only the end of those
  processes, or removing the file by hand, helps.

Fairness: a server that can take a step of its own takes it (weak fairness of
`Own`, per server); commands, starts, crashes and time may stay away, and the
processes of a dump may run for ever.

## 3. Runs

| run | question | bounds |
|---|---|---|
| `sup_safety` | do hashes, slots, processes and subscribers' view agree under commands, deaths, helpers and pid reuse, and with a name twice in a dump? | 1 name, 2 groups, 3 pids, 2 instances, `ErrorMax` 1 |
| `sup_faults` | the same when forks fail (until a wild slot crashes the server), with age limit and heartbeat timers | 1 group, 2 pids, 2 instances, `ErrorMax` 2 |
| `sup_live` | is every dead child noticed and every process over its age ended (no helpers, no dump)? | 1 group, 2 pids, 1 instance, `MaxCaught` 2 |
| `err_window` | when do errors break a group, and can they break a stopped one? | period 2, clock to 7, 2 errors per instance, 1 or 2 instances, at most 6 errors between two changes of status |
| `framing` | does every stream of requests, in any fragments, give the same executions, and all of them? | 3 requests, each the shortest, the longest, too short, too long, or with a failing handler; buffer of 17 bytes |
| `session` | does every client get what is meant for it, in order and read as it was written, while connections drop and the server ends? | a Python client (`GETC`, `SUBS`, pipelined) and a C program with any command; cids to 3; replies of 1, 2 and 3 chunks; status notifications of 1 byte and of 3 chunks; all kinds of events; two kinds of server that differ in each option |
| `lifecycle` | is the socket left to who has it, does the last good dump come back, do hash and list agree, who waits for a socket that was inherited? | 2 servers, 3 lives, 2 names in one bucket, 3 groups, 2 seconds, 1 dump per life |
| `doc_notification_fits` | refutes `NotificationFits` | 2 C programs, a build with assertions, configurations of 3 and 4 with chunks of 3, a short name |
| `doc_helper_hides_child` | refutes `DeadChildReaped` once there is a helper | 1 group, 2 pids |
| `doc_wild_slot` | refutes `SlotsInitialised` | 1 group, 2 pids, 2 instances |
| `doc_slow_errors` | refutes `BrokenOnlyByBurst` | as `err_window`, no updates |
| `doc_cid_zero` | refutes `InOrder` when cid 0 is used | 2 requests, buffer of 10 bytes |

Why the bounds are enough. A pid is a task alive or not waited for, and pids
are reused as soon as they are free, so with two or three of them every reuse
by a process, a helper, or a process of the next group of the same name is
reached in a few steps; they also bound the tasks alive at once (a command that
needs more is not enabled, as if the kernel's limit had not been reached yet).
Two instances are the least for growing, shrinking, and failing in the middle of
a loop. Groups share only the pid space and the SIGCHLD handling, and those of one name
what commands find; the proofs (below) hold for any number of them. `ErrorMax` 1 makes a group break after the
first errors, 2 leaves room to be below the limit. `Pids` is a symmetry set in
the safety runs: no definition distinguishes pids and no liveness is checked
there.

For `Framing`: 17 bytes are two of the shortest requests (8 bytes) and one more,
so a buffer can hold the end of a request, whole requests and the beginning of
one, and a longest request (21 bytes with its header) never fits with its header.
Three requests are needed for one between two others. Every cut of the stream is
tried. The proofs hold for any requests and any size of the buffer.

For `Session`: `ChunkSiz` 3 makes a configuration of 9 three chunks as a reply and
a number with the bit of `CHUNKEXT` set as the length of a notification, of the
configuration and of the status. The Python client subscribes to all events, so it
gets both. Cids to 3,
with at most 2 in use, wrap around after two calls, past a subscription. A
socket of one chunk lets the server die in the middle of a message. `MaxQueue` 0
lets events come only when the subscriber has nothing buffered, and calls too;
handlers still write several chunks at once. Clients connect once: a second
connection of a client is a different client to the server.

For `Lifecycle`: one server started three times; two started against each other;
each with and without `auto_dump`, `-l` and a configuration file, which can be
cut off or have a name twice. Two names in one bucket and three addresses are
the least in which a removal can hit the wrong entry. In one second a dump, a
crash, a restart and another dump with the same name can happen, and in the
second one a newer dump. `NotStolen` is proved for any number of servers.

The deadlock check is off where the system may stop: `sup_faults` and the `doc_`
runs of `Supervisor` (`c_exit`, a crash), the runs of `Framing` (the client
has sent what it wants, or is gone), the runs of `Session` (the server has ended and
the clients are closed) and `lifecycle` (every life has ended). All other runs check it.

Each property of each passing run has a mutant in `PROJECT.json`: a variant of
one definition (they are in the modules, next to the definition they change,
with a name like `Dropped_Forgotten`) under which TLC finds the property
violated.

### What the code does not keep

* **A helper hides dead children** (`cmd_server.c:783`). `sigchld_cb` returns as
  soon as `waitpid` yields a pid that is not in `process_hash`, that is, a
  heartbeat or fatal helper. If a child of a group died at the same time, its
  SIGCHLD has been merged with the helper's; it stays a zombie, and its
  instance empty, until some other child dies.
* **A wild slot** (`cmd_server.c:1087-1097`). When a running group grows and
  `fork` fails, the new element of `cc_childs` is never written. `c_pids`,
  `c_kill`, `c_dele` and a later shrink take it for a pointer.
* **A notification that does not fit** (`cmd_server.c:310`). The notification of an
  update is the whole configuration as JSON. An update adds to it, so it can be
  longer than any request; a build with assertions (not the default) ends there,
  and the default one writes a length that runs into the flags, after which the
  subscriber has lost the stream (`lost` in `Session`). A status notification
  (405-424) has the name of its group and can be too long as well, from the `SPWN`
  of the group on.
* **Slow errors add up** (`cmd_server.c:811`). Each error restarts the period, so
  a process that fails once every `ERROR_PERIOD` seconds breaks its group,
  although the comment (134-135) speaks of errors within a period.
* **Cid 0** (`cmd_server.c:2002`). `c_cid == 0` means "the cid has not been read",
  so a request whose cid is 0 has the beginning of its payload taken for its cid
  and everything after it is read out of place. `internals.txt:36-40` leaves the
  choice of cids to the client and does not except 0.

Modelled, with no run of their own: processes of a dump hold the listening socket
of their server (2458-2466), and after its end the next server, and every
client, waits for an answer until they have ended; a name that a dump has twice
(2164) gives two groups, of which commands and subscribers know but one at a time; a
child that dies before the SIGCHLD handler
is installed (2471) is not noticed before the next death; a failed fork is never
tried again (821); the fatal command runs again for every error after the one
that broke the group (817); an update that stops and grows a group starts
processes first (1092); an update of the age reaches no process already
running, nor one the same update starts (668, 1127); a death by a signal other than the
kill signal is no error (760); setting the status a group already has does not
reset its counter (1111), other than `command_update.txt:38` says. The reply to `EXIT` never
leaves the server (1158-1162). A dump whose last write fails is answered twice
(1226). A dump that could not be written is reported as successful and loaded
next (1231). A crash between `link` and `unlink` lets a later dump of the same name
destroy the finished one (1203, 1238). `DELE` dumps nothing with `auto_dump`, so a
deleted group is back after a restart. A server that begins to listen after
another one has looked for it loses its socket (2382-2391).

## 4. Proofs

`SupervisorProofs` proves, for every value of the constants that satisfies the
named assumptions of `ChildConfig`, `Kernel` and `Supervisor`:

* `TypeCorrect`: `Spec => []TypeOK`.
* `Bookkeeping`: `Spec => [](HashedUnreaped /\ SlotsOwned /\ MembersSlotted)`.

The inductive invariant is `IInv`: `TypeOK` and the three bookkeeping invariants
together with what ties them up. They are inductive only together: that a
handler may free what a slot points at needs `SlotsOwned`; that the process a
slot gets is new needs `HashedUnreaped` (a free pid has no entry in the hash);
that `sigchld_cb` empties the right slot needs `MembersSlotted`. The work is in
`spawn`, which every starting handler shares: lemmas state, for an arbitrary
group record, process hash, process table and outcome of the forks, that types
and bookkeeping are preserved when the slots to be filled have been detached
before, and each handler's step then only has to establish that premise (for
`c_updt` from the arithmetic of `Grown`, `Shrunk` and `ToStart`).

* `ChildrenHashed`, `MembersHaveSlots`: the parts of `Bookkeeping` by themselves.

`GroupProofs` builds on `IInv`:

* `SubscribersKnow`: `Spec => []SubscriberView`. Inductive with "nobody has been
  told anything while the dump is loaded" and "a group at another address than the
  first has a name that the dump had twice" (`ViewInv`): so a name that is not
  `shared` has one group (`OneOfName`), and each handler is shown to send the status
  it leaves that group in or to leave it. Of a shared name it says nothing.
* `NoStartWhileStopped`: `Spec => StartsOnlyWhenRunning`, and
  `SignalsReachChildren`: `Spec => SignalsOnlyChildren`, two action properties. The
  second needs `SlotsOwned` and `HashedUnreaped`: what a handler signals is a slot
  or a process, and these are children not waited for.
* `RunningIsFull`: `~ForkMayFail` implies `Spec => []FullStrength`. `FullStrength`
  is not inductive: a stopped group may have slots that are empty, and when it is
  started again `ToStart` must find exactly these; a slot that is `WILD` would be
  taken for full. The strengthening (`Strong`) says of every group, whatever its
  status, that no slot is `WILD`. The hypothesis is needed: a failed fork leaves
  an instance empty for good, and a group that grows with a wild slot.
* `ChildrenNotLost`: `NoHelpers` implies `Spec => []NoLostChild`. `NoHelpers` (no
  request asks for a heartbeat or a fatal command, and there is no dump to load) is
  needed too: a helper hides dead children (`doc_helper_hides_child`), and so does
  a dump whose children die before the handler is installed. What is strengthened
  is that the process table has no helper at all.

Assumptions of these: `MaxInst` and `ErrorMax` are positive, SIGTERM and SIGKILL differ,
`NULL` and `WILD` are no pids, `NULL` is no address, requests are records of the right
shape, and a dump holds only instance counts the server would have accepted.

`ErrorWindowProofs` proves, for every `Period`, `ErrorMax`, number of instances and
set of updates:

* `WindowTypeCorrect`, `CountsTheLastRun`: `Spec => []TypeOK`, `Spec => []CounterIsLastRun`.
* `NoBurstMissed`: `Spec => BurstBreaks`.
* `OnlySteadyErrorsBreak`: `Spec => BreaksOnlySteadily`.
* `StopIsNotBroken`: `ErrorMax > 1` implies `Spec => StoppedStaysStopped`. With
  `ErrorMax` 1 it is false: the children that a stop kills are enough errors to
  break the group.

The inductive invariant adds to `CounterIsLastRun` that the log is in the order of
time (`Sorted`), that `cc_errtime` is the time of the last error (`Stamps`: it
relates what the code looks at, one time stamp, to the log), that the counter is 0
only before the first error (`Counts`), and that each process left of a stopped
group can fail only once (`Alive`, for the last theorem). `BurstBreaks` follows
because in a sorted log errors within one period have no longer pause between
them, so they are all in the last run.

`FramingProofs` proves, for any requests whose cids are not 0 (assumption
`NonZeroCids`; `doc_cid_zero` shows that it is needed) and any chunk size of at
least 4:

* `FramingTypeCorrect`: `Spec => []TypeOK`.
* `NothingEverWaits`: `Spec => []NothingWaits`.
* `FramingCorrect`: `Spec => InOrder`, that is, `Framing` implements `RequestStream`.

The inductive invariant is `TypeOK` and three facts. `Contiguous`: the requests
lie in the stream without gaps or overlaps. `Aligned`: while the connection is
open, `pos` is inside the request after the last one executed, at the field
that `c_len` and `c_cid` say is next. `Marked`: `low` is what that field needs,
or, before the first request, the four bytes of a header. With `Aligned` the
values read are the values written (`LenThere`, `CidThere`, `PayloadThere`),
whence each step of `read_cb` is a step of `RequestStream` or a stutter.

`SessionProofs` proves, for any number of clients of either kind, any commands, ways
to end a handler, sizes of messages, chunks and buffers and any number of cids:

* `SessionTypeCorrect`: `Spec => []TypeOK`.
* `SubscriptionsHaveConnections`: `Spec => []SubscribersConnected`.
* `EveryRequestGetsItsReply`: `Spec => []RepliesConserved`.
* `CidsSayWhatAMessageIs`: `Spec => []CidsTellApart`.
* `ChunksReadAsWritten`: `Spec => []ReadAsWritten`. It says nothing of notifications
  that do not fit a chunk, of configurations or long names: these are misread.

The inductive invariant is `Types`, `SubscribersConnected` and, for each client, `Quiet`
(a dropped connection has no request and no output, what a client has put aside
is the beginning of a message) and `Conversation`. The last one looks at a
conversation as one list `q`: what the client has put aside, what is in the socket,
and the output buffer, one after the other; then the requests not handled.
While the client is connected, accepted or in the backlog (`Open`),

* the calls without a reply are, in order, the cids of the last chunks in `q`
  and of the requests (`Due`), and no two are the same;
* `q` is made of whole messages whose chunks are not interrupted (`Chained`,
  `Complete`);
* each notification in `q` is under the cid of a subscription that the client
  remembers, and, if the subscription's own reply is still to come, after that reply
  (`Explained`);
* the counter of cids has not come round to a call that waits: what it has passed
  since is later calls and subscriptions (`Walked`).

When the connection has been dropped (`Cut`), `q` is a beginning of such a list.
None of the properties is inductive by itself. That replies are one for one with
requests needs `Chained` and `Complete`, because a client ends a message where the
flag says so; that a new call's cid is not in use needs `Walked`, because the
counter skips only cids the client remembers as subscriptions, and after it has
wrapped around nothing in the code looks for the calls still waiting; and
that a notification is not taken for a reply needs `Explained`. The server's part is
reduced to three ways for a handler to end (`Stays`, `Dropped`, `Ended`), so that
the commands need be looked at only once each; everything a handler writes is a list
of notifications, a reply, and notifications.

What these proofs say of lists of any length rests on the lemma `FilterConcat` (`SeqFilterProofs`):
filtering a list is filtering its parts. It is an induction over the length. The
library's induction theorems take a predicate, which the provers cannot
instantiate; that the natural numbers are well founded is stated for sets, so the
induction is done with the least element of the set of the lengths at which the
claim fails.

`LifecycleProofs` proves, for any servers, lives, names, hash functions, groups and
dumps:

* `Typing`, `HashOfEveryList`, `NamedWhenClosed`: `Spec => []TypeOK`,
  `Spec => []HashIsList`, `Spec => []DumpsAreClosed`.
* `HashImplementsTable`: `Spec => HashIsTable`, that is, the hashes of the servers
  implement `NameTable`.
* `RestoresLast`: `Spec => Restores`.
* `NeverStolen`: `Spec => NotStolen`.

The assumption `LifecycleAssumption` says that the bounds are numbers and that memory
is not short: there are at least as many addresses as a configuration file has
groups. A step is looked at three times, by what it is to the socket (`StartupStep`),
to the hashes and lists (`TableStep`) and to the files (`DiskStep`), so that each
part of the invariant `IInv` meets a handful of kinds of step instead of every
command.

For the socket, `Projection` shows that a step of `Lifecycle` is, for the variables of `Startup`, a
step of `Startup`, the end of a server, of those who hold its socket, or a step
towards serving. `Asked` is the inductive invariant: while a server waits for the
answer to its HELO, whoever listened when it looked listens on the socket it is
connected to, or has ended; a server that goes on to `stat` has read the end of
the stream, which there is only when nobody listens on that socket, so nobody is
left whose socket it could take. `Nobody` is no socket (`ServersAssumption`). It is needed because
`NotStolen` speaks of `earlier` only in the last step of the takeover.

For the hash, `Tables` says that each bucket is, entry for entry, the list of groups
filtered by the bucket (`HashOfList`), and that no two groups have one address.
The properties speak of names; this is stronger, because a removal goes
by addresses: it takes the first entry with the address of the group, and
only when addresses are distinct is that the entry of the group that
was found under the name. An insertion puts a group at the head of both
(`InsertAgrees`), a removal takes one element out of the middle of both
(`RemoveAgrees`). `Tables` also counts: the groups a server has and those it still
has to load are never more than there are addresses, so `Unused` finds one.

For the files, `Files` has four parts. `Writers`: a server that dumps has its file
under its temporary name or the name is taken; a file that was opened once
has no name before it is closed, and once it is written whole, has the
names of the list, which does not change meanwhile. `Apart`: two servers that write
to one file have opened it twice. They do when they dump with one counter in one
second; `DumpsAreClosed` and `Restores` except such files, so what they say of the
others rests on there being one writer. `NamesAreClosed` is
`DumpsAreClosed`, with files that were never opened excluded; `LastKept`: the
dump that was reported last has the names it had, until its file is opened again.
`OpenedFile` shows that `fopen` finds a file whenever it needs a new one: there are
two files for each key and at least one of the two names is free.

All these invariants were checked with TLC, as invariants of the runs, before they
were proved.

Every safety property that a passing run checks is thus a theorem, under the
assumptions named here. Only
model-checked are the liveness properties `DeadChildReaped`, `OverAgeDies`, `Served`,
`Answered`, `Starts` (liveness under fairness is out of the prover's reach).

## 5. Plan

Modules, in order; each is to be written so that it can be proved about.

1. *(done)* `ChildConfig`, `Kernel`, `Supervisor`, `ErrorWindow`.
2. *(done)* `RequestStream`, `Framing`.
3. *(done)* `Chunks`, `Connection`, `Session`.
4. *(done)* `NameTable`, `UvHash`, `Startup`, `Dump`, `Lifecycle`.
5. Left: the proxy between a client and the server (two buffers, end of file on
   either side); `c_read` against a log that grows; the values that a configuration
   keeps on its way from options to request, group, dump and back.

## 6. Not modelled

The child's side of `spawn` after `fork` (ids, limits, redirection, `exec`): a
process that fails there is a process that exits with an error. `sighup_cb`
reopens the log file. Contents and offsets of log files (`c_read` past its
replies). The texts of replies and how a client prints them; the C client's
connections through `UBERVISOR_RSH`, the Python client's through ssh, and the
proxy they lead to. The command-line tools translate options into one request:
the request is modelled (`Session`), the translation is not. Of the server's
options only what they set is modelled; directory, log file and umask are
failures of the start. The integer hash of pids is a function in `Supervisor`.
`misc.c` wraps allocation; `compat/queue.h` is the BSD list macros; tests, build
files and documentation are read for what they say of the program.

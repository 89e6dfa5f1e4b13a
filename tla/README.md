# Verification of tcp_iot in TLA+

tcp_iot connects a server, a Windows client and a handful of single-board
clients over TCP (port 5193), and ESP32 boards behind them over ESP-NOW.  This
directory models the parts of it that run concurrently, that lose messages or
that outlive a crash, checks them with TLC on small instances and proves what
matters most with TLAPS for every instance.

    tlc -workers 2 -config MCRdwrLock.cfg MCRdwrLock        # one run
    tlapm ThreadServerProofs.tla                            # one set of proofs

`PROJECT.json` lists the runs, what each definition models (file and lines),
the faulty variants that show each property can fail, findings, hazards and
theorems.

## 1. The system

| part | state | operations | talks to |
|---|---|---|---|
| server (`server/thread_server.c`) | `pthreads_list[7]`: socket, dest, name, Windows flag, time stamps, dirty flag per client; `no_threads`, `highest_sock`, `win_cl_index`, the buffer `client_name` | accept and register; read, dispatch and route commands; poll and log off; console | clients by TCP; its own threads by the unlocked table |
| client (`client/thread_client.c`) | one socket, `client_name`, `close_program` | answer SEND_STATUS, pass other commands to the queue, end on DISCONNECT | server by TCP, command tasks by a System V queue |
| command tasks (`cmd_tasks.c`, `tasks.c`) | queue ids (`static` in `tasks.h`: one copy per source file), output list | decode a command, edit the list, drive outputs, run scripts | queue, list, ports, config files |
| output list (`queue/ollist_threads_rw.c`) | sorted linked list of port records | insert, remove, find, toggle, change, show | guarded by the lock |
| reader/writer lock (`queue/rdwr.c`) | two counters, a mutex, a condition variable | rlock, runlock, wlock, wunlock | the list operations |
| bus (`{client,server}/nbus.c`, `ioports.c`) | a System V semaphore, `nbuslocked`, output registers | lock, unlock, peek, poke, set a bit | hardware, other processes |
| configuration (`cs_client/config_file.c`) | files of port records and parameters | load, truncate and write | the list |
| TCP clients on the ESP32 (`esp-idf/tcp_client*.c`) | one socket, a receive buffer | name, values, answer SEND_STATUS | server by TCP |
| ESP-NOW programs (`esp-idf/espnow`, `master`, `slave`) | `send_param`, an event queue | broadcast, agree on a sender, send, restart | each other by radio |
| Arduino sketches (`Arduino/`) | one message buffer | interrupt, loop, send | ESP32 and server |

What makes a part correct, and what is hard about it:

* **Server.** Four kinds of threads share the table without any lock.  A slot is
  filled in field by field, counted last, emptied field by field by three different
  pieces of code, and never moved; descriptors are reused by the kernel while old
  threads still use their numbers.  Correct means: a slot's socket is open and
  belongs to no other slot; routing finds a slot; clients that answer stay and dead
  ones go; polling reaches everybody; a dead client does not hurt the rest.  Without a
  lock the first two can be had only up to the first accident, so the properties say
  which accident breaks which of them.
* **Lock.** One condition variable for two kinds of waiters and a signal that wakes
  only one.  Correct means: exclusion, exact counters, no lost wakeup.
* **List.** Pointers that leave the lock's protection, a head node freed and still
  referenced, places in the list that were walked to earlier.  Correct means: it
  is a sorted table that one call at a time changes.
* **Command tasks.** Queue ids that differ between source files; two tasks on one
  queue; queues that outlive the process.
* **Bus.** Several processes read, change and write back one byte through one
  address window; the semaphore between them is made by whoever comes first, and
  processes end anywhere.  Correct means: no update of an output is lost, and the
  semaphore is not.
* **Configuration.** Truncation before writing; results of reads not looked at; gaps in
  the list that become shifts in the file; a struct that is filled before the file is
  checked.  Correct means: what a load that succeeds leaves there was saved.
* **Framing.** Bytes of several threads on one stream without a lock, and a length cut
  into nibbles.  Correct means: a reader stays in step, and polls are answered.
* **ESP-NOW.** A symmetric protocol over a radio that loses frames, with restarts, bounded
  queues and chains of sends that live from their own callbacks.  Correct means:
  one sender, which sends its count.

## 2. Modules

| module | what it is |
|---|---|
| `RdwrLock`, `RWExclusion`, `MCRdwrLock`, `RdwrLockProofs` | `queue/rdwr.c`; what a reader/writer lock promises; proofs, of the refinement too |
| `OutputList`, `OutputMap`, `MCOutputList`, `OutputListProofs` | `queue/ollist_threads_rw.c` under the lock of `RWExclusion`; the table that its users rely on; proofs, of the refinement too |
| `ThreadServer`, `MCThreadServer`, `ThreadServerProofs` | the table and the threads of `server/thread_server.c`, with its clients as environment |
| `DeviceLink`, `MCDeviceLink`, `DeviceLinkProofs` | one connection of the server with an ESP32 device, byte by byte |
| `ClientCommands`, `MCClientCommands`, `ClientCommandsProofs` | the client program: its reader, its two tasks, their queues, and restarts |
| `NBus`, `MCNBus`, `NBusProofs` | the ports and the bus semaphore, over processes that end and start |
| `ConfigFile`, `MCConfigFile`, `ConfigFileProofs` | the files of `cs_client/config_file.c`, over crashes |
| `EspNow`, `MCEspNow`, `EspNowProofs` | the boards of `espnow_example_main.c`, over lost frames and restarts |

The composition: `OutputList` uses `RWExclusion` for its lock, which `RdwrLock` is shown to
implement, so what holds of the list with the abstract lock holds with the code's.
`ThreadServer` takes a connection's messages as elements of a sequence; `DeviceLink` shows
when the bytes below make such a sequence (no two sends overlap) and when not.

### RdwrLock

`readersReading` and `writerWriting` are the counters, `lockFree` the set of
threads blocked on the condition variable, `pc` whether a thread is outside,
acquiring or inside.  Each function holds the mutex throughout, so one pass
through its critical section is one step; `pthread_cond_wait` ends a step by
joining `lockFree`.  `RLock`, `WLock`, `RUnlock`, `WUnlock` are the functions,
`Call` is a list operation that begins, `SpuriousWakeup` what POSIX allows.

### OutputList

`node` and `data` are functions from the addresses in use: a list node with `index`,
`datap` and `nextp`, and a record of which only `onoff` is kept.  `first` is
`llistp->first`.  A thread is in a function (`fn`, `target`) with its locals (`prev`,
`cur`); `held` is the record its caller was handed, `stale` says that this record was
freed since.  A walk is one node per step, so readers overlap and a mistake in the
locking would show.

| actions | code |
|---|---|
| `Call`, `Return` | head and end of every function: `*datapp = NULL`, the lock, `cur = prev = first`; the unlock |
| `Walk`, `Scan` | the loops that stop at an index; `ollist_show`, `ollist_printfile`, `ollist_find_op` |
| `Replace`, `Link` | the two ends of `ollist_insert_data` |
| `Remove`, `ChangeData`, `RemoveAll` | `ollist_remove_data`, `ollist_change_data`, `ollist_removeall_data` |
| `Toggle`, `Find`, `FindOp`, `NotFound` | `ollist_toggle_output`; `ollist_find_data` and `_ip`; `_op`; a list that has no such index |
| `UseRecord` | a caller reads its record outside the lock, as `olWriteConfig` does |
| `TouchFreed` | a loop comes to a freed node |

Freed memory reads as anything: the model sets `undefined` and stops there.
`OutputMap` has a table from indices to states, and loses it (`Lose`) when the head
is removed: `remove`, `change_data` and `removeall` free the head and leave `first` on it.
`Map` in `OutputList` takes a list to the table of its nodes.

### ThreadServer

The fields of `pthreads_list` are the functions `sock`, `dest`, `name`, `win`,
`stamped` (`time_stamp > 0`) and `dirty`.  `owner` is the kernel's part: which
connection a descriptor stands for; `accept` takes the lowest free one.  For each
connection `pc`, `fd`, `index` and `src` are the locals of its
`listen_thread`; `src` is the connection its `recv` sleeps on, which stays the
same when somebody closes the descriptor.  `accPc` and `timerPc` are where
`new_sock_thread` and `timer_thread` are; `step` and `at` are how far a thread that
empties slots has come, and with which; `reg` is a value that was loaded by `++` or `--` and
is not stored yet.  `link`, `inbox` and `polled` are the
client and the bytes under way, a message at a time.

| actions | code |
|---|---|
| `Accept` | `new_sock_thread` up to `pthread_create` |
| `RegisterSock`, `CompareSock`, `RaiseHighest`, `RegisterWin`, `RegisterDest` | the fields of the slot, lines 286 to 316, each with its own read of `no_threads` |
| `LoadCount`, `StoreCount` | `no_threads++` |
| `Start`, `Loop`, `Eof`, `TornRead`, `FailTorn` | head of `listen_thread`, `get_msg` and its failures |
| `SetClientName`, `StoreName`, `UpdateStatus`, `Route`, `SendClientList`, `ListSlot`, `Disconnect`, `DisconnectAll` | the branches of its dispatch; `ListSlot` is one turn of the loop that sends the list |
| `CheckName` | the check of `logoff_client`, called by `timer_thread`, `tester_thread` or, after a failed read, a `listen_thread` |
| `CheckCounted`, `SendDisconnect` | the check and the `send_msg` of DISCONNECT_ALL and DISCONNECT |
| `CloseSock`, `ClearSock`, `ClearDest`, `ClearName` | `close`, `sock = -1`, `dest = -1` and the `memset` of the name, which `logoff_client` has not |
| `LoadUncount`, `StoreUncount` | `no_threads--`, which DISCONNECT_ALL has not |
| `SkipSlot`, `LoadDirty`, `StoreDirty`, `PollSlot`, `LogoffDead`, `TimerRound` | `timer_thread`, with `dirty_flag++` in two steps |
| `PressKey` | the key `b` of `tester_thread` |
| `Answer`, `Command`, `Fail` | clients: `thread_client.c`'s answer, any other command, silence or an end of the connection |

A step has at most one store into `sock`, `dest`, `name`, `win_cl`, `no_threads` or
`highest_sock`, and at most one read of `no_threads`; a `++` or `--` is a load and a
store.  Coarser than the code are: where a thread only looks (the scan of `get_dest`, the
lookup of `index`, the condition of an `if`) it looks in one step; `UPDATE_STATUS` stores the flags and
time stamps of all its slots in one, which no other code but `dirty_flag++` writes; and a `recv` of a
whole message is one step.

`mishaps` is a history of the accidents that the missing lock allows: `doubled`, two
threads had one slot in hand at once; `lost`, a `++` or `--` stored over another one;
`misread`, `new_sock_thread` compared or stored the socket of another slot for
`highest_sock`.  All three happen in `server_pair`.  `asked` is a history of the clients that
SEND_STATUS was sent to.

Two places have undefined behaviour, and are a choice: the name one past the table
(`PastNames`), and a read of `pthreads_list[-1]`, taken as no socket.

### DeviceLink

Of the ESP32 client that `esp-idf/tcp_client_v4.c` (and `tcp_client.c`) builds, and of the server's
threads that share its socket.  `stream` has the bytes of each direction, `rest` the calls
of `send` that are left of a thread's frame: the server sends everything after the preamble
one byte a call, the device the length, type and dest at once.  `pc`, `want` and
`answer` are where the reader of a stream is.  The device's `send_msg` adds a dest that
the server's `get_msg` reads; the server's own frames have none.

| actions | code |
|---|---|
| `Connect`, `ConnectFails` | `tcp_client` up to `read_sock_task`'s creation |
| `MainSends`, `ReaderAnswers`, `TimerSends`, `ForwarderSends`, `SendCall` | `send_msg` of the device (name, values; UPDATE_STATUS) and of the server (SEND_STATUS; frames of other clients) |
| `GetPreamble`, `GetLength`, `GetBody` | `get_msg` of either side |
| `ServerCloses`, `SendFails`, `Eof` | `logoff_client`, DISCONNECT and what follows on the device |

The `begun`, `got` and `torn` histories compare what was sent with what was read.  A length is
two numbers below `Base` (16), so lengths stop at 255; a longer text does not fit into the
buffers it is copied to, and is not followed.

### ClientCommands

`qid` and `queue` are the kernel's: the ids of the two queues that `main` makes and
the messages in them; they outlive the process (`Restart`).  `main_qid`,
`basic_controls_qid` and `close_program` are `static` in `tasks.h`, so every source
file has its own: `main` sets those of `thread_client.c`, and `cmd_tasks.c` and
`tasks.c` keep the zeros of static storage (`TaskQid`, `AddQueueQid`).  Usually the
first queue made has id 0, so both tasks read the main queue, and
`get_host_cmd_task` also writes to it; if no queue has id 0, the tasks end the
process at once (`NoQueue`).  A message is its command, its second byte (a length
in what `listen_thread` sends, a state in what `add_msg_queue` sends) and its text.

| actions | code |
|---|---|
| `AnswersPoll`, `Disconnects`, `PassesOn`, `MainReturns` | `listen_thread` and the end of `main` |
| `Receive`, `NoQueue` | `msgrcv` in either task |
| `AddMsgQueue`, `HostDrops` | the two switches of `get_host_cmd_task`; `add_msg_queue` |
| `ChangeOutput`, `ControlsDrop` | `basic_controls_task` with `change_output` and the ports |
| `ServerSends`, `AuxSends`, `ProcessEnds`, `Restart` | the server, `aux_client2a`, exits and kills, a new start |

`msgsnd` waits while the queue is full: the sending actions are not enabled then.
What `add_msg_queue` leaves uninitialised reads as any of `StaleTexts`.  The server
program starts the same two tasks; with them it has only the second queue.

### NBus

`made`, `semval` and `undo` are the kernel's semaphore set and its SEM_UNDO balances, `semid` and
`nbuslocked` what a process knows, `val` the local of `OutPort` and `InPortByte`, `window`
the port that the data register shows, `port` the outputs behind it (the set of bits that
are on).

| actions | code |
|---|---|
| `Call` | `OutPortA/B/C`, `InPortByteA/B/C` call `nbuslock` |
| `Semget`, `Raise`, `Lock`, `Unlock` | `nbuslock` with the creation of the set, `nbusunlock` |
| `Select`, `Read`, `Write` | `winpeek8`, `winpoke8`: address and configuration registers, then data |
| `Start`, `Die` | a process starts, and ends at any step, in the middle of a store too |

### ConfigFile

`outputs` and `params` are the files, sequences of items (an id byte, records, texts, an end
byte); `list` is the output list or the array that a program keeps; `target` and `todo` are
the save in progress.  `ps` is the caller's PARAM_STRUCT, `loaded` says that `LoadParams` has just
reported success, `returned` what its caller finds at the address it got: `LoadParams` returns
the address of a local array, so that is null, the password or anything.  `Open` truncates, `WriteItem`
is one `write`, `Close` ends it; `Crash` keeps what was written, and perhaps a part of the
next item (`Torn`).  A save has one item for every index, `None` for one that is not in the
list, which `WriteItem` passes over.

| actions | code |
|---|---|
| `OlWriteConfig`, `OlLoadConfig` | `olWriteConfig` (an index that is not in the list is not written), `olLoadConfig` |
| `OWriteConfig`, `OLoadConfig` | the same of an array |
| `WriteParams`, `CreateParams`, `LoadParams`, `ParamsRefused` | `WriteParams`; `LoadParams` without a file, with a good one, with another; a file that is refused for its last byte has been read into `ps` by then (`ReadParams`) |
| `Change`, `SetParams` | the program changes an output, its parameters |

A `read` past the end leaves its buffer as it was: the record of the index before, or
`Garbage` if it was never set.  Only `olLoadConfig` is called today (`cmd_tasks.c:301`).

### EspNow

Per board `task` is where `example_espnow_task` is and `unicast`, `broadcast`, `state`, `magic`,
`count`, `dest`, `buffer` are the fields of `send_param`.  `queue` is
`s_example_espnow_queue`, which both callbacks write, and `air` the frames whose callback has
not come.  `bmac`, the address that the code compares with and sends to, is any address.

| actions | code |
|---|---|
| `Start` | `example_espnow_init` and the first frame, after five seconds |
| `Transmit` | the radio delivers a frame or loses it; `example_espnow_send_cb`, `example_espnow_recv_cb` put their events, or drop them |
| `ChainEnds`, `SendNextBroadcast`, `SendNextUnicast`, `SendDone` | the branch EXAMPLE_ESPNOW_SEND_CB |
| `RecvBroadcast`, `RecvStarts`, `RecvUnicast` | the branch EXAMPLE_ESPNOW_RECV_CB |
| `Refused`, `Off`, `Restart` | a send that fails, `example_espnow_deinit`, a reset |

## 3. Runs

| run | instance | shows |
|---|---|---|
| `rdwr_lock` | 4 threads, fair | types, exclusion, no lost wakeup, refinement of `RWExclusion`; the lock is taken, readers are woken |
| `server_pair` | Windows client and one more, one command of any kind or one console key, every store a step | types; `get_dest`, the sockets of the slots and the count, each up to the accident that breaks it |
| `server_live` | 2 clients, silent failures, prompt answers, fair | every counted client is sent SEND_STATUS again, dead clients are logged off |
| `client_commands` | 5 commands, 2 queue layouts, 1 restart, fair | nothing is carried out twice, the client keeps reading, a closing command that is handed on ends both tasks |
| `output_list` | 2 threads, 3 nodes, 3 records, 3 indices | sorted and whole until the head is removed, places stay, handed-out records, freed memory, refinement of `OutputMap` |
| `nbus` | 2 processes, 2 ports of 2 bits, 2 starts each, fair | exclusion over crashes, no lost update, the semaphore is kept and granted |
| `config_file` | 2 indices, 2 records, 2 parameter sets, 1 password | a load that succeeds leaves the parameters of the last write, outputs of the last save or traces of it |
| `espnow` | 2 boards, 2 magic numbers, count 2, queue 2, 2 restarts, fair | one sender, that was heard and sends its count; chains; the exchange finishes |
| `device_link` | the device's two tasks, timer and one more thread; preamble 2, base 2, texts of 1 and 2 bytes; 2 frames of the main task, 1 of the others; fair | frames whole, readers in step, polls answered, unless sends overlap |
| `start_race`, `stale_flag`, `client_status` | 2 clients; a client that comes back; 5 commands | the findings below |

**Bounds.** Connections are made once each, so an instance's set of connections
bounds accepts (a client that comes back is a second connection of the same
client).  The table has as many slots as there are connections: `no_threads` may go
down and live slots may be overwritten, but the eighth client of seven is not
followed (`InTable`).  `MaxCommands` bounds commands and console keys.  `dirty` stops
at 2, since it is only compared with 1.  `MaxUnread` bounds the messages of a client that
the server has not read: it is the room in a socket's buffers, and a client with two unread
messages waits with the next.  Two connections are enough for
every pair of threads to meet on one slot, one descriptor and one inbox: the timer, the console
and both `listen_thread`s may each be emptying the same slot while `new_sock_thread` fills it; four
lock threads let a signal choose among readers and writers that sleep.

`Prompt` says that within the two minutes of `TIME_DELAY_1` every client that is
up answers and every thread handles what it can read.  It is assumed where a
property would otherwise fail for slow clients only.

The client's commands are sent once each.  A queue holds two messages instead of
some fifty (16384 bytes of 300): three commands that go to it are enough to fill it
and have one more wait.  One restart is enough for a message of one process to meet
the next.

A list of three nodes has a head, a middle and an end; a call of `insert` begins only while
there is memory (`HasMemory`).  The two threads are alike, and no temporal property of
`output_list` but two action properties is checked, so symmetry in them is sound.  Two bits
of two ports are enough for an update to be lost, in the bit or in the window; a process
that starts twice can end with the bus and come back.  Two indices let a gap be before and
behind a record; one password is enough, since no property promises it and the parameters tell
two writes apart.  In `espnow` two restarts are one of each board;
`dropped` and a refused send are followed once, after which the exchange may stop.
In `device_link` texts and preambles are shorter than in the code, but longer than one byte,
so that a send can begin inside all parts of another frame; the device's values come twice.

The server may really stop (SIGPIPE), the client may have ended, commands, starts and frames
may be used up, freed memory may have been read, and an exchange of boards ends: the runs of these modules do not check deadlock.
`rdwr_lock` and `config_file` do.

**Fairness.** Of the server: `new_sock_thread` once it has accepted, the timer, the
console's logoff and each `listen_thread` are scheduled in the end, and a thread that holds a part
of a message goes on when there is more to read.  Of clients it is assumed that they answer
where `Prompt` says that they do, and nothing else.  Of the lock: a
thread that is not asleep gets the mutex, and list operations end.  A writer may
starve, and no property says otherwise.  Of the client: its threads are scheduled;
nothing is assumed of the server, of `aux_client2a` or of restarts.  Of the bus: a process
inside a call runs, and the kernel wakes those that wait for a semaphore in the
order they came (strong fairness of `Lock`).  Of the boards: tasks and radios run, and a
frame that is sent again and again is heard now and then (strong fairness of a transmission
that reaches everybody; the FreeRTOS task sleeps between sends, and the radio is
no adversary).  Of a device link: tasks and threads run and TCP delivers.

### Findings

* `start_race`: a `listen_thread` that looks itself up before its slot is filled in
  falls back to slot 0 and spoils that client's answer; the timer logs it off.
* `stale_flag`: a reused slot keeps the `dirty_flag` of its dead client; the first round of
  the timer takes the new one for dead and logs it off, and it was never sent SEND_STATUS.
* `client_status`: after a closing command (EXIT_TO_SHELL, ...) both tasks end, and the
  process does not, since `main` looks at another `close_program`; once the queue is
  full `listen_thread` waits for ever and answers no SEND_STATUS.

### What the models have in them without a property

Behaviour of the code that a reader of the models will meet, and about which no
text of the repository says what should be:

* Server: all three accidents of `mishaps` happen; after them slots may share a socket or keep
  a closed one, `get_dest` may stop short of the slot it looks for, and `no_threads` may be below the
  live slots or negative (`LiveWithinCount`, `SlotsOwnSockets` and `GetDestFinds` say which accident each needs).
  The thread of a client that was logged off reads the connection that gets its descriptor's number; after a logoff a
  live client may sit above `no_threads`, where the timer, routing and DISCONNECT do not
  look; Windows frames go to whoever sits in the Windows client's old slot; polling a closed
  connection may end the server (SIGPIPE); an UPDATE_STATUS does not reach slots behind a stamped
  one of the same name.
* Client: `basic_controls_task` may take a command that was meant for
  `get_host_cmd_task` and reads the length of ON as a state; an OFF that it takes first
  switches the east light on, since its relay is inverted; a command that is handed on goes
  to the end of the queue; a closing command with another text than ON or OFF ends
  `get_host_cmd_task` alone, so `CloseReachesBoth` is about those that were handed on;
  the length of the answer to SEND_STATUS is that of another
  buffer, so names may arrive cut.
* List: after its head is removed the list is lost; `toggle` returns an uninitialised value
  when it finds no index; `change_output` returns before it does anything; the record a
  removed node had under `change_data` is nobody's.
* Bus: a process that dies between creating the semaphore and raising it leaves it at zero
  for all (hence `raised` in `SemaphoreIsKept` and `LockIsGranted`).
* Files: `LoadParams` without a file hands the address of its argument to `WriteParams`
  (`CreateParams` writes `Garbage`); a load that is refused at the end byte has overwritten the
  caller's parameters; the returned password is on a stack frame that is gone; an outputs file that was cut by a crash is loaded
  all the same, with records repeated or from the stack.
* Boards: the broadcast address in the code (`:43`) is that of no board, although the comment above
  it (`:41`) names the slave; then, as with a board's own address, no exchange starts, and
  `SenderFinishes` is about the address for all.  After a restart of the sender the receiver never
  broadcasts again.  Of three boards two may become senders.  The queue is deleted before
  the callbacks are off.
* Devices: after the server closes, the main task tries to send for ever and never connects again.

## 4. Proofs

Every proof is for any value of the constants, under the named `ASSUME`s of the modules, which TLC
evaluates in every run.  What is proved of a module that no run lists as a property
(`CountersMatch`, `ReadersWaitForWriters`, `WindowIsOwn`) is a part of its inductive invariant.
Every invariant and action property of the passing runs has a theorem, and so have both refinements.

`RdwrLockProofs`, for any finite set of threads: the conjunction of its five
invariants is inductive (`IInv`).  `Exclusion` alone is not: it speaks of threads,
the code of counters, and `CountersMatch` ties them by cardinalities.
`NoLostWakeup` needs `ReadersWaitForWriters`: after the last reader's signal
the sleeper that woke is a writer, which can go in.  `Refinement` shows
that initial states and steps map to `RWExclusion` (`ImplementsExclusion`).

`OutputListProofs`, for any threads, addresses and indices: `IInv` is `TypeOK`, `LockInv` (who is in a
function is in the lock, writers alone), `CallInv` (what a function has from its call
on), `HeadStaysLost` (once `first` is a freed node nobody gets further than it),
`SortedUntilLost`, `PlacesStay` and `HeldIsAllocated`.  No one of the last three is
inductive: a link keeps the list sorted because the place that the thread walked to is still a
place in it, that place stays because a writer is alone, and a record is allocated because
the list is whole.  `FreedReadOnlyAfter` follows step by step: inside the lock a walk
comes to a freed node only if `first` is one.
`Refinement` shows that every step maps to one of `OutputMap` or leaves its table
(`ImplementsMap`).  The table is a function of the set of nodes, so an insert into it is an insert
into the list wherever it is linked; that needs `SortedUntilLost` (an index has one node) and
`PlacesStay` (the node that is changed is still in the list).  One more invariant is carried along
(`Served`): while a replaced record is in use the list has a node, so what is lost by reading
that record is not an empty table, which `OutputMap` would not lose.

`ThreadServerProofs`, for every table size, set of connections, mixture of commands
and failures, over steps of single loads and stores: `TypeOK` is inductive by itself, one lemma per
action.  `IInv` adds `Shared`.  `SlotsOwnSockets` is not inductive: it leaves out the slots between
`close` and `sock = -1`, so it needs to know that such a slot is in one thread's hands only
(`HeldApart`: until two threads took one slot on, a slot that is being emptied is live and
has one thread that empties it), or the second thread would close what the first has just
given back; and it needs `AcceptedIsFresh` (the descriptor just accepted is open and in no slot), since
`RegisterSock` stores what `Accept` got several steps earlier.  `SocketsBounded` (no socket is
above `highest_sock` but the one that is being compared) carries `GetDestCorrect`; it speaks of
the newest socket by `fd` and not by `no_threads`, which may name another slot by then.
`LiveWithinCount` counts the threads between `sock = -1` and the store of `no_threads--` with the live
slots; each store of a count is the count plus or minus one as long as none was lost, and
`UncountsOne` says that DISCONNECT_ALL never gets there.  Most steps touch neither a socket nor
a thread that empties one; one lemma (`Quiet`) covers them all.

`ClientCommandsProofs`, for any set of commands, layout, queue limit and number of
restarts: `AtMostOnce` counts what was carried out and is not inductive.  `IInv` says
that a command that was sent is in at most one place: on its way, in one queue and
there once, with one task, or carried out (`NoRepeats`, `OnePlace`, `OnlySent`), and that a task
with a message has found its queue.  Four lemmas say what `Append` and `Tail` do to
the set of commands of a sequence; each step then moves one command, or loses it.
`CloseIsUnderWay` is the invariant behind `CloseReachesBoth`, which itself stays with TLC: from the end of
`get_host_cmd_task` by a closing command that it handed on to the end of `basic_controls_task`, that
command is in the queue that both read, or with the other task.

`NBusProofs`, for any processes, ports and bits: `IInv` has the kernel's books (`Books`: who is on the
bus has one unit of SEM_UNDO and nobody else has, and the value is what is left of one),
`OneCreator` (the semaphore is raised once), `CallsAreCalls`, and from being alone that the
window is the caller's (`WindowIsOwn`) and that the byte `OutPort` has read is still the
port's (`ValIsPort`).  `OnlyTheBit` follows from `ValIsPort`.

`ConfigFileProofs`, for any number of outputs and any records, parameters, passwords and bytes: `ParamsOfLastWrite` speaks of a load; what makes it true
is a relation between the file and the save in progress (`Halves`: what is in the file
and what is left to write make up the save) and what remains of it after a crash
(`EndIsLast`: a file of full length that ends with the end byte is the one that was to be
written).  `SecondHeld` says that what any file has in the second place, cut short or not, is what a
PARAM_STRUCT may hold: a refused load takes it over, and the next save writes it.  The outputs have neither a length nor an end byte that a load looks at.
A second invariant (`OutInv`) says what may be at which place: `Content` and `Pending`
that records come after the id, in the file and in what is left; `Whole` that of a list without gaps
the file and what is left make up the save, and after a crash item k is the record of index k - 2 or torn.
`OutputsComeBack` follows from the places: what a load repeats past the end is an earlier record.
Of a list with gaps nothing is known but the types, as the places have moved.

`EspNowProofs`, for any magic numbers, count, queue, losses and restarts: `Honest` says that a frame
carries its sender's magic number and a state that the sender still has, `Started` that a sender
has compared its number with that of another board that has heard somebody.
`SenderWasHeard` follows for any set of boards, `OneSender` for pairs (`Pair`): of three boards
two may start with one another's frames.  A second invariant (`Chained`) carries
`SendsItsCount`: of the unicast chain there is at most one frame, in the air or as an event in the queue;
while there is one, the frames sent and the count left add up; and a board that is no sender has none.
A third (`Light`) bounds the frames in the air and the callbacks in the queue together (`OnWay`): one
of a board that is no sender, two of one that is, none before the first.  It is proved from lemmas on
what `Append` and `Tail` do to the number of callbacks in a queue; `TwoChains` follows.

`DeviceLinkProofs`, for any preamble, base, texts, senders and number of frames: what is in a
stream is said by places, a function p from frames to where each begins, counted from the next byte
that is read.  `InStep` says that such a p exists, unless two sends overlapped: each frame
ends where the next begins, the bytes at a frame's place are those that its body gives
(`FrameByte`: preamble, halves of the length, body), the reader stands inside the first frame it has
not finished, and what a sender has left is the end of the last.  A step adds a frame behind the last,
moves some bytes from a sender to the stream, or moves all places down by what was read.  Since p is only
said to exist, no function has to be computed along the sequence, which would be an
induction.  `LengthSurvives` is the arithmetic: a length below Base * Base is what its halves make.
`FramesArriveWhole` and `StaysInStep` follow, and `TypeCorrect` takes from the same invariant that the bytes
read as halves of a length are below the base.
A second invariant (`Counted`) is about who answers, and holds with sends that overlap too: the answers begun
and the one that is due are as many as the SEND_STATUS that `read_sock_task` has read, until the
server closes (`AnswersCounted`, the safe half of `StatusGetsAnswer`).  It counts frames by the cardinality
of a set of places, so that one more frame is one more element and no recursion is needed.
Both invariants together give `NothingUnasked`: without overlapping sends the server reads no more
UPDATE_STATUS than it has sent SEND_STATUS.

Only model-checked: the liveness properties (`LockIsTaken`, `ReaderIsWoken`, `CountedAreAsked`,
`DeadAreLoggedOff`, `KeepsReading`, `CloseReachesBoth`, `LockIsGranted`, `SenderFinishes`, `StatusGetsAnswer`), since
ENABLED, which fairness is about, is out of the prover's reach; and the three findings, which are counterexamples.

## 5. Not modelled

* Server: commands that only print; `send_thread` and `read_thread`, which are never started; `main`'s
  join loop; Windows frames (`get_msgb`, `send_msgb`) byte by byte.
* Client: the clock and the count-down that `get_host_cmd_task` sets, what it prints, and
  `tester_thread`, `send_queue_thread` and `monitor_input_task`, which are never started.  A
  `recv` that fails may leave the last preamble on the stack, so that the last command
  repeats; the model ends the process there.
* Bus: the mapping of the registers at the start; `get_pin`, `set_pin`, `set_dir`, `nbuspreempt`,
  the 16 and 32 bit windows and the variants that lock for several accesses, which have no
  caller.  `nbuslocked` belongs to a process: a second thread would take a held lock for its
  own, but no program has a second thread that uses the bus.
* Files: `LoadSpecialInputFunctions`, `GetFileFormat`, `getFileCreationTime` and the XML
  output only read or format; the odometer is compiled out.
* Devices: the queue from ESP-NOW to TCP is never filled (`init_espnow_master` is commented out); the
  two reads of a length are not looked at, which on a closed connection gives a length from
  the stack (the model ends the task at its next read).
* Boards: the payload (whose loop writes past the end of the buffer by the size of the header),
  sequence numbers and checksums, memory that runs out.  The master and slave programs
  send one kind of reading each and keep no state between two of them; the master's source
  uses fields that its header does not declare.
* Arduino sketches: the receiver never calls its `connect`.  The sender boards share one message
  buffer between the interrupt handler and `loop()`, which is on the list of hazards: an
  interrupt between the two assignments before a send makes `loop()` send a second command
  frame, or a reading with the handler's zeros.  Each sketch is one function on one buffer; there is no
  protocol of several steps that a model would add to that sentence.

## 6. What was planned and is done

In this order: the lock, the server's table, the client's commands; then the list on the lock with its
abstract table, the bus, the files, the boards, and the bytes of one connection, each with its
runs and proofs; then the refinement of `OutputMap`, the outputs over crashes, the boards' chains and
the bytes of a connection as theorems.  What would come next: the composition of `DeviceLink` with the
table of `ThreadServer`, which TLC cannot exhaust as it is.

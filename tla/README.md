# HelloCpp in TLA+

This directory models the programs of the HelloCpp repository in TLA+, checks
the models on small instances with TLC and proves the most important results
for every instance with TLAPS. Every definition is translated from the C++ (for
cJSON, C) source; `PROJECT.json` maps each one to its lines.

Contents: [the system](#the-system), [modules](#modules),
[how the models correspond to the code](#how-the-models-correspond-to-the-code),
[what the runs check](#what-the-runs-check), [bounds](#bounds),
[fairness](#fairness), [proofs](#proofs),
[what disagrees with the code's own comments](#findings),
[what is not modelled](#what-is-not-modelled), [plan](#plan).

## The system

The repository is a collection of independent C++ programs and small libraries.
Paths are relative to `src/`.

| part | state it keeps | operations | who it interacts with |
|---|---|---|---|
| **rot13_select** `HelloCpp/src/rot13_select.cpp` | a table of line buffers by descriptor (`fd_state`: bytes, `buffer_used`, `n_written`, `write_upto`, `writing`), the sets of `select`, the loop variable | `run` (build sets, select, accept, serve, drop), `do_read`, `do_write`, `alloc_fd_state`, `free_fd_state` | kernel and clients, through `select`, `accept`, `recv`, `send`, `close` |
| **rot13_libevent** `HelloCpp/src/rot13_libevent.cpp` | a line buffer and two persistent events per connection | `do_accept`, `do_read`, `do_write` as callbacks, `free_fd_state` | libevent's dispatcher, kernel, clients |
| **rot13_libevent2** `HelloCpp/src/rot13_libevent2.cpp` | a bufferevent per connection, with an input, an output and a high watermark | `readcb`, `errorcb`, `do_accept` | libevent, clients |
| **echo_libevent** `HelloCpp/src/echo_libevent.cpp` | a `client` and a bufferevent per connection | read, write, error and accept callbacks | libevent, clients |
| **rot13_fork** `HelloCpp/src/rot13_fork.cpp` | a line buffer per child process | accept loop with `fork`, `child` | kernel (processes), clients |
| **addressbook** writer and reader `HelloCpp/proto` | a file | read all, append one, truncate and rewrite; list | the file system, other writers |
| **cJSON** `HelloCpp/thirdparty/cjson` | trees of linked items and the strings they own | create, add, detach, delete, replace, duplicate, references, parse, print | malloc, its caller |
| **MyQueue** `HelloCpp/p/stack_queue.cpp` | two stacks | `push`, `pop`, `front`, `back`, `empty`, `size`, `move` | its caller |
| **SelectionScan** `rethink_simd/SelectionScan.cpp` | loop variables, a buffer of row ids, the output columns | four scans: two scalar, 256-bit, 512-bit | the table it reads |
| **Partitioning** `rethink_simd/Partitioning.cpp` | a histogram per lane, offsets, the output column | histogram, offsets, conflict serialisation, shuffle | the table it reads |
| **SIMD driver** `rethink_simd/main.cpp` | the table's size | the scans, then the partitioning | both |
| **Base64** `gcc-basic/base64-impl.h` | none (pure) | `Encode`, `Decode`, length functions | its caller |
| blocking_socket, curl_wrapper, evhttp_server, simple_evhttp | buffers of one request | send and receive loops, callbacks | a server, libcurl, libevent |
| Foo `HelloCpp/lib/hello_cpp.cpp` | none (pure) | a greatest common divisor | its caller |
| database, string, lambda, Arrow, Velox and JNI demos | locals | calls of a library | the library |

Parts in bold are modelled (cJSON in part, see
[what is not modelled](#what-is-not-modelled)). What is hard about them:

- **The line servers** are single-threaded, but nothing else stands still:
  clients connect, send, stop reading, shut down and reset between any two
  system calls. The sets that `select` fills are used after accept and the
  handlers of other connections changed the table. A buffer that holds a
  partial line is not rewound, fills up and drops bytes, newlines included,
  while a dropped newline still commits. Sends are partial. Descriptors run
  out. With libevent, callbacks that are active at the same time run in an
  order of the library's choice, one of them may free what another uses, and
  nothing closes a descriptor. They are correct if every committed byte is sent
  once, in order and transformed; cursors never leave the buffer; no handler
  sees a connection that is gone; no client is hung up on because of another;
  and lines are eventually echoed.
- **The bufferevent servers** see a stream in pieces that libevent chooses. One
  suspends receiving at a watermark and answers a line that is too long with a
  newline of its own; the other answers one line a callback. Both drop what is
  in the output when a connection ends. They are correct if the answers do not
  depend on the pieces.
- **rot13_fork** ignores what `send` returns, closes nothing in the parent and
  waits for no child. It is correct if a child is a line echo for its client
  whatever happens to the other children.
- **The address book** is truncated and then rewritten, by writers that nothing
  keeps apart. A crash in between loses the book, two writers lose or mix
  persons, and which calls are checked decides what a failure costs.
- **cJSON** links items three ways, shares children through references, and
  checks some of its mallocs and not others. It is correct if, after any
  sequence of legal calls, every list can be walked both ways and every item
  and string is owned once.
- **MyQueue** turns one stack over onto the other, in either direction
  depending on the call. It is correct if no order of calls can tell it from a
  queue.
- **The scans and the shuffle** keep data in flight across iterations: ids left
  in a buffer after a flush, offsets overwritten to detect conflicts and then
  repaired. They rely on sizes, alignment and initial memory that nothing
  checks. They are correct if they compute what a loop over the rows would.
- **Base64** has a remainder of 0, 1 or 2 bytes, with and without padding. It is
  correct if decoding undoes encoding.

All the hazards, with the line where each bites and the property that covers
it, are listed in `PROJECT.json` under `hazards`.

## Modules

    Rot13                  rot13_char, the newline
      LineEcho               abstract: what a line server promises
      Connections            external: the kernel and the clients
        LineBuffer, LineServer   struct fd_state, and the properties of both
          Rot13Select            rot13_select.cpp         MCRot13Select
          Rot13Libevent          rot13_libevent.cpp       MCRot13Libevent
        Bufferevents           rot13_libevent2.cpp,
                               echo_libevent.cpp          MCBufferevents
        Rot13Fork              rot13_fork.cpp             MCRot13Fork
    AddressBook            the writer and the reader      MCAddressBook
    JsonForest             abstract: containers are sequences
      CJson                  cJSON.c: the trees
        CJsonText              what they print as         MCCJson
    FifoQueue              abstract: a queue
      MyQueue                stack_queue.cpp              MCMyQueue
    Base64                 base64-impl.h                  (in MCMyQueue)
    SelectionScan, Partitioning                           their sources
      RethinkSimd            main.cpp: one after the other

    LineServerProofs       one buffer, and what both servers share
      Rot13SelectProofs, Rot13LibeventProofs
    Rot13ForkProofs, BuffereventsProofs, AddressBookProofs
    ContainerProofs        CJson, MyQueue and Base64
    RethinkSimdProofs

`LineServer` and `Rot13Fork` instantiate `LineEcho` with a refinement mapping
each, `MyQueue` instantiates `FifoQueue`, `CJson` instantiates `JsonForest`.
`RethinkSimd` composes the two SIMD programs over one table. The select and
libevent servers differ in what drives the handlers and in a few lines of the
handlers; what they share is in `LineBuffer` and `LineServer`, so that it is
stated, and proved about, once.

## How the models correspond to the code

**One step per system call.** The servers block or are preempted nowhere else,
so clients move between any two calls, and a call with the code that follows it
up to the next is one action. `Recv` is one turn of `do_read`'s `while (1)`,
with the loop over the bytes (`StoreChunk`); `RecvAgain` and `RecvEnd` are its
exits. `Send` is one turn of `do_write`'s loop, and the kernel takes any number
of bytes from 1 to what fits; `SendAgain`, `SendDone`, `SendError` are its
exits. A handler that returns nonzero frees, forgets and closes in the same
step (`Drop`), as the loop of `run` does.

**The line buffer** is a record with the fields of `struct fd_state`;
`buffer_used` is the length of the sequence `buffer`, whose elements are the
transformed bytes. `StoreChunk` is the closed form of the loop over the
received bytes; `StoreByte` is one turn of that loop, and the theorem
`StoreChunkByByte` says that a chunk with one more byte is the chunk and then
the byte.

**libevent** is external: `Poll` makes every ready event active and `Callback`
takes any active event. In `rot13_libevent.cpp` there is no `writing` field;
the model uses it for "the write event is added". `event_free` and `event_del`
deactivate an event, which is what saves `do_read` from leaving a callback
with a freed buffer behind. The buffer is rewound to 1 instead of 0 there
(line 141): `FinishWrite` has the base as a parameter. With MAX_LINE 1 that
rewind would fill the buffer, which is why `LibeventAssumption` has
`MaxLine > 1`.

**Bufferevents** are two byte sequences per connection. A read event receives
once and calls the server's callback in the same step (`readcb`,
`buf_read_callback`); a write event sends once. libevent adds the read event
while the input is below the watermark and the write event while there is
output. A write callback that finds nothing to do is left out, as is a failure
of malloc inside libevent. In the echo server, a run of CR and LF ends a line,
and one byte, `Said`, stands for "You said ". The `%s` that follows it prints a
line up to its first NUL (`Printed`); what the line has after that is out of the
input by then, and lost.

**rot13_fork** has a parent (`Accept`, `Fork`) and a child per client. A child's
blocking `send` copies its bytes in pieces (`n`), is interrupted by nothing but
the connection's end, and what it returned is not looked at.

**The kernel and the clients** (`Connections`) give the least descriptor that
is free, keep a backlog, bound what is buffered towards a client (`SendCap`),
and let accept fail at any time (EMFILE, ENFILE). A reset loses nothing that
was received but makes the next call fail. A send to a client that had shut
down before it reset raises SIGPIPE, which ends the process: no program here
ignores it.

**The address book's file** is a sequence of half records: a person is a head
and a tail, so that a read or a write can stop inside one, and a record whose
head is one writer's and whose tail is another's can come about, as it does
when two writers of records of equal length overlap. Reads and writes go piece
by piece at the offset of the process that makes them; a write beyond the end
of a file that somebody truncated leaves a hole.

**cJSON's memory** is a set of places for items (`Items`) and one for strings
(`Texts`), which hold an item, a string or nothing, and of which `MaxCells` may be
in use: how full it is decides which malloc of a call fails, and the call goes
on as the code does, to the end of the process where it follows the null pointer
(`crashed`). A call is an operator from the memory before it (`Heap`, with the
error pointer `ep`) to the memory after it and what it returns. `Spare` are the
places that only a call with more room gets: `PrintParses` asks what calls would
do if memory sufficed, `DuplicateIsIdentical` asks it with and without. `Tree` is the value that an item stands for, its
references resolved.

The mutual recursion of the copying and parsing functions is a recursive function
over its depth (`Copies`, `Members`): a tree is at most as deep as there are items,
and every member takes a token of the text, so that the depth that is given is
never used up. The loop over a list and the recursion below it are one there,
`DuplicateChain` and `parse_more`: each turn adds one child. `cJSON_Delete` is given
by what it frees, everything that `next` and `child` lead to but for what a
reference shares (`Reachable`); so are the items below another. The caller keeps to
the header: it hands over only items it holds, does not put an item below
itself, and does not free a container while a reference to its children is in
use. The text of a value is a token.

**What the standards leave open** is a choice. `rot13_select` tests
`fd > FD_SETSIZE`, so descriptor FD_SETSIZE stores one past the table
(`AcceptPastTable`): the process goes on without serving that connection, or
ends. The SIMD programs fetch and store where nothing guarantees alignment,
size or a value: the loop goes on, or reaches the phase "undefined", of which
nothing is said.

**History variables.** `stored` (the bytes that entered a line buffer) is in no
program; it is there to say what may be echoed. `ret` in the queue is what the
caller got. `entered`, `saved`, `faults` and `collided` remember what happened
to the address book; `overwritten` the one kind of string that cJSON leaks.

## What the runs check

| run | question | properties |
|---|---|---|
| `select_stream` | one connection whose bytes overflow the buffer, in every split | `CursorOrder`, `WritingIffPending`, `EchoFaithful`, `NothingLostBelowMaxLine`, `ImplementsLineEcho`, `EchoesCommitted` |
| `select_live` | two connections that come and go, sends that block, accept that fails | `ReadySetsValid`, `NoHangUpOnOpenClient`, `LineEchoed`, `DescriptorReleased` |
| `select_table` | three clients, more descriptors than slots | `TypeOK`, `DescriptorsAccounted` |
| `libevent_live` | two connections, callbacks in every order | `WriteEventIffPending`, `ActiveEventsValid`, `LineEchoed`, `BufferFreed` |
| `libevent_table` | three clients, descriptors that are never closed | `OnlyLeaversLeak`, `EchoFaithful` |
| `bufferevent` | both bufferevent servers, every cut of a stream with NUL bytes | `AnswersByteByByte`, `EchoesEveryLine`, `LineAnswered`, `DescriptorReleased` |
| `fork` | a child that works next to one that waits for ever | `NothingLostIfLinesFit`, `ImplementsLineEcho`, `LineEchoed`, `ChildEnds` |
| `addressbook` | three writers and a reader in every overlap, a fault at any step | `SavedInOrder`, `NeverMangled`, `HeldBeforeTruncated` |
| `json` | every sequence of calls in a memory that gets full | `WellFormed`, `DuplicateIsIdentical`, `PrintParses`, `ImplementsForest` |
| `my_queue` | every order of calls, and every content through Base64 | `Base64RoundTrip`, `ImplementsFifoQueue` |
| `simd` | the whole SIMD program | `VectorSelects`, `OutputComplete`, `CountsAgree`, `SerializedInOrder`, `StableFromZero` |
| `partition_first` | a violation, see [findings](#findings) | `ShuffleStable` |

What they show:

- `LineEcho` says what a line server may do: accept bytes, commit through a
  newline, echo committed bytes in order and once, hang up. `rot13_select`
  implements it, its liveness included (`EchoesCommitted`): what is committed is
  echoed unless the server hangs up; so do `rot13_libevent` (proved) and the
  children of `rot13_fork` (proved as well). A newline that finds the buffer full
  commits everything that is stored; that is why `CommitPoints` has the end of
  what was accepted besides the newlines. `LineEcho` does not know when a newline
  is dropped, so the refinement by itself does not say that only complete lines
  are echoed; that nothing beyond the mark set by `do_read` is sent is `CursorOrder`.
- With a line buffer, bytes are lost only beyond the first MAX_LINE of a
  connection (`NothingLostBelowMaxLine`), but beyond them short lines are no
  protection: a partial line that is always there keeps the buffer from being
  rewound. In `rot13_fork` short lines are a protection
  (`NothingLostIfLinesFit`).
- In `rot13_select` slots, descriptors and connections agree after any
  sequence of accepts and drops, with the one exception of descriptor
  FD_SETSIZE (`DescriptorsAccounted`), and a descriptor that is ready stays so
  until it is served (`ReadySetsValid`).
- In `rot13_libevent` a connection that ends never gives its descriptor back.
  `OnlyLeaversLeak` bounds the damage: a descriptor without a buffer is that of
  a client that left.
- Accept that fails leaves the listener ready, and the loop never blocks again;
  `LineEchoed` holds nevertheless for the clients that are connected.
- `rot13_libevent2` answers as if the bytes had come one by one, the newline it
  adds at MAX_LINE included. `echo_libevent` answers the lines it took from its
  input, each once and in order, and drops none but empty ones; of a line it
  loses what follows a NUL byte, and nothing else (`EchoesEveryLine`, which does
  not count lines of which nothing is printed). It is live
  only for a client that waits for the answer before its next line: the second
  line of one segment stays unanswered until more bytes arrive (`Polite` in
  `LineAnswered`).
- Without overlap and faults the address book is the persons saved, in order. A
  writer that crashes or overlaps can lose the book or cut it, but without
  writers that collide what a writer takes in is persons that were entered, each
  once and in the order they were entered, and so it is for a reader beside a
  writer unless something failed (`NeverMangled`); and a
  writer destroys nothing that it does not hold, unless it could not open the
  file: then it takes the book for new.
- cJSON's structure survives every malloc that fails, as far as the process
  does: the places where it does not check are reached in the run and end it.

The deadlock check is on for `my_queue`. It is off elsewhere: a server whose
clients have sent what they are going to send blocks for ever, the programs on
the address book and the SIMD programs end, and so does a process that followed
a null pointer.

## Bounds

| constant | values | why they are enough |
|---|---|---|
| `MaxLine` (16384) | 1 to 3 | a buffer that is empty, partial, full, and full with a partial line; in `fork`, a line that fits and one that does not |
| `RecvMax` (1024) | 1 to 3 | a chunk with no, one and several newlines, that fits, does not fit, and ends exactly at the end of the buffer |
| `MaxSent` | 5 with `MaxLine` 3; 2 each; 1 each; 3 for one client and less for the other | the buffer overflows, is rewound, and is used again; two lines, of which the second blocks; where only who is connected matters, one byte |
| `SendCap` | 1, 2 | partial sends and EAGAIN |
| `Clients` | 1, 2, 3 | one stream; two that interfere; one for each of served, past the table and refused |
| `FdSetSize`, `NoFile` | 1 to 4 | descriptors below, at and above FD_SETSIZE; none left |
| `MaxProc` | 2 | both clients have a child; zombies use the bound up |
| `Letters` | `a` and newline, or newline; in `bufferevent`, NUL too | the properties tell newlines from other bytes, and where `%s` prints a line also NUL; that bytes are transformed is seen on `a` |
| `Writers`, `Readers` | 3, 1 | two writers that overlap after a third, or before it; a reader beside any of them |
| `Items`, `Texts`, `MaxCells` | 4, 3, 6, and 9 of `Spare` for calls with more room | a container with two members and an item apart; calls that need two or three places and find one or none |
| `MaxRoots`, `MaxRefs` | 2, 2 | a container and what is added to it; a reference to an item and one to its container |
| `Keys`, `Documents` | one name, four texts | members of the same name; texts that are whole, followed by more, malformed, truncated |
| `T`, `MaxSize` (queue) | 3 bytes, 5 at once | both stacks non-empty, turned over both ways; every remainder of Base64; bytes with high and low bits |
| `W256`, `W512`, `BufSize`, `OutSize` | 2, 4, 8, 24 | the proportions of lanes and buffer; room for several flushes |
| `TableSizes`, `Bounds`, `Cycles`, `PartitionNums`, `FirstOffsets` | see the .cfg | empty table, whole and partial vectors, ranges that select nothing, a part and everything; one to four partitions in a vector, fewer and more partitions than keys tell apart |

`MaxSent`, `MaxSize`, `MaxRoots`, `MaxRefs` and the sets of inputs are the only
bounds that the programs do not have; every other constant is a parameter of
the code or of the system it runs on.

Symmetry is used in runs without liveness properties only: clients
(`select_table`, `libevent_table`), writers, and the places of memory in `json`,
where it makes no difference which free place malloc takes. Distinct states per
run are between 9,000 (`my_queue`) and 730,000 (`addressbook`).

## Fairness

`FairSpec` of the servers in one process asks for weak fairness of
`ServerStep`: a single-threaded loop runs on whenever it is not blocked in a
call. For libevent that includes the dispatcher, which calls every active
callback before it polls again. A select or poll that fails (`SelectFails`,
`PollFails`) ends the loop at any turn, but is outside `ServerStep`: fairness
that could be met by failing would make every line owed by an idle server void.
It also asks that a client that is connected reads, at last, what it is sent
(`ClientRead`): without it a client that never reads keeps a line for ever, in
the code as in the model. Clients are not asked to send, and accept is not
asked to succeed. The properties under fairness except the end of the process,
which one client can cause through SIGPIPE, and clients that leave.

`rot13_fork` has weak fairness for the parent and for each child by itself:
they are processes that the system schedules. Only `Readers` are asked to read,
so that a child may wait for ever in `send`, and the others must not care.

The address book, cJSON, the queue and the SIMD programs have no liveness
property: they do what they are called for and end.

## Proofs

TLAPS checks every proof in eight modules. Two of them are about a server each,
for any number of clients and descriptors, any buffer size and any chunk size:

| `Rot13SelectProofs` | `Rot13LibeventProofs` | what it gives |
|---|---|---|
| `TypeCorrect` | `TypeCorrect` | `TypeOK` |
| `CursorsStayInOrder` | `CursorsStayInOrder` | no access of a line buffer is out of bounds |
| `DescriptorsStayAccounted` | `LeaversLeak` | table and descriptors agree; only clients that left leak |
| `ReadySetsStayValid` | `EventsStayValid` | no handler is called for a connection that is gone |
| `WritingStaysIffPending` | `WriteEventStaysIffPending` | writing is watched for exactly while something is unsent |
| `EchoStaysFaithful` | `EchoStaysFaithful` | what is echoed is a prefix of the transformed bytes |
| `NothingIsLostBelowMaxLine` | `NothingIsLostBelowMaxLine` | the first MAX_LINE bytes of a connection are kept |
| `NeverHangsUpOnOpenClient` | | no step closes the connection of a client that stays |
| `RefinesLineEcho` | `RefinesLineEcho` | every step is one of `LineEcho` or a stutter |

None of these is inductive alone. The invariant of `Rot13Select` is built in
four layers:

1. `Inv1` = `TypeOK`, `CursorOrder`, `Table` (slots and descriptors agree and no
   client is behind two), `Waiting` (a client in the backlog is behind no
   descriptor and there once), `Phase` (the descriptors ahead of the loop
   variable are in the table and still ready). They need each other: a handler
   keeps the cursors in order only for a buffer that exists, the table keeps
   its shape only if accept takes a client that is in no slot, and a descriptor
   stays ready only if no other descriptor has its client.
2. `Inv2` adds `Buffers` (outside `do_write` the flag says whether something is
   unsent, and a buffer that is sent whole is empty) and `WriteSetWriting`
   (what select offered for writing is still writing).
3. `Inv3` adds `Streams`: what was echoed followed by what remains in the
   buffer is what was stored. `EchoFaithful` alone says nothing of the bytes to
   come. `NothingLostBelowMaxLine` comes with a part of its own
   (`Intact`): a buffer holds no more bytes than were received, so that it is not
   full within the first MAX_LINE.
4. `Inv4` adds `Apart` (no client is behind two descriptors) and `Uncommitted`
   (no newline is stored beyond the committed bytes), for the refinement.

`Rot13Libevent` needs the same in another order, since whether a callback may be
active depends on the buffer: its `Inv1` already has `Buffers` and
`ActiveEventsValid`, and besides `SomethingCommitted`: in `do_write` something was
committed. Without it the rewind to 1 could put the cursor behind the bytes
that are used. `Inv2` adds `Streams`, `Inv3` `Apart` and `Uncommitted`.

Each layer has one lemma per part, with one step per action. What the handlers
do to a buffer (`StoreChunk`, `Advance`, `FinishWrite`) is stated in lemmas of
`LineServerProofs`, next to the theorems `Rot13Involution` (`rot13_char` undoes
itself) and `StoreChunkByByte`. What depends neither on select nor on libevent is
there too: what clients do to the backlog and the streams, and that
accepting, hanging up, storing, sending and rewinding are steps of `LineEcho`.
The mapping chooses the buffer of a client, and `Apart` makes that choice
unique; `Uncommitted` gives that the commit of a chunk is a commit point of the
abstract stream.

`Rot13ForkProofs`, for any number of clients and children: `ChildrenInOrder`,
`NothingIsLostIfLinesFit` and `RefinesLineEcho`. `Inv` says that a client waits,
is forked for or has a child, one at a time (`Parent`), and that what was stored
is what was echoed and then what remains of `outbuf`, without a newline while the
child receives (`Streams`). The mapping is another one than that of the servers
with a table, since a child's buffer is emptied when it was sent, whatever the
sends returned. `Intact` adds for streams whose lines fit that the stored bytes
are those received: `LinesFit` puts a newline in every MAX_LINE + 1 bytes, and a
buffer without one is shorter than that.

`BuffereventsProofs`, for any number of clients and any watermark:

| theorem | what it gives |
|---|---|
| `AnswersAreByteByByte` | `AnswersByteByByte`, about the rot13 server |
| `EveryLineIsEchoed` | `EchoesEveryLine`, about the echo server |

The invariant says of every bufferevent that its buffers account for what was
received (`Accounts`). For the rot13 server the fold over the bytes received
ends in the input that is held and in what was answered followed by the output;
that a callback over a chunk does what one over its bytes does comes from
`Settled`: after a callback the input has no newline and is below the
watermark. For the echo server the lines of the answers are the lines of what
was taken, each up to its first NUL (`PrintedSequence`, `LineReplied`), and the
rest is still in the input. The bytes are any of `Char`, NUL, CR and LF among
them. Both are functions of sequences of
any length; what a fold over a sequence does with one more element is derived
from the definition of the fold, by the least length at which it would fail.

`RethinkSimdProofs`, for any numbers of lanes, buffer sizes, tables, bounds,
partitions and keys:

| theorem | what it gives |
|---|---|
| `VectorLoopSelects`, `OutputIsComplete` | the 512-bit scan has every row that matches, by rank |
| `LoopsAgree` | the scans that ended counted the rows that match |
| `ConflictsAreSerialized` | lanes of one partition leave the conflict loop in order |
| `ShufflesStably` | from first offset 0, a stable permutation by partition |

`ScanInv` has one part per loop. The 512-bit loop keeps the rows that match so
far in two places: by rank, below `j` in the output and from there in the buffer
(`Holding`), and `j + k` is the rank that comes next. `ShuffleInv` has, for the
conflict loop, that a lane has lost as many conflicts as lanes of its partition
went before it and that none of them is still waiting once it is gone
(`Serializing`); for the first pass, that a cell of the histogram is the number of
rows it counted (`Counting`); for the second, that the next place of each
partition is its start and the rows of it so far, also while the offsets of the
partitions in the vector hold lane numbers (`Shuffling`). That places are taken
once, and in the order of the rows, is arithmetic over ranks and starts. For a
table that is not of whole vectors the code reads past its end, and only
`ConflictsAreSerialized` says anything.

`ContainerProofs`, for cJSON, for any places, names, types, documents and bounds:

| theorem | what it gives |
|---|---|
| `JsonInvariant` | the inductive invariant `IInv` |
| `JsonWellFormed` | `WellFormed`: lists linked both ways, everything owned once |
| `JsonImplementsForest` | `ImplementsForest`: containers are sequences of children |
| `JsonDuplicates` | `DuplicateIsIdentical`: a copy is what it was made from, in memory of its own |
| `DuplicateRight`, `ParseRight` | a copy or a parsed text is a tree of its own, or all that was made is freed |

`WellFormed` is not inductive: it counts the owners of an item, but a ring of
containers that own each other would satisfy the count, and a call that walks one
never ends. `IInv` is `Shape(H, roots, overwritten)`, of two parts. `Linked` says
that the items are trees: for each item its children are a list that is linked
both ways (`ListIs`), no two owners share one, and the least set that has the
roots and, with an owner, its children, is all there is. That set is an
intersection, not a walk, so that it can be reasoned about without recursion:
an item that is added, detached, replaced or freed changes it by what the item
owns. `Held` says that every string but those in `overwritten` is in exactly one
slot, and that a reference borrows the value of an item that has it.

The operations are shown one link at a time: what changes neither links nor
owners (`Put` of another field), a new item, an item put behind the last
(`suffix_object`), taken out, exchanged, deleted. For the functions that fail half-way,
`Building(h, R, X, B)` says besides that what the call made is apart from the items `B`
that were there before, so that freeing what was made frees nothing else.
`CopiesAreRight` and `MembersAreRight` are inductions over the depth of the recursion
(as a least depth at which the claim would fail), with one lemma for each part of
the loop. Every action then has a lemma that gives the invariant and the step of
`JsonForest` at once (`NextStep`).

`JsonDuplicates` is a second induction over the depth of the copying
(`CopiesAreAlike`), which rests on the first. Items are `Alike` if they stand for the
same down to every depth (`Down`), and `Twins` if they have the same name too.
The loop keeps that the children of the copy are twins of the first children of
the original, in their order, and that what is copied next is the child after
them (`CopiedTo`), so that they are alike when it ends (`AlikeIf`). What was
copied stays what it is while more is copied and linked: memory grows but for
the children of the new item (`Grows`), and what a set of items that has its
children stands for depends on nothing else (`AlikeStay`). This set is, while a
child is copied, all that was there, and while it is linked, all but the new
item, which is nobody's child (`NoChild`).

For the queue it proves `QueueTypeCorrect` and `QueueIsFifo`, which says that
`MyQueue` implements `FifoQueue` under the mapping
`Queue == TurnedOver(first_stack) \o second_stack`, for any set of values and any
bound. `MovedToFirst` and `MovedToSecond` say that `move` leaves `Queue` alone
in both directions and what the top is afterwards, from which every method maps
to the step of its name. It also proves `EveryStringRoundTrips`: encoding and
decoding give back every string of bytes that is not empty, padded or not, with
the lengths that the length functions announced. `Sizes` and `Places` split the
string into groups of three and a rest, `BitsFacts` and `ByteBack` take a group to
letters and back, `NumEqIs` counts the padding. `QueuedBytesRoundTrip`
(`Base64RoundTrip` in every state) follows for a queue of bytes: its hypothesis
`T \subseteq Byte` is the type of what is encoded.

`AddressBookProofs`, for any number of writers and readers:

| theorem | what it gives |
|---|---|
| `TypeCorrect` | `TypeOK` |
| `TruncatesOnlyWhatItHolds` | `HeldBeforeTruncated`, whatever crashes |
| `BookIsComplete` | `SavedInOrder` |
| `BooksAreNotMangled` | `NeverMangled` |

`HeldInv` says that, while no writers collided, one runs at a time (`Alone`) and
what it has read is the file from its start, then the book in the file, then
that and the person entered (`Held`): `HeldBeforeTruncated` is about the last of
these phases and needs the earlier ones. `SavedInv` adds, while nothing failed,
that the file is the saved book or the part of its next version that was
written (`FileIsSaved`, `Saving`), since `SavedInOrder` says nothing while a
writer is at work. `NeverMangled` needs `AccessInv`: a process that collided with
no writer has read the file from its start and nobody writes beside it
(`Undisturbed`); and `MangleInv`: the file is a cut of a book of persons in order,
however a writer ended (`FileInOrder`), so that what is read there parses to such
persons (`CutParses`). A reader beside a writer is another matter, since it reads
pieces of the file at different times: while nothing fails they are all of the
book that is being written, or of the last one, which begins it (`TakesIn`).

The assumptions are `ConnectionsAssumption`, `MaxLineAssumption`,
`SelectAssumption`, `LibeventAssumption`, `ForkAssumption`,
`BuffereventsAssumption`, `CJsonAssumption`, `QueueAssumption`, `AddressBookAssumption`,
`ScanAssumption` and `PartitioningAssumption`: constants are of their types,
positive where the code's are, memory has finitely many places, `NULL`, `Missing`
and `Uninit` are nothing else,
and the scans' buffer has room for two vectors and their output for whole ones.
TLC evaluates them in the passing runs.

Only model-checked are:

- liveness (`EchoesCommitted`, `LineEchoed`, `DescriptorReleased`, `BufferFreed`,
  `LineAnswered`, `ChildEnds`) and with it ENABLED, which the prover has no
  rules for;
- of cJSON, `PrintParses`: a RECURSIVE operator prints (`CJsonText`), and whether
  memory suffices depends on the memory of the instance.

Every other property of the passing runs is a theorem. An induction over data
cannot be had from the library's induction theorems, which take an operator as a
parameter; where one was needed (the folds over streams, the counts and starts
of the shuffle), the proof takes the least natural number at which the claim
would fail. The definitions proved about use folds and functions over intervals
for that reason, and none of the library's operators that choose a sequence out
of a set.

## Findings

`Partitioning.cpp:135-140`: the offset of partition 0 is never assigned. With any
other value than 0 the shuffle is neither stable nor complete, though the
comment on line 104 says it is stable. Run `partition_first`; `StableFromZero`
shows that all the rest is right.

Seen while modelling, and part of the models without a run of their own:

- `SelectionScan.cpp:164-168`: the mask of the 256-bit store is shifted right
  until no lane has its sign bit set, so that nothing is stored; the author
  notes that the store had no effect and asks why (lines 96, 168). The 256-bit
  loop returns what is left in its buffer instead of its count once it has
  flushed (line 213). `VectorSelects` and `CountsAgree` are about the rest.
- `SelectionScan.cpp:296`: the last flush of the 512-bit loop takes whole
  vectors of row ids, past the last one that was stored.
- `Partitioning.cpp:141` reads one past the histogram.
- Descriptor FD_SETSIZE passes the test of `rot13_select.cpp:198`.
- `rot13_libevent.cpp` closes no descriptor that it served.
- A client that never stops sending keeps `do_read` from returning (the models
  bound what is sent).
- cJSON: `cJSON_ReplaceItemInObject` overwrites the name of the new item without
  freeing it. `cJSON_CreateIntArray` and its like follow the null pointer when
  a malloc in the loop fails. A member whose name could not be allocated is
  added without one. A detached item keeps its name. The error pointer is 0
  after a parse that failed for want of memory, where the comments at
  `cJSON.h:81` and `cJSON.c:272` suggest otherwise.

## What is not modelled

Most of the lines in the repository are vendored or generated (gtest, gmock, the
sqlite3 header, protobuf output), so that the share of all lines that the models
stand for is small, although the programs with state of their own are modelled.
Left out:

- of cJSON, the text of numbers, escapes and Unicode in strings, the memory that
  printing allocates, `cJSON_Minify` and `cJSON_InitHooks`;
- the SIMD intrinsic tour, the pitfall demos (string, strptime, multiset,
  sprintf), the lambda tests: calls of one library function or intrinsic each,
  with the result printed;
- `blocking_socket`: straight-line blocking calls, each of them checked;
- `evhttp_server`, `simple_evhttp`: handlers without state, inside libevent;
- `curl_wrapper`: one call whose callback appends to a string;
- `Foo`, a pure function of two integers with a unit test;
- the leveldb, sqlite3 and mysql demos, `arrow_udf_example`, the Velox and JNI
  demos: calls of a library with no state between them;
- failures of socket, bind and listen, which end the servers before their loops.

## Plan

What would add most next:

1. That `move` of the queue is amortised: a value is turned over at most as often
   as the direction of the calls changes.
2. Step simulation for `EchoesCommitted`: the safety part of the liveness argument
   (a committed byte stays owed until it is echoed or the server hangs up) as an
   action property that can be proved.

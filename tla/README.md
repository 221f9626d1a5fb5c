# MableEmulator in TLA+

MableEmulator is a server emulator for World of Warcraft: an authentication
server that logs clients on with SRP6 and tells them the list of realms, and the
beginnings of a world server. This directory holds TLA+ models of its logic, the
TLC configurations that check them on small instances, and TLAPS proofs.

    tlc -config MCSessionRead.cfg MCSessionRead.tla     check one run
    tlapm SessionReadProofs.tla                         check the proofs of a module

Paths below are relative to `src/`.

## The system

### Threads

The authentication server (`Servers/Authentication/Main.cpp`) has a *main thread*,
which accepts connections and refreshes the realm list, and one *network thread*
(`Shared/Network/Thread.hpp`), which runs the completion handlers of all sessions
and an update tick every millisecond. Between them they share, under a mutex, the
list of new sockets of the network thread, and, without any lock, `m_realms` and
the MySQL handle. There are no tests and no documentation beyond the sources.

The world server (`Servers/World/Main.cpp`) greets every client and drops it; all
it shares with the authentication server is its realm's row in the database, whose
flags it marks at its start.

### Components

| Component | State | Operations | Talks to |
|---|---|---|---|
| Session, read loop | read buffer, outstanding read | `async_read`, completion handler, `on_read` | MessageBuffer, handlers |
| Session, handlers | `m_build`, `m_expansion`, `m_account`, `m_srp6`, `m_session_key` | `logon_challenge_handler`, `logon_proof_handler`, `realmlist_handler` | database, Srp6, RealmList, send queue |
| Socket | `m_closed`, `m_writing_async`, `m_write_queue` | `update`, `handle_queue`, `handle_queue_async`, `close_socket` | kernel, Thread |
| Thread, SocketManager, AsyncAcceptor | `m_new_sockets`, `m_sockets`, `m_connections` | accept, `on_socket_open`, `append`, `update`, `add_new_sockets` | main and network thread |
| MessageBuffer | vector, read and write position | `normalize`, `ensure_free_space`, `write`, ... | Socket |
| RealmList | `m_builds`, `m_realms`, timer | `init`, `update_realms`, predicates on builds | database, resolver, `realmlist_handler` |
| Realm | one entry | `address_for_client` | `realmlist_handler` |
| Srp6, BigNumber, GenericHash, Random | one key pair, `m_used` | `verify_challenge`, `session_verifier` | OpenSSL |
| Connection, ResultSet, Field | MySQL handle, rows | `open`, `query`, `execute`, `next_row`, `fetch` | both threads |
| ByteBuffer, ByteConverter | bytes, positions | `append`, `<<`, `>>` | handlers |
| MPSCQueue (two variants) | linked nodes, head, tail | `enqueue`, `dequeue`, destructor | no other file uses it |
| World server | port, connection, the flags of its row | mark offline, listen, mark online, accept, stop | database |
| Authentication server | port, connection | open, first refresh, listen, stop | database |

### What is hard about it

- **Bytes.** TCP cuts the stream anywhere and clients pipeline frames, so `on_read`
  sees parts of frames, several frames and leftovers of old ones in its vector. It
  reads the size field of a challenge before it knows that the field is there, and
  adds to it in 16 bits.
- **Order of frames.** Nothing ties the three commands to an order. A session keeps
  what earlier frames left behind, including those of a login that failed.
- **Two threads.** A session starts to read before the network thread owns it, and
  the completion handlers hold a raw pointer to it. The realm list is replaced
  while it is being walked over, and both threads query over one database handle that
  nothing locks.
- **Failure.** Writes are partial, blocked or refused; a peer resets between any two
  steps and then even asking for its address may throw; queries and name
  resolution fail.
- **Programs that come and go.** A killed server leaves its mark in the database, a
  second one may be started beside it, and a lost connection to the database is never
  opened again.
- **Memory without locks.** `MPSCQueue` cuts its list for a moment in every `enqueue`,
  while the consumer walks it, deletes behind itself and puts a dummy back.
- **Numbers.** Lengths, counts and ids are cut to the widths of the protocol's fields; a
  secret begins with zero bytes in one logon of 256; netmasks come from a table.

### What makes each part correct

- Read loop: frames are taken where the previous one ended and as long as their own
  bytes say, no byte is lost or moved, a complete frame is never left waiting, the
  buffer does not grow.
- Handlers: a logon answers the latest accepted challenge of its own session, once;
  replies have the layout of the client's build; the realm list is that of the
  account challenged last; orderly clients cannot stop a server whose realms are
  configured right.
- Socket and Thread: replies leave whole and in order; one owner per session; the
  connection count is exact; a session goes away when it has closed and not before.
- RealmList: between refreshes a reply is complete and correct for its client, and
  the list follows the table for ever.
- Connection: a query returns the rows of its own statement, all of them, or nothing
  for a reason; the handle is never left refusing statements. With one thread inside the
  library at a time this is true of the code, with two it is not.
- MPSCQueue: items leave once and in the order of the exchanges, none is stranded, and
  memory is deleted when nobody uses it any more and not before.
- Servers: a realm that is starting is not listed as online, only a server that listens
  puts it online, and one that did is listed. (That the realm of a server which has
  *stopped* is not listed is not true of the code, and nothing says it should be.)
- Srp6, realm list reply, realm address: both sides derive one key; the client reads what
  the server put in; every client gets an address that reaches the realm.

## Modules

| Module | Models | Notes |
|---|---|---|
| `MessageBuffer` | `Utilities::MessageBuffer` | operators on a record; `peek` is a read the code does not check |
| `Framing` | wire format, length rules | all sizes are constants |
| `SessionRead` | `async_read`, `on_read` | one step per iteration of the loop |
| `FrameReader` | *abstract*: a stream cut into frames | no buffer |
| `Logon` | the three handlers | one step per frame, frames and replies logged; the refresh only as far as it changes the subnet masks |
| `Network` | Socket, Thread, SocketManager, AsyncAcceptor | main and network thread interleave |
| `RealmList` | refresh and walk | one step per access to the map |
| `Database` | `Connection::query`, `close`, `ResultSet::next_row` and their callers' loops | one step per call of the MySQL library, two for those that talk to the server |
| `MPSCQueue` | both classes of `MPSCQueue.hpp` and their destructors | one step per access to shared memory; the variant is a variable that never changes |
| `FifoQueue` | *abstract*: a queue that may answer "nothing" beside a put | no nodes |
| `Servers` | `main` of both servers, `WorldServer::Network`, `execute`, `open` | any number of world servers; one step per statement or system call |
| `Powers` | powers of numbers | used by `Bytes` and `RealmAddress` |
| `Bytes` | `BigNumber`'s and `ByteBuffer`'s little-endian bytes | the number of values of a byte is a constant |
| `Srp6` | `Srp6`'s arithmetic and interleaved hash | with the client's side and the hash as RFC 2945 words it |
| `RealmlistReply` | the bytes `realmlist_handler` sends | with the client that reads them |
| `RealmAddress` | `Realm::address_for_client` | addresses of a few bits |
| `MC*` | instances for TLC | `MCAlgorithms` calls the pure operators once with each input |
| `SessionReadProofs`, `LogonProofs`, `NetworkProofs`, `RealmListProofs`, `DatabaseProofs`, `MPSCQueueProofs`, `ServersProofs` | proofs about the modules they are named for | |
| `AlgorithmsProofs` | proofs about the pure operators | about `MCAlgorithms`, whose inputs are constants where the proof allows |

The state variables carry the names of the fields they model, actions those of the
functions; what has no name in the code is explained where it is declared. *History*
variables only record what happened. Definitions marked "Faulty variant" are
never used by a specification: each is an operation with one plausible mistake,
kept to show that a property notices it (`PROJECT.json`, "mutants").

How the modules fit: `SessionRead` turns bytes into frames whose handlers `Logon`
models; the replies `Logon` logs are the packets `Network` queues, where a read
handler may queue any number of them and close or not; `RealmList` is what
`realmlist_handler` does with the list while the main thread refreshes it; the queries
that may fail in `Logon` and `RealmList` are those of `Database`; `Servers` is the
world in which the authentication server's `main` starts all of it, with a refresh in two
steps; `Srp6` computes what `Logon` takes as ideal, and `RealmlistReply` and `RealmAddress`
what a line of `RealmList`'s replies holds. Each module leaves open what another decides. Code outside the repository that the
models need (the kernel's side of a socket, the client, the table's administrator)
is marked external in `PROJECT.json`.

### Choices a reader should know

- A read past the vector yields any byte; a read of inactive bytes yields what is
  there (`peek`). The handler for an unknown command leaves the session open with no
  read armed; that is what the code does, and `FrameReader` has the state `stalled`
  for it.
- A handler of `Logon` is one step, since all sessions run on one thread. A proof is
  modelled by what it was computed from, an account and a B; digests and random
  numbers are ideal. `remote_address()` of a peer that has reset may throw, and
  does so out of the thread function. So does `make_network_v4`, when a realm that
  `realmlist_handler` lists has a subnet mask that is no netmask (`contiguous` is false) and
  the client is not on the host; `RealmsUpdated` is the main thread's refresh, after which
  the masks may be of either kind. The dereference of an empty `m_srp6` ends the process or,
  when the client's key is zero modulo N, refuses the proof. What the races with the
  main thread do to a handler is left to `RealmList` and `Database`.
- In `Network` the tick holds the lock of the new sockets while it takes them over one by
  one (`net = "adding"`), and `append` waits for it; the code clears the list after its
  loop, which nobody can see who has to wait for the lock. A kernel write may take all, some or none of a message, and fails
  when the connection is broken. `m_closing` is left out: no code sets it. A handler
  that runs on a destroyed session makes `process` "undefined".
- In `RealmList` a refresh that clears the map under a walk makes `process`
  "undefined"; an insertion may. The first refresh is over before the server
  listens, as in `Main.cpp`, so `Init` starts after it.

- In `Database`, `mysql_query` is two steps, a statement that is sent and a reply that is
  waited for, and so is `mysql_store_result`, which takes the handle's claim on the rows
  (`status`) before it reads them. Between the two the other thread may do anything, and
  be `Inside` the library too. `wire` holds the replies on the connection, and whoever
  reads gets the first: its own, or the other thread's. What the library makes of a reply it
  does not wait for (`Misread`), and of two threads that read into its buffer
  (`ReadTogether`), is left open: an error, with more or less of the replies `left_over`, or
  undefined behaviour. What the library documents
  of a handle is kept: a statement is refused while a result waits to be stored, and the
  counts of rows and columns are those of the last statement. A result read with a wrong
  number of columns, and a call on a handle that is gone, make `process` "undefined".
  `failed`, `crossed` and `held` record why a query may have answered nothing, `raced` that
  one thread began to talk to the server while the other was reading.
- `MPSCQueue`'s accesses take place one after the other (sequentially consistent
  memory): every load that matters is an acquire of what a release stored. Memory that
  was deleted may be handed out again at once. An item of the intrusive queue belongs to
  whoever dequeued it, who is taken to delete it at once. `overlapped`
  and `result` only record what a caller sees, `chain` the order of the exchanges.
- In `Servers` all world servers have the one row (`WHERE id = 1`) and one port, as in
  `Main.cpp`. The listener runs in a detached coroutine, so its exception ends it and
  nothing else. `realms` is what the list says of this one realm.
- Digests are ideal: the digest of a sequence is the sequence, tagged with a position. The
  scrambler u, a digest used as a number, ranges over a set of its own. A byte has `Base`
  values, so that the widths of fields can be exceeded by short lists. The text of a
  version holds no zero byte.

## Runs

| Run | Instance | Shows |
|---|---|---|
| `session_read` | bytes of 4 values, challenges of 5 to 7 bytes, proofs of 3, realm list requests of 2, buffer of 7; all streams of two frames of eleven kinds, with or without a third, truncated one | `TypeOK`, `StreamIntegrity`, `NoFrameLeftWaiting`, `BufferBounded`, `ImplementsFrameReader`, `WholeStreamRead` |
| `logon` | two sessions, two accounts, builds before and after 6141 and an unknown one, 4 frames, masks that change at any time, Debug | `TypeOK`, `LogonAnswersLatestChallenge`, `OneLogonPerChallenge`, `FormatFollowsChallenge`, `RealmlistAccount`, `OrderlyClientsAreHarmless` |
| `logon_release` | one session, 4 frames, assertions off | `LogonAnswersLatestChallenge`, which does not rest on the assertion |
| `logon_assert` | as above with assertions, 3 frames | *violated*: `NeverUsedTwice` |
| `network` | two connections, packets of 2 bytes, 2 per session | `TypeOK`, `RepliesInOrder`, `NoReplyDropped`, `OnlyClosedDestroyed`, `ConnectionsCounted`, `WriteWaits` |
| `network_live` | two connections, 1 packet each | `ClosedIsReaped`, `RepliesWritten` |
| `realmlist` | two realms, five kinds of rows, four client builds, two changes of the table | `TypeOK`, `SettledReplyIsComplete` |
| `realmlist_live` | two realms, two kinds of rows, two changes | `TableIsPublished` |
| `database` | both threads, two statements each, results of up to two rows, connections lost and the shutdown at any moment, also a database that did not open | `TypeOK`, `OwnRows`, `HandleReleased`, `NothingOverlooked`, `UndefinedOnlyByTwo` |
| `mpsc_queue` | both variants, two producers of two items each, memory for four nodes | `TypeOK`, `NodesDeletedInTime`, `ImplementsFifoQueue`, `EveryItemLeaves` |
| `servers` | two world servers, the authentication server and the database, restarted any number of times | `TypeOK`, `StartingIsNotListed`, `OnlineOnlyWhileListening`, `AnnouncedIsListed` |
| `algorithms` | bytes of 16 values; keys of 4 bytes, N = 32749, g = 7; lists of 0 to 18 realms; addresses of 4 bits with every mask | `KeysAgree`, `ReplyIsReadable`, `AddressFitsClient` |

**Why the bounds are enough.** `session_read`: the buffer is exactly as long as the
longest legal frame, the tightest case the code's numbers allow (4096 against 51 and
75); declared sizes that wrap, mismatch or overshoot are among the frames; two
frames and a fragment reach every way in which leftovers of one meet the next. The
proofs cover all sizes. `logon`: four frames hold a challenge, its proof, another
challenge and a stale or second proof, on either session; a violation of a pairwise
property such as `OneLogonPerChallenge` needs three. `network`: two sessions suffice for the
tick's list to lose or skip one; packets of two bytes can be cut; two packets make
order matter. `realmlist`: two realms put the walk before, on and behind a change;
two changes let a row appear and vanish. `database`: two rows
make a loop that starts at the wrong one differ, and two statements of a thread let one end
and the next begin under every call of the other, on what the first left in the handle and
on the connection. `mpsc_queue`: two
producers can each be stopped between the two halves of an `enqueue`, in either
order, with a finished item of either before, between or behind them, and four nodes
for four items and the dummy make memory be used again while another call holds on to
it. `servers`: one world server replaces or disturbs another; nothing is counted, so
there is no other bound, and the proofs cover any number. `algorithms`: S begins with zero,
one, two or more zero bytes, and with an odd and an even number of them; lists of 15, 16
and more realms and replies of more and less than 256 bytes stand on both sides of every
width; all masks, netmasks or not, meet all clients and hosts. Deadlock is not checked
where clients may stop sending, histories are bounded, or a process may have died; the
servers never deadlock.

**Fairness.** `SessionRead`: the network thread finishes a handler (weak fairness of
`on_read`), and bytes on their way are delivered or an error is. `Network`: the tick
re-arms its timer first and the io_context runs ready handlers in order, so ticks,
and the visit of each session in a tick are weakly fair. The main thread's steps after an
accept are strongly fair, since the tick takes and releases the lock again and again and
holds it for a short loop in each millisecond. The write wait is strongly fair, as the
kernel reports room or an
error once and the handler stays ready through the ticks that come in between. No
fairness makes a client send, or a read complete. `RealmList`: the
timer fires (weak fairness of `update_realms`), and the database is not out of order
for ever (strong fairness of `Query`); the walk has no fairness. `MPSCQueue`: a
producer inside `enqueue` goes on running, and the consumer keeps calling `dequeue`. No
caller exists to say so, but without it no item leaves any queue. `Servers`: the timer
goes on expiring, and queries repeated for ever over a live connection do not all
fail; nobody need start, stop or stay up.

### The finding

`Shared/Crypto/Srp6.cpp:88` asserts `!m_used`. `logon_proof_handler` passes every
proof to the object of the last accepted challenge and never drops it, so the second
proof of a session fails the assertion and a Debug build stops. A Release build
judges the second proof like the first; `OneLogonPerChallenge` is therefore
checked for Debug builds only. `OrderlyClientsAreHarmless` says which other sequences
can stop the server: resets, proofs out of turn, and any request for realms whose masks are
not netmasks.

The models reach more states that the code does not guard, and that no text of
the repository speaks of: the cancelled write wait of a session that its read side
closed runs on freed memory (`WriteWaits` says that this is the only way), a
refresh may pull the realm list from under a walk, and two statements that overlap, or
the shutdown, may make a result be read with the wrong number of columns, a query find
nothing, or a call use a closed handle. `UndefinedOnlyByTwo` and `NothingOverlooked` say that
one thread on its own meets none of this.

What two threads may do to each other's statements is graded. As long as they overlap
without being inside the library at the same time - one between `mysql_query` and
`mysql_store_result`, say, when the other sends its statement - `OwnRows` and
`HandleReleased` hold: the library refuses the second statement, whose thread gives up, and
a result is taken by the thread it belongs to. But nothing in the code keeps the two from
being inside together, and from then on (`raced`) the model reaches all that can be feared:
an account filled from a row of the realm list, a thread that waits for a reply the other
has swallowed, a rest of a reply on the connection that puts every later statement out of
step, undefined behaviour. No property promises anything of these states, since none would hold.

## Proofs

`SessionReadProofs` proves, for every byte width, frame size, buffer size and set
of streams that satisfies the assumptions of `Framing` and `SessionRead`:

| Theorem | States |
|---|---|
| `Invariance` | `Spec => []Inv` |
| `TypeCorrect` | `Spec => []TypeOK` |
| `StreamIntegrityHolds` | `Spec => []StreamIntegrity` |
| `BufferBoundedHolds` | `Spec => []BufferBounded` |
| `NoFrameLeftWaitingHolds` | `Spec => []NoFrameLeftWaiting` |
| `Refinement` | `Spec => ImplementsFrameReader` |

The assumptions: the three commands are distinct bytes; a frame of each kind fits
the buffer; a 16-bit field holds the length of any challenge whose name length is a
byte; streams are sequences of bytes. The code satisfies them with 256, 35, 16, 75, 5
and 4096.

The argument. None of the properties is inductive. `Inv` joins to them that a
session that has a read outstanding is *normalized* (read position zero), since that
is what makes room: the bytes that wait are part of one frame, no frame is longer
than the buffer, and they lie at its front, so there is space behind them and
`ensure_free_space` never grows the vector. That the bytes which wait are part of one
frame is `NoFrameLeftWaiting`, which holds because the loop is left only with an
incomplete frame; and this needs `StreamIntegrity`, for the loop judges by the bytes
in the vector and the property by those of the stream. The lemmas on `normalize`,
`write` and `peek` say how each moves the active bytes. The refinement follows step by
step: a handler's step takes or refuses a frame of the abstract stream, everything else
stutters or is an arrival, a stall or the client hanging up. A challenge whose
size field has not arrived is the delicate case: its length is read from leftovers, and
`Inv` shows that it can be refused but never taken, because a challenge that passes
the name check is longer than the bytes that are there.

`LogonProofs` proves, for any number of sessions, accounts, builds and frames:

| Theorem | States |
|---|---|
| `Invariance` | `Spec => []Inv` |
| `TypeCorrect` | `Spec => []TypeOK` |
| `LogonAnswersLatest` | `Spec => []LogonAnswersLatestChallenge` |
| `OneLogon` | `Spec => []OneLogonPerChallenge`, if assertions are compiled in |
| `FormatFollows` | `Spec => []FormatFollowsChallenge` |
| `RealmlistIsOfAccount` | `Spec => []RealmlistAccount` |
| `OrderlyAreHarmless` | `Spec => []OrderlyClientsAreHarmless` |

The assumptions: ids of accounts are positive, builds are numbers, and an empty optional is
no object. The argument: the properties speak of a session's log, the code looks at its
fields. `RemembersBuild` and `RemembersAccepted` say that the fields are what the log
says: build and expansion are those of the last challenge, account and Srp6 object
those of the last one accepted, and an object that is used has had a proof since. They hold
of every handler because each writes the fields and the log in the same step, and a
challenge that is turned down leaves account *and* object alone. (After a challenge whose
reply could not be sent they do not hold, but then the process is gone, so the second is
claimed of a running process only.) `KeysAreFresh` is what `OneLogonPerChallenge` needs
of several sessions: no two hold the same key pair, and none that is unused has been logged
on with. The lemma `LastBeforeKept` carries "the last challenge before" through a longer log.
`OrderlyAreHarmless` is about the handlers over any realms: each step that ends the process
leaves its cause behind, in `peer`, in the log or in `contiguous`, and none of them goes away.

`NetworkProofs` proves, for any number of connections and packets of any length:

| Theorem | States |
|---|---|
| `Invariance` | `Spec => []Inv` |
| `TypeCorrect` | `Spec => []TypeOK` |
| `InOrder` | `Spec => []RepliesInOrder` |
| `NothingDropped` | `Spec => []NoReplyDropped` |
| `OnlyClosed` | `Spec => []OnlyClosedDestroyed` |
| `CountedOnce` | `Spec => []ConnectionsCounted` |
| `WaitsAreInOrder` | `Spec => []WriteWaits` |

The assumptions: a packet is not empty, and no connection is the value that stands for none.
The argument has three parts. *Owners* (`Owned`): the two lists are disjoint and hold no
session twice, the main thread is busy with one that is in neither until it has
appended it, the tick visits sessions of the thread once each, and the count is the sum of the
lists; that a session leaves the list it is counted in makes `m_connections` exact and
never negative. *Destruction*: a session that is read from is open, and one that the main
thread is about to let go of is in a list or closed; so the last owner never drops an
open one. `Waits` and `UndefinedByWait` add that a wait has its flag and a message, and
that the tick flushes only who is not waiting. *Stream*: place k of what the kernel has been
given is byte k of the packets in the order of their ids, and only the first message
of a queue is ever cut. With `NoReplyDropped`, which counts what is written and what
is queued, the byte that is put next is the next byte of the stream; a broken
connection is written to no more, so its missing packets leave no gap. The lemmas on quotients and
remainders place a byte in its packet.

`RealmListProofs` proves, for any table, any realms and any set of builds:

| Theorem | States |
|---|---|
| `Invariance` | `Spec => []Inv` |
| `TypeCorrect` | `Spec => []TypeOK` |
| `SettledIsComplete` | `Spec => []SettledReplyIsComplete` |

The assumptions: ids are positive, rows have the fields of the table, builds are numbers. The
argument: `Published` says that the map holds what is stored of the rows dealt with so far
and nothing of the others, so that while the main thread waits it is the whole answer of the
last query. `Walking` says that a walk stands on a realm of the map, and that one which
met no refresh has listed what it passed; this is inductive because a refresh that starts or
inserts while a walk is on its way unsettles it, and from one realm to the `following` one
nothing of the map is skipped. The lemma `EntryIsTold` compares the handler's flags, type
and version with the words of `Told`, `StoredRow` the conversion of types, and what the map lacks
is not to be shown (`Settled`). That a minimum exists is taken from the well-foundedness of `<`.

`DatabaseProofs` proves, for results of any size and any number of statements:

| Theorem | States |
|---|---|
| `Invariance` | `Spec => [](Inv /\ Orderly)` |
| `TypeCorrect` | `Spec => []TypeOK` |
| `OwnRowsAlways` | `Spec => []OwnRows` |
| `HandleReleasedAlways` | `Spec => []HandleReleased` |
| `NothingIsOverlooked` | `Spec => []NothingOverlooked` |
| `UndefinedOnlyByTwoThreads` | `Spec => []UndefinedOnlyByTwo` |

The assumptions: results hold at least one row, and a thread makes finitely many
statements. The argument has two invariants. `Inv` holds whatever the library does:
types, how far a thread has come in `query` and in its loop (`Progress`, which keeps
`next_row` inside the result), that two threads inside `query` know of each other
(`Crossing`), and when the handle is gone (`Closing`). `Orderly` is claimed until both threads
have been inside the library together, and is what the properties need: `OwnRows` alone is not
inductive, since a thread takes whatever comes. `Order` says that the connection belongs to
one thread at most, from the statement it sends to the rows it reads, and holds the reply to
its statement and nothing else (`Waits`); so while there is a result to be stored it is that of
the thread about to store it, and the refusal keeps the other from sending anything in
between. From `Waits` it follows that a thread finds what its own statement found (`Found`), and
for a thread that has met no other the counts in the handle are those of its own statement
(`Alone`). A step that would break `Order` is one in which a thread begins to talk while the
other reads, and that step sets `raced`. `UndefinedOnlyByTwoThreads` looks at the step
that broke the process: the handle was gone, which is the shutdown; or a thread read what
it did not wait for, or beyond its columns, which is after a race or beside another thread.

`ServersProofs` proves, for any number of world servers:

| Theorem | States |
|---|---|
| `Invariance` | `Spec => []Inv` |
| `TypeCorrect` | `Spec => []TypeOK` |
| `StartingIsNeverListed` | `Spec => []StartingIsNotListed` |
| `OnlineOnlyByAListener` | `Spec => OnlineOnlyWhileListening` |

The assumption: the authentication server is none of the world servers. The argument:
`StartingIsNotListed` speaks of a list that was filled from the row, so `MarkedIsOffline` adds
what the row says: while the mark of a start is the last word, the offline bit is
set. Every announcement clears both `marked` and the bit, and only an announcement
clears the bit. `AnnouncersListen` adds that a server about to announce itself
holds the port: bind gives it, and only running servers lose it. From it the action
property follows, since a step that takes the bit away is an announcement, and the server
that announces itself is the one that the property asks to hold the port: that some other
server does is not enough.

`MPSCQueueProofs` proves, for both variants and any number of producers, items and nodes:

| Theorem | States |
|---|---|
| `Invariance` | `Spec => []Inv` |
| `TypeCorrect` | `Spec => []TypeOK` |
| `NodesAreDeletedInTime` | `Spec => []NodesDeletedInTime` |
| `Refinement` | `Spec => ImplementsFifoQueue` |

The assumptions: there is a node for the first front, the null pointer is no node, and the
consumer is no producer. The argument: `Chained` says that the nodes from `m_tail` to
`m_head`, in the order of the exchanges, are distinct and none of them deleted. `Linked`
says of each that its link is stored, or is still null and owed by exactly one
call of `enqueue`; so a link the consumer can read leads to the next node of the chain,
and nobody who has yet to store a link can hold a node the consumer has left. `Entering`
keeps the nodes before their exchange apart from the chain and from each other; above all
the dummy is in no chain while the consumer is about to put it back, because
the only node was then another one. `Walking` keeps what the consumer has read until it uses it.
`Undisturbed` says that without an enqueue beside it, `dequeue` gets to `false` only with
an empty queue: a null link without a debtor belongs to the last node. With `Accounted`,
no node outside all of these, the destructor leaves nothing. For the refinement the
items are those of the chain without the node that carries none, and the lemmas on
`RemoveFirst` say what becomes of them when the chain grows behind or shrinks in
front.

`AlgorithmsProofs` proves, for bytes of any number of values, keys of any even length, any
N, passwords, secrets and scramblers, for any lists of realms, and for addresses of any number
of bits, any loopback network, any mask and any public addresses:

| Theorem | States |
|---|---|
| `KeyExchange` | `Spec => []KeysAgree` |
| `AddressFits` | `Spec => []AddressFitsClient` |
| `ReplyReadable` | `Spec => []ReplyIsReadable` |

`KeyExchange` assumes of N only that it is greater than 1 and that g has an inverse modulo
N, as every g has that a prime N does not divide, and that digests are ideal. The server's S
and the client's are both g to the power of ab + xub modulo N (`SameSecret`, by the laws of
powers `ModExpSum`, `ModExpPower`, `ModExpProduct`); what is sent as bytes is read as the number
it was, since every number modulo N fits (`RoundTrip`, `NumberBound`, `Modulus`); the client
gets rid of three times the verifier however the sum was reduced (`ModuloBack`); no power of
an invertible g is zero, so an honest client is never refused (`Invertible`); and
`SameHash` shows the code's rounding of `leading_zeroes` to drop the very bytes RFC 2945
drops, for every count of zeroes. Who does not share the key can at most be answered with
its own key, because equal digests have equal inputs (`Digest`, `Verified`); that such a
client does not find the server's S by luck is no fact of arithmetic and is not claimed.

`AddressFits`: a mask that is one makes blocks of a power of two, what
`hosts` holds lies in the block of the realm's own address (`HostsAreNeighbours`), and a
block no larger than the loopback network is part of it or apart from it, since the one
power divides the other (`LoopbackIsWhole`, `PowerMultiple`, `CoarserQuotient`).

`ReplyReadable` assumes of a realm what `ListsAssumption` says: its fields have the values of
their C++ types, its texts hold no zero byte, and the numbers of its version fit the byte they
are sent in (they are 32 bits wide in `BuildInformation`, but the table holds 1.12.1); of the
number of realms and of their ids it assumes nothing, since these are what the property is
about. A realm is read as it was written, whatever follows it, because each field is
as long as the reader takes it to be and a text ends at its first zero (`TextRead`,
`ReadFields`, `RealmRead`). `FlattenSeq` is a loop that appends one realm
more (`ListWritten`), what it has written at the end begins with what it had written before
(`Begins`), and so after k realms the reader holds the k realms and the rest of the list
(`ListRead`, by induction on k). `ReplyParts` finds the length, the count and the list
in the reply. Conversely, a reader can hold no more realms than a count of its width
can say, no longer length than two bytes, and no id above a byte
(`Kept`, `SeenIsShort`), so whatever is read back did fit.

The library's induction theorems cannot be used, as no prover here instantiates their
operators; `Induction` and `Recursion` say the same of sets and functions, and give
`power`, `number` and `mod_exp` the equations of their definitions.

**Only model-checked:** the liveness properties `WholeStreamRead`, `ClosedIsReaped`,
`RepliesWritten`, `TableIsPublished`, `EveryItemLeaves` and `AnnouncedIsListed` (TLAPS
does not handle fairness and ENABLED). Every safety property of a passing run is stated by a
theorem.

## Not modelled

The components marked `not_modelled` in `PROJECT.json`: logging and resolving (input and
output), build files, the schema and its data. Within modelled components:

- the conversion of fields and the memory of results; `ResultSet`'s table of field types;
- several network threads (the server starts one) and stopping a thread;
- closing with `m_closing` (never set), memory exhaustion;
- the inside of OpenSSL, and the copies, moves and operators of `BigNumber` and
  `GenericHash` that nobody calls; the server's own proof M2, a digest of what M is
  made of;
- how a `ByteBuffer` grows, and `ByteConverter`, which no file uses;
- the hexadecimal digits of N's text, whose bytes are taken in their order, and the bytes of
  a float.

## Plan

In this order; the first twelve are done, the last two are left for whoever goes on.

1. `MessageBuffer`, `Framing`, `SessionRead` with the abstract `FrameReader`; proofs.
2. `Logon`.
3. `Network`.
4. `RealmList`.
5. `SessionReadProofs`.
6. `Database` and `DatabaseProofs`: refresh and account lookup on one handle.
7. `MPSCQueue`, both variants, refining the abstract `FifoQueue`.
8. `Servers` and `ServersProofs`: start, stop and crash of both servers around the realm's
   flags and the database connection.
9. `Srp6`, `RealmlistReply`, `RealmAddress`: pure operators against reference definitions.
10. `MPSCQueueProofs`: safety and refinement of the queue.
11. Proofs about `Logon`, `Network`, `RealmList`, the rest of `Database`, and of the algorithms
    the realm's address.
12. The key exchange, for every modulus and every pair of secrets; the realm list reply, for
    every list of realms.
13. An abstract `Authenticator` (who may be logged on to what) that `Logon`
    implements.
14. A variant of `Database` with a lock around `query`, to show that the properties then hold
    without their precondition.

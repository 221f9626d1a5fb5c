-------------------------------- MODULE Network --------------------------------
(***************************************************************************)
(* Network::Socket, Network::Thread, Network::SocketManager and            *)
(* Network::AsyncAcceptor: how a connection becomes a session, who owns    *)
(* it, how its replies are written and how it goes away.                   *)
(*                                                                         *)
(* Two threads take part.  The main thread accepts a connection, starts    *)
(* the session and appends it to a network thread.  The network thread     *)
(* (the server runs one) runs completion handlers and a 1 ms update tick.  *)
(* From start() on, a read handler may run on the network thread while the *)
(* main thread has not appended the session yet.                           *)
(*                                                                         *)
(* Completion handlers capture the socket as a raw pointer; the session is *)
(* kept alive by the shared_ptr in m_new_sockets or m_sockets alone.  What *)
(* a session reads and replies is left open (SessionRead, Logon): a read   *)
(* handler queues some packets and then reads on, closes, or does neither. *)
(***************************************************************************)
EXTENDS Naturals, Sequences, FiniteSets, SequencesExt

CONSTANTS
  Sockets,       \* the connections clients make
  PacketBytes,   \* length of a packet; 2 or more, so that it can be cut
  MaxPackets     \* bound: packets queued by one session

ASSUME PacketAssumption == PacketBytes \in Nat \ {0}
ASSUME BoundAssumption == MaxPackets \in Nat

VARIABLES
  main,              \* main thread: [at, socket], at being the next step of
                     \* on_socket_open or "accept"
  net,               \* network thread: "idle", "adding" (with the lock held),
                     \* "update" or "flush"
  todo,              \* sessions the running update tick has still to visit
  m_new_sockets,
  m_sockets,
  m_connections,
  m_closed,
  m_writing_async,
  m_write_queue,     \* of [id, sent]: the packet and how much of it is written
  reading,           \* async_read_some is outstanding
  waiting,           \* the wait for writability is outstanding
  peer,              \* "none" (no connection yet), "connected" or "reset"
  process,           \* "running", "terminated" or "undefined"
  queued,            \* history: number of packets queued
  wire               \* history: the bytes given to the kernel, <<id, place>>

socket_vars == <<m_closed, m_writing_async, m_write_queue, reading, waiting>>
thread_vars == <<net, todo, m_sockets>>
shared_vars == <<m_new_sockets, m_connections>>
history == <<queued, wire>>
vars == <<main, thread_vars, shared_vars, socket_vars, peer, process, history>>

NoSocket == "none"
ASSUME NoSocketAssumption == NoSocket \notin Sockets

(* Someone holds a shared_ptr to the session.                              *)
Held(s) ==
  \/ main.socket = s
  \/ s \in ToSet(m_new_sockets)
  \/ s \in ToSet(m_sockets)

Destroyed(s) == peer[s] # "none" /\ ~ Held(s)

(* The kernel refuses to write: reset by the peer, or shut down for        *)
(* sending by close_socket.                                                *)
Broken(s) == peer[s] = "reset" \/ m_closed[s]

Init ==
  /\ main = [at |-> "accept", socket |-> NoSocket]
  /\ net = "idle" /\ todo = <<>>
  /\ m_new_sockets = <<>> /\ m_sockets = <<>> /\ m_connections = 0
  /\ m_closed = [s \in Sockets |-> FALSE]
  /\ m_writing_async = [s \in Sockets |-> FALSE]
  /\ m_write_queue = [s \in Sockets |-> <<>>]
  /\ reading = [s \in Sockets |-> FALSE]
  /\ waiting = [s \in Sockets |-> FALSE]
  /\ peer = [s \in Sockets |-> "none"]
  /\ process = "running"
  /\ queued = [s \in Sockets |-> 0]
  /\ wire = [s \in Sockets |-> <<>>]

-------------------------------------------------------------------------------
(* Socket: closing and writing.                                            *)

(* shutdown fails on a connection the peer has reset; the error message    *)
(* asks for the peer's address, which may throw out of the thread.         *)
close_socket(s) ==
  /\ m_closed' = [m_closed EXCEPT ![s] = TRUE]
  /\ \/ process' = process
     \/ ~ m_closed[s] /\ peer[s] = "reset" /\ process' = "terminated"

pop(s) == m_write_queue' = [m_write_queue EXCEPT ![s] = Tail(@)]

(* Faulty variant: the flag is set before it is looked at, so that no wait *)
(* is ever started.                                                        *)
await_writable_flag_first(s) ==
  m_writing_async' = [m_writing_async EXCEPT ![s] = TRUE] /\ UNCHANGED waiting

(* handle_queue_async.  m_writing_async is never set where this is called. *)
await_writable(s) ==
  /\ m_writing_async' = [m_writing_async EXCEPT ![s] = TRUE]
  /\ waiting' = [waiting EXCEPT ![s] = TRUE]

put(s, n) ==
  LET front == Head(m_write_queue[s])
  IN wire' = [wire EXCEPT ![s] = @ \o [i \in 1..n |-> <<front.id, front.sent + i>>]]

(* Faulty variant: the written part of a message is not skipped.           *)
read_completed_forgotten(s, n) == UNCHANGED m_write_queue

read_completed(s, n) == m_write_queue' = [m_write_queue EXCEPT ![s][1].sent = @ + n]

(* Faulty variant: a blocked message is dropped.                           *)
WouldBlock_drops(s) ==
  /\ m_write_queue[s] # <<>> /\ ~ Broken(s)
  /\ await_writable(s)
  /\ pop(s)
  /\ UNCHANGED wire

WouldBlock(s) ==
  /\ m_write_queue[s] # <<>> /\ ~ Broken(s)
  /\ await_writable(s)
  /\ UNCHANGED <<m_write_queue, wire>>

(* The message is dropped, the session is not closed.                      *)
WriteFails(s) ==
  /\ m_write_queue[s] # <<>> /\ Broken(s)
  /\ pop(s)
  /\ UNCHANGED wire

PartialWrite(s) ==
  /\ m_write_queue[s] # <<>> /\ ~ Broken(s)
  /\ \E n \in 1 .. (PacketBytes - 1) :
       /\ Head(m_write_queue[s]).sent + n < PacketBytes
       /\ put(s, n)
       /\ read_completed(s, n)
  /\ await_writable(s)

WholeWrite(s) ==
  /\ m_write_queue[s] # <<>> /\ ~ Broken(s)
  /\ put(s, PacketBytes - Head(m_write_queue[s]).sent)
  /\ pop(s)

-------------------------------------------------------------------------------
(* Main thread.                                                            *)

(* The accepted connection is moved into a new session.                    *)
Accept(s) ==
  /\ process = "running"
  /\ main.at = "accept"
  /\ peer[s] = "none"
  /\ peer' = [peer EXCEPT ![s] = "connected"]
  /\ main' = [at |-> "start", socket |-> s]
  /\ UNCHANGED <<thread_vars, shared_vars, socket_vars, process, history>>

(* on_start logs the address of the peer, which throws when the peer is    *)
(* gone already: on_socket_open catches it and drops the session.          *)
StartThrows(s) ==
  /\ process = "running"
  /\ main = [at |-> "start", socket |-> s]
  /\ peer[s] = "reset"
  /\ main' = [at |-> "accept", socket |-> NoSocket]
  /\ UNCHANGED <<thread_vars, shared_vars, socket_vars, peer, process, history>>

Start(s) ==
  /\ process = "running"
  /\ main = [at |-> "start", socket |-> s]
  /\ reading' = [reading EXCEPT ![s] = TRUE]
  /\ main' = [main EXCEPT !.at = "append"]
  /\ UNCHANGED <<thread_vars, shared_vars, m_closed, m_writing_async, m_write_queue,
                 waiting, peer, process, history>>

(* Thread::append, under m_new_sockets_lock.                               *)
append(s) ==
  /\ process = "running"
  /\ main = [at |-> "append", socket |-> s]
  /\ net # "adding"
  /\ m_connections' = m_connections + 1
  /\ m_new_sockets' = Append(m_new_sockets, s)
  /\ main' = [main EXCEPT !.at = "return"]
  /\ UNCHANGED <<thread_vars, socket_vars, peer, process, history>>

(* on_socket_open returns and drops its own shared_ptr; the acceptor is    *)
(* armed again.                                                            *)
Return(s) ==
  /\ process = "running"
  /\ main = [at |-> "return", socket |-> s]
  /\ main' = [at |-> "accept", socket |-> NoSocket]
  /\ UNCHANGED <<thread_vars, shared_vars, socket_vars, peer, process, history>>

-------------------------------------------------------------------------------
(* Network thread: completion handlers.                                    *)

HandlerRuns(s) ==
  /\ process = "running"
  /\ net = "idle"
  /\ Held(s)

(* Faulty variant: a read is armed on a session that has just closed (no   *)
(* is_open check in async_read).                                           *)
end_read_rearmed(s) == UNCHANGED reading

end_read(s) == reading' = [reading EXCEPT ![s] = FALSE]

ReadError(s) ==
  /\ HandlerRuns(s)
  /\ reading[s]
  /\ end_read(s)
  /\ close_socket(s)
  /\ UNCHANGED <<main, thread_vars, shared_vars, m_writing_async, m_write_queue,
                 waiting, peer, history>>

(* on_read handled some frames and queued their replies; then it armed the *)
(* next read, or closed the session, or met an unknown command.            *)
ReadDone(s) ==
  /\ HandlerRuns(s)
  /\ reading[s]
  /\ \E n \in 0 .. (MaxPackets - queued[s]) :
       /\ queued' = [queued EXCEPT ![s] = @ + n]
       /\ m_write_queue' =
            [m_write_queue EXCEPT
               ![s] = @ \o [i \in 1..n |-> [id |-> queued[s] + i, sent |-> 0]]]
  /\ \/ UNCHANGED <<reading, m_closed, process>>
     \/ /\ end_read(s)
        /\ close_socket(s)
     \/ /\ end_read(s)
        /\ UNCHANGED <<m_closed, process>>
  /\ UNCHANGED <<main, thread_vars, shared_vars, m_writing_async, waiting, peer, wire>>

(* Faulty variant: the handler leaves m_writing_async set.                 *)
end_wait_flag_kept(s) ==
  waiting' = [waiting EXCEPT ![s] = FALSE] /\ UNCHANGED m_writing_async

end_wait(s) ==
  /\ waiting' = [waiting EXCEPT ![s] = FALSE]
  /\ m_writing_async' = [m_writing_async EXCEPT ![s] = FALSE]

(* The kernel has room again, or reports that the connection is gone.      *)
(* handle_queue runs once; the next tick goes on.  The queue is never      *)
(* empty here (WriteWaits).                                                *)
Writable(s) ==
  /\ HandlerRuns(s)
  /\ waiting[s]
  /\ \/ /\ WriteFails(s) \/ WholeWrite(s)
        /\ end_wait(s)
     \/ PartialWrite(s)
  /\ UNCHANGED <<main, thread_vars, shared_vars, m_closed, reading, peer, process, queued>>

(* Destroying the session cancels its operations, whose handlers then run  *)
(* on freed memory.                                                        *)
HandlerOfDestroyed(s) ==
  /\ process = "running"
  /\ net = "idle"
  /\ Destroyed(s)
  /\ reading[s] \/ waiting[s]
  /\ process' = "undefined"
  /\ UNCHANGED <<main, thread_vars, shared_vars, socket_vars, peer, history>>

-------------------------------------------------------------------------------
(* Network thread: the update tick.                                        *)

(* Faulty variants: a session that leaves is not taken off the count, or   *)
(* taken off twice.                                                        *)
uncount_forgotten == UNCHANGED m_connections
uncount_twice == m_connections' = m_connections - 2

uncount == m_connections' = m_connections - 1

(* Faulty variant: the tick forgets add_new_sockets.                       *)
Tick_update_only ==
  /\ process = "running"
  /\ net = "idle"
  /\ net' = "update" /\ todo' = m_sockets
  /\ UNCHANGED <<main, m_sockets, shared_vars, socket_vars, peer, process, history>>

(* The timer is armed again; add_new_sockets takes m_new_sockets_lock.     *)
Tick ==
  /\ process = "running"
  /\ net = "idle"
  /\ net' = "adding"
  /\ UNCHANGED <<main, todo, m_sockets, shared_vars, socket_vars, peer, process, history>>

(* The loop of add_new_sockets.  The list is cleared after it, which only  *)
(* the holder of the lock could tell from one session at a time.           *)
AddNew(s) ==
  /\ process = "running"
  /\ net = "adding"
  /\ m_new_sockets # <<>> /\ Head(m_new_sockets) = s
  /\ m_new_sockets' = Tail(m_new_sockets)
  /\ \/ /\ m_closed[s]
        /\ uncount
        /\ UNCHANGED m_sockets
     \/ /\ ~ m_closed[s]
        /\ m_sockets' = Append(m_sockets, s)
        /\ UNCHANGED m_connections
  /\ UNCHANGED <<main, net, todo, socket_vars, peer, process, history>>

(* The lock is released and every session updated.                         *)
AddingDone ==
  /\ process = "running"
  /\ net = "adding"
  /\ m_new_sockets = <<>>
  /\ net' = "update" /\ todo' = m_sockets
  /\ UNCHANGED <<main, m_sockets, shared_vars, socket_vars, peer, process, history>>

Updating(s) ==
  /\ process = "running"
  /\ net = "update"
  /\ todo # <<>> /\ Head(todo) = s

(* update() returned false: the session is erased from m_sockets, which    *)
(* drops the last shared_ptr.                                              *)
Reap(s) ==
  /\ Updating(s)
  /\ m_closed[s]
  /\ uncount
  /\ \E i \in DOMAIN m_sockets :
       m_sockets[i] = s /\ m_sockets' = RemoveAt(m_sockets, i)
  /\ todo' = Tail(todo)
  /\ UNCHANGED <<main, net, m_new_sockets, socket_vars, peer, process, history>>

NothingToWrite(s) ==
  /\ Updating(s)
  /\ ~ m_closed[s]
  /\ m_writing_async[s] \/ m_write_queue[s] = <<>>
  /\ todo' = Tail(todo)
  /\ UNCHANGED <<main, net, m_sockets, shared_vars, socket_vars, peer, process, history>>

StartFlush(s) ==
  /\ Updating(s)
  /\ ~ m_closed[s]
  /\ ~ m_writing_async[s] /\ m_write_queue[s] # <<>>
  /\ net' = "flush"
  /\ UNCHANGED <<main, todo, m_sockets, shared_vars, socket_vars, peer, process, history>>

(* while (handle_queue()): the loop goes on after a message written whole  *)
(* if another is waiting.                                                  *)
Flush(s) ==
  /\ process = "running"
  /\ net = "flush"
  /\ Head(todo) = s
  /\ \/ /\ WouldBlock(s) \/ PartialWrite(s)
        /\ net' = "update" /\ todo' = Tail(todo)
     \/ /\ WriteFails(s)
        /\ net' = "update" /\ todo' = Tail(todo)
        /\ UNCHANGED <<m_writing_async, waiting>>
     \/ /\ WholeWrite(s)
        /\ IF m_write_queue'[s] = <<>>
           THEN net' = "update" /\ todo' = Tail(todo)
           ELSE UNCHANGED <<net, todo>>
        /\ UNCHANGED <<m_writing_async, waiting>>
  /\ UNCHANGED <<main, m_sockets, shared_vars, m_closed, reading, peer, process, queued>>

TickDone ==
  /\ process = "running"
  /\ net = "update"
  /\ todo = <<>>
  /\ net' = "idle"
  /\ UNCHANGED <<main, todo, m_sockets, shared_vars, socket_vars, peer, process, history>>

-------------------------------------------------------------------------------
(* The client's end, at any time.                                          *)
PeerResets(s) ==
  /\ process = "running"
  /\ peer[s] = "connected"
  /\ peer' = [peer EXCEPT ![s] = "reset"]
  /\ UNCHANGED <<main, thread_vars, shared_vars, socket_vars, process, history>>

MainThread(s) == StartThrows(s) \/ Start(s) \/ append(s) \/ Return(s)
Handlers(s) == ReadError(s) \/ ReadDone(s) \/ Writable(s) \/ HandlerOfDestroyed(s)
Update(s) == AddNew(s) \/ Reap(s) \/ NothingToWrite(s) \/ StartFlush(s) \/ Flush(s)

Next ==
  \/ \E s \in Sockets :
       Accept(s) \/ MainThread(s) \/ Handlers(s) \/ Update(s) \/ PeerResets(s)
  \/ Tick
  \/ AddingDone
  \/ TickDone

Spec == Init /\ [][Next]_vars

(* The timer is armed again at the start of every tick and the handlers    *)
(* ready in the io_context run in order, so ticks and a ready write wait   *)
(* are never put off for ever.  That the wait becomes ready is the client  *)
(* reading what it is sent, or the kernel giving the connection up.  The   *)
(* tick holds m_new_sockets_lock for a loop in each millisecond, so that   *)
(* the main thread gets it sooner or later.  Nothing makes a client send,  *)
(* so reads have no fairness.                                              *)
FairSpec ==
  /\ Spec
  /\ WF_vars(Tick) /\ WF_vars(AddingDone) /\ WF_vars(TickDone)
  /\ \A s \in Sockets :
       /\ WF_vars(Update(s))
       /\ SF_vars(MainThread(s))
       /\ SF_vars(Writable(s))

-------------------------------------------------------------------------------
(* Properties.                                                             *)

Packets == [id : 1 .. MaxPackets, sent : 0 .. (PacketBytes - 1)]
Places == (1 .. MaxPackets) \X (1 .. PacketBytes)

(* The fields of the threads and sockets hold values of their types.       *)
TypeOK ==
  /\ main \in [at : {"accept", "start", "append", "return"}, socket : Sockets \cup {NoSocket}]
  /\ net \in {"idle", "adding", "update", "flush"}
  /\ todo \in Seq(Sockets) /\ m_new_sockets \in Seq(Sockets) /\ m_sockets \in Seq(Sockets)
  /\ m_connections \in Nat
  /\ m_closed \in [Sockets -> BOOLEAN] /\ m_writing_async \in [Sockets -> BOOLEAN]
  /\ m_write_queue \in [Sockets -> Seq(Packets)]
  /\ reading \in [Sockets -> BOOLEAN] /\ waiting \in [Sockets -> BOOLEAN]
  /\ peer \in [Sockets -> {"none", "connected", "reset"}]
  /\ process \in {"running", "terminated", "undefined"}
  /\ queued \in [Sockets -> 0 .. MaxPackets]
  /\ wire \in [Sockets -> Seq(Places)]

(* The bytes of packets 1 .. n, one packet after the other.                *)
Bytes(n) ==
  [i \in 1 .. (n * PacketBytes) |->
     <<((i - 1) \div PacketBytes) + 1, ((i - 1) % PacketBytes) + 1>>]

(* What a client receives is the replies in the order they were queued,    *)
(* each whole before the next, however the kernel cuts the writes and      *)
(* whichever of the tick and the write handler makes them.                 *)
RepliesInOrder ==
  \A s \in Sockets : IsPrefix(wire[s], Bytes(queued[s]))

(* A reply leaves the queue by being written whole, unless the connection  *)
(* is gone: what is written and what is queued add up to what was queued.  *)
NoReplyDropped ==
  \A s \in Sockets :
    ~ Broken(s) =>
      /\ Len(wire[s]) =
           (queued[s] - Len(m_write_queue[s])) * PacketBytes
             + (IF m_write_queue[s] = <<>> THEN 0 ELSE Head(m_write_queue[s]).sent)
      /\ \A i \in DOMAIN m_write_queue[s] :
           m_write_queue[s][i].id = queued[s] - Len(m_write_queue[s]) + i

(* No session is destroyed while it is open, and none while a read is      *)
(* outstanding whose handler would run on it: neither by a read that       *)
(* fails before the main thread has appended the session nor by the tick.  *)
OnlyClosedDestroyed ==
  \A s \in Sockets : Destroyed(s) /\ process = "running" =>
    /\ ~ reading[s]
    /\ m_closed[s] \/ peer[s] = "reset"

(* Every session has one owner, and m_connections (by which the acceptor   *)
(* picks a thread) counts exactly the sessions the thread owns, closed     *)
(* early, late or not at all.                                              *)
ConnectionsCounted ==
  /\ IsInjective(m_new_sockets \o m_sockets)
  /\ main.at # "return" => main.socket \notin ToSet(m_new_sockets \o m_sockets)
  /\ m_connections = Len(m_new_sockets) + Len(m_sockets)

(* A write wait belongs to the flag that says so and always finds a        *)
(* message to go on with, and a handler can run on a destroyed session in  *)
(* one way only: the read side closed it while a write was blocked.        *)
WriteWaits ==
  /\ \A s \in Sockets :
       /\ waiting[s] <=> m_writing_async[s]
       /\ waiting[s] => m_write_queue[s] # <<>>
  /\ process = "undefined" =>
       \E s \in Sockets : Destroyed(s) /\ waiting[s] /\ m_closed[s]

(* A closed session is destroyed sooner or later, wherever it was when it  *)
(* closed.                                                                 *)
ClosedIsReaped ==
  \A s \in Sockets : m_closed[s] ~> (Destroyed(s) \/ process # "running")

(* A queued reply is written sooner or later unless the session closes or  *)
(* the connection breaks: the flag that keeps the tick off a blocked       *)
(* session is always cleared again.                                        *)
RepliesWritten ==
  \A s \in Sockets :
    m_write_queue[s] # <<>> ~> (m_write_queue[s] = <<>> \/ Broken(s) \/ process # "running")

==============================================================================

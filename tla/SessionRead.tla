------------------------------ MODULE SessionRead ------------------------------
(***************************************************************************)
(* The reading side of one client session: Socket::async_read, the         *)
(* completion handler of the read, and Authentication::Session::on_read,   *)
(* on the bytes of the session's MessageBuffer.                            *)
(*                                                                         *)
(* All of it runs on the network thread, so a completion handler and the   *)
(* loop of on_read are not interleaved with another reader; each iteration *)
(* of the loop is one step, so that TLC sees the buffer between two        *)
(* frames.  What the handlers do with a frame is the subject of Logon; here *)
(* a handler takes the frame or fails.                                     *)
(***************************************************************************)
EXTENDS Framing

CONSTANTS
  Streams,        \* the byte streams a client may send
  initial_size    \* MessageBuffer::initial_size, 4096 in the code

INSTANCE MessageBuffer

ASSUME StreamAssumption == Streams \subseteq Seq(Byte)

(* A buffer holds a whole frame of every kind: 51, 75 and 5 bytes of 4096. *)
ASSUME BufferAssumption ==
  /\ initial_size \in Nat
  /\ max_challenge_size <= initial_size
  /\ logon_proof_size <= initial_size
  /\ realmlist_packet_size <= initial_size

VARIABLES
  stream,         \* what the client sends, in order
  delivered,      \* how many bytes of it completed reads have stored
  m_read_buffer,
  m_closed,
  pc,             \* "reading": async_read_some is outstanding; "on_read": in
                  \* the loop; "returned": on_read returned and nothing reads
  consumed,       \* history: the place in stream of read_ptr()
  frames,         \* history: the frames whose handler succeeded
  cause           \* history: who closed, "none", "peer" or "session"

vars == <<stream, delivered, m_read_buffer, m_closed, pc, consumed, frames, cause>>

-------------------------------------------------------------------------------
(* What on_read sees at read_ptr().                                        *)

command == m_read_buffer.m_data[m_read_buffer.m_read_pos + 1]

(* challenge->size is read without asking whether its two bytes are there. *)
declared_sizes ==
  {Word(lo, hi) : lo \in peek(m_read_buffer, 2), hi \in peek(m_read_buffer, 3)}

frame_sizes ==
  IF command = cmd_auth_logon_challenge
  THEN {challenge_size(d) : d \in declared_sizes} \cap (0 .. max_challenge_size)
  ELSE {frame_size(command, 0)}

(* Faulty variants: the length is not awaited, or exceeded before a frame  *)
(* is taken.                                                               *)
complete_unchecked(size) == TRUE
complete_strictly(size) == size < active_size(m_read_buffer)

complete(size) == size <= active_size(m_read_buffer)

in_loop == pc = "on_read" /\ active_size(m_read_buffer) > 0

-------------------------------------------------------------------------------
(* Faulty variant: the buffer is not normalized.                           *)
async_read_unnormalized ==
  /\ m_read_buffer' = ensure_free_space(m_read_buffer)
  /\ pc' = "reading"

async_read ==
  /\ m_read_buffer' = ensure_free_space(normalize(m_read_buffer))
  /\ pc' = "reading"

close_socket(who) ==
  /\ m_closed' = TRUE
  /\ cause' = who
  /\ pc' = "returned"

(* buffer.read_completed(size), after the handler returned true.           *)
take_frame(size) ==
  /\ m_read_buffer' = read_completed(m_read_buffer, size)
  /\ consumed' = consumed + size
  /\ frames' = Append(frames, [command |-> command, at |-> consumed, size |-> size])
  /\ UNCHANGED <<stream, delivered, m_closed, pc, cause>>

refuse ==
  /\ close_socket("session")
  /\ UNCHANGED <<stream, delivered, m_read_buffer, consumed, frames>>

-------------------------------------------------------------------------------
(* on_start arms the first read on an empty buffer.                        *)
Init ==
  /\ stream \in Streams
  /\ delivered = 0
  /\ m_read_buffer = NewBuffer
  /\ m_closed = FALSE
  /\ pc = "reading"
  /\ consumed = 0
  /\ frames = <<>>
  /\ cause = "none"

(* TCP hands over any non-empty part of what is on its way, up to the free *)
(* space the read was given.                                               *)
ReadCompletes ==
  /\ pc = "reading"
  /\ \E n \in 1 .. remaining_size(m_read_buffer) :
       /\ delivered + n <= Len(stream)
       /\ m_read_buffer' = write(m_read_buffer, SubSeq(stream, delivered + 1, delivered + n))
       /\ delivered' = delivered + n
  /\ pc' = "on_read"
  /\ UNCHANGED <<stream, m_closed, consumed, frames, cause>>

(* End of file or a reset, at any point of the stream.                     *)
ReadFails ==
  /\ pc = "reading"
  /\ close_socket("peer")
  /\ UNCHANGED <<stream, delivered, m_read_buffer, consumed, frames>>

(* The handler table has no entry: the buffer is emptied and on_read       *)
(* returns.  Nothing closes the socket and nothing arms another read.      *)
InvalidCommand ==
  /\ in_loop
  /\ command \notin Commands
  /\ m_read_buffer' = reset(m_read_buffer)
  /\ consumed' = delivered
  /\ pc' = "returned"
  /\ UNCHANGED <<stream, delivered, m_closed, frames, cause>>

OversizeChallenge ==
  /\ in_loop
  /\ command = cmd_auth_logon_challenge
  /\ \E declared \in declared_sizes : challenge_size(declared) > max_challenge_size
  /\ refuse

(* Faulty variant: the loop is not left.                                   *)
IncompleteFrame_no_break ==
  /\ in_loop
  /\ command \in Commands
  /\ \E size \in frame_sizes : ~ complete(size)
  /\ UNCHANGED vars

IncompleteFrame ==
  /\ in_loop
  /\ command \in Commands
  /\ \E size \in frame_sizes : ~ complete(size)
  /\ async_read
  /\ UNCHANGED <<stream, delivered, m_closed, consumed, frames, cause>>

(* Faulty variant: the name length is not compared.                        *)
LogonChallenge_unchecked_name ==
  /\ in_loop
  /\ command = cmd_auth_logon_challenge
  /\ \E declared \in declared_sizes :
       /\ challenge_size(declared) <= max_challenge_size
       /\ complete(challenge_size(declared))
       /\ take_frame(challenge_size(declared))

(* logon_challenge_handler trusts the length of a frame only when it       *)
(* agrees with the length of the account name.                             *)
LogonChallenge ==
  /\ in_loop
  /\ command = cmd_auth_logon_challenge
  /\ \E declared \in declared_sizes,
        account_name_length \in peek(m_read_buffer, name_length_offset) :
       /\ challenge_size(declared) <= max_challenge_size
       /\ complete(challenge_size(declared))
       /\ \/ /\ name_length_matches(declared, account_name_length)
             /\ take_frame(challenge_size(declared))
          \/ /\ ~ name_length_matches(declared, account_name_length)
             /\ refuse

(* logon_proof_handler fails when the last challenge named an unsupported  *)
(* client build.                                                           *)
LogonProof ==
  /\ in_loop
  /\ command = cmd_auth_logon_proof
  /\ complete(logon_proof_size)
  /\ take_frame(logon_proof_size) \/ refuse

Realmlist ==
  /\ in_loop
  /\ command = cmd_realmlist
  /\ complete(realmlist_packet_size)
  /\ take_frame(realmlist_packet_size)

(* The loop has used up the buffer.                                        *)
BufferDrained ==
  /\ pc = "on_read"
  /\ active_size(m_read_buffer) = 0
  /\ async_read
  /\ UNCHANGED <<stream, delivered, m_closed, consumed, frames, cause>>

on_read ==
  \/ InvalidCommand
  \/ OversizeChallenge
  \/ IncompleteFrame
  \/ LogonChallenge
  \/ LogonProof
  \/ Realmlist
  \/ BufferDrained

Next == ReadCompletes \/ ReadFails \/ on_read

Spec == Init /\ [][Next]_vars

(* The network thread runs a handler to its end, and as long as bytes the  *)
(* client sent are on their way TCP delivers some or reports an error.     *)
FairSpec == Spec /\ WF_vars(on_read) /\ WF_vars(ReadCompletes)

-------------------------------------------------------------------------------
(* Properties.                                                             *)

(* The state of a session's reading side is well formed; in particular the *)
(* two positions stay ordered and inside the vector.                       *)
TypeOK ==
  /\ stream \in Streams
  /\ delivered \in 0 .. Len(stream)
  /\ m_read_buffer \in Buffer
  /\ m_read_buffer.m_read_pos <= m_read_buffer.m_write_pos
  /\ m_read_buffer.m_write_pos <= Len(m_read_buffer.m_data)
  /\ m_closed \in BOOLEAN
  /\ pc \in {"reading", "on_read", "returned"}
  /\ consumed \in 0 .. Len(stream)
  /\ frames \in Seq([command : Commands, at : Nat, size : Nat])
  /\ cause \in {"none", "peer", "session"}

(* Whatever moves, fragments and leftovers the buffer has been through, the *)
(* active bytes are exactly the bytes of the stream between the last frame *)
(* consumed and the last byte delivered: none lost, repeated or displaced. *)
StreamIntegrity ==
  /\ active_size(m_read_buffer) = delivered - consumed
  /\ \A i \in 1 .. active_size(m_read_buffer) :
       m_read_buffer.m_data[m_read_buffer.m_read_pos + i] = stream[consumed + i]

(* A session waits for more bytes only when those it has are not enough: a *)
(* complete frame is never left in the buffer until the next packet        *)
(* arrives.  (frames pipelined by the client, Session.cpp:45-91)           *)
NoFrameLeftWaiting ==
  pc = "reading" /\ consumed < delivered =>
    LET first == stream[consumed + 1]
        declared == Word(stream[consumed + 3], stream[consumed + 4])
    IN \/ first = cmd_auth_logon_challenge
          /\ \/ delivered - consumed < logon_challenge_initial_size
             \/ delivered - consumed < challenge_size(declared)
       \/ first = cmd_auth_logon_proof /\ delivered - consumed < logon_proof_size
       \/ first = cmd_realmlist /\ delivered - consumed < realmlist_packet_size

(* A client cannot make its session's buffer grow, and every read is given *)
(* room for at least one byte (a read of no bytes would complete at once,  *)
(* forever).                                                               *)
BufferBounded ==
  /\ Len(m_read_buffer.m_data) = initial_size
  /\ pc = "reading" => remaining_size(m_read_buffer) > 0

(* The stream is cut into frames as FrameReader says, and a session is     *)
(* closed by the server, stalled or left open only where FrameReader       *)
(* allows it.                                                              *)
status ==
  IF m_closed
  THEN IF cause = "peer" THEN "closed" ELSE "refused"
  ELSE IF pc = "returned" THEN "stalled" ELSE "open"

Abstract == INSTANCE FrameReader WITH arrived <- delivered, pos <- consumed
ImplementsFrameReader == Abstract!Spec

(* A session that stays open and meets no unknown command reads everything *)
(* the client sends, however it arrives.                                   *)
WholeStreamRead ==
  <>[](pc = "returned") \/ <>[](pc = "reading" /\ delivered = Len(stream))

==============================================================================

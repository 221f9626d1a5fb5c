----------------------------- MODULE FrameReader -----------------------------
(***************************************************************************)
(* What Session::on_read promises about the byte stream of one client,     *)
(* with no buffer in sight: frames are taken off the stream in order, each *)
(* exactly where the previous one ended and as long as its own bytes say,  *)
(* however TCP cuts the stream into pieces.                                *)
(***************************************************************************)
EXTENDS Framing

CONSTANT Streams        \* the byte streams a client may send

VARIABLES
  stream,     \* everything the client sends
  arrived,    \* how much of it the server has received
  pos,        \* how much of it has been consumed
  frames,     \* the frames whose handler succeeded
  status      \* "open", "stalled" (invalid command), "refused" or "closed"

vars == <<stream, arrived, pos, frames, status>>

Command == stream[pos + 1]
Declared == Word(stream[pos + 3], stream[pos + 4])
Pending == arrived - pos

(* The frame at pos is complete and its handler can succeed.               *)
Acceptable(size) ==
  /\ Command \in Commands
  /\ size <= Pending
  /\ CASE Command = cmd_auth_logon_challenge ->
            /\ logon_challenge_initial_size <= Pending
            /\ size = challenge_size(Declared)
            /\ size <= max_challenge_size
            /\ \E len \in Byte : /\ name_length_matches(Declared, len)
                                 /\ len = stream[pos + name_length_offset + 1]
       [] Command = cmd_auth_logon_proof -> size = logon_proof_size
       [] Command = cmd_realmlist        -> size = realmlist_packet_size

(* The only frames the session may turn down: a complete proof, which its  *)
(* handler judges, a challenge that is too long or whose length disagrees  *)
(* with its name, and a challenge of which less than the size field has    *)
(* arrived (on_read looks at the size field before it is there).           *)
Refusable ==
  \/ /\ Command = cmd_auth_logon_proof
     /\ logon_proof_size <= Pending
  \/ /\ Command = cmd_auth_logon_challenge
     /\ \/ Pending < logon_challenge_initial_size
        \/ challenge_size(Declared) > max_challenge_size
        \/ ~ \E len \in Byte : /\ name_length_matches(Declared, len)
                               /\ len = stream[pos + name_length_offset + 1]

Init ==
  /\ stream \in Streams
  /\ arrived = 0
  /\ pos = 0
  /\ frames = <<>>
  /\ status = "open"

Arrive ==
  /\ status = "open"
  /\ \E n \in 1 .. (Len(stream) - arrived) : arrived' = arrived + n
  /\ UNCHANGED <<stream, pos, frames, status>>

TakeFrame ==
  /\ status = "open"
  /\ Pending > 0
  /\ \E size \in 1 .. Pending :
       /\ Acceptable(size)
       /\ frames' = Append(frames, [command |-> Command, at |-> pos, size |-> size])
       /\ pos' = pos + size
  /\ UNCHANGED <<stream, arrived, status>>

Refuse ==
  /\ status = "open"
  /\ Pending > 0
  /\ Refusable
  /\ status' = "refused"
  /\ UNCHANGED <<stream, arrived, pos, frames>>

(* An unknown command loses everything received so far.                    *)
Stall ==
  /\ status = "open"
  /\ Pending > 0
  /\ Command \notin Commands
  /\ status' = "stalled"
  /\ pos' = arrived
  /\ UNCHANGED <<stream, arrived, frames>>

HangUp ==
  /\ status = "open"
  /\ status' = "closed"
  /\ UNCHANGED <<stream, arrived, pos, frames>>

Next == Arrive \/ TakeFrame \/ Refuse \/ Stall \/ HangUp

Spec == Init /\ [][Next]_vars

==============================================================================

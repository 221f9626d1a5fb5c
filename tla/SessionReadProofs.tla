--------------------------- MODULE SessionReadProofs ---------------------------
(***************************************************************************)
(* Proofs about SessionRead, for every wire format, every initial buffer   *)
(* size that holds a frame and every set of client streams.                *)
(*                                                                         *)
(* The inductive invariant Inv adds to the checked invariants that the     *)
(* buffer was normalized before every read, and that the flags of a closed *)
(* session agree.  Normalization is what makes the two bounds of           *)
(* BufferBounded inductive: a session waits only with less than a frame in *)
(* a buffer that starts at its base.                                       *)
(***************************************************************************)
EXTENDS SessionRead, TLAPS

Normalized == pc = "reading" => m_read_buffer.m_read_pos = 0

Closed ==
  /\ m_closed => pc = "returned"
  /\ m_closed <=> cause # "none"

Inv ==
  /\ TypeOK
  /\ StreamIntegrity
  /\ BufferBounded
  /\ Normalized
  /\ Closed

-------------------------------------------------------------------------------
(* Arithmetic of the format.                                               *)

LEMMA SmallSize ==
  ASSUME NEW d \in Nat, NEW w \in Nat, d < w
  PROVE  d % w = d
  OBVIOUS

LEMMA FormatTypes ==
  /\ ByteBase \in Nat /\ WordBase \in Nat /\ WordBase > 0
  /\ Byte \subseteq Nat
  /\ challenge_fixed_size \in Nat
  /\ max_challenge_size \in Nat
  /\ name_length_offset \in Nat
  /\ \A lo, hi \in Byte : Word(lo, hi) \in Nat
  /\ \A d \in Nat : challenge_size(d) \in Nat
<1>1. ByteBase \in Nat /\ ByteBase > 0
  BY FormatAssumption
<1>2. WordBase \in Nat /\ WordBase > 0
  BY <1>1, SMTT(30) DEF WordBase
<1>3. Byte \subseteq Nat
  BY <1>1 DEF Byte
<1>4. \A lo, hi \in Byte : Word(lo, hi) \in Nat
  BY <1>1, <1>3 DEF Word
<1>5. \A d \in Nat : challenge_size(d) \in Nat
  BY <1>2 DEF challenge_size, logon_challenge_initial_size
<1> QED
  BY <1>1, <1>2, <1>3, <1>4, <1>5, FormatAssumption
  DEF challenge_fixed_size, max_challenge_size, name_length_offset,
      logon_challenge_initial_size

(* The length of a challenge whose name length matches did not wrap: it    *)
(* ends exactly behind the name length and the name.                       *)
LEMMA MatchingChallenge ==
  ASSUME NEW d \in Nat, NEW len \in Byte, name_length_matches(d, len)
  PROVE  /\ challenge_size(d) = name_length_offset + 1 + len
         /\ challenge_size(d) > logon_challenge_initial_size
<1> USE FormatTypes, FormatAssumption
<1>1. len \in Nat /\ len < ByteBase
  BY DEF Byte
<1>2. logon_challenge_initial_size + d < WordBase
  BY <1>1, WordAssumption DEF name_length_matches, logon_challenge_initial_size
<1>3. challenge_size(d) = logon_challenge_initial_size + d
  BY <1>2, SmallSize DEF challenge_size, logon_challenge_initial_size
<1> QED
  BY <1>1, <1>3
  DEF name_length_matches, challenge_fixed_size, name_length_offset,
      logon_challenge_initial_size

-------------------------------------------------------------------------------
(* The buffer operations, on a buffer whose positions are in order.        *)

WellFormed(b) ==
  /\ b \in Buffer
  /\ b.m_read_pos <= b.m_write_pos
  /\ b.m_write_pos <= Len(b.m_data)

LEMMA FunctionIsSequence ==
  ASSUME NEW S, NEW n \in Nat, NEW f \in [1..n -> S]
  PROVE  f \in Seq(S) /\ Len(f) = n
OBVIOUS

LEMMA NormalizedBuffer ==
  ASSUME NEW b, WellFormed(b)
  PROVE  /\ WellFormed(normalize(b))
         /\ normalize(b).m_read_pos = 0
         /\ normalize(b).m_write_pos = active_size(b)
         /\ Len(normalize(b).m_data) = Len(b.m_data)
         /\ \A i \in 1 .. active_size(b) :
              normalize(b).m_data[i] = b.m_data[b.m_read_pos + i]
<1>1. CASE b.m_read_pos = 0
  BY <1>1 DEF WellFormed, Buffer, normalize, active_size
<1>2. CASE b.m_read_pos # 0
  <2> DEFINE moved == [i \in 1..Len(b.m_data) |->
                         IF i <= active_size(b) THEN b.m_data[b.m_read_pos + i]
                                                ELSE b.m_data[i]]
  <2>1. /\ b.m_data \in Seq(Byte)
        /\ b.m_read_pos \in Nat /\ b.m_write_pos \in Nat
        /\ active_size(b) \in Nat
        /\ b.m_read_pos + active_size(b) = b.m_write_pos
        /\ Len(b.m_data) \in Nat
    BY DEF WellFormed, Buffer, active_size
  <2>2. \A i \in 1..Len(b.m_data) : moved[i] \in Byte
    BY <2>1 DEF WellFormed
  <2>3. moved \in Seq(Byte) /\ Len(moved) = Len(b.m_data)
    <3>1. moved \in [1..Len(b.m_data) -> Byte]
      BY <2>2
    <3> QED
      BY <3>1, <2>1, FunctionIsSequence
  <2>4. normalize(b) = [m_data |-> moved, m_read_pos |-> 0,
                        m_write_pos |-> active_size(b)]
    BY <1>2 DEF normalize
  <2>5. \A i \in 1 .. active_size(b) : moved[i] = b.m_data[b.m_read_pos + i]
    BY <2>1 DEF WellFormed
  <2> HIDE DEF moved
  <2> QED
    BY <2>1, <2>3, <2>4, <2>5 DEF WellFormed, Buffer
<1> QED
  BY <1>1, <1>2

(* With room left, ensure_free_space does nothing.                         *)
LEMMA RoomLeft ==
  ASSUME NEW b, WellFormed(b), active_size(b) < Len(b.m_data)
  PROVE  ensure_free_space(normalize(b)) = normalize(b)
BY NormalizedBuffer DEF ensure_free_space, remaining_size, WellFormed, Buffer, active_size

LEMMA WrittenBuffer ==
  ASSUME NEW b, WellFormed(b), NEW bytes \in Seq(Byte),
         Len(bytes) <= remaining_size(b)
  PROVE  /\ WellFormed(write(b, bytes))
         /\ write(b, bytes).m_read_pos = b.m_read_pos
         /\ write(b, bytes).m_write_pos = b.m_write_pos + Len(bytes)
         /\ Len(write(b, bytes).m_data) = Len(b.m_data)
         /\ \A i \in 1 .. b.m_write_pos :
              write(b, bytes).m_data[i] = b.m_data[i]
         /\ \A i \in 1 .. Len(bytes) :
              write(b, bytes).m_data[b.m_write_pos + i] = bytes[i]
<1> DEFINE data == [i \in 1..Len(b.m_data) |->
                      IF b.m_write_pos < i /\ i <= b.m_write_pos + Len(bytes)
                      THEN bytes[i - b.m_write_pos]
                      ELSE b.m_data[i]]
<1>1. /\ b.m_data \in Seq(Byte)
      /\ b.m_read_pos \in Nat /\ b.m_write_pos \in Nat
      /\ Len(b.m_data) \in Nat /\ Len(bytes) \in Nat
      /\ b.m_write_pos + Len(bytes) <= Len(b.m_data)
  BY DEF WellFormed, Buffer, remaining_size
<1>2. \A i \in 1..Len(b.m_data) : data[i] \in Byte
  BY <1>1
<1>3. data \in Seq(Byte) /\ Len(data) = Len(b.m_data)
  <2>1. data \in [1..Len(b.m_data) -> Byte]
    BY <1>2
  <2> QED
    BY <2>1, <1>1, FunctionIsSequence
<1>4. write(b, bytes) = [m_data |-> data, m_read_pos |-> b.m_read_pos,
                         m_write_pos |-> b.m_write_pos + Len(bytes)]
  <2>1. b = [m_data |-> b.m_data, m_read_pos |-> b.m_read_pos,
             m_write_pos |-> b.m_write_pos]
    BY DEF WellFormed, Buffer
  <2>2. write(b, bytes) = [b EXCEPT !.m_data = data,
                                    !.m_write_pos = @ + Len(bytes)]
    BY Zenon DEF write
  <2> HIDE DEF data
  <2> QED
    BY <2>1, <2>2
<1>5. \A i \in 1 .. b.m_write_pos : data[i] = b.m_data[i]
  BY <1>1
<1>6. \A i \in 1 .. Len(bytes) : data[b.m_write_pos + i] = bytes[i]
  <2> TAKE i \in 1 .. Len(bytes)
  <2>1. /\ b.m_write_pos + i \in 1..Len(b.m_data)
        /\ b.m_write_pos < b.m_write_pos + i
        /\ b.m_write_pos + i <= b.m_write_pos + Len(bytes)
        /\ (b.m_write_pos + i) - b.m_write_pos = i
    BY <1>1
  <2> QED
    BY <2>1
<1> HIDE DEF data
<1> QED
  BY <1>1, <1>3, <1>4, <1>5, <1>6 DEF WellFormed, Buffer

-------------------------------------------------------------------------------
(* What on_read sees is the stream.                                        *)

LEMMA BufferTypes ==
  ASSUME Inv
  PROVE  /\ WellFormed(m_read_buffer)
         /\ stream \in Seq(Byte)
         /\ active_size(m_read_buffer) \in Nat
         /\ active_size(m_read_buffer) <= initial_size
         /\ consumed + active_size(m_read_buffer) = delivered
         /\ consumed \in Nat /\ delivered \in Nat /\ delivered <= Len(stream)
         /\ initial_size \in Nat
BY StreamAssumption, BufferAssumption
DEF Inv, TypeOK, WellFormed, Buffer, active_size, StreamIntegrity, BufferBounded

(* An active byte is the byte of the stream at its place.                  *)
LEMMA PeekActive ==
  ASSUME Inv, NEW i \in Nat, i < active_size(m_read_buffer)
  PROVE  /\ peek(m_read_buffer, i) = {stream[consumed + i + 1]}
         /\ stream[consumed + i + 1] \in Byte
<1>1. m_read_buffer.m_read_pos + i < Len(m_read_buffer.m_data)
  BY BufferTypes DEF WellFormed, Buffer, active_size
<1>2. peek(m_read_buffer, i) = {m_read_buffer.m_data[m_read_buffer.m_read_pos + i + 1]}
  BY <1>1 DEF peek
<1>3. i + 1 \in 1 .. active_size(m_read_buffer)
  BY BufferTypes
<1>4. m_read_buffer.m_data[m_read_buffer.m_read_pos + (i + 1)] = stream[consumed + (i + 1)]
  BY <1>3 DEF Inv, StreamIntegrity
<1>5. /\ m_read_buffer.m_read_pos + (i + 1) = m_read_buffer.m_read_pos + i + 1
      /\ consumed + (i + 1) = consumed + i + 1
  BY BufferTypes DEF WellFormed, Buffer
<1>6. stream[consumed + i + 1] \in Byte
  BY BufferTypes
<1> QED
  BY <1>2, <1>4, <1>5, <1>6

LEMMA PeekType ==
  ASSUME Inv, NEW i \in Nat
  PROVE  peek(m_read_buffer, i) \subseteq Byte
BY BufferTypes DEF peek, WellFormed, Buffer

LEMMA CommandIsStream ==
  ASSUME Inv, active_size(m_read_buffer) > 0
  PROVE  command = stream[consumed + 1]
<1>1. m_read_buffer.m_data[m_read_buffer.m_read_pos + 1] = stream[consumed + 1]
  BY BufferTypes DEF Inv, StreamIntegrity
<1> QED
  BY <1>1 DEF command

LEMMA DeclaredTypes ==
  ASSUME Inv
  PROVE  /\ declared_sizes \subseteq Nat
         /\ \A d \in declared_sizes : challenge_size(d) \in Nat
<1>1. /\ peek(m_read_buffer, 2) \subseteq Byte
      /\ peek(m_read_buffer, 3) \subseteq Byte
  BY PeekType
<1>2. ASSUME NEW d \in declared_sizes PROVE d \in Nat
  <2>1. PICK lo \in peek(m_read_buffer, 2), hi \in peek(m_read_buffer, 3) : d = Word(lo, hi)
    BY DEF declared_sizes
  <2>2. lo \in Byte /\ hi \in Byte
    BY <1>1
  <2> QED
    BY <2>1, <2>2, FormatTypes
<1> QED
  BY <1>2, FormatTypes

(* Once the four bytes of the header are there, the declared size is the   *)
(* client's.                                                               *)
LEMMA DeclaredIsStream ==
  ASSUME Inv, active_size(m_read_buffer) >= logon_challenge_initial_size
  PROVE  declared_sizes = {Word(stream[consumed + 3], stream[consumed + 4])}
<1>1. /\ peek(m_read_buffer, 2) = {stream[consumed + 2 + 1]}
      /\ peek(m_read_buffer, 3) = {stream[consumed + 3 + 1]}
  BY BufferTypes, PeekActive DEF logon_challenge_initial_size
<1>2. consumed + 2 + 1 = consumed + 3 /\ consumed + 3 + 1 = consumed + 4
  BY BufferTypes
<1> QED
  BY <1>1, <1>2 DEF declared_sizes

-------------------------------------------------------------------------------
(* A read armed while less than a frame is left.                           *)
LEMMA ReadArmed ==
  ASSUME Inv, pc = "on_read", async_read,
         active_size(m_read_buffer) < initial_size,
         UNCHANGED <<stream, delivered, m_closed, consumed, frames, cause>>
  PROVE  Inv'
<1> DEFINE b == m_read_buffer
<1>1. /\ WellFormed(b) /\ Len(b.m_data) = initial_size
      /\ active_size(b) \in Nat
  BY BufferTypes DEF Inv, BufferBounded
<1>2. m_read_buffer' = normalize(b)
  BY <1>1, RoomLeft DEF async_read
<1>3. /\ WellFormed(m_read_buffer')
      /\ m_read_buffer'.m_read_pos = 0
      /\ m_read_buffer'.m_write_pos = active_size(b)
      /\ Len(m_read_buffer'.m_data) = initial_size
      /\ \A i \in 1 .. active_size(b) :
           m_read_buffer'.m_data[i] = b.m_data[b.m_read_pos + i]
  BY <1>1, <1>2, NormalizedBuffer
<1>4. active_size(m_read_buffer') = active_size(b)
  BY <1>1, <1>3 DEF active_size, WellFormed, Buffer
<1>5. TypeOK'
  BY <1>3 DEF Inv, TypeOK, async_read, WellFormed
<1>6. StreamIntegrity'
  <2>1. active_size(m_read_buffer)' = delivered' - consumed'
    BY <1>4 DEF Inv, StreamIntegrity, active_size
  <2>2. \A i \in 1 .. active_size(m_read_buffer)' :
          m_read_buffer'.m_data[m_read_buffer'.m_read_pos + i] = stream'[consumed' + i]
    BY <1>1, <1>3, <1>4 DEF Inv, StreamIntegrity, active_size
  <2> QED
    BY <2>1, <2>2 DEF StreamIntegrity
<1>7. BufferBounded'
  BY <1>1, <1>3, BufferTypes DEF BufferBounded, remaining_size, WellFormed, Buffer
<1>8. Normalized' /\ Closed'
  BY <1>3 DEF Normalized, Closed, async_read, Inv
<1> QED
  BY <1>5, <1>6, <1>7, <1>8 DEF Inv

(* A complete frame taken out of the buffer.                               *)
LEMMA FrameTaken ==
  ASSUME Inv, pc = "on_read", NEW size \in Nat, size <= active_size(m_read_buffer),
         command \in Commands, take_frame(size)
  PROVE  Inv'
<1> DEFINE b == m_read_buffer
<1>1. /\ b \in Buffer /\ b.m_read_pos + size <= b.m_write_pos
      /\ b.m_read_pos \in Nat /\ b.m_write_pos \in Nat
      /\ b = [m_data |-> b.m_data, m_read_pos |-> b.m_read_pos,
              m_write_pos |-> b.m_write_pos]
  BY BufferTypes DEF WellFormed, Buffer, active_size
<1>2. m_read_buffer' = [m_data |-> b.m_data, m_read_pos |-> b.m_read_pos + size,
                        m_write_pos |-> b.m_write_pos]
  BY <1>1 DEF take_frame, read_completed
<1>3. active_size(m_read_buffer)' = active_size(b) - size
  BY <1>1, <1>2 DEF active_size
<1>4. frames' \in Seq([command : Commands, at : Nat, size : Nat])
  BY BufferTypes DEF take_frame, Inv, TypeOK
<1>5. TypeOK'
  <2>1. m_read_buffer' \in Buffer
    BY <1>1, <1>2 DEF Buffer
  <2>2. consumed' \in 0 .. Len(stream')
    BY BufferTypes DEF take_frame
  <2> QED
    BY <1>1, <1>2, <1>4, <2>1, <2>2 DEF Inv, TypeOK, take_frame
<1>6. StreamIntegrity'
  <2>1. active_size(m_read_buffer)' = delivered' - consumed'
    BY <1>3, BufferTypes DEF take_frame
  <2>2. ASSUME NEW i \in 1 .. active_size(m_read_buffer)'
        PROVE  m_read_buffer'.m_data[m_read_buffer'.m_read_pos + i] = stream'[consumed' + i]
    <3>1. /\ size + i \in 1 .. active_size(b)
          /\ b.m_read_pos + size + i = b.m_read_pos + (size + i)
          /\ consumed + size + i = consumed + (size + i)
      BY <1>1, <1>3, BufferTypes
    <3>2. b.m_data[b.m_read_pos + (size + i)] = stream[consumed + (size + i)]
      BY <3>1 DEF Inv, StreamIntegrity
    <3> QED
      BY <1>2, <3>1, <3>2 DEF take_frame
  <2> QED
    BY <2>1, <2>2 DEF StreamIntegrity
<1>7. BufferBounded' /\ Normalized' /\ Closed'
  BY <1>2 DEF Inv, BufferBounded, Normalized, Closed, take_frame
<1> QED
  BY <1>5, <1>6, <1>7 DEF Inv

(* A session closed by the peer or by itself.                              *)
LEMMA SessionClosed ==
  ASSUME Inv, NEW who \in {"peer", "session"}, close_socket(who),
         UNCHANGED <<stream, delivered, m_read_buffer, consumed, frames>>
  PROVE  Inv'
<1>1. TypeOK'
  BY DEF Inv, TypeOK, close_socket
<1>2. StreamIntegrity'
  BY DEF Inv, StreamIntegrity, active_size
<1>3. BufferBounded' /\ Normalized' /\ Closed'
  BY DEF Inv, BufferBounded, Normalized, Closed, close_socket
<1> QED
  BY <1>1, <1>2, <1>3 DEF Inv

-------------------------------------------------------------------------------
LEMMA InitInv == Init => Inv
<1> SUFFICES ASSUME Init PROVE Inv
  OBVIOUS
<1>1. /\ initial_size \in Nat /\ initial_size > 0
  BY BufferAssumption, FormatAssumption
<1>2. Zeroes(initial_size) \in Seq(Byte) /\ Len(Zeroes(initial_size)) = initial_size
  <2>1. Zeroes(initial_size) \in [1..initial_size -> Byte]
    BY FormatAssumption DEF Zeroes
  <2> QED
    BY <1>1, <2>1, FunctionIsSequence
<1>3. /\ m_read_buffer \in Buffer
      /\ m_read_buffer.m_data = Zeroes(initial_size)
      /\ m_read_buffer.m_read_pos = 0 /\ m_read_buffer.m_write_pos = 0
  BY <1>2 DEF Init, NewBuffer, Buffer
<1>4. TypeOK
  <2>1. stream \in Streams /\ Len(stream) \in Nat
    BY StreamAssumption DEF Init
  <2>2. frames \in Seq([command : Commands, at : Nat, size : Nat])
    BY DEF Init
  <2>3. /\ m_read_buffer.m_read_pos <= m_read_buffer.m_write_pos
        /\ m_read_buffer.m_write_pos <= Len(m_read_buffer.m_data)
    BY <1>1, <1>2, <1>3
  <2>4. delivered \in 0 .. Len(stream) /\ consumed \in 0 .. Len(stream)
    <3>1. delivered = 0 /\ consumed = 0
      BY DEF Init
    <3> QED
      BY <2>1, <3>1
  <2>5. /\ m_closed \in BOOLEAN
        /\ pc \in {"reading", "on_read", "returned"}
        /\ cause \in {"none", "peer", "session"}
    BY DEF Init
  <2> QED
    BY <1>3, <2>1, <2>2, <2>3, <2>4, <2>5 DEF TypeOK
<1>5. StreamIntegrity
  BY <1>3 DEF Init, StreamIntegrity, active_size
<1>6. BufferBounded /\ Normalized /\ Closed
  BY <1>1, <1>2, <1>3 DEF Init, BufferBounded, remaining_size, Normalized, Closed
<1> QED
  BY <1>4, <1>5, <1>6 DEF Inv

LEMMA ReadCompletesInv == Inv /\ ReadCompletes => Inv'
<1> SUFFICES ASSUME Inv, pc = "reading",
                    NEW n \in 1 .. remaining_size(m_read_buffer),
                    delivered + n <= Len(stream),
                    m_read_buffer' = write(m_read_buffer,
                                           SubSeq(stream, delivered + 1, delivered + n)),
                    delivered' = delivered + n,
                    pc' = "on_read",
                    UNCHANGED <<stream, m_closed, consumed, frames, cause>>
             PROVE  Inv'
  BY DEF ReadCompletes
<1> DEFINE b == m_read_buffer
           bytes == SubSeq(stream, delivered + 1, delivered + n)
<1>1. n \in Nat /\ n <= remaining_size(b) /\ b.m_read_pos = 0
  BY BufferTypes DEF WellFormed, Buffer, remaining_size, Inv, Normalized
<1>2. /\ bytes \in Seq(Byte) /\ Len(bytes) = n
      /\ \A i \in 1 .. n : bytes[i] = stream[delivered + i]
  <2>1. /\ stream \in Seq(Byte) /\ delivered \in Nat /\ n \in Nat
        /\ delivered + n <= Len(stream)
    BY <1>1, BufferTypes
  <2>2. bytes \in Seq(Byte)
    BY <2>1
  <2>3. Len(bytes) = n /\ \A i \in 1 .. n : bytes[i] = stream[delivered + i]
    BY <2>1
  <2> QED
    BY <2>2, <2>3
<1> HIDE DEF bytes
<1>3. /\ WellFormed(m_read_buffer')
      /\ m_read_buffer'.m_read_pos = 0
      /\ m_read_buffer'.m_write_pos = b.m_write_pos + n
      /\ Len(m_read_buffer'.m_data) = Len(b.m_data)
      /\ \A i \in 1 .. b.m_write_pos : m_read_buffer'.m_data[i] = b.m_data[i]
      /\ \A i \in 1 .. n : m_read_buffer'.m_data[b.m_write_pos + i] = bytes[i]
  <2>1. m_read_buffer' = write(b, bytes)
    BY DEF bytes
  <2>2. WellFormed(b) /\ bytes \in Seq(Byte) /\ Len(bytes) <= remaining_size(b)
    BY <1>1, <1>2, BufferTypes
  <2>3. /\ WellFormed(write(b, bytes))
        /\ write(b, bytes).m_read_pos = b.m_read_pos
        /\ write(b, bytes).m_write_pos = b.m_write_pos + Len(bytes)
        /\ Len(write(b, bytes).m_data) = Len(b.m_data)
        /\ \A i \in 1 .. b.m_write_pos : write(b, bytes).m_data[i] = b.m_data[i]
        /\ \A i \in 1 .. Len(bytes) :
             write(b, bytes).m_data[b.m_write_pos + i] = bytes[i]
    BY <2>2, WrittenBuffer
  <2> QED
    BY <1>1, <1>2, <2>1, <2>3
<1>4. /\ active_size(b) = b.m_write_pos
      /\ b.m_write_pos \in Nat
      /\ active_size(m_read_buffer)' = b.m_write_pos + n
  BY <1>1, <1>3, BufferTypes DEF active_size, WellFormed, Buffer
<1>5. TypeOK'
  BY <1>3, BufferTypes DEF Inv, TypeOK, WellFormed
<1>6. StreamIntegrity'
  <2>1. active_size(m_read_buffer)' = delivered' - consumed'
    BY <1>1, <1>4, BufferTypes
  <2>2. ASSUME NEW i \in 1 .. (b.m_write_pos + n)
        PROVE  m_read_buffer'.m_data[i] = stream[consumed + i]
    <3>1. CASE i \in 1 .. b.m_write_pos
      <4>1. b.m_data[b.m_read_pos + i] = stream[consumed + i]
        BY <3>1, <1>4 DEF Inv, StreamIntegrity
      <4> QED
        BY <4>1, <3>1, <1>1, <1>3
    <3>2. CASE i \notin 1 .. b.m_write_pos
      <4>1. PICK j \in 1 .. n : i = b.m_write_pos + j
        <5>1. i - b.m_write_pos \in 1 .. n /\ i = b.m_write_pos + (i - b.m_write_pos)
          BY <3>2, <1>1, <1>4
        <5> QED
          BY <5>1
      <4>2. delivered + j = consumed + i
        BY <4>1, <1>1, <1>4, BufferTypes
      <4> QED
        BY <4>1, <4>2, <1>2, <1>3
    <3> QED
      BY <3>1, <3>2
  <2>3. \A i \in 1 .. active_size(m_read_buffer)' :
          m_read_buffer'.m_data[m_read_buffer'.m_read_pos + i] = stream'[consumed' + i]
    BY <2>2, <1>3, <1>4
  <2> QED
    BY <2>1, <2>3 DEF StreamIntegrity
<1>7. BufferBounded' /\ Normalized' /\ Closed'
  BY <1>3 DEF Inv, BufferBounded, Normalized, Closed
<1> QED
  BY <1>5, <1>6, <1>7 DEF Inv

(* A frame is complete when its length is active.                          *)
USE DEF complete

LEMMA FrameSizes ==
  ASSUME Inv, command \in Commands, NEW size \in frame_sizes
  PROVE  size \in Nat /\ size <= initial_size
<1>1. CASE command = cmd_auth_logon_challenge
  BY <1>1, BufferTypes, BufferAssumption, FormatTypes DEF frame_sizes
<1>2. CASE command # cmd_auth_logon_challenge
  BY <1>2, BufferTypes, BufferAssumption, FormatAssumption
  DEF frame_sizes, frame_size, Commands
<1> QED
  BY <1>1, <1>2

LEMMA OnReadInv == Inv /\ on_read => Inv'
<1> SUFFICES ASSUME Inv, on_read PROVE Inv'
  OBVIOUS
<1> USE FormatAssumption, BufferAssumption
<1>1. CASE InvalidCommand
  <2>1. m_read_buffer' = [m_data |-> m_read_buffer.m_data, m_read_pos |-> 0,
                          m_write_pos |-> 0]
    BY <1>1 DEF InvalidCommand, reset, Inv, TypeOK, Buffer
  <2>2. TypeOK'
    BY <1>1, <2>1, BufferTypes DEF InvalidCommand, Inv, TypeOK, Buffer, WellFormed
  <2>3. StreamIntegrity'
    BY <1>1, <2>1, BufferTypes DEF InvalidCommand, StreamIntegrity, active_size
  <2>4. BufferBounded' /\ Normalized' /\ Closed'
    BY <1>1, <2>1 DEF InvalidCommand, Inv, BufferBounded, Normalized, Closed
  <2> QED
    BY <2>2, <2>3, <2>4 DEF Inv
<1>2. CASE OversizeChallenge
  BY <1>2, SessionClosed DEF OversizeChallenge, refuse
<1>3. CASE IncompleteFrame
  <2>1. PICK size \in frame_sizes : ~ complete(size)
    BY <1>3 DEF IncompleteFrame
  <2>2. size \in Nat /\ size <= initial_size
    BY <1>3, FrameSizes DEF IncompleteFrame
  <2>3. active_size(m_read_buffer) < initial_size
    BY <2>1, <2>2, BufferTypes
  <2> QED
    BY <1>3, <2>3, ReadArmed DEF IncompleteFrame, in_loop
<1>4. CASE LogonChallenge
  <2>1. PICK declared \in declared_sizes,
             account_name_length \in peek(m_read_buffer, name_length_offset) :
          /\ challenge_size(declared) <= max_challenge_size
          /\ challenge_size(declared) <= active_size(m_read_buffer)
          /\ \/ /\ name_length_matches(declared, account_name_length)
                /\ take_frame(challenge_size(declared))
             \/ /\ ~ name_length_matches(declared, account_name_length)
                /\ refuse
    BY <1>4 DEF LogonChallenge
  <2>2. CASE refuse
    BY <2>2, SessionClosed DEF refuse
  <2>3. CASE take_frame(challenge_size(declared))
    <3>1. challenge_size(declared) \in Nat /\ command \in Commands
      BY <1>4, DeclaredTypes DEF LogonChallenge, Commands
    <3> QED
      BY <1>4, <2>1, <2>3, <3>1, FrameTaken DEF LogonChallenge, in_loop
  <2> QED
    BY <2>1, <2>2, <2>3
<1>5. CASE LogonProof
  <2>1. CASE refuse
    BY <2>1, SessionClosed DEF refuse
  <2>2. CASE take_frame(logon_proof_size)
    BY <1>5, <2>2, FrameTaken DEF LogonProof, in_loop, Commands
  <2> QED
    BY <1>5, <2>1, <2>2 DEF LogonProof
<1>6. CASE Realmlist
  BY <1>6, FrameTaken DEF Realmlist, in_loop, Commands
<1>7. CASE BufferDrained
  <2>1. active_size(m_read_buffer) < initial_size
    BY <1>7 DEF BufferDrained
  <2> QED
    BY <1>7, <2>1, ReadArmed DEF BufferDrained
<1> QED
  BY <1>1, <1>2, <1>3, <1>4, <1>5, <1>6, <1>7 DEF on_read

(* The inductive invariant of the reading side.                            *)
THEOREM Invariance == Spec => []Inv
<1>1. Inv /\ [Next]_vars => Inv'
  <2> SUFFICES ASSUME Inv, [Next]_vars PROVE Inv'
    OBVIOUS
  <2>1. CASE ReadCompletes
    BY <2>1, ReadCompletesInv
  <2>2. CASE ReadFails
    BY <2>2, SessionClosed DEF ReadFails
  <2>3. CASE on_read
    BY <2>3, OnReadInv
  <2>4. CASE UNCHANGED vars
    <3>1. TypeOK'
      BY <2>4 DEF vars, Inv, TypeOK
    <3>2. StreamIntegrity'
      BY <2>4 DEF vars, Inv, StreamIntegrity, active_size
    <3>3. BufferBounded' /\ Normalized' /\ Closed'
      BY <2>4 DEF vars, Inv, BufferBounded, Normalized, Closed, remaining_size
    <3> QED
      BY <3>1, <3>2, <3>3 DEF Inv
  <2> QED
    BY <2>1, <2>2, <2>3, <2>4 DEF Next
<1> QED
  BY InitInv, <1>1, PTL DEF Spec

(* The types, the positions of the buffer among them.                      *)
THEOREM TypeCorrect == Spec => []TypeOK
BY Invariance, PTL DEF Inv

(* No byte is lost, repeated or displaced between the socket and the       *)
(* handlers, whatever the fragmentation.                                   *)
THEOREM StreamIntegrityHolds == Spec => []StreamIntegrity
BY Invariance, PTL DEF Inv

(* The buffer of a session keeps its initial size and always has room for  *)
(* the next read.                                                          *)
THEOREM BufferBoundedHolds == Spec => []BufferBounded
BY Invariance, PTL DEF Inv

-------------------------------------------------------------------------------
(* A session that arms a read has too few bytes for the frame in front.    *)
LEMMA FrameIncomplete ==
  ASSUME Inv, IncompleteFrame
  PROVE  NoFrameLeftWaiting'
<1> USE DEF IncompleteFrame, in_loop
<1>1. /\ active_size(m_read_buffer) = delivered - consumed
      /\ delivered - consumed \in Nat
      /\ command = stream[consumed + 1]
  BY BufferTypes, CommandIsStream
<1>2. PICK size \in frame_sizes : delivered - consumed < size
  BY <1>1, FrameSizes
<1>3. /\ stream' = stream /\ delivered' = delivered /\ consumed' = consumed
  OBVIOUS
<1>4. CASE command = cmd_auth_logon_challenge
  <2>1. CASE delivered - consumed < logon_challenge_initial_size
    BY <1>1, <1>3, <1>4, <2>1 DEF NoFrameLeftWaiting
  <2>2. CASE delivered - consumed >= logon_challenge_initial_size
    <3>1. frame_sizes \subseteq
            {challenge_size(Word(stream[consumed + 3], stream[consumed + 4]))}
      BY <1>1, <1>4, <2>2, DeclaredIsStream DEF frame_sizes
    <3> QED
      BY <1>1, <1>2, <1>3, <1>4, <3>1 DEF NoFrameLeftWaiting
  <2> QED
    BY <1>1, <2>1, <2>2 DEF logon_challenge_initial_size
<1>5. CASE command = cmd_auth_logon_proof
  BY <1>1, <1>2, <1>3, <1>5, FormatAssumption
  DEF frame_sizes, frame_size, NoFrameLeftWaiting
<1>6. CASE command = cmd_realmlist
  BY <1>1, <1>2, <1>3, <1>6, FormatAssumption
  DEF frame_sizes, frame_size, NoFrameLeftWaiting
<1> QED
  BY <1>4, <1>5, <1>6 DEF Commands

(* A complete frame never waits in the buffer for the next packet.         *)
THEOREM NoFrameLeftWaitingHolds == Spec => []NoFrameLeftWaiting
<1>1. Init => NoFrameLeftWaiting
  BY DEF Init, NoFrameLeftWaiting
<1>2. Inv /\ NoFrameLeftWaiting /\ [Next]_vars => NoFrameLeftWaiting'
  <2> SUFFICES ASSUME Inv, NoFrameLeftWaiting, [Next]_vars
               PROVE  NoFrameLeftWaiting'
    OBVIOUS
  <2>1. CASE UNCHANGED vars
    BY <2>1 DEF vars, NoFrameLeftWaiting
  <2>2. CASE IncompleteFrame
    BY <2>2, FrameIncomplete
  <2>3. CASE BufferDrained
    <3>1. ~ (consumed' < delivered')
      BY <2>3, BufferTypes DEF BufferDrained
    <3> QED
      BY <3>1 DEF NoFrameLeftWaiting
  <2>4. ASSUME pc' # "reading" PROVE NoFrameLeftWaiting'
    BY <2>4 DEF NoFrameLeftWaiting
  <2>5. CASE \/ ReadCompletes \/ ReadFails \/ InvalidCommand \/ OversizeChallenge
             \/ LogonChallenge \/ LogonProof \/ Realmlist
    BY <2>4, <2>5
    DEF ReadCompletes, ReadFails, InvalidCommand, OversizeChallenge, LogonChallenge,
        LogonProof, Realmlist, refuse, close_socket, take_frame, in_loop
  <2> QED
    BY <2>1, <2>2, <2>3, <2>5 DEF Next, on_read
<1> QED
  BY Invariance, <1>1, <1>2, PTL DEF Spec

-------------------------------------------------------------------------------
(* The refinement.                                                         *)

(* FrameReader reads the same wire format.                                 *)
LEMMA SameFormat ==
  /\ Abstract!Byte = Byte
  /\ Abstract!Commands = Commands
  /\ Abstract!logon_challenge_initial_size = logon_challenge_initial_size
  /\ Abstract!max_challenge_size = max_challenge_size
  /\ Abstract!name_length_offset = name_length_offset
  /\ \A lo, hi : Abstract!Word(lo, hi) = Word(lo, hi)
  /\ \A d : Abstract!challenge_size(d) = challenge_size(d)
  /\ \A d, len : Abstract!name_length_matches(d, len) <=> name_length_matches(d, len)
BY DEF Abstract!Byte, Byte, Abstract!Commands, Commands,
       Abstract!logon_challenge_initial_size, logon_challenge_initial_size,
       Abstract!max_challenge_size, max_challenge_size,
       Abstract!name_length_offset, name_length_offset,
       Abstract!Word, Word, Abstract!WordBase, WordBase,
       Abstract!challenge_size, challenge_size,
       Abstract!challenge_fixed_size, challenge_fixed_size,
       Abstract!name_length_matches, name_length_matches

LEMMA TakenFrameMatches ==
  ASSUME Inv, LogonChallenge,
         NEW declared \in declared_sizes,
         NEW len \in peek(m_read_buffer, name_length_offset),
         challenge_size(declared) <= active_size(m_read_buffer),
         name_length_matches(declared, len)
  PROVE  /\ challenge_size(declared) > 0
         /\ active_size(m_read_buffer) >= logon_challenge_initial_size
         /\ declared = Word(stream[consumed + 3], stream[consumed + 4])
         /\ len = stream[consumed + name_length_offset + 1]
         /\ len \in Byte
<1>1. len \in Byte /\ len \in Nat /\ declared \in Nat /\ name_length_offset \in Nat
  BY PeekType, FormatTypes, DeclaredTypes
<1>2. /\ challenge_size(declared) = name_length_offset + 1 + len
      /\ challenge_size(declared) > logon_challenge_initial_size
  BY <1>1, MatchingChallenge
<1>3. /\ active_size(m_read_buffer) >= logon_challenge_initial_size
      /\ challenge_size(declared) > 0
      /\ name_length_offset < active_size(m_read_buffer)
  BY <1>1, <1>2, BufferTypes DEF logon_challenge_initial_size
<1>4. declared = Word(stream[consumed + 3], stream[consumed + 4])
  BY <1>3, DeclaredIsStream
<1>5. len = stream[consumed + name_length_offset + 1]
  BY <1>1, <1>3, PeekActive
<1> QED
  BY <1>1, <1>3, <1>4, <1>5

LEMMA RefusedChallenge ==
  ASSUME Inv, in_loop, command = cmd_auth_logon_challenge,
         NEW declared \in declared_sizes,
         NEW len \in peek(m_read_buffer, name_length_offset),
         challenge_size(declared) <= active_size(m_read_buffer),
         ~ name_length_matches(declared, len)
  PROVE  Abstract!Refusable
<1>1. /\ command = Abstract!Command
      /\ Abstract!Pending = active_size(m_read_buffer)
  BY CommandIsStream, BufferTypes DEF Abstract!Command, Abstract!Pending, in_loop
<1>2. CASE active_size(m_read_buffer) < logon_challenge_initial_size
  BY <1>1, <1>2, SameFormat DEF Abstract!Refusable
<1>3. CASE active_size(m_read_buffer) >= logon_challenge_initial_size
  <2>1. declared = Abstract!Declared
    BY <1>3, DeclaredIsStream, SameFormat DEF Abstract!Declared
  <2>2. ASSUME NEW name_length \in Byte,
               name_length_matches(declared, name_length),
               name_length = stream[consumed + name_length_offset + 1]
        PROVE  FALSE
    <3>1. declared \in Nat /\ name_length \in Nat /\ name_length_offset \in Nat
      BY DeclaredTypes, FormatTypes
    <3>2. challenge_size(declared) = name_length_offset + 1 + name_length
      BY <2>2, <3>1, MatchingChallenge
    <3>3. name_length_offset < active_size(m_read_buffer)
      BY <3>1, <3>2, BufferTypes
    <3>4. len = name_length
      BY <2>2, <3>1, <3>3, PeekActive
    <3> QED
      BY <2>2, <3>4
  <2> QED
    BY <1>1, <2>1, <2>2, SameFormat DEF Abstract!Refusable
<1> QED
  BY <1>2, <1>3, BufferTypes DEF logon_challenge_initial_size

LEMMA OversizeRefused ==
  ASSUME Inv, OversizeChallenge
  PROVE  Abstract!Refusable
<1>1. /\ command = Abstract!Command
      /\ Abstract!Pending = active_size(m_read_buffer)
  BY CommandIsStream, BufferTypes
  DEF Abstract!Command, Abstract!Pending, in_loop, OversizeChallenge
<1>2. CASE active_size(m_read_buffer) < logon_challenge_initial_size
  BY <1>1, <1>2, SameFormat DEF Abstract!Refusable, OversizeChallenge
<1>3. CASE active_size(m_read_buffer) >= logon_challenge_initial_size
  BY <1>1, <1>3, DeclaredIsStream, SameFormat
  DEF Abstract!Refusable, Abstract!Declared, OversizeChallenge
<1> QED
  BY <1>2, <1>3, BufferTypes DEF logon_challenge_initial_size

(* status and the frame history, in a state that is still open.            *)
LEMMA OpenStatus ==
  ASSUME Inv, pc # "returned"
  PROVE  status = "open"
BY DEF Inv, Closed, status

LEMMA RefusedStep ==
  ASSUME Inv, in_loop, refuse, Abstract!Refusable
  PROVE  Abstract!Refuse
<1>1. status = "open" /\ status' = "refused"
  BY OpenStatus DEF in_loop, refuse, close_socket, status
<1>2. Abstract!Pending > 0
  BY BufferTypes DEF Abstract!Pending, in_loop
<1> QED
  BY <1>1, <1>2 DEF Abstract!Refuse, refuse

LEMMA TakenStep ==
  ASSUME Inv, in_loop, NEW size \in Nat, size > 0, size <= active_size(m_read_buffer),
         take_frame(size), Abstract!Acceptable(size)
  PROVE  Abstract!TakeFrame
<1>1. status = "open" /\ status' = "open"
  BY OpenStatus DEF in_loop, take_frame, status
<1>2. size \in 1 .. Abstract!Pending /\ Abstract!Pending > 0
  BY BufferTypes DEF Abstract!Pending, in_loop
<1>3. command = Abstract!Command
  BY CommandIsStream DEF Abstract!Command, in_loop
<1> QED
  BY <1>1, <1>2, <1>3 DEF Abstract!TakeFrame, take_frame

LEMMA StutterStep ==
  ASSUME Inv, pc = "on_read", async_read,
         UNCHANGED <<stream, delivered, m_closed, consumed, frames, cause>>
  PROVE  UNCHANGED Abstract!vars
<1>1. status = "open" /\ status' = "open"
  BY OpenStatus DEF async_read, status
<1> QED
  BY <1>1 DEF Abstract!vars

LEMMA ChallengeStep ==
  ASSUME Inv, LogonChallenge
  PROVE  Abstract!TakeFrame \/ Abstract!Refuse
<1>1. PICK declared \in declared_sizes, len \in peek(m_read_buffer, name_length_offset) :
        /\ challenge_size(declared) <= max_challenge_size
        /\ challenge_size(declared) <= active_size(m_read_buffer)
        /\ \/ /\ name_length_matches(declared, len)
              /\ take_frame(challenge_size(declared))
           \/ /\ ~ name_length_matches(declared, len)
              /\ refuse
  BY DEF LogonChallenge
<1>2. CASE ~ name_length_matches(declared, len) /\ refuse
  <2>1. Abstract!Refusable
    BY <1>1, <1>2, RefusedChallenge DEF LogonChallenge
  <2> QED
    BY <1>2, <2>1, RefusedStep DEF LogonChallenge
<1>3. CASE name_length_matches(declared, len) /\ take_frame(challenge_size(declared))
  <2> DEFINE size == challenge_size(declared)
  <2>1. /\ size \in Nat /\ size > 0
        /\ active_size(m_read_buffer) >= logon_challenge_initial_size
        /\ declared = Abstract!Declared
        /\ len = stream[consumed + name_length_offset + 1]
        /\ len \in Byte
    BY <1>1, <1>3, TakenFrameMatches, DeclaredTypes, SameFormat DEF Abstract!Declared
  <2>2. /\ command = Abstract!Command /\ command = cmd_auth_logon_challenge
        /\ Abstract!Pending = active_size(m_read_buffer)
    BY CommandIsStream, BufferTypes
    DEF Abstract!Command, Abstract!Pending, in_loop, LogonChallenge
  <2>3. Abstract!Acceptable(size)
    BY <1>1, <1>3, <2>1, <2>2, FormatAssumption, SameFormat DEF Abstract!Acceptable, Commands
  <2> QED
    BY <1>1, <1>3, <2>1, <2>3, TakenStep DEF LogonChallenge
<1> QED
  BY <1>1, <1>2, <1>3

LEMMA ProofStep ==
  ASSUME Inv, LogonProof
  PROVE  Abstract!TakeFrame \/ Abstract!Refuse
<1>1. /\ command = Abstract!Command /\ command = cmd_auth_logon_proof
      /\ Abstract!Pending = active_size(m_read_buffer)
  BY CommandIsStream, BufferTypes
  DEF Abstract!Command, Abstract!Pending, in_loop, LogonProof
<1>2. CASE refuse
  <2>1. Abstract!Refusable
    BY <1>1, SameFormat DEF Abstract!Refusable, LogonProof
  <2> QED
    BY <1>2, <2>1, RefusedStep DEF LogonProof
<1>3. CASE take_frame(logon_proof_size)
  <2>1. Abstract!Acceptable(logon_proof_size)
    BY <1>1, FormatAssumption, SameFormat DEF Abstract!Acceptable, Commands, LogonProof
  <2> QED
    BY <1>3, <2>1, TakenStep, FormatAssumption DEF LogonProof
<1> QED
  BY <1>2, <1>3 DEF LogonProof

LEMMA RealmlistStep ==
  ASSUME Inv, Realmlist
  PROVE  Abstract!TakeFrame
<1>1. /\ command = Abstract!Command /\ command = cmd_realmlist
      /\ Abstract!Pending = active_size(m_read_buffer)
  BY CommandIsStream, BufferTypes
  DEF Abstract!Command, Abstract!Pending, in_loop, Realmlist
<1>2. Abstract!Acceptable(realmlist_packet_size)
  BY <1>1, FormatAssumption, SameFormat DEF Abstract!Acceptable, Commands, Realmlist
<1> QED
  BY <1>2, TakenStep, FormatAssumption DEF Realmlist

(* on_read, with its buffer, fragmentation and unchecked size field,       *)
(* implements the frame reader that has none of them.                      *)
THEOREM Refinement == Spec => ImplementsFrameReader
<1>1. Init => Abstract!Init
  BY DEF Init, Abstract!Init, status
<1>2. Inv /\ [Next]_vars => [Abstract!Next]_(Abstract!vars)
  <2> SUFFICES ASSUME Inv, [Next]_vars
               PROVE  Abstract!Next \/ UNCHANGED Abstract!vars
    OBVIOUS
  <2> USE DEF Abstract!Next
  <2>1. CASE UNCHANGED vars
    BY <2>1 DEF vars, Abstract!vars, status
  <2>2. CASE ReadCompletes
    <3>1. status = "open" /\ status' = "open"
      BY <2>2, OpenStatus DEF ReadCompletes, status
    <3>2. PICK n \in 1 .. remaining_size(m_read_buffer) :
            delivered + n <= Len(stream) /\ delivered' = delivered + n
      BY <2>2 DEF ReadCompletes
    <3>3. n \in 1 .. (Len(stream) - delivered)
      BY <3>2, BufferTypes DEF WellFormed, Buffer, remaining_size
    <3>4. Abstract!Arrive
      BY <2>2, <3>1, <3>2, <3>3 DEF Abstract!Arrive, ReadCompletes
    <3> QED
      BY <3>4
  <2>3. CASE ReadFails
    <3>1. status = "open" /\ status' = "closed"
      BY <2>3, OpenStatus DEF ReadFails, close_socket, status
    <3>2. Abstract!HangUp
      BY <2>3, <3>1 DEF Abstract!HangUp, ReadFails
    <3> QED
      BY <3>2
  <2>4. CASE InvalidCommand
    <3>1. status = "open" /\ status' = "stalled"
      BY <2>4, OpenStatus DEF InvalidCommand, in_loop, status, Inv, Closed
    <3>2. Abstract!Command \notin Commands /\ Abstract!Pending > 0
      BY <2>4, CommandIsStream, BufferTypes
      DEF InvalidCommand, in_loop, Abstract!Command, Abstract!Pending
    <3>3. Abstract!Stall
      BY <2>4, <3>1, <3>2, SameFormat DEF Abstract!Stall, InvalidCommand
    <3> QED
      BY <3>3
  <2>5. CASE OversizeChallenge
    BY <2>5, OversizeRefused, RefusedStep DEF OversizeChallenge
  <2>6. CASE IncompleteFrame
    BY <2>6, StutterStep DEF IncompleteFrame, in_loop
  <2>7. CASE LogonChallenge
    BY <2>7, ChallengeStep
  <2>8. CASE LogonProof
    BY <2>8, ProofStep
  <2>9. CASE Realmlist
    BY <2>9, RealmlistStep
  <2>10. CASE BufferDrained
    BY <2>10, StutterStep DEF BufferDrained
  <2> QED
    BY <2>1, <2>2, <2>3, <2>4, <2>5, <2>6, <2>7, <2>8, <2>9, <2>10 DEF Next, on_read
<1> QED
  BY Invariance, <1>1, <1>2, PTL DEF Spec, ImplementsFrameReader, Abstract!Spec

==============================================================================

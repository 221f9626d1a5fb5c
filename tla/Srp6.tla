---------------------------------- MODULE Srp6 ----------------------------------
(***************************************************************************)
(* The arithmetic of Crypto::Srp6 on its BigNumbers, and the client it     *)
(* must agree with.  Digests are ideal: no two inputs have the same one.   *)
(* The bytes of a digest are therefore pairs of a position and the input,  *)
(* and the scrambler u, a digest used as a number, is an input of its own. *)
(***************************************************************************)
EXTENDS Bytes

CONSTANTS
  key_length,     \* bytes of N, of S and of both public keys
  disgest_length,
  N_text,         \* the bytes of N as its text has them, most significant first
  g

Srp6_N == Reverse(N_text)
m_N == number(Srp6_N)

ASSUME Srp6Assumption ==
  /\ disgest_length \in Nat \ {0}
  /\ key_length \in Nat /\ key_length % 2 = 0
  /\ N_text \in Seq(0 .. Base - 1) /\ Len(N_text) = key_length
  /\ m_N > 1 /\ g \in Nat   \* g is 7, N a prime other than 7
  /\ \E h \in 1 .. m_N - 1 : (g * h) % m_N = 1

mod_exp(b, e, m) ==
  LET product[n \in Nat] == IF n = 0 THEN 1 % m ELSE (product[n - 1] * (b % m)) % m
  IN product[e]

digest_of(bytes) == [i \in 1 .. disgest_length |-> <<i, bytes>>]

calculate_B(b, v) == little_endian((mod_exp(g, b, m_N) + v * 3) % m_N, key_length)

leading_zeroes(S) == CHOOSE p \in 0 .. key_length :
  /\ \A i \in 1 .. p : S[i] = 0
  /\ p < key_length => S[p + 1] # 0

(* The digest of every other byte, from the k-th on, without the first p.  *)
half_digest(S, k, p) ==
  digest_of([i \in 1 .. (key_length \div 2) - p |-> S[2 * (i + p - 1) + k]])

take_turns(hash0, hash1) ==
  [i \in 1 .. 2 * disgest_length |->
     IF i % 2 = 1 THEN hash0[(i + 1) \div 2] ELSE hash1[i \div 2]]

(* Faulty variant: an odd count of zeroes is rounded down.                 *)
SHA1_inter_leave_down(S) ==
  LET p == leading_zeroes(S) \div 2
  IN take_turns(half_digest(S, 1, p), half_digest(S, 2, p))

(* Both halves lose their share of the zeroes S begins with, one byte more *)
(* if the count is odd, and their digests take turns in the key.           *)
SHA1_inter_leave(S) ==
  LET p == (leading_zeroes(S) + 1) \div 2
  IN take_turns(half_digest(S, 1, p), half_digest(S, 2, p))

proof_of(account, A, B, key) ==
  digest_of([I |-> account.I, s |-> account.s, A |-> A, B |-> B, key |-> key])

(* The session key, or <<>> if the proof is refused.                       *)
verify_challenge(account, b, u, A, proof) ==
  LET a == number(A)
      v == number(account.v)
      B == calculate_B(b, v)
      S == little_endian(mod_exp(a * mod_exp(v, u, m_N), b, m_N), key_length)
      key == SHA1_inter_leave(S)
  IN IF a % m_N # 0 /\ proof = proof_of(account, A, B, key) THEN key ELSE <<>>

-----------------------------------------------------------------------------
(* The client, and whoever made the account: x is the private number of    *)
(* the password.                                                           *)
NewAccount(I, s, x) ==
  [I |-> I, s |-> s, v |-> little_endian(mod_exp(g, x, m_N), key_length)]

(* The interleaved hash as RFC 2945 words it: leading zeroes go, and one   *)
(* more byte if what is left has an odd length; the bytes at even and at   *)
(* odd places are hashed apart.                                            *)
Interleaved(S) ==
  LET zeroes == {p \in 0 .. key_length : \A i \in 1 .. p : S[i] = 0}
      bare == SubSeq(S, Cardinality(zeroes), key_length)
      even == IF Len(bare) % 2 = 0 THEN bare ELSE Tail(bare)
      halfhash(k) == digest_of([i \in 1 .. Len(even) \div 2 |-> even[2 * i - k]])
  IN [i \in 1 .. 2 * disgest_length |-> halfhash(i % 2)[(i + 1) \div 2]]

ClientSecret(B, a, u, x) ==
  mod_exp((number(B) - 3 * mod_exp(g, x, m_N)) % m_N, a + u * x, m_N)
==============================================================================

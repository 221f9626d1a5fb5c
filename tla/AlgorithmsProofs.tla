--------------------------- MODULE AlgorithmsProofs ---------------------------
(***************************************************************************)
(* Proofs about the pure algorithms, for numbers of any size.  They rest   *)
(* on induction over sets of numbers: a set that holds 0 and the successor *)
(* of each of its members holds every number.                              *)
(***************************************************************************)
EXTENDS MCAlgorithms, FiniteSetTheorems, SequenceTheorems, WellFoundedInduction, TLAPS

-------------------------------------------------------------------------------
(* Induction, and functions defined by recursion.                          *)

LEMMA Induction ==
  ASSUME NEW S, 0 \in S, \A n \in Nat : n \in S => n + 1 \in S
  PROVE  \A n \in Nat : n \in S
<1>1. SUFFICES ASSUME NEW m \in Nat \ S PROVE FALSE
  OBVIOUS
<1>2. PICK n \in Nat \ S : \A k \in Nat \ S : ~ (<<k, n>> \in OpToRel(<, Nat))
  <2>1. Nat \ S \subseteq Nat /\ Nat \ S # {}
    OBVIOUS
  <2> QED
    BY <2>1, WFMin, NatLessThanWellFounded, Zenon
<1>3. \A k \in Nat \ S : ~ (k < n)
  BY <1>2, Zenon DEF OpToRel
<1>4. n # 0
  OBVIOUS
<1>5. n - 1 \in Nat /\ n - 1 < n /\ (n - 1) + 1 = n
  BY <1>4
<1>6. n - 1 \in S
  BY <1>3, <1>5
<1> QED
  BY <1>5, <1>6

Steps(S) == [Nat \X S -> S]

(* The values of such a function up to n.                                  *)
UpTo(h, n, S, first, next) ==
  /\ h \in [0 .. n -> S]
  /\ h[0] = first
  /\ \A k \in 1 .. n : h[k] = next[<<k - 1, h[k - 1]>>]

LEMMA UpToUnique ==
  ASSUME NEW S, NEW first \in S, NEW next \in Steps(S),
         NEW n \in Nat, NEW m \in Nat, NEW h, NEW h2,
         UpTo(h, n, S, first, next), UpTo(h2, m, S, first, next)
  PROVE  \A k \in Nat : k <= n /\ k <= m => h[k] = h2[k]
<1> DEFINE Agree == {k \in Nat : k <= n /\ k <= m => h[k] = h2[k]}
<1>1. 0 \in Agree
  BY DEF UpTo
<1>2. ASSUME NEW k \in Nat, k \in Agree PROVE k + 1 \in Agree
  <2>1. CASE ~ (k + 1 <= n /\ k + 1 <= m)
    BY <2>1
  <2>2. CASE k + 1 <= n /\ k + 1 <= m
    <3>1. h[k] = h2[k]
      BY <1>2, <2>2
    <3>2. k + 1 \in 1 .. n /\ k + 1 \in 1 .. m /\ (k + 1) - 1 = k
      BY <2>2
    <3>3. h[k + 1] = next[<<k, h[k]>>] /\ h2[k + 1] = next[<<k, h2[k]>>]
      BY <3>2 DEF UpTo
    <3> QED
      BY <3>1, <3>3
  <2> QED
    BY <2>1, <2>2
<1> HIDE DEF Agree
<1>3. \A k \in Nat : k \in Agree
  BY <1>1, <1>2, Induction
<1> QED
  BY <1>3 DEF Agree

LEMMA UpToExists ==
  ASSUME NEW S, NEW first \in S, NEW next \in Steps(S), NEW n \in Nat
  PROVE  \E h : UpTo(h, n, S, first, next)
<1> DEFINE Have == {k \in Nat : \E h : UpTo(h, k, S, first, next)}
<1>1. 0 \in Have
  <2>1. UpTo([k \in 0 .. 0 |-> first], 0, S, first, next)
    BY DEF UpTo
  <2> QED
    BY <2>1
<1>2. ASSUME NEW k \in Nat, k \in Have PROVE k + 1 \in Have
  <2>1. PICK h : UpTo(h, k, S, first, next)
    BY <1>2
  <2> DEFINE h2 == [i \in 0 .. (k + 1) |-> IF i = k + 1 THEN next[<<k, h[k]>>] ELSE h[i]]
  <2>2. /\ h \in [0 .. k -> S] /\ h[0] = first
        /\ \A i \in 1 .. k : h[i] = next[<<i - 1, h[i - 1]>>]
    BY <2>1 DEF UpTo
  <2>3. \A i \in 0 .. (k + 1) : i = k + 1 \/ i \in 0 .. k
    OBVIOUS
  <2>4. h2 \in [0 .. (k + 1) -> S]
    <3>1. h[k] \in S
      BY <2>2
    <3>2. <<k, h[k]>> \in Nat \X S
      BY <3>1
    <3>3. next[<<k, h[k]>>] \in S
      BY <3>2 DEF Steps
    <3> QED
      BY <2>2, <2>3, <3>3
  <2>5. h2[0] = first
    BY <2>2
  <2>6. ASSUME NEW i \in 1 .. (k + 1) PROVE h2[i] = next[<<i - 1, h2[i - 1]>>]
    <3>1. CASE i = k + 1
      <4>1. i - 1 = k /\ k \in 0 .. (k + 1) /\ k # k + 1
        BY <3>1
      <4>2. h2[k] = h[k] /\ h2[k + 1] = next[<<k, h[k]>>]
        BY <4>1
      <4> QED
        BY <3>1, <4>1, <4>2
    <3>2. CASE i # k + 1
      <4>1. i \in 1 .. k /\ i - 1 \in 0 .. k /\ i - 1 # k + 1
        BY <3>2
      <4> QED
        BY <2>2, <4>1
    <3> QED
      BY <3>1, <3>2
  <2>7. UpTo(h2, k + 1, S, first, next)
    BY <2>4, <2>5, <2>6 DEF UpTo
  <2> QED
    BY <2>7
<1> HIDE DEF Have
<1>3. \A k \in Nat : k \in Have
  BY <1>1, <1>2, Induction
<1> QED
  BY <1>3 DEF Have

Iterates(f, first, next) == f[0] = first /\ \A n \in Nat : f[n + 1] = next[<<n, f[n]>>]

(* There is a function that starts with one value and goes on from each    *)
(* value to the next.                                                      *)
LEMMA Recursion ==
  ASSUME NEW S, NEW first, NEW next, first \in S, next \in Steps(S)
  PROVE  \E f \in [Nat -> S] : Iterates(f, first, next)
<1> DEFINE Part(n) == CHOOSE h : UpTo(h, n, S, first, next)
           f == [n \in Nat |-> Part(n)[n]]
<1>1. ASSUME NEW n \in Nat PROVE UpTo(Part(n), n, S, first, next)
  BY UpToExists
<1> HIDE DEF Part
<1>2. ASSUME NEW n \in Nat PROVE Part(n)[n] \in S
  BY <1>1 DEF UpTo
<1>3. f \in [Nat -> S]
  BY <1>2
<1>4. f[0] = first
  BY <1>1 DEF UpTo
<1>5. ASSUME NEW n \in Nat PROVE f[n + 1] = next[<<n, f[n]>>]
  <2>1. UpTo(Part(n + 1), n + 1, S, first, next) /\ UpTo(Part(n), n, S, first, next)
    BY <1>1
  <2>2. Part(n + 1)[n] = Part(n)[n]
    <3> DEFINE h == Part(n + 1)
               h2 == Part(n)
               m == n + 1
    <3>1. UpTo(h, m, S, first, next) /\ UpTo(h2, n, S, first, next) /\ m \in Nat
      BY <2>1
    <3>2. n <= m
      OBVIOUS
    <3> HIDE DEF h, h2, m
    <3>3. \A k \in Nat : k <= m /\ k <= n => h[k] = h2[k]
      BY <3>1, UpToUnique
    <3>4. n <= n
      OBVIOUS
    <3> QED
      BY <3>2, <3>3, <3>4 DEF h, h2
  <2>3. Part(n + 1)[n + 1] = next[<<n, Part(n + 1)[n]>>]
    <3>1. n + 1 \in 1 .. (n + 1) /\ (n + 1) - 1 = n
      OBVIOUS
    <3> QED
      BY <2>1, <3>1 DEF UpTo
  <2> QED
    BY <2>2, <2>3
<1> QED
  BY <1>3, <1>4, <1>5 DEF Iterates

-------------------------------------------------------------------------------
(* Powers.                                                                 *)

LEMMA Power ==
  ASSUME NEW b \in Nat \ {0}
  PROVE  /\ power(b, 0) = 1
         /\ \A n \in Nat : power(b, n) \in Nat \ {0} /\ power(b, n + 1) = b * power(b, n)
<1> DEFINE S == Nat \ {0}
           one == 1
           times == [x \in Nat \X S |-> b * x[2]]
           p == CHOOSE q : q = [k \in Nat |-> IF k = 0 THEN 1 ELSE b * q[k - 1]]
<1>1. \A n : power(b, n) = p[n]
  BY DEF power
<1>2. PICK f \in [Nat -> S] : Iterates(f, one, times)
  <2>1. one \in S /\ times \in Steps(S)
    BY DEF Steps
  <2> HIDE DEF S, one, times
  <2> QED
    BY <2>1, Recursion
<1>3. f[0] = 1 /\ \A n \in Nat : f[n + 1] = b * f[n]
  BY <1>2 DEF Iterates
<1>4. ASSUME NEW n \in Nat PROVE f[n] = IF n = 0 THEN 1 ELSE b * f[n - 1]
  <2>1. CASE n = 0
    BY <1>3, <2>1
  <2>2. CASE n # 0
    <3>1. n - 1 \in Nat /\ (n - 1) + 1 = n
      BY <2>2
    <3> QED
      BY <1>3, <2>2, <3>1
  <2> QED
    BY <2>1, <2>2
<1>5. f = [n \in Nat |-> IF n = 0 THEN 1 ELSE b * f[n - 1]]
  BY <1>2, <1>4
<1>6. p = [k \in Nat |-> IF k = 0 THEN 1 ELSE b * p[k - 1]]
  BY <1>5
<1> HIDE DEF p
<1>7. p[0] = 1 /\ \A n \in Nat : p[n + 1] = b * p[n]
  <2>1. \A n \in Nat : n + 1 \in Nat /\ n + 1 # 0 /\ (n + 1) - 1 = n
    OBVIOUS
  <2> QED
    BY <1>6, <2>1
<1> DEFINE Typed == {n \in Nat : p[n] \in S}
<1>8. 0 \in Typed /\ \A n \in Nat : n \in Typed => n + 1 \in Typed
  BY <1>7
<1> HIDE DEF Typed
<1>9. \A n \in Nat : n \in Typed
  BY <1>8, Induction
<1> QED
  BY <1>1, <1>7, <1>9 DEF Typed

LEMMA TwoTo ==
  /\ power(2, 0) = 1
  /\ \A n \in Nat : power(2, n) \in Nat \ {0} /\ power(2, n + 1) = 2 * power(2, n)
BY Power

(* Of two powers of two the greater is a multiple of the smaller.          *)
LEMMA PowerMultiple ==
  ASSUME NEW m \in Nat, NEW n \in Nat, m <= n
  PROVE  /\ \E c \in Nat \ {0} : power(2, n) = c * power(2, m)
         /\ power(2, m) <= power(2, n)
         /\ m < n => power(2, m) < power(2, n)
<1> DEFINE t == power(2, m)
           Good == {k \in Nat : /\ \E c \in Nat \ {0} : power(2, m + k) = c * t
                                /\ power(2, m + k) >= t + k}
<1>1. t \in Nat \ {0}
  BY TwoTo
<1>2. 0 \in Good
  <2>1. m + 0 = m /\ t = 1 * t
    BY <1>1
  <2> QED
    BY <1>1, <2>1
<1>3. ASSUME NEW k \in Nat, k \in Good PROVE k + 1 \in Good
  <2>1. PICK c \in Nat \ {0} : power(2, m + k) = c * t
    BY <1>3
  <2>2. power(2, m + k) >= t + k
    BY <1>3
  <2>3. power(2, m + (k + 1)) = 2 * power(2, m + k) /\ power(2, m + k) \in Nat
    <3>1. m + k \in Nat /\ m + (k + 1) = (m + k) + 1
      OBVIOUS
    <3> QED
      BY <3>1, TwoTo
  <2>4. power(2, m + (k + 1)) >= t + (k + 1)
    BY <1>1, <2>2, <2>3
  <2>5. power(2, m + (k + 1)) = (2 * c) * t /\ 2 * c \in Nat \ {0}
    BY <1>1, <2>1, <2>3
  <2> QED
    BY <2>4, <2>5
<1> HIDE DEF Good
<1>4. \A k \in Nat : k \in Good
  BY <1>2, <1>3, Induction
<1>5. n - m \in Nat /\ m + (n - m) = n
  OBVIOUS
<1>6. n - m \in Good
  BY <1>4, <1>5
<1>7. /\ \E c \in Nat \ {0} : power(2, n) = c * t
      /\ power(2, n) >= t + (n - m)
  BY <1>5, <1>6 DEF Good
<1>8. power(2, n) \in Nat
  BY TwoTo
<1> HIDE DEF t
<1>9. t <= power(2, n) /\ (m < n => t < power(2, n))
  BY <1>1, <1>7, <1>8
<1> QED
  BY <1>7, <1>9 DEF t

-------------------------------------------------------------------------------
(* Division.                                                               *)

LEMMA Division ==
  ASSUME NEW a \in Nat, NEW d \in Nat \ {0}
  PROVE  /\ a \div d \in Nat /\ a % d \in 0 .. (d - 1)
         /\ a = d * (a \div d) + (a % d)
OBVIOUS

(* What lies between two multiples has the lower one's quotient.           *)
LEMMA Quotient ==
  ASSUME NEW a \in Nat, NEW d \in Nat \ {0}, NEW q \in Nat, NEW r \in 0 .. (d - 1),
         a = d * q + r
  PROVE  a \div d = q /\ a % d = r
<1> DEFINE p == a \div d
           s == a % d
<1>1. p \in Nat /\ s \in 0 .. (d - 1) /\ a = d * p + s
  BY Division
<1> HIDE DEF p, s
<1>2. d * (p - q) = r - s
  BY <1>1
<1>3. p = q
  <2>1. CASE p > q
    <3>1. p - q >= 1
      BY <1>1, <2>1
    <3>2. d * (p - q) >= d
      BY <1>1, <3>1
    <3> QED
      BY <1>1, <1>2, <3>2
  <2>2. CASE p < q
    <3>1. q - p >= 1
      BY <1>1, <2>2
    <3>2. d * (q - p) >= d /\ d * (q - p) = s - r
      BY <1>1, <1>2, <3>1
    <3> QED
      BY <1>1, <3>2
  <2> QED
    BY <1>1, <2>1, <2>2
<1>4. s = r
  BY <1>1, <1>2, <1>3
<1> QED
  BY <1>3, <1>4 DEF p, s

(* Quotient and remainder for a multiple of the divisor.                   *)
LEMMA CoarserQuotient ==
  ASSUME NEW a \in Nat, NEW d \in Nat \ {0}, NEW c \in Nat \ {0}
  PROVE  /\ a \div (c * d) = (a \div d) \div c
         /\ a % (c * d) = d * ((a \div d) % c) + (a % d)
<1> DEFINE q == a \div d
           r == a % d
           p == q \div c
           s == q % c
<1>1. q \in Nat /\ r \in 0 .. (d - 1) /\ a = d * q + r
  BY Division
<1> HIDE DEF q, r
<1>2. p \in Nat /\ s \in 0 .. (c - 1) /\ q = c * p + s
  BY <1>1, Division
<1> HIDE DEF p, s
<1>3. a = (c * d) * p + (d * s + r)
  BY <1>1, <1>2
<1>4. d * s + r \in 0 .. (c * d - 1)
  <2>1. d * s \in Nat /\ s + 1 <= c
    BY <1>2
  <2>2. d * (s + 1) <= d * c
    BY <1>2, <2>1
  <2>3. d * (s + 1) = d * s + d /\ d * c = c * d /\ d * c \in Nat
    BY <1>2
  <2> QED
    BY <1>1, <2>1, <2>2, <2>3
<1>5. c * d \in Nat \ {0}
  OBVIOUS
<1>6. a \div (c * d) = p /\ a % (c * d) = d * s + r
  <2> DEFINE cd == c * d
             rest == d * s + r
  <2>1. cd \in Nat \ {0} /\ rest \in 0 .. (cd - 1) /\ a = cd * p + rest
    BY <1>3, <1>4, <1>5
  <2> HIDE DEF cd, rest
  <2>2. a \div cd = p /\ a % cd = rest
    BY <1>2, <2>1, Quotient
  <2> QED
    BY <2>2 DEF cd, rest
<1> QED
  BY <1>6 DEF p, q, r, s

-------------------------------------------------------------------------------
(* Networks: what address_for_client takes for the realm's own network is  *)
(* the block of addresses that its mask makes, without its two ends.       *)

LEMMA Blocks ==
  ASSUME NEW n \in 0 .. address_bits
  PROVE  /\ block(n) \in Nat \ {0} /\ power(2, address_bits) \in Nat \ {0}
         /\ n = address_bits => block(n) = 1
         /\ n < address_bits => block(n) >= 2
<1>1. address_bits \in Nat /\ n \in Nat /\ address_bits - n \in Nat
  BY AddressAssumption
<1>2. block(n) \in Nat \ {0} /\ power(2, address_bits) \in Nat \ {0}
  BY <1>1, TwoTo DEF block
<1>3. ASSUME n = address_bits PROVE block(n) = 1
  <2>1. address_bits - n = 0
    BY <1>1, <1>3
  <2> QED
    BY <2>1, TwoTo DEF block
<1>4. ASSUME n < address_bits PROVE block(n) >= 2
  <2>1. (address_bits - n) - 1 \in Nat
    BY <1>1, <1>4
  <2>2. ((address_bits - n) - 1) + 1 = address_bits - n
    BY <1>1
  <2>3. /\ block(n) = 2 * power(2, (address_bits - n) - 1)
        /\ power(2, (address_bits - n) - 1) \in Nat \ {0}
    BY <2>1, <2>2, TwoTo DEF block
  <2> QED
    BY <2>3
<1> QED
  BY <1>2, <1>3, <1>4

LEMMA Mask ==
  ASSUME NEW mask, is_netmask(mask)
  PROVE  /\ prefix_length(mask) \in 0 .. address_bits
         /\ mask = netmask(prefix_length(mask))
BY DEF is_netmask, prefix_length

LEMMA HostsAreNeighbours ==
  ASSUME NEW length \in 0 .. address_bits, NEW client \in Hosts, NEW local \in Hosts
  PROVE  /\ client \in hosts(local, length) =>
              client \div block(length) = local \div block(length)
         /\ /\ client \div block(length) = local \div block(length)
            /\ ~ (block(length) > 1 /\ client % block(length) \in {0, block(length) - 1})
            => client \in hosts(local, length)
<1> DEFINE size == block(length)
           all == power(2, address_bits)
           q == local \div size
           r == local % size
           p == client \div size
           s == client % size
<1>1. /\ size \in Nat \ {0} /\ all \in Nat \ {0}
      /\ length = address_bits => size = 1
      /\ length < address_bits => size >= 2
  BY Blocks
<1>2. /\ client \in Nat /\ local \in Nat
      /\ 1 <= client /\ 1 <= local /\ client + 1 < all /\ local + 1 < all
  BY <1>1 DEF Hosts
<1>3. Addresses = 0 .. all - 1
  BY DEF Addresses
<1> HIDE DEF size, all
<1>4. q \in Nat /\ r \in 0 .. (size - 1) /\ local = size * q + r
  BY <1>1, <1>2, Division
<1>5. p \in Nat /\ s \in 0 .. (size - 1) /\ client = size * p + s
  BY <1>1, <1>2, Division
<1> HIDE DEF q, r, p, s
<1>6. CASE length = address_bits
  <2>1. size = 1 /\ (local + 1) % all = local + 1
    BY <1>1, <1>2, <1>6
  <2>2. hosts(local, length) = {a \in Addresses : local <= a /\ a < local + 1}
    BY <1>6, <2>1 DEF hosts, all
  <2>3. client \in hosts(local, length) <=> client = local
    BY <1>1, <1>2, <1>3, <2>2
  <2>4. client = p /\ local = q
    BY <1>4, <1>5, <2>1
  <2> QED
    BY <2>3, <2>4 DEF size, p, q
<1>7. CASE length # address_bits
  <2>1. size >= 2
    BY <1>1, <1>7, AddressAssumption
  <2>2. hosts(local, length) = (local - r) + 1 .. (local - r) + size - 2
    BY <1>7 DEF hosts, size, r
  <2>3. local - r = size * q
    BY <1>1, <1>4
  <2> DEFINE network == size * q
  <2>4. network \in Nat
    BY <1>1, <1>4
  <2>5. hosts(local, length) = network + 1 .. network + size - 2
    BY <2>2, <2>3
  <2>6. ASSUME client \in hosts(local, length) PROVE p = q
    <3>1. client - network \in 0 .. (size - 1) /\ client = network + (client - network)
      BY <1>1, <1>2, <2>1, <2>4, <2>5, <2>6
    <3> QED
      BY <1>1, <1>2, <1>4, <3>1, Quotient DEF p
  <2>7. ASSUME p = q, ~ (size > 1 /\ s \in {0, size - 1}) PROVE client \in hosts(local, length)
    <3>1. s # 0 /\ s # size - 1
      BY <1>1, <2>1, <2>7
    <3>2. client = network + s
      BY <1>5, <2>7
    <3> HIDE DEF network
    <3>3. client >= network + 1 /\ client <= network + size - 2
      BY <1>1, <1>5, <2>4, <3>1, <3>2
    <3> QED
      BY <1>1, <1>2, <2>4, <2>5, <3>3
  <2> QED
    BY <2>6, <2>7 DEF size, p, q, s
<1> QED
  BY <1>6, <1>7

(* A network no larger than the loopback network lies inside it or         *)
(* outside.                                                                *)
LEMMA LoopbackIsWhole ==
  ASSUME NEW length \in 0 .. address_bits, netmask(length) >= netmask(loopback_bits),
         NEW a \in Nat, NEW b \in Nat, a \div block(length) = b \div block(length)
  PROVE  is_loopback(a) <=> is_loopback(b)
<1> DEFINE m == address_bits - length
           n == address_bits - loopback_bits
           small == power(2, m)
           large == power(2, n)
           all == power(2, address_bits)
<1>1. m \in Nat /\ n \in Nat /\ address_bits \in Nat
  BY AddressAssumption
<1>2. small \in Nat \ {0} /\ large \in Nat \ {0} /\ all \in Nat \ {0}
  BY <1>1, TwoTo
<1>3. all - small >= all - large
  BY DEF netmask, block
<1>4. small <= large
  <2> HIDE DEF small, large, all
  <2> QED
    BY <1>2, <1>3
<1>5. m <= n
  <2>1. n < m => large < small
    BY <1>1, PowerMultiple
  <2> HIDE DEF small, large, m, n
  <2> QED
    BY <1>1, <1>2, <1>4, <2>1
<1>6. PICK c \in Nat \ {0} : large = c * small
  BY <1>1, <1>5, PowerMultiple
<1>7. a \div large = (a \div small) \div c /\ b \div large = (b \div small) \div c
  <2> HIDE DEF small, large
  <2> QED
    BY <1>2, <1>6, CoarserQuotient
<1>8. a \div small = b \div small
  BY DEF block
<1>9. a \div large = b \div large
  BY <1>7, <1>8
<1> QED
  BY <1>9 DEF is_loopback

-------------------------------------------------------------------------------
(* The address a client is told, for addresses of any width, any mask and  *)
(* any public address.                                                     *)

AddressInv ==
  /\ call.of = "address" => call \in Questions
  /\ call.of = "address" /\ result # Pending =>
       result = address_for_client(call.client, call.address, call.local, call.mask)

LEMMA AddressFitsOne ==
  ASSUME NEW client \in Hosts, NEW address \in Addresses, NEW local \in Hosts,
         NEW mask \in Addresses, NEW told,
         told = address_for_client(client, address, local, mask)
  PROVE  LET remote == ~ is_loopback(client)
             lan == SameNetwork(client, local, mask)
             on_host == is_loopback(local) \/ is_loopback(address)
         IN /\ (told = throws) = (remote /\ ~ is_netmask(mask))
            /\ ~ remote => told = IF on_host THEN client ELSE local
            /\ remote /\ is_netmask(mask) =>
                 /\ ~ lan => told = address
                 /\ lan /\ ~ EndOfNetwork(client, mask) => told = local
                 /\ mask >= netmask(loopback_bits) /\ ~ is_loopback(address) =>
                      ~ is_loopback(told)
<1> DEFINE length == prefix_length(mask)
           near == client \in hosts(local, length)
<1>1. client \in Addresses /\ local \in Addresses /\ client \in Nat /\ local \in Nat
  <2>1. power(2, address_bits) \in Nat
    BY TwoTo, AddressAssumption
  <2> QED
    BY <2>1 DEF Hosts, Addresses
<1>2. throws \notin Addresses
  BY AddressAssumption DEF Addresses
<1>3. client # throws /\ local # throws /\ address # throws
  BY <1>1, <1>2
<1>4. CASE is_loopback(client)
  <2>1. told = IF is_loopback(local) \/ is_loopback(address) THEN client ELSE local
    BY <1>4 DEF address_for_client
  <2> QED
    BY <1>3, <1>4, <2>1
<1>5. CASE ~ is_loopback(client) /\ ~ is_netmask(mask)
  <2>1. told = throws
    BY <1>5 DEF address_for_client
  <2> QED
    BY <1>5, <2>1
<1>6. CASE ~ is_loopback(client) /\ is_netmask(mask)
  <2>1. told = IF near THEN local ELSE address
    BY <1>6 DEF address_for_client
  <2>2. length \in 0 .. address_bits /\ mask = netmask(length)
    BY <1>6, Mask
  <2>3. /\ near => SameNetwork(client, local, mask)
        /\ SameNetwork(client, local, mask) /\ ~ EndOfNetwork(client, mask) => near
    BY <2>2, HostsAreNeighbours DEF SameNetwork, EndOfNetwork
  <2>4. ASSUME near, mask >= netmask(loopback_bits) PROVE ~ is_loopback(local)
    <3>1. client \div block(length) = local \div block(length)
      BY <2>3, <2>4 DEF SameNetwork
    <3>2. is_loopback(client) <=> is_loopback(local)
      BY <1>1, <2>2, <2>4, <3>1, LoopbackIsWhole
    <3> QED
      BY <1>6, <3>2
  <2> HIDE DEF near
  <2> QED
    BY <1>3, <1>6, <2>1, <2>3, <2>4
<1> QED
  BY <1>4, <1>5, <1>6

(* Whatever the width of addresses, the mask and the public addresses: a   *)
(* client elsewhere is told the public address, one on the realm's own     *)
(* network the local one, and none is sent to its own loopback by a public *)
(* realm; the server throws exactly for a mask that is none.               *)
THEOREM AddressFits == Spec => []AddressFitsClient
<1>1. Init => AddressInv
  <2> SUFFICES ASSUME Init PROVE AddressInv
    OBVIOUS
  <2>1. result = Pending /\ (call \in Logons \/ call \in Replies \/ call \in Questions)
    BY DEF Init
  <2>2. /\ \A c \in Logons : c.of = "logon"
        /\ \A c \in Replies : c.of = "reply"
    BY DEF Logons, Replies
  <2> QED
    BY <2>1, <2>2 DEF AddressInv
<1>2. AddressInv /\ [Next]_vars => AddressInv'
  <2> SUFFICES ASSUME AddressInv, [Next]_vars PROVE AddressInv'
    OBVIOUS
  <2>1. CASE Next
    <3>1. call' = call
      BY <2>1 DEF Next
    <3>2. CASE call.of # "address"
      BY <3>1, <3>2 DEF AddressInv
    <3>3. CASE call.of = "address"
      <4>1. Address
        BY <2>1, <3>3 DEF Next, Logon, Reply
      <4> QED
        BY <3>1, <4>1 DEF Address, AddressInv
    <3> QED
      BY <3>2, <3>3
  <2>2. CASE UNCHANGED vars
    BY <2>2 DEF vars, AddressInv
  <2> QED
    BY <2>1, <2>2
<1>3. AddressInv => AddressFitsClient
  <2> SUFFICES ASSUME AddressInv, call.of = "address", result # Pending
               PROVE  AddressFitsClient
    BY DEF AddressFitsClient
  <2>1. /\ call.client \in Hosts /\ call.address \in Addresses /\ call.local \in Hosts
        /\ call.mask \in Addresses
    BY PublicAssumption DEF AddressInv, Questions
  <2>2. result = address_for_client(call.client, call.address, call.local, call.mask)
    BY DEF AddressInv
  <2> QED
    BY <2>1, <2>2, AddressFitsOne DEF AddressFitsClient
<1> QED
  BY <1>1, <1>2, <1>3, PTL DEF Spec


-------------------------------------------------------------------------------
(* Bytes: what little_endian writes, number reads.                         *)

ByteStrings == Seq(0 .. Base - 1)

(* The number in the first bytes, one byte more at a time.                 *)
Value(bytes) ==
  CHOOSE v : v = [n \in 0 .. Len(bytes) |->
                    IF n = 0 THEN 0 ELSE v[n - 1] + bytes[n] * power(Base, n - 1)]

LEMMA Places ==
  /\ power(Base, 0) = 1
  /\ \A n \in Nat : power(Base, n) \in Nat \ {0} /\ power(Base, n + 1) = Base * power(Base, n)
BY Power, BaseAssumption

LEMMA Values ==
  ASSUME NEW bytes \in ByteStrings
  PROVE  /\ number(bytes) = Value(bytes)[Len(bytes)]
         /\ Value(bytes)[0] = 0
         /\ \A n \in 1 .. Len(bytes) :
              Value(bytes)[n] = Value(bytes)[n - 1] + bytes[n] * power(Base, n - 1)
<1> DEFINE next == [x \in Nat \X Nat |->
                      IF x[1] + 1 \in 1 .. Len(bytes)
                      THEN x[2] + bytes[x[1] + 1] * power(Base, x[1]) ELSE x[2]]
           zero == 0
<1>1. number(bytes) = Value(bytes)[Len(bytes)]
  BY DEF number, Value
<1>2. Len(bytes) \in Nat /\ \A n \in 1 .. Len(bytes) : bytes[n] \in Nat
  BY BaseAssumption DEF ByteStrings
<1>3. next \in Steps(Nat)
  <2>1. ASSUME NEW x \in Nat \X Nat PROVE next[x] \in Nat
    <3>1. x[1] \in Nat /\ x[2] \in Nat /\ power(Base, x[1]) \in Nat
      BY Places
    <3>2. CASE x[1] + 1 \in 1 .. Len(bytes)
      <4>1. bytes[x[1] + 1] \in Nat
        BY <1>2, <3>2
      <4>2. bytes[x[1] + 1] * power(Base, x[1]) \in Nat
        BY <3>1, <4>1
      <4> QED
        BY <3>1, <3>2, <4>2
    <3>3. CASE x[1] + 1 \notin 1 .. Len(bytes)
      BY <3>1, <3>3
    <3> QED
      BY <3>2, <3>3
  <2> QED
    BY <2>1 DEF Steps
<1>4. PICK f \in [Nat -> Nat] : Iterates(f, zero, next)
  <2>1. zero \in Nat
    OBVIOUS
  <2> HIDE DEF next, zero
  <2> QED
    BY <1>3, <2>1, Recursion
<1>5. f[0] = 0 /\ \A n \in Nat : f[n + 1] = next[<<n, f[n]>>]
  BY <1>4 DEF Iterates
<1>6. ASSUME NEW n \in 1 .. Len(bytes) PROVE f[n] = f[n - 1] + bytes[n] * power(Base, n - 1)
  <2>1. n - 1 \in Nat /\ (n - 1) + 1 = n
    BY <1>2
  <2>2. f[n] = next[<<n - 1, f[n - 1]>>]
    BY <1>5, <2>1
  <2>3. <<n - 1, f[n - 1]>> \in Nat \X Nat
    BY <2>1
  <2> QED
    BY <2>1, <2>2, <2>3
<1> DEFINE v == [n \in 0 .. Len(bytes) |-> f[n]]
<1>7. v = [n \in 0 .. Len(bytes) |->
             IF n = 0 THEN 0 ELSE v[n - 1] + bytes[n] * power(Base, n - 1)]
  <2>1. ASSUME NEW n \in 0 .. Len(bytes)
        PROVE  v[n] = IF n = 0 THEN 0 ELSE v[n - 1] + bytes[n] * power(Base, n - 1)
    <3>1. CASE n = 0
      BY <1>5, <3>1
    <3>2. CASE n # 0
      <4>1. n \in 1 .. Len(bytes) /\ n - 1 \in 0 .. Len(bytes)
        BY <1>2, <3>2
      <4>2. v[n] = f[n] /\ v[n - 1] = f[n - 1]
        BY <4>1
      <4> QED
        BY <1>6, <3>2, <4>1, <4>2
    <3> QED
      BY <3>1, <3>2
  <2> HIDE DEF v
  <2>2. v = [n \in 0 .. Len(bytes) |-> v[n]]
    BY DEF v
  <2> QED
    BY <2>1, <2>2
<1> HIDE DEF v
<1>8. Value(bytes) = [n \in 0 .. Len(bytes) |->
             IF n = 0 THEN 0 ELSE Value(bytes)[n - 1] + bytes[n] * power(Base, n - 1)]
  BY <1>7 DEF Value
<1> DEFINE w == Value(bytes)
<1>9. w = [n \in 0 .. Len(bytes) |-> IF n = 0 THEN 0 ELSE w[n - 1] + bytes[n] * power(Base, n - 1)]
  BY <1>8
<1> HIDE DEF w
<1>10. w[0] = 0
  BY <1>2, <1>9
<1>11. ASSUME NEW n \in 1 .. Len(bytes) PROVE w[n] = w[n - 1] + bytes[n] * power(Base, n - 1)
  <2>1. n \in 0 .. Len(bytes) /\ n # 0
    BY <1>2
  <2> QED
    BY <1>9, <2>1, Zenon
<1> QED
  BY <1>1, <1>10, <1>11 DEF w

(* A number of so many bytes.                                              *)
LEMMA NumberBound ==
  ASSUME NEW bytes \in ByteStrings
  PROVE  number(bytes) \in Nat /\ number(bytes) < power(Base, Len(bytes))
<1> DEFINE w == Value(bytes)
           Good == {n \in Nat : n <= Len(bytes) => w[n] \in Nat /\ w[n] < power(Base, n)}
<1>1. Len(bytes) \in Nat /\ \A n \in 1 .. Len(bytes) : bytes[n] \in 0 .. (Base - 1)
  BY BaseAssumption DEF ByteStrings
<1>2. /\ number(bytes) = w[Len(bytes)] /\ w[0] = 0
      /\ \A n \in 1 .. Len(bytes) : w[n] = w[n - 1] + bytes[n] * power(Base, n - 1)
  BY Values
<1> HIDE DEF w
<1>3. 0 \in Good
  <2>1. w[0] = 0 /\ power(Base, 0) = 1
    BY <1>2, Places
  <2> QED
    BY <2>1
<1>4. ASSUME NEW n \in Nat, n \in Good PROVE n + 1 \in Good
  <2> SUFFICES ASSUME n + 1 <= Len(bytes) PROVE w[n + 1] \in Nat /\ w[n + 1] < power(Base, n + 1)
    OBVIOUS
  <2> DEFINE unit == power(Base, n)
             byte == bytes[n + 1]
             below == w[n]
  <2>1. unit \in Nat \ {0} /\ power(Base, n + 1) = Base * unit
    BY Places
  <2>2. n + 1 \in 1 .. Len(bytes) /\ (n + 1) - 1 = n
    BY <1>1
  <2>3. byte \in 0 .. (Base - 1)
    BY <1>1, <2>2
  <2>4. w[n + 1] = below + byte * unit
    BY <1>2, <2>2
  <2>5. below \in Nat /\ below < unit
    BY <1>1, <1>4
  <2> HIDE DEF unit, byte, below
  <2>6. byte * unit \in Nat /\ byte * unit <= (Base - 1) * unit
    BY <2>1, <2>3, BaseAssumption
  <2>7. (Base - 1) * unit = Base * unit - unit /\ Base * unit \in Nat
    BY <2>1, BaseAssumption
  <2> QED
    BY <2>1, <2>4, <2>5, <2>6, <2>7
<1> HIDE DEF Good
<1>5. \A n \in Nat : n \in Good
  BY <1>3, <1>4, Induction
<1> QED
  BY <1>1, <1>2, <1>5 DEF Good

LEMMA Written ==
  ASSUME NEW n \in Nat, NEW length \in Nat
  PROVE  /\ little_endian(n, length) \in ByteStrings
         /\ Len(little_endian(n, length)) = length
         /\ \A i \in 1 .. length : little_endian(n, length)[i] = (n \div power(Base, i - 1)) % Base
<1>1. ASSUME NEW i \in 1 .. length PROVE (n \div power(Base, i - 1)) % Base \in 0 .. (Base - 1)
  <2>1. i - 1 \in Nat
    OBVIOUS
  <2> DEFINE unit == power(Base, i - 1)
             q == n \div unit
  <2>2. unit \in Nat \ {0}
    BY <2>1, Places
  <2> HIDE DEF unit
  <2>3. q \in Nat
    BY <2>2, Division
  <2> HIDE DEF q
  <2>4. q % Base \in 0 .. (Base - 1)
    BY <2>3, BaseAssumption
  <2> QED
    BY <2>4 DEF q, unit
<1> QED
  BY <1>1 DEF little_endian, ByteStrings

(* What fits is read as it was written.                                    *)
LEMMA RoundTrip ==
  ASSUME NEW n \in Nat, NEW length \in Nat, n < power(Base, length)
  PROVE  number(little_endian(n, length)) = n
<1> DEFINE bytes == little_endian(n, length)
           w == Value(bytes)
           Good == {k \in Nat : k <= length => w[k] = n % power(Base, k)}
<1>1. /\ bytes \in ByteStrings /\ Len(bytes) = length
      /\ \A i \in 1 .. length : bytes[i] = (n \div power(Base, i - 1)) % Base
  BY Written
<1> HIDE DEF bytes
<1>2. /\ number(bytes) = w[length] /\ w[0] = 0
      /\ \A k \in 1 .. length : w[k] = w[k - 1] + bytes[k] * power(Base, k - 1)
  BY <1>1, Values
<1> HIDE DEF w
<1>3. 0 \in Good
  BY <1>2, Places
<1>4. ASSUME NEW k \in Nat, k \in Good PROVE k + 1 \in Good
  <2> SUFFICES ASSUME k + 1 <= length PROVE w[k + 1] = n % power(Base, k + 1)
    OBVIOUS
  <2> DEFINE unit == power(Base, k)
             digit == (n \div unit) % Base
             below == n % unit
  <2>1. unit \in Nat \ {0} /\ power(Base, k + 1) = Base * unit
    BY Places
  <2>2. k + 1 \in 1 .. length /\ (k + 1) - 1 = k
    OBVIOUS
  <2>3. w[k] = below
    BY <1>4
  <2>4. w[k + 1] = below + digit * unit
    BY <1>1, <1>2, <2>2, <2>3
  <2>5. n % (Base * unit) = unit * digit + below
    <3>1. unit \in Nat \ {0} /\ Base \in Nat \ {0}
      BY <2>1, BaseAssumption
    <3> HIDE DEF unit
    <3> QED
      BY <3>1, CoarserQuotient
  <2>6. digit \in Int /\ below \in Int
    <3>0. unit \in Nat \ {0}
      BY <2>1
    <3> HIDE DEF unit
    <3> DEFINE q == n \div unit
    <3>1. q \in Nat /\ below \in 0 .. (unit - 1)
      BY <3>0, Division
    <3>2. q \in Nat
      BY <3>1
    <3> HIDE DEF q
    <3>3. q % Base \in Int
      BY <3>2, BaseAssumption
    <3> QED
      BY <3>1, <3>3 DEF q
  <2> HIDE DEF unit, digit, below
  <2>7. unit * digit + below = below + digit * unit
    BY <2>1, <2>6
  <2> QED
    BY <2>1, <2>4, <2>5, <2>7
<1> HIDE DEF Good
<1>5. \A k \in Nat : k \in Good
  BY <1>3, <1>4, Induction
<1>6. w[length] = n % power(Base, length)
  BY <1>5 DEF Good
<1>7. n % power(Base, length) = n
  <2> DEFINE all == power(Base, length)
  <2>1. all \in Nat \ {0} /\ n < all
    BY Places
  <2> HIDE DEF all
  <2>2. n % all = n
    BY <2>1
  <2> QED
    BY <2>2 DEF all
<1> QED
  BY <1>2, <1>6, <1>7 DEF bytes


-------------------------------------------------------------------------------
(* Arithmetic modulo m, and mod_exp.                                       *)

LEMMA Modulo ==
  ASSUME NEW m \in Nat \ {0}, NEW x \in Nat
  PROVE  /\ x % m \in Nat /\ x % m < m
         /\ x < m => x % m = x
         /\ (x % m) % m = x % m
<1>1. x % m \in 0 .. (m - 1)
  BY Division
<1>2. ASSUME NEW y \in Nat, y < m PROVE y % m = y
  <2>1. y \in 0 .. (m - 1) /\ y = m * 0 + y
    BY <1>2
  <2> QED
    BY <2>1, Quotient
<1> DEFINE r == x % m
<1>3. r \in Nat /\ r < m
  BY <1>1
<1> HIDE DEF r
<1>4. r % m = r
  BY <1>2, <1>3
<1> QED
  BY <1>2, <1>3, <1>4 DEF r

LEMMA ModuloShift ==
  ASSUME NEW m \in Nat \ {0}, NEW z \in Nat, NEW k \in Nat
  PROVE  (m * k + z) % m = z % m
<1> DEFINE p == z \div m
           s == z % m
           x == m * k + z
<1>1. p \in Nat /\ s \in 0 .. (m - 1) /\ z = m * p + s
  BY Division
<1> HIDE DEF p, s
<1>2. x \in Nat /\ p + k \in Nat /\ x = m * (p + k) + s
  BY <1>1
<1> HIDE DEF x
<1>3. x % m = s
  BY <1>1, <1>2, Quotient
<1> QED
  BY <1>3 DEF x, s

LEMMA ModuloLeft ==
  ASSUME NEW m \in Nat \ {0}, NEW x \in Nat, NEW y \in Nat
  PROVE  ((x % m) * y) % m = (x * y) % m
<1> DEFINE q == x \div m
           r == x % m
<1>1. q \in Nat /\ r \in 0 .. (m - 1) /\ x = m * q + r
  BY Division
<1> HIDE DEF q, r
<1>2. x * y = m * (q * y) + r * y /\ q * y \in Nat /\ r * y \in Nat
  BY <1>1
<1> DEFINE k == q * y
           z == r * y
           xy == x * y
<1>3. k \in Nat /\ z \in Nat /\ xy = m * k + z
  BY <1>2
<1> HIDE DEF k, z, xy
<1>4. xy % m = z % m
  BY <1>3, ModuloShift
<1> QED
  BY <1>4 DEF xy, z, r

LEMMA ModuloRight ==
  ASSUME NEW m \in Nat \ {0}, NEW x \in Nat, NEW y \in Nat
  PROVE  (x * (y % m)) % m = (x * y) % m
<1> DEFINE r == y % m
<1>1. r \in Nat
  BY Modulo
<1>2. (r * x) % m = (y * x) % m
  BY ModuloLeft
<1> HIDE DEF r
<1>3. r * x = x * r /\ y * x = x * y
  BY <1>1
<1> QED
  BY <1>2, <1>3 DEF r

LEMMA ModuloBoth ==
  ASSUME NEW m \in Nat \ {0}, NEW x \in Nat, NEW y \in Nat
  PROVE  ((x % m) * (y % m)) % m = (x * y) % m
<1>1. y % m \in Nat
  BY Modulo
<1>2. ((x % m) * (y % m)) % m = (x * (y % m)) % m
  BY <1>1, ModuloLeft
<1> QED
  BY <1>2, ModuloRight

LEMMA ModExp ==
  ASSUME NEW m \in Nat \ {0}, NEW b \in Nat
  PROVE  /\ mod_exp(b, 0, m) = 1 % m
         /\ \A n \in Nat :
              /\ mod_exp(b, n, m) \in Nat /\ mod_exp(b, n, m) < m
              /\ mod_exp(b, n + 1, m) = (mod_exp(b, n, m) * (b % m)) % m
<1> DEFINE S == 0 .. (m - 1)
           one == 1 % m
           times == [x \in Nat \X S |-> (x[2] * (b % m)) % m]
           p == CHOOSE q : q = [n \in Nat |-> IF n = 0 THEN 1 % m ELSE (q[n - 1] * (b % m)) % m]
<1>1. \A n : mod_exp(b, n, m) = p[n]
  BY DEF mod_exp
<1>2. b % m \in Nat /\ one \in S
  <2>1. 1 % m \in Nat /\ 1 % m < m
    BY Modulo
  <2> QED
    BY <2>1, Modulo
<1>3. times \in Steps(S)
  <2>1. ASSUME NEW x \in Nat \X S PROVE (x[2] * (b % m)) % m \in S
    <3> DEFINE r == b % m
               xr == x[2] * r
    <3>1. x[2] \in Nat /\ r \in Nat
      BY <1>2
    <3> HIDE DEF r
    <3>2. xr \in Nat
      BY <3>1
    <3> HIDE DEF xr
    <3>3. xr % m \in Nat /\ xr % m < m
      BY <3>2, Modulo
    <3>4. xr % m \in S
      BY <3>3
    <3> QED
      BY <3>4 DEF xr, r
  <2> QED
    BY <2>1 DEF Steps
<1>4. PICK f \in [Nat -> S] : Iterates(f, one, times)
  <2> HIDE DEF S, one, times
  <2> QED
    BY <1>2, <1>3, Recursion
<1>5. f[0] = one /\ \A n \in Nat : f[n + 1] = (f[n] * (b % m)) % m
  <2>1. ASSUME NEW n \in Nat PROVE f[n + 1] = (f[n] * (b % m)) % m
    <3>1. f[n + 1] = times[<<n, f[n]>>] /\ <<n, f[n]>> \in Nat \X S
      BY <1>4 DEF Iterates
    <3> QED
      BY <3>1
  <2> QED
    BY <1>4, <2>1 DEF Iterates
<1>6. ASSUME NEW n \in Nat PROVE f[n] = IF n = 0 THEN 1 % m ELSE (f[n - 1] * (b % m)) % m
  <2>1. CASE n = 0
    BY <1>5, <2>1
  <2>2. CASE n # 0
    <3>1. n - 1 \in Nat /\ (n - 1) + 1 = n
      BY <2>2
    <3>2. f[(n - 1) + 1] = (f[n - 1] * (b % m)) % m
      BY <1>5, <3>1
    <3> QED
      BY <2>2, <3>1, <3>2
  <2> QED
    BY <2>1, <2>2
<1>7. f = [n \in Nat |-> IF n = 0 THEN 1 % m ELSE (f[n - 1] * (b % m)) % m]
  <2>1. f = [n \in Nat |-> f[n]]
    BY <1>4
  <2> QED
    BY <1>6, <2>1
<1>8. p = [n \in Nat |-> IF n = 0 THEN 1 % m ELSE (p[n - 1] * (b % m)) % m]
  BY <1>7
<1> HIDE DEF p
<1>9. p[0] = one /\ \A n \in Nat : p[n + 1] = (p[n] * (b % m)) % m
  <2>1. \A n \in Nat : n + 1 \in Nat /\ n + 1 # 0 /\ (n + 1) - 1 = n
    OBVIOUS
  <2> DEFINE Times(x) == (x * (b % m)) % m
  <2>2. p = [n \in Nat |-> IF n = 0 THEN one ELSE Times(p[n - 1])]
    BY <1>8
  <2> HIDE DEF Times, one
  <2>3. p[0] = one
    BY <2>2
  <2>4. \A n \in Nat : p[n + 1] = Times(p[n])
    BY <2>1, <2>2
  <2> QED
    BY <2>3, <2>4 DEF Times
<1> DEFINE Same == {n \in Nat : p[n] = f[n]}
<1>10. 0 \in Same /\ \A n \in Nat : n \in Same => n + 1 \in Same
  BY <1>5, <1>9
<1> HIDE DEF Same
<1>11. \A n \in Nat : p[n] = f[n]
  <2>1. \A n \in Nat : n \in Same
    BY <1>10, Induction
  <2> QED
    BY <2>1 DEF Same
<1>12. \A n \in Nat : p[n] \in Nat /\ p[n] < m
  BY <1>4, <1>11
<1> QED
  BY <1>1, <1>9, <1>12

(* The laws of powers.                                                     *)
LEMMA ModExpSum ==
  ASSUME NEW m \in Nat \ {0}, NEW b \in Nat, NEW e \in Nat, NEW f \in Nat
  PROVE  mod_exp(b, e + f, m) = (mod_exp(b, e, m) * mod_exp(b, f, m)) % m
<1> DEFINE M(n) == mod_exp(b, n, m)
           r == b % m
           Good == {n \in Nat : M(e + n) = (M(e) * M(n)) % m}
<1>1. /\ M(0) = 1 % m
      /\ \A n \in Nat : M(n) \in Nat /\ M(n) < m /\ M(n + 1) = (M(n) * r) % m
  BY ModExp
<1>2. r \in Nat
  BY Modulo
<1> HIDE DEF M, r
<1>3. 0 \in Good
  <2>1. e + 0 = e /\ M(e) \in Nat /\ M(e) < m /\ M(e) * 1 = M(e)
    BY <1>1
  <2>2. (M(e) * (1 % m)) % m = (M(e) * 1) % m
    BY <2>1, ModuloRight
  <2>3. M(e) % m = M(e)
    BY <2>1, Modulo
  <2>4. M(e + 0) = (M(e) * M(0)) % m
    BY <1>1, <2>1, <2>2, <2>3
  <2> QED
    BY <2>4
<1>4. ASSUME NEW n \in Nat, n \in Good PROVE n + 1 \in Good
  <2> DEFINE x == M(e)
             y == M(n)
  <2>1. x \in Nat /\ y \in Nat
    BY <1>1
  <2>2. M(e + n) = (x * y) % m /\ M(n + 1) = (y * r) % m
    BY <1>1, <1>4
  <2>3. M(e + (n + 1)) = (M(e + n) * r) % m
    <3>1. e + n \in Nat /\ e + (n + 1) = (e + n) + 1
      OBVIOUS
    <3> QED
      BY <1>1, <3>1
  <2> HIDE DEF x, y
  <2> DEFINE xy == x * y
             yr == y * r
  <2>4. xy \in Nat /\ yr \in Nat /\ xy * r = x * yr
    BY <1>2, <2>1
  <2>5. M(e + n) = xy % m /\ M(n + 1) = yr % m
    BY <2>2
  <2> HIDE DEF xy, yr
  <2>6. ((xy % m) * r) % m = (xy * r) % m
    BY <1>2, <2>4, ModuloLeft
  <2>7. (x * (yr % m)) % m = (x * yr) % m
    BY <2>1, <2>4, ModuloRight
  <2>8. M(e + (n + 1)) = (M(e) * M(n + 1)) % m
    BY <2>3, <2>4, <2>5, <2>6, <2>7 DEF x
  <2> QED
    BY <2>8
<1> HIDE DEF Good
<1>5. f \in Good
  BY <1>3, <1>4, Induction
<1> QED
  BY <1>5 DEF Good, M

LEMMA ModExpPower ==
  ASSUME NEW m \in Nat \ {0}, NEW b \in Nat, NEW e \in Nat, NEW f \in Nat
  PROVE  mod_exp(mod_exp(b, e, m), f, m) = mod_exp(b, e * f, m)
<1> DEFINE c == mod_exp(b, e, m)
           Good == {n \in Nat : mod_exp(c, n, m) = mod_exp(b, e * n, m)}
<1>1. c \in Nat /\ c < m /\ c = mod_exp(b, e, m)
  BY ModExp
<1> HIDE DEF c
<1>2. 0 \in Good
  <2>1. mod_exp(c, 0, m) = 1 % m /\ mod_exp(b, 0, m) = 1 % m /\ e * 0 = 0
    BY <1>1, ModExp
  <2> QED
    BY <2>1
<1>3. ASSUME NEW n \in Nat, n \in Good PROVE n + 1 \in Good
  <2> DEFINE en == e * n
  <2>1. en \in Nat /\ e * (n + 1) = en + e
    OBVIOUS
  <2>2. mod_exp(c, n, m) = mod_exp(b, en, m)
    BY <1>3
  <2> HIDE DEF en
  <2>3. mod_exp(c, n + 1, m) = (mod_exp(c, n, m) * (c % m)) % m
    BY <1>1, ModExp
  <2>4. c % m = c
    BY <1>1, Modulo
  <2>5. mod_exp(b, en + e, m) = (mod_exp(b, en, m) * c) % m
    BY <1>1, <2>1, ModExpSum
  <2>6. mod_exp(c, n + 1, m) = mod_exp(b, e * (n + 1), m)
    BY <2>1, <2>2, <2>3, <2>4, <2>5
  <2> QED
    BY <2>6
<1> HIDE DEF Good
<1>4. f \in Good
  BY <1>2, <1>3, Induction
<1> QED
  BY <1>1, <1>4 DEF Good

LEMMA ModExpProduct ==
  ASSUME NEW m \in Nat \ {0}, NEW b \in Nat, NEW c \in Nat, NEW e \in Nat
  PROVE  mod_exp(b * c, e, m) = (mod_exp(b, e, m) * mod_exp(c, e, m)) % m
<1> DEFINE bc == b * c
           Good == {n \in Nat :
                      mod_exp(bc, n, m) = (mod_exp(b, n, m) * mod_exp(c, n, m)) % m}
<1>1. bc \in Nat /\ bc = b * c
  OBVIOUS
<1> HIDE DEF bc
<1>2. 0 \in Good
  <2>1. /\ mod_exp(b, 0, m) = 1 % m /\ mod_exp(c, 0, m) = 1 % m /\ mod_exp(bc, 0, m) = 1 % m
    BY <1>1, ModExp
  <2>2. ((1 % m) * (1 % m)) % m = (1 * 1) % m
    BY ModuloBoth
  <2>3. 1 * 1 = 1
    OBVIOUS
  <2>4. mod_exp(bc, 0, m) = (mod_exp(b, 0, m) * mod_exp(c, 0, m)) % m
    BY <2>1, <2>2, <2>3
  <2> QED
    BY <2>4
<1>3. ASSUME NEW n \in Nat, n \in Good PROVE n + 1 \in Good
  <2> DEFINE x == mod_exp(b, n, m)
             y == mod_exp(c, n, m)
             r == b % m
             s == c % m
  <2>1. x \in Nat /\ y \in Nat /\ r \in Nat /\ s \in Nat
    BY ModExp, Modulo
  <2>2. /\ mod_exp(bc, n + 1, m) = (((x * y) % m) * (bc % m)) % m
        /\ mod_exp(b, n + 1, m) = (x * r) % m /\ mod_exp(c, n + 1, m) = (y * s) % m
    <3>1. mod_exp(bc, n, m) = (x * y) % m
      BY <1>3
    <3> HIDE DEF x, y, r, s
    <3>2. mod_exp(bc, n + 1, m) = (mod_exp(bc, n, m) * (bc % m)) % m
      BY <1>1, ModExp
    <3>3. mod_exp(b, n + 1, m) = (x * r) % m /\ mod_exp(c, n + 1, m) = (y * s) % m
      BY ModExp DEF x, y, r, s
    <3> QED
      BY <3>1, <3>2, <3>3
  <2>3. (r * s) % m = bc % m
    BY <1>1, ModuloBoth
  <2> HIDE DEF x, y, r, s
  <2> DEFINE xy == x * y
             rs == r * s
             xr == x * r
             ys == y * s
  <2>4. xy \in Nat /\ rs \in Nat /\ xr \in Nat /\ ys \in Nat
    BY <2>1
  <2>5. xy * rs = xr * ys
    <3>1. (x * y) * (r * s) = (x * r) * (y * s)
      BY <2>1
    <3> QED
      BY <3>1
  <2>6. /\ mod_exp(bc, n + 1, m) = ((xy % m) * (rs % m)) % m
        /\ mod_exp(b, n + 1, m) = xr % m /\ mod_exp(c, n + 1, m) = ys % m
    BY <2>2, <2>3
  <2> HIDE DEF xy, rs, xr, ys
  <2>7. ((xy % m) * (rs % m)) % m = (xy * rs) % m
    BY <2>4, ModuloBoth
  <2>8. ((xr % m) * (ys % m)) % m = (xr * ys) % m
    BY <2>4, ModuloBoth
  <2>9. mod_exp(bc, n + 1, m) = (mod_exp(b, n + 1, m) * mod_exp(c, n + 1, m)) % m
    BY <2>5, <2>6, <2>7, <2>8
  <2> QED
    BY <2>9
<1> HIDE DEF Good
<1>4. e \in Good
  BY <1>2, <1>3, Induction
<1> QED
  BY <1>1, <1>4 DEF Good

(* No power of a number that has an inverse is zero.                       *)
LEMMA Invertible ==
  ASSUME NEW m \in Nat, m > 1, NEW b \in Nat, NEW c \in Nat, (b * c) % m = 1, NEW e \in Nat
  PROVE  mod_exp(b, e, m) # 0
<1> DEFINE bc == b * c
           Good == {n \in Nat : mod_exp(bc, n, m) = 1}
<1>1. bc \in Nat /\ bc = b * c /\ bc % m = 1 /\ m \in Nat \ {0}
  OBVIOUS
<1> HIDE DEF bc
<1>2. 1 % m = 1
  BY <1>1, Modulo
<1>3. 0 \in Good
  BY <1>1, <1>2, ModExp
<1>4. ASSUME NEW n \in Nat, n \in Good PROVE n + 1 \in Good
  <2>1. mod_exp(bc, n + 1, m) = (mod_exp(bc, n, m) * (bc % m)) % m
    BY <1>1, ModExp
  <2>2. mod_exp(bc, n, m) = 1 /\ 1 * 1 = 1
    BY <1>4
  <2>3. mod_exp(bc, n + 1, m) = 1
    BY <1>1, <1>2, <2>1, <2>2
  <2> QED
    BY <2>3
<1> HIDE DEF Good
<1>5. mod_exp(bc, e, m) = 1
  <2>1. e \in Good
    BY <1>3, <1>4, Induction
  <2> QED
    BY <2>1 DEF Good
<1>6. mod_exp(bc, e, m) = (mod_exp(b, e, m) * mod_exp(c, e, m)) % m
  BY <1>1, ModExpProduct
<1> DEFINE y == mod_exp(c, e, m)
<1>7. y \in Nat
  BY <1>1, ModExp
<1> HIDE DEF y
<1>8. 0 * y = 0 /\ 0 % m = 0
  <2>1. 0 % m = 0
    BY <1>1, Modulo
  <2> QED
    BY <1>7, <2>1
<1> QED
  BY <1>5, <1>6, <1>8 DEF y

(* What was added before the remainder was taken can be taken off after.   *)
LEMMA ModuloBack ==
  ASSUME NEW m \in Nat \ {0}, NEW z \in Nat, NEW w \in Nat, z < m
  PROVE  (((z + w) % m) - w) % m = z
<1> DEFINE y == z + w
           q == y \div m
           r == y % m
<1>1. q \in Nat /\ r \in 0 .. (m - 1) /\ y = m * q + r
  <2>1. y \in Nat
    OBVIOUS
  <2> HIDE DEF y
  <2> QED
    BY <2>1, Division
<1> HIDE DEF q, r
<1> DEFINE d == r - w
           p == d \div m
           s == d % m
<1>2. d \in Int /\ m * q + d = z
  BY <1>1
<1> HIDE DEF d
<1>3. p \in Int /\ s \in 0 .. (m - 1) /\ d = m * p + s
  BY <1>2
<1> HIDE DEF p, s
<1>4. z = m * (p + q) + s
  BY <1>1, <1>2, <1>3
<1> DEFINE t == p + q
<1>5. t \in Int /\ z = m * t + s
  BY <1>1, <1>3, <1>4
<1> HIDE DEF t
<1>6. t = 0
  <2>1. CASE t >= 1
    <3>1. m * t >= m
      BY <1>5, <2>1
    <3> QED
      BY <1>3, <1>5, <3>1
  <2>2. CASE t <= -1
    <3>1. m * t <= -m
      BY <1>5, <2>2
    <3> QED
      BY <1>3, <1>5, <3>1
  <2> QED
    BY <1>5, <2>1, <2>2
<1>7. s = z
  BY <1>3, <1>5, <1>6
<1> QED
  BY <1>7 DEF s, d, r, y

-------------------------------------------------------------------------------
(* The interleaved hash: the server's bytes are those RFC 2945 names.      *)

LEMMA LeadingZeroes ==
  ASSUME NEW S
  PROVE  LET lz == leading_zeroes(S)
         IN /\ lz \in 0 .. key_length
            /\ \A i \in 1 .. lz : S[i] = 0
            /\ lz < key_length => S[lz + 1] # 0
<1> DEFINE Zero(p) == \A i \in 1 .. p : S[i] = 0
           Ends(p) == p < key_length => S[p + 1] # 0
           Good == {n \in Nat : n <= key_length => Zero(n)}
<1>1. key_length \in Nat
  BY Srp6Assumption
<1>2. \E p \in 0 .. key_length : Zero(p) /\ Ends(p)
  <2> SUFFICES ASSUME \A p \in 0 .. key_length : ~ (Zero(p) /\ Ends(p)) PROVE FALSE
    OBVIOUS
  <2>1. 0 \in Good
    OBVIOUS
  <2>2. ASSUME NEW n \in Nat, n \in Good PROVE n + 1 \in Good
    <3> SUFFICES ASSUME n + 1 <= key_length PROVE Zero(n + 1)
      OBVIOUS
    <3>1. n \in 0 .. key_length /\ n < key_length /\ Zero(n)
      BY <1>1, <2>2
    <3>2. S[n + 1] = 0
      BY <3>1
    <3>3. \A i \in 1 .. (n + 1) : i \in 1 .. n \/ i = n + 1
      OBVIOUS
    <3> QED
      BY <3>1, <3>2, <3>3
  <2> HIDE DEF Good
  <2>3. key_length \in Good
    BY <1>1, <2>1, <2>2, Induction
  <2>4. Zero(key_length) /\ key_length \in 0 .. key_length /\ Ends(key_length)
    BY <1>1, <2>3 DEF Good
  <2> QED
    BY <2>4
<1> QED
  BY <1>2 DEF leading_zeroes

(* How many zeroes there are, the way the client counts them.              *)
LEMMA CountZeroes ==
  ASSUME NEW S
  PROVE  Cardinality({p \in 0 .. key_length : \A i \in 1 .. p : S[i] = 0})
           = leading_zeroes(S) + 1
<1> DEFINE lz == leading_zeroes(S)
           Zero(p) == \A i \in 1 .. p : S[i] = 0
<1>1. /\ lz \in 0 .. key_length /\ \A i \in 1 .. lz : S[i] = 0
      /\ lz < key_length => S[lz + 1] # 0
  BY LeadingZeroes
<1>2. key_length \in Nat
  BY Srp6Assumption
<1> HIDE DEF lz
<1>3. ASSUME NEW p \in 0 .. key_length PROVE Zero(p) <=> p \in 0 .. lz
  <2>1. CASE p <= lz
    BY <1>1, <2>1
  <2>2. CASE p > lz
    <3>1. lz + 1 \in 1 .. p /\ lz < key_length
      BY <1>1, <1>2, <2>2
    <3> QED
      BY <1>1, <2>2, <3>1
  <2> QED
    BY <1>1, <2>1, <2>2
<1> HIDE DEF Zero
<1>4. {p \in 0 .. key_length : Zero(p)} = 0 .. lz
  BY <1>1, <1>2, <1>3
<1>5. Cardinality(0 .. lz) = lz + 1
  BY <1>1, FS_Interval
<1> QED
  BY <1>4, <1>5 DEF lz, Zero

(* Both halves of the bytes that are left, and the order of their digests. *)
LEMMA SameHash ==
  ASSUME NEW S \in ByteStrings, Len(S) = key_length
  PROVE  SHA1_inter_leave(S) = Interleaved(S)
<1> DEFINE lz == leading_zeroes(S)
           p == (lz + 1) \div 2
           half == key_length \div 2
           bare == SubSeq(S, lz + 1, key_length)
           even == IF Len(bare) % 2 = 0 THEN bare ELSE Tail(bare)
           halfhash(k) == digest_of([i \in 1 .. Len(even) \div 2 |-> even[2 * i - k]])
<1>1. Interleaved(S) = [i \in 1 .. 2 * disgest_length |-> halfhash(i % 2)[(i + 1) \div 2]]
  BY CountZeroes, Zenon DEF Interleaved
<1>2. SHA1_inter_leave(S) = take_turns(half_digest(S, 1, p), half_digest(S, 2, p))
  BY DEF SHA1_inter_leave
<1>3. lz \in 0 .. key_length /\ key_length \in Nat /\ key_length % 2 = 0
  BY LeadingZeroes, Srp6Assumption
<1> HIDE DEF lz
<1>4. half \in Nat /\ key_length = 2 * half
  BY <1>3
<1>5. p \in 0 .. half /\ (lz = 2 * p \/ lz = 2 * p - 1)
  BY <1>3, <1>4
<1> HIDE DEF p, half
<1>6. /\ bare \in Seq(0 .. Base - 1) /\ Len(bare) = key_length - lz
      /\ \A i \in 1 .. (key_length - lz) : bare[i] = S[lz + i]
  <2>1. lz + 1 \in 1 .. (Len(S) + 1) /\ key_length \in lz .. Len(S)
    BY <1>3
  <2>2. bare \in Seq(0 .. Base - 1)
    <3> DEFINE Byte == 0 .. Base - 1
               first == lz + 1
    <3>1. first \in Int /\ key_length \in Int /\ \A i \in first .. key_length : S[i] \in Byte
      <4>1. \A i \in 1 .. Len(S) : S[i] \in Byte
        BY BaseAssumption DEF ByteStrings
      <4> HIDE DEF Byte
      <4> QED
        BY <1>3, <2>1, <4>1
    <3> HIDE DEF Byte, first
    <3>2. SubSeq(S, first, key_length) \in Seq(Byte)
      BY <3>1, SubSeqProperties
    <3> QED
      BY <3>2 DEF Byte, first, bare
  <2>3. Len(bare) = key_length - lz
    BY <1>3, <2>1, SubSeqProperties DEF ByteStrings
  <2>4. ASSUME NEW i \in 1 .. (key_length - lz) PROVE bare[i] = S[lz + i]
    <3>1. bare[i] = S[(lz + 1) + i - 1] /\ (lz + 1) + i - 1 = lz + i
      BY <1>3, <2>1, SubSeqProperties DEF ByteStrings
    <3> QED
      BY <3>1
  <2> QED
    BY <2>2, <2>3, <2>4
<1> HIDE DEF bare
<1>7. Len(even) = 2 * (half - p) /\ \A i \in 1 .. 2 * (half - p) : even[i] = S[2 * p + i]
  <2>1. CASE lz = 2 * p
    <3>1. Len(bare) = 2 * (half - p) /\ Len(bare) % 2 = 0
      BY <1>4, <1>5, <1>6, <2>1
    <3>2. even = bare
      BY <3>1
    <3> QED
      BY <1>4, <1>6, <2>1, <3>1, <3>2
  <2>2. CASE lz = 2 * p - 1
    <3>1. Len(bare) = 2 * (half - p) + 1 /\ Len(bare) % 2 # 0
      BY <1>4, <1>5, <1>6, <2>2
    <3>2. even = Tail(bare)
      BY <3>1
    <3>3. Len(Tail(bare)) = 2 * (half - p)
      <4>1. half - p \in Nat /\ bare # << >>
        BY <1>4, <1>5, <1>6, <3>1
      <4> QED
        BY <1>6, <3>1, <4>1
    <3>4. ASSUME NEW i \in 1 .. 2 * (half - p) PROVE Tail(bare)[i] = S[2 * p + i]
      <4>1. i + 1 \in 1 .. (key_length - lz) /\ lz + (i + 1) = 2 * p + i
        BY <1>4, <1>5, <2>2
      <4>2. Tail(bare)[i] = bare[i + 1]
        BY <1>5, <1>6, <3>1, <3>3
      <4> QED
        BY <1>6, <4>1, <4>2
    <3> QED
      BY <3>2, <3>3, <3>4
  <2> QED
    BY <1>5, <2>1, <2>2
<1> HIDE DEF even
<1>8. Len(even) \div 2 = half - p
  BY <1>4, <1>5, <1>7
<1>9. halfhash(1) = half_digest(S, 1, p)
  <2>1. ASSUME NEW i \in 1 .. (half - p) PROVE even[2 * i - 1] = S[2 * (i + p - 1) + 1]
    <3>1. 2 * i - 1 \in 1 .. 2 * (half - p) /\ 2 * p + (2 * i - 1) = 2 * (i + p - 1) + 1
      BY <1>4, <1>5
    <3> QED
      BY <1>7, <3>1
  <2>2. [i \in 1 .. (half - p) |-> even[2 * i - 1]]
          = [i \in 1 .. (half - p) |-> S[2 * (i + p - 1) + 1]]
    BY <2>1
  <2> QED
    BY <1>8, <2>2, Zenon DEF half_digest, half
<1>10. halfhash(0) = half_digest(S, 2, p)
  <2>1. ASSUME NEW i \in 1 .. (half - p) PROVE even[2 * i - 0] = S[2 * (i + p - 1) + 2]
    <3>1. 2 * i - 0 \in 1 .. 2 * (half - p) /\ 2 * p + (2 * i - 0) = 2 * (i + p - 1) + 2
      BY <1>4, <1>5
    <3> QED
      BY <1>7, <3>1
  <2>2. [i \in 1 .. (half - p) |-> even[2 * i - 0]]
          = [i \in 1 .. (half - p) |-> S[2 * (i + p - 1) + 2]]
    BY <2>1
  <2> QED
    BY <1>8, <2>2, Zenon DEF half_digest, half
<1> DEFINE hash0 == half_digest(S, 1, p)
           hash1 == half_digest(S, 2, p)
<1>11. ASSUME NEW i \in 1 .. 2 * disgest_length
       PROVE  halfhash(i % 2)[(i + 1) \div 2]
                = IF i % 2 = 1 THEN hash0[(i + 1) \div 2] ELSE hash1[i \div 2]
  <2>1. i \in Nat
    BY Srp6Assumption
  <2>2. CASE i % 2 = 1
    BY <1>9, <2>2
  <2>3. CASE i % 2 = 0
    <3>1. (i + 1) \div 2 = i \div 2
      BY <2>1, <2>3
    <3> QED
      BY <1>10, <2>3, <3>1
  <2> QED
    BY <2>1, <2>2, <2>3
<1> HIDE DEF halfhash
<1> QED
  BY <1>1, <1>2, <1>11 DEF take_turns

-------------------------------------------------------------------------------
(* The key exchange.                                                       *)

PowerOfG(n) == mod_exp(g, n, m_N)

LEMMA Modulus == m_N \in Nat \ {0} /\ m_N > 1 /\ m_N < power(Base, key_length)
<1>1. N_text \in ByteStrings /\ Len(N_text) = key_length /\ key_length \in Nat
  BY Srp6Assumption DEF ByteStrings
<1>2. Srp6_N \in ByteStrings /\ Len(Srp6_N) = key_length
  <2> DEFINE Byte == 0 .. Base - 1
  <2>1. \A i \in 1 .. key_length : N_text[i] \in Byte
    BY <1>1, BaseAssumption DEF ByteStrings
  <2> HIDE DEF Byte
  <2>2. \A i \in 1 .. key_length : (key_length - i) + 1 \in 1 .. key_length
    BY <1>1
  <2>3. Srp6_N = [i \in 1 .. key_length |-> N_text[(key_length - i) + 1]]
    BY <1>1 DEF Srp6_N, Reverse
  <2>4. Srp6_N \in [1 .. key_length -> Byte]
    BY <2>1, <2>2, <2>3
  <2>5. Srp6_N \in Seq(Byte) /\ Len(Srp6_N) = key_length
    BY <1>1, <2>4
  <2> QED
    BY <2>5 DEF Byte, ByteStrings
<1> QED
  BY <1>2, NumberBound, Srp6Assumption DEF m_N

LEMMA PowersOfG ==
  ASSUME NEW n \in Nat
  PROVE  /\ PowerOfG(n) \in Nat /\ PowerOfG(n) # 0 /\ PowerOfG(n) % m_N # 0
         /\ PowerOfG(n) < m_N
         /\ number(little_endian(PowerOfG(n), key_length)) = PowerOfG(n)
<1> DEFINE p == PowerOfG(n)
<1>1. g \in Nat /\ key_length \in Nat
  BY Srp6Assumption
<1>2. p \in Nat /\ p < m_N
  BY <1>1, Modulus, ModExp DEF PowerOfG
<1>3. p # 0
  <2>1. PICK h \in 1 .. m_N - 1 : (g * h) % m_N = 1
    BY Srp6Assumption
  <2>2. h \in Nat /\ m_N \in Nat /\ m_N > 1
    BY Modulus
  <2> QED
    BY <1>1, <2>1, <2>2, Invertible DEF PowerOfG
<1> HIDE DEF p
<1>4. p % m_N = p
  BY <1>2, Modulus, Modulo
<1>5. p < power(Base, key_length)
  <2>1. power(Base, key_length) \in Nat
    BY <1>1, Places
  <2> QED
    BY <1>2, <2>1, Modulus
<1>6. number(little_endian(p, key_length)) = p
  BY <1>1, <1>2, <1>5, RoundTrip
<1> QED
  BY <1>2, <1>3, <1>4, <1>6 DEF p

(* Both sides compute the same S.                                          *)
LEMMA SameSecret ==
  ASSUME NEW x \in Nat, NEW a \in Nat, NEW b \in Nat, NEW u \in Nat
  PROVE  mod_exp(PowerOfG(a) * mod_exp(PowerOfG(x), u, m_N), b, m_N)
           = ClientSecret(calculate_B(b, PowerOfG(x)), a, u, x)
<1> DEFINE m == m_N
           v == PowerOfG(x)
           y == PowerOfG(b)
           sum == y + v * 3
<1>1. m \in Nat \ {0} /\ g \in Nat /\ key_length \in Nat /\ m < power(Base, key_length)
  BY Modulus, Srp6Assumption
<1>2. y \in Nat /\ y < m /\ v \in Nat /\ sum \in Nat
  BY PowersOfG
<1>3. number(calculate_B(b, v)) = sum % m
  <2> HIDE DEF sum, m
  <2>1. sum % m \in Nat /\ sum % m < m
    BY <1>1, <1>2, Modulo
  <2> DEFINE r == sum % m
             all == power(Base, key_length)
  <2>2. r \in Nat /\ r < m /\ all \in Nat /\ m < all
    BY <1>1, <2>1, Places
  <2> HIDE DEF r, all
  <2>3. r < all
    BY <1>1, <2>2
  <2>4. number(little_endian(r, key_length)) = r
    BY <1>1, <2>2, <2>3, RoundTrip DEF all
  <2>5. calculate_B(b, v) = little_endian(r, key_length)
    BY DEF calculate_B, r, sum, m, PowerOfG
  <2> QED
    BY <2>4, <2>5 DEF r
<1>4. ((sum % m) - 3 * v) % m = y
  <2> DEFINE w == 3 * v
  <2>1. w \in Nat /\ sum = y + w
    BY <1>2
  <2> HIDE DEF w, sum, m, y
  <2>2. (((y + w) % m) - w) % m = y
    BY <1>1, <1>2, <2>1, ModuloBack
  <2> QED
    BY <2>1, <2>2 DEF w
<1>5. ClientSecret(calculate_B(b, v), a, u, x) = mod_exp(y, a + u * x, m)
  <2>1. ClientSecret(calculate_B(b, v), a, u, x)
          = mod_exp(((sum % m) - 3 * v) % m, a + u * x, m)
    BY <1>3 DEF ClientSecret, PowerOfG
  <2> HIDE DEF sum, m, v, y
  <2> QED
    BY <1>4, <2>1
<1> DEFINE ux == u * x
           xu == x * u
           e == a + ux
           ab == a * b
           xub == xu * b
<1>6. /\ ux \in Nat /\ xu \in Nat /\ e \in Nat /\ ab \in Nat /\ xub \in Nat
      /\ b * e = ab + xub
  <2>1. b * (a + u * x) = a * b + (x * u) * b
    OBVIOUS
  <2> QED
    BY <2>1
<1> HIDE DEF ux, xu, ab, xub
<1>7. mod_exp(y, e, m) = PowerOfG(b * e)
  <2> HIDE DEF e, m
  <2>1. mod_exp(mod_exp(g, b, m), e, m) = mod_exp(g, b * e, m)
    BY <1>1, <1>6, ModExpPower
  <2> QED
    BY <2>1 DEF PowerOfG, m
<1>8. mod_exp(v, u, m) = PowerOfG(xu)
  <2> HIDE DEF m
  <2>1. mod_exp(mod_exp(g, x, m), u, m) = mod_exp(g, x * u, m)
    BY <1>1, ModExpPower
  <2> QED
    BY <2>1 DEF PowerOfG, m, xu
<1> DEFINE A == PowerOfG(a)
           z == PowerOfG(xu)
<1>9. A \in Nat /\ z \in Nat
  BY <1>6, PowersOfG
<1>10. mod_exp(A, b, m) = PowerOfG(ab) /\ mod_exp(z, b, m) = PowerOfG(xub)
  <2> HIDE DEF m
  <2>1. mod_exp(mod_exp(g, a, m), b, m) = mod_exp(g, a * b, m)
    BY <1>1, ModExpPower
  <2>2. mod_exp(mod_exp(g, xu, m), b, m) = mod_exp(g, xu * b, m)
    BY <1>1, <1>6, ModExpPower
  <2> QED
    BY <2>1, <2>2 DEF PowerOfG, m, ab, xub
<1>11. mod_exp(A * z, b, m) = (PowerOfG(ab) * PowerOfG(xub)) % m
  <2> HIDE DEF A, z, m
  <2> QED
    BY <1>1, <1>9, <1>10, ModExpProduct
<1>12. PowerOfG(ab + xub) = (PowerOfG(ab) * PowerOfG(xub)) % m
  <2> HIDE DEF m
  <2>1. mod_exp(g, ab + xub, m) = (mod_exp(g, ab, m) * mod_exp(g, xub, m)) % m
    BY <1>1, <1>6, ModExpSum
  <2> QED
    BY <2>1 DEF PowerOfG, m
<1>13. mod_exp(A * z, b, m) = mod_exp(y, e, m)
  BY <1>6, <1>7, <1>11, <1>12, Zenon
<1> QED
  BY <1>5, <1>8, <1>13, Zenon DEF e, ux

(* Digests tell their inputs apart.                                        *)
LEMMA Digest ==
  ASSUME NEW x, NEW y, digest_of(x) = digest_of(y)
  PROVE  x = y
<1>1. 1 \in 1 .. disgest_length
  BY Srp6Assumption
<1>2. digest_of(x)[1] = <<1, x>> /\ digest_of(y)[1] = <<1, y>>
  BY <1>1 DEF digest_of
<1> QED
  BY <1>2

(* What the server answers to a proof made from some key.                  *)
LEMMA Verified ==
  ASSUME NEW x \in Nat, NEW b \in Nat, NEW u \in Nat, NEW A \in ByteStrings, NEW key
  PROVE  LET S == mod_exp(number(A) * mod_exp(PowerOfG(x), u, m_N), b, m_N)
         IN verify_challenge(Account(x), b, u, A,
              proof_of(Account(x), A, calculate_B(b, number(Account(x).v)), key))
            = IF number(A) % m_N # 0 /\ key = Interleaved(little_endian(S, key_length))
              THEN key ELSE <<>>
<1> DEFINE v == PowerOfG(x)
           B == calculate_B(b, v)
           S == mod_exp(number(A) * mod_exp(v, u, m_N), b, m_N)
           told == verify_challenge(Account(x), b, u, A,
                     proof_of(Account(x), A, calculate_B(b, number(Account(x).v)), key))
           own == SHA1_inter_leave(little_endian(S, key_length))
<1>1. number(Account(x).v) = v
  <2>1. Account(x).v = little_endian(v, key_length)
    BY DEF Account, NewAccount, PowerOfG
  <2> QED
    BY <2>1, PowersOfG
<1>2. told = IF number(A) % m_N # 0
                 /\ proof_of(Account(x), A, B, key) = proof_of(Account(x), A, B, own)
             THEN own ELSE <<>>
  <2> HIDE DEF v
  <2> QED
    BY <1>1, Zenon DEF verify_challenge
<1>3. own = Interleaved(little_endian(S, key_length))
  <2>1. number(A) \in Nat /\ v \in Nat /\ m_N \in Nat \ {0} /\ key_length \in Nat
    BY NumberBound, PowersOfG, Modulus, Srp6Assumption
  <2> HIDE DEF v
  <2> DEFINE w == mod_exp(v, u, m_N)
             base == number(A) * w
  <2>2. w \in Nat
    BY <2>1, ModExp
  <2> HIDE DEF w
  <2>3. base \in Nat
    BY <2>1, <2>2
  <2> HIDE DEF base
  <2>4. mod_exp(base, b, m_N) \in Nat
    BY <2>1, <2>3, ModExp
  <2>5. S \in Nat
    BY <2>4 DEF base, w
  <2> HIDE DEF S
  <2>6. little_endian(S, key_length) \in ByteStrings /\ Len(little_endian(S, key_length)) = key_length
    BY <2>1, <2>5, Written
  <2> QED
    BY <2>6, SameHash
<1> HIDE DEF own, S, B, v, told
<1>4. proof_of(Account(x), A, B, key) = proof_of(Account(x), A, B, own) <=> key = own
  <2> SUFFICES ASSUME proof_of(Account(x), A, B, key) = proof_of(Account(x), A, B, own)
               PROVE  key = own
    BY Zenon
  <2> DEFINE input(k) == [I |-> Account(x).I, s |-> Account(x).s, A |-> A, B |-> B, key |-> k]
  <2>1. digest_of(input(key)) = digest_of(input(own))
    BY Zenon DEF proof_of
  <2> HIDE DEF input
  <2>2. input(key) = input(own)
    BY <2>1, Digest
  <2>3. input(key).key = key /\ input(own).key = own
    BY DEF input
  <2> QED
    BY <2>2, <2>3
<1> QED
  BY <1>2, <1>3, <1>4, Zenon DEF S, v, told

LEMMA KeysAgreeOne ==
  ASSUME call \in Logons,
         result = verify_challenge(Account(call.account), call.b, call.u, ClientA, ClientProof)
  PROVE  KeysAgree
<1> DEFINE x == call.account
           a == call.a
           b == call.b
           u == call.u
           B == calculate_B(b, number(Account(x).v))
           S == mod_exp(number(ClientA) * mod_exp(PowerOfG(x), u, m_N), b, m_N)
<1>1. /\ x \in Nat /\ a \in Nat /\ b \in Nat /\ u \in Nat
      /\ call.client \in {"honest", "blank"}
  BY SecretAssumption DEF Logons
<1>2. m_N \in Nat \ {0} /\ m_N < power(Base, key_length) /\ key_length \in Nat
  BY Modulus, Srp6Assumption
<1>3. /\ call.client = "honest" => ClientA = little_endian(PowerOfG(a), key_length)
      /\ call.client = "blank" => ClientA = little_endian((a % 2) * m_N, key_length)
  BY DEF ClientA, PowerOfG
<1>4. (a % 2) * m_N \in {0, m_N}
  <2>1. a % 2 = 0 \/ a % 2 = 1
    BY <1>1
  <2> QED
    BY <1>2, <2>1
<1> HIDE DEF x, a, b, u
<1>5. /\ call.client = "honest" => number(ClientA) = PowerOfG(a) /\ number(ClientA) % m_N # 0
      /\ call.client = "blank" => number(ClientA) % m_N = 0
  <2>1. CASE call.client = "honest"
    BY <1>1, <1>3, <2>1, PowersOfG
  <2>2. CASE call.client = "blank"
    <3> DEFINE n == (a % 2) * m_N
               all == power(Base, key_length)
    <3>1. n \in {0, m_N} /\ all \in Nat \ {0} /\ m_N < all
      BY <1>2, <1>4, Places
    <3> HIDE DEF n, all
    <3>2. n \in Nat /\ n < all
      BY <1>2, <3>1
    <3>3. number(little_endian(n, key_length)) = n
      BY <1>2, <3>2, RoundTrip DEF all
    <3>4. n % m_N = 0
      <4>1. m_N % m_N = 0
        BY <1>2
      <4>2. 0 % m_N = 0
        BY <1>2
      <4> QED
        BY <3>1, <4>1, <4>2
    <3> QED
      BY <1>3, <2>2, <3>3, <3>4 DEF n
  <2> QED
    BY <1>1, <2>1, <2>2
<1>6. ClientA \in ByteStrings
  <2>1. PowerOfG(a) \in Nat /\ (a % 2) * m_N \in Nat
    <3> DEFINE n == (a % 2) * m_N
    <3>1. n \in {0, m_N}
      BY <1>4
    <3> HIDE DEF n
    <3>2. n \in Nat
      BY <1>2, <3>1
    <3> QED
      BY <1>1, <3>2, PowersOfG DEF n
  <2> QED
    BY <1>1, <1>2, <1>3, <2>1, Written
<1>7. result = verify_challenge(Account(x), b, u, ClientA,
                                proof_of(Account(x), ClientA, B, ClientKey))
  BY Zenon DEF ClientProof, x, b, u
<1>8. result = IF number(ClientA) % m_N # 0
                  /\ ClientKey = Interleaved(little_endian(S, key_length))
               THEN ClientKey ELSE <<>>
  <2> HIDE DEF B
  <2> DEFINE A == ClientA
             key == ClientKey
  <2>1. A \in ByteStrings /\ result = verify_challenge(Account(x), b, u, A,
                  proof_of(Account(x), A, calculate_B(b, number(Account(x).v)), key))
    BY <1>6, <1>7 DEF B
  <2> HIDE DEF A, key
  <2>2. verify_challenge(Account(x), b, u, A,
          proof_of(Account(x), A, calculate_B(b, number(Account(x).v)), key))
        = IF number(A) % m_N # 0
             /\ key = Interleaved(little_endian(
                        mod_exp(number(A) * mod_exp(PowerOfG(x), u, m_N), b, m_N), key_length))
          THEN key ELSE <<>>
    BY <1>1, <2>1, Verified
  <2> QED
    BY <2>1, <2>2, Zenon DEF A, key
<1>9. ASSUME call.client = "honest", call.typed = x
      PROVE  ClientKey = Interleaved(little_endian(S, key_length))
  <2>1. Account(x).v = little_endian(PowerOfG(x), key_length)
    BY DEF Account, NewAccount, PowerOfG
  <2>2. number(Account(x).v) = PowerOfG(x)
    BY <1>1, <2>1, PowersOfG
  <2>3. S = mod_exp(PowerOfG(a) * mod_exp(PowerOfG(x), u, m_N), b, m_N)
    BY <1>5, <1>9
  <2>4. S = ClientSecret(calculate_B(b, PowerOfG(x)), a, u, x)
    <3> HIDE DEF S
    <3> QED
      BY <1>1, <2>3, SameSecret, Zenon
  <2> HIDE DEF S
  <2>5. ClientS = S
    BY <1>9, <2>2, <2>4 DEF ClientS, x, a, b, u
  <2> QED
    BY <2>5 DEF ClientKey
<1> HIDE DEF S
<1>10. call.client = "honest" /\ call.typed = x => result = ClientKey
  BY <1>5, <1>8, <1>9, Zenon
<1>11. call.client = "blank" => result = <<>>
  BY <1>5, <1>8, Zenon
<1>12. result \in {<<>>, ClientKey}
  BY <1>8, Zenon
<1> QED
  BY <1>10, <1>11, <1>12 DEF KeysAgree, x

LogonInv ==
  /\ call.of = "logon" => call \in Logons
  /\ call.of = "logon" /\ result # Pending =>
       result = verify_challenge(Account(call.account), call.b, call.u, ClientA, ClientProof)

(* Whatever the modulus is that g has an inverse of, whatever both sides   *)
(* draw and however many zeroes S begins with: who knows the password is   *)
(* let in with the key it computed itself, a client that sends a multiple  *)
(* of N never is, and whoever is given a key is given its own.             *)
THEOREM KeyExchange == Spec => []KeysAgree
<1>1. Init => LogonInv
  <2> SUFFICES ASSUME Init PROVE LogonInv
    OBVIOUS
  <2>1. result = Pending /\ (call \in Logons \/ call \in Replies \/ call \in Questions)
    BY DEF Init
  <2>2. /\ \A c \in Replies : c.of = "reply"
        /\ \A c \in Questions : c.of = "address"
    BY DEF Replies, Questions
  <2> QED
    BY <2>1, <2>2 DEF LogonInv
<1>2. LogonInv /\ [Next]_vars => LogonInv'
  <2> SUFFICES ASSUME LogonInv, [Next]_vars PROVE LogonInv'
    OBVIOUS
  <2>1. CASE Next
    <3>1. call' = call
      BY <2>1 DEF Next
    <3>2. CASE call.of # "logon"
      BY <3>1, <3>2 DEF LogonInv
    <3>3. CASE call.of = "logon"
      <4>1. Logon
        BY <2>1, <3>3 DEF Next, Reply, Address
      <4>2. ClientA' = ClientA /\ ClientProof' = ClientProof
        BY <3>1 DEF ClientA, ClientProof, ClientKey, ClientS
      <4> QED
        BY <3>1, <4>1, <4>2 DEF Logon, LogonInv
    <3> QED
      BY <3>2, <3>3
  <2>2. CASE UNCHANGED vars
    <3>1. call' = call /\ result' = result
      BY <2>2 DEF vars
    <3>2. ClientA' = ClientA /\ ClientProof' = ClientProof
      BY <3>1 DEF ClientA, ClientProof, ClientKey, ClientS
    <3> QED
      BY <3>1, <3>2 DEF LogonInv
  <2> QED
    BY <2>1, <2>2
<1>3. LogonInv => KeysAgree
  <2> SUFFICES ASSUME LogonInv, call.of = "logon", result # Pending PROVE KeysAgree
    BY DEF KeysAgree
  <2> QED
    BY KeysAgreeOne DEF LogonInv
<1> QED
  BY <1>1, <1>2, <1>3, PTL DEF Spec

-------------------------------------------------------------------------------
(* The bytes of the realm list: taking fields off what was put together.   *)

LEMMA Joined ==
  ASSUME NEW a \in ByteStrings, NEW b \in ByteStrings
  PROVE  /\ a \o b \in ByteStrings
         /\ Len(a) \in Nat /\ Len(b) \in Nat /\ Len(a \o b) = Len(a) + Len(b)
         /\ \A i \in 1 .. Len(a) : (a \o b)[i] = a[i]
         /\ \A i \in 1 .. Len(b) : (a \o b)[Len(a) + i] = b[i]
<1> DEFINE Byte == 0 .. Base - 1
<1>1. a \in Seq(Byte) /\ b \in Seq(Byte) /\ ByteStrings = Seq(Byte)
  BY DEF ByteStrings
<1> HIDE DEF Byte
<1> QED
  BY <1>1

LEMMA Regroup ==
  ASSUME NEW a \in ByteStrings, NEW b \in ByteStrings, NEW c \in ByteStrings
  PROVE  (a \o b) \o c = a \o (b \o c)
BY ConcatAssociative DEF ByteStrings

LEMMA SameBytes ==
  ASSUME NEW a \in ByteStrings, NEW b \in ByteStrings, Len(a) = Len(b),
         \A i \in 1 .. Len(a) : a[i] = b[i]
  PROVE  a = b
<1> DEFINE Byte == 0 .. Base - 1
<1>1. a \in Seq(Byte) /\ b \in Seq(Byte)
  BY DEF ByteStrings
<1> HIDE DEF Byte
<1> QED
  BY <1>1

(* What is left of some bytes, and what is taken off their front.          *)
LEMMA RestOf ==
  ASSUME NEW a \in ByteStrings, NEW n \in Nat
  PROVE  /\ Rest(a, n) \in ByteStrings
         /\ n <= Len(a) => Len(Rest(a, n)) = Len(a) - n
         /\ \A i \in 1 .. (Len(a) - n) : Rest(a, n)[i] = a[n + i]
<1> DEFINE Byte == 0 .. Base - 1
           first == n + 1
           last == Len(a)
<1>1. ByteStrings = Seq(Byte) /\ last \in Nat /\ \A i \in 1 .. last : a[i] \in Byte
  BY BaseAssumption DEF ByteStrings
<1> HIDE DEF Byte
<1>2. first \in Int /\ last \in Int /\ \A i \in first .. last : a[i] \in Byte
  BY <1>1
<1>3. Rest(a, n) = SubSeq(a, first, last)
  BY DEF Rest
<1> HIDE DEF first, last
<1>4. /\ SubSeq(a, first, last) \in Seq(Byte)
      /\ Len(SubSeq(a, first, last)) = IF first <= last THEN last - first + 1 ELSE 0
      /\ \A i \in 1 .. last - first + 1 : SubSeq(a, first, last)[i] = a[first + i - 1]
  BY <1>2, SubSeqProperties
<1>5. first = n + 1 /\ last = Len(a)
  BY DEF first, last
<1>6. n <= last => Len(SubSeq(a, first, last)) = last - n
  BY <1>1, <1>4, <1>5
<1>7. ASSUME NEW i \in 1 .. (last - n) PROVE SubSeq(a, first, last)[i] = a[n + i]
  <2>1. i \in 1 .. last - first + 1 /\ first + i - 1 = n + i
    BY <1>1, <1>5
  <2> QED
    BY <1>4, <2>1
<1> QED
  BY <1>1, <1>3, <1>4, <1>5, <1>6, <1>7

LEMMA RestJoined ==
  ASSUME NEW a \in ByteStrings, NEW b \in ByteStrings, NEW n \in 0 .. Len(b)
  PROVE  /\ Rest(a \o b, Len(a) + n) = Rest(b, n)
         /\ Rest(a \o b, Len(a)) = b
<1> DEFINE ab == a \o b
<1>1. /\ ab \in ByteStrings /\ Len(a) \in Nat /\ Len(b) \in Nat /\ Len(ab) = Len(a) + Len(b)
      /\ \A i \in 1 .. Len(b) : ab[Len(a) + i] = b[i]
  BY Joined
<1> HIDE DEF ab
<1>2. ASSUME NEW k \in 0 .. Len(b) PROVE Rest(ab, Len(a) + k) = Rest(b, k)
  <2> DEFINE x == Rest(ab, Len(a) + k)
             y == Rest(b, k)
  <2>1. Len(a) + k \in Nat /\ k \in Nat /\ Len(a) + k <= Len(ab) /\ k <= Len(b)
    BY <1>1
  <2>2. /\ x \in ByteStrings /\ Len(x) = Len(ab) - (Len(a) + k)
        /\ \A i \in 1 .. (Len(ab) - (Len(a) + k)) : x[i] = ab[(Len(a) + k) + i]
    BY <1>1, <2>1, RestOf
  <2>3. /\ y \in ByteStrings /\ Len(y) = Len(b) - k
        /\ \A i \in 1 .. (Len(b) - k) : y[i] = b[k + i]
    BY <2>1, RestOf
  <2> HIDE DEF x, y
  <2>4. Len(x) = Len(y)
    BY <1>1, <2>2, <2>3
  <2>5. ASSUME NEW i \in 1 .. Len(x) PROVE x[i] = y[i]
    <3>1. /\ i \in 1 .. (Len(ab) - (Len(a) + k)) /\ i \in 1 .. (Len(b) - k)
          /\ k + i \in 1 .. Len(b) /\ (Len(a) + k) + i = Len(a) + (k + i)
      BY <1>1, <2>2, <2>3, <2>4
    <3> QED
      BY <1>1, <2>2, <2>3, <3>1
  <2>6. x = y
    BY <2>2, <2>3, <2>4, <2>5, SameBytes
  <2> QED
    BY <2>6 DEF x, y
<1>3. Rest(b, 0) = b
  <2> DEFINE y == Rest(b, 0)
  <2>1. y \in ByteStrings /\ Len(y) = Len(b) /\ \A i \in 1 .. Len(b) : y[i] = b[0 + i]
    BY <1>1, RestOf
  <2> HIDE DEF y
  <2>2. \A i \in 1 .. Len(b) : y[i] = b[i]
    BY <1>1, <2>1
  <2>3. y = b
    BY <2>1, <2>2, SameBytes
  <2> QED
    BY <2>3 DEF y
<1>4. 0 \in 0 .. Len(b) /\ Len(a) + 0 = Len(a)
  BY <1>1
<1>5. Rest(ab, Len(a)) = Rest(b, 0)
  BY <1>2, <1>4
<1> QED
  BY <1>2, <1>3, <1>5 DEF ab

LEMMA RestAfter ==
  ASSUME NEW a \in ByteStrings, NEW b \in ByteStrings, NEW m, m = Len(a)
  PROVE  Rest(a \o b, m) = b
<1>1. 0 \in 0 .. Len(b)
  BY Joined
<1> QED
  BY <1>1, RestJoined

LEMMA RestBeyond ==
  ASSUME NEW a \in ByteStrings, NEW b \in ByteStrings
  PROVE  \A n \in 0 .. Len(b) : \A m : m = Len(a) + n => Rest(a \o b, m) = Rest(b, n)
BY RestJoined

LEMMA TakenOf ==
  ASSUME NEW a \in ByteStrings, NEW n \in Nat
  PROVE  Taken(a, n) \in ByteStrings /\ Len(Taken(a, n)) = n
<1> DEFINE Byte == 0 .. Base - 1
<1>1. /\ ByteStrings = Seq(Byte) /\ Len(a) \in Nat /\ DOMAIN a = 1 .. Len(a)
      /\ 0 \in Byte /\ \A i \in 1 .. Len(a) : a[i] \in Byte
  BY BaseAssumption DEF ByteStrings
<1> HIDE DEF Byte
<1>2. Taken(a, n) \in [1 .. n -> Byte]
  BY <1>1 DEF Taken
<1> QED
  BY <1>1, <1>2

LEMMA TakenJoined ==
  ASSUME NEW a \in ByteStrings, NEW b \in ByteStrings
  PROVE  Taken(a \o b, Len(a)) = a
<1> DEFINE ab == a \o b
           x == Taken(ab, Len(a))
<1>1. /\ ab \in ByteStrings /\ Len(a) \in Nat /\ Len(b) \in Nat /\ Len(ab) = Len(a) + Len(b)
      /\ \A i \in 1 .. Len(a) : ab[i] = a[i]
  BY Joined
<1> HIDE DEF ab
<1>2. x \in ByteStrings /\ Len(x) = Len(a)
  BY <1>1, TakenOf
<1>3. DOMAIN ab = 1 .. Len(ab)
  BY <1>1 DEF ByteStrings
<1>4. ASSUME NEW i \in 1 .. Len(a) PROVE x[i] = a[i]
  <2>1. i \in DOMAIN ab
    BY <1>1, <1>3
  <2> QED
    BY <1>1, <2>1 DEF Taken
<1> HIDE DEF x
<1>5. x = a
  BY <1>2, <1>4, SameBytes
<1> QED
  BY <1>5 DEF x, ab

LEMMA Least ==
  ASSUME NEW Z \in SUBSET Nat, Z # {}
  PROVE  \E i \in Z : \A j \in Z : i <= j
<1>1. PICK i \in Z : \A j \in Z : ~ (<<j, i>> \in OpToRel(<, Nat))
  BY WFMin, NatLessThanWellFounded, Zenon
<1>2. \A j \in Z : ~ (j < i)
  BY <1>1, Zenon DEF OpToRel
<1> QED
  BY <1>2

LEMMA TextOf ==
  ASSUME NEW a \in ByteStrings
  PROVE  Len(Text(a)) \in Nat
<1> DEFINE Z == {i \in DOMAIN a : a[i] = 0}
           k == CHOOSE i \in Z : \A j \in Z : i <= j
           Byte == 0 .. Base - 1
<1>1. Len(a) \in Nat /\ DOMAIN a = 1 .. Len(a) /\ \A i \in 1 .. Len(a) : a[i] \in Byte
  BY BaseAssumption DEF ByteStrings
<1>2. CASE Z = {}
  BY <1>1, <1>2 DEF Text
<1>3. CASE Z # {}
  <2>1. Z \subseteq 1 .. Len(a) /\ Z \in SUBSET Nat
    BY <1>1
  <2>2. Text(a) = SubSeq(a, 1, k - 1)
    BY <1>3, Zenon DEF Text
  <2> HIDE DEF Z, Byte
  <2>3. k \in Z
    BY <1>3, <2>1, Least
  <2> HIDE DEF k
  <2>4. k - 1 \in Int /\ 1 \in Int /\ \A i \in 1 .. (k - 1) : a[i] \in Byte
    BY <1>1, <2>1, <2>3
  <2> DEFINE last == k - 1
  <2>5. Len(SubSeq(a, 1, last)) = IF 1 <= last THEN last - 1 + 1 ELSE 0
    <3>1. last \in Int /\ 1 \in Int /\ \A i \in 1 .. last : a[i] \in Byte
      BY <2>4
    <3> HIDE DEF last
    <3> QED
      BY <3>1, SubSeqProperties
  <2> QED
    BY <2>2, <2>4, <2>5
<1> QED
  BY <1>2, <1>3

(* A text ends with the first zero.                                        *)
LEMMA TextRead ==
  ASSUME NEW name \in Seq(1 .. Base - 1), NEW b \in ByteStrings
  PROVE  /\ string(name) \in ByteStrings /\ Len(string(name)) = Len(name) + 1
         /\ Len(name) \in Nat
         /\ Text(string(name) \o b) = name
<1> DEFINE Byte == 0 .. Base - 1
           Char == 1 .. Base - 1
           s == string(name)
           x == s \o b
           n == Len(name)
<1>1. /\ name \in Seq(Byte) /\ n \in Nat /\ 0 \in Byte /\ ByteStrings = Seq(Byte)
      /\ \A i \in 1 .. n : name[i] \in Byte /\ name[i] # 0
  <2>1. Char \subseteq Byte /\ 0 \in Byte /\ 0 \notin Char
    BY BaseAssumption
  <2>2. name \in Seq(Char) /\ ByteStrings = Seq(Byte)
    BY DEF ByteStrings
  <2> HIDE DEF Char, Byte
  <2> QED
    BY <2>1, <2>2
<1> HIDE DEF Byte, Char
<1>2. /\ s \in Seq(Byte) /\ Len(s) = n + 1 /\ s[n + 1] = 0
      /\ \A i \in 1 .. n : s[i] = name[i]
  BY <1>1 DEF string
<1> HIDE DEF s
<1>3. /\ x \in ByteStrings /\ Len(b) \in Nat /\ Len(x) = (n + 1) + Len(b)
      /\ \A i \in 1 .. (n + 1) : x[i] = s[i]
  <2>1. s \in ByteStrings
    BY <1>1, <1>2
  <2>2. /\ x \in ByteStrings /\ Len(b) \in Nat /\ Len(x) = Len(s) + Len(b)
        /\ \A i \in 1 .. Len(s) : x[i] = s[i]
    BY <2>1, Joined
  <2> HIDE DEF x, n
  <2> QED
    BY <1>2, <2>2
<1>4. DOMAIN x = 1 .. Len(x)
  BY <1>3 DEF ByteStrings
<1> HIDE DEF x
<1> DEFINE Z == {i \in DOMAIN x : x[i] = 0}
           k == CHOOSE i \in Z : \A j \in Z : i <= j
<1>5. n + 1 \in Z
  BY <1>1, <1>2, <1>3, <1>4
<1>6. \A j \in Z : j \in Nat /\ n + 1 <= j
  <2>1. ASSUME NEW j \in 1 .. Len(x), x[j] = 0, j < n + 1 PROVE FALSE
    <3>1. j \in 1 .. n /\ j \in 1 .. (n + 1)
      BY <1>1, <2>1
    <3> QED
      BY <1>1, <1>2, <1>3, <2>1, <3>1
  <2> QED
    BY <1>1, <1>3, <1>4, <2>1
<1> HIDE DEF Z
<1>7. k = n + 1
  <2>1. k \in Z /\ \A j \in Z : k <= j
    BY <1>5, <1>6
  <2> HIDE DEF k
  <2> QED
    BY <1>1, <1>5, <1>6, <2>1
<1>8. Text(x) = SubSeq(x, 1, k - 1)
  <2>1. Z # {}
    BY <1>5
  <2> QED
    BY <2>1, Zenon DEF Text, Z
<1> HIDE DEF k
<1>9. Text(x) = SubSeq(x, 1, n)
  BY <1>1, <1>7, <1>8
<1>10. SubSeq(x, 1, n) = name
  <2> DEFINE y == SubSeq(x, 1, n)
  <2>1. 1 \in Int /\ n \in Int /\ \A i \in 1 .. n : x[i] = name[i] /\ x[i] \in Byte
    BY <1>1, <1>2, <1>3
  <2>2. /\ y \in Seq(Byte) /\ Len(y) = IF 1 <= n THEN n - 1 + 1 ELSE 0
        /\ \A i \in 1 .. n - 1 + 1 : y[i] = x[1 + i - 1]
    <3> HIDE DEF n
    <3> QED
      BY <2>1, SubSeqProperties
  <2> HIDE DEF y
  <2>3. Len(y) = n /\ \A i \in 1 .. n : y[i] = x[i]
    <3>1. \A i \in 1 .. n : i \in 1 .. n - 1 + 1 /\ 1 + i - 1 = i
      BY <1>1
    <3>2. Len(y) = n
      BY <1>1, <2>2
    <3> QED
      BY <2>2, <3>1, <3>2
  <2>4. y = name
    BY <1>1, <2>1, <2>2, <2>3, SameBytes
  <2> QED
    BY <2>4 DEF y
<1> QED
  BY <1>1, <1>2, <1>9, <1>10 DEF x, s

LEMMA Fields ==
  ASSUME NEW n \in Nat
  PROVE  /\ uint8(n) \in ByteStrings /\ Len(uint8(n)) = 1
         /\ uint16(n) \in ByteStrings /\ Len(uint16(n)) = 2
         /\ uint32(n) \in ByteStrings /\ Len(uint32(n)) = 4
         /\ n < Base => number(uint8(n)) = n /\ uint8(n) = <<n>> /\ number(uint32(n)) = n
         /\ n < power(Base, 2) => number(uint16(n)) = n
         /\ n < power(Base, 4) => number(uint32(n)) = n
<1>1. power(Base, 0) = 1 /\ power(Base, 1) = Base /\ Base <= power(Base, 4)
  <2>1. 0 \in Nat /\ 1 \in Nat /\ 2 \in Nat /\ 3 \in Nat
    OBVIOUS
  <2>2. power(Base, 0) = 1 /\ power(Base, 0 + 1) = Base * power(Base, 0)
    BY <2>1, Places
  <2>3. power(Base, 3) \in Nat \ {0} /\ power(Base, 3 + 1) = Base * power(Base, 3)
    BY <2>1, Places
  <2> DEFINE unit == power(Base, 3)
  <2>4. unit \in Nat \ {0} /\ Base \in Nat
    BY <2>3, BaseAssumption
  <2> HIDE DEF unit
  <2>5. Base * unit >= Base /\ Base * 1 = Base
    BY <2>4
  <2>6. 0 + 1 = 1 /\ 3 + 1 = 4
    OBVIOUS
  <2> QED
    BY <2>2, <2>3, <2>5, <2>6 DEF unit
<1>2. 1 \in Nat /\ 2 \in Nat /\ 4 \in Nat /\ power(Base, 4) \in Nat /\ Base \in Nat
  BY Places, BaseAssumption
<1>3. ASSUME n < Base PROVE uint8(n) = <<n>>
  <2>1. n \div 1 = n /\ n % Base = n
    BY <1>3, BaseAssumption
  <2>2. uint8(n)[1] = n
    <3>1. little_endian(n, 1)[1] = (n \div power(Base, 1 - 1)) % Base
      BY DEF little_endian
    <3>2. 1 - 1 = 0
      OBVIOUS
    <3> QED
      BY <1>1, <2>1, <3>1, <3>2 DEF uint8
  <2>3. uint8(n) \in ByteStrings /\ Len(uint8(n)) = 1
    BY <1>2, Written DEF uint8
  <2> DEFINE x == uint8(n)
             Byte == 0 .. Base - 1
  <2>4. x \in Seq(Byte) /\ Len(x) = 1 /\ x[1] = n
    BY <2>2, <2>3 DEF ByteStrings
  <2> HIDE DEF x, Byte
  <2>5. x = <<n>>
    BY <2>4
  <2> QED
    BY <2>5 DEF x
<1>4. n < Base => n < power(Base, 1) /\ n < power(Base, 4)
  BY <1>1, <1>2
<1> QED
  BY <1>2, <1>3, <1>4, Written, RoundTrip DEF uint8, uint16, uint32

(* One realm.                                                              *)
AreBytes(t, f, nm, ad, po, ch, ca, id, st, more) ==
  /\ t \in ByteStrings /\ f \in ByteStrings /\ nm \in ByteStrings /\ ad \in ByteStrings
  /\ po \in ByteStrings /\ ch \in ByteStrings /\ ca \in ByteStrings /\ id \in ByteStrings
  /\ st \in ByteStrings /\ more \in ByteStrings

Appended(t, f, nm, ad, po, ch, ca, id, st, more) ==
  /\ t \o f \o nm \o ad \o po \o ch \o ca \o id \o st \in ByteStrings
  /\ (t \o f \o nm \o ad \o po \o ch \o ca \o id \o st) \o more
       = t \o (f \o (nm \o (ad \o (po \o (ch \o (ca \o (id \o (st \o more))))))))

LEMMA NineFields ==
  ASSUME NEW t, NEW f, NEW nm, NEW ad, NEW po, NEW ch, NEW ca, NEW id, NEW st, NEW more,
         AreBytes(t, f, nm, ad, po, ch, ca, id, st, more)
  PROVE  Appended(t, f, nm, ad, po, ch, ca, id, st, more)
<1> DEFINE L2 == t \o f
           L3 == L2 \o nm
           L4 == L3 \o ad
           L5 == L4 \o po
           L6 == L5 \o ch
           L7 == L6 \o ca
           L8 == L7 \o id
           R9 == st \o more
           R8 == id \o R9
           R7 == ca \o R8
           R6 == ch \o R7
           R5 == po \o R6
           R4 == ad \o R5
           R3 == nm \o R4
           R2 == f \o R3
<1>t. t \in ByteStrings
  BY DEF AreBytes
<1>f. f \in ByteStrings
  BY DEF AreBytes
<1>nm. nm \in ByteStrings
  BY DEF AreBytes
<1>ad. ad \in ByteStrings
  BY DEF AreBytes
<1>po. po \in ByteStrings
  BY DEF AreBytes
<1>ch. ch \in ByteStrings
  BY DEF AreBytes
<1>ca. ca \in ByteStrings
  BY DEF AreBytes
<1>id. id \in ByteStrings
  BY DEF AreBytes
<1>st. st \in ByteStrings
  BY DEF AreBytes
<1>more. more \in ByteStrings
  BY DEF AreBytes
<1>1. L2 \in ByteStrings
  BY <1>t, <1>f, Joined
<1>2. L3 \in ByteStrings
  <2> HIDE DEF L2
  <2> QED BY <1>1, <1>nm, Joined
<1>3. L4 \in ByteStrings
  <2> HIDE DEF L3
  <2> QED BY <1>2, <1>ad, Joined
<1>4. L5 \in ByteStrings
  <2> HIDE DEF L4
  <2> QED BY <1>3, <1>po, Joined
<1>5. L6 \in ByteStrings
  <2> HIDE DEF L5
  <2> QED BY <1>4, <1>ch, Joined
<1>6. L7 \in ByteStrings
  <2> HIDE DEF L6
  <2> QED BY <1>5, <1>ca, Joined
<1>7. L8 \in ByteStrings
  <2> HIDE DEF L7
  <2> QED BY <1>6, <1>id, Joined
<1>8. R9 \in ByteStrings
  BY <1>st, <1>more, Joined
<1>9. R8 \in ByteStrings
  <2> HIDE DEF R9
  <2> QED BY <1>8, <1>id, Joined
<1>10. R7 \in ByteStrings
  <2> HIDE DEF R8
  <2> QED BY <1>9, <1>ca, Joined
<1>11. R6 \in ByteStrings
  <2> HIDE DEF R7
  <2> QED BY <1>10, <1>ch, Joined
<1>12. R5 \in ByteStrings
  <2> HIDE DEF R6
  <2> QED BY <1>11, <1>po, Joined
<1>13. R4 \in ByteStrings
  <2> HIDE DEF R5
  <2> QED BY <1>12, <1>ad, Joined
<1>14. R3 \in ByteStrings
  <2> HIDE DEF R4
  <2> QED BY <1>13, <1>nm, Joined
<1> HIDE DEF L2, L3, L4, L5, L6, L7, L8, R9, R8, R7, R6, R5, R4, R3, R2
<1>15. (L8 \o st) \o more = L8 \o R9
  BY <1>7, <1>st, <1>more, Regroup DEF R9
<1>16. L8 \o R9 = L7 \o R8
  BY <1>6, <1>8, <1>id, Regroup DEF L8, R8
<1>17. L7 \o R8 = L6 \o R7
  BY <1>5, <1>9, <1>ca, Regroup DEF L7, R7
<1>18. L6 \o R7 = L5 \o R6
  BY <1>4, <1>10, <1>ch, Regroup DEF L6, R6
<1>19. L5 \o R6 = L4 \o R5
  BY <1>3, <1>11, <1>po, Regroup DEF L5, R5
<1>20. L4 \o R5 = L3 \o R4
  BY <1>2, <1>12, <1>ad, Regroup DEF L4, R4
<1>21. L3 \o R4 = L2 \o R3
  BY <1>1, <1>13, <1>nm, Regroup DEF L3, R3
<1>22. L2 \o R3 = t \o R2
  BY <1>14, <1>t, <1>f, Regroup DEF L2, R2
<1>23. (L8 \o st) \o more = t \o R2
  BY <1>15, <1>16, <1>17, <1>18, <1>19, <1>20, <1>21, <1>22, Zenon
<1>24. L8 \o st \in ByteStrings
  BY <1>7, <1>st, Joined
<1> QED
  BY <1>23, <1>24 DEF Appended, L2, L3, L4, L5, L6, L7, L8, R9, R8, R7, R6, R5, R4, R3, R2

LEMMA ReadFields ==
  ASSUME NEW t, NEW f, NEW nm, NEW ad, NEW po, NEW ch, NEW ca, NEW id, NEW st, NEW more,
         AreBytes(t, f, nm, ad, po, ch, ca, id, st, more),
         NEW expansion, NEW text, NEW place,
         text \in Seq(1 .. Base - 1), place \in Seq(1 .. Base - 1),
         nm = string(text), ad = string(place),
         Len(t) = IF post_bc(expansion) THEN 2 ELSE 4,
         Len(f) = 1, Len(po) = 4, Len(ch) = 1, Len(ca) = 1, Len(id) = 1,
         Len(st) = IF post_bc(expansion) /\ specifies_build(number(f)) THEN 5 ELSE 0
  PROVE  LET bytes == t \o (f \o (nm \o (ad \o (po \o (ch \o (ca \o (id \o (st \o more))))))))
         IN /\ f \o (nm \o (ad \o (po \o (ch \o (ca \o (id \o (st \o more))))))) \in ByteStrings
            /\ ReadRealm(bytes, expansion) =
              [seen |->
                 [type |-> number(Taken(bytes, IF post_bc(expansion) THEN 1 ELSE 4)),
                  flags |-> number(f), name |-> text, address |-> place,
                  population |-> number(po), characters |-> number(ch),
                  category |-> number(ca), id |-> number(id),
                  version |-> IF post_bc(expansion) /\ specifies_build(number(f))
                              THEN st ELSE <<>>],
               rest |-> more]
<1> DEFINE R9 == st \o more
           R8 == id \o R9
           R7 == ca \o R8
           R6 == ch \o R7
           R5 == po \o R6
           R4 == ad \o R5
           R3 == nm \o R4
           R2 == f \o R3
           bytes == t \o R2
           head == IF post_bc(expansion) THEN 2 ELSE 4
           flags == number(Taken(Rest(bytes, head), 1))
           names == Rest(bytes, head + 1)
           name == Text(names)
           addresses == Rest(names, Len(name) + 1)
           address == Text(addresses)
           numbers == Rest(addresses, Len(address) + 1)
           stamp == Rest(numbers, 7)
           stamped == post_bc(expansion) /\ specifies_build(flags)
<1>t. t \in ByteStrings
  BY DEF AreBytes
<1>f. f \in ByteStrings
  BY DEF AreBytes
<1>nm. nm \in ByteStrings
  BY DEF AreBytes
<1>ad. ad \in ByteStrings
  BY DEF AreBytes
<1>po. po \in ByteStrings
  BY DEF AreBytes
<1>ch. ch \in ByteStrings
  BY DEF AreBytes
<1>ca. ca \in ByteStrings
  BY DEF AreBytes
<1>id. id \in ByteStrings
  BY DEF AreBytes
<1>st. st \in ByteStrings
  BY DEF AreBytes
<1>more. more \in ByteStrings
  BY DEF AreBytes
<1>0. ReadRealm(bytes, expansion) =
        [seen |->
           [type |-> number(Taken(bytes, IF post_bc(expansion) THEN 1 ELSE 4)),
            flags |-> flags, name |-> name, address |-> address,
            population |-> number(Taken(numbers, 4)),
            characters |-> number(Taken(Rest(numbers, 4), 1)),
            category |-> number(Taken(Rest(numbers, 5), 1)),
            id |-> number(Taken(Rest(numbers, 6), 1)),
            version |-> IF stamped THEN Taken(stamp, 5) ELSE <<>>],
         rest |-> Rest(stamp, IF stamped THEN 5 ELSE 0)]
  BY DEF ReadRealm
<1> HIDE DEF bytes, head, flags, names, name, addresses, address, numbers, stamp, stamped
<1>9. R9 \in ByteStrings /\ Len(R9) \in Nat
  BY <1>st, <1>more, Joined
<1> HIDE DEF R9
<1>8. R8 \in ByteStrings /\ Len(R8) = 1 + Len(R9)
  <2>1. R8 \in ByteStrings /\ Len(R8) = Len(id) + Len(R9)
    BY <1>9, <1>id, Joined
  <2> QED
    BY <2>1
<1> HIDE DEF R8
<1>7. R7 \in ByteStrings /\ Len(R7) = 1 + Len(R8)
  <2>1. R7 \in ByteStrings /\ Len(R7) = Len(ca) + Len(R8)
    BY <1>8, <1>ca, Joined
  <2> QED
    BY <2>1
<1> HIDE DEF R7
<1>6. R6 \in ByteStrings /\ Len(R6) = 1 + Len(R7)
  <2>1. R6 \in ByteStrings /\ Len(R6) = Len(ch) + Len(R7)
    BY <1>7, <1>ch, Joined
  <2> QED
    BY <2>1
<1> HIDE DEF R6
<1>5. R5 \in ByteStrings
  BY <1>6, <1>po, Joined
<1> HIDE DEF R5
<1>4. R4 \in ByteStrings
  BY <1>5, <1>ad, Joined
<1> HIDE DEF R4
<1>3. R3 \in ByteStrings /\ Len(R3) \in Nat
  BY <1>4, <1>nm, Joined
<1> HIDE DEF R3
<1>2. R2 \in ByteStrings /\ Len(R2) = 1 + Len(R3)
  <2>1. R2 \in ByteStrings /\ Len(R2) = Len(f) + Len(R3)
    BY <1>3, <1>f, Joined
  <2> QED
    BY <2>1
<1> HIDE DEF R2
<1>10. Len(t) = head
  BY DEF head
<1>11. Rest(bytes, head) = R2 /\ names = Rest(R2, 1)
  <2>1. 1 \in 0 .. Len(R2)
    BY <1>2, <1>3
  <2> QED
    BY <1>2, <1>10, <1>t, <2>1, RestJoined DEF bytes, names
<1>12. flags = number(f)
  BY <1>3, <1>11, <1>f, TakenJoined DEF flags, R2
<1>13. names = R3
  BY <1>3, <1>11, <1>f, RestAfter DEF R2
<1>14. name = text /\ Len(nm) = Len(text) + 1
  BY <1>4, <1>13, TextRead DEF name, R3
<1>15. addresses = R4
  BY <1>4, <1>13, <1>14, <1>nm, RestJoined DEF addresses, R3
<1>16. address = place /\ Len(ad) = Len(place) + 1
  BY <1>5, <1>15, TextRead DEF address, R4
<1>17. numbers = R5
  BY <1>5, <1>15, <1>16, <1>ad, RestJoined DEF numbers, R4
<1>18. Taken(numbers, 4) = po
  BY <1>6, <1>17, <1>po, TakenJoined DEF R5
<1>19. /\ Rest(numbers, 4) = R6 /\ Rest(numbers, 5) = Rest(R6, 1)
       /\ Rest(numbers, 6) = Rest(R6, 2) /\ stamp = Rest(R6, 3)
  <2>1. /\ 1 \in 0 .. Len(R6) /\ 2 \in 0 .. Len(R6) /\ 3 \in 0 .. Len(R6)
        /\ 5 = Len(po) + 1 /\ 6 = Len(po) + 2 /\ 7 = Len(po) + 3
    BY <1>6, <1>7, <1>8, <1>9
  <2>2. Rest(R5, 4) = R6
    BY <1>6, <1>po, RestAfter DEF R5
  <2>9. \A n \in 0 .. Len(R6) : \A m : m = Len(po) + n => Rest(R5, m) = Rest(R6, n)
    BY <1>6, <1>po, RestBeyond DEF R5
  <2>3. Rest(R5, 5) = Rest(R6, 1)
    BY <2>1, <2>9, Zenon
  <2>4. Rest(R5, 6) = Rest(R6, 2)
    BY <2>1, <2>9, Zenon
  <2>5. Rest(R5, 7) = Rest(R6, 3)
    BY <2>1, <2>9, Zenon
  <2> QED
    BY <1>17, <2>2, <2>3, <2>4, <2>5 DEF stamp
<1>20. Rest(R6, 1) = R7 /\ Rest(R6, 2) = Rest(R7, 1) /\ Rest(R6, 3) = Rest(R7, 2)
  <2>1. /\ 1 \in 0 .. Len(R7) /\ 2 \in 0 .. Len(R7)
        /\ 2 = Len(ch) + 1 /\ 3 = Len(ch) + 2
    BY <1>7, <1>8, <1>9
  <2>2. Rest(R6, 1) = R7
    BY <1>7, <1>ch, RestAfter DEF R6
  <2>9. \A n \in 0 .. Len(R7) : \A m : m = Len(ch) + n => Rest(R6, m) = Rest(R7, n)
    BY <1>7, <1>ch, RestBeyond DEF R6
  <2>3. Rest(R6, 2) = Rest(R7, 1)
    BY <2>1, <2>9, Zenon
  <2>4. Rest(R6, 3) = Rest(R7, 2)
    BY <2>1, <2>9, Zenon
  <2> QED
    BY <2>2, <2>3, <2>4
<1>21. Rest(R7, 1) = R8 /\ Rest(R7, 2) = Rest(R8, 1)
  <2>1. 1 \in 0 .. Len(R8) /\ 2 = Len(ca) + 1
    BY <1>8, <1>9
  <2>2. Rest(R7, 1) = R8
    BY <1>8, <1>ca, RestAfter DEF R7
  <2>9. \A n \in 0 .. Len(R8) : \A m : m = Len(ca) + n => Rest(R7, m) = Rest(R8, n)
    BY <1>8, <1>ca, RestBeyond DEF R7
  <2>3. Rest(R7, 2) = Rest(R8, 1)
    BY <2>1, <2>9, Zenon
  <2> QED
    BY <2>2, <2>3
<1>22. Rest(R8, 1) = R9
  BY <1>9, <1>id, RestAfter DEF R8
<1>23. Taken(R6, 1) = ch /\ Taken(R7, 1) = ca /\ Taken(R8, 1) = id
  BY <1>7, <1>8, <1>9, <1>ch, <1>ca, <1>id, TakenJoined DEF R6, R7, R8
<1>24. stamp = R9 /\ stamped = (post_bc(expansion) /\ specifies_build(number(f)))
  BY <1>12, <1>19, <1>20, <1>21, <1>22 DEF stamped
<1>25. stamped => Taken(stamp, 5) = st
  BY <1>24, <1>st, <1>more, TakenJoined DEF R9
<1>26. Rest(stamp, IF stamped THEN 5 ELSE 0) = more
  <2>1. (IF stamped THEN 5 ELSE 0) = Len(st)
    BY <1>24
  <2>2. Rest(R9, Len(st)) = more
    BY <1>st, <1>more, RestAfter DEF R9
  <2> QED
    BY <1>24, <2>1, <2>2
<1>27. ReadRealm(bytes, expansion) =
        [seen |->
           [type |-> number(Taken(bytes, IF post_bc(expansion) THEN 1 ELSE 4)),
            flags |-> number(f), name |-> text, address |-> place,
            population |-> number(po), characters |-> number(ch),
            category |-> number(ca), id |-> number(id),
            version |-> IF stamped THEN st ELSE <<>>],
         rest |-> more]
  BY <1>0, <1>12, <1>14, <1>16, <1>18, <1>19, <1>20, <1>21, <1>23, <1>25, <1>26
<1> QED
  BY <1>2, <1>24, <1>27, Zenon DEF bytes, R2, R3, R4, R5, R6, R7, R8, R9

LEMMA NameShown ==
  ASSUME NEW realm \in Realms, NEW expansion
  PROVE  name_shown(realm, expansion) \in Seq(1 .. Base - 1)
<1> DEFINE Char == 1 .. Base - 1
           version == version_text(realm.build)
<1>1. realm.name \in Seq(Char) /\ realm.build \in Builds
  BY DEF Realms
<1>2. version \in Seq(Char)
  <2>1. /\ realm.build.major + 1 \in Char /\ realm.build.minor + 1 \in Char
        /\ realm.build.revision + 1 \in Char
    BY <1>1, BaseAssumption DEF Builds
  <2> HIDE DEF Char
  <2> QED
    BY <2>1 DEF version_text
<1> HIDE DEF Char, version
<1>3. realm.name \o version \in Seq(Char)
  BY <1>1, <1>2
<1> QED
  BY <1>1, <1>3, Zenon DEF name_shown, Char, version

LEMMA ThreeBytes ==
  ASSUME NEW a, NEW b, NEW c
  PROVE  <<a>> \o <<b>> \o <<c>> = <<a, b, c>>
<1> DEFINE S == {a, b, c}
           x == <<a>> \o <<b>>
           y == x \o <<c>>
<1>1. a \in S /\ b \in S /\ c \in S
  OBVIOUS
<1> HIDE DEF S
<1>2. <<a>> \in Seq(S) /\ <<b>> \in Seq(S) /\ <<c>> \in Seq(S)
  BY <1>1
<1>3. x \in Seq(S) /\ Len(x) = 2 /\ x[1] = a /\ x[2] = b
  BY <1>2
<1> HIDE DEF x
<1>4. y \in Seq(S) /\ Len(y) = 3 /\ y[1] = a /\ y[2] = b /\ y[3] = c
  <2> DEFINE z == <<c>>
  <2>1. z \in Seq(S) /\ Len(z) = 1 /\ z[1] = c
    BY <1>2
  <2> HIDE DEF z
  <2> DEFINE xz == x \o z
  <2>2. /\ xz \in Seq(S) /\ Len(xz) = Len(x) + Len(z)
        /\ \A i \in 1 .. Len(x) + Len(z) : xz[i] = IF i <= Len(x) THEN x[i] ELSE z[i - Len(x)]
    BY <1>3, <2>1, ConcatProperties
  <2> HIDE DEF xz
  <2>3. Len(xz) = 3 /\ xz[1] = x[1] /\ xz[2] = x[2] /\ xz[3] = z[1]
    BY <1>3, <2>1, <2>2
  <2> QED
    BY <1>3, <2>1, <2>2, <2>3 DEF z, xz
<1> HIDE DEF y
<1>5. y = <<a, b, c>>
  BY <1>1, <1>4
<1> QED
  BY <1>5 DEF x, y

(* A realm is read as it was written, whatever follows it.                 *)
LEMMA RealmRead ==
  ASSUME NEW realm \in Realms, NEW expansion, NEW more \in ByteStrings
  PROVE  /\ realm_bytes(realm, expansion) \in ByteStrings
         /\ ReadRealm(realm_bytes(realm, expansion) \o more, expansion).rest = more
         /\ (post_bc(expansion) => realm.id < Base) =>
              ReadRealm(realm_bytes(realm, expansion) \o more, expansion).seen
                = Seen(realm, expansion)
<1> DEFINE post == post_bc(expansion)
           specified == specifies_build(realm.flags)
           build == realm.build
           t == IF post THEN uint8(realm.type) \o uint8(1) ELSE uint32(realm.type)
           f == uint8(realm.flags)
           text == name_shown(realm, expansion)
           nm == string(text)
           ad == string(realm.address)
           po == uint32(realm.population)
           ch == uint8(realm.characters)
           ca == uint8(realm.category)
           id == IF post THEN uint8(realm.id) ELSE uint8(0)
           version == uint8(build.major) \o uint8(build.minor) \o uint8(build.revision)
                        \o uint16(build.build)
           st == IF post /\ specified THEN version ELSE <<>>
           R2 == f \o (nm \o (ad \o (po \o (ch \o (ca \o (id \o (st \o more)))))))
           bytes == t \o R2
<1>1. realm_bytes(realm, expansion) = t \o f \o nm \o ad \o po \o ch \o ca \o id \o st
  BY Zenon DEF realm_bytes
<1>2. /\ realm.id \in Nat /\ realm.type \in Nat /\ realm.type < Base
      /\ realm.flags \in Nat /\ realm.flags < Base
      /\ realm.population \in Nat /\ realm.population < power(Base, 4)
      /\ realm.characters \in Nat /\ realm.characters < Base
      /\ realm.category \in Nat /\ realm.category < Base
      /\ realm.address \in Seq(1 .. Base - 1) /\ build \in Builds
  <2> DEFINE all == power(Base, 4)
  <2>1. all \in Nat
    BY Places
  <2>2. realm \in [id : Nat, type : 0 .. Base - 1, flags : 0 .. Base - 1,
           name : Seq(1 .. Base - 1), address : Seq(1 .. Base - 1),
           population : 0 .. all - 1, characters : 0 .. Base - 1,
           category : 0 .. Base - 1, build : Builds]
    BY DEF Realms
  <2> HIDE DEF all
  <2>3. /\ realm.id \in Nat /\ realm.type \in 0 .. Base - 1 /\ realm.flags \in 0 .. Base - 1
        /\ realm.address \in Seq(1 .. Base - 1) /\ realm.population \in 0 .. all - 1
        /\ realm.characters \in 0 .. Base - 1 /\ realm.category \in 0 .. Base - 1
        /\ realm.build \in Builds
    BY <2>2
  <2>4. \A n \in 0 .. Base - 1 : n \in Nat /\ n < Base
    BY BaseAssumption
  <2>5. \A n \in 0 .. all - 1 : n \in Nat /\ n < all
    BY <2>1
  <2> QED
    BY <2>3, <2>4, <2>5 DEF all
<1>3. /\ build.major \in Nat /\ build.major < Base /\ build.minor \in Nat /\ build.minor < Base
      /\ build.revision \in Nat /\ build.revision < Base /\ build.build \in Nat
  <2> HIDE DEF build
  <2> DEFINE Small == 0 .. Base - 2
  <2>1. \A n \in Small : n \in Nat /\ n < Base
    BY BaseAssumption
  <2>2. build \in [major : Small, minor : Small, revision : Small, build : Nat]
    BY <1>2 DEF Builds
  <2> HIDE DEF Small
  <2> QED
    BY <2>1, <2>2
<1>4. text \in Seq(1 .. Base - 1)
  BY NameShown
<1> HIDE DEF text, build
<1>5. f \in ByteStrings /\ Len(f) = 1 /\ number(f) = realm.flags
  BY <1>2, Fields
<1>6. nm \in ByteStrings /\ ad \in ByteStrings
  BY <1>2, <1>4, TextRead
<1>7. po \in ByteStrings /\ Len(po) = 4 /\ number(po) = realm.population
  BY <1>2, Fields
<1>8. ch \in ByteStrings /\ Len(ch) = 1 /\ number(ch) = realm.characters
  BY <1>2, Fields
<1>9. ca \in ByteStrings /\ Len(ca) = 1 /\ number(ca) = realm.category
  BY <1>2, Fields
<1>10. /\ id \in ByteStrings /\ Len(id) = 1
       /\ (post => realm.id < Base) => number(id) = IF post THEN realm.id ELSE 0
  <2>1. /\ uint8(realm.id) \in ByteStrings /\ Len(uint8(realm.id)) = 1
        /\ realm.id < Base => number(uint8(realm.id)) = realm.id
    BY <1>2, Fields
  <2>2. uint8(0) \in ByteStrings /\ Len(uint8(0)) = 1 /\ number(uint8(0)) = 0
    <3>1. 0 \in Nat /\ 0 < Base
      BY BaseAssumption
    <3> QED
      BY <3>1, Fields
  <2> QED
    BY <2>1, <2>2
<1>11. /\ version \in ByteStrings /\ Len(version) = 5
       /\ version = <<build.major, build.minor, build.revision>> \o uint16(build.build)
  <2> DEFINE v1 == uint8(build.major)
             v2 == uint8(build.minor)
             v3 == uint8(build.revision)
             v4 == uint16(build.build)
             v12 == v1 \o v2
             v123 == v12 \o v3
  <2>1. v1 \in ByteStrings /\ Len(v1) = 1 /\ v1 = <<build.major>>
    BY <1>3, Fields
  <2>2. v2 \in ByteStrings /\ Len(v2) = 1 /\ v2 = <<build.minor>>
    BY <1>3, Fields
  <2>3. v3 \in ByteStrings /\ Len(v3) = 1 /\ v3 = <<build.revision>>
    BY <1>3, Fields
  <2>4. v4 \in ByteStrings /\ Len(v4) = 2
    BY <1>3, Fields
  <2> HIDE DEF v1, v2, v3, v4
  <2>5. v12 \in ByteStrings /\ Len(v12) = 2
    BY <2>1, <2>2, Joined
  <2>6. v123 = <<build.major, build.minor, build.revision>>
    BY <2>1, <2>2, <2>3, ThreeBytes, Zenon
  <2> HIDE DEF v12
  <2>7. v123 \in ByteStrings /\ Len(v123) = 3
    <3>1. v123 \in ByteStrings /\ Len(v123) = Len(v12) + Len(v3)
      BY <2>3, <2>5, Joined
    <3> QED
      BY <2>3, <2>5, <3>1
  <2> HIDE DEF v123
  <2>8. v123 \o v4 \in ByteStrings /\ Len(v123 \o v4) = 5
    <3>1. v123 \o v4 \in ByteStrings /\ Len(v123 \o v4) = Len(v123) + Len(v4)
      BY <2>4, <2>7, Joined
    <3> QED
      BY <2>4, <2>7, <3>1
  <2> QED
    BY <2>6, <2>8 DEF v1, v2, v3, v4, v12, v123
<1>12. /\ st \in ByteStrings /\ Len(st) = IF post /\ specified THEN 5 ELSE 0
  <2>1. <<>> \in ByteStrings /\ Len(<<>>) = 0
    BY DEF ByteStrings
  <2> HIDE DEF version
  <2> QED
    BY <1>11, <2>1
<1>13. t \in ByteStrings /\ Len(t) = IF post THEN 2 ELSE 4
  <2> DEFINE x == uint8(realm.type)
             y == uint8(1)
             z == uint32(realm.type)
  <2>1. x \in ByteStrings /\ Len(x) = 1 /\ z \in ByteStrings /\ Len(z) = 4
    BY <1>2, Fields
  <2>2. y \in ByteStrings /\ Len(y) = 1
    BY Fields
  <2> HIDE DEF x, y, z
  <2>3. x \o y \in ByteStrings /\ Len(x \o y) = Len(x) + Len(y)
    BY <2>1, <2>2, Joined
  <2>4. t = IF post THEN x \o y ELSE z
    BY Zenon DEF x, y, z
  <2> HIDE DEF t
  <2>5. CASE post
    <3>1. t = x \o y
      BY <2>4, <2>5
    <3> QED
      BY <2>1, <2>2, <2>3, <2>5, <3>1
  <2>6. CASE ~ post
    <3>1. t = z
      BY <2>4, <2>6
    <3> QED
      BY <2>1, <2>6, <3>1
  <2> QED
    BY <2>5, <2>6
<1> HIDE DEF f, nm, ad, po, ch, ca, id, version, st, t
<1>14. AreBytes(t, f, nm, ad, po, ch, ca, id, st, more)
  BY <1>5, <1>6, <1>7, <1>8, <1>9, <1>10, <1>12, <1>13 DEF AreBytes
<1>15. /\ realm_bytes(realm, expansion) \in ByteStrings
       /\ realm_bytes(realm, expansion) \o more = bytes
  <2>1. /\ t \o f \o nm \o ad \o po \o ch \o ca \o id \o st \in ByteStrings
        /\ (t \o f \o nm \o ad \o po \o ch \o ca \o id \o st) \o more = bytes
    <3>1. Appended(t, f, nm, ad, po, ch, ca, id, st, more)
      BY <1>14, NineFields
    <3> QED
      BY <3>1, Zenon DEF Appended
  <2> QED
    BY <1>1, <2>1, Zenon
<1>16. /\ nm = string(text) /\ ad = string(realm.address)
       /\ Len(t) = (IF post_bc(expansion) THEN 2 ELSE 4)
       /\ Len(st) = IF post_bc(expansion) /\ specifies_build(number(f)) THEN 5 ELSE 0
  BY <1>5, <1>12, <1>13 DEF nm, ad
<1>17. /\ R2 \in ByteStrings
       /\ ReadRealm(bytes, expansion) =
            [seen |->
               [type |-> number(Taken(bytes, IF post_bc(expansion) THEN 1 ELSE 4)),
                flags |-> number(f), name |-> text, address |-> realm.address,
                population |-> number(po), characters |-> number(ch),
                category |-> number(ca), id |-> number(id),
                version |-> IF post_bc(expansion) /\ specifies_build(number(f))
                            THEN st ELSE <<>>],
             rest |-> more]
  BY <1>2, <1>4, <1>5, <1>7, <1>8, <1>9, <1>10, <1>14, <1>16, ReadFields
<1> HIDE DEF R2
<1>18. number(Taken(bytes, IF post_bc(expansion) THEN 1 ELSE 4)) = realm.type
  <2>1. CASE post
    <3> DEFINE one == uint8(1)
               first == uint8(realm.type)
    <3>1. one \in ByteStrings
      BY Fields
    <3>2. first \in ByteStrings /\ Len(first) = 1 /\ number(first) = realm.type
      BY <1>2, Fields
    <3>3. bytes = (first \o one) \o R2
      BY <2>1 DEF t
    <3> HIDE DEF one, first, bytes
    <3>4. one \o R2 \in ByteStrings /\ bytes = first \o (one \o R2)
      BY <1>17, <3>1, <3>2, <3>3, Joined, Regroup
    <3>5. Taken(first \o (one \o R2), Len(first)) = first
      BY <3>2, <3>4, TakenJoined
    <3> QED
      BY <2>1, <3>2, <3>4, <3>5
  <2>2. CASE ~ post
    <3> DEFINE all == uint32(realm.type)
    <3>1. all \in ByteStrings /\ Len(all) = 4 /\ number(all) = realm.type
      BY <1>2, Fields
    <3>2. bytes = all \o R2
      BY <2>2 DEF t
    <3> HIDE DEF all, bytes
    <3>3. Taken(all \o R2, Len(all)) = all
      BY <1>17, <3>1, TakenJoined
    <3> QED
      BY <2>2, <3>1, <3>2, <3>3
  <2> QED
    BY <2>1, <2>2
<1> HIDE DEF bytes
<1>19. ASSUME post => realm.id < Base
       PROVE  ReadRealm(bytes, expansion).seen = Seen(realm, expansion)
  <2>1. ReadRealm(bytes, expansion).seen =
           [type |-> realm.type, flags |-> realm.flags, name |-> text,
            address |-> realm.address, population |-> realm.population,
            characters |-> realm.characters, category |-> realm.category,
            id |-> IF post THEN realm.id ELSE 0,
            version |-> IF post /\ specified THEN st ELSE <<>>]
    BY <1>5, <1>7, <1>8, <1>9, <1>10, <1>17, <1>18, <1>19
  <2>2. (IF post /\ specified THEN st ELSE <<>>)
           = IF specified /\ post
             THEN <<build.major, build.minor, build.revision>> \o uint16(build.build) ELSE <<>>
    BY <1>11 DEF st
  <2>3. text = IF specified /\ expansion = "pre_bc"
               THEN realm.name \o version_text(build) ELSE realm.name
    BY DEF text, name_shown, build
  <2> QED
    BY <2>1, <2>2, <2>3, Zenon DEF Seen, build
<1>20. ReadRealm(bytes, expansion).rest = more
  BY <1>17
<1> QED
  BY <1>15, <1>19, <1>20

(* Whatever the bytes are, they can be read on.                            *)
LEMMA RealmLeaves ==
  ASSUME NEW bytes \in ByteStrings, NEW expansion
  PROVE  LET realm == ReadRealm(bytes, expansion)
         IN realm.rest \in ByteStrings /\ realm.seen.id \in Nat /\ realm.seen.id < Base
<1> DEFINE head == IF post_bc(expansion) THEN 2 ELSE 4
           flags == number(Taken(Rest(bytes, head), 1))
           names == Rest(bytes, head + 1)
           name == Text(names)
           addresses == Rest(names, Len(name) + 1)
           address == Text(addresses)
           numbers == Rest(addresses, Len(address) + 1)
           stamp == Rest(numbers, 7)
           stamped == post_bc(expansion) /\ specifies_build(flags)
           last == IF stamped THEN 5 ELSE 0
           byte == Taken(Rest(numbers, 6), 1)
<1>1. /\ ReadRealm(bytes, expansion).rest = Rest(stamp, last)
      /\ ReadRealm(bytes, expansion).seen.id = number(byte)
  BY DEF ReadRealm
<1>2. head + 1 \in Nat
  OBVIOUS
<1> HIDE DEF head
<1>3. names \in ByteStrings
  BY <1>2, RestOf
<1> HIDE DEF names
<1>4. Len(name) + 1 \in Nat
  BY <1>3, TextOf
<1> HIDE DEF name
<1>5. addresses \in ByteStrings
  BY <1>3, <1>4, RestOf
<1> HIDE DEF addresses
<1>6. Len(address) + 1 \in Nat
  BY <1>5, TextOf
<1> HIDE DEF address
<1>7. numbers \in ByteStrings
  BY <1>5, <1>6, RestOf
<1> HIDE DEF numbers
<1>8. stamp \in ByteStrings /\ Rest(numbers, 6) \in ByteStrings
  BY <1>7, RestOf
<1> HIDE DEF stamp
<1>9. last \in Nat
  OBVIOUS
<1> HIDE DEF last
<1>10. Rest(stamp, last) \in ByteStrings
  BY <1>8, <1>9, RestOf
<1>11. byte \in ByteStrings /\ Len(byte) = 1
  BY <1>8, TakenOf
<1> HIDE DEF byte
<1>12. number(byte) \in Nat /\ number(byte) < power(Base, 1)
  BY <1>11, NumberBound
<1>13. power(Base, 1) = Base
  <2>1. 0 \in Nat /\ 0 + 1 = 1
    OBVIOUS
  <2>2. power(Base, 0) = 1 /\ power(Base, 0 + 1) = Base * power(Base, 0)
    BY <2>1, Places
  <2> QED
    BY <2>1, <2>2, BaseAssumption
<1> QED
  BY <1>1, <1>10, <1>12, <1>13

(* The client's loop.                                                      *)
AllSeen(expansion) == {ReadRealm(bytes, expansion).seen : bytes \in ByteStrings}
States(expansion) == [realms : Seq(AllSeen(expansion)), rest : ByteStrings]

ReadFrom(first, count, expansion) ==
  CHOOSE r : r = [i \in 0 .. count |->
                    IF i = 0 THEN first ELSE ReadNext(r[i - 1], expansion)]

LEMMA ReadNextState ==
  ASSUME NEW expansion, NEW read \in States(expansion)
  PROVE  /\ ReadNext(read, expansion) \in States(expansion)
         /\ ReadNext(read, expansion).realms
              = Append(read.realms, ReadRealm(read.rest, expansion).seen)
         /\ ReadNext(read, expansion).rest = ReadRealm(read.rest, expansion).rest
         /\ Len(ReadNext(read, expansion).realms) = Len(read.realms) + 1
<1> DEFINE realm == ReadRealm(read.rest, expansion)
           seen == realm.seen
           rest == realm.rest
           All == AllSeen(expansion)
<1>1. read.realms \in Seq(All) /\ read.rest \in ByteStrings
  BY DEF States
<1>2. seen \in All
  BY <1>1 DEF AllSeen
<1>3. rest \in ByteStrings
  BY <1>1, RealmLeaves
<1>4. ReadNext(read, expansion) = [realms |-> Append(read.realms, seen), rest |-> rest]
  BY Zenon DEF ReadNext
<1> HIDE DEF seen, rest, All
<1>5. Append(read.realms, seen) \in Seq(All) /\ Len(Append(read.realms, seen)) = Len(read.realms) + 1
  BY <1>1, <1>2
<1> QED
  BY <1>3, <1>4, <1>5 DEF States, seen, rest, All

LEMMA ReadFromSteps ==
  ASSUME NEW expansion, NEW first \in States(expansion), NEW count \in Nat, Len(first.realms) = 0
  PROVE  LET f == ReadFrom(first, count, expansion)
         IN /\ f[0] = first
            /\ \A i \in 1 .. count : f[i] = ReadNext(f[i - 1], expansion)
            /\ \A i \in 0 .. count : f[i] \in States(expansion) /\ Len(f[i].realms) = i
<1> DEFINE S == States(expansion)
           next == [x \in Nat \X S |-> ReadNext(x[2], expansion)]
           f == ReadFrom(first, count, expansion)
<1>1. next \in Steps(S)
  <2>1. ASSUME NEW x \in Nat \X S PROVE ReadNext(x[2], expansion) \in S
    BY <2>1, ReadNextState
  <2> HIDE DEF S
  <2> QED
    BY <2>1 DEF Steps
<1>2. PICK h : UpTo(h, count, S, first, next)
  <2>1. first \in S
    OBVIOUS
  <2> HIDE DEF S, next
  <2> QED
    BY <1>1, <2>1, UpToExists
<1>3. /\ h \in [0 .. count -> S] /\ h[0] = first
      /\ \A k \in 1 .. count : h[k] = next[<<k - 1, h[k - 1]>>]
  BY <1>2 DEF UpTo
<1>4. ASSUME NEW k \in 1 .. count PROVE h[k] = ReadNext(h[k - 1], expansion)
  <2>1. k - 1 \in 0 .. count /\ k - 1 \in Nat
    OBVIOUS
  <2>2. <<k - 1, h[k - 1]>> \in Nat \X S
    BY <1>3, <2>1
  <2> QED
    BY <1>3, <2>2
<1> HIDE DEF S, next
<1>5. h = [i \in 0 .. count |-> IF i = 0 THEN first ELSE ReadNext(h[i - 1], expansion)]
  <2>1. ASSUME NEW i \in 0 .. count
        PROVE  h[i] = IF i = 0 THEN first ELSE ReadNext(h[i - 1], expansion)
    <3>1. i = 0 \/ i \in 1 .. count
      OBVIOUS
    <3> QED
      BY <1>3, <1>4, <3>1
  <2>2. h = [i \in 0 .. count |-> h[i]]
    BY <1>3
  <2> QED
    BY <2>1, <2>2
<1>6. f = [i \in 0 .. count |-> IF i = 0 THEN first ELSE ReadNext(f[i - 1], expansion)]
  BY <1>5 DEF ReadFrom
<1> HIDE DEF f
<1>7. f[0] = first
  BY <1>6
<1>8. ASSUME NEW i \in 1 .. count PROVE f[i] = ReadNext(f[i - 1], expansion)
  <2>1. i \in 0 .. count /\ i # 0
    OBVIOUS
  <2> QED
    BY <1>6, <2>1, Zenon
<1> DEFINE Good == {i \in Nat : i <= count => f[i] \in S /\ Len(f[i].realms) = i}
<1>9. 0 \in Good
  BY <1>7 DEF S
<1>10. ASSUME NEW i \in Nat, i \in Good PROVE i + 1 \in Good
  <2> SUFFICES ASSUME i + 1 <= count PROVE f[i + 1] \in S /\ Len(f[i + 1].realms) = i + 1
    OBVIOUS
  <2>1. i + 1 \in 1 .. count /\ (i + 1) - 1 = i
    OBVIOUS
  <2>2. f[i + 1] = ReadNext(f[i], expansion)
    BY <1>8, <2>1
  <2>3. f[i] \in S /\ Len(f[i].realms) = i
    BY <1>10
  <2>4. ReadNext(f[i], expansion) \in S
        /\ Len(ReadNext(f[i], expansion).realms) = Len(f[i].realms) + 1
    BY <2>3, ReadNextState DEF S
  <2> QED
    BY <2>2, <2>3, <2>4
<1> HIDE DEF Good
<1>11. \A i \in Nat : i \in Good
  BY <1>9, <1>10, Induction
<1>12. \A i \in 0 .. count : f[i] \in S /\ Len(f[i].realms) = i
  BY <1>11 DEF Good
<1> QED
  BY <1>7, <1>8, <1>12 DEF S, f

(* The server's loop: the bytes of the first realms, one realm more at a   *)
(* time.                                                                   *)
Loop(h, seqs) ==
  /\ h \in [0 .. Len(seqs) -> ByteStrings]
  /\ h[0] = <<>>
  /\ \A k \in 1 .. Len(seqs) : h[k] = h[k - 1] \o seqs[k]

Flat(seqs) ==
  CHOOSE q : q = [i \in 1 .. Len(seqs) |-> IF i = 1 THEN seqs[i] ELSE q[i - 1] \o seqs[i]]

LEMMA NoBytes ==
  /\ <<>> \in ByteStrings /\ Len(<<>>) = 0
  /\ \A b \in ByteStrings : <<>> \o b = b
<1>1. <<>> \in ByteStrings /\ Len(<<>>) = 0
  BY DEF ByteStrings
<1>2. ASSUME NEW b \in ByteStrings PROVE <<>> \o b = b
  BY ConcatEmptySeq DEF ByteStrings
<1> QED
  BY <1>1, <1>2

LEMMA ListWritten ==
  ASSUME NEW seqs \in Seq(ByteStrings)
  PROVE  \E h : Loop(h, seqs) /\ FlattenSeq(seqs) = h[Len(seqs)]
<1> DEFINE n == Len(seqs)
           empty == <<>>
           next == [x \in Nat \X ByteStrings |->
                      IF x[1] + 1 \in 1 .. n THEN x[2] \o seqs[x[1] + 1] ELSE x[2]]
<1>1. n \in Nat /\ empty \in ByteStrings /\ \A i \in 1 .. n : seqs[i] \in ByteStrings
  BY NoBytes
<1>2. next \in Steps(ByteStrings)
  <2>1. ASSUME NEW x \in Nat \X ByteStrings
        PROVE  (IF x[1] + 1 \in 1 .. n THEN x[2] \o seqs[x[1] + 1] ELSE x[2]) \in ByteStrings
    <3>1. x[2] \in ByteStrings
      OBVIOUS
    <3>2. CASE x[1] + 1 \in 1 .. n
      <4> DEFINE a == x[2]
                 b == seqs[x[1] + 1]
      <4>1. a \in ByteStrings /\ b \in ByteStrings
        BY <1>1, <3>1, <3>2
      <4> HIDE DEF a, b
      <4>2. a \o b \in ByteStrings
        BY <4>1, Joined
      <4> QED
        BY <3>2, <4>2 DEF a, b
    <3> QED
      BY <3>1, <3>2
  <2> HIDE DEF n
  <2> QED
    BY <2>1 DEF Steps
<1>3. PICK h : UpTo(h, n, ByteStrings, empty, next)
  <2> HIDE DEF n, empty, next
  <2> QED
    BY <1>1, <1>2, UpToExists
<1>4. /\ h \in [0 .. n -> ByteStrings] /\ h[0] = empty
      /\ \A k \in 1 .. n : h[k] = next[<<k - 1, h[k - 1]>>]
  BY <1>3 DEF UpTo
<1>5. ASSUME NEW k \in 1 .. n PROVE h[k] = h[k - 1] \o seqs[k]
  <2>1. k - 1 \in Nat /\ k - 1 \in 0 .. n /\ (k - 1) + 1 = k
    BY <1>1
  <2>2. <<k - 1, h[k - 1]>> \in Nat \X ByteStrings
    BY <1>4, <2>1
  <2>3. next[<<k - 1, h[k - 1]>>] = h[k - 1] \o seqs[k]
    <3> HIDE DEF n
    <3> QED
      BY <2>1, <2>2
  <2> QED
    BY <1>4, <2>3
<1> HIDE DEF next
<1>6. Loop(h, seqs)
  BY <1>4, <1>5 DEF Loop
<1>7. CASE n = 0
  <2>1. FlattenSeq(seqs) = seqs /\ seqs = <<>>
    BY <1>7 DEF FlattenSeq
  <2> QED
    BY <1>4, <1>6, <1>7, <2>1
<1>8. CASE n # 0
  <2> DEFINE p == Flat(seqs)
             q == [i \in 1 .. n |-> h[i]]
  <2>1. FlattenSeq(seqs) = p[n]
    BY <1>8, Zenon DEF FlattenSeq, Flat
  <2>2. 1 \in 1 .. n /\ n \in 1 .. n
    BY <1>1, <1>8
  <2>3. h[1] = seqs[1]
    <3>1. h[1] = h[0] \o seqs[1]
      <4>1. 1 - 1 = 0
        OBVIOUS
      <4> QED
        BY <1>5, <2>2, <4>1
    <3>2. seqs[1] \in ByteStrings
      BY <1>1, <2>2
    <3> QED
      BY <1>4, <3>1, <3>2, NoBytes
  <2> HIDE DEF n, empty
  <2>4. ASSUME NEW i \in 1 .. n
        PROVE  q[i] = IF i = 1 THEN seqs[i] ELSE q[i - 1] \o seqs[i]
    <3>1. CASE i = 1
      BY <2>3, <3>1
    <3>2. CASE i # 1
      <4>1. i - 1 \in 1 .. n
        BY <1>1, <3>2
      <4>2. q[i - 1] = h[i - 1] /\ q[i] = h[i]
        BY <4>1
      <4> QED
        BY <1>5, <3>2, <4>2
    <3> QED
      BY <3>1, <3>2
  <2>5. q = [i \in 1 .. n |-> IF i = 1 THEN seqs[i] ELSE q[i - 1] \o seqs[i]]
    <3>1. q = [i \in 1 .. n |-> q[i]]
      OBVIOUS
    <3> HIDE DEF q
    <3> QED
      BY <2>4, <3>1
  <2>6. p = [i \in 1 .. n |-> IF i = 1 THEN seqs[i] ELSE p[i - 1] \o seqs[i]]
    <3> HIDE DEF q
    <3> QED
      BY <2>5 DEF Flat, n
  <2> HIDE DEF p
  <2>7. /\ p[1] = seqs[1]
        /\ \A i \in 1 .. n : i # 1 => p[i] = p[i - 1] \o seqs[i]
    BY <2>2, <2>6, Zenon
  <2> DEFINE Good == {i \in Nat : i + 1 <= n => p[i + 1] = h[i + 1]}
  <2>8. 0 \in Good
    <3>1. 0 + 1 = 1
      OBVIOUS
    <3> QED
      BY <2>3, <2>7, <3>1
  <2>9. ASSUME NEW i \in Nat, i \in Good PROVE i + 1 \in Good
    <3> SUFFICES ASSUME (i + 1) + 1 <= n PROVE p[(i + 1) + 1] = h[(i + 1) + 1]
      OBVIOUS
    <3>1. /\ (i + 1) + 1 \in 1 .. n /\ (i + 1) + 1 # 1 /\ ((i + 1) + 1) - 1 = i + 1
          /\ i + 1 <= n
      BY <1>1
    <3>2. p[i + 1] = h[i + 1]
      BY <2>9, <3>1
    <3> QED
      BY <1>5, <2>7, <3>1, <3>2
  <2> HIDE DEF Good
  <2>10. \A i \in Nat : i \in Good
    BY <2>8, <2>9, Induction
  <2>11. p[n] = h[n]
    <3>1. n - 1 \in Nat /\ (n - 1) + 1 = n
      BY <1>1, <1>8
    <3> QED
      BY <2>10, <3>1 DEF Good
  <2> QED
    BY <1>6, <2>1, <2>11 DEF n
<1> QED
  BY <1>7, <1>8

(* What has been written begins with what had been written before.         *)
LEMMA Begins ==
  \A seqs \in Seq(ByteStrings) : \A tail \in ByteStrings : \A h :
    Loop(h, seqs) =>
      \A i \in 0 .. Len(seqs) : \E s \in ByteStrings : h[Len(seqs)] \o tail = h[i] \o s
<1> SUFFICES ASSUME NEW seqs \in Seq(ByteStrings), NEW tail \in ByteStrings,
                    NEW h, Loop(h, seqs)
             PROVE  \A i \in 0 .. Len(seqs) :
                      \E s \in ByteStrings : h[Len(seqs)] \o tail = h[i] \o s
  BY Zenon
<1> DEFINE n == Len(seqs)
           all == h[n] \o tail
           Good == {k \in Nat : k <= n => \E s \in ByteStrings : all = h[n - k] \o s}
<1>1. /\ n \in Nat /\ \A i \in 0 .. n : h[i] \in ByteStrings
      /\ \A k \in 1 .. n : h[k] = h[k - 1] \o seqs[k] /\ seqs[k] \in ByteStrings
  BY DEF Loop
<1>2. 0 \in Good
  <2>1. n - 0 = n
    BY <1>1
  <2> QED
    BY <2>1
<1> HIDE DEF n, all
<1>3. ASSUME NEW k \in Nat, k \in Good PROVE k + 1 \in Good
  <2> SUFFICES ASSUME k + 1 <= n PROVE \E s \in ByteStrings : all = h[n - (k + 1)] \o s
    OBVIOUS
  <2>1. PICK s \in ByteStrings : all = h[n - k] \o s
    BY <1>1, <1>3
  <2> DEFINE m == n - k
             before == h[m - 1]
             bytes == seqs[m]
  <2>2. m \in 1 .. n /\ m - 1 \in 0 .. n /\ n - (k + 1) = m - 1
    BY <1>1
  <2>3. before \in ByteStrings /\ bytes \in ByteStrings /\ h[m] = before \o bytes
    BY <1>1, <2>2
  <2>4. all = h[m] \o s
    BY <2>1
  <2> HIDE DEF before, bytes, m
  <2>5. bytes \o s \in ByteStrings /\ all = before \o (bytes \o s)
    <3>1. bytes \o s \in ByteStrings
      BY <2>3, Joined
    <3>2. (before \o bytes) \o s = before \o (bytes \o s)
      BY <2>3, Regroup
    <3> QED
      BY <2>3, <2>4, <3>1, <3>2
  <2> QED
    BY <2>2, <2>5 DEF before
<1> HIDE DEF Good
<1>4. \A k \in Nat : k \in Good
  BY <1>2, <1>3, Induction
<1>5. ASSUME NEW i \in 0 .. n PROVE \E s \in ByteStrings : all = h[i] \o s
  <2>1. n - i \in Nat /\ n - i <= n /\ n - (n - i) = i
    BY <1>1
  <2>2. n - i \in Good
    BY <1>4, <2>1
  <2> QED
    BY <2>1, <2>2 DEF Good
<1> QED
  BY <1>5 DEF n, all

(* The client's loop reads what the server's loop wrote.                   *)
LEMMA ListRead ==
  ASSUME NEW expansion, NEW realms \in Seq(Realms), NEW tail \in ByteStrings,
         post_bc(expansion) => \A i \in DOMAIN realms : realms[i].id < Base
  PROVE  LET bytes == FlattenSeq([i \in DOMAIN realms |-> realm_bytes(realms[i], expansion)])
                        \o tail
             f == ReadFrom([realms |-> <<>>, rest |-> bytes], Len(realms), expansion)
         IN /\ f[Len(realms)].realms = [i \in DOMAIN realms |-> Seen(realms[i], expansion)]
            /\ f[Len(realms)].rest = tail
<1> DEFINE n == Len(realms)
           seqs == [i \in DOMAIN realms |-> realm_bytes(realms[i], expansion)]
           bytes == FlattenSeq(seqs) \o tail
           first == [realms |-> <<>>, rest |-> bytes]
           f == ReadFrom(first, n, expansion)
<1>1. n \in Nat /\ DOMAIN realms = 1 .. n /\ \A i \in 1 .. n : realms[i] \in Realms
  OBVIOUS
<1>2. \A i \in 1 .. n : realm_bytes(realms[i], expansion) \in ByteStrings
  BY <1>1, NoBytes, RealmRead
<1>3. /\ seqs \in Seq(ByteStrings) /\ Len(seqs) = n
      /\ \A i \in 1 .. n : seqs[i] = realm_bytes(realms[i], expansion)
  <2>1. seqs \in [1 .. n -> ByteStrings]
    BY <1>1, <1>2
  <2> QED
    BY <1>1, <2>1
<1> HIDE DEF n, seqs
<1>4. PICK h : Loop(h, seqs) /\ FlattenSeq(seqs) = h[n]
  BY <1>3, ListWritten
<1>5. /\ \A i \in 0 .. n : h[i] \in ByteStrings
      /\ h[0] = <<>> /\ \A k \in 1 .. n : h[k] = h[k - 1] \o seqs[k]
      /\ \A k \in 1 .. n : seqs[k] \in ByteStrings
      /\ n \in 0 .. n
  BY <1>1, <1>2, <1>3, <1>4 DEF Loop
<1>6. bytes = h[n] \o tail /\ bytes \in ByteStrings
  BY <1>4, <1>5, Joined
<1>7. \A i \in 0 .. n : \E s \in ByteStrings : bytes = h[i] \o s
  <2>1. seqs \in Seq(ByteStrings) /\ Loop(h, seqs)
    BY <1>3, <1>4
  <2>2. \A t \in ByteStrings : \A l :
          Loop(l, seqs) =>
            \A i \in 0 .. Len(seqs) : \E s \in ByteStrings : l[Len(seqs)] \o t = l[i] \o s
    BY ONLY <2>1, Begins, Zenon
  <2>3. \A l : Loop(l, seqs) =>
          \A i \in 0 .. Len(seqs) : \E s \in ByteStrings : l[Len(seqs)] \o tail = l[i] \o s
    BY <2>2, Zenon
  <2>4. \A i \in 0 .. Len(seqs) : \E s \in ByteStrings : h[Len(seqs)] \o tail = h[i] \o s
    BY <2>1, <2>3, Zenon
  <2>5. Len(seqs) = n /\ bytes = h[n] \o tail
    BY <1>3, <1>6
  <2> HIDE DEF bytes
  <2> QED
    BY <2>4, <2>5, Zenon
<1> HIDE DEF bytes
<1>8. first \in States(expansion) /\ Len(first.realms) = 0 /\ first.rest = bytes
  BY <1>6 DEF States
<1> HIDE DEF first
<1>9. /\ f[0] = first
      /\ \A i \in 1 .. n : f[i] = ReadNext(f[i - 1], expansion)
      /\ \A i \in 0 .. n : f[i] \in States(expansion) /\ Len(f[i].realms) = i
  BY <1>1, <1>8, ReadFromSteps
<1> HIDE DEF f
<1> DEFINE Good == {k \in Nat : k <= n =>
                      /\ f[k].rest = Rest(bytes, Len(h[k]))
                      /\ \A i \in 1 .. k : f[k].realms[i] = Seen(realms[i], expansion)}
<1>10. 0 \in Good
  <2>1. Rest(bytes, Len(h[0])) = bytes
    <3> DEFINE empty == h[0]
    <3>1. empty \in ByteStrings /\ bytes = empty \o bytes
      BY <1>5, <1>6, NoBytes
    <3> HIDE DEF empty
    <3>2. Rest(empty \o bytes, Len(empty)) = bytes
      BY <1>6, <3>1, RestAfter
    <3> QED
      BY <3>1, <3>2, Zenon DEF empty
  <2>2. f[0].rest = Rest(bytes, Len(h[0]))
    BY <1>8, <1>9, <2>1
  <2> QED
    BY <2>2
<1>11. ASSUME NEW k \in Nat, k \in Good PROVE k + 1 \in Good
  <2> SUFFICES ASSUME k + 1 <= n
               PROVE  /\ f[k + 1].rest = Rest(bytes, Len(h[k + 1]))
                      /\ \A i \in 1 .. (k + 1) :
                           f[k + 1].realms[i] = Seen(realms[i], expansion)
    OBVIOUS
  <2> DEFINE m == k + 1
             realm == realms[m]
             one == realm_bytes(realm, expansion)
             was == h[k]
             now == h[m]
  <2>1. m \in 1 .. n /\ m \in 0 .. n /\ k \in 0 .. n /\ m - 1 = k /\ k <= n
    BY <1>1
  <2>2. /\ f[k].rest = Rest(bytes, Len(was))
        /\ \A i \in 1 .. k : f[k].realms[i] = Seen(realms[i], expansion)
    BY <1>11, <2>1
  <2>3. realm \in Realms /\ (post_bc(expansion) => realm.id < Base)
    BY <1>1, <2>1
  <2>4. one \in ByteStrings /\ seqs[m] = one
    BY <1>2, <1>3, <2>1
  <2>5. was \in ByteStrings /\ now \in ByteStrings /\ now = was \o one
    BY <1>5, <2>1, <2>4
  <2>6. PICK s \in ByteStrings : bytes = now \o s
    BY <1>7, <2>1
  <2>7. f[m] = ReadNext(f[k], expansion) /\ f[k] \in States(expansion) /\ Len(f[k].realms) = k
    BY <1>9, <2>1
  <2>8. /\ ReadRealm(one \o s, expansion).rest = s
        /\ ReadRealm(one \o s, expansion).seen = Seen(realm, expansion)
    <3> HIDE DEF realm
    <3> QED
      BY <2>3, RealmRead
  <2> HIDE DEF realm, one, was, now, m
  <2>9. one \o s \in ByteStrings /\ bytes = was \o (one \o s)
    <3>1. one \o s \in ByteStrings
      BY <2>4, Joined
    <3>2. (was \o one) \o s = was \o (one \o s)
      BY <2>4, <2>5, Regroup
    <3> QED
      BY <2>5, <2>6, <3>1, <3>2
  <2>10. Rest(bytes, Len(was)) = one \o s
    BY <2>5, <2>9, RestAfter
  <2>11. Rest(bytes, Len(now)) = s
    BY <2>5, <2>6, RestAfter
  <2>12. /\ f[m].realms = Append(f[k].realms, Seen(realm, expansion))
         /\ f[m].rest = s
    <3> DEFINE read == f[k]
    <3>1. /\ read \in States(expansion) /\ f[m] = ReadNext(read, expansion)
          /\ read.rest = one \o s
      BY <2>2, <2>7, <2>10
    <3> HIDE DEF read
    <3>2. /\ ReadNext(read, expansion).realms
               = Append(read.realms, ReadRealm(read.rest, expansion).seen)
          /\ ReadNext(read, expansion).rest = ReadRealm(read.rest, expansion).rest
      BY <3>1, ReadNextState, Zenon
    <3> QED
      BY <2>8, <3>1, <3>2, Zenon DEF read
  <2>13. ASSUME NEW i \in 1 .. m PROVE f[m].realms[i] = Seen(realms[i], expansion)
    <3> DEFINE All == AllSeen(expansion)
               read == f[k].realms
               seen == Seen(realm, expansion)
    <3>1. read \in Seq(All) /\ Len(read) = k
      BY <2>7 DEF States
    <3>2. m = k + 1 /\ realm = realms[m]
      BY DEF m, realm
    <3> HIDE DEF read, seen, All
    <3>3. CASE i = m
      <4>1. Append(read, seen)[k + 1] = seen
        BY <3>1
      <4> QED
        BY <2>12, <3>2, <3>3, <4>1 DEF read, seen
    <3>4. CASE i # m
      <4>1. i \in 1 .. k
        BY <3>2, <3>4
      <4>2. Append(read, seen)[i] = read[i]
        BY <3>1, <4>1
      <4> QED
        BY <2>2, <2>12, <4>1, <4>2 DEF read, seen
    <3> QED
      BY <3>3, <3>4
  <2>14. f[m].rest = Rest(bytes, Len(now))
    BY <2>11, <2>12
  <2> QED
    BY <2>13, <2>14 DEF m, now
<1> HIDE DEF Good
<1>12. n \in Good
  BY <1>1, <1>10, <1>11, Induction
<1>13. /\ f[n].rest = Rest(bytes, Len(h[n]))
       /\ \A i \in 1 .. n : f[n].realms[i] = Seen(realms[i], expansion)
  BY <1>1, <1>12 DEF Good
<1>14. f[n].rest = tail
  <2> DEFINE all == h[n]
  <2>1. all \in ByteStrings /\ bytes = all \o tail
    BY <1>5, <1>6
  <2> HIDE DEF all
  <2>2. Rest(bytes, Len(all)) = tail
    BY <2>1, RestAfter
  <2> QED
    BY <1>13, <2>2 DEF all
<1>15. f[n].realms = [i \in DOMAIN realms |-> Seen(realms[i], expansion)]
  <2> DEFINE All == AllSeen(expansion)
             read == f[n].realms
  <2>1. read \in Seq(All) /\ Len(read) = n
    BY <1>5, <1>9 DEF States
  <2>2. \A i \in 1 .. n : read[i] = Seen(realms[i], expansion)
    BY <1>13
  <2> HIDE DEF All, read
  <2>3. read = [i \in 1 .. n |-> read[i]]
    BY <1>1, <2>1
  <2>4. read = [i \in 1 .. n |-> Seen(realms[i], expansion)]
    BY <2>2, <2>3
  <2> QED
    BY <1>1, <2>4 DEF read
<1> QED
  BY <1>14, <1>15 DEF f, first, bytes, seqs, n


(* A reply: where its parts are.                                           *)
Width(expansion) == IF post_bc(expansion) THEN 2 ELSE 1

Listing(realms, expansion) ==
  FlattenSeq([i \in DOMAIN realms |-> realm_bytes(realms[i], expansion)]) \o footer(expansion)

Declared(realms, expansion) == Len(Listing(realms, expansion)) + (4 + Width(expansion))

LEMMA FooterBytes ==
  \A expansion : footer(expansion) \in ByteStrings /\ Len(footer(expansion)) = 2
<1>1. ASSUME NEW a \in Nat, NEW b \in Nat
      PROVE  uint8(a) \o uint8(b) \in ByteStrings /\ Len(uint8(a) \o uint8(b)) = 2
  <2> DEFINE x == uint8(a)
             y == uint8(b)
  <2>1. x \in ByteStrings /\ y \in ByteStrings /\ Len(x) = 1 /\ Len(y) = 1
    BY Fields
  <2> HIDE DEF x, y
  <2>2. x \o y \in ByteStrings /\ Len(x \o y) = Len(x) + Len(y)
    BY <2>1, Joined
  <2> QED
    BY <2>1, <2>2 DEF x, y
<1>2. /\ uint8(16) \o uint8(0) \in ByteStrings /\ Len(uint8(16) \o uint8(0)) = 2
      /\ uint8(0) \o uint8(2) \in ByteStrings /\ Len(uint8(0) \o uint8(2)) = 2
  <2>1. 16 \in Nat /\ 0 \in Nat /\ 2 \in Nat
    OBVIOUS
  <2> QED
    BY <1>1, <2>1, Zenon
<1> QED
  BY <1>2 DEF footer

LEMMA ListingBytes ==
  ASSUME NEW realms \in Seq(Realms), NEW expansion
  PROVE  Listing(realms, expansion) \in ByteStrings
<1> DEFINE seqs == [i \in DOMAIN realms |-> realm_bytes(realms[i], expansion)]
           n == Len(realms)
<1>1. n \in Nat /\ DOMAIN realms = 1 .. n /\ \A i \in 1 .. n : realms[i] \in Realms
  OBVIOUS
<1>2. \A i \in 1 .. n : realm_bytes(realms[i], expansion) \in ByteStrings
  BY <1>1, NoBytes, RealmRead
<1>3. seqs \in Seq(ByteStrings)
  <2>1. seqs \in [1 .. n -> ByteStrings]
    BY <1>1, <1>2
  <2> QED
    BY <1>1, <2>1
<1> HIDE DEF seqs
<1>4. PICK h : Loop(h, seqs) /\ FlattenSeq(seqs) = h[Len(seqs)]
  BY <1>3, ListWritten
<1>5. FlattenSeq(seqs) \in ByteStrings
  <2>1. Len(seqs) \in 0 .. Len(seqs)
    BY <1>3
  <2> QED
    BY <1>4, <2>1 DEF Loop
<1>6. FlattenSeq(seqs) \o footer(expansion) \in ByteStrings
  <2> DEFINE a == FlattenSeq(seqs)
             b == footer(expansion)
  <2>1. a \in ByteStrings /\ b \in ByteStrings
    BY <1>5, FooterBytes
  <2> HIDE DEF a, b
  <2>2. a \o b \in ByteStrings
    BY <2>1, Joined
  <2> QED
    BY <2>2 DEF a, b
<1> QED
  BY <1>6, Zenon DEF Listing, seqs

LEMMA FieldOf ==
  ASSUME NEW before \in ByteStrings, NEW field \in ByteStrings, NEW after \in ByteStrings
  PROVE  Taken(Rest(before \o (field \o after), Len(before)), Len(field)) = field
<1> DEFINE left == field \o after
<1>1. left \in ByteStrings
  BY Joined
<1>2. Taken(left, Len(field)) = field
  BY TakenJoined
<1> HIDE DEF left
<1>3. Rest(before \o left, Len(before)) = left
  BY <1>1, RestAfter
<1> QED
  BY <1>2, <1>3 DEF left

(* Regroup, for steps with many pieces: it is used for the named three.    *)
Regrouped(a, b, c) == (a \o b) \o c = a \o (b \o c)

LEMMA RegroupedOf ==
  ASSUME NEW a \in ByteStrings, NEW b \in ByteStrings, NEW c \in ByteStrings
  PROVE  Regrouped(a, b, c)
BY Regroup DEF Regrouped

InParts(all, a, b, c, d, e) ==
  /\ Len(all) = ((Len(a) + Len(b)) + (Len(c) + Len(d))) + Len(e)
  /\ Taken(Rest(all, Len(a)), Len(b)) = b
  /\ Taken(Rest(all, (Len(a) + Len(b)) + Len(c)), Len(d)) = d
  /\ Rest(all, (Len(a) + Len(b)) + (Len(c) + Len(d))) = e

LEMMA Parts ==
  ASSUME NEW a \in ByteStrings, NEW b \in ByteStrings, NEW c \in ByteStrings,
         NEW d \in ByteStrings, NEW e \in ByteStrings
  PROVE  InParts(((a \o b) \o (c \o d)) \o e, a, b, c, d, e)
<1> DEFINE ab == a \o b
           cd == c \o d
           de == d \o e
           abc == ab \o c
           abcd == ab \o cd
           cde == cd \o e
           bcde == b \o cde
           all == abcd \o e
<1>1. /\ ab \in ByteStrings /\ Len(ab) = Len(a) + Len(b)
      /\ cd \in ByteStrings /\ Len(cd) = Len(c) + Len(d)
  BY Joined
<1> HIDE DEF ab, cd
<1>2. abc \in ByteStrings /\ Len(abc) = Len(ab) + Len(c)
  BY <1>1, Joined
<1>3. abcd \in ByteStrings /\ Len(abcd) = Len(ab) + Len(cd)
  BY <1>1, Joined
<1>4. cde \in ByteStrings
  BY <1>1, Joined
<1>5. abcd = abc \o d
  <2>1. Regrouped(ab, c, d)
    BY <1>1, RegroupedOf
  <2> QED
    BY <2>1, Zenon DEF Regrouped, cd
<1>6. all = ab \o cde
  <2>1. Regrouped(ab, cd, e)
    BY <1>1, RegroupedOf
  <2> QED
    BY <2>1, Zenon DEF Regrouped
<1> HIDE DEF abc, abcd, cde
<1>7. all = abc \o de
  <2>1. Regrouped(abc, d, e)
    BY <1>2, RegroupedOf
  <2> QED
    BY <1>5, <2>1, Zenon DEF Regrouped
<1>8. ab \o cde = a \o bcde
  <2>1. Regrouped(a, b, cde)
    BY <1>4, RegroupedOf
  <2> QED
    BY <2>1, Zenon DEF Regrouped, ab
<1>9. Len(all) = Len(abcd) + Len(e) /\ Rest(all, Len(abcd)) = e
  <2>1. Len(abcd \o e) = Len(abcd) + Len(e)
    BY <1>3, Joined
  <2>2. Rest(abcd \o e, Len(abcd)) = e
    BY <1>3, RestAfter
  <2> QED
    BY <2>1, <2>2
<1>10. Taken(Rest(all, Len(a)), Len(b)) = b
  <2>1. Taken(Rest(a \o bcde, Len(a)), Len(b)) = b
    BY <1>4, FieldOf
  <2> HIDE DEF all, bcde
  <2> QED
    BY <1>6, <1>8, <2>1, Zenon
<1>11. Taken(Rest(all, Len(abc)), Len(d)) = d
  <2>1. Taken(Rest(abc \o de, Len(abc)), Len(d)) = d
    BY <1>2, FieldOf
  <2> HIDE DEF all, de
  <2> QED
    BY <1>7, <2>1, Zenon
<1>12. all = ((a \o b) \o (c \o d)) \o e
  BY Zenon DEF abcd, ab, cd
<1> HIDE DEF all
<1>13. InParts(all, a, b, c, d, e)
  BY <1>1, <1>2, <1>3, <1>9, <1>10, <1>11 DEF InParts
<1> QED
  BY <1>12, <1>13, Zenon

LEMMA ReplyParts ==
  ASSUME NEW realms \in Seq(Realms), NEW expansion
  PROVE  LET bytes == reply(realms, expansion)
             width == Width(expansion)
             declared == Declared(realms, expansion)
         IN /\ declared \in Nat /\ Len(bytes) = 3 + declared
            /\ number(Taken(Rest(bytes, 1), 2)) = number(uint16(declared))
            /\ number(Taken(Rest(bytes, 7), width)) = number(little_endian(Len(realms), width))
            /\ Rest(bytes, 7 + width) = Listing(realms, expansion)
<1> DEFINE list == Listing(realms, expansion)
           width == Width(expansion)
           declared == Declared(realms, expansion)
           count == little_endian(Len(realms), width)
           a == uint8(cmd_realmlist)
           b == uint16(declared)
           c == uint32(0)
           all == ((a \o b) \o (c \o count)) \o list
<1>1. list \in ByteStrings /\ Len(list) \in Nat /\ width \in {1, 2} /\ width \in Nat
  BY ListingBytes, Joined DEF Width
<1>2. declared = Len(list) + (4 + width) /\ declared \in Nat
  BY <1>1 DEF Declared
<1>3. Len(realms) \in Nat
  OBVIOUS
<1>4. count \in ByteStrings /\ Len(count) = width
  BY <1>1, <1>3, Written
<1>5. /\ a \in ByteStrings /\ Len(a) = 1
      /\ c \in ByteStrings /\ Len(c) = 4
  <2>1. cmd_realmlist \in Nat /\ 0 \in Nat
    BY DEF cmd_realmlist
  <2> QED
    BY <2>1, Fields
<1>6. b \in ByteStrings /\ Len(b) = 2
  <2> HIDE DEF declared
  <2> QED
    BY <1>2, Fields
<1>7. reply(realms, expansion) = all
  <2>1. count = IF post_bc(expansion) THEN uint16(Len(realms)) ELSE uint8(Len(realms))
    BY DEF Width, uint16, uint8
  <2> DEFINE size == c \o count
  <2>2. Len(size) = 4 + width /\ size \in ByteStrings
    <3> HIDE DEF c, count, width
    <3>1. Len(c \o count) = Len(c) + Len(count) /\ c \o count \in ByteStrings
      BY <1>4, <1>5, Joined
    <3> QED
      BY <1>4, <1>5, <3>1
  <2>3. reply(realms, expansion)
          = ((uint8(cmd_realmlist) \o uint16(Len(list) + Len(size))) \o size) \o list
    <3> HIDE DEF count
    <3> QED
      BY <2>1, Zenon DEF reply, header, Listing
  <2>4. Len(list) + Len(size) = declared
    BY <1>2, <2>2
  <2> HIDE DEF size, list, declared
  <2> QED
    BY <2>3, <2>4, Zenon DEF size
<1> HIDE DEF a, b, c, count, list, declared, width
<1>8. /\ Len(all) = ((Len(a) + Len(b)) + (Len(c) + Len(count))) + Len(list)
      /\ Taken(Rest(all, Len(a)), Len(b)) = b
      /\ Taken(Rest(all, (Len(a) + Len(b)) + Len(c)), Len(count)) = count
      /\ Rest(all, (Len(a) + Len(b)) + (Len(c) + Len(count))) = list
  <2>1. /\ a \in ByteStrings /\ b \in ByteStrings /\ c \in ByteStrings
        /\ count \in ByteStrings /\ list \in ByteStrings
    BY <1>1, <1>4, <1>5, <1>6
  <2>2. InParts(all, a, b, c, count, list)
    BY ONLY <2>1, Parts
  <2> QED
    BY <2>2, Zenon DEF InParts
<1> HIDE DEF all
<1>9. /\ (Len(a) + Len(b)) + Len(c) = 7 /\ (Len(a) + Len(b)) + (Len(c) + Len(count)) = 7 + width
      /\ ((Len(a) + Len(b)) + (Len(c) + Len(count))) + Len(list) = 3 + declared
  BY <1>1, <1>2, <1>4, <1>5, <1>6
<1>10. /\ Len(all) = 3 + declared /\ Rest(all, 7 + width) = list
       /\ Taken(Rest(all, 1), 2) = b /\ Taken(Rest(all, 7), width) = count
  BY <1>4, <1>5, <1>6, <1>8, <1>9
<1>11. declared \in Nat
  BY <1>2
<1> QED
  BY <1>7, <1>10, <1>11, Zenon DEF b, count, width, list, declared


(* What the client makes of a reply, by its loop over the count it read.   *)
LEMMA ReplyRead ==
  ASSUME NEW realms \in Seq(Realms), NEW expansion
  PROVE  LET read == ReadReply(reply(realms, expansion), expansion)
             declared == Declared(realms, expansion)
             count == number(little_endian(Len(realms), Width(expansion)))
             f == ReadFrom([realms |-> <<>>, rest |-> Listing(realms, expansion)],
                           count, expansion)
         IN /\ read.realms = f[count].realms
            /\ read.whole <=> /\ number(uint16(declared)) = declared
                              /\ Len(f[count].rest) = 2
<1> DEFINE bytes == reply(realms, expansion)
           width == Width(expansion)
           declared == Declared(realms, expansion)
           list == Listing(realms, expansion)
           count == number(Taken(Rest(bytes, 7), width))
           last == ReadFrom([realms |-> <<>>, rest |-> Rest(bytes, 7 + width)],
                            count, expansion)[count]
           stated == number(Taken(Rest(bytes, 1), 2))
           whole == stated = Len(bytes) - 3 /\ Len(last.rest) = 2
           other == number(little_endian(Len(realms), width))
           f == ReadFrom([realms |-> <<>>, rest |-> list], other, expansion)
<1>1. ReadReply(bytes, expansion) = [realms |-> last.realms, whole |-> whole]
  <2> HIDE DEF bytes
  <2> QED
    BY Zenon DEF ReadReply, ReadFrom, Width
<1>2. /\ declared \in Nat /\ Len(bytes) = 3 + declared
      /\ stated = number(uint16(declared))
      /\ count = other /\ Rest(bytes, 7 + width) = list
  BY ReplyParts, Zenon
<1>3. last = f[other]
  <2> HIDE DEF bytes, count, other, list, width
  <2> QED
    BY <1>2, Zenon
<1>4. Len(bytes) - 3 = declared
  <2> HIDE DEF bytes, declared
  <2> QED
    BY <1>2
<1>5. whole <=> number(uint16(declared)) = declared /\ Len(f[other].rest) = 2
  <2> HIDE DEF bytes, declared, last, stated, f, other
  <2> QED
    BY <1>2, <1>3, <1>4, Zenon
<1> HIDE DEF whole, last, f, other, bytes, declared
<1>6. /\ ReadReply(bytes, expansion).realms = f[other].realms
      /\ ReadReply(bytes, expansion).whole = whole
  <2> DEFINE got == ReadReply(bytes, expansion)
             there == last.realms
  <2>1. got = [realms |-> there, whole |-> whole]
    BY <1>1
  <2> HIDE DEF got, there
  <2>2. got.realms = there /\ got.whole = whole
    BY <2>1
  <2> QED
    BY <1>3, <2>2, Zenon DEF got, there
<1>7. /\ ReadReply(bytes, expansion).realms = f[other].realms
      /\ ReadReply(bytes, expansion).whole
           <=> number(uint16(declared)) = declared /\ Len(f[other].rest) = 2
  BY <1>5, <1>6, Zenon
<1> QED
  BY <1>7, Zenon DEF f, other, bytes, declared

LEMMA Widths ==
  ASSUME NEW expansion
  PROVE  /\ Width(expansion) \in Nat
         /\ power(Base, 2) \in Nat
         /\ power(Base, Width(expansion)) \in Nat
         /\ power(Base, Width(expansion)) = IF post_bc(expansion) THEN power(Base, 2) ELSE Base
<1>1. Width(expansion) \in Nat /\ 2 \in Nat
  BY DEF Width
<1>2. power(Base, 1) = Base
  <2>1. 0 \in Nat /\ 0 + 1 = 1
    OBVIOUS
  <2>2. power(Base, 0) = 1 /\ power(Base, 0 + 1) = Base * power(Base, 0)
    BY <2>1, Places
  <2> QED
    BY <2>1, <2>2, BaseAssumption
<1>3. power(Base, 2) \in Nat /\ power(Base, Width(expansion)) \in Nat
  BY <1>1, Places
<1> QED
  BY <1>1, <1>2, <1>3 DEF Width

(* A number written in so many bytes is read as it was exactly when it     *)
(* fits.                                                                   *)
LEMMA Kept ==
  ASSUME NEW n \in Nat, NEW length \in Nat
  PROVE  /\ number(little_endian(n, length)) \in Nat
         /\ number(little_endian(n, length)) = n <=> n < power(Base, length)
<1> DEFINE bytes == little_endian(n, length)
<1>1. bytes \in ByteStrings /\ Len(bytes) = length
  BY Written
<1> HIDE DEF bytes
<1>2. number(bytes) \in Nat /\ number(bytes) < power(Base, length)
  BY <1>1, NumberBound
<1>3. n < power(Base, length) => number(bytes) = n
  BY RoundTrip DEF bytes
<1>4. number(bytes) = n => n < power(Base, length)
  <2> HIDE DEF bytes
  <2> QED
    BY <1>2
<1> QED
  BY <1>2, <1>3, <1>4 DEF bytes

LEMMA FitsOf ==
  ASSUME NEW realms \in Seq(Realms), NEW expansion
  PROVE  Fits(realms, expansion) <=>
           /\ number(little_endian(Len(realms), Width(expansion))) = Len(realms)
           /\ number(uint16(Declared(realms, expansion))) = Declared(realms, expansion)
           /\ post_bc(expansion) => \A i \in DOMAIN realms : realms[i].id < Base
<1> DEFINE n == Len(realms)
           declared == Declared(realms, expansion)
           bytes == reply(realms, expansion)
           width == Width(expansion)
<1>1. n \in Nat
  OBVIOUS
<1>2. declared \in Nat /\ Len(bytes) = 3 + declared
  BY ReplyParts, Zenon
<1>3. Fits(realms, expansion) <=>
        /\ n < IF post_bc(expansion) THEN power(Base, 2) ELSE Base
        /\ Len(bytes) - 3 < power(Base, 2)
        /\ post_bc(expansion) => \A i \in DOMAIN realms : realms[i].id < Base
  BY Zenon DEF Fits
<1> HIDE DEF bytes, declared, n, width
<1>4. Len(bytes) - 3 = declared
  BY <1>2
<1>5. /\ width \in Nat
      /\ power(Base, width) = IF post_bc(expansion) THEN power(Base, 2) ELSE Base
  BY Widths DEF width
<1>6. number(little_endian(n, width)) = n <=> n < power(Base, width)
  BY <1>1, <1>5, Kept
<1>7. number(uint16(declared)) = declared <=> declared < power(Base, 2)
  <2>1. 2 \in Nat
    OBVIOUS
  <2>2. \A length \in Nat :
          number(little_endian(declared, length)) = declared <=> declared < power(Base, length)
    BY <1>2, Kept
  <2> QED
    BY <2>1, <2>2, Zenon DEF uint16
<1>8. Fits(realms, expansion) <=>
        /\ number(little_endian(n, width)) = n
        /\ number(uint16(declared)) = declared
        /\ post_bc(expansion) => \A i \in DOMAIN realms : realms[i].id < Base
  BY <1>3, <1>4, <1>5, <1>6, <1>7, Zenon
<1> QED
  BY <1>8, Zenon DEF n, width, declared


LEMMA SeenIsShort ==
  ASSUME NEW expansion, NEW seen \in AllSeen(expansion)
  PROVE  seen.id \in Nat /\ seen.id < Base
<1>1. PICK bytes \in ByteStrings : seen = ReadRealm(bytes, expansion).seen
  BY DEF AllSeen
<1> QED
  BY <1>1, RealmLeaves

LEMMA ReadableOne ==
  ASSUME NEW realms \in Seq(Realms), NEW expansion
  PROVE  LET read == ReadReply(reply(realms, expansion), expansion)
         IN Fits(realms, expansion) <=>
              /\ read.whole
              /\ read.realms = [i \in DOMAIN realms |-> Seen(realms[i], expansion)]
<1> DEFINE read == ReadReply(reply(realms, expansion), expansion)
           n == Len(realms)
           declared == Declared(realms, expansion)
           count == number(little_endian(n, Width(expansion)))
           list == Listing(realms, expansion)
           first == [realms |-> <<>>, rest |-> list]
           f == ReadFrom(first, count, expansion)
           seen == [i \in DOMAIN realms |-> Seen(realms[i], expansion)]
           ids == post_bc(expansion) => \A i \in DOMAIN realms : realms[i].id < Base
<1>1. /\ read.realms = f[count].realms
      /\ read.whole <=> number(uint16(declared)) = declared /\ Len(f[count].rest) = 2
  BY ReplyRead, Zenon
<1>2. Fits(realms, expansion) <=>
        count = n /\ number(uint16(declared)) = declared /\ ids
  BY FitsOf, Zenon
<1>3. n \in Nat /\ count \in Nat
  <2>1. n \in Nat
    OBVIOUS
  <2> HIDE DEF n
  <2> QED
    BY <2>1, Widths, Kept
<1>4. ids => ReadFrom(first, n, expansion)[n].realms = seen
             /\ ReadFrom(first, n, expansion)[n].rest = footer(expansion)
  <2> SUFFICES ASSUME ids
               PROVE  /\ ReadFrom(first, n, expansion)[n].realms = seen
                      /\ ReadFrom(first, n, expansion)[n].rest = footer(expansion)
    OBVIOUS
  <2> DEFINE tail == footer(expansion)
             bytes == FlattenSeq([i \in DOMAIN realms |-> realm_bytes(realms[i], expansion)])
                        \o tail
             g_ == ReadFrom([realms |-> <<>>, rest |-> bytes], n, expansion)
  <2>1. tail \in ByteStrings
    BY FooterBytes
  <2>2. list = bytes
    BY Zenon DEF Listing
  <2> HIDE DEF tail
  <2>3. g_[n].realms = seen /\ g_[n].rest = tail
    BY <2>1, ListRead, Zenon
  <2> QED
    BY <2>2, <2>3, Zenon DEF tail
<1>5. first \in States(expansion) /\ Len(first.realms) = 0
  <2>1. list \in ByteStrings
    BY ListingBytes
  <2> HIDE DEF list
  <2> QED
    BY <2>1 DEF States
<1> HIDE DEF first, n, declared, list
<1>6. f[count] \in States(expansion) /\ Len(f[count].realms) = count
  <2> HIDE DEF count
  <2> QED
    BY <1>3, <1>5, ReadFromSteps
<1>7. ASSUME count = n, number(uint16(declared)) = declared, ids
      PROVE  read.whole /\ read.realms = seen
  <2>1. f[count].realms = seen /\ f[count].rest = footer(expansion)
    <3> HIDE DEF count, seen, ids
    <3> QED
      BY <1>4, <1>7, Zenon
  <2>2. Len(f[count].rest) = 2
    BY <2>1, FooterBytes
  <2> HIDE DEF f, count, seen, ids, read
  <2> QED
    BY <1>1, <1>7, <2>1, <2>2, Zenon
<1>8. ASSUME read.whole, read.realms = seen
      PROVE  count = n /\ number(uint16(declared)) = declared /\ ids
  <2>1. f[count].realms = seen /\ number(uint16(declared)) = declared
    <3> HIDE DEF f, count, seen, read
    <3> QED
      BY <1>1, <1>8, Zenon
  <2> DEFINE got == f[count].realms
             All == AllSeen(expansion)
  <2>2. got \in Seq(All) /\ Len(got) = count
    BY <1>6 DEF States
  <2> HIDE DEF f, count, got, All
  <2>3. DOMAIN realms = 1 .. n
    BY DEF n
  <2>4. got = seen
    BY <2>1 DEF got
  <2>5. DOMAIN got = 1 .. n
    BY <2>3, <2>4
  <2>6. count = n
    BY <1>3, <2>2, <2>5
  <2>7. ASSUME post_bc(expansion), NEW i \in DOMAIN realms PROVE realms[i].id < Base
    <3> DEFINE one == got[i]
    <3>1. one \in All
      BY <2>2, <2>3, <2>6, <2>7
    <3>2. one = Seen(realms[i], expansion)
      BY <2>4, <2>7
    <3> HIDE DEF one
    <3>3. one.id < Base
      BY <3>1, SeenIsShort DEF All
    <3>4. Seen(realms[i], expansion).id = realms[i].id
      BY <2>7 DEF Seen
    <3> QED
      BY <3>2, <3>3, <3>4
  <2> QED
    BY <2>1, <2>6, <2>7
<1> HIDE DEF f, count, seen, ids, read
<1>9. Fits(realms, expansion) <=> read.whole /\ read.realms = seen
  BY <1>2, <1>7, <1>8, Zenon
<1> QED
  BY <1>9, Zenon DEF read, seen

ReplyInv ==
  /\ call.of = "reply" => call \in Replies
  /\ call.of = "reply" /\ result # Pending => result = reply(call.realms, call.expansion)

(* Whatever realms there are and however many: the client reads from the   *)
(* reply exactly the realms the handler put in, with every byte accounted  *)
(* for, if the count, the length and the ids fit the width of their        *)
(* fields, and only then.                                                  *)
THEOREM ReplyReadable == Spec => []ReplyIsReadable
<1>1. Init => ReplyInv
  <2> SUFFICES ASSUME Init PROVE ReplyInv
    OBVIOUS
  <2>1. result = Pending /\ (call \in Logons \/ call \in Replies \/ call \in Questions)
    BY DEF Init
  <2>2. /\ \A c \in Logons : c.of = "logon"
        /\ \A c \in Questions : c.of = "address"
    BY DEF Logons, Questions
  <2> QED
    BY <2>1, <2>2 DEF ReplyInv
<1>2. ReplyInv /\ [Next]_vars => ReplyInv'
  <2> SUFFICES ASSUME ReplyInv, [Next]_vars PROVE ReplyInv'
    OBVIOUS
  <2>1. CASE Next
    <3>1. call' = call
      BY <2>1 DEF Next
    <3>2. CASE call.of # "reply"
      BY <3>1, <3>2 DEF ReplyInv
    <3>3. CASE call.of = "reply"
      <4>1. Reply
        BY <2>1, <3>3 DEF Next, Logon, Address
      <4> QED
        BY <3>1, <4>1 DEF Reply, ReplyInv
    <3> QED
      BY <3>2, <3>3
  <2>2. CASE UNCHANGED vars
    BY <2>2 DEF vars, ReplyInv
  <2> QED
    BY <2>1, <2>2
<1>3. ReplyInv => ReplyIsReadable
  <2> SUFFICES ASSUME ReplyInv, call.of = "reply", result # Pending PROVE ReplyIsReadable
    BY DEF ReplyIsReadable
  <2>1. call.realms \in Seq(Realms) /\ result = reply(call.realms, call.expansion)
    BY ListsAssumption DEF ReplyInv, Replies
  <2> DEFINE realms == call.realms
             expansion == call.expansion
  <2>2. realms \in Seq(Realms)
    BY <2>1
  <2> HIDE DEF realms, expansion
  <2>3. Fits(realms, expansion) <=>
          /\ ReadReply(reply(realms, expansion), expansion).whole
          /\ ReadReply(reply(realms, expansion), expansion).realms
               = [i \in DOMAIN realms |-> Seen(realms[i], expansion)]
    BY <2>2, ReadableOne
  <2> QED
    BY <2>1, <2>3, Zenon DEF ReplyIsReadable, realms, expansion
<1> QED
  BY <1>1, <1>2, <1>3, PTL DEF Spec

===============================================================================

--------------------------- MODULE MPSCQueueProofs ---------------------------
(***************************************************************************)
(* Proofs about MPSCQueue, for any number of producers, items and nodes,   *)
(* and for both variants.  The heart of them is that each link of the      *)
(* chain from m_tail to m_head is stored, or owed by exactly one enqueue,  *)
(* so that the consumer passes a node only when nobody holds it any more.  *)
(***************************************************************************)
EXTENDS MPSCQueue, SequenceTheorems, TLAPS

at(c) == enqueue[c].at
InChain(n) == \E i \in 1 .. Len(chain) : chain[i] = n

(* The nodes from m_tail to m_head are one chain, without memory that has  *)
(* been given back.                                                        *)
Chained ==
  /\ Len(chain) >= 1
  /\ chain[1] = m_tail
  /\ chain[Len(chain)] = m_head
  /\ \A i, j \in 1 .. Len(chain) : chain[i] = chain[j] => i = j
  /\ life # "gone" => \A i \in 1 .. Len(chain) : chain[i] \notin unused

(* Each link of the chain is stored, or owed by one call of enqueue.       *)
Owes(c, i) ==
  /\ at(c) = "link"
  /\ enqueue[c].previous = chain[i]
  /\ enqueue[c].node = chain[i + 1]
  /\ link[chain[i]] = nullptr

Linked ==
  /\ link[m_head] = nullptr
  /\ \A i \in 1 .. Len(chain) - 1 :
       link[chain[i]] = chain[i + 1] \/ \E c \in Callers : Owes(c, i)
  /\ \A c \in Callers : at(c) = "link" => \E i \in 1 .. Len(chain) - 1 : Owes(c, i)
  /\ \A c, d \in Callers :
       at(c) = "link" /\ at(d) = "link" /\ enqueue[c].previous = enqueue[d].previous => c = d

(* A node on its way in belongs to one call, and to nothing else.          *)
Entering ==
  /\ \A p \in Producers : at(p) # "clear"
  /\ \A p \in Producers : at(p) = "exchange" =>
       /\ enqueue[p].node \notin unused
       /\ ~ InChain(enqueue[p].node)
       /\ link[enqueue[p].node] = nullptr
       /\ data[enqueue[p].node] \in Values
       /\ intrusive => enqueue[p].node # Dummy
  /\ \A p, q \in Producers :
       at(p) = "exchange" /\ at(q) = "exchange" /\ enqueue[p].node = enqueue[q].node => p = q
  /\ enqueue[Consumer].node = Dummy
  /\ at(Consumer) \in {"clear", "exchange"} => ~ InChain(Dummy)
  /\ at(Consumer) = "exchange" => link[Dummy] = nullptr
  /\ intrusive => Dummy \notin unused

(* No memory is lost.                                                      *)
Accounted ==
  life # "gone" =>
    \A n \in Nodes :
      \/ n \in unused
      \/ InChain(n)
      \/ \E p \in Producers : at(p) = "exchange" /\ enqueue[p].node = n
      \/ intrusive /\ n = Dummy

(* What the consumer knows from the links it has read.                     *)
Walking ==
  /\ dequeue.at \in {"skip", "head", "again", "true"} => dequeue.tail = m_tail
  /\ dequeue.at \in {"skip", "true"} =>
       Len(chain) >= 2 /\ dequeue.next = chain[2] /\ link[m_tail] = chain[2]
  /\ dequeue.at = "skip" => intrusive /\ m_tail = Dummy
  /\ dequeue.at = "true" /\ intrusive => m_tail # Dummy
  /\ dequeue.at \in {"head", "again"} => intrusive /\ m_tail # Dummy /\ dequeue.next = nullptr
  /\ dequeue.at = "again" /\ at(Consumer) \in {"outside", "link"} => InChain(Dummy)

Emptied == Len(chain) = 1 /\ (intrusive => m_tail = Dummy)

(* A call of dequeue no enqueue overlaps, above all one of the destructor, *)
(* answers false for an empty queue only.                                  *)
Undisturbed ==
  /\ (dequeue.at # "outside" /\ ~ overlapped) \/ life # "open" =>
       \A p \in Producers : at(p) = "outside"
  /\ life # "open" /\ dequeue.at # "outside" => ~ overlapped
  /\ dequeue.at = "head" /\ ~ overlapped => Len(chain) = 1
  /\ dequeue.at = "false" /\ ~ overlapped => Emptied
  /\ life \in {"drained", "gone"} => Emptied /\ dequeue.at = "outside"
  /\ life = "gone" => unused = IF intrusive THEN Nodes \ {Dummy} ELSE Nodes

Inv ==
  /\ TypeOK
  /\ Chained
  /\ Linked
  /\ Entering
  /\ Accounted
  /\ Walking
  /\ Undisturbed

-----------------------------------------------------------------------------
(* The chain when it grows and when it shrinks.                            *)
LEMMA Appended ==
  ASSUME NEW n \in Nodes, chain \in Seq(Nodes), chain' = Append(chain, n)
  PROVE  /\ chain' \in Seq(Nodes)
         /\ Len(chain) \in Nat
         /\ Len(chain') = Len(chain) + 1
         /\ \A i \in 1 .. Len(chain) : chain'[i] = chain[i]
         /\ chain'[Len(chain) + 1] = n
BY AppendProperties, LenProperties

LEMMA Shortened ==
  ASSUME chain \in Seq(Nodes), Len(chain) >= 1, chain' = Tail(chain)
  PROVE  /\ chain' \in Seq(Nodes)
         /\ Len(chain) \in Nat
         /\ Len(chain') = Len(chain) - 1
         /\ \A i \in 1 .. Len(chain) - 1 : chain'[i] = chain[i + 1]
<1>1. chain # << >>
  BY LenProperties, EmptySeq
<1>2. QED
  BY <1>1, HeadTailProperties, LenProperties

LEMMA Initially == Init => Inv
<1> SUFFICES ASSUME Init PROVE Inv
  OBVIOUS
<1> USE QueueAssumption DEF Init
<1>1. /\ Len(chain) = 1
      /\ chain[1] = Dummy
      /\ chain \in Seq(Nodes)
  OBVIOUS
<1>2. \A c \in Callers : at(c) = "outside" /\ enqueue[c].node = Dummy
  BY DEF at, Returned
<1>3. TypeOK
  <2>1. enqueue \in [Callers -> [at : {"outside", "clear", "exchange", "link"},
                                 node : Nodes, previous : Nodes]]
    BY DEF Returned
  <2>2. sent \in [Producers -> 0 .. MaxSent]
    OBVIOUS
  <2>3. dequeue \in [at : {"outside", "tail", "skip", "head", "again", "true", "false"},
                     tail : Nodes, next : Nodes \cup {nullptr}]
    OBVIOUS
  <2>4. intrusive \in BOOLEAN /\ overlapped \in BOOLEAN
    OBVIOUS
  <2>5. QED
    BY <1>1, <1>2, <2>1, <2>2, <2>3, <2>4 DEF TypeOK, Callers, at
<1>4. Chained
  BY <1>1 DEF Chained
<1>5. Linked
  BY <1>1, <1>2 DEF Linked
<1>6. Entering
  BY <1>1, <1>2 DEF Entering, Callers
<1>7. Accounted
  BY <1>1 DEF Accounted, InChain
<1>8. Walking
  BY DEF Walking
<1>9. Undisturbed
  BY DEF Undisturbed
<1>10. QED
  BY <1>3, <1>4, <1>5, <1>6, <1>7, <1>8, <1>9 DEF Inv

LEMMA CallPreserves ==
  ASSUME Inv, NEW p \in Producers, Call(p)
  PROVE  Inv'
<1> USE QueueAssumption DEF at, InChain
<1>1. PICK n \in unused :
        /\ unused' = unused \ {n}
        /\ link' = [link EXCEPT ![n] = nullptr]
        /\ data' = [data EXCEPT ![n] = <<p, sent[p] + 1>>]
        /\ enqueue' = [enqueue EXCEPT ![p] = [at |-> "exchange", node |-> n, previous |-> n]]
  BY DEF Call
<1>2. /\ TypeOK /\ n \in Nodes /\ p \in Callers /\ p # Consumer
      /\ sent[p] + 1 \in 1 .. MaxSent
      /\ <<p, sent[p] + 1>> \in Values
      /\ life = "open" /\ life' = "open" /\ chain' = chain
      /\ Len(chain) \in Nat
  BY LenProperties DEF Call, Inv, TypeOK, Callers, Values
<1>3. /\ enqueue'[p] = [at |-> "exchange", node |-> n, previous |-> n]
      /\ \A c \in Callers : c # p => enqueue'[c] = enqueue[c]
      /\ enqueue[p].at = "outside"
      /\ link'[n] = nullptr /\ data'[n] \in Values
      /\ \A m \in Nodes : m # n => link'[m] = link[m] /\ data'[m] = data[m]
  BY <1>1, <1>2 DEF Call, TypeOK
<1>4. \A i \in 1 .. Len(chain) : chain[i] \in Nodes /\ chain[i] # n
  BY <1>1, <1>2 DEF Inv, TypeOK, Chained
<1>5. TypeOK'
  BY <1>1, <1>2 DEF Call, TypeOK
<1>6. Chained'
  BY <1>1, <1>2 DEF Call, Inv, Chained
<1>7. Linked'
  <2>1. link'[m_head'] = nullptr
    BY <1>2, <1>3 DEF Call, Inv, Linked, TypeOK
  <2>2. \A i \in 1 .. Len(chain) - 1 : \A c \in Callers : Owes(c, i) => Owes(c, i)'
    BY <1>2, <1>3, <1>4 DEF Owes
  <2>3. QED
    BY <1>2, <1>3, <1>4, <2>1, <2>2 DEF Inv, Linked
<1>8. Entering'
  BY <1>1, <1>2, <1>3, <1>4 DEF Inv, Entering, Callers, TypeOK, Call
<1>9. Accounted'
  BY <1>1, <1>2, <1>3 DEF Inv, Accounted, Callers, Call
<1>10. Walking'
  <2>1. link'[m_tail] = link[m_tail] \/ Len(chain) < 2
    BY <1>2, <1>3, <1>4 DEF Inv, Chained, TypeOK
  <2>2. QED
    BY <1>2, <1>3, <2>1 DEF Inv, Walking, Call, Callers
<1>11. Undisturbed'
  BY <1>2 DEF Inv, Undisturbed, Call, Emptied
<1>12. QED
  BY <1>5, <1>6, <1>7, <1>8, <1>9, <1>10, <1>11 DEF Inv
LEMMA ClearDummyPreserves ==
  ASSUME Inv, ClearDummy
  PROVE  Inv'
<1> USE QueueAssumption DEF at, InChain
<1>1. /\ TypeOK /\ Consumer \in Callers
      /\ Len(chain) \in Nat
      /\ link' = [link EXCEPT ![Dummy] = nullptr]
      /\ enqueue' = [enqueue EXCEPT ![Consumer].at = "exchange"]
      /\ UNCHANGED <<m_head, m_tail, unused, dequeue, chain, overlapped, result, intrusive, data,
                     sent, life>>
      /\ enqueue[Consumer].at = "clear"
  BY LenProperties DEF ClearDummy, consumer_vars, Inv, TypeOK, Callers
<1>2. /\ enqueue'[Consumer].at = "exchange" /\ enqueue'[Consumer].node = enqueue[Consumer].node
      /\ \A p \in Producers : enqueue'[p] = enqueue[p]
      /\ \A c \in Callers : c # Consumer => enqueue'[c] = enqueue[c]
      /\ link'[Dummy] = nullptr
      /\ \A m \in Nodes : m # Dummy => link'[m] = link[m]
  BY <1>1 DEF TypeOK, Callers
<1>3. \A i \in 1 .. Len(chain) : chain[i] \in Nodes /\ chain[i] # Dummy
  BY <1>1 DEF Inv, TypeOK, Entering
<1>4. intrusive /\ dequeue.at = "again"
  BY <1>1 DEF TypeOK
<1>5. TypeOK'
  BY <1>1, <1>4 DEF TypeOK
<1>6. Chained'
  BY <1>1 DEF Inv, Chained
<1>7. Linked'
  <2>1. link'[m_head'] = nullptr
    BY <1>1, <1>2 DEF Inv, Linked, TypeOK
  <2>2. \A i \in 1 .. Len(chain) - 1 : \A c \in Callers : Owes(c, i) => Owes(c, i)'
    BY <1>1, <1>2, <1>3 DEF Owes
  <2>3. QED
    BY <1>1, <1>2, <1>3, <2>1, <2>2 DEF Inv, Linked
<1>8. Entering'
  BY <1>1, <1>2, <1>3 DEF Inv, Entering, TypeOK
<1>9. Accounted'
  BY <1>1, <1>2 DEF Inv, Accounted
<1>10. Walking'
  BY <1>1, <1>2, <1>4 DEF Inv, Walking
<1>11. Undisturbed'
  BY <1>1, <1>2 DEF Inv, Undisturbed, Emptied
<1>12. QED
  BY <1>5, <1>6, <1>7, <1>8, <1>9, <1>10, <1>11 DEF Inv

LEMMA ExchangePreserves ==
  ASSUME Inv, NEW c \in Callers, Exchange(c)
  PROVE  Inv'
<1> USE QueueAssumption DEF at
<1>n. PICK n \in Nodes : n = enqueue[c].node
  BY DEF Inv, TypeOK
<1>l. PICK last \in Nat : last = Len(chain)
  BY LenProperties DEF Inv, TypeOK
<1>1. /\ TypeOK
      /\ enqueue[c].at = "exchange"
      /\ enqueue' = [enqueue EXCEPT ![c].at = "link", ![c].previous = m_head]
      /\ m_head' = n
      /\ chain' = Append(chain, n)
      /\ UNCHANGED <<m_tail, link, unused, dequeue, overlapped, result, intrusive, data, sent, life>>
  BY <1>n DEF Exchange, consumer_vars, Inv, TypeOK
<1>2. /\ chain' \in Seq(Nodes)
      /\ last = Len(chain) /\ last >= 1
      /\ Len(chain') = last + 1
      /\ \A i \in 1 .. last : chain'[i] = chain[i] /\ chain[i] \in Nodes
      /\ chain'[last + 1] = n
  BY <1>1, <1>l, Appended DEF Inv, TypeOK, Chained
<1>3. /\ enqueue'[c].at = "link" /\ enqueue'[c].node = n /\ enqueue'[c].previous = m_head
      /\ \A d \in Callers : d # c => enqueue'[d] = enqueue[d]
      /\ Producers \subseteq Callers /\ Consumer \in Callers
  BY <1>n, <1>1 DEF TypeOK, Callers
<1>4. /\ n \notin unused
      /\ ~ InChain(n)
      /\ link[n] = nullptr
      /\ \A p \in Producers : p # c /\ at(p) = "exchange" => enqueue[p].node # n
      /\ \A i \in 1 .. last : chain[i] # n
  <2>1. CASE c = Consumer
    <3>1. intrusive /\ n = Dummy
      BY <1>n, <1>1, <2>1 DEF Inv, TypeOK, Entering
    <3>2. QED
      BY <1>n, <1>1, <1>2, <2>1, <3>1 DEF Inv, Entering, InChain
  <2>2. CASE c \in Producers
    BY <1>n, <1>1, <1>2, <2>2 DEF Inv, Entering, InChain
  <2>3. QED
    BY <2>1, <2>2 DEF Callers
<1>5. life # "gone"
  BY <1>1 DEF Inv, Undisturbed, TypeOK, Callers
<1>6. TypeOK'
  <2>1. enqueue' \in [Callers -> [at : {"outside", "clear", "exchange", "link"},
                                  node : Nodes, previous : Nodes]]
    <3>1. [enqueue[c] EXCEPT !.at = "link", !.previous = m_head]
            \in [at : {"outside", "clear", "exchange", "link"}, node : Nodes, previous : Nodes]
      BY <1>1 DEF TypeOK
    <3>2. enqueue' = [enqueue EXCEPT ![c] = [enqueue[c] EXCEPT !.at = "link", !.previous = m_head]]
      BY <1>1
    <3>3. QED
      BY <1>1, <3>1, <3>2 DEF TypeOK
  <2>2. enqueue'[Consumer].at # "outside" => intrusive' /\ dequeue'.at = "again"
    BY <1>1, <1>3 DEF TypeOK
  <2>3. QED
    BY <1>1, <1>2, <2>1, <2>2 DEF TypeOK
<1>7. Chained'
  BY <1>1, <1>2, <1>4 DEF Inv, Chained
<1>8. Linked'
  <2>1. link'[m_head'] = nullptr
    BY <1>1, <1>4
  <2>2. \A d \in Callers : \A i \in 1 .. last - 1 : Owes(d, i) => Owes(d, i)'
    <3> SUFFICES ASSUME NEW d \in Callers, NEW i \in 1 .. last - 1, Owes(d, i)
                 PROVE  Owes(d, i)'
      OBVIOUS
    <3>1. d # c
      BY <1>1 DEF Owes
    <3>2. chain'[i] = chain[i] /\ chain'[i + 1] = chain[i + 1]
      BY <1>2
    <3>3. enqueue'[d] = enqueue[d] /\ link' = link
      BY <1>1, <1>3, <3>1
    <3>4. QED
      BY <3>2, <3>3 DEF Owes
  <2>3. Owes(c, last)'
    BY <1>1, <1>2, <1>3 DEF Owes, Inv, Chained, Linked
  <2>4. \A i \in 1 .. last :
          link'[chain'[i]] = chain'[i + 1] \/ \E d \in Callers : Owes(d, i)'
    <3> SUFFICES ASSUME NEW i \in 1 .. last
                 PROVE  link'[chain'[i]] = chain'[i + 1] \/ \E d \in Callers : Owes(d, i)'
      OBVIOUS
    <3>1. CASE i = last
      BY <2>3, <3>1
    <3>2. CASE i \in 1 .. last - 1
      BY <1>1, <1>2, <2>2, <3>2 DEF Inv, Linked
    <3>3. QED
      BY <1>2, <3>1, <3>2
  <2>5. \A d \in Callers : enqueue'[d].at = "link" => \E i \in 1 .. last : Owes(d, i)'
    <3> SUFFICES ASSUME NEW d \in Callers, enqueue'[d].at = "link"
                 PROVE  \E i \in 1 .. last : Owes(d, i)'
      OBVIOUS
    <3>1. CASE d = c
      BY <1>2, <2>3, <3>1
    <3>2. CASE d # c
      BY <1>2, <1>3, <2>2, <3>2 DEF Inv, Linked
    <3>3. QED
      BY <3>1, <3>2
  <2>6. \A d \in Callers : d # c /\ enqueue[d].at = "link" => enqueue[d].previous # m_head
    BY <1>2 DEF Inv, Linked, Owes, Chained
  <2>7. QED
    BY <1>2, <1>3, <2>1, <2>4, <2>5, <2>6 DEF Inv, Linked
<1>g. \A m : InChain(m)' <=> InChain(m) \/ m = n
  <2>1. ASSUME NEW m, InChain(m)' PROVE InChain(m) \/ m = n
    <3>1. PICK i \in 1 .. last + 1 : chain'[i] = m
      BY <1>2, <2>1 DEF InChain
    <3>2. CASE i = last + 1
      BY <1>2, <3>1, <3>2
    <3>3. CASE i \in 1 .. last
      BY <1>2, <3>1, <3>3 DEF InChain
    <3>4. QED
      BY <3>2, <3>3
  <2>2. ASSUME NEW m, InChain(m) PROVE InChain(m)'
    BY <1>2, <2>2 DEF InChain
  <2>3. InChain(n)'
    BY <1>2 DEF InChain
  <2>4. QED
    BY <2>1, <2>2, <2>3
<1>9. Entering'
  <2>1. \A p \in Producers : enqueue'[p].at = "exchange" =>
           /\ enqueue'[p] = enqueue[p]
           /\ enqueue[p].at = "exchange"
           /\ enqueue[p].node # n
    BY <1>3, <1>4
  <2>2. /\ enqueue'[Consumer].node = enqueue[Consumer].node
        /\ enqueue'[Consumer].at \in {"clear", "exchange"} =>
             enqueue'[Consumer] = enqueue[Consumer] /\ c # Consumer
    BY <1>n, <1>3
  <2>3. c # Consumer /\ enqueue[Consumer].at # "outside" => n # Dummy
    BY <1>n, <1>1 DEF Inv, TypeOK, Entering, Callers
  <2>4. \A p \in Producers : enqueue'[p].at # "clear"
    BY <1>3 DEF Inv, Entering
  <2>5. \A p \in Producers :
          enqueue'[p].at = "exchange" => \A i \in 1 .. Len(chain') : chain'[i] # enqueue[p].node
    <3> SUFFICES ASSUME NEW p \in Producers, enqueue'[p].at = "exchange"
                 PROVE  \A i \in 1 .. Len(chain') : chain'[i] # enqueue[p].node
      OBVIOUS
    <3>1. PICK m : m = enqueue[p].node
      OBVIOUS
    <3>2. m # n /\ ~ InChain(m)
      BY <2>1, <3>1 DEF Inv, Entering
    <3>3. ~ InChain(m)'
      BY <1>g, <3>2
    <3>4. QED
      BY <3>1, <3>3 DEF InChain
  <2>6. enqueue'[Consumer].at \in {"clear", "exchange"} => ~ InChain(Dummy)'
    BY <1>g, <2>2, <2>3 DEF Inv, Entering, InChain
  <2>7. \A p \in Producers : enqueue'[p].at = "exchange" =>
          /\ enqueue'[p].node \notin unused'
          /\ \A i \in 1 .. Len(chain') : chain'[i] # enqueue'[p].node
          /\ link'[enqueue'[p].node] = nullptr
          /\ data'[enqueue'[p].node] \in Values
          /\ intrusive' => enqueue'[p].node # Dummy
    <3> SUFFICES ASSUME NEW p \in Producers, enqueue'[p].at = "exchange"
                 PROVE  /\ enqueue'[p].node \notin unused'
                        /\ \A i \in 1 .. Len(chain') : chain'[i] # enqueue'[p].node
                        /\ link'[enqueue'[p].node] = nullptr
                        /\ data'[enqueue'[p].node] \in Values
                        /\ intrusive' => enqueue'[p].node # Dummy
      OBVIOUS
    <3>1. enqueue'[p].node = enqueue[p].node /\ enqueue[p].at = "exchange"
      BY <2>1
    <3>2. /\ enqueue[p].node \notin unused
          /\ link[enqueue[p].node] = nullptr
          /\ data[enqueue[p].node] \in Values
          /\ intrusive => enqueue[p].node # Dummy
      BY <3>1 DEF Inv, Entering
    <3>3. link' = link /\ data' = data /\ unused' = unused /\ intrusive' = intrusive
      BY <1>1
    <3>4. QED
      BY <2>5, <3>1, <3>2, <3>3
  <2>8. /\ enqueue'[Consumer].node = Dummy
        /\ enqueue'[Consumer].at = "exchange" => link'[Dummy] = nullptr
        /\ intrusive' => Dummy \notin unused'
    BY <1>1, <2>2 DEF Inv, Entering
  <2>9. \A p, q \in Producers :
          enqueue'[p].at = "exchange" /\ enqueue'[q].at = "exchange"
            /\ enqueue'[p].node = enqueue'[q].node => p = q
    BY <2>1 DEF Inv, Entering
  <2>10. QED
    BY <2>4, <2>6, <2>7, <2>8, <2>9 DEF Entering, InChain
<1>10. Accounted'
  BY <1>n, <1>1, <1>3, <1>5, <1>g DEF Inv, Accounted
<1>11. Walking'
  <2>1. c = Consumer => n = Dummy
    BY <1>n DEF Inv, Entering
  <2>2. last >= 2 => chain'[2] = chain[2]
    BY <1>2
  <2>3. dequeue.at = "again" /\ enqueue'[Consumer].at \in {"outside", "link"} => InChain(Dummy)'
    BY <1>3, <1>g, <2>1 DEF Inv, Walking
  <2>4. QED
    BY <1>1, <1>2, <2>2, <2>3 DEF Inv, Walking
<1>12. Undisturbed'
  BY <1>1, <1>2, <1>3 DEF Inv, Undisturbed, Emptied, TypeOK, Callers, Walking
<1>13. QED
  BY <1>6, <1>7, <1>8, <1>9, <1>10, <1>11, <1>12 DEF Inv
LEMMA LinkPreserves ==
  ASSUME Inv, NEW c \in Callers, Link(c)
  PROVE  Inv'
<1> USE QueueAssumption DEF at
<1>1. /\ TypeOK
      /\ enqueue[c].at = "link"
      /\ link' = [link EXCEPT ![enqueue[c].previous] = enqueue[c].node]
      /\ enqueue' = [enqueue EXCEPT ![c] = Returned]
      /\ UNCHANGED <<m_head, m_tail, unused, dequeue, chain, overlapped, result, intrusive, data,
                     sent, life>>
  BY DEF Link, consumer_vars, Inv, TypeOK
<1>l. PICK last \in Nat : last = Len(chain)
  BY <1>1, LenProperties DEF TypeOK
<1>2. PICK k \in 1 .. last - 1 : Owes(c, k)
  BY <1>1, <1>l DEF Inv, Linked
<1>3. /\ \A i \in 1 .. last : chain[i] \in Nodes
      /\ \A i, j \in 1 .. last : chain[i] = chain[j] => i = j
      /\ link[chain[k]] = nullptr
      /\ enqueue[c].previous = chain[k]
      /\ link'[chain[k]] = chain[k + 1]
      /\ \A m \in Nodes : m # chain[k] => link'[m] = link[m]
  BY <1>1, <1>l, <1>2 DEF Inv, TypeOK, Chained, Owes
<1>4. /\ enqueue'[c] = Returned
      /\ \A d \in Callers : d # c => enqueue'[d] = enqueue[d]
      /\ Producers \subseteq Callers /\ Consumer \in Callers
  BY <1>1 DEF TypeOK, Callers
<1>5. TypeOK'
  <2>1. enqueue' \in [Callers -> [at : {"outside", "clear", "exchange", "link"},
                                  node : Nodes, previous : Nodes]]
    BY <1>1 DEF TypeOK, Returned
  <2>2. link' \in [Nodes -> Nodes \cup {nullptr}]
    BY <1>1 DEF TypeOK
  <2>3. enqueue'[Consumer].at # "outside" => intrusive' /\ dequeue'.at = "again"
    BY <1>1, <1>4 DEF TypeOK, Returned
  <2>4. QED
    BY <1>1, <2>1, <2>2, <2>3 DEF TypeOK
<1>6. Chained'
  BY <1>1 DEF Inv, Chained
<1>7. Linked'
  <2>1. link'[m_head'] = nullptr
    BY <1>1, <1>2, <1>3, <1>l DEF Inv, Linked, Chained
  <2>2. ASSUME NEW d \in Callers, NEW i \in 1 .. last - 1, Owes(d, i), d # c
        PROVE  Owes(d, i)'
    <3>1. chain[i] # chain[k]
      BY <1>1, <1>2, <2>2 DEF Owes, Inv, Linked
    <3>2. link'[chain[i]] = nullptr /\ enqueue'[d] = enqueue[d] /\ chain' = chain
      BY <1>1, <1>3, <1>4, <2>2, <3>1 DEF Owes
    <3>3. QED
      BY <2>2, <3>2 DEF Owes
  <2>3. ASSUME NEW i \in 1 .. last - 1
        PROVE  link'[chain[i]] = chain[i + 1] \/ \E d \in Callers : Owes(d, i)'
    <3>1. CASE i = k
      BY <1>3, <3>1
    <3>2. CASE i # k
      <4>1. chain[i] # chain[k]
        BY <1>3, <3>2
      <4>2. CASE link[chain[i]] = chain[i + 1]
        BY <1>3, <4>1, <4>2
      <4>3. CASE \E d \in Callers : Owes(d, i)
        BY <1>2, <2>2, <4>1, <4>3 DEF Owes
      <4>4. QED
        BY <1>l, <4>2, <4>3 DEF Inv, Linked
    <3>3. QED
      BY <3>1, <3>2
  <2>4. ASSUME NEW d \in Callers, enqueue'[d].at = "link"
        PROVE  \E i \in 1 .. last - 1 : Owes(d, i)'
    <3>1. d # c /\ enqueue[d].at = "link"
      BY <1>4, <2>4 DEF Returned
    <3>2. QED
      BY <1>l, <2>2, <3>1 DEF Inv, Linked
  <2>5. \A d, e \in Callers :
          enqueue'[d].at = "link" /\ enqueue'[e].at = "link"
            /\ enqueue'[d].previous = enqueue'[e].previous => d = e
    BY <1>4 DEF Inv, Linked, Returned
  <2>6. QED
    BY <1>1, <1>l, <2>1, <2>3, <2>4, <2>5 DEF Linked
<1>8. Entering'
  <2>1. InChain(chain[k])
    BY <1>2, <1>l DEF InChain
  <2>2. \A p \in Producers : enqueue'[p].at \in {"clear", "exchange"} =>
          /\ enqueue'[p] = enqueue[p]
          /\ enqueue[p].at = "exchange" => link'[enqueue[p].node] = nullptr
    BY <1>1, <1>3, <1>4, <2>1 DEF Inv, Entering, Returned, TypeOK
  <2>3. /\ enqueue'[Consumer].node = Dummy
        /\ enqueue'[Consumer].at \in {"clear", "exchange"} =>
             enqueue'[Consumer].at = enqueue[Consumer].at
    BY <1>4 DEF Inv, Entering, Returned
  <2>4. enqueue'[Consumer].at = "exchange" => link'[Dummy] = nullptr
    BY <1>3, <2>1, <2>3 DEF Inv, Entering
  <2>5. QED
    BY <1>1, <2>2, <2>3, <2>4 DEF Inv, Entering, InChain
<1>9. Accounted'
  BY <1>1, <1>4 DEF Inv, Accounted, InChain
<1>10. Walking'
  <2>1. dequeue.at \in {"skip", "true"} => link'[m_tail] = chain[2]
    BY <1>1, <1>3, <1>l DEF Inv, Walking, Chained
  <2>2. enqueue'[Consumer].at \in {"outside", "link"} =>
          enqueue[Consumer].at \in {"outside", "link"}
    BY <1>1, <1>4
  <2>3. QED
    BY <1>1, <2>1, <2>2 DEF Inv, Walking, InChain
<1>11. Undisturbed'
  BY <1>1, <1>4 DEF Inv, Undisturbed, Emptied, Returned
<1>12. QED
  BY <1>5, <1>6, <1>7, <1>8, <1>9, <1>10, <1>11 DEF Inv
-----------------------------------------------------------------------------
(* A link that can be read leads to the next node of the chain, and the    *)
(* link of the first node is missing only if it is the last, or owed.      *)
LinkReadable ==
  /\ link[m_tail] # nullptr =>
       Len(chain) >= 2 /\ link[m_tail] = chain[2] /\ chain[2] \in Nodes /\ chain[2] # m_tail
  /\ link[m_tail] = nullptr /\ (\A c \in Callers : at(c) # "link") => Len(chain) = 1

LEMMA Readable == TypeOK /\ Chained /\ Linked => LinkReadable
<1> SUFFICES ASSUME TypeOK, Chained, Linked PROVE LinkReadable
  OBVIOUS
<1>1. Len(chain) \in Nat /\ Len(chain) >= 1 /\ chain[1] = m_tail /\ chain[Len(chain)] = m_head
  BY LenProperties DEF TypeOK, Chained
<1>2. ASSUME link[m_tail] # nullptr
      PROVE  Len(chain) >= 2 /\ link[m_tail] = chain[2] /\ chain[2] \in Nodes /\ chain[2] # m_tail
  <2>1. Len(chain) >= 2
    BY <1>1, <1>2 DEF Linked
  <2>2. chain[2] \in Nodes /\ chain[2] # m_tail
    BY <1>1, <2>1 DEF TypeOK, Chained
  <2>3. link[chain[1]] = chain[2]
    BY <1>1, <1>2, <2>1 DEF Linked, Owes
  <2>4. QED
    BY <1>1, <2>1, <2>2, <2>3
<1>3. ASSUME link[m_tail] = nullptr, \A c \in Callers : at(c) # "link"
      PROVE  Len(chain) = 1
  <2> SUFFICES ASSUME Len(chain) >= 2 PROVE FALSE
    BY <1>1
  <2>1. chain[2] \in Nodes
    BY <1>1 DEF TypeOK
  <2>2. link[chain[1]] = chain[2]
    BY <1>1, <1>3 DEF Linked, Owes
  <2>3. QED
    BY <1>1, <1>3, <2>1, <2>2, QueueAssumption
<1>4. QED
  BY <1>2, <1>3 DEF LinkReadable

(* A step of the consumer that leaves the list as it is.                   *)
LEMMA ListKept ==
  ASSUME Inv, UNCHANGED <<intrusive, m_head, m_tail, link, data, unused, enqueue, chain>>,
         life' = life \/ (life # "gone" /\ life' # "gone")
  PROVE  Chained' /\ Linked' /\ Entering' /\ Accounted'
<1>1. Chained'
  BY DEF Inv, Chained
<1>2. Linked'
  BY DEF Inv, Linked, Owes, at
<1>3. Entering'
  BY DEF Inv, Entering, InChain, at
<1>4. Accounted'
  BY DEF Inv, Accounted, InChain, at
<1>5. QED
  BY <1>1, <1>2, <1>3, <1>4

LEMMA AskPreserves ==
  ASSUME Inv, Ask
  PROVE  Inv'
<1> USE QueueAssumption DEF Ask, consumer_vars
<1>1. Chained' /\ Linked' /\ Entering' /\ Accounted'
  BY ListKept
<1>2. TypeOK'
  BY DEF Inv, TypeOK
<1>3. Walking'
  BY DEF Inv, TypeOK, Walking
<1>4. Undisturbed'
  BY DEF Inv, Undisturbed, TypeOK, at, Emptied
<1>5. QED
  BY <1>1, <1>2, <1>3, <1>4 DEF Inv

LEMMA LoadNextPreserves ==
  ASSUME Inv, LoadNext
  PROVE  Inv'
<1>1. /\ dequeue.at = "tail"
      /\ dequeue' = [at |-> go_on(m_tail, link[m_tail]), tail |-> m_tail, next |-> link[m_tail]]
      /\ UNCHANGED <<m_head, m_tail, link, unused, enqueue, chain, overlapped, result, intrusive,
                     data, sent, life>>
  BY DEF LoadNext, consumer_vars
<1>2. TypeOK /\ enqueue[Consumer].at = "outside" /\ m_tail \in Nodes
  BY <1>1 DEF Inv, TypeOK
<1>3. Chained' /\ Linked' /\ Entering' /\ Accounted'
  BY <1>1, ListKept
<1>4. TypeOK'
  <2>1. dequeue' \in [at : {"outside", "tail", "skip", "head", "again", "true", "false"},
                      tail : Nodes, next : Nodes \cup {nullptr}]
    BY <1>1, <1>2 DEF TypeOK, go_on
  <2>2. QED
    BY <1>1, <1>2, <2>1 DEF TypeOK
<1>5. Walking'
  BY <1>1, <1>2, Readable DEF Inv, LinkReadable, Walking, go_on
<1>6. Undisturbed'
  <2>1. dequeue'.at \in {"head", "false"} => link[m_tail] = nullptr
    BY <1>1, <1>2 DEF go_on
  <2>2. ~ overlapped => \A c \in Callers : at(c) # "link"
    BY <1>1, <1>2 DEF Inv, Undisturbed, Callers, at
  <2>3. dequeue'.at \in {"head", "false"} /\ ~ overlapped => Len(chain) = 1
    BY <2>1, <2>2, Readable DEF Inv, LinkReadable
  <2>4. dequeue'.at = "false" /\ intrusive => m_tail = Dummy
    BY <1>1, <2>1 DEF go_on
  <2>5. QED
    BY <1>1, <2>3, <2>4 DEF Inv, Undisturbed, Emptied, at
<1>7. QED
  BY <1>3, <1>4, <1>5, <1>6 DEF Inv

LEMMA CompareHeadPreserves ==
  ASSUME Inv, CompareHead
  PROVE  Inv'
<1> USE QueueAssumption
<1>1. /\ dequeue.at = "head"
      /\ UNCHANGED <<m_head, m_tail, link, unused, chain, overlapped, result, intrusive, data,
                     sent, life>>
      /\ TypeOK /\ enqueue[Consumer].at = "outside"
      /\ intrusive /\ m_tail # Dummy /\ dequeue.tail = m_tail /\ dequeue.next = nullptr
  BY DEF CompareHead, consumer_vars, Inv, TypeOK, Walking
<1>2. CASE m_tail # m_head
  <2>1. dequeue' = [dequeue EXCEPT !.at = "false"] /\ enqueue' = enqueue
    BY <1>1, <1>2 DEF CompareHead
  <2>2. Chained' /\ Linked' /\ Entering' /\ Accounted'
    BY <1>1, <2>1, ListKept
  <2>3. TypeOK'
    BY <1>1, <2>1 DEF TypeOK
  <2>4. Walking'
    BY <1>1, <2>1 DEF Walking, TypeOK
  <2>5. Undisturbed'
    <3>1. overlapped
      BY <1>1, <1>2 DEF Inv, Chained, Undisturbed
    <3>2. QED
      BY <1>1, <2>1, <3>1 DEF Inv, Undisturbed, Emptied, at, TypeOK
  <2>6. QED
    BY <2>2, <2>3, <2>4, <2>5 DEF Inv
<1>3. CASE m_tail = m_head
  <2>1. /\ dequeue' = [dequeue EXCEPT !.at = "again"]
        /\ enqueue' = [enqueue EXCEPT ![Consumer].at = "clear"]
    BY <1>1, <1>3 DEF CompareHead
  <2>2. /\ enqueue'[Consumer].at = "clear"
        /\ enqueue'[Consumer].node = enqueue[Consumer].node
        /\ \A p \in Producers : enqueue'[p] = enqueue[p]
        /\ \A c \in Callers : c # Consumer => enqueue'[c] = enqueue[c]
        /\ Consumer \in Callers
    BY <1>1, <2>1 DEF TypeOK, Callers
  <2>3. Len(chain) = 1 /\ ~ InChain(Dummy)
    <3>1. Len(chain) \in Nat /\ Len(chain) >= 1
      BY <1>1, LenProperties DEF Inv, Chained, TypeOK
    <3>2. 1 \in 1 .. Len(chain) /\ Len(chain) \in 1 .. Len(chain)
      BY <3>1
    <3>3. Len(chain) = 1
      BY <1>3, <3>2 DEF Inv, Chained
    <3>4. QED
      BY <1>1, <3>3 DEF Inv, Chained, InChain
  <2>4. TypeOK'
    <3>1. enqueue' \in [Callers -> [at : {"outside", "clear", "exchange", "link"},
                                    node : Nodes, previous : Nodes]]
      <4>1. [enqueue[Consumer] EXCEPT !.at = "clear"]
              \in [at : {"outside", "clear", "exchange", "link"}, node : Nodes, previous : Nodes]
        BY <1>1, <2>2 DEF TypeOK
      <4>2. enqueue' = [enqueue EXCEPT ![Consumer] = [enqueue[Consumer] EXCEPT !.at = "clear"]]
        BY <2>1
      <4>3. QED
        BY <1>1, <4>1, <4>2 DEF TypeOK
    <3>2. dequeue' \in [at : {"outside", "tail", "skip", "head", "again", "true", "false"},
                        tail : Nodes, next : Nodes \cup {nullptr}]
      BY <1>1, <2>1 DEF TypeOK
    <3>3. dequeue'.at = "again"
      BY <1>1, <2>1 DEF TypeOK
    <3>4. QED
      BY <1>1, <3>1, <3>2, <3>3 DEF TypeOK
  <2>5. Chained'
    BY <1>1 DEF Inv, Chained
  <2>6. Linked'
    BY <1>1, <2>2, <2>3 DEF Inv, Linked, at, Owes
  <2>7. Entering'
    BY <1>1, <2>2, <2>3 DEF Inv, Entering, InChain, at
  <2>8. Accounted'
    BY <1>1, <2>2 DEF Inv, Accounted, InChain, at
  <2>9. Walking'
    BY <1>1, <2>1, <2>2 DEF Walking, TypeOK, at
  <2>10. Undisturbed'
    BY <1>1, <2>1, <2>2 DEF Inv, Undisturbed, Emptied, at, TypeOK
  <2>11. QED
    BY <2>4, <2>5, <2>6, <2>7, <2>8, <2>9, <2>10 DEF Inv
<1>4. QED
  BY <1>2, <1>3
LEMMA LoadAgainPreserves ==
  ASSUME Inv, LoadAgain
  PROVE  Inv'
<1> USE QueueAssumption
<1>1. /\ dequeue.at = "again"
      /\ enqueue[Consumer].at = "outside"
      /\ dequeue'.at = IF link[m_tail] = nullptr THEN "false" ELSE "true"
      /\ dequeue'.tail = m_tail /\ dequeue'.next = link[m_tail]
      /\ dequeue' \in [at : {"outside", "tail", "skip", "head", "again", "true", "false"},
                       tail : Nodes, next : Nodes \cup {nullptr}]
      /\ UNCHANGED <<m_head, m_tail, link, unused, enqueue, chain, overlapped, result, intrusive,
                     data, sent, life>>
      /\ TypeOK /\ LinkReadable
      /\ intrusive /\ m_tail # Dummy /\ InChain(Dummy)
  BY Readable DEF LoadAgain, consumer_vars, Inv, TypeOK, Walking, at
<1>2. Chained' /\ Linked' /\ Entering' /\ Accounted'
  BY <1>1, ListKept
<1>3. TypeOK'
  BY <1>1 DEF TypeOK
<1>4. Walking'
  BY <1>1 DEF LinkReadable, Walking
<1>5. Undisturbed'
  <2>1. Len(chain) # 1
    BY <1>1 DEF Inv, Chained, InChain
  <2>2. dequeue'.at = "false" => overlapped
    BY <1>1, <2>1 DEF LinkReadable, Inv, Undisturbed, Callers, at
  <2>3. QED
    BY <1>1, <2>2 DEF Inv, Undisturbed, Emptied, at
<1>6. QED
  BY <1>2, <1>3, <1>4, <1>5 DEF Inv

LEMMA TakeNothingPreserves ==
  ASSUME Inv, TakeNothing
  PROVE  Inv'
<1>1. /\ dequeue.at = "false"
      /\ dequeue' = [dequeue EXCEPT !.at = "outside"]
      /\ result' = nullptr
      /\ life' = IF life = "draining" THEN "drained" ELSE life
      /\ UNCHANGED <<intrusive, m_head, m_tail, link, data, unused, enqueue, sent, chain,
                     overlapped>>
      /\ TypeOK
  BY DEF TakeNothing, Inv
<1>2. dequeue'.at = "outside" /\ enqueue[Consumer].at = "outside"
  BY <1>1 DEF TypeOK
<1>3. Chained' /\ Linked' /\ Entering' /\ Accounted'
  BY <1>1, ListKept
<1>4. TypeOK'
  BY <1>1, <1>2 DEF TypeOK
<1>5. Walking'
  BY <1>2 DEF Walking
<1>6. Undisturbed'
  BY <1>1, <1>2 DEF Inv, Undisturbed, Emptied, at, TypeOK
<1>7. QED
  BY <1>3, <1>4, <1>5, <1>6 DEF Inv

LEMMA DestroyPreserves ==
  ASSUME Inv, Destroy
  PROVE  Inv'
<1> USE DEF Destroy, destructor_vars
<1>1. Chained' /\ Linked' /\ Entering' /\ Accounted'
  BY ListKept
<1>2. TypeOK'
  BY DEF Inv, TypeOK
<1>3. Walking'
  BY DEF Inv, Walking, InChain, at
<1>4. Undisturbed'
  BY DEF Inv, Undisturbed, Emptied, at
<1>5. QED
  BY <1>1, <1>2, <1>3, <1>4 DEF Inv

LEMMA DeleteFrontPreserves ==
  ASSUME Inv, DeleteFront
  PROVE  Inv'
<1> USE DEF DeleteFront, destructor_vars
<1>1. /\ Emptied /\ dequeue.at = "outside" /\ TypeOK
      /\ enqueue[Consumer].at = "outside"
      /\ \A p \in Producers : enqueue[p].at = "outside"
      /\ m_tail = m_head /\ m_tail \in Nodes
      /\ \A n : InChain(n) => n = m_tail
  <2>1. Emptied /\ dequeue.at = "outside" /\ TypeOK /\ life = "drained"
    BY DEF Inv, Undisturbed
  <2>2. \A p \in Producers : enqueue[p].at = "outside"
    BY <2>1 DEF Inv, Undisturbed, at
  <2>3. enqueue[Consumer].at = "outside"
    BY <2>1 DEF TypeOK
  <2>4. m_tail = m_head /\ m_tail \in Nodes
    BY <2>1 DEF Inv, Chained, Emptied, TypeOK
  <2>5. \A n : InChain(n) => n = m_tail
    BY <2>1 DEF Inv, Chained, Emptied, InChain
  <2>6. QED
    BY <2>1, <2>2, <2>3, <2>4, <2>5
<1>2. TypeOK'
  BY <1>1 DEF TypeOK
<1>3. Chained'
  BY DEF Inv, Chained
<1>4. Linked'
  BY DEF Inv, Linked, Owes, at
<1>5. Entering'
  BY <1>1 DEF Inv, Entering, InChain, at
<1>6. Accounted' /\ Walking'
  BY <1>1 DEF Accounted, Walking
<1>7. Undisturbed'
  <2>1. unused' = IF intrusive THEN Nodes \ {Dummy} ELSE Nodes
    <3>1. CASE intrusive
      <4>1. m_tail = Dummy /\ Dummy \notin unused /\ unused' = unused
        BY <1>1, <3>1 DEF Inv, Entering, Emptied
      <4>2. Nodes \ {Dummy} \subseteq unused
        BY <1>1, <4>1 DEF Inv, Accounted, at
      <4>3. QED
        BY <1>1, <3>1, <4>1, <4>2 DEF TypeOK
    <3>2. CASE ~ intrusive
      <4>1. unused' = unused \cup {m_tail}
        BY <1>1, <3>2
      <4>2. Nodes \subseteq unused'
        BY <1>1, <3>2, <4>1 DEF Inv, Accounted, at
      <4>3. QED
        BY <1>1, <3>2, <4>1, <4>2 DEF TypeOK
    <3>3. QED
      BY <3>1, <3>2
  <2>2. QED
    BY <1>1, <2>1 DEF Undisturbed, Emptied, at
<1>8. QED
  BY <1>2, <1>3, <1>4, <1>5, <1>6, <1>7 DEF Inv
-----------------------------------------------------------------------------
(* The first node leaves the chain: a dummy that is skipped, or the tail   *)
(* that is returned or deleted.                                            *)
FrontLeaves ==
  /\ chain' = Tail(chain)
  /\ m_tail' = dequeue.next
  /\ dequeue.at \in {"skip", "true"}
  /\ IF dequeue.at = "true" THEN unused' = unused \cup {m_tail} ELSE unused' = unused
  /\ UNCHANGED <<intrusive, m_head, link, data, enqueue, life>>

LEMMA FrontLeavesPreserves ==
  ASSUME Inv, FrontLeaves
  PROVE  /\ Chained' /\ Linked' /\ Entering' /\ Accounted'
         /\ chain' \in Seq(Nodes) /\ Len(chain) \in Nat /\ Len(chain') = Len(chain) - 1
         /\ m_tail \in Nodes /\ m_tail' \in Nodes /\ m_tail' # m_tail
         /\ enqueue[Consumer].at = "outside"
<1> USE QueueAssumption DEF FrontLeaves
<1>l. PICK last \in Nat : last = Len(chain)
  BY LenProperties DEF Inv, TypeOK
<1>1. /\ TypeOK /\ last >= 2
      /\ chain' \in Seq(Nodes)
      /\ Len(chain') = last - 1
      /\ \A i \in 1 .. last - 1 : chain'[i] = chain[i + 1]
      /\ \A i \in 1 .. last : chain[i] \in Nodes
      /\ \A i, j \in 1 .. last : chain[i] = chain[j] => i = j
      /\ chain[1] = m_tail /\ m_tail' = chain[2] /\ chain[last] = m_head
      /\ link[chain[1]] = chain[2]
      /\ enqueue[Consumer].at = "outside"
  <2>1. TypeOK /\ last >= 2 /\ m_tail' = chain[2] /\ link[m_tail] = chain[2]
    BY <1>l DEF Inv, Walking
  <2>2. /\ \A i \in 1 .. last : chain[i] \in Nodes
        /\ \A i, j \in 1 .. last : chain[i] = chain[j] => i = j
        /\ chain[1] = m_tail /\ chain[last] = m_head
    BY <1>l DEF Inv, TypeOK, Chained
  <2>3. /\ chain' \in Seq(Nodes)
        /\ Len(chain') = last - 1
        /\ \A i \in 1 .. last - 1 : chain'[i] = chain[i + 1]
    BY <1>l, <2>1, Shortened DEF TypeOK
  <2>4. enqueue[Consumer].at = "outside"
    BY <2>1 DEF TypeOK
  <2>5. QED
    BY <2>1, <2>2, <2>3, <2>4
<1>g. \A m : InChain(m) <=> InChain(m)' \/ m = m_tail
  <2>1. ASSUME NEW m, InChain(m) PROVE InChain(m)' \/ m = m_tail
    <3>1. PICK i \in 1 .. last : chain[i] = m
      BY <1>l, <2>1 DEF InChain
    <3>2. CASE i = 1
      BY <1>1, <3>1, <3>2
    <3>3. CASE i # 1
      <4>1. i - 1 \in 1 .. last - 1 /\ chain'[i - 1] = m
        BY <1>1, <3>1, <3>3
      <4>2. QED
        BY <1>1, <4>1 DEF InChain
    <3>4. QED
      BY <3>2, <3>3
  <2>2. ASSUME NEW m, InChain(m)' PROVE InChain(m)
    <3>1. PICK i \in 1 .. last - 1 : chain'[i] = m
      BY <1>1, <2>2 DEF InChain
    <3>2. i + 1 \in 1 .. last /\ chain[i + 1] = m
      BY <1>1, <3>1
    <3>3. QED
      BY <1>l, <3>2 DEF InChain
  <2>3. InChain(m_tail)
    BY <1>l, <1>1 DEF InChain
  <2>4. QED
    BY <2>1, <2>2, <2>3
<1>2. Chained'
  <2>1. \A i \in 1 .. last - 1 : i + 1 \in 1 .. last /\ chain'[i] # m_tail
    BY <1>1
  <2>2. life # "gone" => \A i \in 1 .. last - 1 : chain'[i] \notin unused'
    BY <1>1, <1>l, <2>1 DEF Inv, Chained
  <2>3. \A i, j \in 1 .. last - 1 : chain'[i] = chain'[j] => i = j
    BY <1>1
  <2>4. chain'[1] = m_tail' /\ chain'[last - 1] = m_head'
    BY <1>1
  <2>5. QED
    BY <1>1, <2>2, <2>3, <2>4 DEF Chained
<1>3. Linked'
  <2>1. ASSUME NEW c \in Callers, NEW i \in 1 .. last - 1, Owes(c, i)
        PROVE  i # 1 /\ i - 1 \in 1 .. last - 2 /\ Owes(c, i - 1)'
    <3>1. i # 1
      BY <1>1, <2>1 DEF Owes
    <3>2. chain'[i - 1] = chain[i] /\ chain'[(i - 1) + 1] = chain[i + 1]
      BY <1>1, <3>1
    <3>3. i - 1 \in 1 .. last - 2
      BY <3>1
    <3>4. Owes(c, i - 1)'
      <4>1. enqueue' = enqueue /\ link' = link
        OBVIOUS
      <4>2. QED
        BY <2>1, <3>2, <4>1 DEF Owes, at
    <3>5. QED
      BY <3>1, <3>3, <3>4
  <2>2. ASSUME NEW i \in 1 .. last - 2
        PROVE  link'[chain'[i]] = chain'[i + 1] \/ \E c \in Callers : Owes(c, i)'
    <3>1. /\ i + 1 \in 1 .. last - 1
          /\ chain'[i] = chain[i + 1] /\ chain'[i + 1] = chain[(i + 1) + 1]
          /\ (i + 1) - 1 = i
      BY <1>1
    <3>2. link[chain[i + 1]] = chain[(i + 1) + 1] \/ \E c \in Callers : Owes(c, i + 1)
      BY <1>l, <3>1 DEF Inv, Linked
    <3>3. \A c \in Callers : Owes(c, i + 1) => Owes(c, i)'
      BY <2>1, <3>1
    <3>4. QED
      BY <3>1, <3>2, <3>3
  <2>3. ASSUME NEW c \in Callers, enqueue'[c].at = "link"
        PROVE  \E i \in 1 .. last - 2 : Owes(c, i)'
    <3>1. PICK i \in 1 .. last - 1 : Owes(c, i)
      BY <1>l, <2>3 DEF Inv, Linked, at
    <3>2. QED
      BY <2>1, <3>1
  <2>4. QED
    BY <1>1, <2>2, <2>3 DEF Inv, Linked, at
<1>4. Entering'
  <2>1. \A p \in Producers : enqueue[p].at = "exchange" =>
          enqueue[p].node # m_tail /\ \A i \in 1 .. Len(chain') : chain'[i] # enqueue[p].node
    <3> SUFFICES ASSUME NEW p \in Producers, enqueue[p].at = "exchange", NEW m, m = enqueue[p].node
                 PROVE  m # m_tail /\ \A i \in 1 .. Len(chain') : chain'[i] # m
      OBVIOUS
    <3>1. ~ InChain(m)
      BY DEF Inv, Entering, at
    <3>2. QED
      BY <1>g, <3>1 DEF InChain
  <2>2. intrusive => Dummy \notin unused'
    BY DEF Inv, Entering, Walking
  <2>3. QED
    BY <1>1, <2>1, <2>2 DEF Inv, Entering, InChain, at
<1>5. Accounted'
  <2>1. (intrusive /\ m_tail = Dummy) \/ m_tail \in unused'
    BY DEF Inv, Walking
  <2>2. QED
    BY <1>g, <2>1 DEF Inv, Accounted, at
<1>6. QED
  BY <1>1, <1>l, <1>2, <1>3, <1>4, <1>5
LEMMA SkipDummyPreserves ==
  ASSUME Inv, SkipDummy
  PROVE  Inv'
<1> USE QueueAssumption
<1>1. /\ dequeue.at = "skip"
      /\ m_tail' = dequeue.next
      /\ chain' = Tail(chain)
      /\ dequeue' = [at |-> go_on(m_tail', link[m_tail']), tail |-> m_tail', next |-> link[m_tail']]
      /\ UNCHANGED <<m_head, link, unused, enqueue, overlapped, result, intrusive, data, sent, life>>
      /\ TypeOK
  BY DEF SkipDummy, consumer_vars, Inv
<1>2. FrontLeaves
  BY <1>1 DEF FrontLeaves
<1>3. /\ Chained' /\ Linked' /\ Entering' /\ Accounted'
      /\ chain' \in Seq(Nodes)
      /\ m_tail' \in Nodes /\ m_tail' # m_tail
      /\ enqueue[Consumer].at = "outside"
  BY <1>2, FrontLeavesPreserves
<1>4. TypeOK'
  <2>1. dequeue' \in [at : {"outside", "tail", "skip", "head", "again", "true", "false"},
                      tail : Nodes, next : Nodes \cup {nullptr}]
    BY <1>1, <1>3 DEF TypeOK, go_on
  <2>2. QED
    BY <1>1, <1>3, <2>1 DEF TypeOK
<1>5. LinkReadable'
  BY <1>3, <1>4, Readable, PTL
<1>6. intrusive /\ m_tail = Dummy
  BY <1>1 DEF Inv, Walking
<1>7. Walking'
  BY <1>1, <1>3, <1>5, <1>6 DEF Walking, LinkReadable, go_on
<1>8. Undisturbed'
  <2>1. dequeue'.at # "false"  /\ (dequeue'.at = "head" => link'[m_tail'] = nullptr)
    BY <1>1, <1>3, <1>6 DEF go_on
  <2>2. ~ overlapped => \A c \in Callers : enqueue'[c].at # "link"
    BY <1>1, <1>3 DEF Inv, Undisturbed, Callers, at
  <2>3. dequeue'.at = "head" /\ ~ overlapped => Len(chain') = 1
    BY <1>5, <2>1, <2>2 DEF LinkReadable, at
  <2>4. QED
    BY <1>1, <2>1, <2>3 DEF Inv, Undisturbed, at, Emptied
<1>9. QED
  BY <1>3, <1>4, <1>7, <1>8 DEF Inv

LEMMA TakePreserves ==
  ASSUME Inv, Take
  PROVE  Inv'
<1>1. /\ dequeue.at = "true"
      /\ m_tail' = dequeue.next
      /\ chain' = Tail(chain)
      /\ result' = data[IF intrusive THEN dequeue.tail ELSE dequeue.next]
      /\ unused' = unused \cup {m_tail}
      /\ dequeue' = [dequeue EXCEPT !.at = "outside"]
      /\ UNCHANGED <<m_head, link, enqueue, overlapped, intrusive, data, sent, life>>
      /\ TypeOK /\ dequeue.tail = m_tail
  BY DEF Take, consumer_vars, Inv, Walking
<1>2. FrontLeaves
  BY <1>1 DEF FrontLeaves
<1>3. /\ Chained' /\ Linked' /\ Entering' /\ Accounted'
      /\ chain' \in Seq(Nodes)
      /\ m_tail \in Nodes /\ m_tail' \in Nodes
      /\ enqueue[Consumer].at = "outside"
  BY <1>2, FrontLeavesPreserves
<1>4. dequeue'.at = "outside"
  BY <1>1 DEF TypeOK
<1>5. TypeOK'
  <2>1. result' \in Values \cup {nullptr}
    BY <1>1, <1>3 DEF TypeOK
  <2>2. dequeue' \in [at : {"outside", "tail", "skip", "head", "again", "true", "false"},
                      tail : Nodes, next : Nodes \cup {nullptr}]
    BY <1>1 DEF TypeOK
  <2>3. QED
    BY <1>1, <1>3, <2>1, <2>2 DEF TypeOK
<1>6. Walking'
  BY <1>4 DEF Walking
<1>7. Undisturbed'
  BY <1>1, <1>4 DEF Inv, Undisturbed, at
<1>8. QED
  BY <1>3, <1>5, <1>6, <1>7 DEF Inv

LEMMA StepPreserves ==
  ASSUME Inv, [Next]_vars
  PROVE  Inv'
<1>1. CASE \E p \in Producers : Producer(p)
  <2>1. PICK p \in Producers : Producer(p)
    BY <1>1
  <2>2. p \in Callers
    BY DEF Callers
  <2>3. QED
    BY <2>1, <2>2, CallPreserves, ExchangePreserves, LinkPreserves DEF Producer
<1>2. CASE Dequeue
  <2>1. Consumer \in Callers
    BY DEF Callers
  <2>2. QED
    BY <1>2, <2>1, AskPreserves, LoadNextPreserves, SkipDummyPreserves, CompareHeadPreserves,
       LoadAgainPreserves, TakePreserves, TakeNothingPreserves, ClearDummyPreserves,
       ExchangePreserves, LinkPreserves DEF Dequeue
<1>3. CASE Destroy
  BY <1>3, DestroyPreserves
<1>4. CASE DeleteFront
  BY <1>4, DeleteFrontPreserves
<1>5. CASE UNCHANGED vars
  <2> USE <1>5 DEF vars
  <2>1. Chained' /\ Linked' /\ Entering' /\ Accounted'
    BY ListKept
  <2>2. TypeOK' /\ Walking' /\ Undisturbed'
    BY DEF Inv, TypeOK, Walking, Undisturbed, Emptied, InChain, at
  <2>3. QED
    BY <2>1, <2>2 DEF Inv
<1>6. QED
  BY <1>1, <1>2, <1>3, <1>4, <1>5 DEF Next

(* The invariant, for either variant and any number of producers, items    *)
(* and nodes.                                                              *)
THEOREM Invariance == Spec => []Inv
<1>1. Inv /\ [Next]_vars => Inv'
  BY StepPreserves
<1>2. QED
  BY <1>1, Initially, PTL DEF Spec

(* The state of the queue and of every call keeps its type.                *)
THEOREM TypeCorrect == Spec => []TypeOK
<1>1. Inv => TypeOK
  BY DEF Inv
<1>2. QED
  BY <1>1, Invariance, PTL
-----------------------------------------------------------------------------
(* Sequences from which an element has been removed.                       *)
Once(s, k) == \A i \in 1 .. Len(s) : s[i] = s[k] => i = k

LEMMA NotRemoved ==
  ASSUME NEW s, NEW e, \A i \in 1 .. Len(s) : s[i] # e
  PROVE  RemoveFirst(s, e) = s
BY DEF RemoveFirst

LEMMA Removed ==
  ASSUME NEW S, NEW s \in Seq(S), NEW k \in 1 .. Len(s), Once(s, k)
  PROVE  /\ RemoveFirst(s, s[k]) \in Seq(S)
         /\ Len(RemoveFirst(s, s[k])) = Len(s) - 1
         /\ \A i \in 1 .. Len(s) - 1 :
              RemoveFirst(s, s[k])[i] = IF i < k THEN s[i] ELSE s[i + 1]
<1>1. Len(s) \in Nat /\ k \in Nat /\ 1 <= k /\ k <= Len(s)
  BY LenProperties
<1>2. {i \in 1 .. Len(s) : s[i] = s[k]} = {k}
  BY DEF Once
<1>3. SelectInSeq(s, LAMBDA v : v = s[k]) = k
  BY <1>1, <1>2 DEF SelectInSeq, Min
<1>4. RemoveFirst(s, s[k]) = SubSeq(s, 1, k - 1) \o SubSeq(s, k + 1, Len(s))
  BY <1>3 DEF RemoveFirst, RemoveAt
<1>5. /\ SubSeq(s, 1, k - 1) \in Seq(S)
      /\ Len(SubSeq(s, 1, k - 1)) = k - 1
      /\ \A i \in 1 .. k - 1 : SubSeq(s, 1, k - 1)[i] = s[i]
  BY <1>1
<1>6. /\ SubSeq(s, k + 1, Len(s)) \in Seq(S)
      /\ Len(SubSeq(s, k + 1, Len(s))) = Len(s) - k
      /\ \A i \in 1 .. Len(s) - k : SubSeq(s, k + 1, Len(s))[i] = s[k + i]
  BY <1>1
<1>7. PICK before \in Seq(S), after \in Seq(S) :
        /\ RemoveFirst(s, s[k]) = before \o after
        /\ Len(before) = k - 1 /\ \A i \in 1 .. k - 1 : before[i] = s[i]
        /\ Len(after) = Len(s) - k /\ \A i \in 1 .. Len(s) - k : after[i] = s[k + i]
  BY <1>4, <1>5, <1>6
<1>8. /\ before \o after \in Seq(S)
      /\ Len(before \o after) = Len(s) - 1
      /\ \A i \in 1 .. Len(s) - 1 :
           (before \o after)[i] = IF i <= k - 1 THEN before[i] ELSE after[i - (k - 1)]
  <2>1. /\ before \o after \in Seq(S)
        /\ Len(before \o after) = Len(before) + Len(after)
        /\ \A i \in 1 .. Len(before) + Len(after) :
             (before \o after)[i] = IF i <= Len(before) THEN before[i] ELSE after[i - Len(before)]
    BY ConcatProperties
  <2>2. Len(before) + Len(after) = Len(s) - 1
    BY <1>1, <1>7
  <2>3. QED
    BY <1>7, <2>1, <2>2
<1>9. \A i \in 1 .. Len(s) - 1 :
        (before \o after)[i] = IF i < k THEN s[i] ELSE s[i + 1]
  <2> SUFFICES ASSUME NEW i \in 1 .. Len(s) - 1
               PROVE  (before \o after)[i] = IF i < k THEN s[i] ELSE s[i + 1]
    OBVIOUS
  <2>1. CASE i < k
    BY <1>1, <1>7, <1>8, <2>1
  <2>2. CASE ~ i < k
    <3>1. i - (k - 1) \in 1 .. Len(s) - k /\ k + (i - (k - 1)) = i + 1 /\ ~ i <= k - 1
      BY <1>1, <2>2
    <3>2. after[i - (k - 1)] = s[i + 1]
      BY <1>7, <3>1
    <3>3. QED
      BY <1>8, <2>2, <3>1, <3>2
  <2>3. QED
    BY <2>1, <2>2
<1>10. QED
  BY <1>7, <1>8, <1>9

LEMMA HeadRemoved ==
  ASSUME NEW S, NEW s \in Seq(S), Len(s) >= 1, Once(s, 1)
  PROVE  RemoveFirst(s, s[1]) = Tail(s)
<1>1. Len(s) \in Nat /\ 1 \in 1 .. Len(s) /\ s # << >>
  BY LenProperties, EmptySeq
<1>2. /\ RemoveFirst(s, s[1]) \in Seq(S)
      /\ Len(RemoveFirst(s, s[1])) = Len(s) - 1
      /\ \A i \in 1 .. Len(s) - 1 : RemoveFirst(s, s[1])[i] = s[i + 1]
  BY <1>1, Removed
<1>3. /\ Tail(s) \in Seq(S)
      /\ Len(Tail(s)) = Len(s) - 1
      /\ \A i \in 1 .. Len(s) - 1 : Tail(s)[i] = s[i + 1]
  BY <1>1, HeadTailProperties
<1>4. QED
  BY <1>2, <1>3, SeqEqual

(* What is removed may stand anywhere but behind what is appended.         *)
LEMMA RemovedFromAppend ==
  ASSUME NEW S, NEW s \in Seq(S), NEW n \in S, NEW k \in 1 .. Len(s), Once(s, k), n # s[k]
  PROVE  RemoveFirst(Append(s, n), s[k]) = Append(RemoveFirst(s, s[k]), n)
<1>1. Len(s) \in Nat /\ k \in Nat /\ 1 <= k /\ k <= Len(s)
  BY LenProperties
<1>2. PICK longer \in Seq(S) :
        /\ longer = Append(s, n)
        /\ Len(longer) = Len(s) + 1
        /\ \A i \in 1 .. Len(s) : longer[i] = s[i]
        /\ longer[Len(s) + 1] = n
  BY <1>1, AppendProperties
<1>3. PICK rest \in Seq(S) :
        /\ rest = RemoveFirst(s, s[k])
        /\ Len(rest) = Len(s) - 1
        /\ \A i \in 1 .. Len(s) - 1 : rest[i] = IF i < k THEN s[i] ELSE s[i + 1]
  BY Removed
<1>4. /\ Append(rest, n) \in Seq(S)
      /\ Len(Append(rest, n)) = Len(s)
      /\ \A i \in 1 .. Len(s) - 1 : Append(rest, n)[i] = rest[i]
      /\ Append(rest, n)[Len(s)] = n
  BY <1>1, <1>3, AppendProperties
<1>5. k \in 1 .. Len(longer) /\ longer[k] = s[k] /\ Once(longer, k)
  BY <1>1, <1>2 DEF Once
<1>6. /\ RemoveFirst(longer, s[k]) \in Seq(S)
      /\ Len(RemoveFirst(longer, s[k])) = Len(s)
      /\ \A i \in 1 .. Len(s) :
           RemoveFirst(longer, s[k])[i] = IF i < k THEN longer[i] ELSE longer[i + 1]
  <2>1. /\ RemoveFirst(longer, longer[k]) \in Seq(S)
        /\ Len(RemoveFirst(longer, longer[k])) = Len(longer) - 1
        /\ \A i \in 1 .. Len(longer) - 1 :
             RemoveFirst(longer, longer[k])[i] = IF i < k THEN longer[i] ELSE longer[i + 1]
    BY <1>5, Removed
  <2>2. Len(longer) - 1 = Len(s)
    BY <1>1, <1>2
  <2>3. QED
    BY <1>5, <2>1, <2>2
<1>7. \A i \in 1 .. Len(s) : RemoveFirst(longer, s[k])[i] = Append(rest, n)[i]
  <2> SUFFICES ASSUME NEW i \in 1 .. Len(s)
               PROVE  RemoveFirst(longer, s[k])[i] = Append(rest, n)[i]
    OBVIOUS
  <2>1. CASE i = Len(s)
    BY <1>1, <1>2, <1>4, <1>6, <2>1
  <2>2. CASE i \in 1 .. Len(s) - 1
    BY <1>1, <1>2, <1>3, <1>4, <1>6, <2>2
  <2>3. i = Len(s) \/ i \in 1 .. Len(s) - 1
    BY <1>1
  <2>4. QED
    BY <2>1, <2>2, <2>3
<1>8. RemoveFirst(longer, s[k]) = Append(rest, n)
  BY <1>4, <1>6, <1>7, SeqEqual
<1>9. QED
  BY <1>2, <1>3, <1>8

LEMMA LastRemoved ==
  ASSUME NEW S, NEW s \in Seq(S), NEW n \in S, \A i \in 1 .. Len(s) : s[i] # n
  PROVE  RemoveFirst(Append(s, n), n) = s
<1>1. Len(s) \in Nat
  BY LenProperties
<1>2. PICK longer \in Seq(S) :
        /\ longer = Append(s, n)
        /\ Len(longer) = Len(s) + 1
        /\ \A i \in 1 .. Len(s) : longer[i] = s[i]
        /\ longer[Len(s) + 1] = n
  BY <1>1, AppendProperties
<1>3. Len(s) + 1 \in 1 .. Len(longer) /\ Once(longer, Len(s) + 1)
  BY <1>1, <1>2 DEF Once
<1>4. /\ RemoveFirst(longer, n) \in Seq(S)
      /\ Len(RemoveFirst(longer, n)) = Len(s)
      /\ \A i \in 1 .. Len(s) :
           RemoveFirst(longer, n)[i] = IF i < Len(s) + 1 THEN longer[i] ELSE longer[i + 1]
  <2>1. PICK k \in 1 .. Len(longer) : k = Len(s) + 1 /\ Once(longer, k) /\ longer[k] = n
    BY <1>2, <1>3
  <2>2. /\ RemoveFirst(longer, longer[k]) \in Seq(S)
        /\ Len(RemoveFirst(longer, longer[k])) = Len(longer) - 1
        /\ \A i \in 1 .. Len(longer) - 1 :
             RemoveFirst(longer, longer[k])[i] = IF i < k THEN longer[i] ELSE longer[i + 1]
    BY <2>1, Removed
  <2>3. Len(longer) - 1 = Len(s)
    BY <1>1, <1>2
  <2>4. QED
    BY <2>1, <2>2, <2>3
<1>5. \A i \in 1 .. Len(s) : RemoveFirst(longer, n)[i] = s[i]
  BY <1>1, <1>2, <1>4
<1>6. QED
  BY <1>2, <1>4, <1>5, SeqEqual

LEMMA RemovedFromTail ==
  ASSUME NEW S, NEW s \in Seq(S), NEW k \in 1 .. Len(s), Once(s, k), k # 1
  PROVE  /\ RemoveFirst(Tail(s), s[k]) = Tail(RemoveFirst(s, s[k]))
         /\ RemoveFirst(s, s[k]) # << >>
         /\ Head(RemoveFirst(s, s[k])) = s[1]
<1>1. Len(s) \in Nat /\ k \in Nat /\ 2 <= k /\ k <= Len(s) /\ s # << >>
  BY LenProperties, EmptySeq
<1>2. PICK shorter \in Seq(S) :
        /\ shorter = Tail(s)
        /\ Len(shorter) = Len(s) - 1
        /\ \A i \in 1 .. Len(s) - 1 : shorter[i] = s[i + 1]
  <2>1. /\ Tail(s) \in Seq(S)
        /\ Len(Tail(s)) = Len(s) - 1
        /\ \A i \in 1 .. Len(s) - 1 : Tail(s)[i] = s[i + 1]
    BY <1>1, HeadTailProperties
  <2>2. QED
    BY <2>1
<1>3. PICK rest \in Seq(S) :
        /\ rest = RemoveFirst(s, s[k])
        /\ Len(rest) = Len(s) - 1
        /\ \A i \in 1 .. Len(s) - 1 : rest[i] = IF i < k THEN s[i] ELSE s[i + 1]
  BY Removed
<1>4. rest # << >> /\ rest[1] = s[1]
  BY <1>1, <1>3, EmptySeq
<1>5. /\ Tail(rest) \in Seq(S)
      /\ Len(Tail(rest)) = Len(s) - 2
      /\ \A i \in 1 .. Len(s) - 2 : Tail(rest)[i] = rest[i + 1]
  BY <1>1, <1>3, <1>4, HeadTailProperties
<1>6. k - 1 \in 1 .. Len(shorter) /\ shorter[k - 1] = s[k] /\ Once(shorter, k - 1)
  <2>1. k - 1 \in 1 .. Len(shorter) /\ shorter[k - 1] = s[k]
    BY <1>1, <1>2
  <2>2. ASSUME NEW i \in 1 .. Len(shorter), shorter[i] = s[k] PROVE i = k - 1
    <3>1. i + 1 \in 1 .. Len(s) /\ s[i + 1] = s[k]
      BY <1>1, <1>2, <2>2
    <3>2. i + 1 = k
      BY <3>1 DEF Once
    <3>3. QED
      BY <1>1, <3>2
  <2>3. QED
    BY <2>1, <2>2 DEF Once
<1>7. /\ RemoveFirst(shorter, s[k]) \in Seq(S)
      /\ Len(RemoveFirst(shorter, s[k])) = Len(s) - 2
      /\ \A i \in 1 .. Len(s) - 2 :
           RemoveFirst(shorter, s[k])[i] = IF i < k - 1 THEN shorter[i] ELSE shorter[i + 1]
  <2>1. /\ RemoveFirst(shorter, shorter[k - 1]) \in Seq(S)
        /\ Len(RemoveFirst(shorter, shorter[k - 1])) = Len(shorter) - 1
        /\ \A i \in 1 .. Len(shorter) - 1 :
             RemoveFirst(shorter, shorter[k - 1])[i] =
               IF i < k - 1 THEN shorter[i] ELSE shorter[i + 1]
    BY <1>6, Removed
  <2>2. Len(shorter) - 1 = Len(s) - 2
    BY <1>1, <1>2
  <2>3. QED
    BY <1>6, <2>1, <2>2
<1>8. \A i \in 1 .. Len(s) - 2 : RemoveFirst(shorter, s[k])[i] = Tail(rest)[i]
  <2> SUFFICES ASSUME NEW i \in 1 .. Len(s) - 2
               PROVE  RemoveFirst(shorter, s[k])[i] = Tail(rest)[i]
    OBVIOUS
  <2>1. /\ i \in 1 .. Len(s) - 1 /\ i + 1 \in 1 .. Len(s) - 1
        /\ i < k - 1 <=> i + 1 < k
    BY <1>1
  <2>2. shorter[i] = s[i + 1] /\ shorter[i + 1] = s[(i + 1) + 1]
    BY <1>2, <2>1
  <2>3. rest[i + 1] = IF i + 1 < k THEN s[i + 1] ELSE s[(i + 1) + 1]
    BY <1>3, <2>1
  <2>4. QED
    BY <1>5, <1>7, <2>1, <2>2, <2>3
<1>9. RemoveFirst(shorter, s[k]) = Tail(rest)
  BY <1>5, <1>7, <1>8, SeqEqual
<1>10. Head(rest) = s[1]
  BY <1>3, <1>4
<1>11. QED
  BY <1>2, <1>3, <1>4, <1>9, <1>10
-----------------------------------------------------------------------------
(* What the nodes of a sequence hold.                                      *)
contents(s) == [i \in DOMAIN s |-> data[s[i]]]

LEMMA ContentsAppended ==
  ASSUME TypeOK, NEW s \in Seq(Nodes), NEW n \in Nodes
  PROVE  contents(Append(s, n)) = Append(contents(s), data[n])
<1> DEFINE V == Values \cup {nullptr}
<1>1. Len(s) \in Nat /\ DOMAIN s = 1 .. Len(s) /\ \A i \in 1 .. Len(s) : s[i] \in Nodes
  BY LenProperties
<1>2. contents(s) \in Seq(V) /\ Len(contents(s)) = Len(s)
  BY <1>1 DEF contents, TypeOK
<1>3. /\ Append(s, n) \in Seq(Nodes)
      /\ Len(Append(s, n)) = Len(s) + 1
      /\ \A i \in 1 .. Len(s) : Append(s, n)[i] = s[i]
      /\ Append(s, n)[Len(s) + 1] = n
  BY <1>1, AppendProperties
<1>4. contents(Append(s, n)) \in Seq(V) /\ Len(contents(Append(s, n))) = Len(s) + 1
  BY <1>1, <1>3 DEF contents, TypeOK
<1>5. /\ Append(contents(s), data[n]) \in Seq(V)
      /\ Len(Append(contents(s), data[n])) = Len(s) + 1
      /\ \A i \in 1 .. Len(s) : Append(contents(s), data[n])[i] = contents(s)[i]
      /\ Append(contents(s), data[n])[Len(s) + 1] = data[n]
  <2>1. data[n] \in V
    BY DEF TypeOK
  <2>2. QED
    BY <1>1, <1>2, <2>1, AppendProperties
<1>6. \A i \in 1 .. Len(s) + 1 : contents(Append(s, n))[i] = Append(contents(s), data[n])[i]
  BY <1>1, <1>3, <1>5 DEF contents
<1>7. QED
  BY <1>4, <1>5, <1>6, SeqEqual

LEMMA ContentsShortened ==
  ASSUME TypeOK, NEW s \in Seq(Nodes), s # << >>
  PROVE  /\ contents(s) # << >>
         /\ contents(Tail(s)) = Tail(contents(s))
         /\ Head(contents(s)) = data[Head(s)]
<1> DEFINE V == Values \cup {nullptr}
<1>1. /\ Len(s) \in Nat /\ Len(s) >= 1 /\ DOMAIN s = 1 .. Len(s)
      /\ \A i \in 1 .. Len(s) : s[i] \in Nodes
  BY LenProperties, EmptySeq
<1>2. contents(s) \in Seq(V) /\ Len(contents(s)) = Len(s)
  BY <1>1 DEF contents, TypeOK
<1>3. contents(s) # << >> /\ contents(s)[1] = data[s[1]]
  BY <1>1, <1>2, EmptySeq DEF contents
<1>4. /\ Tail(s) \in Seq(Nodes)
      /\ Len(Tail(s)) = Len(s) - 1
      /\ \A i \in 1 .. Len(s) - 1 : Tail(s)[i] = s[i + 1]
  BY <1>1, HeadTailProperties
<1>5. /\ Tail(contents(s)) \in Seq(V)
      /\ Len(Tail(contents(s))) = Len(s) - 1
      /\ \A i \in 1 .. Len(s) - 1 : Tail(contents(s))[i] = contents(s)[i + 1]
  BY <1>2, <1>3, HeadTailProperties
<1>6. contents(Tail(s)) \in Seq(V) /\ Len(contents(Tail(s))) = Len(s) - 1
  BY <1>1, <1>4 DEF contents, TypeOK
<1>7. \A i \in 1 .. Len(s) - 1 : contents(Tail(s))[i] = Tail(contents(s))[i]
  BY <1>1, <1>4, <1>5 DEF contents
<1>8. contents(Tail(s)) = Tail(contents(s))
  BY <1>5, <1>6, <1>7, SeqEqual
<1>9. QED
  BY <1>3, <1>8

(* The chain has no node twice, and the queue has only nodes of the chain. *)
LEMMA InQueue ==
  ASSUME Inv
  PROVE  /\ chain \in Seq(Nodes) /\ Len(chain) \in Nat /\ Len(chain) >= 1
         /\ \A k \in 1 .. Len(chain) : chain[k] \in Nodes /\ Once(chain, k)
         /\ in_queue \in Seq(Nodes)
         /\ \A i \in 1 .. Len(in_queue) : InChain(in_queue[i])
<1>1. /\ chain \in Seq(Nodes) /\ Len(chain) \in Nat /\ Len(chain) >= 1
      /\ \A k \in 1 .. Len(chain) : chain[k] \in Nodes /\ Once(chain, k)
  BY LenProperties DEF Inv, TypeOK, Chained, Once
<1>2. CASE InChain(front)
  <2>1. PICK k \in 1 .. Len(chain) : chain[k] = front
    BY <1>2 DEF InChain
  <2>2. /\ in_queue \in Seq(Nodes)
        /\ Len(in_queue) = Len(chain) - 1
        /\ \A i \in 1 .. Len(chain) - 1 : in_queue[i] = IF i < k THEN chain[i] ELSE chain[i + 1]
    BY <1>1, <2>1, Removed DEF in_queue
  <2>3. QED
    BY <1>1, <2>2 DEF InChain
<1>3. CASE ~ InChain(front)
  <2>1. in_queue = chain
    BY <1>3, NotRemoved DEF in_queue, InChain
  <2>2. QED
    BY <1>1, <2>1 DEF InChain
<1>4. QED
  BY <1>2, <1>3

LEMMA ItemsAre == items = contents(in_queue)
BY DEF items, contents

LEMMA NothingInQueue ==
  ASSUME Inv, Emptied
  PROVE  items = << >>
<1>1. Len(chain) = 1 /\ chain[1] = front
  BY DEF Inv, Chained, Emptied, front
<1>2. in_queue = Tail(chain)
  BY <1>1, InQueue, HeadRemoved DEF in_queue
<1>3. Len(in_queue) = 0
  BY <1>1, <1>2, InQueue, HeadTailProperties, EmptySeq
<1>4. DOMAIN in_queue = 1 .. 0 /\ in_queue \in Seq(Nodes)
  BY <1>3, InQueue, LenProperties
<1>5. items \in Seq(Values) /\ Len(items) = 0
  BY <1>4 DEF items
<1>6. QED
  BY <1>5, EmptySeq

(* Memory that was deleted is in nobody's hands, and the destructor leaves *)
(* none: for either variant, any number of producers, and memory used      *)
(* again.                                                                  *)
THEOREM NodesAreDeletedInTime == Spec => []NodesDeletedInTime
<1>1. ASSUME Inv PROVE NodesDeletedInTime
  <2>1. \A c \in Callers : enqueue[c].at = "link" =>
          {enqueue[c].previous, enqueue[c].node} \cap unused = {}
    <3> SUFFICES ASSUME NEW c \in Callers, enqueue[c].at = "link"
                 PROVE  enqueue[c].previous \notin unused /\ enqueue[c].node \notin unused
      OBVIOUS
    <3>1. life # "gone"
      BY <1>1 DEF Inv, Undisturbed, TypeOK, Callers, at
    <3>2. PICK i \in 1 .. Len(chain) - 1 : Owes(c, i)
      BY <1>1 DEF Inv, Linked, at
    <3>3. Len(chain) \in Nat
      BY <1>1, InQueue
    <3>4. i \in 1 .. Len(chain) /\ i + 1 \in 1 .. Len(chain)
      BY <3>3
    <3>5. QED
      BY <1>1, <3>1, <3>2, <3>4 DEF Inv, Chained, Owes
  <2>2. life # "gone" => {m_head, m_tail} \cap unused = {}
    BY <1>1, InQueue DEF Inv, Chained
  <2>3. dequeue.at \in {"skip", "head", "again", "true"} =>
          {dequeue.tail, dequeue.next} \cap unused = {}
    <3> SUFFICES ASSUME dequeue.at \in {"skip", "head", "again", "true"}
                 PROVE  dequeue.tail \notin unused /\ dequeue.next \notin unused
      OBVIOUS
    <3>1. life # "gone"
      BY <1>1 DEF Inv, Undisturbed
    <3>2. dequeue.tail = m_tail /\ m_tail \notin unused
      BY <1>1, <2>2, <3>1 DEF Inv, Walking
    <3>3. dequeue.next = nullptr \/ (dequeue.next = chain[2] /\ Len(chain) >= 2)
      <4>1. CASE dequeue.at \in {"skip", "true"}
        BY <1>1, <4>1 DEF Inv, Walking
      <4>2. CASE dequeue.at \in {"head", "again"}
        BY <1>1, <4>2 DEF Inv, Walking
      <4>3. QED
        BY <4>1, <4>2
    <3>4. nullptr \notin unused
      BY <1>1, QueueAssumption DEF Inv, TypeOK
    <3>5. QED
      BY <1>1, <3>1, <3>2, <3>3, <3>4, InQueue DEF Inv, Chained
  <2>4. life = "gone" =>
          items = << >> /\ unused = IF intrusive THEN Nodes \ {Dummy} ELSE Nodes
    BY <1>1, NothingInQueue DEF Inv, Undisturbed
  <2>5. QED
    BY <2>1, <2>2, <2>3, <2>4 DEF NodesDeletedInTime
<1>2. QED
  BY <1>1, Invariance, PTL
-----------------------------------------------------------------------------
(* Steps that add or remove no item.                                       *)
LEMMA ItemsKept ==
  ASSUME Inv, UNCHANGED <<intrusive, m_tail, chain>>,
         \A n \in Nodes : InChain(n) => data'[n] = data[n]
  PROVE  items' = items
<1>1. in_queue' = in_queue
  BY DEF in_queue, front
<1>2. /\ in_queue \in Seq(Nodes)
      /\ \A i \in 1 .. Len(in_queue) : in_queue[i] \in Nodes /\ InChain(in_queue[i])
      /\ DOMAIN in_queue = 1 .. Len(in_queue)
  BY InQueue, LenProperties
<1>3. \A i \in DOMAIN in_queue : data'[in_queue[i]] = data[in_queue[i]]
  BY <1>2
<1>4. QED
  BY <1>1, <1>3 DEF items

LEMMA ItemPut ==
  ASSUME Inv, NEW p \in Producers, Exchange(p)
  PROVE  items' = Append(items, data[enqueue[p].node]) /\ data[enqueue[p].node] \in Values
<1>n. PICK n \in Nodes : n = enqueue[p].node
  BY DEF Inv, TypeOK, Callers
<1>1. /\ enqueue[p].at = "exchange"
      /\ chain' = Append(chain, n)
      /\ UNCHANGED <<intrusive, m_tail, data>>
  BY <1>n DEF Exchange, consumer_vars
<1>2. ~ InChain(n) /\ n # front /\ data[n] \in Values
  <2>1. ~ InChain(n) /\ data[n] \in Values /\ (intrusive => n # Dummy)
    BY <1>n, <1>1 DEF Inv, Entering, at
  <2>2. n # m_tail
    BY <2>1 DEF InChain, Inv, Chained
  <2>3. QED
    BY <2>1, <2>2 DEF front
<1>3. in_queue' = RemoveFirst(Append(chain, n), front)
  BY <1>1 DEF in_queue, front
<1>4. in_queue' = Append(in_queue, n)
  <2>1. CASE InChain(front)
    <3>1. PICK k \in 1 .. Len(chain) : chain[k] = front
      BY <2>1 DEF InChain
    <3>2. Once(chain, k) /\ n # chain[k] /\ chain \in Seq(Nodes)
      BY <1>2, <3>1, InQueue
    <3>3. RemoveFirst(Append(chain, n), chain[k]) = Append(RemoveFirst(chain, chain[k]), n)
      BY <3>2, RemovedFromAppend
    <3>4. QED
      BY <1>3, <3>1, <3>3 DEF in_queue
  <2>2. CASE ~ InChain(front)
    <3>1. in_queue = chain
      BY <2>2, NotRemoved DEF in_queue, InChain
    <3>2. chain \in Seq(Nodes) /\ Len(chain) \in Nat
      BY InQueue
    <3>3. \A i \in 1 .. Len(Append(chain, n)) : Append(chain, n)[i] # front
      BY <1>2, <2>2, <3>2, AppendProperties DEF InChain
    <3>4. RemoveFirst(Append(chain, n), front) = Append(chain, n)
      BY <3>3, NotRemoved
    <3>5. QED
      BY <1>3, <3>1, <3>4
  <2>3. QED
    BY <2>1, <2>2
<1>5. items' = contents(in_queue')
  BY <1>1 DEF items, contents
<1>6. contents(Append(in_queue, n)) = Append(contents(in_queue), data[n])
  BY InQueue, ContentsAppended DEF Inv
<1>7. QED
  BY <1>n, <1>2, <1>4, <1>5, <1>6, ItemsAre

LEMMA DummyPutBack ==
  ASSUME Inv, Exchange(Consumer)
  PROVE  items' = items
<1>1. /\ enqueue[Consumer].at = "exchange" /\ enqueue[Consumer].node = Dummy
      /\ chain' = Append(chain, Dummy)
      /\ UNCHANGED <<intrusive, m_tail, data>>
      /\ intrusive /\ front = Dummy
      /\ ~ InChain(Dummy)
  BY DEF Exchange, consumer_vars, Inv, TypeOK, Entering, at, front
<1>2. in_queue = chain
  BY <1>1, NotRemoved DEF in_queue, InChain
<1>3. in_queue' = RemoveFirst(Append(chain, Dummy), Dummy)
  BY <1>1 DEF in_queue, front
<1>4. in_queue' = chain
  BY <1>1, <1>3, InQueue, LastRemoved, QueueAssumption DEF InChain
<1>5. QED
  BY <1>1, <1>2, <1>4 DEF items

LEMMA DummySkipped ==
  ASSUME Inv, SkipDummy
  PROVE  items' = items
<1>1. /\ dequeue.at = "skip"
      /\ chain' = Tail(chain)
      /\ UNCHANGED <<intrusive, data>>
      /\ intrusive /\ front = Dummy /\ chain[1] = Dummy
      /\ front' = Dummy
  BY DEF SkipDummy, consumer_vars, Inv, Walking, Chained, front
<1>2. /\ chain \in Seq(Nodes) /\ Len(chain) \in Nat /\ Len(chain) >= 1
      /\ Once(chain, 1) /\ 1 \in 1 .. Len(chain)
  BY InQueue
<1>3. in_queue = Tail(chain)
  BY <1>1, <1>2, HeadRemoved DEF in_queue
<1>4. \A i \in 1 .. Len(Tail(chain)) : Tail(chain)[i] # Dummy
  <2>1. /\ Len(Tail(chain)) = Len(chain) - 1
        /\ \A i \in 1 .. Len(chain) - 1 : Tail(chain)[i] = chain[i + 1]
    BY <1>2, EmptySeq, HeadTailProperties
  <2>2. \A i \in 1 .. Len(chain) - 1 : chain[i + 1] # chain[1]
    BY <1>2 DEF Once
  <2>3. QED
    BY <1>1, <2>1, <2>2
<1>5. in_queue' = Tail(chain)
  <2>1. in_queue' = RemoveFirst(Tail(chain), Dummy)
    BY <1>1 DEF in_queue
  <2>2. QED
    BY <1>4, <2>1, NotRemoved
<1>6. QED
  BY <1>1, <1>3, <1>5 DEF items

LEMMA ItemTaken ==
  ASSUME Inv, Take
  PROVE  items # << >> /\ result' = Head(items) /\ items' = Tail(items)
<1>1. /\ dequeue.at = "true"
      /\ m_tail' = dequeue.next
      /\ chain' = Tail(chain)
      /\ result' = data[IF intrusive THEN dequeue.tail ELSE dequeue.next]
      /\ UNCHANGED <<intrusive, data>>
      /\ dequeue.tail = chain[1] /\ dequeue.next = chain[2] /\ chain[1] = m_tail
      /\ Len(chain) >= 2
      /\ intrusive => chain[1] # Dummy
  BY DEF Take, consumer_vars, Inv, Walking, Chained
<1>2. /\ chain \in Seq(Nodes) /\ Len(chain) \in Nat
      /\ \A k \in 1 .. Len(chain) : chain[k] \in Nodes /\ Once(chain, k)
      /\ chain # << >>
  BY <1>1, InQueue, EmptySeq
<1>3. /\ Tail(chain) \in Seq(Nodes)
      /\ Len(Tail(chain)) = Len(chain) - 1
      /\ \A i \in 1 .. Len(chain) - 1 : Tail(chain)[i] = chain[i + 1]
  BY <1>2, HeadTailProperties
<1>4. /\ in_queue # << >>
      /\ in_queue' = Tail(in_queue)
      /\ Head(in_queue) = IF intrusive THEN chain[1] ELSE chain[2]
  <2>1. CASE intrusive /\ InChain(Dummy)
    <3>1. PICK k \in 1 .. Len(chain) : chain[k] = Dummy
      BY <2>1 DEF InChain
    <3>2. k # 1 /\ Once(chain, k)
      BY <1>1, <1>2, <2>1, <3>1
    <3>3. /\ RemoveFirst(Tail(chain), chain[k]) = Tail(RemoveFirst(chain, chain[k]))
          /\ RemoveFirst(chain, chain[k]) # << >>
          /\ Head(RemoveFirst(chain, chain[k])) = chain[1]
      BY <1>2, <3>2, RemovedFromTail
    <3>4. in_queue = RemoveFirst(chain, Dummy) /\ in_queue' = RemoveFirst(Tail(chain), Dummy)
      BY <1>1, <2>1 DEF in_queue, front
    <3>5. QED
      BY <2>1, <3>1, <3>3, <3>4
  <2>2. CASE intrusive /\ ~ InChain(Dummy)
    <3>1. in_queue = chain
      BY <2>2, NotRemoved DEF in_queue, InChain, front
    <3>2. \A i \in 1 .. Len(Tail(chain)) : Tail(chain)[i] # Dummy
      BY <1>2, <1>3, <2>2 DEF InChain
    <3>3. in_queue' = Tail(chain)
      BY <1>1, <2>2, <3>2, NotRemoved DEF in_queue, front
    <3>4. QED
      BY <1>2, <2>2, <3>1, <3>3
  <2>3. CASE ~ intrusive
    <3>1. in_queue = Tail(chain)
      BY <1>1, <1>2, <2>3, HeadRemoved DEF in_queue, front
    <3>2. Tail(chain) # << >> /\ Tail(chain)[1] = chain[2] /\ Once(Tail(chain), 1)
      <4>1. Len(Tail(chain)) >= 1 /\ Tail(chain)[1] = chain[2]
        BY <1>1, <1>2, <1>3
      <4>2. Tail(chain) # << >>
        <5>1. PICK t \in Seq(Nodes) : t = Tail(chain)
          BY <1>3
        <5>2. Len(t) >= 1
          BY <4>1, <5>1
        <5>3. t # << >>
          BY <5>2, EmptySeq
        <5>4. QED
          BY <5>1, <5>3
      <4>3. ASSUME NEW i \in 1 .. Len(Tail(chain)), Tail(chain)[i] = Tail(chain)[1]
            PROVE  i = 1
        <5>1. i + 1 \in 1 .. Len(chain) /\ 2 \in 1 .. Len(chain) /\ chain[i + 1] = chain[2]
          BY <1>1, <1>2, <1>3, <4>1, <4>3
        <5>2. i + 1 = 2
          BY <1>2, <5>1 DEF Once
        <5>3. QED
          BY <1>2, <1>3, <5>2
      <4>4. QED
        BY <4>1, <4>2, <4>3 DEF Once
    <3>3. RemoveFirst(Tail(chain), Tail(chain)[1]) = Tail(Tail(chain))
      <4>1. Len(Tail(chain)) >= 1
        BY <1>1, <1>2, <1>3
      <4>2. QED
        BY <1>3, <3>2, <4>1, HeadRemoved
    <3>4. in_queue' = Tail(Tail(chain))
      BY <1>1, <2>3, <3>2, <3>3 DEF in_queue, front
    <3>5. Head(Tail(chain)) = chain[2]
      BY <1>3, <3>2
    <3>6. QED
      BY <2>3, <3>1, <3>2, <3>4, <3>5
  <2>4. QED
    BY <2>1, <2>2, <2>3
<1>5. /\ contents(in_queue) # << >>
      /\ contents(Tail(in_queue)) = Tail(contents(in_queue))
      /\ Head(contents(in_queue)) = data[Head(in_queue)]
  BY <1>4, InQueue, ContentsShortened DEF Inv
<1>6. items' = contents(in_queue')
  BY <1>1 DEF items, contents
<1>7. QED
  BY <1>1, <1>4, <1>5, <1>6, ItemsAre
-----------------------------------------------------------------------------
(* Every step is a step of the abstract queue, or none.                    *)
LEMMA ProducerRefines ==
  ASSUME Inv, NEW p \in Producers, Producer(p)
  PROVE  [Queue!Next]_Queue!vars
<1> DEFINE putting == {q \in Producers : enqueue[q].at # "outside"}
<1>1. p \in Callers /\ p # Consumer /\ TypeOK
  BY QueueAssumption DEF Callers, Inv
<1>2. CASE Call(p)
  <2>1. PICK n \in unused :
          /\ data' = [data EXCEPT ![n] = <<p, sent[p] + 1>>]
          /\ enqueue' = [enqueue EXCEPT ![p] = [at |-> "exchange", node |-> n, previous |-> n]]
    BY <1>2 DEF Call
  <2>2. /\ enqueue[p].at = "outside" /\ life = "open"
        /\ overlapped' = TRUE
        /\ UNCHANGED <<intrusive, m_tail, chain, dequeue, result>>
    BY <1>2 DEF Call
  <2>3. putting' = putting \cup {p} /\ p \notin putting
    BY <1>1, <2>1, <2>2 DEF TypeOK, Callers
  <2>4. ~ InChain(n)
    BY <2>2 DEF Inv, Chained, InChain
  <2>5. \A m \in Nodes : InChain(m) => data'[m] = data[m]
    BY <1>1, <2>1, <2>4 DEF TypeOK
  <2>6. items' = items
    BY <2>2, <2>5, ItemsKept
  <2>7. Queue!Call(p)
    BY <2>2, <2>3, <2>6 DEF Queue!Call
  <2>8. QED
    BY <2>7 DEF Queue!Next
<1>3. CASE Exchange(p)
  <2>1. /\ enqueue[p].at = "exchange"
        /\ enqueue' = [enqueue EXCEPT ![p].at = "link", ![p].previous = m_head]
        /\ UNCHANGED <<dequeue, overlapped, result>>
    BY <1>3 DEF Exchange
  <2>2. putting' = putting /\ p \in putting
    BY <1>1, <2>1 DEF TypeOK, Callers
  <2>3. Queue!Put(p, data[enqueue[p].node])
    BY <1>3, <2>1, <2>2, ItemPut DEF Queue!Put
  <2>4. QED
    BY <1>3, <2>3, ItemPut DEF Queue!Next
<1>4. CASE Link(p)
  <2>1. /\ enqueue[p].at = "link"
        /\ enqueue' = [enqueue EXCEPT ![p] = Returned]
        /\ UNCHANGED <<m_tail, chain, intrusive, data, dequeue, overlapped, result>>
    BY <1>4 DEF Link, consumer_vars
  <2>2. putting' = putting \ {p} /\ p \in putting
    BY <1>1, <2>1 DEF TypeOK, Callers, Returned
  <2>3. items' = items
    BY <2>1, ItemsKept
  <2>4. Queue!Return(p)
    BY <2>1, <2>2, <2>3 DEF Queue!Return
  <2>5. QED
    BY <2>4 DEF Queue!Next
<1>5. QED
  BY <1>2, <1>3, <1>4 DEF Producer

(* What the abstract queue sees of the consumer's enqueue: nothing.        *)
LEMMA ConsumerPutsNothing ==
  ASSUME Inv, NEW e, enqueue' = [enqueue EXCEPT ![Consumer] = e]
  PROVE  {p \in Producers : enqueue'[p].at # "outside"}
           = {p \in Producers : enqueue[p].at # "outside"}
BY QueueAssumption DEF Inv, TypeOK, Callers
(* Steps inside dequeue, and of the destructor, that show nothing.         *)
LEMMA Unseen ==
  ASSUME Inv, UNCHANGED <<overlapped, result>>, items' = items,
         (dequeue'.at # "outside") = (dequeue.at # "outside"),
         enqueue' = enqueue \/ \E e : enqueue' = [enqueue EXCEPT ![Consumer] = e]
  PROVE  UNCHANGED Queue!vars
<1>1. {p \in Producers : enqueue'[p].at # "outside"}
        = {p \in Producers : enqueue[p].at # "outside"}
  BY ConsumerPutsNothing
<1>2. QED
  BY <1>1 DEF Queue!vars

LEMMA ConsumerRefines ==
  ASSUME Inv, Dequeue
  PROVE  [Queue!Next]_Queue!vars
<1> USE DEF consumer_vars
<1>1. TypeOK /\ Consumer \in Callers
  BY DEF Inv, Callers
<1>2. CASE Ask
  <2>1. dequeue.at = "outside" /\ dequeue'.at = "tail"
        /\ overlapped' = (\E p \in Producers : enqueue[p].at # "outside")
        /\ UNCHANGED <<m_tail, chain, intrusive, data, enqueue, result>>
    BY <1>1, <1>2 DEF Ask, TypeOK
  <2>2. items' = items
    BY <2>1, ItemsKept
  <2>3. overlapped' = ({p \in Producers : enqueue[p].at # "outside"} # {})
    BY <2>1
  <2>4. Queue!Ask
    BY <2>1, <2>2, <2>3 DEF Queue!Ask
  <2>5. QED
    BY <2>4 DEF Queue!Next
<1>3. CASE LoadNext
  <2>1. dequeue.at = "tail" /\ dequeue'.at # "outside"
        /\ UNCHANGED <<m_tail, chain, intrusive, data, enqueue, overlapped, result>>
    BY <1>3 DEF LoadNext, go_on
  <2>2. QED
    BY <2>1, ItemsKept, Unseen
<1>4. CASE SkipDummy
  <2>1. dequeue.at = "skip" /\ dequeue'.at # "outside"
        /\ UNCHANGED <<enqueue, overlapped, result>>
    BY <1>4 DEF SkipDummy, go_on
  <2>2. QED
    BY <1>4, <2>1, DummySkipped, Unseen
<1>5. CASE CompareHead
  <2>1. dequeue.at = "head" /\ dequeue'.at # "outside"
        /\ UNCHANGED <<m_tail, chain, intrusive, data, overlapped, result>>
    BY <1>1, <1>5 DEF CompareHead, TypeOK
  <2>2. enqueue' = enqueue \/ \E e : enqueue' = [enqueue EXCEPT ![Consumer] = e]
    BY <1>5 DEF CompareHead
  <2>3. QED
    BY <2>1, <2>2, ItemsKept, Unseen
<1>6. CASE LoadAgain
  <2>1. dequeue.at = "again" /\ dequeue'.at # "outside"
        /\ UNCHANGED <<m_tail, chain, intrusive, data, enqueue, overlapped, result>>
    BY <1>1, <1>6 DEF LoadAgain, TypeOK
  <2>2. QED
    BY <2>1, ItemsKept, Unseen
<1>7. CASE Take
  <2>1. dequeue.at = "true" /\ dequeue'.at = "outside"
        /\ UNCHANGED <<enqueue, overlapped>>
    BY <1>1, <1>7 DEF Take, TypeOK
  <2>2. Queue!Get
    BY <1>7, <2>1, ItemTaken DEF Queue!Get
  <2>3. QED
    BY <2>2 DEF Queue!Next
<1>8. CASE TakeNothing
  <2>1. dequeue.at = "false" /\ dequeue'.at = "outside" /\ result' = nullptr
        /\ UNCHANGED <<m_tail, chain, intrusive, data, enqueue, overlapped>>
    BY <1>1, <1>8 DEF TakeNothing, TypeOK
  <2>2. items' = items
    BY <2>1, ItemsKept
  <2>3. items = << >> \/ overlapped
    BY <2>1, NothingInQueue DEF Inv, Undisturbed
  <2>4. Queue!GetNothing
    BY <2>1, <2>2, <2>3 DEF Queue!GetNothing
  <2>5. QED
    BY <2>4 DEF Queue!Next
<1>9. CASE ClearDummy
  <2>1. UNCHANGED <<m_tail, chain, intrusive, data, dequeue, overlapped, result>>
        /\ \E e : enqueue' = [enqueue EXCEPT ![Consumer] = e]
    BY <1>9 DEF ClearDummy
  <2>2. QED
    BY <2>1, ItemsKept, Unseen
<1>10. CASE Exchange(Consumer)
  <2>1. UNCHANGED <<dequeue, overlapped, result>>
        /\ \E e : enqueue' = [enqueue EXCEPT ![Consumer] = e]
    BY <1>10 DEF Exchange
  <2>2. QED
    BY <1>10, <2>1, DummyPutBack, Unseen
<1>11. CASE Link(Consumer)
  <2>1. UNCHANGED <<m_tail, chain, intrusive, data, dequeue, overlapped, result>>
        /\ \E e : enqueue' = [enqueue EXCEPT ![Consumer] = e]
    BY <1>11 DEF Link
  <2>2. QED
    BY <2>1, ItemsKept, Unseen
<1>12. QED
  BY <1>2, <1>3, <1>4, <1>5, <1>6, <1>7, <1>8, <1>9, <1>10, <1>11 DEF Dequeue

(* Both variants implement the abstract queue, for any number of producers *)
(* and items, with memory used again.                                      *)
THEOREM Refinement == Spec => ImplementsFifoQueue
<1>1. Init => Queue!Init
  <2> SUFFICES ASSUME Init PROVE Queue!Init
    OBVIOUS
  <2>1. Inv /\ Emptied
    BY Initially DEF Init, Emptied
  <2>2. items = << >>
    BY <2>1, NothingInQueue
  <2>3. {p \in Producers : enqueue[p].at # "outside"} = {}
    BY DEF Init, Returned, Callers
  <2>4. QED
    BY <2>2, <2>3 DEF Queue!Init, Init
<1>2. Inv /\ [Next]_vars => [Queue!Next]_Queue!vars
  <2> SUFFICES ASSUME Inv, [Next]_vars PROVE [Queue!Next]_Queue!vars
    OBVIOUS
  <2>1. CASE \E p \in Producers : Producer(p)
    BY <2>1, ProducerRefines
  <2>2. CASE Dequeue
    BY <2>2, ConsumerRefines
  <2>3. CASE Destroy \/ DeleteFront \/ UNCHANGED vars
    <3>1. UNCHANGED <<m_tail, chain, intrusive, data, enqueue, dequeue, overlapped, result>>
      BY <2>3 DEF Destroy, DeleteFront, destructor_vars, vars
    <3>2. QED
      BY <3>1, ItemsKept, Unseen
  <2>4. QED
    BY <2>1, <2>2, <2>3 DEF Next
<1>3. QED
  BY <1>1, <1>2, Invariance, PTL DEF Spec, ImplementsFifoQueue, Queue!Spec
==============================================================================

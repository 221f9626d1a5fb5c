---------------------------- MODULE NetworkProofs ----------------------------
(***************************************************************************)
(* Proofs about Network, for any number of connections, packets of any     *)
(* length and any number of them: who owns a session, and what of its      *)
(* replies reaches the kernel.                                             *)
(***************************************************************************)
EXTENDS Network, SequenceTheorems, TLAPS

-------------------------------------------------------------------------------
(* The inductive invariant.                                                *)

(* A session that nobody owns yet, or that has only been accepted, has     *)
(* done nothing.                                                           *)
Untouched(s) ==
  ~ m_closed[s] /\ ~ reading[s] /\ ~ waiting[s] /\ m_write_queue[s] = <<>>

Fresh ==
  \A s \in Sockets :
    peer[s] = "none" \/ (main.at = "start" /\ main.socket = s) => Untouched(s)

(* The lists share no session, hold none twice, and the main thread is     *)
(* busy with one that is in neither of them until it has appended it.      *)
Owners ==
  /\ main.at = "accept" <=> main.socket = NoSocket
  /\ IsInjective(m_new_sockets) /\ IsInjective(m_sockets)
  /\ ToSet(m_new_sockets) \cap ToSet(m_sockets) = {}
  /\ main.at # "return" => main.socket \notin ToSet(m_new_sockets) \cup ToSet(m_sockets)
  /\ m_connections = Len(m_new_sockets) + Len(m_sockets)

(* Only connections that were accepted have an owner.                      *)
OwnedIsAccepted == \A s \in Sockets : Held(s) => peer[s] # "none"

(* The tick visits sessions of the thread, each once.                      *)
Visits ==
  /\ IsInjective(todo) /\ ToSet(todo) \subseteq ToSet(m_sockets)
  /\ net \in {"idle", "adding"} => todo = <<>>
  /\ net = "flush" => todo # <<>>

Owned == Owners /\ OwnedIsAccepted /\ Visits

(* The tick flushes only a session that has something to write and is not  *)
(* waiting; a wait has its flag and a message to go on with.               *)
Waits ==
  /\ net = "flush" => ~ waiting[Head(todo)] /\ m_write_queue[Head(todo)] # <<>>
  /\ \A s \in Sockets :
       /\ waiting[s] <=> m_writing_async[s]
       /\ waiting[s] => m_write_queue[s] # <<>>

(* A session that is read from is open; one that is destroyed is not read  *)
(* from, and was closed unless the peer was gone before it was started.    *)
(* The main thread may be the last to let go of one.                       *)
Destruction ==
  /\ main.at = "return" => \/ main.socket \in ToSet(m_new_sockets) \cup ToSet(m_sockets)
                           \/ m_closed[main.socket]
  /\ \A s \in Sockets :
       /\ reading[s] => ~ m_closed[s]
       /\ Destroyed(s) => /\ ~ reading[s]
                          /\ m_closed[s] \/ (peer[s] = "reset" /\ ~ waiting[s])

UndefinedByWait ==
  process = "undefined" => \E s \in Sockets : Destroyed(s) /\ waiting[s] /\ m_closed[s]

(* The byte at place k of the stream of packets 1, 2, ...                  *)
Byte(k) == <<((k - 1) \div PacketBytes) + 1, ((k - 1) % PacketBytes) + 1>>

(* The kernel has been given a beginning of that stream, and no more of it *)
(* than was queued; only the first message of a queue is ever cut.         *)
Stream ==
  \A s \in Sockets :
    /\ Len(wire[s]) <= queued[s] * PacketBytes
    /\ Len(m_write_queue[s]) <= queued[s]
    /\ \A k \in 1 .. Len(wire[s]) : wire[s][k] = Byte(k)
    /\ \A i \in DOMAIN m_write_queue[s] : i > 1 => m_write_queue[s][i].sent = 0

Sent == Stream /\ NoReplyDropped

Inv == TypeOK /\ Owned /\ Fresh /\ Waits /\ Destruction /\ UndefinedByWait /\ Sent


-------------------------------------------------------------------------------
(* Sequences without repetition.                                           *)

LEMMA AppendNew ==
  ASSUME NEW S, NEW q \in Seq(S), NEW x \in S
  PROVE  /\ Append(q, x) \in Seq(S) /\ Len(Append(q, x)) = Len(q) + 1
         /\ ToSet(Append(q, x)) = ToSet(q) \cup {x}
         /\ IsInjective(q) /\ x \notin ToSet(q) => IsInjective(Append(q, x))
<1>1. /\ Append(q, x) \in Seq(S) /\ Len(Append(q, x)) = Len(q) + 1
      /\ \A i \in 1 .. Len(q) : Append(q, x)[i] = q[i]
      /\ Append(q, x)[Len(q) + 1] = x
      /\ Len(q) \in Nat /\ DOMAIN q = 1 .. Len(q)
      /\ DOMAIN Append(q, x) = 1 .. (Len(q) + 1)
  OBVIOUS
<1>2. 1 .. (Len(q) + 1) = (1 .. Len(q)) \cup {Len(q) + 1}
  BY <1>1
<1>3. ToSet(Append(q, x)) = ToSet(q) \cup {x}
  BY <1>1, <1>2 DEF ToSet
<1>4. ASSUME IsInjective(q), x \notin ToSet(q) PROVE IsInjective(Append(q, x))
  BY <1>1, <1>2, <1>4 DEF IsInjective, ToSet
<1> QED
  BY <1>1, <1>3, <1>4

LEMMA HeadOut ==
  ASSUME NEW S, NEW q \in Seq(S), q # <<>>
  PROVE  /\ Tail(q) \in Seq(S) /\ Len(Tail(q)) = Len(q) - 1 /\ Len(q) \in Nat \ {0}
         /\ Head(q) \in S /\ Head(q) \in ToSet(q)
         /\ IsInjective(q) => /\ IsInjective(Tail(q))
                              /\ ToSet(Tail(q)) = ToSet(q) \ {Head(q)}
<1>1. /\ Tail(q) \in Seq(S) /\ Len(Tail(q)) = Len(q) - 1 /\ Len(q) \in Nat \ {0}
      /\ \A i \in 1 .. (Len(q) - 1) : Tail(q)[i] = q[i + 1]
      /\ Head(q) = q[1] /\ Head(q) \in S
      /\ DOMAIN q = 1 .. Len(q) /\ DOMAIN Tail(q) = 1 .. (Len(q) - 1)
  OBVIOUS
<1>2. 1 \in DOMAIN q
  BY <1>1
<1>3. Head(q) \in ToSet(q)
  BY <1>1, <1>2 DEF ToSet
<1>4. ASSUME IsInjective(q) PROVE IsInjective(Tail(q))
  BY <1>1, <1>4 DEF IsInjective
<1>5. ASSUME IsInjective(q) PROVE ToSet(Tail(q)) = ToSet(q) \ {Head(q)}
  <2>1. ASSUME NEW i \in DOMAIN Tail(q) PROVE Tail(q)[i] \in ToSet(q) \ {Head(q)}
    <3>1. i + 1 \in DOMAIN q /\ i + 1 # 1 /\ Tail(q)[i] = q[i + 1]
      BY <1>1
    <3> QED
      BY <1>1, <1>2, <1>5, <3>1 DEF IsInjective, ToSet
  <2>2. ASSUME NEW j \in DOMAIN q, q[j] # Head(q) PROVE q[j] \in ToSet(Tail(q))
    <3>1. j - 1 \in DOMAIN Tail(q) /\ Tail(q)[j - 1] = q[j]
      BY <1>1, <2>2
    <3> QED
      BY <3>1 DEF ToSet
  <2> QED
    BY <2>1, <2>2 DEF ToSet
<1> QED
  BY <1>1, <1>3, <1>4, <1>5

LEMMA OneOut ==
  ASSUME NEW S, NEW q \in Seq(S), NEW i \in DOMAIN q, IsInjective(q)
  PROVE  /\ RemoveAt(q, i) \in Seq(S) /\ Len(RemoveAt(q, i)) = Len(q) - 1
         /\ ToSet(RemoveAt(q, i)) = ToSet(q) \ {q[i]}
         /\ IsInjective(RemoveAt(q, i))
<1> DEFINE r == RemoveAt(q, i)
<1>1. Len(q) \in Nat /\ DOMAIN q = 1 .. Len(q) /\ i \in 1 .. Len(q)
  OBVIOUS
<1>2. /\ SubSeq(q, 1, i - 1) \in Seq(S) /\ Len(SubSeq(q, 1, i - 1)) = i - 1
      /\ \A k \in 1 .. (i - 1) : SubSeq(q, 1, i - 1)[k] = q[k]
  BY <1>1
<1>3. /\ SubSeq(q, i + 1, Len(q)) \in Seq(S) /\ Len(SubSeq(q, i + 1, Len(q))) = Len(q) - i
      /\ \A k \in 1 .. (Len(q) - i) : SubSeq(q, i + 1, Len(q))[k] = q[k + i]
  BY <1>1
<1>4. r \in Seq(S) /\ Len(r) = Len(q) - 1 /\ DOMAIN r = 1 .. (Len(q) - 1)
  BY <1>1, <1>2, <1>3 DEF RemoveAt
<1>5. ASSUME NEW k \in 1 .. (Len(q) - 1)
      PROVE  r[k] = IF k < i THEN q[k] ELSE q[k + 1]
  <2> DEFINE before == SubSeq(q, 1, i - 1)
             after == SubSeq(q, i + 1, Len(q))
  <2>1. r = before \o after
    BY DEF RemoveAt
  <2> HIDE DEF before, after, r
  <2>2. CASE k < i
    <3>1. k \in 1 .. Len(before) /\ before[k] = q[k]
      BY <1>1, <1>2, <2>2 DEF before
    <3>2. r[k] = before[k]
      BY <1>2, <1>3, <2>1, <3>1 DEF before, after
    <3> QED
      BY <2>2, <3>1, <3>2
  <2>3. CASE ~ (k < i)
    <3>1. k - (i - 1) \in 1 .. Len(after) /\ after[k - (i - 1)] = q[k + 1]
      BY <1>1, <1>3, <2>3 DEF after
    <3>2. before \in Seq(S) /\ after \in Seq(S) /\ Len(before) = i - 1
      BY <1>2, <1>3 DEF before, after
    <3>3. r[k] = after[k - (i - 1)]
      BY <1>1, <2>1, <2>3, <3>1, <3>2
    <3> QED
      BY <2>3, <3>1, <3>3
  <2> QED
    BY <2>2, <2>3
<1> HIDE DEF r
<1>6. IsInjective(r)
  <2> SUFFICES ASSUME NEW a \in DOMAIN r, NEW b \in DOMAIN r, r[a] = r[b] PROVE a = b
    BY DEF IsInjective
  <2> DEFINE place(k) == IF k < i THEN k ELSE k + 1
  <2>1. place(a) \in DOMAIN q /\ place(b) \in DOMAIN q
          /\ r[a] = q[place(a)] /\ r[b] = q[place(b)]
    BY <1>1, <1>4, <1>5
  <2>2. place(a) = place(b)
    BY <2>1 DEF IsInjective
  <2> QED
    BY <1>1, <1>4, <2>2
<1>7. ToSet(r) = ToSet(q) \ {q[i]}
  <2>1. ASSUME NEW k \in DOMAIN r PROVE r[k] \in ToSet(q) \ {q[i]}
    <3>1. CASE k < i
      BY <1>1, <1>4, <1>5, <3>1 DEF IsInjective, ToSet
    <3>2. CASE ~ (k < i)
      <4>1. k + 1 \in DOMAIN q /\ k + 1 # i /\ r[k] = q[k + 1]
        BY <1>1, <1>4, <1>5, <3>2
      <4> QED
        BY <4>1 DEF IsInjective, ToSet
    <3> QED
      BY <3>1, <3>2
  <2>2. ASSUME NEW j \in DOMAIN q, q[j] # q[i] PROVE q[j] \in ToSet(r)
    <3>1. CASE j < i
      BY <1>1, <1>4, <1>5, <3>1 DEF ToSet
    <3>2. CASE j > i
      <4>1. j - 1 \in DOMAIN r /\ r[j - 1] = q[j]
        BY <1>1, <1>4, <1>5, <3>2
      <4> QED
        BY <4>1 DEF ToSet
    <3> QED
      BY <1>1, <2>2, <3>1, <3>2
  <2> QED
    BY <2>1, <2>2 DEF ToSet
<1> QED
  BY <1>4, <1>6, <1>7 DEF r


-------------------------------------------------------------------------------
(* Who owns a session.  This part looks at nothing but the lists, the main *)
(* thread's place and who has connected.                                   *)

OwnerTypes ==
  /\ main \in [at : {"accept", "start", "append", "return"}, socket : Sockets \cup {NoSocket}]
  /\ net \in {"idle", "adding", "update", "flush"}
  /\ todo \in Seq(Sockets) /\ m_new_sockets \in Seq(Sockets) /\ m_sockets \in Seq(Sockets)
  /\ peer \in [Sockets -> {"none", "connected", "reset"}]

Ownership == OwnerTypes /\ Owned

LEMMA NotASocket == \A q \in Seq(Sockets) : NoSocket \notin ToSet(q)
BY NoSocketAssumption DEF ToSet

LEMMA NoneListed == ToSet(<<>>) = {} /\ IsInjective(<<>>) /\ <<>> \in Seq(Sockets)
                      /\ Len(<<>>) = 0
BY DEF ToSet, IsInjective

LEMMA OwnershipInit == Init => Ownership
<1> SUFFICES ASSUME Init PROVE Ownership
  OBVIOUS
<1>1. OwnerTypes
  BY DEF Init, OwnerTypes
<1>2. Owners
  BY NoneListed, NotASocket DEF Init, Owners
<1>3. OwnedIsAccepted
  BY NoneListed, NoSocketAssumption DEF Init, OwnedIsAccepted, Held
<1>4. Visits
  BY NoneListed DEF Init, Visits
<1> QED
  BY <1>1, <1>2, <1>3, <1>4 DEF Ownership, Owned

(* The main thread takes a connection that is nobody's, or lets go of its  *)
(* session, or only goes on with it.                                       *)
LEMMA MainOwnership ==
  ASSUME Ownership, NEW s \in Sockets,
         Accept(s) \/ StartThrows(s) \/ Start(s) \/ Return(s)
  PROVE  Ownership'
<1>1. UNCHANGED <<net, todo, m_new_sockets, m_sockets, m_connections>>
  BY DEF Accept, StartThrows, Start, Return, thread_vars, shared_vars
<1>2. s # NoSocket
  BY NoSocketAssumption
<1>3. OwnerTypes' /\ \A t \in Sockets : peer[t] # "none" => peer'[t] # "none"
  BY <1>1 DEF Ownership, OwnerTypes, Accept, StartThrows, Start, Return
<1>4. Owners'
  <2>1. CASE Accept(s)
    <3>1. s \notin ToSet(m_new_sockets) \cup ToSet(m_sockets)
      BY <2>1 DEF Accept, Ownership, Owned, OwnedIsAccepted, Held
    <3> QED
      BY <1>1, <1>2, <2>1, <3>1 DEF Accept, Ownership, Owned, Owners
  <2>2. CASE StartThrows(s) \/ Return(s)
    BY <1>1, <2>2, NotASocket DEF StartThrows, Return, Ownership, OwnerTypes, Owned, Owners
  <2>3. CASE Start(s)
    BY <1>1, <1>2, <2>3 DEF Start, Ownership, OwnerTypes, Owned, Owners
  <2> QED
    BY <2>1, <2>2, <2>3
<1>5. OwnedIsAccepted'
  <2> SUFFICES ASSUME NEW t \in Sockets, Held(t)' PROVE peer'[t] # "none"
    BY DEF OwnedIsAccepted
  <2>1. CASE Held(t)
    BY <1>3, <2>1 DEF Ownership, Owned, OwnedIsAccepted
  <2>2. CASE ~ Held(t)
    <3>1. main'.socket = t /\ main.socket # t
      BY <1>1, <2>2 DEF Held
    <3>2. Accept(s) /\ t = s
      BY <3>1, NoSocketAssumption
      DEF Accept, StartThrows, Start, Return, Ownership, OwnerTypes
    <3> QED
      BY <3>2 DEF Accept, Ownership, OwnerTypes
  <2> QED
    BY <2>1, <2>2
<1>6. Visits'
  BY <1>1 DEF Ownership, Owned, Visits
<1> QED
  BY <1>3, <1>4, <1>5, <1>6 DEF Ownership, Owned

LEMMA AppendOwnership ==
  ASSUME Ownership, NEW s \in Sockets, append(s)
  PROVE  Ownership'
<1>1. /\ main = [at |-> "append", socket |-> s] /\ main' = [at |-> "return", socket |-> s]
      /\ m_new_sockets' = Append(m_new_sockets, s) /\ m_connections' = m_connections + 1
      /\ UNCHANGED <<net, todo, m_sockets, peer>>
  BY DEF append, thread_vars
<1>2. /\ m_new_sockets \in Seq(Sockets) /\ m_sockets \in Seq(Sockets)
      /\ Len(m_new_sockets) \in Nat /\ Len(m_sockets) \in Nat
  BY DEF Ownership, OwnerTypes
<1>3. s \notin ToSet(m_new_sockets) /\ s \notin ToSet(m_sockets) /\ s # NoSocket
  BY <1>1, NoSocketAssumption DEF Ownership, Owned, Owners
<1>4. OwnerTypes'
  BY <1>1, <1>2, AppendNew DEF Ownership, OwnerTypes
<1>5. Owners'
  BY <1>1, <1>2, <1>3, AppendNew DEF Ownership, Owned, Owners
<1>6. OwnedIsAccepted'
  BY <1>1, <1>2, AppendNew DEF Ownership, Owned, OwnedIsAccepted, Held
<1>7. Visits'
  BY <1>1 DEF Ownership, Owned, Visits
<1> QED
  BY <1>4, <1>5, <1>6, <1>7 DEF Ownership, Owned

LEMMA AddNewOwnership ==
  ASSUME Ownership, NEW s \in Sockets, AddNew(s)
  PROVE  Ownership'
<1>1. /\ net = "adding" /\ m_new_sockets # <<>> /\ Head(m_new_sockets) = s
      /\ m_new_sockets' = Tail(m_new_sockets)
      /\ \/ m_connections' = m_connections - 1 /\ m_sockets' = m_sockets
         \/ m_connections' = m_connections /\ m_sockets' = Append(m_sockets, s)
      /\ UNCHANGED <<main, net, todo, peer>>
  BY DEF AddNew, uncount
<1>2. /\ m_new_sockets \in Seq(Sockets) /\ m_sockets \in Seq(Sockets)
      /\ Len(m_new_sockets) \in Nat /\ Len(m_sockets) \in Nat
      /\ IsInjective(m_new_sockets) /\ IsInjective(m_sockets)
  BY DEF Ownership, OwnerTypes, Owned, Owners
<1>3. /\ Tail(m_new_sockets) \in Seq(Sockets)
      /\ Len(Tail(m_new_sockets)) = Len(m_new_sockets) - 1
      /\ ToSet(Tail(m_new_sockets)) = ToSet(m_new_sockets) \ {s}
      /\ s \in ToSet(m_new_sockets) /\ IsInjective(Tail(m_new_sockets))
  BY <1>1, <1>2, HeadOut
<1>4. /\ Append(m_sockets, s) \in Seq(Sockets)
      /\ Len(Append(m_sockets, s)) = Len(m_sockets) + 1
      /\ ToSet(Append(m_sockets, s)) = ToSet(m_sockets) \cup {s}
      /\ IsInjective(Append(m_sockets, s))
  BY <1>2, <1>3, AppendNew DEF Ownership, Owned, Owners
<1>5. OwnerTypes'
  BY <1>1, <1>3, <1>4 DEF Ownership, OwnerTypes
<1>6. Owners'
  <2>1. m_connections' = Len(m_new_sockets') + Len(m_sockets')
    <3>1. m_connections = Len(m_new_sockets) + Len(m_sockets)
      BY DEF Ownership, Owned, Owners
    <3>2. Len(m_new_sockets') = Len(m_new_sockets) - 1
      BY <1>1, <1>3
    <3>3. \/ m_connections' = m_connections - 1 /\ Len(m_sockets') = Len(m_sockets)
          \/ m_connections' = m_connections /\ Len(m_sockets') = Len(m_sockets) + 1
      BY <1>1, <1>4
    <3> QED
      BY <1>2, <3>1, <3>2, <3>3
  <2>2. /\ IsInjective(m_new_sockets') /\ IsInjective(m_sockets')
        /\ ToSet(m_new_sockets') \cap ToSet(m_sockets') = {}
        /\ ToSet(m_new_sockets') \cup ToSet(m_sockets') \subseteq
             ToSet(m_new_sockets) \cup ToSet(m_sockets)
    BY <1>1, <1>2, <1>3, <1>4 DEF Ownership, Owned, Owners
  <2> QED
    BY <1>1, <2>1, <2>2 DEF Ownership, Owned, Owners
<1>7. OwnedIsAccepted'
  BY <1>1, <1>3, <1>4 DEF Ownership, Owned, OwnedIsAccepted, Held
<1>8. Visits'
  BY <1>1, <1>4 DEF Ownership, Owned, Visits
<1> QED
  BY <1>5, <1>6, <1>7, <1>8 DEF Ownership, Owned

LEMMA ReapOwnership ==
  ASSUME Ownership, NEW s \in Sockets, Reap(s)
  PROVE  Ownership'
<1>1. /\ net = "update" /\ todo # <<>> /\ Head(todo) = s /\ todo' = Tail(todo)
      /\ m_connections' = m_connections - 1
      /\ UNCHANGED <<main, net, m_new_sockets, peer>>
  BY DEF Reap, Updating, uncount
<1>2. PICK i \in DOMAIN m_sockets : m_sockets[i] = s /\ m_sockets' = RemoveAt(m_sockets, i)
  BY DEF Reap
<1>3. /\ m_new_sockets \in Seq(Sockets) /\ m_sockets \in Seq(Sockets) /\ todo \in Seq(Sockets)
      /\ Len(m_new_sockets) \in Nat /\ Len(m_sockets) \in Nat
      /\ IsInjective(m_sockets) /\ IsInjective(todo)
  BY DEF Ownership, OwnerTypes, Owned, Owners, Visits
<1>4. /\ m_sockets' \in Seq(Sockets) /\ Len(m_sockets') = Len(m_sockets) - 1
      /\ ToSet(m_sockets') = ToSet(m_sockets) \ {s} /\ IsInjective(m_sockets')
  BY <1>2, <1>3, OneOut
<1>5. /\ todo' \in Seq(Sockets) /\ ToSet(todo') = ToSet(todo) \ {s} /\ IsInjective(todo')
  BY <1>1, <1>3, HeadOut
<1>6. OwnerTypes'
  BY <1>1, <1>4, <1>5 DEF Ownership, OwnerTypes
<1>7. Owners'
  BY <1>1, <1>3, <1>4 DEF Ownership, Owned, Owners
<1>8. OwnedIsAccepted'
  BY <1>1, <1>4 DEF Ownership, Owned, OwnedIsAccepted, Held
<1>9. Visits'
  BY <1>1, <1>4, <1>5 DEF Ownership, Owned, Visits
<1> QED
  BY <1>6, <1>7, <1>8, <1>9 DEF Ownership, Owned

(* The other steps of the tick go through the list and leave it as it is.  *)
LEMMA TickOwnership ==
  ASSUME Ownership, UNCHANGED <<main, m_sockets, shared_vars, peer>>,
         net' \in {"idle", "adding", "update", "flush"},
         \/ todo' = todo /\ (todo = <<>> => net' # "flush")
              /\ (net' \in {"idle", "adding"} => todo = <<>>)
         \/ todo # <<>> /\ todo' = Tail(todo) /\ net' = "update"
         \/ todo' = m_sockets /\ net' = "update"
  PROVE  Ownership'
<1>1. todo' \in Seq(Sockets) /\ IsInjective(todo') /\ ToSet(todo') \subseteq ToSet(m_sockets)
  <2>1. /\ todo \in Seq(Sockets) /\ m_sockets \in Seq(Sockets)
        /\ IsInjective(todo) /\ IsInjective(m_sockets) /\ ToSet(todo) \subseteq ToSet(m_sockets)
    BY DEF Ownership, OwnerTypes, Owned, Owners, Visits
  <2>2. todo # <<>> => /\ Tail(todo) \in Seq(Sockets) /\ IsInjective(Tail(todo))
                       /\ ToSet(Tail(todo)) \subseteq ToSet(todo)
    BY <2>1, HeadOut
  <2> QED
    BY <2>1, <2>2
<1>2. OwnerTypes'
  BY <1>1 DEF Ownership, OwnerTypes, shared_vars
<1>3. Owners' /\ OwnedIsAccepted'
  BY DEF Ownership, Owned, Owners, OwnedIsAccepted, Held, shared_vars
<1>4. Visits'
  BY <1>1 DEF Visits
<1> QED
  BY <1>2, <1>3, <1>4 DEF Ownership, Owned

(* A step that moves no session.                                           *)
LEMMA SameOwnership ==
  ASSUME Ownership, UNCHANGED <<main, thread_vars, shared_vars>>,
         peer' \in [Sockets -> {"none", "connected", "reset"}],
         \A s \in Sockets : peer[s] # "none" => peer'[s] # "none"
  PROVE  Ownership'
<1>1. UNCHANGED <<main, net, todo, m_sockets, m_new_sockets, m_connections>>
  BY DEF thread_vars, shared_vars
<1>2. OwnerTypes' /\ Owners' /\ Visits'
  BY <1>1 DEF Ownership, OwnerTypes, Owned, Owners, Visits
<1>3. OwnedIsAccepted'
  BY <1>1 DEF Ownership, Owned, OwnedIsAccepted, Held
<1> QED
  BY <1>2, <1>3 DEF Ownership, Owned

LEMMA OwnershipStep == Ownership /\ [Next]_vars => Ownership'
<1> SUFFICES ASSUME Ownership, [Next]_vars PROVE Ownership'
  OBVIOUS
<1>1. ASSUME NEW s \in Sockets, Accept(s) \/ MainThread(s) PROVE Ownership'
  BY <1>1, MainOwnership, AppendOwnership DEF MainThread
<1>2. ASSUME NEW s \in Sockets, Handlers(s) PROVE Ownership'
  BY <1>2, SameOwnership
  DEF Handlers, ReadError, ReadDone, Writable, HandlerOfDestroyed, Ownership, OwnerTypes
<1>3. ASSUME NEW s \in Sockets, Update(s) PROVE Ownership'
  <2>1. CASE AddNew(s) \/ Reap(s)
    BY <2>1, AddNewOwnership, ReapOwnership
  <2>2. CASE NothingToWrite(s) \/ StartFlush(s)
    BY <2>2, TickOwnership DEF NothingToWrite, StartFlush, Updating, Ownership, OwnerTypes
  <2>3. CASE Flush(s)
    <3>1. todo # <<>> /\ net = "flush"
      BY <2>3 DEF Flush, Ownership, Owned, Visits
    <3>2. \/ net' = "update" /\ todo' = Tail(todo)
          \/ UNCHANGED <<net, todo>>
      BY <2>3 DEF Flush
    <3> QED
      BY <2>3, <3>1, <3>2, TickOwnership DEF Flush
  <2> QED
    BY <1>3, <2>1, <2>2, <2>3 DEF Update
<1>4. ASSUME NEW s \in Sockets, PeerResets(s) PROVE Ownership'
  <2>1. /\ peer' \in [Sockets -> {"none", "connected", "reset"}]
        /\ \A t \in Sockets : peer[t] # "none" => peer'[t] # "none"
    BY <1>4 DEF PeerResets, Ownership, OwnerTypes
  <2> QED
    BY <1>4, <2>1, SameOwnership DEF PeerResets
<1>5. CASE Tick \/ AddingDone \/ TickDone
  BY <1>5, TickOwnership DEF Tick, AddingDone, TickDone, Ownership, Owned, Visits
<1>6. CASE UNCHANGED vars
  BY <1>6, SameOwnership DEF vars, Ownership, OwnerTypes
<1> QED
  BY <1>1, <1>2, <1>3, <1>4, <1>5, <1>6 DEF Next


-------------------------------------------------------------------------------
(* What a session does, given who owns it.                                 *)

Conduct == Fresh /\ Waits /\ Destruction /\ UndefinedByWait

SocketTypes ==
  /\ m_closed \in [Sockets -> BOOLEAN] /\ m_writing_async \in [Sockets -> BOOLEAN]
  /\ reading \in [Sockets -> BOOLEAN] /\ waiting \in [Sockets -> BOOLEAN]
  /\ m_write_queue \in [Sockets -> Seq(Packets)]

Conducted == SocketTypes /\ Ownership /\ Conduct

LEMMA ConductInit == Init => Conduct
<1> SUFFICES ASSUME Init PROVE Conduct
  OBVIOUS
<1>1. Fresh /\ Waits /\ UndefinedByWait
  BY DEF Init, Fresh, Untouched, Waits, UndefinedByWait
<1>2. Destruction
  BY DEF Init, Destruction, Destroyed
<1> QED
  BY <1>1, <1>2 DEF Conduct

(* A step that only changes owners, or the connection.                     *)
LEMMA OwnerConduct ==
  ASSUME Conducted, UNCHANGED socket_vars, process' # "undefined",
         net' = "flush" => ~ waiting[Head(todo')] /\ m_write_queue[Head(todo')] # <<>>,
         \A t \in Sockets :
           /\ peer'[t] = "none" => peer[t] = "none"
           /\ peer[t] = "reset" => peer'[t] = "reset"
           /\ main'.at = "start" /\ main'.socket = t =>
                peer[t] = "none" \/ (main.at = "start" /\ main.socket = t)
           /\ Destroyed(t)' => \/ Destroyed(t)
                               \/ m_closed[t]
                               \/ Untouched(t) /\ peer'[t] = "reset",
         main'.at = "return" =>
           \/ main'.socket \in ToSet(m_new_sockets') \cup ToSet(m_sockets')
           \/ m_closed[main'.socket]
  PROVE  Conduct'
<1>1. UNCHANGED <<m_closed, m_writing_async, m_write_queue, reading, waiting>>
  BY DEF socket_vars
<1>2. Fresh'
  BY <1>1 DEF Conducted, Conduct, Fresh, Untouched
<1>3. Waits'
  BY <1>1 DEF Conducted, Conduct, Waits
<1>4. ASSUME NEW t \in Sockets
      PROVE  /\ reading[t] => ~ m_closed[t]
             /\ Destroyed(t)' => /\ ~ reading[t]
                                 /\ m_closed[t] \/ (peer'[t] = "reset" /\ ~ waiting[t])
  BY DEF Conducted, Conduct, Destruction, Untouched
<1>5. Destruction'
  BY <1>1, <1>4 DEF Destruction
<1>6. UndefinedByWait'
  BY DEF UndefinedByWait
<1> QED
  BY <1>2, <1>3, <1>5, <1>6 DEF Conduct

(* A step of one owned session that has been started.                      *)
LEMMA SessionConduct ==
  ASSUME Conducted, NEW s \in Sockets,
         UNCHANGED <<main, m_new_sockets, m_sockets, peer>>, process' # "undefined",
         Held(s), peer[s] # "none", ~ (main.at = "start" /\ main.socket = s),
         \A t \in Sockets \ {s} :
           /\ m_closed'[t] = m_closed[t] /\ reading'[t] = reading[t]
           /\ waiting'[t] = waiting[t] /\ m_writing_async'[t] = m_writing_async[t]
           /\ m_write_queue'[t] = m_write_queue[t],
         m_closed[s] => m_closed'[s],
         reading'[s] => ~ m_closed'[s],
         waiting'[s] <=> m_writing_async'[s],
         waiting'[s] => m_write_queue'[s] # <<>>,
         net' = "flush" => Head(todo') = s /\ ~ waiting'[s] /\ m_write_queue'[s] # <<>>
  PROVE  Conduct'
<1>1. \A t \in Sockets : Destroyed(t)' => Destroyed(t) /\ t # s
  BY DEF Destroyed, Held
<1>2. Fresh'
  BY DEF Conducted, Conduct, Fresh, Untouched
<1>3. Waits'
  BY DEF Conducted, Conduct, Waits
<1>4. Destruction'
  <2>1. main.at = "return" => \/ main.socket \in ToSet(m_new_sockets) \cup ToSet(m_sockets)
                              \/ m_closed'[main.socket]
    <3>1. main.at = "return" => main.socket \in Sockets
      BY DEF Conducted, Ownership, OwnerTypes, Owned, Owners
    <3> QED
      BY <3>1 DEF Conducted, Conduct, Destruction
  <2>2. ASSUME NEW t \in Sockets
        PROVE  /\ reading'[t] => ~ m_closed'[t]
               /\ Destroyed(t)' => /\ ~ reading'[t]
                                   /\ m_closed'[t] \/ (peer[t] = "reset" /\ ~ waiting'[t])
    BY <1>1 DEF Conducted, Conduct, Destruction
  <2> QED
    BY <2>1, <2>2 DEF Destruction
<1>5. UndefinedByWait'
  BY DEF UndefinedByWait
<1> QED
  BY <1>2, <1>3, <1>4, <1>5 DEF Conduct

(* A session with a handler, or one the tick is at, is one of these.       *)
LEMMA HandledIsStarted ==
  ASSUME Conducted, NEW s \in Sockets, Held(s), reading[s] \/ waiting[s]
  PROVE  peer[s] # "none" /\ ~ (main.at = "start" /\ main.socket = s)
BY DEF Conducted, Conduct, Fresh, Untouched

LEMMA VisitedIsStarted ==
  ASSUME Conducted, NEW s \in Sockets, todo # <<>>, Head(todo) = s
  PROVE  /\ s \in ToSet(m_sockets) /\ Held(s) /\ peer[s] # "none"
         /\ ~ (main.at = "start" /\ main.socket = s)
<1>1. s \in ToSet(m_sockets)
  BY HeadOut DEF Conducted, Ownership, OwnerTypes, Owned, Visits
<1> QED
  BY <1>1 DEF Conducted, Ownership, Owned, Owners, OwnedIsAccepted, Held


LEMMA MainConduct ==
  ASSUME Conducted, NEW s \in Sockets,
         Accept(s) \/ StartThrows(s) \/ append(s) \/ Return(s)
  PROVE  Conduct'
<1>1. /\ UNCHANGED <<socket_vars, net, todo, m_sockets, process>> /\ process = "running"
      /\ UNCHANGED <<m_closed, m_writing_async, m_write_queue, reading, waiting>>
  BY DEF Accept, StartThrows, append, Return, thread_vars, socket_vars
<1>2. s # NoSocket /\ peer \in [Sockets -> {"none", "connected", "reset"}]
      /\ m_new_sockets \in Seq(Sockets)
  BY NoSocketAssumption DEF Conducted, Ownership, OwnerTypes
<1>3. net' = "flush" => ~ waiting[Head(todo')] /\ m_write_queue[Head(todo')] # <<>>
  BY <1>1 DEF Conducted, Conduct, Waits
<1>4. CASE Accept(s)
  <2>1. /\ main.socket = NoSocket /\ main'.socket = s /\ main'.at = "start"
        /\ peer[s] = "none" /\ peer' = [peer EXCEPT ![s] = "connected"]
        /\ UNCHANGED m_new_sockets
    BY <1>4 DEF Accept, Conducted, Ownership, Owned, Owners, shared_vars
  <2>2. \A t \in Sockets : Destroyed(t)' => Destroyed(t)
    BY <1>1, <1>2, <2>1, NoSocketAssumption DEF Destroyed, Held
  <2> QED
    BY <1>1, <1>2, <1>3, <2>1, <2>2, OwnerConduct
<1>5. CASE StartThrows(s)
  <2>1. /\ main.at = "start" /\ main.socket = s /\ main'.at = "accept"
        /\ peer[s] = "reset" /\ UNCHANGED <<m_new_sockets, peer>>
    BY <1>5 DEF StartThrows, shared_vars
  <2>2. \A t \in Sockets : Destroyed(t)' => Destroyed(t) \/ (Untouched(t) /\ peer[t] = "reset")
    BY <1>1, <2>1 DEF Destroyed, Held, Conducted, Conduct, Fresh
  <2> QED
    BY <1>1, <1>3, <2>1, <2>2, OwnerConduct
<1>6. CASE append(s)
  <2>1. /\ main.socket = s /\ main'.socket = s /\ main'.at = "return" /\ UNCHANGED peer
        /\ m_new_sockets' = Append(m_new_sockets, s)
    BY <1>6 DEF append
  <2>2. s \in ToSet(m_new_sockets')
    BY <1>2, <2>1, AppendNew
  <2>3. \A t \in Sockets : Destroyed(t)' => Destroyed(t)
    BY <1>1, <1>2, <2>1, AppendNew DEF Destroyed, Held
  <2> QED
    BY <1>1, <1>3, <2>1, <2>2, <2>3, OwnerConduct
<1>7. CASE Return(s)
  <2>1. /\ main.at = "return" /\ main.socket = s /\ main'.at = "accept"
        /\ UNCHANGED <<m_new_sockets, peer>>
    BY <1>7 DEF Return, shared_vars
  <2>2. \A t \in Sockets : Destroyed(t)' => Destroyed(t) \/ m_closed[t]
    BY <1>1, <2>1 DEF Destroyed, Held, Conducted, Conduct, Destruction
  <2> QED
    BY <1>1, <1>3, <2>1, <2>2, OwnerConduct
<1> QED
  BY <1>4, <1>5, <1>6, <1>7

LEMMA StartConduct ==
  ASSUME Conducted, NEW s \in Sockets, Start(s)
  PROVE  Conduct'
<1>1. /\ main.at = "start" /\ main.socket = s /\ main'.at = "append" /\ main'.socket = s
      /\ reading' = [reading EXCEPT ![s] = TRUE] /\ process' = "running"
      /\ UNCHANGED <<net, todo, m_sockets, m_new_sockets, m_connections, peer, m_closed,
                     m_writing_async, m_write_queue, waiting>>
  BY DEF Start, thread_vars, shared_vars
<1>2. /\ peer[s] # "none" /\ Untouched(s)
      /\ reading'[s] /\ \A t \in Sockets : t # s => reading'[t] = reading[t]
  BY <1>1 DEF Conducted, SocketTypes, Conduct, Fresh, Ownership, Owned, OwnedIsAccepted, Held
<1>3. \A t \in Sockets : Destroyed(t)' => Destroyed(t) /\ t # s
  BY <1>1 DEF Destroyed, Held
<1>4. Fresh'
  BY <1>1, <1>2 DEF Conducted, Conduct, Fresh, Untouched
<1>5. Waits' /\ UndefinedByWait'
  BY <1>1 DEF Conducted, Conduct, Waits, UndefinedByWait
<1>6. Destruction'
  BY <1>1, <1>2, <1>3 DEF Conducted, Conduct, Destruction, Untouched
<1> QED
  BY <1>4, <1>5, <1>6 DEF Conduct

(* The steps of the tick that write nothing.                               *)
LEMMA TickConduct ==
  ASSUME Conducted,
         \/ Tick \/ AddingDone \/ TickDone
         \/ \E s \in Sockets : NothingToWrite(s) \/ StartFlush(s)
  PROVE  Conduct'
<1>1. /\ UNCHANGED <<main, m_sockets, m_new_sockets, socket_vars, peer, process>>
      /\ process = "running"
  BY DEF Tick, AddingDone, TickDone, NothingToWrite, StartFlush, Updating, shared_vars
<1>2. net' = "flush" => ~ waiting[Head(todo')] /\ m_write_queue[Head(todo')] # <<>>
  BY DEF Tick, AddingDone, TickDone, NothingToWrite, StartFlush, Updating,
         Conducted, Conduct, Waits
<1>3. \A t \in Sockets : Destroyed(t)' => Destroyed(t)
  BY <1>1 DEF Destroyed, Held
<1> QED
  BY <1>1, <1>2, <1>3, OwnerConduct DEF Conducted, Conduct, Destruction

(* A session that the thread lets go of is closed.                         *)
LEMMA LeavingConduct ==
  ASSUME Conducted, NEW s \in Sockets, AddNew(s) \/ Reap(s)
  PROVE  Conduct'
<1>1. /\ UNCHANGED <<main, socket_vars, peer, process, net>> /\ process = "running"
      /\ net # "flush"
  BY DEF AddNew, Reap, Updating
<1>2. \A t \in Sockets :
        t \in ToSet(m_new_sockets) \cup ToSet(m_sockets) =>
          \/ t \in ToSet(m_new_sockets') \cup ToSet(m_sockets')
          \/ m_closed[t]
  <2>1. CASE AddNew(s)
    <3>1. /\ m_new_sockets \in Seq(Sockets) /\ m_sockets \in Seq(Sockets)
          /\ IsInjective(m_new_sockets) /\ m_new_sockets # <<>> /\ Head(m_new_sockets) = s
          /\ m_new_sockets' = Tail(m_new_sockets)
          /\ \/ m_closed[s] /\ m_sockets' = m_sockets
             \/ m_sockets' = Append(m_sockets, s)
      BY <2>1 DEF AddNew, Conducted, Ownership, OwnerTypes, Owned, Owners
    <3>2. ToSet(m_new_sockets') = ToSet(m_new_sockets) \ {s}
      BY <3>1, HeadOut
    <3>3. ToSet(Append(m_sockets, s)) = ToSet(m_sockets) \cup {s}
      BY <3>1, AppendNew
    <3> QED
      BY <3>1, <3>2, <3>3
  <2>2. CASE Reap(s)
    <3>1. /\ m_sockets \in Seq(Sockets) /\ IsInjective(m_sockets)
          /\ m_closed[s] /\ UNCHANGED m_new_sockets
      BY <2>2 DEF Reap, Conducted, Ownership, OwnerTypes, Owned, Owners
    <3>2. ToSet(m_sockets') = ToSet(m_sockets) \ {s}
      BY <2>2, <3>1, OneOut DEF Reap
    <3> QED
      BY <3>1, <3>2
  <2> QED
    BY <2>1, <2>2
<1>3. \A t \in Sockets : Destroyed(t)' => Destroyed(t) \/ m_closed[t]
  BY <1>1, <1>2 DEF Destroyed, Held
<1>4. main.at = "return" => main.socket \in Sockets
  BY DEF Conducted, Ownership, OwnerTypes, Owned, Owners
<1>5. main'.at = "return" =>
        \/ main'.socket \in ToSet(m_new_sockets') \cup ToSet(m_sockets')
        \/ m_closed[main'.socket]
  BY <1>1, <1>2, <1>4 DEF Conducted, Conduct, Destruction
<1> QED
  BY <1>1, <1>3, <1>5, OwnerConduct

LEMMA PeerConduct ==
  ASSUME Conducted, NEW s \in Sockets, PeerResets(s)
  PROVE  Conduct'
<1>1. /\ UNCHANGED <<main, net, todo, m_sockets, m_new_sockets, socket_vars, process>>
      /\ process = "running" /\ peer[s] = "connected" /\ peer' = [peer EXCEPT ![s] = "reset"]
      /\ peer \in [Sockets -> {"none", "connected", "reset"}]
  BY DEF PeerResets, thread_vars, shared_vars, Conducted, Ownership, OwnerTypes
<1>2. \A t \in Sockets : Destroyed(t)' => Destroyed(t)
  BY <1>1 DEF Destroyed, Held
<1>3. net' = "flush" => ~ waiting[Head(todo')] /\ m_write_queue[Head(todo')] # <<>>
  BY <1>1 DEF Conducted, Conduct, Waits
<1> QED
  BY <1>1, <1>2, <1>3, OwnerConduct DEF Conducted, Conduct, Destruction

(* A read that fails or ends: the session stays in its owner's hands.      *)
LEMMA ReadConduct ==
  ASSUME Conducted, NEW s \in Sockets, ReadError(s) \/ ReadDone(s)
  PROVE  Conduct'
<1>1. /\ UNCHANGED <<main, m_new_sockets, m_sockets, peer, net, todo, m_writing_async, waiting>>
      /\ net = "idle" /\ Held(s) /\ reading[s]
      /\ process' \in {"running", "terminated"}
  BY DEF ReadError, ReadDone, HandlerRuns, close_socket, thread_vars, shared_vars
<1>2. /\ \/ reading' = [reading EXCEPT ![s] = FALSE]
            /\ (m_closed' = m_closed \/ m_closed' = [m_closed EXCEPT ![s] = TRUE])
         \/ UNCHANGED <<reading, m_closed>>
  BY DEF ReadError, ReadDone, end_read, close_socket
<1>3. /\ \A t \in Sockets \ {s} : m_write_queue'[t] = m_write_queue[t]
      /\ m_write_queue[s] # <<>> => m_write_queue'[s] # <<>>
  <2>1. CASE ReadError(s)
    BY <2>1 DEF ReadError
  <2>2. CASE ReadDone(s)
    <3>1. PICK n \in 0 .. (MaxPackets - queued[s]) :
            m_write_queue' =
              [m_write_queue EXCEPT
                 ![s] = @ \o [i \in 1..n |-> [id |-> queued[s] + i, sent |-> 0]]]
      BY <2>2 DEF ReadDone
    <3> DEFINE more == [i \in 1..n |-> [id |-> queued[s] + i, sent |-> 0]]
    <3>2. m_write_queue' = [m_write_queue EXCEPT ![s] = m_write_queue[s] \o more]
      BY <3>1
    <3>3. more \in Seq({more[i] : i \in 1 .. n})
      <4>1. n \in Nat
        BY <3>1
      <4> QED
        BY <4>1
    <3> HIDE DEF more
    <3>4. m_write_queue \in [Sockets -> Seq(Packets)] /\ m_write_queue[s] \in Seq(Packets)
      BY DEF Conducted, SocketTypes
    <3>5. m_write_queue[s] # <<>> => m_write_queue[s] \o more # <<>>
      BY <3>3, <3>4, ConcatEqualIffEmpty
    <3> QED
      BY <3>2, <3>4, <3>5
  <2> QED
    BY <2>1, <2>2
<1>4. /\ \A t \in Sockets \ {s} : m_closed'[t] = m_closed[t] /\ reading'[t] = reading[t]
      /\ m_closed[s] => m_closed'[s]
      /\ reading'[s] => ~ m_closed'[s]
  BY <1>2 DEF Conducted, SocketTypes, Conduct, Destruction
<1>5. (waiting[s] <=> m_writing_async[s]) /\ (waiting[s] => m_write_queue[s] # <<>>)
  BY DEF Conducted, Conduct, Waits
<1> QED
  BY <1>1, <1>3, <1>4, <1>5, HandledIsStarted, SessionConduct


-------------------------------------------------------------------------------
(* Writing.                                                                *)

(* What the four outcomes of a write are for a session's flag and queue.   *)
LEMMA WriteOutcome ==
  ASSUME SocketTypes, NEW s \in Sockets,
         WouldBlock(s) \/ WriteFails(s) \/ PartialWrite(s) \/ WholeWrite(s)
  PROVE  /\ m_write_queue[s] # <<>>
         /\ \A t \in Sockets \ {s} : m_write_queue'[t] = m_write_queue[t]
         /\ WouldBlock(s) \/ PartialWrite(s) =>
              /\ m_write_queue'[s] # <<>>
              /\ m_writing_async' = [m_writing_async EXCEPT ![s] = TRUE]
              /\ waiting' = [waiting EXCEPT ![s] = TRUE]
<1>1. /\ m_write_queue[s] # <<>> /\ m_write_queue \in [Sockets -> Seq(Packets)]
      /\ m_write_queue[s] \in Seq(Packets)
  BY DEF SocketTypes, WouldBlock, WriteFails, PartialWrite, WholeWrite
<1>2. CASE WouldBlock(s)
  BY <1>1, <1>2 DEF WouldBlock, await_writable
<1>3. CASE PartialWrite(s)
  <2>1. PICK n \in 1 .. (PacketBytes - 1) :
          m_write_queue' = [m_write_queue EXCEPT ![s][1].sent = @ + n]
    BY <1>3 DEF PartialWrite, read_completed
  <2>2. m_write_queue' =
          [m_write_queue EXCEPT
             ![s] = [m_write_queue[s] EXCEPT
                       ![1] = [m_write_queue[s][1] EXCEPT !.sent = m_write_queue[s][1].sent + n]]]
    BY <2>1
  <2>3. /\ \A t \in Sockets \ {s} : m_write_queue'[t] = m_write_queue[t]
        /\ DOMAIN m_write_queue'[s] = DOMAIN m_write_queue[s]
    BY <1>1, <2>2
  <2>4. 1 \in DOMAIN m_write_queue'[s]
    BY <1>1, <2>3
  <2> QED
    BY <1>1, <1>3, <2>3, <2>4 DEF PartialWrite, await_writable
<1>4. CASE WriteFails(s) \/ WholeWrite(s)
  <2>1. m_write_queue' = [m_write_queue EXCEPT ![s] = Tail(m_write_queue[s])]
    BY <1>4 DEF WriteFails, WholeWrite, pop
  <2>2. \A t \in Sockets \ {s} : m_write_queue'[t] = m_write_queue[t]
    BY <1>1, <2>1
  <2> QED
    BY <1>1, <1>2, <1>3, <2>2
<1> QED
  BY <1>1, <1>2, <1>3, <1>4


LEMMA WritableConduct ==
  ASSUME Conducted, NEW s \in Sockets, Writable(s)
  PROVE  Conduct'
<1>1. /\ UNCHANGED <<main, m_new_sockets, m_sockets, peer, net, todo, m_closed, reading, process>>
      /\ net = "idle" /\ Held(s) /\ waiting[s] /\ process = "running"
  BY DEF Writable, HandlerRuns, thread_vars, shared_vars
<1>2. /\ \A t \in Sockets \ {s} : /\ m_write_queue'[t] = m_write_queue[t]
                                  /\ waiting'[t] = waiting[t]
                                  /\ m_writing_async'[t] = m_writing_async[t]
      /\ waiting'[s] <=> m_writing_async'[s]
      /\ waiting'[s] => m_write_queue'[s] # <<>>
  <2>1. CASE (WriteFails(s) \/ WholeWrite(s)) /\ end_wait(s)
    BY <2>1, WriteOutcome DEF end_wait, Conducted, SocketTypes
  <2>2. CASE PartialWrite(s)
    BY <2>2, WriteOutcome DEF Conducted, SocketTypes
  <2> QED
    BY <2>1, <2>2 DEF Writable
<1>3. reading[s] => ~ m_closed[s]
  BY DEF Conducted, Conduct, Destruction
<1> QED
  BY <1>1, <1>2, <1>3, HandledIsStarted, SessionConduct

LEMMA FlushConduct ==
  ASSUME Conducted, NEW s \in Sockets, Flush(s)
  PROVE  Conduct'
<1>1. /\ UNCHANGED <<main, m_new_sockets, m_sockets, peer, m_closed, reading, process>>
      /\ net = "flush" /\ process = "running" /\ Head(todo) = s
  BY DEF Flush, shared_vars
<1>2. todo # <<>> /\ ~ waiting[s]
  BY <1>1 DEF Conducted, Ownership, Owned, Visits, Conduct, Waits
<1>3. ~ m_writing_async[s] /\ (reading[s] => ~ m_closed[s])
  BY <1>2 DEF Conducted, Conduct, Waits, Destruction
<1>4. /\ \A t \in Sockets \ {s} : /\ m_write_queue'[t] = m_write_queue[t]
                                  /\ waiting'[t] = waiting[t]
                                  /\ m_writing_async'[t] = m_writing_async[t]
      /\ waiting'[s] <=> m_writing_async'[s]
      /\ waiting'[s] => m_write_queue'[s] # <<>>
      /\ net' = "flush" => todo' = todo /\ ~ waiting'[s] /\ m_write_queue'[s] # <<>>
  <2>1. CASE (WouldBlock(s) \/ PartialWrite(s)) /\ net' = "update"
    BY <2>1, WriteOutcome DEF Conducted, SocketTypes
  <2>2. CASE WriteFails(s) /\ net' = "update" /\ UNCHANGED <<m_writing_async, waiting>>
    BY <1>2, <1>3, <2>2, WriteOutcome DEF Conducted
  <2>3. CASE WholeWrite(s) /\ UNCHANGED <<m_writing_async, waiting>>
             /\ \/ net' = "update"
                \/ m_write_queue'[s] # <<>> /\ UNCHANGED <<net, todo>>
    BY <1>2, <1>3, <2>3, WriteOutcome DEF Conducted
  <2> QED
    BY <2>1, <2>2, <2>3 DEF Flush
<1> QED
  BY <1>1, <1>2, <1>3, <1>4, VisitedIsStarted, SessionConduct

(* The handler of a write wait, and of no read, is what meets a session    *)
(* that is gone.                                                           *)
LEMMA DestroyedConduct ==
  ASSUME Conducted, NEW s \in Sockets, HandlerOfDestroyed(s)
  PROVE  Conduct'
<1>1. /\ UNCHANGED <<main, net, todo, m_sockets, m_new_sockets, peer, m_closed,
                     m_writing_async, m_write_queue, reading, waiting>>
      /\ Destroyed(s) /\ (reading[s] \/ waiting[s])
  BY DEF HandlerOfDestroyed, thread_vars, shared_vars, socket_vars
<1>2. waiting[s] /\ m_closed[s]
  BY <1>1 DEF Conducted, Conduct, Destruction
<1>3. \A t \in Sockets : Destroyed(t)' <=> Destroyed(t)
  BY <1>1 DEF Destroyed, Held
<1>4. Fresh' /\ Waits'
  BY <1>1 DEF Conducted, Conduct, Fresh, Untouched, Waits
<1>5. Destruction' /\ UndefinedByWait'
  BY <1>1, <1>2, <1>3 DEF Conducted, Conduct, Destruction, UndefinedByWait
<1> QED
  BY <1>4, <1>5 DEF Conduct

LEMMA ConductStep == Conducted /\ [Next]_vars => Conduct'
<1> SUFFICES ASSUME Conducted, [Next]_vars PROVE Conduct'
  OBVIOUS
<1>1. ASSUME NEW s \in Sockets, Accept(s) \/ MainThread(s) PROVE Conduct'
  BY <1>1, MainConduct, StartConduct DEF MainThread
<1>2. ASSUME NEW s \in Sockets, Handlers(s) PROVE Conduct'
  BY <1>2, ReadConduct, WritableConduct, DestroyedConduct DEF Handlers
<1>3. ASSUME NEW s \in Sockets, Update(s) PROVE Conduct'
  BY <1>3, LeavingConduct, TickConduct, FlushConduct DEF Update
<1>4. ASSUME NEW s \in Sockets, PeerResets(s) PROVE Conduct'
  BY <1>4, PeerConduct
<1>5. CASE Tick \/ AddingDone \/ TickDone
  BY <1>5, TickConduct
<1>6. CASE UNCHANGED vars
  <2>1. UNCHANGED <<main, net, todo, m_sockets, m_new_sockets, peer, m_closed, process,
                    m_writing_async, m_write_queue, reading, waiting>>
    BY <1>6 DEF vars, thread_vars, shared_vars, socket_vars
  <2>2. \A t \in Sockets : Destroyed(t)' <=> Destroyed(t)
    BY <2>1 DEF Destroyed, Held
  <2>3. Fresh' /\ Waits'
    BY <2>1 DEF Conducted, Conduct, Fresh, Untouched, Waits
  <2>4. Destruction' /\ UndefinedByWait'
    BY <2>1, <2>2 DEF Conducted, Conduct, Destruction, UndefinedByWait
  <2> QED
    BY <2>3, <2>4 DEF Conduct
<1> QED
  BY <1>1, <1>2, <1>3, <1>4, <1>5, <1>6 DEF Next


-------------------------------------------------------------------------------
(* What the kernel is given.  The prover has no division of variables, so  *)
(* that the place of a byte is worked out here once.                       *)

LEMMA Multiples ==
  ASSUME NEW P \in Nat \ {0}, NEW d \in Int, d * P > - P, d * P < P
  PROVE  d = 0
<1>1. CASE d >= 1
  <2>1. d * P >= 1 * P
    BY <1>1
  <2> QED
    BY <2>1
<1>2. CASE d <= -1
  <2>1. d * P <= (-1) * P
    BY <1>2
  <2> QED
    BY <2>1
<1> QED
  BY <1>1, <1>2

LEMMA Division ==
  ASSUME NEW P \in Nat \ {0}, NEW q \in Nat, NEW r \in 0 .. (P - 1)
  PROVE  (q * P + r) \div P = q /\ (q * P + r) % P = r
<1> DEFINE x == q * P + r
           d == x \div P
           m == x % P
<1>1. x \in Nat
  OBVIOUS
<1>2. d \in Int /\ m \in 0 .. (P - 1) /\ x = P * d + m
  BY <1>1
<1>3. d - q \in Int /\ (d - q) * P = d * P - q * P
  BY <1>2
<1>4. (d - q) * P = r - m
  BY <1>2, <1>3
<1>5. (d - q) * P > - P /\ (d - q) * P < P
  BY <1>2, <1>4
<1>6. d - q = 0
  BY <1>3, <1>5, Multiples
<1> QED
  BY <1>2, <1>3, <1>4, <1>6

LEMMA BytePlace ==
  ASSUME NEW q \in Nat, NEW r \in 0 .. (PacketBytes - 1)
  PROVE  Byte(q * PacketBytes + r + 1) = <<q + 1, r + 1>>
<1>1. (q * PacketBytes + r + 1) - 1 = q * PacketBytes + r
  BY PacketAssumption
<1> QED
  BY <1>1, Division, PacketAssumption DEF Byte


DataTypes ==
  /\ m_write_queue \in [Sockets -> Seq(Packets)]
  /\ queued \in [Sockets -> 0 .. MaxPackets]
  /\ wire \in [Sockets -> Seq(Places)]

(* The message a session is at, and where its bytes go.                    *)
LEMMA FrontPlace ==
  ASSUME DataTypes, Sent, NEW s \in Sockets, m_write_queue[s] # <<>>, ~ Broken(s)
  PROVE  LET q == m_write_queue[s]
             front == Head(q)
         IN /\ q \in Seq(Packets) /\ front = q[1] /\ front \in Packets /\ Len(q) \in Nat \ {0}
            /\ front.id \in 1 .. MaxPackets /\ front.sent \in 0 .. (PacketBytes - 1)
            /\ front.id = queued[s] - Len(q) + 1
            /\ Len(wire[s]) = (front.id - 1) * PacketBytes + front.sent
            /\ front.id <= queued[s]
<1> DEFINE q == m_write_queue[s]
           front == Head(q)
<1>1. q \in Seq(Packets) /\ q # <<>> /\ queued[s] \in 0 .. MaxPackets /\ queued[s] \in Nat
  BY BoundAssumption DEF DataTypes
<1>2. front = q[1] /\ front \in Packets /\ Len(q) \in Nat \ {0} /\ 1 \in DOMAIN q
  BY <1>1
<1>3. front.id \in 1 .. MaxPackets /\ front.sent \in 0 .. (PacketBytes - 1)
  BY <1>2 DEF Packets
<1>4. /\ q[1].id = queued[s] - Len(q) + 1
      /\ Len(wire[s]) = (queued[s] - Len(q)) * PacketBytes + front.sent
  BY <1>1, <1>2 DEF Sent, NoReplyDropped
<1>5. queued[s] - Len(q) = front.id - 1
  BY <1>1, <1>2, <1>3, <1>4, BoundAssumption
<1> HIDE DEF q, front
<1>6. Len(wire[s]) = (front.id - 1) * PacketBytes + front.sent
  BY <1>4, <1>5
<1>7. front.id = queued[s] - Len(q) + 1 /\ front.id <= queued[s]
  BY <1>1, <1>2, <1>4, BoundAssumption
<1> QED
  BY <1>1, <1>2, <1>3, <1>6, <1>7 DEF q, front

LEMMA Below ==
  \A a, b, c, sent, n, P \in Int :
    a + P = b /\ b <= c /\ sent + n <= P => a + sent + n <= c
OBVIOUS

LEMMA PutStream ==
  ASSUME DataTypes, Sent, NEW s \in Sockets, m_write_queue[s] # <<>>, ~ Broken(s),
         NEW n \in Nat, n >= 1, Head(m_write_queue[s]).sent + n <= PacketBytes, put(s, n)
  PROVE  LET front == Head(m_write_queue[s])
         IN /\ wire' \in [Sockets -> Seq(Places)]
            /\ \A t \in Sockets \ {s} : wire'[t] = wire[t]
            /\ Len(wire'[s]) = (front.id - 1) * PacketBytes + front.sent + n
            /\ Len(wire'[s]) <= queued[s] * PacketBytes
            /\ \A k \in 1 .. Len(wire'[s]) : wire'[s][k] = Byte(k)
<1> DEFINE front == Head(m_write_queue[s])
           more == [i \in 1..n |-> <<front.id, front.sent + i>>]
<1>1. /\ front.id \in 1 .. MaxPackets /\ front.sent \in 0 .. (PacketBytes - 1)
      /\ Len(wire[s]) = (front.id - 1) * PacketBytes + front.sent
      /\ front.id <= queued[s]
  BY FrontPlace
<1>2. /\ PacketBytes \in Nat \ {0} /\ front.id \in Nat \ {0} /\ front.sent \in Nat
      /\ queued[s] \in Nat
  BY <1>1, PacketAssumption, BoundAssumption DEF DataTypes
<1>3. wire' = [wire EXCEPT ![s] = wire[s] \o more]
  BY DEF put
<1>4. more \in Seq(Places) /\ Len(more) = n
  <2>1. \A i \in 1 .. n : <<front.id, front.sent + i>> \in Places
    BY <1>1, <1>2 DEF Places
  <2> QED
    BY <2>1
<1>5. \A i \in 1 .. n : more[i] = <<front.id, front.sent + i>>
  OBVIOUS
<1> HIDE DEF more, front
<1>6. wire \in [Sockets -> Seq(Places)] /\ wire[s] \in Seq(Places)
  BY DEF DataTypes
<1>7. /\ wire' \in [Sockets -> Seq(Places)] /\ wire'[s] = wire[s] \o more
      /\ \A t \in Sockets \ {s} : wire'[t] = wire[t]
  BY <1>3, <1>4, <1>6
<1>8. /\ Len(wire'[s]) = Len(wire[s]) + n
      /\ \A k \in 1 .. Len(wire[s]) : wire'[s][k] = wire[s][k]
      /\ \A i \in 1 .. n : wire'[s][Len(wire[s]) + i] = more[i]
  <2>1. Len(wire[s]) \in Nat
    BY <1>6
  <2>2. /\ Len(wire'[s]) = Len(wire[s]) + n
        /\ \A j \in 1 .. (Len(wire[s]) + n) :
             wire'[s][j] = IF j <= Len(wire[s]) THEN wire[s][j] ELSE more[j - Len(wire[s])]
    <3>1. /\ Len(wire[s] \o more) = Len(wire[s]) + Len(more)
          /\ \A j \in 1 .. (Len(wire[s]) + Len(more)) :
               (wire[s] \o more)[j] =
                 IF j <= Len(wire[s]) THEN wire[s][j] ELSE more[j - Len(wire[s])]
      BY <1>4, <1>6, ConcatProperties
    <3> QED
      BY <1>4, <1>7, <3>1
  <2>3. \A k \in 1 .. Len(wire[s]) : k \in 1 .. (Len(wire[s]) + n) /\ k <= Len(wire[s])
    BY <2>1
  <2>4. ASSUME NEW i \in 1 .. n PROVE wire'[s][Len(wire[s]) + i] = more[i]
    <3>1. /\ Len(wire[s]) + i \in 1 .. (Len(wire[s]) + n) /\ ~ (Len(wire[s]) + i <= Len(wire[s]))
          /\ (Len(wire[s]) + i) - Len(wire[s]) = i
      BY <2>1
    <3> QED
      BY <2>2, <3>1
  <2> QED
    BY <2>2, <2>3, <2>4
<1>9. Len(wire[s]) \in Nat
  BY <1>6
<1>10. Len(wire'[s]) = (front.id - 1) * PacketBytes + front.sent + n
  BY <1>1, <1>2, <1>8
<1>11. Len(wire'[s]) <= queued[s] * PacketBytes
  <2> DEFINE a == (front.id - 1) * PacketBytes
             b == front.id * PacketBytes
             c == queued[s] * PacketBytes
  <2>1. a + PacketBytes = b
    BY <1>2
  <2>2. b <= c
    BY <1>1, <1>2
  <2>3. a \in Int /\ b \in Int /\ c \in Int
    BY <1>2
  <2>4. front.sent + n <= PacketBytes
    BY DEF front
  <2>5. Len(wire'[s]) = a + front.sent + n
    BY <1>10
  <2> HIDE DEF a, b, c
  <2>6. a + front.sent + n <= c
    BY <1>2, <2>1, <2>2, <2>3, <2>4, Below
  <2>7. Len(wire'[s]) <= c
    BY <2>5, <2>6
  <2> QED
    BY <2>7 DEF c
<1>12. ASSUME NEW k \in 1 .. Len(wire'[s]) PROVE wire'[s][k] = Byte(k)
  <2>1. CASE k <= Len(wire[s])
    <3>1. k \in 1 .. Len(wire[s])
      BY <1>9, <2>1
    <3>2. wire[s][k] = Byte(k)
      BY <3>1 DEF Sent, Stream
    <3> QED
      BY <1>8, <3>1, <3>2
  <2>2. CASE ~ (k <= Len(wire[s]))
    <3>1. k - Len(wire[s]) \in 1 .. n
      BY <1>8, <1>9, <2>2
    <3>2. PICK i \in 1 .. n : k = Len(wire[s]) + i
      <4>1. k \in Int /\ k = Len(wire[s]) + (k - Len(wire[s]))
        BY <1>8, <1>9
      <4> QED
        BY <3>1, <4>1
    <3>3. wire'[s][k] = <<front.id, front.sent + i>>
      BY <1>5, <1>8, <3>2
    <3>4. front.sent + i - 1 \in 0 .. (PacketBytes - 1) /\ front.id - 1 \in Nat
      <4>1. front.sent + n <= PacketBytes
        BY DEF front
      <4> QED
        BY <1>2, <3>2, <4>1
    <3>5. k = (front.id - 1) * PacketBytes + (front.sent + i - 1) + 1
      BY <1>1, <1>2, <3>2
    <3>6. Byte(k) = <<(front.id - 1) + 1, (front.sent + i - 1) + 1>>
      BY <3>4, <3>5, BytePlace
    <3> QED
      BY <1>2, <3>3, <3>6
  <2> QED
    BY <2>1, <2>2
<1> QED
  BY <1>7, <1>10, <1>11, <1>12 DEF front


(* A step that touches one session's queue and stream keeps the invariant  *)
(* if it does for that session.                                            *)
LEMMA OneSession ==
  ASSUME Sent, NEW s \in Sockets,
         \A t \in Sockets \ {s} : /\ m_write_queue'[t] = m_write_queue[t]
                                  /\ wire'[t] = wire[t] /\ queued'[t] = queued[t],
         \A t \in Sockets : Broken(t) => Broken(t)',
         Len(wire'[s]) <= queued'[s] * PacketBytes,
         Len(m_write_queue'[s]) <= queued'[s],
         \A k \in 1 .. Len(wire'[s]) : wire'[s][k] = Byte(k),
         \A i \in DOMAIN m_write_queue'[s] : i > 1 => m_write_queue'[s][i].sent = 0,
         ~ Broken(s)' =>
           /\ Len(wire'[s]) =
                (queued'[s] - Len(m_write_queue'[s])) * PacketBytes
                  + (IF m_write_queue'[s] = <<>> THEN 0 ELSE Head(m_write_queue'[s]).sent)
           /\ \A i \in DOMAIN m_write_queue'[s] :
                m_write_queue'[s][i].id = queued'[s] - Len(m_write_queue'[s]) + i
  PROVE  Sent'
<1>1. Stream'
  BY DEF Sent, Stream, Byte
<1>2. NoReplyDropped'
  BY DEF Sent, NoReplyDropped
<1> QED
  BY <1>1, <1>2 DEF Sent

(* A step that touches none.                                               *)
LEMMA NoSession ==
  ASSUME Sent, UNCHANGED <<m_write_queue, wire, queued>>,
         \A t \in Sockets : Broken(t) => Broken(t)'
  PROVE  Sent'
<1>1. Stream'
  BY DEF Sent, Stream, Byte
<1>2. NoReplyDropped'
  BY DEF Sent, NoReplyDropped
<1> QED
  BY <1>1, <1>2 DEF Sent

LEMMA DropSent ==
  ASSUME DataTypes, Sent, NEW s \in Sockets, WriteFails(s), UNCHANGED <<peer, m_closed, queued>>
  PROVE  Sent' /\ m_write_queue' \in [Sockets -> Seq(Packets)] /\ wire' \in [Sockets -> Seq(Places)]
<1> DEFINE q == m_write_queue[s]
<1>1. /\ q # <<>> /\ q \in Seq(Packets) /\ Broken(s) /\ wire' = wire
      /\ m_write_queue' = [m_write_queue EXCEPT ![s] = Tail(q)]
      /\ queued[s] \in Nat
  BY BoundAssumption DEF WriteFails, pop, DataTypes
<1> HIDE DEF q
<1>2. /\ Tail(q) \in Seq(Packets) /\ Len(Tail(q)) = Len(q) - 1 /\ Len(q) \in Nat \ {0}
      /\ \A i \in 1 .. (Len(q) - 1) : Tail(q)[i] = q[i + 1]
      /\ DOMAIN q = 1 .. Len(q) /\ DOMAIN Tail(q) = 1 .. (Len(q) - 1)
  BY <1>1
<1>3. /\ m_write_queue'[s] = Tail(q)
      /\ \A t \in Sockets \ {s} : m_write_queue'[t] = m_write_queue[t]
      /\ m_write_queue' \in [Sockets -> Seq(Packets)]
  BY <1>1, <1>2 DEF DataTypes
<1>4. /\ Len(q) <= queued[s] /\ Len(wire[s]) <= queued[s] * PacketBytes
      /\ \A k \in 1 .. Len(wire[s]) : wire[s][k] = Byte(k)
      /\ \A i \in DOMAIN q : i > 1 => q[i].sent = 0
  BY DEF Sent, Stream, q
<1>5. \A t \in Sockets : Broken(t) <=> Broken(t)'
  BY DEF Broken
<1>6. Len(Tail(q)) <= queued[s]
  BY <1>1, <1>2, <1>4
<1>7. \A i \in DOMAIN Tail(q) : i > 1 => Tail(q)[i].sent = 0
  BY <1>2, <1>4
<1>8. Sent'
  BY <1>1, <1>3, <1>4, <1>5, <1>6, <1>7, OneSession
<1> QED
  BY <1>1, <1>3, <1>8 DEF DataTypes

LEMMA WholeSent ==
  ASSUME DataTypes, Sent, NEW s \in Sockets, WholeWrite(s), UNCHANGED <<peer, m_closed, queued>>
  PROVE  Sent' /\ m_write_queue' \in [Sockets -> Seq(Packets)] /\ wire' \in [Sockets -> Seq(Places)]
<1> DEFINE q == m_write_queue[s]
           front == Head(q)
           rest == Tail(q)
<1>1. /\ q # <<>> /\ q \in Seq(Packets) /\ ~ Broken(s)
      /\ put(s, PacketBytes - front.sent)
      /\ m_write_queue' = [m_write_queue EXCEPT ![s] = rest]
      /\ queued[s] \in Nat /\ PacketBytes \in Nat \ {0}
  BY BoundAssumption, PacketAssumption DEF WholeWrite, pop, DataTypes
<1>2. /\ front.sent \in 0 .. (PacketBytes - 1) /\ front.id \in 1 .. MaxPackets
      /\ front.id = queued[s] - Len(q) + 1
  BY <1>1, FrontPlace
<1>3. /\ PacketBytes - front.sent \in Nat /\ PacketBytes - front.sent >= 1
      /\ front.sent + (PacketBytes - front.sent) <= PacketBytes
      /\ front.id \in Nat /\ front.sent \in Nat
  BY <1>1, <1>2, BoundAssumption
<1>4. /\ wire' \in [Sockets -> Seq(Places)]
      /\ \A t \in Sockets \ {s} : wire'[t] = wire[t]
      /\ Len(wire'[s]) = (front.id - 1) * PacketBytes + front.sent + (PacketBytes - front.sent)
      /\ Len(wire'[s]) <= queued[s] * PacketBytes
      /\ \A k \in 1 .. Len(wire'[s]) : wire'[s][k] = Byte(k)
  BY <1>1, <1>3, PutStream
<1> HIDE DEF q, front
<1>5. /\ rest \in Seq(Packets) /\ Len(rest) = Len(q) - 1 /\ Len(q) \in Nat \ {0}
      /\ \A i \in 1 .. (Len(q) - 1) : rest[i] = q[i + 1]
      /\ DOMAIN q = 1 .. Len(q) /\ DOMAIN rest = 1 .. (Len(q) - 1)
      /\ rest # <<>> => Len(q) > 1 /\ Head(rest) = q[2]
  BY <1>1
<1> HIDE DEF rest
<1>6. /\ m_write_queue'[s] = rest
      /\ \A t \in Sockets \ {s} : m_write_queue'[t] = m_write_queue[t]
      /\ m_write_queue' \in [Sockets -> Seq(Packets)]
  BY <1>1, <1>5 DEF DataTypes
<1>7. /\ Len(q) <= queued[s]
      /\ \A i \in DOMAIN q : i > 1 => q[i].sent = 0
      /\ \A i \in DOMAIN q : q[i].id = queued[s] - Len(q) + i
  BY <1>1 DEF Sent, Stream, NoReplyDropped, q
<1>8. \A t \in Sockets : Broken(t) <=> Broken(t)'
  BY DEF Broken
<1>9. Len(rest) <= queued[s]
  BY <1>1, <1>5, <1>7
<1>10. \A i \in DOMAIN rest : i > 1 => rest[i].sent = 0
  BY <1>5, <1>7
<1>11. \A i \in DOMAIN rest : rest[i].id = queued[s] - Len(rest) + i
  <2> SUFFICES ASSUME NEW i \in DOMAIN rest
               PROVE  rest[i].id = queued[s] - Len(rest) + i
    OBVIOUS
  <2>1. i \in Nat /\ i + 1 \in DOMAIN q /\ rest[i] = q[i + 1]
    BY <1>5
  <2>2. q[i + 1].id = queued[s] - Len(q) + (i + 1)
    BY <1>7, <2>1
  <2>3. Len(q) \in Nat /\ Len(rest) = Len(q) - 1
    BY <1>5
  <2>4. queued[s] - Len(q) + (i + 1) = queued[s] - (Len(q) - 1) + i
    BY <1>1, <2>1, <2>3
  <2> QED
    BY <2>1, <2>2, <2>3, <2>4
<1>12. Len(wire'[s]) = (queued[s] - Len(rest)) * PacketBytes
  <2>1. queued[s] - Len(rest) = front.id
    BY <1>1, <1>2, <1>3, <1>5
  <2>2. (front.id - 1) * PacketBytes + front.sent + (PacketBytes - front.sent)
          = front.id * PacketBytes
    BY <1>1, <1>3
  <2> QED
    BY <1>4, <2>1, <2>2
<1>13. (IF rest = <<>> THEN 0 ELSE Head(rest).sent) = 0
  BY <1>5, <1>7
<1>14. Len(wire'[s]) = (queued[s] - Len(rest)) * PacketBytes
                         + (IF rest = <<>> THEN 0 ELSE Head(rest).sent)
  <2>1. (queued[s] - Len(rest)) * PacketBytes \in Int
    BY <1>1, <1>5
  <2> QED
    BY <1>12, <1>13, <2>1
<1>15. Sent'
  BY <1>4, <1>6, <1>8, <1>9, <1>10, <1>11, <1>14, OneSession
<1> QED
  BY <1>4, <1>6, <1>15

LEMMA PartialSent ==
  ASSUME DataTypes, Sent, NEW s \in Sockets, PartialWrite(s),
         UNCHANGED <<peer, m_closed, queued>>
  PROVE  Sent' /\ m_write_queue' \in [Sockets -> Seq(Packets)] /\ wire' \in [Sockets -> Seq(Places)]
<1> DEFINE q == m_write_queue[s]
           front == Head(q)
<1>1. /\ q # <<>> /\ q \in Seq(Packets) /\ ~ Broken(s)
      /\ queued[s] \in Nat /\ PacketBytes \in Nat \ {0}
  BY BoundAssumption, PacketAssumption DEF PartialWrite, DataTypes
<1>2. PICK n \in 1 .. (PacketBytes - 1) :
        /\ front.sent + n < PacketBytes
        /\ put(s, n)
        /\ m_write_queue' = [m_write_queue EXCEPT ![s][1].sent = @ + n]
  BY DEF PartialWrite, read_completed
<1>3. /\ front = q[1] /\ Len(q) \in Nat \ {0} /\ front \in Packets
      /\ front.sent \in 0 .. (PacketBytes - 1) /\ front.id \in 1 .. MaxPackets
      /\ front.id = queued[s] - Len(q) + 1
  BY <1>1, FrontPlace
<1>4. n \in Nat /\ n >= 1 /\ front.sent + n <= PacketBytes /\ front.sent + n \in 0 .. (PacketBytes - 1)
      /\ front.id \in Nat /\ front.sent \in Nat
  <2>1. n \in 1 .. (PacketBytes - 1) /\ front.sent + n < PacketBytes
    BY <1>2
  <2> HIDE DEF front
  <2> QED
    BY <1>1, <1>3, <2>1, BoundAssumption
<1>5. /\ wire' \in [Sockets -> Seq(Places)]
      /\ \A t \in Sockets \ {s} : wire'[t] = wire[t]
      /\ Len(wire'[s]) = (front.id - 1) * PacketBytes + front.sent + n
      /\ Len(wire'[s]) <= queued[s] * PacketBytes
      /\ \A k \in 1 .. Len(wire'[s]) : wire'[s][k] = Byte(k)
  BY <1>1, <1>2, <1>4, PutStream
<1> DEFINE cut == [q EXCEPT ![1] = [q[1] EXCEPT !.sent = q[1].sent + n]]
<1>6. m_write_queue' = [m_write_queue EXCEPT ![s] = cut]
  BY <1>2
<1>7. [q[1] EXCEPT !.sent = q[1].sent + n] \in Packets
  BY <1>3, <1>4 DEF Packets
<1>8. /\ [q[1] EXCEPT !.sent = q[1].sent + n].sent = front.sent + n
      /\ [q[1] EXCEPT !.sent = q[1].sent + n].id = front.id
  BY <1>3 DEF Packets
<1> HIDE DEF front
<1>9. /\ cut \in Seq(Packets) /\ Len(cut) = Len(q) /\ DOMAIN cut = DOMAIN q /\ cut # <<>>
      /\ DOMAIN q = 1 .. Len(q) /\ Head(cut) = cut[1]
      /\ cut[1].sent = front.sent + n /\ cut[1].id = front.id
      /\ \A i \in DOMAIN q : i > 1 => cut[i] = q[i]
  BY <1>1, <1>3, <1>7, <1>8
<1>10. /\ m_write_queue'[s] = cut
       /\ \A t \in Sockets \ {s} : m_write_queue'[t] = m_write_queue[t]
       /\ m_write_queue' \in [Sockets -> Seq(Packets)]
  BY <1>6, <1>9 DEF DataTypes
<1>11. /\ Len(q) <= queued[s]
       /\ \A i \in DOMAIN q : i > 1 => q[i].sent = 0
       /\ \A i \in DOMAIN q : q[i].id = queued[s] - Len(q) + i
  BY <1>1 DEF Sent, Stream, NoReplyDropped
<1> HIDE DEF q, cut
<1>12. \A t \in Sockets : Broken(t) <=> Broken(t)'
  BY DEF Broken
<1>13. \A i \in DOMAIN cut : i > 1 => cut[i].sent = 0
  BY <1>9, <1>11
<1>14. \A i \in DOMAIN cut : cut[i].id = queued[s] - Len(cut) + i
  <2> SUFFICES ASSUME NEW i \in DOMAIN cut PROVE cut[i].id = queued[s] - Len(cut) + i
    OBVIOUS
  <2>1. CASE i = 1
    BY <1>3, <1>9, <2>1
  <2>2. CASE i > 1
    BY <1>9, <1>11, <2>2
  <2> QED
    BY <1>3, <1>9, <2>1, <2>2
<1>15. Len(wire'[s]) = (queued[s] - Len(cut)) * PacketBytes
                         + (IF cut = <<>> THEN 0 ELSE Head(cut).sent)
  <2>1. queued[s] - Len(cut) = front.id - 1
    BY <1>1, <1>3, <1>4, <1>9
  <2>2. (IF cut = <<>> THEN 0 ELSE Head(cut).sent) = front.sent + n
    BY <1>9
  <2>3. Len(wire'[s]) = (front.id - 1) * PacketBytes + (front.sent + n)
    <3>1. (front.id - 1) * PacketBytes \in Int
      BY <1>1, <1>4
    <3> QED
      BY <1>4, <1>5, <3>1
  <2> QED
    BY <2>1, <2>2, <2>3
<1>16. Sent'
  BY <1>5, <1>9, <1>10, <1>11, <1>12, <1>13, <1>14, <1>15, OneSession
<1> QED
  BY <1>5, <1>10, <1>16


LEMMA ReadSent ==
  ASSUME DataTypes, Sent, NEW s \in Sockets, ReadDone(s),
         \A t \in Sockets : Broken(t) => Broken(t)'
  PROVE  Sent' /\ m_write_queue' \in [Sockets -> Seq(Packets)]
           /\ queued' \in [Sockets -> 0 .. MaxPackets] /\ wire' = wire
<1> DEFINE q == m_write_queue[s]
<1>1. PICK n \in 0 .. (MaxPackets - queued[s]) :
        /\ queued' = [queued EXCEPT ![s] = @ + n]
        /\ m_write_queue' =
             [m_write_queue EXCEPT
                ![s] = @ \o [i \in 1..n |-> [id |-> queued[s] + i, sent |-> 0]]]
  BY DEF ReadDone
<1> DEFINE more == [i \in 1..n |-> [id |-> queued[s] + i, sent |-> 0]]
           all == q \o more
<1>2. /\ q \in Seq(Packets) /\ queued[s] \in 0 .. MaxPackets /\ queued[s] \in Nat
      /\ wire' = wire /\ PacketBytes \in Nat \ {0} /\ n \in Nat
      /\ Len(q) \in Nat
  BY <1>1, BoundAssumption, PacketAssumption DEF DataTypes, ReadDone
<1>3. queued' = [queued EXCEPT ![s] = queued[s] + n]
        /\ m_write_queue' = [m_write_queue EXCEPT ![s] = all]
  BY <1>1
<1>4. queued[s] + n \in 0 .. MaxPackets /\ queued[s] + n \in Nat
  BY <1>1, <1>2, BoundAssumption
<1>5. more \in Seq(Packets) /\ Len(more) = n
  <2>1. ASSUME NEW i \in 1 .. n PROVE [id |-> queued[s] + i, sent |-> 0] \in Packets
    <3>1. queued[s] + i \in 1 .. MaxPackets /\ 0 \in 0 .. (PacketBytes - 1)
      BY <1>1, <1>2, BoundAssumption
    <3> QED
      BY <3>1 DEF Packets
  <2> QED
    BY <1>2, <2>1
<1>6. \A i \in 1 .. n : more[i].id = queued[s] + i /\ more[i].sent = 0
  OBVIOUS
<1> HIDE DEF q, more, all
<1>7. /\ all \in Seq(Packets) /\ Len(all) = Len(q) + n /\ DOMAIN all = 1 .. (Len(q) + n)
      /\ \A j \in 1 .. (Len(q) + n) : all[j] = IF j <= Len(q) THEN q[j] ELSE more[j - Len(q)]
  <2>1. /\ all \in Seq(Packets) /\ Len(all) = Len(q) + Len(more)
        /\ \A j \in 1 .. (Len(q) + Len(more)) :
             all[j] = IF j <= Len(q) THEN q[j] ELSE more[j - Len(q)]
    BY <1>2, <1>5, ConcatProperties DEF all
  <2> QED
    BY <1>5, <2>1
<1>8. /\ queued'[s] = queued[s] + n /\ m_write_queue'[s] = all
      /\ \A t \in Sockets \ {s} : m_write_queue'[t] = m_write_queue[t] /\ queued'[t] = queued[t]
      /\ m_write_queue' \in [Sockets -> Seq(Packets)]
      /\ queued' \in [Sockets -> 0 .. MaxPackets]
  BY <1>3, <1>4, <1>7 DEF DataTypes
<1>9. /\ Len(q) <= queued[s] /\ Len(wire[s]) <= queued[s] * PacketBytes
      /\ \A k \in 1 .. Len(wire[s]) : wire[s][k] = Byte(k)
      /\ \A i \in DOMAIN q : i > 1 => q[i].sent = 0
      /\ DOMAIN q = 1 .. Len(q)
  BY <1>2 DEF Sent, Stream, q
<1>10. Len(wire[s]) <= (queued[s] + n) * PacketBytes
  <2>1. /\ queued[s] * PacketBytes <= (queued[s] + n) * PacketBytes
        /\ queued[s] * PacketBytes \in Int /\ (queued[s] + n) * PacketBytes \in Int
    BY <1>2
  <2>2. Len(wire[s]) \in Int
    BY DEF DataTypes
  <2> HIDE DEF q
  <2> QED
    BY <1>9, <2>1, <2>2
<1>11. Len(all) <= queued[s] + n
  BY <1>2, <1>7, <1>9
<1>12. \A i \in DOMAIN all : i > 1 => all[i].sent = 0
  <2> SUFFICES ASSUME NEW i \in DOMAIN all, i > 1 PROVE all[i].sent = 0
    OBVIOUS
  <2>1. CASE i <= Len(q)
    BY <1>2, <1>7, <1>9, <2>1
  <2>2. CASE ~ (i <= Len(q))
    <3>1. i - Len(q) \in 1 .. n /\ all[i] = more[i - Len(q)]
      BY <1>2, <1>7, <2>2
    <3> QED
      BY <1>6, <3>1
  <2> QED
    BY <2>1, <2>2
<1>13. ASSUME ~ Broken(s)'
       PROVE  /\ Len(wire[s]) = (queued[s] + n - Len(all)) * PacketBytes
                                  + (IF all = <<>> THEN 0 ELSE Head(all).sent)
              /\ \A i \in DOMAIN all : all[i].id = queued[s] + n - Len(all) + i
  <2>1. ~ Broken(s)
    BY <1>13
  <2>2. /\ Len(wire[s]) = (queued[s] - Len(q)) * PacketBytes
                            + (IF q = <<>> THEN 0 ELSE Head(q).sent)
        /\ \A i \in DOMAIN q : q[i].id = queued[s] - Len(q) + i
    BY <2>1 DEF Sent, NoReplyDropped, q
  <2>3. queued[s] + n - Len(all) = queued[s] - Len(q)
    BY <1>2, <1>7
  <2>4. (IF all = <<>> THEN 0 ELSE Head(all).sent) = (IF q = <<>> THEN 0 ELSE Head(q).sent)
    <3>1. CASE q = <<>>
      <4>1. Len(q) = 0
        BY <3>1
      <4>2. CASE n = 0
        BY <1>7, <3>1, <4>1, <4>2
      <4>3. CASE n # 0
        <5>1. all # <<>> /\ Head(all) = all[1] /\ 1 \in 1 .. n /\ 1 - Len(q) = 1
          BY <1>2, <1>7, <4>1, <4>3
        <5>2. all[1] = more[1]
          BY <1>2, <1>7, <4>1, <5>1
        <5> QED
          BY <1>6, <3>1, <5>1, <5>2
      <4> QED
        BY <4>2, <4>3
    <3>2. CASE q # <<>>
      <4>1. Len(q) >= 1 /\ Head(q) = q[1]
        BY <1>2, <3>2
      <4>2. all # <<>> /\ Head(all) = all[1] /\ all[1] = q[1]
        BY <1>2, <1>7, <4>1
      <4> QED
        BY <3>2, <4>1, <4>2
    <3> QED
      BY <3>1, <3>2
  <2>5. ASSUME NEW i \in DOMAIN all PROVE all[i].id = queued[s] + n - Len(all) + i
    <3>1. CASE i <= Len(q)
      BY <1>2, <1>7, <1>9, <2>2, <2>3, <3>1
    <3>2. CASE ~ (i <= Len(q))
      <4>1. i - Len(q) \in 1 .. n /\ all[i] = more[i - Len(q)] /\ i \in Nat
        BY <1>2, <1>7, <3>2
      <4>2. all[i].id = queued[s] + (i - Len(q))
        BY <1>6, <4>1
      <4> QED
        BY <1>2, <2>3, <4>1, <4>2
    <3> QED
      BY <3>1, <3>2
  <2> QED
    BY <2>2, <2>3, <2>4, <2>5
<1>14. Sent'
  <2>1. /\ Len(wire'[s]) <= queued'[s] * PacketBytes
        /\ Len(m_write_queue'[s]) <= queued'[s]
        /\ \A k \in 1 .. Len(wire'[s]) : wire'[s][k] = Byte(k)
        /\ \A i \in DOMAIN m_write_queue'[s] : i > 1 => m_write_queue'[s][i].sent = 0
    BY <1>2, <1>8, <1>9, <1>10, <1>11, <1>12
  <2>2. ~ Broken(s)' =>
          /\ Len(wire'[s]) =
               (queued'[s] - Len(m_write_queue'[s])) * PacketBytes
                 + (IF m_write_queue'[s] = <<>> THEN 0 ELSE Head(m_write_queue'[s]).sent)
          /\ \A i \in DOMAIN m_write_queue'[s] :
               m_write_queue'[s][i].id = queued'[s] - Len(m_write_queue'[s]) + i
    BY <1>2, <1>8, <1>13
  <2>3. \A t \in Sockets \ {s} : /\ m_write_queue'[t] = m_write_queue[t]
                                  /\ wire'[t] = wire[t] /\ queued'[t] = queued[t]
    BY <1>2, <1>8
  <2> QED
    BY <2>1, <2>2, <2>3, OneSession
<1> QED
  BY <1>2, <1>8, <1>14


(* A connection that is gone stays so.                                     *)
LEMMA StaysBroken ==
  ASSUME TypeOK, [Next]_vars
  PROVE  \A t \in Sockets : Broken(t) => Broken(t)'
<1>1. ASSUME NEW s \in Sockets, Accept(s) \/ MainThread(s)
      PROVE  \A t \in Sockets : Broken(t) => Broken(t)'
  BY <1>1 DEF MainThread, Accept, StartThrows, Start, append, Return, socket_vars, TypeOK, Broken
<1>2. ASSUME NEW s \in Sockets, Handlers(s)
      PROVE  \A t \in Sockets : Broken(t) => Broken(t)'
  <2>1. peer' = peer
    BY <1>2 DEF Handlers, ReadError, ReadDone, Writable, HandlerOfDestroyed
  <2>2. m_closed' = m_closed \/ m_closed' = [m_closed EXCEPT ![s] = TRUE]
    BY <1>2 DEF Handlers, ReadError, ReadDone, Writable, HandlerOfDestroyed, close_socket,
                socket_vars
  <2> QED
    BY <2>1, <2>2 DEF TypeOK, Broken
<1>3. ASSUME NEW s \in Sockets, Update(s)
      PROVE  \A t \in Sockets : Broken(t) => Broken(t)'
  BY <1>3 DEF Update, AddNew, Reap, NothingToWrite, StartFlush, Flush, socket_vars, Broken
<1>4. ASSUME NEW s \in Sockets, PeerResets(s)
      PROVE  \A t \in Sockets : Broken(t) => Broken(t)'
  BY <1>4 DEF PeerResets, socket_vars, TypeOK, Broken
<1>5. CASE Tick \/ AddingDone \/ TickDone \/ UNCHANGED vars
  BY <1>5 DEF Tick, AddingDone, TickDone, vars, socket_vars, Broken
<1> QED
  BY <1>1, <1>2, <1>3, <1>4, <1>5 DEF Next

LEMMA SentInit == Init => Sent /\ DataTypes
<1> SUFFICES ASSUME Init PROVE Sent /\ DataTypes
  OBVIOUS
<1>1. \A s \in Sockets : wire[s] = <<>> /\ m_write_queue[s] = <<>> /\ queued[s] = 0
  BY DEF Init
<1>2. Stream
  BY <1>1, PacketAssumption DEF Stream
<1>3. NoReplyDropped
  BY <1>1, PacketAssumption DEF NoReplyDropped
<1>4. DataTypes
  BY BoundAssumption DEF Init, DataTypes
<1> QED
  BY <1>2, <1>3, <1>4 DEF Sent

LEMMA SentStep == TypeOK /\ Sent /\ [Next]_vars => Sent' /\ DataTypes'
<1> SUFFICES ASSUME TypeOK, Sent, [Next]_vars PROVE Sent' /\ DataTypes'
  OBVIOUS
<1>1. DataTypes
  BY DEF TypeOK, DataTypes
<1>2. \A t \in Sockets : Broken(t) => Broken(t)'
  BY StaysBroken
<1>3. CASE UNCHANGED <<m_write_queue, wire, queued>>
  BY <1>1, <1>2, <1>3, NoSession DEF DataTypes
<1>4. ASSUME NEW s \in Sockets,
             WouldBlock(s) \/ WriteFails(s) \/ PartialWrite(s) \/ WholeWrite(s),
             UNCHANGED <<peer, m_closed, queued>>
      PROVE  Sent' /\ DataTypes'
  <2>1. CASE WouldBlock(s)
    BY <1>3, <1>4, <2>1 DEF WouldBlock
  <2>2. CASE WriteFails(s) \/ PartialWrite(s) \/ WholeWrite(s)
    BY <1>1, <1>4, <2>2, DropSent, PartialSent, WholeSent DEF DataTypes
  <2> QED
    BY <1>4, <2>1, <2>2
<1>5. ASSUME NEW s \in Sockets, Accept(s) \/ MainThread(s) PROVE Sent' /\ DataTypes'
  BY <1>3, <1>5 DEF MainThread, Accept, StartThrows, Start, append, Return, socket_vars, history
<1>6. ASSUME NEW s \in Sockets, Handlers(s) PROVE Sent' /\ DataTypes'
  <2>1. CASE ReadError(s) \/ HandlerOfDestroyed(s)
    BY <1>3, <2>1 DEF ReadError, HandlerOfDestroyed, socket_vars, history
  <2>2. CASE ReadDone(s)
    BY <1>1, <1>2, <2>2, ReadSent DEF DataTypes
  <2>3. CASE Writable(s)
    BY <1>4, <2>3 DEF Writable
  <2> QED
    BY <1>6, <2>1, <2>2, <2>3 DEF Handlers
<1>7. ASSUME NEW s \in Sockets, Update(s) PROVE Sent' /\ DataTypes'
  <2>1. CASE Flush(s)
    BY <1>4, <2>1 DEF Flush
  <2>2. CASE AddNew(s) \/ Reap(s) \/ NothingToWrite(s) \/ StartFlush(s)
    BY <1>3, <2>2 DEF AddNew, Reap, NothingToWrite, StartFlush, socket_vars, history
  <2> QED
    BY <1>7, <2>1, <2>2 DEF Update
<1>8. ASSUME NEW s \in Sockets, PeerResets(s) PROVE Sent' /\ DataTypes'
  BY <1>3, <1>8 DEF PeerResets, socket_vars, history
<1>9. CASE Tick \/ AddingDone \/ TickDone \/ UNCHANGED vars
  BY <1>3, <1>9 DEF Tick, AddingDone, TickDone, vars, socket_vars, history
<1> QED
  BY <1>5, <1>6, <1>7, <1>8, <1>9 DEF Next

(* The flags and the process.                                              *)
FlagTypes ==
  /\ m_closed \in [Sockets -> BOOLEAN] /\ m_writing_async \in [Sockets -> BOOLEAN]
  /\ reading \in [Sockets -> BOOLEAN] /\ waiting \in [Sockets -> BOOLEAN]
  /\ process \in {"running", "terminated", "undefined"}

LEMMA FlagStep == FlagTypes /\ [Next]_vars => FlagTypes'
<1> SUFFICES ASSUME FlagTypes, [Next]_vars PROVE FlagTypes'
  OBVIOUS
<1>1. ASSUME NEW s \in Sockets,
             \/ WouldBlock(s) \/ PartialWrite(s) \/ end_wait(s)
             \/ UNCHANGED <<m_writing_async, waiting>>
      PROVE  m_writing_async' \in [Sockets -> BOOLEAN] /\ waiting' \in [Sockets -> BOOLEAN]
  BY <1>1 DEF WouldBlock, PartialWrite, await_writable, end_wait, FlagTypes
<1>2. ASSUME NEW s \in Sockets, Accept(s) \/ MainThread(s) PROVE FlagTypes'
  BY <1>2 DEF MainThread, Accept, StartThrows, Start, append, Return, socket_vars, FlagTypes
<1>3. ASSUME NEW s \in Sockets, Handlers(s) PROVE FlagTypes'
  <2>1. CASE ReadError(s) \/ ReadDone(s)
    BY <2>1 DEF ReadError, ReadDone, end_read, close_socket, FlagTypes
  <2>2. CASE Writable(s)
    <3>1. end_wait(s) \/ PartialWrite(s)
      BY <2>2 DEF Writable
    <3>2. m_writing_async' \in [Sockets -> BOOLEAN] /\ waiting' \in [Sockets -> BOOLEAN]
      BY <1>1, <3>1
    <3> QED
      BY <2>2, <3>2 DEF Writable, FlagTypes
  <2>3. CASE HandlerOfDestroyed(s)
    BY <2>3 DEF HandlerOfDestroyed, socket_vars, FlagTypes
  <2> QED
    BY <1>3, <2>1, <2>2, <2>3 DEF Handlers
<1>4. ASSUME NEW s \in Sockets, Update(s) PROVE FlagTypes'
  <2>1. CASE Flush(s)
    <3>1. \/ WouldBlock(s) \/ PartialWrite(s)
          \/ UNCHANGED <<m_writing_async, waiting>>
      BY <2>1 DEF Flush
    <3>2. m_writing_async' \in [Sockets -> BOOLEAN] /\ waiting' \in [Sockets -> BOOLEAN]
      BY <1>1, <3>1
    <3> QED
      BY <2>1, <3>2 DEF Flush, FlagTypes
  <2>2. CASE AddNew(s) \/ Reap(s) \/ NothingToWrite(s) \/ StartFlush(s)
    BY <2>2 DEF AddNew, Reap, NothingToWrite, StartFlush, socket_vars, FlagTypes
  <2> QED
    BY <1>4, <2>1, <2>2 DEF Update
<1>5. ASSUME NEW s \in Sockets, PeerResets(s) PROVE FlagTypes'
  BY <1>5 DEF PeerResets, socket_vars, FlagTypes
<1>6. CASE Tick \/ AddingDone \/ TickDone \/ UNCHANGED vars
  BY <1>6 DEF Tick, AddingDone, TickDone, vars, socket_vars, FlagTypes
<1> QED
  BY <1>2, <1>3, <1>4, <1>5, <1>6 DEF Next

-------------------------------------------------------------------------------
(* The theorems.                                                           *)

LEMMA InvParts ==
  Inv <=> /\ OwnerTypes /\ FlagTypes /\ DataTypes /\ m_connections \in Nat
          /\ Owned /\ Conduct /\ Sent
BY DEF Inv, TypeOK, OwnerTypes, FlagTypes, DataTypes, Conduct

(* The count is that of the lists, and so a number.                        *)
LEMMA CountIsNatural == OwnerTypes /\ Owned => m_connections \in Nat
<1> SUFFICES ASSUME OwnerTypes, Owned PROVE m_connections \in Nat
  OBVIOUS
<1>1. Len(m_new_sockets) \in Nat /\ Len(m_sockets) \in Nat
  BY DEF OwnerTypes
<1> QED
  BY <1>1 DEF Owned, Owners

LEMMA InvInit == Init => Inv
<1> SUFFICES ASSUME Init PROVE Inv
  OBVIOUS
<1>1. FlagTypes
  BY DEF Init, FlagTypes
<1> QED
  BY <1>1, OwnershipInit, ConductInit, SentInit, CountIsNatural, InvParts DEF Ownership

LEMMA InvStep == Inv /\ [Next]_vars => Inv'
<1> SUFFICES ASSUME Inv, [Next]_vars PROVE Inv'
  OBVIOUS
<1>1. OwnerTypes /\ FlagTypes /\ DataTypes /\ Owned /\ Conduct /\ Sent /\ TypeOK
  BY InvParts DEF Inv
<1>2. Ownership'
  BY <1>1, OwnershipStep DEF Ownership
<1>3. Conducted
  BY <1>1 DEF Conducted, SocketTypes, Ownership, FlagTypes, DataTypes
<1>4. Conduct'
  BY <1>3, ConductStep
<1>5. Sent' /\ DataTypes'
  BY <1>1, SentStep
<1>6. FlagTypes'
  BY <1>1, FlagStep
<1>7. m_connections' \in Nat
  <2>1. OwnerTypes' /\ Owned'
    BY <1>2 DEF Ownership
  <2>2. Len(m_new_sockets') \in Nat /\ Len(m_sockets') \in Nat
    BY <2>1 DEF OwnerTypes
  <2> QED
    BY <2>1, <2>2 DEF Owned, Owners
<1> QED
  BY <1>2, <1>4, <1>5, <1>6, <1>7
  DEF Inv, TypeOK, Ownership, OwnerTypes, FlagTypes, DataTypes, Conduct

(* What the two threads may do to a session and its queue never leaves the *)
(* invariant (Thread::append, Thread::update, Socket::handle_queue and the *)
(* completion handlers).                                                   *)
THEOREM Invariance == Spec => []Inv
BY InvInit, InvStep, PTL DEF Spec

(* Lists, flags, queues and streams keep their types; the count of         *)
(* connections is never negative (Thread::update).                         *)
THEOREM TypeCorrect == Spec => []TypeOK
<1>1. Inv => TypeOK
  BY DEF Inv
<1> QED
  BY <1>1, Invariance, PTL

LEMMA StreamIsPrefix ==
  ASSUME DataTypes, Stream, NEW s \in Sockets
  PROVE  IsPrefix(wire[s], Bytes(queued[s]))
<1> DEFINE w == wire[s]
           total == queued[s] * PacketBytes
           b == Bytes(queued[s])
<1>1. /\ w \in Seq(Places) /\ Len(w) \in Nat /\ total \in Nat
      /\ Len(w) <= total
      /\ \A k \in 1 .. Len(w) : w[k] = Byte(k)
  BY PacketAssumption, BoundAssumption DEF DataTypes, Stream
<1> HIDE DEF total, w
<1>2. b = [i \in 1 .. total |-> Byte(i)]
  BY DEF Bytes, Byte, total
<1>3. b \in Seq({Byte(i) : i \in 1 .. total}) /\ Len(b) = total
        /\ \A i \in 1 .. total : b[i] = Byte(i)
  BY <1>1, <1>2
<1> HIDE DEF b
<1>4. /\ SubSeq(w, 1, Len(w)) \in Seq(Places) /\ Len(SubSeq(w, 1, Len(w))) = Len(w)
      /\ \A i \in 1 .. Len(w) : SubSeq(w, 1, Len(w))[i] = w[i]
  BY <1>1
<1>5. /\ SubSeq(b, 1, Len(w)) \in Seq({Byte(i) : i \in 1 .. total})
      /\ Len(SubSeq(b, 1, Len(w))) = Len(w)
      /\ \A i \in 1 .. Len(w) : SubSeq(b, 1, Len(w))[i] = b[i]
  BY <1>1, <1>3
<1>6. \A i \in 1 .. Len(w) : SubSeq(w, 1, Len(w))[i] = SubSeq(b, 1, Len(w))[i]
  BY <1>1, <1>3, <1>4, <1>5
<1>7. SubSeq(w, 1, Len(w)) = SubSeq(b, 1, Len(w))
  BY <1>4, <1>5, <1>6, SeqEqual
<1> QED
  BY <1>1, <1>3, <1>7 DEF IsPrefix, w, b

(* A client receives its replies in the order they were queued, each whole *)
(* before the next (Socket::handle_queue and its write handler).           *)
THEOREM InOrder == Spec => []RepliesInOrder
<1>1. Inv => RepliesInOrder
  BY StreamIsPrefix, InvParts DEF RepliesInOrder, Sent
<1> QED
  BY <1>1, Invariance, PTL

(* While the connection stands no reply leaves the queue but by being      *)
(* written whole (Socket::handle_queue).                                   *)
THEOREM NothingDropped == Spec => []NoReplyDropped
<1>1. Inv => NoReplyDropped
  BY DEF Inv, Sent
<1> QED
  BY <1>1, Invariance, PTL

(* A session is destroyed only when it is closed or its peer gone, and     *)
(* never under a read's handler, though the main thread may still hold it  *)
(* when its first read fails (SocketManager::on_socket_open,               *)
(* Thread::update).                                                        *)
THEOREM OnlyClosed == Spec => []OnlyClosedDestroyed
<1>1. Inv => OnlyClosedDestroyed
  BY DEF Inv, Destruction, OnlyClosedDestroyed
<1> QED
  BY <1>1, Invariance, PTL

LEMMA ListsTogether ==
  ASSUME NEW S, NEW p \in Seq(S), NEW q \in Seq(S)
  PROVE  /\ ToSet(p \o q) = ToSet(p) \cup ToSet(q)
         /\ IsInjective(p) /\ IsInjective(q) /\ ToSet(p) \cap ToSet(q) = {}
              => IsInjective(p \o q)
<1>1. /\ p \o q \in Seq(S) /\ Len(p \o q) = Len(p) + Len(q)
      /\ \A i \in 1 .. Len(p) + Len(q) : (p \o q)[i] = IF i <= Len(p) THEN p[i] ELSE q[i - Len(p)]
      /\ Len(p) \in Nat /\ Len(q) \in Nat
      /\ DOMAIN p = 1 .. Len(p) /\ DOMAIN q = 1 .. Len(q)
      /\ DOMAIN (p \o q) = 1 .. Len(p) + Len(q)
  BY ConcatProperties
<1> DEFINE both == p \o q
<1> HIDE DEF both
<1>2. \A i \in DOMAIN both : \/ i \in DOMAIN p /\ both[i] = p[i]
                             \/ i - Len(p) \in DOMAIN q /\ both[i] = q[i - Len(p)] /\ i > Len(p)
  BY <1>1 DEF both
<1>3. \A i \in DOMAIN p : i \in DOMAIN both /\ both[i] = p[i]
  BY <1>1 DEF both
<1>4. \A i \in DOMAIN q : i + Len(p) \in DOMAIN both /\ both[i + Len(p)] = q[i]
  <2> SUFFICES ASSUME NEW i \in DOMAIN q
               PROVE  i + Len(p) \in DOMAIN both /\ both[i + Len(p)] = q[i]
    OBVIOUS
  <2>1. /\ i + Len(p) \in 1 .. Len(p) + Len(q) /\ ~ (i + Len(p) <= Len(p))
        /\ i + Len(p) - Len(p) = i
    BY <1>1
  <2> QED
    BY <1>1, <2>1 DEF both
<1>5. ToSet(both) = ToSet(p) \cup ToSet(q)
  BY <1>2, <1>3, <1>4 DEF ToSet
<1>6. ASSUME IsInjective(p), IsInjective(q), ToSet(p) \cap ToSet(q) = {}
      PROVE  IsInjective(both)
  <2> SUFFICES ASSUME NEW i \in DOMAIN both, NEW j \in DOMAIN both, both[i] = both[j]
               PROVE  i = j
    BY DEF IsInjective
  <2>1. i \in Nat /\ j \in Nat
    BY <1>1 DEF both
  <2>2. CASE i \in DOMAIN p /\ both[i] = p[i] /\ j \in DOMAIN p /\ both[j] = p[j]
    BY <1>6, <2>2 DEF IsInjective
  <2>3. CASE /\ i - Len(p) \in DOMAIN q /\ both[i] = q[i - Len(p)]
             /\ j - Len(p) \in DOMAIN q /\ both[j] = q[j - Len(p)]
    <3>1. i - Len(p) = j - Len(p)
      BY <1>6, <2>3 DEF IsInjective
    <3> QED
      BY <1>1, <2>1, <3>1
  <2>4. \/ both[i] \in ToSet(p) /\ i \in DOMAIN p /\ both[i] = p[i]
        \/ both[i] \in ToSet(q) /\ i - Len(p) \in DOMAIN q /\ both[i] = q[i - Len(p)]
    BY <1>2 DEF ToSet
  <2>5. \/ both[j] \in ToSet(p) /\ j \in DOMAIN p /\ both[j] = p[j]
        \/ both[j] \in ToSet(q) /\ j - Len(p) \in DOMAIN q /\ both[j] = q[j - Len(p)]
    BY <1>2 DEF ToSet
  <2> QED
    BY <1>6, <2>2, <2>3, <2>4, <2>5
<1> QED
  BY <1>5, <1>6 DEF both

(* Every session has one owner and is counted once, wherever it closes     *)
(* (Thread::append, Thread::add_new_sockets, Thread::update).              *)
THEOREM CountedOnce == Spec => []ConnectionsCounted
<1>1. Inv => ConnectionsCounted
  <2> SUFFICES ASSUME Inv PROVE ConnectionsCounted
    OBVIOUS
  <2>1. m_new_sockets \in Seq(Sockets) /\ m_sockets \in Seq(Sockets) /\ Owners
    BY DEF Inv, TypeOK, Owned
  <2>2. /\ ToSet(m_new_sockets \o m_sockets) = ToSet(m_new_sockets) \cup ToSet(m_sockets)
        /\ IsInjective(m_new_sockets \o m_sockets)
    BY <2>1, ListsTogether DEF Owners
  <2> QED
    BY <2>1, <2>2 DEF ConnectionsCounted, Owners
<1> QED
  BY <1>1, Invariance, PTL

(* A write wait always finds its flag and a message, and a handler meets a *)
(* destroyed session in one way only: closed while a write was blocked     *)
(* (Socket::handle_queue_async, Thread::update).                           *)
THEOREM WaitsAreInOrder == Spec => []WriteWaits
<1>1. Inv => WriteWaits
  BY DEF Inv, Waits, UndefinedByWait, WriteWaits
<1> QED
  BY <1>1, Invariance, PTL

===============================================================================

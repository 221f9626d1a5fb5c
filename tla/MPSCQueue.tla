------------------------------ MODULE MPSCQueue ------------------------------
(***************************************************************************)
(* Thread::MPSCQueue, a linked queue of any number of producers and one    *)
(* consumer, in both of its variants.  The intrusive one strings together  *)
(* the items themselves and keeps a dummy it puts back whenever the last   *)
(* item is to leave; the other allocates a node for every item and keeps   *)
(* the node last read as its front.  The variant never changes.            *)
(*                                                                         *)
(* A step is one access to memory the threads share (m_tail belongs to the *)
(* consumer alone), and accesses take place one after the other: the       *)
(* source's acquire and release pairs order every store of a link before   *)
(* the load that sees it.  Memory given back may be handed out again.      *)
(***************************************************************************)
EXTENDS Naturals, Sequences, SequencesExt, FiniteSets

CONSTANTS
  Producers,
  Nodes,        \* bound: the items and nodes memory is found for
  Dummy,        \* the dummy, or the first front
  nullptr,
  Consumer,
  MaxSent       \* bound: items of one producer

ASSUME QueueAssumption ==
  /\ Dummy \in Nodes
  /\ nullptr \notin Nodes
  /\ Consumer \notin Producers
  /\ MaxSent \in Nat

VARIABLES
  intrusive,    \* the variant
  m_head,
  m_tail,
  link,         \* a node's Next, or an item's link
  data,         \* what the item is, for the properties
  unused,       \* memory not in use
  enqueue,      \* the calls of enqueue, the consumer's for the dummy included
  dequeue,      \* the consumer's call, with its local variables
  sent,
  life,         \* "open", "draining", "drained" (the destructor), "gone"
  chain,        \* history: nodes from m_tail on, in the order of the exchanges
  overlapped,   \* history: an enqueue overlapped the call of dequeue
  result        \* history: what the last dequeue returned, nullptr for false

vars == <<intrusive, m_head, m_tail, link, data, unused, enqueue, dequeue, sent,
          life, chain, overlapped, result>>
consumer_vars == <<intrusive, data, sent, life>>

Callers == Producers \cup {Consumer}
Values == Producers \X (1 .. MaxSent)

Returned == [at |-> "outside", node |-> Dummy, previous |-> Dummy]

Init ==
  /\ intrusive \in BOOLEAN
  /\ m_head = Dummy
  /\ m_tail = Dummy
  /\ link = [n \in Nodes |-> nullptr]
  /\ data = [n \in Nodes |-> nullptr]
  /\ unused = Nodes \ {Dummy}
  /\ enqueue = [c \in Callers |-> Returned]
  /\ dequeue = [at |-> "outside", tail |-> Dummy, next |-> nullptr]
  /\ sent = [p \in Producers |-> 0]
  /\ life = "open"
  /\ chain = <<Dummy>>
  /\ overlapped = FALSE
  /\ result = nullptr

(* A node is new, or an item handed over, with its link cleared.           *)
Call(p) ==
  /\ life = "open"
  /\ enqueue[p].at = "outside"
  /\ sent[p] < MaxSent
  /\ \E n \in unused :
       /\ unused' = unused \ {n}
       /\ link' = [link EXCEPT ![n] = nullptr]
       /\ data' = [data EXCEPT ![n] = <<p, sent[p] + 1>>]
       /\ enqueue' = [enqueue EXCEPT ![p] = [at |-> "exchange", node |-> n, previous |-> n]]
  /\ sent' = [sent EXCEPT ![p] = @ + 1]
  /\ overlapped' = TRUE
  /\ UNCHANGED <<intrusive, m_head, m_tail, dequeue, life, chain, result>>

ClearDummy ==
  /\ enqueue[Consumer].at = "clear"
  /\ link' = [link EXCEPT ![Dummy] = nullptr]
  /\ enqueue' = [enqueue EXCEPT ![Consumer].at = "exchange"]
  /\ UNCHANGED <<m_head, m_tail, unused, dequeue, chain, overlapped, result, consumer_vars>>

Exchange(c) ==
  /\ enqueue[c].at = "exchange"
  /\ enqueue' = [enqueue EXCEPT ![c].at = "link", ![c].previous = m_head]
  /\ m_head' = enqueue[c].node
  /\ chain' = Append(chain, enqueue[c].node)
  /\ UNCHANGED <<m_tail, link, unused, dequeue, overlapped, result, consumer_vars>>

Link(c) ==
  /\ enqueue[c].at = "link"
  /\ link' = [link EXCEPT ![enqueue[c].previous] = enqueue[c].node]
  /\ enqueue' = [enqueue EXCEPT ![c] = Returned]
  /\ UNCHANGED <<m_head, m_tail, unused, dequeue, chain, overlapped, result, consumer_vars>>

Producer(p) == Call(p) \/ Exchange(p) \/ Link(p)

Ask ==
  /\ dequeue.at = "outside"
  /\ life \in {"open", "draining"}
  /\ dequeue' = [dequeue EXCEPT !.at = "tail"]
  /\ overlapped' = (\E p \in Producers : enqueue[p].at # "outside")
  /\ UNCHANGED <<m_head, m_tail, link, unused, enqueue, chain, result, consumer_vars>>

(* Faulty variant: the dummy is taken for an item.                         *)
go_on_with_dummy(tail, next) ==
  IF next = nullptr THEN IF intrusive /\ tail # Dummy THEN "head" ELSE "false" ELSE "true"

(* Where the consumer goes on with a tail and the link it has read there.  *)
go_on(tail, next) ==
  IF next = nullptr
  THEN IF intrusive /\ tail # Dummy THEN "head" ELSE "false"
  ELSE IF intrusive /\ tail = Dummy THEN "skip" ELSE "true"

LoadNext ==
  /\ dequeue.at = "tail"
  /\ dequeue' = [at |-> go_on(m_tail, link[m_tail]), tail |-> m_tail, next |-> link[m_tail]]
  /\ UNCHANGED <<m_head, m_tail, link, unused, enqueue, chain, overlapped, result, consumer_vars>>

SkipDummy ==
  /\ dequeue.at = "skip"
  /\ m_tail' = dequeue.next
  /\ chain' = Tail(chain)
  /\ dequeue' = [at |-> go_on(dequeue.next, link[dequeue.next]),
                 tail |-> dequeue.next, next |-> link[dequeue.next]]
  /\ UNCHANGED <<m_head, link, unused, enqueue, overlapped, result, consumer_vars>>

(* Faulty variant: the dummy is not put back.                              *)
CompareHead_gives_up ==
  /\ dequeue.at = "head"
  /\ dequeue' = [dequeue EXCEPT !.at = "false"]
  /\ UNCHANGED <<m_head, m_tail, link, unused, enqueue, chain, overlapped, result, consumer_vars>>

(* If the tail is the last item the dummy is put behind it.                *)
CompareHead ==
  /\ dequeue.at = "head"
  /\ IF dequeue.tail = m_head
     THEN /\ dequeue' = [dequeue EXCEPT !.at = "again"]
          /\ enqueue' = [enqueue EXCEPT ![Consumer].at = "clear"]
     ELSE /\ dequeue' = [dequeue EXCEPT !.at = "false"]
          /\ UNCHANGED enqueue
  /\ UNCHANGED <<m_head, m_tail, link, unused, chain, overlapped, result, consumer_vars>>

(* Faulty variant: the link is not tested a second time.                   *)
LoadAgain_untested ==
  /\ dequeue.at = "again"
  /\ enqueue[Consumer].at = "outside"
  /\ dequeue' = [dequeue EXCEPT !.next = link[dequeue.tail], !.at = "true"]
  /\ UNCHANGED <<m_head, m_tail, link, unused, enqueue, chain, overlapped, result, consumer_vars>>

LoadAgain ==
  /\ dequeue.at = "again"
  /\ enqueue[Consumer].at = "outside"
  /\ dequeue' = [dequeue EXCEPT !.next = link[dequeue.tail],
                                !.at = IF link[dequeue.tail] = nullptr THEN "false" ELSE "true"]
  /\ UNCHANGED <<m_head, m_tail, link, unused, enqueue, chain, overlapped, result, consumer_vars>>

(* Faulty variant: the new front is deleted in place of the old one.       *)
Take_deletes_next ==
  /\ dequeue.at = "true"
  /\ m_tail' = dequeue.next
  /\ chain' = Tail(chain)
  /\ result' = data[IF intrusive THEN dequeue.tail ELSE dequeue.next]
  /\ unused' = unused \cup {IF intrusive THEN dequeue.tail ELSE dequeue.next}
  /\ dequeue' = [dequeue EXCEPT !.at = "outside"]
  /\ UNCHANGED <<m_head, link, enqueue, overlapped, consumer_vars>>

(* The intrusive queue returns the tail, which its owner or the destructor *)
(* deletes; the other returns what the next node holds and deletes the     *)
(* tail.                                                                   *)
Take ==
  /\ dequeue.at = "true"
  /\ m_tail' = dequeue.next
  /\ chain' = Tail(chain)
  /\ result' = data[IF intrusive THEN dequeue.tail ELSE dequeue.next]
  /\ unused' = unused \cup {dequeue.tail}
  /\ dequeue' = [dequeue EXCEPT !.at = "outside"]
  /\ UNCHANGED <<m_head, link, enqueue, overlapped, consumer_vars>>

TakeNothing ==
  /\ dequeue.at = "false"
  /\ result' = nullptr
  /\ dequeue' = [dequeue EXCEPT !.at = "outside"]
  /\ life' = IF life = "draining" THEN "drained" ELSE life
  /\ UNCHANGED <<intrusive, m_head, m_tail, link, data, unused, enqueue, sent, chain, overlapped>>

Dequeue ==
  \/ Ask \/ LoadNext \/ SkipDummy \/ CompareHead \/ LoadAgain \/ Take \/ TakeNothing
  \/ ClearDummy \/ Exchange(Consumer) \/ Link(Consumer)

destructor_vars == <<intrusive, m_head, m_tail, link, data, enqueue, dequeue, sent, chain,
                     overlapped, result>>

(* Faulty variant: what is still in the queue is forgotten.                *)
Destroy_undrained ==
  /\ life = "open"
  /\ dequeue.at = "outside"
  /\ \A p \in Producers : enqueue[p].at = "outside"
  /\ life' = "drained"
  /\ UNCHANGED <<unused, destructor_vars>>

(* No other call may be under way; the consumer's loop empties the queue.  *)
Destroy ==
  /\ life = "open"
  /\ dequeue.at = "outside"
  /\ \A p \in Producers : enqueue[p].at = "outside"
  /\ life' = "draining"
  /\ UNCHANGED <<unused, destructor_vars>>

DeleteFront ==
  /\ life = "drained"
  /\ life' = "gone"
  /\ unused' = IF intrusive THEN unused ELSE unused \cup {m_head}
  /\ UNCHANGED destructor_vars

Next == (\E p \in Producers : Producer(p)) \/ Dequeue \/ Destroy \/ DeleteFront

Spec == Init /\ [][Next]_vars

(* A producer inside enqueue goes on running, and the consumer never stops *)
(* asking; no one need start another enqueue, nor destroy the queue.       *)
FairSpec ==
  /\ Spec
  /\ \A p \in Producers : WF_vars(Exchange(p) \/ Link(p))
  /\ WF_vars(Dequeue)

-----------------------------------------------------------------------------
(* Types, and the calls that may be under way together.  m_tail always     *)
(* stands on a node, and only the intrusive consumer enqueues.             *)
TypeOK ==
  /\ intrusive \in BOOLEAN
  /\ {m_head, m_tail} \subseteq Nodes
  /\ link \in [Nodes -> Nodes \cup {nullptr}]
  /\ data \in [Nodes -> Values \cup {nullptr}]
  /\ unused \subseteq Nodes
  /\ enqueue \in [Callers -> [at : {"outside", "clear", "exchange", "link"},
                             node : Nodes, previous : Nodes]]
  /\ dequeue \in [at : {"outside", "tail", "skip", "head", "again", "true", "false"},
                  tail : Nodes, next : Nodes \cup {nullptr}]
  /\ sent \in [Producers -> 0 .. MaxSent]
  /\ life \in {"open", "draining", "drained", "gone"}
  /\ chain \in Seq(Nodes)
  /\ overlapped \in BOOLEAN
  /\ result \in Values \cup {nullptr}
  /\ enqueue[Consumer].at # "outside" => intrusive /\ dequeue.at = "again"

(* All nodes but the one that carries no item.                             *)
front == IF intrusive THEN Dummy ELSE m_tail
in_queue == RemoveFirst(chain, front)
items == [i \in DOMAIN in_queue |-> data[in_queue[i]]]

(* Both variants are the abstract queue: an item enters with the exchange  *)
(* of m_head, items leave in that order and each once, and dequeue returns *)
(* false only for an empty queue or beside an enqueue - although the list  *)
(* is cut behind a producer that has not stored its link, and although the *)
(* dummy goes round among the items.                                       *)
Queue == INSTANCE FifoQueue WITH
  Nothing <- nullptr,
  putting <- {p \in Producers : enqueue[p].at # "outside"},
  asking <- dequeue.at # "outside",
  answer <- result
ImplementsFifoQueue == Queue!Spec

(* Memory is deleted when nobody uses it any more, and all of it is in the *)
(* end.  No producer is left with a deleted node to store its link in,     *)
(* neither the queue nor the consumer holds one, and the destructor leaves *)
(* no node and no item behind.                                             *)
NodesDeletedInTime ==
  /\ \A c \in Callers : enqueue[c].at = "link" =>
       {enqueue[c].previous, enqueue[c].node} \cap unused = {}
  /\ life # "gone" => {m_head, m_tail} \cap unused = {}
  /\ dequeue.at \in {"skip", "head", "again", "true"} =>
       {dequeue.tail, dequeue.next} \cap unused = {}
  /\ life = "gone" => items = <<>> /\ unused = IF intrusive THEN Nodes \ {Dummy} ELSE Nodes

(* Every item that enters the queue leaves it, and none is stranded behind *)
(* a false answer: neither the last one, for which the intrusive queue     *)
(* must first put its dummy back, nor one behind a link not yet stored.    *)
EveryItemLeaves ==
  \A v \in Values : (\E i \in DOMAIN items : items[i] = v)
                      ~> (\A i \in DOMAIN items : items[i] # v)
=============================================================================

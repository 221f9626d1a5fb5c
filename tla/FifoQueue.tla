------------------------------- MODULE FifoQueue -------------------------------
(***************************************************************************)
(* What a queue of many producers and one consumer promises.  An item is   *)
(* in the queue from one moment of its put on, and items leave in that     *)
(* order, each once.  The consumer may be told that there is nothing, but  *)
(* only if the queue is empty or a put overlaps the call that asks.        *)
(***************************************************************************)
EXTENDS Sequences

CONSTANTS Producers, Values, Nothing

VARIABLES
  items,
  putting,      \* producers between the call of put and its return
  asking,       \* whether the consumer's call is under way
  overlapped,   \* whether a put overlapped that call
  answer        \* what the last call returned

vars == <<items, putting, asking, overlapped, answer>>

Init ==
  /\ items = <<>>
  /\ putting = {}
  /\ asking = FALSE
  /\ overlapped = FALSE
  /\ answer = Nothing

Call(p) ==
  /\ p \notin putting
  /\ putting' = putting \cup {p}
  /\ overlapped' = TRUE
  /\ UNCHANGED <<items, asking, answer>>

Put(p, v) ==
  /\ p \in putting
  /\ items' = Append(items, v)
  /\ UNCHANGED <<putting, asking, overlapped, answer>>

Return(p) ==
  /\ p \in putting
  /\ putting' = putting \ {p}
  /\ UNCHANGED <<items, asking, overlapped, answer>>

Ask ==
  /\ ~ asking
  /\ asking' = TRUE
  /\ overlapped' = (putting # {})
  /\ UNCHANGED <<items, putting, answer>>

Get ==
  /\ asking
  /\ items # <<>>
  /\ answer' = Head(items)
  /\ items' = Tail(items)
  /\ asking' = FALSE
  /\ UNCHANGED <<putting, overlapped>>

GetNothing ==
  /\ asking
  /\ items = <<>> \/ overlapped
  /\ answer' = Nothing
  /\ asking' = FALSE
  /\ UNCHANGED <<items, putting, overlapped>>

Next ==
  \/ \E p \in Producers : Call(p) \/ Return(p) \/ \E v \in Values : Put(p, v)
  \/ Ask \/ Get \/ GetNothing

Spec == Init /\ [][Next]_vars
==============================================================================

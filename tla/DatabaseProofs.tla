---------------------------- MODULE DatabaseProofs ----------------------------
(***************************************************************************)
(* Proofs about Database, for results of any size and any number of        *)
(* statements: what one unlocked handle still guarantees two threads.      *)
(*                                                                         *)
(* Inv says how far a thread is, whatever the library does.  Order says    *)
(* what is on the connection and whose it is, as long as the two threads   *)
(* have not been inside the library together.                              *)
(***************************************************************************)
EXTENDS Database, TLAPS

(* What the call of a thread is like, at each place of query and after it. *)
InQueryAt(place) == place \in {"query", "reply", "store", "read", "affected", "field_count"}
ProgressOf(t, place, c) ==
  /\ c.stmt \in Statements(t) \cup {"none"}
  /\ c.at \in 0 .. c.result.rows
  /\ c.visited \subseteq 1 .. c.result.rows
  /\ InQueryAt(place) \/ place = "rows" => c.stmt \in Statements(t) /\ c.answer = "none"
  /\ place \in {"query", "reply", "store", "read"} =>
       c.at = 0 /\ c.visited = {} /\ c.result = NoResult
  /\ place \in {"affected", "field_count"} => c.visited = {}
  /\ place = "rows" => c.at > 0 /\ c.visited = 1 .. (c.at - 1)

Progress == \A t \in Threads : ProgressOf(t, pc[t], call[t])

(* Two threads inside query know of it.                                    *)
Crossing == \A t, u \in Threads : t # u /\ InQuery(t) /\ InQuery(u) => call[t].crossed

(* The handle is closed by the main thread's last step, or was never open  *)
(* for anybody.                                                            *)
Closing ==
  /\ m_handler = "freed" => pc["main"] = "closing"
  /\ m_handler = "null" => pc["main"] = "closed" \/ \A t \in Threads : ~ InQuery(t)

Inv == TypeOK /\ Progress /\ Crossing /\ Closing

(* The connection belongs to one thread at most, from the statement it     *)
(* sends to the rows it reads, and holds its reply and nothing else.       *)
Holds(place) == place \in {"reply", "store", "read"}
reply(c, part) == [stmt |-> c.stmt, rows |-> c.held, part |-> part]
Waits(place, c, handle, replied) ==
  /\ place = "reply" => /\ handle.status = "ready"
                        /\ replied \in {<<reply(c, "columns")>>, <<reply(c, "error")>>}
  /\ place \in {"store", "read"} => /\ replied = <<reply(c, "rows")>>
                                    /\ handle.field_count = columns(c.stmt)
  /\ place = "store" => handle.status = "get_result"
  /\ place = "read" => handle.status = "ready"

(* What a thread finds is what its own statement found.                    *)
Found(place, c) ==
  /\ c.result.stmt \in {c.stmt, "none"}
  /\ c.stmt = "account" => c.held \in {0, 1, Unknown}
  /\ place \in {"affected", "field_count", "rows"} =>
       c.result = [stmt |-> c.stmt, rows |-> c.held]
  /\ c.answer = "null" /\ c.held # 0 => c.failed \/ c.crossed
  /\ c.answer = "rows" => c.visited = 1 .. c.held

(* To a thread that has been alone in query the handle still says what its *)
(* own statement left there.                                               *)
Alone(place, c, handle) ==
  ~ c.crossed /\ place \in {"affected", "field_count"} =>
    handle.field_count = columns(c.stmt) /\ handle.affected = c.held

Order ==
  /\ \A t, u \in Threads : Holds(pc[t]) /\ Holds(pc[u]) => t = u
  /\ \A t \in Threads : Waits(pc[t], call[t], mysql, wire)
  /\ \A t \in Threads : Found(pc[t], call[t])
  /\ \A t \in Threads : Alone(pc[t], call[t], mysql)
  /\ (\A t \in Threads : ~ Holds(pc[t])) => wire = <<>> /\ mysql.status = "ready"

Orderly == ~ raced => Order

-------------------------------------------------------------------------------
(* What a thread asks for is a statement, and what the server answers.     *)
LEMMA StatementKinds == \A t \in Threads : Statements(t) \subseteq AllStatements
BY DEF AllStatements

LEMMA Bounds ==
  /\ Unknown \in Nat /\ Unknown > MaxRows /\ Unknown # 0 /\ Unknown # 1
  /\ 0 \in 0 .. MaxRows /\ 0 \in 0 .. Unknown /\ 0 \in 0 .. MaxStatements
  /\ 1 \in 0 .. MaxRows
  /\ Unknown \in 0 .. Unknown
  /\ \A n \in 0 .. MaxRows : n \in 0 .. Unknown
BY RowsAssumption, StatementsAssumption DEF Unknown

LEMMA NoCallTyped == NoCall \in Calls /\ NoResult \in Results
BY Bounds DEF NoCall, NoResult, Calls, Results

LEMMA Answers ==
  ASSUME NEW stmt \in AllStatements, NEW r \in replies(stmt)
  PROVE  /\ r \in Replies /\ r.stmt = stmt /\ r.part \in {"columns", "error"}
         /\ r.rows \in 0 .. MaxRows
         /\ stmt = "account" => r.rows \in {0, 1}
<1>1. \A n \in possible_rows(stmt) : n \in 0 .. MaxRows
  BY RowsAssumption DEF possible_rows
<1>2. stmt = "account" => \A n \in possible_rows(stmt) : n \in {0, 1}
  BY DEF possible_rows
<1> QED
  BY <1>1, <1>2, Bounds DEF replies, Replies

LEMMA ColumnCounts == \A stmt : columns(stmt) \in {2, 4, 11}
BY DEF columns

(* The calls of a typed state.                                             *)
LEMMA CallTyped ==
  ASSUME Inv, NEW t \in Threads
  PROVE  /\ call \in [Threads -> Calls] /\ call[t] \in Calls
         /\ pc \in [Threads -> Places] /\ pc[t] \in Places
         /\ mysql \in Handles /\ wire \in Seq(Replies) /\ raced \in BOOLEAN
         /\ call[t].result \in Results
BY DEF Inv, TypeOK, Calls

LEMMA PlacesOfQuery == \A t \in Threads : InQuery(t) <=> InQueryAt(pc[t])
BY DEF InQuery, Inside, InQueryAt

LEMMA InitInv == Init => Inv
<1> SUFFICES ASSUME Init PROVE Inv
  OBVIOUS
<1>1. \A t \in Threads : pc[t] = "idle" /\ call[t] = NoCall
  BY DEF Init
<1>2. mysql \in Handles
  BY Bounds DEF Init, Handles
<1>3. call \in [Threads -> Calls] /\ started \in [Threads -> 0 .. MaxStatements]
  BY NoCallTyped, Bounds DEF Init
<1>4. pc \in [Threads -> Places]
  BY DEF Init, Places
<1>5. NoCall.stmt = "none" /\ NoCall.at = 0 /\ NoCall.visited = {} /\ NoCall.result.rows = 0
  BY DEF NoCall, NoResult
<1>6. Progress
  BY <1>1, <1>5 DEF Progress, ProgressOf, InQueryAt
<1>7. TypeOK
  <2>1. \A t \in Threads :
          /\ call[t].stmt \in Statements(t) \cup {"none"}
          /\ call[t].at \in 0 .. call[t].result.rows
          /\ call[t].visited \subseteq 1 .. call[t].result.rows
    BY <1>6 DEF Progress, ProgressOf
  <2>2. wire \in Seq(Replies)
    BY DEF Init
  <2> QED
    BY <1>2, <1>3, <1>4, <2>1, <2>2 DEF Init, TypeOK
<1>8. Crossing /\ Closing
  BY <1>1 DEF Init, Crossing, Closing, InQuery, Inside
<1> QED
  BY <1>6, <1>7, <1>8 DEF Inv

(* A step that moves thread t to a place, and its call to c, and leaves    *)
(* the other thread alone: it is enough to follow t.                       *)
Moves(t, place, c) ==
  /\ pc' = [pc EXCEPT ![t] = place]
  /\ call' = [call EXCEPT ![t] = c]

LEMMA MovesFacts ==
  ASSUME Inv, NEW t \in Threads, NEW place, NEW c, Moves(t, place, c)
  PROVE  /\ pc'[t] = place /\ call'[t] = c
         /\ \A u \in Threads : u # t => pc'[u] = pc[u] /\ call'[u] = call[u]
         /\ InQuery(t)' <=> InQueryAt(place)
         /\ \A u \in Threads : u # t => (InQuery(u)' <=> InQuery(u))
<1>1. pc \in [Threads -> Places] /\ call \in [Threads -> Calls]
  BY CallTyped
<1>2. /\ pc'[t] = place /\ call'[t] = c
      /\ \A u \in Threads : u # t => pc'[u] = pc[u] /\ call'[u] = call[u]
  BY <1>1 DEF Moves
<1> QED
  BY <1>2 DEF InQuery, Inside, InQueryAt

LEMMA MoveKeeps ==
  ASSUME Inv, NEW t \in Threads, NEW place \in Places, NEW c \in Calls, Moves(t, place, c),
         UNCHANGED <<m_handler, started, process>>,
         mysql' \in Handles, wire' \in Seq(Replies), raced' \in BOOLEAN,
         c.crossed = call[t].crossed, ProgressOf(t, place, c),
         pc[t] \notin {"idle", "closing", "closed"}, place \notin {"closing", "closed"},
         InQueryAt(place) => InQuery(t)
  PROVE  Inv'
<1>1. /\ pc'[t] = place /\ call'[t] = c
      /\ \A u \in Threads : u # t => pc'[u] = pc[u] /\ call'[u] = call[u]
      /\ InQuery(t)' <=> InQueryAt(place)
      /\ \A u \in Threads : u # t => (InQuery(u)' <=> InQuery(u))
  BY MovesFacts
<1>2. Progress'
  BY <1>1 DEF Inv, Progress
<1>3. TypeOK'
  <2>1. pc' \in [Threads -> Places] /\ call' \in [Threads -> Calls]
    BY DEF Moves, Inv, TypeOK
  <2>2. \A u \in Threads :
          /\ call'[u].stmt \in Statements(u) \cup {"none"}
          /\ call'[u].at \in 0 .. call'[u].result.rows
          /\ call'[u].visited \subseteq 1 .. call'[u].result.rows
    BY <1>2 DEF Progress, ProgressOf
  <2> QED
    BY <2>1, <2>2 DEF Inv, TypeOK
<1>4. Crossing'
  BY <1>1 DEF Inv, Crossing
<1>5. Closing'
  <2>1. t = "main" => m_handler # "freed" /\ pc["main"] # "closed"
    BY DEF Inv, Closing
  <2>2. t # "main" => pc'["main"] = pc["main"]
    BY <1>1 DEF Threads
  <2>3. InQuery(t)' => InQuery(t)
    BY <1>1
  <2> QED
    BY <1>1, <2>1, <2>2, <2>3 DEF Inv, Closing
<1> QED
  BY <1>2, <1>3, <1>4, <1>5 DEF Inv

(* query returns nullptr.                                                  *)
LEMMA NullMoves ==
  ASSUME Inv, NEW t \in Threads, NEW f \in BOOLEAN, null(t, f), InQuery(t)
  PROVE  \E c \in Calls :
           /\ Moves(t, "idle", c) /\ ProgressOf(t, "idle", c)
           /\ c.stmt = call[t].stmt /\ c.held = call[t].held /\ c.result = call[t].result
           /\ c.answer = "null" /\ c.failed = f /\ c.crossed = call[t].crossed
<1> DEFINE c == [call[t] EXCEPT !.answer = "null", !.failed = f]
<1>1. call[t] \in Calls
  BY CallTyped
<1>2. /\ c \in Calls /\ c.stmt = call[t].stmt /\ c.held = call[t].held
      /\ c.result = call[t].result /\ c.at = call[t].at /\ c.visited = call[t].visited
      /\ c.answer = "null" /\ c.failed = f /\ c.crossed = call[t].crossed
  BY <1>1 DEF Calls
<1>3. Moves(t, "idle", c)
  BY DEF null, go, Moves
<1> HIDE DEF c
<1>4. ProgressOf(t, "idle", c)
  BY <1>2 DEF Inv, Progress, ProgressOf, InQueryAt
<1> QED
  BY <1>2, <1>3, <1>4

LEMMA NullKeeps ==
  ASSUME Inv, NEW t \in Threads, NEW f \in BOOLEAN, null(t, f), InQuery(t),
         UNCHANGED <<m_handler, started, process>>,
         mysql' \in Handles, wire' \in Seq(Replies), raced' \in BOOLEAN
  PROVE  Inv'
<1>1. PICK c \in Calls :
        /\ Moves(t, "idle", c) /\ ProgressOf(t, "idle", c) /\ c.crossed = call[t].crossed
  BY NullMoves
<1>2. "idle" \in Places /\ ~ InQueryAt("idle") /\ pc[t] \notin {"idle", "closing", "closed"}
  BY DEF Places, InQueryAt, InQuery, Inside
<1> QED
  BY <1>1, <1>2, MoveKeeps

(* A step that goes on to the next place, with the call as it is.          *)
LEMMA GoMoves ==
  ASSUME Inv, NEW t \in Threads, NEW place, go(t, place), UNCHANGED call
  PROVE  Moves(t, place, call[t])
BY CallTyped DEF go, Moves

LEMMA UndefinedKeeps ==
  ASSUME Inv, process' = "undefined",
         UNCHANGED <<m_handler, mysql, wire, pc, call, started, raced>>
  PROVE  Inv'
BY DEF Inv, TypeOK, Progress, Crossing, Closing, InQuery, Inside

(* The connection, after something of it has been read or added.           *)
LEMMA WireTyped ==
  ASSUME NEW w \in Seq(Replies)
  PROVE  /\ \A r \in Replies : Append(w, r) \in Seq(Replies)
         /\ w # <<>> => /\ Tail(w) \in Seq(Replies)
                        /\ Head(w) \in Replies
                        /\ [w EXCEPT ![1].part = "rows"] \in Seq(Replies)
<1>1. w # <<>> => Head(w) \in Replies /\ Tail(w) \in Seq(Replies)
  OBVIOUS
<1>2. ASSUME w # <<>>
      PROVE  [w EXCEPT ![1].part = "rows"] \in Seq(Replies)
  <2>1. w[1] \in Replies /\ 1 \in DOMAIN w
    BY <1>2
  <2> DEFINE r == [w[1] EXCEPT !.part = "rows"]
  <2>2. r \in Replies
    BY <2>1 DEF Replies
  <2>3. [w EXCEPT ![1].part = "rows"] = [w EXCEPT ![1] = r]
    OBVIOUS
  <2> HIDE DEF r
  <2>4. [w EXCEPT ![1] = r] \in Seq(Replies)
    BY <2>1, <2>2
  <2> QED
    BY <2>3, <2>4
<1> QED
  BY <1>1, <1>2

(* The other thread is the only one whose call a new statement touches.    *)
LEMMA EnterMoves ==
  ASSUME Inv, NEW t \in Threads, NEW stmt \in Statements(t), Enter(t, stmt), ~ no_handler
  PROVE  /\ pc' = [pc EXCEPT ![t] = "query"] /\ pc'[t] = "query"
         /\ call' \in [Threads -> Calls]
         /\ call'[t].stmt = stmt /\ call'[t].held = Unknown /\ call'[t].result = NoResult
         /\ call'[t].at = 0 /\ call'[t].visited = {} /\ call'[t].answer = "none"
         /\ ProgressOf(t, "query", call'[t])
         /\ \A u \in Threads : u # t =>
              /\ pc'[u] = pc[u]
              /\ \/ ~ InQuery(u) /\ call'[u] = call[u]
                 \/ InQuery(u) /\ call'[t].crossed /\ call'[u] = [call[u] EXCEPT !.crossed = TRUE]
<1> DEFINE others == {u \in Threads \ {t} : InQuery(u)}
           fresh == [NoCall EXCEPT !.stmt = stmt, !.crossed = others # {}]
<1>1. pc' = [pc EXCEPT ![t] = "query"]
  BY DEF Enter, go
<1>2. call' = [u \in Threads |->
                 IF u = t THEN fresh
                 ELSE IF u \in others THEN [call[u] EXCEPT !.crossed = TRUE]
                 ELSE call[u]]
  BY DEF Enter
<1>3. /\ fresh \in Calls /\ fresh.stmt = stmt /\ fresh.held = Unknown
      /\ fresh.result = NoResult /\ fresh.at = 0 /\ fresh.visited = {}
      /\ fresh.answer = "none" /\ fresh.crossed = (others # {})
  BY StatementKinds, NoCallTyped DEF NoCall, Calls
<1>4. call \in [Threads -> Calls] /\ pc \in [Threads -> Places]
  BY CallTyped
<1>5. \A u \in Threads : [call[u] EXCEPT !.crossed = TRUE] \in Calls
  BY <1>4 DEF Calls
<1> HIDE DEF fresh
<1>6. call'[t] = fresh
  BY <1>2
<1>7. ASSUME NEW u \in Threads, u # t
      PROVE  /\ pc'[u] = pc[u]
             /\ \/ ~ InQuery(u) /\ call'[u] = call[u]
                \/ InQuery(u) /\ call'[t].crossed /\ call'[u] = [call[u] EXCEPT !.crossed = TRUE]
  BY <1>1, <1>2, <1>3, <1>4, <1>6, <1>7
<1>8. ProgressOf(t, "query", fresh)
  BY <1>3 DEF ProgressOf, NoResult
<1>9. call' \in [Threads -> Calls]
  BY <1>2, <1>3, <1>4, <1>5
<1>10. pc'[t] = "query"
  BY <1>1, <1>4
<1> QED
  BY <1>1, <1>3, <1>6, <1>7, <1>8, <1>9, <1>10

(* A call with company is otherwise what it was.                           *)
LEMMA CrossedCall ==
  ASSUME NEW c \in Calls, NEW d, d = [c EXCEPT !.crossed = TRUE]
  PROVE  /\ d.stmt = c.stmt /\ d.held = c.held /\ d.result = c.result /\ d.at = c.at
         /\ d.visited = c.visited /\ d.answer = c.answer /\ d.failed = c.failed
         /\ d.crossed = TRUE
BY DEF Calls

LEMMA StartedOnce ==
  ASSUME Inv, NEW t \in Threads, NEW stmt, Enter(t, stmt)
  PROVE  started' \in [Threads -> 0 .. MaxStatements]
<1>1. started \in [Threads -> 0 .. MaxStatements] /\ started[t] < MaxStatements
  BY DEF Inv, TypeOK, Enter
<1>2. started[t] + 1 \in 0 .. MaxStatements
  BY <1>1, StatementsAssumption
<1>3. started' = [started EXCEPT ![t] = started[t] + 1]
  BY DEF Enter
<1> QED
  BY <1>1, <1>2, <1>3

(* A statement nobody takes, because there is no database.                 *)
LEMMA EnterNull ==
  ASSUME Inv, NEW t \in Threads, NEW stmt \in Statements(t), Enter(t, stmt), no_handler
  PROVE  \E c \in Calls :
           /\ call' = [call EXCEPT ![t] = c] /\ UNCHANGED pc
           /\ c.stmt = stmt /\ c.held = Unknown /\ c.result = NoResult
           /\ c.at = 0 /\ c.visited = {} /\ c.answer = "null" /\ c.failed
<1> DEFINE others == {u \in Threads \ {t} : InQuery(u)}
           company == others # {}
           c == [NoCall EXCEPT !.stmt = stmt, !.crossed = company,
                               !.answer = "null", !.failed = TRUE]
<1>1. call' = [call EXCEPT ![t] = c] /\ UNCHANGED pc
  BY DEF Enter
<1>2. company \in BOOLEAN
  OBVIOUS
<1> HIDE DEF company
<1>3. /\ c \in Calls
      /\ c.stmt = stmt /\ c.held = Unknown /\ c.result = NoResult
      /\ c.at = 0 /\ c.visited = {} /\ c.answer = "null" /\ c.failed
  BY <1>2, StatementKinds, NoCallTyped DEF NoCall, Calls
<1> QED
  BY <1>1, <1>3

LEMMA EnterKeeps ==
  ASSUME Inv, NEW t \in Threads, NEW stmt \in Statements(t), Enter(t, stmt)
  PROVE  Inv'
<1>1. pc[t] = "idle" /\ process = "running" /\ UNCHANGED <<m_handler, mysql, wire, process, raced>>
  BY DEF Enter, At
<1>2. started' \in [Threads -> 0 .. MaxStatements]
  BY StartedOnce
<1>3. call \in [Threads -> Calls] /\ pc \in [Threads -> Places]
  BY CallTyped
<1>4. CASE no_handler
  <2>1. PICK c \in Calls :
          /\ call' = [call EXCEPT ![t] = c] /\ UNCHANGED pc
          /\ c.stmt = stmt /\ c.result = NoResult /\ c.at = 0 /\ c.visited = {}
    BY <1>4, EnterNull
  <2>2. ProgressOf(t, pc[t], c)
    BY <1>1, <2>1 DEF ProgressOf, InQueryAt, NoResult
  <2>3. /\ call'[t] = c /\ \A u \in Threads : u # t => call'[u] = call[u]
        /\ call' \in [Threads -> Calls]
        /\ \A u \in Threads : InQuery(u)' <=> InQuery(u)
    BY <1>3, <2>1 DEF InQuery, Inside
  <2>4. Progress'
    BY <2>1, <2>2, <2>3 DEF Inv, Progress
  <2>5. Crossing' /\ Closing'
    BY <1>1, <2>1, <2>3, PlacesOfQuery DEF Inv, Crossing, Closing, InQueryAt
  <2>6. TypeOK'
    <3>1. \A u \in Threads :
            /\ call'[u].stmt \in Statements(u) \cup {"none"}
            /\ call'[u].at \in 0 .. call'[u].result.rows
            /\ call'[u].visited \subseteq 1 .. call'[u].result.rows
      BY <2>4 DEF Progress, ProgressOf
    <3> QED
      BY <1>1, <1>2, <2>1, <2>3, <3>1 DEF Inv, TypeOK
  <2> QED
    BY <2>4, <2>5, <2>6 DEF Inv
<1>5. CASE ~ no_handler
  <2>1. /\ pc' = [pc EXCEPT ![t] = "query"] /\ pc'[t] = "query"
        /\ call' \in [Threads -> Calls]
        /\ ProgressOf(t, "query", call'[t])
        /\ \A u \in Threads : u # t =>
             /\ pc'[u] = pc[u]
             /\ \/ ~ InQuery(u) /\ call'[u] = call[u]
                \/ InQuery(u) /\ call'[t].crossed /\ call'[u] = [call[u] EXCEPT !.crossed = TRUE]
    BY <1>5, EnterMoves
  <2>2. \A u \in Threads : u # t => (InQuery(u)' <=> InQuery(u))
    BY <2>1 DEF InQuery, Inside
  <2>3. \A u \in Threads : u # t /\ InQuery(u) => call'[u].crossed /\ call'[t].crossed
    BY <1>3, <2>1, CrossedCall
  <2>4. Progress'
    <3>1. ASSUME NEW u \in Threads, u # t
          PROVE  ProgressOf(u, pc[u], call'[u])
      <4>0. ProgressOf(u, pc[u], call[u]) /\ call[u] \in Calls
        BY <1>3 DEF Inv, Progress
      <4>1. CASE call'[u] = call[u]
        BY <4>0, <4>1
      <4>2. CASE call'[u] = [call[u] EXCEPT !.crossed = TRUE]
        BY <4>0, <4>2, CrossedCall DEF ProgressOf
      <4> QED
        BY <2>1, <3>1, <4>1, <4>2
    <3> QED
      BY <2>1, <3>1 DEF Progress
  <2>5. Crossing'
    BY <2>2, <2>3 DEF Crossing
  <2>6. Closing'
    BY <1>1, <1>5, <2>1, <2>2 DEF Inv, Closing, no_handler, Threads
  <2>7. TypeOK'
    <3>1. \A u \in Threads :
            /\ call'[u].stmt \in Statements(u) \cup {"none"}
            /\ call'[u].at \in 0 .. call'[u].result.rows
            /\ call'[u].visited \subseteq 1 .. call'[u].result.rows
      BY <2>4 DEF Progress, ProgressOf
    <3>2. pc' \in [Threads -> Places]
      BY <1>3, <2>1 DEF Places
    <3> QED
      BY <1>1, <1>2, <2>1, <3>1, <3>2 DEF Inv, TypeOK
  <2> QED
    BY <2>4, <2>5, <2>6, <2>7 DEF Inv
<1> QED
  BY <1>4, <1>5

(* The steps of query that give up.                                        *)
LEMMA FailureKeeps ==
  ASSUME Inv, NEW t \in Threads,
         \/ QueryRefused(t) \/ QueryFails(t) \/ QueryError(t)
         \/ StoreFails(t) \/ ConnectionLost(t)
  PROVE  Inv'
<1>1. /\ mysql \in Handles /\ wire \in Seq(Replies) /\ raced \in BOOLEAN
      /\ wire # <<>> => Tail(wire) \in Seq(Replies)
      /\ <<>> \in Seq(Replies)
  BY CallTyped, WireTyped
<1>2. /\ \E f \in BOOLEAN : null(t, f)
      /\ InQuery(t)
      /\ UNCHANGED <<m_handler, started, process>>
  BY DEF QueryRefused, QueryFails, QueryError, StoreFails, ConnectionLost,
         At, InQuery, Inside
<1>3. wire' \in Seq(Replies)
  BY <1>1 DEF QueryRefused, QueryFails, QueryError, StoreFails,
              ConnectionLost, comes
<1>4. raced' \in BOOLEAN
  BY <1>1 DEF QueryRefused, QueryFails, QueryError, StoreFails,
              ConnectionLost, begin
<1>5. mysql' \in Handles
  <2>1. CASE QueryFails(t)
    BY <1>1, <2>1, Bounds DEF QueryFails, reset, Handles
  <2>2. CASE ConnectionLost(t)
    BY <1>1, <2>2 DEF ConnectionLost, Handles
  <2>3. CASE UNCHANGED mysql
    BY <1>1, <2>3
  <2> QED
    BY <2>1, <2>2, <2>3 DEF QueryRefused, QueryError, StoreFails
<1> QED
  BY <1>2, <1>3, <1>4, <1>5, NullKeeps

LEMMA QueryKeeps ==
  ASSUME Inv, NEW t \in Threads, Query(t)
  PROVE  Inv'
<1>1. PICK r \in replies(call[t].stmt) :
        wire' = Append(wire, r) /\ call' = [call EXCEPT ![t].held = r.rows]
  BY DEF Query
<1>2. /\ pc[t] = "query" /\ pc' = [pc EXCEPT ![t] = "reply"] /\ InQuery(t)
      /\ UNCHANGED <<m_handler, started, process>>
  BY DEF Query, At, go, InQuery
<1>3. /\ mysql \in Handles /\ wire \in Seq(Replies) /\ raced \in BOOLEAN /\ call[t] \in Calls
  BY CallTyped
<1>4. ProgressOf(t, "query", call[t])
  BY <1>2 DEF Inv, Progress
<1>5. call[t].stmt \in AllStatements
  BY <1>4, StatementKinds DEF ProgressOf, InQueryAt
<1>6. r \in Replies /\ r.rows \in 0 .. Unknown
  BY <1>5, Answers, Bounds
<1> DEFINE c == [call[t] EXCEPT !.held = r.rows]
<1>7. /\ c \in Calls /\ c.stmt = call[t].stmt /\ c.result = call[t].result /\ c.at = call[t].at
      /\ c.visited = call[t].visited /\ c.answer = call[t].answer
      /\ c.crossed = call[t].crossed
  BY <1>3, <1>6 DEF Calls
<1>8. Moves(t, "reply", c)
  BY <1>1, <1>2 DEF Moves
<1> HIDE DEF c
<1>9. ProgressOf(t, "reply", c)
  BY <1>4, <1>7 DEF ProgressOf, InQueryAt
<1>10. mysql' \in Handles
  BY <1>3, Bounds DEF Query, reset, Handles
<1>11. wire' \in Seq(Replies)
  BY <1>1, <1>3, <1>6, WireTyped
<1>12. raced' \in BOOLEAN
  BY DEF Query, begin
<1>13. "reply" \in Places
  BY DEF Places
<1> QED
  BY <1>2, <1>7, <1>8, <1>9, <1>10, <1>11, <1>12, <1>13, MoveKeeps

(* The steps that go on with the call as it is.                            *)
LEMMA GoKeeps ==
  ASSUME Inv, NEW t \in Threads, NEW place, NEW next, pc[t] = place, go(t, next),
         \/ place = "reply" /\ next = "store"
         \/ place = "store" /\ next = "read"
         \/ place = "affected" /\ next = "field_count",
         mysql' \in Handles, wire' \in Seq(Replies), raced' \in BOOLEAN,
         UNCHANGED <<m_handler, call, started, process>>
  PROVE  Inv'
<1>1. Moves(t, next, call[t]) /\ call[t] \in Calls
  BY GoMoves, CallTyped
<1>2. ProgressOf(t, next, call[t])
  <2>1. ProgressOf(t, place, call[t])
    BY DEF Inv, Progress
  <2> QED
    BY <2>1 DEF ProgressOf, InQueryAt
<1>3. next \in Places /\ InQuery(t)
  BY DEF Places, InQuery, Inside
<1> QED
  BY <1>1, <1>2, <1>3, MoveKeeps

LEMMA GoOnKeeps ==
  ASSUME Inv, NEW t \in Threads, QueryReply(t) \/ StoreResult(t)
  PROVE  Inv'
<1>1. /\ mysql \in Handles /\ wire \in Seq(Replies) /\ raced \in BOOLEAN
      /\ wire # <<>> => [wire EXCEPT ![1].part = "rows"] \in Seq(Replies)
  BY CallTyped, WireTyped
<1>2. CASE QueryReply(t)
  <2>1. mysql' \in Handles
    BY <1>1, <1>2, ColumnCounts DEF QueryReply, Handles
  <2>2. wire' \in Seq(Replies) /\ raced' \in BOOLEAN
    BY <1>1, <1>2 DEF QueryReply, comes
  <2>3. pc[t] = "reply" /\ go(t, "store") /\ UNCHANGED <<m_handler, call, started, process>>
    BY <1>2 DEF QueryReply, At
  <2> QED
    BY <2>1, <2>2, <2>3, GoKeeps
<1>3. CASE StoreResult(t)
  <2>1. mysql' \in Handles
    BY <1>1, <1>3 DEF StoreResult, taken, Handles
  <2>2. wire' \in Seq(Replies) /\ raced' \in BOOLEAN
    BY <1>1, <1>3 DEF StoreResult, begin
  <2>3. pc[t] = "store" /\ go(t, "read") /\ UNCHANGED <<m_handler, call, started, process>>
    BY <1>3 DEF StoreResult, At
  <2> QED
    BY <2>1, <2>2, <2>3, GoKeeps
<1> QED
  BY <1>2, <1>3

LEMMA StoreRowsKeeps ==
  ASSUME Inv, NEW t \in Threads, StoreRows(t)
  PROVE  Inv'
<1>1. /\ mysql \in Handles /\ wire \in Seq(Replies) /\ raced \in BOOLEAN /\ call[t] \in Calls
      /\ Head(wire) \in Replies /\ Tail(wire) \in Seq(Replies)
  BY CallTyped, WireTyped DEF StoreRows, comes
<1>2. Head(wire).stmt \in AllStatements /\ Head(wire).rows \in 0 .. MaxRows
  BY <1>1 DEF Replies
<1>3. /\ pc[t] = "read" /\ pc' = [pc EXCEPT ![t] = "affected"] /\ InQuery(t)
      /\ UNCHANGED <<m_handler, started, process, raced>> /\ wire' = Tail(wire)
      /\ mysql' = [mysql EXCEPT !.affected = Head(wire).rows]
      /\ call' = [call EXCEPT ![t].result = [stmt |-> Head(wire).stmt, rows |-> Head(wire).rows]]
  BY DEF StoreRows, At, go, InQuery, Inside
<1>4. mysql' \in Handles
  BY <1>1, <1>2, <1>3, Bounds DEF Handles
<1> DEFINE got == [stmt |-> Head(wire).stmt, rows |-> Head(wire).rows]
           c == [call[t] EXCEPT !.result = got]
<1>5. got \in Results /\ got.rows \in 0 .. MaxRows
  BY <1>2 DEF Results
<1>6. call' = [call EXCEPT ![t] = c]
  BY <1>3
<1> HIDE DEF got
<1>7. /\ c \in Calls /\ c.stmt = call[t].stmt /\ c.result = got /\ c.at = call[t].at
      /\ c.visited = call[t].visited /\ c.answer = call[t].answer
      /\ c.crossed = call[t].crossed
  BY <1>1, <1>5 DEF Calls
<1> HIDE DEF c
<1>8. ProgressOf(t, "affected", c)
  <2>1. ProgressOf(t, "read", call[t])
    BY <1>3 DEF Inv, Progress
  <2>2. c.at = 0 /\ c.visited = {} /\ c.stmt \in Statements(t) /\ c.answer = "none"
    BY <1>7, <2>1 DEF ProgressOf, InQueryAt
  <2>3. c.at \in 0 .. c.result.rows
    BY <1>5, <1>7, <2>2, RowsAssumption
  <2> QED
    BY <2>2, <2>3 DEF ProgressOf
<1>9. Moves(t, "affected", c) /\ "affected" \in Places
  BY <1>3, <1>6 DEF Moves, Places
<1> QED
  BY <1>1, <1>3, <1>4, <1>7, <1>8, <1>9, MoveKeeps

LEMMA MisreadKeeps ==
  ASSUME Inv, NEW t \in Threads, Misread(t)
  PROVE  Inv'
<1>1. UNCHANGED <<m_handler, mysql, started, raced>> /\ InQuery(t) /\ wire # <<>>
  BY DEF Misread, At, comes, InQuery, Inside
<1>2. CASE wire' \in left_over /\ null(t, FALSE) /\ UNCHANGED process
  <2>1. left_over \subseteq Seq(Replies)
    <3>1. wire \in Seq(Replies)
      BY CallTyped
    <3>2. Tail(wire) \in Seq(Replies) /\ [wire EXCEPT ![1].part = "rows"] \in Seq(Replies)
      BY <1>1, <3>1, WireTyped
    <3>3. <<>> \in Seq(Replies)
      OBVIOUS
    <3> DEFINE eaten == [wire EXCEPT ![1].part = "rows"]
    <3>4. left_over \subseteq {Tail(wire), <<>>, eaten}
      BY DEF left_over
    <3> HIDE DEF eaten
    <3>5. eaten \in Seq(Replies)
      BY <3>2 DEF eaten
    <3> QED
      BY <3>2, <3>3, <3>4, <3>5
  <2>2. mysql' \in Handles /\ raced' \in BOOLEAN
    BY <1>1, CallTyped
  <2>3. wire' \in Seq(Replies)
    BY <1>2, <2>1
  <2> QED
    BY <1>1, <1>2, <2>2, <2>3, NullKeeps
<1>3. CASE process' = "undefined" /\ UNCHANGED <<wire, pc, call>>
  BY <1>1, <1>3, UndefinedKeeps
<1> QED
  BY <1>2, <1>3 DEF Misread

LEMMA AffectedRowsKeeps ==
  ASSUME Inv, NEW t \in Threads, AffectedRows(t)
  PROVE  Inv'
<1>1. /\ pc[t] = "affected" /\ InQuery(t)
      /\ UNCHANGED <<m_handler, mysql, wire, started, process, raced>>
  BY DEF AffectedRows, At, InQuery
<1>2. mysql' \in Handles /\ wire' \in Seq(Replies) /\ raced' \in BOOLEAN
  BY <1>1, CallTyped
<1>3. CASE null(t, FALSE)
  BY <1>1, <1>2, <1>3, NullKeeps
<1>4. CASE go(t, "field_count") /\ UNCHANGED call
  BY <1>1, <1>2, <1>4, GoKeeps
<1> QED
  BY <1>3, <1>4 DEF AffectedRows

(* To the caller's loop.                                                   *)
LEMMA FirstRow ==
  ASSUME Inv, NEW t \in Threads, pc[t] = "field_count", call[t].result.rows # 0,
         call' = [call EXCEPT ![t].at = 1], go(t, "rows")
  PROVE  \E c \in Calls :
           /\ Moves(t, "rows", c) /\ ProgressOf(t, "rows", c)
           /\ c.stmt = call[t].stmt /\ c.held = call[t].held /\ c.result = call[t].result
           /\ c.answer = call[t].answer /\ c.crossed = call[t].crossed
<1>1. call[t] \in Calls /\ call[t].result \in Results
  BY CallTyped
<1> DEFINE c == [call[t] EXCEPT !.at = 1]
<1>2. /\ c \in Calls /\ c.at = 1 /\ c.stmt = call[t].stmt /\ c.result = call[t].result
      /\ c.visited = call[t].visited /\ c.held = call[t].held
      /\ c.answer = call[t].answer /\ c.crossed = call[t].crossed
  BY <1>1, Bounds DEF Calls
<1>3. Moves(t, "rows", c)
  BY DEF go, Moves
<1> HIDE DEF c
<1>4. c.result.rows \in 0 .. MaxRows /\ c.result.rows # 0
  BY <1>1, <1>2 DEF Results
<1>5. ProgressOf(t, "rows", c)
  <2>1. ProgressOf(t, "field_count", call[t])
    BY DEF Inv, Progress
  <2>2. c.visited = {} /\ c.stmt \in Statements(t) /\ c.answer = "none"
    BY <1>2, <2>1 DEF ProgressOf, InQueryAt
  <2>3. c.at \in 0 .. c.result.rows
    BY <1>2, <1>4, RowsAssumption
  <2>4. 1 .. (c.at - 1) = {} /\ c.at > 0
    BY <1>2
  <2> QED
    BY <2>2, <2>3, <2>4 DEF ProgressOf
<1> QED
  BY <1>2, <1>3, <1>5

LEMMA FieldCountKeeps ==
  ASSUME Inv, NEW t \in Threads, FieldCount(t)
  PROVE  Inv'
<1>1. /\ pc[t] = "field_count" /\ InQuery(t)
      /\ UNCHANGED <<m_handler, mysql, wire, started, raced>>
  BY DEF FieldCount, At, InQuery
<1>2. mysql' \in Handles /\ wire' \in Seq(Replies) /\ raced' \in BOOLEAN
  BY <1>1, CallTyped
<1>3. CASE process' = "undefined" /\ UNCHANGED <<pc, call>>
  BY <1>1, <1>3, UndefinedKeeps
<1>4. CASE null(t, FALSE) /\ UNCHANGED process
  BY <1>1, <1>2, <1>4, NullKeeps
<1>5. CASE /\ call[t].result.rows # 0
           /\ call' = [call EXCEPT ![t].at = 1]
           /\ go(t, "rows")
           /\ UNCHANGED process
  <2>1. PICK c \in Calls :
          Moves(t, "rows", c) /\ ProgressOf(t, "rows", c) /\ c.crossed = call[t].crossed
    BY <1>1, <1>5, FirstRow
  <2>2. "rows" \in Places /\ ~ InQueryAt("rows")
    BY DEF Places, InQueryAt
  <2> QED
    BY <1>1, <1>2, <1>5, <2>1, <2>2, MoveKeeps
<1> QED
  BY <1>3, <1>4, <1>5 DEF FieldCount

(* The caller's loop: what the thread has seen, and where it goes.         *)
LEMMA RowsFacts ==
  ASSUME Inv, NEW t \in Threads, pc[t] = "rows"
  PROVE  /\ call[t] \in Calls /\ call[t].result.rows \in 0 .. MaxRows
         /\ call[t].at \in 1 .. call[t].result.rows
         /\ seen(t) = 1 .. call[t].at
         /\ call[t].stmt \in Statements(t) /\ call[t].answer = "none"
<1>1. call[t] \in Calls /\ call[t].result.rows \in 0 .. MaxRows
  BY CallTyped DEF Results
<1>2. ProgressOf(t, "rows", call[t])
  BY DEF Inv, Progress
<1>3. /\ call[t].at > 0 /\ call[t].at \in 0 .. call[t].result.rows
      /\ call[t].visited = 1 .. (call[t].at - 1)
      /\ call[t].stmt \in Statements(t) /\ call[t].answer = "none"
  BY <1>2 DEF ProgressOf
<1>4. call[t].at \in 1 .. call[t].result.rows
  BY <1>1, <1>3, RowsAssumption
<1>5. seen(t) = 1 .. call[t].at
  BY <1>1, <1>3, <1>4, RowsAssumption DEF seen
<1> QED
  BY <1>1, <1>3, <1>4, <1>5

LEMMA DoneMoves ==
  ASSUME Inv, NEW t \in Threads, pc[t] = "rows", done(t)
  PROVE  \E c \in Calls :
           /\ Moves(t, "idle", c) /\ ProgressOf(t, "idle", c)
           /\ c.stmt = call[t].stmt /\ c.held = call[t].held /\ c.result = call[t].result
           /\ c.answer = "rows" /\ c.visited = 1 .. call[t].at /\ c.crossed = call[t].crossed
<1>1. /\ call[t] \in Calls /\ call[t].result.rows \in 0 .. MaxRows
      /\ call[t].at \in 1 .. call[t].result.rows
      /\ seen(t) = 1 .. call[t].at /\ call[t].stmt \in Statements(t)
  BY RowsFacts
<1>2. /\ seen(t) \in SUBSET (1 .. MaxRows) /\ seen(t) \subseteq 1 .. call[t].result.rows
      /\ call[t].at \in 0 .. call[t].result.rows
  BY <1>1, RowsAssumption
<1> DEFINE c == [call[t] EXCEPT !.answer = "rows", !.visited = seen(t)]
<1>3. /\ c \in Calls /\ c.stmt = call[t].stmt /\ c.held = call[t].held
      /\ c.result = call[t].result /\ c.answer = "rows" /\ c.visited = seen(t)
      /\ c.at = call[t].at /\ c.crossed = call[t].crossed
  BY <1>1, <1>2 DEF Calls
<1>4. Moves(t, "idle", c)
  BY DEF done, go, Moves
<1> HIDE DEF c
<1>5. ProgressOf(t, "idle", c)
  BY <1>1, <1>2, <1>3 DEF ProgressOf, InQueryAt
<1> QED
  BY <1>1, <1>3, <1>4, <1>5

LEMMA NextMoves ==
  ASSUME Inv, NEW t \in Threads, pc[t] = "rows", call[t].at < call[t].result.rows,
         call' = [call EXCEPT ![t] = [@ EXCEPT !.at = call[t].at + 1, !.visited = seen(t)]],
         UNCHANGED pc
  PROVE  \E c \in Calls :
           /\ Moves(t, "rows", c) /\ ProgressOf(t, "rows", c)
           /\ c.stmt = call[t].stmt /\ c.held = call[t].held /\ c.result = call[t].result
           /\ c.answer = "none" /\ c.crossed = call[t].crossed
<1>1. /\ call[t] \in Calls /\ call[t].result.rows \in 0 .. MaxRows
      /\ call[t].at \in 1 .. call[t].result.rows
      /\ seen(t) = 1 .. call[t].at
      /\ call[t].stmt \in Statements(t) /\ call[t].answer = "none"
  BY RowsFacts
<1> DEFINE next == call[t].at + 1
           c == [call[t] EXCEPT !.at = next, !.visited = seen(t)]
<1>2. /\ next \in 0 .. call[t].result.rows /\ next \in 0 .. MaxRows /\ next > 0
      /\ next - 1 = call[t].at
      /\ seen(t) \in SUBSET (1 .. MaxRows) /\ seen(t) \subseteq 1 .. call[t].result.rows
  BY <1>1, RowsAssumption
<1>3. call' = [call EXCEPT ![t] = c]
  OBVIOUS
<1> HIDE DEF next
<1>4. /\ c \in Calls /\ c.stmt = call[t].stmt /\ c.held = call[t].held
      /\ c.result = call[t].result /\ c.answer = call[t].answer /\ c.visited = seen(t)
      /\ c.at = next /\ c.crossed = call[t].crossed
  BY <1>1, <1>2 DEF Calls
<1>5. Moves(t, "rows", c)
  <2>1. pc' = [pc EXCEPT ![t] = "rows"]
    BY CallTyped
  <2> QED
    BY <1>3, <2>1 DEF Moves
<1> HIDE DEF c
<1>6. ProgressOf(t, "rows", c)
  BY <1>1, <1>2, <1>4 DEF ProgressOf, InQueryAt
<1> QED
  BY <1>1, <1>4, <1>5, <1>6

LEMMA FetchKeeps ==
  ASSUME Inv, NEW t \in Threads, FetchAccount(t) \/ FetchNext(t)
  PROVE  Inv'
<1>1. pc[t] = "rows" /\ UNCHANGED <<m_handler, mysql, wire, started, process, raced>>
  BY DEF FetchAccount, FetchNext, At
<1>2. mysql' \in Handles /\ wire' \in Seq(Replies) /\ raced' \in BOOLEAN
  BY <1>1, CallTyped
<1>3. "rows" \in Places /\ "idle" \in Places /\ ~ InQueryAt("rows") /\ ~ InQueryAt("idle")
  BY DEF Places, InQueryAt
<1>4. CASE done(t)
  <2>1. PICK c \in Calls :
          Moves(t, "idle", c) /\ ProgressOf(t, "idle", c) /\ c.crossed = call[t].crossed
    BY <1>1, <1>4, DoneMoves
  <2> QED
    BY <1>1, <1>2, <1>3, <2>1, MoveKeeps
<1>5. CASE /\ call[t].at < call[t].result.rows
           /\ call' = [call EXCEPT ![t] = [@ EXCEPT !.at = call[t].at + 1, !.visited = seen(t)]]
           /\ UNCHANGED pc
  <2>1. PICK c \in Calls :
          Moves(t, "rows", c) /\ ProgressOf(t, "rows", c) /\ c.crossed = call[t].crossed
    BY <1>1, <1>5, NextMoves
  <2> QED
    BY <1>1, <1>2, <1>3, <2>1, MoveKeeps
<1> QED
  BY <1>4, <1>5 DEF FetchAccount, FetchNext

(* Closing the handle stops nobody, and touches neither what it keeps nor  *)
(* a call.                                                                 *)
LEMMA CloseKeeps ==
  ASSUME Inv, Close \/ CloseReturns
  PROVE  Inv'
<1>1. /\ pc["main"] \in {"idle", "closing"} /\ pc'["main"] \in {"closing", "closed"}
      /\ pc' \in [Threads -> Places]
      /\ \A u \in Threads : u # "main" => pc'[u] = pc[u]
      /\ m_handler' \in {"freed", "null", m_handler}
      /\ UNCHANGED <<mysql, wire, call, started, process, raced>>
  BY DEF Close, CloseReturns, At, go, Inv, TypeOK, Threads, Places
<1>2. \A u \in Threads : InQuery(u)' => InQuery(u) /\ u # "main"
  BY <1>1 DEF InQuery, Inside
<1>3. TypeOK'
  BY <1>1 DEF Inv, TypeOK
<1>4. Progress'
  <2>1. ASSUME NEW u \in Threads
        PROVE  ProgressOf(u, pc'[u], call[u])
    <3>1. ProgressOf(u, pc[u], call[u])
      BY DEF Inv, Progress
    <3> QED
      BY <1>1, <3>1 DEF ProgressOf, InQueryAt
  <2> QED
    BY <1>1, <2>1 DEF Progress
<1>5. Crossing'
  BY <1>1, <1>2 DEF Inv, Crossing
<1>6. Closing'
  BY DEF Close, CloseReturns, At, go, Inv, TypeOK, Threads, Closing
<1> QED
  BY <1>3, <1>4, <1>5, <1>6 DEF Inv

LEMMA StepKeeps == Inv /\ [Next]_vars => Inv'
<1> SUFFICES ASSUME Inv, [Next]_vars PROVE Inv'
  OBVIOUS
<1>1. ASSUME NEW t \in Threads, query(t) PROVE Inv'
  BY <1>1, EnterKeeps, FailureKeeps, QueryKeeps, GoOnKeeps, StoreRowsKeeps, MisreadKeeps,
     AffectedRowsKeeps, FieldCountKeeps DEF query
<1>2. ASSUME NEW t \in Threads, FetchAccount(t) \/ FetchNext(t) PROVE Inv'
  BY <1>2, FetchKeeps
<1>3. ASSUME NEW t \in Threads, UsedAfterClose(t) PROVE Inv'
  BY <1>3, UndefinedKeeps DEF UsedAfterClose
<1>4. CASE ReadTogether
  BY <1>4, UndefinedKeeps DEF ReadTogether
<1>5. CASE Close \/ CloseReturns
  BY <1>5, CloseKeeps
<1>6. CASE UNCHANGED vars
  BY <1>6 DEF vars, Inv, TypeOK, Progress, Crossing, Closing, InQuery, Inside
<1> QED
  BY <1>1, <1>2, <1>3, <1>4, <1>5, <1>6 DEF Next

LEMMA InvAlways == Spec => []Inv
BY InitInv, StepKeeps, PTL DEF Spec

(* Handle, connection and calls keep their types, whatever the two threads *)
(* do inside the library; a caller never looks at a row beyond its result  *)
(* (ResultSet::next_row, Connection::query).                               *)
THEOREM TypeCorrect == Spec => []TypeOK
<1>1. Inv => TypeOK
  BY DEF Inv
<1> QED
  BY <1>1, InvAlways, PTL

-------------------------------------------------------------------------------
(* As long as the threads are not inside the library together.             *)

LEMMA OneReply ==
  ASSUME NEW c, NEW part
  PROVE  /\ Head(<<reply(c, part)>>) = reply(c, part)
         /\ <<reply(c, part)>> # <<>>
         /\ Tail(<<reply(c, part)>>) = <<>>
         /\ Append(<<>>, reply(c, part)) = <<reply(c, part)>>
         /\ [<<reply(c, part)>> EXCEPT ![1].part = "rows"] = <<reply(c, "rows")>>
         /\ reply(c, part).stmt = c.stmt /\ reply(c, part).rows = c.held
         /\ reply(c, part).part = part
<1>1. [reply(c, part) EXCEPT !.part = "rows"] = reply(c, "rows")
  BY DEF reply
<1>2. reply(c, part).stmt = c.stmt /\ reply(c, part).rows = c.held /\ reply(c, part).part = part
  BY DEF reply
<1> DEFINE r == reply(c, part)
<1>3. [<<r>> EXCEPT ![1].part = "rows"] = <<[r EXCEPT !.part = "rows"]>>
  OBVIOUS
<1>4. Head(<<r>>) = r /\ <<r>> # <<>> /\ Tail(<<r>>) = <<>> /\ Append(<<>>, r) = <<r>>
  OBVIOUS
<1> QED
  BY <1>1, <1>2, <1>3, <1>4

LEMMA InitOrder == Init => Order
<1> SUFFICES ASSUME Init PROVE Order
  OBVIOUS
<1>1. \A t \in Threads : pc[t] = "idle" /\ call[t] = NoCall
  BY DEF Init
<1>2. /\ NoCall.result.stmt = "none" /\ NoCall.stmt = "none" /\ NoCall.answer = "none"
  BY DEF NoCall, NoResult
<1>3. \A t \in Threads : Found("idle", NoCall)
  BY <1>2 DEF Found
<1> QED
  BY <1>1, <1>3 DEF Init, Order, Waits, Alone, Holds

(* To a thread that takes a step inside query, the other is at no place    *)
(* where it relies on the handle's counts; so it is enough to follow the   *)
(* one, and whose the connection is.                                       *)
LEMMA OrderKept ==
  ASSUME Inv, Order, NEW t \in Threads, NEW place, NEW c, Moves(t, place, c),
         InQuery(t) \/ UNCHANGED mysql,
         Found(place, c), Alone(place, c, mysql'), Waits(place, c, mysql', wire'),
         \/ /\ ~ Holds(place) /\ ~ Holds(pc[t])
            /\ UNCHANGED wire /\ mysql'.status = mysql.status
            /\ mysql'.field_count = mysql.field_count
         \/ /\ \A u \in Threads : u # t => ~ Holds(pc[u])
            /\ ~ Holds(place) => wire' = <<>> /\ mysql'.status = "ready"
  PROVE  Order'
<1>1. /\ pc'[t] = place /\ call'[t] = c
      /\ \A u \in Threads : u # t => pc'[u] = pc[u] /\ call'[u] = call[u]
  BY MovesFacts
<1>2. ASSUME NEW u \in Threads, NEW v \in Threads, Holds(pc'[u]), Holds(pc'[v])
      PROVE  u = v
  BY <1>1, <1>2 DEF Order
<1>3. ASSUME NEW u \in Threads
      PROVE  Waits(pc'[u], call'[u], mysql', wire')
  <2>1. CASE u = t
    BY <1>1, <2>1
  <2>2. CASE u # t /\ ~ Holds(pc[u])
    BY <1>1, <2>2 DEF Waits, Holds
  <2>3. CASE /\ u # t
             /\ UNCHANGED wire /\ mysql'.status = mysql.status
             /\ mysql'.field_count = mysql.field_count
    BY <1>1, <2>3 DEF Order, Waits
  <2> QED
    BY <2>1, <2>2, <2>3
<1>4. ASSUME NEW u \in Threads
      PROVE  Found(pc'[u], call'[u])
  BY <1>1 DEF Order
<1>5. ASSUME NEW u \in Threads
      PROVE  Alone(pc'[u], call'[u], mysql')
  <2>1. CASE u = t
    BY <1>1, <2>1
  <2>2. CASE u # t /\ UNCHANGED mysql
    BY <1>1, <2>2 DEF Order
  <2>3. CASE u # t /\ InQuery(t)
    <3>1. InQuery(u) => call[u].crossed
      BY <2>3 DEF Inv, Crossing
    <3> QED
      BY <1>1, <2>3, <3>1 DEF Alone, InQuery
  <2> QED
    BY <2>1, <2>2, <2>3
<1>6. (\A u \in Threads : ~ Holds(pc'[u])) => wire' = <<>> /\ mysql'.status = "ready"
  BY <1>1 DEF Order
<1> QED
  BY <1>2, <1>3, <1>4, <1>5, <1>6 DEF Order

(* Where nothing is to be said of handle and connection.                   *)
LEMMA Elsewhere ==
  ASSUME NEW place, ~ InQueryAt(place), NEW c, NEW handle, NEW replied
  PROVE  /\ Waits(place, c, handle, replied) /\ Alone(place, c, handle)
         /\ ~ Holds(place)
BY DEF InQueryAt, Waits, Alone, Holds

(* query returns nullptr: what was found must account for it.              *)
LEMMA NullOrder ==
  ASSUME Inv, Order, NEW t \in Threads, NEW f \in BOOLEAN, null(t, f), InQuery(t),
         call[t].held # 0 => f \/ call[t].crossed,
         \/ /\ ~ Holds(pc[t])
            /\ UNCHANGED wire /\ mysql'.status = mysql.status
            /\ mysql'.field_count = mysql.field_count
         \/ /\ \A u \in Threads : u # t => ~ Holds(pc[u])
            /\ wire' = <<>> /\ mysql'.status = "ready"
  PROVE  Order'
<1>1. PICK c \in Calls :
        /\ Moves(t, "idle", c)
        /\ c.stmt = call[t].stmt /\ c.held = call[t].held /\ c.result = call[t].result
        /\ c.answer = "null" /\ c.failed = f /\ c.crossed = call[t].crossed
  BY NullMoves
<1>2. Found(pc[t], call[t])
  BY DEF Order
<1>3. Found("idle", c)
  BY <1>1, <1>2 DEF Found
<1>4. /\ Waits("idle", c, mysql', wire') /\ Alone("idle", c, mysql') /\ ~ Holds("idle")
  BY Elsewhere DEF InQueryAt
<1> QED
  BY <1>1, <1>3, <1>4, OrderKept

(* The place of the one thread that the connection belongs to.             *)
LEMMA HolderFacts ==
  ASSUME Inv, Order, NEW t \in Threads, Holds(pc[t])
  PROVE  /\ \A u \in Threads : u # t => ~ Holds(pc[u])
         /\ pc[t] = "reply" => /\ mysql.status = "ready" /\ Tail(wire) = <<>>
                               /\ wire # <<>>
                               /\ Head(wire).part \in {"columns", "error"}
                               /\ Head(wire).stmt = call[t].stmt
                               /\ Head(wire).rows = call[t].held
                               /\ [wire EXCEPT ![1].part = "rows"] = <<reply(call[t], "rows")>>
         /\ pc[t] \in {"store", "read"} =>
              /\ wire = <<reply(call[t], "rows")>> /\ Tail(wire) = <<>>
              /\ wire # <<>>
              /\ Head(wire).part = "rows"
              /\ Head(wire).stmt = call[t].stmt
              /\ Head(wire).rows = call[t].held
              /\ mysql.field_count = columns(call[t].stmt)
         /\ pc[t] = "store" => mysql.status = "get_result"
         /\ pc[t] = "read" => mysql.status = "ready"
<1>1. Waits(pc[t], call[t], mysql, wire) /\ \A u \in Threads : u # t => ~ Holds(pc[u])
  BY DEF Order
<1>2. ASSUME pc[t] = "reply"
      PROVE  /\ mysql.status = "ready" /\ Tail(wire) = <<>>
             /\ wire # <<>>
             /\ Head(wire).part \in {"columns", "error"}
             /\ Head(wire).stmt = call[t].stmt
             /\ Head(wire).rows = call[t].held
             /\ [wire EXCEPT ![1].part = "rows"] = <<reply(call[t], "rows")>>
  <2>1. mysql.status = "ready"
    BY <1>1, <1>2 DEF Waits
  <2>2. PICK part \in {"columns", "error"} : wire = <<reply(call[t], part)>>
    BY <1>1, <1>2 DEF Waits
  <2> QED
    BY <2>1, <2>2, OneReply
<1>3. ASSUME pc[t] \in {"store", "read"}
      PROVE  /\ wire = <<reply(call[t], "rows")>> /\ Tail(wire) = <<>>
             /\ wire # <<>>
             /\ Head(wire).part = "rows"
             /\ Head(wire).stmt = call[t].stmt
             /\ Head(wire).rows = call[t].held
             /\ mysql.field_count = columns(call[t].stmt)
  <2>1. wire = <<reply(call[t], "rows")>> /\ mysql.field_count = columns(call[t].stmt)
    BY <1>1, <1>3 DEF Waits
  <2>2. /\ Head(<<reply(call[t], "rows")>>) = reply(call[t], "rows")
        /\ <<reply(call[t], "rows")>> # <<>>
        /\ Tail(<<reply(call[t], "rows")>>) = <<>>
    BY OneReply, Zenon
  <2>3. /\ reply(call[t], "rows").stmt = call[t].stmt
        /\ reply(call[t], "rows").rows = call[t].held
        /\ reply(call[t], "rows").part = "rows"
    BY OneReply, Zenon
  <2>4. /\ Head(wire) = reply(call[t], "rows") /\ wire # <<>> /\ Tail(wire) = <<>>
    BY <2>1, <2>2, Zenon
  <2> QED
    BY <2>1, <2>3, <2>4, Zenon
<1>4. /\ pc[t] = "store" => mysql.status = "get_result"
      /\ pc[t] = "read" => mysql.status = "ready"
  BY <1>1 DEF Waits
<1> QED
  BY <1>1, <1>2, <1>3, <1>4

(* A thread that can begin a statement finds the connection empty.         *)
LEMMA FreeHandle ==
  ASSUME Inv, Order, NEW t \in Threads, pc[t] = "query", mysql.status = "ready",
         begin(t), ~ raced'
  PROVE  wire = <<>> /\ \A u \in Threads : ~ Holds(pc[u])
<1>1. ASSUME NEW u \in Threads, Holds(pc[u])
      PROVE  FALSE
  <2>1. u # t
    BY <1>1 DEF Holds
  <2>2. pc[u] \notin {"reply", "read"}
    BY <2>1 DEF begin, Inside
  <2>3. pc[u] = "store"
    BY <1>1, <2>2 DEF Holds
  <2> QED
    BY <1>1, <2>3, HolderFacts
<1>2. \A u \in Threads : ~ Holds(pc[u])
  BY <1>1
<1> QED
  BY <1>2 DEF Order

LEMMA FailureOrder ==
  ASSUME Inv, Order, ~ raced', NEW t \in Threads,
         \/ QueryRefused(t) \/ QueryFails(t) \/ QueryError(t)
         \/ StoreFails(t) \/ ConnectionLost(t)
  PROVE  Order'
<1>1. CASE QueryRefused(t)
  <2>1. pc[t] = "query" /\ null(t, FALSE) /\ mysql.status # "ready" /\ UNCHANGED <<mysql, wire>>
    BY <1>1 DEF QueryRefused, At
  <2>2. PICK u \in Threads : Holds(pc[u])
    BY <2>1 DEF Order
  <2>3. call[t].crossed
    BY <2>1, <2>2 DEF Inv, Crossing, InQuery, Inside, Holds
  <2> QED
    BY <2>1, <2>3, NullOrder DEF Holds, InQuery
<1>2. CASE QueryFails(t)
  <2>1. /\ pc[t] = "query" /\ null(t, TRUE) /\ mysql.status = "ready" /\ begin(t)
        /\ wire' = <<>> /\ reset(TRUE)
    BY <1>2 DEF QueryFails, At
  <2>2. \A u \in Threads : ~ Holds(pc[u])
    BY <2>1, FreeHandle
  <2>3. mysql'.status = "ready"
    BY <2>1, CallTyped DEF reset, Handles
  <2> QED
    BY <2>1, <2>2, <2>3, NullOrder DEF InQuery
<1>3. CASE QueryError(t) \/ StoreFails(t)
  <2>1. /\ pc[t] \in {"reply", "read"} /\ null(t, TRUE)
        /\ wire' = Tail(wire) /\ UNCHANGED mysql
    BY <1>3 DEF QueryError, StoreFails, At
  <2>2. Holds(pc[t]) /\ InQuery(t)
    BY <2>1 DEF Holds, InQuery, Inside
  <2>3. /\ \A u \in Threads : u # t => ~ Holds(pc[u])
        /\ Tail(wire) = <<>> /\ mysql.status = "ready"
    BY <2>1, <2>2, HolderFacts
  <2> QED
    BY <2>1, <2>2, <2>3, NullOrder
<1>4. CASE ConnectionLost(t)
  <2>1. /\ pc[t] \in {"reply", "read"} /\ null(t, TRUE) /\ wire' = <<>>
        /\ mysql' = [mysql EXCEPT !.lost = TRUE]
    BY <1>4 DEF ConnectionLost, Inside
  <2>2. Holds(pc[t]) /\ InQuery(t)
    BY <2>1 DEF Holds, InQuery, Inside
  <2>3. (\A u \in Threads : u # t => ~ Holds(pc[u])) /\ mysql.status = "ready"
    BY <2>1, <2>2, HolderFacts
  <2>4. mysql'.status = "ready"
    BY <2>1, <2>3, CallTyped DEF Handles
  <2> QED
    BY <2>1, <2>2, <2>3, <2>4, NullOrder
<1> QED
  BY <1>1, <1>2, <1>3, <1>4

LEMMA QueryOrder ==
  ASSUME Inv, Order, ~ raced', NEW t \in Threads, Query(t)
  PROVE  Order'
<1>1. PICK r \in replies(call[t].stmt) :
        wire' = Append(wire, r) /\ call' = [call EXCEPT ![t].held = r.rows]
  BY DEF Query
<1>2. /\ pc[t] = "query" /\ pc' = [pc EXCEPT ![t] = "reply"] /\ InQuery(t)
      /\ mysql.status = "ready" /\ begin(t)
  BY DEF Query, At, go, InQuery
<1>3. wire = <<>> /\ \A u \in Threads : ~ Holds(pc[u])
  BY <1>2, FreeHandle
<1>4. call[t] \in Calls /\ ProgressOf(t, "query", call[t]) /\ Found("query", call[t])
  BY <1>2, CallTyped DEF Inv, Progress, Order
<1>5. /\ call[t].stmt \in AllStatements
      /\ call[t].answer = "none"
  BY <1>4, StatementKinds DEF ProgressOf, InQueryAt
<1>6. /\ r \in Replies /\ r.stmt = call[t].stmt /\ r.part \in {"columns", "error"}
      /\ r.rows \in 0 .. Unknown
      /\ call[t].stmt = "account" => r.rows \in {0, 1}
  BY <1>5, Answers, Bounds
<1> DEFINE c == [call[t] EXCEPT !.held = r.rows]
<1>7. /\ c.stmt = call[t].stmt /\ c.result = call[t].result /\ c.held = r.rows
      /\ c.answer = call[t].answer
  BY <1>4 DEF Calls
<1>8. Moves(t, "reply", c)
  BY <1>1, <1>2 DEF Moves
<1>9. mysql'.status = "ready"
  BY <1>2, CallTyped DEF Query, reset, Handles
<1> HIDE DEF c
<1>10. r = reply(c, r.part)
  BY <1>6, <1>7 DEF Replies, reply
<1>11. wire' = <<reply(c, r.part)>>
  BY <1>1, <1>3, <1>10, OneReply
<1>12. wire' \in {<<reply(c, "columns")>>, <<reply(c, "error")>>}
  BY <1>6, <1>11
<1>13. Waits("reply", c, mysql', wire')
  BY <1>9, <1>12 DEF Waits
<1>14. Found("reply", c) /\ Alone("reply", c, mysql') /\ Holds("reply")
  BY <1>4, <1>5, <1>6, <1>7 DEF Found, Alone, Holds
<1> QED
  BY <1>2, <1>3, <1>8, <1>13, <1>14, OrderKept

LEMMA QueryReplyOrder ==
  ASSUME Inv, Order, NEW t \in Threads, QueryReply(t)
  PROVE  Order'
<1>1. /\ pc[t] = "reply" /\ go(t, "store") /\ UNCHANGED call
      /\ wire' = [wire EXCEPT ![1].part = "rows"]
      /\ mysql' = [mysql EXCEPT !.status = "get_result",
                                !.field_count = columns(Head(wire).stmt)]
  BY DEF QueryReply, At
<1>2. Holds(pc[t]) /\ InQuery(t) /\ Holds("store")
  BY <1>1 DEF Holds, InQuery, Inside
<1>3. /\ \A u \in Threads : u # t => ~ Holds(pc[u])
      /\ Head(wire).stmt = call[t].stmt
      /\ wire' = <<reply(call[t], "rows")>>
  BY <1>1, <1>2, HolderFacts
<1>4. mysql'.status = "get_result" /\ mysql'.field_count = columns(call[t].stmt)
  BY <1>1, <1>3, CallTyped DEF Handles
<1>5. PICK c : c = call[t]
  OBVIOUS
<1>6. Moves(t, "store", c) /\ Found("reply", c)
  BY <1>1, <1>5, GoMoves DEF Order
<1>7. Waits("store", c, mysql', wire')
  BY <1>3, <1>4, <1>5 DEF Waits
<1>8. Found("store", c) /\ Alone("store", c, mysql')
  BY <1>6 DEF Found, Alone
<1> QED
  BY <1>2, <1>3, <1>6, <1>7, <1>8, OrderKept

LEMMA StoreResultOrder ==
  ASSUME Inv, Order, NEW t \in Threads, StoreResult(t)
  PROVE  Order'
<1>1. /\ pc[t] = "store" /\ go(t, "read") /\ UNCHANGED <<call, wire>> /\ mysql' = taken
  BY DEF StoreResult, At
<1>2. Holds(pc[t]) /\ InQuery(t) /\ Holds("read")
  BY <1>1 DEF Holds, InQuery
<1>3. /\ \A u \in Threads : u # t => ~ Holds(pc[u])
      /\ wire = <<reply(call[t], "rows")>>
      /\ mysql.field_count = columns(call[t].stmt)
  BY <1>1, <1>2, HolderFacts
<1>4. mysql'.status = "ready" /\ mysql'.field_count = columns(call[t].stmt)
  BY <1>1, <1>3, CallTyped DEF Handles, taken
<1>5. PICK c : c = call[t]
  OBVIOUS
<1>6. Moves(t, "read", c) /\ Found("store", c)
  BY <1>1, <1>5, GoMoves DEF Order
<1>7. Waits("read", c, mysql', wire')
  BY <1>1, <1>3, <1>4, <1>5 DEF Waits
<1>8. Found("read", c) /\ Alone("read", c, mysql')
  BY <1>6 DEF Found, Alone
<1> QED
  BY <1>2, <1>3, <1>6, <1>7, <1>8, OrderKept

LEMMA StoreRowsOrder ==
  ASSUME Inv, Order, NEW t \in Threads, StoreRows(t)
  PROVE  Order'
<1>1. /\ pc[t] = "read" /\ pc' = [pc EXCEPT ![t] = "affected"] /\ wire' = Tail(wire)
      /\ mysql' = [mysql EXCEPT !.affected = Head(wire).rows]
      /\ call' = [call EXCEPT ![t].result = [stmt |-> Head(wire).stmt, rows |-> Head(wire).rows]]
  BY DEF StoreRows, At, go
<1>2. Holds(pc[t]) /\ InQuery(t) /\ ~ Holds("affected")
  BY <1>1 DEF Holds, InQuery, Inside
<1>3. /\ \A u \in Threads : u # t => ~ Holds(pc[u])
      /\ Tail(wire) = <<>> /\ Head(wire).stmt = call[t].stmt /\ Head(wire).rows = call[t].held
      /\ mysql.field_count = columns(call[t].stmt) /\ mysql.status = "ready"
  BY <1>1, <1>2, HolderFacts
<1>4. call[t] \in Calls /\ ProgressOf(t, "read", call[t]) /\ Found("read", call[t])
  BY <1>1, CallTyped DEF Inv, Progress, Order
<1>5. call[t].answer = "none"
  BY <1>4 DEF ProgressOf, InQueryAt
<1> DEFINE got == [stmt |-> call[t].stmt, rows |-> call[t].held]
           c == [call[t] EXCEPT !.result = got]
<1>6. call' = [call EXCEPT ![t] = c]
  BY <1>1, <1>3
<1>7. got.stmt = call[t].stmt
  OBVIOUS
<1>8. /\ c.stmt = call[t].stmt /\ c.held = call[t].held /\ c.result = got
      /\ c.answer = call[t].answer /\ c.crossed = call[t].crossed
  BY <1>4 DEF Calls
<1>9. got = [stmt |-> c.stmt, rows |-> c.held]
  BY <1>8
<1> HIDE DEF got, c
<1>10. Found("affected", c)
  BY <1>4, <1>5, <1>7, <1>8, <1>9 DEF Found
<1>11. /\ mysql'.status = "ready" /\ mysql'.field_count = columns(c.stmt)
       /\ mysql'.affected = c.held
  BY <1>1, <1>3, <1>8, CallTyped DEF Handles
<1>12. Alone("affected", c, mysql') /\ Waits("affected", c, mysql', wire')
  BY <1>11 DEF Alone, Waits
<1>13. Moves(t, "affected", c)
  BY <1>1, <1>6 DEF Moves
<1> QED
  BY <1>1, <1>2, <1>3, <1>10, <1>11, <1>12, <1>13, OrderKept

(* Nothing is misread.                                                     *)
LEMMA MisreadOrder ==
  ASSUME Inv, Order, NEW t \in Threads, Misread(t)
  PROVE  FALSE
<1>1. CASE pc[t] = "reply" /\ comes("rows")
  BY <1>1, HolderFacts DEF Holds, comes
<1>2. CASE pc[t] = "read" /\ (comes("columns") \/ comes("error"))
  BY <1>2, HolderFacts DEF Holds, comes
<1>3. CASE pc[t] = "read" /\ columns(Head(wire).stmt) # mysql.field_count
  BY <1>3, HolderFacts DEF Holds
<1> QED
  BY <1>1, <1>2, <1>3 DEF Misread, At

LEMMA AffectedRowsOrder ==
  ASSUME Inv, Order, NEW t \in Threads, AffectedRows(t)
  PROVE  Order'
<1>1. pc[t] = "affected" /\ UNCHANGED <<mysql, wire>> /\ InQuery(t) /\ ~ Holds(pc[t])
  BY DEF AffectedRows, At, InQuery, Holds
<1>2. Found("affected", call[t]) /\ Alone("affected", call[t], mysql)
  BY <1>1 DEF Order
<1>3. CASE no_rows /\ null(t, FALSE)
  <2>1. call[t].held # 0 => call[t].crossed
    BY <1>2, <1>3 DEF Alone, no_rows
  <2> QED
    BY <1>1, <1>3, <2>1, NullOrder
<1>4. CASE go(t, "field_count") /\ UNCHANGED call
  <2>1. PICK c : c = call[t]
    OBVIOUS
  <2>2. Moves(t, "field_count", c)
    BY <1>4, <2>1, GoMoves
  <2>3. Found("field_count", c) /\ Alone("field_count", c, mysql')
    BY <1>1, <1>2, <2>1 DEF Found, Alone
  <2>4. Waits("field_count", c, mysql', wire') /\ ~ Holds("field_count")
    BY DEF Waits, Holds
  <2> QED
    BY <1>1, <2>2, <2>3, <2>4, OrderKept
<1> QED
  BY <1>3, <1>4 DEF AffectedRows

LEMMA FieldCountOrder ==
  ASSUME Inv, Order, NEW t \in Threads, FieldCount(t)
  PROVE  Order'
<1>1. pc[t] = "field_count" /\ UNCHANGED <<mysql, wire, raced>> /\ InQuery(t) /\ ~ Holds(pc[t])
  BY DEF FieldCount, At, InQuery, Holds
<1>2. Found("field_count", call[t])
  BY <1>1 DEF Order
<1>3. call[t].result = [stmt |-> call[t].stmt, rows |-> call[t].held]
  BY <1>2 DEF Found
<1>4. CASE UNCHANGED <<pc, call>>
  BY <1>1, <1>4 DEF Order
<1>5. CASE call[t].result.rows = 0 /\ null(t, FALSE)
  <2>1. ~ (call[t].held # 0)
    BY <1>3, <1>5
  <2> QED
    BY <1>1, <1>5, <2>1, NullOrder
<1>6. CASE /\ call[t].result.rows # 0
           /\ call' = [call EXCEPT ![t].at = 1]
           /\ go(t, "rows")
  <2>1. PICK c \in Calls :
          /\ Moves(t, "rows", c) /\ ProgressOf(t, "rows", c)
          /\ c.stmt = call[t].stmt /\ c.held = call[t].held /\ c.result = call[t].result
    BY <1>1, <1>6, FirstRow
  <2>2. c.answer = "none"
    BY <2>1 DEF ProgressOf
  <2>3. Found("rows", c)
    BY <1>2, <2>1, <2>2 DEF Found
  <2>4. Waits("rows", c, mysql', wire') /\ Alone("rows", c, mysql') /\ ~ Holds("rows")
    BY Elsewhere DEF InQueryAt
  <2> QED
    BY <1>1, <2>1, <2>3, <2>4, OrderKept
<1> QED
  BY <1>4, <1>5, <1>6 DEF FieldCount

(* A caller's loop looks at every row that its statement found.            *)
LEMMA FetchOrder ==
  ASSUME Inv, Order, NEW t \in Threads, FetchAccount(t) \/ FetchNext(t)
  PROVE  Order'
<1>1. /\ pc[t] = "rows" /\ UNCHANGED <<mysql, wire, raced>> /\ ~ Holds(pc[t])
  BY DEF FetchAccount, FetchNext, At, Holds
<1>2. Found("rows", call[t])
  BY <1>1 DEF Order
<1>3. /\ call[t].result = [stmt |-> call[t].stmt, rows |-> call[t].held]
      /\ call[t].stmt = "account" => call[t].held \in {0, 1, Unknown}
  BY <1>2 DEF Found
<1>4. call[t].result.rows = call[t].held
  BY <1>3
<1>5. /\ call[t].at \in 1 .. call[t].held /\ call[t].held \in 0 .. MaxRows
      /\ call[t].answer = "none"
  BY <1>1, <1>4, RowsFacts
<1>6. CASE call[t].at = call[t].held /\ done(t)
  <2>1. PICK c \in Calls :
          /\ Moves(t, "idle", c)
          /\ c.stmt = call[t].stmt /\ c.held = call[t].held /\ c.result = call[t].result
          /\ c.answer = "rows" /\ c.visited = 1 .. call[t].at /\ c.crossed = call[t].crossed
    BY <1>1, <1>6, DoneMoves
  <2>2. c.visited = 1 .. c.held
    BY <1>6, <2>1
  <2>3. Found("idle", c)
    BY <1>2, <2>1, <2>2 DEF Found
  <2>4. Waits("idle", c, mysql', wire') /\ Alone("idle", c, mysql') /\ ~ Holds("idle")
    BY Elsewhere DEF InQueryAt
  <2> QED
    BY <1>1, <2>1, <2>3, <2>4, OrderKept
<1>7. CASE FetchAccount(t)
  <2>1. call[t].stmt = "account" /\ done(t)
    BY <1>7 DEF FetchAccount
  <2>2. call[t].held = 1
    BY <1>3, <1>5, <2>1, Bounds, RowsAssumption
  <2>3. call[t].at = call[t].held
    BY <1>5, <2>2
  <2> QED
    BY <1>6, <2>1, <2>3
<1>8. CASE FetchNext(t)
  <2>1. CASE call[t].at = call[t].result.rows /\ done(t)
    BY <1>4, <1>6, <2>1
  <2>2. CASE /\ call[t].at < call[t].result.rows
             /\ call' = [call EXCEPT ![t] = [@ EXCEPT !.at = call[t].at + 1, !.visited = seen(t)]]
             /\ UNCHANGED pc
    <3>1. PICK c \in Calls :
            /\ Moves(t, "rows", c)
            /\ c.stmt = call[t].stmt /\ c.held = call[t].held /\ c.result = call[t].result
            /\ c.answer = "none"
      BY <1>1, <2>2, NextMoves
    <3>2. Found("rows", c)
      BY <1>2, <3>1 DEF Found
    <3>3. Waits("rows", c, mysql', wire') /\ Alone("rows", c, mysql') /\ ~ Holds("rows")
      BY Elsewhere DEF InQueryAt
    <3> QED
      BY <1>1, <3>1, <3>2, <3>3, OrderKept
  <2> QED
    BY <1>8, <2>1, <2>2 DEF FetchNext
<1> QED
  BY <1>7, <1>8

LEMMA EnterOrder ==
  ASSUME Inv, Order, NEW t \in Threads, NEW stmt \in Statements(t), Enter(t, stmt)
  PROVE  Order'
<1>1. pc[t] = "idle" /\ UNCHANGED <<mysql, wire, raced>> /\ ~ Holds(pc[t]) /\ ~ Holds("query")
  BY DEF Enter, At, Holds
<1>2. call \in [Threads -> Calls] /\ pc \in [Threads -> Places]
  BY CallTyped
<1>3. NoResult.stmt = "none"
  BY DEF NoResult
<1>4. CASE no_handler
  <2>1. PICK c \in Calls :
          /\ call' = [call EXCEPT ![t] = c] /\ UNCHANGED pc
          /\ c.held = Unknown /\ c.result = NoResult /\ c.answer = "null" /\ c.failed
    BY <1>4, EnterNull
  <2>2. call'[t] = c /\ \A u \in Threads : u # t => call'[u] = call[u]
    BY <1>2, <2>1
  <2>3. Found("idle", c)
    BY <1>3, <2>1 DEF Found
  <2>4. Waits("idle", c, mysql, wire) /\ Alone("idle", c, mysql)
    BY Elsewhere DEF InQueryAt
  <2>5. \A u \in Threads : /\ Waits(pc[u], call'[u], mysql, wire)
                           /\ Found(pc[u], call'[u]) /\ Alone(pc[u], call'[u], mysql)
    BY <1>1, <2>2, <2>3, <2>4 DEF Order
  <2> QED
    BY <1>1, <2>1, <2>5 DEF Order
<1>5. CASE ~ no_handler
  <2>1. /\ pc'[t] = "query"
        /\ call'[t].held = Unknown /\ call'[t].result = NoResult /\ call'[t].answer = "none"
        /\ \A u \in Threads : u # t =>
             /\ pc'[u] = pc[u]
             /\ \/ ~ InQuery(u) /\ call'[u] = call[u]
                \/ InQuery(u) /\ call'[t].crossed /\ call'[u] = [call[u] EXCEPT !.crossed = TRUE]
    BY <1>5, EnterMoves
  <2>2. PICK d : d = call'[t]
    OBVIOUS
  <2>3. Found("query", d) /\ Waits("query", d, mysql, wire) /\ Alone("query", d, mysql)
    BY <1>3, <2>1, <2>2 DEF Found, Waits, Alone
  <2>4. ASSUME NEW u \in Threads, u # t
        PROVE  /\ Waits(pc[u], call'[u], mysql, wire)
               /\ Found(pc[u], call'[u]) /\ Alone(pc[u], call'[u], mysql)
    <3>1. /\ Waits(pc[u], call[u], mysql, wire) /\ call[u] \in Calls
          /\ Found(pc[u], call[u]) /\ Alone(pc[u], call[u], mysql)
      BY <1>2 DEF Order
    <3>2. CASE call'[u] = call[u]
      BY <3>1, <3>2
    <3>3. CASE call'[u] = [call[u] EXCEPT !.crossed = TRUE]
      <4>1. PICK e : e = call'[u]
        OBVIOUS
      <4>2. /\ e.stmt = call[u].stmt /\ e.held = call[u].held /\ e.result = call[u].result
            /\ e.visited = call[u].visited /\ e.answer = call[u].answer
            /\ e.failed = call[u].failed /\ e.crossed = TRUE
        BY <3>1, <3>3, <4>1, CrossedCall
      <4>3. \A part : reply(e, part) = reply(call[u], part)
        BY <4>2 DEF reply
      <4>4. Waits(pc[u], e, mysql, wire)
        BY <3>1, <4>2, <4>3 DEF Waits
      <4>5. Found(pc[u], e) /\ Alone(pc[u], e, mysql)
        BY <3>1, <4>2 DEF Found, Alone
      <4> QED
        BY <4>1, <4>4, <4>5
    <3> QED
      BY <2>1, <2>4, <3>2, <3>3
  <2>5. ASSUME NEW u \in Threads
        PROVE  /\ Waits(pc'[u], call'[u], mysql, wire)
               /\ Found(pc'[u], call'[u]) /\ Alone(pc'[u], call'[u], mysql)
    <3>1. CASE u = t
      BY <2>1, <2>2, <2>3, <3>1
    <3>2. CASE u # t
      BY <2>1, <2>4, <3>2
    <3> QED
      BY <3>1, <3>2
  <2>6. \A u \in Threads : Holds(pc'[u]) <=> Holds(pc[u])
    BY <1>1, <2>1
  <2> QED
    BY <1>1, <2>5, <2>6 DEF Order
<1> QED
  BY <1>4, <1>5

LEMMA CloseOrder ==
  ASSUME Inv, Order, Close \/ CloseReturns
  PROVE  Order'
<1>1. /\ pc["main"] \in {"idle", "closing"} /\ pc'["main"] \in {"closing", "closed"}
      /\ \A u \in Threads : u # "main" => pc'[u] = pc[u]
      /\ UNCHANGED <<mysql, wire, call>>
  BY DEF Close, CloseReturns, At, go, Inv, TypeOK, Threads
<1>2. \A u \in Threads : Holds(pc'[u]) <=> Holds(pc[u])
  BY <1>1 DEF Holds
<1>3. ASSUME NEW u \in Threads
      PROVE  /\ Waits(pc'[u], call[u], mysql, wire)
             /\ Found(pc'[u], call[u]) /\ Alone(pc'[u], call[u], mysql)
  <2>1. /\ Waits(pc[u], call[u], mysql, wire)
        /\ Found(pc[u], call[u]) /\ Alone(pc[u], call[u], mysql)
    BY DEF Order
  <2>2. CASE pc'[u] = pc[u]
    BY <2>1, <2>2
  <2>3. CASE pc'[u] \in {"closing", "closed"}
    BY <2>1, <2>3 DEF Waits, Found, Alone
  <2> QED
    BY <1>1, <2>2, <2>3
<1> QED
  BY <1>1, <1>2, <1>3 DEF Order

LEMMA StepOrderly == Inv /\ Orderly /\ [Next]_vars => Orderly'
<1> SUFFICES ASSUME Inv, Orderly, [Next]_vars, ~ raced' PROVE Order'
  BY DEF Orderly
<1>1. ASSUME NEW t \in Threads, query(t) \/ FetchAccount(t) \/ FetchNext(t) PROVE Order'
  <2>1. ~ raced
    BY <1>1 DEF query, Enter, QueryRefused, Query, QueryFails, QueryReply, QueryError,
       StoreResult, StoreRows, StoreFails, ConnectionLost, Misread, AffectedRows,
       FieldCount, FetchAccount, FetchNext, begin
  <2>2. Order
    BY <2>1 DEF Orderly
  <2> QED
    BY <1>1, <2>2, EnterOrder, FailureOrder, QueryOrder, QueryReplyOrder, StoreResultOrder,
       StoreRowsOrder, MisreadOrder, AffectedRowsOrder, FieldCountOrder, FetchOrder DEF query
<1>2. CASE UNCHANGED <<mysql, wire, pc, call, raced>>
  BY <1>2 DEF Orderly, Order
<1>3. CASE Close \/ CloseReturns
  BY <1>3, CloseOrder DEF Close, CloseReturns, Orderly
<1> QED
  BY <1>1, <1>2, <1>3 DEF Next, UsedAfterClose, ReadTogether, vars

(* Where each thread is, whatever the library does, and what is on the     *)
(* connection and whose it is, until the two are inside the library        *)
(* together.                                                               *)
THEOREM Invariance == Spec => [](Inv /\ Orderly)
<1>1. Init => Orderly
  BY InitOrder DEF Orderly
<1> QED
  BY <1>1, InitInv, StepKeeps, StepOrderly, PTL DEF Spec

(* No thread is given the rows of the other's statement, though nothing    *)
(* locks the handle (Connection::query) - as long as the two do not read   *)
(* from the connection at once.                                            *)
THEOREM OwnRowsAlways == Spec => []OwnRows
<1>1. Orderly => OwnRows
  BY DEF Orderly, Order, Found, OwnRows
<1> QED
  BY <1>1, Invariance, PTL

(* Whenever the handle would refuse a statement, a thread is about to take *)
(* away the result that is in the way, and that result is its own: until   *)
(* the two are inside the library together, Connection::query never leaves *)
(* the handle out of sync.                                                 *)
THEOREM HandleReleasedAlways == Spec => []HandleReleased
<1>1. Inv /\ Orderly => HandleReleased
  <2> SUFFICES ASSUME Inv, Order, mysql.status = "get_result"
               PROVE  \E t \in Threads :
                        pc[t] = "store" /\ comes("rows") /\ Head(wire).stmt = call[t].stmt
    BY DEF Orderly, HandleReleased
  <2>1. PICK t \in Threads : Holds(pc[t])
    BY DEF Order
  <2>2. pc[t] = "store"
    BY <2>1, HolderFacts DEF Holds
  <2> QED
    BY <2>1, <2>2, HolderFacts DEF comes
<1> QED
  BY <1>1, Invariance, PTL

(* A query answers nothing only if there is nothing, the database failed   *)
(* or another statement got in between, and a caller that gets rows looks  *)
(* at every one of them (Connection::query, ResultSet::next_row, and the   *)
(* loops of realmlist_handler and update_realms); until the two threads    *)
(* are inside the library together.                                        *)
THEOREM NothingIsOverlooked == Spec => []NothingOverlooked
<1>1. Orderly => NothingOverlooked
  BY DEF Orderly, Order, Found, NothingOverlooked
<1> QED
  BY <1>1, Invariance, PTL

-------------------------------------------------------------------------------
(* What can break the process.                                             *)

(* A step that breaks it is one of a thread inside query that has company, *)
(* or comes after the shutdown, or after both were inside the library.     *)
LEMMA BreakingStep ==
  ASSUME Inv, Orderly, [Next]_vars, process = "running", process' = "undefined"
  PROVE  /\ UNCHANGED pc /\ UNCHANGED call /\ UNCHANGED raced
         /\ \/ pc["main"] \in {"closing", "closed"}
            \/ \E t \in Threads : InQuery(t) /\ call[t].crossed
            \/ raced
<1>1. \/ \E t \in Threads : Misread(t) \/ FieldCount(t) \/ UsedAfterClose(t)
      \/ ReadTogether
  BY DEF Next, query, Enter, QueryRefused, Query, QueryFails, QueryReply, QueryError,
     StoreResult, StoreRows, StoreFails, ConnectionLost, AffectedRows,
     FetchAccount, FetchNext, Close, CloseReturns, vars
<1>2. ASSUME NEW t \in Threads, Misread(t)
      PROVE  UNCHANGED <<pc, call, raced>> /\ raced
  <2>1. UNCHANGED <<pc, call, raced>>
    BY <1>2 DEF Misread
  <2>2. raced
    BY <1>2, MisreadOrder DEF Orderly
  <2> QED
    BY <2>1, <2>2
<1>3. ASSUME NEW t \in Threads, FieldCount(t), ~ raced
      PROVE  UNCHANGED <<pc, call, raced>> /\ InQuery(t) /\ call[t].crossed
  <2>1. /\ pc[t] = "field_count" /\ UNCHANGED <<pc, call, raced>>
        /\ \/ mysql.field_count > columns(call[t].result.stmt)
           \/ mysql.field_count < columns(call[t].stmt)
    BY <1>3 DEF FieldCount, At
  <2>2. Found("field_count", call[t]) /\ Alone("field_count", call[t], mysql)
    BY <1>3, <2>1 DEF Orderly, Order
  <2>3. columns(call[t].result.stmt) = columns(call[t].stmt)
    BY <2>2 DEF Found
  <2>4. mysql.field_count # columns(call[t].stmt)
    BY <2>1, <2>3, ColumnCounts
  <2> QED
    BY <2>1, <2>2, <2>4 DEF Alone, InQuery
<1>4. ASSUME NEW t \in Threads, FieldCount(t)
      PROVE  UNCHANGED <<pc, call, raced>>
  BY <1>4 DEF FieldCount
<1>5. ASSUME NEW t \in Threads, UsedAfterClose(t)
      PROVE  UNCHANGED <<pc, call, raced>> /\ pc["main"] \in {"closing", "closed"}
  <2>1. InQuery(t) /\ m_handler \in {"freed", "null"} /\ UNCHANGED <<pc, call, raced>>
    BY <1>5 DEF UsedAfterClose, Inv, TypeOK
  <2> QED
    BY <2>1 DEF Inv, Closing
<1>6. CASE ReadTogether
  <2>1. /\ "main" \in Threads /\ "network" \in Threads
        /\ InQuery("main") /\ InQuery("network") /\ UNCHANGED <<pc, call, raced>>
    BY <1>6 DEF ReadTogether, Threads, InQuery
  <2>2. call["main"].crossed
    BY <2>1 DEF Inv, Crossing
  <2> QED
    BY <2>1, <2>2
<1> QED
  BY <1>1, <1>2, <1>3, <1>4, <1>5, <1>6

(* Only two threads inside query, or the shutdown, can break the process   *)
(* (Connection::query, Connection::close) - or that both were inside the   *)
(* library before, which the connection may not recover from.              *)
THEOREM UndefinedOnlyByTwoThreads == Spec => []UndefinedOnlyByTwo
<1>1. Init => UndefinedOnlyByTwo
  BY DEF Init, UndefinedOnlyByTwo
<1>2. Inv /\ Orderly /\ [Next]_vars /\ UndefinedOnlyByTwo => UndefinedOnlyByTwo'
  <2> SUFFICES ASSUME Inv, Orderly, [Next]_vars, UndefinedOnlyByTwo, process' = "undefined"
               PROVE  \/ pc'["main"] \in {"closing", "closed"}
                      \/ \E t \in Threads : InQuery(t)' /\ call'[t].crossed
                      \/ raced'
    BY DEF UndefinedOnlyByTwo
  <2>1. /\ UNCHANGED <<pc, call, raced>>
        /\ \/ pc["main"] \in {"closing", "closed"}
           \/ \E t \in Threads : InQuery(t) /\ call[t].crossed
           \/ raced
    <3>1. CASE process = "running"
      BY <3>1, BreakingStep
    <3>2. CASE process # "running"
      <4>1. UNCHANGED vars
        BY <3>2 DEF Next, query, Enter, QueryRefused, Query, QueryFails, QueryReply, QueryError,
           StoreResult, StoreRows, StoreFails, ConnectionLost, Misread,
           AffectedRows, FieldCount, FetchAccount, FetchNext, UsedAfterClose, ReadTogether,
           Close, CloseReturns, At
      <4>2. process = "undefined"
        BY <3>2 DEF Inv, TypeOK
      <4> QED
        BY <4>1, <4>2 DEF vars, UndefinedOnlyByTwo
    <3> QED
      BY <3>1, <3>2
  <2> QED
    BY <2>1 DEF InQuery, Inside
<1> QED
  BY <1>1, <1>2, Invariance, PTL DEF Spec

=============================================================================

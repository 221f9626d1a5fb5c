------------------------------- MODULE Database -------------------------------
(***************************************************************************)
(* Database::Connection and Database::ResultSet as the authentication      *)
(* server uses them: the main thread (realm list, shutdown) and the        *)
(* network thread (account lookup, character counts) query over one MYSQL  *)
(* handle, and nothing locks it.                                           *)
(*                                                                         *)
(* A step is what one thread does with the handle at one moment.  The two  *)
(* calls that talk to the server take two: mysql_query sends its statement *)
(* and then waits for the reply, mysql_store_result gives up the handle's  *)
(* claim on the rows and then reads them off the connection.  In between   *)
(* the other thread goes on, and may be inside the library as well; which  *)
(* of the two reads which reply is then open, and so is what becomes of    *)
(* the library's buffer.                                                   *)
(***************************************************************************)
EXTENDS Naturals, Sequences

CONSTANTS
  MaxRows,          \* rows of a result
  MaxStatements     \* bound: statements of one thread

ASSUME RowsAssumption == MaxRows \in Nat \ {0}
ASSUME StatementsAssumption == MaxStatements \in Nat

VARIABLES
  m_handler,     \* "open", "freed" (closed, but not null yet) or "null"
  mysql,         \* what the library keeps in the handle
  wire,          \* the replies on the connection, each with the part to be read next
  pc,            \* the next step of each thread inside query, or "rows" in the
                 \* caller's loop, "idle", and "closing" or "closed" for main
  call,          \* the statement a thread is busy with, or was last
  started,       \* how many statements a thread has begun
  process,       \* "running" or "undefined"
  raced          \* history: a thread began to talk to the server while the other
                 \* was reading

vars == <<m_handler, mysql, wire, pc, call, started, process, raced>>

Threads == {"main", "network"}
Statements(t) == IF t = "main" THEN {"realmlist"} ELSE {"account", "characters"}
AllStatements == UNION {Statements(t) : t \in Threads}

(* Columns selected; the callers use every one of them.                    *)
columns(stmt) == CASE stmt = "realmlist" -> 11 [] stmt = "account" -> 4 [] OTHER -> 2

(* Usernames are unique.                                                   *)
possible_rows(stmt) == IF stmt = "account" THEN 0 .. 1 ELSE 0 .. MaxRows

Unknown == MaxRows + 1      \* (my_ulonglong)-1, and rows nobody has heard of
NoResult == [stmt |-> "none", rows |-> 0]
NoCall == [stmt |-> "none", held |-> Unknown, result |-> NoResult, at |-> 0, visited |-> {},
           answer |-> "none", failed |-> FALSE, crossed |-> FALSE]

Inside(t) == pc[t] \in {"reply", "read"}
InQuery(t) == Inside(t) \/ pc[t] \in {"query", "store", "affected", "field_count"}
Busy(t) == InQuery(t) \/ pc[t] = "rows"

(* What the server may answer.                                             *)
replies(stmt) ==
  [stmt : {stmt}, rows : possible_rows(stmt), part : {"columns"}] \cup
  [stmt : {stmt}, rows : {0}, part : {"error"}]

(* The server opens the database before anything else, and goes on when    *)
(* that fails.                                                             *)
Init ==
  /\ m_handler \in {"open", "null"}
  /\ mysql = [status |-> "ready", field_count |-> 0, affected |-> 0, lost |-> FALSE]
  /\ wire = <<>>
  /\ pc = [t \in Threads |-> "idle"]
  /\ call = [t \in Threads |-> NoCall]
  /\ started = [t \in Threads |-> 0]
  /\ process = "running"
  /\ raced = FALSE

-------------------------------------------------------------------------------
(* Connection::query.                                                      *)

At(t, place) == process = "running" /\ pc[t] = place

go(t, place) == pc' = [pc EXCEPT ![t] = place]

(* query returns nullptr.  failed: the database, not the code, is to blame.*)
null(t, failed) ==
  /\ go(t, "idle")
  /\ call' = [call EXCEPT ![t] = [@ EXCEPT !.answer = "null", !.failed = failed]]

(* Faulty variant: the handle is not looked at.                            *)
no_handler_unchecked == FALSE

no_handler == m_handler = "null"

(* The check of m_handler; crossed remembers that another thread was       *)
(* inside query at the same time.                                          *)
Enter(t, stmt) ==
  /\ At(t, "idle")
  /\ started[t] < MaxStatements
  /\ started' = [started EXCEPT ![t] = @ + 1]
  /\ LET others == {u \in Threads \ {t} : InQuery(u)}
         fresh == [NoCall EXCEPT !.stmt = stmt, !.crossed = others # {}]
     IN IF no_handler
        THEN /\ call' = [call EXCEPT ![t] = [fresh EXCEPT !.answer = "null", !.failed = TRUE]]
             /\ UNCHANGED pc
        ELSE /\ call' = [u \in Threads |->
                           IF u = t THEN fresh
                           ELSE IF u \in others THEN [call[u] EXCEPT !.crossed = TRUE]
                           ELSE call[u]]
             /\ go(t, "query")
  /\ UNCHANGED <<m_handler, mysql, wire, process, raced>>

(* A call that talks to the server begins.                                 *)
begin(t) ==
  /\ m_handler = "open"
  /\ raced' = (raced \/ \E u \in Threads \ {t} : Inside(u))

(* Faulty variant: an error of mysql_query is logged and ignored.          *)
QueryRefused_ignored(t) ==
  /\ At(t, "query") /\ m_handler = "open"
  /\ mysql.status # "ready"
  /\ go(t, "store")
  /\ UNCHANGED <<m_handler, mysql, wire, call, started, process, raced>>

(* The library refuses a statement while a result waits to be stored       *)
(* ("commands out of sync").                                               *)
QueryRefused(t) ==
  /\ At(t, "query") /\ m_handler = "open"
  /\ mysql.status # "ready"
  /\ null(t, FALSE)
  /\ UNCHANGED <<m_handler, mysql, wire, started, process, raced>>

(* The counts of the statement before are reset, or those of the columns   *)
(* only with the reply, as the library's version has it.                   *)
reset(lost) ==
  \E n \in {mysql.field_count, 0} :
    mysql' = [mysql EXCEPT !.field_count = n, !.affected = Unknown, !.lost = lost]

Query(t) ==
  /\ At(t, "query")
  /\ mysql.status = "ready" /\ ~ mysql.lost
  /\ begin(t)
  /\ reset(FALSE)
  /\ \E reply \in replies(call[t].stmt) :
       /\ wire' = Append(wire, reply)
       /\ call' = [call EXCEPT ![t].held = reply.rows]
  /\ go(t, "reply")
  /\ UNCHANGED <<m_handler, started, process>>

(* A connection that is lost is not opened again.                          *)
QueryFails(t) ==
  /\ At(t, "query")
  /\ mysql.status = "ready"
  /\ begin(t)
  /\ reset(TRUE)
  /\ wire' = <<>>
  /\ null(t, TRUE)
  /\ UNCHANGED <<m_handler, started, process>>

(* The first reply that has not been read, and the part of it that comes.  *)
comes(part) == wire # <<>> /\ Head(wire).part = part

QueryReply(t) ==
  /\ At(t, "reply") /\ m_handler = "open"
  /\ comes("columns")
  /\ wire' = [wire EXCEPT ![1].part = "rows"]
  /\ mysql' = [mysql EXCEPT !.status = "get_result", !.field_count = columns(Head(wire).stmt)]
  /\ go(t, "store")
  /\ UNCHANGED <<m_handler, call, started, process, raced>>

QueryError(t) ==
  /\ At(t, "reply") /\ m_handler = "open"
  /\ comes("error")
  /\ wire' = Tail(wire)
  /\ null(t, TRUE)
  /\ UNCHANGED <<m_handler, mysql, started, process, raced>>

(* Faulty variant: mysql_use_result, which leaves the rows with the server *)
(* and the handle busy until the last of them has been fetched.            *)
taken_use_result == mysql

taken == [mysql EXCEPT !.status = "ready"]

(* There is a result to be stored: while one waits, the library lets no    *)
(* other thread in that would take it.                                     *)
StoreResult(t) ==
  /\ At(t, "store")
  /\ mysql.status = "get_result"
  /\ begin(t)
  /\ mysql' = taken
  /\ go(t, "read")
  /\ UNCHANGED <<m_handler, wire, call, started, process>>

StoreRows(t) ==
  /\ At(t, "read") /\ m_handler = "open"
  /\ comes("rows") /\ columns(Head(wire).stmt) = mysql.field_count
  /\ wire' = Tail(wire)
  /\ mysql' = [mysql EXCEPT !.affected = Head(wire).rows]
  /\ call' = [call EXCEPT ![t].result = [stmt |-> Head(wire).stmt, rows |-> Head(wire).rows]]
  /\ go(t, "affected")
  /\ UNCHANGED <<m_handler, started, process, raced>>

(* The statement fails among its rows.                                     *)
StoreFails(t) ==
  /\ At(t, "read") /\ m_handler = "open"
  /\ comes("rows")
  /\ wire' = Tail(wire)
  /\ null(t, TRUE)
  /\ UNCHANGED <<m_handler, mysql, started, process, raced>>

(* The connection is lost while a thread reads.                            *)
ConnectionLost(t) ==
  /\ process = "running" /\ Inside(t) /\ m_handler = "open"
  /\ mysql' = [mysql EXCEPT !.lost = TRUE]
  /\ wire' = <<>>
  /\ null(t, TRUE)
  /\ UNCHANGED <<m_handler, started, process, raced>>

(* What is left of the replies when a thread has taken part of the first,  *)
(* all of it, or has read on for an end that does not come.                *)
left_over ==
  {Tail(wire), <<>>} \cup
  (IF comes("error") THEN {} ELSE {[wire EXCEPT ![1].part = "rows"]})

(* What a thread reads is not what it waits for: the library may notice,   *)
(* with the rest of it still to come, or take it for what it is not.       *)
Misread(t) ==
  /\ m_handler = "open"
  /\ \/ At(t, "reply") /\ comes("rows")
     \/ At(t, "read") /\ (comes("columns") \/ comes("error"))
     \/ At(t, "read") /\ comes("rows") /\ columns(Head(wire).stmt) # mysql.field_count
  /\ \/ wire' \in left_over /\ null(t, FALSE) /\ UNCHANGED process
     \/ process' = "undefined" /\ UNCHANGED <<wire, pc, call>>
  /\ UNCHANGED <<m_handler, mysql, started, raced>>

(* Two threads read into one buffer.                                       *)
ReadTogether ==
  /\ process = "running"
  /\ \A t \in Threads : Inside(t)
  /\ process' = "undefined"
  /\ UNCHANGED <<m_handler, mysql, wire, pc, call, started, raced>>

(* Faulty variant: the test is turned around.                              *)
no_rows_inverted == mysql.affected # 0

no_rows == mysql.affected = 0

(* An empty result is dropped here, without being freed.                   *)
AffectedRows(t) ==
  /\ At(t, "affected") /\ m_handler = "open"
  /\ \/ no_rows /\ null(t, FALSE)
     \/ ~ no_rows /\ go(t, "field_count") /\ UNCHANGED call
  /\ UNCHANGED <<m_handler, mysql, wire, started, process, raced>>

(* mysql_field_count is asked of the handle, the fields and rows are those *)
(* of the result.  The constructor of ResultSet and next_row go beyond the *)
(* result's columns if the number is too large, the caller goes beyond the *)
(* ResultSet's if it is too small.                                         *)
FieldCount(t) ==
  /\ At(t, "field_count") /\ m_handler = "open"
  /\ LET empty == call[t].result.rows = 0
         beyond == \/ mysql.field_count > columns(call[t].result.stmt)
                   \/ ~ empty /\ mysql.field_count < columns(call[t].stmt)
     IN \/ /\ beyond
           /\ process' = "undefined"
           /\ UNCHANGED <<pc, call>>
        \/ /\ ~ beyond /\ empty
           /\ null(t, FALSE)
           /\ UNCHANGED process
        \/ /\ ~ beyond /\ ~ empty
           /\ call' = [call EXCEPT ![t].at = 1]
           /\ go(t, "rows")
           /\ UNCHANGED process
  /\ UNCHANGED <<m_handler, mysql, wire, started, raced>>

-------------------------------------------------------------------------------
(* The callers, on the rows of the ResultSet.                              *)

seen(t) == call[t].visited \cup {call[t].at}

done(t) ==
  /\ go(t, "idle")
  /\ call' = [call EXCEPT ![t] = [@ EXCEPT !.answer = "rows", !.visited = seen(t)]]

(* logon_challenge_handler takes the first row and is done.                *)
FetchAccount(t) ==
  /\ At(t, "rows")
  /\ call[t].stmt = "account"
  /\ done(t)
  /\ UNCHANGED <<m_handler, mysql, wire, started, process, raced>>

(* Faulty variant: while (next_row()), though query has fetched the first. *)
FetchNext_while(t) ==
  /\ At(t, "rows")
  /\ call[t].stmt # "account"
  /\ \/ /\ call[t].at < call[t].result.rows
        /\ call' = [call EXCEPT ![t] = [@ EXCEPT !.at = call[t].at + 1, !.visited = call[t].visited \cup {call[t].at + 1}]]
        /\ UNCHANGED pc
     \/ /\ call[t].at = call[t].result.rows
        /\ call' = [call EXCEPT ![t].answer = "rows"]
        /\ go(t, "idle")
  /\ UNCHANGED <<m_handler, mysql, wire, started, process, raced>>

(* Faulty variant: next_row does not see the end.                          *)
FetchNext_past(t) ==
  /\ At(t, "rows")
  /\ call[t].stmt # "account"
  /\ call[t].at <= call[t].result.rows
  /\ call' = [call EXCEPT ![t] = [@ EXCEPT !.at = call[t].at + 1, !.visited = seen(t)]]
  /\ UNCHANGED <<m_handler, mysql, wire, pc, started, process, raced>>

(* do { fetch() ... } while (next_row()), of realmlist_handler and         *)
(* update_realms.  After the last row next_row frees the result.           *)
FetchNext(t) ==
  /\ At(t, "rows")
  /\ call[t].stmt # "account"
  /\ \/ /\ call[t].at < call[t].result.rows
        /\ call' = [call EXCEPT ![t] = [@ EXCEPT !.at = call[t].at + 1, !.visited = seen(t)]]
        /\ UNCHANGED pc
     \/ /\ call[t].at = call[t].result.rows
        /\ done(t)
  /\ UNCHANGED <<m_handler, mysql, wire, started, process, raced>>

-------------------------------------------------------------------------------
(* Connection::close, when the main thread has left io_context::run.  The  *)
(* network thread is still running.                                        *)

Close ==
  /\ At("main", "idle")
  /\ IF m_handler = "null"
     THEN go("main", "closed") /\ UNCHANGED m_handler
     ELSE go("main", "closing") /\ m_handler' = "freed"
  /\ UNCHANGED <<mysql, wire, call, started, process, raced>>

CloseReturns ==
  /\ At("main", "closing")
  /\ m_handler' = "null"
  /\ go("main", "closed")
  /\ UNCHANGED <<mysql, wire, call, started, process, raced>>

UsedAfterClose(t) ==
  /\ process = "running"
  /\ InQuery(t)
  /\ m_handler # "open"
  /\ process' = "undefined"
  /\ UNCHANGED <<m_handler, mysql, wire, pc, call, started, raced>>

-------------------------------------------------------------------------------
query(t) ==
  \/ \E stmt \in Statements(t) : Enter(t, stmt)
  \/ QueryRefused(t)
  \/ Query(t)
  \/ QueryFails(t)
  \/ QueryReply(t)
  \/ QueryError(t)
  \/ StoreResult(t)
  \/ StoreRows(t)
  \/ StoreFails(t)
  \/ ConnectionLost(t)
  \/ Misread(t)
  \/ AffectedRows(t)
  \/ FieldCount(t)

Next ==
  \/ \E t \in Threads : query(t) \/ FetchAccount(t) \/ FetchNext(t) \/ UsedAfterClose(t)
  \/ ReadTogether
  \/ Close
  \/ CloseReturns

Spec == Init /\ [][Next]_vars

-------------------------------------------------------------------------------
(* Properties.                                                             *)

Results == [stmt : AllStatements \cup {"none"}, rows : 0 .. MaxRows]
Replies == [stmt : AllStatements, rows : 0 .. MaxRows, part : {"columns", "rows", "error"}]
Handles == [status : {"ready", "get_result"}, field_count : {0, 2, 4, 11},
            affected : 0 .. Unknown, lost : BOOLEAN]
Calls == [stmt : AllStatements \cup {"none"}, held : 0 .. Unknown, result : Results,
          at : 0 .. MaxRows, visited : SUBSET (1 .. MaxRows),
          answer : {"none", "null", "rows"}, failed : BOOLEAN, crossed : BOOLEAN]
Places == {"idle", "query", "reply", "store", "read", "affected", "field_count", "rows",
           "closing", "closed"}

(* Handle, connection and calls hold values of their types, and a row a    *)
(* caller looks at is one of its result.                                   *)
TypeOK ==
  /\ m_handler \in {"open", "freed", "null"}
  /\ mysql \in Handles
  /\ wire \in Seq(Replies)
  /\ pc \in [Threads -> Places]
  /\ started \in [Threads -> 0 .. MaxStatements]
  /\ process \in {"running", "undefined"}
  /\ raced \in BOOLEAN
  /\ call \in [Threads -> Calls]
  /\ \A t \in Threads :
       /\ call[t].stmt \in Statements(t) \cup {"none"}
       /\ call[t].at \in 0 .. call[t].result.rows
       /\ call[t].visited \subseteq 1 .. call[t].result.rows

(* The statements of the two threads overlap in any way that keeps them    *)
(* from being inside the library at once, and no thread is ever given the  *)
(* rows of the other's: it is the refusal of a statement between           *)
(* mysql_query and mysql_store_result of another, and giving up on it,     *)
(* that keeps accounts and realms apart.  Once both have been inside the   *)
(* library together nothing is promised: they may read each other's rows.  *)
OwnRows ==
  ~ raced => \A t \in Threads : call[t].result.stmt \in {call[t].stmt, "none"}

(* Short of that, the handle refuses statements only while one thread is   *)
(* about to store its result, which is the next thing on the connection,   *)
(* and no sequence of queries, failing or not, leaves it out of sync.      *)
HandleReleased ==
  ~ raced /\ process = "running" /\ mysql.status = "get_result" =>
    \E t \in Threads : pc[t] = "store" /\ comes("rows") /\ Head(wire).stmt = call[t].stmt

(* No row is overlooked, short of that.  A query answers nothing only if   *)
(* there were no rows, the database failed or the other thread was inside  *)
(* query too: an account is not "unknown" for any other reason.  And a     *)
(* caller that gets rows looks at every one: query fetches the first, and  *)
(* the loops begin with the one that is there.                             *)
NothingOverlooked ==
  ~ raced =>
    \A t \in Threads :
      /\ call[t].answer = "null" /\ call[t].held # 0 => call[t].failed \/ call[t].crossed
      /\ call[t].answer = "rows" => call[t].visited = 1 .. call[t].held

(* Only two threads inside query, or the shutdown, can break the process:  *)
(* one thread on its own never mixes up columns, and a database that could *)
(* not be opened breaks nothing.  Once both have been inside the library   *)
(* together the connection may stay out of step, and break one thread.     *)
UndefinedOnlyByTwo ==
  process = "undefined" =>
    \/ pc["main"] \in {"closing", "closed"}
    \/ \E t \in Threads : InQuery(t) /\ call[t].crossed
    \/ raced

==============================================================================

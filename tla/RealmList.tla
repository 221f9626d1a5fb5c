------------------------------- MODULE RealmList -------------------------------
(***************************************************************************)
(* Realm::RealmList and its reader.  Every 30 seconds the main thread      *)
(* empties m_realms and fills it again from the realmlist table            *)
(* (update_realms); meanwhile Session::realmlist_handler on the network    *)
(* thread walks through m_realms to answer a client.  Nothing locks the    *)
(* map, so one step here is one access to it.                              *)
(*                                                                         *)
(* An access that meets one of the other thread is undefined behaviour.    *)
(* Clearing the map frees the node a walk stands on, and the walk is lost; *)
(* an insertion may or may not break it.                                   *)
(***************************************************************************)
EXTENDS Naturals, FiniteSets, FiniteSetsExt

CONSTANTS
  Realms,                    \* ids of the realmlist table
  Rows,                      \* rows the table may hold for a realm
  NoRow,
  Builds,                    \* client builds (a session starts with 0)
  m_builds,                  \* those of build_information, read once at the start
  max_pre_bc_client_build,
  MaxChanges                 \* bound: changes of the table

version_mismatch == "version_mismatch"
offline == "offline"
specifybuild == "specifybuild"

realmtype_normal == 0
realmtype_pvp == 1
realmtype_max_client == 14
realmtype_ffa_pvp == 16

AnyRow == [type : Nat, flags : SUBSET {version_mismatch, offline, specifybuild},
           build : Nat, resolves : BOOLEAN]

ASSUME RealmAssumption ==
  Realms \subseteq Nat \ {0} /\ Rows \subseteq AnyRow /\ NoRow \notin AnyRow
ASSUME ClientAssumption ==
  Builds \subseteq Nat /\ m_builds \subseteq Nat /\ max_pre_bc_client_build \in Nat
ASSUME BoundAssumption == MaxChanges \in Nat

VARIABLES
  table,       \* the realmlist table; whoever administers the realms writes it
  changes,
  main,        \* "waiting" for the timer, "cleared" or "filling"
  rows,        \* rows of the query's result not yet dealt with
  m_realms,
  walk,        \* the handler's loop over m_realms and the list it puts together
  process,     \* "running" or "undefined"
  answer       \* history: the result of the last query (no row if it failed)

vars == <<table, changes, main, rows, m_realms, walk, process, answer>>

End == 0
Empty == [r \in Realms |-> NoRow]
Idle == [build |-> 0, at |-> End, listed |-> {}, active |-> FALSE, settled |-> FALSE]

build_info(build) == build \in m_builds
is_pre_bc_client(build) == build <= max_pre_bc_client_build /\ build_info(build)
is_post_bc_client(build) == build > max_pre_bc_client_build /\ build_info(build)

(* WHERE flags <> 3.                                                       *)
select(row) == IF row = NoRow \/ row.flags = {version_mismatch, offline} THEN NoRow ELSE row

(* Faulty variant: a type the client does not know is passed on.           *)
client_type_raw(type) == type

client_type(type) ==
  CASE type = realmtype_ffa_pvp                                 -> realmtype_pvp
    [] type >= realmtype_max_client /\ type # realmtype_ffa_pvp -> realmtype_normal
    [] OTHER                                                    -> type

(* A realm whose addresses cannot be resolved is left out.                 *)
store(row) ==
  IF row = NoRow \/ ~ row.resolves THEN NoRow
  ELSE [row EXCEPT !.type = client_type(@)]

(* The first refresh is over before the server listens; the database may   *)
(* have failed it.                                                         *)
Init ==
  /\ table \in [Realms -> Rows \cup {NoRow}]
  /\ changes = 0
  /\ main = "waiting"
  /\ rows = Empty
  /\ answer \in {[r \in Realms |-> select(table[r])], Empty}
  /\ m_realms = [r \in Realms |-> store(answer[r])]
  /\ walk = Idle
  /\ process = "running"

TableChanges ==
  /\ process = "running"
  /\ changes < MaxChanges
  /\ \E r \in Realms : \E row \in (Rows \cup {NoRow}) \ {table[r]} :
       table' = [table EXCEPT ![r] = row]
  /\ changes' = changes + 1
  /\ UNCHANGED <<main, rows, m_realms, walk, process, answer>>

-------------------------------------------------------------------------------
(* update_realms, on the main thread.                                      *)

(* What a write to the map does to the walk that it meets.                 *)
meet(outcomes) ==
  /\ process' \in IF walk.active THEN outcomes ELSE {"running"}
  /\ walk' = [walk EXCEPT !.settled = FALSE]

TimerExpires ==
  /\ process = "running"
  /\ main = "waiting"
  /\ main' = "cleared"
  /\ m_realms' = Empty
  /\ meet(IF walk.at = End THEN {"running", "undefined"} ELSE {"undefined"})
  /\ UNCHANGED <<table, changes, rows, answer>>

Query ==
  /\ process = "running"
  /\ main = "cleared"
  /\ main' = "filling"
  /\ rows' = [r \in Realms |-> select(table[r])]
  /\ answer' = rows'
  /\ UNCHANGED <<table, changes, m_realms, walk, process>>

(* The list stays empty until the next refresh.                            *)
QueryFails ==
  /\ process = "running"
  /\ main = "cleared"
  /\ main' = "filling"
  /\ rows' = Empty
  /\ answer' = Empty
  /\ UNCHANGED <<table, changes, m_realms, walk, process>>

(* The rows come in any order.                                             *)
SkipRow(r) ==
  /\ process = "running"
  /\ main = "filling"
  /\ rows[r] # NoRow /\ store(rows[r]) = NoRow
  /\ rows' = [rows EXCEPT ![r] = NoRow]
  /\ UNCHANGED <<table, changes, main, m_realms, walk, process, answer>>

StoreRow(r) ==
  /\ process = "running"
  /\ main = "filling"
  /\ rows[r] # NoRow /\ store(rows[r]) # NoRow
  /\ rows' = [rows EXCEPT ![r] = NoRow]
  /\ m_realms' = [m_realms EXCEPT ![r] = store(rows[r])]
  /\ meet({"running", "undefined"})
  /\ UNCHANGED <<table, changes, main, answer>>

(* Faulty variant: the timer is armed again only after a query with rows.  *)
RearmTimer_if_answered ==
  /\ process = "running"
  /\ main = "filling" /\ rows = Empty /\ answer # Empty
  /\ main' = "waiting"
  /\ UNCHANGED <<table, changes, rows, m_realms, walk, process, answer>>

RearmTimer ==
  /\ process = "running"
  /\ main = "filling" /\ rows = Empty
  /\ main' = "waiting"
  /\ UNCHANGED <<table, changes, rows, m_realms, walk, process, answer>>

update_realms ==
  \/ TimerExpires
  \/ Query
  \/ QueryFails
  \/ \E r \in Realms : SkipRow(r) \/ StoreRow(r)
  \/ RearmTimer

-------------------------------------------------------------------------------
(* realmlist_handler, on the network thread; the map is in order of id.    *)

following(r) ==
  LET rest == {q \in Realms : q > r /\ m_realms[q] # NoRow}
  IN IF rest = {} THEN End ELSE Min(rest)

BeginWalk ==
  /\ process = "running"
  /\ ~ walk.active
  /\ \E build \in Builds :
       walk' = [build |-> build, at |-> following(0), listed |-> {},
                active |-> TRUE, settled |-> main = "waiting"]
  /\ UNCHANGED <<table, changes, main, rows, m_realms, process, answer>>

(* Faulty variant: a realm of an unknown build keeps its flag.             *)
entry_flags_kept(realm, build) ==
  realm.flags \cup IF build = realm.build THEN {} ELSE {offline, specifybuild}

(* A realm for another build is shown offline and with its build; a build  *)
(* without information is not shown, so that build_info is never null      *)
(* where the version is read.                                              *)
entry_flags(realm, build) ==
  (realm.flags \cup IF build = realm.build THEN {} ELSE {offline, specifybuild})
    \ IF build_info(realm.build) THEN {} ELSE {specifybuild}

(* Faulty variant: a realm of an unknown build is skipped for everyone.    *)
hidden_from_all(realm, build) == ~ build_info(realm.build)

hidden(realm, build) == build # realm.build /\ ~ build_info(realm.build)

(* In the name before The Burning Crusade, behind the entry after it.      *)
shows_version(realm, build) ==
  /\ specifybuild \in entry_flags(realm, build)
  /\ is_pre_bc_client(build) \/ is_post_bc_client(build)

entry(r, build) ==
  [id |-> r, type |-> m_realms[r].type, flags |-> entry_flags(m_realms[r], build),
   version |-> shows_version(m_realms[r], build)]

WalkOver ==
  /\ process = "running"
  /\ walk.active /\ walk.at # End
  /\ walk' = [walk EXCEPT
       !.at = following(@),
       !.listed = IF hidden(m_realms[walk.at], walk.build) THEN @
                  ELSE @ \cup {entry(walk.at, walk.build)}]
  /\ UNCHANGED <<table, changes, main, rows, m_realms, process, answer>>

(* The reply is sent.                                                      *)
EndWalk ==
  /\ process = "running"
  /\ walk.active /\ walk.at = End
  /\ walk' = Idle
  /\ UNCHANGED <<table, changes, main, rows, m_realms, process, answer>>

realmlist_handler == BeginWalk \/ WalkOver \/ EndWalk

Next == update_realms \/ realmlist_handler \/ TableChanges

Spec == Init /\ [][Next]_vars

(* The io_context runs the refresh whenever its timer expires, and the     *)
(* database is not out of order for ever.                                  *)
FairSpec == Spec /\ WF_vars(update_realms) /\ SF_vars(Query)

-------------------------------------------------------------------------------
(* Properties.                                                             *)

Entries == [id : Realms, type : 0 .. realmtype_max_client - 1,
            flags : SUBSET {version_mismatch, offline, specifybuild}, version : BOOLEAN]

(* Table, map and walk have their types, and no entry has a type a client  *)
(* does not know, whatever the table says.                                 *)
TypeOK ==
  /\ table \in [Realms -> Rows \cup {NoRow}]
  /\ changes \in 0 .. MaxChanges
  /\ main \in {"waiting", "cleared", "filling"}
  /\ rows \in [Realms -> Rows \cup {NoRow}] /\ answer \in [Realms -> Rows \cup {NoRow}]
  /\ walk.build \in Builds \cup {0} /\ walk.at \in Realms \cup {End}
  /\ walk.listed \subseteq Entries
  /\ process \in {"running", "undefined"}

(* What a client of a build should be told of a row, in words of the table:*)
(* a realm of its own build as it is; one of another known build as        *)
(* offline, with that build; one of an unknown build not at all.           *)
Told(r, row, build) ==
  LET known == row.build \in m_builds
      foreign == row.build # build
      stamped == known /\ (foreign \/ specifybuild \in row.flags)
  IN [id      |-> r,
      type    |-> IF row.type < 14 THEN row.type ELSE IF row.type = 16 THEN 1 ELSE 0,
      flags   |-> {f \in row.flags : f # specifybuild}
                    \cup (IF foreign THEN {offline} ELSE {})
                    \cup (IF stamped THEN {specifybuild} ELSE {}),
      version |-> stamped /\ build \in m_builds]

Shown(row, build) ==
  row # NoRow /\ row.resolves /\ (row.build = build \/ row.build \in m_builds)

(* A reply put together between two refreshes lists every realm of the     *)
(* last query that can be shown to its client, as it should be shown, and  *)
(* no other.  (One that overlaps a refresh may miss realms.)               *)
SettledReplyIsComplete ==
  walk.active /\ walk.settled /\ walk.at = End /\ process = "running" =>
    walk.listed = {Told(r, answer[r], walk.build) :
                     r \in {q \in Realms : Shown(answer[q], walk.build)}}

(* A realm that stays in the table is offered again and again, and one     *)
(* that is taken out, or cannot be resolved, is gone for good one day: a   *)
(* refresh that failed does not end the refreshing.                        *)
TableIsPublished ==
  \A r \in Realms : \A row \in Rows \cup {NoRow} :
    <>[](table[r] = row /\ process = "running") =>
      IF store(select(row)) = NoRow THEN <>[](m_realms[r] = NoRow)
                                    ELSE []<>(m_realms[r] = store(select(row)))

==============================================================================

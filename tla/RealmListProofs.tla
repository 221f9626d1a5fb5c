--------------------------- MODULE RealmListProofs ---------------------------
(***************************************************************************)
(* Proofs about RealmList, for every table and every set of builds: what a *)
(* client is told of the realms while nothing locks the list.              *)
(***************************************************************************)
EXTENDS RealmList, WellFoundedInduction, TLAPS

(* The map holds what is stored of the rows dealt with so far, and nothing *)
(* of those that are left.                                                 *)
Published ==
  /\ main = "cleared" => m_realms = Empty
  /\ main = "waiting" => rows = Empty
  /\ main # "cleared" =>
       \A r \in Realms :
         IF rows[r] = NoRow THEN m_realms[r] = store(answer[r])
                            ELSE rows[r] = answer[r] /\ m_realms[r] = NoRow

WalkTyped ==
  walk \in [build : Builds \cup {0}, at : Realms \cup {End}, listed : SUBSET Entries,
            active : BOOLEAN, settled : BOOLEAN]

MapTyped == m_realms \in [Realms -> AnyRow \cup {NoRow}]

(* The realms a walk has passed.                                           *)
Passed(r) == walk.at = End \/ r < walk.at

(* A walk stands on a realm of the map, as long as the process is sound,   *)
(* and one that met no refresh has listed what it passed.                  *)
Walking ==
  process = "running" /\ walk.active =>
    /\ walk.at # End => m_realms[walk.at] # NoRow
    /\ walk.settled =>
         /\ main = "waiting"
         /\ walk.listed = {Told(r, answer[r], walk.build) :
                             r \in {q \in Realms : Shown(answer[q], walk.build) /\ Passed(q)}}

(* What the map may hold: types a client knows.                            *)
Stored == \A r \in Realms : m_realms[r] # NoRow => m_realms[r].type \in 0 .. 13

Inv == TypeOK /\ WalkTyped /\ MapTyped /\ Stored /\ Published /\ Walking


-------------------------------------------------------------------------------
(* The next realm of the map.                                              *)

LEMMA Least ==
  ASSUME NEW S, S \subseteq Nat, S # {}
  PROVE  Min(S) \in S /\ \A y \in S : Min(S) <= y
<1>1. PICK x \in S : \A y \in S : ~ (<<y, x>> \in OpToRel(<, Nat))
  BY WFMin, NatLessThanWellFounded, Zenon
<1>2. \A y \in S : ~ (y < x)
  BY <1>1, Zenon DEF OpToRel
<1>3. \A y \in S : x <= y
  BY <1>2
<1> QED
  BY <1>3 DEF Min

LEMMA Following ==
  ASSUME NEW r \in Nat
  PROVE  \/ /\ following(r) = End
            /\ \A q \in Realms : q > r => m_realms[q] = NoRow
         \/ /\ following(r) \in Realms /\ following(r) > r /\ following(r) # End
            /\ m_realms[following(r)] # NoRow
            /\ \A q \in Realms : q > r /\ q < following(r) => m_realms[q] = NoRow
<1> DEFINE rest == {q \in Realms : q > r /\ m_realms[q] # NoRow}
<1>1. CASE rest = {}
  BY <1>1 DEF following
<1>2. CASE rest # {}
  <2>1. rest \subseteq Nat
    BY RealmAssumption
  <2>2. Min(rest) \in rest /\ \A y \in rest : Min(rest) <= y
    BY <1>2, <2>1, Least
  <2>3. following(r) = Min(rest)
    BY <1>2 DEF following
  <2>4. /\ following(r) \in Realms /\ following(r) > r /\ m_realms[following(r)] # NoRow
        /\ \A y \in rest : following(r) <= y
    BY <2>2, <2>3
  <2>5. following(r) # End
    BY <2>4, RealmAssumption DEF End
  <2>6. ASSUME NEW q \in Realms, q > r, q < following(r) PROVE m_realms[q] = NoRow
    <3>1. q \in Nat /\ following(r) \in Nat
      BY <2>4, RealmAssumption
    <3>2. q \notin rest
      BY <2>4, <2>6, <3>1
    <3> QED
      BY <2>6, <3>2
  <2> QED
    BY <2>4, <2>5, <2>6
<1> QED
  BY <1>1, <1>2

LEMMA FollowingTyped ==
  ASSUME NEW r \in Realms \cup {0}
  PROVE  following(r) \in Realms \cup {End}
<1>1. r \in Nat
  BY RealmAssumption
<1> QED
  BY <1>1, Following

-------------------------------------------------------------------------------
(* What is stored of a row, and what a client is told of it.               *)

LEMMA StoredRow ==
  ASSUME NEW row \in Rows \cup {NoRow}
  PROVE  /\ store(row) = NoRow <=> (row = NoRow \/ ~ row.resolves)
         /\ store(row) # NoRow =>
              /\ row \in AnyRow /\ store(row) \in AnyRow
              /\ store(row).type = client_type(row.type) /\ client_type(row.type) \in 0 .. 13
              /\ store(row).flags = row.flags /\ store(row).build = row.build
<1>1. CASE row = NoRow \/ ~ row.resolves
  BY <1>1 DEF store
<1>2. CASE row # NoRow /\ row.resolves
  <2>1. row \in AnyRow /\ row.type \in Nat
    BY <1>2, RealmAssumption DEF AnyRow
  <2>2. client_type(row.type) \in 0 .. 13
    BY <2>1 DEF client_type, realmtype_ffa_pvp, realmtype_max_client, realmtype_pvp,
                realmtype_normal
  <2>3. store(row) = [row EXCEPT !.type = client_type(row.type)]
    BY <1>2 DEF store
  <2>4. /\ store(row) \in AnyRow /\ store(row).type = client_type(row.type)
        /\ store(row).flags = row.flags /\ store(row).build = row.build
    BY <2>1, <2>2, <2>3 DEF AnyRow
  <2> QED
    BY <1>2, <2>1, <2>2, <2>4, RealmAssumption
<1> QED
  BY <1>1, <1>2

LEMMA Selected ==
  ASSUME NEW row \in Rows \cup {NoRow}
  PROVE  select(row) \in Rows \cup {NoRow}
BY DEF select

(* A walk that stands on what was stored of a row lists exactly what the   *)
(* client should be told of it.                                            *)
LEMMA EntryIsTold ==
  ASSUME NEW r \in Realms, NEW row \in Rows, NEW build \in Nat, store(row) # NoRow,
         m_realms[r] = store(row)
  PROVE  /\ hidden(m_realms[r], build) <=> ~ Shown(row, build)
         /\ entry(r, build) = Told(r, row, build)
<1> DEFINE realm == m_realms[r]
<1>1. /\ row \in AnyRow /\ realm.type = client_type(row.type)
      /\ realm.flags = row.flags /\ realm.build = row.build
      /\ row.resolves /\ row # NoRow
  BY StoredRow, RealmAssumption
<1>2. /\ row.type \in Nat /\ row.build \in Nat
      /\ row.flags \subseteq {version_mismatch, offline, specifybuild}
  BY <1>1 DEF AnyRow
<1> HIDE DEF realm
<1>3. hidden(realm, build) <=> ~ Shown(row, build)
  BY <1>1 DEF hidden, Shown, build_info
<1> DEFINE known == row.build \in m_builds
           foreign == row.build # build
           stamped == known /\ (foreign \/ specifybuild \in row.flags)
           told == {f \in row.flags : f # specifybuild}
                     \cup (IF foreign THEN {offline} ELSE {})
                     \cup (IF stamped THEN {specifybuild} ELSE {})
<1>4. offline # specifybuild
  BY DEF offline, specifybuild
<1>5. entry_flags(realm, build) = told
  <2>1. CASE known /\ foreign
    BY <1>1, <1>4, <2>1 DEF entry_flags, build_info
  <2>2. CASE known /\ ~ foreign
    BY <1>1, <1>4, <2>2 DEF entry_flags, build_info
  <2>3. CASE ~ known /\ foreign
    BY <1>1, <1>4, <2>3 DEF entry_flags, build_info
  <2>4. CASE ~ known /\ ~ foreign
    BY <1>1, <1>4, <2>4 DEF entry_flags, build_info
  <2> QED
    BY <2>1, <2>2, <2>3, <2>4
<1>6. specifybuild \in told <=> stamped
  BY <1>4
<1>7. (is_pre_bc_client(build) \/ is_post_bc_client(build)) <=> build \in m_builds
  BY ClientAssumption DEF is_pre_bc_client, is_post_bc_client, build_info
<1>8. shows_version(realm, build) = (stamped /\ build \in m_builds)
  BY <1>5, <1>6, <1>7 DEF shows_version
<1>9. client_type(row.type) = IF row.type < 14 THEN row.type ELSE IF row.type = 16 THEN 1 ELSE 0
  BY <1>2 DEF client_type, realmtype_ffa_pvp, realmtype_max_client, realmtype_pvp,
              realmtype_normal
<1>10. entry(r, build) = [id |-> r, type |-> realm.type, flags |-> entry_flags(realm, build),
                          version |-> shows_version(realm, build)]
  BY DEF entry, realm
<1>11. Told(r, row, build) =
         [id |-> r, type |-> IF row.type < 14 THEN row.type ELSE IF row.type = 16 THEN 1 ELSE 0,
          flags |-> told, version |-> stamped /\ build \in m_builds]
  BY DEF Told
<1>12. entry(r, build) = Told(r, row, build)
  BY <1>1, <1>5, <1>8, <1>9, <1>10, <1>11
<1> QED
  BY <1>3, <1>12 DEF realm

(* It is an entry of the type a client knows.                              *)
LEMMA EntryTyped ==
  ASSUME MapTyped, Stored, NEW r \in Realms, NEW build \in Nat, m_realms[r] # NoRow
  PROVE  entry(r, build) \in Entries
<1>1. m_realms[r] \in AnyRow /\ m_realms[r].type \in 0 .. 13
  BY DEF MapTyped, Stored
<1>2. entry_flags(m_realms[r], build) \in SUBSET {version_mismatch, offline, specifybuild}
  BY <1>1 DEF entry_flags, AnyRow
<1>3. shows_version(m_realms[r], build) \in BOOLEAN
  BY DEF shows_version
<1>4. 0 .. 13 = 0 .. realmtype_max_client - 1
  BY DEF realmtype_max_client
<1> QED
  BY <1>1, <1>2, <1>3, <1>4 DEF entry, Entries

-------------------------------------------------------------------------------
(* The list of a walk, and the walk's next step.                           *)

(* What a walk has to list of the realms it has passed.                    *)
TellPassed(at, build) ==
  {Told(r, answer[r], build) :
     r \in {q \in Realms : Shown(answer[q], build) /\ (at = End \/ q < at)}}

LEMMA WalkingSays ==
  Walking <=>
    (process = "running" /\ walk.active =>
       /\ walk.at # End => m_realms[walk.at] # NoRow
       /\ walk.settled => main = "waiting" /\ walk.listed = TellPassed(walk.at, walk.build))
BY DEF Walking, Passed, TellPassed

(* While the main thread waits, what the map lacks is not to be shown.     *)
LEMMA Settled ==
  ASSUME TypeOK, Published, main = "waiting"
  PROVE  \A r \in Realms :
           /\ answer[r] \in Rows \cup {NoRow}
           /\ m_realms[r] = store(answer[r])
           /\ m_realms[r] = NoRow => \A build : ~ Shown(answer[r], build)
           /\ m_realms[r] # NoRow => answer[r] \in Rows
<1> SUFFICES ASSUME NEW r \in Realms
             PROVE  /\ answer[r] \in Rows \cup {NoRow}
                    /\ m_realms[r] = store(answer[r])
                    /\ m_realms[r] = NoRow => \A build : ~ Shown(answer[r], build)
                    /\ m_realms[r] # NoRow => answer[r] \in Rows
  OBVIOUS
<1>1. answer[r] \in Rows \cup {NoRow}
  BY DEF TypeOK
<1>2. main # "cleared" /\ rows = Empty
  BY DEF Published
<1>3. rows[r] = NoRow
  BY <1>2 DEF Empty
<1>4. m_realms[r] = store(answer[r])
  BY <1>2, <1>3 DEF Published
<1>5. m_realms[r] = NoRow => answer[r] = NoRow \/ ~ answer[r].resolves
  BY <1>1, <1>4, StoredRow
<1>6. answer[r] = NoRow => store(answer[r]) = NoRow
  BY DEF store
<1> QED
  BY <1>1, <1>4, <1>5, <1>6 DEF Shown

(* From one realm of the map to the next nothing is missed.                *)
LEMMA WalkOn ==
  ASSUME TypeOK, Published, main = "waiting", NEW build \in Nat,
         NEW at \in Realms, m_realms[at] # NoRow
  PROVE  TellPassed(following(at), build) =
           TellPassed(at, build)
             \cup (IF hidden(m_realms[at], build) THEN {} ELSE {entry(at, build)})
<1> DEFINE next == following(at)
<1>1. at \in Nat /\ at # End /\ \A q \in Realms : q \in Nat
  BY RealmAssumption DEF End
<1>2. answer[at] \in Rows /\ m_realms[at] = store(answer[at]) /\ store(answer[at]) # NoRow
  BY Settled
<1>3. /\ hidden(m_realms[at], build) <=> ~ Shown(answer[at], build)
      /\ entry(at, build) = Told(at, answer[at], build)
  BY <1>2, EntryIsTold
<1>4. next = End \/ (next \in Nat /\ next > at)
  BY <1>1, Following, RealmAssumption
<1>5. \A q \in Realms : q > at /\ (next = End \/ q < next) => m_realms[q] = NoRow
  BY <1>1, Following
<1>6. \A q \in Realms : q > at /\ (next = End \/ q < next) => ~ Shown(answer[q], build)
  BY <1>5, Settled
<1> HIDE DEF next
<1>7. \A q \in Realms : Shown(answer[q], build) =>
        ((next = End \/ q < next) <=> (q < at \/ q = at))
  BY <1>1, <1>4, <1>6
<1>8. {q \in Realms : Shown(answer[q], build) /\ (next = End \/ q < next)} =
        {q \in Realms : Shown(answer[q], build) /\ (at = End \/ q < at)}
          \cup {q \in {at} : Shown(answer[q], build)}
  BY <1>1, <1>7
<1>9. TellPassed(next, build) =
        TellPassed(at, build)
          \cup {Told(q, answer[q], build) : q \in {p \in {at} : Shown(answer[p], build)}}
  BY <1>8 DEF TellPassed
<1>10. {Told(q, answer[q], build) : q \in {p \in {at} : Shown(answer[p], build)}} =
         IF hidden(m_realms[at], build) THEN {} ELSE {entry(at, build)}
  BY <1>3
<1> QED
  BY <1>9, <1>10 DEF next

(* Before the first realm of the map there is nothing to list.             *)
LEMMA WalkFrom ==
  ASSUME TypeOK, Published, main = "waiting", NEW build \in Nat
  PROVE  TellPassed(following(0), build) = {}
<1> DEFINE next == following(0)
<1>1. \A q \in Realms : q \in Nat /\ q > 0
  BY RealmAssumption
<1>2. \A q \in Realms : (next = End \/ q < next) => m_realms[q] = NoRow
  BY <1>1, Following
<1>3. \A q \in Realms : (next = End \/ q < next) => ~ Shown(answer[q], build)
  BY <1>2, Settled
<1> QED
  BY <1>3 DEF TellPassed

-------------------------------------------------------------------------------
(* The invariant.                                                          *)

LEMMA InitInv == Init => Inv
<1> SUFFICES ASSUME Init PROVE Inv
  OBVIOUS
<1> USE DEF Init
<1>1. Empty \in [Realms -> Rows \cup {NoRow}]
  BY DEF Empty
<1>2. [r \in Realms |-> select(table[r])] \in [Realms -> Rows \cup {NoRow}]
  BY Selected
<1>3. answer \in [Realms -> Rows \cup {NoRow}]
  BY <1>1, <1>2
<1>4. walk = Idle
  OBVIOUS
<1>5. WalkTyped
  BY <1>4 DEF WalkTyped, Idle, End
<1>6. TypeOK
  BY <1>1, <1>3, <1>4, BoundAssumption DEF TypeOK, Idle
<1>7. \A r \in Realms : store(answer[r]) = NoRow \/ store(answer[r]) \in AnyRow
  BY <1>3, StoredRow
<1>8. MapTyped
  BY <1>7 DEF MapTyped
<1>9. Stored
  BY <1>3, StoredRow DEF Stored
<1>10. Published
  BY DEF Published, Empty
<1>11. Walking
  BY <1>4 DEF Walking, Idle
<1> QED
  BY <1>5, <1>6, <1>8, <1>9, <1>10, <1>11 DEF Inv

LEMMA TableChangesStep ==
  ASSUME Inv, TableChanges
  PROVE  Inv'
<1> USE DEF Inv, TableChanges
<1>1. table' \in [Realms -> Rows \cup {NoRow}]
  <2>1. PICK r \in Realms, row \in Rows \cup {NoRow} : table' = [table EXCEPT ![r] = row]
    OBVIOUS
  <2> QED
    BY <2>1 DEF TypeOK
<1>2. changes' \in 0 .. MaxChanges
  BY BoundAssumption DEF TypeOK
<1>3. TypeOK'
  BY <1>1, <1>2 DEF TypeOK
<1>4. WalkTyped' /\ MapTyped' /\ Stored' /\ Published' /\ Walking'
  BY DEF WalkTyped, MapTyped, Stored, Published, Walking, Passed
<1> QED
  BY <1>3, <1>4

(* A walk that meets a refresh keeps its place and its list, and is not    *)
(* settled any more.                                                       *)
LEMMA Met ==
  ASSUME TypeOK, WalkTyped, NEW outcomes, outcomes \subseteq {"running", "undefined"},
         meet(outcomes)
  PROVE  /\ WalkTyped'
         /\ walk'.build = walk.build /\ walk'.at = walk.at /\ walk'.listed = walk.listed
         /\ walk'.active = walk.active /\ walk'.settled = FALSE
         /\ process' \in {"running", "undefined"}
         /\ walk.active => process' \in outcomes
<1>1. walk' = [walk EXCEPT !.settled = FALSE]
  BY DEF meet
<1>2. process' \in IF walk.active THEN outcomes ELSE {"running"}
  BY DEF meet
<1> QED
  BY <1>1, <1>2 DEF WalkTyped

LEMMA TimerExpiresStep ==
  ASSUME Inv, TimerExpires
  PROVE  Inv'
<1> USE DEF Inv, TimerExpires
<1> DEFINE outcomes == IF walk.at = End THEN {"running", "undefined"} ELSE {"undefined"}
<1>1. /\ WalkTyped'
      /\ walk'.build = walk.build /\ walk'.at = walk.at /\ walk'.listed = walk.listed
      /\ walk'.active = walk.active /\ walk'.settled = FALSE
      /\ process' \in {"running", "undefined"}
      /\ walk.active => process' \in outcomes
  BY Met
<1>2. TypeOK'
  BY <1>1 DEF TypeOK, WalkTyped
<1>3. m_realms' = Empty /\ \A r \in Realms : m_realms'[r] = NoRow
  BY DEF Empty
<1>4. MapTyped' /\ Stored'
  BY <1>3 DEF MapTyped, Stored, Empty
<1>5. Published'
  BY <1>3 DEF Published
<1>6. Walking'
  BY <1>1 DEF Walking
<1> QED
  BY <1>1, <1>2, <1>4, <1>5, <1>6

(* The query only turns to the rows: the walk sees nothing of it.          *)
LEMMA QueryStep ==
  ASSUME Inv, Query \/ QueryFails
  PROVE  Inv'
<1> USE DEF Inv
<1>1. /\ main = "cleared" /\ main' = "filling" /\ answer' = rows'
      /\ UNCHANGED <<table, changes, m_realms, walk, process>>
  BY DEF Query, QueryFails
<1>2. rows' \in [Realms -> Rows \cup {NoRow}]
  <2>1. CASE Query
    <3>1. \A r \in Realms : select(table[r]) \in Rows \cup {NoRow}
      BY Selected DEF TypeOK
    <3> QED
      BY <2>1, <3>1 DEF Query
  <2>2. CASE QueryFails
    BY <2>2 DEF QueryFails, Empty
  <2> QED
    BY <2>1, <2>2
<1>3. TypeOK'
  BY <1>1, <1>2 DEF TypeOK
<1>4. \A r \in Realms : m_realms'[r] = NoRow
  BY <1>1 DEF Published, Empty
<1>5. Published'
  BY <1>1, <1>4 DEF Published, store
<1>6. Walking'
  BY <1>1 DEF Walking
<1> QED
  BY <1>1, <1>3, <1>5, <1>6 DEF WalkTyped, MapTyped, Stored

LEMMA SkipRowStep ==
  ASSUME Inv, NEW r \in Realms, SkipRow(r)
  PROVE  Inv'
<1> USE DEF Inv, SkipRow
<1>1. rows' = [rows EXCEPT ![r] = NoRow] /\ main = "filling"
  OBVIOUS
<1>2. rows' \in [Realms -> Rows \cup {NoRow}]
  BY <1>1 DEF TypeOK
<1>3. TypeOK'
  BY <1>2 DEF TypeOK
<1>4. \A q \in Realms : IF rows[q] = NoRow THEN m_realms[q] = store(answer[q])
                                           ELSE rows[q] = answer[q] /\ m_realms[q] = NoRow
  BY <1>1 DEF Published
<1>5. \A q \in Realms : rows'[q] = IF q = r THEN NoRow ELSE rows[q]
  BY <1>1 DEF TypeOK
<1>6. Published'
  BY <1>1, <1>4, <1>5 DEF Published
<1>7. WalkTyped' /\ MapTyped' /\ Stored' /\ Walking'
  BY DEF WalkTyped, MapTyped, Stored, Walking, Passed
<1> QED
  BY <1>3, <1>6, <1>7

LEMMA StoreRowStep ==
  ASSUME Inv, NEW r \in Realms, StoreRow(r)
  PROVE  Inv'
<1> USE DEF Inv, StoreRow
<1>1. /\ rows' = [rows EXCEPT ![r] = NoRow] /\ main = "filling" /\ main' = main
      /\ m_realms' = [m_realms EXCEPT ![r] = store(rows[r])]
      /\ store(rows[r]) # NoRow /\ rows[r] \in Rows /\ rows[r] # NoRow
  BY DEF TypeOK
<1>2. /\ WalkTyped'
      /\ walk'.build = walk.build /\ walk'.at = walk.at /\ walk'.listed = walk.listed
      /\ walk'.active = walk.active /\ walk'.settled = FALSE
      /\ process' \in {"running", "undefined"}
  BY Met
<1>3. rows' \in [Realms -> Rows \cup {NoRow}]
  BY <1>1 DEF TypeOK
<1>4. TypeOK'
  BY <1>2, <1>3 DEF TypeOK, WalkTyped
<1>5. store(rows[r]) \in AnyRow /\ store(rows[r]).type \in 0 .. 13
  BY <1>1, StoredRow
<1>6. \A q \in Realms : m_realms'[q] = IF q = r THEN store(rows[r]) ELSE m_realms[q]
  BY <1>1 DEF MapTyped
<1>7. MapTyped'
  BY <1>1, <1>5 DEF MapTyped
<1>8. Stored'
  BY <1>5, <1>6 DEF Stored
<1>9. \A q \in Realms : IF rows[q] = NoRow THEN m_realms[q] = store(answer[q])
                                           ELSE rows[q] = answer[q] /\ m_realms[q] = NoRow
  BY <1>1 DEF Published
<1>10. \A q \in Realms : rows'[q] = IF q = r THEN NoRow ELSE rows[q]
  BY <1>1 DEF TypeOK
<1>11. Published'
  BY <1>1, <1>6, <1>9, <1>10 DEF Published
<1>12. Walking'
  <2>1. ASSUME process' = "running", walk.active, walk.at # End
        PROVE  m_realms'[walk.at] # NoRow
    <3>1. walk.at \in Realms /\ m_realms[walk.at] # NoRow
      BY <2>1 DEF Walking, WalkTyped
    <3> QED
      BY <1>1, <1>6, <3>1
  <2> QED
    BY <1>2, <2>1 DEF Walking
<1> QED
  BY <1>2, <1>4, <1>7, <1>8, <1>11, <1>12

LEMMA RearmTimerStep ==
  ASSUME Inv, RearmTimer
  PROVE  Inv'
<1> USE DEF Inv, RearmTimer
<1>1. TypeOK' /\ WalkTyped' /\ MapTyped' /\ Stored'
  BY DEF TypeOK, WalkTyped, MapTyped, Stored
<1>2. Published'
  BY DEF Published
<1>3. Walking'
  BY DEF Walking, Passed
<1> QED
  BY <1>1, <1>2, <1>3

LEMMA BeginWalkStep ==
  ASSUME Inv, BeginWalk
  PROVE  Inv'
<1> USE DEF Inv, BeginWalk
<1>1. PICK build \in Builds :
        walk' = [build |-> build, at |-> following(0), listed |-> {},
                 active |-> TRUE, settled |-> main = "waiting"]
  OBVIOUS
<1>2. build \in Nat
  BY ClientAssumption
<1>3. following(0) \in Realms \cup {End}
  BY FollowingTyped
<1>4. WalkTyped'
  BY <1>1, <1>3 DEF WalkTyped
<1>5. TypeOK'
  BY <1>4 DEF TypeOK, WalkTyped
<1>6. MapTyped' /\ Stored' /\ Published'
  BY DEF MapTyped, Stored, Published
<1>7. following(0) # End => m_realms[following(0)] # NoRow
  BY Following
<1>8. main = "waiting" => TellPassed(following(0), build) = {}
  BY <1>2, WalkFrom
<1>9. Walking'
  BY <1>1, <1>7, <1>8 DEF Walking, Passed, TellPassed
<1> QED
  BY <1>4, <1>5, <1>6, <1>9

LEMMA WalkOverStep ==
  ASSUME Inv, WalkOver
  PROVE  Inv'
<1> USE DEF Inv, WalkOver
<1> DEFINE at == walk.at
           build == walk.build
           more == IF hidden(m_realms[at], build) THEN {} ELSE {entry(at, build)}
<1>1. /\ at \in Realms /\ at \in Nat /\ build \in Nat /\ m_realms[at] # NoRow
      /\ walk.listed \subseteq Entries
  BY RealmAssumption, ClientAssumption DEF WalkTyped, Walking
<1>2. /\ walk'.at = following(at) /\ walk'.listed = walk.listed \cup more
      /\ walk'.build = build /\ walk'.active = walk.active /\ walk'.settled = walk.settled
      /\ walk' = [walk EXCEPT !.at = following(at), !.listed = walk.listed \cup more]
  BY DEF WalkTyped
<1>3. following(at) \in Realms \cup {End}
  BY <1>1, FollowingTyped
<1>4. entry(at, build) \in Entries
  BY <1>1, EntryTyped
<1>5. walk.listed \cup more \in SUBSET Entries
  BY <1>1, <1>4
<1>6. following(at) # End => m_realms[following(at)] # NoRow
  BY <1>1, Following
<1>7. main = "waiting" => TellPassed(following(at), build) = TellPassed(at, build) \cup more
  BY <1>1, WalkOn
<1>8. walk.settled => main = "waiting" /\ walk.listed = TellPassed(at, build)
  BY WalkingSays
<1> HIDE DEF more
<1>9. WalkTyped'
  BY <1>2, <1>3, <1>5 DEF WalkTyped
<1>10. TypeOK'
  BY <1>9 DEF TypeOK, WalkTyped
<1>11. MapTyped' /\ Stored' /\ Published'
  BY DEF MapTyped, Stored, Published
<1>12. walk.settled => walk'.listed = TellPassed(walk'.at, walk'.build)
  BY <1>2, <1>7, <1>8
<1>13. Walking'
  BY <1>2, <1>6, <1>8, <1>12 DEF Walking, Passed, TellPassed
<1> QED
  BY <1>9, <1>10, <1>11, <1>13

LEMMA EndWalkStep ==
  ASSUME Inv, EndWalk
  PROVE  Inv'
<1> USE DEF Inv, EndWalk
<1>1. WalkTyped' /\ Walking'
  BY DEF WalkTyped, Walking, Idle, End
<1>2. TypeOK'
  BY <1>1 DEF TypeOK, WalkTyped
<1>3. MapTyped' /\ Stored' /\ Published'
  BY DEF MapTyped, Stored, Published
<1> QED
  BY <1>1, <1>2, <1>3

(* The invariant behind the theorems: the map holds what the last query    *)
(* answered as far as it has been dealt with, and a walk that met no       *)
(* refresh has listed what it passed.                                      *)
THEOREM Invariance == Spec => []Inv
<1>1. Inv /\ [Next]_vars => Inv'
  <2> SUFFICES ASSUME Inv, [Next]_vars PROVE Inv'
    OBVIOUS
  <2>1. CASE TableChanges
    BY <2>1, TableChangesStep
  <2>2. CASE TimerExpires
    BY <2>2, TimerExpiresStep
  <2>3. CASE Query \/ QueryFails
    BY <2>3, QueryStep
  <2>4. ASSUME NEW r \in Realms, SkipRow(r) PROVE Inv'
    BY <2>4, SkipRowStep
  <2>5. ASSUME NEW r \in Realms, StoreRow(r) PROVE Inv'
    BY <2>5, StoreRowStep
  <2>6. CASE RearmTimer
    BY <2>6, RearmTimerStep
  <2>7. CASE BeginWalk
    BY <2>7, BeginWalkStep
  <2>8. CASE WalkOver
    BY <2>8, WalkOverStep
  <2>9. CASE EndWalk
    BY <2>9, EndWalkStep
  <2>10. CASE UNCHANGED vars
    BY <2>10 DEF vars, Inv, TypeOK, WalkTyped, MapTyped, Stored, Published, Walking, Passed
  <2> QED
    BY <2>1, <2>2, <2>3, <2>4, <2>5, <2>6, <2>7, <2>8, <2>9, <2>10
       DEF Next, update_realms, realmlist_handler
<1> QED
  BY InitInv, <1>1, PTL DEF Spec

-------------------------------------------------------------------------------
(* Table, map and walk have their types, and no client is told of a type   *)
(* it does not know.                                                       *)
THEOREM TypeCorrect == Spec => []TypeOK
<1>1. Inv => TypeOK
  BY DEF Inv
<1> QED
  BY Invariance, <1>1, PTL

(* A reply put together between two refreshes tells a client of every      *)
(* realm of the last query that can be shown to it, and of no other.       *)
THEOREM SettledIsComplete == Spec => []SettledReplyIsComplete
<1>1. Inv => SettledReplyIsComplete
  BY DEF Inv, Walking, Passed, SettledReplyIsComplete
<1> QED
  BY Invariance, <1>1, PTL

===============================================================================

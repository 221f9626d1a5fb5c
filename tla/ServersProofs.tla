----------------------------- MODULE ServersProofs -----------------------------
(***************************************************************************)
(* The safety properties of Servers, for any number of world servers.      *)
(*                                                                         *)
(* The types say where a program may hold the port or a connection.  The   *)
(* rest of the invariant is that a server about to announce itself holds   *)
(* the port, and that the row is offline while a mark is the last word on  *)
(* it.                                                                     *)
(***************************************************************************)
EXTENDS Servers, TLAPS

AnnouncersListen == \A w \in Worlds : at[w] = "announce" => w \in listening
MarkedIsOffline == marked # {} => offline \in flags

Inv == TypeOK /\ AnnouncersListen /\ MarkedIsOffline /\ StartingIsNotListed

LEMMA Initially == Init => Inv
BY ServersAssumption DEF Init, Inv, TypeOK, AnnouncersListen, MarkedIsOffline,
   StartingIsNotListed, Programs

(* What a program leaves behind when it ends.                              *)
LEMMA EndPreserves ==
  ASSUME Inv, NEW p \in Programs, end(p)
  PROVE  Inv'
<1>1. TypeOK'
  BY ServersAssumption DEF Inv, TypeOK, end, Programs
<1>2. AnnouncersListen'
  BY ServersAssumption DEF Inv, TypeOK, AnnouncersListen, end, Programs
<1>3. MarkedIsOffline'
  BY DEF Inv, MarkedIsOffline, end
<1>4. StartingIsNotListed'
  BY DEF Inv, StartingIsNotListed, end
<1>5. QED
  BY <1>1, <1>2, <1>3, <1>4 DEF Inv

(* The steps both kinds of server take.                                    *)
LEMMA ProgramPreserves ==
  ASSUME Inv, NEW p \in Programs,
         Start(p) \/ Open(p) \/ Stop(p) \/ Close(p) \/ Exit(p) \/ Killed(p)
  PROVE  Inv'
<1> USE ServersAssumption DEF Programs, goto, history
<1>1. CASE Start(p)
  BY <1>1 DEF Start, Inv, TypeOK, AnnouncersListen, MarkedIsOffline, StartingIsNotListed
<1>2. CASE Open(p)
  <2>1. TypeOK'
    BY <1>2 DEF Open, Inv, TypeOK
  <2>2. (AnnouncersListen /\ MarkedIsOffline /\ StartingIsNotListed)'
    BY <1>2 DEF Open, Inv, TypeOK, AnnouncersListen, MarkedIsOffline, StartingIsNotListed
  <2>3. QED
    BY <2>1, <2>2 DEF Inv
<1>3. CASE Stop(p)
  BY <1>3 DEF Stop, Inv, TypeOK, AnnouncersListen, MarkedIsOffline, StartingIsNotListed
<1>4. CASE Close(p)
  BY <1>4 DEF Close, Inv, TypeOK, AnnouncersListen, MarkedIsOffline, StartingIsNotListed
<1>5. CASE Exit(p) \/ Killed(p)
  BY <1>5, EndPreserves DEF Exit, Killed
<1>6. QED
  BY <1>1, <1>2, <1>3, <1>4, <1>5

(* The steps of a world server on its way to its clients.                  *)
LEMMA WorldPreserves ==
  ASSUME Inv, NEW w \in Worlds,
         Mark(w) \/ Bind(w) \/ BindThrows(w) \/ Announce(w) \/ ListenerEnds(w)
  PROVE  Inv'
<1>1. w \in Programs /\ w # Auth
  BY ServersAssumption DEF Programs
<1>2. CASE Mark(w)
  <2>1. TypeOK' /\ AnnouncersListen'
    BY <1>1, <1>2 DEF Mark, set_offline, execute_fails, goto, history, Inv, TypeOK,
       AnnouncersListen
  <2>2. MarkedIsOffline' /\ StartingIsNotListed'
    BY <1>2 DEF Mark, set_offline, execute_fails, history, Inv, MarkedIsOffline,
       StartingIsNotListed
  <2>3. QED
    BY <2>1, <2>2 DEF Inv
<1>3. CASE Bind(w)
  BY <1>1, <1>3 DEF Bind, goto, history, Inv, TypeOK, AnnouncersListen, MarkedIsOffline,
     StartingIsNotListed
<1>4. CASE BindThrows(w)
  BY <1>1, <1>4, EndPreserves DEF BindThrows
<1>5. CASE Announce(w)
  <2>1. TypeOK' /\ AnnouncersListen'
    BY <1>1, <1>5 DEF Announce, set_online, execute_fails, goto, history, Inv, TypeOK,
       AnnouncersListen
  <2>2. MarkedIsOffline' /\ StartingIsNotListed'
    BY <1>5 DEF Announce, set_online, execute_fails, history, Inv, MarkedIsOffline,
       StartingIsNotListed
  <2>3. QED
    BY <2>1, <2>2 DEF Inv
<1>6. CASE ListenerEnds(w)
  BY <1>1, <1>6 DEF ListenerEnds, history, Inv, TypeOK, AnnouncersListen, MarkedIsOffline,
     StartingIsNotListed
<1>7. QED
  BY <1>2, <1>3, <1>4, <1>5, <1>6

(* Wherever the authentication server goes on to, it keeps what it holds.  *)
PlacesOK ==
  /\ at \in [Programs -> {"down", "open", "mark", "bind", "announce", "run", "close", "exit",
                          "clear", "fill", "refill"}]
  /\ connected \subseteq {p \in Programs : at[p] \notin {"down", "open", "exit"}}
  /\ listening \subseteq {w \in Worlds : at[w] \in {"announce", "run", "close", "exit"}}
  /\ AnnouncersListen

LEMMA AuthenticationMoves ==
  ASSUME PlacesOK, NEW here, NEW there \in {"fill", "refill", "bind", "run"},
         goto(Auth, here, there), UNCHANGED <<connected, listening>>
  PROVE  PlacesOK'
<1>1. Auth \in Programs /\ \A w \in Worlds : w # Auth /\ w \in Programs
  BY ServersAssumption DEF Programs
<1>2. at'[Auth] = there /\ \A p \in Programs : p # Auth => at'[p] = at[p]
  BY <1>1 DEF goto, PlacesOK
<1>3. at' \in [Programs -> {"down", "open", "mark", "bind", "announce", "run", "close", "exit",
                           "clear", "fill", "refill"}]
  BY <1>1 DEF goto, PlacesOK
<1>4. QED
  BY <1>1, <1>2, <1>3 DEF PlacesOK, AnnouncersListen

(* The authentication server's own steps: what it fills its list with is   *)
(* the row, which is offline while a mark is the last word on it.          *)
LEMMA AuthenticationPreserves ==
  ASSUME Inv, Clear \/ Fill \/ FillFails \/ AuthBind \/ AuthBindFails
  PROVE  Inv'
<1>1. PlacesOK
  BY DEF PlacesOK, Inv, TypeOK
<1>2. CASE Clear
  <2>1. PlacesOK'
    BY <1>1, <1>2, AuthenticationMoves DEF Clear
  <2>2. QED
    BY <1>2, <2>1 DEF Clear, PlacesOK, Inv, TypeOK, MarkedIsOffline, StartingIsNotListed
<1>3. CASE Fill
  <2>1. PlacesOK'
    BY <1>1, <1>3, AuthenticationMoves DEF Fill, filled
  <2>2. select \in {"none", "offline", "online"} /\ (offline \in flags => select # "online")
    BY DEF select
  <2>3. refreshed # {} => marked # {}
    BY DEF Inv, TypeOK
  <2>4. MarkedIsOffline' /\ StartingIsNotListed'
    BY <1>3, <2>2, <2>3 DEF Fill, history, Inv, MarkedIsOffline, StartingIsNotListed
  <2>5. TypeOK' /\ AnnouncersListen'
    BY <1>3, <2>1, <2>2 DEF Fill, history, PlacesOK, Inv, TypeOK
  <2>6. QED
    BY <2>4, <2>5 DEF Inv
<1>4. CASE FillFails
  <2>1. PlacesOK'
    BY <1>1, <1>4, AuthenticationMoves DEF FillFails, filled
  <2>2. QED
    BY <1>4, <2>1 DEF FillFails, history, PlacesOK, Inv, TypeOK, MarkedIsOffline,
       StartingIsNotListed
<1>5. CASE AuthBind
  <2>1. PlacesOK'
    BY <1>1, <1>5, AuthenticationMoves DEF AuthBind
  <2>2. QED
    BY <1>5, <2>1 DEF AuthBind, history, PlacesOK, Inv, TypeOK, MarkedIsOffline,
       StartingIsNotListed
<1>6. CASE AuthBindFails
  BY <1>6, EndPreserves DEF AuthBindFails, Programs
<1>7. QED
  BY <1>2, <1>3, <1>4, <1>5, <1>6

LEMMA DatabasePreserves ==
  ASSUME Inv, DatabaseStops \/ DatabaseStarts
  PROVE  Inv'
BY DEF DatabaseStops, DatabaseStarts, history, Inv, TypeOK, AnnouncersListen, MarkedIsOffline,
   StartingIsNotListed

LEMMA StepPreserves ==
  ASSUME Inv, [Next]_vars
  PROVE  Inv'
<1>1. CASE \E w \in Worlds : World(w)
  <2>1. PICK w \in Worlds : World(w)
    BY <1>1
  <2>2. w \in Programs
    BY DEF Programs
  <2>3. QED
    BY <2>1, <2>2, ProgramPreserves, WorldPreserves DEF World
<1>2. CASE Authentication
  <2>1. Auth \in Programs
    BY DEF Programs
  <2>2. QED
    BY <1>2, <2>1, ProgramPreserves, AuthenticationPreserves DEF Authentication
<1>3. CASE DatabaseStops \/ DatabaseStarts
  BY <1>3, DatabasePreserves
<1>4. CASE UNCHANGED vars
  BY <1>4 DEF vars, history, Inv, TypeOK, AnnouncersListen, MarkedIsOffline, StartingIsNotListed
<1>5. QED
  BY <1>1, <1>2, <1>3, <1>4 DEF Next

(* The invariant holds however many world servers come, go and die.        *)
THEOREM Invariance == Spec => []Inv
<1>1. Inv /\ [Next]_vars => Inv'
  BY StepPreserves
<1>2. QED
  BY Initially, <1>1, PTL DEF Spec

(* The port belongs to one server, and nobody keeps a connection or the    *)
(* port beyond its end.                                                    *)
THEOREM TypeCorrect == Spec => []TypeOK
<1>1. Inv => TypeOK
  BY DEF Inv
<1>2. QED
  BY Invariance, <1>1, PTL

(* No start of a server is listed as online before it listens.             *)
THEOREM StartingIsNeverListed == Spec => []StartingIsNotListed
<1>1. Inv => StartingIsNotListed
  BY DEF Inv
<1>2. QED
  BY Invariance, <1>1, PTL

(* Only Announce takes the offline flag away, and it comes after the bind  *)
(* of the same server.                                                     *)
LEMMA OnlineStep ==
  ASSUME Inv, [Next]_vars, offline \in flags \ flags'
  PROVE  \E w \in listening : at[w] = "announce" /\ at'[w] = "run"
<1>1. PICK w \in Worlds : Announce(w)
  BY DEF Next, World, Authentication, Start, Open, Mark, Bind, BindThrows, ListenerEnds, Stop,
     Close, Exit, Killed, Clear, Fill, FillFails, AuthBind, AuthBindFails, DatabaseStops,
     DatabaseStarts, end, set_offline, execute_fails, vars
<1>2. at[w] = "announce" /\ at' = [at EXCEPT ![w] = "run"]
  BY <1>1 DEF Announce, goto
<1>3. at'[w] = "run"
  BY <1>2 DEF Inv, TypeOK, Programs
<1>4. w \in listening
  BY <1>2 DEF Inv, AnnouncersListen
<1>5. QED
  BY <1>2, <1>3, <1>4

(* The step that puts the realm online is one of the server that holds the *)
(* port, and no other server's (World/Main.cpp).                           *)
THEOREM OnlineOnlyByAListener == Spec => OnlineOnlyWhileListening
<1>1. Inv /\ [Next]_vars =>
        [(offline \in flags \ flags') =>
           \E w \in listening : at[w] = "announce" /\ at'[w] = "run"]_vars
  BY OnlineStep
<1>2. QED
  BY Invariance, <1>1, PTL DEF Spec, OnlineOnlyWhileListening
==============================================================================

-------------------------------- MODULE Servers --------------------------------
(***************************************************************************)
(* The life of the programs: world servers, which all mark the one row of  *)
(* the realm (its id is fixed) and listen on one port, and the             *)
(* authentication server, which copies the row into its list every 30      *)
(* seconds.  They meet in the database alone.  Any of them may be killed   *)
(* at any moment and started again, by hand or by a supervisor that starts *)
(* one world server too many; the database may go down, and then every     *)
(* connection is lost for good, because none is ever opened again.         *)
(*                                                                         *)
(* A step is one statement, one system call or one round of the timer.     *)
(* The refresh of RealmList is two steps here: emptied, and filled again.  *)
(***************************************************************************)
CONSTANTS Worlds, Auth

ASSUME ServersAssumption == Auth \notin Worlds

Programs == Worlds \cup {Auth}

version_mismatch == "version_mismatch"
offline == "offline"

VARIABLES
  at,            \* what a program does next
  database,      \* whether the database is up
  connected,     \* programs whose handle reaches the database
  listening,     \* world servers that hold the port
  flags,         \* of the row, as far as the programs look at them
  realms,        \* the authentication server's list: what it says of the realm
  marked,        \* history: world servers whose start has marked the row offline,
                 \* with no other server announcing itself after that
  refreshed,     \* history: those, once the list was emptied after the mark
  announced      \* history: the servers that announced themselves, with no mark after

vars == <<at, database, connected, listening, flags, realms,
          marked, refreshed, announced>>
history == <<marked, refreshed, announced>>

Init ==
  /\ at = [p \in Programs |-> "down"]
  /\ database \in BOOLEAN
  /\ connected = {}
  /\ listening = {}
  /\ flags \in SUBSET {version_mismatch, offline}
  /\ realms = "none"
  /\ marked = {}
  /\ refreshed = {}
  /\ announced = {}

goto(p, here, there) == at[p] = here /\ at' = [at EXCEPT ![p] = there]

(* What is gone with the process.                                          *)
end(p) ==
  /\ at' = [at EXCEPT ![p] = "down"]
  /\ connected' = connected \ {p}
  /\ listening' = listening \ {p}
  /\ marked' = marked \ {p}
  /\ refreshed' = refreshed \ {p}
  /\ announced' = announced \ {p}
  /\ realms' = IF p = Auth THEN "none" ELSE realms
  /\ UNCHANGED <<database, flags>>

Start(p) ==
  /\ goto(p, "down", "open")
  /\ UNCHANGED <<database, connected, listening, flags, realms, history>>

Killed(p) == at[p] # "down" /\ end(p)

(* A server that cannot connect goes on without a handle: no statement     *)
(* of it does anything.                                                    *)
Open(p) ==
  /\ goto(p, "open", IF p = Auth THEN "clear" ELSE "mark")
  /\ \/ database /\ connected' = connected \cup {p}
     \/ UNCHANGED connected
  /\ UNCHANGED <<database, listening, flags, realms, history>>

(* Faulty variant: the connection is left to itself.                       *)
Close_forgotten(p) ==
  /\ goto(p, "close", "exit")
  /\ UNCHANGED <<connected, database, listening, flags, realms, history>>

Close(p) ==
  /\ goto(p, "close", "exit")
  /\ connected' = connected \ {p}
  /\ UNCHANGED <<database, listening, flags, realms, history>>

Exit(p) == at[p] = "exit" /\ end(p)

-----------------------------------------------------------------------------
(* Nobody looks at the result of Connection::execute.                      *)

(* Faulty variant: the bit is cleared, as in the statement further down.   *)
set_offline_cleared(w) ==
  /\ flags' = flags \ {offline}
  /\ marked' = marked \cup {w}
  /\ refreshed' = refreshed \ {w}
  /\ announced' = {}

set_offline(w) ==
  /\ flags' = flags \cup {offline}
  /\ marked' = marked \cup {w}
  /\ refreshed' = refreshed \ {w}
  /\ announced' = {}

(* Faulty variant: the bit is flipped; the mark may have failed.           *)
set_online_flipped(w) ==
  /\ flags' = IF offline \in flags THEN flags \ {offline} ELSE flags \cup {offline}
  /\ marked' = {}
  /\ refreshed' = {}
  /\ announced' = announced \cup {w}

set_online(w) ==
  /\ flags' = flags \ {offline}
  /\ marked' = {}
  /\ refreshed' = {}
  /\ announced' = announced \cup {w}

execute_fails == UNCHANGED <<flags, history>>

Mark(w) ==
  /\ goto(w, "mark", "bind")
  /\ (w \in connected /\ set_offline(w)) \/ execute_fails
  /\ UNCHANGED <<database, connected, listening, realms>>

(* The constructor of the acceptor throws while another server has the     *)
(* port, and the program ends.                                             *)
Bind(w) ==
  /\ listening = {}
  /\ goto(w, "bind", "announce")
  /\ listening' = {w}
  /\ UNCHANGED <<database, connected, flags, realms, history>>

(* Faulty variant: the port is opened with an error code nobody reads.     *)
BindThrows_unread(w) ==
  /\ goto(w, "bind", "announce")
  /\ UNCHANGED <<database, connected, listening, flags, realms, history>>

BindThrows(w) == at[w] = "bind" /\ end(w)

(* Signals are handled from here on.                                       *)
Announce(w) ==
  /\ goto(w, "announce", "run")
  /\ (w \in connected /\ set_online(w)) \/ execute_fails
  /\ UNCHANGED <<database, connected, listening, realms>>

(* An accept that fails, or a client gone before it is greeted, ends the   *)
(* listener: it closes the port, and nobody takes notice of its exception. *)
ListenerEnds(w) ==
  /\ at[w] = "run"
  /\ w \in listening
  /\ listening' = {}
  /\ UNCHANGED <<at, database, connected, flags, realms, history>>

Stop(p) ==
  /\ goto(p, "run", "close")
  /\ UNCHANGED <<database, connected, listening, flags, realms, history>>

World(w) ==
  \/ Start(w) \/ Open(w) \/ Mark(w) \/ Bind(w) \/ BindThrows(w) \/ Announce(w)
  \/ ListenerEnds(w) \/ Stop(w) \/ Close(w) \/ Exit(w) \/ Killed(w)

-----------------------------------------------------------------------------
(* WHERE flags <> 3.                                                       *)
select == IF flags = {version_mismatch, offline} THEN "none"
          ELSE IF offline \in flags THEN "offline" ELSE "online"

(* At the start, and when the timer has expired.                           *)
Clear ==
  /\ goto(Auth, "clear", "fill") \/ goto(Auth, "run", "refill")
  /\ realms' = "none"
  /\ refreshed' = marked
  /\ UNCHANGED <<database, connected, listening, flags, marked, announced>>

filled == goto(Auth, "fill", "bind") \/ goto(Auth, "refill", "run")

Fill ==
  /\ filled
  /\ Auth \in connected
  /\ realms' = select
  /\ UNCHANGED <<database, connected, listening, flags, history>>

FillFails ==
  /\ filled
  /\ UNCHANGED <<database, connected, listening, flags, realms, history>>

AuthBind ==
  /\ goto(Auth, "bind", "run")
  /\ UNCHANGED <<database, connected, listening, flags, realms, history>>

AuthBindFails == at[Auth] = "bind" /\ end(Auth)

Authentication ==
  \/ Start(Auth) \/ Open(Auth) \/ Clear \/ Fill \/ FillFails \/ AuthBind \/ AuthBindFails
  \/ Stop(Auth) \/ Close(Auth) \/ Exit(Auth) \/ Killed(Auth)

-----------------------------------------------------------------------------
DatabaseStops ==
  /\ database
  /\ database' = FALSE
  /\ connected' = {}
  /\ UNCHANGED <<at, listening, flags, realms, history>>

DatabaseStarts ==
  /\ ~ database
  /\ database' = TRUE
  /\ UNCHANGED <<at, connected, listening, flags, realms, history>>

Next ==
  \/ \E w \in Worlds : World(w)
  \/ Authentication
  \/ DatabaseStops \/ DatabaseStarts

Spec == Init /\ [][Next]_vars

(* The timer of the refresh expires again and again, and a query repeated  *)
(* for ever over a live connection is answered some time.  No program need *)
(* start, stop or stay up.                                                 *)
FairSpec == Spec /\ WF_vars(Clear \/ Fill \/ FillFails) /\ SF_vars(Fill)

-----------------------------------------------------------------------------
(* Types, and what a program can hold where: the port belongs to one       *)
(* server, from its bind on, and no connection outlives close.             *)
TypeOK ==
  /\ at \in [Programs -> {"down", "open", "mark", "bind", "announce", "run", "close", "exit",
                          "clear", "fill", "refill"}]
  /\ database \in BOOLEAN
  /\ connected \subseteq {p \in Programs : at[p] \notin {"down", "open", "exit"}}
  /\ connected # {} => database
  /\ listening \subseteq {w \in Worlds : at[w] \in {"announce", "run", "close", "exit"}}
  /\ \A v, w \in listening : v = w
  /\ flags \subseteq {version_mismatch, offline}
  /\ realms \in {"none", "offline", "online"}
  /\ refreshed \subseteq marked /\ marked \subseteq Worlds /\ announced \subseteq Worlds

(* While a world server is starting, clients are not sent to it: a list    *)
(* filled after it marked its realm does not call the realm online, unless *)
(* another server has announced itself since.                              *)
StartingIsNotListed == refreshed # {} => realms # "online"

(* Only a server that holds the port puts the realm online, and it is      *)
(* announcing itself, past its bind: be its own mark lost, its predecessor *)
(* dead or a second server started by mistake while it listens.            *)
OnlineOnlyWhileListening ==
  [][(offline \in flags \ flags') =>
       \E w \in listening : at[w] = "announce" /\ at'[w] = "run"]_vars

(* A realm that was announced, and not marked offline by another start     *)
(* since, is listed as online again and again, and never for good as       *)
(* offline, whatever happened before - as long as the authentication       *)
(* server keeps the connection it opened at its own start.                 *)
AnnouncedIsListed ==
  <>[](announced # {} /\ Auth \in connected /\ at[Auth] \in {"run", "refill"}) =>
    []<>(realms = "online") /\ <>[](realms # "offline")
==============================================================================

--------------------------------- MODULE Logon ---------------------------------
(***************************************************************************)
(* The three command handlers of Authentication::Session: what a session   *)
(* remembers of its client between frames, and what it replies.            *)
(*                                                                         *)
(* A frame is a message here (SessionRead turns bytes into frames), a      *)
(* reply is logged when it is queued (Network sends it).  All sessions run *)
(* on one network thread, so a handler is one step.  A client's password   *)
(* proof is modelled by what it was computed from: an account and the      *)
(* public key B of one challenge.                                          *)
(*                                                                         *)
(* A handler that fails an assertion, or lets an exception out of the      *)
(* thread function, ends the process and every session with it.  Races     *)
(* with the main thread on the realm list and on the database handle are   *)
(* not here: they are RealmList's and Database's.                          *)
(***************************************************************************)
EXTENDS Naturals, Sequences, FiniteSets, FiniteSetsExt

CONSTANTS
  Sessions,
  Accounts,                  \* usernames of the account table
  account_id,                \* account_id[u]: the id column, positive
  Builds,                    \* client builds a challenge may carry
  m_builds,                  \* those of the build_information table
  max_pre_bc_client_build,
  NDEBUG,                    \* assertions are compiled out
  NoSrp6,                    \* the empty std::optional<Srp6>
  NoKey,                     \* the zero m_session_key
  MaxFrames                  \* bound: frames handled by all sessions

ASSUME AccountAssumption == account_id \in [Accounts -> Nat \ {0}]
ASSUME BuildAssumption ==
  /\ Builds \subseteq Nat
  /\ m_builds \subseteq Nat
  /\ max_pre_bc_client_build \in Nat
ASSUME DebugAssumption == NDEBUG \in BOOLEAN

VARIABLES
  m_build,
  m_expansion,
  m_account,       \* m_account.id
  m_srp6,
  m_session_key,
  m_closed,
  peer,            \* "connected" or "reset": the client's end of the socket
  process,         \* "running", "asserted" or "terminated"
  contiguous,      \* the subnet masks of the realm list are all netmasks
  issued,          \* how many key pairs (b, B) have been drawn; the last is B
  log              \* history: the frames handled and their replies, by session

vars == <<m_build, m_expansion, m_account, m_srp6, m_session_key, m_closed,
          peer, process, contiguous, issued, log>>

session_vars == <<m_build, m_expansion, m_account, m_srp6, m_session_key>>

(* One Srp6 object: m_I, the random b and its B, and the one-use flag.     *)
Srp6 == [I : Accounts, B : Nat, m_used : BOOLEAN]

(* An optional is empty or holds an object.                                *)
ASSUME OptionalAssumption == NoSrp6 \notin Srp6

NewSrp6(u) == [I |-> u, B |-> issued + 1, m_used |-> FALSE]

(* What a client can compute a proof from: any account and any B sent so   *)
(* far (0: none of them).                                                  *)
Proofs == [I : Accounts, B : 0 .. issued]

build_info(build) == build \in m_builds

(* calculate_expansion_version, with the two RealmList predicates.         *)
expansion(build) ==
  CASE build <= max_pre_bc_client_build /\ build_info(build) -> "pre_bc"
    [] build > max_pre_bc_client_build /\ build_info(build)  -> "post_bc"
    [] OTHER                                                 -> "invalid"

Running(s) ==
  /\ process = "running"
  /\ ~ m_closed[s]
  /\ MapThenSumSet(LAMBDA t : Len(log[t]), Sessions) < MaxFrames

Log(s, entry) == log' = [log EXCEPT ![s] = Append(@, entry)]

-------------------------------------------------------------------------------
(* remote_endpoint() of a connection the peer has reset may throw (the     *)
(* platform decides).  Nothing on the network thread catches it.           *)
remote_address_ok == process' = "running"
remote_address_throws(s) == peer[s] = "reset" /\ process' = "terminated"

(* close_socket: when shutdown fails, its error message asks for the       *)
(* address of the peer.                                                    *)
close_socket(s) ==
  /\ m_closed' = [m_closed EXCEPT ![s] = TRUE]
  /\ remote_address_ok \/ remote_address_throws(s)

Init ==
  /\ m_build = [s \in Sessions |-> 0]
  /\ m_expansion = [s \in Sessions |-> "invalid"]
  /\ m_account = [s \in Sessions |-> 0]
  /\ m_srp6 = [s \in Sessions |-> NoSrp6]
  /\ m_session_key = [s \in Sessions |-> NoKey]
  /\ m_closed = [s \in Sessions |-> FALSE]
  /\ peer = [s \in Sessions |-> "connected"]
  /\ process = "running"
  /\ contiguous \in BOOLEAN
  /\ issued = 0
  /\ log = [s \in Sessions |-> <<>>]

(* The client's connection is reset; the frames already received are still *)
(* handled.                                                                *)
PeerResets(s) ==
  /\ process = "running"
  /\ peer[s] = "connected"
  /\ peer' = [peer EXCEPT ![s] = "reset"]
  /\ UNCHANGED <<session_vars, m_closed, process, contiguous, issued, log>>

(* The main thread reads the realms anew, whatever masks their rows hold.  *)
RealmsUpdated ==
  /\ process = "running"
  /\ contiguous' \in BOOLEAN \ {contiguous}
  /\ UNCHANGED <<session_vars, m_closed, peer, process, issued, log>>

(* The outstanding read fails, or on_read or the length check of the       *)
(* challenge handler rejects a frame.                                      *)
Rejected(s) ==
  /\ Running(s)
  /\ close_socket(s)
  /\ UNCHANGED <<session_vars, peer, contiguous, issued, log>>

-------------------------------------------------------------------------------
(* logon_challenge_handler.  The build and the expansion are stored before *)
(* anything is looked up; account and Srp6 only change when the account is *)
(* found.                                                                  *)

ChallengeEntry(build, u, result, b) ==
  [cmd |-> "challenge", build |-> build, user |-> u, result |-> result, B |-> b]

(* Faulty variant: an unsupported build leaves the expansion as it was.    *)
store_build_if_known(s, build) ==
  /\ m_build' = [m_build EXCEPT ![s] = build]
  /\ m_expansion' = IF build_info(build)
                    THEN [m_expansion EXCEPT ![s] = expansion(build)]
                    ELSE m_expansion

store_build(s, build) ==
  /\ m_build' = [m_build EXCEPT ![s] = build]
  /\ m_expansion' = [m_expansion EXCEPT ![s] = expansion(build)]

VersionInvalid(s, build, u) ==
  /\ ~ build_info(build)
  /\ Log(s, ChallengeEntry(build, u, "login_version_invalid", 0))
  /\ UNCHANGED <<m_account, m_srp6, process, issued>>

(* Faulty variant: the account is loaded before the query is looked at.    *)
UnknownAccount_loaded(s, build, u) ==
  /\ build_info(build)
  /\ m_account' = [m_account EXCEPT ![s] = account_id[u]]
  /\ Log(s, ChallengeEntry(build, u, "login_unknown_account", 0))
  /\ UNCHANGED <<m_srp6, process, issued>>

(* Faulty variant: the pending login is forgotten, its account is not.     *)
UnknownAccount_srp6_reset(s, build, u) ==
  /\ build_info(build)
  /\ m_srp6' = [m_srp6 EXCEPT ![s] = NoSrp6]
  /\ Log(s, ChallengeEntry(build, u, "login_unknown_account", 0))
  /\ UNCHANGED <<m_account, process, issued>>

(* No such account, or the query failed.                                   *)
UnknownAccount(s, build, u) ==
  /\ build_info(build)
  /\ Log(s, ChallengeEntry(build, u, "login_unknown_account", 0))
  /\ UNCHANGED <<m_account, m_srp6, process, issued>>

(* Faulty variants: only the first challenge gets an Srp6 object, or a new *)
(* object inherits the used flag of the old.                               *)
emplaced_once(s, u) == IF m_srp6[s] = NoSrp6 THEN NewSrp6(u) ELSE m_srp6[s]
emplaced_used_kept(s, u) ==
  [NewSrp6(u) EXCEPT !.m_used = m_srp6[s] # NoSrp6 /\ m_srp6[s].m_used]

(* m_srp6.emplace: a new object, whatever was there.                       *)
emplaced(s, u) == NewSrp6(u)

AccountFound(s, build, u) ==
  /\ build_info(build)
  /\ m_account' = [m_account EXCEPT ![s] = account_id[u]]
  /\ m_srp6' = [m_srp6 EXCEPT ![s] = emplaced(s, u)]
  /\ issued' = issued + 1
  /\ \/ /\ remote_address_ok
        /\ Log(s, ChallengeEntry(build, u, "login_ok", m_srp6'[s].B))
     \/ /\ remote_address_throws(s)
        /\ Log(s, ChallengeEntry(build, u, "no_reply", 0))

logon_challenge_handler(s, build, u) ==
  /\ Running(s)
  /\ store_build(s, build)
  /\ \/ VersionInvalid(s, build, u)
     \/ UnknownAccount(s, build, u)
     \/ AccountFound(s, build, u)
  /\ UNCHANGED <<m_session_key, m_closed, peer, contiguous>>

-------------------------------------------------------------------------------
(* logon_proof_handler.                                                    *)

ProofEntry(s, proof, result) ==
  [cmd |-> "proof", proof |-> proof, result |-> result, format |-> m_expansion[s]]

(* Faulty variant: the proof is not bound to the B of this session.        *)
Verified_any_B(s, proof) == proof.I = m_srp6[s].I

Verified(s, proof) == proof = [I |-> m_srp6[s].I, B |-> m_srp6[s].B]

ProofRefused(s, proof) ==
  /\ m_expansion[s] = "invalid"
  /\ close_socket(s)
  /\ Log(s, ProofEntry(s, proof, "no_reply"))
  /\ UNCHANGED <<m_srp6, m_session_key>>

(* m_srp6 is dereferenced without asking whether it holds a value: the     *)
(* process dies on what it finds there, or a client key that is zero       *)
(* modulo N makes the verification give up before it gets that far.        *)
ProofWithoutChallenge(s, proof) ==
  /\ m_expansion[s] # "invalid"
  /\ m_srp6[s] = NoSrp6
  /\ \/ /\ process' = "terminated"
        /\ Log(s, ProofEntry(s, proof, "no_reply"))
     \/ /\ process' = "running"
        /\ Log(s, ProofEntry(s, proof, "login_unknown_account"))
  /\ UNCHANGED <<m_srp6, m_session_key, m_closed>>

(* Faulty variant: the Srp6 object is not marked as used.                  *)
mark_used_forgotten(s) == UNCHANGED m_srp6

mark_used(s) == m_srp6' = [m_srp6 EXCEPT ![s].m_used = TRUE]

(* assert(!m_used) in verify_challenge.                                    *)
ProofReused(s, proof) ==
  /\ m_expansion[s] # "invalid"
  /\ m_srp6[s] # NoSrp6
  /\ m_srp6[s].m_used /\ ~ NDEBUG
  /\ process' = "asserted"
  /\ Log(s, ProofEntry(s, proof, "no_reply"))
  /\ UNCHANGED <<m_srp6, m_session_key, m_closed>>

ProofVerified(s, proof, token) ==
  /\ m_expansion[s] # "invalid"
  /\ m_srp6[s] # NoSrp6
  /\ m_srp6[s].m_used => NDEBUG
  /\ mark_used(s)
  /\ \/ /\ ~ Verified(s, proof)
        /\ Log(s, ProofEntry(s, proof, "login_unknown_account"))
        /\ UNCHANGED <<m_session_key, process>>
     \/ /\ Verified(s, proof)
        /\ m_session_key' = [m_session_key EXCEPT ![s] = proof]
        /\ \/ /\ token
              /\ Log(s, ProofEntry(s, proof, "login_unknown_account"))
              /\ UNCHANGED process
           \/ /\ ~ token
              /\ \/ /\ remote_address_ok
                    /\ Log(s, ProofEntry(s, proof, "login_ok"))
                 \/ /\ remote_address_throws(s)
                    /\ Log(s, ProofEntry(s, proof, "no_reply"))
  /\ UNCHANGED m_closed

logon_proof_handler(s, proof, token) ==
  /\ Running(s)
  /\ \/ ProofRefused(s, proof)
     \/ ProofWithoutChallenge(s, proof)
     \/ ProofReused(s, proof)
     \/ ProofVerified(s, proof, token)
  /\ UNCHANGED <<m_build, m_expansion, m_account, peer, contiguous, issued>>

-------------------------------------------------------------------------------
(* realmlist_handler asks nothing of the session: the account is the one   *)
(* loaded last, proved or not.  The address of the client is needed once a *)
(* realm is listed, and unless the client is on this host it is looked for *)
(* in the realm's local network, which make_network_v4 only builds from a  *)
(* mask that is a netmask.                                                 *)
address_throws == ~ contiguous /\ process' = "terminated"

realmlist_handler(s) ==
  /\ Running(s)
  /\ LET Entry(result) == [cmd |-> "realmlist", account |-> m_account[s],
                           build |-> m_build[s], format |-> m_expansion[s],
                           result |-> result]
     IN \/ /\ remote_address_ok
           /\ Log(s, Entry("realms"))
        \/ /\ remote_address_throws(s) \/ address_throws
           /\ Log(s, Entry("no_reply"))
  /\ UNCHANGED <<session_vars, m_closed, peer, contiguous, issued>>

Next ==
  \/ RealmsUpdated
  \/ \E s \in Sessions :
       \/ PeerResets(s)
       \/ Rejected(s)
       \/ \E build \in Builds, u \in Accounts : logon_challenge_handler(s, build, u)
       \/ \E proof \in Proofs, token \in BOOLEAN : logon_proof_handler(s, proof, token)
       \/ realmlist_handler(s)

Spec == Init /\ [][Next]_vars

-------------------------------------------------------------------------------
(* Properties.                                                             *)

Results == {"login_ok", "login_unknown_account", "login_version_invalid",
            "realms", "no_reply"}

(* The session fields hold values of their types, and an account is loaded *)
(* exactly when there is an Srp6 object to prove it with.                  *)
TypeOK ==
  /\ m_build \in [Sessions -> Builds \cup {0}]
  /\ m_expansion \in [Sessions -> {"invalid", "pre_bc", "post_bc"}]
  /\ m_account \in [Sessions -> Nat]
  /\ m_srp6 \in [Sessions -> Srp6 \cup {NoSrp6}]
  /\ m_session_key \in [Sessions -> [I : Accounts, B : Nat] \cup {NoKey}]
  /\ m_closed \in [Sessions -> BOOLEAN]
  /\ peer \in [Sessions -> {"connected", "reset"}]
  /\ process \in {"running", "asserted", "terminated"}
  /\ contiguous \in BOOLEAN
  /\ issued \in Nat
  /\ \A s \in Sessions :
       /\ m_srp6[s] = NoSrp6 <=> m_account[s] = 0
       /\ \A i \in DOMAIN log[s] : log[s][i].result \in Results

IsChallenge(e) == e.cmd = "challenge"
IsAccepted(e) == e.cmd = "challenge" /\ e.result = "login_ok"
IsProof(e) == e.cmd = "proof"
IsLogon(e) == e.cmd = "proof" /\ e.result = "login_ok"

(* Entry i is the last of entries 1 .. j-1 that satisfies P.               *)
LastBefore(entries, i, j, P(_)) ==
  /\ i < j
  /\ P(entries[i])
  /\ \A k \in (i + 1) .. (j - 1) : ~ P(entries[k])

(* A client is logged on only for the account and the public key B of the  *)
(* most recent challenge that was accepted on its own session: not with a  *)
(* proof for an earlier challenge, another session or another account.     *)
LogonAnswersLatestChallenge ==
  \A s \in Sessions : \A j \in DOMAIN log[s] :
    IsLogon(log[s][j]) =>
      \E i \in DOMAIN log[s] :
        /\ LastBefore(log[s], i, j, IsAccepted)
        /\ log[s][j].proof = [I |-> log[s][i].user, B |-> log[s][i].B]

(* Every challenge is worth one logon at most, on whatever session and     *)
(* however often its proof is sent.  It rests on the assertion in          *)
(* verify_challenge, so only a build with assertions has it.               *)
OneLogonPerChallenge ==
  \A s, t \in Sessions : \A i \in DOMAIN log[s], j \in DOMAIN log[t] :
    IsLogon(log[s][i]) /\ IsLogon(log[t][j]) /\ log[s][i].proof.B = log[t][j].proof.B
      => s = t /\ i = j

(* The layout of a proof or realm list reply is that of the client build   *)
(* named by the most recent challenge, even when that challenge was turned *)
(* down, and a client of an unsupported build gets no proof reply at all.  *)
FormatFollowsChallenge ==
  \A s \in Sessions : \A j \in DOMAIN log[s] :
    ~ IsChallenge(log[s][j]) /\ log[s][j].result # "no_reply" =>
      \/ \E i \in DOMAIN log[s] :
           /\ LastBefore(log[s], i, j, IsChallenge)
           /\ log[s][j].format = expansion(log[s][i].build)
           /\ IsProof(log[s][j]) => log[s][i].build \in m_builds
      \/ /\ ~ \E i \in 1 .. (j - 1) : IsChallenge(log[s][i])
         /\ ~ IsProof(log[s][j])
         /\ log[s][j].format = "invalid"

(* The characters in a realm list are those of the account whose challenge *)
(* was last accepted; before any was, of no account.                       *)
RealmlistAccount ==
  \A s \in Sessions : \A j \in DOMAIN log[s] :
    log[s][j].cmd = "realmlist" /\ log[s][j].account # 0 =>
      \E i \in DOMAIN log[s] :
        /\ LastBefore(log[s], i, j, IsAccepted)
        /\ log[s][j].account = account_id[log[s][i].user]

(* A proof sent before any challenge was accepted, or the second one since. *)
OutOfTurn(s, j) ==
  /\ IsProof(log[s][j])
  /\ \A i \in DOMAIN log[s] :
       LastBefore(log[s], i, j, IsAccepted) =>
         \E k \in (i + 1) .. (j - 1) : IsProof(log[s][k])

(* A realm list was never sent, and the realms hold a mask no network can  *)
(* be built from.                                                          *)
MaskInTheWay(s) ==
  /\ ~ contiguous
  /\ \E j \in DOMAIN log[s] :
       log[s][j].cmd = "realmlist" /\ log[s][j].result = "no_reply"

(* What the handlers are sent ends the process only when a peer has reset  *)
(* its connection, when a client proves itself before its challenge or a   *)
(* second time for one, or when it asks for realms whose masks are not     *)
(* netmasks: over realms that are configured right, clients that keep      *)
(* their connection and answer every accepted challenge at most once do no *)
(* harm, whatever was rejected, refused or answered wrong before.          *)
OrderlyClientsAreHarmless ==
  process # "running" =>
    \E s \in Sessions : \/ peer[s] = "reset"
                        \/ \E j \in DOMAIN log[s] : OutOfTurn(s, j)
                        \/ MaskInTheWay(s)

(* verify_challenge asserts that its Srp6 object has not been used         *)
(* (Srp6.cpp:88).                                                          *)
NeverUsedTwice == process # "asserted"

==============================================================================

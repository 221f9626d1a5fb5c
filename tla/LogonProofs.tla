----------------------------- MODULE LogonProofs -----------------------------
(***************************************************************************)
(* Proofs about Logon, for any number of sessions, accounts and frames:    *)
(* what a session remembers is what its own log of frames says, so that    *)
(* whom it logs on, and in which format it replies, follow from the log.   *)
(***************************************************************************)
EXTENDS Logon, TLAPS

(* The frames a log can hold.                                              *)
Formats == {"invalid", "pre_bc", "post_bc"}
ChallengeEntries ==
  [cmd : {"challenge"}, build : Builds, user : Accounts,
   result : {"login_ok", "login_unknown_account", "login_version_invalid", "no_reply"}, B : Nat]
ProofEntries ==
  [cmd : {"proof"}, proof : [I : Accounts, B : Nat],
   result : {"login_ok", "login_unknown_account", "no_reply"}, format : Formats]
RealmlistEntries ==
  [cmd : {"realmlist"}, account : Nat, build : Nat, format : Formats,
   result : {"realms", "no_reply"}]
Entries == ChallengeEntries \cup ProofEntries \cup RealmlistEntries

(* Entry i is the last accepted one (the last challenge) before entry j,   *)
(* and before the end.                                                     *)
LastAccepted(entries, i, j) ==
  i < j /\ IsAccepted(entries[i]) /\ \A k \in (i + 1) .. (j - 1) : ~ IsAccepted(entries[k])
LastChallenge(entries, i, j) ==
  i < j /\ IsChallenge(entries[i]) /\ \A k \in (i + 1) .. (j - 1) : ~ IsChallenge(entries[k])
LatestAccepted(entries, i) ==
  i \in DOMAIN entries /\ LastAccepted(entries, i, Len(entries) + 1)
LatestChallenge(entries, i) ==
  i \in DOMAIN entries /\ LastChallenge(entries, i, Len(entries) + 1)

LEMMA LastIsLastBefore ==
  \A entries, i, j :
    /\ LastBefore(entries, i, j, IsAccepted) <=> LastAccepted(entries, i, j)
    /\ LastBefore(entries, i, j, IsChallenge) <=> LastChallenge(entries, i, j)
BY DEF LastBefore, LastAccepted, LastChallenge

LogTyped == log \in [Sessions -> Seq(Entries)]

(* Build and expansion are those of the last challenge, accepted or not.   *)
RemembersBuild(s) ==
  \/ \E i \in DOMAIN log[s] :
       /\ LatestChallenge(log[s], i)
       /\ m_build[s] = log[s][i].build
       /\ m_expansion[s] = expansion(log[s][i].build)
  \/ /\ \A i \in DOMAIN log[s] : ~ IsChallenge(log[s][i])
     /\ m_expansion[s] = "invalid"

(* Account and Srp6 object are those of the last challenge accepted, and   *)
(* the object is used once a proof has come since.  (A challenge whose     *)
(* reply could not be sent took the process with it.)                      *)
RemembersAccepted(s) ==
  \/ \E i \in DOMAIN log[s] :
       /\ LatestAccepted(log[s], i)
       /\ m_account[s] = account_id[log[s][i].user]
       /\ m_srp6[s] # NoSrp6
       /\ m_srp6[s].I = log[s][i].user
       /\ m_srp6[s].B = log[s][i].B
       /\ m_srp6[s].m_used => \E k \in (i + 1) .. Len(log[s]) : IsProof(log[s][k])
  \/ /\ \A i \in DOMAIN log[s] : ~ IsAccepted(log[s][i])
     /\ m_account[s] = 0
     /\ m_srp6[s] = NoSrp6

(* No two sessions hold the same key pair, no logon is for one that has    *)
(* not been drawn yet, and none for one that is still unused.              *)
KeysAreFresh ==
  /\ \A s \in Sessions : m_srp6[s] # NoSrp6 => m_srp6[s].B <= issued
  /\ \A s, t \in Sessions :
       m_srp6[s] # NoSrp6 /\ m_srp6[t] # NoSrp6 /\ m_srp6[s].B = m_srp6[t].B => s = t
  /\ \A t \in Sessions : \A j \in DOMAIN log[t] :
       IsLogon(log[t][j]) =>
         /\ log[t][j].proof.B <= issued
         /\ \A s \in Sessions :
              m_srp6[s] # NoSrp6 /\ ~ m_srp6[s].m_used => m_srp6[s].B # log[t][j].proof.B

Inv ==
  /\ TypeOK
  /\ LogTyped
  /\ \A s \in Sessions : RemembersBuild(s)
  /\ process = "running" => \A s \in Sessions : RemembersAccepted(s)
  /\ KeysAreFresh
  /\ LogonAnswersLatestChallenge
  /\ ~ NDEBUG => OneLogonPerChallenge
  /\ FormatFollowsChallenge
  /\ RealmlistAccount
  /\ OrderlyClientsAreHarmless

-------------------------------------------------------------------------------
(* One more entry in a log: what the last entry of a kind before a place   *)
(* is afterwards.                                                          *)
LEMMA Appended ==
  ASSUME NEW entries \in Seq(Entries), NEW e \in Entries
  PROVE  /\ Append(entries, e) \in Seq(Entries)
         /\ DOMAIN entries = 1 .. Len(entries)
         /\ DOMAIN Append(entries, e) = 1 .. (Len(entries) + 1)
         /\ Len(Append(entries, e)) = Len(entries) + 1
         /\ Len(entries) \in Nat
         /\ \A i \in DOMAIN entries : Append(entries, e)[i] = entries[i]
         /\ Append(entries, e)[Len(entries) + 1] = e
OBVIOUS

LEMMA LastBeforeKept ==
  ASSUME NEW entries \in Seq(Entries), NEW e \in Entries,
         NEW i \in DOMAIN entries, NEW j \in 1 .. (Len(entries) + 1)
  PROVE  /\ LastAccepted(Append(entries, e), i, j)
               <=> LastAccepted(entries, i, j)
         /\ LastChallenge(Append(entries, e), i, j)
               <=> LastChallenge(entries, i, j)
<1> DEFINE more == Append(entries, e)
<1>1. more[i] = entries[i] /\ \A k \in (i + 1) .. (j - 1) : more[k] = entries[k]
  BY Appended
<1> HIDE DEF more
<1>2. LastAccepted(more, i, j) <=> LastAccepted(entries, i, j)
  BY <1>1 DEF LastAccepted, IsAccepted
<1>3. LastChallenge(more, i, j) <=> LastChallenge(entries, i, j)
  BY <1>1 DEF LastChallenge, IsChallenge
<1> QED
  BY <1>2, <1>3 DEF more

LEMMA LatestKept ==
  ASSUME NEW entries \in Seq(Entries), NEW e \in Entries, NEW i \in DOMAIN entries
  PROVE  /\ ~ IsAccepted(e) /\ LatestAccepted(entries, i)
               => LatestAccepted(Append(entries, e), i)
         /\ ~ IsChallenge(e) /\ LatestChallenge(entries, i)
               => LatestChallenge(Append(entries, e), i)
<1> DEFINE more == Append(entries, e)
<1>1. /\ Len(entries) \in Nat /\ Len(more) = Len(entries) + 1
      /\ DOMAIN entries = 1 .. Len(entries) /\ DOMAIN more = 1 .. (Len(entries) + 1)
      /\ \A k \in 1 .. Len(entries) : more[k] = entries[k]
      /\ more[Len(entries) + 1] = e
  BY Appended
<1> HIDE DEF more
<1>2. ~ IsAccepted(e) /\ LatestAccepted(entries, i) => LatestAccepted(more, i)
  BY <1>1 DEF LatestAccepted, LastAccepted, IsAccepted
<1>3. ~ IsChallenge(e) /\ LatestChallenge(entries, i) => LatestChallenge(more, i)
  BY <1>1 DEF LatestChallenge, LastChallenge, IsChallenge
<1> QED
  BY <1>2, <1>3 DEF more

LEMMA LatestNew ==
  ASSUME NEW entries \in Seq(Entries), NEW e \in Entries
  PROVE  /\ IsAccepted(e) => LatestAccepted(Append(entries, e), Len(entries) + 1)
         /\ IsChallenge(e) => LatestChallenge(Append(entries, e), Len(entries) + 1)
<1>1. IsAccepted(e) => LatestAccepted(Append(entries, e), Len(entries) + 1)
  BY Appended DEF LatestAccepted, LastAccepted, IsAccepted
<1>2. IsChallenge(e) => LatestChallenge(Append(entries, e), Len(entries) + 1)
  BY Appended DEF LatestChallenge, LastChallenge, IsChallenge
<1> QED
  BY <1>1, <1>2

-------------------------------------------------------------------------------
(* The three properties that follow a log from entry to entry, for one     *)
(* entry of one log.                                                       *)
Answered(entries, j) ==
  IsLogon(entries[j]) =>
    \E i \in DOMAIN entries :
      /\ LastAccepted(entries, i, j)
      /\ entries[j].proof = [I |-> entries[i].user, B |-> entries[i].B]

Formatted(entries, j) ==
  ~ IsChallenge(entries[j]) /\ entries[j].result # "no_reply" =>
    \/ \E i \in DOMAIN entries :
         /\ LastChallenge(entries, i, j)
         /\ entries[j].format = expansion(entries[i].build)
         /\ IsProof(entries[j]) => entries[i].build \in m_builds
    \/ /\ ~ \E i \in 1 .. (j - 1) : IsChallenge(entries[i])
       /\ ~ IsProof(entries[j])
       /\ entries[j].format = "invalid"

Listed(entries, j) ==
  entries[j].cmd = "realmlist" /\ entries[j].account # 0 =>
    \E i \in DOMAIN entries :
      /\ LastAccepted(entries, i, j)
      /\ entries[j].account = account_id[entries[i].user]

InOrder(entries, j) == Answered(entries, j) /\ Formatted(entries, j) /\ Listed(entries, j)

AllInOrder == \A s \in Sessions : \A j \in DOMAIN log[s] : InOrder(log[s], j)

LEMMA InOrderMeans ==
  AllInOrder <=> LogonAnswersLatestChallenge /\ FormatFollowsChallenge /\ RealmlistAccount
<1>1. (\A s \in Sessions : \A j \in DOMAIN log[s] : Answered(log[s], j))
        <=> LogonAnswersLatestChallenge
  BY DEF Answered, LogonAnswersLatestChallenge, LastBefore, LastAccepted
<1>2. (\A s \in Sessions : \A j \in DOMAIN log[s] : Formatted(log[s], j))
        <=> FormatFollowsChallenge
  BY DEF Formatted, FormatFollowsChallenge, LastBefore, LastChallenge
<1>3. (\A s \in Sessions : \A j \in DOMAIN log[s] : Listed(log[s], j))
        <=> RealmlistAccount
  BY DEF Listed, RealmlistAccount, LastBefore, LastAccepted
<1> QED
  BY <1>1, <1>2, <1>3 DEF InOrder, AllInOrder

(* An entry says the same of a log that goes on.                           *)
LEMMA InOrderKept ==
  ASSUME NEW entries \in Seq(Entries), NEW e \in Entries, NEW j \in DOMAIN entries,
         InOrder(entries, j)
  PROVE  InOrder(Append(entries, e), j)
<1> DEFINE more == Append(entries, e)
<1>1. /\ Len(entries) \in Nat
      /\ DOMAIN entries = 1 .. Len(entries) /\ DOMAIN more = 1 .. (Len(entries) + 1)
      /\ \A k \in 1 .. Len(entries) : more[k] = entries[k]
      /\ \A i \in DOMAIN entries :
           /\ LastAccepted(more, i, j) <=> LastAccepted(entries, i, j)
           /\ LastChallenge(more, i, j) <=> LastChallenge(entries, i, j)
  BY Appended, LastBeforeKept
<1> HIDE DEF more
<1>2. Answered(more, j)
  <2> SUFFICES ASSUME IsLogon(more[j])
               PROVE  \E i \in DOMAIN more :
                        /\ LastAccepted(more, i, j)
                        /\ more[j].proof = [I |-> more[i].user, B |-> more[i].B]
    BY DEF Answered
  <2>1. IsLogon(entries[j])
    BY <1>1
  <2>2. PICK i \in DOMAIN entries :
               /\ LastAccepted(entries, i, j)
               /\ entries[j].proof = [I |-> entries[i].user, B |-> entries[i].B]
    BY <2>1 DEF InOrder, Answered
  <2> QED
    BY <1>1, <2>2
<1>3. Formatted(more, j)
  <2>1. \A i \in 1 .. (j - 1) : i \in DOMAIN entries /\ more[i] = entries[i]
    BY <1>1
  <2> QED
    BY <1>1, <2>1 DEF InOrder, Formatted
<1>4. Listed(more, j)
  BY <1>1 DEF InOrder, Listed
<1> QED
  BY <1>2, <1>3, <1>4 DEF InOrder, more

(* What a new entry has to have in common with the session it comes from.  *)
Due(s, e) ==
  /\ IsLogon(e) =>
       \E i \in DOMAIN log[s] :
         /\ LatestAccepted(log[s], i)
         /\ e.proof = [I |-> log[s][i].user, B |-> log[s][i].B]
  /\ ~ IsChallenge(e) /\ e.result # "no_reply" =>
       e.format = m_expansion[s] /\ (IsProof(e) => m_expansion[s] # "invalid")
  /\ e.cmd = "realmlist" =>
       e.account = m_account[s]

LEMMA KnownBuild == \A build : expansion(build) # "invalid" => build \in m_builds
BY DEF expansion, build_info

LEMMA InOrderNew ==
  ASSUME LogTyped, NEW s \in Sessions, RemembersBuild(s), RemembersAccepted(s),
         NEW e \in Entries, Due(s, e)
  PROVE  InOrder(Append(log[s], e), Len(log[s]) + 1)
<1> DEFINE entries == log[s]
           more == Append(entries, e)
           j == Len(entries) + 1
<1>0. entries \in Seq(Entries)
  BY DEF LogTyped
<1>1. /\ Len(entries) \in Nat
      /\ DOMAIN entries = 1 .. Len(entries) /\ DOMAIN more = 1 .. (Len(entries) + 1)
      /\ \A k \in 1 .. Len(entries) : more[k] = entries[k]
      /\ more[j] = e
      /\ \A i \in DOMAIN entries :
           /\ LastAccepted(more, i, j) <=> LastAccepted(entries, i, j)
           /\ LastChallenge(more, i, j) <=> LastChallenge(entries, i, j)
  BY <1>0, Appended, LastBeforeKept
<1>2. /\ \A i \in DOMAIN entries :
           LatestAccepted(entries, i) => LastAccepted(more, i, j)
      /\ \A i \in DOMAIN entries :
           LatestChallenge(entries, i) => LastChallenge(more, i, j)
  BY <1>1 DEF LatestAccepted, LatestChallenge
<1> HIDE DEF more
<1>3. Answered(more, j)
  <2> SUFFICES ASSUME IsLogon(e)
               PROVE  \E i \in DOMAIN more :
                        /\ LastAccepted(more, i, j)
                        /\ e.proof = [I |-> more[i].user, B |-> more[i].B]
    BY <1>1 DEF Answered
  <2>1. PICK i \in DOMAIN entries :
               /\ LatestAccepted(entries, i)
               /\ e.proof = [I |-> entries[i].user, B |-> entries[i].B]
    BY DEF Due
  <2> QED
    BY <1>1, <1>2, <2>1
<1>4. Formatted(more, j)
  <2> SUFFICES ASSUME ~ IsChallenge(e), e.result # "no_reply" PROVE Formatted(more, j)
    BY <1>1 DEF Formatted
  <2>1. e.format = m_expansion[s] /\ (IsProof(e) => m_expansion[s] # "invalid")
    BY DEF Due
  <2>2. CASE \E i \in DOMAIN log[s] :
               /\ LatestChallenge(log[s], i)
               /\ m_build[s] = log[s][i].build
               /\ m_expansion[s] = expansion(log[s][i].build)
    BY <1>1, <1>2, <2>1, <2>2, KnownBuild DEF Formatted
  <2>3. CASE /\ \A i \in DOMAIN log[s] : ~ IsChallenge(log[s][i])
             /\ m_expansion[s] = "invalid"
    BY <1>1, <2>1, <2>3 DEF Formatted
  <2> QED
    BY <2>2, <2>3 DEF RemembersBuild
<1>5. Listed(more, j)
  BY <1>1, <1>2 DEF Due, Listed, RemembersAccepted
<1> QED
  BY <1>3, <1>4, <1>5 DEF InOrder, more

(* A step that logs one entry.                                             *)
LEMMA LogKept ==
  ASSUME Inv, process = "running", NEW s \in Sessions, NEW e \in Entries, Due(s, e),
         Log(s, e)
  PROVE  /\ LogTyped'
         /\ LogonAnswersLatestChallenge' /\ FormatFollowsChallenge' /\ RealmlistAccount'
<1>1. /\ log \in [Sessions -> Seq(Entries)]
      /\ log' = [log EXCEPT ![s] = Append(log[s], e)]
  BY DEF Log, Inv, LogTyped
<1>2. LogTyped'
  BY <1>1, Appended DEF LogTyped
<1>3. ASSUME NEW t \in Sessions, NEW j \in DOMAIN log'[t]
      PROVE  InOrder(log'[t], j)
  <2>1. \A k \in DOMAIN log[t] : InOrder(log[t], k)
    BY InOrderMeans DEF Inv, AllInOrder
  <2>2. CASE t # s
    BY <1>1, <1>3, <2>1, <2>2
  <2>3. CASE t = s
    <3>1. log'[t] = Append(log[s], e) /\ log[s] \in Seq(Entries)
      BY <1>1, <2>3
    <3>2. CASE j \in DOMAIN log[s]
      BY <2>1, <2>3, <3>1, <3>2, InOrderKept
    <3>3. CASE j = Len(log[s]) + 1
      BY <3>1, <3>3, InOrderNew DEF Inv
    <3> QED
      BY <1>3, <3>1, <3>2, <3>3, Appended
  <2> QED
    BY <2>2, <2>3
<1>4. AllInOrder' => LogonAnswersLatestChallenge' /\ FormatFollowsChallenge' /\ RealmlistAccount'
  BY InOrderMeans, PTL
<1> QED
  BY <1>2, <1>3, <1>4 DEF AllInOrder

-------------------------------------------------------------------------------
(* The same step and what the sessions remember.                           *)
LEMMA BuildKept ==
  ASSUME Inv, NEW s \in Sessions, NEW e \in Entries, Log(s, e),
         \/ ~ IsChallenge(e) /\ UNCHANGED <<m_build, m_expansion>>
         \/ IsChallenge(e) /\ store_build(s, e.build)
  PROVE  \A t \in Sessions : RemembersBuild(t)'
<1>1. /\ log \in [Sessions -> Seq(Entries)]
      /\ log' = [log EXCEPT ![s] = Append(log[s], e)]
      /\ m_build \in [Sessions -> Builds \cup {0}] /\ m_expansion \in [Sessions -> Formats]
  BY DEF Log, Inv, LogTyped, TypeOK, Formats
<1>2. ASSUME NEW t \in Sessions, t # s
      PROVE  RemembersBuild(t)'
  <2>1. log'[t] = log[t] /\ m_build'[t] = m_build[t] /\ m_expansion'[t] = m_expansion[t]
    BY <1>1, <1>2 DEF store_build
  <2>2. RemembersBuild(t)
    BY DEF Inv
  <2> QED
    BY <2>1, <2>2 DEF RemembersBuild
<1>3. RemembersBuild(s)'
  <2>1. /\ log'[s] = Append(log[s], e) /\ log[s] \in Seq(Entries)
        /\ RemembersBuild(s)
    BY <1>1 DEF Inv
  <2>2. CASE IsChallenge(e) /\ store_build(s, e.build)
    <3>1. m_build'[s] = e.build /\ m_expansion'[s] = expansion(e.build)
      BY <1>1, <2>2 DEF store_build
    <3>2. /\ Len(log[s]) + 1 \in DOMAIN log'[s]
          /\ log'[s][Len(log[s]) + 1] = e
          /\ LatestChallenge(log'[s], Len(log[s]) + 1)
      BY <2>1, <2>2, Appended, LatestNew
    <3> QED
      BY <3>1, <3>2 DEF RemembersBuild
  <2>3. CASE ~ IsChallenge(e) /\ UNCHANGED <<m_build, m_expansion>>
    <3>1. CASE \E i \in DOMAIN log[s] :
                 /\ LatestChallenge(log[s], i)
                 /\ m_build[s] = log[s][i].build
                 /\ m_expansion[s] = expansion(log[s][i].build)
      <4>1. PICK i \in DOMAIN log[s] :
                 /\ LatestChallenge(log[s], i)
                 /\ m_build[s] = log[s][i].build
                 /\ m_expansion[s] = expansion(log[s][i].build)
        BY <3>1
      <4>2. LatestChallenge(log'[s], i) /\ i \in DOMAIN log'[s] /\ log'[s][i] = log[s][i]
        BY <2>1, <2>3, <4>1, Appended, LatestKept
      <4> QED
        BY <2>3, <4>1, <4>2 DEF RemembersBuild
    <3>2. CASE /\ \A i \in DOMAIN log[s] : ~ IsChallenge(log[s][i])
               /\ m_expansion[s] = "invalid"
      <4>1. \A i \in DOMAIN log'[s] : ~ IsChallenge(log'[s][i])
        BY <2>1, <2>3, <3>2, Appended
      <4> QED
        BY <2>3, <3>2, <4>1 DEF RemembersBuild
    <3> QED
      BY <2>1, <3>1, <3>2 DEF RemembersBuild
  <2> QED
    BY <2>2, <2>3
<1> QED
  BY <1>2, <1>3

(* Sessions other than the one that handles a frame are as they were.      *)
LEMMA OthersAccepted ==
  ASSUME Inv, process = "running", NEW s \in Sessions, NEW t \in Sessions, t # s,
         log'[t] = log[t], m_account'[t] = m_account[t], m_srp6'[t] = m_srp6[t]
  PROVE  RemembersAccepted(t)'
<1>1. RemembersAccepted(t)
  BY DEF Inv
<1> QED
  BY <1>1 DEF RemembersAccepted

LEMMA AcceptedKept ==
  ASSUME Inv, process = "running", NEW s \in Sessions, NEW e \in Entries, Log(s, e),
         ~ IsAccepted(e), UNCHANGED m_account,
         UNCHANGED m_srp6 \/ (m_srp6[s] # NoSrp6 /\ IsProof(e) /\ mark_used(s))
  PROVE  \A t \in Sessions : RemembersAccepted(t)'
<1>1. /\ log \in [Sessions -> Seq(Entries)]
      /\ log' = [log EXCEPT ![s] = Append(log[s], e)]
      /\ m_srp6 \in [Sessions -> Srp6 \cup {NoSrp6}]
  BY DEF Log, Inv, LogTyped, TypeOK
<1>2. ASSUME NEW t \in Sessions, t # s
      PROVE  RemembersAccepted(t)'
  BY <1>1, <1>2, OthersAccepted DEF mark_used
<1>3. RemembersAccepted(s)'
  <2>1. /\ log'[s] = Append(log[s], e) /\ log[s] \in Seq(Entries)
        /\ RemembersAccepted(s)
    BY <1>1 DEF Inv
  <2>2. CASE \E i \in DOMAIN log[s] :
               /\ LatestAccepted(log[s], i)
               /\ m_account[s] = account_id[log[s][i].user]
               /\ m_srp6[s] # NoSrp6
               /\ m_srp6[s].I = log[s][i].user
               /\ m_srp6[s].B = log[s][i].B
               /\ m_srp6[s].m_used => \E k \in (i + 1) .. Len(log[s]) : IsProof(log[s][k])
    <3>1. PICK i \in DOMAIN log[s] :
               /\ LatestAccepted(log[s], i)
               /\ m_account[s] = account_id[log[s][i].user]
               /\ m_srp6[s] # NoSrp6
               /\ m_srp6[s].I = log[s][i].user
               /\ m_srp6[s].B = log[s][i].B
               /\ m_srp6[s].m_used => \E k \in (i + 1) .. Len(log[s]) : IsProof(log[s][k])
      BY <2>2
    <3>2. LatestAccepted(log'[s], i) /\ i \in DOMAIN log'[s] /\ log'[s][i] = log[s][i]
      BY <2>1, <3>1, Appended, LatestKept
    <3>3. m_srp6[s] \in Srp6
      BY <1>1, <3>1
    <3>4. /\ m_srp6'[s] # NoSrp6 /\ m_srp6'[s].I = m_srp6[s].I /\ m_srp6'[s].B = m_srp6[s].B
          /\ m_srp6'[s].m_used => m_srp6[s].m_used \/ IsProof(e)
      <4>1. CASE UNCHANGED m_srp6
        BY <3>1, <4>1
      <4>2. CASE IsProof(e) /\ mark_used(s)
        <5>1. m_srp6'[s] = [m_srp6[s] EXCEPT !.m_used = TRUE]
          BY <1>1, <4>2 DEF mark_used
        <5>2. m_srp6'[s] \in Srp6
          BY <3>3, <5>1 DEF Srp6
        <5> QED
          BY <3>3, <4>2, <5>1, <5>2, OptionalAssumption DEF Srp6
      <4> QED
        BY <4>1, <4>2
    <3>5. m_srp6'[s].m_used => \E k \in (i + 1) .. Len(log'[s]) : IsProof(log'[s][k])
      <4>1. /\ Len(log'[s]) = Len(log[s]) + 1 /\ Len(log[s]) \in Nat /\ i \in 1 .. Len(log[s])
            /\ \A k \in 1 .. Len(log[s]) : log'[s][k] = log[s][k]
            /\ log'[s][Len(log[s]) + 1] = e
        BY <2>1, <3>1, Appended
      <4>2. CASE IsProof(e)
        BY <4>1, <4>2
      <4>3. CASE m_srp6[s].m_used
        <5>1. PICK k \in (i + 1) .. Len(log[s]) : IsProof(log[s][k])
          BY <3>1, <4>3
        <5>2. k \in (i + 1) .. Len(log'[s]) /\ log'[s][k] = log[s][k]
          BY <4>1
        <5> QED
          BY <5>1, <5>2
      <4> QED
        BY <3>4, <4>2, <4>3
    <3> QED
      BY <3>1, <3>2, <3>4, <3>5 DEF RemembersAccepted
  <2>3. CASE /\ \A i \in DOMAIN log[s] : ~ IsAccepted(log[s][i])
             /\ m_account[s] = 0
             /\ m_srp6[s] = NoSrp6
    <3>1. \A i \in DOMAIN log'[s] : ~ IsAccepted(log'[s][i])
      BY <2>1, <2>3, Appended
    <3> QED
      BY <2>3, <3>1 DEF RemembersAccepted
  <2> QED
    BY <2>1, <2>2, <2>3 DEF RemembersAccepted
<1> QED
  BY <1>2, <1>3

(* An accepted challenge: a new object with a key pair nobody has.         *)
LEMMA AcceptedNew ==
  ASSUME Inv, process = "running", NEW s \in Sessions, NEW u \in Accounts, NEW e \in Entries,
         Log(s, e), IsAccepted(e), e.user = u, e.B = issued + 1,
         m_account' = [m_account EXCEPT ![s] = account_id[u]],
         m_srp6' = [m_srp6 EXCEPT ![s] = NewSrp6(u)]
  PROVE  \A t \in Sessions : RemembersAccepted(t)'
<1>1. /\ log \in [Sessions -> Seq(Entries)]
      /\ log' = [log EXCEPT ![s] = Append(log[s], e)]
      /\ m_srp6 \in [Sessions -> Srp6 \cup {NoSrp6}]
      /\ m_account \in [Sessions -> Nat] /\ issued \in Nat
  BY DEF Log, Inv, LogTyped, TypeOK
<1>2. ASSUME NEW t \in Sessions, t # s
      PROVE  RemembersAccepted(t)'
  BY <1>1, <1>2, OthersAccepted
<1>3. RemembersAccepted(s)'
  <2>1. log'[s] = Append(log[s], e) /\ log[s] \in Seq(Entries)
    BY <1>1
  <2>2. /\ Len(log[s]) + 1 \in DOMAIN log'[s]
        /\ log'[s][Len(log[s]) + 1] = e
        /\ LatestAccepted(log'[s], Len(log[s]) + 1)
    BY <2>1, Appended, LatestNew
  <2>3. m_srp6'[s] = NewSrp6(u) /\ m_account'[s] = account_id[u]
    BY <1>1
  <2>4. NewSrp6(u) \in Srp6 /\ NewSrp6(u).I = u /\ NewSrp6(u).B = issued + 1
          /\ NewSrp6(u).m_used = FALSE
    BY <1>1 DEF NewSrp6, Srp6
  <2>5. NewSrp6(u) # NoSrp6
    BY <2>4, OptionalAssumption
  <2> QED
    BY <2>2, <2>3, <2>4, <2>5 DEF RemembersAccepted
<1> QED
  BY <1>2, <1>3

(* Keys stay fresh when one more pair is drawn for session s ...           *)
LEMMA FreshNew ==
  ASSUME Inv, NEW s \in Sessions, NEW u \in Accounts, NEW e \in Entries, Log(s, e),
         ~ IsLogon(e), issued' = issued + 1,
         m_srp6' = [m_srp6 EXCEPT ![s] = NewSrp6(u)]
  PROVE  KeysAreFresh'
<1>1. /\ log \in [Sessions -> Seq(Entries)]
      /\ log' = [log EXCEPT ![s] = Append(log[s], e)]
      /\ m_srp6 \in [Sessions -> Srp6 \cup {NoSrp6}]
      /\ issued \in Nat
      /\ KeysAreFresh
  BY DEF Log, Inv, LogTyped, TypeOK
<1>2. /\ \A t \in Sessions \ {s} : m_srp6'[t] = m_srp6[t]
      /\ m_srp6'[s].B = issued + 1 /\ m_srp6'[s].m_used = FALSE
  BY <1>1 DEF NewSrp6
<1>3. \A t \in Sessions : m_srp6[t] # NoSrp6 => m_srp6[t].B \in Nat
  BY <1>1 DEF Srp6
<1>4. ASSUME NEW t \in Sessions, NEW j \in DOMAIN log'[t], IsLogon(log'[t][j])
      PROVE  /\ log'[t][j].proof.B <= issued /\ log'[t][j].proof.B \in Nat
             /\ \A r \in Sessions :
                  m_srp6[r] # NoSrp6 /\ ~ m_srp6[r].m_used => m_srp6[r].B # log'[t][j].proof.B
  <2>1. j \in DOMAIN log[t] /\ log'[t][j] = log[t][j]
    <3>1. CASE t = s
      BY <1>1, <1>4, <3>1, Appended
    <3>2. CASE t # s
      BY <1>1, <1>4, <3>2
    <3> QED
      BY <3>1, <3>2
  <2>2. log[t][j] \in Entries
    BY <1>1, <2>1
  <2>3. log[t][j].proof.B \in Nat
    BY <1>4, <2>1, <2>2
       DEF IsLogon, Entries, ChallengeEntries, ProofEntries, RealmlistEntries
  <2> QED
    BY <1>1, <1>4, <2>1, <2>3 DEF KeysAreFresh
<1>5. \A t \in Sessions : m_srp6'[t] # NoSrp6 => m_srp6'[t].B <= issued'
  BY <1>1, <1>2, <1>3 DEF KeysAreFresh
<1>6. \A t, r \in Sessions :
        m_srp6'[t] # NoSrp6 /\ m_srp6'[r] # NoSrp6 /\ m_srp6'[t].B = m_srp6'[r].B => t = r
  BY <1>1, <1>2, <1>3 DEF KeysAreFresh
<1>7. ASSUME NEW t \in Sessions, NEW j \in DOMAIN log'[t], IsLogon(log'[t][j])
      PROVE  /\ log'[t][j].proof.B <= issued'
             /\ \A r \in Sessions :
                  m_srp6'[r] # NoSrp6 /\ ~ m_srp6'[r].m_used => m_srp6'[r].B # log'[t][j].proof.B
  <2>1. /\ log'[t][j].proof.B <= issued /\ log'[t][j].proof.B \in Nat
        /\ \A r \in Sessions :
             m_srp6[r] # NoSrp6 /\ ~ m_srp6[r].m_used => m_srp6[r].B # log'[t][j].proof.B
    BY <1>4, <1>7
  <2>2. m_srp6'[s].B # log'[t][j].proof.B
    BY <1>1, <1>2, <2>1
  <2> QED
    BY <1>1, <1>2, <2>1, <2>2
<1> QED
  BY <1>5, <1>6, <1>7 DEF KeysAreFresh

(* ... and when an entry is logged that is no logon, or the logon of an    *)
(* object that is used from then on.                                       *)
LEMMA FreshKept ==
  ASSUME Inv, NEW s \in Sessions, NEW e \in Entries, Log(s, e), UNCHANGED issued,
         \/ ~ IsLogon(e) /\ UNCHANGED m_srp6
         \/ /\ m_srp6[s] # NoSrp6
            /\ mark_used(s)
            /\ IsLogon(e) => e.proof.B = m_srp6[s].B
  PROVE  KeysAreFresh'
<1>1. /\ log \in [Sessions -> Seq(Entries)]
      /\ log' = [log EXCEPT ![s] = Append(log[s], e)]
      /\ m_srp6 \in [Sessions -> Srp6 \cup {NoSrp6}]
      /\ issued \in Nat
      /\ KeysAreFresh
  BY DEF Log, Inv, LogTyped, TypeOK
<1>2. \A t \in Sessions :
        /\ m_srp6'[t] # NoSrp6 => m_srp6[t] # NoSrp6 /\ m_srp6'[t].B = m_srp6[t].B
        /\ m_srp6'[t] # NoSrp6 /\ ~ m_srp6'[t].m_used => ~ m_srp6[t].m_used
  <2>1. CASE UNCHANGED m_srp6
    BY <2>1
  <2>2. CASE m_srp6[s] # NoSrp6 /\ mark_used(s)
    <3>1. /\ m_srp6'[s] = [m_srp6[s] EXCEPT !.m_used = TRUE]
          /\ \A t \in Sessions \ {s} : m_srp6'[t] = m_srp6[t]
      BY <1>1, <2>2 DEF mark_used
    <3>2. m_srp6[s] \in Srp6
      BY <1>1, <2>2
    <3>3. m_srp6'[s].B = m_srp6[s].B /\ m_srp6'[s].m_used = TRUE
      BY <3>1, <3>2 DEF Srp6
    <3> QED
      BY <2>2, <3>1, <3>3
  <2> QED
    BY <2>1, <2>2
<1>3. ASSUME NEW t \in Sessions, NEW j \in DOMAIN log'[t], IsLogon(log'[t][j])
      PROVE  /\ log'[t][j].proof.B <= issued
             /\ \A r \in Sessions :
                  m_srp6'[r] # NoSrp6 /\ ~ m_srp6'[r].m_used => m_srp6'[r].B # log'[t][j].proof.B
  <2>1. CASE j \in DOMAIN log[t] /\ log'[t][j] = log[t][j]
    BY <1>1, <1>2, <1>3, <2>1 DEF KeysAreFresh
  <2>2. CASE t = s /\ log'[t][j] = e
    <3>1. m_srp6[s] # NoSrp6 /\ mark_used(s) /\ e.proof.B = m_srp6[s].B
      BY <1>3, <2>2
    <3>2. ~ (m_srp6'[s] # NoSrp6 /\ ~ m_srp6'[s].m_used)
      <4>1. m_srp6[s] \in Srp6 /\ m_srp6'[s] = [m_srp6[s] EXCEPT !.m_used = TRUE]
        BY <1>1, <3>1 DEF mark_used
      <4> QED
        BY <4>1 DEF Srp6
    <3> QED
      BY <1>1, <1>2, <2>2, <3>1, <3>2 DEF KeysAreFresh
  <2>3. t # s => j \in DOMAIN log[t] /\ log'[t][j] = log[t][j]
    BY <1>1, <1>3
  <2>4. t = s => (j \in DOMAIN log[t] /\ log'[t][j] = log[t][j]) \/ log'[t][j] = e
    BY <1>1, <1>3, Appended
  <2> QED
    BY <2>1, <2>2, <2>3, <2>4
<1> QED
  BY <1>1, <1>2, <1>3 DEF KeysAreFresh

(* A challenge is worth one logon: the second would be for an object that  *)
(* is used, or for a key pair no logon can have been for.                  *)
LEMMA OneLogonKept ==
  ASSUME Inv, NEW s \in Sessions, NEW e \in Entries, Log(s, e), ~ NDEBUG,
         IsLogon(e) =>
           m_srp6[s] # NoSrp6 /\ ~ m_srp6[s].m_used /\ e.proof.B = m_srp6[s].B
  PROVE  OneLogonPerChallenge'
<1>1. /\ log \in [Sessions -> Seq(Entries)]
      /\ log' = [log EXCEPT ![s] = Append(log[s], e)]
      /\ KeysAreFresh /\ OneLogonPerChallenge
  BY DEF Log, Inv, LogTyped
<1>2. ASSUME NEW t \in Sessions, NEW j \in DOMAIN log'[t]
      PROVE  \/ j \in DOMAIN log[t] /\ log'[t][j] = log[t][j]
             \/ t = s /\ j = Len(log[s]) + 1 /\ log'[t][j] = e
  <2>1. CASE t = s
    BY <1>1, <1>2, <2>1, Appended
  <2>2. CASE t # s
    BY <1>1, <1>2, <2>2
  <2> QED
    BY <2>1, <2>2
<1>3. ASSUME IsLogon(e), NEW t \in Sessions, NEW j \in DOMAIN log[t], IsLogon(log[t][j])
      PROVE  log[t][j].proof.B # e.proof.B
  BY <1>1, <1>3 DEF KeysAreFresh
<1> QED
  BY <1>1, <1>2, <1>3 DEF OneLogonPerChallenge

-------------------------------------------------------------------------------
LEMMA InitInv == Init => Inv
<1> SUFFICES ASSUME Init PROVE Inv
  OBVIOUS
<1>0. \A s \in Sessions : log[s] = <<>> /\ DOMAIN log[s] = {}
  BY DEF Init
<1>1. TypeOK
  BY <1>0 DEF Init, TypeOK
<1>2. LogTyped
  BY DEF Init, LogTyped
<1>3. \A s \in Sessions : RemembersBuild(s) /\ RemembersAccepted(s)
  BY <1>0 DEF Init, RemembersBuild, RemembersAccepted
<1>4. KeysAreFresh
  BY <1>0 DEF Init, KeysAreFresh
<1>5. AllInOrder
  BY <1>0 DEF AllInOrder
<1>6. OneLogonPerChallenge
  BY <1>0 DEF OneLogonPerChallenge
<1>7. OrderlyClientsAreHarmless
  BY DEF Init, OrderlyClientsAreHarmless
<1> QED
  BY <1>1, <1>2, <1>3, <1>4, <1>5, <1>6, <1>7, InOrderMeans DEF Inv

(* A step that handles no frame.                                           *)
LEMMA NoEntryKeeps ==
  ASSUME Inv, UNCHANGED <<session_vars, issued, log>>,
         process' = "running" => process = "running",
         TypeOK', OrderlyClientsAreHarmless'
  PROVE  Inv'
<1>0. /\ m_build' = m_build /\ m_expansion' = m_expansion /\ m_account' = m_account
      /\ m_srp6' = m_srp6 /\ issued' = issued /\ log' = log
  BY DEF session_vars
<1>1. LogTyped'
  BY <1>0 DEF Inv, LogTyped
<1>2. \A s \in Sessions : RemembersBuild(s)'
  BY <1>0 DEF Inv, RemembersBuild
<1>3. process' = "running" => \A s \in Sessions : RemembersAccepted(s)'
  BY <1>0 DEF Inv, RemembersAccepted
<1>4. KeysAreFresh'
  BY <1>0 DEF Inv, KeysAreFresh
<1>5. LogonAnswersLatestChallenge' /\ FormatFollowsChallenge' /\ RealmlistAccount'
  <2>1. AllInOrder
    BY InOrderMeans DEF Inv
  <2>2. AllInOrder'
    BY <1>0, <2>1 DEF AllInOrder
  <2>3. AllInOrder' => LogonAnswersLatestChallenge' /\ FormatFollowsChallenge' /\ RealmlistAccount'
    BY InOrderMeans, PTL
  <2> QED
    BY <2>2, <2>3
<1>6. ~ NDEBUG => OneLogonPerChallenge'
  BY <1>0 DEF Inv, OneLogonPerChallenge
<1> QED
  BY <1>1, <1>2, <1>3, <1>4, <1>5, <1>6 DEF Inv

(* The main thread's refresh of the realm list.                            *)
LEMMA RealmsUpdatedKeeps ==
  ASSUME Inv, RealmsUpdated
  PROVE  Inv'
<1>1. TypeOK'
  BY DEF RealmsUpdated, session_vars, Inv, TypeOK
<1>2. OrderlyClientsAreHarmless'
  BY DEF RealmsUpdated, OrderlyClientsAreHarmless
<1> QED
  BY <1>1, <1>2, NoEntryKeeps DEF RealmsUpdated

(* The process goes on, or goes down with a connection its peer has reset. *)
LEMMA HarmlessKept ==
  ASSUME NEW s \in Sessions,
         process' = "running" \/ peer'[s] = "reset"
  PROVE  OrderlyClientsAreHarmless'
BY DEF OrderlyClientsAreHarmless

LEMMA PeerResetsKeeps ==
  ASSUME Inv, NEW s \in Sessions, PeerResets(s)
  PROVE  Inv'
<1>1. TypeOK'
  BY DEF PeerResets, session_vars, Inv, TypeOK
<1>2. OrderlyClientsAreHarmless'
  BY DEF PeerResets, OrderlyClientsAreHarmless
<1> QED
  BY <1>1, <1>2, NoEntryKeeps DEF PeerResets

LEMMA ClosingKeeps ==
  ASSUME Inv, NEW s \in Sessions, close_socket(s), UNCHANGED <<peer, contiguous>>
  PROVE  /\ m_closed' \in [Sessions -> BOOLEAN]
         /\ process' \in {"running", "asserted", "terminated"}
         /\ OrderlyClientsAreHarmless'
<1>1. process' = "running" \/ (process' = "terminated" /\ peer'[s] = "reset")
  BY DEF close_socket, remote_address_ok, remote_address_throws
<1> QED
  BY <1>1, HarmlessKept DEF close_socket, Inv, TypeOK

LEMMA RejectedKeeps ==
  ASSUME Inv, NEW s \in Sessions, Rejected(s)
  PROVE  Inv'
<1>1. close_socket(s) /\ process = "running" /\ UNCHANGED <<session_vars, peer, contiguous, issued, log>>
  BY DEF Rejected, Running
<1>2. /\ m_closed' \in [Sessions -> BOOLEAN]
      /\ process' \in {"running", "asserted", "terminated"}
      /\ OrderlyClientsAreHarmless'
  BY <1>1, ClosingKeeps
<1>3. TypeOK'
  BY <1>1, <1>2 DEF session_vars, Inv, TypeOK
<1> QED
  BY <1>1, <1>2, <1>3, NoEntryKeeps

-------------------------------------------------------------------------------
(* logon_challenge_handler.                                                *)

ResultsLogged == \A s \in Sessions : \A i \in DOMAIN log[s] : log[s][i].result \in Results

LEMMA LoggedResults == LogTyped => ResultsLogged
<1> SUFFICES ASSUME LogTyped, NEW s \in Sessions, NEW i \in DOMAIN log[s]
             PROVE  log[s][i].result \in Results
  BY DEF ResultsLogged
<1>1. log[s] \in Seq(Entries)
  BY DEF LogTyped
<1>2. log[s][i] \in Entries
  BY <1>1
<1> QED
  BY <1>2 DEF Entries, ChallengeEntries, ProofEntries, RealmlistEntries, Results


LEMMA ExpansionTyped == \A build : expansion(build) \in Formats
BY DEF expansion, Formats

LEMMA StoredBuild ==
  ASSUME Inv, NEW s \in Sessions, NEW build \in Builds, store_build(s, build)
  PROVE  /\ m_build' \in [Sessions -> Builds \cup {0}]
         /\ m_expansion' \in [Sessions -> Formats]
BY ExpansionTyped DEF store_build, Inv, TypeOK, Formats

(* No account is loaded: the handler's two refusals.                       *)
LEMMA ChallengeRefusedKeeps ==
  ASSUME Inv, NEW s \in Sessions, NEW build \in Builds, NEW u \in Accounts,
         Running(s), store_build(s, build),
         VersionInvalid(s, build, u) \/ UnknownAccount(s, build, u),
         UNCHANGED <<m_session_key, m_closed, peer, contiguous>>
  PROVE  Inv'
<1>1. PICK result \in {"login_version_invalid", "login_unknown_account"} :
        Log(s, ChallengeEntry(build, u, result, 0))
  BY DEF VersionInvalid, UnknownAccount
<1>2. process = "running" /\ UNCHANGED <<m_account, m_srp6, process, issued>>
  BY DEF VersionInvalid, UnknownAccount, Running
<1> DEFINE e == ChallengeEntry(build, u, result, 0)
<1>3. /\ e \in Entries /\ ~ IsAccepted(e) /\ IsChallenge(e) /\ ~ IsLogon(e) /\ e.build = build
      /\ e.cmd # "realmlist"
  BY DEF ChallengeEntry, Entries, ChallengeEntries, IsAccepted, IsChallenge, IsLogon
<1>4. Log(s, e)
  BY <1>1
<1> HIDE DEF e
<1>5. Due(s, e)
  BY <1>3 DEF Due
<1>6. /\ LogTyped'
      /\ LogonAnswersLatestChallenge' /\ FormatFollowsChallenge' /\ RealmlistAccount'
  BY <1>2, <1>3, <1>4, <1>5, LogKept
<1>7. \A t \in Sessions : RemembersBuild(t)'
  BY <1>3, <1>4, BuildKept
<1>8. \A t \in Sessions : RemembersAccepted(t)'
  BY <1>2, <1>3, <1>4, AcceptedKept
<1>9. KeysAreFresh'
  BY <1>2, <1>3, <1>4, FreshKept
<1>10. ~ NDEBUG => OneLogonPerChallenge'
  BY <1>3, <1>4, OneLogonKept
<1>11. OrderlyClientsAreHarmless'
  BY <1>2, HarmlessKept
<1>12. TypeOK'
  <2>1. ResultsLogged'
    BY <1>6, LoggedResults, PTL
  <2> QED
    BY <1>2, <2>1, StoredBuild DEF Inv, TypeOK, Formats, ResultsLogged
<1> QED
  BY <1>6, <1>7, <1>8, <1>9, <1>10, <1>11, <1>12 DEF Inv

LEMMA NewObject ==
  ASSUME Inv, NEW u \in Accounts
  PROVE  /\ NewSrp6(u) \in Srp6 /\ NewSrp6(u) # NoSrp6 /\ NewSrp6(u).B = issued + 1
         /\ account_id[u] \in Nat /\ account_id[u] # 0
<1>1. issued \in Nat
  BY DEF Inv, TypeOK
<1>2. NewSrp6(u) \in Srp6 /\ NewSrp6(u).B = issued + 1
  BY <1>1 DEF NewSrp6, Srp6
<1> QED
  BY <1>2, OptionalAssumption, AccountAssumption

LEMMA AccountFoundKeeps ==
  ASSUME Inv, NEW s \in Sessions, NEW build \in Builds, NEW u \in Accounts,
         Running(s), store_build(s, build), AccountFound(s, build, u),
         UNCHANGED <<m_session_key, m_closed, peer, contiguous>>
  PROVE  Inv'
<1>1. /\ m_account' = [m_account EXCEPT ![s] = account_id[u]]
      /\ m_srp6' = [m_srp6 EXCEPT ![s] = NewSrp6(u)]
      /\ issued' = issued + 1
      /\ process = "running"
      /\ m_srp6'[s].B = issued + 1
      /\ m_account \in [Sessions -> Nat] /\ m_srp6 \in [Sessions -> Srp6 \cup {NoSrp6}]
      /\ issued \in Nat
  BY NewObject DEF AccountFound, emplaced, Running, Inv, TypeOK
<1>2. PICK e : /\ Log(s, e)
               /\ \/ /\ process' = "running"
                     /\ e = ChallengeEntry(build, u, "login_ok", issued + 1)
                  \/ /\ peer[s] = "reset" /\ process' = "terminated"
                     /\ e = ChallengeEntry(build, u, "no_reply", 0)
  BY <1>1 DEF AccountFound, remote_address_ok, remote_address_throws
<1>3. /\ e \in Entries /\ IsChallenge(e) /\ ~ IsLogon(e) /\ e.build = build
      /\ e.cmd # "realmlist"
      /\ process' = "running" => IsAccepted(e) /\ e.user = u /\ e.B = issued + 1
  BY <1>1, <1>2 DEF ChallengeEntry, Entries, ChallengeEntries, IsAccepted, IsChallenge, IsLogon
<1>4. Log(s, e)
  BY <1>2
<1>5. Due(s, e)
  BY <1>3 DEF Due
<1>6. /\ LogTyped'
      /\ LogonAnswersLatestChallenge' /\ FormatFollowsChallenge' /\ RealmlistAccount'
  BY <1>1, <1>3, <1>4, <1>5, LogKept
<1>7. \A t \in Sessions : RemembersBuild(t)'
  BY <1>3, <1>4, BuildKept
<1>8. process' = "running" => \A t \in Sessions : RemembersAccepted(t)'
  BY <1>1, <1>3, <1>4, AcceptedNew
<1>9. KeysAreFresh'
  BY <1>1, <1>3, <1>4, FreshNew
<1>10. ~ NDEBUG => OneLogonPerChallenge'
  BY <1>3, <1>4, OneLogonKept
<1>11. OrderlyClientsAreHarmless'
  BY <1>2, HarmlessKept
<1>12. TypeOK'
  <2>1. ResultsLogged'
    BY <1>6, LoggedResults, PTL
  <2>2. /\ m_account' \in [Sessions -> Nat] /\ m_srp6' \in [Sessions -> Srp6 \cup {NoSrp6}]
        /\ \A t \in Sessions : m_srp6'[t] = NoSrp6 <=> m_account'[t] = 0
    BY <1>1, NewObject DEF Inv, TypeOK
  <2>3. process' \in {"running", "asserted", "terminated"} /\ issued' \in Nat
    BY <1>1, <1>2
  <2> QED
    BY <2>1, <2>2, <2>3, StoredBuild DEF Inv, TypeOK, Formats, ResultsLogged
<1> QED
  BY <1>6, <1>7, <1>8, <1>9, <1>10, <1>11, <1>12 DEF Inv

LEMMA ChallengeKeeps ==
  ASSUME Inv, NEW s \in Sessions, NEW build \in Builds, NEW u \in Accounts,
         logon_challenge_handler(s, build, u)
  PROVE  Inv'
BY ChallengeRefusedKeeps, AccountFoundKeeps DEF logon_challenge_handler

-------------------------------------------------------------------------------
(* logon_proof_handler.                                                    *)

(* What all its outcomes have in common: a proof is logged, with a reply   *)
(* only if a challenge named a known build, and with a logon only if it is *)
(* the proof for the object of this session, which is used from then on.   *)
LEMMA ProofKeeps ==
  ASSUME Inv, NEW s \in Sessions, NEW proof \in Proofs, Running(s),
         NEW result \in {"login_ok", "login_unknown_account", "no_reply"},
         Log(s, ProofEntry(s, proof, result)),
         UNCHANGED <<m_build, m_expansion, m_account, peer, contiguous, issued>>,
         result # "no_reply" => m_expansion[s] # "invalid",
         \/ UNCHANGED m_srp6 /\ result # "login_ok"
         \/ /\ m_srp6[s] # NoSrp6
            /\ mark_used(s)
            /\ m_srp6[s].m_used => NDEBUG
            /\ result = "login_ok" => Verified(s, proof),
         m_session_key' = m_session_key \/ m_session_key' = [m_session_key EXCEPT ![s] = proof],
         m_closed' \in [Sessions -> BOOLEAN],
         process' \in {"running", "asserted", "terminated"},
         OrderlyClientsAreHarmless'
  PROVE  Inv'
<1> DEFINE e == ProofEntry(s, proof, result)
<1>1. /\ process = "running" /\ proof \in [I : Accounts, B : Nat]
      /\ m_expansion[s] \in Formats /\ RemembersAccepted(s)
      /\ m_srp6 \in [Sessions -> Srp6 \cup {NoSrp6}]
  <2>1. process = "running"
    BY DEF Running
  <2>2. proof \in [I : Accounts, B : Nat]
    BY DEF Proofs, Inv, TypeOK
  <2> QED
    BY <2>1, <2>2 DEF Inv, TypeOK, Formats
<1>2. e \in Entries
  BY <1>1 DEF ProofEntry, Entries, ProofEntries
<1>3. /\ IsProof(e) /\ ~ IsChallenge(e) /\ ~ IsAccepted(e) /\ e.cmd # "realmlist"
      /\ IsLogon(e) <=> result = "login_ok"
      /\ e.proof = proof /\ e.result = result /\ e.format = m_expansion[s]
  BY DEF ProofEntry, IsProof, IsChallenge, IsAccepted, IsLogon
<1>4. Log(s, e)
  OBVIOUS
<1> HIDE DEF e
<1>5. Due(s, e)
  <2>1. ASSUME IsLogon(e)
        PROVE  \E i \in DOMAIN log[s] :
                 /\ LatestAccepted(log[s], i)
                 /\ e.proof = [I |-> log[s][i].user, B |-> log[s][i].B]
    <3>1. m_srp6[s] # NoSrp6 /\ proof = [I |-> m_srp6[s].I, B |-> m_srp6[s].B]
      BY <1>3, <2>1 DEF Verified
    <3>2. PICK i \in DOMAIN log[s] :
            LatestAccepted(log[s], i) /\ m_srp6[s].I = log[s][i].user /\ m_srp6[s].B = log[s][i].B
      BY <1>1, <3>1 DEF RemembersAccepted
    <3> QED
      BY <1>3, <3>1, <3>2
  <2> QED
    BY <1>3, <2>1 DEF Due
<1>6. /\ LogTyped'
      /\ LogonAnswersLatestChallenge' /\ FormatFollowsChallenge' /\ RealmlistAccount'
  BY <1>1, <1>2, <1>4, <1>5, LogKept
<1>7. \A t \in Sessions : RemembersBuild(t)'
  BY <1>2, <1>3, <1>4, BuildKept
<1>8. \A t \in Sessions : RemembersAccepted(t)'
  BY <1>1, <1>2, <1>3, <1>4, AcceptedKept
<1>9. IsLogon(e) => m_srp6[s] # NoSrp6 /\ e.proof.B = m_srp6[s].B
  BY <1>3 DEF Verified
<1>10. KeysAreFresh'
  BY <1>2, <1>3, <1>4, <1>9, FreshKept
<1>11. ~ NDEBUG => OneLogonPerChallenge'
  BY <1>2, <1>3, <1>4, <1>9, OneLogonKept
<1>12. TypeOK'
  <2>1. ResultsLogged'
    BY <1>6, LoggedResults, PTL
  <2>2. m_session_key' \in [Sessions -> [I : Accounts, B : Nat] \cup {NoKey}]
    BY <1>1 DEF Inv, TypeOK
  <2>3. /\ m_srp6' \in [Sessions -> Srp6 \cup {NoSrp6}]
        /\ \A t \in Sessions : m_srp6'[t] = NoSrp6 <=> m_srp6[t] = NoSrp6
    <3>1. CASE UNCHANGED m_srp6
      BY <1>1, <3>1
    <3>2. CASE m_srp6[s] # NoSrp6 /\ mark_used(s)
      <4>1. m_srp6[s] \in Srp6 /\ m_srp6' = [m_srp6 EXCEPT ![s] = [m_srp6[s] EXCEPT !.m_used = TRUE]]
        BY <1>1, <3>2 DEF mark_used
      <4>2. [m_srp6[s] EXCEPT !.m_used = TRUE] \in Srp6
        BY <4>1 DEF Srp6
      <4> QED
        BY <1>1, <3>2, <4>1, <4>2, OptionalAssumption
    <3> QED
      BY <3>1, <3>2
  <2> QED
    BY <2>1, <2>2, <2>3 DEF Inv, TypeOK, ResultsLogged
<1> QED
  BY <1>6, <1>7, <1>8, <1>10, <1>11, <1>12 DEF Inv

LEMMA ProofRefusedKeeps ==
  ASSUME Inv, NEW s \in Sessions, NEW proof \in Proofs, Running(s),
         ProofRefused(s, proof),
         UNCHANGED <<m_build, m_expansion, m_account, peer, contiguous, issued>>
  PROVE  Inv'
<1>1. /\ m_closed' \in [Sessions -> BOOLEAN]
      /\ process' \in {"running", "asserted", "terminated"}
      /\ OrderlyClientsAreHarmless'
  BY ClosingKeeps DEF ProofRefused
<1> QED
  BY <1>1, ProofKeeps DEF ProofRefused

(* A proof that comes before any challenge was accepted, or the second one *)
(* since, is out of turn.                                                  *)
LEMMA OutOfTurnHarmless ==
  ASSUME Inv, NEW s \in Sessions, process = "running", NEW e \in Entries, Log(s, e), IsProof(e),
         m_srp6[s] # NoSrp6 => m_srp6[s].m_used
  PROVE  OrderlyClientsAreHarmless'
<1> DEFINE entries == log[s]
           more == log'[s]
           j == Len(entries) + 1
<1>1. /\ entries \in Seq(Entries) /\ more = Append(entries, e)
      /\ RemembersAccepted(s)
  BY DEF Log, Inv, LogTyped
<1>2. /\ Len(entries) \in Nat
      /\ DOMAIN entries = 1 .. Len(entries) /\ DOMAIN more = 1 .. (Len(entries) + 1)
      /\ \A k \in 1 .. Len(entries) : more[k] = entries[k]
      /\ more[j] = e
  BY <1>1, Appended
<1>3. \A i \in DOMAIN more :
        LastAccepted(more, i, j) => \E k \in (i + 1) .. (j - 1) : IsProof(more[k])
  <2> SUFFICES ASSUME NEW i \in DOMAIN more, LastAccepted(more, i, j)
               PROVE  \E k \in (i + 1) .. (j - 1) : IsProof(more[k])
    OBVIOUS
  <2>1. i \in 1 .. Len(entries) /\ IsAccepted(entries[i])
          /\ \A k \in (i + 1) .. Len(entries) : ~ IsAccepted(entries[k])
    BY <1>2 DEF LastAccepted
  <2>2. PICK l \in DOMAIN log[s] :
               /\ LatestAccepted(log[s], l)
               /\ m_srp6[s] # NoSrp6
               /\ m_srp6[s].m_used => \E k \in (l + 1) .. Len(log[s]) : IsProof(log[s][k])
    BY <1>1, <1>2, <2>1 DEF RemembersAccepted
  <2>3. l = i
    BY <1>2, <2>1, <2>2 DEF LatestAccepted, LastAccepted
  <2>4. PICK k \in (i + 1) .. Len(log[s]) : IsProof(log[s][k])
    BY <2>2, <2>3
  <2> QED
    BY <1>2, <2>1, <2>4
<1>4. j \in DOMAIN more /\ IsProof(more[j])
  BY <1>2
<1>5. PICK n \in Nat : n = j
  BY <1>2
<1>6. OutOfTurn(s, n)'
  BY <1>3, <1>4, <1>5 DEF OutOfTurn, LastBefore, LastAccepted
<1> QED
  BY <1>4, <1>5, <1>6 DEF OrderlyClientsAreHarmless

LEMMA ProofWithoutChallengeKeeps ==
  ASSUME Inv, NEW s \in Sessions, NEW proof \in Proofs, Running(s),
         ProofWithoutChallenge(s, proof),
         UNCHANGED <<m_build, m_expansion, m_account, peer, contiguous, issued>>
  PROVE  Inv'
<1>1. PICK result \in {"login_unknown_account", "no_reply"} :
        Log(s, ProofEntry(s, proof, result))
  BY DEF ProofWithoutChallenge
<1>2. m_expansion[s] # "invalid" /\ m_srp6[s] = NoSrp6 /\ UNCHANGED <<m_srp6, m_session_key, m_closed>>
        /\ process' \in {"running", "terminated"} /\ process = "running"
        /\ m_closed \in [Sessions -> BOOLEAN]
  BY DEF ProofWithoutChallenge, Running, Inv, TypeOK
<1>3. ProofEntry(s, proof, result) \in Entries /\ IsProof(ProofEntry(s, proof, result))
  BY DEF ProofEntry, IsProof, Entries, ProofEntries, Proofs, Inv, TypeOK, Formats
<1>4. OrderlyClientsAreHarmless'
  BY <1>1, <1>2, <1>3, OutOfTurnHarmless
<1> QED
  BY <1>1, <1>2, <1>4, ProofKeeps

LEMMA ProofReusedKeeps ==
  ASSUME Inv, NEW s \in Sessions, NEW proof \in Proofs, Running(s),
         ProofReused(s, proof),
         UNCHANGED <<m_build, m_expansion, m_account, peer, contiguous, issued>>
  PROVE  Inv'
<1>1. /\ Log(s, ProofEntry(s, proof, "no_reply"))
      /\ m_srp6[s].m_used /\ UNCHANGED <<m_srp6, m_session_key, m_closed>>
      /\ process' = "asserted" /\ process = "running" /\ m_closed \in [Sessions -> BOOLEAN]
  BY DEF ProofReused, Running, Inv, TypeOK
<1>2. /\ ProofEntry(s, proof, "no_reply") \in Entries
      /\ IsProof(ProofEntry(s, proof, "no_reply"))
  BY DEF ProofEntry, IsProof, Entries, ProofEntries, Proofs, Inv, TypeOK, Formats
<1>3. OrderlyClientsAreHarmless'
  BY <1>1, <1>2, OutOfTurnHarmless
<1> QED
  BY <1>1, <1>3, ProofKeeps

LEMMA ProofVerifiedKeeps ==
  ASSUME Inv, NEW s \in Sessions, NEW proof \in Proofs, NEW token \in BOOLEAN, Running(s),
         ProofVerified(s, proof, token),
         UNCHANGED <<m_build, m_expansion, m_account, peer, contiguous, issued>>
  PROVE  Inv'
<1>1. /\ m_expansion[s] # "invalid" /\ m_srp6[s] # NoSrp6
      /\ m_srp6[s].m_used => NDEBUG
      /\ mark_used(s) /\ UNCHANGED m_closed
      /\ process = "running" /\ m_closed \in [Sessions -> BOOLEAN]
  BY DEF ProofVerified, Running, Inv, TypeOK
<1>2. PICK result \in {"login_ok", "login_unknown_account", "no_reply"} :
        /\ Log(s, ProofEntry(s, proof, result))
        /\ result = "login_ok" => Verified(s, proof)
        /\ \/ m_session_key' = m_session_key
           \/ m_session_key' = [m_session_key EXCEPT ![s] = proof]
        /\ process' = "running" \/ (process' = "terminated" /\ peer'[s] = "reset")
  BY <1>1 DEF ProofVerified, remote_address_ok, remote_address_throws
<1>3. OrderlyClientsAreHarmless'
  BY <1>2, HarmlessKept
<1>4. m_closed' \in [Sessions -> BOOLEAN] /\ process' \in {"running", "asserted", "terminated"}
  BY <1>1, <1>2
<1> QED
  BY <1>1, <1>2, <1>3, <1>4, ProofKeeps

LEMMA ProofHandlerKeeps ==
  ASSUME Inv, NEW s \in Sessions, NEW proof \in Proofs, NEW token \in BOOLEAN,
         logon_proof_handler(s, proof, token)
  PROVE  Inv'
BY ProofRefusedKeeps, ProofWithoutChallengeKeeps, ProofReusedKeeps, ProofVerifiedKeeps
   DEF logon_proof_handler

-------------------------------------------------------------------------------
LEMMA RealmlistKeeps ==
  ASSUME Inv, NEW s \in Sessions, realmlist_handler(s)
  PROVE  Inv'
<1> DEFINE Entry(result) == [cmd |-> "realmlist", account |-> m_account[s],
                             build |-> m_build[s], format |-> m_expansion[s],
                             result |-> result]
<1>1. /\ process = "running" /\ UNCHANGED <<session_vars, m_closed, peer, contiguous, issued>>
      /\ m_account[s] \in Nat /\ m_build[s] \in Nat /\ m_expansion[s] \in Formats
  <2>1. process = "running" /\ UNCHANGED <<session_vars, m_closed, peer, contiguous, issued>>
    BY DEF realmlist_handler, Running
  <2>2. m_build[s] \in Builds \cup {0} /\ m_account[s] \in Nat /\ m_expansion[s] \in Formats
    BY DEF Inv, TypeOK, Formats
  <2>3. m_build[s] \in Builds \/ m_build[s] = 0
    BY <2>2
  <2>4. Builds \subseteq Nat
    BY BuildAssumption
  <2>5. m_build[s] \in Nat
    <3>1. m_build[s] \in Builds => m_build[s] \in Nat
      BY <2>4
    <3>2. m_build[s] = 0 => m_build[s] \in Nat
      OBVIOUS
    <3> QED
      BY <2>3, <3>1, <3>2
  <2> QED
    BY <2>1, <2>2, <2>5
<1>2. PICK result \in {"realms", "no_reply"} :
        /\ Log(s, Entry(result))
        /\ \/ process' = "running"
           \/ process' = "terminated" /\ peer'[s] = "reset"
           \/ process' = "terminated" /\ ~ contiguous' /\ result = "no_reply"
  BY <1>1 DEF realmlist_handler, remote_address_ok, remote_address_throws, address_throws
<1> DEFINE e == Entry(result)
<1>3. /\ e \in Entries /\ ~ IsChallenge(e) /\ ~ IsAccepted(e) /\ ~ IsProof(e) /\ ~ IsLogon(e)
      /\ e.format = m_expansion[s] /\ e.account = m_account[s]
      /\ e.cmd = "realmlist" /\ e.result = result
  BY <1>1 DEF Entries, RealmlistEntries, IsProof, IsChallenge, IsAccepted, IsLogon
<1>4. Log(s, e)
  BY <1>2
<1> HIDE DEF e
<1>5. Due(s, e)
  BY <1>3 DEF Due
<1>6. /\ LogTyped'
      /\ LogonAnswersLatestChallenge' /\ FormatFollowsChallenge' /\ RealmlistAccount'
  BY <1>1, <1>3, <1>4, <1>5, LogKept
<1>7. UNCHANGED <<m_build, m_expansion, m_account, m_srp6, m_session_key>>
  BY <1>1 DEF session_vars
<1>8. \A t \in Sessions : RemembersBuild(t)'
  BY <1>3, <1>4, <1>7, BuildKept
<1>9. \A t \in Sessions : RemembersAccepted(t)'
  BY <1>1, <1>3, <1>4, <1>7, AcceptedKept
<1>10. KeysAreFresh'
  BY <1>1, <1>3, <1>4, <1>7, FreshKept
<1>11. ~ NDEBUG => OneLogonPerChallenge'
  BY <1>3, <1>4, OneLogonKept
<1>12. OrderlyClientsAreHarmless'
  <2>1. CASE process' = "running" \/ peer'[s] = "reset"
    BY <2>1, HarmlessKept
  <2>2. CASE ~ contiguous' /\ result = "no_reply"
    <3>1. log[s] \in Seq(Entries) /\ log'[s] = Append(log[s], e)
      BY <1>4 DEF Log, Inv, LogTyped
    <3>2. Len(log[s]) + 1 \in DOMAIN log'[s] /\ log'[s][Len(log[s]) + 1] = e
      BY <1>3, <3>1, Appended
    <3>3. MaskInTheWay(s)'
      BY <1>3, <2>2, <3>2 DEF MaskInTheWay
    <3> QED
      BY <3>3 DEF OrderlyClientsAreHarmless
  <2> QED
    BY <1>2, <2>1, <2>2
<1>13. TypeOK'
  <2>1. ResultsLogged'
    BY <1>6, LoggedResults, PTL
  <2> QED
    BY <1>1, <1>2, <1>7, <2>1 DEF Inv, TypeOK, ResultsLogged
<1> QED
  BY <1>6, <1>8, <1>9, <1>10, <1>11, <1>12, <1>13 DEF Inv

LEMMA StutterKeeps ==
  ASSUME Inv, UNCHANGED vars
  PROVE  Inv'
<1>1. UNCHANGED <<session_vars, m_closed, peer, process, contiguous, issued, log>>
  BY DEF vars, session_vars
<1>2. TypeOK'
  BY <1>1 DEF session_vars, Inv, TypeOK
<1>3. OrderlyClientsAreHarmless'
  BY <1>1 DEF Inv, OrderlyClientsAreHarmless, OutOfTurn, MaskInTheWay, LastBefore
<1> QED
  BY <1>1, <1>2, <1>3, NoEntryKeeps

LEMMA StepKeeps == Inv /\ [Next]_vars => Inv'
<1> SUFFICES ASSUME Inv, [Next]_vars PROVE Inv'
  OBVIOUS
<1>1. ASSUME NEW s \in Sessions, PeerResets(s) PROVE Inv'
  BY <1>1, PeerResetsKeeps
<1>2. ASSUME NEW s \in Sessions, Rejected(s) PROVE Inv'
  BY <1>2, RejectedKeeps
<1>3. ASSUME NEW s \in Sessions, NEW build \in Builds, NEW u \in Accounts,
             logon_challenge_handler(s, build, u)
      PROVE  Inv'
  BY <1>3, ChallengeKeeps
<1>4. ASSUME NEW s \in Sessions, NEW proof \in Proofs, NEW token \in BOOLEAN,
             logon_proof_handler(s, proof, token)
      PROVE  Inv'
  BY <1>4, ProofHandlerKeeps
<1>5. ASSUME NEW s \in Sessions, realmlist_handler(s) PROVE Inv'
  BY <1>5, RealmlistKeeps
<1>6. CASE UNCHANGED vars
  BY <1>6, StutterKeeps
<1>7. CASE RealmsUpdated
  BY <1>7, RealmsUpdatedKeeps
<1> QED
  BY <1>1, <1>2, <1>3, <1>4, <1>5, <1>6, <1>7 DEF Next

-------------------------------------------------------------------------------
(* What each session remembers is what its log says, in every state.       *)
THEOREM Invariance == Spec => []Inv
BY InitInv, StepKeeps, PTL DEF Spec

(* Fields keep their types, and an account is loaded together with the     *)
(* Srp6 object it is proved with (logon_challenge_handler).                *)
THEOREM TypeCorrect == Spec => []TypeOK
<1>1. Inv => TypeOK
  BY DEF Inv
<1> QED
  BY <1>1, Invariance, PTL

(* logon_proof_handler logs a client on for the account and the B of the   *)
(* most recent challenge accepted on its own session, and for no other.    *)
THEOREM LogonAnswersLatest == Spec => []LogonAnswersLatestChallenge
<1>1. Inv => LogonAnswersLatestChallenge
  BY DEF Inv
<1> QED
  BY <1>1, Invariance, PTL

(* With its assertions compiled in, verify_challenge is passed once for    *)
(* every challenge, on whatever session.                                   *)
THEOREM OneLogon == ASSUME ~ NDEBUG PROVE Spec => []OneLogonPerChallenge
<1>1. Inv => OneLogonPerChallenge
  BY DEF Inv
<1> QED
  BY <1>1, Invariance, PTL

(* Replies have the layout of the build the last challenge named, and a    *)
(* client of an unsupported build gets no reply to a proof.                *)
THEOREM FormatFollows == Spec => []FormatFollowsChallenge
<1>1. Inv => FormatFollowsChallenge
  BY DEF Inv
<1> QED
  BY <1>1, Invariance, PTL

(* realmlist_handler counts the characters of the account whose challenge  *)
(* was last accepted on the session.                                       *)
THEOREM RealmlistIsOfAccount == Spec => []RealmlistAccount
<1>1. Inv => RealmlistAccount
  BY DEF Inv
<1> QED
  BY <1>1, Invariance, PTL

(* The handlers take the process down only when a connection was reset,    *)
(* when a proof came out of turn, or when the realms are asked for while   *)
(* one of them has a subnet mask that is no netmask.                       *)
THEOREM OrderlyAreHarmless == Spec => []OrderlyClientsAreHarmless
<1>1. Inv => OrderlyClientsAreHarmless
  BY DEF Inv
<1> QED
  BY <1>1, Invariance, PTL

===============================================================================

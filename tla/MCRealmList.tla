----------------------------- MODULE MCRealmList -----------------------------
(***************************************************************************)
(* RealmList with rows of each kind the code tells apart: a plain realm,   *)
(* types the client does not know, realms of another and of an unknown     *)
(* build, one whose address does not resolve and one the query leaves out. *)
(***************************************************************************)
EXTENDS RealmList

Row(type, flags, build, resolves) ==
  [type |-> type, flags |-> flags, build |-> build, resolves |-> resolves]

MCRows == {Row(16, {}, 5875, TRUE),
           Row(14, {specifybuild}, 8606, TRUE),
           Row(1, {specifybuild}, 9999, TRUE),
           Row(0, {offline}, 5875, FALSE),
           Row(0, {version_mismatch, offline}, 5875, TRUE)}
MCFewRows == {Row(16, {}, 5875, TRUE), Row(0, {}, 5875, FALSE)}
MCBuilds == {0, 5875, 8606, 9999}
MCKnownBuilds == {5875, 8606}

==============================================================================

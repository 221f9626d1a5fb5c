------------------------------ MODULE MCDatabase ------------------------------
(***************************************************************************)
(* Database with results of up to two rows and three statements a thread.  *)
(***************************************************************************)
EXTENDS Database

==============================================================================

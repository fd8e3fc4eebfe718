---------------------------- MODULE MCConnServe ------------------------------
(* Small instances of ConnServe for TLC. *)
EXTENDS ConnServe
=============================================================================

---------------------------- MODULE MCRunSession ----------------------------
(***************************************************************************)
(* Instances of RunSession for TLC.                                        *)
(***************************************************************************)
EXTENDS RunSession

MCClients == {"main", "pid", "sig"} \cup Cancellers
=============================================================================

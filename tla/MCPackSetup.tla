---------------------------- MODULE MCPackSetup ----------------------------
(***************************************************************************)
(* Two files; the second version of the package has only one of them.      *)
(***************************************************************************)
EXTENDS PackSetup, TLC

CONSTANTS f, g, v1, v2

MCPack == v1 :> {f, g} @@ v2 :> {f}
=============================================================================

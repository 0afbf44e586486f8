---------------------------- MODULE MCSyncEngine ----------------------------
(***************************************************************************)
(* One agent and one skill over two texts, which rendering exchanges.      *)
(***************************************************************************)
EXTENDS SyncEngine, TLC

CONSTANTS x, y

MCRender == x :> y @@ y :> x

\* Exchanging the texts everywhere leaves MCRender as it is.
MCSymmetry == Permutations({x, y})
=============================================================================

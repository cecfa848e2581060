--------------------------- MODULE MCRuntimeViews ---------------------------
(* RuntimeViews with the clients of the local stream socket, which are alike. *)
EXTENDS RuntimeViews

CONSTANT MaxLive    \* bound: panes open at once

Symmetry == Permutations(Clients)

MCNext == Next /\ Cardinality(AllPanes(tm')) <= MaxLive

MCSpec == Init /\ [][MCNext]_vars
=============================================================================

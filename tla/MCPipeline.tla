----------------------------- MODULE MCPipeline -----------------------------
(* Two requests, with no nodes or with both, and numbers of layers that two  *)
(* nodes cannot share evenly: fewer than there are nodes, and more.          *)
EXTENDS Pipeline

CONSTANTS n1, n2

MCNodeLists == {<<>>, <<n1, n2>>}
=============================================================================

------------------------------- MODULE MCPi3 --------------------------------
(* Two processors: the one that boots, and the one it sends the last sev to. *)
EXTENDS Pi3

Node(named, right, size) == [memory |-> named, wide |-> right, len |-> size]

(* No tree, one with addresses of the other width, and one after another   *)
(* node.                                                                   *)
MCTrees ==
  {<<>>, <<Node(TRUE, FALSE, 1)>>, <<Node(FALSE, TRUE, 1), Node(TRUE, TRUE, 3)>>,
   <<Node(TRUE, TRUE, 2), Node(TRUE, FALSE, 1), Node(FALSE, FALSE, 0)>>}
=============================================================================

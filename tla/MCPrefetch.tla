------------------------------ MODULE MCPrefetch ------------------------------
(* Small instances of Prefetch for TLC. *)
EXTENDS Prefetch

(* searches that ask for both lists, for one list twice, and for none *)
SomeRequests == LET a == CHOOSE l \in Lists : TRUE
                    b == CHOOSE l \in Lists : l # a
                IN  {<<a, b>>, <<b, b>>, <<>>}
===============================================================================

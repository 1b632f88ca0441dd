----------------------------- MODULE MCToaster -----------------------------
(* Toaster on paths of every length from two to four tokens.               *)
EXTENDS Toaster

MCPaths == {<<1, 2>>, <<2, 1>>, <<2, 3, 1>>, <<3, 1, 4, 2>>}
=============================================================================

----------------------------- MODULE MCConsole -----------------------------
(***************************************************************************)
(* Instances of Console.  The command names, in strcmp's order, are "a"    *)
(* (echo), "ab" and "b" (help).                                            *)
(***************************************************************************)
EXTENDS Console, TLC

MCRank == (<<"a">> :> 1) @@ (<<"a", "b">> :> 2) @@ (<<"b">> :> 3)

OneLine == {<<"a", "b", "NL">>}
TwoLines == {<<"a", "NL", "b", "NL">>}
=============================================================================

--------------------------- MODULE MCCommandWrapper -------------------------
EXTENDS CommandWrapper

Other(r, here, session) == [gen |-> 0, route |-> r, here |-> here, session |-> session]

(* Alone, or beside another wrapper of the same route elsewhere and the    *)
(* configured session of the worktree.                                     *)
MCOtherSets == {{}, {Other("main", FALSE, FALSE), Other("web", TRUE, TRUE)}}
MCRoutes == {"main", "web"}
=============================================================================

---------------------------- MODULE MCNewPages ----------------------------
(* Instance of NewPages: block a holds b, which holds c; d is a page of its *)
(* own kind beside a, and the outline goes below it; c and e are long, and e *)
(* is a code example.                                                       *)
EXTENDS NewPages

MCPaths == {"main", "main-a", "main-b", "topic", "moc"}
MCStart == <<Bullet("a", 0), Bullet("b", 1), Bullet("c", 2), Bullet("d", 0), Bullet("e", 0)>>
MCSentences == ("c" :> <<"c2">>) @@ ("e" :> <<"e2">>)
MCChildOf == ("a" :> "main-a") @@ ("b" :> "main-b")
MCOutline == <<Bullet("o1", 0), Bullet("o2", 1), Bullet("o3", 1), Bullet("o4", 0)>>
=============================================================================

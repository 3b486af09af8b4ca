--------------------------- MODULE MCGraphIndexes ---------------------------
(* Two pages that may claim one name and link to each other: one has words  *)
(* and the other a name, or one claims the name and the other is not there. *)
EXTENDS GraphIndexes

CONSTANTS daemon, mcp, d, m, pA, pB, k, w

MCHome == [c \in Callers |-> IF c = d THEN daemon ELSE mcp]
MCOrder == <<pA, pB>>
Worded == [aliases |-> {}, links |-> {pA}, words |-> {w}]
Named == [aliases |-> {k}, links |-> {pA, pB}, words |-> {}]
MCTexts == {Worded, Named}
MCFirst == {[p \in Pages |-> IF p = pA THEN Worded ELSE Named],
            [p \in Pages |-> IF p = pA THEN Named ELSE NoPage]}
=============================================================================

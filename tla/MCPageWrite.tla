---------------------------- MODULE MCPageWrite -----------------------------
(* Instances of PageWrite.  Functions with the same program behave alike:   *)
(* one of each is enough.                                                   *)
EXTENDS PageWrite

Representative(p) == CHOOSE k \in DOMAIN Programs : Programs[k] = p

EachOrder == {Representative(Programs[k]) : k \in DOMAIN Programs}
=============================================================================

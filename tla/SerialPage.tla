----------------------------- MODULE SerialPage -----------------------------
(***************************************************************************)
(* What the locked read-modify-write cycles promise about a page: it       *)
(* changes by one whole edit at a time and never loses an edit it had.     *)
(* PageWrite is the detailed specification.                                *)
(***************************************************************************)
CONSTANT Edits

VARIABLE page       \* the edits the page carries

SerialInit == page = {}

AddEdit(e) ==
    /\ e \notin page
    /\ page' = page \cup {e}

SerialNext == \E e \in Edits : AddEdit(e)

SerialSpec == SerialInit /\ [][SerialNext]_page
=============================================================================

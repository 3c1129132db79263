----------------------------- MODULE MCTaskStore -----------------------------
(* Small instances of TaskStore.                                              *)
EXTENDS TaskStore

CONSTANTS s1, s2

\* A limit that is refused, one that returns nothing, one above the cap.
RefusedZeroLarge == {-1, 0, 3}

\* The same, and a page of one row.
SomeLimits == {-1, 0, 1, 3}
=============================================================================

---------------------------- MODULE MCMessageLog ----------------------------
(* Small instances of MessageLog.                                             *)
EXTENDS MessageLogRefinement, TLC

CONSTANTS w1, w2, r1, r2, g1, g2, a, b

\* The hash keeps the two groups apart: their writers overlap.
DistinctKeys == [g \in Groups |-> g]

\* The hash of the two groups collides: they share one lock.
OneKey == [g \in Groups |-> 0]

\* Every reader follows the first group.
AllFollowG1 == [r \in Readers |-> g1]

\* One reader for each group.
EachFollowsOne == [r \in Readers |-> IF r = r1 THEN g1 ELSE g2]

\* One reader asks for more than the cap, another for one row; some limits are
\* refused, and some return nothing.
SomeLimits == [r \in Readers |-> {-1, 0} \cup (IF r = r1 THEN {3} ELSE {1})]

=============================================================================

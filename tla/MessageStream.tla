---------------------------- MODULE MessageStream ----------------------------
(* What the store promises of its messages (types/message.rs:55-77), without  *)
(* transactions, sequence numbers, cursors or pages: each group has one       *)
(* stream, a message is published once and behind everything its group        *)
(* already shows, and a consumer sees its group's stream in that order and    *)
(* without a gap.                                                             *)
CONSTANTS Ids, Groups, Readers, ReaderGroup

VARIABLES
    published,  \* the messages of all groups, each with what came before it
    seen        \* reader -> the ids it has been handed since it started

streamVars == <<published, seen>>

Message == [id : Ids, group : Groups, before : SUBSET Ids]

StreamTypeOK ==
    /\ published \subseteq Message
    /\ seen \in [Readers -> SUBSET Ids]

Init ==
    /\ published = {}
    /\ seen = [r \in Readers |-> {}]

\* A message is published once, at the end of its group's stream.
Publish(id, g) ==
    /\ \A m \in published : m.id # id
    /\ published' = published \cup
         {[id |-> id, group |-> g,
           before |-> {m.id : m \in {n \in published : n.group = g}}]}
    /\ UNCHANGED seen

\* The next message of the reader's group: everything before it has been seen.
Deliver(r) ==
    /\ \E m \in published :
          /\ m.group = ReaderGroup[r]
          /\ m.id \notin seen[r]
          /\ m.before \subseteq seen[r]
          /\ seen' = [seen EXCEPT ![r] = @ \cup {m.id}]
    /\ UNCHANGED published

\* A consumer that lost its place starts over.
Rewind(r) ==
    /\ seen' = [seen EXCEPT ![r] = {}]
    /\ UNCHANGED published

Next ==
    \/ \E id \in Ids, g \in Groups : Publish(id, g)
    \/ \E r \in Readers : Deliver(r) \/ Rewind(r)

Spec == Init /\ [][Next]_streamVars
=============================================================================

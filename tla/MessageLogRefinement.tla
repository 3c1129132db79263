------------------------ MODULE MessageLogRefinement ------------------------
(* MessageLog implements MessageStream: a committed row is a published        *)
(* message, what came before it are the smaller seqs of its group.            *)
EXTENDS MessageLog

Before(row) == {m.id : m \in {n \in InGroup(row.group) : n.seq < row.seq}}

publishedRows == {[id |-> row.id, group |-> row.group, before |-> Before(row)] : row \in rows}

seenIds == [r \in Readers |->
               {row.id : row \in {m \in InGroup(ReaderGroup[r]) : m.seq \in delivered[r]}}]

Stream == INSTANCE MessageStream WITH published <- publishedRows, seen <- seenIds

\* The whole concurrent machinery, transactions, locks, pages and restarts,
\* shows a consumer what the promise allows: a commit appends to its group's
\* stream, a processed row is the next one, and nothing else is visible.
ImplementsStream == Stream!Spec
=============================================================================

---------------------------- MODULE MCStoreTables ----------------------------
(* Small instances of StoreTables.                                            *)
EXTENDS StoreTables

CONSTANTS w1, w2, g1, g2

\* Refused, on disk, in memory in each of its forms, on a server.
SomeUrls ==
    { [base |-> "mysql://",          query |-> ""],
      [base |-> "sqlite://",         query |-> ""],
      [base |-> "sqlite::memory:",   query |-> ""],
      [base |-> "sqlite://:memory:", query |-> ""],
      [base |-> "sqlite://",         query |-> "?mode=memory"],
      [base |-> "sqlite://",         query |-> "&mode=memory"],
      [base |-> "postgresql://",     query |-> ""] }

\* The pool is exhausted, the server is not there, a lock is held too long.
SomeFailures ==
    { [variant |-> "Conn", chain |-> <<<<"failed to dial", "postgres://", "secret">>>>],
      [variant |-> "Exec", chain |-> <<<<"Execution Error">>, <<"database is locked">>>>] }

\* A text the server does not take, told with a password that has a quote in it:
\* what comes after the quote stays.
SomeRefusals ==
    { [variant |-> "Query", chain |-> <<<<"Query Error">>,
          <<"postgres://", "secret", Stop, "secret", "sqlite://", "path", Space, "invalid byte sequence">>>>] }

\* The connection breaks; the texts name it in whatever way.
SomeLost ==
    { [variant |-> "Query", chain |-> <<<<"connection reset">>>>],
      [variant |-> "Exec", chain |-> <<<<"Execution Error">>,
          <<"postgres://", "secret", "postgresql://", "40001", Space, "reset">>>>] }
=============================================================================

-------------------------- MODULE StoreTablesProofs --------------------------
(* Theorems about the tables, for any number of callers, keys, connections,   *)
(* calls and errors: the typing, what becomes of a driver's error, that a     *)
(* call is applied once at most, that every connection reads what was         *)
(* written, and reading the event log from a time on.                         *)
EXTENDS StoreTables, FiniteSetTheorems, TLAPS

USE PoolAssumption, BoundAssumption

-----------------------------------------------------------------------------
(* Errors: what the three passes of sanitize_message leave of a text          *)

\* The schemes, one by one; no search stops at one.
LEMMA SchemesAreThree ==
  /\ DOMAIN schemes = {1, 2, 3}
  /\ schemes[1] = "postgresql://" /\ schemes[2] = "postgres://" /\ schemes[3] = "sqlite://"
  /\ ToSet(schemes) = {"postgresql://", "postgres://", "sqlite://"}
  /\ \A word \in ToSet(schemes) : ~Ends(word) /\ word # Nothing
<1>1. /\ DOMAIN schemes = {1, 2, 3}
      /\ schemes[1] = "postgresql://" /\ schemes[2] = "postgres://" /\ schemes[3] = "sqlite://"
  BY DEF schemes
<1>2. ToSet(schemes) = {"postgresql://", "postgres://", "sqlite://"}
  BY <1>1 DEF ToSet
<1>3. QED
  BY <1>1, <1>2 DEF Ends, Space, Stop, Redacted, Nothing

\* A scheme that no pass has got to reaches up to a word.
Reached(out, done, i) ==
    \E j \in 1..i : /\ out[j] \in ToSet(schemes) \ done
                    /\ \A k \in j..i : ~Ends(out[k])

\* What the passes for the schemes in done have made of a text: words where a
\* search stops are still such words, what is in no URL is as it was, and what is
\* in one is gone or waits for the pass of another scheme.
Redacting(out, text, done) ==
    /\ DOMAIN out = DOMAIN text
    /\ \A i \in DOMAIN text :
          /\ Ends(text[i]) => Ends(out[i])
          /\ i \notin Matched(text) => out[i] = text[i] \/ (text[i] = Redacted /\ out[i] = Stop)
          /\ i \in Matched(text) => out[i] \in {Redacted, Nothing, Stop} \/ Reached(out, done, i)

LEMMA RedactingBegins ==
  ASSUME NEW text
  PROVE  Redacting(text, text, {})
BY DEF Redacting, Reached, Matched

\* A word that is neither in a URL of the pass's scheme nor that scheme stays.
LEMMA PassLeaves ==
  ASSUME NEW out, NEW scheme, NEW i \in DOMAIN out
  PROVE  /\ DOMAIN Replace(out, scheme) = DOMAIN out
         /\ InUrl(out, scheme, i) /\ ~Ends(out[i]) => Replace(out, scheme)[i] = Nothing
         /\ InUrl(out, scheme, i) /\ out[i] \in {Space, Stop} => Replace(out, scheme)[i] = out[i]
         /\ InUrl(out, scheme, i) /\ out[i] = Redacted => Replace(out, scheme)[i] = Stop
         /\ ~InUrl(out, scheme, i) /\ out[i] = scheme => Replace(out, scheme)[i] = Redacted
         /\ ~InUrl(out, scheme, i) /\ out[i] # scheme => Replace(out, scheme)[i] = out[i]
<1>1. Space # Stop /\ Space # Redacted /\ Stop # Redacted
  BY DEF Space, Stop, Redacted
<1>2. QED
  BY <1>1 DEF Replace, Ends

\* Up to a word that no search stops before: a URL that reaches an earlier word
\* reaches it too.
LEMMA UrlGoesOn ==
  ASSUME NEW out, DOMAIN out \subseteq Nat, NEW scheme, NEW i \in DOMAIN out, NEW k \in DOMAIN out,
         k <= i, InUrl(out, scheme, k) \/ (out[k] = scheme /\ k < i),
         \A h \in DOMAIN out : k <= h /\ h < i => ~Ends(out[h])
  PROVE  InUrl(out, scheme, i)
<1>1. CASE InUrl(out, scheme, k)
  <2>1. PICK j \in DOMAIN out : /\ j < k /\ out[j] = scheme
                                /\ \A h \in DOMAIN out : j < h /\ h < k => ~Ends(out[h])
    BY <1>1 DEF InUrl
  <2>2. j < i /\ \A h \in DOMAIN out : j < h /\ h < i => ~Ends(out[h])
    BY <2>1
  <2>3. QED
    BY <2>1, <2>2 DEF InUrl
<1>2. CASE out[k] = scheme /\ k < i
  BY <1>2 DEF InUrl
<1>3. QED
  BY <1>1, <1>2

\* A pass leads from one stage to the next.
LEMMA RedactingGoesOn ==
  ASSUME NEW text \in Seq(STRING), NEW out, NEW done, Redacting(out, text, done),
         NEW scheme \in ToSet(schemes)
  PROVE  Redacting(Replace(out, scheme), text, done \cup {scheme})
<1> DEFINE next == Replace(out, scheme)
<1>1. DOMAIN out = DOMAIN text /\ DOMAIN text = 1..Len(text) /\ Len(text) \in Nat
  BY DEF Redacting
<1>2. ~Ends(scheme) /\ scheme # Nothing
  BY SchemesAreThree
<1>3. DOMAIN next = DOMAIN text
  BY <1>1 DEF Replace
<1>4. ASSUME NEW i \in DOMAIN text PROVE Ends(out[i]) => Ends(next[i])
  BY <1>1, <1>2, PassLeaves DEF Ends
<1>5. ASSUME NEW i \in DOMAIN text, i \notin Matched(text)
      PROVE  next[i] = text[i] \/ (text[i] = Redacted /\ next[i] = Stop)
  <2>1. out[i] = text[i] \/ (text[i] = Redacted /\ out[i] = Stop)
    BY <1>5 DEF Redacting
  <2>2. CASE Ends(out[i])
    BY <1>1, <1>2, <2>1, <2>2, PassLeaves DEF Ends
  <2>3. CASE ~Ends(out[i])
    <3>1. out[i] = text[i] /\ ~Ends(text[i])
      BY <2>1, <2>3 DEF Ends
    <3>2. out[i] # scheme
      BY <1>1, <1>5, <3>1 DEF Matched
    <3>3. ASSUME InUrl(out, scheme, i) PROVE FALSE
      <4>1. PICK j \in DOMAIN out : /\ j < i /\ out[j] = scheme
                                    /\ \A k \in DOMAIN out : j < k /\ k < i => ~Ends(out[k])
        BY <3>3 DEF InUrl
      <4>2. \A k \in j..i : k \in DOMAIN text /\ ~Ends(text[k])
        BY <1>1, <1>2, <3>1, <4>1 DEF Redacting
      <4>3. CASE j \in Matched(text)
        <5>1. PICK h \in 1..j : text[h] \in ToSet(schemes) /\ \A k \in h..j : ~Ends(text[k])
          BY <4>3 DEF Matched
        <5>2. h \in 1..i /\ \A k \in h..i : ~Ends(text[k])
          BY <1>1, <4>1, <4>2, <5>1
        <5>3. QED
          BY <1>5, <5>1, <5>2 DEF Matched
      <4>4. CASE j \notin Matched(text)
        <5>1. text[j] = scheme
          BY <1>1, <1>2, <4>1, <4>4 DEF Redacting, Ends
        <5>2. j \in 1..i /\ j \in 1..j /\ \A k \in j..j : ~Ends(text[k])
          BY <1>1, <4>1, <4>2
        <5>3. QED
          BY <1>1, <4>1, <4>4, <5>1, <5>2 DEF Matched
      <4>5. QED
        BY <4>3, <4>4
    <3>4. QED
      BY <1>1, <3>1, <3>2, <3>3, PassLeaves
  <2>4. QED
    BY <2>2, <2>3
<1>6. ASSUME NEW i \in DOMAIN text, i \in Matched(text)
      PROVE  next[i] \in {Redacted, Nothing, Stop} \/ Reached(next, done \cup {scheme}, i)
  <2>1. CASE out[i] \in {Redacted, Nothing, Stop}
    <3>1. Ends(out[i]) \/ out[i] = Nothing
      BY <2>1 DEF Ends
    <3>2. ~Ends(Nothing)
      BY DEF Ends, Nothing, Space, Stop, Redacted
    <3>3. QED
      BY <1>1, <1>2, <2>1, <3>1, <3>2, PassLeaves
  <2>2. CASE Reached(out, done, i)
    <3>1. PICK j \in 1..i : /\ out[j] \in ToSet(schemes) \ done
                            /\ \A k \in j..i : ~Ends(out[k])
      BY <2>2 DEF Reached
    <3>2. \A k \in j..i : k \in DOMAIN out
      BY <1>1
    <3>3. CASE \E k \in j..i : InUrl(out, scheme, k) \/ (out[k] = scheme /\ k < i)
      <4>1. InUrl(out, scheme, i)
        <5>1. PICK k \in j..i : InUrl(out, scheme, k) \/ (out[k] = scheme /\ k < i)
          BY <3>3
        <5>2. \A h \in DOMAIN out : k <= h /\ h < i => ~Ends(out[h])
          BY <1>1, <3>1
        <5>3. k \in DOMAIN out /\ k <= i /\ DOMAIN out \subseteq Nat
          BY <1>1, <3>2
        <5>4. QED
          BY <1>1, <5>1, <5>2, <5>3, UrlGoesOn
      <4>2. QED
        BY <1>1, <3>1, <4>1, PassLeaves
    <3>4. CASE ~\E k \in j..i : InUrl(out, scheme, k) \/ (out[k] = scheme /\ k < i)
      <4>1. CASE out[i] = scheme
        BY <1>1, <3>1, <3>4, <4>1, PassLeaves
      <4>2. CASE out[i] # scheme
        <5>1. \A k \in j..i : ~InUrl(out, scheme, k) /\ out[k] # scheme
          BY <1>1, <3>4, <4>2
        <5>2. \A k \in j..i : next[k] = out[k]
          BY <3>2, <5>1, PassLeaves
        <5>3. next[j] \in ToSet(schemes) \ (done \cup {scheme})
          BY <1>1, <3>1, <5>1, <5>2
        <5>4. \A k \in j..i : ~Ends(next[k])
          BY <3>1, <5>2
        <5>5. QED
          BY <5>3, <5>4 DEF Reached
      <4>3. QED
        BY <4>1, <4>2
    <3>5. QED
      BY <3>3, <3>4
  <2>3. QED
    BY <1>6, <2>1, <2>2 DEF Redacting
<1>7. QED
  BY <1>3, <1>4, <1>5, <1>6 DEF Redacting

\* After the three passes nothing waits for another.
LEMMA UrlsAreTakenOut ==
  ASSUME NEW text \in Seq(STRING)
  PROVE  IsRedaction(sanitize_message(text), text)
<1> DEFINE a == "postgresql://"  b == "postgres://"  c == "sqlite://"
           first == Replace(text, a)  second == Replace(first, b)  third == Replace(second, c)
           done == (({} \cup {a}) \cup {b}) \cup {c}
<1>1. sanitize_message(text) = third
  BY SchemesAreThree DEF sanitize_message
<1>2. a \in ToSet(schemes) /\ b \in ToSet(schemes) /\ c \in ToSet(schemes)
  BY SchemesAreThree
<1>3. Redacting(text, text, {})
  BY RedactingBegins
<1>4. Redacting(first, text, {} \cup {a})
  BY <1>2, <1>3, RedactingGoesOn
<1>5. Redacting(second, text, ({} \cup {a}) \cup {b})
  <2> HIDE DEF first
  <2>1. QED
    BY <1>2, <1>4, RedactingGoesOn
<1>6. Redacting(third, text, done)
  <2> HIDE DEF second
  <2>1. QED
    BY <1>2, <1>5, RedactingGoesOn
<1>7. ToSet(schemes) \ done = {}
  BY SchemesAreThree
<1> HIDE DEF done, third
<1>8. QED
  BY <1>1, <1>6, <1>7 DEF Redacting, Reached, IsRedaction

\* Every layer of the message is what is left of its text.
LEMMA MessagesAreRedacted ==
  ASSUME NEW err, err.chain \in Seq(Seq(STRING))
  PROVE  /\ DOMAIN FromDbErr(err).message = DOMAIN err.chain
         /\ \A layer \in DOMAIN err.chain : IsRedaction(FromDbErr(err).message[layer], err.chain[layer])
<1>1. FromDbErr(err).message = [layer \in DOMAIN err.chain |-> sanitize_message(err.chain[layer])]
  BY DEF FromDbErr, sanitize_full_chain
<1>2. \A layer \in DOMAIN err.chain : err.chain[layer] \in Seq(STRING)
  OBVIOUS
<1>3. QED
  BY <1>1, <1>2, UrlsAreTakenOut

\* The error of a lost answer is not one to retry at, whatever its URLs say.
LEMMA LostIsNotRetried ==
  ASSUME NEW error \in LostErrors
  PROVE  ~is_retriable(classify(error))
<1>1. PICK err \in Lost : error = FromDbErr(err)
  BY DEF LostErrors
<1>2. /\ err.chain \in Seq(Seq(STRING))
      /\ err.variant \notin {"Conn", "ConnectionAcquire"}
  BY TextsAssumption, LostAssumption
<1>3. classify(error) = classify_database(categorize(err.variant), error.message)
  BY <1>1 DEF classify, FromDbErr
<1>4. categorize(err.variant) # "Connection"
  BY <1>2 DEF categorize
<1>5. classify_runtime(error.message) = "Fatal"
  <2>1. ASSUME NEW layer \in DOMAIN error.message
        PROVE  ToSet(error.message[layer]) \cap TransientTexts = {}
    <3> DEFINE text == err.chain[layer]  message == error.message[layer]
    <3>1. layer \in DOMAIN err.chain /\ IsRedaction(message, text)
      BY <1>1, <1>2, <2>1, MessagesAreRedacted
    <3>2. \A i \in DOMAIN text : text[i] \in TransientTexts => i \in Matched(text)
      BY <3>1, LostAssumption
    <3> HIDE DEF text, message
    <3>3. TransientTexts \cap {Redacted, Nothing, Stop} = {}
      BY DEF TransientTexts, Redacted, Nothing, Stop
    <3>4. \A i \in DOMAIN message : message[i] \notin TransientTexts
      BY <3>1, <3>2, <3>3 DEF IsRedaction
    <3>5. QED
      BY <3>4 DEF ToSet, message
  <2>2. QED
    BY <2>1 DEF classify_runtime
<1>6. QED
  BY <1>3, <1>4, <1>5 DEF classify_database, is_retriable

-----------------------------------------------------------------------------
(* The typing.  What a step does to the calls, and a statement to the tables   *)

Phases == {"ready", "sent", "inserted", "executed", "halted"}
Errors == {NoError} \cup FailureErrors \cup RefusalErrors \cup LostErrors

\* A call goes on: its phase changes, or its error.
LEMMA CallGoesOn ==
  ASSUME NEW c \in Begun, NEW phase \in Phases
  PROVE  /\ [c EXCEPT !.phase = phase] \in Begun
         /\ [c EXCEPT !.phase = phase].phase = phase
         /\ [c EXCEPT !.phase = phase].n = c.n /\ [c EXCEPT !.phase = phase].op = c.op
BY DEF Begun, Phases

LEMMA CallHasError ==
  ASSUME NEW c \in Begun, NEW phase \in Phases, NEW error \in Errors
  PROVE  LET d == [c EXCEPT !.error = error, !.phase = phase]
         IN  d \in Begun /\ d.phase = phase /\ d.n = c.n /\ d.op = c.op
BY DEF Begun, Phases, Errors

LEMMA NoCallIsIdle == NoCall.phase = "idle" /\ NoCall.n = 0
BY DEF NoCall

\* A call that is not idle has begun.
LEMMA NotIdleHasBegun ==
  ASSUME TypeOK, NEW w \in Callers, call[w].phase # "idle"
  PROVE  call[w] \in Begun
BY NoCallIsIdle DEF TypeOK

\* A row is put into a table, or put in the place of another.
LEMMA UpsertTyped ==
  ASSUME NEW rows, NEW table \in TableOf(rows), NEW key \in Keys, NEW row \in rows
  PROVE  Upsert(table, key, row) \in TableOf(rows)
<1>1. PICK K \in SUBSET Keys : table \in [K -> rows]
  BY DEF TableOf
<1>2. Upsert(table, key, row) \in [K \cup {key} -> rows]
  BY <1>1 DEF Upsert
<1>3. QED
  BY <1>2 DEF TableOf

\* What each statement does to the tables.
LEMMA StatementsApplied ==
  ASSUME NEW tables, NEW c
  PROVE  /\ c.op = "record_event" => Apply(tables, c) = record_event(tables, c)
         /\ c.op = "upsert_group" => Apply(tables, c) = upsert_group(tables, c)
         /\ c.op = "set_state"    => Apply(tables, c) = set_state(tables, c)
         /\ c.op = "set_session"  => Apply(tables, c) = set_session(tables, c)
BY DEF Apply

LEMMA StatementsTyped ==
  ASSUME NEW tables \in Database, NEW c \in Begun
  PROVE  Apply(tables, c) \in Database
<1>1. /\ c.op \in Ops /\ c.key \in Keys /\ c.n \in Numbers /\ c.created_at \in Times /\ c.id \in Nat
  BY DEF Begun
<1>2. CASE c.op = "record_event"
  <2>1. record_event(tables, c) \in Database
    BY <1>1 DEF record_event, Database
  <2>2. QED
    BY <1>2, <2>1, StatementsApplied
<1>3. CASE c.op = "upsert_group"
  <2> DEFINE created == IF c.key \in DOMAIN tables.groups THEN tables.groups[c.key].created_at
                        ELSE c.created_at
             row == [config_json |-> c.n, created_at |-> created]
  <2>1. tables.groups \in TableOf([config_json : Numbers, created_at : Times])
    BY DEF Database
  <2>2. created \in Times
    BY <1>1, <2>1 DEF TableOf
  <2>3. row \in [config_json : Numbers, created_at : Times]
    BY <1>1, <2>2
  <2> HIDE DEF row
  <2>4. Upsert(tables.groups, c.key, row) \in TableOf([config_json : Numbers, created_at : Times])
    BY <1>1, <2>1, <2>3, UpsertTyped
  <2>5. upsert_group(tables, c) = [tables EXCEPT !.groups = Upsert(tables.groups, c.key, row)]
    BY DEF upsert_group, row
  <2>6. upsert_group(tables, c) \in Database
    BY <2>4, <2>5 DEF Database
  <2>7. QED
    BY <1>3, <2>6, StatementsApplied
<1>4. CASE c.op = "set_state"
  <2>1. Upsert(tables.state, c.key, c.n) \in TableOf(Numbers)
    BY <1>1, UpsertTyped DEF Database
  <2>2. set_state(tables, c) \in Database
    BY <2>1 DEF set_state, Database
  <2>3. QED
    BY <1>4, <2>2, StatementsApplied
<1>5. CASE c.op = "set_session"
  <2>1. Upsert(tables.sessions, c.key, c.n) \in TableOf(Numbers)
    BY <1>1, UpsertTyped DEF Database
  <2>2. set_session(tables, c) \in Database
    BY <2>1 DEF set_session, Database
  <2>3. QED
    BY <1>5, <2>2, StatementsApplied
<1>6. QED
  BY <1>1, <1>2, <1>3, <1>4, <1>5 DEF Ops

-----------------------------------------------------------------------------
(* The inductive invariant                                                   *)

\* An in-memory database that is a connection's own has that connection only.
OneDatabase == pool.memory => pool.size = 1

\* A call's number is its own.
NumbersAreOwn ==
    /\ \A w \in Callers : call[w].n <= calls
    /\ \A i \in DOMAIN log : log[i].n <= calls
    /\ \A n \in unsure : n <= calls
    /\ \A v, w \in Callers : call[v].n = call[w].n /\ call[v].n # 0 => v = w

\* Only an event is looked up after it was inserted, and only where INSERT does
\* not give it back.
OnlyEventsAreUnsure ==
    /\ \A w \in Callers : call[w].phase = "inserted" => call[w].op = "record_event" /\ ~pool.returning
    /\ \A w \in Callers : call[w].n \in unsure => call[w].op = "record_event"
    /\ \A w \in Callers : \A i \in DOMAIN log : log[i].n = call[w].n => log[i].op = call[w].op
    /\ pool.size = 0 => unsure = {} /\ \A w \in Callers : call[w] = NoCall

\* There are ids left for new events.
EventsAreCounted == IsFiniteSet(db[1].events) /\ Cardinality(db[1].events) <= Len(log)

\* What the tables of the one database hold is what the log says.
EventsFollow ==
    {<<e.payload, e.created_at>> : e \in db[1].events} =
        {<<log[i].n, log[i].created_at>> : i \in {j \in DOMAIN log : log[j].op = "record_event"}}

GroupsFollow ==
    \A key \in Keys :
        /\ key \in DOMAIN db[1].groups <=> Of("upsert_group", key) # {}
        /\ get_group(db[1], key) =
              {[config_json |-> last.n, created_at |-> first.created_at] :
                  first \in First(Of("upsert_group", key)), last \in Latest(Of("upsert_group", key))}

StateFollows ==
    \A key \in Keys : get_state(db[1], key) = {last.n : last \in Latest(Of("set_state", key))}

SessionsFollow ==
    \A key \in Keys : get_session(db[1], key) = {last.n : last \in Latest(Of("set_session", key))}

IndInv ==
    /\ TypeOK
    /\ OneDatabase
    /\ NumbersAreOwn
    /\ OnlyEventsAreUnsure
    /\ EventsAreCounted
    /\ OnceEach
    /\ EventsFollow /\ GroupsFollow /\ StateFollows /\ SessionsFollow

\* Whatever connection a call is given, it has the one database.
LEMMA OneView ==
  ASSUME TypeOK, OneDatabase, NEW conn \in Connections
  PROVE  /\ (IF pool.memory THEN conn ELSE 1) = 1
         /\ 1 \in 1..PoolSize
         /\ Tables(conn) = db[1]
BY DEF TypeOK, OneDatabase, Connections, Tables

\* A function on a finite set has no more values than that set has members.
LEMMA ValuesAreFewer ==
  ASSUME NEW S, IsFiniteSet(S), NEW f, DOMAIN f = S
  PROVE  LET values == {f[x] : x \in S}
         IN  IsFiniteSet(values) /\ Cardinality(values) <= Cardinality(S)
<1> DEFINE values == {f[x] : x \in S}
           g == [x \in S |-> f[x]]
<1>1. g \in Surjection(S, values)
  BY DEF Surjection
<1>2. QED
  BY <1>1, FS_Surjection

\* There are more ids than are in use: one is fresh.
LEMMA IdIsFresh ==
  ASSUME TypeOK, OneDatabase, EventsAreCounted
  PROVE  /\ generate_id \in Nat
         /\ \A w \in Callers : call[w].id # generate_id
         /\ pool.size > 0 => \A e \in db[1].events : e.id # generate_id
<1> DEFINE N == Cardinality(Callers) + Len(log) + 1
           held == {call[w].id : w \in Callers}
           given == {e.id : e \in db[1].events}
<1>1. Cardinality(Callers) \in Nat /\ Len(log) \in Nat /\ Cardinality(db[1].events) \in Nat
  BY CallersAssumption, FS_CardinalityType DEF TypeOK, EventsAreCounted
<1>2. IsFiniteSet(held) /\ Cardinality(held) <= Cardinality(Callers)
  <2> DEFINE f == [w \in Callers |-> call[w].id]
  <2>1. held = {f[w] : w \in Callers} /\ DOMAIN f = Callers
    OBVIOUS
  <2> HIDE DEF f, held
  <2>2. QED
    BY <2>1, CallersAssumption, ValuesAreFewer
<1>3. IsFiniteSet(given) /\ Cardinality(given) <= Cardinality(db[1].events)
  <2> DEFINE f == [e \in db[1].events |-> e.id]
  <2>1. given = {f[e] : e \in db[1].events} /\ DOMAIN f = db[1].events
    OBVIOUS
  <2> HIDE DEF f, given
  <2>2. IsFiniteSet(db[1].events)
    BY DEF EventsAreCounted
  <2>3. QED
    BY <2>1, <2>2, ValuesAreFewer
<1> HIDE DEF held, given
<1>4. /\ IsFiniteSet(held \cup given)
      /\ Cardinality(held \cup given) = Cardinality(held) + Cardinality(given)
                                        - Cardinality(held \cap given)
  BY <1>2, <1>3, FS_Union
<1>5. Cardinality(held) \in Nat /\ Cardinality(given) \in Nat /\ Cardinality(held \cap given) \in Nat
  BY <1>2, <1>3, FS_CardinalityType, FS_Intersection
<1>6. Cardinality(1..N) = N /\ N \in Nat /\ N > Cardinality(Callers) + Len(log)
  <2>1. N \in Nat /\ N > 0 /\ N > Cardinality(Callers) + Len(log)
    BY <1>1
  <2>2. QED
    BY <2>1, FS_Interval
<1>7. ~(1..N \subseteq held \cup given)
  <2>1. Cardinality(held \cup given) < Cardinality(1..N)
    BY <1>1, <1>2, <1>3, <1>4, <1>5, <1>6 DEF EventsAreCounted
  <2>2. Cardinality(held \cup given) \in Nat /\ Cardinality(1..N) \in Nat
    BY <1>4, <1>6, FS_CardinalityType
  <2>3. ASSUME 1..N \subseteq held \cup given PROVE FALSE
    <3>1. Cardinality(1..N) <= Cardinality(held \cup given)
      BY <1>4, <2>3, FS_Subset
    <3>2. QED
      BY <2>1, <2>2, <3>1
  <2>4. QED
    BY <2>3
<1>8. PICK id \in 1..N : id \notin held \cup given
  BY <1>7
<1>9. \A conn \in Connections : \A e \in Tables(conn).events : e.id # id
  BY <1>8, OneView DEF given
<1>10. \E x \in 1..N : /\ \A w \in Callers : call[w].id # x
                       /\ \A conn \in Connections : \A e \in Tables(conn).events : e.id # x
  BY <1>8, <1>9 DEF held
<1> HIDE DEF N
<1>11. /\ generate_id \in 1..N
       /\ \A w \in Callers : call[w].id # generate_id
       /\ \A conn \in Connections : \A e \in Tables(conn).events : e.id # generate_id
  BY <1>10 DEF generate_id, N
<1>12. pool.size > 0 => 1 \in Connections
  BY DEF TypeOK, Connections
<1>13. QED
  BY <1>6, <1>11, <1>12, OneView

\* A step in which one call goes on or is over and nothing is applied.  One that
\* is to be tried again has not been applied, or nobody knows.
Moves(w) ==
    /\ UNCHANGED <<pool, db, calls, log>>
    /\ \/ unsure' = unsure
       \/ call[w].phase = "inserted" /\ unsure' = unsure \cup {call[w].n}
    /\ \E c \in {NoCall} \cup Begun :
          /\ call' = [call EXCEPT ![w] = c]
          /\ c # NoCall => /\ c.n = call[w].n /\ c.op = call[w].op /\ c.phase # "inserted"
                           /\ c.phase \in {"ready", "sent"} =>
                                 call[w].phase \in {"ready", "sent"} \/ call[w].n \in unsure'

LEMMA RecoverMoves ==
  ASSUME TypeOK, NEW w \in Callers, call[w].phase # "idle", NEW error \in Errors,
         Recover(w, error), UNCHANGED <<pool, db, calls, log>>,
         \/ unsure' = unsure
         \/ call[w].phase = "inserted" /\ unsure' = unsure \cup {call[w].n},
         is_retriable(classify(error)) => call[w].phase \in {"ready", "sent"} \/ call[w].n \in unsure'
  PROVE  Moves(w)
<1> DEFINE phase == IF is_retriable(classify(error)) THEN "ready" ELSE "halted"
           c == [call[w] EXCEPT !.error = error, !.phase = phase]
<1>1. call' = [call EXCEPT ![w] = c]
  BY DEF Recover
<1>2. /\ phase \in Phases /\ phase # "inserted"
      /\ phase \in {"ready", "sent"} => call[w].phase \in {"ready", "sent"} \/ call[w].n \in unsure'
  BY DEF Phases
<1> HIDE DEF phase
<1>3. c \in Begun /\ c.n = call[w].n /\ c.op = call[w].op /\ c.phase = phase
  <2>1. call[w] \in Begun
    BY NotIdleHasBegun
  <2>2. QED
    BY <1>2, <2>1, CallHasError
<1> HIDE DEF c
<1>4. QED
  BY <1>1, <1>2, <1>3 DEF Moves

LEMMA CallsMove ==
  ASSUME TypeOK, OneDatabase, EventsAreCounted, NEW w \in Callers,
         \/ Attempt(w) \/ Lookup(w) \/ AnswerOk(w)
         \/ Fail(w) \/ Refuse(w) \/ LookupFails(w) \/ LoseAnswer(w)
  PROVE  Moves(w)
<1>1. CASE Attempt(w)
  <2> DEFINE id == IF call[w].op = "record_event" THEN generate_id ELSE 0
             c == [call[w] EXCEPT !.phase = "sent", !.error = NoError, !.id = id]
  <2>1. call' = [call EXCEPT ![w] = c] /\ call[w].phase = "ready"
    BY <1>1 DEF Attempt
  <2>2. id \in Nat /\ "sent" \in Phases
    BY IdIsFresh DEF Phases
  <2> HIDE DEF id
  <2>3. c \in Begun /\ c.n = call[w].n /\ c.op = call[w].op /\ c.phase = "sent"
    <3>1. call[w] \in Begun
      BY <2>1, NotIdleHasBegun
    <3>2. QED
      BY <2>2, <3>1 DEF Begun
  <2> HIDE DEF c
  <2>4. QED
    BY <1>1, <2>1, <2>3 DEF Attempt, Moves
<1>2. CASE Lookup(w)
  <2> DEFINE c == [call[w] EXCEPT !.phase = "executed"]
  <2>1. call' = [call EXCEPT ![w] = c] /\ call[w].phase = "inserted"
    BY <1>2 DEF Lookup
  <2>2. c \in Begun /\ c.n = call[w].n /\ c.op = call[w].op /\ c.phase = "executed"
    <3>1. "executed" \in Phases /\ call[w] \in Begun
      BY <2>1, NotIdleHasBegun DEF Phases
    <3>2. QED
      BY <3>1, CallGoesOn
  <2> HIDE DEF c
  <2>3. QED
    BY <1>2, <2>1, <2>2 DEF Lookup, Moves
<1>3. CASE AnswerOk(w)
  BY <1>3 DEF AnswerOk, Moves
<1>4. CASE Fail(w) \/ Refuse(w)
  <2>1. PICK error \in Errors : Recover(w, error)
    BY <1>4 DEF Fail, Refuse, Errors
  <2>2. QED
    BY <1>4, <2>1, RecoverMoves DEF Fail, Refuse
<1>5. CASE LookupFails(w)
  <2>1. PICK error \in Errors : Recover(w, error)
    BY <1>5 DEF LookupFails, Errors
  <2>2. QED
    BY <1>5, <2>1, RecoverMoves DEF LookupFails
<1>6. CASE LoseAnswer(w)
  <2>1. PICK error \in LostErrors : Recover(w, error)
    BY <1>6 DEF LoseAnswer
  <2>2. ~is_retriable(classify(error)) /\ error \in Errors
    BY LostIsNotRetried DEF Errors
  <2>3. QED
    BY <1>6, <2>1, <2>2, RecoverMoves DEF LoseAnswer
<1>7. QED
  BY <1>1, <1>2, <1>3, <1>4, <1>5, <1>6

\* A new call has the next number.
LEMMA CallBegins ==
  ASSUME TypeOK, NEW w \in Callers, NEW op \in Ops, NEW key \in Keys, Call(w, op, key)
  PROVE  /\ UNCHANGED <<pool, db, log, unsure>> /\ pool.size > 0
         /\ calls < MaxCalls /\ calls' = calls + 1
         /\ \E c \in Begun : /\ call' = [call EXCEPT ![w] = c]
                            /\ c.n = calls + 1 /\ c.phase = "ready"
<1>1. PICK created_at \in 1..MaxTime, refused \in BOOLEAN :
        call' = [call EXCEPT ![w] = [NoCall EXCEPT
                    !.phase = "ready", !.op = op, !.key = key, !.n = calls + 1,
                    !.refused = refused, !.created_at = created_at]]
  BY DEF Call
<1> DEFINE c == [NoCall EXCEPT !.phase = "ready", !.op = op, !.key = key, !.n = calls + 1,
                               !.refused = refused, !.created_at = created_at]
<1>2. calls + 1 \in Numbers
  BY DEF Call, TypeOK, Numbers
<1>3. c \in Begun /\ c.n = calls + 1 /\ c.phase = "ready"
  BY <1>2 DEF NoCall, Begun, Times
<1> HIDE DEF c
<1>4. call' = [call EXCEPT ![w] = c]
  BY <1>1 DEF c
<1>5. QED
  BY <1>3, <1>4 DEF Call

\* A statement is applied to the one database, and its call is then executed.
Entry(c) == [op |-> c.op, key |-> c.key, n |-> c.n, created_at |-> c.created_at]

LEMMA StatementRuns ==
  ASSUME TypeOK, OneDatabase, NEW w \in Callers, Execute(w)
  PROVE  /\ UNCHANGED <<pool, calls, unsure>> /\ pool.size > 0
         /\ call[w] \in Begun /\ call[w].phase = "sent"
         /\ db' = [db EXCEPT ![1] = Apply(db[1], call[w])]
         /\ db'[1] = Apply(db[1], call[w])
         /\ db[1] \in Database
         /\ log' = Append(log, Entry(call[w]))
         /\ Entry(call[w]) \in Applied
         /\ \E c \in Begun : /\ call' = [call EXCEPT ![w] = c]
                            /\ c.n = call[w].n /\ c.op = call[w].op
                            /\ \/ c.phase = "executed"
                               \/ c.phase = "inserted" /\ c.op = "record_event" /\ ~pool.returning
<1>1. call[w] \in Begun /\ call[w].phase = "sent"
  BY NotIdleHasBegun DEF Execute
<1>2. PICK conn \in Connections :
        db' = [db EXCEPT ![IF pool.memory THEN conn ELSE 1] =
                  Apply(db[IF pool.memory THEN conn ELSE 1], call[w])]
  BY DEF Execute
<1>3. /\ db' = [db EXCEPT ![1] = Apply(db[1], call[w])]
      /\ 1 \in 1..PoolSize
  BY <1>2, OneView
<1>4. db[1] \in Database /\ DOMAIN db = 1..PoolSize
  BY <1>3 DEF TypeOK
<1>5. Entry(call[w]) \in Applied
  BY <1>1 DEF Entry, Begun, Applied
<1> DEFINE phase == IF call[w].op = "record_event" /\ ~pool.returning THEN "inserted" ELSE "executed"
           c == [call[w] EXCEPT !.phase = phase]
<1>6. c \in Begun /\ c.n = call[w].n /\ c.op = call[w].op /\ c.phase = phase
  <2>1. phase \in Phases
    BY DEF Phases
  <2>2. QED
    BY <1>1, <2>1, CallGoesOn
<1>7. /\ call' = [call EXCEPT ![w] = c] /\ UNCHANGED <<pool, calls, unsure>>
      /\ log' = Append(log, Entry(call[w])) /\ pool.size > 0
  <2>1. pool.size > 0
    BY <1>2 DEF TypeOK, Connections
  <2>2. QED
    BY <2>1 DEF Execute, Entry
<1> HIDE DEF c
<1>8. QED
  BY <1>1, <1>3, <1>4, <1>5, <1>6, <1>7

\* The steps, as far as the invariant tells them apart.
LEMMA Steps ==
  ASSUME TypeOK, OneDatabase, EventsAreCounted, [Next]_vars
  PROVE  \/ \E url \in Urls : connect(url)
         \/ \E w \in Callers, op \in Ops, key \in Keys : Call(w, op, key)
         \/ \E w \in Callers : Moves(w)
         \/ \E w \in Callers : Execute(w)
         \/ UNCHANGED vars
<1>1. ASSUME NEW w \in Callers,
             \/ Attempt(w) \/ Lookup(w) \/ AnswerOk(w)
             \/ Fail(w) \/ Refuse(w) \/ LookupFails(w) \/ LoseAnswer(w)
      PROVE  Moves(w)
  BY <1>1, CallsMove
<1>2. QED
  BY <1>1 DEF Next, Finished

LEMMA TypingKept ==
  ASSUME TypeOK, OneDatabase, EventsAreCounted, [Next]_vars
  PROVE  TypeOK' /\ OneDatabase'
<1>1. ASSUME NEW url \in Urls, connect(url) PROVE TypeOK' /\ OneDatabase'
  <2>1. pool' \in [memory : BOOLEAN, returning : BOOLEAN, size : 0..PoolSize]
    BY <1>1 DEF connect, IsPrivate, CanReturn
  <2>2. pool'.memory => pool'.size = 1
    BY <1>1 DEF connect, IsPrivate, is_sqlite_memory
  <2>3. UNCHANGED <<db, call, calls, log, unsure>>
    BY <1>1 DEF connect
  <2>4. QED
    BY <2>1, <2>2, <2>3 DEF TypeOK, OneDatabase
<1>2. ASSUME NEW w \in Callers, NEW op \in Ops, NEW key \in Keys, Call(w, op, key)
      PROVE  TypeOK' /\ OneDatabase'
  <2>1. PICK c \in Begun : call' = [call EXCEPT ![w] = c]
    BY <1>2, CallBegins
  <2>2. UNCHANGED <<pool, db, log, unsure>> /\ calls' \in 0..MaxCalls
    BY <1>2, CallBegins DEF TypeOK
  <2>3. QED
    BY <2>1, <2>2 DEF TypeOK, OneDatabase
<1>3. ASSUME NEW w \in Callers, Moves(w) PROVE TypeOK' /\ OneDatabase'
  <2>1. unsure' \subseteq Numbers
    <3>1. call[w].phase = "inserted" => call[w].n \in Numbers
      BY NotIdleHasBegun DEF Begun
    <3>2. QED
      BY <1>3, <3>1 DEF Moves, TypeOK
  <2>2. QED
    BY <1>3, <2>1 DEF Moves, TypeOK, OneDatabase
<1>4. ASSUME NEW w \in Callers, Execute(w) PROVE TypeOK' /\ OneDatabase'
  <2>1. PICK c \in Begun : call' = [call EXCEPT ![w] = c]
    BY <1>4, StatementRuns
  <2>2. Apply(db[1], call[w]) \in Database
    BY <1>4, StatementRuns, StatementsTyped
  <2>3. db' \in [1..PoolSize -> Database]
    BY <1>4, <2>2, StatementRuns DEF TypeOK
  <2>4. log' \in Seq(Applied)
    <3>1. log' = Append(log, Entry(call[w])) /\ Entry(call[w]) \in Applied /\ log \in Seq(Applied)
      BY <1>4, StatementRuns DEF TypeOK
    <3>2. QED
      BY <3>1
  <2>5. UNCHANGED <<pool, calls, unsure>>
    BY <1>4, StatementRuns
  <2>6. QED
    BY <2>1, <2>3, <2>4, <2>5 DEF TypeOK, OneDatabase
<1>5. CASE UNCHANGED vars
  BY <1>5 DEF vars, TypeOK, OneDatabase
<1>6. QED
  BY <1>1, <1>2, <1>3, <1>4, <1>5, Steps

-----------------------------------------------------------------------------
(* A call is applied once at most                                            *)

\* The log after one more statement.
LEMMA LogGrows ==
  ASSUME TypeOK, NEW e \in Applied, log' = Append(log, e)
  PROVE  /\ DOMAIN log = 1..Len(log) /\ Len(log) \in Nat
         /\ DOMAIN log' = DOMAIN log \cup {Len(log) + 1}
         /\ Len(log') = Len(log) + 1
         /\ log'[Len(log) + 1] = e
         /\ \A i \in DOMAIN log : log'[i] = log[i] /\ log[i] \in Applied
BY DEF TypeOK

\* The calls' numbers are numbers.
LEMMA NumbersTyped ==
  ASSUME TypeOK
  PROVE  /\ \A w \in Callers : call[w].n \in Nat /\ (call[w] \in Begun => call[w].n > 0)
         /\ calls \in Nat
         /\ \A i \in DOMAIN log : log[i].n \in Nat
<1>1. \A w \in Callers : call[w].n \in Nat /\ (call[w] \in Begun => call[w].n > 0)
  BY NoCallIsIdle DEF TypeOK, Begun, Numbers
<1>2. calls \in Nat
  BY DEF TypeOK
<1>3. ASSUME NEW i \in DOMAIN log PROVE log[i].n \in Nat
  <2>1. log[i] \in Applied
    BY DEF TypeOK
  <2>2. QED
    BY <2>1 DEF Applied, Numbers
<1>4. QED
  BY <1>1, <1>2, <1>3

LEMMA NumbersKept ==
  ASSUME IndInv, [Next]_vars
  PROVE  NumbersAreOwn' /\ OnlyEventsAreUnsure' /\ OnceEach'
<1> USE DEF IndInv
<1>1. ASSUME NEW url \in Urls, connect(url)
      PROVE  NumbersAreOwn' /\ OnlyEventsAreUnsure' /\ OnceEach'
  <2>1. pool.size = 0 /\ UNCHANGED <<call, calls, log, unsure>>
    BY <1>1 DEF connect
  <2>2. unsure = {} /\ \A w \in Callers : call[w] = NoCall
    BY <2>1 DEF OnlyEventsAreUnsure
  <2>3. OnlyEventsAreUnsure'
    BY <2>1, <2>2, NoCallIsIdle DEF OnlyEventsAreUnsure
  <2>4. QED
    BY <2>1, <2>2, <2>3 DEF NumbersAreOwn, OnceEach
<1>2. ASSUME NEW w \in Callers, NEW op \in Ops, NEW key \in Keys, Call(w, op, key)
      PROVE  NumbersAreOwn' /\ OnlyEventsAreUnsure' /\ OnceEach'
  <2>1. PICK c \in Begun : call' = [call EXCEPT ![w] = c] /\ c.n = calls + 1 /\ c.phase = "ready"
    BY <1>2, CallBegins
  <2>2. calls' = calls + 1 /\ UNCHANGED <<pool, log, unsure>> /\ pool.size > 0
    BY <1>2, CallBegins
  <2>3. /\ call'[w] = c /\ \A v \in Callers \ {w} : call'[v] = call[v]
    BY <2>1 DEF TypeOK
  <2>4. unsure \subseteq Nat /\ calls \in Nat
    BY NumbersTyped DEF TypeOK, Numbers
  <2>5. NumbersAreOwn'
    BY <2>1, <2>2, <2>3, <2>4, NumbersTyped DEF NumbersAreOwn
  <2>6. c.n \notin unsure /\ \A i \in DOMAIN log : log[i].n # c.n
    BY <2>1, <2>4, NumbersTyped DEF NumbersAreOwn
  <2>7. OnceEach'
    BY <2>2, <2>3, <2>6 DEF OnceEach
  <2>8. OnlyEventsAreUnsure'
    <3>1. pool.size # 0
      BY <2>2 DEF TypeOK
    <3>2. QED
      BY <2>1, <2>2, <2>3, <2>6, <3>1 DEF OnlyEventsAreUnsure
  <2>9. QED
    BY <2>5, <2>7, <2>8
<1>3. ASSUME NEW w \in Callers, Moves(w)
      PROVE  NumbersAreOwn' /\ OnlyEventsAreUnsure' /\ OnceEach'
  <2>1. PICK c \in {NoCall} \cup Begun :
          /\ call' = [call EXCEPT ![w] = c]
          /\ c # NoCall => /\ c.n = call[w].n /\ c.op = call[w].op /\ c.phase # "inserted"
                           /\ c.phase \in {"ready", "sent"} =>
                                 call[w].phase \in {"ready", "sent"} \/ call[w].n \in unsure'
    BY <1>3 DEF Moves
  <2>2. UNCHANGED <<pool, calls, log>>
    BY <1>3 DEF Moves
  <2>3. /\ unsure \subseteq unsure' /\ \A n \in unsure' : n \in unsure \/ n = call[w].n
        /\ unsure' # unsure => call[w].phase = "inserted"
    BY <1>3 DEF Moves
  <2>4. /\ call'[w] = c /\ \A v \in Callers \ {w} : call'[v] = call[v]
    BY <2>1 DEF TypeOK
  <2>5. c.n \in {0, call[w].n}
    BY <2>1, NoCallIsIdle
  <2>6. NumbersAreOwn'
    BY <2>2, <2>3, <2>4, <2>5, NumbersTyped DEF NumbersAreOwn
  <2>7. \A n \in unsure' \ unsure : /\ n = call[w].n /\ n # 0
                                    /\ call[w].op = "record_event" /\ ~pool.returning /\ pool.size # 0
    <3>1. call[w].phase = "inserted" => call[w] # NoCall /\ call[w] \in Begun
      BY NotIdleHasBegun, NoCallIsIdle
    <3>2. QED
      BY <2>3, <3>1, NumbersTyped DEF OnlyEventsAreUnsure
  <2>8. OnlyEventsAreUnsure'
    <3>1. \A v \in Callers : call'[v].phase = "inserted" => call'[v].op = "record_event" /\ ~pool'.returning
      BY <2>1, <2>2, <2>4, NoCallIsIdle DEF OnlyEventsAreUnsure
    <3>2. ASSUME NEW v \in Callers, call'[v].n \in unsure' PROVE call'[v].op = "record_event"
      <4>1. call'[v].n # 0
        <5>1. \A n \in unsure : n # 0
          BY DEF TypeOK, Numbers
        <5>2. QED
          BY <2>7, <3>2, <5>1
      <4>2. call'[v].n = call[v].n /\ call'[v].op = call[v].op
        BY <2>1, <2>4, <4>1, NoCallIsIdle
      <4>3. QED
        BY <2>7, <3>2, <4>1, <4>2 DEF OnlyEventsAreUnsure, NumbersAreOwn
    <3>3. ASSUME NEW v \in Callers, NEW i \in DOMAIN log, log[i].n = call'[v].n
          PROVE  log[i].op = call'[v].op
      <4>1. log[i].n # 0
        <5>1. log[i] \in Applied
          BY DEF TypeOK
        <5>2. QED
          BY <5>1 DEF Applied, Numbers
      <4>2. call'[v].n = call[v].n /\ call'[v].op = call[v].op
        BY <2>1, <2>4, <3>3, <4>1, NoCallIsIdle
      <4>3. QED
        BY <3>3, <4>2 DEF OnlyEventsAreUnsure
    <3>4. pool'.size = 0 => unsure' = {} /\ \A v \in Callers : call'[v] = NoCall
      <4>1. ASSUME pool.size = 0 PROVE unsure' = {} /\ \A v \in Callers : call'[v] = NoCall
        <5>1. unsure = {} /\ \A v \in Callers : call[v] = NoCall
          BY <4>1 DEF OnlyEventsAreUnsure
        <5>2. unsure' = {}
          BY <2>7, <4>1, <5>1
        <5>3. c = NoCall
          <6>1. c # NoCall => c \in Begun /\ c.n = 0
            BY <2>1, <5>1, NoCallIsIdle
          <6>2. QED
            BY <6>1 DEF Begun, Numbers
        <5>4. QED
          BY <2>4, <5>1, <5>2, <5>3
      <4>2. QED
        BY <2>2, <4>1
    <3>5. QED
      BY <2>2, <3>1, <3>2, <3>3, <3>4 DEF OnlyEventsAreUnsure
  <2>9. OnceEach'
    <3>1. \A i, j \in DOMAIN log : log[i].n = log[j].n => i = j \/ log[i].n \in unsure'
      BY <2>3 DEF OnceEach
    <3>2. ASSUME NEW v \in Callers, call'[v].phase \in {"ready", "sent"},
                 NEW i \in DOMAIN log, log[i].n = call'[v].n
          PROVE  log[i].n \in unsure'
      BY <2>1, <2>3, <2>4, <3>2, NoCallIsIdle DEF OnceEach
    <3>3. \A i \in DOMAIN log : log[i].n \in unsure' => log[i].op = "record_event"
      BY <2>7 DEF OnceEach, OnlyEventsAreUnsure
    <3>4. pool'.returning => unsure' = {}
      BY <2>2, <2>7 DEF OnceEach
    <3>5. QED
      BY <2>2, <3>1, <3>2, <3>3, <3>4 DEF OnceEach
  <2>10. QED
    BY <2>6, <2>8, <2>9
<1>4. ASSUME NEW w \in Callers, Execute(w)
      PROVE  NumbersAreOwn' /\ OnlyEventsAreUnsure' /\ OnceEach'
  <2>1. PICK c \in Begun : /\ call' = [call EXCEPT ![w] = c]
                           /\ c.n = call[w].n /\ c.op = call[w].op
                           /\ \/ c.phase = "executed"
                              \/ c.phase = "inserted" /\ c.op = "record_event" /\ ~pool.returning
    BY <1>4, StatementRuns
  <2>2. /\ call'[w] = c /\ \A v \in Callers \ {w} : call'[v] = call[v]
    BY <2>1 DEF TypeOK
  <2>3. /\ UNCHANGED <<pool, calls, unsure>> /\ pool.size > 0
        /\ log' = Append(log, Entry(call[w])) /\ Entry(call[w]) \in Applied
        /\ call[w] \in Begun /\ call[w].phase = "sent"
        /\ Entry(call[w]).n = call[w].n /\ Entry(call[w]).op = call[w].op
    BY <1>4, StatementRuns DEF Entry
  <2>4. /\ DOMAIN log' = DOMAIN log \cup {Len(log) + 1} /\ Len(log) + 1 \notin DOMAIN log
        /\ log'[Len(log) + 1] = Entry(call[w]) /\ \A i \in DOMAIN log : log'[i] = log[i]
    BY <2>3, LogGrows
  <2>5. NumbersAreOwn'
    BY <2>1, <2>2, <2>3, <2>4 DEF NumbersAreOwn
  <2>6. \A i \in DOMAIN log : log[i].n = call[w].n => log[i].n \in unsure
    BY <2>3 DEF OnceEach
  <2>7. ASSUME NEW v \in Callers, call'[v].phase \in {"ready", "sent"}
        PROVE  call'[v].n # call[w].n /\ call'[v] = call[v]
    BY <2>1, <2>2, <2>3, <2>7, NumbersTyped DEF NumbersAreOwn
  <2>8. OnceEach'
    <3>1. call[w].n \in unsure => call[w].op = "record_event"
      BY DEF OnlyEventsAreUnsure
    <3>2. QED
      BY <2>3, <2>4, <2>6, <2>7, <3>1 DEF OnceEach
  <2>9. OnlyEventsAreUnsure'
    <3>1. pool.size # 0
      BY <2>3 DEF TypeOK
    <3>2. \A v \in Callers : call'[v].n = call[v].n /\ call'[v].op = call[v].op
      BY <2>1, <2>2
    <3>3. \A v \in Callers : call[v].n = call[w].n => call[v].op = call[w].op
      BY <2>3, NumbersTyped DEF NumbersAreOwn
    <3>4. \A v \in Callers : \A i \in DOMAIN log' : log'[i].n = call'[v].n => log'[i].op = call'[v].op
      BY <2>3, <2>4, <3>2, <3>3 DEF OnlyEventsAreUnsure
    <3>5. \A v \in Callers : call'[v].phase = "inserted" => call'[v].op = "record_event" /\ ~pool'.returning
      BY <2>1, <2>2, <2>3 DEF OnlyEventsAreUnsure
    <3>6. QED
      BY <2>3, <3>1, <3>2, <3>4, <3>5 DEF OnlyEventsAreUnsure
  <2>10. QED
    BY <2>5, <2>8, <2>9
<1>5. CASE UNCHANGED vars
  BY <1>5 DEF vars, NumbersAreOwn, OnlyEventsAreUnsure, OnceEach
<1>6. QED
  BY <1>1, <1>2, <1>3, <1>4, <1>5, Steps

-----------------------------------------------------------------------------
(* The tables are what the statements made of them                           *)

\* A statement is the latest of its kind on its key, and the first if there was
\* none; of any other kind or key nothing changes.
LEMMA StatementIsLatest ==
  ASSUME TypeOK, NEW e \in Applied, log' = Append(log, e), NEW op, NEW key,
         e.op = op /\ e.key = key
  PROVE  /\ Of(op, key)' # {}
         /\ Latest(Of(op, key))' = {e}
         /\ First(Of(op, key))' = IF Of(op, key) = {} THEN {e} ELSE First(Of(op, key))
<1> DEFINE S == Of(op, key)  next == Len(log) + 1
           T == {i \in DOMAIN log' : log'[i].op = op /\ log'[i].key = key}
<1>1. /\ DOMAIN log = 1..Len(log) /\ Len(log) \in Nat /\ DOMAIN log' = DOMAIN log \cup {next}
      /\ log'[next] = e /\ \A i \in DOMAIN log : log'[i] = log[i]
  BY LogGrows
<1>2. /\ S \subseteq 1..Len(log)
      /\ T = S \cup {next}
  BY <1>1 DEF Of
<1>3. /\ Of(op, key)' = T
      /\ Latest(Of(op, key))' = {log'[i] : i \in {i \in T : \A j \in T : i >= j}}
      /\ First(Of(op, key))' = {log'[i] : i \in {i \in T : \A j \in T : i <= j}}
  BY DEF Of, Latest, First
<1> HIDE DEF S, T, next
<1>4. next \in Nat /\ \A i \in S : i \in Nat /\ i < next
  BY <1>1, <1>2 DEF next
<1>5. {i \in T : \A j \in T : i >= j} = {next}
  <2>1. \A i \in T : (\A j \in T : i >= j) <=> i = next
    BY <1>4, <1>2
  <2>2. QED
    BY <1>2, <2>1
<1>6. CASE S = {}
  <2>1. {i \in T : \A j \in T : i <= j} = {next}
    BY <1>4, <1>2, <1>6
  <2>2. T # {} /\ {log'[i] : i \in {next}} = {e}
    BY <1>1, <1>2
  <2>3. QED
    BY <1>3, <1>5, <1>6, <2>1, <2>2 DEF S
<1>7. CASE S # {}
  <2>1. {i \in T : \A j \in T : i <= j} = {i \in S : \A j \in S : i <= j}
    <3>1. \A i \in S : (\A j \in T : i <= j) <=> (\A j \in S : i <= j)
      BY <1>4, <1>2
    <3>2. ~(\A j \in T : next <= j)
      <4>1. PICK j \in S : TRUE
        BY <1>7
      <4>2. QED
        BY <1>4, <1>2, <4>1
    <3>3. QED
      BY <1>2, <3>1, <3>2
  <2>2. {log'[i] : i \in {i \in S : \A j \in S : i <= j}} = First(S)
    BY <1>1, <1>2 DEF First
  <2>3. T # {} /\ {log'[i] : i \in {next}} = {e}
    BY <1>1, <1>2
  <2>4. QED
    BY <1>3, <1>5, <1>7, <2>1, <2>2, <2>3 DEF S
<1>8. QED
  BY <1>6, <1>7

LEMMA OthersStay ==
  ASSUME TypeOK, NEW e \in Applied, log' = Append(log, e), NEW op, NEW key,
         ~(e.op = op /\ e.key = key)
  PROVE  /\ Of(op, key)' = Of(op, key)
         /\ Latest(Of(op, key))' = Latest(Of(op, key))
         /\ First(Of(op, key))' = First(Of(op, key))
<1> DEFINE S == Of(op, key)
           T == {i \in DOMAIN log' : log'[i].op = op /\ log'[i].key = key}
<1>1. /\ DOMAIN log' = DOMAIN log \cup {Len(log) + 1}
      /\ log'[Len(log) + 1] = e /\ \A i \in DOMAIN log : log'[i] = log[i]
  BY LogGrows
<1>2. T = S /\ S \subseteq DOMAIN log
  BY <1>1 DEF Of
<1>3. /\ Of(op, key)' = T
      /\ Latest(Of(op, key))' = {log'[i] : i \in {i \in T : \A j \in T : i >= j}}
      /\ First(Of(op, key))' = {log'[i] : i \in {i \in T : \A j \in T : i <= j}}
  BY DEF Of, Latest, First
<1> HIDE DEF S, T
<1>4. /\ {log'[i] : i \in {i \in S : \A j \in S : i >= j}} = Latest(S)
      /\ {log'[i] : i \in {i \in S : \A j \in S : i <= j}} = First(S)
  BY <1>1, <1>2 DEF Latest, First
<1>5. QED
  BY <1>2, <1>3, <1>4 DEF S

\* A row is there under its key, and others are where they were.
LEMMA UpsertFinds ==
  ASSUME NEW table, NEW key, NEW row, NEW other
  PROVE  /\ find_by_id(Upsert(table, key, row), key) = {row}
         /\ other # key => find_by_id(Upsert(table, key, row), other) = find_by_id(table, other)
         /\ other \in DOMAIN Upsert(table, key, row) <=> other = key \/ other \in DOMAIN table
<1>1. /\ DOMAIN Upsert(table, key, row) = DOMAIN table \cup {key}
      /\ Upsert(table, key, row)[key] = row
      /\ \A k \in DOMAIN table : k # key => Upsert(table, key, row)[k] = table[k]
  BY DEF Upsert
<1>2. find_by_id(Upsert(table, key, row), key) = {row}
  BY <1>1 DEF find_by_id
<1>3. ASSUME other # key
      PROVE  find_by_id(Upsert(table, key, row), other) = find_by_id(table, other)
  BY <1>1, <1>3 DEF find_by_id
<1>4. QED
  BY <1>1, <1>2, <1>3

\* What a statement leaves alone.
LEMMA OtherTablesStay ==
  ASSUME NEW tables \in Database, NEW c \in Begun
  PROVE  /\ c.op # "record_event" => Apply(tables, c).events = tables.events
         /\ c.op # "upsert_group" => Apply(tables, c).groups = tables.groups
         /\ c.op # "set_state"    => Apply(tables, c).state = tables.state
         /\ c.op # "set_session"  => Apply(tables, c).sessions = tables.sessions
<1>1. DOMAIN tables = {"events", "groups", "state", "sessions"}
  BY DEF Database
<1>2. /\ record_event(tables, c).groups = tables.groups
      /\ record_event(tables, c).state = tables.state
      /\ record_event(tables, c).sessions = tables.sessions
  BY <1>1 DEF record_event
<1>3. /\ upsert_group(tables, c).events = tables.events
      /\ upsert_group(tables, c).state = tables.state
      /\ upsert_group(tables, c).sessions = tables.sessions
  BY <1>1 DEF upsert_group
<1>4. /\ set_state(tables, c).events = tables.events
      /\ set_state(tables, c).groups = tables.groups
      /\ set_state(tables, c).sessions = tables.sessions
  BY <1>1 DEF set_state
<1>5. /\ set_session(tables, c).events = tables.events
      /\ set_session(tables, c).groups = tables.groups
      /\ set_session(tables, c).state = tables.state
  BY <1>1 DEF set_session
<1>6. c.op \in Ops
  BY DEF Begun
<1>7. QED
  BY <1>2, <1>3, <1>4, <1>5, <1>6, StatementsApplied DEF Ops

\* Events: one more, of the statement's call and time.
LEMMA EventsKept ==
  ASSUME IndInv, NEW w \in Callers, Execute(w)
  PROVE  EventsFollow' /\ EventsAreCounted'
<1> USE DEF IndInv
<1> DEFINE c == call[w]  e == Entry(c)
           Rows(events) == {<<x.payload, x.created_at>> : x \in events}
           Recorded == {j \in DOMAIN log : log[j].op = "record_event"}
           RecordedNext == {j \in DOMAIN log' : log'[j].op = "record_event"}
<1>1. /\ c \in Begun /\ db[1] \in Database /\ db'[1] = Apply(db[1], c)
      /\ log' = Append(log, e) /\ e \in Applied
  BY StatementRuns
<1>2. e.op = c.op /\ e.n = c.n /\ e.created_at = c.created_at
  BY DEF Entry
<1> HIDE DEF c, e
<1>3. /\ DOMAIN log' = DOMAIN log \cup {Len(log) + 1} /\ Len(log') = Len(log) + 1 /\ Len(log) \in Nat
      /\ log'[Len(log) + 1] = e /\ \A i \in DOMAIN log : log'[i] = log[i]
  BY <1>1, LogGrows
<1>4. Rows(db[1].events) = {<<log[i].n, log[i].created_at>> : i \in Recorded}
  BY DEF EventsFollow
<1>5. SUFFICES /\ Rows(db'[1].events) = {<<log'[i].n, log'[i].created_at>> : i \in RecordedNext}
               /\ IsFiniteSet(db'[1].events) /\ Cardinality(db'[1].events) <= Len(log')
  BY DEF EventsFollow, EventsAreCounted
<1>6. CASE c.op = "record_event"
  <2> DEFINE row == [id |-> c.id, payload |-> c.n, group_id |-> c.key, created_at |-> c.created_at]
  <2>1. db'[1].events = db[1].events \cup {row}
    BY <1>1, <1>6, StatementsApplied DEF record_event, Database
  <2>2. row.payload = e.n /\ row.created_at = e.created_at
    BY <1>2
  <2> HIDE DEF row
  <2>3. Rows(db'[1].events) = Rows(db[1].events) \cup {<<e.n, e.created_at>>}
    BY <2>1, <2>2
  <2>4. RecordedNext = Recorded \cup {Len(log) + 1}
    BY <1>2, <1>3, <1>6
  <2>5. {<<log'[i].n, log'[i].created_at>> : i \in RecordedNext} =
           {<<log[i].n, log[i].created_at>> : i \in Recorded} \cup {<<e.n, e.created_at>>}
    BY <1>3, <2>4
  <2>6. IsFiniteSet(db[1].events) /\ Cardinality(db[1].events) <= Len(log)
    BY DEF EventsAreCounted
  <2>7. /\ IsFiniteSet(db'[1].events)
        /\ Cardinality(db'[1].events) \in {Cardinality(db[1].events), Cardinality(db[1].events) + 1}
    BY <2>1, <2>6, FS_AddElement
  <2>8. Cardinality(db'[1].events) <= Len(log')
    BY <1>3, <2>6, <2>7, FS_CardinalityType
  <2>9. QED
    BY <1>4, <2>3, <2>5, <2>7, <2>8
<1>7. CASE c.op # "record_event"
  <2>1. db'[1].events = db[1].events
    BY <1>1, <1>7, OtherTablesStay
  <2>2. RecordedNext = Recorded
    BY <1>2, <1>3, <1>7
  <2>3. {<<log'[i].n, log'[i].created_at>> : i \in RecordedNext} =
           {<<log[i].n, log[i].created_at>> : i \in Recorded}
    BY <1>3, <2>2
  <2>4. Cardinality(db[1].events) \in Nat
    BY FS_CardinalityType DEF EventsAreCounted
  <2>5. QED
    BY <1>3, <1>4, <2>1, <2>3, <2>4 DEF EventsAreCounted
<1>8. QED
  BY <1>6, <1>7

\* State and sessions: the latest value of every key.
LEMMA ValuesKept ==
  ASSUME IndInv, NEW w \in Callers, Execute(w)
  PROVE  StateFollows' /\ SessionsFollow'
<1> USE DEF IndInv
<1> DEFINE c == call[w]  e == Entry(c)
<1>1. /\ c \in Begun /\ db[1] \in Database /\ db'[1] = Apply(db[1], c)
      /\ log' = Append(log, e) /\ e \in Applied
  BY StatementRuns
<1>2. e.op = c.op /\ e.n = c.n /\ e.key = c.key
  BY DEF Entry
<1> HIDE DEF c, e
<1>3. ASSUME NEW key \in Keys
      PROVE  find_by_id(db'[1].state, key) = {last.n : last \in Latest(Of("set_state", key))'}
  <2>1. find_by_id(db[1].state, key) = {last.n : last \in Latest(Of("set_state", key))}
    BY DEF StateFollows, get_state
  <2>2. CASE c.op = "set_state"
    <3>1. db'[1].state = Upsert(db[1].state, c.key, c.n)
      BY <1>1, <2>2, StatementsApplied DEF set_state, Database
    <3>2. CASE c.key = key
      <4>1. Latest(Of("set_state", key))' = {e}
        BY <1>1, <1>2, <2>2, <3>2, StatementIsLatest
      <4>2. QED
        BY <1>2, <3>1, <3>2, <4>1, UpsertFinds
    <3>3. CASE c.key # key
      <4>1. Latest(Of("set_state", key))' = Latest(Of("set_state", key))
        BY <1>1, <1>2, <3>3, OthersStay
      <4>2. QED
        BY <2>1, <3>1, <3>3, <4>1, UpsertFinds
    <3>4. QED
      BY <3>2, <3>3
  <2>3. CASE c.op # "set_state"
    <3>1. db'[1].state = db[1].state
      BY <1>1, <2>3, OtherTablesStay
    <3>2. Latest(Of("set_state", key))' = Latest(Of("set_state", key))
      BY <1>1, <1>2, <2>3, OthersStay
    <3>3. QED
      BY <2>1, <3>1, <3>2
  <2>4. QED
    BY <2>2, <2>3
<1>4. ASSUME NEW key \in Keys
      PROVE  find_by_id(db'[1].sessions, key) = {last.n : last \in Latest(Of("set_session", key))'}
  <2>1. find_by_id(db[1].sessions, key) = {last.n : last \in Latest(Of("set_session", key))}
    BY DEF SessionsFollow, get_session
  <2>2. CASE c.op = "set_session"
    <3>1. db'[1].sessions = Upsert(db[1].sessions, c.key, c.n)
      BY <1>1, <2>2, StatementsApplied DEF set_session, Database
    <3>2. CASE c.key = key
      <4>1. Latest(Of("set_session", key))' = {e}
        BY <1>1, <1>2, <2>2, <3>2, StatementIsLatest
      <4>2. QED
        BY <1>2, <3>1, <3>2, <4>1, UpsertFinds
    <3>3. CASE c.key # key
      <4>1. Latest(Of("set_session", key))' = Latest(Of("set_session", key))
        BY <1>1, <1>2, <3>3, OthersStay
      <4>2. QED
        BY <2>1, <3>1, <3>3, <4>1, UpsertFinds
    <3>4. QED
      BY <3>2, <3>3
  <2>3. CASE c.op # "set_session"
    <3>1. db'[1].sessions = db[1].sessions
      BY <1>1, <2>3, OtherTablesStay
    <3>2. Latest(Of("set_session", key))' = Latest(Of("set_session", key))
      BY <1>1, <1>2, <2>3, OthersStay
    <3>3. QED
      BY <2>1, <3>1, <3>2
  <2>4. QED
    BY <2>2, <2>3
<1>5. QED
  BY <1>3, <1>4 DEF StateFollows, SessionsFollow, get_state, get_session

\* Groups: the latest configuration of every key, and the first time.
LEMMA GroupsKept ==
  ASSUME IndInv, NEW w \in Callers, Execute(w)
  PROVE  GroupsFollow'
<1> USE DEF IndInv
<1> DEFINE c == call[w]  e == Entry(c)
           Old(key) == Of("upsert_group", key)
           Rows(firsts, lasts) == {[config_json |-> last.n, created_at |-> first.created_at] :
                                      first \in firsts, last \in lasts}
<1>1. /\ c \in Begun /\ db[1] \in Database /\ db'[1] = Apply(db[1], c)
      /\ log' = Append(log, e) /\ e \in Applied
  BY StatementRuns
<1>2. e.op = c.op /\ e.n = c.n /\ e.key = c.key /\ e.created_at = c.created_at
  BY DEF Entry
<1> HIDE DEF c, e
<1>3. ASSUME NEW key \in Keys
      PROVE  /\ key \in DOMAIN db'[1].groups <=> Of("upsert_group", key)' # {}
             /\ find_by_id(db'[1].groups, key) =
                  Rows(First(Of("upsert_group", key))', Latest(Of("upsert_group", key))')
  <2>1. /\ key \in DOMAIN db[1].groups <=> Old(key) # {}
        /\ find_by_id(db[1].groups, key) = Rows(First(Old(key)), Latest(Old(key)))
    BY DEF GroupsFollow, get_group
  <2> DEFINE created == IF c.key \in DOMAIN db[1].groups THEN db[1].groups[c.key].created_at
                        ELSE c.created_at
             row == [config_json |-> c.n, created_at |-> created]
  <2>2. CASE c.op = "upsert_group" /\ c.key = key
    <3>1. db'[1].groups = Upsert(db[1].groups, key, row)
      BY <1>1, <2>2, StatementsApplied DEF upsert_group, Database
    <3>2. /\ Of("upsert_group", key)' # {} /\ Latest(Of("upsert_group", key))' = {e}
          /\ First(Of("upsert_group", key))' = IF Old(key) = {} THEN {e} ELSE First(Old(key))
      BY <1>1, <1>2, <2>2, StatementIsLatest
    <3>3. CASE Old(key) = {}
      <4>1. row = [config_json |-> e.n, created_at |-> e.created_at]
        BY <1>2, <2>1, <2>2, <3>3
      <4> HIDE DEF row
      <4>2. Rows(First(Of("upsert_group", key))', Latest(Of("upsert_group", key))') = {row}
        BY <3>2, <3>3, <4>1
      <4>3. QED
        BY <3>1, <3>2, <4>2, UpsertFinds
    <3>4. CASE Old(key) # {}
      <4>1. key \in DOMAIN db[1].groups /\ find_by_id(db[1].groups, key) = {db[1].groups[key]}
        BY <2>1, <3>4 DEF find_by_id
      <4>2. PICK first \in First(Old(key)), last \in Latest(Old(key)) : TRUE
        BY <2>1, <4>1
      <4>3. \A x \in First(Old(key)) : x.created_at = db[1].groups[key].created_at
        <5>1. ASSUME NEW x \in First(Old(key))
              PROVE  [config_json |-> last.n, created_at |-> x.created_at] = db[1].groups[key]
          BY <2>1, <4>1, <4>2
        <5>2. ASSUME NEW x \in First(Old(key))
              PROVE  [config_json |-> last.n, created_at |-> x.created_at].created_at = x.created_at
          OBVIOUS
        <5>3. QED
          BY <5>1, <5>2
      <4>4. row = [config_json |-> e.n, created_at |-> db[1].groups[key].created_at]
        BY <1>2, <2>2, <4>1
      <4> HIDE DEF row
      <4>5. Rows(First(Old(key)), {e}) = {row}
        BY <4>2, <4>3, <4>4
      <4>6. QED
        BY <3>1, <3>2, <3>4, <4>5, UpsertFinds
    <3>5. QED
      BY <3>3, <3>4
  <2>3. CASE c.op = "upsert_group" /\ c.key # key
    <3>1. db'[1].groups = Upsert(db[1].groups, c.key, row)
      BY <1>1, <2>3, StatementsApplied DEF upsert_group, Database
    <3> HIDE DEF row
    <3>2. /\ Of("upsert_group", key)' = Old(key)
          /\ First(Of("upsert_group", key))' = First(Old(key))
          /\ Latest(Of("upsert_group", key))' = Latest(Old(key))
      BY <1>1, <1>2, <2>3, OthersStay
    <3>3. QED
      BY <2>1, <2>3, <3>1, <3>2, UpsertFinds
  <2>4. CASE c.op # "upsert_group"
    <3>1. db'[1].groups = db[1].groups
      BY <1>1, <2>4, OtherTablesStay
    <3>2. /\ Of("upsert_group", key)' = Old(key)
          /\ First(Of("upsert_group", key))' = First(Old(key))
          /\ Latest(Of("upsert_group", key))' = Latest(Old(key))
      BY <1>1, <1>2, <2>4, OthersStay
    <3>3. QED
      BY <2>1, <3>1, <3>2
  <2>5. QED
    BY <2>2, <2>3, <2>4
<1>4. QED
  BY <1>3 DEF GroupsFollow, get_group

\* Nothing else touches the tables or the log.
LEMMA TablesKept ==
  ASSUME IndInv, [Next]_vars
  PROVE  EventsAreCounted' /\ EventsFollow' /\ GroupsFollow' /\ StateFollows' /\ SessionsFollow'
<1> USE DEF IndInv
<1>1. ASSUME NEW w \in Callers, Execute(w)
      PROVE  EventsAreCounted' /\ EventsFollow' /\ GroupsFollow' /\ StateFollows' /\ SessionsFollow'
  BY <1>1, EventsKept, GroupsKept, ValuesKept
<1>2. ASSUME UNCHANGED <<db, log>>
      PROVE  EventsAreCounted' /\ EventsFollow' /\ GroupsFollow' /\ StateFollows' /\ SessionsFollow'
  BY <1>2 DEF EventsAreCounted, EventsFollow, GroupsFollow, StateFollows, SessionsFollow,
              get_group, get_state, get_session, First, Latest, Of
<1>3. (\A w \in Callers : ~Execute(w)) => UNCHANGED <<db, log>>
  BY Steps, CallBegins DEF connect, Moves, vars
<1>4. QED
  BY <1>1, <1>2, <1>3

\* The invariant is inductive.
LEMMA InvariantKept == IndInv /\ [Next]_vars => IndInv'
BY TypingKept, NumbersKept, TablesKept DEF IndInv

LEMMA InvariantAtFirst == Init => IndInv
<1> SUFFICES ASSUME Init PROVE IndInv
  OBVIOUS
<1>1. EmptyTables \in Database
  <2>1. ASSUME NEW rows PROVE <<>> \in TableOf(rows)
    <3>1. <<>> \in [{} -> rows]
      OBVIOUS
    <3>2. QED
      BY <3>1 DEF TableOf
  <2>2. QED
    BY <2>1 DEF EmptyTables, Database
<1>2. TypeOK
  BY <1>1 DEF Init, TypeOK
<1>3. db[1] = EmptyTables /\ log = <<>> /\ DOMAIN log = {}
  BY DEF Init
<1>4. OneDatabase /\ NumbersAreOwn /\ OnlyEventsAreUnsure /\ OnceEach
  BY <1>3, NoCallIsIdle DEF Init, OneDatabase, NumbersAreOwn, OnlyEventsAreUnsure, OnceEach
<1>5. EventsAreCounted
  BY <1>3, FS_EmptySet DEF EmptyTables, EventsAreCounted
<1>6. EventsFollow
  BY <1>3 DEF EmptyTables, EventsFollow
<1>7. ASSUME NEW op, NEW key
      PROVE  Of(op, key) = {} /\ First(Of(op, key)) = {} /\ Latest(Of(op, key)) = {}
  BY <1>3 DEF Of, First, Latest
<1>8. \A key : find_by_id(<<>>, key) = {} /\ key \notin DOMAIN <<>>
  BY DEF find_by_id
<1>9. GroupsFollow /\ StateFollows /\ SessionsFollow
  BY <1>3, <1>7, <1>8 DEF EmptyTables, GroupsFollow, StateFollows, SessionsFollow,
                          get_group, get_state, get_session
<1>10. QED
  BY <1>2, <1>4, <1>5, <1>6, <1>9 DEF IndInv

-----------------------------------------------------------------------------
(* The theorems                                                              *)

\* The invariant holds in every state, and with it the typing: whatever is
\* applied, every table has rows of its kind only.
THEOREM Inductive == Spec => []IndInv
BY InvariantAtFirst, InvariantKept, PTL DEF Spec

THEOREM Typing == Spec => []TypeOK
<1>1. IndInv => TypeOK
  BY DEF IndInv
<1>2. QED
  BY <1>1, Inductive, PTL

\* A call is applied once at most, however its statements fail and however it is
\* retried, but for events whose row was inserted and not found again: what a
\* caller retries was not applied, or it is one of these, and where INSERT gives
\* its row back there are none.
THEOREM CallsApplyOnce == Spec => []OnceEach
<1>1. IndInv => OnceEach
  BY DEF IndInv
<1>2. QED
  BY <1>1, Inductive, PTL

\* Every connection's reads are what the statements made of the tables in the
\* order they were applied, on disk, on a server and in memory.
THEOREM ConnectionsReadAllWrites == Spec => []ReadsSeeAllWrites
<1>1. IndInv => ReadsSeeAllWrites
  <2> SUFFICES ASSUME IndInv, NEW conn \in Connections
               PROVE  LET tables == Tables(conn) IN
                      /\ {<<e.payload, e.created_at>> : e \in tables.events} =
                            {<<log[i].n, log[i].created_at>> :
                                i \in {j \in DOMAIN log : log[j].op = "record_event"}}
                      /\ \A key \in Keys :
                            /\ get_group(tables, key) =
                                  {[config_json |-> last.n, created_at |-> first.created_at] :
                                      first \in First(Of("upsert_group", key)),
                                      last \in Latest(Of("upsert_group", key))}
                            /\ get_state(tables, key) = {last.n : last \in Latest(Of("set_state", key))}
                            /\ get_session(tables, key) =
                                  {last.n : last \in Latest(Of("set_session", key))}
    BY DEF ReadsSeeAllWrites
  <2>1. Tables(conn) = db[1]
    BY OneView DEF IndInv
  <2>2. QED
    BY <2>1 DEF IndInv, EventsFollow, GroupsFollow, StateFollows, SessionsFollow
<1>2. QED
  BY <1>1, Inductive, PTL

\* The error a caller holds is a driver's error less its URLs: the three passes
\* take out what one search for all the schemes would, and no more.
THEOREM UrlsLeaveErrors == Spec => []ErrorsAreRedacted
<1>1. TypeOK => ErrorsAreRedacted
  <2> SUFFICES ASSUME TypeOK, NEW w \in Callers, call[w].error # NoError
               PROVE  \E err \in Failures \cup Refusals \cup Lost :
                         /\ DOMAIN call[w].error.message = DOMAIN err.chain
                         /\ \A layer \in DOMAIN err.chain :
                               IsRedaction(call[w].error.message[layer], err.chain[layer])
    BY DEF ErrorsAreRedacted
  <2>1. call[w].error \in FailureErrors \cup RefusalErrors \cup LostErrors
    BY DEF TypeOK, Begun, NoCall
  <2>2. PICK err \in Failures \cup Refusals \cup Lost : call[w].error = FromDbErr(err)
    BY <2>1 DEF FailureErrors, RefusalErrors, LostErrors
  <2>3. err.chain \in Seq(Seq(STRING))
    BY TextsAssumption
  <2>4. QED
    BY <2>2, <2>3, MessagesAreRedacted
<1>2. QED
  BY <1>1, Typing, PTL

-----------------------------------------------------------------------------
(* Pages of the event log                                                    *)

\* A page of what is later than a time is a page of everything, less what is
\* not later: the rows before a row in the order are as late as it is.
LEMMA LaterIsAPartOfAll ==
  ASSUME NEW events, \A e \in events : e.created_at \in Times,
         NEW since \in Times, NEW limit
  PROVE  list_events(events, [group_id |-> None, since |-> since], limit) =
            {e \in list_events(events, [group_id |-> None, since |-> 0], limit) :
                e.created_at > since}
<1> DEFINE later == {e \in events : e.created_at > since}
           Rank(rows, e) == Cardinality({d \in rows : Precedes(d, e)})
           take == clamped_take(limit)
<1>1. /\ {e \in events : None \in {None, e.group_id} /\ e.created_at > since} = later
      /\ {e \in events : None \in {None, e.group_id} /\ e.created_at > 0} = events
  BY DEF Times
<1>2. /\ list_events(events, [group_id |-> None, since |-> since], limit) =
            {e \in later : Rank(later, e) < take}
      /\ list_events(events, [group_id |-> None, since |-> 0], limit) =
            {e \in events : Rank(events, e) < take}
  BY <1>1 DEF list_events
<1>3. ASSUME NEW e \in later PROVE Rank(later, e) = Rank(events, e)
  <2>1. {d \in later : Precedes(d, e)} = {d \in events : Precedes(d, e)}
    BY DEF Precedes, Times
  <2>2. QED
    BY <2>1
<1> HIDE DEF Rank, take
<1>4. {e \in later : Rank(later, e) < take} = {e \in {e \in events : Rank(events, e) < take} :
                                                 e.created_at > since}
  BY <1>3
<1>5. QED
  BY <1>2, <1>4

\* Reading what is later than a time never shows another view of the log.
THEOREM SinceKeepsTheView == Spec => []SinceIsNotAnotherView
<1>1. IndInv => SinceIsNotAnotherView
  <2> SUFFICES ASSUME IndInv, NEW conn \in Connections, NEW since \in Times, NEW limit
               PROVE  list_events(Tables(conn).events, [group_id |-> None, since |-> since], limit) =
                        {e \in list_events(Tables(conn).events, [group_id |-> None, since |-> 0],
                                           limit) : e.created_at > since}
    BY DEF SinceIsNotAnotherView, Times
  <2>1. Tables(conn) = db[1] /\ db[1] \in Database
    BY OneView DEF IndInv, TypeOK
  <2>2. \A e \in Tables(conn).events : e.created_at \in Times
    BY <2>1 DEF Database
  <2>3. QED
    BY <2>2, LaterIsAPartOfAll
<1>2. QED
  BY <1>1, Inductive, PTL
=============================================================================

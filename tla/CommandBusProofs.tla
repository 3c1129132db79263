-------------------------- MODULE CommandBusProofs --------------------------
(* Theorems about CommandBus, for every set of callers and tickets and every  *)
(* capacity.                                                                  *)
EXTENDS CommandBusRefinement, TLAPS

\* Taking one element out of a sequence without repetitions leaves the others.
LEMMA RemoveFirstTakesOut ==
  ASSUME NEW S, NEW w \in Seq(S), IsInjective(w), NEW t
  PROVE  /\ RemoveFirst(w, t) \in Seq(S)
         /\ IsInjective(RemoveFirst(w, t))
         /\ ToSet(RemoveFirst(w, t)) = ToSet(w) \ {t}
<1>1. CASE \A i \in 1..Len(w) : w[i] # t
  <2>1. RemoveFirst(w, t) = w
    BY <1>1 DEF RemoveFirst
  <2>2. QED
    BY <1>1, <2>1 DEF ToSet
<1>2. ASSUME NEW n \in 1..Len(w), w[n] = t
      PROVE  /\ RemoveFirst(w, t) \in Seq(S)
             /\ IsInjective(RemoveFirst(w, t))
             /\ ToSet(RemoveFirst(w, t)) = ToSet(w) \ {t}
  <2>1. {i \in 1..Len(w) : w[i] = t} = {n}
    BY <1>2 DEF IsInjective
  <2>2. Min({n}) = n
    BY DEF Min
  <2>3. SelectInSeq(w, LAMBDA v : v = t) = n
    BY <2>1, <2>2 DEF SelectInSeq
  <2>4. RemoveFirst(w, t) = RemoveAt(w, n)
    BY <1>2, <2>3 DEF RemoveFirst
  <2> DEFINE q == RemoveAt(w, n)
  <2>5. /\ q \in Seq(S) /\ Len(q) = Len(w) - 1
        /\ \A i \in 1..(Len(w) - 1) : q[i] = IF i < n THEN w[i] ELSE w[i + 1]
    <3> DEFINE a == SubSeq(w, 1, n - 1)
               b == SubSeq(w, n + 1, Len(w))
    <3>0. n \in Nat /\ Len(w) \in Nat /\ 1 <= n /\ n <= Len(w)
      BY <1>2
    <3>1. a \in Seq(S) /\ Len(a) = n - 1 /\ \A i \in 1..(n - 1) : a[i] = w[i]
      BY <3>0
    <3>2. b \in Seq(S) /\ Len(b) = Len(w) - n /\ \A i \in 1..(Len(w) - n) : b[i] = w[n + i]
      BY <3>0
    <3>3. q = a \o b
      BY DEF RemoveAt
    <3> HIDE DEF a, b, q
    <3>4. q \in Seq(S) /\ Len(q) = Len(w) - 1
      <4>1. a \in Seq(S) /\ b \in Seq(S)
        BY <3>1, <3>2
      <4>2. a \o b \in Seq(S) /\ Len(a \o b) = Len(a) + Len(b)
        BY <4>1
      <4>3. Len(a) + Len(b) = Len(w) - 1
        BY <3>0, <3>1, <3>2
      <4>4. QED
        BY <4>2, <4>3, <3>3
    <3>5. ASSUME NEW i \in 1..(Len(w) - 1)
          PROVE  q[i] = IF i < n THEN w[i] ELSE w[i + 1]
      <4>1. CASE i < n
        BY <3>0, <3>1, <3>2, <3>3, <4>1
      <4>2. CASE ~(i < n)
        <5> DEFINE j == i - (n - 1)
        <5>0. i \in Nat /\ i <= Len(w) - 1 /\ n <= i /\ Len(a) = n - 1
          BY <3>0, <3>1, <4>2
        <5>1. j \in 1..(Len(w) - n) /\ n + j = i + 1 /\ i = Len(a) + j
          BY <3>0, <5>0
        <5>2. q[i] = b[j]
          BY <3>0, <3>1, <3>2, <3>3, <4>2
        <5> HIDE DEF j
        <5>3. QED
          BY <5>1, <5>2, <3>2, <4>2
      <4>3. QED
        BY <4>1, <4>2
    <3>6. QED
      BY <3>4, <3>5
  <2> HIDE DEF q
  <2> DEFINE at(i) == IF i < n THEN i ELSE i + 1
  <2>a. DOMAIN q = 1..(Len(w) - 1) /\ DOMAIN w = 1..Len(w) /\ Len(w) \in Nat
    BY <2>5
  <2>b. ASSUME NEW i \in DOMAIN q
        PROVE  at(i) \in DOMAIN w /\ q[i] = w[at(i)] /\ q[i] # t
    <3>1. at(i) \in DOMAIN w /\ at(i) # n
      BY <1>2, <2>a
    <3>2. q[i] = w[at(i)]
      BY <2>5, <2>a
    <3> HIDE DEF at
    <3>3. n \in DOMAIN w
      BY <1>2
    <3>4. QED
      BY <1>2, <3>1, <3>2, <3>3 DEF IsInjective
  <2>6. IsInjective(q)
    <3>1. ASSUME NEW i \in DOMAIN q, NEW j \in DOMAIN q, q[i] = q[j] PROVE i = j
      <4>1. at(i) = at(j)
        <5> HIDE DEF at
        <5>1. QED
          BY <2>b, <3>1 DEF IsInjective
      <4>2. QED
        BY <1>2, <2>a, <4>1
    <3>2. QED
      BY <3>1 DEF IsInjective
  <2> HIDE DEF at
  <2>7. ToSet(q) \subseteq ToSet(w) \ {t}
    BY <2>b DEF ToSet
  <2>8. ToSet(w) \ {t} \subseteq ToSet(q)
    <3>1. ASSUME NEW j \in 1..Len(w), w[j] # t
          PROVE  \E i \in 1..Len(q) : q[i] = w[j]
      <4>1. CASE j < n
        <5>1. j \in 1..(Len(w) - 1) /\ q[j] = w[j]
          BY <1>2, <2>5, <4>1
        <5>2. QED
          BY <5>1, <2>5
      <4>2. CASE ~(j < n)
        <5> DEFINE i == j - 1
        <5>1. i \in 1..(Len(w) - 1) /\ ~(i < n) /\ i + 1 = j
          BY <1>2, <3>1, <4>2
        <5> HIDE DEF i
        <5>2. q[i] = w[j]
          BY <2>5, <5>1
        <5>3. QED
          BY <5>1, <5>2, <2>5
      <4>3. QED
        BY <4>1, <4>2
    <3>2. QED
      BY <2>5, <3>1 DEF ToSet
  <2>9. QED
    BY <2>4, <2>5, <2>6, <2>7, <2>8 DEF q
<1>3. QED
  BY <1>1, <1>2

\* An element more, at the end.
LEMMA AppendAdds ==
  ASSUME NEW S, NEW w \in Seq(S), IsInjective(w), NEW t \in S, t \notin ToSet(w)
  PROVE  /\ Append(w, t) \in Seq(S) /\ IsInjective(Append(w, t))
         /\ ToSet(Append(w, t)) = ToSet(w) \cup {t}
<1> DEFINE q == Append(w, t)
<1>1. /\ q \in Seq(S) /\ Len(q) = Len(w) + 1 /\ Len(w) \in Nat
      /\ q[Len(w) + 1] = t /\ \A i \in 1..Len(w) : q[i] = w[i]
  OBVIOUS
<1> HIDE DEF q
<1>2. IsInjective(q)
  BY <1>1 DEF IsInjective, ToSet
<1>3. ToSet(q) = ToSet(w) \cup {t}
  <2>1. ToSet(q) \subseteq ToSet(w) \cup {t}
    BY <1>1 DEF ToSet
  <2>2. \A i \in 1..Len(w) : w[i] \in ToSet(q)
    <3>1. \A i \in 1..Len(w) : i \in DOMAIN q /\ q[i] = w[i]
      BY <1>1
    <3>2. QED
      BY <3>1 DEF ToSet
  <2>3. t \in ToSet(q)
    BY <1>1 DEF ToSet
  <2>4. QED
    BY <2>1, <2>2, <2>3 DEF ToSet
<1>4. QED
  BY <1>1, <1>2, <1>3 DEF q

\* The first element taken out.
LEMMA TailTakesOut ==
  ASSUME NEW S, NEW w \in Seq(S), IsInjective(w), w # <<>>
  PROVE  /\ Tail(w) \in Seq(S) /\ IsInjective(Tail(w)) /\ Head(w) \in ToSet(w)
         /\ ToSet(Tail(w)) = ToSet(w) \ {Head(w)}
<1> DEFINE q == Tail(w)
<1>1. /\ q \in Seq(S) /\ Len(w) \in Nat /\ 1 <= Len(w) /\ Len(q) = Len(w) - 1 /\ Head(w) = w[1]
      /\ \A i \in 1..(Len(w) - 1) : q[i] = w[i + 1]
  OBVIOUS
<1> HIDE DEF q
<1>2. IsInjective(q)
  <2>1. ASSUME NEW i \in 1..(Len(w) - 1), NEW j \in 1..(Len(w) - 1), q[i] = q[j] PROVE i = j
    <3>1. w[i + 1] = w[j + 1]
      BY <2>1, <1>1
    <3>2. i + 1 \in DOMAIN w /\ j + 1 \in DOMAIN w
      BY <1>1
    <3>3. i + 1 = j + 1
      BY <3>1, <3>2 DEF IsInjective
    <3>4. QED
      BY <3>3
  <2>2. DOMAIN q = 1..(Len(w) - 1)
    BY <1>1
  <2>3. QED
    BY <2>1, <2>2 DEF IsInjective
<1>3. ToSet(q) \subseteq ToSet(w) \ {w[1]}
  BY <1>1 DEF IsInjective, ToSet
<1>4. ASSUME NEW j \in 1..Len(w), w[j] # w[1] PROVE \E i \in 1..Len(q) : q[i] = w[j]
  <2> DEFINE i == j - 1
  <2>1. i \in 1..(Len(w) - 1) /\ i + 1 = j
    BY <1>1, <1>4
  <2> HIDE DEF i
  <2>2. QED
    BY <1>1, <2>1
<1>5. ToSet(w) \ {w[1]} \subseteq ToSet(q)
  BY <1>1, <1>4 DEF ToSet
<1>6. w[1] \in ToSet(w)
  BY <1>1 DEF ToSet
<1>7. QED
  BY <1>1, <1>2, <1>3, <1>5, <1>6 DEF q

\* The queues hold tickets.
LEMMA QueuesHoldTickets ==
  ASSUME TypeOK
  PROVE  ToSet(waiters) \subseteq Tickets /\ ToSet(queue) \subseteq Tickets
BY DEF TypeOK, ToSet

-----------------------------------------------------------------------------
(* Every step keeps IndInv.                                                  *)

\* A call takes a ticket nothing refers to, so no late answer can reach it.
LEMMA CallKeeps == ASSUME IndInv, NEW k \in Callers, Call(k) PROVE IndInv'
<1>0. TypeOK /\ OnePlace /\ Links /\ PendingIsOpen /\ AnswersStay /\ NobodyForgotten
  BY DEF IndInv
<1>1. PICK t \in Tickets \ InUse :
        /\ current' = [current EXCEPT ![k] = t] /\ oneshot' = [oneshot EXCEPT ![t] = "open"]
        /\ answers' = [answers EXCEPT ![t] = "none"] /\ waiters' = Append(waiters, t)
  BY DEF Call
<1>2. /\ phase' = [phase EXCEPT ![k] = "sending"] /\ result' = [result EXCEPT ![k] = "none"]
      /\ queue' = queue /\ held' = held /\ receiver' = receiver
  BY DEF Call
<1>3. /\ t \in Tickets /\ t \notin ToSet(waiters) /\ t \notin ToSet(queue) /\ t \notin held
      /\ \A l \in Callers : current[l] # t
  BY DEF InUse
<1>4. /\ waiters' \in Seq(Tickets) /\ IsInjective(waiters')
      /\ ToSet(waiters') = ToSet(waiters) \cup {t}
  BY <1>0, <1>1, <1>3, AppendAdds DEF TypeOK, OnePlace
<1>5. TypeOK'
  BY <1>0, <1>1, <1>2, <1>3, <1>4 DEF TypeOK, Results
<1>6. OnePlace'
  BY <1>0, <1>2, <1>3, <1>4 DEF OnePlace
<1>7. Links'
  BY <1>0, <1>1, <1>2, <1>3, <1>4, TicketAssumption DEF Links, TypeOK
<1>8. PendingIsOpen'
  BY <1>0, <1>1, <1>2, <1>3, <1>4, QueuesHoldTickets DEF PendingIsOpen, TypeOK
<1>9. AnswersStay'
  BY <1>0, <1>1, <1>2, <1>3 DEF AnswersStay, TypeOK
<1>10. NobodyForgotten'
  BY <1>0, <1>1, <1>2, <1>3 DEF NobodyForgotten, Links, TypeOK
<1>11. QED
  BY <1>5, <1>6, <1>7, <1>8, <1>9, <1>10 DEF IndInv

\* A send that has its slot moves its command from the waiters to the buffer.
LEMMA PushKeeps == ASSUME IndInv, NEW k \in Callers, Push(k) PROVE IndInv'
<1> DEFINE t == current[k]
<1>0. TypeOK /\ OnePlace /\ Links /\ PendingIsOpen /\ AnswersStay /\ NobodyForgotten
  BY DEF IndInv
<1>1. /\ phase[k] = "sending" /\ receiver = "open" /\ queue' = Append(queue, t)
      /\ waiters' = RemoveFirst(waiters, t) /\ phase' = [phase EXCEPT ![k] = "awaiting"]
      /\ current' = current /\ result' = result /\ oneshot' = oneshot /\ held' = held
      /\ receiver' = receiver /\ answers' = answers
  BY DEF Push
<1>2. t \in ToSet(waiters) /\ t \in Tickets /\ t \notin ToSet(queue)
  BY <1>0, <1>1, QueuesHoldTickets DEF Links, OnePlace
<1>3. /\ waiters' \in Seq(Tickets) /\ IsInjective(waiters')
      /\ ToSet(waiters') = ToSet(waiters) \ {t}
  BY <1>0, <1>1, RemoveFirstTakesOut DEF TypeOK, OnePlace
<1>4. /\ queue' \in Seq(Tickets) /\ IsInjective(queue')
      /\ ToSet(queue') = ToSet(queue) \cup {t}
  BY <1>0, <1>1, <1>2, AppendAdds DEF TypeOK, OnePlace
<1>5. TypeOK'
  BY <1>0, <1>1, <1>3, <1>4 DEF TypeOK
<1>6. OnePlace'
  BY <1>0, <1>1, <1>2, <1>3, <1>4 DEF OnePlace
<1>7. Links'
  BY <1>0, <1>1, <1>2, <1>3, TicketAssumption DEF Links, TypeOK
<1>8. PendingIsOpen'
  BY <1>0, <1>1, <1>2, <1>3, <1>4 DEF PendingIsOpen
<1>9. AnswersStay'
  BY <1>0, <1>1 DEF AnswersStay
<1>10. NobodyForgotten'
  BY <1>0, <1>1, <1>4 DEF NobodyForgotten, TypeOK
<1>11. QED
  BY <1>5, <1>6, <1>7, <1>8, <1>9, <1>10 DEF IndInv

\* A send that fails drops its own command, which nobody else refers to.
LEMMA SendFailsKeeps == ASSUME IndInv, NEW k \in Callers, SendFails(k) PROVE IndInv'
<1> DEFINE t == current[k]
<1>0. TypeOK /\ OnePlace /\ Links /\ PendingIsOpen /\ AnswersStay /\ NobodyForgotten
  BY DEF IndInv
<1>1. /\ phase[k] = "sending" /\ oneshot' = [oneshot EXCEPT ![t] = "dropped"]
      /\ waiters' = RemoveFirst(waiters, t) /\ phase' = [phase EXCEPT ![k] = "idle"]
      /\ result' = [result EXCEPT ![k] = "HandlerDropped"]
      /\ current' = current /\ queue' = queue /\ held' = held
      /\ receiver' = receiver /\ answers' = answers
  BY DEF SendFails, Return
<1>2. /\ t \in ToSet(waiters) /\ t \in Tickets /\ t \notin ToSet(queue) /\ t \notin held
      /\ oneshot[t] = "open"
  BY <1>0, <1>1, QueuesHoldTickets DEF Links, OnePlace, PendingIsOpen
<1>3. /\ waiters' \in Seq(Tickets) /\ IsInjective(waiters')
      /\ ToSet(waiters') = ToSet(waiters) \ {t}
  BY <1>0, <1>1, RemoveFirstTakesOut DEF TypeOK, OnePlace
<1>5. TypeOK'
  BY <1>0, <1>1, <1>2, <1>3 DEF TypeOK, Results
<1>6. OnePlace'
  BY <1>0, <1>1, <1>3 DEF OnePlace
<1>7. Links'
  BY <1>0, <1>1, <1>2, <1>3, TicketAssumption DEF Links, TypeOK
<1>8. PendingIsOpen'
  BY <1>0, <1>1, <1>2, <1>3, QueuesHoldTickets DEF PendingIsOpen, TypeOK
<1>9. AnswersStay'
  BY <1>0, <1>1, <1>2 DEF AnswersStay, TypeOK
<1>10. NobodyForgotten'
  BY <1>0, <1>1, <1>2 DEF NobodyForgotten, Links, TypeOK
<1>11. QED
  BY <1>5, <1>6, <1>7, <1>8, <1>9, <1>10 DEF IndInv

\* A call that returns has the answer of its own ticket.
LEMMA ResolveKeeps == ASSUME IndInv, NEW k \in Callers, Resolve(k) PROVE IndInv'
<1> DEFINE t == current[k]
           res == IF oneshot[t] = "dropped" THEN "HandlerDropped" ELSE oneshot[t]
<1>0. TypeOK /\ OnePlace /\ Links /\ PendingIsOpen /\ AnswersStay /\ NobodyForgotten
  BY DEF IndInv
<1>1. /\ phase[k] = "awaiting" /\ oneshot[t] # "open" /\ phase' = [phase EXCEPT ![k] = "idle"]
      /\ result' = [result EXCEPT ![k] = res]
      /\ current' = current /\ oneshot' = oneshot /\ waiters' = waiters /\ queue' = queue
      /\ held' = held /\ receiver' = receiver /\ answers' = answers
  BY DEF Resolve, Return
<1>2. t \in Tickets /\ oneshot[t] \in {"ok", "err", "dropped"}
  BY <1>0, <1>1 DEF Links, TypeOK
<1>3. res \in Results /\ (res \in {"ok", "err"} => oneshot[t] = res)
  BY <1>2 DEF Results
<1> HIDE DEF res
<1>5. TypeOK'
  BY <1>0, <1>1, <1>3 DEF TypeOK
<1>6. OnePlace' /\ PendingIsOpen'
  BY <1>0, <1>1 DEF OnePlace, PendingIsOpen
<1>7. Links'
  BY <1>0, <1>1 DEF Links, TypeOK
<1>9. AnswersStay'
  BY <1>0, <1>1, <1>2, <1>3 DEF AnswersStay, TypeOK
<1>10. NobodyForgotten'
  BY <1>0, <1>1 DEF NobodyForgotten, TypeOK
<1>11. QED
  BY <1>5, <1>6, <1>7, <1>9, <1>10 DEF IndInv

\* A cancelled call leaves the others in the queue where they are.
LEMMA CancelKeeps == ASSUME IndInv, NEW k \in Callers, Cancel(k) PROVE IndInv'
<1> DEFINE t == current[k]
<1>0. TypeOK /\ OnePlace /\ Links /\ PendingIsOpen /\ AnswersStay /\ NobodyForgotten
  BY DEF IndInv
<1>1. /\ phase[k] \in {"sending", "awaiting"} /\ waiters' = RemoveFirst(waiters, t)
      /\ phase' = [phase EXCEPT ![k] = "idle"] /\ result' = [result EXCEPT ![k] = "cancelled"]
      /\ current' = current /\ oneshot' = oneshot /\ queue' = queue
      /\ held' = held /\ receiver' = receiver /\ answers' = answers
  BY DEF Cancel, Return
<1>2. t \in Tickets
  BY <1>0, <1>1, QueuesHoldTickets DEF Links
<1>3. /\ waiters' \in Seq(Tickets) /\ IsInjective(waiters')
      /\ ToSet(waiters') = ToSet(waiters) \ {t}
  BY <1>0, <1>1, RemoveFirstTakesOut DEF TypeOK, OnePlace
<1>5. TypeOK'
  BY <1>0, <1>1, <1>3 DEF TypeOK, Results
<1>6. OnePlace' /\ PendingIsOpen'
  BY <1>0, <1>1, <1>3 DEF OnePlace, PendingIsOpen
<1>7. Links'
  BY <1>0, <1>1, <1>2, <1>3, TicketAssumption DEF Links, TypeOK
<1>9. AnswersStay'
  BY <1>0, <1>1 DEF AnswersStay, TypeOK
<1>10. NobodyForgotten'
  BY <1>0, <1>1 DEF NobodyForgotten, TypeOK
<1>11. QED
  BY <1>5, <1>6, <1>7, <1>9, <1>10 DEF IndInv

\* A command that is received goes from the buffer to the handler.
LEMMA ReceiveKeeps == ASSUME IndInv, Receive PROVE IndInv'
<1> DEFINE t == Head(queue)
<1>0. TypeOK /\ OnePlace /\ Links /\ PendingIsOpen /\ AnswersStay /\ NobodyForgotten
  BY DEF IndInv
<1>1. /\ queue # <<>> /\ held' = held \cup {t} /\ queue' = Tail(queue)
      /\ phase' = phase /\ current' = current /\ result' = result /\ oneshot' = oneshot
      /\ waiters' = waiters /\ receiver' = receiver /\ answers' = answers
  BY DEF Receive
<1>2. /\ queue' \in Seq(Tickets) /\ IsInjective(queue') /\ t \in ToSet(queue)
      /\ ToSet(queue') = ToSet(queue) \ {t}
  BY <1>0, <1>1, TailTakesOut DEF TypeOK, OnePlace
<1> HIDE DEF t
<1>3. t \in Tickets
  BY <1>0, <1>2, QueuesHoldTickets
<1>5. TypeOK'
  BY <1>0, <1>1, <1>2, <1>3 DEF TypeOK
<1>6. OnePlace' /\ PendingIsOpen'
  BY <1>0, <1>1, <1>2 DEF OnePlace, PendingIsOpen
<1>7. Links' /\ AnswersStay'
  BY <1>0, <1>1 DEF Links, AnswersStay
<1>8. NobodyForgotten'
  BY <1>0, <1>1, <1>2 DEF NobodyForgotten
<1>9. QED
  BY <1>5, <1>6, <1>7, <1>8 DEF IndInv

\* A Responder that is used or dropped resolves the ticket it holds.
LEMMA HandledKeeps ==
  ASSUME IndInv, NEW t \in Tickets, Respond(t) \/ DropResponder(t)
  PROVE  IndInv'
<1>0. TypeOK /\ OnePlace /\ Links /\ PendingIsOpen /\ AnswersStay /\ NobodyForgotten
  BY DEF IndInv
<1>1. PICK res \in {"ok", "err", "dropped"} :
        /\ oneshot' = [oneshot EXCEPT ![t] = res]
        /\ res \in {"ok", "err"} => answers' = [answers EXCEPT ![t] = res]
        /\ res = "dropped" => answers' = answers
  BY DEF Respond, DropResponder
<1>2. /\ t \in held /\ held' = held \ {t} /\ phase' = phase /\ current' = current
      /\ result' = result /\ waiters' = waiters /\ queue' = queue /\ receiver' = receiver
  BY DEF Respond, DropResponder
<1>3. t \notin ToSet(waiters) /\ t \notin ToSet(queue) /\ oneshot[t] = "open"
  BY <1>0, <1>2 DEF OnePlace, PendingIsOpen
<1>5. TypeOK'
  BY <1>0, <1>1, <1>2 DEF TypeOK
<1>6. OnePlace' /\ Links'
  BY <1>0, <1>2 DEF OnePlace, Links
<1>7. PendingIsOpen'
  BY <1>0, <1>1, <1>2, <1>3, QueuesHoldTickets DEF PendingIsOpen, TypeOK
<1>8. AnswersStay'
  BY <1>0, <1>1, <1>2, <1>3 DEF AnswersStay, TypeOK
<1>9. NobodyForgotten'
  BY <1>0, <1>1, <1>2 DEF NobodyForgotten, TypeOK, Links
<1>10. QED
  BY <1>5, <1>6, <1>7, <1>8, <1>9 DEF IndInv

\* A receiver that goes takes the buffer with it, and resolves what is in it.
LEMMA DropBufferKeeps == ASSUME IndInv, DropBuffer PROVE IndInv'
<1>0. TypeOK /\ OnePlace /\ Links /\ PendingIsOpen /\ AnswersStay /\ NobodyForgotten
  BY DEF IndInv
<1>1. /\ receiver' = "dropped" /\ queue' = <<>> /\ phase' = phase /\ current' = current
      /\ result' = result /\ waiters' = waiters /\ held' = held /\ answers' = answers
      /\ oneshot' = [t \in Tickets |-> IF t \in ToSet(queue) THEN "dropped" ELSE oneshot[t]]
  BY DEF DropBuffer
<1>2. queue' \in Seq(Tickets) /\ IsInjective(queue') /\ ToSet(queue') = {}
  BY <1>1 DEF IsInjective, ToSet
<1>3. \A t \in ToSet(queue) : oneshot[t] = "open"
  BY <1>0 DEF PendingIsOpen
<1>5. TypeOK'
  BY <1>0, <1>1, <1>2 DEF TypeOK
<1>6. OnePlace' /\ Links'
  BY <1>0, <1>1, <1>2 DEF OnePlace, Links
<1>7. PendingIsOpen'
  BY <1>0, <1>1, <1>2, QueuesHoldTickets DEF PendingIsOpen, OnePlace, TypeOK
<1>8. AnswersStay'
  BY <1>0, <1>1, <1>3 DEF AnswersStay
<1>9. NobodyForgotten'
  BY <1>0, <1>1 DEF NobodyForgotten, Links
<1>10. QED
  BY <1>5, <1>6, <1>7, <1>8, <1>9 DEF IndInv

\* IndInv holds in every state.
THEOREM Inductive == Spec => []IndInv
<1>1. Init => IndInv
  <2> SUFFICES ASSUME Init PROVE IndInv
    OBVIOUS
  <2>1. <<>> \in Seq(Tickets) /\ IsInjective(<<>>) /\ ToSet(<<>>) = {}
    BY DEF IsInjective, ToSet
  <2>2. TypeOK
    BY <2>1 DEF Init, TypeOK, Results
  <2>3. OnePlace /\ PendingIsOpen
    BY <2>1 DEF Init, OnePlace, PendingIsOpen
  <2>4. Links /\ AnswersStay /\ NobodyForgotten
    BY DEF Init, Links, AnswersStay, NobodyForgotten
  <2>5. QED
    BY <2>2, <2>3, <2>4 DEF IndInv
<1>2. IndInv /\ [Next]_vars => IndInv'
  <2> SUFFICES ASSUME IndInv, [Next]_vars PROVE IndInv'
    OBVIOUS
  <2>1. ASSUME NEW k \in Callers, DropHandle(k) PROVE IndInv'
    <3>1. /\ phase' = [phase EXCEPT ![k] = "gone"] /\ current' = current /\ result' = result
          /\ oneshot' = oneshot /\ waiters' = waiters /\ queue' = queue /\ held' = held
          /\ receiver' = receiver /\ answers' = answers
      BY <2>1 DEF DropHandle
    <3>2. TypeOK'
      BY <3>1 DEF IndInv, TypeOK
    <3>3. OnePlace' /\ PendingIsOpen' /\ AnswersStay'
      BY <3>1 DEF IndInv, OnePlace, PendingIsOpen, AnswersStay
    <3>4. Links' /\ NobodyForgotten'
      BY <3>1 DEF IndInv, TypeOK, Links, NobodyForgotten
    <3>5. QED
      BY <3>2, <3>3, <3>4 DEF IndInv
  <2>2. CASE UNCHANGED vars
    BY <2>2 DEF vars, IndInv, TypeOK, OnePlace, Links, PendingIsOpen, AnswersStay, NobodyForgotten
  <2>3. QED
    BY <2>1, <2>2, CallKeeps, PushKeeps, SendFailsKeeps, ResolveKeeps, CancelKeeps, ReceiveKeeps,
       HandledKeeps, DropBufferKeeps DEF Next, Shutdown, EndOfCommands, Finished
<1>3. QED
  BY <1>1, <1>2, PTL DEF Spec

\* Everything keeps its type.
THEOREM Typing == Spec => []TypeOK
<1>1. IndInv => TypeOK
  BY DEF IndInv
<1>2. QED
  BY <1>1, Inductive, PTL

\* No answer reaches a call it was not given to.
THEOREM OwnAnswers == Spec => []AnswersMatch
<1>1. IndInv => AnswersMatch
  BY DEF IndInv, AnswersStay, AnswersMatch
<1>2. QED
  BY <1>1, Inductive, PTL

\* Whoever waits for an answer has somebody to wait for.
THEOREM SomebodyAnswers == Spec => []NobodyForgotten
<1>1. IndInv => NobodyForgotten
  BY DEF IndInv
<1>2. QED
  BY <1>1, Inductive, PTL

\* A command is in one place.
THEOREM InOnePlace == Spec => []OnePlace
<1>1. IndInv => OnePlace
  BY DEF IndInv
<1>2. QED
  BY <1>1, Inductive, PTL

-----------------------------------------------------------------------------
(* Every step is one of the service, or none of it.                          *)

serviceOf == <<asksOf, current, result, statusOf, receiver>>

\* A command has the status of its place, and no two places.
LEMMA StatusOfPlace ==
  ASSUME IndInv, NEW t \in Tickets
  PROVE  /\ t \in held <=> statusOf[t] = "taken"
         /\ t \in ToSet(waiters) \cup ToSet(queue) <=> statusOf[t] = "pending"
         /\ t \notin held \cup ToSet(waiters) \cup ToSet(queue) =>
               statusOf[t] = IF oneshot[t] \in {"ok", "err"} THEN oneshot[t] ELSE "lost"
BY DEF statusOf, IndInv, OnePlace

\* A step that changes the status of one command.
LEMMA OneStatusChanges ==
  ASSUME NEW t \in Tickets, NEW s, statusOf'[t] = s,
         \A u \in Tickets \ {t} : statusOf'[u] = statusOf[u]
  PROVE  statusOf' = [statusOf EXCEPT ![t] = s]
<1>1. statusOf' = [u \in Tickets |-> statusOf'[u]] /\ statusOf = [u \in Tickets |-> statusOf[u]]
  BY DEF statusOf
<1>2. QED
  BY <1>1

\* At first nothing is pending or taken.
LEMMA InitImplements == Init => Service!Init
<1> SUFFICES ASSUME Init PROVE Service!Init
  OBVIOUS
<1>1. ToSet(waiters) = {} /\ ToSet(queue) = {}
  BY DEF Init, ToSet
<1>2. statusOf = [t \in Tickets |-> "lost"]
  BY <1>1 DEF Init, statusOf
<1>3. asksOf = [k \in Callers |-> "idle"]
  BY DEF Init, asksOf
<1>4. QED
  BY <1>2, <1>3 DEF Init, Service!Init

\* A call asks: its ticket was in no place.
LEMMA CallImplements == ASSUME IndInv, NEW k \in Callers, Call(k) PROVE Service!Ask(k)
<1>1. PICK t \in Tickets \ InUse :
        /\ current' = [current EXCEPT ![k] = t] /\ oneshot' = [oneshot EXCEPT ![t] = "open"]
        /\ waiters' = Append(waiters, t)
  BY DEF Call
<1>2. /\ phase[k] = "idle" /\ phase' = [phase EXCEPT ![k] = "sending"]
      /\ result' = [result EXCEPT ![k] = "none"]
      /\ queue' = queue /\ held' = held /\ receiver' = receiver
  BY DEF Call
<1>3. /\ t \in Tickets /\ t \notin ToSet(waiters) /\ t \notin ToSet(queue) /\ t \notin held
      /\ \A l \in Callers : current[l] # t
  BY DEF InUse
<1>4. ToSet(waiters') = ToSet(waiters) \cup {t}
  BY <1>1, <1>3, AppendAdds DEF IndInv, TypeOK, OnePlace
<1>5. statusOf[t] \notin {"pending", "taken"}
  BY <1>3, StatusOfPlace
<1>6. statusOf' = [statusOf EXCEPT ![t] = "pending"]
  <2>1. \A u \in Tickets \ {t} : oneshot'[u] = oneshot[u]
    BY <1>1 DEF IndInv, TypeOK
  <2>2. \A u \in Tickets \ {t} : statusOf'[u] = statusOf[u]
    BY <1>2, <1>4, <2>1 DEF statusOf
  <2>3. statusOf'[t] = "pending"
    BY <1>2, <1>3, <1>4 DEF statusOf
  <2>4. QED
    BY <1>3, <2>2, <2>3, OneStatusChanges
<1>7. asksOf[k] = "idle" /\ asksOf' = [asksOf EXCEPT ![k] = "waiting"]
  BY <1>2 DEF asksOf, IndInv, TypeOK
<1>8. QED
  BY <1>1, <1>2, <1>3, <1>5, <1>6, <1>7 DEF Service!Ask

\* A command that goes from the line to the buffer stays pending.
LEMMA PushImplements ==
  ASSUME IndInv, NEW k \in Callers, Push(k) PROVE UNCHANGED serviceOf
<1> DEFINE t == current[k]
<1>1. /\ phase[k] = "sending" /\ queue' = Append(queue, t)
      /\ waiters' = RemoveFirst(waiters, t) /\ phase' = [phase EXCEPT ![k] = "awaiting"]
      /\ current' = current /\ result' = result /\ oneshot' = oneshot /\ held' = held
      /\ receiver' = receiver
  BY DEF Push
<1>2. t \in ToSet(waiters) /\ t \in Tickets /\ t \notin ToSet(queue)
  BY <1>1, QueuesHoldTickets DEF IndInv, Links, OnePlace
<1>3. ToSet(waiters') = ToSet(waiters) \ {t}
  BY <1>1, RemoveFirstTakesOut DEF IndInv, TypeOK, OnePlace
<1>4. ToSet(queue') = ToSet(queue) \cup {t}
  BY <1>1, <1>2, AppendAdds DEF IndInv, TypeOK, OnePlace
<1>5. statusOf' = statusOf
  BY <1>1, <1>2, <1>3, <1>4 DEF statusOf
<1>6. asksOf' = asksOf
  BY <1>1 DEF asksOf, IndInv, TypeOK
<1>7. QED
  BY <1>1, <1>5, <1>6 DEF serviceOf

\* A send that fails is refused: its receiver is gone.
LEMMA SendFailsImplements ==
  ASSUME IndInv, NEW k \in Callers, SendFails(k) PROVE Service!Refuse(k)
<1> DEFINE t == current[k]
<1>1. /\ phase[k] = "sending" /\ receiver = "dropped" /\ oneshot' = [oneshot EXCEPT ![t] = "dropped"]
      /\ waiters' = RemoveFirst(waiters, t) /\ phase' = [phase EXCEPT ![k] = "idle"]
      /\ result' = [result EXCEPT ![k] = "HandlerDropped"]
      /\ current' = current /\ queue' = queue /\ held' = held /\ receiver' = receiver
  BY DEF SendFails, Return
<1>2. t \in ToSet(waiters) /\ t \in Tickets /\ t \notin ToSet(queue) /\ t \notin held
  BY <1>1, QueuesHoldTickets DEF IndInv, Links, OnePlace
<1>3. ToSet(waiters') = ToSet(waiters) \ {t}
  BY <1>1, RemoveFirstTakesOut DEF IndInv, TypeOK, OnePlace
<1>4. statusOf[t] = "pending"
  BY <1>2, StatusOfPlace
<1>5. statusOf' = [statusOf EXCEPT ![t] = "lost"]
  <2>1. \A u \in Tickets \ {t} : statusOf'[u] = statusOf[u]
    BY <1>1, <1>2, <1>3 DEF statusOf, IndInv, TypeOK
  <2>2. statusOf'[t] = "lost"
    BY <1>1, <1>2, <1>3 DEF statusOf, IndInv, TypeOK
  <2>3. QED
    BY <1>2, <2>1, <2>2, OneStatusChanges
<1>6. asksOf[k] = "waiting" /\ asksOf' = [asksOf EXCEPT ![k] = "idle"]
  BY <1>1 DEF asksOf, IndInv, TypeOK
<1>7. QED
  BY <1>1, <1>4, <1>5, <1>6 DEF Service!Refuse, Service!Reply

\* A oneshot that has resolved belongs to a call that is in no place.
LEMMA ResolveImplements ==
  ASSUME IndInv, NEW k \in Callers, Resolve(k) PROVE Service!Return(k)
<1> DEFINE t == current[k]
<1>1. /\ phase[k] = "awaiting" /\ oneshot[t] # "open" /\ phase' = [phase EXCEPT ![k] = "idle"]
      /\ result' = [result EXCEPT ![k] = IF oneshot[t] = "dropped" THEN "HandlerDropped"
                                         ELSE oneshot[t]]
      /\ current' = current /\ oneshot' = oneshot /\ waiters' = waiters /\ queue' = queue
      /\ held' = held /\ receiver' = receiver
  BY DEF Resolve, Return
<1>2. t \in Tickets /\ oneshot[t] \in {"ok", "err", "dropped"}
  BY <1>1 DEF IndInv, Links, TypeOK
<1>3. t \notin held \cup ToSet(waiters) \cup ToSet(queue)
  BY <1>1 DEF IndInv, PendingIsOpen
<1>4. statusOf[t] = IF oneshot[t] \in {"ok", "err"} THEN oneshot[t] ELSE "lost"
  BY <1>2, <1>3, StatusOfPlace
<1>5. statusOf' = statusOf
  BY <1>1 DEF statusOf
<1>6. asksOf[k] = "waiting" /\ asksOf' = [asksOf EXCEPT ![k] = "idle"]
  BY <1>1 DEF asksOf, IndInv, TypeOK
<1>7. /\ statusOf[t] \in {"ok", "err", "lost"}
      /\ (IF oneshot[t] = "dropped" THEN "HandlerDropped" ELSE oneshot[t]) =
            IF statusOf[t] = "lost" THEN "HandlerDropped" ELSE statusOf[t]
  BY <1>2, <1>4
<1>8. QED
  BY <1>1, <1>5, <1>6, <1>7 DEF Service!Return, Service!Reply

\* A call that is given up is withdrawn from the line, and from nowhere else.
LEMMA CancelImplements ==
  ASSUME IndInv, NEW k \in Callers, Cancel(k) PROVE Service!GiveUp(k)
<1> DEFINE t == current[k]
<1>1. /\ phase[k] \in {"sending", "awaiting"} /\ waiters' = RemoveFirst(waiters, t)
      /\ phase' = [phase EXCEPT ![k] = "idle"] /\ result' = [result EXCEPT ![k] = "cancelled"]
      /\ current' = current /\ oneshot' = oneshot /\ queue' = queue
      /\ held' = held /\ receiver' = receiver
  BY DEF Cancel, Return
<1>2. t \in Tickets
  BY <1>1, QueuesHoldTickets DEF IndInv, Links
<1>3. ToSet(waiters') = ToSet(waiters) \ {t}
  BY <1>1, RemoveFirstTakesOut DEF IndInv, TypeOK, OnePlace
<1>4. asksOf[k] = "waiting" /\ asksOf' = [asksOf EXCEPT ![k] = "idle"]
  BY <1>1 DEF asksOf, IndInv, TypeOK
<1>5. CASE t \in ToSet(waiters)
  <2>1. t \notin ToSet(queue) /\ t \notin held /\ oneshot[t] = "open"
    BY <1>5 DEF IndInv, OnePlace, PendingIsOpen
  <2>2. statusOf[t] = "pending"
    BY <1>2, <1>5, StatusOfPlace
  <2>3. statusOf' = [statusOf EXCEPT ![t] = "lost"]
    <3>1. \A u \in Tickets \ {t} : statusOf'[u] = statusOf[u]
      BY <1>1, <1>2, <1>3, <2>1 DEF statusOf
    <3>2. statusOf'[t] = "lost"
      BY <1>1, <1>2, <1>3, <2>1 DEF statusOf
    <3>3. QED
      BY <1>2, <3>1, <3>2, OneStatusChanges
  <2>4. QED
    BY <1>1, <1>4, <2>2, <2>3 DEF Service!GiveUp, Service!Reply
<1>6. CASE t \notin ToSet(waiters)
  <2>1. statusOf' = statusOf
    BY <1>1, <1>3, <1>6 DEF statusOf
  <2>2. QED
    BY <1>1, <1>4, <2>1 DEF Service!GiveUp, Service!Reply
<1>7. QED
  BY <1>5, <1>6

\* The oldest command in the buffer is taken.
LEMMA ReceiveImplements ==
  ASSUME IndInv, Receive PROVE \E t \in Tickets : Service!Take(t)
<1> DEFINE t == Head(queue)
<1>1. /\ receiver = "open" /\ queue # <<>> /\ held' = held \cup {t} /\ queue' = Tail(queue)
      /\ phase' = phase /\ current' = current /\ result' = result /\ oneshot' = oneshot
      /\ waiters' = waiters /\ receiver' = receiver
  BY DEF Receive
<1>2. t \in ToSet(queue) /\ ToSet(queue') = ToSet(queue) \ {t}
  BY <1>1, TailTakesOut DEF IndInv, TypeOK, OnePlace
<1> HIDE DEF t
<1>3. t \in Tickets /\ t \notin held /\ t \notin ToSet(waiters)
  BY <1>2, QueuesHoldTickets DEF IndInv, OnePlace
<1>4. statusOf[t] = "pending"
  BY <1>2, <1>3, StatusOfPlace
<1>5. statusOf' = [statusOf EXCEPT ![t] = "taken"]
  <2>1. \A u \in Tickets \ {t} : statusOf'[u] = statusOf[u]
    BY <1>1, <1>2, <1>3 DEF statusOf
  <2>2. statusOf'[t] = "taken"
    BY <1>1, <1>2, <1>3 DEF statusOf
  <2>3. QED
    BY <1>3, <2>1, <2>2, OneStatusChanges
<1>6. asksOf' = asksOf
  BY <1>1 DEF asksOf
<1>7. Service!Take(t)
  BY <1>1, <1>4, <1>5, <1>6 DEF Service!Take
<1>8. QED
  BY <1>3, <1>7

\* A Responder concludes the call it was handed out for.
LEMMA HandledImplements ==
  ASSUME IndInv, NEW t \in Tickets, Respond(t) \/ DropResponder(t)
  PROVE  Service!Conclude(t)
<1>1. PICK res \in {"ok", "err", "dropped"} : oneshot' = [oneshot EXCEPT ![t] = res]
  BY DEF Respond, DropResponder
<1>2. /\ t \in held /\ held' = held \ {t} /\ phase' = phase /\ current' = current
      /\ result' = result /\ waiters' = waiters /\ queue' = queue /\ receiver' = receiver
  BY DEF Respond, DropResponder
<1>3. t \notin ToSet(waiters) /\ t \notin ToSet(queue)
  BY <1>2 DEF IndInv, OnePlace
<1>4. statusOf[t] = "taken"
  BY <1>2, StatusOfPlace
<1>5. statusOf' = [statusOf EXCEPT ![t] = IF res = "dropped" THEN "lost" ELSE res]
  <2>1. \A u \in Tickets \ {t} : statusOf'[u] = statusOf[u]
    BY <1>1, <1>2, <1>3 DEF statusOf, IndInv, TypeOK
  <2>2. statusOf'[t] = IF res = "dropped" THEN "lost" ELSE res
    BY <1>1, <1>2, <1>3 DEF statusOf, IndInv, TypeOK
  <2>3. QED
    BY <2>1, <2>2, OneStatusChanges
<1>6. asksOf' = asksOf
  BY <1>2 DEF asksOf
<1>7. (IF res = "dropped" THEN "lost" ELSE res) \in {"ok", "err", "lost"}
  BY <1>1
<1>8. QED
  BY <1>2, <1>4, <1>5, <1>6, <1>7 DEF Service!Conclude

\* What is lost at the shutdown is what nobody has taken.
LEMMA DropBufferImplements ==
  ASSUME IndInv, receiver = "open", DropBuffer PROVE Service!Close
<1>1. /\ receiver' = "dropped" /\ queue' = <<>> /\ phase' = phase /\ current' = current
      /\ result' = result /\ waiters' = waiters /\ held' = held
      /\ oneshot' = [t \in Tickets |-> IF t \in ToSet(queue) THEN "dropped" ELSE oneshot[t]]
  BY DEF DropBuffer
<1>2. ToSet(queue') = {}
  BY <1>1 DEF ToSet
<1>3. /\ ToSet(queue) \subseteq Tickets /\ ToSet(queue) \cap held = {}
      /\ ToSet(queue) \cap ToSet(waiters) = {}
  BY QueuesHoldTickets DEF IndInv, OnePlace
<1>4. ToSet(queue) \in SUBSET {t \in Tickets : statusOf[t] = "pending"}
  BY <1>3, StatusOfPlace
<1>5. statusOf' = [t \in Tickets |-> IF t \in ToSet(queue) THEN "lost" ELSE statusOf[t]]
  BY <1>1, <1>2, <1>3 DEF statusOf
<1>6. asksOf' = asksOf
  BY <1>1 DEF asksOf
<1>7. QED
  BY <1>1, <1>4, <1>5, <1>6 DEF Service!Close

\* The bus implements the service: every command is taken once at most and
\* every caller gets the outcome of its own call.
THEOREM Refinement == Spec => ImplementsService
<1>1. IndInv /\ [Next]_vars => [Service!Next]_serviceOf
  <2> SUFFICES ASSUME IndInv, [Next]_vars PROVE Service!Next \/ UNCHANGED serviceOf
    OBVIOUS
  <2>1. ASSUME NEW k \in Callers, Call(k) PROVE Service!Next
    BY <2>1, CallImplements DEF Service!Next
  <2>2. ASSUME NEW k \in Callers, Push(k) PROVE UNCHANGED serviceOf
    BY <2>2, PushImplements
  <2>3. ASSUME NEW k \in Callers, SendFails(k) PROVE Service!Next
    BY <2>3, SendFailsImplements DEF Service!Next
  <2>4. ASSUME NEW k \in Callers, Resolve(k) PROVE Service!Next
    BY <2>4, ResolveImplements DEF Service!Next
  <2>5. ASSUME NEW k \in Callers, Cancel(k) PROVE Service!Next
    BY <2>5, CancelImplements DEF Service!Next
  <2>6. ASSUME NEW k \in Callers, DropHandle(k) PROVE Service!Next
    <3>1. /\ phase[k] = "idle" /\ phase' = [phase EXCEPT ![k] = "gone"]
          /\ UNCHANGED <<current, result, oneshot, waiters, queue, held, receiver>>
      BY <2>6 DEF DropHandle
    <3>2. asksOf[k] = "idle" /\ asksOf' = [asksOf EXCEPT ![k] = "gone"]
      BY <3>1 DEF asksOf, IndInv, TypeOK
    <3>3. statusOf' = statusOf
      BY <3>1 DEF statusOf
    <3>4. Service!Leave(k)
      BY <3>1, <3>2, <3>3 DEF Service!Leave
    <3>5. QED
      BY <3>4 DEF Service!Next
  <2>7. CASE Receive
    BY <2>7, ReceiveImplements DEF Service!Next
  <2>8. ASSUME NEW t \in Tickets, Respond(t) \/ DropResponder(t) PROVE Service!Next
    BY <2>8, HandledImplements DEF Service!Next
  <2>9. CASE Shutdown \/ EndOfCommands
    BY <2>9, DropBufferImplements DEF Shutdown, EndOfCommands, Service!Next
  <2>10. CASE UNCHANGED vars
    BY <2>10 DEF vars, serviceOf, asksOf, statusOf
  <2>11. QED
    BY <2>1, <2>2, <2>3, <2>4, <2>5, <2>6, <2>7, <2>8, <2>9, <2>10 DEF Next, Finished
<1>2. QED
  BY <1>1, InitImplements, Inductive, PTL
     DEF Spec, ImplementsService, Service!Spec, Service!serviceVars, serviceOf
=============================================================================

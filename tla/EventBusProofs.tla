--------------------------- MODULE EventBusProofs ---------------------------
(* Theorems about EventBus, for every set of observers, events and            *)
(* capacities: what an observer has, what it was told it missed, and what its *)
(* view of the topics is worth.                                               *)
EXTENDS EventBus, TLAPS

USE CapacityAssumption, RingAssumption

Views == UNION {[T -> Kinds] : T \in SUBSET Topics}

\* A bus has a slot, and as many as it was asked for.
LEMMA SlotsEnough ==
  ASSUME NEW n \in Capacities
  PROVE  Slots(n) \in Nat /\ Slots(n) >= 1 /\ Slots(n) >= n
<1>1. CASE n = 0
  BY <1>1 DEF Slots
<1>2. CASE n # 0
  BY <1>2 DEF Slots
<1>3. QED
  BY <1>1, <1>2

\* The oldest event there is lies between the first and the next one.
LEMMA OldestInRing ==
  ASSUME TypeOK
  PROVE  /\ Len(sent) \in Nat /\ slots \in Nat /\ slots >= 1
         /\ Oldest \in 1..(Len(sent) + 1)
         /\ \A i \in 1..(Oldest - 1) : i + slots <= Len(sent)
<1>1. Len(sent) \in Nat /\ slots \in Nat /\ slots >= 1
  BY SlotsEnough DEF TypeOK
<1>2. QED
  BY <1>1 DEF Oldest

\* What an observer sees of an event is in its view, and nothing else changes.
LEMMA SeeAdds ==
  ASSUME NEW view \in Views, NEW event \in Emitted
  PROVE  /\ See(view, event) \in Views
         /\ DOMAIN See(view, event) = DOMAIN view \cup {Topic(event)}
         /\ See(view, event)[Topic(event)] = event.kind
         /\ \A t \in DOMAIN view : t # Topic(event) => See(view, event)[t] = view[t]
<1>1. PICK T \in SUBSET Topics : view \in [T -> Kinds]
  BY DEF Views
<1>2. Topic(event) \in Topics /\ event.kind \in Kinds
  BY DEF Topics, Kinds
<1> DEFINE U == T \cup {Topic(event)}
           f == [t \in U |-> IF t = Topic(event) THEN event.kind ELSE view[t]]
<1>3. See(view, event) = f
  BY <1>1 DEF See
<1>4. f \in [U -> Kinds] /\ U \in SUBSET Topics
  BY <1>1, <1>2
<1>5. f \in Views
  BY <1>4 DEF Views
<1>6. QED
  BY <1>1, <1>3, <1>5

\* The receiver that is not there is one, with an empty view.
LEMMA NoReceiverTypes == NoReceiver \in Receiver
<1>1. <<>> \in [{} -> Kinds] /\ {} \in SUBSET Topics
  OBVIOUS
<1>2. <<>> \in UNION {[T -> Kinds] : T \in SUBSET Topics}
  BY <1>1
<1>3. QED
  BY <1>2 DEF NoReceiver, Receiver

\* A receiver that is changed in these fields alone is a receiver.
LEMMA ReceiverTypes ==
  ASSUME NEW r \in Receiver
  PROVE  /\ \A n \in Nat \ {0}, S \in SUBSET Nat, v \in Views :
               [r EXCEPT !.next = n, !.got = S, !.view = v] \in Receiver
         /\ \A n \in Nat \ {0}, S \in SUBSET Nat : [r EXCEPT !.next = n, !.lost = S] \in Receiver
         /\ \A n \in Nat \ {0} : [r EXCEPT !.on = TRUE, !.since = n, !.next = n] \in Receiver
BY DEF Receiver, Views

\* Everything keeps its type: no receiver is ahead of the channel.
THEOREM Typing == Spec => []TypeOK
<1>1. Init => TypeOK
  <2> SUFFICES ASSUME Init PROVE TypeOK
    OBVIOUS
  <2>1. sent \in Seq(Emitted) /\ Len(sent) = 0
    BY DEF Init
  <2>2. QED
    BY <2>1, NoReceiverTypes DEF Init, TypeOK, NoReceiver
<1>2. TypeOK /\ [Next]_vars => TypeOK'
  <2> SUFFICES ASSUME TypeOK, [Next]_vars PROVE TypeOK'
    OBVIOUS
  <2>0. /\ capacity \in Capacities /\ slots = Slots(capacity) /\ sent \in Seq(Emitted)
        /\ rx \in [Subscribers -> Receiver]
        /\ \A s \in Subscribers : rx[s].since <= rx[s].next /\ rx[s].next <= Len(sent) + 1
    BY DEF TypeOK
  <2>1. ASSUME NEW event \in Emitted, emit(event) PROVE TypeOK'
    <3>1. sent' \in Seq(Emitted) /\ Len(sent') = Len(sent) + 1
      BY <2>0, <2>1 DEF emit
    <3>2. \A s \in Subscribers : rx[s].next \in Nat
      BY <2>0 DEF Receiver
    <3>3. QED
      BY <2>0, <2>1, <3>1, <3>2 DEF emit, TypeOK
  <2>2. ASSUME NEW s \in Subscribers, NEW r \in Receiver,
               r.since <= r.next, r.next <= Len(sent) + 1,
               rx' = [rx EXCEPT ![s] = r],
               capacity' = capacity, slots' = slots, sent' = sent
        PROVE  TypeOK'
    BY <2>0, <2>2 DEF TypeOK
  <2>3. ASSUME NEW s \in Subscribers, subscribe(s) PROVE TypeOK'
    <3> DEFINE n == Len(sent) + 1
               r == [NoReceiver EXCEPT !.on = TRUE, !.since = n, !.next = n]
    <3>1. n \in Nat \ {0} /\ n <= Len(sent) + 1
      BY <2>0
    <3>2. r.since = n /\ r.next = n
      BY DEF NoReceiver
    <3>4. rx' = [rx EXCEPT ![s] = r] /\ capacity' = capacity /\ slots' = slots /\ sent' = sent
      BY <2>3 DEF subscribe
    <3> HIDE DEF n
    <3>3. r \in Receiver
      BY <3>1, NoReceiverTypes, ReceiverTypes
    <3>5. r.since <= r.next /\ r.next <= Len(sent) + 1
      BY <3>1, <3>2
    <3> HIDE DEF r
    <3>6. QED
      BY <2>2, <3>3, <3>4, <3>5
  <2>4. ASSUME NEW s \in Subscribers, Unsubscribe(s) PROVE TypeOK'
    <3>1. NoReceiver.since = 1 /\ NoReceiver.next = 1 /\ Len(sent) \in Nat
      BY <2>0 DEF NoReceiver
    <3>2. rx' = [rx EXCEPT ![s] = NoReceiver] /\ capacity' = capacity /\ slots' = slots /\ sent' = sent
      BY <2>4 DEF Unsubscribe
    <3>3. NoReceiver.since <= NoReceiver.next /\ NoReceiver.next <= Len(sent) + 1
      BY <3>1
    <3>4. QED
      BY <2>2, <3>2, <3>3, NoReceiverTypes
  <2>5. ASSUME NEW s \in Subscribers, recv(s) PROVE TypeOK'
    <3> DEFINE i == rx[s].next
               r == [rx[s] EXCEPT !.next = i + 1, !.got = rx[s].got \cup {i},
                                 !.view = See(rx[s].view, sent[i])]
    <3>1. /\ rx[s] \in Receiver /\ i \in Nat \ {0} /\ i + 1 \in Nat \ {0} /\ i <= Len(sent)
          /\ rx[s].since \in Nat /\ rx[s].since <= i /\ rx[s].got \cup {i} \in SUBSET Nat
      BY <2>0, <2>5, OldestInRing DEF recv, Receiver
    <3>2. sent[i] \in Emitted
      BY <2>0, <3>1
    <3>3. See(rx[s].view, sent[i]) \in Views
      BY <3>1, <3>2, SeeAdds DEF Receiver, Views
    <3>4. r \in Receiver
      BY <3>1, <3>3, ReceiverTypes
    <3>5. r.since = rx[s].since /\ r.next = i + 1
      BY <3>1 DEF Receiver
    <3>6. rx' = [rx EXCEPT ![s] = r] /\ capacity' = capacity /\ slots' = slots /\ sent' = sent
      BY <2>5 DEF recv
    <3>7. r.since <= r.next /\ r.next <= Len(sent) + 1
      BY <2>0, <3>1, <3>5
    <3> HIDE DEF r
    <3>8. QED
      BY <2>2, <3>4, <3>6, <3>7
  <2>6. ASSUME NEW s \in Subscribers, Lagged(s) PROVE TypeOK'
    <3> DEFINE r == [rx[s] EXCEPT !.next = Oldest, !.lost = rx[s].lost \cup rx[s].next..(Oldest - 1)]
    <3>1. /\ rx[s] \in Receiver /\ rx[s].next \in Nat /\ Oldest \in Nat \ {0}
          /\ Oldest <= Len(sent) + 1 /\ rx[s].since \in Nat /\ rx[s].since <= Oldest
      BY <2>0, <2>6, OldestInRing DEF Lagged, Receiver
    <3>2. rx[s].lost \cup rx[s].next..(Oldest - 1) \in SUBSET Nat
      BY <3>1 DEF Receiver
    <3>3. r \in Receiver
      BY <3>1, <3>2, ReceiverTypes
    <3>4. r.since = rx[s].since /\ r.next = Oldest
      BY <3>1 DEF Receiver
    <3>5. rx' = [rx EXCEPT ![s] = r] /\ capacity' = capacity /\ slots' = slots /\ sent' = sent
      BY <2>6 DEF Lagged
    <3> HIDE DEF r
    <3>6. QED
      BY <2>2, <3>1, <3>3, <3>4, <3>5
  <2>7. CASE UNCHANGED vars
    BY <2>0, <2>7 DEF vars, TypeOK
  <2>8. QED
    BY <2>1, <2>3, <2>4, <2>5, <2>6, <2>7 DEF Next
<1>3. QED
  BY <1>1, <1>2, PTL DEF Spec

-----------------------------------------------------------------------------
(* The three parts of IndInv, of one receiver.                               *)

Account(r) == r.got \cup r.lost = r.since..(r.next - 1) /\ r.got \cap r.lost = {}

Overwritten(r, n) == \A i \in r.lost : i + slots <= n

Latest(r, log) ==
    /\ \A i \in r.got : Topic(log[i]) \in DOMAIN r.view
    /\ \A i \in r.got : (\A j \in r.got : Topic(log[j]) = Topic(log[i]) => j <= i) =>
                            r.view[Topic(log[i])] = log[i].kind

Good(r, log) == Account(r) /\ Overwritten(r, Len(log)) /\ Latest(r, log)

AllGood == \A s \in Subscribers : Good(rx[s], sent)

\* IndInv is TypeOK and that every receiver is good.
LEMMA IndInvIsGood == IndInv <=> TypeOK /\ AllGood
BY DEF AllGood, IndInv, Accounted, LostIsOverwritten, ViewIsLatest, Good, Account, Overwritten, Latest

\* One that has received nothing and lost nothing is.
LEMMA FreshIsGood ==
  ASSUME NEW r, NEW log, r.got = {}, r.lost = {}, r.since \in Nat, r.next = r.since
  PROVE  Good(r, log)
BY DEF Good, Account, Overwritten, Latest

\* An event more in the channel changes nothing for a receiver.
LEMMA EmitKeepsGood ==
  ASSUME TypeOK, NEW s \in Subscribers, NEW event, Good(rx[s], sent),
         NEW log \in Seq(Emitted), log = Append(sent, event)
  PROVE  Good(rx[s], log)
<1> DEFINE r == rx[s]
<1>1. /\ sent \in Seq(Emitted) /\ Len(sent) \in Nat /\ slots \in Nat
      /\ r.since \in Nat \ {0} /\ r.next \in Nat /\ r.next <= Len(sent) + 1
      /\ r.got \in SUBSET Nat /\ r.lost \in SUBSET Nat
  BY OldestInRing DEF TypeOK, Receiver
<1>2. Len(log) = Len(sent) + 1
  BY <1>1
<1>3. Account(r) /\ Overwritten(r, Len(sent)) /\ Latest(r, sent)
  BY DEF Good
<1>4. \A i \in r.got : i \in 1..Len(sent)
  BY <1>1, <1>3 DEF Account
<1>5. \A i \in r.got : log[i] = sent[i]
  BY <1>1, <1>4
<1> HIDE DEF r
<1>6. Overwritten(r, Len(log))
  BY <1>1, <1>2, <1>3 DEF Overwritten
<1>7. Latest(r, log)
  BY <1>3, <1>5 DEF Latest
<1>8. QED
  BY <1>3, <1>6, <1>7 DEF Good, r

\* One that receives the next event has it, and its topic's value.
LEMMA RecvKeepsGood ==
  ASSUME TypeOK, NEW s \in Subscribers, Good(rx[s], sent), recv(s)
  PROVE  Good([rx[s] EXCEPT !.next = rx[s].next + 1, !.got = rx[s].got \cup {rx[s].next},
                            !.view = See(rx[s].view, sent[rx[s].next])], sent)
<1> DEFINE r == rx[s]
           i == r.next
           v == See(r.view, sent[i])
           q == [r EXCEPT !.next = i + 1, !.got = r.got \cup {i}, !.view = v]
<1>1. /\ sent \in Seq(Emitted) /\ r \in Receiver /\ r.since \in Nat \ {0} /\ i \in Nat \ {0}
      /\ r.since <= i /\ i \in 1..Len(sent) /\ r.view \in Views
      /\ r.got \in SUBSET Nat /\ r.lost \in SUBSET Nat
  BY OldestInRing DEF TypeOK, recv, Receiver, Views
<1>2. sent[i] \in Emitted
  BY <1>1
<1>3. /\ DOMAIN v = DOMAIN r.view \cup {Topic(sent[i])} /\ v[Topic(sent[i])] = sent[i].kind
      /\ \A t \in DOMAIN r.view : t # Topic(sent[i]) => v[t] = r.view[t]
  BY <1>1, <1>2, SeeAdds
<1>4. Account(r) /\ Overwritten(r, Len(sent)) /\ Latest(r, sent)
  BY DEF Good
<1>5. q.since = r.since /\ q.next = i + 1 /\ q.got = r.got \cup {i} /\ q.lost = r.lost /\ q.view = v
  BY <1>1 DEF Receiver
<1>6. \A j \in r.got \cup r.lost : j \in Nat /\ j < i
  BY <1>1, <1>4 DEF Account
<1> HIDE DEF r, v, q
<1>7. Account(q)
  <2>1. q.got \cap q.lost = {}
    BY <1>4, <1>5, <1>6 DEF Account, i
  <2>2. r.since..i = (r.since..(i - 1)) \cup {i}
    BY <1>1
  <2>3. q.got \cup q.lost = r.since..((i + 1) - 1)
    BY <1>1, <1>4, <1>5, <2>2 DEF Account
  <2>4. QED
    BY <1>5, <2>1, <2>3 DEF Account
<1> HIDE DEF i
<1>8. Overwritten(q, Len(sent))
  BY <1>4, <1>5 DEF Overwritten
<1>9. \A j \in q.got : Topic(sent[j]) \in DOMAIN q.view
  BY <1>3, <1>4, <1>5 DEF Latest
<1>10. ASSUME NEW j \in q.got, \A k \in q.got : Topic(sent[k]) = Topic(sent[j]) => k <= j
       PROVE  q.view[Topic(sent[j])] = sent[j].kind
  <2>1. CASE j = i
    BY <2>1, <1>3, <1>5
  <2>2. CASE j # i
    <3>1. j \in r.got /\ j < i /\ i \in Nat /\ j \in Nat
      BY <2>2, <1>1, <1>5, <1>6
    <3>2. Topic(sent[j]) # Topic(sent[i])
      BY <3>1, <1>5, <1>10
    <3>3. \A k \in r.got : Topic(sent[k]) = Topic(sent[j]) => k <= j
      BY <1>5, <1>10
    <3>4. Topic(sent[j]) \in DOMAIN r.view /\ r.view[Topic(sent[j])] = sent[j].kind
      BY <3>1, <3>3, <1>4 DEF Latest
    <3>5. QED
      BY <3>2, <3>4, <1>3, <1>5
  <2>3. QED
    BY <2>1, <2>2
<1>11. Latest(q, sent)
  BY <1>9, <1>10 DEF Latest
<1>12. QED
  BY <1>7, <1>8, <1>11 DEF Good, q, r, i, v

\* One that has fallen behind is told of what is overwritten, of nothing else.
LEMMA LaggedKeepsGood ==
  ASSUME TypeOK, NEW s \in Subscribers, Good(rx[s], sent), Lagged(s)
  PROVE  Good([rx[s] EXCEPT !.next = Oldest,
                            !.lost = rx[s].lost \cup rx[s].next..(Oldest - 1)], sent)
<1> DEFINE r == rx[s]
           more == r.next..(Oldest - 1)
           q == [r EXCEPT !.next = Oldest, !.lost = r.lost \cup more]
<1>1. /\ r \in Receiver /\ r.since \in Nat \ {0} /\ r.next \in Nat \ {0} /\ r.since <= r.next
      /\ r.next < Oldest /\ Oldest \in Nat /\ r.got \in SUBSET Nat
  BY OldestInRing DEF TypeOK, Lagged, Receiver
<1>2. \A i \in 1..(Oldest - 1) : i + slots <= Len(sent)
  BY OldestInRing
<1>3. Account(r) /\ Overwritten(r, Len(sent)) /\ Latest(r, sent)
  BY DEF Good
<1>4. q.since = r.since /\ q.next = Oldest /\ q.got = r.got /\ q.lost = r.lost \cup more /\ q.view = r.view
  BY <1>1 DEF Receiver
<1>5. r.since..(Oldest - 1) = (r.since..(r.next - 1)) \cup more
  BY <1>1
<1>6. r.got \cap more = {}
  BY <1>1, <1>3 DEF Account
<1>7. \A i \in more : i + slots <= Len(sent)
  BY <1>1, <1>2
<1> HIDE DEF r, q, more
<1>8. Account(q)
  BY <1>3, <1>4, <1>5, <1>6 DEF Account
<1>9. Overwritten(q, Len(sent))
  BY <1>3, <1>4, <1>7 DEF Overwritten
<1>10. Latest(q, sent)
  BY <1>3, <1>4 DEF Latest
<1>11. QED
  BY <1>8, <1>9, <1>10 DEF Good, q, r, more

\* IndInv holds in every state.
THEOREM Inductive == Spec => []IndInv
<1>1. Init => AllGood
  BY FreshIsGood DEF Init, NoReceiver, AllGood
<1>2. TypeOK /\ AllGood /\ [Next]_vars => AllGood'
  <2> SUFFICES ASSUME TypeOK, AllGood, [Next]_vars
               PROVE  \A s \in Subscribers : Good(rx[s], sent)'
    BY DEF AllGood
  <2>0. rx \in [Subscribers -> Receiver] /\ \A s \in Subscribers : Good(rx[s], sent)
    BY DEF TypeOK, AllGood
  <2>1. ASSUME NEW event \in Emitted, emit(event)
        PROVE  \A s \in Subscribers : Good(rx[s], sent)'
    <3>1. sent' = Append(sent, event) /\ rx' = rx /\ slots' = slots
      BY <2>1 DEF emit
    <3>2. sent' \in Seq(Emitted)
      BY <3>1 DEF TypeOK
    <3>3. ASSUME NEW s \in Subscribers PROVE Good(rx[s], sent')
      BY <2>0, <3>1, <3>2, EmitKeepsGood
    <3>4. QED
      BY <3>1, <3>3 DEF Good, Account, Overwritten, Latest
  <2>2. ASSUME NEW s \in Subscribers, NEW r, Good(r, sent), rx' = [rx EXCEPT ![s] = r],
               slots' = slots, sent' = sent
        PROVE  \A t \in Subscribers : Good(rx[t], sent)'
    <3>1. \A t \in Subscribers : Good(rx'[t], sent)
      BY <2>0, <2>2
    <3>2. QED
      BY <2>2, <3>1 DEF Good, Account, Overwritten, Latest
  <2>3. ASSUME NEW s \in Subscribers, subscribe(s)
        PROVE  \A t \in Subscribers : Good(rx[t], sent)'
    <3> DEFINE n == Len(sent) + 1
               r == [NoReceiver EXCEPT !.on = TRUE, !.since = n, !.next = n]
    <3>1. n \in Nat
      BY OldestInRing
    <3>2. r.got = {} /\ r.lost = {} /\ r.since = n /\ r.next = n
      BY DEF NoReceiver
    <3>3. rx' = [rx EXCEPT ![s] = r] /\ slots' = slots /\ sent' = sent
      BY <2>3 DEF subscribe
    <3> HIDE DEF r
    <3>4. Good(r, sent)
      BY <3>1, <3>2, FreshIsGood
    <3>5. QED
      BY <2>2, <3>3, <3>4
  <2>4. ASSUME NEW s \in Subscribers, Unsubscribe(s)
        PROVE  \A t \in Subscribers : Good(rx[t], sent)'
    <3>1. Good(NoReceiver, sent)
      BY FreshIsGood DEF NoReceiver
    <3>2. rx' = [rx EXCEPT ![s] = NoReceiver] /\ slots' = slots /\ sent' = sent
      BY <2>4 DEF Unsubscribe
    <3>3. QED
      BY <2>2, <3>1, <3>2
  <2>5. ASSUME NEW s \in Subscribers, recv(s)
        PROVE  \A t \in Subscribers : Good(rx[t], sent)'
    <3> DEFINE r == [rx[s] EXCEPT !.next = rx[s].next + 1, !.got = rx[s].got \cup {rx[s].next},
                                  !.view = See(rx[s].view, sent[rx[s].next])]
    <3>1. Good(r, sent)
      BY <2>0, <2>5, RecvKeepsGood
    <3>2. rx' = [rx EXCEPT ![s] = r] /\ slots' = slots /\ sent' = sent
      BY <2>5 DEF recv
    <3> HIDE DEF r
    <3>3. QED
      BY <2>2, <3>1, <3>2
  <2>6. ASSUME NEW s \in Subscribers, Lagged(s)
        PROVE  \A t \in Subscribers : Good(rx[t], sent)'
    <3> DEFINE r == [rx[s] EXCEPT !.next = Oldest,
                                  !.lost = rx[s].lost \cup rx[s].next..(Oldest - 1)]
    <3>1. Good(r, sent)
      BY <2>0, <2>6, LaggedKeepsGood
    <3>2. rx' = [rx EXCEPT ![s] = r] /\ slots' = slots /\ sent' = sent
      BY <2>6 DEF Lagged
    <3> HIDE DEF r
    <3>3. QED
      BY <2>2, <3>1, <3>2
  <2>7. CASE UNCHANGED vars
    BY <2>0, <2>7 DEF vars, Good, Account, Overwritten, Latest
  <2>8. QED
    BY <2>1, <2>3, <2>4, <2>5, <2>6, <2>7 DEF Next
<1>3. Spec => []AllGood
  BY <1>1, <1>2, Typing, PTL DEF Spec
<1>4. QED
  BY <1>3, Typing, IndInvIsGood, PTL

\* Everybody has what was emitted since it subscribed but what it was told of.
THEOREM NothingUnaccounted == Spec => []Accounted
<1>1. IndInv => Accounted
  BY DEF IndInv
<1>2. QED
  BY <1>1, Inductive, PTL

\* A view that is up to date is wrong only where events were lost, and old.
THEOREM StaleViewsAreTold == Spec => []StaleMeansTold
<1>1. IndInv => StaleMeansTold
  <2> SUFFICES ASSUME IndInv, NEW s \in Subscribers, rx[s].next = Len(sent) + 1,
                      NEW i \in LastOf(s)
               PROVE  \/ Topic(sent[i]) \in DOMAIN rx[s].view
                         /\ rx[s].view[Topic(sent[i])] = sent[i].kind
                      \/ rx[s].lost # {} /\ Len(sent) - i >= slots
    BY DEF StaleMeansTold
  <2>1. /\ TypeOK /\ Accounted /\ LostIsOverwritten /\ ViewIsLatest
    BY DEF IndInv
  <2>2. /\ Len(sent) \in Nat /\ slots \in Nat /\ rx[s].since \in Nat
        /\ rx[s].got \cup rx[s].lost = rx[s].since..Len(sent)
    BY <2>1, OldestInRing DEF TypeOK, Receiver, Accounted
  <2>3. /\ i \in rx[s].since..Len(sent)
        /\ \A j \in (i + 1)..Len(sent) : Topic(sent[j]) # Topic(sent[i])
    BY DEF LastOf
  <2>4. CASE i \in rx[s].lost
    BY <2>1, <2>2, <2>3, <2>4 DEF LostIsOverwritten
  <2>5. CASE i \in rx[s].got
    <3>1. \A j \in rx[s].got : Topic(sent[j]) = Topic(sent[i]) => j <= i
      BY <2>2, <2>3
    <3>2. QED
      BY <2>1, <2>5, <3>1 DEF ViewIsLatest
  <2>6. QED
    BY <2>2, <2>3, <2>4, <2>5
<1>2. QED
  BY <1>1, Inductive, PTL

\* No event is lost before as many have followed as the bus was created for.
THEOREM NothingDroppedEarly == Spec => DroppedWhenFull
<1> DEFINE Room == IF capacity = 0 THEN 1 ELSE capacity
           OnlyOld == \A s \in Subscribers : rx[s].on /\ rx'[s].on =>
                         \A i \in rx'[s].lost \ rx[s].lost : Len(sent) - i >= Room
<1>1. ASSUME TypeOK, [Next]_vars PROVE OnlyOld
  <2>0. /\ rx \in [Subscribers -> Receiver] /\ capacity \in Nat /\ Room <= slots /\ Room \in Nat
        /\ Len(sent) \in Nat /\ slots \in Nat
    BY <1>1, SlotsEnough, OldestInRing DEF TypeOK
  <2> HIDE DEF Room
  <2>1. ASSUME \A s \in Subscribers : rx'[s].lost \subseteq rx[s].lost PROVE OnlyOld
    BY <2>1
  <2>2. ASSUME NEW s \in Subscribers, subscribe(s) \/ Unsubscribe(s) PROVE OnlyOld
    <3> DEFINE q == [NoReceiver EXCEPT !.on = TRUE, !.since = Len(sent) + 1, !.next = Len(sent) + 1]
    <3>0. q.lost = {} /\ NoReceiver.lost = {}
      BY DEF NoReceiver
    <3>1. PICK r : rx' = [rx EXCEPT ![s] = r] /\ r.lost = {}
      <4>1. rx' = [rx EXCEPT ![s] = q] \/ rx' = [rx EXCEPT ![s] = NoReceiver]
        BY <2>2 DEF subscribe, Unsubscribe
      <4> HIDE DEF q
      <4>2. QED
        BY <3>0, <4>1
    <3>2. \A t \in Subscribers : rx'[t] = rx[t] \/ rx'[t] = r
      BY <2>0, <3>1
    <3>3. \A t \in Subscribers : rx'[t].lost \subseteq rx[t].lost
      BY <3>1, <3>2
    <3>4. QED
      BY <3>3, <2>1
  <2>3. ASSUME NEW s \in Subscribers, recv(s) PROVE OnlyOld
    <3>1. rx[s] \in Receiver
      BY <2>0
    <3>2. \A t \in Subscribers : rx'[t].lost = rx[t].lost
      BY <2>0, <2>3, <3>1 DEF recv, Receiver
    <3>3. QED
      BY <3>2, <2>1
  <2>4. ASSUME NEW s \in Subscribers, Lagged(s) PROVE OnlyOld
    <3>1. /\ rx[s] \in Receiver /\ rx[s].next \in Nat \ {0} /\ Oldest \in Nat
          /\ \A i \in 1..(Oldest - 1) : i + slots <= Len(sent)
      BY <1>1, <2>0, OldestInRing DEF Receiver
    <3>2. \A t \in Subscribers : \A i \in rx'[t].lost \ rx[t].lost : i \in rx[s].next..(Oldest - 1)
      BY <2>0, <2>4, <3>1 DEF Lagged, Receiver
    <3>3. ASSUME NEW i \in rx[s].next..(Oldest - 1) PROVE Len(sent) - i >= Room
      <4>1. i \in Nat /\ i \in 1..(Oldest - 1)
        BY <3>1
      <4>2. i + slots <= Len(sent)
        BY <3>1, <4>1
      <4>3. QED
        BY <2>0, <4>1, <4>2
    <3>4. QED
      BY <3>2, <3>3
  <2>5. CASE rx' = rx
    BY <2>1, <2>5
  <2>6. rx' = rx \/ \E s \in Subscribers : subscribe(s) \/ Unsubscribe(s) \/ recv(s) \/ Lagged(s)
    BY <1>1 DEF Next, vars, emit
  <2>7. QED
    BY <2>2, <2>3, <2>4, <2>5, <2>6
<1>2. QED
  BY <1>1, Typing, PTL DEF Spec, DroppedWhenFull
=============================================================================

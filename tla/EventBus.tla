------------------------------ MODULE EventBus ------------------------------
(* The broadcast bus for events (crates/core/src/event/): every subscriber    *)
(* gets a copy of what is emitted after it subscribed, and one that is slow   *)
(* loses the oldest and is told how many.                                     *)
(*                                                                            *)
(* The ring of the channel is tokio's and not in the repository: it keeps the *)
(* last events, as many as it has slots, whoever has received them.           *)
EXTENDS Naturals, Sequences, FiniteSets

CONSTANTS
    Subscribers,    \* tasks that observe
    Subjects,       \* containers, providers, dispatches, tasks, components, groups
    Emitted,        \* the events that are emitted
    Capacities,     \* what a bus may be created with
    RingSize,       \* capacity -> slots of tokio's ring, a power of two
    MaxEvents       \* bound: events emitted to anyone in a behaviour

-----------------------------------------------------------------------------
(* Events: what they are about and what they say of it                       *)

ContainerEventKind == {"Started", "Ready", "Processing", "Idle", "Exited", "Failed"}
ProviderEventKind  == {"Healthy", "Unhealthy", "BudgetAlert", "BudgetExhausted"}
TanrenEventKind    == {"Submitted", "Completed", "Failed"}
TaskEventKind      == {"Due", "Completed", "Failed"}

MessageEvent   == [event : {"Message"},   of : Subjects, kind : {"received"}]
ContainerEvent == [event : {"Container"}, of : Subjects, kind : ContainerEventKind]
ProviderEvent  == [event : {"Provider"},  of : Subjects, kind : ProviderEventKind]
TanrenEvent    == [event : {"Tanren"},    of : Subjects, kind : TanrenEventKind]
TaskEvent      == [event : {"Task"},      of : Subjects, kind : TaskEventKind]
HealthEvent    == [event : {"Health"},    of : Subjects, kind : {"healthy", "unhealthy"}]
IpcEvent       == [event : {"Ipc"},       of : Subjects, kind : {"received"}]
ConfigEvent    == [event : {"Config"},    of : Subjects, kind : {"changed"}]

Event == MessageEvent \cup ContainerEvent \cup ProviderEvent \cup TanrenEvent
             \cup TaskEvent \cup HealthEvent \cup IpcEvent \cup ConfigEvent

ASSUME EmittedAssumption  == Emitted \subseteq Event
ASSUME CapacityAssumption == Capacities \subseteq Nat /\ MaxEvents \in Nat
ASSUME RingAssumption ==
    \A n \in ({1} \cup Capacities) \ {0} : RingSize[n] \in Nat /\ RingSize[n] >= n

\* What an observer keeps one value of.
Topic(event) == <<event.event, event.of>>

-----------------------------------------------------------------------------
VARIABLES
    capacity,   \* what the bus was created with, for good
    slots,      \* the slots it got, for good
    sent,       \* the events in the channel, in order, the overwritten ones too
    rx          \* subscriber -> its receiver: next position, where it began, the
                \* last event of each topic; got and lost are history

vars == <<capacity, slots, sent, rx>>

\* Mutant: no clamp.
Slots_NoClamp(n) == RingSize[n]

\* EventBus::new: a channel needs a slot.
Slots(n) == RingSize[IF n = 0 THEN 1 ELSE n]

NoReceiver == [on |-> FALSE, since |-> 1, next |-> 1, got |-> {}, lost |-> {}, view |-> <<>>]

Init ==
    /\ capacity \in Capacities
    /\ slots = Slots(capacity)
    /\ sent = <<>>
    /\ rx = [s \in Subscribers |-> NoReceiver]

\* Mutant: a new subscriber is shown what is still there.
subscribe_Replays(s) ==
    /\ ~rx[s].on
    /\ rx' = [rx EXCEPT ![s] = [NoReceiver EXCEPT !.on = TRUE, !.since = Len(sent) + 1]]
    /\ UNCHANGED <<capacity, slots, sent>>

subscribe(s) ==
    /\ ~rx[s].on
    /\ rx' = [rx EXCEPT ![s] = [NoReceiver EXCEPT !.on = TRUE, !.since = Len(sent) + 1,
                                                  !.next = Len(sent) + 1]]
    /\ UNCHANGED <<capacity, slots, sent>>

\* The receiver is dropped.
Unsubscribe(s) ==
    /\ rx[s].on
    /\ rx' = [rx EXCEPT ![s] = NoReceiver]
    /\ UNCHANGED <<capacity, slots, sent>>

\* Without a receiver the event is dropped.  The number of receivers, which is
\* what is returned, is left out.
emit(event) ==
    /\ \E s \in Subscribers : rx[s].on
    /\ Len(sent) < MaxEvents
    /\ sent' = Append(sent, event)
    /\ UNCHANGED <<capacity, slots, rx>>

\* The oldest position that is not overwritten.
Oldest == IF Len(sent) < slots THEN 1 ELSE Len(sent) - slots + 1

\* The receiver keeps one value per topic, the last.
See(view, event) ==
    [t \in DOMAIN view \cup {Topic(event)} |-> IF t = Topic(event) THEN event.kind ELSE view[t]]

recv(s) ==
    /\ rx[s].on
    /\ rx[s].next \in Oldest..Len(sent)
    /\ rx' = [rx EXCEPT ![s] = [@ EXCEPT !.next = rx[s].next + 1,
                                         !.got = rx[s].got \cup {rx[s].next},
                                         !.view = See(rx[s].view, sent[rx[s].next])]]
    /\ UNCHANGED <<capacity, slots, sent>>

\* Mutant: the receiver is not moved.
Lagged_Stays(s) ==
    /\ rx[s].on
    /\ rx[s].next < Oldest
    /\ rx' = [rx EXCEPT ![s].lost = @ \cup rx[s].next..(Oldest - 1)]
    /\ UNCHANGED <<capacity, slots, sent>>

\* Mutant: the receiver goes on with the newest event.
Lagged_ToNewest(s) ==
    /\ rx[s].on
    /\ rx[s].next < Oldest
    /\ rx' = [rx EXCEPT ![s] = [@ EXCEPT !.next = Len(sent),
                                         !.lost = @ \cup rx[s].next..(Len(sent) - 1)]]
    /\ UNCHANGED <<capacity, slots, sent>>

\* It is told how many it has missed and goes on with the oldest.
Lagged(s) ==
    /\ rx[s].on
    /\ rx[s].next < Oldest
    /\ rx' = [rx EXCEPT ![s] = [@ EXCEPT !.next = Oldest,
                                         !.lost = rx[s].lost \cup rx[s].next..(Oldest - 1)]]
    /\ UNCHANGED <<capacity, slots, sent>>

Next ==
    \/ \E event \in Emitted : emit(event)
    \/ \E s \in Subscribers : subscribe(s) \/ Unsubscribe(s) \/ recv(s) \/ Lagged(s)

Spec == Init /\ [][Next]_vars

(* A subscriber is a task that receives for as long as it is subscribed.      *)
LiveSpec == Spec /\ \A s \in Subscribers : WF_vars(recv(s) \/ Lagged(s))

-----------------------------------------------------------------------------
(* Properties                                                                *)

Topics == {Topic(event) : event \in Emitted}
Kinds  == {event.kind : event \in Emitted}

Receiver == [on : BOOLEAN, since : Nat \ {0}, next : Nat \ {0}, got : SUBSET Nat, lost : SUBSET Nat,
             view : UNION {[T -> Kinds] : T \in SUBSET Topics}]

TypeOK ==
    /\ capacity \in Capacities /\ slots = Slots(capacity)
    /\ sent \in Seq(Emitted)
    /\ rx \in [Subscribers -> Receiver]
    /\ \A s \in Subscribers : rx[s].since <= rx[s].next /\ rx[s].next <= Len(sent) + 1

\* A subscriber has received everything from its subscription on but what it
\* was told of, and nothing from before it: "events emitted before subscribing
\* are not replayed" (event/bus.rs:9-11).
Accounted ==
    \A s \in Subscribers :
        /\ rx[s].got \cup rx[s].lost = rx[s].since..(rx[s].next - 1)
        /\ rx[s].got \cap rx[s].lost = {}

\* "How many events can be buffered before the oldest events are dropped for
\* slow receivers" (event/bus.rs:19-23): nobody loses an event that fewer than
\* that have followed, for any capacity, and 1 for none.
DroppedWhenFull ==
    [][\A s \in Subscribers : rx[s].on /\ rx'[s].on =>
          \A i \in rx'[s].lost \ rx[s].lost :
              Len(sent) - i >= (IF capacity = 0 THEN 1 ELSE capacity)]_vars

\* The last event of each topic that was emitted since s subscribed.
LastOf(s) ==
    {i \in rx[s].since..Len(sent) : \A j \in (i + 1)..Len(sent) : Topic(sent[j]) # Topic(sent[i])}

\* An observer that is up to date and keeps the last value of each topic is
\* wrong only about topics that were silent for as many events as the bus
\* holds, and only if it was told that it missed some.
StaleMeansTold ==
    \A s \in Subscribers : rx[s].on /\ rx[s].next = Len(sent) + 1 =>
        \A i \in LastOf(s) :
            \/ Topic(sent[i]) \in DOMAIN rx[s].view /\ rx[s].view[Topic(sent[i])] = sent[i].kind
            \/ rx[s].lost # {} /\ Len(sent) - i >= slots

\* Why that is so: what is lost is overwritten, and a view holds of each topic
\* the last event that was received.
LostIsOverwritten ==
    \A s \in Subscribers : \A i \in rx[s].lost : i + slots <= Len(sent)

ViewIsLatest ==
    \A s \in Subscribers :
        /\ \A i \in rx[s].got : Topic(sent[i]) \in DOMAIN rx[s].view
        /\ \A i \in rx[s].got :
              (\A j \in rx[s].got : Topic(sent[j]) = Topic(sent[i]) => j <= i) =>
                  rx[s].view[Topic(sent[i])] = sent[i].kind

IndInv == TypeOK /\ Accounted /\ LostIsOverwritten /\ ViewIsLatest

\* Whoever stays subscribed gets past every event: a slow observer catches up.
CatchesUp ==
    \A s \in Subscribers : \A i \in 1..MaxEvents :
        rx[s].on /\ i \in rx[s].since..Len(sent) ~> rx[s].next > i \/ ~rx[s].on
=============================================================================

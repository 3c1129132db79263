------------------------ MODULE CommandBusRefinement ------------------------
(* CommandBus implements CommandService: a call is pending while it waits for *)
(* a slot and while it is buffered, taken while its Responder is held, and    *)
(* has the outcome of its oneshot otherwise.  A oneshot that is open although *)
(* nothing holds its sender is the one of a call that was given up.           *)
EXTENDS CommandBus

asksOf == [k \in Callers |-> IF phase[k] \in {"sending", "awaiting"} THEN "waiting" ELSE phase[k]]

statusOf ==
    [t \in Tickets |-> CASE t \in held -> "taken"
                         [] t \in ToSet(waiters) \cup ToSet(queue) -> "pending"
                         [] OTHER -> IF oneshot[t] \in {"ok", "err"} THEN oneshot[t] ELSE "lost"]

Service == INSTANCE CommandService WITH
    asks <- asksOf, last <- current, returned <- result, status <- statusOf,
    handler <- receiver

\* Slots, buffer, permits, envelopes and two awaits with a cancellation at
\* each show a caller what the promise allows: its command is handled once at
\* most, its answer is the one that was given to it, it is turned away after
\* the shutdown only, and nobody is handed a command of a handler that is gone.
ImplementsService == Service!Spec
=============================================================================

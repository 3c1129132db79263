----------------------------- MODULE CommandBus -----------------------------
(* The command bus (crates/core/src/command/mod.rs): callers send a command   *)
(* with a oneshot responder through a bounded channel to one handler and      *)
(* await the answer.  A call may be cancelled at either of its two awaits;    *)
(* the handler may answer, drop the responder, or drop its receiver with      *)
(* commands still queued; callers may drop their handles.                     *)
(*                                                                            *)
(* A ticket stands for one call's oneshot channel.  A ticket is used again    *)
(* only when nothing refers to it any more, so that behaviours need not end.  *)
EXTENDS Naturals, Sequences, SequencesExt, FiniteSets

CONSTANTS
    Callers,    \* tasks with a clone of the CommandBus
    Tickets,    \* oneshot channels
    NoTicket,   \* the ticket of a caller that has not called yet
    Capacity,   \* as passed to CommandBus::new, 0 included
    MaxHeld     \* commands the handler works on at once; 1 is the documented loop

ASSUME CapacityAssumption == Capacity \in Nat /\ MaxHeld \in Nat \ {0}
ASSUME TicketAssumption   == NoTicket \notin Tickets

VARIABLES
    phase,      \* caller -> "idle", "sending", "awaiting", "gone"
    current,    \* caller -> the ticket of its present or last call
    result,     \* caller -> what its last call returned
    oneshot,    \* ticket -> state of the oneshot channel
    waiters,    \* sends waiting for room in the channel, in order of arrival
    queue,      \* the channel's buffer
    held,       \* tickets whose Responder the handler holds
    receiver,   \* the CommandReceiver: "open" or "dropped"
    answers     \* ticket -> what the handler answered to that call (history)

vars == <<phase, current, result, oneshot, waiters, queue, held, receiver, answers>>

Results == {"none", "ok", "err", "HandlerDropped", "cancelled"}

TypeOK ==
    /\ phase \in [Callers -> {"idle", "sending", "awaiting", "gone"}]
    /\ current \in [Callers -> Tickets \cup {NoTicket}]
    /\ result \in [Callers -> Results]
    /\ oneshot \in [Tickets -> {"open", "ok", "err", "dropped"}]
    /\ waiters \in Seq(Tickets)
    /\ queue \in Seq(Tickets)
    /\ held \subseteq Tickets
    /\ receiver \in {"open", "dropped"}
    /\ answers \in [Tickets -> {"none", "ok", "err"}]

\* CommandBus::new clamps the capacity to at least 1.
effective == IF Capacity = 0 THEN 1 ELSE Capacity

Init ==
    /\ phase = [k \in Callers |-> "idle"]
    /\ current = [k \in Callers |-> NoTicket]
    /\ result = [k \in Callers |-> "none"]
    /\ oneshot = [t \in Tickets |-> "dropped"]
    /\ waiters = <<>>
    /\ queue = <<>>
    /\ held = {}
    /\ receiver = "open"
    /\ answers = [t \in Tickets |-> "none"]

InUse == ToSet(waiters) \cup ToSet(queue) \cup held \cup {current[k] : k \in Callers}

-----------------------------------------------------------------------------
(* The caller: CommandBus::call                                              *)

Return(k, res) ==
    /\ phase' = [phase EXCEPT ![k] = "idle"]
    /\ result' = [result EXCEPT ![k] = res]

\* Mutant: the answer slot of an earlier call is used again as it is.
Call_StaleSlot(k) ==
    /\ phase[k] = "idle"
    /\ \E t \in Tickets \ InUse :
          /\ current' = [current EXCEPT ![k] = t]
          /\ answers' = [answers EXCEPT ![t] = "none"]
          /\ waiters' = Append(waiters, t)
    /\ phase' = [phase EXCEPT ![k] = "sending"]
    /\ result' = [result EXCEPT ![k] = "none"]
    /\ UNCHANGED <<oneshot, queue, held, receiver>>

\* A fresh oneshot, and a send that waits behind those that came before it.
Call(k) ==
    /\ phase[k] = "idle"
    /\ \E t \in Tickets \ InUse :
          /\ current' = [current EXCEPT ![k] = t]
          /\ oneshot' = [oneshot EXCEPT ![t] = "open"]
          /\ answers' = [answers EXCEPT ![t] = "none"]
          /\ waiters' = Append(waiters, t)
    /\ phase' = [phase EXCEPT ![k] = "sending"]
    /\ result' = [result EXCEPT ![k] = "none"]
    /\ UNCHANGED <<queue, held, receiver>>

\* Mutant: whoever is polled first gets the slot.
HasPermit_AnyOrder(t) == Len(queue) < effective

\* The channel hands out its free slots in order of arrival: as many waiters
\* from the front as there is room have one, and push when they are polled.
HasPermit(t) ==
    \E i \in DOMAIN waiters : waiters[i] = t /\ i <= effective - Len(queue)

Push(k) ==
    /\ phase[k] = "sending"
    /\ receiver = "open"
    /\ HasPermit(current[k])
    /\ queue' = Append(queue, current[k])
    /\ waiters' = RemoveFirst(waiters, current[k])
    /\ phase' = [phase EXCEPT ![k] = "awaiting"]
    /\ UNCHANGED <<current, result, oneshot, held, receiver, answers>>

\* send fails when the receiver is gone; the envelope is dropped with it.
SendFails(k) ==
    /\ phase[k] = "sending"
    /\ receiver = "dropped"
    /\ waiters' = RemoveFirst(waiters, current[k])
    /\ oneshot' = [oneshot EXCEPT ![current[k]] = "dropped"]
    /\ Return(k, "HandlerDropped")
    /\ UNCHANGED <<current, queue, held, receiver, answers>>

\* Mutant: a oneshot without an answer is passed on unmapped.
Resolve_Unmapped(k) ==
    /\ phase[k] = "awaiting"
    /\ oneshot[current[k]] # "open"
    /\ Return(k, oneshot[current[k]])
    /\ UNCHANGED <<current, oneshot, waiters, queue, held, receiver, answers>>

\* The oneshot resolves: an answer, or its sender was dropped without one.
Resolve(k) ==
    /\ phase[k] = "awaiting"
    /\ oneshot[current[k]] # "open"
    /\ Return(k, IF oneshot[current[k]] = "dropped" THEN "HandlerDropped"
                 ELSE oneshot[current[k]])
    /\ UNCHANGED <<current, oneshot, waiters, queue, held, receiver, answers>>

\* The call's future is dropped.  A send that waits gives up its place; a
\* command that is queued or being handled stays there.
Cancel(k) ==
    /\ phase[k] \in {"sending", "awaiting"}
    /\ waiters' = RemoveFirst(waiters, current[k])
    /\ Return(k, "cancelled")
    /\ UNCHANGED <<current, oneshot, queue, held, receiver, answers>>

\* A call borrows the bus: a handle is dropped between calls only.
DropHandle(k) ==
    /\ phase[k] = "idle"
    /\ phase' = [phase EXCEPT ![k] = "gone"]
    /\ UNCHANGED <<current, result, oneshot, waiters, queue, held, receiver, answers>>

-----------------------------------------------------------------------------
(* The handler                                                               *)

\* Mutant: the command is handed out and stays in the buffer.
Receive_Peeks ==
    /\ receiver = "open"
    /\ Cardinality(held) < MaxHeld
    /\ queue # <<>>
    /\ held' = held \cup {Head(queue)}
    /\ UNCHANGED <<queue, phase, current, result, oneshot, waiters, receiver, answers>>

\* Mutant: a command whose caller was cancelled is not taken out.
Receive_AwaitedOnly ==
    /\ receiver = "open"
    /\ Cardinality(held) < MaxHeld
    /\ queue # <<>>
    /\ \E k \in Callers : phase[k] = "awaiting" /\ current[k] = Head(queue)
    /\ held' = held \cup {Head(queue)}
    /\ queue' = Tail(queue)
    /\ UNCHANGED <<phase, current, result, oneshot, waiters, receiver, answers>>

\* CommandReceiver::recv yields the oldest command and its Responder.
Receive ==
    /\ receiver = "open"
    /\ Cardinality(held) < MaxHeld
    /\ queue # <<>>
    /\ held' = held \cup {Head(queue)}
    /\ queue' = Tail(queue)
    /\ UNCHANGED <<phase, current, result, oneshot, waiters, receiver, answers>>

\* Responder::respond; to a caller that is gone the answer is lost.
Respond(t) ==
    /\ t \in held
    /\ \E res \in {"ok", "err"} :
          /\ oneshot' = [oneshot EXCEPT ![t] = res]
          /\ answers' = [answers EXCEPT ![t] = res]
    /\ held' = held \ {t}
    /\ UNCHANGED <<phase, current, result, waiters, queue, receiver>>

\* The handler panics on a command, or returns early: the Responder is dropped.
DropResponder(t) ==
    /\ t \in held
    /\ oneshot' = [oneshot EXCEPT ![t] = "dropped"]
    /\ held' = held \ {t}
    /\ UNCHANGED <<phase, current, result, waiters, queue, receiver, answers>>

\* Mutant: the envelopes in the buffer are leaked.
DropBuffer_Leaks ==
    /\ receiver' = "dropped"
    /\ queue' = <<>>
    /\ UNCHANGED <<oneshot, phase, current, result, waiters, held, answers>>

\* The receiver goes, and with it every envelope in the buffer.  Responders
\* that were handed out before live on.
DropBuffer ==
    /\ receiver' = "dropped"
    /\ queue' = <<>>
    /\ oneshot' = [t \in Tickets |-> IF t \in ToSet(queue) THEN "dropped" ELSE oneshot[t]]
    /\ UNCHANGED <<phase, current, result, waiters, held, answers>>

Shutdown == receiver = "open" /\ DropBuffer

\* recv returns None, which ends the handler's loop: no handle is left.
EndOfCommands ==
    /\ receiver = "open"
    /\ \A k \in Callers : phase[k] = "gone"
    /\ queue = <<>>
    /\ DropBuffer

\* Both sides are gone: the only state in which nothing is left to do.
Finished ==
    /\ receiver = "dropped" /\ held = {}
    /\ \A k \in Callers : phase[k] = "gone"
    /\ UNCHANGED vars

Next ==
    \/ \E k \in Callers : Call(k) \/ Push(k) \/ SendFails(k) \/ Resolve(k) \/ Cancel(k)
                          \/ DropHandle(k)
    \/ Receive
    \/ \E t \in Tickets : Respond(t) \/ DropResponder(t)
    \/ Shutdown
    \/ EndOfCommands
    \/ Finished

Spec == Init /\ [][Next]_vars

(* Tasks that can run are run; a handler that has its receiver calls recv     *)
(* again, and is done with each command some time.                            *)
Fairness ==
    /\ \A k \in Callers : WF_vars(Push(k) \/ SendFails(k) \/ Resolve(k))
    /\ WF_vars(Receive)
    /\ \A t \in Tickets : WF_vars(Respond(t) \/ DropResponder(t))
    /\ WF_vars(EndOfCommands)

LiveSpec == Spec /\ Fairness

-----------------------------------------------------------------------------
(* Properties                                                                *)

\* A caller gets the answer the handler gave to this very call, and never one
\* to an earlier call of its own that was cancelled.
AnswersMatch ==
    \A k \in Callers : result[k] \in {"ok", "err"} => answers[current[k]] = result[k]

\* A call that waits for its answer has somebody to wait for: its command is
\* in the buffer of a live receiver, or its Responder is held, or the oneshot
\* has resolved.  No shutdown and no cancellation of others leaves it behind.
NobodyForgotten ==
    \A k \in Callers : phase[k] = "awaiting" =>
        \/ oneshot[current[k]] # "open"
        \/ receiver = "open" /\ current[k] \in ToSet(queue)
        \/ current[k] \in held

\* A command is in one place: it waits once, is buffered once, or is handled.
OnePlace ==
    /\ IsInjective(waiters)
    /\ IsInjective(queue)
    /\ ToSet(waiters) \cap (ToSet(queue) \cup held) = {}
    /\ ToSet(queue) \cap held = {}

\* Why that is so: no two callers have one ticket, whoever sends waits, what
\* is on its way or being handled is unanswered, and answers stay.
Links ==
    /\ \A k, l \in Callers : current[k] = current[l] /\ current[k] # NoTicket => k = l
    /\ \A k \in Callers :
          /\ phase[k] = "sending" => current[k] \in ToSet(waiters)
          /\ phase[k] = "awaiting" => current[k] \in Tickets

PendingIsOpen == \A t \in ToSet(waiters) \cup ToSet(queue) \cup held : oneshot[t] = "open"

AnswersStay ==
    /\ \A t \in Tickets : oneshot[t] \in {"ok", "err"} => answers[t] = oneshot[t]
    /\ \A k \in Callers : result[k] \in {"ok", "err"} =>
          current[k] \in Tickets /\ oneshot[current[k]] = result[k]

IndInv == TypeOK /\ OnePlace /\ Links /\ PendingIsOpen /\ AnswersStay /\ NobodyForgotten

\* Every call returns, even with the other callers sending for ever, a full
\* buffer and a handler that may stop at any point: the channel serves waiters
\* in order.
CallsReturn == \A k \in Callers : phase[k] \in {"sending", "awaiting"} ~> phase[k] = "idle"

\* A command that was accepted is handed to the handler or dies with its
\* receiver, also when the caller has been cancelled meanwhile.
AcceptedIsReceived ==
    \A t \in Tickets : t \in ToSet(queue) ~> (t \in held \/ receiver = "dropped")

\* command/mod.rs:64 of HandlerDropped: "The handler has been dropped
\* (subsystem shut down)".
HandlerDroppedMeansGone ==
    \A k \in Callers : result[k] = "HandlerDropped" => receiver = "dropped"
=============================================================================

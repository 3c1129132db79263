--------------------------- MODULE CommandService ---------------------------
(* What the command bus promises (command/mod.rs:8-15): "Exactly one handler  *)
(* processes each command and returns a typed response."  Without channels,   *)
(* buffers and envelopes: a call is pending until the handler takes it, is    *)
(* taken once, and has one outcome, which its own caller gets and nobody      *)
(* else.  A call that was given up may still be taken.                        *)
CONSTANTS Callers, Tickets, NoTicket

VARIABLES
    asks,       \* caller -> "idle", "waiting", "gone"
    last,       \* caller -> its present or last call
    returned,   \* caller -> what that call returned
    status,     \* call -> "pending", "taken", "ok", "err", "lost"
    handler     \* "open" until it shuts down, then "dropped"

serviceVars == <<asks, last, returned, status, handler>>

Init ==
    /\ asks = [k \in Callers |-> "idle"]
    /\ last = [k \in Callers |-> NoTicket]
    /\ returned = [k \in Callers |-> "none"]
    /\ status = [t \in Tickets |-> "lost"]
    /\ handler = "open"

Ask(k) ==
    /\ asks[k] = "idle"
    /\ \E t \in Tickets :
          /\ status[t] \notin {"pending", "taken"}
          /\ \A l \in Callers : last[l] # t
          /\ last' = [last EXCEPT ![k] = t]
          /\ status' = [status EXCEPT ![t] = "pending"]
    /\ asks' = [asks EXCEPT ![k] = "waiting"]
    /\ returned' = [returned EXCEPT ![k] = "none"]
    /\ UNCHANGED handler

\* Nobody is handed a command after the shutdown.
Take(t) ==
    /\ handler = "open"
    /\ status[t] = "pending"
    /\ status' = [status EXCEPT ![t] = "taken"]
    /\ UNCHANGED <<asks, last, returned, handler>>

\* The handler answers, or gives the call up.
Conclude(t) ==
    /\ status[t] = "taken"
    /\ \E outcome \in {"ok", "err", "lost"} : status' = [status EXCEPT ![t] = outcome]
    /\ UNCHANGED <<asks, last, returned, handler>>

\* The shutdown: any calls that nobody has taken are lost with it.
Close ==
    /\ handler = "open"
    /\ handler' = "dropped"
    /\ \E L \in SUBSET {t \in Tickets : status[t] = "pending"} :
          status' = [t \in Tickets |-> IF t \in L THEN "lost" ELSE status[t]]
    /\ UNCHANGED <<asks, last, returned>>

Reply(k, res) ==
    /\ asks' = [asks EXCEPT ![k] = "idle"]
    /\ returned' = [returned EXCEPT ![k] = res]
    /\ UNCHANGED <<last, handler>>

\* A caller gets the outcome of its call.
Return(k) ==
    /\ asks[k] = "waiting"
    /\ status[last[k]] \in {"ok", "err", "lost"}
    /\ Reply(k, IF status[last[k]] = "lost" THEN "HandlerDropped" ELSE status[last[k]])
    /\ UNCHANGED status

\* A call that is still pending is refused after the shutdown only.
Refuse(k) ==
    /\ handler = "dropped" /\ asks[k] = "waiting"
    /\ status[last[k]] = "pending"
    /\ status' = [status EXCEPT ![last[k]] = "lost"]
    /\ Reply(k, "HandlerDropped")

\* A caller gives up.  Its call may be withdrawn if it is pending, and goes
\* its way otherwise.
GiveUp(k) ==
    /\ asks[k] = "waiting"
    /\ Reply(k, "cancelled")
    /\ \/ UNCHANGED status
       \/ status[last[k]] = "pending" /\ status' = [status EXCEPT ![last[k]] = "lost"]

Leave(k) ==
    /\ asks[k] = "idle"
    /\ asks' = [asks EXCEPT ![k] = "gone"]
    /\ UNCHANGED <<last, returned, status, handler>>

Next ==
    \/ \E k \in Callers : Ask(k) \/ Return(k) \/ Refuse(k) \/ GiveUp(k) \/ Leave(k)
    \/ \E t \in Tickets : Take(t) \/ Conclude(t)
    \/ Close

Spec == Init /\ [][Next]_serviceVars
=============================================================================

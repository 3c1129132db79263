----------------------------- MODULE MCEventBus -----------------------------
(* Small instances of EventBus.                                               *)
EXTENDS EventBus

CONSTANTS o1, o2, x

\* Two topics, two values of one.
SomeEvents ==
    { [event |-> "Container", of |-> x, kind |-> "Ready"],
      [event |-> "Container", of |-> x, kind |-> "Failed"],
      [event |-> "Health",    of |-> x, kind |-> "healthy"] }

\* usize::next_power_of_two; without a slot there is no channel.
PowerOfTwo ==
    [n \in Capacities |->
        IF n = 0 THEN 0
        ELSE CHOOSE p \in {2^i : i \in 0..n} : /\ p >= n
                                              /\ \A q \in {2^i : i \in 0..n} : q >= n => p <= q]
=============================================================================

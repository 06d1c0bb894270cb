--------------------------- MODULE SlidingWindow ---------------------------
(***************************************************************************)
(* What the package comment of dedup/dedup.go promises: the set accepts    *)
(* keys into a window of Capacity of them, forgets the oldest beyond that, *)
(* and reports as a duplicate only a key of the window.  Unless keys       *)
(* expire, it accepts none that the window holds.                          *)
(***************************************************************************)
EXTENDS Naturals, Sequences, Functions

CONSTANTS Key, Capacity,
          Expires   \* whether a key may lapse before it leaves the window

VARIABLES window,   \* the keys remembered, oldest first
          reply     \* the last call: its key, and whether it was a duplicate
vars == <<window, reply>>

Init == window = <<>>

Suppress(k) == /\ k \in Range(window)
               /\ reply' = [key |-> k, dup |-> TRUE]
               /\ UNCHANGED window

Accept(k) == /\ Expires \/ k \notin Range(window)
             /\ window' = Append(IF Len(window) < Capacity THEN window
                                 ELSE Tail(window), k)
             /\ reply' = [key |-> k, dup |-> FALSE]

Next == \E k \in Key : Suppress(k) \/ Accept(k)

Spec == Init /\ [][Next]_vars
=============================================================================

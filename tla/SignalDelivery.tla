--------------------------- MODULE SignalDelivery ---------------------------
(***************************************************************************)
(* What queued signal delivery promises, whatever event loops are nested   *)
(* in whatever slots: every connection runs its slot once for every        *)
(* emission it was sent, in the order of the emissions, with the arguments *)
(* of that emission.  An emission is identified by its number, which also  *)
(* stands for its arguments.                                               *)
(***************************************************************************)
EXTENDS Naturals, Sequences

CONSTANTS ConnIds, MaxEmits

VARIABLES
    pending,   \* emissions sent to each connection and not run yet
    runs       \* emissions each connection's slot has been run for

vars == <<pending, runs>>

Init ==
    /\ pending = [c \in ConnIds |-> {}]
    /\ runs = [c \in ConnIds |-> <<>>]

\* Emission n goes to the connections in C, after every earlier one.
Post(C, n) ==
    /\ \A c \in ConnIds : \A m \in pending[c] : m < n
    /\ \A c \in ConnIds : \A i \in DOMAIN runs[c] : runs[c][i] < n
    /\ pending' = [c \in ConnIds |-> IF c \in C THEN pending[c] \cup {n} ELSE pending[c]]
    /\ UNCHANGED runs

\* The earliest emission that c has not been run for leaves.
Take(c, n) ==
    /\ n \in pending[c] /\ \A m \in pending[c] : n <= m
    /\ pending' = [pending EXCEPT ![c] = @ \ {n}]

Run(c) == \E n \in pending[c] : Take(c, n) /\ runs' = [runs EXCEPT ![c] = Append(@, n)]

\* The receiver of c is gone.
Discard(c) == \E n \in pending[c] : Take(c, n) /\ UNCHANGED runs

Next ==
    \/ \E C \in SUBSET ConnIds, n \in 1 .. MaxEmits : Post(C, n)
    \/ \E c \in ConnIds : Run(c) \/ Discard(c)

Spec == Init /\ [][Next]_vars
=============================================================================

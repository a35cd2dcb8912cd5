--------------------------- MODULE ObjectBinding ---------------------------
(***************************************************************************)
(* What the object layer promises a Ruby program, with no tables at all: a *)
(* Ruby object of a Qt class gets, once, a native object that was          *)
(* allocated for it and keeps that one, whatever happens to other objects, *)
(* until its VALUE slot is given back.  Native objects outlive their Ruby  *)
(* objects; only Qt destroys them.                                         *)
(***************************************************************************)
CONSTANTS Values, Addrs, NULL

VARIABLES
    bound,   \* the native object of each Ruby object
    live     \* native objects that exist

vars == <<bound, live>>

Init ==
    /\ bound = [r \in Values |-> NULL]
    /\ live = {}

\* A constructor allocates a native object for r.
Create(r, q) ==
    /\ bound[r] = NULL
    /\ q \notin live
    /\ bound' = [bound EXCEPT ![r] = q]
    /\ live' = live \cup {q}

\* A method returned a record: r is bound to its copy q; the object q0 that
\* making r constructed as well stays behind.
CreateRecord(r, q, q0) ==
    /\ bound[r] = NULL
    /\ {q, q0} \cap live = {}
    /\ bound' = [bound EXCEPT ![r] = q]
    /\ live' = live \cup {q, q0}

Release(r) ==
    /\ bound' = [bound EXCEPT ![r] = NULL]
    /\ UNCHANGED live

Destroy(q) ==
    /\ live' = live \ {q}
    /\ UNCHANGED bound

Next ==
    \/ \E r \in Values, q \in Addrs : Create(r, q)
    \/ \E r \in Values, q, q0 \in Addrs : CreateRecord(r, q, q0)
    \/ \E r \in Values : Release(r)
    \/ \E q \in Addrs : Destroy(q)

Spec == Init /\ [][Next]_vars
============================================================================

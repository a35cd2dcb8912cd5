------------------------------ MODULE JitCalls ------------------------------
(***************************************************************************)
(* What the call machinery promises: a call of a Qt function from Ruby     *)
(* runs that function, compiled once, with the arguments of that call.     *)
(* Calls nest, because a function can enter an event loop; a Ruby          *)
(* exception ends the calls above the Ruby code that rescues it.           *)
(***************************************************************************)
EXTENDS Naturals, Sequences

CONSTANTS Symbols, Args, MaxNest

VARIABLES
    running,   \* the calls running now, innermost last: what Ruby asked for,
               \* and what is executed
    compiled   \* the functions compiled so far

vars == <<running, compiled>>

Init ==
    /\ running = <<>>
    /\ compiled = {}

Invocation == [fn : Symbols, arg : Args]

Call(inv) ==
    /\ Len(running) < MaxNest
    /\ running' = Append(running, [asked |-> inv, runs |-> inv])
    /\ compiled' = compiled \cup {inv.fn}

Return ==
    /\ running # <<>>
    /\ running' = SubSeq(running, 1, Len(running) - 1)
    /\ UNCHANGED compiled

Raise(k) ==
    /\ k < Len(running)
    /\ running' = SubSeq(running, 1, k)
    /\ UNCHANGED compiled

Next ==
    \/ \E inv \in Invocation : Call(inv)
    \/ Return
    \/ \E k \in 0 .. MaxNest : Raise(k)

Spec == Init /\ [][Next]_vars
=============================================================================

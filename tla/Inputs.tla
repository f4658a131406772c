------------------------------- MODULE Inputs -------------------------------
(***************************************************************************)
(* The inputs of the algorithms that keep no state: each has a kind, which *)
(* says whose input it is, and grows symbol by symbol up to a bound, so    *)
(* that every input of up to that many symbols is met.                     *)
(***************************************************************************)
EXTENDS Integers, Sequences

CONSTANTS
    Most,           \* bound: how many symbols the inputs of each kind have
    Symbols(_, _)   \* the symbols that an input of a kind may have at a place

ASSUME InputsAssumption == \A kind \in DOMAIN Most : Most[kind] \in Nat

VARIABLE input

Of(kind) == input.kind = kind

IInit == input \in [kind : DOMAIN Most, data : {<<>>}]

Grow ==
    /\ Len(input.data) < Most[input.kind]
    /\ \E s \in Symbols(input.kind, Len(input.data) + 1) :
        input' = [input EXCEPT !.data = Append(@, s)]

\* At the bound, from the beginning.
StartOver ==
    /\ Len(input.data) = Most[input.kind]
    /\ input' = [input EXCEPT !.data = <<>>]

INext == Grow \/ StartOver

ISpec == IInit /\ [][INext]_input
=============================================================================

---------------------------- MODULE DurableStore ----------------------------
(***************************************************************************)
(* What a settings file promises: there is one current configuration and   *)
(* one durable one.  An edit changes one entry of the current one; a save  *)
(* makes the durable one equal to the current one, never to an older one;  *)
(* after a restart the durable one is the current one, or nothing is known *)
(* of it yet, and then nothing is saved either.                            *)
(***************************************************************************)
CONSTANTS Entries, Values, None

VARIABLES
    current, \* what the program works with
    durable, \* what a restart would find
    known    \* whether current stems from durable

Contents == [Entries -> Values]
Nothing == [e \in Entries |-> None]
Latest == IF known THEN current ELSE durable

Init == current = durable /\ durable \in Contents /\ known = TRUE

Edit ==
    /\ \E e \in Entries, v \in Values : current' = [Latest EXCEPT ![e] = v]
    /\ known' = TRUE
    /\ UNCHANGED durable

Save == known /\ durable' = current /\ UNCHANGED <<current, known>>

Reopen ==
    /\ \/ current' = durable /\ known' = TRUE
       \/ current' = Nothing /\ known' = FALSE
    /\ UNCHANGED durable

\* Somebody else destroys what is durable.
Destroy == durable' = Nothing /\ UNCHANGED <<current, known>>

Next == Edit \/ Save \/ Reopen \/ Destroy

Spec == Init /\ [][Next]_<<current, durable, known>>
=============================================================================

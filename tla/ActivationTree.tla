--------------------------- MODULE ActivationTree ---------------------------
(***************************************************************************)
(* What the activations of scopes promise one another, whatever threads    *)
(* and locks bring it about: an activation begins under an open one of the *)
(* scope it requires, starts closing only when everything begun under it   *)
(* is over, and is over once it has closed what it entered.  The one       *)
(* exception: an activation that was ended before its activate() returned  *)
(* deserts the one it was begun under, which no longer waits for the rest. *)
(***************************************************************************)
CONSTANTS Activations, None

VARIABLES
    state,    \* of each activation: "unborn", "open", "closing" or "over"
    parent,   \* the activation it was begun under, or None
    deserted  \* the activations that no longer wait for what was begun under them

\* Nothing begun under p is still open or closing.
Alone(p) == \A b \in Activations : parent[b] = p => state[b] \in {"unborn", "over"}

MayEnd(a) == Alone(a) \/ a \in deserted

Begin(a, p) ==
    /\ state[a] = "unborn"
    /\ p = None \/ state[p] = "open"
    /\ state' = [state EXCEPT ![a] = "open"]
    /\ parent' = [parent EXCEPT ![a] = p]
    /\ UNCHANGED deserted

StartClosing(a) ==
    /\ state[a] = "open" /\ MayEnd(a)
    /\ state' = [state EXCEPT ![a] = "closing"]
    /\ UNCHANGED <<parent, deserted>>

\* It has closed what it entered, or was given up before anyone saw it.
BeOver(a) ==
    /\ state[a] \in {"open", "closing"} /\ MayEnd(a)
    /\ state' = [state EXCEPT ![a] = "over"]
    /\ UNCHANGED <<parent, deserted>>

\* Something begun under p was ended before its activate() returned.
Desert(p) ==
    /\ \E b \in Activations : parent[b] = p /\ state[b] \in {"closing", "over"}
    /\ deserted' = deserted \cup {p}
    /\ UNCHANGED <<state, parent>>

Init ==
    /\ state = [a \in Activations |-> "unborn"]
    /\ parent = [a \in Activations |-> None]
    /\ deserted = {}

Next ==
    \E a \in Activations :
        \/ \E p \in Activations \cup {None} : Begin(a, p)
        \/ StartClosing(a) \/ BeOver(a) \/ Desert(a)

Spec == Init /\ [][Next]_<<state, parent, deserted>>
=============================================================================

----------------------------- MODULE EventCatalogue -----------------------------
(***************************************************************************)
(* What the event identity of collectors/event_identity.py promises: an    *)
(* incident is given an identifier the first time it is recorded, keeps it *)
(* for good, and shares it with no other incident.                         *)
(***************************************************************************)
CONSTANTS Incidents, None

VARIABLE idOf   \* the identifier of each incident, None before it is recorded

Init == idOf = [i \in Incidents |-> None]

Taken == {idOf[i] : i \in Incidents} \ {None}

\* The identifier has no type here: whatever it is, it is new.
Identify(i) ==
    /\ idOf[i] = None
    /\ idOf' = [idOf EXCEPT ![i] = idOf'[i]]
    /\ idOf'[i] \notin Taken \cup {None}

Next == \E i \in Incidents : Identify(i)

Spec == Init /\ [][Next]_idOf
=============================================================================

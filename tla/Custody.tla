-------------------------------- MODULE Custody --------------------------------
(***************************************************************************)
(* What the finalizer promises for one App, without caches, calls or       *)
(* failures: the operator takes objects into custody only under it, and    *)
(* lets the App go when it holds nothing any more but what is pardoned or  *)
(* kept on purpose.  From then on nothing comes into custody but late      *)
(* arrivals, which are pardoned.  AppLifecycle implements it.              *)
(***************************************************************************)
CONSTANTS
    Object,       \* what may come into custody
    Forgettable,  \* what an edit of the spec may make the operator forget
    Kept,         \* what the operator leaves behind on purpose
    Late          \* what may arrive after it was to be deleted

VARIABLES
    phase,        \* of the App
    owned,        \* the objects in custody
    pardoned      \* the objects that may be left behind

vars == <<phase, owned, pardoned>>

Init == phase = "new" /\ owned = {} /\ pardoned = {}

(* The finalizer is set; the user deletes the App. *)
Protect ==
    /\ phase = "new"
    /\ phase' = "live"
    /\ UNCHANGED <<owned, pardoned>>

Die ==
    /\ phase \in {"new", "live"}
    /\ phase' = IF phase = "new" THEN "gone" ELSE "terminating"
    /\ UNCHANGED <<owned, pardoned>>

(* An object is made, or deleted. *)
Take(o) ==
    /\ phase \in {"live", "terminating"}
    /\ owned' = owned \cup {o}
    /\ UNCHANGED <<phase, pardoned>>

Yield(o) ==
    /\ phase # "new"
    /\ owned' = owned \ {o}
    /\ UNCHANGED <<phase, pardoned>>

(* A late one arrives. *)
Arrive(o) ==
    /\ o \in Late
    /\ phase # "new"
    /\ owned' = owned \cup {o}
    /\ pardoned' = pardoned \cup {o}
    /\ UNCHANGED phase

(* An edit lists an object again, or makes the operator forget it.         *)
Respec ==
    /\ phase \in {"new", "live"}
    /\ pardoned' \subseteq pardoned \cup Forgettable
    /\ UNCHANGED <<phase, owned>>

(* The cleanup misses an object, or gives it up. *)
Miss(o) ==
    /\ phase \in {"terminating", "gone"}
    /\ o \in owned
    /\ pardoned' = pardoned \cup {o}
    /\ UNCHANGED <<phase, owned>>

(* The finalizer is removed. *)
LetGo ==
    /\ phase = "terminating"
    /\ owned \subseteq pardoned \cup Kept
    /\ phase' = "gone"
    /\ UNCHANGED <<owned, pardoned>>

Next == \/ Protect \/ Die \/ Respec \/ LetGo
        \/ \E o \in Object : Take(o) \/ Yield(o) \/ Arrive(o) \/ Miss(o)

Spec == Init /\ [][Next]_vars
=============================================================================

------------------------------ MODULE Delivery ------------------------------
(***************************************************************************)
(* What the operator promises for one App, without Jobs, caches or status: *)
(* an image is tagged with a commit the branch has pointed at and holds    *)
(* the source of such a commit, and the Deployment only ever runs an image *)
(* that is in the registry.  BuildController implements it.                *)
(***************************************************************************)
CONSTANTS
    Commit,     \* the commits of the repository
    None        \* no commit

VARIABLES
    published,  \* the commits the branch has pointed at
    images,     \* for each tag, the commit whose source the image holds
    serving     \* the tag the Deployment runs

vars == <<published, images, serving>>

Init ==
    /\ published \in SUBSET Commit
    /\ images = [c \in Commit |-> None]
    /\ serving = None

(* The branch moves to commit c. *)
Publish(c) ==
    /\ published' = published \cup {c}
    /\ UNCHANGED <<images, serving>>

(* An image tagged c and built from the source of commit s is pushed. *)
Ship(c, s) ==
    /\ {c, s} \subseteq published
    /\ images' = [images EXCEPT ![c] = s]
    /\ UNCHANGED <<published, serving>>

(* The Deployment is pointed at the image tagged c. *)
Serve(c) ==
    /\ images[c] # None
    /\ serving' = c
    /\ UNCHANGED <<published, images>>

Next == \E c \in Commit : \/ Publish(c)
                          \/ \E s \in Commit : Ship(c, s)
                          \/ Serve(c)

Spec == Init /\ [][Next]_vars
=============================================================================

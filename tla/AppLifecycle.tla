----------------------------- MODULE AppLifecycle -----------------------------
(***************************************************************************)
(* The life of one App or ContainerApp, from its finalizer to its removal: *)
(* the objects EnsureRuntime creates for it, those it removes when a part  *)
(* of the spec is disabled, and what the cleanup run under the finalizer   *)
(* deletes (reconciler.go, containerapp_reconciler.go, cleanup.go and the  *)
(* Ensure and cleanup functions they call).                                *)
(*                                                                         *)
(* One action is one API call with the local computation around it.  Only  *)
(* the existence and the owner of an object are kept; which image is       *)
(* deployed is the subject of BuildController.  One operator runs, and it  *)
(* handles one request of the App at a time.                               *)
(***************************************************************************)
EXTENDS Naturals, Sequences

CONSTANTS
    Kind,        \* "App" or "ContainerApp"
    Features,    \* the optional objects the spec of this instance may ask for
    Foreign,     \* objects of the same name that somebody else owns
    Unserved,    \* objects whose API is not there: no Gateway CRDs, say
    MaxEdits,    \* bound: edits of the spec
    MaxFaults,   \* bound: failed calls and operator restarts
    MaxLag       \* bound: versions a watch stream may hold

(***************************************************************************)
(* There are two ServiceAccounts the spec may ask for: "account" has the   *)
(* name of the App, "named" the one of spec.rbac.serviceAccountName.       *)
(* "image" stands for the images under the build.registry the spec names   *)
(* at the deletion; those elsewhere are never looked for.                  *)
(***************************************************************************)
Core == {"deployment", "service"}
Optional == {"ingress", "route", "account", "named", "role", "binding",
             "clusterrole", "clusterbinding", "claim", "hpa", "raw"}
BuildObjects == {"job", "image"}             \* an App's only
Object == Core \cup Optional \cup BuildObjects

ASSUME ConstantsAssumption ==
    /\ Kind \in {"App", "ContainerApp"}
    /\ Features \subseteq Optional
    /\ Foreign \subseteq {"account", "named", "role", "binding", "claim"}
    /\ Unserved \subseteq {"route", "raw"}
    /\ MaxEdits \in Nat /\ MaxFaults \in Nat /\ MaxLag \in Nat \ {0}

VARIABLES
    appLog,      \* versions of the App, from the cached one to the server's
    objLog,      \* the same for each object it may own
    pod,         \* the pod of the build Job
    rec,         \* the reconcile call in progress
    excused,     \* history: objects the App's removal may leave behind
    edits, faults                   \* counters for the bounds

vars == <<appLog, objLog, pod, rec, excused, edits, faults>>

-----------------------------------------------------------------------------
(***************************************************************************)
(* A version of the App: "new" has no finalizer yet, "terminating" has a   *)
(* deletionTimestamp and the finalizer, "gone" is no object at all.  want  *)
(* is what the spec asks for; roles come with their binding, and every     *)
(* binding with the ServiceAccount, which has one name (spec.rbac).        *)
(***************************************************************************)
Accounts == {"account", "named"}
Want == {w \in SUBSET Features :
            /\ "role" \in w => "binding" \in w
            /\ "clusterrole" \in w => "clusterbinding" \in w
            /\ w \cap {"binding", "clusterbinding"} # {} => w \cap Accounts # {}
            /\ ~ Accounts \subseteq w}
App == [phase : {"new", "live", "terminating", "gone"}, want : Want]

(* An object: none, made by the operator, a finished Job, someone else's. *)
Owner == {"absent", "ours", "done", "foreign"}

Server(o) == objLog[o][Len(objLog[o])]
Cached(o) == Head(objLog[o])
Ours(o) == Server(o) \in {"ours", "done"}
AppServer == appLog[Len(appLog)]

(***************************************************************************)
(* A step of cleanup: the object to delete; whether only a spec that lists *)
(* it leads there; whether its owner label is looked at (isOwnedByApp);    *)
(* and whether an error ends the cleanup or is only logged.                *)
(***************************************************************************)
CleanStep == [obj : Object, listed : BOOLEAN, owned : BOOLEAN, hard : BOOLEAN]
Always(o) == [obj |-> o, listed |-> FALSE, owned |-> FALSE, hard |-> TRUE]
IfListedStrictly(o) == [obj |-> o, listed |-> TRUE, owned |-> FALSE,
                        hard |-> TRUE]
IfListed(o) == [obj |-> o, listed |-> TRUE, owned |-> FALSE, hard |-> FALSE]
IfOwned(o) == [IfListed(o) EXCEPT !.owned = TRUE]
Strictly(s) == s                                     \* a slip
Logged(s) == [s EXCEPT !.hard = FALSE]

CleanRolesOnly ==                                    \* a slip: no bindings
    <<IfListed("clusterrole"), IfOwned("role"), IfOwned("account"),
      IfOwned("named")>>
CleanRBAC ==
    <<IfListed("clusterbinding"), IfListed("clusterrole"), IfListed("binding"),
      IfOwned("role"), IfOwned("account"), IfOwned("named")>>

CleanResources == <<IfListed("raw")>>
CleanRegistry == <<Logged(Always("image"))>>         \* deleteRegistryImage

CleanAppIfEnabled ==
    <<Always("deployment"), Always("service"), IfListed("ingress"),
      Logged(Always("route")), Always("hpa"), Logged(Always("job"))>>
    \o CleanResources \o CleanRBAC \o CleanRegistry
CleanApp ==                                          \* AppReconciler.cleanup
    <<Always("deployment"), Always("service"), Always("ingress"),
      Logged(Always("route")), Always("hpa"), Logged(Always("job"))>>
    \o CleanResources \o CleanRBAC \o CleanRegistry

CleanRuntime ==
    <<Always("deployment"), Always("service"), Always("ingress"),
      Logged(Always("route")), Always("hpa"),
      [Always("account") EXCEPT !.owned = TRUE], IfListed("claim")>>
CleanContainerApp ==                        \* ContainerAppReconciler.cleanup
    CleanRuntime \o CleanResources \o CleanRBAC

CleanSteps == IF Kind = "App" THEN CleanApp ELSE CleanContainerApp

(* The objects in the order of EnsureRuntime. *)
EnsureSteps == <<"deployment", "service", "ingress", "route", "account",
                 "named", "role", "binding", "clusterrole", "clusterbinding",
                 "claim", "hpa", "raw">>

(***************************************************************************)
(* The reconcile call: where it is, the copy of the App it works on,       *)
(* whether that copy is the server's version, and the steps still to do.   *)
(***************************************************************************)
Call == [at : {"idle", "add", "build", "ensure", "clean", "release"},
         app : App, fresh : BOOLEAN,
         todo : Seq(Object), sweep : Seq(CleanStep)]
NoApp == [phase |-> "gone", want |-> {}]
Idle == [at |-> "idle", app |-> NoApp, fresh |-> FALSE, todo |-> <<>>,
         sweep |-> <<>>]

TypeOK ==
    /\ appLog \in Seq(App) /\ appLog # <<>>
    /\ objLog \in [Object -> Seq(Owner)]
    /\ \A o \in Object : objLog[o] # <<>>
    /\ pod \in {"none", "running", "pushed"}
    /\ rec \in Call
    /\ excused \in SUBSET Object
    /\ edits \in Nat /\ faults \in Nat

Init ==
    /\ \E w \in Want : appLog = <<[phase |-> "new", want |-> w]>>
    /\ objLog = [o \in Object |->
                    <<IF o \in Foreign THEN "foreign" ELSE "absent">>]
    /\ pod = "none"
    /\ rec = Idle
    /\ excused = {}
    /\ edits = 0 /\ faults = 0

-----------------------------------------------------------------------------
(***************************************************************************)
(* Writes and watch streams.  Raw resources and the images in the registry *)
(* are never read from a cache.                                            *)
(***************************************************************************)
WriteApp(a) ==
    /\ Len(appLog) <= MaxLag
    /\ appLog' = Append(appLog, a)

WriteObject(o, owner) ==
    IF o \in {"raw", "image"}
    THEN objLog' = [objLog EXCEPT ![o] = <<owner>>]
    ELSE /\ Len(objLog[o]) <= MaxLag
         /\ objLog' = [objLog EXCEPT ![o] = Append(@, owner)]

DeliverApp ==
    /\ Len(appLog) > 1
    /\ appLog' = Tail(appLog)
    /\ UNCHANGED <<objLog, pod, rec, excused, edits, faults>>

DeliverObject(o) ==
    /\ Len(objLog[o]) > 1
    /\ objLog' = [objLog EXCEPT ![o] = Tail(@)]
    /\ UNCHANGED <<appLog, pod, rec, excused, edits, faults>>

-----------------------------------------------------------------------------
(***************************************************************************)
(* What cleanup looks for only if the spec asks for it at that time.  Of a *)
(* ContainerApp the ServiceAccount named like it is looked for in any case *)
(* (cleanup.go:66), one with a name of its own is not (serviceaccount.go:  *)
(* 181).                                                                   *)
(***************************************************************************)
Forgotten == {"named", "role", "binding", "clusterrole", "clusterbinding",
              "claim", "raw"} \cup IF Kind = "App" THEN {"account"} ELSE {}

(***************************************************************************)
(* The user.  A deleted App that has no finalizer is removed at once.      *)
(***************************************************************************)
Edit(w) ==
    /\ edits < MaxEdits
    /\ edits' = edits + 1
    /\ AppServer.phase \in {"new", "live"}
    /\ WriteApp([AppServer EXCEPT !.want = w])
    /\ rec' = [rec EXCEPT !.fresh = FALSE]
    /\ excused' = (excused \ w) \cup ((AppServer.want \ w) \cap Forgotten)
    /\ UNCHANGED <<objLog, pod, faults>>

Delete ==
    /\ AppServer.phase \in {"new", "live"}
    /\ WriteApp([AppServer EXCEPT !.phase = IF @ = "new" THEN "gone"
                                                         ELSE "terminating"])
    /\ rec' = [rec EXCEPT !.fresh = FALSE]
    /\ UNCHANGED <<objLog, pod, excused, edits, faults>>

(***************************************************************************)
(* The build.  The pod of a deleted Job is killed some time later and may  *)
(* still push, as may the pod of a Job that cleanup did not see.           *)
(***************************************************************************)
PodStart ==
    /\ pod = "none" /\ Server("job") = "ours"
    /\ pod' = "running"
    /\ UNCHANGED <<appLog, objLog, rec, excused, edits, faults>>

PodPush ==
    /\ pod = "running"
    /\ pod' = "pushed"
    /\ WriteObject("image", "ours")
    /\ excused' = excused \cup
          IF Server("job") = "absent" \/ "job" \in excused THEN {"image"} ELSE {}
    /\ UNCHANGED <<appLog, rec, edits, faults>>

JobComplete ==
    /\ pod = "pushed" /\ Server("job") = "ours"
    /\ pod' = "none"
    /\ WriteObject("job", "done")
    /\ UNCHANGED <<appLog, rec, excused, edits, faults>>

PodKilled ==
    /\ pod # "none" /\ Server("job") = "absent"
    /\ pod' = "none"
    /\ UNCHANGED <<appLog, objLog, rec, excused, edits, faults>>

-----------------------------------------------------------------------------
(***************************************************************************)
(* Reconcile: the Get of the App and the decision what to do.              *)
(***************************************************************************)
Go(r) == rec' = r

Begin(r) == IF Kind = "App" THEN [r EXCEPT !.at = "build"]
            ELSE [r EXCEPT !.at = "ensure", !.todo = EnsureSteps]

AnyPhase(phase) == TRUE
HasFinalizer(phase) == phase = "live"

Reconcile ==
    /\ rec.at = "idle"
    /\ Head(appLog).phase # "gone"
    /\ LET a == Head(appLog)
           r == [Idle EXCEPT !.app = a, !.fresh = Len(appLog) = 1]
       IN  Go(IF a.phase = "terminating"
              THEN [r EXCEPT !.at = "clean", !.sweep = CleanSteps]
              ELSE IF HasFinalizer(a.phase) THEN Begin(r)
              ELSE [r EXCEPT !.at = "add"])
    /\ UNCHANGED <<appLog, objLog, pod, excused, edits, faults>>

(* AddFinalizer and Update; a conflict ends the call with a requeue. *)
AddFinalizer ==
    /\ rec.at = "add"
    /\ LET held == [rec.app EXCEPT !.phase = "live"]
       IN  \/ /\ rec.fresh
              /\ WriteApp(held)
              /\ Go(Begin([rec EXCEPT !.app = held]))
           \/ /\ ~rec.fresh
              /\ Go(Idle)
              /\ UNCHANGED appLog
    /\ UNCHANGED <<objLog, pod, excused, edits, faults>>

(***************************************************************************)
(* EnsureBuild, as far as the App's objects go: nothing is deployed before *)
(* the build Job is seen to have succeeded.                                *)
(***************************************************************************)
EnsureBuild ==
    /\ rec.at = "build"
    /\ \/ /\ Cached("job") = "done"
          /\ Go([rec EXCEPT !.at = "ensure", !.todo = EnsureSteps])
          /\ UNCHANGED objLog
       \/ /\ Cached("job") = "absent" /\ Server("job") = "absent"
          /\ WriteObject("job", "ours")
          /\ Go(Idle)
       \/ /\ \/ Cached("job") = "ours"
             \/ Cached("job") = "absent" /\ Server("job") # "absent"
          /\ Go(Idle)
          /\ UNCHANGED objLog
    /\ UNCHANGED <<appLog, pod, excused, edits, faults>>

-----------------------------------------------------------------------------
(***************************************************************************)
(* EnsureRuntime.  An object that the spec asks for is created unless the  *)
(* cache has one, whoever made it; a raw resource is applied in any case.  *)
(* A disabled Ingress or HPA is deleted if the cache has one, a disabled   *)
(* HTTPRoute always; other objects are left where they are.                *)
(***************************************************************************)
Asked(o) == o \in Core \cup rec.app.want
Item == Head(rec.todo)
NextItem == IF Len(rec.todo) = 1 THEN Idle ELSE [rec EXCEPT !.todo = Tail(@)]

Applies(o) == o = "raw" /\ Asked(o)
CreatesMissing(o) == o # "raw" /\ Asked(o) /\ Cached(o) = "absent"
Creates(o) == Applies(o) \/ CreatesMissing(o)

RemovesAnyIngress(o) == o = "ingress" /\ Cached(o) # "absent"    \* a slip
RemovesIngress(o) == o = "ingress" /\ ~Asked(o) /\ Cached(o) # "absent"
RemovesHPA(o) == o = "hpa" /\ ~Asked(o) /\ Cached(o) # "absent"
RemovesRoute(o) == o = "route" /\ ~Asked(o)
RemovesIfCached(o) == RemovesIngress(o) \/ RemovesHPA(o)
Removes(o) == RemovesIngress(o) \/ RemovesHPA(o) \/ RemovesRoute(o)

Refused(o) ==          \* AlreadyExists, NotFound or an API that is not there
    \/ Asked(o) /\ o \in Unserved
    \/ CreatesMissing(o) /\ Server(o) # "absent"
    \/ (RemovesIngress(o) \/ RemovesHPA(o)) /\ Server(o) = "absent"

EnsureWrite ==
    /\ rec.at = "ensure"
    /\ ~Refused(Item)
    /\ Creates(Item) \/ Removes(Item)
    /\ \/ Creates(Item) /\ WriteObject(Item, "ours")
       \/ Removes(Item) /\ Server(Item) # "absent" /\ WriteObject(Item, "absent")
       \/ Removes(Item) /\ Server(Item) = "absent" /\ UNCHANGED objLog
    /\ Go(NextItem)
    /\ UNCHANGED <<appLog, pod, excused, edits, faults>>

EnsureNothing ==
    /\ rec.at = "ensure"
    /\ ~Refused(Item)
    /\ ~Creates(Item) /\ ~Removes(Item)
    /\ Go(NextItem)
    /\ UNCHANGED <<appLog, objLog, pod, excused, edits, faults>>

EnsureRefused ==
    /\ rec.at = "ensure"
    /\ Refused(Item)
    /\ Go(Idle)
    /\ UNCHANGED <<appLog, objLog, pod, excused, edits, faults>>

(* A failed call ends EnsureRuntime, but for the removal of an HTTPRoute.  *)
EnsureFail ==
    /\ rec.at = "ensure"
    /\ Asked(Item) \/ Removes(Item)
    /\ faults < MaxFaults
    /\ faults' = faults + 1
    /\ Go(IF Item = "route" /\ Removes(Item) THEN NextItem ELSE Idle)
    /\ UNCHANGED <<appLog, objLog, pod, excused, edits>>

-----------------------------------------------------------------------------
(***************************************************************************)
(* The cleanup.  HTTPRoutes, raw resources and images are deleted without  *)
(* looking; the others are read from the cache first, and a step whose     *)
(* object is not there, not owned or not listed does nothing.              *)
(***************************************************************************)
AnyLabel(owner) == owner # "absent"
OwnedByApp(owner) == owner = "ours"

Blind == {"route", "raw", "image"}
Listed(s) == s.listed => s.obj \in rec.app.want
Selected(s) ==
    /\ Listed(s)
    /\ s.owned => OwnedByApp(Cached(s.obj))
    /\ s.obj \in Blind \/ Cached(s.obj) # "absent"

Step == Head(rec.sweep)
NextStep == [rec EXCEPT !.sweep = Tail(@),
                        !.at = IF Len(rec.sweep) = 1 THEN "release" ELSE @]
Left(o) == IF Ours(o) THEN {o} ELSE {}

CleanDelete ==
    /\ rec.at = "clean"
    /\ Selected(Step)
    /\ Step.obj \notin Unserved
    /\ IF Server(Step.obj) # "absent" THEN WriteObject(Step.obj, "absent")
       ELSE UNCHANGED objLog
    /\ Go(NextStep)
    /\ UNCHANGED <<appLog, pod, excused, edits, faults>>

CleanSkip ==
    /\ rec.at = "clean"
    /\ ~Selected(Step)
    /\ Go(NextStep)
    /\ excused' = excused \cup
          IF Cached(Step.obj) = "absent" THEN Left(Step.obj) ELSE {}
    /\ UNCHANGED <<appLog, objLog, pod, edits, faults>>

(* A read that fails is taken for an object that is not there.             *)
CleanUnread ==
    /\ rec.at = "clean"
    /\ Listed(Step) /\ Step.obj \notin Blind
    /\ faults < MaxFaults
    /\ faults' = faults + 1
    /\ Go(NextStep)
    /\ excused' = excused \cup Left(Step.obj)
    /\ UNCHANGED <<appLog, objLog, pod, edits>>

(* An error of the API: the cleanup starts again, or it logs and goes on. *)
CleanFail ==
    /\ rec.at = "clean"
    /\ Selected(Step)
    /\ \/ Step.obj \in Unserved /\ UNCHANGED faults
       \/ faults < MaxFaults /\ faults' = faults + 1
    /\ Go(IF Step.hard THEN Idle ELSE NextStep)
    /\ excused' = excused \cup IF Step.hard THEN {} ELSE Left(Step.obj)
    /\ UNCHANGED <<appLog, objLog, pod, edits>>

(* RemoveFinalizer and Update: the App is gone, or a conflict. *)
Release ==
    /\ rec.at = "release"
    /\ \/ rec.fresh /\ WriteApp([rec.app EXCEPT !.phase = "gone"])
       \/ ~rec.fresh /\ UNCHANGED appLog
    /\ Go(Idle)
    /\ UNCHANGED <<objLog, pod, excused, edits, faults>>

-----------------------------------------------------------------------------
Fail ==
    /\ rec.at \in {"add", "build", "release"}
    /\ faults < MaxFaults
    /\ faults' = faults + 1
    /\ Go(Idle)
    /\ UNCHANGED <<appLog, objLog, pod, excused, edits>>

(* A restarted operator has no call in progress and fills its caches. *)
Crash ==
    /\ faults < MaxFaults
    /\ faults' = faults + 1
    /\ Go(Idle)
    /\ appLog' = <<AppServer>>
    /\ objLog' = [o \in Object |-> <<Server(o)>>]
    /\ UNCHANGED <<pod, excused, edits>>

Deliver == DeliverApp \/ \E o \in Object : DeliverObject(o)
Ensure == EnsureWrite \/ EnsureNothing \/ EnsureRefused
Clean == CleanDelete \/ CleanSkip \/ CleanUnread \/ CleanFail
Operate == \/ Reconcile \/ AddFinalizer \/ EnsureBuild
           \/ Ensure \/ Clean \/ Release
Pod == PodStart \/ PodPush \/ JobComplete \/ PodKilled
User == Delete \/ \E w \in Want : Edit(w)

Next == Deliver \/ Operate \/ Pod \/ User \/ EnsureFail \/ Fail \/ Crash

Spec == Init /\ [][Next]_vars

(***************************************************************************)
(* Reconcile is called again after an error, a poll interval, an event or  *)
(* the resync of the manager; watch streams and pods make progress; users  *)
(* promise nothing.                                                        *)
(***************************************************************************)
Fairness == /\ WF_vars(Operate) /\ WF_vars(Pod) /\ WF_vars(DeliverApp)
            /\ \A o \in Object : WF_vars(DeliverObject(o))
FairSpec == Spec /\ Fairness

-----------------------------------------------------------------------------
(***************************************************************************)
(* The invariant of the finalizer: which version of the App may follow     *)
(* which in the log, and what a call, however old the copy it works on,    *)
(* may rely on.  In particular a cached App that is alive still has its    *)
(* finalizer on the server, and cleanup knows it for dead.                 *)
(***************************************************************************)
Follows(phase) == CASE phase = "new" -> {"new", "live", "terminating", "gone"}
                    [] phase = "live" -> {"live", "terminating"}
                    [] phase = "terminating" -> {"terminating", "gone"}
                    [] phase = "gone" -> {"gone"}

PhaseOrder == \A i, j \in 1 .. Len(appLog) :
                 i < j => appLog[j].phase \in Follows(appLog[i].phase)

CallInv ==
    /\ rec.fresh => rec.app = AppServer
    /\ rec.at = "add" => rec.app.phase = "new"
    /\ rec.at \in {"build", "ensure"} => AppServer.phase \in {"live", "terminating"}
    /\ rec.at \in {"clean", "release"} =>
          rec.app.phase = "terminating" /\ Head(appLog).phase \in {"terminating", "gone"}
    /\ rec.at = "ensure" => rec.todo # <<>>
    /\ rec.at = "clean" => rec.sweep # <<>>

(* Somebody else's ServiceAccount or Role is the only one there ever is,   *)
(* and the steps of a cleanup that could delete it, and only they, look at *)
(* its label.                                                              *)
Labelled == Accounts \cup {"role"}
Guarded == {s \in CleanStep : s.owned <=> s.obj \in Labelled}
OwnerInv ==
    /\ rec.sweep \in Seq(Guarded)
    /\ \A o \in Foreign \cap Labelled : objLog[o] \in Seq({"foreign"})

LifecycleInv == TypeOK /\ PhaseOrder /\ CallInv /\ OwnerInv

(* The operator makes an object only while its finalizer is on the App:    *)
(* nothing is created for an App that cleanup will not visit, nor after it *)
(* has, although each call works on an old copy of the App.                *)
CreatesUnderFinalizer ==
    [][\A o \in Object \ {"image"} :
          Server(o) = "absent" /\ Server(o)' # "absent" =>
             AppServer.phase \in {"live", "terminating"}]_vars

(* Once the App is gone, whatever it still owns has one of these excuses:  *)
(* the cache did not have it when cleanup looked, or the read failed       *)
(* (cleanup.go:25, reconciler.go:125), an error of its deletion was only   *)
(* logged or dropped (reconciler.go:149, 169, 175-183, serviceaccount.go:  *)
(* 193, registry_cleanup.go:53), it had been edited out of the spec, a     *)
(* ServiceAccount with a name of its own included (serviceaccount.go:181), *)
(* a pod outlived its Job - or it is a claim of an App.                    *)
LeftoversExcused ==
    AppServer.phase = "gone" =>
        \A o \in Object : Ours(o) => \/ o \in excused
                                     \/ Kind = "App" /\ o = "claim"

(* The operator keeps the custody of what it makes as Custody says: all    *)
(* stale copies, repeated calls, failures and late pods map to its steps.  *)
CustodyOfApp == INSTANCE Custody
    WITH Forgettable <- Forgotten,
         Kept <- IF Kind = "App" THEN {"claim"} ELSE {},
         Late <- {"image"},
         phase <- AppServer.phase,
         owned <- {o \in Object : Ours(o)},
         pardoned <- excused
KeepsCustody == CustodyOfApp!Spec

(* A ServiceAccount or Role of somebody else survives an App that names    *)
(* it, from creation to cleanup (isOwnedByApp, cleanup.go:110).            *)
ForeignKept == \A o \in Foreign \cap Labelled : Server(o) = "foreign"

(* A deleted App goes away, whatever cleanup cannot delete.                *)
DeletionCompletes == AppServer.phase = "terminating" ~> AppServer.phase = "gone"

(* While the App lives, every object its spec asks for comes to exist and  *)
(* what was disabled disappears, "switching between ingress and gateway    *)
(* cleans up the other" (runtime.go:168), for every history of edits.      *)
AsAsked(o) ==
    /\ o \in Core \cup AppServer.want => Server(o) # "absent"
    /\ o \in {"ingress", "route", "hpa"} \ AppServer.want =>
          Server(o) = "absent"
Settled ==
    AppServer.phase = "live" => \A o \in Object \ Unserved : AsAsked(o)
Converges == <>[]Settled

(* Nothing of a living App is lost again.  Once every copy of it that is   *)
(* on its way says what the spec says now, no call makes or removes an     *)
(* object against the spec: not one that works on an old copy of the       *)
(* object, not one after a failure or a restart, and no cleanup starts     *)
(* (reconciler.go:53, ingress.go:18).                                      *)
Informed ==
    /\ \A i \in 1 .. Len(appLog) : appLog[i] = AppServer
    /\ rec.at \in {"build", "ensure"} => rec.app.want = AppServer.want
StaysSettled ==
    [][Informed /\ AppServer.phase = "live" /\ AppServer' = AppServer
          => /\ Informed'
             /\ \A o \in Object : AsAsked(o) => AsAsked(o)']_vars

-----------------------------------------------------------------------------
(* "PVCs created by EnsureVolumes - only delete ones we created"           *)
(* (cleanup.go:75).                                                        *)
ForeignClaimKept == "claim" \in Foreign => Server("claim") = "foreign"

(* "cleanupRuntime deletes all resources created by the operator for this  *)
(* app.  Used by both App and ContainerApp reconcilers" (cleanup.go:18):   *)
(* a claim that EnsureVolumes created goes with the App.                   *)
ClaimDeleted == AppServer.phase = "gone" => ~Ours("claim") \/ "claim" \in excused
=============================================================================

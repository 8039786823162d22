------------------------------ MODULE RuntimeSync ------------------------------
(***************************************************************************)
(* What EnsureRuntime keeps in step with a spec that changes: the fields   *)
(* of the objects of one living App or ContainerApp (runtime.go, upsert.go *)
(* and the Ensure functions), and what the reconcilers do after it: an App *)
(* sweeps finished Jobs, a ContainerApp reports in its status.             *)
(*                                                                         *)
(* One action is one API call with the comparison before it.  Objects are  *)
(* read from informer caches; an update carries the resourceVersion of the *)
(* cached copy and is refused when the server has another one.  The image  *)
(* is part of the spec: that of a ContainerApp is, and to an App a build   *)
(* that is done (BuildController) is like an edit.  Deletion of the App is *)
(* the subject of AppLifecycle.                                            *)
(***************************************************************************)
EXTENDS Naturals, Sequences, FiniteSets

CONSTANTS
    Kinds,       \* which kinds this instance has: "App", "ContainerApp"
    Atom,        \* what the fields of a spec are made of
    Specs,       \* the specs a user may ask for
    Orders,      \* the objects an instance has, in the order they are ensured
    Absent,      \* the version of an object that is not there
    MaxEdits,    \* bound: edits of the spec
    MaxMeddling, \* bound: changes others make to the objects
    MaxFaults,   \* bound: failed calls and operator restarts
    MaxLag       \* bound: changes a watch stream may hold, before one more
                 \* to an object by the operator

Object == {"deployment", "service", "ingress", "route", "role", "binding",
           "hpa"}

(***************************************************************************)
(* The fields of a spec.  A value is a set of atoms, {} when the user says *)
(* nothing; that disables an Ingress, HTTPRoute, HPA or spec.rbac.  An     *)
(* environment is the names with a value, one for each name here, and the  *)
(* names with an empty value.  extras, affinity and class stand for the    *)
(* fields that no comparison looks at: pull secrets, service links,        *)
(* sources of volumes; IPs, labels, the inner ports of a list of more than *)
(* 20; class, path types, TLS name.                                        *)
(***************************************************************************)
SpecField == {"image", "replicas", "port", "vars", "blanks", "probe",
              "account", "volumes", "extras", "notes", "affinity", "ingress",
              "class", "route", "rules", "hpa", "job"}
Value == SUBSET Atom

VARIABLES
    kind,        \* which of the two reconcilers this is about
    order,       \* the objects of this instance
    appLog,      \* versions of the App, from the cached one to the server's
    objLog,      \* the same for each object
    jobLog,      \* the same for a Job among spec.resources
    rec,         \* the reconcile call in progress
    asked,       \* history: the specs the App has had, by generation
    made,        \* history: the generation each object was last written for
    tampered,    \* history: objects others changed since
    edits, meddling, faults         \* counters for the bounds

setup == <<kind, order>>
history == <<asked, made, tampered>>
bounds == <<edits, meddling, faults>>
vars == <<setup, appLog, objLog, jobLog, rec, history, bounds>>

-----------------------------------------------------------------------------
(***************************************************************************)
(* What an object should look like, and when it is asked for at all.       *)
(***************************************************************************)
DeploymentFields == {"image", "replicas", "port", "vars", "blanks", "probe",
                     "account", "volumes", "extras"}
ServiceFields == {"port", "notes", "affinity"}
IngressFields == {"ingress", "port", "class"}
RouteFields == {"route", "port"}
RoleFields == {"rules"}
BindingFields == {"account"}
HPAFields == {"hpa"}

Fields(o) ==
    CASE o = "deployment" -> DeploymentFields
      [] o = "service"    -> ServiceFields
      [] o = "ingress"    -> IngressFields
      [] o = "route"      -> RouteFields
      [] o = "role"       -> RoleFields
      [] o = "binding"    -> BindingFields
      [] o = "hpa"        -> HPAFields

Desired(o, s) == [f \in Fields(o) |-> s[f]]

Asked(o, s) ==
    CASE o \in {"deployment", "service"} -> TRUE
      [] o \in {"role", "binding"}       -> s["account"] # {}
      [] o \in {"ingress", "route", "hpa", "job"} -> s[o] # {}

(***************************************************************************)
(* A version of an object: its fields, and whether others have put an      *)
(* annotation on it.                                                       *)
(***************************************************************************)
Version == [fields : UNION {[Fields(o) -> Value] : o \in Object},
            labelled : BOOLEAN]
Fresh(o, s) == [fields |-> Desired(o, s), labelled |-> FALSE]

ASSUME ConstantsAssumption ==
    /\ Kinds \subseteq {"App", "ContainerApp"} /\ Kinds # {}
    /\ Specs \subseteq [SpecField -> Value] /\ Specs # {}
    /\ Orders \subseteq Seq(Object \cup {"job"}) \ {<<>>}
    /\ Absent \notin Version
    /\ MaxEdits \in Nat /\ MaxMeddling \in Nat
    /\ MaxFaults \in Nat /\ MaxLag \in Nat \ {0}

(***************************************************************************)
(* The comparisons.  e is what the cache shows, d what is desired.         *)
(***************************************************************************)
(* A name that is missing reads as the empty string. *)
EnvEqual(e, d) ==
    /\ Cardinality(e["vars"] \cup e["blanks"])
          = Cardinality(d["vars"] \cup d["blanks"])
    /\ d["vars"] \subseteq e["vars"]
    /\ d["blanks"] \cap e["vars"] = {}

ProbeEqual(e, d) == e["probe"] = d["probe"]
DesiredVolumesPresent(e, d) == d["volumes"] \subseteq e["volumes"]

ImageOrReplicasChanged(e, d) == e["image"] # d["image"]
                                \/ e["replicas"] # d["replicas"]
PodTemplateChanged(e, d) ==
    \/ e["image"] # d["image"]
    \/ ~EnvEqual(e, d)
    \/ e["port"] # d["port"]
    \/ ~ProbeEqual(e, d)
    \/ ~DesiredVolumesPresent(e, d)
    \/ d["account"] # {} /\ e["account"] # d["account"]

ServiceEqual(e, d) == e["port"] = d["port"] /\ d["notes"] \subseteq e["notes"]
IngressSpecEqual(e, d) == e["ingress"] = d["ingress"]
HTTPRouteSpecEqual(e, d) == FALSE    \* the namespaces are compared as pointers
RulesEqual(e, d) == e["rules"] = d["rules"]
HPASpecEqual(e, d) == e["hpa"] = d["hpa"]

Differs(o, e, d) ==
    CASE o = "deployment" -> \/ ImageOrReplicasChanged(e, d)
                             \/ PodTemplateChanged(e, d)
      [] o = "service"    -> ~ServiceEqual(e, d)
      [] o = "ingress"    -> ~IngressSpecEqual(e, d)
      [] o = "route"      -> ~HTTPRouteSpecEqual(e, d)
      [] o = "role"       -> ~RulesEqual(e, d)
      [] o = "hpa"        -> ~HPASpecEqual(e, d)
      [] o = "binding"    -> FALSE      \* a binding is never updated

(***************************************************************************)
(* What an update sends.  A Deployment or Role is the cached copy with the *)
(* spec replaced; the others are built anew, without others' annotations.  *)
(***************************************************************************)
InPlace == {"deployment", "role"}
Updated(o, existing, s) ==
    [fields |-> Desired(o, s),
     labelled |-> o \in InPlace /\ existing.labelled]

-----------------------------------------------------------------------------
Phase == {"", "Ready", "Failed"}          \* status.phase of a ContainerApp
App == [spec : Specs, generation : Nat, phase : Phase]
JobStage == {"absent", "running", "done"}

Call == [at : {"idle", "ensure", "sweep", "report"}, app : App,
         fresh : BOOLEAN, todo : Seq(Object \cup {"job"}), outcome : Phase]
Idle == [at |-> "idle", app |-> Head(appLog), fresh |-> FALSE, todo |-> <<>>,
         outcome |-> ""]

Server(o) == objLog[o][Len(objLog[o])]
Cached(o) == Head(objLog[o])
AppServer == appLog[Len(appLog)]
JobServer == jobLog[Len(jobLog)]

TypeOK ==
    /\ kind \in Kinds /\ order \in Orders
    /\ appLog \in Seq(App) /\ appLog # <<>>
    /\ objLog \in [Object -> Seq(Version \cup {Absent})]
    /\ \A o \in Object : objLog[o] # <<>>
    /\ jobLog \in Seq(JobStage) /\ jobLog # <<>>
    /\ rec \in Call
    /\ asked \in Seq(Specs)
    /\ made \in [Object -> Nat]
    /\ tampered \in SUBSET Object
    /\ edits \in Nat /\ meddling \in Nat /\ faults \in Nat

Init ==
    /\ kind \in Kinds /\ order \in Orders
    /\ \E s \in Specs :
          /\ appLog = <<[spec |-> s, generation |-> 1, phase |-> ""]>>
          /\ asked = <<s>>
    /\ made = [o \in Object |-> 0]
    /\ objLog = [o \in Object |-> <<Absent>>]
    /\ jobLog = <<"absent">>
    /\ rec = Idle
    /\ tampered = {}
    /\ edits = 0 /\ meddling = 0 /\ faults = 0

-----------------------------------------------------------------------------
(***************************************************************************)
(* Writes, which wait for room in the watch stream, and the streams.       *)
(***************************************************************************)
WriteApp(a) ==
    /\ Len(appLog) <= MaxLag
    /\ appLog' = Append(appLog, a)

(* A write that changes nothing makes no version. *)
WriteObject(o, version) ==
    \/ version = Server(o) /\ UNCHANGED objLog
    \/ /\ version # Server(o)
       /\ Len(objLog[o]) <= MaxLag + 1
       /\ objLog' = [objLog EXCEPT ![o] = Append(@, version)]

WriteJob(stage) ==
    /\ Len(jobLog) <= MaxLag
    /\ jobLog' = Append(jobLog, stage)

DeliverApp ==
    /\ Len(appLog) > 1
    /\ appLog' = Tail(appLog)
    /\ UNCHANGED <<setup, objLog, jobLog, rec, history, bounds>>

DeliverObject(o) ==
    /\ Len(objLog[o]) > 1
    /\ objLog' = [objLog EXCEPT ![o] = Tail(@)]
    /\ UNCHANGED <<setup, appLog, jobLog, rec, history, bounds>>

DeliverJob ==
    /\ Len(jobLog) > 1
    /\ jobLog' = Tail(jobLog)
    /\ UNCHANGED <<setup, appLog, objLog, rec, history, bounds>>

-----------------------------------------------------------------------------
(***************************************************************************)
(* The user edits the spec.  Others - kubectl, an HPA that scales, the     *)
(* cleanup of a namesake, controllers that label or write a status -       *)
(* change objects behind the operator's back.                              *)
(***************************************************************************)
Edit(s) ==
    /\ edits < MaxEdits
    /\ edits' = edits + 1
    /\ s # AppServer.spec
    /\ WriteApp([spec |-> s, generation |-> AppServer.generation + 1,
                 phase |-> AppServer.phase])
    /\ rec' = [rec EXCEPT !.fresh = FALSE]
    /\ asked' = Append(asked, s)
    /\ UNCHANGED <<setup, objLog, jobLog, made, tampered, meddling, faults>>

Meddle(o, version) ==
    /\ meddling < MaxMeddling
    /\ meddling' = meddling + 1
    /\ Server(o) # Absent
    /\ Len(objLog[o]) <= MaxLag
    /\ objLog' = [objLog EXCEPT ![o] = Append(@, version)]
    /\ UNCHANGED <<setup, appLog, jobLog, rec, asked, made, edits, faults>>

Drift(o) ==
    /\ \E f \in Fields(o), s \in Specs :
          /\ Server(o) # Absent /\ Server(o).fields[f] # s[f]
          /\ Meddle(o, [Server(o) EXCEPT !.fields[f] = s[f]])
    /\ tampered' = tampered \cup {o}

Vanish(o) ==
    /\ Meddle(o, Absent)
    /\ tampered' = tampered \ {o}

Label(o) ==            \* or a new resourceVersion without any change
    /\ \E l \in BOOLEAN : Meddle(o, [Server(o) EXCEPT !.labelled = @ \/ l])
    /\ UNCHANGED tampered

JobRun ==
    /\ JobServer = "running"
    /\ WriteJob("done")
    /\ UNCHANGED <<setup, appLog, objLog, rec, history, bounds>>

-----------------------------------------------------------------------------
(***************************************************************************)
(* The reconciler: the Get of the App, then one object after the other.    *)
(***************************************************************************)
Go(r) == rec' = r

StartCall(app, fresh) ==
    /\ rec.at = "idle"
    /\ Go([Idle EXCEPT !.at = "ensure", !.app = app, !.fresh = fresh,
                       !.todo = order])
    /\ UNCHANGED <<setup, appLog, objLog, jobLog, history, bounds>>

(* Two plausible mistakes, to compare with. *)
ReconcileAnyCopy ==          \* a read that may be older than the last one
    \E i \in DOMAIN appLog : StartCall(appLog[i], Len(appLog) = 1)
ReconcileUnlessFailed ==     \* an error that is not handed back
    IF Head(appLog).phase = "Failed" THEN UNCHANGED vars
    ELSE StartCall(Head(appLog), Len(appLog) = 1)

Reconcile == StartCall(Head(appLog), Len(appLog) = 1)

Item == Head(rec.todo)
Finished == IF kind = "App" THEN [rec EXCEPT !.at = "sweep", !.todo = <<>>]
            ELSE [rec EXCEPT !.at = "report", !.todo = <<>>,
                             !.outcome = "Ready"]
NextItem == IF Len(rec.todo) = 1 THEN Finished
            ELSE [rec EXCEPT !.todo = Tail(@)]
(* An error of EnsureRuntime: a ContainerApp reports it first. *)
Abort == IF kind = "App" THEN [rec EXCEPT !.at = "idle", !.todo = <<>>]
         ELSE [rec EXCEPT !.at = "report", !.todo = <<>>, !.outcome = "Failed"]

Wanted(o) == Asked(o, rec.app.spec)
Missing(o) == Wanted(o) /\ Cached(o) = Absent
Changed(o) ==
    /\ Wanted(o)
    /\ Cached(o) # Absent
    /\ Differs(o, Cached(o).fields, Desired(o, rec.app.spec))
DisabledRoute(o) == o = "route" /\ ~Wanted(o)        \* never looked up
DisabledAnyway(o) == \/ o \in {"ingress", "hpa"} /\ Cached(o) # Absent
                     \/ DisabledRoute(o)
Disabled(o) == \/ o \in {"ingress", "hpa"} /\ ~Wanted(o) /\ Cached(o) # Absent
               \/ DisabledRoute(o)

AnyVersion(o) == TRUE
Current(o) == Len(objLog[o]) = 1        \* the cached copy is the server's
(* AlreadyExists, Conflict or NotFound. *)
Refused(o) == \/ Missing(o) /\ Server(o) # Absent
              \/ Changed(o) /\ (~Current(o) \/ Server(o) = Absent)
              \/ Disabled(o) /\ o # "route" /\ Server(o) = Absent

EnsureObject ==
    /\ rec.at = "ensure" /\ Item # "job"
    /\ Missing(Item) \/ Changed(Item) \/ Disabled(Item)
    /\ ~Refused(Item)
    /\ \/ Missing(Item) /\ WriteObject(Item, Fresh(Item, rec.app.spec))
       \/ Changed(Item)
          /\ WriteObject(Item, Updated(Item, Cached(Item), rec.app.spec))
       \/ Disabled(Item) /\ WriteObject(Item, Absent)
    /\ tampered' = tampered \ {Item}
    /\ made' = [made EXCEPT ![Item] = rec.app.generation]
    /\ Go(NextItem)
    /\ UNCHANGED <<setup, appLog, jobLog, asked, bounds>>

EnsureUnchanged ==
    /\ rec.at = "ensure" /\ Item # "job"
    /\ ~Missing(Item) /\ ~Changed(Item) /\ ~Disabled(Item)
    /\ Go(NextItem)
    /\ UNCHANGED <<setup, appLog, objLog, jobLog, history, bounds>>

EnsureRefused ==
    /\ rec.at = "ensure" /\ Item # "job"
    /\ Refused(Item)
    /\ Go(Abort)
    /\ UNCHANGED <<setup, appLog, objLog, jobLog, history, bounds>>

(* A failed call; that of the removal of an HTTPRoute is only logged. *)
EnsureFail ==
    /\ rec.at = "ensure"
    /\ faults < MaxFaults
    /\ faults' = faults + 1
    /\ Go(IF Item = "route" /\ ~Wanted(Item) THEN NextItem ELSE Abort)
    /\ UNCHANGED <<setup, appLog, objLog, jobLog, history, edits, meddling>>

(* EnsureResources: a server-side apply, which never looks at a cache.     *)
ApplyJob ==
    /\ rec.at = "ensure" /\ Item = "job"
    /\ IF Wanted("job") /\ JobServer = "absent" THEN WriteJob("running")
       ELSE UNCHANGED jobLog
    /\ Go(NextItem)
    /\ UNCHANGED <<setup, appLog, objLog, history, bounds>>

(***************************************************************************)
(* cleanupOldJobs of an App: every finished Job with the App's label but   *)
(* that of the present commit; EnsureResources puts the label on its own.  *)
(***************************************************************************)
SweepJob ==
    /\ rec.at = "sweep"
    /\ IF Head(jobLog) = "done" /\ JobServer # "absent" THEN WriteJob("absent")
       ELSE UNCHANGED jobLog
    /\ Go([rec EXCEPT !.at = "idle"])
    /\ UNCHANGED <<setup, appLog, objLog, history, bounds>>

(***************************************************************************)
(* The status write of a ContainerApp: accepted, without effect (the same  *)
(* phase within the same second), refused, or lost.                        *)
(***************************************************************************)
AnyStatus == TRUE
Accepted == rec.fresh        \* no other write of the App since the Get

Report ==
    /\ rec.at = "report"
    /\ \/ Accepted /\ WriteApp([AppServer EXCEPT !.phase = rec.outcome])
          /\ UNCHANGED faults
       \/ Accepted /\ AppServer.phase = rec.outcome
          /\ UNCHANGED <<appLog, faults>>
       \/ ~Accepted /\ UNCHANGED <<appLog, faults>>
       \/ faults < MaxFaults /\ faults' = faults + 1 /\ UNCHANGED appLog
    /\ Go([rec EXCEPT !.at = "idle", !.fresh = FALSE, !.outcome = ""])
    /\ UNCHANGED <<setup, objLog, jobLog, history, edits, meddling>>

(* A restarted operator has no call in progress and fills its caches. *)
Crash ==
    /\ faults < MaxFaults
    /\ faults' = faults + 1
    /\ Go([rec EXCEPT !.at = "idle", !.todo = <<>>])
    /\ appLog' = <<AppServer>>
    /\ objLog' = [o \in Object |-> <<Server(o)>>]
    /\ jobLog' = <<JobServer>>
    /\ UNCHANGED <<setup, history, edits, meddling>>

Deliver == DeliverApp \/ DeliverJob \/ \E o \in Object : DeliverObject(o)
Operate == \/ Reconcile \/ EnsureObject \/ EnsureUnchanged \/ EnsureRefused
           \/ ApplyJob \/ SweepJob \/ Report
Others == \E o \in Object : Drift(o) \/ Vanish(o) \/ Label(o)
User == \E s \in Specs : Edit(s)

Next == \/ Deliver \/ Operate \/ EnsureFail \/ Crash \/ JobRun
        \/ Others \/ User

Spec == Init /\ [][Next]_vars

(***************************************************************************)
(* An App is polled, a failed call is queued again, and a ContainerApp is  *)
(* woken by the status it writes, by any event and by the periodic resync  *)
(* of its informer; watch streams deliver and Jobs end.                    *)
(***************************************************************************)
FairSpec ==
    /\ Spec
    /\ WF_vars(Operate) /\ WF_vars(JobRun)
    /\ WF_vars(DeliverApp) /\ WF_vars(DeliverJob)
    /\ \A o \in Object : WF_vars(DeliverObject(o))

-----------------------------------------------------------------------------
(***************************************************************************)
(* The inductive invariant: its parts, by what they are about.             *)
(***************************************************************************)
(* Every version of the App that is on its way, and the one a call works   *)
(* on, is a generation the user asked for, and they come in order.         *)
IsVersion(a) == a.generation \in DOMAIN asked /\ a.spec = asked[a.generation]
VersionsInOrder ==
    /\ \A i \in DOMAIN appLog : IsVersion(appLog[i])
    /\ \A i, j \in DOMAIN appLog :
          i <= j => appLog[i].generation <= appLog[j].generation
    /\ AppServer.generation = Len(asked)
    /\ IsVersion(rec.app) /\ rec.app.generation <= Head(appLog).generation

(* No object was written for a later generation than the last call had.    *)
WrittenByCalls == \A o \in Object : made[o] <= rec.app.generation

(* A call that may still write the status has read the server's App.       *)
FreshIsCurrent == rec.fresh => rec.app = AppServer /\ Len(appLog) = 1

(* A call in EnsureRuntime has an object to go on with; only a             *)
(* ContainerApp reports, only an App sweeps.                               *)
CallInShape ==
    /\ rec.at = "ensure" => rec.todo # <<>>
    /\ rec.at = "report" => kind = "ContainerApp" /\ rec.outcome # ""
    /\ rec.at = "sweep" => kind = "App"

(* An object that nobody else has changed holds exactly what one spec of   *)
(* the user asked for, that of the generation it was last written for:     *)
(* however edits, failed calls and stale caches fall, it is never a mix of *)
(* two specs (upsert.go:52 replaces the whole template, ingress.go:97 and  *)
(* its siblings the whole object).                                         *)
WholeSpec ==
    \A o \in Object \ tampered :
        Server(o) # Absent =>
            /\ made[o] \in DOMAIN asked
            /\ Server(o).fields = Desired(o, asked[made[o]])

(* All of it: types, the order of the versions, and what calls know.       *)
SyncInv == /\ TypeOK /\ VersionsInOrder /\ WrittenByCalls
           /\ FreshIsCurrent /\ CallInShape /\ WholeSpec

-----------------------------------------------------------------------------
(***************************************************************************)
(* What a step may never do.                                               *)
(***************************************************************************)
(* An object is never taken back to an older generation of the spec: a     *)
(* call works on one cached App, which trails the server but, over calls,  *)
(* errors and restarts, only moves forward.                                *)
NeverBack == [][\A o \in Object : made[o] <= made'[o]]_vars

(* An annotation others put on a Deployment or a Role survives every       *)
(* update, however stale the copy it was computed from: the update carries *)
(* its resourceVersion (upsert.go:55, serviceaccount.go:277).              *)
OthersMetadataKept ==
    [][\A o \in InPlace :
          Server(o) # Absent /\ Server(o)' # Absent /\ Server(o).labelled
              => Server(o)'.labelled]_vars

(* Whoever records Ready or Failed has worked on the spec the ContainerApp *)
(* has at that moment, not on one edited since                             *)
(* (containerapp_reconciler.go:88).                                        *)
ReadyIsCurrent ==
    [][AppServer.phase # AppServer'.phase
          => rec.app.generation = Len(asked)]_vars

-----------------------------------------------------------------------------
(***************************************************************************)
(* What happens in the end, when edits, faults and others' changes stop.   *)
(***************************************************************************)
(* The fields that end exactly as asked, and those with at least that.     *)
Exactly(o) ==
    CASE o = "deployment" -> {"image", "replicas", "port", "probe"}
      [] o = "service"    -> {"port"}
      [] o = "ingress"    -> {"ingress"}
      [] o = "route"      -> {"route", "port"}
      [] o = "role"       -> {"rules"}
      [] o = "hpa"        -> {"hpa"}
      [] o = "binding"    -> {}
AtLeast(o) ==
    CASE o = "deployment" -> {"vars", "volumes"}
      [] o = "service"    -> {"notes"}
      [] OTHER            -> {}

InStep(o, s) ==
    IF ~Asked(o, s) THEN o \in {"ingress", "route", "hpa"} => Server(o) = Absent
    ELSE LET e == Server(o).fields
             d == Desired(o, s)
         IN  /\ Server(o) # Absent
             /\ \A f \in Exactly(o) : e[f] = d[f]
             /\ \A f \in AtLeast(o) : d[f] \subseteq e[f]
             /\ o = "deployment" => /\ d["blanks"] \cap e["vars"] = {}
                                    /\ d["account"] \in {{}, e["account"]}

(* In step is lasting: once the newest version of the App has reached the  *)
(* cache and the call in progress, only an edit or somebody else takes an  *)
(* object out of step.  No failed, refused or repeated call does, no       *)
(* restart, and no copy of the object from before, however stale:          *)
(* whatever is sent then is in step itself (upsert.go:52), and nothing is  *)
(* removed that is asked for.                                              *)
Informed == /\ Head(appLog).generation = Len(asked)
            /\ rec.at = "ensure" => rec.app.generation = Len(asked)
StaysInStep ==
    [][Informed /\ UNCHANGED <<asked, meddling>>
          => /\ Informed'
             /\ \A o \in Object : InStep(o, AppServer.spec)
                                   => InStep(o, AppServer.spec)']_vars

InOrder(o) == \E i \in DOMAIN order : order[i] = o

(* The objects come to what the last spec asks for, in every field the     *)
(* comparisons look at, whatever others have changed and deleted (an HPA   *)
(* that scales, a namesake's cleanup) and whichever calls have failed; an  *)
(* Ingress, HTTPRoute or HPA that is no longer asked for goes.             *)
RuntimeFollows ==
    <>[](\A o \in Object : InOrder(o) => InStep(o, AppServer.spec))

(* A ContainerApp ends Ready, even when the last error was reported by a   *)
(* call whose success could not be (containerapp_reconciler.go:88).        *)
ReadyAtLast == <>[](kind = "ContainerApp" => AppServer.phase = "Ready")

(* README.md:389, of spec.resources: "Server-side apply means it's         *)
(* idempotent - safe to reconcile repeatedly."  A Job among them that has  *)
(* run stays so; but it is swept with the build Jobs (reconciler.go:208,   *)
(* by the label of resources.go:39), and the next poll runs it once more.  *)
RawJobKept == [][JobServer = "done" => JobServer' = "done"]_vars
=============================================================================

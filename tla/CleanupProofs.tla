----------------------------- MODULE CleanupProofs -----------------------------
(***************************************************************************)
(* LeftoversExcused holds for every kind, every set of features and every  *)
(* bound: what an App leaves behind is the claim of an App, or an object   *)
(* with one of the excuses the model records.                              *)
(*                                                                         *)
(* The argument follows an App to its end.  Before it has its finalizer it *)
(* owns nothing.  An object that a cleanup would look for only if the spec *)
(* lists it is either listed by the present spec or excused, and the spec  *)
(* of a dying App stays.  So every object owned when a cleanup starts has  *)
(* a step ahead that looks for it; the step deletes it or finds an excuse, *)
(* and the image, which a pod may push meanwhile, comes after its Job.     *)
(***************************************************************************)
EXTENDS AppLifecycleProofs

(* An App without its finalizer owns nothing. *)
NewOwnsNothing ==
    AppServer.phase = "new" => pod = "none" /\ \A o \in Object : ~Ours(o)

(* A ContainerApp has no build. *)
NoBuild ==
    Kind = "ContainerApp" => /\ rec.at # "build" /\ pod = "none"
                             /\ ~Ours("job") /\ ~Ours("image")

(* Nobody else's object has a name that was free at first, and the label   *)
(* of the operator is on its own.                                          *)
Made(o) == IF o = "job" THEN {"absent", "ours", "done"} ELSE {"absent", "ours"}
OwnLabels == \A o \in Object \ Foreign : objLog[o] \in Seq(Made(o))

(* What some version of the App asked for, or is there, is asked for now,  *)
(* or it is excused, if cleanup would forget it otherwise.                 *)
Held(o) == \/ Ours(o) \/ o \in rec.app.want
           \/ \E i \in 1 .. Len(appLog) : o \in appLog[i].want
Known(o) == o \in AppServer.want \cup excused
Remembered == \A o \in Forgotten : Held(o) => Known(o)

(* The spec of a dying App stays as it is. *)
LastWish == \A i \in 1 .. Len(appLog) :
               appLog[i].phase \in {"terminating", "gone"}
                  => appLog[i].want = AppServer.want

(* Every object has a step ahead that looks for it, or needs none. *)
Exempt(o) == Kind = "App" /\ o = "claim"
Looks(s, o) == s.obj = o /\ (s.listed => o \in rec.app.want)
Ahead(o) == \E i \in 1 .. Len(rec.sweep) : Looks(rec.sweep[i], o)
Handled(o) == Ours(o) => o \in excused \/ Exempt(o) \/ Ahead(o)
Covered == rec.at \in {"clean", "release"} => \A o \in Object : Handled(o)

(* The cleanup of an App deletes the image last; no step is left after it. *)
ImageStep(s) == s.obj = "image" /\ ~s.listed
SweepShape ==
    /\ rec.at = "release" => rec.sweep = <<>>
    /\ Kind = "App" /\ rec.sweep # <<>> => ImageStep(rec.sweep[Len(rec.sweep)])

CleanupInv == /\ LifecycleInv /\ NewOwnsNothing /\ NoBuild /\ OwnLabels
              /\ Remembered /\ LastWish /\ Covered /\ SweepShape
              /\ LeftoversExcused

-----------------------------------------------------------------------------
(***************************************************************************)
(* How the App and the objects move.                                       *)
(***************************************************************************)
LEMMA ServerWritten ==
    ASSUME ObjectInv, NEW o \in Object, NEW owner \in Owner,
           WriteObject(o, owner)
    PROVE  Server(o)' = owner /\ \A p \in Object \ {o} : Server(p)' = Server(p)
<1>1. /\ objLog \in [Object -> Seq(Owner)]
      /\ Append(objLog[o], owner)[Len(Append(objLog[o], owner))] = owner
  BY AppendLog DEF ObjectInv
<1>2. <<owner>>[Len(<<owner>>)] = owner
  OBVIOUS
<1> QED BY <1>1, <1>2 DEF WriteObject, Server

LEMMA WriteOurs ==
    ASSUME LifecycleInv, NEW o \in Object, NEW owner \in Owner,
           WriteObject(o, owner)
    PROVE  /\ Ours(o)' <=> owner \in {"ours", "done"}
           /\ \A p \in Object \ {o} : Ours(p)' <=> Ours(p)
<1>1. Server(o)' = owner /\ \A p \in Object \ {o} : Server(p)' = Server(p)
  BY Parts, ServerWritten
<1> QED BY <1>1 DEF Ours

LEMMA SameOurs ==
    ASSUME \A o \in Object : Server(o)' = Server(o)
    PROVE  \A o \in Object : Ours(o)' <=> Ours(o)
BY DEF Ours

(* The log of the App after a write. *)
LEMMA AppWritten ==
    ASSUME AppInv, NEW a \in App, WriteApp(a)
    PROVE  /\ AppServer' = a
           /\ \A i \in 1 .. Len(appLog') :
                 appLog'[i] = a \/ \E k \in 1 .. Len(appLog) : appLog'[i] = appLog[k]
<1>1. /\ appLog' = Append(appLog, a) /\ Len(appLog') = Len(appLog) + 1
      /\ appLog'[Len(appLog')] = a
      /\ \A i \in 1 .. Len(appLog) : appLog'[i] = appLog[i]
  BY AppendLog DEF AppInv, WriteApp
<1>2. Len(appLog) \in Nat
  BY AppEnds
<1>3. \A i \in 1 .. Len(appLog') : i = Len(appLog') \/ i \in 1 .. Len(appLog)
  BY <1>1, <1>2
<1> QED BY <1>1, <1>3 DEF AppServer

LEMMA AppKept ==
    ASSUME AppInv, UNCHANGED appLog \/ DeliverApp \/ Crash
    PROVE  /\ AppServer' = AppServer
           /\ \A i \in 1 .. Len(appLog') :
                 \E k \in 1 .. Len(appLog) : appLog'[i] = appLog[k]
<1>1. CASE UNCHANGED appLog
  BY <1>1 DEF AppServer
<1>2. CASE DeliverApp
  <2>1. Len(appLog) > 1 /\ appLog' = Tail(appLog) /\ Len(appLog) \in Nat
    BY <1>2, AppEnds DEF DeliverApp
  <2>2. /\ Len(appLog') = Len(appLog) - 1
        /\ \A i \in 1 .. Len(appLog) - 1 : appLog'[i] = appLog[i + 1]
        /\ AppServer' = AppServer
    BY <2>1, TailLog DEF AppInv, AppServer
  <2>3. \A i \in 1 .. Len(appLog') : i + 1 \in 1 .. Len(appLog)
                                     /\ appLog'[i] = appLog[i + 1]
    BY <2>1, <2>2
  <2> QED BY <2>2, <2>3
<1>3. CASE Crash
  <2>1. appLog' = <<AppServer>> /\ Len(appLog) \in 1 .. Len(appLog)
    BY <1>3, AppEnds DEF Crash
  <2>2. Len(appLog') = 1 /\ appLog'[1] = AppServer
    BY <2>1
  <2>3. \A i \in 1 .. Len(appLog') : i = 1
    BY <2>2
  <2>4. AppServer' = AppServer
    BY <2>2 DEF AppServer
  <2> QED BY <2>1, <2>2, <2>3, <2>4 DEF AppServer
<1> QED BY <1>1, <1>2, <1>3

LEMMA AppStep ==
    ASSUME LifecycleInv, [Next]_vars
    PROVE  /\ \A i \in 1 .. Len(appLog') :
                 \/ appLog'[i] = AppServer'
                 \/ \E k \in 1 .. Len(appLog) : appLog'[i] = appLog[k]
           /\ AppServer'.want = AppServer.want \/ \E w \in Want : Edit(w)
           /\ AppServer'.phase = "new" => AppServer.phase = "new"
           /\ AppServer'.phase = "gone" =>
                 \/ AppServer.phase = "gone"
                 \/ Delete /\ AppServer.phase = "new"
                 \/ Release
<1>1. /\ AppInv /\ Local /\ AppServer \in App
      /\ rec \in Call /\ rec.app \in App /\ (rec.fresh => rec.app = AppServer)
  BY Parts, AppEnds DEF Local, CallInv, Call
<1>2. CASE UNCHANGED appLog \/ DeliverApp \/ Crash
  BY <1>1, <1>2, AppKept
<1>3. ASSUME NEW w \in Want, Edit(w) PROVE AppServer'.phase = AppServer.phase
                                           /\ AppServer.phase # "gone"
                                           /\ \A i \in 1 .. Len(appLog') :
                   \/ appLog'[i] = AppServer'
                   \/ \E k \in 1 .. Len(appLog) : appLog'[i] = appLog[k]
  <2> DEFINE a == [AppServer EXCEPT !.want = w]
  <2>1. a \in App /\ a.phase = AppServer.phase
    BY <1>1, <1>3 DEF App
  <2>2. WriteApp(a) /\ AppServer.phase # "gone"
    BY <1>3 DEF Edit
  <2> HIDE DEF a
  <2> QED BY <1>1, <2>1, <2>2, AppWritten
<1>4. CASE Delete
  <2> DEFINE a == [AppServer EXCEPT !.phase = IF @ = "new" THEN "gone"
                                                          ELSE "terminating"]
  <2>1. /\ a \in App /\ a.want = AppServer.want /\ a.phase # "new"
        /\ a.phase = "gone" => AppServer.phase = "new"
    BY <1>1 DEF App
  <2>2. WriteApp(a)
    BY <1>4 DEF Delete
  <2> HIDE DEF a
  <2> QED BY <1>1, <1>4, <2>1, <2>2, AppWritten
<1>5. CASE AddFinalizer /\ rec.fresh /\ WriteApp([rec.app EXCEPT !.phase = "live"])
  <2> DEFINE a == [rec.app EXCEPT !.phase = "live"]
  <2>1. a \in App /\ a.want = AppServer.want /\ a.phase = "live"
    BY <1>1, <1>5 DEF App
  <2>2. WriteApp(a)
    BY <1>5
  <2> HIDE DEF a
  <2> QED BY <1>1, <2>1, <2>2, AppWritten
<1>6. CASE Release /\ rec.fresh /\ WriteApp([rec.app EXCEPT !.phase = "gone"])
  <2> DEFINE a == [rec.app EXCEPT !.phase = "gone"]
  <2>1. a \in App /\ a.want = AppServer.want /\ a.phase = "gone"
    BY <1>1, <1>6 DEF App
  <2>2. WriteApp(a)
    BY <1>6
  <2> HIDE DEF a
  <2> QED BY <1>1, <1>6, <2>1, <2>2, AppWritten
<1>7. \/ UNCHANGED appLog \/ DeliverApp \/ Crash \/ Delete
      \/ \E w \in Want : Edit(w)
      \/ AddFinalizer /\ rec.fresh /\ WriteApp([rec.app EXCEPT !.phase = "live"])
      \/ Release /\ rec.fresh /\ WriteApp([rec.app EXCEPT !.phase = "gone"])
  BY DEF Next, Deliver, DeliverObject, Operate, Reconcile, AddFinalizer,
         EnsureBuild, Ensure, EnsureWrite, EnsureNothing, EnsureRefused, Clean,
         CleanDelete, CleanSkip, CleanUnread,
         CleanFail, Release, Pod, PodStart, PodPush,
         JobComplete, PodKilled, User, EnsureFail, Fail, vars
<1> QED BY <1>2, <1>3, <1>4, <1>5, <1>6, <1>7

(* The three steps by which an App comes to own an object. *)
Gains(o) == \/ EnsureBuild /\ o = "job"
            \/ EnsureWrite /\ o = Item /\ o \in Core \cup rec.app.want
            \/ PodPush /\ o = "image"

LEMMA Gained ==
    ASSUME LifecycleInv, [Next]_vars, NEW o \in Object, Ours(o)', ~Ours(o)
    PROVE  Gains(o)
<1>1. AppInv /\ ObjectInv /\ Local
  BY Parts
<1>2. {"absent", "ours", "done"} \subseteq Owner /\ {"job", "image"} \subseteq Object
  BY DEF Owner, Object, BuildObjects
<1>3. CASE \A p \in Object : Server(p)' = Server(p)
  BY <1>3, SameOurs
<1>4. CASE EnsureBuild
  BY <1>2, <1>3, <1>4, WriteOurs, ObjectsSame, <1>1 DEF EnsureBuild, Gains
<1>5. CASE EnsureWrite
  <2>1. Item \in Object
    BY <1>1, <1>5, ItemGood DEF EnsureWrite
  <2>2. CASE Creates(Item) /\ WriteObject(Item, "ours")
    <3>1. Item \in Core \cup rec.app.want
      BY <2>2 DEF Creates, Applies, CreatesMissing, Asked
    <3> QED BY <1>2, <1>5, <2>1, <2>2, <3>1, WriteOurs DEF Gains
  <2>3. CASE WriteObject(Item, "absent")
    BY <1>2, <2>1, <2>3, WriteOurs
  <2> QED BY <1>1, <1>3, <1>5, <2>2, <2>3, ObjectsSame DEF EnsureWrite
<1>6. CASE Clean
  <2>1. Step.obj \in Object
    BY <1>1, <1>6, StepGood
       DEF Guarded, CleanStep, Clean, CleanDelete, CleanSkip, CleanUnread,
           CleanFail
  <2>2. CASE WriteObject(Step.obj, "absent")
    BY <1>2, <2>1, <2>2, WriteOurs
  <2> QED BY <1>1, <1>3, <1>6, <2>2, ObjectsSame
          DEF Clean, CleanDelete, CleanSkip, CleanUnread, CleanFail
<1>7. CASE Pod
  <2>1. CASE PodPush
    BY <1>2, <2>1, WriteOurs DEF PodPush, Gains
  <2>2. CASE JobComplete
    <3>1. WriteObject("job", "done") /\ Ours("job")
      BY <2>2 DEF JobComplete, Ours
    <3> QED BY <1>2, <3>1, WriteOurs
  <2> QED BY <1>1, <1>3, <1>7, <2>1, <2>2, ObjectsSame DEF Pod, PodStart, PodKilled
<1>8. CASE Deliver
  BY <1>1, <1>3, <1>8, DeliverInv
<1>9. CASE Crash
  BY <1>1, <1>3, <1>9, CrashInv
<1>10. CASE UNCHANGED objLog
  BY <1>1, <1>3, <1>10, ObjectsSame
<1> QED BY <1>4, <1>5, <1>6, <1>7, <1>8, <1>9, <1>10
        DEF Next, Operate, Ensure, Reconcile, AddFinalizer, EnsureNothing,
            EnsureRefused, EnsureFail, Release, User, Edit, Delete, Fail, vars

-----------------------------------------------------------------------------
(***************************************************************************)
(* The parts that hold before a cleanup starts.                            *)
(***************************************************************************)
LEMMA NewStep ==
    ASSUME CleanupInv, [Next]_vars
    PROVE  NewOwnsNothing'
<1> SUFFICES ASSUME AppServer'.phase = "new"
             PROVE  pod' = "none" /\ \A o \in Object : ~Ours(o)'
  BY DEF NewOwnsNothing
<1>1. LifecycleInv /\ AppServer.phase = "new"
  BY AppStep DEF CleanupInv
<1>2. pod = "none" /\ \A o \in Object : ~Ours(o)
  BY <1>1 DEF CleanupInv, NewOwnsNothing
<1>3. rec.at \notin {"build", "ensure"}
  BY <1>1, Parts DEF Local, CallInv
<1>4. \A o \in Object : ~Gains(o)
  BY <1>2, <1>3 DEF Gains, EnsureBuild, EnsureWrite, PodPush
<1>5. \A o \in Object : ~Ours(o)'
  BY <1>1, <1>2, <1>4, Gained
<1>6. ~PodStart /\ ~PodPush
  <2>1. "job" \in Object
    BY DEF Object, BuildObjects
  <2> QED BY <1>2, <2>1 DEF PodStart, PodPush, Ours
<1>7. pod' = "none"
  BY <1>2, <1>6
     DEF Next, Deliver, DeliverApp, DeliverObject, Operate, Reconcile,
         AddFinalizer, EnsureBuild, Ensure, EnsureWrite, EnsureNothing,
         EnsureRefused, Clean, CleanDelete, CleanSkip, CleanUnread,
         CleanFail, Release, Pod,
         JobComplete, PodKilled, User, Edit, Delete, EnsureFail, Fail, Crash,
         vars
<1> QED BY <1>5, <1>7

(* A call works on one version of the App, and builds for an App only. *)
LEMMA CallStep ==
    ASSUME LifecycleInv, [Next]_vars
    PROVE  /\ rec'.app.want \in {{}, rec.app.want, Head(appLog).want}
           /\ rec'.at = "build" => Kind = "App" \/ rec.at = "build"
<1>1. AppInv /\ Local /\ rec \in Call
  BY Parts DEF Local
<1>2. CASE rec' = Idle
  BY <1>2 DEF Idle, NoApp
<1>3. CASE Ensure \/ EnsureFail
  <2>1. rec' = NextItem \/ rec' = Idle
    BY <1>3 DEF Ensure, EnsureWrite, EnsureNothing, EnsureRefused, EnsureFail, Go
  <2>2. rec.at = "ensure"
    BY <1>3 DEF Ensure, EnsureWrite, EnsureNothing, EnsureRefused, EnsureFail
  <2>3. NextItem = Idle \/ (NextItem.at = rec.at /\ NextItem.app = rec.app)
    BY <1>1 DEF NextItem, Call
  <2> QED BY <1>2, <2>1, <2>2, <2>3
<1>4. CASE Clean
  <2>1. rec.at = "clean" /\ (rec' = NextStep \/ rec' = Idle)
    BY <1>4 DEF Clean, CleanDelete, CleanSkip, CleanUnread, CleanFail, Go
  <2> QED BY <1>1, <1>2, <2>1, StepGood
<1>5. CASE Reconcile
  <2> DEFINE r == [Idle EXCEPT !.app = Head(appLog), !.fresh = Len(appLog) = 1]
  <2>1. \/ rec' = [r EXCEPT !.at = "clean", !.sweep = CleanSteps]
        \/ rec' = Begin(r)
        \/ rec' = [r EXCEPT !.at = "add"]
    BY <1>5 DEF Reconcile, Go
  <2>2. r \in Call /\ r.app = Head(appLog)
    <3> DEFINE current == Len(appLog) = 1
    <3>1. current \in BOOLEAN
      OBVIOUS
    <3>2. Head(appLog) \in App
      BY <1>1, AppEnds
    <3>3. r = [Idle EXCEPT !.app = Head(appLog), !.fresh = current]
      OBVIOUS
    <3> HIDE DEF current, r
    <3> QED BY <3>1, <3>2, <3>3, IdleType DEF Call
  <2> HIDE DEF r
  <2> QED BY <2>1, <2>2 DEF Call, Begin
<1>6. CASE AddFinalizer
  <2> DEFINE r == [rec EXCEPT !.app = [rec.app EXCEPT !.phase = "live"]]
  <2>1. rec' = Begin(r) \/ rec' = Idle
    BY <1>6 DEF AddFinalizer, Go
  <2>2. r \in Call /\ r.app.want = rec.app.want
    BY <1>1 DEF Call, App
  <2> HIDE DEF r
  <2> QED BY <1>2, <2>1, <2>2 DEF Call, Begin
<1>7. CASE User
  <2>1. rec' = [rec EXCEPT !.fresh = FALSE]
    BY <1>7 DEF User, Edit, Delete
  <2> QED BY <1>1, <2>1 DEF Call
<1>8. CASE EnsureBuild
  <2>1. rec' = [rec EXCEPT !.at = "ensure", !.todo = EnsureSteps] \/ rec' = Idle
    BY <1>8 DEF EnsureBuild, Go
  <2> QED BY <1>1, <1>2, <2>1 DEF Call
<1>9. CASE UNCHANGED rec
  BY <1>9
<1> QED BY <1>2, <1>3, <1>4, <1>5, <1>6, <1>7, <1>8, <1>9
        DEF Next, Deliver, DeliverApp, DeliverObject, Operate, Release, Pod,
            PodStart, PodPush, JobComplete, PodKilled, Fail, Crash, Go, vars

LEMMA NoBuildStep ==
    ASSUME CleanupInv, [Next]_vars
    PROVE  NoBuild'
<1> SUFFICES ASSUME Kind = "ContainerApp"
             PROVE  /\ rec'.at # "build" /\ pod' = "none"
                    /\ ~Ours("job")' /\ ~Ours("image")'
  BY DEF NoBuild
<1>1. /\ LifecycleInv /\ rec.at # "build" /\ pod = "none"
      /\ ~Ours("job") /\ ~Ours("image")
  BY DEF CleanupInv, NoBuild
<1>2. rec'.at # "build"
  BY <1>1, CallStep
<1>3. {"job", "image"} \subseteq Object
      /\ {"job", "image"} \cap (Core \cup rec.app.want) = {}
  <2>1. rec.app \in App
    BY <1>1, Parts DEF Local, Call
  <2>2. rec.app.want \subseteq Optional
    BY <2>1, ConstantsAssumption DEF App, Want
  <2> QED BY <2>2 DEF Object, BuildObjects, Core, Optional
<1>4. ~Gains("job") /\ ~Gains("image")
  BY <1>1, <1>3 DEF Gains, EnsureBuild, PodPush
<1>5. ~Ours("job")' /\ ~Ours("image")'
  BY <1>1, <1>3, <1>4, Gained
<1>6. ~PodStart /\ ~PodPush
  BY <1>1 DEF PodStart, PodPush, Ours
<1>7. pod' = "none"
  BY <1>1, <1>6
     DEF Next, Deliver, DeliverApp, DeliverObject, Operate, Reconcile,
         AddFinalizer, EnsureBuild, Ensure, EnsureWrite, EnsureNothing,
         EnsureRefused, Clean, CleanDelete, CleanSkip, CleanUnread,
         CleanFail, Release, Pod,
         JobComplete, PodKilled, User, Edit, Delete, EnsureFail, Fail, Crash,
         vars
<1> QED BY <1>2, <1>5, <1>7

(* No step writes anything else under a name that was free. *)
LEMMA OwnLabelsStep ==
    ASSUME CleanupInv, [Next]_vars
    PROVE  OwnLabels'
<1> SUFFICES ASSUME NEW o \in Object \ Foreign
             PROVE  objLog'[o] \in Seq(Made(o))
  BY DEF OwnLabels, Object, Core, Optional, BuildObjects, Made
<1>1. /\ AppInv /\ ObjectInv /\ Local
      /\ objLog[o] \in Seq(Made(o)) /\ objLog[o] # <<>>
      /\ objLog \in [Object -> Seq(Owner)]
  BY Parts DEF CleanupInv, OwnLabels, ObjectInv
<1>2. {"absent", "ours"} \subseteq Made(o) /\ (o = "job" => "done" \in Made(o))
  BY DEF Made
<1>3. ASSUME NEW p \in Object, NEW owner, WriteObject(p, owner),
             owner \in {"absent", "ours"} \/ (p = "job" /\ owner = "done")
      PROVE  objLog'[o] \in Seq(Made(o))
  <2>1. CASE p = o
    <3>1. owner \in Made(o)
      BY <1>2, <1>3, <2>1
    <3>2. Append(objLog[o], owner) \in Seq(Made(o)) /\ <<owner>> \in Seq(Made(o))
      BY <1>1, <3>1, AppendLog
    <3> QED BY <1>1, <1>3, <2>1, <3>2 DEF WriteObject
  <2>2. CASE p # o
    BY <1>1, <1>3, <2>2 DEF WriteObject
  <2> QED BY <2>1, <2>2
<1>4. CASE UNCHANGED objLog
  BY <1>1, <1>4
<1>5. CASE \E p \in Object : DeliverObject(p)
  <2>1. PICK p \in Object : Len(objLog[p]) > 1
                            /\ objLog' = [objLog EXCEPT ![p] = Tail(@)]
    BY <1>5 DEF DeliverObject
  <2>2. CASE p = o
    BY <1>1, <2>1, <2>2, TailLog
  <2> QED BY <1>1, <2>1, <2>2
<1>6. CASE Crash
  <2>1. objLog'[o] = <<Server(o)>>
    BY <1>1, <1>6 DEF Crash
  <2>2. Server(o) \in Made(o)
    BY <1>1, LogEnds DEF Server
  <2> QED BY <2>1, <2>2
<1>7. CASE EnsureWrite
  <2>1. Item \in Object
    BY <1>1, <1>7, ItemGood DEF EnsureWrite
  <2> QED BY <1>3, <1>4, <1>7, <2>1 DEF EnsureWrite
<1>8. CASE Clean
  <2>1. Step.obj \in Object
    BY <1>1, <1>8, StepGood
       DEF Guarded, CleanStep, Clean, CleanDelete, CleanSkip, CleanUnread,
           CleanFail
  <2> QED BY <1>3, <1>4, <1>8, <2>1
          DEF Clean, CleanDelete, CleanSkip, CleanUnread, CleanFail
<1>9. CASE EnsureBuild \/ Pod
  <2>1. {"job", "image"} \subseteq Object
    BY DEF Object, BuildObjects
  <2> QED BY <1>3, <1>4, <1>9, <2>1
          DEF EnsureBuild, Pod, PodStart, PodPush, JobComplete, PodKilled
<1> QED BY <1>4, <1>5, <1>6, <1>7, <1>8, <1>9
        DEF Next, Deliver, DeliverApp, Operate, Ensure, Reconcile, AddFinalizer,
            EnsureNothing, EnsureRefused, EnsureFail, Release, User, Edit,
            Delete, Fail, vars

(* Excuses are only taken back for what is asked for again. *)
LEMMA KnownStep ==
    ASSUME LifecycleInv, [Next]_vars, NEW o \in Forgotten, Known(o)
    PROVE  Known(o)'
<1>1. AppServer'.want = AppServer.want \/ \E w \in Want : Edit(w)
  BY AppStep
<1>2. ASSUME NEW w \in Want, Edit(w) PROVE Known(o)'
  <2> DEFINE a == [AppServer EXCEPT !.want = w]
  <2>1. a \in App /\ a.want = w
    BY Parts, AppEnds DEF App
  <2>2. WriteApp(a)
       /\ excused' = (excused \ w) \cup ((AppServer.want \ w) \cap Forgotten)
    BY <1>2 DEF Edit
  <2> HIDE DEF a
  <2>3. AppServer'.want = w
    BY <2>1, <2>2, Parts, AppWritten
  <2> QED BY <2>2, <2>3 DEF Known
<1>3. ASSUME ~ \E w \in Want : Edit(w) PROVE excused \subseteq excused'
  BY <1>3
     DEF Next, Deliver, DeliverApp, DeliverObject, Operate, Reconcile,
         AddFinalizer, EnsureBuild, Ensure, EnsureWrite, EnsureNothing,
         EnsureRefused, Clean, CleanDelete, CleanSkip, CleanUnread,
         CleanFail, Release, Pod,
         PodStart, PodPush, JobComplete, PodKilled, User, Delete, EnsureFail,
         Fail, Crash, vars
<1> QED BY <1>1, <1>2, <1>3 DEF Known

LEMMA RememberedStep ==
    ASSUME CleanupInv, [Next]_vars
    PROVE  Remembered'
<1>1. LifecycleInv /\ Remembered
  BY DEF CleanupInv
<1> SUFFICES ASSUME NEW o \in Forgotten, Held(o)'
             PROVE  Known(o)'
  BY DEF Remembered
<1>2. o \in Object /\ o \notin Core \cup {"job", "image"}
  BY DEF Forgotten, Object, Optional, Core
<1>3. ASSUME Held(o) PROVE Known(o)'
  BY <1>1, <1>3, KnownStep DEF Remembered
<1>4. CASE Ours(o)'
  <2>1. Gains(o) => o \in rec.app.want
    BY <1>2 DEF Gains
  <2> QED BY <1>1, <1>2, <1>3, <1>4, <2>1, Gained DEF Held
<1>5. CASE o \in rec'.app.want
  <2>1. o \in rec.app.want \/ o \in Head(appLog).want
    BY <1>1, <1>5, CallStep
  <2>2. Head(appLog) = appLog[1] /\ 1 \in 1 .. Len(appLog)
    BY <1>1, Parts, AppEnds
  <2> QED BY <1>3, <2>1, <2>2 DEF Held
<1>6. ASSUME NEW i \in 1 .. Len(appLog'), o \in appLog'[i].want
      PROVE  Known(o)'
  <2>1. appLog'[i] = AppServer' \/ \E k \in 1 .. Len(appLog) : appLog'[i] = appLog[k]
    BY <1>1, AppStep
  <2>2. CASE appLog'[i] = AppServer'
    BY <1>6, <2>2 DEF Known
  <2> QED BY <1>3, <1>6, <2>1, <2>2 DEF Held
<1> QED BY <1>4, <1>5, <1>6 DEF Held

LEMMA LastWishStep ==
    ASSUME CleanupInv, [Next]_vars
    PROVE  LastWish'
<1>1. LifecycleInv /\ LastWish /\ AppInv
  BY Parts DEF CleanupInv
<1> SUFFICES ASSUME NEW i \in 1 .. Len(appLog'),
                    appLog'[i].phase \in {"terminating", "gone"}
             PROVE  appLog'[i].want = AppServer'.want
  BY DEF LastWish
<1>2. CASE appLog'[i] = AppServer'
  BY <1>2
<1>3. ASSUME NEW k \in 1 .. Len(appLog), appLog'[i] = appLog[k]
      PROVE  appLog'[i].want = AppServer'.want
  <2>1. appLog[k].want = AppServer.want
    BY <1>1, <1>3 DEF LastWish
  <2>2. AppServer.phase \in {"terminating", "gone"}
    BY <1>1, <1>3, AppOrder DEF Follows
  <2>3. \A w \in Want : ~Edit(w)
    BY <2>2 DEF Edit
  <2> QED BY <1>1, <1>3, <2>1, <2>3, AppStep
<1> QED BY <1>1, <1>2, <1>3, AppStep

-----------------------------------------------------------------------------
(***************************************************************************)
(* The steps of a cleanup.                                                 *)
(***************************************************************************)
Has(s, x) == \E i \in 1 .. Len(s) : s[i] = x

LEMMA HasConcat ==
    ASSUME NEW S, NEW s \in Seq(S), NEW t \in Seq(S), NEW x
    PROVE  /\ s \o t \in Seq(S) /\ Len(s \o t) = Len(s) + Len(t)
           /\ Has(s, x) \/ Has(t, x) => Has(s \o t, x)
<1>1. /\ s \o t \in Seq(S) /\ Len(s \o t) = Len(s) + Len(t)
      /\ \A i \in 1 .. Len(s) : (s \o t)[i] = s[i]
      /\ \A i \in 1 .. Len(t) : (s \o t)[i + Len(s)] = t[i]
  BY ConcatProperties
<1>2. Len(s) \in Nat /\ Len(t) \in Nat
  BY LenProperties
<1>3. /\ \A i \in 1 .. Len(s) : i \in 1 .. Len(s \o t)
      /\ \A i \in 1 .. Len(t) : i + Len(s) \in 1 .. Len(s \o t)
  BY <1>1, <1>2
<1> QED BY <1>1, <1>3 DEF Has

(* The forms a step has. *)
LEMMA StepForms ==
    /\ Always("deployment") \in CleanStep /\ Always("service") \in CleanStep
    /\ Always("ingress") \in CleanStep /\ Logged(Always("route")) \in CleanStep
    /\ Always("hpa") \in CleanStep /\ Logged(Always("job")) \in CleanStep
    /\ IfListed("raw") \in CleanStep /\ Logged(Always("image")) \in CleanStep
    /\ [Always("account") EXCEPT !.owned = TRUE] \in CleanStep
    /\ IfListed("claim") \in CleanStep /\ IfListed("binding") \in CleanStep
    /\ IfListed("clusterbinding") \in CleanStep
    /\ IfListed("clusterrole") \in CleanStep
    /\ IfOwned("role") \in CleanStep /\ IfOwned("account") \in CleanStep
    /\ IfOwned("named") \in CleanStep
<1>1. \A p \in Object : /\ Always(p) \in CleanStep /\ IfListed(p) \in CleanStep
                        /\ Logged(Always(p)) \in CleanStep
                        /\ IfOwned(p) \in CleanStep
                        /\ [Always(p) EXCEPT !.owned = TRUE] \in CleanStep
  BY DEF CleanStep, Always, IfListed, IfOwned, Logged
<1>2. {"deployment", "service", "ingress", "route", "account", "named", "role",
       "binding", "clusterrole", "clusterbinding", "claim", "hpa", "raw", "job",
       "image"} \subseteq Object
  BY DEF Object, Core, Optional, BuildObjects
<1> QED BY <1>1, <1>2

(* For every object of the kind there is a step that looks for it, except  *)
(* for those that are looked for only when the spec lists them.            *)
Looked(s, o) == s.obj = o /\ (s.listed => o \in Forgotten)

LEMMA StepsFound ==
    ASSUME NEW o \in Object, ~Exempt(o),
           Kind = "ContainerApp" => o \notin BuildObjects
    PROVE  \E x : Has(CleanSteps, x) /\ Looked(x, o)
<1> DEFINE first == <<Always("deployment"), Always("service"),
                      Always("ingress"), Logged(Always("route")),
                      Always("hpa"), Logged(Always("job"))>>
<1>1. /\ first \in Seq(CleanStep) /\ CleanRuntime \in Seq(CleanStep)
      /\ CleanResources \in Seq(CleanStep) /\ CleanRegistry \in Seq(CleanStep)
      /\ CleanRBAC \in Seq(CleanStep)
  BY StepForms DEF CleanRuntime, CleanResources, CleanRegistry, CleanRBAC
<1>2. /\ \A i \in 1 .. 6 : Has(first, first[i])
      /\ \A i \in 1 .. 7 : Has(CleanRuntime, CleanRuntime[i])
      /\ Has(CleanResources, CleanResources[1])
      /\ Has(CleanRegistry, CleanRegistry[1])
      /\ \A i \in 1 .. 6 : Has(CleanRBAC, CleanRBAC[i])
  <2>1. /\ Len(first) = 6 /\ Len(CleanRuntime) = 7 /\ Len(CleanResources) = 1
        /\ Len(CleanRBAC) = 6 /\ Len(CleanRegistry) = 1
    BY DEF CleanRuntime, CleanResources, CleanRegistry, CleanRBAC
  <2> HIDE DEF first
  <2> QED BY <2>1 DEF Has
<1>5. ASSUME o \in Forgotten,
             o \in {"clusterbinding", "clusterrole", "binding", "role",
                    "account", "named"}
      PROVE  \E x : Has(CleanRBAC, x) /\ Looked(x, o)
  <2>1. /\ CleanRBAC[1] = IfListed("clusterbinding")
        /\ CleanRBAC[2] = IfListed("clusterrole")
        /\ CleanRBAC[3] = IfListed("binding") /\ CleanRBAC[4] = IfOwned("role")
        /\ CleanRBAC[5] = IfOwned("account") /\ CleanRBAC[6] = IfOwned("named")
    BY DEF CleanRBAC
  <2>2. /\ CleanRBAC[1].obj = "clusterbinding"
        /\ CleanRBAC[2].obj = "clusterrole"
        /\ CleanRBAC[3].obj = "binding" /\ CleanRBAC[4].obj = "role"
        /\ CleanRBAC[5].obj = "account" /\ CleanRBAC[6].obj = "named"
    BY <2>1 DEF IfListed, IfOwned
  <2>3. PICK i \in 1 .. 6 : CleanRBAC[i].obj = o
    BY <1>5, <2>2
  <2> QED BY <1>2, <1>5, <2>3 DEF Looked
<1>3. CASE Kind = "App"
  <2> DEFINE second == first \o CleanResources
             third == second \o CleanRBAC
             all == third \o CleanRegistry
  <2>1. CleanSteps = all
    BY <1>3, Zenon DEF CleanSteps, CleanApp, all, first, second, third
  <2>2. \A x : (\/ Has(first, x) \/ Has(CleanResources, x)
                \/ Has(CleanRBAC, x) \/ Has(CleanRegistry, x)) => Has(all, x)
    <3> HIDE DEF first
    <3>1. second \in Seq(CleanStep)
          /\ \A x : Has(first, x) \/ Has(CleanResources, x) => Has(second, x)
      BY <1>1, HasConcat
    <3> HIDE DEF second
    <3>2. third \in Seq(CleanStep)
          /\ \A x : Has(second, x) \/ Has(CleanRBAC, x) => Has(third, x)
      BY <1>1, <3>1, HasConcat
    <3> HIDE DEF third
    <3>3. \A x : Has(third, x) \/ Has(CleanRegistry, x) => Has(all, x)
      BY <1>1, <3>2, HasConcat
    <3> QED BY <3>1, <3>2, <3>3
  <2>3. \E x : /\ \/ Has(first, x) \/ Has(CleanResources, x)
                  \/ Has(CleanRBAC, x) \/ Has(CleanRegistry, x)
               /\ Looked(x, o)
    <3>1. CASE o \in {"deployment", "service", "ingress", "route", "hpa", "job"}
      <4>1. \E i \in 1 .. 6 : Looked(first[i], o)
        BY <3>1 DEF Looked, Always, Logged
      <4> QED BY <1>2, <4>1
    <3>2. CASE o = "raw"
      <4>1. Looked(CleanResources[1], o)
        BY <3>2 DEF Looked, CleanResources, IfListed, Forgotten
      <4> QED BY <1>2, <4>1
    <3>3. CASE o \in {"clusterbinding", "clusterrole", "binding", "role",
                      "account", "named"}
      <4>1. o \in Forgotten
        BY <1>3, <3>3 DEF Forgotten
      <4> QED BY <1>5, <3>3, <4>1
    <3>4. CASE o = "image"
      <4>1. Looked(CleanRegistry[1], o)
        BY <3>4 DEF Looked, CleanRegistry, Always, Logged
      <4> QED BY <1>2, <4>1
    <3> QED BY <1>3, <3>1, <3>2, <3>3, <3>4
            DEF Object, Core, Optional, BuildObjects, Exempt
  <2> HIDE DEF all
  <2> QED BY <2>1, <2>2, <2>3
<1>4. CASE Kind = "ContainerApp"
  <2> DEFINE second == CleanRuntime \o CleanResources
             all == second \o CleanRBAC
  <2>1. CleanSteps = all
    BY <1>4, Zenon DEF CleanSteps, CleanContainerApp, all, second
  <2>2. \A x : (\/ Has(CleanRuntime, x) \/ Has(CleanResources, x)
                \/ Has(CleanRBAC, x)) => Has(all, x)
    <3>1. second \in Seq(CleanStep)
          /\ \A x : Has(CleanRuntime, x) \/ Has(CleanResources, x) => Has(second, x)
      BY <1>1, HasConcat
    <3> HIDE DEF second
    <3>2. \A x : Has(second, x) \/ Has(CleanRBAC, x) => Has(all, x)
      BY <1>1, <3>1, HasConcat
    <3> QED BY <3>1, <3>2
  <2>3. \E x : /\ \/ Has(CleanRuntime, x) \/ Has(CleanResources, x)
                  \/ Has(CleanRBAC, x)
               /\ Looked(x, o)
    <3>1. CASE o \in {"deployment", "service", "ingress", "route", "hpa",
                      "account", "claim"}
      <4>1. \E i \in 1 .. 7 : Looked(CleanRuntime[i], o)
        BY <3>1 DEF Looked, CleanRuntime, Always, Logged, IfListed, Forgotten
      <4> QED BY <1>2, <4>1
    <3>2. CASE o = "raw"
      <4>1. Looked(CleanResources[1], o)
        BY <3>2 DEF Looked, CleanResources, IfListed, Forgotten
      <4> QED BY <1>2, <4>1
    <3>3. CASE o \in {"clusterbinding", "clusterrole", "binding", "role",
                      "named"}
      <4>1. o \in Forgotten
        BY <3>3 DEF Forgotten
      <4> QED BY <1>5, <3>3, <4>1
    <3> QED BY <1>4, <3>1, <3>2, <3>3
            DEF Object, Core, Optional, BuildObjects
  <2> HIDE DEF all
  <2> QED BY <2>1, <2>2, <2>3
<1> QED BY <1>3, <1>4, ConstantsAssumption

(* The image is deleted last. *)
LEMMA ImageIsLast ==
    ASSUME Kind = "App"
    PROVE  ImageStep(CleanSteps[Len(CleanSteps)])
<1> DEFINE first == <<Always("deployment"), Always("service"),
                      Always("ingress"), Logged(Always("route")),
                      Always("hpa"), Logged(Always("job"))>>
           third == (first \o CleanResources) \o CleanRBAC
           all == third \o CleanRegistry
<1>1. CleanSteps = all
  BY Zenon DEF CleanSteps, CleanApp, all, first, third
<1>2. /\ first \in Seq(CleanStep) /\ CleanResources \in Seq(CleanStep)
      /\ CleanRegistry \in Seq(CleanStep) /\ CleanRBAC \in Seq(CleanStep)
  BY StepForms DEF CleanResources, CleanRBAC, CleanRegistry
<1> HIDE DEF first
<1>3. third \in Seq(CleanStep)
  BY <1>2, HasConcat
<1> HIDE DEF third
<1>4. /\ Len(all) = Len(third) + Len(CleanRegistry) /\ Len(third) \in Nat
      /\ all[1 + Len(third)] = CleanRegistry[1] /\ Len(CleanRegistry) = 1
  <2>1. Len(CleanRegistry) = 1
    BY DEF CleanRegistry
  <2>2. 1 \in 1 .. Len(CleanRegistry)
    BY <2>1
  <2>3. Len(third) \in Nat
    BY <1>3, LenProperties
  <2>4. /\ Len(all) = Len(third) + Len(CleanRegistry)
        /\ \A i \in 1 .. Len(CleanRegistry) : all[i + Len(third)] = CleanRegistry[i]
    BY <1>2, <1>3, ConcatProperties
  <2> HIDE DEF all
  <2>5. all[1 + Len(third)] = CleanRegistry[1]
    BY <2>2, <2>4
  <2> QED BY <2>1, <2>3, <2>4, <2>5
<1> HIDE DEF all
<1>5. all[Len(all)] = CleanRegistry[1]
  BY <1>4
<1>6. ImageStep(CleanRegistry[1])
  BY DEF CleanRegistry, ImageStep, Always, Logged
<1> QED BY <1>1, <1>5, <1>6

(* How the steps ahead of a call change. *)
Restarts == /\ Reconcile
            /\ Head(appLog).phase = "terminating"
            /\ rec'.app = Head(appLog)
            /\ rec'.at = "clean" /\ rec'.sweep = CleanSteps
Keeps == rec'.at = rec.at /\ rec'.sweep = rec.sweep /\ rec'.app = rec.app
Leaves == /\ rec'.at \notin {"clean", "release"}
          /\ rec'.sweep \in {<<>>, rec.sweep}

LEMMA SweepStep ==
    ASSUME LifecycleInv, [Next]_vars
    PROVE  Restarts \/ Keeps \/ Leaves \/ (Clean /\ rec' = NextStep)
<1>1. AppInv /\ Local /\ rec \in Call
  BY Parts DEF Local
<1>2. CASE rec' = Idle
  BY <1>2 DEF Idle, Leaves
<1>3. CASE Ensure \/ EnsureFail
  <2>1. rec' = NextItem \/ rec' = Idle
    BY <1>3 DEF Ensure, EnsureWrite, EnsureNothing, EnsureRefused, EnsureFail, Go
  <2>2. rec.at = "ensure"
    BY <1>3 DEF Ensure, EnsureWrite, EnsureNothing, EnsureRefused, EnsureFail
  <2>3. \/ NextItem = Idle
        \/ NextItem.at = rec.at /\ NextItem.sweep = rec.sweep
    BY <1>1 DEF NextItem, Call
  <2> QED BY <1>2, <2>1, <2>2, <2>3 DEF Leaves
<1>4. CASE Clean
  BY <1>2, <1>4 DEF Clean, CleanDelete, CleanSkip, CleanUnread, CleanFail, Go
<1>5. CASE Reconcile
  <2> DEFINE current == Len(appLog) = 1
             r == [Idle EXCEPT !.app = Head(appLog), !.fresh = current]
  <2>1. \/ /\ Head(appLog).phase = "terminating"
           /\ rec' = [r EXCEPT !.at = "clean", !.sweep = CleanSteps]
        \/ rec' = Begin(r)
        \/ rec' = [r EXCEPT !.at = "add"]
    BY <1>5 DEF Reconcile, Go
  <2>2. r \in Call /\ r.app = Head(appLog) /\ r.sweep = <<>>
    <3>1. current \in BOOLEAN
      OBVIOUS
    <3>2. Head(appLog) \in App
      BY <1>1, AppEnds
    <3> HIDE DEF current
    <3>3. r \in Call /\ r.app = Head(appLog)
      BY <3>1, <3>2, IdleType DEF Call
    <3>4. r.sweep = Idle.sweep
      BY IdleType DEF Call
    <3> QED BY <3>3, <3>4 DEF Idle
  <2> HIDE DEF r
  <2> QED BY <1>5, <2>1, <2>2 DEF Call, Begin, Leaves, Restarts
<1>6. CASE AddFinalizer
  <2> DEFINE r == [rec EXCEPT !.app = [rec.app EXCEPT !.phase = "live"]]
  <2>1. rec' = Begin(r) \/ rec' = Idle
    BY <1>6 DEF AddFinalizer, Go
  <2>2. r \in Call /\ r.sweep = rec.sweep
    BY <1>1 DEF Call, App
  <2> HIDE DEF r
  <2> QED BY <1>2, <2>1, <2>2 DEF Call, Begin, Leaves
<1>7. CASE User
  <2>1. rec' = [rec EXCEPT !.fresh = FALSE]
    BY <1>7 DEF User, Edit, Delete
  <2> QED BY <1>1, <2>1 DEF Call, Keeps
<1>8. CASE EnsureBuild
  <2>1. rec' = [rec EXCEPT !.at = "ensure", !.todo = EnsureSteps] \/ rec' = Idle
    BY <1>8 DEF EnsureBuild, Go
  <2> QED BY <1>1, <1>2, <2>1 DEF Call, Leaves
<1>9. CASE UNCHANGED rec
  BY <1>9 DEF Keeps
<1> QED BY <1>2, <1>3, <1>4, <1>5, <1>6, <1>7, <1>8, <1>9
        DEF Next, Deliver, DeliverApp, DeliverObject, Operate, Release, Pod,
            PodStart, PodPush, JobComplete, PodKilled, Fail, Crash, Go, vars

(* The steps that are left after one. *)
LEMMA NextStepTail ==
    ASSUME LifecycleInv, rec.at = "clean"
    PROVE  /\ rec.sweep # <<>> /\ Len(rec.sweep) \in Nat \ {0}
           /\ Step = rec.sweep[1] /\ Step \in Guarded
           /\ NextStep.sweep = Tail(rec.sweep) /\ NextStep.app = rec.app
           /\ NextStep.at = IF Len(rec.sweep) = 1 THEN "release" ELSE "clean"
           /\ Len(rec.sweep) = 1 => Tail(rec.sweep) = <<>>
           /\ Len(rec.sweep) > 1 =>
                 /\ Len(Tail(rec.sweep)) = Len(rec.sweep) - 1
                 /\ \A i \in 1 .. Len(rec.sweep) - 1 :
                       Tail(rec.sweep)[i] = rec.sweep[i + 1]
                 /\ Tail(rec.sweep)[Len(Tail(rec.sweep))]
                       = rec.sweep[Len(rec.sweep)]
<1>1. /\ AppInv /\ Local /\ rec \in Call /\ rec.sweep # <<>>
      /\ rec.sweep \in Seq(Guarded)
  BY Parts DEF Local, CallInv
<1>2. /\ Len(rec.sweep) \in Nat \ {0}
      /\ Step = rec.sweep[1] /\ Step \in Guarded
  BY <1>1, LogEnds DEF Step
<1>3. /\ NextStep.sweep = Tail(rec.sweep) /\ NextStep.app = rec.app
      /\ NextStep.at = IF Len(rec.sweep) = 1 THEN "release" ELSE "clean"
  BY <1>1 DEF NextStep, Call
<1>4. ASSUME Len(rec.sweep) = 1 PROVE Tail(rec.sweep) = <<>>
  <2>1. Tail(rec.sweep) \in Seq(Guarded) /\ Len(Tail(rec.sweep)) = 0
    BY <1>1, <1>4, HeadTailProperties
  <2> QED BY <2>1, EmptySeq
<1> QED BY <1>1, <1>2, <1>3, <1>4, TailLog

LEMMA SweepShapeStep ==
    ASSUME CleanupInv, [Next]_vars
    PROVE  SweepShape'
<1>1. LifecycleInv /\ SweepShape
  BY DEF CleanupInv
<1>2. CASE Restarts
  BY <1>2, ImageIsLast DEF Restarts, SweepShape
<1>3. CASE Keeps \/ Leaves
  BY <1>1, <1>3 DEF Keeps, Leaves, SweepShape
<1>4. CASE Clean /\ rec' = NextStep
  <2>1. rec.at = "clean"
    BY <1>4 DEF Clean, CleanDelete, CleanSkip, CleanUnread, CleanFail
  <2>2. CASE Len(rec.sweep) = 1
    BY <1>1, <1>4, <2>1, <2>2, NextStepTail DEF SweepShape
  <2>3. CASE Len(rec.sweep) # 1
    <3>1. /\ Len(rec.sweep) > 1 /\ NextStep.at = "clean" /\ rec.sweep # <<>>
          /\ NextStep.sweep = Tail(rec.sweep)
          /\ Tail(rec.sweep)[Len(Tail(rec.sweep))] = rec.sweep[Len(rec.sweep)]
      <4>0. rec.sweep \in Seq(Guarded) /\ rec.sweep # <<>>
        BY <1>1, <2>1, Parts DEF Local, CallInv
      <4>1. Len(rec.sweep) > 1
        BY <2>3, <4>0, LogEnds
      <4> QED BY <1>1, <2>1, <2>3, <4>1, NextStepTail
    <3> QED BY <1>1, <1>4, <3>1 DEF SweepShape
  <2> QED BY <2>2, <2>3
<1> QED BY <1>1, <1>2, <1>3, <1>4, SweepStep

-----------------------------------------------------------------------------
(***************************************************************************)
(* From the start of a cleanup to the release of the App.                  *)
(***************************************************************************)
(* A pod pushes an image while its Job is there, or has an excuse to.      *)
LEMMA LateImage ==
    ASSUME CleanupInv, PodPush
    PROVE  "image" \in excused' \/ (Ours("job") /\ "job" \notin excused)
<1>1. "job" \in Object \ Foreign /\ Made("job") = {"absent", "ours", "done"}
  BY ConstantsAssumption DEF Object, BuildObjects, Made
<1>2. objLog["job"] \in Seq(Made("job")) /\ objLog["job"] # <<>>
  BY <1>1, Parts DEF CleanupInv, OwnLabels, ObjectInv
<1>3. Server("job") \in Made("job")
  BY <1>2, LogEnds DEF Server
<1> QED BY <1>1, <1>3 DEF PodPush, Ours

(* An excuse is taken back by an edit only, and a dying App has none.      *)
LEMMA ExcusesKept ==
    ASSUME LifecycleInv, [Next]_vars, AppServer.phase \in {"terminating", "gone"}
    PROVE  excused \subseteq excused'
<1>1. \A w \in Want : ~Edit(w)
  BY DEF Edit
<1> QED BY <1>1
     DEF Next, Deliver, DeliverApp, DeliverObject, Operate, Reconcile,
         AddFinalizer, EnsureBuild, Ensure, EnsureWrite, EnsureNothing,
         EnsureRefused, Clean, CleanDelete, CleanSkip, CleanUnread,
         CleanFail, Release, Pod,
         PodStart, PodPush, JobComplete, PodKilled, User, Delete, EnsureFail,
         Fail, Crash, vars

(* A cleanup works for an App that is dying on the server, too. *)
LEMMA DyingAtClean ==
    ASSUME LifecycleInv, rec.at \in {"clean", "release"}
    PROVE  AppServer.phase \in {"terminating", "gone"}
<1>1. AppInv /\ Local /\ Head(appLog).phase \in {"terminating", "gone"}
  BY Parts DEF Local, CallInv
<1>2. Head(appLog) = appLog[1] /\ 1 \in 1 .. Len(appLog)
  BY <1>1, AppEnds
<1> QED BY <1>1, <1>2, AppOrder DEF Follows

(* The step that looks for an object deletes it or finds its excuse. *)
LEMMA StepSettles ==
    ASSUME CleanupInv, Clean, rec' = NextStep,
           NEW o \in Object, Looks(Step, o), Ours(o)'
    PROVE  o \in excused' \/ Exempt(o)
<1>1. /\ LifecycleInv /\ OwnLabels /\ AppInv /\ ObjectInv /\ Local
      /\ rec.at = "clean" /\ Step.obj = o
      /\ Step \in Guarded
  BY Parts, StepGood DEF CleanupInv, Clean, CleanDelete, CleanSkip, CleanUnread,
                         CleanFail, Looks
<1>2. CASE CleanDelete
  <2>1. CASE Server(o) = "absent"
    BY <1>1, <1>2, <2>1, ObjectsSame DEF CleanDelete, Ours
  <2>2. CASE Server(o) # "absent"
    <3>1. WriteObject(o, "absent") /\ "absent" \in Owner
      BY <1>1, <1>2, <2>2 DEF CleanDelete, Owner
    <3> QED BY <1>1, <3>1, WriteOurs
  <2> QED BY <2>1, <2>2
<1>3. ASSUME UNCHANGED objLog PROVE Ours(o) /\ (o \in Left(o))
  BY <1>1, <1>3, ObjectsSame DEF Ours, Left
<1>4. CASE CleanSkip
  <2>1. Ours(o) /\ o \in Left(o) /\ ~Selected(Step)
    BY <1>3, <1>4 DEF CleanSkip
  <2>2. CASE Step.owned
    <3>1. o \in Labelled /\ o # "job"
      BY <1>1, <2>2 DEF Guarded, Labelled, Accounts
    <3>2. objLog[o] # <<>>
      BY <1>1 DEF ObjectInv
    <3>3. o \notin Foreign
      <4>1. ASSUME o \in Foreign PROVE FALSE
        <5>1. objLog[o] \in Seq({"foreign"})
          BY <1>1, <3>1, <4>1 DEF ObjectInv
        <5>2. Server(o) \in {"foreign"}
          BY <3>2, <5>1, LogEnds DEF Server
        <5> QED BY <2>1, <5>2 DEF Ours
      <4> QED BY <4>1
    <3>4. objLog[o] \in Seq({"absent", "ours"})
      BY <1>1, <3>1, <3>3 DEF OwnLabels, Made
    <3>5. Cached(o) \in {"absent", "ours"}
      BY <3>2, <3>4, LogEnds DEF Cached
    <3>6. Cached(o) = "absent"
      BY <1>1, <2>1, <3>5 DEF Selected, Listed, OwnedByApp, Looks
    <3> QED BY <1>1, <1>4, <2>1, <3>6 DEF CleanSkip
  <2>3. CASE ~Step.owned
    <3>1. Cached(o) = "absent"
      BY <1>1, <2>1, <2>3 DEF Selected, Listed, Looks
    <3> QED BY <1>1, <1>4, <2>1, <3>1 DEF CleanSkip
  <2> QED BY <2>2, <2>3
<1>5. CASE CleanUnread
  BY <1>1, <1>3, <1>5 DEF CleanUnread
<1>6. CASE CleanFail
  <2>1. NextStep.at \in {"clean", "release"} /\ Idle.at = "idle"
    BY <1>1, StepGood DEF Idle
  <2>2. ~Step.hard
    BY <1>6, <2>1 DEF CleanFail, Go
  <2> QED BY <1>1, <1>3, <1>6, <2>2 DEF CleanFail
<1> QED BY <1>2, <1>4, <1>5, <1>6 DEF Clean

LEMMA CoveredStep ==
    ASSUME CleanupInv, [Next]_vars
    PROVE  Covered'
<1> SUFFICES ASSUME rec'.at \in {"clean", "release"}, NEW o \in Object, Ours(o)'
             PROVE  o \in excused' \/ Exempt(o) \/ Ahead(o)'
  BY DEF Covered, Handled, Exempt
<1>1. LifecycleInv /\ NoBuild /\ Remembered /\ LastWish /\ Covered /\ SweepShape
      /\ AppInv
  BY Parts DEF CleanupInv
<1>2. CASE Restarts /\ ~Exempt(o)
  <2>1. UNCHANGED <<appLog, objLog, excused>>
    BY <1>2 DEF Restarts, Reconcile
  <2>2. Ours(o)
    BY <2>1 DEF Ours, Server
  <2>3. rec'.app.want = AppServer.want
    <3>1. Head(appLog) = appLog[1] /\ 1 \in 1 .. Len(appLog)
      BY <1>1, AppEnds
    <3> QED BY <1>1, <1>2, <3>1 DEF Restarts, LastWish
  <2>4. Kind = "ContainerApp" => o \notin BuildObjects
    BY <1>1, <2>2 DEF NoBuild, BuildObjects
  <2>5. PICK x : Has(CleanSteps, x) /\ Looked(x, o)
    BY <1>2, <2>4, StepsFound
  <2>6. PICK i \in 1 .. Len(CleanSteps) : CleanSteps[i] = x
    BY <2>5 DEF Has
  <2>7. o \in Forgotten => o \in rec'.app.want \/ o \in excused
    BY <1>1, <2>2, <2>3 DEF Remembered, Held, Known
  <2>8. rec'.sweep = CleanSteps
    BY <1>2 DEF Restarts
  <2>9. CASE o \in excused
    BY <2>1, <2>9
  <2>10. CASE o \notin excused
    <3>1. x.obj = o /\ (x.listed => o \in rec'.app.want)
      BY <2>5, <2>7, <2>10 DEF Looked
    <3> QED BY <2>6, <2>8, <3>1 DEF Ahead, Looks
  <2> QED BY <2>9, <2>10
<1>3. ASSUME rec.at \in {"clean", "release"}, Keeps \/ (Clean /\ rec' = NextStep)
      PROVE  o \in excused' \/ Exempt(o) \/ Ahead(o)'
  <2>1. excused \subseteq excused'
    BY <1>1, <1>3, DyingAtClean, ExcusesKept
  <2>2. CASE ~Ours(o)
    <3>1. PodPush /\ o = "image" /\ rec' = rec
      <4>1. Gains(o)
        BY <1>1, <2>2, Gained
      <4>2. PodPush /\ o = "image"
        BY <1>3, <4>1 DEF Gains, EnsureBuild, EnsureWrite
      <4> QED BY <4>2 DEF PodPush
    <3>2. ASSUME Ours("job"), "job" \notin excused PROVE Ahead("image")
      <4>1. "job" \in Object /\ ~Exempt("job")
        BY DEF Object, BuildObjects, Exempt
      <4>2. Ahead("job")
        BY <1>1, <1>3, <3>2, <4>1 DEF Covered, Handled
      <4>3. rec.sweep # <<>> /\ Len(rec.sweep) \in 1 .. Len(rec.sweep)
        <5>1. rec.sweep \in Seq(Guarded)
          BY <1>1, Parts DEF Local
        <5>2. PICK i : i \in 1 .. Len(rec.sweep)
          BY <4>2 DEF Ahead
        <5>3. Len(rec.sweep) \in Nat /\ Len(<<>>) = 0
          BY <5>1, LenProperties
        <5> QED BY <5>2, <5>3
      <4>4. Kind = "App"
        BY <1>1, <3>1, ConstantsAssumption DEF NoBuild, PodPush
      <4>5. ImageStep(rec.sweep[Len(rec.sweep)])
        BY <1>1, <4>3, <4>4 DEF SweepShape
      <4> QED BY <4>3, <4>5 DEF Ahead, Looks, ImageStep
    <3>3. "image" \in excused' \/ Ahead("image")
      BY <3>1, <3>2, LateImage
    <3> QED BY <3>1, <3>3 DEF Ahead, Looks
  <2>3. CASE Ours(o)
    <3>1. o \in excused \/ Exempt(o) \/ Ahead(o)
      BY <1>1, <1>3, <2>3 DEF Covered, Handled
    <3>2. CASE Ahead(o) /\ Keeps
      BY <3>2 DEF Keeps, Ahead, Looks
    <3>3. CASE Ahead(o) /\ Clean /\ rec' = NextStep
      <4>1. rec.at = "clean"
        BY <3>3 DEF Clean, CleanDelete, CleanSkip, CleanUnread, CleanFail
      <4>2. PICK i \in 1 .. Len(rec.sweep) : Looks(rec.sweep[i], o)
        BY <3>3 DEF Ahead
      <4>3. CASE i = 1
        <5>1. Looks(Step, o)
          BY <1>1, <4>1, <4>2, <4>3, NextStepTail
        <5> QED BY <3>3, <5>1, StepSettles
      <4>4. CASE i # 1
        <5>1. Len(rec.sweep) \in Nat \ {0}
          BY <1>1, <4>1, NextStepTail
        <5>2. /\ Len(rec.sweep) > 1 /\ i - 1 \in 1 .. Len(rec.sweep) - 1
              /\ (i - 1) + 1 = i
          BY <4>4, <5>1
        <5>3. /\ rec'.sweep = Tail(rec.sweep) /\ rec'.app = rec.app
              /\ Len(Tail(rec.sweep)) = Len(rec.sweep) - 1
              /\ Tail(rec.sweep)[i - 1] = rec.sweep[(i - 1) + 1]
          BY <1>1, <3>3, <4>1, <5>2, NextStepTail
        <5>4. rec'.sweep[i - 1] = rec.sweep[i] /\ i - 1 \in 1 .. Len(rec'.sweep)
          BY <5>2, <5>3
        <5>5. /\ rec'.sweep[i - 1].obj = o
              /\ rec'.sweep[i - 1].listed => o \in rec'.app.want
          BY <4>2, <5>3, <5>4 DEF Looks
        <5> QED BY <5>4, <5>5 DEF Ahead, Looks
      <4> QED BY <4>3, <4>4
    <3> QED BY <1>3, <2>1, <3>1, <3>2, <3>3
  <2> QED BY <2>2, <2>3
<1>4. CASE Keeps
  BY <1>3, <1>4 DEF Keeps
<1>5. CASE Clean /\ rec' = NextStep
  BY <1>3, <1>5 DEF Clean, CleanDelete, CleanSkip, CleanUnread, CleanFail
<1> QED BY <1>1, <1>2, <1>4, <1>5, SweepStep DEF Leaves

LEMMA LeftoversStep ==
    ASSUME CleanupInv, [Next]_vars
    PROVE  LeftoversExcused'
<1> SUFFICES ASSUME AppServer'.phase = "gone", NEW o \in Object, Ours(o)'
             PROVE  o \in excused' \/ Exempt(o)
  BY DEF LeftoversExcused, Exempt
<1>1. LifecycleInv /\ NewOwnsNothing /\ Covered /\ SweepShape /\ LeftoversExcused
      /\ ObjectInv
  BY Parts DEF CleanupInv
<1>2. CASE AppServer.phase = "gone"
  <2>1. excused \subseteq excused'
    BY <1>1, <1>2, ExcusesKept
  <2>2. CASE Ours(o)
    BY <1>1, <1>2, <2>1, <2>2 DEF LeftoversExcused, Exempt
  <2>3. CASE ~Ours(o)
    <3>1. rec.at \notin {"build", "ensure"}
      BY <1>1, <1>2, Parts DEF Local, CallInv
    <3>2. PodPush /\ o = "image"
      BY <1>1, <2>3, <3>1, Gained DEF Gains, EnsureBuild, EnsureWrite
    <3>3. Ours("job") => "job" \in excused
      BY <1>1, <1>2 DEF LeftoversExcused, Object, BuildObjects
    <3> QED BY <3>2, <3>3, LateImage
  <2> QED BY <2>2, <2>3
<1>3. CASE Delete /\ AppServer.phase = "new"
  <2>1. Ours(o)
    BY <1>1, <1>3, ObjectsSame DEF Delete, Ours
  <2> QED BY <1>1, <1>3, <2>1 DEF NewOwnsNothing
<1>4. CASE Release
  <2>1. Ours(o) /\ excused' = excused /\ rec.at = "release"
    BY <1>1, <1>4, ObjectsSame DEF Release, Ours
  <2>2. ~Ahead(o)
    <3>1. rec.sweep = <<>> /\ Len(<<>>) = 0
      BY <1>1, <2>1 DEF SweepShape
    <3>2. 1 .. Len(rec.sweep) = {}
      BY <3>1
    <3> QED BY <3>2 DEF Ahead
  <2> QED BY <1>1, <2>1, <2>2 DEF Covered, Handled
<1> QED BY <1>1, <1>2, <1>3, <1>4, AppStep

-----------------------------------------------------------------------------
LEMMA CleanupInit ==
    ASSUME Init
    PROVE  CleanupInv
<1>1. LifecycleInv
  BY InitLifecycle
<1>2. PICK w \in Want : appLog = <<[phase |-> "new", want |-> w]>>
  BY DEF Init
<1>3. /\ AppServer.phase = "new" /\ AppServer.want = w
      /\ Len(appLog) = 1 /\ appLog[1].phase = "new" /\ appLog[1].want = w
  BY <1>2 DEF AppServer
<1>4. /\ pod = "none" /\ rec.at = "idle" /\ rec.app.want = {} /\ rec.sweep = <<>>
      /\ \A o \in Object :
            objLog[o] = <<IF o \in Foreign THEN "foreign" ELSE "absent">>
  BY DEF Init, Idle, NoApp
<1>5. \A o \in Object : ~Ours(o)
  <2>1. \A v : <<v>>[Len(<<v>>)] = v
    OBVIOUS
  <2>2. \A o \in Object : Server(o) = IF o \in Foreign THEN "foreign" ELSE "absent"
    BY <1>4, <2>1, Zenon DEF Server
  <2> QED BY <2>2 DEF Ours
<1>6. NewOwnsNothing /\ Covered /\ SweepShape /\ LeftoversExcused
  BY <1>3, <1>4, <1>5 DEF NewOwnsNothing, Covered, SweepShape, LeftoversExcused
<1>7. NoBuild
  BY <1>4, <1>5 DEF NoBuild, Object, BuildObjects
<1>8. OwnLabels
  <2> SUFFICES ASSUME NEW o \in Object \ Foreign
               PROVE  objLog[o] \in Seq(Made(o))
    BY DEF OwnLabels
  <2>1. objLog[o] = <<"absent">> /\ "absent" \in Made(o)
    BY <1>4 DEF Made
  <2> QED BY <2>1
<1>9. \A i \in 1 .. Len(appLog) : i = 1
  BY <1>3
<1>10. Remembered /\ LastWish
  <2>1. \A o \in Forgotten : o \in Object
    BY DEF Forgotten, Object, Optional
  <2> QED BY <1>3, <1>4, <1>5, <1>9, <2>1
          DEF Remembered, LastWish, Held, Known
<1> QED BY <1>1, <1>6, <1>7, <1>8, <1>10 DEF CleanupInv

LEMMA CleanupStep ==
    ASSUME CleanupInv, [Next]_vars
    PROVE  CleanupInv'
<1>1. LifecycleInv'
  BY LifecycleStep DEF CleanupInv
<1>2. NewOwnsNothing' /\ NoBuild' /\ OwnLabels' /\ Remembered' /\ LastWish'
  BY NewStep, NoBuildStep, OwnLabelsStep, RememberedStep, LastWishStep
<1>3. Covered' /\ SweepShape' /\ LeftoversExcused'
  BY CoveredStep, SweepShapeStep, LeftoversStep
<1> QED BY <1>1, <1>2, <1>3 DEF CleanupInv

(* However creation, edits, cleanup, stale caches, failed calls, restarts  *)
(* and late pods interleave (cleanup.go:20, reconciler.go:114), an App     *)
(* that is gone has left nothing it owns behind but what has one of the    *)
(* excuses listed with LeftoversExcused.  What an edit took out of the     *)
(* spec is excused only if cleanup then does not look for it: never the    *)
(* ServiceAccount named like a ContainerApp (cleanup.go:66).               *)
THEOREM LeftoversAreExcused == Spec => []LeftoversExcused
<1>1. Init => CleanupInv
  BY CleanupInit
<1>2. CleanupInv /\ [Next]_vars => CleanupInv'
  BY CleanupStep
<1>3. CleanupInv => LeftoversExcused
  BY DEF CleanupInv
<1> QED BY <1>1, <1>2, <1>3, PTL DEF Spec
=============================================================================

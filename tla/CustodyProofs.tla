----------------------------- MODULE CustodyProofs -----------------------------
(***************************************************************************)
(* AppLifecycle implements Custody, for every kind, set of features,       *)
(* foreign objects, missing APIs and bound: CleanupInv says why the guards *)
(* of Custody hold when the operator, a pod or a late call takes a step.   *)
(* And what is in place for a living App stays, which is the half of       *)
(* Converges that needs no fairness.                                       *)
(***************************************************************************)
EXTENDS CleanupProofs

Owned == {o \in Object : Ours(o)}
Holding == UNCHANGED <<AppServer, excused>>
StillHeld == Holding /\ Owned' = Owned

(* What an accepted write of one object does to what the App owns. *)
LEMMA WriteOwned ==
    ASSUME LifecycleInv, NEW o \in Object, NEW owner \in Owner,
           WriteObject(o, owner)
    PROVE  Owned' = IF owner \in {"ours", "done"} THEN Owned \cup {o}
                                                  ELSE Owned \ {o}
<1>1. /\ Ours(o)' <=> owner \in {"ours", "done"}
      /\ \A p \in Object \ {o} : Ours(p)' <=> Ours(p)
  BY WriteOurs
<1> QED BY <1>1 DEF Owned

LEMMA SameOwned ==
    ASSUME \A o \in Object : Server(o)' = Server(o)
    PROVE  Owned' = Owned
BY SameOurs DEF Owned

LEMMA QuietOwned == UNCHANGED objLog => Owned' = Owned
BY DEF Owned, Ours, Server

(* The steps of Custody, by what they do. *)
LEMMA TakeStep ==
    ASSUME NEW o \in Object, AppServer.phase \in {"live", "terminating"},
           Holding, Owned' = Owned \cup {o}
    PROVE  CustodyOfApp!Next
<1>1. CustodyOfApp!Take(o)
  BY DEF CustodyOfApp!Take, Owned, Holding
<1> QED BY <1>1 DEF CustodyOfApp!Next

LEMMA YieldStep ==
    ASSUME NEW o \in Object, AppServer.phase # "new",
           Holding, Owned' = Owned \ {o}
    PROVE  CustodyOfApp!Next
<1>1. CustodyOfApp!Yield(o)
  BY DEF CustodyOfApp!Yield, Owned, Holding
<1> QED BY <1>1 DEF CustodyOfApp!Next

LEMMA MissStep ==
    ASSUME NEW o \in Object, AppServer.phase \in {"terminating", "gone"},
           UNCHANGED AppServer, Owned' = Owned, o \in Owned,
           excused' = excused \cup {o}
    PROVE  CustodyOfApp!Next
<1>1. CustodyOfApp!Miss(o)
  BY DEF CustodyOfApp!Miss, Owned
<1> QED BY <1>1 DEF CustodyOfApp!Next

LEMMA KeepStep ==
    ASSUME StillHeld
    PROVE  UNCHANGED CustodyOfApp!vars
BY DEF StillHeld, Holding, Owned, CustodyOfApp!vars

-----------------------------------------------------------------------------
(***************************************************************************)
(* The steps of the operator, the pod and the user.                        *)
(***************************************************************************)
Implements == CustodyOfApp!Next \/ UNCHANGED CustodyOfApp!vars

LEMMA BuildTakes ==
    ASSUME LifecycleInv, EnsureBuild PROVE Implements
<1>1. /\ AppServer.phase \in {"live", "terminating"}
      /\ "job" \in Object /\ "ours" \in Owner
  BY Parts DEF Local, CallInv, EnsureBuild, Object, BuildObjects, Owner
<1>2. Holding
  BY DEF EnsureBuild, Holding, AppServer
<1>3. CASE WriteObject("job", "ours")
  BY <1>1, <1>2, <1>3, WriteOwned, TakeStep DEF Implements
<1>4. CASE UNCHANGED objLog
  BY <1>2, <1>4, QuietOwned, KeepStep DEF StillHeld, Implements
<1> QED BY <1>3, <1>4 DEF EnsureBuild

LEMMA EnsureTakesOrYields ==
    ASSUME LifecycleInv, EnsureWrite PROVE Implements
<1>1. /\ AppServer.phase \in {"live", "terminating"}
      /\ Item \in Object /\ "ours" \in Owner /\ "absent" \in Owner
  BY Parts, ItemGood DEF Local, CallInv, EnsureWrite, Owner
<1>2. Holding
  BY DEF EnsureWrite, Holding, AppServer
<1>3. CASE WriteObject(Item, "ours")
  BY <1>1, <1>2, <1>3, WriteOwned, TakeStep DEF Implements
<1>4. CASE WriteObject(Item, "absent")
  BY <1>1, <1>2, <1>4, WriteOwned, YieldStep DEF Implements
<1>5. CASE UNCHANGED objLog
  BY <1>2, <1>5, QuietOwned, KeepStep DEF StillHeld, Implements
<1> QED BY <1>3, <1>4, <1>5 DEF EnsureWrite

(* A cleanup finds the App dying, or gone, however old its copy is. *)
LEMMA CleanupFindsDying ==
    ASSUME LifecycleInv, rec.at \in {"clean", "release"}
    PROVE  AppServer.phase \in {"terminating", "gone"}
<1>1. AppInv /\ Head(appLog).phase \in {"terminating", "gone"}
  BY Parts DEF Local, CallInv
<1>2. Head(appLog) = appLog[1] /\ Len(appLog) \in Nat \ {0}
  BY <1>1, AppEnds
<1>3. appLog[1] = AppServer \/ AppServer.phase \in Follows(appLog[1].phase)
  BY <1>1, <1>2, AppOrder
<1> QED BY <1>1, <1>2, <1>3 DEF Follows

LEMMA CleanYieldsOrMisses ==
    ASSUME LifecycleInv, Clean PROVE Implements
<1>1. /\ rec.at = "clean" /\ AppServer' = AppServer
      /\ AppServer.phase \in {"terminating", "gone"}
  BY CleanupFindsDying
     DEF Clean, CleanDelete, CleanSkip, CleanUnread, CleanFail, AppServer
<1>2. Step.obj \in Object /\ "absent" \in Owner
  BY <1>1, Parts, StepGood DEF Guarded, CleanStep, Owner
<1>3. CASE CleanDelete
  <2>1. Holding
    BY <1>1, <1>3 DEF CleanDelete, Holding
  <2>2. CASE WriteObject(Step.obj, "absent")
    BY <1>1, <1>2, <2>1, <2>2, WriteOwned, YieldStep DEF Implements
  <2>3. CASE UNCHANGED objLog
    BY <2>1, <2>3, QuietOwned, KeepStep DEF StillHeld, Implements
  <2> QED BY <1>3, <2>2, <2>3 DEF CleanDelete
<1>4. CASE CleanSkip \/ CleanUnread \/ CleanFail
  <2>1. /\ Owned' = Owned
        /\ excused' = excused \/ excused' = excused \cup Left(Step.obj)
    BY <1>4, QuietOwned DEF CleanSkip, CleanUnread, CleanFail
  <2>2. CASE excused' = excused
    BY <1>1, <2>1, <2>2, KeepStep DEF StillHeld, Holding, Implements
  <2>3. CASE excused' = excused \cup {Step.obj} /\ Ours(Step.obj)
    <3>1. Step.obj \in Owned
      BY <1>2, <2>3 DEF Owned
    <3> QED BY <1>1, <1>2, <2>1, <2>3, <3>1, MissStep DEF Implements
  <2> QED BY <2>1, <2>2, <2>3 DEF Left
<1> QED BY <1>3, <1>4 DEF Clean

(* A pod pushes: its App has its finalizer, or the image is pardoned. *)
LEMMA PodTakes ==
    ASSUME CleanupInv, PodPush PROVE Implements
<1>1. /\ LifecycleInv /\ NewOwnsNothing /\ OwnLabels /\ LeftoversExcused
      /\ AppServer' = AppServer
  BY DEF CleanupInv, PodPush, AppServer
<1>2. "image" \in Object /\ "job" \in Object /\ "ours" \in Owner
  BY DEF Object, BuildObjects, Owner
<1>3. AppServer.phase # "new" /\ AppServer.phase
         \in {"new", "live", "terminating", "gone"}
  <2>1. AppServer \in App
    BY <1>1, Parts, AppEnds
  <2> QED BY <1>1, <2>1 DEF NewOwnsNothing, PodPush, App
<1>4. Owned' = Owned \cup {"image"}
  BY <1>1, <1>2, WriteOwned DEF PodPush
<1>5. CASE Server("job") = "absent" \/ "job" \in excused
  <2>1. excused' = excused \cup {"image"}
    BY <1>5 DEF PodPush
  <2>2. CustodyOfApp!Arrive("image")
    BY <1>1, <1>3, <1>4, <2>1 DEF CustodyOfApp!Arrive, Owned
  <2> QED BY <1>2, <2>2 DEF CustodyOfApp!Next, Implements
<1>6. CASE ~(Server("job") = "absent" \/ "job" \in excused)
  <2>1. Holding
    BY <1>1, <1>6 DEF PodPush, Holding
  <2>2. Ours("job")
    <3>1. "job" \notin Foreign
      BY ConstantsAssumption
    <3>2. objLog["job"] \in Seq({"absent", "ours", "done"})
      BY <1>1, <1>2, <3>1 DEF OwnLabels, Made
    <3>3. objLog["job"] # <<>>
      BY <1>1, <1>2 DEF LifecycleInv, TypeOK
    <3>4. Server("job") \in {"absent", "ours", "done"}
      BY <3>2, <3>3, LogEnds DEF Server
    <3> QED BY <1>6, <3>4 DEF Ours
  <2>3. AppServer.phase # "gone"
    BY <1>1, <1>2, <1>6, <2>2 DEF LeftoversExcused
  <2> QED BY <1>2, <1>3, <1>4, <2>1, <2>3, TakeStep DEF Implements
<1> QED BY <1>5, <1>6

LEMMA PodImplements ==
    ASSUME CleanupInv, Pod PROVE Implements
<1>1. LifecycleInv
  BY DEF CleanupInv
<1>2. CASE PodStart \/ PodKilled
  BY <1>2, QuietOwned, KeepStep
     DEF PodStart, PodKilled, StillHeld, Holding, AppServer, Implements
<1>3. CASE JobComplete
  <2>1. "job" \in Object /\ "done" \in Owner
    BY DEF Object, BuildObjects, Owner
  <2>2. WriteObject("job", "done") /\ "job" \in Owned
    BY <1>3, <2>1 DEF JobComplete, Ours, Owned
  <2>3. Owned' = Owned
    BY <1>1, <2>1, <2>2, WriteOwned
  <2> QED BY <1>3, <2>3, KeepStep
          DEF JobComplete, StillHeld, Holding, AppServer, Implements
<1> QED BY <1>2, <1>3, PodTakes DEF Pod

-----------------------------------------------------------------------------
(* The App itself. *)
LEMMA PhaseStep ==
    ASSUME CleanupInv, CleanupInv', AddFinalizer \/ Release \/ User
    PROVE  Implements
<1>1. /\ LifecycleInv /\ AppInv /\ AppServer \in App
      /\ rec.app \in App /\ (rec.fresh => rec.app = AppServer)
      /\ rec.at = "add" => rec.app.phase = "new"
      /\ rec.at = "release" => rec.app.phase = "terminating"
  BY Parts, AppEnds DEF CleanupInv, Local, CallInv, Call
<1>2. Owned' = Owned
  BY QuietOwned DEF AddFinalizer, Release, User, Edit, Delete
<1>3. CASE UNCHANGED <<appLog, excused>>
  BY <1>2, <1>3, KeepStep DEF StillHeld, Holding, AppServer, Implements
<1>4. CASE AddFinalizer
  <2> DEFINE a == [rec.app EXCEPT !.phase = "live"]
  <2>1. CASE rec.fresh /\ WriteApp(a)
    <3>1. a \in App /\ a.phase = "live" /\ AppServer.phase = "new"
      BY <1>1, <1>4, <2>1 DEF App, AddFinalizer
    <3> HIDE DEF a
    <3>2. AppServer' = a
      BY <1>1, <2>1, <3>1, AppWritten
    <3>3. CustodyOfApp!Protect
      BY <1>2, <1>4, <3>1, <3>2 DEF CustodyOfApp!Protect, Owned, AddFinalizer
    <3> QED BY <3>3 DEF CustodyOfApp!Next, Implements
  <2> QED BY <1>3, <1>4, <2>1 DEF AddFinalizer
<1>5. CASE Release
  <2> DEFINE a == [rec.app EXCEPT !.phase = "gone"]
  <2>1. CASE rec.fresh /\ WriteApp(a)
    <3>1. a \in App /\ a.phase = "gone" /\ AppServer.phase = "terminating"
      BY <1>1, <1>5, <2>1 DEF App, Release
    <3> HIDE DEF a
    <3>2. AppServer' = a /\ excused' = excused
      BY <1>1, <1>5, <2>1, <3>1, AppWritten DEF Release
    <3>3. \A o \in Object : Ours(o)' => o \in excused \/ (Kind = "App" /\ o = "claim")
      BY <3>1, <3>2 DEF CleanupInv, LeftoversExcused
    <3>4. Owned \subseteq excused \cup (IF Kind = "App" THEN {"claim"} ELSE {})
      <4>1. \A o \in Owned : o \in Object /\ Ours(o)'
        BY <1>2 DEF Owned
      <4> QED BY <3>3, <4>1
    <3>5. CustodyOfApp!LetGo
      BY <1>2, <3>1, <3>2, <3>4 DEF CustodyOfApp!LetGo, Owned
    <3> QED BY <3>5 DEF CustodyOfApp!Next, Implements
  <2> QED BY <1>3, <1>5, <2>1 DEF Release
<1>6. CASE Delete
  <2> DEFINE a == [AppServer EXCEPT !.phase = IF @ = "new" THEN "gone"
                                                          ELSE "terminating"]
  <2>1. /\ a \in App
        /\ a.phase = IF AppServer.phase = "new" THEN "gone" ELSE "terminating"
    BY <1>1 DEF App
  <2>2. WriteApp(a)
    BY <1>6 DEF Delete
  <2> HIDE DEF a
  <2>3. AppServer' = a
    BY <1>1, <2>1, <2>2, AppWritten
  <2>4. CustodyOfApp!Die
    BY <1>2, <1>6, <2>1, <2>3 DEF Delete, CustodyOfApp!Die, Owned
  <2> QED BY <2>4 DEF CustodyOfApp!Next, Implements
<1>7. ASSUME NEW w \in Want, Edit(w) PROVE Implements
  <2> DEFINE a == [AppServer EXCEPT !.want = w]
  <2>1. a \in App /\ a.phase = AppServer.phase
    BY <1>1 DEF App
  <2>2. WriteApp(a)
    BY <1>7 DEF Edit
  <2> HIDE DEF a
  <2>3. AppServer' = a
    BY <1>1, <2>1, <2>2, AppWritten
  <2>4. CustodyOfApp!Respec
    BY <1>2, <1>7, <2>1, <2>3 DEF Edit, CustodyOfApp!Respec, Owned
  <2> QED BY <2>4 DEF CustodyOfApp!Next, Implements
<1> QED BY <1>4, <1>5, <1>6, <1>7 DEF User

LEMMA StepKeepsCustody ==
    ASSUME CleanupInv, [Next]_vars
    PROVE  Implements
<1>1. LifecycleInv /\ AppInv /\ ObjectInv /\ Local
  BY Parts DEF CleanupInv
<1>2. CleanupInv'
  BY CleanupStep
<1>3. CASE Deliver \/ Crash
  <2>1. Owned' = Owned
    BY <1>1, <1>3, DeliverInv, CrashInv, SameOwned
  <2>2. AppServer' = AppServer
    BY <1>1, <1>3, AppKept DEF Deliver, DeliverObject
  <2> QED BY <1>3, <2>1, <2>2, KeepStep
          DEF Deliver, DeliverApp, DeliverObject, Crash, StillHeld, Holding,
              Implements
<1>4. CASE UNCHANGED <<appLog, objLog, excused>>
  BY <1>4, QuietOwned, KeepStep DEF StillHeld, Holding, AppServer, Implements
<1>5. CASE Reconcile \/ EnsureNothing \/ EnsureRefused \/ EnsureFail \/ Fail
           \/ UNCHANGED vars
  BY <1>4, <1>5 DEF Reconcile, EnsureNothing, EnsureRefused, EnsureFail, Fail,
                    vars
<1>6. CASE EnsureBuild \/ EnsureWrite \/ Clean
  BY <1>1, <1>6, BuildTakes, EnsureTakesOrYields, CleanYieldsOrMisses
<1> QED BY <1>2, <1>3, <1>5, <1>6, PodImplements, PhaseStep
        DEF Next, Operate, Ensure

LEMMA InitCustody == ASSUME Init PROVE CustodyOfApp!Init
<1>1. PICK w \in Want : appLog = <<[phase |-> "new", want |-> w]>>
  BY DEF Init
<1>2. AppServer.phase = "new"
  BY <1>1 DEF AppServer
<1>3. \A o \in Object : Server(o) \in {"absent", "foreign"}
  BY DEF Init, Server
<1>4. {o \in Object : Ours(o)} = {}
  BY <1>3 DEF Ours
<1> QED BY <1>2, <1>4 DEF Init, CustodyOfApp!Init

(* The operator implements the abstract custody of its objects, under the  *)
(* mapping phase, owned, pardoned <- the server's App, what the server has *)
(* of it, and the recorded excuses.                                        *)
THEOREM LifecycleKeepsCustody == Spec => KeepsCustody
<1>1. Init => CleanupInv /\ CustodyOfApp!Init
  BY CleanupInit, InitCustody
<1>2. CleanupInv /\ [Next]_vars => CleanupInv'
  BY CleanupStep
<1>3. CleanupInv /\ [Next]_vars
         => [CustodyOfApp!Next]_(CustodyOfApp!vars)
  BY StepKeepsCustody DEF Implements
<1> QED BY <1>1, <1>2, <1>3, PTL DEF Spec, KeepsCustody, CustodyOfApp!Spec

(* Custody promises what a user of the operator relies on: whoever keeps   *)
(* custody in its sense leaves nothing behind that is not excused.         *)
Accounted == /\ AppServer.phase = "new" => Owned = {}
             /\ LeftoversExcused

LEMMA AccountedStep ==
    ASSUME Accounted, [CustodyOfApp!Next]_(CustodyOfApp!vars)
    PROVE  Accounted'
<1> DEFINE kept == IF Kind = "App" THEN {"claim"} ELSE {}
           Clear == AppServer.phase = "gone" => Owned \subseteq excused \cup kept
<1>1. (LeftoversExcused <=> Clear) /\ (LeftoversExcused' <=> Clear')
  BY DEF LeftoversExcused, Owned
<1>2. (AppServer.phase = "new" => Owned = {}) /\ Clear
  BY <1>1 DEF Accounted
<1>3. (AppServer.phase = "new" => Owned = {})' /\ Clear'
  <2>1. CASE UNCHANGED CustodyOfApp!vars
    BY <1>2, <2>1 DEF CustodyOfApp!vars, Owned
  <2>2. CASE CustodyOfApp!Protect \/ CustodyOfApp!Die \/ CustodyOfApp!Respec
             \/ CustodyOfApp!LetGo
    BY <1>2, <2>2 DEF CustodyOfApp!Protect, CustodyOfApp!Die,
                      CustodyOfApp!Respec, CustodyOfApp!LetGo, Owned
  <2>3. ASSUME NEW o \in Object,
               CustodyOfApp!Take(o) \/ CustodyOfApp!Yield(o)
                  \/ CustodyOfApp!Arrive(o) \/ CustodyOfApp!Miss(o)
        PROVE  (AppServer.phase = "new" => Owned = {})' /\ Clear'
    BY <1>2, <2>3 DEF CustodyOfApp!Take, CustodyOfApp!Yield,
                      CustodyOfApp!Arrive, CustodyOfApp!Miss, Owned
  <2> QED BY <2>1, <2>2, <2>3 DEF CustodyOfApp!Next
<1> QED BY <1>1, <1>3 DEF Accounted

THEOREM CustodyExcuses == CustodyOfApp!Spec => []LeftoversExcused
<1>1. CustodyOfApp!Init => Accounted
  BY DEF CustodyOfApp!Init, Accounted, LeftoversExcused, Owned
<1>2. Accounted /\ [CustodyOfApp!Next]_(CustodyOfApp!vars) => Accounted'
  BY AccountedStep
<1>3. Accounted => LeftoversExcused
  BY DEF Accounted
<1> QED BY <1>1, <1>2, <1>3, PTL DEF CustodyOfApp!Spec

-----------------------------------------------------------------------------
(***************************************************************************)
(* What is in place stays.  While the App lives and no old copy of it is   *)
(* on its way, no cleanup is in progress and none can begin: every copy    *)
(* the operator can read has the finalizer and no deletionTimestamp.       *)
(***************************************************************************)
InPlace == LifecycleInv /\ Informed /\ AppServer.phase = "live"

LEMMA NoCleanup ==
    ASSUME InPlace
    PROVE  Head(appLog) = AppServer /\ rec.at \notin {"clean", "release"}
<1>1. AppInv /\ Local
  BY Parts DEF InPlace
<1>2. Head(appLog) = AppServer
  BY <1>1, AppEnds DEF InPlace, Informed
<1> QED BY <1>1, <1>2 DEF InPlace, Local, CallInv

(* Which copy of the App a call that builds or ensures works on.           *)
LEMMA WorkingCopy ==
    ASSUME InPlace, [Next]_vars, rec'.at \in {"build", "ensure"}
    PROVE  \/ rec.at \in {"build", "ensure"} /\ rec'.app.want = rec.app.want
           \/ rec'.app.want = AppServer.want
<1>1. /\ AppInv /\ Local /\ rec \in Call /\ Idle.at = "idle"
      /\ Head(appLog) = AppServer /\ rec.at \notin {"clean", "release"}
  BY Parts, NoCleanup DEF InPlace, Local, Idle
<1>2. CASE rec'.app.want = rec.app.want /\ rec'.at = rec.at
  BY <1>2
<1>3. CASE rec' = Idle
  BY <1>1, <1>3
<1>4. CASE Ensure \/ EnsureFail
  <2>1. rec.at = "ensure" /\ (rec' = NextItem \/ rec' = Idle)
    BY <1>4 DEF Ensure, EnsureWrite, EnsureNothing, EnsureRefused, EnsureFail, Go
  <2>2. NextItem = Idle \/ NextItem.app = rec.app
    BY <1>1 DEF NextItem, Call
  <2> QED BY <1>3, <2>1, <2>2
<1>5. CASE Reconcile
  <2>1. rec'.app.want \in {{}, rec.app.want, AppServer.want} /\ rec.at = "idle"
    BY <1>1, <1>5, CallStep DEF InPlace, Reconcile
  <2> DEFINE r == [Idle EXCEPT !.app = Head(appLog), !.fresh = Len(appLog) = 1]
  <2>2. rec' = Begin(r) \/ rec'.at = "add"
    BY <1>1, <1>5 DEF Reconcile, Go, HasFinalizer, InPlace, Idle
  <2>3. Begin(r).app = AppServer
    BY <1>1 DEF Begin, Idle
  <2> HIDE DEF r
  <2> QED BY <2>2, <2>3
<1>6. CASE AddFinalizer
  <2>1. ~rec.fresh
    BY <1>1, <1>6 DEF AddFinalizer, Local, CallInv, InPlace
  <2> QED BY <1>3, <1>6, <2>1 DEF AddFinalizer, Go
<1>7. CASE User
  <2>1. rec' = [rec EXCEPT !.fresh = FALSE]
    BY <1>7 DEF User, Edit, Delete
  <2> QED BY <1>1, <1>2, <2>1 DEF Call
<1>8. CASE EnsureBuild
  <2>1. rec' = [rec EXCEPT !.at = "ensure", !.todo = EnsureSteps] \/ rec' = Idle
    BY <1>8 DEF EnsureBuild, Go
  <2> QED BY <1>1, <1>3, <1>8, <2>1 DEF Call, EnsureBuild
<1>9. CASE UNCHANGED rec
  BY <1>2, <1>9
<1>10. ~Clean /\ ~Release
  BY <1>1 DEF Clean, CleanDelete, CleanSkip, CleanUnread, CleanFail, Release
<1> QED BY <1>3, <1>4, <1>5, <1>6, <1>7, <1>8, <1>9, <1>10
        DEF Next, Deliver, DeliverApp, DeliverObject, Operate, Pod,
            PodStart, PodPush, JobComplete, PodKilled, Fail, Crash, Go, vars

LEMMA InformedStep ==
    ASSUME InPlace, [Next]_vars, AppServer' = AppServer
    PROVE  Informed'
<1>1. \A i \in 1 .. Len(appLog') : appLog'[i] = AppServer'
  BY AppStep DEF InPlace, Informed
<1>2. rec'.at \in {"build", "ensure"} => rec'.app.want = AppServer'.want
  BY WorkingCopy DEF InPlace, Informed
<1> QED BY <1>1, <1>2 DEF Informed

(* What a step can do to an object of such an App on the server.           *)
LEMMA ObjectMoves ==
    ASSUME InPlace, [Next]_vars, NEW o \in Object
    PROVE  \/ Server(o)' = Server(o) \/ o \in BuildObjects
           \/ o \in Core \cup AppServer.want /\ Server(o)' # "absent"
           \/ o \notin Core \cup AppServer.want /\ Server(o)' = "absent"
<1>1. AppInv /\ ObjectInv /\ Local /\ rec.at \notin {"clean", "release"}
  BY Parts, NoCleanup DEF InPlace
<1>2. CASE Deliver \/ Crash
  BY <1>1, <1>2, DeliverInv, CrashInv
<1>3. CASE EnsureBuild \/ Pod
  <2>1. CASE UNCHANGED objLog
    BY <2>1 DEF Server
  <2>2. PICK p \in BuildObjects, owner \in Owner : WriteObject(p, owner)
             \/ UNCHANGED objLog
    BY <1>3 DEF EnsureBuild, Pod, PodStart, PodPush, JobComplete, PodKilled,
                BuildObjects, Owner
  <2>3. p \in Object
    BY DEF Object
  <2> QED BY <1>1, <2>1, <2>2, <2>3, ServerWritten
<1>4. CASE EnsureWrite
  <2>1. /\ Item \in Object /\ "ours" \in Owner /\ "absent" \in Owner
        /\ rec.app.want = AppServer.want
    BY <1>1, <1>4, ItemGood DEF EnsureWrite, Owner, InPlace, Informed
  <2>2. CASE Creates(Item) /\ WriteObject(Item, "ours")
    <3>1. Item \in Core \cup AppServer.want
      BY <2>1, <2>2 DEF Creates, Applies, CreatesMissing, Asked
    <3> QED BY <1>1, <2>1, <2>2, <3>1, ServerWritten
  <2>3. CASE Removes(Item) /\ WriteObject(Item, "absent")
    <3>1. Item \notin Core \cup AppServer.want
      BY <2>1, <2>3 DEF Removes, RemovesIngress, RemovesHPA, RemovesRoute, Asked
    <3> QED BY <1>1, <2>1, <2>3, <3>1, ServerWritten
  <2>4. CASE UNCHANGED objLog
    BY <2>4 DEF Server
  <2> QED BY <1>4, <2>2, <2>3, <2>4 DEF EnsureWrite
<1>5. CASE UNCHANGED objLog
  BY <1>5 DEF Server
<1>6. ~Clean
  BY <1>1 DEF Clean, CleanDelete, CleanSkip, CleanUnread, CleanFail
<1> QED BY <1>2, <1>3, <1>4, <1>5, <1>6
        DEF Next, Operate, Ensure, EnsureNothing, EnsureRefused, EnsureFail,
            Reconcile, AddFinalizer, Release, User, Edit, Delete, Fail, vars

LEMMA AsAskedStep ==
    ASSUME InPlace, [Next]_vars, AppServer' = AppServer,
           NEW o \in Object, AsAsked(o)
    PROVE  AsAsked(o)'
<1>1. o \notin BuildObjects \/ /\ o \notin Core \cup AppServer.want
                               /\ o \notin {"ingress", "route", "hpa"}
  <2>1. AppServer.want \subseteq Optional
    BY Parts, AppEnds, ConstantsAssumption DEF InPlace, App, Want
  <2> QED BY <2>1 DEF BuildObjects, Core, Optional
<1>2. "ingress" \notin Core /\ "route" \notin Core /\ "hpa" \notin Core
  BY DEF Core
<1> QED BY <1>1, <1>2, ObjectMoves DEF AsAsked

(* What is in place for a living App stays in place, whatever fails and    *)
(* however late the watch streams are: the half of Converges that needs no *)
(* fairness (TLC checks that the state is reached).                        *)
THEOREM SettledLasts == Spec => StaysSettled
<1> DEFINE Kept == Informed /\ AppServer.phase = "live" /\ AppServer' = AppServer
                      => /\ Informed'
                         /\ \A o \in Object : AsAsked(o) => AsAsked(o)'
<1>1. LifecycleInv /\ [Next]_vars => [Kept]_vars
  BY InformedStep, AsAskedStep DEF InPlace
<1> QED BY <1>1, LifecycleInvariance, PTL DEF Spec, StaysSettled
=============================================================================

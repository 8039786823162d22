-------------------------- MODULE AppLifecycleProofs --------------------------
(***************************************************************************)
(* LifecycleInv is an invariant of AppLifecycle for every kind, every set  *)
(* of features and every bound; what follows from it.                      *)
(*                                                                         *)
(* The invariant is kept in three parts: the log of the App, the logs of   *)
(* the objects, and the call in progress.  An action is shown to keep each *)
(* of the parts it touches.                                                *)
(***************************************************************************)
EXTENDS AppLifecycle, SequenceTheorems, TLAPS

AppInv == appLog \in Seq(App) /\ appLog # <<>> /\ PhaseOrder
ObjectInv == /\ objLog \in [Object -> Seq(Owner)]
             /\ \A o \in Object : objLog[o] # <<>>
             /\ \A o \in Foreign \cap Labelled : objLog[o] \in Seq({"foreign"})
Rest == /\ pod \in {"none", "running", "pushed"}
        /\ excused \in SUBSET Object
        /\ edits \in Nat /\ faults \in Nat
Local == rec \in Call /\ rec.sweep \in Seq(Guarded) /\ CallInv

LEMMA Parts == LifecycleInv <=> AppInv /\ ObjectInv /\ Rest /\ Local
BY DEF LifecycleInv, AppInv, ObjectInv, Rest, Local, TypeOK, OwnerInv

LEMMA PartsNext == AppInv' /\ ObjectInv' /\ Rest' /\ Local' => LifecycleInv'
BY DEF LifecycleInv, AppInv, ObjectInv, Rest, Local, TypeOK, OwnerInv

-----------------------------------------------------------------------------
(* A log that a version is appended to. *)
LEMMA AppendLog ==
    ASSUME NEW S, NEW log \in Seq(S), log # <<>>, NEW v \in S
    PROVE  /\ Append(log, v) \in Seq(S) /\ Append(log, v) # <<>>
           /\ Len(Append(log, v)) = Len(log) + 1
           /\ Head(Append(log, v)) = Head(log)
           /\ Append(log, v)[Len(Append(log, v))] = v
           /\ \A i \in 1 .. Len(log) : Append(log, v)[i] = log[i]
<1>1. Len(log) \in Nat \ {0}
  BY EmptySeq
<1>2. /\ Append(log, v) \in Seq(S) /\ Append(log, v) # <<>>
      /\ Len(Append(log, v)) = Len(log) + 1
      /\ Append(log, v)[Len(log) + 1] = v
      /\ \A i \in 1 .. Len(log) : Append(log, v)[i] = log[i]
  BY AppendProperties
<1> QED BY <1>1, <1>2

(* A log whose first version is delivered. *)
LEMMA TailLog ==
    ASSUME NEW S, NEW log \in Seq(S), Len(log) > 1
    PROVE  /\ Tail(log) \in Seq(S) /\ Tail(log) # <<>>
           /\ Len(Tail(log)) = Len(log) - 1
           /\ \A i \in 1 .. Len(log) - 1 : Tail(log)[i] = log[i + 1]
           /\ Tail(log)[Len(Tail(log))] = log[Len(log)]
           /\ Head(Tail(log)) = log[2]
<1>1. Len(log) \in Nat /\ log # <<>>
  <2>1. Len(log) \in Nat
    BY LenProperties
  <2>2. Len(<<>>) = 0
    OBVIOUS
  <2> QED BY <2>1, <2>2
<1>2. /\ Tail(log) \in Seq(S) /\ Len(Tail(log)) = Len(log) - 1
      /\ \A i \in 1 .. Len(Tail(log)) : Tail(log)[i] = log[i + 1]
  BY <1>1, HeadTailProperties
<1>3. Tail(log) # <<>>
  <2> SUFFICES ASSUME Tail(log) = <<>> PROVE FALSE
    OBVIOUS
  <2>1. Len(Tail(log)) = 0
    <3>1. Len(<<>>) = 0
      OBVIOUS
    <3> QED BY <3>1, Zenon
  <2> QED BY <1>1, <1>2, <2>1
<1> QED BY <1>1, <1>2, <1>3

LEMMA LogEnds ==
    ASSUME NEW S, NEW log \in Seq(S), log # <<>>
    PROVE  /\ Len(log) \in Nat \ {0}
           /\ Head(log) \in S /\ Head(log) = log[1]
           /\ log[Len(log)] \in S
           /\ Len(log) = 1 \/ (Len(log) > 1 /\ Len(log) # 1)
<1>1. Len(log) \in Nat \ {0}
  BY EmptySeq
<1>2. \A n \in Nat \ {0} : n = 1 \/ (n > 1 /\ n # 1)
  OBVIOUS
<1>3. /\ Head(log) \in S /\ Head(log) = log[1]
      /\ log[Len(log)] \in S
  BY <1>1, ElementOfSeq, HeadTailProperties
<1> QED BY <1>1, <1>2, <1>3, Zenon

(* The objects EnsureRuntime goes through, and the steps of a cleanup. *)
LEMMA EnsureStepsGood == EnsureSteps \in Seq(Object) /\ EnsureSteps # <<>>
BY DEF EnsureSteps, Object, Core, Optional, BuildObjects

LEMMA GuardedSteps ==
    /\ \A o \in Object \ Labelled : Always(o) \in Guarded
    /\ \A o \in Object \ Labelled : Logged(Always(o)) \in Guarded
    /\ \A o \in Object \ Labelled : IfListed(o) \in Guarded
    /\ \A o \in Labelled : IfOwned(o) \in Guarded
    /\ [Always("account") EXCEPT !.owned = TRUE] \in Guarded
<1>1. Labelled \subseteq Object /\ "account" \in Labelled
  BY DEF Object, Optional, Labelled, Accounts
<1> QED BY <1>1 DEF Guarded, CleanStep, Always, IfListed, IfOwned, Logged

LEMMA CleanStepsGood == CleanSteps \in Seq(Guarded) /\ CleanSteps # <<>>
<1>0. /\ {"deployment", "service", "ingress", "route", "hpa", "job", "raw",
          "image", "claim", "binding", "clusterrole", "clusterbinding"}
            \subseteq Object \ Labelled
      /\ {"role", "account", "named"} \subseteq Labelled
  BY DEF Object, Core, Optional, BuildObjects, Labelled, Accounts
<1>1. /\ IfListed("clusterbinding") \in Guarded
      /\ IfListed("clusterrole") \in Guarded
      /\ IfListed("binding") \in Guarded /\ IfOwned("role") \in Guarded
      /\ IfOwned("account") \in Guarded /\ IfOwned("named") \in Guarded
  BY <1>0, GuardedSteps
<1>2. CleanRBAC \in Seq(Guarded)
  BY <1>1 DEF CleanRBAC
<1>3. /\ Always("deployment") \in Guarded /\ Always("service") \in Guarded
      /\ Always("ingress") \in Guarded /\ Logged(Always("route")) \in Guarded
      /\ Always("hpa") \in Guarded /\ Logged(Always("job")) \in Guarded
      /\ IfListed("raw") \in Guarded /\ Logged(Always("image")) \in Guarded
      /\ [Always("account") EXCEPT !.owned = TRUE] \in Guarded
      /\ IfListed("claim") \in Guarded
  BY <1>0, GuardedSteps
<1> DEFINE first == <<Always("deployment"), Always("service"),
                      Always("ingress"), Logged(Always("route")),
                      Always("hpa"), Logged(Always("job"))>>
<1>4. /\ first \in Seq(Guarded) /\ CleanRuntime \in Seq(Guarded)
      /\ CleanResources \in Seq(Guarded) /\ CleanRegistry \in Seq(Guarded)
  BY <1>3 DEF CleanRuntime, CleanResources, CleanRegistry
<1>5. /\ Len(first) = 6 /\ Len(CleanRuntime) = 7 /\ Len(CleanResources) = 1
      /\ Len(CleanRBAC) = 6 /\ Len(CleanRegistry) = 1
  BY DEF CleanRuntime, CleanResources, CleanRBAC, CleanRegistry
<1> HIDE DEF first
<1>6. Len(<<>>) = 0
  OBVIOUS
<1>7. CASE Kind = "App"
  <2> DEFINE second == first \o CleanResources
             third == second \o CleanRBAC
  <2>1. second \in Seq(Guarded) /\ Len(second) = 7
    <3>1. second \in Seq(Guarded) /\ Len(second) = Len(first) + Len(CleanResources)
      BY <1>4, ConcatProperties, Zenon
    <3> QED BY <1>5, <3>1
  <2> HIDE DEF second
  <2>2. third \in Seq(Guarded) /\ Len(third) = 13
    <3>1. third \in Seq(Guarded) /\ Len(third) = Len(second) + Len(CleanRBAC)
      BY <1>2, <2>1, ConcatProperties, Zenon
    <3> QED BY <1>5, <2>1, <3>1
  <2> HIDE DEF third
  <2>3. third \o CleanRegistry \in Seq(Guarded) /\ Len(third \o CleanRegistry) = 14
    <3>1. /\ third \o CleanRegistry \in Seq(Guarded)
          /\ Len(third \o CleanRegistry) = Len(third) + Len(CleanRegistry)
      BY <1>4, <2>2, ConcatProperties, Zenon
    <3> QED BY <1>5, <2>2, <3>1
  <2>4. CleanSteps = third \o CleanRegistry
    BY <1>7, Zenon DEF CleanSteps, CleanApp, first, second, third
  <2> QED BY <1>6, <2>3, <2>4
<1>8. CASE Kind # "App"
  <2> DEFINE second == CleanRuntime \o CleanResources
  <2>1. second \in Seq(Guarded) /\ Len(second) = 8
    <3>1. /\ second \in Seq(Guarded)
          /\ Len(second) = Len(CleanRuntime) + Len(CleanResources)
      BY <1>4, ConcatProperties, Zenon
    <3> QED BY <1>5, <3>1
  <2> HIDE DEF second
  <2>2. second \o CleanRBAC \in Seq(Guarded) /\ Len(second \o CleanRBAC) = 14
    <3>1. /\ second \o CleanRBAC \in Seq(Guarded)
          /\ Len(second \o CleanRBAC) = Len(second) + Len(CleanRBAC)
      BY <1>2, <2>1, ConcatProperties, Zenon
    <3> QED BY <1>5, <2>1, <3>1
  <2>3. CleanSteps = second \o CleanRBAC
    BY <1>8, Zenon DEF CleanSteps, CleanContainerApp, second
  <2> QED BY <1>6, <2>2, <2>3
<1> QED BY <1>7, <1>8

-----------------------------------------------------------------------------
(***************************************************************************)
(* The log of the App.                                                     *)
(***************************************************************************)
LEMMA AppEnds ==
    ASSUME AppInv
    PROVE  /\ Len(appLog) \in Nat \ {0}
           /\ Head(appLog) \in App /\ Head(appLog) = appLog[1]
           /\ AppServer \in App
           /\ \A i \in 1 .. Len(appLog) : appLog[i] \in App
BY LogEnds, ElementOfSeq DEF AppInv, AppServer

(* What precedes the server's version, and what follows the cached one. *)
LEMMA AppOrder ==
    ASSUME AppInv, NEW i \in 1 .. Len(appLog)
    PROVE  /\ appLog[i] = AppServer
              \/ AppServer.phase \in Follows(appLog[i].phase)
           /\ appLog[i] = Head(appLog)
              \/ appLog[i].phase \in Follows(Head(appLog).phase)
<1>1. Len(appLog) \in Nat \ {0} /\ Head(appLog) = appLog[1]
  BY AppEnds
<1> QED BY <1>1 DEF AppInv, PhaseOrder, AppServer

LEMMA AppAppend ==
    ASSUME AppInv, NEW a \in App, appLog' = Append(appLog, a),
           \A i \in 1 .. Len(appLog) : a.phase \in Follows(appLog[i].phase)
    PROVE  AppInv' /\ AppServer' = a /\ Head(appLog)' = Head(appLog)
<1>1. /\ appLog' \in Seq(App) /\ appLog' # <<>>
      /\ Len(appLog') = Len(appLog) + 1
      /\ Head(appLog') = Head(appLog)
      /\ appLog'[Len(appLog')] = a
      /\ \A i \in 1 .. Len(appLog) : appLog'[i] = appLog[i]
  BY AppendLog DEF AppInv
<1>2. Len(appLog) \in Nat
  BY AppEnds
<1>3. PhaseOrder'
  <2> SUFFICES ASSUME NEW i \in 1 .. Len(appLog'), NEW j \in 1 .. Len(appLog'),
                      i < j
               PROVE  appLog'[j].phase \in Follows(appLog'[i].phase)
    BY Zenon DEF PhaseOrder, Follows
  <2>1. i \in 1 .. Len(appLog) /\ appLog'[i] = appLog[i]
    BY <1>1, <1>2
  <2>2. CASE j = Len(appLog')
    BY <1>1, <2>1, <2>2
  <2>3. CASE j # Len(appLog')
    <3>1. j \in 1 .. Len(appLog)
      BY <1>1, <1>2, <2>3
    <3> QED BY <1>1, <2>1, <3>1 DEF AppInv, PhaseOrder
  <2> QED BY <2>2, <2>3
<1> QED BY <1>1, <1>3 DEF AppInv, AppServer

LEMMA AppDelivered ==
    ASSUME AppInv, Len(appLog) > 1, appLog' = Tail(appLog)
    PROVE  AppInv' /\ AppServer' = AppServer
           /\ Head(appLog)'.phase \in Follows(Head(appLog).phase)
<1>1. /\ appLog' \in Seq(App) /\ appLog' # <<>>
      /\ Len(appLog') = Len(appLog) - 1
      /\ \A i \in 1 .. Len(appLog) - 1 : appLog'[i] = appLog[i + 1]
      /\ appLog'[Len(appLog')] = appLog[Len(appLog)]
      /\ Head(appLog') = appLog[2]
  BY TailLog DEF AppInv
<1>2. Len(appLog) \in Nat /\ Head(appLog) = appLog[1]
  BY AppEnds
<1>3. appLog[2].phase \in Follows(appLog[1].phase)
  BY <1>2 DEF AppInv, PhaseOrder
<1>4. PhaseOrder'
  <2> SUFFICES ASSUME NEW i \in 1 .. Len(appLog'), NEW j \in 1 .. Len(appLog'),
                      i < j
               PROVE  appLog'[j].phase \in Follows(appLog'[i].phase)
    BY Zenon DEF PhaseOrder, Follows
  <2>1. /\ i + 1 \in 1 .. Len(appLog) /\ j + 1 \in 1 .. Len(appLog)
        /\ i + 1 < j + 1
        /\ appLog'[i] = appLog[i + 1] /\ appLog'[j] = appLog[j + 1]
    BY <1>1, <1>2
  <2> QED BY <2>1, Zenon DEF AppInv, PhaseOrder
<1> QED BY <1>1, <1>2, <1>3, <1>4 DEF AppInv, AppServer

LEMMA AppReset ==
    ASSUME AppInv, appLog' = <<AppServer>>
    PROVE  AppInv' /\ AppServer' = AppServer
<1>1. AppServer \in App
  BY AppEnds
<1> QED BY <1>1 DEF AppInv, AppServer, PhaseOrder

-----------------------------------------------------------------------------
(***************************************************************************)
(* The logs of the objects.                                                *)
(***************************************************************************)
LEMMA ObjectEnds ==
    ASSUME ObjectInv, NEW o \in Object
    PROVE  /\ objLog[o] \in Seq(Owner) /\ Len(objLog[o]) \in Nat \ {0}
           /\ Server(o) \in Owner /\ Cached(o) \in Owner
           /\ o \in Foreign \cap Labelled =>
                 Server(o) = "foreign" /\ Cached(o) = "foreign"
<1>1. objLog[o] \in Seq(Owner) /\ objLog[o] # <<>>
  BY DEF ObjectInv
<1>2. /\ Len(objLog[o]) \in Nat \ {0}
      /\ Server(o) \in Owner /\ Cached(o) \in Owner
  BY <1>1, LogEnds DEF Server, Cached
<1>3. ASSUME o \in Foreign \cap Labelled
      PROVE  Server(o) \in {"foreign"} /\ Cached(o) \in {"foreign"}
  <2>1. objLog[o] \in Seq({"foreign"})
    BY <1>3 DEF ObjectInv
  <2> QED BY <1>1, <2>1, LogEnds DEF Server, Cached
<1> QED BY <1>1, <1>2, <1>3

(* An accepted write keeps the part, and changes one object. *)
LEMMA ObjectWritten ==
    ASSUME ObjectInv, NEW o \in Object \ (Foreign \cap Labelled),
           NEW owner \in Owner, WriteObject(o, owner)
    PROVE  ObjectInv' /\ \A p \in Object \ {o} : Server(p)' = Server(p)
<1>1. /\ Append(objLog[o], owner) \in Seq(Owner)
      /\ Append(objLog[o], owner) # <<>>
  BY AppendLog DEF ObjectInv
<1>2. <<owner>> \in Seq(Owner) /\ <<owner>> # <<>>
  OBVIOUS
<1>3. PICK log \in Seq(Owner) : log # <<>> /\ objLog' = [objLog EXCEPT ![o] = log]
  <2>1. CASE o \in {"raw", "image"}
    BY <1>2, <2>1 DEF WriteObject
  <2>2. CASE o \notin {"raw", "image"}
    BY <1>1, <2>2 DEF WriteObject
  <2> QED BY <2>1, <2>2
<1> QED BY <1>3 DEF ObjectInv, Server

LEMMA ObjectDelivered ==
    ASSUME ObjectInv, NEW o \in Object, Len(objLog[o]) > 1,
           objLog' = [objLog EXCEPT ![o] = Tail(@)]
    PROVE  ObjectInv' /\ \A p \in Object : Server(p)' = Server(p)
<1>1. /\ Tail(objLog[o]) \in Seq(Owner) /\ Tail(objLog[o]) # <<>>
      /\ Tail(objLog[o])[Len(Tail(objLog[o]))] = objLog[o][Len(objLog[o])]
  BY TailLog DEF ObjectInv
<1>2. o \in Foreign \cap Labelled => Tail(objLog[o]) \in Seq({"foreign"})
  BY TailLog DEF ObjectInv
<1> QED BY <1>1, <1>2 DEF ObjectInv, Server

LEMMA ObjectReset ==
    ASSUME ObjectInv, objLog' = [o \in Object |-> <<Server(o)>>]
    PROVE  ObjectInv' /\ \A p \in Object : Server(p)' = Server(p)
<1>1. \A o \in Object : Server(o) \in Owner
  BY ObjectEnds
<1>2. \A o \in Object \cap Foreign \cap Labelled : Server(o) = "foreign"
  BY ObjectEnds
<1>3. Foreign \cap Labelled \subseteq Object
  BY DEF Labelled, Accounts, Object, Optional
<1>4. \A v : <<v>>[Len(<<v>>)] = v /\ <<v>> # <<>>
  OBVIOUS
<1>5. \A p \in Object : Server(p)' = Server(p)
  BY <1>4 DEF Server
<1>6. objLog' \in [Object -> Seq(Owner)]
  BY <1>1
<1>7. ASSUME NEW o \in Foreign \cap Labelled
      PROVE  objLog'[o] \in Seq({"foreign"})
  <2>1. objLog'[o] = <<"foreign">>
    BY <1>2, <1>3
  <2>2. <<"foreign">> \in Seq({"foreign"})
    OBVIOUS
  <2> QED BY <2>1, <2>2, Zenon
<1>8. \A o \in Object : objLog'[o] # <<>>
  BY <1>4
<1>9. ObjectInv'
  BY <1>6, <1>7, <1>8 DEF ObjectInv
<1> QED BY <1>5, <1>9, Zenon

-----------------------------------------------------------------------------
(***************************************************************************)
(* The call in progress.                                                   *)
(***************************************************************************)
LEMMA IdleType == Idle \in Call /\ Idle.sweep \in Seq(Guarded)
<1>1. NoApp \in App
  BY DEF NoApp, App, Want, Accounts
<1> QED BY <1>1 DEF Idle, Call

(* A call that ends. *)
LEMMA EndedCall == ASSUME rec' = Idle PROVE Local'
<1>1. /\ rec'.at = "idle" /\ rec'.fresh = FALSE
  BY DEF Idle
<1> QED BY <1>1, IdleType DEF Local, CallInv, Call, App, Want, Guarded, CleanStep

(* A call that the log of the App moves on under: its Head and its last    *)
(* version may change as a delivery, a restart or a user changes them.     *)
LEMMA OvertakenCall ==
    ASSUME AppInv, Local, AppInv',
           rec' = rec \/ rec' = [rec EXCEPT !.fresh = FALSE],
           rec'.fresh => AppServer' = AppServer,
           AppServer'.phase = AppServer.phase
              \/ AppServer.phase = "new"
              \/ AppServer'.phase \in {"live", "terminating"},
           Head(appLog)'.phase \in Follows(Head(appLog).phase)
              \/ Head(appLog)' = Head(appLog)
    PROVE  Local'
<1>1. /\ rec' \in Call /\ rec'.sweep = rec.sweep /\ rec'.todo = rec.todo
      /\ rec'.at = rec.at /\ rec'.app = rec.app /\ (rec'.fresh => rec.fresh)
  BY DEF Local, Call
<1>2. rec'.sweep \in Seq(Guarded)'
  BY <1>1 DEF Local, Guarded, CleanStep
<1>3. CallInv'
  BY <1>1 DEF Local, CallInv, Follows
<1> QED BY <1>1, <1>2, <1>3 DEF Local, Call, App, Want, CleanStep

LEMMA BeginCall ==
    ASSUME AppInv', NEW r \in Call, r.sweep \in Seq(Guarded),
           AppServer'.phase \in {"live", "terminating"},
           r.fresh => r.app = AppServer',
           rec' = Begin(r)
    PROVE  Local'
<1>1. /\ rec' \in Call /\ rec'.sweep = r.sweep
      /\ rec'.app = r.app /\ rec'.fresh = r.fresh
      /\ rec'.at \in {"build", "ensure"}
      /\ rec'.at = "ensure" => rec'.todo # <<>>
  BY EnsureStepsGood DEF Begin, Call
<1>2. CallInv'
  BY <1>1 DEF CallInv
<1> QED BY <1>1, <1>2 DEF Local, Call, App, Want, Guarded, CleanStep

LEMMA ReconcileInv ==
    ASSUME AppInv, Local, Reconcile
    PROVE  Local'
<1> DEFINE a == Head(appLog)
           r == [Idle EXCEPT !.app = a, !.fresh = Len(appLog) = 1]
<1>1. a \in App /\ AppServer \in App /\ UNCHANGED <<appLog>>
  BY AppEnds DEF Reconcile
<1>2. r.fresh => r.app = AppServer
  BY AppEnds DEF AppServer, Idle
<1>3. r \in Call /\ r.sweep \in Seq(Guarded) /\ r.app = a
  BY <1>1, IdleType DEF Idle, Call
<1>4. AppInv' /\ AppServer' = AppServer /\ Head(appLog)' = a
  BY <1>1 DEF AppInv, PhaseOrder, Follows, AppServer, App, Want
<1>5. CASE a.phase = "terminating"
  <2>1. rec' = [r EXCEPT !.at = "clean", !.sweep = CleanSteps]
    BY <1>5 DEF Reconcile, Go
  <2>2. CleanSteps \in Seq(Guarded) /\ CleanSteps # <<>>
    BY CleanStepsGood
  <2>3. CleanSteps \in Seq(CleanStep)
    BY <2>2, SeqMonotonic DEF Guarded
  <2>4. rec' \in Call /\ rec'.sweep \in Seq(Guarded)
    BY <1>3, <2>1, <2>2, <2>3 DEF Call
  <2>5. CallInv'
    BY <1>2, <1>3, <1>4, <1>5, <2>1, <2>2 DEF CallInv, Call
  <2> QED BY <2>4, <2>5 DEF Local, Call, App, Want, Guarded, CleanStep
<1>6. CASE a.phase = "live"
  <2>1. rec' = Begin(r)
    BY <1>6 DEF Reconcile, Go, HasFinalizer
  <2>2. AppServer.phase \in {"live", "terminating"}
    <3>1. 1 \in 1 .. Len(appLog) /\ appLog[1] = a
      BY AppEnds
    <3>2. AppServer = a \/ AppServer.phase \in Follows(a.phase)
      BY <3>1, AppOrder
    <3> QED BY <1>6, <3>2 DEF Follows
  <2> QED BY <1>2, <1>3, <1>4, <2>1, <2>2, BeginCall
<1>7. CASE a.phase = "new"
  <2>1. rec' = [r EXCEPT !.at = "add"]
    BY <1>7 DEF Reconcile, Go, HasFinalizer
  <2>2. rec' \in Call /\ rec'.sweep \in Seq(Guarded)
    BY <1>3, <2>1 DEF Call
  <2>3. CallInv'
    BY <1>2, <1>3, <1>4, <1>7, <2>1 DEF CallInv, Call
  <2> QED BY <2>2, <2>3 DEF Local, Call, App, Want, Guarded, CleanStep
<1>8. a.phase \in {"new", "live", "terminating"}
  BY <1>1 DEF App, Reconcile
<1> QED BY <1>5, <1>6, <1>7, <1>8

LEMMA AddFinalizerInv ==
    ASSUME AppInv, Local, AddFinalizer
    PROVE  AppInv' /\ Local'
<1> DEFINE held == [rec.app EXCEPT !.phase = "live"]
           r == [rec EXCEPT !.app = held]
<1>1. /\ rec \in Call /\ rec.app \in App /\ rec.app.phase = "new"
      /\ rec.sweep \in Seq(Guarded)
  BY DEF Local, Call, CallInv, AddFinalizer
<1>2. CASE rec.fresh /\ WriteApp(held) /\ rec' = Begin(r)
  <2>1. rec.app = AppServer /\ AppServer.phase = "new"
    BY <1>1, <1>2 DEF Local, CallInv
  <2>2. /\ held \in App /\ held.phase = "live"
        /\ r \in Call /\ r.sweep = rec.sweep /\ r.app = held
    BY <1>1 DEF App, Call
  <2>3. \A i \in 1 .. Len(appLog) : held.phase \in Follows(appLog[i].phase)
    <3> SUFFICES ASSUME NEW i \in 1 .. Len(appLog)
                 PROVE  held.phase \in Follows(appLog[i].phase)
      OBVIOUS
    <3>1. appLog[i] \in App
      BY AppEnds
    <3>2. appLog[i] = AppServer \/ AppServer.phase \in Follows(appLog[i].phase)
      BY AppOrder
    <3> QED BY <2>1, <2>2, <3>1, <3>2 DEF Follows, App
  <2>4. AppInv' /\ AppServer' = held
    BY <1>2, <2>2, <2>3, AppAppend DEF WriteApp
  <2> QED BY <1>1, <1>2, <2>2, <2>4, BeginCall
<1>3. CASE rec' = Idle /\ UNCHANGED appLog
  <2>1. AppInv'
    BY <1>3 DEF AppInv, PhaseOrder, Follows, App, Want
  <2> QED BY <1>3, <2>1, EndedCall
<1> QED BY <1>2, <1>3 DEF AddFinalizer, Go

LEMMA UserInv ==
    ASSUME AppInv, Local, User
    PROVE  AppInv' /\ Local'
<1> DEFINE p == AppServer.phase
<1>0. AppServer \in App
  BY AppEnds
<1>1. ASSUME NEW a \in App, appLog' = Append(appLog, a),
             \/ p = "new" /\ a.phase \in {"new", "gone"}
             \/ p = "live" /\ a.phase \in {"live", "terminating"},
             rec' = [rec EXCEPT !.fresh = FALSE]
      PROVE  AppInv' /\ Local'
  <2>1. \A i \in 1 .. Len(appLog) : a.phase \in Follows(appLog[i].phase)
    <3> SUFFICES ASSUME NEW i \in 1 .. Len(appLog)
                 PROVE  a.phase \in Follows(appLog[i].phase)
      OBVIOUS
    <3>1. appLog[i] \in App
      BY AppEnds
    <3>2. appLog[i] = AppServer \/ p \in Follows(appLog[i].phase)
      BY AppOrder
    <3> QED BY <1>1, <3>1, <3>2 DEF Follows, App
  <2>2. AppInv' /\ AppServer' = a /\ Head(appLog)' = Head(appLog)
    BY <1>1, <2>1, AppAppend
  <2>3. ~rec'.fresh
    BY <1>1 DEF Local, Call
  <2> QED BY <1>1, <2>2, <2>3, OvertakenCall
<1>2. ASSUME NEW w \in Want, Edit(w)
      PROVE  AppInv' /\ Local'
  <2> DEFINE e == [AppServer EXCEPT !.want = w]
  <2>1. e \in App /\ e.phase = p
    BY <1>0, <1>2 DEF App
  <2>3. p \in {"new", "live"} /\ appLog' = Append(appLog, e)
        /\ rec' = [rec EXCEPT !.fresh = FALSE]
    BY <1>2 DEF Edit, WriteApp
  <2> HIDE DEF e, p
  <2>2. \/ p = "new" /\ e.phase \in {"new", "gone"}
        \/ p = "live" /\ e.phase \in {"live", "terminating"}
    BY <2>1, <2>3
  <2> QED BY <1>1, <2>1, <2>2, <2>3, Zenon
<1>3. CASE Delete
  <2> DEFINE d == [AppServer EXCEPT !.phase = IF @ = "new" THEN "gone"
                                                          ELSE "terminating"]
  <2>1. d \in App /\ d.phase = IF p = "new" THEN "gone" ELSE "terminating"
    BY <1>0 DEF App
  <2>2. p \in {"new", "live"} /\ appLog' = Append(appLog, d)
        /\ rec' = [rec EXCEPT !.fresh = FALSE]
    BY <1>3 DEF Delete, WriteApp
  <2> HIDE DEF d, p
  <2>3. \/ p = "new" /\ d.phase \in {"new", "gone"}
        \/ p = "live" /\ d.phase \in {"live", "terminating"}
    BY <2>1, <2>2
  <2> QED BY <1>1, <2>1, <2>2, <2>3, Zenon
<1> QED BY <1>2, <1>3 DEF User

LEMMA ReleaseInv ==
    ASSUME AppInv, Local, Release
    PROVE  AppInv' /\ Local'
<1>1. rec.app \in App /\ rec.app.phase = "terminating"
      /\ Head(appLog).phase \in {"terminating", "gone"}
  BY DEF Local, Call, CallInv, Release
<1>2. CASE rec.fresh /\ WriteApp([rec.app EXCEPT !.phase = "gone"])
  <2> DEFINE g == [rec.app EXCEPT !.phase = "gone"]
  <2>1. g \in App /\ g.phase = "gone"
    BY <1>1 DEF App
  <2>2. \A i \in 1 .. Len(appLog) : "gone" \in Follows(appLog[i].phase)
    <3> SUFFICES ASSUME NEW i \in 1 .. Len(appLog)
                 PROVE  "gone" \in Follows(appLog[i].phase)
      OBVIOUS
    <3>1. appLog[i] = Head(appLog)
          \/ appLog[i].phase \in Follows(Head(appLog).phase)
      BY AppOrder
    <3> QED BY <1>1, <3>1 DEF Follows
  <2> QED BY <1>2, <2>1, <2>2, AppAppend, EndedCall DEF WriteApp, Release, Go
<1>3. CASE UNCHANGED appLog
  <2>1. AppInv'
    BY <1>3 DEF AppInv, PhaseOrder, Follows, App, Want
  <2> QED BY <2>1, EndedCall DEF Release, Go
<1> QED BY <1>2, <1>3 DEF Release

-----------------------------------------------------------------------------
(***************************************************************************)
(* EnsureBuild, EnsureRuntime and cleanup.                                 *)
(***************************************************************************)
LEMMA AppSame == ASSUME AppInv, UNCHANGED appLog
                 PROVE  AppInv' /\ AppServer' = AppServer
BY DEF AppInv, PhaseOrder, Follows, App, Want, AppServer

LEMMA ObjectsSame ==
    ASSUME ObjectInv, UNCHANGED objLog
    PROVE  ObjectInv' /\ \A p \in Object : Server(p)' = Server(p)
BY DEF ObjectInv, Owner, Server, Labelled, Accounts

LEMMA EnsureBuildInv ==
    ASSUME AppInv, ObjectInv, Local, EnsureBuild
    PROVE  ObjectInv' /\ Local'
<1>1. AppInv' /\ AppServer' = AppServer
  BY AppSame DEF EnsureBuild
<1>2. "job" \in Object \ (Foreign \cap Labelled) /\ "ours" \in Owner
  BY DEF Object, BuildObjects, Labelled, Accounts, Owner
<1>3. ObjectInv'
  BY <1>2, ObjectWritten, ObjectsSame DEF EnsureBuild
<1>4. CASE rec' = [rec EXCEPT !.at = "ensure", !.todo = EnsureSteps]
  <2>1. /\ rec' \in Call /\ rec'.sweep = rec.sweep /\ rec'.app = rec.app
        /\ rec'.fresh = rec.fresh /\ rec'.at = "ensure"
        /\ rec'.todo # <<>>
    BY <1>4, EnsureStepsGood DEF Local, Call
  <2>2. CallInv'
    BY <1>1, <2>1 DEF Local, CallInv, EnsureBuild
  <2> QED BY <1>3, <2>1, <2>2 DEF Local, Call, App, Want, Guarded, CleanStep
<1>5. rec' = [rec EXCEPT !.at = "ensure", !.todo = EnsureSteps] \/ rec' = Idle
  BY DEF EnsureBuild, Go
<1> QED BY <1>3, <1>4, <1>5, EndedCall

(* The object at hand, and what comes after it. *)
LEMMA ItemGood ==
    ASSUME AppInv, Local, rec.at = "ensure"
    PROVE  /\ Item \in Object
           /\ NextItem = Idle \/ /\ NextItem \in Call
                                 /\ NextItem = [rec EXCEPT !.todo = Tail(rec.todo)]
                                 /\ NextItem.todo # <<>>
<1>1. rec.todo \in Seq(Object) /\ rec.todo # <<>> /\ rec \in Call
  BY DEF Local, Call, CallInv
<1>2. Len(rec.todo) \in Nat \ {0} /\ Item \in Object
  BY <1>1, LogEnds DEF Item
<1>3. CASE Len(rec.todo) > 1 /\ Len(rec.todo) # 1
  <2>1. Tail(rec.todo) \in Seq(Object) /\ Tail(rec.todo) # <<>>
    BY <1>1, <1>3, TailLog
  <2>3. NextItem = [rec EXCEPT !.todo = Tail(rec.todo)]
    BY <1>3 DEF NextItem
  <2>4. NextItem \in Call /\ NextItem.todo = Tail(rec.todo)
    BY <1>1, <2>1, <2>3 DEF Call
  <2> QED BY <1>2, <2>1, <2>3, <2>4
<1>4. CASE Len(rec.todo) = 1
  BY <1>2, <1>4 DEF NextItem
<1>5. Len(rec.todo) = 1 \/ (Len(rec.todo) > 1 /\ Len(rec.todo) # 1)
  BY <1>1, LogEnds
<1> QED BY <1>3, <1>4, <1>5

LEMMA EnsureAdvances ==
    ASSUME AppInv, Local, rec.at = "ensure", UNCHANGED appLog,
           rec' = NextItem \/ rec' = Idle
    PROVE  Local'
<1>1. AppInv' /\ AppServer' = AppServer
  BY AppSame
<1>2. ASSUME NextItem \in Call,
             NextItem = [rec EXCEPT !.todo = Tail(rec.todo)],
             NextItem.todo # <<>>, rec' = NextItem
      PROVE  Local'
  <2>1. /\ rec'.sweep = rec.sweep /\ rec'.app = rec.app
        /\ rec'.fresh = rec.fresh /\ rec'.at = "ensure"
    BY <1>2 DEF Local, Call
  <2>2. CallInv'
    BY <1>1, <1>2, <2>1 DEF Local, CallInv
  <2> QED BY <1>2, <2>1, <2>2 DEF Local, Call, App, Want, Guarded, CleanStep
<1> QED BY <1>2, ItemGood, EndedCall

(* Whatever EnsureRuntime writes, it is not somebody else's account or role. *)
LEMMA EnsureInv ==
    ASSUME AppInv, ObjectInv, Local, Ensure \/ EnsureFail
    PROVE  ObjectInv' /\ Local'
<1>1. rec.at = "ensure" /\ UNCHANGED appLog
      /\ (rec' = NextItem \/ rec' = Idle)
  BY DEF Ensure, EnsureWrite, EnsureNothing, EnsureRefused, EnsureFail, Go
<1>2. Item \in Object
  BY <1>1, ItemGood
<1>3. CASE WriteObject(Item, "ours") /\ Creates(Item)
  <2>1. Item \notin Foreign \cap Labelled
    BY <1>2, <1>3, ObjectEnds
       DEF Creates, Applies, CreatesMissing, Labelled, Accounts
  <2> QED BY <1>1, <1>2, <1>3, <2>1, ObjectWritten, EnsureAdvances DEF Owner
<1>4. CASE WriteObject(Item, "absent") /\ Removes(Item)
  <2>1. Item \notin Foreign \cap Labelled
    BY <1>4 DEF Removes, RemovesIngress, RemovesHPA, RemovesRoute, Labelled,
                Accounts
  <2> QED BY <1>1, <1>2, <1>4, <2>1, ObjectWritten, EnsureAdvances DEF Owner
<1>5. CASE UNCHANGED objLog
  BY <1>1, <1>5, ObjectsSame, EnsureAdvances
<1> QED BY <1>3, <1>4, <1>5
        DEF Ensure, EnsureWrite, EnsureNothing, EnsureRefused, EnsureFail

LEMMA StepGood ==
    ASSUME AppInv, Local, rec.at = "clean"
    PROVE  /\ Step \in Guarded
           /\ NextStep \in Call /\ NextStep.sweep \in Seq(Guarded)
           /\ NextStep.app = rec.app /\ NextStep.fresh = rec.fresh
           /\ NextStep.at \in {"clean", "release"}
           /\ NextStep.at = "clean" => NextStep.sweep # <<>>
<1>1. rec.sweep \in Seq(Guarded) /\ rec.sweep # <<>> /\ rec \in Call
  BY DEF Local, CallInv
<1>2. Len(rec.sweep) \in Nat \ {0} /\ Step \in Guarded
  BY <1>1, LogEnds DEF Step
<1>3. Tail(rec.sweep) \in Seq(Guarded)
  BY <1>1, HeadTailProperties
<1>4. Tail(rec.sweep) \in Seq(CleanStep)
  BY <1>3, SeqMonotonic DEF Guarded
<1>5. ASSUME Len(rec.sweep) # 1 PROVE Tail(rec.sweep) # <<>>
  <2>1. Len(rec.sweep) > 1
    BY <1>1, <1>5, LogEnds
  <2> QED BY <1>1, <2>1, TailLog
<1> QED BY <1>1, <1>2, <1>3, <1>4, <1>5 DEF NextStep, Call

LEMMA CleanInv ==
    ASSUME AppInv, ObjectInv, Local, Clean
    PROVE  ObjectInv' /\ Local'
<1>1. rec.at = "clean" /\ UNCHANGED appLog
      /\ (rec' = NextStep \/ rec' = Idle)
  BY DEF Clean, CleanDelete, CleanSkip, CleanUnread, CleanFail, Go
<1>2. AppInv' /\ AppServer' = AppServer
  BY <1>1, AppSame
<1>3. Local'
  <2>1. ASSUME rec' = NextStep PROVE Local'
    <3>1. /\ rec' \in Call /\ rec'.sweep \in Seq(Guarded)
          /\ rec'.app = rec.app /\ rec'.fresh = rec.fresh
          /\ rec'.at \in {"clean", "release"}
          /\ rec'.at = "clean" => rec'.sweep # <<>>
      BY <1>1, <2>1, StepGood
    <3>2. CallInv'
      BY <1>1, <1>2, <3>1 DEF Local, CallInv
    <3> QED BY <3>1, <3>2 DEF Local, Call, App, Want, Guarded, CleanStep
  <2> QED BY <1>1, <2>1, EndedCall
<1>4. Step.obj \in Object /\ (Step.obj \in Labelled => Step.owned)
  BY <1>1, StepGood DEF Guarded, CleanStep
<1>5. CASE WriteObject(Step.obj, "absent") /\ Selected(Step)
  <2>1. Step.obj \notin Foreign \cap Labelled
    BY <1>4, <1>5, ObjectEnds DEF Selected, OwnedByApp
  <2> QED BY <1>3, <1>4, <1>5, <2>1, ObjectWritten DEF Owner
<1>6. CASE UNCHANGED objLog
  BY <1>3, <1>6, ObjectsSame
<1> QED BY <1>5, <1>6 DEF Clean, CleanDelete, CleanSkip, CleanUnread, CleanFail

-----------------------------------------------------------------------------
(***************************************************************************)
(* The watch streams, the pod, and the operator's failures.                *)
(***************************************************************************)
LEMMA DeliverInv ==
    ASSUME AppInv, ObjectInv, Local, Deliver
    PROVE  /\ AppInv' /\ ObjectInv' /\ Local'
           /\ \A o \in Object : Server(o)' = Server(o)
<1>1. CASE DeliverApp
  <2>1. AppInv' /\ AppServer' = AppServer
        /\ Head(appLog)'.phase \in Follows(Head(appLog).phase)
    BY <1>1, AppDelivered DEF DeliverApp
  <2>2. rec' = rec /\ UNCHANGED objLog
    BY <1>1 DEF DeliverApp
  <2> QED BY <2>1, <2>2, OvertakenCall, ObjectsSame
<1>2. ASSUME NEW o \in Object, DeliverObject(o)
      PROVE  /\ AppInv' /\ ObjectInv' /\ Local'
             /\ \A p \in Object : Server(p)' = Server(p)
  <2>1. ObjectInv' /\ \A p \in Object : Server(p)' = Server(p)
    BY <1>2, ObjectDelivered DEF DeliverObject
  <2>2. AppInv' /\ AppServer' = AppServer
    BY <1>2, AppSame DEF DeliverObject
  <2>3. rec' = rec /\ UNCHANGED appLog
    BY <1>2 DEF DeliverObject
  <2> QED BY <2>1, <2>2, <2>3, OvertakenCall
<1> QED BY <1>1, <1>2 DEF Deliver

LEMMA PodInv ==
    ASSUME AppInv, ObjectInv, Local, Pod
    PROVE  AppInv' /\ ObjectInv' /\ Local'
<1>1. UNCHANGED <<appLog, rec>>
  BY DEF Pod, PodStart, PodPush, JobComplete, PodKilled
<1>2. AppInv' /\ AppServer' = AppServer
  BY <1>1, AppSame
<1>3. Local'
  BY <1>1, <1>2, OvertakenCall
<1>4. /\ "job" \in Object \ (Foreign \cap Labelled)
      /\ "image" \in Object \ (Foreign \cap Labelled)
      /\ "ours" \in Owner /\ "done" \in Owner
  BY DEF Object, BuildObjects, Labelled, Accounts, Owner
<1>5. ObjectInv'
  BY <1>4, ObjectWritten, ObjectsSame
     DEF Pod, PodStart, PodPush, JobComplete, PodKilled
<1> QED BY <1>2, <1>3, <1>5

LEMMA FailInv ==
    ASSUME AppInv, ObjectInv, Local, Fail
    PROVE  AppInv' /\ ObjectInv' /\ Local'
BY AppSame, ObjectsSame, EndedCall DEF Fail, Go

LEMMA CrashInv ==
    ASSUME AppInv, ObjectInv, Local, Crash
    PROVE  /\ AppInv' /\ ObjectInv' /\ Local'
           /\ \A o \in Object : Server(o)' = Server(o)
BY AppReset, ObjectReset, EndedCall DEF Crash, Go

-----------------------------------------------------------------------------
(***************************************************************************)
(* The invariant.                                                          *)
(***************************************************************************)
LEMMA RestInv ==
    ASSUME AppInv, ObjectInv, Local, Rest, Next
    PROVE  Rest'
<1>1. ASSUME rec.at = "clean" PROVE Step.obj \in Object
  BY <1>1, StepGood DEF Guarded, CleanStep
<1>2. Forgotten \subseteq Object /\ "image" \in Object
  BY DEF Forgotten, Object, Optional, BuildObjects
<1>3. CASE Deliver
  BY <1>3 DEF Rest, Deliver, DeliverApp, DeliverObject
<1>4. CASE Reconcile \/ AddFinalizer \/ EnsureBuild \/ Release
  BY <1>4 DEF Rest, Reconcile, AddFinalizer, EnsureBuild, Release
<1>5. CASE Ensure \/ EnsureFail
  BY <1>5 DEF Rest, Ensure, EnsureWrite, EnsureNothing, EnsureRefused, EnsureFail
<1>6. CASE CleanDelete \/ CleanSkip
  BY <1>1, <1>6 DEF Rest, CleanDelete, CleanSkip, Left
<1>7. CASE CleanUnread \/ CleanFail
  BY <1>1, <1>7 DEF Rest, CleanUnread, CleanFail, Left
<1>8. CASE Pod
  BY <1>2, <1>8 DEF Rest, Pod, PodStart, PodPush, JobComplete, PodKilled
<1>9. CASE User
  <2>1. CASE Delete
    BY <2>1 DEF Rest, Delete
  <2>2. ASSUME NEW w \in Want, Edit(w)
        PROVE  Rest'
    <3>1. /\ excused' = (excused \ w) \cup ((AppServer.want \ w) \cap Forgotten)
          /\ edits' = edits + 1 /\ UNCHANGED <<pod, faults>>
      BY <2>2 DEF Edit
    <3>2. excused' \subseteq excused \cup Forgotten
      BY <3>1
    <3> QED BY <1>2, <3>1, <3>2 DEF Rest
  <2> QED BY <1>9, <2>1, <2>2 DEF User
<1>10. CASE Fail \/ Crash
  BY <1>10 DEF Rest, Fail, Crash
<1> QED BY <1>3, <1>4, <1>5, <1>6, <1>7, <1>8, <1>9, <1>10
        DEF Next, Operate, Clean

THEOREM InitLifecycle == Init => LifecycleInv
<1> SUFFICES ASSUME Init PROVE LifecycleInv
  OBVIOUS
<1>1. PICK w \in Want : appLog = <<[phase |-> "new", want |-> w]>>
  BY DEF Init
<1>2. [phase |-> "new", want |-> w] \in App
  BY DEF App
<1>3. AppInv
  <2>1. appLog \in Seq(App) /\ appLog # <<>> /\ Len(appLog) = 1
    BY <1>1, <1>2
  <2>2. PhaseOrder
    BY <2>1 DEF PhaseOrder
  <2> QED BY <2>1, <2>2 DEF AppInv
<1>4. ObjectInv
  <2>1. Foreign \cap Labelled \subseteq Object
    BY DEF Labelled, Accounts, Object, Optional
  <2>2. ASSUME NEW o \in Object
        PROVE  objLog[o] \in Seq(Owner) /\ objLog[o] # <<>>
    BY DEF Init, Owner
  <2>3. ASSUME NEW o \in Foreign \cap Labelled
        PROVE  objLog[o] \in Seq({"foreign"})
    <3>1. objLog[o] = <<"foreign">>
      BY <2>1 DEF Init
    <3> QED BY <3>1
  <2>4. objLog \in [Object -> Seq(Owner)]
    BY <2>2 DEF Init
  <2> QED BY <2>2, <2>3, <2>4 DEF ObjectInv
<1>5. Local
  BY IdleType DEF Init, Local, CallInv, Idle
<1>6. Rest
  BY DEF Init, Rest
<1> QED BY <1>3, <1>4, <1>5, <1>6, Parts

THEOREM LifecycleStep == LifecycleInv /\ [Next]_vars => LifecycleInv'
<1> SUFFICES ASSUME LifecycleInv, [Next]_vars PROVE LifecycleInv'
  OBVIOUS
<1>1. AppInv /\ ObjectInv /\ Rest /\ Local
  BY Parts
<1>2. CASE Next
  <2>1. Rest'
    BY <1>1, <1>2, RestInv
  <2>2. AppInv' /\ ObjectInv' /\ Local'
    <3>1. CASE Deliver
      BY <1>1, <3>1, DeliverInv
    <3>2. CASE Reconcile
      <4>1. UNCHANGED <<appLog, objLog>>
        BY <3>2 DEF Reconcile
      <4> QED BY <1>1, <3>2, <4>1, ReconcileInv, AppSame, ObjectsSame
    <3>3. CASE AddFinalizer
      <4>1. UNCHANGED objLog
        BY <3>3 DEF AddFinalizer
      <4> QED BY <1>1, <3>3, <4>1, AddFinalizerInv, ObjectsSame
    <3>4. CASE EnsureBuild
      <4>1. UNCHANGED appLog
        BY <3>4 DEF EnsureBuild
      <4> QED BY <1>1, <3>4, <4>1, EnsureBuildInv, AppSame
    <3>5. CASE Ensure \/ EnsureFail
      <4>1. UNCHANGED appLog
        BY <3>5 DEF Ensure, EnsureWrite, EnsureNothing, EnsureRefused, EnsureFail
      <4> QED BY <1>1, <3>5, <4>1, EnsureInv, AppSame
    <3>6. CASE Clean
      <4>1. UNCHANGED appLog
        BY <3>6 DEF Clean, CleanDelete, CleanSkip, CleanUnread, CleanFail
      <4> QED BY <1>1, <3>6, <4>1, CleanInv, AppSame
    <3>7. CASE Release
      <4>1. UNCHANGED objLog
        BY <3>7 DEF Release
      <4> QED BY <1>1, <3>7, <4>1, ReleaseInv, ObjectsSame
    <3>8. CASE User
      <4>1. UNCHANGED objLog
        BY <3>8 DEF User, Edit, Delete
      <4> QED BY <1>1, <3>8, <4>1, UserInv, ObjectsSame
    <3>9. CASE Pod
      BY <1>1, <3>9, PodInv
    <3>10. CASE Fail
      BY <1>1, <3>10, FailInv
    <3>11. CASE Crash
      BY <1>1, <3>11, CrashInv
    <3> QED BY <1>2, <3>1, <3>2, <3>3, <3>4, <3>5, <3>6, <3>7, <3>8, <3>9,
               <3>10, <3>11 DEF Next, Operate
  <2> QED BY <2>1, <2>2, PartsNext
<1>3. CASE UNCHANGED vars
  <2>1. UNCHANGED <<appLog, objLog, pod, rec, excused, edits, faults>>
    BY <1>3 DEF vars
  <2>2. AppInv' /\ AppServer' = AppServer
    BY <1>1, <2>1, AppSame
  <2>3. Local'
    BY <1>1, <2>1, <2>2, OvertakenCall
  <2>4. Rest'
    BY <1>1, <2>1 DEF Rest
  <2> QED BY <1>1, <2>1, <2>2, <2>4, <2>3, ObjectsSame, PartsNext
<1> QED BY <1>2, <1>3

(* LifecycleInv holds of every behaviour of the operator.                  *)
THEOREM LifecycleInvariance == Spec => []LifecycleInv
BY InitLifecycle, LifecycleStep, PTL DEF Spec

(* The types of AppLifecycle hold in every behaviour.                      *)
THEOREM LifecycleTyped == Spec => []TypeOK
<1>1. LifecycleInv => TypeOK
  BY DEF LifecycleInv
<1> QED BY <1>1, LifecycleInvariance, PTL

(* No reconcile call of an App, however late or often repeated, deletes or *)
(* replaces a ServiceAccount or Role that somebody else made.              *)
THEOREM ForeignSurvives == Spec => []ForeignKept
<1>1. LifecycleInv => ForeignKept
  <2> SUFFICES ASSUME LifecycleInv, NEW o \in Foreign \cap Labelled
               PROVE  Server(o) = "foreign"
    BY DEF ForeignKept
  <2>1. o \in Object
    BY DEF Labelled, Accounts, Object, Optional
  <2> QED BY <2>1, Parts, ObjectEnds
<1> QED BY <1>1, LifecycleInvariance, PTL

-----------------------------------------------------------------------------
(* One step creates an object only for an App under its finalizer.         *)
LEMMA CreationStep ==
    ASSUME LifecycleInv, Next, NEW o \in Object \ {"image"},
           Server(o) = "absent", Server(o)' # "absent"
    PROVE  AppServer.phase \in {"live", "terminating"}
<1>1. AppInv /\ ObjectInv /\ Local
  BY Parts
<1>2. ~ UNCHANGED objLog
  BY DEF Server
<1>3. ~ \E p \in Object : WriteObject(p, "absent")
  <2> SUFFICES ASSUME NEW p \in Object, WriteObject(p, "absent") PROVE FALSE
    OBVIOUS
  <2>1. /\ Append(objLog[p], "absent")[Len(Append(objLog[p], "absent"))] = "absent"
        /\ objLog \in [Object -> Seq(Owner)]
    BY <1>1, AppendLog DEF ObjectInv, Owner
  <2>2. <<"absent">>[Len(<<"absent">>)] = "absent"
    OBVIOUS
  <2>3. p = o => Server(o)' = "absent"
    BY <2>1, <2>2 DEF WriteObject, Server
  <2>4. p # o => Server(o)' = Server(o)
    BY <2>1 DEF WriteObject, Server
  <2> QED BY <2>3, <2>4
<1>4. ASSUME NEW p \in Object, NEW owner \in Owner, WriteObject(p, owner)
      PROVE  p = o
  BY <1>1, <1>4 DEF WriteObject, Server, ObjectInv
<1>5. CASE Deliver
  BY <1>1, <1>5, DeliverInv
<1>6. CASE EnsureBuild
  BY <1>1, <1>6 DEF Local, CallInv, EnsureBuild
<1>7. CASE EnsureWrite
  BY <1>1, <1>7 DEF Local, CallInv, EnsureWrite
<1>8. CASE Clean
  <2>1. rec.at = "clean"
    BY <1>8 DEF Clean, CleanDelete, CleanSkip, CleanUnread, CleanFail
  <2>2. Step.obj \in Object
    BY <1>1, <2>1, StepGood DEF Guarded, CleanStep
  <2> QED BY <1>2, <1>3, <1>8, <2>2
          DEF Clean, CleanDelete, CleanSkip, CleanUnread, CleanFail
<1>9. CASE Pod
  <2>1. "image" \in Object /\ "job" \in Object /\ {"ours", "done"} \subseteq Owner
    BY DEF Object, BuildObjects, Owner
  <2>2. CASE PodPush
    <3>1. WriteObject("image", "ours")
      BY <2>2 DEF PodPush
    <3> QED BY <1>4, <2>1, <3>1
  <2>3. CASE JobComplete
    <3>1. WriteObject("job", "done") /\ Server("job") = "ours"
      BY <2>3 DEF JobComplete
    <3>2. o = "job"
      BY <1>4, <2>1, <3>1
    <3> QED BY <3>1, <3>2
  <2> QED BY <1>2, <1>9, <2>2, <2>3 DEF Pod, PodStart, PodKilled
<1>10. CASE Crash
  BY <1>1, <1>10, CrashInv
<1>11. \/ Deliver \/ EnsureBuild \/ EnsureWrite \/ Clean \/ Pod \/ Crash
       \/ UNCHANGED objLog
  BY DEF Next, Operate, Ensure, Reconcile, AddFinalizer, EnsureNothing,
         EnsureRefused, EnsureFail, Release, User, Edit, Delete, Fail
<1> QED BY <1>2, <1>5, <1>6, <1>7, <1>8, <1>9, <1>10, <1>11

(* The operator makes no object for an App that has no finalizer yet or is *)
(* gone: cleanup has still to come for whatever is created.                *)
THEOREM CreatesUnderFinalizerHolds == Spec => CreatesUnderFinalizer
<1>1. LifecycleInv /\ [Next]_vars =>
        [\A o \in Object \ {"image"} :
           Server(o) = "absent" /\ Server(o)' # "absent" =>
              AppServer.phase \in {"live", "terminating"}]_vars
  BY CreationStep
<1> QED BY <1>1, LifecycleInvariance, PTL DEF Spec, CreatesUnderFinalizer
=============================================================================

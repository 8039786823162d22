-------------------------- MODULE RuntimeSyncProofs ---------------------------
(***************************************************************************)
(* SyncInv is an invariant of RuntimeSync for every set of specs, every    *)
(* order of objects and every bound; what follows from it.                 *)
(*                                                                         *)
(* The invariant is kept in four parts: the App's versions with the call   *)
(* in progress, the types of the objects' logs, what the objects hold, and *)
(* the rest.  A step is shown to keep each part it touches.                *)
(***************************************************************************)
EXTENDS RuntimeSync, SequenceTheorems, TLAPS

AppPart ==
    /\ kind \in Kinds /\ order \in Orders
    /\ appLog \in Seq(App) /\ appLog # <<>>
    /\ asked \in Seq(Specs)
    /\ rec \in Call
    /\ VersionsInOrder /\ FreshIsCurrent /\ CallInShape
LogPart == /\ objLog \in [Object -> Seq(Version \cup {Absent})]
           /\ \A o \in Object : objLog[o] # <<>>
MadePart == /\ made \in [Object -> Nat] /\ tampered \in SUBSET Object
            /\ WrittenByCalls /\ WholeSpec
Rest == /\ jobLog \in Seq(JobStage) /\ jobLog # <<>>
        /\ edits \in Nat /\ meddling \in Nat /\ faults \in Nat

LEMMA Parts == SyncInv <=> AppPart /\ LogPart /\ MadePart /\ Rest
BY DEF SyncInv, AppPart, LogPart, MadePart, Rest, TypeOK

LEMMA PartsNext == AppPart' /\ LogPart' /\ MadePart' /\ Rest' => SyncInv'
BY DEF SyncInv, AppPart, LogPart, MadePart, Rest, TypeOK

-----------------------------------------------------------------------------
(* A log that a version is appended to. *)
LEMMA AppendLog ==
    ASSUME NEW S, NEW log \in Seq(S), log # <<>>, NEW v \in S
    PROVE  /\ Append(log, v) \in Seq(S) /\ Append(log, v) # <<>>
           /\ Len(Append(log, v)) = Len(log) + 1
           /\ Head(Append(log, v)) = Head(log)
           /\ Append(log, v)[Len(Append(log, v))] = v
           /\ Append(log, v)[Len(log) + 1] = v
           /\ \A i \in 1 .. Len(log) : Append(log, v)[i] = log[i]
<1>1. Len(log) \in Nat \ {0}
  BY EmptySeq
<1>2. /\ Append(log, v) \in Seq(S) /\ Append(log, v) # <<>>
      /\ Len(Append(log, v)) = Len(log) + 1
      /\ Append(log, v)[Len(log) + 1] = v
      /\ \A i \in 1 .. Len(log) : Append(log, v)[i] = log[i]
  BY AppendProperties
<1> QED BY <1>1, <1>2

(* A log whose first version is delivered. *)
LEMMA TailLog ==
    ASSUME NEW S, NEW log \in Seq(S), Len(log) > 1
    PROVE  /\ Tail(log) \in Seq(S) /\ Tail(log) # <<>>
           /\ Len(Tail(log)) = Len(log) - 1
           /\ \A i \in 1 .. Len(log) - 1 : Tail(log)[i] = log[i + 1]
           /\ Tail(log)[Len(Tail(log))] = log[Len(log)]
           /\ Head(Tail(log)) = log[2]
<1>1. Len(log) \in Nat /\ log # <<>>
  <2>1. Len(log) \in Nat
    BY LenProperties
  <2>2. Len(<<>>) = 0
    OBVIOUS
  <2> QED BY <2>1, <2>2
<1>2. /\ Tail(log) \in Seq(S) /\ Len(Tail(log)) = Len(log) - 1
      /\ \A i \in 1 .. Len(Tail(log)) : Tail(log)[i] = log[i + 1]
  BY <1>1, HeadTailProperties
<1>3. Tail(log) # <<>>
  <2> SUFFICES ASSUME Tail(log) = <<>> PROVE FALSE
    OBVIOUS
  <2>1. Len(Tail(log)) = 0
    <3>1. Len(<<>>) = 0
      OBVIOUS
    <3> QED BY <3>1, Zenon
  <2> QED BY <1>1, <1>2, <2>1
<1> QED BY <1>1, <1>2, <1>3

LEMMA LogEnds ==
    ASSUME NEW S, NEW log \in Seq(S), log # <<>>
    PROVE  /\ Len(log) \in Nat \ {0}
           /\ DOMAIN log = 1 .. Len(log)
           /\ Head(log) \in S /\ Head(log) = log[1]
           /\ log[Len(log)] \in S
           /\ Len(log) = 1 \/ (Len(log) > 1 /\ Len(log) # 1)
<1>1. Len(log) \in Nat \ {0}
  BY EmptySeq
<1>2. /\ Head(log) \in S /\ Head(log) = log[1]
      /\ log[Len(log)] \in S
  BY <1>1, ElementOfSeq, HeadTailProperties
<1>3. \A n \in Nat \ {0} : n = 1 \/ (n > 1 /\ n # 1)
  OBVIOUS
<1>4. Len(log) = 1 \/ (Len(log) > 1 /\ Len(log) # 1)
  BY <1>1, <1>3, Zenon
<1> QED BY <1>1, <1>2, <1>4, LenProperties

(* A log that is filled anew with one version. *)
LEMMA OneLog ==
    ASSUME NEW S, NEW v \in S
    PROVE  /\ <<v>> \in Seq(S) /\ <<v>> # <<>> /\ Len(<<v>>) = 1
           /\ <<v>>[1] = v /\ Head(<<v>>) = v
<1>1. <<v>> \in Seq(S) /\ Len(<<v>>) = 1 /\ <<v>>[1] = v /\ Head(<<v>>) = v
  OBVIOUS
<1>2. <<v>> # <<>>
  BY <1>1, EmptySeq
<1> QED BY <1>1, <1>2

(* What an object is given is a version that is there, with the fields of  *)
(* one spec.                                                               *)
LEMMA FieldsOfSpec == \A o \in Object : Fields(o) \subseteq SpecField
<1> SUFFICES ASSUME NEW o \in Object PROVE Fields(o) \subseteq SpecField
  OBVIOUS
<1> QED BY DEF Object, Fields, DeploymentFields, ServiceFields, IngressFields,
               RouteFields, RoleFields, BindingFields, HPAFields, SpecField

LEMMA DesiredTyped ==
    ASSUME NEW o \in Object, NEW s \in Specs, NEW l \in BOOLEAN
    PROVE  /\ [fields |-> Desired(o, s), labelled |-> l] \in Version
           /\ [fields |-> Desired(o, s), labelled |-> l] # Absent
<1>1. s \in [SpecField -> Value]
  BY ConstantsAssumption
<1>2. Desired(o, s) \in [Fields(o) -> Value]
  BY <1>1, FieldsOfSpec DEF Desired
<1>3. [fields |-> Desired(o, s), labelled |-> l] \in Version
  BY <1>2 DEF Version
<1> QED BY <1>3, ConstantsAssumption

LEMMA FreshTyped ==
    ASSUME NEW o \in Object, NEW s \in Specs
    PROVE  /\ Fresh(o, s) \in Version /\ Fresh(o, s) # Absent
           /\ Fresh(o, s).fields = Desired(o, s)
BY DesiredTyped DEF Fresh

LEMMA UpdatedTyped ==
    ASSUME NEW o \in Object, NEW s \in Specs, NEW e \in Version
    PROVE  /\ Updated(o, e, s) \in Version /\ Updated(o, e, s) # Absent
           /\ Updated(o, e, s).fields = Desired(o, s)
<1>1. (o \in InPlace /\ e.labelled) \in BOOLEAN
  BY DEF Version
<1> QED BY <1>1, DesiredTyped DEF Updated

-----------------------------------------------------------------------------
(***************************************************************************)
(* The App and the call in progress.                                       *)
(***************************************************************************)
LEMMA AppFacts ==
    ASSUME AppPart
    PROVE  /\ Len(appLog) \in Nat \ {0} /\ DOMAIN appLog = 1 .. Len(appLog)
           /\ Head(appLog) \in App /\ Head(appLog) = appLog[1]
           /\ AppServer \in App /\ AppServer = appLog[Len(appLog)]
           /\ Len(asked) \in Nat /\ DOMAIN asked = 1 .. Len(asked)
           /\ rec.app \in App /\ rec.app.generation \in Nat
           /\ Head(appLog).generation \in Nat
           /\ rec.app.spec \in Specs
           /\ AppServer.spec \in Specs /\ AppServer.generation \in Nat
<1>1. appLog \in Seq(App) /\ appLog # <<>> /\ asked \in Seq(Specs)
      /\ rec \in Call
  BY DEF AppPart
<1>2. /\ Len(appLog) \in Nat \ {0} /\ DOMAIN appLog = 1 .. Len(appLog)
      /\ Head(appLog) \in App /\ Head(appLog) = appLog[1]
      /\ appLog[Len(appLog)] \in App
  BY <1>1, LogEnds
<1>3. Len(asked) \in Nat /\ DOMAIN asked = 1 .. Len(asked)
  BY <1>1, LenProperties
<1>4. rec.app \in App
  BY <1>1 DEF Call
<1> QED BY <1>2, <1>3, <1>4 DEF AppServer, App

(* A call that goes on, or ends, after an item. *)
Follows(r) ==
    /\ r \in Call /\ r.app = rec.app /\ r.fresh = rec.fresh
    /\ r.at = "ensure" => r.todo # <<>>
    /\ r.at = "report" => kind = "ContainerApp" /\ r.outcome # ""
    /\ r.at = "sweep" => kind = "App"

LEMMA CallMoves ==
    ASSUME AppPart, rec.at = "ensure"
    PROVE  /\ Item \in Object \cup {"job"}
           /\ Follows(NextItem) /\ Follows(Abort)
<1>1. /\ rec \in Call /\ rec.todo # <<>> /\ kind \in {"App", "ContainerApp"}
      /\ rec.todo \in Seq(Object \cup {"job"})
  BY ConstantsAssumption DEF AppPart, CallInShape, Call
<1>2. /\ Item \in Object \cup {"job"}
      /\ Len(rec.todo) = 1 \/ (Len(rec.todo) > 1 /\ Len(rec.todo) # 1)
  BY <1>1, LogEnds DEF Item
<1>3. <<>> \in Seq(Object \cup {"job"})
  OBVIOUS
<1>4. Follows(Finished) /\ Follows(Abort)
  BY <1>1, <1>3 DEF Follows, Finished, Abort, Call, Phase
<1>5. CASE Len(rec.todo) = 1
  BY <1>2, <1>4, <1>5 DEF NextItem
<1>6. CASE Len(rec.todo) > 1 /\ Len(rec.todo) # 1
  <2>1. Tail(rec.todo) \in Seq(Object \cup {"job"}) /\ Tail(rec.todo) # <<>>
    BY <1>1, <1>6, TailLog
  <2>2. NextItem = [rec EXCEPT !.todo = Tail(rec.todo)]
    BY <1>6, Zenon DEF NextItem
  <2>3. Follows(NextItem)
    BY <1>1, <2>1, <2>2, rec.at = "ensure" DEF Follows, Call
  <2> QED BY <1>2, <1>4, <2>3
<1> QED BY <1>2, <1>5, <1>6, Zenon

(* A call that changes no more than where it is. *)
LEMMA KeepApp ==
    ASSUME AppPart, UNCHANGED <<setup, appLog, asked>>,
           rec' \in Call, rec'.app = rec.app, rec'.fresh => rec.fresh,
           rec'.at = "ensure" => rec'.todo # <<>>,
           rec'.at = "report" => kind = "ContainerApp" /\ rec'.outcome # "",
           rec'.at = "sweep" => kind = "App"
    PROVE  AppPart'
<1>1. VersionsInOrder'
  BY DEF AppPart, VersionsInOrder, IsVersion, AppServer
<1>2. FreshIsCurrent' /\ CallInShape'
  BY DEF AppPart, FreshIsCurrent, CallInShape, AppServer, setup
<1> QED BY <1>1, <1>2 DEF AppPart, setup

LEMMA KeepFollows ==
    ASSUME AppPart, UNCHANGED <<setup, appLog, asked>>, NEW r, Follows(r), Go(r)
    PROVE  AppPart' /\ rec'.app = rec.app
<1>1. rec' = r
  BY DEF Go
<1> QED BY <1>1, KeepApp DEF Follows

-----------------------------------------------------------------------------
(***************************************************************************)
(* The objects.                                                            *)
(***************************************************************************)
LEMMA KeepMade ==
    ASSUME MadePart, \A o \in Object : Server(o)' = Server(o),
           UNCHANGED <<made, tampered>>,
           \A i \in DOMAIN asked : i \in DOMAIN asked' /\ asked'[i] = asked[i],
           rec.app.generation \in Nat, rec'.app.generation \in Nat,
           rec.app.generation <= rec'.app.generation
    PROVE  MadePart'
<1>1. made' = made /\ tampered' = tampered
  OBVIOUS
<1>2. WrittenByCalls'
  <2> SUFFICES ASSUME NEW o \in Object
               PROVE  made[o] <= rec'.app.generation
    BY <1>1 DEF WrittenByCalls
  <2>1. made[o] \in Nat /\ made[o] <= rec.app.generation
    BY DEF MadePart, WrittenByCalls
  <2> QED BY <2>1
<1>3. WholeSpec'
  <2> SUFFICES ASSUME NEW o \in Object \ tampered, Server(o) # Absent
               PROVE  /\ made[o] \in DOMAIN asked'
                      /\ Server(o).fields = Desired(o, asked'[made[o]])
    BY <1>1, Zenon DEF WholeSpec
  <2>1. /\ made[o] \in DOMAIN asked
        /\ Server(o).fields = Desired(o, asked[made[o]])
    BY DEF MadePart, WholeSpec
  <2> QED BY <2>1
<1> QED BY <1>1, <1>2, <1>3 DEF MadePart

LEMMA SameServers ==
    ASSUME UNCHANGED objLog
    PROVE  \A o \in Object : Server(o)' = Server(o)
BY DEF Server

(* A version of one object is appended to its log. *)
LEMMA ObjectWritten ==
    ASSUME LogPart, NEW o \in Object, NEW v \in Version \cup {Absent},
           objLog' = [objLog EXCEPT ![o] = Append(@, v)]
    PROVE  /\ LogPart' /\ Server(o)' = v
           /\ \A p \in Object \ {o} : Server(p)' = Server(p)
<1>1. objLog \in [Object -> Seq(Version \cup {Absent})]
      /\ \A p \in Object : objLog[p] # <<>>
  BY DEF LogPart
<1>2. /\ Append(objLog[o], v) \in Seq(Version \cup {Absent})
      /\ Append(objLog[o], v) # <<>>
      /\ Append(objLog[o], v)[Len(Append(objLog[o], v))] = v
  BY <1>1, AppendLog
<1>3. objLog'[o] = Append(objLog[o], v)
      /\ \A p \in Object \ {o} : objLog'[p] = objLog[p]
  BY <1>1
<1>4. LogPart'
  BY <1>1, <1>2, <1>3 DEF LogPart
<1> QED BY <1>2, <1>3, <1>4 DEF Server

LEMMA ObjectEnds ==
    ASSUME LogPart, NEW o \in Object
    PROVE  /\ Len(objLog[o]) \in Nat \ {0}
           /\ Server(o) \in Version \cup {Absent}
           /\ Cached(o) \in Version \cup {Absent}
           /\ Len(objLog[o]) = 1 => Cached(o) = Server(o)
<1>1. objLog[o] \in Seq(Version \cup {Absent}) /\ objLog[o] # <<>>
  BY DEF LogPart
<1>2. /\ Len(objLog[o]) \in Nat \ {0}
      /\ Head(objLog[o]) \in Version \cup {Absent}
      /\ Head(objLog[o]) = objLog[o][1]
      /\ objLog[o][Len(objLog[o])] \in Version \cup {Absent}
  BY <1>1, LogEnds
<1> QED BY <1>2 DEF Server, Cached

(* The same, or the object is left as it is because nothing would change. *)
LEMMA ObjectSent ==
    ASSUME LogPart, NEW o \in Object, NEW v \in Version \cup {Absent},
           WriteObject(o, v)
    PROVE  /\ LogPart' /\ Server(o)' = v
           /\ \A p \in Object \ {o} : Server(p)' = Server(p)
<1>1. CASE v = Server(o) /\ UNCHANGED objLog
  BY <1>1, SameServers DEF LogPart
<1>2. CASE objLog' = [objLog EXCEPT ![o] = Append(@, v)]
  BY <1>2, ObjectWritten
<1> QED BY <1>1, <1>2 DEF WriteObject

-----------------------------------------------------------------------------
(***************************************************************************)
(* The steps.  First those that leave the App's versions as they are.      *)
(***************************************************************************)
LEMMA SamePrefix ==
    ASSUME UNCHANGED asked
    PROVE  \A i \in DOMAIN asked : i \in DOMAIN asked' /\ asked'[i] = asked[i]
OBVIOUS

(* What the objects hold is kept when neither they nor the call's App move. *)
LEMMA KeepMadeStill ==
    ASSUME AppPart, MadePart, UNCHANGED <<objLog, history>>,
           rec'.app = rec.app
    PROVE  MadePart'
<1>1. rec.app.generation \in Nat
  BY AppFacts
<1>2. UNCHANGED <<asked, made, tampered>>
  BY DEF history
<1> QED BY <1>1, <1>2, SamePrefix, SameServers, KeepMade

LEMMA ReconcileKeeps ==
    ASSUME SyncInv, Reconcile
    PROVE  SyncInv'
<1>1. AppPart /\ LogPart /\ MadePart /\ Rest
  BY Parts
<1> DEFINE r == [Idle EXCEPT !.at = "ensure", !.app = Head(appLog),
                             !.fresh = Len(appLog) = 1, !.todo = order]
<1>2. /\ rec' = r
      /\ UNCHANGED <<kind, order, appLog, objLog, jobLog, asked, made, tampered,
                     edits, meddling, faults>>
  BY DEF Reconcile, StartCall, Go, setup, history, bounds
<1>3. /\ order \in Seq(Object \cup {"job"}) /\ order # <<>>
  BY <1>1, ConstantsAssumption DEF AppPart
<1>4. /\ Head(appLog) \in App /\ Head(appLog) = appLog[1]
      /\ 1 \in DOMAIN appLog
      /\ Head(appLog).generation \in Nat /\ rec.app.generation \in Nat
      /\ AppServer = appLog[Len(appLog)]
  BY <1>1, AppFacts
<1>5. (Len(appLog) = 1) \in BOOLEAN
  OBVIOUS
<1>6. /\ r \in Call /\ r.app = Head(appLog) /\ r.at = "ensure"
      /\ r.fresh = (Len(appLog) = 1) /\ r.todo = order
  BY <1>3, <1>4, <1>5 DEF Idle, Call, Phase
<1> HIDE DEF r
<1>7. AppPart'
  <2>1. VersionsInOrder'
    <3>1. IsVersion(Head(appLog))
      BY <1>1, <1>4 DEF AppPart, VersionsInOrder
    <3>2. Head(appLog).generation <= Head(appLog).generation
      BY <1>4
    <3> QED BY <1>1, <1>2, <1>6, <3>1, <3>2
            DEF AppPart, VersionsInOrder, IsVersion, AppServer
  <2>2. FreshIsCurrent'
    BY <1>2, <1>4, <1>6 DEF FreshIsCurrent, AppServer
  <2>3. CallInShape'
    BY <1>2, <1>3, <1>6 DEF CallInShape
  <2> QED BY <1>1, <1>2, <1>6, <2>1, <2>2, <2>3 DEF AppPart
<1>8. MadePart'
  <2>1. rec.app.generation <= rec'.app.generation
    BY <1>1, <1>2, <1>6 DEF AppPart, VersionsInOrder
  <2> QED BY <1>1, <1>2, <1>4, <1>6, <2>1, SamePrefix, SameServers, KeepMade
<1>9. LogPart' /\ Rest'
  BY <1>1, <1>2 DEF LogPart, Rest
<1> QED BY <1>7, <1>8, <1>9, PartsNext

(* A step of EnsureRuntime that sends nothing. *)
LEMMA SilentStep ==
    ASSUME SyncInv, rec.at = "ensure", NEW r, Follows(r), Go(r),
           UNCHANGED <<setup, appLog, objLog, history>>, Rest'
    PROVE  SyncInv'
<1>1. AppPart /\ LogPart /\ MadePart
  BY Parts
<1>2. AppPart' /\ rec'.app = rec.app
  BY <1>1, KeepFollows DEF history
<1>3. MadePart' /\ LogPart'
  BY <1>1, <1>2, KeepMadeStill DEF LogPart
<1> QED BY <1>2, <1>3, PartsNext

LEMMA SilentSteps ==
    ASSUME SyncInv, EnsureUnchanged \/ EnsureRefused \/ EnsureFail
    PROVE  SyncInv'
<1>1. AppPart /\ Rest
  BY Parts
<1>2. rec.at = "ensure" /\ UNCHANGED <<setup, appLog, objLog, history>>
  BY DEF EnsureUnchanged, EnsureRefused, EnsureFail
<1>3. Rest'
  BY <1>1 DEF EnsureUnchanged, EnsureRefused, EnsureFail, Rest, bounds
<1>4. Follows(NextItem) /\ Follows(Abort)
  BY <1>1, <1>2, CallMoves
<1>5. Go(NextItem) \/ Go(Abort)
  BY DEF EnsureUnchanged, EnsureRefused, EnsureFail
<1> QED BY <1>2, <1>3, <1>4, <1>5, SilentStep

LEMMA JobWritten ==
    ASSUME jobLog \in Seq(JobStage), jobLog # <<>>, NEW stage \in JobStage,
           WriteJob(stage)
    PROVE  jobLog' \in Seq(JobStage) /\ jobLog' # <<>>
BY AppendLog DEF WriteJob

LEMMA ApplyJobKeeps ==
    ASSUME SyncInv, ApplyJob
    PROVE  SyncInv'
<1>1. AppPart /\ Rest
  BY Parts
<1>2. /\ rec.at = "ensure" /\ Go(NextItem)
      /\ UNCHANGED <<setup, appLog, objLog, history, bounds>>
      /\ WriteJob("running") \/ UNCHANGED jobLog
  BY DEF ApplyJob
<1>3. jobLog' \in Seq(JobStage) /\ jobLog' # <<>>
  BY <1>1, <1>2, JobWritten DEF Rest, JobStage
<1>4. Rest'
  BY <1>1, <1>2, <1>3 DEF Rest, bounds
<1>5. Follows(NextItem)
  BY <1>1, <1>2, CallMoves
<1> QED BY <1>2, <1>4, <1>5, SilentStep

LEMMA SweepJobKeeps ==
    ASSUME SyncInv, SweepJob
    PROVE  SyncInv'
<1>1. AppPart /\ LogPart /\ MadePart /\ Rest
  BY Parts
<1>2. /\ rec' = [rec EXCEPT !.at = "idle"]
      /\ UNCHANGED <<setup, appLog, objLog, history, bounds>>
      /\ WriteJob("absent") \/ UNCHANGED jobLog
  BY DEF SweepJob, Go
<1>3. rec' \in Call /\ rec'.app = rec.app /\ rec'.fresh = rec.fresh
      /\ rec'.at = "idle"
  BY <1>1, <1>2 DEF AppPart, Call
<1>4. AppPart'
  BY <1>1, <1>2, <1>3, KeepApp DEF history
<1>5. MadePart' /\ LogPart'
  BY <1>1, <1>2, <1>3, KeepMadeStill DEF LogPart
<1>6. jobLog' \in Seq(JobStage) /\ jobLog' # <<>>
  BY <1>1, <1>2, JobWritten DEF Rest, JobStage
<1>7. Rest'
  BY <1>1, <1>2, <1>6 DEF Rest, bounds
<1> QED BY <1>4, <1>5, <1>7, PartsNext

LEMMA JobSteps ==
    ASSUME SyncInv, JobRun \/ DeliverJob
    PROVE  SyncInv'
<1>1. AppPart /\ LogPart /\ MadePart /\ Rest
  BY Parts
<1>2. UNCHANGED <<setup, appLog, objLog, rec, history, bounds>>
  BY DEF JobRun, DeliverJob
<1>3. jobLog' \in Seq(JobStage) /\ jobLog' # <<>>
  <2>1. CASE JobRun
    BY <1>1, <2>1, JobWritten DEF JobRun, Rest, JobStage
  <2>2. CASE DeliverJob
    BY <1>1, <2>2, TailLog DEF DeliverJob, Rest
  <2> QED BY <2>1, <2>2
<1>4. AppPart'
  BY <1>1, <1>2, KeepApp DEF AppPart, CallInShape, history
<1>5. MadePart' /\ LogPart' /\ Rest'
  BY <1>1, <1>2, <1>3, KeepMadeStill DEF LogPart, Rest, bounds
<1> QED BY <1>4, <1>5, PartsNext

-----------------------------------------------------------------------------
(***************************************************************************)
(* Steps that write an object.                                             *)
(***************************************************************************)
(* What EnsureObject sends: nothing of the object, or one whole spec.      *)
LEMMA WhatIsSent ==
    ASSUME AppPart, LogPart, EnsureObject
    PROVE  /\ Item \in Object
           /\ \E v \in Version \cup {Absent} :
                 /\ WriteObject(Item, v)
                 /\ v # Absent => v.fields = Desired(Item, rec.app.spec)
<1>1. Item \in Object
  BY CallMoves DEF EnsureObject
<1>2. rec.app.spec \in Specs
  BY AppFacts
<1>3. CASE WriteObject(Item, Fresh(Item, rec.app.spec))
  BY <1>1, <1>2, <1>3, FreshTyped
<1>4. CASE Changed(Item)
           /\ WriteObject(Item, Updated(Item, Cached(Item), rec.app.spec))
  <2>1. Cached(Item) \in Version
    BY <1>1, <1>4, ObjectEnds DEF Changed
  <2> QED BY <1>1, <1>2, <1>4, <2>1, UpdatedTyped
<1>5. CASE WriteObject(Item, Absent)
  BY <1>1, <1>5
<1> QED BY <1>3, <1>4, <1>5 DEF EnsureObject

LEMMA EnsureObjectKeeps ==
    ASSUME SyncInv, EnsureObject
    PROVE  SyncInv'
<1>1. AppPart /\ LogPart /\ MadePart /\ Rest
  BY Parts
<1>2. /\ rec.at = "ensure" /\ Go(NextItem)
      /\ UNCHANGED <<setup, appLog, jobLog, asked, bounds>>
      /\ tampered' = tampered \ {Item}
      /\ made' = [made EXCEPT ![Item] = rec.app.generation]
  BY DEF EnsureObject
<1>3. Follows(NextItem)
  BY <1>1, <1>2, CallMoves
<1>4. AppPart' /\ rec'.app = rec.app
  BY <1>1, <1>2, <1>3, KeepFollows
<1>5. PICK v \in Version \cup {Absent} :
         /\ WriteObject(Item, v)
         /\ v # Absent => v.fields = Desired(Item, rec.app.spec)
  BY <1>1, WhatIsSent
<1>6. PICK o \in Object : o = Item
  BY <1>1, WhatIsSent
<1>7. /\ LogPart' /\ Server(o)' = v
      /\ \A p \in Object \ {o} : Server(p)' = Server(p)
  BY <1>1, <1>5, <1>6, ObjectSent
<1>8. MadePart'
  <2> DEFINE gen == rec.app.generation
  <2>1. /\ made \in [Object -> Nat] /\ tampered \in SUBSET Object
        /\ WrittenByCalls /\ WholeSpec
    BY <1>1 DEF MadePart
  <2>2. /\ gen \in Nat /\ gen \in DOMAIN asked
        /\ rec.app.spec = asked[gen]
    BY <1>1, AppFacts DEF AppPart, VersionsInOrder, IsVersion
  <2>3. /\ made' \in [Object -> Nat] /\ made'[o] = gen
        /\ \A p \in Object \ {o} : made'[p] = made[p]
    BY <1>2, <1>6, <2>1, <2>2
  <2>4. WrittenByCalls'
    <3> SUFFICES ASSUME NEW p \in Object PROVE made'[p] <= gen
      BY <1>4 DEF WrittenByCalls
    <3>1. CASE p = o
      BY <2>2, <2>3, <3>1
    <3>2. CASE p # o
      BY <2>1, <2>3, <3>2 DEF WrittenByCalls
    <3> QED BY <3>1, <3>2
  <2>5. WholeSpec'
    <3> SUFFICES ASSUME NEW p \in Object \ tampered', Server(p)' # Absent
                 PROVE  /\ made'[p] \in DOMAIN asked
                        /\ Server(p)'.fields = Desired(p, asked[made'[p]])
      BY <1>2 DEF WholeSpec
    <3>1. CASE p = o
      BY <1>5, <1>6, <1>7, <2>2, <2>3, <3>1
    <3>2. CASE p # o
      <4>1. p \in Object \ tampered /\ Server(p)' = Server(p)
            /\ made'[p] = made[p]
        BY <1>2, <1>6, <1>7, <2>3, <3>2
      <4> QED BY <2>1, <4>1 DEF WholeSpec
    <3> QED BY <3>1, <3>2
  <2> QED BY <1>2, <2>1, <2>3, <2>4, <2>5 DEF MadePart
<1>9. Rest'
  BY <1>1, <1>2 DEF Rest, bounds
<1> QED BY <1>4, <1>7, <1>8, <1>9, PartsNext

(* What others may put in the place of an object. *)
LEMMA WhatOthersPut ==
    ASSUME LogPart, NEW o \in Object, Drift(o) \/ Vanish(o) \/ Label(o)
    PROVE  \E v \in Version \cup {Absent} :
              /\ Meddle(o, v)
              /\ v # Absent => Server(o) # Absent
                                /\ (Server(o).labelled => v.labelled)
              /\ \/ tampered' = tampered \cup {o}
                 \/ v = Absent /\ tampered' = tampered \ {o}
                 \/ /\ Server(o) # Absent /\ v.fields = Server(o).fields
                    /\ tampered' = tampered
<1>1. Server(o) \in Version \cup {Absent}
  BY ObjectEnds
<1>2. CASE Drift(o)
  <2>1. PICK f \in Fields(o), s \in Specs :
           /\ Server(o) # Absent
           /\ Meddle(o, [Server(o) EXCEPT !.fields[f] = s[f]])
    BY <1>2 DEF Drift
  <2>2. PICK p \in Object : Server(o).fields \in [Fields(p) -> Value]
    BY <1>1, <2>1 DEF Version
  <2>3. s[f] \in Value
    BY ConstantsAssumption, FieldsOfSpec
  <2> DEFINE fs == [Server(o).fields EXCEPT ![f] = s[f]]
  <2>4. fs \in [Fields(p) -> Value]
    BY <2>2, <2>3
  <2> HIDE DEF fs
  <2> DEFINE v == [Server(o) EXCEPT !.fields = fs]
  <2>5. v \in Version /\ v.labelled = Server(o).labelled
    BY <1>1, <2>1, <2>4 DEF Version
  <2>6. Meddle(o, v)
    BY <2>1 DEF fs
  <2>7. tampered' = tampered \cup {o}
    BY <1>2 DEF Drift
  <2> HIDE DEF v
  <2> QED BY <2>1, <2>5, <2>6, <2>7
<1>3. CASE Vanish(o)
  BY <1>3 DEF Vanish
<1>4. CASE Label(o)
  <2>1. PICK l \in BOOLEAN :
           Meddle(o, [Server(o) EXCEPT !.labelled = @ \/ l])
    BY <1>4 DEF Label
  <2>2. Server(o) # Absent
    BY <2>1 DEF Meddle
  <2>3. (Server(o).labelled \/ l) \in BOOLEAN
    BY <1>1, <2>2 DEF Version
  <2> DEFINE v == [Server(o) EXCEPT !.labelled = @ \/ l]
  <2>4. /\ v \in Version /\ v.fields = Server(o).fields
        /\ Server(o).labelled => v.labelled
    BY <1>1, <2>2, <2>3 DEF Version
  <2>5. tampered' = tampered
    BY <1>4 DEF Label
  <2> QED BY <2>1, <2>2, <2>4, <2>5
<1> QED BY <1>2, <1>3, <1>4

LEMMA OthersKeep ==
    ASSUME SyncInv, Others
    PROVE  SyncInv'
<1>1. AppPart /\ LogPart /\ MadePart /\ Rest
  BY Parts
<1>2. PICK o \in Object : Drift(o) \/ Vanish(o) \/ Label(o)
  BY DEF Others
<1>3. PICK v \in Version \cup {Absent} :
         /\ Meddle(o, v)
         /\ \/ tampered' = tampered \cup {o}
            \/ v = Absent /\ tampered' = tampered \ {o}
            \/ /\ Server(o) # Absent /\ v.fields = Server(o).fields
               /\ tampered' = tampered
  BY <1>1, <1>2, WhatOthersPut
<1>4. \/ tampered' = tampered \cup {o}
      \/ v = Absent /\ tampered' = tampered \ {o}
      \/ /\ Server(o) # Absent /\ v.fields = Server(o).fields
         /\ tampered' = tampered
  BY <1>3
<1>5. /\ objLog' = [objLog EXCEPT ![o] = Append(@, v)]
      /\ UNCHANGED <<setup, appLog, jobLog, rec, asked, made, edits, faults>>
      /\ meddling' = meddling + 1
  BY <1>3 DEF Meddle
<1>6. /\ LogPart' /\ Server(o)' = v
      /\ \A p \in Object \ {o} : Server(p)' = Server(p)
  BY <1>1, <1>5, ObjectWritten
<1>7. AppPart'
  BY <1>1, <1>5, KeepApp DEF AppPart, CallInShape
<1>8. MadePart'
  <2>1. /\ made \in [Object -> Nat] /\ tampered \in SUBSET Object
        /\ WrittenByCalls /\ WholeSpec
    BY <1>1 DEF MadePart
  <2>2. tampered' \in SUBSET Object /\ WrittenByCalls'
    BY <1>4, <1>5, <2>1 DEF WrittenByCalls
  <2>3. WholeSpec'
    <3> SUFFICES ASSUME NEW p \in Object \ tampered', Server(p)' # Absent
                 PROVE  /\ made[p] \in DOMAIN asked
                        /\ Server(p)'.fields = Desired(p, asked[made[p]])
      BY <1>5 DEF WholeSpec
    <3>1. CASE p = o
      <4>1. Server(o) # Absent /\ v.fields = Server(o).fields
            /\ tampered' = tampered
        BY <1>4, <1>6, <3>1
      <4> QED BY <1>6, <2>1, <3>1, <4>1 DEF WholeSpec
    <3>2. CASE p # o
      <4>1. p \in Object \ tampered /\ Server(p)' = Server(p)
        BY <1>4, <1>6, <3>2
      <4> QED BY <2>1, <4>1 DEF WholeSpec
    <3> QED BY <3>1, <3>2
  <2> QED BY <1>5, <2>1, <2>2, <2>3 DEF MadePart
<1>9. Rest'
  BY <1>1, <1>5 DEF Rest
<1> QED BY <1>6, <1>7, <1>8, <1>9, PartsNext

-----------------------------------------------------------------------------
(***************************************************************************)
(* Steps that write the App.                                               *)
(***************************************************************************)
LEMMA AppendOrdered ==
    ASSUME NEW log \in Seq(App), log # <<>>, NEW a \in App,
           \A i, j \in DOMAIN log : i <= j => log[i].generation <= log[j].generation,
           log[Len(log)].generation <= a.generation
    PROVE  \A i, j \in DOMAIN Append(log, a) :
              i <= j => Append(log, a)[i].generation <= Append(log, a)[j].generation
<1>1. PICK n \in Nat \ {0} : n = Len(log)
  BY LogEnds
<1>2. /\ DOMAIN log = 1 .. n /\ Append(log, a)[n + 1] = a
      /\ DOMAIN Append(log, a) = 1 .. n + 1
      /\ \A i \in 1 .. n : Append(log, a)[i] = log[i]
  BY <1>1, AppendLog, LenProperties
<1>3. a.generation \in Nat /\ \A i \in 1 .. n : log[i].generation \in Nat
  <2>1. \A v \in App : v.generation \in Nat
    BY DEF App
  <2>2. \A i \in 1 .. n : log[i] \in App
    BY <1>1, ElementOfSeq
  <2> QED BY <2>1, <2>2
<1>4. \A i \in 1 .. n : log[i].generation <= log[n].generation
  <2> SUFFICES ASSUME NEW i \in 1 .. n
               PROVE  log[i].generation <= log[n].generation
    OBVIOUS
  <2>1. n \in 1 .. n
    OBVIOUS
  <2>2. i <= n
    OBVIOUS
  <2>3. i \in DOMAIN log /\ n \in DOMAIN log
    BY <1>2, <2>1, Zenon
  <2> QED BY <2>2, <2>3
<1>5. \A i \in 1 .. n : log[i].generation <= a.generation
  BY <1>1, <1>3, <1>4
<1> SUFFICES ASSUME NEW i \in 1 .. n + 1, NEW j \in 1 .. n + 1, i <= j
             PROVE  Append(log, a)[i].generation <= Append(log, a)[j].generation
  BY <1>2
<1>6. CASE i \in 1 .. n /\ j \in 1 .. n
  BY <1>2, <1>6
<1>7. CASE i \in 1 .. n /\ j = n + 1
  BY <1>2, <1>5, <1>7
<1>8. CASE i = n + 1
  <2>1. j = n + 1
    BY <1>8
  <2> QED BY <1>2, <1>3, <1>8, <2>1
<1>9. (i \in 1 .. n \/ i = n + 1) /\ (j \in 1 .. n \/ j = n + 1)
  OBVIOUS
<1> QED BY <1>6, <1>7, <1>8, <1>9

(* A version of the latest generation is appended, and the call in         *)
(* progress may no longer write a status.                                  *)
Extends(a) ==
    /\ a \in App /\ WriteApp(a) /\ UNCHANGED setup
    /\ asked' \in Seq(Specs)
    /\ \A i \in DOMAIN asked : i \in DOMAIN asked' /\ asked'[i] = asked[i]
    /\ a.generation \in DOMAIN asked' /\ a.spec = asked'[a.generation]
    /\ a.generation = Len(asked') /\ Len(asked) <= Len(asked')
    /\ rec' \in Call /\ rec'.app = rec.app /\ ~rec'.fresh
    /\ rec'.at = "ensure" => rec'.todo # <<>>
    /\ rec'.at = "report" => kind = "ContainerApp" /\ rec'.outcome # ""
    /\ rec'.at = "sweep" => kind = "App"

LEMMA AppWritten ==
    ASSUME AppPart, NEW a, Extends(a)
    PROVE  AppPart'
<1>1. /\ appLog \in Seq(App) /\ appLog # <<>> /\ appLog' = Append(appLog, a)
      /\ a \in App
  BY DEF AppPart, WriteApp, Extends
<1>2. /\ \A i \in DOMAIN appLog : IsVersion(appLog[i])
      /\ \A i, j \in DOMAIN appLog :
            i <= j => appLog[i].generation <= appLog[j].generation
      /\ appLog[Len(appLog)].generation = Len(asked)
      /\ IsVersion(rec.app) /\ rec.app.generation <= Head(appLog).generation
  BY DEF AppPart, VersionsInOrder, AppServer
<1>3. PICK n \in Nat \ {0} : n = Len(appLog) /\ DOMAIN appLog = 1 .. n
  BY AppFacts
<1>4. /\ appLog' \in Seq(App) /\ appLog' # <<>> /\ Len(appLog') = n + 1
      /\ Head(appLog') = Head(appLog) /\ appLog'[n + 1] = a
      /\ \A i \in 1 .. n : appLog'[i] = appLog[i]
  BY <1>1, <1>3, AppendLog
<1>5. DOMAIN appLog' = 1 .. n + 1 /\ AppServer' = a
  BY <1>4, LenProperties DEF AppServer
<1>6. \A i, j \in DOMAIN appLog' :
            i <= j => appLog'[i].generation <= appLog'[j].generation
  <2>1. appLog[Len(appLog)].generation <= a.generation
    BY <1>2 DEF Extends
  <2> QED BY <1>1, <1>2, <2>1, AppendOrdered
<1>7. \A i \in DOMAIN appLog' : IsVersion(appLog[i])'
  <2> SUFFICES ASSUME NEW i \in 1 .. n + 1
               PROVE  /\ appLog'[i].generation \in DOMAIN asked'
                      /\ appLog'[i].spec = asked'[appLog'[i].generation]
    BY <1>5 DEF IsVersion
  <2>1. CASE i \in 1 .. n
    BY <1>2, <1>3, <1>4, <2>1 DEF IsVersion, Extends
  <2>2. CASE i = n + 1
    BY <1>4, <2>2 DEF Extends
  <2> QED BY <2>1, <2>2
<1>8. VersionsInOrder'
  <2>1. IsVersion(rec.app)'
    BY <1>2 DEF IsVersion, Extends
  <2>2. rec'.app.generation <= Head(appLog').generation
    BY <1>2, <1>4 DEF Extends
  <2>3. AppServer'.generation = Len(asked')
    BY <1>5 DEF Extends
  <2> QED BY <1>6, <1>7, <2>1, <2>2, <2>3 DEF VersionsInOrder
<1>9. FreshIsCurrent' /\ CallInShape'
  BY DEF FreshIsCurrent, CallInShape, setup, Extends
<1> QED BY <1>4, <1>8, <1>9 DEF AppPart, setup, Extends

LEMMA EditKeeps ==
    ASSUME SyncInv, User
    PROVE  SyncInv'
<1>1. AppPart /\ LogPart /\ MadePart /\ Rest
  BY Parts
<1>2. PICK s \in Specs : Edit(s)
  BY DEF User
<1> DEFINE a == [spec |-> s, generation |-> AppServer.generation + 1,
                 phase |-> AppServer.phase]
<1>3. /\ WriteApp(a) /\ rec' = [rec EXCEPT !.fresh = FALSE]
      /\ asked' = Append(asked, s) /\ edits' = edits + 1
      /\ UNCHANGED <<setup, objLog, jobLog, made, tampered, meddling, faults>>
  BY <1>2 DEF Edit
<1>4. /\ AppServer \in App /\ AppServer.generation = Len(asked)
      /\ asked \in Seq(Specs) /\ Len(asked) \in Nat
      /\ DOMAIN asked = 1 .. Len(asked)
      /\ rec.app.generation \in Nat
  BY <1>1, AppFacts DEF AppPart, VersionsInOrder
<1>5. /\ asked' \in Seq(Specs) /\ Len(asked') = Len(asked) + 1
      /\ asked'[Len(asked) + 1] = s
      /\ \A i \in 1 .. Len(asked) : asked'[i] = asked[i]
  BY <1>3, <1>4, AppendProperties
<1>6. /\ DOMAIN asked' = 1 .. Len(asked) + 1
      /\ \A i \in DOMAIN asked : i \in DOMAIN asked' /\ asked'[i] = asked[i]
  BY <1>4, <1>5, LenProperties
<1>7. a \in App /\ a.spec = s /\ a.generation = Len(asked) + 1
  <2>1. AppServer.generation + 1 = Len(asked) + 1 /\ Len(asked) + 1 \in Nat
    BY <1>4
  <2> QED BY <1>4, <2>1 DEF App
<1>8. /\ rec' \in Call /\ rec'.app = rec.app /\ ~rec'.fresh
      /\ rec'.at = rec.at /\ rec'.todo = rec.todo
      /\ rec'.outcome = rec.outcome
  BY <1>1, <1>3 DEF AppPart, Call
<1>9. rec.at = "ensure" => rec.todo # <<>>
  BY <1>1 DEF AppPart, CallInShape
<1>10. /\ rec.at = "report" => kind = "ContainerApp" /\ rec.outcome # ""
       /\ rec.at = "sweep" => kind = "App"
  BY <1>1 DEF AppPart, CallInShape
<1> HIDE DEF a
<1>11. a.generation \in DOMAIN asked' /\ a.spec = asked'[a.generation]
       /\ a.generation = Len(asked') /\ Len(asked) <= Len(asked')
  BY <1>4, <1>5, <1>6, <1>7
<1>12. AppPart'
  <2>1. Extends(a)
    BY <1>3, <1>5, <1>6, <1>7, <1>8, <1>9, <1>10, <1>11 DEF Extends
  <2> QED BY <1>1, <2>1, AppWritten
<1>13. MadePart'
  BY <1>1, <1>3, <1>4, <1>6, <1>8, SameServers, KeepMade
<1>14. LogPart' /\ Rest'
  BY <1>1, <1>3 DEF LogPart, Rest
<1> QED BY <1>12, <1>13, <1>14, PartsNext

LEMMA ReportKeeps ==
    ASSUME SyncInv, Report
    PROVE  SyncInv'
<1>1. AppPart /\ LogPart /\ MadePart /\ Rest
  BY Parts
<1>2. /\ rec' = [rec EXCEPT !.at = "idle", !.fresh = FALSE, !.outcome = ""]
      /\ UNCHANGED <<setup, objLog, jobLog, history, edits, meddling>>
      /\ faults' = faults \/ faults' = faults + 1
  BY DEF Report, Go
<1>3. rec' \in Call /\ rec'.app = rec.app /\ ~rec'.fresh /\ rec'.at = "idle"
  BY <1>1, <1>2 DEF AppPart, Call, Phase
<1>4. AppPart'
  <2>1. CASE UNCHANGED appLog
    BY <1>1, <1>2, <1>3, <2>1, KeepApp DEF history
  <2>2. CASE WriteApp([AppServer EXCEPT !.phase = rec.outcome])
    <3> DEFINE a == [AppServer EXCEPT !.phase = rec.outcome]
    <3>1. /\ AppServer \in App /\ asked \in Seq(Specs)
          /\ AppServer = appLog[Len(appLog)] /\ Len(appLog) \in DOMAIN appLog
          /\ Len(asked) \in Nat
      BY <1>1, AppFacts DEF AppPart
    <3>2. IsVersion(AppServer) /\ AppServer.generation = Len(asked)
      BY <1>1, <3>1 DEF AppPart, VersionsInOrder
    <3>3. rec.outcome \in Phase
      BY <1>1 DEF AppPart, Call
    <3>4. /\ a \in App /\ a.generation = AppServer.generation
          /\ a.spec = AppServer.spec
      BY <3>1, <3>3 DEF App
    <3> HIDE DEF a
    <3>5. asked' = asked
      BY <1>2 DEF history
    <3>6. /\ a.generation \in DOMAIN asked' /\ a.spec = asked'[a.generation]
          /\ a.generation = Len(asked') /\ Len(asked) <= Len(asked')
      BY <3>1, <3>2, <3>4, <3>5 DEF IsVersion
    <3>7. WriteApp(a)
      BY <2>2 DEF a
    <3>8. /\ rec'.at = "ensure" => rec'.todo # <<>>
          /\ rec'.at = "report" => kind = "ContainerApp" /\ rec'.outcome # ""
          /\ rec'.at = "sweep" => kind = "App"
      BY <1>3
    <3>9. asked' \in Seq(Specs) /\ UNCHANGED setup
          /\ \A i \in DOMAIN asked : i \in DOMAIN asked' /\ asked'[i] = asked[i]
      BY <1>2, <3>1, <3>5
    <3>10. Extends(a)
      BY <1>3, <3>4, <3>6, <3>7, <3>8, <3>9 DEF Extends
    <3> QED BY <1>1, <3>10, AppWritten
  <2> QED BY <2>1, <2>2 DEF Report
<1>5. MadePart'
  BY <1>1, <1>2, <1>3, KeepMadeStill
<1>6. LogPart' /\ Rest'
  BY <1>1, <1>2 DEF LogPart, Rest
<1> QED BY <1>4, <1>5, <1>6, PartsNext

-----------------------------------------------------------------------------
(***************************************************************************)
(* Deliveries and restarts.                                                *)
(***************************************************************************)
LEMMA TailOrdered ==
    ASSUME NEW log \in Seq(App), Len(log) > 1,
           \A i, j \in DOMAIN log : i <= j => log[i].generation <= log[j].generation
    PROVE  /\ \A i, j \in DOMAIN Tail(log) :
                 i <= j => Tail(log)[i].generation <= Tail(log)[j].generation
           /\ \A i \in DOMAIN Tail(log) : \E k \in DOMAIN log :
                 Tail(log)[i] = log[k]
           /\ Head(log).generation <= Head(Tail(log)).generation
<1>1. log # <<>>
  <2>1. Len(<<>>) = 0
    OBVIOUS
  <2> QED BY <2>1
<1>2. PICK n \in Nat \ {0} : n = Len(log)
  BY <1>1, LogEnds
<1>3. n > 1
  BY <1>2
<1>4. /\ DOMAIN log = 1 .. n /\ Head(log) = log[1]
      /\ DOMAIN Tail(log) = 1 .. n - 1 /\ Head(Tail(log)) = log[2]
      /\ \A i \in 1 .. n - 1 : Tail(log)[i] = log[i + 1]
  <2>1. /\ DOMAIN log = 1 .. n /\ Head(log) = log[1]
    BY <1>1, <1>2, LogEnds
  <2>2. /\ Tail(log) \in Seq(App) /\ Len(Tail(log)) = n - 1
        /\ Head(Tail(log)) = log[2]
        /\ \A i \in 1 .. n - 1 : Tail(log)[i] = log[i + 1]
    BY <1>2, TailLog
  <2>3. DOMAIN Tail(log) = 1 .. n - 1
    BY <2>2, LenProperties
  <2> QED BY <2>1, <2>2, <2>3
<1>5. \A i \in 1 .. n - 1 : i + 1 \in 1 .. n
  OBVIOUS
<1>6. \A i, j \in 1 .. n - 1 : i <= j => i + 1 <= j + 1
  OBVIOUS
<1>7. 1 \in 1 .. n /\ 2 \in 1 .. n /\ 1 <= 2
  BY <1>3
<1>8. /\ \A i, j \in 1 .. n :
            i <= j => log[i].generation <= log[j].generation
  BY <1>4
<1>9. \A i, j \in 1 .. n - 1 :
            i <= j => Tail(log)[i].generation <= Tail(log)[j].generation
  BY <1>4, <1>5, <1>6, <1>8
<1>10. \A i \in 1 .. n - 1 : \E k \in 1 .. n : Tail(log)[i] = log[k]
  BY <1>4, <1>5
<1>11. Head(log).generation <= Head(Tail(log)).generation
  BY <1>4, <1>7, <1>8
<1> QED BY <1>4, <1>9, <1>10, <1>11

LEMMA DeliverAppKeeps ==
    ASSUME SyncInv, DeliverApp
    PROVE  SyncInv'
<1>1. AppPart /\ LogPart /\ MadePart /\ Rest
  BY Parts
<1>2. /\ Len(appLog) > 1 /\ appLog' = Tail(appLog)
      /\ UNCHANGED <<kind, order, objLog, jobLog, rec, asked, made, tampered,
                     edits, meddling, faults>>
  BY DEF DeliverApp, setup, history, bounds
<1>3. appLog \in Seq(App) /\ VersionsInOrder
  BY <1>1 DEF AppPart
<1>4. /\ appLog' \in Seq(App) /\ appLog' # <<>>
      /\ appLog'[Len(appLog')] = appLog[Len(appLog)]
  BY <1>2, <1>3, TailLog
<1>5. /\ \A i, j \in DOMAIN appLog' :
            i <= j => appLog'[i].generation <= appLog'[j].generation
      /\ \A i \in DOMAIN appLog' : \E k \in DOMAIN appLog :
            appLog'[i] = appLog[k]
      /\ Head(appLog).generation <= Head(appLog').generation
  BY <1>2, <1>3, TailOrdered DEF VersionsInOrder
<1>6. VersionsInOrder'
  <2>1. \A i \in DOMAIN appLog' : IsVersion(appLog[i])'
    <3> SUFFICES ASSUME NEW i \in DOMAIN appLog'
                 PROVE  /\ appLog'[i].generation \in DOMAIN asked
                        /\ appLog'[i].spec = asked[appLog'[i].generation]
      BY <1>2 DEF IsVersion
    <3>1. PICK k \in DOMAIN appLog : appLog'[i] = appLog[k]
      BY <1>5
    <3> QED BY <1>3, <3>1 DEF VersionsInOrder, IsVersion
  <2>2. /\ AppServer'.generation = Len(asked')
        /\ IsVersion(rec.app)'
    BY <1>2, <1>3, <1>4 DEF VersionsInOrder, IsVersion, AppServer
  <2>3. rec'.app.generation <= Head(appLog').generation
    <3>1. rec'.app.generation = rec.app.generation
      BY <1>2
    <3>2. rec.app.generation <= Head(appLog).generation
      BY <1>3 DEF VersionsInOrder
    <3>3. /\ rec.app.generation \in Nat /\ Head(appLog).generation \in Nat
          /\ Head(appLog').generation \in Nat
      <4>1. Head(appLog') \in App
        BY <1>4, LogEnds
      <4> QED BY <1>1, <4>1, AppFacts DEF App
    <3> QED BY <1>5, <3>1, <3>2, <3>3
  <2> QED BY <1>5, <2>1, <2>2, <2>3 DEF VersionsInOrder
<1>7. FreshIsCurrent' /\ CallInShape'
  <2>1. ~rec.fresh
    BY <1>1, <1>2 DEF AppPart, FreshIsCurrent
  <2> QED BY <1>1, <1>2, <2>1 DEF AppPart, FreshIsCurrent, CallInShape
<1>8. AppPart'
  BY <1>1, <1>2, <1>4, <1>6, <1>7 DEF AppPart
<1>9. MadePart' /\ LogPart' /\ Rest'
  BY <1>1, <1>2, KeepMadeStill DEF LogPart, Rest, history
<1> QED BY <1>8, <1>9, PartsNext

LEMMA ObjectDelivered ==
    ASSUME LogPart, NEW o \in Object, DeliverObject(o)
    PROVE  LogPart' /\ \A p \in Object : Server(p)' = Server(p)
<1>2. Len(objLog[o]) > 1 /\ objLog' = [objLog EXCEPT ![o] = Tail(@)]
  BY DEF DeliverObject
<1>3. objLog \in [Object -> Seq(Version \cup {Absent})]
      /\ \A p \in Object : objLog[p] # <<>>
  BY DEF LogPart
<1>4. /\ Tail(objLog[o]) \in Seq(Version \cup {Absent})
      /\ Tail(objLog[o]) # <<>>
      /\ Tail(objLog[o])[Len(Tail(objLog[o]))] = objLog[o][Len(objLog[o])]
  BY <1>2, <1>3, TailLog
<1>5. /\ objLog'[o] = Tail(objLog[o])
      /\ \A p \in Object \ {o} : objLog'[p] = objLog[p]
  BY <1>2, <1>3
<1> QED BY <1>2, <1>3, <1>4, <1>5 DEF LogPart, Server

LEMMA DeliverObjectKeeps ==
    ASSUME SyncInv, NEW o \in Object, DeliverObject(o)
    PROVE  SyncInv'
<1>1. AppPart /\ LogPart /\ MadePart /\ Rest
  BY Parts
<1>2. UNCHANGED <<kind, order, appLog, jobLog, rec, asked, made, tampered,
                  edits, meddling, faults>>
  BY DEF DeliverObject, setup, history, bounds
<1>6. LogPart' /\ \A p \in Object : Server(p)' = Server(p)
  BY <1>1, ObjectDelivered
<1>7. AppPart'
  BY <1>1, <1>2, KeepApp DEF AppPart, CallInShape, setup
<1>8. MadePart'
  BY <1>1, <1>2, <1>6, AppFacts, KeepMade
<1>9. Rest'
  BY <1>1, <1>2 DEF Rest
<1> QED BY <1>6, <1>7, <1>8, <1>9, PartsNext

LEMMA CachesFilled ==
    ASSUME LogPart, Crash
    PROVE  LogPart' /\ \A o \in Object : Server(o)' = Server(o)
<1>1. objLog' = [o \in Object |-> <<Server(o)>>]
  BY DEF Crash
<1>2. \A o \in Object : /\ <<Server(o)>> \in Seq(Version \cup {Absent})
                        /\ <<Server(o)>> # <<>> /\ Len(<<Server(o)>>) = 1
                        /\ <<Server(o)>>[1] = Server(o)
  BY ObjectEnds, OneLog
<1>3. \A o \in Object : objLog'[o] = <<Server(o)>>
  BY <1>1
<1>4. LogPart'
  BY <1>1, <1>2, <1>3 DEF LogPart
<1>5. \A o \in Object : Server(o)' = objLog'[o][Len(objLog'[o])]
  BY DEF Server
<1> QED BY <1>2, <1>3, <1>4, <1>5

LEMMA CrashKeeps ==
    ASSUME SyncInv, Crash
    PROVE  SyncInv'
<1>1. AppPart /\ LogPart /\ MadePart /\ Rest
  BY Parts
<1>2. /\ rec' = [rec EXCEPT !.at = "idle", !.todo = <<>>]
      /\ appLog' = <<AppServer>>
      /\ objLog' = [o \in Object |-> <<Server(o)>>]
      /\ jobLog' = <<JobServer>>
      /\ faults' = faults + 1
      /\ UNCHANGED <<kind, order, asked, made, tampered, edits, meddling>>
  BY DEF Crash, Go, setup, history
<1>3. <<>> \in Seq(Object \cup {"job"})
  OBVIOUS
<1>4. rec' \in Call /\ rec'.app = rec.app /\ rec'.fresh = rec.fresh
      /\ rec'.at = "idle"
  BY <1>1, <1>2, <1>3 DEF AppPart, Call
<1>5. /\ appLog' \in Seq(App) /\ appLog' # <<>> /\ Len(appLog') = 1
      /\ appLog'[1] = AppServer /\ Head(appLog') = AppServer
      /\ DOMAIN appLog' = {1} /\ AppServer' = AppServer
  <2>1. AppServer \in App
    BY <1>1, AppFacts
  <2>2. /\ appLog' \in Seq(App) /\ appLog' # <<>> /\ Len(appLog') = 1
        /\ appLog'[1] = AppServer /\ Head(appLog') = AppServer
    BY <1>2, <2>1, OneLog
  <2>3. DOMAIN appLog' = 1 .. 1
    BY <2>2, LenProperties
  <2>4. 1 .. 1 = {1}
    OBVIOUS
  <2>5. AppServer' = appLog'[Len(appLog')]
    BY DEF AppServer
  <2> QED BY <2>2, <2>3, <2>4, <2>5
<1>6. VersionsInOrder'
  <2>1. /\ Len(appLog) \in DOMAIN appLog /\ 1 \in DOMAIN appLog
        /\ 1 <= Len(appLog) /\ Head(appLog) = appLog[1]
        /\ AppServer = appLog[Len(appLog)]
    <3>1. \A n \in Nat \ {0} : n \in 1 .. n /\ 1 \in 1 .. n /\ 1 <= n
      OBVIOUS
    <3>2. /\ Len(appLog) \in Nat \ {0} /\ DOMAIN appLog = 1 .. Len(appLog)
          /\ Head(appLog) = appLog[1] /\ AppServer = appLog[Len(appLog)]
      BY <1>1, AppFacts
    <3> QED BY <3>1, <3>2, Zenon
  <2>2. /\ IsVersion(AppServer) /\ AppServer.generation = Len(asked)
        /\ Head(appLog).generation <= AppServer.generation
        /\ rec.app.generation <= Head(appLog).generation
        /\ IsVersion(rec.app)
    BY <1>1, <2>1, Zenon DEF AppPart, VersionsInOrder
  <2>3. /\ rec.app.generation \in Nat /\ Head(appLog).generation \in Nat
        /\ AppServer.generation \in Nat
    BY <1>1, AppFacts
  <2>4. rec.app.generation <= AppServer.generation
    BY <2>2, <2>3
  <2>5. \A i, j \in DOMAIN appLog' :
            i <= j => appLog'[i].generation <= appLog'[j].generation
    BY <1>5, <2>3
  <2>6. \A i \in DOMAIN appLog' : IsVersion(appLog[i])'
    BY <1>2, <1>5, <2>2 DEF IsVersion
  <2>7. AppServer'.generation = Len(asked') /\ IsVersion(rec.app)'
    BY <1>2, <1>4, <1>5, <2>2 DEF IsVersion
  <2>8. rec'.app.generation <= Head(appLog').generation
    BY <1>4, <1>5, <2>4
  <2> QED BY <2>5, <2>6, <2>7, <2>8 DEF VersionsInOrder
<1>7. FreshIsCurrent' /\ CallInShape'
  BY <1>1, <1>4, <1>5 DEF AppPart, FreshIsCurrent, CallInShape
<1>8. AppPart'
  BY <1>1, <1>2, <1>4, <1>5, <1>6, <1>7 DEF AppPart
<1>9. LogPart' /\ \A o \in Object : Server(o)' = Server(o)
  BY <1>1, CachesFilled
<1>10. MadePart'
  BY <1>1, <1>2, <1>4, <1>9, AppFacts, KeepMade
<1>11. Rest'
  <2>1. JobServer \in JobStage
    BY <1>1, LogEnds DEF Rest, JobServer
  <2>2. jobLog' \in Seq(JobStage) /\ jobLog' # <<>>
    BY <1>2, <2>1, OneLog
  <2> QED BY <1>1, <1>2, <2>2 DEF Rest
<1> QED BY <1>8, <1>9, <1>10, <1>11, PartsNext

-----------------------------------------------------------------------------
(***************************************************************************)
(* The theorems.                                                           *)
(***************************************************************************)
LEMMA SyncInit ==
    ASSUME Init
    PROVE  SyncInv
<1>1. PICK s \in Specs :
         /\ appLog = <<[spec |-> s, generation |-> 1, phase |-> ""]>>
         /\ asked = <<s>>
  BY DEF Init
<1> DEFINE a == [spec |-> s, generation |-> 1, phase |-> ""]
<1>2. a \in App /\ a.generation = 1 /\ a.spec = s
  BY DEF App, Phase
<1>3. appLog = <<a>>
  BY <1>1
<1> HIDE DEF a
<1>4. /\ appLog \in Seq(App) /\ appLog # <<>> /\ Len(appLog) = 1
      /\ appLog[1] = a /\ Head(appLog) = a
      /\ asked \in Seq(Specs) /\ Len(asked) = 1 /\ asked[1] = s
  BY <1>1, <1>2, <1>3, OneLog
<1>5. DOMAIN appLog = {1} /\ DOMAIN asked = {1} /\ AppServer = a
  <2>1. DOMAIN appLog = 1 .. 1 /\ DOMAIN asked = 1 .. 1
    BY <1>4, LenProperties
  <2>2. 1 .. 1 = {1}
    OBVIOUS
  <2> QED BY <1>4, <2>1, <2>2 DEF AppServer
<1>6. rec = Idle /\ <<>> \in Seq(Object \cup {"job"})
  <2>1. rec = Idle
    BY DEF Init
  <2>2. \A T : <<>> \in Seq(T)
    OBVIOUS
  <2> QED BY <2>1, <2>2
<1>7. rec \in Call /\ rec.app = a /\ ~rec.fresh /\ rec.at = "idle"
  BY <1>2, <1>4, <1>6 DEF Idle, Call, Phase
<1>8. VersionsInOrder
  BY <1>2, <1>4, <1>5, <1>7 DEF VersionsInOrder, IsVersion
<1>9. AppPart
  BY <1>4, <1>7, <1>8 DEF Init, AppPart, FreshIsCurrent, CallInShape
<1>10. LogPart /\ \A o \in Object : Server(o) = Absent
  <2>1. /\ <<Absent>> \in Seq(Version \cup {Absent}) /\ <<Absent>> # <<>>
        /\ Len(<<Absent>>) = 1 /\ <<Absent>>[1] = Absent
    BY OneLog
  <2>2. objLog = [o \in Object |-> <<Absent>>]
    BY DEF Init
  <2> QED BY <2>1, <2>2 DEF LogPart, Server
<1>11. MadePart
  <2>1. /\ made \in [Object -> Nat] /\ tampered \in SUBSET Object
        /\ \A o \in Object : made[o] = 0
    BY DEF Init
  <2>2. WrittenByCalls
    <3>1. rec.app.generation = 1
      BY <1>2, <1>7
    <3> QED BY <2>1, <3>1 DEF WrittenByCalls
  <2>3. WholeSpec
    BY <1>10 DEF WholeSpec
  <2> QED BY <2>1, <2>2, <2>3 DEF MadePart
<1>12. Rest
  <2>1. <<"absent">> \in Seq(JobStage) /\ <<"absent">> # <<>>
    BY OneLog DEF JobStage
  <2> QED BY <2>1 DEF Init, Rest
<1> QED BY <1>9, <1>10, <1>11, <1>12, Parts

LEMMA SyncStutter ==
    ASSUME SyncInv, UNCHANGED vars
    PROVE  SyncInv'
<1>1. AppPart /\ LogPart /\ MadePart /\ Rest
  BY Parts
<1>2. UNCHANGED <<kind, order, appLog, objLog, jobLog, rec, asked, made,
                  tampered, edits, meddling, faults>>
  BY DEF vars, setup, history, bounds
<1>3. AppPart'
  BY <1>1, <1>2, KeepApp DEF AppPart, CallInShape, setup
<1>4. MadePart' /\ LogPart' /\ Rest'
  BY <1>1, <1>2, KeepMadeStill DEF LogPart, Rest, history
<1> QED BY <1>3, <1>4, PartsNext

LEMMA SyncStep == SyncInv /\ [Next]_vars => SyncInv'
<1> SUFFICES ASSUME SyncInv, [Next]_vars
             PROVE  SyncInv'
  OBVIOUS
<1>1. CASE Deliver
  BY <1>1, DeliverAppKeeps, JobSteps, DeliverObjectKeeps DEF Deliver
<1>2. CASE Reconcile
  BY <1>2, ReconcileKeeps
<1>3. CASE EnsureObject
  BY <1>3, EnsureObjectKeeps
<1>4. CASE EnsureUnchanged \/ EnsureRefused \/ EnsureFail
  BY <1>4, SilentSteps
<1>5. CASE ApplyJob
  BY <1>5, ApplyJobKeeps
<1>6. CASE SweepJob
  BY <1>6, SweepJobKeeps
<1>7. CASE Report
  BY <1>7, ReportKeeps
<1>8. CASE Crash
  BY <1>8, CrashKeeps
<1>9. CASE JobRun
  BY <1>9, JobSteps
<1>10. CASE Others
  BY <1>10, OthersKeep
<1>11. CASE User
  BY <1>11, EditKeeps
<1>12. CASE UNCHANGED vars
  BY <1>12, SyncStutter
<1> QED BY <1>1, <1>2, <1>3, <1>4, <1>5, <1>6, <1>7, <1>8, <1>9, <1>10,
           <1>11, <1>12 DEF Next, Operate

(* Types, the order of the App's versions, what a call may rely on and     *)
(* what the objects hold (runtime.go, upsert.go,                           *)
(* containerapp_reconciler.go:27).                                         *)
THEOREM SyncInvariance == Spec => []SyncInv
<1>1. Init => SyncInv
  BY SyncInit
<1>2. SyncInv /\ [Next]_vars => SyncInv'
  BY SyncStep
<1> QED BY <1>1, <1>2, PTL DEF Spec

(* An object nobody else changed is never a mix of two specs: it holds     *)
(* what one of them asked for (upsert.go:52, ingress.go:97).               *)
THEOREM ObjectsAreWhole == Spec => [](TypeOK /\ WholeSpec)
<1>1. SyncInv => TypeOK /\ WholeSpec
  BY DEF SyncInv
<1> QED BY <1>1, SyncInvariance, PTL

-----------------------------------------------------------------------------
(***************************************************************************)
(* What a step may never do: it follows from the invariant, for the steps  *)
(* that change an object or the App at all.                                *)
(***************************************************************************)
LEMMA BackStep ==
    ASSUME SyncInv, [Next]_vars
    PROVE  \A o \in Object : made[o] <= made'[o]
<1>1. made \in [Object -> Nat] /\ WrittenByCalls /\ rec.app.generation \in Nat
  BY Parts, AppFacts DEF MadePart
<1>2. CASE EnsureObject
  <2>1. made' = [made EXCEPT ![Item] = rec.app.generation]
    BY <1>2 DEF EnsureObject
  <2> QED BY <1>1, <2>1 DEF WrittenByCalls
<1>3. CASE UNCHANGED made
  <2>1. \A o \in Object : made[o] \in Nat /\ made'[o] = made[o]
    BY <1>1, <1>3
  <2> QED BY <2>1
<1>4. [Next]_vars => EnsureObject \/ UNCHANGED made
  BY DEF Next, Deliver, DeliverApp, DeliverJob, DeliverObject, Operate,
         Reconcile, StartCall, EnsureUnchanged, EnsureRefused, ApplyJob,
         SweepJob, Report, EnsureFail, Crash, JobRun, Others, Drift, Vanish,
         Label, Meddle, User, Edit, vars, history
<1> QED BY <1>2, <1>3, <1>4

(* For all specs and bounds, however stale the cached Apps and whatever    *)
(* fails: no object is written for an older generation than it has been    *)
(* written for before (runtime.go:20, upsert.go:14).                       *)
THEOREM NeverGoesBack == Spec => NeverBack
<1>1. SyncInv /\ [Next]_vars => [\A o \in Object : made[o] <= made'[o]]_vars
  BY BackStep
<1> QED BY <1>1, SyncInvariance, PTL DEF Spec, NeverBack

-----------------------------------------------------------------------------
(* Only calls of EnsureRuntime and others change what the server has.      *)
LEMMA WhoWrites ==
    ASSUME SyncInv, [Next]_vars
    PROVE  EnsureObject \/ Others \/ \A o \in Object : Server(o)' = Server(o)
<1>1. LogPart
  BY Parts
<1>2. CASE \E o \in Object : DeliverObject(o)
  BY <1>1, <1>2, ObjectDelivered
<1>3. CASE Crash
  BY <1>1, <1>3, CachesFilled
<1>4. CASE UNCHANGED objLog
  BY <1>4, SameServers
<1>5. \/ EnsureObject \/ Others \/ Crash \/ UNCHANGED objLog
      \/ \E o \in Object : DeliverObject(o)
  BY DEF Next, Deliver, DeliverApp, DeliverJob, Operate, Reconcile,
         StartCall, EnsureUnchanged, EnsureRefused, ApplyJob, SweepJob,
         Report, EnsureFail, JobRun, User, Edit, vars
<1> QED BY <1>2, <1>3, <1>4, <1>5

(* The mark of others on one object survives a step. *)
MarkKept(o) == Server(o) # Absent /\ Server(o)' # Absent /\ Server(o).labelled
                  => Server(o)'.labelled

LEMMA MarkEnsured ==
    ASSUME SyncInv, EnsureObject
    PROVE  \A o \in InPlace : MarkKept(o)
<1>1. AppPart /\ LogPart
  BY Parts
<1>2. PICK i \in Object : i = Item
  BY <1>1, WhatIsSent
<1>3. \A v \in Version \cup {Absent} : WriteObject(i, v)
         => Server(i)' = v /\ \A p \in Object \ {i} : Server(p)' = Server(p)
  BY <1>1, ObjectSent
<1>4. rec.app.spec \in Specs
  BY <1>1, AppFacts
<1>5. ~Refused(i)
  BY <1>2 DEF EnsureObject
<1>6. CASE Missing(i) /\ WriteObject(i, Fresh(i, rec.app.spec))
  <2>1. Server(i) = Absent
    BY <1>5, <1>6 DEF Refused
  <2>2. \A p \in Object \ {i} : Server(p)' = Server(p)
    BY <1>3, <1>4, <1>6, FreshTyped
  <2> QED BY <2>1, <2>2 DEF InPlace, Object, MarkKept
<1>7. CASE Changed(i) /\ WriteObject(i, Updated(i, Cached(i), rec.app.spec))
  <2>1. Server(i) # Absent /\ Cached(i) = Server(i) /\ Cached(i) \in Version
    BY <1>1, <1>5, <1>7, ObjectEnds DEF Refused, Current, Changed
  <2>2. Updated(i, Cached(i), rec.app.spec) \in Version
    BY <1>4, <2>1, UpdatedTyped
  <2>3. /\ Server(i)' = Updated(i, Cached(i), rec.app.spec)
        /\ \A p \in Object \ {i} : Server(p)' = Server(p)
    BY <1>3, <1>7, <2>2
  <2>4. i \in InPlace => MarkKept(i)
    <3> DEFINE mark == i \in InPlace /\ Cached(i).labelled
    <3>1. mark \in BOOLEAN
      OBVIOUS
    <3>2. Updated(i, Cached(i), rec.app.spec).labelled = mark
      BY <3>1 DEF Updated
    <3>3. i \in InPlace => (Server(i).labelled => mark)
      BY <2>1
    <3>4. Server(i)'.labelled = mark
      BY <2>3, <3>2
    <3> HIDE DEF mark
    <3> QED BY <3>3, <3>4 DEF MarkKept
  <2> QED BY <2>3, <2>4 DEF InPlace, Object, MarkKept
<1>8. CASE Disabled(i) /\ WriteObject(i, Absent)
  <2>1. i \notin InPlace
    BY <1>8 DEF Disabled, DisabledRoute, InPlace
  <2>2. \A p \in Object \ {i} : Server(p)' = Server(p)
    BY <1>3, <1>8
  <2> QED BY <2>1, <2>2 DEF InPlace, Object, MarkKept
<1>9. \/ Missing(i) /\ WriteObject(i, Fresh(i, rec.app.spec))
      \/ Changed(i) /\ WriteObject(i, Updated(i, Cached(i), rec.app.spec))
      \/ Disabled(i) /\ WriteObject(i, Absent)
  BY <1>2 DEF EnsureObject
<1> QED BY <1>6, <1>7, <1>8, <1>9

LEMMA MarkMeddled ==
    ASSUME SyncInv, Others
    PROVE  \A o \in InPlace : MarkKept(o)
<1>1. LogPart
  BY Parts
<1>2. PICK o \in Object : Drift(o) \/ Vanish(o) \/ Label(o)
  BY DEF Others
<1>4. PICK v \in Version \cup {Absent} :
         /\ Meddle(o, v)
         /\ v # Absent => Server(o) # Absent
                           /\ (Server(o).labelled => v.labelled)
  BY <1>1, <1>2, WhatOthersPut
<1>5. Server(o)' = v /\ \A p \in Object \ {o} : Server(p)' = Server(p)
  BY <1>1, <1>2, <1>4, ObjectWritten DEF Meddle
<1> QED BY <1>2, <1>4, <1>5 DEF InPlace, Object, MarkKept

(* An update never loses what others have put on a Deployment or a Role,   *)
(* for every spec and every staleness of the copy (upsert.go:63,           *)
(* serviceaccount.go:277): a stale one is refused.                         *)
THEOREM MetadataKept == Spec => OthersMetadataKept
<1>1. SyncInv /\ [Next]_vars => \A o \in InPlace : MarkKept(o)
  <2> SUFFICES ASSUME SyncInv, [Next]_vars
               PROVE  \A o \in InPlace : MarkKept(o)
    OBVIOUS
  <2>1. CASE \A o \in Object : Server(o)' = Server(o)
    <3>1. \A o \in InPlace : Server(o)' = Server(o)
      BY <2>1 DEF InPlace, Object
    <3> QED BY <3>1 DEF MarkKept
  <2> QED BY <2>1, WhoWrites, MarkEnsured, MarkMeddled
<1>2. SyncInv /\ [Next]_vars
         => [\A o \in InPlace :
               Server(o) # Absent /\ Server(o)' # Absent /\ Server(o).labelled
                  => Server(o)'.labelled]_vars
  BY <1>1 DEF MarkKept
<1> QED BY <1>2, SyncInvariance, PTL DEF Spec, OthersMetadataKept

-----------------------------------------------------------------------------
(* The status is written by a call that has read the server's App, and by  *)
(* nobody else.                                                            *)
LEMMA StatusStep ==
    ASSUME SyncInv, [Next]_vars, AppServer.phase # AppServer'.phase
    PROVE  rec.app.generation = Len(asked)
<1>1. AppPart /\ appLog \in Seq(App) /\ appLog # <<>> /\ AppServer \in App
  BY Parts, AppFacts DEF AppPart
<1>2. CASE User
  <2>1. PICK s \in Specs :
           WriteApp([spec |-> s, generation |-> AppServer.generation + 1,
                     phase |-> AppServer.phase])
    BY <1>2 DEF User, Edit
  <2> DEFINE a == [spec |-> s, generation |-> AppServer.generation + 1,
                   phase |-> AppServer.phase]
  <2>2. a \in App
    <3>1. AppServer.generation + 1 \in Nat
      BY <1>1, AppFacts
    <3> QED BY <1>1, <3>1 DEF App
  <2>3. appLog' = Append(appLog, a) /\ a.phase = AppServer.phase
    BY <2>1 DEF WriteApp
  <2> HIDE DEF a
  <2>4. AppServer' = a
    BY <1>1, <2>2, <2>3, AppendLog DEF AppServer
  <2> QED BY <2>3, <2>4
<1>3. CASE DeliverApp
  <2>1. Len(appLog) > 1 /\ appLog' = Tail(appLog)
    BY <1>3 DEF DeliverApp
  <2>2. AppServer' = AppServer
    BY <1>1, <2>1, TailLog DEF AppServer
  <2> QED BY <2>2
<1>4. CASE Crash
  <2>1. appLog' = <<AppServer>>
    BY <1>4 DEF Crash
  <2>2. AppServer' = AppServer
    BY <1>1, <2>1, OneLog DEF AppServer
  <2> QED BY <2>2
<1>5. CASE UNCHANGED appLog
  BY <1>5 DEF AppServer
<1>6. CASE Report
  <2>1. CASE rec.fresh
    BY <1>1, <2>1 DEF AppPart, FreshIsCurrent, VersionsInOrder
  <2>2. CASE ~rec.fresh
    BY <1>5, <1>6, <2>2 DEF Report, Accepted
  <2> QED BY <2>1, <2>2
<1> QED BY <1>2, <1>3, <1>4, <1>5, <1>6
        DEF Next, Deliver, DeliverJob, DeliverObject, Operate, Reconcile,
            StartCall, EnsureObject, EnsureUnchanged, EnsureRefused, ApplyJob,
            SweepJob, EnsureFail, JobRun, Others, Drift, Vanish, Label,
            Meddle, vars

(* For all specs and bounds: a phase that is recorded is about the         *)
(* generation the ContainerApp has then (containerapp_reconciler.go:88),   *)
(* for a status computed from an older copy is refused.                    *)
THEOREM ReadyCurrent == Spec => ReadyIsCurrent
<1>1. SyncInv /\ [Next]_vars
         => [AppServer.phase # AppServer'.phase
                => rec.app.generation = Len(asked)]_vars
  BY StatusStep
<1> QED BY <1>1, SyncInvariance, PTL DEF Spec, ReadyIsCurrent
=============================================================================

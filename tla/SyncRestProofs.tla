---------------------------- MODULE SyncRestProofs -----------------------------
(***************************************************************************)
(* In step is lasting: the half of RuntimeFollows that needs no fairness.  *)
(* TLC shows on small instances that the objects come to what the last     *)
(* spec asks for; the theorem shows, for all specs, orders of objects and  *)
(* bounds, that no operator takes one away from it again.                  *)
(***************************************************************************)
EXTENDS RuntimeSyncProofs

(* What InStep asks of one version of an object. *)
Fits(o, s, version) ==
    IF ~Asked(o, s) THEN o \in {"ingress", "route", "hpa"} => version = Absent
    ELSE LET e == version.fields
             d == Desired(o, s)
         IN  /\ version # Absent
             /\ \A f \in Exactly(o) : e[f] = d[f]
             /\ \A f \in AtLeast(o) : d[f] \subseteq e[f]
             /\ o = "deployment" => /\ d["blanks"] \cap e["vars"] = {}
                                    /\ d["account"] \in {{}, e["account"]}

LEMMA InStepFits ==
    \A o \in Object :
        /\ InStep(o, AppServer.spec) <=> Fits(o, AppServer.spec, Server(o))
        /\ InStep(o, AppServer.spec)' <=> Fits(o, AppServer'.spec, Server(o)')
BY DEF InStep, Fits

(* What is sent of an object that fits the spec fits it, too. *)
LEMMA SentFits ==
    ASSUME NEW o \in Object, NEW s, NEW v, NEW w, Fits(o, s, v),
           IF Asked(o, s) THEN w # Absent /\ w.fields = Desired(o, s)
                          ELSE w = Absent
    PROVE  Fits(o, s, w)
<1>1. CASE ~Asked(o, s)
  BY <1>1 DEF Fits
<1>2. CASE Asked(o, s)
  <2> DEFINE d == Desired(o, s)
  <2>1. o = "deployment" => /\ d["vars"] \subseteq v.fields["vars"]
                            /\ d["blanks"] \cap v.fields["vars"] = {}
    BY <1>2 DEF Fits, AtLeast
  <2>2. o = "deployment" => d["blanks"] \cap d["vars"] = {}
    BY <2>1
  <2>3. w # Absent /\ w.fields = d
    BY <1>2
  <2> HIDE DEF d
  <2> QED BY <1>2, <2>2, <2>3 DEF Fits, d
<1> QED BY <1>1, <1>2

-----------------------------------------------------------------------------
(* The newest generation has one spec, whoever holds it. *)
LEMMA NewestSpec ==
    ASSUME SyncInv, SyncInv', asked' = asked
    PROVE  /\ AppServer.spec = asked[Len(asked)]
           /\ AppServer'.spec = asked[Len(asked)]
           /\ rec.app.generation = Len(asked)
                 => rec.app.spec = asked[Len(asked)]
<1>1. AppPart /\ AppPart'
  BY Parts DEF SyncInv, TypeOK, AppPart
<1>2. /\ IsVersion(AppServer) /\ AppServer.generation = Len(asked)
      /\ IsVersion(rec.app)
  BY <1>1, AppFacts DEF AppPart, VersionsInOrder
<1>3. IsVersion(AppServer)' /\ AppServer'.generation = Len(asked)
  <2>1. /\ appLog' \in Seq(App) /\ appLog' # <<>>
        /\ \A i \in DOMAIN appLog' : IsVersion(appLog[i])'
        /\ AppServer'.generation = Len(asked')
    BY <1>1 DEF AppPart, VersionsInOrder
  <2>2. Len(appLog') \in DOMAIN appLog'
    BY <2>1, LogEnds
  <2> QED BY <2>1, <2>2 DEF AppServer
<1> QED BY <1>2, <1>3 DEF IsVersion

(* The cache of the App never goes back to an older generation. *)
LEMMA CacheAdvances ==
    ASSUME SyncInv, [Next]_vars
    PROVE  Head(appLog).generation <= Head(appLog').generation
<1>1. /\ AppPart /\ appLog \in Seq(App) /\ appLog # <<>>
      /\ \A i, j \in DOMAIN appLog :
            i <= j => appLog[i].generation <= appLog[j].generation
      /\ Head(appLog).generation \in Nat /\ Head(appLog) = appLog[1]
      /\ Len(appLog) \in Nat \ {0} /\ DOMAIN appLog = 1 .. Len(appLog)
      /\ AppServer \in App /\ AppServer = appLog[Len(appLog)]
  BY Parts, AppFacts DEF AppPart, VersionsInOrder
<1>2. CASE UNCHANGED appLog
  BY <1>1, <1>2
<1>3. CASE DeliverApp
  <2>1. Len(appLog) > 1 /\ appLog' = Tail(appLog)
    BY <1>3 DEF DeliverApp
  <2>2. Head(appLog') = appLog[2]
    BY <1>1, <2>1, TailLog
  <2> QED BY <1>1, <2>1, <2>2
<1>4. CASE Crash
  <2>1. Head(appLog') = AppServer
    BY <1>1, <1>4, OneLog DEF Crash
  <2> QED BY <1>1, <2>1
<1>5. CASE \E a \in App : WriteApp(a)
  <2>1. Head(appLog') = Head(appLog)
    BY <1>1, <1>5, AppendLog DEF WriteApp
  <2> QED BY <1>1, <2>1
<1>6. CASE User
  <2>1. PICK s \in Specs :
           WriteApp([spec |-> s, generation |-> AppServer.generation + 1,
                     phase |-> AppServer.phase])
    BY <1>6 DEF User, Edit
  <2>2. [spec |-> s, generation |-> AppServer.generation + 1,
         phase |-> AppServer.phase] \in App
    BY <1>1 DEF App
  <2> QED BY <1>5, <2>1, <2>2
<1>7. CASE Report
  <2>1. rec.outcome \in Phase
    BY <1>1 DEF AppPart, Call
  <2>2. [AppServer EXCEPT !.phase = rec.outcome] \in App
    BY <1>1, <2>1 DEF App
  <2> QED BY <1>2, <1>5, <1>7, <2>2 DEF Report
<1> QED BY <1>2, <1>3, <1>4, <1>6, <1>7
        DEF Next, Deliver, DeliverJob, DeliverObject, Operate, Reconcile,
            StartCall, EnsureObject, EnsureUnchanged, EnsureRefused, ApplyJob,
            SweepJob, EnsureFail, JobRun, Others, Drift, Vanish, Label,
            Meddle, vars

(* A call in EnsureRuntime keeps the copy of the App it started with. *)
LEMMA CallKeepsApp ==
    ASSUME SyncInv, [Next]_vars, rec'.at = "ensure"
    PROVE  \/ rec.at = "ensure" /\ rec'.app = rec.app
           \/ rec'.app = Head(appLog)
<1>1. AppPart /\ rec \in Call
  BY Parts DEF AppPart
<1>2. CASE Reconcile
  <2>1. rec' = [Idle EXCEPT !.at = "ensure", !.app = Head(appLog),
                            !.fresh = Len(appLog) = 1, !.todo = order]
    BY <1>2 DEF Reconcile, StartCall, Go
  <2> QED BY <2>1 DEF Idle
<1>3. CASE rec.at = "ensure" /\ (rec' = NextItem \/ rec' = Abort)
  BY <1>1, <1>3, CallMoves DEF Follows
<1>4. CASE EnsureObject \/ EnsureUnchanged \/ EnsureRefused \/ EnsureFail
           \/ ApplyJob
  BY <1>3, <1>4 DEF EnsureObject, EnsureUnchanged, EnsureRefused, EnsureFail,
                    ApplyJob, Go
<1>5. CASE SweepJob \/ Report \/ Crash
  BY <1>1, <1>5 DEF SweepJob, Report, Crash, Go, Call
<1>6. CASE User
  <2>1. rec' = [rec EXCEPT !.fresh = FALSE]
    BY <1>6 DEF User, Edit
  <2> QED BY <1>1, <2>1 DEF Call
<1>7. CASE UNCHANGED rec
  BY <1>7
<1> QED BY <1>2, <1>4, <1>5, <1>6, <1>7
        DEF Next, Operate, Deliver, DeliverApp, DeliverJob, DeliverObject,
            JobRun, Others, Drift, Vanish, Label, Meddle, vars

LEMMA StayInformed ==
    ASSUME SyncInv, SyncInv', [Next]_vars, Informed, asked' = asked
    PROVE  Informed'
<1>1. AppPart /\ AppPart'
  BY Parts DEF SyncInv, TypeOK, AppPart
<1>2. /\ Len(asked) \in Nat /\ DOMAIN asked = 1 .. Len(asked)
      /\ appLog' \in Seq(App) /\ appLog' # <<>>
      /\ \A i \in DOMAIN appLog' : IsVersion(appLog[i])'
  BY <1>1, AppFacts DEF AppPart, VersionsInOrder
<1>3. Head(appLog') = appLog'[1] /\ 1 \in DOMAIN appLog'
  BY <1>2, LogEnds
<1>4. Head(appLog').generation \in 1 .. Len(asked)
  BY <1>2, <1>3 DEF IsVersion
<1>5. Head(appLog').generation = Len(asked)
  BY <1>2, <1>4, CacheAdvances DEF Informed
<1>6. rec'.at = "ensure" => rec'.app.generation = Len(asked)
  BY CallKeepsApp DEF Informed
<1> QED BY <1>5, <1>6 DEF Informed

-----------------------------------------------------------------------------
(* The call with the newest spec writes what is in step. *)
LEMMA EnsuredInStep ==
    ASSUME SyncInv, EnsureObject, NEW s, rec.app.spec = s,
           NEW o \in Object, Fits(o, s, Server(o))
    PROVE  Fits(o, s, Server(o)')
<1>1. AppPart /\ LogPart
  BY Parts
<1>2. PICK i \in Object : i = Item
  BY <1>1, WhatIsSent
<1>3. s \in Specs
  BY <1>1, AppFacts
<1>4. ASSUME NEW v \in Version \cup {Absent}, WriteObject(i, v),
             IF Asked(i, s) THEN v # Absent /\ v.fields = Desired(i, s)
                            ELSE v = Absent
      PROVE  Fits(o, s, Server(o)')
  <2>1. Server(i)' = v /\ \A p \in Object \ {i} : Server(p)' = Server(p)
    BY <1>1, <1>4, ObjectSent
  <2>2. CASE o = i
    BY <1>4, <2>1, <2>2, SentFits
  <2>3. CASE o # i
    BY <2>1, <2>3
  <2> QED BY <2>2, <2>3
<1>5. CASE Missing(i) /\ WriteObject(i, Fresh(i, s))
  BY <1>3, <1>4, <1>5, FreshTyped DEF Missing, Wanted
<1>6. CASE Changed(i) /\ WriteObject(i, Updated(i, Cached(i), s))
  <2>1. Cached(i) \in Version /\ Asked(i, s)
    BY <1>1, <1>6, ObjectEnds DEF Changed, Wanted
  <2> QED BY <1>3, <1>4, <1>6, <2>1, UpdatedTyped
<1>7. CASE Disabled(i) /\ WriteObject(i, Absent)
  BY <1>4, <1>7 DEF Disabled, DisabledRoute, Wanted
<1> QED BY <1>2, <1>5, <1>6, <1>7 DEF EnsureObject

LEMMA StepStaysInStep ==
    ASSUME SyncInv, [Next]_vars, Informed, asked' = asked, meddling' = meddling
    PROVE  /\ Informed'
           /\ \A o \in Object : InStep(o, AppServer.spec)
                                   => InStep(o, AppServer.spec)'
<1>1. SyncInv'
  BY SyncStep
<1>2. PICK s : s = asked[Len(asked)]
  OBVIOUS
<1>3. AppServer.spec = s /\ AppServer'.spec = s
  BY <1>1, <1>2, NewestSpec
<1>4. ~Others
  <2>1. meddling \in Nat
    BY DEF SyncInv, TypeOK
  <2>2. ASSUME NEW o \in Object, NEW v, Meddle(o, v) PROVE FALSE
    BY <2>1, <2>2 DEF Meddle
  <2> QED BY <2>2 DEF Others, Drift, Vanish, Label
<1>5. EnsureObject => rec.app.spec = s
  BY <1>1, <1>2, NewestSpec DEF Informed, EnsureObject
<1>6. \A o \in Object : Fits(o, s, Server(o)) => Fits(o, s, Server(o)')
  BY <1>4, <1>5, WhoWrites, EnsuredInStep
<1> QED BY <1>1, <1>3, <1>6, StayInformed, InStepFits

(* For all specs, orders and bounds: an object that is in step with the    *)
(* spec the operator knows stays so until the spec is edited or somebody   *)
(* else changes it (upsert.go:52, ingress.go:97 and their siblings).       *)
THEOREM InStepLasts == Spec => StaysInStep
<1>1. SyncInv /\ [Next]_vars
         => [Informed /\ UNCHANGED <<asked, meddling>>
                => /\ Informed'
                   /\ \A o \in Object : InStep(o, AppServer.spec)
                                         => InStep(o, AppServer.spec)']_vars
  BY StepStaysInStep
<1> QED BY <1>1, SyncInvariance, PTL DEF Spec, StaysInStep
=============================================================================

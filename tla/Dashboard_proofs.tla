--------------------------- MODULE Dashboard_proofs ---------------------------
(* Proofs about Dashboard, for any threads, models, handles and bounds.    *)
EXTENDS Dashboard, FiniteSetTheorems, TLAPS

Critical == {"locked", "create", "creating", "generating"}

\* The mutex: a thread is inside an operation exactly when it owns the mutex.
MutexInv == \A t \in Threads : pc[t] \in Critical <=> lock = t

\* What the owner of the mutex may rely on at each of its steps.
OwnerInv ==
    \A t \in Threads :
        /\ pc[t] = "create" => runtime = Nothing /\ objects = {} /\ target[t] \in Models
        /\ pc[t] = "creating" => /\ runtime = Nothing
                                 /\ mine[t] \in Handles /\ objects = {mine[t]}
                                 /\ target[t] \in Models /\ holds[mine[t]] = target[t]
        /\ pc[t] = "generating" => runtime \in resident

\* The runtime objects, the model in memory and what is said about them.
RuntimeInv ==
    /\ (\A t \in Threads : pc[t] # "creating") => objects = {runtime} \ {Nothing}
    /\ runtime # Nothing => objects = {runtime} /\ state = holds[runtime] /\ state \in Models
    /\ resident = IF ReportsLoaded THEN {runtime} ELSE {}

IInv == TypeOK /\ MutexInv /\ OwnerInv /\ RuntimeInv
-----------------------------------------------------------------------------
(* Every variable stays in its set; a create assigns the handle it made.   *)
LEMMA TypeStep ==
  ASSUME TypeOK, OwnerInv, [Next]_vars
  PROVE  TypeOK'
<1> USE DashboardAssumption DEF DashboardAssumption, TypeOK, Kinds, Statuses
<1>1. ASSUME NEW t \in Threads, Arrive(t) PROVE TypeOK'
  <2>1. target' \in [Threads -> Models \cup {Nothing}]
    BY <1>1 DEF Arrive
  <2>2. requests' \in 0..MaxRequests
    BY <1>1 DEF Arrive
  <2> QED BY <1>1, <2>1, <2>2 DEF Arrive, Goto, shared
<1>2. ASSUME NEW t \in Threads, Acquire(t) PROVE TypeOK'
  BY <1>2 DEF Acquire, Goto, shared
<1>3. ASSUME NEW t \in Threads, Unload(t) PROVE TypeOK'
  BY <1>3 DEF Unload, UnloadCurrent, Answer, Goto
<1>4. ASSUME NEW t \in Threads, NEW m \in Models \cup {Nothing}, LoadFromRequest(t, m)
      PROVE  TypeOK'
  <2>1. CASE m = Nothing
    BY <1>4, <2>1 DEF LoadFromRequest, Answer, Goto, shared
  <2>2. CASE m # Nothing
    BY <1>4, <2>2 DEF LoadFromRequest, UnloadCurrent, Goto
  <2> QED BY <2>1, <2>2
<1>5. ASSUME NEW t \in Threads, CreateBegins(t) PROVE TypeOK'
  <2>1. PICK h \in Handles \ objects :
           /\ objects' = objects \cup {h} /\ holds' = [holds EXCEPT ![h] = target[t]]
           /\ mine' = [mine EXCEPT ![t] = h]
    BY <1>5 DEF CreateBegins
  <2> QED BY <1>5, <2>1 DEF CreateBegins, Goto
<1>6. ASSUME NEW t \in Threads, CreateEnds(t) PROVE TypeOK'
  <2>1. PICK status \in Statuses : last_status' = status
    BY <1>6 DEF CreateEnds, Assign
  <2>2. /\ runtime' \in {runtime, mine[t]} /\ state' \in {state, target[t]}
        /\ objects' \in {objects, objects \ {mine[t]}}
        /\ UNCHANGED <<holds, requests, kind>>
    BY <1>6 DEF CreateEnds, Assign, Answer
  <2>3. objects' \subseteq Handles
    BY <2>2
  <2>4. mine[t] \in Handles
    BY <1>6 DEF CreateEnds, OwnerInv
  <2>5. resident' \in {resident, resident \cup {mine[t]}}
    BY <1>6 DEF CreateEnds
  <2>6. resident' \subseteq Handles
    BY <2>4, <2>5
  <2> QED BY <1>6, <2>1, <2>2, <2>3, <2>6 DEF CreateEnds, Answer, Goto
<1>7. ASSUME NEW t \in Threads, Diagnose(t) \/ GenerateEnds(t) PROVE TypeOK'
  BY <1>7 DEF Diagnose, GenerateEnds, Answer, Goto, shared
<1>8. ASSUME NEW t \in Threads, Generate(t) PROVE TypeOK'
  BY <1>8 DEF Generate, Streaming, Answer, Goto, shared
<1>9. ASSUME NEW t \in Threads, StreamToken(t) PROVE TypeOK'
  BY <1>9 DEF StreamToken, shared
<1>10. ASSUME NEW t \in Threads, Health(t) PROVE TypeOK'
  BY <1>10 DEF Health, Goto, shared
<1>11. CASE UNCHANGED vars
  BY <1>11 DEF vars, thread, shared
<1> QED BY <1>1, <1>2, <1>3, <1>4, <1>5, <1>6, <1>7, <1>8, <1>9, <1>10, <1>11
        DEF Next, Handle, Load, Reload
-----------------------------------------------------------------------------
LEMMA InductiveInit == Init => IInv
<1>1. Init => TypeOK
  BY DashboardAssumption DEF DashboardAssumption, Init, TypeOK, Kinds, Statuses
<1> QED BY <1>1, DashboardAssumption
        DEF DashboardAssumption, Init, IInv, MutexInv, OwnerInv, RuntimeInv, ReportsLoaded, Critical

(* One step, given the types on both of its sides.                         *)
LEMMA InductiveStep ==
  ASSUME IInv, TypeOK', [Next]_vars
  PROVE  MutexInv' /\ OwnerInv' /\ RuntimeInv'
<1> USE DashboardAssumption DEF DashboardAssumption, IInv, MutexInv, OwnerInv, RuntimeInv,
                                ReportsLoaded, Critical, Goto, Handling
<1> DEFINE Goal == MutexInv' /\ OwnerInv' /\ RuntimeInv'
<1>1. ASSUME NEW t \in Threads, Arrive(t) PROVE Goal
  BY <1>1 DEF Arrive, shared, TypeOK
<1>2. ASSUME NEW t \in Threads, Acquire(t) PROVE Goal
  BY <1>2 DEF Acquire, shared, TypeOK
<1>3. ASSUME NEW t \in Threads, Unload(t) PROVE Goal
  BY <1>3 DEF Unload, UnloadCurrent, Answer, TypeOK
<1>4. ASSUME NEW t \in Threads, NEW m \in Models \cup {Nothing}, pc[t] = "locked",
             LoadFromRequest(t, m)
      PROVE  Goal
  <2>1. CASE m = Nothing
    BY <1>4, <2>1 DEF LoadFromRequest, Answer, shared, TypeOK
  <2>2. CASE m # Nothing
    BY <1>4, <2>2 DEF LoadFromRequest, UnloadCurrent, TypeOK
  <2> QED BY <2>1, <2>2
<1>5. ASSUME NEW t \in Threads, CreateBegins(t) PROVE Goal
  BY <1>5 DEF CreateBegins, TypeOK
<1>6. ASSUME NEW t \in Threads, CreateEnds(t) PROVE Goal
  BY <1>6 DEF CreateEnds, Assign, Answer, Statuses, TypeOK
<1>7. ASSUME NEW t \in Threads, Diagnose(t) \/ GenerateEnds(t) PROVE Goal
  BY <1>7 DEF Diagnose, GenerateEnds, Answer, shared, TypeOK
<1>8. ASSUME NEW t \in Threads, Generate(t) PROVE Goal
  BY <1>8 DEF Generate, Streaming, Answer, shared, TypeOK
<1>9. ASSUME NEW t \in Threads, StreamToken(t) PROVE Goal
  BY <1>9 DEF StreamToken, shared
<1>10. ASSUME NEW t \in Threads, Health(t) PROVE Goal
  BY <1>10 DEF Health, shared, TypeOK
<1>11. CASE UNCHANGED vars
  BY <1>11 DEF vars, thread, shared
<1>12. ASSUME NEW t \in Threads, Load(t) \/ Reload(t) PROVE Goal
  <2>1. target[t] \in Models \cup {Nothing} /\ state \in Models \cup {Nothing}
    BY DEF TypeOK
  <2> QED BY <1>12, <1>4, <2>1 DEF Load, Reload
<1> QED BY <1>1, <1>2, <1>3, <1>5, <1>6, <1>7, <1>8, <1>9, <1>10, <1>11, <1>12
        DEF Next, Handle

LEMMA Inductive == Spec => []IInv
<1>1. IInv /\ [Next]_vars => IInv'
  BY TypeStep, InductiveStep DEF IInv
<1> QED BY InductiveInit, <1>1, PTL DEF Spec
-----------------------------------------------------------------------------
(* Every variable stays in its set.                                        *)
THEOREM TypeCorrect == Spec => []TypeOK
<1>1. IInv => TypeOK
  BY DEF IInv
<1> QED BY <1>1, Inductive, PTL

(* There are never two runtimes, and none is left behind.                  *)
THEOREM NeverTwoRuntimes == Spec => []OneRuntime
<1>1. ASSUME IInv PROVE OneRuntime
  <2>1. objects = ({runtime} \cup Creating) \ {Nothing}
    <3>1. CASE \A t \in Threads : pc[t] # "creating"
      <4>1. Creating = {}
        BY <3>1 DEF Creating
      <4> QED BY <1>1, <3>1, <4>1 DEF IInv, RuntimeInv
    <3>2. CASE \E t \in Threads : pc[t] = "creating"
      <4>1. PICK t \in Threads : pc[t] = "creating"
        BY <3>2
      <4>2. \A u \in Threads : pc[u] = "creating" => u = t
        BY <1>1, <4>1 DEF IInv, MutexInv, Critical
      <4>3. Creating = {mine[t]}
        BY <4>1, <4>2 DEF Creating
      <4> QED BY <1>1, <4>1, <4>3, DashboardAssumption
              DEF IInv, OwnerInv, DashboardAssumption
    <3> QED BY <3>1, <3>2
  <2>2. \E x : objects \subseteq {x}
    <3>1. CASE \A t \in Threads : pc[t] # "creating"
      BY <1>1, <3>1 DEF IInv, RuntimeInv
    <3>2. CASE \E t \in Threads : pc[t] = "creating"
      BY <1>1, <3>2 DEF IInv, OwnerInv
    <3> QED BY <3>1, <3>2
  <2>3. PICK x : objects \subseteq {x}
    BY <2>2
  <2>4. Cardinality(objects) <= 1
    <3>1. IsFiniteSet({x}) /\ Cardinality({x}) = 1
      BY FS_Singleton
    <3>2. Cardinality(objects) <= Cardinality({x})
      BY <2>3, <3>1, FS_Subset
    <3> QED BY <3>1, <3>2
  <2>5. resident \subseteq objects
    BY <1>1 DEF IInv, RuntimeInv, ReportsLoaded
  <2> QED BY <2>1, <2>4, <2>5 DEF OneRuntime
<1> QED BY <1>1, Inductive, PTL

(* What /api/runtime says about a loaded model is true.                    *)
THEOREM LoadedIsTold == Spec => []LoadedIsTrue
<1>1. IInv => LoadedIsTrue
  BY DEF IInv, RuntimeInv, LoadedIsTrue
<1> QED BY <1>1, Inductive, PTL

(* A reload uses the configuration of the runtime there is.                *)
THEOREM ReloadRepeats == Spec => []ReloadIsOfTheSame
<1>1. IInv => ReloadIsOfTheSame
  BY DEF IInv, RuntimeInv, ReloadIsOfTheSame
<1> QED BY <1>1, Inductive, PTL
-----------------------------------------------------------------------------
(* The refinement mapping, as state functions of its own.                  *)
LoadedOf(live, models) == IF live = {} THEN Nothing ELSE models[CHOOSE h \in live : TRUE]
LoadedNow == LoadedOf(resident, holds)
ServingNow == {t \in Threads : pc[t] = "generating"}

LEMMA LoadedOfOne ==
  /\ \A models : LoadedOf({}, models) = Nothing
  /\ \A h, models : LoadedOf({h}, models) = models[h]
BY DEF LoadedOf

\* What is loaded can be read off the shared variables.
Told == IF ReportsLoaded THEN state ELSE Nothing

LEMMA LoadedIsTold1 == IInv => LoadedNow = Told
BY LoadedOfOne DEF IInv, RuntimeInv, ReportsLoaded, LoadedNow, Told

LEMMA LoadedIsTold2 == IInv' => LoadedNow' = Told'
BY LoadedOfOne DEF IInv, RuntimeInv, ReportsLoaded, LoadedNow, Told

\* One thread inside an operation keeps all others from generating.
LEMMA NobodyElseServes ==
  ASSUME IInv, NEW t \in Threads, pc[t] \in Critical
  PROVE  ServingNow = IF pc[t] = "generating" THEN {t} ELSE {}
BY DEF IInv, MutexInv, Critical, ServingNow

\* A thread that stays outside the streaming part serves nobody before and after.
LEMMA ServingStable ==
  ASSUME TypeOK, NEW t \in Threads, NEW label, pc' = [pc EXCEPT ![t] = label],
         pc[t] # "generating", label # "generating"
  PROVE  ServingNow' = ServingNow
BY DEF TypeOK, ServingNow

LEMMA SerialInit == Init => Serial!Init
BY DEF Init, Serial!Init

LEMMA SerialStep ==
  ASSUME IInv, IInv', [Next]_vars
  PROVE  [Serial!Next]_(Serial!vars)
<1> USE DEF Handling, Goto
<1>0. /\ LoadedNow = Told /\ LoadedNow' = Told'
      /\ TypeOK /\ TypeOK' /\ Nothing \notin Models
  BY LoadedIsTold1, LoadedIsTold2, DashboardAssumption DEF IInv, DashboardAssumption
<1>s. ASSUME LoadedNow' = LoadedNow, ServingNow' = ServingNow
      PROVE  [Serial!Next]_(Serial!vars)
  BY <1>s DEF LoadedNow, LoadedOf, ServingNow, Serial!vars
<1>q. ASSUME NEW t \in Threads, NEW label, pc' = [pc EXCEPT ![t] = label],
             pc[t] # "generating", label # "generating",
             UNCHANGED <<runtime, last_status, state>>
      PROVE  [Serial!Next]_(Serial!vars)
  <2>1. ServingNow' = ServingNow
    BY <1>q, <1>0, ServingStable
  <2>2. Told' = Told
    BY <1>q DEF Told, ReportsLoaded
  <2> QED BY <2>1, <2>2, <1>0, <1>s
<1>r. ASSUME NEW t \in Threads, NEW label, pc[t] = "locked", pc' = [pc EXCEPT ![t] = label],
             label # "generating", runtime' = Nothing
      PROVE  [Serial!Next]_(Serial!vars)
  <2>1. ServingNow = {} /\ ServingNow' = {}
    BY <1>r, <1>0, ServingStable, NobodyElseServes DEF Critical
  <2>2. LoadedNow' = Nothing
    BY <1>r, <1>0 DEF Told, ReportsLoaded
  <2>3. Serial!Release
    BY <2>1, <2>2 DEF Serial!Release, LoadedNow, LoadedOf, ServingNow
  <2> QED BY <2>3 DEF Serial!Next
<1>1. ASSUME NEW t \in Threads, Arrive(t) PROVE [Serial!Next]_(Serial!vars)
  BY <1>1, <1>q DEF Arrive, shared
<1>2. ASSUME NEW t \in Threads, Acquire(t) \/ Diagnose(t) \/ Health(t)
      PROVE  [Serial!Next]_(Serial!vars)
  BY <1>2, <1>q DEF Acquire, Diagnose, Health, Answer, shared
<1>3. ASSUME NEW t \in Threads, Unload(t) PROVE [Serial!Next]_(Serial!vars)
  BY <1>3, <1>r DEF Unload, UnloadCurrent, Answer
<1>4. ASSUME NEW t \in Threads, Load(t) \/ Reload(t) PROVE [Serial!Next]_(Serial!vars)
  <2>1. PICK m : pc[t] = "locked" /\ LoadFromRequest(t, m)
    BY <1>4 DEF Load, Reload
  <2>2. CASE m = Nothing
    BY <2>1, <2>2, <1>q DEF LoadFromRequest, Answer, shared
  <2>3. CASE m # Nothing
    BY <2>1, <2>3, <1>r DEF LoadFromRequest, UnloadCurrent
  <2> QED BY <2>2, <2>3
<1>5. ASSUME NEW t \in Threads, CreateBegins(t) PROVE [Serial!Next]_(Serial!vars)
  BY <1>5, <1>q DEF CreateBegins
<1>6. ASSUME NEW t \in Threads, CreateEnds(t) PROVE [Serial!Next]_(Serial!vars)
  <2>1. /\ pc[t] = "creating" /\ pc' = [pc EXCEPT ![t] = "idle"]
        /\ runtime = Nothing /\ target[t] \in Models
    BY <1>6 DEF CreateEnds, Answer, IInv, OwnerInv
  <2>2. ServingNow = {} /\ ServingNow' = {}
    BY <2>1, <1>0, ServingStable, NobodyElseServes DEF Critical
  <2>3. LoadedNow = Nothing
    BY <2>1, <1>0 DEF Told, ReportsLoaded
  <2>4. LoadedNow' \in Models \cup {Nothing}
    <3>1. CASE last_status' = "failed"
      BY <3>1, <1>0 DEF Told, ReportsLoaded
    <3>2. CASE last_status' # "failed"
      BY <1>6, <3>2, <2>1, <1>0 DEF CreateEnds, Assign, Told, ReportsLoaded
    <3> QED BY <3>1, <3>2
  <2>5. CASE LoadedNow' = Nothing
    BY <2>5, <2>2, <2>3, <1>s
  <2>6. CASE LoadedNow' \in Models
    <3>1. Serial!Install
      BY <2>6, <2>2, <2>3 DEF Serial!Install, LoadedNow, LoadedOf, ServingNow
    <3> QED BY <3>1 DEF Serial!Next
  <2> QED BY <2>4, <2>5, <2>6
<1>7. ASSUME NEW t \in Threads, Generate(t) PROVE [Serial!Next]_(Serial!vars)
  <2>1. CASE runtime \notin resident
    BY <1>7, <2>1, <1>q DEF Generate, Answer, shared
  <2>2. CASE runtime \in resident
    <3>1. /\ pc[t] = "locked" /\ pc' = [pc EXCEPT ![t] = "generating"]
          /\ UNCHANGED <<runtime, last_status, state, resident, holds>>
      BY <1>7, <2>2 DEF Generate, Streaming, shared
    <3>2. ServingNow = {}
      BY <3>1, NobodyElseServes DEF Critical
    <3>3. ServingNow' = {t}
      BY <3>1, <3>2, <1>0 DEF ServingNow, TypeOK
    <3>4. LoadedNow # Nothing /\ LoadedNow' = LoadedNow
      BY <3>1, <2>2, <1>0 DEF Told, ReportsLoaded, IInv, RuntimeInv
    <3>5. Serial!Start(t)
      BY <3>2, <3>3, <3>4 DEF Serial!Start, LoadedNow, LoadedOf, ServingNow
    <3> QED BY <3>5 DEF Serial!Next
  <2> QED BY <2>1, <2>2
<1>8. ASSUME NEW t \in Threads, StreamToken(t) PROVE [Serial!Next]_(Serial!vars)
  <2>1. UNCHANGED <<pc, resident, holds>>
    BY <1>8 DEF StreamToken, shared
  <2> QED BY <2>1, <1>s DEF LoadedNow, LoadedOf, ServingNow
<1>9. ASSUME NEW t \in Threads, GenerateEnds(t) PROVE [Serial!Next]_(Serial!vars)
  <2>1. /\ pc[t] = "generating" /\ pc' = [pc EXCEPT ![t] = "idle"]
        /\ UNCHANGED <<resident, holds>>
    BY <1>9 DEF GenerateEnds, Answer, shared
  <2>2. ServingNow = {t}
    BY <2>1, NobodyElseServes DEF Critical
  <2>3. ServingNow' = {}
    BY <2>1, <2>2, <1>0 DEF ServingNow, TypeOK
  <2>4. Serial!Finish(t)
    BY <2>1, <2>2, <2>3 DEF Serial!Finish, ServingNow
  <2> QED BY <2>4 DEF Serial!Next
<1>10. CASE UNCHANGED vars
  BY <1>10, <1>s DEF vars, thread, shared, LoadedNow, LoadedOf, ServingNow
<1> QED BY <1>1, <1>2, <1>3, <1>4, <1>5, <1>6, <1>7, <1>8, <1>9, <1>10 DEF Next, Handle

(* The dashboard implements one runtime used by one thread at a time.      *)
THEOREM DashboardIsSerial == Spec => SerialSpec
<1>1. IInv /\ IInv' /\ [Next]_vars => [Serial!Next]_(Serial!vars)
  BY SerialStep
<1> QED BY SerialInit, Inductive, <1>1, PTL DEF Spec, SerialSpec, Serial!Spec
=============================================================================

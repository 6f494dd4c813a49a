----------------------------- MODULE Startup_proofs -----------------------------
(***************************************************************************)
(* Proofs about the boot: types, the two facts about the order of its      *)
(* steps that nothing in the code checks while it runs, that what the      *)
(* status channel announces at the end is true, and that no stack is given *)
(* to two threads.                                                         *)
(***************************************************************************)
EXTENDS Startup, FunctionTheorems, FiniteSetTheorems, TLAPS

(***************************************************************************)
(* What the registration has done when the loop stands at k: it has        *)
(* covered the registry below k, one entry each, the indicator first.      *)
(***************************************************************************)
Covers(limit) == \A n \in 1..limit :
  Registry[n] \in enabled => \E j \in 1..Len(modules) : modules[j] = Registry[n]

Registering ==
  /\ (pc \in {"infra", "register"} => ~registered)
  /\ (pc = "infra" => modules = <<>>)
  /\ (pc = "register" => Len(modules) < k /\ Covers(k - 1))
  /\ (pc \in {"initialize", "start", "running"} => Covers(Len(Registry)))
  /\ Len(modules) <= Len(Registry)
  /\ \A j \in 1..Len(modules) : modules[j] = Indicator => j = 1

\* Modules are initialised up to k, then all of them before any is started.
Initialising ==
  /\ (pc = "initialize" =>
        \A j \in 1..Len(modules) : j < k => modules[j] \in initialised)
  /\ (pc \in {"start", "running"} =>
        \A j \in 1..Len(modules) : modules[j] \in initialised)

\* Threads come into being in the start loop, one for every set started_.
Starting ==
  /\ (pc \in {"infra", "register", "initialize", "failed"} =>
        \A m \in AllModules : threads[m] = 0)
  /\ (pc = "start" /\ k = 1 => \A m \in AllModules : threads[m] = 0)
  /\ (pc = "start" => \A m \in AllModules : threads[m] > 0 => started[m])
  /\ \A m \in ran : threads[m] > 0

IInv == TypeOK /\ Registering /\ Initialising /\ Starting

\* Seven modules, four services.
LEMMA Sizes == Len(Registry) = 7 /\ Len(Services) = 4
  BY DEF Registry, Services

\* The registry lists every module, and the indicator heads it.
LEMMA Entries ==
  /\ \A n \in 1..7 : Registry[n] \in AllModules
  /\ \A m \in AllModules : \E n \in 1..7 : m = Registry[n]
  /\ \A n \in 1..7 : Registry[n] = Indicator => n = 1
<1>1. DOMAIN Registry = 1..7
  BY DEF Registry
<1>2. \A n \in 1..7 : Registry[n] = Indicator => n = 1
  BY DEF Registry, Indicator
<1> QED
  BY <1>1, <1>2 DEF AllModules

\* Before the boot nothing is registered, initialised or started.
LEMMA InitIInv == Init => IInv
<1> SUFFICES ASSUME Init PROVE IInv
  OBVIOUS
<1>1. modules = <<>> /\ Len(modules) = 0 /\ pc = "infra" /\ k = 1
  BY DEF Init
<1>2. \A m \in AllModules : threads[m] = 0
  BY DEF Init
<1>3. started \in [AllModules -> BOOLEAN]
  BY Zenon DEF Init
<1>4. threads \in [AllModules -> 0..Passes]
  BY StartupAssumption DEF Init
<1>5. status \in [phase : Phases, active : 0..Len(Registry)]
  BY Sizes DEF Init, NoStatus, Phases
<1>6. TypeOK
  <2>1. modules \in Seq(enabled) /\ pc \in PC /\ k \in 1..(Len(Registry) + 1)
    BY Sizes, <1>1 DEF PC
  <2>2. passes = 1 /\ ready = FALSE /\ registered = FALSE
    BY DEF Init
  <2>3. /\ enabled \in SUBSET AllModules /\ services \in SUBSET ServiceNames
        /\ initialised = {} /\ ran = {}
    BY DEF Init
  <2>4. passes \in 1..Passes
    BY <2>2, StartupAssumption
  <2>5. initialised \in SUBSET AllModules /\ ran \in SUBSET AllModules
    BY <2>3
  <2> QED
    BY <1>3, <1>4, <1>5, <2>1, <2>2, <2>3, <2>4, <2>5, Zenon DEF TypeOK
<1>7. Registering /\ Initialising /\ Starting
  BY Sizes, <1>1, <1>2 DEF Init, Registering, Initialising, Starting
<1> QED
  BY <1>6, <1>7 DEF IInv

\* Publishing keeps the status a status.
LEMMA PublishType ==
  ASSUME TypeOK, Registering, NEW phase \in Phases, Publish(phase)
  PROVE  status' \in [phase : Phases, active : 0..Len(Registry)]
  BY Sizes DEF TypeOK, Registering, Publish

\* Registration: the one loop whose steps move Registering.
LEMMA RegisterIInv == IInv /\ Register => IInv'
<1> SUFFICES ASSUME IInv, Register PROVE IInv'
  OBVIOUS
<1> USE Sizes, StartupAssumption
<1>0. /\ pc = "register" /\ k \in 1..7 /\ ~registered
      /\ UNCHANGED <<enabled, services, passes, registered, initialised, ready,
                     started, threads, ran, status>>
  BY DEF IInv, TypeOK, Register, Config, Lifecycle
<1>1. CASE Registry[k] \notin enabled
  <2>1. k' = k + 1 /\ pc' = pc /\ modules' = modules
    BY <1>1 DEF Register
  <2>2. TypeOK'
    BY <1>0, <2>1 DEF IInv, TypeOK
  <2>3. Registering'
    BY <1>0, <1>1, <2>1 DEF IInv, TypeOK, Registering, Covers
  <2> QED
    BY <1>0, <2>1, <2>2, <2>3 DEF IInv, Initialising, Starting
<1>2. CASE Registry[k] \in enabled /\ Len(modules) < MaxModules
  <2>1. k' = k + 1 /\ pc' = pc /\ modules' = Append(modules, Registry[k])
    BY <1>2 DEF Register
  <2>2. /\ modules \in Seq(enabled) /\ modules' \in Seq(enabled)
        /\ Len(modules') = Len(modules) + 1
        /\ \A j \in 1..Len(modules) : modules'[j] = modules[j]
        /\ modules'[Len(modules) + 1] = Registry[k]
    BY <1>2, <2>1 DEF IInv, TypeOK
  <2>3. TypeOK'
    BY <1>0, <2>1, <2>2 DEF IInv, TypeOK
  <2>4. Len(modules) < k
    BY <1>0 DEF IInv, Registering
  <2>5. Covers(k - 1)
    BY <1>0 DEF IInv, Registering
  <2>6. Covers(k - 1)'
    <3> SUFFICES ASSUME NEW n \in 1..k, Registry[n] \in enabled
                 PROVE  \E j \in 1..Len(modules') : modules'[j] = Registry[n]
      BY <1>0, <2>1 DEF Covers
    <3>1. CASE n = k
      BY <3>1, <2>2
    <3>2. CASE n < k
      BY <1>0, <3>2, <2>2, <2>5 DEF Covers
    <3> QED
      BY <1>0, <3>1, <3>2
  <2>7. ASSUME NEW j \in 1..Len(modules'), modules'[j] = Indicator PROVE j = 1
    <3>1. CASE j \in 1..Len(modules)
      BY <2>2, <2>7, <3>1 DEF IInv, Registering
    <3>2. CASE j = Len(modules) + 1
      <4>1. k = 1
        BY <1>0, <2>2, <2>7, <3>2, Entries
      <4>2. Len(modules) \in Nat
        BY DEF IInv, TypeOK
      <4> QED
        BY <2>4, <3>2, <4>1, <4>2
    <3>3. Len(modules) \in Nat
      BY DEF IInv, TypeOK
    <3> QED
      BY <2>2, <2>7, <3>1, <3>2, <3>3
  <2>8. Registering'
    BY <1>0, <2>1, <2>2, <2>4, <2>6, <2>7 DEF Registering
  <2> QED
    BY <1>0, <2>1, <2>3, <2>8 DEF IInv, Initialising, Starting
<1>3. CASE Registry[k] \in enabled /\ ~(Len(modules) < MaxModules)
  <2>1. k' = k /\ pc' = "failed" /\ modules' = modules
    BY <1>3 DEF Register
  <2>2. TypeOK'
    BY <1>0, <2>1 DEF IInv, TypeOK, PC
  <2> QED
    BY <1>0, <2>1, <2>2 DEF IInv, Registering, Initialising, Starting
<1> QED
  BY <1>1, <1>2, <1>3

\* Starting a module: its thread is the first, and not before k = 1 has passed.
LEMMA StartIInv == IInv /\ StartModule => IInv'
<1> SUFFICES ASSUME IInv, StartModule PROVE IInv'
  OBVIOUS
<1> USE Sizes, StartupAssumption
<1>0. /\ pc = "start" /\ k <= Len(modules) /\ k' = k + 1 /\ k \in 1..7
      /\ modules[k] \in AllModules /\ ~started[modules[k]]
      /\ started' = [started EXCEPT ![modules[k]] = TRUE]
      /\ threads' = [threads EXCEPT ![modules[k]] = @ + 1]
      /\ UNCHANGED <<enabled, services, passes, pc, modules, registered,
                     initialised, ready, ran, status>>
  BY DEF IInv, TypeOK, Registering, StartModule, Skips, Config, Manager
<1>1. threads[modules[k]] = 0
  BY <1>0 DEF IInv, TypeOK, Starting
<1>2. TypeOK'
  BY <1>0, <1>1 DEF IInv, TypeOK
<1>3. Registering' /\ Initialising'
  BY <1>0 DEF IInv, Registering, Initialising, Covers
<1>4. \A m \in AllModules : threads'[m] > 0 => started'[m]
  BY <1>0 DEF IInv, TypeOK, Starting
<1>5. \A m \in ran : threads'[m] > 0
  BY <1>0, <1>1 DEF IInv, TypeOK, Starting
<1> QED
  BY <1>0, <1>2, <1>3, <1>4, <1>5 DEF IInv, Starting

\* Every step of the boot keeps the invariant.
LEMMA NextIInv == IInv /\ [Next]_vars => IInv'
<1> SUFFICES ASSUME IInv, [Next]_vars PROVE IInv'
  OBVIOUS
<1> USE Sizes, StartupAssumption
<1>1. ASSUME InitializeService PROVE IInv'
  <2>1. /\ pc = "infra" /\ k \in 1..4
        /\ (pc' = "failed" /\ k' = k) \/ (pc' = pc /\ k' = k + 1)
        /\ UNCHANGED <<enabled, services, passes, modules, registered,
                       initialised, ready, started, threads, ran, status>>
    BY <1>1 DEF InitializeService, IInv, TypeOK, Config, Manager, Lifecycle
  <2>2. TypeOK'
    BY <2>1 DEF IInv, TypeOK, PC
  <2> QED
    BY <2>1, <2>2 DEF IInv, Registering, Initialising, Starting
<1>2. ASSUME InitializeManager PROVE IInv'
  <2>1. /\ pc = "infra" /\ pc' = "register" /\ k' = 1
        /\ UNCHANGED <<enabled, services, passes, modules, registered,
                       initialised, ready, started, threads, ran, status>>
    BY <1>2 DEF InitializeManager, Goto, Config, Manager, Lifecycle
  <2>2. TypeOK'
    BY <2>1 DEF IInv, TypeOK, PC
  <2> QED
    BY <2>1, <2>2 DEF IInv, Registering, Initialising, Starting, Covers
<1>3. ASSUME Registered PROVE IInv'
  <2>1. /\ pc = "register" /\ k > 7 /\ pc' = "initialize" /\ k' = 1
        /\ registered' = TRUE
        /\ UNCHANGED <<enabled, services, passes, modules, initialised, ready,
                       started, threads, ran, status>>
    BY <1>3 DEF Registered, Goto, Config, Lifecycle, IInv, Registering
  <2>2. TypeOK'
    BY <2>1 DEF IInv, TypeOK, PC
  <2>3. k = 8
    BY <2>1 DEF IInv, TypeOK
  <2>4. Registering'
    BY <2>1, <2>3 DEF IInv, Registering, Covers
  <2> QED
    BY <2>1, <2>2, <2>4 DEF IInv, Initialising, Starting
<1>4. ASSUME InitializeModule PROVE IInv'
  <2>1. /\ pc = "initialize" /\ k <= Len(modules) /\ k \in 1..7 /\ k' = k + 1
        /\ modules[k] \in AllModules
        /\ initialised' = initialised \union {modules[k]}
        /\ started' = [started EXCEPT ![modules[k]] = FALSE]
        /\ ready' \in BOOLEAN
        /\ UNCHANGED <<enabled, services, passes, pc, modules, registered,
                       threads, ran, status>>
    BY <1>4 DEF InitializeModule, Prepare, IInv, TypeOK, Registering, Config, Manager
  <2>2. started' \in [AllModules -> BOOLEAN]
    BY <2>1, Zenon DEF IInv, TypeOK
  <2>3. TypeOK'
    <3>1. initialised' \in SUBSET AllModules
      BY <2>1 DEF IInv, TypeOK
    <3>2. k' \in 1..(Len(Registry) + 1)
      BY <2>1
    <3>3. /\ ready' \in BOOLEAN
          /\ UNCHANGED <<enabled, services, passes, pc, modules, registered,
                         threads, ran, status>>
      BY <2>1
    <3> QED
      BY <2>2, <3>1, <3>2, <3>3 DEF IInv, TypeOK
  <2>4. Initialising'
    BY <2>1 DEF IInv, TypeOK, Initialising
  <2>5. Covers(Len(Registry))
    BY <2>1 DEF IInv, Registering
  <2>6. Covers(Len(Registry))'
    BY <2>1, <2>5 DEF Covers
  <2>7. Registering'
    BY <2>1, <2>6 DEF IInv, Registering
  <2>8. Starting'
    BY <2>1 DEF IInv, Starting
  <2> QED
    BY <2>3, <2>4, <2>7, <2>8 DEF IInv
<1>5. ASSUME Initialized PROVE IInv'
  <2>1. /\ pc = "initialize" /\ k > Len(modules) /\ pc' = "start" /\ k' = 1
        /\ UNCHANGED <<enabled, services, passes, modules, registered,
                       initialised, ready, started, threads, ran>>
    BY <1>5 DEF Initialized, Goto, Config, Manager, Lifecycle
  <2>2. status' \in [phase : Phases, active : 0..Len(Registry)]
    BY <1>5, PublishType DEF Initialized, IInv, Phases
  <2>3. TypeOK'
    BY <2>1, <2>2 DEF IInv, TypeOK, PC
  <2> QED
    BY <2>1, <2>3 DEF IInv, TypeOK, Registering, Initialising, Starting, Covers
<1>6. ASSUME StartSkipped PROVE IInv'
  <2>1. /\ pc = "start" /\ k <= Len(modules) /\ k \in 1..7 /\ k' = k + 1
        /\ UNCHANGED <<enabled, services, passes, pc, modules, registered,
                       initialised, ready, started, threads, ran, status>>
    BY <1>6 DEF StartSkipped, IInv, TypeOK, Registering, Config, Manager, Lifecycle
  <2>2. TypeOK'
    BY <2>1 DEF IInv, TypeOK
  <2> QED
    BY <2>1, <2>2 DEF IInv, Registering, Initialising, Starting, Covers
<1>7. ASSUME StartFails PROVE IInv'
  <2>1. /\ pc = "start" /\ k <= Len(modules) /\ modules[k] = Indicator
        /\ k \in 1..7 /\ k' = k /\ pc' = "failed"
        /\ UNCHANGED <<enabled, services, passes, modules, registered,
                       initialised, ready, started, threads, ran, status>>
    BY <1>7 DEF StartFails, IInv, TypeOK, Registering, Config, Manager, Lifecycle
  <2>2. k = 1
    BY <2>1 DEF IInv, Registering
  <2>3. \A m \in AllModules : threads[m] = 0
    BY <2>1, <2>2 DEF IInv, Starting
  <2>4. TypeOK'
    BY <2>1 DEF IInv, TypeOK, PC
  <2> QED
    BY <2>1, <2>3, <2>4 DEF IInv, Registering, Initialising, Starting
<1>8. ASSUME Started PROVE IInv'
  <2>1. /\ pc = "start" /\ pc' = "running" /\ k' = 1
        /\ UNCHANGED <<enabled, services, passes, modules, registered,
                       initialised, ready, started, threads, ran>>
    BY <1>8 DEF Started, Goto, Config, Manager, Lifecycle
  <2>2. status' \in [phase : Phases, active : 0..Len(Registry)]
    BY <1>8, PublishType DEF Started, IInv, Phases
  <2>3. TypeOK'
    BY <2>1, <2>2 DEF IInv, TypeOK, PC
  <2> QED
    BY <2>1, <2>3 DEF IInv, Registering, Initialising, Starting, Covers
<1>9. ASSUME NEW m \in AllModules, RunLoop(m) PROVE IInv'
  <2>1. /\ threads[m] > 0 /\ ran' = ran \union {m}
        /\ UNCHANGED <<enabled, services, passes, pc, k, modules, registered,
                       initialised, ready, started, threads, status>>
    BY <1>9 DEF RunLoop, Config, Manager, Lifecycle
  <2>2. TypeOK'
    BY <2>1 DEF IInv, TypeOK
  <2> QED
    BY <2>1, <2>2 DEF IInv, Registering, Initialising, Starting, Covers
<1>10. ASSUME InitializeFails PROVE IInv'
  <2>1. /\ pc = "initialize" /\ pc' = "failed" /\ k' = k
        /\ started' = [started EXCEPT !["chassis"] = FALSE]
        /\ UNCHANGED <<enabled, services, passes, modules, registered,
                       initialised, ready, threads, ran, status>>
    BY <1>10 DEF InitializeFails, Config, Manager
  <2>2. started' \in [AllModules -> BOOLEAN]
    BY <2>1, Zenon DEF IInv, TypeOK
  <2>3. TypeOK'
    BY <2>1, <2>2 DEF IInv, TypeOK, PC
  <2> QED
    BY <2>1, <2>3 DEF IInv, Registering, Initialising, Starting
<1>11. CASE UNCHANGED vars
  BY <1>11 DEF vars, IInv, TypeOK, Registering, Initialising, Starting, Covers
<1> QED
  BY <1>1, <1>2, <1>3, <1>4, <1>5, <1>6, <1>7, <1>8, <1>9, <1>10, <1>11,
     RegisterIInv, StartIInv DEF Next, Run

\* The invariant of the boot.
THEOREM Invariance == Spec => []IInv
  BY InitIInv, NextIInv, PTL DEF Spec

\* The loops of the boot keep their bounds, and only enabled modules are
\* registered, whatever the configuration and the table size.
THEOREM TypeCorrect == Spec => []TypeOK
<1>1. IInv => TypeOK
  BY DEF IInv
<1> QED
  BY Invariance, <1>1, PTL

\* No module thread runs before every enabled module has been initialised.
THEOREM InitialisedFirst == Spec => []ThreadsFindAllInitialised
<1>1. IInv => ThreadsFindAllInitialised
  <2> SUFFICES ASSUME IInv, NEW m \in ran, NEW e \in enabled
               PROVE  e \in initialised
    BY DEF ThreadsFindAllInitialised
  <2>1. pc \in {"start", "running"}
    BY DEF IInv, TypeOK, Starting, PC
  <2>2. PICK n \in 1..7 : e = Registry[n]
    BY Entries DEF IInv, TypeOK
  <2>3. \E j \in 1..Len(modules) : modules[j] = e
    BY <2>1, <2>2, Sizes DEF IInv, Registering, Covers
  <2> QED
    BY <2>1, <2>3 DEF IInv, Initialising
<1> QED
  BY Invariance, <1>1, PTL

\* A boot that fails has not created a single module thread.
THEOREM QuietFailure == Spec => []FailedBootIsQuiet
<1>1. IInv => FailedBootIsQuiet
  BY DEF IInv, Starting, FailedBootIsQuiet
<1> QED
  BY Invariance, <1>1, PTL

--------------------------------------------------------------------------------
(***************************************************************************)
(* What kRunning announces.  A second invariant says more about the two    *)
(* loops: the table lists no module twice, and the start loop leaves one   *)
(* thread behind it for each entry, none ahead of it.                      *)
(***************************************************************************)
Idle(m) == m = Indicator /\ ~ready

\* While the table is filled it holds nothing from beyond k.
Distinct ==
  /\ \A i, j \in 1..Len(modules) : modules[i] = modules[j] => i = j
  /\ pc = "register" =>
       \A j \in 1..Len(modules) : \E n \in 1..(k - 1) : modules[j] = Registry[n]

StartedSoFar ==
  /\ (pc \in {"infra", "register", "initialize"} => \A m \in AllModules : ~started[m])
  /\ (pc = "start" => \A j \in 1..Len(modules) :
        /\ (j < k => threads[modules[j]] = 1 \/ Idle(modules[j]))
        /\ (j >= k => ~started[modules[j]]))
  /\ (pc = "running" => \A j \in 1..Len(modules) :
        threads[modules[j]] = 1 \/ Idle(modules[j]))

Announced ==
  status.phase = "kRunning" => pc = "running" /\ status.active = Len(modules)

CInv == Distinct /\ StartedSoFar /\ Announced

LEMMA InitCInv == Init => CInv
<1> SUFFICES ASSUME Init PROVE CInv
  OBVIOUS
<1>1. Len(modules) = 0 /\ pc = "infra" /\ status.phase # "kRunning"
  BY DEF Init, NoStatus
<1>2. \A m \in AllModules : ~started[m]
  BY Zenon DEF Init
<1> QED
  BY <1>1, <1>2 DEF CInv, Distinct, StartedSoFar, Announced

\* The registry lists every module once.
LEMMA RegistryInjective == \A n, l \in 1..7 : Registry[n] = Registry[l] => n = l
  BY DEF Registry

LEMMA RegisterCInv == IInv /\ CInv /\ Register => CInv'
<1> SUFFICES ASSUME IInv, CInv, Register PROVE CInv'
  OBVIOUS
<1> USE Sizes
<1>0. /\ pc = "register" /\ k \in 1..7
      /\ modules \in Seq(enabled) /\ Len(modules) \in Nat
      /\ UNCHANGED <<initialised, ready, started, threads, status>>
  BY DEF IInv, TypeOK, Register, Config, Lifecycle
<1>1. CASE Registry[k] \notin enabled
  <2>1. k' = k + 1 /\ pc' = pc /\ modules' = modules
    BY <1>1 DEF Register
  <2> QED
    BY <1>0, <2>1 DEF CInv, Distinct, StartedSoFar, Announced
<1>2. CASE Registry[k] \in enabled /\ Len(modules) < MaxModules
  <2>1. k' = k + 1 /\ pc' = pc /\ modules' = Append(modules, Registry[k])
    BY <1>2 DEF Register
  <2>2. /\ Len(modules') = Len(modules) + 1
        /\ \A j \in 1..Len(modules) : modules'[j] = modules[j]
        /\ modules'[Len(modules) + 1] = Registry[k]
    BY <1>0, <1>2, <2>1
  <2>3. ASSUME NEW j \in 1..Len(modules)
        PROVE  (\E n \in 1..(k - 1) : modules[j] = Registry[n]) /\ modules[j] # Registry[k]
    <3>1. PICK n \in 1..(k - 1) : modules[j] = Registry[n]
      BY <1>0, <2>3 DEF CInv, Distinct
    <3> QED
      BY <1>0, <3>1, RegistryInjective
  <2>4. ASSUME NEW i \in 1..Len(modules'), NEW j \in 1..Len(modules'),
               modules'[i] = modules'[j]
        PROVE  i = j
    BY <1>0, <2>2, <2>3, <2>4 DEF CInv, Distinct
  <2>5. ASSUME NEW j \in 1..Len(modules')
        PROVE  \E n \in 1..k : modules'[j] = Registry[n]
    <3>1. CASE j = Len(modules) + 1
      BY <1>0, <2>2, <3>1
    <3>2. CASE j \in 1..Len(modules)
      <4>1. PICK n \in 1..(k - 1) : modules[j] = Registry[n]
        BY <2>3, <3>2
      <4>2. n \in 1..k /\ modules'[j] = modules[j]
        BY <1>0, <2>2, <3>2
      <4> QED
        BY <4>1, <4>2
    <3> QED
      BY <1>0, <2>2, <3>1, <3>2
  <2>6. Distinct'
    BY <1>0, <2>1, <2>4, <2>5 DEF Distinct
  <2> QED
    BY <1>0, <2>1, <2>6 DEF CInv, StartedSoFar, Announced
<1>3. CASE Registry[k] \in enabled /\ ~(Len(modules) < MaxModules)
  <2>1. k' = k /\ pc' = "failed" /\ modules' = modules
    BY <1>3 DEF Register
  <2> QED
    BY <1>0, <2>1 DEF CInv, Distinct, StartedSoFar, Announced
<1> QED
  BY <1>1, <1>2, <1>3

\* One thread for the entry the start loop is at; the others are other
\* modules' and keep what they have.
LEMMA StartCInv == IInv /\ CInv /\ StartModule => CInv'
<1> SUFFICES ASSUME IInv, CInv, StartModule PROVE CInv'
  OBVIOUS
<1>0. /\ pc = "start" /\ k <= Len(modules) /\ k' = k + 1 /\ k \in Nat \ {0}
      /\ Len(modules) \in Nat /\ \A j \in 1..Len(modules) : modules[j] \in AllModules
      /\ started' = [started EXCEPT ![modules[k]] = TRUE]
      /\ threads' = [threads EXCEPT ![modules[k]] = @ + 1]
      /\ UNCHANGED <<pc, modules, ready, status>>
  BY Sizes DEF IInv, TypeOK, StartModule, Manager
<1>1. /\ threads \in [AllModules -> 0..Passes] /\ started \in [AllModules -> BOOLEAN]
      /\ k \in 1..Len(modules)
  BY <1>0 DEF IInv, TypeOK
<1>2. threads[modules[k]] = 0
  BY <1>0, <1>1, StartupAssumption DEF StartModule, Skips, IInv, Starting
<1>3. ASSUME NEW j \in 1..Len(modules)
      PROVE  /\ (j < k' => threads'[modules[j]] = 1 \/ Idle(modules[j])')
             /\ (j >= k' => ~started'[modules[j]])
  <2>1. CASE j = k
    BY <1>0, <1>1, <1>2, <2>1
  <2>2. CASE j # k
    <3>1. modules[j] # modules[k]
      BY <1>1, <2>2 DEF CInv, Distinct
    <3>2. /\ threads'[modules[j]] = threads[modules[j]]
          /\ started'[modules[j]] = started[modules[j]]
      BY <1>0, <1>1, <3>1
    <3>3. j < k' => threads'[modules[j]] = 1 \/ Idle(modules[j])'
      BY <1>0, <2>2, <3>2 DEF CInv, StartedSoFar, Idle
    <3>4. j >= k' => j >= k
      BY <1>0
    <3>5. j >= k => ~started[modules[j]]
      BY <1>0 DEF CInv, StartedSoFar
    <3> QED
      BY <3>2, <3>3, <3>4, <3>5
  <2> QED
    BY <2>1, <2>2
<1>4. StartedSoFar'
  BY <1>0, <1>3 DEF StartedSoFar
<1> QED
  BY <1>0, <1>4 DEF CInv, Distinct, Announced

LEMMA NextCInv == IInv /\ CInv /\ [Next]_vars => CInv'
<1> SUFFICES ASSUME IInv, CInv, [Next]_vars PROVE CInv'
  OBVIOUS
<1> USE Sizes DEF CInv
<1>1. ASSUME InitializeService \/ InitializeManager PROVE CInv'
  <2>1. /\ pc = "infra" /\ pc' \in {"infra", "register", "failed"} /\ modules = <<>>
        /\ UNCHANGED <<modules, ready, started, threads, status>>
    BY <1>1 DEF InitializeService, InitializeManager, Goto, IInv, Registering,
                Manager, Lifecycle
  <2> QED
    BY <2>1 DEF Distinct, StartedSoFar, Announced
<1>2. ASSUME Registered PROVE CInv'
  <2>1. /\ pc = "register" /\ pc' = "initialize"
        /\ UNCHANGED <<modules, ready, started, threads, status>>
    BY <1>2 DEF Registered, Goto, Lifecycle
  <2> QED
    BY <2>1 DEF Distinct, StartedSoFar, Announced
<1>3. ASSUME InitializeModule PROVE CInv'
  <2>1. /\ pc = "initialize"
        /\ started' = [started EXCEPT ![modules[k]] = FALSE]
        /\ UNCHANGED <<pc, modules, threads, status>>
    BY <1>3 DEF InitializeModule, Prepare, Manager
  <2>2. \A m \in AllModules : ~started'[m]
    BY <2>1 DEF StartedSoFar, IInv, TypeOK
  <2> QED
    BY <2>1, <2>2 DEF Distinct, StartedSoFar, Announced
<1>4. ASSUME Initialized PROVE CInv'
  <2>1. /\ pc = "initialize" /\ pc' = "start" /\ k' = 1
        /\ Publish("kModulesInitialized")
        /\ UNCHANGED <<modules, ready, started, threads>>
    BY <1>4 DEF Initialized, Goto, Manager, Lifecycle
  <2>2. status'.phase # "kRunning"
    BY <2>1 DEF Announced, Publish
  <2>3. \A j \in 1..Len(modules) : modules[j] \in AllModules
    BY DEF IInv, TypeOK
  <2>4. StartedSoFar'
    BY <2>1, <2>3 DEF StartedSoFar
  <2> QED
    BY <2>1, <2>2, <2>4 DEF Distinct, Announced
<1>5. ASSUME StartSkipped PROVE CInv'
  <2>1. /\ pc = "start" /\ k' = k + 1 /\ k \in 1..Len(modules) /\ Skips(modules[k])
        /\ UNCHANGED <<pc, modules, ready, started, threads, status>>
    BY <1>5 DEF StartSkipped, IInv, TypeOK, Manager, Lifecycle
  <2>2. Idle(modules[k])
    BY <2>1 DEF Skips, Idle, StartedSoFar
  <2>3. StartedSoFar'
    BY <2>1, <2>2 DEF StartedSoFar, Idle
  <2> QED
    BY <2>1, <2>3 DEF Distinct, Announced
<1>6. ASSUME StartFails PROVE CInv'
  <2>1. pc = "start" /\ pc' = "failed" /\ UNCHANGED <<modules, status>>
    BY <1>6 DEF StartFails, Manager
  <2> QED
    BY <2>1 DEF Distinct, StartedSoFar, Announced
<1>7. ASSUME Started PROVE CInv'
  <2>1. /\ pc = "start" /\ pc' = "running" /\ k > Len(modules)
        /\ Publish("kRunning")
        /\ UNCHANGED <<modules, ready, started, threads>>
    BY <1>7 DEF Started, Goto, Manager, Lifecycle
  <2>2. status'.phase = "kRunning" => status'.active = Len(modules)
    BY <2>1 DEF Publish, Announced
  <2>3. k \in Nat /\ Len(modules) \in Nat
    BY DEF IInv, TypeOK
  <2>4. StartedSoFar'
    BY <2>1, <2>3 DEF StartedSoFar, Idle
  <2> QED
    BY <2>1, <2>2, <2>4 DEF Distinct, Announced
<1>8. ASSUME NEW m \in AllModules, RunLoop(m) PROVE CInv'
  BY <1>8 DEF RunLoop, Config, Manager, Lifecycle, Distinct, StartedSoFar, Announced, Idle
<1>9. ASSUME InitializeFails PROVE CInv'
  <2>1. pc = "initialize" /\ pc' = "failed" /\ UNCHANGED <<modules, status>>
    BY <1>9 DEF InitializeFails, Manager
  <2> QED
    BY <2>1 DEF Distinct, StartedSoFar, Announced
<1>10. CASE UNCHANGED vars
  BY <1>10 DEF vars, Distinct, StartedSoFar, Announced, Idle
<1> QED
  BY <1>1, <1>2, <1>3, <1>4, <1>5, <1>6, <1>7, <1>8, <1>9, <1>10,
     RegisterCInv, StartCInv DEF Next, Run

\* The table numbers the enabled modules.
LEMMA TableCounts ==
  ASSUME IInv, CInv, pc = "running"
  PROVE  /\ Len(modules) = Cardinality(enabled)
         /\ \A m \in enabled : \E j \in 1..Len(modules) : m = modules[j]
<1>1. modules \in [1..Len(modules) -> enabled] /\ Len(modules) \in Nat
  BY DEF IInv, TypeOK
<1>2. \A m \in enabled : \E j \in 1..Len(modules) : m = modules[j]
  <2> SUFFICES ASSUME NEW m \in enabled
               PROVE  \E j \in 1..Len(modules) : m = modules[j]
    OBVIOUS
  <2>1. PICK n \in 1..7 : m = Registry[n]
    BY Entries DEF IInv, TypeOK
  <2> QED
    BY <2>1, Sizes DEF IInv, Registering, Covers
<1>3. modules \in Bijection(1..Len(modules), enabled)
  BY <1>1, <1>2, Fun_IsBij DEF CInv, Distinct
<1>4. Len(modules) = Cardinality(enabled)
  BY <1>1, <1>3, FS_CountingElements DEF ExistsBijection
<1> QED
  BY <1>2, <1>4

\* What the status channel announces is true: with kRunning, every enabled
\* module has exactly one thread, but for an indicator with nothing to show,
\* and the count is that of the enabled modules.
THEOREM RunningIsTrue == Spec => []RunningIsComplete
<1>1. IInv /\ CInv => RunningIsComplete
  <2> SUFFICES ASSUME IInv, CInv, status.phase = "kRunning"
               PROVE  /\ \A m \in enabled : threads[m] = 1 \/ (m = Indicator /\ ~ready)
                      /\ status.active = Cardinality(enabled)
    BY DEF RunningIsComplete
  <2>1. pc = "running" /\ status.active = Len(modules)
    BY DEF CInv, Announced
  <2> QED
    BY <2>1, TableCounts DEF CInv, StartedSoFar, Idle
<1>2. Spec => []CInv
  BY InitCInv, NextCInv, Invariance, PTL DEF Spec
<1> QED
  BY <1>1, <1>2, Invariance, PTL

\* As the code boots, once, no module ever has two threads on its one stack,
\* in whatever order the threads begin and the boot goes on.  Only a second
\* pass through the manager could create another one.
THEOREM OneThreadOnEachStack == Spec => []OneThreadEach
<1>1. Init => OneThreadEach
  BY DEF Init, OneThreadEach
<1>2. ASSUME IInv, OneThreadEach, [Next]_vars PROVE OneThreadEach'
  <2>1. threads \in [AllModules -> 0..Passes]
    BY <1>2 DEF IInv, TypeOK
  <2>2. CASE StartModule
    <3>1. threads' = [threads EXCEPT ![modules[k]] = @ + 1] /\ ~started[modules[k]]
          /\ pc = "start"
      BY <2>2 DEF StartModule, Skips
    <3>2. ASSUME NEW m \in AllModules, m = modules[k] PROVE threads'[m] <= 1
      <4>1. threads[m] = 0
        BY <1>2, <2>1, <3>1, <3>2 DEF IInv, Starting
      <4>. QED BY <2>1, <3>1, <3>2, <4>1
    <3>3. ASSUME NEW m \in AllModules, m # modules[k] PROVE threads'[m] <= 1
      BY <1>2, <2>1, <3>1, <3>3 DEF OneThreadEach
    <3>. QED BY <3>2, <3>3 DEF OneThreadEach
  <2>3. CASE UNCHANGED threads
    BY <1>2, <2>3 DEF OneThreadEach
  <2>4. StartModule \/ UNCHANGED threads
    BY <1>2 DEF Next, Run, vars, Config, Manager, Lifecycle, InitializeService,
       InitializeManager, Register, Registered, InitializeModule, InitializeFails,
       Initialized,
       StartSkipped, StartFails, Started, RunLoop, Publish, Goto, Prepare
  <2>. QED BY <2>2, <2>3, <2>4
<1>. QED BY <1>1, <1>2, Invariance, PTL DEF Spec
================================================================================

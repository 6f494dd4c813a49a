-------------------------------- MODULE Startup --------------------------------
(***************************************************************************)
(* The boot: Bootstrap::Run brings up the infrastructure, registers the    *)
(* modules that the configuration enables, initialises all of them, starts *)
(* all of them and reports each phase on the system status channel.  Start *)
(* creates a module's thread, which runs as soon as the scheduler lets it. *)
(***************************************************************************)
EXTENDS Naturals, Sequences, FiniteSets

CONSTANTS MaxModules,   \* kMaxModules
          Passes        \* bound: how often the manager is initialised and started

VARIABLES
  enabled,      \* the modules the configuration enables
  services,     \* the infrastructure the configuration enables
  pc,           \* where the main thread is
  k,            \* the index of the loop it is in
  modules,      \* modules_, module_count_
  registered,   \* builtins_registered_
  initialised,  \* modules whose Initialize has returned
  ready,        \* ready_ of sys_state: some LED or the buzzer works
  started,      \* started_ of every module
  threads,      \* how many threads each module has created
  ran,          \* modules whose thread has entered RunLoop
  status,       \* the last message on the system status channel
  passes        \* how often the manager has been run

vars == <<enabled, services, pc, k, modules, registered, initialised, ready,
          started, threads, ran, status, passes>>

(***************************************************************************)
(* The order of RegisterApplicationModules: the indicator comes first.     *)
(***************************************************************************)
\* A mutation of Registry: the indicator is registered last.
RegistryIndicatorLast ==
  <<"remote_input", "chassis", "arm", "gimbal", "gantry", "referee", "sys_state">>

Registry ==
  <<"sys_state", "remote_input", "chassis", "arm", "gimbal", "gantry", "referee">>

AllModules == {Registry[n] : n \in DOMAIN Registry}
Indicator == "sys_state"

ASSUME StartupAssumption ==
  /\ MaxModules \in Nat /\ MaxModules >= Len(Registry)
  /\ Passes \in Nat \ {0}

(***************************************************************************)
(* InitializeInfrastructure: the order, and what each step may return      *)
(* without ending the boot.  LittleFS is optional, a bus may be missing.   *)
(***************************************************************************)
Services == <<"uart", "can", "usb", "littlefs">>
ServiceNames == {"uart", "can", "usb", "littlefs"}
Outcomes == {"ok", "ENODEV", "EIO"}
Tolerated(s) == CASE s = "uart" -> {"ok"}
                  [] s \in {"can", "usb"} -> {"ok", "ENODEV"}
                  [] s = "littlefs" -> Outcomes

Phases == {"kBooting", "kModulesInitialized", "kRunning"}
PC == {"infra", "register", "initialize", "start", "running", "failed"}
NoStatus == [phase |-> "kBooting", active |-> 0]

Init ==
  /\ enabled \in SUBSET AllModules /\ services \in SUBSET ServiceNames
  /\ pc = "infra" /\ k = 1
  /\ modules = <<>> /\ registered = FALSE
  /\ initialised = {} /\ ready = FALSE
  /\ started = [m \in AllModules |-> FALSE]
  /\ threads = [m \in AllModules |-> 0]
  /\ ran = {} /\ status = NoStatus /\ passes = 1

\* zbus_chan_pub with K_NO_WAIT, the result ignored: the message may get lost.
Publish(phase) ==
  status' \in {status, [phase |-> phase, active |-> Len(modules)]}

Goto(where) == pc' = where /\ k' = 1

Config == <<enabled, services, passes>>
Manager == <<modules, registered>>
Lifecycle == <<initialised, ready, started, threads>>

InitializeService ==
  /\ pc = "infra" /\ k <= Len(Services)
  /\ \E rc \in Outcomes :
       IF Services[k] \in services /\ rc \notin Tolerated(Services[k])
         THEN pc' = "failed" /\ UNCHANGED k
         ELSE k' = k + 1 /\ UNCHANGED pc
  /\ UNCHANGED <<Config, Manager, Lifecycle, ran, status>>

InitializeManager ==
  /\ pc = "infra" /\ k > Len(Services)
  /\ Goto("register")
  /\ UNCHANGED <<Config, Manager, Lifecycle, ran, status>>

(***************************************************************************)
(* ModuleManager::Initialize registers the modules, once, and initialises  *)
(* them in that order.                                                     *)
(***************************************************************************)
Register ==
  /\ pc = "register" /\ ~registered /\ k <= Len(Registry)
  /\ IF Registry[k] \notin enabled
       THEN k' = k + 1 /\ UNCHANGED <<pc, modules>>
       ELSE IF Len(modules) < MaxModules
         THEN /\ modules' = Append(modules, Registry[k])
              /\ k' = k + 1 /\ UNCHANGED pc
         ELSE pc' = "failed" /\ UNCHANGED <<k, modules>>
  /\ UNCHANGED <<Config, registered, Lifecycle, ran, status>>

Registered ==
  /\ pc = "register" /\ (registered \/ k > Len(Registry))
  /\ registered' = TRUE
  /\ Goto("initialize")
  /\ UNCHANGED <<Config, modules, Lifecycle, ran, status>>

\* An Initialize that returns 0 has cleared started_; sys_state finds out whether
\* it has anything to show.
Prepare(m) ==
  /\ initialised' = initialised \union {m}
  /\ started' = [started EXCEPT ![m] = FALSE]
  /\ IF m = Indicator THEN ready' \in BOOLEAN ELSE UNCHANGED ready

\* A mutation of InitializeModule: the thread is created there already.
InitializeAndStart ==
  /\ pc = "initialize" /\ k <= Len(modules)
  /\ Prepare(modules[k])
  /\ threads' = [threads EXCEPT ![modules[k]] = @ + 1]
  /\ k' = k + 1
  /\ UNCHANGED <<Config, pc, Manager, ran, status>>

\* A mutation of InitializeModule: the loop does not advance.
InitializeRetries ==
  /\ pc = "initialize" /\ k <= Len(modules)
  /\ Prepare(modules[k])
  /\ UNCHANGED <<Config, pc, k, Manager, threads, ran, status>>

InitializeModule ==
  /\ pc = "initialize" /\ k <= Len(modules)
  /\ Prepare(modules[k])
  /\ k' = k + 1
  /\ UNCHANGED <<Config, pc, Manager, threads, ran, status>>

\* Only the chassis returns anything else, when the tuning service does not take
\* it or it does not take its own tuning; the boot then ends.
InitializeFails ==
  /\ pc = "initialize" /\ k <= Len(modules)
  /\ modules[k] = "chassis"
  /\ started' = [started EXCEPT !["chassis"] = FALSE]
  /\ pc' = "failed"
  /\ UNCHANGED <<Config, k, Manager, initialised, ready, threads, ran, status>>

\* A mutation of Initialized: the second loop goes on where the first ended.
InitializedKeepsIndex ==
  /\ pc = "initialize" /\ k > Len(modules)
  /\ Publish("kModulesInitialized")
  /\ pc' = "start" /\ UNCHANGED k
  /\ UNCHANGED <<Config, Manager, Lifecycle, ran>>

Initialized ==
  /\ pc = "initialize" /\ k > Len(modules)
  /\ Publish("kModulesInitialized")
  /\ Goto("start")
  /\ UNCHANGED <<Config, Manager, Lifecycle, ran>>

(***************************************************************************)
(* ModuleManager::Start.  Only sys_state looks at what StartMemberThread   *)
(* returns, and only sys_state may decide not to start.                    *)
(***************************************************************************)
Skips(m) == started[m] \/ (m = Indicator /\ ~ready)

StartModule ==
  /\ pc = "start" /\ k <= Len(modules) /\ ~Skips(modules[k])
  /\ started' = [started EXCEPT ![modules[k]] = TRUE]
  /\ threads' = [threads EXCEPT ![modules[k]] = @ + 1]
  /\ k' = k + 1
  /\ UNCHANGED <<Config, pc, Manager, initialised, ready, ran, status>>

StartSkipped ==
  /\ pc = "start" /\ k <= Len(modules) /\ Skips(modules[k])
  /\ k' = k + 1
  /\ UNCHANGED <<Config, pc, Manager, Lifecycle, ran, status>>

StartFails ==
  /\ pc = "start" /\ k <= Len(modules) /\ ~Skips(modules[k])
  /\ modules[k] = Indicator
  /\ pc' = "failed"
  /\ UNCHANGED <<Config, k, Manager, Lifecycle, ran, status>>

Started ==
  /\ pc = "start" /\ k > Len(modules)
  /\ Publish("kRunning")
  /\ Goto("running")
  /\ UNCHANGED <<Config, Manager, Lifecycle, ran>>

Run == \/ InitializeService \/ InitializeManager
       \/ Register \/ Registered
       \/ InitializeModule \/ InitializeFails \/ Initialized
       \/ StartModule \/ StartSkipped \/ StartFails \/ Started

\* StartMemberThread: the thread enters the module's RunLoop.
RunLoop(m) ==
  /\ threads[m] > 0 /\ m \notin ran
  /\ ran' = ran \union {m}
  /\ UNCHANGED <<Config, pc, k, Manager, Lifecycle, status>>

Next == Run \/ \E m \in AllModules : RunLoop(m)

Spec == Init /\ [][Next]_vars
FairSpec == Spec /\ WF_vars(Run)

(***************************************************************************)
(* A caller that takes Initialize and Start as repeatable: the manager is  *)
(* run again on a robot that is running.  The code itself never does it.   *)
(***************************************************************************)
Again ==
  /\ pc = "running" /\ passes < Passes
  /\ passes' = passes + 1
  /\ Goto("register")
  /\ UNCHANGED <<enabled, services, Manager, Lifecycle, ran, status>>

RepeatSpec == Init /\ [][Next \/ Again]_vars

--------------------------------------------------------------------------------

\* The state has its types; only enabled modules are ever registered.
TypeOK ==
  /\ enabled \in SUBSET AllModules /\ services \in SUBSET ServiceNames
  /\ pc \in PC /\ k \in 1..(Len(Registry) + 1)
  /\ modules \in Seq(enabled) /\ registered \in BOOLEAN
  /\ initialised \in SUBSET AllModules /\ ready \in BOOLEAN
  /\ started \in [AllModules -> BOOLEAN] /\ threads \in [AllModules -> 0..Passes]
  /\ ran \in SUBSET AllModules
  /\ status \in [phase : Phases, active : 0..Len(Registry)]
  /\ passes \in 1..Passes

\* No module thread enters its loop before every enabled module has been
\* initialised: threads use each other's channels and queues, the chassis its
\* tuning provider and mutex, without asking (module_manager.cpp Initialize, Start).
ThreadsFindAllInitialised == ran # {} => enabled \subseteq initialised

\* What the status channel says is true: kRunning means that every enabled
\* module has exactly one thread, but for an indicator with nothing to show, and
\* the count is that of the enabled modules (bootstrap.cpp Run).
RunningIsComplete ==
  status.phase = "kRunning" =>
    /\ \A m \in enabled : threads[m] = 1 \/ (m = Indicator /\ ~ready)
    /\ status.active = Cardinality(enabled)

\* A boot that has failed runs no module: the robot does not move under half of
\* its modules.  It holds because all of them are initialised before any is
\* started and the only Start that can fail comes first (module_manager.cpp,
\* modules_registry.cpp, sys_state_module.cpp Start).
FailedBootIsQuiet == pc = "failed" => \A m \in AllModules : threads[m] = 0

\* The boot comes to an end, one way or the other (bootstrap.cpp Run).
BootEnds == <>(pc \in {"running", "failed"})

\* docs/MODULE_LIFECYCLE_POLICY.md: Initialize and Start may be repeated.  A
\* module then still has one thread, on its one stack.
OneThreadEach == \A m \in AllModules : threads[m] <= 1
================================================================================

---------------------------- MODULE TuningService ----------------------------
(***************************************************************************)
(* The two halves of a tuning command: the service finds a provider        *)
(* (TuningProviders), then the provider, ChassisModule, executes it        *)
(* (ChassisTuning, whose commands are those that have found it).  Neither  *)
(* reads what the other keeps, so that a behaviour is that of one half:    *)
(* half.                                                                   *)
(***************************************************************************)
EXTENDS ChassisTuning, TuningProviders

VARIABLE half

\* Which half this is, and the start of both.
ServiceInit ==
  /\ half \in {"registry", "chassis"}
  /\ Init /\ RegistryInit
  /\ half = "registry" => mounted

ServiceNext ==
  /\ \/ half = "chassis" /\ Next /\ UNCHANGED registry
     \/ half = "registry" /\ RegistryNext /\ UNCHANGED vars
  /\ UNCHANGED half

allVars == <<half, vars, registry>>

ServiceSpec ==
  /\ ServiceInit /\ [][ServiceNext]_allVars
  /\ WF_vars(half = "chassis" /\ ShellStep)
  /\ WF_vars(half = "chassis" /\ ChassisStep)
  /\ \A t \in Thread : SF_vars(half = "chassis" /\ Lock(t))
=============================================================================

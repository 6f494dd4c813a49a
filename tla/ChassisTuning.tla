--------------------------- MODULE ChassisTuning ---------------------------
(***************************************************************************)
(* Tuning the wheels' speed controllers while they run, and keeping the    *)
(* tuning in a file.                                                       *)
(*                                                                         *)
(* The shell thread executes the "chassis pid" commands; the chassis       *)
(* thread computes the outputs of its wheels in every round.  They share   *)
(* the tuning, the wheels' Pid objects and the mutex pid_mutex_.  Save and *)
(* load go through littlefs, on a flash that outlives a reboot.            *)
(*                                                                         *)
(* A tuning is a record with the two limits; kp, ki and kd are one field   *)
(* that nothing looks at.  The operator may type any float, "nan" too, and *)
(* the file holds the bits, so a limit is positive, not positive or NaN.   *)
(* Of a Pid object the model keeps its tuning and the tunings under which  *)
(* its integral has been accumulated.  The commands before Initialize has  *)
(* registered the chassis answer -EAGAIN and are left out, as are commands *)
(* that only print.  littlefs is external: data reach the file when it is  *)
(* synced or closed, and a reboot forgets what was only written.           *)
(***************************************************************************)
EXTENDS Integers

CONSTANTS
  Tuning,   \* what can be typed or read, with fields i_limit and out_limit
  Default,  \* the built-in one
  Wheels,   \* the number of wheels
  NoFile,   \* there is no configuration file
  Torn,     \* a file that holds a part of what should have been written
  Unsaved   \* no save has been reported

Limit == {"positive", "notPositive", "nan"}

\* limit <= 0.0f, which is false of a NaN.
AtMostZero(limit) == limit = "notPositive"

\* The tunings that SetSpeedPidTuning does not reject.
Accepted == {t \in Tuning : ~AtMostZero(t.i_limit) /\ ~AtMostZero(t.out_limit)}

ASSUME TuningAssumption ==
  /\ \A t \in Tuning : t.i_limit \in Limit /\ t.out_limit \in Limit
  /\ Default \in Accepted
  /\ Wheels \in Nat \ {0}
  /\ {NoFile, Torn, Unsaved} \cap Tuning = {}
  /\ Torn # NoFile /\ NoFile # Unsaved /\ Torn # Unsaved

VARIABLES
  gains,     \* pid_kp_ .. pid_out_limit_
  wheel,     \* the tuning inside each wheel_speed_pid_
  integral,  \* the tunings under which each integral_error_ was accumulated
  owner,     \* the thread that holds pid_mutex_, or "free"
  next,      \* the wheel each thread's loop handles next
  cmd,       \* the step of the command the shell executes, or "idle"
  value,     \* the tuning in the command's local variables
  loop,      \* the step of the chassis thread's round
  used,      \* history: the tunings behind the outputs of this round
  disk,      \* the contents of /lfs/chassis_pid.cfg
  mounted,   \* g_mounted
  file,      \* the open file: what it would commit, and whether all went well
  saved      \* history: the tuning the operator was last told is saved

memory == <<gains, wheel, integral, owner, next, used, loop>>
storage == <<disk, mounted, file, saved>>
vars == <<memory, cmd, value, storage>>

Wheel == 1 .. Wheels
Thread == {"shell", "chassis"}
Contents == Accepted \cup {Torn}

Init ==
  /\ gains = Default
  /\ wheel = [w \in Wheel |-> Default]
  /\ integral = [w \in Wheel |-> {}]
  /\ owner = "free"
  /\ next = [t \in Thread |-> 1]
  /\ cmd = "idle"
  /\ value = Default
  /\ loop = "read"
  /\ used = {}
  /\ disk = NoFile
  /\ mounted \in BOOLEAN
  /\ file = [data |-> Torn, ok |-> TRUE]
  /\ saved = Unsaved

-----------------------------------------------------------------------------
(* The commands, up to their first lock or file operation.                 *)

\* SetSpeedPidTuning: the limits are checked before the lock is taken.
Apply(t) ==
  /\ cmd' = IF AtMostZero(t.i_limit) \/ AtMostZero(t.out_limit) THEN "idle" ELSE "set"
  /\ value' = t

CmdPidSet(t) ==
  /\ cmd = "idle"
  /\ Apply(t)
  /\ UNCHANGED <<memory, storage>>

CmdPidResetI ==
  /\ cmd = "idle"
  /\ cmd' = "reset"
  /\ UNCHANGED <<memory, value, storage>>

\* littlefs_service::Initialize.  Once mounted it does nothing; otherwise it
\* mounts, and whatever the reason why that fails, it formats and tries again.
Mount(ok, lost) ==
  /\ mounted => ok /\ ~lost
  /\ mounted' = ok
  /\ disk' = IF lost THEN NoFile ELSE disk
  /\ saved' = IF lost THEN Unsaved ELSE saved
  /\ UNCHANGED file

CmdPidSave(ok, lost) ==
  /\ cmd = "idle"
  /\ Mount(ok, lost)
  /\ cmd' = IF ok THEN "get" ELSE "idle"
  /\ UNCHANGED <<memory, value>>

CmdPidLoad(ok, lost) ==
  /\ cmd = "idle"
  /\ Mount(ok, lost)
  /\ cmd' = IF ok THEN "parse" ELSE "idle"
  /\ UNCHANGED <<memory, value>>

-----------------------------------------------------------------------------
(* Under pid_mutex_.                                                       *)

Wants(t) == IF t = "shell" THEN cmd \in {"set", "reset", "get"}
                           ELSE loop \in {"reset", "compute"}

\* A mutation of Lock: the mutex is not waited for.
LockBarges(t) ==
  /\ Wants(t) /\ owner # t
  /\ owner' = t
  /\ next' = [next EXCEPT ![t] = 1]
  /\ gains' = IF t = "shell" /\ cmd = "set" THEN value ELSE gains
  /\ value' = IF t = "shell" /\ cmd = "get" THEN gains ELSE value
  /\ UNCHANGED <<wheel, integral, loop, used, cmd, storage>>

\* A mutation of Lock: Get reports what the last command worked with.
LockWithoutCopy(t) ==
  /\ Wants(t) /\ owner = "free"
  /\ owner' = t
  /\ next' = [next EXCEPT ![t] = 1]
  /\ gains' = IF t = "shell" /\ cmd = "set" THEN value ELSE gains
  /\ UNCHANGED <<wheel, integral, loop, used, cmd, value, storage>>

\* k_mutex_lock, with the first thing each holder does: Set assigns the
\* tuning, Get copies it.
Lock(t) ==
  /\ Wants(t) /\ owner = "free"
  /\ owner' = t
  /\ next' = [next EXCEPT ![t] = 1]
  /\ gains' = IF t = "shell" /\ cmd = "set" THEN value ELSE gains
  /\ value' = IF t = "shell" /\ cmd = "get" THEN gains ELSE value
  /\ UNCHANGED <<wheel, integral, loop, used, cmd, storage>>

\* What the loops over the wheels have in common.
AtWheel(t) ==
  /\ owner = t /\ next[t] \in Wheel
  /\ next' = [next EXCEPT ![t] = @ + 1]
  /\ UNCHANGED <<gains, owner, loop, cmd, value, storage>>

\* A mutation of SetWheel: Init alone, which leaves the integral as it is.
SetWheelKeepsIntegral ==
  /\ cmd = "set" /\ AtWheel("shell")
  /\ wheel' = [wheel EXCEPT ![next["shell"]] = gains]
  /\ UNCHANGED <<integral, used>>

\* Pid::Init and SetIntegralError(0).
SetWheel ==
  /\ cmd = "set" /\ AtWheel("shell")
  /\ wheel' = [wheel EXCEPT ![next["shell"]] = gains]
  /\ integral' = [integral EXCEPT ![next["shell"]] = {}]
  /\ UNCHANGED used

\* ResetSpeedPidIntegrator, from the shell or from ResetTargetsAndPid.
ResetWheel(t) ==
  /\ IF t = "shell" THEN cmd = "reset" ELSE loop = "reset"
  /\ AtWheel(t)
  /\ integral' = [integral EXCEPT ![next[t]] = {}]
  /\ UNCHANGED <<wheel, used>>

\* One wheel of ApplyWheelSpeedPidAndSend; a wheel whose motor has sent no
\* feedback is skipped.
UpdateWheel(valid) ==
  /\ loop = "compute" /\ AtWheel("chassis")
  /\ LET w == next["chassis"]
     IN  IF valid
         THEN /\ used' = used \cup {wheel[w]}
              /\ integral' = [integral EXCEPT ![w] = @ \cup {wheel[w]}]
         ELSE UNCHANGED <<used, integral>>
  /\ UNCHANGED wheel

\* The loop over the wheels is over; Get has none.
Through(t) == (t = "shell" /\ cmd = "get") \/ next[t] > Wheels

After(t) ==
  IF t = "shell"
  THEN /\ cmd' = IF cmd = "get" THEN "open" ELSE "idle"
       /\ UNCHANGED loop
  ELSE /\ loop' = IF loop = "reset" THEN "compute" ELSE "read"
       /\ UNCHANGED cmd

\* A mutation of Unlock: the thread leaves with the mutex in its hands.
UnlockForgotten(t) ==
  /\ owner = t /\ Through(t)
  /\ After(t)
  /\ UNCHANGED <<gains, wheel, integral, owner, next, used, value, storage>>

Unlock(t) ==
  /\ owner = t /\ Through(t)
  /\ owner' = "free"
  /\ After(t)
  /\ UNCHANGED <<gains, wheel, integral, next, used, value, storage>>

\* A new round: after kNoCommandStopTicks rounds without a command the
\* targets and the integrals are reset first.
ReadCommand(timeout) ==
  /\ loop = "read"
  /\ loop' = IF timeout THEN "reset" ELSE "compute"
  /\ used' = {}
  /\ UNCHANGED <<gains, wheel, integral, owner, next, cmd, value, storage>>

-----------------------------------------------------------------------------
(* The file.                                                               *)

\* From here on the old contents may be replaced.
Open(ok) ==
  /\ cmd = "open"
  /\ cmd' = IF ok THEN "write" ELSE "idle"
  /\ saved' = IF ok THEN Unsaved ELSE saved
  /\ file' = [data |-> Torn, ok |-> TRUE]
  /\ UNCHANGED <<memory, value, disk, mounted>>

\* A mutation of Write: only a negative result counts as an error.
WriteUnchecked(all) ==
  /\ cmd = "write"
  /\ cmd' = "sync"
  /\ file' = [data |-> IF all THEN value ELSE Torn, ok |-> TRUE]
  /\ UNCHANGED <<memory, value, disk, mounted, saved>>

Write(all) ==
  /\ cmd = "write"
  /\ cmd' = "sync"
  /\ file' = [data |-> IF all THEN value ELSE Torn, ok |-> all]
  /\ UNCHANGED <<memory, value, disk, mounted, saved>>

\* A sync that fails may have reached the flash or not.
Sync(ok, through) ==
  /\ cmd = "sync"
  /\ ok => through
  /\ cmd' = "close"
  /\ disk' = IF through THEN file.data ELSE disk
  /\ file' = [file EXCEPT !.ok = @ /\ ok]
  /\ UNCHANGED <<memory, value, mounted, saved>>

\* fs_close tries once more; then the results of the write and of the sync
\* are looked at and the operator is told.
Close(through) ==
  /\ cmd = "close"
  /\ cmd' = "idle"
  /\ disk' = IF through THEN file.data ELSE disk
  /\ saved' = IF file.ok THEN value ELSE Unsaved
  /\ UNCHANGED <<memory, value, mounted, file>>

\* Load reads and parses the file and applies what it finds.  Of a torn file
\* the parsers may still make a tuning: the last number is shorter, and the
\* second parser takes what the first refuses.
Parse(readable, t) ==
  /\ cmd = "parse"
  /\ IF ~readable \/ disk = NoFile
     THEN cmd' = "idle" /\ UNCHANGED value
     ELSE Apply(IF disk = Torn THEN t ELSE disk)
  /\ UNCHANGED <<memory, storage>>

-----------------------------------------------------------------------------
\* A reset or a loss of power, up to the end of the next Initialize: only
\* the flash keeps its contents, and the boot has tried to mount it.
Reboot(ok, lost) ==
  /\ gains' = Default
  /\ wheel' = [w \in Wheel |-> Default]
  /\ integral' = [w \in Wheel |-> {}]
  /\ owner' = "free"
  /\ next' = [t \in Thread |-> 1]
  /\ cmd' = "idle"
  /\ value' = Default
  /\ loop' = "read"
  /\ used' = {}
  /\ mounted' = ok
  /\ disk' = IF lost THEN NoFile ELSE disk
  /\ saved' = IF lost THEN Unsaved ELSE saved
  /\ file' = [data |-> Torn, ok |-> TRUE]

Command ==
  \/ \E t \in Tuning : CmdPidSet(t)
  \/ CmdPidResetI
  \/ \E ok, lost \in BOOLEAN : CmdPidSave(ok, lost) \/ CmdPidLoad(ok, lost)

FileStep ==
  \/ \E ok \in BOOLEAN : Open(ok) \/ Write(ok) \/ Close(ok)
  \/ \E ok, through \in BOOLEAN : Sync(ok, through)
  \/ \E readable \in BOOLEAN, t \in Tuning : Parse(readable, t)

ShellStep == SetWheel \/ ResetWheel("shell") \/ Unlock("shell") \/ FileStep

ChassisStep ==
  \/ \E timeout \in BOOLEAN : ReadCommand(timeout)
  \/ ResetWheel("chassis")
  \/ \E valid \in BOOLEAN : UpdateWheel(valid)
  \/ Unlock("chassis")

Next ==
  \/ Command \/ ShellStep \/ ChassisStep
  \/ \E t \in Thread : Lock(t)
  \/ \E ok, lost \in BOOLEAN : Reboot(ok, lost)

Spec == Init /\ [][Next]_vars

\* Both threads keep running.  The mutex is free during the millisecond in
\* which the chassis thread sleeps, so a waiting thread gets it in the end.
FairSpec ==
  Spec /\ WF_vars(ShellStep) /\ WF_vars(ChassisStep) /\ \A t \in Thread : SF_vars(Lock(t))

-----------------------------------------------------------------------------
(* The types of the variables.  Whatever is typed in or read from a torn   *)
(* file, a tuning in force, behind an output, inside a wheel or saved has  *)
(* passed the test of its limits: none is zero or negative.  NaN passes.   *)
TypeOK ==
  /\ gains \in Accepted
  /\ wheel \in [Wheel -> Accepted]
  /\ integral \in [Wheel -> SUBSET Accepted]
  /\ owner \in Thread \cup {"free"}
  /\ next \in [Thread -> 1 .. Wheels + 1]
  /\ cmd \in {"idle", "set", "reset", "get", "open", "write", "sync", "close", "parse"}
  /\ value \in Tuning
  /\ loop \in {"read", "reset", "compute"}
  /\ used \in SUBSET Accepted
  /\ disk \in Contents \cup {NoFile}
  /\ mounted \in BOOLEAN
  /\ file \in [data : Contents, ok : BOOLEAN]
  /\ saved \in Accepted \cup {Unsaved}

(* Whenever the mutex is free, every wheel runs with the tuning Get would  *)
(* report, and its integral was accumulated under that tuning alone.       *)
NoForeignIntegral ==
  owner = "free" => \A w \in Wheel : wheel[w] = gains /\ integral[w] \subseteq {gains}

(* When the operator has been told that a tuning is saved, it is what the  *)
(* file holds: until the file is opened for the next save or the flash is  *)
(* formatted, and across any number of reboots.                            *)
SavedMeansSaved == saved # Unsaved => disk = saved

(* What is reported as saved is the tuning in force at that moment: no     *)
(* other thread changes it between the copy and the report.                *)
SavesWhatIsInForce ==
  [][saved' # saved /\ saved' # Unsaved => saved' = gains /\ disk' = gains]_vars

(* The wheels' controllers and the mutex keep TuningRegister's promise.    *)
Register == INSTANCE TuningRegister WITH Tuning <- Accepted
RegisterSpec == Register!Spec

(* Every command ends, whatever the chassis thread does meanwhile, and so  *)
(* does every round of the chassis thread, whatever the operator types.    *)
CommandsAndRoundsEnd ==
  /\ cmd # "idle" ~> cmd = "idle"
  /\ loop # "read" ~> loop = "read"
=============================================================================

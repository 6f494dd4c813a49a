------------------------ MODULE TuningService_proofs ------------------------
(***************************************************************************)
(* Proofs about the tuning service and its provider, for any set of        *)
(* tunings, any number of wheels, and a table of any size with any         *)
(* providers and priorities.                                               *)
(*                                                                         *)
(* The inductive invariant of the provider says who may hold the mutex,    *)
(* which wheels a Set in progress has reached, what the outputs of the     *)
(* round stem from, and what a save in progress has in its hands.  That of *)
(* the registry says that the orders of the slots in use are below the     *)
(* next one, and that the slots form a list in that order as long as the   *)
(* count.                                                                  *)
(***************************************************************************)
EXTENDS TuningService, SequenceTheorems, FiniteSetTheorems, WellFoundedInduction, TLAPS

-----------------------------------------------------------------------------
(* The provider.                                                           *)

Holding ==
  /\ owner = "shell" => cmd \in {"set", "reset", "get"}
  /\ owner = "chassis" => loop \in {"reset", "compute"}

\* A Set in progress has reached the wheels before next["shell"].
Reached(w) == owner = "shell" /\ cmd = "set" => w < next["shell"]

WheelsAgree ==
  \A w \in Wheel : Reached(w) => wheel[w] = gains /\ integral[w] \subseteq {gains}

RoundUsesOne ==
  loop # "read" =>
    IF owner = "chassis" /\ loop = "compute" THEN used \subseteq {gains} ELSE used = {}

Saving ==
  /\ cmd = "set" => value \in Accepted
  /\ owner = "shell" /\ cmd = "get" => value = gains
  /\ cmd \in {"open", "write", "sync", "close"} => value = gains
  /\ cmd \in {"sync", "close"} /\ file.ok => file.data = value
  /\ cmd = "close" /\ file.ok => disk = value

Told == saved # Unsaved => disk = saved /\ cmd \notin {"write", "sync", "close"}

\* What the proofs use of the tunings.
LEMMA Tunings ==
  /\ Accepted \subseteq Tuning /\ Default \in Accepted
  /\ NoFile \notin Accepted /\ Torn \notin Accepted /\ Unsaved \notin Accepted
  /\ Torn # NoFile /\ NoFile # Unsaved /\ Torn # Unsaved
  /\ Wheels \in Nat \ {0}
  BY TuningAssumption DEF Accepted

LEMMA OnlyAccepted ==
  ASSUME NEW t \in Tuning, Apply(t)
  PROVE  /\ cmd' \in {"idle", "set"} /\ (cmd' = "set" => t \in Accepted)
         /\ value' = t
  BY DEF Apply, Accepted

Inv == TypeOK /\ Holding /\ WheelsAgree /\ RoundUsesOne /\ Saving /\ Told

LEMMA InitInv == Init => Inv
  BY Tunings
  DEF Init, Inv, TypeOK, Holding, WheelsAgree, Reached, RoundUsesOne, Saving, Told, Wheel,
      Thread, Contents

LEMMA CommandInv == Inv /\ Command => Inv'
<1> SUFFICES ASSUME Inv, Command PROVE Inv'
  OBVIOUS
<1> USE Tunings DEF Inv, TypeOK, Holding, WheelsAgree, Reached, RoundUsesOne, Saving,
    Told, memory, storage, Thread, Contents
<1>1. ASSUME NEW t \in Tuning, CmdPidSet(t) PROVE Inv'
  BY <1>1, OnlyAccepted DEF CmdPidSet
<1>2. CASE CmdPidResetI
  BY <1>2 DEF CmdPidResetI
<1>3. ASSUME NEW ok \in BOOLEAN, NEW lost \in BOOLEAN, CmdPidSave(ok, lost) PROVE Inv'
  BY <1>3 DEF CmdPidSave, Mount
<1>4. ASSUME NEW ok \in BOOLEAN, NEW lost \in BOOLEAN, CmdPidLoad(ok, lost) PROVE Inv'
  BY <1>4 DEF CmdPidLoad, Mount
<1>. QED
  BY <1>1, <1>2, <1>3, <1>4 DEF Command

LEMMA FileInv == Inv /\ FileStep => Inv'
<1> SUFFICES ASSUME Inv, FileStep PROVE Inv'
  OBVIOUS
<1> USE Tunings DEF Inv, TypeOK, Holding, WheelsAgree, Reached, RoundUsesOne, Saving,
    Told, memory, storage, Thread, Contents
<1>1. ASSUME NEW ok \in BOOLEAN, Open(ok) PROVE Inv'
  BY <1>1 DEF Open
<1>2. ASSUME NEW ok \in BOOLEAN, Write(ok) PROVE Inv'
  BY <1>2 DEF Write
<1>3. ASSUME NEW ok \in BOOLEAN, Close(ok) PROVE Inv'
  BY <1>3 DEF Close
<1>4. ASSUME NEW ok \in BOOLEAN, NEW through \in BOOLEAN, Sync(ok, through) PROVE Inv'
  BY <1>4 DEF Sync
<1>5. ASSUME NEW readable \in BOOLEAN, NEW t \in Tuning, Parse(readable, t)
      PROVE  Inv'
  <2>1. CASE ~readable \/ disk = NoFile
    BY <1>5, <2>1 DEF Parse
  <2>2. CASE readable /\ disk # NoFile
    <3>1. PICK u \in Tuning : Apply(u)
      BY <1>5, <2>2 DEF Parse
    <3>. QED BY <1>5, <3>1, OnlyAccepted DEF Parse
  <2>. QED BY <2>1, <2>2
<1>. QED
  BY <1>1, <1>2, <1>3, <1>4, <1>5 DEF FileStep

LEMMA MutexInv == Inv /\ (\E t \in Thread : Lock(t) \/ Unlock(t)) => Inv'
<1> SUFFICES ASSUME Inv, NEW t \in Thread, Lock(t) \/ Unlock(t) PROVE Inv'
  OBVIOUS
<1> USE Tunings DEF Inv, TypeOK, Holding, WheelsAgree, Reached, RoundUsesOne, Saving,
    Told, storage, Thread, Contents, Wheel
<1>1. CASE Lock(t)
  BY <1>1 DEF Lock, Wants
<1>2. CASE Unlock(t)
  BY <1>2 DEF Unlock, Through, After
<1>. QED
  BY <1>1, <1>2

LEMMA WheelInv ==
  Inv /\ (\/ SetWheel \/ \E t \in Thread : ResetWheel(t)
          \/ \E valid \in BOOLEAN : UpdateWheel(valid)) => Inv'
<1> USE Tunings DEF Inv, TypeOK, Holding, WheelsAgree, Reached, RoundUsesOne, Saving,
    Told, storage, Thread, Contents, Wheel, AtWheel
<1>1. ASSUME Inv, SetWheel PROVE Inv'
  BY <1>1 DEF SetWheel
<1>2. ASSUME Inv, NEW t \in Thread, ResetWheel(t) PROVE Inv'
  BY <1>2 DEF ResetWheel
<1>3. ASSUME Inv, NEW valid \in BOOLEAN, UpdateWheel(valid) PROVE Inv'
  <2>1. /\ loop = "compute" /\ owner = "chassis" /\ next["chassis"] \in 1 .. Wheels
        /\ Reached(next["chassis"])
    BY <1>3 DEF UpdateWheel
  <2>2. /\ wheel[next["chassis"]] = gains
        /\ integral[next["chassis"]] \subseteq {gains}
        /\ used \subseteq {gains}
    BY <1>3, <2>1
  <2>3. CASE ~valid
    BY <1>3, <2>1, <2>3 DEF UpdateWheel
  <2>4. CASE valid
    <3>1. /\ used' = used \cup {gains}
          /\ integral' = [integral EXCEPT ![next["chassis"]] = @ \cup {gains}]
          /\ UNCHANGED <<wheel, gains, owner, loop, cmd, value, disk, mounted, file, saved>>
          /\ next' = [next EXCEPT !["chassis"] = @ + 1]
      BY <1>3, <2>2, <2>4 DEF UpdateWheel
    <3>2. TypeOK' /\ Holding' /\ RoundUsesOne' /\ Saving' /\ Told'
      BY <1>3, <2>1, <2>2, <3>1
    <3>3. WheelsAgree'
      BY <1>3, <2>1, <2>2, <3>1
    <3>. QED
      BY <3>2, <3>3
  <2>. QED
    BY <2>3, <2>4
<1>. QED
  BY <1>1, <1>2, <1>3

LEMMA ReadInv == ASSUME Inv, NEW timeout \in BOOLEAN, ReadCommand(timeout) PROVE Inv'
  BY DEF Inv, TypeOK, Holding, WheelsAgree, Reached, RoundUsesOne, Saving, Told, storage,
     ReadCommand

LEMMA RebootInv == ASSUME Inv, NEW ok \in BOOLEAN, NEW lost \in BOOLEAN, Reboot(ok, lost) PROVE Inv'
  BY Tunings
  DEF Inv, TypeOK, Holding, WheelsAgree, Reached, RoundUsesOne, Saving, Told, Reboot, Wheel,
      Thread, Contents

LEMMA NextInv == Inv /\ [Next]_vars => Inv'
<1> SUFFICES ASSUME Inv, [Next]_vars PROVE Inv'
  OBVIOUS
<1>1. CASE Command
  BY <1>1, CommandInv
<1>2. CASE ShellStep
  BY <1>2, WheelInv, MutexInv, FileInv DEF ShellStep, Thread
<1>3. CASE ChassisStep
  BY <1>3, WheelInv, MutexInv, ReadInv DEF ChassisStep, Thread
<1>4. CASE \E t \in Thread : Lock(t)
  BY <1>4, MutexInv
<1>5. CASE \E ok, lost \in BOOLEAN : Reboot(ok, lost)
  BY <1>5, RebootInv
<1>6. CASE UNCHANGED vars
  BY <1>6
  DEF vars, memory, storage, Inv, TypeOK, Holding, WheelsAgree, Reached, RoundUsesOne, Saving, Told
<1>. QED
  BY <1>1, <1>2, <1>3, <1>4, <1>5, <1>6 DEF Next

LEMMA Invariance == Spec => []Inv
  BY InitInv, NextInv, PTL DEF Spec

(* The variables keep their types.  Of all tunings that may be typed in or *)
(* read from a torn file, only those whose limits do not compare at most   *)
(* zero get into force, into a wheel, behind an output or into the file.   *)
THEOREM TypeCorrect == Spec => []TypeOK
  BY Invariance, PTL DEF Inv

(* Between two critical sections every wheel runs with the tuning in force *)
(* and its integral stems from no other.                                   *)
THEOREM NoForeign == Spec => []NoForeignIntegral
<1>1. Inv => NoForeignIntegral
  BY DEF Inv, WheelsAgree, Reached, NoForeignIntegral
<1>. QED
  BY <1>1, Invariance, PTL

(* A tuning reported as saved is in the file, across reboots.              *)
THEOREM SaveIsTrue == Spec => []SavedMeansSaved
<1>1. Inv => SavedMeansSaved
  BY DEF Inv, Told, SavedMeansSaved
<1>. QED
  BY <1>1, Invariance, PTL

(* What is reported as saved is the tuning in force, and the file holds it.*)
THEOREM SaveIsCurrent == Spec => SavesWhatIsInForce
<1> DEFINE A == saved' # saved /\ saved' # Unsaved => saved' = gains /\ disk' = gains
<1>1. Inv /\ [Next]_vars => [A]_vars
  <2> SUFFICES ASSUME Inv, Next PROVE A
    OBVIOUS
  <2>1. ASSUME NEW through \in BOOLEAN, Close(through) PROVE A
    BY <2>1 DEF Close, Inv, Saving
  <2>2. ASSUME NEW ok \in BOOLEAN, NEW lost \in BOOLEAN,
               CmdPidSave(ok, lost) \/ CmdPidLoad(ok, lost) \/ Reboot(ok, lost) \/ Open(ok)
        PROVE  A
    BY <2>2 DEF CmdPidSave, CmdPidLoad, Mount, Reboot, Open
  <2>3. ASSUME \/ CmdPidResetI \/ SetWheel
               \/ \E t \in Tuning : CmdPidSet(t)
               \/ \E t \in Thread : Lock(t) \/ Unlock(t) \/ ResetWheel(t)
               \/ \E ok \in BOOLEAN : Write(ok) \/ UpdateWheel(ok) \/ ReadCommand(ok)
               \/ \E ok, through \in BOOLEAN : Sync(ok, through)
               \/ \E ok \in BOOLEAN, t \in Tuning : Parse(ok, t)
        PROVE  UNCHANGED saved
    BY <2>3
    DEF CmdPidResetI, SetWheel, CmdPidSet, Lock, Unlock, ResetWheel, Write, UpdateWheel,
        ReadCommand, Sync, Parse, AtWheel, storage
  <2>. QED
    BY <2>1, <2>2, <2>3 DEF Next, Command, ShellStep, ChassisStep, FileStep, Thread
<1>. QED
  BY <1>1, Invariance, PTL DEF Spec, SavesWhatIsInForce

(* The tunable controllers implement one atomic register of gains.         *)
THEOREM TuningIsARegister == Spec => RegisterSpec
<1>1. Init => Register!Init
  BY DEF Init, Register!Init
<1>2. Inv /\ [Next]_vars => [Register!Next]_Register!vars
  <2> SUFFICES ASSUME Inv, [Next]_vars PROVE [Register!Next]_Register!vars
    OBVIOUS
  <2> USE DEF Register!Next, Register!vars
  <2>1. ASSUME NEW t \in Thread, Lock(t) PROVE Register!Set \/ UNCHANGED <<gains, used>>
    BY <2>1 DEF Lock, Inv, Saving, Register!Set
  <2>2. ASSUME NEW valid \in BOOLEAN, UpdateWheel(valid)
        PROVE  Register!Drive \/ UNCHANGED <<gains, used>>
    BY <2>2 DEF UpdateWheel, AtWheel, Inv, WheelsAgree, Reached, RoundUsesOne, Register!Drive
  <2>3. ASSUME NEW timeout \in BOOLEAN, ReadCommand(timeout) PROVE Register!Drive
    BY <2>3 DEF ReadCommand, Register!Drive
  <2>4. ASSUME NEW ok \in BOOLEAN, NEW lost \in BOOLEAN, Reboot(ok, lost) PROVE Register!PowerCycle
    BY <2>4 DEF Reboot, Register!PowerCycle
  <2>5. ASSUME Command \/ FileStep PROVE UNCHANGED <<gains, used>>
    BY <2>5
    DEF Command, FileStep, CmdPidSet, CmdPidResetI, CmdPidSave, CmdPidLoad, Open, Write, Close,
        Sync, Parse, memory
  <2>6. ASSUME SetWheel \/ \E t \in Thread : ResetWheel(t) \/ Unlock(t)
        PROVE  UNCHANGED <<gains, used>>
    BY <2>6 DEF SetWheel, ResetWheel, AtWheel, Unlock
  <2>7. CASE UNCHANGED vars
    BY <2>7 DEF vars, memory
  <2>. QED
    BY <2>1, <2>2, <2>3, <2>4, <2>5, <2>6, <2>7 DEF Next, ShellStep, ChassisStep, Thread
<1>. QED
  BY <1>1, <1>2, Invariance, PTL DEF Spec, RegisterSpec, Register!Spec

-----------------------------------------------------------------------------
(* The slots in use, in the order of registration.                         *)

\* A set that holds 0 and with each number the next one holds all: among the
\* sets 0 .. k with k outside it there is no smallest one.
LEMMA NatSetInduction ==
  ASSUME NEW S, 0 \in S, \A n \in Nat : n \in S => n + 1 \in S
  PROVE  Nat \subseteq S
<1> SUFFICES ASSUME NEW n \in Nat, n \notin S PROVE FALSE
  OBVIOUS
<1> DEFINE U == 0 .. n
           R == StrictSubsetOrdering(U)
           T == {V \in SUBSET U : \E k \in U : k \notin S /\ V = 0 .. k}
<1>1. IsFiniteSet(U)
  BY FS_Interval
<1>2. IsWellFoundedOn(R, SUBSET U)
  <2>1. IsWellFoundedOn(StrictSubsetOrdering(U), FiniteSubsetsOf(U))
    BY FS_StrictSubsetOrderingWellFounded
  <2>2. FiniteSubsetsOf(U) = SUBSET U
    BY <1>1, FS_FiniteSubsetsOfFinite
  <2>. HIDE DEF U
  <2>. QED BY <2>1, <2>2
<1>3. T \subseteq SUBSET U /\ T # {}
  <2>1. U \in T
    BY n \in U
  <2>. QED BY <2>1
<1>4. PICK V \in T : \A W \in T : ~ <<W, V>> \in R
  <2>. HIDE DEF R, T, U
  <2>. QED BY <1>2, <1>3, WFMin
<1>5. PICK k \in U : k \notin S /\ V = 0 .. k
  OBVIOUS
<1>6. k # 0 /\ k - 1 \in Nat /\ k - 1 \in U
  BY <1>5
<1>7. k - 1 \notin S
  BY <1>5, <1>6
<1>8. 0 .. (k - 1) \in T
  BY <1>6, <1>7
<1>9. <<0 .. (k - 1), V>> \in R
  <2>1. 0 .. (k - 1) \subseteq V /\ 0 .. (k - 1) # V
    BY <1>5, <1>6
  <2>. QED BY <2>1, <1>8, <1>4 DEF StrictSubsetOrdering
<1>. QED BY <1>4, <1>8, <1>9

\* s lists the n slots in use.
Listing(n, s) == n \in Nat /\ s \in [1 .. n -> Slot] /\ Enumerates(s)

Ordered ==
  /\ slots \in [Slot -> [provider : Provider \cup {NoProvider},
                         priority : Priority \cup {0}, order : Nat]]
  /\ next_order \in Nat
  /\ \A i \in InUse : slots[i].order < next_order

LEMMA SlotFacts ==
  ASSUME Ordered, NEW i \in Slot
  PROVE  /\ slots[i].provider \in Provider \cup {NoProvider}
         /\ slots[i].priority \in Priority \cup {0} /\ slots[i].priority \in Int
         /\ slots[i].order \in Nat
<1>1. slots[i] \in [provider : Provider \cup {NoProvider},
                   priority : Priority \cup {0}, order : Nat]
  BY DEF Ordered
<1>2. slots[i].priority \in Priority \cup {0}
  BY <1>1
<1>3. Priority \cup {0} \subseteq Int
  BY ProvidersAssumption
<1>4. slots[i].priority \in Int
  BY <1>2, <1>3
<1>. QED BY <1>1, <1>2, <1>4

LEMMA ListingFacts ==
  ASSUME Ordered, NEW n, NEW s, Listing(n, s)
  PROVE  /\ n \in Nat /\ DOMAIN s = 1 .. n
         /\ \A k \in 1 .. n : s[k] \in InUse /\ s[k] \in Slot /\ slots[s[k]].order \in Nat
         /\ \A i \in InUse : \E k \in 1 .. n : s[k] = i
         /\ \A k, l \in 1 .. n : k < l => slots[s[k]].order < slots[s[l]].order
         /\ \A k, l \in 1 .. n : s[k] = s[l] => k = l
<1>1. n \in Nat /\ DOMAIN s = 1 .. n
  BY DEF Listing
<1>2. \A k \in 1 .. n : s[k] \in InUse /\ s[k] \in Slot /\ slots[s[k]].order \in Nat
  BY <1>1 DEF Listing, Enumerates, InUse, Ordered
<1>3. \A i \in InUse : \E k \in 1 .. n : s[k] = i
  BY <1>1 DEF Listing, Enumerates
<1>4. \A k, l \in 1 .. n : k < l => slots[s[k]].order < slots[s[l]].order
  BY <1>1 DEF Listing, Enumerates
<1>5. \A k, l \in 1 .. n : s[k] = s[l] => k = l
  <2>1. \A k, l \in 1 .. n : k < l => s[k] # s[l]
    BY <1>2, <1>4
  <2>. QED BY <2>1, <1>1
<1>. QED BY <1>1, <1>2, <1>3, <1>4, <1>5

LEMMA AgreeSoFar ==
  ASSUME Ordered, NEW m, NEW s, Listing(m, s), NEW n, NEW t, Listing(n, t), NEW k \in Nat, k < m,
         k <= n, \A i \in 1 .. k : s[i] = t[i]
  PROVE  k + 1 <= n /\ s[k + 1] = t[k + 1]
<1>1. m \in Nat /\ n \in Nat /\ k + 1 \in 1 .. m
  BY ListingFacts
<1>2. PICK j \in 1 .. n : t[j] = s[k + 1]
  <2>1. s[k + 1] \in InUse
    BY <1>1, ListingFacts
  <2>2. \A i \in InUse : \E j \in 1 .. n : t[j] = i
    BY ListingFacts
  <2>. QED BY <2>1, <2>2
<1>3. k < j
  <2>1. SUFFICES ASSUME j <= k PROVE FALSE
    BY <1>1
  <2>2. s[j] = s[k + 1] /\ j \in 1 .. m
    BY <2>1, <1>1, <1>2
  <2>. QED BY <2>1, <2>2, <1>1, ListingFacts
<1>4. j = k + 1
  <2>1. SUFFICES ASSUME k + 1 < j PROVE FALSE
    BY <1>1, <1>3
  <2>2. k + 1 \in 1 .. n /\ t[k + 1] \in InUse
    BY <2>1, <1>1, ListingFacts
  <2>3. PICK i \in 1 .. m : s[i] = t[k + 1]
    BY <2>2, ListingFacts
  <2>4. k < i
    <3>1. SUFFICES ASSUME i <= k PROVE FALSE
      BY <1>1
    <3>2. t[i] = t[k + 1] /\ i \in 1 .. n
      BY <3>1, <1>1, <2>3
    <3>. QED BY <3>1, <3>2, <2>2, ListingFacts
  <2>5. slots[t[k + 1]].order < slots[t[j]].order
    BY <2>1, <2>2, ListingFacts
  <2>6. k + 1 < i => slots[s[k + 1]].order < slots[s[i]].order
    BY <1>1, ListingFacts
  <2>7. slots[t[k + 1]].order \in Nat /\ slots[t[j]].order \in Nat
    BY <2>2, ListingFacts
  <2>. QED BY <1>1, <1>2, <2>3, <2>4, <2>5, <2>6, <2>7
<1>. QED BY <1>1, <1>2, <1>4

LEMMA NotLonger ==
  ASSUME Ordered, NEW m, NEW s, Listing(m, s), NEW n, NEW t, Listing(n, t)
  PROVE  m <= n /\ \A k \in 1 .. m : s[k] = t[k]
<1>. DEFINE S == {k \in Nat : k <= m => k <= n /\ \A i \in 1 .. k : s[i] = t[i]}
<1>1. m \in Nat /\ n \in Nat
  BY ListingFacts
<1>2. 0 \in S
  BY <1>1
<1>3. ASSUME NEW k \in Nat, k \in S PROVE k + 1 \in S
  <2>1. k + 1 <= m => k + 1 <= n /\ s[k + 1] = t[k + 1] /\ \A i \in 1 .. k : s[i] = t[i]
    BY <1>1, <1>3, AgreeSoFar
  <2>. QED BY <2>1
<1>4. Nat \subseteq S
  <2>. HIDE DEF S
  <2>. QED BY <1>2, <1>3, NatSetInduction
<1>. QED BY <1>1, <1>4

\* There is one such list, and it is no longer than the table.
LEMMA OneListing ==
  ASSUME Ordered, NEW m, NEW s, Listing(m, s), NEW n, NEW t, Listing(n, t)
  PROVE  m = n /\ s = t
<1>1. m <= n /\ n <= m /\ \A k \in 1 .. m : s[k] = t[k]
  BY NotLonger
<1>2. m = n
  BY <1>1, ListingFacts
<1>. QED BY <1>1, <1>2 DEF Listing

LEMMA ListingFits ==
  ASSUME Ordered, NEW n, NEW s, Listing(n, s)
  PROVE  n \in 0 .. kMaxProviders
<1>1. s \in Injection(1 .. n, Slot)
  <2>1. s \in [1 .. n -> Slot]
    BY DEF Listing
  <2>2. \A k, l \in 1 .. n : s[k] = s[l] => k = l
    BY ListingFacts
  <2>. QED BY <2>1, <2>2 DEF Injection, IsInjective
<1>2. IsFiniteSet(Slot) /\ Cardinality(Slot) = kMaxProviders
  BY ProvidersAssumption, FS_Interval DEF Slot
<1>3. Cardinality(1 .. n) = n /\ n \in Nat
  BY FS_Interval, ListingFacts
<1>4. Cardinality(1 .. n) <= Cardinality(Slot)
  BY <1>1, <1>2, FS_Injection
<1>. QED BY <1>2, <1>3, <1>4, ProvidersAssumption

LEMMA ByOrderLists ==
  ASSUME Ordered, NEW n, NEW s, Listing(n, s)
  PROVE  ByOrder = s
<1>. DEFINE All == UNION {[1 .. m -> Slot] : m \in 0 .. kMaxProviders}
<1>1. s \in All /\ Enumerates(s)
  BY ListingFits DEF Listing
<1>2. ASSUME NEW t \in All, Enumerates(t) PROVE t = s
  <2>1. PICK m \in 0 .. kMaxProviders : t \in [1 .. m -> Slot]
    BY <1>2
  <2>2. Listing(m, t)
    BY <1>2, <2>1, ProvidersAssumption DEF Listing
  <2>. QED BY <2>2, OneListing
<1>3. ByOrder = CHOOSE t \in All : Enumerates(t)
  BY DEF ByOrder
<1>. HIDE DEF All
<1>. QED BY <1>1, <1>2, <1>3

-----------------------------------------------------------------------------
(* The active provider.                                                    *)

\* The first of the greatest.
FirstGreatest(p, m, k) ==
  \A j \in 1 .. m : p[j] < p[k] \/ (p[j] = p[k] /\ k <= j)

LEMMA SomeIsGreatest ==
  ASSUME NEW n \in Nat, 0 < n, NEW p \in [1 .. n -> Int]
  PROVE  \E k \in 1 .. n : FirstGreatest(p, n, k)
<1>. DEFINE S == {m \in Nat : 0 < m /\ m <= n => \E k \in 1 .. m : FirstGreatest(p, m, k)}
<1>1. 0 \in S
  OBVIOUS
<1>2. ASSUME NEW m \in Nat, m \in S PROVE m + 1 \in S
  <2>1. SUFFICES ASSUME m + 1 <= n PROVE \E k \in 1 .. m + 1 : FirstGreatest(p, m + 1, k)
    OBVIOUS
  <2>2. CASE m = 0
    <3>1. FirstGreatest(p, 1, 1)
      BY <2>1 DEF FirstGreatest
    <3>. QED BY <2>2, <3>1
  <2>3. CASE 0 < m
    <3>1. PICK k \in 1 .. m : FirstGreatest(p, m, k)
      BY <1>2, <2>1, <2>3
    <3>2. p[k] \in Int /\ p[m + 1] \in Int /\ \A j \in 1 .. m : p[j] \in Int
      BY <2>1
    <3>3. CASE p[k] < p[m + 1]
      <4>1. FirstGreatest(p, m + 1, m + 1)
        BY <3>1, <3>2, <3>3 DEF FirstGreatest
      <4>. QED BY <4>1
    <3>4. CASE p[m + 1] <= p[k]
      <4>1. FirstGreatest(p, m + 1, k)
        BY <3>1, <3>2, <3>4 DEF FirstGreatest
      <4>. QED BY <4>1
    <3>. QED BY <3>2, <3>3, <3>4
  <2>. QED BY <2>2, <2>3
<1>3. Nat \subseteq S
  <2>. HIDE DEF S
  <2>. QED BY <1>1, <1>2, NatSetInduction
<1>. QED BY <1>3

LEMMA OneIsGreatest ==
  ASSUME NEW n \in Nat, NEW p \in [1 .. n -> Int], NEW k \in 1 .. n, NEW l \in 1 .. n,
         FirstGreatest(p, n, k), FirstGreatest(p, n, l)
  PROVE  k = l
  BY DEF FirstGreatest

AnyRow == [provider : Provider, priority : Int]

Priorities(s) == [k \in DOMAIN s |-> slots[s[k]].priority]

LEMMA PrioritiesType ==
  ASSUME Ordered, NEW n, NEW s, Listing(n, s)
  PROVE  Priorities(s) \in [1 .. n -> Int] /\ n \in Nat
<1>1. n \in Nat /\ DOMAIN s = 1 .. n /\ \A k \in 1 .. n : s[k] \in Slot
  BY ListingFacts
<1>2. \A i \in Slot : slots[i].priority \in Int
  BY SlotFacts
<1>. QED BY <1>1, <1>2 DEF Priorities

\* The first of the greatest priority is the slot that is looked for.
LEMMA GreatestIsActive ==
  ASSUME Ordered, NEW n, NEW s, Listing(n, s), NEW k \in 1 .. n, FirstGreatest(Priorities(s), n, k)
  PROVE  FindActiveSlotLocked = {s[k]}
<1>1. /\ n \in Nat /\ DOMAIN s = 1 .. n
      /\ \A l \in 1 .. n : s[l] \in InUse /\ slots[s[l]].order \in Nat
      /\ \A i \in InUse : \E l \in 1 .. n : s[l] = i
      /\ \A l, j \in 1 .. n : l < j => slots[s[l]].order < slots[s[j]].order
  BY ListingFacts
<1>2. \A l \in 1 .. n : Priorities(s)[l] = slots[s[l]].priority /\ slots[s[l]].priority \in Int
  BY <1>1, PrioritiesType DEF Priorities
<1>3. \A l \in 1 .. n : \/ s[l] = s[k]
                        \/ slots[s[k]].priority > slots[s[l]].priority
                        \/ /\ slots[s[k]].priority = slots[s[l]].priority
                           /\ slots[s[k]].order < slots[s[l]].order
  BY <1>1, <1>2 DEF FirstGreatest
<1>4. s[k] \in FindActiveSlotLocked
  BY <1>1, <1>3 DEF FindActiveSlotLocked
<1>5. ASSUME NEW i \in FindActiveSlotLocked, i # s[k] PROVE FALSE
  <2>1. i \in InUse /\ s[k] \in InUse
    BY <1>1 DEF FindActiveSlotLocked
  <2>2. \/ slots[i].priority > slots[s[k]].priority
        \/ slots[i].priority = slots[s[k]].priority /\ slots[i].order < slots[s[k]].order
    BY <2>1, <1>5 DEF FindActiveSlotLocked
  <2>3. PICK l \in 1 .. n : s[l] = i
    BY <1>1, <2>1
  <2>. QED BY <1>1, <1>2, <1>3, <1>5, <2>2, <2>3
<1>. QED BY <1>4, <1>5

LEMMA ListedIs ==
  ASSUME Ordered, NEW n, NEW s, Listing(n, s)
  PROVE  /\ DOMAIN Listed = 1 .. n /\ Listed = [k \in 1 .. n |-> Row(s[k])]
         /\ \A k \in 1 .. n : Listed[k] = Row(s[k])
         /\ Listed \in Seq(AnyRow) /\ Len(Listed) = n
<1>1. ByOrder = s /\ DOMAIN s = 1 .. n /\ n \in Nat
  BY ByOrderLists, ListingFacts
<1>2. Listed = [k \in 1 .. n |-> Row(s[k])]
  BY <1>1 DEF Listed
<1>3. \A k \in 1 .. n : Row(s[k]) \in AnyRow
  <2>1. ASSUME NEW k \in 1 .. n PROVE Row(s[k]) \in AnyRow
    <3>1. s[k] \in InUse /\ s[k] \in Slot
      BY ListingFacts
    <3>. QED BY <3>1, SlotFacts DEF Row, AnyRow, InUse
  <2>. QED BY <2>1
<1>. QED BY <1>1, <1>2, <1>3

LEMMA ActiveIsBest ==
  ASSUME Ordered, NEW n, NEW s, Listing(n, s)
  PROVE  [provider |-> Active.provider, priority |-> Active.priority] = List!Best
<1>1. /\ n \in Nat /\ DOMAIN s = 1 .. n
      /\ \A k \in 1 .. n : s[k] \in InUse
      /\ \A i \in InUse : \E k \in 1 .. n : s[k] = i
  BY ListingFacts
<1>2. /\ DOMAIN Listed = 1 .. n /\ Listed \in Seq(AnyRow) /\ Len(Listed) = n
      /\ \A k \in 1 .. n : Listed[k] = Row(s[k])
  BY ListedIs
<1>3. CASE n = 0
  <2>1. InUse = {}
    BY <1>1, <1>3
  <2>2. Active = Free
    BY <2>1 DEF Active, FindActiveSlotLocked
  <2>3. Listed = <<>>
    BY <1>2, <1>3
  <2>. QED BY <2>2, <2>3 DEF List!Best, List!Nobody, Free
<1>4. CASE 0 < n
  <2>1. Priorities(s) \in [1 .. n -> Int]
    BY PrioritiesType
  <2>2. PICK k \in 1 .. n : FirstGreatest(Priorities(s), n, k)
    BY <1>1, <1>4, <2>1, SomeIsGreatest
  <2>3. Active = slots[s[k]]
    <3>1. FindActiveSlotLocked = {s[k]}
      BY <2>2, GreatestIsActive
    <3>. QED BY <3>1 DEF Active
  <2>4. Listed # <<>>
    BY <1>2, <1>4
  <2>. DEFINE IsBest(e, i) == /\ e = Listed[i]
                              /\ \A j \in DOMAIN Listed :
                                   \/ Listed[j].priority < e.priority
                                   \/ Listed[j].priority = e.priority /\ i <= j
              All == {Listed[i] : i \in DOMAIN Listed}
  <2>5. \A i \in 1 .. n : Listed[i].priority = Priorities(s)[i]
    BY <1>1, <1>2 DEF Row, Priorities
  <2>6. ASSUME NEW i \in 1 .. n
        PROVE  IsBest(Listed[i], i) <=> FirstGreatest(Priorities(s), n, i)
    BY <1>2, <2>5 DEF FirstGreatest
  <2>7. Listed[k] \in All /\ IsBest(Listed[k], k) /\ k \in DOMAIN Listed
    BY <1>2, <2>2, <2>6
  <2>8. ASSUME NEW e \in All, NEW i \in DOMAIN Listed, IsBest(e, i) PROVE e = Listed[k]
    <3>1. i \in 1 .. n /\ e = Listed[i]
      BY <1>2, <2>8
    <3>2. FirstGreatest(Priorities(s), n, i)
      BY <3>1, <2>6, <2>8
    <3>3. i = k
      BY <1>1, <2>1, <2>2, <3>1, <3>2, OneIsGreatest
    <3>. QED BY <3>1, <3>3
  <2>9. List!Best = CHOOSE e \in All : \E i \in DOMAIN Listed : IsBest(e, i)
    BY <2>4 DEF List!Best
  <2>10. List!Best = Listed[k]
    <3>. HIDE DEF All, IsBest
    <3>. QED BY <2>7, <2>8, <2>9
  <2>. QED BY <1>2, <2>3, <2>10 DEF Row
<1>. QED BY <1>1, <1>3, <1>4

-----------------------------------------------------------------------------
(* Registering and unregistering.                                          *)

LEMMA IsAppend ==
  ASSUME NEW R, NEW a \in Seq(R), NEW e \in R, NEW w \in Seq(R), Len(w) = Len(a) + 1,
         \A k \in 1 .. Len(a) : w[k] = a[k], w[Len(a) + 1] = e
  PROVE  w = Append(a, e)
<1>1. PICK v : v = Append(a, e)
  OBVIOUS
<1>2. /\ v \in Seq(R) /\ Len(v) = Len(a) + 1 /\ v[Len(a) + 1] = e
      /\ \A k \in 1 .. Len(a) : v[k] = a[k]
  BY <1>1, AppendProperties
<1>3. \A k \in 1 .. Len(w) : w[k] = v[k]
  BY <1>2, Len(a) \in Nat
<1>4. w = v
  BY <1>2, <1>3, SeqEqual
<1>. QED BY <1>1, <1>4, Zenon

LEMMA IsRemoval ==
  ASSUME NEW R, NEW a \in Seq(R), NEW k \in 1 .. Len(a), NEW w \in Seq(R), Len(w) = Len(a) - 1,
         \A j \in 1 .. Len(w) : w[j] = IF j < k THEN a[j] ELSE a[j + 1]
  PROVE  w = SubSeq(a, 1, k - 1) \o SubSeq(a, k + 1, Len(a))
<1>1. PICK b : b = SubSeq(a, 1, k - 1)
  OBVIOUS
<1>2. PICK c : c = SubSeq(a, k + 1, Len(a))
  OBVIOUS
<1>3. PICK v : v = b \o c
  OBVIOUS
<1>. Len(a) \in Nat /\ k \in Nat
  OBVIOUS
<1>4. \A j \in 1 .. Len(a) : a[j] \in R
  OBVIOUS
<1>5. b \in Seq(R) /\ Len(b) = k - 1 /\ \A j \in 1 .. k - 1 : b[j] = a[j]
  <2>1. \A j \in 1 .. (k - 1) : a[j] \in R
    BY <1>4
  <2>2. /\ b \in Seq(R) /\ Len(b) = IF 1 <= k - 1 THEN k - 1 - 1 + 1 ELSE 0
        /\ \A j \in 1 .. k - 1 - 1 + 1 : b[j] = a[1 + j - 1]
    BY <1>1, <2>1, SubSeqProperties
  <2>. QED BY <2>2
<1>6. c \in Seq(R) /\ Len(c) = Len(a) - k /\ \A j \in 1 .. Len(a) - k : c[j] = a[k + j]
  <2>1. \A j \in k + 1 .. Len(a) : a[j] \in R
    BY <1>4
  <2>2. /\ c \in Seq(R)
        /\ Len(c) = IF k + 1 <= Len(a) THEN Len(a) - (k + 1) + 1 ELSE 0
        /\ \A j \in 1 .. Len(a) - (k + 1) + 1 : c[j] = a[(k + 1) + j - 1]
    BY <1>2, <2>1, SubSeqProperties
  <2>3. Len(c) = Len(a) - k
    BY <2>2
  <2>4. \A j \in 1 .. Len(a) - k : j \in 1 .. Len(a) - (k + 1) + 1 /\ (k + 1) + j - 1 = k + j
    OBVIOUS
  <2>5. \A j \in 1 .. Len(a) - k : c[j] = a[k + j]
    BY <2>2, <2>4
  <2>. QED BY <2>2, <2>3, <2>5
<1>7. /\ v \in Seq(R) /\ Len(v) = Len(b) + Len(c)
      /\ \A j \in 1 .. Len(b) + Len(c) : v[j] = IF j <= Len(b) THEN b[j] ELSE c[j - Len(b)]
  BY <1>3, <1>5, <1>6, ConcatProperties
<1>8. ASSUME NEW j \in 1 .. Len(w) PROVE w[j] = v[j]
  <2>1. j \in 1 .. Len(b) + Len(c) /\ j \in Nat
    BY <1>5, <1>6
  <2>2. CASE j < k
    <3>1. v[j] = b[j] /\ j \in 1 .. k - 1
      BY <1>5, <1>7, <2>1, <2>2
    <3>. QED BY <1>5, <2>2, <3>1
  <2>3. CASE k <= j
    <3>1. v[j] = c[j - (k - 1)] /\ j - (k - 1) \in 1 .. Len(a) - k
      BY <1>5, <1>6, <1>7, <2>1, <2>3
    <3>2. c[j - (k - 1)] = a[k + (j - (k - 1))]
      BY <1>6, <3>1
    <3>3. k + (j - (k - 1)) = j + 1
      BY <2>1
    <3>4. w[j] = a[j + 1]
      BY <2>1, <2>3
    <3>. QED BY <3>1, <3>2, <3>3, <3>4
  <2>. QED BY <2>1, <2>2, <2>3
<1>9. Len(w) = Len(v)
  BY <1>5, <1>6, <1>7
<1>10. w = v
  BY <1>7, <1>8, <1>9, SeqEqual
<1>. QED BY <1>1, <1>2, <1>3, <1>10, Zenon

ListedAsIs ==
  \A n \in Nat : \A s \in [1 .. n -> Slot] :
    Ordered /\ Listing(n, s) =>
      /\ DOMAIN Listed = 1 .. n /\ Listed \in Seq(AnyRow) /\ Len(Listed) = n
      /\ \A k \in 1 .. n : Listed[k] = Row(s[k])

LEMMA ListedNext == ListedAsIs'
<1>1. ListedAsIs
  BY ListedIs DEF ListedAsIs
<1>. QED BY <1>1, PTL

\* In the step to come, a list is known from what it enumerates.
LEMMA ListedThen ==
  ASSUME Ordered', NEW n \in Nat, NEW s \in [1 .. n -> Slot], Listing(n, s)'
  PROVE  /\ Listed' \in Seq(AnyRow) /\ Len(Listed') = n
         /\ \A k \in 1 .. n : Listed'[k] = [provider |-> slots'[s[k]].provider,
                                            priority |-> slots'[s[k]].priority]
<1>1. ListedAsIs'
  BY ListedNext
<1>. QED BY <1>1 DEF ListedAsIs, Row

HasListing == \E s \in [1 .. count -> Slot] : Listing(count, s)

LEMMA Joined ==
  ASSUME Ordered, NEW s, Listing(count, s), NEW p \in Provider, NEW pr \in Priority,
         RegisterProvider(p, pr), FindSlotByProviderLocked(p) = {}
  PROVE  Ordered' /\ HasListing' /\ List!Join
<1>. PICK n : n = count
  OBVIOUS
<1>1. PICK i \in FindFreeSlotLocked :
        slots' = [slots EXCEPT ![i] = [provider |-> p, priority |-> pr, order |-> next_order]]
  BY DEF RegisterProvider
<1>2. /\ count' = n + 1 /\ next_order' = next_order + 1 /\ next_order \in Nat
      /\ UNCHANGED <<chosen, told>>
  BY DEF RegisterProvider, Ordered
<1>3. i \in Slot /\ i \notin InUse /\ p # NoProvider
  BY ProvidersAssumption DEF FindFreeSlotLocked
<1>4. /\ n \in Nat /\ DOMAIN s = 1 .. n
      /\ \A k \in 1 .. n : s[k] \in InUse /\ s[k] \in Slot /\ slots[s[k]].order \in Nat
      /\ \A j \in InUse : \E k \in 1 .. n : s[k] = j
      /\ \A k, l \in 1 .. n : k < l => slots[s[k]].order < slots[s[l]].order
  BY ListingFacts
<1>5. DOMAIN slots = Slot
  BY DEF Ordered
<1>6. /\ slots'[i] = [provider |-> p, priority |-> pr, order |-> next_order]
      /\ \A j \in Slot : j # i => slots'[j] = slots[j]
  BY <1>1, <1>3, <1>5
<1>7. InUse' = InUse \cup {i}
  BY <1>3, <1>6 DEF InUse
<1>8. Ordered'
  <2>1. slots' \in [Slot -> [provider : Provider \cup {NoProvider},
                             priority : Priority \cup {0}, order : Nat]]
    BY <1>1, <1>2, <1>3 DEF Ordered
  <2>2. \A j \in InUse : j \in Slot /\ slots[j].order \in Nat /\ slots[j].order < next_order
    BY SlotFacts DEF Ordered, InUse
  <2>3. \A j \in InUse' : slots'[j].order < next_order'
    BY <1>2, <1>3, <1>6, <1>7, <2>2
  <2>. QED BY <1>2, <2>1, <2>3 DEF Ordered
<1>. PICK m : m = n + 1
  OBVIOUS
<1>. PICK t : t = [k \in 1 .. m |-> IF k = m THEN i ELSE s[k]]
  OBVIOUS
<1>9. t \in [1 .. m -> Slot] /\ DOMAIN t = 1 .. m /\ t[m] = i /\ \A k \in 1 .. n : t[k] = s[k]
  BY <1>3, <1>4
<1>10. Listing(m, t)'
  <2>1. \A k \in 1 .. m : k \in 1 .. n \/ k = m
    BY <1>4
  <2>2. {t[k] : k \in DOMAIN t} = InUse'
    <3>1. \A k \in 1 .. m : t[k] \in InUse'
      BY <1>4, <1>7, <1>9, <2>1
    <3>2. \A k \in 1 .. n : k \in 1 .. m
      BY <1>4
    <3>3. m \in 1 .. m
      BY <1>4
    <3>4. \A j \in InUse' : \E k \in 1 .. m : t[k] = j
      BY <1>4, <1>7, <1>9, <3>2, <3>3
    <3>. QED BY <1>9, <3>1, <3>4
  <2>3. ASSUME NEW k \in 1 .. m, NEW l \in 1 .. m, k < l
        PROVE  slots'[t[k]].order < slots'[t[l]].order
    <3>1. k \in 1 .. n /\ s[k] \in InUse /\ s[k] # i /\ t[k] = s[k] /\ slots'[t[k]] = slots[s[k]]
      BY <1>3, <1>4, <1>6, <1>9, <2>3
    <3>2. CASE l = m
      <4>1. slots[s[k]].order < next_order
        BY <3>1 DEF Ordered
      <4>. QED BY <1>6, <1>9, <3>1, <3>2, <4>1
    <3>3. CASE l \in 1 .. n
      BY <1>3, <1>4, <1>6, <1>9, <2>3, <3>1, <3>3
    <3>. QED BY <2>1, <3>2, <3>3
  <2>4. Enumerates(t)'
    BY <1>9, <2>2, <2>3 DEF Enumerates
  <2>. QED BY <1>4, <1>9, <2>4 DEF Listing
<1>11. List!Join
  <2>. DEFINE e == [provider |-> p, priority |-> pr]
  <2>1. /\ Listed \in Seq(AnyRow) /\ Len(Listed) = n /\ DOMAIN Listed = 1 .. n
        /\ \A k \in 1 .. n : Listed[k] = Row(s[k])
    BY ListedIs
  <2>2. /\ Listed' \in Seq(AnyRow) /\ Len(Listed') = m
        /\ \A k \in 1 .. m : Listed'[k] = [provider |-> slots'[t[k]].provider,
                                           priority |-> slots'[t[k]].priority]
    BY <1>4, <1>8, <1>9, <1>10, ListedThen
  <2>3. e \in AnyRow /\ e \in List!Entry
    BY ProvidersAssumption DEF AnyRow, List!Entry
  <2>4. ASSUME NEW k \in 1 .. n PROVE Listed'[k] = Listed[k]
    <3>1. k \in 1 .. m /\ t[k] = s[k] /\ slots'[s[k]] = slots[s[k]]
      BY <1>3, <1>4, <1>6, <1>9
    <3>. QED BY <2>1, <2>2, <3>1 DEF Row
  <2>5. Listed'[m] = e
    BY <1>4, <1>6, <1>9, <2>2
  <2>6. Listed' = Append(Listed, e)
    <3>. HIDE DEF e
    <3>. QED BY <1>4, <2>1, <2>2, <2>3, <2>4, <2>5, IsAppend
  <2>7. \A k \in DOMAIN Listed : Listed[k].provider # e.provider
    <3>1. \A j \in Slot : slots[j].provider # p
      BY DEF FindSlotByProviderLocked
    <3>2. \A k \in 1 .. n : Listed[k].provider = slots[s[k]].provider
      BY <2>1 DEF Row
    <3>. QED BY <1>4, <2>1, <3>1, <3>2
  <2>. QED BY <1>2, <2>3, <2>6, <2>7, Zenon DEF List!Join
<1>12. HasListing'
  BY <1>2, <1>10 DEF HasListing, Listing
<1>. QED BY <1>8, <1>11, <1>12

LEMMA Changed ==
  ASSUME Ordered, NEW s, Listing(count, s), NEW p \in Provider, NEW pr \in Priority,
         RegisterProvider(p, pr), FindSlotByProviderLocked(p) # {}
  PROVE  Ordered' /\ HasListing' /\ List!Change
<1>. PICK n : n = count
  OBVIOUS
<1>1. PICK i \in FindSlotByProviderLocked(p) : slots' = [slots EXCEPT ![i].priority = pr]
  BY DEF RegisterProvider
<1>2. count' = n /\ next_order' = next_order /\ UNCHANGED <<chosen, told>>
  BY DEF RegisterProvider
<1>3. i \in Slot /\ i \in InUse
  BY ProvidersAssumption DEF FindSlotByProviderLocked, InUse
<1>4. /\ n \in Nat /\ DOMAIN s = 1 .. n /\ s \in [1 .. n -> Slot] /\ Enumerates(s)
      /\ \A k \in 1 .. n : s[k] \in InUse /\ s[k] \in Slot
      /\ \A j \in InUse : \E k \in 1 .. n : s[k] = j
      /\ \A k, l \in 1 .. n : s[k] = s[l] => k = l
  BY ListingFacts DEF Listing
<1>5. \A j \in Slot : slots[j] \in [provider : Provider \cup {NoProvider},
                                    priority : Priority \cup {0}, order : Nat]
  BY DEF Ordered
<1>6. /\ DOMAIN slots = Slot /\ slots'[i] = [slots[i] EXCEPT !.priority = pr]
      /\ \A j \in Slot : j # i => slots'[j] = slots[j]
  BY <1>1, <1>3 DEF Ordered
<1>7. /\ slots'[i].priority = pr
      /\ \A j \in Slot : /\ slots'[j].provider = slots[j].provider
                         /\ slots'[j].order = slots[j].order
  BY <1>3, <1>5, <1>6
<1>8. InUse' = InUse
  BY <1>7 DEF InUse
<1>9. Ordered'
  <2>1. slots' \in [Slot -> [provider : Provider \cup {NoProvider},
                             priority : Priority \cup {0}, order : Nat]]
    BY <1>1, <1>3, <1>5 DEF Ordered
  <2>2. \A j \in InUse' : slots'[j].order < next_order'
    BY <1>2, <1>7, <1>8 DEF Ordered, InUse
  <2>. QED BY <1>2, <2>1, <2>2 DEF Ordered
<1>10. Listing(n, s)'
  <2>1. Enumerates(s)'
    BY <1>4, <1>7, <1>8 DEF Enumerates
  <2>. QED BY <1>4, <2>1 DEF Listing
<1>11. List!Change
  <2>1. /\ Listed \in Seq(AnyRow) /\ Len(Listed) = n /\ DOMAIN Listed = 1 .. n
        /\ \A k \in 1 .. n : Listed[k] = Row(s[k])
    BY ListedIs
  <2>2. /\ Listed' \in Seq(AnyRow) /\ Len(Listed') = n
        /\ \A k \in 1 .. n : Listed'[k] = [provider |-> slots'[s[k]].provider,
                                           priority |-> slots'[s[k]].priority]
    BY <1>4, <1>9, <1>10, ListedThen
  <2>3. PICK k \in 1 .. n : s[k] = i
    BY <1>3, <1>4
  <2>. DEFINE w == [Listed EXCEPT ![k].priority = pr]
  <2>4. /\ w \in Seq(AnyRow) /\ Len(w) = n
        /\ \A l \in 1 .. n : w[l] = IF l = k THEN [Listed[k] EXCEPT !.priority = pr] ELSE Listed[l]
    <3>1. Listed[k] \in AnyRow
      BY <2>1
    <3>2. [Listed[k] EXCEPT !.priority = pr] \in AnyRow
      BY <3>1, ProvidersAssumption DEF AnyRow
    <3>3. w = [Listed EXCEPT ![k] = [Listed[k] EXCEPT !.priority = pr]]
      BY <2>1
    <3>. HIDE DEF w
    <3>. QED BY <2>1, <3>2, <3>3, ExceptSeq
  <2>. HIDE DEF w
  <2>5. ASSUME NEW l \in 1 .. n PROVE Listed'[l] = w[l]
    <3>1. CASE l = k
      BY <1>3, <1>7, <2>1, <2>2, <2>3, <2>4, <3>1 DEF Row
    <3>2. CASE l # k
      <4>1. s[l] # i /\ s[l] \in Slot
        BY <1>4, <2>3, <3>2
      <4>. QED BY <1>6, <2>1, <2>2, <2>4, <3>2, <4>1 DEF Row
    <3>. QED BY <3>1, <3>2
  <2>6. Listed' = w
    BY <2>2, <2>4, <2>5, SeqEqual
  <2>. QED BY <1>2, <2>1, <2>6 DEF List!Change, w
<1>12. HasListing'
  BY <1>2, <1>4, <1>10 DEF HasListing
<1>. QED BY <1>9, <1>11, <1>12

LEMMA Left ==
  ASSUME Ordered, NEW s, Listing(count, s), NEW p \in Provider, UnregisterProvider(p)
  PROVE  Ordered' /\ HasListing' /\ List!Leave
<1>. PICK n : n = count
  OBVIOUS
<1>1. PICK i \in FindSlotByProviderLocked(p) : slots' = [slots EXCEPT ![i] = Free]
  BY DEF UnregisterProvider
<1>2. /\ count' = IF n > 0 THEN n - 1 ELSE 0
      /\ next_order' = next_order /\ UNCHANGED <<chosen, told>>
  BY DEF UnregisterProvider
<1>3. i \in Slot /\ i \in InUse
  BY ProvidersAssumption DEF FindSlotByProviderLocked, InUse
<1>4. /\ n \in Nat /\ DOMAIN s = 1 .. n /\ s \in [1 .. n -> Slot]
      /\ \A k \in 1 .. n : s[k] \in InUse /\ s[k] \in Slot /\ slots[s[k]].order \in Nat
      /\ \A j \in InUse : \E k \in 1 .. n : s[k] = j
      /\ \A k, l \in 1 .. n : k < l => slots[s[k]].order < slots[s[l]].order
      /\ \A k, l \in 1 .. n : s[k] = s[l] => k = l
  BY ListingFacts DEF Listing
<1>5. /\ DOMAIN slots = Slot /\ slots'[i] = Free
      /\ \A j \in Slot : j # i => slots'[j] = slots[j]
  BY <1>1, <1>3 DEF Ordered
<1>6. InUse' = InUse \ {i}
  BY <1>3, <1>5 DEF InUse, Free
<1>7. Ordered'
  <2>1. slots' \in [Slot -> [provider : Provider \cup {NoProvider},
                             priority : Priority \cup {0}, order : Nat]]
    <3>1. Free \in [provider : Provider \cup {NoProvider},
                    priority : Priority \cup {0}, order : Nat]
      BY DEF Free
    <3>. QED BY <1>1, <3>1 DEF Ordered
  <2>2. \A j \in InUse' : slots'[j].order < next_order'
    BY <1>2, <1>5, <1>6 DEF Ordered, InUse
  <2>. QED BY <1>2, <2>1, <2>2 DEF Ordered
<1>8. PICK k \in 1 .. n : s[k] = i
  BY <1>3, <1>4
<1>. PICK m : m = n - 1
  OBVIOUS
<1>. PICK t : t = [j \in 1 .. m |-> IF j < k THEN s[j] ELSE s[j + 1]]
  OBVIOUS
<1>9. m \in Nat /\ count' = m /\ n = m + 1
  BY <1>2, <1>4
<1>10. \A j \in 1 .. m : j \in 1 .. n /\ j + 1 \in 1 .. n
  BY <1>4, <1>9
<1>11. /\ t \in [1 .. m -> Slot] /\ DOMAIN t = 1 .. m
       /\ \A j \in 1 .. m : j < k => t[j] = s[j]
       /\ \A j \in 1 .. m : k <= j => t[j] = s[j + 1]
  <2>1. \A j \in 1 .. m : (IF j < k THEN s[j] ELSE s[j + 1]) \in Slot
    BY <1>4, <1>10
  <2>2. \A j \in 1 .. m : k <= j => ~(j < k)
    BY <1>4
  <2>. QED BY <2>1, <2>2
<1>12. \A j \in 1 .. m : t[j] \in InUse /\ t[j] # i /\ slots'[t[j]] = slots[t[j]]
  <2>1. ASSUME NEW j \in 1 .. m PROVE t[j] \in InUse /\ t[j] # i
    <3>1. CASE j < k
      BY <1>4, <1>8, <1>10, <1>11, <3>1
    <3>2. CASE k <= j
      <4>1. j + 1 # k /\ j + 1 \in 1 .. n /\ t[j] = s[j + 1]
        BY <1>4, <1>10, <1>11, <3>2
      <4>. QED BY <1>4, <1>8, <4>1
    <3>. QED BY <1>4, <3>1, <3>2
  <2>. QED BY <2>1, <1>5 DEF InUse
<1>13. Listing(m, t)'
  <2>1. ASSUME NEW j \in InUse' PROVE \E l \in 1 .. m : t[l] = j
    <3>1. PICK l \in 1 .. n : s[l] = j
      BY <1>4, <1>6
    <3>2. l # k
      BY <1>6, <1>8, <3>1
    <3>3. CASE l < k
      BY <1>4, <1>9, <1>11, <3>1, <3>3
    <3>4. CASE l > k
      <4>1. l - 1 \in 1 .. m /\ k <= l - 1 /\ (l - 1) + 1 = l
        BY <1>4, <1>9, <3>4
      <4>. QED BY <1>11, <3>1, <4>1
    <3>. QED BY <1>4, <3>2, <3>3, <3>4
  <2>2. {t[l] : l \in DOMAIN t} = InUse'
    BY <1>6, <1>11, <1>12, <2>1
  <2>3. ASSUME NEW j \in 1 .. m, NEW l \in 1 .. m, j < l
        PROVE  slots'[t[j]].order < slots'[t[l]].order
    <3>1. slots'[t[j]].order = slots[t[j]].order /\ slots'[t[l]].order = slots[t[l]].order
      BY <1>12
    <3>2. CASE l < k
      BY <1>4, <1>10, <1>11, <2>3, <3>1, <3>2
    <3>3. CASE j < k /\ k <= l
      <4>1. t[j] = s[j] /\ t[l] = s[l + 1] /\ j < l + 1
        BY <1>11, <2>3, <3>3
      <4>. QED BY <1>4, <1>10, <3>1, <4>1
    <3>4. CASE k <= j
      <4>1. t[j] = s[j + 1] /\ t[l] = s[l + 1] /\ j + 1 < l + 1
        BY <1>11, <2>3, <3>4
      <4>. QED BY <1>4, <1>10, <3>1, <4>1
    <3>. QED BY <1>4, <2>3, <3>2, <3>3, <3>4
  <2>4. Enumerates(t)'
    BY <1>11, <2>2, <2>3 DEF Enumerates
  <2>. QED BY <1>9, <1>11, <2>4 DEF Listing
<1>14. List!Leave
  <2>1. /\ Listed \in Seq(AnyRow) /\ Len(Listed) = n /\ DOMAIN Listed = 1 .. n
        /\ \A j \in 1 .. n : Listed[j] = Row(s[j])
    BY ListedIs
  <2>2. /\ Listed' \in Seq(AnyRow) /\ Len(Listed') = m
        /\ \A j \in 1 .. m : Listed'[j] = [provider |-> slots'[t[j]].provider,
                                           priority |-> slots'[t[j]].priority]
    BY <1>7, <1>9, <1>11, <1>13, ListedThen
  <2>3. \A j \in 1 .. m : Listed'[j] = Row(t[j])
    BY <1>12, <2>2 DEF Row
  <2>4. ASSUME NEW j \in 1 .. m PROVE Listed'[j] = IF j < k THEN Listed[j] ELSE Listed[j + 1]
    <3>1. CASE j < k
      BY <1>10, <1>11, <2>1, <2>3, <3>1
    <3>2. CASE k <= j
      <4>1. ~(j < k)
        BY <1>4, <3>2
      <4>. QED BY <1>10, <1>11, <2>1, <2>3, <3>2, <4>1
    <3>. QED BY <1>4, <3>1, <3>2
  <2>5. Listed' = SubSeq(Listed, 1, k - 1) \o SubSeq(Listed, k + 1, Len(Listed))
    <3>1. Len(Listed') = Len(Listed) - 1 /\ k \in 1 .. Len(Listed)
      BY <1>4, <1>9, <2>1, <2>2
    <3>2. \A j \in 1 .. Len(Listed') :
            Listed'[j] = IF j < k THEN Listed[j] ELSE Listed[j + 1]
      BY <2>2, <2>4
    <3>. QED BY <2>1, <2>2, <3>1, <3>2, IsRemoval, Zenon
  <2>. QED BY <1>2, <2>1, <2>5, Zenon DEF List!Leave
<1>15. HasListing'
  BY <1>9, <1>11, <1>13 DEF HasListing
<1>. QED BY <1>7, <1>14, <1>15

-----------------------------------------------------------------------------
RegistryInv == RegistryTypeOK /\ Ordered /\ HasListing

LEMMA RegistryInitInv == RegistryInit => RegistryInv /\ List!Init
<1>. SUFFICES ASSUME RegistryInit PROVE RegistryInv /\ List!Init
  OBVIOUS
<1>1. Ordered /\ InUse = {}
  BY DEF RegistryInit, Ordered, InUse, Free
<1>2. <<>> \in [1 .. 0 -> Slot] /\ Listing(0, <<>>)
  BY <1>1 DEF Listing, Enumerates
<1>3. HasListing
  BY <1>2 DEF HasListing, RegistryInit
<1>4. RegistryTypeOK
  BY ProvidersAssumption DEF RegistryInit, RegistryTypeOK, Free
<1>5. Listed \in Seq(AnyRow) /\ Len(Listed) = 0
  BY <1>1, <1>2, ListedIs
<1>6. Listed = <<>>
  BY <1>5
<1>. QED BY <1>1, <1>3, <1>4, <1>6 DEF RegistryInv, RegistryInit, List!Init, List!Nobody

CountFits == Ordered /\ HasListing => count \in 0 .. kMaxProviders

\* The count is bounded because the table is.
LEMMA CountFitsNext == CountFits'
<1>1. CountFits
  BY ListingFits DEF CountFits, HasListing
<1>. QED BY <1>1, PTL

LEMMA ActiveType ==
  ASSUME Ordered
  PROVE  Active.provider \in Provider \cup {NoProvider}
<1>1. CASE FindActiveSlotLocked = {}
  BY <1>1 DEF Active, Free
<1>2. CASE FindActiveSlotLocked # {}
  <2>1. PICK i : i = CHOOSE j \in FindActiveSlotLocked : TRUE
    OBVIOUS
  <2>2. i \in FindActiveSlotLocked /\ Active = slots[i]
    BY <1>2, <2>1 DEF Active
  <2>. QED BY <2>2, SlotFacts DEF FindActiveSlotLocked, InUse
<1>. QED BY <1>1, <1>2

LEMMA RegistryUnchanged ==
  ASSUME Ordered, HasListing, UNCHANGED <<slots, count, next_order>>
  PROVE  Ordered' /\ HasListing' /\ Listed' = Listed
<1>1. PICK s \in [1 .. count -> Slot] : Listing(count, s)
  BY DEF HasListing
<1>. PICK n : n = count
  OBVIOUS
<1>2. n \in Nat /\ s \in [1 .. n -> Slot] /\ Listing(n, s)
  BY <1>1 DEF Listing
<1>3. Ordered' /\ Listing(n, s)'
  BY <1>2 DEF Ordered, Listing, Enumerates, InUse
<1>4. Listed \in Seq(AnyRow) /\ Len(Listed) = n /\ \A k \in 1 .. n : Listed[k] = Row(s[k])
  BY <1>2, ListedIs
<1>5. /\ Listed' \in Seq(AnyRow) /\ Len(Listed') = n
      /\ \A k \in 1 .. n : Listed'[k] = [provider |-> slots'[s[k]].provider,
                                         priority |-> slots'[s[k]].priority]
  BY <1>2, <1>3, ListedThen
<1>6. \A k \in 1 .. n : Listed'[k] = Listed[k]
  BY <1>4, <1>5 DEF Row
<1>7. Listed' = Listed
  BY <1>4, <1>5, <1>6, SeqEqual
<1>. QED BY <1>3, <1>7 DEF HasListing

\* Each critical section is a step of the list.
LEMMA RegistryStep ==
  RegistryInv /\ [RegistryNext]_registry => RegistryInv' /\ [List!Next]_(List!vars)
<1>. SUFFICES ASSUME RegistryInv, [RegistryNext]_registry
              PROVE  RegistryInv' /\ [List!Next]_(List!vars)
  OBVIOUS
<1>1. PICK s \in [1 .. count -> Slot] : Listing(count, s)
  BY DEF RegistryInv, HasListing
<1>2. Ordered /\ HasListing /\ RegistryTypeOK
  BY DEF RegistryInv
<1>3. [provider |-> Active.provider, priority |-> Active.priority] = List!Best
  BY <1>1, <1>2, ActiveIsBest
<1>4. CountFits'
  BY CountFitsNext
<1>5. ASSUME NEW p \in Provider, NEW pr \in Priority, RegisterProvider(p, pr)
      PROVE  RegistryInv' /\ [List!Next]_(List!vars)
  <2>1. Ordered' /\ HasListing' /\ (List!Join \/ List!Change)
    BY <1>1, <1>2, <1>5, Joined, Changed
  <2>2. count' \in 0 .. kMaxProviders
    BY <1>4, <2>1 DEF CountFits
  <2>3. /\ next_order \in 1 .. MaxOrder + 1 /\ next_order' \in 1 .. MaxOrder + 1
        /\ UNCHANGED <<chosen, told>>
    BY <1>2, <1>5, ProvidersAssumption DEF RegisterProvider, RegistryTypeOK
  <2>4. slots' \in [Slot -> [provider : Provider \cup {NoProvider},
                             priority : Priority \cup {0}, order : 0 .. MaxOrder]]
    <3>1. CASE FindSlotByProviderLocked(p) # {}
      BY <1>2, <1>5, <3>1, SMTT(30) DEF RegisterProvider, RegistryTypeOK
    <3>2. CASE FindSlotByProviderLocked(p) = {}
      <4>1. next_order \in 0 .. MaxOrder
        BY <1>2, <1>5, <3>2, ProvidersAssumption DEF RegisterProvider, RegistryTypeOK
      <4>2. [provider |-> p, priority |-> pr, order |-> next_order]
              \in [provider : Provider \cup {NoProvider},
                   priority : Priority \cup {0}, order : 0 .. MaxOrder]
        BY <4>1
      <4>3. PICK i : slots' = [slots EXCEPT ![i] =
                                 [provider |-> p, priority |-> pr, order |-> next_order]]
        BY <1>5, <3>2 DEF RegisterProvider
      <4>. HIDE <3>2
      <4>. QED BY <1>2, <4>2, <4>3 DEF RegistryTypeOK
    <3>. QED BY <3>1, <3>2
  <2>5. RegistryTypeOK'
    BY <1>2, <2>2, <2>3, <2>4 DEF RegistryTypeOK
  <2>. QED BY <2>1, <2>5 DEF RegistryInv, List!Next
<1>6. ASSUME NEW p \in Provider, UnregisterProvider(p)
      PROVE  RegistryInv' /\ [List!Next]_(List!vars)
  <2>1. Ordered' /\ HasListing' /\ List!Leave
    BY <1>1, <1>2, <1>6, Left
  <2>2. count' \in 0 .. kMaxProviders
    BY <1>4, <2>1 DEF CountFits
  <2>3. Free \in [provider : Provider \cup {NoProvider},
                 priority : Priority \cup {0}, order : 0 .. MaxOrder]
    BY ProvidersAssumption DEF Free
  <2>4. slots' \in [Slot -> [provider : Provider \cup {NoProvider},
                             priority : Priority \cup {0}, order : 0 .. MaxOrder]]
    BY <1>2, <1>6, <2>3 DEF UnregisterProvider, RegistryTypeOK
  <2>5. RegistryTypeOK'
    BY <1>2, <1>6, <2>2, <2>4 DEF UnregisterProvider, RegistryTypeOK
  <2>. QED BY <2>1, <2>5 DEF RegistryInv, List!Next
<1>7. ASSUME UNCHANGED <<slots, count, next_order>> PROVE Ordered' /\ HasListing' /\ Listed' = Listed
  BY <1>2, <1>7, RegistryUnchanged
<1>8. CASE GetProviderStatus
  <2>1. UNCHANGED <<slots, count, next_order, chosen>>
    BY <1>8 DEF GetProviderStatus
  <2>2. Len(Listed) = count
    BY <1>1, <1>2, ListedIs
  <2>3. List!Report
    BY <1>3, <1>7, <1>8, <2>1, <2>2, Zenon DEF GetProviderStatus, List!Report
  <2>4. RegistryTypeOK'
    BY <1>2, <2>1 DEF RegistryTypeOK
  <2>. QED BY <1>7, <2>1, <2>3, <2>4 DEF RegistryInv, List!Next
<1>9. ASSUME NEW c \in Caller, ChooseProvider(c)
      PROVE  RegistryInv' /\ [List!Next]_(List!vars)
  <2>1. UNCHANGED <<slots, count, next_order, told>>
    BY <1>9 DEF ChooseProvider
  <2>2. Active.provider = List!Best.provider
    <3>1. [provider |-> Active.provider, priority |-> Active.priority].provider
            = List!Best.provider
      BY <1>3, Zenon
    <3>. QED BY <3>1
  <2>3. List!Choose(c)
    BY <1>7, <1>9, <2>1, <2>2, Zenon DEF ChooseProvider, List!Choose
  <2>4. RegistryTypeOK'
    BY <1>2, <1>9, <2>1, ActiveType DEF RegistryTypeOK, ChooseProvider
  <2>. QED BY <1>7, <2>1, <2>3, <2>4 DEF RegistryInv, List!Next
<1>10. ASSUME NEW c \in Caller, CallProvider(c)
       PROVE  RegistryInv' /\ [List!Next]_(List!vars)
  <2>1. UNCHANGED <<slots, count, next_order, told>>
    BY <1>10 DEF CallProvider
  <2>2. List!Call(c)
    BY <1>7, <1>10, <2>1, Zenon DEF CallProvider, List!Call
  <2>3. RegistryTypeOK'
    BY <1>2, <1>10, <2>1 DEF RegistryTypeOK, CallProvider
  <2>. QED BY <1>7, <2>1, <2>2, <2>3 DEF RegistryInv, List!Next
<1>11. CASE UNCHANGED registry
  <2>1. UNCHANGED <<slots, count, next_order, chosen, told>>
    BY <1>11 DEF registry
  <2>2. RegistryTypeOK'
    BY <1>2, <2>1 DEF RegistryTypeOK
  <2>. QED BY <1>7, <2>1, <2>2 DEF RegistryInv, List!vars
<1>. QED BY <1>5, <1>6, <1>8, <1>9, <1>10, <1>11 DEF RegistryNext

-----------------------------------------------------------------------------
\* Each half of the service moves as it does by itself, or not at all.
LEMMA ServiceHalves ==
  ServiceSpec => /\ Init /\ [][Next]_vars
                 /\ RegistryInit /\ [][RegistryNext]_registry
<1>1. ServiceInit => Init /\ RegistryInit
  BY DEF ServiceInit
<1>2. [ServiceNext]_allVars => [Next]_vars /\ [RegistryNext]_registry
  BY DEF ServiceNext, allVars
<1>. QED BY <1>1, <1>2, PTL DEF ServiceSpec

(* The provider's theorems hold in the service as well.                    *)
THEOREM ServiceKeepsProvider == ServiceSpec => Spec
  BY ServiceHalves, PTL DEF Spec

LEMMA RegistryInvariance == ServiceSpec => []RegistryInv
  BY ServiceHalves, RegistryInitInv, RegistryStep, PTL

(* The table keeps its types: the count stays within the table, and every  *)
(* slot holds a provider with its priority and an order given out.         *)
THEOREM RegistryTypeCorrect == ServiceSpec => []RegistryTypeOK
<1>1. RegistryInv => RegistryTypeOK
  BY DEF RegistryInv
<1>. QED BY <1>1, RegistryInvariance, PTL

(* For a table of any size the registry is a list of providers in the      *)
(* order of their registration: whichever slots they come to, leave and    *)
(* reuse, callers get the first of the highest priority, and the status    *)
(* tells the length of the list and that provider.                         *)
THEOREM RegistryIsAList == ServiceSpec => RegistrySpec
  BY ServiceHalves, RegistryInitInv, RegistryStep, RegistryInvariance, PTL
  DEF RegistrySpec, List!Spec
=============================================================================

--------------------------- MODULE TuningProviders ---------------------------
(***************************************************************************)
(* The registry of the chassis tuning service: a table of providers under  *)
(* g_provider_mutex.  Any thread may register and unregister providers,    *)
(* ask for the status, or make a call, which looks for the active provider *)
(* under the mutex and calls it after the mutex has been released.         *)
(*                                                                         *)
(* Names are left out.  g_next_order has 32 bits in the code; a robot      *)
(* registers a provider per boot, and the model counts to MaxOrder.        *)
(***************************************************************************)
EXTENDS Integers

CONSTANTS
  Provider,       \* what may register; the code has ChassisModule
  Priority,       \* the priorities, of type int
  Caller,         \* the threads that call
  kMaxProviders,  \* the size of the table
  NoProvider,     \* nullptr
  MaxOrder        \* bound: registrations

ASSUME ProvidersAssumption ==
  /\ NoProvider \notin Provider
  /\ Priority \subseteq Int
  /\ kMaxProviders \in Nat \ {0} /\ MaxOrder \in Nat \ {0}

VARIABLES
  slots,       \* g_slots
  count,       \* g_provider_count
  next_order,  \* g_next_order
  chosen,      \* the local variable provider of each caller
  told         \* what GetProviderStatus last returned

registry == <<slots, count, next_order, chosen, told>>

Slot == 1 .. kMaxProviders
Free == [provider |-> NoProvider, priority |-> 0, order |-> 0]

RegistryInit ==
  /\ slots = [i \in Slot |-> Free]
  /\ count = 0 /\ next_order = 1
  /\ chosen = [c \in Caller |-> NoProvider]
  /\ told = [count |-> 0, active |-> [provider |-> NoProvider, priority |-> 0]]

-----------------------------------------------------------------------------
InUse == {i \in Slot : slots[i].provider # NoProvider}
FindSlotByProviderLocked(p) == {i \in Slot : slots[i].provider = p}
FindFreeSlotLocked == {i \in Slot \ InUse : \A j \in Slot \ InUse : i <= j}

\* A mutation of FindActiveSlotLocked: the newest of equal priority.
FindActiveSlotLockedNewest ==
  {i \in InUse :
     \A j \in InUse \ {i} :
       \/ slots[i].priority > slots[j].priority
       \/ slots[i].priority = slots[j].priority /\ slots[i].order > slots[j].order}

\* The slot of highest priority, of equals the oldest; at most one.
FindActiveSlotLocked ==
  {i \in InUse :
     \A j \in InUse \ {i} :
       \/ slots[i].priority > slots[j].priority
       \/ slots[i].priority = slots[j].priority /\ slots[i].order < slots[j].order}

Active ==
  IF FindActiveSlotLocked = {} THEN Free
  ELSE slots[CHOOSE i \in FindActiveSlotLocked : TRUE]

-----------------------------------------------------------------------------
(* The critical sections.                                                  *)

\* A provider that is registered already keeps its slot and its order.
RegisterProvider(p, pr) ==
  /\ IF FindSlotByProviderLocked(p) # {}
     THEN /\ \E i \in FindSlotByProviderLocked(p) :
               slots' = [slots EXCEPT ![i].priority = pr]
          /\ UNCHANGED <<count, next_order>>
     ELSE /\ next_order <= MaxOrder
          /\ \E i \in FindFreeSlotLocked :  \* else -ENOMEM
               slots' = [slots EXCEPT ![i] =
                           [provider |-> p, priority |-> pr, order |-> next_order]]
          /\ count' = count + 1 /\ next_order' = next_order + 1
  /\ UNCHANGED <<chosen, told>>

UnregisterProvider(p) ==
  /\ \E i \in FindSlotByProviderLocked(p) :  \* else -ENOENT
       slots' = [slots EXCEPT ![i] = Free]
  /\ count' = IF count > 0 THEN count - 1 ELSE 0
  /\ UNCHANGED <<next_order, chosen, told>>

GetProviderStatus ==
  /\ told' = [count |-> count,
              active |-> [provider |-> Active.provider, priority |-> Active.priority]]
  /\ UNCHANGED <<slots, count, next_order, chosen>>

\* SetSpeedPidTuning, GetSpeedPidTuning, ResetSpeedPidIntegrator: first the
\* provider is looked up, -EAGAIN if there is none ...
ChooseProvider(c) ==
  /\ chosen[c] = NoProvider
  /\ chosen' = [chosen EXCEPT ![c] = Active.provider]
  /\ UNCHANGED <<slots, count, next_order, told>>

\* ... then it is called, registered or not.
CallProvider(c) ==
  /\ chosen[c] # NoProvider
  /\ chosen' = [chosen EXCEPT ![c] = NoProvider]
  /\ UNCHANGED <<slots, count, next_order, told>>

RegistryNext ==
  \/ \E p \in Provider :
       UnregisterProvider(p) \/ \E pr \in Priority : RegisterProvider(p, pr)
  \/ GetProviderStatus
  \/ \E c \in Caller : ChooseProvider(c) \/ CallProvider(c)

-----------------------------------------------------------------------------
(* The types of the variables.                                             *)
RegistryTypeOK ==
  /\ slots \in [Slot -> [provider : Provider \cup {NoProvider},
                         priority : Priority \cup {0}, order : 0 .. MaxOrder]]
  /\ count \in 0 .. kMaxProviders /\ next_order \in 1 .. MaxOrder + 1
  /\ chosen \in [Caller -> Provider \cup {NoProvider}]

\* s lists the slots in use, the longest registered first.
Enumerates(s) ==
  /\ {s[k] : k \in DOMAIN s} = InUse
  /\ \A k, l \in DOMAIN s : k < l => slots[s[k]].order < slots[s[l]].order

\* There is one such list, because no order is given out twice.
ByOrder ==
  CHOOSE s \in UNION {[1 .. n -> Slot] : n \in 0 .. kMaxProviders} : Enumerates(s)

Row(i) == [provider |-> slots[i].provider, priority |-> slots[i].priority]
Listed == [k \in DOMAIN ByOrder |-> Row(ByOrder[k])]

(* The table, its count and its orders keep the promise of ProviderList,   *)
(* in whichever slots providers come and go and change their priority.     *)
List == INSTANCE ProviderList WITH list <- Listed
RegistrySpec == List!Spec
=============================================================================

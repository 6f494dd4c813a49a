---------------------------- MODULE ProviderList ----------------------------
(***************************************************************************)
(* What the tuning service promises: its providers form a list in the      *)
(* order in which they first registered; a call goes to the one of highest *)
(* priority, among equals to the one that has been there longest; and the  *)
(* status reports the length of the list and that provider.                *)
(***************************************************************************)
EXTENDS Integers, Sequences

CONSTANTS Provider, Priority, Caller, NoProvider

VARIABLES
  list,    \* the providers and their priorities
  chosen,  \* the provider each caller is about to call
  told     \* the last status

vars == <<list, chosen, told>>

Entry == [provider : Provider, priority : Priority]

\* No provider, as the first of an empty list.
Nobody == [provider |-> NoProvider, priority |-> 0]

Best ==
  IF list = <<>> THEN Nobody
  ELSE CHOOSE e \in {list[i] : i \in DOMAIN list} :
         \E i \in DOMAIN list :
           /\ e = list[i]
           /\ \A j \in DOMAIN list :
                \/ list[j].priority < e.priority
                \/ list[j].priority = e.priority /\ i <= j

Init ==
  /\ list = <<>>
  /\ chosen = [c \in Caller |-> NoProvider]
  /\ told = [count |-> 0, active |-> Nobody]

Join ==
  /\ \E e \in Entry :
       /\ \A i \in DOMAIN list : list[i].provider # e.provider
       /\ list' = Append(list, e)
  /\ UNCHANGED <<chosen, told>>

Change ==
  /\ \E i \in DOMAIN list, pr \in Priority : list' = [list EXCEPT ![i].priority = pr]
  /\ UNCHANGED <<chosen, told>>

Leave ==
  /\ \E i \in DOMAIN list :
       list' = SubSeq(list, 1, i - 1) \o SubSeq(list, i + 1, Len(list))
  /\ UNCHANGED <<chosen, told>>

Choose(c) ==
  /\ chosen' = [chosen EXCEPT ![c] = Best.provider]
  /\ UNCHANGED <<list, told>>

Call(c) ==
  /\ chosen' = [chosen EXCEPT ![c] = NoProvider]
  /\ UNCHANGED <<list, told>>

Report ==
  /\ told' = [count |-> Len(list), active |-> Best]
  /\ UNCHANGED <<list, chosen>>

Next == Join \/ Change \/ Leave \/ Report \/ \E c \in Caller : Choose(c) \/ Call(c)

Spec == Init /\ [][Next]_vars
=============================================================================

--------------------------- MODULE ProviderInitProofs ---------------------------
(***************************************************************************)
(* What the init command of the provider does establish: when it reports   *)
(* that it has completed there is something stored for every object, for   *)
(* any list of objects and any number of versions.                         *)
(***************************************************************************)
EXTENDS ProviderInit, TLAPS

(* The index moves on over stored objects only, and to the end of the list *)
(* before the command is done.                                             *)
LEMMA ContinueStored ==
  ASSUME Len(Order) \in Nat, StoredSoFar, pc \in {"get", "create"}, Continue,
         DOMAIN stored' = Indices,
         \A i \in Indices : stored[i] # Missing \/ i = next => stored'[i] # Missing
  PROVE  StoredSoFar'
<1>1. /\ next \in Nat /\ next \in 1..Len(Order) /\ next' = next + 1 /\ program' = program
      /\ \A i \in Indices : i < next => stored[i] # Missing
  BY DEF StoredSoFar, Continue, Indices
<1>2. \A i \in Indices : i < next' => stored'[i] # Missing
  BY <1>1 DEF Indices
<1>3. CASE next = Len(Order)
  <2>1. pc' = "done" /\ \A i \in Indices : stored'[i] # Missing
    BY <1>1, <1>2, <1>3 DEF Continue, Indices
  <2> QED
    BY <1>1, <2>1 DEF StoredSoFar, InitComplete
<1>4. CASE next # Len(Order)
  <2>1. pc' = "get" /\ next' \in Indices
    BY <1>1, <1>4 DEF Continue, Indices
  <2> QED
    BY <1>1, <1>2, <2>1 DEF StoredSoFar, InitComplete
<1> QED
  BY <1>3, <1>4

(* The command passes over an object only when it is stored.               *)
LEMMA StoredKept ==
  ASSUME Len(Order) \in Nat \ {0} PROVE Spec => []StoredSoFar
<1>1. Init => StoredSoFar
  BY DEF Init, StoredSoFar, InitComplete
<1>2. StoredSoFar /\ [Next]_vars => StoredSoFar'
  <2> SUFFICES ASSUME StoredSoFar, [Next]_vars PROVE StoredSoFar'
    OBVIOUS
  <2>1. CASE Start
    BY <2>1 DEF Start, StoredSoFar, InitComplete, Indices
  <2>2. CASE Upgrade
    BY <2>2 DEF Upgrade, StoredSoFar, InitComplete
  <2>3. CASE Keep
    BY <2>3, ContinueStored DEF Keep, StoredSoFar
  <2>4. CASE NotFound
    BY <2>4 DEF NotFound, StoredSoFar, InitComplete
  <2>5. CASE Create
    <3>1. /\ DOMAIN stored' = Indices
          /\ \A i \in Indices : stored'[i] = IF i = next THEN program ELSE stored[i]
      BY <2>5 DEF Create, StoredSoFar
    <3>2. program # Missing
      BY DEF StoredSoFar, Missing
    <3> QED
      BY <2>5, <3>1, <3>2, ContinueStored DEF Create
  <2>6. CASE Exit
    BY <2>6 DEF Exit, StoredSoFar, InitComplete
  <2>7. CASE UNCHANGED vars
    BY <2>7 DEF vars, StoredSoFar, InitComplete
  <2> QED
    BY <2>1, <2>2, <2>3, <2>4, <2>5, <2>6, <2>7 DEF Next
<1> QED
  BY <1>1, <1>2, PTL DEF Spec

(* When init has completed, every CRD and the ClusterProfile are stored in *)
(* some version, whichever calls failed or lost their answer before.       *)
THEOREM InitCompletes ==
  ASSUME Len(Order) \in Nat \ {0} PROVE Spec => []InitComplete
<1>1. StoredSoFar => InitComplete
  BY DEF StoredSoFar
<1> QED
  BY <1>1, StoredKept, PTL

(* The definitions of a later version are never stored: its init command   *)
(* finds every object of the first one and leaves it as it is, however     *)
(* many versions follow and whatever fails.                                *)
THEOREM NeverUpgraded ==
  ASSUME Len(Order) \in Nat \ {0} PROVE Spec => []InitOnce
<1>1. Init => FirstStored
  BY DEF Init, FirstStored
<1>2. StoredSoFar /\ FirstStored /\ [Next]_vars => FirstStored'
  <2> SUFFICES ASSUME StoredSoFar, FirstStored, [Next]_vars PROVE FirstStored'
    OBVIOUS
  <2>1. CASE Start \/ UNCHANGED vars
    BY <2>1 DEF Start, vars, FirstStored
  <2>2. CASE Upgrade
    BY <2>2 DEF Upgrade, StoredSoFar, InitComplete, FirstStored
  <2>3. CASE Keep \/ NotFound
    BY <2>3 DEF Keep, NotFound, Continue, FirstStored
  <2>4. CASE Create \/ Exit
    <3>1. pc' # "create" /\ program' = program
      BY <2>4 DEF Create, Continue, Exit
    <3>2. CASE UNCHANGED stored
      BY <3>1, <3>2 DEF FirstStored
    <3>3. CASE pc = "create" /\ stored' = [stored EXCEPT ![next] = program]
      <4>1. program = 1 /\ next \in Indices
        BY <3>3 DEF StoredSoFar, FirstStored
      <4>2. \A i \in Indices : stored'[i] = IF i = next THEN 1 ELSE stored[i]
        BY <3>3, <4>1 DEF StoredSoFar
      <4> QED
        BY <3>1, <4>1, <4>2 DEF FirstStored, Missing
    <3> QED
      BY <2>4, <3>2, <3>3 DEF Create, Exit
  <2> QED
    BY <2>1, <2>2, <2>3, <2>4 DEF Next
<1>3. StoredSoFar /\ FirstStored => InitOnce
  BY DEF StoredSoFar, InitComplete, FirstStored, InitOnce
<1> QED
  BY <1>1, <1>2, <1>3, StoredKept, PTL DEF Spec

=============================================================================

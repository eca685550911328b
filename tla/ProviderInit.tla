------------------------------ MODULE ProviderInit ------------------------------
(***************************************************************************)
(* The init command of the provider: a Job of the openmcp-operator runs it *)
(* before the controllers, with every version of the provider that is      *)
(* rolled out, and again when it has failed.  It stores the CRDs that are  *)
(* embedded in the program, then the ClusterProfile "kind".                *)
(***************************************************************************)
EXTENDS Integers, Sequences

CONSTANTS
  Order,        \* the objects, in the order in which they are stored
  MaxVersion    \* bound: versions of the provider

VARIABLES
  program,      \* the version that is rolled out
  pc,           \* the next call of the command, or how it ended
  next,         \* the index of the object it is at
  stored        \* by object, the version whose definition is stored, 0: none

vars == <<program, pc, next, stored>>

Indices == 1..Len(Order)
Missing == 0

Init == /\ program = 1 /\ pc = "idle" /\ next = 1
        /\ stored = [i \in Indices |-> Missing]

(* The Job starts the command, or starts it again.                         *)
Start == /\ pc \in {"idle", "failed"}
         /\ pc' = "get" /\ next' = 1
         /\ UNCHANGED <<program, stored>>

(* The next version of the provider replaces one that was initialized.     *)
Upgrade == /\ pc = "done" /\ program < MaxVersion
           /\ program' = program + 1 /\ pc' = "idle"
           /\ UNCHANGED <<next, stored>>

Continue == /\ next' = next + 1
            /\ pc' = IF next = Len(Order) THEN "done" ELSE "get"
            /\ UNCHANGED program

(* CreateOrUpdate reads the stored object over the one from the program;   *)
(* the mutate function changes nothing, so there is nothing to update.     *)
Keep == /\ pc = "get" /\ stored[next] # Missing
        /\ Continue /\ UNCHANGED stored

NotFound == /\ pc = "get" /\ stored[next] = Missing
            /\ pc' = "create" /\ UNCHANGED <<program, next, stored>>

Create == /\ pc = "create"
          /\ stored' = [stored EXCEPT ![next] = program]
          /\ Continue

(* An error ends the process, with what it has stored so far; an answer to *)
(* Create may be lost.                                                     *)
Exit == /\ pc \in {"get", "create"} /\ pc' = "failed"
        /\ \/ UNCHANGED stored
           \/ pc = "create" /\ stored' = [stored EXCEPT ![next] = program]
        /\ UNCHANGED <<program, next>>

Next == Start \/ Upgrade \/ Keep \/ NotFound \/ Create \/ Exit

Spec == Init /\ [][Next]_vars

(* "Creating/Updating CRD", "Init command completed successfully": a       *)
(* version whose init command has completed finds its own definitions.     *)
InitUpgrades == pc = "done" => \A i \in Indices : stored[i] = program

(* A version whose init command has completed finds every object stored,   *)
(* whatever failed on the way.                                             *)
InitComplete == pc = "done" => \A i \in Indices : stored[i] # Missing

(* The objects before the one the command is at are stored: inductive.     *)
StoredSoFar ==
  /\ pc \in {"idle", "get", "create", "done", "failed"} /\ next \in Nat
  /\ program \in Nat /\ program > 0
  /\ DOMAIN stored = Indices
  /\ pc \in {"get", "create"} => next \in Indices
  /\ pc \in {"get", "create"} => \A i \in Indices : i < next => stored[i] # Missing
  /\ InitComplete

(* What is stored is what the first version brought along, and a later     *)
(* version finds all of it: inductive with StoredSoFar.                    *)
FirstStored ==
  /\ \A i \in Indices : stored[i] \in {Missing, 1}
  /\ program > 1 => \A i \in Indices : stored[i] # Missing
  /\ pc = "create" => stored[next] = Missing

(* Whatever version has completed its init command, the CRDs and the       *)
(* ClusterProfile are those of the first one.                              *)
InitOnce == pc = "done" => \A i \in Indices : stored[i] = 1

=============================================================================

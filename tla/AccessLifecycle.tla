---------------------------- MODULE AccessLifecycle ----------------------------
(***************************************************************************)
(* What the access request controller promises about the access it gives   *)
(* on a kind cluster: it claims the request first, gives and takes access  *)
(* only while it holds the claim, and lets the request go when nothing is  *)
(* left.  A kind cluster that goes takes all access with it.               *)
(*                                                                         *)
(* AccessController (one request, all that can happen to it) and           *)
(* SharedAccess (several requests, object by object) implement this.       *)
(***************************************************************************)

CONSTANTS
  Requests,  \* AccessRequest resources
  Things     \* what can be put on the kind cluster for a request

VARIABLES
  hold,      \* the controller's finalizer: "none", "held" or "released"
  access     \* what is on the kind cluster for each request

vars == <<hold, access>>

TypeInvariant == /\ hold \in [Requests -> {"none", "held", "released"}]
                 /\ access \in [Requests -> SUBSET Things]

Init == /\ hold = [r \in Requests |-> "none"]
        /\ access = [r \in Requests |-> {}]

Claim(r) == /\ hold[r] = "none" /\ hold' = [hold EXCEPT ![r] = "held"]
            /\ UNCHANGED access

(* A request that nobody has claimed may go at any time.                   *)
Forgo(r) == /\ hold[r] = "none" /\ hold' = [hold EXCEPT ![r] = "released"]
            /\ UNCHANGED access

Adjust(r) == /\ hold[r] = "held"
             /\ access' \in [Requests -> SUBSET Things]
             /\ \A q \in Requests \ {r} : access'[q] = access[q]
             /\ UNCHANGED hold

Release(r) == /\ hold[r] = "held" /\ access[r] = {}
              /\ hold' = [hold EXCEPT ![r] = "released"] /\ UNCHANGED access

Vanish == access' = [r \in Requests |-> {}] /\ UNCHANGED hold

Next == Vanish \/ \E r \in Requests : Claim(r) \/ Forgo(r) \/ Adjust(r) \/ Release(r)

Spec == Init /\ [][Next]_vars

(* No access without a claim.                                              *)
NoAccessUnclaimed == \A r \in Requests : access[r] # {} => hold[r] = "held"

(* What was released is not claimed again, and gets nothing any more.      *)
ReleasedForGood ==
  [][\A r \in Requests : hold[r] = "released" =>
       hold'[r] = "released" /\ access'[r] = {}]_vars

=============================================================================

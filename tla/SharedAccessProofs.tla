-------------------------- MODULE SharedAccessProofs --------------------------
(***************************************************************************)
(* For any number of requests and permissions, whatever names they share   *)
(* and whichever calls fail: PassInvariant is inductive; from it follow    *)
(* the safety properties of SharedAccess, and that it implements           *)
(* AccessLifecycle.                                                        *)
(***************************************************************************)
EXTENDS SharedInvariant, TLAPS

USE DEF worker, budget

(* What a request needs are objects of its own.                            *)
LEMMA NeededTyped ==
  ASSUME NEW r \in Requests, NEW ns \in SUBSET Names
  PROVE  /\ Needed(r, ns) \subseteq Objects
         /\ \A o \in Needed(r, ns) : o.owner = r
<1>1. Account(r) \in Objects /\ Account(r).owner = r
  BY DEF Account, Objects, Kinds
<1>2. \A n \in Names : Role(n, r) \in Objects /\ Role(n, r).owner = r
  BY DEF Role, Objects, Kinds
<1>3. \A n \in Names : Binding(n, r) \in Objects /\ Binding(n, r).owner = r
  BY DEF Binding, Objects, Kinds
<1> QED
  BY <1>1, <1>2, <1>3 DEF Needed

(* What the API server makes of a write.                                   *)
LEMMA SettledTyped ==
  ASSUME NEW o \in Request
  PROVE  /\ Settled(o) \in Request
         /\ Settled(o).fin = o.fin /\ Settled(o).want = o.want
         /\ Settled(o).granted = o.granted
         /\ Settled(o).st = IF o.st = "deleting" /\ ~o.fin THEN "gone" ELSE o.st
  BY DEF Settled, Request

(* Every step keeps the variables in their types.                          *)
LEMMA TypeInductive == TypeOK /\ PassInvariant /\ [Next]_vars => TypeOK'
<1> SUFFICES ASSUME TypeOK, PassInvariant, [Next]_vars PROVE TypeOK'
  OBVIOUS
<1>0. /\ pc # "idle" => cur \in Requests /\ view \in Request /\ view.want \subseteq Names
      /\ \A r \in Requests : api[r] \in Request
      /\ NoRequest \in Request
      /\ \A k \in Kinds : Following[k] \in PCs \/ k = "ServiceAccount"
      /\ MaxFaults \in Nat
  BY BoundsAssumption DEF TypeOK, PassInvariant, CopyJustified, Request, NoRequest, Following, Kinds, PCs
<1>1. ASSUME NEW r \in Requests, CreateRequest(r) PROVE TypeOK'
  <2>1. PICK ns \in SUBSET Askable[r] : User(r, [api[r] EXCEPT !.st = "live", !.want = ns])
    BY <1>1 DEF CreateRequest
  <2>2. [api[r] EXCEPT !.st = "live", !.want = ns] \in Request
    BY <1>0, NamesAssumption DEF Request
  <2>3. edited' \subseteq Editable
    BY <1>1 DEF CreateRequest, TypeOK
  <2> QED
    BY <1>0, <2>1, <2>2, <2>3, SettledTyped DEF TypeOK, User, Write
<1>2. ASSUME NEW r \in Requests, EditRequest(r) PROVE TypeOK'
  <2>1. PICK ns \in (SUBSET Askable[r]) \ {api[r].want} : User(r, [api[r] EXCEPT !.want = ns])
    BY <1>2 DEF EditRequest
  <2>2. [api[r] EXCEPT !.want = ns] \in Request
    BY <1>0, NamesAssumption DEF Request
  <2>3. edited' \subseteq Editable
    BY <1>2 DEF EditRequest, TypeOK
  <2> QED
    BY <1>0, <2>1, <2>2, <2>3, SettledTyped DEF TypeOK, User, Write
<1>3. ASSUME NEW r \in Requests, DeleteRequest(r) PROVE TypeOK'
  BY <1>0, <1>3, SettledTyped DEF TypeOK, DeleteRequest, User, Write, Request
<1>4. ASSUME NEW r \in Requests, TokenAges(r) PROVE TypeOK'
  BY <1>4 DEF TypeOK, TokenAges
<1>5. ASSUME NEW r \in Requests, Take(r) PROVE TypeOK'
  BY <1>0, <1>5 DEF TypeOK, Take, TakeMissing, TakeRequest, PCs, Kinds
<1>6. CASE AddFinalizer
  BY <1>0, <1>6, SettledTyped DEF TypeOK, AddFinalizer, Write, PCs, Request
<1>7. CASE RemoveFinalizer
  BY <1>0, <1>7, SettledTyped DEF TypeOK, RemoveFinalizer, Write, Idle, PCs, Request
<1>8. CASE Rejected
  BY <1>8 DEF TypeOK, Rejected, Goto, PCs
<1>9. CASE EnsureAccount
  BY <1>0, <1>9 DEF TypeOK, EnsureAccount, Put, OnKind, Account, Objects, Kinds, PCs
<1>10. CASE EnsureRoleBinding
  BY <1>0, <1>10, NeededTyped DEF TypeOK, PassInvariant, EnsuredSoFar, EnsureRoleBinding, Put, OnKind, Binding, Objects, Kinds, PCs
<1>11. CASE PermissionsDone
  BY <1>0, <1>11 DEF TypeOK, PermissionsDone, OnKind, PCs
<1>12. CASE ReferencesDone
  BY <1>0, <1>12 DEF TypeOK, ReferencesDone, Goto, PCs
<1>13. CASE IssueToken
  BY <1>0, <1>13 DEF TypeOK, IssueToken, PCs, Kinds, Request
<1>14. ASSUME NEW n \in Names, EnsureRole(n) PROVE TypeOK'
  BY <1>0, <1>14 DEF TypeOK, EnsureRole, Put, OnKind, Role, Objects, Kinds, PCs
<1>15. ASSUME NEW n \in Names, EnsureReference(n) PROVE TypeOK'
  BY <1>0, <1>15 DEF TypeOK, EnsureReference, Put, OnKind, Binding, Objects, Kinds
<1>16. ASSUME NEW n \in Names, Refused(n) PROVE TypeOK'
  BY <1>0, <1>16 DEF TypeOK, Refused, SkipName, OnKind, PCs
<1>17. ASSUME NEW k \in Kinds, CleanUp(k) PROVE TypeOK'
  BY <1>0, <1>17 DEF TypeOK, CleanUp, Goto, PCs
<1>18. CASE SaveStatus
  BY <1>0, <1>18 DEF TypeOK, SaveStatus, Retry, Idle, PCs, Request
<1>19. CASE SaveMissing
  BY <1>0, <1>19 DEF TypeOK, SaveMissing, Idle, PCs
<1>20. CASE PatchRejected
  BY <1>0, <1>20 DEF TypeOK, PatchRejected, Idle, PCs
<1>21. ASSUME NEW n \in Names, EnsureFails(n) PROVE TypeOK'
  <2>1. objects' \in SUBSET Objects
    BY <1>0, <1>21 DEF TypeOK, EnsureFails, Put, Role, Binding, Objects, Kinds
  <2> QED
    BY <1>0, <1>21, <2>1 DEF TypeOK, EnsureFails, Fault, SkipName, OnKind, PCs
<1>22. ASSUME NEW k \in Kinds, CleanUpFails(k) PROVE TypeOK'
  BY <1>0, <1>22 DEF TypeOK, CleanUpFails, Fault, Goto, PCs
<1>23. CASE CallFails
  <2>1. Fault /\ faults' \in 0..MaxFaults
    BY <1>0, <1>23 DEF CallFails, Fault, TypeOK
  <2>2. objects' \in SUBSET Objects
    BY <1>0, <1>23 DEF TypeOK, CallFails, Put, Account, Objects, Kinds, Goto
  <2>3. api' \in [Requests -> Request] /\ pending' \subseteq Requests
    <3>1. \A b \in BOOLEAN : pc # "idle" => [view EXCEPT !.fin = b] \in Request
      BY <1>0 DEF Request
    <3> QED
      BY <1>0, <1>23, <3>1, SettledTyped DEF TypeOK, CallFails, Write, Goto
  <2> QED
    BY <1>0, <1>23, <2>1, <2>2, <2>3 DEF TypeOK, CallFails, Fault, Goto, Idle, PCs
<1>24. CASE Crash
  <2>1. pending' \subseteq Requests
    BY <1>24 DEF Crash
  <2>2. faults' \in 0..MaxFaults /\ UNCHANGED <<edited, objects, api, due>>
    BY <1>0, <1>24 DEF Crash, Fault, TypeOK
  <2>3. Idle
    BY <1>24 DEF Crash
  <2> QED
    BY <1>0, <2>1, <2>2, <2>3 DEF TypeOK, Idle, PCs
<1>25. CASE UNCHANGED vars
  BY <1>25 DEF TypeOK, vars
<1>26. CASE Step
  BY <1>26, <1>6, <1>7, <1>8, <1>9, <1>10, <1>11, <1>12, <1>13, <1>14, <1>15, <1>16, <1>17,
     <1>18, <1>19, <1>20 DEF Step
<1>27. CASE Failure
  BY <1>27, <1>21, <1>22, <1>23, <1>24 DEF Failure
<1> QED
  BY <1>1, <1>2, <1>3, <1>4, <1>5, <1>25, <1>26, <1>27 DEF Next

(* What users do to the requests leaves the kind cluster alone.            *)
LEMMA UserInductive ==
  ASSUME TypeOK, PassInvariant, NEW r \in Requests, NEW o \in Request,
         User(r, o), edited \subseteq edited', edited' \subseteq Requests,
         o.fin = api[r].fin, o.granted = api[r].granted, api[r].st # "gone",
         o.st \in {"live", "deleting"}, api[r].st = "deleting" => o.st = "deleting",
         o.want = api[r].want \/ api[r].st = "none" \/ r \in edited'
  PROVE  PassInvariant'
<1>0. /\ UNCHANGED <<objects, pc, cur, view, todo, item, denied>>
      /\ current' = (current /\ cur # r)
      /\ api' = [api EXCEPT ![r] = Settled(o)]
      /\ \A q \in Requests : api[q] \in Request
      /\ pc # "idle" => cur \in Requests
  BY DEF User, Write, TypeOK, PassInvariant, CopyJustified
<1>1. /\ api'[r] = Settled(o) /\ \A q \in Requests : q # r => api'[q] = api[q]
      /\ api[r].st = "none" => ~api[r].fin /\ ~api[r].granted
  BY <1>0 DEF TypeOK, PassInvariant, NothingBefore, NoRequest
<1>2. CopyJustified'
  <2>1. CASE cur = r
    <3>1. pc # "idle" => api[cur].st # "none" /\ ~current'
      BY <1>0, <2>1 DEF PassInvariant, CopyJustified
    <3> QED
      BY <1>0, <1>1, <2>1, <3>1, SettledTyped DEF PassInvariant, CopyJustified, Exists
  <2>2. CASE cur # r
    BY <1>0, <1>1, <2>2 DEF PassInvariant, CopyJustified, Exists
  <2> QED
    BY <2>1, <2>2
<1>3. PassJustified'
  BY <1>0 DEF PassInvariant, PassJustified, Providing
<1>4. EnsuredSoFar'
  BY <1>0 DEF PassInvariant, EnsuredSoFar, Needed
<1>5. CleanedSoFar'
  BY <1>0 DEF PassInvariant, CleanedSoFar, Doomed, Keep, Needed
<1>6. BindingsBacked' /\ NothingBefore'
  BY <1>0, <1>1, SettledTyped DEF PassInvariant, BindingsBacked, NothingBefore
<1>7. NoLeftovers'
  BY <1>0, <1>1, SettledTyped DEF PassInvariant, NoLeftovers, Owned, Exists
<1>8. GrantBacked'
  <2>1. ASSUME NEW q \in Requests, api'[q].st = "live", api'[q].granted, q \notin edited'
        PROVE  Needed(q, api'[q].want) \subseteq objects'
    <3>1. api[q].st = "live" /\ api[q].granted /\ q \notin edited
      BY <1>0, <1>1, <2>1, SettledTyped DEF Request
    <3>2. api'[q].want = api[q].want
      BY <1>0, <1>1, <2>1, <3>1, SettledTyped
    <3> QED
      BY <1>0, <3>1, <3>2 DEF PassInvariant, GrantBacked
  <2> QED
    BY <2>1 DEF GrantBacked, Needed
<1> QED
  BY <1>2, <1>3, <1>4, <1>5, <1>6, <1>7, <1>8 DEF PassInvariant

(* A pass that begins, and passes that end.                                *)
LEMMA TakeInductive ==
  ASSUME TypeOK, PassInvariant, NEW r \in Requests, Take(r) PROVE PassInvariant'
<1>0. UNCHANGED <<objects, api, edited, faults>> /\ pc = "idle"
  BY DEF Take
<1>1. BindingsBacked' /\ NothingBefore' /\ NoLeftovers' /\ GrantBacked'
  BY <1>0 DEF PassInvariant, BindingsBacked, NothingBefore, NoLeftovers, Owned, GrantBacked, Needed
<1>2. CASE TakeMissing(r)
  BY <1>0, <1>1, <1>2 DEF TakeMissing, PassInvariant, CopyJustified, PassJustified, Providing, EnsuredSoFar, Needed, CleanedSoFar, Doomed, Keep, Kinds
<1>3. CASE TakeRequest(r)
  <2>1. /\ cur' = r /\ view' = api[r] /\ current' /\ Exists(api[r])
        /\ pc' = "RoleBinding" => api[r].st = "deleting"
        /\ pc' = "claim" => api[r].st # "deleting"
        /\ pc' = "account" => api[r].st # "deleting" /\ api[r].fin
        /\ pc' \in {"RoleBinding", "claim", "account", "done"}
    BY <1>3 DEF TakeRequest, TypeOK, Request
  <2>2. CopyJustified'
    BY <1>0, <2>1 DEF CopyJustified, Exists, TypeOK, Request
  <2>3. PassJustified'
    BY <1>0, <2>1 DEF PassJustified, Providing, Exists
  <2>4. EnsuredSoFar'
    BY <1>0, <1>1, <2>1 DEF EnsuredSoFar, Needed, GrantBacked, Kinds
  <2>5. CleanedSoFar'
    BY <2>1 DEF CleanedSoFar, Before, Kinds
  <2> QED
    BY <1>1, <2>2, <2>3, <2>4, <2>5 DEF PassInvariant
<1> QED
  BY <1>2, <1>3 DEF Take

(* Between two passes only the requests and the kind cluster count.        *)
LEMMA IdleInductive ==
  ASSUME TypeOK, PassInvariant, Idle, UNCHANGED <<objects, edited>>,
         NothingBefore', NoLeftovers', GrantBacked'
  PROVE  PassInvariant'
<1>1. BindingsBacked'
  BY DEF PassInvariant, BindingsBacked
<1> QED
  BY <1>1 DEF PassInvariant, Idle, CopyJustified, PassJustified, EnsuredSoFar, CleanedSoFar, Kinds, Providing

(* A pass that provides only adds to what is there for its request.        *)
LEMMA ProvideInductive ==
  ASSUME TypeOK, PassInvariant, pc \in Providing, pc' \in Providing \cup {"fail"},
         UNCHANGED <<api, edited, cur, view, current>>,
         NEW o, o.owner = cur, objects' = objects \/ objects' = objects \cup {o},
         EnsuredSoFar', BindingsBacked'
  PROVE  PassInvariant'
<1>0. pc # "idle" /\ pc' # "idle" /\ cur \in Requests
  BY DEF Providing, PassInvariant, CopyJustified
<1>1. CopyJustified' /\ NothingBefore'
  BY <1>0 DEF PassInvariant, CopyJustified, NothingBefore
<1>2. PassJustified'
  BY DEF PassInvariant, PassJustified, Providing
<1>3. CleanedSoFar'
  BY DEF CleanedSoFar, Providing, Kinds
<1>4. NoLeftovers'
  <2>1. Exists(api[cur]) /\ api[cur].fin
    BY <1>0 DEF PassInvariant, PassJustified, CopyJustified
  <2>2. \A r \in Requests : r # cur => Owned(r)' = Owned(r)
    BY DEF Owned
  <2> QED
    BY <2>1, <2>2 DEF PassInvariant, NoLeftovers
<1>5. GrantBacked'
  <2>1. \A r \in Requests : Needed(r, api[r].want)' = Needed(r, api[r].want)
    BY DEF Needed
  <2> QED
    BY <2>1 DEF PassInvariant, GrantBacked
<1> QED
  BY <1>1, <1>2, <1>3, <1>4, <1>5 DEF PassInvariant

(* A binding that is added has its account and its role.                   *)
LEMMA BackedAdded ==
  ASSUME PassInvariant, TypeOK, NEW o, objects' = objects \/ objects' = objects \cup {o},
         \/ o.kind \in {"Role", "ClusterRole", "ServiceAccount"}
         \/ \E n \in Names : /\ o = Binding(n, cur) /\ Account(cur) \in objects
                             /\ n \notin References => Role(n, cur) \in objects
  PROVE  BindingsBacked'
<1> SUFFICES ASSUME NEW r \in Requests, NEW m \in Names, Binding(m, r) \in objects'
             PROVE  /\ Account(r) \in objects'
                    /\ m \notin References => Role(m, r) \in objects'
  BY DEF BindingsBacked, Binding, Account, Role
<1>1. CASE Binding(m, r) \in objects
  BY <1>1 DEF PassInvariant, BindingsBacked
<1>2. CASE Binding(m, r) = o
  <2>1. o.kind \in {"RoleBinding", "ClusterRoleBinding"} /\ o.name = m /\ o.owner = r
    BY <1>2 DEF Binding
  <2>2. PICK n \in Names : /\ o = Binding(n, cur) /\ Account(cur) \in objects
                           /\ n \notin References => Role(n, cur) \in objects
    BY <2>1
  <2>3. n = m /\ cur = r
    BY <2>1, <2>2 DEF Binding
  <2> QED
    BY <2>2, <2>3
<1> QED
  BY <1>1, <1>2

(* One more name is provided for.                                          *)
LEMMA NeededMore ==
  ASSUME NEW S, NEW r, NEW ns, NEW n, Needed(r, ns) \subseteq S, Binding(n, r) \in S,
         n \notin References => Role(n, r) \in S, NEW ms, ms \subseteq ns \cup {n}
  PROVE  Needed(r, ms) \subseteq S
  BY DEF Needed

(* EnsureAccount starts with nothing but the account.                      *)
LEMMA EnsureAccountInductive ==
  TypeOK /\ PassInvariant /\ EnsureAccount => PassInvariant'
<1> SUFFICES ASSUME TypeOK, PassInvariant, EnsureAccount PROVE PassInvariant'
  OBVIOUS
<1>0. /\ pc = "account" /\ pc' = "permissions" /\ objects' = objects \cup {Account(cur)}
      /\ todo' = view.want \ References
      /\ UNCHANGED <<api, edited, cur, view, current>>
  BY DEF EnsureAccount, Put, OnKind
<1>1. Account(cur).owner = cur /\ Account(cur).kind = "ServiceAccount"
  BY DEF Account
<1>2. BindingsBacked'
  BY <1>0, <1>1, BackedAdded
<1>3. EnsuredSoFar'
  <2>1. Account(cur)' = Account(cur) /\ Account(cur) \in objects'
    BY <1>0 DEF Account
  <2>2. Needed(cur, (view.want \ References) \ todo)' = {Account(cur)}
    BY <1>0 DEF Needed, Account
  <2>3. Needed(cur, view.want)' = Needed(cur, view.want)
    BY <1>0 DEF Needed
  <2> QED
    BY <1>0, <2>1, <2>2, <2>3 DEF PassInvariant, EnsuredSoFar, Kinds
<1> QED
  BY <1>0, <1>1, <1>2, <1>3, ProvideInductive DEF Providing

(* EnsureRole puts the role that EnsureRoleBinding relies on.              *)
LEMMA EnsureRoleInductive ==
  ASSUME TypeOK, PassInvariant, NEW n \in Names, EnsureRole(n) PROVE PassInvariant'
<1>0. /\ pc = "permissions" /\ pc' = "bind" /\ objects' = objects \cup {Role(n, cur)}
      /\ item' = n /\ n \in todo
      /\ UNCHANGED <<api, edited, cur, view, current, todo, denied>>
  BY DEF EnsureRole, Put, OnKind
<1>1. Role(n, cur).owner = cur /\ Role(n, cur).kind \in {"Role", "ClusterRole"}
  BY DEF Role
<1>2. BindingsBacked'
  BY <1>0, <1>1, BackedAdded
<1>3. EnsuredSoFar'
  <2>1. Account(cur)' = Account(cur) /\ Role(item, cur)' = Role(n, cur)
    BY <1>0 DEF Account, Role
  <2>2. /\ Needed(cur, (view.want \ References) \ todo)' = Needed(cur, (view.want \ References) \ todo)
        /\ Needed(cur, view.want)' = Needed(cur, view.want)
    BY <1>0 DEF Needed
  <2> QED
    BY <1>0, <2>1, <2>2 DEF PassInvariant, EnsuredSoFar, Kinds
<1> QED
  BY <1>0, <1>1, <1>2, <1>3, ProvideInductive DEF Providing

(* EnsureRoleBinding completes a permission.                               *)
LEMMA EnsureRoleBindingInductive ==
  TypeOK /\ PassInvariant /\ EnsureRoleBinding => PassInvariant'
<1> SUFFICES ASSUME TypeOK, PassInvariant, EnsureRoleBinding PROVE PassInvariant'
  OBVIOUS
<1>0. /\ pc = "bind" /\ pc' = "permissions" /\ objects' = objects \cup {Binding(item, cur)}
      /\ todo' = todo \ {item}
      /\ UNCHANGED <<api, edited, cur, view, current, denied>>
  BY DEF EnsureRoleBinding, Put, OnKind
<1>1. /\ item \in todo /\ todo \subseteq view.want \ References /\ item \in Names
      /\ Role(item, cur) \in objects /\ Account(cur) \in objects
  BY <1>0 DEF PassInvariant, EnsuredSoFar, TypeOK
<1>2. Binding(item, cur).owner = cur
  BY DEF Binding
<1>3. BindingsBacked'
  BY <1>0, <1>1, BackedAdded
<1>4. EnsuredSoFar'
  <2>1. Account(cur)' = Account(cur)
    BY <1>0 DEF Account
  <2>2. /\ Needed(cur, (view.want \ References) \ todo)' = Needed(cur, (view.want \ References) \ todo')
        /\ Needed(cur, view.want)' = Needed(cur, view.want)
    BY <1>0 DEF Needed
  <2>3. ~denied => Needed(cur, (view.want \ References) \ todo') \subseteq objects'
    <3> SUFFICES ASSUME ~denied PROVE Needed(cur, (view.want \ References) \ todo') \subseteq objects'
      OBVIOUS
    <3>1. Needed(cur, (view.want \ References) \ todo) \subseteq objects'
      BY <1>0 DEF PassInvariant, EnsuredSoFar
    <3>2. (view.want \ References) \ todo' \subseteq ((view.want \ References) \ todo) \cup {item}
      BY <1>0
    <3> QED
      BY <1>0, <1>1, <3>1, <3>2, NeededMore
  <2> QED
    BY <1>0, <1>1, <2>1, <2>2, <2>3 DEF PassInvariant, EnsuredSoFar, Kinds
<1> QED
  BY <1>0, <1>2, <1>3, <1>4, ProvideInductive DEF Providing

(* EnsureReference binds a role that is not ours.                          *)
LEMMA EnsureReferenceInductive ==
  ASSUME TypeOK, PassInvariant, NEW n \in Names, EnsureReference(n) PROVE PassInvariant'
<1>0. /\ pc = "references" /\ pc' = "references" /\ objects' = objects \cup {Binding(n, cur)}
      /\ n \in todo /\ todo' = todo \ {n}
      /\ UNCHANGED <<api, edited, cur, view, current, denied>>
  BY DEF EnsureReference, Put, OnKind
<1>1. todo \subseteq References /\ Account(cur) \in objects
  BY <1>0 DEF PassInvariant, EnsuredSoFar
<1>2. Binding(n, cur).owner = cur
  BY DEF Binding
<1>3. BindingsBacked'
  BY <1>0, <1>1, BackedAdded
<1>4. EnsuredSoFar'
  <2>1. Account(cur)' = Account(cur)
    BY <1>0 DEF Account
  <2>2. /\ Needed(cur, view.want \ todo)' = Needed(cur, view.want \ todo')
        /\ Needed(cur, view.want)' = Needed(cur, view.want)
    BY <1>0 DEF Needed
  <2>3. ~denied => Needed(cur, view.want \ todo') \subseteq objects'
    <3> SUFFICES ASSUME ~denied PROVE Needed(cur, view.want \ todo') \subseteq objects'
      OBVIOUS
    <3>1. Needed(cur, view.want \ todo) \subseteq objects'
      BY <1>0 DEF PassInvariant, EnsuredSoFar
    <3>2. view.want \ todo' \subseteq (view.want \ todo) \cup {n}
      BY <1>0
    <3> QED
      BY <1>0, <1>1, <3>1, <3>2, NeededMore
  <2> QED
    BY <1>0, <1>1, <2>1, <2>2, <2>3 DEF PassInvariant, EnsuredSoFar, Kinds
<1> QED
  BY <1>0, <1>2, <1>3, <1>4, ProvideInductive DEF Providing

(* A pass that gives up.                                                   *)
LEMMA FailInductive ==
  ASSUME TypeOK, PassInvariant, pc # "idle", pc' = "fail",
         UNCHANGED <<objects, api, edited, cur, view, current>>
  PROVE  PassInvariant'
<1>1. Needed(cur, view.want)' = Needed(cur, view.want)
  BY DEF Needed
<1>2. EnsuredSoFar'
  BY <1>1 DEF PassInvariant, EnsuredSoFar, Kinds
<1>3. CopyJustified' /\ PassJustified' /\ CleanedSoFar'
  BY DEF PassInvariant, CopyJustified, PassJustified, Providing, CleanedSoFar, Kinds
<1>4. BindingsBacked' /\ NothingBefore' /\ NoLeftovers' /\ GrantBacked'
  BY DEF PassInvariant, BindingsBacked, NothingBefore, NoLeftovers, Owned, GrantBacked, Needed
<1> QED
  BY <1>2, <1>3, <1>4 DEF PassInvariant

(* A name that is skipped keeps the token from being issued.               *)
LEMMA SkipInductive ==
  ASSUME TypeOK, PassInvariant, NEW n, SkipName(n), edited' = edited,
         pc \in {"permissions", "bind", "references"},
         NEW o, o.owner = cur, objects' = objects \/ objects' = objects \cup {o},
         BindingsBacked'
  PROVE  PassInvariant'
<1>0. /\ denied' /\ todo' = todo \ {n}
      /\ pc' = IF pc = "bind" THEN "permissions" ELSE pc
      /\ UNCHANGED <<api, edited, cur, view, current>>
  BY DEF SkipName, OnKind
<1>1. Account(cur)' = Account(cur)
  BY <1>0 DEF Account
<1>2. Needed(cur, view.want)' = Needed(cur, view.want)
  BY <1>0 DEF Needed
<1>3. EnsuredSoFar'
  BY <1>0, <1>1, <1>2 DEF PassInvariant, EnsuredSoFar, Kinds
<1> QED
  BY <1>0, <1>3, ProvideInductive DEF Providing

(* Refused changes nothing on the kind cluster.                            *)
LEMMA RefusedInductive ==
  ASSUME TypeOK, PassInvariant, NEW n \in Names, Refused(n) PROVE PassInvariant'
<1>1. /\ SkipName(n) /\ UNCHANGED <<objects, edited>> /\ pc \in {"permissions", "bind"}
  BY DEF Refused
<1>2. Account(cur).owner = cur /\ Account(cur).kind = "ServiceAccount"
  BY DEF Account
<1>3. BindingsBacked'
  BY <1>1, <1>2, BackedAdded
<1> QED
  BY <1>1, <1>2, <1>3, SkipInductive

(* EnsureFails may have its effect or not.                                 *)
LEMMA EnsureFailsInductive ==
  ASSUME TypeOK, PassInvariant, NEW n \in Names, EnsureFails(n) PROVE PassInvariant'
<1>0. SkipName(n) /\ edited' = edited /\ pc \in {"permissions", "bind", "references"} /\ n \in todo
  BY DEF EnsureFails, Fault
<1>1. CASE pc = "permissions"
  <2>1. objects' = objects \/ objects' = objects \cup {Role(n, cur)}
    BY <1>1 DEF EnsureFails, Put
  <2>2. Role(n, cur).owner = cur /\ Role(n, cur).kind \in {"Role", "ClusterRole"}
    BY DEF Role
  <2>3. BindingsBacked'
    BY <2>1, <2>2, BackedAdded
  <2> QED
    BY <1>0, <2>1, <2>2, <2>3, SkipInductive
<1>2. CASE pc \in {"bind", "references"}
  <2>1. objects' = objects \/ objects' = objects \cup {Binding(n, cur)}
    BY <1>2 DEF EnsureFails, Put
  <2>2. Binding(n, cur).owner = cur
    BY DEF Binding
  <2>3. pc = "bind" => n = item
    BY DEF EnsureFails
  <2>4. Account(cur) \in objects /\ (n \notin References => Role(n, cur) \in objects)
    BY <1>0, <1>2, <2>3 DEF PassInvariant, EnsuredSoFar
  <2>5. BindingsBacked'
    BY <2>1, <2>4, BackedAdded
  <2> QED
    BY <1>0, <2>1, <2>2, <2>5, SkipInductive
<1> QED
  BY <1>0, <1>1, <1>2

(* PermissionsDone goes on only if no permission was skipped.              *)
LEMMA PermissionsDoneInductive ==
  TypeOK /\ PassInvariant /\ PermissionsDone => PassInvariant'
<1> SUFFICES ASSUME TypeOK, PassInvariant, PermissionsDone PROVE PassInvariant'
  OBVIOUS
<1>0. /\ pc = "permissions" /\ todo = {}
      /\ UNCHANGED <<objects, api, edited, cur, view, current, denied>>
  BY DEF PermissionsDone, OnKind
<1>1. CASE denied
  BY <1>0, <1>1, FailInductive DEF PermissionsDone
<1>2. CASE ~denied
  <2>1. pc' = "references" /\ todo' = view.want \cap References
    BY <1>2 DEF PermissionsDone
  <2>2. Account(cur)' = Account(cur) /\ Account(cur).owner = cur
        /\ Account(cur).kind = "ServiceAccount"
    BY <1>0 DEF Account
  <2>3. Needed(cur, view.want \ todo)' = Needed(cur, (view.want \ References) \ todo)
    <3>1. view.want \ todo' = (view.want \ References) \ todo
      BY <1>0, <2>1
    <3> QED
      BY <1>0, <3>1 DEF Needed
  <2>4. Needed(cur, view.want)' = Needed(cur, view.want)
    BY <1>0 DEF Needed
  <2>5. EnsuredSoFar'
    BY <1>0, <2>1, <2>2, <2>3, <2>4 DEF PassInvariant, EnsuredSoFar, Kinds
  <2>6. BindingsBacked'
    BY <1>0, <2>2, BackedAdded
  <2> QED
    BY <1>0, <2>1, <2>2, <2>5, <2>6, ProvideInductive DEF Providing
<1> QED
  BY <1>1, <1>2

(* ReferencesDone goes on only if all the request needs is there.          *)
LEMMA ReferencesDoneInductive ==
  TypeOK /\ PassInvariant /\ ReferencesDone => PassInvariant'
<1> SUFFICES ASSUME TypeOK, PassInvariant, ReferencesDone PROVE PassInvariant'
  OBVIOUS
<1>0. /\ pc = "references" /\ todo = {} /\ pc' = IF denied THEN "fail" ELSE "token"
      /\ UNCHANGED <<objects, api, edited, cur, view, current>>
  BY DEF ReferencesDone, Goto
<1>1. CASE denied
  BY <1>0, <1>1, FailInductive
<1>2. CASE ~denied
  <2>1. Account(cur).owner = cur /\ Account(cur).kind = "ServiceAccount"
    BY DEF Account
  <2>2. view.want \ todo = view.want
    BY <1>0
  <2>3. Needed(cur, view.want)' = Needed(cur, view.want)
    BY <1>0 DEF Needed
  <2>4. EnsuredSoFar'
    BY <1>0, <1>2, <2>2, <2>3 DEF PassInvariant, EnsuredSoFar, Kinds
  <2>5. BindingsBacked'
    BY <1>0, <2>1, BackedAdded
  <2> QED
    BY <1>0, <1>2, <2>1, <2>4, <2>5, ProvideInductive DEF Providing
<1> QED
  BY <1>1, <1>2

(* The copy is granted, and has all the request asks for.                  *)
LEMMA IssueTokenInductive ==
  TypeOK /\ PassInvariant /\ IssueToken => PassInvariant'
<1> SUFFICES ASSUME TypeOK, PassInvariant, IssueToken PROVE PassInvariant'
  OBVIOUS
<1>0. /\ pc = "token" /\ pc' = "RoleBinding" /\ view' = [view EXCEPT !.granted = TRUE]
      /\ UNCHANGED <<objects, api, edited, cur, current>>
  BY DEF IssueToken
<1>1. /\ view'.st = view.st /\ view'.fin = view.fin /\ view'.want = view.want /\ view'.granted
      /\ view' = [view EXCEPT !.granted = view'.granted]
      /\ view.st = "live" /\ view.fin
  BY <1>0 DEF TypeOK, Request, PassInvariant, PassJustified, Providing
<1>2. CopyJustified'
  <2>1. current => view' = [api[cur] EXCEPT !.granted = view'.granted]
    BY <1>0, <1>1 DEF PassInvariant, CopyJustified, TypeOK, Request
  <2> QED
    BY <1>0, <1>1, <2>1 DEF PassInvariant, CopyJustified, Exists
<1>3. PassJustified'
  BY <1>0, <1>1 DEF PassJustified, Providing
<1>4. EnsuredSoFar'
  <2>1. Needed(cur, view.want)' = Needed(cur, view.want)
    BY <1>0, <1>1 DEF Needed
  <2> QED
    BY <1>0, <2>1 DEF PassInvariant, EnsuredSoFar, Kinds
<1>5. CleanedSoFar'
  BY <1>0 DEF CleanedSoFar, Before, Kinds
<1>6. BindingsBacked' /\ NothingBefore' /\ NoLeftovers' /\ GrantBacked'
  BY <1>0 DEF PassInvariant, BindingsBacked, NothingBefore, NoLeftovers, Owned, GrantBacked, Needed
<1> QED
  BY <1>2, <1>3, <1>4, <1>5, <1>6 DEF PassInvariant

(* What may be removed: nothing another request has, nothing that this one *)
(* still asks for, no role or account whose binding is still there.        *)
LEMMA CleanUpSafe ==
  ASSUME TypeOK, PassInvariant, NEW k \in Kinds, pc = k, NEW os \in SUBSET Doomed(k),
         objects' = objects \ os, UNCHANGED <<api, edited, cur, view>>
  PROVE  /\ BindingsBacked' /\ NothingBefore' /\ NoLeftovers' /\ GrantBacked'
         /\ view.st = "live" /\ Needed(cur, view.want) \subseteq objects
              => Needed(cur, view.want) \subseteq objects'
<1>0. /\ cur \in Requests /\ pc # "idle" /\ view.st \in {"live", "deleting"}
      /\ view.want \subseteq Names
  BY DEF Kinds, PassInvariant, CopyJustified, Exists, TypeOK, Request
<1>1. \A o \in os : o.kind = k /\ o.owner = cur /\ o \in objects /\ o \notin Keep
  BY DEF Doomed
<1>2. view.st = "live" => Keep = Needed(cur, view.want)
  BY DEF Keep
<1>3. view.st = "live" /\ Needed(cur, view.want) \subseteq objects
        => Needed(cur, view.want) \subseteq objects'
  BY <1>1, <1>2
<1>4. BindingsBacked'
  <2> SUFFICES ASSUME NEW r \in Requests, NEW n \in Names, Binding(n, r) \in objects'
               PROVE  /\ Account(r) \in objects'
                      /\ n \notin References => Role(n, r) \in objects'
    BY DEF BindingsBacked, Binding, Account, Role
  <2>1. /\ Binding(n, r) \in objects /\ Account(r) \in objects
        /\ n \notin References => Role(n, r) \in objects
    BY DEF PassInvariant, BindingsBacked
  <2>2. CASE r # cur
    <3>1. Account(r) \notin os /\ Role(n, r) \notin os
      BY <1>1, <2>2 DEF Account, Role
    <3> QED
      BY <2>1, <3>1
  <2>3. CASE r = cur
    <3>1. Account(cur) \notin os
      <4> SUFFICES ASSUME Account(cur) \in os PROVE FALSE
        OBVIOUS
      <4>1. k = "ServiceAccount" /\ Account(cur) \notin Keep
        BY <1>1 DEF Account
      <4>2. Keep = {}
        BY <4>1 DEF Keep, Needed
      <4>3. Binding(n, cur).kind \in Before[k]
        BY <4>1 DEF Before, Binding
      <4>4. Doomed(Binding(n, cur).kind) = {}
        BY <4>3 DEF PassInvariant, CleanedSoFar
      <4> QED
        BY <2>1, <2>3, <4>2, <4>4 DEF Doomed, Binding
    <3>2. ASSUME n \notin References PROVE Role(n, cur) \notin os
      <4> SUFFICES ASSUME Role(n, cur) \in os PROVE FALSE
        OBVIOUS
      <4>1. k = Role(n, cur).kind /\ Role(n, cur) \notin Keep
        BY <1>1
      <4>2. Binding(n, cur).kind \in Before[k]
        BY <4>1 DEF Before, Binding, Role
      <4>3. Doomed(Binding(n, cur).kind) = {}
        BY <4>2 DEF PassInvariant, CleanedSoFar
      <4>4. Binding(n, cur) \in Keep
        BY <2>1, <2>3, <4>3 DEF Doomed, Binding
      <4>5. Keep = Needed(cur, view.want)
        BY <4>4 DEF Keep
      <4>6. PICK m \in view.want : Binding(n, cur) = Binding(m, cur)
        <5>1. \A m : Binding(n, cur) # Account(cur) /\ Binding(n, cur) # Role(m, cur)
          BY DEF Binding, Account, Role
        <5> QED
          BY <4>4, <4>5, <5>1 DEF Needed
      <4>7. n = m
        BY <4>6 DEF Binding
      <4> QED
        BY <3>2, <4>1, <4>5, <4>7 DEF Needed
    <3> QED
      BY <2>1, <2>3, <3>1, <3>2
  <2> QED
    BY <2>2, <2>3
<1>5. NoLeftovers'
  BY DEF PassInvariant, NoLeftovers, Owned
<1>6. GrantBacked'
  <2> SUFFICES ASSUME NEW r \in Requests, api[r].st = "live", api[r].granted, r \notin edited
               PROVE  Needed(r, api[r].want) \subseteq objects'
    BY DEF GrantBacked, Needed
  <2>1. Needed(r, api[r].want) \subseteq objects
    BY DEF PassInvariant, GrantBacked
  <2>2. CASE r # cur
    <3>1. \A o \in Needed(r, api[r].want) : o.owner = r
      BY NeededTyped DEF TypeOK, Request
    <3> QED
      BY <1>1, <2>1, <2>2, <3>1
  <2>3. CASE r = cur
    <3>1. view.st = "live" /\ view.want = api[r].want
      BY <1>0, <2>3 DEF PassInvariant, CopyJustified
    <3> QED
      BY <1>3, <2>1, <2>3, <3>1
  <2> QED
    BY <2>2, <2>3
<1> QED
  BY <1>3, <1>4, <1>5, <1>6 DEF PassInvariant, NothingBefore

(* CleanUp finishes a kind.                                                *)
LEMMA CleanUpInductive ==
  ASSUME TypeOK, PassInvariant, NEW k \in Kinds, CleanUp(k) PROVE PassInvariant'
<1>0. /\ pc = k /\ objects' = objects \ Doomed(k)
      /\ UNCHANGED <<api, edited, cur, view, current>>
      /\ pc' = IF k # "ServiceAccount" THEN Following[k]
               ELSE IF view.st = "deleting" THEN "release" ELSE "done"
  BY DEF CleanUp, Goto
<1>1. /\ BindingsBacked' /\ NothingBefore' /\ NoLeftovers' /\ GrantBacked'
      /\ view.st = "live" /\ Needed(cur, view.want) \subseteq objects
           => Needed(cur, view.want) \subseteq objects'
  BY <1>0, CleanUpSafe
<1>2. /\ pc # "idle" /\ view.st \in {"live", "deleting"}
      /\ pc' \in Kinds \cup {"release", "done"}
      /\ pc' = "release" => view.st = "deleting"
      /\ pc' \in Kinds \cup {"release"} => Before[pc'] = Before[k] \cup {k}
  BY <1>0 DEF Kinds, Following, Before, PassInvariant, CopyJustified, Exists
<1>3. CopyJustified' /\ PassJustified'
  BY <1>0, <1>2 DEF PassInvariant, CopyJustified, PassJustified, Providing, Kinds
<1>4. EnsuredSoFar'
  <2>1. Needed(cur, view.want)' = Needed(cur, view.want)
    BY <1>0 DEF Needed
  <2> QED
    BY <1>0, <1>1, <1>2, <2>1 DEF PassInvariant, EnsuredSoFar, Kinds
<1>5. CleanedSoFar'
  <2> SUFFICES ASSUME pc' \in Kinds \cup {"release"}, NEW j \in Before[pc']
               PROVE  Doomed(j)' = {}
    BY DEF CleanedSoFar, Doomed
  <2>1. Doomed(j)' = Doomed(j) \ Doomed(k)
    BY <1>0 DEF Doomed, Keep, Needed
  <2>2. j = k \/ Doomed(j) = {}
    BY <1>0, <1>2 DEF PassInvariant, CleanedSoFar
  <2> QED
    BY <2>1, <2>2
<1> QED
  BY <1>1, <1>3, <1>4, <1>5 DEF PassInvariant

(* CleanUpFails leaves some of a kind, which is safe to leave.             *)
LEMMA CleanUpFailsInductive ==
  ASSUME TypeOK, PassInvariant, NEW k \in Kinds, CleanUpFails(k) PROVE PassInvariant'
<1>0. /\ pc = k /\ pc' = "fail" /\ UNCHANGED <<api, edited, cur, view, current>>
  BY DEF CleanUpFails, Goto, Fault
<1>1. PICK os \in SUBSET Doomed(k) : objects' = objects \ os
  BY DEF CleanUpFails
<1>2. /\ BindingsBacked' /\ NothingBefore' /\ NoLeftovers' /\ GrantBacked'
      /\ view.st = "live" /\ Needed(cur, view.want) \subseteq objects
           => Needed(cur, view.want) \subseteq objects'
  BY <1>0, <1>1, CleanUpSafe
<1>3. pc # "idle"
  BY <1>0 DEF Kinds
<1>4. CopyJustified' /\ PassJustified' /\ CleanedSoFar'
  BY <1>0, <1>3 DEF PassInvariant, CopyJustified, PassJustified, Providing, CleanedSoFar, Kinds
<1>5. EnsuredSoFar'
  <2>1. Needed(cur, view.want)' = Needed(cur, view.want)
    BY <1>0 DEF Needed
  <2> QED
    BY <1>0, <1>2, <1>3, <2>1 DEF PassInvariant, EnsuredSoFar, Kinds
<1> QED
  BY <1>2, <1>4, <1>5 DEF PassInvariant

(* The finalizer is set, or removed when nothing is left; the answer may   *)
(* be lost.                                                                *)
LEMMA FinalizerWritten ==
  ASSUME TypeOK, PassInvariant, current, UNCHANGED <<objects, edited>>,
         pc \in {"claim", "release"}, Write(cur, [view EXCEPT !.fin = (pc = "claim")])
  PROVE  /\ cur \in Requests /\ UNCHANGED <<objects, edited>>
         /\ \A r \in Requests : r # cur => api'[r] = api[r]
         /\ pc = "claim" => api'[cur] = [view EXCEPT !.fin = TRUE]
         /\ pc = "release" => api'[cur].st = "gone" /\ Owned(cur) = {}
         /\ api'[cur].want = view.want /\ view.want = api[cur].want
         /\ view.st = api[cur].st /\ view.fin = api[cur].fin
         /\ BindingsBacked' /\ NothingBefore' /\ NoLeftovers' /\ GrantBacked'
<1> DEFINE o == [view EXCEPT !.fin = (pc = "claim")]
<1>0. /\ cur \in Requests /\ pc # "idle" /\ view \in Request /\ o \in Request
      /\ o.st = view.st /\ o.want = view.want /\ o.granted = view.granted
      /\ o.fin = (pc = "claim")
      /\ view = [api[cur] EXCEPT !.granted = view.granted] /\ api[cur] \in Request
  BY DEF PassInvariant, CopyJustified, TypeOK, Request
<1>1. /\ \A r \in Requests : r # cur => api'[r] = api[r]
      /\ api'[cur] = Settled(o)
  BY <1>0 DEF Write, TypeOK
<1>2. /\ view.want = api[cur].want /\ view.st = api[cur].st /\ view.fin = api[cur].fin
      /\ pc = "claim" => view.st = "live"
      /\ pc = "release" => view.st = "deleting"
  BY <1>0 DEF PassInvariant, PassJustified, Request
<1>3. /\ pc = "claim" => api'[cur] = [view EXCEPT !.fin = TRUE] /\ Exists(api'[cur]) /\ api'[cur].fin
      /\ pc = "release" => api'[cur].st = "gone"
      /\ api'[cur].want = view.want /\ api'[cur].granted = view.granted
      /\ pc = "claim" => api'[cur].st = "live"
  BY <1>0, <1>1, <1>2, SettledTyped DEF Settled, Exists
<1>4. pc = "release" => Owned(cur) = {}
  <2> SUFFICES ASSUME pc = "release", NEW x \in objects, x.owner = cur PROVE FALSE
    BY DEF Owned
  <2>1. x.kind \in Kinds /\ Keep = {}
    BY <1>2 DEF TypeOK, Objects, Keep
  <2>2. Doomed(x.kind) = {}
    BY <2>1 DEF PassInvariant, CleanedSoFar, Before
  <2> QED
    BY <2>1, <2>2 DEF Doomed
<1>5. BindingsBacked'
  BY DEF PassInvariant, BindingsBacked
<1>6. NothingBefore'
  BY <1>1, <1>3 DEF PassInvariant, NothingBefore
<1>7. NoLeftovers'
  <2>1. \A r \in Requests : Owned(r)' = Owned(r)
    BY DEF Owned
  <2> QED
    BY <1>1, <1>3, <1>4, <2>1 DEF PassInvariant, NoLeftovers
<1>8. GrantBacked'
  <2> SUFFICES ASSUME NEW r \in Requests, api'[r].st = "live", api'[r].granted, r \notin edited
               PROVE  Needed(r, api'[r].want) \subseteq objects
    BY DEF GrantBacked, Needed
  <2>1. CASE r # cur
    BY <1>1, <2>1 DEF PassInvariant, GrantBacked
  <2>2. CASE r = cur
    <3>1. pc = "claim" /\ view.st = "live" /\ view.granted
      BY <1>2, <1>3, <2>2
    <3> QED
      BY <1>0, <1>3, <2>2, <3>1 DEF PassInvariant, EnsuredSoFar
  <2> QED
    BY <2>1, <2>2
<1> QED
  BY <1>0, <1>1, <1>2, <1>3, <1>4, <1>5, <1>6, <1>7, <1>8

(* AddFinalizer makes the copy one to provide for.                         *)
LEMMA AddFinalizerInductive ==
  TypeOK /\ PassInvariant /\ AddFinalizer => PassInvariant'
<1> SUFFICES ASSUME TypeOK, PassInvariant, AddFinalizer PROVE PassInvariant'
  OBVIOUS
<1>0. /\ pc = "claim" /\ current /\ pc' = "account" /\ view' = api'[cur]
      /\ Write(cur, [view EXCEPT !.fin = (pc = "claim")])
      /\ UNCHANGED <<objects, edited, cur, current>>
  BY DEF AddFinalizer
<1>1. /\ cur \in Requests /\ view' = [view EXCEPT !.fin = TRUE] /\ view'.want = view.want
      /\ BindingsBacked' /\ NothingBefore' /\ NoLeftovers' /\ GrantBacked'
  BY <1>0, FinalizerWritten
<1>2. /\ view' \in Request /\ view'.st = "live" /\ view'.fin /\ view'.granted = view.granted
  BY <1>0, <1>1 DEF PassInvariant, PassJustified, TypeOK, Request
<1>3. CopyJustified'
  <2>1. cur \notin edited => view'.want = api'[cur].want
    BY <1>0
  <2>2. view' = [api'[cur] EXCEPT !.granted = view'.granted]
    BY <1>0, <1>2 DEF Request
  <2> QED
    BY <1>0, <1>1, <1>2, <2>1, <2>2 DEF CopyJustified, Exists
<1>4. PassJustified' /\ CleanedSoFar'
  BY <1>0, <1>2 DEF PassJustified, Providing, CleanedSoFar, Kinds
<1>5. EnsuredSoFar'
  <2>1. Needed(cur, view.want)' = Needed(cur, view.want)
    BY <1>0, <1>1 DEF Needed
  <2> QED
    BY <1>0, <1>2, <2>1 DEF PassInvariant, PassJustified, EnsuredSoFar, Kinds
<1> QED
  BY <1>1, <1>3, <1>4, <1>5 DEF PassInvariant

(* CallFails, without effect or with its answer lost.                      *)
LEMMA CallFailsInductive ==
  TypeOK /\ PassInvariant /\ CallFails => PassInvariant'
<1> SUFFICES ASSUME TypeOK, PassInvariant, CallFails PROVE PassInvariant'
  OBVIOUS
<1>0. edited' = edited
  BY DEF CallFails, Fault
<1>1. CASE /\ pc \in {"claim", "release", "account", "token"}
           /\ Goto("fail") /\ UNCHANGED <<objects, api, due, pending>>
  BY <1>0, <1>1, FailInductive DEF Goto
<1>2. CASE /\ pc = "account" /\ Put(Account(cur)) /\ Goto("fail")
           /\ UNCHANGED <<api, due, pending>>
  <2>1. /\ objects' = objects \cup {Account(cur)} /\ pc' = "fail"
        /\ UNCHANGED <<cur, view, current, api>>
    BY <1>2 DEF Put, Goto
  <2>2. Account(cur).owner = cur /\ Account(cur).kind = "ServiceAccount"
    BY DEF Account
  <2>3. BindingsBacked'
    BY <2>1, <2>2, BackedAdded
  <2>4. EnsuredSoFar'
    <3>1. Needed(cur, view.want)' = Needed(cur, view.want)
      BY <2>1 DEF Needed
    <3> QED
      BY <1>0, <1>2, <2>1, <3>1 DEF PassInvariant, EnsuredSoFar, Kinds
  <2> QED
    BY <1>0, <1>2, <2>1, <2>2, <2>3, <2>4, ProvideInductive DEF Providing
<1>3. CASE /\ pc \in {"claim", "release"} /\ current
           /\ Write(cur, [view EXCEPT !.fin = (pc = "claim")])
           /\ pc' = "fail" /\ current' = FALSE
           /\ UNCHANGED <<objects, due, cur, view, todo, item, denied>>
  <2>1. /\ cur \in Requests /\ api'[cur].want = view.want /\ view.want = api[cur].want
        /\ pc = "claim" => api'[cur] = [view EXCEPT !.fin = TRUE]
        /\ pc = "release" => api'[cur].st = "gone"
        /\ BindingsBacked' /\ NothingBefore' /\ NoLeftovers' /\ GrantBacked'
    BY <1>0, <1>3, FinalizerWritten
  <2>2. CopyJustified'
    <3>1. /\ pc = "claim" => view.st = "live"
          /\ pc = "release" => view.st = "deleting"
          /\ Exists(view) /\ view \in Request
      BY <1>3 DEF PassInvariant, PassJustified, CopyJustified, TypeOK
    <3>2. /\ pc = "claim" => api'[cur].st = "live" /\ api'[cur].fin
      BY <2>1, <3>1 DEF Request
    <3> QED
      BY <1>0, <1>3, <2>1, <3>1, <3>2 DEF CopyJustified, Exists
  <2>3. PassJustified' /\ CleanedSoFar'
    BY <1>3 DEF PassJustified, Providing, CleanedSoFar, Kinds
  <2>4. EnsuredSoFar'
    <3>1. Needed(cur, view.want)' = Needed(cur, view.want)
      BY <1>3 DEF Needed
    <3> QED
      BY <1>0, <1>3, <3>1 DEF PassInvariant, EnsuredSoFar, Kinds
  <2> QED
    BY <2>1, <2>2, <2>3, <2>4 DEF PassInvariant
<1>4. CASE /\ pc \in {"done", "fail"} /\ pending' = pending \cup {cur} /\ Idle
           /\ UNCHANGED <<objects, api, due>>
  <2>1. NothingBefore' /\ NoLeftovers' /\ GrantBacked'
    BY <1>0, <1>4 DEF PassInvariant, NothingBefore, NoLeftovers, Owned, GrantBacked, Needed
  <2> QED
    BY <1>0, <1>4, <2>1, IdleInductive
<1> QED
  BY <1>1, <1>2, <1>3, <1>4 DEF CallFails

(* The end of a pass.                                                      *)
LEMMA EndInductive ==
  TypeOK /\ PassInvariant /\ (RemoveFinalizer \/ SaveStatus \/ SaveMissing \/ PatchRejected \/ Crash)
    => PassInvariant'
<1> SUFFICES ASSUME TypeOK, PassInvariant,
                    RemoveFinalizer \/ SaveStatus \/ SaveMissing \/ PatchRejected \/ Crash
             PROVE  PassInvariant'
  OBVIOUS
<1>1. CASE RemoveFinalizer
  <2>1. /\ pc = "release" /\ current /\ Idle /\ UNCHANGED <<objects, edited>>
        /\ Write(cur, [view EXCEPT !.fin = (pc = "claim")])
    BY <1>1 DEF RemoveFinalizer
  <2> QED
    BY <2>1, FinalizerWritten, IdleInductive
<1>2. CASE SaveStatus
  <2>1. /\ pc \in {"done", "fail"} /\ Idle /\ UNCHANGED <<objects, edited>>
        /\ api' = [api EXCEPT ![cur].granted = @ \/ view.granted]
        /\ Exists(api[cur])
    BY <1>2 DEF SaveStatus
  <2>2. /\ cur \in Requests /\ pc # "idle"
        /\ \A r \in Requests : r # cur => api'[r] = api[r]
        /\ api'[cur].st = api[cur].st /\ api'[cur].fin = api[cur].fin
        /\ api'[cur].want = api[cur].want
        /\ api'[cur].granted = (api[cur].granted \/ view.granted)
    BY <2>1 DEF PassInvariant, CopyJustified, TypeOK, Request
  <2>3. NothingBefore'
    BY <2>1, <2>2 DEF PassInvariant, NothingBefore, Exists
  <2>4. NoLeftovers'
    <3>1. \A r \in Requests : Owned(r)' = Owned(r)
      BY <2>1 DEF Owned
    <3>2. \A r \in Requests : Exists(api'[r]) = Exists(api[r]) /\ api'[r].fin = api[r].fin
      BY <2>2 DEF Exists
    <3> QED
      BY <3>1, <3>2 DEF PassInvariant, NoLeftovers
  <2>5. GrantBacked'
    <3> SUFFICES ASSUME NEW r \in Requests, api'[r].st = "live", api'[r].granted, r \notin edited
                 PROVE  Needed(r, api'[r].want) \subseteq objects
      BY <2>1 DEF GrantBacked, Needed
    <3>1. CASE api[r].granted
      BY <2>2, <3>1 DEF PassInvariant, GrantBacked
    <3>2. CASE ~api[r].granted
      <4>1. r = cur /\ view.granted /\ view.st = "live" /\ view.want = api'[r].want
        BY <2>2, <3>2 DEF PassInvariant, CopyJustified, Exists
      <4> QED
        BY <2>2, <4>1 DEF PassInvariant, EnsuredSoFar
    <3> QED
      BY <3>1, <3>2
  <2> QED
    BY <2>1, <2>3, <2>4, <2>5, IdleInductive
<1>3. CASE SaveMissing \/ PatchRejected \/ Crash
  <2>1. Idle /\ UNCHANGED <<objects, api, edited>>
    BY <1>3 DEF SaveMissing, PatchRejected, Crash, Fault
  <2>2. NothingBefore' /\ NoLeftovers' /\ GrantBacked'
    BY <2>1 DEF PassInvariant, NothingBefore, NoLeftovers, Owned, GrantBacked, Needed
  <2> QED
    BY <2>1, <2>2, IdleInductive
<1> QED
  BY <1>1, <1>2, <1>3

(* Users create, change and delete requests.                               *)
LEMMA UsersInductive ==
  ASSUME TypeOK, PassInvariant, NEW r \in Requests,
         CreateRequest(r) \/ EditRequest(r) \/ DeleteRequest(r)
  PROVE  PassInvariant'
<1>0. api[r] \in Request /\ edited \subseteq Requests
  BY BoundsAssumption DEF TypeOK
<1>1. CASE CreateRequest(r)
  <2>1. PICK ns \in SUBSET Askable[r] : User(r, [api[r] EXCEPT !.st = "live", !.want = ns])
    BY <1>1 DEF CreateRequest
  <2> DEFINE o == [api[r] EXCEPT !.st = "live", !.want = ns]
  <2>2. o \in Request /\ o.fin = api[r].fin /\ o.granted = api[r].granted /\ o.st = "live"
    BY <1>0, NamesAssumption DEF Request
  <2>3. api[r].st = "none" /\ edited' = edited
    BY <1>1 DEF CreateRequest
  <2>4. User(r, o)
    BY <2>1
  <2> HIDE DEF o
  <2> QED
    BY <1>0, <2>2, <2>3, <2>4, UserInductive
<1>2. CASE EditRequest(r)
  <2>1. PICK ns \in (SUBSET Askable[r]) \ {api[r].want} : User(r, [api[r] EXCEPT !.want = ns])
    BY <1>2 DEF EditRequest
  <2> DEFINE o == [api[r] EXCEPT !.want = ns]
  <2>2. o \in Request /\ o.fin = api[r].fin /\ o.granted = api[r].granted /\ o.st = api[r].st
    BY <1>0, NamesAssumption DEF Request
  <2>3. api[r].st = "live" /\ edited' = edited \cup {r}
    BY <1>2 DEF EditRequest
  <2>4. User(r, o)
    BY <2>1
  <2> HIDE DEF o
  <2> QED
    BY <1>0, <2>2, <2>3, <2>4, UserInductive
<1>3. CASE DeleteRequest(r)
  <2> DEFINE o == [api[r] EXCEPT !.st = "deleting"]
  <2>1. /\ o \in Request /\ o.fin = api[r].fin /\ o.granted = api[r].granted
        /\ o.st = "deleting" /\ o.want = api[r].want
    BY <1>0 DEF Request
  <2>2. api[r].st = "live" /\ edited' = edited /\ User(r, o)
    BY <1>3 DEF DeleteRequest
  <2> HIDE DEF o
  <2> QED
    BY <1>0, <2>1, <2>2, UserInductive
<1> QED
  BY <1>1, <1>2, <1>3

(* Every step preserves what the passes rely on.                           *)
LEMMA PassInductive == TypeOK /\ PassInvariant /\ [Next]_vars => PassInvariant'
<1> SUFFICES ASSUME TypeOK, PassInvariant, [Next]_vars PROVE PassInvariant'
  OBVIOUS
<1>1. ASSUME NEW r \in Requests,
             CreateRequest(r) \/ EditRequest(r) \/ DeleteRequest(r) \/ TokenAges(r) \/ Take(r)
      PROVE  PassInvariant'
  <2>1. CASE TokenAges(r) \/ Take(r)
    <3>1. CASE TokenAges(r)
      BY <3>1 DEF TokenAges, PassInvariant, CopyJustified, PassJustified, Providing, EnsuredSoFar,
         Needed, CleanedSoFar, Doomed, Keep, NothingBefore, BindingsBacked, NoLeftovers, Owned,
         GrantBacked
    <3> QED
      BY <2>1, <3>1, TakeInductive
  <2> QED
    BY <1>1, <2>1, UsersInductive
<1>2. CASE Step
  <2>1. CASE Rejected
    <3>1. /\ pc # "idle" /\ pc' = "fail"
          /\ UNCHANGED <<objects, api, edited, cur, view, current>>
      BY <2>1 DEF Rejected, Goto
    <3> QED
      BY <3>1, FailInductive
  <2>2. CASE AddFinalizer \/ RemoveFinalizer \/ SaveStatus \/ SaveMissing \/ PatchRejected
    BY <2>2, AddFinalizerInductive, EndInductive
  <2>3. CASE EnsureAccount \/ EnsureRoleBinding \/ PermissionsDone \/ ReferencesDone \/ IssueToken
    BY <2>3, EnsureAccountInductive, EnsureRoleBindingInductive, PermissionsDoneInductive,
       ReferencesDoneInductive, IssueTokenInductive
  <2>4. ASSUME NEW n \in Names, EnsureRole(n) \/ EnsureReference(n) \/ Refused(n)
        PROVE  PassInvariant'
    BY <2>4, EnsureRoleInductive, EnsureReferenceInductive, RefusedInductive
  <2>5. ASSUME NEW k \in Kinds, CleanUp(k) PROVE PassInvariant'
    BY <2>5, CleanUpInductive
  <2> QED
    BY <1>2, <2>1, <2>2, <2>3, <2>4, <2>5 DEF Step
<1>3. CASE Failure
  <2>1. ASSUME NEW n \in Names, EnsureFails(n) PROVE PassInvariant'
    BY <2>1, EnsureFailsInductive
  <2>2. ASSUME NEW k \in Kinds, CleanUpFails(k) PROVE PassInvariant'
    BY <2>2, CleanUpFailsInductive
  <2>3. CASE CallFails \/ Crash
    BY <2>3, CallFailsInductive, EndInductive
  <2> QED
    BY <1>3, <2>1, <2>2, <2>3 DEF Failure
<1>4. CASE UNCHANGED vars
  BY <1>4 DEF vars, PassInvariant, CopyJustified, PassJustified, Providing, EnsuredSoFar,
     Needed, CleanedSoFar, Doomed, Keep, NothingBefore, BindingsBacked, NoLeftovers, Owned,
     GrantBacked
<1> QED
  BY <1>1, <1>2, <1>3, <1>4 DEF Next

(* At the beginning there is nothing.                                      *)
LEMMA InitInvariant == Init => TypeOK /\ PassInvariant
<1> SUFFICES ASSUME Init PROVE TypeOK /\ PassInvariant
  OBVIOUS
<1>1. TypeOK
  <2>1. NoRequest \in Request
    BY DEF NoRequest, Request
  <2>2. api \in [Requests -> Request] /\ view \in Request
    BY <2>1 DEF Init
  <2>3. faults \in 0..MaxFaults
    BY BoundsAssumption DEF Init
  <2> QED
    BY <2>2, <2>3 DEF Init, TypeOK, PCs
<1>2. PassInvariant
  BY DEF Init, PassInvariant, CopyJustified, PassJustified, Providing, EnsuredSoFar, CleanedSoFar,
     Kinds, NothingBefore, BindingsBacked, NoLeftovers, Owned, GrantBacked, NoRequest
<1> QED
  BY <1>1, <1>2

(* The variables keep to the values the code gives them, and the passes    *)
(* can rely on their copies and on what they have done.                    *)
THEOREM PassesJustified == Spec => [](TypeOK /\ PassInvariant)
<1>1. Init => TypeOK /\ PassInvariant
  BY InitInvariant
<1>2. TypeOK /\ PassInvariant /\ [Next]_vars => (TypeOK /\ PassInvariant)'
  BY TypeInductive, PassInductive
<1> QED
  BY <1>1, <1>2, PTL DEF Spec

(* Every variable holds values of the kind the code gives it.              *)
THEOREM TypeCorrect == Spec => []TypeOK
<1> QED
  BY PassesJustified, PTL

(* No binding stands without its account and its role, at no moment and    *)
(* after no failure of cleanupResources or of the loops that create them.  *)
THEOREM NoUnbackedBinding == Spec => []BindingsBacked
<1>1. PassInvariant => BindingsBacked
  BY DEF PassInvariant
<1> QED
  BY <1>1, PassesJustified, PTL

(* What is on the kind cluster for a request is covered by its finalizer.  *)
THEOREM NothingLeftOver == Spec => []NoLeftovers
<1>1. PassInvariant => NoLeftovers
  BY DEF PassInvariant
<1> QED
  BY <1>1, PassesJustified, PTL

(* A granted request that was not changed has everything it asks for.      *)
THEOREM GrantsHold == Spec => []GrantBacked
<1>1. PassInvariant => GrantBacked
  BY DEF PassInvariant
<1> QED
  BY <1>1, PassesJustified, PTL

(* Where a step changes what is on the kind cluster: it is one of a pass   *)
(* for a request that holds the finalizer, and changes what this request   *)
(* has and nothing else.                                                   *)
LEMMA ObjectsChange ==
  ASSUME TypeOK, PassInvariant, [Next]_vars, objects' # objects
  PROVE  /\ cur \in Requests /\ api' = api /\ Exists(api[cur]) /\ api[cur].fin
         /\ \A o : o.owner # cur => (o \in objects' <=> o \in objects)
<1> DEFINE G == /\ cur \in Requests /\ api' = api /\ Exists(api[cur]) /\ api[cur].fin
                /\ \A o : o.owner # cur => (o \in objects' <=> o \in objects)
<1>1. /\ Account(cur).owner = cur
      /\ \A n \in Names : Role(n, cur).owner = cur /\ Binding(n, cur).owner = cur
  BY DEF Account, Role, Binding
<1>2. pc \in Providing => cur \in Requests /\ Exists(api[cur]) /\ api[cur].fin
  BY DEF PassInvariant, PassJustified, CopyJustified, Providing
<1>3. ASSUME NEW k \in Kinds, pc = k, NEW os \in SUBSET Doomed(k), objects' = objects \ os, api' = api
      PROVE  G
  <2>1. cur \in Requests /\ \A o \in os : o.owner = cur /\ o \in objects
    BY <1>3 DEF Kinds, Doomed, PassInvariant, CopyJustified
  <2>2. Owned(cur) # {}
    BY <1>3, <2>1 DEF Owned
  <2> QED
    BY <1>3, <2>1, <2>2 DEF PassInvariant, NoLeftovers
<1>4. CASE Step
  <2>1. CASE EnsureAccount
    BY <1>1, <1>2, <2>1 DEF EnsureAccount, Put, OnKind, Providing
  <2>2. CASE EnsureRoleBinding
    <3>1. pc = "bind" /\ item \in Names /\ objects' = objects \cup {Binding(item, cur)} /\ api' = api
      BY <2>2 DEF EnsureRoleBinding, Put, OnKind, PassInvariant, EnsuredSoFar, TypeOK
    <3> QED
      BY <1>1, <1>2, <3>1 DEF Providing
  <2>3. ASSUME NEW n \in Names, EnsureRole(n) \/ EnsureReference(n) PROVE G
    BY <1>1, <1>2, <2>3 DEF EnsureRole, EnsureReference, Put, OnKind, Providing
  <2>4. ASSUME NEW k \in Kinds, CleanUp(k) PROVE G
    BY <1>3, <2>4 DEF CleanUp
  <2>5. ASSUME NEW n \in Names, Refused(n) PROVE FALSE
    BY <2>5 DEF Refused
  <2>6. CASE \/ AddFinalizer \/ RemoveFinalizer \/ Rejected \/ PermissionsDone \/ ReferencesDone
             \/ IssueToken \/ SaveStatus \/ SaveMissing \/ PatchRejected
    BY <2>6 DEF AddFinalizer, RemoveFinalizer, Rejected, PermissionsDone, ReferencesDone,
       IssueToken, SaveStatus, SaveMissing, PatchRejected
  <2> QED
    BY <1>4, <2>1, <2>2, <2>3, <2>4, <2>5, <2>6 DEF Step
<1>5. CASE Failure
  <2>1. ASSUME NEW n \in Names, EnsureFails(n) PROVE G
    BY <1>1, <1>2, <2>1 DEF EnsureFails, SkipName, Put, OnKind, Providing
  <2>2. ASSUME NEW k \in Kinds, CleanUpFails(k) PROVE G
    BY <1>3, <2>2 DEF CleanUpFails
  <2>3. CASE CallFails
    BY <1>1, <1>2, <2>3 DEF CallFails, Put, Goto, Providing
  <2>4. CASE Crash
    BY <2>4 DEF Crash
  <2> QED
    BY <1>5, <2>1, <2>2, <2>3, <2>4 DEF Failure
<1>6. ASSUME NEW r \in Requests,
             CreateRequest(r) \/ EditRequest(r) \/ DeleteRequest(r) \/ TokenAges(r) \/ Take(r)
      PROVE  FALSE
  BY <1>6 DEF CreateRequest, EditRequest, DeleteRequest, User, TokenAges, Take
<1> QED
  BY <1>4, <1>5, <1>6 DEF Next, vars

(* No pass touches what another request has, under whatever name.          *)
THEOREM RequestsIsolated == Spec => Isolation
<1>1. TypeOK /\ PassInvariant /\ [Next]_vars
        => [\A r \in Requests : Owned(r)' # Owned(r) => cur = r]_vars
  <2> SUFFICES ASSUME TypeOK, PassInvariant, [Next]_vars, NEW r \in Requests,
                      Owned(r)' # Owned(r)
               PROVE  cur = r
    OBVIOUS
  <2>1. objects' # objects
    BY DEF Owned
  <2> QED
    BY <2>1, ObjectsChange DEF Owned
<1> QED
  BY <1>1, PassesJustified, PTL DEF Spec, Isolation

-----------------------------------------------------------------------------
(* One object of a kind and a name.                                        *)

(* A step adds one object whose name is not in use, or takes some away.    *)
LEMMA OnePut ==
  ASSUME TypeOK, PassInvariant, [Next]_vars
  PROVE  objects' \subseteq objects \/ \E o : Put(o)
<1>1. CASE objects' = objects
  BY <1>1
<1>2. CASE Step
  <2>1. ASSUME NEW k \in Kinds, CleanUp(k) PROVE objects' \subseteq objects
    BY <2>1 DEF CleanUp
  <2>2. CASE \/ AddFinalizer \/ RemoveFinalizer \/ Rejected \/ PermissionsDone \/ ReferencesDone
             \/ IssueToken \/ SaveStatus \/ SaveMissing \/ PatchRejected
    BY <2>2 DEF AddFinalizer, RemoveFinalizer, Rejected, PermissionsDone, ReferencesDone,
       IssueToken, SaveStatus, SaveMissing, PatchRejected
  <2>3. CASE \/ EnsureAccount \/ EnsureRoleBinding
             \/ \E n \in Names : EnsureRole(n) \/ EnsureReference(n) \/ Refused(n)
    BY <2>3 DEF EnsureAccount, EnsureRoleBinding, EnsureRole, EnsureReference, Refused
  <2> QED
    BY <1>2, <2>1, <2>2, <2>3 DEF Step
<1>3. CASE Failure
  BY <1>3 DEF Failure, EnsureFails, CleanUpFails, CallFails, Crash
<1>4. CASE \E r \in Requests : \/ CreateRequest(r) \/ EditRequest(r) \/ DeleteRequest(r)
                              \/ TokenAges(r) \/ Take(r)
  BY <1>4 DEF CreateRequest, EditRequest, DeleteRequest, User, TokenAges, Take
<1> QED
  BY <1>1, <1>2, <1>3, <1>4 DEF Next, vars

(* The check of the labels keeps names apart, although two requests may    *)
(* ask for the same one: the set of objects is what a kind cluster can     *)
(* have.                                                                   *)
THEOREM NamesApart == Spec => []OneOwner
<1>1. Init => OneOwner
  BY DEF Init, OneOwner
<1>2. TypeOK /\ PassInvariant /\ OneOwner /\ [Next]_vars => OneOwner'
  <2> SUFFICES ASSUME TypeOK, PassInvariant, OneOwner, [Next]_vars,
                      NEW x \in objects', NEW y \in objects',
                      x.kind = y.kind, x.name = y.name
               PROVE  x = y
    BY DEF OneOwner
  <2>1. x \in Objects /\ y \in Objects
    BY TypeInductive DEF TypeOK
  <2>2. SUFFICES x.owner = y.owner
    BY <2>1 DEF Objects
  <2>3. CASE objects' \subseteq objects
    BY <2>3 DEF OneOwner
  <2>4. ASSUME NEW o, Put(o) PROVE x.owner = y.owner
    BY <2>4 DEF Put, Foreign, OneOwner
  <2> QED
    BY <2>3, <2>4, OnePut
<1> QED
  BY <1>1, <1>2, PassesJustified, PTL DEF Spec

(* What is bound to the account of a request is a role made for it, though *)
(* bindings refer to roles by name and two requests may ask for the same   *)
(* one: no request gets the rules of another.                              *)
THEOREM BoundToOwn == Spec => []BoundToOwnRole
<1>1. PassInvariant /\ OneOwner => BoundToOwnRole
  <2> SUFFICES ASSUME PassInvariant, OneOwner, NEW r \in Requests,
                      NEW n \in Names \ References, NEW o \in objects,
                      Binding(n, r) \in objects, o.kind = Role(n, r).kind, o.name = n
               PROVE  o.owner = r
    BY DEF BoundToOwnRole
  <2>1. Role(n, r) \in objects
    BY DEF PassInvariant, BindingsBacked
  <2>2. Role(n, r).name = n /\ Role(n, r).owner = r
    BY DEF Role
  <2> QED
    BY <2>1, <2>2 DEF OneOwner
<1> QED
  BY <1>1, PassesJustified, NamesApart, PTL

(* When a pass that issued a token is done, the kind cluster has for the   *)
(* request what its copy asks for, nothing less and nothing more.          *)
THEOREM PassesExact == Spec => PassExact
<1>1. TypeOK /\ PassInvariant /\ [Next]_vars
      => [pc = "ServiceAccount" /\ pc' = "done" => Owned(cur)' = Needed(cur, view.want)]_vars
  <2> SUFFICES ASSUME TypeOK, PassInvariant, [Next]_vars,
                      pc = "ServiceAccount", pc' = "done"
               PROVE  Owned(cur)' = Needed(cur, view.want)
    OBVIOUS
  <2>1. CleanUp("ServiceAccount")
    <3>1. CASE Step
      BY <3>1 DEF Step, AddFinalizer, RemoveFinalizer, Rejected, PermissionsDone, ReferencesDone,
         IssueToken, SaveStatus, SaveMissing, PatchRejected, EnsureAccount, EnsureRoleBinding,
         EnsureRole, EnsureReference, Refused, CleanUp
    <3>2. CASE Failure
      BY <3>2 DEF Failure, EnsureFails, CleanUpFails, CallFails, Crash, Goto, Idle
    <3>3. CASE \E r \in Requests : \/ CreateRequest(r) \/ EditRequest(r) \/ DeleteRequest(r)
                                  \/ TokenAges(r) \/ Take(r)
      BY <3>3 DEF CreateRequest, EditRequest, DeleteRequest, User, TokenAges, Take, worker
    <3> QED
      BY <3>1, <3>2, <3>3 DEF Next, vars, worker
  <2>2. /\ objects' = objects \ Doomed("ServiceAccount") /\ cur' = cur
        /\ view.st # "deleting" /\ cur \in Requests /\ view \in Request
    BY <2>1 DEF CleanUp, Goto, PassInvariant, CopyJustified, TypeOK
  <2>3. view.st = "live"
    BY <2>2 DEF PassInvariant, CopyJustified, Exists
  <2>4. Keep = Needed(cur, view.want) /\ Needed(cur, view.want) \subseteq objects
    BY <2>2, <2>3 DEF Keep, PassInvariant, EnsuredSoFar, Kinds
  <2>5. \A k \in Kinds \ {"ServiceAccount"} : Doomed(k) = {}
    BY DEF PassInvariant, CleanedSoFar, Before, Kinds
  <2>6. ASSUME NEW o \in objects', o.owner = cur PROVE o \in Keep
    <3>1. o \in objects /\ o \notin Doomed("ServiceAccount") /\ o.kind \in Kinds
      BY <2>2, <2>6 DEF TypeOK, Objects
    <3>2. o \notin Doomed(o.kind)
      BY <2>5, <3>1
    <3> QED
      BY <2>6, <3>1, <3>2 DEF Doomed
  <2>7. ASSUME NEW o \in Keep PROVE o \in objects' /\ o.owner = cur
    <3>1. o \in objects /\ o \notin Doomed("ServiceAccount")
      BY <2>4, <2>7 DEF Doomed
    <3>2. o.owner = cur
      BY <2>2, <2>4, <2>7, NeededTyped DEF Request
    <3> QED
      BY <2>2, <3>1, <3>2
  <2> QED
    BY <2>2, <2>4, <2>6, <2>7 DEF Owned
<1> QED
  BY <1>1, PassesJustified, PTL DEF Spec, PassExact

-----------------------------------------------------------------------------
(* SharedAccess implements AccessLifecycle.                                *)

(* A step that changes neither is a stutter.                               *)
LEMMA SameHold ==
  ASSUME objects' = objects, \A r \in Requests : Hold(r)' = Hold(r)
  PROVE  UNCHANGED Lifecycle!vars
<1>1. \A r \in Requests : Owned(r)' = Owned(r)
  BY DEF Owned
<1> QED
  BY <1>1 DEF Lifecycle!vars

(* A step that changes the hold of one request, and nothing that is there. *)
LEMMA HoldMoves ==
  ASSUME objects' = objects, NEW r \in Requests,
         \A q \in Requests : q # r => Hold(q)' = Hold(q),
         \/ Hold(r)' = Hold(r)
         \/ Hold(r) = "none" /\ Hold(r)' \in {"held", "released"}
         \/ Hold(r) = "held" /\ Hold(r)' = "released" /\ Owned(r) = {}
  PROVE  [Lifecycle!Next]_Lifecycle!vars
<1>1. \A q \in Requests : Owned(q)' = Owned(q)
  BY DEF Owned
<1>2. [q \in Requests |-> Owned(q)]' = [q \in Requests |-> Owned(q)]
  BY <1>1
<1>3. CASE Hold(r)' = Hold(r)
  BY <1>3, SameHold
<1>4. CASE Hold(r) = "none" /\ Hold(r)' = "held"
  BY <1>2, <1>4 DEF Lifecycle!Next, Lifecycle!Claim
<1>5. CASE Hold(r) = "none" /\ Hold(r)' = "released"
  BY <1>2, <1>5 DEF Lifecycle!Next, Lifecycle!Forgo
<1>6. CASE Hold(r) = "held" /\ Hold(r)' = "released" /\ Owned(r) = {}
  BY <1>2, <1>6 DEF Lifecycle!Next, Lifecycle!Release
<1> QED
  BY <1>3, <1>4, <1>5, <1>6

(* A step that changes what is there adjusts the access of one request.    *)
LEMMA AccessMoves ==
  ASSUME TypeOK, PassInvariant, [Next]_vars, TypeOK', objects' # objects
  PROVE  [Lifecycle!Next]_Lifecycle!vars
<1>1. /\ cur \in Requests /\ api' = api /\ Hold(cur) = "held"
      /\ \A o : o.owner # cur => (o \in objects' <=> o \in objects)
  BY ObjectsChange DEF Hold, Exists
<1>2. [r \in Requests |-> Hold(r)]' = [r \in Requests |-> Hold(r)]
  BY <1>1 DEF Hold
<1>3. \A r \in Requests : r # cur => Owned(r)' = Owned(r)
  BY <1>1 DEF Owned
<1>4. \A r \in Requests : Owned(r)' \in SUBSET Objects
  BY DEF Owned, TypeOK
<1>5. [r \in Requests |-> Owned(r)]' \in [Requests -> SUBSET Objects]
  BY <1>4
<1>6. Lifecycle!Adjust(cur)
  BY <1>1, <1>2, <1>3, <1>5 DEF Lifecycle!Adjust
<1> QED
  BY <1>1, <1>6 DEF Lifecycle!Next

(* The finalizer moves the hold.                                           *)
LEMMA FinalizerMoves ==
  ASSUME TypeOK, PassInvariant, current, UNCHANGED <<objects, edited>>,
         pc \in {"claim", "release"}, Write(cur, [view EXCEPT !.fin = (pc = "claim")])
  PROVE  [Lifecycle!Next]_Lifecycle!vars
<1>1. PICK r \in Requests : r = cur
  BY FinalizerWritten
<1>2. /\ \A q \in Requests : q # r => api'[q] = api[q]
      /\ pc = "claim" => api'[r] = [view EXCEPT !.fin = TRUE]
      /\ pc = "release" => api'[r].st = "gone" /\ Owned(r) = {}
      /\ view.st = api[r].st
      /\ pc = "claim" => view.st = "live"
      /\ pc = "release" => view.st = "deleting"
  BY <1>1, FinalizerWritten DEF PassInvariant, PassJustified
<1>3. \A q \in Requests : q # r => Hold(q)' = Hold(q)
  BY <1>2 DEF Hold, Exists
<1>4. CASE pc = "claim"
  <2>1. api'[r].st = "live" /\ api'[r].fin
    BY <1>2, <1>4 DEF TypeOK, Request
  <2>2. Hold(r)' = "held" /\ Hold(r) \in {"none", "held"}
    BY <1>2, <1>4, <2>1 DEF Hold, Exists
  <2> QED
    BY <1>3, <2>2, HoldMoves
<1>5. CASE pc = "release"
  <2>1. Hold(r)' = "released" /\ Hold(r) \in {"none", "held"} /\ Owned(r) = {}
    BY <1>2, <1>5 DEF Hold, Exists
  <2> QED
    BY <1>3, <2>1, HoldMoves
<1> QED
  BY <1>4, <1>5

(* What users do is a stutter, or the end of a request nobody claimed.     *)
LEMMA UsersMove ==
  ASSUME TypeOK, PassInvariant, NEW r \in Requests,
         CreateRequest(r) \/ EditRequest(r) \/ DeleteRequest(r)
  PROVE  [Lifecycle!Next]_Lifecycle!vars
<1>1. PICK o : /\ api' = [api EXCEPT ![r] = Settled(o)] /\ objects' = objects
               /\ o.fin = api[r].fin
               /\ \/ api[r].st = "none" /\ o.st = "live"
                  \/ api[r].st = "live" /\ o.st \in {"live", "deleting"}
               /\ o \in Request
  <2>0. api[r] \in Request
    BY DEF TypeOK
  <2>1. CASE CreateRequest(r)
    <3>1. PICK ns \in SUBSET Askable[r] : User(r, [api[r] EXCEPT !.st = "live", !.want = ns])
      BY <2>1 DEF CreateRequest
    <3>2. [api[r] EXCEPT !.st = "live", !.want = ns] \in Request
      BY <2>0, NamesAssumption DEF Request
    <3> WITNESS [api[r] EXCEPT !.st = "live", !.want = ns]
    <3> QED
      BY <2>0, <2>1, <3>1, <3>2 DEF CreateRequest, User, Write, Request
  <2>2. CASE EditRequest(r)
    <3>1. PICK ns \in (SUBSET Askable[r]) \ {api[r].want} : User(r, [api[r] EXCEPT !.want = ns])
      BY <2>2 DEF EditRequest
    <3>2. [api[r] EXCEPT !.want = ns] \in Request
      BY <2>0, NamesAssumption DEF Request
    <3> WITNESS [api[r] EXCEPT !.want = ns]
    <3> QED
      BY <2>0, <2>2, <3>1, <3>2 DEF EditRequest, User, Write, Request
  <2>3. CASE DeleteRequest(r)
    <3>1. [api[r] EXCEPT !.st = "deleting"] \in Request
      BY <2>0 DEF Request
    <3> WITNESS [api[r] EXCEPT !.st = "deleting"]
    <3> QED
      BY <2>0, <2>3, <3>1 DEF DeleteRequest, User, Write, Request
  <2> QED
    BY <2>1, <2>2, <2>3
<1>2. /\ \A q \in Requests : q # r => api'[q] = api[q]
      /\ api'[r].fin = api[r].fin
      /\ api'[r].st = IF o.st = "deleting" /\ ~api[r].fin THEN "gone" ELSE o.st
      /\ api[r].st = "none" => ~api[r].fin
  BY <1>1, SettledTyped DEF TypeOK, PassInvariant, NothingBefore, NoRequest
<1>3. \A q \in Requests : q # r => Hold(q)' = Hold(q)
  BY <1>2 DEF Hold, Exists
<1>4. Hold(r)' = Hold(r) \/ (Hold(r) = "none" /\ Hold(r)' = "released")
  <2>1. CASE o.st = "live"
    <3>1. api'[r].st = "live" /\ api[r].st \in {"none", "live"}
      BY <1>1, <1>2, <2>1
    <3>2. Hold(r)' = IF api[r].fin THEN "held" ELSE "none"
      BY <1>2, <3>1 DEF Hold, Exists
    <3>3. Hold(r) = IF api[r].fin THEN "held" ELSE "none"
      BY <1>2, <3>1 DEF Hold, Exists
    <3> QED
      BY <3>2, <3>3
  <2>2. CASE o.st = "deleting"
    <3>1. api[r].st = "live" /\ api'[r].st = IF api[r].fin THEN "deleting" ELSE "gone"
      BY <1>1, <1>2, <2>2
    <3>2. Hold(r)' = IF api[r].fin THEN "held" ELSE "released"
      BY <1>2, <3>1 DEF Hold, Exists
    <3>3. Hold(r) = IF api[r].fin THEN "held" ELSE "none"
      BY <3>1 DEF Hold, Exists
    <3> QED
      BY <3>2, <3>3
  <2> QED
    BY <1>1, <2>1, <2>2
<1> QED
  BY <1>1, <1>3, <1>4, HoldMoves

(* Every step is one of AccessLifecycle, or a stutter.                     *)
LEMMA LifecycleStep ==
  ASSUME TypeOK, PassInvariant, [Next]_vars, TypeOK'
  PROVE  [Lifecycle!Next]_Lifecycle!vars
<1>1. CASE objects' # objects
  BY <1>1, AccessMoves
<1>2. CASE objects' = objects /\ api' = api
  <2>1. \A r \in Requests : Hold(r)' = Hold(r)
    BY <1>2 DEF Hold, Exists
  <2> QED
    BY <1>2, <2>1, SameHold
<1>3. CASE objects' = objects /\ api' # api
  <2>1. ASSUME NEW r \in Requests,
               CreateRequest(r) \/ EditRequest(r) \/ DeleteRequest(r) \/ TokenAges(r) \/ Take(r)
        PROVE  [Lifecycle!Next]_Lifecycle!vars
    BY <1>3, <2>1, UsersMove DEF TokenAges, Take
  <2>2. CASE AddFinalizer
    <3>1. /\ pc = "claim" /\ current /\ UNCHANGED <<objects, edited>>
          /\ Write(cur, [view EXCEPT !.fin = (pc = "claim")])
      BY <2>2 DEF AddFinalizer
    <3> QED
      BY <3>1, FinalizerMoves
  <2>3. CASE RemoveFinalizer
    <3>1. /\ pc = "release" /\ current /\ UNCHANGED <<objects, edited>>
          /\ Write(cur, [view EXCEPT !.fin = (pc = "claim")])
      BY <2>3 DEF RemoveFinalizer
    <3> QED
      BY <3>1, FinalizerMoves
  <2>4. CASE SaveStatus
    <3>1. /\ cur \in Requests
          /\ api' = [api EXCEPT ![cur].granted = @ \/ view.granted]
      BY <2>4 DEF SaveStatus, PassInvariant, CopyJustified
    <3>2. \A r \in Requests : api'[r].st = api[r].st /\ api'[r].fin = api[r].fin
      BY <3>1 DEF TypeOK, Request
    <3>3. \A r \in Requests : Hold(r)' = Hold(r)
      BY <3>2 DEF Hold, Exists
    <3> QED
      BY <1>3, <3>3, SameHold
  <2>5. CASE CallFails
    <3>1. /\ pc \in {"claim", "release"} /\ current
          /\ Write(cur, [view EXCEPT !.fin = (pc = "claim")])
          /\ UNCHANGED <<objects, edited>>
      BY <1>3, <2>5 DEF CallFails, Fault
    <3> QED
      BY <3>1, FinalizerMoves
  <2>6. ASSUME Step, ~AddFinalizer, ~RemoveFinalizer, ~SaveStatus PROVE FALSE
    BY <1>3, <2>6 DEF Step, Rejected, EnsureAccount, EnsureRoleBinding, PermissionsDone,
       ReferencesDone, IssueToken, EnsureRole, EnsureReference, Refused, SkipName, OnKind,
       CleanUp, SaveMissing, PatchRejected
  <2>7. ASSUME Failure, ~CallFails PROVE FALSE
    BY <1>3, <2>7 DEF Failure, EnsureFails, SkipName, OnKind, CleanUpFails, Crash
  <2> QED
    BY <1>3, <2>1, <2>2, <2>3, <2>4, <2>5, <2>6, <2>7 DEF Next, vars
<1> QED
  BY <1>1, <1>2, <1>3

(* Access is given and taken only between the claim of a request and its   *)
(* release, by its own passes, and nothing is left at the release: every   *)
(* behaviour of the controller is one of AccessLifecycle.                  *)
THEOREM SharedImplementsAccess == Spec => ImplementsAccess
<1>1. Init => Lifecycle!Init
  <2> SUFFICES ASSUME Init PROVE Lifecycle!Init
    OBVIOUS
  <2>1. \A r \in Requests : Hold(r) = "none" /\ Owned(r) = {}
    BY DEF Init, Hold, Owned, Exists, NoRequest
  <2> QED
    BY <2>1 DEF Lifecycle!Init
<1>2. TypeOK /\ PassInvariant /\ [Next]_vars /\ TypeOK' => [Lifecycle!Next]_Lifecycle!vars
  BY LifecycleStep
<1> QED
  BY <1>1, <1>2, PassesJustified, PTL DEF Spec, ImplementsAccess, Lifecycle!Spec

=============================================================================

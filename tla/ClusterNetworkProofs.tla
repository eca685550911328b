-------------------------- MODULE ClusterNetworkProofs --------------------------
(***************************************************************************)
(* The subnets of the kind clusters: for every IPv4 network of a supported *)
(* size that Docker may have configured, what calculateV4Subnet makes of   *)
(* it lies in it and no two octets give overlapping subnets; and MetalLB   *)
(* is only ever configured with such a subnet.                             *)
(***************************************************************************)
EXTENDS ClusterControllerProofs

-----------------------------------------------------------------------------
(* The subnets.                                                            *)

(* An octet that a mask leaves alone or clears.                            *)
LEMMA MaskedOctet ==
  ASSUME NEW x \in Octets
  PROVE  /\ x - (x % 1) = x /\ x - (x % 256) = 0 /\ Byte(x) = x
BY DEF Octets, Byte

(* Masks that end between two octets.                                      *)
LEMMA ClearedOctets ==
  /\ Cleared(1, 8) = 1 /\ Cleared(2, 8) = 256 /\ Cleared(3, 8) = 256 /\ Cleared(4, 8) = 256
  /\ Cleared(1, 16) = 1 /\ Cleared(2, 16) = 1 /\ Cleared(3, 16) = 256 /\ Cleared(4, 16) = 256
  /\ Cleared(1, 24) = 1 /\ Cleared(2, 24) = 1 /\ Cleared(3, 24) = 1 /\ Cleared(4, 24) = 256
BY DEF Cleared

(* Setting the third octet does not lead out of a /8 or a /16 network.     *)
THEOREM SubnetInside ==
  ASSUME NEW net \in Networks, Supported(net), NEW i \in Octets
  PROVE  Inside(CalculateV4Subnet(net, i), net)
<1> DEFINE sub == CalculateV4Subnet(net, i)
<1>1. /\ sub.ones = 24 /\ net.ones \in {8, 16} /\ net.ones <= 24
      /\ net.ip \in Addresses /\ i \in Octets
      /\ sub.ip = [net.ip EXCEPT ![3] = i]
  BY MaskedOctet DEF CalculateV4Subnet, Supported, Networks
<1>2. \A k \in 1..4 : net.ip[k] \in Octets /\ sub.ip[k] \in Octets
                      /\ (k # 3 => sub.ip[k] = net.ip[k])
  BY <1>1 DEF Addresses
<1> HIDE DEF sub
<1>3. \A k \in 1..4 : sub.ip[k] - (sub.ip[k] % Cleared(k, net.ones))
                        = net.ip[k] - (net.ip[k] % Cleared(k, net.ones))
  <2>1. Cleared(3, net.ones) = 256
    BY <1>1, ClearedOctets
  <2>2. sub.ip[3] - (sub.ip[3] % 256) = 0 /\ net.ip[3] - (net.ip[3] % 256) = 0
    BY <1>2, MaskedOctet
  <2>3. ASSUME NEW k \in 1..4 
        PROVE  sub.ip[k] - (sub.ip[k] % Cleared(k, net.ones))
                 = net.ip[k] - (net.ip[k] % Cleared(k, net.ones))
    <3>1. CASE k = 3
      BY <2>1, <2>2, <3>1
    <3>2. CASE k # 3
      BY <1>2, <3>2
    <3> QED
      BY <3>1, <3>2
  <2> QED
    BY <2>3
<1>4. Masked(sub.ip, net.ones) = Masked(net.ip, net.ones)
  BY <1>3 DEF Masked
<1> QED
  BY <1>1, <1>4 DEF Inside, Contains, sub

(* The int to byte conversion merges no two subnets.                       *)
THEOREM SubnetsDisjoint ==
  ASSUME NEW net \in Networks, NEW i \in Octets, NEW j \in Octets, i # j
  PROVE  Disjoint(CalculateV4Subnet(net, i), CalculateV4Subnet(net, j))
<1> DEFINE s == CalculateV4Subnet(net, i)
           t == CalculateV4Subnet(net, j)
<1>1. /\ s.ones = 24 /\ t.ones = 24
      /\ s.ip[3] = i /\ t.ip[3] = j
  BY MaskedOctet DEF CalculateV4Subnet, Networks, Addresses
<1> HIDE DEF s, t
<1>2. Masked(s.ip, 24)[3] = i /\ Masked(t.ip, 24)[3] = j
  BY <1>1, ClearedOctets, MaskedOctet DEF Masked
<1>3. Masked(s.ip, 24) # Masked(t.ip, 24)
  BY <1>2
<1> QED
  BY <1>1, <1>3 DEF Disjoint, s, t

(* What net.ParseCIDR makes of a configuration is a network.               *)
LEMMA MaskedAddress ==
  ASSUME NEW ip \in Addresses, NEW ones \in {8, 16} PROVE Masked(ip, ones) \in Addresses
<1>1. ASSUME NEW k \in 1..4 PROVE ip[k] - (ip[k] % Cleared(k, ones)) \in Octets
  <2>1. Cleared(k, ones) \in {1, 256}
    BY DEF Cleared
  <2>2. ip[k] \in Octets
    BY DEF Addresses
  <2> QED
    BY <2>1, <2>2, MaskedOctet DEF Octets
<1> QED
  BY <1>1 DEF Masked, Addresses

(* The network that is found is one subnets can be taken from.             *)
LEMMA KindNetworkSupported ==
  ASSUME Usable PROVE KindNetwork \in Networks /\ Supported(KindNetwork)
<1>1. KindNetwork \in ParseDockerV4Network(Docker) /\ Supported(KindNetwork)
  BY DEF Usable, KindNetwork
<1>2. PICK i \in 1..Len(Docker) :
        KindNetwork = [ip |-> Masked(Docker[i].ip, Docker[i].ones), ones |-> Docker[i].ones]
  BY <1>1 DEF ParseDockerV4Network
<1>3. Docker[i] \in Configs
  BY DockerAssumption
<1>4. Docker[i].ip \in Addresses /\ Docker[i].ones \in 0..32
  BY <1>3 DEF Configs
<1>5. Docker[i].ones \in {8, 16}
  BY <1>1, <1>2 DEF Supported
<1> QED
  BY <1>1, <1>2, <1>4, <1>5, MaskedAddress DEF Networks

-----------------------------------------------------------------------------
(* The pools.                                                              *)

PoolsReadable == \A n \in Names : kind[n].pool \in Subnets \cup {NoSubnet}

(* A call changes the pool of the reconcile's kind cluster, to none or to  *)
(* the subnet of the worker that configures MetalLB.                       *)
LEMMA PoolsAfterChange ==
  ASSUME TypeOK, SubnetInHand, pc # "idle", NEW k \in KindCluster, Change(k),
         k.pool \in {NoSubnet, host.pool} \/ (pc = "configure" /\ k.pool = view.subnet)
  PROVE  PoolsReadable'
<1>1. cur \in Clusters /\ name \in Names /\ kind' = [kind EXCEPT ![name] = k]
  BY WorkerTyped DEF Change, name
<1>2. k.pool \in Subnets \cup {NoSubnet}
  BY <1>1 DEF SubnetInHand, host
<1>3. \A n \in Names : kind'[n] = IF n = name THEN k ELSE kind[n]
  BY <1>1 DEF TypeOK
<1> QED
  BY <1>2, <1>3 DEF PoolsReadable, SubnetInHand, Subnets, NoSubnet

(* createObjects leaves the pool alone.                                    *)
LEMMA AppliedPool ==
  ASSUME TypeOK, pc # "idle", NEW objs PROVE Applied(objs).pool = host.pool
<1>1. host \in KindCluster
  BY WorkerTyped DEF host, name, TypeOK
<1> QED
  BY <1>1 DEF Applied, KindCluster

(* What the worker configures, also when one of the two calls fails.       *)
LEMMA ConfiguredPool ==
  ASSUME TypeOK, pc # "idle"
  PROVE  /\ [host EXCEPT !.pool = view.subnet, !.adv = TRUE].pool = view.subnet
         /\ [host EXCEPT !.pool = view.subnet].pool = view.subnet
         /\ [host EXCEPT !.adv = TRUE].pool = host.pool
<1>1. host \in KindCluster
  BY WorkerTyped DEF host, name, TypeOK
<1> QED
  BY <1>1 DEF KindCluster

(* Between reconciles, and where no subnet is needed, nothing is claimed   *)
(* of the worker's copy.                                                   *)
LEMMA NoSubnetNeeded ==
  ASSUME PoolsReadable',
         pc' \notin {"assignSubnet", "exists", "install", "isReady", "configure"}
  PROVE  SubnetInHand'
BY DEF SubnetInHand, PoolsReadable

(* A write of the worker stores the subnet of its copy.                    *)
LEMMA SentSubnet ==
  ASSUME TypeOK, pc \in Writing PROVE Stored(cur, Sent).subnet = view.subnet
<1>1. Sent \in Object /\ view \in Object
  BY SentType DEF TypeOK
<1>2. Sent.subnet = view.subnet
  BY <1>1 DEF Sent, Writing, Saving, Object
<1>3. Settled(Sent) \in Object /\ Settled(Sent).subnet = Sent.subnet
  BY <1>1, SettledType DEF Settled, Object
<1> QED
  BY <1>2, <1>3 DEF Stored, Object

(* The steps of the worker keep a readable subnet in its hands.            *)
LEMMA StepSubnet ==
  ASSUME TypeOK, SubnetInHand, Step PROVE SubnetInHand'
<1>0. UNCHANGED kind => PoolsReadable'
  BY DEF SubnetInHand, PoolsReadable
<1>1. CASE PickSubnet
  <2>1. PICK s \in Subnets : view' = [view EXCEPT !.subnet = s]
    BY <1>1 DEF PickSubnet
  <2>2. view'.subnet \in Subnets /\ pc' = "assignSubnet" /\ UNCHANGED kind
    BY <1>1, <2>1 DEF PickSubnet, TypeOK, Object
  <2> QED
    BY <1>0, <2>2 DEF SubnetInHand, PoolsReadable
<1>2. CASE AssignSubnet
  <2>1. /\ view'.subnet = view.subnet /\ view.subnet \in Subnets
        /\ pc' = "exists" /\ UNCHANGED kind
    BY <1>2, SentSubnet DEF AssignSubnet, Accepted, SubnetInHand, Writing
  <2>2. NoSubnet \notin Subnets
    BY SubnetAssumption DEF NoSubnet, Subnets, Octets
  <2> QED
    BY <1>0, <2>1, <2>2 DEF SubnetInHand, PoolsReadable
<1>3. CASE \/ AddFinalizer \/ RemoveFinalizer \/ SaveUnchanged \/ SaveStatus
           \/ NoSubnetsAvailable \/ SubnetUnreadable \/ Rejected \/ Unreachable
           \/ NotAdmitted \/ NotReady \/ NothingLeft
  <2>1. UNCHANGED kind /\ pc' \in {"idle", "saveStop", "saveRequeue", "removeFinalizer"}
    BY <1>3 DEF AddFinalizer, RemoveFinalizer, SaveUnchanged, SaveStatus, Done,
       NoSubnetsAvailable, SubnetUnreadable, Rejected, Unreachable, NotAdmitted,
       NotReady, NothingLeft, Accepted, Call, Requeue, Stop, Idle, Goto
  <2> QED
    BY <1>0, <2>1, NoSubnetNeeded
<1>4. CASE Connect
  <2>1. view.subnet \in Annotations \ {NoSubnet, Malformed}
    BY <1>4 DEF Connect, SubnetInHand, TypeOK, Object
  <2>2. view' = view /\ pc' = "install" /\ UNCHANGED kind
    BY <1>4 DEF Connect, Call
  <2> QED
    BY <1>0, <2>1, <2>2 DEF Annotations, SubnetInHand, PoolsReadable
<1>5. CASE MetalLBReady
  BY <1>5 DEF MetalLBReady, Call, SubnetInHand
<1>6. CASE Install
  <2>1. PoolsReadable'
    BY <1>6, AppliedPool, AppliedType, PoolsAfterChange DEF Install
  <2> QED
    BY <1>6, <2>1 DEF Install, Goto, SubnetInHand, PoolsReadable
<1>7. CASE ConfigureSubnet
  <2>1. PoolsReadable'
    BY <1>7, ConfiguredPool, PoolType, PoolsAfterChange DEF ConfigureSubnet
  <2> QED
    BY <1>7, <2>1, NoSubnetNeeded DEF ConfigureSubnet
<1>8. CASE BeginCreate \/ EndCreate \/ DeleteCluster
  <2>1. /\ \E s \in {"absent", "partial", "running"} : Change(Bare(s))
        /\ pc # "idle" /\ pc' \in {"creating", "saveRequeue"}
    BY <1>8 DEF BeginCreate, EndCreate, DeleteCluster, Goto
  <2>2. PoolsReadable'
    BY <2>1, BareType, PoolsAfterChange DEF Bare
  <2> QED
    BY <2>1, <2>2, NoSubnetNeeded
<1> QED
  BY <1>1, <1>2, <1>3, <1>4, <1>5, <1>6, <1>7, <1>8 DEF Step

(* So do the failures, after which the worker is idle.                     *)
LEMMA FailureSubnet ==
  ASSUME TypeOK, SubnetInHand, Failure PROVE SubnetInHand'
<1>1. pc' = "idle"
  BY DEF Failure, AnswerLost, CreateFails, InstallFails, ConfigureFails, DeleteFails,
     CallFails, Crash, Requeue, Idle
<1>2. PoolsReadable'
  <2>1. CASE AnswerLost \/ CallFails
    BY <2>1 DEF AnswerLost, CallFails, Accepted, Call, SubnetInHand, PoolsReadable
  <2>2. CASE CreateFails \/ DeleteFails
    <3>1. pc # "idle" /\ \E s \in {"absent", "partial"} : Change(Bare(s))
      BY <2>2 DEF CreateFails, DeleteFails
    <3> QED
      BY <3>1, BareType, PoolsAfterChange DEF Bare
  <2>3. CASE InstallFails
    BY <2>3, AppliedPool, AppliedType, PoolsAfterChange DEF InstallFails
  <2>4. CASE ConfigureFails
    BY <2>4, ConfiguredPool, PoolType, PoolsAfterChange DEF ConfigureFails
  <2>5. CASE Crash
    <3>1. \/ UNCHANGED kind
          \/ pc = "creating" /\ kind' = [kind EXCEPT ![name] = Bare("running")]
      BY <2>5 DEF Crash
    <3>2. \A n \in Names : kind'[n].pool \in {kind[n].pool, NoSubnet}
      BY <3>1 DEF TypeOK, Bare
    <3> QED
      BY <3>2 DEF SubnetInHand, PoolsReadable
  <2> QED
    BY <2>1, <2>2, <2>3, <2>4, <2>5 DEF Failure
<1> QED
  BY <1>1, <1>2, NoSubnetNeeded

(* The worker starts with a subnet, or chooses one.                        *)
LEMMA TakeSubnet ==
  ASSUME SubnetInHand, NEW c \in Clusters, Take(c) PROVE SubnetInHand'
<1>1. CASE ReconcileMissing(c) \/ ReconcileUnsupported(c)
  BY <1>1 DEF ReconcileMissing, ReconcileUnsupported, worker, SubnetInHand
<1>2. CASE ReconcileLive(c) \/ ReconcileDeleting(c)
  <2>1. /\ view' = cache[c] /\ UNCHANGED kind
        /\ pc' \in {"addFinalizer", "pickSubnet", "exists", "delExists"} \cup Saving
        /\ pc' = "exists" => cache[c].subnet # NoSubnet
    BY <1>2 DEF ReconcileLive, ReconcileDeleting, Reconcile, Saving
  <2> QED
    BY <2>1 DEF SubnetInHand, Saving
<1> QED
  BY <1>1, <1>2 DEF Take

(* What happens on the host leaves the pools alone or takes them away.     *)
LEMMA HostSubnet ==
  ASSUME TypeOK, SubnetInHand, NEW n \in Names,
         \/ ClusterVanishes(n)
         \/ \E p \in Components : PodProgresses(n, p) \/ PodFails(n, p)
  PROVE  SubnetInHand'
<1>1. UNCHANGED worker
  BY DEF ClusterVanishes, PodProgresses, PodFails, Host
<1>2. \A m \in Names : kind'[m].pool \in {kind[m].pool, NoSubnet}
  <2>1. CASE ClusterVanishes(n)
    BY <2>1 DEF ClusterVanishes, Bare, TypeOK
  <2>2. ASSUME NEW p \in Components, PodProgresses(n, p) \/ PodFails(n, p)
        PROVE  \A m \in Names : kind'[m].pool = kind[m].pool
    <3>1. PICK t \in PodStates : kind' = [kind EXCEPT ![n].comps[p] = t]
      BY <2>2 DEF PodProgresses, PodFails, Pod, PodStates
    <3> QED
      BY <3>1 DEF TypeOK, KindCluster
  <2> QED
    BY <2>1, <2>2
<1> QED
  BY <1>1, <1>2 DEF SubnetInHand, worker

(* From the choice of a subnet to MetalLB's configuration the worker has a *)
(* subnet of the Docker network, whatever the annotations say.             *)
THEOREM SubnetKept == Spec => []SubnetInHand
<1>1. Init => SubnetInHand
  BY DEF Init, SubnetInHand, Bare
<1>2. TypeOK /\ SubnetInHand /\ [Next]_vars => SubnetInHand'
  <2> SUFFICES ASSUME TypeOK, SubnetInHand, [Next]_vars PROVE SubnetInHand'
    OBVIOUS
  <2>1. CASE \E c \in Clusters : Take(c)
    BY <2>1, TakeSubnet
  <2>2. CASE Step \/ Failure
    BY <2>2, StepSubnet, FailureSubnet
  <2>3. CASE \E n \in Names : \/ ClusterVanishes(n)
                             \/ \E p \in Components : PodProgresses(n, p) \/ PodFails(n, p)
    BY <2>3, HostSubnet
  <2>4. CASE \/ UNCHANGED vars \/ Deliver
             \/ \E c \in Clusters : \/ CreateResource(c) \/ DeleteResource(c)
                                    \/ HoldForeign(c) \/ ReleaseForeign(c)
                                    \/ TimerFires(c) \/ Resync(c)
    <3>1. UNCHANGED <<worker, kind>>
      BY <2>4 DEF vars, Deliver, CreateResource, DeleteResource, HoldForeign,
         ReleaseForeign, User, TimerFires, Resync
    <3> QED
      BY <3>1 DEF SubnetInHand, worker
  <2> QED
    BY <2>1, <2>2, <2>3, <2>4 DEF Next
<1> QED
  BY <1>1, <1>2, TypeCorrect, PTL DEF Spec

(* MetalLB hands out addresses of Docker's network only, for any network   *)
(* that Docker may have configured for kind.                               *)
THEOREM PoolsInNetwork == Spec => []PoolInNetwork
<1>1. SubnetInHand => PoolInNetwork
  <2> SUFFICES ASSUME SubnetInHand, NEW n \in Names, kind[n].pool # NoSubnet
               PROVE  /\ kind[n].pool \in Subnets
                      /\ Inside(SubnetOf(kind[n].pool), KindNetwork)
    BY DEF PoolInNetwork
  <2>1. kind[n].pool \in Subnets
    BY DEF SubnetInHand
  <2>2. Usable
    BY <2>1 DEF Subnets
  <2>3. kind[n].pool \in Octets
    <3>1. kind[n].pool \in SubnetMin..SubnetMax
      BY <2>1, <2>2 DEF Subnets
    <3> QED
      BY <3>1, SubnetAssumption DEF Octets
  <2> QED
    BY <2>1, <2>2, <2>3, KindNetworkSupported, SubnetInside DEF SubnetOf
<1> QED
  BY <1>1, SubnetKept, PTL

=============================================================================

---------------------------- MODULE KindNetworking ----------------------------
(***************************************************************************)
(* The pure part of pkg/kind/networking.go: which network Docker gives its *)
(* kind clusters, and the subnet of it that has a given third octet.  An   *)
(* address is its four octets, a network an address and the ones of its    *)
(* mask.                                                                   *)
(***************************************************************************)
EXTENDS Integers, Sequences

Octets == 0..255
Addresses == [1..4 -> Octets]
Networks == [ip : Addresses, ones : 0..32]

(* An entry of IPAM.Config in the answer of "docker network inspect": what *)
(* net.ParseCIDR makes of its Subnet, an error included.                   *)
Configs == [family : {"v4", "v6", "error"}, ip : Addresses, ones : 0..32]

(* The conversion of an int to a byte.                                     *)
Byte(i) == i % 256

(* net.ParseCIDR clears the bits of the address that the mask does not     *)
(* cover: all, some or none of an octet.                                   *)
Cleared(k, ones) == IF ones >= 8 * k THEN 1 ELSE IF ones <= 8 * (k - 1) THEN 256
                                                 ELSE 2^(8 * k - ones)
Masked(ip, ones) == [k \in 1..4 |-> ip[k] - (ip[k] % Cleared(k, ones))]

(* parseDockerV4Network: the first entry that is not IPv6 ends the search, *)
(* with its network or with an error; there may be none.                   *)
First(configs, i) == /\ i \in 1..Len(configs) /\ configs[i].family # "v6"
                     /\ \A j \in 1..(i - 1) : configs[j].family = "v6"
ParseDockerV4Network(configs) ==
  {[ip |-> Masked(configs[i].ip, configs[i].ones), ones |-> configs[i].ones] :
     i \in {j \in 1..Len(configs) : First(configs, j) /\ configs[j].family = "v4"}}

(* A network other than /8 and /16 is refused.                             *)
Supported(net) == net.ones \in {8, 16}

(* Mutant: the octet before the third one is set.                          *)
CalculateV4SubnetShifted(net, offset) ==
  [ip |-> [net.ip EXCEPT ![2] = Byte(offset)], ones |-> 24]

CalculateV4Subnet(net, offset) ==
  [ip |-> [net.ip EXCEPT ![3] = Byte(offset)], ones |-> 24]

-----------------------------------------------------------------------------
(* What a subnet has to be.                                                *)

(* The address lies in the network.                                        *)
Contains(net, ip) == Masked(ip, net.ones) = Masked(net.ip, net.ones)

(* Every address of the subnet lies in the network.                        *)
Inside(sub, net) == sub.ones >= net.ones /\ Contains(net, sub.ip)

(* No address lies in both networks.                                       *)
Disjoint(s, t) ==
  LET ones == IF s.ones <= t.ones THEN s.ones ELSE t.ones
  IN Masked(s.ip, ones) # Masked(t.ip, ones)

=============================================================================

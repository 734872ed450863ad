---------------------------- MODULE MCXdpFirewall ----------------------------
(***************************************************************************)
(* Instances of XdpFirewall for TLC: one server, with an HTTPS flow and a  *)
(* DNS flow to it.                                                         *)
(***************************************************************************)
EXTENDS XdpFirewall

CONSTANT server

MCHosts == {server}

Https == [host |-> server, proto |-> "tcp", service |-> "tls"]
Dns   == [host |-> server, proto |-> "udp", service |-> "system"]

MCFlows == {Https, Dns}

\* one kind of packet for each action and each outcome of it
MixedTraffic ==
    {"bad_l2", "bad_l3", "tcp", "udp", "icmp", "frag_udp", "other"}
==============================================================================

------------------------------ MODULE MCAgent -------------------------------
(* A small instance of Agent for TLC: one client that asks for one name.   *)
EXTENDS Agent

MCAsk == [src |-> "a", dst |-> "r", dport |-> 53, sport |-> 2, protocol |-> "udp"]
MCTraffic == {[flow |-> MCAsk, size |-> 1, query |-> "d"]}
MCHash == [e \in {<<"r", 53>>} |-> 0]
MCLeases == {<<>>}

(* The ruleset of the backend raises alerts, the defaults do not.          *)
MCRulesets == {[udp |-> 1, tcp |-> 1, any |-> 9]}
MCDefaults == [udp |-> 9, tcp |-> 9, any |-> 9]
=============================================================================

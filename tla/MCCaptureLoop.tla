---------------------------- MODULE MCCaptureLoop ---------------------------
(* A small instance of CaptureLoop for TLC: one TCP and one UDP flow of    *)
(* one client, the UDP one a DNS query.                                    *)
EXTENDS CaptureLoop

MCWeb == [src |-> "a", dst |-> "w", dport |-> 443, sport |-> 1, protocol |-> "tcp"]
MCAsk == [src |-> "a", dst |-> "r", dport |-> 53, sport |-> 2, protocol |-> "udp"]
MCTraffic == {[flow |-> MCWeb, size |-> 3, query |-> NoQuery],
              [flow |-> MCAsk, size |-> 1, query |-> "d"]}
MCHash == [e \in {<<"w", 443>>, <<"r", 53>>} |-> IF e[1] = "w" THEN 0 ELSE 1]
MCThresholds == {[udp |-> 1, tcp |-> 1, any |-> 6], [udp |-> 9, tcp |-> 9, any |-> 99]}
MCLeases == {<<"a", "b">>}
=============================================================================

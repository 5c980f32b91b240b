---------------------------- MODULE ClientRoster ----------------------------
(***************************************************************************)
(* The clients of the router (src/src/client_roster.c): a table of when    *)
(* each private address was last seen as a packet's source, in which a new *)
(* address replaces the one seen longest ago when the table is full, and   *)
(* the roster: the DHCP leases, each marked online or not.                 *)
(*                                                                         *)
(* The lease file belongs to the DHCP server and may change between any    *)
(* two reads.                                                              *)
(*                                                                         *)
(* A definition marked "Mutant of D" is a plausible bug: D with that body  *)
(* must violate a property.  No other definition uses it.                  *)
(***************************************************************************)
EXTENDS Integers, Sequences, FiniteSetsExt, SequencesExt

CONSTANTS
    Addresses,     \* source addresses of packets
    Private,       \* those is_private_ip accepts
    ActivityMax,   \* CLIENT_ACTIVITY_MAX
    ClientMax,     \* CLIENT_MAX
    OnlineSeconds, \* CLIENT_ONLINE_WINDOW_SECONDS
    Leases,        \* what the lease file can hold: sequences of addresses
    MaxTime        \* bound: the clock stays in 0..MaxTime

ClientRosterAssumption ==
    /\ Private \subseteq Addresses
    /\ ActivityMax \in Nat \ {0} /\ ClientMax \in Nat
    /\ OnlineSeconds \in Nat /\ MaxTime \in Nat
    /\ Leases \subseteq Seq(Addresses)

VARIABLES
    activity,  \* the table: [ip, last_seen]
    roster,    \* the roster collected last: [ip, online]
    clock,     \* time(NULL); it only goes forward here
    heard      \* history: when each address was seen last, -1 if never

vars == <<activity, roster, clock, heard>>

-----------------------------------------------------------------------------
(* client_activity_touch.                                                  *)
Newest(table) ==   \* Mutant of Oldest
    Max({i \in DOMAIN table : \A k \in DOMAIN table : table[k].last_seen <= table[i].last_seen})
Oldest(table) ==
    Min({i \in DOMAIN table : \A k \in DOMAIN table : table[i].last_seen <= table[k].last_seen})

At(table, ip) == {i \in DOMAIN table : table[i].ip = ip}

Touched(table, ip, now) ==
    LET entry == [ip |-> ip, last_seen |-> now]
    IN  IF ip \notin Private THEN table
        ELSE IF At(table, ip) # {} THEN [table EXCEPT ![Min(At(table, ip))] = entry]
        ELSE IF Len(table) < ActivityMax THEN Append(table, entry)
        ELSE [table EXCEPT ![Oldest(table)] = entry]

(* activity_is_online.                                                     *)
Exclusive(seconds) == seconds < OnlineSeconds   \* Mutant of WithinWindow
WithinWindow(seconds) == seconds <= OnlineSeconds

Online(table, ip, now) ==
    At(table, ip) # {} /\ WithinWindow(now - table[Min(At(table, ip))].last_seen)

(* client_roster_collect: the leases that fit, marked.                     *)
Fitting(leases) == SubSeq(leases, 1, Min({Len(leases), ClientMax}))

Collected(leases, table, now) ==
    [i \in DOMAIN Fitting(leases) |->
        [ip |-> leases[i], online |-> Online(table, leases[i], now)]]

-----------------------------------------------------------------------------
Init ==
    /\ activity = <<>> /\ roster = <<>>
    /\ clock = 0
    /\ heard = [ip \in Addresses |-> -1]

Packet ==
    /\ \E ip \in Addresses :
          /\ activity' = Touched(activity, ip, clock)
          /\ heard' = [heard EXCEPT ![ip] = clock]
    /\ UNCHANGED <<roster, clock>>

Collect ==
    /\ \E leases \in Leases : roster' = Collected(leases, activity, clock)
    /\ UNCHANGED <<activity, clock, heard>>

Tick ==
    /\ clock < MaxTime
    /\ clock' = clock + 1
    /\ UNCHANGED <<activity, roster, heard>>

Next == Packet \/ Collect \/ Tick

Spec == Init /\ [][Next]_vars

-----------------------------------------------------------------------------
(* Both tables stay within their arrays and list an address once.          *)
TypeOK ==
    /\ activity \in Seq([ip : Private, last_seen : 0..MaxTime])
    /\ Len(activity) <= ActivityMax
    /\ \A i, k \in DOMAIN activity : i # k => activity[i].ip # activity[k].ip
    /\ roster \in Seq([ip : Addresses, online : BOOLEAN])
    /\ Len(roster) <= ClientMax

(* An address in the table is there with the time it was really seen, and  *)
(* one that was thrown out was seen no later than any that stayed.         *)
StalestEvicted ==
    /\ \A i \in DOMAIN activity : activity[i].last_seen = heard[activity[i].ip]
    /\ \A ip \in Private :
          heard[ip] >= 0 /\ At(activity, ip) = {} =>
             \A i \in DOMAIN activity : heard[ip] <= activity[i].last_seen

(* A roster entry is marked online only if its address was seen within the *)
(* window, and always then unless at least ActivityMax other private       *)
(* addresses were seen no earlier.                                         *)
Busier(ip) == {other \in Private \ {ip} : heard[other] >= heard[ip]}

OnlineIsHonest ==
    [][roster' # roster =>
          \A i \in DOMAIN roster' :
             LET ip == roster'[i].ip
                 fresh == /\ ip \in Private /\ heard[ip] >= 0
                          /\ clock - heard[ip] <= OnlineSeconds
             IN  /\ roster'[i].online => fresh
                 /\ fresh /\ ~roster'[i].online => Cardinality(Busier(ip)) >= ActivityMax]_vars
=============================================================================

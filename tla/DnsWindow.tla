----------------------------- MODULE DnsWindow ------------------------------
(***************************************************************************)
(* The DNS queries of one statistics window (src/src/dns_window.c): how    *)
(* often each client asked for each domain, in a table of fixed capacity.  *)
(*                                                                         *)
(* A definition marked "Mutant of D" is a plausible bug: D with that body  *)
(* must violate a property.  No other definition uses it.                  *)
(***************************************************************************)
EXTENDS Sums, Sequences, FiniteSetsExt

CONSTANTS
    Capacity,         \* DNS_MAX_EVENTS
    Clients, Domains,
    MaxQueries        \* bound: queries in one window

DnsWindowAssumption == Capacity \in Nat /\ MaxQueries \in Nat

VARIABLES
    events,  \* the table: [client, domain, count], in order of appearance
    asked    \* history: the queries of this window, in order

vars == <<events, asked>>

-----------------------------------------------------------------------------
(* dns_window_add.                                                         *)
SameDomain(event, query) == event.domain = query.domain   \* Mutant of Matches
Matches(event, query) == event.client = query.client /\ event.domain = query.domain

Full(table) == Len(table) >= Capacity

AddedTo(table, query) ==
    LET matching == {i \in DOMAIN table : Matches(table[i], query)}
    IN  IF matching # {} THEN [table EXCEPT ![Min(matching)].count = @ + 1]
        ELSE IF Full(table) THEN table
        ELSE Append(table, [client |-> query.client, domain |-> query.domain, count |-> 1])

Cleared == <<>>   \* dns_window_reset

-----------------------------------------------------------------------------
Init == events = <<>> /\ asked = <<>>

Ask ==
    /\ Len(asked) < MaxQueries
    /\ \E client \in Clients, domain \in Domains :
          LET query == [client |-> client, domain |-> domain]
          IN  /\ events' = AddedTo(events, query)
              /\ asked' = Append(asked, query)

Reset ==
    /\ asked # <<>>
    /\ events' = Cleared
    /\ asked' = <<>>

Next == Ask \/ Reset

Spec == Init /\ [][Next]_vars

-----------------------------------------------------------------------------
(* The table never outgrows its capacity, and nobody is in it twice for    *)
(* the same domain.                                                        *)
TypeOK ==
    /\ events \in Seq([client : Clients, domain : Domains, count : Nat \ {0}])
    /\ Len(events) <= Capacity
    /\ \A i, k \in DOMAIN events : i # k =>
          <<events[i].client, events[i].domain>> # <<events[k].client, events[k].domain>>

(* A reported count is the client's true number of queries for the domain  *)
(* in this window, however many other queries were turned away; a query is *)
(* missing only when the table is full.                                    *)
Asked(client, domain) ==
    HowMany(asked, LAMBDA q : q.client = client /\ q.domain = domain)

CountsExact ==
    /\ \A i \in DOMAIN events :
          events[i].count = Asked(events[i].client, events[i].domain)
    /\ \A client \in Clients, domain \in Domains :
          Asked(client, domain) > 0 =>
             \/ \E i \in DOMAIN events :
                   events[i].client = client /\ events[i].domain = domain
             \/ Len(events) = Capacity
=============================================================================

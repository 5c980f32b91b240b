---------------------------- MODULE PacketParser ----------------------------
(***************************************************************************)
(* parse_packet (src/src/packet_parser.c): three headers are examined, each*)
(* behind a check of the length of the frame, and the name of a DNS query  *)
(* is copied label by label, which is the only loop over bytes of the wire.*)
(*                                                                         *)
(* A frame is its length, the header fields parse_packet looks at, and the *)
(* bytes from the first label on; reach is how far it has been read.  A    *)
(* character of the name is the byte, or Dot.  Addresses, ports and size   *)
(* are copied to the result as they are and left out.                      *)
(*                                                                         *)
(* A definition marked "Mutant of D" is a plausible bug: D with that body  *)
(* must violate a property.  No other definition uses it.                  *)
(***************************************************************************)
EXTENDS Integers, Sequences, FiniteSetsExt

CONSTANTS
    NameSize,  \* sizeof(dns_qname)
    Frames,    \* [length, type, version, ihl, protocol, dport, qdcount,
               \*  response, bytes]
    Dot

(* A frame holds what its length says: the bytes behind the DNS header are *)
(* those up to its end.  The length of the IP header is a field of 4 bits. *)
PacketParserAssumption ==
    /\ NameSize \in Nat \ {0}
    /\ \A f \in Frames :
          /\ f.length \in Nat /\ f.ihl \in 0..15
          /\ f.qdcount \in Nat /\ f.response \in BOOLEAN
          /\ f.bytes \in Seq(0..255)
          /\ Len(f.bytes) = Max({0, f.length - (34 + 4 * f.ihl)})

VARIABLES
    frame,      \* buffer and len
    at,         \* what is examined next, or the result: "ignored" (0 is
                \* returned), "packet", or "query" (is_dns_query is 1)
    pos, name,  \* pos, and the o characters of dns_qname written so far
    reach       \* history: the bytes of buffer read lie in 0..(reach - 1)

vars == <<frame, at, pos, name, reach>>

-----------------------------------------------------------------------------
(* struct ethhdr has 14 bytes, struct iphdr 20, the UDP header 8, the DNS  *)
(* header 12.                                                              *)
TransportOffset == 14 + 4 * frame.ihl
DnsOffset == TransportOffset + 8
NameOffset == DnsOffset + 12

(* What lies past the end of the frame is never used (ParsesExactly).      *)
Byte(i) == IF i < frame.length THEN frame.bytes[i - NameOffset + 1] ELSE 0

(* How long a frame must be for a DNS header.                              *)
WithoutUdpHeader == TransportOffset + 12   \* Mutant of DnsHeaderEnd
DnsHeaderEnd == NameOffset

Init ==
    /\ frame \in Frames
    /\ at = "ethernet" /\ pos = 0 /\ name = <<>> /\ reach = 0

(* A header that should end at need, of which the bytes up to read are     *)
(* looked at: on goes a frame for which accepted holds.                    *)
Examine(header, need, read, accepted, next, otherwise) ==
    /\ at = header
    /\ at' = IF frame.length >= need /\ accepted THEN next ELSE otherwise
    /\ reach' = IF frame.length >= need THEN Max({reach, read}) ELSE reach
    /\ UNCHANGED <<frame, name>>

Ethernet ==
    /\ Examine("ethernet", 14, 14, frame.type = "ip", "ip", "ignored")
    /\ UNCHANGED pos

Ip ==
    /\ Examine("ip", 34, 34, frame.version = 4 /\ 4 * frame.ihl >= 20,
               "transport", "ignored")
    /\ UNCHANGED pos

Transport ==
    /\ Examine("transport", TransportOffset + 4, TransportOffset + 4,
               frame.protocol \in {"tcp", "udp"},
               IF frame.protocol = "udp" /\ frame.dport = 53 THEN "dns" ELSE "packet",
               "ignored")
    /\ UNCHANGED pos

DnsHeader ==
    /\ Examine("dns", DnsHeaderEnd, DnsOffset + 6,
               frame.qdcount >= 1 /\ ~frame.response, "label", "packet")
    /\ pos' = IF at' = "label" THEN NameOffset ELSE pos

(* The checks on a label of length n at pos.  The top bits of a length     *)
(* byte mark a compression pointer.                                        *)
IsLabel(n) == n \in 1..63

ForgetsLengthByte(n) == pos + n <= frame.length   \* Mutant of LabelFits
LabelFits(n) == pos + 1 + n <= frame.length

DotNotCounted(n) == Len(name) + n <= NameSize - 1   \* Mutant of NameFits
NameFits(n) == Len(name) + n + 1 <= NameSize - 1

Copies(n) == IsLabel(n) /\ LabelFits(n) /\ NameFits(n)

Label ==
    /\ at = "label" /\ pos < frame.length
    /\ Copies(Byte(pos))
    /\ name' = name \o [j \in 1..Byte(pos) |-> Byte(pos + j)] \o <<Dot>>
    /\ pos' = pos + 1 + Byte(pos)
    /\ reach' = Max({reach, pos'})
    /\ UNCHANGED <<frame, at>>

(* The root label ends the name, whose last dot becomes the final 0.       *)
NameEnds ==
    /\ at = "label" /\ pos < frame.length
    /\ Byte(pos) = 0 /\ name # <<>>
    /\ at' = "query"
    /\ name' = SubSeq(name, 1, Len(name) - 1)
    /\ reach' = Max({reach, pos + 1})
    /\ UNCHANGED <<frame, pos>>

NotAName ==
    /\ at = "label"
    /\ \/ pos >= frame.length /\ UNCHANGED reach
       \/ /\ pos < frame.length
          /\ IF Byte(pos) = 0 THEN name = <<>> ELSE ~Copies(Byte(pos))
          /\ reach' = Max({reach, pos + 1})
    /\ at' = "packet" /\ name' = <<>>
    /\ UNCHANGED <<frame, pos>>

Next == Ethernet \/ Ip \/ Transport \/ DnsHeader \/ Label \/ NameEnds \/ NotAName

Spec == Init /\ [][Next]_vars

-----------------------------------------------------------------------------
Results == {"ignored", "packet", "query"}

(* The shape of a result and of the walk so far.                           *)
TypeOK ==
    /\ frame \in Frames
    /\ at \in {"ethernet", "ip", "transport", "dns", "label"} \cup Results
    /\ pos \in 0..frame.length /\ reach \in 0..frame.length
    /\ name \in Seq(0..255 \cup {Dot}) /\ Len(name) < NameSize

(* What a name is: labels of 1 to 63 bytes, each followed by the next one, *)
(* the last by the root label at end, and all of it fits dns_qname with a  *)
(* final 0.  Positions count from the first length byte.                   *)
After(bytes, s) == s + bytes[s] + 1

IsName(bytes, starts, end) ==
    /\ bytes[end] = 0 /\ end <= NameSize
    /\ \A s \in starts : bytes[s] \in 1..63 /\ After(bytes, s) \in starts \cup {end}
    /\ starts = {1} \cup ({After(bytes, s) : s \in starts} \ {end})

Dotted(bytes, starts, end) ==
    [i \in 1..(end - 2) |-> IF i + 1 \in starts THEN Dot ELSE bytes[i + 1]]

(* The frame is an IPv4 packet over TCP or UDP whose ports have arrived.   *)
IsPacket ==
    /\ frame.length >= 34 /\ frame.type = "ip" /\ frame.version = 4 /\ frame.ihl >= 5
    /\ frame.length >= TransportOffset + 4 /\ frame.protocol \in {"tcp", "udp"}

IsQuestion ==
    /\ frame.protocol = "udp" /\ frame.dport = 53 /\ frame.length >= NameOffset
    /\ frame.qdcount > 0 /\ ~frame.response

(* Whatever arrives, and wherever it is cut: no byte past its end is read, *)
(* none past the end of dns_qname is written; a packet is told from what is*)
(* not, and a query is reported exactly for a question with a name, which  *)
(* is the name then reported.                                              *)
ParsesExactly ==
    /\ reach <= frame.length /\ Len(name) < NameSize
    /\ at \in Results =>
         LET named(starts, end) == IsName(frame.bytes, starts, end)
             ends == 1..Len(frame.bytes)
             query == /\ IsPacket /\ IsQuestion
                      /\ \E end \in ends : \E starts \in SUBSET (1..(end - 1)) : named(starts, end)
         IN  /\ at # "ignored" <=> IsPacket
             /\ at = "query" <=> query
             /\ at = "query" =>
                  \A end \in ends : \A starts \in SUBSET (1..(end - 1)) :
                      named(starts, end) => name = Dotted(frame.bytes, starts, end)
             /\ at # "query" => name = <<>>
=============================================================================

------------------------------ MODULE HttpPost ------------------------------
(***************************************************************************)
(* One call of http_post_json (src/src/http_client.c): the request is sent *)
(* over a plain socket or over TLS, and the reply is read until the        *)
(* backend closes, the buffer is full, or the socket gives up.             *)
(*                                                                         *)
(* Request and reply are counted in units.  A reply is the version, the    *)
(* three digits of the status, r.head more units up to the empty line, and *)
(* a body: r.lead, and if r.named the deviceId, that is its key with the   *)
(* opening quote ("key"), the letters of r.id and the closing quote.  What *)
(* the agent makes of the units it got is StatusRead and IdRead; IdRead is *)
(* what backend_register does with the body that the call hands over.      *)
(*                                                                         *)
(* The backend and the kernel are external.  The connection is "open",     *)
(* "fin" (the backend closed its end), "gone" (it closed and then answered *)
(* data with a reset) or "reset" (it was reset while open).  A send on a   *)
(* connection that is gone raises SIGPIPE; one that was reset while open   *)
(* only fails.  mbedtls_net_connect ignores SIGPIPE for the process.       *)
(*                                                                         *)
(* A definition marked "Mutant of D" is a plausible bug: D with that body  *)
(* must violate a property.  No other definition uses it.                  *)
(***************************************************************************)
EXTENDS Integers, Sequences, FiniteSetsExt

CONSTANTS
    Schemes,      \* "http", "https" or both
    Addresses,    \* bound: how many addresses a host name resolves to
    Length,       \* units of the request
    ResponseMax,  \* HTTP_RESPONSE_MAX - 1, in units
    RespMax,      \* RESP_BODY_MAX - 1, in units
    IdMax,        \* what cfg->device_id holds, in units
    Letters,      \* the units of an id
    Replies,      \* the replies of the backend
    NoReply

ASSUME HttpPostAssumption ==
    /\ Schemes \subseteq {"http", "https"}
    /\ Addresses \in Nat /\ Length \in Nat \ {0} /\ ResponseMax \in Nat \ {0}
    /\ RespMax \in Nat \ {0} /\ IdMax \in Nat \ {0}
    /\ "key" \notin Letters /\ "quote" \notin Letters
    /\ Replies \subseteq [code : 100..599, head : Nat \ {0}, named : BOOLEAN,
                         lead : Seq(Letters \cup {"quote"}), id : Seq(Letters)]
    /\ NoReply \notin Replies

VARIABLES
    scheme,       \* cfg->scheme
    pc,           \* "build", "connect", "handshake", "send", "receive",
                  \* "returned" or "killed"
    left,         \* addresses not tried yet
    sent, total,  \* units handed to the kernel, units read from it
    status,       \* the return value
    peer,         \* the connection
    delivered,    \* units of the request the backend has
    reply,        \* its reply
    emitted,      \* units of the reply the kernel has for the agent
    acted         \* history: whether the backend acted on the request

agent == <<scheme, pc, left, sent, total, status>>
backend == <<peer, delivered, reply, emitted, acted>>
vars == <<agent, backend>>

-----------------------------------------------------------------------------
AnyBelow300(code) == code >= 0 /\ code < 300   \* Mutant of HttpOk: 2 and 20 pass for 200
HttpOk(code) == code >= 200 /\ code < 300

BodyStart(r) == 4 + r.head
ReplyBody(r) == r.lead \o (IF r.named THEN <<"key">> \o r.id \o <<"quote">> ELSE <<>>)
ReplyLength(r) == BodyStart(r) + Len(ReplyBody(r))

(* parse_status_code on the first n units: a number that is cut reads as   *)
(* the digits that arrived.                                                *)
StatusRead(r, n) ==
    CASE n <= 1 -> -1
      [] n = 2 -> r.code \div 100
      [] n = 3 -> r.code \div 10
      [] OTHER -> r.code

(* The body that is handed over when n units of the reply were read.       *)
Arrived(r, n) == Min({n - BodyStart(r), RespMax, Len(ReplyBody(r))})

(* The first place of a unit in b[from..to], as a set with one element or  *)
(* none: strstr and strchr.                                                *)
FirstOf(unit, b, from, to) ==
    {i \in from..to : b[i] = unit /\ \A h \in from..(i - 1) : b[h] # unit}

(* extract_json_string: the string behind the key, if its end is there, cut*)
(* to the size of the buffer.                                              *)
QuoteOrEnd(b, from, to) ==   \* Mutant of ClosingQuote: it is not required
    IF FirstOf("quote", b, from, to) = {} THEN {to + 1} ELSE FirstOf("quote", b, from, to)
ClosingQuote(b, from, to) == FirstOf("quote", b, from, to)

IdRead(r, n) ==
    LET b == ReplyBody(r)
        found(k) == {SubSeq(b, k + 1, Min({j - 1, k + IdMax})) :
                        j \in ClosingQuote(b, k + 1, Arrived(r, n))}
    IN  UNION {found(k) : k \in FirstOf("key", b, 1, Arrived(r, n))}

-----------------------------------------------------------------------------
Init ==
    /\ scheme \in Schemes /\ pc = "build"
    /\ left = 0 /\ sent = 0 /\ total = 0 /\ status = -1
    /\ peer = "none" /\ delivered = 0 /\ reply = NoReply /\ emitted = 0
    /\ acted = FALSE

(* A request longer than HTTP_REQUEST_MAX is not sent, and a name that does*)
(* not resolve has no address.                                             *)
Build ==
    /\ pc = "build"
    /\ \/ left' \in 1..Addresses /\ pc' = "connect"
       \/ left' = 0 /\ pc' = "returned"
    /\ UNCHANGED <<scheme, sent, total, status, backend>>

ConnectFails ==
    /\ pc = "connect"
    /\ left' = left - 1
    /\ pc' = IF left = 1 THEN "returned" ELSE "connect"
    /\ UNCHANGED <<scheme, sent, total, status, backend>>

Connected ==
    /\ pc = "connect"
    /\ peer' = "open"
    /\ pc' = IF scheme = "https" THEN "handshake" ELSE "send"
    /\ UNCHANGED <<scheme, left, sent, total, status,
                   delivered, reply, emitted, acted>>

Returns(code) == pc' = "returned" /\ status' = code

Fails ==
    /\ Returns(-1)
    /\ UNCHANGED <<scheme, left, sent, total, backend>>

(* The handshake over a connection the backend has ended.                  *)
HandshakeBroken == pc = "handshake" /\ peer # "open" /\ Fails

(* send_all and the loop over mbedtls_ssl_write: each call takes some part *)
(* of what is left.                                                        *)
SendSome ==
    /\ pc = "send" /\ peer \in {"open", "fin"}
    /\ \E n \in 1..(Length - sent) : sent' = sent + n
    /\ pc' = IF sent' = Length THEN "receive" ELSE "send"
    /\ UNCHANGED <<scheme, left, total, status, backend>>

(* setsockopt gives the plain socket timeouts in both directions; a signal *)
(* to the thread ends a call in the same way.                              *)
NoTimeout == FALSE   \* Mutant of HasTimeout
HasTimeout == scheme = "http"

SendTimesOut == pc = "send" /\ HasTimeout /\ Fails

SendOnReset == pc = "send" /\ peer = "reset" /\ Fails

(* EPIPE.  The process has no handler for SIGPIPE and send no MSG_NOSIGNAL.*)
SendOnGone ==
    /\ pc = "send" /\ peer = "gone"
    /\ IF scheme = "https" THEN Fails
       ELSE pc' = "killed" /\ UNCHANGED <<scheme, left, sent, total, status, backend>>

ReceiveSome ==
    /\ pc = "receive" /\ total < ResponseMax
    /\ \E n \in 1..(emitted - total) :
          total' = Min({total + n, ResponseMax})
    /\ UNCHANGED <<scheme, pc, left, sent, status, backend>>

(* recv or mbedtls_ssl_read returned 0 or an error, or the buffer is full: *)
(* the loop is left and whatever arrived is parsed.                        *)
LoopEnds ==
    \/ total = ResponseMax
    \/ peer \in {"fin", "gone"} /\ total = emitted
    \/ peer = "reset"
    \/ HasTimeout /\ total = emitted

Parse ==
    /\ pc = "receive" /\ LoopEnds
    /\ Returns(IF total = 0 THEN -1 ELSE StatusRead(reply, total))
    /\ UNCHANGED <<scheme, left, sent, total, backend>>

-----------------------------------------------------------------------------
(* The backend.  It may do nothing at any time, close or reset at any time,*)
(* refuse a request it has only in part, and it goes on with what it has   *)
(* after the agent has given up.                                           *)
HandshakeEnds ==
    /\ pc = "handshake" /\ peer = "open"
    /\ \/ pc' = "send" /\ UNCHANGED <<scheme, left, sent, total, status, backend>>
       \/ Fails

Arrives ==
    /\ peer = "open" /\ delivered < sent
    /\ delivered' = delivered + 1
    /\ UNCHANGED <<agent, peer, reply, emitted, acted>>

Acts ==
    /\ peer = "open" /\ delivered = Length /\ reply = NoReply
    /\ reply' \in Replies
    /\ acted' = TRUE
    /\ UNCHANGED <<agent, peer, delivered, emitted>>

Refuses ==
    /\ peer = "open" /\ pc # "handshake" /\ reply = NoReply
    /\ reply' \in {r \in Replies : ~HttpOk(r.code)}
    /\ UNCHANGED <<agent, peer, delivered, emitted, acted>>

Emits ==
    /\ peer = "open" /\ reply # NoReply /\ emitted < ReplyLength(reply)
    /\ emitted' = emitted + 1
    /\ UNCHANGED <<agent, peer, delivered, reply, acted>>

Ends ==
    /\ \/ peer = "open" /\ peer' \in {"fin", "reset"}
       \/ peer = "fin" /\ delivered < sent /\ peer' = "gone"
    /\ UNCHANGED <<agent, delivered, reply, emitted, acted>>

-----------------------------------------------------------------------------
Terminated == pc \in {"returned", "killed"} /\ UNCHANGED vars

Agent ==
    \/ Build \/ ConnectFails \/ Connected \/ HandshakeBroken
    \/ SendSome \/ SendTimesOut \/ SendOnReset \/ SendOnGone
    \/ ReceiveSome \/ Parse

Backend == HandshakeEnds \/ Arrives \/ Acts \/ Refuses \/ Emits \/ Ends

Next == Agent \/ Backend \/ Terminated

Spec == Init /\ [][Next]_vars

(* The thread runs, and a call on a socket with a timeout returns; nothing *)
(* is assumed of the backend.                                              *)
FairSpec == Spec /\ WF_vars(Agent)

-----------------------------------------------------------------------------
(* Counters stay within the request, the reply and the buffer.             *)
TypeOK ==
    /\ scheme \in Schemes
    /\ pc \in {"build", "connect", "handshake", "send", "receive", "returned", "killed"}
    /\ left \in 0..Addresses
    /\ sent \in 0..Length /\ delivered \in 0..sent
    /\ total \in 0..Min({emitted, ResponseMax}) /\ status \in -1..599
    /\ peer \in {"none", "open", "fin", "gone", "reset"}
    /\ reply \in Replies \cup {NoReply}
    /\ emitted \in 0..(IF reply = NoReply THEN 0 ELSE ReplyLength(reply))
    /\ acted \in BOOLEAN

(* The call implements PostExchange: cut replies, early refusals, timeouts *)
(* and resets never make it report a success for a request the backend did *)
(* not act on, and a success is reported once.                             *)
Exchange == INSTANCE PostExchange WITH
    accepted <- acted,
    outcome <- CASE pc = "returned" -> IF HttpOk(status) THEN "ok" ELSE "failed"
                 [] pc = "killed" -> "dead"
                 [] OTHER -> "pending"

ExchangeSpec == Exchange!Spec

(* However a reply is cut, by the backend, a timeout, the response buffer  *)
(* or the buffer of the body, a registration takes the id the backend      *)
(* issued, or none, and none only if a part of the reply is missing.  Of an*)
(* id too long for cfg->device_id it takes the same beginning each time.   *)
RegistersWhole ==
    pc = "returned" /\ HttpOk(status) =>
        IdRead(reply, total) =
            IF reply.named /\ total = ReplyLength(reply) /\ Len(ReplyBody(reply)) <= RespMax
            THEN {SubSeq(reply.id, 1, Min({Len(reply.id), IdMax}))} ELSE {}

(* A post over a plain socket returns whatever the backend does or leaves  *)
(* undone, drip-feeding included.  This is what lets uploader_stop return. *)
PlainReturns == scheme = "http" ~> pc \in {"returned", "killed"}

-----------------------------------------------------------------------------
(* README: "Networking failures never stop packet capture [...] the agent  *)
(* [...] keeps running."  A post therefore never ends the process, ...     *)
NeverKilled == pc # "killed"

(* ... and returns: the registration is posted by the capture thread, in   *)
(* front of its loop.                                                      *)
AlwaysReturns == <>(pc \in {"returned", "killed"})
=============================================================================

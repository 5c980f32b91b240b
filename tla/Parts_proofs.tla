---------------------------- MODULE Parts_proofs ----------------------------
(***************************************************************************)
(* Proofs about the components that work on their own, for every value of  *)
(* their constants: the call of http_post_json (HttpPost), the parser of   *)
(* frames, the bodies of messages, the fetch of a ruleset, the CPU gauge   *)
(* and the client roster.  All but the first have the names that Parts     *)
(* gives them; the assumption on the constants of such a part is a         *)
(* hypothesis of its theorems.                                             *)
(***************************************************************************)
EXTENDS HttpPost, Parts, FiniteSetTheorems, SequenceTheorems, TLAPS

(* Facts about numbers, and about the folds of RulesetFetch and BatchBody. *)
Scaled(v, digit) == 10 * v + digit
Decimal == INSTANCE FoldFacts WITH Op <- Scaled
Listed(list, k) == IF k = 0 THEN list ELSE Append(list, k)
Lists == INSTANCE FoldFacts WITH Op <- Listed
Lengthened(n, length) == n + 1 + length
Lengths == INSTANCE FoldFacts WITH Op <- Lengthened

(* Every set of numbers has a least one.                                   *)
LEMMA LeastExists ==
    ASSUME NEW I \in SUBSET Nat, I # {}
    PROVE  \E m \in I : \A k \in I : m <= k
<1> DEFINE T == {j \in Nat : \A x \in 0..j : x \notin I}
<1> SUFFICES ASSUME \A m \in I : \E k \in I : ~(m <= k) PROVE FALSE
  OBVIOUS
<1>1. 0 \in T
  <2>1. \A x \in 0..0 : x = 0
    OBVIOUS
  <2>2. 0 \notin I
    OBVIOUS
  <2> QED
    BY <2>1, <2>2
<1>2. \A j \in T : j + 1 \in T
  <2> TAKE j \in T
  <2>1. j \in Nat /\ j + 1 \in Nat /\ \A x \in 0..j : x \notin I
    OBVIOUS
  <2>2. j + 1 \notin I
    BY <2>1
  <2> QED
    BY <2>1, <2>2
<1>3. T \in SUBSET Nat
  OBVIOUS
<1> HIDE DEF T
<1>4. \A j \in Nat : j \in T
  BY <1>1, <1>2, <1>3, Decimal!Induction
<1>5. PICK x \in I : x \in T
  BY <1>4
<1> QED
  BY <1>5 DEF T


(*****************************************************************************)
(* HttpPost                                                                  *)
(*****************************************************************************)

(* The strengthening that makes the refinement inductive.  A reply that is *)
(* a success comes from a backend that acted on the request, and nothing is*)
(* judged but by what was read of the reply.                               *)
Judged ==
    /\ pc = "connect" => left >= 1
    /\ reply = NoReply => ~acted
    /\ reply # NoReply /\ HttpOk(reply.code) => acted
    /\ pc # "returned" => status = -1
    /\ status # -1 => reply # NoReply /\ status = StatusRead(reply, total)

IInv == TypeOK /\ Judged

-----------------------------------------------------------------------------
(* The smaller of two numbers.                                             *)
LEMMA MinOfTwo ==
    ASSUME NEW a \in Int, NEW b \in Int
    PROVE  Min({a, b}) = IF a <= b THEN a ELSE b
<1> DEFINE least == IF a <= b THEN a ELSE b
<1>1. least \in {a, b} /\ \A y \in {a, b} : least <= y
  OBVIOUS
<1>2. \A x \in {a, b} : (\A y \in {a, b} : x <= y) => x = least
  OBVIOUS
<1> QED
  BY <1>1, <1>2 DEF Min

(* The type invariant without the smaller of two numbers.                  *)
LEMMA TypeUnfolded ==
    ASSUME emitted \in Nat
    PROVE  total \in 0..Min({emitted, ResponseMax})
             <=> total \in Nat /\ total <= emitted /\ total <= ResponseMax
BY MinOfTwo, HttpPostAssumption

(* The status code is that of the reply, or a number the digits of the     *)
(* reply begin with, and only the code itself can be that of a success.    *)
LEMMA StatusReadIs ==
    ASSUME NEW r \in Replies, NEW n \in Nat
    PROVE  /\ StatusRead(r, n) \in -1..599
           /\ HttpOk(StatusRead(r, n)) => StatusRead(r, n) = r.code
<1>1. r.code \in 100..599
  BY HttpPostAssumption
<1>2. r.code \div 100 \in 1..5 /\ r.code \div 10 \in 10..59
  BY <1>1, Z3
<1> QED
  BY <1>1, <1>2 DEF StatusRead, HttpOk

(* Every reply has a length, and none of them is NoReply.  The only key of *)
(* its body is that of the id, which the first quote behind it ends.       *)
LEMMA ReplyLengthType ==
    ASSUME NEW r \in Replies
    PROVE  ReplyLength(r) \in Nat /\ r # NoReply /\ Len(ReplyBody(r)) \in Nat
<1>1. /\ r.lead \in Seq(Letters \cup {"quote"}) /\ r.id \in Seq(Letters) /\ r.head \in Nat
      /\ r # NoReply
  BY HttpPostAssumption
<1> DEFINE All == Letters \cup {"quote", "key"}
           key == <<"key">>
           quote == <<"quote">>
<1>2. ReplyBody(r) \in Seq(All)
  <2>1. /\ r.lead \in Seq(All) /\ r.id \in Seq(All) /\ key \in Seq(All)
        /\ quote \in Seq(All) /\ <<>> \in Seq(All)
    BY <1>1
  <2>2. ReplyBody(r) = r.lead \o (IF r.named THEN (key \o r.id) \o quote ELSE <<>>)
    BY DEF ReplyBody
  <2> HIDE DEF All, key, quote
  <2>3. (key \o r.id) \o quote \in Seq(All)
    BY <2>1, ConcatProperties
  <2> QED
    BY <2>1, <2>2, <2>3, ConcatProperties
<1>3. Len(ReplyBody(r)) \in Nat
  BY <1>2, LenProperties
<1> QED
  BY <1>1, <1>3 DEF ReplyLength, BodyStart

LEMMA ReplyBodyIs ==
    ASSUME NEW r \in Replies
    PROVE  /\ \A i \in 1..Len(r.lead) : ReplyBody(r)[i] # "key"
           /\ ~r.named => Len(ReplyBody(r)) = Len(r.lead)
           /\ r.named =>
                 /\ Len(ReplyBody(r)) = Len(r.lead) + Len(r.id) + 2
                 /\ ReplyBody(r)[Len(r.lead) + 1] = "key"
                 /\ \A i \in 1..Len(r.id) : /\ ReplyBody(r)[Len(r.lead) + 1 + i] = r.id[i]
                                            /\ r.id[i] # "quote"
                 /\ ReplyBody(r)[Len(r.lead) + Len(r.id) + 2] = "quote"
<1> DEFINE key == <<"key">>
           quote == <<"quote">>
           named == (key \o r.id) \o quote
           All == Letters \cup {"quote", "key"}
<1>1. /\ r.lead \in Seq(Letters \cup {"quote"}) /\ r.id \in Seq(Letters)
      /\ "key" \notin Letters /\ "quote" \notin Letters
  BY HttpPostAssumption
<1>2. /\ r.lead \in Seq(All) /\ r.id \in Seq(All) /\ key \in Seq(All) /\ quote \in Seq(All)
      /\ <<>> \in Seq(All)
      /\ Len(key) = 1 /\ key[1] = "key" /\ Len(quote) = 1 /\ quote[1] = "quote"
  BY <1>1
<1>3. /\ key \o r.id \in Seq(All) /\ Len(key \o r.id) = 1 + Len(r.id)
      /\ (key \o r.id)[1] = "key"
      /\ \A i \in 1..Len(r.id) : (key \o r.id)[1 + i] = r.id[i]
  BY <1>2, ConcatProperties
<1>4. /\ named \in Seq(All) /\ Len(named) = 2 + Len(r.id)
      /\ named[1] = "key" /\ named[2 + Len(r.id)] = "quote"
      /\ \A i \in 1..Len(r.id) : named[1 + i] = r.id[i]
  <2> HIDE DEF key, quote
  <2>1. named \in Seq(All) /\ Len(named) = 2 + Len(r.id)
    BY <1>2, <1>3, ConcatProperties
  <2>2. \A i \in 1..Len(key \o r.id) : named[i] = (key \o r.id)[i]
    BY <1>2, <1>3, ConcatProperties
  <2>3. named[2 + Len(r.id)] = "quote"
    BY <1>2, <1>3, ConcatProperties
  <2>4. Len(r.id) \in Nat
    BY <1>2
  <2>5. named[1] = "key"
    BY <1>3, <2>2, <2>4
  <2>6. \A i \in 1..Len(r.id) : named[1 + i] = r.id[i]
    <3> TAKE i \in 1..Len(r.id)
    <3>1. 1 + i \in 1..Len(key \o r.id)
      BY <1>3, <2>4
    <3> QED
      BY <1>3, <2>2, <3>1
  <2> QED
    BY <2>1, <2>3, <2>5, <2>6
<1> HIDE DEF named, key, quote
<1>5. ASSUME NEW behind \in Seq(All), ReplyBody(r) = r.lead \o behind
      PROVE  /\ Len(ReplyBody(r)) = Len(r.lead) + Len(behind)
             /\ \A i \in 1..Len(r.lead) : ReplyBody(r)[i] = r.lead[i]
             /\ \A i \in 1..Len(behind) : ReplyBody(r)[Len(r.lead) + i] = behind[i]
  BY <1>2, <1>5, ConcatProperties
<1>6. \A i \in 1..Len(r.lead) : r.lead[i] # "key"
  BY <1>1
<1> DEFINE a == Len(r.lead)
           l == Len(r.id)
           b == ReplyBody(r)
<1>7. a \in Nat /\ l \in Nat
  BY <1>2
<1>8. CASE ~r.named
  <2>1. b = r.lead \o <<>> /\ Len(<<>>) = 0
    BY <1>8 DEF ReplyBody
  <2>2. /\ Len(b) = a + Len(<<>>)
        /\ \A i \in 1..a : b[i] = r.lead[i]
    BY <1>2, <1>5, <2>1
  <2>3. \A i \in 1..a : b[i] # "key"
    BY <1>6, <2>2
  <2>4. Len(b) = a
    <3> HIDE DEF a, b
    <3> QED
      BY <1>7, <2>1, <2>2
  <2> QED
    BY <1>8, <2>3, <2>4
<1>9. CASE r.named
  <2>1. b = r.lead \o named
    BY <1>9 DEF ReplyBody, named, key, quote
  <2>2. /\ Len(b) = a + (2 + l)
        /\ \A i \in 1..a : b[i] # "key"
        /\ \A i \in 1..(2 + l) : b[a + i] = named[i]
    BY <1>4, <1>5, <1>6, <2>1
  <2>3. \A i \in 1..l : r.id[i] # "quote"
    BY <1>1
  <2>4. /\ named[1] = "key" /\ named[2 + l] = "quote"
        /\ \A i \in 1..l : named[1 + i] = r.id[i]
    BY <1>4
  <2>5. /\ Len(b) = a + l + 2 /\ b[a + 1] = "key" /\ b[a + l + 2] = "quote"
        /\ \A i \in 1..l : b[a + 1 + i] = r.id[i]
    <3> HIDE DEF a, l, b
    <3>1. Len(b) = a + l + 2 /\ a + (2 + l) = a + l + 2
      BY <1>7, <2>2
    <3>2. b[a + 1] = "key" /\ b[a + (2 + l)] = "quote"
      BY <1>7, <2>2, <2>4
    <3>3. \A i \in 1..l : b[a + 1 + i] = r.id[i]
      <4> TAKE i \in 1..l
      <4>1. 1 + i \in 1..(2 + l) /\ a + (1 + i) = a + 1 + i
        BY <1>7
      <4> QED
        BY <2>2, <2>4, <4>1
    <3> QED
      BY <3>1, <3>2, <3>3
  <2> QED
    BY <1>9, <2>2, <2>3, <2>5
<1> QED
  BY <1>8, <1>9

-----------------------------------------------------------------------------
(* A call begins with the invariant.                                       *)
LEMMA InitIInv == Init => IInv
<1> SUFFICES ASSUME Init PROVE IInv
  OBVIOUS
<1>1. total \in 0..Min({emitted, ResponseMax})
  BY TypeUnfolded, HttpPostAssumption DEF Init
<1>2. TypeOK
  <2>1. left \in 0..Addresses /\ sent \in 0..Length /\ delivered \in 0..sent /\ status \in -1..599
    BY HttpPostAssumption DEF Init
  <2>2. emitted \in 0..(IF reply = NoReply THEN 0 ELSE ReplyLength(reply))
    BY DEF Init
  <2> QED
    BY <1>1, <2>1, <2>2 DEF Init, TypeOK
<1>3. Judged
  BY DEF Init, Judged
<1> QED
  BY <1>2, <1>3 DEF IInv

(* The variables keep their types.                                         *)
LEMMA TypePreserved == IInv /\ [Next]_vars => TypeOK'
<1> SUFFICES ASSUME IInv, [Next]_vars PROVE TypeOK'
  OBVIOUS
<1>0. /\ Addresses \in Nat /\ Length \in Nat /\ ResponseMax \in Nat
      /\ Schemes \subseteq {"http", "https"}
  BY HttpPostAssumption
<1> USE <1>0 DEF agent, backend
<1>a. TypeOK /\ Judged
  BY DEF IInv
<1>b. /\ emitted \in Nat /\ sent \in 0..Length /\ delivered \in 0..sent /\ left \in 0..Addresses
      /\ total \in Nat /\ total <= emitted /\ total <= ResponseMax
  <2>1. emitted \in Nat /\ sent \in 0..Length /\ delivered \in 0..sent /\ left \in 0..Addresses
    BY <1>a, ReplyLengthType DEF TypeOK
  <2> QED
    BY <1>a, <2>1, TypeUnfolded DEF TypeOK
<1>c. ASSUME emitted' \in Nat, total' \in Nat, total' <= emitted', total' <= ResponseMax
      PROVE  total' \in 0..Min({emitted', ResponseMax})
  BY <1>c, MinOfTwo
<1>1. CASE Build
  BY <1>1, <1>a DEF Build, TypeOK
<1>2. CASE ConnectFails
  BY <1>2, <1>a, <1>b DEF ConnectFails, TypeOK, Judged
<1>3. CASE Connected
  BY <1>3, <1>a DEF Connected, TypeOK
<1>4. CASE HandshakeBroken \/ SendTimesOut \/ SendOnReset
  BY <1>4, <1>a DEF HandshakeBroken, SendTimesOut, SendOnReset, Fails, Returns, TypeOK
<1>5. CASE SendSome
  <2>1. sent' \in 0..Length /\ delivered' \in 0..sent'
    BY <1>5, <1>b DEF SendSome
  <2> QED
    BY <1>5, <1>a, <2>1 DEF SendSome, TypeOK
<1>6. CASE SendOnGone
  BY <1>6, <1>a, SMTT(30) DEF SendOnGone, Fails, Returns, TypeOK
<1>7. CASE ReceiveSome
  <2>1. PICK n \in 1..(emitted - total) : total' = Min({total + n, ResponseMax})
    BY <1>7 DEF ReceiveSome
  <2>2. total' = IF total + n <= ResponseMax THEN total + n ELSE ResponseMax
    BY <1>b, <2>1, MinOfTwo
  <2>3. total' \in Nat /\ total' <= emitted /\ total' <= ResponseMax
    BY <1>b, <2>1, <2>2
  <2>4. total' \in 0..Min({emitted', ResponseMax})
    BY <1>7, <1>b, <1>c, <2>3 DEF ReceiveSome
  <2> QED
    BY <1>7, <1>a, <2>4 DEF ReceiveSome, TypeOK
<1>8. CASE Parse
  <2>1. status' \in -1..599
    <3>1. CASE total = 0
      BY <1>8, <3>1 DEF Parse, Returns
    <3>2. CASE total # 0
      <4>1. reply \in Replies
        BY <1>a, <1>b, <3>2 DEF TypeOK
      <4> QED
        BY <1>8, <1>b, <3>2, <4>1, StatusReadIs DEF Parse, Returns
    <3> QED
      BY <3>1, <3>2
  <2> QED
    BY <1>8, <1>a, <2>1 DEF Parse, Returns, TypeOK
<1>9. CASE HandshakeEnds
  BY <1>9, <1>a DEF HandshakeEnds, Fails, Returns, TypeOK
<1>10. CASE Arrives
  <2>1. delivered' \in 0..sent'
    BY <1>10, <1>b DEF Arrives
  <2> QED
    BY <1>10, <1>a, <2>1 DEF Arrives, TypeOK
<1>11. CASE Acts \/ Refuses
  <2>1. reply = NoReply /\ emitted = 0 /\ reply' \in Replies
    BY <1>11, <1>a DEF Acts, Refuses, TypeOK
  <2>2. emitted' = emitted /\ total' = total
    BY <1>11 DEF Acts, Refuses
  <2>3. emitted' \in 0..(IF reply' = NoReply THEN 0 ELSE ReplyLength(reply'))
    BY <2>1, <2>2, ReplyLengthType
  <2>4. total' \in 0..Min({emitted', ResponseMax})
    BY <1>a, <2>2 DEF TypeOK
  <2>5. acted' \in BOOLEAN
    BY <1>11, <1>a DEF Acts, Refuses, TypeOK
  <2>6. UNCHANGED <<scheme, pc, left, sent, delivered, status, peer>>
    BY <1>11 DEF Acts, Refuses
  <2> QED
    BY <1>a, <2>1, <2>3, <2>4, <2>5, <2>6 DEF TypeOK
<1>12. CASE Emits
  <2>1. reply \in Replies /\ emitted' = emitted + 1 /\ emitted' <= ReplyLength(reply)
    BY <1>12, <1>a, <1>b, ReplyLengthType DEF Emits, TypeOK
  <2>2. emitted' \in 0..(IF reply' = NoReply THEN 0 ELSE ReplyLength(reply'))
    BY <1>12, <1>b, <2>1, ReplyLengthType DEF Emits
  <2>3. total' \in 0..Min({emitted', ResponseMax})
    BY <1>12, <1>b, <1>c, <2>1 DEF Emits
  <2> QED
    BY <1>12, <1>a, <2>2, <2>3 DEF Emits, TypeOK
<1>13. CASE Ends
  BY <1>13, <1>a DEF Ends, TypeOK
<1>14. CASE UNCHANGED vars
  BY <1>14, <1>a DEF vars, TypeOK
<1> QED
  BY <1>1, <1>2, <1>3, <1>4, <1>5, <1>6, <1>7, <1>8, <1>9, <1>10, <1>11, <1>12, <1>13,
     <1>14
     DEF Next, Agent, Backend, Terminated

(* The judgement stays that of the reply.                                  *)
LEMMA JudgedPreserved == IInv /\ [Next]_vars => Judged'
<1> SUFFICES ASSUME IInv, [Next]_vars PROVE Judged'
  OBVIOUS
<1> USE DEF agent, backend
<1>a. TypeOK /\ Judged
  BY DEF IInv
<1>1. CASE Build
  BY <1>1, <1>a, HttpPostAssumption DEF Build, Judged
<1>2. CASE ConnectFails
  BY <1>2, <1>a, HttpPostAssumption DEF ConnectFails, Judged, TypeOK
<1>3. CASE Connected
  BY <1>3, <1>a DEF Connected, Judged
<1>4. CASE HandshakeBroken \/ SendTimesOut \/ SendOnReset
  BY <1>4, <1>a DEF HandshakeBroken, SendTimesOut, SendOnReset, Fails, Returns, Judged
<1>5. CASE SendSome
  BY <1>5, <1>a DEF SendSome, Judged
<1>6. CASE SendOnGone
  BY <1>6, <1>a DEF SendOnGone, Fails, Returns, Judged
<1>7. CASE ReceiveSome
  BY <1>7, <1>a DEF ReceiveSome, Judged
<1>8. CASE Parse
  <2>1. total # 0 => reply # NoReply
    <3>1. emitted \in Nat
      BY <1>a, ReplyLengthType DEF TypeOK
    <3> QED
      BY <1>a, <3>1, TypeUnfolded DEF TypeOK
  <2> QED
    BY <1>8, <1>a, <2>1 DEF Parse, Returns, Judged
<1>9. CASE HandshakeEnds
  BY <1>9, <1>a DEF HandshakeEnds, Fails, Returns, Judged
<1>10. CASE Arrives \/ Emits \/ Ends
  BY <1>10, <1>a DEF Arrives, Emits, Ends, Judged
<1>11. CASE Acts
  BY <1>11, <1>a, ReplyLengthType DEF Acts, Judged
<1>12. CASE Refuses
  BY <1>12, <1>a, ReplyLengthType DEF Refuses, Judged
<1>14. CASE UNCHANGED vars
  BY <1>14, <1>a DEF vars, Judged
<1> QED
  BY <1>1, <1>2, <1>3, <1>4, <1>5, <1>6, <1>7, <1>8, <1>9, <1>10, <1>11, <1>12, <1>14
     DEF Next, Agent, Backend, Terminated

-----------------------------------------------------------------------------
(* The invariant holds throughout the call, whatever the backend and the   *)
(* network do.                                                             *)
THEOREM Invariance == Spec => []IInv
<1>1. IInv /\ [Next]_vars => IInv'
  BY TypePreserved, JudgedPreserved DEF IInv
<1> QED
  BY InitIInv, <1>1, PTL DEF Spec

(* Never more is read than was sent to the agent, nor than fits its buffer.*)
THEOREM TypeCorrect == Spec => []TypeOK
BY Invariance, PTL DEF IInv

(* A status code of a success is that of a reply of a backend that acted   *)
(* on the request.                                                         *)
LEMMA SuccessIsTrue == IInv /\ HttpOk(status) => status = reply.code /\ acted
<1> SUFFICES ASSUME IInv, HttpOk(status) PROVE status = reply.code /\ acted
  OBVIOUS
<1>1. status # -1 /\ total \in Nat
  <2>1. emitted \in Nat
    BY ReplyLengthType DEF IInv, TypeOK
  <2> QED
    BY <2>1, TypeUnfolded DEF HttpOk, IInv, TypeOK
<1>2. reply \in Replies /\ status = StatusRead(reply, total)
  BY <1>1 DEF IInv, TypeOK, Judged
<1>3. status = reply.code
  BY <1>1, <1>2, StatusReadIs
<1> QED
  BY <1>2, <1>3, ReplyLengthType DEF IInv, Judged

(* Looking for a unit finds its first place, if that was not cut off.      *)
LEMMA FirstFound ==
    ASSUME NEW unit, NEW b, NEW from \in Int, NEW to \in Int, NEW i \in Int,
           from <= i, b[i] = unit, \A h \in from..(i - 1) : b[h] # unit
    PROVE  FirstOf(unit, b, from, to) = IF i <= to THEN {i} ELSE {}
<1>1. ASSUME NEW j \in FirstOf(unit, b, from, to)
      PROVE  j = i /\ i <= to
  <2>1. /\ j \in Int /\ from <= j /\ j <= to /\ b[j] = unit
        /\ \A h \in from..(j - 1) : b[h] # unit
    BY <1>1 DEF FirstOf
  <2>2. ~(j < i)
    <3>1. j < i => j \in from..(i - 1)
      BY <2>1
    <3> QED
      BY <2>1, <3>1
  <2>3. ~(i < j)
    <3>1. i < j => i \in from..(j - 1)
      BY <2>1
    <3> QED
      BY <2>1, <3>1
  <2> QED
    BY <2>1, <2>2, <2>3
<1>2. i <= to => i \in FirstOf(unit, b, from, to)
  BY DEF FirstOf
<1> QED
  BY <1>1, <1>2

(* The body has arrived as a whole if the reply has and the buffer holds it*)
LEMMA ArrivedIs ==
    ASSUME NEW r \in Replies, NEW n \in Nat, n <= ReplyLength(r)
    PROVE  /\ Arrived(r, n) \in Int /\ Arrived(r, n) <= Len(ReplyBody(r))
           /\ Arrived(r, n) = Len(ReplyBody(r)) <=> n = ReplyLength(r) /\ Len(ReplyBody(r)) <= RespMax
<1> DEFINE x == n - BodyStart(r)
           z == Len(ReplyBody(r))
           least == IF x <= RespMax /\ x <= z THEN x ELSE IF RespMax <= z THEN RespMax ELSE z
<1>1. z \in Nat /\ RespMax \in Nat /\ BodyStart(r) \in Nat
  <2>1. r.head \in Nat
    BY HttpPostAssumption
  <2> QED
    BY <2>1, ReplyLengthType, HttpPostAssumption DEF BodyStart
<1>2. x \in Int
  BY <1>1
<1>3. ReplyLength(r) = BodyStart(r) + z
  BY DEF ReplyLength
<1>4. (x = z) <=> n = ReplyLength(r)
  BY <1>1, <1>3
<1>5. x <= z
  BY <1>1, <1>3
<1>6. Arrived(r, n) = Min({x, RespMax, z})
  BY DEF Arrived
<1> HIDE DEF x, z
<1>7. least \in {x, RespMax, z} /\ \A y \in {x, RespMax, z} : least <= y
  BY <1>1, <1>2
<1>8. \A y \in {x, RespMax, z} :
         (\A y2 \in {x, RespMax, z} : y <= y2) => y = least
  BY <1>1, <1>2
<1>9. Min({x, RespMax, z}) = least
  <2> HIDE DEF least
  <2> QED
    BY <1>7, <1>8 DEF Min
<1>10. least \in Int /\ least <= z /\ (least = z <=> x = z /\ z <= RespMax)
  BY <1>1, <1>2, <1>5
<1> HIDE DEF least
<1>11. /\ Arrived(r, n) \in Int /\ Arrived(r, n) <= z
       /\ Arrived(r, n) = z <=> n = ReplyLength(r) /\ z <= RespMax
  BY <1>4, <1>6, <1>9, <1>10
<1> QED
  BY <1>11 DEF z

(* The id that is found is that of the reply, and it is found whenever it  *)
(* has arrived as a whole.                                                 *)
LEMMA IdReadIs ==
    ASSUME NEW r \in Replies, NEW n \in Nat, n <= ReplyLength(r)
    PROVE  IdRead(r, n) =
             IF r.named /\ n = ReplyLength(r) /\ Len(ReplyBody(r)) <= RespMax
             THEN {SubSeq(r.id, 1, Min({Len(r.id), IdMax}))} ELSE {}
<1> DEFINE b == ReplyBody(r)
           m == Arrived(r, n)
           a == Len(r.lead)
           l == Len(r.id)
           kept == IF l <= IdMax THEN l ELSE IdMax
           found(k) == {SubSeq(b, k + 1, Min({j - 1, k + IdMax})) :
                           j \in FirstOf("quote", b, k + 1, m)}
<1>1. a \in Nat /\ l \in Nat /\ IdMax \in Nat
  <2>1. r.lead \in Seq(Letters \cup {"quote"}) /\ r.id \in Seq(Letters)
    BY HttpPostAssumption
  <2> QED
    BY <2>1, HttpPostAssumption
<1>2. m \in Int /\ m <= Len(b) /\ Len(b) \in Nat
  BY ReplyLengthType, ArrivedIs
<1>3. m = Len(b) <=> n = ReplyLength(r) /\ Len(b) <= RespMax
  BY ArrivedIs
<1>4. \A i \in 1..a : b[i] # "key"
  BY ReplyBodyIs
<1>5. IdRead(r, n) = UNION {found(k) : k \in FirstOf("key", b, 1, m)}
  BY DEF IdRead, ClosingQuote
<1>6. CASE ~r.named
  <2>1. Len(b) = a
    BY <1>6, ReplyBodyIs
  <2>2. FirstOf("key", b, 1, m) = {}
    <3> HIDE DEF b, m, a
    <3> QED
      BY <1>1, <1>2, <1>4, <2>1 DEF FirstOf
  <2>3. IdRead(r, n) = {}
    <3> HIDE DEF found
    <3> QED
      BY <1>5, <2>2
  <2> QED
    BY <1>6, <2>3
<1>7. CASE r.named
  <2>1. /\ Len(b) = a + l + 2 /\ b[a + 1] = "key" /\ b[a + l + 2] = "quote"
        /\ \A i \in 1..l : b[a + 1 + i] = r.id[i] /\ r.id[i] # "quote"
    BY <1>7, ReplyBodyIs
  <2>2. Min({l, IdMax}) = kept
    <3> HIDE DEF l
    <3> QED
      BY <1>1, MinOfTwo
  <2>3. CASE m = Len(b)
    <3>1. FirstOf("key", b, 1, m) = {a + 1}
      <4> HIDE DEF b, m, a, l
      <4>1. \A h \in 1..((a + 1) - 1) : b[h] # "key"
        BY <1>1, <1>4
      <4>2. a + 1 \in Int /\ 1 \in Int /\ 1 <= a + 1 /\ a + 1 <= m
        BY <1>1, <2>1, <2>3
      <4>3. b[a + 1] = "key"
        BY <2>1
      <4>4. FirstOf("key", b, 1, m) = IF a + 1 <= m THEN {a + 1} ELSE {}
        BY <1>2, <4>1, <4>2, <4>3, FirstFound
      <4> QED
        BY <4>2, <4>4
    <3>2. FirstOf("quote", b, (a + 1) + 1, m) = {a + l + 2}
      <4> HIDE DEF b, m, a, l
      <4>1. \A h \in ((a + 1) + 1)..((a + l + 2) - 1) : b[h] # "quote"
        <5> TAKE h \in ((a + 1) + 1)..((a + l + 2) - 1)
        <5>1. h - (a + 1) \in 1..l /\ a + 1 + (h - (a + 1)) = h
          BY <1>1
        <5> QED
          BY <2>1, <5>1
      <4>2. /\ a + l + 2 \in Int /\ (a + 1) + 1 \in Int /\ (a + 1) + 1 <= a + l + 2
            /\ a + l + 2 <= m
        BY <1>1, <2>1, <2>3
      <4> QED
        BY <1>2, <2>1, <4>1, <4>2, FirstFound
    <3>3. Min({(a + l + 2) - 1, (a + 1) + IdMax}) = (a + 1) + kept
      <4> HIDE DEF a, l
      <4>1. (a + l + 2) - 1 \in Int /\ (a + 1) + IdMax \in Int
        BY <1>1
      <4> QED
        BY <1>1, <4>1, MinOfTwo
    <3>4. IdRead(r, n) = found(a + 1)
      <4> HIDE DEF found, a, b, m
      <4> QED
        BY <1>5, <3>1
    <3>5. found(a + 1) = {SubSeq(b, (a + 1) + 1, (a + 1) + kept)}
      <4> HIDE DEF a, b, m, l, kept
      <4> QED
        BY <3>2, <3>3
    <3>6. SubSeq(b, (a + 1) + 1, (a + 1) + kept) = SubSeq(r.id, 1, kept)
      <4>1. kept \in Nat /\ kept <= l
        <5> HIDE DEF l
        <5> QED
          BY <1>1
      <4> HIDE DEF a, b, l, kept
      <4>2. SubSeq(b, (a + 1) + 1, (a + 1) + kept)
              = [i \in 1..kept |-> b[(a + 1) + i]]
        BY <1>1, <4>1
      <4>3. SubSeq(r.id, 1, kept) = [i \in 1..kept |-> r.id[i]]
        BY <4>1
      <4>4. \A i \in 1..kept : b[(a + 1) + i] = r.id[i]
        BY <1>1, <2>1, <4>1
      <4> QED
        BY <4>2, <4>3, <4>4
    <3>7. IdRead(r, n) = {SubSeq(r.id, 1, Min({l, IdMax}))}
      <4> HIDE DEF found, a, b, l, kept
      <4> QED
        BY <2>2, <3>4, <3>5, <3>6
    <3>8. n = ReplyLength(r) /\ Len(ReplyBody(r)) <= RespMax
      BY <1>3, <2>3
    <3> QED
      BY <1>7, <3>7, <3>8
  <2>4. CASE m # Len(b)
    <3>1. FirstOf("quote", b, (a + 1) + 1, m) = {}
      <4> HIDE DEF b, m, a, l
      <4>1. ~(a + l + 2 <= m)
        BY <1>1, <1>2, <2>1, <2>4
      <4>2. \A i \in ((a + 1) + 1)..m : b[i] # "quote"
        <5> TAKE i \in ((a + 1) + 1)..m
        <5>1. i - (a + 1) \in 1..l /\ a + 1 + (i - (a + 1)) = i
          BY <1>1, <1>2, <4>1
        <5> QED
          BY <2>1, <5>1
      <4> QED
        BY <4>2 DEF FirstOf
    <3>2. \A k \in FirstOf("key", b, 1, m) : k = a + 1
      <4> HIDE DEF b, m, a, l
      <4>1. ASSUME NEW k \in FirstOf("key", b, 1, m), k # a + 1
            PROVE  FALSE
        <5>1. /\ k \in 1..m /\ b[k] = "key" /\ \A h \in 1..(k - 1) : b[h] # "key"
          BY <4>1 DEF FirstOf
        <5>2. ~(k \in 1..a)
          BY <1>4, <5>1
        <5>3. a + 1 \in 1..(k - 1)
          BY <1>1, <1>2, <4>1, <5>1, <5>2
        <5> QED
          BY <2>1, <5>1, <5>3
      <4> QED
        BY <4>1
    <3>3. found(a + 1) = {}
      <4> HIDE DEF a, b, m
      <4> QED
        BY <3>1
    <3>4. IdRead(r, n) = {}
      <4> HIDE DEF found, a, b, m
      <4> QED
        BY <1>5, <3>2, <3>3
    <3> QED
      BY <1>3, <2>4, <3>4
  <2> QED
    BY <2>3, <2>4
<1> QED
  BY <1>6, <1>7

(* A registration takes the id of the reply, cut only if it is longer than *)
(* the agent can keep, or none, and none only if a part is missing.        *)
THEOREM IdsWhole == Spec => []RegistersWhole
<1>1. IInv => RegistersWhole
  <2> SUFFICES ASSUME IInv, HttpOk(status)
               PROVE  IdRead(reply, total) =
                        IF reply.named /\ total = ReplyLength(reply) /\ Len(ReplyBody(reply)) <= RespMax
                        THEN {SubSeq(reply.id, 1, Min({Len(reply.id), IdMax}))} ELSE {}
    BY DEF RegistersWhole
  <2>1. status # -1
    BY DEF HttpOk
  <2>2. reply \in Replies
    BY <2>1 DEF IInv, TypeOK, Judged
  <2>3. emitted \in Nat /\ emitted <= ReplyLength(reply)
    BY <2>2, ReplyLengthType DEF IInv, TypeOK
  <2>4. total \in Nat /\ total <= ReplyLength(reply)
    BY <2>2, <2>3, ReplyLengthType, TypeUnfolded DEF IInv, TypeOK
  <2> QED
    BY <2>2, <2>4, IdReadIs
<1> QED
  BY <1>1, Invariance, PTL

-----------------------------------------------------------------------------
(* How the call looks to its caller.                                       *)
Outcome == CASE pc = "returned" -> IF HttpOk(status) THEN "ok" ELSE "failed"
             [] pc = "killed" -> "dead"
             [] OTHER -> "pending"

(* The call implements PostExchange.                                       *)
THEOREM Refinement == Spec => ExchangeSpec
<1> USE DEF Exchange!Init, Exchange!Next, Exchange!vars, Exchange!Accept,
            Exchange!Succeed, Exchange!Fail
<1>1. Init => Exchange!Init
  BY DEF Init
<1>2. IInv /\ IInv' /\ [Next]_vars => [Exchange!Next]_(Exchange!vars)
  <2> SUFFICES ASSUME IInv, IInv', [Next]_vars
               PROVE  [Exchange!Next]_(Exchange!vars)
    OBVIOUS
  <2> USE DEF agent, backend
  <2>a. pc # "returned" => status = -1
    BY DEF IInv, Judged
  <2>b. ~HttpOk(-1)
    BY DEF HttpOk
  <2>1. CASE Build \/ ConnectFails
    BY <2>1, <2>a, <2>b DEF Build, ConnectFails
  <2>2. CASE Connected \/ SendSome \/ ReceiveSome
    BY <2>2 DEF Connected, SendSome, ReceiveSome
  <2>3. CASE HandshakeBroken \/ SendTimesOut \/ SendOnReset \/ HandshakeEnds
    BY <2>3, <2>b DEF HandshakeBroken, SendTimesOut, SendOnReset, HandshakeEnds, Fails,
       Returns
  <2>4. CASE SendOnGone
    BY <2>4, <2>b DEF SendOnGone, Fails, Returns
  <2>5. CASE Parse
    <3>1. (IInv /\ HttpOk(status) => status = reply.code /\ acted)'
      BY SuccessIsTrue, PTL
    <3>2. HttpOk(status') => acted'
      BY <3>1 DEF HttpOk
    <3> QED
      BY <2>5, <3>2 DEF Parse, Returns
  <2>6. CASE Acts
    BY <2>6 DEF Acts, IInv, Judged
  <2>7. CASE Arrives \/ Refuses \/ Emits \/ Ends
    BY <2>7 DEF Arrives, Refuses, Emits, Ends
  <2>8. CASE UNCHANGED vars
    BY <2>8 DEF vars
  <2> QED
    BY <2>1, <2>2, <2>3, <2>4, <2>5, <2>6, <2>7, <2>8 DEF Next, Agent, Backend, Terminated
<1> QED
  BY <1>1, <1>2, Invariance, PTL DEF Spec, ExchangeSpec, Exchange!Spec

(*****************************************************************************)
(* PacketParser                                                              *)
(*****************************************************************************)

(* The larger of two numbers.                                              *)
LEMMA MaxOfTwo ==
    ASSUME NEW a \in Int, NEW b \in Int
    PROVE  Parser!Max({a, b}) = IF a >= b THEN a ELSE b
<1> DEFINE m == IF a >= b THEN a ELSE b
<1>1. m \in {a, b} /\ \A y \in {a, b} : m >= y
  OBVIOUS
<1>2. \A x \in {a, b} : (\A y \in {a, b} : x >= y) => x = m
  OBVIOUS
<1> QED
  BY <1>1, <1>2 DEF Parser!Max

(* The fields of a frame.                                                  *)
FrameIs ==
    /\ NameSize \in Nat \ {0} /\ frame \in Frames
    /\ frame.length \in Nat /\ frame.ihl \in 0..15 /\ frame.qdcount \in Nat
    /\ frame.response \in BOOLEAN /\ frame.bytes \in Seq(0..255)
    /\ Len(frame.bytes) = IF frame.length <= Parser!NameOffset THEN 0 ELSE frame.length - Parser!NameOffset

LEMMA FrameHolds == Parser!PacketParserAssumption /\ frame \in Frames => FrameIs
<1> SUFFICES ASSUME Parser!PacketParserAssumption, frame \in Frames PROVE FrameIs
  OBVIOUS
<1>1. /\ NameSize \in Nat \ {0}
      /\ frame.length \in Nat /\ frame.ihl \in 0..15 /\ frame.qdcount \in Nat
      /\ frame.response \in BOOLEAN /\ frame.bytes \in Seq(0..255)
      /\ Len(frame.bytes) = Parser!Max({0, frame.length - (34 + 4 * frame.ihl)})
  BY DEF Parser!PacketParserAssumption
<1>2. /\ Parser!NameOffset = 34 + 4 * frame.ihl /\ Parser!NameOffset \in Nat
      /\ frame.length - (34 + 4 * frame.ihl) \in Int
  <2>1. \A n \in 0..15, l \in Nat :
           /\ ((14 + 4 * n) + 8) + 12 = 34 + 4 * n
           /\ 34 + 4 * n \in Nat /\ l - (34 + 4 * n) \in Int
    OBVIOUS
  <2> QED
    BY <1>1, <2>1, Zenon DEF Parser!NameOffset, Parser!DnsOffset, Parser!TransportOffset
<1>3. Parser!Max({0, frame.length - (34 + 4 * frame.ihl)})
         = IF 0 >= frame.length - (34 + 4 * frame.ihl) THEN 0 ELSE frame.length - (34 + 4 * frame.ihl)
  BY <1>2, MaxOfTwo
<1> QED
  BY <1>1, <1>2, <1>3 DEF FrameIs

-----------------------------------------------------------------------------
(* The walk.  A position counts from the first length byte; the walk is at *)
(* place.                                                                  *)
Bytes == frame.bytes
Place == pos - Parser!NameOffset + 1

(* The labels passed: a naming but for its end.                            *)
PassedTo(b, p, starts) ==
    /\ starts \subseteq 1..(p - 1)
    /\ \A s \in starts : b[s] \in 1..63 /\ Parser!After(b, s) \in starts \cup {p}
    /\ starts \cup {p} = {1} \cup {Parser!After(b, s) : s \in starts}

(* A naming of the bytes has a label at this place, or ends here, and no   *)
(* label of it reaches beyond; the characters copied are its own.          *)
Agrees(b, p, chars, starts, end) ==
    /\ p \in starts \cup {end}
    /\ \A s \in starts : s < p => Parser!After(b, s) <= p
    /\ \A i \in 1..Len(chars) :
          chars[i] = IF i + 1 \in starts \cup {end} THEN Dot ELSE b[i + 1]

Passed(starts) == PassedTo(Bytes, Place, starts)
Naming(starts, end) ==
    end \in 1..Len(Bytes) /\ starts \in SUBSET (1..(end - 1)) /\ Parser!IsName(Bytes, starts, end)
AgreesWith(starts, end) == Agrees(Bytes, Place, name, starts, end)

WalkInv ==
    at = "label" =>
        /\ Parser!IsPacket /\ Parser!IsQuestion
        /\ pos \in Parser!NameOffset..frame.length
        /\ Len(name) = Place - 1
        /\ \E starts \in SUBSET (1..(Place - 1)) : Passed(starts)
        /\ \A starts, end : Naming(starts, end) => AgreesWith(starts, end)

(* What the checks before the walk have found.                             *)
HeadersInv ==
    /\ at \in {"ip", "transport", "dns"} => frame.type = "ip"
    /\ at \in {"transport", "dns"} =>
          frame.length >= 34 /\ frame.version = 4 /\ frame.ihl >= 5
    /\ at = "dns" => Parser!IsPacket /\ frame.protocol = "udp" /\ frame.dport = 53

(* What a result says.                                                     *)
ResultInv ==
    /\ at = "ignored" => ~Parser!IsPacket
    /\ at \in {"packet", "query"} => Parser!IsPacket
    /\ at = "query" =>
          /\ Parser!IsQuestion
          /\ \E starts, end : Naming(starts, end)
          /\ \A starts, end : Naming(starts, end) => name = Parser!Dotted(Bytes, starts, end)
    /\ at = "packet" => ~(Parser!IsQuestion /\ \E starts, end : Naming(starts, end))
    /\ at \in {"ethernet", "ip", "transport", "dns", "ignored", "packet"} => name = <<>>

ParserInv == FrameIs /\ Parser!TypeOK /\ WalkInv /\ HeadersInv /\ ResultInv

(* That is what ParsesExactly says.                                        *)
LEMMA ParserInvImplies == ParserInv => Parser!ParsesExactly
<1> SUFFICES ASSUME ParserInv PROVE Parser!ParsesExactly
  OBVIOUS
<1>1. reach <= frame.length /\ Len(name) < NameSize
  BY DEF ParserInv, FrameIs, Parser!TypeOK
<1>2. ASSUME at \in Parser!Results
      PROVE  LET named(starts, end) == Parser!IsName(frame.bytes, starts, end)
                 ends == 1..Len(frame.bytes)
                 query == /\ Parser!IsPacket /\ Parser!IsQuestion
                          /\ \E end \in ends : \E starts \in SUBSET (1..(end - 1)) : named(starts, end)
             IN  /\ at # "ignored" <=> Parser!IsPacket
                 /\ at = "query" <=> query
                 /\ at = "query" =>
                      \A end \in ends : \A starts \in SUBSET (1..(end - 1)) :
                          named(starts, end) => name = Parser!Dotted(frame.bytes, starts, end)
                 /\ at # "query" => name = <<>>
  <2>1. at = "ignored" \/ at = "packet" \/ at = "query"
    BY <1>2 DEF Parser!Results
  <2>2. (\E starts, end : Naming(starts, end))
           <=> \E end \in 1..Len(Bytes) : \E starts \in SUBSET (1..(end - 1)) :
                  Parser!IsName(Bytes, starts, end)
    BY Zenon DEF Naming
  <2>3. (\A starts, end : Naming(starts, end) => name = Parser!Dotted(Bytes, starts, end))
           <=> \A end \in 1..Len(Bytes) : \A starts \in SUBSET (1..(end - 1)) :
                  Parser!IsName(Bytes, starts, end) => name = Parser!Dotted(Bytes,
                  starts, end)
    BY Zenon DEF Naming
  <2> HIDE DEF Naming
  <2> QED
    BY <2>1, <2>2, <2>3, Zenon DEF ParserInv, ResultInv, Bytes
<1> QED
  BY <1>1, <1>2 DEF Parser!ParsesExactly

-----------------------------------------------------------------------------
(* Where the headers end.                                                  *)
LEMMA Offsets ==
    ASSUME FrameIs
    PROVE  /\ Parser!TransportOffset \in Nat /\ Parser!DnsOffset = Parser!TransportOffset + 8
           /\ Parser!DnsOffset \in Nat /\ Parser!NameOffset \in Nat /\ Parser!NameOffset = Parser!TransportOffset + 20
           /\ frame.ihl >= 5 <=> 4 * frame.ihl >= 20
<1>1. frame.ihl \in 0..15
  BY DEF FrameIs
<1>2. \A n \in 0..15 : 14 + 4 * n \in Nat /\ (n >= 5 <=> 4 * n >= 20)
  OBVIOUS
<1>3. Parser!TransportOffset \in Nat /\ (frame.ihl >= 5 <=> 4 * frame.ihl >= 20)
  BY <1>1, <1>2 DEF Parser!TransportOffset
<1> HIDE DEF Parser!TransportOffset
<1> QED
  BY <1>3 DEF Parser!DnsOffset, Parser!NameOffset

(* The examination of a header keeps the reading within the frame.         *)
LEMMA ExamineReads ==
    ASSUME FrameIs, Parser!TypeOK, NEW need \in Nat, NEW upto \in Nat, upto <= need,
           reach' = IF frame.length >= need THEN Parser!Max({reach, upto}) ELSE reach
    PROVE  reach' \in 0..frame.length
<1>1. frame.length \in Nat /\ reach \in 0..frame.length
  BY DEF FrameIs, Parser!TypeOK
<1>2. Parser!Max({reach, upto}) = IF reach >= upto THEN reach ELSE upto
  BY <1>1, MaxOfTwo
<1> QED
  BY <1>1, <1>2

(* A frame that stays keeps what is said of it.                            *)
LEMMA SameFrame ==
    ASSUME frame' = frame
    PROVE  /\ FrameIs' <=> FrameIs
           /\ Parser!IsPacket' <=> Parser!IsPacket
           /\ Parser!IsQuestion' <=> Parser!IsQuestion
           /\ Parser!NameOffset' = Parser!NameOffset /\ Parser!TransportOffset' = Parser!TransportOffset
           /\ Parser!DnsOffset' = Parser!DnsOffset
           /\ Bytes' = Bytes
           /\ \A starts, end : Naming(starts, end)' <=> Naming(starts, end)
BY DEF FrameIs, Parser!IsPacket, Parser!IsQuestion, Parser!NameOffset, Parser!DnsOffset,
   Parser!TransportOffset, Bytes,
       Naming, Parser!IsName, Parser!After

LEMMA EthernetStep == ParserInv /\ Parser!Ethernet => ParserInv'
<1> SUFFICES ASSUME ParserInv, Parser!Ethernet PROVE ParserInv'
  OBVIOUS
<1>1. /\ reach' \in 0..frame.length /\ frame' = frame /\ name' = name
      /\ at = "ethernet" /\ pos' = pos
      /\ at' = IF frame.length >= 14 /\ frame.type = "ip" THEN "ip" ELSE "ignored"
  BY ExamineReads DEF ParserInv, Parser!Ethernet, Parser!Examine
<1>2. frame.length \in Nat
  BY DEF ParserInv, FrameIs
<1>3. at' = "ignored" => ~Parser!IsPacket
  BY <1>1, <1>2 DEF Parser!IsPacket
<1>4. FrameIs' /\ Parser!TypeOK'
  BY <1>1, SameFrame DEF ParserInv, Parser!TypeOK, Parser!Results
<1> QED
  BY <1>1, <1>3, <1>4, SameFrame DEF ParserInv, WalkInv, HeadersInv, ResultInv

LEMMA IpStep == ParserInv /\ Parser!Ip => ParserInv'
<1> SUFFICES ASSUME ParserInv, Parser!Ip PROVE ParserInv'
  OBVIOUS
<1>1. /\ reach' \in 0..frame.length /\ frame' = frame /\ name' = name
      /\ at = "ip" /\ pos' = pos
      /\ at' = IF frame.length >= 34 /\ (frame.version = 4 /\ 4 * frame.ihl >= 20)
               THEN "transport" ELSE "ignored"
  <2>1. reach' = IF frame.length >= 34 THEN Parser!Max({reach, 34}) ELSE reach
    BY DEF Parser!Ip, Parser!Examine
  <2>2. reach' \in 0..frame.length
    BY <2>1, ExamineReads DEF ParserInv
  <2> QED
    BY <2>2 DEF Parser!Ip, Parser!Examine
<1>2. frame.length \in Nat /\ (frame.ihl >= 5 <=> 4 * frame.ihl >= 20)
  BY Offsets DEF ParserInv, FrameIs
<1>3. at' = "ignored" => ~Parser!IsPacket
  BY <1>1, <1>2 DEF Parser!IsPacket
<1>4. FrameIs' /\ Parser!TypeOK'
  BY <1>1, SameFrame DEF ParserInv, Parser!TypeOK, Parser!Results
<1> QED
  BY <1>1, <1>2, <1>3, <1>4, SameFrame DEF ParserInv, WalkInv, HeadersInv, ResultInv

LEMMA TransportStep == ParserInv /\ Parser!Transport => ParserInv'
<1> SUFFICES ASSUME ParserInv, Parser!Transport PROVE ParserInv'
  OBVIOUS
<1> DEFINE next == IF frame.protocol = "udp" /\ frame.dport = 53 THEN "dns" ELSE "packet"
<1>1. /\ reach' \in 0..frame.length /\ frame' = frame /\ name' = name
      /\ at = "transport" /\ pos' = pos
      /\ at' = IF frame.length >= Parser!TransportOffset + 4 /\ frame.protocol \in {"tcp", "udp"}
               THEN next ELSE "ignored"
  <2>1. Parser!TransportOffset + 4 \in Nat
    BY Offsets DEF ParserInv
  <2>2. reach' = IF frame.length >= Parser!TransportOffset + 4
                 THEN Parser!Max({reach, Parser!TransportOffset + 4}) ELSE reach
    BY DEF Parser!Transport, Parser!Examine
  <2>3. reach' \in 0..frame.length
    BY <2>1, <2>2, ExamineReads DEF ParserInv
  <2> QED
    BY <2>3 DEF Parser!Transport, Parser!Examine
<1>2. /\ at' = "ignored" => ~Parser!IsPacket
      /\ at' # "ignored" => Parser!IsPacket
      /\ at' = "packet" => ~Parser!IsQuestion
      /\ at' = "dns" => frame.protocol = "udp" /\ frame.dport = 53
      /\ at' \in {"dns", "packet", "ignored"}
      /\ name = <<>>
  BY <1>1 DEF Parser!IsPacket, Parser!IsQuestion, ParserInv, HeadersInv, ResultInv
<1>4. FrameIs' /\ Parser!TypeOK'
  BY <1>1, SameFrame DEF ParserInv, Parser!TypeOK, Parser!Results
<1>5. frame.type = "ip" /\ frame.length >= 34 /\ frame.version = 4 /\ frame.ihl >= 5
  BY <1>1 DEF ParserInv, HeadersInv
<1> HIDE DEF next
<1> QED
  BY <1>1, <1>2, <1>4, <1>5, SameFrame DEF ParserInv, WalkInv, HeadersInv, ResultInv

(* The walk begins: no label has been passed, and a naming begins here.    *)
LEMMA WalkBegins ==
    ASSUME FrameIs, Place = 1, name = <<>>
    PROVE  /\ Len(name) = Place - 1
           /\ \E starts \in SUBSET (1..(Place - 1)) : Passed(starts)
           /\ \A starts, end : Naming(starts, end) => AgreesWith(starts, end)
<1> HIDE DEF Place
<1>1. Passed({})
  BY DEF Passed, PassedTo
<1>2. ASSUME NEW starts, NEW end, Naming(starts, end) PROVE AgreesWith(starts, end)
  <2>1. 1 \in starts /\ starts \subseteq Nat \ {0}
    <3>1. Len(Bytes) \in Nat
      BY DEF FrameIs, Bytes
    <3> QED
      BY <1>2, <3>1 DEF Naming, Parser!IsName
  <2> QED
    BY <2>1 DEF AgreesWith, Agrees
<1> QED
  BY <1>1, <1>2

LEMMA DnsHeaderStep == ParserInv /\ Parser!DnsHeader => ParserInv'
<1> SUFFICES ASSUME ParserInv, Parser!DnsHeader PROVE ParserInv'
  OBVIOUS
<1>1. /\ reach' \in 0..frame.length /\ frame' = frame /\ name' = name
      /\ at = "dns" /\ pos' = (IF at' = "label" THEN Parser!NameOffset ELSE pos)
      /\ at' = IF frame.length >= Parser!NameOffset /\ (frame.qdcount >= 1 /\ ~frame.response)
               THEN "label" ELSE "packet"
  <2>1. Parser!NameOffset \in Nat /\ Parser!DnsOffset + 6 \in Nat /\ Parser!DnsOffset + 6 <= Parser!NameOffset
    BY Offsets DEF ParserInv
  <2> QED
    BY <2>1, ExamineReads DEF ParserInv, Parser!DnsHeader, Parser!DnsHeaderEnd,
       Parser!Examine
<1>2. /\ frame.length \in Nat /\ frame.qdcount \in Nat /\ pos \in 0..frame.length
      /\ name = <<>> /\ Parser!IsPacket /\ frame.protocol = "udp" /\ frame.dport = 53
      /\ Parser!NameOffset \in Nat
  BY <1>1, Offsets DEF ParserInv, FrameIs, Parser!TypeOK, HeadersInv, ResultInv
<1>3. at' = "packet" => ~Parser!IsQuestion
  BY <1>1, <1>2 DEF Parser!IsQuestion
<1>4. at' = "label" => Parser!IsQuestion
  BY <1>1, <1>2 DEF Parser!IsQuestion
<1>5. FrameIs' /\ Parser!TypeOK'
  BY <1>1, <1>2, SameFrame DEF ParserInv, Parser!TypeOK, Parser!Results
<1>6. WalkInv'
  <2>1. CASE at' = "label"
    <3>1. Place' = 1 /\ name' = <<>> /\ pos' \in Parser!NameOffset..frame.length
      BY <1>1, <1>2, <2>1, SameFrame DEF Place
    <3>2. (FrameIs /\ Place = 1 /\ name = <<>> =>
             /\ Len(name) = Place - 1
             /\ \E starts \in SUBSET (1..(Place - 1)) : Passed(starts)
             /\ \A starts, end : Naming(starts, end) => AgreesWith(starts, end))'
      BY WalkBegins, PTL
    <3> QED
      BY <1>1, <1>2, <1>4, <1>5, <3>1, <3>2, SameFrame DEF WalkInv
  <2> QED
    BY <1>1, <2>1 DEF WalkInv
<1> QED
  BY <1>1, <1>2, <1>3, <1>5, <1>6, SameFrame DEF ParserInv, HeadersInv, ResultInv

-----------------------------------------------------------------------------
(* Within the frame the walk reads the bytes of the frame.                 *)
LEMMA BytesAre ==
    ASSUME FrameIs, NEW i \in Parser!NameOffset..(frame.length - 1)
    PROVE  /\ i - Parser!NameOffset + 1 \in 1..Len(Bytes)
           /\ Parser!Byte(i) = Bytes[i - Parser!NameOffset + 1] /\ Parser!Byte(i) \in 0..255
<1>1. /\ Parser!NameOffset \in Nat /\ frame.length \in Nat /\ Bytes \in Seq(0..255)
      /\ Len(Bytes) = IF frame.length <= Parser!NameOffset THEN 0 ELSE frame.length - Parser!NameOffset
  BY Offsets DEF FrameIs, Bytes
<1>2. i < frame.length /\ i - Parser!NameOffset + 1 \in 1..Len(Bytes)
  BY <1>1
<1>3. Parser!Byte(i) = Bytes[i - Parser!NameOffset + 1]
  BY <1>2 DEF Parser!Byte, Bytes
<1>4. \A k \in 1..Len(Bytes) : Bytes[k] \in 0..255
  BY <1>1, ElementOfSeq
<1> QED
  BY <1>2, <1>3, <1>4, Zenon

(* What copying a label and its dot makes of the name.                     *)
LEMMA Copied ==
    ASSUME NEW S, NEW s \in Seq(S), NEW n \in Nat, NEW t \in [1..n -> S], NEW d \in S,
           NEW u, u = s \o t \o <<d>>
    PROVE  /\ u \in Seq(S) /\ Len(u) = Len(s) + n + 1
           /\ \A i \in 1..Len(s) : u[i] = s[i]
           /\ \A j \in 1..n : u[Len(s) + j] = t[j]
           /\ u[Len(s) + n + 1] = d
<1>1. t \in Seq(S) /\ Len(t) = n /\ Len(s) \in Nat
  OBVIOUS
<1> DEFINE v == s \o t
<1>2. /\ v \in Seq(S) /\ Len(v) = Len(s) + n
      /\ \A i \in 1..(Len(s) + n) : v[i] = IF i <= Len(s) THEN s[i] ELSE t[i - Len(s)]
  BY <1>1, ConcatProperties
<1>3. u = Append(v, d)
  BY <1>2, AppendIsConcat, Zenon DEF v
<1> HIDE DEF v
<1>4. /\ u \in Seq(S) /\ Len(u) = Len(v) + 1
      /\ \A i \in 1..Len(v) : u[i] = v[i]
      /\ u[Len(v) + 1] = d
  <2>0. v \in Seq(S) /\ d \in S
    BY <1>2
  <2>1. /\ Append(v, d) \in Seq(S) /\ Len(Append(v, d)) = Len(v) + 1
        /\ \A i \in 1..Len(v) : Append(v, d)[i] = v[i]
        /\ Append(v, d)[Len(v) + 1] = d
    BY <2>0, AppendProperties
  <2> QED
    BY <1>3, <2>1, Zenon
<1>5. ASSUME NEW i \in 1..Len(s) PROVE u[i] = s[i]
  <2>1. i \in 1..(Len(s) + n) /\ i <= Len(s)
    BY <1>1
  <2> QED
    BY <1>2, <1>4, <2>1
<1>6. ASSUME NEW j \in 1..n PROVE u[Len(s) + j] = t[j]
  <2>1. /\ Len(s) + j \in 1..(Len(s) + n) /\ ~(Len(s) + j <= Len(s))
        /\ (Len(s) + j) - Len(s) = j
    BY <1>1
  <2> QED
    BY <1>2, <1>4, <2>1
<1> QED
  BY <1>2, <1>4, <1>5, <1>6

(* The beginning of a sequence.                                            *)
LEMMA PrefixIs ==
    ASSUME NEW S, NEW s \in Seq(S), NEW k \in 0..Len(s), NEW u, u = SubSeq(s, 1, k)
    PROVE  /\ u \in Seq(S) /\ Len(u) = k
           /\ \A i \in 1..k : u[i] = s[i]
           /\ u = [i \in 1..k |-> s[i]]
<1>1. u \in Seq(S) /\ Len(u) = k
  OBVIOUS
<1>2. \A i \in 1..k : u[i] = s[i]
  OBVIOUS
<1>3. u = [i \in 1..Len(u) |-> u[i]]
  BY <1>1
<1> QED
  BY <1>1, <1>2, <1>3

(* No label of a naming begins within another.                             *)
LEMMA NoneBetween ==
    ASSUME NEW b \in Seq(0..255), NEW end \in 1..Len(b), NEW starts \in SUBSET (1..(end - 1)),
           Parser!IsName(b, starts, end), NEW p \in starts,
           \A s \in starts : s < p => Parser!After(b, s) <= p
    PROVE  \A x \in starts : x > p => x >= Parser!After(b, p)
<1> DEFINE Between(x) == x \in starts /\ p < x /\ x < Parser!After(b, p)
<1>1. /\ starts \subseteq Nat /\ \A s \in starts : b[s] \in 1..63
      /\ \A x \in starts : x # 1 => \E s \in starts : x = Parser!After(b, s)
      /\ p \in Nat /\ p >= 1
  <2>1. starts \subseteq Nat /\ p \in Nat /\ p >= 1
    OBVIOUS
  <2>2. /\ \A s \in starts : b[s] \in 1..63
        /\ starts = {1} \cup ({Parser!After(b, s) : s \in starts} \ {end})
    BY DEF Parser!IsName
  <2>3. \A x \in starts : x # 1 => \E s \in starts : x = Parser!After(b, s)
    BY <2>2, Zenon
  <2> QED
    BY <2>1, <2>2, <2>3
<1>2. \A s \in starts : Parser!After(b, s) \in Nat /\ s < Parser!After(b, s)
  <2>1. \A s \in Nat, n \in 1..63 : s + n + 1 \in Nat /\ s < s + n + 1
    OBVIOUS
  <2> QED
    BY <1>1, <2>1, Zenon DEF Parser!After
<1> HIDE DEF Between
<1>3. \A x \in 1..0 : ~Between(x)
  <2>1. 1..0 = {}
    OBVIOUS
  <2> QED
    BY <2>1
<1>4. ASSUME NEW k \in Nat, \A x \in 1..k : ~Between(x)
      PROVE  \A x \in 1..(k + 1) : ~Between(x)
  <2>1. SUFFICES ASSUME Between(k + 1) PROVE FALSE
    BY <1>4
  <2>2. PICK s \in starts : k + 1 = Parser!After(b, s)
    BY <1>1, <2>1 DEF Between
  <2>3. s \in 1..k
    BY <1>1, <1>2, <2>2
  <2>4. s # p /\ ~(s < p)
    BY <1>1, <1>2, <2>1, <2>2 DEF Between
  <2>5. Between(s)
    BY <1>1, <1>2, <2>1, <2>2, <2>3, <2>4 DEF Between
  <2> QED
    BY <1>4, <2>3, <2>5
<1>5. \A k \in Nat : k \in {j \in Nat : \A x \in 1..j : ~Between(x)}
  <2> DEFINE T == {j \in Nat : \A x \in 1..j : ~Between(x)}
  <2>1. T \in SUBSET Nat /\ 0 \in T /\ \A j \in T : j + 1 \in T
    <3>1. T \in SUBSET Nat /\ 0 \in T
      BY <1>3
    <3>2. ASSUME NEW j \in T PROVE j + 1 \in T
      <4>1. j \in Nat /\ j + 1 \in Nat /\ \A x \in 1..j : ~Between(x)
        OBVIOUS
      <4> QED
        BY <4>1, <1>4
    <3> QED
      BY <3>1, <3>2
  <2> HIDE DEF T
  <2>2. \A k \in Nat : k \in T
    BY <2>1, Decimal!Induction
  <2> QED
    BY <2>2 DEF T
<1> QED
  <2> SUFFICES ASSUME NEW x \in starts, x > p PROVE x >= Parser!After(b, p)
    OBVIOUS
  <2>1. x \in Nat /\ x \in 1..x /\ p \in Nat /\ Parser!After(b, p) \in Nat
    BY <1>1, <1>2
  <2>2. ~Between(x)
    BY <1>5, <2>1
  <2> QED
    BY <2>1, <2>2 DEF Between

(* Where the walk stands, seen from the bytes: the length of the label, and*)
(* what the code checks of it.                                             *)
LEMMA Standing ==
    ASSUME ParserInv, at = "label", pos < frame.length
    PROVE  /\ Parser!Byte(pos) = Bytes[Place] /\ Parser!Byte(pos) \in 0..255
           /\ Place \in 1..Len(Bytes) /\ pos \in Parser!NameOffset..(frame.length - 1)
           /\ Parser!NameOffset \in Nat /\ pos \in Nat /\ Place \in Nat /\ frame.length \in Nat
           /\ Len(Bytes) \in Nat /\ Len(Bytes) = frame.length - Parser!NameOffset
           /\ Place = pos - Parser!NameOffset + 1 /\ Len(name) = Place - 1
           /\ Bytes \in Seq(0..255)
<1>1. /\ Parser!NameOffset \in Nat /\ frame.length \in Nat /\ Bytes \in Seq(0..255)
      /\ Len(Bytes) = IF frame.length <= Parser!NameOffset THEN 0 ELSE frame.length - Parser!NameOffset
      /\ pos \in Parser!NameOffset..frame.length /\ Len(name) = Place - 1
  BY Offsets DEF ParserInv, FrameIs, Bytes, WalkInv
<1>2. pos \in Parser!NameOffset..(frame.length - 1)
  BY <1>1
<1>3. /\ Place \in 1..Len(Bytes) /\ Parser!Byte(pos) = Bytes[Place] /\ Parser!Byte(pos) \in 0..255
  BY <1>2, BytesAre DEF ParserInv, Place
<1> QED
  BY <1>1, <1>2, <1>3 DEF Place

(* A label is copied.                                                      *)
LEMMA CopiedIs ==
    ASSUME ParserInv, Parser!Label
    PROVE  LET n == Parser!Byte(pos)
           IN  /\ n \in 1..63 /\ Len(name) + n + 1 <= NameSize - 1
               /\ name' \in Seq(0..255 \cup {Dot}) /\ Len(name') = Len(name) + n + 1
               /\ \A i \in 1..Len(name) : name'[i] = name[i]
               /\ \A j \in 1..n : name'[Len(name) + j] = Bytes[Place + j]
               /\ name'[Len(name) + n + 1] = Dot
               /\ pos' = pos + 1 + n /\ pos' \in Nat /\ pos' <= frame.length
               /\ reach' \in 0..frame.length
               /\ at = "label" /\ at' = at /\ frame' = frame /\ pos < frame.length
<1> DEFINE n == Parser!Byte(pos)
           t == [j \in 1..n |-> Parser!Byte(pos + j)]
<1>1. /\ at = "label" /\ pos < frame.length /\ n \in 1..63 /\ pos + 1 + n <= frame.length
      /\ Len(name) + n + 1 <= NameSize - 1 /\ pos' = pos + 1 + n
      /\ at' = at /\ frame' = frame
      /\ name' = name \o t \o <<Dot>>
      /\ reach' = Parser!Max({reach, pos'})
  BY DEF Parser!Label, Parser!Copies, Parser!IsLabel, Parser!LabelFits, Parser!NameFits
<1>2. /\ pos \in Parser!NameOffset..(frame.length - 1) /\ Parser!NameOffset \in Nat
      /\ frame.length \in Nat /\ Place = pos - Parser!NameOffset + 1
  BY <1>1, Standing
<1> HIDE DEF n
<1>3. \A j \in 1..n : Parser!Byte(pos + j) = Bytes[Place + j] /\ Parser!Byte(pos + j) \in 0..255
  <2> TAKE j \in 1..n
  <2>1. pos + j \in Parser!NameOffset..(frame.length - 1) /\ (pos + j) - Parser!NameOffset + 1 = Place + j
    BY <1>1, <1>2
  <2>2. /\ Parser!Byte(pos + j) = Bytes[(pos + j) - Parser!NameOffset + 1]
        /\ Parser!Byte(pos + j) \in 0..255
    <3>1. FrameIs
      BY DEF ParserInv
    <3>2. \A i \in Parser!NameOffset..(frame.length - 1) :
             Parser!Byte(i) = Bytes[i - Parser!NameOffset + 1] /\ Parser!Byte(i) \in 0..255
      BY <3>1, BytesAre, Zenon
    <3> QED
      BY <2>1, <3>2, Zenon
  <2> QED
    BY <2>1, <2>2, Zenon
<1>4. t \in [1..n -> 0..255 \cup {Dot}] /\ \A j \in 1..n : t[j] = Bytes[Place + j]
  BY <1>3
<1> HIDE DEF t
<1>5. name \in Seq(0..255 \cup {Dot}) /\ n \in Nat /\ reach \in 0..frame.length
  BY <1>1 DEF ParserInv, Parser!TypeOK
<1>6. /\ name' \in Seq(0..255 \cup {Dot}) /\ Len(name') = Len(name) + n + 1
      /\ \A i \in 1..Len(name) : name'[i] = name[i]
      /\ \A j \in 1..n : name'[Len(name) + j] = t[j]
      /\ name'[Len(name) + n + 1] = Dot
  <2> DEFINE S == 0..255 \cup {Dot}
  <2>1. name \in Seq(S) /\ n \in Nat
    BY <1>5
  <2>2. t \in [1..n -> S]
    BY <1>4
  <2>3. Dot \in S
    OBVIOUS
  <2>4. name' = name \o t \o <<Dot>>
    BY <1>1
  <2> HIDE DEF S, n
  <2>5. \A u : u = name \o t \o <<Dot>> =>
          /\ u \in Seq(S) /\ Len(u) = Len(name) + n + 1
          /\ \A i \in 1..Len(name) : u[i] = name[i]
          /\ \A j \in 1..n : u[Len(name) + j] = t[j]
          /\ u[Len(name) + n + 1] = Dot
    BY <2>1, <2>2, <2>3, Copied
  <2> QED
    BY <2>4, <2>5, Zenon DEF S
<1>7. pos' \in Nat /\ pos' <= frame.length
  BY <1>1, <1>2
<1>8. reach' \in 0..frame.length
  <2>1. Parser!Max({reach, pos'}) = IF reach >= pos' THEN reach ELSE pos'
    BY <1>5, <1>7, MaxOfTwo
  <2> QED
    BY <1>1, <1>2, <1>5, <1>7, <2>1
<1> QED
  BY <1>1, <1>4, <1>6, <1>7, <1>8 DEF n

(* One label further, the labels passed are one more,                      *)
LEMMA PassedGrows ==
    ASSUME NEW b \in Seq(0..255), NEW p \in 1..Len(b), b[p] \in 1..63,
           NEW starts, PassedTo(b, p, starts)
    PROVE  PassedTo(b, Parser!After(b, p), starts \cup {p})
<1> DEFINE q == Parser!After(b, p)
           more == starts \cup {p}
<1>1. /\ starts \subseteq 1..(p - 1)
      /\ \A s \in starts : b[s] \in 1..63 /\ Parser!After(b, s) \in starts \cup {p}
      /\ starts \cup {p} = {1} \cup {Parser!After(b, s) : s \in starts}
  BY Zenon DEF PassedTo
<1>2. p \in Nat /\ q \in Nat /\ p < q
  <2>1. \A k \in Nat, n \in 1..63 : k + n + 1 \in Nat /\ k < k + n + 1
    OBVIOUS
  <2>2. p \in Nat
    OBVIOUS
  <2> QED
    BY <2>1, <2>2, Zenon DEF Parser!After
<1>3. {Parser!After(b, s) : s \in more} = {Parser!After(b, s) : s \in starts} \cup {q}
  BY Zenon
<1> HIDE DEF q
<1>4. more \subseteq 1..(q - 1)
  BY <1>1, <1>2
<1>5. \A s \in more : b[s] \in 1..63 /\ Parser!After(b, s) \in more \cup {q}
  BY <1>1, Zenon DEF q
<1>6. more \cup {q} = {1} \cup {Parser!After(b, s) : s \in more}
  BY <1>1, <1>3
<1> HIDE DEF more
<1>7. PassedTo(b, q, more)
  BY <1>4, <1>5, <1>6, Zenon DEF PassedTo
<1> QED
  BY <1>7 DEF q, more

(* and what any naming has there was copied from it.                       *)
LEMMA AgreesGrows ==
    ASSUME NEW b \in Seq(0..255), NEW p \in 1..Len(b), b[p] \in 1..63,
           NEW end \in 1..Len(b), NEW starts \in SUBSET (1..(end - 1)), Parser!IsName(b, starts, end),
           NEW chars, NEW more, Len(chars) = p - 1, Len(more) = p + b[p],
           \A i \in 1..(p - 1) : more[i] = chars[i],
           \A j \in 1..b[p] : more[(p - 1) + j] = b[p + j],
           more[p + b[p]] = Dot,
           Agrees(b, p, chars, starts, end)
    PROVE  Agrees(b, Parser!After(b, p), more, starts, end)
<1> DEFINE q == Parser!After(b, p)
<1>1. p \in Nat /\ b[p] \in Nat /\ q = p + b[p] + 1 /\ q \in Nat /\ p < q
  <2>1. \A k \in Nat, n \in 1..63 : n \in Nat /\ k + n + 1 \in Nat /\ k < k + n + 1
    OBVIOUS
  <2>2. p \in Nat
    OBVIOUS
  <2> QED
    BY <2>1, <2>2, Zenon DEF Parser!After
<1>2. p \in starts
  <2>1. p \in starts \cup {end} /\ b[end] = 0
    BY Zenon DEF Agrees, Parser!IsName
  <2>2. b[p] # 0
    <3>1. \A k \in 1..63 : k # 0
      OBVIOUS
    <3> QED
      BY <3>1, Zenon
  <2> QED
    BY <2>1, <2>2
<1>3. q \in starts \cup {end}
  BY <1>2 DEF Parser!IsName
<1>4. \A s \in starts : s < p => Parser!After(b, s) <= p
  BY DEF Agrees
<1>5. \A x \in starts : x > p => x >= q
  BY <1>2, <1>4, NoneBetween
<1> HIDE DEF q
<1>6. \A x \in starts \cup {end} : x \in Nat /\ (x > p => x >= q)
  BY <1>3, <1>5
<1>7. ASSUME NEW s \in starts, s < q PROVE Parser!After(b, s) <= q
  <2>1. s \in Nat /\ (s = p \/ s < p)
    BY <1>1, <1>6, <1>7
  <2>2. CASE s = p
    BY <1>1, <2>2 DEF q
  <2>3. CASE s < p
    <3>1. Parser!After(b, s) <= p
      BY <1>4, <2>3
    <3>2. Parser!After(b, s) \in Nat
      <4>1. \A k \in Nat, n \in 1..63 : k + n + 1 \in Nat
        OBVIOUS
      <4>2. b[s] \in 1..63
        BY DEF Parser!IsName
      <4> QED
        BY <2>1, <4>1, <4>2, Zenon DEF Parser!After
    <3> QED
      BY <1>1, <3>1, <3>2
  <2> QED
    BY <2>1, <2>2, <2>3
<1>8. ASSUME NEW i \in 1..Len(more)
      PROVE  more[i] = IF i + 1 \in starts \cup {end} THEN Dot ELSE b[i + 1]
  <2>1. i \in 1..(p - 1) \/ i \in p..(q - 2) \/ i = q - 1
    BY <1>1
  <2>2. CASE i \in 1..(p - 1)
    BY <2>2 DEF Agrees
  <2>3. CASE i \in p..(q - 2)
    <3>1. i + 1 \notin starts \cup {end}
      <4>1. i + 1 > p /\ ~(i + 1 >= q)
        BY <1>1, <2>3
      <4> QED
        BY <1>6, <4>1, Zenon
    <3>2. /\ (i - p) + 1 \in 1..b[p] /\ (p - 1) + ((i - p) + 1) = i
          /\ p + ((i - p) + 1) = i + 1
      BY <1>1, <2>3
    <3>3. more[i] = b[i + 1]
      BY <3>2
    <3> QED
      BY <3>1, <3>3
  <2>4. CASE i = q - 1
    <3>1. i + 1 = q /\ i = p + b[p]
      BY <1>1, <2>4
    <3> QED
      BY <1>3, <3>1
  <2> QED
    BY <2>1, <2>2, <2>3, <2>4
<1> QED
  BY <1>3, <1>7, <1>8 DEF Agrees, q

(* One label further: the labels passed, and what any naming has here.     *)
LEMMA LabelStep == ParserInv /\ Parser!Label => ParserInv'
<1> SUFFICES ASSUME ParserInv, Parser!Label PROVE ParserInv'
  OBVIOUS
<1> DEFINE n == Parser!Byte(pos)
           p == Place
           b == Bytes
           m == Len(name)
<1>1. /\ n \in 1..63 /\ m + n + 1 <= NameSize - 1
      /\ name' \in Seq(0..255 \cup {Dot}) /\ Len(name') = m + n + 1
      /\ \A i \in 1..m : name'[i] = name[i]
      /\ \A j \in 1..n : name'[m + j] = b[p + j]
      /\ name'[m + n + 1] = Dot
      /\ pos' = pos + 1 + n /\ pos' \in Nat /\ pos' <= frame.length
      /\ reach' \in 0..frame.length
      /\ at = "label" /\ at' = at /\ frame' = frame /\ pos < frame.length
  BY CopiedIs, Zenon
<1>2. /\ n = b[p] /\ p \in 1..Len(b) /\ pos \in Parser!NameOffset..(frame.length - 1)
      /\ Parser!NameOffset \in Nat /\ pos \in Nat /\ p \in Nat /\ frame.length \in Nat
      /\ Len(b) \in Nat /\ Len(b) = frame.length - Parser!NameOffset
      /\ p = pos - Parser!NameOffset + 1 /\ m = p - 1 /\ b \in Seq(0..255)
  BY <1>1, Standing, Zenon
<1>3. /\ Parser!IsPacket /\ Parser!IsQuestion
      /\ \E starts \in SUBSET (1..(p - 1)) : Passed(starts)
      /\ \A starts, end : Naming(starts, end) => AgreesWith(starts, end)
  BY <1>1 DEF ParserInv, WalkInv
<1>4. /\ Bytes' = b /\ Parser!NameOffset' = Parser!NameOffset /\ Place' = p + n + 1
      /\ Place' = Parser!After(b, p) /\ Parser!After(b, p) = p + n + 1
  <2>1. Bytes' = b /\ Parser!NameOffset' = Parser!NameOffset
    BY <1>1, SameFrame
  <2>2. Place' = (pos + 1 + n) - Parser!NameOffset + 1
    BY <1>1, <2>1 DEF Place
  <2> HIDE DEF n, p, b
  <2>3. Place' = p + n + 1
    <3>1. \A x, y, k \in Int : (x + 1 + k) - y + 1 = (x - y + 1) + k + 1
      OBVIOUS
    <3>2. pos \in Int /\ Parser!NameOffset \in Int /\ n \in Int
      <4>1. \A k \in 1..63 : k \in Int
        OBVIOUS
      <4>2. n \in Int
        BY <1>1, <4>1, Zenon
      <4> QED
        BY <1>2, <4>2
    <3> QED
      BY <1>2, <2>2, <3>1, <3>2, Zenon
  <2>4. Parser!After(b, p) = p + n + 1
    BY <1>1, <1>2 DEF Parser!After
  <2> QED
    BY <2>1, <2>3, <2>4
<1>5. FrameIs' /\ Parser!TypeOK'
  <2>1. pos' \in 0..frame.length /\ Len(name') < NameSize
    <3>1. NameSize \in Nat /\ m \in Nat
      BY <1>2, LenProperties DEF ParserInv, FrameIs
    <3> QED
      BY <1>1, <1>2, <3>1
  <2> QED
    BY <1>1, <2>1, SameFrame DEF ParserInv, Parser!TypeOK
<1>6. ASSUME NEW starts, Passed(starts)
      PROVE  \E more \in SUBSET (1..(Place' - 1)) : Passed(more)'
  <2>1. PassedTo(b, p, starts)
    BY <1>6 DEF Passed
  <2> HIDE DEF n, p, b
  <2>2. PassedTo(b, Parser!After(b, p), starts \cup {p})
    BY <1>1, <1>2, <2>1, PassedGrows
  <2>3. PassedTo(Bytes', Place', starts \cup {p})
    BY <1>4, <2>2, Zenon
  <2> QED
    BY <2>3 DEF Passed, PassedTo
<1>7. ASSUME NEW starts, NEW end, Naming(starts, end)' PROVE AgreesWith(starts, end)'
  <2>1. /\ end \in 1..Len(b) /\ starts \in SUBSET (1..(end - 1)) /\ Parser!IsName(b, starts, end)
        /\ Agrees(b, p, name, starts, end)
    BY <1>1, <1>3, <1>7, SameFrame DEF Naming, AgreesWith
  <2> HIDE DEF n, p, b
  <2>2. /\ b[p] \in 1..63 /\ Len(name) = p - 1 /\ Len(name') = p + b[p]
        /\ \A i \in 1..(p - 1) : name'[i] = name[i]
        /\ \A j \in 1..b[p] : name'[(p - 1) + j] = b[p + j]
        /\ name'[p + b[p]] = Dot
    <3>1. \A x \in Nat, k \in 1..63 : (x - 1) + k + 1 = x + k
      OBVIOUS
    <3>2. m = p - 1 /\ n = b[p] /\ p \in Nat /\ n \in 1..63
      BY <1>1, <1>2
    <3>3. (p - 1) + n + 1 = p + n
      BY <3>1, <3>2, Zenon
    <3>4. m + n + 1 = p + b[p]
      BY <3>2, <3>3, Zenon
    <3> QED
      BY <1>1, <3>2, <3>4, Zenon
  <2>3. Agrees(b, Parser!After(b, p), name', starts, end)
    BY <1>2, <2>1, <2>2, AgreesGrows
  <2> QED
    BY <1>4, <2>3, Zenon DEF AgreesWith
<1>8. pos' \in (Parser!NameOffset..frame.length)' /\ (Len(name) = Place - 1)'
  <2> HIDE DEF n, p, b, m
  <2>1. pos' \in Parser!NameOffset..frame.length
    BY <1>1, <1>2
  <2>2. Len(name') = Place' - 1
    <3>1. \A x \in Nat, k \in 1..63 : (x - 1) + k + 1 = (x + k + 1) - 1
      OBVIOUS
    <3> QED
      BY <1>1, <1>2, <1>4, <3>1, Zenon
  <2> QED
    BY <1>1, <1>4, <2>1, <2>2
<1>9. WalkInv'
  BY <1>1, <1>3, <1>6, <1>7, <1>8, SameFrame DEF WalkInv
<1> QED
  BY <1>1, <1>5, <1>9 DEF ParserInv, HeadersInv, ResultInv

(* The walk stops at the root label: what was copied is the name of every  *)
(* naming, and the labels passed are one.                                  *)
LEMMA NameEndsStep == ParserInv /\ Parser!NameEnds => ParserInv'
<1> SUFFICES ASSUME ParserInv, Parser!NameEnds PROVE ParserInv'
  OBVIOUS
<1> DEFINE p == Place
           b == Bytes
<1>1. /\ at = "label" /\ pos < frame.length /\ Parser!Byte(pos) = 0 /\ name # <<>>
      /\ at' = "query" /\ name' = SubSeq(name, 1, Len(name) - 1)
      /\ reach' = Parser!Max({reach, pos + 1}) /\ frame' = frame /\ pos' = pos
  BY DEF Parser!NameEnds
<1>2. /\ b[p] = 0 /\ p \in 1..Len(b) /\ pos \in Parser!NameOffset..(frame.length - 1)
      /\ Parser!NameOffset \in Nat /\ pos \in Nat /\ p \in Nat /\ frame.length \in Nat
      /\ Len(b) \in Nat /\ Len(name) = p - 1 /\ b \in Seq(0..255)
  BY <1>1, Standing, Zenon
<1>3. /\ Parser!IsPacket /\ Parser!IsQuestion
      /\ \E starts \in SUBSET (1..(p - 1)) : Passed(starts)
      /\ \A starts, end : Naming(starts, end) => AgreesWith(starts, end)
  BY <1>1 DEF ParserInv, WalkInv
<1>4. /\ name \in Seq(0..255 \cup {Dot}) /\ Len(name) < NameSize /\ NameSize \in Nat
      /\ reach \in 0..frame.length /\ frame \in Frames
  BY DEF ParserInv, Parser!TypeOK, FrameIs
<1> HIDE DEF p, b
<1>5. p > 1
  <2>1. Len(name) # 0
    BY <1>1, <1>4, EmptySeq
  <2> QED
    BY <1>2, <2>1
<1>6. /\ name' \in Seq(0..255 \cup {Dot}) /\ Len(name') = p - 2
      /\ \A i \in 1..(p - 2) : name'[i] = name[i]
      /\ name' = [i \in 1..(p - 2) |-> name[i]]
  <2>1. 1 <= Len(name) /\ Len(name) - 1 = p - 2 /\ p - 2 \in Nat
    BY <1>2, <1>5
  <2> DEFINE k == p - 2
  <2>2. k \in 0..Len(name)
    BY <1>2, <2>1
  <2>3. name' = SubSeq(name, 1, k)
    BY <1>1, <2>1
  <2> HIDE DEF k
  <2> DEFINE S == 0..255 \cup {Dot}
             u == name'
  <2>4. name \in Seq(S)
    BY <1>4
  <2> HIDE DEF S, u
  <2>5. /\ u \in Seq(S) /\ Len(u) = k
        /\ \A i \in 1..k : u[i] = name[i]
        /\ u = [i \in 1..k |-> name[i]]
    <3>1. u = SubSeq(name, 1, k)
      BY <2>3 DEF u
    <3> QED
      BY <2>2, <2>4, <3>1, PrefixIs
  <2> QED
    BY <2>5, Zenon DEF k, S, u
<1>7. ASSUME NEW starts, NEW end, Naming(starts, end)
      PROVE  name' = Parser!Dotted(b, starts, end)
  <2>1. /\ end \in 1..Len(b) /\ starts \in SUBSET (1..(end - 1)) /\ Parser!IsName(b, starts, end)
        /\ Agrees(b, p, name, starts, end)
    BY <1>3, <1>7 DEF Naming, AgreesWith, p, b
  <2>2. p = end
    <3>1. p \in starts \cup {end} /\ \A s \in starts : b[s] \in 1..63
      BY <2>1, Zenon DEF Agrees, Parser!IsName
    <3>2. \A k \in 1..63 : k # 0
      OBVIOUS
    <3>3. p \notin starts
      BY <1>2, <3>1, <3>2, Zenon
    <3> QED
      BY <3>1, <3>3
  <2>3. ASSUME NEW i \in 1..(end - 2)
        PROVE  name[i] = IF i + 1 \in starts THEN Dot ELSE b[i + 1]
    <3>1. i + 1 # end /\ i \in 1..Len(name)
      BY <1>2, <2>2
    <3> QED
      BY <2>1, <3>1 DEF Agrees
  <2> QED
    BY <1>6, <2>2, <2>3 DEF Parser!Dotted
<1>8. \E starts, end : Naming(starts, end)
  <2>1. PICK starts \in SUBSET (1..(p - 1)) : PassedTo(b, p, starts)
    BY <1>3 DEF Passed, p, b
  <2>2. /\ \A s \in starts : b[s] \in 1..63 /\ Parser!After(b, s) \in starts \cup {p}
        /\ starts \cup {p} = {1} \cup {Parser!After(b, s) : s \in starts}
    BY <2>1, Zenon DEF PassedTo
  <2>3. p \notin starts /\ p # 1
    BY <1>2, <1>5
  <2>4. starts = {1} \cup ({Parser!After(b, s) : s \in starts} \ {p})
    BY <2>2, <2>3
  <2>5. p <= NameSize
    BY <1>2, <1>4
  <2>6. Parser!IsName(b, starts, p)
    BY <1>2, <2>2, <2>4, <2>5 DEF Parser!IsName
  <2> QED
    BY <1>2, <2>6 DEF Naming, b
<1>9. FrameIs' /\ Parser!TypeOK'
  <2>1. reach' \in 0..frame.length
    <3>1. Parser!Max({reach, pos + 1}) = IF reach >= pos + 1 THEN reach ELSE pos + 1
      BY <1>2, <1>4, MaxOfTwo
    <3> QED
      BY <1>1, <1>2, <1>4, <3>1
  <2>2. Len(name') < NameSize /\ pos' \in 0..frame.length
    BY <1>1, <1>2, <1>4, <1>6
  <2> QED
    BY <1>1, <1>4, <1>6, <2>1, <2>2, SameFrame DEF ParserInv, Parser!TypeOK,
       Parser!Results
<1>10. WalkInv' /\ HeadersInv'
  BY <1>1 DEF WalkInv, HeadersInv
<1>11. ResultInv'
  BY <1>1, <1>3, <1>7, <1>8, SameFrame, Zenon DEF ResultInv, b
<1> QED
  BY <1>9, <1>10, <1>11 DEF ParserInv

(* The walk gives up only where no naming goes on.                         *)
LEMMA NotANameStep == ParserInv /\ Parser!NotAName => ParserInv'
<1> SUFFICES ASSUME ParserInv, Parser!NotAName PROVE ParserInv'
  OBVIOUS
<1> DEFINE p == Place
           b == Bytes
           n == Parser!Byte(pos)
<1>1. /\ at = "label" /\ at' = "packet" /\ name' = <<>> /\ frame' = frame /\ pos' = pos
      /\ \/ pos >= frame.length /\ reach' = reach
         \/ pos < frame.length /\ reach' = Parser!Max({reach, pos + 1})
      /\ pos < frame.length /\ n = 0 => name = <<>>
      /\ pos < frame.length /\ n # 0 => ~Parser!Copies(n)
  <2>1. pos < frame.length => ~(pos >= frame.length)
    BY Standing DEF ParserInv, FrameIs, Parser!TypeOK
  <2> QED
    BY <2>1, Zenon DEF Parser!NotAName
<1>2. /\ NameSize \in Nat \ {0} /\ reach \in 0..frame.length /\ frame \in Frames
      /\ frame.length \in Nat /\ pos \in Parser!NameOffset..frame.length /\ Parser!NameOffset \in Nat
      /\ Parser!IsPacket /\ Len(name) = p - 1 /\ p = pos - Parser!NameOffset + 1
      /\ Len(b) = (IF frame.length <= Parser!NameOffset THEN 0 ELSE frame.length - Parser!NameOffset)
  BY <1>1, Offsets DEF ParserInv, Parser!TypeOK, FrameIs, WalkInv, Place, Bytes
<1>3. \A starts, end : Naming(starts, end) => AgreesWith(starts, end)
  BY <1>1 DEF ParserInv, WalkInv
<1>4. ASSUME NEW starts, NEW end, Naming(starts, end) PROVE FALSE
  <2>1. /\ end \in 1..Len(b) /\ starts \in SUBSET (1..(end - 1)) /\ Parser!IsName(b, starts, end)
        /\ p \in starts \cup {end}
    BY <1>3, <1>4 DEF Naming, AgreesWith, Agrees
  <2> HIDE DEF b, n, p
  <2>2. pos < frame.length /\ p \in Nat
    BY <1>2, <2>1
  <2>3. n = b[p]
    BY <1>1, <2>2, Standing DEF n, b, p
  <2>4. /\ b[end] = 0 /\ end <= NameSize
        /\ \A s \in starts : b[s] \in 1..63 /\ Parser!After(b, s) \in starts \cup {end}
        /\ 1 \in starts
    BY <2>1 DEF Parser!IsName
  <2>5. CASE p = end
    <3>1. Len(name) = 0
      BY <1>1, <2>2, <2>3, <2>4, <2>5
    <3>2. end = 1
      BY <1>2, <2>2, <2>5, <3>1
    <3> QED
      BY <2>1, <2>4, <3>2
  <2>6. CASE p \in starts
    <3>1. n \in 1..63 /\ Parser!After(b, p) \in starts \cup {end} /\ Parser!After(b, p) = p + n + 1
      BY <2>3, <2>4, <2>6 DEF Parser!After
    <3>2. p + n + 1 \in Nat /\ p + n + 1 <= end /\ end <= Len(b)
      BY <2>1, <3>1
    <3>3. pos + 1 + n <= frame.length
      <4>1. Len(b) = frame.length - Parser!NameOffset
        BY <1>2, <2>2
      <4>2. \A x, y, l \in Nat, k \in 1..63 :
               (x - y + 1) + k + 1 <= l - y => x + 1 + k <= l
        OBVIOUS
      <4>3. p + n + 1 <= frame.length - Parser!NameOffset
        BY <1>2, <2>1, <2>2, <3>2, <4>1
      <4> QED
        BY <1>2, <3>1, <4>2, <4>3
    <3>4. Len(name) + n + 1 <= NameSize - 1
      BY <1>2, <2>2, <2>1, <2>4, <3>1, <3>2
    <3>5. Parser!Copies(n)
      BY <3>1, <3>3, <3>4 DEF Parser!Copies, Parser!IsLabel, Parser!LabelFits,
         Parser!NameFits
    <3> QED
      BY <1>1, <2>2, <3>1, <3>5
  <2> QED
    BY <2>1, <2>5, <2>6
<1>5. FrameIs' /\ Parser!TypeOK'
  <2>1. reach' \in 0..frame.length
    <3>1. Parser!Max({reach, pos + 1}) = IF reach >= pos + 1 THEN reach ELSE pos + 1
      BY <1>2, MaxOfTwo
    <3> HIDE DEF p, b, n
    <3> QED
      BY <1>1, <1>2, <3>1
  <2>2. <<>> \in Seq(0..255 \cup {Dot}) /\ Len(<<>>) < NameSize
    BY <1>2
  <2>3. pos' \in 0..frame.length
    BY <1>1, <1>2
  <2> QED
    BY <1>1, <1>2, <2>1, <2>2, <2>3, SameFrame DEF ParserInv, Parser!TypeOK,
       Parser!Results
<1>6. WalkInv' /\ HeadersInv'
  BY <1>1 DEF WalkInv, HeadersInv
<1>7. ResultInv'
  BY <1>1, <1>2, <1>4, SameFrame, Zenon DEF ResultInv
<1> QED
  BY <1>5, <1>6, <1>7 DEF ParserInv

-----------------------------------------------------------------------------
(* The strengthening holds of every frame at every moment of its parsing.  *)
THEOREM ParserInvariance == Parser!PacketParserAssumption => (Parser!Spec => []ParserInv)
<1> SUFFICES ASSUME Parser!PacketParserAssumption PROVE Parser!Spec => []ParserInv
  OBVIOUS
<1>1. Parser!Init => ParserInv
  <2> SUFFICES ASSUME Parser!Init PROVE ParserInv
    OBVIOUS
  <2>1. FrameIs
    BY FrameHolds DEF Parser!Init
  <2>2. Parser!TypeOK
    BY <2>1 DEF Parser!Init, Parser!TypeOK, FrameIs
  <2> QED
    BY <2>1, <2>2 DEF Parser!Init, ParserInv, WalkInv, HeadersInv, ResultInv
<1>2. ParserInv /\ [Parser!Next]_(Parser!vars) => ParserInv'
  <2>1. ParserInv /\ UNCHANGED Parser!vars => ParserInv'
    BY SameFrame DEF Parser!vars, ParserInv, Parser!TypeOK, WalkInv, HeadersInv,
       ResultInv, Passed,
         AgreesWith, Place
  <2> QED
    BY <2>1, EthernetStep, IpStep, TransportStep, DnsHeaderStep, LabelStep, NameEndsStep,
       NotANameStep DEF Parser!Next
<1> QED
  BY <1>1, <1>2, PTL DEF Parser!Spec

(* The position never leaves the frame, the name never its buffer.         *)
THEOREM ParserTypeCorrect == Parser!PacketParserAssumption => (Parser!Spec => []Parser!TypeOK)
<1>1. ParserInv => Parser!TypeOK
  BY DEF ParserInv
<1> QED
  BY <1>1, ParserInvariance, PTL

(* Frames of every length and content, with every header: no byte past the *)
(* end of the frame is read, none past the end of dns_qname written, and a *)
(* query is reported exactly for the questions with a name, under it.      *)
THEOREM Parses == Parser!PacketParserAssumption => (Parser!Spec => []ParsesExactly)
BY ParserInvImplies, ParserInvariance, PTL DEF ParsesExactly

(*****************************************************************************)
(* BatchBody                                                                 *)
(*****************************************************************************)

(* The numbers of a sequence, one element at a time.                       *)
LEMMA NumberedIs == ASSUME NEW s PROVE Body!Numbered(s) = Lists!FoldLeft(Listed, <<>>, s)
BY DEF Body!Numbered, Listed, Body!FoldLeft, Body!MapThenFoldSet, Body!Max,
       Lists!FoldLeft, Lists!MapThenFoldSet, Lists!Max

LEMMA NumberedOfNothing == Body!Numbered(<<>>) = <<>>
BY NumberedIs, Lists!FoldOfNothing

LEMMA NumberedOfAppend ==
    ASSUME NEW s \in Seq(Nat), NEW k \in Nat
    PROVE  Body!Numbered(Append(s, k)) = IF k = 0 THEN Body!Numbered(s) ELSE Append(Body!Numbered(s), k)
<1>1. Lists!FoldLeft(Listed, <<>>, Append(s, k)) = Listed(Lists!FoldLeft(Listed, <<>>, s), k)
  BY Lists!FoldOfAppend
<1> QED
  BY <1>1, NumberedIs DEF Listed

-----------------------------------------------------------------------------
(* The events of a batch b that get an entry, among the first n.           *)
Over(b, k) == b.kind = "forensics" /\ ~b.events[k].known
Mark(b, k) == IF Over(b, k) THEN 0 ELSE k
Marks(b, n) == [k \in 1..n |-> Mark(b, k)]
KnownIn(b, n) == Body!Numbered(Marks(b, n))

LEMMA KnownOfNone == ASSUME NEW b PROVE KnownIn(b, 0) = <<>>
<1>1. Marks(b, 0) = <<>>
  BY DEF Marks
<1> QED
  BY <1>1, NumberedOfNothing DEF KnownIn

LEMMA KnownOfNext ==
    ASSUME NEW b, NEW n \in Nat
    PROVE  KnownIn(b, n + 1) = IF Over(b, n + 1) THEN KnownIn(b, n)
                               ELSE Append(KnownIn(b, n), n + 1)
<1>1. \A k \in Nat : Mark(b, k) \in Nat
  BY DEF Mark
<1>2. Mark(b, n + 1) = IF Over(b, n + 1) THEN 0 ELSE n + 1
  BY DEF Mark
<1>3. Marks(b, n) \in Seq(Nat) /\ Marks(b, n + 1) = Append(Marks(b, n), Mark(b, n + 1))
  <2> HIDE DEF Mark
  <2> QED
    BY <1>1 DEF Marks
<1>4. Mark(b, n + 1) = 0 <=> Over(b, n + 1)
  BY <1>2
<1>5. Mark(b, n + 1) \in Nat
  BY <1>1
<1> HIDE DEF Mark, Over
<1>6. Body!Numbered(Append(Marks(b, n), Mark(b, n + 1)))
         = IF Mark(b, n + 1) = 0 THEN Body!Numbered(Marks(b, n))
           ELSE Append(Body!Numbered(Marks(b, n)), Mark(b, n + 1))
  BY <1>3, <1>5, NumberedOfAppend
<1> QED
  BY <1>2, <1>3, <1>4, <1>6, Zenon DEF KnownIn

(* They are some of the first n, in every case.                            *)
LEMMA KnownType == ASSUME NEW b PROVE \A n \in Nat : KnownIn(b, n) \in Seq(1..n)
<1> DEFINE T == {n \in Nat : KnownIn(b, n) \in Seq(1..n)}
<1>1. 0 \in T
  <2>1. KnownIn(b, 0) = <<>>
    BY KnownOfNone
  <2>2. <<>> \in Seq(1..0)
    OBVIOUS
  <2> HIDE DEF KnownIn
  <2> QED
    BY <2>1, <2>2
<1>2. ASSUME NEW n \in T PROVE n + 1 \in T
  <2>1. n \in Nat /\ KnownIn(b, n) \in Seq(1..(n + 1))
    <3>1. n \in Nat /\ KnownIn(b, n) \in Seq(1..n) /\ 1..n \subseteq 1..(n + 1)
      OBVIOUS
    <3> QED
      BY <3>1
  <2>2. KnownIn(b, n + 1) = IF Over(b, n + 1) THEN KnownIn(b, n)
                            ELSE Append(KnownIn(b, n), n + 1)
    BY <2>1, KnownOfNext
  <2>3. n + 1 \in 1..(n + 1)
    BY <2>1
  <2> HIDE DEF KnownIn, Over
  <2>4. KnownIn(b, n + 1) \in Seq(1..(n + 1))
    <3> DEFINE list == KnownIn(b, n)
               S == 1..(n + 1)
    <3>1. list \in Seq(S) /\ n + 1 \in S
      BY <2>1, <2>3
    <3>2. KnownIn(b, n + 1) = list \/ KnownIn(b, n + 1) = Append(list, n + 1)
      BY <2>2
    <3> HIDE DEF list, S
    <3>3. Append(list, n + 1) \in Seq(S)
      BY <3>1
    <3>4. KnownIn(b, n + 1) \in Seq(S)
      BY <3>1, <3>2, <3>3
    <3> QED
      BY <3>4 DEF S
  <2> QED
    BY <2>1, <2>4
<1>3. T \in SUBSET Nat
  OBVIOUS
<1> HIDE DEF T
<1>4. \A n \in Nat : n \in T
  BY <1>1, <1>2, <1>3, Lists!Induction
<1> QED
  BY <1>4 DEF T

-----------------------------------------------------------------------------
(* The length of a body with a list of entries.                            *)
LengthIn(b, k) == b.events[k].length
LengthsOf(b, list) == [j \in DOMAIN list |-> LengthIn(b, list[j])]
WholeIn(b, list) ==
    IF list = <<>> THEN b.header + 2
    ELSE Lengths!FoldLeft(Lengthened, b.header + 1, LengthsOf(b, list))

Images(f, s) == [j \in DOMAIN s |-> f[s[j]]]

(* A sequence of images grows with the sequence it is taken of.            *)
LEMMA ImagesOfAppend ==
    ASSUME NEW S, NEW f \in [S -> Nat], NEW list \in Seq(S), NEW k \in S
    PROVE  /\ Images(f, list) \in Seq(Nat)
           /\ Images(f, Append(list, k)) = Append(Images(f, list), f[k])
<1> DEFINE images(s) == [j \in DOMAIN s |-> f[s[j]]]
           n == Len(list)
           longer == Append(list, k)
<1>1. n \in Nat /\ DOMAIN list = 1..n /\ \A j \in 1..n : list[j] \in S
  BY ElementOfSeq
<1>2. /\ DOMAIN longer = 1..(n + 1) /\ longer[n + 1] = k
      /\ \A j \in 1..n : longer[j] = list[j]
  OBVIOUS
<1>3. images(list) \in Seq(Nat) /\ Len(images(list)) = n
  BY <1>1
<1>4. \A j \in 1..(n + 1) : longer[j] \in S
  <2>1. \A j \in 1..(n + 1) : j \in 1..n \/ j = n + 1
    BY <1>1
  <2> HIDE DEF n, longer
  <2> QED
    BY <1>1, <1>2, <2>1
<1>5. images(longer) \in Seq(Nat) /\ Len(images(longer)) = n + 1
  <2>1. n + 1 \in Nat
    BY <1>1
  <2>2. \A j \in 1..(n + 1) : f[longer[j]] \in Nat
    BY <1>4
  <2> HIDE DEF n, longer
  <2> QED
    BY <1>2, <2>1, <2>2
<1>6. /\ Append(images(list), f[k]) \in Seq(Nat) /\ Len(Append(images(list), f[k])) = n + 1
      /\ Append(images(list), f[k])[n + 1] = f[k]
      /\ \A j \in 1..n : Append(images(list), f[k])[j] = images(list)[j]
  <2> HIDE DEF images, n
  <2> QED
    BY <1>3
<1>7. \A j \in 1..(n + 1) : images(longer)[j] = Append(images(list), f[k])[j]
  <2> TAKE j \in 1..(n + 1)
  <2>1. images(longer)[j] = f[longer[j]]
    BY <1>2
  <2>2. CASE j = n + 1
    BY <1>2, <1>6, <2>1, <2>2
  <2>3. CASE j \in 1..n
    <3>1. images(list)[j] = f[list[j]]
      BY <1>1, <2>3
    <3> QED
      BY <1>2, <1>6, <2>1, <2>3, <3>1
  <2> QED
    BY <1>1, <2>2, <2>3
<1> HIDE DEF images, n, longer
<1>8. images(longer) = Append(images(list), f[k])
  BY <1>5, <1>6, <1>7, SeqEqual
<1> QED
  BY <1>3, <1>8 DEF images, n, longer, Images

LEMMA WholeOfAppend ==
    ASSUME Body!BatchBodyAssumption, NEW b \in Batches, NEW list \in Seq(1..Len(b.events)),
           NEW k \in 1..Len(b.events)
    PROVE  /\ LengthIn(b, k) \in Nat
           /\ WholeIn(b, Append(list, k))
                 = IF list = <<>> THEN b.header + 2 + LengthIn(b, k)
                   ELSE WholeIn(b, list) + 1 + LengthIn(b, k)
<1>1. b.header \in Nat /\ b.events \in Seq([length : Nat, known : BOOLEAN])
  BY DEF Body!BatchBodyAssumption
<1>2. \A j \in 1..Len(b.events) : LengthIn(b, j) \in Nat
  <2>1. \A j \in 1..Len(b.events) : b.events[j] \in [length : Nat, known : BOOLEAN]
    BY <1>1, ElementOfSeq, Zenon
  <2> QED
    BY <2>1 DEF LengthIn
<1> DEFINE s == LengthsOf(b, list)
           f == [m \in 1..Len(b.events) |-> LengthIn(b, m)]
<1>3. /\ s \in Seq(Nat) /\ LengthIn(b, k) \in Nat
      /\ LengthsOf(b, Append(list, k)) = Append(s, LengthIn(b, k))
  <2>1. f \in [1..Len(b.events) -> Nat] /\ f[k] = LengthIn(b, k)
    BY <1>2
  <2>2. \A l \in Seq(1..Len(b.events)) : LengthsOf(b, l) = Images(f, l)
    <3> TAKE l \in Seq(1..Len(b.events))
    <3>1. DOMAIN l = 1..Len(l) /\ \A j \in 1..Len(l) : l[j] \in 1..Len(b.events)
      BY ElementOfSeq
    <3> HIDE DEF LengthIn
    <3> QED
      BY <3>1 DEF LengthsOf, Images
  <2>3. Append(list, k) \in Seq(1..Len(b.events))
    OBVIOUS
  <2> HIDE DEF f, LengthIn, LengthsOf
  <2>4. /\ Images(f, list) \in Seq(Nat)
        /\ Images(f, Append(list, k)) = Append(Images(f, list), f[k])
    <3> DEFINE D == 1..Len(b.events)
    <3>1. f \in [D -> Nat] /\ list \in Seq(D) /\ k \in D
      BY <2>1
    <3> HIDE DEF D
    <3> QED
      BY <3>1, ImagesOfAppend
  <2> QED
    BY <1>2, <2>1, <2>2, <2>3, <2>4
<1> HIDE DEF s
<1>4. Lengths!FoldLeft(Lengthened, b.header + 1, Append(s, LengthIn(b, k)))
         = Lengthened(Lengths!FoldLeft(Lengthened, b.header + 1, s), LengthIn(b, k))
  BY <1>3, Lengths!FoldOfAppend
<1>5. Append(list, k) # <<>>
  OBVIOUS
<1>6. WholeIn(b, Append(list, k))
         = Lengths!FoldLeft(Lengthened, b.header + 1, s) + 1 + LengthIn(b, k)
  BY <1>3, <1>4, <1>5 DEF WholeIn, Lengthened
<1>7. CASE list = <<>>
  <2>1. s = <<>>
    BY <1>7 DEF s, LengthsOf
  <2>2. Lengths!FoldLeft(Lengthened, b.header + 1, s) = b.header + 1
    BY <2>1, Lengths!FoldOfNothing
  <2> QED
    BY <1>1, <1>3, <1>6, <1>7, <2>2 DEF WholeIn
<1>8. CASE list # <<>>
  <2>1. WholeIn(b, list) = Lengths!FoldLeft(Lengthened, b.header + 1, s)
    BY <1>8 DEF WholeIn, s
  <2> HIDE DEF WholeIn, LengthIn
  <2> QED
    BY <1>3, <1>6, <1>8, <2>1
<1> QED
  BY <1>7, <1>8

(* What an event adds to a body, and that the length of a body is a number.*)
LEMMA WholeOfNext ==
    ASSUME Body!BatchBodyAssumption, NEW b \in Batches, NEW n \in 0..(Len(b.events) - 1),
           ~Over(b, n + 1), WholeIn(b, KnownIn(b, n)) \in Nat
    PROVE  /\ KnownIn(b, n + 1) = Append(KnownIn(b, n), n + 1)
           /\ LengthIn(b, n + 1) \in Nat
           /\ WholeIn(b, KnownIn(b, n + 1))
                 = IF KnownIn(b, n) = <<>> THEN b.header + 2 + LengthIn(b, n + 1)
                   ELSE WholeIn(b, KnownIn(b, n)) + 1 + LengthIn(b, n + 1)
           /\ WholeIn(b, KnownIn(b, n)) <= WholeIn(b, KnownIn(b, n + 1))
           /\ WholeIn(b, KnownIn(b, n + 1)) \in Nat
<1> DEFINE list == KnownIn(b, n)
<1>1. /\ n \in Nat /\ n + 1 \in 1..Len(b.events) /\ Len(b.events) \in Nat
      /\ b.header \in Nat
  <2>1. b.events \in Seq([length : Nat, known : BOOLEAN]) /\ b.header \in Nat
    BY DEF Body!BatchBodyAssumption
  <2> QED
    BY <2>1
<1>2. list \in Seq(1..Len(b.events))
  <2>1. list \in Seq(1..n) /\ 1..n \subseteq 1..Len(b.events)
    BY <1>1, KnownType
  <2> QED
    BY <2>1, SeqMonotonic
<1>3. KnownIn(b, n + 1) = Append(list, n + 1)
  BY <1>1, KnownOfNext
<1>4. list = <<>> => WholeIn(b, list) = b.header + 2
  BY DEF WholeIn
<1> HIDE DEF list
<1>5. /\ LengthIn(b, n + 1) \in Nat
      /\ WholeIn(b, Append(list, n + 1))
            = IF list = <<>> THEN b.header + 2 + LengthIn(b, n + 1)
              ELSE WholeIn(b, list) + 1 + LengthIn(b, n + 1)
  BY <1>1, <1>2, WholeOfAppend
<1>6. WholeIn(b, list) \in Nat
  BY DEF list
<1> HIDE DEF WholeIn, LengthIn
<1>7. WholeIn(b, list) <= WholeIn(b, Append(list, n + 1)) /\ WholeIn(b, Append(list, n + 1)) \in Nat
  BY <1>1, <1>4, <1>5, <1>6
<1> QED
  BY <1>3, <1>5, <1>7 DEF list

LEMMA WholeType ==
    ASSUME Body!BatchBodyAssumption, NEW b \in Batches
    PROVE  \A n \in 0..Len(b.events) : WholeIn(b, KnownIn(b, n)) \in Nat
<1> DEFINE T == {n \in Nat : n <= Len(b.events) => WholeIn(b, KnownIn(b, n)) \in Nat}
<1>1. Len(b.events) \in Nat /\ b.header \in Nat
  <2>1. b.events \in Seq([length : Nat, known : BOOLEAN]) /\ b.header \in Nat
    BY DEF Body!BatchBodyAssumption
  <2> QED
    BY <2>1
<1>2. 0 \in T
  <2>1. KnownIn(b, 0) = <<>>
    BY KnownOfNone
  <2>2. WholeIn(b, <<>>) \in Nat
    BY <1>1 DEF WholeIn
  <2> QED
    BY <2>1, <2>2
<1>3. ASSUME NEW n \in T PROVE n + 1 \in T
  <2> SUFFICES ASSUME n + 1 <= Len(b.events) PROVE WholeIn(b, KnownIn(b, n + 1)) \in Nat
    OBVIOUS
  <2>1. n \in Nat /\ n \in 0..(Len(b.events) - 1) /\ WholeIn(b, KnownIn(b, n)) \in Nat
    BY <1>1
  <2>2. CASE Over(b, n + 1)
    <3>1. KnownIn(b, n + 1) = KnownIn(b, n)
      BY <2>1, <2>2, KnownOfNext
    <3> QED
      BY <2>1, <3>1
  <2>3. CASE ~Over(b, n + 1)
    BY <2>1, <2>3, WholeOfNext
  <2> QED
    BY <2>2, <2>3
<1>4. T \in SUBSET Nat
  OBVIOUS
<1> HIDE DEF T
<1>5. \A n \in Nat : n \in T
  BY <1>2, <1>3, <1>4, Lists!Induction
<1> QED
  BY <1>1, <1>5 DEF T

(* As events are looked at, the list and the body grow at their end.       *)
LEMMA KnownGrows ==
    ASSUME Body!BatchBodyAssumption, NEW b \in Batches, NEW n \in 0..Len(b.events)
    PROVE  \A m \in n..Len(b.events) :
              /\ Len(KnownIn(b, n)) <= Len(KnownIn(b, m))
              /\ \A j \in 1..Len(KnownIn(b, n)) : KnownIn(b, m)[j] = KnownIn(b, n)[j]
              /\ WholeIn(b, KnownIn(b, n)) <= WholeIn(b, KnownIn(b, m))
<1> DEFINE N == Len(b.events)
           K(m) == KnownIn(b, m)
           W(m) == WholeIn(b, K(m))
           Grown(m) == /\ Len(K(n)) <= Len(K(m))
                       /\ \A j \in 1..Len(K(n)) : K(m)[j] = K(n)[j]
                       /\ W(n) <= W(m)
           T == {m \in Nat : n <= m /\ m <= N => Grown(m)}
<1>1. N \in Nat /\ n \in Nat /\ n <= N
  <2>1. b.events \in Seq([length : Nat, known : BOOLEAN])
    BY DEF Body!BatchBodyAssumption
  <2> QED
    BY <2>1
<1>2. ASSUME NEW m \in 0..N
      PROVE  K(m) \in Seq(1..m) /\ Len(K(m)) \in Nat /\ W(m) \in Nat
  BY KnownType, WholeType
<1>3. 0 \in T
  <2>1. n <= 0 => n = 0
    BY <1>1
  <2>2. Len(K(0)) \in Nat /\ W(0) \in Nat
    BY <1>1, <1>2
  <2> HIDE DEF K, W, N
  <2>3. Grown(n)
    BY <1>1, <1>2
  <2> QED
    BY <2>1, <2>3
<1>4. ASSUME NEW m \in T PROVE m + 1 \in T
  <2> SUFFICES ASSUME n <= m + 1, m + 1 <= N PROVE Grown(m + 1)
    OBVIOUS
  <2>1. m \in Nat
    OBVIOUS
  <2>2. CASE n = m + 1
    <3>1. Len(K(n)) \in Nat /\ W(n) \in Nat
      BY <1>1, <1>2
    <3> HIDE DEF K, W, N
    <3> QED
      BY <2>2, <3>1
  <2>3. CASE n <= m
    <3>1. Grown(m) /\ m \in 0..N /\ m + 1 \in 0..N /\ n \in 0..N
      BY <1>1, <2>1, <2>3
    <3>2. K(m) \in Seq(1..m) /\ Len(K(m)) \in Nat /\ W(m) \in Nat
          /\ W(n) \in Nat /\ Len(K(n)) \in Nat /\ W(m + 1) \in Nat
      BY <1>2, <3>1
    <3>3. K(m + 1) = IF Over(b, m + 1) THEN K(m) ELSE Append(K(m), m + 1)
      BY <2>1, KnownOfNext
    <3>4. ASSUME ~Over(b, m + 1) PROVE W(m) <= W(m + 1)
      <4>1. m \in 0..(Len(b.events) - 1) /\ WholeIn(b, KnownIn(b, m)) \in Nat
        BY <1>1, <2>1, <3>1, <3>2
      <4> QED
        BY <3>4, <4>1, WholeOfNext, Zenon
    <3> DEFINE longer == Append(K(m), m + 1)
    <3>5. Len(longer) = Len(K(m)) + 1 /\ \A j \in 1..Len(K(m)) : longer[j] = K(m)[j]
      <4> HIDE DEF K
      <4> QED
        BY <3>2
    <3>6. \A j \in 1..Len(K(n)) : j \in 1..Len(K(m))
      <4> HIDE DEF K, W, N
      <4> QED
        BY <3>1, <3>2
    <3>7. CASE Over(b, m + 1)
      <4>1. K(m + 1) = K(m)
        BY <3>3, <3>7
      <4> HIDE DEF K
      <4> QED
        BY <3>1, <4>1
    <3>8. CASE ~Over(b, m + 1)
      <4>1. K(m + 1) = longer /\ W(m) <= W(m + 1)
        BY <3>3, <3>4, <3>8
      <4> HIDE DEF K, W, longer, Over
      <4> QED
        BY <3>1, <3>2, <3>5, <3>6, <4>1
    <3> QED
      BY <3>7, <3>8
  <2> QED
    BY <1>1, <2>1, <2>2, <2>3
<1>5. T \in SUBSET Nat
  OBVIOUS
<1> HIDE DEF T
<1>6. \A m \in Nat : m \in T
  BY <1>3, <1>4, <1>5, Lists!Induction
<1> QED
  <2> SUFFICES ASSUME NEW m \in n..N PROVE Grown(m)
    OBVIOUS
  <2>1. m \in Nat /\ n <= m /\ m <= N
    BY <1>1
  <2>2. m \in T
    BY <1>6, <2>1
  <2> HIDE DEF Grown, N
  <2> QED
    BY <2>1, <2>2 DEF T

-----------------------------------------------------------------------------
(* A list of entries with separators between them.                         *)
Woven(list) ==
    [k \in 1..(2 * Len(list) - 1) |-> IF k % 2 = 0 THEN 0 ELSE list[(k + 1) \div 2]]

LEMMA WovenOfAppend ==
    ASSUME NEW list \in Seq(Nat), NEW x \in Nat
    PROVE  /\ Woven(<<>>) = <<>>
           /\ Woven(list) \in Seq(Nat)
           /\ Woven(Append(list, x)) = Woven(list) \o (IF list = <<>> THEN <<>> ELSE <<0>>) \o <<x>>
<1> DEFINE n == Len(list)
           longer == Append(list, x)
           between == IF list = <<>> THEN <<>> ELSE <<0>>
           size == IF n = 0 THEN 0 ELSE 2 * n - 1
<1>1. Woven(<<>>) = <<>>
  <2>1. Len(<<>>) = 0 /\ 2 * 0 - 1 = -1 /\ 1..(-1) = {}
    OBVIOUS
  <2> QED
    BY <2>1 DEF Woven
<1>2. /\ n \in Nat /\ (n = 0 <=> list = <<>>) /\ \A j \in 1..n : list[j] \in Nat
      /\ Len(longer) = n + 1 /\ longer[n + 1] = x /\ \A j \in 1..n : longer[j] = list[j]
      /\ longer \in Seq(Nat)
  OBVIOUS
<1> HIDE DEF n, longer
<1>3. ASSUME NEW s \in Seq(Nat), NEW m \in Nat, Len(s) = m
      PROVE  /\ Woven(s) \in Seq(Nat) /\ Len(Woven(s)) = IF m = 0 THEN 0 ELSE 2 * m - 1
             /\ \A k \in 1..(2 * m - 1) : Woven(s)[k] = IF k % 2 = 0 THEN 0 ELSE s[(k + 1) \div 2]
  <2> DEFINE e(k) == IF k % 2 = 0 THEN 0 ELSE s[(k + 1) \div 2]
             top == IF m = 0 THEN 0 ELSE 2 * m - 1
  <2>1. 1..(2 * m - 1) = 1..top /\ top \in Nat
    OBVIOUS
  <2>2. \A k \in 1..top : k % 2 # 0 => (k + 1) \div 2 \in 1..m
    OBVIOUS
  <2>3. \A k \in 1..m : s[k] \in Nat
    BY <1>3
  <2>4. \A k \in 1..top : e(k) \in Nat
    BY <2>2, <2>3
  <2>5. Woven(s) = [k \in 1..top |-> e(k)]
    BY <1>3, <2>1 DEF Woven
  <2> HIDE DEF e, top
  <2>6. Woven(s) \in Seq(Nat) /\ Len(Woven(s)) = top /\ \A k \in 1..top : Woven(s)[k] = e(k)
    BY <2>1, <2>4, <2>5
  <2> QED
    BY <2>1, <2>6 DEF e, top
<1>4. /\ Woven(list) \in Seq(Nat) /\ Len(Woven(list)) = size
      /\ \A k \in 1..(2 * n - 1) : Woven(list)[k] = IF k % 2 = 0 THEN 0 ELSE list[(k + 1) \div 2]
  BY <1>2, <1>3 DEF n
<1>5. /\ Woven(longer) \in Seq(Nat) /\ Len(Woven(longer)) = 2 * n + 1
      /\ \A k \in 1..(2 * n + 1) :
            Woven(longer)[k] = IF k % 2 = 0 THEN 0 ELSE longer[(k + 1) \div 2]
  <2>1. n + 1 \in Nat /\ n + 1 # 0 /\ 2 * (n + 1) - 1 = 2 * n + 1
    BY <1>2
  <2> QED
    BY <1>2, <1>3, <2>1
<1> DEFINE t == Woven(list) \o between \o <<x>>
<1>6. /\ t \in Seq(Nat) /\ Len(t) = 2 * n + 1
      /\ \A k \in 1..(2 * n + 1) : t[k] = IF k = 2 * n + 1 THEN x
                                          ELSE IF k = 2 * n THEN 0 ELSE Woven(list)[k]
  <2> DEFINE w == Woven(list)
  <2>1. w \in Seq(Nat) /\ Len(w) = size
    BY <1>4
  <2> HIDE DEF w
  <2>2. CASE list = <<>>
    BY <1>2, <2>1, <2>2 DEF w
  <2>3. CASE list # <<>>
    <3>1. t = w \o <<0>> \o <<x>> /\ n \in Nat /\ n # 0 /\ Len(w) = 2 * n - 1
      BY <1>2, <2>1, <2>3 DEF w
    <3>2. /\ t \in Seq(Nat) /\ Len(t) = Len(w) + 2
          /\ t[Len(w) + 1] = 0 /\ t[Len(w) + 2] = x
          /\ \A k \in 1..Len(w) : t[k] = w[k]
      <4> DEFINE v == w \o <<0>>
      <4>1. /\ v \in Seq(Nat) /\ Len(v) = Len(w) + 1 /\ v[Len(w) + 1] = 0
            /\ \A k \in 1..Len(w) : v[k] = w[k]
        BY <2>1
      <4>2. t = v \o <<x>>
        BY <3>1
      <4> HIDE DEF v, t
      <4>3. /\ t \in Seq(Nat) /\ Len(t) = Len(v) + 1 /\ t[Len(v) + 1] = x
            /\ \A k \in 1..Len(v) : t[k] = v[k]
        BY <4>1, <4>2
      <4>4. /\ Len(w) \in Nat /\ Len(w) + 1 \in 1..Len(v)
            /\ \A k \in 1..Len(w) : k \in 1..Len(v)
        BY <2>1, <4>1
      <4>5. t \in Seq(Nat) /\ Len(t) = Len(w) + 2 /\ t[Len(w) + 2] = x
        BY <4>1, <4>3, <4>4
      <4>6. t[Len(w) + 1] = 0
        BY <4>1, <4>3, <4>4
      <4>7. \A k \in 1..Len(w) : t[k] = w[k]
        BY <4>1, <4>3, <4>4
      <4> QED
        BY <4>5, <4>6, <4>7
    <3> HIDE DEF t
    <3>3. Len(w) + 2 = 2 * n + 1 /\ Len(w) + 1 = 2 * n
      BY <3>1
    <3>4. \A k \in 1..(2 * n + 1) : k = 2 * n + 1 \/ k = 2 * n \/ k \in 1..Len(w)
      BY <3>1
    <3>5. \A k \in 1..Len(w) : k # 2 * n /\ k # 2 * n + 1
      BY <3>1
    <3> QED
      BY <3>2, <3>3, <3>4, <3>5 DEF w
  <2> QED
    BY <2>2, <2>3
<1> HIDE DEF t
<1>7. \A k \in 1..(2 * n + 1) : Woven(longer)[k] = t[k]
  <2> TAKE k \in 1..(2 * n + 1)
  <2>1. CASE k = 2 * n + 1
    <3>1. k % 2 # 0 /\ (k + 1) \div 2 = n + 1
      BY <1>2, <2>1
    <3> QED
      BY <1>2, <1>5, <1>6, <2>1, <3>1
  <2>2. CASE k = 2 * n
    <3>1. k % 2 = 0 /\ k # 2 * n + 1
      BY <1>2, <2>2
    <3> QED
      BY <1>5, <1>6, <2>2, <3>1
  <2>3. CASE k \in 1..(2 * n - 1)
    <3>1. k # 2 * n /\ k # 2 * n + 1 /\ (k % 2 # 0 => (k + 1) \div 2 \in 1..n)
      BY <1>2, <2>3
    <3>2. t[k] = Woven(list)[k]
      BY <1>6, <3>1
    <3>3. Woven(list)[k] = IF k % 2 = 0 THEN 0 ELSE list[(k + 1) \div 2]
      BY <1>4, <2>3
    <3>4. Woven(longer)[k] = IF k % 2 = 0 THEN 0 ELSE longer[(k + 1) \div 2]
      BY <1>5
    <3>5. k % 2 # 0 => longer[(k + 1) \div 2] = list[(k + 1) \div 2]
      BY <1>2, <3>1
    <3> QED
      BY <3>2, <3>3, <3>4, <3>5
  <2>4. k = 2 * n + 1 \/ k = 2 * n \/ k \in 1..(2 * n - 1)
    BY <1>2
  <2> QED
    BY <2>1, <2>2, <2>3, <2>4
<1>8. Woven(longer) = t
  BY <1>5, <1>6, <1>7, SeqEqual
<1> QED
  BY <1>1, <1>4, <1>8 DEF longer, t, between

-----------------------------------------------------------------------------
(* What the model has of a batch.                                          *)
LEMMA OfBatch ==
    ASSUME Body!BatchBodyAssumption, batch \in Batches
    PROVE  /\ BodySize \in Nat /\ Len(batch.events) \in Nat /\ batch.header \in Nat
           /\ Reserve[batch.kind] \in Nat /\ Reserve[batch.kind] >= 2
           /\ Body!Known = KnownIn(batch, Len(batch.events))
           /\ \A k \in 1..Len(batch.events) :
                 /\ Body!Skipped(batch.events[k]) <=> Over(batch, k)
                 /\ Body!Length(k) = LengthIn(batch, k)
           /\ \A list \in Seq(1..Len(batch.events)) : Body!Whole(list) = WholeIn(batch, list)
<1>1. /\ BodySize \in Nat /\ batch.header \in Nat
      /\ batch.events \in Seq([length : Nat, known : BOOLEAN])
      /\ Reserve[batch.kind] \in Nat /\ Reserve[batch.kind] >= 2
  BY DEF Body!BatchBodyAssumption
<1>2. DOMAIN batch.events = 1..Len(batch.events) /\ Len(batch.events) \in Nat
  BY <1>1
<1>3. \A k \in 1..Len(batch.events) : /\ Body!Skipped(batch.events[k]) <=> Over(batch, k)
                                      /\ Body!Length(k) = LengthIn(batch, k)
  BY DEF Body!Skipped, Over, Body!Length, LengthIn
<1>4. Body!Known = KnownIn(batch, Len(batch.events))
  <2>1. [k \in DOMAIN batch.events |-> IF Body!Skipped(batch.events[k]) THEN 0 ELSE k]
           = Marks(batch, Len(batch.events))
    BY <1>2, <1>3 DEF Marks, Mark
  <2> QED
    BY <2>1 DEF Body!Known, KnownIn
<1>5. ASSUME NEW list \in Seq(1..Len(batch.events)) PROVE Body!Whole(list) = WholeIn(batch, list)
  <2>1. [j \in DOMAIN list |-> Body!Length(list[j])] = LengthsOf(batch, list)
    <3>1. DOMAIN list = 1..Len(list) /\ \A j \in 1..Len(list) : list[j] \in 1..Len(batch.events)
      BY ElementOfSeq
    <3> HIDE DEF Body!Length, LengthIn
    <3> QED
      BY <1>3, <3>1 DEF LengthsOf
  <2> DEFINE s == LengthsOf(batch, list)
  <2>2. Body!Whole(list) = IF list = <<>> THEN batch.header + 2
                      ELSE Body!FoldLeft(LAMBDA n, length : n + 1 + length, batch.header + 1, s)
    BY <2>1 DEF Body!Whole
  <2> HIDE DEF s
  <2>3. Body!FoldLeft(LAMBDA n, length : n + 1 + length, batch.header + 1, s)
           = Lengths!FoldLeft(Lengthened, batch.header + 1, s)
    BY DEF Lengthened, Body!FoldLeft, Body!MapThenFoldSet, Body!Max,
           Lengths!FoldLeft, Lengths!MapThenFoldSet, Lengths!Max
  <2> QED
    BY <2>2, <2>3 DEF WholeIn, s
<1> QED
  BY <1>1, <1>2, <1>3, <1>4, <1>5

-----------------------------------------------------------------------------
(* The events with an entry, and the length of a body with those entries.  *)
Taken == KnownIn(batch, b_i)
Closed == WholeIn(batch, Taken)

(* No further event got an entry: there is none, or it found no room.      *)
Full ==
    \/ b_i = Len(batch.events)
    \/ /\ b_i < Len(batch.events) /\ ~Over(batch, b_i + 1)
       /\ \/ Closed - 2 + Reserve[batch.kind] >= BodySize
          \/ WholeIn(batch, KnownIn(batch, b_i + 1)) - 2 >= BodySize

(* A body is the events taken, woven, and has their length; the last entry *)
(* began where the reserve was still free.                                 *)
Composed ==
    /\ b_body = Woven(Taken) /\ Body!Entries = Taken
    /\ b_pos = IF b_at = "posted" THEN Closed ELSE Closed - 2
    /\ Taken # <<>> =>
          Closed < BodySize - Reserve[batch.kind] + 3 + LengthIn(batch, Taken[Len(Taken)])

(* What CutsOnlyTheTail says of a batch that is refused.                   *)
Hopeless ==
    \/ Body!Known = <<>> \/ batch.header + Reserve[batch.kind] >= BodySize
    \/ \E k \in DOMAIN Body!Known : Body!Length(Body!Known[k]) + 3 > Reserve[batch.kind]

BodyInv ==
    /\ Body!TypeOK
    /\ b_at = "header" => b_i = 0 /\ b_body = <<>> /\ b_pos = 0
    /\ b_at \in {"entries", "closing", "posted"} => Composed
    /\ b_at \in {"closing", "posted"} => Full
    /\ b_at = "refused" => Hopeless

-----------------------------------------------------------------------------
(* What is known of the events taken.                                      *)
LEMMA OfTaken ==
    ASSUME Body!BatchBodyAssumption, batch \in Batches, b_i \in 0..Len(batch.events)
    PROVE  /\ Taken \in Seq(1..Len(batch.events)) /\ Taken \in Seq(Nat)
           /\ Len(Taken) \in Nat /\ (Taken = <<>> <=> Len(Taken) = 0)
           /\ Closed \in Nat /\ Closed >= 2
           /\ Taken = <<>> => Closed = batch.header + 2
           /\ Body!Known \in Seq(1..Len(batch.events)) /\ Len(Body!Known) \in Nat
           /\ Len(Taken) <= Len(Body!Known)
           /\ \A j \in 1..Len(Taken) : Body!Known[j] = Taken[j]
           /\ Closed <= Body!Whole(Body!Known)
<1> DEFINE N == Len(batch.events)
<1>1. /\ N \in Nat /\ b_i \in Nat /\ b_i <= N /\ N \in b_i..N /\ Body!Known = KnownIn(batch, N)
      /\ batch.header \in Nat /\ b_i \in 0..N /\ N \in 0..N /\ 0 \in 0..N /\ b_i \in 0..b_i
  BY OfBatch
<1>2. Taken \in Seq(1..b_i) /\ Body!Known \in Seq(1..N)
  BY <1>1, KnownType DEF Taken
<1>3. 1..b_i \subseteq 1..N /\ 1..N \subseteq Nat
  BY <1>1
<1>4. Taken \in Seq(1..N) /\ Taken \in Seq(Nat)
  BY <1>2, <1>3, SeqMonotonic, Zenon
<1>5. Body!Whole(Body!Known) = WholeIn(batch, KnownIn(batch, N))
  BY <1>1, <1>2, OfBatch
<1>6. /\ Len(Taken) <= Len(Body!Known) /\ \A j \in 1..Len(Taken) : Body!Known[j] = Taken[j]
      /\ Closed <= Body!Whole(Body!Known)
  BY <1>1, <1>5, KnownGrows DEF Taken, Closed
<1>7. Closed \in Nat
  BY <1>1, WholeType DEF Taken, Closed
<1>8. WholeIn(batch, KnownIn(batch, 0)) <= Closed
  <2>1. b_i \in 0..N /\ 0 \in 0..Len(batch.events)
    BY <1>1
  <2> QED
    BY <2>1, KnownGrows DEF Taken, Closed
<1>9. WholeIn(batch, KnownIn(batch, 0)) = batch.header + 2
  BY KnownOfNone DEF WholeIn
<1>10. Taken = <<>> => Closed = batch.header + 2
  BY DEF WholeIn, Closed
<1>11. Len(Taken) \in Nat /\ (Taken = <<>> <=> Len(Taken) = 0) /\ Len(Body!Known) \in Nat
  BY <1>2, <1>4
<1> HIDE DEF N
<1>12. Closed >= 2
  BY <1>1, <1>7, <1>8, <1>9
<1> QED
  BY <1>2, <1>4, <1>6, <1>7, <1>10, <1>11, <1>12 DEF N

(* When no further event got an entry, a body is complete if it could be,  *)
(* and empty only if no entry could be in it.                              *)
LEMMA WhenFull ==
    ASSUME Body!BatchBodyAssumption, batch \in Batches, b_i \in 0..Len(batch.events), Full
    PROVE  /\ Body!Whole(Body!Known) < BodySize - Reserve[batch.kind] => Taken = Body!Known
           /\ Taken = <<>> =>
                 \/ Body!Known = <<>> \/ batch.header + Reserve[batch.kind] >= BodySize
                 \/ Body!Known # <<>> /\ Body!Length(Body!Known[1]) >= Reserve[batch.kind]
<1> DEFINE N == Len(batch.events)
           R == Reserve[batch.kind]
<1>1. /\ N \in Nat /\ b_i \in Nat /\ b_i <= N /\ Body!Known = KnownIn(batch, N) /\ BodySize \in Nat
      /\ batch.header \in Nat /\ R \in Nat /\ R >= 2
      /\ \A k \in 1..N : Body!Length(k) = LengthIn(batch, k)
  BY OfBatch
<1>2. CASE b_i = N
  BY <1>1, <1>2 DEF Taken
<1>3. CASE b_i # N
  <2> DEFINE next == KnownIn(batch, b_i + 1)
             W == WholeIn(batch, next)
  <2>1. /\ b_i + 1 \in 1..N /\ b_i + 1 \in 0..N /\ N \in (b_i + 1)..N /\ b_i \in 0..(N - 1)
        /\ ~Over(batch, b_i + 1)
        /\ Closed - 2 + R >= BodySize \/ W - 2 >= BodySize
    BY <1>1, <1>3 DEF Full
  <2>2. Closed \in Nat /\ Closed <= Body!Whole(Body!Known) /\ Body!Known \in Seq(1..N)
        /\ (Taken = <<>> => Closed = batch.header + 2)
    BY OfTaken
  <2>3. WholeIn(batch, Taken) \in Nat
    BY <2>2 DEF Closed
  <2>4. /\ next = Append(Taken, b_i + 1) /\ W \in Nat /\ LengthIn(batch, b_i + 1) \in Nat
        /\ W = IF Taken = <<>> THEN batch.header + 2 + LengthIn(batch, b_i + 1)
               ELSE Closed + 1 + LengthIn(batch, b_i + 1)
    BY <2>1, <2>3, WholeOfNext DEF Taken, Closed
  <2>5. /\ Len(next) <= Len(Body!Known) /\ \A j \in 1..Len(next) : Body!Known[j] = next[j]
        /\ W <= WholeIn(batch, Body!Known)
    BY <1>1, <2>1, KnownGrows
  <2>6. WholeIn(batch, Body!Known) = Body!Whole(Body!Known)
    BY <2>2, OfBatch
  <2>7. WholeIn(batch, Body!Known) \in Nat
    <3>1. N \in 0..N
      BY <1>1
    <3> QED
      BY <1>1, <3>1, WholeType
  <2>8. Taken = <<>> => Body!Known # <<>> /\ Body!Known[1] = b_i + 1
    <3> SUFFICES ASSUME Taken = <<>> PROVE Body!Known # <<>> /\ Body!Known[1] = b_i + 1
      OBVIOUS
    <3>1. next = <<b_i + 1>>
      BY <2>4
    <3>2. Len(next) = 1 /\ next[1] = b_i + 1
      BY <3>1
    <3>3. 1 <= Len(Body!Known) /\ Body!Known[1] = b_i + 1
      BY <2>5, <3>2
    <3> QED
      BY <3>3
  <2>9. Body!Length(b_i + 1) = LengthIn(batch, b_i + 1)
    BY <1>1, <2>1
  <2> HIDE DEF N, R, W, next
  <2>10. Body!Whole(Body!Known) \in Nat /\ W <= Body!Whole(Body!Known) /\ Closed <= Body!Whole(Body!Known)
    BY <2>2, <2>5, <2>6, <2>7
  <2>11. W \in Nat /\ Closed \in Nat /\ BodySize \in Nat /\ R \in Nat
    BY <1>1, <2>2, <2>4
  <2>12. Closed - 2 + R >= BodySize \/ W - 2 >= BodySize
    BY <2>1
  <2>13. Body!Whole(Body!Known) >= BodySize - R
    BY <2>10, <2>11, <2>12
  <2>14. ASSUME Taken = <<>> PROVE batch.header + R >= BodySize \/ Body!Length(b_i + 1) >= R
    BY <1>1, <2>1, <2>2, <2>4, <2>9, <2>14
  <2>15. ~(Body!Whole(Body!Known) < BodySize - R)
    BY <2>13, <2>10, <2>11
  <2> QED
    BY <2>8, <2>14, <2>15 DEF R
<1> QED
  BY <1>2, <1>3

-----------------------------------------------------------------------------
(* What an event that is not passed over adds: whether it is the first one,*)
(* its length, and where it ends.                                          *)
LEMMA OfUpcoming ==
    ASSUME Body!BatchBodyAssumption, BodyInv, b_at = "entries", b_i < Len(batch.events), ~Body!Skipped(Body!Upcoming)
    PROVE  /\ Body!First <=> Taken = <<>>
           /\ b_i + 1 \in 1..Len(batch.events) /\ b_i \in Nat
           /\ KnownIn(batch, b_i + 1) = Append(Taken, b_i + 1)
           /\ LengthIn(batch, b_i + 1) \in Nat /\ Body!Upcoming.length = LengthIn(batch, b_i + 1)
           /\ Body!Written(Body!Upcoming) \in Nat /\ Body!Written(Body!Upcoming) <= 1 + LengthIn(batch, b_i + 1)
           /\ WholeIn(batch, KnownIn(batch, b_i + 1)) - 2 = b_pos + Body!Written(Body!Upcoming)
           /\ ~Over(batch, b_i + 1)
           /\ b_pos \in Nat /\ BodySize \in Nat /\ Reserve[batch.kind] \in Nat
<1>1. /\ batch \in Batches /\ b_i \in 0..Len(batch.events) /\ Composed /\ b_pos \in 0..(BodySize - 1)
  BY DEF BodyInv, Body!TypeOK
<1>2. /\ BodySize \in Nat /\ Len(batch.events) \in Nat /\ batch.header \in Nat
      /\ Reserve[batch.kind] \in Nat
      /\ \A k \in 1..Len(batch.events) :
            /\ Body!Skipped(batch.events[k]) <=> Over(batch, k)
            /\ Body!Length(k) = LengthIn(batch, k)
  BY <1>1, OfBatch
<1>3. b_i + 1 \in 1..Len(batch.events) /\ b_i \in 0..(Len(batch.events) - 1) /\ b_i \in Nat
  BY <1>1, <1>2
<1>4. ~Over(batch, b_i + 1) /\ Body!Upcoming.length = LengthIn(batch, b_i + 1)
  BY <1>2, <1>3 DEF Body!Upcoming, LengthIn
<1>5. Closed \in Nat /\ (Taken = <<>> => Closed = batch.header + 2)
  BY <1>1, OfTaken
<1>6. /\ KnownIn(batch, b_i + 1) = Append(Taken, b_i + 1)
      /\ LengthIn(batch, b_i + 1) \in Nat
      /\ WholeIn(batch, KnownIn(batch, b_i + 1))
            = IF Taken = <<>> THEN batch.header + 2 + LengthIn(batch, b_i + 1)
              ELSE Closed + 1 + LengthIn(batch, b_i + 1)
  BY <1>1, <1>3, <1>4, <1>5, WholeOfNext DEF Taken, Closed
<1>7. Body!First <=> Taken = <<>>
  <2>1. CASE batch.kind = "forensics"
    BY <1>1, <2>1 DEF Body!First, Composed
  <2>2. CASE batch.kind # "forensics" /\ b_i = 0
    BY <2>2, KnownOfNone DEF Body!First, Taken
  <2>3. CASE batch.kind # "forensics" /\ b_i # 0
    <3>1. b_i - 1 \in Nat /\ (b_i - 1) + 1 = b_i
      BY <1>1, <2>3
    <3>2. ~Over(batch, b_i)
      BY <2>3 DEF Over
    <3>3. Taken = Append(KnownIn(batch, b_i - 1), b_i)
      BY <3>1, <3>2, KnownOfNext DEF Taken
    <3>4. KnownIn(batch, b_i - 1) \in Seq(1..(b_i - 1))
      BY <3>1, KnownType
    <3>5. Taken # <<>>
      <4> DEFINE list == KnownIn(batch, b_i - 1)
      <4>1. list \in Seq(1..(b_i - 1)) /\ Taken = Append(list, b_i)
        BY <3>3, <3>4
      <4> HIDE DEF list
      <4> QED
        BY <4>1
    <3> QED
      BY <2>3, <3>5 DEF Body!First
  <2> QED
    BY <2>1, <2>2, <2>3
<1>8. b_pos = Closed - 2
  BY <1>1 DEF Composed
<1>9. Body!Written(Body!Upcoming) = (IF Taken = <<>> THEN 0 ELSE 1) + LengthIn(batch, b_i + 1)
  BY <1>4, <1>7 DEF Body!Written
<1>10. /\ Body!Written(Body!Upcoming) \in Nat /\ Body!Written(Body!Upcoming) <= 1 + LengthIn(batch, b_i + 1)
       /\ WholeIn(batch, KnownIn(batch, b_i + 1)) - 2 = b_pos + Body!Written(Body!Upcoming)
  <2> DEFINE W == WholeIn(batch, KnownIn(batch, b_i + 1))
             w == Body!Written(Body!Upcoming)
             l == LengthIn(batch, b_i + 1)
             h == batch.header
  <2>1. h \in Nat /\ l \in Nat
    BY <1>2, <1>6
  <2>2. CASE Taken = <<>>
    <3>1. W = h + 2 + l /\ w = 0 + l /\ b_pos = h
      <4>1. W = h + 2 + l
        BY <1>6, <2>2
      <4>2. w = 0 + l
        BY <1>9, <2>2
      <4>3. b_pos = h
        BY <1>2, <1>5, <1>8, <2>2
      <4> QED
        BY <4>1, <4>2, <4>3
    <3> HIDE DEF W, w, l, h
    <3>2. w \in Nat /\ w <= 1 + l /\ W - 2 = b_pos + w
      BY <2>1, <3>1
    <3> QED
      BY <3>2 DEF W, w, l
  <2>3. CASE Taken # <<>>
    <3>1. W = Closed + 1 + l /\ w = 1 + l /\ b_pos = Closed - 2 /\ Closed \in Nat
      BY <1>5, <1>6, <1>8, <1>9, <2>3
    <3> HIDE DEF W, w, l, h
    <3>2. w \in Nat /\ w <= 1 + l /\ W - 2 = b_pos + w
      BY <2>1, <3>1
    <3> QED
      BY <3>2 DEF W, w, l
  <2> QED
    BY <2>2, <2>3
<1> QED
  BY <1>1, <1>2, <1>3, <1>4, <1>6, <1>7, <1>10

(* A batch of which nothing is known anew stays hopeless.                  *)
LEMMA KnownStays ==
    ASSUME batch' = batch
    PROVE  /\ Body!Known' = Body!Known /\ (Hopeless <=> Hopeless')
           /\ \A k : Body!Length(k)' = Body!Length(k)
BY DEF Body!Known, Body!Skipped, Body!Length, Hopeless

LEMMA HeaderKeeps == Body!BatchBodyAssumption /\ BodyInv /\ Body!Header => BodyInv'
<1> SUFFICES ASSUME Body!BatchBodyAssumption, BodyInv, Body!Header PROVE BodyInv'
  OBVIOUS
<1>1. /\ batch \in Batches /\ b_at = "header" /\ b_i = 0 /\ b_body = <<>> /\ b_pos = 0 /\ Body!TypeOK
      /\ batch' = batch /\ b_i' = 0 /\ b_body' = <<>>
  BY DEF BodyInv, Body!TypeOK, Body!Header
<1>2. /\ BodySize \in Nat /\ Len(batch.events) \in Nat /\ batch.header \in Nat
      /\ Reserve[batch.kind] \in Nat /\ Body!Known = KnownIn(batch, Len(batch.events))
  BY <1>1, OfBatch
<1>3. CASE b_at' = "entries"
  <2>1. b_pos' = batch.header /\ batch.header < BodySize
    BY <1>1, <1>2, <1>3 DEF Body!Header, Body!Fits
  <2>2. Body!TypeOK'
    BY <1>1, <1>2, <1>3, <2>1 DEF Body!TypeOK
  <2>3. Taken' = <<>> /\ Closed' = batch.header + 2
    BY <1>1, KnownOfNone DEF Taken, Closed, WholeIn
  <2>4. b_body' = Woven(<<>>) /\ Body!Entries' = <<>>
    <3>1. <<>> \in Seq(Nat) /\ 0 \in Nat
      OBVIOUS
    <3> QED
      BY <1>1, <3>1, WovenOfAppend, NumberedOfNothing DEF Body!Entries
  <2>5. Composed'
    BY <1>2, <1>3, <2>1, <2>3, <2>4 DEF Composed
  <2> QED
    BY <1>3, <2>2, <2>5 DEF BodyInv
<1>4. CASE b_at' = "refused" /\ b_pos' = b_pos /\ ~(batch.events # <<>> /\ Body!Fits(batch.header))
  <2>1. Body!TypeOK'
    BY <1>1, <1>4 DEF Body!TypeOK
  <2>2. CASE batch.events = <<>>
    <3>1. Body!Known = <<>>
      BY <1>2, <2>2, KnownOfNone
    <3> QED
      BY <1>1, <1>4, <2>1, <3>1, KnownStays DEF BodyInv, Hopeless
  <2>3. CASE ~Body!Fits(batch.header)
    <3>1. batch.header + Reserve[batch.kind] >= BodySize
      BY <1>1, <1>2, <2>3 DEF Body!Fits
    <3> QED
      BY <1>1, <1>4, <2>1, <3>1, KnownStays DEF BodyInv, Hopeless
  <2> QED
    BY <1>4, <2>2, <2>3
<1> QED
  BY <1>3, <1>4 DEF Body!Header

LEMMA SkipKeeps == Body!BatchBodyAssumption /\ BodyInv /\ Body!Skip => BodyInv'
<1> SUFFICES ASSUME Body!BatchBodyAssumption, BodyInv, Body!Skip PROVE BodyInv'
  OBVIOUS
<1>1. /\ batch \in Batches /\ b_at = "entries" /\ b_i \in 0..Len(batch.events)
      /\ b_i < Len(batch.events) /\ Body!TypeOK /\ Composed
      /\ b_i' = b_i + 1 /\ batch' = batch /\ b_at' = b_at /\ b_body' = b_body /\ b_pos' = b_pos
      /\ Body!Skipped(batch.events[b_i + 1])
  BY DEF BodyInv, Body!TypeOK, Body!Skip, Body!Upcoming
<1>2. Len(batch.events) \in Nat /\ b_i + 1 \in 1..Len(batch.events) /\ b_i \in Nat
  BY <1>1, OfBatch
<1>3. Over(batch, b_i + 1)
  BY <1>1, <1>2, OfBatch
<1>4. Taken' = Taken
  BY <1>1, <1>2, <1>3, KnownOfNext DEF Taken
<1>5. Closed' = Closed
  BY <1>1, <1>4 DEF Closed
<1>6. Composed'
  BY <1>1, <1>4, <1>5 DEF Composed, Body!Entries
<1>7. Body!TypeOK'
  BY <1>1, <1>2 DEF Body!TypeOK
<1> QED
  BY <1>1, <1>6, <1>7 DEF BodyInv

LEMMA EntryKeeps == Body!BatchBodyAssumption /\ BodyInv /\ Body!Entry => BodyInv'
<1> SUFFICES ASSUME Body!BatchBodyAssumption, BodyInv, Body!Entry PROVE BodyInv'
  OBVIOUS
<1>1. /\ batch \in Batches /\ b_at = "entries" /\ b_i \in 0..Len(batch.events)
      /\ b_i < Len(batch.events) /\ Body!TypeOK /\ Composed /\ ~Body!Skipped(Body!Upcoming)
      /\ b_i' = b_i + 1 /\ batch' = batch /\ b_at' = b_at /\ b_pos' = b_pos + Body!Written(Body!Upcoming)
      /\ b_body' = b_body \o (IF Body!First THEN <<>> ELSE <<0>>) \o <<b_i + 1>>
      /\ b_pos + Reserve[batch.kind] < BodySize /\ Body!Written(Body!Upcoming) < BodySize - b_pos
  BY DEF BodyInv, Body!TypeOK, Body!Entry, Body!Separator, Body!Reserved, Body!Fits
<1>2. /\ Body!First <=> Taken = <<>>
      /\ b_i + 1 \in 1..Len(batch.events) /\ b_i \in Nat
      /\ KnownIn(batch, b_i + 1) = Append(Taken, b_i + 1)
      /\ LengthIn(batch, b_i + 1) \in Nat
      /\ Body!Written(Body!Upcoming) \in Nat /\ Body!Written(Body!Upcoming) <= 1 + LengthIn(batch, b_i + 1)
      /\ WholeIn(batch, KnownIn(batch, b_i + 1)) - 2 = b_pos + Body!Written(Body!Upcoming)
      /\ b_pos \in Nat /\ BodySize \in Nat /\ Reserve[batch.kind] \in Nat
  BY <1>1, OfUpcoming
<1>3. Taken' = Append(Taken, b_i + 1) /\ Closed' = WholeIn(batch, KnownIn(batch, b_i + 1))
  BY <1>1, <1>2 DEF Taken, Closed
<1>4. Taken \in Seq(Nat) /\ b_i + 1 \in Nat
  BY <1>1, <1>2, OfTaken
<1>5. b_body' = Woven(Taken')
  <2>1. b_body = Woven(Taken)
    BY <1>1 DEF Composed
  <2> HIDE DEF Body!First
  <2>2. b_body' = Woven(Taken) \o (IF Taken = <<>> THEN <<>> ELSE <<0>>) \o <<b_i + 1>>
    BY <1>1, <1>2, <2>1
  <2> HIDE DEF Taken
  <2>3. Woven(Append(Taken, b_i + 1))
           = Woven(Taken) \o (IF Taken = <<>> THEN <<>> ELSE <<0>>) \o <<b_i + 1>>
    BY <1>4, WovenOfAppend
  <2> QED
    BY <1>3, <2>2, <2>3
<1>6. \A list \in Seq(Nat) : Body!Numbered(Append(list, b_i + 1)) = Append(Body!Numbered(list), b_i + 1)
  <2> DEFINE k == b_i + 1
  <2>1. k \in Nat /\ k # 0
    BY <1>2
  <2> HIDE DEF k
  <2>2. \A list \in Seq(Nat) : Body!Numbered(Append(list, k)) = Append(Body!Numbered(list), k)
    <3> TAKE list \in Seq(Nat)
    <3>1. Body!Numbered(Append(list, k)) = IF k = 0 THEN Body!Numbered(list) ELSE Append(Body!Numbered(list), k)
      BY <2>1, NumberedOfAppend
    <3> QED
      BY <2>1, <3>1
  <2> QED
    BY <2>2 DEF k
<1>7. Body!Entries' = Taken'
  <2>1. b_body \in Seq(Nat) /\ Body!Numbered(b_body) = Taken
    <3>1. b_body = Woven(Taken) /\ Body!Numbered(b_body) = Taken
      BY <1>1 DEF Composed, Body!Entries
    <3>2. Woven(Taken) \in Seq(Nat)
      BY <1>4, WovenOfAppend
    <3> QED
      BY <3>1, <3>2
  <2>2. CASE Taken = <<>>
    <3>1. b_body' = Append(b_body, b_i + 1)
      <4> HIDE DEF Body!First
      <4>1. b_body' = b_body \o <<>> \o <<b_i + 1>>
        BY <1>1, <1>2, <2>2
      <4> QED
        BY <1>4, <2>1, <4>1
    <3>2. Body!Numbered(Append(b_body, b_i + 1)) = Append(Body!Numbered(b_body), b_i + 1)
      BY <1>6, <2>1
    <3> QED
      BY <1>3, <2>1, <3>1, <3>2 DEF Body!Entries
  <2>3. CASE Taken # <<>>
    <3> DEFINE longer == Append(b_body, 0)
    <3>1. b_body' = Append(longer, b_i + 1) /\ longer \in Seq(Nat)
      <4> HIDE DEF Body!First
      <4>1. b_body' = b_body \o <<0>> \o <<b_i + 1>>
        BY <1>1, <1>2, <2>3
      <4> QED
        BY <1>4, <2>1, <4>1
    <3>2. Body!Numbered(longer) = Body!Numbered(b_body)
      BY <2>1, NumberedOfAppend
    <3> HIDE DEF longer
    <3>3. Body!Numbered(Append(longer, b_i + 1)) = Append(Body!Numbered(longer), b_i + 1)
      BY <1>6, <3>1
    <3> QED
      BY <1>3, <2>1, <3>1, <3>2, <3>3 DEF Body!Entries
  <2> QED
    BY <2>2, <2>3
<1>8. /\ b_pos' = Closed' - 2 /\ b_pos' \in 0..(BodySize - 1)
      /\ Closed' < BodySize - Reserve[batch.kind] + 3 + LengthIn(batch, b_i + 1)
  <2> DEFINE W == WholeIn(batch, KnownIn(batch, b_i + 1))
             w == Body!Written(Body!Upcoming)
             l == LengthIn(batch, b_i + 1)
             R == Reserve[batch.kind]
  <2>1. /\ W - 2 = b_pos + w /\ b_pos \in Nat /\ w \in Nat /\ BodySize \in Nat /\ R \in Nat
        /\ w <= 1 + l /\ l \in Nat
    BY <1>2
  <2>2. b_pos' = b_pos + w /\ b_pos + R < BodySize /\ w < BodySize - b_pos
    BY <1>1
  <2>3. Closed' = W /\ W \in Nat
    <3>1. b_i + 1 \in 0..Len(batch.events)
      BY <1>2
    <3> QED
      BY <1>1, <1>3, <3>1, WholeType
  <2> HIDE DEF W, w, l, R
  <2>4. W = b_pos + w + 2
    BY <2>1, <2>3
  <2>5. b_pos' = W - 2 /\ b_pos' \in 0..(BodySize - 1) /\ W < BodySize - R + 3 + l
    BY <2>1, <2>2, <2>3, <2>4
  <2> QED
    BY <2>3, <2>5 DEF R, l
<1>9. Taken'[Len(Taken')] = b_i + 1
  <2> HIDE DEF Taken
  <2> QED
    BY <1>3, <1>4
<1>10. Composed'
  BY <1>1, <1>5, <1>7, <1>8, <1>9 DEF Composed
<1>11. Body!TypeOK'
  BY <1>1, <1>2, <1>8 DEF Body!TypeOK
<1> QED
  BY <1>1, <1>10, <1>11 DEF BodyInv

LEMMA LengthType ==
    ASSUME Body!BatchBodyAssumption, batch \in Batches, NEW k \in 1..Len(batch.events)
    PROVE  Body!Length(k) \in Nat
<1>1. batch.events \in Seq([length : Nat, known : BOOLEAN])
  BY DEF Body!BatchBodyAssumption
<1>2. batch.events[k] \in [length : Nat, known : BOOLEAN]
  BY <1>1, ElementOfSeq, Zenon
<1> QED
  BY <1>2 DEF Body!Length

LEMMA EndOfEntriesKeeps == Body!BatchBodyAssumption /\ BodyInv /\ Body!EndOfEntries => BodyInv'
<1> SUFFICES ASSUME Body!BatchBodyAssumption, BodyInv, Body!EndOfEntries PROVE BodyInv'
  OBVIOUS
<1>1. /\ batch \in Batches /\ b_at = "entries" /\ Body!TypeOK /\ Composed /\ b_at' = "closing"
      /\ batch' = batch /\ b_i' = b_i /\ b_body' = b_body /\ b_pos' = b_pos
      /\ \/ b_i = Len(batch.events)
         \/ b_i < Len(batch.events) /\ ~Body!Skipped(Body!Upcoming) /\ ~(Body!Reserved /\ Body!Fits(Body!Written(Body!Upcoming)))
  BY DEF BodyInv, Body!TypeOK, Body!EndOfEntries
<1>2. Full
  <2> SUFFICES ASSUME b_i < Len(batch.events), ~Body!Skipped(Body!Upcoming),
                      ~(Body!Reserved /\ Body!Fits(Body!Written(Body!Upcoming)))
               PROVE  Full
    BY <1>1 DEF Full
  <2> DEFINE W == WholeIn(batch, KnownIn(batch, b_i + 1))
             w == Body!Written(Body!Upcoming)
             R == Reserve[batch.kind]
  <2>1. /\ W - 2 = b_pos + w /\ ~Over(batch, b_i + 1) /\ w \in Nat
        /\ b_pos \in Nat /\ BodySize \in Nat /\ R \in Nat
    BY <1>1, OfUpcoming
  <2>2. ~(b_pos + R < BodySize) \/ ~(w < BodySize - b_pos)
    BY DEF Body!Reserved, Body!Fits
  <2>3. b_pos = Closed - 2
    BY <1>1 DEF Composed
  <2> HIDE DEF W, w, R
  <2>4. b_pos + R >= BodySize \/ W - 2 >= BodySize
    BY <2>1, <2>2
  <2> QED
    BY <2>1, <2>3, <2>4 DEF Full, W, R
<1>3. Taken' = Taken /\ Closed' = Closed
  BY <1>1 DEF Taken, Closed
<1>4. Composed'
  BY <1>1, <1>3 DEF Composed, Body!Entries
<1>5. Body!TypeOK'
  BY <1>1 DEF Body!TypeOK
<1>6. Full'
  BY <1>1, <1>2, <1>3 DEF Full
<1> QED
  BY <1>1, <1>4, <1>5, <1>6 DEF BodyInv

LEMMA CloseKeeps == Body!BatchBodyAssumption /\ BodyInv /\ Body!Close => BodyInv'
<1> SUFFICES ASSUME Body!BatchBodyAssumption, BodyInv, Body!Close PROVE BodyInv'
  OBVIOUS
<1>1. /\ batch \in Batches /\ b_i \in 0..Len(batch.events) /\ b_pos \in 0..(BodySize - 1)
      /\ b_at = "closing" /\ Body!TypeOK /\ Composed /\ Full
      /\ batch' = batch /\ b_i' = b_i /\ b_body' = b_body
  BY DEF BodyInv, Body!TypeOK, Body!Close
<1>2. /\ BodySize \in Nat /\ batch.header \in Nat
      /\ Reserve[batch.kind] \in Nat /\ Reserve[batch.kind] >= 2
      /\ \A k \in 1..Len(batch.events) : Body!Length(k) = LengthIn(batch, k)
  BY <1>1, OfBatch
<1>3. /\ Taken \in Seq(1..Len(batch.events)) /\ Len(Taken) \in Nat
      /\ (Taken = <<>> <=> Len(Taken) = 0) /\ Closed \in Nat
      /\ Body!Known \in Seq(1..Len(batch.events)) /\ Len(Body!Known) \in Nat /\ Len(Taken) <= Len(Body!Known)
      /\ \A j \in 1..Len(Taken) : Body!Known[j] = Taken[j]
  BY <1>1, OfTaken
<1>4. Taken' = Taken /\ Closed' = Closed
  BY <1>1 DEF Taken, Closed
<1>5. b_pos = Closed - 2 /\ Body!Entries = Taken /\ b_body = Woven(Taken)
      /\ (Taken # <<>> =>
            Closed < BodySize - Reserve[batch.kind] + 3 + LengthIn(batch, Taken[Len(Taken)]))
  BY <1>1 DEF Composed
<1>6. CASE b_at' = "posted" /\ Body!Fits(2) /\ b_pos' = b_pos + 2
  <2>1. b_pos' = Closed /\ b_pos' \in 0..(BodySize - 1)
    BY <1>1, <1>2, <1>3, <1>5, <1>6 DEF Body!Fits
  <2>2. Body!TypeOK'
    BY <1>1, <1>6, <2>1 DEF Body!TypeOK
  <2>3. Composed'
    BY <1>1, <1>4, <1>5, <1>6, <2>1 DEF Composed, Body!Entries
  <2>4. Full'
    BY <1>1, <1>4 DEF Full
  <2> QED
    BY <1>6, <2>2, <2>3, <2>4 DEF BodyInv
<1>7. CASE b_at' = "refused" /\ b_pos' = b_pos /\ (Body!Entries = <<>> \/ ~Body!Fits(2))
  <2>1. Hopeless
    <3>1. CASE Taken = <<>>
      <4>1. \/ Body!Known = <<>> \/ batch.header + Reserve[batch.kind] >= BodySize
            \/ Body!Known # <<>> /\ Body!Length(Body!Known[1]) >= Reserve[batch.kind]
        BY <1>1, <3>1, WhenFull
      <4>2. ASSUME Body!Known # <<>>, Body!Length(Body!Known[1]) >= Reserve[batch.kind] PROVE Hopeless
        <5>1. 1 \in DOMAIN Body!Known /\ Body!Known[1] \in 1..Len(batch.events)
          BY <1>3, <4>2
        <5>2. Body!Length(Body!Known[1]) \in Nat
          BY <1>1, <1>2, <5>1, LengthType
        <5>3. Body!Length(Body!Known[1]) + 3 > Reserve[batch.kind]
          <6> DEFINE l == Body!Length(Body!Known[1])
                     R == Reserve[batch.kind]
          <6>1. l \in Nat /\ R \in Nat /\ l >= R
            BY <1>2, <4>2, <5>2
          <6> HIDE DEF l, R
          <6>2. l + 3 > R
            BY <6>1
          <6> QED
            BY <6>2 DEF l, R
        <5> QED
          BY <5>1, <5>3 DEF Hopeless
      <4> QED
        BY <4>1, <4>2 DEF Hopeless
    <3>2. CASE Taken # <<>>
      <4> DEFINE n == Len(Taken)
                 l == LengthIn(batch, Taken[n])
                 R == Reserve[batch.kind]
      <4>1. n \in 1..Len(Body!Known) /\ n \in 1..Len(Taken) /\ DOMAIN Body!Known = 1..Len(Body!Known)
        BY <1>3, <3>2
      <4>2. Body!Known[n] = Taken[n] /\ Taken[n] \in 1..Len(batch.events)
        BY <1>3, <4>1, ElementOfSeq
      <4>3. Body!Length(Body!Known[n]) = l /\ l \in Nat
        BY <1>1, <1>2, <4>2, LengthType
      <4>4. ~(2 < BodySize - b_pos)
        BY <1>5, <1>7, <3>2 DEF Body!Fits
      <4>5. Closed < BodySize - R + 3 + l /\ b_pos = Closed - 2
            /\ Closed \in Nat /\ BodySize \in Nat /\ R \in Nat
        BY <1>2, <1>3, <1>5, <3>2
      <4> HIDE DEF l, R
      <4>6. l + 3 > R
        BY <4>3, <4>4, <4>5
      <4> HIDE DEF n
      <4> QED
        BY <4>1, <4>3, <4>6 DEF Hopeless, R
    <3> QED
      BY <3>1, <3>2
  <2>2. Hopeless'
    BY <1>1, <2>1, KnownStays
  <2>3. Body!TypeOK'
    BY <1>1, <1>7 DEF Body!TypeOK
  <2> QED
    BY <1>7, <2>2, <2>3 DEF BodyInv
<1> QED
  BY <1>6, <1>7 DEF Body!Close

-----------------------------------------------------------------------------
(* The invariant of the sender, and with it the type of its variables.     *)
THEOREM BodyInvariance == Body!BatchBodyAssumption => (Body!Spec => []BodyInv)
<1> SUFFICES ASSUME Body!BatchBodyAssumption PROVE Body!Spec => []BodyInv
  OBVIOUS
<1>1. Body!Init => BodyInv
  <2> SUFFICES ASSUME Body!Init PROVE BodyInv
    OBVIOUS
  <2>1. batch \in Batches /\ b_at = "header" /\ b_i = 0 /\ b_body = <<>> /\ b_pos = 0
    BY DEF Body!Init
  <2>2. BodySize \in Nat \ {0} /\ Len(batch.events) \in Nat
    BY <2>1, OfBatch DEF Body!BatchBodyAssumption
  <2> QED
    BY <2>1, <2>2 DEF BodyInv, Body!TypeOK
<1>2. BodyInv /\ [Body!Next]_(Body!vars) => BodyInv'
  <2> SUFFICES ASSUME BodyInv, [Body!Next]_(Body!vars) PROVE BodyInv'
    OBVIOUS
  <2>1. CASE UNCHANGED Body!vars
    BY <2>1 DEF Body!vars, BodyInv, Body!TypeOK, Composed, Body!Entries, Full, Hopeless,
       Taken, Closed,
               Body!Known, Body!Skipped, Body!Length
  <2> QED
    BY <2>1, HeaderKeeps, SkipKeeps, EntryKeeps, EndOfEntriesKeeps,
       CloseKeeps DEF Body!Next
<1> QED
  BY <1>1, <1>2, PTL DEF Body!Spec

(* That is what CutsOnlyTheTail says.                                      *)
LEMMA BodyInvImplies == Body!BatchBodyAssumption /\ BodyInv => Body!CutsOnlyTheTail
<1> SUFFICES ASSUME Body!BatchBodyAssumption, BodyInv PROVE Body!CutsOnlyTheTail
  OBVIOUS
<1>1. batch \in Batches /\ b_i \in 0..Len(batch.events)
  BY DEF BodyInv, Body!TypeOK
<1>2. CASE b_at = "posted"
  <2>1. /\ Composed /\ Full /\ b_body = Woven(Taken) /\ Body!Entries = Taken /\ b_pos = Closed
    BY <1>2 DEF BodyInv, Composed
  <2>2. /\ Taken \in Seq(1..Len(batch.events)) /\ Len(Taken) \in Nat
        /\ Body!Known \in Seq(1..Len(batch.events)) /\ Len(Body!Known) \in Nat /\ Len(Taken) <= Len(Body!Known)
        /\ \A j \in 1..Len(Taken) : Body!Known[j] = Taken[j]
    BY <1>1, OfTaken
  <2> DEFINE n == Len(Taken)
  <2>3. SubSeq(Body!Known, 1, n) = Taken
    <3> DEFINE t == SubSeq(Body!Known, 1, n)
    <3>1. n \in 0..Len(Body!Known)
      BY <2>2
    <3>2. t \in Seq(1..Len(batch.events)) /\ Len(t) = n /\ \A j \in 1..n : t[j] = Body!Known[j]
      BY <2>2, <3>1
    <3> HIDE DEF t
    <3>3. t = Taken
      BY <2>2, <3>2, SeqEqual
    <3> QED
      BY <3>3 DEF t
  <2>4. b_body = [k \in 1..(2 * n - 1) |-> IF k % 2 = 0 THEN Body!Separator ELSE Body!Known[(k + 1) \div 2]]
    <3>1. \A k \in 1..(2 * n - 1) : k % 2 # 0 => (k + 1) \div 2 \in 1..n
      BY <2>2
    <3>2. b_body = [k \in 1..(2 * n - 1) |-> IF k % 2 = 0 THEN 0 ELSE Taken[(k + 1) \div 2]]
      BY <2>1 DEF Woven
    <3>3. \A k \in 1..(2 * n - 1) : k % 2 # 0 => Body!Known[(k + 1) \div 2] = Taken[(k + 1) \div 2]
      BY <2>2, <3>1
    <3> QED
      BY <3>2, <3>3 DEF Body!Separator
  <2>5. b_pos = Body!Whole(SubSeq(Body!Known, 1, n))
    BY <1>1, <2>1, <2>2, <2>3, OfBatch DEF Closed
  <2>6. n \in 0..Len(Body!Known)
    BY <2>2
  <2>7. Body!Whole(Body!Known) < BodySize - Reserve[batch.kind] => Body!Entries = Body!Known
    BY <1>1, <2>1, WhenFull
  <2>8. /\ Body!Known # <<>> /\ batch.header + Reserve[batch.kind] < BodySize
        /\ Body!Length(Body!Known[1]) < Reserve[batch.kind]
        => Body!Entries # <<>>
    <3> SUFFICES ASSUME Body!Known # <<>>, batch.header + Reserve[batch.kind] < BodySize,
                        Body!Length(Body!Known[1]) < Reserve[batch.kind], Taken = <<>>
                 PROVE  FALSE
      BY <2>1
    <3>1. batch.header + Reserve[batch.kind] >= BodySize \/ Body!Length(Body!Known[1]) >= Reserve[batch.kind]
      BY <1>1, <2>1, WhenFull
    <3>2. Body!Length(Body!Known[1]) \in Nat
      <4>1. Body!Known[1] \in 1..Len(batch.events)
        BY <2>2
      <4> QED
        BY <1>1, <4>1, LengthType
    <3>3. batch.header \in Nat /\ Reserve[batch.kind] \in Nat /\ BodySize \in Nat
      BY <1>1, OfBatch
    <3> QED
      BY <3>1, <3>2, <3>3
  <2> HIDE DEF n
  <2> QED
    BY <1>2, <2>4, <2>5, <2>6, <2>7, <2>8 DEF Body!CutsOnlyTheTail
<1>3. CASE b_at = "refused"
  BY <1>3 DEF BodyInv, Hopeless, Body!CutsOnlyTheTail
<1> QED
  BY <1>2, <1>3 DEF Body!CutsOnlyTheTail

(* A message that is posted is a well-formed list of the first events, and *)
(* lacks events only for want of room.                                     *)
THEOREM TailCut == Body!BatchBodyAssumption => (Body!Spec => []CutsOnlyTheTail)
<1> SUFFICES ASSUME Body!BatchBodyAssumption PROVE Body!Spec => []CutsOnlyTheTail
  OBVIOUS
<1>1. BodyInv => CutsOnlyTheTail
  BY BodyInvImplies DEF CutsOnlyTheTail
<1>2. Body!Spec => []BodyInv
  BY BodyInvariance
<1> QED
  BY <1>1, <1>2, PTL

(*****************************************************************************)
(* RulesetFetch                                                              *)
(*****************************************************************************)

(* The number a stretch of digits is.                                      *)
LEMMA ValueIs == ASSUME NEW digits PROVE Fetch!Value(digits) = Decimal!FoldLeft(Scaled, 0, digits)
BY DEF Fetch!Value, Scaled, Fetch!FoldLeft, Fetch!MapThenFoldSet, Fetch!Max,
       Decimal!FoldLeft, Decimal!MapThenFoldSet, Decimal!Max

(* Without a digit the number is 0.                                        *)
LEMMA NoValue == Fetch!Value(<<>>) = 0
BY ValueIs, Decimal!FoldOfNothing

(* One digit more.                                                         *)
LEMMA MoreDigits ==
    ASSUME NEW digits \in Seq(Fetch!Digits), NEW d \in Fetch!Digits
    PROVE  Fetch!Value(Append(digits, d)) = Scaled(Fetch!Value(digits), d)
<1>1. Decimal!FoldLeft(Scaled, 0, Append(digits, d))
         = Scaled(Decimal!FoldLeft(Scaled, 0, digits), d)
  <2> DEFINE D == Fetch!Digits
  <2>1. digits \in Seq(D) /\ d \in D
    OBVIOUS
  <2> HIDE DEF D
  <2> QED
    BY <2>1, Decimal!FoldOfAppend, Zenon
<1> QED
  BY <1>1, ValueIs, Zenon

(* It is never negative.                                                   *)
LEMMA ValueIsNat == \A digits \in Seq(Fetch!Digits) : Fetch!Value(digits) \in Nat
<1> DEFINE T == {n \in Nat : \A s \in Seq(Fetch!Digits) : Len(s) = n => Fetch!Value(s) \in Nat}
<1>1. 0 \in T
  <2>1. \A s \in Seq(Fetch!Digits) : Len(s) = 0 => s = <<>>
    OBVIOUS
  <2> QED
    BY <2>1, NoValue
<1>2. \A n \in T : n + 1 \in T
  <2> SUFFICES ASSUME NEW n \in T, NEW s \in Seq(Fetch!Digits), Len(s) = n + 1
               PROVE  Fetch!Value(s) \in Nat
    OBVIOUS
  <2> DEFINE front == SubSeq(s, 1, n)
  <2>1. n \in Nat /\ \A r \in Seq(Fetch!Digits) : Len(r) = n => Fetch!Value(r) \in Nat
    OBVIOUS
  <2>2. /\ front \in Seq(Fetch!Digits) /\ Len(front) = n
        /\ s = Append(front, s[n + 1])
    BY <2>1
  <2>5. s[n + 1] \in Fetch!Digits
    BY <2>1
  <2> HIDE DEF front
  <2>3. Fetch!Value(s) = Scaled(Fetch!Value(front), s[n + 1])
    <3>1. Fetch!Value(Append(front, s[n + 1])) = Scaled(Fetch!Value(front), s[n + 1])
      BY <2>2, <2>5, MoreDigits
    <3> QED
      BY <2>2, <3>1, Zenon
  <2>4. Fetch!Value(front) \in Nat
    BY <2>1, <2>2
  <2> QED
    BY <2>2, <2>3, <2>4 DEF Scaled, Fetch!Digits
<1>3. T \in SUBSET Nat
  OBVIOUS
<1> HIDE DEF T
<1>4. \A n \in Nat : n \in T
  BY <1>1, <1>2, <1>3, Decimal!Induction
<1> QED
  BY <1>4 DEF T

(* The place of the first element of a set of indices.                     *)
LEMMA FetchMinIs ==
    ASSUME NEW I \in SUBSET Nat, NEW m \in I, \A k \in I : m <= k
    PROVE  Fetch!Min(I) = m
<1>1. \A x \in I : (\A y \in I : x <= y) => x = m
  OBVIOUS
<1> QED
  BY <1>1 DEF Fetch!Min

-----------------------------------------------------------------------------
(* The first element equal to the key, and the first that is no digit.     *)
First(s, I) == IF I # {} THEN Fetch!Min(I) ELSE 0
KeysAt(s, key) == {i \in 1..Len(s) : s[i] = key}
OthersAt(s) == {i \in 1..Len(s) : s[i] \notin Fetch!Digits}

(* What is found is the first.                                             *)
LEMMA FirstIs ==
    ASSUME NEW s, NEW I \in SUBSET Nat, NEW m \in Nat,
           IF m = 0 THEN I = {} ELSE m \in I /\ \A k \in I : m <= k
    PROVE  First(s, I) = m
BY FetchMinIs DEF First

(* A stretch of a sequence.                                                *)
LEMMA StretchIs ==
    ASSUME NEW S, NEW s \in Seq(S), NEW k \in 0..Len(s), NEW e \in k..Len(s)
    PROVE  /\ SubSeq(s, k + 1, e) \in Seq(S) /\ Len(SubSeq(s, k + 1, e)) = e - k
           /\ \A i \in 1..(e - k) : SubSeq(s, k + 1, e)[i] = s[k + i]
           /\ SubSeq(s, k + 1, e) = [i \in 1..(e - k) |-> s[k + i]]
OBVIOUS

(* How the number after a key is found.                                    *)
LEMMA NumberFound ==
    ASSUME NEW s, NEW key, NEW rest, NEW other, NEW digits,
           rest = (IF KeysAt(s, key) # {} THEN SubSeq(s, First(s, KeysAt(s, key)) + 1, Len(s))
                   ELSE <<>>),
           other = First(rest, OthersAt(rest)),
           digits = (IF other = 0 THEN rest ELSE SubSeq(rest, 1, other - 1))
    PROVE  Fetch!NumberAfter(s, key) = Fetch!Value(digits)
<1>1. Fetch!Contains(s, key) <=> KeysAt(s, key) # {}
  BY DEF Fetch!Contains, KeysAt
<1>2. Fetch!SelectInSeq(s, LAMBDA u : u = key) = First(s, KeysAt(s, key))
  BY DEF Fetch!SelectInSeq, First, KeysAt
<1>3. Fetch!SelectInSeq(rest, LAMBDA u : u \notin Fetch!Digits) = First(rest, OthersAt(rest))
  BY DEF Fetch!SelectInSeq, First, OthersAt
<1> QED
  BY <1>1, <1>2, <1>3, Zenon DEF Fetch!NumberAfter

(* No key, no number.                                                      *)
LEMMA NumberOfNoKey ==
    ASSUME NEW s, NEW key, KeysAt(s, key) = {}
    PROVE  Fetch!NumberAfter(s, key) = 0
<1>1. OthersAt(<<>>) = {} /\ First(<<>>, {}) = 0
  BY DEF OthersAt, First
<1> QED
  BY <1>1, NumberFound, NoValue

(* The number is the digits from the first key to what is no digit.        *)
LEMMA NumberIs ==
    ASSUME NEW s \in Seq(Int), NEW key, NEW k \in 1..Len(s), NEW e \in k..Len(s),
           s[k] = key, \A i \in 1..(k - 1) : s[i] # key,
           \A i \in (k + 1)..e : s[i] \in Fetch!Digits,
           e = Len(s) \/ s[e + 1] \notin Fetch!Digits
    PROVE  Fetch!NumberAfter(s, key) = Fetch!Value(SubSeq(s, k + 1, e))
<1> DEFINE n == Len(s)
           rest == SubSeq(s, k + 1, n)
           keys == KeysAt(s, key)
           others == OthersAt(rest)
           other == First(rest, others)
           digits == IF other = 0 THEN rest ELSE SubSeq(rest, 1, other - 1)
<1>1. n \in Nat /\ k \in Nat /\ e \in Nat /\ 1 <= k /\ k <= e /\ e <= n
  OBVIOUS
<1>2. k \in keys /\ keys \in SUBSET Nat
  BY DEF KeysAt
<1>3. \A i \in keys : k <= i
  <2> SUFFICES ASSUME NEW i \in 1..n, s[i] = key PROVE k <= i
    BY DEF KeysAt
  <2>1. i \notin 1..(k - 1)
    OBVIOUS
  <2> QED
    BY <1>1, <2>1
<1>4. rest \in Seq(Int) /\ Len(rest) = n - k /\ \A i \in 1..(n - k) : rest[i] = s[k + i]
  <2>1. k \in 0..Len(s) /\ Len(s) \in k..Len(s)
    BY <1>1 DEF n
  <2> QED
    BY <2>1, StretchIs
<1>5. others \in SUBSET Nat /\ \A i \in Int : i \in others <=> i \in 1..(n - k) /\ s[k + i] \notin Fetch!Digits
  BY <1>4 DEF OthersAt
<1>6. e = n \/ s[e + 1] \notin Fetch!Digits
  OBVIOUS
<1>7. \A i \in (k + 1)..e : s[i] \in Fetch!Digits
  OBVIOUS
<1>8. rest = SubSeq(s, k + 1, n) /\ SubSeq(s, k + 1, e) = [i \in 1..(e - k) |-> s[k + i]]
  BY <1>1, StretchIs
<1> HIDE DEF keys
<1>9. First(s, keys) = k
  <2>1. IF k = 0 THEN keys = {} ELSE k \in keys /\ \A i \in keys : k <= i
    BY <1>1, <1>2, <1>3
  <2> QED
    BY <1>1, <1>2, <2>1, FirstIs, Zenon
<1>10. Fetch!NumberAfter(s, key) = Fetch!Value(digits)
  <2>1. rest = (IF KeysAt(s, key) # {} THEN SubSeq(s, First(s, KeysAt(s, key)) + 1, Len(s))
                ELSE <<>>)
    BY <1>2, <1>9, Zenon DEF keys, rest, n
  <2> HIDE DEF rest, other
  <2>2. other = First(rest, OthersAt(rest))
    BY DEF other, others
  <2>3. digits = IF other = 0 THEN rest ELSE SubSeq(rest, 1, other - 1)
    OBVIOUS
  <2> HIDE DEF digits
  <2> QED
    BY <2>1, <2>2, <2>3, NumberFound, ZenonT(30)
<1> HIDE DEF n, rest, others, other
<1>11. CASE e = n
  <2>1. others = {}
    <3>1. \A i \in 1..(n - k) : k + i \in (k + 1)..e
      BY <1>1, <1>11
    <3> QED
      BY <1>5, <1>7, <3>1, SMTT(30)
  <2>2. other = 0
    BY <2>1 DEF First, other
  <2> QED
    BY <1>8, <1>10, <1>11, <2>2
<1>12. CASE e # n
  <2> DEFINE m == (e + 1) - k
  <2>1. m \in Nat /\ m # 0 /\ m \in 1..(n - k) /\ k + m = e + 1 /\ m - 1 = e - k
    BY <1>1, <1>12
  <2>2. m \in others
    BY <1>5, <1>6, <1>12, <2>1
  <2>3. \A i \in others : m <= i
    <3> SUFFICES ASSUME NEW i \in others PROVE m <= i
      OBVIOUS
    <3>1. i \in Int /\ i \in 1..(n - k) /\ k + i \notin (k + 1)..e
      BY <1>5, <1>7
    <3> QED
      BY <1>1, <3>1
  <2> HIDE DEF m
  <2>4. other = m
    <3>1. IF m = 0 THEN others = {} ELSE m \in others /\ \A i \in others : m <= i
      BY <2>1, <2>2, <2>3
    <3> QED
      BY <1>5, <2>1, <3>1, FirstIs, Zenon DEF other
  <2>5. Fetch!NumberAfter(s, key) = Fetch!Value(SubSeq(rest, 1, e - k))
    BY <1>10, <2>1, <2>4
  <2>6. SubSeq(rest, 1, e - k) = [i \in 1..(e - k) |-> rest[i]]
    <3>1. e - k \in 0..Len(rest)
      BY <1>1, <1>4
    <3> QED
      BY <1>4, <3>1
  <2>7. [i \in 1..(e - k) |-> rest[i]] = [i \in 1..(e - k) |-> s[k + i]]
    <3>1. \A i \in 1..(e - k) : i \in 1..(n - k)
      BY <1>1
    <3> QED
      BY <1>4, <3>1
  <2> QED
    BY <1>8, <2>5, <2>6, <2>7
<1> QED
  BY <1>11, <1>12

(* Where the digits after a place end.                                     *)
LEMMA EndExists ==
    ASSUME NEW s \in Seq(Int), NEW k \in 1..Len(s)
    PROVE  \E e \in k..Len(s) : /\ \A i \in (k + 1)..e : s[i] \in Fetch!Digits
                                /\ e = Len(s) \/ s[e + 1] \notin Fetch!Digits
<1> DEFINE n == Len(s)
           I == {i \in (k + 1)..n : s[i] \notin Fetch!Digits}
<1>1. n \in Nat /\ k \in Nat /\ k <= n /\ I \in SUBSET Nat
  OBVIOUS
<1>2. CASE I = {}
  <2>1. \A i \in (k + 1)..n : s[i] \in Fetch!Digits
    BY <1>2
  <2>2. n \in k..n
    BY <1>1
  <2> QED
    BY <2>1, <2>2
<1>3. CASE I # {}
  <2>1. PICK m \in I : \A i \in I : m <= i
    BY <1>1, <1>3, LeastExists, Zenon
  <2>2. m \in (k + 1)..n /\ s[m] \notin Fetch!Digits
    BY <2>1
  <2>3. m - 1 \in k..n /\ (m - 1) + 1 = m
    BY <1>1, <2>2
  <2>4. ASSUME NEW i \in (k + 1)..(m - 1) PROVE s[i] \in Fetch!Digits
    <3>1. i \in (k + 1)..n /\ ~(m <= i)
      BY <1>1, <2>2
    <3> QED
      BY <2>1, <3>1
  <2> QED
    BY <2>2, <2>3, <2>4
<1> QED
  BY <1>2, <1>3

(* The first key of a text that has one.                                   *)
LEMMA FirstExists ==
    ASSUME NEW s \in Seq(Int), NEW key, KeysAt(s, key) # {}
    PROVE  \E k \in 1..Len(s) : s[k] = key /\ \A i \in 1..(k - 1) : s[i] # key
<1>1. KeysAt(s, key) \in SUBSET Nat
  BY DEF KeysAt
<1>2. PICK k \in KeysAt(s, key) : \A i \in KeysAt(s, key) : k <= i
  BY <1>1, LeastExists, Zenon
<1>3. k \in 1..Len(s) /\ s[k] = key
  BY DEF KeysAt
<1>4. ASSUME NEW i \in 1..(k - 1) PROVE s[i] # key
  <2>1. i \in 1..Len(s) /\ ~(k <= i)
    BY <1>3
  <2> QED
    BY <1>2, <2>1 DEF KeysAt
<1> QED
  BY <1>3, <1>4

(* What the beginning of a text says: nothing, what the text says, or the  *)
(* number that is cut.                                                     *)
LEMMA CutNumber ==
    ASSUME NEW s \in Seq(Int), NEW n \in 0..Len(s), NEW key
    PROVE  \/ Fetch!NumberAfter(SubSeq(s, 1, n), key) = 0
           \/ Fetch!NumberAfter(SubSeq(s, 1, n), key) = Fetch!NumberAfter(s, key)
           \/ n \in 1..(Len(s) - 1) /\ s[n] \in Fetch!Digits /\ s[n + 1] \in Fetch!Digits
<1> DEFINE t == SubSeq(s, 1, n)
           l == Len(s)
<1>1. n \in Nat /\ l \in Nat /\ n <= l
  OBVIOUS
<1>2. t \in Seq(Int) /\ Len(t) = n /\ \A i \in 1..n : t[i] = s[i]
  OBVIOUS
<1> HIDE DEF t
<1>3. t \in Seq(Int)
  BY <1>2
<1>4. CASE KeysAt(t, key) = {}
  BY <1>4, NumberOfNoKey DEF t
<1>5. CASE KeysAt(t, key) # {}
  <2>1. PICK k \in 1..n : t[k] = key /\ \A i \in 1..(k - 1) : t[i] # key
    BY <1>2, <1>5, FirstExists
  <2>2. k \in Nat /\ 1 <= k /\ k <= n
    BY <1>1
  <2>3. k \in 1..l /\ s[k] = key /\ \A i \in 1..(k - 1) : s[i] # key
    <3>1. \A i \in 1..(k - 1) : i \in 1..n
      BY <1>1, <2>2
    <3> QED
      BY <1>1, <1>2, <2>1, <2>2, <3>1
  <2>4. PICK e \in k..l : /\ \A i \in (k + 1)..e : s[i] \in Fetch!Digits
                          /\ e = l \/ s[e + 1] \notin Fetch!Digits
    BY <2>3, EndExists
  <2>5. e \in Nat /\ k <= e /\ e <= l
    BY <1>1, <2>2
  <2>6. Fetch!NumberAfter(s, key) = Fetch!Value(SubSeq(s, k + 1, e))
    BY <2>3, <2>4, NumberIs
  <2>7. CASE e <= n
    <3>1. e \in k..Len(t) /\ k \in 1..Len(t) /\ k \in 0..Len(t)
      BY <1>1, <1>2, <2>2, <2>5, <2>7
    <3>2. \A i \in (k + 1)..e : t[i] \in Fetch!Digits
      <4>1. \A i \in (k + 1)..e : i \in 1..n
        BY <1>1, <2>2, <2>5, <2>7
      <4> QED
        BY <1>2, <2>4, <4>1
    <3>3. e = Len(t) \/ t[e + 1] \notin Fetch!Digits
      <4>1. e # n => e + 1 \in 1..n /\ e # l
        BY <1>1, <2>2, <2>5, <2>7
      <4> QED
        BY <1>2, <2>4, <4>1
    <3>4. Fetch!NumberAfter(t, key) = Fetch!Value(SubSeq(t, k + 1, e))
      BY <1>3, <2>1, <3>1, <3>2, <3>3, NumberIs, Zenon
    <3>5. SubSeq(t, k + 1, e) = SubSeq(s, k + 1, e)
      <4>1. SubSeq(t, k + 1, e) = [i \in 1..(e - k) |-> t[k + i]]
        BY <1>3, <3>1
      <4>2. SubSeq(s, k + 1, e) = [i \in 1..(e - k) |-> s[k + i]]
        BY <1>1, <2>2, <2>5, StretchIs
      <4>3. \A i \in 1..(e - k) : k + i \in 1..n
        BY <1>1, <2>2, <2>5, <2>7
      <4> QED
        BY <1>2, <4>1, <4>2, <4>3
    <3> QED
      BY <2>6, <3>4, <3>5 DEF t
  <2>8. CASE e > n /\ k < n
    <3>1. n \in (k + 1)..e /\ n + 1 \in (k + 1)..e /\ n \in 1..(l - 1)
      BY <1>1, <2>2, <2>5, <2>8
    <3> QED
      BY <2>4, <3>1
  <2>9. CASE e > n /\ k = n
    <3>1. k \in 1..Len(t) /\ k \in k..Len(t)
      BY <1>1, <1>2, <2>2, <2>9
    <3>2. k = Len(t) \/ t[k + 1] \notin Fetch!Digits
      BY <1>2, <2>9
    <3>3. \A i \in (k + 1)..k : t[i] \in Fetch!Digits
      BY <2>2
    <3>4. Fetch!NumberAfter(t, key) = Fetch!Value(SubSeq(t, k + 1, k))
      BY <1>3, <2>1, <3>1, <3>2, <3>3, NumberIs, Zenon
    <3>5. SubSeq(t, k + 1, k) = <<>>
      BY <1>2, <2>2
    <3> QED
      BY <3>4, <3>5, NoValue DEF t
  <2> QED
    BY <1>1, <2>2, <2>5, <2>7, <2>8, <2>9
<1> QED
  BY <1>4, <1>5

(* A text always says some number.                                         *)
LEMMA NumberIsNat == ASSUME NEW s \in Seq(Int), NEW key PROVE Fetch!NumberAfter(s, key) \in Nat
<1>1. CASE KeysAt(s, key) = {}
  BY <1>1, NumberOfNoKey
<1>2. CASE KeysAt(s, key) # {}
  <2>1. PICK k \in 1..Len(s) : s[k] = key /\ \A i \in 1..(k - 1) : s[i] # key
    BY <1>2, FirstExists
  <2>2. PICK e \in k..Len(s) : /\ \A i \in (k + 1)..e : s[i] \in Fetch!Digits
                               /\ e = Len(s) \/ s[e + 1] \notin Fetch!Digits
    BY EndExists
  <2>3. Fetch!NumberAfter(s, key) = Fetch!Value(SubSeq(s, k + 1, e))
    BY <2>1, <2>2, NumberIs
  <2>4. SubSeq(s, k + 1, e) \in Seq(Fetch!Digits)
    <3>1. k \in 0..Len(s)
      OBVIOUS
    <3>2. SubSeq(s, k + 1, e) = [i \in 1..(e - k) |-> s[k + i]]
      BY <3>1, StretchIs
    <3>3. e - k \in Nat /\ \A i \in 1..(e - k) : k + i \in (k + 1)..e
      OBVIOUS
    <3>4. \A i \in 1..(e - k) : s[k + i] \in Fetch!Digits
      BY <2>2, <3>3
    <3> DEFINE stretch == [i \in 1..(e - k) |-> s[k + i]]
    <3>5. stretch \in [1..(e - k) -> Fetch!Digits]
      BY <3>4
    <3> HIDE DEF stretch
    <3>6. stretch \in Seq(Fetch!Digits)
      BY <3>3, <3>5
    <3> QED
      BY <3>2, <3>6 DEF stretch
  <2> QED
    BY <2>3, <2>4, ValueIsNat
<1> QED
  BY <1>1, <1>2

-----------------------------------------------------------------------------
(* What the agent got is a beginning of what the child printed, and the    *)
(* rest of it is in the pipe.  Once the agent has closed its end nothing is*)
(* printed any more, and a child that went well has printed the reply: so  *)
(* it was all in the buffer or in the pipe by then.                        *)
FetchIs == BodyMax \in Nat /\ PipeSize \in Nat /\ g_reply \in Rulesets /\ g_reply \in Seq(Int)

Transferred ==
    /\ printed \in 0..Len(g_reply) /\ g_total \in 0..printed /\ g_total <= BodyMax
    /\ printed - g_total <= PipeSize
    /\ g_pc = "get" => child = "none"
    /\ child = "done" => printed = Len(g_reply)
    /\ g_pc \in {"closed", "returned"} /\ child # "none" => g_total = BodyMax \/ g_total = printed

RulesetJudged ==
    \/ ruleset = Fetch!Failure
    \/ g_pc = "returned" /\ child = "done" /\ ruleset = Fetch!Extracted(Fetch!Body)

FetchInv ==
    /\ FetchIs /\ Transferred /\ RulesetJudged
    /\ g_pc \in {"get", "read", "closed", "returned"}
    /\ child \in {"none", "prints", "done", "failed"}

(* The invariant bears out what is promised.                               *)
LEMMA FetchInvImplies == FetchInv => Fetch!TypeOK /\ Fetch!RulesetsAreWhole
<1> SUFFICES ASSUME FetchInv PROVE Fetch!TypeOK /\ Fetch!RulesetsAreWhole
  OBVIOUS
<1>1. /\ BodyMax \in Nat /\ PipeSize \in Nat /\ g_reply \in Seq(Int) /\ Len(g_reply) \in Nat
      /\ printed \in 0..Len(g_reply) /\ g_total \in 0..printed /\ g_total <= BodyMax
      /\ g_total \in 0..Len(g_reply) /\ Fetch!Body \in Seq(Int)
  BY DEF FetchInv, FetchIs, Transferred, Fetch!Body
<1>2. \A d \in DOMAIN Fetch!Keys : Fetch!Extracted(Fetch!Body)[d] \in Nat
  BY <1>1, NumberIsNat DEF Fetch!Extracted
<1>3. Fetch!TypeOK
  BY <1>2 DEF FetchInv, FetchIs, Transferred, RulesetJudged, Fetch!TypeOK
<1>4. ASSUME g_pc = "returned", ruleset # Fetch!Failure
      PROVE  /\ Len(g_reply) <= BodyMax + PipeSize
             /\ Len(g_reply) <= BodyMax => ruleset = Fetch!Extracted(g_reply)
             /\ \A d \in DOMAIN Fetch!Keys :
                   ruleset[d] \notin {0, Fetch!Extracted(g_reply)[d]} =>
                       /\ BodyMax < Len(g_reply)
                       /\ g_reply[BodyMax] \in Fetch!Digits /\ g_reply[BodyMax + 1] \in Fetch!Digits
  <2>1. /\ child = "done" /\ ruleset = Fetch!Extracted(Fetch!Body)
        /\ printed = Len(g_reply) /\ printed - g_total <= PipeSize
        /\ g_total = BodyMax \/ g_total = printed
    BY <1>4 DEF FetchInv, RulesetJudged, Transferred
  <2>2. Len(g_reply) <= BodyMax + PipeSize
    BY <1>1, <2>1
  <2>3. Len(g_reply) <= BodyMax => ruleset = Fetch!Extracted(g_reply)
    <3>1. Len(g_reply) <= BodyMax => g_total = Len(g_reply)
      BY <1>1, <2>1
    <3>2. SubSeq(g_reply, 1, Len(g_reply)) = g_reply
      BY <1>1
    <3> QED
      BY <2>1, <3>1, <3>2 DEF Fetch!Body
  <2>4. ASSUME NEW d \in DOMAIN Fetch!Keys, ruleset[d] \notin {0, Fetch!Extracted(g_reply)[d]}
        PROVE  /\ BodyMax < Len(g_reply)
               /\ g_reply[BodyMax] \in Fetch!Digits /\ g_reply[BodyMax + 1] \in Fetch!Digits
    <3>1. /\ ruleset[d] = Fetch!NumberAfter(SubSeq(g_reply, 1, g_total), Fetch!Keys[d])
          /\ Fetch!Extracted(g_reply)[d] = Fetch!NumberAfter(g_reply, Fetch!Keys[d])
      BY <2>1 DEF Fetch!Extracted, Fetch!Body
    <3>2. g_total \in 1..(Len(g_reply) - 1) /\ g_reply[g_total] \in Fetch!Digits /\ g_reply[g_total + 1] \in Fetch!Digits
      BY <1>1, <2>4, <3>1, CutNumber
    <3>3. g_total = BodyMax /\ BodyMax < Len(g_reply)
      BY <1>1, <2>1, <3>2
    <3> QED
      BY <3>2, <3>3
  <2> QED
    BY <2>2, <2>3, <2>4
<1> QED
  BY <1>3, <1>4 DEF Fetch!RulesetsAreWhole

(* Every step keeps it.                                                    *)
LEMMA FetchStep == FetchInv /\ [Fetch!Next]_(Fetch!vars) => FetchInv'
<1> SUFFICES ASSUME FetchInv, [Fetch!Next]_(Fetch!vars) PROVE FetchInv'
  OBVIOUS
<1>1. g_reply' = g_reply
  BY DEF Fetch!Next, Fetch!vars, Fetch!Refused, Fetch!Popen, Fetch!Fread,
     Fetch!ReadingEnds, Fetch!Pclose, Fetch!Prints, Fetch!Exits, Fetch!Breaks
<1>2. FetchIs'
  BY <1>1 DEF FetchInv, FetchIs
<1>3. /\ BodyMax \in Nat /\ PipeSize \in Nat /\ Len(g_reply) \in Nat
  BY DEF FetchInv, FetchIs
<1>4. /\ Transferred'
      /\ g_pc' \in {"get", "read", "closed", "returned"}
      /\ child' \in {"none", "prints", "done", "failed"}
  <2>1. CASE Fetch!Refused
    BY <1>1, <1>3, <2>1 DEF FetchInv, Transferred, Fetch!Refused
  <2>2. CASE Fetch!Popen
    BY <1>1, <1>3, <2>2 DEF FetchInv, Transferred, Fetch!Popen
  <2>3. CASE Fetch!Fread
    BY <1>1, <1>3, <2>3 DEF FetchInv, Transferred, Fetch!Fread
  <2>4. CASE Fetch!ReadingEnds
    BY <1>1, <1>3, <2>4 DEF FetchInv, Transferred, Fetch!ReadingEnds
  <2>5. CASE Fetch!Pclose
    BY <1>1, <1>3, <2>5 DEF FetchInv, Transferred, Fetch!Pclose
  <2>6. CASE Fetch!Prints
    BY <1>1, <1>3, <2>6 DEF FetchInv, Transferred, Fetch!Prints
  <2>7. CASE Fetch!Exits
    BY <1>1, <1>3, <2>7 DEF FetchInv, Transferred, Fetch!Exits
  <2>8. CASE Fetch!Breaks
    BY <1>1, <1>3, <2>8 DEF FetchInv, Transferred, Fetch!Breaks
  <2>9. CASE UNCHANGED Fetch!vars
    BY <1>1, <1>3, <2>9 DEF FetchInv, Transferred, Fetch!vars
  <2> QED
    BY <2>1, <2>2, <2>3, <2>4, <2>5, <2>6, <2>7, <2>8, <2>9 DEF Fetch!Next
<1>5. RulesetJudged'
  <2>1. CASE Fetch!Pclose
    BY <2>1 DEF Fetch!Pclose, RulesetJudged, FetchInv, Fetch!Accepted, Fetch!Body
  <2>2. CASE ~Fetch!Pclose
    <3>1. ruleset' = ruleset
      BY <2>2 DEF Fetch!Next, Fetch!vars, Fetch!Refused, Fetch!Popen, Fetch!Fread,
         Fetch!ReadingEnds, Fetch!Prints, Fetch!Exits, Fetch!Breaks
    <3>2. ruleset # Fetch!Failure => g_pc = "returned" /\ child = "done"
      BY DEF FetchInv, RulesetJudged
    <3>3. ruleset # Fetch!Failure => UNCHANGED <<g_pc, child, g_total>>
      BY <2>2, <3>2 DEF Fetch!Next, Fetch!vars, Fetch!Refused, Fetch!Popen, Fetch!Fread,
         Fetch!ReadingEnds, Fetch!Prints, Fetch!Exits, Fetch!Breaks
    <3> QED
      BY <1>1, <3>1, <3>2, <3>3 DEF FetchInv, RulesetJudged, Fetch!Body
  <2> QED
    BY <2>1, <2>2
<1> QED
  BY <1>2, <1>4, <1>5 DEF FetchInv

(* It holds of every fetch.                                                *)
THEOREM FetchInvariance == Fetch!RulesetFetchAssumption => (Fetch!Spec => []FetchInv)
<1> SUFFICES ASSUME Fetch!RulesetFetchAssumption PROVE Fetch!Spec => []FetchInv
  OBVIOUS
<1>1. Fetch!Init => FetchInv
  <2> SUFFICES ASSUME Fetch!Init PROVE FetchInv
    OBVIOUS
  <2>1. FetchIs /\ Len(g_reply) \in Nat
    BY DEF Fetch!Init, Fetch!RulesetFetchAssumption, FetchIs
  <2> QED
    BY <2>1 DEF Fetch!Init, FetchInv, FetchIs, Transferred, RulesetJudged
<1> QED
  BY <1>1, FetchStep, PTL DEF Fetch!Spec

(* However the transfer went, of a reply of any length and content, with   *)
(* any buffer and pipe: a fetch that succeeds yields the thresholds of the *)
(* whole reply when it fits the buffer; of a longer one at most the number *)
(* that the end of the buffer cuts is wrong.                               *)
THEOREM RulesetsWhole == Fetch!RulesetFetchAssumption => (Fetch!Spec => [](Fetch!TypeOK /\ RulesetsAreWhole))
BY FetchInvImplies, FetchInvariance, PTL DEF RulesetsAreWhole

(*****************************************************************************)
(* CpuGauge                                                                  *)
(*****************************************************************************)

(* What a division yields.                                                 *)
LEMMA Quotient ==
    ASSUME NEW a \in Nat, NEW t \in Nat \ {0}, NEW q \in Nat, q * t <= a, a < q * t + t
    PROVE  a \div t = q
OBVIOUS

LEMMA QuotientExists ==
    ASSUME NEW a \in Nat, NEW t \in Nat \ {0}
    PROVE  /\ a \div t \in Nat
           /\ (a \div t) * t <= a /\ a < (a \div t) * t + t
OBVIOUS

(* What is not idle is busy: a hundred less the idle per cents, rounded    *)
(* down, are the busy per cents, rounded up.                               *)
LEMMA Complement ==
    ASSUME NEW b \in Nat, NEW d \in Nat, b + d > 0
    PROVE  /\ (d * 100) \div (b + d) \in 0..100
           /\ 100 - (d * 100) \div (b + d) = (100 * b + (b + d) - 1) \div (b + d)
<1> DEFINE t == b + d
           p == (d * 100) \div t
<1>1. t \in Nat \ {0} /\ d * 100 \in Nat /\ 100 * b + t - 1 \in Nat /\ d * 100 <= 100 * t
      /\ d * 100 = 100 * t - 100 * b
  OBVIOUS
<1>2. p \in Nat /\ p * t <= d * 100 /\ d * 100 < p * t + t
  BY <1>1, QuotientExists
<1> HIDE DEF p, t
<1>3. p <= 100
  <2>1. SUFFICES ASSUME p >= 101 PROVE FALSE
    BY <1>2
  <2>2. 101 * t <= p * t
    BY <1>1, <1>2, <2>1
  <2> QED
    BY <1>1, <1>2, <2>2
<1>4. 100 - p \in Nat /\ (100 - p) * t = 100 * t - p * t
  BY <1>1, <1>2, <1>3
<1>5. (100 * b + t - 1) \div t = 100 - p
  <2>1. p * t \in Nat
    BY <1>1, <1>2
  <2>2. /\ (100 - p) * t <= 100 * b + t - 1
        /\ 100 * b + t - 1 < (100 - p) * t + t
    BY <1>1, <1>2, <1>4, <2>1
  <2> HIDE DEF t
  <2> QED
    BY <1>1, <1>4, <2>2, Quotient
<1> QED
  BY <1>2, <1>3, <1>5 DEF p, t

-----------------------------------------------------------------------------
(* The counters kept are those of the latest reading, and a report is about*)
(* two readings between which no busy time was taken back.                 *)
IsReading(r) == r.busy \in 0..MaxTicks /\ r.idle \in 0..MaxTicks

Honest(r) ==
    /\ IsReading(r.from) /\ IsReading(r.to) /\ r.from.busy <= r.to.busy
    /\ r.percent \in 0..100
    /\ r.to.idle >= r.from.idle =>
         LET b == r.to.busy - r.from.busy
             d == r.to.idle - r.from.idle
         IN  r.percent = IF b + d > 0 THEN Cpu!Share(b, b + d)
                         ELSE Cpu!Share(r.to.busy, r.to.busy + r.to.idle)

GaugeInv ==
    /\ busy \in 0..MaxTicks /\ idle \in 0..MaxTicks
    /\ IsReading(read) /\ read.busy <= busy
    /\ prev_total = read.busy + read.idle /\ prev_idle = read.idle
    /\ report # Cpu!NoReport => Honest(report)

(* A number that fits is what it is as an unsigned one and as an int.      *)
LEMMA Fitting ==
    ASSUME Cpu!CpuGaugeAssumption, NEW n \in Nat
    PROVE  /\ n < WordModulus => Cpu!Unsigned(n) = n
           /\ n <= 100 => Cpu!AsInt(n) = n /\ Cpu!Clamped(n) = n
<1>1. n < WordModulus => n % WordModulus = n
  BY DEF Cpu!CpuGaugeAssumption
<1>2. n <= 100 => n % IntModulus = n /\ n < IntModulus \div 2
  BY DEF Cpu!CpuGaugeAssumption
<1> QED
  BY <1>1, <1>2 DEF Cpu!Unsigned, Cpu!AsInt, Cpu!Clamped

(* Whatever is clamped is a percentage.                                    *)
LEMMA ClampedIs == ASSUME NEW n \in Int PROVE Cpu!Clamped(n) \in 0..100
BY DEF Cpu!Clamped

(* The percentage over time that went forward.                             *)
LEMMA PercentOf ==
    ASSUME Cpu!CpuGaugeAssumption, NEW b \in 0..MaxTicks, NEW d \in 0..MaxTicks, b + d > 0
    PROVE  Cpu!Clamped(Cpu!AsInt(Cpu!Unsigned(100 - Cpu!Unsigned(d * 100) \div (b + d)))) = Cpu!Share(b, b + d)
<1>1. b \in Nat /\ d \in Nat /\ d * 100 \in Nat /\ d * 100 < WordModulus /\ 100 < WordModulus
  BY DEF Cpu!CpuGaugeAssumption
<1>2. Cpu!Unsigned(d * 100) = d * 100
  BY <1>1, Fitting
<1> DEFINE p == (d * 100) \div (b + d)
<1>3. p \in 0..100 /\ 100 - p = (100 * b + (b + d) - 1) \div (b + d)
  BY <1>1, Complement
<1> HIDE DEF p
<1>4. 100 - p \in Nat /\ 100 - p <= 100 /\ 100 - p < WordModulus
  <2>1. p \in 0..100 /\ WordModulus \in Nat
    BY <1>3 DEF Cpu!CpuGaugeAssumption
  <2>2. \A k \in 0..100 : 100 - k \in Nat /\ 100 - k <= 100
    OBVIOUS
  <2> QED
    BY <1>1, <2>1, <2>2
<1>5. Cpu!Unsigned(100 - p) = 100 - p /\ Cpu!AsInt(100 - p) = 100 - p /\ Cpu!Clamped(100 - p) = 100 - p
  BY <1>4, Fitting
<1>6. Cpu!Share(b, b + d) = 100 - p
  BY <1>3 DEF Cpu!Share
<1> QED
  BY <1>2, <1>5, <1>6 DEF p

(* Every percentage that is computed is one.                               *)
LEMMA PercentIs ==
    ASSUME Cpu!CpuGaugeAssumption, GaugeInv, Cpu!Percent # -1
    PROVE  /\ Cpu!Total > 0
           /\ Cpu!Percent \in 0..100
           /\ idle >= read.idle =>
                LET b == busy - read.busy
                    d == idle - read.idle
                IN  Cpu!Percent = IF b + d > 0 THEN Cpu!Share(b, b + d)
                              ELSE Cpu!Share(busy, busy + idle)
<1> DEFINE dt == IF Cpu!FirstSample THEN Cpu!Total ELSE Cpu!Total - prev_total
           di == IF Cpu!FirstSample THEN idle ELSE Cpu!Unsigned(idle - prev_idle)
           n == Cpu!AsInt(Cpu!Unsigned(100 - Cpu!Unsigned(di * 100) \div dt))
<1>1. /\ busy \in 0..MaxTicks /\ idle \in 0..MaxTicks /\ Cpu!Total = busy + idle
      /\ read.busy \in 0..MaxTicks /\ read.idle \in 0..MaxTicks /\ read.busy <= busy
      /\ prev_total = read.busy + read.idle /\ prev_idle = read.idle
      /\ MaxTicks \in Nat /\ WordModulus \in Nat \ {0} /\ IntModulus \in Nat \ {0}
  BY DEF GaugeInv, IsReading, Cpu!Total, Cpu!CpuGaugeAssumption
<1>2. dt # 0 /\ Cpu!Percent = Cpu!Clamped(n)
  BY DEF Cpu!Percent
<1>3. dt \in Nat \ {0} /\ Cpu!Total > 0
  BY <1>1, <1>2 DEF Cpu!FirstSample
<1>4. \A m \in Int : Cpu!Unsigned(m) \in Nat
  BY <1>1 DEF Cpu!Unsigned
<1>5. di \in Nat
  BY <1>1, <1>4
<1>6. n \in Int
  <2>1. Cpu!Unsigned(di * 100) \in Nat
    BY <1>4, <1>5
  <2>2. Cpu!Unsigned(di * 100) \div dt \in Nat
    BY <1>3, <2>1, QuotientExists
  <2>3. Cpu!Unsigned(100 - Cpu!Unsigned(di * 100) \div dt) \in Nat
    BY <1>4, <2>2
  <2>4. \A m \in Nat : Cpu!AsInt(m) \in Int
    BY <1>1 DEF Cpu!AsInt
  <2> QED
    BY <2>3, <2>4
<1>7. Cpu!Percent \in 0..100
  BY <1>2, <1>6, ClampedIs
<1>8. ASSUME idle >= read.idle
      PROVE  Cpu!Percent = IF (busy - read.busy) + (idle - read.idle) > 0
                       THEN Cpu!Share(busy - read.busy, (busy - read.busy) + (idle - read.idle))
                       ELSE Cpu!Share(busy, busy + idle)
  <2>1. CASE Cpu!FirstSample
    <3>1. dt = busy + idle /\ di = idle /\ busy + idle > 0
      BY <1>1, <1>3, <2>1
    <3>2. Cpu!Percent = Cpu!Share(busy, busy + idle)
      BY <1>1, <1>2, <3>1, PercentOf
    <3>3. (busy - read.busy) + (idle - read.idle) > 0 =>
             busy - read.busy = busy /\ idle - read.idle = idle
      BY <1>1, <1>8, <2>1 DEF Cpu!FirstSample
    <3> QED
      BY <3>2, <3>3
  <2>2. CASE ~Cpu!FirstSample
    <3>1. /\ busy - read.busy \in 0..MaxTicks /\ idle - read.idle \in 0..MaxTicks
          /\ (busy - read.busy) + (idle - read.idle) > 0
          /\ dt = (busy - read.busy) + (idle - read.idle)
          /\ idle - read.idle < WordModulus
      BY <1>1, <1>8, <2>2 DEF Cpu!FirstSample, Cpu!CpuGaugeAssumption
    <3>2. di = idle - read.idle
      BY <1>1, <2>2, <3>1, Fitting
    <3> QED
      BY <1>2, <3>1, <3>2, PercentOf
  <2> QED
    BY <2>1, <2>2
<1> QED
  BY <1>3, <1>7, <1>8

(* A reading is reported with what it comes from.                          *)
LEMMA HeartbeatStep == Cpu!CpuGaugeAssumption /\ GaugeInv /\ Cpu!Heartbeat => GaugeInv'
<1> SUFFICES ASSUME Cpu!CpuGaugeAssumption, GaugeInv, Cpu!Heartbeat PROVE GaugeInv'
  OBVIOUS
<1> DEFINE new == [percent |-> Cpu!Percent, from |-> read, to |-> Cpu!Counters]
<1>1. /\ busy' = busy /\ idle' = idle /\ prev_total' = busy + idle /\ prev_idle' = idle
      /\ read' = Cpu!Counters /\ Cpu!Counters.busy = busy /\ Cpu!Counters.idle = idle
      /\ report' = Cpu!NoReport \/ (Cpu!Percent # -1 /\ report' = new)
  BY DEF Cpu!Heartbeat, Cpu!Counters, Cpu!Total, Cpu!IdleKept
<1>2. IsReading(Cpu!Counters) /\ IsReading(read) /\ read.busy <= busy
  BY <1>1 DEF GaugeInv, IsReading
<1>3. Cpu!Percent # -1 => Honest(new)
  <2> SUFFICES ASSUME Cpu!Percent # -1 PROVE Honest(new)
    OBVIOUS
  <2>1. new.percent = Cpu!Percent /\ new.from = read /\ new.to = Cpu!Counters
    OBVIOUS
  <2> HIDE DEF new
  <2> QED
    BY <1>1, <1>2, <2>1, PercentIs DEF Honest
<1> HIDE DEF new
<1>4. report' # Cpu!NoReport => Honest(report')
  BY <1>1, <1>3
<1> QED
  BY <1>1, <1>2, <1>4 DEF GaugeInv, IsReading, Cpu!NoReport, Honest, Cpu!Share

(* The gauge tells what it should, however often it was read.              *)
THEOREM CpuInvariance == Cpu!CpuGaugeAssumption => (Cpu!Spec => []GaugeInv)
<1> SUFFICES ASSUME Cpu!CpuGaugeAssumption PROVE Cpu!Spec => []GaugeInv
  OBVIOUS
<1>1. Cpu!Init => GaugeInv
  BY DEF Cpu!Init, GaugeInv, IsReading, Cpu!CpuGaugeAssumption
<1>2. GaugeInv /\ Cpu!HeartbeatWithoutCpu => GaugeInv'
  BY DEF GaugeInv, IsReading, Cpu!HeartbeatWithoutCpu, Cpu!NoReport
<1>3. GaugeInv /\ Cpu!Passes => GaugeInv'
  <2> SUFFICES ASSUME GaugeInv, Cpu!Passes PROVE GaugeInv'
    OBVIOUS
  <2>1. /\ busy' \in 0..MaxTicks /\ busy <= busy' /\ idle' \in 0..MaxTicks
    BY DEF GaugeInv, Cpu!Passes, Cpu!CpuGaugeAssumption
  <2> QED
    BY <2>1 DEF GaugeInv, Cpu!Passes, Cpu!gauge, IsReading, Cpu!NoReport, Honest,
       Cpu!Share
<1>4. GaugeInv /\ UNCHANGED Cpu!vars => GaugeInv'
  BY DEF GaugeInv, Cpu!vars, Cpu!gauge, IsReading, Cpu!NoReport, Honest, Cpu!Share
<1> QED
  BY <1>1, <1>2, <1>3, <1>4, HeartbeatStep, PTL DEF Cpu!Spec, Cpu!Next

(* A heartbeat says a percentage and, unless idle time was taken back, the *)
(* share of busy time since the reading before.                            *)
THEOREM Reports == Cpu!CpuGaugeAssumption => (Cpu!Spec => []ReportsBusyShare)
<1>1. GaugeInv => ReportsBusyShare
  BY DEF ReportsBusyShare, GaugeInv, Honest, IsReading, Cpu!ReportsBusyShare
<1> QED
  BY <1>1, CpuInvariance, PTL

(*****************************************************************************)
(* ClientRoster                                                              *)
(*****************************************************************************)

(* The smallest element of a set of numbers.                               *)
LeastOf(I, m) == m \in I /\ \A k \in I : m <= k

(* The smallest of a set that has one.                                     *)
LEMMA RosterMinIs ==
    ASSUME NEW I \in SUBSET Nat, NEW m, LeastOf(I, m)
    PROVE  Roster!Min(I) = m
<1>1. m \in I /\ \A y \in I : m <= y
  BY DEF LeastOf
<1>2. \A x \in I : (\A y \in I : x <= y) => x = m
  BY <1>1
<1> QED
  BY <1>1, <1>2 DEF Roster!Min

(* The smallest index of a set of indices belongs to it.                   *)
LEMMA MinAmong ==
    ASSUME NEW I \in SUBSET Nat, I # {}
    PROVE  Roster!Min(I) \in I
<1>1. PICK m : LeastOf(I, m)
  BY LeastExists DEF LeastOf
<1> QED
  BY <1>1, RosterMinIs DEF LeastOf

(* The smaller of two numbers.                                             *)
LEMMA SmallerIs ==
    ASSUME NEW a \in Nat, NEW b \in Nat
    PROVE  Roster!Min({a, b}) = IF a <= b THEN a ELSE b
<1> DEFINE m == IF a <= b THEN a ELSE b
<1>1. LeastOf({a, b}, m)
  BY DEF LeastOf
<1> HIDE DEF m
<1>2. {a, b} \in SUBSET Nat
  OBVIOUS
<1>3. Roster!Min({a, b}) = m
  BY <1>1, <1>2, RosterMinIs
<1> QED
  BY <1>3 DEF m

-----------------------------------------------------------------------------
(* An address in the table is there once, with the time it was seen last,  *)
(* and what is missing was seen before all of a full table.                *)
Entry == [ip : Private, last_seen : 0..RosterTime]

ActivityInv ==
    /\ r_clock \in 0..RosterTime
    /\ heard \in [Hosts -> -1..RosterTime] /\ \A ip \in Hosts : heard[ip] <= r_clock
    /\ activity \in Seq(Entry) /\ Len(activity) <= ActivityMax
    /\ \A i, k \in DOMAIN activity : i # k => activity[i].ip # activity[k].ip
    /\ \A i \in DOMAIN activity : activity[i].last_seen = heard[activity[i].ip]
    /\ \A ip \in Private :
          heard[ip] >= 0 /\ Roster!At(activity, ip) = {} =>
             /\ Len(activity) = ActivityMax
             /\ \A i \in DOMAIN activity : heard[ip] <= activity[i].last_seen

ListInv ==
    /\ roster \in Seq([ip : Hosts, online : BOOLEAN])
    /\ Len(roster) <= ClientMax

RosterInv == ActivityInv /\ ListInv

LEMMA RosterInvImplies == RosterInv => Roster!TypeOK /\ Roster!StalestEvicted
BY DEF RosterInv, ActivityInv, ListInv, Roster!TypeOK, Roster!StalestEvicted, Entry

(* The entries of a table.                                                 *)
LEMMA EntriesAre ==
    ASSUME NEW table \in Seq(Entry), Roster!ClientRosterAssumption
    PROVE  /\ DOMAIN table = 1..Len(table) /\ Len(table) \in Nat
           /\ \A i \in DOMAIN table : /\ table[i].ip \in Private /\ table[i].ip \in Hosts
                                      /\ table[i].last_seen \in 0..RosterTime
                                      /\ table[i].last_seen \in Nat
<1>1. /\ DOMAIN table = 1..Len(table) /\ Len(table) \in Nat
      /\ \A i \in DOMAIN table : table[i] \in Entry
  OBVIOUS
<1>2. \A e \in Entry : e.ip \in Private /\ e.ip \in Hosts
                      /\ e.last_seen \in 0..RosterTime /\ e.last_seen \in Nat
  BY DEF Entry, Roster!ClientRosterAssumption
<1> QED
  BY <1>1, <1>2

(* Some entry is the oldest.                                               *)
LEMMA OldestIs ==
    ASSUME NEW table \in Seq(Entry), Len(table) # 0, Roster!ClientRosterAssumption
    PROVE  /\ Roster!Oldest(table) \in DOMAIN table
           /\ \A k \in DOMAIN table : table[Roster!Oldest(table)].last_seen <= table[k].last_seen
<1> DEFINE times == {table[i].last_seen : i \in DOMAIN table}
           oldest == {i \in DOMAIN table :
                         \A k \in DOMAIN table : table[i].last_seen <= table[k].last_seen}
<1>1. DOMAIN table = 1..Len(table) /\ Len(table) \in Nat /\ 1 \in DOMAIN table
      /\ \A i \in DOMAIN table : table[i].last_seen \in Nat
  BY EntriesAre
<1>2. times \in SUBSET Nat /\ times # {}
  BY <1>1
<1>3. PICK t : LeastOf(times, t)
  BY <1>2, LeastExists DEF LeastOf
<1>4. t \in times /\ \A k \in DOMAIN table : t <= table[k].last_seen
  BY <1>3 DEF LeastOf
<1>5. PICK i \in DOMAIN table : t = table[i].last_seen
  BY <1>4
<1>6. i \in oldest
  BY <1>4, <1>5
<1>7. oldest \in SUBSET Nat
  BY <1>1
<1>8. Roster!Oldest(table) = Roster!Min(oldest)
  BY DEF Roster!Oldest
<1> HIDE DEF oldest
<1>9. Roster!Oldest(table) \in oldest
  BY <1>6, <1>7, <1>8, MinAmong
<1> QED
  BY <1>9 DEF oldest

(* The entry of an address that has one.                                   *)
LEMMA PlaceOf ==
    ASSUME NEW table \in Seq(Entry), NEW ip, Roster!At(table, ip) # {}
    PROVE  Roster!Min(Roster!At(table, ip)) \in DOMAIN table /\ table[Roster!Min(Roster!At(table, ip))].ip = ip
<1>1. Roster!At(table, ip) \in SUBSET Nat
  BY DEF Roster!At
<1>2. Roster!Min(Roster!At(table, ip)) \in Roster!At(table, ip)
  BY <1>1, MinAmong
<1> QED
  BY <1>2 DEF Roster!At

-----------------------------------------------------------------------------
(* A table in which one entry is written, over one that was seen no later  *)
(* than any other or belongs to the same address.                          *)
LEMMA Overwritten ==
    ASSUME Roster!ClientRosterAssumption, ActivityInv, NEW ip \in Private, NEW p \in DOMAIN activity,
           activity' = [activity EXCEPT ![p] = [ip |-> ip, last_seen |-> r_clock]],
           heard' = [heard EXCEPT ![ip] = r_clock], r_clock' = r_clock,
           \/ activity[p].ip = ip
           \/ /\ Roster!At(activity, ip) = {} /\ Len(activity) = ActivityMax
              /\ \A k \in DOMAIN activity : activity[p].last_seen <= activity[k].last_seen
    PROVE  ActivityInv'
<1> DEFINE entry == [ip |-> ip, last_seen |-> r_clock]
<1>1. /\ activity \in Seq(Entry) /\ r_clock \in 0..RosterTime /\ ip \in Hosts
      /\ heard \in [Hosts -> -1..RosterTime] /\ entry \in Entry
      /\ entry.ip = ip /\ entry.last_seen = r_clock
  BY DEF ActivityInv, Entry, Roster!ClientRosterAssumption
<1> HIDE DEF entry
<1>2. /\ activity' \in Seq(Entry) /\ Len(activity') = Len(activity)
      /\ DOMAIN activity' = DOMAIN activity
      /\ activity'[p] = entry /\ \A i \in DOMAIN activity : i # p => activity'[i] = activity[i]
  BY <1>1 DEF entry
<1>3. /\ heard' \in [Hosts -> -1..RosterTime] /\ heard'[ip] = r_clock
      /\ \A a \in Hosts : a # ip => heard'[a] = heard[a]
      /\ \A a \in Hosts : heard'[a] <= r_clock
  BY <1>1 DEF ActivityInv
<1>4. \A i \in DOMAIN activity : i # p => activity[i].ip # ip
  BY DEF ActivityInv, Roster!At
<1>5. \A i, k \in DOMAIN activity : i # k => activity'[i].ip # activity'[k].ip
  BY <1>1, <1>2, <1>4 DEF ActivityInv
<1>6. \A i \in DOMAIN activity : /\ activity[i].ip \in Hosts
                                  /\ activity[i].last_seen \in Int
                                  /\ activity[i].last_seen = heard[activity[i].ip]
                                  /\ activity[i].last_seen <= r_clock
  BY <1>1, EntriesAre DEF ActivityInv
<1>7. \A i \in DOMAIN activity : activity'[i].last_seen = heard'[activity'[i].ip]
  BY <1>1, <1>2, <1>3, <1>4, <1>6
<1>8. \A i \in DOMAIN activity : activity[i].last_seen <= activity'[i].last_seen
  BY <1>1, <1>2, <1>6
<1>9. ASSUME NEW x \in Private, heard'[x] >= 0, Roster!At(activity', x) = {}
      PROVE  /\ Len(activity) = ActivityMax
             /\ \A i \in DOMAIN activity : heard'[x] <= activity'[i].last_seen
  <2>1. x # ip /\ x \in Hosts /\ heard'[x] = heard[x] /\ heard[x] \in Int
    <3>1. x # ip
      BY <1>1, <1>2, <1>9 DEF Roster!At
    <3> QED
      BY <1>1, <1>3, <3>1 DEF Roster!ClientRosterAssumption
  <2>2. \A i \in DOMAIN activity : i # p => activity[i].ip # x
    BY <1>2, <1>9 DEF Roster!At
  <2>3. Len(activity) = ActivityMax
        /\ \A i \in DOMAIN activity : heard[x] <= activity[i].last_seen
    <3>1. CASE activity[p].ip = x
      BY <1>6, <2>1, <3>1
    <3>2. CASE activity[p].ip # x
      <4>1. Roster!At(activity, x) = {}
        BY <2>2, <3>2 DEF Roster!At
      <4> QED
        BY <1>9, <2>1, <4>1 DEF ActivityInv
    <3> QED
      BY <3>1, <3>2
  <2>4. ASSUME NEW i \in DOMAIN activity PROVE heard'[x] <= activity'[i].last_seen
    <3>1. activity'[i].last_seen \in Int /\ activity[i].last_seen \in Int
      BY <1>1, <1>2, <1>6
    <3> QED
      BY <1>8, <2>1, <2>3, <3>1
  <2> QED
    BY <2>3, <2>4
<1> QED
  BY <1>1, <1>2, <1>3, <1>5, <1>7, <1>9 DEF ActivityInv

(* A table with room takes an address that is not in it.                   *)
LEMMA Appended ==
    ASSUME Roster!ClientRosterAssumption, ActivityInv, NEW ip \in Private,
           Len(activity) < ActivityMax, Roster!At(activity, ip) = {},
           activity' = Append(activity, [ip |-> ip, last_seen |-> r_clock]),
           heard' = [heard EXCEPT ![ip] = r_clock], r_clock' = r_clock
    PROVE  ActivityInv'
<1> DEFINE entry == [ip |-> ip, last_seen |-> r_clock]
           l == Len(activity)
<1>1. /\ activity \in Seq(Entry) /\ r_clock \in 0..RosterTime /\ ip \in Hosts
      /\ heard \in [Hosts -> -1..RosterTime] /\ entry \in Entry
      /\ entry.ip = ip /\ entry.last_seen = r_clock
      /\ ActivityMax \in Nat /\ l \in Nat /\ l < ActivityMax /\ DOMAIN activity = 1..l
  BY DEF ActivityInv, Entry, Roster!ClientRosterAssumption
<1> HIDE DEF entry
<1>2. /\ activity' \in Seq(Entry) /\ Len(activity') = l + 1
      /\ DOMAIN activity' = 1..(l + 1) /\ activity'[l + 1] = entry
      /\ \A i \in 1..l : activity'[i] = activity[i]
  BY <1>1 DEF entry
<1> HIDE DEF l
<1>3. /\ heard' \in [Hosts -> -1..RosterTime] /\ heard'[ip] = r_clock
      /\ \A a \in Hosts : a # ip => heard'[a] = heard[a]
      /\ \A a \in Hosts : heard'[a] <= r_clock
  BY <1>1 DEF ActivityInv
<1>4. \A i \in 1..l : activity[i].ip # ip
  BY <1>1 DEF ActivityInv, Roster!At
<1>5. \A i \in 1..(l + 1) : i = l + 1 \/ i \in 1..l
  BY <1>1
<1>6. \A i, k \in 1..(l + 1) : i # k => activity'[i].ip # activity'[k].ip
  BY <1>1, <1>2, <1>4, <1>5 DEF ActivityInv
<1>7. \A i \in 1..l : activity[i].ip \in Hosts /\ activity[i].last_seen = heard[activity[i].ip]
  BY <1>1, EntriesAre DEF ActivityInv
<1>8. \A i \in 1..(l + 1) : activity'[i].last_seen = heard'[activity'[i].ip]
  BY <1>1, <1>2, <1>3, <1>4, <1>5, <1>7
<1>9. ASSUME NEW x \in Private, heard'[x] >= 0, Roster!At(activity', x) = {}
      PROVE  FALSE
  <2>1. x # ip /\ \A i \in 1..l : activity[i].ip # x
    <3>1. l + 1 \in 1..(l + 1) /\ \A i \in 1..l : i \in 1..(l + 1)
      BY <1>1
    <3> QED
      BY <1>1, <1>2, <1>9, <3>1 DEF Roster!At
  <2>2. x \in Hosts /\ heard[x] >= 0 /\ Roster!At(activity, x) = {}
    BY <1>1, <1>3, <1>9, <2>1 DEF Roster!At, Roster!ClientRosterAssumption
  <2>3. Len(activity) = ActivityMax
    BY <2>2 DEF ActivityInv
  <2> QED
    BY <1>1, <2>3
<1>10. Len(activity') <= ActivityMax
  BY <1>1, <1>2
<1> QED
  BY <1>1, <1>2, <1>3, <1>6, <1>8, <1>9, <1>10 DEF ActivityInv

(* A packet is noted.                                                      *)
LEMMA PacketStep == Roster!ClientRosterAssumption /\ RosterInv /\ Roster!Packet => RosterInv'
<1> SUFFICES ASSUME Roster!ClientRosterAssumption, RosterInv, Roster!Packet PROVE RosterInv'
  OBVIOUS
<1>1. PICK ip \in Hosts : /\ activity' = Roster!Touched(activity, ip, r_clock)
                              /\ heard' = [heard EXCEPT ![ip] = r_clock]
  BY DEF Roster!Packet
<1>2. roster' = roster /\ r_clock' = r_clock /\ ActivityInv
  BY DEF Roster!Packet, RosterInv
<1>3. ListInv'
  BY <1>2 DEF RosterInv, ListInv
<1> DEFINE entry == [ip |-> ip, last_seen |-> r_clock]
<1>4. CASE ip \notin Private
  <2>1. activity' = activity
    BY <1>1, <1>4 DEF Roster!Touched
  <2>2. /\ heard' \in [Hosts -> -1..RosterTime]
        /\ \A a \in Hosts : heard'[a] <= r_clock /\ (a # ip => heard'[a] = heard[a])
    BY <1>1, <1>2 DEF ActivityInv
  <2>3. \A a \in Private : a \in Hosts /\ heard'[a] = heard[a]
    BY <1>4, <2>2 DEF Roster!ClientRosterAssumption
  <2>4. \A i \in DOMAIN activity : activity[i].ip \in Private
    BY <1>2, EntriesAre DEF ActivityInv
  <2> QED
    BY <1>2, <1>3, <2>1, <2>2, <2>3, <2>4 DEF RosterInv, ActivityInv, Roster!At
<1>5. CASE ip \in Private /\ Roster!At(activity, ip) # {}
  <2> DEFINE p == Roster!Min(Roster!At(activity, ip))
  <2>1. activity' = [activity EXCEPT ![p] = entry]
    BY <1>1, <1>5 DEF Roster!Touched
  <2>2. p \in DOMAIN activity /\ activity[p].ip = ip
    BY <1>2, <1>5, PlaceOf DEF ActivityInv
  <2> HIDE DEF p
  <2>3. ActivityInv'
    BY <1>1, <1>2, <1>5, <2>1, <2>2, Overwritten
  <2> QED
    BY <1>3, <2>3 DEF RosterInv
<1>6. CASE ip \in Private /\ Roster!At(activity, ip) = {} /\ Len(activity) < ActivityMax
  <2>1. activity' = Append(activity, entry)
    BY <1>1, <1>6 DEF Roster!Touched
  <2>2. ActivityInv'
    BY <1>1, <1>2, <1>6, <2>1, Appended
  <2> QED
    BY <1>3, <2>2 DEF RosterInv
<1>7. CASE ip \in Private /\ Roster!At(activity, ip) = {} /\ ~(Len(activity) < ActivityMax)
  <2> DEFINE p == Roster!Oldest(activity)
  <2>1. activity' = [activity EXCEPT ![p] = entry]
    BY <1>1, <1>7 DEF Roster!Touched
  <2>2. Len(activity) = ActivityMax /\ Len(activity) # 0
        /\ activity \in Seq(Entry)
    BY <1>2, <1>7 DEF ActivityInv, Roster!ClientRosterAssumption
  <2>3. p \in DOMAIN activity
        /\ \A k \in DOMAIN activity : activity[p].last_seen <= activity[k].last_seen
    BY <2>2, OldestIs
  <2> HIDE DEF p
  <2>4. ActivityInv'
    BY <1>1, <1>2, <1>7, <2>1, <2>2, <2>3, Overwritten
  <2> QED
    BY <1>3, <2>4 DEF RosterInv
<1> QED
  BY <1>4, <1>5, <1>6, <1>7

-----------------------------------------------------------------------------
(* What is collected of a list of leases.                                  *)
LEMMA CollectedIs ==
    ASSUME Roster!ClientRosterAssumption, NEW leases \in Leases, NEW table, NEW now
    PROVE  /\ Roster!Collected(leases, table, now) \in Seq([ip : Hosts, online : BOOLEAN])
           /\ Len(Roster!Collected(leases, table, now)) <= ClientMax
           /\ \A i \in DOMAIN Roster!Collected(leases, table, now) :
                 /\ Roster!Collected(leases, table, now)[i].ip \in Hosts
                 /\ Roster!Collected(leases, table, now)[i].online
                      = Roster!Online(table, Roster!Collected(leases, table, now)[i].ip, now)
<1> DEFINE n == Roster!Min({Len(leases), ClientMax})
           list == [i \in 1..n |-> [ip |-> leases[i], online |-> Roster!Online(table, leases[i], now)]]
<1>1. leases \in Seq(Hosts) /\ Len(leases) \in Nat /\ ClientMax \in Nat
  BY DEF Roster!ClientRosterAssumption
<1>2. n \in 0..Len(leases) /\ n <= ClientMax
  BY <1>1, SmallerIs
<1> HIDE DEF n
<1>3. DOMAIN SubSeq(leases, 1, n) = 1..n
  BY <1>1, <1>2
<1>4. Roster!Collected(leases, table, now) = list
  BY <1>3 DEF Roster!Collected, Roster!Fitting, n
<1>5. \A i \in 1..n : leases[i] \in Hosts /\ Roster!Online(table, leases[i], now) \in BOOLEAN
  BY <1>1, <1>2 DEF Roster!Online
<1>6. list \in [1..n -> [ip : Hosts, online : BOOLEAN]]
  BY <1>5
<1>7. n \in Nat
  BY <1>1, <1>2
<1>8. \A i \in 1..n : list[i].ip = leases[i] /\ list[i].online = Roster!Online(table, leases[i], now)
  OBVIOUS
<1>9. DOMAIN list = 1..n
  OBVIOUS
<1> HIDE DEF list
<1>10. list \in Seq([ip : Hosts, online : BOOLEAN]) /\ Len(list) = n
  <2> DEFINE R == [ip : Hosts, online : BOOLEAN]
  <2>1. list \in [1..n -> R]
    BY <1>6
  <2> HIDE DEF R
  <2>2. list \in Seq(R) /\ Len(list) = n
    BY <1>7, <2>1
  <2> QED
    BY <2>2 DEF R
<1> QED
  BY <1>2, <1>4, <1>5, <1>8, <1>9, <1>10

(* A roster is collected.                                                  *)
LEMMA CollectStep == Roster!ClientRosterAssumption /\ RosterInv /\ Roster!Collect => RosterInv'
<1> SUFFICES ASSUME Roster!ClientRosterAssumption, RosterInv, Roster!Collect PROVE RosterInv'
  OBVIOUS
<1>1. PICK leases \in Leases : roster' = Roster!Collected(leases, activity, r_clock)
  BY DEF Roster!Collect
<1>2. ListInv'
  BY <1>1, CollectedIs DEF ListInv
<1>3. ActivityInv'
  BY DEF Roster!Collect, RosterInv, ActivityInv
<1> QED
  BY <1>2, <1>3 DEF RosterInv

(* Time passes.                                                            *)
LEMMA TickStep == Roster!ClientRosterAssumption /\ RosterInv /\ Roster!Tick => RosterInv'
<1> SUFFICES ASSUME Roster!ClientRosterAssumption, RosterInv, Roster!Tick PROVE RosterInv'
  OBVIOUS
<1>1. /\ r_clock \in 0..RosterTime /\ r_clock < RosterTime /\ r_clock' = r_clock + 1 /\ RosterTime \in Nat
      /\ activity' = activity /\ roster' = roster /\ heard' = heard
  BY DEF RosterInv, ActivityInv, Roster!Tick, Roster!ClientRosterAssumption
<1>2. ASSUME NEW ip \in Hosts PROVE heard[ip] <= r_clock + 1
  <2>1. heard[ip] \in Int /\ heard[ip] <= r_clock
    BY DEF RosterInv, ActivityInv
  <2> QED
    BY <1>1, <2>1
<1>3. r_clock' \in 0..RosterTime
  BY <1>1
<1> QED
  BY <1>1, <1>2, <1>3 DEF RosterInv, ActivityInv, ListInv, Roster!At

(* The strengthening holds whatever packets come and leases there are.     *)
THEOREM RosterInvariance == Roster!ClientRosterAssumption => (Roster!Spec => []RosterInv)
<1> SUFFICES ASSUME Roster!ClientRosterAssumption PROVE Roster!Spec => []RosterInv
  OBVIOUS
<1>1. Roster!Init => RosterInv
  <2> SUFFICES ASSUME Roster!Init PROVE RosterInv
    OBVIOUS
  <2>1. /\ <<>> \in Seq(Entry) /\ <<>> \in Seq([ip : Hosts, online : BOOLEAN])
        /\ Len(<<>>) = 0 /\ DOMAIN <<>> = {}
    OBVIOUS
  <2>2. RosterTime \in Nat /\ ActivityMax \in Nat /\ ClientMax \in Nat
    BY DEF Roster!ClientRosterAssumption
  <2>3. heard \in [Hosts -> -1..RosterTime] /\ \A ip \in Hosts : heard[ip] = -1
    BY <2>2 DEF Roster!Init
  <2>4. \A ip \in Private : heard[ip] = -1
    BY <2>3 DEF Roster!ClientRosterAssumption
  <2> QED
    BY <2>1, <2>2, <2>3, <2>4 DEF Roster!Init, RosterInv, ActivityInv, ListInv
<1>2. RosterInv /\ UNCHANGED Roster!vars => RosterInv'
  BY DEF RosterInv, ActivityInv, ListInv, Roster!vars, Roster!At
<1> QED
  BY <1>1, <1>2, PacketStep, CollectStep, TickStep, PTL DEF Roster!Spec, Roster!Next

(* A full table loses whom it saw longest ago.                             *)
THEOREM Evictions == Roster!ClientRosterAssumption => (Roster!Spec => []StalestEvicted)
BY RosterInvariance, RosterInvImplies, PTL DEF StalestEvicted

-----------------------------------------------------------------------------
(* Sets have as many elements for the roster as elsewhere.                 *)
LEMMA SameCardinality ==
    ASSUME NEW S
    PROVE  Roster!Cardinality(S) = Cardinality(S)
BY Zenon DEF Roster!Cardinality, Cardinality, Roster!IsFiniteSet, IsFiniteSet

(* Whom a full table misses, as many others are as it has places.          *)
LEMMA FullTableBusier ==
    ASSUME Roster!ClientRosterAssumption, ActivityInv, IsFiniteSet(Private),
           NEW ip \in Private, heard[ip] >= 0, Roster!At(activity, ip) = {}
    PROVE  Cardinality(Roster!Busier(ip)) >= ActivityMax
<1> DEFINE f == [k \in 1..ActivityMax |-> activity[k].ip]
           others == Roster!Busier(ip)
<1>1. /\ Len(activity) = ActivityMax /\ ActivityMax \in Nat
      /\ DOMAIN activity = 1..ActivityMax
      /\ \A k \in DOMAIN activity : heard[ip] <= activity[k].last_seen
      /\ \A k \in DOMAIN activity : activity[k].last_seen = heard[activity[k].ip]
      /\ \A k \in DOMAIN activity : activity[k].ip \in Private
      /\ \A i, k \in DOMAIN activity : i # k => activity[i].ip # activity[k].ip
      /\ heard[ip] \in Int /\ \A k \in DOMAIN activity : activity[k].last_seen \in Nat
  BY EntriesAre DEF ActivityInv, Roster!ClientRosterAssumption
<1>2. \A k \in DOMAIN activity : activity[k].ip # ip
  BY DEF Roster!At
<1>3. ASSUME NEW k \in 1..ActivityMax PROVE activity[k].ip \in others
  <2>1. heard[activity[k].ip] >= heard[ip]
    BY <1>1
  <2> QED
    BY <1>1, <1>2, <2>1 DEF Roster!Busier
<1>4. IsFiniteSet(others)
  BY FS_Subset DEF Roster!Busier
<1> HIDE DEF others
<1>5. f \in Injection(1..ActivityMax, others)
  BY <1>1, <1>3 DEF Injection, IsInjective
<1>6. Cardinality(1..ActivityMax) = ActivityMax /\ Cardinality(others) \in Nat
  <2>1. Cardinality(1..ActivityMax) = IF 1 > ActivityMax THEN 0 ELSE ActivityMax - 1 + 1
    <3>1. 1 \in Int /\ ActivityMax \in Int
      BY <1>1
    <3> QED
      BY <3>1, FS_Interval, Zenon
  <2> QED
    BY <1>1, <1>4, <2>1, FS_CardinalityType
<1>7. Cardinality(1..ActivityMax) <= Cardinality(others)
  BY <1>4, <1>5, FS_Injection
<1> QED
  BY <1>1, <1>6, <1>7 DEF others

(* What OnlineIsHonest says of a new roster.                               *)
MarkedHonestly ==
    \A i \in DOMAIN roster' :
       LET ip == roster'[i].ip
           fresh == /\ ip \in Private /\ heard[ip] >= 0
                    /\ r_clock - heard[ip] <= OnlineSeconds
       IN  /\ roster'[i].online => fresh
           /\ fresh /\ ~roster'[i].online => Roster!Cardinality(Roster!Busier(ip)) >= ActivityMax

LEMMA HonestStep ==
    Roster!ClientRosterAssumption /\ IsFiniteSet(Private) /\ RosterInv /\ [Roster!Next]_(Roster!vars)
       => [roster' # roster => MarkedHonestly]_(Roster!vars)
<1> SUFFICES ASSUME Roster!ClientRosterAssumption, IsFiniteSet(Private), RosterInv, [Roster!Next]_(Roster!vars),
                    roster' # roster, NEW i \in DOMAIN roster'
             PROVE  LET ip == roster'[i].ip
                        fresh == /\ ip \in Private /\ heard[ip] >= 0
                                 /\ r_clock - heard[ip] <= OnlineSeconds
                    IN  /\ roster'[i].online => fresh
                        /\ fresh /\ ~roster'[i].online
                              => Roster!Cardinality(Roster!Busier(ip)) >= ActivityMax
  BY DEF MarkedHonestly
<1> DEFINE ip == roster'[i].ip
           m == Roster!Min(Roster!At(activity, ip))
           fresh == ip \in Private /\ heard[ip] >= 0 /\ r_clock - heard[ip] <= OnlineSeconds
<1>1. PICK leases \in Leases : roster' = Roster!Collected(leases, activity, r_clock)
  BY DEF Roster!Next, Roster!vars, Roster!Packet, Roster!Collect, Roster!Tick
<1>2. ip \in Hosts /\ roster'[i].online = Roster!Online(activity, ip, r_clock)
  BY <1>1, CollectedIs
<1>3. ActivityInv /\ activity \in Seq(Entry)
  BY DEF RosterInv, ActivityInv
<1> HIDE DEF ip
<1>4. Roster!At(activity, ip) # {} =>
         /\ m \in DOMAIN activity /\ activity[m].ip = ip /\ ip \in Private
         /\ activity[m].last_seen = heard[ip] /\ heard[ip] >= 0
  <2> SUFFICES ASSUME Roster!At(activity, ip) # {}
               PROVE  /\ m \in DOMAIN activity /\ activity[m].ip = ip /\ ip \in Private
                      /\ activity[m].last_seen = heard[ip] /\ heard[ip] >= 0
    OBVIOUS
  <2>1. m \in DOMAIN activity /\ activity[m].ip = ip
    BY <1>3, PlaceOf
  <2> HIDE DEF m
  <2>2. /\ activity[m].ip \in Private /\ activity[m].last_seen \in Nat
        /\ activity[m].last_seen = heard[activity[m].ip]
    BY <1>3, <2>1, EntriesAre DEF ActivityInv
  <2> QED
    BY <2>1, <2>2
<1>5. Roster!Online(activity, ip, r_clock) <=>
         Roster!At(activity, ip) # {} /\ r_clock - activity[m].last_seen <= OnlineSeconds
  BY DEF Roster!Online, Roster!WithinWindow
<1>6. roster'[i].online => fresh
  BY <1>2, <1>4, <1>5
<1>7. fresh /\ ~roster'[i].online => Roster!Cardinality(Roster!Busier(ip)) >= ActivityMax
  <2> SUFFICES ASSUME fresh, ~roster'[i].online
               PROVE  Roster!Cardinality(Roster!Busier(ip)) >= ActivityMax
    OBVIOUS
  <2>1. Roster!At(activity, ip) = {}
    BY <1>2, <1>4, <1>5
  <2> QED
    BY <1>3, <2>1, FullTableBusier, SameCardinality
<1> QED
  BY <1>6, <1>7 DEF ip

(* Whoever is marked online was seen within the window; whoever was and is *)
(* not marked was thrown out for as many others as the table has places.   *)
(* Addresses are finitely many.                                            *)
THEOREM OnlineHonest ==
    Roster!ClientRosterAssumption /\ IsFiniteSet(Private) => (Roster!Spec => OnlineIsHonest)
<1> SUFFICES ASSUME Roster!ClientRosterAssumption, IsFiniteSet(Private) PROVE Roster!Spec => OnlineIsHonest
  OBVIOUS
<1>1. RosterInv /\ [Roster!Next]_(Roster!vars) => [roster' # roster => MarkedHonestly]_(Roster!vars)
  BY HonestStep
<1> QED
  BY <1>1, RosterInvariance, PTL DEF Roster!Spec, OnlineIsHonest, Roster!OnlineIsHonest,
     MarkedHonestly
=============================================================================

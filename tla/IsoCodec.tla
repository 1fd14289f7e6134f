------------------------------ MODULE IsoCodec ------------------------------
(***************************************************************************)
(* Messages and their text (src/iso/iso_messages.go, src/iso/bit_set.go)   *)
(* where the server uses them: a template filled in and sent, its reply,   *)
(* the refund made of a logged sale (src/network/server/iso_server.go and  *)
(* refund.go) and the answer to a request of a client                      *)
(* (src/network/server/iso_response_handler.go).                           *)
(*                                                                         *)
(* A message has the bits of its bitmaps as a set of field indices (the    *)
(* field's number less one), 0 being the bit of the secondary bitmap, and  *)
(* its fields as a function; nothing makes the two agree.  The text has    *)
(* the MTI, the bits, and the rest as a sequence of characters.  These are *)
(* numbers: the digits 0..9 and codes for tags and letters.  Values are as *)
(* short as they can be, and the length of a variable field is one digit.  *)
(***************************************************************************)
EXTENDS Integers, SequencesExt

CONSTANTS
  MTIs,          \* the MTIs of requests, as numbers
  LastDigits,    \* the digits a card number may end with
  Amounts,       \* the amounts, one digit each
  TagSets,       \* what field 123 of a request may carry
  Unread         \* what NewIso8583Message returns for a text it cannot read

ASSUME IsoCodecAssumption ==
  /\ MTIs \subseteq {100, 101, 200, 201, 420, 421, 800}
  /\ LastDigits \subseteq 0..9 /\ Amounts \subseteq 0..9
  /\ TagSets \subseteq SUBSET {"SUPPORT", "RETURNBAL", "CV", "OtherCV"}
  /\ \A tags \in TagSets : ~ {"CV", "OtherCV"} \subseteq tags

VARIABLES
  stage,     \* "template", "request", "refund", "reply", "incoming" or "answer"
  message,   \* the message as its sender means it
  wire,      \* its text
  awaited    \* the reference whose reply is awaited

vars == <<stage, message, wire, awaited>>

-----------------------------------------------------------------------------
(* The fields, by index: number of the card, processing code, amount,      *)
(* audit number, reference, authorization, response code, additional       *)
(* amounts and the issuer's data.                                          *)

VarFields == {1, 53, 122}
MinLength == [f \in {2, 3, 10, 36, 37, 38} |-> IF f \in {2, 38} THEN 2 ELSE 1]
FieldDefMap == VarFields \cup DOMAIN MinLength

GetField(m, f) == IF f \in DOMAIN m.fields THEN m.fields[f] ELSE <<>>
SetField(m, f, value) == [m EXCEPT !.fields = (f :> value) @@ @]

\* A mutant of MarkField: the secondary bitmap is not enabled.
MarkBitOnly(m, f) == [m EXCEPT !.bits = @ \cup {f}]

\* A bit of the secondary bitmap needs the bit that says there is one.
MarkField(m, f) == [m EXCEPT !.bits = @ \cup {f} \cup (IF f < 64 THEN {} ELSE {0})]

\* The indices of a set in the order of the loops over them; 0 is not a field.
InOrder(indices) == SelectSeq([i \in 1..127 |-> i], LAMBDA i : i \in indices)

\* Every field there is goes into the text, whatever its bit says.
FormatIso(m) ==
  LET count == IF 0 \in m.bits THEN 128 ELSE 64
      written == {f \in DOMAIN m.fields \cap FieldDefMap : f < count}
      Formatted(f) == IF f \in VarFields THEN <<Len(m.fields[f])>> \o m.fields[f] ELSE m.fields[f]
  IN [mti |-> m.mti, bits |-> {b \in m.bits : b < count},
      body |-> FoldLeft(LAMBDA text, f : text \o Formatted(f), <<>>, InOrder(written))]

\* parseMessage: the field f taken from what is left of the text.
TakeField(parsed, f) ==
  LET prefix == IF f \in VarFields THEN 1 ELSE 0
      start == parsed.left
      readable == /\ parsed.ok /\ f \in FieldDefMap
                  /\ prefix <= Len(start) /\ (prefix = 1 => Head(start) \in 0..9)
      length == IF prefix = 1 THEN Head(start) ELSE MinLength[f]
  IN IF readable /\ prefix + length <= Len(start)
     THEN [ok |-> TRUE, left |-> SubSeq(start, prefix + length + 1, Len(start)),
           fields |-> (f :> SubSeq(start, prefix + 1, prefix + length)) @@ parsed.fields]
     ELSE [parsed EXCEPT !.ok = FALSE]

\* The fields whose bits are set, in their order; what is left over is ignored.
NewIso8583Message(text) ==
  LET start == [ok |-> TRUE, left |-> text.body, fields |-> <<>>]
      parsed == FoldLeft(TakeField, start, InOrder(text.bits))
  IN IF parsed.ok THEN [mti |-> text.mti, bits |-> text.bits, fields |-> parsed.fields] ELSE Unread

-----------------------------------------------------------------------------
(* Requests: a template, or what a client sends.  A sale has processing    *)
(* code 0x; a card number of one digit stands for one that is too short.   *)
(* OtherCV is a CV tag with a length that getIsoMessage does not know.     *)

Tag == [SUPPORT |-> 10, RETURNBAL |-> 11, CV |-> 12, OtherCV |-> 13]
Carries(data, tag) == Tag[tag] \in Range(data)

Pans == {<<1>>} \cup {<<1, d>> : d \in LastDigits}
IssuerData == {InOrder({Tag[t] : t \in tags}) : tags \in TagSets}

\* A well-formed request with the optional fields some.
Requests(some) ==
  LET Fields(pan, amount, data) ==
        (1 :> pan) @@ (2 :> <<0, 7>>) @@ (3 :> <<amount>>) @@ (10 :> <<3>>) @@ (36 :> <<4>>) @@ (122 :> data)
      present == some \cup {2, 10}
  IN {[mti |-> mti, bits |-> present \cup (IF 122 \in some THEN {0} ELSE {}),
       fields |-> Restrict(Fields(pan, amount, data), present)] :
        mti \in MTIs, pan \in Pans, amount \in Amounts, data \in IssuerData}

\* Every template has a reference; a client's request may do without any of these.
Templates == UNION {Requests(some \cup {1, 3, 36}) : some \in SUBSET {122}}
Incoming == UNION {Requests(some) : some \in SUBSET {1, 3, 36, 122}}

-----------------------------------------------------------------------------
(* The server as acquirer.                                                 *)

\* A mutant of Filled: the reference of the template stays.
FilledOld(template, reference) == NewIso8583Message(template)

\* getIsoMessage: the card's number and security code, and a new reference.  The code
\* keeps what comes before the tag CV and writes the card's value after it, if any.
Filled(template, reference) ==
  LET m == NewIso8583Message(template)
      data == GetField(m, 122)
      card == IF GetField(m, 1) # <<>> THEN SetField(m, 1, <<5, 5>>) ELSE m
      before == SelectSeq(data, LAMBDA c : c < Tag.CV)
      code == IF Carries(data, "CV") THEN <<Tag.CV, 9>> ELSE <<>>
      coded == IF before # data THEN SetField(card, 122, before \o code) ELSE card
  IN SetField(coded, 36, reference)

SendSingleMessage ==
  /\ stage = "template"
  /\ awaited' = <<6>> /\ stage' = "request"
  /\ message' = Filled(wire, awaited')
  /\ wire' = FormatIso(message')

\* The logged text of a sale read again, with a new audit number and reference.
SendRefund ==
  /\ stage = "request" /\ message.mti \in {100, 200}
  /\ LET sale == NewIso8583Message(wire)
         code == SetField(sale, 2, <<2, GetField(sale, 2)[2]>>)
         stan == IF GetField(code, 10) # <<>> THEN SetField(code, 10, <<8>>) ELSE code
     IN message' = SetField(stan, 36, <<8>>)
  /\ awaited' = <<8>> /\ stage' = "refund"
  /\ wire' = FormatIso(message')

\* The client's reply: the same text with the response's MTI.
ClientReply ==
  /\ stage \in {"request", "refund"}
  /\ wire' = [wire EXCEPT !.mti = @ + 10]
  /\ message' = [message EXCEPT !.mti = @ + 10]
  /\ stage' = "reply" /\ UNCHANGED awaited

-----------------------------------------------------------------------------
(* The server as issuer.                                                   *)

responseMTISet == {110, 111, 130, 131, 210, 211, 230, 231, 430, 431, 810}
toResponseMTI(mti) == 2 * (mti \div 2) + 10

NewResponseMessage(request, mti) == [request EXCEPT !.mti = mti]

Amount(m) == IF GetField(m, 3) = <<>> THEN 0 ELSE GetField(m, 3)[1]

\* The codes for the last digit of the card's number; declines have several.
ResponseCodes(request) ==
  LET pan == GetField(request, 1)
      digit == IF pan[2] = 7 /\ Amount(request) = 0 THEN 0 ELSE pan[2]
  IN IF Len(pan) < 2 THEN {<<9, 6>>}
     ELSE CASE digit \in 0..4 /\ Carries(GetField(request, 122), "SUPPORT") -> {<<1, 0>>}
            [] digit \in 0..4 /\ ~Carries(GetField(request, 122), "SUPPORT") -> {<<0, 0>>}
            [] digit = 5 -> {<<0, 0>>}
            [] digit = 6 -> {<<0, 5>>, <<0, 7>>}
            [] digit = 7 -> {<<5, 1>>}
            [] digit = 8 -> {<<3, 4>>, <<3, 5>>}
            [] digit = 9 -> {<<20, 21>>, <<20, 22>>}

Put(m, f, value) == SetField(MarkField(m, f), f, value)

\* Additional amounts and halved amounts keep one digit; <<30, 31, 32>> is the AVS and CVV result.
buildResponse(request, code) ==
  LET resp == NewResponseMessage(request, toResponseMTI(request.mti))
      answered == Put(Put(Put(resp, 37, <<7>>), 38, code), 122, <<30, 31, 32>>)
      partial == Put(SetField(answered, 3, <<Amount(request) \div 2>>), 53, <<9, 1, Amount(request)>>)
      balance == Put(answered, 53, <<0, 2, (Amount(request) * 8) \div 10>>)
  IN CASE request.mti = 800 -> Put(resp, 38, <<0, 0>>)
       [] request.mti # 800 /\ code = <<1, 0>> -> partial
       [] request.mti # 800 /\ code = <<5, 1>> /\ Carries(GetField(request, 122), "RETURNBAL") -> balance
       [] OTHER -> answered

Respond ==
  /\ stage = "incoming"
  /\ LET request == NewIso8583Message(wire)
     IN /\ request # Unread
        /\ \E code \in ResponseCodes(request) : message' = buildResponse(request, code)
        /\ awaited' = GetField(request, 36)
  /\ stage' = "answer"
  /\ wire' = FormatIso(message')

-----------------------------------------------------------------------------
Init ==
  /\ \/ stage = "template" /\ message \in Templates
     \/ stage = "incoming" /\ message \in Incoming
  /\ wire = FormatIso(message)
  /\ awaited = <<>>

Next == SendSingleMessage \/ SendRefund \/ ClientReply \/ Respond

Spec == Init /\ [][Next]_vars

-----------------------------------------------------------------------------
\* A partial approval sets the amount without its bit: the text of one whose request
\* had no amount cannot be read back.
AmountUnmarked == stage = "answer" /\ GetField(message, 38) = <<1, 0>> /\ 3 \notin message.bits

\* Every text the server writes reads back as the message it was made from: the fields that
\* were added are announced by the bitmaps, the secondary one included, and the length of
\* each is the one its type says (FormatIso and NewIso8583Message).
ReadsAsMeant == AmountUnmarked \/ NewIso8583Message(wire) = message

\* Whoever gets a reply finds the request by the reference it was sent with, through
\* formatting, logging, refunding and copying, and sees that it is a reply (HandleRead, respond).
ReplyFindsRequest ==
  stage \in {"reply", "answer"} /\ ~AmountUnmarked =>
    LET read == NewIso8583Message(wire)
    IN read # Unread /\ GetField(read, 36) = awaited /\ read.mti \in responseMTISet

=============================================================================

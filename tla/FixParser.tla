------------------------------ MODULE FixParser ------------------------------
(***************************************************************************)
(* include/FixParser.hpp: framing, field splitting, checksum, conversion   *)
(* of FIX messages, as operators on sequences of tokens.                   *)
(*                                                                         *)
(* A token is a run of bytes the parser never looks inside of: "n=", a     *)
(* number, other text, or SOH.  BodyLength counts tokens instead of bytes  *)
(* and the checksum field "10=" "ddd" SOH is three of them, not seven      *)
(* bytes; the checksum still adds bytes, token by token.  A stream cut     *)
(* inside a token is for every test of the code a stream cut before it.    *)
(***************************************************************************)
EXTENDS Doubles, SequencesExt

CONSTANTS
    Weight(_),  \* the sum of a token's bytes
    Width,      \* bits of size_t and unsigned long
    QtyWidth    \* bits of Order::qty

\* A checksum fits in an unsigned long.
ASSUME WidthAssumption ==
    /\ Width \in Nat /\ QtyWidth \in Nat /\ QtyWidth <= Width
    /\ 2^Width \in Nat /\ 255 < 2^Width /\ 2^QtyWidth \in Nat

Tag(n) == <<"tag", n>>
Num(n) == <<"num", n>>
Txt(s) == <<"txt", s>>
SOH    == <<"soh", 0>>

Field(tag, value) == <<Tag(tag), value, SOH>>

\* raw.find(...) and rfind(...): a position, or npos = 0.
FindSoh(raw, from) == SelectInSubSeq(raw, from, Len(raw), LAMBDA t : t = SOH)
FindEq(raw, from)  == SelectInSubSeq(raw, from, Len(raw), LAMBDA t : t[1] = "tag")

\* std::stoul and friends on a value: the leading number, or an exception
\* when there is none or it does not fit; a negative one wraps around.
Converts(text)    == text # << >> /\ text[1][1] = "num" /\ text[1][2] \in 1 - 2^Width .. 2^Width - 1
Unsigned(text, w) == text[1][2] % 2^w

\* std::stod, which also reads "nan".
IsDouble(text) == text # << >> /\ (text[1][1] = "num" \/ text[1] = Txt("nan"))
Stod(text)     == IF text[1][1] = "num" THEN text[1][2] ELSE NaN

Checksum(tokens) == FoldLeft(LAMBDA sum, t : sum + Weight(t), 0, tokens) % 256

-----------------------------------------------------------------------------
NoMessage == -1

\* tryExtractMessage(): the length of the message at the front of the buffer.
TryExtractMessage(buffer) ==
    LET firstSoh == FindSoh(buffer, 1)
        lenSoh   == FindSoh(buffer, firstSoh + 2)
        length   == SubSeq(buffer, firstSoh + 2, lenSoh - 1)
        total    == (lenSoh + Unsigned(length, Width) + 3) % 2^Width
    IN  IF /\ buffer # << >> /\ buffer[1] = Tag(8)
           /\ firstSoh # 0
           /\ firstSoh < Len(buffer) /\ buffer[firstSoh + 1] = Tag(9)
           /\ lenSoh # 0
           /\ Converts(length)
           /\ Len(buffer) >= total
        THEN total
        ELSE NoMessage

\* Mutant: the first mention of a tag stays.
Overwrite_KeepsFirst(later, earlier) ==
    [tag \in DOMAIN later \cup DOMAIN earlier |-> IF tag \in DOMAIN earlier THEN earlier[tag] ELSE later[tag]]

\* fields[tag] = value: a later field replaces an earlier one with its tag.
Overwrite(later, earlier) ==
    [tag \in DOMAIN later \cup DOMAIN earlier |-> IF tag \in DOMAIN later THEN later[tag] ELSE earlier[tag]]

\* splitFields(): tag -> value.  A field without "=" runs into the next one,
\* whose key then starts with the stray text.
SplitFields(raw) ==
    LET from[pos \in 1 .. Len(raw) + 1] ==
            LET eq  == FindEq(raw, pos)
                soh == FindSoh(raw, eq)
            IN  IF eq = 0 \/ soh = 0 THEN << >>
                ELSE Overwrite(from[soh + 1], IF raw[pos][1] \in {"tag", "num"}
                                              THEN [tag \in {raw[pos][2]} |-> SubSeq(raw, eq + 1, soh - 1)]
                                              ELSE << >>)
    IN  from[1]

\* Mutant: the checksum is not compared.
VerifyChecksum_Any(raw) == SelectLastInSeq(raw, LAMBDA t : t = Tag(10)) # 0

VerifyChecksum(raw) ==
    LET at    == SelectLastInSeq(raw, LAMBDA t : t = Tag(10))
        end   == FindSoh(raw, at + 1)
        value == SubSeq(raw, at + 1, end - 1)
    IN  /\ at # 0
        /\ end # 0
        /\ Converts(value)
        /\ Checksum(SubSeq(raw, 1, at - 1)) = value[1][2]

IsNewOrder(fields) == 35 \in DOMAIN fields /\ fields[35] = <<Txt("D")>>
Required == {55, 54, 38, 44, 1}

\* parseOrder()'s rejectReasonOut, "" for an order.
RejectReason(raw) ==
    LET fields == SplitFields(raw)
    IN  IF ~VerifyChecksum(raw) THEN "bad_checksum"
        ELSE IF ~IsNewOrder(fields) THEN "unsupported_msgtype"
        ELSE IF /\ Required \subseteq DOMAIN fields
                /\ Converts(fields[1]) /\ Converts(fields[38]) /\ IsDouble(fields[44])
             THEN ""
             ELSE "malformed_message"

\* The order id is drawn before the conversions that may still fail.
DrawsOrderId(raw) ==
    VerifyChecksum(raw) /\ IsNewOrder(SplitFields(raw)) /\ Required \subseteq DOMAIN SplitFields(raw)

\* The Order parseOrder() fills in from a message it does not reject.
OrderOf(raw, orderId) ==
    LET fields == SplitFields(raw)
    IN  [orderId   |-> orderId,
         accountId |-> Unsigned(fields[1], Width),
         symbol    |-> fields[55],
         side      |-> IF fields[54] = <<Num(1)>> THEN "BUY" ELSE "SELL",
         qty       |-> Unsigned(fields[38], QtyWidth),
         price     |-> Stod(fields[44])]

BuildMessage(body) ==
    LET head == Field(8, Txt("FIX.4.2")) \o Field(9, Num(Len(body))) \o body
    IN  head \o Field(10, Num(Checksum(head)))
=============================================================================

---------------------------- MODULE MCFixSession ----------------------------
(***************************************************************************)
(* Pairs of messages: orders as test_client.cpp builds them, and a message *)
(* for every way parseOrder() has to turn one away.  Byte sums are the     *)
(* ASCII ones.                                                             *)
(***************************************************************************)
EXTENDS FixSession

\* The byte sums of a number below 1000 and of the texts.
Digits(n) ==
    IF n < 0 THEN 45 + 48 - n \* one digit
    ELSE (n % 10) + ((n \div 10) % 10) + (n \div 100) + 48 * (IF n < 10 THEN 1 ELSE IF n < 100 THEN 2 ELSE 3)

TextWeight ==
    "FIX.4.2" :> 425 @@ "BTC-USD" :> 498 @@ "D" :> 68 @@ "nan" :> 317 @@ "ord-1" :> 419 @@ "?" :> 63 @@
    "bad_checksum" :> 1241 @@ "unsupported_msgtype" :> 2097 @@ "malformed_message" :> 1787 @@
    "insufficient_balance" :> 2092

MCWeight(t) ==
    CASE t[1] = "soh" -> 1
      [] t[1] = "tag" -> Digits(t[2]) + 61
      [] t[1] = "num" -> Digits(t[2])
      [] t[1] = "txt" -> TextWeight[t[2]]

\* test_client.cpp's buildNewOrderSingle()
NewOrderSingle(account, symbol, side, qty, price) ==
    Field(35, Txt("D")) \o Field(55, Txt(symbol)) \o Field(54, Num(side)) \o Field(38, qty) \o
    Field(44, price) \o Field(1, account) \o Field(11, Txt("ord-1"))

Good == NewOrderSingle(Num(42), "BTC-USD", 1, Num(1), Num(60))

\* A SELL, a quantity and a price at the edges of their conversions.
Odd == NewOrderSingle(Num(7), "BTC-USD", 2, Num(-1), Txt("nan"))

\* Messages to be turned away: another type, a field missing, a field that
\* does not convert, a number that does not fit; and one whose account is
\* given twice.
Bad   == {Field(35, Num(8)), SubSeq(Good, 1, 15), NewOrderSingle(Txt("?"), "BTC-USD", 1, Num(1), Num(60)),
          NewOrderSingle(Num(300), "BTC-USD", 1, Num(1), Num(60)),
          NewOrderSingle(Num(42), "BTC-USD", 1, Txt("nan"), Num(60))}
Twice == Good \o Field(1, Num(43))

\* An order whose message, with a BodyLength of 51, adds up to 0 modulo 256:
\* run together with the next one it has that one's checksum.
Unlucky == NewOrderSingle(Num(42), "BTC-USD", 1, Num(10), Num(299))

MCScripts   == {<<b, Good>> : b \in Bad \cup {Good, Odd, Twice, Unlucky}}
MCNoise(s)  == CASE s[1] = Good    -> {Txt("?"), Num(13), Num(51), Tag(38), SOH}
                 [] s[1] = Unlucky -> {Num(51)}
                 [] OTHER          -> {}
MCReasons   == {"insufficient_balance"}

\* Every body above is a list of fields, as AnsweredAsSent takes it; and the
\* theorems of FixSessionProofs are about such scripts and such damage.
ASSUME ClientsSendFields /\ BodiesAreInner /\ NoiseIsTokens

\* What LengthIsKnown keeps out of NoOrderFromDamage is an order from two
\* messages run together.
ASSUME LET together == ReplaceAt(BuildMessage(Unlucky), 5, Num(51)) \o BuildMessage(Good)
       IN  TryExtractMessage(together) = Len(together) /\ RejectReason(together) = ""
=============================================================================

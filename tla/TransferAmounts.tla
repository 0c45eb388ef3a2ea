----------------------------- MODULE TransferAmounts -----------------------------
(***************************************************************************)
(* The amounts of SendService: decimal texts, stroops and the platform fee *)
(* as SendService.prepare computes them.  A text that matches AMOUNT_REGEX *)
(* is a record of its integer part and the digits behind the point; one    *)
(* with more than Decimals digits stands for every text the pattern        *)
(* rejects.                                                                *)
(***************************************************************************)
EXTENDS Integers, Sequences, FiniteSetsExt

Decimals == 7
StroopsPerUnit == 10000000

\* What a digit behind the point is worth in stroops, by its place.
Worth == <<1000000, 100000, 10000, 1000, 100, 10, 1>>

Digit == 0..9
Text == [int: Nat, dec: Seq(Digit)]

Matches(text) == Len(text.dec) <= Decimals

\* decPart.padEnd(7, '0')
Padded(text) == [i \in 1..Decimals |-> IF i <= Len(text.dec) THEN text.dec[i] ELSE 0]

ToStroops(text) ==
    LET d == Padded(text) IN
    text.int * StroopsPerUnit
        + d[1] * Worth[1] + d[2] * Worth[2] + d[3] * Worth[3] + d[4] * Worth[4]
        + d[5] * Worth[5] + d[6] * Worth[6] + d[7] * Worth[7]

\* The i-th of the seven digits behind the point.
DigitAt(n, i) == (n \div Worth[i]) % 10

\* A text without padStart: the zeros behind the point are lost.
FromStroopsUnpadded(n) ==
    LET shown == {i \in 1..Decimals : DigitAt(n, i) # 0}
    IN [int |-> n \div StroopsPerUnit,
        dec |-> IF shown = {} THEN <<>>
                ELSE [i \in 1..Max(shown) - Min(shown) + 1 |-> DigitAt(n, i + Min(shown) - 1)]]

\* padStart(7, '0') and replace(/0+$/, ''): no decimal part when it is all zeros.
FromStroops(n) ==
    LET last == Max({i \in 1..Decimals : DigitAt(n, i) # 0} \cup {0})
    IN [int |-> n \div StroopsPerUnit, dec |-> [i \in 1..last |-> DigitAt(n, i)]]

\* Math.round(percent * 100), or 30 for a percentage that is no number or negative.
\* The configured percentage is given in hundredths; a negative one stands for both.
FeeBps(hundredths) == IF hundredths < 0 THEN 30 ELSE hundredths

Fee(stroops, bps) == (stroops * bps) \div 10000

\* assertAmount
AcceptedAmount(text) == Matches(text) /\ ToStroops(text) > 0

=================================================================================

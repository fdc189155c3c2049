-------------------------------- MODULE Usdc --------------------------------
(***************************************************************************)
(* AtomicUsdc (payment.rs): a spend ceiling is written as decimal USDC,    *)
(* parsed to a 128-bit count of atomic units, and shown as decimal USDC    *)
(* again when a payment is refused or an approval is asked for; from there *)
(* the user may copy it into the next ceiling.                             *)
(*                                                                         *)
(* The reading and the showing are digit by digit here, because that is    *)
(* what can go wrong in them; Reading is what a text means, as a number.   *)
(***************************************************************************)
EXTENDS Integers, Sequences, SequencesExt

CONSTANTS
  Base,      \* ten
  Decimals,  \* USDC_DECIMALS
  Shown,     \* how many fractional digits are shown at least
  MaxUnits,  \* u128::MAX
  Plus,      \* the character "+"
  Other,     \* any character that is neither a digit nor "+"
  Texts,     \* the ceilings the user may write
  Bad,       \* a text that is rejected
  None       \* not there yet

Digit == 0 .. Base - 1

\* A text, split at its first point.
Text == [whole : Seq(Digit \cup {Plus, Other}), point : BOOLEAN,
         frac : Seq(Digit \cup {Plus, Other})]

\* 10u128.pow
Power[n \in Nat] == IF n = 0 THEN 1 ELSE Base * Power[n - 1]

Scale == Power[Decimals]

ASSUME UsdcAssumption ==
  /\ Base \in Nat /\ Base > 1
  /\ Decimals \in Nat /\ Decimals > 1
  /\ Shown \in 1 .. Decimals
  /\ MaxUnits \in Nat /\ MaxUnits >= Scale
  /\ {Plus, Other, Bad, None} \cap Nat = {}
  /\ Texts \subseteq Text
  /\ \A t \in Texts : ~t.point => t.frac = << >>

VARIABLES
  text,   \* the ceiling as written
  units,  \* what parse_decimal makes of it: a count, or Bad
  shown   \* what the user is shown

vars == <<text, units, shown>>

----------------------------------------------------------------------------
(* Parsing *)

\* The number that digits form, read from the left.
Value(digits) ==
  LET upTo[i \in 0 .. Len(digits)] == IF i = 0 THEN 0 ELSE upTo[i - 1] * Base + digits[i]
  IN  upTo[Len(digits)]

\* str::parse::<u128>: an optional plus, at least one digit, no overflow.
ParseUint(s) ==
  LET digits == IF Len(s) > 1 /\ s[1] = Plus THEN Tail(s) ELSE s
  IN  IF digits # << >> /\ Range(digits) \subseteq Digit /\ Value(digits) <= MaxUnits
        THEN Value(digits) ELSE Bad

\* The fraction taken as it stands, and filled up with zeros to Decimals.
Unpadded(frac) == frac
Padded(frac) == [i \in 1 .. Decimals |-> IF i <= Len(frac) THEN frac[i] ELSE 0]

Malformed(t) ==
  \/ t.whole = << >> /\ t.frac = << >>
  \/ Len(t.frac) > Decimals
  \/ t.point /\ t.frac = << >>

\* The parts combined in wider integers, by an arithmetic that wraps around,
\* and by one that checks.
WideSum(whole, frac) == whole * Scale + frac
WrappedSum(whole, frac) == (whole * Scale + frac) % (MaxUnits + 1)
CheckedSum(whole, frac) ==
  IF whole * Scale + frac <= MaxUnits THEN whole * Scale + frac ELSE Bad

ParseDecimal(t) ==
  LET whole == IF t.whole = << >> THEN 0 ELSE ParseUint(t.whole)
      frac  == IF t.frac = << >> THEN 0 ELSE ParseUint(Padded(t.frac))
  IN  IF Malformed(t) \/ whole = Bad \/ frac = Bad THEN Bad ELSE CheckedSum(whole, frac)

----------------------------------------------------------------------------
(* Showing *)

\* The `width` lowest digits of n.
Digits(n, width) == [i \in 1 .. width |-> (n \div Power[width - i]) % Base]

\* n written without leading zeros.
Written(n) ==
  Digits(n, CHOOSE k \in 1 .. n + 1 : n < Power[k] /\ (k > 1 => n >= Power[k - 1]))

\* The fraction without its trailing zeros, whatever is left; and without its
\* leading zeros, as a number is written.
BareTrimmed(frac) == SubSeq(frac, 1, Max({0} \cup {i \in DOMAIN frac : frac[i] # 0}))
AsNumber(frac) == SubSeq(frac, Min({Decimals} \cup {i \in DOMAIN frac : frac[i] # 0}), Decimals)

\* The fraction without its trailing zeros, but no shorter than Shown.
Trimmed(frac) ==
  LET last == Max({0} \cup {i \in DOMAIN frac : frac[i] # 0})
  IN  SubSeq(frac, 1, IF last <= Shown THEN Shown ELSE last)

Display(n) ==
  [whole |-> Written(n \div Scale), point |-> TRUE, frac |-> Trimmed(Digits(n, Decimals))]

----------------------------------------------------------------------------

Init == text \in Texts /\ units = None /\ shown = None

\* AmountGuard::parse at startup, or --amount at the command line.
Read ==
  /\ units = None
  /\ units' = ParseDecimal(text)
  /\ UNCHANGED <<text, shown>>

Show ==
  /\ units \notin {None, Bad} /\ shown = None
  /\ shown' = Display(units)
  /\ UNCHANGED <<text, units>>

\* The user takes what was shown for the next ceiling.
Copy ==
  /\ shown # None
  /\ text' = shown
  /\ units' = None
  /\ shown' = None

Next == Read \/ Show \/ Copy

Spec == Init /\ [][Next]_vars

----------------------------------------------------------------------------
(* What a text means *)

\* A plus in front of either part, read as the digit zero.
PlusAsZero(s) == [i \in DOMAIN s |-> IF i = 1 /\ s[1] = Plus THEN 0 ELSE s[i]]

WellWritten(t) ==
  /\ t.whole \o t.frac # << >>
  /\ t.point <=> t.frac # << >>
  /\ Len(t.frac) <= Decimals
  /\ t.whole # <<Plus>>
  /\ Range(PlusAsZero(t.whole)) \cup Range(PlusAsZero(t.frac)) \subseteq Digit

\* The sum of what each digit is worth at its place.
Worth(digits) ==
  LET sum[i \in 0 .. Len(digits)] ==
        IF i = 0 THEN 0 ELSE sum[i - 1] + digits[i] * Power[Len(digits) - i]
  IN  sum[Len(digits)]

\* The number that the digits of both parts form, in atomic units.
Amount(t) ==
  Worth(PlusAsZero(t.whole) \o PlusAsZero(t.frac)) * Power[Decimals - Len(t.frac)]

Reading(t) == IF WellWritten(t) /\ Amount(t) <= MaxUnits THEN Amount(t) ELSE Bad

----------------------------------------------------------------------------
(* Properties *)

\* A ceiling is the number its text stands for, to the last atomic unit, or it
\* is rejected: too many decimals, a missing part and an overflow of 128 bits
\* never become some other ceiling (payment.rs:126-156).  A plus before the
\* fraction is accepted and lowers it: "0.+5" is 0.05.
ReadAsWritten == units # None => units = Reading(text)

\* What the user is shown is the amount exactly, in canonical form, so that it
\* can be copied and read again (payment.rs:159-173).
ShownExactly ==
  shown # None =>
    /\ Reading(shown) = units
    /\ Len(shown.frac) >= Shown
    /\ Len(shown.frac) > Shown => Last(shown.frac) # 0
    /\ Len(shown.whole) > 1 => Head(shown.whole) # 0

\* Ceilings are 128-bit counts (payment.rs:99-105).
TypeOK ==
  /\ text \in Text
  /\ units \in 0 .. MaxUnits \cup {Bad, None}
  /\ shown \in Text \cup {None}

=============================================================================

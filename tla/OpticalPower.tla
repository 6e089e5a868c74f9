---------------------------- MODULE OpticalPower ----------------------------
(***************************************************************************)
(* parse_optical_power: what a device writes as its optical power, in dBm  *)
(* with decimals or as an integer in one of three vendor scales, becomes a *)
(* power in dBm with two decimals, or None.  Powers are integers in 0.01   *)
(* dBm here.  A text is what is left of it when units, annotations and     *)
(* stray characters are stripped: a decimal number (n in 0.001 dBm), an    *)
(* integer, or nothing a number can be read from.                          *)
(***************************************************************************)
EXTENDS Integers

CONSTANTS
    None,      \* the answer of a parse that finds no power
    Unread     \* no answer yet

ASSUME AnswerAssumption ==
    /\ None \notin Int
    /\ Unread \notin Int \cup {None}

VARIABLES
    form,    \* what the text is: blank, decimal or integer
    n,       \* the number in it
    parsed   \* the result

textVars == <<form, n, parsed>>

\* The code's range pattern lo..=hi.
Within(m, lo, hi) == lo <= m /\ m <= hi

\* The powers that 0.001-dBm value m may be rounded to.  At an exact half the
\* floating-point quotient lies on either side.
Rounded(m) ==
    {c \in {m \div 10, m \div 10 + 1} : Within(10 * c - m, -5, 5)}

-----------------------------------------------------------------------------
\* Defect: rounding comes before the range check.
DecimalPowersRoundedFirst(m) ==
    IF Within(m, -60005, 30005) THEN Rounded(m) ELSE {None}

\* Format branch A: the range is checked before the value is rounded.
DecimalPowers(m) ==
    IF Within(m, -60000, 30000) /\ m # 0 THEN Rounded(m) ELSE {None}

\* Defect: an off-by-one between two scales.
IntegerPowersShifted(m) ==
    CASE Within(m, -60, -1) \/ Within(m, 1, 30)             -> {100 * m}
      [] Within(m, -10000, -61) \/ Within(m, 31, 999)       -> {m}
      [] Within(m, -99999, -10001) \/ Within(m, 1000, 50000) -> Rounded(m)
      [] OTHER                                              -> {None}

\* Defect: every other value is taken for whole dBm.
IntegerPowersCatchAll(m) ==
    CASE Within(m, -9999, -61) \/ Within(m, 31, 999)         -> {m}
      [] Within(m, -99999, -10000) \/ Within(m, 1000, 50000) -> Rounded(m)
      [] OTHER                                              -> {100 * m}

\* Format branch B: the magnitude decides the scale, 1 dBm, 0.01 dBm or 0.001 dBm.
IntegerPowers(m) ==
    CASE Within(m, -60, -1) \/ Within(m, 1, 30)              -> {100 * m}
      [] Within(m, -9999, -61) \/ Within(m, 31, 999)         -> {m}
      [] Within(m, -99999, -10000) \/ Within(m, 1000, 50000) -> Rounded(m)
      [] OTHER                                              -> {None}

\* What a text may be read as: texts that say nothing, N/A, -- or 0 as None.
Powers(f, m) ==
    CASE f = "decimal" -> DecimalPowers(m)
      [] f = "integer" -> IntegerPowers(m)
      [] OTHER         -> {None}

parse_optical_power ==
    /\ parsed = Unread
    /\ parsed' \in Powers(form, n)
    /\ UNCHANGED <<form, n>>

-----------------------------------------------------------------------------
(* Properties *)

Result == parsed \in Int

(***************************************************************************)
(* A decimal text is never misread: its power is within half a hundredth   *)
(* of a dBm of what it says, and inside -60 dBm .. +30 dBm.                *)
(***************************************************************************)
DecimalIsRead ==
    form = "decimal" /\ Result =>
        /\ Within(10 * parsed - n, -5, 5)
        /\ Within(parsed, -6000, 3000)

(***************************************************************************)
(* Between -60 dBm and -10 dBm, where receivers work, the three integer    *)
(* scales do not overlap: coarse dBm, 0.01 dBm and 0.001 dBm of the same   *)
(* power are read as that power.                                           *)
(***************************************************************************)
ReceiverScalesAgree ==
    form = "integer" /\ parsed # Unread =>
        /\ Within(n, -60, -10) => parsed = 100 * n
        /\ Within(n, -6000, -1000) => parsed = n
        /\ Within(n, -60000, -10000) =>
              Result /\ Within(10 * parsed - n, -5, 5)

(***************************************************************************)
(* Whatever a device writes, a power that is read fits the NUMERIC(6,2)    *)
(* column optical_power of the history and keeps its sign, so the trigger  *)
(* can record it.                                                          *)
(***************************************************************************)
PowerIsRecordable ==
    Result => /\ Within(parsed, -999999, 999999)
              /\ form # "blank"
              /\ parsed * n >= 0

=============================================================================

------------------------------ MODULE Intscan ------------------------------
(***************************************************************************)
(* __intscan, behind strtol and its relatives.  Numbers have their widths: *)
(* an unsigned is below 2^UBits, an unsigned long long below 2^Bits.  A    *)
(* character is a number, and a digit is the one below 36 that it stands   *)
(* for, so that x is 33.                                                   *)
(***************************************************************************)
EXTENDS Integers, Sequences, SequencesExt, FiniteSetsExt

CONSTANTS
    UBits, Bits,      \* 32 and 64 in the code
    Chars, MaxText,   \* the texts that are scanned
    Bases,            \* 0 is to be found out
    Lims              \* the limit of the caller: even for a signed type, odd for an unsigned one

VARIABLES
    in,       \* the text, the base and the limit
    out       \* the value, whether it is out of range, and how much was read

vars == <<in, out>>

x == 33
plus == 100
minus == 101
space == 102
end == 103

UINT_MAX == 2^UBits - 1
ULLONG_MAX == 2^Bits - 1

Init ==
    /\ in \in [text : SeqOf(Chars, MaxText), base : Bases, lim : Lims]
    /\ out = [done |-> FALSE]

-----------------------------------------------------------------------------

\* The character at i, counted from 0; the text ends with one that is no digit.
At(i) == IF i < Len(in.text) THEN in.text[i + 1] ELSE end

val(c) == IF c < 36 THEN c ELSE 255

Nothing(i) == [done |-> TRUE, value |-> 0, range |-> FALSE, read |-> i]

\* A loop over digits, in a number below 2^bits: it goes on while the number so far is
\* at most `most' and, multiplied, at most `top' less the digit.
RECURSIVE Loop(_, _, _, _, _, _)
Loop(y, i, base, bits, most, top) ==
    LET d == val(At(i))
    IN  IF d < base /\ y <= most /\ base * y <= top - d
        THEN Loop((base * y + d) % 2^bits, i + 1, base, bits, most, top) ELSE [y |-> y, i |-> i]

RECURSIVE SkipDigits(_, _)
SkipDigits(i, base) == IF val(At(i)) < base THEN SkipDigits(i + 1, base) ELSE i

\* The bound of the first loop, which runs in an unsigned.
Narrow(base) ==
    IF base = 10 THEN UINT_MAX \div 10 - 1
    ELSE IF base \in {2, 4, 8, 16, 32} THEN UINT_MAX \div 32
    ELSE UINT_MAX \div 36 - 1

\* The two loops, in an unsigned and in an unsigned long long.
Digits(i, base) ==
    LET n == Loop(0, i, base, UBits, Narrow(base), base * 2^UBits)
    IN  Loop(n.y, n.i, base, Bits, ULLONG_MAX \div base, ULLONG_MAX)

\* The end, from where too many digits are noticed.
Limit(y0, over, neg0, i) ==
    LET odd == in.lim % 2 = 1
        y   == IF over THEN in.lim ELSE y0
        neg == neg0 /\ ~(over /\ odd)
    IN  IF y >= in.lim /\ ~odd /\ ~neg
        THEN [done |-> TRUE, value |-> in.lim - 1, range |-> TRUE, read |-> i]
        ELSE IF y > in.lim
        THEN [done |-> TRUE, value |-> in.lim, range |-> TRUE, read |-> i]
        ELSE [done |-> TRUE, value |-> IF neg /\ y # 0 THEN 2^Bits - y ELSE y, range |-> over, read |-> i]

\* The number whose first digit is at i.
Number(i, base, neg) ==
    LET d == Digits(i, base)
        e == SkipDigits(d.i, base)
    IN  Limit(d.y, e > d.i, neg, e)

\* __intscan; the number of characters that it keeps is what endptr says.
Scan ==
    LET spaces == Min({i \in 0 .. Len(in.text) : At(i) # space})
        signed == At(spaces) \in {plus, minus}
        neg == At(spaces) = minus
        i   == IF signed THEN spaces + 1 ELSE spaces
    IN  IF in.base \in {0, 16} /\ At(i) = 0
        THEN IF At(i + 1) = x
             THEN IF val(At(i + 2)) >= 16 THEN Nothing(i + 1) ELSE Number(i + 2, 16, neg)
             ELSE Number(i + 1, IF in.base = 0 THEN 8 ELSE 16, neg)
        ELSE LET base == IF in.base = 0 THEN 10 ELSE in.base
             IN  IF val(At(i)) >= base THEN Nothing(0) ELSE Number(i, base, neg)

\* The range of the caller's type, to which the value is converted.
TypeRange == IF in.lim % 2 = 1 THEN in.lim + 1 ELSE 2 * in.lim

\* strtol and its relatives.
Call == ~out.done /\ out' = [Scan EXCEPT !.value = @ % TypeRange] /\ UNCHANGED in

Returned == out.done /\ UNCHANGED vars

Next == Call \/ Returned

Spec == Init /\ [][Next]_vars

-----------------------------------------------------------------------------
(* Properties.                                                             *)

\* The subject sequence as the C standard defines it: the base, and from where to
\* where the digits go; no digits if there is none.
Subject ==
    LET i0   == Min({j \in 0 .. Len(in.text) : At(j) # space})
        i    == IF At(i0) \in {plus, minus} THEN i0 + 1 ELSE i0
        hex  == in.base \in {0, 16} /\ At(i) = 0 /\ At(i + 1) = x /\ val(At(i + 2)) < 16
        base == IF hex THEN 16 ELSE IF in.base # 0 THEN in.base ELSE IF At(i) = 0 THEN 8 ELSE 10
        from == IF hex THEN i + 2 ELSE i
    IN  [neg |-> At(i0) = minus, base |-> base, from |-> from,
         to |-> Max({from} \cup {j \in from .. Len(in.text) : \A k \in from .. j - 1 : val(At(k)) < base})]

RECURSIVE Value(_, _, _)
Value(from, to, base) == IF to = from THEN 0 ELSE base * Value(from, to - 1, base) + val(At(to - 1))

\* The value is that of the longest number that the text begins with.  Where it does not
\* fit, it is the nearest value of the type, and the call says so; a negative number of
\* an unsigned type is taken modulo its range.  endptr is behind the number.
ScansRight ==
    out.done =>
      LET sub == Subject
          v   == Value(sub.from, sub.to, sub.base)
          fits == IF in.lim % 2 = 1 THEN v <= in.lim ELSE IF sub.neg THEN v <= in.lim ELSE v < in.lim
      IN  IF sub.to = sub.from THEN out = Nothing(0)
          ELSE /\ out.read = sub.to
               /\ out.range = ~fits
               /\ out.value = IF fits THEN (IF sub.neg THEN (TypeRange - v) % TypeRange ELSE v)
                              ELSE IF in.lim % 2 = 0 /\ ~sub.neg THEN in.lim - 1 ELSE in.lim

=============================================================================

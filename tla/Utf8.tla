-------------------------------- MODULE Utf8 --------------------------------
(***************************************************************************)
(* mbrtowc and wcrtomb in a UTF-8 locale.  mbrtowc may be handed a         *)
(* character in pieces; what it has seen of it is the word `c' that it     *)
(* keeps in the mbstate_t.                                                 *)
(*                                                                         *)
(* The word is modelled in two parts, as it is used: its upper six bits,   *)
(* read as a signed number, bound the next byte and are negative as long   *)
(* as one is missing; its lower 26 bits are shifted into them.             *)
(***************************************************************************)
EXTENDS Integers, Sequences, SequencesExt

CONSTANTS
    Byte,             \* the bytes that occur
    MaxPiece,         \* how many of them in one call
    Wide              \* what is written

VARIABLES
    st,       \* the mbstate_t
    fed,      \* the bytes of the character so far
    result    \* of the last call: what it returned, the character, and its bytes

vars == <<st, fed, result>>

Zero == [top |-> 0, low |-> 0]

Init == st = Zero /\ fed = <<>> /\ result = [call |-> "none", n |-> 0, wc |-> 0, bytes |-> <<>>]

-----------------------------------------------------------------------------

\* R: the bounds of the next byte.
R(a, b) == (IF a = 128 THEN 64 - b ELSE -a) \div 8

AnyTail == R(128, 192)

\* R(0x80,0xc0) >> 6 and >> 12: one and two bytes more.
More1 == 2^25 + 2^24
More2 == 2^19 + 2^18

\* bittab, for the bytes from SA to SB.
Bittab(b) ==
    LET x == b % 16
    IN  IF b < 224 THEN [top |-> AnyTail, low |-> b % 32]
        ELSE IF b < 240 THEN [top |-> IF x = 0 THEN R(160, 192) ELSE IF x = 13 THEN R(128, 160) ELSE AnyTail,
                              low |-> More1 + x]
        ELSE [top |-> IF x = 0 THEN R(144, 192) ELSE IF x = 4 THEN R(128, 144) ELSE AnyTail,
              low |-> More1 + More2 + x]

\* OOB: the byte is no continuation, or out of its bounds.
OOB(c, b) == b \div 8 - 16 \notin 0 .. 7 \/ b \div 8 + c.top \notin 0 .. 7

\* c<<6 | b-0x80, in 32 bits.
Shift(c, b) ==
    LET bits == c.low \div 2^20
    IN  [top |-> IF bits < 32 THEN bits ELSE bits - 64, low |-> (c.low % 2^20) * 64 + (b - 128)]

Missing(c) == c.top < 0

Character(c) == c.top * 2^26 + c.low

Ilseq == [st |-> Zero, n |-> -1, wc |-> 0]

\* The loop, over a byte that is in its bounds.
RECURSIVE Shifts(_, _, _, _)
Shifts(c, s, n, N) ==
    LET d == Shift(c, s[1])
    IN  IF ~Missing(d) THEN [st |-> Zero, n |-> N - (n - 1), wc |-> Character(d)]
        ELSE IF n = 1 THEN [st |-> d, n |-> -2, wc |-> 0]
        ELSE IF s[2] - 128 \notin 0 .. 63 THEN Ilseq
        ELSE Shifts(d, Tail(s), n - 1, N)

\* mbrtowc, for the bytes s.
Mbrtowc(c, s) ==
    LET N == Len(s)
        first == c = Zero
        d == IF first THEN Bittab(s[1]) ELSE c
        rest == IF first THEN Tail(s) ELSE s
    IN  IF first /\ s[1] < 128 THEN [st |-> Zero, n |-> IF s[1] = 0 THEN 0 ELSE 1, wc |-> s[1]]
        ELSE IF first /\ s[1] \notin 194 .. 244 THEN Ilseq
        ELSE IF rest = <<>> THEN [st |-> d, n |-> -2, wc |-> 0]
        ELSE IF OOB(d, rest[1]) THEN Ilseq
        ELSE Shifts(d, rest, Len(rest), N)

\* wcrtomb: no bytes is EILSEQ.
Wcrtomb(wc) ==
    LET tail(i) == 128 + ((wc \div 64^i) % 64)
    IN  IF wc < 128 THEN <<wc>>
        ELSE IF wc < 2048 THEN <<192 + wc \div 64, tail(0)>>
        ELSE IF wc < 55296 \/ wc \in 57344 .. 65535 THEN <<224 + wc \div 64^2, tail(1), tail(0)>>
        ELSE IF wc \in 65536 .. 1114111 THEN <<240 + wc \div 64^3, tail(2), tail(1), tail(0)>>
        ELSE <<>>

-----------------------------------------------------------------------------

\* The program hands over a piece.
Call(s) ==
    LET r == Mbrtowc(st, s)
        seen == fed \o (IF r.n < 0 THEN s ELSE SubSeq(s, 1, IF r.n = 0 THEN 1 ELSE r.n))
    IN  /\ st' = r.st
        /\ fed' = IF r.n = -2 THEN seen ELSE <<>>
        /\ result' = [call |-> "mbrtowc", n |-> r.n, wc |-> r.wc, bytes |-> seen]

\* The program writes a character.
Write(wc) ==
    /\ result' = [call |-> "wcrtomb", n |-> Len(Wcrtomb(wc)), wc |-> wc, bytes |-> Wcrtomb(wc)]
    /\ UNCHANGED <<st, fed>>

Next ==
    \/ \E s \in SeqOf(Byte, MaxPiece) \ {<<>>} : Call(s)
    \/ \E wc \in Wide : Write(wc)

Spec == Init /\ [][Next]_vars

-----------------------------------------------------------------------------
(* Properties.                                                             *)

\* UTF-8 as Unicode defines it: the ranges of the bytes of a character.
Tails == 128 .. 191

Forms ==
    {<<0 .. 127>>,
     <<194 .. 223, Tails>>,
     <<{224}, 160 .. 191, Tails>>, <<(225 .. 236) \cup {238, 239}, Tails, Tails>>,
     <<{237}, 128 .. 159, Tails>>,
     <<{240}, 144 .. 191, Tails, Tails>>, <<241 .. 243, Tails, Tails, Tails>>,
     <<{244}, 128 .. 143, Tails, Tails>>}

Begins(s) == \E f \in Forms : Len(s) <= Len(f) /\ \A i \in DOMAIN s : s[i] \in f[i]

IsCharacter(s) == \E f \in Forms : Len(s) = Len(f) /\ \A i \in DOMAIN s : s[i] \in f[i]

Decoded(s) ==
    CASE Len(s) = 1 -> s[1]
      [] Len(s) = 2 -> (s[1] - 192) * 64 + (s[2] - 128)
      [] Len(s) = 3 -> (s[1] - 224) * 64^2 + (s[2] - 128) * 64 + (s[3] - 128)
      [] Len(s) = 4 -> (s[1] - 240) * 64^3 + (s[2] - 128) * 64^2 + (s[3] - 128) * 64 + (s[4] - 128)

\* However a text is cut into pieces, mbrtowc returns a character exactly when the
\* bytes so far are one, and it is the one they encode; it asks for more exactly when
\* they are the beginning of one, and otherwise it rejects them.
PiecesDecode ==
    result.call = "mbrtowc" =>
      LET seen == result.bytes
      IN  IF result.n >= 0 THEN IsCharacter(seen) /\ result.wc = Decoded(seen)
          ELSE IF result.n = -2 THEN Begins(seen) /\ ~IsCharacter(seen)
          ELSE ~Begins(seen) /\ \A i \in DOMAIN seen : ~IsCharacter(SubSeq(seen, 1, i))

\* wcrtomb writes the character that it is given, and nothing for what is none.
WritesDecode ==
    result.call = "wcrtomb" =>
      IF result.wc \in 0 .. 1114111 /\ result.wc \notin 55296 .. 57343
      THEN IsCharacter(result.bytes) /\ Decoded(result.bytes) = result.wc
      ELSE result.bytes = <<>>

=============================================================================

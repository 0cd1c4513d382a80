------------------------------- MODULE FrField ------------------------------
(***************************************************************************)
(* Elements of the scalar field as the witness calculator keeps them       *)
(* (circuit_cpp/fr.hpp, fr.cpp): a signed short value when it fits an int, *)
(* a long value in 0..q-1, or the Montgomery form of one.  RawFr elements  *)
(* are Montgomery residues.  What fr.asm computes is external: the         *)
(* conversions between the forms and the products.                         *)
(***************************************************************************)
EXTENDS Integers, Sequences, SequencesExt

CONSTANTS
    FieldQ,    \* Fr_q, a prime
    ShortMax,  \* the largest int: 2^31 - 1
    Radix      \* 2^256 mod q

ShortMin == -ShortMax - 1

Field == 0..(FieldQ - 1)

Short(v) == [type |-> "short", v |-> v]
Long(v) == [type |-> "long", v |-> v]
Montgomery(v) == [type |-> "montgomery", v |-> v]

FrElements ==
    {Short(v) : v \in ShortMin..ShortMax} \cup {Long(v) : v \in Field} \cup {Montgomery(v) : v \in Field}

-----------------------------------------------------------------------------
(***************************************************************************)
(* fr.asm and GMP, as they are used.                                       *)
(***************************************************************************)
Power(a, n) == FoldLeft(LAMBDA acc, i : (acc * a) % FieldQ, 1, [i \in 1..n |-> i])

\* mpz_invert, which is undefined for 0.
MpzInvert(a) == CHOOSE b \in Field : (a * b) % FieldQ = 1 % FieldQ

RawToMontgomery(v) == (v * Radix) % FieldQ
RawFromMontgomery(v) == (v * MpzInvert(Radix)) % FieldQ
RawMMul(v, w) == (v * w * MpzInvert(Radix)) % FieldQ
FrToNormal(e) == IF e.type = "montgomery" THEN Long(RawFromMontgomery(e.v)) ELSE e

-----------------------------------------------------------------------------
FrToMpz(e) ==
    LET tmp == FrToNormal(e)
    IN  IF tmp.type = "short" /\ tmp.v < 0 THEN tmp.v + FieldQ ELSE tmp.v

\* Mutant: mpz_get_si without asking whether the value fits.
FrFromMpzShort(v) == Short(((v - ShortMin) % (2 * ShortMax + 2)) + ShortMin)

FrFromMpz(v) == IF v \in ShortMin..ShortMax THEN Short(v) ELSE Long(v)

\* The number a string stands for, negative ones included.
FrStr2element(n) == FrFromMpz(n % FieldQ)

FrElement2str(e) ==
    IF e.type = "short" THEN (IF e.v >= 0 THEN e.v ELSE e.v + FieldQ) ELSE FrToNormal(e).v

FrMul(a, b) == FrFromMpz((FrToMpz(a) * FrToMpz(b)) % FieldQ)   \* fr.asm

FrIdiv(a, b) == FrFromMpz(FrToMpz(a) \div FrToMpz(b))
FrMod(a, b) == FrFromMpz(FrToMpz(a) % FrToMpz(b))
FrPow(a, b) == FrFromMpz(Power(FrToMpz(a), FrToMpz(b)))
FrInv(a) == FrFromMpz(MpzInvert(FrToMpz(a)))
FrDiv(a, b) == FrMul(a, FrInv(b))

-----------------------------------------------------------------------------
(***************************************************************************)
(* RawFr.                                                                  *)
(***************************************************************************)
RawSet(value) == RawToMontgomery(IF value < 0 THEN value + FieldQ ELSE value)

\* The residue of the inverse: one more product with Fr_rawR3, the cube of the
\* radix.
RawInv(a) == RawMMul(MpzInvert(a), (((Radix * Radix) % FieldQ) * Radix) % FieldQ)
RawDiv(a, b) == RawMMul(a, RawInv(b))

\* RawFr::exp, from the highest bit of the scalar down.  `r` is written at the
\* first bit that is set, and is one if there is none.
RawExp(base, bits) ==
    FoldLeft(LAMBDA acc, bit :
                LET r == RawMMul(acc.r, acc.r) IN
                IF ~acc.found THEN (IF bit THEN [found |-> TRUE, r |-> base] ELSE acc)
                ELSE [acc EXCEPT !.r = IF bit THEN RawMMul(r, base) ELSE r],
             [found |-> FALSE, r |-> RawSet(1)], bits).r
=============================================================================

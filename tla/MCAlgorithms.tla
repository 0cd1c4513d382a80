---------------------------- MODULE MCAlgorithms ----------------------------
(***************************************************************************)
(* The pure algorithms against what they are for, on every small input:    *)
(* the calls of PureCalls, and of the witness calculator the field         *)
(* elements and the reading of the document.  A behaviour is one call.     *)
(***************************************************************************)
EXTENDS PureCalls, JsonInput

CONSTANT MaxStore   \* BOUND: notes of a store

-----------------------------------------------------------------------------
(***************************************************************************)
(* The inputs.                                                             *)
(***************************************************************************)
\* Notes of three amounts, spent ones and ones without a leaf index among them.
Note(amount, leafIndex, spent) == [amount |-> amount, leafIndex |-> leafIndex, spent |-> spent]
Kinds == {Note(a, 0, FALSE) : a \in 1..3} \cup {Note(3, 0, TRUE), Note(3, None, FALSE)}
MCStores == UNION {[1..n -> Kinds] : n \in 0..MaxStore}

Divisions == [fn : {"field"}, a : FrElements, b : FrElements]
Bits == UNION {[1..n -> BOOLEAN] : n \in 0..5}
Powers == [fn : {"exp"}, base : Field, bits : Bits]

(***************************************************************************)
(* Documents.  The keys are a, b, c, d and two that look like the name of  *)
(* something nested, a.c and a[0]; 99 is a character that is no digit.     *)
(***************************************************************************)
KeyA == <<97>>
KeyB == <<98>>
KeyC == <<99>>
KeyD == <<100>>
KeyADotC == <<97, 46, 99>>
KeyAIndex == <<97, 91, 48, 93>>
KeyAIndexDotC == <<97, 91, 48, 93, 46, 99>>
String(base, digits) == [is |-> "string", base |-> base, digits |-> digits]
Integer(n) == [is |-> "integer", n |-> n]
Array(items) == [is |-> "array", items |-> items]
Object(members) == [is |-> "object", members |-> members]

Scalars ==
    {String(10, <<1, 5>>), String(16, <<15, 15>>), String(2, <<1, 0, 1>>), String(8, <<7>>), String(10, << >>),
     String(2, <<2>>), String(10, <<99, 4>>), [is |-> "float", halves |-> 5], [is |-> "other"]}
    \cup {Integer(n) : n \in {-20, -9, -3, 0, 7, 9, 17, 27, 40}}
Few == {String(10, <<1, 5>>), Integer(-3), [is |-> "other"]}
Seqs(S) == UNION {[1..n -> S] : n \in 0..2}
Lists == {Array(s) : s \in Seqs(Scalars)}
Nested == {Array(s) : s \in Seqs({Array(t) : t \in Seqs(Few)})}
Values == Scalars \cup Lists \cup Nested
Objects ==
    {Object(<<<<KeyA, v>>>>) : v \in Values}
    \cup {Object(<<<<KeyA, v>>, <<KeyB, w>>>>) : v \in Few \cup Nested, w \in Few}
Inner == {Object(<<<<KeyC, v>>, <<KeyD, Array(<<v, Integer(1)>>)>>>>) : v \in Few}
Outer == Inner \cup {Array(s) : s \in Seqs(Inner \cup Few)} \cup {Array(<<Array(s)>>) : s \in Seqs(Inner)}
Deep ==
    {Object(<<<<KeyA, v>>, <<k, w>>>>) :
        v \in Outer, k \in {KeyB, KeyADotC, KeyAIndex, KeyAIndexDotC},
        w \in {Integer(7), Object(<<<<KeyC, Integer(9)>>>>)}}

Documents == [fn : {"json"}, jin : Objects \cup Deep]

-----------------------------------------------------------------------------
MCInit ==
    /\ call \in Selections \cup Lookups \cup Divisions \cup Powers \cup Documents
    /\ outcome = None

Is(fn) == call.fn = fn /\ outcome = None /\ UNCHANGED call

\* A division by zero ends the program.
Arithmetic ==
    /\ Is("field") /\ FrToMpz(call.b) # 0
    /\ outcome' = [idiv |-> FrIdiv(call.a, call.b), mod |-> FrMod(call.a, call.b),
                   pow |-> FrPow(call.a, call.b), div |-> FrDiv(call.a, call.b),
                   str |-> FrElement2str(call.a)]

Exponentiate ==
    /\ Is("exp")
    /\ outcome' = [r |-> RawExp(RawSet(call.base), call.bits),
                   inv |-> IF call.base = 0 THEN 0 ELSE RawDiv(RawSet(1), RawSet(call.base))]

Read == Is("json") /\ outcome' = LoadJson(call.jin)

MCSpec == MCInit /\ [][Select \/ Lookup \/ Arithmetic \/ Exponentiate \/ Read]_vars

-----------------------------------------------------------------------------
\* RawFr::exp, which leaves its result unwritten up to the first bit of
\* the scalar that is set, computes the power, and the Montgomery inverse is one.
ExpAgrees ==
    Answered("exp") =>
        LET n == FoldLeft(LAMBDA acc, bit : 2 * acc + (IF bit THEN 1 ELSE 0), 0, call.bits)
        IN  /\ RawFromMontgomery(outcome.r) = Power(call.base, n)
            /\ call.base # 0 => (RawFromMontgomery(outcome.inv) * call.base) % FieldQ = 1

\* FieldAgrees: the operations of fr.cpp compute in the field and on its canonical
\* values, whatever forms their operands have: a short negative value, a long value
\* and a Montgomery residue of one number give one result; and so do the powers
\* and inverses of RawFr.
FieldAgrees ==
    /\ ExpAgrees
    /\ Answered("field") =>
        LET a == FrElement2str(call.a)
            b == FrElement2str(call.b)
            V(e) == FrElement2str(e)
        IN  /\ a \in Field /\ outcome.str = a
            /\ V(outcome.idiv) * b + V(outcome.mod) = a /\ V(outcome.mod) \in 0..(b - 1)
            /\ (V(outcome.div) * b) % FieldQ = a
            /\ V(outcome.pow) = Power(a, b)

(***************************************************************************)
(* The document as a map from paths to scalars: a segment of a path is a   *)
(* key, or an index in its brackets.                                       *)
(***************************************************************************)
Child(v, s) ==
    IF v.is = "array" /\ \E i \in DOMAIN v.items : s = Indexed(<< >>, i - 1)
    THEN v.items[CHOOSE i \in DOMAIN v.items : s = Indexed(<< >>, i - 1)]
    ELSE IF v.is = "object" /\ \E i \in DOMAIN v.members : v.members[i][1] = s
    THEN v.members[CHOOSE i \in DOMAIN v.members : v.members[i][1] = s][2]
    ELSE [is |-> "absent"]

At(path) == FoldLeft(Child, call.jin, path)
Keys == {KeyA, KeyB, KeyC, KeyD, KeyADotC, KeyAIndex, KeyAIndexDotC}
Longer(paths) == {Append(p, s) : p \in paths, s \in {Indexed(<< >>, i) : i \in 0..1} \cup Keys}
Paths ==
    FoldLeft(LAMBDA paths, n : paths \cup {p \in Longer(paths) : At(p).is # "absent"},
             {<< >>}, <<1, 2, 3, 4, 5>>)
Leaves == {p \in Paths : At(p).is \notin {"array", "object"}}

\* The order of the document: of its characters, segment by segment.
Less(s, t) ==
    \/ IsStrictPrefix(s, t)
    \/ \E k \in DOMAIN s \cap DOMAIN t : s[k] < t[k] /\ \A j \in 1..(k - 1) : s[j] = t[j]
Precedes(p, q) ==
    \E k \in DOMAIN p \cap DOMAIN q : Less(p[k], q[k]) /\ \A j \in 1..(k - 1) : p[j] = q[j]

\* What an array holds, however nested.
Ends(p) ==
    {q \in Paths : /\ IsPrefix(p, q) /\ At(q).is # "array"
                   /\ \A k \in Len(p)..(Len(q) - 1) : At(SubSeq(q, 1, k)).is = "array"}

\* The values that become inputs: scalars and arrays of scalars, the outermost.
OfObjects(p) == \E q \in Ends(p) : At(q).is = "object"
Taken ==
    {p \in Paths : /\ ~OfObjects(p)
                   /\ \A k \in 0..(Len(p) - 1) : OfObjects(SubSeq(p, 1, k))}

\* The name of an input: its keys with dots between them, its indices in brackets.
Name(p) ==
    FlattenSeq([k \in DOMAIN p |->
        IF k > 1 /\ At(SubSeq(p, 1, k - 1)).is = "object" THEN <<Dot>> \o p[k] ELSE p[k]])

\* No key has a character that names are put together with.
PlainKeys ==
    \A p \in Paths : \A k \in DOMAIN p :
        At(SubSeq(p, 1, k - 1)).is = "object" => ToSet(p[k]) \cap {Dot, Open} = {}

Valid(scalar) ==
    \/ scalar.is = "string" /\ \A i \in DOMAIN scalar.digits : scalar.digits[i] < scalar.base
    \/ scalar.is = "integer"

\* Every array has items, which are, however nested, objects only or scalars only.
Uniform ==
    \A p \in Paths : At(p).is = "array" =>
        At(p).items # << >> /\ Cardinality({At(q).is = "object" : q \in Ends(p)}) = 1

\* Is this the element of this scalar?  A number passes through a double.
Stands(element, scalar) ==
    LET v == FrToMpz(element)
        Abs(n) == IF n < 0 THEN -n ELSE n
    IN  \/ /\ scalar.is = "string" /\ Valid(scalar)
           /\ v = Number(scalar.digits, scalar.base) % FieldQ
        \/ /\ scalar.is = "integer"
           /\ \E n \in (scalar.n - 4)..(scalar.n + 4) :
                 v = n % FieldQ /\ Abs(n - scalar.n) * 2^Mantissa <= Abs(scalar.n)
        \/ /\ scalar.is = "float"
           /\ \E n \in -20..20 : v = n % FieldQ /\ Abs(2 * n - scalar.halves) <= 1

\* JsonLosesNothing: a document of numbers whose arrays are uniform is read.  Of one
\* that is read every input has the scalars of one value of the document, each with
\* its own value (up to the precision of a double for a number that is no string),
\* in the row-major order of its arrays: of the last value with that name; and when
\* no key has a dot or a bracket in it, every scalar is in exactly one input.
JsonLosesNothing ==
    Answered("json") =>
        /\ Uniform /\ (\A p \in Leaves : Valid(At(p))) => outcome.ok
        /\ outcome.ok =>
              /\ DOMAIN outcome.inputs = {Name(p) : p \in Taken}
              /\ \A n \in DOMAIN outcome.inputs :
                    LET named == {p \in Taken : Name(p) = n}
                        last == CHOOSE p \in named : \A q \in named \ {p} : Precedes(q, p)
                        own == {p \in Leaves : IsPrefix(last, p)}
                    IN  /\ Len(outcome.inputs[n]) = Cardinality(own)
                        /\ \A p \in own : LET before == {q \in own : Precedes(q, p)} IN
                              Stands(outcome.inputs[n][Cardinality(before) + 1], At(p))
              /\ PlainKeys =>
                    SumFunction([n \in DOMAIN outcome.inputs |-> Len(outcome.inputs[n])])
                        = Cardinality(Leaves)
=============================================================================

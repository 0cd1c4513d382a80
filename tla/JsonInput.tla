------------------------------ MODULE JsonInput -----------------------------
(***************************************************************************)
(* How the witness calculator reads its JSON document                      *)
(* (circuit_cpp/main.cpp: qualify_input, check_type, json2FrElements).     *)
(*                                                                         *)
(* A JSON value is a record: a string with the base its prefix gives and   *)
(* its digits, an integer, a float (in halves), an array, an object (a     *)
(* sequence of <<key, value>>, as nlohmann::json iterates it: by key, no   *)
(* key twice) or another scalar.  Keys and names are strings, sequences of *)
(* character codes: a key may hold what the names are put together with.   *)
(***************************************************************************)
EXTENDS FrField

CONSTANTS
    Mantissa,   \* the bits of a double's mantissa: 53
    MaxExponent \* BOUND: the largest exponent a number of a document needs

Invalid == [type |-> "invalid"]   \* an exception or a failed assertion

Halves(n) == IF n % 2 = 0 THEN n \div 2 ELSE LET q == n \div 2 IN IF q % 2 = 0 THEN q ELSE q + 1

\* val.get<double>() and its digits: nearest, ties to even.
AsDouble(n) ==
    LET m == IF n < 0 THEN -n ELSE n
        e == Min({k \in 0..MaxExponent : m \div (2^k) < 2^Mantissa})
        q == m \div (2^e)
        r == m % (2^e)
        up == 2 * r > 2^e \/ (2 * r = 2^e /\ q % 2 = 1)
    IN  (IF n < 0 THEN -1 ELSE 1) * (IF up THEN q + 1 ELSE q) * 2^e

Number(digits, base) == FoldLeft(LAMBDA acc, d : base * acc + d, 0, digits)

CheckValidNumber(digits, base) == \A i \in DOMAIN digits : digits[i] \in 0..(base - 1)

\* Mutant: the prefix is cut off and the base stays 10.
ScalarDecimal(val) ==
    IF val.is = "string"
    THEN IF CheckValidNumber(val.digits, val.base) THEN FrStr2element(Number(val.digits, 10))
         ELSE Invalid
    ELSE IF val.is = "integer" THEN FrStr2element(AsDouble(val.n))
    ELSE IF val.is = "float" THEN FrStr2element(Halves(val.halves))
    ELSE Invalid

Scalar(val) ==
    IF val.is = "string"
    THEN IF CheckValidNumber(val.digits, val.base) THEN FrStr2element(Number(val.digits, val.base))
         ELSE Invalid
    ELSE IF val.is = "integer" THEN FrStr2element(AsDouble(val.n))
    ELSE IF val.is = "float" THEN FrStr2element(Halves(val.halves))
    ELSE Invalid

RECURSIVE Json2FrElements(_)
Json2FrElements(val) ==
    IF val.is # "array" THEN <<Scalar(val)>>
    ELSE FlattenSeq([i \in DOMAIN val.items |-> Json2FrElements(val.items[i])])

\* The one type of everything in an array, or "mixed".
RECURSIVE CheckType(_)
CheckType(in) ==
    IF in.is \in {"integer", "string"} THEN "integer"
    ELSE IF in.is # "array" THEN in.is
    ELSE IF in.items = << >> THEN "null"
    ELSE LET types == {CheckType(in.items[i]) : i \in DOMAIN in.items}
         IN  IF Cardinality(types) = 1 THEN CHOOSE t \in types : TRUE ELSE "mixed"

\* What is put in place of an array whose types differ: nothing else is read then.
Mixed == [is |-> "mixed"]

\* prefix + "." + key, and prefix + "[" + index + "]" for an index of one digit.
Dot == 46
Open == 91
Member(prefix, key) == IF prefix = << >> THEN key ELSE prefix \o <<Dot>> \o key
Indexed(prefix, i) == prefix \o <<Open, 48 + i, 93>>

\* qualify_input and qualify_input_list: the assignments to in1, in order.  An array
\* of objects is taken apart.
RECURSIVE QualifyInput(_, _)
QualifyInput(prefix, in) ==
    LET whole == <<[name |-> prefix, value |-> in]>> IN
    IF in.is = "array"
    THEN CASE CheckType(in) = "mixed"  -> <<[name |-> prefix, value |-> Mixed]>>
           [] CheckType(in) = "object" ->
                FlattenSeq([i \in DOMAIN in.items |-> QualifyInput(Indexed(prefix, i - 1), in.items[i])])
           [] OTHER -> whole
    ELSE IF in.is = "object"
    THEN FlattenSeq([i \in DOMAIN in.members |->
             QualifyInput(Member(prefix, in.members[i][1]), in.members[i][2])])
    ELSE whole

\* in1[name] = value, one after the other: of two values of a name the last is kept.
Assigned(assignments) ==
    [n \in {assignments[k].name : k \in DOMAIN assignments} |->
        assignments[Max({k \in DOMAIN assignments : assignments[k].name = n})].value]

\* loadJson up to the table: every name and its elements, if no array is mixed and
\* every value that was kept is made of numbers.
LoadJson(jin) ==
    LET assignments == QualifyInput(<< >>, jin)
        in1 == Assigned(assignments)
        inputs == [n \in DOMAIN in1 |-> Json2FrElements(in1[n])]
    IN  [ok |-> /\ \A k \in DOMAIN assignments : assignments[k].value.is # "mixed"
                /\ \A n \in DOMAIN inputs : Invalid \notin ToSet(inputs[n]),
         inputs |-> inputs]
=============================================================================

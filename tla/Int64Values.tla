---------------------------- MODULE Int64Values ----------------------------
(* The values the SQL functions of internal/database work on. A value is a   *)
(* tuple whose first element is its kind: a JSON null, number, text, Boolean,*)
(* array or bag (object), the NULL of SQL, or the error that ends the query. *)
(* The text of a dynamic value is that value itself; a text is a sequence of *)
(* numbered characters, and a number is an integer of the width of int64.    *)
EXTENDS Integers, Sequences, FiniteSets

CONSTANTS
  MaxInt,              \* math.MaxInt64, at the width of the model
  maxReplacementParts  \* the most elements or properties of a dynamic value

ASSUME LimitsAssumption ==
  /\ MaxInt \in Nat \ {0}
  /\ maxReplacementParts \in 1..MaxInt

MinInt == -MaxInt - 1

(* The result of an int64 operation, which wraps around. *)
Wrap(n) == ((n - MinInt) % (2 * (MaxInt + 1))) + MinInt

IsInt64(n) == n \in MinInt..MaxInt

NULL == <<"NULL">>
Error == <<"error">>
Null == <<"null">>
Num(n) == <<"num", n>>
Str(s) == <<"str", s>>
Bool(b) == <<"bool", b>>
Arr(s) == <<"arr", s>>
Bag(f) == <<"bag", f>>

Empty == [x \in {} |-> x]

Is(kind, v) == v[1] = kind

Failed(v) == v \in {NULL, Error}

IntOrNULL(n) == IF IsInt64(n) THEN Num(n) ELSE NULL

(* What becomes of an argument in a dynamic value; the text of a timespan is *)
(* that timespan.                                                            *)
packJSONValue(v, kind) ==
  CASE v = NULL -> Null
    [] kind = "bool" /\ Is("num", v) -> Bool(v[2] # 0)
    [] OTHER -> v

(* dynamicArray: F of the elements of an array that is within the limit. *)
OfArray(v, F(_)) ==
  CASE ~Is("arr", v) -> NULL
    [] Is("arr", v) /\ Len(v[2]) > maxReplacementParts -> Error
    [] OTHER -> F(v[2])

(* bagObject: F of the properties of a bag that is within the limit. *)
OfBag(v, F(_)) ==
  CASE ~Is("bag", v) -> NULL
    [] Is("bag", v) /\ Cardinality(DOMAIN v[2]) > maxReplacementParts -> Error
    [] OTHER -> F(v[2])

(* A function that panics returns an error if it can, and NULL otherwise. *)
recoverFunction(panics, canFail, result) ==
  CASE ~panics -> result
    [] panics -> IF canFail THEN Error ELSE NULL
=============================================================================

--------------------------- MODULE DynamicValues ---------------------------
(* What the SQL functions of internal/database do with several values, and   *)
(* the order and the JSON of values (see Int64Values for what those are).    *)
EXTENDS Int64Values, SequencesExt, FiniteSetsExt, Functions

CONSTANT
  maxCollectionValues  \* the most elements a function or aggregate collects

(* Step of the results so far and each argument, until one of them fails. *)
UntilFailure(Step(_, _), first, values) ==
  FoldLeft(LAMBDA r, v : IF Failed(r) THEN r ELSE Step(r, v), first, values)

(* A text of numbered characters, compared as strings.Compare does. *)
TextBefore(a, b) ==
  \/ Len(a) < Len(b) /\ IsPrefix(a, b)
  \/ \E i \in 1..Len(a) :
       /\ i \in 1..Len(b)
       /\ a[i] < b[i]
       /\ \A j \in 1..i-1 : a[j] = b[j]

(* The JSON of a value. A number is one character here, as are the literals. *)
RECURSIVE Json(_)
Json(v) ==
  LET Joined(parts) == FoldLeft(LAMBDA t, p : t \o p \o <<44>>, <<>>, parts)
      Names(f) == SetToSortSeq(DOMAIN f, TextBefore)
      Property(f, name) == <<34>> \o name \o <<34>> \o Json(f[name])
  IN  CASE Is("null", v) -> <<110>>
        [] Is("bool", v) -> <<IF v[2] THEN 116 ELSE 102>>
        [] Is("num", v) -> <<48 + v[2]>>
        [] Is("str", v) -> <<34>> \o v[2] \o <<34>>
        [] Is("arr", v) ->
             <<91>> \o Joined([i \in DOMAIN v[2] |-> Json(v[2][i])])
        [] Is("bag", v) ->
             <<123>> \o Joined([i \in DOMAIN Names(v[2]) |->
                                 Property(v[2], Names(v[2])[i])])
=============================================================================

----------------------------- MODULE ArrayMoves -----------------------------
(* The functions that move the elements of a dynamic array, and bins:        *)
(* kql_array_move.go (rotate and shift), array_reverse and array_slice of    *)
(* kql_array_operations.go, bin_at of kql_sorting.go and bin of              *)
(* kql_compat.go. What they promise is computed without a limit on integers. *)
EXTENDS Int64Values, SequencesExt, FiniteSetsExt

kqlArrayReverse(v) == OfArray(v, LAMBDA e : Arr(Reverse(e)))

(* From start to end, both counted from the end when negative. *)
kqlArraySlice(v, startValue, endValue) ==
  OfArray(v, LAMBDA e :
    IF ~Is("num", startValue) \/ ~Is("num", endValue)
    THEN NULL
    ELSE LET From(n) == IF n < 0 THEN Wrap(n + Len(e)) ELSE n
             start == Max({0, From(startValue[2])})
             end == Min({From(endValue[2]), Len(e) - 1})
         IN  Arr(SubSeq(e, start + 1, end + 1)))

(* Mutant: the count changes direction before it is reduced. *)
RotateNegated(v, countValue, right) ==
  OfArray(v, LAMBDA e :
    LET n == IF right THEN Wrap(-countValue[2]) ELSE countValue[2]
    IN  CASE ~Is("num", countValue) -> NULL
          [] Is("num", countValue) /\ Len(e) = 0 -> v
          [] OTHER -> Arr([i \in 1..Len(e) |-> e[((i - 1 + n) % Len(e)) + 1]]))

(* The count is reduced before it changes direction: MinInt is not negated. *)
kqlArrayRotate(v, countValue, right) ==
  OfArray(v, LAMBDA e :
    LET size == Len(e)
        offset == countValue[2] % size
        first == IF right /\ offset # 0 THEN size - offset ELSE offset
    IN  CASE ~Is("num", countValue) -> NULL
          [] Is("num", countValue) /\ size = 0 -> v
          [] OTHER -> Arr([i \in 1..size |-> e[((i - 1 + first) % size) + 1]]))

(* kind is "__array_default" when the call gives no padding. *)
kqlArrayShift(v, countValue, padding, kind, right) ==
  OfArray(v, LAMBDA e :
    LET size == Len(e)
        clamped == Max({-size, Min({size, countValue[2]})})
        count == IF right THEN Wrap(-clamped) ELSE clamped
        fill == IF kind = "__array_default" THEN Null
                ELSE packJSONValue(padding, kind)
        At(i) == IF i \in 1..size THEN e[i] ELSE fill
    IN  CASE ~Is("num", countValue) -> NULL
          [] Is("num", countValue) /\ size = 0 -> v
          [] OTHER -> IF /\ kind = "__array_default"
                         /\ count # 0
                         /\ \E i \in DOMAIN e : Is("str", e[i])
                      THEN Error
                      ELSE Arr([i \in 1..size |-> At(Wrap(i + count))]))

(* The start of the bin of a value, for bins of size that start at fixed; a  *)
(* datetime is its ticks. bin() rounds down to a multiple of the size.       *)
kqlBinAt(value, size, fixed) ==
  CASE ~(Is("num", value) /\ Is("num", size) /\ Is("num", fixed)) -> NULL
    [] OTHER ->
         IF size[2] <= 0 THEN NULL
         ELSE LET bins == (value[2] - fixed[2]) \div size[2]
              IN  IntOrNULL(fixed[2] + bins * size[2])

kqlBin(value, size) ==
  CASE ~(Is("num", value) /\ Is("num", size)) -> NULL
    [] OTHER ->
         LET rem == value[2] % size[2]
         IN  IF size[2] <= 0 THEN NULL
             ELSE IF value[2] < Wrap(MinInt + rem) THEN NULL
             ELSE Num(Wrap(value[2] - rem))
-----------------------------------------------------------------------------
(* Rotating there and back leaves the array as it was, and an element moves  *)
(* by the count, at every count that an int64 can hold.                      *)
RotateLaw(v, n) ==
  LET e == v[2]
      Rotated(a, right) == kqlArrayRotate(a, Num(n), right)
      From(i) == (i % Len(e)) + 1
  IN  /\ Rotated(Rotated(v, FALSE), TRUE) = v
      /\ Len(e) > 0 =>
           /\ Rotated(v, FALSE) = Arr([i \in DOMAIN e |-> e[From(i - 1 + n)]])
           /\ Rotated(v, TRUE) = Arr([i \in DOMAIN e |-> e[From(i - 1 - n)]])

(* Shifting moves an element by the count, and pads what has none.           *)
ShiftLaw(v, n, padding, kind) ==
  LET e == v[2]
      fill == packJSONValue(padding, kind)
      At(i) == IF i \in DOMAIN e THEN e[i] ELSE fill
      Shifted(right) == kqlArrayShift(v, Num(n), padding, kind, right)
  IN  /\ Shifted(FALSE) = Arr([i \in DOMAIN e |-> At(i + n)])
      /\ Shifted(TRUE) = Arr([i \in DOMAIN e |-> At(i - n)])

(* A slice has the elements from n to m, in their order.                     *)
SliceLaw(v, n, m) ==
  LET e == v[2]
      slice == kqlArraySlice(v, Num(n), Num(m))[2]
      From(i) == IF i < 0 THEN i + Len(e) ELSE i
      kept == {i \in DOMAIN e : i - 1 \in From(n)..From(m)}
  IN  /\ Len(slice) = Cardinality(kept)
      /\ \A i \in kept : slice[Cardinality({j \in kept : j <= i})] = e[i]

(* bin() and bin_at() at 0 are the same, and a bin holds its value and lies  *)
(* a multiple of its size from where the bins start.                         *)
BinLaw(x, step, fixed) ==
  LET bin == kqlBinAt(Num(x), Num(step), Num(fixed))
  IN  /\ kqlBin(Num(x), Num(step)) = kqlBinAt(Num(x), Num(step), Num(0))
      /\ (bin = NULL) = (step <= 0 \/ x - ((x - fixed) % step) < MinInt)
      /\ bin # NULL => /\ x - bin[2] \in 0..step - 1
                       /\ (bin[2] - fixed) % step = 0
=============================================================================

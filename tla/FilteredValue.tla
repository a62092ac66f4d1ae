---------------------------- MODULE FilteredValue ----------------------------
(***************************************************************************)
(* util/FilteredValue.h: the arithmetic of the filter between the readings *)
(* of a sensor and the temperature that is shown.  (How long a value stays *)
(* valid is part of DS18x20.tla.)  A double is a fraction here, exactly:   *)
(* value / scale.  A method is an operator from filter to filter.          *)
(***************************************************************************)
EXTENDS Integers, Sequences, SequencesExt

CONSTANTS
  Window,       \* s0_temp.init(10, 10): _window
  Readings,     \* bound: the readings the filter is checked with
  MaxReadings   \* bound: how many of them in a row

ASSUME FilterAssumption ==
  Window \in Nat \ {0} /\ Readings \subseteq Int /\ Readings # {} /\ MaxReadings \in Nat

fresh == [value |-> 0, scale |-> 1, minValue |-> 0, maxValue |-> 0, start |-> TRUE]

reset(f, newval) ==
  [f EXCEPT !.value = newval, !.scale = 1, !.minValue = newval, !.maxValue = newval]

averageNewFirst(f, newval) ==                   \* mutant: the weights change places
  [f EXCEPT !.value = f.value + (Window - 1) * newval * f.scale, !.scale = Window * @]

average(f, newval) ==
  [f EXCEPT !.value = (Window - 1) * @ + newval * f.scale, !.scale = Window * @]

add(f, newval) ==
  [(IF f.start THEN reset(f, newval)
    ELSE [average(f, newval) EXCEPT !.minValue = Min({@, newval}), !.maxValue = Max({@, newval})])
   EXCEPT !.start = FALSE]

addNonZero(f, newval) == IF newval > 0 THEN add(f, newval) ELSE f

addAndResetUp(f, newval) ==
  IF f.value < newval * f.scale THEN [f EXCEPT !.value = newval, !.scale = 1] ELSE add(f, newval)

addAndResetDown(f, newval) ==
  IF f.value > newval * f.scale THEN [f EXCEPT !.value = newval, !.scale = 1] ELSE add(f, newval)

-----------------------------------------------------------------------------
Fed(method(_, _), readings) == FoldLeft(method, fresh, readings)

Histories == UNION {[1..n -> Readings] : n \in 1..MaxReadings}

(* The k-th of n readings counts ((Window - 1) / Window)^(n - k) / Window, the   *)
(* first one without the last factor.                                          *)
WeightedSum(readings) ==
  LET n == Len(readings)
      weight(k) == ((Window - 1) ^ (n - k)) * (IF k = 1 THEN 1 ELSE Window ^ (k - 2))
  IN  FoldLeft(LAMBDA sum, k : sum + weight(k) * readings[k], 0, [k \in 1..n |-> k])

(* The value is the exponentially weighted mean of the readings, and stays       *)
(* between the smallest and the largest of them: the value 0 that the filter   *)
(* starts with does not show in it.                                            *)
WeightedMean(h) ==
  LET f == Fed(add, h)
  IN  /\ f.value = WeightedSum(h) /\ f.scale = Window ^ (Len(h) - 1)
      /\ f.minValue = Min(Range(h)) /\ f.maxValue = Max(Range(h))
      /\ f.minValue * f.scale <= f.value /\ f.value <= f.maxValue * f.scale
      /\ LET positive == SelectSeq(h, LAMBDA x : x > 0)
         IN  Fed(addNonZero, h) = IF positive = <<>> THEN fresh ELSE Fed(add, positive)

(* An envelope goes up at once and comes down without passing the reading; the  *)
(* other one is its mirror image.                                              *)
Mirrored(h) == [k \in 1..Len(h) |-> -h[k]]

Envelope(h) ==
  LET was == Fed(addAndResetUp, Front(h))
      f   == Fed(addAndResetUp, h)
      x   == Last(h)
  IN  /\ x * f.scale <= f.value
      /\ was.value > x * was.scale => f.value * was.scale < was.value * f.scale
      /\ Fed(addAndResetDown, Mirrored(h)).value = -f.value

FollowsReadings == \A h \in Histories : WeightedMean(h) /\ Envelope(h)
=============================================================================

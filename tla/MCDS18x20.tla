----------------------------- MODULE MCDS18x20 -----------------------------
(* The sensors on the line when DS18x20 is model-checked, and the arithmetic   *)
(* that their readings go through.  It steers nothing in DS18x20, so the state *)
(* does not say which readings there were: the properties hold of all.         *)
EXTENDS DS18x20, FilteredValue

Line == <<"noisy", "healthy", "foreign">>

Sixteenths == {-3, 0, 1, 4, 10}

-----------------------------------------------------------------------------
(* Whatever a filter with a value was fed with, add yields the weighted mean of *)
(* just that, between its extremes, and addAndResetUp and addAndResetDown      *)
(* follow its peaks (FilteredValue.h): the 0 it started with leaves no trace.  *)
FilterFollowsReadings == ~_start => FollowsReadings
=============================================================================

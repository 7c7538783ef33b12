----------------------------- MODULE MCFxRates -----------------------------
(* Instances of FxRates for TLC. *)
EXTENDS FxRates

\* A payment dated three days before the first rate, and one the day after
\* the last day there is.
FarDays == {-3, MaxDay + 1}
=============================================================================

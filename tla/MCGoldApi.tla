----------------------------- MODULE MCGoldApi -----------------------------
(***************************************************************************)
(* Small instances of GoldApi for TLC: one thread that serves API clients  *)
(* and one that serves the console, two gold rows, pages of one row and a  *)
(* cache of one entry.  The form is left empty or names a country that     *)
(* only row 1 has; two filters of API clients are spelled alike,           *)
(* country_code = "|a" with payment_method = "b" (no such row) and         *)
(* payment_method = "a|b" (row 2).                                         *)
(***************************************************************************)
EXTENDS GoldApi, TLC

CONSTANTS country, pipedCountry, pipedMethod

MCSelects ==
    [f \in Filters |-> CASE f = NoFilter -> 1 .. NRows
                         [] f = country -> {1}
                         [] f = pipedMethod -> {2}
                         [] OTHER -> {}]

MCKeyText == [f \in Filters |-> IF f = pipedMethod THEN pipedCountry ELSE f]

MCClientRequests ==
    {Hourly(f, 0) : f \in Filters \ {country}} \union {Hourly(NoFilter, 1)}
      \union {[Hourly(NoFilter, 0) EXCEPT !.endpoint = "summary"]}

ThreadSymmetry == Permutations(Clients)
=============================================================================

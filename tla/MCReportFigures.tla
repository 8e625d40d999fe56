--------------------------- MODULE MCReportFigures ---------------------------
(* Instances of ReportFigures for TLC. *)
EXTENDS ReportFigures

CONSTANTS ns1, ns2, m1, m2, budget, flagship, free, unknown

\* Output dearer than input, both dear, and a price of nothing.
ThreePrices ==
    [t \in {budget, flagship, free} |->
        CASE t = budget -> [input |-> 1, output |-> 5]
          [] t = flagship -> [input |-> 9, output |-> 20]
          [] t = free -> [input |-> 0, output |-> 0]]
FourTargets == {budget, unknown, flagship, free}
=============================================================================

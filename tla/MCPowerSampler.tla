--------------------------- MODULE MCPowerSampler ---------------------------
(* Instances of PowerSampler for TLC. *)
EXTENDS PowerSampler

CONSTANTS k1, k2

\* One reading above its threshold, one with less power under a higher one: a
\* sample judged by the other's threshold changes class.
BusyReading == [power |-> 3, active |-> 1]
IdleReading == [power |-> 2, active |-> 4]

TwoKeys == {k1, k2}
MCReadings == {BusyReading, IdleReading}
=============================================================================

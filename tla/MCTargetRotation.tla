------------------------- MODULE MCTargetRotation -------------------------
(* TLC instances of TargetRotation.                                        *)
EXTENDS TargetRotation

(* The default schedule: benchmark prices at 00:30, 06:30, 12:30, 18:30,   *)
(* historical observations at 04:15.                                       *)
DefaultDay == <<"benchmark-prices", "historical-prices", "benchmark-prices",
                "benchmark-prices", "benchmark-prices">>
BenchmarkOnly == <<"benchmark-prices">>

=============================================================================

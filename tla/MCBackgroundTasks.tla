------------------------- MODULE MCBackgroundTasks -------------------------
(* Jobs for TLC: the tests with and without the Scrubber beside them, and  *)
(* all three tasks around a body that only waits or raises.                *)
EXTENDS BackgroundTasks

MCJobs == {[tasks |-> {}, scripts |-> {repair_test_1("size", "scrub"),
                                       repair_test_1("data", "deep-scrub")}],
           [tasks |-> {}, scripts |-> {repair_test_2}],
           [tasks |-> {"scrub"}, scripts |-> {test_repair_corrupted_obj}],
           [tasks |-> TaskNames, scripts |-> {<<>>}]}

TwoPools == <<"rbd", "data">>
=============================================================================

-------------------------- MODULE MCScriptedTests --------------------------
(* The scripted tests, each on the roles and with the pool size its yaml   *)
(* under src/suites/ gives it.                                             *)
EXTENDS ScriptedTests, OsdScripts, TLC

Three == [osds |-> 0 .. 2, mons |-> {"a"}, size |-> 2, min_size |-> 1, sleeps |-> FALSE,
          marks |-> TRUE]
Four == [Three EXCEPT !.osds = 0 .. 3]
Sleepy == [Three EXCEPT !.sleeps = TRUE]
ThreeMons == [Three EXCEPT !.osds = 0 .. 1, !.mons = {"a", "b", "c"}]

Run(roles, script) == roles @@ [code |-> script]

MCTests ==
    {Run(Three, s) : s \in {lost_unfound, rep_lost_unfound_delete, peer, resolve_stuck_peering,
                            peering_speed_test, recovery_bench(1)}}
    \cup {Run([Four EXCEPT !.size = 4, !.min_size = 2], ec_lost_unfound)}
    \cup {Run(Four, s) : s \in {test_incomplete_pgs, object_source_down}}
    \cup {Run([Three EXCEPT !.osds = 0 .. 1], dump_stuck)}
    \cup {Run([Three EXCEPT !.size = 1], osd_failsafe_enospc)}
    \cup {Run(Sleepy, s) : s \in {osd_backfill, divergent_priors,
                                  divergent_priors2, reg11184}}
    \cup {Run([Sleepy EXCEPT !.marks = FALSE], osd_recovery)}
    \cup {Run(ThreeMons, mon_recovery), Run([ThreeMons EXCEPT !.osds = 0 .. 2], rebuild_mondb),
          Run(Three, mon_seesaw("a", "a_prime", 1)),
          Run(ThreeMons, mon_seesaw("b", "b_prime", 3))}
=============================================================================

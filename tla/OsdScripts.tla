----------------------------- MODULE OsdScripts -----------------------------
(***************************************************************************)
(* The scripted tests of src/tasks/ as instructions of ScriptedTests.  A   *)
(* run of objects that is written, read or removed is one "io", and a run  *)
(* of assertions about them one "assert"; settings that only slow recovery *)
(* down are the "tell" or "socket" that sends them.                        *)
(***************************************************************************)
EXTENDS Naturals, Sequences

(* for o in list: operation(o)                                             *)
Each(op, list) == [i \in DOMAIN list |-> <<op, list[i]>>]
EachOne(op, list) == [i \in DOMAIN list |-> <<op, {list[i]}>>]

Io == <<"io", {}>>
Pgs(state) == <<state, {}>>
Asserts == <<"assert", {}>>

KillDown(o) == <<<<"kill", o>>, <<"down", {o}>>>>
flush_pg_stats(list) == Each("tell", list)
ReviveOut(o) == <<<<"revive", o>>, <<"osd is up", o>>>>   \* mutant: leaves it out
ReviveIn(o) == <<<<"revive", o>>, <<"in", {o}>>, <<"osd is up", o>>>>
blackhole_kill_osd(o) == <<<<"tell", o>>, <<"kill", o>>>>

----------------------------------------------------------------------------
(* lost_unfound.py, and rep_lost_unfound_delete.py, which deletes the      *)
(* objects instead of reverting them and flushes once more at the start.   *)
lost_unfound ==
    <<<<"up", 3>>, Pgs("clean")>>
    \o KillDown(2) \o <<<<"out", {2}>>, Io>>
    \o flush_pg_stats(<<0, 1>>) \o <<Pgs("recovered"), Io, <<"tell", 1>>>>
    \o KillDown(0) \o <<Io>> \o ReviveIn(0)
    \o flush_pg_stats(<<1, 0>>) \o <<Pgs("active")>>
    \o KillDown(1) \o <<<<"out", {1}>>, <<"lost", 1>>>>
    \o ReviveIn(2) \o flush_pg_stats(<<0, 2>>) \o <<Pgs("active")>>
    \o flush_pg_stats(<<0, 2>>) \o <<Asserts, Io>>
    \o flush_pg_stats(<<0, 2, 0, 2>>) \o <<Pgs("recovered"), Io, Asserts>>
    \o ReviveIn(1) \o <<Pgs("clean"), Io>>

rep_lost_unfound_delete ==
    <<<<"up", 3>>>> \o flush_pg_stats(<<0, 1, 2>>) \o Tail(lost_unfound)

(* ec_lost_unfound.py                                                      *)
ec_lost_unfound ==
    <<Pgs("clean"), Io>> \o flush_pg_stats(<<0, 1>>)
    \o <<Pgs("recovered"), Io, <<"tell", 1>>>>
    \o KillDown(0) \o KillDown(3) \o <<Io>>
    \o KillDown(1) \o <<<<"lost", 1>>, <<"revive", 0>>, <<"osd is up", 0>>,
                       <<"revive", 3>>, <<"osd is up", 3>>>>
    \o flush_pg_stats(<<0, 2, 3>>) \o <<Pgs("active")>>
    \o flush_pg_stats(<<0, 2, 3>>) \o <<Asserts, Io>>
    \o flush_pg_stats(<<0, 2, 3, 0, 2, 3>>) \o <<Pgs("recovered"), Io, Asserts>>
    \o <<<<"revive", 1>>, <<"osd is up", 1>>, Pgs("clean"), Io>>

(* osd_backfill.py                                                         *)
osd_backfill ==
    <<<<"up", 3>>>> \o flush_pg_stats(<<0, 1, 2>>) \o <<Pgs("clean"), Io, <<"out", {0}>>>>
    \o KillDown(0) \o flush_pg_stats(<<1, 2>>) \o <<Pgs("recovered")>>
    \o blackhole_kill_osd(1) \o <<<<"revive", 1>>, Io>>
    \o flush_pg_stats(<<1, 2>>) \o <<Pgs("recovered"), <<"revive", 0>>>>
    \o flush_pg_stats(<<1, 2>>) \o <<Pgs("clean")>>

(* osd_recovery.py: task                                                   *)
osd_recovery ==
    <<<<"up", 3>>>> \o flush_pg_stats(<<0, 1, 2>>) \o <<Pgs("clean")>>
    \o EachOne("set", <<"noin", "noout", "noup", "nodown">>)
    \o EachOne("unset", <<"noin", "noout", "noup", "nodown">>)
    \o blackhole_kill_osd(1) \o <<<<"kill", 2>>, <<"revive", 1>>, Io>>
    \o flush_pg_stats(<<0, 1>>) \o <<Pgs("active or down"), Io, <<"revive", 2>>, <<"up", 3>>>>
    \o flush_pg_stats(<<0, 1, 2>>) \o <<Pgs("clean")>>

(* osd_recovery.py: test_incomplete_pgs                                    *)
test_incomplete_pgs ==
    LET all == flush_pg_stats(<<0, 1, 2, 3>>) IN
    <<<<"up", 4>>>> \o all \o <<Pgs("clean")>> \o Each("socket", <<0, 1, 2, 3>>)
    \o <<<<"out", {0, 1}>>>> \o all \o <<Pgs("clean"), Io>>
    \o <<<<"in", {0, 1}>>, <<"out", {2, 3}>>>> \o all \o <<Pgs("active"), Asserts>>
    \o <<<<"kill", 2>>, <<"kill", 3>>, <<"down", {2, 3}>>>>
    \o flush_pg_stats(<<0, 1>>) \o <<Pgs("active or down"), Asserts>>
    \o <<<<"revive", 2>>, <<"revive", 3>>, <<"up", 4>>>> \o all \o <<Pgs("clean")>>

(* peer.py                                                                 *)
peer ==
    <<<<"up", 3>>>> \o flush_pg_stats(<<0, 1, 2>>) \o <<Pgs("clean")>>
    \o Each("socket", <<0, 1, 2>>)
    \o KillDown(2) \o <<Io>> \o flush_pg_stats(<<0, 1>>) \o <<Pgs("recovered")>>
    \o KillDown(1) \o <<<<"revive", 2>>, <<"osd is up", 2>>>>
    \o flush_pg_stats(<<0, 2>>) \o <<Pgs("active or down")>> \o flush_pg_stats(<<0, 2>>)
    \o <<Asserts, <<"revive", 1>>, <<"osd is up", 1>>>> \o flush_pg_stats(<<0, 1, 2>>)
    \o <<Pgs("clean")>>

(* object_source_down.py                                                   *)
object_source_down ==
    <<<<"up", 3>>, Pgs("clean"), <<"out", {0}>>, <<"out", {1}>>, Pgs("clean")>>
    \o Each("tell", <<0, 1, 2, 3>>) \o <<Io, <<"out", {3}>>, Pgs("active")>>
    \o <<<<"in", {0}>>, Pgs("active")>> \o flush_pg_stats(<<2, 0>>)
    \o <<<<"out", {2}>>, Pgs("active"), <<"in", {1}>>, Pgs("active")>>
    \o flush_pg_stats(<<1, 0>>) \o <<Asserts>>
    \o KillDown(2) \o KillDown(3) \o flush_pg_stats(<<1, 0>>) \o <<Asserts>>

(* dump_stuck.py: task and check_stuck                                     *)
dump_stuck ==
    flush_pg_stats(<<0, 1>>) \o <<Pgs("clean"), Pgs("is clean"), <<"out", {0}>>, <<"tell", 1>>>>
    \o <<Pgs("recovered"), Pgs("is unclean"), <<"in", {0}>>>>
    \o flush_pg_stats(<<0, 1>>) \o <<Pgs("clean"), Pgs("is clean")>>
    \o KillDown(0) \o <<Pgs("unclean")>> \o KillDown(1) \o <<Pgs("stale")>>
    \o <<<<"revive", 0>>, <<"in", {0}>>, <<"revive", 1>>, <<"in", {1}>>>>
    \o <<<<"told", {0, 1}>>, Pgs("clean"), Pgs("is clean")>>

----------------------------------------------------------------------------
(* What divergent_priors.py, divergent_priors2.py and reg11184.py have in  *)
(* common: osd.0, the primary, is left with writes that the others, which  *)
(* were blackholed, do not have, and is stopped once they have peered.     *)
make_divergent ==
    <<<<"up", 3>>>> \o flush_pg_stats(<<0, 1, 2>>)
    \o EachOne("set", <<"noout", "noin", "nodown">>) \o <<Pgs("clean")>>
    \o Each("socket", <<0, 1, 2>>) \o <<Io, Pgs("clean")>> \o Each("socket", <<1, 2>>)
    \o Each("kill", <<0, 1, 2>>) \o EachOne("down", <<0, 1, 2>>) \o EachOne("out", <<1, 2>>)
    \o Each("revive", <<1, 2>>) \o EachOne("in", <<1, 2>>)
    \o <<Io, Pgs("recovered")>> \o Each("socket", <<1, 2>>)
    \o <<<<"set", {"noup"}>>, <<"revive", 0>>, <<"socket", 0>>, <<"unset", {"noup"}>>,
         <<"up", 3>>, Io, <<"kill", 0>>>>

(* ... and how each of them ends.                                          *)
allow_recovery == Each("tell", <<0, 1, 2>>) \o <<Io, Asserts>>

divergent_priors == make_divergent \o <<<<"revive", 0>>>> \o allow_recovery

divergent_priors2 ==
    make_divergent \o Each("tool", <<0, 0, 0>>)
    \o <<<<"revive", 0>>, <<"socket", 0>>>> \o allow_recovery

reg11184 ==
    make_divergent \o Each("tool", <<0, 0>>) \o KillDown(2)
    \o <<<<"tool", 2>>, <<"revive", 0>>, <<"in", {0}>>, <<"revive", 2>>, <<"up", 3>>>>
    \o <<<<"socket", 0>>, <<"in", {0}>>, Io, <<"kill", 0>>, <<"revive", 0>>>> \o allow_recovery

(* resolve_stuck_peering.py, with osd.0 as the primary                     *)
resolve_stuck_peering ==
    <<<<"up", 3>>, Pgs("clean"), Io, Pgs("clean")>>
    \o Each("kill", <<1, 2>>) \o EachOne("down", <<1, 2>>) \o <<Io>>
    \o KillDown(0) \o Each("revive", <<1, 2>>)
    \o <<<<"up", 1>>, <<"lost", 0>>, Pgs("active")>>

----------------------------------------------------------------------------
(* peering_speed_test.py: setup, task, and two times do_run                *)
peering_speed_test ==
    LET do_run == <<<<"in", {0}>>, Io, Pgs("clean"), <<"out", {0}>>, Pgs("clean")>> IN
    <<Io, <<"out", {0}>>, Pgs("clean")>> \o do_run \o do_run \o <<<<"in", {0}>>>>

(* osd_failsafe_enospc.py                                                  *)
osd_failsafe_enospc ==
    EachOne("out", <<1, 2>>) \o <<<<"tell", 0>>, Asserts, <<"tell", 0>>, Asserts>>
    \o <<Io, Asserts, <<"tell", 0>>, Io, Asserts>> \o Each("tell", <<0, 0>>)
    \o <<Asserts, <<"tell", 0>>, Asserts>> \o EachOne("in", <<1, 2>>)

(* recovery_bench.py: task, __init__ and do_bench                          *)
recovery_bench(o) ==
    <<<<"up", 3>>, Pgs("clean"), Io, Io, <<"out", {o}>>, Io, <<"in", {o}>>>>

----------------------------------------------------------------------------
(* mon_recovery.py.  reverse() turns the list round in place, so that the  *)
(* second of "forward and reverse order" is the first one again.           *)
mon_recovery ==
    LET One(m) == <<<<"kill mon", m>>, <<"quorum", 2>>, <<"revive mon", m>>, <<"quorum", 3>>>>
        All == Each("kill mon", <<"c", "b", "a">>)
               \o <<<<"revive mon", "c">>, <<"revive mon", "b">>, <<"quorum", 2>>,
                    <<"revive mon", "a">>, <<"quorum", 3>>>>
    IN  <<<<"quorum", 3>>, Asserts>> \o One("a") \o One("b") \o One("c") \o All \o All
        \o One("c") \o One("b")

(* mon_seesaw.py, with create_pool and wait_for_clean as its body          *)
mon_seesaw(victim, replacer, size) ==
    <<<<"add mon", replacer>>, <<"quorum", size + 1>>, <<"remove mon", victim>>,
      <<"quorum", size>>, <<"mon gone", victim>>, Pgs("clean"), <<"add mon", victim>>,
      <<"quorum", size + 1>>, <<"remove mon", replacer>>, <<"quorum", size>>,
      <<"kill mon", replacer>>>>

(* ObjectStoreTool.run without do_revive                                   *)
objectstore_tool(o) == <<<<"kill", o>>, <<"tool", o>>>>

(* rebuild_mondb.py                                                        *)
rebuild_mondb ==
    Each("kill mon", <<"a", "b", "c">>)
    \o objectstore_tool(0) \o objectstore_tool(1) \o objectstore_tool(2)
    \o Each("revive mon", <<"a", "b", "c">>) \o <<<<"quorum", 3>>>>
    \o Each("revive", <<0, 1, 2>>)

=============================================================================

----------------------------- MODULE ThrashOsds -----------------------------
(***************************************************************************)
(* The thrashosds task (tasks/thrashosds.py): the Thrasher's do_thrash     *)
(* greenlet, the four helper greenlets it spawns beside it, and the task   *)
(* body that joins them.  The helpers read live_osds and stopping, which   *)
(* do_thrash and the task write, between any two steps of those.           *)
(*                                                                         *)
(* do_thrash is what OsdThrasher is shown to implement: the steps of       *)
(* OsdMembership while it loops, all_up once it has seen stopping, or an   *)
(* exception at any time.                                                  *)
(***************************************************************************)
EXTENDS OsdMembership

VARIABLES
    thrash,      \* how far do_thrash is
    stopping,    \* Thrasher.stopping
    recovered,   \* are the pgs recovered
    helper,      \* of each helper greenlet: "run", "done" or "raised"
    dumped,      \* do_dump_ops: position of the for loop in live_osds
    scrubState,  \* do_noscrub_toggle: "none", "noscrub", "both" or "nodeep-scrub"
    flags,       \* the scrub flags set in the osdmap
    opTracker,   \* osd_enable_op_tracker on the OSDs
    main         \* where the task body is, from "yield" to "finished" or "failed"

helperVars == <<helper, dumped, scrubState, flags, opTracker>>
thrashVars == <<live, in, thrash, recovered>>
taskVars   == <<thrashVars, stopping, helperVars, main>>

Helpers == {"sighup", "optrack", "dump_ops", "noscrub"}
Flags   == {"noscrub", "nodeep-scrub"}

TaskInit ==
    /\ MembershipInit
    /\ thrash = "loop"
    /\ stopping = FALSE
    /\ recovered = TRUE
    /\ helper = [h \in Helpers |-> "run"]
    /\ dumped = 0
    /\ scrubState = "none"
    /\ flags = {}
    /\ opTracker = "true"
    /\ main = "yield"

-----------------------------------------------------------------------------
(* do_thrash, by what it does to the lists.                                *)
ThrashOsd ==
    /\ thrash = "loop"
    /\ MembershipNext
    /\ recovered' = FALSE
    /\ UNCHANGED thrash

ThrashStops ==
    /\ thrash = "loop" /\ stopping
    /\ thrash' = "final"
    /\ UNCHANGED <<live, in, recovered>>

AllUp ==
    /\ thrash = "final"
    /\ \/ /\ \E o \in Osds \ live : Revive(o)
          /\ recovered' = FALSE /\ UNCHANGED thrash
       \/ /\ live = Osds /\ \E o \in Osds \ in : MarkIn(o)
          /\ recovered' = FALSE /\ UNCHANGED thrash
       \/ /\ live = Osds /\ in = Osds
          /\ thrash' = "done" /\ UNCHANGED <<live, in, recovered>>

ThrashRaises ==
    /\ thrash \in {"loop", "final"}
    /\ thrash' = "raised"
    /\ UNCHANGED <<live, in, recovered>>

ClusterRecovers == ~recovered /\ recovered' = TRUE /\ UNCHANGED <<live, in, thrash>>

-----------------------------------------------------------------------------
Runs(h)    == helper[h] = "run"
Ends(h, s) == helper' = [helper EXCEPT ![h] = s]

(* random.choice raises IndexError on an empty list; otherwise the signal  *)
(* goes out in the same step, before any other greenlet runs.              *)
DoSighup ==
    /\ Runs("sighup")
    /\ \/ stopping /\ Ends("sighup", "done")
       \/ ~stopping /\ live = {} /\ Ends("sighup", "raised")
       \/ ~stopping /\ live # {} /\ UNCHANGED helper
    /\ UNCHANGED <<dumped, scrubState, flags, opTracker>>

(* raw_cluster_cmd_result ignores failure; the last value stays.           *)
DoOptrackToggle ==
    /\ Runs("optrack")
    /\ \/ stopping /\ Ends("optrack", "done") /\ UNCHANGED opTracker
       \/ /\ ~stopping
          /\ opTracker' = IF opTracker = "true" THEN "false" ELSE "true"
          /\ UNCHANGED helper
    /\ UNCHANGED <<dumped, scrubState, flags>>

(* `for osd in self.live_osds' walks the list by position while do_thrash  *)
(* shortens and extends it; stopping is looked at between two walks.       *)
DoDumpOps ==
    /\ Runs("dump_ops")
    /\ \/ /\ dumped > 0 /\ dumped <= Cardinality(live)
          /\ dumped' = dumped + 1 /\ UNCHANGED helper
       \/ /\ dumped > Cardinality(live)
          /\ dumped' = 0 /\ UNCHANGED helper
       \/ dumped = 0 /\ ~stopping /\ dumped' = 1 /\ UNCHANGED helper
       \/ dumped = 0 /\ stopping /\ Ends("dump_ops", "done") /\ UNCHANGED dumped
    /\ UNCHANGED <<scrubState, flags, opTracker>>

(* Variant: a command whose failure is ignored.                            *)
NoscrubTogglesUnchecked(from, to, newFlags) ==
    /\ scrubState = from
    /\ scrubState' = to
    /\ flags' \in {flags, newFlags}

(* One turn of the four-state cycle per iteration: a command, then the     *)
(* assignment of scrub_state.                                              *)
NoscrubToggles(from, to, newFlags) ==
    /\ scrubState = from
    /\ scrubState' = to
    /\ flags' = newFlags

(* Variant: the second unset is missing.                                   *)
NoscrubUnsetsOne ==
    /\ flags' = flags \ {"noscrub"}
    /\ Ends("noscrub", "done")
    /\ UNCHANGED scrubState

(* After the loop both flags are unset by two commands.                    *)
NoscrubUnsets ==
    \/ /\ "noscrub" \in flags
       /\ flags' = flags \ {"noscrub"}
       /\ UNCHANGED <<scrubState, helper>>
    \/ /\ "noscrub" \notin flags
       /\ flags' = flags \ {"nodeep-scrub"}
       /\ Ends("noscrub", "done")
       /\ UNCHANGED scrubState

DoNoscrubToggle ==
    /\ Runs("noscrub")
    /\ \/ /\ ~stopping
          /\ \/ NoscrubToggles("none", "noscrub", flags \cup {"noscrub"})
             \/ NoscrubToggles("noscrub", "both", flags \cup {"nodeep-scrub"})
             \/ NoscrubToggles("both", "nodeep-scrub", flags \ {"noscrub"})
             \/ NoscrubToggles("nodeep-scrub", "none", flags \ {"nodeep-scrub"})
          /\ UNCHANGED helper
       \/ stopping /\ NoscrubUnsets
    /\ UNCHANGED <<dumped, opTracker>>

(* A raw_cluster_cmd of do_noscrub_toggle may fail.                        *)
NoscrubRaises ==
    /\ Runs("noscrub") /\ Ends("noscrub", "raised")
    /\ UNCHANGED <<dumped, scrubState, flags, opTracker>>

HelpersProceed == DoSighup \/ DoOptrackToggle \/ DoDumpOps \/ DoNoscrubToggle

-----------------------------------------------------------------------------
(* The task body: the finally clause sets stopping, then joins the         *)
(* greenlets one after the other.  get() re-raises what the greenlet       *)
(* raised and so skips the joins that are left; join() never raises.       *)

(* Variant: stopping is not set.                                           *)
BeginJoinNoStop == main = "yield" /\ main' = "thrash" /\ UNCHANGED stopping

BeginJoin ==
    /\ main = "yield"
    /\ main' = "thrash"
    /\ stopping' = TRUE

JoinThrash ==
    /\ main = "thrash"
    /\ thrash \in {"done", "raised"}
    /\ main' = IF thrash = "done" THEN "sighup" ELSE "failed"

JoinSighup ==
    /\ main = "sighup"
    /\ ~Runs("sighup")
    /\ main' = IF helper["sighup"] = "done" THEN "optrack" ELSE "failed"

(* Variant: the greenlet is not waited for.                                *)
JoinHelperEarly(h, next) == main = h /\ main' = next

JoinHelper(h, next) == main = h /\ ~Runs(h) /\ main' = next

(* wait_for_recovery(config.get('timeout', 360)): this one always has a    *)
(* timeout.                                                                *)
WaitForRecovery ==
    /\ main = "recovery"
    /\ main' = IF recovered THEN "finished" ELSE "failed"

TaskJoins ==
    \/ JoinThrash \/ JoinSighup
    \/ JoinHelper("optrack", "dump_ops") \/ JoinHelper("dump_ops", "noscrub")
    \/ JoinHelper("noscrub", "recovery")
    \/ WaitForRecovery

TaskNext ==
    \/ /\ ThrashOsd \/ ThrashStops \/ AllUp \/ ThrashRaises \/ ClusterRecovers
       /\ UNCHANGED <<stopping, helperVars, main>>
    \/ /\ HelpersProceed \/ NoscrubRaises
       /\ UNCHANGED <<thrashVars, stopping, main>>
    \/ BeginJoin /\ UNCHANGED <<thrashVars, helperVars>>
    \/ TaskJoins /\ UNCHANGED <<thrashVars, stopping, helperVars>>

TaskSpec == TaskInit /\ [][TaskNext]_taskVars

(* Each greenlet that can run is eventually scheduled, and the other tasks *)
(* of the job end, so that the task is asked to stop.  That do_thrash gets *)
(* to the top of its loop again is JoinReturns of OsdThrasher, without     *)
(* 'scrub_interval' (its Scrubs) and with 'timeout'.                       *)
FairTaskSpec ==
    /\ TaskSpec
    /\ WF_taskVars((ThrashStops \/ AllUp) /\ UNCHANGED <<stopping, helperVars, main>>)
    /\ WF_taskVars(DoSighup /\ UNCHANGED <<thrashVars, stopping, main>>)
    /\ WF_taskVars(DoOptrackToggle /\ UNCHANGED <<thrashVars, stopping, main>>)
    /\ WF_taskVars(DoDumpOps /\ UNCHANGED <<thrashVars, stopping, main>>)
    /\ WF_taskVars(DoNoscrubToggle /\ UNCHANGED <<thrashVars, stopping, main>>)
    /\ WF_taskVars(TaskJoins /\ UNCHANGED <<thrashVars, stopping, helperVars>>)
    /\ WF_taskVars(BeginJoin /\ UNCHANGED <<thrashVars, helperVars>>)

-----------------------------------------------------------------------------
(* do_noscrub_toggle never loses track of the osdmap: while it is neither  *)
(* cleaning up nor failed, the flags set are the ones scrub_state names.   *)
FlagsFollowState ==
    Runs("noscrub") /\ ~stopping =>
        flags = CASE scrubState = "none"         -> {}
                  [] scrubState = "noscrub"      -> {"noscrub"}
                  [] scrubState = "both"         -> Flags
                  [] scrubState = "nodeep-scrub" -> {"nodeep-scrub"}

(* A task that finished without an exception leaves nothing behind: every  *)
(* greenlet it spawned has ended, all OSDs run and are in, and the scrub   *)
(* flags are unset, unless do_noscrub_toggle itself failed, which join()   *)
(* does not report.                                                        *)
FinishedIsClean ==
    main = "finished" =>
        /\ thrash = "done"
        /\ \A h \in Helpers : ~Runs(h)
        /\ live = Osds /\ in = Osds
        /\ flags = {} \/ helper["noscrub"] = "raised"

(* Whatever way the task ends, also when an exception of do_thrash makes   *)
(* do_join skip the joins, every helper ends and the scrub flags are unset *)
(* in the end, unless do_noscrub_toggle failed: later scrubs can complete. *)
HelpersWindDown ==
    stopping ~> /\ \A h \in Helpers : ~Runs(h)
                /\ flags = {} \/ helper["noscrub"] = "raised"

(* The task ends, by return or by exception: no join waits for ever.       *)
TaskEnds == <>(main \in {"finished", "failed"})

=============================================================================

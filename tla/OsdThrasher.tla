---------------------------- MODULE OsdThrasher ----------------------------
(***************************************************************************)
(* The OSD thrasher of tasks/zbkc_manager.py (class Thrasher): the         *)
(* do_thrash greenlet, its four lists in_osds, out_osds, live_osds and     *)
(* dead_osds, and the cluster it acts on.  The lists are sets here: their  *)
(* order is never used, except dead_osds[:-1], which is "the dead OSDs     *)
(* other than the one just killed".                                        *)
(*                                                                         *)
(* A call into the cluster (daemon.stop(), 'osd out', ...) lets other      *)
(* greenlets and the cluster run, so every call is a step of its own and   *)
(* `op' says which call do_thrash is inside of.  Changes of the lists      *)
(* between two calls happen in the same step as the call they follow.      *)
(***************************************************************************)
EXTENDS Integers, FiniteSets

CONSTANTS Osds,       \* OSD ids
          MinIn,      \* config min_in
          MinOut,     \* config min_out
          MinLive,    \* config min_live
          MinDead,    \* config min_dead
          MaxDead,    \* config max_dead
          Timeout,    \* is there a 'timeout' in the config
          Scrubs      \* is 'scrub_interval' above zero

ASSUME ConfigAssumption ==
    /\ IsFiniteSet(Osds)
    /\ MinIn \in Nat \ {0}
    /\ MinOut \in Nat
    /\ MinLive \in Nat
    /\ MinDead \in Nat
    /\ MaxDead \in Nat
    /\ Cardinality(Osds) > MaxDead + MinLive
    /\ Timeout \in BOOLEAN /\ Scrubs \in BOOLEAN

VARIABLES
    inOsds, outOsds, liveOsds, deadOsds,   \* the lists of the Thrasher
    stopping,   \* Thrasher.stopping
    phase,      \* where do_thrash is
    op,         \* the cluster call do_thrash is inside of
    running,    \* the OSDs whose daemon runs
    up,         \* the OSDs that are up in the osdmap
    mapIn,      \* the OSDs that are in in the osdmap
    recovered   \* are the pgs recovered and clean

lists   == <<inOsds, outOsds, liveOsds, deadOsds>>
cluster == <<running, up, mapIn>>
vars    == <<lists, stopping, phase, op, cluster, recovered>>

Idle     == [call |-> "none"]
Calls    == {"stop", "down", "markOut", "outList", "restart", "asok",
             "markIn", "pauseDown", "pauseUp"}
Call(c, o) == [call |-> c, osd |-> o]
Ops      == {Idle} \cup [call : Calls, osd : Osds]
Terminal == {"done", "raised", "typeError"}
Phases   == {"loop", "clean", "discIn", "discUp", "discClean", "discKill",
             "discRevive", "recovery", "cleaned", "scrubber", "choose", "action",
             "minSizeUp", "minSizeWait", "final"} \cup Terminal

(* Thrasher.__init__ reads the lists off a clean cluster: in and out from  *)
(* the osdmap, live and dead from the daemons.                             *)
Init ==
    /\ running \in (SUBSET Osds) \ {{}}
    /\ mapIn \in (SUBSET Osds) \ {{}}
    /\ up = running
    /\ inOsds = mapIn /\ outOsds = Osds \ mapIn
    /\ liveOsds = running /\ deadOsds = Osds \ running
    /\ stopping = FALSE
    /\ phase = "loop"
    /\ op = Idle
    /\ recovered = TRUE

-----------------------------------------------------------------------------
(* The primitives.  Each begins with the list changes made before the     *)
(* first cluster call.                                                     *)

KillOsd(o) ==
    /\ o \in liveOsds
    /\ liveOsds' = liveOsds \ {o}
    /\ deadOsds' = deadOsds \cup {o}
    /\ op' = Call("stop", o)
    /\ UNCHANGED <<inOsds, outOsds>>

(* Variant: the lists change before the daemon is restarted.               *)
ReviveOsdListsFirst(o) ==
    /\ o \in deadOsds
    /\ deadOsds' = deadOsds \ {o}
    /\ liveOsds' = liveOsds \cup {o}
    /\ op' = Call("restart", o)
    /\ UNCHANGED <<inOsds, outOsds>>

ReviveOsd(o) ==
    /\ o \in deadOsds
    /\ op' = Call("restart", o)
    /\ UNCHANGED lists

(* Variant: the lists change before the OSD is marked out.                 *)
OutOsdListsFirst(o) ==
    /\ o \in inOsds
    /\ inOsds' = inOsds \ {o}
    /\ outOsds' = outOsds \cup {o}
    /\ op' = Call("markOut", o)
    /\ UNCHANGED <<liveOsds, deadOsds>>

OutOsd(o) ==
    /\ o \in inOsds
    /\ op' = Call("markOut", o)
    /\ UNCHANGED lists

(* Variant: the OSD is listed as in and never marked in.                   *)
InOsdNotMarked(o) ==
    /\ o \in outOsds
    /\ outOsds' = outOsds \ {o}
    /\ inOsds' = inOsds \cup {o}
    /\ op' = Idle
    /\ UNCHANGED <<liveOsds, deadOsds>>

(* An out OSD that is dead is revived and left out.                        *)
InOsd(o) ==
    /\ o \in outOsds
    /\ \/ o \in deadOsds /\ ReviveOsd(o)
       \/ /\ o \notin deadOsds
          /\ outOsds' = outOsds \ {o}
          /\ inOsds' = inOsds \cup {o}
          /\ op' = Call("markIn", o)
          /\ UNCHANGED <<liveOsds, deadOsds>>

-----------------------------------------------------------------------------
(* The cluster calls and what follows them in the primitive.               *)

Return == op' = Idle

(* ZbkcManager.kill_osd; only test_map_discontinuity passes mark_down and  *)
(* mark_out.                                                               *)
StopDaemon ==
    /\ op.call = "stop"
    /\ running' = running \ {op.osd}
    /\ recovered' = FALSE
    /\ IF phase = "discKill" THEN op' = Call("down", op.osd) ELSE Return
    /\ UNCHANGED <<lists, up, mapIn>>

MarkDownOsd ==
    /\ op.call = "down"
    /\ up' = up \ {op.osd}
    /\ recovered' = FALSE
    /\ IF op.osd \in inOsds THEN op' = Call("markOut", op.osd) ELSE Return
    /\ UNCHANGED <<lists, running, mapIn>>

MarkOutOsd ==
    /\ op.call = "markOut"
    /\ mapIn' = mapIn \ {op.osd}
    /\ recovered' = FALSE
    /\ op' = Call("outList", op.osd)
    /\ UNCHANGED <<lists, running, up>>

OutListed ==
    /\ op.call = "outList"
    /\ inOsds' = inOsds \ {op.osd}
    /\ outOsds' = outOsds \cup {op.osd}
    /\ Return
    /\ UNCHANGED <<liveOsds, deadOsds, cluster, recovered>>

(* ZbkcManager.revive_osd: restart the daemon, then wait for its admin     *)
(* socket; the lists change only when the socket has answered.             *)
RestartDaemon ==
    /\ op.call = "restart"
    /\ running' = running \cup {op.osd}
    /\ recovered' = FALSE
    /\ op' = Call("asok", op.osd)
    /\ UNCHANGED <<lists, up, mapIn>>

AdminSocketUp ==
    /\ op.call = "asok"
    /\ deadOsds' = deadOsds \ {op.osd}
    /\ liveOsds' = liveOsds \cup {op.osd}
    /\ Return
    /\ UNCHANGED <<inOsds, outOsds, cluster, recovered>>

MarkInOsd ==
    /\ op.call = "markIn"
    /\ mapIn' = mapIn \cup {op.osd}
    /\ recovered' = FALSE
    /\ Return
    /\ UNCHANGED <<lists, running, up>>

CallStep ==
    /\ phase \notin Terminal
    /\ \/ StopDaemon \/ MarkDownOsd \/ MarkOutOsd \/ OutListed
       \/ RestartDaemon \/ AdminSocketUp \/ MarkInOsd
    /\ UNCHANGED <<phase, stopping>>

(* inject_pause with should_be_down: the paused OSD must have been marked  *)
(* down by the first check and be up again by the second.                  *)
PauseCheck ==
    /\ phase \notin Terminal
    /\ \/ /\ op.call = "pauseDown" /\ op.osd \notin up
          /\ op' = Call("pauseUp", op.osd)
          /\ UNCHANGED phase
       \/ /\ op.call = "pauseUp" /\ op.osd \in up
          /\ Return
          /\ UNCHANGED phase
       \/ /\ \/ op.call = "pauseDown" /\ op.osd \in up
             \/ op.call = "pauseUp" /\ op.osd \notin up
          /\ phase' = "raised"
          /\ UNCHANGED op
    /\ UNCHANGED <<lists, stopping, cluster, recovered>>

-----------------------------------------------------------------------------
(* do_thrash.  A step from phase p is taken between two primitives.        *)

At(p)   == phase = p /\ op = Idle
Goto(p) == phase' = p /\ UNCHANGED <<lists, op>>
Begin(p, primitive) == phase' = p /\ primitive

(* Variant: stopping is not looked at.                                     *)
LoopTopNeverStops == At("loop") /\ (Goto("clean") \/ Goto("choose"))

(* The top of the loop: stop, or maybe begin a clean interval.             *)
LoopTop ==
    /\ At("loop")
    /\ \/ stopping /\ Goto("final")
       \/ ~stopping /\ Goto("clean")
       \/ ~stopping /\ Goto("choose")

(* A clean interval revives down to max_dead, then waits for recovery or   *)
(* tests a map discontinuity.  After it a Scrubber may be constructed; its *)
(* __init__ waits for clean pgs, with no timeout whatever the config says. *)
CleanInterval ==
    \/ /\ At("clean") /\ Cardinality(deadOsds) > MaxDead
       /\ \E o \in deadOsds : Begin("clean", ReviveOsd(o))
    \/ /\ At("clean") /\ Cardinality(deadOsds) <= MaxDead
       /\ Goto("discIn") \/ Goto("recovery")
    \/ At("recovery") /\ recovered /\ Goto("cleaned")
    \/ At("cleaned") /\ Goto("choose")
    \/ At("cleaned") /\ Scrubs /\ Goto("scrubber")
    \/ At("scrubber") /\ recovered /\ Goto("choose")

(* Variant: one OSD fewer than the test needs.                             *)
EnoughInOffByOne == Cardinality(inOsds) >= MinIn

EnoughIn == Cardinality(inOsds) >= MinIn + 1

TestMapDiscontinuity ==
    \/ /\ At("discIn") /\ ~EnoughIn
       /\ \/ \E o \in outOsds : Begin("discIn", InOsd(o))
          \/ outOsds = {} /\ Goto("raised")
    \/ At("discIn") /\ EnoughIn /\ Goto("discUp")
    \/ At("discUp") /\ up = Osds /\ Goto("discClean")
    \/ /\ At("discClean") /\ recovered
       /\ \E o \in liveOsds : Begin("discKill", KillOsd(o))
    \/ /\ At("discKill") /\ recovered
       /\ \E o \in deadOsds : Begin("discRevive", ReviveOsd(o))
    \/ At("discRevive") /\ Goto("cleaned")

MayOut  == Cardinality(inOsds) > MinIn
MayKill == Cardinality(liveOsds) > MinLive

(* choose_action()(): the guards decide which primitives are offered.  The *)
(* other actions it offers (rm_past_intervals, primary_affinity, reweight, *)
(* grow_pool, fix_pgp_num, test_backfill_full, the short inject_pause)     *)
(* leave lists, daemons and membership alone.                              *)
ChooseAction ==
    /\ At("choose")
    /\ \/ /\ MayOut
          /\ \E o \in inOsds : Begin("action", OutOsd(o))
       \/ /\ MayKill
          /\ \E o \in liveOsds : Begin("action", KillOsd(o))
       \/ /\ Cardinality(outOsds) > MinOut
          /\ \E o \in outOsds : Begin("action", InOsd(o))
       \/ /\ Cardinality(deadOsds) > MinDead
          /\ \E o \in deadOsds : Begin("action", ReviveOsd(o))
       \/ \E o \in liveOsds : /\ phase' = "action"
                              /\ op' = Call("pauseDown", o)
                              /\ UNCHANGED lists
       \/ Goto("action")
       \/ Goto("minSizeUp")

ActionReturns == At("action") /\ Goto("loop")

(* Variant: the loop over out_osds is missing.                             *)
AllUpLeavesOut(p, next) ==
    /\ At(p)
    /\ \/ \E o \in deadOsds : Begin(p, ReviveOsd(o))
       \/ deadOsds = {} /\ Goto(next)

(* all_up, called after the loop and at the start of test_pool_min_size.   *)
AllUp(p, next) ==
    /\ At(p)
    /\ \/ \E o \in deadOsds : Begin(p, ReviveOsd(o))
       \/ deadOsds = {} /\ \E o \in outOsds : Begin(p, InOsd(o))
       \/ deadOsds = {} /\ outOsds = {} /\ Goto(next)

(* After its wait_for_recovery, test_pool_min_size calls self.log with two *)
(* arguments; self.log takes one, so the call raises.                      *)
TestPoolMinSize ==
    \/ AllUp("minSizeUp", "minSizeWait")
    \/ At("minSizeWait") /\ recovered /\ Goto("typeError")

(* A wait gives up only if the config has a timeout.                       *)
WaitTimesOut ==
    /\ Timeout
    /\ \/ At("discUp") /\ up # Osds
       \/ /\ At("recovery") \/ At("discClean") \/ At("discKill")
             \/ At("minSizeWait")
          /\ ~recovered
    /\ Goto("raised")

Control ==
    /\ \/ LoopTop \/ CleanInterval \/ TestMapDiscontinuity \/ ChooseAction
       \/ ActionReturns \/ TestPoolMinSize \/ AllUp("final", "done")
       \/ WaitTimesOut
    /\ UNCHANGED <<stopping, cluster, recovered>>

(* Any call may fail, with or without having taken effect; the exception   *)
(* ends the greenlet and leaves everything as it is.                       *)
CallRaises ==
    /\ phase \notin Terminal \cup {"loop"}
    /\ phase' = "raised"
    /\ UNCHANGED <<lists, stopping, op, cluster, recovered>>

Proceeds == CallStep \/ PauseCheck \/ Control

DoThrash == Proceeds \/ CallRaises

-----------------------------------------------------------------------------
(* The surroundings: do_join, the monitors, and recovery.                  *)

Join ==
    /\ ~stopping
    /\ stopping' = TRUE
    /\ UNCHANGED <<lists, phase, op, cluster, recovered>>

Paused(o) == op = Call("pauseDown", o)

MonMarksDown(o) ==
    /\ o \in up
    /\ o \notin running \/ Paused(o)
    /\ up' = up \ {o}
    /\ UNCHANGED <<lists, stopping, phase, op, running, mapIn, recovered>>

OsdBoots(o) ==
    /\ o \in running \ up
    /\ ~Paused(o)
    /\ up' = up \cup {o}
    /\ UNCHANGED <<lists, stopping, phase, op, running, mapIn, recovered>>

ClusterRecovers ==
    /\ ~recovered
    /\ recovered' = TRUE
    /\ UNCHANGED <<lists, stopping, phase, op, cluster>>

Environment ==
    Join \/ ClusterRecovers \/ \E o \in Osds : MonMarksDown(o) \/ OsdBoots(o)

Next == DoThrash \/ Environment

Spec == Init /\ [][Next]_vars

(* A greenlet that can run is eventually scheduled; nothing obliges a call *)
(* to fail, a cluster to recover, or the task to end.                      *)
FairSpec == Spec /\ WF_vars(Proceeds)

-----------------------------------------------------------------------------
(* Every variable has its type, the live and dead lists split the OSDs in  *)
(* two and so do the in and out lists: no primitive, interleaving or       *)
(* failure drops an OSD from the books or enters it twice.                 *)
TypeOK ==
    /\ inOsds \subseteq Osds /\ outOsds = Osds \ inOsds
    /\ liveOsds \subseteq Osds /\ deadOsds = Osds \ liveOsds
    /\ stopping \in BOOLEAN
    /\ phase \in Phases
    /\ op \in Ops
    /\ running \subseteq Osds /\ up \subseteq Osds /\ mapIn \subseteq Osds
    /\ recovered \in BOOLEAN

(* The daemon of every OSD in live_osds runs, also while a kill or a       *)
(* revive is half done or has failed half way.  do_sighup and do_dump_ops  *)
(* pick their targets from live_osds at any moment.                        *)
LiveDaemonsRun == liveOsds \subseteq running

(* Every OSD that is in in the osdmap is in in_osds, also inside out_osd   *)
(* and in_osd: an OSD in out_osds never takes part in data placement.      *)
MapInIsListed == mapIn \subseteq inOsds

(* Between two primitives of a thrasher that has not failed, the books     *)
(* agree with the cluster: live_osds are the running daemons, in_osds the  *)
(* OSDs that are in.                                                       *)
BooksAgree ==
    op = Idle => liveOsds = running /\ inOsds = mapIn

(* With min_live above zero live_osds never runs empty:                    *)
(* random.choice(self.live_osds), which do_sighup calls every 0.1s and     *)
(* inject_pause calls unguarded, always has something to choose.           *)
LiveNeverEmpty == MinLive > 0 => liveOsds # {}

(* in_osds never runs empty: primary_affinity and reweight choose from it. *)
InNeverEmpty == inOsds # {}

(* A thrasher that ended without an exception left every OSD running and   *)
(* in ("Make sure all osds are up and not out").                           *)
AllUpAtEnd == phase = "done" => running = Osds /\ mapIn = Osds

(* The thrasher implements OsdMembership: it kills only while more than    *)
(* min_live OSDs are live and marks out only while more than min_in are    *)
(* in, the kill and the out of test_map_discontinuity included, which      *)
(* check neither bound themselves.                                         *)
Membership == INSTANCE OsdMembership WITH live <- liveOsds, in <- inOsds

KeepsMembership == Membership!MembershipSpec

(* Once do_join has set stopping, the do_thrash greenlet ends, by return   *)
(* or by exception, so that self.thread.get() does not block for ever.     *)
(* Only the constructor of a Scrubber can keep it: there do_thrash stays   *)
(* for good if the pgs do not get clean.                                   *)
JoinReturns == stopping ~> \/ phase \in Terminal
                           \/ [](phase = "scrubber" /\ ~recovered)

-----------------------------------------------------------------------------
(* The inductive invariant behind these.                                   *)

(* Inside a call the books are off by at most the OSD of the call.         *)
CallBooks ==
    /\ running = IF op.call \in {"stop", "asok"} THEN liveOsds \cup {op.osd}
                                                ELSE liveOsds
    /\ mapIn = IF op.call \in {"markIn", "outList"} THEN inOsds \ {op.osd}
                                                   ELSE inOsds
    /\ op.call \in {"stop", "restart", "asok"} => op.osd \in deadOsds
    /\ op.call \in {"markOut", "outList", "markIn"} => op.osd \in inOsds

(* An OSD about to be marked out leaves at least min_in OSDs in.           *)
OutRoom ==
    /\ phase \in {"discUp", "discClean"}
          => op = Idle /\ Cardinality(inOsds) > MinIn
    /\ phase = "discKill" /\ op.call = "stop" => Cardinality(inOsds) > MinIn
    /\ op.call = "down" => phase \in {"discKill", "raised"}
    /\ op.call \in {"down", "markOut", "outList"} => Cardinality(inOsds) > MinIn

(* The map discontinuity test kills when at most max_dead OSDs are dead.   *)
KillRoom ==
    phase \in {"discIn", "discUp", "discClean"} => Cardinality(deadOsds) <= MaxDead

(* Nothing is under way once do_thrash has returned.                       *)
Ended == phase = "done" => op = Idle /\ deadOsds = {} /\ outOsds = {}

(* The inductive invariant: the books inside a call, room for the next     *)
(* kill and the next out, and the end of do_thrash.                        *)
IndInv == /\ TypeOK /\ CallBooks /\ OutRoom /\ KillRoom /\ Ended
          /\ LiveNeverEmpty /\ InNeverEmpty

-----------------------------------------------------------------------------
(* What the documentation says and the code does not do.                   *)

(* "1) Allows the osds to recover 2) kills an osd": the map discontinuity  *)
(* test gets past wait_for_all_up in a cluster in which every daemon that  *)
(* runs boots and pgs recover.                                             *)
HealthySpec ==
    /\ FairSpec
    /\ WF_vars(ClusterRecovers)
    /\ \A o \in Osds : WF_vars(OsdBoots(o)) /\ WF_vars(MonMarksDown(o))

DiscontinuityKills == phase = "discUp" ~> phase \in {"discKill", "raised"}

=============================================================================

---------------------------- MODULE MonThrasher ----------------------------
(***************************************************************************)
(* The mon_thrash task (tasks/mon_thrash.py): MonitorThrasher.do_thrash    *)
(* kills some monitors, freezes others with SIGSTOP, waits for the quorum  *)
(* that is left, revives the killed ones, freezes again and waits for the  *)
(* full quorum.  Every signal, stop, restart and query is a step; in       *)
(* between the monitors leave their quorum and hold elections, so that     *)
(* two monitors need not agree on the quorum, and one may be in none.      *)
(***************************************************************************)
EXTENDS Integers, FiniteSets

CONSTANTS Mons,
          MaintainQuorum,   \* config maintain_quorum
          StoreThrash,      \* config store_thrash
          Freezes           \* is freeze_mon_probability above zero

ASSUME MonAssumption ==
    /\ IsFiniteSet(Mons) /\ Cardinality(Mons) > 2
    /\ {MaintainQuorum, StoreThrash, Freezes} \subseteq BOOLEAN
    /\ StoreThrash => MaintainQuorum

VARIABLES
    mon,        \* what each monitor process is doing
    view,       \* the quorum each monitor is in as leader or peon, none if it
                \* probes, syncs or elects
    intact,     \* the monitors whose store holds the data
    rejoining,  \* history: the monitors killed and in no quorum since
    stopping,   \* MonitorThrasher.stopping
    pc,         \* where do_thrash is
    toKill,     \* mons_to_kill
    toFreeze,   \* mons_to_freeze
    todo        \* what is left of the for loop do_thrash is in

locals == <<pc, toKill, toFreeze, todo>>
monVars == <<mon, view, rejoining>>
vars   == <<monVars, intact, stopping, locals>>

N          == Cardinality(Mons)
In(s)      == {m \in Mons : mon[m] = s}
Majority(S) == 2 * Cardinality(S) > N
Terminal   == {"done", "raised", "assertion"}
Points     == {"top", "waitTop", "checkTop", "kill", "freeze1", "thaw1", "waitKilled",
               "checkKilled", "revive", "freeze2", "thaw2", "waitAll", "checkAll"}
              \cup Terminal

Init ==
    /\ mon = [m \in Mons |-> "up"]
    /\ view = [m \in Mons |-> Mons] /\ rejoining = {}
    /\ intact = Mons
    /\ stopping = FALSE
    /\ pc = "top"
    /\ toKill = {} /\ toFreeze = {} /\ todo = {}

Goto(p, S) == pc' = p /\ todo' = S

-----------------------------------------------------------------------------
LoopTop ==
    /\ pc = "top"
    /\ Goto(IF stopping THEN "done" ELSE "waitTop", {})
    /\ toKill' = {} /\ toFreeze' = {}
    /\ UNCHANGED <<monVars, intact>>

(* quorum_status: any monitor that is in a quorum answers.                 *)
Answers == {Cardinality(view[m]) : m \in {k \in In("up") : view[k] # {}}}

WaitForMonQuorumSize(p, size, next, S) ==
    /\ pc = p
    /\ size \in Answers
    /\ Goto(next, S)
    /\ UNCHANGED <<monVars, intact, toKill, toFreeze>>

(* Variant: no timeout.                                                    *)
WaitTimesOutNever(p, size) == FALSE

(* The wait gives up after 300s; without a quorum the query itself fails.  *)
WaitTimesOut(p, size) ==
    /\ pc = p
    /\ Answers # {size}
    /\ Goto("raised", {})
    /\ UNCHANGED <<monVars, intact, toKill, toFreeze>>

(* Variant: what the monitors say is not asserted.                         *)
CheckMonNot(p, size, m) ==
    /\ pc = p /\ m \in todo
    /\ Goto(p, todo \ {m})
    /\ UNCHANGED <<monVars, intact, toKill, toFreeze>>

(* get_mon_status of one monitor after the other, each of which tells its  *)
(* own state and quorum.                                                   *)
CheckMon(p, size, m) ==
    /\ pc = p /\ m \in todo
    /\ IF view[m] # {} /\ Cardinality(view[m]) = size
       THEN Goto(p, todo \ {m}) ELSE Goto("assertion", {})
    /\ UNCHANGED <<monVars, intact, toKill, toFreeze>>

(* Variant: ceil(m/2.0), without the -1.                                   *)
MaxKillableHalf == IF MaintainQuorum THEN (N + 1) \div 2 ELSE N

MaxKillable == IF MaintainQuorum THEN (N + 1) \div 2 - 1 ELSE N

(* The config's thrash_many is not looked at.                              *)
ChooseMons ==
    /\ pc = "checkTop" /\ todo = {}
    /\ \E K \in SUBSET Mons : \E F \in SUBSET (Mons \ K) :
          /\ Cardinality(K) \in 1 .. MaxKillable
          /\ Freezes \/ F = {}
          /\ toKill' = K /\ toFreeze' = F
          /\ Goto("kill", K)
    /\ UNCHANGED <<monVars, intact>>

(* Variant: the store of any monitor is thrashed.                          *)
ThrashAnyStore(m) ==
    /\ pc = "kill" /\ m \in Mons
    /\ StoreThrash /\ MaintainQuorum
    /\ intact' = intact \ {m}
    /\ UNCHANGED <<monVars, locals>>

(* sync force: the monitor throws its store away and syncs on restart.     *)
ThrashStore(m) ==
    /\ pc = "kill" /\ m \in todo
    /\ StoreThrash /\ MaintainQuorum
    /\ todo \subseteq intact
    /\ intact' = intact \ {m}
    /\ UNCHANGED <<monVars, locals>>

KillMon(m) ==
    /\ pc = "kill" /\ m \in todo
    /\ todo \ intact \subseteq {m}
    /\ mon' = [mon EXCEPT ![m] = "dead"]
    /\ view' = [view EXCEPT ![m] = {}]
    /\ rejoining' = rejoining \cup {m}
    /\ Goto(pc, todo \ {m})
    /\ UNCHANGED <<intact, toKill, toFreeze>>

ReviveMon(m) ==
    /\ pc = "revive" /\ m \in todo
    /\ mon' = [mon EXCEPT ![m] = "up"]
    /\ Goto(pc, todo \ {m})
    /\ UNCHANGED <<view, rejoining, intact, toKill, toFreeze>>

FreezeMon(m) ==
    /\ pc \in {"freeze1", "freeze2"} /\ m \in todo
    /\ mon' = [mon EXCEPT ![m] = "frozen"]
    /\ Goto(pc, todo \ {m})
    /\ UNCHANGED <<view, rejoining, intact, toKill, toFreeze>>

(* Variant: the second round of freezing is not undone.                    *)
UnfreezeMonFirst(m) ==
    /\ pc \in {"thaw1", "thaw2"} /\ m \in todo
    /\ mon' = [mon EXCEPT ![m] = IF pc = "thaw1" THEN "up" ELSE @]
    /\ Goto(pc, todo \ {m})
    /\ UNCHANGED <<view, rejoining, intact, toKill, toFreeze>>

UnfreezeMon(m) ==
    /\ pc \in {"thaw1", "thaw2"} /\ m \in todo
    /\ mon' = [mon EXCEPT ![m] = "up"]
    /\ Goto(pc, todo \ {m})
    /\ UNCHANGED <<view, rejoining, intact, toKill, toFreeze>>

(* The end of a for loop.                                                  *)
LoopEnds(p, next, S) ==
    /\ pc = p /\ todo = {}
    /\ Goto(next, S)
    /\ UNCHANGED <<monVars, intact, toKill, toFreeze>>

Control ==
    \/ LoopTop
    \/ WaitForMonQuorumSize("waitTop", N, "checkTop", Mons)
    \/ ChooseMons
    \/ LoopEnds("kill", "freeze1", toFreeze)
    \/ LoopEnds("freeze1", "thaw1", toFreeze)
    \/ LoopEnds("thaw1", IF MaintainQuorum THEN "waitKilled" ELSE "revive",
                         IF MaintainQuorum THEN {} ELSE toKill)
    \/ WaitForMonQuorumSize("waitKilled", N - Cardinality(toKill),
                            "checkKilled", Mons \ toKill)
    \/ LoopEnds("checkKilled", "revive", toKill)
    \/ LoopEnds("revive", "freeze2", toFreeze)
    \/ LoopEnds("freeze2", "thaw2", toFreeze)
    \/ LoopEnds("thaw2", "waitAll", {})
    \/ WaitForMonQuorumSize("waitAll", N, "checkAll", Mons)
    \/ LoopEnds("checkAll", "top", {})
    \/ WaitTimesOut("waitTop", N) \/ WaitTimesOut("waitAll", N)
    \/ WaitTimesOut("waitKilled", N - Cardinality(toKill))

OnMon(m) ==
    \/ ThrashStore(m) \/ KillMon(m) \/ ReviveMon(m)
    \/ FreezeMon(m) \/ UnfreezeMon(m)
    \/ CheckMon("checkTop", N, m) \/ CheckMon("checkAll", N, m)
    \/ CheckMon("checkKilled", N - Cardinality(toKill), m)

Proceeds == (Control \/ \E m \in Mons : OnMon(m)) /\ UNCHANGED stopping

(* A command fails; the greenlet ends and leaves the monitors as they are. *)
CommandRaises ==
    /\ pc \notin Terminal \cup {"top"}
    /\ Goto("raised", {})
    /\ UNCHANGED <<monVars, intact, stopping, toKill, toFreeze>>

-----------------------------------------------------------------------------
(* The monitors.  One leaves its quorum at any time: a lease ran out, or   *)
(* another monitor calls an election.                                      *)
LeaveQuorum(m) ==
    /\ mon[m] = "up" /\ view[m] # {}
    /\ view' = [view EXCEPT ![m] = {}]
    /\ UNCHANGED <<mon, rejoining, intact, stopping, locals>>

(* A majority, not always all of those that run, forms a quorum.  A member *)
(* that restarted without its store has synced by then; one told to sync   *)
(* and still to be killed has not.                                         *)
Election ==
    /\ \E Q \in SUBSET In("up") :
          /\ Majority(Q)
          /\ view' = [m \in Mons |-> IF m \in Q THEN Q ELSE view[m]]
          /\ rejoining' = rejoining \ Q
          /\ intact' = intact \cup (IF pc = "kill" THEN Q \ todo ELSE Q)
    /\ UNCHANGED <<mon, stopping, locals>>

Join == ~stopping /\ stopping' = TRUE /\ UNCHANGED <<monVars, intact, locals>>

Next == Proceeds \/ CommandRaises \/ (\E m \in Mons : LeaveQuorum(m)) \/ Election \/ Join

Spec == Init /\ [][Next]_vars

(* The greenlet is scheduled; every wait has a timeout, so no fairness of  *)
(* elections is needed.                                                    *)
FairSpec == Spec /\ WF_vars(Proceeds)

-----------------------------------------------------------------------------
(* Every variable has its type; only the monitors chosen in this iteration *)
(* are dead, and only those chosen for it are frozen.                      *)
MonTypeOK ==
    /\ mon \in [Mons -> {"up", "dead", "frozen"}]
    /\ view \in [Mons -> SUBSET Mons]
    /\ rejoining \subseteq Mons /\ intact \subseteq Mons
    /\ stopping \in BOOLEAN
    /\ pc \in Points
    /\ toKill \subseteq Mons /\ toFreeze \subseteq Mons \ toKill
    /\ todo \subseteq Mons
    /\ In("dead") \subseteq toKill /\ In("frozen") \subseteq toFreeze

(* An iteration ends, and the next begins to kill, only when every monitor *)
(* killed before has been in a quorum again.  The wait does not see to     *)
(* this, which any monitor may answer that has not noticed the kills: it   *)
(* is what "making sure all monitors are in the quorum" is for.            *)
RoundsAreWhole ==
    pc \in {"top", "waitTop", "checkTop", "kill", "done"} => rejoining \subseteq In("dead")

(* Between two iterations, and when do_thrash has returned, every monitor  *)
(* runs: none is left dead, none is left stopped by SIGSTOP.               *)
LeavesMonsUp == pc \in {"top", "waitTop", "checkTop", "done"} => In("up") = Mons

(* With maintain_quorum, the monitors that are not killed are a majority,  *)
(* for an even number of monitors too.                                     *)
KillsKeepMajority == MaintainQuorum => Majority(Mons \ In("dead"))

(* Thrashing stores never costs the cluster its data: a majority of the    *)
(* stores is intact at all times, because an iteration begins only when    *)
(* every monitor has come back into the quorum.                            *)
IntactMajority == Majority(intact)

(* do_join returns: do_thrash ends once stopping is set, whatever the      *)
(* monitors do.                                                            *)
MonJoinReturns == stopping ~> pc \in Terminal

=============================================================================

---------------------------- MODULE MdsThrasher ----------------------------
(***************************************************************************)
(* The mds_thrash task (tasks/mds_thrash.py): one MDSThrasher greenlet for *)
(* each filesystem, all of them sharing the standby daemons.  A thrasher   *)
(* resizes its filesystem, kills holders of its ranks, waits for a standby *)
(* to take the rank over, revives the victim and waits until it is a       *)
(* standby.  No wait of it has a timeout.  The monitors (external) hand    *)
(* ranks to standbys; a take-over and the replay it starts are one step.   *)
(***************************************************************************)
EXTENDS Integers, FiniteSets

CONSTANTS Clusters,     \* records: mds (daemons), fs (filesystems), max_mds (of each
                        \* when the task starts), weights (thrash_weights is given)
          MaxThrash,    \* config max_thrash
          Weight,       \* "positive", "zero" or "unspecified", by daemon
          None

AllMds == UNION {c.mds : c \in Clusters}
AllFs  == UNION {c.fs : c \in Clusters}

ASSUME MdsAssumption ==
    /\ \A c \in Clusters :
          /\ IsFiniteSet(c.mds) /\ Cardinality(c.mds) > 1 /\ c.fs # {} /\ IsFiniteSet(c.fs)
          /\ c.max_mds \in Nat \ {0}
          /\ Cardinality(c.fs) * c.max_mds <= Cardinality(c.mds)
          /\ c.weights \in BOOLEAN
    /\ MaxThrash \in Nat \ {0}
    /\ Weight \in [AllMds -> {"positive", "zero", "unspecified"}]
    /\ None \notin AllMds

VARIABLES
    cluster,    \* what the task is run on
    proc,       \* each daemon: dead, booting, or up under the gid of the map
    holder,     \* fsmap: the daemon that holds a rank
    in,         \* fsmap: the ranks of a filesystem
    leaving,    \* fsmap: the ranks in up:stopping
    standby,    \* fsmap: the standbys
    laggy,      \* fsmap: the daemons with laggy_since
    max,        \* fsmap: max_mds
    pc,         \* where the thrasher of a filesystem is
    todo,       \* the infos left of its for loop, as <<name, rank>>
    cut,        \* the ranks it has left to deactivate
    victim,     \* the info it is thrashing
    stopping    \* MDSThrasher.stopping

fsmap  == <<holder, in, leaving, standby, laggy, max>>
locals == <<pc, todo, cut, victim>>
vars   == <<cluster, proc, fsmap, locals, stopping>>

Mds        == cluster.mds
Fs         == cluster.fs
MaxMds     == cluster.max_mds
UseWeights == cluster.weights

Ranks     == 0 .. MaxMds - 1
NoVictim  == <<None, 0>>
Terminal  == {"done", "raised"}
Down      == {"crash", "takeover", "revive"}
InMap(m)  == m \in standby \/ \E f \in Fs, r \in Ranks : holder[f][r] = m
GetRanks(f) == {i \in Mds \X Ranks : holder[f][i[2]] = i[1]}
Active(f) == {i \in GetRanks(f) : i[2] \notin leaving[f] /\ i[1] \notin laggy}

MdsInit ==
    /\ cluster \in Clusters
    /\ proc = [m \in Mds |-> "up"]
    /\ holder \in [Fs -> [Ranks -> Mds]]
    /\ \A f, g \in Fs, q, r \in Ranks : holder[f][q] = holder[g][r] => f = g /\ q = r
    /\ in = [f \in Fs |-> Ranks]
    /\ leaving = [f \in Fs |-> {}]
    /\ standby = {m \in Mds : \A f \in Fs, r \in Ranks : holder[f][r] # m}
    /\ laggy = {}
    /\ max = [f \in Fs |-> MaxMds]
    /\ pc = [f \in Fs |-> "top"]
    /\ todo = [f \in Fs |-> {}]
    /\ cut = [f \in Fs |-> {}]
    /\ victim = [f \in Fs |-> NoVictim]
    /\ stopping = [f \in Fs |-> FALSE]

Goto(f, p) == pc' = [pc EXCEPT ![f] = p]

-----------------------------------------------------------------------------
(* do_thrash of the thrasher of filesystem f.                              *)

(* The infos the for loop will get to: all of them with weights, else as   *)
(* many as max_thrash lets it count, in the order of a dictionary.         *)
Iterates(f) ==
    \E S \in SUBSET GetRanks(f) :
        /\ UseWeights => S = GetRanks(f)
        /\ ~UseWeights => \/ S = GetRanks(f) /\ Cardinality(S) <= MaxThrash
                          \/ Cardinality(S) = MaxThrash
        /\ todo' = [todo EXCEPT ![f] = S]

Stop(f) ==
    /\ pc[f] = "top" /\ stopping[f]
    /\ Goto(f, "done")
    /\ UNCHANGED <<proc, fsmap, todo, cut, victim, stopping>>

(* options is empty: the filesystem cannot be resized.                     *)
KeepMaxMds(f) ==
    /\ pc[f] = "top" /\ ~stopping[f]
    /\ MaxMds = 1
    /\ Goto(f, "iter") /\ Iterates(f)
    /\ UNCHANGED <<proc, fsmap, cut, victim, stopping>>

(* random.sample(range(1, max_mds), max(0, max_mds - new_max_mds))         *)
CutRanks(f, n) ==
    IF n > max[f] THEN {{}}
    ELSE {K \in SUBSET (1 .. max[f] - 1) : Cardinality(K) = max[f] - n}

(* randrange(0.0, 1.0) is 0: the branch is always taken.                   *)
ThrashMaxMds(f) ==
    /\ pc[f] = "top" /\ ~stopping[f]
    /\ \E n \in 1 .. MaxMds : \E K \in CutRanks(f, n) :
          /\ n # max[f]
          /\ max' = [max EXCEPT ![f] = n]
          /\ cut' = [cut EXCEPT ![f] = K]
    /\ Goto(f, "cut")
    /\ UNCHANGED <<proc, holder, in, leaving, standby, laggy, todo, victim, stopping>>

(* The monitors refuse a rank that is not active: the command raises.      *)
Deactivate(f) ==
    /\ pc[f] = "cut"
    /\ \E r \in cut[f] :
          /\ cut' = [cut EXCEPT ![f] = @ \ {r}]
          /\ IF r \in in[f] \ leaving[f]
             THEN leaving' = [leaving EXCEPT ![f] = @ \cup {r}] /\ UNCHANGED pc
             ELSE Goto(f, "raised") /\ UNCHANGED leaving
    /\ UNCHANGED <<proc, holder, in, standby, laggy, max, todo, victim, stopping>>

CutEnds(f) ==
    /\ pc[f] = "cut" /\ cut[f] = {}
    /\ Goto(f, "stable")
    /\ UNCHANGED <<proc, fsmap, todo, cut, victim, stopping>>

WaitForStable(f) ==
    /\ pc[f] = "stable"
    /\ Cardinality(Active(f)) >= max[f]
    /\ Goto(f, "iter") /\ Iterates(f)
    /\ UNCHANGED <<proc, fsmap, cut, victim, stopping>>

(* Only a weight that is the number 0.0 is <= 0; the default is a string.  *)
Skips(m) == UseWeights /\ Weight[m] = "zero"

SkipMds(f) ==
    /\ pc[f] = "iter"
    /\ \E i \in todo[f] : Skips(i[1]) /\ todo' = [todo EXCEPT ![f] = @ \ {i}]
    /\ UNCHANGED <<proc, fsmap, pc, cut, victim, stopping>>

(* Variant: any daemon of the map is taken for the holder of the rank.     *)
KillMdsOther(f) ==
    /\ pc[f] = "iter"
    /\ \E i \in todo[f] : \E m \in Mds :
          /\ proc' = [proc EXCEPT ![m] = "dead"]
          /\ victim' = [victim EXCEPT ![f] = <<m, i[2]>>]
          /\ todo' = [todo EXCEPT ![f] = @ \ {i}]
    /\ Goto(f, "crash")
    /\ UNCHANGED <<fsmap, cut, stopping>>

KillMds(f) ==
    /\ pc[f] = "iter"
    /\ \E i \in todo[f] :
          /\ ~Skips(i[1])
          /\ proc' = [proc EXCEPT ![i[1]] = "dead"]
          /\ victim' = [victim EXCEPT ![f] = i]
          /\ todo' = [todo EXCEPT ![f] = @ \ {i}]
    /\ Goto(f, "crash")
    /\ UNCHANGED <<fsmap, cut, stopping>>

IterEnds(f) ==
    /\ pc[f] = "iter" /\ todo[f] = {}
    /\ Goto(f, "top")
    /\ UNCHANGED <<proc, fsmap, todo, cut, victim, stopping>>

(* Variant: a victim that left the map is waited for.                      *)
SeesCrashLaggyOnly(f) ==
    /\ pc[f] = "crash"
    /\ victim[f][1] \in laggy
    /\ Goto(f, "takeover")
    /\ UNCHANGED <<proc, fsmap, todo, cut, victim, stopping>>

(* The mdsmap's failed ranks are compared with a name: never equal.        *)
SeesCrash(f) ==
    /\ pc[f] = "crash"
    /\ victim[f][1] \in laggy \/ ~InMap(victim[f][1])
    /\ Goto(f, "takeover")
    /\ UNCHANGED <<proc, fsmap, todo, cut, victim, stopping>>

(* Variant: the wait is not made.                                          *)
SeesTakeoverNot(f) ==
    /\ pc[f] = "takeover"
    /\ Goto(f, "revive")
    /\ UNCHANGED <<proc, fsmap, todo, cut, victim, stopping>>

(* wait_for_stable(rank, gid)                                              *)
SeesTakeover(f) ==
    /\ pc[f] = "takeover"
    /\ holder[f][victim[f][2]] \notin {None, victim[f][1]}
    /\ Goto(f, "revive")
    /\ UNCHANGED <<proc, fsmap, todo, cut, victim, stopping>>

(* Variant: the victim is forgotten.                                       *)
ReviveMdsNot(f) ==
    /\ pc[f] = "revive"
    /\ Goto(f, "iter")
    /\ victim' = [victim EXCEPT ![f] = NoVictim]
    /\ UNCHANGED <<proc, fsmap, todo, cut, stopping>>

ReviveMds(f) ==
    /\ pc[f] = "revive"
    /\ proc' = [proc EXCEPT ![victim[f][1]] = "booting"]
    /\ Goto(f, "standby")
    /\ UNCHANGED <<fsmap, todo, cut, victim, stopping>>

SeesStandby(f) ==
    /\ pc[f] = "standby"
    /\ victim[f][1] \in standby
    /\ Goto(f, "iter")
    /\ victim' = [victim EXCEPT ![f] = NoVictim]
    /\ UNCHANGED <<proc, fsmap, todo, cut, stopping>>

Proceeds(f) ==
    \/ Stop(f) \/ KeepMaxMds(f) \/ ThrashMaxMds(f) \/ Deactivate(f) \/ CutEnds(f)
    \/ WaitForStable(f) \/ SkipMds(f) \/ KillMds(f) \/ IterEnds(f) \/ SeesCrash(f)
    \/ SeesTakeover(f) \/ ReviveMds(f) \/ SeesStandby(f)

(* A status query, a command or a daemon operation fails.                  *)
ThrasherRaises(f) ==
    /\ pc[f] \notin Terminal
    /\ Goto(f, "raised")
    /\ UNCHANGED <<proc, fsmap, todo, cut, victim, stopping>>

(* The finally clause stops and joins one thrasher after the other, and    *)
(* ends when the get() of one raises.                                      *)
JoinNext(f) ==
    /\ ~stopping[f]
    /\ \A g \in Fs : stopping[g] => pc[g] = "done"
    /\ stopping' = [stopping EXCEPT ![f] = TRUE]
    /\ UNCHANGED <<proc, fsmap, locals>>

-----------------------------------------------------------------------------
(* The monitors and the daemons (external).                                *)

(* A beacon under a new gid replaces what the map said of the name.        *)
MdsBoots(m) ==
    /\ proc[m] = "booting"
    /\ proc' = [proc EXCEPT ![m] = "up"]
    /\ holder' = [f \in Fs |-> [r \in Ranks |-> IF holder[f][r] = m THEN None
                                                                    ELSE holder[f][r]]]
    /\ standby' = standby \cup {m}
    /\ laggy' = laggy \ {m}
    /\ UNCHANGED <<in, leaving, max, locals, stopping>>

Laggy(m) ==
    /\ proc[m] # "up" /\ InMap(m) /\ m \notin laggy
    /\ IF m \in standby THEN standby' = standby \ {m} /\ UNCHANGED laggy
                        ELSE laggy' = laggy \cup {m} /\ UNCHANGED standby
    /\ UNCHANGED <<proc, holder, in, leaving, max, locals, stopping>>

(* A standby gets a rank that is failed or laggy.                          *)
TakesOver(f, r, s) ==
    /\ r \in in[f] /\ holder[f][r] \in laggy \cup {None}
    /\ s \in standby
    /\ holder' = [holder EXCEPT ![f][r] = s]
    /\ standby' = standby \ {s}
    /\ laggy' = laggy \ {holder[f][r]}
    /\ UNCHANGED <<proc, in, leaving, max, locals, stopping>>

Grows(f, r, s) ==
    /\ r \notin in[f] /\ \A q \in 0 .. r - 1 : q \in in[f]
    /\ Cardinality(in[f]) < max[f]
    /\ s \in standby
    /\ in' = [in EXCEPT ![f] = @ \cup {r}]
    /\ holder' = [holder EXCEPT ![f][r] = s]
    /\ standby' = standby \ {s}
    /\ UNCHANGED <<proc, leaving, laggy, max, locals, stopping>>

(* A stopping rank is empty: its daemon leaves it and starts again.        *)
Leaves(f, r) ==
    /\ r \in leaving[f]
    /\ holder[f][r] # None /\ proc[holder[f][r]] = "up"
    /\ in' = [in EXCEPT ![f] = @ \ {r}]
    /\ leaving' = [leaving EXCEPT ![f] = @ \ {r}]
    /\ proc' = [proc EXCEPT ![holder[f][r]] = "booting"]
    /\ laggy' = laggy \ {holder[f][r]}
    /\ holder' = [holder EXCEPT ![f][r] = None]
    /\ UNCHANGED <<standby, max, locals, stopping>>

MapChanges(f) ==
    \E r \in Ranks : Leaves(f, r) \/ \E s \in Mds : TakesOver(f, r, s) \/ Grows(f, r, s)

MdsNext ==
    /\ \/ \E f \in Fs : Proceeds(f) \/ ThrasherRaises(f) \/ JoinNext(f) \/ MapChanges(f)
       \/ \E m \in Mds : MdsBoots(m) \/ Laggy(m)
       \/ (\A f \in Fs : pc[f] \in Terminal) /\ UNCHANGED <<proc, fsmap, locals, stopping>>
    /\ UNCHANGED cluster

MdsSpec == MdsInit /\ [][MdsNext]_vars

(* A thrasher that may go on does, the daemons boot, and the task ends at  *)
(* some time.  The monitors serve every filesystem that keeps asking for a *)
(* standby: the thrasher that could take the standby away again and again  *)
(* sleeps thrash_delay before each kill, a tick of the monitors is shorter.*)
MdsFairSpec ==
    /\ MdsSpec
    /\ \A f \in AllFs : /\ WF_vars(f \in Fs /\ Proceeds(f) /\ UNCHANGED cluster)
                       /\ SF_vars(f \in Fs /\ MapChanges(f) /\ UNCHANGED cluster)
                       /\ WF_vars(f \in Fs /\ JoinNext(f) /\ UNCHANGED cluster)
    /\ \A m \in AllMds : /\ WF_vars(m \in Mds /\ MdsBoots(m) /\ UNCHANGED cluster)
                        /\ WF_vars(m \in Mds /\ Laggy(m) /\ UNCHANGED cluster)

-----------------------------------------------------------------------------
(* A dead MDS is the victim of a thrasher that still has to revive it, or  *)
(* that failed: the waits of do_thrash between kill_mds and revive_mds     *)
(* lose no daemon, so thrashers that returned leave every MDS running.     *)
DeadAreVictims ==
    \A m \in Mds : proc[m] = "dead" =>
        \E f \in Fs : victim[f][1] = m /\ pc[f] \in Down \cup {"raised"}

(* Two thrashers never have the same MDS down, though they share the       *)
(* standbys: kill_mds of one never hits what another is about to revive.   *)
(* The exception is a victim whose rank was deactivated after the loop had *)
(* read the status: the daemon may hold a rank of another filesystem by    *)
(* then, and kill_mds stops it by its name.                                *)
VictimsDisjoint ==
    \A f, g \in Fs :
        f # g /\ (\A h \in {f, g} : pc[h] \in Down /\ victim[h][2] \in in[h])
            => victim[f][1] # victim[g][1]

(* What the status said of a daemon and its rank is out of date: the rank  *)
(* was stopping and is gone, or the daemon is down and replaced already.   *)
Stale(f, i) == i[2] \notin in[f] \/ (proc[i[1]] = "dead" /\ ~InMap(i[1]))

(* What kill_mds stops holds the rank that do_thrash read in the status,   *)
(* in a filesystem of any number of ranks: the kills, waits and take-overs *)
(* since then have not moved it, except in the two cases of Stale.         *)
KillsRankHolder ==
    [][\A f \in Fs : pc'[f] = "crash" /\ pc[f] # "crash" =>
           holder[f][victim'[f][2]] = victim'[f][1] \/ Stale(f, victim'[f])]_vars

(* An MDS is not revived while it still holds a rank: the wait for the     *)
(* take-over keeps the old incarnation from coming back into its rank.     *)
RevivedHoldsNoRank ==
    [][\A m \in Mds : proc[m] = "dead" /\ proc'[m] = "booting" =>
           \A f \in Fs, r \in Ranks : holder[f][r] # m]_vars

(* The victim of f was given a rank before f saw it as a standby, ...      *)
Promoted(f) == pc[f] = "standby" /\ InMap(victim[f][1]) /\ victim[f][1] \notin standby

(* ... or its rank was deactivated and nobody will take it over.           *)
RankGone(f) == pc[f] = "takeover" /\ victim[f][2] \notin in[f]

(* A thrasher that raised has left a daemon dead.                          *)
DaemonLost == \E f \in Fs : pc[f] = "raised" /\ victim[f][1] # None /\ proc[victim[f][1]] = "dead"

(* A thrasher that is stopped ends and mds_thrash's join returns, though   *)
(* no wait of do_thrash has a timeout, unless the revived victim is given  *)
(* a rank of another filesystem, the victim's rank was on its way out when *)
(* it was killed, or another thrasher has cost the cluster the standby:    *)
(* nothing else can keep it waiting.                                       *)
MdsJoinReturns ==
    \A f \in AllFs :
       (f \in Fs /\ stopping[f]) ~>
          (DaemonLost \/ (f \in Fs /\ (pc[f] \in Terminal \/ Promoted(f) \/ RankGone(f))))

(* mds_thrash.py:50: "randomly selected MDSs other than rank 0 will be     *)
(* deactivated": every rank that is to be deactivated exists.              *)
DeactivatesRanks == \A f \in Fs : cut[f] \subseteq in[f]

=============================================================================

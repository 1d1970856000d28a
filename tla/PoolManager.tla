---------------------------- MODULE PoolManager ----------------------------
(***************************************************************************)
(* The pools of a cluster as ZbkcManager (tasks/zbkc_manager.py) keeps     *)
(* them: the dictionary `pools' (name -> pg_num), guarded by an RLock, and *)
(* the greenlets that share it: rados tasks and radosbench tasks, which    *)
(* create pools, test on them and remove them again, and the OSD thrasher, *)
(* which grows a random pool or sets its pgp_num.                          *)
(*                                                                         *)
(* An absent pool has pg_num 0, as get_pool_pg_num reports it.  A command  *)
(* to the cluster is a step of its own, taken with the lock held.          *)
(***************************************************************************)
EXTENDS Integers, FiniteSets

CONSTANTS
    RadosTasks, BenchTasks,  \* the greenlets of tasks/rados.py and radosbench.py
    Clients,                 \* how many pools each of them creates
    Jobs,                    \* records: the tasks of a job, and the pools that exist
                             \* when its manager is created
    GrowBy,                  \* config pool_grow_by
    MaxTries,                \* how often set_pool_property retries
    PgBound, MaxPools        \* bounds of the model on pg_num and next_pool_id

Tasks    == RadosTasks \cup BenchTasks
Thrasher == "thrasher"
NoOne    == "no one"
UniquePools == 0 .. MaxPools - 1
InitialPools == UNION {job.pools : job \in Jobs}
Pools    == InitialPools \cup UniquePools

ASSUME PoolAssumption ==
    /\ RadosTasks \cap BenchTasks = {}
    /\ {Thrasher, NoOne} \cap Tasks = {}
    /\ Clients \in [Tasks -> Nat \ {0}]
    /\ GrowBy \in Nat \ {0} /\ MaxTries \in Nat
    /\ PgBound \in Nat /\ MaxPools \in Nat
    /\ \A job \in Jobs : job.tasks \subseteq Tasks /\ job.pools \cap UniquePools = {}

VARIABLES
    pools,        \* ZbkcManager.pools
    nextPoolId,   \* ZbkcManager.next_pool_id
    lock,         \* owner of ZbkcManager.lock
    pgNum,        \* pg_num of the pools of the cluster
    pgpNum,       \* pgp_num of the pools of the cluster
    pc,           \* where each task is
    pool,         \* the local variable pool of each task
    own,          \* the pools a task has created
    todo,         \* the pools a task still has to remove
    thrash,       \* where the thrasher is
    setting,      \* the pool property the thrasher sets
    tries         \* attempts made by set_pool_property

clusterPools == <<pgNum, pgpNum>>
taskVars     == <<pc, pool, own, todo>>
thrashVars   == <<thrash, setting, tries>>
vars == <<pools, nextPoolId, lock, clusterPools, taskVars, thrashVars>>

NoPool    == -1
Ended     == {"absent", "done", "raised", "assertion"}
NoSetting == [prop |-> "none"]

(* A task that is not in the job has nothing to do.                        *)
Init ==
    /\ \E job \in Jobs :
          /\ pools = [p \in Pools |-> IF p \in job.pools THEN 1 ELSE 0]
          /\ pc = [t \in Tasks |-> IF t \in job.tasks THEN "create" ELSE "absent"]
    /\ nextPoolId = 0
    /\ lock = NoOne
    /\ pgNum = pools /\ pgpNum = pools
    /\ pool = [t \in Tasks |-> NoPool]
    /\ own = [t \in Tasks |-> {}]
    /\ todo = [t \in Tasks |-> {}]
    /\ thrash = "idle" /\ setting = NoSetting /\ tries = 0

Goto(t, s) == pc' = [pc EXCEPT ![t] = s]
Acquire(g) == lock = NoOne /\ lock' = g
Release    == lock' = NoOne

(* Under the lock, an assertion, which gives the lock back if it fails.    *)
Asserting(t, assertion, next) ==
    /\ lock = NoOne
    /\ lock' = IF assertion THEN t ELSE NoOne
    /\ Goto(t, IF assertion THEN next ELSE "assertion")

-----------------------------------------------------------------------------
(* create_pool_with_unique_name: the name is taken with the lock held,     *)
(* which create_pool keeps until the pool is in the dictionary.            *)

(* Variant: next_pool_id is not advanced.                                  *)
CreateWithReusedName(t) ==
    /\ pc[t] = "create" /\ nextPoolId < MaxPools
    /\ Asserting(t, pools[nextPoolId] = 0, "creating")
    /\ pool' = [pool EXCEPT ![t] = nextPoolId]
    /\ UNCHANGED <<nextPoolId, pools, clusterPools, own, todo>>

CreatePoolWithUniqueName(t) ==
    /\ pc[t] = "create" /\ nextPoolId < MaxPools
    /\ Asserting(t, pools[nextPoolId] = 0, "creating")
    /\ pool' = [pool EXCEPT ![t] = nextPoolId]
    /\ nextPoolId' = nextPoolId + 1
    /\ UNCHANGED <<pools, clusterPools, own, todo>>

CommandCreates(t) ==
    /\ pc[t] = "creating"
    /\ pgNum' = [pgNum EXCEPT ![pool[t]] = 1]
    /\ pgpNum' = [pgpNum EXCEPT ![pool[t]] = 1]
    /\ Goto(t, "props")
    /\ UNCHANGED <<pools, nextPoolId, lock, pool, own, todo>>

(* The 'osd pool set' commands of create_pool, then the dictionary.        *)
RecordPool(t) ==
    /\ pc[t] = "props"
    /\ pools' = [pools EXCEPT ![pool[t]] = 1]
    /\ own' = [own EXCEPT ![t] = @ \cup {pool[t]}]
    /\ Release
    /\ Goto(t, IF Cardinality(own[t]) + 1 < Clients[t] THEN "create" ELSE "test")
    /\ UNCHANGED <<nextPoolId, clusterPools, pool, todo>>

(* A command of create_pool fails, before or after the pool was made.      *)
CreateRaises(t) ==
    /\ pc[t] \in {"creating", "props"}
    /\ Release
    /\ Goto(t, "raised")
    /\ UNCHANGED <<pools, nextPoolId, clusterPools, pool, own, todo>>

-----------------------------------------------------------------------------
(* Variant: a rados task removes the last pool only.                       *)
ToRemoveLast(t) == {pool[t]}

(* A rados task removes every pool it created, radosbench the one its      *)
(* local variable is left with.                                            *)
ToRemove(t) == IF t \in RadosTasks THEN own[t] ELSE {pool[t]}

(* Starting the test on a pool, or the test itself, may raise.             *)
TestsEnd(t) ==
    /\ \/ /\ pc[t] = "test"
          /\ Goto(t, "remove") /\ todo' = [todo EXCEPT ![t] = ToRemove(t)]
       \/ /\ pc[t] \in {"create", "test"} /\ own[t] # {}
          /\ Goto(t, "raised") /\ UNCHANGED todo
    /\ UNCHANGED <<pools, nextPoolId, lock, clusterPools, pool, own>>

(* Variant: the pool stays in the dictionary until it has been removed.    *)
RemovePoolLate(t) ==
    /\ pc[t] = "remove"
    /\ \E p \in todo[t] :
          /\ Acquire(t)
          /\ pool' = [pool EXCEPT ![t] = p]
          /\ todo' = [todo EXCEPT ![t] = @ \ {p}]
          /\ Goto(t, "removing") /\ UNCHANGED pools
    /\ UNCHANGED <<nextPoolId, clusterPools, own>>

(* remove_pool forgets the pool before it is removed.  The pools go in the *)
(* order in which they were created.                                       *)
RemovePool(t) ==
    /\ pc[t] = "remove"
    /\ \/ \E p \in todo[t] :
             /\ \A q \in todo[t] : p <= q
             /\ Asserting(t, pools[p] > 0, "removing")
             /\ pool' = [pool EXCEPT ![t] = p]
             /\ todo' = [todo EXCEPT ![t] = @ \ {p}]
             /\ pools' = [pools EXCEPT ![p] = 0]
       \/ /\ todo[t] = {}
          /\ Goto(t, "done")
          /\ UNCHANGED <<pools, lock, pool, todo>>
    /\ UNCHANGED <<nextPoolId, clusterPools, own>>

CommandRemoves(t) ==
    /\ pc[t] = "removing"
    /\ pgNum' = [pgNum EXCEPT ![pool[t]] = 0]
    /\ pgpNum' = [pgpNum EXCEPT ![pool[t]] = 0]
    /\ Release
    /\ Goto(t, "remove") \/ Goto(t, "raised")
    /\ UNCHANGED <<pools, nextPoolId, pool, own, todo>>

RemoveRaises(t) ==
    /\ pc[t] = "removing"
    /\ Release
    /\ Goto(t, "raised")
    /\ UNCHANGED <<pools, nextPoolId, clusterPools, pool, own, todo>>

TaskStep(t) ==
    /\ \/ CreatePoolWithUniqueName(t) \/ CommandCreates(t) \/ RecordPool(t)
       \/ CreateRaises(t) \/ TestsEnd(t) \/ RemovePool(t)
       \/ CommandRemoves(t) \/ RemoveRaises(t)
    /\ UNCHANGED thrashVars

-----------------------------------------------------------------------------
(* The thrasher: grow_pool and fix_pgp_num.                                *)

Known == {p \in Pools : pools[p] > 0}

(* max_pgs is max_pgs_per_pool_osd times a list of OSDs, hence a list; in  *)
(* Python 2 no integer is greater than a list.                             *)
PastLimit(n) == FALSE

NewSize(p, prop) == pools[p] + (IF prop = "pg_num" THEN GrowBy ELSE 0)

(* get_pool, then expand_pool or set_pool_pgpnum.  Each takes the lock,    *)
(* but nothing between the two lets another greenlet run: the thrasher     *)
(* waits for the lock in get_pool and then has it at once.                 *)
(* num_creating > 0 or the limit make both calls return; the query for     *)
(* num_creating may raise.                                                 *)
GetPoolAndSet ==
    /\ thrash = "idle" /\ lock = NoOne
    /\ \/ /\ Known = {}
          /\ thrash' = "raised" /\ UNCHANGED <<lock, setting>>
       \/ /\ Known # {}
          /\ thrash' \in {"idle", "raised"} /\ UNCHANGED <<lock, setting>>
       \/ \E p \in Known, prop \in {"pg_num", "pgp_num"} :
             LET n == NewSize(p, prop)
             IN  /\ ~PastLimit(n) /\ n <= PgBound
                 /\ Acquire(Thrasher)
                 /\ thrash' = "set"
                 /\ setting' = [pool |-> p, prop |-> prop, val |-> n]
    /\ tries' = 0

(* Variant: the lock is kept by the exception.                             *)
SetAgainKeepsLock ==
    /\ thrash = "set"
    /\ tries' = tries + 1
    /\ IF tries + 1 > MaxTries THEN thrash' = "raised" /\ setting' = NoSetting
                               ELSE UNCHANGED <<thrash, setting>>
    /\ UNCHANGED <<lock, pools, clusterPools>>

(* EAGAIN: try again, up to 50 times, with the lock held.                  *)
SetAgain ==
    /\ thrash = "set"
    /\ tries' = tries + 1
    /\ IF tries + 1 > MaxTries
       THEN Release /\ thrash' = "raised" /\ setting' = NoSetting
       ELSE UNCHANGED <<lock, thrash, setting>>
    /\ UNCHANGED <<pools, clusterPools>>

(* The monitors set pg_num of a pool that exists, never to less, and       *)
(* pgp_num to at most pg_num.                                              *)
Accepted ==
    LET p == setting.pool
    IN  /\ pgNum[p] > 0
        /\ IF setting.prop = "pg_num" THEN setting.val >= pgNum[p]
                                      ELSE setting.val <= pgNum[p]

Applies ==
    IF setting.prop = "pg_num"
    THEN pgNum' = [pgNum EXCEPT ![setting.pool] = setting.val] /\ UNCHANGED pgpNum
    ELSE pgpNum' = [pgpNum EXCEPT ![setting.pool] = setting.val] /\ UNCHANGED pgNum

(* Variant: expand_pool does not record the new size.                      *)
RecordSizeNot == UNCHANGED pools

(* expand_pool records the new size whatever the command returned.         *)
RecordSize ==
    IF setting.prop = "pg_num"
    THEN pools' = [pools EXCEPT ![setting.pool] = setting.val]
    ELSE UNCHANGED pools

(* Any result but EAGAIN ends set_pool_property, success or not.           *)
SetReturns ==
    /\ thrash = "set"
    /\ (Accepted /\ Applies) \/ UNCHANGED clusterPools
    /\ RecordSize
    /\ Release
    /\ thrash' = "idle"
    /\ setting' = NoSetting /\ tries' = 0

(* set_pool_property at work, with the lock held.                          *)
SetStep == (SetAgain \/ SetReturns) /\ UNCHANGED <<nextPoolId, taskVars>>

ThrashStep ==
    \/ GetPoolAndSet /\ UNCHANGED <<pools, clusterPools, nextPoolId, taskVars>>
    \/ SetStep

-----------------------------------------------------------------------------
(* A client of the cluster deletes a pool that was there before the tasks  *)
(* ("we may race with a pool deletion").                                   *)
PoolDeleted ==
    /\ \E p \in InitialPools :
          /\ pgNum[p] > 0
          /\ pgNum' = [pgNum EXCEPT ![p] = 0]
          /\ pgpNum' = [pgpNum EXCEPT ![p] = 0]
    /\ UNCHANGED <<pools, nextPoolId, lock, taskVars, thrashVars>>

Next == (\E t \in Tasks : TaskStep(t)) \/ ThrashStep \/ PoolDeleted

Spec == Init /\ [][Next]_vars

(* Greenlets are scheduled, and one that waits for the lock gets it: the   *)
(* thrasher, the only greenlet that asks again and again, sleeps op_delay  *)
(* in between.  Commands return: those to the monitors run under           *)
(* `timeout 120'; `rados rmpool' and the test programs have no timeout, so *)
(* that they end is an assumption on the cluster.  The thrasher need not   *)
(* take the lock, but what it does with it ends.                           *)
FairSpec == Spec /\ WF_vars(SetStep) /\ \A t \in Tasks : SF_vars(TaskStep(t))

-----------------------------------------------------------------------------
(* The assertions of create_pool ("pool_name not in self.pools") and of    *)
(* remove_pool ("pool_name in self.pools") never fail in a task, whatever  *)
(* the other greenlets do and whichever commands fail.                     *)
TaskAssertionsHold == \A t \in Tasks : pc[t] # "assertion"

(* Every pool of the dictionary exists in the cluster, unless somebody     *)
(* else deleted it: get_pool never hands out a pool a task has removed, or *)
(* failed to create.                                                       *)
KnownPoolsExist == \A p \in Known : p \in InitialPools \/ pgNum[p] > 0

(* The dictionary never understates a pool's pg_num, so that expand_pool   *)
(* never asks for fewer pgs than there are and set_pool_pgpnum never       *)
(* leaves pgp_num behind what the dictionary knew.                         *)
SizesNotUnderstated ==
    \A p \in Known : pgpNum[p] <= pgNum[p] /\ pgNum[p] <= pools[p]

(* A rados task that returned without an exception left no pool behind.    *)
RadosLeavesNothing ==
    \A t \in RadosTasks : pc[t] = "done" =>
        /\ Cardinality(own[t]) = Clients[t]
        /\ \A p \in own[t] : pgNum[p] = 0 /\ pools[p] = 0

(* Every task ends if the commands it runs return, though the thrasher     *)
(* keeps taking the lock and holds it through its retries.                 *)
TasksEnd == \A t \in Tasks : <>(pc[t] \in Ended)

=============================================================================

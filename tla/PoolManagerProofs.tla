------------------------- MODULE PoolManagerProofs -------------------------
(***************************************************************************)
(* Proofs about PoolManager, for all sets of tasks and pools, any number   *)
(* of clients and every pool_grow_by.                                      *)
(***************************************************************************)
EXTENDS PoolManager, FiniteSetTheorems, TLAPS

(* Most leaves are first-order reasoning, which Zenon does fastest. *)
USE ZenonT(30)

-----------------------------------------------------------------------------
(* The inductive invariant.                                                *)

Creating == {"creating", "props"}
Removing == {"remove", "removing"}
Holding  == Creating \cup {"removing"}

Settings == [pool : Pools, prop : {"pg_num", "pgp_num"}, val : Nat]

(* Types; the thrasher has a setting while set_pool_property runs.         *)
PoolTypes ==
    /\ pools \in [Pools -> Nat] /\ pgNum \in [Pools -> Nat] /\ pgpNum \in [Pools -> Nat]
    /\ nextPoolId \in 0 .. MaxPools
    /\ lock \in Tasks \cup {Thrasher, NoOne}
    /\ pc \in [Tasks -> Ended \cup {"create", "test"} \cup Creating \cup Removing]
    /\ pool \in [Tasks -> UniquePools \cup {NoPool}]
    /\ own \in [Tasks -> SUBSET UniquePools]
    /\ todo \in [Tasks -> SUBSET UniquePools]
    /\ thrash \in {"idle", "set", "raised"}
    /\ thrash = "set" => setting \in Settings
    /\ tries \in Nat

(* The lock belongs to the greenlet that is inside a call.                 *)
LockOwner == /\ \A t \in Tasks : pc[t] \in Holding <=> lock = t
             /\ thrash = "set" <=> lock = Thrasher

(* Names from next_pool_id on are in use nowhere.                          *)
FreeNames ==
    \A p \in UniquePools : p >= nextPoolId =>
        /\ pools[p] = 0 /\ pgNum[p] = 0 /\ pgpNum[p] = 0
        /\ \A t \in Tasks : p \notin own[t] /\ pool[t] # p

(* No two tasks have created the same pool, and one that is being created  *)
(* is nobody's yet and unknown to the dictionary.                          *)
Owners ==
    /\ \A t, u \in Tasks : t # u => own[t] \cap own[u] = {}
    /\ \A t \in Tasks : pc[t] \in Creating =>
          /\ pool[t] \in UniquePools
          /\ pools[pool[t]] = 0
          /\ \A u \in Tasks : pool[t] \notin own[u]

(* A pool whose properties are being set has been made.                    *)
PropsMade == \A t \in Tasks : pc[t] = "props" => pgNum[pool[t]] = 1 /\ pgpNum[pool[t]] = 1

(* The dictionary has the pools a task has created until the task begins   *)
(* to remove them.                                                         *)
Kept ==
    \A t \in Tasks :
        /\ pc[t] \in {"create", "test"} \cup Creating => \A p \in own[t] : pools[p] > 0
        /\ pc[t] = "test" => pool[t] \in own[t]
        /\ pc[t] \in Removing => todo[t] \subseteq own[t] /\ \A p \in todo[t] : pools[p] > 0
        /\ pc[t] = "removing" => pool[t] \in own[t] \ todo[t] /\ pools[pool[t]] = 0

(* How many pools a task has created.                                      *)
Created ==
    \A t \in Tasks :
        /\ IsFiniteSet(own[t])
        /\ pc[t] \in {"create"} \cup Creating => Cardinality(own[t]) < Clients[t]
        /\ pc[t] \in {"test", "done"} \cup Removing => Cardinality(own[t]) = Clients[t]

(* What a rados task no longer has to remove is gone.                      *)
Gone(p) == pgNum[p] = 0 /\ pools[p] = 0
Removed ==
    \A t \in RadosTasks :
        /\ pc[t] = "remove" => \A p \in own[t] \ todo[t] : Gone(p)
        /\ pc[t] = "removing" => \A p \in own[t] \ (todo[t] \cup {pool[t]}) : Gone(p)
        /\ pc[t] = "done" => \A p \in own[t] : Gone(p)

(* While a property is being set its pool is known, at the size from which *)
(* the new one was computed.                                               *)
SettingKnown ==
    thrash = "set" =>
        /\ pools[setting.pool] > 0
        /\ setting.val = pools[setting.pool] + (IF setting.prop = "pg_num" THEN GrowBy ELSE 0)

PoolInv == /\ PoolTypes /\ LockOwner /\ FreeNames /\ Owners /\ PropsMade /\ Kept
           /\ Created /\ Removed /\ SettingKnown
           /\ KnownPoolsExist /\ SizesNotUnderstated /\ TaskAssertionsHold

-----------------------------------------------------------------------------
(* Facts about the constants.                                              *)

LEMMA PoolNames ==
    /\ MaxPools \in Nat
    /\ UniquePools \subseteq Nat /\ UniquePools \subseteq Pools /\ InitialPools \subseteq Pools
    /\ InitialPools \cap UniquePools = {}
    /\ NoPool \notin UniquePools
    /\ \A p \in UniquePools : p < MaxPools
    /\ \A i \in 0 .. MaxPools : i < MaxPools => i \in UniquePools
  <1>1. MaxPools \in Nat /\ \A job \in Jobs : job.pools \cap UniquePools = {}
    BY PoolAssumption
  <1>2. UniquePools \subseteq Pools /\ InitialPools \subseteq Pools
    BY DEF Pools
  <1>3. InitialPools \cap UniquePools = {}
    BY <1>1 DEF InitialPools
  <1>4. /\ UniquePools \subseteq Nat /\ NoPool \notin UniquePools
        /\ \A p \in UniquePools : p < MaxPools
        /\ \A i \in 0 .. MaxPools : i < MaxPools => i \in UniquePools
    BY <1>1, SMT DEF UniquePools, NoPool
  <1> QED
    BY <1>1, <1>2, <1>3, <1>4

LEMMA GreenletNames ==
    /\ Thrasher \notin Tasks /\ NoOne \notin Tasks /\ Thrasher # NoOne
    /\ RadosTasks \subseteq Tasks
    /\ Clients \in [Tasks -> Nat \ {0}] /\ GrowBy \in Nat \ {0}
  BY PoolAssumption DEF Thrasher, NoOne, Tasks

-----------------------------------------------------------------------------
(* The initial states.                                                     *)

LEMMA PoolStutter == ASSUME PoolInv, UNCHANGED vars PROVE PoolInv'
  <1> USE DEF PoolInv, vars, clusterPools, taskVars, thrashVars
  <1>1. PoolTypes' /\ LockOwner' /\ Owners' /\ PropsMade' /\ Created'
    BY SMT DEF PoolTypes, LockOwner, Owners, PropsMade, Created
  <1>2. FreeNames' /\ Kept' /\ Removed' /\ SettingKnown'
    BY SMT DEF FreeNames, Kept, Removed, Gone, SettingKnown
  <1>3. KnownPoolsExist' /\ SizesNotUnderstated' /\ TaskAssertionsHold'
    BY SMT DEF KnownPoolsExist, SizesNotUnderstated, TaskAssertionsHold, Known
  <1> QED
    BY <1>1, <1>2, <1>3

LEMMA PoolInitInv == Init => PoolInv
  <1> SUFFICES ASSUME Init PROVE PoolInv
    OBVIOUS
  <1> USE PoolNames, GreenletNames DEF Init
  <1>1. PICK job \in Jobs :
           /\ pools = [p \in Pools |-> IF p \in job.pools THEN 1 ELSE 0]
           /\ pc = [t \in Tasks |-> IF t \in job.tasks THEN "create" ELSE "absent"]
    OBVIOUS
  <1>2. job.pools \cap UniquePools = {} /\ job.pools \subseteq InitialPools
    BY PoolAssumption, SMT DEF InitialPools
  <1>3. PoolTypes
    BY <1>1, PoolAssumption, SMT DEF PoolTypes, Ended
  <1>4. LockOwner
    BY <1>1 DEF LockOwner, Holding, Creating
  <1>5. FreeNames /\ Owners /\ PropsMade /\ Kept /\ Removed /\ SettingKnown
    BY <1>1, <1>2 DEF FreeNames, Owners, PropsMade, Kept, Removed, SettingKnown, Creating,
       Removing
  <1>6. Created
    BY <1>1, FS_EmptySet, SMT DEF Created, Creating, Removing
  <1>7. KnownPoolsExist /\ SizesNotUnderstated /\ TaskAssertionsHold
    BY <1>1, <1>2, SMT DEF KnownPoolsExist, SizesNotUnderstated, TaskAssertionsHold, Known
  <1> QED
    BY <1>3, <1>4, <1>5, <1>6, <1>7 DEF PoolInv

-----------------------------------------------------------------------------
(* One lemma for each operation of a task.                                 *)

(* A name is taken: it was free.                                           *)
LEMMA CreateInv ==
    ASSUME PoolInv, NEW t \in Tasks, CreatePoolWithUniqueName(t), UNCHANGED thrashVars
    PROVE  PoolInv'
  <1> USE PoolNames, GreenletNames DEF PoolInv, thrashVars, CreatePoolWithUniqueName,
     Asserting, Goto, clusterPools
  <1>1. PoolTypes'
    <2>1. nextPoolId \in UniquePools /\ nextPoolId + 1 \in 0 .. MaxPools
      BY SMT DEF PoolTypes
    <2> QED
      BY <2>1 DEF PoolTypes, Ended, Creating, Removing
  <1>2. LockOwner'
    BY DEF PoolTypes, LockOwner, Holding, Creating
  <1>3. FreeNames'
    BY SMT DEF PoolTypes, FreeNames, Owners, LockOwner, Holding, Creating
  <1>4. Owners' /\ PropsMade'
    BY SMT DEF PoolTypes, FreeNames, Owners, PropsMade, LockOwner, Holding, Creating
  <1>5. Kept'
    BY SMT DEF PoolTypes, FreeNames, Owners, LockOwner, Kept, Holding, Creating, Removing
  <1>6. Created'
    BY DEF PoolTypes, Created, Creating, Removing
  <1>7. Removed'
    BY SMT DEF PoolTypes, Owners, Kept, Removed, Gone, FreeNames, LockOwner, Holding,
       Creating, Removing
  <1>8. SettingKnown'
    BY DEF PoolTypes, LockOwner, SettingKnown, Holding, Creating
  <1>9. KnownPoolsExist' /\ SizesNotUnderstated'
    BY DEF PoolTypes, KnownPoolsExist, SizesNotUnderstated, Known, FreeNames, Owners,
       PropsMade, Kept, LockOwner, Creating, Removing
  <1>10. TaskAssertionsHold'
    BY SMT DEF PoolTypes, TaskAssertionsHold, FreeNames, Kept, Removing
  <1> QED
    BY <1>1, <1>2, <1>3, <1>4, <1>5, <1>6, <1>7, <1>8, <1>9, <1>10

(* The pool is made.                                                       *)
LEMMA CommandCreatesInv ==
    ASSUME PoolInv, NEW t \in Tasks, CommandCreates(t), UNCHANGED thrashVars
    PROVE  PoolInv'
  <1> USE PoolNames, GreenletNames DEF PoolInv, thrashVars, CommandCreates, Goto, clusterPools
  <1>1. PoolTypes'
    BY DEF PoolTypes, Ended, Creating, Removing
  <1>2. LockOwner'
    BY DEF PoolTypes, LockOwner, Holding, Creating
  <1>3. FreeNames'
    BY SMT DEF PoolTypes, FreeNames, Owners, LockOwner, Holding, Creating
  <1>4. Owners' /\ PropsMade'
    <2>1. Owners'
      BY DEF PoolTypes, Owners, Creating
    <2>2. \A u \in Tasks : pc'[u] = "props" => u = t
      BY DEF PoolTypes, LockOwner, Holding, Creating
    <2>3. pool[t] \in Pools
      BY DEF Owners, Creating
    <2>4. PropsMade'
      BY <2>2, <2>3 DEF PoolTypes, PropsMade
    <2> QED
      BY <2>1, <2>4
  <1>5. Kept'
    BY SMT DEF PoolTypes, FreeNames, Owners, LockOwner, Kept, Holding, Creating, Removing
  <1>6. Created'
    BY DEF PoolTypes, Created, Creating, Removing
  <1>7. Removed'
    BY SMT DEF PoolTypes, Owners, Kept, Removed, Gone, FreeNames, LockOwner, Holding,
       Creating, Removing
  <1>8. SettingKnown'
    BY DEF PoolTypes, LockOwner, SettingKnown, Holding, Creating
  <1>9. KnownPoolsExist' /\ SizesNotUnderstated'
    BY SMT DEF PoolTypes, KnownPoolsExist, SizesNotUnderstated, Known, FreeNames, Owners,
       PropsMade, Kept, LockOwner, Creating, Removing
  <1>10. TaskAssertionsHold'
    BY SMT DEF PoolTypes, TaskAssertionsHold, FreeNames, Kept, Removing
  <1> QED
    BY <1>1, <1>2, <1>3, <1>4, <1>5, <1>6, <1>7, <1>8, <1>9, <1>10

(* The pool enters the dictionary and is the task's.                       *)
LEMMA RecordInv ==
    ASSUME PoolInv, NEW t \in Tasks, RecordPool(t), UNCHANGED thrashVars
    PROVE  PoolInv'
  <1> USE PoolNames, GreenletNames DEF PoolInv, thrashVars, RecordPool, Goto, Release,
     clusterPools
  <1>1. PoolTypes'
    BY DEF PoolTypes, Owners, Ended, Creating, Removing
  <1>2. LockOwner'
    BY DEF PoolTypes, LockOwner, Holding, Creating
  <1>3. FreeNames'
    BY SMT DEF PoolTypes, FreeNames, Owners, LockOwner, Holding, Creating
  <1>4. Owners' /\ PropsMade'
    BY SMT DEF PoolTypes, FreeNames, Owners, PropsMade, LockOwner, Holding, Creating
  <1>5. Kept'
    BY SMT DEF PoolTypes, FreeNames, Owners, LockOwner, Kept, Holding, Creating, Removing
  <1>6. Created'
    <2>1. pool[t] \notin own[t] /\ IsFiniteSet(own[t]) /\ Cardinality(own[t]) < Clients[t]
      BY DEF Owners, Created, Creating
    <2>2. /\ IsFiniteSet(own[t] \cup {pool[t]}) /\ Cardinality(own[t]) \in Nat
          /\ Cardinality(own[t] \cup {pool[t]}) = Cardinality(own[t]) + 1
      BY <2>1, FS_AddElement, FS_CardinalityType
    <2>3. /\ own'[t] = own[t] \cup {pool[t]}
          /\ pc'[t] = IF Cardinality(own[t]) + 1 < Clients[t] THEN "create" ELSE "test"
          /\ \A u \in Tasks \ {t} : own'[u] = own[u] /\ pc'[u] = pc[u]
      BY DEF PoolTypes
    <2>4. Clients[t] \in Nat
      OBVIOUS
    <2> QED
      BY <2>1, <2>2, <2>3, <2>4, SMT DEF Created, Creating, Removing
  <1>7. Removed'
    BY SMT DEF PoolTypes, Owners, Kept, Removed, Gone, FreeNames, LockOwner, Holding,
       Creating, Removing
  <1>8. SettingKnown'
    BY DEF PoolTypes, LockOwner, SettingKnown, Holding, Creating
  <1>9. KnownPoolsExist' /\ SizesNotUnderstated'
    BY SMT DEF PoolTypes, KnownPoolsExist, SizesNotUnderstated, Known, FreeNames, Owners,
       PropsMade, Kept, LockOwner, Creating, Removing
  <1>10. TaskAssertionsHold'
    BY SMT DEF PoolTypes, TaskAssertionsHold, FreeNames, Kept, Removing
  <1> QED
    BY <1>1, <1>2, <1>3, <1>4, <1>5, <1>6, <1>7, <1>8, <1>9, <1>10

(* A failed creation leaves a pool nobody knows.                           *)
LEMMA CreateRaisesInv ==
    ASSUME PoolInv, NEW t \in Tasks, CreateRaises(t), UNCHANGED thrashVars
    PROVE  PoolInv'
  <1> USE PoolNames, GreenletNames DEF PoolInv, thrashVars, CreateRaises, Goto, Release,
     clusterPools
  <1>1. PoolTypes'
    BY DEF PoolTypes, Ended, Creating, Removing
  <1>2. LockOwner'
    BY DEF PoolTypes, LockOwner, Holding, Creating
  <1>3. FreeNames'
    BY DEF PoolTypes, FreeNames, Owners, LockOwner, Holding, Creating
  <1>4. Owners' /\ PropsMade'
    BY SMT DEF PoolTypes, FreeNames, Owners, PropsMade, LockOwner, Holding, Creating
  <1>5. Kept'
    BY SMT DEF PoolTypes, FreeNames, Owners, LockOwner, Kept, Holding, Creating, Removing
  <1>6. Created'
    BY DEF PoolTypes, Created, Creating, Removing
  <1>7. Removed'
    BY SMT DEF PoolTypes, Owners, Kept, Removed, Gone, FreeNames, LockOwner, Holding,
       Creating, Removing
  <1>8. SettingKnown'
    BY DEF PoolTypes, LockOwner, SettingKnown, Holding, Creating
  <1>9. KnownPoolsExist' /\ SizesNotUnderstated'
    BY DEF PoolTypes, KnownPoolsExist, SizesNotUnderstated, Known, FreeNames, Owners,
       PropsMade, Kept, LockOwner, Creating, Removing
  <1>10. TaskAssertionsHold'
    BY SMT DEF PoolTypes, TaskAssertionsHold, FreeNames, Kept, Removing
  <1> QED
    BY <1>1, <1>2, <1>3, <1>4, <1>5, <1>6, <1>7, <1>8, <1>9, <1>10

(* The test ends or raises.                                                *)
LEMMA TestsEndInv ==
    ASSUME PoolInv, NEW t \in Tasks, TestsEnd(t), UNCHANGED thrashVars
    PROVE  PoolInv'
  <1> USE PoolNames, GreenletNames DEF PoolInv, thrashVars, TestsEnd, ToRemove, Goto,
     clusterPools
  <1>1. PoolTypes'
    BY SMT DEF PoolTypes, Kept, Ended, Creating, Removing
  <1>2. LockOwner'
    BY DEF PoolTypes, LockOwner, Holding, Creating
  <1>3. FreeNames'
    BY DEF PoolTypes, FreeNames, Owners, LockOwner, Holding, Creating
  <1>4. Owners' /\ PropsMade'
    BY SMT DEF PoolTypes, FreeNames, Owners, PropsMade, LockOwner, Holding, Creating
  <1>5. Kept'
    <2>1. CASE pc[t] = "test" /\ Goto(t, "remove") /\ todo' = [todo EXCEPT ![t] = ToRemove(t)]
      BY <2>1, SMT DEF PoolTypes, Kept, Creating, Removing
    <2>2. CASE pc[t] \in {"create", "test"} /\ Goto(t, "raised") /\ UNCHANGED todo
      BY <2>2, SMT DEF PoolTypes, Kept, Creating, Removing
    <2> QED
      BY <2>1, <2>2
  <1>6. Created'
    BY SMT DEF PoolTypes, Created, Creating, Removing
  <1>7. Removed'
    BY SMT DEF PoolTypes, Owners, Kept, Removed, Gone, FreeNames, LockOwner, Holding,
       Creating, Removing
  <1>8. SettingKnown'
    BY DEF PoolTypes, LockOwner, SettingKnown, Holding, Creating
  <1>9. KnownPoolsExist' /\ SizesNotUnderstated'
    BY DEF PoolTypes, KnownPoolsExist, SizesNotUnderstated, Known, FreeNames, Owners,
       PropsMade, Kept, LockOwner, Creating, Removing
  <1>10. TaskAssertionsHold'
    BY SMT DEF PoolTypes, TaskAssertionsHold, FreeNames, Kept, Removing
  <1> QED
    BY <1>1, <1>2, <1>3, <1>4, <1>5, <1>6, <1>7, <1>8, <1>9, <1>10

(* The dictionary forgets a pool.                                          *)
LEMMA RemoveInv ==
    ASSUME PoolInv, NEW t \in Tasks, RemovePool(t), UNCHANGED thrashVars
    PROVE  PoolInv'
  <1> USE PoolNames, GreenletNames DEF PoolInv, thrashVars, RemovePool, Asserting, Goto,
     clusterPools
  <1>1. PoolTypes'
    BY SMT DEF PoolTypes, Ended, Creating, Removing
  <1>2. LockOwner'
    BY SMT DEF PoolTypes, LockOwner, Holding, Creating
  <1>3. FreeNames'
    <2>1. CASE UNCHANGED <<pools, pool>>
      BY <2>1 DEF FreeNames
    <2>2. ASSUME NEW p \in todo[t], pool' = [pool EXCEPT ![t] = p],
                 pools' = [pools EXCEPT ![p] = 0]
          PROVE  FreeNames'
      <3>1. p \in own[t] /\ p \in UniquePools
        BY DEF PoolTypes, Kept, Removing
      <3>2. ~(p >= nextPoolId)
        BY <3>1 DEF FreeNames
      <3> QED
        BY <2>2, <3>1, <3>2, SMT DEF PoolTypes, FreeNames
    <2> QED
      BY <2>1, <2>2
  <1>4. Owners' /\ PropsMade'
    BY SMT DEF PoolTypes, FreeNames, Owners, PropsMade, LockOwner, Holding, Creating
  <1>5. Kept'
    <2>1. CASE todo[t] = {} /\ Goto(t, "done") /\ UNCHANGED <<pools, pool, todo>>
      BY <2>1, SMT DEF PoolTypes, Kept, Creating, Removing
    <2>2. ASSUME NEW p \in todo[t],
                 Asserting(t, pools[p] > 0, "removing"), pool' = [pool EXCEPT ![t] = p],
                 todo' = [todo EXCEPT ![t] = @ \ {p}], pools' = [pools EXCEPT ![p] = 0]
          PROVE  Kept'
      <3>1. /\ p \in own[t] /\ pools[p] > 0 /\ p \in Pools
            /\ todo[t] \subseteq own[t] /\ \A q \in todo[t] : pools[q] > 0
        BY DEF PoolTypes, Kept, Removing
      <3>2. \A q \in Pools : q # p => pools'[q] = pools[q]
        BY <2>2 DEF PoolTypes
      <3>3. /\ pc'[t] = "removing" /\ pool'[t] = p /\ todo'[t] = todo[t] \ {p} /\ pools'[p] = 0
            /\ \A u \in Tasks \ {t} : pc'[u] = pc[u] /\ pool'[u] = pool[u] /\ todo'[u] = todo[u]
        BY <2>2, <3>1, SMT DEF PoolTypes
      <3>4. \A u \in Tasks : own[u] \subseteq Pools /\ (u # t => p \notin own[u])
        BY <3>1 DEF PoolTypes, Owners
      <3>5. \A u \in Tasks : u # t => pc[u] # "removing"
        BY <2>2 DEF LockOwner, Holding
      <3>6. own' = own
        OBVIOUS
      <3> HIDE DEF RemovePool
      <3>7. ASSUME NEW u \in Tasks
            PROVE  /\ pc'[u] \in {"create", "test"} \cup Creating =>
                         \A q \in own[u] : pools'[q] > 0
                   /\ pc'[u] = "test" => pool'[u] \in own[u]
                   /\ pc'[u] \in Removing =>
                         todo'[u] \subseteq own[u] /\ \A q \in todo'[u] : pools'[q] > 0
                   /\ pc'[u] = "removing" => pool'[u] \in own[u] \ todo'[u] /\ pools'[pool'[u]] = 0
        <4>1. CASE u = t
          BY <4>1, <3>1, <3>2, <3>3, <3>4 DEF Creating, Removing
        <4>2. CASE u # t
          <5>1. pc'[u] = pc[u] /\ pool'[u] = pool[u] /\ todo'[u] = todo[u]
            BY <4>2, <3>3
          <5>2. pc[u] # "removing" /\ own[u] \subseteq Pools \ {p}
            BY <4>2, <3>4, <3>5
          <5>3. \A q \in own[u] : pools'[q] = pools[q]
            BY <5>2, <3>2
          <5> QED
            BY <5>1, <5>2, <5>3 DEF Kept
        <4> QED
          BY <4>1, <4>2
      <3> QED
        BY <3>6, <3>7 DEF Kept
    <2> QED
      BY <2>1, <2>2
  <1>6. Created'
    BY SMT DEF PoolTypes, Created, Creating, Removing
  <1>7. Removed'
    BY SMT DEF PoolTypes, Owners, Kept, Removed, Gone, FreeNames, LockOwner, Holding,
       Creating, Removing
  <1>8. SettingKnown'
    BY DEF PoolTypes, LockOwner, SettingKnown, Holding, Creating
  <1>9. KnownPoolsExist' /\ SizesNotUnderstated'
    BY SMT DEF PoolTypes, KnownPoolsExist, SizesNotUnderstated, Known, FreeNames, Owners,
       PropsMade, Kept, LockOwner, Creating, Removing
  <1>10. TaskAssertionsHold'
    BY SMT DEF PoolTypes, TaskAssertionsHold, FreeNames, Kept, Removing
  <1> QED
    BY <1>1, <1>2, <1>3, <1>4, <1>5, <1>6, <1>7, <1>8, <1>9, <1>10

(* The pool is removed.                                                    *)
LEMMA CommandRemovesInv ==
    ASSUME PoolInv, NEW t \in Tasks, CommandRemoves(t), UNCHANGED thrashVars
    PROVE  PoolInv'
  <1> USE PoolNames, GreenletNames DEF PoolInv, thrashVars, CommandRemoves, Goto, Release,
     clusterPools
  <1>1. PoolTypes'
    BY DEF PoolTypes, Ended, Creating, Removing
  <1>2. LockOwner'
    BY SMT DEF PoolTypes, LockOwner, Holding, Creating
  <1>3. FreeNames'
    BY SMT DEF PoolTypes, FreeNames, Owners, LockOwner, Holding, Creating
  <1>4. Owners' /\ PropsMade'
    BY SMT DEF PoolTypes, FreeNames, Owners, PropsMade, LockOwner, Holding, Creating
  <1>5. Kept'
    BY SMT DEF PoolTypes, FreeNames, Owners, LockOwner, Kept, Holding, Creating, Removing
  <1>6. Created'
    BY DEF PoolTypes, Created, Creating, Removing
  <1>7. Removed'
    BY SMT DEF PoolTypes, Owners, Kept, Removed, Gone, FreeNames, LockOwner, Holding,
       Creating, Removing
  <1>8. SettingKnown'
    BY DEF PoolTypes, LockOwner, SettingKnown, Holding, Creating
  <1>9. KnownPoolsExist' /\ SizesNotUnderstated'
    BY SMT DEF PoolTypes, KnownPoolsExist, SizesNotUnderstated, Known, FreeNames, Owners,
       PropsMade, Kept, LockOwner, Creating, Removing
  <1>10. TaskAssertionsHold'
    BY SMT DEF PoolTypes, TaskAssertionsHold, FreeNames, Kept, Removing
  <1> QED
    BY <1>1, <1>2, <1>3, <1>4, <1>5, <1>6, <1>7, <1>8, <1>9, <1>10

(* The removal fails.                                                      *)
LEMMA RemoveRaisesInv ==
    ASSUME PoolInv, NEW t \in Tasks, RemoveRaises(t), UNCHANGED thrashVars
    PROVE  PoolInv'
  <1> USE PoolNames, GreenletNames DEF PoolInv, thrashVars, RemoveRaises, Goto, Release,
     clusterPools
  <1>1. PoolTypes'
    BY DEF PoolTypes, Ended, Creating, Removing
  <1>2. LockOwner'
    BY DEF PoolTypes, LockOwner, Holding, Creating
  <1>3. FreeNames'
    BY DEF PoolTypes, FreeNames, Owners, LockOwner, Holding, Creating
  <1>4. Owners' /\ PropsMade'
    BY SMT DEF PoolTypes, FreeNames, Owners, PropsMade, LockOwner, Holding, Creating
  <1>5. Kept'
    BY SMT DEF PoolTypes, FreeNames, Owners, LockOwner, Kept, Holding, Creating, Removing
  <1>6. Created'
    BY DEF PoolTypes, Created, Creating, Removing
  <1>7. Removed'
    BY SMT DEF PoolTypes, Owners, Kept, Removed, Gone, FreeNames, LockOwner, Holding,
       Creating, Removing
  <1>8. SettingKnown'
    BY DEF PoolTypes, LockOwner, SettingKnown, Holding, Creating
  <1>9. KnownPoolsExist' /\ SizesNotUnderstated'
    BY DEF PoolTypes, KnownPoolsExist, SizesNotUnderstated, Known, FreeNames, Owners,
       PropsMade, Kept, LockOwner, Creating, Removing
  <1>10. TaskAssertionsHold'
    BY SMT DEF PoolTypes, TaskAssertionsHold, FreeNames, Kept, Removing
  <1> QED
    BY <1>1, <1>2, <1>3, <1>4, <1>5, <1>6, <1>7, <1>8, <1>9, <1>10

-----------------------------------------------------------------------------
(* The thrasher, and the deletion of a pool by somebody else.              *)

(* Choosing a pool, and a retry, change neither dictionary nor cluster;    *)
(* taking the lock computes the new size.                                  *)
LEMMA ChooseInv ==
    ASSUME PoolInv, GetPoolAndSet \/ SetAgain,
           UNCHANGED <<pools, clusterPools, nextPoolId, taskVars>>
    PROVE  PoolInv'
  <1> USE PoolNames, GreenletNames DEF PoolInv, clusterPools, taskVars
  <1>1. PoolTypes' /\ LockOwner' /\ SettingKnown'
    <2>1. CASE GetPoolAndSet
      <3>1. CASE thrash' \in {"idle", "raised"} /\ UNCHANGED <<lock, setting>>
        BY <2>1, <3>1, SMT DEF GetPoolAndSet, PoolTypes, LockOwner, SettingKnown
      <3>2. ASSUME NEW p \in Known, NEW prop \in {"pg_num", "pgp_num"},
                   Acquire(Thrasher), thrash' = "set",
                   setting' = [pool |-> p, prop |-> prop, val |-> NewSize(p, prop)]
            PROVE  PoolTypes' /\ LockOwner' /\ SettingKnown'
        <4>1. p \in Pools /\ pools[p] \in Nat /\ pools[p] > 0 /\ NewSize(p, prop) \in Nat
          BY SMT DEF PoolTypes, Known, NewSize
        <4>2. setting' \in Settings
          BY <3>2, <4>1 DEF Settings
        <4>3. PoolTypes'
          BY <2>1, <3>2, <4>2, SMT DEF GetPoolAndSet, PoolTypes, Acquire
        <4>4. LockOwner'
          BY <3>2 DEF PoolTypes, LockOwner, Acquire
        <4>5. SettingKnown'
          BY <3>2, <4>1 DEF SettingKnown, NewSize
        <4> QED
          BY <4>3, <4>4, <4>5
      <3> QED
        BY <2>1, <3>1, <3>2 DEF GetPoolAndSet
    <2>2. CASE SetAgain
      BY <2>2, SMT DEF SetAgain, PoolTypes, LockOwner, SettingKnown, Release
    <2> QED
      BY <2>1, <2>2
  <1>2. FreeNames' /\ Owners' /\ PropsMade'
    BY DEF FreeNames, Owners, PropsMade
  <1>3. Kept' /\ Created' /\ Removed'
    BY SMT DEF Kept, Created, Removed, Gone
  <1>4. KnownPoolsExist' /\ SizesNotUnderstated' /\ TaskAssertionsHold'
    BY DEF KnownPoolsExist, SizesNotUnderstated, TaskAssertionsHold, Known
  <1> QED
    BY <1>1, <1>2, <1>3, <1>4

(* The only pool that changes is the one of the setting.  It is known and  *)
(* its size does not shrink.                                               *)
LEMMA SetReturnsShape ==
    ASSUME PoolInv, SetReturns
    PROVE  LET q == setting.pool IN
           /\ q \in Pools /\ pools[q] > 0 /\ pools'[q] >= pools[q]
           /\ pools' \in [Pools -> Nat] /\ pgNum' \in [Pools -> Nat] /\ pgpNum' \in [Pools -> Nat]
           /\ \A p \in Pools : p # q => /\ pools'[p] = pools[p] /\ pgNum'[p] = pgNum[p]
                                        /\ pgpNum'[p] = pgpNum[p]
           /\ pgNum'[q] >= pgNum[q] /\ pgNum'[q] <= pools'[q] /\ pgpNum'[q] <= pgNum'[q]
  <1> DEFINE q == setting.pool
             v == setting.val
  <1>1. /\ q \in Pools /\ v \in Nat /\ setting.prop \in {"pg_num", "pgp_num"}
        /\ pools[q] > 0 /\ v = pools[q] + (IF setting.prop = "pg_num" THEN GrowBy ELSE 0)
        /\ GrowBy \in Nat
    BY GreenletNames DEF PoolInv, SetReturns, PoolTypes, Settings, SettingKnown
  <1>2. /\ pools \in [Pools -> Nat] /\ pgNum \in [Pools -> Nat] /\ pgpNum \in [Pools -> Nat]
        /\ pgpNum[q] <= pgNum[q] /\ pgNum[q] <= pools[q]
    BY <1>1 DEF PoolInv, PoolTypes, SizesNotUnderstated, Known
  <1> HIDE DEF q, v
  <1>3. CASE setting.prop = "pg_num"
    <2>1. pools' = [pools EXCEPT ![q] = v] /\ pgpNum' = pgpNum
      BY <1>3 DEF SetReturns, RecordSize, Applies, clusterPools, q, v
    <2>2. pgNum' = pgNum \/ (pgNum' = [pgNum EXCEPT ![q] = v] /\ v >= pgNum[q])
      BY <1>3 DEF SetReturns, Accepted, Applies, clusterPools, q, v
    <2> QED
      BY <1>1, <1>2, <1>3, <2>1, <2>2, SMT DEF q
  <1>4. CASE setting.prop = "pgp_num"
    <2>1. pools' = pools /\ pgNum' = pgNum
      BY <1>4 DEF SetReturns, RecordSize, Applies, clusterPools, q, v
    <2>2. pgpNum' = pgpNum \/ (pgpNum' = [pgpNum EXCEPT ![q] = v] /\ v <= pgNum[q])
      BY <1>4 DEF SetReturns, Accepted, Applies, clusterPools, q, v
    <2> QED
      BY <1>1, <1>2, <1>4, <2>1, <2>2, SMT DEF q
  <1> QED
    BY <1>1, <1>3, <1>4

LEMMA SetReturnsInv ==
    ASSUME PoolInv, SetReturns, UNCHANGED <<nextPoolId, taskVars>>
    PROVE  PoolInv'
  <1> USE PoolNames, GreenletNames, SetReturnsShape DEF PoolInv, taskVars
  <1>1. /\ thrash = "set" /\ lock = Thrasher
        /\ thrash' = "idle" /\ lock' = NoOne /\ tries' = 0
    BY DEF SetReturns, LockOwner, Release
  <1>2. PoolTypes' /\ LockOwner' /\ SettingKnown'
    BY <1>1 DEF PoolTypes, LockOwner, SettingKnown
  <1>3. FreeNames'
    BY SMT DEF PoolTypes, FreeNames
  <1>4. Owners' /\ PropsMade'
    BY <1>1, SMT DEF PoolTypes, Owners, PropsMade, LockOwner, Holding, Creating
  <1>5. Kept'
    <2>1. \A t \in Tasks : own[t] \subseteq Pools /\ todo[t] \subseteq Pools /\ pc[t] # "removing"
      BY <1>1 DEF PoolTypes, LockOwner, Holding
    <2>2. \A p \in Pools : pools[p] > 0 => pools'[p] > 0
      BY SMT DEF PoolTypes
    <2> QED
      BY <2>1, <2>2 DEF Kept
  <1>6. Created'
    BY DEF Created
  <1>7. Removed'
    <2>1. \A t \in RadosTasks : own[t] \subseteq Pools
      BY DEF PoolTypes
    <2>2. \A p \in Pools : Gone(p) => Gone(p)'
      BY SMT DEF PoolTypes, Gone
    <2> QED
      BY <2>1, <2>2 DEF Removed
  <1>8. KnownPoolsExist' /\ SizesNotUnderstated'
    BY SMT DEF PoolTypes, KnownPoolsExist, SizesNotUnderstated, Known
  <1>9. TaskAssertionsHold'
    BY DEF TaskAssertionsHold
  <1> QED
    BY <1>2, <1>3, <1>4, <1>5, <1>6, <1>7, <1>8, <1>9

(* Somebody else deletes a pool that no task has created.                  *)
LEMMA DeletedInv ==
    ASSUME PoolInv, PoolDeleted
    PROVE  PoolInv'
  <1> USE PoolNames, GreenletNames DEF PoolInv, PoolDeleted, taskVars, thrashVars
  <1>1. PoolTypes' /\ LockOwner' /\ SettingKnown'
    BY SMT DEF PoolTypes, LockOwner, SettingKnown
  <1>2. FreeNames' /\ Owners' /\ PropsMade'
    BY SMT DEF PoolTypes, FreeNames, Owners, PropsMade, Creating
  <1>3. Kept' /\ Created'
    BY DEF Kept, Created
  <1>4. Removed'
    BY SMT DEF PoolTypes, Removed, Gone
  <1>5. KnownPoolsExist' /\ SizesNotUnderstated' /\ TaskAssertionsHold'
    BY SMT DEF PoolTypes, KnownPoolsExist, SizesNotUnderstated, TaskAssertionsHold, Known
  <1> QED
    BY <1>1, <1>2, <1>3, <1>4, <1>5

-----------------------------------------------------------------------------
(* The theorems.                                                           *)

(* The inductive invariant holds in every reachable state.                 *)
THEOREM PoolInvariance == Spec => []PoolInv
  <1>1. PoolInv /\ [Next]_vars => PoolInv'
    <2> SUFFICES ASSUME PoolInv, [Next]_vars PROVE PoolInv'
      OBVIOUS
    <2>1. ASSUME NEW t \in Tasks, TaskStep(t) PROVE PoolInv'
      BY <2>1, CreateInv, CommandCreatesInv, RecordInv, CreateRaisesInv, TestsEndInv,
         RemoveInv, CommandRemovesInv, RemoveRaisesInv DEF TaskStep
    <2>2. CASE ThrashStep
      <3>1. CASE GetPoolAndSet /\ UNCHANGED <<pools, clusterPools, nextPoolId, taskVars>>
        BY <3>1, ChooseInv
      <3>2. CASE SetAgain /\ UNCHANGED <<nextPoolId, taskVars>>
        BY <3>2, ChooseInv DEF SetAgain
      <3>3. CASE SetReturns /\ UNCHANGED <<nextPoolId, taskVars>>
        BY <3>3, SetReturnsInv
      <3> QED
        BY <2>2, <3>1, <3>2, <3>3 DEF ThrashStep, SetStep
    <2>3. CASE PoolDeleted
      BY <2>3, DeletedInv
    <2>4. CASE UNCHANGED vars
      BY <2>4, PoolStutter
    <2> QED
      BY <2>1, <2>2, <2>3, <2>4 DEF Next
  <1> QED
    BY <1>1, PoolInitInv, PTL DEF Spec

(* Whatever the other greenlets do and whichever commands fail, no         *)
(* assertion of create_pool or remove_pool fails in a task.                *)
THEOREM TaskAssertionsAlwaysHold == Spec => []TaskAssertionsHold
  <1>1. PoolInv => TaskAssertionsHold
    BY DEF PoolInv
  <1> QED
    BY <1>1, PoolInvariance, PTL

(* Every pool of the dictionary exists, or was deleted by somebody else.   *)
THEOREM KnownPoolsAlwaysExist == Spec => []KnownPoolsExist
  <1>1. PoolInv => KnownPoolsExist
    BY DEF PoolInv
  <1> QED
    BY <1>1, PoolInvariance, PTL

(* The dictionary never understates the size of a pool.                    *)
THEOREM SizesNeverUnderstated == Spec => []SizesNotUnderstated
  <1>1. PoolInv => SizesNotUnderstated
    BY DEF PoolInv
  <1> QED
    BY <1>1, PoolInvariance, PTL

(* A rados task that returned has removed every pool it created.           *)
THEOREM RadosAlwaysCleansUp == Spec => []RadosLeavesNothing
  <1>1. PoolInv => RadosLeavesNothing
    BY GreenletNames DEF PoolInv, Created, Removed, Gone, RadosLeavesNothing
  <1> QED
    BY <1>1, PoolInvariance, PTL
=============================================================================

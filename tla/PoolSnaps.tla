----------------------------- MODULE PoolSnaps -----------------------------
(***************************************************************************)
(* The greenlet of thrash_pool_snaps.py: it takes and removes the same     *)
(* snapshot in each of several pools, one command for each pool.           *)
(***************************************************************************)
EXTENDS Naturals, Sequences, FiniteSets

CONSTANTS Pools,      \* config pools, a sequence
          MinSnaps,   \* config min_snaps
          MaxSnaps,   \* config max_snaps
          MaxIndex    \* bound: rounds of the loop

ASSUME SnapsAssumption == /\ Pools \in Seq(STRING)
                          /\ MinSnaps \in Nat /\ MaxSnaps \in Nat /\ MaxIndex \in Nat

VARIABLES snaps,      \* the list `snaps`
          taken,      \* the cluster: the snapshots of each pool
          index,      \* number of the round
          op,         \* "none", "add" or "remove"
          snap,       \* the snapshot op is about
          done,       \* pools whose command has succeeded
          snapper,    \* greenlet: "none", "top", "sleep", "busy", "ended", "raised"
          snapStop    \* the task's `stopping`

snapVars == <<snaps, taken, index, op, snap, done, snapper, snapStop>>

Indices == DOMAIN Pools

SnapInit(withSnaps) ==
    /\ snaps = {}
    /\ taken = [i \in Indices |-> {}]
    /\ index = 0 /\ op = "none" /\ snap = 0 /\ done = 0
    /\ snapper = IF withSnaps THEN "top" ELSE "none"
    /\ snapStop = FALSE

(* while not stopping: index += 1; time.sleep(period)                      *)
SnapTop ==
    /\ snapper = "top"
    /\ \/ /\ snapStop
          /\ snapper' = "ended"
          /\ index' = index
       \/ /\ ~snapStop
          /\ index < MaxIndex
          /\ snapper' = "sleep"
          /\ index' = index + 1
    /\ UNCHANGED <<snaps, taken, op, snap, done, snapStop>>

(* It adds at min_snaps or less, removes at max_snaps or more, and does    *)
(* either in between.                                                      *)
ChooseOp ==
    /\ snapper = "sleep"
    /\ \/ /\ Cardinality(snaps) <= MinSnaps \/ Cardinality(snaps) < MaxSnaps
          /\ op' = "add" /\ snap' = index
       \/ /\ Cardinality(snaps) > MinSnaps
          /\ op' = "remove" /\ snap' \in snaps
    /\ snapper' = "busy"
    /\ done' = 0
    /\ UNCHANGED <<snaps, taken, index, snapStop>>

Applied(i) == IF op = "add" THEN taken[i] \cup {snap} ELSE taken[i] \ {snap}

(* The command for the next pool.  One that fails may have had its effect; *)
(* its exception ends the greenlet.                                        *)
PoolCmd ==
    /\ snapper = "busy"
    /\ done < Len(Pools)
    /\ LET i == done + 1 IN
       \/ /\ taken' = [taken EXCEPT ![i] = Applied(i)]
          /\ done' = i
          /\ snapper' = snapper
       \/ /\ taken' \in {taken, [taken EXCEPT ![i] = Applied(i)]}
          /\ done' = done
          /\ snapper' = "raised"
    /\ UNCHANGED <<snaps, index, op, snap, snapStop>>

\* Mutant: the list changes for the first pool.
ListOpEarly ==
    /\ snapper = "busy"
    /\ done = 1
    /\ snaps' = IF op = "add" THEN snaps \cup {snap} ELSE snaps \ {snap}
    /\ snapper' = "top"
    /\ op' = "none"
    /\ UNCHANGED <<taken, index, snap, done, snapStop>>

(* snaps.append(snap), snaps.remove(snap)                                  *)
ListOp ==
    /\ snapper = "busy"
    /\ done = Len(Pools)
    /\ snaps' = IF op = "add" THEN snaps \cup {snap} ELSE snaps \ {snap}
    /\ snapper' = "top"
    /\ op' = "none"
    /\ UNCHANGED <<taken, index, snap, done, snapStop>>

SnapStep == SnapTop \/ ChooseOp \/ PoolCmd \/ ListOp

----------------------------------------------------------------------------
(* Properties.                                                             *)

(* Between two operations every pool has the snapshots of the list.  While *)
(* one is under way, or after it has failed half-way, a pool differs from  *)
(* the list in the one snapshot that is being made or removed at most.     *)
SnapsMatchPools ==
    \A i \in Indices :
       (taken[i] \ snaps) \cup (snaps \ taken[i]) \subseteq (IF op = "none" THEN {} ELSE {snap})

=============================================================================

------------------------- MODULE MonThrasherProofs -------------------------
(***************************************************************************)
(* Proofs about MonThrasher, for every number of monitors above two and    *)
(* every config the constructor's assertions let through.                  *)
(***************************************************************************)
EXTENDS MonThrasher, FiniteSetTheorems, TLAPS

Settled == {"top", "waitTop", "checkTop", "done"}
Killed  == {"freeze1", "thaw1", "waitKilled", "checkKilled"}

(* Which monitors are dead or stopped at each point of an iteration.       *)
Places ==
    /\ pc \in Settled \cup {"waitAll", "checkAll"} => In("up") = Mons
    /\ pc = "kill" => todo \subseteq toKill /\ In("dead") = toKill \ todo
    /\ pc \in Killed => In("dead") = toKill
    /\ pc \in {"kill", "waitKilled", "checkKilled", "revive"} => In("frozen") = {}
    /\ pc \in {"freeze1", "freeze2", "thaw1", "thaw2"} => todo \subseteq toFreeze
    /\ pc \in {"thaw1", "thaw2"} => In("frozen") \subseteq todo
    /\ pc = "revive" => In("dead") \subseteq todo /\ todo \subseteq toKill
    /\ pc \in {"freeze2", "thaw2"} => In("dead") = {}

(* Who has still to come back into a quorum at each point of an iteration, *)
(* and that nobody else lacks its store.  A monitor that is in a quorum    *)
(* has come back, which is all that the queries of checkAll need to know.  *)
Rounds ==
    /\ pc \in Settled => rejoining = {}
    /\ pc = "kill" => rejoining \subseteq toKill \ todo
    /\ pc = "checkAll" => rejoining \subseteq todo
    /\ pc \notin {"kill", "raised", "assertion"} => Mons \ intact \subseteq rejoining
    /\ pc = "kill" => Mons \ intact \subseteq rejoining \cup todo
    /\ \A m \in Mons : view[m] # {} => m \notin rejoining

Bounded ==
    /\ Cardinality(toKill) <= MaxKillable
    /\ rejoining \subseteq toKill
    /\ Mons \ toKill \subseteq intact
    /\ StoreThrash \/ intact = Mons

MonInv == MonTypeOK /\ Places /\ Rounds /\ Bounded

-----------------------------------------------------------------------------
(* Facts about numbers of monitors.                                        *)

(* There are finitely many monitors, more than two, and every set of them  *)
(* has a size.                                                             *)
LEMMA MonSizes ==
    /\ IsFiniteSet(Mons) /\ N \in Nat /\ N > 2
    /\ \A S \in SUBSET Mons :
          /\ IsFiniteSet(S) /\ Cardinality(S) \in Nat
          /\ Cardinality(S) = N => S = Mons
          /\ Cardinality(S) = 0 <=> S = {}
  <1>1. IsFiniteSet(Mons) /\ N \in Nat /\ N > 2
    BY MonAssumption, FS_CardinalityType DEF N
  <1>2. ASSUME NEW S \in SUBSET Mons
        PROVE  /\ IsFiniteSet(S) /\ Cardinality(S) \in Nat
               /\ Cardinality(S) = N => S = Mons
               /\ Cardinality(S) = 0 <=> S = {}
    BY <1>1, FS_Subset, FS_CardinalityType, FS_EmptySet DEF N
  <1> QED
    BY <1>1, <1>2

(* Removing monitors.                                                      *)
LEMMA Survivors ==
    ASSUME NEW K \in SUBSET Mons
    PROVE  Cardinality(Mons \ K) = N - Cardinality(K)
  <1>1. Mons \cap K = K
    OBVIOUS
  <1>2. IsFiniteSet(Mons)
    BY MonAssumption
  <1>3. Cardinality(Mons \ K) = Cardinality(Mons) - Cardinality(Mons \cap K)
    BY <1>2, FS_Difference
  <1> QED
    BY <1>1, <1>3 DEF N

(* A set that contains a majority is one, and all monitors are one.        *)
LEMMA Majorities ==
    /\ Majority(Mons)
    /\ \A S, T \in SUBSET Mons : Majority(S) /\ S \subseteq T => Majority(T)
  <1>1. Majority(Mons)
    <2> DEFINE n == N
    <2>1. n \in Nat /\ n > 2 /\ Cardinality(Mons) = n
      BY MonSizes DEF N
    <2>2. 2 * n > n
      <3> HIDE DEF n
      <3> QED BY <2>1
    <2> QED
      BY <2>1, <2>2 DEF Majority
  <1>2. ASSUME NEW S \in SUBSET Mons, NEW T \in SUBSET Mons, Majority(S), S \subseteq T
        PROVE  Majority(T)
    <2> DEFINE n == N
               s == Cardinality(S)
               t == Cardinality(T)
    <2>1. n \in Nat /\ s \in Nat /\ t \in Nat
      BY MonSizes
    <2>2. s <= t
      BY <1>2, FS_Subset, MonSizes
    <2>3. 2 * s > n
      BY <1>2 DEF Majority
    <2> HIDE DEF n, s, t
    <2>4. 2 * t > n
      BY <2>1, <2>2, <2>3
    <2> QED
      BY <2>4 DEF Majority, n, t
  <1> QED
    BY <1>1, <1>2

(* max_killable with maintain_quorum: whoever is not killed is a majority. *)
LEMMA KillableLeavesMajority ==
    ASSUME NEW K \in SUBSET Mons, MaintainQuorum, Cardinality(K) <= MaxKillable
    PROVE  Majority(Mons \ K)
  <1> DEFINE n == N
             k == Cardinality(K)
  <1>1. n \in Nat /\ k \in Nat
    BY MonSizes
  <1>2. k <= (n + 1) \div 2 - 1
    BY DEF MaxKillable
  <1>3. Cardinality(Mons \ K) = n - k
    BY Survivors
  <1> HIDE DEF n, k
  <1>4. 2 * (n - k) > n
    BY <1>1, <1>2
  <1> QED
    BY <1>3, <1>4 DEF Majority, n

-----------------------------------------------------------------------------
(* What the monitor processes are doing.                                   *)

(* Every monitor is up, dead or frozen, and only one of them.              *)
LEMMA Partition ==
    ASSUME MonTypeOK
    PROVE  /\ In("up") = Mons \ (In("dead") \cup In("frozen"))
           /\ In("dead") \cap In("frozen") = {}
           /\ In("dead") \subseteq Mons /\ In("frozen") \subseteq Mons
  BY DEF MonTypeOK, In

(* A step that leaves the processes alone.                                 *)
LEMMA ProcessesKept ==
    ASSUME UNCHANGED mon
    PROVE  In("up")' = In("up") /\ In("dead")' = In("dead") /\ In("frozen")' = In("frozen")
  BY DEF In

(* A step that stops, kills or restarts one monitor.                       *)
LEMMA ProcessChanged ==
    ASSUME MonTypeOK, NEW m \in Mons, NEW s \in {"up", "dead", "frozen"},
           mon' = [mon EXCEPT ![m] = s]
    PROVE  /\ mon' \in [Mons -> {"up", "dead", "frozen"}]
           /\ In(s)' = In(s) \cup {m}
           /\ \A q \in {"up", "dead", "frozen"} : q # s => In(q)' = In(q) \ {m}
  BY DEF MonTypeOK, In

(* No monitor killed is within max_killable.                               *)
LEMMA NoneKilled == Cardinality({}) <= MaxKillable
  <1> DEFINE n == N
  <1>1. n \in Nat /\ n > 2
    BY MonSizes
  <1>2. Cardinality({}) = 0
    BY FS_EmptySet
  <1> HIDE DEF n
  <1>3. (n + 1) \div 2 - 1 >= 0 /\ n >= 0
    BY <1>1
  <1> QED
    BY <1>2, <1>3 DEF MaxKillable, n

-----------------------------------------------------------------------------
(* The invariant holds at the start and is kept by every step.             *)

LEMMA MonInitial == Init => MonInv
  <1> SUFFICES ASSUME Init PROVE MonInv
    OBVIOUS
  <1>1. In("up") = Mons /\ In("dead") = {} /\ In("frozen") = {}
    BY DEF Init, In
  <1>2. MonTypeOK
    BY <1>1 DEF Init, MonTypeOK, Points, Terminal
  <1> QED
    BY <1>1, <1>2, NoneKilled
    DEF Init, MonInv, Places, Rounds, Bounded, Settled, Killed

(* The step of an iteration's end, and of a command or wait that fails.    *)
LEMMA LoopTopKeeps ==
    ASSUME MonInv, LoopTop, UNCHANGED stopping PROVE MonInv'
  <1>1. /\ In("up") = Mons /\ In("dead") = {} /\ In("frozen") = {}
        /\ rejoining = {} /\ intact = Mons
    BY Partition DEF MonInv, MonTypeOK, LoopTop, Places, Rounds, Settled
  <1>2. /\ In("up")' = Mons /\ In("dead")' = {} /\ In("frozen")' = {}
        /\ rejoining' = {} /\ intact' = Mons /\ view' = view
        /\ toKill' = {} /\ toFreeze' = {} /\ todo' = {}
        /\ pc' \in {"done", "waitTop"}
    BY <1>1, ProcessesKept DEF LoopTop, Goto, monVars
  <1>3. MonTypeOK'
    BY <1>2 DEF MonInv, MonTypeOK, LoopTop, Points, Terminal, monVars
  <1> QED
    BY <1>2, <1>3, NoneKilled
    DEF MonInv, Places, Rounds, Bounded, Settled, Killed

LEMMA StopsKeep ==
    ASSUME MonInv, NEW p \in {"raised", "assertion"}, Goto(p, {}),
           UNCHANGED <<monVars, intact, stopping, toKill, toFreeze>>
    PROVE  MonInv'
  <1>1. /\ UNCHANGED <<mon, view, rejoining, intact, stopping, toKill, toFreeze>>
        /\ pc' = p /\ todo' = {}
    BY DEF monVars, Goto
  <1>2. In("up")' = In("up") /\ In("dead")' = In("dead") /\ In("frozen")' = In("frozen")
    BY <1>1, ProcessesKept
  <1>3. MonTypeOK'
    BY <1>1, <1>2 DEF MonInv, MonTypeOK, Points, Terminal
  <1> QED
    BY <1>1, <1>3 DEF MonInv, Places, Rounds, Bounded, Settled, Killed

(* A step that only moves do_thrash on: it is enough to look at where it   *)
(* goes.                                                                   *)
LEMMA MovesOn ==
    ASSUME MonInv, NEW p \in Points, NEW S \in SUBSET Mons, Goto(p, S),
           UNCHANGED <<monVars, intact, stopping, toKill, toFreeze>>,
           p # "kill", pc \notin {"raised", "assertion"},
           p \in Settled \cup {"waitAll", "checkAll"} => In("up") = Mons,
           p \in Killed => In("dead") = toKill,
           p \in {"waitKilled", "checkKilled", "revive"} => In("frozen") = {},
           p \in {"freeze1", "freeze2", "thaw1", "thaw2"} => S \subseteq toFreeze,
           p \in {"thaw1", "thaw2"} => In("frozen") \subseteq S,
           p = "revive" => In("dead") \subseteq S /\ S \subseteq toKill,
           p \in {"freeze2", "thaw2"} => In("dead") = {},
           p \in Settled => rejoining = {},
           p = "checkAll" => rejoining \subseteq S,
           pc = "kill" => todo = {}
    PROVE  MonInv'
  <1>0. UNCHANGED <<mon, view, rejoining, intact, stopping, toKill, toFreeze>>
    BY DEF monVars
  <1>1. In("up")' = In("up") /\ In("dead")' = In("dead") /\ In("frozen")' = In("frozen")
    BY <1>0, ProcessesKept
  <1>2. pc' = p /\ todo' = S
    BY DEF Goto
  <1>3. MonTypeOK'
    BY <1>0, <1>1, <1>2 DEF MonInv, MonTypeOK
  <1>4. Places'
    BY <1>0, <1>1, <1>2 DEF Places
  <1>5. Rounds'
    <2>1. Mons \ intact \subseteq rejoining
      BY DEF MonInv, Rounds
    <2> QED
      BY <1>0, <1>2, <2>1 DEF MonInv, Rounds
  <1>6. Bounded'
    BY <1>0 DEF MonInv, Bounded
  <1> QED
    BY <1>3, <1>4, <1>5, <1>6 DEF MonInv

(* A wait that returns, whichever monitor answered it.                     *)
LEMMA WaitsKeep ==
    ASSUME MonInv, UNCHANGED stopping,
           \/ WaitForMonQuorumSize("waitTop", N, "checkTop", Mons)
           \/ WaitForMonQuorumSize("waitKilled", N - Cardinality(toKill),
                                   "checkKilled", Mons \ toKill)
           \/ WaitForMonQuorumSize("waitAll", N, "checkAll", Mons)
    PROVE  MonInv'
  <1> USE DEF Points, Terminal, Settled, Killed
  <1>0. rejoining \subseteq Mons
    BY DEF MonInv, MonTypeOK
  <1>1. CASE WaitForMonQuorumSize("waitTop", N, "checkTop", Mons)
    <2>1. /\ pc = "waitTop" /\ Goto("checkTop", Mons)
          /\ UNCHANGED <<monVars, intact, toKill, toFreeze>>
      BY <1>1 DEF WaitForMonQuorumSize
    <2>2. In("up") = Mons /\ rejoining = {}
      BY <2>1 DEF MonInv, Places, Rounds
    <2> QED
      BY <2>1, <2>2, MovesOn
  <1>2. CASE WaitForMonQuorumSize("waitKilled", N - Cardinality(toKill),
                                  "checkKilled", Mons \ toKill)
    <2>1. /\ pc = "waitKilled" /\ Goto("checkKilled", Mons \ toKill)
          /\ UNCHANGED <<monVars, intact, toKill, toFreeze>>
      BY <1>2 DEF WaitForMonQuorumSize
    <2>2. In("dead") = toKill /\ In("frozen") = {}
      BY <2>1 DEF MonInv, Places
    <2> QED
      BY <2>1, <2>2, MovesOn
  <1>3. CASE WaitForMonQuorumSize("waitAll", N, "checkAll", Mons)
    <2>1. /\ pc = "waitAll" /\ Goto("checkAll", Mons)
          /\ UNCHANGED <<monVars, intact, toKill, toFreeze>>
      BY <1>3 DEF WaitForMonQuorumSize
    <2>2. In("up") = Mons
      BY <2>1 DEF MonInv, Places
    <2> QED
      BY <1>0, <2>1, <2>2, MovesOn
  <1> QED
    BY <1>1, <1>2, <1>3

(* The queries of the monitors: one that tells a quorum has come back, and *)
(* any other ends do_thrash.                                               *)
LEMMA ChecksKeep ==
    ASSUME MonInv, UNCHANGED stopping, NEW m \in Mons,
           NEW p \in {"checkTop", "checkKilled", "checkAll"}, NEW size,
           CheckMon(p, size, m)
    PROVE  MonInv'
  <1> USE DEF Points, Terminal, Settled, Killed
  <1>0. todo \ {m} \in SUBSET Mons
    BY DEF MonInv, MonTypeOK
  <1>1. pc = p /\ UNCHANGED <<monVars, intact, toKill, toFreeze>>
    BY DEF CheckMon
  <1>2. CASE view[m] # {} /\ Cardinality(view[m]) = size
    <2>1. Goto(p, todo \ {m})
      BY <1>2 DEF CheckMon
    <2>2. /\ p \in {"checkTop", "checkAll"} => In("up") = Mons
          /\ p = "checkKilled" => In("dead") = toKill /\ In("frozen") = {}
          /\ p = "checkTop" => rejoining = {}
      BY <1>1 DEF MonInv, Places, Rounds
    <2>3. p = "checkAll" => rejoining \subseteq todo \ {m}
      BY <1>1, <1>2 DEF MonInv, Rounds
    <2> QED
      BY <1>0, <1>1, <2>1, <2>2, <2>3, MovesOn
  <1>3. CASE ~(view[m] # {} /\ Cardinality(view[m]) = size)
    <2>1. Goto("assertion", {})
      BY <1>3 DEF CheckMon
    <2> QED
      BY <1>1, <2>1, StopsKeep
  <1> QED
    BY <1>2, <1>3

(* The choice of the monitors to kill and to freeze.                       *)
LEMMA ChooseKeeps ==
    ASSUME MonInv, UNCHANGED stopping, ChooseMons
    PROVE  MonInv'
  <1>1. PICK K \in SUBSET Mons, F \in SUBSET Mons :
          /\ F \subseteq Mons \ K /\ Cardinality(K) \in 1 .. MaxKillable
          /\ toKill' = K /\ toFreeze' = F /\ pc' = "kill" /\ todo' = K
    BY DEF ChooseMons, Goto
  <1>2. pc = "checkTop" /\ UNCHANGED <<mon, view, rejoining, intact>>
    BY DEF ChooseMons, monVars
  <1>3. /\ In("up") = Mons /\ In("dead") = {} /\ In("frozen") = {}
        /\ rejoining = {} /\ intact = Mons
    BY <1>2, Partition DEF MonInv, MonTypeOK, Places, Rounds, Settled
  <1>4. /\ In("up")' = Mons /\ In("dead")' = {} /\ In("frozen")' = {}
        /\ rejoining' = {} /\ intact' = Mons
    BY <1>2, <1>3, ProcessesKept
  <1>5. Cardinality(K) <= MaxKillable
    <2>1. Cardinality(K) \in Nat /\ MaxKillable \in Int
      BY MonSizes DEF MaxKillable
    <2> QED
      BY <1>1, <2>1
  <1>6. MonTypeOK'
    BY <1>1, <1>2, <1>4 DEF MonInv, MonTypeOK, Points
  <1> QED
    BY <1>1, <1>4, <1>5, <1>6
    DEF MonInv, Places, Rounds, Bounded, Settled, Killed

(* Only the store of a monitor about to be killed is thrown away.          *)
LEMMA StoreKeeps ==
    ASSUME MonInv, UNCHANGED stopping, NEW m \in Mons, ThrashStore(m)
    PROVE  MonInv'
  <1>1. /\ pc = "kill" /\ m \in todo /\ StoreThrash /\ intact' = intact \ {m}
        /\ UNCHANGED <<mon, view, rejoining, pc, toKill, toFreeze, todo>>
    BY DEF ThrashStore, locals, monVars
  <1>2. In("up")' = In("up") /\ In("dead")' = In("dead") /\ In("frozen")' = In("frozen")
    BY <1>1, ProcessesKept
  <1>3. MonTypeOK'
    BY <1>1, <1>2 DEF MonInv, MonTypeOK
  <1>4. todo \subseteq toKill
    BY <1>1 DEF MonInv, Places
  <1> QED
    BY <1>1, <1>2, <1>3, <1>4
    DEF MonInv, Places, Rounds, Bounded, Settled, Killed

(* kill_mon, revive_mon, freeze_mon and unfreeze_mon.                      *)
LEMMA SignalsKeep ==
    ASSUME MonInv, UNCHANGED stopping, NEW m \in Mons,
           KillMon(m) \/ ReviveMon(m) \/ FreezeMon(m) \/ UnfreezeMon(m)
    PROVE  MonInv'
  <1> USE DEF Settled, Killed
  <1>0. MonTypeOK /\ Places /\ Rounds /\ Bounded
    BY DEF MonInv
  <1>1. /\ pc' = pc /\ m \in todo /\ todo' = todo \ {m}
        /\ UNCHANGED <<intact, toKill, toFreeze>>
        /\ \/ /\ pc = "kill" /\ mon' = [mon EXCEPT ![m] = "dead"]
              /\ view' = [view EXCEPT ![m] = {}] /\ rejoining' = rejoining \cup {m}
           \/ /\ pc \in {"revive", "thaw1", "thaw2"} /\ mon' = [mon EXCEPT ![m] = "up"]
              /\ UNCHANGED <<view, rejoining>>
           \/ /\ pc \in {"freeze1", "freeze2"} /\ mon' = [mon EXCEPT ![m] = "frozen"]
              /\ UNCHANGED <<view, rejoining>>
    BY DEF KillMon, ReviveMon, FreezeMon, UnfreezeMon, Goto
  <1>2. Rounds' /\ Bounded'
    <2>1. CASE pc = "kill"
      <3>1. todo \subseteq toKill /\ view \in [Mons -> SUBSET Mons]
        BY <1>0, <2>1 DEF Places, MonTypeOK
      <3> QED
        BY <1>0, <1>1, <2>1, <3>1 DEF Rounds, Bounded
    <2>2. CASE pc # "kill"
      BY <1>0, <1>1, <2>2 DEF Rounds, Bounded
    <2> QED
      BY <2>1, <2>2
  <1>3. toFreeze \subseteq Mons \ toKill /\ In("dead") \subseteq toKill /\ In("frozen") \subseteq toFreeze
    BY <1>0 DEF MonTypeOK
  <1>4. CASE pc = "kill" /\ mon' = [mon EXCEPT ![m] = "dead"]
    <2>1. /\ mon' \in [Mons -> {"up", "dead", "frozen"}]
          /\ In("dead")' = In("dead") \cup {m} /\ In("frozen")' = In("frozen") \ {m}
      BY <1>0, <1>4, ProcessChanged
    <2>2. todo \subseteq toKill /\ In("dead") = toKill \ todo /\ In("frozen") = {}
      BY <1>0, <1>4 DEF Places
    <2>3. MonTypeOK'
      BY <1>0, <1>1, <2>1, <2>2 DEF MonTypeOK
    <2>4. Places'
      BY <1>1, <1>4, <2>1, <2>2 DEF Places
    <2> QED
      BY <1>2, <2>3, <2>4 DEF MonInv
  <1>5. CASE pc \in {"revive", "thaw1", "thaw2"} /\ mon' = [mon EXCEPT ![m] = "up"]
    <2>1. /\ mon' \in [Mons -> {"up", "dead", "frozen"}]
          /\ In("dead")' = In("dead") \ {m} /\ In("frozen")' = In("frozen") \ {m}
      BY <1>0, <1>5, ProcessChanged
    <2>2. MonTypeOK'
      BY <1>0, <1>1, <2>1 DEF MonTypeOK
    <2>3. CASE pc = "revive"
      BY <1>0, <1>1, <2>1, <2>2, <1>2, <2>3 DEF Places, MonInv
    <2>4. CASE pc \in {"thaw1", "thaw2"}
      <3>1. todo \subseteq toFreeze /\ In("frozen") \subseteq todo
        BY <1>0, <2>4 DEF Places
      <3>2. In("dead")' = In("dead")
        BY <1>1, <1>3, <2>1, <3>1
      <3>3. Places'
        BY <1>0, <1>1, <2>1, <2>4, <3>1, <3>2 DEF Places
      <3> QED
        BY <1>2, <2>2, <3>3 DEF MonInv
    <2> QED
      BY <1>5, <2>3, <2>4
  <1>6. CASE pc \in {"freeze1", "freeze2"} /\ mon' = [mon EXCEPT ![m] = "frozen"]
    <2>1. /\ mon' \in [Mons -> {"up", "dead", "frozen"}]
          /\ In("frozen")' = In("frozen") \cup {m} /\ In("dead")' = In("dead") \ {m}
      BY <1>0, <1>6, ProcessChanged
    <2>2. m \in toFreeze /\ todo \subseteq toFreeze
      BY <1>0, <1>1, <1>6 DEF Places
    <2>3. In("dead")' = In("dead")
      BY <1>3, <2>1, <2>2
    <2>4. MonTypeOK'
      BY <1>0, <1>1, <2>1, <2>2, <2>3 DEF MonTypeOK
    <2>5. Places'
      BY <1>0, <1>1, <1>6, <2>2, <2>3 DEF Places
    <2> QED
      BY <1>2, <2>4, <2>5 DEF MonInv
  <1> QED
    BY <1>1, <1>4, <1>5, <1>6

(* The ends of the for loops.                                              *)
LEMMA LoopEndsKeep ==
    ASSUME MonInv, UNCHANGED stopping,
           \/ LoopEnds("kill", "freeze1", toFreeze)
           \/ LoopEnds("freeze1", "thaw1", toFreeze)
           \/ LoopEnds("thaw1", IF MaintainQuorum THEN "waitKilled" ELSE "revive",
                                IF MaintainQuorum THEN {} ELSE toKill)
           \/ LoopEnds("checkKilled", "revive", toKill)
           \/ LoopEnds("revive", "freeze2", toFreeze)
           \/ LoopEnds("freeze2", "thaw2", toFreeze)
           \/ LoopEnds("thaw2", "waitAll", {})
           \/ LoopEnds("checkAll", "top", {})
    PROVE  MonInv'
  <1> USE DEF Points, Terminal, Settled, Killed
  <1>0. /\ MonTypeOK /\ Places /\ Rounds /\ Bounded
        /\ toKill \in SUBSET Mons /\ toFreeze \in SUBSET Mons
        /\ In("frozen") \subseteq toFreeze
    BY DEF MonInv, MonTypeOK
  <1>1. ASSUME NEW p, NEW q, NEW S, LoopEnds(p, q, S)
        PROVE  /\ pc = p /\ todo = {} /\ Goto(q, S)
               /\ UNCHANGED <<monVars, intact, stopping, toKill, toFreeze>>
    BY <1>1 DEF LoopEnds
  <1>2. CASE LoopEnds("kill", "freeze1", toFreeze)
    <2>1. In("dead") = toKill /\ In("frozen") = {}
      BY <1>0, <1>1, <1>2 DEF Places
    <2> QED
      BY <1>0, <1>1, <1>2, <2>1, MovesOn
  <1>3. CASE LoopEnds("freeze1", "thaw1", toFreeze)
    <2>1. In("dead") = toKill
      BY <1>0, <1>1, <1>3 DEF Places
    <2> QED
      BY <1>0, <1>1, <1>3, <2>1, MovesOn
  <1>4. CASE LoopEnds("thaw1", IF MaintainQuorum THEN "waitKilled" ELSE "revive",
                               IF MaintainQuorum THEN {} ELSE toKill)
    <2>1. pc = "thaw1" /\ todo = {} /\ UNCHANGED <<monVars, intact, stopping, toKill, toFreeze>>
      BY <1>4 DEF LoopEnds
    <2>2. In("dead") = toKill /\ In("frozen") = {}
      BY <1>0, <2>1 DEF Places
    <2>3. CASE MaintainQuorum
      <3>1. Goto("waitKilled", {})
        BY <1>4, <2>3 DEF LoopEnds
      <3> QED
        BY <1>0, <2>1, <2>2, <2>3, <3>1, MovesOn
    <2>4. CASE ~MaintainQuorum
      <3>1. Goto("revive", toKill)
        BY <1>4, <2>4 DEF LoopEnds
      <3> QED
        BY <1>0, <2>1, <2>2, <3>1, MovesOn
    <2> QED
      BY <2>3, <2>4
  <1>5. CASE LoopEnds("checkKilled", "revive", toKill)
    <2>1. In("dead") = toKill /\ In("frozen") = {}
      BY <1>0, <1>1, <1>5 DEF Places
    <2> QED
      BY <1>0, <1>1, <1>5, <2>1, MovesOn
  <1>6. CASE LoopEnds("revive", "freeze2", toFreeze)
    <2>1. In("dead") = {}
      BY <1>0, <1>1, <1>6 DEF Places
    <2> QED
      BY <1>0, <1>1, <1>6, <2>1, MovesOn
  <1>7. CASE LoopEnds("freeze2", "thaw2", toFreeze)
    <2>1. In("dead") = {}
      BY <1>0, <1>1, <1>7 DEF Places
    <2> QED
      BY <1>0, <1>1, <1>7, <2>1, MovesOn
  <1>8. CASE LoopEnds("thaw2", "waitAll", {})
    <2>1. In("dead") = {} /\ In("frozen") = {}
      BY <1>0, <1>1, <1>8 DEF Places
    <2>2. In("up") = Mons
      BY <1>0, <2>1, Partition
    <2> QED
      BY <1>0, <1>1, <1>8, <2>1, <2>2, MovesOn
  <1>9. CASE LoopEnds("checkAll", "top", {})
    <2>1. In("up") = Mons /\ rejoining = {}
      BY <1>0, <1>1, <1>9 DEF Places, Rounds
    <2> QED
      BY <1>0, <1>1, <1>9, <2>1, MovesOn
  <1> QED
    BY <1>2, <1>3, <1>4, <1>5, <1>6, <1>7, <1>8, <1>9

(* A monitor that leaves its quorum has been in one.                       *)
LEMMA LeaveKeeps ==
    ASSUME MonInv, NEW m \in Mons, LeaveQuorum(m) PROVE MonInv'
  <1>1. /\ view' = [view EXCEPT ![m] = {}]
        /\ UNCHANGED <<mon, rejoining, intact, stopping, pc, toKill, toFreeze, todo>>
    BY DEF LeaveQuorum, locals
  <1>2. In("up")' = In("up") /\ In("dead")' = In("dead") /\ In("frozen")' = In("frozen")
    BY <1>1, ProcessesKept
  <1>3. MonTypeOK'
    BY <1>1, <1>2 DEF MonInv, MonTypeOK
  <1>4. Rounds'
    BY <1>1 DEF MonInv, MonTypeOK, Rounds
  <1> QED
    BY <1>1, <1>2, <1>3, <1>4 DEF MonInv, Places, Bounded

(* An election at any point of an iteration.                               *)
LEMMA ElectionKeeps ==
    ASSUME MonInv, Election PROVE MonInv'
  <1> USE DEF Settled, Killed
  <1>0. /\ MonTypeOK /\ Places /\ Rounds /\ Bounded
        /\ UNCHANGED <<mon, stopping, pc, toKill, toFreeze, todo>>
        /\ toKill \in SUBSET Mons /\ intact \subseteq Mons
        /\ view \in [Mons -> SUBSET Mons]
    BY DEF MonInv, MonTypeOK, Election, locals
  <1>1. In("up")' = In("up") /\ In("dead")' = In("dead") /\ In("frozen")' = In("frozen")
    BY <1>0, ProcessesKept
  <1>2. PICK Q \in SUBSET Mons :
          /\ view' = [m \in Mons |-> IF m \in Q THEN Q ELSE view[m]]
          /\ rejoining' = rejoining \ Q
          /\ intact' = intact \cup (IF pc = "kill" THEN Q \ todo ELSE Q)
    BY DEF Election, In
  <1>3. MonTypeOK'
    BY <1>0, <1>1, <1>2 DEF MonTypeOK
  <1>4. Places'
    BY <1>0, <1>1 DEF Places
  <1>5. Bounded'
    BY <1>0, <1>2 DEF Bounded
  <1>6. \A m \in Mons : view'[m] # {} => m \notin rejoining'
    BY <1>0, <1>2 DEF Rounds
  <1>7. Rounds'
    BY <1>0, <1>2, <1>6 DEF Rounds
  <1> QED
    BY <1>3, <1>4, <1>5, <1>7 DEF MonInv

(* A step that touches nothing the invariant speaks of but stopping.       *)
LEMMA JoinKeeps ==
    ASSUME MonInv, stopping' \in BOOLEAN, UNCHANGED <<monVars, intact, locals>>
    PROVE  MonInv'
  <1>0. UNCHANGED <<mon, view, rejoining, intact, pc, toKill, toFreeze, todo>>
    BY DEF monVars, locals
  <1>1. In("up")' = In("up") /\ In("dead")' = In("dead") /\ In("frozen")' = In("frozen")
    BY <1>0, ProcessesKept
  <1>2. MonTypeOK'
    BY <1>0, <1>1 DEF MonInv, MonTypeOK
  <1> QED
    BY <1>0, <1>1, <1>2 DEF MonInv, Places, Rounds, Bounded

LEMMA MonStep == MonInv /\ [Next]_vars => MonInv'
  <1> SUFFICES ASSUME MonInv, [Next]_vars PROVE MonInv'
    OBVIOUS
  <1>1. CASE Proceeds
    <2>1. UNCHANGED stopping /\ (Control \/ \E m \in Mons : OnMon(m))
      BY <1>1 DEF Proceeds
    <2>2. CASE Control
      <3>1. CASE \/ WaitTimesOut("waitTop", N) \/ WaitTimesOut("waitAll", N)
                 \/ WaitTimesOut("waitKilled", N - Cardinality(toKill))
        BY <2>1, <3>1, StopsKeep DEF WaitTimesOut
      <3> QED
        BY <2>1, <2>2, <3>1, LoopTopKeeps, WaitsKeep, ChooseKeeps, LoopEndsKeep DEF Control
    <2>3. ASSUME NEW m \in Mons, OnMon(m) PROVE MonInv'
      BY <2>1, <2>3, StoreKeeps, SignalsKeep, ChecksKeep DEF OnMon
    <2> QED
      BY <2>1, <2>2, <2>3
  <1>2. CASE CommandRaises
    BY <1>2, StopsKeep DEF CommandRaises
  <1>3. CASE Election
    BY <1>3, ElectionKeeps
  <1>4. CASE Join
    BY <1>4, JoinKeeps DEF Join
  <1>5. CASE UNCHANGED vars
    BY <1>5, JoinKeeps DEF vars, MonInv, MonTypeOK
  <1>6. ASSUME NEW m \in Mons, LeaveQuorum(m) PROVE MonInv'
    BY <1>6, LeaveKeeps
  <1> QED
    BY <1>1, <1>2, <1>3, <1>4, <1>5, <1>6 DEF Next

-----------------------------------------------------------------------------
(* MonInv holds in every reachable state of do_thrash and the monitors.    *)
THEOREM MonInvariance == Spec => []MonInv
  BY MonInitial, MonStep, PTL DEF Spec

(* Types hold; only monitors chosen by do_thrash are dead or stopped.      *)
THEOREM MonTypeCorrect == Spec => []MonTypeOK
  <1>1. MonInv => MonTypeOK
    BY DEF MonInv
  <1> QED
    BY <1>1, MonInvariance, PTL

(* No iteration of do_thrash ends, and none begins to kill, before every   *)
(* monitor killed earlier has been in a quorum again, in whatever order    *)
(* the monitors leave quorums and hold elections.                          *)
THEOREM RoundsAlwaysWhole == Spec => []RoundsAreWhole
  <1>1. MonInv => RoundsAreWhole
    BY DEF MonInv, Places, Rounds, Settled, RoundsAreWhole
  <1> QED
    BY <1>1, MonInvariance, PTL

(* Every iteration of do_thrash begins with all monitors up, and do_thrash *)
(* returns with all of them up.                                            *)
THEOREM MonsAlwaysLeftUp == Spec => []LeavesMonsUp
  <1>1. MonInv => LeavesMonsUp
    BY DEF MonInv, Places, Settled, LeavesMonsUp
  <1> QED
    BY <1>1, MonInvariance, PTL

(* max_killable is right: with maintain_quorum the kills alone never cost  *)
(* the majority, for every number of monitors.                             *)
THEOREM KillsAlwaysKeepMajority == Spec => []KillsKeepMajority
  <1>1. ASSUME MonInv, MaintainQuorum PROVE Majority(Mons \ In("dead"))
    <2>1. /\ toKill \in SUBSET Mons /\ In("dead") \subseteq toKill
          /\ Cardinality(toKill) <= MaxKillable
      BY <1>1 DEF MonInv, MonTypeOK, Bounded
    <2>2. Majority(Mons \ toKill)
      BY <1>1, <2>1, KillableLeavesMajority
    <2> QED
      BY <2>1, <2>2, Majorities
  <1>2. MonInv => KillsKeepMajority
    BY <1>1 DEF KillsKeepMajority
  <1> QED
    BY <1>2, MonInvariance, PTL

(* A majority of the stores is intact at all times, so thrash_store never  *)
(* costs the cluster its data.                                             *)
THEOREM IntactAlwaysMajority == Spec => []IntactMajority
  <1>1. ASSUME MonInv PROVE Majority(intact)
    <2>1. /\ toKill \in SUBSET Mons /\ intact \in SUBSET Mons
          /\ Mons \ toKill \subseteq intact /\ Cardinality(toKill) <= MaxKillable
          /\ StoreThrash \/ intact = Mons
      BY <1>1 DEF MonInv, MonTypeOK, Bounded
    <2>2. CASE intact = Mons
      BY <2>2, Majorities
    <2>3. CASE StoreThrash
      <3>1. MaintainQuorum
        BY <2>3, MonAssumption
      <3>2. Majority(Mons \ toKill)
        BY <2>1, <3>1, KillableLeavesMajority
      <3> QED
        BY <2>1, <3>2, Majorities
    <2> QED
      BY <2>1, <2>2, <2>3
  <1>2. MonInv => IntactMajority
    BY <1>1 DEF IntactMajority
  <1> QED
    BY <1>2, MonInvariance, PTL

=============================================================================

------------------------- MODULE MdsThrasherProofs -------------------------
(***************************************************************************)
(* Proofs about MdsThrasher, for every number of filesystems, ranks and    *)
(* daemons, every max_thrash and all weights.                              *)
(***************************************************************************)
EXTENDS MdsThrasher, TLAPS

(* Most leaves are first-order reasoning, which Zenon does fastest. *)
USE ZenonT(30)

-----------------------------------------------------------------------------
(* The inductive invariant.                                                *)

Iterating == {"iter", "standby"} \cup Down

MdsTypes ==
    /\ cluster \in Clusters
    /\ proc \in [Mds -> {"dead", "booting", "up"}]
    /\ holder \in [Fs -> [Ranks -> Mds \cup {None}]]
    /\ in \in [Fs -> SUBSET Ranks]
    /\ leaving \in [Fs -> SUBSET Ranks]
    /\ standby \subseteq Mds /\ laggy \subseteq Mds
    /\ max \in [Fs -> 1 .. MaxMds]
    /\ pc \in [Fs -> {"top", "cut", "stable"} \cup Iterating \cup Terminal]
    /\ todo \in [Fs -> SUBSET (Mds \X Ranks)]
    /\ cut \in [Fs -> SUBSET Ranks]
    /\ victim \in [Fs -> (Mds \cup {None}) \X Ranks]
    /\ stopping \in [Fs -> BOOLEAN]
    /\ \A f \in Fs : pc[f] \in Down \cup {"standby"} => victim[f][1] \in Mds

(* The fsmap: a daemon is in one place of it, a rank that is held exists,  *)
(* a laggy daemon is dead and holds a rank, one that boots is not in it.   *)
MapSound ==
    /\ \A f, g \in Fs, q, r \in Ranks :
          holder[f][q] # None /\ holder[f][q] = holder[g][r] => f = g /\ q = r
    /\ \A f \in Fs, r \in Ranks : holder[f][r] \notin standby
    /\ \A f \in Fs, r \in Ranks : holder[f][r] # None => r \in in[f]
    /\ \A m \in laggy : proc[m] = "dead" /\ \E f \in Fs, r \in Ranks : holder[f][r] = m
    /\ \A m \in Mds : proc[m] = "booting" => ~InMap(m)

(* While a thrasher goes through the ranks its filesystem does not grow.   *)
NotGrowing ==
    \A f \in Fs : pc[f] \in Iterating => Cardinality(in[f] \ leaving[f]) >= max[f]

(* What the thrasher of f believes about daemons and their ranks.          *)
Claims(f) == IF pc[f] \in Down THEN todo[f] \cup {victim[f]}
             ELSE IF pc[f] \in Iterating THEN todo[f] ELSE {}

OutOfMap(m) == proc[m] = "dead" /\ ~InMap(m)

(* A belief is true, or the rank is gone, or the daemon lost it.           *)
ClaimsSound ==
    \A f \in Fs : \A i \in Claims(f) :
        i[2] \notin in[f] \/ holder[f][i[2]] = i[1] \/ OutOfMap(i[1])

(* What is revived is dead and has been replaced.                          *)
ReviveSound == \A f \in Fs : pc[f] = "revive" => OutOfMap(victim[f][1])

(* Two beliefs that can lead to a revival are about two daemons.           *)
Strong(f, i) == i[2] \in in[f] \/ (pc[f] = "revive" /\ i = victim[f])
ClaimsDiffer ==
    \A f, g \in Fs : \A i \in Claims(f), j \in Claims(g) :
        Strong(f, i) /\ Strong(g, j) /\ i[1] = j[1] => f = g /\ i = j

NotAgain == \A f \in Fs : pc[f] \in Down => victim[f] \notin todo[f]

(* A filesystem of one rank never changes.                                 *)
OneRank ==
    MaxMds = 1 => \A f \in Fs : in[f] = Ranks /\ leaving[f] = {} /\ cut[f] = {}

MdsInv == /\ MdsTypes /\ MapSound /\ NotGrowing /\ ClaimsSound /\ ReviveSound
          /\ ClaimsDiffer /\ NotAgain /\ OneRank /\ DeadAreVictims
-----------------------------------------------------------------------------
(* Facts about the cluster.                                                *)

LEMMA ClusterFacts ==
    ASSUME MdsTypes
    PROVE  /\ MaxMds \in Nat \ {0} /\ None \notin Mds
           /\ Ranks = 0 .. MaxMds - 1 /\ UseWeights \in BOOLEAN
  <1>1. cluster \in Clusters
    BY DEF MdsTypes
  <1>2. MaxMds \in Nat \ {0} /\ UseWeights \in BOOLEAN
    BY <1>1, MdsAssumption DEF MaxMds, UseWeights
  <1>3. None \notin Mds
    BY <1>1, MdsAssumption DEF AllMds, Mds
  <1> QED
    BY <1>2, <1>3 DEF Ranks

SameCluster == /\ Mds' = Mds /\ Fs' = Fs /\ Ranks' = Ranks /\ MaxMds' = MaxMds
               /\ UseWeights' = UseWeights

LEMMA ClusterKept ==
    ASSUME UNCHANGED cluster
    PROVE  SameCluster
  BY DEF SameCluster, Mds, Fs, Ranks, MaxMds, UseWeights

(* A map that is sound part by part.                                       *)
LEMMA MapSoundNext ==
    ASSUME SameCluster,
           \A f, g \in Fs, q, r \in Ranks :
               holder'[f][q] # None /\ holder'[f][q] = holder'[g][r] => f = g /\ q = r,
           \A f \in Fs, r \in Ranks :
               holder'[f][r] \notin standby' /\ (holder'[f][r] # None => r \in in'[f]),
           \A m \in laggy' : /\ proc'[m] = "dead"
                            /\ \E f \in Fs, r \in Ranks : holder'[f][r] = m,
           \A m \in Mds : proc'[m] = "booting" => ~InMap(m)'
    PROVE  MapSound'
  BY SMT DEF MapSound, SameCluster

(* What a step that leaves the map alone keeps of it.                      *)
LEMMA MapLasts ==
    ASSUME SameCluster, MapSound, UNCHANGED <<proc, holder, in, standby, laggy>>
    PROVE  MapSound' /\ \A m : (InMap(m)' <=> InMap(m)) /\ (OutOfMap(m)' <=> OutOfMap(m))
  <1>1. \A m : InMap(m)' <=> InMap(m)
    BY DEF InMap, SameCluster
  <1>2. MapSound'
    BY <1>1, SMT DEF MapSound, SameCluster
  <1> QED
    BY <1>1, <1>2 DEF OutOfMap

LEMMA OneRankLasts ==
    ASSUME SameCluster, OneRank, UNCHANGED <<in, leaving, cut>>
    PROVE  OneRank'
  BY SMT DEF OneRank, SameCluster

LEMMA MdsInitial == MdsInit => MdsInv
  <1> SUFFICES ASSUME MdsInit PROVE MdsInv
    OBVIOUS
  <1>1. MaxMds \in Nat \ {0} /\ None \notin Mds
    <2>1. cluster \in Clusters
      BY DEF MdsInit
    <2> QED
      BY <2>1, MdsAssumption DEF MaxMds, Mds, AllMds
  <1>2. MdsTypes
    BY <1>1, SMT DEF MdsInit, MdsTypes, NoVictim, Ranks, Iterating, Down
  <1>3. MapSound
    BY <1>1, SMT DEF MdsInit, MapSound
  <1>4. NotGrowing /\ ClaimsSound /\ ReviveSound /\ ClaimsDiffer /\ NotAgain
    BY DEF MdsInit, NotGrowing, ClaimsSound, ReviveSound, ClaimsDiffer, NotAgain, Claims,
           Iterating, Down
  <1>5. OneRank /\ DeadAreVictims
    BY DEF MdsInit, OneRank, DeadAreVictims, Down
  <1> QED
    BY <1>2, <1>3, <1>4, <1>5 DEF MdsInv

-----------------------------------------------------------------------------
(* Steps of a thrasher that leave the map and the daemons as they are.     *)

(* A thrasher that believes no more than before, and begins to revive only *)
(* what has been replaced, keeps every belief sound.                       *)
LEMMA Forgets ==
    ASSUME MdsInv, UNCHANGED <<cluster, proc, holder, in, standby, laggy>>,
           \A g \in Fs : Claims(g)' \subseteq Claims(g),
           \A g \in Fs : pc'[g] = "revive" =>
                             Strong(g, victim'[g]) /\ OutOfMap(victim'[g][1])
    PROVE  MapSound' /\ ClaimsSound' /\ ClaimsDiffer' /\ ReviveSound'
  <1> SameCluster
    BY ClusterKept
  <1> USE DEF SameCluster, MdsInv
  <1>2. MapSound' /\ \A m : (InMap(m)' <=> InMap(m)) /\ (OutOfMap(m)' <=> OutOfMap(m))
    BY MapLasts
  <1>4. ClaimsSound'
    BY <1>2 DEF ClaimsSound
  <1>5. ASSUME NEW g \in Fs, NEW i, Strong(g, i)' PROVE Strong(g, i)
    BY <1>5 DEF Strong
  <1>6. ClaimsDiffer'
    BY <1>5, SMT DEF ClaimsDiffer
  <1>7. ReviveSound'
    BY <1>2 DEF ReviveSound
  <1> QED
    BY <1>2, <1>4, <1>6, <1>7

(* Moves of a thrasher between its waits.                                  *)
Moves(f) == Stop(f) \/ CutEnds(f) \/ SkipMds(f) \/ IterEnds(f) \/ SeesCrash(f)
            \/ SeesTakeover(f) \/ SeesStandby(f) \/ ThrasherRaises(f)

(* A rank that was taken over was held by a daemon that is now dead and in *)
(* no map.                                                                 *)
LEMMA Replaced ==
    ASSUME MdsInv, NEW f \in Fs, pc[f] = "takeover",
           holder[f][victim[f][2]] \notin {None, victim[f][1]}
    PROVE  Strong(f, victim[f]) /\ OutOfMap(victim[f][1])
  <1>1. victim[f] \in Claims(f) /\ victim[f][2] \in Ranks
    BY DEF MdsInv, MdsTypes, Claims, Down
  <1>2. victim[f][2] \in in[f]
    BY <1>1 DEF MdsInv, MapSound
  <1> QED
    BY <1>1, <1>2 DEF MdsInv, ClaimsSound, Strong

LEMMA MovesKeep ==
    ASSUME MdsInv, NEW f \in Fs, Moves(f), UNCHANGED cluster
    PROVE  MdsInv'
  <1> SameCluster
    BY ClusterKept
  <1> USE DEF SameCluster, MdsInv, fsmap
  <1>1. UNCHANGED <<proc, holder, in, leaving, standby, laggy, max, cut, stopping>>
    BY DEF Moves, Stop, CutEnds, SkipMds, IterEnds, SeesCrash, SeesTakeover, SeesStandby,
           ThrasherRaises
  <1>2. \A g \in Fs : g # f => pc'[g] = pc[g] /\ todo'[g] = todo[g] /\ victim'[g] = victim[g]
    BY DEF Moves, Stop, CutEnds, SkipMds, IterEnds, SeesCrash, SeesTakeover, SeesStandby,
           ThrasherRaises, Goto, MdsTypes
  <1>3. \/ /\ todo'[f] = todo[f] /\ victim'[f] = victim[f]
           /\ \/ pc[f] \notin Terminal /\ pc'[f] = "raised"
              \/ pc[f] = "top" /\ pc'[f] = "done"
              \/ pc[f] = "cut" /\ pc'[f] = "stable"
              \/ pc[f] = "iter" /\ pc'[f] = "top"
              \/ pc[f] = "crash" /\ pc'[f] = "takeover"
              \/ /\ pc[f] = "takeover" /\ pc'[f] = "revive"
                 /\ holder[f][victim[f][2]] \notin {None, victim[f][1]}
        \/ pc[f] = "iter" /\ pc'[f] = "iter" /\ todo'[f] \subseteq todo[f] /\ victim'[f] = victim[f]
        \/ pc[f] = "standby" /\ pc'[f] = "iter" /\ todo'[f] = todo[f] /\ victim'[f] = NoVictim
    BY SMT DEF Moves, Stop, CutEnds, SkipMds, IterEnds, SeesCrash, SeesTakeover, SeesStandby,
           ThrasherRaises, Goto, MdsTypes
  <1>4. MdsTypes'
    <2>1. \/ pc' = pc
          \/ \E p \in {"raised", "done", "stable", "top", "takeover", "revive", "iter"} :
                 pc' = [pc EXCEPT ![f] = p]
      BY DEF Moves, Stop, CutEnds, SkipMds, IterEnds, SeesCrash, SeesTakeover, SeesStandby,
             ThrasherRaises, Goto
    <2>2. todo' = todo \/ \E i \in todo[f] : todo' = [todo EXCEPT ![f] = @ \ {i}]
      BY DEF Moves, Stop, CutEnds, SkipMds, IterEnds, SeesCrash, SeesTakeover, SeesStandby,
             ThrasherRaises
    <2>3. victim' = victim \/ victim' = [victim EXCEPT ![f] = NoVictim]
      BY DEF Moves, Stop, CutEnds, SkipMds, IterEnds, SeesCrash, SeesTakeover, SeesStandby,
             ThrasherRaises
    <2>5. pc' \in [Fs -> {"top", "cut", "stable"} \cup Iterating \cup Terminal]
      BY <2>1 DEF MdsTypes, Iterating, Down, Terminal
    <2>6. todo' \in [Fs -> SUBSET (Mds \X Ranks)]
      <3> DEFINE S == SUBSET (Mds \X Ranks)
      <3>1. todo \in [Fs -> S] /\ \A i : todo[f] \ {i} \in S
        BY DEF MdsTypes
      <3> HIDE DEF S
      <3>2. todo' \in [Fs -> S]
        BY <2>2, <3>1
      <3> QED
        BY <3>2 DEF S
    <2>7. victim' \in [Fs -> (Mds \cup {None}) \X Ranks]
      <3>1. NoVictim \in (Mds \cup {None}) \X Ranks
        BY ClusterFacts, SMT DEF NoVictim
      <3> QED
        BY <2>3, <3>1 DEF MdsTypes
    <2>4. \A g \in Fs : pc'[g] \in Down \cup {"standby"} => victim'[g][1] \in Mds
      BY <1>2, <1>3 DEF MdsTypes, Down, Terminal
    <2> QED
      BY <1>1, <2>4, <2>5, <2>6, <2>7 DEF MdsTypes
  <1>5. \A g \in Fs : Claims(g)' \subseteq Claims(g)
    BY <1>2, <1>3 DEF Claims, Down, Iterating
  <1>6. \A g \in Fs : pc'[g] = "revive" => Strong(g, victim'[g]) /\ OutOfMap(victim'[g][1])
    <2>1. \A g \in Fs : pc[g] = "revive" => Strong(g, victim[g]) /\ OutOfMap(victim[g][1])
      BY DEF ReviveSound, Strong
    <2> QED
      BY <1>2, <1>3, <2>1, Replaced
  <1>7. MapSound' /\ ClaimsSound' /\ ClaimsDiffer' /\ ReviveSound'
    BY <1>1, <1>5, <1>6, Forgets
  <1>8. NotGrowing'
    BY <1>1, <1>2, <1>3 DEF NotGrowing, Iterating, Down
  <1>9. NotAgain'
    BY <1>2, <1>3 DEF NotAgain, Down
  <1>10. OneRank'
    BY <1>1, <1>2, <1>3, SMT DEF OneRank, Down, GetRanks
  <1>11. DeadAreVictims'
    BY <1>1, <1>2, <1>3, SMT DEF DeadAreVictims, Down
  <1> QED
    BY <1>4, <1>7, <1>8, <1>9, <1>10, <1>11

(* The task stops a thrasher.                                              *)
LEMMA JoinsKeep ==
    ASSUME MdsInv, NEW f \in Fs, JoinNext(f), UNCHANGED cluster
    PROVE  MdsInv'
  <1> SameCluster
    BY ClusterKept
  <1> USE DEF SameCluster, MdsInv, fsmap, locals, JoinNext
  <1>1. MdsTypes'
    BY DEF MdsTypes
  <1>2. MapSound' /\ ClaimsSound' /\ ClaimsDiffer' /\ ReviveSound'
    <2>1. \A g \in Fs : Claims(g)' = Claims(g)
      BY DEF Claims
    <2>2. \A g \in Fs : pc[g] = "revive" => Strong(g, victim[g]) /\ OutOfMap(victim[g][1])
      BY DEF ReviveSound, Strong
    <2> QED
      BY <2>1, <2>2, Forgets
  <1>3. NotGrowing' /\ NotAgain' /\ OneRank' /\ DeadAreVictims'
    BY SMT DEF NotGrowing, NotAgain, OneRank, DeadAreVictims, GetRanks
  <1> QED
    BY <1>1, <1>2, <1>3

-----------------------------------------------------------------------------
(* Resizing.                                                               *)

LEMMA ResizesKeep ==
    ASSUME MdsInv, NEW f \in Fs, ThrashMaxMds(f) \/ Deactivate(f), UNCHANGED cluster
    PROVE  MdsInv'
  <1> USE DEF MdsInv, SameCluster
  <1> SameCluster /\ None \notin Mds
    BY ClusterKept, ClusterFacts
  <1>1. /\ UNCHANGED <<proc, holder, in, standby, laggy, todo, victim, stopping>>
        /\ pc[f] \in {"top", "cut"}
        /\ \E p \in {"cut", "raised"} : pc' = [pc EXCEPT ![f] = p] \/ (p = pc[f] /\ pc' = pc)
    BY DEF ThrashMaxMds, Deactivate, Goto
  <1>2. /\ pc' \in [Fs -> {"top", "cut", "stable"} \cup Iterating \cup Terminal]
        /\ pc'[f] \in {"cut", "raised"} /\ \A g \in Fs : g # f => pc'[g] = pc[g]
    <2> DEFINE P == {"top", "cut", "stable"} \cup Iterating \cup Terminal
    <2>1. pc \in [Fs -> P] /\ "cut" \in P /\ "raised" \in P
      BY DEF MdsTypes, Terminal
    <2> HIDE DEF P
    <2>2. pc' \in [Fs -> P] /\ pc'[f] \in {"cut", "raised"} /\ \A g \in Fs : g # f => pc'[g] = pc[g]
      BY <1>1, <2>1
    <2> QED
      BY <2>2 DEF P
  <1>3. /\ max' \in [Fs -> 1 .. MaxMds] /\ cut' \in [Fs -> SUBSET Ranks]
        /\ leaving' \in [Fs -> SUBSET Ranks]
        /\ \A g \in Fs : g # f => max'[g] = max[g] /\ leaving'[g] = leaving[g] /\ cut'[g] = cut[g]
    <2>1. CASE ThrashMaxMds(f)
      <3>1. PICK n \in 1 .. MaxMds, K \in SUBSET Ranks :
                max' = [max EXCEPT ![f] = n] /\ cut' = [cut EXCEPT ![f] = K]
        <4>1. \A n \in 1 .. MaxMds : \A K \in CutRanks(f, n) : K \in SUBSET Ranks
          BY ClusterFacts, SMT DEF CutRanks, MdsTypes
        <4> QED
          BY <2>1, <4>1 DEF ThrashMaxMds
      <3> QED
        BY <2>1, <3>1 DEF ThrashMaxMds, MdsTypes
    <2>2. CASE Deactivate(f)
      <3>1. PICK r \in cut[f] :
                /\ cut' = [cut EXCEPT ![f] = @ \ {r}]
                /\ leaving' = leaving \/ leaving' = [leaving EXCEPT ![f] = @ \cup {r}]
        BY <2>2 DEF Deactivate
      <3>2. max' = max /\ r \in Ranks
        BY <2>2 DEF Deactivate, MdsTypes
      <3> DEFINE X == SUBSET Ranks
      <3>3. /\ cut \in [Fs -> X] /\ leaving \in [Fs -> X]
            /\ cut[f] \ {r} \in X /\ leaving[f] \cup {r} \in X
        BY <3>2 DEF MdsTypes
      <3> HIDE DEF X
      <3>4. cut' \in [Fs -> X] /\ \A g \in Fs : g # f => cut'[g] = cut[g]
        BY <3>1, <3>3
      <3>5. leaving' \in [Fs -> X] /\ \A g \in Fs : g # f => leaving'[g] = leaving[g]
        BY <3>1, <3>3
      <3> QED
        BY <3>2, <3>4, <3>5 DEF MdsTypes, X
    <2> QED
      BY <2>1, <2>2
  <1>4. MdsTypes'
    BY <1>1, <1>2, <1>3 DEF MdsTypes, Down
  <1>5. \A g \in Fs : Claims(g)' \subseteq Claims(g)
    BY <1>1, <1>2 DEF Claims, Down, Iterating
  <1>6. \A g \in Fs : pc'[g] = "revive" => Strong(g, victim'[g]) /\ OutOfMap(victim'[g][1])
    BY <1>1, <1>2 DEF ReviveSound, Strong
  <1>7. MapSound' /\ ClaimsSound' /\ ClaimsDiffer' /\ ReviveSound'
    BY <1>1, <1>5, <1>6, Forgets
  <1>8. NotGrowing' /\ NotAgain'
    BY <1>1, <1>2, <1>3 DEF NotGrowing, NotAgain, Iterating, Down
  <1>9. OneRank'
    <2> SUFFICES ASSUME MaxMds = 1 PROVE FALSE
      BY DEF OneRank
    <2>1. max[f] = 1 /\ cut[f] = {}
      BY SMT DEF MdsTypes, OneRank
    <2> QED
      BY <2>1, SMT DEF ThrashMaxMds, Deactivate
  <1>10. DeadAreVictims'
    BY <1>1, <1>2, SMT DEF DeadAreVictims, Down
  <1> QED
    BY <1>4, <1>7, <1>8, <1>9, <1>10

(* The loop begins, in a filesystem that has all its ranks.                *)
LEMMA IteratesKeep ==
    ASSUME MdsInv, NEW f \in Fs, KeepMaxMds(f) \/ WaitForStable(f), UNCHANGED cluster,
           Cardinality(in[f] \ leaving[f]) >= max[f]
    PROVE  MdsInv'
  <1> USE DEF MdsInv, SameCluster
  <1> SameCluster /\ None \notin Mds
    BY ClusterKept, ClusterFacts
  <1>1. /\ UNCHANGED <<proc, holder, in, leaving, standby, laggy, max, cut, victim, stopping>>
        /\ pc[f] \in {"top", "stable"} /\ pc' = [pc EXCEPT ![f] = "iter"]
    BY DEF KeepMaxMds, WaitForStable, Goto, fsmap
  <1>2. PICK S \in SUBSET GetRanks(f) : todo' = [todo EXCEPT ![f] = S]
    BY DEF KeepMaxMds, WaitForStable, Iterates
  <1>3. \A i \in S : i = <<i[1], i[2]>> /\ i[1] \in Mds /\ i[2] \in Ranks /\ holder[f][i[2]] = i[1]
    BY <1>2, SMT DEF GetRanks
  <1>4. /\ pc' \in [Fs -> {"top", "cut", "stable"} \cup Iterating \cup Terminal]
        /\ pc'[f] = "iter" /\ \A g \in Fs : g # f => pc'[g] = pc[g]
    BY <1>1 DEF MdsTypes, Iterating
  <1>5. /\ todo' \in [Fs -> SUBSET (Mds \X Ranks)]
        /\ todo'[f] = S /\ \A g \in Fs : g # f => todo'[g] = todo[g]
    <2> DEFINE X == SUBSET (Mds \X Ranks)
    <2>1. todo \in [Fs -> X] /\ S \in X
      BY <1>2 DEF MdsTypes, GetRanks
    <2> HIDE DEF X
    <2>2. todo' \in [Fs -> X]
      BY <1>2, <2>1
    <2> QED
      BY <1>2, <2>1, <2>2 DEF X
  <1>6. MdsTypes'
    BY <1>1, <1>4, <1>5 DEF MdsTypes, Down
  <1>7. Claims(f)' = S /\ \A g \in Fs : g # f => Claims(g)' = Claims(g)
    BY <1>1, <1>4, <1>5 DEF Claims, Down, Iterating
  <1>8. \A m : (InMap(m)' <=> InMap(m)) /\ (OutOfMap(m)' <=> OutOfMap(m))
    BY <1>1 DEF InMap, OutOfMap
  <1>9. MapSound' /\ ReviveSound'
    <2>1. MapSound'
      BY <1>1, MapLasts
    <2> QED
      BY <1>1, <1>4, <1>8, <2>1 DEF ReviveSound
  <1>10. ClaimsSound'
    BY <1>1, <1>3, <1>7, <1>8, SMT DEF ClaimsSound
  <1>11. ClaimsDiffer'
    <2>1. ASSUME NEW g \in Fs, g # f, NEW i \in S, NEW j \in Claims(g), Strong(g, j), i[1] = j[1]
          PROVE  FALSE
      <3>1. InMap(i[1]) /\ j[1] # None
        BY <1>3, <2>1 DEF InMap
      <3>2. j[2] \in in[g] /\ holder[g][j[2]] = j[1]
        BY <2>1, <3>1 DEF ClaimsSound, ReviveSound, Strong, OutOfMap
      <3>3. j[2] \in Ranks
        BY <2>1, <3>2 DEF MdsTypes
      <3> QED
        BY <1>3, <2>1, <3>1, <3>2, <3>3, SMT DEF MapSound
    <2>2. ASSUME NEW i \in S, NEW j \in S, i[1] = j[1] PROVE i = j
      BY <1>3, <2>2, SMT DEF MapSound
    <2>3. \A g \in Fs : \A j : g # f => (Strong(g, j)' <=> Strong(g, j))
      BY <1>1, <1>4 DEF Strong
    <2> QED
      BY <1>7, <2>1, <2>2, <2>3, SMT DEF ClaimsDiffer
  <1>12. NotGrowing'
    BY <1>1, <1>4 DEF NotGrowing
  <1>13. NotAgain' /\ DeadAreVictims'
    BY <1>1, <1>4, <1>5, SMT DEF NotAgain, DeadAreVictims, Down
  <1>14. OneRank'
    BY <1>1, SMT DEF OneRank
  <1> QED
    BY <1>6, <1>9, <1>10, <1>11, <1>12, <1>13, <1>14

-----------------------------------------------------------------------------
(* kill_mds and revive_mds.                                                *)

LEMMA KillKeeps ==
    ASSUME MdsInv, NEW f \in Fs, KillMds(f), UNCHANGED cluster
    PROVE  MdsInv'
  <1> USE DEF MdsInv, SameCluster
  <1> SameCluster /\ None \notin Mds
    BY ClusterKept, ClusterFacts
  <1>1. /\ UNCHANGED <<holder, in, leaving, standby, laggy, max, cut, stopping>>
        /\ pc[f] = "iter" /\ pc' = [pc EXCEPT ![f] = "crash"]
    BY DEF KillMds, Goto, fsmap
  <1>2. PICK i \in todo[f] : /\ proc' = [proc EXCEPT ![i[1]] = "dead"]
                             /\ victim' = [victim EXCEPT ![f] = i]
                             /\ todo' = [todo EXCEPT ![f] = @ \ {i}]
    BY DEF KillMds
  <1>3. i = <<i[1], i[2]>> /\ i[1] \in Mds /\ i[2] \in Ranks
    BY SMT DEF MdsTypes
  <1>4. /\ pc' \in [Fs -> {"top", "cut", "stable"} \cup Iterating \cup Terminal]
        /\ pc'[f] = "crash" /\ \A g \in Fs : g # f => pc'[g] = pc[g]
    BY <1>1 DEF MdsTypes, Iterating, Down
  <1>5. /\ todo' \in [Fs -> SUBSET (Mds \X Ranks)]
        /\ todo'[f] = todo[f] \ {i} /\ \A g \in Fs : g # f => todo'[g] = todo[g]
    <2> DEFINE X == SUBSET (Mds \X Ranks)
    <2>1. todo \in [Fs -> X] /\ todo[f] \ {i} \in X
      BY DEF MdsTypes
    <2> HIDE DEF X
    <2>2. /\ todo' \in [Fs -> X]
          /\ todo'[f] = todo[f] \ {i} /\ \A g \in Fs : g # f => todo'[g] = todo[g]
      BY <1>2, <2>1
    <2> QED
      BY <2>2 DEF X
  <1>6. /\ victim' \in [Fs -> (Mds \cup {None}) \X Ranks]
        /\ victim'[f] = i /\ \A g \in Fs : g # f => victim'[g] = victim[g]
    <2> DEFINE V == (Mds \cup {None}) \X Ranks
    <2>1. victim \in [Fs -> V] /\ i \in V
      BY <1>3 DEF MdsTypes
    <2> HIDE DEF V
    <2>2. /\ victim' \in [Fs -> V]
          /\ victim'[f] = i /\ \A g \in Fs : g # f => victim'[g] = victim[g]
      BY <1>2, <2>1
    <2> QED
      BY <2>2 DEF V
  <1>7. /\ proc' \in [Mds -> {"dead", "booting", "up"}]
        /\ proc'[i[1]] = "dead" /\ \A x \in Mds : x # i[1] => proc'[x] = proc[x]
    BY <1>2, <1>3 DEF MdsTypes
  <1>8. MdsTypes'
    BY <1>1, <1>3, <1>4, <1>5, <1>6, <1>7 DEF MdsTypes, Down
  <1>9. \A g \in Fs : Claims(g)' = Claims(g)
    <2>1. todo'[f] \cup {victim'[f]} = todo[f]
      BY <1>5, <1>6
    <2>2. Claims(f)' = todo'[f] \cup {victim'[f]} /\ Claims(f) = todo[f]
      BY <1>1, <1>4 DEF Claims, Down, Iterating
    <2>3. \A g \in Fs : g # f => Claims(g)' = Claims(g)
      BY <1>4, <1>5, <1>6 DEF Claims
    <2> QED
      BY <2>1, <2>2, <2>3
  <1>10. \A m \in Mds : (InMap(m)' <=> InMap(m)) /\ (OutOfMap(m) => OutOfMap(m)')
    BY <1>1, <1>7, SMT DEF InMap, OutOfMap
  <1>11. MapSound'
    BY <1>1, <1>7, <1>10, SMT DEF MapSound, MdsTypes
  <1>12. ReviveSound'
    BY <1>4, <1>6, <1>10 DEF ReviveSound, MdsTypes, Down
  <1>13. ClaimsSound'
    <2>1. \A g \in Fs : \A j \in Claims(g) : j[1] \in Mds
      BY SMT DEF Claims, MdsTypes
    <2> QED
      BY <1>1, <1>9, <1>10, <2>1 DEF ClaimsSound
  <1>14. ClaimsDiffer'
    <2>1. \A g \in Fs : \A j : Strong(g, j)' <=> Strong(g, j)
      BY <1>1, <1>4, <1>6 DEF Strong
    <2> QED
      BY <1>9, <2>1, SMT DEF ClaimsDiffer
  <1>15. NotGrowing' /\ NotAgain'
    BY <1>1, <1>4, <1>5, <1>6 DEF NotGrowing, NotAgain, Iterating, Down
  <1>16. OneRank'
    BY <1>1, SMT DEF OneRank
  <1>17. DeadAreVictims'
    <2> SUFFICES ASSUME NEW m \in Mds, proc'[m] = "dead"
                 PROVE  \E g \in Fs : victim'[g][1] = m /\ pc'[g] \in Down \cup {"raised"}
      BY DEF DeadAreVictims
    <2>1. CASE m = i[1]
      BY <1>4, <1>6, <2>1 DEF Down
    <2>2. CASE m # i[1]
      <3>1. PICK g \in Fs : victim[g][1] = m /\ pc[g] \in Down \cup {"raised"}
        BY <1>7, <2>2 DEF DeadAreVictims
      <3>2. g # f
        BY <1>1, <3>1 DEF Down
      <3> QED
        BY <1>4, <1>6, <3>1, <3>2
    <2> QED
      BY <2>1, <2>2
  <1> QED
    BY <1>8, <1>11, <1>12, <1>13, <1>14, <1>15, <1>16, <1>17

LEMMA ReviveKeeps ==
    ASSUME MdsInv, NEW f \in Fs, ReviveMds(f), UNCHANGED cluster
    PROVE  MdsInv'
  <1> USE DEF MdsInv, SameCluster
  <1> SameCluster /\ None \notin Mds
    BY ClusterKept, ClusterFacts
  <1> DEFINE v == victim[f][1]
  <1>1. /\ UNCHANGED <<holder, in, leaving, standby, laggy, max, todo, cut, victim, stopping>>
        /\ pc[f] = "revive" /\ pc' = [pc EXCEPT ![f] = "standby"]
        /\ proc' = [proc EXCEPT ![v] = "booting"]
    BY DEF ReviveMds, Goto, fsmap
  <1>2. v \in Mds /\ OutOfMap(v)
    BY <1>1 DEF MdsTypes, ReviveSound, Down
  <1>3. /\ pc' \in [Fs -> {"top", "cut", "stable"} \cup Iterating \cup Terminal]
        /\ pc'[f] = "standby" /\ \A g \in Fs : g # f => pc'[g] = pc[g]
    BY <1>1 DEF MdsTypes, Iterating
  <1>4. /\ proc' \in [Mds -> {"dead", "booting", "up"}]
        /\ proc'[v] = "booting" /\ \A x \in Mds : x # v => proc'[x] = proc[x]
    BY <1>1, <1>2 DEF MdsTypes
  <1>5. MdsTypes'
    BY <1>1, <1>2, <1>3, <1>4 DEF MdsTypes, Down
  <1>6. \A m \in Mds : (InMap(m)' <=> InMap(m)) /\ (m # v /\ OutOfMap(m) => OutOfMap(m)')
    BY <1>1, <1>4, SMT DEF InMap, OutOfMap
  <1>7. MapSound'
    <2>1. v \notin laggy
      BY <1>2 DEF MapSound, OutOfMap, InMap
    <2> QED
      BY <1>1, <1>2, <1>4, <1>6, <2>1, SMT DEF MapSound, MdsTypes, OutOfMap
  <1>8. /\ victim[f] \in Claims(f) /\ Strong(f, victim[f]) /\ victim[f] \notin todo[f]
        /\ Claims(f)' = todo[f] /\ todo[f] \subseteq Claims(f)
        /\ \A g \in Fs : g # f => Claims(g)' = Claims(g)
    BY <1>1, <1>3 DEF Claims, Strong, NotAgain, Down, Iterating
  <1>9. \A g \in Fs : \A j : Strong(g, j)' => Strong(g, j)
    BY <1>1, <1>3 DEF Strong
  <1>10. \A g \in Fs : \A j \in Claims(g)' : j \in Claims(g) /\ (Strong(g, j) => j[1] # v)
    BY <1>8, SMT DEF ClaimsDiffer
  <1>11. ClaimsSound'
    <2>1. \A g \in Fs : \A j \in Claims(g) : j[1] \in Mds
      BY SMT DEF Claims, MdsTypes
    <2> QED
      BY <1>1, <1>6, <1>10, <2>1 DEF ClaimsSound, Strong
  <1>12. ReviveSound'
    <2> SUFFICES ASSUME NEW g \in Fs, pc'[g] = "revive" PROVE OutOfMap(victim[g][1])'
      BY <1>1 DEF ReviveSound
    <2>1. g # f /\ pc[g] = "revive"
      BY <1>3
    <2>2. victim[g] \in Claims(g)' /\ Strong(g, victim[g]) /\ victim[g][1] \in Mds
      BY <1>8, <2>1 DEF Claims, Strong, Down, MdsTypes
    <2> QED
      BY <1>1, <1>6, <1>10, <2>1, <2>2 DEF ReviveSound
  <1>13. ClaimsDiffer'
    BY <1>9, <1>10, SMT DEF ClaimsDiffer
  <1>14. NotGrowing' /\ NotAgain'
    BY <1>1, <1>3 DEF NotGrowing, NotAgain, Iterating, Down
  <1>15. OneRank'
    BY <1>1, <1>3, <1>4, SMT DEF OneRank, GetRanks, Down, MdsTypes
  <1>16. DeadAreVictims'
    BY <1>1, <1>3, <1>4, SMT DEF DeadAreVictims, Down
  <1> QED
    BY <1>5, <1>7, <1>11, <1>12, <1>13, <1>14, <1>15, <1>16

-----------------------------------------------------------------------------
(* Steps of the monitors and the daemons.                                  *)

(* Beliefs stay sound when the ranks of no filesystem grow while its       *)
(* thrasher iterates, no dead daemon comes back into the map, and a daemon *)
(* loses its rank by dying or with the rank.                               *)
LEMMA BeliefsLast ==
    ASSUME MdsInv, UNCHANGED <<cluster, locals>>,
           \A g \in Fs : pc[g] \in Iterating => in'[g] \subseteq in[g],
           \A m \in Mds : OutOfMap(m) => OutOfMap(m)',
           \A g \in Fs, r \in Ranks, m \in Mds : pc[g] \in Iterating /\ holder[g][r] = m =>
               r \notin in'[g] \/ holder'[g][r] = m \/ OutOfMap(m)'
    PROVE  ClaimsSound' /\ ClaimsDiffer' /\ ReviveSound' /\ NotAgain'
  <1> SameCluster
    BY ClusterKept
  <1> USE DEF SameCluster, MdsInv, locals
  <1>1. \A g \in Fs : Claims(g)' = Claims(g)
    BY DEF Claims
  <1>2. \A g \in Fs : \A i \in Claims(g) :
            pc[g] \in Iterating /\ i[1] \in Mds /\ i[2] \in Ranks
    BY SMT DEF Claims, MdsTypes, Iterating
  <1>3. ClaimsSound'
    BY <1>1, <1>2 DEF ClaimsSound
  <1>4. \A g \in Fs : \A i \in Claims(g) : Strong(g, i)' => Strong(g, i)
    BY <1>2 DEF Strong
  <1>5. ClaimsDiffer'
    <2> SUFFICES ASSUME NEW g \in Fs, NEW h \in Fs, NEW i \in Claims(g)', NEW j \in Claims(h)',
                        Strong(g, i)', Strong(h, j)', i[1] = j[1]
                 PROVE  g = h /\ i = j
      BY DEF ClaimsDiffer
    <2>1. i \in Claims(g) /\ Strong(g, i) /\ j \in Claims(h) /\ Strong(h, j)
      BY <1>1, <1>4
    <2> QED
      BY <2>1 DEF ClaimsDiffer
  <1>6. ReviveSound'
    BY DEF ReviveSound, MdsTypes, Down
  <1>7. NotAgain'
    BY DEF NotAgain
  <1> QED
    BY <1>3, <1>5, <1>6, <1>7

LEMMA BootsKeep ==
    ASSUME MdsInv, NEW m \in Mds, MdsBoots(m), UNCHANGED cluster
    PROVE  MdsInv'
  <1> USE DEF MdsInv, SameCluster
  <1> SameCluster /\ None \notin Mds
    BY ClusterKept, ClusterFacts
  <1>1. /\ UNCHANGED <<in, leaving, max, locals, stopping>>
        /\ pc' = pc /\ todo' = todo /\ cut' = cut /\ victim' = victim
        /\ proc[m] = "booting" /\ standby' = standby \cup {m} /\ laggy' = laggy \ {m}
    BY DEF MdsBoots, locals
  <1>2. ~InMap(m)
    BY <1>1 DEF MapSound
  <1>3. \A f \in Fs, r \in Ranks : holder[f][r] # m
    BY <1>2 DEF InMap
  <1>4. holder' \in [Fs -> [Ranks -> Mds \cup {None}]]
        /\ \A f \in Fs, r \in Ranks : holder'[f][r] = holder[f][r]
    BY <1>3, SMT DEF MdsBoots, MdsTypes
  <1>5. /\ proc' \in [Mds -> {"dead", "booting", "up"}]
        /\ proc'[m] = "up" /\ \A x \in Mds : x # m => proc'[x] = proc[x]
    BY DEF MdsBoots, MdsTypes
  <1>6. MdsTypes'
    BY <1>1, <1>4, <1>5 DEF MdsTypes
  <1>7. \A x \in Mds : x # m => (InMap(x)' <=> InMap(x)) /\ (OutOfMap(x)' <=> OutOfMap(x))
    BY <1>1, <1>4, <1>5, SMT DEF InMap, OutOfMap
  <1>8. MapSound'
    <2>1. \A f, g \in Fs, q, r \in Ranks :
              holder'[f][q] # None /\ holder'[f][q] = holder'[g][r] => f = g /\ q = r
      BY <1>4, SMT DEF MapSound
    <2>2. \A f \in Fs, r \in Ranks : holder'[f][r] \notin standby' /\ (holder'[f][r] # None => r \in in'[f])
      BY <1>1, <1>3, <1>4, SMT DEF MapSound
    <2>3. \A x \in laggy' : proc'[x] = "dead" /\ \E f \in Fs, r \in Ranks : holder'[f][r] = x
      <3> SUFFICES ASSUME NEW x \in laggy, x # m
                   PROVE  proc'[x] = "dead" /\ \E f \in Fs, r \in Ranks : holder'[f][r] = x
        BY <1>1
      <3>1. x \in Mds /\ proc[x] = "dead"
        BY DEF MdsTypes, MapSound
      <3>2. PICK f \in Fs, r \in Ranks : holder[f][r] = x
        BY DEF MapSound
      <3> QED
        BY <1>4, <1>5, <3>1, <3>2
    <2>4. \A x \in Mds : proc'[x] = "booting" => ~InMap(x)'
      BY <1>5, <1>7, SMT DEF MapSound
    <2> QED
      BY <2>1, <2>2, <2>3, <2>4, MapSoundNext
  <1>9. ClaimsSound' /\ ClaimsDiffer' /\ ReviveSound' /\ NotAgain'
    <2>1. \A x \in Mds : OutOfMap(x) => OutOfMap(x)'
      BY <1>1, <1>7 DEF OutOfMap
    <2> QED
      BY <1>1, <1>4, <2>1, BeliefsLast
  <1>10. NotGrowing'
    BY <1>1 DEF NotGrowing
  <1>11. OneRank'
    BY <1>1, <1>4, <1>5, SMT DEF OneRank, GetRanks, MdsTypes
  <1>12. DeadAreVictims'
    BY <1>1, <1>5, SMT DEF DeadAreVictims
  <1> QED
    BY <1>6, <1>8, <1>9, <1>10, <1>11, <1>12

LEMMA LaggyKeeps ==
    ASSUME MdsInv, NEW m \in Mds, Laggy(m), UNCHANGED cluster
    PROVE  MdsInv'
  <1> USE DEF MdsInv, SameCluster
  <1> SameCluster /\ None \notin Mds
    BY ClusterKept, ClusterFacts
  <1>1. /\ UNCHANGED <<proc, holder, in, leaving, max, locals, stopping>>
        /\ pc' = pc /\ todo' = todo /\ cut' = cut /\ victim' = victim
        /\ proc[m] # "up" /\ InMap(m) /\ m \notin laggy
        /\ \/ m \in standby /\ standby' = standby \ {m} /\ laggy' = laggy
           \/ m \notin standby /\ laggy' = laggy \cup {m} /\ standby' = standby
    BY DEF Laggy, locals
  <1>2. proc[m] = "dead"
    BY <1>1, SMT DEF MapSound, MdsTypes
  <1>3. MdsTypes'
    BY <1>1 DEF MdsTypes
  <1>4. \A x \in Mds : InMap(x)' => InMap(x)
    BY <1>1 DEF InMap
  <1>5. MapSound'
    <2>1. \A x \in laggy' : proc[x] = "dead" /\ \E f \in Fs, r \in Ranks : holder[f][r] = x
      BY <1>1, <1>2, SMT DEF MapSound, InMap
    <2>2. \A f \in Fs, r \in Ranks : holder[f][r] \notin standby'
      BY <1>1 DEF MapSound
    <2> QED
      BY <1>1, <1>4, <2>1, <2>2, SMT DEF MapSound
  <1>6. ClaimsSound' /\ ClaimsDiffer' /\ ReviveSound' /\ NotAgain'
    <2>1. \A x \in Mds : OutOfMap(x) => OutOfMap(x)'
      BY <1>1, <1>4 DEF OutOfMap
    <2> QED
      BY <1>1, <2>1, BeliefsLast
  <1>7. NotGrowing' /\ DeadAreVictims'
    BY <1>1 DEF NotGrowing, DeadAreVictims
  <1>8. OneRank'
    BY <1>1, OneRankLasts DEF locals
  <1> QED
    BY <1>3, <1>5, <1>6, <1>7, <1>8

(* A standby is given a rank nobody is left to hold.                       *)
LEMMA PromotionKeepsMap ==
    ASSUME MdsInv, UNCHANGED <<cluster, proc>>,
           NEW f \in Fs, NEW r \in Ranks, NEW s \in standby,
           holder[f][r] \in laggy \cup {None},
           holder' = [holder EXCEPT ![f][r] = s], standby' = standby \ {s},
           laggy' = laggy \ {holder[f][r]},
           in' \in [Fs -> SUBSET Ranks], r \in in'[f], \A g \in Fs : in[g] \subseteq in'[g]
    PROVE  /\ MapSound'
           /\ \A x \in Mds : OutOfMap(x) => OutOfMap(x)'
           /\ \A x \in Mds : x = holder[f][r] => OutOfMap(x)'
  <1> USE DEF MdsInv, SameCluster
  <1> SameCluster /\ None \notin Mds
    BY ClusterKept, ClusterFacts
  <1> DEFINE old == holder[f][r]
  <1>1. s \in Mds /\ s # None /\ InMap(s) /\ old \in Mds \cup {None}
    BY DEF MdsTypes, InMap
  <1>2. /\ holder'[f][r] = s
        /\ \A g \in Fs, q \in Ranks : g # f \/ q # r => holder'[g][q] = holder[g][q]
    BY DEF MdsTypes
  <1>3. \A g \in Fs, q \in Ranks : holder[g][q] # s
    BY SMT DEF MapSound
  <1>4. \A g \in Fs, q \in Ranks : holder'[g][q] # None /\ holder'[g][q] = old => FALSE
    BY <1>2, <1>3, SMT DEF MapSound
  <1>5. \A x \in Mds : InMap(x)' => InMap(x)
    BY <1>1, <1>2, SMT DEF InMap
  <1>6. \A g, h \in Fs, q, p \in Ranks :
            holder'[g][q] # None /\ holder'[g][q] = holder'[h][p] => g = h /\ q = p
    BY <1>2, <1>3, SMT DEF MapSound
  <1>7. \A g \in Fs, q \in Ranks :
            holder'[g][q] \notin standby' /\ (holder'[g][q] # None => q \in in'[g])
    BY <1>2, SMT DEF MapSound
  <1>8. \A x \in laggy' : proc[x] = "dead" /\ \E g \in Fs, q \in Ranks : holder'[g][q] = x
    BY <1>2, SMT DEF MapSound
  <1>9. MapSound'
    <2>1. \A x \in Mds : proc[x] = "booting" => ~InMap(x)'
      BY <1>5 DEF MapSound
    <2> HIDE DEF MdsInv
    <2> QED
      BY <1>6, <1>7, <1>8, <2>1, SMT DEF MapSound
  <1>10. \A x \in Mds : OutOfMap(x) => OutOfMap(x)'
    BY <1>5 DEF OutOfMap
  <1>11. ASSUME NEW x \in Mds, x = old PROVE OutOfMap(x)'
    <2>1. x \in laggy /\ proc[x] = "dead" /\ x # None /\ x \notin standby
      BY <1>11 DEF MapSound
    <2> QED
      BY <1>4, <1>11, <2>1 DEF OutOfMap, InMap
  <1> QED
    BY <1>1, <1>9, <1>10, <1>11

LEMMA TakeoverKeeps ==
    ASSUME MdsInv, NEW f \in Fs, NEW r \in Ranks, NEW s \in Mds, TakesOver(f, r, s),
           UNCHANGED cluster
    PROVE  MdsInv'
  <1> USE DEF MdsInv, SameCluster
  <1> SameCluster /\ None \notin Mds
    BY ClusterKept, ClusterFacts
  <1>1. /\ UNCHANGED <<proc, in, leaving, max, locals, stopping>>
        /\ pc' = pc /\ todo' = todo /\ cut' = cut /\ victim' = victim
        /\ r \in in[f] /\ s \in standby /\ holder[f][r] \in laggy \cup {None}
        /\ holder' = [holder EXCEPT ![f][r] = s] /\ standby' = standby \ {s}
        /\ laggy' = laggy \ {holder[f][r]}
    BY DEF TakesOver, locals
  <1>2. /\ holder' \in [Fs -> [Ranks -> Mds \cup {None}]] /\ holder'[f][r] = s
        /\ \A g \in Fs, q \in Ranks : g # f \/ q # r => holder'[g][q] = holder[g][q]
    BY <1>1, SMT DEF MdsTypes
  <1>3. MdsTypes'
    BY <1>1, <1>2 DEF MdsTypes
  <1>4. /\ MapSound'
        /\ \A x \in Mds : OutOfMap(x) => OutOfMap(x)'
        /\ \A x \in Mds : x = holder[f][r] => OutOfMap(x)'
    <2>1. in' \in [Fs -> SUBSET Ranks]
      BY <1>1 DEF MdsTypes
    <2> QED
      BY <1>1, <2>1, PromotionKeepsMap
  <1>5. ClaimsSound' /\ ClaimsDiffer' /\ ReviveSound' /\ NotAgain'
    BY <1>1, <1>2, <1>4, BeliefsLast
  <1>6. NotGrowing' /\ DeadAreVictims'
    BY <1>1 DEF NotGrowing, DeadAreVictims
  <1>7. OneRank'
    BY <1>1, SMT DEF OneRank
  <1> QED
    BY <1>3, <1>4, <1>5, <1>6, <1>7

LEMMA GrowthKeeps ==
    ASSUME MdsInv, NEW f \in Fs, NEW r \in Ranks, NEW s \in Mds, Grows(f, r, s),
           UNCHANGED cluster, pc[f] \notin Iterating
    PROVE  MdsInv'
  <1> USE DEF MdsInv, SameCluster
  <1> SameCluster /\ None \notin Mds
    BY ClusterKept, ClusterFacts
  <1>1. /\ UNCHANGED <<proc, leaving, laggy, max, locals, stopping>>
        /\ pc' = pc /\ todo' = todo /\ cut' = cut /\ victim' = victim
        /\ r \notin in[f] /\ s \in standby /\ Cardinality(in[f]) < max[f]
        /\ holder' = [holder EXCEPT ![f][r] = s] /\ standby' = standby \ {s}
        /\ in' = [in EXCEPT ![f] = @ \cup {r}]
    BY DEF Grows, locals
  <1>2. /\ holder' \in [Fs -> [Ranks -> Mds \cup {None}]]
        /\ \A g \in Fs, q \in Ranks : g # f \/ q # r => holder'[g][q] = holder[g][q]
    BY <1>1 DEF MdsTypes
  <1>3. /\ in' \in [Fs -> SUBSET Ranks] /\ r \in in'[f]
        /\ \A g \in Fs : in[g] \subseteq in'[g] /\ (g # f => in'[g] = in[g])
    <2> DEFINE X == SUBSET Ranks
    <2>1. in \in [Fs -> X] /\ in[f] \cup {r} \in X
      BY DEF MdsTypes
    <2> HIDE DEF X
    <2>2. in' \in [Fs -> X] /\ in'[f] = in[f] \cup {r} /\ \A g \in Fs : g # f => in'[g] = in[g]
      BY <1>1, <2>1
    <2> QED
      BY <2>2 DEF X
  <1>4. MdsTypes'
    BY <1>1, <1>2, <1>3 DEF MdsTypes
  <1>5. /\ MapSound'
        /\ \A x \in Mds : OutOfMap(x) => OutOfMap(x)'
    <2>1. holder[f][r] = None
      BY <1>1 DEF MapSound
    <2>2. laggy' = laggy \ {holder[f][r]}
      BY <1>1, <2>1 DEF MdsTypes
    <2> QED
      BY <1>1, <1>3, <2>1, <2>2, PromotionKeepsMap
  <1>6. ClaimsSound' /\ ClaimsDiffer' /\ ReviveSound' /\ NotAgain'
    BY <1>1, <1>2, <1>3, <1>5, BeliefsLast
  <1>7. NotGrowing' /\ DeadAreVictims'
    BY <1>1, <1>3 DEF NotGrowing, DeadAreVictims
  <1>8. OneRank'
    BY <1>1 DEF OneRank
  <1> QED
    BY <1>4, <1>5, <1>6, <1>7, <1>8

LEMMA LeavesKeeps ==
    ASSUME MdsInv, NEW f \in Fs, NEW r \in Ranks, Leaves(f, r), UNCHANGED cluster
    PROVE  MdsInv'
  <1> USE DEF MdsInv, SameCluster
  <1> SameCluster /\ None \notin Mds
    BY ClusterKept, ClusterFacts
  <1> DEFINE h == holder[f][r]
  <1>1. /\ UNCHANGED <<standby, max, locals, stopping>>
        /\ pc' = pc /\ todo' = todo /\ cut' = cut /\ victim' = victim
        /\ r \in leaving[f] /\ h # None /\ proc[h] = "up"
        /\ in' = [in EXCEPT ![f] = @ \ {r}] /\ leaving' = [leaving EXCEPT ![f] = @ \ {r}]
        /\ proc' = [proc EXCEPT ![h] = "booting"] /\ laggy' = laggy \ {h}
        /\ holder' = [holder EXCEPT ![f][r] = None]
    BY DEF Leaves, locals
  <1>2. /\ holder' \in [Fs -> [Ranks -> Mds \cup {None}]] /\ holder'[f][r] = None
        /\ \A g \in Fs, q \in Ranks : g # f \/ q # r => holder'[g][q] = holder[g][q]
    BY <1>1, SMT DEF MdsTypes
  <1>3. /\ in' \in [Fs -> SUBSET Ranks] /\ leaving' \in [Fs -> SUBSET Ranks]
        /\ in'[f] = in[f] \ {r} /\ leaving'[f] = leaving[f] \ {r}
        /\ \A g \in Fs : g # f => in'[g] = in[g] /\ leaving'[g] = leaving[g]
    <2> DEFINE X == SUBSET Ranks
    <2>1. /\ in \in [Fs -> X] /\ in[f] \ {r} \in X
          /\ leaving \in [Fs -> X] /\ leaving[f] \ {r} \in X
      BY DEF MdsTypes
    <2> HIDE DEF X
    <2>2. in' \in [Fs -> X] /\ in'[f] = in[f] \ {r} /\ \A g \in Fs : g # f => in'[g] = in[g]
      BY <1>1, <2>1
    <2>3. /\ leaving' \in [Fs -> X] /\ leaving'[f] = leaving[f] \ {r}
          /\ \A g \in Fs : g # f => leaving'[g] = leaving[g]
      BY <1>1, <2>1
    <2> QED
      BY <2>2, <2>3 DEF X
  <1>4. h \in Mds /\ h \notin laggy /\ h \notin standby
    BY <1>1, SMT DEF MdsTypes, MapSound
  <1>5. /\ proc' \in [Mds -> {"dead", "booting", "up"}]
        /\ proc'[h] = "booting" /\ \A x \in Mds : x # h => proc'[x] = proc[x]
    BY <1>1, <1>4 DEF MdsTypes
  <1>6. MdsTypes'
    BY <1>1, <1>2, <1>3, <1>5 DEF MdsTypes
  <1>7. \A g \in Fs, q \in Ranks : holder'[g][q] # h
    BY <1>1, <1>2, SMT DEF MapSound
  <1>8. \A x \in Mds : (InMap(x)' => InMap(x)) /\ (x = h => ~InMap(x)')
    BY <1>1, <1>2, <1>4, <1>7, SMT DEF InMap
  <1>9. MapSound'
    <2>1. \A g, k \in Fs, q, p \in Ranks :
              holder'[g][q] # None /\ holder'[g][q] = holder'[k][p] => g = k /\ q = p
      <3>1. \A g \in Fs, q \in Ranks : holder'[g][q] # None => holder'[g][q] = holder[g][q]
        BY <1>2
      <3> HIDE DEF MdsInv
      <3>2. MapSound
        BY DEF MdsInv
      <3> QED
        BY <3>1, <3>2, SMT DEF MapSound
    <2>2. \A g \in Fs, q \in Ranks :
              holder'[g][q] \notin standby' /\ (holder'[g][q] # None => q \in in'[g])
      <3>1. None \notin standby
        BY DEF MdsTypes
      <3> QED
        BY <1>1, <1>2, <1>3, <3>1, SMT DEF MapSound
    <2>3. \A x \in laggy' : proc'[x] = "dead" /\ \E g \in Fs, q \in Ranks : holder'[g][q] = x
      <3> SUFFICES ASSUME NEW x \in laggy, x # h
                   PROVE  proc'[x] = "dead" /\ \E g \in Fs, q \in Ranks : holder'[g][q] = x
        BY <1>1
      <3>1. x \in Mds /\ proc[x] = "dead"
        BY DEF MdsTypes, MapSound
      <3>2. PICK g \in Fs, q \in Ranks : holder[g][q] = x
        BY DEF MapSound
      <3> QED
        BY <1>2, <1>5, <3>1, <3>2
    <2>4. \A x \in Mds : proc'[x] = "booting" => ~InMap(x)'
      BY <1>5, <1>8 DEF MapSound
    <2> QED
      BY <2>1, <2>2, <2>3, <2>4, MapSoundNext
  <1>10. ClaimsSound' /\ ClaimsDiffer' /\ ReviveSound' /\ NotAgain'
    <2>1. \A x \in Mds : OutOfMap(x) => OutOfMap(x)'
      BY <1>1, <1>5, <1>8 DEF OutOfMap
    <2>2. \A g \in Fs : in'[g] \subseteq in[g]
      BY <1>3
    <2> QED
      BY <1>1, <1>2, <1>3, <2>1, <2>2, BeliefsLast, SMT
  <1>11. NotGrowing'
    <2>1. in'[f] \ leaving'[f] = in[f] \ leaving[f]
      BY <1>1, <1>3
    <2> QED
      BY <1>1, <1>3, <2>1 DEF NotGrowing
  <1>12. OneRank'
    BY <1>1 DEF OneRank
  <1>13. DeadAreVictims'
    BY <1>1, <1>5, SMT DEF DeadAreVictims
  <1> QED
    BY <1>6, <1>9, <1>10, <1>11, <1>12, <1>13

-----------------------------------------------------------------------------
(* Counting ranks: the loop begins when a filesystem has as many as it     *)
(* should, and a filesystem grows when it has fewer.                       *)

INSTANCE FiniteSetTheorems

LEMMA RanksFinite == ASSUME MdsTypes PROVE IsFiniteSet(Ranks)
  BY ClusterFacts, FS_Interval, SMT

(* Each active daemon has a rank of its own, so a filesystem that has as   *)
(* many of them as it should has no room to grow.                          *)
LEMMA ActiveRanks ==
    ASSUME MdsInv, NEW f \in Fs
    PROVE  Cardinality(Active(f)) <= Cardinality(in[f] \ leaving[f])
  <1> DEFINE T == in[f] \ leaving[f]
             rank == [i \in Active(f) |-> i[2]]
  <1>1. IsFiniteSet(T)
    <2>1. T \in SUBSET Ranks /\ IsFiniteSet(Ranks)
      BY RanksFinite DEF MdsInv, MdsTypes
    <2> QED
      BY <2>1, FS_Subset
  <1>2. \A i \in Active(f) : i = <<holder[f][i[2]], i[2]>> /\ i[2] \in T
    BY ClusterFacts, SMT DEF Active, GetRanks, MdsInv, MdsTypes, MapSound
  <1>3. rank \in Injection(Active(f), T)
    BY <1>2, SMT DEF Injection, IsInjective
  <1> HIDE DEF T, rank
  <1> QED
    BY <1>1, <1>3, FS_Injection DEF T

LEMMA BeginsFull ==
    ASSUME MdsInv, NEW f \in Fs, KeepMaxMds(f) \/ WaitForStable(f)
    PROVE  Cardinality(in[f] \ leaving[f]) >= max[f]
  <1> USE DEF MdsInv
  <1>1. Cardinality(in[f] \ leaving[f]) \in Nat
    <2>1. in[f] \ leaving[f] \in SUBSET Ranks
      BY DEF MdsTypes
    <2> QED
      BY <2>1, RanksFinite, FS_Subset, FS_CardinalityType
  <1>2. CASE KeepMaxMds(f)
    <2>1. in[f] \ leaving[f] = {0} /\ max[f] = 1
      BY <1>2, ClusterFacts, SMT DEF KeepMaxMds, OneRank, MdsTypes
    <2>2. Cardinality({0}) = 1
      BY FS_Singleton
    <2>3. Cardinality(in[f] \ leaving[f]) = 1
      BY <2>1, <2>2, Zenon
    <2> QED
      BY <2>1, <2>3, SMT
  <1>3. CASE WaitForStable(f)
    <2>1. Cardinality(Active(f)) >= max[f] /\ max[f] \in Nat
      BY <1>3, SMT DEF WaitForStable, MdsTypes
    <2>2. Cardinality(Active(f)) <= Cardinality(in[f] \ leaving[f])
      BY ActiveRanks
    <2>3. Cardinality(Active(f)) \in Nat
      <3>1. Active(f) \subseteq Mds \X Ranks /\ IsFiniteSet(Mds)
        BY MdsAssumption DEF Active, GetRanks, MdsTypes, Mds
      <3>2. IsFiniteSet(Mds \X Ranks)
        BY <3>1, RanksFinite, FS_Product
      <3> QED
        BY <3>1, <3>2, FS_Subset, FS_CardinalityType
    <2> QED
      BY <1>1, <2>1, <2>2, <2>3, SMT
  <1> QED
    BY <1>2, <1>3

(* A filesystem grows only while its thrasher is not going through ranks.  *)
LEMMA GrowsIdle ==
    ASSUME MdsInv, NEW f \in Fs, Cardinality(in[f]) < max[f]
    PROVE  pc[f] \notin Iterating
  <1> USE DEF MdsInv
  <1> SUFFICES ASSUME pc[f] \in Iterating PROVE FALSE
    OBVIOUS
  <1>1. IsFiniteSet(in[f]) /\ in[f] \ leaving[f] \in SUBSET in[f]
    <2>1. in[f] \in SUBSET Ranks
      BY DEF MdsTypes
    <2> QED
      BY <2>1, RanksFinite, FS_Subset
  <1>2. /\ Cardinality(in[f] \ leaving[f]) <= Cardinality(in[f])
        /\ Cardinality(in[f]) \in Nat /\ Cardinality(in[f] \ leaving[f]) \in Nat
    BY <1>1, FS_Subset, FS_CardinalityType
  <1>3. Cardinality(in[f] \ leaving[f]) >= max[f] /\ max[f] \in Nat
    BY SMT DEF NotGrowing, MdsTypes
  <1> QED
    BY <1>2, <1>3, SMT

-----------------------------------------------------------------------------
(* The theorems.                                                           *)

LEMMA MdsStepInv == MdsInv /\ [MdsNext]_vars => MdsInv'
  <1> SUFFICES ASSUME MdsInv, [MdsNext]_vars PROVE MdsInv'
    OBVIOUS
  <1>1. UNCHANGED cluster
    BY DEF MdsNext, vars
  <1>2. ASSUME NEW f \in Fs, Proceeds(f) \/ ThrasherRaises(f) PROVE MdsInv'
    BY <1>1, <1>2, MovesKeep, ResizesKeep, IteratesKeep, BeginsFull, KillKeeps, ReviveKeeps
       DEF Proceeds, Moves
  <1>3. ASSUME NEW f \in Fs, JoinNext(f) PROVE MdsInv'
    BY <1>1, <1>3, JoinsKeep
  <1>4. ASSUME NEW f \in Fs, MapChanges(f) PROVE MdsInv'
    <2>1. ASSUME NEW r \in Ranks, NEW s \in Mds, Grows(f, r, s) PROVE MdsInv'
      BY <1>1, <2>1, GrowsIdle, GrowthKeeps DEF Grows
    <2> QED
      BY <1>1, <1>4, <2>1, TakeoverKeeps, LeavesKeeps DEF MapChanges
  <1>5. ASSUME NEW m \in Mds, MdsBoots(m) \/ Laggy(m) PROVE MdsInv'
    BY <1>1, <1>5, BootsKeep, LaggyKeeps
  <1>6. CASE UNCHANGED <<proc, fsmap, locals, stopping>>
    <2> SameCluster
      BY <1>1, ClusterKept
    <2> USE DEF SameCluster, MdsInv
    <2> UNCHANGED <<proc, holder, in, leaving, standby, laggy, max, pc, todo, cut, victim,
                    stopping, locals>>
      BY <1>6 DEF fsmap, locals
    <2>1. MdsTypes'
      BY <1>1 DEF MdsTypes
    <2>2. MapSound' /\ \A m : (InMap(m)' <=> InMap(m)) /\ (OutOfMap(m)' <=> OutOfMap(m))
      BY MapLasts
    <2>3. ClaimsSound' /\ ClaimsDiffer' /\ ReviveSound' /\ NotAgain'
      BY <1>1, <2>2, BeliefsLast
    <2>4. NotGrowing' /\ DeadAreVictims'
      BY DEF NotGrowing, DeadAreVictims
    <2>5. OneRank'
      BY OneRankLasts
    <2> QED
      BY <2>1, <2>2, <2>3, <2>4, <2>5
  <1> QED
    BY <1>2, <1>3, <1>4, <1>5, <1>6 DEF MdsNext, vars

(* The inductive invariant holds in every reachable state.                 *)
THEOREM MdsInvariance == MdsSpec => []MdsInv
  BY MdsInitial, MdsStepInv, PTL DEF MdsSpec

(* A dead MDS is always some thrasher's to revive, or was left by one that *)
(* failed.                                                                 *)
THEOREM DeadAlwaysVictims == MdsSpec => []DeadAreVictims
  <1>1. MdsInv => DeadAreVictims
    BY DEF MdsInv
  <1> QED
    BY <1>1, MdsInvariance, PTL

(* Two thrashers never have the same MDS down for ranks that exist.        *)
THEOREM VictimsAlwaysDisjoint == MdsSpec => []VictimsDisjoint
  <1>1. MdsInv => VictimsDisjoint
    <2> SUFFICES ASSUME MdsInv, NEW f \in Fs, NEW g \in Fs, f # g,
                        \A h \in {f, g} : pc[h] \in Down /\ victim[h][2] \in in[h]
                 PROVE  victim[f][1] # victim[g][1]
      BY DEF VictimsDisjoint
    <2>1. \A h \in {f, g} : victim[h] \in Claims(h) /\ Strong(h, victim[h])
      BY DEF Claims, Strong
    <2> QED
      BY <2>1 DEF MdsInv, ClaimsDiffer
  <1> QED
    BY <1>1, MdsInvariance, PTL

(* kill_mds stops the holder of the rank do_thrash has read, unless the    *)
(* rank is gone or the daemon is already down.                             *)
THEOREM AlwaysKillsRankHolder == MdsSpec => KillsRankHolder
  <1>1. MdsInv /\ [MdsNext]_vars =>
            [\A f \in Fs : pc'[f] = "crash" /\ pc[f] # "crash" =>
                holder[f][victim'[f][2]] = victim'[f][1] \/ Stale(f, victim'[f])]_vars
    <2> SUFFICES ASSUME MdsInv, MdsNext, NEW f \in Fs, pc'[f] = "crash", pc[f] # "crash"
                 PROVE  holder[f][victim'[f][2]] = victim'[f][1] \/ Stale(f, victim'[f])
      OBVIOUS
    <2>1. pc \in [Fs -> {"top", "cut", "stable"} \cup Iterating \cup Terminal]
          /\ victim \in [Fs -> (Mds \cup {None}) \X Ranks]
      BY DEF MdsInv, MdsTypes
    <2>2. KillMds(f)
      <3>1. pc' # pc
        OBVIOUS
      <3>2. ASSUME NEW g \in Fs, Proceeds(g) \/ ThrasherRaises(g), ~KillMds(g)
            PROVE  \E p \in {"raised", "done", "cut", "stable", "top", "iter", "takeover",
                             "revive", "standby"} : pc' = [pc EXCEPT ![g] = p]
        BY <3>1, <3>2 DEF Proceeds, ThrasherRaises, Stop, KeepMaxMds, ThrashMaxMds, Deactivate,
           CutEnds, WaitForStable, SkipMds, IterEnds, SeesCrash, SeesTakeover, ReviveMds,
           SeesStandby, Goto
      <3>3. ASSUME NEW g \in Fs, Proceeds(g) \/ ThrasherRaises(g) PROVE KillMds(g)
        BY <2>1, <3>2, <3>3
      <3>4. PICK g \in Fs : KillMds(g)
        BY <3>1, <3>3, SMT DEF MdsNext, JoinNext, MapChanges, MdsBoots, Laggy, Leaves,
           TakesOver,
           Grows, locals
      <3> QED
        BY <2>1, <3>4 DEF KillMds, Goto
    <2>3. PICK i \in todo[f] : victim'[f] = i
      BY <2>1, <2>2 DEF KillMds
    <2>4. i \in Claims(f)
      BY <2>2, <2>3 DEF KillMds, Claims, Iterating, Down
    <2> QED
      BY <2>3, <2>4 DEF MdsInv, ClaimsSound, Stale, OutOfMap
  <1> QED
    BY <1>1, MdsInvariance, PTL DEF MdsSpec, KillsRankHolder

(* No MDS is revived while it holds a rank.                                *)
THEOREM RevivedNeverHoldsRank == MdsSpec => RevivedHoldsNoRank
  <1>1. MdsInv /\ [MdsNext]_vars =>
            [\A m \in Mds : proc[m] = "dead" /\ proc'[m] = "booting" =>
                \A f \in Fs, r \in Ranks : holder[f][r] # m]_vars
    <2> SUFFICES ASSUME MdsInv, MdsNext, NEW m \in Mds,
                        proc[m] = "dead", proc'[m] = "booting"
                 PROVE  \A f \in Fs, r \in Ranks : holder[f][r] # m
      OBVIOUS
    <2>1. proc \in [Mds -> {"dead", "booting", "up"}]
      BY DEF MdsInv, MdsTypes
    <2>2. \E f \in Fs : ReviveMds(f)
      <3>1. proc' # proc
        OBVIOUS
      <3>2. ASSUME NEW f \in Fs, Proceeds(f) \/ ThrasherRaises(f) \/ JoinNext(f)
            PROVE  KillMds(f) \/ ReviveMds(f)
        BY <3>1, <3>2 DEF Proceeds, ThrasherRaises, JoinNext, Stop, KeepMaxMds, ThrashMaxMds,
           Deactivate, CutEnds, WaitForStable, SkipMds, IterEnds, SeesCrash, SeesTakeover,
           SeesStandby
      <3>3. ASSUME NEW f \in Fs, KillMds(f) PROVE FALSE
        BY <2>1, <3>3 DEF KillMds
      <3>4. ASSUME NEW f \in Fs, MapChanges(f) PROVE FALSE
        <4>1. PICK r \in Ranks : Leaves(f, r)
          BY <3>1, <3>4 DEF MapChanges, TakesOver, Grows
        <4> QED
          BY <2>1, <4>1 DEF Leaves
      <3>5. ASSUME NEW x \in Mds, MdsBoots(x) \/ Laggy(x) PROVE FALSE
        BY <2>1, <3>1, <3>5 DEF MdsBoots, Laggy
      <3> QED
        BY <3>1, <3>2, <3>3, <3>4, <3>5 DEF MdsNext
    <2>3. PICK f \in Fs : pc[f] = "revive" /\ victim[f][1] = m
      BY <2>1, <2>2 DEF ReviveMds
    <2> QED
      BY <2>3 DEF MdsInv, ReviveSound, OutOfMap, InMap
  <1> QED
    BY <1>1, MdsInvariance, PTL DEF MdsSpec, RevivedHoldsNoRank
=============================================================================

------------------------- MODULE OsdThrasherProofs -------------------------
(***************************************************************************)
(* Proofs about OsdThrasher, for every set of OSDs and every config that   *)
(* satisfies ConfigAssumption.                                             *)
(***************************************************************************)
EXTENDS OsdThrasher, FiniteSetTheorems, TLAPS

-----------------------------------------------------------------------------
(* Facts about the sizes of the lists.                                     *)

(* Every sublist of the OSDs is finite and has a natural size, zero only   *)
(* when it is empty.                                                       *)
LEMMA ListSize ==
    ASSUME NEW S \in SUBSET Osds
    PROVE  /\ IsFiniteSet(S)
           /\ Cardinality(S) \in Nat
           /\ Cardinality(S) = 0 <=> S = {}
  BY FS_Subset, FS_CardinalityType, FS_EmptySet, ConfigAssumption

(* Taking one OSD off a list shortens it by one.                           *)
LEMMA ListRemove ==
    ASSUME NEW S \in SUBSET Osds, NEW o \in S
    PROVE  Cardinality(S \ {o}) = Cardinality(S) - 1
  BY FS_RemoveElement, ListSize

(* Taking OSDs off a list never lengthens it.                              *)
LEMMA ListShrink ==
    ASSUME NEW S \in SUBSET Osds, NEW T \in SUBSET S
    PROVE  Cardinality(T) <= Cardinality(S)
  BY FS_Subset, ListSize

(* With at most max_dead OSDs dead, more than min_live are live.           *)
LEMMA LiveWhenFewDead ==
    ASSUME NEW L \in SUBSET Osds, Cardinality(Osds \ L) <= MaxDead
    PROVE  Cardinality(L) > MinLive
  <1> DEFINE n == Cardinality(Osds)
             d == Cardinality(Osds \ L)
             l == Cardinality(L)
  <1>1. Osds \cap L = L
    OBVIOUS
  <1>2. d = n - l
    BY <1>1, FS_Difference, ConfigAssumption
  <1>3. n \in Nat /\ l \in Nat /\ d \in Nat
    BY ListSize
  <1>4. n > MaxDead + MinLive /\ MaxDead \in Nat /\ MinLive \in Nat /\ d <= MaxDead
    BY ConfigAssumption
  <1> HIDE DEF n, d, l
  <1>5. l > MinLive
    BY <1>2, <1>3, <1>4
  <1> QED
    BY <1>5 DEF l

-----------------------------------------------------------------------------
(* The shape of a control step: it leaves the cluster alone, is taken with *)
(* no call under way, and either only moves on or begins one primitive.    *)

(* Moving on keeps lists and call; where it may lead to.                   *)
MovesOn ==
    /\ UNCHANGED <<lists, op>>
    /\ \/ phase' \in Phases \ {"discClean", "discKill", "discRevive"}
       \/ phase = "discUp" /\ phase' = "discClean"
    /\ phase' = "discIn" => Cardinality(deadOsds) <= MaxDead
    /\ phase' = "discUp" => phase = "discIn" /\ Cardinality(inOsds) >= MinIn + 1
    /\ phase' = "done" => deadOsds = {} /\ outOsds = {}

(* Beginning a kill: from choose_action, or in test_map_discontinuity.     *)
BeginsKill(o) ==
    /\ KillOsd(o)
    /\ \/ phase' = "action" /\ Cardinality(liveOsds) > MinLive
       \/ phase = "discClean" /\ phase' = "discKill"

(* Beginning any other primitive; only the in and revive of the map        *)
(* discontinuity test stay in phase discIn.                                *)
BeginsOther(o) ==
    /\ \/ ReviveOsd(o)
       \/ InOsd(o)
       \/ OutOsd(o) /\ phase' = "action" /\ Cardinality(inOsds) > MinIn
       \/ /\ op' = Call("pauseDown", o) /\ o \in liveOsds /\ phase' = "action"
          /\ UNCHANGED lists
    /\ \/ phase' \in {"clean", "discRevive", "action", "minSizeUp", "final"}
       \/ phase = "discIn" /\ phase' = "discIn"

(* Every control step has that shape.                                      *)
LEMMA ControlShape ==
    ASSUME TypeOK, Control
    PROVE  /\ op = Idle
           /\ phase \notin Terminal
           /\ UNCHANGED <<stopping, cluster, recovered>>
           /\ MovesOn \/ \E o \in Osds : BeginsKill(o) \/ BeginsOther(o)
  <1> USE DEF At, Goto, Begin, MovesOn, Phases, Terminal
  <1>a. UNCHANGED <<stopping, cluster, recovered>>
    BY DEF Control
  <1>b. ASSUME NEW p \in {"minSizeUp", "final"}, NEW n \in {"minSizeWait", "done"},
               AllUp(p, n), n = "done" => p = "final"
        PROVE  /\ op = Idle /\ phase \notin Terminal
               /\ MovesOn \/ \E o \in Osds : BeginsKill(o) \/ BeginsOther(o)
    <2>1. CASE deadOsds = {} /\ outOsds = {} /\ Goto(n)
      BY <1>b, <2>1 DEF AllUp
    <2>2. CASE \E o \in deadOsds : Begin(p, ReviveOsd(o))
      BY <1>b, <2>2 DEF AllUp, BeginsOther, TypeOK
    <2>3. CASE deadOsds = {} /\ \E o \in outOsds : Begin(p, InOsd(o))
      BY <1>b, <2>3 DEF AllUp, BeginsOther, TypeOK
    <2> QED
      BY <1>b, <2>1, <2>2, <2>3 DEF AllUp
  <1>1. CASE LoopTop
    BY <1>1, <1>a DEF LoopTop
  <1>2. CASE CleanInterval
    BY <1>2, <1>a DEF CleanInterval, BeginsOther, TypeOK
  <1>3. CASE TestMapDiscontinuity
    BY <1>3, <1>a DEF TestMapDiscontinuity, EnoughIn, BeginsKill, BeginsOther, TypeOK
  <1>4. CASE ChooseAction
    BY <1>4, <1>a DEF ChooseAction, MayOut, MayKill, BeginsKill, BeginsOther, TypeOK
  <1>5. CASE ActionReturns
    BY <1>5, <1>a DEF ActionReturns
  <1>6. CASE TestPoolMinSize
    BY <1>6, <1>a, <1>b DEF TestPoolMinSize
  <1>7. CASE AllUp("final", "done")
    BY <1>7, <1>a, <1>b
  <1>8. CASE WaitTimesOut
    BY <1>8, <1>a DEF WaitTimesOut
  <1> QED
    BY <1>1, <1>2, <1>3, <1>4, <1>5, <1>6, <1>7, <1>8 DEF Control

-----------------------------------------------------------------------------
(* A call under way names an OSD.                                          *)
LEMMA CallOsd ==
    ASSUME TypeOK, op.call \in Calls
    PROVE  op.osd \in Osds
  <1>1. op # Idle
    BY DEF Idle, Calls
  <1> QED
    BY <1>1 DEF TypeOK, Ops

(* A new call is a value of op, and says what it was made of.              *)
LEMMA CallType ==
    ASSUME NEW c \in Calls, NEW o \in Osds
    PROVE  /\ Call(c, o) \in Ops /\ Idle \in Ops
           /\ Call(c, o).call = c /\ Call(c, o).osd = o
           /\ Call(c, o) # Idle
  <1>1. Call(c, o).call = c /\ Idle.call = "none" /\ c # "none"
    BY DEF Call, Idle, Calls
  <1> QED
    BY <1>1 DEF Call, Ops

-----------------------------------------------------------------------------
(* What the surroundings and an exception change.                          *)

(* A step of the surroundings changes neither lists nor phase nor call,    *)
(* nor which daemons run, nor which OSDs are in.                           *)
LEMMA EnvironmentShape ==
    ASSUME TypeOK, Environment
    PROVE  /\ UNCHANGED <<lists, phase, op, running, mapIn>>
           /\ stopping' \in BOOLEAN /\ recovered' \in BOOLEAN
           /\ up' \subseteq Osds
  BY DEF Environment, Join, ClusterRecovers, MonMarksDown, OsdBoots, TypeOK,
         cluster

(* Every step keeps the types, and so the lists split the OSDs.            *)
LEMMA TypeStep == TypeOK /\ [Next]_vars => TypeOK'
  <1> SUFFICES ASSUME TypeOK, [Next]_vars PROVE TypeOK'
    OBVIOUS
  <1>1. CASE CallStep
    <2> USE <1>1 DEF Return, lists, cluster, TypeOK
    <2>a. UNCHANGED <<phase, stopping>>
      BY DEF CallStep
    <2>b. ASSUME NEW c \in Calls, op.call \in Calls, op' \in {Idle, Call(c, op.osd)}
          PROVE  op.osd \in Osds /\ op' \in Ops
      BY <2>b, CallOsd, CallType
    <2>1. CASE StopDaemon
      <3>1. op.call \in Calls /\ op' \in {Idle, Call("down", op.osd)}
        BY <2>1 DEF StopDaemon, Calls
      <3>2. op.osd \in Osds /\ op' \in Ops
        BY <3>1, <2>b DEF Calls
      <3> QED  BY <2>1, <2>a, <3>2 DEF StopDaemon
    <2>2. CASE MarkDownOsd
      <3>1. op.call \in Calls /\ op' \in {Idle, Call("markOut", op.osd)}
        BY <2>2 DEF MarkDownOsd, Calls
      <3>2. op.osd \in Osds /\ op' \in Ops
        BY <3>1, <2>b DEF Calls
      <3> QED  BY <2>2, <2>a, <3>2 DEF MarkDownOsd
    <2>3. CASE MarkOutOsd
      <3>1. op.call \in Calls /\ op' \in {Idle, Call("outList", op.osd)}
        BY <2>3 DEF MarkOutOsd, Calls
      <3>2. op.osd \in Osds /\ op' \in Ops
        BY <3>1, <2>b DEF Calls
      <3> QED  BY <2>3, <2>a, <3>2 DEF MarkOutOsd
    <2>4. CASE OutListed
      <3>1. op.call \in Calls /\ op' \in {Idle, Call("stop", op.osd)}
        BY <2>4 DEF OutListed, Calls
      <3>2. op.osd \in Osds /\ op' \in Ops
        BY <3>1, <2>b DEF Calls
      <3> QED  BY <2>4, <2>a, <3>2 DEF OutListed
    <2>5. CASE RestartDaemon
      <3>1. op.call \in Calls /\ op' \in {Idle, Call("asok", op.osd)}
        BY <2>5 DEF RestartDaemon, Calls
      <3>2. op.osd \in Osds /\ op' \in Ops
        BY <3>1, <2>b DEF Calls
      <3> QED  BY <2>5, <2>a, <3>2 DEF RestartDaemon
    <2>6. CASE AdminSocketUp
      <3>1. op.call \in Calls /\ op' \in {Idle, Call("stop", op.osd)}
        BY <2>6 DEF AdminSocketUp, Calls
      <3>2. op.osd \in Osds /\ op' \in Ops
        BY <3>1, <2>b DEF Calls
      <3> QED  BY <2>6, <2>a, <3>2 DEF AdminSocketUp
    <2>7. CASE MarkInOsd
      <3>1. op.call \in Calls /\ op' \in {Idle, Call("stop", op.osd)}
        BY <2>7 DEF MarkInOsd, Calls
      <3>2. op.osd \in Osds /\ op' \in Ops
        BY <3>1, <2>b DEF Calls
      <3> QED  BY <2>7, <2>a, <3>2 DEF MarkInOsd
    <2> QED  BY <2>1, <2>2, <2>3, <2>4, <2>5, <2>6, <2>7 DEF CallStep
  <1>2. CASE PauseCheck
    <2>1. op.osd \in Osds
      BY <1>2, CallOsd DEF PauseCheck, Calls
    <2>2. op' \in {Idle, op, Call("pauseUp", op.osd)} /\ phase' \in {phase, "raised"}
      BY <1>2 DEF PauseCheck, Return
    <2>3. op' \in Ops
      BY <2>1, <2>2, CallType DEF TypeOK, Calls
    <2> QED
      BY <1>2, <2>2, <2>3 DEF PauseCheck, lists, cluster, TypeOK, Phases, Terminal
  <1>3. CASE Control
    <2>1. UNCHANGED <<stopping, cluster, recovered>>
      BY <1>3, ControlShape
    <2>2. CASE MovesOn
      BY <2>1, <2>2 DEF MovesOn, lists, cluster, TypeOK, Phases
    <2>3. ASSUME NEW o \in Osds, BeginsKill(o) PROVE TypeOK'
      BY <2>1, <2>3, CallType DEF BeginsKill, KillOsd, Calls, lists, cluster, TypeOK,
                        Phases
    <2>4. ASSUME NEW o \in Osds, BeginsOther(o) PROVE TypeOK'
      <3>1. phase' \in Phases
        BY <2>4 DEF BeginsOther, Phases
      <3>2. CASE ReviveOsd(o)
        BY <2>1, <3>1, <3>2, CallType DEF ReviveOsd, Calls, lists, cluster, TypeOK
      <3>3. CASE InOsd(o)
        BY <2>1, <3>1, <3>3, CallType DEF InOsd, ReviveOsd, Calls, lists, cluster, TypeOK
      <3>4. CASE OutOsd(o)
        BY <2>1, <3>1, <3>4, CallType DEF OutOsd, Calls, lists, cluster, TypeOK
      <3>5. CASE op' = Call("pauseDown", o) /\ UNCHANGED lists
        BY <2>1, <3>1, <3>5, CallType DEF Calls, lists, cluster, TypeOK
      <3> QED
        BY <2>4, <3>2, <3>3, <3>4, <3>5 DEF BeginsOther
    <2> QED
      BY <1>3, <2>2, <2>3, <2>4, ControlShape
  <1>4. CASE CallRaises
    BY <1>4 DEF CallRaises, lists, cluster, TypeOK, Phases, Terminal
  <1>5. CASE Environment
    BY <1>5, EnvironmentShape DEF lists, TypeOK
  <1>6. CASE UNCHANGED vars
    BY <1>6 DEF vars, lists, cluster, TypeOK
  <1> QED
    BY <1>1, <1>2, <1>3, <1>4, <1>5, <1>6 DEF Next, DoThrash, Proceeds

(* The lists always split the OSDs and every variable has its type.        *)
THEOREM TypeCorrect == Spec => []TypeOK
  <1>1. Init => TypeOK
    BY DEF Init, TypeOK, Ops, Phases
  <1> QED
    BY <1>1, TypeStep, PTL DEF Spec

-----------------------------------------------------------------------------
(* The inductive invariant.                                                *)

(* The idle op is inside no call.                                          *)
LEMMA IdleCall == Idle.call = "none"
  BY DEF Idle

(* A cluster call, and the list changes that follow it, keep the           *)
(* invariant.                                                              *)
LEMMA CallStepInv ==
    ASSUME IndInv, TypeOK', CallStep
    PROVE  IndInv'
  <1> USE DEF IndInv, Return
  <1>a. UNCHANGED phase /\ phase \notin Terminal
    BY DEF CallStep
  <1>t. /\ MinIn \in Nat \ {0} /\ MinLive \in Nat /\ MaxDead \in Nat
        /\ inOsds \in SUBSET Osds /\ deadOsds \in SUBSET Osds
    BY ConfigAssumption DEF TypeOK
  <1>n. Ended'
    BY <1>a DEF Ended, Terminal
  <1>1. CASE StopDaemon
    <2>1. op.call = "stop" /\ op.osd \in Osds
      BY <1>1, CallOsd DEF StopDaemon, Calls
    <2>2. \/ op'.call = "none"
          \/ op'.call = "down" /\ op'.osd = op.osd
      BY <1>1, <2>1, CallType, IdleCall DEF StopDaemon, Calls
    <2>3. CallBooks'
      BY <1>1, <2>1, <2>2 DEF StopDaemon, CallBooks, TypeOK, lists, cluster
    <2>4. OutRoom'
      BY <1>1, <1>a, <1>t, <2>1, <2>2, IdleCall DEF StopDaemon, OutRoom, lists, cluster
    <2>5. KillRoom'
      BY <1>1, <1>a, <1>t, <2>1 DEF StopDaemon, KillRoom, lists, cluster
    <2>6. LiveNeverEmpty' /\ InNeverEmpty'
      BY <1>1, <2>1 DEF StopDaemon, LiveNeverEmpty, InNeverEmpty, lists, cluster
    <2> QED  BY <2>3, <2>4, <2>5, <2>6, <1>n
  <1>2. CASE MarkDownOsd
    <2>1. op.call = "down" /\ op.osd \in Osds
      BY <1>2, CallOsd DEF MarkDownOsd, Calls
    <2>2. \/ op'.call = "none"
          \/ op'.call = "markOut" /\ op'.osd = op.osd
      BY <1>2, <2>1, CallType, IdleCall DEF MarkDownOsd, Calls
    <2>3. CallBooks'
      <3>1. /\ UNCHANGED <<inOsds, liveOsds, deadOsds, running, mapIn>>
            /\ op'.call = "markOut" => op.osd \in inOsds
        BY <1>2, <2>2, IdleCall DEF MarkDownOsd, lists
      <3> QED  BY <2>1, <2>2, <3>1 DEF CallBooks
    <2>4. OutRoom'
      BY <1>2, <1>a, <1>t, <2>1, <2>2, IdleCall DEF MarkDownOsd, OutRoom, lists, cluster
    <2>5. KillRoom'
      BY <1>2, <1>a, <1>t, <2>1 DEF MarkDownOsd, KillRoom, lists, cluster
    <2>6. LiveNeverEmpty' /\ InNeverEmpty'
      BY <1>2, <2>1 DEF MarkDownOsd, LiveNeverEmpty, InNeverEmpty, lists, cluster
    <2> QED  BY <2>3, <2>4, <2>5, <2>6, <1>n
  <1>3. CASE MarkOutOsd
    <2>1. op.call = "markOut" /\ op.osd \in Osds
      BY <1>3, CallOsd DEF MarkOutOsd, Calls
    <2>2. op'.call = "outList" /\ op'.osd = op.osd
      BY <1>3, <2>1, CallType DEF MarkOutOsd, Calls
    <2>3. CallBooks'
      BY <1>3, <2>1, <2>2 DEF MarkOutOsd, CallBooks, TypeOK, lists, cluster
    <2>4. OutRoom'
      BY <1>3, <1>a, <1>t, <2>1, <2>2, IdleCall DEF MarkOutOsd, OutRoom, lists, cluster
    <2>5. KillRoom'
      BY <1>3, <1>a, <1>t, <2>1 DEF MarkOutOsd, KillRoom, lists, cluster
    <2>6. LiveNeverEmpty' /\ InNeverEmpty'
      BY <1>3, <2>1 DEF MarkOutOsd, LiveNeverEmpty, InNeverEmpty, lists, cluster
    <2> QED  BY <2>3, <2>4, <2>5, <2>6, <1>n
  <1>4. CASE OutListed
    <2>1. op.call = "outList" /\ op.osd \in Osds
      BY <1>4, CallOsd DEF OutListed, Calls
    <2>2. op'.call = "none"
      BY <1>4, IdleCall DEF OutListed
    <2>3. CallBooks'
      BY <1>4, <2>1, <2>2 DEF OutListed, CallBooks, TypeOK, lists, cluster
    <2>4. OutRoom'
      BY <1>4, <1>a, <1>t, <2>1, <2>2, IdleCall DEF OutListed, OutRoom, lists, cluster
    <2>5. KillRoom'
      BY <1>4, <1>a, <1>t, <2>1 DEF OutListed, KillRoom, lists, cluster
    <2>6. LiveNeverEmpty' /\ InNeverEmpty'
      <3>1. /\ Cardinality(inOsds) > MinIn /\ op.osd \in inOsds
            /\ inOsds' = inOsds \ {op.osd} /\ liveOsds' = liveOsds
        BY <1>4, <2>1 DEF OutListed, OutRoom, CallBooks
      <3>2. Cardinality(inOsds') = Cardinality(inOsds) - 1 /\ Cardinality(inOsds) \in Nat
        BY <3>1, <1>t, ListRemove, ListSize
      <3>3. Cardinality(inOsds') # 0
        BY <3>1, <3>2, <1>t
      <3>4. inOsds' # {}
        BY <3>3, FS_EmptySet
      <3> QED  BY <3>1, <3>4 DEF LiveNeverEmpty, InNeverEmpty
    <2> QED  BY <2>3, <2>4, <2>5, <2>6, <1>n
  <1>5. CASE RestartDaemon
    <2>1. op.call = "restart" /\ op.osd \in Osds
      BY <1>5, CallOsd DEF RestartDaemon, Calls
    <2>2. op'.call = "asok" /\ op'.osd = op.osd
      BY <1>5, <2>1, CallType DEF RestartDaemon, Calls
    <2>3. CallBooks'
      BY <1>5, <2>1, <2>2 DEF RestartDaemon, CallBooks, TypeOK, lists, cluster
    <2>4. OutRoom'
      BY <1>5, <1>a, <1>t, <2>1, <2>2, IdleCall DEF RestartDaemon, OutRoom, lists, cluster
    <2>5. KillRoom'
      BY <1>5, <1>a, <1>t, <2>1 DEF RestartDaemon, KillRoom, lists, cluster
    <2>6. LiveNeverEmpty' /\ InNeverEmpty'
      BY <1>5, <2>1 DEF RestartDaemon, LiveNeverEmpty, InNeverEmpty, lists, cluster
    <2> QED  BY <2>3, <2>4, <2>5, <2>6, <1>n
  <1>6. CASE AdminSocketUp
    <2>1. op.call = "asok" /\ op.osd \in Osds
      BY <1>6, CallOsd DEF AdminSocketUp, Calls
    <2>2. op'.call = "none"
      BY <1>6, IdleCall DEF AdminSocketUp
    <2>3. CallBooks'
      BY <1>6, <2>1, <2>2 DEF AdminSocketUp, CallBooks, TypeOK, lists, cluster
    <2>4. OutRoom'
      BY <1>6, <1>a, <1>t, <2>1, <2>2, IdleCall DEF AdminSocketUp, OutRoom, lists, cluster
    <2>5. KillRoom'
      <3>1. deadOsds' \in SUBSET deadOsds /\ deadOsds' \in SUBSET Osds
        BY <1>6, <1>t DEF AdminSocketUp
      <3>2. Cardinality(deadOsds') <= Cardinality(deadOsds)
        BY <3>1, <1>t, ListShrink
      <3>3. Cardinality(deadOsds') \in Nat /\ Cardinality(deadOsds) \in Nat
        BY <3>1, <1>t, ListSize
      <3> QED  BY <3>2, <3>3, <1>a, <1>t DEF KillRoom
    <2>6. LiveNeverEmpty' /\ InNeverEmpty'
      BY <1>6, <2>1 DEF AdminSocketUp, LiveNeverEmpty, InNeverEmpty, lists, cluster
    <2> QED  BY <2>3, <2>4, <2>5, <2>6, <1>n
  <1>7. CASE MarkInOsd
    <2>1. op.call = "markIn" /\ op.osd \in Osds
      BY <1>7, CallOsd DEF MarkInOsd, Calls
    <2>2. op'.call = "none"
      BY <1>7, IdleCall DEF MarkInOsd
    <2>3. CallBooks'
      BY <1>7, <2>1, <2>2 DEF MarkInOsd, CallBooks, TypeOK, lists, cluster
    <2>4. OutRoom'
      BY <1>7, <1>a, <1>t, <2>1, <2>2, IdleCall DEF MarkInOsd, OutRoom, lists, cluster
    <2>5. KillRoom'
      BY <1>7, <1>a, <1>t, <2>1 DEF MarkInOsd, KillRoom, lists, cluster
    <2>6. LiveNeverEmpty' /\ InNeverEmpty'
      BY <1>7, <2>1 DEF MarkInOsd, LiveNeverEmpty, InNeverEmpty, lists, cluster
    <2> QED  BY <2>3, <2>4, <2>5, <2>6, <1>n
  <1> QED
    BY <1>1, <1>2, <1>3, <1>4, <1>5, <1>6, <1>7 DEF CallStep

(* A control step of do_thrash keeps the invariant.                        *)
LEMMA ControlInv ==
    ASSUME IndInv, TypeOK', Control
    PROVE  IndInv'
  <1> USE DEF IndInv
  <1>a. /\ op = Idle /\ op.call = "none"
        /\ running' = running /\ mapIn' = mapIn
        /\ running = liveOsds /\ mapIn = inOsds
    BY ControlShape, IdleCall DEF CallBooks, cluster
  <1>t. /\ MinIn \in Nat \ {0} /\ MinLive \in Nat /\ MaxDead \in Nat
        /\ inOsds \in SUBSET Osds /\ liveOsds \in SUBSET Osds
        /\ deadOsds = Osds \ liveOsds /\ outOsds = Osds \ inOsds
        /\ Cardinality(inOsds) \in Nat /\ Cardinality(liveOsds) \in Nat
    BY ConfigAssumption, ListSize DEF TypeOK
  <1>1. CASE MovesOn
    <2>1. UNCHANGED <<inOsds, outOsds, liveOsds, deadOsds, op>>
      BY <1>1 DEF MovesOn, lists
    <2>2. CallBooks'
      BY <1>a, <2>1 DEF CallBooks
    <2>3. OutRoom' /\ KillRoom'
      BY <1>1, <1>a, <1>t, <2>1 DEF MovesOn, OutRoom, KillRoom
    <2>4. Ended'
      BY <1>1, <1>a, <2>1 DEF MovesOn, Ended
    <2> QED
      BY <2>1, <2>2, <2>3, <2>4 DEF LiveNeverEmpty, InNeverEmpty
  <1>2. ASSUME NEW o \in Osds, BeginsKill(o) PROVE IndInv'
    <2>1. /\ op'.call = "stop" /\ op'.osd = o
          /\ o \in liveOsds /\ liveOsds' = liveOsds \ {o}
          /\ deadOsds' = deadOsds \cup {o}
          /\ UNCHANGED <<inOsds, outOsds>>
      BY <1>2, CallType DEF BeginsKill, KillOsd, Calls
    <2>2. phase' \in {"action", "discKill"}
      BY <1>2 DEF BeginsKill
    <2>3. phase' = "discKill" => phase = "discClean"
      BY <1>2 DEF BeginsKill
    <2>4. CallBooks'
      BY <1>a, <2>1 DEF CallBooks
    <2>5. OutRoom'
      BY <1>t, <2>1, <2>2, <2>3 DEF OutRoom
    <2>6. Cardinality(liveOsds) > MinLive
      BY <1>2, <1>t, LiveWhenFewDead DEF BeginsKill, KillRoom
    <2>7. LiveNeverEmpty'
      <3>1. Cardinality(liveOsds') = Cardinality(liveOsds) - 1
        BY <1>t, <2>1, ListRemove
      <3>2. MinLive > 0 => Cardinality(liveOsds') # 0
        BY <1>t, <2>6, <3>1
      <3> QED
        BY <3>2, FS_EmptySet DEF LiveNeverEmpty
    <2> QED
      BY <2>1, <2>2, <2>4, <2>5, <2>7 DEF KillRoom, Ended, InNeverEmpty
  <1>3. ASSUME NEW o \in Osds, BeginsOther(o) PROVE IndInv'
    <2>1. /\ liveOsds' = liveOsds /\ deadOsds' = deadOsds
          /\ inOsds' = inOsds \/ inOsds' = inOsds \cup {o}
      BY <1>3 DEF BeginsOther, ReviveOsd, InOsd, OutOsd, lists
    <2>2. /\ phase' \notin {"discUp", "discClean", "discKill", "done"}
          /\ phase' = "discIn" => phase = "discIn"
      BY <1>3 DEF BeginsOther
    <2>3. CASE ReviveOsd(o)
      <3>1. op'.call = "restart" /\ op'.osd = o /\ o \in deadOsds /\ inOsds' = inOsds
        BY <2>3, CallType DEF ReviveOsd, Calls, lists
      <3>2. CallBooks' /\ OutRoom' /\ KillRoom' /\ Ended'
        BY <1>a, <2>1, <2>2, <3>1 DEF CallBooks, OutRoom, KillRoom, Ended
      <3> QED
        BY <2>1, <3>1, <3>2 DEF LiveNeverEmpty, InNeverEmpty
    <2>4. CASE InOsd(o) /\ ~ReviveOsd(o)
      <3>1. /\ op'.call = "markIn" /\ op'.osd = o /\ o \in outOsds
            /\ inOsds' = inOsds \cup {o}
        BY <2>4, CallType DEF InOsd, Calls
      <3>2. CallBooks' /\ OutRoom' /\ KillRoom' /\ Ended'
        BY <1>a, <1>t, <2>1, <2>2, <3>1 DEF CallBooks, OutRoom, KillRoom, Ended
      <3> QED
        BY <2>1, <3>1, <3>2 DEF LiveNeverEmpty, InNeverEmpty
    <2>5. CASE OutOsd(o) /\ Cardinality(inOsds) > MinIn
      <3>1. op'.call = "markOut" /\ op'.osd = o /\ o \in inOsds /\ inOsds' = inOsds
        BY <2>5, CallType DEF OutOsd, Calls, lists
      <3>2. CallBooks' /\ OutRoom' /\ KillRoom' /\ Ended'
        BY <1>a, <2>1, <2>2, <2>5, <3>1 DEF CallBooks, OutRoom, KillRoom, Ended
      <3> QED
        BY <2>1, <3>1, <3>2 DEF LiveNeverEmpty, InNeverEmpty
    <2>6. CASE op' = Call("pauseDown", o) /\ UNCHANGED lists
      <3>1. op'.call = "pauseDown" /\ inOsds' = inOsds
        BY <2>6, CallType DEF Calls, lists
      <3>2. CallBooks' /\ OutRoom' /\ KillRoom' /\ Ended'
        BY <1>a, <2>1, <2>2, <3>1 DEF CallBooks, OutRoom, KillRoom, Ended
      <3> QED
        BY <2>1, <3>1, <3>2 DEF LiveNeverEmpty, InNeverEmpty
    <2> QED
      BY <1>3, <2>3, <2>4, <2>5, <2>6 DEF BeginsOther
  <1> QED
    BY <1>1, <1>2, <1>3, ControlShape

(* Every step keeps the invariant.                                         *)
LEMMA IndInvStep == IndInv /\ [Next]_vars => IndInv'
  <1> SUFFICES ASSUME IndInv, [Next]_vars PROVE IndInv'
    OBVIOUS
  <1>a. TypeOK /\ TypeOK'
    BY TypeStep DEF IndInv
  <1>1. CASE CallStep
    BY <1>1, <1>a, CallStepInv
  <1>2. CASE PauseCheck
    <2>1. op.call \in {"pauseDown", "pauseUp"} /\ op.osd \in Osds
      BY <1>2, <1>a, CallOsd DEF PauseCheck, Calls
    <2>2. op'.call \in {"none", "pauseDown", "pauseUp"}
      <3>1. op' \in {Idle, op, Call("pauseUp", op.osd)}
        BY <1>2 DEF PauseCheck, Return
      <3> QED
        BY <2>1, <3>1, CallType, IdleCall DEF Calls
    <2>3. /\ UNCHANGED <<inOsds, outOsds, liveOsds, deadOsds, running, mapIn>>
          /\ phase' \in {phase, "raised"} /\ phase \notin Terminal
      BY <1>2 DEF PauseCheck, lists, cluster
    <2>4. op # Idle
      BY <2>1, IdleCall
    <2>5. CallBooks' /\ KillRoom' /\ Ended'
      BY <2>1, <2>2, <2>3 DEF IndInv, CallBooks, KillRoom, Ended, Terminal
    <2>6. OutRoom'
      BY <2>1, <2>2, <2>3, <2>4 DEF IndInv, OutRoom, Terminal
    <2> QED
      BY <1>a, <2>3, <2>5, <2>6 DEF IndInv, LiveNeverEmpty, InNeverEmpty
  <1>3. CASE Control
    BY <1>3, <1>a, ControlInv
  <1>4. CASE CallRaises
    BY <1>4, <1>a DEF CallRaises, lists, cluster, IndInv, CallBooks, OutRoom,
                      KillRoom, Ended, LiveNeverEmpty, InNeverEmpty
  <1>5. CASE Environment
    BY <1>5, <1>a, EnvironmentShape DEF lists, IndInv, CallBooks, OutRoom,
                      KillRoom, Ended, LiveNeverEmpty, InNeverEmpty
  <1>6. CASE UNCHANGED vars
    BY <1>6, <1>a DEF vars, lists, cluster, IndInv, CallBooks, OutRoom,
                      KillRoom, Ended, LiveNeverEmpty, InNeverEmpty
  <1> QED
    BY <1>1, <1>2, <1>3, <1>4, <1>5, <1>6 DEF Next, DoThrash, Proceeds

(* The inductive invariant holds throughout.                               *)
THEOREM Invariance == Spec => []IndInv
  <1>1. Init => IndInv
    <2> SUFFICES ASSUME Init PROVE IndInv
      OBVIOUS
    <2>1. TypeOK
      BY DEF Init, TypeOK, Ops, Phases
    <2> QED
      BY <2>1, IdleCall DEF Init, IndInv, CallBooks, OutRoom, KillRoom, Ended,
                            LiveNeverEmpty, InNeverEmpty
  <1> QED
    BY <1>1, IndInvStep, PTL DEF Spec

-----------------------------------------------------------------------------
(* What follows from it.                                                   *)

(* do_sighup and do_dump_ops, which pick from live_osds at any moment,     *)
(* always pick an OSD whose daemon runs, half-done and failed kills and    *)
(* revives included.                                                       *)
THEOREM LiveDaemonsAlwaysRun == Spec => []LiveDaemonsRun
  <1>1. IndInv => LiveDaemonsRun
    BY DEF IndInv, CallBooks, LiveDaemonsRun
  <1> QED
    BY <1>1, Invariance, PTL

(* No OSD that out_osds lists takes part in data placement.                *)
THEOREM MapInAlwaysListed == Spec => []MapInIsListed
  <1>1. IndInv => MapInIsListed
    BY DEF IndInv, CallBooks, MapInIsListed
  <1> QED
    BY <1>1, Invariance, PTL

(* Between two primitives the lists are what the cluster is.               *)
THEOREM BooksAlwaysAgree == Spec => []BooksAgree
  <1>1. IndInv => BooksAgree
    BY IdleCall DEF IndInv, CallBooks, BooksAgree
  <1> QED
    BY <1>1, Invariance, PTL

(* random.choice over live_osds never raises when min_live is positive.    *)
THEOREM SomeOsdLives == Spec => []LiveNeverEmpty
  <1>1. IndInv => LiveNeverEmpty
    BY DEF IndInv
  <1> QED
    BY <1>1, Invariance, PTL

(* random.choice over in_osds never raises.                                *)
THEOREM SomeOsdIsIn == Spec => []InNeverEmpty
  <1>1. IndInv => InNeverEmpty
    BY DEF IndInv
  <1> QED
    BY <1>1, Invariance, PTL

(* A do_thrash that returns leaves every OSD running and in.               *)
THEOREM EndsAllUp == Spec => []AllUpAtEnd
  <1>1. IndInv => AllUpAtEnd
    BY IdleCall DEF IndInv, CallBooks, Ended, TypeOK, AllUpAtEnd
  <1> QED
    BY <1>1, Invariance, PTL

-----------------------------------------------------------------------------
(* The thrasher implements OsdMembership.                                  *)

(* Both modules count with the same operator.                              *)
LEMMA SameCount ==
    ASSUME NEW S
    PROVE  Membership!Cardinality(S) = Cardinality(S)
  BY DEF Membership!Cardinality, Cardinality

(* Every step is a kill with more than min_live OSDs live, a revive, an    *)
(* out with more than min_in OSDs in, an in, or leaves both lists alone.   *)
LEMMA MembershipStep ==
    ASSUME IndInv, [Next]_vars
    PROVE  [Membership!MembershipNext]_(Membership!membershipVars)
  <1> USE DEF Membership!MembershipNext, Membership!membershipVars
  <1>a. TypeOK
    BY DEF IndInv
  <1>1. CASE CallStep
    <2>1. CASE OutListed
      <3>1. op.osd \in inOsds /\ Cardinality(inOsds) > MinIn /\ op.osd \in Osds
        BY <2>1, <1>a DEF OutListed, IndInv, CallBooks, OutRoom, TypeOK
      <3>2. Membership!MarkOut(op.osd)
        BY <2>1, <3>1, SameCount DEF OutListed, Membership!MarkOut
      <3> QED  BY <3>1, <3>2
    <2>2. CASE AdminSocketUp
      <3>1. op.osd \in Osds
        BY <2>2, <1>a, CallOsd DEF AdminSocketUp, Calls
      <3>2. Membership!Revive(op.osd)
        BY <2>2 DEF AdminSocketUp, Membership!Revive
      <3> QED  BY <3>1, <3>2
    <2>3. CASE UNCHANGED lists
      BY <2>3 DEF lists
    <2> QED
      BY <1>1, <2>1, <2>2, <2>3
         DEF CallStep, StopDaemon, MarkDownOsd, MarkOutOsd, RestartDaemon, MarkInOsd
  <1>2. CASE PauseCheck \/ CallRaises \/ Environment \/ UNCHANGED vars
    <2>1. CASE Environment
      BY <2>1, <1>a, EnvironmentShape DEF lists
    <2>2. CASE PauseCheck \/ CallRaises \/ UNCHANGED vars
      BY <2>2 DEF PauseCheck, CallRaises, vars, lists
    <2> QED
      BY <1>2, <2>1, <2>2
  <1>3. CASE Control
    <2>1. CASE MovesOn
      BY <2>1 DEF MovesOn, lists
    <2>2. ASSUME NEW o \in Osds, BeginsKill(o)
          PROVE  Membership!Kill(o)
      <3>1. Cardinality(liveOsds) > MinLive
        BY <2>2, <1>a, LiveWhenFewDead DEF BeginsKill, IndInv, KillRoom, TypeOK
      <3> QED
        BY <2>2, <3>1, SameCount DEF BeginsKill, KillOsd, Membership!Kill
    <2>3. ASSUME NEW o \in Osds, BeginsOther(o)
          PROVE  Membership!MarkIn(o) \/ UNCHANGED <<liveOsds, inOsds>>
      BY <2>3 DEF BeginsOther, ReviveOsd, InOsd, OutOsd, lists, Membership!MarkIn
    <2> QED
      BY <1>3, <1>a, <2>1, <2>2, <2>3, ControlShape
  <1> QED
    BY <1>1, <1>2, <1>3 DEF Next, DoThrash, Proceeds

(* The thrasher kills and marks out only above the configured floors, in   *)
(* every interleaving, from every initial cluster.                         *)
THEOREM ThrasherKeepsMembership == Spec => KeepsMembership
  <1>1. Init => Membership!MembershipInit
    BY DEF Init, Membership!MembershipInit
  <1> QED
    BY <1>1, Invariance, MembershipStep, PTL
       DEF Spec, KeepsMembership, Membership!MembershipSpec

=============================================================================

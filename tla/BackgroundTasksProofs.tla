----------------------- MODULE BackgroundTasksProofs -----------------------
(***************************************************************************)
(* Proofs about BackgroundTasks, for every configuration of the tasks: any *)
(* pools, min_snaps and max_snaps, any resend interval, any configuration  *)
(* of the skew check, any of the scrub tests as the body.                  *)
(***************************************************************************)
EXTENDS BackgroundTasks, TLAPS

-----------------------------------------------------------------------------
(* The snapshots.                                                          *)

Target == IF op = "add" THEN snaps \cup {snap} ELSE snaps \ {snap}

(* An operation has reached the pools up to `done', or, when its command   *)
(* failed, some of them.                                                   *)
SnapInv ==
    /\ DOMAIN taken = Indices /\ done \in Nat
    /\ snapper \in {"none", "top", "sleep", "busy", "ended", "raised"}
    /\ op = "none" <=> snapper \notin {"busy", "raised"}
    /\ op = "none" => \A i \in Indices : taken[i] = snaps
    /\ snapper = "busy" => \A i \in Indices : taken[i] = (IF i <= done THEN Target ELSE snaps)
    /\ snapper = "raised" => \A i \in Indices : taken[i] \in {snaps, Target}

LEMMA PoolIndices == Len(Pools) \in Nat /\ Indices = 1 .. Len(Pools)
  BY SnapsAssumption DEF Indices

LEMMA SnapInitial == ASSUME NEW w, SnapInit(w) PROVE SnapInv
  BY PoolIndices DEF SnapInit, SnapInv

LEMMA SnapStepInv == SnapInv /\ SnapStep => SnapInv'
  <1> SUFFICES ASSUME SnapInv, SnapStep PROVE SnapInv'
    OBVIOUS
  <1> USE PoolIndices
  <1>1. CASE SnapTop
    BY <1>1 DEF SnapTop, SnapInv, Target
  <1>2. CASE ChooseOp
    BY <1>2 DEF ChooseOp, SnapInv, Target
  <1>3. CASE PoolCmd
    <2> DEFINE i == done + 1
    <2>1. snapper = "busy" /\ done < Len(Pools) /\ UNCHANGED <<snaps, op, snap>>
      BY <1>3 DEF PoolCmd
    <2>2. i \in Indices /\ ~(i <= done) /\ op # "none"
      BY <2>1 DEF SnapInv
    <2>3. taken[i] = snaps
      BY <2>1, <2>2 DEF SnapInv
    <2>4. /\ i \in Indices /\ snapper = "busy" /\ op # "none" /\ UNCHANGED <<snaps, op, snap>>
          /\ taken[i] = snaps /\ Applied(i) = Target
      BY <2>1, <2>2, <2>3 DEF Target, Applied
    <2>5. Target' = Target
      BY <2>4 DEF Target
    <2> HIDE DEF Target
    <2>6. CASE taken' = [taken EXCEPT ![i] = Applied(i)] /\ done' = i /\ snapper' = snapper
      BY <2>4, <2>5, <2>6 DEF SnapInv
    <2>7. CASE taken' \in {taken, [taken EXCEPT ![i] = Applied(i)]} /\ done' = done
               /\ snapper' = "raised"
      BY <2>4, <2>5, <2>7 DEF SnapInv
    <2> QED
      BY <1>3, <2>6, <2>7 DEF PoolCmd
  <1>4. CASE ListOp
    <2>1. \A i \in Indices : taken[i] = Target
      BY <1>4 DEF ListOp, SnapInv
    <2>2. snaps' = Target /\ taken' = taken /\ op' = "none" /\ snapper' = "top" /\ done' = done
      BY <1>4 DEF ListOp, Target
    <2> QED
      BY <2>1, <2>2 DEF SnapInv
  <1> QED
    BY <1>1, <1>2, <1>3, <1>4 DEF SnapStep

-----------------------------------------------------------------------------
(* The greenlets and the tasks that join them.                             *)

(* The greenlet of a task that is not entered any more, or never was, is   *)
(* over, and what it raised is on its way; before the body ends nobody has *)
(* been joined.                                                            *)
JoinInv ==
    /\ "scrub" \notin tasks => Over(scrubber) /\ (scrubber = "raised" => exc)
    /\ "skew" \notin tasks => Over(checker) /\ (checker = "raised" => exc)
    /\ "snaps" \notin tasks => Over(snapper) \/ passed
    /\ main = "enter" => "scrub" \in tasks
    /\ main \in {"enter", "body"} => /\ "scrub" \notin tasks => scrubber = "none"
                                     /\ "skew" \notin tasks => checker = "none"
    /\ main = "enter" => scrubber = "none"
    /\ main = "over" => tasks = {}
    /\ checker = "ended" => NeverFail \/ skews = ExpectSkew

LEMMA JoinInitial == Init => JoinInv
  BY DEF Init, ScrubInit, SnapInit, SkewInit, JoinInv, Over

LEMMA JoinMainInv == JoinInv /\ (MainStep \/ EnterRaises \/ BodyRaises) => JoinInv'
  <1> SUFFICES ASSUME JoinInv, MainStep \/ EnterRaises \/ BodyRaises PROVE JoinInv'
    OBVIOUS
  <1> USE DEF JoinInv, Over, scrubVars, scrubberVars, snapVars, skewVars, Innermost
  <1>1. CASE BodyEnds \/ BodyRaises
    BY <1>1 DEF BodyEnds, BodyRaises
  <1>2. CASE LeaveScrub
    BY <1>2 DEF LeaveScrub
  <1>3. CASE JoinScrub
    BY <1>3 DEF JoinScrub
  <1>4. CASE LeaveSnaps
    BY <1>4 DEF LeaveSnaps
  <1>5. CASE JoinSnaps
    BY <1>5 DEF JoinSnaps
  <1>6. CASE LeaveSkew
    BY <1>6 DEF LeaveSkew
  <1>7. CASE JoinSkew
    BY <1>7 DEF JoinSkew
  <1>8. CASE JobOver
    BY <1>8 DEF JobOver
  <1>9. CASE EnterScrub \/ EnterRaises
    BY <1>9 DEF EnterScrub, EnterRaises
  <1> QED
    BY <1>1, <1>2, <1>3, <1>4, <1>5, <1>6, <1>7, <1>8, <1>9 DEF MainStep

LEMMA JoinOtherInv ==
    ASSUME JoinInv,
           \/ (TestStep \/ PgStep \/ ScrubberStep) /\ UNCHANGED Others
           \/ SnapStep /\ UNCHANGED <<scrubVars, skewVars, mainVars>>
           \/ SkewStep /\ UNCHANGED <<scrubVars, snapVars, mainVars>>
    PROVE  JoinInv'
  <1> USE DEF JoinInv, Over, scrubVars, scrubberVars, snapVars, skewVars, mainVars, Others
  <1>1. CASE (TestStep \/ PgStep) /\ UNCHANGED Others
    <2>1. scrubber' = scrubber
      <3> HIDE DEF JoinInv, Over
      <3>1. CASE TestStep
        BY <3>1 DEF TestStep, DoPgScrub, ScrubSeen, Poll, Wait, Corrupt, PgInconsistent
      <3>2. CASE PgStep
        BY <3>2 DEF PgStep, ScrubStarts, ScrubEnds, FlagClears, HealthChanges
      <3> QED
        BY <1>1, <3>1, <3>2
    <2> QED
      BY <1>1, <2>1
  <1>2. CASE ScrubberStep /\ UNCHANGED Others
    BY <1>2 DEF ScrubberStep, DoScrub, DoScrubRaises, ScrubberWakes
  <1>3. CASE SnapStep /\ UNCHANGED <<scrubVars, skewVars, mainVars>>
    BY <1>3 DEF SnapStep, SnapTop, ChooseOp, PoolCmd, ListOp
  <1>4. CASE SkewStep /\ UNCHANGED <<scrubVars, snapVars, mainVars>>
    BY <1>4, SkewAssumption DEF SkewStep, CheckAgain, QuorumWaited, HealthRaises, Verdict, ReadHealth
  <1> QED
    BY <1>1, <1>2, <1>3, <1>4

-----------------------------------------------------------------------------
(* The scrub tests.                                                        *)

Damage == {"data", "size"}

(* A test damages objects, scrubs them and sees at its step L that the pg  *)
(* is inconsistent; only then does it repair, and its last step sees that  *)
(* the pg is consistent.                                                   *)
Sound(s, L) ==
    /\ Len(s) \in Nat /\ L \in 2 .. Len(s) - 1
    /\ s[L - 1] \in Kinds /\ s[L] = "inconsistent" /\ s[Len(s)] = "consistent"
    /\ \A k \in 1 .. L : s[k] # "repair"
    /\ \A k \in L .. Len(s) : s[k] \notin Damage

LEMMA TestsSound ==
    ASSUME NEW s \in ScrubTests
    PROVE  \E L : Sound(s, L)
  <1>1. ASSUME NEW c, NEW t,
               (c = "size" /\ t = "scrub") \/ (c = "data" /\ t = "deep-scrub"),
               s = repair_test_1(c, t)
        PROVE  Sound(s, 4)
    <2>1. /\ Len(s) = 7 /\ s[1] = "wait" /\ s[2] = c /\ s[3] = t /\ s[4] = "inconsistent"
          /\ s[5] = "repair" /\ s[6] = t /\ s[7] = "consistent"
      BY <1>1 DEF repair_test_1
    <2>2. 1 .. 4 = {1, 2, 3, 4} /\ 4 .. 7 = {4, 5, 6, 7}
      OBVIOUS
    <2> QED
      BY <1>1, <2>1, <2>2 DEF Sound, Kinds, Damage
  <1>2. CASE s = repair_test_2
    <2>1. /\ Len(s) = 15 /\ s[1] = "wait" /\ s[2] = "data" /\ s[3] = "deep-scrub"
          /\ s[4] = "inconsistent" /\ s[5] = "scrub" /\ s[6] = "inconsistent" /\ s[7] = "data"
          /\ s[8] = "size" /\ s[9] = "deep-scrub" /\ s[10] = "inconsistent" /\ s[11] = "repair"
          /\ s[12] = "sleep" /\ s[13] = "consistent" /\ s[14] = "deep-scrub"
          /\ s[15] = "consistent"
      BY <1>2 DEF repair_test_2
    <2>2. /\ 1 .. 10 = {1, 2, 3, 4, 5, 6, 7, 8, 9, 10}
          /\ 10 .. 15 = {10, 11, 12, 13, 14, 15}
      OBVIOUS
    <2>3. Sound(s, 10)
      BY <2>1, <2>2 DEF Sound, Kinds, Damage
    <2> QED
      BY <2>3
  <1>3. CASE s = test_repair_corrupted_obj
    <2>1. /\ Len(s) = 7 /\ s[1] = "wait" /\ s[2] = "deep-scrub" /\ s[3] = "data"
          /\ s[4] = "deep-scrub" /\ s[5] = "inconsistent" /\ s[6] = "repair"
          /\ s[7] = "consistent"
      BY <1>3 DEF test_repair_corrupted_obj
    <2>2. 1 .. 5 = {1, 2, 3, 4, 5} /\ 5 .. 7 = {5, 6, 7}
      OBVIOUS
    <2>3. Sound(s, 5)
      BY <2>1, <2>2 DEF Sound, Kinds, Damage
    <2> QED
      BY <2>3
  <1>4. CASE s = repair_test_1("size", "scrub")
    BY <1>1, <1>4
  <1>5. CASE s = repair_test_1("data", "deep-scrub")
    BY <1>1, <1>5
  <1> QED
    BY <1>2, <1>3, <1>4, <1>5, Zenon DEF ScrubTests

(* The scrub under way has read the damage there is.                       *)
Fresh == running = Idle \/ running.saw = damage

(* Before step L no repair was asked for.  The scrub that let the test     *)
(* come to step L ended after the last damage, so that every later one     *)
(* reads all of it: from then on the flag stays until the damage is gone.  *)
Guarded(L) ==
    /\ step <= L => /\ pending # "repair" /\ (running # Idle => running.kind # "repair")
                    /\ ~clearing
    /\ step = L - 1 /\ timer # -1 /\ moved => Fresh
    /\ step = L => Fresh
    /\ step > L => damage = {} \/ (flagged /\ ~clearing /\ Fresh)
    /\ step > Len(script) => damage = {}

ScrubTypes ==
    /\ step \in Nat \ {0} /\ timer \in Nat \cup {-1}
    /\ moved \in BOOLEAN /\ flagged \in BOOLEAN /\ clearing \in BOOLEAN
    /\ pending \in Kinds \cup {"none"}
    /\ running # Idle => running.kind \in Kinds
    /\ timer # -1 => step <= Len(script) /\ script[step] \in Kinds

ScrubInv ==
    /\ ScrubTypes
    /\ \/ script = <<>> /\ damage = {}
       \/ \E L : Sound(script, L) /\ Guarded(L)

LEMMA ScrubInitial ==
    ASSUME NEW S, S \subseteq ScrubTests \cup {<<>>}, ScrubInit(S)
    PROVE  ScrubInv
  <1>1. /\ script \in ScrubTests \cup {<<>>} /\ step = 1 /\ timer = -1 /\ damage = {}
        /\ running = Idle /\ pending = "none"
    BY DEF ScrubInit
  <1>2. /\ moved \in BOOLEAN /\ flagged \in BOOLEAN /\ clearing \in BOOLEAN /\ ~clearing
    BY Zenon DEF ScrubInit
  <1>3. ScrubTypes
    BY <1>1, <1>2 DEF ScrubTypes
  <1>4. ASSUME NEW L, Sound(script, L) PROVE Guarded(L)
    BY <1>1, <1>2, <1>4 DEF Sound, Guarded, Fresh
  <1>5. CASE script = <<>>
    BY <1>1, <1>3, <1>5 DEF ScrubInv
  <1>6. CASE script \in ScrubTests
    BY <1>3, <1>4, <1>6, TestsSound DEF ScrubInv
  <1> QED
    BY <1>1, <1>5, <1>6

LEMMA ScrubTypesInv ==
    ASSUME ScrubTypes, TestStep \/ PgStep \/ ScrubberStep
    PROVE  ScrubTypes'
  <1> USE ScrubAssumption DEF ScrubTypes, testVars, pgVars, scrubberVars, At, Kinds
  <1>1. CASE DoPgScrub
    BY <1>1 DEF DoPgScrub
  <1>2. CASE ScrubSeen
    BY <1>2 DEF ScrubSeen
  <1>3. CASE Poll
    BY <1>3 DEF Poll, Asked
  <1>4. CASE Wait \/ Corrupt
    BY <1>4 DEF Wait, Corrupt
  <1>5. CASE PgInconsistent
    BY <1>5 DEF PgInconsistent
  <1>6. CASE ScrubStarts
    BY <1>6 DEF ScrubStarts
  <1>7. CASE ScrubEnds
    BY <1>7 DEF ScrubEnds
  <1>8. CASE FlagClears \/ HealthChanges
    BY <1>8 DEF FlagClears, HealthChanges
  <1>9. CASE ScrubberStep
    BY <1>9 DEF ScrubberStep, DoScrub, DoScrubRaises, ScrubberWakes, Asked
  <1> QED
    BY <1>1, <1>2, <1>3, <1>4, <1>5, <1>6, <1>7, <1>8, <1>9 DEF TestStep, PgStep

LEMMA GuardedTest ==
    ASSUME NEW L, ScrubTypes, Sound(script, L), Guarded(L), TestStep
    PROVE  Guarded(L)'
  <1> USE DEF ScrubTypes, Sound, Guarded, Fresh, testVars, pgVars, scrubberVars, At, Kinds
  <1>1. CASE DoPgScrub
    BY <1>1 DEF DoPgScrub
  <1>2. CASE ScrubSeen
    BY <1>2 DEF ScrubSeen
  <1>3. CASE Poll
    BY <1>3 DEF Poll, Asked
  <1>4. CASE Wait
    BY <1>4 DEF Wait
  <1>5. CASE Corrupt
    BY <1>5 DEF Corrupt, Damage
  <1>6. CASE PgInconsistent
    BY <1>6 DEF PgInconsistent
  <1> QED
    BY <1>1, <1>2, <1>3, <1>4, <1>5, <1>6 DEF TestStep

LEMMA GuardedPg ==
    ASSUME NEW L, ScrubTypes, Sound(script, L), Guarded(L), PgStep \/ ScrubberStep
    PROVE  Guarded(L)'
  <1> USE DEF ScrubTypes, Sound, Guarded, Fresh, testVars, pgVars, scrubberVars, Kinds
  <1>1. CASE ScrubStarts
    BY <1>1 DEF ScrubStarts, Idle
  <1>2. CASE ScrubEnds
    BY <1>2 DEF ScrubEnds
  <1>3. CASE FlagClears
    BY <1>3 DEF FlagClears
  <1>4. CASE HealthChanges
    BY <1>4 DEF HealthChanges
  <1>5. CASE ScrubberStep
    BY <1>5, ScrubAssumption DEF ScrubberStep, DoScrub, DoScrubRaises, ScrubberWakes, Asked
  <1> QED
    BY <1>1, <1>2, <1>3, <1>4, <1>5 DEF PgStep

LEMMA ScrubStepInv ==
    ASSUME ScrubInv, TestStep \/ PgStep \/ ScrubberStep
    PROVE  ScrubInv'
  <1>1. script' = script
    BY DEF TestStep, DoPgScrub, ScrubSeen, Poll, Wait, Corrupt, PgInconsistent, PgStep,
           ScrubStarts, ScrubEnds, FlagClears, HealthChanges, ScrubberStep, DoScrub,
           DoScrubRaises, ScrubberWakes
  <1>2. ScrubTypes'
    BY ScrubTypesInv DEF ScrubInv
  <1>3. CASE script = <<>> /\ damage = {}
    <2>1. CASE Corrupt
      BY <1>3, <2>1 DEF ScrubInv, ScrubTypes, Corrupt, At
    <2>2. CASE ScrubEnds
      <3>1. damage' = {}
        BY <1>3, <2>2 DEF ScrubEnds
      <3> QED
        BY <1>1, <1>2, <1>3, <3>1 DEF ScrubInv
    <2>3. CASE ~Corrupt /\ ~ScrubEnds
      <3>1. damage' = damage
        BY <2>3, Zenon DEF TestStep, DoPgScrub, ScrubSeen, Poll, Wait, PgInconsistent, PgStep,
           ScrubStarts, FlagClears, HealthChanges, ScrubberStep, DoScrub, DoScrubRaises,
           ScrubberWakes, pgVars
      <3> QED
        BY <1>1, <1>2, <1>3, <3>1 DEF ScrubInv
    <2> QED
      BY <2>1, <2>2, <2>3
  <1>4. ASSUME NEW L, Sound(script, L), Guarded(L) PROVE ScrubInv'
    <2>1. Guarded(L)'
      BY <1>4, GuardedTest, GuardedPg DEF ScrubInv
    <2> QED
      BY <1>1, <1>2, <1>4, <2>1 DEF ScrubInv, Sound
  <1> QED
    BY <1>3, <1>4 DEF ScrubInv

-----------------------------------------------------------------------------
BackgroundInv == SnapInv /\ JoinInv /\ ScrubInv

(* The three invariants hold in every job that nests these tasks, however  *)
(* the greenlets, the placement group and the commands are interleaved.    *)
THEOREM BackgroundInvariance == Spec => []BackgroundInv
  <1>1. Init => BackgroundInv
    <2> SUFFICES ASSUME Init PROVE BackgroundInv
      OBVIOUS
    <2>1. PICK j \in Jobs : /\ ScrubInit(j.scripts)
                            /\ SnapInit("snaps" \in j.tasks)
      BY DEF Init
    <2>2. j.scripts \subseteq ScrubTests \cup {<<>>}
      BY JobsAssumption
    <2> QED
      BY <2>1, <2>2, ScrubInitial, SnapInitial, JoinInitial DEF BackgroundInv
  <1>2. BackgroundInv /\ [Next]_vars => BackgroundInv'
    <2> SUFFICES ASSUME BackgroundInv, [Next]_vars PROVE BackgroundInv'
      OBVIOUS
    <2> USE DEF BackgroundInv
    <2>1. UNCHANGED snapVars => SnapInv'
      BY DEF snapVars, SnapInv, Target
    <2>2. UNCHANGED scrubVars => ScrubInv'
      BY DEF scrubVars, testVars, pgVars, scrubberVars, ScrubInv, ScrubTypes, Sound, Guarded,
             Fresh
    <2>3. CASE MainStep \/ EnterRaises \/ BodyRaises
      <3>1. JoinInv'
        BY <2>3, JoinMainInv
      <3>2. SnapInv'
        BY <2>3 DEF MainStep, EnterScrub, EnterRaises, BodyEnds, BodyRaises, LeaveScrub, JoinScrub, LeaveSnaps, JoinSnaps,
                    LeaveSkew, JoinSkew, JobOver, snapVars, SnapInv, Target
      <3>3. UNCHANGED <<script, testVars, moved, pgVars>>
        BY <2>3 DEF MainStep, EnterScrub, EnterRaises, BodyEnds, BodyRaises, LeaveScrub, JoinScrub, LeaveSnaps, JoinSnaps,
                    LeaveSkew, JoinSkew, JobOver, scrubVars, scrubberVars
      <3>4. ScrubInv'
        BY <3>3 DEF testVars, pgVars, ScrubInv, ScrubTypes, Sound, Guarded, Fresh
      <3> QED
        BY <3>1, <3>2, <3>4
    <2>4. CASE (TestStep \/ PgStep \/ ScrubberStep) /\ UNCHANGED Others
      BY <2>1, <2>4, ScrubStepInv, JoinOtherInv DEF Others
    <2>5. CASE SnapStep /\ UNCHANGED <<scrubVars, skewVars, mainVars>>
      BY <2>2, <2>5, SnapStepInv, JoinOtherInv
    <2>6. CASE SkewStep /\ UNCHANGED <<scrubVars, snapVars, mainVars>>
      BY <2>1, <2>2, <2>6, JoinOtherInv
    <2>7. CASE UNCHANGED vars
      <3>1. UNCHANGED <<scrubVars, snapVars, skewVars, mainVars>>
        BY <2>7 DEF vars
      <3>2. JoinInv'
        BY <3>1 DEF JoinInv, Over, scrubVars, scrubberVars, snapVars, skewVars, mainVars
      <3> QED
        BY <2>1, <2>2, <3>1, <3>2
    <2> QED
      BY <2>3, <2>4, <2>5, <2>6, <2>7 DEF Next
  <1> QED
    BY <1>1, <1>2, PTL DEF Spec

(* Between two operations of thrash_pool_snaps every pool has the same     *)
(* snapshots, those in the task's list; during one, or after a command of  *)
(* it failed, they differ in the snapshot of that operation only.          *)
THEOREM SnapsAlwaysMatchPools == Spec => []SnapsMatchPools
  <1>1. BackgroundInv => SnapsMatchPools
    BY PoolIndices DEF BackgroundInv, SnapInv, SnapsMatchPools, Target
  <1> QED
    BY <1>1, BackgroundInvariance, PTL

(* When the job is over no greenlet of scrub or of mon_clock_skew_check    *)
(* runs, and none of thrash_pool_snaps unless an exception passed it.      *)
THEOREM GreenletsAlwaysEnd == Spec => []GreenletsEnd
  <1>1. BackgroundInv => GreenletsEnd
    BY DEF BackgroundInv, JoinInv, GreenletsEnd
  <1> QED
    BY <1>1, BackgroundInvariance, PTL

(* What the scrubber or the skew check raised, the job raises.             *)
THEOREM FailuresAlwaysSurface == Spec => []FailuresSurface
  <1>1. BackgroundInv => FailuresSurface
    BY DEF BackgroundInv, JoinInv, FailuresSurface
  <1> QED
    BY <1>1, BackgroundInvariance, PTL

(* A scrub or repair test that gets to its end has left a sound pg, for    *)
(* every resend interval and whatever else scrubs the pg meanwhile.        *)
THEOREM PassedTestsAlwaysRepaired == Spec => []PassedTestsRepaired
  <1>1. BackgroundInv => PassedTestsRepaired
    BY DEF BackgroundInv, ScrubInv, Guarded, PassedTestsRepaired
  <1> QED
    BY <1>1, BackgroundInvariance, PTL
=============================================================================

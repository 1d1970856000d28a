------------------------ MODULE ScriptedTestsProofs ------------------------
(***************************************************************************)
(* Proofs about ScriptedTests: what ScriptDiscipline reads off a script is *)
(* true of the cluster, in every order in which it notices what the script *)
(* does, so that no test that keeps to it meets a command that fails.      *)
(***************************************************************************)
EXTENDS ScriptedTests, FiniteSetTheorems, TLAPS

-----------------------------------------------------------------------------
(* How what is known changes with one more instruction.                    *)

LEMMA AtStart ==
    ASSUME NEW t, NEW o
    PROVE  /\ ~Dead(t, 1, o) /\ ~Out(t, 1, o) /\ ~NoIn(t, 1) /\ ~Noticed(t, 1, o)
  BY DEF Dead, Out, NoIn, Noticed

LEMMA DeadNext ==
    ASSUME NEW t, NEW o, NEW n \in Nat \ {0}
    PROVE  Dead(t, n + 1, o) <=> Of(t, n, "kill", o) \/ (Dead(t, n, o) /\ ~Of(t, n, "revive", o))
  <1>1. ~(Of(t, n, "kill", o) /\ Of(t, n, "revive", o))
    BY DEF Of
  <1> QED
    BY <1>1 DEF Dead

LEMMA OutNext ==
    ASSUME NEW t, NEW o, NEW n \in Nat \ {0}
    PROVE  Out(t, n + 1, o) <=> With(t, n, "out", o) \/ (Out(t, n, o) /\ ~With(t, n, "in", o))
  <1>1. ~(With(t, n, "out", o) /\ With(t, n, "in", o))
    BY DEF With
  <1> QED
    BY <1>1 DEF Out

LEMMA NoInNext ==
    ASSUME NEW t, NEW n \in Nat \ {0}
    PROVE  NoIn(t, n + 1) <=> \/ With(t, n, "set", "noin")
                              \/ NoIn(t, n) /\ ~With(t, n, "unset", "noin")
  <1>1. ~(With(t, n, "set", "noin") /\ With(t, n, "unset", "noin"))
    BY DEF With
  <1> QED
    BY <1>1 DEF NoIn

LEMMA UntouchedNext ==
    ASSUME NEW t, NEW o, NEW n \in Nat \ {0}, Untouched(t, n + 1, o)
    PROVE  Untouched(t, n, o) /\ ~Disturbs(t, n, o)
  BY DEF Untouched

LEMMA UntouchedSure ==
    ASSUME NEW t, NEW o, NEW n \in Nat \ {0}, Untouched(t, n, o)
    PROVE  Sure(t, n, o)
  BY DEF Untouched, Sure

LEMMA ComesBackNext ==
    ASSUME NEW t, NEW o, NEW n \in Nat \ {0}, ComesBack(t, n + 1, o)
    PROVE  ComesBack(t, n, o) \/ Untouched(t, n, o)
  <1> SUFFICES ASSUME ~ComesBack(t, n, o) PROVE Untouched(t, n, o)
    OBVIOUS
  <1>1. PICK k \in 1 .. n - 1 :
           /\ With(t, k, "set", "noin")
           /\ ~\E u \in k + 1 .. n - 1 : With(t, u, "unset", "noin") /\ Untouched(t, u, o)
    BY DEF ComesBack
  <1>2. PICK u \in k + 1 .. n : With(t, u, "unset", "noin") /\ Untouched(t, u, o)
    BY <1>1 DEF ComesBack
  <1>3. u = n
    BY <1>1, <1>2
  <1> QED
    BY <1>2, <1>3

LEMMA ComesBackFlag ==
    ASSUME NEW t, NEW o, NEW n \in Nat \ {0}, ComesBack(t, n, o)
    PROVE  ~NoIn(t, n)
  BY DEF ComesBack, NoIn

LEMMA NoticedNext ==
    ASSUME NEW t, NEW o, NEW n \in Nat \ {0}, Noticed(t, n + 1, o)
    PROVE  /\ ~Of(t, n, "revive", o)
           /\ \/ Noticed(t, n, o)
              \/ Dead(t, n, o) /\ With(t, n, "down", o)
  <1>1. PICK k \in 1 .. n :
           /\ Dead(t, k, o) /\ With(t, k, "down", o)
           /\ \A j \in k + 1 .. n : ~Of(t, j, "revive", o)
    BY DEF Noticed
  <1>2. CASE k = n
    BY <1>1, <1>2 DEF With, Of
  <1>3. CASE k # n
    BY <1>1, <1>3 DEF Noticed
  <1> QED
    BY <1>2, <1>3

LEMMA NoticedDead ==
    ASSUME NEW t, NEW o, NEW n \in Nat \ {0}, Noticed(t, n, o)
    PROVE  Dead(t, n, o)
  <1>1. PICK k \in 1 .. n - 1 :
           /\ Dead(t, k, o) /\ With(t, k, "down", o)
           /\ \A j \in k + 1 .. n - 1 : ~Of(t, j, "revive", o)
    BY DEF Noticed
  <1>2. ~Of(t, k, "revive", o)
    BY <1>1 DEF With, Of
  <1>3. PICK i \in 1 .. k - 1 : /\ Of(t, i, "kill", o)
                                /\ \A j \in i + 1 .. k - 1 : ~Of(t, j, "revive", o)
    BY <1>1 DEF Dead
  <1>4. i \in 1 .. n - 1 /\ \A j \in i + 1 .. n - 1 : ~Of(t, j, "revive", o)
    BY <1>1, <1>2, <1>3
  <1> QED
    BY <1>3, <1>4 DEF Dead

LEMMA TidyNext ==
    ASSUME NEW t, NEW o, NEW n \in Nat \ {0}, Tidy(t, n + 1, o)
    PROVE  Tidy(t, n, o) /\ (Of(t, n, "revive", o) => Noticed(t, n, o))
  BY DEF Tidy

LEMMA SureNext ==
    ASSUME NEW t, NEW o, NEW n \in Nat \ {0}, Sure(t, n + 1, o)
    PROVE  Confirms(t, n, o) \/ (Sure(t, n, o) /\ ~Disturbs(t, n, o))
  <1>1. PICK k \in 0 .. n : /\ k = 0 \/ Confirms(t, k, o)
                            /\ \A j \in k + 1 .. n : ~Disturbs(t, j, o)
    BY DEF Sure
  <1>2. CASE k = n
    BY <1>1, <1>2
  <1>3. CASE k # n
    BY <1>1, <1>3 DEF Sure
  <1> QED
    BY <1>2, <1>3

-----------------------------------------------------------------------------
(* The inductive invariant.                                                *)

ScriptTypes == /\ test \in Tests /\ pos \in Nat \ {0}
               /\ proc \in [Osds -> {"dead", "booting", "on"}]
               /\ up \subseteq Osds

(* The processes and the up half of the map are as the script lets one     *)
(* conclude.                                                               *)
UpKnown(o) == /\ proc[o] = "dead" <=> Dead(test, pos, o)
              /\ Noticed(test, pos, o) => o \notin up
              /\ Tidy(test, pos, o) /\ proc[o] = "booting" => o \notin up
              /\ Sure(test, pos, o) => o \in up /\ proc[o] = "on"

(* So is the in half: an OSD that the script has not marked out is in, or  *)
(* will be when it boots.                                                  *)
InKnown(o) == /\ Untouched(test, pos, o) => /\ o \notin autoOut
                                            /\ ~Out(test, pos, o) => o \in in
              /\ ComesBack(test, pos, o) /\ ~Out(test, pos, o) =>
                    o \in in \/ (o \in autoOut /\ o \notin up)
              /\ Out(test, pos, o) => o \notin in /\ o \notin autoOut

ScriptInv == /\ ScriptTypes
             /\ "noin" \in flags => NoIn(test, pos)
             /\ \A o \in Osds : UpKnown(o) /\ InKnown(o)
             /\ CommandsAnswered

(* What an instruction does to an OSD, and what it has waited for.         *)
Effect(o) ==
    /\ proc'[o] = IF Of(test, pos, "kill", o) THEN "dead"
                  ELSE IF Of(test, pos, "revive", o) THEN "booting" ELSE proc[o]
    /\ o \in up' <=> o \in up /\ ~With(test, pos, "down", o)
    /\ o \in in' <=> (o \in in \/ With(test, pos, "in", o)) /\ ~With(test, pos, "out", o)
    /\ o \in autoOut' <=> o \in autoOut /\ ~With(test, pos, "in", o)
                                         /\ ~With(test, pos, "out", o)
    /\ With(test, pos, "told", o) => Reaches(o)
    /\ Of(test, pos, "osd is up", o) \/ Of(test, pos, "up", Cardinality(Osds)) => o \in up

(* The instructions.  Onward is a conjunct of each of them.                *)
LEMMA Effects ==
    ASSUME ScriptTypes, ScriptStep \/ RunIoOnSome, pos' # pos
    PROVE  /\ \A o \in Osds : Effect(o)
           /\ pos' = pos + 1 /\ UNCHANGED <<test, result>> /\ result = "running"
           /\ proc' \in [Osds -> {"dead", "booting", "on"}] /\ up' \subseteq up
           /\ "noin" \in flags' => ("noin" \in flags \/ With(test, pos, "set", "noin"))
                                   /\ ~With(test, pos, "unset", "noin")
  <1> USE DEF Effect, Of, With, At, Op, Arg, Onward, osdMap, monVars, ScriptTypes
  <1>1. CASE KillOsd
    BY <1>1 DEF KillOsd
  <1>2. CASE ReviveOsd
    BY <1>2 DEF ReviveOsd
  <1>3. CASE OsdCommand
    BY <1>3 DEF OsdCommand
  <1>4. CASE Command
    BY <1>4 DEF Command, Check, Raise
  <1>5. CASE Wait
    <2>1. \A o \in Osds : With(test, pos, "told", o) => Reaches(o)
      BY <1>5 DEF Wait, Awaited, PgWaits
    <2>2. \A o \in Osds : Of(test, pos, "osd is up", o) => o \in up
      BY <1>5 DEF Wait, Awaited, PgWaits
    <2>3. Of(test, pos, "up", Cardinality(Osds)) => up = Osds
      <3> SUFFICES ASSUME Of(test, pos, "up", Cardinality(Osds)) PROVE up = Osds
        OBVIOUS
      <3>1. Cardinality(up) >= Cardinality(Osds)
        BY <1>5 DEF Wait, Awaited, PgWaits
      <3>2. IsFiniteSet(Osds)
        BY TestsAssumption DEF Osds
      <3>3. Cardinality(up) <= Cardinality(Osds) /\ (Cardinality(up) = Cardinality(Osds) => up = Osds)
        BY <3>2, FS_Subset
      <3>4. Cardinality(up) \in Nat /\ Cardinality(Osds) \in Nat
        BY <3>2, FS_Subset, FS_CardinalityType
      <3> QED
        BY <3>1, <3>3, <3>4
    <2> QED
      BY <1>5, <2>1, <2>2, <2>3 DEF Wait, PgWaits
  <1>6. CASE RunIo \/ RunIoOnSome
    <2>1. PICK osds : IoOn(osds)
      BY <1>6 DEF RunIo, RunIoOnSome
    <2> QED
      BY <2>1 DEF IoOn
  <1>10. CASE AssertData
    BY <1>10 DEF AssertData, Raise
  <1>7. CASE AdminSocket
    BY <1>7 DEF AdminSocket
  <1>8. CASE MonCommand
    BY <1>8 DEF MonCommand
  <1>9. CASE MonGone
    BY <1>9 DEF MonGone
  <1> QED
    BY <1>1, <1>2, <1>3, <1>4, <1>5, <1>6, <1>7, <1>8, <1>9, <1>10 DEF ScriptStep, Finish

LEMMA UpKnownNext ==
    ASSUME ScriptTypes, NEW o \in Osds, UpKnown(o), InKnown(o), Effect(o),
           pos' = pos + 1, test' = test
    PROVE  UpKnown(o)'
  <1> DEFINE t == test
             n == pos
  <1>0. n \in Nat \ {0} /\ proc[o] \in {"dead", "booting", "on"} /\ o \in Osds'
    BY DEF ScriptTypes, Osds
  <1>1. (proc'[o] = "dead") <=> Dead(t, n + 1, o)
    BY <1>0, DeadNext DEF UpKnown, Effect
  <1>2. Noticed(t, n + 1, o) => o \notin up'
    BY <1>0, NoticedNext DEF UpKnown, InKnown, Effect
  <1>3. Tidy(t, n + 1, o) /\ proc'[o] = "booting" => o \notin up'
    BY <1>0, TidyNext DEF UpKnown, Effect
  <1>4. Sure(t, n + 1, o) => o \in up' /\ proc'[o] = "on"
    <2> SUFFICES ASSUME Sure(t, n + 1, o) PROVE o \in up' /\ proc'[o] = "on"
      OBVIOUS
    <2>1. CASE Confirms(t, n, o)
      <3>1. o \in up /\ proc[o] = "on"
        BY <1>0, <2>1 DEF Confirms, UpKnown, Effect, Reaches, Osds
      <3> QED
        BY <2>1, <3>1 DEF Confirms, Of, With, Effect
    <2>2. CASE Sure(t, n, o) /\ ~Disturbs(t, n, o)
      BY <2>2 DEF UpKnown, Disturbs, Effect
    <2> QED
      BY <1>0, <2>1, <2>2, SureNext
  <1> QED
    BY <1>1, <1>2, <1>3, <1>4 DEF UpKnown

LEMMA InKnownNext ==
    ASSUME ScriptTypes, NEW o \in Osds, UpKnown(o), InKnown(o), Effect(o),
           pos' = pos + 1, test' = test
    PROVE  InKnown(o)'
  <1> DEFINE t == test
             n == pos
  <1>0. n \in Nat \ {0} /\ ~(With(t, n, "in", o) /\ With(t, n, "out", o))
    BY DEF ScriptTypes, With
  <1>a. Out(t, n + 1, o) <=> With(t, n, "out", o) \/ (Out(t, n, o) /\ ~With(t, n, "in", o))
    BY <1>0, OutNext
  <1>1. Untouched(t, n + 1, o) => o \notin autoOut' /\ (~Out(t, n + 1, o) => o \in in')
    <2>1. Untouched(t, n + 1, o) => Untouched(t, n, o)
      BY <1>0, UntouchedNext
    <2> QED
      BY <1>a, <2>1 DEF InKnown, Effect
  <1>2. ComesBack(t, n + 1, o) /\ ~Out(t, n + 1, o) =>
           o \in in' \/ (o \in autoOut' /\ o \notin up')
    <2>1. ComesBack(t, n + 1, o) => ComesBack(t, n, o) \/ Untouched(t, n, o)
      BY <1>0, ComesBackNext
    <2> QED
      BY <1>a, <2>1 DEF InKnown, Effect
  <1>3. Out(t, n + 1, o) => o \notin in' /\ o \notin autoOut'
    BY <1>0, OutNext DEF InKnown, Effect
  <1> QED
    BY <1>1, <1>2, <1>3 DEF InKnown

-----------------------------------------------------------------------------
(* The steps.                                                              *)

(* A command that a disciplined test sends succeeds.                       *)
LEMMA AlwaysAnswered ==
    ASSUME ScriptInv, Command, ~test.sleeps
    PROVE  Answer
  <1> DEFINE t == test
             n == pos
             Good == {p \in t.osds : Sure(t, n, p) /\ ComesBack(t, n, p) /\ ~Out(t, n, p)}
             Left == {p \in t.osds : ~Out(t, n, p)}
  <1>1. t \in Tests /\ n \in Nat \ {0} /\ n <= Len(t.code)
    BY DEF ScriptInv, ScriptTypes, Command, At
  <1>2. /\ Answers(t, n) /\ IsFiniteSet(t.osds) /\ t.size \in Nat /\ Len(t.code) \in Nat
    BY <1>1, TestsAssumption
  <1>3. /\ Op \in {"tell", "lost", "tool", "is clean", "is unclean"}
        /\ Op = t.code[n][1] /\ Arg = t.code[n][2]
    BY DEF Command, At, Op, Arg
  <1>4. CASE Op \in {"tell", "lost", "tool"}
    BY <1>2, <1>3, <1>4 DEF Answers, Answer, ScriptInv, UpKnown, Osds, Reaches
  <1>5. Good \subseteq Acting /\ Acting \subseteq Left /\ Left \subseteq t.osds
    BY DEF ScriptInv, ScriptTypes, UpKnown, InKnown, Acting, Osds
  <1>6. /\ Cardinality(Good) <= Cardinality(Acting) /\ Cardinality(Acting) <= Cardinality(Left)
        /\ Cardinality(Good) \in Nat /\ Cardinality(Acting) \in Nat /\ Cardinality(Left) \in Nat
    <2>1. IsFiniteSet(Left) /\ IsFiniteSet(Acting) /\ IsFiniteSet(Good)
      BY <1>2, <1>5, FS_Subset
    <2> QED
      BY <1>5, <2>1, FS_Subset, FS_CardinalityType
  <1>7. CASE Op = "is clean"
    <2>1. t.size <= Cardinality(Good)
      BY <1>2, <1>3, <1>7 DEF Answers
    <2>2. Cardinality(Acting) >= t.size
      BY <1>2, <1>6, <2>1
    <2> QED
      BY <1>7, <2>2 DEF Answer
  <1>8. CASE Op = "is unclean"
    <2>1. Cardinality(Left) < t.size
      BY <1>2, <1>3, <1>8 DEF Answers
    <2>2. Cardinality(Acting) < t.size
      BY <1>2, <1>6, <2>1
    <2> QED
      BY <1>8, <2>2 DEF Answer
  <1> QED
    BY <1>3, <1>4, <1>7, <1>8

LEMMA ScriptStepInv ==
    ASSUME ScriptInv, ScriptStep \/ RunIoOnSome
    PROVE  ScriptInv'
  <1>1. CASE pos' # pos
    <2>1. /\ \A o \in Osds : Effect(o)
          /\ pos' = pos + 1 /\ UNCHANGED <<test, result>> /\ result = "running"
          /\ proc' \in [Osds -> {"dead", "booting", "on"}] /\ up' \subseteq up
          /\ "noin" \in flags' => ("noin" \in flags \/ With(test, pos, "set", "noin"))
                                  /\ ~With(test, pos, "unset", "noin")
      BY <1>1, Effects DEF ScriptInv
    <2>2. \A o \in Osds : UpKnown(o)' /\ InKnown(o)'
      BY <2>1, UpKnownNext, InKnownNext DEF ScriptInv
    <2>3. "noin" \in flags' => NoIn(test, pos + 1)
      BY <2>1, NoInNext DEF ScriptInv, ScriptTypes
    <2>4. Osds' = Osds
      BY <2>1 DEF Osds
    <2> QED
      BY <2>1, <2>2, <2>3, <2>4 DEF ScriptInv, ScriptTypes, CommandsAnswered
  <1>2. CASE pos' = pos
    <2>0. ~Onward
      BY <1>2 DEF Onward, ScriptInv, ScriptTypes
    <2>1. /\ Finish \/ (Command /\ Raise /\ ~Answer) \/ (AssertData /\ Raise)
          /\ UNCHANGED <<test, pos, proc, osdMap>>
      <3>1. Finish \/ (Command /\ Raise /\ ~Answer) \/ (AssertData /\ Raise)
        BY <2>0, Zenon DEF ScriptStep, KillOsd, ReviveOsd, OsdCommand, Command, Wait, RunIo,
                           RunIoOnSome, IoOn, AssertData, AdminSocket, MonCommand, MonGone, Check
      <3> QED
        BY <3>1 DEF Finish, Command, AssertData, Raise
    <2>2. CommandsAnswered'
      <3>1. CASE Finish
        BY <3>1 DEF Finish, CommandsAnswered
      <3>2. CASE Command /\ ~Answer
        BY <2>1, <3>2, AlwaysAnswered DEF CommandsAnswered
      <3>3. CASE AssertData
        BY <2>1, <3>3 DEF AssertData, At, Op, CommandsAnswered
      <3> QED
        BY <2>1, <3>1, <3>2, <3>3
    <2> QED
      BY <2>1, <2>2 DEF ScriptInv, ScriptTypes, UpKnown, InKnown, Osds, osdMap
  <1> QED
    BY <1>1, <1>2

(* What the cluster does by itself changes nothing of what is known.       *)
LEMMA ClusterStepInv ==
    ASSUME ScriptInv, NEW o \in Osds, OsdBoots(o) \/ OsdSeenDown(o) \/ OsdAutoOut(o)
    PROVE  ScriptInv'
  <1>0. UNCHANGED <<test, pos, result, flags>> /\ Osds' = Osds
    BY DEF OsdBoots, OsdSeenDown, OsdAutoOut, scriptVars, Osds
  <1>1. /\ pos \in Nat \ {0} /\ proc[o] \in {"dead", "booting", "on"} /\ UpKnown(o) /\ InKnown(o)
        /\ Untouched(test, pos, o) => o \in up /\ proc[o] = "on"
        /\ ComesBack(test, pos, o) => "noin" \notin flags
        /\ Noticed(test, pos, o) => proc[o] = "dead"
    BY UntouchedSure, ComesBackFlag, NoticedDead DEF ScriptInv, ScriptTypes, UpKnown
  <1>2. ScriptTypes' /\ UpKnown(o)' /\ InKnown(o)'
    <2>1. CASE OsdBoots(o)
      BY <1>0, <1>1, <2>1 DEF OsdBoots, ScriptInv, ScriptTypes, UpKnown, InKnown
    <2>2. CASE OsdSeenDown(o)
      BY <1>0, <1>1, <2>2 DEF OsdSeenDown, ScriptInv, ScriptTypes, UpKnown, InKnown
    <2>3. CASE OsdAutoOut(o)
      BY <1>0, <1>1, <2>3 DEF OsdAutoOut, ScriptInv, ScriptTypes, UpKnown, InKnown
    <2> QED
      BY <2>1, <2>2, <2>3
  <1>3. ASSUME NEW p \in Osds, p # o
        PROVE  UpKnown(p)' /\ InKnown(p)'
    <2>1. /\ proc'[p] = proc[p] /\ (p \in up' <=> p \in up) /\ (p \in in' <=> p \in in)
          /\ (p \in autoOut' <=> p \in autoOut)
      BY <1>3 DEF OsdBoots, OsdSeenDown, OsdAutoOut, ScriptInv, ScriptTypes
    <2>2. UpKnown(p) /\ InKnown(p)
      BY DEF ScriptInv
    <2> QED
      BY <1>0, <2>1, <2>2 DEF UpKnown, InKnown
  <1> QED
    BY <1>0, <1>2, <1>3 DEF ScriptInv, CommandsAnswered, Op

-----------------------------------------------------------------------------
(* What the discipline reads off a script is true of the cluster, whenever *)
(* it notices dead and booted OSDs and however its monitors come and go.   *)
THEOREM ScriptInvariance == Spec => []ScriptInv
  <1>1. Init => ScriptInv
    <2> SUFFICES ASSUME Init PROVE ScriptInv
      OBVIOUS
    <2>1. ASSUME NEW o \in Osds PROVE UpKnown(o) /\ InKnown(o)
      BY AtStart DEF Init, UpKnown, InKnown
    <2> QED
      BY <2>1 DEF Init, ScriptInv, ScriptTypes, CommandsAnswered
  <1>2. ScriptInv /\ [Next]_vars => ScriptInv'
    <2> SUFFICES ASSUME ScriptInv, [Next]_vars PROVE ScriptInv'
      OBVIOUS
    <2>1. CASE ScriptStep \/ RunIoOnSome
      BY <2>1, ScriptStepInv
    <2>2. CASE \E o \in Osds : OsdBoots(o) \/ OsdSeenDown(o) \/ OsdAutoOut(o)
      BY <2>2, ClusterStepInv
    <2>3. CASE UNCHANGED <<scriptVars, proc, osdMap>>
      BY <2>3 DEF scriptVars, osdMap, ScriptInv, ScriptTypes, UpKnown, InKnown, Osds,
                  CommandsAnswered, Op
    <2>4. CASE Election \/ \E m \in Mons : MonJoins(m) \/ MonEnds(m)
      BY <2>3, <2>4 DEF Election, MonJoins, MonEnds
    <2>5. CASE UNCHANGED vars
      BY <2>3, <2>5 DEF vars
    <2> QED
      BY <2>1, <2>2, <2>4, <2>5 DEF Next
  <1> QED
    BY <1>1, <1>2, PTL DEF Spec

(* Every command of a test that does not count on a sleep is answered, so  *)
(* that only an assertion about its data can end the test early: the       *)
(* OSD it is sent to is up and runs, the store that the object store tool  *)
(* opens is that of a dead OSD, and "osd lost" is about an OSD that is     *)
(* down.                                                                   *)
THEOREM CommandsAlwaysAnswered == Spec => []CommandsAnswered
  <1>1. ScriptInv => CommandsAnswered
    BY DEF ScriptInv
  <1> QED
    BY <1>1, ScriptInvariance, PTL

(* wait_for_clean and its kin return only when the map that they read      *)
(* knows of every kill_osd of the test, if the test marks down what it     *)
(* kills.                                                                  *)
THEOREM WaitsAlwaysSeeKills == Spec => WaitsSeeKills
  <1>1. ScriptInv /\ [Next]_vars
        => [test.marks /\ At(PgWaits) /\ pos' # pos => \A o \in up : proc[o] # "dead"]_vars
    <2> SUFFICES ASSUME ScriptInv, test.marks, At(PgWaits) PROVE \A o \in up : proc[o] # "dead"
      OBVIOUS
    <2>1. test \in Tests /\ pos \in 1 .. Len(test.code) /\ test.code[pos][1] \in PgWaits
      BY TestsAssumption DEF ScriptInv, ScriptTypes, At
    <2>2. KillsNoticed(test, pos)
      BY <2>1, TestsAssumption
    <2> QED
      BY <2>2 DEF KillsNoticed, ScriptInv, ScriptTypes, UpKnown, Osds
  <1> QED
    BY <1>1, ScriptInvariance, PTL DEF Spec, WaitsSeeKills
=============================================================================

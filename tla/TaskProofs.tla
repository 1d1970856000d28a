----------------------------- MODULE TaskProofs -----------------------------
(***************************************************************************)
(* Proofs about the tasks as context managers.                             *)
(*                                                                         *)
(* ThrashOsds: the task body against its greenlets, for every set of OSDs, *)
(* whatever the greenlets do between one another's steps.                  *)
(*                                                                         *)
(* NestedTasks: a stack of tasks, for every job that keeps to the rules of *)
(* TaskDiscipline, whichever of its commands fail, and however many.       *)
(***************************************************************************)
EXTENDS ThrashOsds, TaskDiscipline, TLAPS

(* Most leaves are first-order reasoning, which Zenon does fastest.        *)
USE ZenonT(30)

-----------------------------------------------------------------------------
(* ThrashOsds: the inductive invariant.                                    *)

(* The joins still to be made, at each place of the task body.             *)
AfterThrash  == {"sighup", "optrack", "dump_ops", "noscrub", "recovery", "finished"}
AfterSighup  == AfterThrash \ {"sighup"}
AfterOptrack == AfterSighup \ {"optrack"}
AfterDump    == AfterOptrack \ {"dump_ops"}
AfterNoscrub == AfterDump \ {"noscrub"}

TaskTypes ==
    /\ live \subseteq Osds /\ in \subseteq Osds
    /\ thrash \in {"loop", "final", "done", "raised"}
    /\ helper \in [Helpers -> {"run", "done", "raised"}]
    /\ scrubState \in {"none", "noscrub", "both", "nodeep-scrub"}
    /\ flags \subseteq Flags
    /\ main \in {"yield", "thrash", "failed"} \cup AfterThrash

(* Only the task body sets stopping, on its way to the first join.         *)
StoppingIsMain == stopping \in BOOLEAN /\ (stopping <=> main # "yield")

(* Who has been joined has ended; do_thrash, and do_sighup, without an     *)
(* exception.                                                              *)
JoinedHaveEnded ==
    /\ main \in AfterThrash  => thrash = "done"
    /\ main \in AfterSighup  => helper["sighup"] = "done"
    /\ main \in AfterOptrack => ~Runs("optrack")
    /\ main \in AfterDump    => ~Runs("dump_ops")
    /\ main \in AfterNoscrub => ~Runs("noscrub")

(* do_thrash returns with all OSDs up, and nobody changes that afterwards. *)
DoneIsUp == thrash = "done" => live = Osds /\ in = Osds

(* do_noscrub_toggle returns with the flags unset.                         *)
DoneIsUnset == helper["noscrub"] = "done" => flags = {}

TaskInv == /\ TaskTypes /\ StoppingIsMain /\ JoinedHaveEnded
           /\ DoneIsUp /\ DoneIsUnset /\ FlagsFollowState

-----------------------------------------------------------------------------
LEMMA TaskInitial == TaskInit => TaskInv
  BY DEF TaskInit, MembershipInit, TaskInv, TaskTypes, StoppingIsMain, JoinedHaveEnded, DoneIsUp,
     DoneIsUnset, FlagsFollowState, Runs, Helpers, Flags, AfterThrash, AfterSighup, AfterOptrack,
     AfterDump, AfterNoscrub

(* do_thrash changes the lists until it is done.                           *)
LEMMA ThrashKeeps ==
    ASSUME TaskInv,
           ThrashOsd \/ ThrashStops \/ AllUp \/ ThrashRaises \/ ClusterRecovers,
           UNCHANGED <<stopping, helperVars, main>>
    PROVE  TaskInv'
  <1> USE DEF TaskInv, helperVars
  <1>1. TaskTypes' /\ DoneIsUp'
    BY DEF TaskTypes, DoneIsUp, ThrashOsd, ThrashStops, AllUp, ThrashRaises, ClusterRecovers,
       MembershipNext, Kill, Revive, MarkOut, MarkIn
  <1>2. JoinedHaveEnded'
    BY DEF JoinedHaveEnded, Runs, ThrashOsd, ThrashStops, AllUp, ThrashRaises, ClusterRecovers
  <1>3. StoppingIsMain' /\ DoneIsUnset' /\ FlagsFollowState'
    BY DEF StoppingIsMain, DoneIsUnset, FlagsFollowState, Runs
  <1> QED
    BY <1>1, <1>2, <1>3

(* A helper that has ended stays as it is.                                 *)
LEMMA HelperKeeps ==
    ASSUME TaskInv, HelpersProceed \/ NoscrubRaises, UNCHANGED <<thrashVars, stopping, main>>
    PROVE  TaskInv'
  <1> USE DEF TaskInv, thrashVars, HelpersProceed
  <1>1. StoppingIsMain' /\ DoneIsUp'
    BY DEF StoppingIsMain, DoneIsUp
  <1>2. CASE DoSighup \/ DoOptrackToggle \/ DoDumpOps
    <2>1. \E h \in {"sighup", "optrack", "dump_ops"} :
              /\ Runs(h)
              /\ UNCHANGED helper \/ Ends(h, "done") \/ Ends(h, "raised")
      BY <1>2 DEF DoSighup, DoOptrackToggle, DoDumpOps
    <2>2. UNCHANGED <<scrubState, flags>>
      BY <1>2 DEF DoSighup, DoOptrackToggle, DoDumpOps
    <2>3. TaskTypes'
      BY <2>1, <2>2, SMT DEF TaskTypes, Ends, Helpers
    <2>4. JoinedHaveEnded'
      BY <2>1 DEF TaskTypes, JoinedHaveEnded, Runs, Ends, Helpers
    <2>5. helper'["noscrub"] = helper["noscrub"]
      BY <2>1 DEF TaskTypes, Ends, Helpers
    <2>6. DoneIsUnset' /\ FlagsFollowState'
      BY <2>2, <2>5 DEF DoneIsUnset, FlagsFollowState, Runs
    <2> QED
      BY <1>1, <2>3, <2>4, <2>6
  <1>3. CASE DoNoscrubToggle \/ NoscrubRaises
    <2> USE <1>3 DEF DoNoscrubToggle, NoscrubRaises, NoscrubToggles, NoscrubUnsets, Ends, Runs
    <2>1. TaskTypes'
      BY DEF TaskTypes, Flags, Helpers
    <2>2. JoinedHaveEnded'
      BY DEF TaskTypes, JoinedHaveEnded, Helpers
    <2>3. DoneIsUnset'
      BY DEF TaskTypes, DoneIsUnset, Helpers, Flags
    <2>4. FlagsFollowState'
      BY DEF TaskTypes, FlagsFollowState, StoppingIsMain, Helpers, Flags
    <2> QED
      BY <1>1, <2>1, <2>2, <2>3, <2>4
  <1> QED
    BY <1>2, <1>3

(* The task body moves past a greenlet once that has ended.                *)
LEMMA MainKeeps ==
    ASSUME TaskInv,
           \/ BeginJoin /\ UNCHANGED <<thrashVars, helperVars>>
           \/ TaskJoins /\ UNCHANGED <<thrashVars, stopping, helperVars>>
    PROVE  TaskInv'
  <1> USE DEF TaskInv, thrashVars, helperVars, BeginJoin, TaskJoins, JoinThrash, JoinSighup,
              JoinHelper, WaitForRecovery, Runs
  <1>1. TaskTypes' /\ StoppingIsMain'
    BY DEF TaskTypes, StoppingIsMain, AfterThrash
  <1>2. JoinedHaveEnded'
    BY DEF TaskTypes, JoinedHaveEnded, Helpers,
           AfterThrash, AfterSighup, AfterOptrack, AfterDump, AfterNoscrub
  <1>3. DoneIsUp' /\ DoneIsUnset' /\ FlagsFollowState'
    BY DEF DoneIsUp, DoneIsUnset, FlagsFollowState
  <1> QED
    BY <1>1, <1>2, <1>3

-----------------------------------------------------------------------------
(* The inductive invariant holds in every reachable state.                 *)
THEOREM TaskInvariance == TaskSpec => []TaskInv
  <1>1. TaskInv /\ [TaskNext]_taskVars => TaskInv'
    <2>1. TaskInv /\ TaskNext => TaskInv'
      BY ThrashKeeps, HelperKeeps, MainKeeps DEF TaskNext
    <2>2. TaskInv /\ UNCHANGED taskVars => TaskInv'
      BY SMT DEF taskVars, thrashVars, helperVars, TaskInv, TaskTypes, StoppingIsMain,
                 JoinedHaveEnded, DoneIsUp, DoneIsUnset, FlagsFollowState, Runs
    <2> QED
      BY <2>1, <2>2
  <1> QED
    BY <1>1, TaskInitial, PTL DEF TaskSpec

(* Until it is told to stop, do_noscrub_toggle's scrub_state names the     *)
(* flags that are set in the osdmap.                                       *)
THEOREM FlagsAlwaysFollowState == TaskSpec => []FlagsFollowState
  <1>1. TaskInv => FlagsFollowState
    BY DEF TaskInv
  <1> QED
    BY <1>1, TaskInvariance, PTL

(* A task that finished left no greenlet, no OSD down or out, and no flag  *)
(* that do_noscrub_toggle did not fail to unset.                           *)
THEOREM FinishedAlwaysClean == TaskSpec => []FinishedIsClean
  <1>1. TaskInv => FinishedIsClean
    BY DEF TaskInv, TaskTypes, JoinedHaveEnded, DoneIsUp, DoneIsUnset, FinishedIsClean, Runs,
           Helpers, AfterThrash, AfterSighup, AfterOptrack, AfterDump, AfterNoscrub
  <1> QED
    BY <1>1, TaskInvariance, PTL

-----------------------------------------------------------------------------
(* NestedTasks: the inductive invariant of a job that is tidy.             *)

Places ==
    LET T == Text[job]
        st == Stacks[job]
    IN  /\ job \in TidyJobs
        /\ pc \in 1 .. Len(T) + 1
        /\ at \in Nat \ {0}
        /\ mode \in {"run", "close", "unwind", "done"}
        /\ mode = "run" => at = 1 /\ open = st[pc]
        /\ mode = "close" => pc > 1 /\ T[pc - 1].op = "close" /\ open = st[pc - 1]
        /\ mode = "done" => open = <<>>
        /\ open \in Seq(1 .. Len(T))
        /\ open # <<>> => /\ T[Head(open)].op = "try"
                          /\ Tail(open) = st[Head(open)]
                          /\ at <= Len(T[Head(open)].fin) + 1

(* What a job has made and not lost on its way is there.                   *)
SureExist ==
    mode \in {"run", "close"} => \A r \in Made[job] : Sure(job, pc, r) => r \in held

TiedExist ==
    \A r \in held, w \in Made[job] :
       maker[r] \notin failed /\ Tied(job, w, r, maker[r]) => w \in held

(* r is stored in a container; an open `finally` is going to remove it; or *)
(* its scope has the word until one of its commands removes it, or opens   *)
(* such a `finally`.                                                       *)
Contained(r) == \E q \in held : Supports("lie", r, q)

Covered(r) ==
    \E i \in 1 .. Len(open) : \E k \in 1 .. Len(Text[job][open[i]].fin) :
       (i = 1 => k >= at) /\ Covers(job, open[i], k, r, maker[r])

Promised(r) ==
    /\ mode \in {"run", "close"}
    /\ Pending(job, pc, r, maker[r])
    /\ \E m \in 1 .. pc - 1 : LET c == Text[job][m] IN
          c.op = "cmd" /\ c.scope = maker[r] /\ r \in c.makes
    /\ mode = "close" => Mine(job, Head(open), maker[r])

Accounted(r) == \/ maker[r] \in failed
                \/ r[1] \in LastingKinds
                \/ Contained(r)
                \/ Covered(r)
                \/ Promised(r)

AllAccounted == \A r \in held : r \in Made[job] /\ Accounted(r)

(* As long as nothing has failed, the job is where it should be.           *)
OnCourse ==
    LET last == Stacks[job][Len(Text[job]) + 1]
    IN  /\ faults \in Nat
        /\ faults = 0 =>
              /\ failed = {}
              /\ exc = FALSE
              /\ mode = "run" => held = Reached[job][pc]
              /\ mode = "close" => held = Swept[job][Head(open)][at]
              /\ mode = "unwind" =>
                    /\ pc = Len(Text[job]) + 1
                    /\ open # <<>> => /\ held = Swept[job][Head(open)][at]
                                      /\ \E i \in 1 .. Len(last) : last[i] = Head(open)

NestedInv == Places /\ SureExist /\ TiedExist /\ AllAccounted /\ OnCourse

(* A command is run: it succeeds, is skipped or fails.                     *)
Executes(c) == Succeeds(c) \/ Passes(c) \/ Fails(c)

-----------------------------------------------------------------------------
LEMMA OneMore == \A n \in Nat : 1 <= n + 1
  BY SMT

(* A sequence with one more element in front.                              *)
LEMMA Pushed ==
    ASSUME NEW S, NEW s \in Seq(S), NEW x \in S, NEW t, t = <<x>> \o s
    PROVE  /\ t \in Seq(S) /\ Len(t) = Len(s) + 1
           /\ t[1] = x
           /\ \A i \in 1 .. Len(s) : t[i + 1] = s[i]
           /\ t # <<>> /\ Head(t) = x /\ Tail(t) = s
  <1>1. t \in Seq(S) /\ Len(t) = Len(s) + 1
    BY SMT
  <1>2. t[1] = x
    BY SMT
  <1>3. \A i \in 1 .. Len(s) : t[i + 1] = s[i]
    BY SMT
  <1>4. t # <<>> /\ Head(t) = x
    BY <1>1, <1>2, SMT
  <1>5. Tail(t) \in Seq(S) /\ Len(Tail(t)) = Len(s)
    BY <1>1, <1>4, SMT
  <1>6. \A i \in 1 .. Len(s) : Tail(t)[i] = s[i]
    BY <1>1, <1>3, <1>4, SMT
  <1>7. Tail(t) = s
    BY <1>5, <1>6, SMT
  <1> QED
    BY <1>1, <1>2, <1>3, <1>4, <1>7

-----------------------------------------------------------------------------
(* What one command does.                                                  *)

LEMMA Resting == Rest["lie"] = Within /\ Rest["use"] = Uses /\ Rest["all"] = Uses \cup Within
  BY DEF Rest

LEMMA TidyJob ==
    ASSUME job \in TidyJobs
    PROVE  /\ Containers /\ job \in Jobs
           /\ WellNested(job) /\ CleanUpPlanned(job) /\ UsersGoFirst(job) /\ NothingRefused(job)
  BY DEF TidyJobs, Tidy

(* A command makes and removes a part of what it is able to.               *)
LEMMA CommandWorks ==
    ASSUME NEW c, Executes(c)
    PROVE  \E M \in SUBSET Makeable(c, held), D \in SUBSET Removable(c, held) :
              /\ c.strict => \A q \in D : ~InUse(q, held \ D)
              /\ maker' = Books(After(held, M, D), c.scope) \/ (D = {} /\ maker' = maker)
  <1>1. CASE Succeeds(c)
    <2>1. c.makes = Makeable(c, held) /\ c.drops = Removable(c, held)
      BY <1>1 DEF Succeeds, Refused
    <2>2. c.strict => \A q \in c.drops : ~InUse(q, held \ c.drops)
      BY <2>1 DEF Removable
    <2> QED
      BY <1>1, <2>1, <2>2 DEF Succeeds
  <1>2. CASE Passes(c) \/ (Fails(c) /\ ~(c.needs \subseteq held))
    <2>1. maker' = maker
      BY <1>2 DEF Passes, Fails
    <2> QED
      BY <2>1
  <1>3. CASE Fails(c) /\ c.needs \subseteq held
    BY <1>3 DEF Fails
  <1> QED
    BY <1>1, <1>2, <1>3 DEF Executes

LEMMA CommandEffect ==
    ASSUME NEW c, Executes(c)
    PROVE  /\ failed \subseteq failed'
           /\ \A r \in held' : r \in held => maker'[r] = maker[r]
           /\ \A r \in held' : r \notin held => r \in c.makes /\ maker'[r] = c.scope
           /\ \A r \in held : r \notin held' =>
                 \E d \in Removable(c, held) :
                    /\ r = d \/ Supports("lie", r, d)
                    /\ \A y \in held : Supports("lie", y, d) => y \in c.makes \/ y \notin held'
                    /\ \A y \in held : c.strict /\ r = d /\ Supports("use", y, d) => y \notin held'
  <1>0. failed \subseteq failed'
    BY DEF Executes, Succeeds, Passes, Fails
  <1>1. PICK M \in SUBSET Makeable(c, held), D \in SUBSET Removable(c, held) :
             /\ c.strict => \A q \in D : ~InUse(q, held \ D)
             /\ maker' = Books(After(held, M, D), c.scope) \/ (D = {} /\ maker' = maker)
    BY CommandWorks
  <1>2. CASE maker' = maker
    <2>1. held' = held
      BY <1>2 DEF held
    <2> QED
      BY <1>0, <1>2, <2>1
  <1>3. CASE maker' = Books(After(held, M, D), c.scope)
    <2>1. /\ held' = After(held, M, D)
          /\ \A r \in held' : maker'[r] = IF r \in held THEN maker[r] ELSE c.scope
      BY <1>3 DEF Books, held
    <2>2. \A r : r \in held' <=> r \in M \/ (r \in held /\ r \notin D
                                             /\ \A q \in D : ~Supports("lie", r, q))
      BY <2>1 DEF After
    <2>3. M \subseteq c.makes /\ (c.strict => \A r \in M : r \notin held)
      BY DEF Makeable
    <2>4. \A d \in D : c.strict => \A y \in held : Supports("use", y, d) => y \notin held'
      BY <1>1, <2>2, <2>3 DEF InUse
    <2> QED
      BY <1>0, <2>1, <2>2, <2>3, <2>4
  <1> QED
    BY <1>1, <1>2, <1>3

(* A command whose scope has not failed did all of its work, if it was not *)
(* skipped.                                                                *)
LEMMA CommandDone ==
    ASSUME NEW c, Executes(c), c.scope \notin failed'
    PROVE  /\ ~Fails(c)
           /\ failed' = failed
           /\ Skipped(c, held) => held' = held
           /\ ~Skipped(c, held) => /\ ~Refused(c, held)
                                   /\ held' = After(held, c.makes, c.drops)
  <1>1. ~Fails(c)
    BY DEF Fails
  <1>2. CASE Succeeds(c)
    <2>1. held' = After(held, c.makes, c.drops)
      BY <1>2 DEF Succeeds, Books, held
    <2> QED
      BY <1>1, <1>2, <2>1 DEF Succeeds
  <1>3. CASE Passes(c)
    BY <1>1, <1>3 DEF Passes, held
  <1> QED
    BY <1>1, <1>2, <1>3 DEF Executes

LEMMA SparedStays ==
    ASSUME NEW c, Executes(c), NEW r \in held, Spares(c, r)
    PROVE  r \in held'
  <1>1. \A d \in Removable(c, held) : d \in c.drops
    BY DEF Removable
  <1> QED
    BY <1>1, CommandEffect DEF Spares

(* A container stays as long as something is in it.                        *)
LEMMA ContainerStays ==
    ASSUME Containers, NEW c, Executes(c),
           \A y \in c.makes, x \in c.drops : ~Supports("lie", y, x),
           NEW r \in held, r \in held', NEW q \in held, Supports("lie", r, q)
    PROVE  q \in held'
  <1>1. SUFFICES ASSUME q \notin held' PROVE FALSE
    OBVIOUS
  <1>2. PICK d \in Removable(c, held) :
             /\ q = d \/ Supports("lie", q, d)
             /\ \A y \in held : Supports("lie", y, d) => y \in c.makes \/ y \notin held'
    BY <1>1, CommandEffect
  <1>3. <<r[1], q[1]>> \in Within
    BY Resting DEF Supports
  <1>4. ~Supports("lie", q, d)
    <2>1. ~Free(<<q[1], "all">>)
      BY <1>3 DEF Containers
    <2> QED
      BY <2>1, Resting DEF Free, Stored, Supports
  <1>5. d \in c.drops
    BY DEF Removable
  <1> QED
    BY <1>2, <1>4, <1>5

(* A command of the job, run by its body or by a `finally`.                *)
LEMMA BodyCommand ==
    ASSUME job \in Jobs, NEW n \in 1 .. Len(Text[job]), Text[job][n].op = "cmd"
    PROVE  Text[job][n] \in Commands[job]
  BY DEF Commands

LEMMA ExitCommand ==
    ASSUME job \in Jobs, NEW f \in 1 .. Len(Text[job]), Text[job][f].op = "try",
           NEW k \in 1 .. Len(Text[job][f].fin)
    PROVE  Text[job][f].fin[k] \in Commands[job]
  <1>1. f \in Tries[job]
    BY DEF Tries
  <1> QED
    BY <1>1, SMT DEF Commands

LEMMA MadeByCommand ==
    ASSUME job \in Jobs, NEW c \in Commands[job], NEW r \in c.makes
    PROVE  r \in Made[job]
  BY DEF Made

(* What a command of its own scope clears is gone, or its scope failed.    *)
LEMMA ClearedIsGone ==
    ASSUME TiedExist, NEW c, Executes(c), NEW r \in held, Clears(job, c, r, maker[r]),
           maker[r] \notin failed'
    PROVE  r \notin held'
  <1>1. c.scope = maker[r] /\ r \in c.drops \ c.makes /\ c.unless = {}
    BY DEF Clears
  <1>2. failed' = failed /\ ~Fails(c)
    BY <1>1, CommandDone
  <1>3. c.when \subseteq held
    <2> SUFFICES ASSUME NEW w \in c.when PROVE w \in held
      OBVIOUS
    <2>1. w = r \/ Tied(job, w, r, maker[r])
      BY DEF Clears
    <2>2. ASSUME Tied(job, w, r, maker[r]) PROVE w \in held
      <3>1. w \in Made[job]
        BY <2>2 DEF Tied
      <3> QED
        BY <3>1, <2>2, <1>2 DEF TiedExist
    <2> QED
      BY <2>1, <2>2
  <1>4. ~Skipped(c, held)
    BY <1>1, <1>3 DEF Skipped
  <1>5. held' = After(held, c.makes, c.drops)
    BY <1>1, <1>4, CommandDone
  <1> QED
    BY <1>1, <1>5 DEF After

LEMMA TiedKept ==
    ASSUME TiedExist, job' = job, NEW c \in Commands[job], Executes(c)
    PROVE  TiedExist'
  <1>1. SUFFICES ASSUME NEW r \in held', NEW w \in Made[job],
                        maker'[r] \notin failed', Tied(job, w, r, maker'[r])
                 PROVE  w \in held'
    BY DEF TiedExist
  <1>2. \A pair \in Within : pair[1] # w[1]
    BY <1>1 DEF Tied
  <1>3. /\ r \in c.makes /\ c.scope = maker'[r] => w \in c.makes
        /\ w \in c.drops => c.scope = maker'[r] /\ r \in c.drops \ c.makes
    BY <1>1 DEF Tied
  <1>4. CASE r \in held
    <2>1. maker'[r] = maker[r] /\ maker[r] \notin failed
      BY <1>1, <1>4, CommandEffect
    <2>2. w \in held
      BY <1>1, <1>4, <2>1 DEF TiedExist
    <2>3. SUFFICES ASSUME w \notin held' PROVE FALSE
      OBVIOUS
    <2>4. PICK d \in Removable(c, held) : w = d \/ Supports("lie", w, d)
      BY <2>2, <2>3, CommandEffect
    <2>5. ~Supports("lie", w, d)
      BY <1>2, Resting DEF Supports
    <2>6. w \in c.drops
      BY <2>4, <2>5 DEF Removable
    <2>7. c.scope \notin failed' /\ r \in c.drops \ c.makes
      BY <1>1, <1>3, <2>6
    <2>8. CASE Skipped(c, held)
      BY <2>2, <2>3, <2>7, <2>8, CommandDone
    <2>9. CASE ~Skipped(c, held)
      <3>1. held' = After(held, c.makes, c.drops)
        BY <2>7, <2>9, CommandDone
      <3> QED
        BY <2>7, <3>1 DEF After
    <2> QED
      BY <2>8, <2>9
  <1>5. CASE r \notin held
    <2>1. r \in c.makes /\ maker'[r] = c.scope
      BY <1>5, CommandEffect
    <2>2. held' = After(held, c.makes, c.drops)
      BY <1>1, <1>5, <2>1, CommandDone
    <2> QED
      BY <1>3, <2>1, <2>2 DEF After
  <1> QED
    BY <1>4, <1>5

(* What is stored is made in a container that is there and stays.          *)
LEMMA StoredHasContainer ==
    ASSUME Containers, NEW c, Executes(c), c.scope \notin failed',
           \A y \in c.makes, x \in c.drops : ~Supports("lie", y, x),
           NEW r \in c.makes, r \in held', r \notin held, Stored(r)
    PROVE  \E q \in held' : Supports("lie", r, q)
  <1>1. ~Skipped(c, held)
    BY CommandDone
  <1>2. ~Refused(c, held) /\ held' = After(held, c.makes, c.drops)
    BY <1>1, CommandDone
  <1>3. Grounded(r, held \cup c.makes)
    BY <1>2 DEF Refused, Makeable
  <1>4. PICK pair \in Within : pair[1] = r[1]
    BY DEF Stored
  <1>5. PICK q \in held \cup c.makes : q = <<pair[2], r[2]>> \/ q = <<pair[2], "all">>
    BY <1>3, <1>4, Resting DEF Grounded
  <1>6. pair = <<pair[1], pair[2]>> /\ ~Free(<<pair[2], "all">>)
    BY DEF Containers
  <1>7. Supports("lie", r, q)
    <2>1. q[1] = pair[2] /\ q[2] \in {r[2], "all"}
      BY <1>5, SMT
    <2>2. <<r[1], q[1]>> \in Within
      BY <2>1, <1>4, <1>6
    <2> QED
      BY <2>1, <2>2, Resting DEF Supports
  <1>8. \A d : ~Supports("lie", q, d)
    BY <1>5, <1>6, Resting, SMT DEF Supports, Free, Stored
  <1>9. q \in held'
    BY <1>2, <1>5, <1>7, <1>8 DEF After
  <1> QED
    BY <1>7, <1>9

-----------------------------------------------------------------------------
(* The way of a job through its text.                                      *)

(* What is pending before an instruction is cleared by it, or by a         *)
(* `finally` that it opens, or pending after it.                           *)
LEMMA PendingNext ==
    ASSUME NEW n \in 1 .. Len(Text[job]), Len(Text[job]) \in Nat,
           NEW r, NEW s, Pending(job, n, r, s)
    PROVE  /\ Text[job][n].op = "cmd" =>
                 /\ Text[job][n].scope = s
                 /\ Clears(job, Text[job][n], r, s) \/ Pending(job, n + 1, r, s)
           /\ Text[job][n].op = "try" =>
                 \/ \E k \in 1 .. Len(Text[job][n].fin) : Covers(job, n, k, r, s)
                 \/ Pending(job, n + 1, r, s)
           /\ Text[job][n].op = "close" =>
                 Mine(job, Head(Stacks[job][n]), s) /\ Pending(job, n + 1, r, s)
  <1>1. PICK e \in n .. Len(Text[job]) :
           /\ \/ Text[job][e].op = "cmd" /\ Clears(job, Text[job][e], r, s)
              \/ Text[job][e].op = "try" /\ \E k \in 1 .. Len(Text[job][e].fin) :
                                               Covers(job, e, k, r, s)
           /\ \A i \in n .. e - 1 :
                 /\ Text[job][i].op = "cmd" => Text[job][i].scope = s
                 /\ Text[job][i].op = "close" => Mine(job, Head(Stacks[job][i]), s)
    BY DEF Pending
  <1>2. CASE e = n
    BY <1>1, <1>2 DEF Clears
  <1>3. CASE e # n
    <2>1. e \in n + 1 .. Len(Text[job]) /\ n \in n .. e - 1 /\ n + 1 .. e - 1 \subseteq n .. e - 1
      BY <1>3, SMT
    <2>2. Pending(job, n + 1, r, s)
      BY <1>1, <2>1 DEF Pending
    <2> QED
      BY <1>1, <2>1, <2>2
  <1> QED
    BY <1>2, <1>3

(* What has to be there after an instruction had to be there before it, or *)
(* has just been made.                                                     *)
LEMMA SureBefore ==
    ASSUME NEW n \in 1 .. Len(Text[job]), Len(Text[job]) \in Nat, NEW r, Sure(job, n + 1, r)
    PROVE  /\ Text[job][n].op = "cmd" =>
                 \/ Sure(job, n, r) /\ Spares(Text[job][n], r)
                 \/ LET c == Text[job][n]
                    IN  r \in c.makes /\ c.when = {} /\ c.unless = {} /\ ~c.quiet
           /\ Text[job][n].op = "try" => Sure(job, n, r)
           /\ Text[job][n].op = "close" =>
                 /\ Sure(job, n, r)
                 /\ LET F == Text[job][Head(Stacks[job][n])].fin
                    IN  \A k \in 1 .. Len(F) : Spares(F[k], r)
  <1>1. PICK m \in 1 .. n :
           /\ LET c == Text[job][m]
              IN  c.op = "cmd" /\ r \in c.makes /\ c.when = {} /\ c.unless = {} /\ ~c.quiet
           /\ \A i \in m + 1 .. n :
                 /\ Text[job][i].op = "cmd" => Spares(Text[job][i], r)
                 /\ Text[job][i].op = "close" =>
                       LET F == Text[job][Head(Stacks[job][i])].fin
                       IN  \A k \in 1 .. Len(F) : Spares(F[k], r)
    <2>1. (n + 1) - 1 = n
      BY SMT
    <2> QED
      BY <2>1 DEF Sure
  <1>2. CASE m = n
    BY <1>1, <1>2
  <1>3. CASE m # n
    <2>1. m \in 1 .. n - 1 /\ n \in m + 1 .. n /\ m + 1 .. n - 1 \subseteq m + 1 .. n
      BY <1>3, SMT
    <2>2. Sure(job, n, r)
      BY <1>1, <2>1 DEF Sure
    <2> QED
      BY <1>1, <2>1, <2>2
  <1> QED
    BY <1>2, <1>3

-----------------------------------------------------------------------------
(* Every step keeps the invariant.                                         *)

LEMMA OpenPlace ==
    ASSUME Places, open # <<>>
    PROVE  /\ Head(open) \in 1 .. Len(Text[job])
           /\ Len(Text[job][Head(open)].fin) \in Nat
           /\ Len(open) \in Nat \ {0}
           /\ open[1] = Head(open)
           /\ Tail(open) \in Seq(1 .. Len(Text[job]))
           /\ Len(Tail(open)) = Len(open) - 1
           /\ \A i \in 1 .. Len(open) - 1 : Tail(open)[i] = open[i + 1]
  <1>1. open \in Seq(1 .. Len(Text[job])) /\ Text[job][Head(open)].op = "try"
    BY DEF Places
  <1>2. Head(open) \in 1 .. Len(Text[job])
    BY <1>1, SMT
  <1>3. Len(Text[job][Head(open)].fin) \in Nat
    BY <1>1, <1>2, TidyJob DEF WellNested, Places
  <1> QED
    BY <1>1, <1>2, <1>3, SMT

LEMMA RunPlace ==
    ASSUME Places, mode = "run", pc <= Len(Text[job])
    PROVE  /\ pc \in 1 .. Len(Text[job]) /\ Len(Text[job]) \in Nat
           /\ open = Stacks[job][pc] /\ at = 1
           /\ pc + 1 \in 1 .. Len(Text[job]) + 1 /\ pc + 1 > 1 /\ (pc + 1) - 1 = pc
  <1>1. Len(Text[job]) \in Nat
    BY TidyJob DEF WellNested, Places
  <1> QED
    BY <1>1, SMT DEF Places

LEMMA StepPlaces ==
    ASSUME Places, Step
    PROVE  Places'
  <1>1. /\ pc \in 1 .. Len(Text[job]) /\ open = Stacks[job][pc] /\ at = 1
        /\ pc + 1 \in 1 .. Len(Text[job]) + 1
    BY RunPlace DEF Step, Running
  <1>2. Stacks[job][pc + 1] = Stacks[job][pc]
    BY <1>1, TidyJob DEF Step, Running, WellNested, Places
  <1> QED
    BY <1>1, <1>2 DEF Step, Running, Places

LEMMA GuardPlaces ==
    ASSUME Places, Guard
    PROVE  Places'
  <1>1. /\ pc \in 1 .. Len(Text[job]) /\ open = Stacks[job][pc] /\ at = 1
        /\ pc + 1 \in 1 .. Len(Text[job]) + 1
    BY RunPlace DEF Guard, Running
  <1>2. Stacks[job][pc + 1] = <<pc>> \o Stacks[job][pc] /\ Len(Text[job][pc].fin) \in Nat
    BY <1>1, TidyJob DEF Guard, Running, WellNested, Places
  <1>3. /\ open' \in Seq(1 .. Len(Text[job])) /\ open' # <<>>
        /\ Head(open') = pc /\ Tail(open') = open
    <2>1. /\ open' = <<pc>> \o open /\ open \in Seq(1 .. Len(Text[job]))
          /\ pc \in 1 .. Len(Text[job])
      BY <1>1 DEF Guard, Places
    <2> QED
      BY <2>1, Pushed, SMTT(30)
  <1>4. at' = 1 /\ 1 <= Len(Text[job][pc].fin) + 1
    BY <1>1, <1>2, OneMore DEF Guard
  <1> QED
    BY <1>1, <1>2, <1>3, <1>4 DEF Guard, Running, Places

LEMMA LeavePlaces ==
    ASSUME Places, Leave
    PROVE  Places' /\ open # <<>>
  <1>1. /\ pc \in 1 .. Len(Text[job]) /\ open = Stacks[job][pc] /\ at = 1
        /\ pc + 1 \in 1 .. Len(Text[job]) + 1 /\ pc + 1 > 1 /\ (pc + 1) - 1 = pc
    BY RunPlace DEF Leave, Running
  <1>2. Stacks[job][pc] # <<>>
    BY <1>1, TidyJob DEF Leave, Running, WellNested, Places
  <1> QED
    BY <1>1, <1>2 DEF Leave, Running, Places

LEMMA ClosePlace ==
    ASSUME Places, mode = "close"
    PROVE  /\ pc - 1 \in 1 .. Len(Text[job]) /\ (pc - 1) + 1 = pc /\ Len(Text[job]) \in Nat
           /\ Text[job][pc - 1].op = "close" /\ open = Stacks[job][pc - 1]
  <1>1. Len(Text[job]) \in Nat
    BY TidyJob DEF WellNested, Places
  <1>2. /\ pc \in 1 .. Len(Text[job]) + 1 /\ pc > 1
        /\ Text[job][pc - 1].op = "close" /\ open = Stacks[job][pc - 1]
    BY DEF Places
  <1> QED
    BY <1>1, <1>2, SMT

(* Below a `finally` are those that were open where it began, and in close *)
(* mode those that are open after the `close`.                             *)
LEMMA BelowPlace ==
    ASSUME Places, open # <<>>
    PROVE  /\ Tail(open) # <<>> => /\ Text[job][Head(Tail(open))].op = "try"
                                   /\ Tail(Tail(open)) = Stacks[job][Head(Tail(open))]
                                   /\ Len(Text[job][Head(Tail(open))].fin) \in Nat
           /\ mode = "close" => pc - 1 \in 1 .. Len(Text[job]) /\ Tail(open) = Stacks[job][pc]
  <1> DEFINE f == Head(open)
             below == Stacks[job][f]
  <1>1. Tail(open) = below /\ f \in 1 .. Len(Text[job])
    BY OpenPlace DEF Places
  <1>2. Len(Text[job]) \in Nat /\ f \in 1 .. Len(Text[job]) + 1
    <2>1. Len(Text[job]) \in Nat
      BY TidyJob DEF WellNested, Places
    <2> QED
      BY <1>1, <2>1, SMT
  <1>3. below # <<>> => /\ Text[job][Head(below)].op = "try"
                        /\ Tail(below) = Stacks[job][Head(below)]
                        /\ below \in Seq(1 .. Len(Text[job]))
    BY <1>2, TidyJob DEF WellNested, Places
  <1>4. below # <<>> => Len(Text[job][Head(below)].fin) \in Nat
    <2>1. below # <<>> => Head(below) \in 1 .. Len(Text[job])
      BY <1>3, SMT
    <2> QED
      BY <1>3, <2>1, TidyJob DEF WellNested, Places
  <1>5. ASSUME mode = "close"
        PROVE  pc - 1 \in 1 .. Len(Text[job]) /\ Tail(open) = Stacks[job][pc]
    <2>1. /\ pc - 1 \in 1 .. Len(Text[job]) /\ (pc - 1) + 1 = pc
          /\ Text[job][pc - 1].op = "close" /\ open = Stacks[job][pc - 1]
      BY <1>5, ClosePlace
    <2> QED
      BY <2>1, TidyJob DEF WellNested, Places
  <1> QED
    BY <1>1, <1>3, <1>4, <1>5

LEMMA PoppedPlaces ==
    ASSUME Places, open # <<>>, job' = job, pc' = pc, open' = Tail(open), at' = 1,
           mode' = "unwind" \/ (mode = "close" /\ mode' = "run")
    PROVE  Places'
  <1>1. Tail(open) \in Seq(1 .. Len(Text[job]))
    BY OpenPlace
  <1>2. Tail(open) # <<>> => /\ Text[job][Head(Tail(open))].op = "try"
                             /\ Tail(Tail(open)) = Stacks[job][Head(Tail(open))]
                             /\ 1 <= Len(Text[job][Head(Tail(open))].fin) + 1
    <2>1. Tail(open) # <<>> => Len(Text[job][Head(Tail(open))].fin) \in Nat
      BY BelowPlace
    <2>2. Tail(open) # <<>> => 1 <= Len(Text[job][Head(Tail(open))].fin) + 1
      BY <2>1, OneMore
    <2> QED
      BY <2>2, BelowPlace
  <1>3. mode' = "run" => Tail(open) = Stacks[job][pc]
    BY BelowPlace
  <1>4. /\ mode' \in {"run", "close", "unwind", "done"} /\ mode' # "close" /\ mode' # "done"
        /\ at' \in Nat \ {0}
    BY SMT
  <1>5. job \in TidyJobs /\ pc \in 1 .. Len(Text[job]) + 1
    BY DEF Places
  <1> QED
    BY <1>1, <1>2, <1>3, <1>4, <1>5 DEF Places

LEMMA ExitPlaces ==
    ASSUME Places, ExitStep
    PROVE  Places'
  <1>1. open # <<>> /\ at <= Len(Text[job][Head(open)].fin)
    BY DEF ExitStep, Finally
  <1>2. CASE open' = Tail(open) /\ mode' = "unwind" /\ UNCHANGED <<job, pc>> /\ at' = 1
    BY <1>1, <1>2, PoppedPlaces
  <1>3. CASE at' = at + 1 /\ UNCHANGED <<job, pc, open, mode>>
    <2>1. at + 1 \in Nat \ {0} /\ at + 1 <= Len(Text[job][Head(open)].fin) + 1
      <3>1. at \in Nat \ {0} /\ Len(Text[job][Head(open)].fin) \in Nat
        BY <1>1, OpenPlace DEF Places
      <3> QED
        BY <1>1, <3>1, SMT
    <2>2. mode # "run"
      BY DEF ExitStep
    <2> QED
      BY <1>1, <1>3, <2>1, <2>2 DEF Places
  <1> QED
    BY <1>2, <1>3 DEF ExitStep

(* What no `finally` has to remove stays accounted for.                    *)
LEMMA FreeAccounted ==
    ASSUME Places, NEW c \in Commands[job], Executes(c), NEW r \in held',
           \/ r \in held /\ (maker[r] \in failed \/ r[1] \in LastingKinds \/ Contained(r))
           \/ r \notin held /\ (c.scope \in failed' \/ Free(r))
    PROVE  Accounted(r)'
  <1>1. Containers /\ \A y \in c.makes, x \in c.drops : ~Supports("lie", y, x)
    BY TidyJob DEF Places, CleanUpPlanned
  <1>2. CASE r \in held /\ maker[r] \in failed
    BY <1>2, CommandEffect DEF Accounted
  <1>3. CASE r[1] \in LastingKinds
    BY <1>3 DEF Accounted
  <1>4. CASE r \in held /\ Contained(r)
    BY <1>1, <1>4, ContainerStays DEF Accounted, Contained
  <1>5. CASE r \notin held
    <2>1. r \in c.makes /\ maker'[r] = c.scope
      BY <1>5, CommandEffect
    <2>2. CASE c.scope \in failed'
      BY <2>1, <2>2 DEF Accounted
    <2>3. CASE c.scope \notin failed' /\ Stored(r)
      BY <1>1, <1>5, <2>1, <2>3, StoredHasContainer DEF Accounted, Contained
    <2> QED
      BY <1>3, <1>5, <2>2, <2>3 DEF Free
  <1> QED
    BY <1>2, <1>3, <1>4, <1>5

LEMMA StepExecutes ==
    ASSUME Places, Step
    PROVE  /\ Executes(Text[job][pc]) /\ Text[job][pc] \in Commands[job]
           /\ job' = job /\ open' = open /\ at' = at
           /\ \/ pc' = pc + 1 /\ mode' = mode
              \/ mode' = "unwind" /\ pc' = pc /\ Text[job][pc].scope \in failed'
  <1>1. pc \in 1 .. Len(Text[job]) /\ Text[job][pc].op = "cmd"
    BY RunPlace DEF Step, Running
  <1>2. Text[job][pc] \in Commands[job]
    BY <1>1, TidyJob, BodyCommand DEF Places
  <1> QED
    BY <1>2 DEF Step, Executes, Fails

LEMMA StepAccounts ==
    ASSUME Places, SureExist, TiedExist, AllAccounted, Step
    PROVE  AllAccounted'
  <1> DEFINE c == Text[job][pc]
  <1>1. /\ Executes(c) /\ c \in Commands[job]
        /\ job' = job /\ open' = open /\ at' = at
        /\ \/ pc' = pc + 1 /\ mode' = mode
           \/ mode' = "unwind" /\ pc' = pc /\ c.scope \in failed'
    BY StepExecutes
  <1>2. /\ pc \in 1 .. Len(Text[job]) /\ Len(Text[job]) \in Nat
        /\ open = Stacks[job][pc] /\ at = 1 /\ c.op = "cmd" /\ mode = "run"
        /\ job \in Jobs /\ CleanUpPlanned(job)
    BY RunPlace, TidyJob DEF Step, Running, Places
  <1> HIDE DEF c
  <1>3. ASSUME NEW r \in held', r \in held PROVE Accounted(r)' /\ r \in Made[job]
    <2>1. r \in Made[job] /\ Accounted(r) /\ maker'[r] = maker[r]
      BY <1>1, <1>3, CommandEffect DEF AllAccounted
    <2>2. CASE maker[r] \in failed \/ r[1] \in LastingKinds \/ Contained(r)
      BY <1>1, <1>3, <2>1, <2>2, FreeAccounted
    <2>3. CASE Covered(r)
      <3>1. Covered(r)'
        BY <1>1, <2>1, <2>3 DEF Covered
      <3> QED
        BY <2>1, <3>1 DEF Accounted
    <2>4. CASE Promised(r) /\ maker[r] \notin failed'
      <3>1. Pending(job, pc, r, maker[r])
        BY <2>4 DEF Promised
      <3>2. /\ c.scope = maker[r]
            /\ Clears(job, c, r, maker[r]) \/ Pending(job, pc + 1, r, maker[r])
        BY <1>2, <3>1, PendingNext DEF c
      <3>3. ~Clears(job, c, r, maker[r])
        BY <1>1, <1>3, <2>4, ClearedIsGone
      <3>4. pc' = pc + 1 /\ mode' = "run"
        BY <1>1, <1>2, <2>4, <3>2
      <3>5. PICK m \in 1 .. pc - 1 : /\ Text[job][m].op = "cmd" /\ Text[job][m].scope = maker[r]
                                     /\ r \in Text[job][m].makes
        BY <2>4 DEF Promised
      <3>6. m \in 1 .. pc' - 1
        BY <1>2, <3>4, SMT
      <3>7. Promised(r)'
        BY <1>1, <2>1, <3>2, <3>3, <3>4, <3>5, <3>6 DEF Promised
      <3> QED
        BY <2>1, <3>7 DEF Accounted
    <2>5. CASE maker[r] \in failed'
      BY <2>1, <2>5 DEF Accounted
    <2> QED
      BY <2>1, <2>2, <2>3, <2>4, <2>5 DEF Accounted
  <1>4. ASSUME NEW r \in held', r \notin held PROVE Accounted(r)' /\ r \in Made[job]
    <2>1. r \in c.makes /\ maker'[r] = c.scope
      BY <1>1, <1>4, CommandEffect
    <2>2. r \in Made[job]
      BY <1>1, <1>2, <2>1, MadeByCommand
    <2>3. CASE c.scope \in failed' \/ Free(r)
      BY <1>1, <1>4, <2>2, <2>3, FreeAccounted
    <2>4. CASE c.scope \notin failed' /\ ~Free(r)
      <3>1. pc' = pc + 1 /\ mode' = "run"
        BY <1>1, <1>2, <2>4
      <3>2. \/ Pending(job, pc + 1, r, c.scope) \/ CoveredBy(job, Stacks[job][pc], r, c.scope)
            \/ Sure(job, pc, r)
        BY <1>2, <2>1, <2>4 DEF CleanUpPlanned, c
      <3>3. ~Sure(job, pc, r)
        BY <1>2, <1>4, <2>2 DEF SureExist
      <3>4. CASE Pending(job, pc + 1, r, c.scope)
        <4>1. pc \in 1 .. pc' - 1
          BY <1>2, <3>1, SMT
        <4>2. Promised(r)'
          BY <1>1, <1>2, <2>1, <3>1, <3>4, <4>1 DEF Promised, c
        <4> QED
          BY <2>2, <4>2 DEF Accounted
      <3>5. CASE CoveredBy(job, Stacks[job][pc], r, c.scope)
        <4>1. PICK i \in 1 .. Len(open) : \E k \in 1 .. Len(Text[job][open[i]].fin) :
                 Covers(job, open[i], k, r, c.scope)
          BY <1>2, <3>5 DEF CoveredBy
        <4>2. PICK k \in 1 .. Len(Text[job][open[i]].fin) : Covers(job, open[i], k, r, c.scope)
          BY <4>1
        <4>3. k >= at'
          BY <1>1, <1>2, SMT
        <4>4. Covered(r)'
          BY <1>1, <2>1, <4>2, <4>3 DEF Covered
        <4> QED
          BY <2>2, <4>4 DEF Accounted
      <3> QED
        BY <3>2, <3>3, <3>4, <3>5
    <2> QED
      BY <2>3, <2>4
  <1> QED
    BY <1>1, <1>3, <1>4 DEF AllAccounted

(* A step without a command leaves what exists as it is.                   *)
LEMMA QuietAccounts ==
    ASSUME AllAccounted, UNCHANGED <<job, maker, failed>>,
           \A r \in held : Covered(r) => Covered(r)' \/ Promised(r)',
           \A r \in held : Promised(r) => Covered(r)' \/ Promised(r)'
    PROVE  AllAccounted'
  <1>1. held' = held
    BY DEF held
  <1> QED
    BY <1>1 DEF AllAccounted, Accounted, Contained

LEMMA GuardAccounts ==
    ASSUME Places, AllAccounted, Guard
    PROVE  AllAccounted'
  <1>1. /\ pc \in 1 .. Len(Text[job]) /\ Len(Text[job]) \in Nat /\ at = 1
        /\ Text[job][pc].op = "try" /\ pc' = pc + 1 /\ open' = <<pc>> \o open
        /\ open \in Seq(1 .. Len(Text[job]))
        /\ mode = "run" /\ UNCHANGED <<job, at, mode, maker, failed>>
    BY RunPlace DEF Guard, Running, Places
  <1>2. /\ Len(open) \in Nat /\ Len(open') = Len(open) + 1 /\ open'[1] = pc
        /\ \A i \in 1 .. Len(open) : open'[i + 1] = open[i]
    BY <1>1, Pushed, SMT
  <1>3. ASSUME NEW r \in held, Covered(r) PROVE Covered(r)'
    <2>1. PICK i \in 1 .. Len(open) : \E k \in 1 .. Len(Text[job][open[i]].fin) :
             Covers(job, open[i], k, r, maker[r])
      BY <1>3 DEF Covered
    <2>2. i + 1 \in 1 .. Len(open') /\ i + 1 # 1 /\ open'[i + 1] = open[i]
      BY <1>2, SMT
    <2> QED
      BY <1>1, <2>1, <2>2 DEF Covered
  <1>4. ASSUME NEW r \in held, Promised(r) PROVE Covered(r)' \/ Promised(r)'
    <2>1. \/ \E k \in 1 .. Len(Text[job][pc].fin) : Covers(job, pc, k, r, maker[r])
          \/ Pending(job, pc + 1, r, maker[r])
      BY <1>1, <1>4, PendingNext DEF Promised
    <2>2. CASE \E k \in 1 .. Len(Text[job][pc].fin) : Covers(job, pc, k, r, maker[r])
      <3>1. PICK k \in 1 .. Len(Text[job][pc].fin) : Covers(job, pc, k, r, maker[r])
        BY <2>2
      <3>2. 1 \in 1 .. Len(open') /\ k >= at'
        BY <1>1, <1>2, SMT
      <3>3. Covered(r)'
        BY <1>1, <1>2, <3>1, <3>2 DEF Covered
      <3> QED
        BY <3>3
    <2>3. CASE Pending(job, pc + 1, r, maker[r])
      <3>1. PICK m \in 1 .. pc - 1 : /\ Text[job][m].op = "cmd" /\ Text[job][m].scope = maker[r]
                                     /\ r \in Text[job][m].makes
        BY <1>4 DEF Promised
      <3>2. m \in 1 .. pc' - 1
        BY <1>1, SMT
      <3>3. Promised(r)'
        BY <1>1, <2>3, <3>1, <3>2 DEF Promised
      <3> QED
        BY <3>3
    <2> QED
      BY <2>1, <2>2, <2>3
  <1> QED
    BY <1>1, <1>3, <1>4, QuietAccounts

LEMMA LeaveAccounts ==
    ASSUME Places, AllAccounted, Leave
    PROVE  AllAccounted'
  <1>1. /\ pc \in 1 .. Len(Text[job]) /\ Len(Text[job]) \in Nat /\ open = Stacks[job][pc]
        /\ Text[job][pc].op = "close" /\ pc' = pc + 1 /\ mode' = "close"
        /\ UNCHANGED <<job, at, open, maker, failed>>
    BY RunPlace DEF Leave, Running
  <1>2. ASSUME NEW r \in held, Covered(r) PROVE Covered(r)'
    BY <1>1, <1>2 DEF Covered
  <1>3. ASSUME NEW r \in held, Promised(r) PROVE Promised(r)'
    <2>1. Mine(job, Head(open), maker[r]) /\ Pending(job, pc + 1, r, maker[r])
      BY <1>1, <1>3, PendingNext DEF Promised
    <2>2. PICK m \in 1 .. pc - 1 : /\ Text[job][m].op = "cmd" /\ Text[job][m].scope = maker[r]
                                   /\ r \in Text[job][m].makes
      BY <1>3 DEF Promised
    <2>3. m \in 1 .. pc' - 1
      BY <1>1, SMT
    <2> QED
      BY <1>1, <2>1, <2>2, <2>3 DEF Promised
  <1> QED
    BY <1>1, <1>2, <1>3, QuietAccounts

LEMMA FinishAccounts ==
    ASSUME Places, AllAccounted, Finish
    PROVE  AllAccounted'
  <1>1. Len(Text[job]) \in Nat /\ pc \in Nat /\ pc > Len(Text[job])
    <2>1. Len(Text[job]) \in Nat /\ pc \in 1 .. Len(Text[job]) + 1 /\ pc > Len(Text[job])
      BY TidyJob DEF Finish, Places, WellNested
    <2> QED
      BY <2>1, SMT
  <1>2. pc .. Len(Text[job]) = {}
    BY <1>1, SMT
  <1>3. \A r \in held : ~Promised(r)
    BY <1>2 DEF Promised, Pending
  <1>4. \A r \in held : Covered(r) => Covered(r)'
    BY DEF Finish, Covered
  <1> QED
    BY <1>3, <1>4, QuietAccounts DEF Finish

LEMMA PoppedAccounts ==
    ASSUME Places, AllAccounted, Popped
    PROVE  AllAccounted'
  <1>1. /\ open # <<>> /\ open' = Tail(open) /\ at' = 1 /\ at > Len(Text[job][Head(open)].fin)
        /\ mode' = IF mode = "close" THEN "run" ELSE "unwind"
        /\ mode \in {"close", "unwind"} /\ UNCHANGED <<job, pc, maker, failed>>
    BY DEF Popped, Finally
  <1>2. /\ Len(open) \in Nat \ {0} /\ open[1] = Head(open) /\ Len(open') = Len(open) - 1
        /\ \A i \in 1 .. Len(open) - 1 : open'[i] = open[i + 1]
        /\ Len(Text[job][Head(open)].fin) \in Nat /\ at \in Nat
    BY <1>1, OpenPlace DEF Places
  <1>3. ASSUME NEW r \in held, Covered(r) PROVE Covered(r)'
    <2>1. PICK i \in 1 .. Len(open) : \E k \in 1 .. Len(Text[job][open[i]].fin) :
             (i = 1 => k >= at) /\ Covers(job, open[i], k, r, maker[r])
      BY <1>3 DEF Covered
    <2>2. PICK k \in 1 .. Len(Text[job][open[i]].fin) :
             (i = 1 => k >= at) /\ Covers(job, open[i], k, r, maker[r])
      BY <2>1
    <2>3. i # 1
      BY <1>1, <1>2, <2>2, SMT
    <2>4. i - 1 \in 1 .. Len(open') /\ open'[i - 1] = open[i] /\ k >= at'
      BY <1>1, <1>2, <2>3, SMT
    <2> QED
      BY <1>1, <2>2, <2>4 DEF Covered
  <1>4. ASSUME NEW r \in held, Promised(r) PROVE Promised(r)'
    BY <1>1, <1>4 DEF Promised
  <1> QED
    BY <1>1, <1>3, <1>4, QuietAccounts

LEMMA DoneAccounts ==
    ASSUME AllAccounted, Done
    PROVE  AllAccounted'
  <1>1. \A r \in held : ~Promised(r) /\ (Covered(r) => Covered(r)')
    BY DEF Done, Covered, Promised
  <1> QED
    BY <1>1, QuietAccounts DEF Done

LEMMA ExitExecutes ==
    ASSUME Places, ExitStep
    PROVE  LET c == Text[job][Head(open)].fin[at]
           IN  /\ Executes(c) /\ c \in Commands[job]
               /\ at \in 1 .. Len(Text[job][Head(open)].fin)
               /\ open # <<>> /\ job' = job /\ pc' = pc /\ mode \in {"close", "unwind"}
               /\ \/ at' = at + 1 /\ open' = open /\ mode' = mode
                  \/ /\ at' = 1 /\ open' = Tail(open) /\ mode' = "unwind"
                     /\ c.scope \in failed' /\ Fails(c)
  <1>1. open # <<>> /\ at <= Len(Text[job][Head(open)].fin)
    BY DEF ExitStep, Finally
  <1>2. /\ Head(open) \in 1 .. Len(Text[job]) /\ Text[job][Head(open)].op = "try"
        /\ at \in 1 .. Len(Text[job][Head(open)].fin)
    <2>1. /\ Head(open) \in 1 .. Len(Text[job]) /\ Len(Text[job][Head(open)].fin) \in Nat
          /\ at \in Nat \ {0} /\ Text[job][Head(open)].op = "try"
      BY <1>1, OpenPlace DEF Places
    <2> QED
      BY <1>1, <2>1, SMT
  <1>3. Text[job][Head(open)].fin[at] \in Commands[job]
    BY <1>2, TidyJob, ExitCommand DEF Places
  <1> QED
    BY <1>1, <1>2, <1>3 DEF ExitStep, Finally, Executes, Fails

LEMMA ExitAccounts ==
    ASSUME Places, TiedExist, AllAccounted, ExitStep
    PROVE  AllAccounted'
  <1> DEFINE c == Text[job][Head(open)].fin[at]
  <1>1. /\ Executes(c) /\ c \in Commands[job]
        /\ at \in 1 .. Len(Text[job][Head(open)].fin)
        /\ open # <<>> /\ job' = job /\ pc' = pc /\ mode \in {"close", "unwind"}
        /\ \/ at' = at + 1 /\ open' = open /\ mode' = mode
           \/ at' = 1 /\ open' = Tail(open) /\ mode' = "unwind" /\ c.scope \in failed'
    BY ExitExecutes
  <1>2. /\ Head(open) \in 1 .. Len(Text[job]) /\ Len(Text[job][Head(open)].fin) \in Nat
        /\ Len(open) \in Nat \ {0} /\ open[1] = Head(open) /\ Len(Tail(open)) = Len(open) - 1
        /\ \A i \in 1 .. Len(open) - 1 : Tail(open)[i] = open[i + 1]
        /\ at \in Nat /\ Tail(open) = Stacks[job][Head(open)]
        /\ Text[job][Head(open)].op = "try"
        /\ job \in Jobs /\ CleanUpPlanned(job)
    BY <1>1, OpenPlace, TidyJob DEF Places
  <1> HIDE DEF c
  <1>3. ASSUME NEW r \in held', r \in held PROVE Accounted(r)' /\ r \in Made[job]
    <2>1. r \in Made[job] /\ Accounted(r) /\ maker'[r] = maker[r]
      BY <1>1, <1>3, CommandEffect DEF AllAccounted
    <2>2. CASE maker[r] \in failed \/ r[1] \in LastingKinds \/ Contained(r)
      BY <1>1, <1>3, <2>1, <2>2, FreeAccounted
    <2>3. CASE Covered(r) /\ maker[r] \notin failed'
      <3>1. PICK i \in 1 .. Len(open) : \E k \in 1 .. Len(Text[job][open[i]].fin) :
               (i = 1 => k >= at) /\ Covers(job, open[i], k, r, maker[r])
        BY <2>3 DEF Covered
      <3>2. PICK k \in 1 .. Len(Text[job][open[i]].fin) :
               (i = 1 => k >= at) /\ Covers(job, open[i], k, r, maker[r])
        BY <3>1
      <3>3. CASE i = 1
        <4>1. k # at
          <5>1. Clears(job, Text[job][Head(open)].fin[k], r, maker[r])
            BY <1>2, <3>2, <3>3 DEF Covers
          <5> QED
            BY <5>1, <1>1, <1>3, <2>3, ClearedIsGone DEF c
        <4>2. at \in 1 .. k - 1 /\ k >= at + 1
          BY <1>1, <1>2, <3>2, <3>3, <4>1, SMT
        <4>3. c.scope = maker[r]
          BY <1>2, <3>2, <3>3, <4>2 DEF Covers, c
        <4>4. at' = at + 1 /\ open' = open
          BY <1>1, <2>3, <4>3
        <4>5. Covered(r)'
          BY <1>1, <2>1, <3>2, <4>2, <4>4 DEF Covered
        <4> QED
          BY <2>1, <4>5 DEF Accounted
      <3>4. CASE i # 1 /\ open' = open
        <4>1. Covered(r)'
          BY <1>1, <2>1, <3>2, <3>4 DEF Covered
        <4> QED
          BY <2>1, <4>1 DEF Accounted
      <3>5. CASE i # 1 /\ open' = Tail(open) /\ at' = 1
        <4>1. i - 1 \in 1 .. Len(open') /\ open'[i - 1] = open[i] /\ k >= at'
          BY <1>2, <3>5, SMT
        <4>2. Covered(r)'
          BY <1>1, <2>1, <3>2, <4>1 DEF Covered
        <4> QED
          BY <2>1, <4>2 DEF Accounted
      <3> QED
        BY <1>1, <3>3, <3>4, <3>5
    <2>4. CASE Promised(r) /\ maker[r] \notin failed'
      <3>1. mode = "close" /\ Mine(job, Head(open), maker[r])
        BY <1>1, <2>4 DEF Promised
      <3>2. c.scope = maker[r]
        BY <1>1, <3>1 DEF Mine, c
      <3>3. open' = open /\ mode' = mode
        BY <1>1, <2>4, <3>2
      <3>4. Promised(r)'
        BY <1>1, <2>1, <2>4, <3>3 DEF Promised
      <3> QED
        BY <2>1, <3>4 DEF Accounted
    <2>5. CASE maker[r] \in failed'
      BY <2>1, <2>5 DEF Accounted
    <2> QED
      BY <2>1, <2>2, <2>3, <2>4, <2>5 DEF Accounted
  <1>4. ASSUME NEW r \in held', r \notin held PROVE Accounted(r)' /\ r \in Made[job]
    <2>1. r \in c.makes /\ maker'[r] = c.scope
      BY <1>1, <1>4, CommandEffect
    <2>2. r \in Made[job]
      BY <1>1, <1>2, <2>1, MadeByCommand
    <2>3. CASE c.scope \in failed' \/ Free(r)
      BY <1>1, <1>4, <2>2, <2>3, FreeAccounted
    <2>4. CASE c.scope \notin failed' /\ ~Free(r)
      <3>1. open' = open
        BY <1>1, <2>4
      <3>2. CoveredBy(job, Tail(open), r, c.scope)
        BY <1>1, <1>2, <2>1, <2>4 DEF CleanUpPlanned, c
      <3>3. PICK i \in 1 .. Len(Tail(open)) : \E k \in 1 .. Len(Text[job][Tail(open)[i]].fin) :
               Covers(job, Tail(open)[i], k, r, c.scope)
        BY <3>2 DEF CoveredBy
      <3>4. i + 1 \in 1 .. Len(open') /\ open'[i + 1] = Tail(open)[i] /\ i + 1 # 1
        BY <1>2, <3>1, SMT
      <3>5. Covered(r)'
        BY <1>1, <2>1, <3>3, <3>4 DEF Covered
      <3> QED
        BY <2>2, <3>5 DEF Accounted
    <2> QED
      BY <2>3, <2>4
  <1> QED
    BY <1>1, <1>3, <1>4 DEF AllAccounted

LEMMA StepSure ==
    ASSUME Places, SureExist, Step
    PROVE  SureExist'
  <1> DEFINE c == Text[job][pc]
  <1>1. /\ Executes(c) /\ c.op = "cmd" /\ mode = "run" /\ job' = job
        /\ pc \in 1 .. Len(Text[job]) /\ Len(Text[job]) \in Nat
    BY StepExecutes, RunPlace DEF Step, Running
  <1>2. CASE mode' = "unwind"
    BY <1>2 DEF SureExist
  <1>3. CASE pc' = pc + 1 /\ (Succeeds(c) \/ Passes(c) \/ c.quiet)
    <2>1. SUFFICES ASSUME NEW r \in Made[job], Sure(job, pc + 1, r) PROVE r \in held'
      BY <1>1, <1>3 DEF SureExist
    <2>2. \/ Sure(job, pc, r) /\ Spares(c, r)
          \/ r \in c.makes /\ c.when = {} /\ c.unless = {} /\ ~c.quiet
      BY <1>1, <2>1, SureBefore
    <2>3. CASE Sure(job, pc, r) /\ Spares(c, r)
      BY <1>1, <2>3, SparedStays DEF SureExist
    <2>4. CASE r \in c.makes /\ c.when = {} /\ c.unless = {} /\ ~c.quiet
      <3>1. Succeeds(c)
        BY <1>3, <2>4 DEF Passes, Skipped
      <3>2. held' = After(held, c.makes, c.drops)
        BY <3>1 DEF Succeeds, Books, held
      <3> QED
        BY <2>4, <3>2 DEF After
    <2> QED
      BY <2>2, <2>3, <2>4
  <1> QED
    BY <1>2, <1>3 DEF Step

LEMMA ExitSure ==
    ASSUME Places, SureExist, ExitStep
    PROVE  SureExist'
  <1> DEFINE c == Text[job][Head(open)].fin[at]
  <1>1. /\ Executes(c) /\ at \in 1 .. Len(Text[job][Head(open)].fin)
        /\ open # <<>> /\ job' = job /\ pc' = pc
        /\ mode' = mode \/ mode' = "unwind"
    BY ExitExecutes
  <1>2. SUFFICES ASSUME mode = "close", NEW r \in Made[job], Sure(job, pc, r) PROVE r \in held'
    BY <1>1 DEF SureExist, ExitStep
  <1>3. r \in held
    BY <1>2 DEF SureExist
  <1>4. /\ pc - 1 \in 1 .. Len(Text[job]) /\ (pc - 1) + 1 = pc /\ Len(Text[job]) \in Nat
        /\ Text[job][pc - 1].op = "close" /\ open = Stacks[job][pc - 1]
    BY <1>2, ClosePlace
  <1>5. Spares(c, r)
    BY <1>1, <1>2, <1>4, SureBefore
  <1> QED
    BY <1>1, <1>3, <1>5, SparedStays

LEMMA QuietSure ==
    ASSUME Places, SureExist, Guard \/ Leave \/ Finish \/ Popped \/ Done
    PROVE  SureExist'
  <1>1. UNCHANGED <<job, maker>> /\ held' = held
    BY DEF Guard, Leave, Finish, Popped, Done, held
  <1>2. CASE Guard \/ Leave
    <2>1. /\ pc \in 1 .. Len(Text[job]) /\ Len(Text[job]) \in Nat /\ pc' = pc + 1
          /\ Text[job][pc].op \in {"try", "close"} /\ mode = "run"
      BY <1>2, RunPlace DEF Guard, Leave, Running
    <2>2. \A r : Sure(job, pc + 1, r) => Sure(job, pc, r)
      BY <2>1, SureBefore
    <2> QED
      BY <1>1, <2>1, <2>2 DEF SureExist
  <1>3. CASE Finish \/ Popped \/ Done
    BY <1>1, <1>3 DEF Finish, Popped, Done, SureExist
  <1> QED
    BY <1>2, <1>3

(* A command that is not refused goes on, or fails for a reason of its own. *)
LEMMA GoesOn ==
    ASSUME NEW c, NEW G, Goes(c, held, G), Executes(c), faults \in Nat
    PROVE  /\ faults' \in Nat
           /\ faults' = 0 => ~Fails(c) /\ held' = G /\ UNCHANGED <<failed, exc>>
  <1>1. CASE Fails(c)
    <2>1. ~Skipped(c, held) /\ ~Refused(c, held)
      BY <1>1 DEF Fails, Goes
    <2>2. faults' = faults + 1
      BY <1>1, <2>1 DEF Fails
    <2> QED
      BY <2>2, SMT
  <1>2. CASE ~Fails(c) /\ Succeeds(c)
    <2>1. held' = After(held, c.makes, c.drops)
      BY <1>2 DEF Succeeds, Books, held
    <2> QED
      BY <1>2, <2>1 DEF Succeeds, Goes
  <1>3. CASE ~Fails(c) /\ Passes(c)
    <2>1. held' = held
      BY <1>3 DEF Passes, held
    <2> QED
      BY <1>3, <2>1 DEF Passes, Goes
  <1> QED
    BY <1>1, <1>2, <1>3 DEF Executes

LEMMA FaultsCounted ==
    ASSUME NEW c, Executes(c), faults \in Nat
    PROVE  faults' \in Nat /\ faults' >= faults
  BY SMT DEF Executes, Succeeds, Passes, Fails

LEMMA StepOnCourse ==
    ASSUME Places, OnCourse, Step
    PROVE  OnCourse'
  <1> DEFINE c == Text[job][pc]
  <1>1. /\ Executes(c) /\ c.op = "cmd" /\ mode = "run" /\ job' = job /\ faults \in Nat
        /\ pc \in 1 .. Len(Text[job]) /\ NothingRefused(job)
        /\ \/ Fails(c) /\ mode' = "unwind"
           \/ pc' = pc + 1 /\ mode' = "run"
    BY StepExecutes, RunPlace, TidyJob DEF Step, Running, OnCourse, Places
  <1>2. faults' \in Nat /\ faults' >= faults
    BY <1>1, FaultsCounted
  <1>3. CASE faults' # 0
    BY <1>2, <1>3 DEF OnCourse
  <1>4. CASE faults' = 0
    <2>1. faults = 0
      BY <1>1, <1>2, <1>4, SMT
    <2>2. held = Reached[job][pc] /\ failed = {} /\ exc = FALSE
      BY <1>1, <2>1 DEF OnCourse
    <2>3. Goes(c, held, Reached[job][pc + 1])
      BY <1>1, <2>2 DEF NothingRefused
    <2>4. ~Fails(c) /\ held' = Reached[job][pc + 1] /\ UNCHANGED <<failed, exc>>
      BY <1>1, <1>4, <2>3, GoesOn
    <2> QED
      BY <1>1, <1>2, <2>2, <2>4 DEF OnCourse
  <1> QED
    BY <1>3, <1>4

LEMMA ExitOnCourse ==
    ASSUME Places, OnCourse, ExitStep
    PROVE  OnCourse'
  <1> DEFINE f == Head(open)
             c == Text[job][f].fin[at]
  <1>1. /\ Executes(c) /\ at \in 1 .. Len(Text[job][f].fin)
        /\ open # <<>> /\ job' = job /\ pc' = pc /\ mode \in {"close", "unwind"}
        /\ \/ at' = at + 1 /\ open' = open /\ mode' = mode
           \/ Fails(c)
    BY ExitExecutes
  <1>2. /\ f \in 1 .. Len(Text[job]) /\ Text[job][f].op = "try" /\ NothingRefused(job)
        /\ faults \in Nat
    BY <1>1, OpenPlace, TidyJob DEF Places, OnCourse
  <1>3. faults' \in Nat /\ faults' >= faults
    BY <1>1, <1>2, FaultsCounted
  <1>4. CASE faults' # 0
    BY <1>3, <1>4 DEF OnCourse
  <1>5. CASE faults' = 0
    <2>1. faults = 0
      BY <1>2, <1>3, <1>5, SMT
    <2>2. held = Swept[job][f][at] /\ failed = {} /\ exc = FALSE
      BY <1>1, <2>1 DEF OnCourse
    <2>3. Goes(c, held, Swept[job][f][at + 1])
      BY <1>1, <1>2, <2>2 DEF NothingRefused
    <2>4. ~Fails(c) /\ held' = Swept[job][f][at + 1] /\ UNCHANGED <<failed, exc>>
      BY <1>1, <1>2, <1>5, <2>3, GoesOn
    <2> QED
      BY <1>1, <1>3, <2>1, <2>2, <2>4 DEF OnCourse
  <1> QED
    BY <1>4, <1>5

LEMMA GuardLeaveOnCourse ==
    ASSUME Places, OnCourse, Guard \/ Leave
    PROVE  OnCourse'
  <1>1. /\ pc \in 1 .. Len(Text[job]) /\ open = Stacks[job][pc] /\ at = 1 /\ pc' = pc + 1
        /\ mode = "run" /\ NothingRefused(job)
        /\ UNCHANGED <<job, at, maker, failed, exc, faults>>
    BY RunPlace, TidyJob DEF Guard, Leave, Running, Places
  <1>2. held' = held
    BY <1>1 DEF held
  <1>3. CASE Guard
    <2>1. Reached[job][pc + 1] = Reached[job][pc]
      BY <1>1, <1>3 DEF Guard, Running, NothingRefused
    <2> QED
      BY <1>1, <1>2, <1>3, <2>1 DEF Guard, OnCourse
  <1>4. CASE Leave
    <2>1. Swept[job][Head(open)][1] = Reached[job][pc]
      BY <1>1, <1>4 DEF Leave, Running, NothingRefused
    <2> QED
      BY <1>1, <1>2, <1>4, <2>1 DEF Leave, OnCourse
  <1> QED
    BY <1>3, <1>4

LEMMA FinishOnCourse ==
    ASSUME Places, OnCourse, Finish
    PROVE  OnCourse'
  <1>1. pc = Len(Text[job]) + 1 /\ open = Stacks[job][pc] /\ at = 1 /\ mode = "run"
    <2>1. Len(Text[job]) \in Nat
      BY TidyJob DEF WellNested, Places
    <2> QED
      BY <2>1, SMT DEF Finish, Places
  <1>2. held' = held
    BY DEF Finish, held
  <1>3. open # <<>> => /\ Swept[job][Head(open)][1] = Reached[job][pc]
                       /\ \E i \in 1 .. Len(open) : open[i] = Head(open)
    <2>1. open # <<>> => 1 \in 1 .. Len(open) /\ open[1] = Head(open)
      BY OpenPlace, SMT
    <2>2. open # <<>> => Swept[job][Head(open)][1] = Reached[job][pc]
      BY <1>1, TidyJob DEF NothingRefused, Places
    <2> QED
      BY <2>1, <2>2
  <1> QED
    BY <1>1, <1>2, <1>3 DEF Finish, OnCourse

LEMMA PoppedOnCourse ==
    ASSUME Places, OnCourse, Popped
    PROVE  OnCourse'
  <1> DEFINE f == Head(open)
             last == Stacks[job][Len(Text[job]) + 1]
  <1>1. /\ open # <<>> /\ open' = Tail(open) /\ at' = 1 /\ at > Len(Text[job][f].fin)
        /\ mode' = IF mode = "close" THEN "run" ELSE "unwind"
        /\ mode \in {"close", "unwind"} /\ UNCHANGED <<job, pc, failed, exc, faults>>
        /\ held' = held
    BY DEF Popped, Finally, held
  <1>2. at = Len(Text[job][f].fin) + 1 /\ Tail(open) = Stacks[job][f]
    <2>1. /\ at \in Nat /\ at <= Len(Text[job][f].fin) + 1 /\ Tail(open) = Stacks[job][f]
          /\ Len(Text[job][f].fin) \in Nat
      BY <1>1, OpenPlace DEF Places
    <2>2. at > Len(Text[job][f].fin)
      BY <1>1
    <2> QED
      BY <2>1, <2>2, SMT
  <1>3. NothingRefused(job)
    BY TidyJob DEF Places
  <1>4. SUFFICES ASSUME faults = 0 PROVE OnCourse'
    BY <1>1 DEF OnCourse
  <1>5. held = Swept[job][f][Len(Text[job][f].fin) + 1]
    BY <1>1, <1>2, <1>4 DEF OnCourse
  <1>6. CASE mode = "close"
    <2>1. /\ pc - 1 \in 1 .. Len(Text[job]) /\ (pc - 1) + 1 = pc
          /\ Text[job][pc - 1].op = "close" /\ open = Stacks[job][pc - 1]
      BY <1>6, ClosePlace
    <2>2. Reached[job][pc] = Swept[job][f][Len(Text[job][f].fin) + 1]
      BY <1>3, <2>1 DEF NothingRefused
    <2> QED
      BY <1>1, <1>4, <1>5, <1>6, <2>2 DEF OnCourse
  <1>7. CASE mode = "unwind"
    <2>1. pc = Len(Text[job]) + 1 /\ \E i \in 1 .. Len(last) : last[i] = f
      BY <1>1, <1>4, <1>7 DEF OnCourse
    <2>2. Stacks[job][f] # <<>> =>
             /\ Swept[job][Head(Stacks[job][f])][1] = Swept[job][f][Len(Text[job][f].fin) + 1]
             /\ \E k \in 1 .. Len(last) : last[k] = Head(Stacks[job][f])
      <3>1. PICK i \in 1 .. Len(last) : last[i] = f
        BY <2>1
      <3> HIDE DEF f
      <3> QED
        BY <1>3, <3>1 DEF NothingRefused
    <2> QED
      BY <1>1, <1>2, <1>4, <1>5, <1>7, <2>1, <2>2 DEF OnCourse
  <1> QED
    BY <1>1, <1>6, <1>7

LEMMA NestedInitial == Init /\ JobsAreTidy => NestedInv
  <1> SUFFICES ASSUME Init, JobsAreTidy PROVE NestedInv
    OBVIOUS
  <1>1. held = {}
    BY DEF Init, held
  <1>2. WellNested(job) /\ NothingRefused(job)
    BY TidyJob DEF JobsAreTidy
  <1>3. Places
    <2>1. Len(Text[job]) \in Nat /\ Stacks[job][1] = <<>>
      BY <1>2 DEF WellNested
    <2> QED
      BY <2>1, SMT DEF Init, JobsAreTidy, Places
  <1>4. SureExist
    BY SMT DEF Init, SureExist, Sure
  <1>5. TiedExist /\ AllAccounted
    BY <1>1 DEF TiedExist, AllAccounted
  <1>6. OnCourse
    <2>1. held = Reached[job][1]
      BY <1>1, <1>2 DEF NothingRefused
    <2> QED
      BY <2>1 DEF Init, OnCourse
  <1> QED
    BY <1>3, <1>4, <1>5, <1>6 DEF NestedInv

LEMMA NestedStep == NestedInv /\ [Next]_vars => NestedInv'
  <1> SUFFICES ASSUME NestedInv, [Next]_vars PROVE NestedInv'
    OBVIOUS
  <1>0. Places /\ SureExist /\ TiedExist /\ AllAccounted /\ OnCourse
    BY DEF NestedInv
  <1>1. CASE Step
    <2>1. TiedExist'
      BY <1>0, <1>1, StepExecutes, TiedKept
    <2> QED
      BY <1>0, <1>1, <2>1, StepPlaces, StepSure, StepAccounts, StepOnCourse DEF NestedInv
  <1>2. CASE ExitStep
    <2>1. TiedExist'
      BY <1>0, <1>2, ExitExecutes, TiedKept
    <2> QED
      BY <1>0, <1>2, <2>1, ExitPlaces, ExitSure, ExitAccounts, ExitOnCourse DEF NestedInv
  <1>3. CASE Guard \/ Leave \/ Finish \/ Popped \/ Done
    <2>1. TiedExist'
      <3>1. UNCHANGED <<job, maker, failed>> /\ held' = held
        BY <1>3 DEF Guard, Leave, Finish, Popped, Done, held
      <3> QED
        BY <1>0, <3>1 DEF TiedExist
    <2>2. SureExist'
      BY <1>0, <1>3, QuietSure
    <2>3. Places'
      <3>1. CASE Guard \/ Leave
        BY <1>0, <3>1, GuardPlaces, LeavePlaces
      <3>2. CASE Popped
        BY <1>0, <3>2, PoppedPlaces DEF Popped
      <3>3. CASE Finish \/ Done
        BY <1>0, <3>3 DEF Finish, Done, Places
      <3> QED
        BY <1>3, <3>1, <3>2, <3>3
    <2>4. AllAccounted'
      BY <1>0, <1>3, GuardAccounts, LeaveAccounts, FinishAccounts, PoppedAccounts, DoneAccounts
    <2>5. OnCourse'
      <3>1. CASE Done
        <4>1. held' = held
          BY <3>1 DEF Done, held
        <4> QED
          BY <1>0, <3>1, <4>1 DEF Done, OnCourse
      <3> QED
        BY <1>0, <1>3, <3>1, GuardLeaveOnCourse, FinishOnCourse, PoppedOnCourse
    <2> QED
      BY <2>1, <2>2, <2>3, <2>4, <2>5 DEF NestedInv
  <1>4. CASE UNCHANGED vars
    <2>1. held' = held
      BY <1>4 DEF vars, held
    <2>2. Places' /\ SureExist' /\ TiedExist'
      BY <1>0, <1>4, <2>1 DEF vars, Places, SureExist, TiedExist
    <2>3. AllAccounted'
      BY <1>0, <1>4, QuietAccounts DEF vars, Covered, Promised
    <2>4. OnCourse'
      BY <1>0, <1>4, <2>1 DEF vars, OnCourse
    <2> QED
      BY <2>2, <2>3, <2>4 DEF NestedInv
  <1> QED
    BY <1>1, <1>2, <1>3, <1>4 DEF Next, Ended

-----------------------------------------------------------------------------
(* A job that keeps to the discipline of TaskDiscipline is in the          *)
(* inductive invariant throughout, whatever fails.                         *)
THEOREM NestedInvariance == Spec /\ JobsAreTidy => []NestedInv
  BY NestedInitial, NestedStep, PTL DEF Spec

(* A container is what a scope has to remove, so it is left over only when *)
(* its scope failed.                                                       *)
LEMMA EndIsExcused == NestedInv => ScopeCleansUp
  <1> SUFFICES ASSUME NestedInv, mode = "done", NEW r \in Temporary PROVE Excused(r)
    BY DEF ScopeCleansUp
  <1>1. Places /\ AllAccounted /\ Containers
    BY TidyJob DEF NestedInv, Places
  <1>2. open = <<>>
    BY <1>1 DEF Places
  <1>3. \A q \in held : maker[q] \in failed \/ q[1] \in LastingKinds \/ Contained(q)
    <2>1. \A q : ~Covered(q)
      BY <1>2, SMT DEF Covered
    <2>2. \A q : ~Promised(q)
      BY DEF Promised
    <2> QED
      BY <1>1, <2>1, <2>2 DEF AllAccounted, Accounted
  <1>4. ASSUME Contained(r) PROVE Excused(r)
    <2>1. PICK q \in held : Supports("lie", r, q)
      BY <1>4 DEF Contained
    <2>2. <<r[1], q[1]>> \in Within
      BY <2>1, Resting DEF Supports
    <2>3. ~Free(<<q[1], "all">>)
      BY <1>1, <2>2 DEF Containers
    <2>4. q[1] \notin LastingKinds /\ ~Contained(q)
      BY <2>3, Resting DEF Free, Stored, Contained, Supports
    <2> QED
      BY <1>3, <2>1, <2>4 DEF Excused
  <1> QED
    BY <1>3, <1>4 DEF Temporary, Excused

(* Whatever commands of a tidy job fail, and however many: what is left    *)
(* over at its end was made by a scope one of whose own commands failed.   *)
THEOREM TidyScopesCleanUp == Spec /\ JobsAreTidy => []ScopeCleansUp
  BY NestedInvariance, EndIsExcused, PTL

(* When none fails, the job raises nothing and leaves nothing behind.      *)
THEOREM TidyFaultFreeIsClean == Spec /\ JobsAreTidy => []FaultFreeIsClean
  <1>1. NestedInv => FaultFreeIsClean
    <2> SUFFICES ASSUME NestedInv, mode = "done", faults = 0 PROVE ~exc /\ Temporary = {}
      BY DEF FaultFreeIsClean
    <2>1. failed = {} /\ exc = FALSE
      BY DEF NestedInv, OnCourse
    <2>2. \A r \in Temporary : Excused(r)
      BY EndIsExcused DEF ScopeCleansUp
    <2> QED
      BY <2>1, <2>2 DEF Excused
  <1> QED
    BY <1>1, NestedInvariance, PTL

(* A command that is harmless to r leaves r with what it uses.             *)
LEMMA HarmlessKeeps ==
    ASSUME Places, NEW c \in Commands[job], Executes(c), NEW r \in held, r \in held',
           NEW q \in held, q \notin held', Supports("use", r, q), Harmless(c, r)
    PROVE  FALSE
  <1>1. \A y \in c.makes, x \in c.drops : ~Supports("lie", y, x)
    BY TidyJob DEF Places, CleanUpPlanned
  <1>2. PICK d \in Removable(c, held) :
           /\ q = d \/ Supports("lie", q, d)
           /\ \A y \in held : Supports("lie", y, d) => y \in c.makes \/ y \notin held'
           /\ \A y \in held : c.strict /\ q = d /\ Supports("use", y, d) => y \notin held'
    BY CommandEffect
  <1>3. d \in c.drops
    BY DEF Removable
  <1>4. ~Supports("lie", r, d)
    BY <1>1, <1>2, <1>3
  <1>5. CASE q = d
    BY <1>2, <1>3, <1>4, <1>5 DEF Harmless
  <1>6. CASE Supports("lie", q, d)
    <2>1. <<r[1], q[1]>> \in Uses /\ <<q[1], d[1]>> \in Within /\ d[2] \in {r[2], "all"}
      BY <1>6, Resting DEF Supports
    <2>2. RestsOn(r, d)
      BY <2>1 DEF RestsOn
    <2> QED
      BY <1>3, <1>4, <2>2 DEF Harmless
  <1> QED
    BY <1>2, <1>5, <1>6

LEMMA Awaited ==
    ASSUME NEW st, NEW i \in 1 .. Len(st), NEW k \in 1 .. Len(Text[job][st[i]].fin),
           NEW r \in Text[job][st[i]].fin[k].drops
    PROVE  r \in Awaits(job, st)
  <1>1. r \in UNION {Text[job][st[i]].fin[a].drops : a \in 1 .. Len(Text[job][st[i]].fin)}
    OBVIOUS
  <1> QED
    BY <1>1, SMT DEF Awaits

LEMMA FinallyHarmless ==
    ASSUME UsersGoFirst(job), NEW f \in 1 .. Len(Text[job]), Text[job][f].op = "try",
           NEW k \in 1 .. Len(Text[job][f].fin)
    PROVE  /\ \A r \in Awaits(job, Stacks[job][f]) : Harmless(Text[job][f].fin[k], r)
           /\ \A i \in k + 1 .. Len(Text[job][f].fin) : \A r \in Text[job][f].fin[i].drops :
                 Covers(job, f, i, r, Text[job][f].fin[i].scope) => Harmless(Text[job][f].fin[k], r)
  BY Zenon DEF UsersGoFirst

LEMMA StepHarmless ==
    ASSUME Places, TiedExist, AllAccounted, Step,
           NEW r \in held, r \in held', maker[r] \notin failed'
    PROVE  Harmless(Text[job][pc], r)
  <1> DEFINE c == Text[job][pc]
  <1>1. Executes(c) /\ c \in Commands[job] /\ failed \subseteq failed'
    BY StepExecutes, CommandEffect
  <1>2. /\ pc \in 1 .. Len(Text[job]) /\ Len(Text[job]) \in Nat /\ job \in Jobs
        /\ open = Stacks[job][pc] /\ c.op = "cmd" /\ UsersGoFirst(job)
    BY RunPlace, TidyJob DEF Step, Running, Places
  <1>3. r \in Made[job] /\ Accounted(r)
    BY DEF AllAccounted
  <1>4. CASE r[1] \in LastingKinds \/ Contained(r)
    <2>1. Free(r)
      BY <1>4, Resting DEF Free, Stored, Contained, Supports
    <2> QED
      BY <1>1, <1>2, <1>3, <2>1 DEF UsersGoFirst
  <1>5. CASE Covered(r)
    <2>1. PICK i \in 1 .. Len(open) : \E k \in 1 .. Len(Text[job][open[i]].fin) :
             r \in Text[job][open[i]].fin[k].drops
      BY <1>5 DEF Covered, Covers, Clears
    <2>2. r \in Awaits(job, open)
      BY <2>1, Awaited
    <2> QED
      BY <1>2, <2>2 DEF UsersGoFirst
  <1>6. CASE Promised(r)
    <2>1. /\ Pending(job, pc, r, maker[r])
          /\ \E m \in 1 .. pc - 1 : /\ Text[job][m].op = "cmd" /\ Text[job][m].scope = maker[r]
                                    /\ r \in Text[job][m].makes
      BY <1>6 DEF Promised
    <2>2. Pending(job, pc + 1, r, maker[r])
      BY <1>1, <1>2, <2>1, PendingNext, ClearedIsGone
    <2>3. c.drops # {} => Harmless(c, r)
      BY <1>2, <2>1, <2>2 DEF UsersGoFirst
    <2> QED
      BY <2>3 DEF Harmless
  <1> QED
    BY <1>1, <1>3, <1>4, <1>5, <1>6 DEF Accounted

LEMMA ExitHarmless ==
    ASSUME Places, TiedExist, AllAccounted, ExitStep,
           NEW r \in held, r \in held', maker[r] \notin failed'
    PROVE  Harmless(Text[job][Head(open)].fin[at], r)
  <1> DEFINE f == Head(open)
             c == Text[job][f].fin[at]
  <1>1. /\ Executes(c) /\ c \in Commands[job] /\ at \in 1 .. Len(Text[job][f].fin)
        /\ open # <<>> /\ mode \in {"close", "unwind"}
    BY ExitExecutes
  <1>2. failed \subseteq failed'
    BY <1>1, CommandEffect
  <1>3. /\ f \in 1 .. Len(Text[job]) /\ Text[job][f].op = "try" /\ open[1] = f
        /\ Len(open) \in Nat \ {0} /\ Len(Tail(open)) = Len(open) - 1
        /\ \A i \in 1 .. Len(open) - 1 : Tail(open)[i] = open[i + 1]
        /\ Tail(open) = Stacks[job][f] /\ Len(Text[job][f].fin) \in Nat
        /\ job \in Jobs /\ UsersGoFirst(job)
    BY <1>1, OpenPlace, TidyJob DEF Places
  <1>4. r \in Made[job] /\ Accounted(r)
    BY DEF AllAccounted
  <1>5. CASE r[1] \in LastingKinds \/ Contained(r)
    <2>1. Free(r)
      BY <1>5, Resting DEF Free, Stored, Contained, Supports
    <2> QED
      BY <1>1, <1>3, <1>4, <2>1 DEF UsersGoFirst
  <1>6. CASE Covered(r)
    <2>1. PICK i \in 1 .. Len(open) : \E k \in 1 .. Len(Text[job][open[i]].fin) :
             (i = 1 => k >= at) /\ Covers(job, open[i], k, r, maker[r])
      BY <1>6 DEF Covered
    <2>2. PICK k \in 1 .. Len(Text[job][open[i]].fin) :
             (i = 1 => k >= at) /\ Covers(job, open[i], k, r, maker[r])
      BY <2>1
    <2>3. Clears(job, Text[job][open[i]].fin[k], r, maker[r])
      BY <2>2 DEF Covers
    <2>4. r \in Text[job][open[i]].fin[k].drops /\ Text[job][open[i]].fin[k].scope = maker[r]
      BY <2>3 DEF Clears
    <2>5. CASE i = 1
      <3>1. k # at
        BY <1>1, <1>3, <2>3, <2>5, ClearedIsGone
      <3>2. k \in at + 1 .. Len(Text[job][f].fin)
        BY <1>1, <1>3, <2>2, <2>5, <3>1, SMT
      <3>3. /\ r \in Text[job][f].fin[k].drops
            /\ Covers(job, f, k, r, Text[job][f].fin[k].scope)
        BY <1>3, <2>2, <2>4, <2>5
      <3> QED
        BY <1>1, <1>3, <3>2, <3>3, FinallyHarmless
    <2>6. CASE i # 1
      <3>1. i - 1 \in 1 .. Len(Tail(open)) /\ Tail(open)[i - 1] = open[i]
        BY <1>3, <2>6, SMT
      <3>2. r \in Awaits(job, Tail(open))
        BY <2>4, <3>1, Awaited
      <3>3. r \in Awaits(job, Stacks[job][f])
        BY <1>3, <3>2
      <3> QED
        BY <1>1, <1>3, <3>3, FinallyHarmless
    <2> QED
      BY <2>5, <2>6
  <1>7. CASE Promised(r)
    <2>1. /\ mode = "close" /\ Pending(job, pc, r, maker[r])
          /\ \E m \in 1 .. pc - 1 : /\ Text[job][m].op = "cmd" /\ Text[job][m].scope = maker[r]
                                    /\ r \in Text[job][m].makes
      BY <1>1, <1>7 DEF Promised
    <2>2. /\ pc - 1 \in 1 .. Len(Text[job]) /\ (pc - 1) + 1 = pc
          /\ Text[job][pc - 1].op = "close" /\ open = Stacks[job][pc - 1]
      BY <2>1, ClosePlace
    <2>3. PICK m \in 1 .. (pc - 1) - 1 : /\ Text[job][m].op = "cmd" /\ Text[job][m].scope = maker[r]
                                         /\ r \in Text[job][m].makes
      <3>1. PICK m \in 1 .. pc - 1 : /\ Text[job][m].op = "cmd" /\ Text[job][m].scope = maker[r]
                                     /\ r \in Text[job][m].makes
        BY <2>1
      <3>2. m # pc - 1
        BY <2>2, <3>1
      <3>3. m \in 1 .. (pc - 1) - 1
        BY <2>2, <3>2, SMT
      <3> QED
        BY <3>1, <3>3
    <2> DEFINE n == pc - 1
    <2>4. n \in 1 .. Len(Text[job]) /\ Text[job][n].op = "close" /\ open = Stacks[job][n]
      BY <2>2
    <2>5. Pending(job, n + 1, r, Text[job][m].scope)
      BY <2>1, <2>2, <2>3
    <2>6. m \in 1 .. n - 1
      OBVIOUS
    <2> HIDE DEF n
    <2> QED
      BY <1>1, <1>3, <2>3, <2>4, <2>5, <2>6 DEF UsersGoFirst
  <1> QED
    BY <1>2, <1>4, <1>5, <1>6, <1>7 DEF Accounted

(* No command of a tidy job takes away what something else still uses,     *)
(* unless the user is left over from a scope that failed.                  *)
THEOREM TidyDependentsFirst == Spec /\ JobsAreTidy => DependentsFirst
  <1>1. ASSUME NestedInv, [Next]_vars, NEW r \in held \cap held', NEW q \in held \ held',
               Supports("use", r, q)
        PROVE  maker[r] \in failed'
    <2>0. Places /\ TiedExist /\ AllAccounted
      BY <1>1 DEF NestedInv
    <2>1. CASE Step
      BY <1>1, <2>0, <2>1, StepExecutes, StepHarmless, HarmlessKeeps
    <2>2. CASE ExitStep
      BY <1>1, <2>0, <2>2, ExitExecutes, ExitHarmless, HarmlessKeeps
    <2>3. CASE ~Step /\ ~ExitStep
      <3>1. held' = held
        BY <1>1, <2>3 DEF Next, Guard, Leave, Finish, Popped, Done, Ended, vars, held
      <3> QED
        BY <1>1, <3>1
    <2> QED
      BY <2>1, <2>2, <2>3
  <1>2. NestedInv /\ [Next]_vars =>
           [\A r \in held \cap held', q \in held \ held' :
              Supports("use", r, q) =>
                 \/ maker[r] \in failed'
                 \/ \E p \in held' : Supports("use", r, p)  /\ p[1] = q[1]]_vars
    BY <1>1
  <1> QED
    BY <1>2, NestedInvariance, PTL DEF Spec, DependentsFirst
=============================================================================

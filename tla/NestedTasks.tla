---------------------------- MODULE NestedTasks ----------------------------
(***************************************************************************)
(* How a job enters and leaves its tasks.                                  *)
(*                                                                         *)
(* Almost every task of src/tasks/ is a context manager: it runs commands  *)
(* on the hosts of the cluster, yields, and undoes them in a `finally`.    *)
(* Tasks are stacked with contextutil.nested and, by the runner, with each *)
(* other.  This module is the machine that executes such a stack; the      *)
(* program modules translate the tasks into its instructions.              *)
(*                                                                         *)
(* A job is a sequence of three kinds of instruction:                      *)
(*   cmd    a command, run on one host or on many at once;                 *)
(*   try    the start of the body of a `try` whose `finally` is fin;       *)
(*   close  the end of the innermost such body, its `finally` runs now.    *)
(* At the end of the job, and when a command raises, the machine runs the  *)
(* `finally`s that are still open, innermost first.  What a manager does   *)
(* before its `try` is not guarded: when it raises there, its own          *)
(* `finally` does not run.                                                 *)
(*                                                                         *)
(* A resource is <<kind, place>>: a directory, a mount, a daemon, a user,  *)
(* an image, at a client or, for place "all", of the whole cluster.        *)
(***************************************************************************)
EXTENDS TaskCommands

CONSTANTS Jobs,         \* names of the jobs
          Code,         \* Code[j] is the instructions of job j
          Uses,         \* <<k, l>>: a k can neither be made nor live without an l
          Within,       \* <<k, l>>: a k is stored in an l and vanishes with it
          LastingKinds, \* kinds the tasks leave behind on purpose
          MaxFaults     \* commands that may fail without a cause in the model

VARIABLES job,     \* the job being run
          pc,      \* its next instruction
          open,    \* the `finally`s still to run, innermost first
          at,      \* next command of the `finally` being run
          mode,    \* "run", "close", "unwind" or "done"
          maker,   \* resource -> scope that made it, for those that exist
          failed,  \* scopes one of whose own commands failed
          exc,     \* an exception was raised
          faults   \* unexplained failures so far

vars == <<job, pc, open, at, mode, maker, failed, exc, faults>>

held == DOMAIN maker

(* The instructions of each job, and what each kind rests on.              *)
Text == [j \in Jobs |-> Code[j]]
Rest == [use |-> Uses, lie |-> Within, all |-> Uses \cup Within]

----------------------------------------------------------------------------
(* What a command does in a state where the resources H exist.             *)

Supports(how, r, q) == /\ <<r[1], q[1]>> \in Rest[how]
                       /\ q[2] \in {r[2], "all"}

InUse(q, H) == \E r \in H : Supports("use", r, q)

Grounded(r, H) ==
    \A pair \in Rest["all"] :
       pair[1] = r[1] => {<<pair[2], r[2]>>, <<pair[2], "all">>} \cap H # {}

Skipped(c, H) == ~(c.when \subseteq H) \/ c.unless \cap H # {}

(* What c is able to make and to remove.                                   *)
Makeable(c, H) == {r \in c.makes : /\ Grounded(r, H \cup c.makes)
                                   /\ ~(c.strict /\ r \in H)}
Removable(c, H) == {q \in c.drops : ~(c.strict /\ (q \notin H \/ InUse(q, H \ c.drops)))}

Refused(c, H) == \/ ~(c.needs \subseteq H)
                 \/ Makeable(c, H) # c.makes
                 \/ Removable(c, H) # c.drops

(* The resources after M was made and D removed, with all that D contains. *)
After(H, M, D) ==
    (H \ (D \cup {r \in H : \E q \in D : Supports("lie", r, q)})) \cup M

Books(H, scope) == [r \in H |-> IF r \in held THEN maker[r] ELSE scope]

Succeeds(c) == /\ ~Skipped(c, held)
               /\ ~Refused(c, held)
               /\ maker' = Books(After(held, c.makes, c.drops), c.scope)
               /\ UNCHANGED <<failed, exc, faults>>

Passes(c) == /\ Skipped(c, held)
             /\ UNCHANGED <<maker, failed, exc, faults>>

(* A command that fails has done a part of its work, in an order that what *)
(* it makes and, if it is strict, what it removes allows.  One that lacks  *)
(* what it needs has done nothing.                                         *)
Fails(c) ==
    /\ ~Skipped(c, held)
    /\ IF Refused(c, held)
       THEN faults' = faults
       ELSE faults < MaxFaults /\ faults' = faults + 1
    /\ IF c.needs \subseteq held
       THEN \E M \in SUBSET Makeable(c, held), D \in SUBSET Removable(c, held) :
               /\ \A r \in M : Grounded(r, held \cup M)
               /\ c.strict => \A q \in D : ~InUse(q, held \ D)
               /\ maker' = Books(After(held, M, D), c.scope)
       ELSE UNCHANGED maker
    /\ failed' = failed \cup {c.scope}
    /\ exc' = (exc \/ ~c.quiet)

----------------------------------------------------------------------------
(* The machine.                                                            *)

Init == /\ job \in Jobs
        /\ pc = 1
        /\ open = <<>>
        /\ at = 1
        /\ mode = "run"
        /\ maker = [r \in {} |-> ""]
        /\ failed = {}
        /\ exc = FALSE
        /\ faults = 0

Finally == Text[job][Head(open)].fin

Running(op) == mode = "run" /\ pc <= Len(Text[job]) /\ Text[job][pc].op = op

(* The next command of the job.                                            *)
Step == /\ Running("cmd")
        /\ LET c == Text[job][pc] IN
           \/ /\ \/ Succeeds(c)
                 \/ Passes(c)
                 \/ Fails(c) /\ c.quiet
              /\ pc' = pc + 1
              /\ UNCHANGED <<job, open, at, mode>>
           \/ /\ Fails(c)
              /\ ~c.quiet
              /\ mode' = "unwind"
              /\ UNCHANGED <<job, pc, open, at>>

Guard == /\ Running("try")
         /\ open' = <<pc>> \o open
         /\ pc' = pc + 1
         /\ UNCHANGED <<job, at, mode, maker, failed, exc, faults>>

Leave == /\ Running("close")
         /\ mode' = "close"
         /\ pc' = pc + 1
         /\ UNCHANGED <<job, open, at, maker, failed, exc, faults>>

(* The job's body is over: the tasks are left, the last one first.         *)
Finish == /\ mode = "run"
          /\ pc > Len(Text[job])
          /\ mode' = "unwind"
          /\ UNCHANGED <<job, pc, open, at, maker, failed, exc, faults>>

(* The next command of the innermost `finally`.  If it raises, the rest of *)
(* this `finally` is lost and the next one out runs.                       *)
ExitStep ==
    /\ mode \in {"close", "unwind"}
    /\ open # <<>>
    /\ at <= Len(Finally)
    /\ LET c == Finally[at] IN
       \/ /\ \/ Succeeds(c)
             \/ Passes(c)
             \/ Fails(c) /\ c.quiet
          /\ at' = at + 1
          /\ UNCHANGED <<job, pc, open, mode>>
       \/ /\ Fails(c)
          /\ ~c.quiet
          /\ mode' = "unwind"
          /\ open' = Tail(open)
          /\ at' = 1
          /\ UNCHANGED <<job, pc>>

Popped == /\ mode \in {"close", "unwind"}
          /\ open # <<>>
          /\ at > Len(Finally)
          /\ open' = Tail(open)
          /\ at' = 1
          /\ mode' = IF mode = "close" THEN "run" ELSE "unwind"
          /\ UNCHANGED <<job, pc, maker, failed, exc, faults>>

Done == /\ mode = "unwind"
        /\ open = <<>>
        /\ mode' = "done"
        /\ UNCHANGED <<job, pc, open, at, maker, failed, exc, faults>>

Ended == mode = "done" /\ UNCHANGED vars

Next == Step \/ Guard \/ Leave \/ Finish \/ ExitStep \/ Popped \/ Done \/ Ended

Spec == Init /\ [][Next]_vars

----------------------------------------------------------------------------
(* Properties.                                                             *)

Temporary == {r \in held : r[1] \notin LastingKinds}

(* A job none of whose commands fails for a reason of its own raises no    *)
(* exception in any of its tasks, and leaves nothing behind but what the   *)
(* tasks leave on purpose: every command finds what it needs, the          *)
(* `finally`s fit together, and each removes what its task made.           *)
FaultFreeIsClean == mode = "done" /\ faults = 0 => ~exc /\ Temporary = {}

(* r was made by a scope that failed, or is stored in what such a scope    *)
(* made.                                                                   *)
Excused(r) == \/ maker[r] \in failed
              \/ \E q \in held : Supports("lie", r, q) /\ maker[q] \in failed

(* A failure anywhere costs the cleanup of the failing scope only: when    *)
(* the job has ended, all that is left over was made by a scope one of     *)
(* whose own commands failed.  Every other `finally` has removed what its  *)
(* task made, although the job was cut short.                              *)
ScopeCleansUp == mode = "done" => \A r \in Temporary : Excused(r)

(* Nothing is taken away under something that still uses it (a daemon's    *)
(* configuration, the image of a mapped device, the cluster of a mounted   *)
(* client), unless the user is the leftover of a scope that failed.        *)
DependentsFirst ==
    [][\A r \in held \cap held', q \in held \ held' :
          Supports("use", r, q) =>
             \/ maker[r] \in failed'
             \/ \E p \in held' : Supports("use", r, p)  /\ p[1] = q[1]]_vars

=============================================================================

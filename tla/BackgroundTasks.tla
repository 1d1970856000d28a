-------------------------- MODULE BackgroundTasks --------------------------
(***************************************************************************)
(* A job whose outer tasks work in greenlets of their own while its body   *)
(* runs: mon_clock_skew_check, inside it thrash_pool_snaps, inside it      *)
(* scrub, and as the body one of the scrub tests, or anything that may     *)
(* raise.  When the body is over the tasks stop and join their greenlets,  *)
(* the innermost first, and an exception of one passes through the others. *)
(***************************************************************************)
EXTENDS PgScrub, PoolSnaps, ClockSkew

CONSTANT Jobs  \* records: tasks (a subset of TaskNames), scripts of the body

TaskNames == {"skew", "snaps", "scrub"}

ASSUME JobsAssumption ==
    \A j \in Jobs : j.tasks \subseteq TaskNames /\ j.scripts \subseteq ScrubTests \cup {<<>>}

VARIABLES tasks,   \* the tasks that are still entered
          main,    \* main greenlet: "enter", "body", "exit", "join" or "over"
          exc,     \* an exception is on its way through the tasks
          passed   \* history: it went through thrash_pool_snaps

mainVars == <<tasks, main, exc, passed>>
vars == <<scrubVars, snapVars, skewVars, mainVars>>

Init == \E j \in Jobs :
           /\ ScrubInit(j.scripts)
           /\ SnapInit("snaps" \in j.tasks)
           /\ SkewInit("skew" \in j.tasks)
           /\ tasks = j.tasks
           /\ main = IF "scrub" \in j.tasks THEN "enter" ELSE "body"
           /\ exc = FALSE /\ passed = FALSE

----------------------------------------------------------------------------
(* The scrub task waits for the OSDs and its Scrubber for clean pgs, both  *)
(* without a deadline, while the greenlets of the outer tasks run;         *)
EnterScrub == /\ main = "enter"
              /\ healthy
              /\ scrubber' = "top"
              /\ main' = "body"
              /\ UNCHANGED <<tasks, exc, passed, script, testVars, moved, pgVars, healthy,
                             scrubStop, snapVars, skewVars>>

(* a query that fails there ends the job before the task is entered.       *)
EnterRaises == /\ main = "enter"
               /\ exc' = TRUE
               /\ tasks' = tasks \ {"scrub"}
               /\ main' = "exit"
               /\ UNCHANGED <<passed, scrubVars, snapVars, skewVars>>

(* The body ends, perhaps by an assertion or the deadline of do_pg_scrub   *)
BodyEnds == /\ main = "body"
            /\ step > Len(script) \/ verdict # "none"
            /\ exc' = (verdict # "none")
            /\ main' = "exit"
            /\ UNCHANGED <<tasks, passed, scrubVars, snapVars, skewVars>>

(* ... or one of its commands fails.                                       *)
BodyRaises == /\ main = "body"
              /\ exc' = TRUE
              /\ main' = "exit"
              /\ UNCHANGED <<tasks, passed, scrubVars, snapVars, skewVars>>

Innermost(t) == /\ t \in tasks
                /\ t = "snaps" => "scrub" \notin tasks
                /\ t = "skew" => tasks = {"skew"}

(* finally: scrub_proc.do_join()                                           *)
LeaveScrub == /\ main = "exit"
              /\ Innermost("scrub")
              /\ scrubStop' = TRUE
              /\ main' = "join"
              /\ UNCHANGED <<tasks, exc, passed, script, testVars, moved, pgVars, healthy,
                             scrubber, snapVars, skewVars>>

JoinScrub == /\ main = "join"
             /\ Innermost("scrub")
             /\ scrubber \in {"ended", "raised"}
             /\ exc' = (exc \/ scrubber = "raised")
             /\ tasks' = tasks \ {"scrub"}
             /\ main' = "exit"
             /\ UNCHANGED <<passed, scrubVars, snapVars, skewVars>>

\* Mutant: the greenlet is neither stopped nor joined.
LeaveSnapsNoStop ==
    /\ main = "exit"
    /\ Innermost("snaps")
    /\ tasks' = tasks \ {"snaps"}
    /\ passed' = exc
    /\ UNCHANGED <<exc, main, scrubVars, snapVars, skewVars>>

(* There is no `finally`: after an exception nobody stops the greenlet.    *)
LeaveSnaps == /\ main = "exit"
              /\ Innermost("snaps")
              /\ IF exc
                 THEN /\ tasks' = tasks \ {"snaps"}
                      /\ passed' = TRUE
                      /\ UNCHANGED <<snapStop, main>>
                 ELSE /\ snapStop' = TRUE
                      /\ main' = "join"
                      /\ UNCHANGED <<tasks, passed>>
              /\ UNCHANGED <<exc, scrubVars, snaps, taken, index, op, snap, done, snapper,
                             skewVars>>

(* join() does not raise what ended the greenlet.                          *)
JoinSnaps == /\ main = "join"
             /\ Innermost("snaps")
             /\ snapper \in {"ended", "raised"}
             /\ tasks' = tasks \ {"snaps"}
             /\ main' = "exit"
             /\ UNCHANGED <<exc, passed, scrubVars, snapVars, skewVars>>

(* finally: skew_check.finish(); skew_check_thread.get()                   *)
LeaveSkew == /\ main = "exit"
             /\ Innermost("skew")
             /\ skewStop' = TRUE
             /\ main' = "join"
             /\ UNCHANGED <<tasks, exc, passed, scrubVars, snapVars, skews, ranOnce, waited,
                            checker>>

\* Mutant: join() in place of get().
JoinSkewQuietly ==
    /\ main = "join"
    /\ Innermost("skew")
    /\ checker \in {"ended", "raised"}
    /\ tasks' = tasks \ {"skew"}
    /\ main' = "exit"
    /\ UNCHANGED <<exc, passed, scrubVars, snapVars, skewVars>>

JoinSkew == /\ main = "join"
            /\ Innermost("skew")
            /\ checker \in {"ended", "raised"}
            /\ exc' = (exc \/ checker = "raised")
            /\ tasks' = tasks \ {"skew"}
            /\ main' = "exit"
            /\ UNCHANGED <<passed, scrubVars, snapVars, skewVars>>

JobOver == /\ main = "exit"
           /\ tasks = {}
           /\ main' = "over"
           /\ UNCHANGED <<tasks, exc, passed, scrubVars, snapVars, skewVars>>

MainStep == \/ EnterScrub \/ BodyEnds \/ LeaveScrub \/ JoinScrub \/ LeaveSnaps \/ JoinSnaps
            \/ LeaveSkew \/ JoinSkew \/ JobOver

----------------------------------------------------------------------------
Others == <<snapVars, skewVars, mainVars>>

Next == \/ MainStep \/ EnterRaises \/ BodyRaises
        \/ main = "body" /\ TestStep /\ UNCHANGED Others
        \/ main # "over" /\ (PgStep \/ ScrubberStep) /\ UNCHANGED Others
        \/ main # "over" /\ SnapStep /\ UNCHANGED <<scrubVars, skewVars, mainVars>>
        \/ main # "over" /\ SkewStep /\ UNCHANGED <<scrubVars, snapVars, mainVars>>

(* gevent switches at every sleep and every remote command, so that each   *)
(* greenlet that can go on does.  Nothing is assumed of the cluster.       *)
Spec == /\ Init
        /\ [][Next]_vars
        /\ WF_vars(MainStep)
        /\ WF_vars(main = "body" /\ TestStep /\ UNCHANGED Others)
        /\ WF_vars(main # "over" /\ ScrubberStep /\ UNCHANGED Others)
        /\ WF_vars(main # "over" /\ SnapStep /\ UNCHANGED <<scrubVars, skewVars, mainVars>>)
        /\ WF_vars(main # "over" /\ SkewStep /\ UNCHANGED <<scrubVars, snapVars, mainVars>>)

----------------------------------------------------------------------------
(* Properties.                                                             *)

Over(g) == g \in {"none", "ended", "raised"}

(* When the job is over its greenlets are.  The only one that may go on is *)
(* that of thrash_pool_snaps, and only if an exception, of the body or of  *)
(* the scrubber that is joined before, passed through its task.            *)
GreenletsEnd == main = "over" => /\ Over(scrubber)
                                 /\ Over(checker)
                                 /\ Over(snapper) \/ passed

(* A job that ends without an exception has had none in the scrubber or in *)
(* the skew check, and saw skews if and only if they were expected.        *)
FailuresSurface ==
    main = "over" /\ ~exc => /\ scrubber # "raised"
                             /\ checker = "ended" => NeverFail \/ skews = ExpectSkew
                             /\ checker # "raised"

(* The job ends if the cluster is healthy from some time on, whatever the  *)
(* pg, the monitors and the pools' commands do: do_pg_scrub has its        *)
(* deadline, and the skew check its own.  The waits at the start of the    *)
(* scrub task and of the tests have none.                                  *)
JobEnds == <>[]healthy => <>(main = "over")

=============================================================================

------------------------------ MODULE PgScrub ------------------------------
(***************************************************************************)
(* Scrubs of one placement group: ZbkcManager.do_pg_scrub, the tests that  *)
(* are scripts of it (repair_test.py, scrub_test.py), and the Scrubber     *)
(* greenlet of scrub.py, which asks for scrubs on its own.                 *)
(*                                                                         *)
(* do_pg_scrub takes a change of last_scrub_stamp for the end of the scrub *)
(* it asked for.  Only whether the stamp has changed since it was first    *)
(* read matters, so that `moved` stands for it.  The flag "inconsistent"   *)
(* may outlive the repair for a while ("Let repair clear inconsistent      *)
(* flag").                                                                 *)
(***************************************************************************)
EXTENDS Integers, Sequences

CONSTANTS Resend,      \* RESEND_TIMEOUT, in rounds of SLEEP_TIME
          ScrubberCmd  \* "scrub" or "deep-scrub", by the config of scrub.py

ASSUME ScrubAssumption == /\ Resend \in Nat \ {0}
                          /\ ScrubberCmd \in {"scrub", "deep-scrub"}

VARIABLES script,    \* what the test does
          step,      \* its next step
          timer,     \* of the do_pg_scrub under way, in rounds; -1 if there is none
          moved,     \* last_scrub_stamp differs from `init`
          verdict,   \* "none", "failed" (an assertion of the test), "timeout"
          damage,    \* the pg: what is wrong with its objects
          flagged,   \* the pg: "inconsistent" in its state
          clearing,  \* the pg: a repair is over, and the flag is about to go
          running,   \* the pg: the scrub under way and the damage it has read
          pending,   \* the pg: the scrub that is asked for
          healthy,   \* the cluster: OSDs up, pgs clean, data written
          scrubber,  \* greenlet: "none", "top", "sleep", "ended" or "raised"
          scrubStop  \* Scrubber.stopping

testVars == <<step, timer, verdict>>
pgVars == <<damage, flagged, clearing, running, pending>>
scrubberVars == <<scrubber, scrubStop>>
scrubVars == <<script, testVars, moved, pgVars, healthy, scrubberVars>>

Kinds == {"scrub", "deep-scrub", "repair"}
Idle == [kind |-> "none", saw |-> {}]

----------------------------------------------------------------------------
(* The tests.  "data" stands for damage that only a deep scrub finds,      *)
(* "size" for damage that both find.  "wait" is wait_for_all_up,           *)
(* wait_for_clean and, in scrub_test.py, wait_for_victim_pg: loops without *)
(* a deadline.                                                             *)

repair_test_1(corrupter, scrub_type) ==
    <<"wait", corrupter, scrub_type, "inconsistent", "repair", scrub_type, "consistent">>

repair_test_2 ==
    <<"wait", "data", "deep-scrub", "inconsistent", "scrub", "inconsistent", "data", "size",
      "deep-scrub", "inconsistent", "repair", "sleep", "consistent", "deep-scrub",
      "consistent">>

(* deep_scrub and repair of scrub_test.py, after its waits and its first   *)
(* deep scrub.                                                             *)
test_repair_corrupted_obj ==
    <<"wait", "deep-scrub", "data", "deep-scrub", "inconsistent", "repair", "consistent">>

(* What the two tasks run: mdataerr and trunc with "scrub", dataerr with   *)
(* "deep-scrub".                                                           *)
ScrubTests == {repair_test_1("size", "scrub"), repair_test_1("data", "deep-scrub"),
               repair_test_2, test_repair_corrupted_obj}

----------------------------------------------------------------------------
(* The placement group.                                                    *)

(* A request is remembered beside the scrub that runs; of two requests the *)
(* one that does more counts.                                              *)
Asked(kind) ==
    IF \/ pending = "repair"
       \/ pending = "deep-scrub" /\ kind = "scrub"
    THEN pending ELSE kind

ScrubStarts == /\ running = Idle
               /\ pending # "none"
               /\ running' = [kind |-> pending, saw |-> damage]
               /\ pending' = "none"
               /\ UNCHANGED <<script, testVars, moved, damage, flagged, clearing, healthy,
                              scrubberVars>>

(* A plain scrub does not clear what a deep one has found.  A repair mends *)
(* what it has read; the flag goes later.                                  *)
ScrubEnds ==
    /\ running # Idle
    /\ moved' = TRUE
    /\ flagged' = CASE running.kind = "scrub" -> flagged \/ "size" \in running.saw
                    [] running.kind = "deep-scrub" -> running.saw # {}
                    [] running.kind = "repair" -> flagged
    /\ clearing' = CASE running.kind = "scrub" -> clearing /\ "size" \notin running.saw
                     [] running.kind = "deep-scrub" -> FALSE
                     [] running.kind = "repair" -> TRUE
    /\ damage' = IF running.kind = "repair" THEN damage \ running.saw ELSE damage
    /\ running' = Idle
    /\ UNCHANGED <<script, testVars, pending, healthy, scrubberVars>>

FlagClears ==
    /\ clearing
    /\ flagged' = FALSE /\ clearing' = FALSE
    /\ UNCHANGED <<script, testVars, moved, damage, running, pending, healthy, scrubberVars>>

(* OSDs and pgs come and go.                                               *)
HealthChanges ==
    /\ healthy' = ~healthy
    /\ UNCHANGED <<script, testVars, moved, pgVars, scrubberVars>>

----------------------------------------------------------------------------
(* do_pg_scrub                                                             *)

At(steps) == verdict = "none" /\ step <= Len(script) /\ script[step] \in steps

(* init = get_last_scrub_stamp(...); timer = 0                             *)
DoPgScrub ==
    /\ At(Kinds)
    /\ timer = -1
    /\ timer' = 0
    /\ moved' = FALSE
    /\ UNCHANGED <<script, step, verdict, pgVars, healthy, scrubberVars>>

ScrubSeen ==
    /\ timer >= 0
    /\ moved
    /\ timer' = -1
    /\ step' = step + 1
    /\ UNCHANGED <<script, verdict, moved, pgVars, healthy, scrubberVars>>

(* A round of the loop: the deadline, the request every RESEND_TIMEOUT,    *)
(* and the sleep.                                                          *)
Poll ==
    /\ timer >= 0
    /\ ~moved
    /\ IF timer >= 3 * Resend
       THEN /\ verdict' = "timeout"
            /\ timer' = -1
            /\ UNCHANGED pending
       ELSE /\ timer' = timer + 1
            /\ verdict' = verdict
            /\ pending' = IF timer % Resend = 0 THEN Asked(script[step]) ELSE pending
    /\ UNCHANGED <<script, step, moved, damage, flagged, clearing, running, healthy,
                   scrubberVars>>

(* The other steps of the tests.  The sleep of repair_test_2 may be too    *)
(* short.                                                                  *)
Wait == /\ (At({"wait"}) /\ healthy) \/ At({"sleep"})
        /\ step' = step + 1
        /\ UNCHANGED <<script, timer, verdict, moved, pgVars, healthy, scrubberVars>>

Corrupt == /\ At({"data", "size"})
           /\ damage' = damage \cup {script[step]}
           /\ step' = step + 1
           /\ UNCHANGED <<script, timer, verdict, moved, flagged, clearing, running,
                          pending, healthy, scrubberVars>>

(* Variant: the tests do not look at the pg after the repair.              *)
PgInconsistentBefore ==
    /\ At({"inconsistent", "consistent"})
    /\ IF flagged \/ script[step] = "consistent"
       THEN step' = step + 1 /\ verdict' = verdict
       ELSE verdict' = "failed" /\ step' = step
    /\ UNCHANGED <<script, timer, moved, pgVars, healthy, scrubberVars>>

PgInconsistent ==
    /\ At({"inconsistent", "consistent"})
    /\ IF flagged = (script[step] = "inconsistent")
       THEN step' = step + 1 /\ verdict' = verdict
       ELSE verdict' = "failed" /\ step' = step
    /\ UNCHANGED <<script, timer, moved, pgVars, healthy, scrubberVars>>

----------------------------------------------------------------------------
(* Scrubber of scrub.py                                                    *)

(* while not self.stopping: the command to the OSD, which asks for a scrub *)
(* of the pg if it is the pg's primary ...                                 *)
DoScrub ==
    /\ scrubber = "top"
    /\ \/ /\ scrubStop
          /\ scrubber' = "ended"
          /\ UNCHANGED pending
       \/ /\ ~scrubStop
          /\ scrubber' = "sleep"
          /\ pending' \in {pending, Asked(ScrubberCmd)}
    /\ UNCHANGED <<script, testVars, moved, damage, flagged, clearing, running, healthy,
                   scrubStop>>

(* ... or raises.  The list of OSDs is that of the start of the task.      *)
DoScrubRaises ==
    /\ scrubber = "top"
    /\ ~scrubStop
    /\ scrubber' = "raised"
    /\ UNCHANGED <<script, testVars, moved, pgVars, healthy, scrubStop>>

ScrubberWakes == /\ scrubber = "sleep"
                 /\ scrubber' = "top"
                 /\ UNCHANGED <<script, testVars, moved, pgVars, healthy, scrubStop>>

----------------------------------------------------------------------------
TestStep == DoPgScrub \/ ScrubSeen \/ Poll \/ Wait \/ Corrupt \/ PgInconsistent
PgStep == ScrubStarts \/ ScrubEnds \/ FlagClears \/ HealthChanges
ScrubberStep == DoScrub \/ DoScrubRaises \/ ScrubberWakes

ScrubInit(Scripts) ==
    /\ script \in Scripts
    /\ step = 1 /\ timer = -1 /\ verdict = "none"
    /\ moved = FALSE /\ damage = {} /\ flagged = FALSE /\ clearing = FALSE
    /\ running = Idle /\ pending = "none" /\ healthy = FALSE
    /\ scrubber = "none" /\ scrubStop = FALSE

----------------------------------------------------------------------------
(* Properties.                                                             *)

(* A scrub or repair test that gets to its end has left a sound pg.  Each  *)
(* do_pg_scrub returns at any change of the stamp, be it by a request sent *)
(* again that ran late or by a scrub of the Scrubber, so that the repair   *)
(* may be still to come when it returns; the assertions may then fail      *)
(* though nothing is wrong, but they never let the test pass too early.    *)
PassedTestsRepaired == step > Len(script) => damage = {}

=============================================================================

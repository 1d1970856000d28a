----------------------------- MODULE ClockSkew -----------------------------
(***************************************************************************)
(* The greenlet of mon_clock_skew_check.py, ClockSkewCheck.do_check.  What *)
(* the monitors report of a round is an input: nothing yet, the reports of *)
(* a round that goes on, or those of a finished one, with or without a     *)
(* skew above max_skew.                                                    *)
(***************************************************************************)
EXTENDS Naturals

CONSTANTS ExpectSkew,   \* config expect-skew
          NeverFail,    \* config never-fail
          AtLeastOnce,  \* config at-least-once
          Deadline      \* at-least-once-timeout, in rounds; 0: none

ASSUME SkewAssumption == /\ {ExpectSkew, NeverFail, AtLeastOnce} \subseteq BOOLEAN
                         /\ Deadline \in Nat

VARIABLES skews,      \* has a skew been seen
          ranOnce,    \* ran_once
          waited,     \* rounds since started_on was set; 0: it is None
          checker,    \* greenlet: "none", "top", "quorum", "health", "ended", "raised"
          skewStop    \* self.stopping

skewVars == <<skews, ranOnce, waited, checker, skewStop>>

SkewInit(withCheck) ==
    /\ skews = FALSE /\ ranOnce = FALSE /\ waited = 0 /\ skewStop = FALSE
    /\ checker = IF withCheck THEN "top" ELSE "none"

Wanted == AtLeastOnce /\ ~ranOnce

\* Mutant: at-least-once without a deadline.
CheckAgainForever ==
    /\ checker = "top"
    /\ ~skewStop \/ Wanted
    /\ checker' = "quorum"
    /\ UNCHANGED <<skews, ranOnce, waited, skewStop>>

(* The head of the loop.  After finish() it goes on only to see one round, *)
(* and only until the deadline that is set then.                           *)
CheckAgain ==
    /\ checker = "top"
    /\ ~skewStop \/ Wanted
    /\ IF Wanted /\ skewStop
       THEN IF waited >= Deadline /\ waited > 0 /\ Deadline > 0
            THEN checker' = "raised" /\ waited' = waited
            ELSE checker' = "quorum" /\ waited' = IF waited > Deadline THEN waited ELSE waited + 1
       ELSE checker' = "quorum" /\ waited' = waited
    /\ UNCHANGED <<skews, ranOnce, skewStop>>

(* wait_for_mon_quorum_size gives up after 300 seconds.                    *)
QuorumWaited == /\ checker = "quorum"
                /\ checker' \in {"health", "raised"}
                /\ UNCHANGED <<skews, ranOnce, waited, skewStop>>

(* get_mon_health, the reports, and the sleep.                             *)
ReadHealth(round, skewed) ==
    /\ checker = "health"
    /\ checker' = "top"
    /\ skews' = (skews \/ (round # "none" /\ skewed))
    /\ ranOnce' = (\/ ranOnce
                   \/ round = "finished"
                   \/ round = "reports" /\ ExpectSkew /\ skews')
    /\ UNCHANGED <<waited, skewStop>>

HealthRaises == /\ checker = "health"
                /\ checker' = "raised"
                /\ UNCHANGED <<skews, ranOnce, waited, skewStop>>

(* After the loop: skews, if and only if they are expected.                *)
Verdict ==
    /\ checker = "top"
    /\ skewStop /\ ~Wanted
    /\ checker' = IF skews # ExpectSkew /\ ~NeverFail THEN "raised" ELSE "ended"
    /\ UNCHANGED <<skews, ranOnce, waited, skewStop>>

SkewStep == \/ CheckAgain \/ QuorumWaited \/ HealthRaises \/ Verdict
            \/ \E round \in {"none", "reports", "finished"}, skewed \in BOOLEAN :
                  ReadHealth(round, skewed)
=============================================================================

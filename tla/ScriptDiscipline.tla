-------------------------- MODULE ScriptDiscipline --------------------------
(***************************************************************************)
(* How a test of ScriptedTests must be written so that what it does cannot *)
(* meet a cluster that has not noticed yet.  Everything here is read off   *)
(* the list of instructions: what is known of an OSD o when instruction n  *)
(* of the test t is next, whatever the cluster has done meanwhile.         *)
(***************************************************************************)
EXTENDS Integers, Sequences, FiniteSets

(* Instruction k is op, of o, or of a set with o in it.                    *)
Of(t, k, op, o) == t.code[k][1] = op /\ t.code[k][2] = o
With(t, k, op, o) == t.code[k][1] = op /\ o \in t.code[k][2]

Disturbs(t, k, o) == Of(t, k, "kill", o) \/ Of(t, k, "revive", o) \/ With(t, k, "down", o)
Untouched(t, n, o) == \A k \in 1 .. n - 1 : ~Disturbs(t, k, o)

(* Killed, and not revived since.                                          *)
Dead(t, n, o) == \E k \in 1 .. n - 1 : /\ Of(t, k, "kill", o)
                                       /\ \A j \in k + 1 .. n - 1 : ~Of(t, j, "revive", o)

(* Marked out by the test, and not marked in since.                        *)
Out(t, n, o) == \E k \in 1 .. n - 1 : /\ With(t, k, "out", o)
                                      /\ \A j \in k + 1 .. n - 1 : ~With(t, j, "in", o)

NoIn(t, n) == \E k \in 1 .. n - 1 : /\ With(t, k, "set", "noin")
                                    /\ \A j \in k + 1 .. n - 1 : ~With(t, j, "unset", "noin")

(* noin was set, if at all, only while o had not been touched: an OSD that *)
(* the monitors mark out comes back in.                                    *)
ComesBack(t, n, o) ==
    \A k \in 1 .. n - 1 :
       With(t, k, "set", "noin") => \E u \in k + 1 .. n - 1 : /\ With(t, u, "unset", "noin")
                                                              /\ Untouched(t, u, o)

(* Dead, and marked down after the kill.                                   *)
Noticed(t, n, o) ==
    \E k \in 1 .. n - 1 :
       /\ Dead(t, k, o) /\ With(t, k, "down", o)
       /\ \A j \in k + 1 .. n - 1 : ~Of(t, j, "revive", o)

(* Never revived while the map might still have it up.                     *)
Tidy(t, n, o) == \A k \in 1 .. n - 1 : Of(t, k, "revive", o) => Noticed(t, k, o)

(* When this wait returns o is up and runs.                                *)
Confirms(t, k, o) ==
    \/ With(t, k, "told", o)
    \/ /\ Of(t, k, "osd is up", o) \/ Of(t, k, "up", Cardinality(t.osds))
       /\ ~Dead(t, k, o) /\ Tidy(t, k, o)

(* Up and running, since the start or since a wait for it.                 *)
Sure(t, n, o) == \E k \in 0 .. n - 1 : /\ k = 0 \/ Confirms(t, k, o)
                                       /\ \A j \in k + 1 .. n - 1 : ~Disturbs(t, j, o)

-----------------------------------------------------------------------------
(* The command that is next cannot fail.                                   *)
Answers(t, n) ==
    LET op == t.code[n][1]
        o == t.code[n][2]
    IN  /\ op = "tell" => o \in t.osds /\ Sure(t, n, o)
        /\ op = "lost" => o \in t.osds /\ Noticed(t, n, o)
        /\ op = "tool" => o \in t.osds /\ Dead(t, n, o)
        /\ op = "is clean" =>
              t.size <= Cardinality({p \in t.osds : Sure(t, n, p) /\ ComesBack(t, n, p)
                                                    /\ ~Out(t, n, p)})
        /\ op = "is unclean" => Cardinality({p \in t.osds : ~Out(t, n, p)}) < t.size

(* The map knows of every kill.                                            *)
KillsNoticed(t, n) == \A o \in t.osds : Dead(t, n, o) => Noticed(t, n, o)

=============================================================================

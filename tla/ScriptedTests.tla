--------------------------- MODULE ScriptedTests ---------------------------
(***************************************************************************)
(* The tests that are straight scripts: they stop and start daemons, mark  *)
(* OSDs down, out and in, and wait for what the cluster makes of it.  The  *)
(* script modules translate them into instructions <<operation, argument>>;*)
(* this one carries them out beside a cluster (external) that notices a    *)
(* dead OSD, a booted one or a missing monitor some time later, or, with   *)
(* the right flag set, not at all.                                         *)
(*                                                                         *)
(* Placement groups are as healthy as the OSD map lets them be: a pool is  *)
(* clean when `size` OSDs are up and in, and active when `min_size` are.   *)
(* A deadline, where a test passes one, is taken to be long enough.        *)
(***************************************************************************)
EXTENDS Integers, Sequences, FiniteSets, ScriptDiscipline

CONSTANT Tests  \* records: osds, mons, size, min_size, sleeps, marks, code

(* The waits for the placement groups.                                     *)
PgWaits == {"clean", "recovered", "active", "active or down"}

(* A test with `marks` marks down what it kills before it waits for the    *)
(* placement groups.  One without `sleeps` does not count on a sleep, but  *)
(* waits for what it revives before it talks to it.                        *)
ASSUME TestsAssumption ==
    \A t \in Tests :
       /\ IsFiniteSet(t.osds) /\ t.size \in Nat /\ t.sleeps \in BOOLEAN /\ Len(t.code) \in Nat
       /\ t.marks \in BOOLEAN
       /\ \A n \in 1 .. Len(t.code) : /\ t.sleeps \/ Answers(t, n)
                                      /\ t.marks /\ t.code[n][1] \in PgWaits => KillsNoticed(t, n)

VARIABLES test,     \* the test that is run
          pos,      \* its next instruction
          result,   \* "running", "done" or "raised"
          proc,     \* OSD processes: "dead", "booting" or "on"
          up, in,   \* the OSD map
          autoOut,  \* the OSD map: the OSDs that the monitors marked out
          flags,    \* the OSD map: noup, nodown, noin, noout
          monAlive, \* monitor processes
          monmap,   \* the monitor map
          joining,  \* monitors with a fresh store, not in the map yet
          quorum    \* monitors of the last election that succeeded

osdMap == <<up, in, autoOut, flags>>
monVars == <<monAlive, monmap, joining, quorum>>
scriptVars == <<test, pos, result>>
vars == <<scriptVars, proc, osdMap, monVars>>

Osds == test.osds
Acting == up \cap in
HasQuorum == 2 * Cardinality(quorum) > Cardinality(monmap)
Reaches(o) == o \in up /\ proc[o] = "on"

Init == /\ test \in Tests
        /\ pos = 1 /\ result = "running"
        /\ proc = [o \in Osds |-> "on"]
        /\ up = Osds /\ in = Osds /\ autoOut = {} /\ flags = {}
        /\ monAlive = test.mons /\ monmap = test.mons /\ quorum = test.mons /\ joining = {}

----------------------------------------------------------------------------
(* The script.                                                             *)

At(ops) == result = "running" /\ pos <= Len(test.code) /\ test.code[pos][1] \in ops
Op == test.code[pos][1]
Arg == test.code[pos][2]
Onward == pos' = pos + 1 /\ UNCHANGED <<test, result>>
Raise == result' = "raised" /\ UNCHANGED <<test, pos>>
Check(ok) == IF ok THEN Onward ELSE Raise

(* revive_osd returns when the admin socket answers: the OSD is not up yet.*)
KillOsd == /\ At({"kill"})
           /\ proc' = [proc EXCEPT ![Arg] = "dead"]
           /\ Onward
           /\ UNCHANGED <<osdMap, monVars>>

ReviveOsd == /\ At({"revive"})
             /\ proc' = [proc EXCEPT ![Arg] = "booting"]
             /\ Onward
             /\ UNCHANGED <<osdMap, monVars>>

\* Mutant: mark_down_osd has no effect.
OsdCommandNotDown ==
    /\ At({"down", "in", "out", "set", "unset"})
    /\ HasQuorum
    /\ in' = CASE Op = "in" -> in \cup Arg [] Op = "out" -> in \ Arg [] OTHER -> in
    /\ autoOut' = IF Op \in {"in", "out"} THEN autoOut \ Arg ELSE autoOut
    /\ flags' = CASE Op = "set" -> flags \cup Arg [] Op = "unset" -> flags \ Arg
                  [] OTHER -> flags
    /\ Onward
    /\ UNCHANGED <<up, proc, monVars>>

(* zbkc osd down | in | out | set | unset                                  *)
OsdCommand ==
    /\ At({"down", "in", "out", "set", "unset"})
    /\ HasQuorum
    /\ up' = IF Op = "down" THEN up \ Arg ELSE up
    /\ in' = CASE Op = "in" -> in \cup Arg [] Op = "out" -> in \ Arg [] OTHER -> in
    /\ autoOut' = IF Op \in {"in", "out"} THEN autoOut \ Arg ELSE autoOut
    /\ flags' = CASE Op = "set" -> flags \cup Arg [] Op = "unset" -> flags \ Arg
                  [] OTHER -> flags
    /\ Onward
    /\ UNCHANGED <<proc, monVars>>

(* zbkc tell osd.N ..., which fails unless the OSD answers; zbkc osd lost, *)
(* which the monitors refuse for an OSD that is up; the object store tool, *)
(* which cannot open the store of an OSD that runs; and what a test        *)
(* asserts of the pgs without waiting for it.                              *)
Answer ==
    CASE Op = "tell" -> Reaches(Arg)
      [] Op = "lost" -> Arg \notin up
      [] Op = "tool" -> proc[Arg] = "dead"
      [] Op = "is clean" -> Cardinality(Acting) >= test.size
      [] Op = "is unclean" -> Cardinality(Acting) < test.size

Command == /\ At({"tell", "lost", "tool", "is clean", "is unclean"})
           /\ HasQuorum \/ Op = "tool"
           /\ Check(Answer)
           /\ UNCHANGED <<proc, osdMap, monVars>>

(* The waits, none of which looks at a process.                            *)
Awaited ==
    CASE Op = "up" -> Cardinality(up) >= Arg
      [] Op = "osd is up" -> Arg \in up
      [] Op = "clean" -> Cardinality(Acting) >= test.size
      [] Op \in PgWaits \ {"clean"} -> Cardinality(Acting) >= test.min_size
      [] Op = "unclean" -> Cardinality(Acting) < test.size
      [] Op = "stale" -> up = {}
      [] Op = "told" -> \A o \in Arg : Reaches(o)
      [] Op = "quorum" -> Cardinality(quorum) = Arg

\* Mutant: wait_till_osd_is_up returns at once.
WaitAtOnce ==
    /\ At(PgWaits \cup {"up", "osd is up", "unclean", "stale", "told", "quorum"})
    /\ HasQuorum
    /\ Op = "osd is up" \/ Awaited
    /\ Onward
    /\ UNCHANGED <<proc, osdMap, monVars>>

Wait == /\ At(PgWaits \cup {"up", "osd is up", "unclean", "stale", "told", "quorum"})
        /\ HasQuorum
        /\ Awaited
        /\ Onward
        /\ UNCHANGED <<proc, osdMap, monVars>>

(* Client I/O waits for the OSDs of its own pgs, dead or not, as long as   *)
(* they are in the map, and not for the others.                            *)
IoOn(osds) == /\ At({"io"})
              /\ HasQuorum
              /\ Cardinality(osds) >= test.min_size
              /\ \A o \in osds : proc[o] = "on"
              /\ Onward
              /\ UNCHANGED <<proc, osdMap, monVars>>

RunIo == IoOn(Acting)
RunIoOnSome == \E osds \in SUBSET Acting : IoOn(osds)

(* What a test asserts of its objects, of the state of its pgs while they  *)
(* recover, of the log or of the monitors' own view: nothing the script    *)
(* has done settles the answer.                                            *)
AssertData == /\ At({"assert"})
              /\ HasQuorum
              /\ Onward \/ Raise
              /\ UNCHANGED <<proc, osdMap, monVars>>

(* The admin socket needs the process only.                                *)
AdminSocket == /\ At({"socket"})
               /\ proc[Arg] # "dead"
               /\ Onward
               /\ UNCHANGED <<proc, osdMap, monVars>>

(* kill_mon, revive_mon, the start of a monitor that is not in the map,    *)
(* and zbkc mon remove.                                                    *)
MonCommand ==
    /\ At({"kill mon", "revive mon", "add mon", "remove mon"})
    /\ Op = "remove mon" => HasQuorum
    /\ monAlive' = IF Op = "kill mon" THEN monAlive \ {Arg}
                   ELSE IF Op = "remove mon" THEN monAlive ELSE monAlive \cup {Arg}
    /\ joining' = IF Op = "add mon" THEN joining \cup {Arg} ELSE joining
    /\ monmap' = IF Op = "remove mon" THEN monmap \ {Arg} ELSE monmap
    /\ Onward
    /\ UNCHANGED <<proc, osdMap, quorum>>

(* daemon.wait() for a monitor that was removed.                           *)
MonGone == /\ At({"mon gone"})
           /\ Arg \notin monAlive
           /\ Onward
           /\ UNCHANGED <<proc, osdMap, monVars>>

Finish == /\ result = "running"
          /\ pos > Len(test.code)
          /\ result' = "done"
          /\ UNCHANGED <<test, pos, proc, osdMap, monVars>>

ScriptStep == \/ KillOsd \/ ReviveOsd \/ OsdCommand \/ Command \/ Wait \/ RunIo
              \/ AssertData \/ AdminSocket \/ MonCommand \/ MonGone \/ Finish

----------------------------------------------------------------------------
(* The cluster.                                                            *)

(* An OSD that the monitors marked out comes back in when it boots.        *)
OsdBoots(o) == /\ HasQuorum
               /\ proc[o] # "dead" /\ (proc[o] = "booting" \/ o \notin up)
               /\ "noup" \notin flags
               /\ proc' = [proc EXCEPT ![o] = "on"]
               /\ up' = up \cup {o}
               /\ IF o \in autoOut /\ "noin" \notin flags
                  THEN in' = in \cup {o} /\ autoOut' = autoOut \ {o}
                  ELSE UNCHANGED <<in, autoOut>>
               /\ UNCHANGED <<scriptVars, flags, monVars>>

OsdSeenDown(o) == /\ HasQuorum
                  /\ o \in up /\ proc[o] # "on"
                  /\ "nodown" \notin flags
                  /\ up' = up \ {o}
                  /\ UNCHANGED <<scriptVars, proc, in, autoOut, flags, monVars>>

OsdAutoOut(o) == /\ HasQuorum
                 /\ o \in in \ up
                 /\ "noout" \notin flags
                 /\ in' = in \ {o}
                 /\ autoOut' = autoOut \cup {o}
                 /\ UNCHANGED <<scriptVars, proc, up, flags, monVars>>

Elected == LET m == monAlive \cap monmap
           IN  IF 2 * Cardinality(m) > Cardinality(monmap) THEN m ELSE {}

Election == /\ quorum # Elected
            /\ quorum' = Elected
            /\ UNCHANGED <<scriptVars, proc, osdMap, monAlive, monmap, joining>>

MonJoins(m) == /\ m \in joining /\ HasQuorum
               /\ monmap' = monmap \cup {m}
               /\ joining' = joining \ {m}
               /\ UNCHANGED <<scriptVars, proc, osdMap, monAlive, quorum>>

(* A monitor that was removed from the map ends.                           *)
MonEnds(m) == /\ m \in monAlive \ (monmap \cup joining)
              /\ monAlive' = monAlive \ {m}
              /\ UNCHANGED <<scriptVars, proc, osdMap, monmap, joining, quorum>>

----------------------------------------------------------------------------
AllOsds == UNION {t.osds : t \in Tests}
Mons == monAlive \cup joining

Next == \/ ScriptStep \/ RunIoOnSome
        \/ \E o \in Osds : OsdBoots(o) \/ OsdSeenDown(o) \/ OsdAutoOut(o)
        \/ Election
        \/ \E m \in Mons : MonJoins(m) \/ MonEnds(m)

(* The script is one greenlet and runs when it can; that its I/O goes past *)
(* a dead OSD nobody guarantees.  Of the cluster:                          *)
(* running OSDs boot, dead ones are noticed unless a flag forbids it, and  *)
(* the monitors that run elect.  Whether an OSD that is down is marked out *)
(* in time is left open.                                                   *)
Spec == /\ Init
        /\ [][Next]_vars
        /\ WF_vars(ScriptStep)
        /\ \A o \in AllOsds : /\ WF_vars(o \in Osds /\ OsdBoots(o))
                              /\ WF_vars(o \in Osds /\ OsdSeenDown(o))
        /\ WF_vars(Election)
        /\ WF_vars(\E m \in Mons : MonJoins(m) \/ MonEnds(m))

----------------------------------------------------------------------------
(* Properties.                                                             *)

(* A script that waits for the OSDs it has revived never meets one that    *)
(* does not answer, and the tool never a store in use: only an assertion   *)
(* about its data can end it.  Not so the tests that count on a sleep, or  *)
(* on the I/O that goes on meanwhile.                                      *)
CommandsAnswered == result = "raised" => test.sleeps \/ Op = "assert"

(* When a wait for the placement groups returns, the map on which it       *)
(* relied knows of every OSD the script has killed: that is what           *)
(* mark_down_osd after kill_osd is for, as is_clean and the others only    *)
(* read the monitors' statistics.  osd_recovery.py does not mark osd.2     *)
(* down and counts on its I/O to meet it.                                  *)
WaitsSeeKills ==
    [][test.marks /\ At(PgWaits) /\ pos' # pos => \A o \in up : proc[o] # "dead"]_vars

(* Every script comes to its end although most of its waits have no        *)
(* timeout: whatever is awaited is brought about by what the script did    *)
(* before, in every order in which the cluster can notice it.              *)
ScriptEnds == <>(result # "running")

=============================================================================

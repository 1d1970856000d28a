--------------------------- MODULE TaskDiscipline ---------------------------
(***************************************************************************)
(* What the tasks of src/tasks/ keep to, so that a job can be left at any  *)
(* point: conditions on the text of a job, each about a few commands, that *)
(* can be read off its program without running it.  TaskProofs shows that  *)
(* a job that keeps them has the properties of NestedTasks, however many   *)
(* of its commands fail.                                                   *)
(***************************************************************************)
EXTENDS NestedTasks, Integers, FiniteSets

Tries == [j \in Jobs |-> {n \in 1 .. Len(Text[j]) : Text[j][n].op = "try"}]
Closes == [j \in Jobs |-> {n \in 1 .. Len(Text[j]) : Text[j][n].op = "close"}]

(* How many bodies are open before each instruction, and at the end.       *)
Depth ==
    [j \in Jobs |-> [n \in 1 .. Len(Text[j]) + 1 |->
        Cardinality({f \in Tries[j] : f < n}) - Cardinality({f \in Closes[j] : f < n})]]

(* Their `finally`s, innermost first: the last one to begin at each depth. *)
Stacks ==
    [j \in Jobs |-> [n \in 1 .. Len(Text[j]) + 1 |-> [i \in 1 .. Depth[j][n] |->
        LET fs == {f \in Tries[j] : f < n /\ Depth[j][f] = Depth[j][n] - i}
        IN  CHOOSE f \in fs : \A g \in fs : g <= f]]]

(* Every `close` ends a body, and the `finally`s below an open one are     *)
(* those that were open where it began.                                    *)
WellNested(j) ==
    LET T == Text[j]
        st == Stacks[j]
    IN  /\ Len(T) \in Nat
        /\ st[1] = <<>>
        /\ \A n \in 1 .. Len(T) :
              /\ T[n].op = "cmd" => st[n + 1] = st[n]
              /\ T[n].op = "try" => st[n + 1] = <<n>> \o st[n] /\ Len(T[n].fin) \in Nat
              /\ T[n].op = "close" => st[n] # <<>> /\ st[n + 1] = Tail(st[n])
        /\ \A n \in 1 .. Len(T) + 1 :
              /\ st[n] \in Seq(1 .. Len(T))
              /\ st[n] # <<>> => /\ T[Head(st[n])].op = "try"
                                 /\ Tail(st[n]) = st[Head(st[n])]

(* The commands of a job, those of its `finally`s included.                *)
Commands ==
    [j \in Jobs |->
        {c \in {Text[j][n] : n \in 1 .. Len(Text[j])} : c.op = "cmd"}
        \cup UNION {{Text[j][f].fin[k] : k \in 1 .. Len(Text[j][f].fin)} : f \in Tries[j]}]

Made == [j \in Jobs |-> UNION {c.makes : c \in Commands[j]}]

----------------------------------------------------------------------------
(* Who removes what a command has made.                                    *)

(* A w that exists whenever scope s has an r: made with it, and removed by *)
(* commands of s that remove r too.                                        *)
Tied(j, w, r, s) ==
    /\ w \in Made[j]
    /\ \A pair \in Within : pair[1] # w[1]
    /\ \A c \in Commands[j] :
          /\ r \in c.makes /\ c.scope = s => w \in c.makes
          /\ w \in c.drops => c.scope = s /\ r \in c.drops \ c.makes

(* Unless c fails, there is no r of scope s after it.                      *)
Clears(j, c, r, s) == /\ c.scope = s
                      /\ r \in c.drops \ c.makes
                      /\ c.unless = {}
                      /\ \A w \in c.when : w = r \/ Tied(j, w, r, s)

(* Command k of the `finally` f is the first to remove r, it clears r, and *)
(* only commands of s come before it.                                      *)
Covers(j, f, k, r, s) ==
    LET F == Text[j][f].fin
    IN  /\ k \in 1 .. Len(F)
        /\ Clears(j, F[k], r, s)
        /\ \A i \in 1 .. k - 1 : F[i].scope = s /\ r \notin F[i].drops

(* The `finally` of instruction f is all of s.                             *)
Mine(j, f, s) == \A k \in 1 .. Len(Text[j][f].fin) : Text[j][f].fin[k].scope = s

(* From instruction n on only commands of s are run, until one clears r or *)
(* a `finally` that clears it is open.                                     *)
Pending(j, n, r, s) ==
    \E e \in n .. Len(Text[j]) :
       /\ \/ Text[j][e].op = "cmd" /\ Clears(j, Text[j][e], r, s)
          \/ Text[j][e].op = "try" /\ \E k \in 1 .. Len(Text[j][e].fin) : Covers(j, e, k, r, s)
       /\ \A i \in n .. e - 1 :
             /\ Text[j][i].op = "cmd" => Text[j][i].scope = s
             /\ Text[j][i].op = "close" => Mine(j, Head(Stacks[j][i]), s)

(* r vanishes with a container, or is left behind on purpose.              *)
Stored(r) == \E pair \in Within : pair[1] = r[1]
Free(r) == r[1] \in LastingKinds \/ Stored(r)

(* A container is neither stored in another one nor left behind.           *)
Containers == \A pair \in Within : pair = <<pair[1], pair[2]>> /\ ~Free(<<pair[2], "all">>)

(* c does not take r away.                                                 *)
Spares(c, r) == \A x \in c.drops : x # r /\ ~Supports("lie", r, x)

(* r exists if the job gets as far as instruction n.                       *)
Sure(j, n, r) ==
    \E m \in 1 .. n - 1 :
       /\ LET c == Text[j][m]
          IN  c.op = "cmd" /\ r \in c.makes /\ c.when = {} /\ c.unless = {} /\ ~c.quiet
       /\ \A i \in m + 1 .. n - 1 :
             /\ Text[j][i].op = "cmd" => Spares(Text[j][i], r)
             /\ Text[j][i].op = "close" =>
                   LET F == Text[j][Head(Stacks[j][i])].fin
                   IN  \A k \in 1 .. Len(F) : Spares(F[k], r)

(* One of the `finally`s st covers r.                                      *)
CoveredBy(j, st, r, s) ==
    \E i \in 1 .. Len(st) : \E k \in 1 .. Len(Text[j][st[i]].fin) : Covers(j, st[i], k, r, s)

(* Everything that a command makes will be removed by its own scope, goes  *)
(* with its container, was there already, or is left behind on purpose.    *)
CleanUpPlanned(j) ==
    /\ \A n \in 1 .. Len(Text[j]) : LET c == Text[j][n] IN
          /\ c.op = "cmd" => \A r \in c.makes :
                Free(r) \/ Pending(j, n + 1, r, c.scope) \/ CoveredBy(j, Stacks[j][n], r, c.scope)
                \/ Sure(j, n, r)
          /\ c.op = "try" => \A k \in 1 .. Len(c.fin) : \A r \in c.fin[k].makes :
                Free(r) \/ CoveredBy(j, Stacks[j][n], r, c.fin[k].scope)
    /\ \A c \in Commands[j] : \A r \in c.makes, x \in c.drops : ~Supports("lie", r, x)

----------------------------------------------------------------------------
(* Who uses what a command removes.                                        *)

(* Without x, r lacks x or something that is stored in x.                  *)
RestsOn(r, x) == /\ x[2] \in {r[2], "all"}
                 /\ \E pair \in Uses : pair[1] = r[1] /\ <<pair[2], x[1]>> \in Within

(* c leaves r with all it uses: what r uses is stored where r is stored,   *)
(* or c checks that nobody uses it.                                        *)
Harmless(c, r) ==
    \A x \in c.drops :
       /\ RestsOn(r, x) => Supports("lie", r, x)
       /\ Supports("use", r, x) => Supports("lie", r, x) \/ c.strict

(* What the `finally`s st are going to remove.                             *)
Awaits(j, st) == UNION {UNION {Text[j][st[i]].fin[k].drops : k \in 1 .. Len(Text[j][st[i]].fin)} :
                           i \in 1 .. Len(st)}

(* A command of the job is harmless to all that is made before it and is   *)
(* removed after it.                                                       *)
UsersGoFirst(j) ==
    /\ \A c \in Commands[j], r \in Made[j] : Free(r) => Harmless(c, r)
    /\ \A n \in 1 .. Len(Text[j]) : LET c == Text[j][n] IN
          /\ c.op = "cmd" =>
                /\ \A r \in Awaits(j, Stacks[j][n]) : Harmless(c, r)
                /\ c.drops # {} => \A m \in 1 .. n - 1 :
                      Text[j][m].op = "cmd" => \A r \in Text[j][m].makes :
                         Pending(j, n + 1, r, Text[j][m].scope) => Harmless(c, r)
          /\ c.op = "try" => \A k \in 1 .. Len(c.fin) :
                /\ \A r \in Awaits(j, Stacks[j][n]) : Harmless(c.fin[k], r)
                /\ \A i \in k + 1 .. Len(c.fin) : \A r \in c.fin[i].drops :
                      Covers(j, n, i, r, c.fin[i].scope) => Harmless(c.fin[k], r)
          /\ c.op = "close" =>
                LET F == Text[j][Head(Stacks[j][n])].fin
                IN  \A m \in 1 .. n - 1 :
                      Text[j][m].op = "cmd" => \A r \in Text[j][m].makes :
                         Pending(j, n + 1, r, Text[j][m].scope) =>
                            \A k \in 1 .. Len(F) : Harmless(F[k], r)

----------------------------------------------------------------------------
(* What exists at each point of a job none of whose commands fails.        *)

Apply(c, H) == {r : r \in IF Skipped(c, H) THEN H ELSE After(H, c.makes, c.drops)}

(* The states in S that are reached from H before each of n steps, and     *)
(* after the last one.                                                     *)
Iterated(Do(_, _), n, H, S) ==
    LET run[a \in 1 .. n + 1, b \in 1 .. n + 1, G \in S] ==
            CASE a = b -> G
              [] a + 1 = b -> Do(a, G)
              [] OTHER -> run[(a + b) \div 2, b, run[a, (a + b) \div 2, G]]
    IN  [k \in 1 .. n + 1 |-> run[1, k, H]]

(* Before each command of the `finally` F.                                 *)
Sweep(j, F, H) == Iterated(LAMBDA k, G : Apply(F[k], G), Len(F), H, SUBSET Made[j])

(* Before each instruction.                                                *)
Reached ==
    [j \in Jobs |->
        Iterated(LAMBDA n, G :
                    CASE Text[j][n].op = "cmd" -> Apply(Text[j][n], G)
                      [] Text[j][n].op = "try" -> G
                      [] Text[j][n].op = "close" ->
                            LET F == Text[j][Head(Stacks[j][n])].fin
                            IN  Sweep(j, F, G)[Len(F) + 1],
                 Len(Text[j]), {}, SUBSET Made[j])]

(* In each `finally`.  It runs at its `close`, or when the body has ended  *)
(* and the `finally`s inside of it have run.                               *)
Swept ==
    [j \in Jobs |->
        LET T == Text[j]
            last == Stacks[j][Len(T) + 1]
            sw[f \in Tries[j]] ==
                LET closed == {n \in Closes[j] : Head(Stacks[j][n]) = f}
                    i == CHOOSE i \in DOMAIN last : last[i] = f
                IN  Sweep(j, T[f].fin,
                          IF closed # {} THEN Reached[j][CHOOSE n \in closed : TRUE]
                          ELSE IF i = 1 THEN Reached[j][Len(T) + 1]
                          ELSE sw[last[i - 1]][Len(T[last[i - 1]].fin) + 1])
        IN  [f \in Tries[j] |-> sw[f]]]

(* c does its work or is skipped, and takes H to G.                        *)
Goes(c, H, G) == \/ Skipped(c, H) /\ G = H
                 \/ ~Skipped(c, H) /\ ~Refused(c, H) /\ G = After(H, c.makes, c.drops)

(* From each of these states to the next, and none of the commands is      *)
(* refused for want of what it needs.                                      *)
NothingRefused(j) ==
    LET T == Text[j]
        st == Stacks[j]
        last == st[Len(T) + 1]
        hs == Reached[j]
        sw == Swept[j]
    IN  /\ hs[1] = {}
        /\ \A n \in 1 .. Len(T) :
              /\ T[n].op = "cmd" => Goes(T[n], hs[n], hs[n + 1])
              /\ T[n].op = "try" =>
                    /\ hs[n + 1] = hs[n]
                    /\ \A k \in 1 .. Len(T[n].fin) : Goes(T[n].fin[k], sw[n][k], sw[n][k + 1])
              /\ T[n].op = "close" =>
                    /\ sw[Head(st[n])][1] = hs[n]
                    /\ sw[Head(st[n])][Len(T[Head(st[n])].fin) + 1] = hs[n + 1]
        /\ last # <<>> => sw[Head(last)][1] = hs[Len(T) + 1]
        /\ \A i \in 1 .. Len(last) : LET f == last[i] IN
              st[f] # <<>> =>
                 /\ sw[Head(st[f])][1] = sw[f][Len(T[f].fin) + 1]
                 /\ \E k \in 1 .. Len(last) : last[k] = Head(st[f])

----------------------------------------------------------------------------
Tidy(j) == WellNested(j) /\ CleanUpPlanned(j) /\ UsersGoFirst(j) /\ NothingRefused(j)

TidyJobs == {j \in Jobs : Containers /\ Tidy(j)}

(* Each of the jobs that nest the tasks of src/tasks/ keeps to the         *)
(* discipline: every command finds what it needs, what it makes is removed *)
(* by a `finally` of its own task with no foreign command in between, and  *)
(* no command removes what is used by something removed later.             *)
JobsAreTidy == job \in TidyJobs

=============================================================================

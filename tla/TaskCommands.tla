---------------------------- MODULE TaskCommands ----------------------------
(***************************************************************************)
(* The vocabulary of the program modules: the commands that tasks run on   *)
(* their hosts, and the ways Python's context managers put them together.  *)
(* NestedTasks says what each of them does.                                *)
(***************************************************************************)
EXTENDS Naturals, Sequences

----------------------------------------------------------------------------
(* Commands.                                                               *)

(* A command is skipped unless all of `when` and none of `unless` exists.   *)
(* It fails if one of `needs` is missing; a strict one also fails if it    *)
(* finds what it makes, or does not find, or finds in use, what it drops.  *)
(* The failure of a quiet one raises nothing.                              *)
Cmd == [op |-> "cmd", scope |-> "job", when |-> {}, unless |-> {}, needs |-> {},
        makes |-> {}, drops |-> {}, strict |-> FALSE, quiet |-> FALSE]

Use(R) == [Cmd EXCEPT !.needs = R]                       \* runs only where R exists
Put(R) == [Cmd EXCEPT !.makes = R]                       \* mkdir -p, tee, install -d
New(R) == [Cmd EXCEPT !.makes = R, !.strict = TRUE]      \* mkdir, git clone, rbd create
Drop(R) == [Cmd EXCEPT !.drops = R]                      \* rm -f, rm -rf, stop if running
Remove(R) == [Cmd EXCEPT !.drops = R, !.strict = TRUE]   \* rmdir, rm, umount, modprobe -r
With(c, R) == [c EXCEPT !.needs = @ \cup R]
Quiet(c) == [c EXCEPT !.quiet = TRUE]                    \* check_status=False, || true
If(c, R) == [c EXCEPT !.when = R]                        \* if R exists
IfNot(c, R) == [c EXCEPT !.unless = R]                   \* unless one of R exists

(* A command belongs to the manager that runs it, or to the one that owns  *)
(* the daemon it restarts.                                                 *)
By(name, c) == [c EXCEPT !.scope = name]
In(name, cmds) ==
    [i \in DOMAIN cmds |-> IF cmds[i].scope = "job" THEN By(name, cmds[i]) ELSE cmds[i]]
Try(name, exit) == <<[op |-> "try", fin |-> In(name, exit)]>>
Close == <<[op |-> "close"]>>

(* enter; try: yield; finally: exit                                        *)
Manager(name, enter, exit) == In(name, enter) \o Try(name, exit)

(* try: enter; yield; finally: exit                                        *)
Guarded(name, enter, exit) == Try(name, exit) \o In(name, enter)

(* A plain function, or a manager that has ended before its task yields.   *)
Function(name, enter, body, exit) ==
    Manager(name, enter, exit) \o In(name, body) \o Close

(* with nested(...): pass.  All the managers of prog are left at its end.  *)
Completed(prog) ==
    prog \o [i \in 1 .. Len(SelectSeq(prog, LAMBDA x : x.op = "try"))
                      - Len(SelectSeq(prog, LAMBDA x : x.op = "close")) |-> Close[1]]

(* for x in list: F(x)                                                     *)
ForEach(list, F(_)) ==
    LET upTo[n \in 0 .. Len(list)] == IF n = 0 THEN <<>> ELSE upTo[n - 1] \o F(list[n])
    IN  upTo[Len(list)]

All(kinds) == {<<k, "all">> : k \in kinds}
At(kinds, c) == {<<k, c>> : k \in kinds}
AtEach(kinds, list) == kinds \X {list[i] : i \in DOMAIN list}

(* git clone at each client, rm -rf at the end.                            *)
GitClone(name, dir, clients) ==
    Manager(name, ForEach(clients, LAMBDA c : <<New(At({dir}, c)), Use(At({dir}, c))>>),
                  ForEach(clients, LAMBDA c : <<Drop(At({dir}, c))>>))

=============================================================================

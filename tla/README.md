# TLA+ specifications of the test tasks

The repository holds the tasks with which teuthology tests a zbkc storage
cluster: python modules that start daemons, break them on purpose, wait for the
cluster to heal, and check it.  They are concurrent programs.  Greenlets share
lists with each other, commands fail or never return, and the cluster moves on by
itself between two commands.  The modules here model those parts, check them with
TLC on small instances, and prove the central invariants with TLAPS for every
instance.

Paths below are relative to `src/`.

## 1. The system and its parts

| Part | Source | State and concurrency | Module |
|---|---|---|---|
| OSD thrasher | `tasks/zbkc_manager.py`, class `Thrasher` | four lists of OSDs, changed around cluster calls that yield | `OsdThrasher`, abstract: `OsdMembership` |
| thrashosds task | `tasks/thrashosds.py`, `Thrasher.do_*` | one `do_thrash` greenlet, four helpers that read its lists, a body that joins them | `ThrashOsds` |
| Objectstore tool test | `Thrasher.kill_osd` from line 201 | stores of dead OSDs, export files on hosts | `PgMove` |
| Pool bookkeeping | `ZbkcManager.pools` and its `RLock`; `tasks/rados.py`, `tasks/radosbench.py` | a dictionary shared by tasks and thrasher | `PoolManager` |
| Monitor thrasher | `tasks/mon_thrash.py` | kills, freezes, store syncs, elections in between | `MonThrasher` |
| MDS thrasher | `tasks/mds_thrash.py`, `FSStatus` in `tasks/zbkcfs/filesystem.py` | one greenlet per filesystem, shared standbys | `MdsThrasher` |
| Scrub commands and tests | `do_pg_scrub`, `tasks/scrub.py`, `scrub_test.py`, `repair_test.py` | requests that are resent until a stamp changes, a greenlet beside the tests | `PgScrub` |
| Pool snapshot thrasher | `tasks/thrash_pool_snaps.py` | a greenlet, a list, one command for each pool | `PoolSnaps` |
| Clock skew check | `tasks/mon_clock_skew_check.py` | a greenlet that polls until it is stopped or its own deadline passes | `ClockSkew` |
| These three in one job | the `task` functions of the above | joins, innermost first, exceptions passing through | `BackgroundTasks` |
| Entering and leaving tasks | every `@contextlib.contextmanager` task | commands that may fail half-way, `finally`s that undo them | `NestedTasks`, `TaskCommands`, `TaskDiscipline` |
| The tasks themselves | `tasks/zbkc.py`, `rgw.py`, `rbd.py`, `qemu.py`, `s3*.py`, `samba.py`, `workunit.py`, `zbkc_deploy.py`, `calamari_setup.py`, `devstack.py` and about thirty more | sequences of commands | `ClusterPrograms`, `BlockPrograms`, `GatewayPrograms`, `ClientPrograms`, `DeployPrograms` |
| Scripted OSD and monitor tests | `tasks/lost_unfound.py`, `divergent_priors*.py`, `osd_recovery.py`, `peer.py`, `dump_stuck.py`, `mon_recovery.py`, `mon_seesaw.py`, `rebuild_mondb.py` and others | a script beside a cluster that notices its deeds later | `ScriptedTests`, `ScriptDiscipline`, `OsdScripts` |
| Everything else | see `components` in `PROJECT.json` | straight-line scripts about the daemons under test, pure I/O | not modelled, section 7 |

The modules cover about 13 500 of the 25 200 lines of the implementation.

How they interact.  All tasks of a job run in one process as gevent greenlets,
so a switch happens only where a greenlet calls into a remote command, sleeps or
waits for a lock.  That is why every remote call is a step of its own and the
python statements between two calls belong to the step of one of them.  The
thrashers share the cluster with the workload tasks.  Thrasher and workload meet
in `ZbkcManager.pools`.  The helper greenlets of thrashosds read the lists that
`do_thrash` writes.  The MDS thrashers compete for the standby daemons.  The
Scrubber scrubs the pg whose scrub a test is waiting for.  Tasks rest on what the
tasks around them have set up: a mount on the cluster, a virtual machine on an
image.  The monitors, the daemons and recovery are external; each module gives
them the freedom the tasks have to live with, and marks those definitions external
in the map.

## 2. The modules

Each component module has its state as variables, `Init`, one action per
operation or cluster call, the next-state relation, the specification without and
with fairness, and its properties at the end.  Definitions whose comment begins
with "Variant" or "Mutant" are plausible mistakes in the one that follows them.  They are
part of no specification; each breaks the property it is listed with in
`PROJECT.json`.

**OsdThrasher.**  `inOsds`, `outOsds`, `liveOsds`, `deadOsds` are the four lists,
as sets, because their order is never used.  `running`, `up` and `mapIn` are the
cluster: daemons, and the osdmap.  `phase` says where `do_thrash` is, `op` which
cluster call it is inside of.  A primitive (`KillOsd`, `ReviveOsd`, `OutOsd`,
`InOsd`) makes the list changes that precede its first call; `CallStep` takes the
call and makes the changes that follow.  So a failure (`CallRaises`) can strike
between any two effects.  `test_pool_min_size` ends where the code raises, at the
log call with two arguments.  `choose_action`'s other actions touch none of this
state and are one stuttering choice.  With `scrub_interval` (`Scrubs`) `do_thrash`
makes a `Scrubber` after each wait for clean pgs, whose constructor waits again, without
a deadline (`phase = "scrubber"`).

**OsdMembership** is what the thrasher promises: OSDs are killed, revived, marked
out and in one at a time, kills only above `min_live`, outs only above `min_in`.
`OsdThrasher` implements it under `live <- liveOsds, in <- inOsds`.

**ThrashOsds** composes `OsdMembership` (for `do_thrash`) with the four helpers
and the task body.  `get()` re-raises and skips later joins; `join()` does not.

**PgMove.**  A pg of a dead OSD is exported, removed, and imported into the OSD
killed last or back where it was.  `store`, `files` and the cluster's recovery,
trimming and pool deletion on running OSDs interleave with it.

**PoolManager.**  `pools` is the dictionary (0: absent), `pgNum` and `pgpNum` the
cluster, `lock` the owner of the lock.  Tasks create, test and remove.  The
thrasher picks a pool under the lock and takes the lock again to grow the pool; no
other greenlet runs in between, so that both are one step (`GetPoolAndSet`) and the
cluster's answer is another.  A job has some of the tasks and may find a pool in the cluster
that somebody else deletes (`PoolDeleted`).  One round of a rados task (`runs: 1`) is modelled.

**MonThrasher.**  `mon` says whether each process is up, dead or frozen, `view` the
quorum each monitor believes to be in, `intact` whose store holds the data.  Every
signal, restart and query is a step.  At any time a monitor may leave its quorum
(`LeaveQuorum`) and any majority of those that run may form one (`Election`), so that
two monitors may give different answers, and one that is syncing none.  A wait is
answered by any monitor that runs; the queries that follow ask each for its own view,
and an election in between makes their assertion fail.  `rejoining` records who was
killed and has been in no quorum since.  A member of a quorum has synced its store,
except one that was told to sync and is still to be killed: `intact` is
then also the record that `thrash_store` was called.  This makes fewer stores intact
than there may be, so `IntactMajority` is not weakened by it.

**MdsThrasher.**  `holder`, `in`, `leaving`, `standby`, `laggy` and `max` are the
fsmap, `proc` the daemons.  Each filesystem has a thrasher with its own `pc`.  No
wait has a timeout, as in the code.  Take-over and replay are one step.  The shape
of the cluster is chosen in `MdsInit` and never changes.

**NestedTasks** is the machine that enters and leaves tasks.  A job is a sequence of
commands, `try`s and their ends.  A command makes, needs and removes resources
(`<<kind, place>>`); `maker` says which exist and who made them.  A command is
refused where a real one would be: `mkdir` of what exists, `rmdir` of what does
not, `umount` of what is in use, anything without what it needs.  Besides, up to
`MaxFaults` commands fail for reasons of their own.  A failing command has done any
part of its work (several hosts at once, `mkdir a b`, or `mkdir` and then `mount`), in
an order that what it makes and removes allows.  After an exception the open
`finally`s run, innermost first, and an exception in one loses the rest of it.  What
precedes a `try` is unguarded, exactly where the code has it so.  `Uses` says what
cannot live without what, `Within` what vanishes with its container, and
`LastingKinds` what is left behind on purpose (packages, configuration of the host).

**TaskDiscipline** says how a job must be written so that it can be left at any point,
as conditions on its text alone.  `WellNested`: ends match their `try`s; `Stacks` has
the `finally`s that are open before each instruction.  `CleanUpPlanned`: what a command
makes is removed by an open `finally` of its own scope (`Covers`), or no other scope
acts until such a `finally` is open or the scope itself has removed it (`Pending`), or
it is in a container, is left on purpose, or was there before.  `UsersGoFirst`: whatever
will be removed after a command uses nothing that the command removes, or the command
itself refuses to (`umount` of what is busy).  `NothingRefused`: carried out without
failures, from `Reached` to `Reached`, every command finds what it needs.  A job that
satisfies all four is in `TidyJobs`.

**TaskCommands** is the vocabulary (`New` for `mkdir` or `git clone`, `Drop` for
`rm -rf`, `Remove` for `rmdir`, `Quiet` for `check_status=False`; `Manager`,
`Guarded` and `Function` for the positions of the `try`).  **ClusterPrograms,
BlockPrograms, GatewayPrograms, ClientPrograms** and **DeployPrograms** say each task
in it, one definition for each context manager or function, named as in the code.

**PgScrub.**  `do_pg_scrub` remembers the pg's stamp, asks, and waits for another
stamp, asking again now and then; `moved` says that the stamp has changed since it
was read, by whichever scrub ended.  The cluster keeps a request beside the scrub
that runs, and need never start it.  A scrub finds the damage that was there when it
began; a repair removes what it has found, and the flag goes some time later.  The tests
are scripts of waits for a healthy cluster, scrubs, damage and assertions; the
Scrubber scrubs the same pg.  **PoolSnaps** and **ClockSkew** are the other two
greenlets.  **BackgroundTasks** nests the three around a body that may raise.

**ScriptedTests** carries out a script (kill, revive, mark, set a flag, tell, wait)
on OSD processes, an OSD map and monitors.  The map follows the processes by steps
of the cluster, later or, with a flag such as `nodown`, not at all.  Client I/O waits
for the OSDs of its own pgs, which may be any of those that are up and in.  What a test
asserts of objects, of recovery still under way or of the log may hold or not
(`AssertData`).  **OsdScripts**
holds eighteen tasks as such scripts, named as in the code.  **ScriptDiscipline** says
how a script must be written so that it cannot be ahead of the cluster: what is known
of an OSD at an instruction (dead; dead and known to be down; surely up; out) is read
off the instructions before it.

The `*Proofs` modules hold the theorems, each about the module it is named after;
`TaskProofs` has those about `ThrashOsds` and about `NestedTasks`.

The `MC*` modules give the constants their values; a `.cfg` replaces no
definition.

## 3. What the runs check

| Run | Instance | What it shows |
|---|---|---|
| `osd_thrasher` | 3 OSDs, `max_dead` 1, `min_live` 1, `min_in` 1, timeout and `scrub_interval` set | the lists partition the OSDs; live OSDs run, in OSDs are listed, also inside half-done calls; a returned `do_thrash` left everything up and in; refinement of `OsdMembership`; with the timeout, `do_join` returns, unless `do_thrash` is in the constructor of a `Scrubber` and the pgs never get clean |
| `thrashosds` | 2 OSDs, four helpers | flags follow `scrub_state` until the task is told to stop; a task that finished left all OSDs up and in, no greenlet, and no scrub flag unless the toggling greenlet itself failed (which `join` does not report); helpers wind down and the task ends, also when `do_thrash` raised, provided `do_thrash` gets back to the top of its loop |
| `pool_manager` | a rados task with 2 pools and a radosbench task, or one of them beside a pool that may be deleted; the thrasher | no assertion of a task fails; known pools exist; sizes are not understated; a rados task that returned removed what it made; every task gets the lock and ends |
| `mon_thrasher` | 4 monitors, `maintain_quorum`, store thrashing, freezing | no iteration ends before every monitor it killed has been in a quorum again; all monitors up between iterations; kills keep a majority; a majority of stores stays intact; `do_join` returns |
| `mds_thrasher` | 4 daemons and 1 filesystem of up to 2 ranks with weights, or 3 daemons and 2 filesystems | dead daemons are victims somebody will revive; two thrashers have the same victim only if the rank of one was given up meanwhile; a kill hits the holder of its rank, unless the rank was given up or the daemon died and lost it after the status was read; a victim is revived only when it holds no rank any more; a stopped thrasher ends, or its victim was promoted elsewhere, or its rank was given up, or another thrasher left a daemon dead |
| `pg_move` | 3 OSDs on 2 hosts, 2 pgs | a pg whose pool exists and which no import refused as incompatible is in a store or in an export file, also after a failure; a `kill_osd` that returned left no file; an import finds its file and does not find the pg |
| `nested_tasks` | 19 jobs, 2 clients, 2 failures anywhere | a job without failures raises nothing and leaves nothing behind; a failure costs only the clean-up of the scope it hit; nothing is removed under something that uses it; all nineteen keep to `TaskDiscipline` (`JobsAreTidy`) |
| `background_tasks` | tests with and without the Scrubber; all three tasks around a body | a scrub test that passes has left a sound pg, although its waits end with any scrub; the list of snapshots is that of the pools, give or take the one being changed; greenlets are over when the job is, and failures of scrubber and skew check are reported; the job ends if the cluster is healthy from some time on, whatever scrubs, monitors and commands do |
| `scripted_tests` | 20 scripts on the roles of their suites | all keep to `ScriptDiscipline` (`TestsAssumption`); scripts that wait for what they revived never meet an OSD that does not answer; no wait for pgs relies on a map that counts a killed OSD as up, in the scripts that mark down what they kill (all but `osd_recovery`); every script ends, though most waits have no timeout |

Three runs show where the code does not do what it, or its documentation, says:

| Run | Statement | What TLC finds |
|---|---|---|
| `osd_thrasher_discontinuity` | `test_map_discontinuity`: "1) Allows the osds to recover 2) kills an osd" | with `max_dead` above zero it waits for all OSDs to be up while it left some dead |
| `mds_thrasher_ranks` | ranks "other than rank 0 will be deactivated" | after a shrink `range(1, max_mds)` is not the set of ranks |
| `nested_tasks_two_clients` | `cifs_mount`: "Mount cifs clients.  Unmount when finished." | with two clients, and without any failure, the first `umount` is given the directory of the last client, fails, and both stay mounted |

`MCTwoClients` has four jobs whose loops go wrong at the second client, host or role.
The run takes `cifs`; with `Jobs = {"restart"}`, `{"tgt"}` or `{"rgw"}` in its
configuration TLC finds `FaultFreeIsClean` violated as well (section 5).

### Bounds

* OSDs: three are enough for one dead, one being killed and one left, which is
  where the bounds `min_live`, `min_in` and `max_dead` meet.
* Monitors: four is the smallest even number above two, where a wrong
  `max_killable` shows; the three that are not killed may all freeze.
* MDS: with one standby for two filesystems the thrashers compete; with two ranks
  the filesystem shrinks and grows while it is thrashed.
* Pools: `MaxPools` bounds `next_pool_id` by the number of pools the tasks create,
  so it never cuts a behaviour short.  `PgBound` is one growth above the initial size in
  the passing runs: a second growth takes the same steps.
  `MaxTries` stands for the 50 retries of `set_pool_property`.
* PgMove: two OSDs on one host and one on another, so a pg moves both within a
  host and between hosts; two pgs, so one is always left alone.

* Nested tasks: one failure reaches every command of every body and of every
  `finally` that then runs; the second one reaches what happens when clean-up after
  a failure fails too.  Two clients, because the loops that go wrong do so at the
  second.  The four tasks that do go wrong there have one client, host or role, or no
  apache, in the passing run, and two in `nested_tasks_two_clients`.
* Background tasks: `Resend` is RESEND_TIMEOUT in rounds of the loop; with two there
  are rounds with and without a request, and the deadline is, as in the code, three
  times as long, so that a request is sent three times; `MaxSnaps` two and two pools, so that an operation fails half-way with a
  list that is neither empty nor full; `MaxIndex` (three) cuts the endless loop after
  both kinds of operation were possible.
* Scripted tests: the number of OSDs, the pool size and the monitors are those of
  the suites.  Deadlines are taken to be long enough.  The tests that sleep, or rely
  on I/O that takes a while, instead of waiting (`osd_backfill`, `osd_recovery`,
  `divergent_priors`, `divergent_priors2`, `reg11184`) may meet an OSD that does not
  answer yet and are exempt from `CommandsAnswered`.  `osd_recovery` does not mark
  `osd.2` down either, and counts on its writes to meet it: it is exempt from
  `WaitsSeeKills` too (`marks`).

The safety results are also proved for every instance (section 4), those of
`NestedTasks` for every job that keeps to `TaskDiscipline`; for liveness TLC's bounds are
the limit of what is shown.

### Fairness

* A greenlet that can run is scheduled (weak fairness of its steps).  gevent's
  loop guarantees that.  No call is obliged to fail and, in `osd_thrasher` and
  `mon_thrasher`, no cluster is obliged to recover or to elect: the timeouts carry
  the argument.
* `thrashosds`: the other tasks of the job end, so that the task is asked to stop,
  and `do_thrash` comes back to the top of its loop.  The latter is `JoinReturns` of
  `OsdThrasher`, which holds with a `timeout` in the config.  Without one the waits
  of `do_thrash` are endless, and the liveness results of both runs say nothing.  With
  `scrub_interval` the constructor of the `Scrubber` may keep it for ever, so that
  `TaskEnds` and `HelpersWindDown` are about configurations without it.
* `pool_manager`: a task that waits for the lock gets it (strong fairness), and what
  the thrasher does with the lock ends (weak fairness of `SetStep`).
  The only greenlet that takes the lock again and again is the thrasher, which sleeps
  `op_delay` between two actions.  Commands to the monitors run under `timeout 120`;
  `rados rmpool` and the test programs do not, and that they end is an assumption.
* `mds_thrasher`: daemons boot, dead ones are noticed, the task is stopped at
  some time, and the monitors serve a filesystem that keeps asking for a
  standby (strong fairness).  The other thrasher sleeps before each iteration,
  which gives the monitors' tick time to hand the standby out.  With weak fairness
  TLC finds the starvation in which one thrasher always gets the standby.
* `background_tasks`: each greenlet that can go on does.  A scrub may never happen, and
  the deadlines end the wait.  The waits for a healthy cluster have no deadline, which is
  why `JobEnds` has that premise.
* `scripted_tests`: the script goes on when it can (its I/O only when all OSDs it may be
  for run), running OSDs boot, dead ones are
  noticed unless a flag forbids it, running monitors elect, and new ones join.
  Whether an OSD that is down is marked out is left open, since the interval for it
  is longer than some waits and shorter than others.
* `nested_tasks` has safety properties only.
* `osd_thrasher_discontinuity` assumes a healthy cluster: running daemons boot and
  pgs recover.  The violation therefore is not the cluster's fault.

## 4. What is proved

`OsdThrasherProofs`, for every finite set of OSDs with
`|Osds| > max_dead + min_live` and `min_in > 0`.  The code checks neither; its
defaults (0, 2 and 3) satisfy both from three OSDs on.  `LiveDaemonsRun` alone is not
inductive: inside a call the books are off by one OSD.  `IndInv` adds `CallBooks`
(which OSD, in which call), `OutRoom` and `KillRoom` (the room the loops before
`test_map_discontinuity` have made for the kill and the out it does without
checking), and `Ended`.  From it follow `TypeOK`, `LiveDaemonsRun`,
`MapInIsListed`, `BooksAgree`, `LiveNeverEmpty`, `InNeverEmpty`, `AllUpAtEnd` and
the refinement `KeepsMembership`.

`MonThrasherProofs`, for every finite set of more than two monitors, with
`store_thrash` only together with `maintain_quorum`, as the task asserts.  `MonInv`
adds to the types where monitors are dead or frozen at each point (`Places`), who has
still to come back into a quorum at each point (`Rounds`) and the bound on kills
(`Bounded`).  The waits contribute nothing to `Rounds`, since any monitor may answer
them; the queries of all monitors do, as a monitor that tells a quorum has been in one
since its kill.  From `MonInv` follow `MonTypeOK`, `RoundsAreWhole`,
`LeavesMonsUp`, `KillsKeepMajority` (the arithmetic of `max_killable` for every
number of monitors) and `IntactMajority`.

`PgMoveProofs`, for all sets of OSDs, hosts and pgs.  `PgInv` says which files
exist at each point, what the two stores are known to hold, and that only the pg
on its way may be outside every store.  From it follow `PgTypeOK`, `PgSurvives`,
`NoFileLeft` and `ImportIsPossible`.

`TaskProofs`, first part: `ThrashOsds`, for every set of OSDs.  `FinishedIsClean` looks at the moment when
the task has joined everybody; `TaskInv` therefore says who has ended at each place of
the body (`JoinedHaveEnded`), and that what `do_thrash` and `do_noscrub_toggle` left
behind when they returned stays as it is (`DoneIsUp`, `DoneIsUnset`).  `FlagsFollowState`
is inductive beside it.

`TaskProofs`, second part: `NestedTasks`, for every job in `TidyJobs`, any number of
failures at any commands, and any `Uses` and `Within` in which a container is neither
stored in another one nor left on purpose (`Containers`).  The theorems have the form
`Spec /\ JobsAreTidy => []P`; that the nineteen jobs are tidy is what the run checks, so
for them two failures are no limit.  `ScopeCleansUp` looks at the end of the job only.
`NestedInv` says of everything that exists, at every moment, why it will be gone
(`Accounted`): its scope has failed; it is left on purpose; it is in a container
that exists; an open `finally` has still to come to the command that removes it, with
only commands of the same scope before that one, so that whatever cuts it short is a
failure of this scope; or its scope has the word until such a `finally` is open.  That a
removal behind a condition is not skipped needs `TiedExist` (what it looks at
exists as long as what it removes does), and that a command may make what another scope
has made needs `SureExist`.  `Places` ties the open `finally`s to `Stacks`, and
`OnCourse` the resources to `Reached` as long as nothing has failed.  From it follow
`ScopeCleansUp`, `FaultFreeIsClean` and the action property `DependentsFirst`.

`PoolManagerProofs`, for all sets of tasks and pools, any number of clients and every
`pool_grow_by`, from `PoolAssumption`: the names that `get_unique_pool_name` makes are
not those of pools that exist already.  `PoolInv` says who owns the lock, that names
from `next_pool_id` on are used nowhere, that no two tasks own a pool and a pool being
created is nobody's yet, that the pool the thrasher sets a size of is known until it
gives the lock back, which pools the dictionary has at each place of a task, and
how far a removal has come.  From it follow `TaskAssertionsHold`, `KnownPoolsExist`,
`SizesNotUnderstated` and `RadosLeavesNothing`.

`MdsThrasherProofs`, for every number of filesystems, ranks and daemons, every
`max_thrash` and all weights; as in the code, there is a daemon for each rank to
begin with, and at least two daemons.  A thrasher acts on a status it has read earlier.
`Claims` is what it still believes of daemons and their ranks; `MdsInv` says that each
belief is true, or its rank is gone, or the daemon has lost it (`ClaimsSound`), that two
beliefs that can lead to a revival are about two daemons (`ClaimsDiffer`), and that the
filesystem does not grow meanwhile (`NotGrowing`).  From it follow `DeadAreVictims`,
`VictimsDisjoint` and the action properties `KillsRankHolder` and `RevivedHoldsNoRank`.
`KillsRankHolder` holds for any number of ranks, with the exceptions of `Stale`.
`OneRank` says that a filesystem with one rank keeps it, which `KeepMaxMds` relies on.

`BackgroundTasksProofs`, for any pools and snapshot limits, any resend interval, any
configuration of the skew check, and any job that nests some of the three tasks around
one of the scrub tests (`JobsAssumption`).  `SnapInv` says which pools an operation has
reached.  `JoinInv` says that the greenlet of a task that was left is over and what it
raised is on its way.  For the tests, `Sound` names the step at which a test sees its pg
inconsistent for the last time (`TestsSound` gives it for each test).  `ScrubInv` says that
no repair was asked for before that step, that the scrub whose end let the test come to
it began after the last damage, and that from then on the flag stays until the damage is
gone; the last assertion of the test is then about a sound pg, whichever scrubs it took
for its own.  From the three follow `SnapsMatchPools`, `GreenletsEnd`, `FailuresSurface`
and `PassedTestsRepaired`.

`ScriptedTestsProofs`, for tests of any length on any finite set of OSDs that keep to
the discipline (`TestsAssumption`, which TLC evaluates for the twenty scripts of the
run).  `ScriptInv` says that everything the discipline reads off a script is true of the
processes and of the map, for every order in which the cluster notices deaths and boots
and marks OSDs out.  Its least obvious parts are `Tidy` (an OSD that was revived while the
map still had it up makes `wait_till_osd_is_up` return at once) and `ComesBack` (an OSD
that the monitors have marked out is in again when it boots, unless `noin` was set).  From
it follow `CommandsAnswered` (only an assertion about its data ends a test early) and the
action property `WaitsSeeKills`.

Types, the inductive invariants, `LiveNeverEmpty` and `InNeverEmpty` are in no run,
because they are proved.

Only model-checked:

* All liveness properties (`JoinReturns`, `HelpersWindDown`, `TaskEnds`, `TasksEnd`,
  `MonJoinReturns`, `MdsJoinReturns`, `JobEnds`, `ScriptEnds`): the prover does not reason
  about fairness and `ENABLED`.
* That a given job keeps to `TaskDiscipline` (`JobsAreTidy`), or a given script to
  `ScriptDiscipline` (`TestsAssumption`): a fact about that text, which TLC evaluates.

## 5. What else the code does that its documentation does not say

Seen while modelling, each visible in one definition and so not worth a run:

* `test_pool_min_size` raises at a log call with two arguments (line 532) and kills
  nothing; its docstring says "Kill and revive all osds except one."
* The waits of `do_thrash` use `config.get('timeout')`, `None` unless configured;
  `thrashosds.py` documents 360 seconds.
* `in_osd` revives a dead OSD without looking at `min_dead`.
* `max_pgs` is a list (line 126), so `max_pgs_per_pool_osd` limits nothing.
* `set_pool_property` returns normally on any error but `EAGAIN`.
* `mon_thrash`: `thrash_many` is read and not used; the store option is read as
  `store_thrash` and documented as `thrash_store`; the default of
  `freeze_mon_probability` is 10 in the code and 0 in the documentation.
* `mds_thrash`: `randrange(0.0, 1.0)` is always 0, so `thrash_max_mds` is always
  taken; the default weight is a string and compares above every number; the
  mdsmap's failed ranks are compared with a name.
* `mds_thrash`: a revived victim may be promoted into another filesystem before it
  is seen as a standby, and a victim's rank may be one that is being deactivated;
  the wait that follows has no timeout.  `MdsJoinReturns` names both.
* `mds_thrash`: a thrasher goes through the ranks of a status that it read earlier.  When a
  rank is deactivated meanwhile, its daemon may become a standby, get a rank of another
  filesystem, and be the victim of both thrashers.  `VictimsDisjoint` names the case.
* `mon_thrash`: "Always maintain quorum" (`mon_thrash.py:50`) holds for kills.
  `max_killable` does not count the monitors that are frozen.
* `mon_thrash` asks all monitors for their quorum after a wait that any one of them may
  answer: an election in between ends the thrasher with an assertion although nothing is
  wrong.
* `radosbench` removes one pool, the last of those it made for its clients (line 103);
  `RadosLeavesNothing` is about `rados`.

Background tasks:

* `do_pg_scrub` returns at the end of any scrub: one that was under way, one of the
  Scrubber, one left over from a request it sent again.  Its docstring
  (`zbkc_manager.py:1589`) says "Scrub pg and wait for scrubbing to finish".  The
  assertion that follows may fail although nothing is wrong; `PassedTestsRepaired` says
  that it does not hold too early.
* `scrub_test.py` asserts right after the repair that the pg is no longer inconsistent,
  where `repair_test.py` gives the flag time to go.
* `thrash_pool_snaps` has no `try`: after an exception in the body nobody stops or
  joins its greenlet.  `GreenletsEnd` names the case.

Tasks that do not clean up, or raise, without any failure.  The jobs of
`nested_tasks` avoid these configurations:

* `zbkc.py:399`, `use_existing_cluster`: `yield` without a `return`, so the set-up
  runs after the body, and the generator yields twice.
* `locktest.py:117`: `'{tdir}/locktest'` is not formatted; `rmdir` fails in every run.
* `cifs_mount` unmounts the last `mnt` once for each client (`nested_tasks_two_clients`).
* `restart.py` with two roles does not remove the sources of the first (line 161).
* `tgt` with two client hosts makes one image twice (line 30), before the `try`: the
  first host keeps its target.
* `rgw` with apache and several clusters: the second clean-up of the apache directories
  fails at what the first has removed.
* Two clients on one host: `s3tests`, `s3readwrite` and `s3roundtrip` clone into one
  directory twice; `qemu` with NFS images removes `/export` twice, with `rm -r`.
* `rest_api` never deletes the keyrings it writes ("5. Delete keyring value files.",
  line 101).
* `rbd_fio.py:155`: the output of the second `rbd map` is appended to that of the
  first, so the search finds the image's device again and fio never uses the clone's.
* `multibench.py:50` calls `time.sleep()` without an argument.
* `create_verify_lfn_objects`: the default prefix is `None` in the code (line 30) and
  `''` in its docstring (line 21), and `len(None)` raises.
* `zbkc_deploy.py:424`: `return` inside `finally` swallows the exception.
* `calamari_setup`: `undeploy_zbkc` computes `True & exitstatus`, which is false on
  success; the copied installer is never removed from its host.
* `workunit` leaves its scratch directories after a failure of its own, which
  `ScopeCleansUp` allows.

Scripted tests:

* `mon_recovery`: `rmons = mons; rmons.reverse()` reverses the one list there is, so
  "in forward and reverse order" (line 49) is twice the same order.
* `osd_backfill`: "re-add osd.0" (line 99) revives the OSD and never marks it in.
* `divergent_priors`, `divergent_priors2` and `reg11184` leave flags set;
  `object_source_down` and `resolve_stuck_peering` leave OSDs dead.
* `mon_seesaw`: `_prepare_mon` and `_run_daemon` have no `try`, so a failing test
  leaves the files and the daemon of the new monitor.
* A `tell` right after `revive_osd` may come before the OSD is up; of the tests that do
  this only `dump_stuck` tries again.
* `osd_recovery` kills `osd.2` (line 80) without marking it down;
  `wait_for_active_or_down` (line 91) may read the state before the kill unless a write
  had to wait for that OSD.

## 6. What could come next

`ScriptEnds` rests on a discipline similar to `ScriptDiscipline` (what is awaited was
brought about before), which could be stated in the same way; that it suffices is a
liveness property and out of the prover's reach.

## 7. Not modelled

`components` in `PROJECT.json` lists every part with its reason.  In short:

* Filesystem tests (`tasks/zbkcfs/`) and the operations of `filesystem.py` that only
  they use; `kill`, `kill_cleanup` and background processes of the mounts: each
  operation is one command, and the assertions are about MDS, manager and clients, so
  that a model would have to be one of those daemons.
* Objectstore tool tests (`zbkc_objectstore_tool.py`): compares contents of objects.
* Gateway administration tests (`radosgw_admin*.py`): straight-line scripts that
  assert things of the gateway.
* `rgw_logsocket`: the managers of `s3tests`, which are modelled, around a `netcat`.
* `radosbenchsweep`, `multibench`: loops over parameters of a program.
* `locktest`: there is no clean run of it (section 5).
* `die_on_err`, `teuthology_integration`, `buildpackages`, `vstart_runner.py`, helper
  functions of one command each, the unit tests: I/O, or pure functions.
* The YAML suites: data; they set the constants of the runs.
* Formatting, logging, command lines and the text of configuration files everywhere.
  Delays are left out: a sleep is a point where others run.

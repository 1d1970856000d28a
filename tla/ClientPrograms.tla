--------------------------- MODULE ClientPrograms ---------------------------
(***************************************************************************)
(* The file system clients and what runs on them: zbkc_fuse.py,            *)
(* kclient.py, samba.py, cifs_mount.py, workunit.py, cram.py, autotest.py, *)
(* admin_socket.py, restart.py and a few smaller tasks.  Each              *)
(* client has a host of its own; "mnt" is its directory {testdir}/mnt.{id}. *)
(***************************************************************************)
EXTENDS TaskCommands

ClientUses ==
    {"fuse", "kmnt", "cmnt_fuse", "smbd"} \X {"mon", "mds"}
    \cup {<<"fuse", "mnt">>, <<"kmnt", "mnt">>, <<"kmnt", "secret">>, <<"cifs", "mnt">>,
          <<"cifs", "smbd">>, <<"cmnt_fuse", "cmnt">>, <<"smbd", "smb_conf">>,
          <<"workdir", "mnt">>, <<"cram_test", "cram_dir">>, <<"watcher", "wpool">>,
          <<"watcher", "mon">>, <<"omapbench", "mon">>}

ClientWithin ==
    {"fs_workdir", "wpool", "lfn_object", "rbd_pool", "pools"} \X {"conf"}
    \cup {<<"secret", "data_dir">>, <<"idempotent", "data_dir">>, <<"admin_test", "admin_dir">>,
          <<"work_tmp", "mnt">>}

(* Directories under the archive.                                          *)
ClientLasting == {"autotest_results", "blktrace_dir"}

Fs == All({"mon", "mds"})

----------------------------------------------------------------------------
(* zbkcfs/fuse_mount.py and zbkcfs/kernel_mount.py                         *)

(* mkdir, then zbkc-fuse, which may fail and leave the directory.          *)
FuseMount_mount(c) == <<New(At({"mnt", "fuse"}, c))>>

FuseMount_wait_until_mounted(c) == <<Use(At({"fuse"}, c)), Use(At({"fuse"}, c))>>

(* umount (fusermount -u or, failing that, umount -l -f), the wait for the *)
(* daemon and cleanup (rmdir), any of which may fail after the one before. *)
FuseMount_umount_wait(c) == <<Remove(At({"fuse", "mnt"}, c))>>

KernelMount_mount(c) ==
    <<Put(At({"secret"}, c)), New(At({"mnt", "kmnt"}, c)), Use(At({"kmnt"}, c))>>

\* Mutant: the mount point stays.
KernelMount_umount_only(c) == <<Remove(At({"kmnt"}, c)), Use(At({"mnt"}, c))>>

KernelMount_umount(c) == <<Remove(At({"kmnt", "mnt"}, c))>>

(* if mount.is_mounted(): ...  A directory with nothing mounted on it is   *)
(* left alone.                                                             *)
IfMounted(kind, c, cmds) == [i \in DOMAIN cmds |-> If(cmds[i], At({kind}, c))]

\* Mutant: the `finally` unmounts the client the loop ended with.
zbkc_fuse_last(clients, others) ==
    Manager("zbkc_fuse",
            ForEach(clients, FuseMount_mount) \o ForEach(clients, FuseMount_wait_until_mounted),
            IF clients = <<>> THEN <<>> ELSE FuseMount_umount_wait(clients[Len(clients)]))

(* zbkc_fuse.py: the clients to mount, and those that an outer task has    *)
(* mounted and this one is to unmount.                                     *)
zbkc_fuse(clients, others) ==
    Manager("zbkc_fuse",
            ForEach(clients, FuseMount_mount) \o ForEach(clients, FuseMount_wait_until_mounted)
            \o ForEach(others, LAMBDA c : IfMounted("fuse", c, FuseMount_umount_wait(c))),
            ForEach(clients, LAMBDA c : IfMounted("fuse", c, FuseMount_umount_wait(c))))

kclient(clients) ==
    Manager("kclient", ForEach(clients, KernelMount_mount),
            ForEach(clients, LAMBDA c : IfMounted("kmnt", c, KernelMount_umount(c))))

(* ZbkcFSMount.mounted(), for the FUSE client.                             *)
mounted(c) ==
    Manager("mounted", FuseMount_mount(c) \o FuseMount_wait_until_mounted(c),
                       FuseMount_umount_wait(c))

----------------------------------------------------------------------------
(* samba.py and cifs_mount.py                                              *)

\* Mutant: the configuration is removed before the daemons are stopped.
samba_conf_first(servers) ==
    Manager("samba",
            ForEach(servers, LAMBDA s : <<Put(At({"smb_conf"}, s)), Put(At({"smbd"}, s))>>),
            <<Drop(AtEach({"smb_conf"}, servers)), Drop(AtEach({"smbd"}, servers))>>)

(* The first server mounts the file system for a moment to set the rights  *)
(* on its root.  All the daemons are stopped before an exception of one of *)
(* them is raised.                                                         *)
samba(servers) ==
    Manager("samba",
            ForEach(servers, LAMBDA s :
               (IF s = servers[1]
                THEN <<Put(At({"cmnt"}, s)), Put(At({"cmnt_fuse"}, s)), Use(At({"cmnt_fuse"}, s)),
                       Remove(At({"cmnt_fuse"}, s)), Drop(At({"cmnt"}, s))>>
                ELSE <<Use({})>>)
               \o <<Put(At({"smb_conf"}, s)), Use({}), Put(At({"smbd"}, s))>>),
            <<Drop(AtEach({"smbd"}, servers))>>
            \o ForEach(servers, LAMBDA s : <<Drop(At({"smb_conf"}, s)), Quiet(Drop(At({"smbd"}, s))),
                                             Quiet(Use({}))>>))

(* The `finally` uses `mnt`, which the loop has left at the last client's, *)
(* on the host of every client.                                            *)
AtLast(kind, clients, c) == {<<IF c = clients[Len(clients)] THEN kind ELSE "nothing", c>>}

cifs_mount(clients) ==
    Manager("cifs_mount",
            ForEach(clients, LAMBDA c : <<New(At({"mnt"}, c)), New(At({"cifs"}, c)),
                                          Use(At({"cifs"}, c))>>),
            ForEach(clients, LAMBDA c : <<Remove(AtLast("cifs", clients, c))>>)
            \o ForEach(clients, LAMBDA c : <<Quiet(Remove(AtLast("mnt", clients, c)))>>))

----------------------------------------------------------------------------
(* workunit.py: a plain function.                                          *)

(* "made_mnt" is the value of created_mountpoint: this task has made the   *)
(* client's directory, because no file system is mounted there.            *)
_make_scratch_dir(c) ==
    <<IfNot(New(At({"mnt", "made_mnt"}, c)), At({"mnt"}, c)),
      If(New(At({"workdir"}, c)), At({"made_mnt"}, c)),
      IfNot(With(Put(At({"fs_workdir"}, c)), At({"mnt"}, c)), At({"made_mnt"}, c))>>

_delete_dir(c) ==
    <<Drop(At({"workdir", "fs_workdir"}, c)),
      If(Remove(At({"mnt", "made_mnt"}, c)), At({"made_mnt"}, c))>>

(* In parallel on all clients.                                             *)
workunit_run_tests(clients) ==
    Function("workunit",
             <<Put(AtEach({"work_clone", "work_src"}, clients)), Put(AtEach({"work_list"}, clients))>>,
             <<Use(AtEach({"work_list"}, clients)), Put(AtEach({"work_tmp"}, clients)),
               Use(AtEach({"work_src", "work_tmp"}, clients)), Drop(AtEach({"work_tmp"}, clients))>>,
             <<Drop(AtEach({"work_list", "work_src", "work_clone"}, clients))>>)

_spawn_on_all_clients(clients) ==
    In("workunit", ForEach(clients, _make_scratch_dir)) \o workunit_run_tests(clients)
    \o In("workunit", ForEach(clients, _delete_dir))

(* First the units of single clients, then those of all clients.           *)
workunit(some, all) ==
    In("workunit", ForEach(some, _make_scratch_dir)) \o workunit_run_tests(some)
    \o In("workunit", ForEach(some, _delete_dir)) \o _spawn_on_all_clients(all)

----------------------------------------------------------------------------
(* cram.py; the files of failed tests, which it keeps, are left out.       *)

cram_run_tests(clients) == <<Use(AtEach({"virtualenv", "cram_test"}, clients))>>

cram(clients) ==
    Guarded("cram",
            ForEach(clients, LAMBDA c : <<New(At({"cram_dir"}, c)), Put(At({"virtualenv"}, c)),
                                          Put(At({"cram_test"}, c))>>)
            \o cram_run_tests(clients),
            ForEach(clients, LAMBDA c : <<Drop(At({"cram_test"}, c)), Drop(At({"virtualenv"}, c)),
                                          Remove(At({"cram_dir"}, c))>>))
    \o Close

(* autotest.py, on mounted clients, in parallel.                           *)
autotest_download(clients) ==
    <<New(AtEach({"autotest_results"}, clients)), New(AtEach({"autotest"}, clients))>>

autotest_run_tests(clients) ==
    <<Put(AtEach({"control"}, clients)), Use(AtEach({"autotest", "control"}, clients)),
      Drop(AtEach({"control"}, clients)), Use(AtEach({"autotest_results"}, clients)),
      Drop(AtEach({"autotest"}, clients))>>

autotest(clients) ==
    In("autotest",
       autotest_download(clients)
       \o ForEach(clients, LAMBDA c : <<With(Put(At({"fs_workdir"}, c)), At({"mnt"}, c))>>)
       \o autotest_run_tests(clients))

----------------------------------------------------------------------------
(* Smaller tasks.                                                          *)

(* blktrace.py: `cd dir; blktrace` does not wait for the directory.        *)
blktrace_setup(osds) == In("blktrace", ForEach(osds, LAMBDA o : <<Quiet(Put(At({"blktrace_dir"}, o)))>>))

blktrace_execute(osds) ==
    Manager("blktrace_execute", ForEach(osds, LAMBDA o : <<Put(At({"blktrace"}, o))>>),
                                ForEach(osds, LAMBDA o : <<Drop(At({"blktrace"}, o))>>))

blktrace_task(osds) == blktrace_setup(osds) \o blktrace_execute(osds)

(* admin_socket.py, in parallel on clients with a running daemon.          *)
_socket_command(clients) == <<Use(AtEach({"fuse"}, clients))>>

admin_socket(clients) ==
    Guarded("admin_socket",
            <<New(AtEach({"admin_dir"}, clients)), Use(AtEach({"fuse"}, clients)),
              Put(AtEach({"admin_test"}, clients))>>
            \o _socket_command(clients) \o <<Use(AtEach({"admin_test"}, clients))>>,
            <<Drop(AtEach({"admin_dir"}, clients))>>)
    \o Close

(* restart.py.  The `finally` knows the directory and the host of the role *)
(* that was last set up; if the first get_tests raises, it knows neither.  *)
restart_get_tests(c) == <<New(At({"restart_src"}, c)), Put(At({"restart_list"}, c))>>

(* The script asks for a restart when the daemon has died of itself.       *)
restart_daemon(daemon) == <<[Put({daemon}) EXCEPT !.drops = {daemon}]>>

restart_task(roles, daemon) ==
    Manager("restart_task", restart_get_tests(roles[1]),
            <<Drop(At({"restart_list", "restart_src"}, roles[Len(roles)]))>>)
    \o In("restart_task",
          ForEach(roles, LAMBDA c :
             (IF c = roles[1] THEN <<>> ELSE restart_get_tests(c))
             \o <<Use(At({"restart_src"}, c))>> \o restart_daemon(daemon)
             \o <<Use(At({"restart_src"}, c))>>))
    \o Close

filestore_idempotent(c) ==
    Guarded("filestore_idempotent",
            <<New(At({"idempotent"}, c)), Use(At({"idempotent"}, c)), Use(At({"idempotent"}, c))>>,
            <<Drop(At({"idempotent"}, c))>>)
    \o Close

(* aver.py, on the host that runs the job.                                 *)
aver == Manager("aver", <<Put(All({"aver_tbz"})), Put(All({"aver"})), Use(All({"aver"}))>>,
                        <<Remove(All({"aver", "aver_tbz"}))>>)

(* Benchmarks: started on entry, waited for on exit.                       *)
omapbench(clients) ==
    Manager("omapbench", ForEach(clients, LAMBDA c : <<Put(At({"omapbench"}, c))>>),
                         <<Drop(AtEach({"omapbench"}, clients))>>)

watch_notify_stress(clients) ==
    Manager("watch_notify_stress", ForEach(clients, LAMBDA c : <<Put(At({"watch_stress"}, c))>>),
                                   ForEach(clients, LAMBDA c : <<Drop(At({"watch_stress"}, c))>>))

(* Two of its twenty watchers.  OSD 0 dies and comes back.                 *)
watch_notify_same_primary(c, osd0) ==
    Manager("watch_notify_same_primary",
            <<Use(Fs), Put(At({"wpool"}, c)), Use(At({"wpool"}, c)), Put(At({"watcher"}, c)),
              Use(At({"watcher"}, c)), Use(At({"watcher"}, c)), Drop({osd0}), Use(At({"watcher"}, c))>>,
            <<Drop(At({"watcher"}, c)), Use({}), By("osd", Put({osd0})), Remove(At({"wpool"}, c))>>)

populate_rbd_pool(c) ==
    In("populate_rbd_pool", <<Put(At({"rbd_pool"}, c)), Use(At({"rbd_pool"}, c)),
                              Use(At({"rbd_pool"}, c))>>)

manypools(clients) == In("manypools", <<Put(AtEach({"pools"}, clients))>>)

create_verify_lfn_objects ==
    Manager("create_verify_lfn_objects", <<Put(All({"lfn_object"}))>>,
            <<Use(All({"lfn_object"})), Remove(All({"lfn_object"})), Use({})>>)

(* The MDS is stopped, crashes while it creates the file system, and comes *)
(* back.                                                                   *)
mds_creation_failure ==
    In("mds_creation_failure",
       <<Use(Fs), Drop(All({"mds"})), Use(All({"mon"})), By("mds", Put(All({"mds"}))),
         Drop(All({"mds"})), Use({}), Use(All({"mon"})), By("mds", Put(All({"mds"}))), Use(Fs)>>)

=============================================================================

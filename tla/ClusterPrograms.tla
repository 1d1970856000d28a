-------------------------- MODULE ClusterPrograms --------------------------
(***************************************************************************)
(* The zbkc task: what src/tasks/zbkc.py does on the hosts to create a     *)
(* cluster, start its daemons, and take all of it down again.              *)
(***************************************************************************)
EXTENDS TaskCommands

Osds == <<"o0", "o1">>

(* A daemon lives on its configuration and its data; the client kinds that *)
(* need daemons are listed with their own programs.                        *)
ClusterUses ==
    {"mon", "mgr", "osd", "mds"} \X {"conf", "keyring"}
    \cup {<<"rotater", "rotate_conf">>, <<"mon", "mon_store">>, <<"mgr", "mgr_key">>,
          <<"mds", "mds_key">>, <<"osd_fs", "osd_dir">>, <<"osd", "osd_store">>,
          <<"osd", "osd_fs">>}

(* What a job stores in the cluster goes with the cluster, for which its   *)
(* configuration stands.                                                   *)
ClusterWithin == {<<"osd_store", "osd_fs">>, <<"journal", "tmpfs">>, <<"fs", "conf">>}

(* Log directories, and what lies under /var/lib/zbkc, /var/run/zbkc and   *)
(* the per-client keyrings, go when the packages are purged.               *)
ClusterLasting == {"log_dirs", "run_dir", "osd_dir", "mgr_key", "mds_key",
                   "client_key", "mon_store"}

zbkc_log(rotate) ==
    Manager("zbkc_log",
       <<Use({}), Put(All({"log_dirs"}))>>
       \o IF rotate THEN <<Put(All({"rotate_conf"})), Put(All({"rotater"}))>> ELSE <<>>,
       (IF rotate THEN <<Drop(All({"rotater"})), Remove(All({"rotate_conf"}))>> ELSE <<>>)
       \o <<Use(All({"log_dirs"}))>>)

valgrind_post == Guarded("valgrind_post", <<>>, <<Quiet(Use({})), Use({})>>)

crush_setup == In("crush_setup", <<Use(All({"mon"}))>>)

zbkcfs_setup ==
    In("zbkcfs_setup", <<Put(All({"fs"})), Quiet(Use(All({"mon"}))), Use(All({"mon", "fs"})),
                         Quiet(Use(All({"mon"})))>>)

(* The part of cluster() above its `try`: directories and journals, ...    *)
cluster_dirs(tmpfs) ==
    <<Put(All({"data_dir"})), Put(All({"run_dir"}))>>
    \o IF tmpfs THEN <<Put(All({"tmpfs"})), Put(AtEach({"journal"}, Osds))>> ELSE <<>>

(* ... the first monitor's keyring, the monmap and the configuration,      *)
(* copied to all hosts ("rest" stands for those without a monitor), ...    *)
cluster_conf ==
    <<Put(All({"keyring"})), Use(All({"keyring"})), Put({<<"monmap", "mons">>}),
      Put(All({"conf"})), Use(All({"keyring"})),
      With(Put({<<"monmap", "rest">>}), {<<"keyring", "all">>, <<"monmap", "mons">>}),
      With(Put({<<"osdmap", "mons">>}), All({"conf"}))>>

(* ... the daemons' and the clients' keys, ...                             *)
cluster_keys ==
    <<Put(All({"mgr_key"})), Put(All({"mds_key"})), Put(All({"client_key"}))>>

(* ... a file system and an object store for each OSD (of the two attempts *)
(* at mkfs only the second one's failure counts), ...                      *)
cluster_osds ==
    ForEach(Osds, LAMBDA o : <<Put(At({"osd_dir"}, o)), Use({}), New(At({"osd_fs"}, o)),
                               Quiet(Use(At({"osd_fs"}, o)))>>)
    \o ForEach(Osds, LAMBDA o : <<With(Put(At({"osd_store"}, o)), {<<"monmap", "rest">>})>>)

(* ... and the monitors' stores, made from all the keys.                   *)
cluster_mons ==
    <<Use(AtEach({"osd_store"}, Osds) \cup All({"mgr_key", "mds_key", "client_key"})),
      Use(All({"keyring"})), Use(All({"keyring"})),
      With(Put(All({"mon_store"})),
           {<<"monmap", "mons">>, <<"osdmap", "mons">>, <<"keyring", "all">>}),
      Remove({<<"monmap", "mons">>, <<"osdmap", "mons">>})>>

cluster_exit(tmpfs) ==
    <<Use({})>>
    \o ForEach(Osds, LAMBDA o : <<Remove(At({"osd_fs"}, o))>>)
    \o (IF tmpfs THEN <<Quiet(Remove(All({"tmpfs"})))>> ELSE <<>>)
    \o <<Use(All({"mon_store"})),
         Drop({"monmap", "osdmap"} \X {"mons", "rest"} \cup All({"conf", "keyring", "data_dir"}))>>

cluster(tmpfs) ==
    Manager("cluster",
            cluster_dirs(tmpfs) \o cluster_conf \o cluster_keys \o cluster_osds \o cluster_mons,
            cluster_exit(tmpfs))

run_daemon(type, places) ==
    Manager(type, ForEach(places, LAMBDA p : <<Put(At({type}, p))>>),
                  <<Drop(AtEach({type}, places))>>)

Daemons == All({"mon", "mgr", "mds"}) \cup AtEach({"osd"}, Osds)

healthy == <<Use(All({"mon"}) \cup AtEach({"osd"}, Osds)), Use(Daemons)>>

osd_scrub_pgs == <<Use(All({"mon"})), Use(All({"mon"})), Use(All({"mon"}))>>

zbkc_task(rotate, tmpfs) ==
    zbkc_log(rotate) \o valgrind_post \o cluster(tmpfs)
    \o run_daemon("mon", <<"all">>) \o run_daemon("mgr", <<"all">>) \o crush_setup
    \o run_daemon("osd", Osds) \o zbkcfs_setup \o run_daemon("mds", <<"all">>)
    \o Guarded("zbkc", healthy, osd_scrub_pgs)

(* The zbkc task as the other tasks see it: up before they start, and down *)
(* after they are left.                                                    *)
ZbkcUp ==
    Manager("cluster",
            ForEach(<<"data_dir", "conf", "keyring", "mon_store", "mgr_key", "mds_key", "client_key",
                      "osd_dir", "osd_fs", "osd_store">>, LAMBDA k : <<Put(All({k}))>>),
            <<Drop(All({"osd_fs"})), Drop(All({"conf", "keyring", "data_dir"}))>>)
    \o Manager("daemons",
               ForEach(<<"mon", "mgr", "osd", "mds">>, LAMBDA k : <<Put(All({k}))>>),
               ForEach(<<"mds", "osd", "mgr", "mon">>, LAMBDA k : <<Drop(All({k}))>>))

(* zbkc.restart, zbkc.stop and zbkc.wait_for_failure yield with nothing to *)
(* undo: the daemons still belong to run_daemon.                           *)
restart(daemons) ==
    In("restart", ForEach(daemons, LAMBDA d : <<[Put({d}) EXCEPT !.drops = {d}]>>)
                  \o healthy \o <<Use(All({"mon"}))>>)

stop(daemons) == In("stop", ForEach(daemons, LAMBDA d : <<Drop({d})>>))

(* Waits until the daemons have died by themselves, and raises if one of   *)
(* them ended with status 0.                                               *)
wait_for_failure(daemons) ==
    In("wait_for_failure", ForEach(daemons, LAMBDA d : <<Use({d}), Drop({d})>>))

(* The waits with a timeout that restart is given by its configuration.    *)
wait_for_osds_up == In("restart", <<Use(All({"mon"}) \cup AtEach({"osd"}, Osds))>>)
wait_for_mon_quorum == In("wait_for_mon_quorum", <<Use(All({"mon"}))>>)

=============================================================================

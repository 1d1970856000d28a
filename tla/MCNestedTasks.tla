--------------------------- MODULE MCNestedTasks ---------------------------
EXTENDS TaskDiscipline, ClusterPrograms, BlockPrograms, GatewayPrograms, ClientPrograms,
        DeployPrograms

MCUses == ClusterUses \cup BlockUses \cup GatewayUses \cup ClientUses \cup DeployUses
MCWithin == ClusterWithin \cup BlockWithin \cup GatewayWithin \cup ClientWithin \cup DeployWithin
MCLasting == ClusterLasting \cup BlockLasting \cup GatewayLasting \cup ClientLasting \cup DeployLasting

MCJobs == {"cluster", "restart", "rbd", "xfstests", "qemu", "rbd_fio", "tgt", "rgw_apache",
           "rgw_multi", "rgw_s3", "rest_api", "fuse", "kclient", "samba", "small", "deploy",
           "deploy_cli", "calamari", "devstack"}

MCCode ==
    LET Clients == <<"c0", "c1">> IN
    [cluster |-> zbkc_task(TRUE, TRUE),
     restart |-> zbkc_task(FALSE, FALSE) \o restart(<<<<"osd", "o0">>, <<"mds", "all">>>>)
                 \o wait_for_osds_up \o wait_for_mon_quorum
                 \o wait_for_failure(<<<<"mds", "all">>>>) \o stop(<<<<"osd", "o1">>>>),
     rbd |-> ZbkcUp \o rbd_task(Clients),
     xfstests |-> ZbkcUp \o xfstests(Clients),
     qemu |-> ZbkcUp \o qemu_task(Clients),
     rbd_fio |-> ZbkcUp \o RBDMirror("c0") \o rbd_fsx_run_one_client \o run_fio("c0"),
     tgt |-> ZbkcUp \o start_tgt_remotes(<<"c0">>),
     rgw_apache |-> ZbkcUp \o rgw_single(TRUE, Clients) \o s3tests_task(Clients, <<>>),
     rgw_multi |-> ZbkcUp \o rgw_multi(FALSE, "c0", <<"c1">>)
                   \o radosgw_agent_task(Clients) \o s3tests_task(Clients, Clients),
     rgw_s3 |-> ZbkcUp \o rgw_single(FALSE, Clients) \o s3readwrite_task(Clients)
                \o s3roundtrip_task(Clients),
     rest_api |-> ZbkcUp \o rest_api_task(Clients),
     fuse |-> ZbkcUp \o zbkc_fuse(Clients, <<>>) \o workunit(<<"c0">>, Clients) \o cram(Clients)
              \o admin_socket(Clients) \o autotest(Clients) \o zbkc_fuse(<<>>, Clients),
     kclient |-> ZbkcUp \o filestore_idempotent("c0") \o kclient(<<"c0">>) \o aver
                 \o workunit(Clients, <<>>),
     samba |-> ZbkcUp \o samba(<<"all">>) \o cifs_mount(<<"c0">>) \o omapbench(Clients)
               \o watch_notify_stress(Clients),
     small |-> zbkc_task(FALSE, FALSE) \o mds_creation_failure
               \o restart_task(<<"c0">>, <<"mds", "all">>) \o blktrace_task(<<"o0", "o1">>)
               \o populate_rbd_pool("c0") \o manypools(Clients) \o create_verify_lfn_objects
               \o watch_notify_same_primary("c0", <<"osd", "o0">>) \o mounted("c0"),
     deploy |-> zbkc_deploy_task(<<"o0", "o1">>, Clients) \o systemd(<<"o0", "o1">>),
     deploy_cli |-> single_node_test(<<"o0", "o1">>),
     calamari |-> calamari_setup("c0", Clients, <<"o0", "o1">>) \o calamari_nosetests("c0"),
     devstack |-> ZbkcUp \o devstack_task("c0") \o devstack_exercise("c0")]

(* Jobs whose loops go wrong at the second client, host or role.           *)
MCTwoClients ==
    LET Clients == <<"c0", "c1">> IN
    [cifs |-> ZbkcUp \o samba(<<"all">>) \o cifs_mount(Clients),
     restart |-> ZbkcUp \o restart_task(Clients, <<"mds", "all">>),
     tgt |-> ZbkcUp \o start_tgt_remotes(Clients),
     rgw |-> ZbkcUp \o rgw_multi(TRUE, "c0", <<"c1">>)]

=============================================================================

--------------------------- MODULE DeployPrograms ---------------------------
(***************************************************************************)
(* Tasks that install software rather than run what is installed:          *)
(* zbkc_deploy.py, systemd.py, calamari_setup.py, calamari_nosetests.py    *)
(* and devstack.py.  The daemons that zbkc-deploy starts ("dmon", "dosd",  *)
(* ...) are services of their hosts and not children of the job.           *)
(***************************************************************************)
EXTENDS TaskCommands

DeployUses ==
    {"dmon", "dosd", "dmds", "drgw"} \X {"packages"}
    \cup {<<"dosd", "dosd_mnt">>, <<"cd_conf", "cdtest">>, <<"info_yaml", "calamari">>,
          <<"test_conf", "calamari">>, <<"develop", "calamari">>, <<"ice_mnt", "iceball">>,
          <<"stack", "devstack_src">>}

DeployWithin ==
    {<<"deploy_conf", "deploy_src">>, <<"deploy_keys", "deploy_src">>, <<"dfs", "packages">>,
     <<"cd_conf", "cdtest">>, <<"info_yaml", "calamari">>, <<"test_conf", "calamari">>,
     <<"volumes", "conf">>, <<"os_user", "conf">>, <<"volume", "conf">>}

(* The archive; the copy of the image on the Calamari server and what it   *)
(* installed; all of DevStack ("typically you will want to reprovision     *)
(* that machine after using devstack on it").                              *)
DeployLasting == {"archive_data", "archive_logs", "iceball", "ice_setup", "calamari_server",
                  "devstack_src", "stack", "os_conf", "os_key", "libvirt_secret"}

----------------------------------------------------------------------------
(* zbkc_deploy.py                                                          *)

(* Of the runner's install task.                                           *)
ship_utilities == Manager("ship_utilities", <<Put(All({"utilities"}))>>, <<Drop(All({"utilities"}))>>)

download_zbkc_deploy ==
    Manager("download_zbkc_deploy",
            <<Use({}), New(All({"deploy_src"})), Use(All({"deploy_src"}))>>,
            <<Drop(All({"deploy_src"}))>>)

is_healthy(osds) == <<Use(All({"dmon"}) \cup AtEach({"dosd"}, osds))>>

(* new, install, mon create-initial (which may fail), gatherkeys, mds and  *)
(* osd create, then the keys of the clients and the file system.           *)
build_enter(osds, clients) ==
    <<With(Put(All({"deploy_conf"})), All({"deploy_src"})), Use(All({"deploy_conf"})),
      Put(All({"packages"})), Use(All({"packages"})), Quiet(Put(All({"dmon"}))),
      With(Put(All({"deploy_keys"})), All({"dmon"})), Put(All({"dmds"}))>>
    \o ForEach(osds, LAMBDA o : <<Use({}), Put(At({"dosd_mnt", "dosd"}, o))>>)
    \o is_healthy(osds)
    \o ForEach(clients, LAMBDA c : <<Use(All({"dmon"})), Put(At({"dclient"}, c))>>)
    \o <<With(Put(All({"dfs"})), All({"dmon", "dmds"}))>>

Deployed(osds) == All({"dmon", "dmds"}) \cup AtEach({"dosd"}, osds)

(* Stop what the packages have installed, archive, and purge: zbkc-deploy  *)
(* runs with check_status=False here, and nobody looks at its exit status. *)
build_exit(osds, clients) ==
    <<With(Drop(Deployed(osds)), All({"packages"})), Quiet(Use({})), Quiet(Use({})),
      New(All({"archive_data"})), Use({}), Use({}), New(All({"archive_logs"})), Use({}),
      Quiet(Drop(All({"packages"}))),
      Quiet(Drop(AtEach({"dosd_mnt"}, osds) \cup AtEach({"dclient"}, clients)))>>

build_zbkc_cluster(osds, clients) ==
    Guarded("build_zbkc_cluster", build_enter(osds, clients), build_exit(osds, clients))

(* The three devices of the single node; every zbkc-deploy command raises. *)
cli_test(devs) ==
    Manager("cli_test",
            <<Quiet(New(All({"cdtest"}))), Put(All({"cd_conf"})), Use(All({"cd_conf"})),
              Put(All({"packages"})), Use(All({"packages"})), Use(All({"packages"})),
              Put(All({"dmon"}))>>
            \o ForEach(devs, LAMBDA d : <<Use({}), Put(At({"dosd_mnt", "dosd"}, d))>>)
            \o <<Use(All({"cdtest"})), Quiet(Use({}))>> \o is_healthy(devs)
            \o <<Use(All({"packages"})), Put(All({"drgw"}))>>,
            <<Quiet(Drop(All({"dmon", "drgw"}) \cup AtEach({"dosd"}, devs)))>>
            \o ForEach(devs, LAMBDA d : <<Remove(At({"dosd_mnt"}, d))>>)
            \o <<Drop(All({"packages"})), Use({}), Quiet(Drop(All({"cdtest"})))>>)

single_node_test(devs) == ship_utilities \o download_zbkc_deploy \o cli_test(devs)

zbkc_deploy_task(osds, clients) ==
    ship_utilities \o download_zbkc_deploy \o build_zbkc_cluster(osds, clients)

(* systemd.py: stop and start everything, then single services.            *)
Restarted(d) == <<Use({d}), Drop({d}), Quiet(Use({})), By("build_zbkc_cluster", Put({d}))>>

systemd(osds) ==
    In("systemd",
       <<Use({}), Quiet(Use({})), Drop(Deployed(osds)), Quiet(Use({})), Use({})>>
       \o <<By("build_zbkc_cluster", Put(Deployed(osds)))>>
       \o <<Use({}), Use({})>>
       \o Restarted(<<"dosd", osds[1]>>) \o Restarted(<<"dmon", "all">>)
       \o Restarted(<<"dmds", "all">>))

----------------------------------------------------------------------------
(* calamari_setup.py                                                       *)

fix_yum_repos(h) == <<Use({}), New(At({"repos_old"}, h)), Use(At({"repos_old"}, h)), Use({}), Use({})>>

restore_yum_repos(h) == <<Use({}), Remove(At({"repos_old"}, h))>>

adjust_yum_repos(hosts) ==
    Manager("adjust_yum_repos", ForEach(hosts, fix_yum_repos), ForEach(hosts, restore_yum_repos))

get_iceball_with_http == <<Use({}), Put(All({"local_iceball"}))>>

(* From an ISO image that is fetched with HTTP.                            *)
calamari_install(svr) ==
    Manager("calamari_install",
            get_iceball_with_http
            \o <<With(Put(At({"iceball"}, svr)), All({"local_iceball"})), New(At({"ice_mnt"}, svr)),
                 With(Put(At({"ice_setup"}, svr)), At({"ice_mnt"}, svr)), Use(At({"ice_setup"}, svr)),
                 Put(At({"calamari_server"}, svr))>>,
            <<Remove(At({"ice_mnt"}, svr)), Remove(All({"local_iceball"}))>>)

deploy_zbkc(osds) ==
    <<Quiet(Use({})), Put(All({"deployed"})), Put(All({"packages"})), Put(All({"dmon"}))>>
    \o ForEach(osds, LAMBDA o : <<Use({})>>)
    \o ForEach(osds, LAMBDA o : <<Put(At({"dosd_mnt"}, o))>>)
    \o ForEach(osds, LAMBDA o : <<Put(At({"dosd"}, o))>>)

undeploy_zbkc(hosts, osds) ==
    ForEach(hosts, LAMBDA h : <<With(Drop(All({"dmon"}) \cup AtEach({"dosd"}, osds)),
                                     All({"packages"}))>>)
    \o <<Drop(All({"packages"})), Drop(AtEach({"dosd_mnt"}, osds) \cup All({"deployed"}))>>
    \o ForEach(hosts, LAMBDA h : <<Use({})>>)

zbkc_install(hosts, osds) ==
    Manager("zbkc_install", deploy_zbkc(osds), undeploy_zbkc(hosts, osds))

remove_epel(hosts) == In("remove_epel", ForEach(hosts, LAMBDA h : <<Use({})>>))

calamari_connect == Manager("calamari_connect", <<Use(All({"dmon"}))>>, <<>>)

calamari_setup(svr, hosts, osds) ==
    adjust_yum_repos(hosts) \o calamari_install(svr) \o zbkc_install(hosts, osds)
    \o remove_epel(hosts) \o calamari_connect

----------------------------------------------------------------------------
(* calamari_nosetests.py, on an RPM host.  Each manager begins with `try`. *)

install_epel(c) ==
    Guarded("install_epel", <<Put(At({"epel_repo"}, c)), Use({})>>, <<Remove(At({"epel_repo"}, c))>>)

install_extra_pkgs(c) ==
    Guarded("install_extra_pkgs", <<Put(At({"git"}, c))>>, <<Drop(At({"git"}, c))>>)

clone_calamari(c) ==
    Guarded("clone_calamari", <<Use(At({"git"}, c)), New(At({"calamari"}, c))>>,
                              <<Drop(At({"calamari"}, c))>>)

write_info_yaml(c) ==
    Guarded("write_info_yaml", <<Put(At({"info_yaml"}, c))>>, <<Remove(At({"info_yaml"}, c))>>)

write_test_conf(c) ==
    Guarded("write_test_conf", <<Put(At({"test_conf"}, c))>>, <<Remove(At({"test_conf"}, c))>>)

enable_epel(c) == <<Use(At({"epel_repo"}, c)), Use({})>>

prepare_nosetest_env(c) ==
    Guarded("prepare_nosetest_env",
            enable_epel(c) \o <<Put(At({"nosetest_pkgs"}, c))>> \o enable_epel(c)
            \o <<With(Put(At({"nose"}, c)), At({"calamari_server"}, c)),
                 With(Put(At({"requests"}, c)), At({"calamari_server"}, c)),
                 Put(At({"develop"}, c)), Use(At({"calamari"}, c)),
                 Use(At({"calamari_server"}, c)), Use(At({"calamari_server"}, c))>>,
            <<With(Drop(At({"develop"}, c)), At({"calamari_server"}, c)), Remove(At({"nose"}, c)),
              Remove(At({"requests"}, c)), Drop(At({"nosetest_pkgs"}, c))>>)

run_nosetests(c) ==
    In("run_nosetests", <<Use(At({"calamari", "info_yaml", "test_conf", "nose", "develop"}, c))>>)

calamari_nosetests(c) ==
    install_epel(c) \o install_extra_pkgs(c) \o clone_calamari(c) \o write_info_yaml(c)
    \o write_test_conf(c) \o prepare_nosetest_env(c) \o run_nosetests(c)

----------------------------------------------------------------------------
(* devstack.py                                                             *)

install_devstack(d) ==
    <<New(At({"devstack_src"}, d)), Use(At({"devstack_src"}, d)), Put(At({"stack"}, d))>>

create_pools == <<With(Put(All({"volumes"})), All({"mon"}))>>

distribute_zbkc_conf(d) == <<With(Put(At({"os_conf"}, d)), All({"conf"}))>>

generate_zbkc_keys == <<With(Put(All({"os_user"})), All({"mon"}))>>

distribute_zbkc_keys(d) == <<With(Put(At({"os_key"}, d)), All({"os_user"}))>>

set_libvirt_secret(d) ==
    <<Use(All({"os_user"})), Use({}), Put(At({"libvirt_secret"}, d)), Use(At({"libvirt_secret"}, d))>>

update_devstack_config_files(d) == <<Use(At({"stack"}, d)), Use(At({"stack"}, d)), Use({})>>

(* The configuration, Apache's name, a reboot, and the services again.     *)
configure_devstack_and_zbkc(d) ==
    create_pools \o distribute_zbkc_conf(d) \o generate_zbkc_keys \o distribute_zbkc_keys(d)
    \o set_libvirt_secret(d) \o update_devstack_config_files(d)
    \o <<Use({}), Drop(At({"stack"}, d)), Use(At({"devstack_src"}, d)), Put(At({"stack"}, d)), Use({})>>

devstack_install(d) == In("devstack_install", install_devstack(d) \o configure_devstack_and_zbkc(d))

(* The second attempt to list the volumes is made when the first fails.    *)
create_volume(d) ==
    <<With(Put(All({"volume"})), At({"stack"}, d)), Quiet(Use(All({"mon"}))), Use(All({"volume"}))>>

devstack_smoke(d) == In("devstack_smoke", create_volume(d))

devstack_exercise(d) == In("devstack_exercise", <<Use(At({"stack"}, d))>>)

devstack_task(d) == devstack_install(d) \o devstack_smoke(d)

=============================================================================

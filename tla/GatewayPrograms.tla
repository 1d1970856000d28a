-------------------------- MODULE GatewayPrograms --------------------------
(***************************************************************************)
(* The object gateway tasks: rgw.py, s3tests.py, s3readwrite.py,           *)
(* s3roundtrip.py, radosgw_agent.py and rest_api.py.  Pools, users, realms *)
(* and zones are stored in the cluster and go with it.  Each client has a  *)
(* host of its own.                                                        *)
(***************************************************************************)
EXTENDS TaskCommands

GatewayUses ==
    {"rgw", "restapi"} \X {"mon", "osd"}
    \cup {<<"htdocs", "apache">>, <<"apache_tmp", "apache">>, <<"apache_conf", "apache">>,
          <<"fcgi", "htdocs">>, <<"httpd", "apache_conf">>, <<"httpd", "fcgi">>,
          <<"httpd", "rgw">>, <<"s3_env", "s3-tests">>, <<"agent_env", "radosgw-agent">>,
          <<"agent", "agent_env">>, <<"agent", "rgw">>, <<"restapi", "rest_key">>}

GatewayWithin ==
    {"pool", "user", "s3_main", "s3_alt", "realm", "zone", "rest_section"} \X {"conf"}
    \cup {<<"s3_env", "s3-tests">>, <<"agent_env", "radosgw-agent">>,
          <<"apache_conf", "apache">>, <<"htdocs", "apache">>}

(* Files under the archive directory, and the keyrings of the REST daemon, *)
(* which its task does not remove.                                         *)
GatewayLasting == {"apache_log", "s3_conf", "rest_key"}

Rados == All({"mon", "osd"})

----------------------------------------------------------------------------
(* rgw.py.  Some managers are entered for a part of the clients only, but  *)
(* left for all of them.                                                   *)

create_apache_dirs(entered, left) ==
    Manager("create_apache_dirs",
            ForEach(entered, LAMBDA c :
                <<Put(At({"apache", "htdocs", "apache_tmp"}, c)), New(At({"apache_log"}, c))>>),
            ForEach(left, LAMBDA c : <<Drop(At({"apache_tmp"}, c)), Remove(At({"htdocs"}, c))>>)
            \o ForEach(left, LAMBDA c : <<Quiet(Remove(At({"apache"}, c)))>>))

ship_apache_configs(entered, left) ==
    Manager("ship_apache_configs",
            ForEach(entered, LAMBDA c :
                <<Put(At({"apache_conf"}, c)), Put(At({"fcgi"}, c)), Use(At({"fcgi"}, c))>>),
            ForEach(left, LAMBDA c : <<Drop(At({"apache_conf"}, c)), Drop(At({"fcgi"}, c))>>))

(* On exit every gateway is stopped, also those another start_rgw started. *)
start_rgw(entered, all) ==
    Manager("start_rgw",
            ForEach(entered, LAMBDA c : <<Put(At({"rgw", "rgw_sock"}, c))>>)
            \o ForEach(entered, LAMBDA c : <<Use(At({"rgw"}, c))>>),
            <<Drop(AtEach({"rgw"}, all))>>
            \o ForEach(all, LAMBDA c : <<Drop(At({"rgw_sock"}, c))>>))

\* Mutant: the `finally` stops the web server of the first client only.
start_apache_stops_one(entered) ==
    Manager("start_apache", ForEach(entered, LAMBDA c : <<Quiet(Use({})), Put(At({"httpd"}, c))>>),
                            <<Drop(At({"httpd"}, entered[1]))>>)

start_apache(entered) ==
    Manager("start_apache", ForEach(entered, LAMBDA c : <<Quiet(Use({})), Put(At({"httpd"}, c))>>),
                            <<Drop(AtEach({"httpd"}, entered))>>)

(* Every client's system user is created at each of the clients.           *)
configure_users(clients) ==
    In("configure_users",
       ForEach(clients, LAMBDA owner :
          ForEach(clients, LAMBDA c : <<With(Put(At({"user"}, c)), Rados)>>)))

configure_users_for_client(clients, at) ==
    In("configure_users_for_client",
       ForEach(clients, LAMBDA owner :
          ForEach(at, LAMBDA c : <<With(Put(At({"user"}, c)), Rados)>>)))

create_nonregion_pools(clients) ==
    In("create_nonregion_pools", ForEach(clients, LAMBDA c : <<With(Put(All({"pool"})), Rados)>>))

(* The realm and the zone groups, then the pools of all zones, then the    *)
(* master's own zone and the period.                                       *)
configure_multisite_regions_and_zones(master, clients) ==
    In("configure_multisite_regions_and_zones",
       <<With(Put(At({"realm"}, master)), Rados), Use(Rados), Use(Rados)>>
       \o ForEach(clients, LAMBDA c : <<With(Put(At({"pool"}, c)), Rados)>>)
       \o <<With(Put(At({"zone"}, master)), Rados), Use(At({"zone", "realm"}, master)),
            Use(At({"zone", "realm"}, master))>>)

configure_regions_and_zones(master, clients) ==
    In("configure_regions_and_zones",
       <<Quiet(Use(Rados)), Quiet(Use(Rados)), With(Put(All({"realm"})), Rados)>>
       \o ForEach(clients, LAMBDA c :
             ForEach(clients, LAMBDA role :
                <<Quiet(Use(Rados)), With(Put(At({"pool"}, role)), Rados),
                  With(Put(At({"zone"}, role)), Rados)>>)
             \o <<Use(Rados), Use(At({"zone"}, c))>>)
       \o <<Use(At({"zone"}, master))>>)

pull_configuration(master, rest) ==
    In("pull_configuration",
       ForEach(rest, LAMBDA c :
          <<With(Put(At({"realm"}, c)), At({"rgw"}, master)), With(Put(At({"zone"}, c)), Rados),
            Use(At({"rgw"}, master))>>))

(* rgw's task, for a single cluster ...                                    *)
rgw_single(apache, clients) ==
    (IF apache THEN create_apache_dirs(clients, clients) ELSE <<>>)
    \o create_nonregion_pools(clients) \o configure_regions_and_zones(clients[1], clients)
    \o configure_users(clients)
    \o (IF apache THEN ship_apache_configs(clients, clients) ELSE <<>>)
    \o start_rgw(clients, clients)
    \o (IF apache THEN start_apache(clients) ELSE <<>>)

(* ... and for one cluster per zone: first the master's gateway, then the  *)
(* others, which pull their configuration from it.                         *)
rgw_multi(apache, master, rest) ==
    LET clients == <<master>> \o rest
    IN  (IF apache THEN create_apache_dirs(rest, clients)
                        \o create_apache_dirs(<<master>>, <<master>>) ELSE <<>>)
        \o configure_multisite_regions_and_zones(master, clients)
        \o configure_users_for_client(clients, <<master>>)
        \o (IF apache THEN ship_apache_configs(<<master>>, <<master>>) ELSE <<>>)
        \o start_rgw(<<master>>, clients)
        \o (IF apache THEN start_apache(<<master>>) ELSE <<>>)
        \o pull_configuration(master, rest) \o configure_users_for_client(clients, clients)
        \o (IF apache THEN ship_apache_configs(rest, clients) ELSE <<>>)
        \o start_rgw(rest, clients)
        \o (IF apache THEN start_apache(rest) ELSE <<>>)

----------------------------------------------------------------------------
(* s3tests.py, s3readwrite.py and s3roundtrip.py: the managers have ended  *)
(* before the task yields.                                                 *)

(* radosgw-admin user create, and user rm at the end.                      *)
S3Users(name, users, clients) ==
    Manager(name,
            ForEach(clients, LAMBDA c :
                ForEach(users, LAMBDA u : <<With(Put(At({u}, c)), Rados)>>)),
            ForEach(clients, LAMBDA c :
                ForEach(users, LAMBDA u : <<With(Remove(At({u}, c)), Rados)>>)))

s3tests_download(clients) == GitClone("s3tests_download", "s3-tests", clients)

s3tests_create_users(clients) == S3Users("s3tests_create_users", <<"s3_main", "s3_alt">>, clients)

sync_users(agents) == In("sync_users", ForEach(agents, LAMBDA c : <<Use(At({"agent"}, c))>>))

s3tests_configure(clients) ==
    Manager("s3tests_configure",
            ForEach(clients, LAMBDA c : <<Put(At({"s3_env"}, c)), Put(At({"s3_conf"}, c))>>)
            \o ForEach(clients, LAMBDA c : <<Put(At({"boto"}, c))>>),
            ForEach(clients, LAMBDA c : <<Remove(At({"boto"}, c))>>))

s3tests_run_tests(clients) ==
    In("s3tests_run_tests",
       ForEach(clients, LAMBDA c :
          <<Use(At({"s3_env", "s3_conf", "boto", "s3_main", "s3_alt", "rgw"}, c))>>))

s3tests_task(clients, agents) ==
    Completed(s3tests_download(clients) \o s3tests_create_users(clients) \o sync_users(agents)
              \o s3tests_configure(clients) \o s3tests_run_tests(clients))

s3readwrite_download(clients) == GitClone("s3readwrite_download", "s3-tests", clients)

s3readwrite_create_users(clients) == S3Users("s3readwrite_create_users", <<"s3_main">>, clients)

s3readwrite_configure(clients) ==
    In("s3readwrite_configure",
       ForEach(clients, LAMBDA c : <<Put(At({"s3_env"}, c)), Put(At({"s3_conf"}, c))>>))

s3readwrite_run_tests(clients) ==
    In("s3readwrite_run_tests",
       ForEach(clients, LAMBDA c : <<Use(At({"s3_conf"}, c)),
                                     Use(At({"s3_env", "s3_main", "rgw"}, c))>>))

s3readwrite_task(clients) ==
    Completed(s3readwrite_download(clients) \o s3readwrite_create_users(clients)
              \o s3readwrite_configure(clients) \o s3readwrite_run_tests(clients))

s3roundtrip_download(clients) == GitClone("s3roundtrip_download", "s3-tests", clients)

s3roundtrip_create_users(clients) == S3Users("s3roundtrip_create_users", <<"s3_main">>, clients)

s3roundtrip_configure(clients) ==
    In("s3roundtrip_configure",
       ForEach(clients, LAMBDA c : <<Put(At({"s3_env"}, c)), Put(At({"s3_conf"}, c))>>))

s3roundtrip_run_tests(clients) ==
    In("s3roundtrip_run_tests",
       ForEach(clients, LAMBDA c : <<Use(At({"s3_conf"}, c)),
                                     Use(At({"s3_env", "s3_main", "rgw"}, c))>>))

s3roundtrip_task(clients) ==
    Completed(s3roundtrip_download(clients) \o s3roundtrip_create_users(clients)
              \o s3roundtrip_configure(clients) \o s3roundtrip_run_tests(clients))

----------------------------------------------------------------------------
(* radosgw_agent.py: a `finally` inside the `finally`.                     *)

run_radosgw_agent(clients) ==
    ForEach(clients, LAMBDA c :
       <<New(At({"radosgw-agent"}, c)), Put(At({"agent_env"}, c)), Use(Rados),
         Put(At({"agent"}, c))>>)

radosgw_agent_task(clients) ==
    Manager("radosgw_agent", run_radosgw_agent(clients),
            ForEach(clients, LAMBDA c : <<Drop(At({"radosgw-agent"}, c))>>))
    \o Try("radosgw_agent", ForEach(clients, LAMBDA c : <<Drop(At({"agent"}, c))>>))

(* rest_api.py                                                             *)
run_rest_api_daemon(clients) ==
    Manager("run_rest_api_daemon",
            ForEach(clients, LAMBDA c : <<Put(At({"restapi"}, c)), Use(At({"restapi"}, c))>>),
            <<Drop(AtEach({"restapi"}, clients))>>)

rest_api_task(clients) ==
    In("rest_api",
       ForEach(clients, LAMBDA c :
          <<Put(At({"rest_key"}, c)), Put(At({"rest_section"}, c)), Use(At({"rest_section"}, c)),
            With(Use(At({"rest_key"}, c)), Rados)>>))
    \o run_rest_api_daemon(clients)

=============================================================================

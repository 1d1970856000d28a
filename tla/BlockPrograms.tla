--------------------------- MODULE BlockPrograms ---------------------------
(***************************************************************************)
(* The block device tasks: rbd.py, qemu.py, rbd_fsx.py, rbd_fio.py,        *)
(* rbd_mirror.py and tgt.py.  Images, snapshots and clones are stored in   *)
(* the cluster and go with it.                                             *)
(***************************************************************************)
EXTENDS TaskCommands

BlockUses ==
    {"dev", "scratch_dev", "fio_dev", "fio_clone_dev", "qemu", "rbd-mirror"} \X {"mon", "osd"}
    \cup {<<"snap", "image">>, <<"protected", "snap">>, <<"clone", "protected">>,
          <<"dev", "image">>, <<"dev", "rbd_ko">>, <<"fs_mnt", "dev">>,
          <<"scratch_dev", "scratch">>, <<"scratch_dev", "rbd_ko">>,
          <<"qemu_data", "qemu_dir">>, <<"qemu_iso", "qemu_dir">>, <<"qemu_base", "qemu_dir">>,
          <<"export", "export_dir">>, <<"export", "qemu_log">>, <<"nfs", "export">>,
          <<"nfs", "exports">>, <<"qemu", "nfs">>, <<"qemu", "qemu_iso">>,
          <<"qemu", "qemu_base">>, <<"qemu", "clone">>,
          <<"fio_dev", "image">>, <<"fio_clone_dev", "clone">>,
          <<"tgt", "tgt_image">>, <<"tgt_bound", "tgt">>}

BlockWithin ==
    {"image", "scratch", "snap", "protected", "clone", "tgt_image"} \X {"conf"}
    \cup {<<"fio", "fio_dir">>, <<"tgt_bound", "tgt">>}

(* Logs kept for the archive, and fio's job file in /tmp.                  *)
BlockLasting == {"qemu_log", "fio_conf"}

Cluster == All({"mon", "osd"})

----------------------------------------------------------------------------
(* rbd.py                                                                  *)

create_image(image, clients) ==
    Manager("create_" \o image,
            ForEach(clients, LAMBDA c : <<With(New(At({image}, c)), Cluster)>>),
            ForEach(clients, LAMBDA c : <<With(Remove(At({image}, c)), Cluster)>>))

clone_image(clients) ==
    Manager("clone_image",
            ForEach(clients, LAMBDA c :
                <<With(New(At({"snap"}, c)), Cluster), With(New(At({"protected"}, c)), Cluster),
                  With(New(At({"clone"}, c)), Cluster)>>),
            ForEach(clients, LAMBDA c :
                <<With(Remove(At({"clone"}, c)), Cluster),
                  With(Remove(At({"protected"}, c)), Cluster),
                  With(Remove(At({"snap"}, c)), Cluster)>>))

modprobe(clients) ==
    Manager("modprobe", ForEach(clients, LAMBDA c : <<Put(At({"rbd_ko"}, c))>>),
                        ForEach(clients, LAMBDA c : <<Quiet(Remove(At({"rbd_ko"}, c)))>>))

dev_create(dev, clients) ==
    Manager("map_" \o dev, ForEach(clients, LAMBDA c : <<New(At({dev}, c))>>),
                           ForEach(clients, LAMBDA c : <<Remove(At({dev}, c))>>))

(* In parallel on all clients: fetch the script, run it on both devices,   *)
(* remove it in any case.                                                  *)
run_xfstests(clients) ==
    Guarded("run_xfstests",
            <<Use(AtEach({"dev", "scratch_dev"}, clients)), Put(AtEach({"script"}, clients)),
              Use(AtEach({"dev", "scratch_dev", "script"}, clients))>>,
            <<Drop(AtEach({"script"}, clients))>>)
    \o Close

xfstests(clients) ==
    create_image("image", clients) \o create_image("scratch", clients) \o modprobe(clients)
    \o dev_create("dev", clients) \o dev_create("scratch_dev", clients)
    \o run_xfstests(clients)

(* generic_mkfs and generic_mount of the runner.                           *)
generic_mount(clients) ==
    In("generic_mkfs", <<Use(AtEach({"dev"}, clients))>>)
    \o Manager("generic_mount", ForEach(clients, LAMBDA c : <<New(At({"fs_mnt"}, c))>>),
                                ForEach(clients, LAMBDA c : <<Remove(At({"fs_mnt"}, c))>>))

rbd_task(clients) ==
    create_image("image", clients) \o modprobe(clients) \o dev_create("dev", clients)
    \o generic_mount(clients)

----------------------------------------------------------------------------
(* qemu.py: each client on a host of its own.                              *)

create_images(clients) == ForEach(clients, LAMBDA c : create_image("image", <<c>>))

create_clones(clients) == ForEach(clients, LAMBDA c : clone_image(<<c>>))

create_dirs(clients) ==
    Manager("create_dirs", ForEach(clients, LAMBDA c : <<Put(At({"qemu_dir"}, c))>>),
                           ForEach(clients, LAMBDA c : <<Quiet(Remove(At({"qemu_dir"}, c)))>>))

generate_iso(clients) ==
    Manager("generate_iso",
            ForEach(clients, LAMBDA c :
                <<Put(At({"qemu_data"}, c)), With(Put(At({"qemu_iso"}, c)), At({"qemu_data"}, c))>>),
            ForEach(clients, LAMBDA c : <<Drop(At({"qemu_iso", "qemu_data"}, c))>>))

download_image(clients) ==
    Manager("download_image", ForEach(clients, LAMBDA c : <<Put(At({"qemu_base"}, c))>>),
                              ForEach(clients, LAMBDA c : <<Drop(At({"qemu_base"}, c))>>))

_setup_nfs_mount(c) ==
    <<Put(At({"export_dir"}, c)), Put(At({"export"}, c)), Drop(At({"exports"}, c)),
      Put(At({"exports"}, c)), Put(At({"nfs"}, c))>>

_teardown_nfs_mount(c) ==
    <<Drop(At({"nfs"}, c)), Remove(At({"export"}, c)), Remove(At({"export_dir"}, c)),
      Drop(At({"exports"}, c)), Use({})>>

run_qemu(clients) ==
    Manager("run_qemu",
            ForEach(clients, LAMBDA c :
                <<New(At({"qemu_log"}, c))>> \o _setup_nfs_mount(c)
                \o <<Use({}), Put(At({"qemu"}, c))>>),
            <<Drop(AtEach({"qemu"}, clients))>>
            \o ForEach(clients, LAMBDA c : _teardown_nfs_mount(c) \o <<Use(At({"qemu_log"}, c))>>))

qemu_task(clients) ==
    create_images(clients) \o create_dirs(clients) \o generate_iso(clients)
    \o download_image(clients) \o create_clones(clients) \o run_qemu(clients)

----------------------------------------------------------------------------
(* rbd_fsx.py, rbd_fio.py, rbd_mirror.py and tgt.py                        *)

rbd_fsx_run_one_client == In("rbd_fsx", <<Use(Cluster)>>)

(* One image and its clone, mapped by the kernel: the `finally` unmaps all *)
(* devices that `rbd showmapped` lists, and leaves the images.             *)
run_fio(c) ==
    Manager("rbd_fio",
            <<With(New(At({"image"}, c)), Cluster), Use(At({"image"}, c)), New(At({"fio_dev"}, c)),
              New(At({"snap"}, c)), New(At({"protected"}, c)), New(At({"clone"}, c)),
              New(At({"fio_clone_dev"}, c)), Put(At({"fio_conf"}, c))>>,
            <<Use({}), Drop(At({"fio_dev", "fio_clone_dev"}, c)), Drop(At({"fio_dir"}, c))>>)
    \o In("rbd_fio",
          <<New(At({"fio_dir"}, c)), Put(At({"fio"}, c)), Use(Cluster),
            Use(At({"fio", "fio_conf", "fio_dev", "fio_clone_dev"}, c)), Use(Cluster)>>)
    \o Close

RBDMirror(c) ==
    Manager("rbd-mirror", <<Put(At({"rbd-mirror"}, c))>>, <<Drop(At({"rbd-mirror"}, c))>>)

(* The image has the same name on every host, but is stored once.          *)
start_tgt_remotes(hosts) ==
    Manager("tgt",
            ForEach(hosts, LAMBDA h :
                <<New(All({"tgt_image"})), New(At({"tgt"}, h)), Use(At({"tgt"}, h)),
                  Put(At({"tgt_bound"}, h))>>),
            ForEach(hosts, LAMBDA h :
                <<Drop(At({"tgt"}, h)), Use(All({"tgt_image"})), Remove(All({"tgt_image"}))>>))

=============================================================================

------------------------------- MODULE PgMove -------------------------------
(***************************************************************************)
(* What Thrasher.kill_osd does with the objectstore tool once the OSD is   *)
(* down (tasks/zbkc_manager.py): a pg of this OSD, or of one that has been *)
(* dead for longer, is exported to a file, removed, and imported into the  *)
(* OSD killed last, or back where it came from.  Every tool call and file  *)
(* operation is a step and may fail; the cluster recovers, trims and       *)
(* deletes in between, on the OSDs that run.                               *)
(***************************************************************************)
EXTENDS Integers, FiniteSets

CONSTANTS Osds, Pgs, Hosts,
          Host              \* find_remote: the host of each OSD

ASSUME PgAssumption == Host \in [Osds -> Hosts]

VARIABLES
    dead,       \* dead_osds
    store,      \* the pgs in the store of each OSD
    files,      \* the export files, as <<host, pg, exporting OSD>>
    gone,       \* the pgs whose pool was deleted
    dropped,    \* the pgs an import refused as incompatible (status 11)
    pc,         \* where kill_osd is
    osd,        \* its argument
    exp, imp,   \* exp_osd and imp_osd
    pg          \* the pg it moves

stores == <<store, files, gone, dropped>>
locals == <<pc, osd, exp, imp, pg>>
vars   == <<dead, stores, locals>>

Live     == Osds \ dead
ExpPath(o) == <<Host[o], pg, exp>>
Points   == {"idle", "list", "export", "remove", "listImp", "import", "rmExp", "rmImp",
             "layout", "raised"}

PgInit ==
    /\ dead = {}
    /\ store \in [Osds -> SUBSET Pgs]
    /\ \A p \in Pgs : \E o \in Osds : p \in store[o]
    /\ files = {} /\ gone = {} /\ dropped = {}
    /\ pc = "idle"
    /\ osd \in Osds /\ exp = osd /\ imp = osd /\ pg \in Pgs

Goto(p) == pc' = p

-----------------------------------------------------------------------------
(* Any of the other dead OSDs may be the one to export from.               *)
KillOsd(o) ==
    /\ pc = "idle" /\ o \in Live
    /\ dead' = dead \cup {o}
    /\ osd' = o /\ imp' = o /\ exp' \in dead \cup {o}
    /\ Goto("list")
    /\ UNCHANGED <<stores, pg>>

(* list-pgs; without any pg kill_osd returns.                              *)
ListPgs ==
    /\ pc = "list"
    /\ IF store[exp] = {} THEN Goto("idle") /\ UNCHANGED pg
                          ELSE Goto("export") /\ pg' \in store[exp]
    /\ UNCHANGED <<dead, stores, osd, exp, imp>>

(* Variant: the pg is removed first.                                       *)
ExportRemovesFirst ==
    /\ pc = "export"
    /\ store' = [store EXCEPT ![exp] = @ \ {pg}]
    /\ Goto("remove")
    /\ UNCHANGED <<dead, files, gone, dropped, osd, exp, imp, pg>>

Export ==
    /\ pc = "export"
    /\ files' = files \cup {ExpPath(exp)}
    /\ Goto("remove")
    /\ UNCHANGED <<dead, store, gone, dropped, osd, exp, imp, pg>>

Remove ==
    /\ pc = "remove"
    /\ store' = [store EXCEPT ![exp] = @ \ {pg}]
    /\ Goto(IF exp # imp THEN "listImp" ELSE "import")
    /\ UNCHANGED <<dead, files, gone, dropped, osd, exp, imp, pg>>

(* Variant: the pgs of the target are not looked at.                       *)
ListImpUnchecked ==
    /\ pc = "listImp"
    /\ files' = files \cup {ExpPath(imp)}
    /\ Goto("import")
    /\ UNCHANGED <<dead, store, gone, dropped, osd, exp, imp, pg>>

(* The pg goes back if the target has it; else the file is copied to the   *)
(* target's host.                                                          *)
ListImp ==
    /\ pc = "listImp"
    /\ IF pg \in store[imp] THEN imp' = exp /\ UNCHANGED files
                            ELSE files' = files \cup {ExpPath(imp)} /\ UNCHANGED imp
    /\ Goto("import")
    /\ UNCHANGED <<dead, store, gone, dropped, osd, exp, pg>>

(* Status 10, the pool is gone, and 11, incompatible, are ignored.         *)
Import ==
    /\ pc = "import"
    /\ ExpPath(imp) \in files
    /\ \/ pg \notin gone /\ store' = [store EXCEPT ![imp] = @ \cup {pg}]
          /\ UNCHANGED dropped
       \/ pg \in gone /\ UNCHANGED <<store, dropped>>
       \/ dropped' = dropped \cup {pg} /\ UNCHANGED store
    /\ Goto("rmExp")
    /\ UNCHANGED <<dead, files, gone, osd, exp, imp, pg>>

(* Variant: only the file on the importing host is removed.                *)
RemoveExportAtImp ==
    /\ pc = "rmExp"
    /\ files' = files \ {ExpPath(imp)}
    /\ Goto("layout")
    /\ UNCHANGED <<dead, store, gone, dropped, osd, exp, imp, pg>>

RemoveExport ==
    /\ pc = "rmExp"
    /\ files' = files \ {ExpPath(exp)}
    /\ Goto(IF Host[imp] # Host[exp] THEN "rmImp" ELSE "layout")
    /\ UNCHANGED <<dead, store, gone, dropped, osd, exp, imp, pg>>

RemoveCopy ==
    /\ pc = "rmImp"
    /\ files' = files \ {ExpPath(imp)}
    /\ Goto("layout")
    /\ UNCHANGED <<dead, store, gone, dropped, osd, exp, imp, pg>>

(* apply-layout-settings for every pool that is left: no pg moves.         *)
ApplyLayout == pc = "layout" /\ Goto("idle") /\ UNCHANGED <<dead, stores, osd, exp, imp, pg>>

(* The tool, a copy or an rm fails; do_thrash ends.                        *)
ToolRaises ==
    /\ pc \notin {"idle", "raised"}
    /\ Goto("raised")
    /\ UNCHANGED <<dead, stores, osd, exp, imp, pg>>

ReviveOsd(o) ==
    /\ pc = "idle" /\ o \in dead
    /\ dead' = dead \ {o}
    /\ UNCHANGED <<stores, locals>>

-----------------------------------------------------------------------------
(* The cluster (external): recovery copies a pg between running OSDs, and  *)
(* trims one that another running OSD has; a pool is deleted.              *)
Recover(o, q, p) ==
    /\ {o, q} \subseteq Live /\ p \in store[o] \ gone
    /\ store' = [store EXCEPT ![q] = @ \cup {p}]
    /\ UNCHANGED <<dead, files, gone, dropped, locals>>

Trim(o, q, p) ==
    /\ {o, q} \subseteq Live /\ o # q /\ p \in store[o] \cap store[q]
    /\ store' = [store EXCEPT ![q] = @ \ {p}]
    /\ UNCHANGED <<dead, files, gone, dropped, locals>>

DeletePool(p) ==
    /\ p \notin gone
    /\ gone' = gone \cup {p}
    /\ store' = [o \in Osds |-> IF o \in dead THEN store[o] ELSE store[o] \ {p}]
    /\ UNCHANGED <<dead, files, dropped, locals>>

PgNext ==
    \/ ListPgs \/ Export \/ Remove \/ ListImp \/ Import \/ RemoveExport \/ RemoveCopy
    \/ ApplyLayout \/ ToolRaises
    \/ \E o \in Osds : KillOsd(o) \/ ReviveOsd(o)
    \/ \E p \in Pgs : DeletePool(p)
    \/ \E o, q \in Osds, p \in Pgs : Recover(o, q, p) \/ Trim(o, q, p)
    \/ pc = "raised" /\ UNCHANGED vars

PgSpec == PgInit /\ [][PgNext]_vars

-----------------------------------------------------------------------------
(* The types; the OSDs the tool works on, exp_osd, imp_osd and the one     *)
(* kill_osd was called for, are dead while it works.                       *)
PgTypeOK ==
    /\ dead \in SUBSET Osds
    /\ store \in [Osds -> SUBSET Pgs]
    /\ files \in SUBSET (Hosts \X Pgs \X Osds)
    /\ gone \in SUBSET Pgs /\ dropped \in SUBSET Pgs
    /\ pc \in Points
    /\ osd \in Osds /\ exp \in Osds /\ imp \in Osds /\ pg \in Pgs
    /\ pc # "idle" => {osd, exp, imp} \subseteq dead

(* Moving a pg never loses it: a pg whose pool exists, and which no import *)
(* refused as incompatible, is in some store or, while or after kill_osd   *)
(* works on it, in an export file.                                         *)
PgSurvives ==
    \A p \in Pgs \ (gone \cup dropped) :
        (\E o \in Osds : p \in store[o]) \/ \E f \in files : f[2] = p

(* kill_osd that returns leaves no export file on either host.             *)
NoFileLeft == pc = "idle" => files = {}

(* The import finds the file on its host and does not find the pg in the   *)
(* store: what list-pgs said of the target still holds.                    *)
ImportIsPossible == pc = "import" => pg \notin store[imp] /\ ExpPath(imp) \in files

=============================================================================

---------------------------- MODULE PgMoveProofs ----------------------------
(***************************************************************************)
(* Proofs about PgMove, for every set of OSDs, hosts and pgs.              *)
(***************************************************************************)
EXTENDS PgMove, TLAPS

(* Where the export files are at each point of kill_osd.                   *)
FilesAt ==
    /\ pc \in {"idle", "list", "export", "layout"} => files = {}
    /\ pc \in {"remove", "listImp"} => files = {ExpPath(exp)}
    /\ pc = "import" => {ExpPath(exp), ExpPath(imp)} = files
    /\ pc = "rmExp" => files \subseteq {ExpPath(exp), ExpPath(imp)}
    /\ pc = "rmImp" => files \subseteq {ExpPath(imp)}

(* What list-pgs and remove have established of the two stores, both of    *)
(* which belong to dead OSDs.                                              *)
StoresAt ==
    /\ pc = "listImp" => pg \notin store[exp]
    /\ pc = "import" => pg \notin store[imp]

(* Every pg but the one on its way is in a store.                          *)
Stored(p) == \E o \in Osds : p \in store[o]
StoredAt ==
    \A p \in Pgs \ (gone \cup dropped) :
        \/ Stored(p)
        \/ pc \in {"listImp", "import"} /\ p = pg
        \/ pc = "raised" /\ \E f \in files : f[2] = p

PgInv == PgTypeOK /\ FilesAt /\ StoresAt /\ StoredAt

-----------------------------------------------------------------------------
LEMMA PgInitial == PgInit => PgInv
  BY PgAssumption DEF PgInit, PgInv, PgTypeOK, Points, FilesAt, StoresAt, StoredAt, Stored

(* kill_osd and its steps.                                                 *)
LEMMA PathType ==
    ASSUME PgTypeOK, NEW o \in Osds
    PROVE  ExpPath(o) \in Hosts \X Pgs \X Osds /\ ExpPath(o)[2] = pg
  BY PgAssumption DEF PgTypeOK, ExpPath

LEMMA KillKeeps ==
    ASSUME PgInv, NEW o \in Osds, KillOsd(o) \/ ReviveOsd(o) PROVE PgInv'
  <1>1. PgTypeOK'
    BY DEF PgInv, PgTypeOK, KillOsd, ReviveOsd, Live, Goto, stores, locals, Points
  <1>2. FilesAt' /\ StoresAt'
    BY DEF PgInv, FilesAt, StoresAt, KillOsd, ReviveOsd, Goto, stores, locals
  <1>3. StoredAt'
    BY DEF PgInv, StoredAt, Stored, KillOsd, ReviveOsd, Goto, stores, locals
  <1> QED
    BY <1>1, <1>2, <1>3 DEF PgInv

LEMMA ListKeeps ==
    ASSUME PgInv, ListPgs \/ ApplyLayout PROVE PgInv'
  <1>1. PgTypeOK'
    BY DEF PgInv, PgTypeOK, ListPgs, ApplyLayout, Goto, stores, Points
  <1>2. FilesAt' /\ StoresAt'
    BY DEF PgInv, FilesAt, StoresAt, ListPgs, ApplyLayout, Goto, stores
  <1>3. StoredAt'
    BY DEF PgInv, StoredAt, Stored, ListPgs, ApplyLayout, Goto, stores
  <1> QED
    BY <1>1, <1>2, <1>3 DEF PgInv

LEMMA ExportKeeps ==
    ASSUME PgInv, Export PROVE PgInv'
  <1>1. PgTypeOK'
    BY PathType DEF PgInv, PgTypeOK, Export, Goto, Points
  <1>2. FilesAt' /\ StoresAt'
    BY DEF PgInv, FilesAt, StoresAt, Export, Goto, ExpPath
  <1>3. StoredAt'
    BY DEF PgInv, StoredAt, Stored, Export, Goto
  <1> QED
    BY <1>1, <1>2, <1>3 DEF PgInv

LEMMA RemoveKeeps ==
    ASSUME PgInv, Remove PROVE PgInv'
  <1>1. PgTypeOK'
    BY DEF PgInv, PgTypeOK, Remove, Goto, Points
  <1>2. FilesAt' /\ StoresAt'
    BY DEF PgInv, PgTypeOK, FilesAt, StoresAt, Remove, Goto, ExpPath
  <1>3. StoredAt'
    BY DEF PgInv, PgTypeOK, StoredAt, Stored, Remove, Goto
  <1> QED
    BY <1>1, <1>2, <1>3 DEF PgInv

LEMMA ListImpKeeps ==
    ASSUME PgInv, ListImp PROVE PgInv'
  <1>1. PgTypeOK'
    BY PathType DEF PgInv, PgTypeOK, ListImp, Goto, Points
  <1>2. FilesAt' /\ StoresAt'
    BY DEF PgInv, PgTypeOK, FilesAt, StoresAt, ListImp, Goto, ExpPath
  <1>3. StoredAt'
    BY DEF PgInv, StoredAt, Stored, ListImp, Goto
  <1> QED
    BY <1>1, <1>2, <1>3 DEF PgInv

LEMMA ImportKeeps ==
    ASSUME PgInv, Import PROVE PgInv'
  <1>1. PgTypeOK'
    BY DEF PgInv, PgTypeOK, Import, Goto, Points
  <1>2. FilesAt' /\ StoresAt'
    BY DEF PgInv, PgTypeOK, FilesAt, StoresAt, Import, Goto, ExpPath
  <1>3. StoredAt'
    BY DEF PgInv, PgTypeOK, StoredAt, Stored, Import, Goto
  <1> QED
    BY <1>1, <1>2, <1>3 DEF PgInv

LEMMA FileRemovalKeeps ==
    ASSUME PgInv, RemoveExport \/ RemoveCopy PROVE PgInv'
  <1>1. PgTypeOK'
    BY DEF PgInv, PgTypeOK, RemoveExport, RemoveCopy, Goto, Points
  <1>2. FilesAt' /\ StoresAt'
    BY DEF PgInv, PgTypeOK, FilesAt, StoresAt, RemoveExport, RemoveCopy, Goto, ExpPath
  <1>3. StoredAt'
    BY DEF PgInv, StoredAt, Stored, RemoveExport, RemoveCopy, Goto
  <1> QED
    BY <1>1, <1>2, <1>3 DEF PgInv

(* A failure: what was on its way is in a file.                            *)
LEMMA RaiseKeeps ==
    ASSUME PgInv, ToolRaises PROVE PgInv'
  <1>1. PgTypeOK'
    BY DEF PgInv, PgTypeOK, ToolRaises, Goto, stores, Points
  <1>2. FilesAt' /\ StoresAt'
    BY DEF FilesAt, StoresAt, ToolRaises, Goto
  <1>3. pc \in {"listImp", "import"} => \E f \in files : f[2] = pg
    BY PathType DEF PgInv, PgTypeOK, FilesAt
  <1>4. StoredAt'
    BY <1>3 DEF PgInv, StoredAt, Stored, ToolRaises, Goto, stores
  <1> QED
    BY <1>1, <1>2, <1>4 DEF PgInv

(* What the cluster does in between.                                       *)
LEMMA ClusterKeeps ==
    ASSUME PgInv, NEW o \in Osds, NEW q \in Osds, NEW p \in Pgs,
           Recover(o, q, p) \/ Trim(o, q, p) \/ DeletePool(p)
    PROVE  PgInv'
  <1>1. PgTypeOK'
    BY DEF PgInv, PgTypeOK, Recover, Trim, DeletePool, locals
  <1>2. FilesAt'
    BY DEF PgInv, FilesAt, Recover, Trim, DeletePool, locals, ExpPath
  <1>3. \A d \in dead : store'[d] = store[d]
    BY DEF PgInv, PgTypeOK, Recover, Trim, DeletePool, Live
  <1>4. StoresAt'
    BY <1>3 DEF PgInv, PgTypeOK, StoresAt, Recover, Trim, DeletePool, locals
  <1>5. CASE Recover(o, q, p) \/ Trim(o, q, p)
    <2>1. \A r \in Pgs : Stored(r) => Stored(r)'
      BY <1>5 DEF PgInv, PgTypeOK, Stored, Recover, Trim
    <2> QED
      BY <1>1, <1>2, <1>4, <1>5, <2>1 DEF PgInv, StoredAt, Recover, Trim, locals
  <1>6. CASE DeletePool(p)
    <2>1. \A r \in Pgs \ {p} : Stored(r) => Stored(r)'
      BY <1>6 DEF PgInv, PgTypeOK, Stored, DeletePool
    <2> QED
      BY <1>1, <1>2, <1>4, <1>6, <2>1 DEF PgInv, StoredAt, DeletePool, locals
  <1> QED
    BY <1>5, <1>6

LEMMA PgStep == PgInv /\ [PgNext]_vars => PgInv'
  <1> SUFFICES ASSUME PgInv, [PgNext]_vars PROVE PgInv'
    OBVIOUS
  <1>1. CASE UNCHANGED vars
    BY <1>1 DEF vars, stores, locals, PgInv, PgTypeOK, FilesAt, StoresAt, StoredAt, Stored, ExpPath
  <1>2. ASSUME NEW p \in Pgs, DeletePool(p) PROVE PgInv'
    BY <1>2, ClusterKeeps DEF PgInv, PgTypeOK
  <1> QED
    BY <1>1, <1>2, KillKeeps, ListKeeps, ExportKeeps, RemoveKeeps, ListImpKeeps,
       ImportKeeps, FileRemovalKeeps, RaiseKeeps, ClusterKeeps DEF PgNext

-----------------------------------------------------------------------------
(* PgInv holds in every reachable state of kill_osd's use of the tool.     *)
THEOREM PgInvariance == PgSpec => []PgInv
  BY PgInitial, PgStep, PTL DEF PgSpec

(* The tool only ever works on OSDs that are dead.                         *)
THEOREM PgTypeCorrect == PgSpec => []PgTypeOK
  <1>1. PgInv => PgTypeOK
    BY DEF PgInv
  <1> QED
    BY <1>1, PgInvariance, PTL

(* kill_osd never loses a pg, wherever it fails.                           *)
THEOREM PgAlwaysSurvives == PgSpec => []PgSurvives
  <1>1. ASSUME PgInv PROVE PgSurvives
    <2>1. pc \in {"listImp", "import"} => \E f \in files : f[2] = pg
      BY <1>1, PathType DEF PgInv, PgTypeOK, FilesAt
    <2> QED
      BY <1>1, <2>1 DEF PgInv, StoredAt, Stored, PgSurvives
  <1> QED
    BY <1>1, PgInvariance, PTL

(* A kill_osd that returned left no export file.                           *)
THEOREM NoFileEverLeft == PgSpec => []NoFileLeft
  <1>1. PgInv => NoFileLeft
    BY DEF PgInv, FilesAt, NoFileLeft
  <1> QED
    BY <1>1, PgInvariance, PTL

(* The import of kill_osd finds its file and a store without the pg.       *)
THEOREM ImportAlwaysPossible == PgSpec => []ImportIsPossible
  <1>1. PgInv => ImportIsPossible
    BY DEF PgInv, FilesAt, StoresAt, ImportIsPossible
  <1> QED
    BY <1>1, PgInvariance, PTL

=============================================================================

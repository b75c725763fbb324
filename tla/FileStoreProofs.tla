--------------------------- MODULE FileStoreProofs ----------------------------
(***************************************************************************)
(* No interleaving of writers, readers, the offload, the orphan purge and     *)
(* the purge of sessions loses the bytes of a file, for every number of       *)
(* files, snapshots, writes and faults.                                     *)
(*                                                                         *)
(* The invariant has two layers: the bytes and texts of files (CoreInv), and  *)
(* on top of it what the writer has loaded, still owes and stores (PlanInv).   *)
(***************************************************************************)
EXTENDS FileStore, TLAPS

(***************************************************************************)
(* The inductive invariant.                                                *)
(***************************************************************************)
Unused(f) == row[f].st = "unused"

\* A key that was never used has nothing; a file that was written empty has
\* nothing in cold storage; texts go with their rows.
FilesInv ==
  /\ \A f \in Files : Unused(f) => row[f] = NoRow /\ cold[f] = Null /\ want[f] = Null
  /\ \A f \in Files : want[f] = {} => cold[f] = Null /\ NeedsCold(row[f].db)
  /\ \A f \in Files : text[f].made => Live(f)
  /\ ContentKept

\* The offload has a row with bytes locked, and has them stored when it drops
\* them from the row, unless a replacement has begun that saves its own.
OffloadInv ==
  /\ off.pc = "idle" => off.f = Null
  /\ off.pc # "idle" => off.f \in Files /\ Live(off.f) /\ ~NeedsCold(row[off.f].db)
  /\ off.pc = "commit" => cold[off.f] = row[off.f].db \/ want[off.f] = Null

\* The orphan purge removes what was in cold storage when it looked, and whose
\* row was gone later: rows do not come back.
OrphanInv ==
  /\ orph.pc # "list" => \A f \in orph.ids : ~Unused(f)
  /\ orph.pc = "remove" => \A f \in orph.ids : row[f].st = "gone"

\* A file that is being written has no finished write; its new bytes are in the
\* hands of the writer, or in cold storage of a file of which the column is empty.
SetInv ==
  /\ wr.pc \in {"append", "delete", "create"} => wr.data \notin {Null, {}}
  /\ wr.pc \in SetPcs =>
       /\ wr.f \in Files /\ ~Unused(wr.f) /\ wr.data \notin {Null, {}}
       /\ wr.imm => NeedsCold(row[wr.f].db)
  /\ wr.pc \in {"store", "save"} =>
       /\ want[wr.f] = Null
       /\ text[wr.f].made => text[wr.f].met
  /\ wr.pc = "store" => wr.imm
  /\ wr.pc = "save" =>
       \/ wr.got = wr.data
       \/ wr.imm /\ wr.got = Null /\ (Live(wr.f) => cold[wr.f] = wr.data)

\* Whoever loaded f when its column was db and it had the bytes d can read them.
Sees(f, db, d) ==
  /\ d \notin {Null, {}} => GetBinaryData(f, db) = d /\ (NeedsCold(db) => NeedsCold(row[f].db))
  /\ d = {} => NeedsCold(db)

\* A reader that no replacement overlaps has, or can read, what the file has.
ReaderInv ==
  rd.pc # "idle" =>
    /\ rd.f \in Files /\ ~Unused(rd.f)
    /\ wr.pc \in SetPcs /\ wr.f = rd.f => rd.met
    /\ ~rd.met /\ Live(rd.f) =>
         /\ want[rd.f] = rd.was
         /\ rd.pc = "loaded" => Sees(rd.f, rd.db, rd.was)
         /\ rd.pc = "done" /\ rd.was \notin {Null, {}} => rd.got = rd.was
         /\ rd.pc = "extract" /\ rd.was # Null => rd.got = rd.was

\* At most one file has a name.
NamesInv == \A f, g \in Files : Live(f) /\ Live(g) /\ row[f].name = row[g].name => f = g

Differ(E) == \A d, e \in E : d.name = e.name => d = e

\* A purged session has no snapshot; a stored ZIP has a file once.
ZipsInv ==
  /\ session = "purged" => \A s \in Snaps : zip[s].st \in {"orphan", "gone"}
  /\ \A s \in Snaps : zip[s].st = "stored" => Differ(zip[s].files)
  /\ SnapshotComplete

\* The writer can read what it has loaded, until the session is purged.
LoadedInv ==
  session # "purged" /\ wr.pc \in {"append", "scan", "zip"} =>
    \A i \in wr.left : Live(i.f) /\ Sees(i.f, i.db, want[i.f])

\* What has to be read is read, or still to be read.
DueInv ==
  session # "purged" =>
    /\ wr.pc = "append" => Null \notin wr.due /\ \A d \in wr.due, i \in wr.left : d = want[i.f]
    /\ wr.pc = "scan" => \A d \in wr.due : /\ d \notin {Null, {}}
                                           /\ wr.sound => \E i \in wr.left : want[i.f] = d
    /\ wr.pc = "zip" =>
         /\ Differ(wr.got)
         /\ \A i, j \in wr.left : i.f = j.f => i = j
         /\ \A e \in wr.got, i \in wr.left : e.name # row[i.f].name
         /\ wr.sound => \A e \in wr.due : \/ e \in wr.got
                                          \/ \E i \in wr.left : /\ e.name = row[i.f].name
                                                                /\ e.data = want[i.f]

\* The name of a new row is free.
FreshInv ==
  /\ wr.pc = "create" => Named(wr.name) = {}
  /\ wr.pc = "files" => wr.got = {}
  /\ wr.pc \in {"wipe", "refill"} => Differ(wr.got)
  /\ wr.pc = "refill" => \A e \in wr.got, f \in Files : Live(f) => row[f].name # e.name

(***************************************************************************)
(* Types.                                                                  *)
(***************************************************************************)
FilePcs == {"idle", "append", "delete", "create", "scan", "drop"} \cup SetPcs

\* The work in hand is one of the two kinds.
Working(w) == IF w.pc \in SnapPcs THEN w \in SnapWork ELSE w \in FileWork

LEMMA WorkKinds ==
  /\ \A k \in FileWork : Working(k) /\ k.pc \in FilePcs /\ k.pc \notin SnapPcs
  /\ \A k \in SnapWork : Working(k) /\ k.pc \in SnapPcs /\ k.pc \notin FilePcs
  BY DEF Working, FileWork, SnapWork, FilePcs, SnapPcs, SetPcs

LEMMA NoWorkIs ==
  /\ NoWork \in FileWork
  /\ NoWork.pc = "idle" /\ NoWork.f = Null /\ NoWork.name = "" /\ NoWork.data = Null
  /\ NoWork.imm = FALSE /\ NoWork.snap = Null /\ NoWork.left = {} /\ NoWork.got = {}
  /\ NoWork.due = {} /\ NoWork.sound = TRUE
  BY FileConstants DEF FileConstants, NoWork, FileWork, Bytes, Contents

LEMMA NoRowIs == NoRow.st = "unused" /\ NoRow.db = Null /\ NoRow.name = ""
  BY DEF NoRow

LEMMA NullIsNotEmpty == Null # {}
  BY FileConstants DEF FileConstants

LEMMA Counted ==
  ASSUME faults \in 0 .. MaxFaults, Works \/ Fails \/ Unavailable \/ UNCHANGED faults
  PROVE  faults' \in 0 .. MaxFaults
  BY FileConstants DEF FileConstants, Works, Fails, Unavailable

LEMMA Written ==
  ASSUME writes \in 0 .. MaxWrites, NEW v, NewWrite(v)
  PROVE  writes' \in 0 .. MaxWrites /\ {v} \in Contents /\ {v} \in Bytes /\ {v} \notin {Null, {}}
  BY FileConstants DEF FileConstants, NewWrite, Contents, Bytes

\* What is read has a type.
LEMMA BytesRead ==
  ASSUME TypeOK, NEW f \in Files, NEW db \in Bytes
  PROVE  GetBinaryData(f, db) \in Bytes
  BY DEF TypeOK, GetBinaryData

\* Work that leaves the files as they are.
Ready(w) ==
  /\ w.pc \notin SetPcs
  /\ w.pc \in {"append", "delete", "create"} => w.data \notin {Null, {}}

LEMMA Columns ==
  ASSUME TypeOK
  PROVE  /\ \A f \in Files : /\ row[f] \in AttachedFiles /\ row[f].db \in Bytes
                             /\ row[f].name \in Names \cup {""}
                             /\ row[f].st \in {"unused", "live", "gone"}
                             /\ cold[f] \in Bytes /\ want[f] \in Bytes
         /\ \A n : Named(n) \subseteq Files
  BY DEF TypeOK, Named, AttachedFiles

LEMMA Loading ==
  ASSUME TypeOK, NEW F \in SUBSET Files
  PROVE  /\ Instances(F) \in SUBSET Instance
         /\ \A i \in Instances(F) : i.f \in F /\ i.db = row[i.f].db
         /\ \A i, j \in Instances(F) : i.f = j.f => i = j
         /\ \A f \in F : \E i \in Instances(F) : i.f = f
         /\ F = {} => Instances(F) = {}
         /\ {want[f] : f \in F} \in SUBSET Bytes
  <1>1. \A f \in F : row[f].db \in Bytes /\ want[f] \in Bytes /\ f \in Files
    BY Columns
  <1>2. \A i \in Instances(F) : \E f \in F : i = [f |-> f, db |-> row[f].db]
    BY DEF Instances
  <1>3. \A i \in Instances(F) : i.f \in F /\ i.db = row[i.f].db /\ i = [f |-> i.f, db |-> i.db]
    BY <1>2
  <1>4. Instances(F) \in SUBSET Instance
    BY <1>1, <1>3 DEF Instance
  <1>5. \A f \in F : [f |-> f, db |-> row[f].db] \in Instances(F)
    BY DEF Instances
  <1>6. \A f \in F : \E i \in Instances(F) : i.f = f
    BY <1>5
  <1>7. \A i, j \in Instances(F) : i.f = j.f => i = j
    BY <1>3
  <1> QED BY <1>1, <1>3, <1>4, <1>6, <1>7

(***************************************************************************)
(* What the steps of the writer that start new work do.                    *)
(***************************************************************************)
LEMMA SaveOutputDoes ==
  ASSUME TypeOK, NEW n \in Names, SaveOutput(n)
  PROVE  /\ wr' \in FileWork /\ wr'.pc \in {"append", "delete"}
         /\ wr'.data \notin {Null, {}} /\ wr'.name = n
         /\ wr'.pc = "append" => n = "memory" /\ wr'.left = Instances(Named(n))
         /\ wr'.pc = "delete" /\ n = "memory" => wr'.due = {}
         /\ wr'.due \subseteq {want[f] : f \in Named(n)} \ {Null}
         /\ writes' \in 0 .. MaxWrites
  <1> DEFINE old == IF n = "memory" THEN Named(n) ELSE {}
             u == {want[f] : f \in old} \ {Null}
             pc == IF old = {} THEN "delete" ELSE "append"
  <1>1. PICK v \in 1 .. MaxWrites :
          NewWrite(v) /\ wr' = [NoWork EXCEPT !.pc = pc, !.name = n, !.data = {v},
                                              !.left = Instances(old), !.due = u]
    BY DEF SaveOutput, Instances
  <1>2. old \in SUBSET Files /\ (old = {} \/ old = Named(n))
    BY Columns
  <1>3. Instances(old) \in SUBSET Instance /\ u \in SUBSET Bytes
    BY <1>2, Loading
  <1>4. {v} \in Bytes /\ {v} \notin {Null, {}} /\ writes' \in 0 .. MaxWrites
    BY <1>1, Written DEF TypeOK
  <1>5. pc \in {"delete", "append"} /\ (pc = "append" => n = "memory" /\ old = Named(n)) /\ (pc = "delete" => u = {})
    BY <1>2
  <1>6. u \subseteq {want[f] : f \in Named(n)} \ {Null}
    BY <1>2
  <1> HIDE DEF old, u, pc
  <1>7. /\ wr' \in FileWork /\ wr'.pc = pc /\ wr'.data = {v} /\ wr'.name = n
        /\ wr'.left = Instances(old) /\ wr'.due = u
    BY <1>1, <1>3, <1>4, <1>5, NoWorkIs DEF FileWork
  <1> QED BY <1>4, <1>5, <1>6, <1>7

LEMMA SaveImageDoes ==
  ASSUME TypeOK, SaveImage
  PROVE  /\ wr' \in FileWork /\ wr'.pc = "create" /\ wr'.data \notin {Null, {}}
         /\ wr'.name = "image" /\ Named("image") = {}
         /\ writes' \in 0 .. MaxWrites
  <1>1. PICK v \in 1 .. MaxWrites :
          NewWrite(v) /\ wr' = [NoWork EXCEPT !.pc = "create", !.name = "image", !.data = {v}, !.imm = TRUE]
    BY DEF SaveImage
  <1>2. {v} \in Bytes /\ {v} \notin {Null, {}} /\ writes' \in 0 .. MaxWrites
    BY <1>1, Written DEF TypeOK
  <1>3. "image" \in Names /\ Named("image") = {}
    BY DEF SaveImage
  <1>4. wr' \in FileWork /\ wr'.pc = "create" /\ wr'.data = {v} /\ wr'.name = "image"
    BY <1>1, <1>2, <1>3, NoWorkIs DEF FileWork
  <1> QED BY <1>2, <1>3, <1>4

LEMMA UploadFileDoes ==
  ASSUME TypeOK, UploadFile
  PROVE  /\ wr' \in FileWork /\ wr'.pc = "delete" /\ wr'.data \notin {Null, {}}
         /\ wr'.name = "input"
         /\ writes' \in 0 .. MaxWrites
  <1>1. PICK v \in 1 .. MaxWrites :
          NewWrite(v) /\ wr' = [NoWork EXCEPT !.pc = "delete", !.name = "input", !.data = {v}]
    BY DEF UploadFile
  <1>2. {v} \in Bytes /\ {v} \notin {Null, {}} /\ writes' \in 0 .. MaxWrites
    BY <1>1, Written DEF TypeOK
  <1>3. "input" \in Names
    BY DEF UploadFile
  <1>4. wr' \in FileWork /\ wr'.pc = "delete" /\ wr'.data = {v} /\ wr'.name = "input"
    BY <1>1, <1>2, <1>3, NoWorkIs DEF FileWork
  <1> QED BY <1>2, <1>4

LEMMA ReplaceContentDoes ==
  ASSUME TypeOK, NEW f \in Files, ReplaceContent(f)
  PROVE  /\ wr' \in FileWork /\ wr'.pc = "clear" /\ wr'.data \notin {Null, {}}
         /\ wr'.f = f /\ wr'.imm = FALSE /\ wr'.name = ""
         /\ writes' \in 0 .. MaxWrites
  <1>1. PICK v \in 1 .. MaxWrites :
          NewWrite(v) /\ wr' = [NoWork EXCEPT !.pc = "clear", !.f = f, !.data = {v}]
    BY DEF ReplaceContent
  <1>2. {v} \in Bytes /\ {v} \notin {Null, {}} /\ writes' \in 0 .. MaxWrites
    BY <1>1, Written DEF TypeOK
  <1>4. wr' \in FileWork /\ wr'.pc = "clear" /\ wr'.data = {v} /\ wr'.f = f /\ wr'.imm = FALSE /\ wr'.name = ""
    BY <1>1, <1>2, NoWorkIs DEF FileWork, SetPcs
  <1> QED BY <1>2, <1>4

LEMMA PurgeUnusedImagesDoes ==
  ASSUME TypeOK, PurgeUnusedImages
  PROVE  /\ wr' \in FileWork /\ wr'.pc = "scan" /\ wr'.name = ""
         /\ wr'.left = Instances(Named("report"))
         /\ wr'.due = {want[f] : f \in Named("report")} \ {Null, {}}
  <1> DEFINE u == {want[f] : f \in Named("report")} \ {Null, {}}
             l == Instances(Named("report"))
  <1>1. wr' = [NoWork EXCEPT !.pc = "scan", !.left = l, !.due = u]
    BY DEF PurgeUnusedImages
  <1>2. Named("report") \in SUBSET Files
    BY Columns
  <1>3. l \in SUBSET Instance /\ u \in SUBSET Bytes
    BY <1>2, Loading
  <1> HIDE DEF u, l
  <1>4. wr' \in FileWork /\ wr'.pc = "scan" /\ wr'.left = l /\ wr'.due = u /\ wr'.name = ""
    BY <1>1, <1>3, NoWorkIs DEF FileWork
  <1> QED BY <1>4 DEF u, l

LEMMA CreateSnapshotDoes ==
  ASSUME TypeOK, NEW s \in Snaps, CreateSnapshot(s)
  PROVE  /\ wr' \in SnapWork /\ wr'.pc = "files" /\ wr'.snap = s
         /\ wr'.got = {} /\ wr'.due = {} /\ wr'.sound = TRUE
  <1>1. wr' = [NoWork EXCEPT !.pc = "files", !.snap = s]
    BY DEF CreateSnapshot
  <1> QED BY <1>1, NoWorkIs DEF FileWork, SnapWork, SnapPcs

LEMMA RestoreReadDoes ==
  ASSUME TypeOK, NEW s \in Snaps, RestoreRead(s)
  PROVE  wr' \in SnapWork /\ wr'.pc = "wipe" /\ wr'.got = zip[s].files
  <1>1. wr' = [NoWork EXCEPT !.pc = "wipe", !.snap = s, !.got = zip[s].files]
    BY DEF RestoreRead
  <1>2. zip[s].files \in SUBSET Entry
    BY DEF TypeOK, Zips
  <1> QED BY <1>1, <1>2, NoWorkIs DEF FileWork, SnapWork, SnapPcs

(***************************************************************************)
(* The core of the invariant: what the bytes and the texts of files rest on. *)
(***************************************************************************)
CoreInv == TypeOK /\ FilesInv /\ OffloadInv /\ OrphanInv /\ SetInv /\ ReaderInv /\ TextFresh

LEMMA CoreInit == ASSUME Init PROVE CoreInv
  <1> USE DEF Init
  <1>1. TypeOK
    <2>1. NoRow \in AttachedFiles /\ NoText \in Texts /\ NoZip \in Zips /\ NoRead \in Reads
      BY DEF AttachedFiles, NoRow, Bytes, Texts, NoText, Zips, NoZip, Reads, NoRead
    <2>2. Working(wr)
      BY NoWorkIs, WorkKinds
    <2>3. off \in Offloads /\ orph \in Purges
      BY DEF Offloads, NoOffload, Purges
    <2>4. Null \in Bytes /\ 0 \in 0 .. MaxWrites /\ 0 \in 0 .. MaxFaults
      BY FileConstants DEF FileConstants, Bytes
    <2> QED BY <2>1, <2>2, <2>3, <2>4 DEF TypeOK, Working
  <1>2. FilesInv
    BY DEF Init, FilesInv, ContentKept, Unused, NoRow, NoText, Live, NeedsCold
  <1>3. OffloadInv /\ OrphanInv /\ ReaderInv /\ TextFresh
    BY DEF Init, OffloadInv, NoOffload, OrphanInv, ReaderInv, NoRead, TextFresh, NoText
  <1>4. SetInv
    BY NoWorkIs DEF Init, SetInv, SetPcs
  <1> QED BY <1>1, <1>2, <1>3, <1>4 DEF CoreInv

\* What a step may do to the rest: begin, go on with or end other work.
Aside ==
  /\ Working(wr') /\ (wr' = wr \/ Ready(wr'))
  /\ zip' \in [Snaps -> Zips]
  /\ online' \in BOOLEAN /\ session' \in {"live", "deleted", "purged"}
  /\ sweep' \in {"list", "zips", "delete"}
  /\ writes' \in 0 .. MaxWrites /\ faults' \in 0 .. MaxFaults

LEMMA SetInvAside ==
  ASSUME SetInv, wr' = wr \/ Ready(wr'),
         \A f \in Files : /\ Live(f)' => Live(f) /\ cold'[f] = cold[f]
                          /\ Unused(f)' => Unused(f)
                          /\ NeedsCold(row[f].db) => NeedsCold(row[f].db)'
                          /\ want'[f] = want[f] /\ (text'[f].made => text'[f] = text[f])
  PROVE  SetInv'
  <1>1. CASE wr' = wr
    BY <1>1 DEF SetInv, SetPcs
  <1>2. CASE Ready(wr')
    BY <1>2 DEF SetInv, SetPcs, Ready
  <1> QED BY <1>1, <1>2

LEMMA QuietStep ==
  ASSUME CoreInv, Aside, UNCHANGED <<row, cold, text, want, rd, off, orph>>
  PROVE  CoreInv'
  <1>1. TypeOK'
    BY DEF CoreInv, TypeOK, Aside, Working
  <1>2. FilesInv' /\ OffloadInv' /\ OrphanInv' /\ TextFresh'
    BY DEF CoreInv, FilesInv, OffloadInv, OrphanInv, TextFresh, Unused, Live, NeedsCold, ContentKept, GetBinaryData
  <1>3. SetInv'
    BY SetInvAside DEF CoreInv, Aside, Live, Unused, NeedsCold
  <1>4. ReaderInv'
    BY DEF CoreInv, Aside, Ready, ReaderInv, Sees, Live, Unused, NeedsCold, GetBinaryData
  <1> QED BY <1>1, <1>2, <1>3, <1>4 DEF CoreInv

\* Rows go, with their texts.
LEMMA Deleted ==
  ASSUME TypeOK, NEW F \in SUBSET Files, DeleteRows(F)
  PROVE  /\ row' \in [Files -> AttachedFiles] /\ text' \in [Files -> Texts]
         /\ \A f \in F : row'[f].st = "gone" /\ row'[f].db = Null /\ ~text'[f].made
         /\ \A f \in Files \ F : row'[f] = row[f] /\ text'[f] = text[f]
         /\ off.f \notin F
  BY DEF TypeOK, DeleteRows, Unlocked, NoRow, NoText, AttachedFiles, Texts, Bytes

LEMMA DeleteStep ==
  ASSUME CoreInv, Aside, NEW F \in SUBSET Files, DeleteRows(F), UNCHANGED <<cold, want, rd, off, orph>>
  PROVE  CoreInv'
  <1>1. TypeOK'
    BY Deleted DEF CoreInv, TypeOK, Aside, Working
  <1>2. /\ \A f \in F : row'[f].st = "gone" /\ row'[f].db = Null /\ ~text'[f].made
        /\ \A f \in Files \ F : row'[f] = row[f] /\ text'[f] = text[f]
        /\ off.f \notin F
    BY Deleted DEF CoreInv
  <1>3. FilesInv'
    BY <1>2 DEF CoreInv, FilesInv, Unused, Live, NeedsCold, ContentKept, GetBinaryData
  <1>4. /\ OffloadInv'
        /\ OrphanInv'
        /\ TextFresh'
    <2>1. OffloadInv'
      BY <1>2 DEF CoreInv, OffloadInv, Live, NeedsCold
    <2>2. orph.ids \in SUBSET Files
      BY DEF CoreInv, TypeOK, Purges
    <2>3. OrphanInv'
      BY <1>2, <2>2 DEF CoreInv, OrphanInv, Unused
    <2>4. TextFresh'
      BY <1>2 DEF CoreInv, TextFresh
    <2> QED BY <2>1, <2>3, <2>4
  <1>5. SetInv'
    BY <1>2, SetInvAside DEF CoreInv, Aside, Live, Unused, NeedsCold
  <1>6. ReaderInv'
    BY <1>2 DEF CoreInv, Aside, Ready, ReaderInv, Sees, Live, Unused, NeedsCold, GetBinaryData
  <1> QED BY <1>1, <1>3, <1>4, <1>5, <1>6 DEF CoreInv

\* The work in hand, by its step.
LEMMA InHand ==
  ASSUME TypeOK
  PROVE  /\ wr.pc \notin SnapPcs => wr \in FileWork
         /\ wr.pc \in SnapPcs => wr \in SnapWork
         /\ wr \in FileWork \/ wr \in SnapWork
         /\ Working(NoWork) /\ Ready(NoWork)
  BY NoWorkIs, WorkKinds DEF TypeOK, Ready, SetPcs

\* Steps of the writer that leave files, rows and texts as they are.
LEMMA WriterQuiet ==
  ASSUME CoreInv,
         \/ \E n \in Names : SaveOutput(n)
         \/ Append \/ SaveImage \/ UploadFile \/ PurgeUnusedImages \/ ScanReport
         \/ \E s \in Snaps : CreateSnapshot(s) \/ RestoreRead(s)
         \/ SnapshotFiles \/ BuildZip \/ StoreZip
  PROVE  Working(wr') /\ Ready(wr')
  <1> USE DEF CoreInv
  <1>1. CASE \E n \in Names : SaveOutput(n)
    BY <1>1, SaveOutputDoes, WorkKinds DEF Ready, SetPcs
  <1>2. CASE Append
    <2>1. wr \in FileWork /\ wr.pc = "append" /\ wr.data \in Contents /\ wr.data # {}
      BY <1>2, InHand DEF Append, FileWork, SnapPcs, SetInv, Bytes
    <2>2. \A i \in wr.left : AppendBase(i) \in Bytes
      BY <2>1, BytesRead DEF FileWork, Instance, AppendBase, TypeOK, Texts
    <2>3. PICK d \in Contents, b \in BOOLEAN :
            wr' = [wr EXCEPT !.pc = "delete", !.sound = b, !.data = @ \cup d]
      <3>1. CASE wr' = [wr EXCEPT !.pc = "delete", !.sound = FALSE]
        <4>1. wr' = [wr EXCEPT !.pc = "delete", !.sound = FALSE, !.data = @ \cup {}]
          BY <2>1, <3>1 DEF FileWork
        <4> QED BY <4>1 DEF Contents
      <3>2. ASSUME NEW i \in wr.left,
                   wr' = [wr EXCEPT !.pc = "delete", !.sound = ~text[i.f].met,
                             !.data = @ \cup (IF AppendBase(i) = Null THEN {} ELSE AppendBase(i))]
            PROVE  \E d \in Contents, b \in BOOLEAN :
                     wr' = [wr EXCEPT !.pc = "delete", !.sound = b, !.data = @ \cup d]
        <4>1. (IF AppendBase(i) = Null THEN {} ELSE AppendBase(i)) \in Contents
          BY <2>2 DEF Bytes, Contents
        <4> QED BY <3>2, <4>1
      <3> QED BY <1>2, <3>1, <3>2 DEF Append
    <2>4. wr' \in FileWork /\ wr'.pc = "delete" /\ wr'.data = wr.data \cup d
      BY <2>1, <2>3 DEF FileWork, Bytes, Contents
    <2>5. wr'.data \notin {Null, {}}
      BY <2>1, <2>3, <2>4, FileConstants DEF FileConstants, Contents
    <2> QED BY <2>4, <2>5, WorkKinds DEF Ready, SetPcs
  <1>3. CASE SaveImage \/ UploadFile
    BY <1>3, SaveImageDoes, UploadFileDoes, WorkKinds DEF Ready, SetPcs
  <1>4. CASE PurgeUnusedImages
    BY <1>4, PurgeUnusedImagesDoes, WorkKinds DEF Ready, SetPcs
  <1>5. CASE ScanReport
    <2>1. wr \in FileWork /\ wr.pc = "scan"
      BY <1>5, InHand DEF ScanReport, SnapPcs
    <2>2. wr' \in FileWork /\ wr'.pc \in {"idle", "scan", "drop"}
      <3>1. CASE wr' = [wr EXCEPT !.pc = "drop"] \/ wr' = NoWork
        BY <3>1, <2>1, NoWorkIs DEF FileWork
      <3>2. CASE ~(wr' = [wr EXCEPT !.pc = "drop"] \/ wr' = NoWork)
        <4>1. PICK i : \/ wr' = [wr EXCEPT !.left = @ \ {i}]
                       \/ wr' = [wr EXCEPT !.left = @ \ {i}, !.sound = FALSE]
          BY <1>5, <3>2 DEF ScanReport
        <4> QED BY <2>1, <4>1 DEF FileWork
      <3> QED BY <3>1, <3>2
    <2> QED BY <2>2, WorkKinds DEF Ready, SetPcs
  <1>6. CASE \E s \in Snaps : CreateSnapshot(s) \/ RestoreRead(s)
    BY <1>6, CreateSnapshotDoes, RestoreReadDoes, WorkKinds DEF Ready, SetPcs
  <1>7. CASE SnapshotFiles
    <2>1. wr \in SnapWork /\ wr.pc = "files"
      BY <1>7, InHand DEF SnapshotFiles, SnapPcs
    <2> DEFINE F == {f \in Files : Live(f)}
               u == {[name |-> row[f].name, data |-> want[f]] : f \in {g \in F : want[g] # Null}}
    <2>2. Instances(F) \in SUBSET Instance
      BY Loading
    <2>3. u \in SUBSET Entry
      <3>1. \A g \in Files : want[g] # Null => [name |-> row[g].name, data |-> want[g]] \in Entry
        BY Columns DEF Entry, Bytes
      <3> QED BY <3>1
    <2>4. wr' = [wr EXCEPT !.pc = "zip", !.left = Instances(F), !.due = u]
      BY <1>7 DEF SnapshotFiles
    <2> HIDE DEF F, u
    <2>5. wr' \in SnapWork /\ wr'.pc = "zip"
      BY <2>1, <2>2, <2>3, <2>4 DEF SnapWork, SnapPcs
    <2> QED BY <2>5, WorkKinds DEF Ready, SetPcs
  <1>8. CASE BuildZip
    <2>1. wr \in SnapWork /\ wr.pc = "zip"
      BY <1>8, InHand DEF BuildZip, SnapPcs
    <2>2. \A i \in wr.left : /\ [name |-> row[i.f].name, data |-> OrEmpty(Zipped(i))] \in Entry
                             /\ [name |-> row[i.f].name, data |-> {}] \in Entry
      <3>1. \A i \in wr.left : i.f \in Files /\ i.db \in Bytes
        BY <2>1 DEF SnapWork, Instance
      <3>2. \A i \in wr.left : Zipped(i) \in Bytes /\ row[i.f].name \in Names \cup {""}
        BY <3>1, BytesRead, Columns DEF Zipped
      <3>3. \A i \in wr.left : OrEmpty(Zipped(i)) \in Bytes \ {Null} /\ {} \in Bytes \ {Null}
        BY <3>2, FileConstants DEF OrEmpty, Bytes, Contents, FileConstants
      <3> QED BY <3>2, <3>3 DEF Entry
    <2>3. PICK i \in wr.left, e \in Entry :
            \/ wr' = [wr EXCEPT !.left = @ \ {i}, !.got = @ \cup {e}]
            \/ wr' = [wr EXCEPT !.left = @ \ {i}, !.sound = FALSE, !.got = @ \cup {e}]
      BY <1>8, <2>2 DEF BuildZip
    <2> DEFINE L == wr.left \ {i}
               G == wr.got \cup {e}
    <2>4. L \in SUBSET Instance /\ G \in SUBSET Entry
      BY <2>1, <2>3 DEF SnapWork
    <2>5. wr' = [wr EXCEPT !.left = L, !.got = G] \/ wr' = [wr EXCEPT !.left = L, !.sound = FALSE, !.got = G]
      BY <2>1, <2>3
    <2> HIDE DEF L, G
    <2>6. wr' \in SnapWork /\ wr'.pc = "zip"
      BY <2>1, <2>4, <2>5 DEF SnapWork
    <2> QED BY <2>6, WorkKinds DEF Ready, SetPcs
  <1>9. CASE StoreZip
    BY <1>9, InHand DEF StoreZip
  <1> QED BY <1>1, <1>2, <1>3, <1>4, <1>5, <1>6, <1>7, <1>8, <1>9

LEMMA StoreZipTyped ==
  ASSUME TypeOK, StoreZip
  PROVE  zip' \in [Snaps -> Zips]
  <1>1. wr \in SnapWork
    BY InHand DEF StoreZip, SnapPcs
  <1>2. wr.got \in SUBSET Entry /\ wr.due \in SUBSET Entry /\ wr.sound \in BOOLEAN /\ wr.snap \in Snaps
    BY <1>1 DEF SnapWork
  <1>3. \A z \in Zips : [z EXCEPT !.st = "orphan"] \in Zips
    BY DEF Zips
  <1>4. [st |-> "stored", files |-> wr.got, due |-> wr.due, sound |-> wr.sound] \in Zips
    BY <1>2 DEF Zips
  <1>5. zip \in [Snaps -> Zips]
    BY DEF TypeOK
  <1> QED BY <1>2, <1>3, <1>4, <1>5 DEF StoreZip

LEMMA CoreWriterQuiet ==
  ASSUME CoreInv,
         \/ \E n \in Names : SaveOutput(n)
         \/ Append \/ SaveImage \/ UploadFile \/ PurgeUnusedImages \/ ScanReport
         \/ \E s \in Snaps : CreateSnapshot(s) \/ RestoreRead(s)
         \/ SnapshotFiles \/ BuildZip \/ StoreZip
  PROVE  CoreInv'
  <1>1. Working(wr') /\ Ready(wr')
    BY WriterQuiet
  <1>2. UNCHANGED <<row, cold, text, want, rd, off, orph, online, session, sweep>>
    BY DEF SaveOutput, Append, SaveImage, UploadFile, PurgeUnusedImages, ScanReport, CreateSnapshot, RestoreRead,
           SnapshotFiles, BuildZip, StoreZip, dbVars, tally
  <1>3. writes' \in 0 .. MaxWrites /\ (Works \/ Fails \/ Unavailable \/ UNCHANGED faults)
    BY SaveOutputDoes, SaveImageDoes, UploadFileDoes
       DEF CoreInv, TypeOK, SaveOutput, Append, SaveImage, UploadFile, PurgeUnusedImages, ScanReport, CreateSnapshot,
           RestoreRead, SnapshotFiles, BuildZip, StoreZip, tally
  <1>4. zip' \in [Snaps -> Zips]
    <2>1. CASE StoreZip
      BY <2>1, StoreZipTyped DEF CoreInv
    <2>2. CASE \E s \in Snaps : CreateSnapshot(s)
      <3>1. PICK s \in Snaps : zip' = [zip EXCEPT ![s].st = "row"]
        BY <2>2 DEF CreateSnapshot
      <3>2. zip \in [Snaps -> Zips] /\ \A z \in Zips : [z EXCEPT !.st = "row"] \in Zips
        BY DEF Zips, CoreInv, TypeOK
      <3> QED BY <3>1, <3>2
    <2>3. CASE zip' = zip
      BY <2>3 DEF CoreInv, TypeOK
    <2> QED BY <2>1, <2>2, <2>3
            DEF SaveOutput, Append, SaveImage, UploadFile, PurgeUnusedImages, ScanReport, RestoreRead, SnapshotFiles, BuildZip
  <1>5. faults' \in 0 .. MaxFaults
    BY <1>3, Counted DEF CoreInv, TypeOK
  <1>6. Aside
    BY <1>1, <1>2, <1>3, <1>4, <1>5 DEF Aside, CoreInv, TypeOK
  <1> QED BY <1>2, <1>6, QuietStep

\* Steps that delete rows.
LEMMA CoreDeletes ==
  ASSUME CoreInv, DeleteOld \/ (\E f \in Files : DeleteFile(f)) \/ DropImages \/ RestoreWipe \/ SweepDelete
  PROVE  CoreInv'
  <1> USE DEF CoreInv
  <1>0. Working(wr) /\ zip \in [Snaps -> Zips] /\ writes' \in 0 .. MaxWrites /\ faults' \in 0 .. MaxFaults
    BY DEF TypeOK, Working, tally, DeleteOld, DeleteFile, DropImages, RestoreWipe, SweepDelete
  <1>1. CASE DeleteOld
    <2>1. wr \in FileWork /\ wr.pc = "delete" /\ wr' = [wr EXCEPT !.pc = "create"]
      BY <1>1, InHand DEF DeleteOld, SnapPcs
    <2>2. wr' \in FileWork /\ wr'.pc = "create" /\ wr'.data = wr.data
      BY <2>1 DEF FileWork
    <2>3. Working(wr') /\ Ready(wr')
      BY <2>1, <2>2, WorkKinds DEF Ready, SetPcs, SetInv
    <2>4. Named(wr.name) \in SUBSET Files
      BY Columns
    <2> QED BY <1>0, <1>1, <2>3, <2>4, DeleteStep DEF DeleteOld, Aside, TypeOK
  <1>2. ASSUME NEW f \in Files, DeleteFile(f) PROVE CoreInv'
    BY <1>0, <1>2, DeleteStep DEF DeleteFile, Aside, TypeOK
  <1>3. CASE DropImages
    <2>1. Named("image") \in SUBSET Files
      BY Columns
    <2> QED BY <1>0, <1>3, <2>1, InHand, DeleteStep DEF DropImages, Aside, TypeOK
  <1>4. CASE RestoreWipe
    <2>1. wr \in SnapWork
      BY <1>4, InHand DEF RestoreWipe, SnapPcs
    <2>2. [wr EXCEPT !.pc = "refill"] \in SnapWork /\ [wr EXCEPT !.pc = "refill"].pc = "refill"
      BY <2>1 DEF SnapWork, SnapPcs
    <2>3. Working(wr') /\ Ready(wr')
      <3>1. Working([wr EXCEPT !.pc = "refill"]) /\ Ready([wr EXCEPT !.pc = "refill"])
        BY <2>2, WorkKinds DEF Ready, SetPcs
      <3> QED BY <1>4, <3>1, InHand DEF RestoreWipe
    <2>4. Aside
      BY <1>0, <1>4, <2>3 DEF RestoreWipe, Aside, TypeOK
    <2>5. CASE DeleteRows({f \in Files : Live(f)})
      <3>1. {f \in Files : Live(f)} \in SUBSET Files
        OBVIOUS
      <3> QED BY <1>4, <2>4, <2>5, <3>1, DeleteStep DEF RestoreWipe
    <2>6. CASE UNCHANGED <<row, text>>
      BY <1>4, <2>4, <2>6, QuietStep DEF RestoreWipe
    <2> QED BY <1>4, <2>5, <2>6 DEF RestoreWipe
  <1>5. CASE SweepDelete
    <2>1. zip' \in [Snaps -> Zips]
      <3>1. NoZip \in Zips
        BY DEF NoZip, Zips
      <3>2. \A s : [NoZip EXCEPT !.st = IF zip[s].st = "stored" THEN "orphan" ELSE "gone"] \in Zips
        BY <3>1 DEF NoZip, Zips
      <3> QED BY <1>0, <1>5, <3>2 DEF SweepDelete
    <2>2. Aside
      BY <1>0, <1>5, <2>1 DEF SweepDelete, Aside, TypeOK
    <2>3. CASE DeleteRows({f \in Files : Live(f)})
      <3>1. {f \in Files : Live(f)} \in SUBSET Files
        OBVIOUS
      <3> QED BY <1>5, <2>2, <2>3, <3>1, DeleteStep DEF SweepDelete
    <2>4. CASE UNCHANGED <<row, text>>
      BY <1>5, <2>2, <2>4, QuietStep DEF SweepDelete
    <2> QED BY <1>5, <2>3, <2>4 DEF SweepDelete
  <1> QED BY <1>1, <1>2, <1>3, <1>4, <1>5

(***************************************************************************)
(* A new row.                                                              *)
(***************************************************************************)
LEMMA Inserted ==
  ASSUME CoreInv, NEW f \in Files, NEW n \in Names \cup {""}, NEW b \in Bytes, Insert(f, n, b)
  PROVE  /\ Unused(f) /\ cold[f] = Null /\ want[f] = Null /\ ~text[f].made
         /\ row' \in [Files -> AttachedFiles]
         /\ row'[f].st = "live" /\ row'[f].name = n /\ row'[f].db = b
         /\ \A g \in Files \ {f} : row'[g] = row[g]
         /\ off.f # f /\ (orph.pc # "list" => f \notin orph.ids) /\ (rd.pc # "idle" => rd.f # f)
  <1>1. Unused(f) /\ ~Live(f)
    BY NoRowIs DEF Insert, Unused, Live
  <1>2. row' \in [Files -> AttachedFiles] /\ row' = [row EXCEPT ![f] = [st |-> "live", name |-> n, db |-> b]]
    <2>1. [st |-> "live", name |-> n, db |-> b] \in AttachedFiles
      BY DEF AttachedFiles
    <2> QED BY <2>1 DEF CoreInv, TypeOK, Insert
  <1>3. /\ row'[f].st = "live" /\ row'[f].name = n /\ row'[f].db = b
        /\ \A g \in Files \ {f} : row'[g] = row[g]
    BY <1>2 DEF CoreInv, TypeOK
  <1>4. off.f # f
    BY <1>1, FileConstants DEF FileConstants, CoreInv, OffloadInv
  <1>5. (orph.pc # "list" => f \notin orph.ids) /\ (rd.pc # "idle" => rd.f # f)
    BY <1>1 DEF CoreInv, OrphanInv, ReaderInv
  <1>6. cold[f] = Null /\ want[f] = Null /\ ~text[f].made
    BY <1>1 DEF CoreInv, FilesInv
  <1> QED BY <1>1, <1>2, <1>3, <1>4, <1>5, <1>6

\* A row whose bytes are its finished write, or that is about to be given them.
LEMMA InsertStep ==
  ASSUME CoreInv, NEW f \in Files, NEW n \in Names \cup {""}, NEW b \in Bytes, Insert(f, n, b),
         want' = want \/ want' = [want EXCEPT ![f] = b],
         \/ Ready(wr')
         \/ /\ wr'.pc = "clear" /\ wr'.f = f /\ wr'.data \notin {Null, {}} /\ b = Null,
         Working(wr'), UNCHANGED <<text, session, cold, zip, online, rd, off, orph, sweep, tally>>
  PROVE  CoreInv'
  <1>1. /\ Unused(f) /\ cold[f] = Null /\ want[f] = Null /\ ~text[f].made
        /\ row' \in [Files -> AttachedFiles]
        /\ row'[f].st = "live" /\ row'[f].name = n /\ row'[f].db = b
        /\ \A g \in Files \ {f} : row'[g] = row[g]
        /\ off.f # f /\ (orph.pc # "list" => f \notin orph.ids) /\ (rd.pc # "idle" => rd.f # f)
    BY Inserted
  <1>2. /\ want' \in [Files -> Bytes]
        /\ want'[f] = Null \/ want'[f] = b
        /\ \A g \in Files \ {f} : want'[g] = want[g]
    BY <1>1 DEF CoreInv, TypeOK
  <1>3. TypeOK'
    BY <1>1, <1>2 DEF CoreInv, TypeOK, Working, tally
  <1>4. FilesInv'
    <2>1. \A g \in Files : Unused(g)' => row'[g] = NoRow /\ cold'[g] = Null /\ want'[g] = Null
      BY <1>1, <1>2, ZenonT(30) DEF CoreInv, FilesInv, Unused
    <2>2. \A g \in Files : want'[g] = {} => cold'[g] = Null /\ NeedsCold(row[g].db)'
      BY <1>1, <1>2, NullIsNotEmpty DEF CoreInv, FilesInv, NeedsCold
    <2>3. \A g \in Files : text'[g].made => Live(g)'
      BY <1>1 DEF CoreInv, FilesInv, Live
    <2>4. ContentKept'
      BY <1>1, <1>2, ZenonT(30) DEF CoreInv, FilesInv, ContentKept, Live, GetBinaryData
    <2> QED BY <2>1, <2>2, <2>3, <2>4 DEF FilesInv
  <1>5. OffloadInv'
    BY <1>1, <1>2 DEF CoreInv, OffloadInv, Live, NeedsCold
  <1>6. OrphanInv'
    <2>1. orph.ids \in SUBSET Files
      BY DEF CoreInv, TypeOK, Purges
    <2> QED BY <1>1, <2>1 DEF CoreInv, OrphanInv, Unused
  <1>7. TextFresh'
    BY <1>1, <1>2 DEF CoreInv, TextFresh
  <1>8. SetInv'
    BY <1>1 DEF SetInv, Ready, SetPcs, Unused, NeedsCold
  <1>9. ReaderInv'
    BY <1>1, <1>2 DEF CoreInv, ReaderInv, Ready, Sees, Live, Unused, NeedsCold, GetBinaryData
  <1> QED BY <1>3, <1>4, <1>5, <1>6, <1>7, <1>8, <1>9 DEF CoreInv

LEMMA CoreInserts ==
  ASSUME CoreInv, Create \/ RestoreFile
  PROVE  CoreInv'
  <1>1. CASE Create
    <2>1. wr \in FileWork /\ wr.pc = "create" /\ wr.data \notin {Null, {}}
      BY <1>1, InHand DEF CoreInv, Create, SnapPcs, SetInv
    <2>2. wr.data \in Bytes /\ wr.name \in Names \cup {""} /\ Null \in Bytes
      BY <2>1 DEF FileWork, Bytes
    <2>3. PICK f \in Files :
            IF wr.name = "input"
            THEN /\ Insert(f, wr.name, wr.data)
                 /\ want' = [want EXCEPT ![f] = wr.data]
                 /\ wr' = NoWork
            ELSE /\ Insert(f, wr.name, Null)
                 /\ wr' = [wr EXCEPT !.pc = "clear", !.f = f, !.name = "", !.due = {}, !.sound = TRUE]
                 /\ UNCHANGED want
      BY <1>1 DEF Create
    <2>4. UNCHANGED <<text, session, cold, zip, online, rd, off, orph, sweep, tally>>
      BY <1>1 DEF Create
    <2>5. CASE wr.name = "input"
      BY <2>2, <2>3, <2>4, <2>5, InHand, InsertStep DEF CoreInv
    <2>6. CASE wr.name # "input"
      <3>0. wr' = [wr EXCEPT !.pc = "clear", !.f = f, !.name = "", !.due = {}, !.sound = TRUE]
        BY <2>3, <2>6
      <3>1. wr' \in FileWork /\ wr'.pc = "clear" /\ wr'.f = f /\ wr'.data = wr.data
        BY <2>1, <3>0 DEF FileWork, SetPcs
      <3>2. Working(wr')
        BY <3>1, WorkKinds
      <3> QED BY <2>1, <2>2, <2>3, <2>4, <2>6, <3>1, <3>2, InsertStep
    <2> QED BY <2>5, <2>6
  <1>2. CASE RestoreFile
    <2>1. wr \in SnapWork /\ wr.pc = "refill"
      BY <1>2, InHand DEF CoreInv, RestoreFile, SnapPcs
    <2>2. UNCHANGED <<text, session, cold, zip, online, rd, off, orph, sweep, tally>>
      BY <1>2 DEF RestoreFile
    <2>3. CASE wr' = NoWork /\ UNCHANGED <<row, want>>
      <3>1. Aside
        BY <2>2, <2>3, InHand DEF Aside, CoreInv, TypeOK, tally
      <3> QED BY <2>2, <2>3, <3>1, QuietStep
    <2>4. CASE ~(wr' = NoWork /\ UNCHANGED <<row, want>>)
      <3>1. PICK e \in wr.got, f \in Files :
              /\ Insert(f, e.name, e.data)
              /\ want' = [want EXCEPT ![f] = e.data]
              /\ wr' = [wr EXCEPT !.got = @ \ {e}]
        BY <1>2, <2>4 DEF RestoreFile
      <3>2. e.name \in Names \cup {""} /\ e.data \in Bytes
        BY <2>1, <3>1 DEF SnapWork, Entry, Bytes
      <3>3. wr' \in SnapWork /\ wr'.pc = "refill"
        BY <2>1, <3>1 DEF SnapWork
      <3>4. Working(wr') /\ Ready(wr')
        BY <3>3, WorkKinds DEF Ready, SetPcs
      <3> QED BY <2>2, <3>1, <3>2, <3>4, InsertStep
    <2> QED BY <2>3, <2>4
  <1> QED BY <1>1, <1>2

(***************************************************************************)
(* New bytes for a file.                                                   *)
(***************************************************************************)
LEMMA CoreReplace ==
  ASSUME CoreInv, NEW f \in Files, ReplaceContent(f)
  PROVE  CoreInv'
  <1>1. /\ wr' \in FileWork /\ wr'.pc = "clear" /\ wr'.data \notin {Null, {}}
        /\ wr'.f = f /\ wr'.imm = FALSE /\ writes' \in 0 .. MaxWrites /\ Live(f)
    BY ReplaceContentDoes DEF CoreInv, ReplaceContent
  <1>2. UNCHANGED <<row, text, session, cold, zip, online, off, orph, sweep, want, faults>>
    BY DEF ReplaceContent, dbVars
  <1>3. /\ rd' \in Reads /\ rd'.pc = rd.pc /\ rd'.f = rd.f /\ rd'.db = rd.db /\ rd'.was = rd.was /\ rd'.got = rd.got
        /\ rd.f = f => rd'.met
        /\ rd.f # f => rd' = rd
    BY DEF CoreInv, TypeOK, Reads, ReplaceContent
  <1>4. TypeOK'
    BY <1>1, <1>2, <1>3, WorkKinds DEF CoreInv, TypeOK, Working
  <1>5. FilesInv' /\ OffloadInv' /\ OrphanInv' /\ TextFresh'
    BY <1>2 DEF CoreInv, FilesInv, OffloadInv, OrphanInv, TextFresh, Unused, Live, NeedsCold, ContentKept, GetBinaryData
  <1>6. SetInv'
    BY <1>1, <1>2 DEF SetInv, SetPcs, Unused, Live
  <1>7. ReaderInv'
    BY <1>1, <1>2, <1>3 DEF CoreInv, ReaderInv, Sees, Live, Unused, NeedsCold, GetBinaryData
  <1> QED BY <1>4, <1>5, <1>6, <1>7 DEF CoreInv

LEMMA CoreClear ==
  ASSUME CoreInv, SetClear
  PROVE  CoreInv'
  <1> DEFINE f == wr.f
  <1>1. wr \in FileWork /\ wr.pc = "clear" /\ f \in Files /\ ~Unused(f) /\ wr.data \notin {Null, {}} /\ wr.data \in Bytes
    BY InHand DEF CoreInv, SetClear, SnapPcs, SetInv, SetPcs, FileWork
  <1>2. /\ wr' \in FileWork /\ wr'.pc = (IF wr.imm THEN "store" ELSE "save") /\ wr'.f = f /\ wr'.data = wr.data
        /\ wr'.imm = wr.imm /\ wr'.got = wr.data
    BY <1>1 DEF SetClear, FileWork, SetPcs
  <1>3. /\ cold' \in [Files -> Bytes] /\ text' \in [Files -> Texts] /\ want' \in [Files -> Bytes]
        /\ want'[f] = Null /\ ~text'[f].made /\ (cold'[f] = Null \/ cold'[f] = cold[f])
        /\ \A g \in Files \ {f} : want'[g] = want[g] /\ text'[g] = text[g] /\ cold'[g] = cold[g]
    BY <1>1 DEF SetClear, CoreInv, TypeOK, DropText, NoText, Texts, Bytes
  <1>4. UNCHANGED <<row, session, zip, online, rd, off, orph, sweep, writes>>
    BY DEF SetClear
  <1>5. TypeOK'
    <2>1. faults' \in 0 .. MaxFaults
      BY Counted DEF SetClear, CoreInv, TypeOK
    <2>2. Working(wr')
      BY <1>2, WorkKinds
    <2> QED BY <1>3, <1>4, <2>1, <2>2 DEF CoreInv, TypeOK, Working
  <1> HIDE DEF f
  <1>6. FilesInv'
    BY <1>1, <1>3, <1>4, NullIsNotEmpty DEF CoreInv, FilesInv, Unused, Live, NeedsCold, ContentKept, GetBinaryData
  <1>7. OffloadInv'
    BY <1>3, <1>4 DEF CoreInv, OffloadInv, Live, NeedsCold
  <1>8. OrphanInv'
    BY <1>4 DEF CoreInv, OrphanInv, Unused
  <1>9. SetInv'
    <2>1. wr.imm => NeedsCold(row[f].db)
      BY <1>1 DEF CoreInv, SetInv, SetPcs, f
    <2> QED BY <1>1, <1>2, <1>3, <1>4, <2>1 DEF SetInv, SetPcs, Unused, Live, NeedsCold
  <1>10. ReaderInv'
    <2>1. rd.pc # "idle" /\ rd.f = f => rd.met
      BY <1>1 DEF CoreInv, ReaderInv, SetPcs, f
    <2> QED BY <1>1, <1>2, <1>3, <1>4, <2>1 DEF CoreInv, ReaderInv, Sees, Live, Unused, NeedsCold, GetBinaryData
  <1>11. TextFresh'
    BY <1>3, <1>4 DEF CoreInv, TextFresh
  <1> QED BY <1>5, <1>6, <1>7, <1>8, <1>9, <1>10, <1>11 DEF CoreInv

LEMMA CoreStore ==
  ASSUME CoreInv, SetStore
  PROVE  CoreInv'
  <1> DEFINE f == wr.f
  <1>1. /\ wr \in FileWork /\ wr.pc = "store" /\ f \in Files /\ ~Unused(f) /\ wr.data \notin {Null, {}}
        /\ wr.data \in Bytes /\ wr.imm /\ NeedsCold(row[f].db) /\ want[f] = Null
        /\ text[f].made => text[f].met
    BY InHand DEF CoreInv, SetStore, SnapPcs, SetInv, SetPcs, FileWork
  <1>2. /\ \/ cold' = [cold EXCEPT ![f] = wr.data] /\ wr' = [wr EXCEPT !.pc = "save", !.got = Null]
           \/ cold' = cold /\ wr' = [wr EXCEPT !.pc = "save", !.got = wr.data]
        /\ UNCHANGED <<row, text, session, zip, online, rd, off, orph, sweep, want, writes>>
        /\ Works \/ Unavailable
    BY DEF SetStore, ForColumn, dbVars
  <1>3. /\ wr' \in FileWork /\ wr'.pc = "save" /\ wr'.f = f /\ wr'.data = wr.data /\ wr'.imm = wr.imm
        /\ (wr'.got = Null /\ cold'[f] = wr.data) \/ wr'.got = wr.data
    <2>1. Null \in Bytes
      BY DEF Bytes
    <2>2. cold \in [Files -> Bytes]
      BY DEF CoreInv, TypeOK
    <2>3. CASE cold' = [cold EXCEPT ![f] = wr.data] /\ wr' = [wr EXCEPT !.pc = "save", !.got = Null]
      BY <1>1, <2>1, <2>2, <2>3 DEF FileWork, SetPcs
    <2>4. CASE wr' = [wr EXCEPT !.pc = "save", !.got = wr.data]
      BY <1>1, <2>4 DEF FileWork, SetPcs
    <2> QED BY <1>2, <2>3, <2>4
  <1>4. cold' \in [Files -> Bytes] /\ \A g \in Files \ {f} : cold'[g] = cold[g]
    BY <1>1, <1>2 DEF CoreInv, TypeOK
  <1>5. TypeOK'
    <2>1. faults' \in 0 .. MaxFaults
      BY <1>2, Counted DEF CoreInv, TypeOK
    <2>2. Working(wr')
      BY <1>3, WorkKinds
    <2> QED BY <1>2, <1>4, <2>1, <2>2 DEF CoreInv, TypeOK, Working
  <1> HIDE DEF f
  <1>6. FilesInv'
    BY <1>1, <1>2, <1>4, NullIsNotEmpty DEF CoreInv, FilesInv, Unused, Live, NeedsCold, ContentKept, GetBinaryData
  <1>7. OffloadInv'
    BY <1>1, <1>2, <1>4 DEF CoreInv, OffloadInv, Live, NeedsCold
  <1>8. OrphanInv'
    BY <1>2 DEF CoreInv, OrphanInv, Unused
  <1>9. SetInv'
    BY <1>1, <1>2, <1>3 DEF SetInv, SetPcs, Unused, Live, NeedsCold
  <1>10. ReaderInv'
    <2>1. rd.pc # "idle" /\ rd.f = f => rd.met
      BY <1>1 DEF CoreInv, ReaderInv, SetPcs, f
    <2> QED BY <1>1, <1>2, <1>3, <1>4, <2>1 DEF CoreInv, ReaderInv, Sees, Live, Unused, NeedsCold, GetBinaryData
  <1>11. TextFresh'
    BY <1>2 DEF CoreInv, TextFresh
  <1> QED BY <1>5, <1>6, <1>7, <1>8, <1>9, <1>10, <1>11 DEF CoreInv

LEMMA CoreSave ==
  ASSUME CoreInv, SetSave
  PROVE  CoreInv'
  <1> DEFINE f == wr.f
  <1>1. /\ wr \in FileWork /\ f \in Files /\ ~Unused(f) /\ wr.data \notin {Null, {}} /\ wr.data \in Bytes
        /\ wr.got \in Bytes
        /\ wr.got = wr.data \/ (wr.got = Null /\ (Live(f) => cold[f] = wr.data))
        /\ want[f] = Null
        /\ text[f].made => text[f].met
    <2>1. wr \in FileWork /\ wr.pc = "save"
      BY InHand DEF CoreInv, SetSave, SnapPcs
    <2>2. wr.data \in Bytes /\ wr.got \in Bytes
      BY <2>1 DEF FileWork
    <2> QED BY <2>1, <2>2 DEF CoreInv, SetInv, SetPcs
  <1>2. UNCHANGED <<text, session, cold, zip, online, rd, off, orph, sweep, tally>> /\ wr' = NoWork
    BY DEF SetSave
  <1>3. CASE ~Live(f)
    <2>1. UNCHANGED <<row, want>>
      BY <1>3 DEF SetSave
    <2> QED BY <1>2, <2>1, InHand, QuietStep DEF Aside, CoreInv, TypeOK, tally
  <1>4. CASE Live(f)
    <2>1. /\ off.f # f
          /\ row' = [row EXCEPT ![f].db = wr.got] /\ want' = [want EXCEPT ![f] = wr.data]
      BY <1>4 DEF SetSave, Unlocked
    <2>2. \A r \in AttachedFiles, b \in Bytes :
            LET q == [r EXCEPT !.db = b] IN q \in AttachedFiles /\ q.st = r.st /\ q.db = b
      BY DEF AttachedFiles
    <2>3. /\ row' \in [Files -> AttachedFiles] /\ want' \in [Files -> Bytes]
          /\ row'[f].st = row[f].st /\ row'[f].db = wr.got /\ want'[f] = wr.data
          /\ \A g \in Files \ {f} : row'[g] = row[g] /\ want'[g] = want[g]
      BY <1>1, <2>1, <2>2 DEF CoreInv, TypeOK
    <2>4. TypeOK'
      BY <1>2, <2>3, InHand DEF CoreInv, TypeOK, Working, tally
    <2>5. FilesInv'
      BY <1>1, <1>2, <1>4, <2>3 DEF CoreInv, FilesInv, Unused, Live, NeedsCold, ContentKept, GetBinaryData
    <2>6. OffloadInv'
      BY <1>2, <2>1, <2>3 DEF CoreInv, OffloadInv, Live, NeedsCold
    <2>7. OrphanInv'
      <3>1. orph.ids \in SUBSET Files
        BY DEF CoreInv, TypeOK, Purges
      <3> QED BY <1>2, <2>3, <3>1 DEF CoreInv, OrphanInv, Unused
    <2>8. SetInv'
      BY <1>2, NoWorkIs DEF SetInv, SetPcs
    <2>9. ReaderInv'
      <3>1. rd.pc # "idle" /\ rd.f = f => rd.met
        BY DEF CoreInv, ReaderInv, SetPcs, SetSave
      <3> QED BY <1>1, <1>2, <2>3, <3>1, NoWorkIs, ZenonT(30)
              DEF CoreInv, ReaderInv, SetPcs, Sees, Live, Unused, NeedsCold, GetBinaryData
    <2>10. TextFresh'
      BY <1>1, <1>2, <2>3 DEF CoreInv, TextFresh
    <2> QED BY <2>4, <2>5, <2>6, <2>7, <2>8, <2>9, <2>10 DEF CoreInv
  <1> QED BY <1>3, <1>4

(***************************************************************************)
(* Readers.                                                                *)
(***************************************************************************)
LEMMA ReaderStep ==
  ASSUME CoreInv, rd' \in Reads, ReaderInv', faults' \in 0 .. MaxFaults,
         UNCHANGED <<dbVars, cold, zip, online, wr, off, orph, sweep, want, writes>>
  PROVE  CoreInv'
  <1>1. TypeOK'
    BY DEF CoreInv, TypeOK, dbVars
  <1>2. FilesInv' /\ OffloadInv' /\ OrphanInv' /\ SetInv' /\ TextFresh'
    BY DEF CoreInv, dbVars, FilesInv, OffloadInv, OrphanInv, SetInv, TextFresh, Unused, Live, NeedsCold, ContentKept,
           GetBinaryData
  <1> QED BY <1>1, <1>2 DEF CoreInv

LEMMA NoReadIs ==
  /\ NoRead \in Reads /\ NoRead.pc = "idle"
  /\ NoRead.got = Null
  BY DEF NoRead, Reads, Bytes

LEMMA CoreReader ==
  ASSUME CoreInv, Reader
  PROVE  CoreInv'
  <1>1. ASSUME NEW f \in Files, Load(f) PROVE CoreInv'
    <2>1. rd' = [NoRead EXCEPT !.pc = "loaded", !.f = f, !.db = row[f].db, !.was = want[f],
                               !.met = wr.f = f /\ wr.pc \in SetPcs]
      BY <1>1 DEF Load
    <2>2. row[f].db \in Bytes /\ want[f] \in Bytes /\ Live(f)
      BY <1>1, Columns DEF Load, CoreInv
    <2> DEFINE met == wr.f = f /\ wr.pc \in SetPcs
    <2>3. met \in BOOLEAN
      OBVIOUS
    <2> HIDE DEF met
    <2>4. /\ rd' \in Reads /\ rd'.pc = "loaded" /\ rd'.f = f /\ rd'.db = row[f].db /\ rd'.was = want[f]
          /\ rd'.met = met
      <3>1. rd' = [NoRead EXCEPT !.pc = "loaded", !.f = f, !.db = row[f].db, !.was = want[f], !.met = met]
        BY <2>1 DEF met
      <3> QED BY <3>1, <2>2, <2>3, NoReadIs DEF Reads
    <2>5. Sees(f, row[f].db, want[f])
      BY <2>2 DEF Sees, CoreInv, FilesInv, ContentKept, Live
    <2>6. ReaderInv'
      BY <1>1, <2>2, <2>4, <2>5 DEF ReaderInv, Load, dbVars, Sees, Live, Unused, NeedsCold, GetBinaryData, met
    <2> QED BY <1>1, <2>4, <2>6, ReaderStep DEF Load, CoreInv, TypeOK, tally
  <1>2. CASE ReadBytes
    <2> DEFINE b == GetBinaryData(rd.f, rd.db)
    <2>1. rd \in Reads /\ rd.pc = "loaded" /\ rd.f \in Files /\ rd.db \in Bytes
      BY <1>2 DEF ReadBytes, CoreInv, TypeOK, ReaderInv, Reads
    <2>2. b \in Bytes
      BY <2>1, BytesRead DEF CoreInv
    <2>3. faults' \in 0 .. MaxFaults
      BY <1>2, Counted DEF ReadBytes, CoreInv, TypeOK
    <2>4. UNCHANGED <<dbVars, cold, zip, online, wr, off, orph, sweep, want, writes>>
      BY <1>2 DEF ReadBytes
    <2>5. CASE rd' = NoRead
      <3>1. rd' \in Reads /\ ReaderInv'
        BY <2>5, NoReadIs DEF ReaderInv
      <3> QED BY <2>3, <2>4, <3>1, ReaderStep
    <2>6. CASE rd' # NoRead
      <3>1. PICK next \in {"done", "extract"} :
              rd' = [rd EXCEPT !.got = b, !.pc = IF b \in {Null, {}} THEN "done" ELSE next]
        BY <1>2, <2>6 DEF ReadBytes
      <3>2. PICK pc \in {"done", "extract"} : (b \in {Null, {}} => pc = "done") /\ rd' = [rd EXCEPT !.got = b, !.pc = pc]
        BY <3>1
      <3> HIDE DEF b
      <3>3. /\ rd' \in Reads /\ rd'.pc = pc /\ rd'.f = rd.f /\ rd'.got = b /\ rd'.was = rd.was /\ rd'.met = rd.met
        BY <2>1, <2>2, <3>2 DEF Reads
      <3>4. ~rd.met /\ Live(rd.f) => want[rd.f] = rd.was /\ Sees(rd.f, rd.db, rd.was)
        BY <2>1 DEF CoreInv, ReaderInv
      <3>5. ~rd.met /\ Live(rd.f) /\ rd.was \notin {Null, {}} => b = rd.was
        BY <3>4 DEF Sees, b
      <3>6. ~rd.met /\ Live(rd.f) /\ rd.was = {} => b \in {Null, {}}
        BY <2>1, <3>4 DEF Sees, b, GetBinaryData, NeedsCold, CoreInv, FilesInv
      <3>7. ReaderInv'
        BY <2>1, <2>4, <3>2, <3>3, <3>4, <3>5, <3>6 DEF CoreInv, ReaderInv, dbVars, Live, Unused
      <3> QED BY <2>3, <2>4, <3>3, <3>7, ReaderStep
    <2> QED BY <2>5, <2>6
  <1>3. CASE CreateText
    <2>1. rd \in Reads /\ rd.pc = "extract" /\ rd.f \in Files /\ rd.got \in Bytes /\ rd.met \in BOOLEAN
      BY <1>3 DEF CreateText, CoreInv, TypeOK, ReaderInv, Reads
    <2>2. rd' = NoRead /\ UNCHANGED <<row, session, cold, zip, online, wr, off, orph, sweep, want, tally>>
      BY <1>3 DEF CreateText
    <2>3. rd' \in Reads /\ ReaderInv'
      BY <2>2, NoReadIs DEF ReaderInv
    <2>4. CASE text' = text
      BY <2>2, <2>3, <2>4, ReaderStep DEF dbVars, CoreInv, TypeOK, tally
    <2>5. CASE text' # text
      <3>1. Live(rd.f) /\ text' = [text EXCEPT ![rd.f] = [made |-> TRUE, of |-> rd.got, met |-> rd.met]]
        BY <1>3, <2>5 DEF CreateText
      <3>2. [made |-> TRUE, of |-> rd.got, met |-> rd.met] \in Texts
        BY <2>1 DEF Texts
      <3>3. /\ text' \in [Files -> Texts] /\ text'[rd.f].of = rd.got /\ text'[rd.f].met = rd.met
            /\ \A g \in Files \ {rd.f} : text'[g] = text[g]
        BY <2>1, <3>1, <3>2 DEF CoreInv, TypeOK
      <3>4. TypeOK'
        BY <2>2, <2>3, <3>3 DEF CoreInv, TypeOK, tally
      <3>5. FilesInv'
        BY <2>2, <3>1, <3>3 DEF CoreInv, FilesInv, Unused, Live, NeedsCold, ContentKept, GetBinaryData
      <3>6. OffloadInv' /\ OrphanInv'
        BY <2>2 DEF CoreInv, OffloadInv, OrphanInv, Live, Unused, NeedsCold
      <3>7. wr.pc \in SetPcs /\ wr.f = rd.f => rd.met
        BY <2>1 DEF CoreInv, ReaderInv
      <3>8. SetInv'
        BY <2>2, <3>3, <3>7 DEF CoreInv, SetInv, SetPcs, Live, Unused, NeedsCold
      <3>9. ~rd.met /\ want[rd.f] # Null => rd.got = want[rd.f]
        BY <2>1, <3>1 DEF CoreInv, ReaderInv
      <3>10. TextFresh'
        BY <2>2, <3>3, <3>9 DEF CoreInv, TextFresh
      <3> QED BY <2>3, <3>4, <3>5, <3>6, <3>8, <3>10 DEF CoreInv
    <2> QED BY <2>4, <2>5
  <1>4. CASE FinishRead
    <2>1. rd' \in Reads /\ ReaderInv'
      BY <1>4, NoReadIs DEF ReaderInv, FinishRead
    <2> QED BY <1>4, <2>1, ReaderStep DEF FinishRead, CoreInv, TypeOK, tally
  <1> QED BY <1>1, <1>2, <1>3, <1>4 DEF Reader

(***************************************************************************)
(* The watchdog.                                                           *)
(***************************************************************************)
LEMMA NoOffloadIs == NoOffload \in Offloads /\ NoOffload.pc = "idle" /\ NoOffload.f = Null
  BY DEF NoOffload, Offloads

\* Steps that leave rows, objects, texts and work as they are.
LEMMA WatchdogStep ==
  ASSUME CoreInv, off' \in Offloads, OffloadInv', orph' \in Purges, OrphanInv',
         sweep' \in {"list", "zips", "delete"}, faults' \in 0 .. MaxFaults,
         UNCHANGED <<dbVars, cold, zip, online, wr, rd, want, writes>>
  PROVE  CoreInv'
  <1>1. TypeOK'
    BY DEF CoreInv, TypeOK, dbVars
  <1>2. FilesInv' /\ ReaderInv' /\ SetInv' /\ TextFresh'
    BY DEF CoreInv, dbVars, FilesInv, ReaderInv, SetInv, TextFresh, Unused, Live, NeedsCold, ContentKept, GetBinaryData,
           Sees
  <1> QED BY <1>1, <1>2 DEF CoreInv

LEMMA CoreOffload ==
  ASSUME CoreInv, Offload
  PROVE  CoreInv'
  <1>1. ASSUME NEW f \in Files, OffloadLock(f) PROVE CoreInv'
    <2>1. off' = [pc |-> "store", f |-> f] /\ Live(f) /\ ~NeedsCold(row[f].db)
      BY <1>1 DEF OffloadLock
    <2>2. off' \in Offloads /\ off'.pc = "store" /\ off'.f = f
      BY <2>1 DEF Offloads
    <2>3. OffloadInv'
      BY <1>1, <2>1, <2>2 DEF OffloadInv, OffloadLock, dbVars, Live, NeedsCold
    <2>4. OrphanInv'
      BY <1>1 DEF OffloadLock, CoreInv, OrphanInv, Unused, dbVars
    <2> QED BY <1>1, <2>2, <2>3, <2>4, WatchdogStep DEF OffloadLock, CoreInv, TypeOK, tally
  <1>2. CASE OffloadStore
    <2> DEFINE f == off.f
    <2>1. /\ off \in Offloads /\ off.pc = "store" /\ f \in Files /\ Live(f) /\ ~NeedsCold(row[f].db)
      BY <1>2 DEF OffloadStore, CoreInv, TypeOK, OffloadInv
    <2>2. UNCHANGED <<dbVars, zip, online, wr, rd, orph, sweep, want, writes>>
      BY <1>2 DEF OffloadStore
    <2>3. faults' \in 0 .. MaxFaults
      BY <1>2, Counted DEF OffloadStore, CoreInv, TypeOK
    <2>4. CASE off' = NoOffload /\ cold' = cold
      <3>1. OffloadInv'
        BY <2>4, NoOffloadIs DEF OffloadInv
      <3>2. OrphanInv'
        BY <2>2 DEF CoreInv, OrphanInv, Unused, dbVars
      <3> QED BY <2>2, <2>3, <2>4, <3>1, <3>2, NoOffloadIs, WatchdogStep DEF CoreInv, TypeOK
    <2>5. CASE cold' = [cold EXCEPT ![f] = row[f].db] /\ off' = [off EXCEPT !.pc = "commit"]
      <3>1. off' \in Offloads /\ off'.pc = "commit" /\ off'.f = f
        BY <2>1, <2>5 DEF Offloads
      <3>2. /\ cold' \in [Files -> Bytes] /\ cold'[f] = row[f].db
            /\ \A g \in Files \ {f} : cold'[g] = cold[g]
        BY <2>1, <2>5, Columns DEF CoreInv, TypeOK
      <3>3. TypeOK'
        BY <2>2, <2>3, <3>1, <3>2 DEF CoreInv, TypeOK, dbVars
      <3> HIDE DEF f
      <3>4. FilesInv'
        BY <2>1, <2>2, <3>2 DEF CoreInv, FilesInv, dbVars, Unused, Live, NeedsCold, ContentKept, GetBinaryData
      <3>5. OffloadInv'
        BY <2>1, <2>2, <3>1, <3>2 DEF OffloadInv, dbVars, Live, NeedsCold
      <3>6. OrphanInv' /\ TextFresh'
        BY <2>2 DEF CoreInv, OrphanInv, Unused, TextFresh, dbVars
      <3>7. SetInv'
        BY <2>1, <2>2, <3>2 DEF CoreInv, SetInv, SetPcs, dbVars, Live, Unused, NeedsCold
      <3>8. ReaderInv'
        BY <2>1, <2>2, <3>2 DEF CoreInv, ReaderInv, Sees, dbVars, Live, Unused, NeedsCold, GetBinaryData
      <3> QED BY <3>3, <3>4, <3>5, <3>6, <3>7, <3>8 DEF CoreInv
    <2> QED BY <1>2, <2>4, <2>5 DEF OffloadStore, StoreFailed
  <1>3. CASE OffloadCommit
    <2> DEFINE f == off.f
    <2>1. /\ off.pc = "commit" /\ f \in Files /\ Live(f) /\ ~NeedsCold(row[f].db)
          /\ cold[f] = row[f].db \/ want[f] = Null
      BY <1>3 DEF OffloadCommit, CoreInv, OffloadInv
    <2>2. row' = [row EXCEPT ![f].db = Null] /\ off' = NoOffload
          /\ UNCHANGED <<text, session, cold, zip, online, wr, rd, orph, sweep, want, tally>>
      BY <1>3 DEF OffloadCommit
    <2>3. \A r \in AttachedFiles : LET q == [r EXCEPT !.db = Null]
                                   IN  q \in AttachedFiles /\ q.st = r.st /\ q.db = Null
      BY DEF AttachedFiles, Bytes
    <2>4. /\ row' \in [Files -> AttachedFiles] /\ row'[f].st = row[f].st /\ row'[f].db = Null
          /\ \A g \in Files \ {f} : row'[g] = row[g]
      BY <2>1, <2>2, <2>3 DEF CoreInv, TypeOK
    <2>5. TypeOK'
      BY <2>2, <2>4, NoOffloadIs DEF CoreInv, TypeOK, tally
    <2> HIDE DEF f
    <2>6. FilesInv'
      BY <2>1, <2>2, <2>4 DEF CoreInv, FilesInv, Unused, Live, NeedsCold, ContentKept, GetBinaryData
    <2>7. OffloadInv'
      BY <2>2, NoOffloadIs DEF OffloadInv
    <2>8. OrphanInv'
      <3>1. orph.ids \in SUBSET Files
        BY DEF CoreInv, TypeOK, Purges
      <3> QED BY <2>2, <2>4, <3>1 DEF CoreInv, OrphanInv, Unused
    <2>9. TextFresh'
      BY <2>2 DEF CoreInv, TextFresh
    <2>10. SetInv'
      BY <2>1, <2>2, <2>4 DEF CoreInv, SetInv, SetPcs, Live, Unused, NeedsCold
    <2>11. ReaderInv'
      BY <2>1, <2>2, <2>4 DEF CoreInv, ReaderInv, Sees, Live, Unused, NeedsCold, GetBinaryData
    <2> QED BY <2>5, <2>6, <2>7, <2>8, <2>9, <2>10, <2>11 DEF CoreInv
  <1> QED BY <1>1, <1>2, <1>3 DEF Offload

LEMMA CoreOrphanPurge ==
  ASSUME CoreInv, OrphanPurge
  PROVE  CoreInv'
  <1> USE DEF CoreInv
  <1>0. off \in Offloads /\ OffloadInv /\ orph \in Purges /\ orph.ids \in SUBSET Files
    BY DEF TypeOK, Purges
  <1>1. CASE OrphanList
    <2>1. orph' = [pc |-> "query", ids |-> {f \in Files : cold[f] # Null}]
      BY <1>1 DEF OrphanList
    <2> DEFINE ids == {f \in Files : cold[f] # Null}
    <2>2. \A f \in ids : ~Unused(f)
      BY DEF FilesInv
    <2>3. orph' \in Purges /\ orph'.pc = "query" /\ orph'.ids = ids
      BY <2>1 DEF Purges
    <2>4. OrphanInv' /\ OffloadInv'
      BY <1>0, <1>1, <2>2, <2>3 DEF OrphanList, OrphanInv, OffloadInv, dbVars, Live, Unused, NeedsCold
    <2> QED BY <1>0, <1>1, <2>3, <2>4, WatchdogStep DEF OrphanList, TypeOK, tally
  <1>2. CASE OrphanQuery
    <2> DEFINE ids == NotInDb(orph.ids)
               pc == IF ids = {} THEN "list" ELSE "remove"
    <2>1. orph' = [pc |-> pc, ids |-> ids]
      BY <1>2 DEF OrphanQuery
    <2>2. ids \in SUBSET Files /\ \A f \in ids : ~Unused(f) /\ row[f].st = "gone"
      BY <1>0, <1>2, Columns DEF NotInDb, OrphanQuery, OrphanInv, Live, Unused
    <2>3. pc \in {"list", "remove"}
      OBVIOUS
    <2> HIDE DEF ids, pc
    <2>4. orph' \in Purges /\ orph'.pc = pc /\ orph'.ids = ids
      BY <2>1, <2>2, <2>3 DEF Purges
    <2>5. OrphanInv' /\ OffloadInv'
      BY <1>0, <1>2, <2>2, <2>4 DEF OrphanQuery, OrphanInv, OffloadInv, dbVars, Live, Unused, NeedsCold
    <2> QED BY <1>0, <1>2, <2>4, <2>5, WatchdogStep DEF OrphanQuery, TypeOK, tally
  <1>3. CASE OrphanRemove
    <2>1. PICK f \in orph.ids :
            /\ (UNCHANGED faults /\ cold' = [cold EXCEPT ![f] = Null]) \/ (Fails /\ UNCHANGED cold)
            /\ orph' = [pc |-> IF orph.ids = {f} THEN "list" ELSE "remove", ids |-> orph.ids \ {f}]
      BY <1>3 DEF OrphanRemove
    <2>2. f \in Files /\ row[f].st = "gone" /\ ~Live(f) /\ orph.pc = "remove"
      BY <1>0, <1>3, <2>1 DEF OrphanRemove, OrphanInv, Live
    <2>3. UNCHANGED <<dbVars, zip, online, wr, rd, off, sweep, want, writes>>
      BY <1>3 DEF OrphanRemove
    <2>4. PICK pc \in {"list", "remove"} : orph' = [pc |-> pc, ids |-> orph.ids \ {f}]
      BY <2>1
    <2>5. orph' \in Purges /\ orph'.pc = pc /\ orph'.ids = orph.ids \ {f}
      BY <1>0, <2>4 DEF Purges
    <2>6. /\ cold' \in [Files -> Bytes] /\ (cold'[f] = Null \/ cold'[f] = cold[f])
          /\ \A g \in Files \ {f} : cold'[g] = cold[g]
      BY <2>1, <2>2 DEF TypeOK, Bytes
    <2>7. TypeOK'
      <3>1. faults' \in 0 .. MaxFaults
        BY <2>1, Counted DEF TypeOK
      <3>2. cold' \in [Files -> Bytes]
        BY <2>1, <2>2 DEF TypeOK, Bytes
      <3> QED BY <2>3, <2>5, <3>1, <3>2 DEF TypeOK, dbVars
    <2>8. FilesInv'
      BY <2>2, <2>3, <2>6 DEF FilesInv, dbVars, Unused, Live, NeedsCold, ContentKept, GetBinaryData
    <2>9. OffloadInv'
      BY <2>2, <2>3, <2>6 DEF OffloadInv, dbVars, Live, NeedsCold
    <2>10. OrphanInv' /\ TextFresh'
      BY <2>2, <2>3, <2>5 DEF OrphanInv, Unused, TextFresh, dbVars
    <2>11. SetInv'
      BY <2>2, <2>3, <2>6 DEF SetInv, SetPcs, dbVars, Live, Unused, NeedsCold
    <2>12. ReaderInv'
      BY <2>2, <2>3, <2>6 DEF ReaderInv, Sees, dbVars, Live, Unused, NeedsCold, GetBinaryData
    <2> QED BY <2>7, <2>8, <2>9, <2>10, <2>11, <2>12
  <1> QED BY <1>1, <1>2, <1>3 DEF OrphanPurge

\* The rest: the purge of sessions before it deletes, deaths and administrators.
LEMMA CoreRest ==
  ASSUME CoreInv, SweepList \/ SweepZips \/ WriterDies \/ WatchdogDies \/ ToggleOffline \/ ToggleDeleted
  PROVE  CoreInv'
  <1>1. CASE WatchdogDies
    <2>1. [pc |-> "list", ids |-> {}] \in Purges /\ [pc |-> "list", ids |-> {}].pc = "list"
      BY DEF Purges
    <2>2. orph' \in Purges /\ OrphanInv'
      BY <1>1, <2>1 DEF WatchdogDies, OrphanInv
    <2>3. off' \in Offloads /\ OffloadInv'
      BY <1>1, NoOffloadIs DEF WatchdogDies, OffloadInv
    <2>4. faults' \in 0 .. MaxFaults
      BY <1>1, Counted DEF WatchdogDies, CoreInv, TypeOK
    <2> QED BY <1>1, <2>2, <2>3, <2>4, WatchdogStep DEF WatchdogDies
  <1>2. CASE SweepList \/ SweepZips \/ WriterDies \/ ToggleOffline \/ ToggleDeleted
    <2>1. UNCHANGED <<row, cold, text, want, rd, off, orph>>
      BY <1>2 DEF SweepList, SweepZips, WriterDies, ToggleOffline, ToggleDeleted, dbVars
    <2>2. /\ faults' \in 0 .. MaxFaults
          /\ writes' = writes
      BY <1>2, Counted DEF SweepList, SweepZips, WriterDies, ToggleOffline, ToggleDeleted, CoreInv, TypeOK, tally
    <2>3. Working(wr') /\ (wr' = wr \/ Ready(wr'))
      BY <1>2, InHand DEF SweepList, SweepZips, WriterDies, ToggleOffline, ToggleDeleted, CoreInv, TypeOK, Working
    <2>4. zip' \in [Snaps -> Zips]
      <3>1. [NoZip EXCEPT !.st = "row"] \in Zips
        BY DEF NoZip, Zips
      <3>2. zip \in [Snaps -> Zips]
        BY DEF CoreInv, TypeOK
      <3> QED BY <1>2, <3>1, <3>2 DEF SweepList, SweepZips, WriterDies, ToggleOffline, ToggleDeleted
    <2>5. online' \in BOOLEAN /\ session' \in {"live", "deleted", "purged"} /\ sweep' \in {"list", "zips", "delete"}
      BY <1>2 DEF SweepList, SweepZips, WriterDies, ToggleOffline, ToggleDeleted, CoreInv, TypeOK, dbVars
    <2> QED BY <2>1, <2>2, <2>3, <2>4, <2>5, QuietStep DEF Aside, CoreInv, TypeOK
  <1> QED BY <1>1, <1>2

LEMMA CoreStep ==
  ASSUME CoreInv, [Next]_vars
  PROVE  CoreInv'
  <1>1. CASE Writer
    <2>1. CASE Create \/ RestoreFile
      BY <2>1, CoreInserts
    <2>2. CASE SetClear \/ SetStore \/ SetSave
      BY <2>2, CoreClear, CoreStore, CoreSave
    <2>3. CASE \E f \in Files : ReplaceContent(f)
      BY <2>3, CoreReplace
    <2>4. CASE DeleteOld \/ (\E f \in Files : DeleteFile(f)) \/ DropImages \/ RestoreWipe
      BY <2>4, CoreDeletes
    <2> QED BY <1>1, <2>1, <2>2, <2>3, <2>4, CoreWriterQuiet DEF Writer
  <1>2. CASE Reader
    BY <1>2, CoreReader
  <1>3. CASE Offload
    BY <1>3, CoreOffload
  <1>4. CASE OrphanPurge
    BY <1>4, CoreOrphanPurge
  <1>5. CASE SweepDelete
    BY <1>5, CoreDeletes
  <1>6. CASE SweepList \/ SweepZips \/ WriterDies \/ WatchdogDies \/ ToggleOffline \/ ToggleDeleted
    BY <1>6, CoreRest
  <1>7. CASE UNCHANGED vars
    <2>1. Aside
      BY <1>7 DEF vars, dbVars, tally, Aside, CoreInv, TypeOK, Working
    <2> QED BY <1>7, <2>1, QuietStep DEF vars, dbVars, tally
  <1> QED BY <1>1, <1>2, <1>3, <1>4, <1>5, <1>6, <1>7 DEF Next, SessionPurge

LEMMA CoreHolds == Spec => []CoreInv
  BY CoreInit, CoreStep, PTL DEF Spec

(***************************************************************************)
(* What the writer has loaded, what it owes, and what it stores.           *)
(***************************************************************************)
WorkInv == LoadedInv /\ DueInv /\ FreshInv /\ NothingOverlooked

PlanInv == NamesInv /\ ZipsInv /\ WorkInv

LEMMA PlanInit == ASSUME Init PROVE PlanInv
  <1>1. NamesInv
    BY DEF Init, NamesInv, NoRow, Live
  <1>2. ZipsInv
    BY DEF Init, ZipsInv, SnapshotComplete, NoZip
  <1>3. WorkInv
    BY NoWorkIs DEF Init, WorkInv, LoadedInv, DueInv, FreshInv, NothingOverlooked
  <1> QED BY <1>1, <1>2, <1>3 DEF PlanInv

\* Between writes there is nothing to lose.
LEMMA NothingOwed ==
  ASSUME wr'.pc \in {"idle"} \cup SetPcs
  PROVE  WorkInv'
  BY DEF WorkInv, LoadedInv, DueInv, FreshInv, NothingOverlooked, SetPcs

\* Only Create and RestoreFile make a live row, and no step renames one.
LEMMA RowsOnlyGo ==
  ASSUME CoreInv, [Next]_vars, ~Create, ~RestoreFile
  PROVE  \A f \in Files : Live(f)' => Live(f) /\ row'[f].name = row[f].name
  <1> DEFINE Only == \A f \in Files : Live(f)' => Live(f) /\ row'[f].name = row[f].name
  <1>1. CASE row' = row
    BY <1>1 DEF Live
  <1>2. ASSUME NEW F \in SUBSET Files, DeleteRows(F) PROVE Only
    BY <1>2, Deleted DEF CoreInv, Live
  <1>3. \A F : F \in SUBSET Files /\ DeleteRows(F) => Only
    BY <1>2
  <1> HIDE DEF Only
  <1>4. CASE DeleteOld \/ DropImages \/ RestoreWipe \/ SweepDelete \/ \E f \in Files : DeleteFile(f)
    <2>1. \A n : Named(n) \in SUBSET Files
      BY Columns DEF CoreInv
    <2>2. {f \in Files : Live(f)} \in SUBSET Files
      OBVIOUS
    <2>3. \A f \in Files : {f} \in SUBSET Files
      OBVIOUS
    <2>4. row' = row \/ (\E n : DeleteRows(Named(n))) \/ DeleteRows({f \in Files : Live(f)})
            \/ \E f \in Files : DeleteRows({f})
      BY <1>4 DEF DeleteOld, DropImages, RestoreWipe, SweepDelete, DeleteFile
    <2> QED BY <1>1, <1>3, <2>1, <2>2, <2>3, <2>4 DEF Only
  <1>5. ASSUME NEW f \in Files, NEW b, row' = [row EXCEPT ![f].db = b] PROVE Only
    <2>1. \A r \in AttachedFiles : [r EXCEPT !.db = b].st = r.st /\ [r EXCEPT !.db = b].name = r.name
      BY DEF AttachedFiles
    <2>2. \A g \in Files : row'[g] = row[g] \/ row'[g] = [row[g] EXCEPT !.db = b]
      BY <1>5 DEF CoreInv, TypeOK
    <2>3. \A g \in Files : row'[g].st = row[g].st /\ row'[g].name = row[g].name
      BY <2>1, <2>2, Columns DEF CoreInv
    <2> QED BY <2>3 DEF Live, Only
  <1>6. CASE SetSave \/ OffloadCommit
    <2>1. off.pc = "commit" => off.f \in Files
      BY DEF CoreInv, OffloadInv
    <2>2. wr.pc = "save" => wr.f \in Files
      BY DEF CoreInv, SetInv, SetPcs
    <2> QED BY <1>1, <1>5, <1>6, <2>1, <2>2 DEF SetSave, OffloadCommit, Only
  <1>7. CASE ~(DeleteOld \/ DropImages \/ RestoreWipe \/ SweepDelete \/ SetSave \/ OffloadCommit)
             /\ ~\E f \in Files : DeleteFile(f)
    <2>1. row' = row
      <3>1. CASE Writer
        BY <1>7, <3>1 DEF Writer, SaveOutput, Append, SaveImage, UploadFile, ReplaceContent, SetClear, SetStore,
           PurgeUnusedImages, ScanReport, CreateSnapshot, RestoreRead, SnapshotFiles, BuildZip, StoreZip, dbVars
      <3>2. CASE Reader \/ Offload \/ OrphanPurge
        BY <1>7, <3>2 DEF Reader, Load, ReadBytes, CreateText, FinishRead, Offload, OffloadLock, OffloadStore,
           OrphanPurge, OrphanList, OrphanQuery, OrphanRemove, dbVars
      <3>3. CASE SessionPurge \/ WriterDies \/ WatchdogDies \/ ToggleOffline \/ ToggleDeleted \/ UNCHANGED vars
        BY <1>7, <3>3 DEF SessionPurge, SweepList, SweepZips, WriterDies, WatchdogDies, ToggleOffline, ToggleDeleted,
           vars, dbVars
      <3> QED BY <3>1, <3>2, <3>3 DEF Next
    <2> QED BY <1>1, <2>1 DEF Only
  <1> QED BY <1>4, <1>6, <1>7 DEF Only

LEMMA NamesStep ==
  ASSUME CoreInv, PlanInv, [Next]_vars
  PROVE  NamesInv'
  <1>1. CASE ~Create /\ ~RestoreFile
    BY <1>1, RowsOnlyGo DEF PlanInv, NamesInv
  <1>2. ASSUME NEW f \in Files, NEW n \in Names \cup {""}, NEW b \in Bytes, Insert(f, n, b),
               \A g \in Files : Live(g) => row[g].name # n
        PROVE  NamesInv'
    <2>1. row'[f].name = n /\ \A g \in Files \ {f} : row'[g] = row[g]
      BY <1>2, Inserted
    <2>2. \A g \in Files : Live(g)' => g = f \/ (Live(g) /\ row'[g].name = row[g].name /\ row[g].name # n)
      BY <1>2, <2>1 DEF Live
    <2>3. \A g, h \in Files : Live(g) /\ Live(h) /\ row[g].name = row[h].name => g = h
      BY DEF PlanInv, NamesInv
    <2> SUFFICES ASSUME NEW g \in Files, NEW h \in Files, Live(g)', Live(h)', row'[g].name = row'[h].name
                 PROVE  g = h
      BY DEF NamesInv
    <2> QED BY <2>1, <2>2, <2>3
  <1>3. CASE Create
    <2>1. wr \in FileWork /\ wr.pc = "create"
      BY <1>3, InHand DEF CoreInv, Create, SnapPcs
    <2>2. wr.data \in Bytes /\ wr.name \in Names \cup {""} /\ Null \in Bytes
      BY <2>1 DEF FileWork, Bytes
    <2>3. \A g \in Files : Live(g) => row[g].name # wr.name
      BY <2>1 DEF PlanInv, WorkInv, FreshInv, Named
    <2>4. \E f \in Files, b \in Bytes : Insert(f, wr.name, b)
      BY <1>3, <2>2 DEF Create
    <2> QED BY <1>2, <2>2, <2>3, <2>4
  <1>4. CASE RestoreFile
    <2>1. wr \in SnapWork /\ wr.pc = "refill"
      BY <1>4, InHand DEF CoreInv, RestoreFile, SnapPcs
    <2>2. \A e \in wr.got : /\ e.name \in Names \cup {""} /\ e.data \in Bytes
                            /\ \A g \in Files : Live(g) => row[g].name # e.name
      BY <2>1 DEF SnapWork, Entry, Bytes, PlanInv, WorkInv, FreshInv
    <2>3. row' = row \/ \E e \in wr.got, f \in Files : Insert(f, e.name, e.data)
      BY <1>4 DEF RestoreFile
    <2>4. CASE row' = row
      BY <2>4 DEF PlanInv, NamesInv, Live
    <2> QED BY <1>2, <2>2, <2>3, <2>4
  <1> QED BY <1>1, <1>3, <1>4

LEMMA ZipsStep ==
  ASSUME CoreInv, PlanInv, [Next]_vars
  PROVE  ZipsInv'
  <1> USE DEF PlanInv
  <1>0. zip \in [Snaps -> Zips]
    BY DEF CoreInv, TypeOK
  <1>1. CASE zip' = zip /\ (session' = "purged" => session = "purged")
    BY <1>1 DEF ZipsInv, SnapshotComplete
  <1>2. ASSUME NEW s \in Snaps, CreateSnapshot(s) PROVE ZipsInv'
    <2>1. zip' = [zip EXCEPT ![s].st = "row"] /\ session' = "live"
      BY <1>2 DEF CreateSnapshot, MayWork, dbVars
    <2>2. \A z \in Zips : [z EXCEPT !.st = "row"].st = "row"
      BY DEF Zips
    <2>3. zip'[s].st = "row" /\ \A t \in Snaps \ {s} : zip'[t] = zip[t]
      BY <1>0, <2>1, <2>2
    <2> QED BY <2>1, <2>3 DEF ZipsInv, SnapshotComplete
  <1>3. CASE StoreZip
    <2>1. wr \in SnapWork /\ wr.pc = "zip" /\ wr.left = {}
      BY <1>3, InHand DEF StoreZip, SnapPcs, CoreInv
    <2>2. session' = session
      BY <1>3 DEF StoreZip, dbVars
    <2> DEFINE s == wr.snap
    <2>3. s \in Snaps
      BY <2>1 DEF SnapWork
    <2>4. CASE zip[s].st = "row" /\ zip' # zip
      <3>1. zip' = [zip EXCEPT ![s] = [st |-> "stored", files |-> wr.got, due |-> wr.due, sound |-> wr.sound]]
        BY <1>3, <2>4 DEF StoreZip
      <3>2. /\ zip'[s] = [st |-> "stored", files |-> wr.got, due |-> wr.due, sound |-> wr.sound]
            /\ \A t \in Snaps \ {s} : zip'[t] = zip[t]
        BY <1>0, <2>3, <3>1
      <3>3. session # "purged"
        BY <2>3, <2>4 DEF ZipsInv
      <3>4. Differ(wr.got) /\ (wr.sound => wr.due \subseteq wr.got)
        BY <2>1, <3>3 DEF WorkInv, DueInv
      <3>5. zip'[s].files = wr.got /\ zip'[s].due = wr.due /\ zip'[s].sound = wr.sound
        BY <3>2
      <3> QED BY <2>2, <3>2, <3>3, <3>4, <3>5 DEF ZipsInv, SnapshotComplete
    <2>5. CASE zip[s].st # "row" /\ zip' # zip
      <3>1. zip' = [zip EXCEPT ![s] = [@ EXCEPT !.st = "orphan"]]
        BY <1>3, <2>5 DEF StoreZip
      <3>2. \A z \in Zips : [z EXCEPT !.st = "orphan"].st = "orphan"
        BY DEF Zips
      <3>3. zip'[s].st = "orphan" /\ \A t \in Snaps \ {s} : zip'[t] = zip[t]
        BY <1>0, <2>3, <3>1, <3>2
      <3> QED BY <2>2, <3>3 DEF ZipsInv, SnapshotComplete
    <2> QED BY <1>1, <2>2, <2>4, <2>5
  <1>4. CASE SweepZips
    <2>1. zip' = zip \/ zip' = [s \in Snaps |-> IF zip[s].st = "stored" THEN [NoZip EXCEPT !.st = "row"] ELSE zip[s]]
      BY <1>4 DEF SweepZips
    <2>2. [NoZip EXCEPT !.st = "row"].st = "row"
      BY DEF NoZip
    <2>3. session' = session
      BY <1>4 DEF SweepZips, dbVars
    <2>4. \A s \in Snaps : zip'[s] = zip[s] \/ (zip[s].st = "stored" /\ zip'[s].st = "row")
      BY <2>1, <2>2
    <2> QED BY <2>3, <2>4 DEF ZipsInv, SnapshotComplete
  <1>5. CASE SweepDelete
    <2>1. CASE session = "deleted"
      <3>1. \A s \in Snaps : zip'[s] = [NoZip EXCEPT !.st = IF zip[s].st = "stored" THEN "orphan" ELSE "gone"]
        BY <1>5, <2>1 DEF SweepDelete
      <3>2. \A x : [NoZip EXCEPT !.st = x].st = x
        BY DEF NoZip
      <3>3. \A s \in Snaps : zip'[s].st \in {"orphan", "gone"}
        BY <3>1, <3>2
      <3> QED BY <3>3 DEF ZipsInv, SnapshotComplete
    <2> QED BY <1>1, <1>5, <2>1 DEF SweepDelete
  <1>6. CASE ~(StoreZip \/ SweepZips \/ SweepDelete) /\ ~\E s \in Snaps : CreateSnapshot(s)
    <2>1. zip' = zip /\ (session' = "purged" => session = "purged")
      <3>1. CASE Writer
        BY <1>6, <3>1 DEF Writer, SaveOutput, Append, DeleteOld, Create, SaveImage, UploadFile, ReplaceContent, DeleteFile,
           SetClear, SetStore, SetSave, PurgeUnusedImages, ScanReport, DropImages, RestoreRead, SnapshotFiles, BuildZip,
           RestoreWipe, RestoreFile, dbVars
      <3>2. CASE Reader \/ Offload \/ OrphanPurge
        BY <1>6, <3>2 DEF Reader, Load, ReadBytes, CreateText, FinishRead, Offload, OffloadLock, OffloadStore, OffloadCommit,
           OrphanPurge, OrphanList, OrphanQuery, OrphanRemove, dbVars
      <3>3. CASE SessionPurge \/ WriterDies \/ WatchdogDies \/ ToggleOffline \/ ToggleDeleted \/ UNCHANGED vars
        BY <1>6, <3>3 DEF SessionPurge, SweepList, WriterDies, WatchdogDies, ToggleOffline, ToggleDeleted, vars, dbVars
      <3> QED BY <3>1, <3>2, <3>3 DEF Next
    <2> QED BY <1>1, <2>1
  <1> QED BY <1>2, <1>3, <1>4, <1>5, <1>6

\* Everyone but the writer.
Others ==
  \/ Reader \/ Offload \/ OrphanPurge \/ SessionPurge
  \/ WatchdogDies \/ ToggleOffline \/ ToggleDeleted \/ UNCHANGED vars

\* They leave the writer what it has loaded: bytes move to cold storage, and only
\* rows that are gone lose them, or those of a session that is purged.
LEMMA OthersKeep ==
  ASSUME CoreInv, Others, session' # "purged"
  PROVE  /\ wr' = wr /\ want' = want /\ session # "purged"
         /\ \A f \in Files : Live(f) =>
              /\ row'[f].st = row[f].st /\ row'[f].name = row[f].name
              /\ \A db : Sees(f, db, want[f]) => Sees(f, db, want[f])'
  <1>1. wr' = wr /\ want' = want /\ session # "purged"
    <2>1. CASE Reader \/ Offload \/ OrphanPurge
      BY <2>1 DEF Reader, Load, ReadBytes, CreateText, FinishRead, Offload, OffloadLock, OffloadStore, OffloadCommit,
         OrphanPurge, OrphanList, OrphanQuery, OrphanRemove, dbVars
    <2>2. CASE SessionPurge \/ WatchdogDies \/ ToggleOffline \/ ToggleDeleted \/ UNCHANGED vars
      BY <2>2 DEF SessionPurge, SweepList, SweepZips, SweepDelete, WatchdogDies, ToggleOffline, ToggleDeleted, vars, dbVars
    <2> QED BY <2>1, <2>2 DEF Others
  <1>2. CASE row' = row /\ cold' = cold
    BY <1>1, <1>2 DEF Sees, GetBinaryData
  <1>3. CASE OffloadStore
    <2>1. off.f \in Files /\ ~NeedsCold(row[off.f].db)
      BY <1>3 DEF OffloadStore, CoreInv, OffloadInv
    <2>2. row' = row /\ \A f \in Files : f # off.f => cold'[f] = cold[f]
      BY <1>3, <2>1 DEF OffloadStore, dbVars, CoreInv, TypeOK
    <2>3. \A f \in Files : Live(f) => \A db : Sees(f, db, want[f]) => Sees(f, db, want[f])'
      BY <1>1, <2>1, <2>2 DEF Sees, GetBinaryData, NeedsCold
    <2> QED BY <1>1, <2>2, <2>3
  <1>4. CASE OffloadCommit
    <2>1. off.f \in Files
      BY <1>4 DEF OffloadCommit, CoreInv, OffloadInv
    <2>2. row' = [row EXCEPT ![off.f].db = Null] /\ cold' = cold
      BY <1>4 DEF OffloadCommit
    <2>3. \A r \in AttachedFiles : LET q == [r EXCEPT !.db = Null] IN q.st = r.st /\ q.name = r.name /\ q.db = Null
      BY DEF AttachedFiles
    <2>4. \A f \in Files : /\ row'[f].st = row[f].st /\ row'[f].name = row[f].name
                           /\ row'[f].db = row[f].db \/ row'[f].db = Null
      BY <2>1, <2>2, <2>3 DEF CoreInv, TypeOK
    <2>5. \A f \in Files : Live(f) => \A db : Sees(f, db, want[f]) => Sees(f, db, want[f])'
      BY <1>1, <2>2, <2>4 DEF Sees, GetBinaryData, NeedsCold
    <2> QED BY <1>1, <2>4, <2>5
  <1>5. CASE OrphanRemove
    <2>1. PICK f \in orph.ids : cold' = cold \/ cold' = [cold EXCEPT ![f] = Null]
      BY <1>5 DEF OrphanRemove
    <2>2. row' = row /\ f \in Files /\ ~Live(f)
      BY <1>5 DEF OrphanRemove, dbVars, CoreInv, OrphanInv, TypeOK, Purges, Live
    <2>3. \A g \in Files : Live(g) => cold'[g] = cold[g]
      BY <2>1, <2>2 DEF CoreInv, TypeOK
    <2>4. \A g \in Files : Live(g) => \A db : Sees(g, db, want[g]) => Sees(g, db, want[g])'
      BY <1>1, <2>2, <2>3 DEF Sees, GetBinaryData
    <2> QED BY <1>1, <2>2, <2>4
  <1>6. CASE ~(OffloadStore \/ OffloadCommit \/ OrphanRemove)
    <2>1. row' = row /\ cold' = cold
      <3>1. CASE Reader \/ Offload \/ OrphanPurge
        BY <1>6, <3>1 DEF Reader, Load, ReadBytes, CreateText, FinishRead, Offload, OffloadLock,
           OrphanPurge, OrphanList, OrphanQuery, dbVars
      <3>2. CASE SessionPurge \/ WatchdogDies \/ ToggleOffline \/ ToggleDeleted \/ UNCHANGED vars
        BY <1>6, <3>2 DEF SessionPurge, SweepList, SweepZips, SweepDelete, WatchdogDies, ToggleOffline, ToggleDeleted, vars,
           dbVars
      <3> QED BY <3>1, <3>2 DEF Others
    <2> QED BY <1>2, <2>1
  <1> QED BY <1>3, <1>4, <1>5, <1>6

LEMMA OthersWork ==
  ASSUME CoreInv, PlanInv, Others,
         \A f \in Files : Live(f)' => Live(f) /\ row'[f].name = row[f].name
  PROVE  WorkInv'
  <1>1. wr' = wr
    <2>1. CASE Reader \/ Offload \/ OrphanPurge
      BY <2>1 DEF Reader, Load, ReadBytes, CreateText, FinishRead, Offload, OffloadLock, OffloadStore, OffloadCommit,
         OrphanPurge, OrphanList, OrphanQuery, OrphanRemove
    <2>2. CASE SessionPurge \/ WatchdogDies \/ ToggleOffline \/ ToggleDeleted \/ UNCHANGED vars
      BY <2>2 DEF SessionPurge, SweepList, SweepZips, SweepDelete, WatchdogDies, ToggleOffline, ToggleDeleted, vars
    <2> QED BY <2>1, <2>2 DEF Others
  <1>2. FreshInv'
    BY <1>1 DEF PlanInv, WorkInv, FreshInv, Named
  <1>3. CASE session' = "purged"
    BY <1>2, <1>3 DEF WorkInv, LoadedInv, DueInv, NothingOverlooked
  <1>4. CASE session' # "purged"
    <2>1. /\ want' = want /\ session # "purged"
          /\ \A f \in Files : Live(f) =>
               /\ row'[f].st = row[f].st /\ row'[f].name = row[f].name
               /\ \A db : Sees(f, db, want[f]) => Sees(f, db, want[f])'
      BY <1>4, OthersKeep
    <2>2. wr.pc \in {"append", "scan", "zip"} =>
            \A i \in wr.left : i.f \in Files /\ Live(i.f) /\ Sees(i.f, i.db, want[i.f])
      <3>1. \A i \in wr.left : i.f \in Files
        BY InHand DEF CoreInv, FileWork, SnapWork, Instance
      <3> QED BY <2>1, <3>1 DEF PlanInv, WorkInv, LoadedInv
    <2>3. LoadedInv'
      BY <1>1, <2>1, <2>2 DEF LoadedInv, Live
    <2>4. DueInv'
      BY <1>1, <2>1, <2>2 DEF PlanInv, WorkInv, DueInv
    <2>5. NothingOverlooked'
      BY <1>1, <2>1 DEF PlanInv, WorkInv, NothingOverlooked
    <2> QED BY <1>2, <2>3, <2>4, <2>5 DEF WorkInv
  <1> QED BY <1>3, <1>4

\* Whoever loads a file can read it.
LEMMA LoadedSees ==
  ASSUME CoreInv, NEW F \in SUBSET {f \in Files : Live(f)}
  PROVE  \A i \in Instances(F) : i.f \in F /\ Live(i.f) /\ Sees(i.f, i.db, want[i.f])
  <1>1. F \in SUBSET Files
    OBVIOUS
  <1>2. \A i \in Instances(F) : i.f \in F /\ i.db = row[i.f].db
    BY <1>1, Loading DEF CoreInv
  <1>3. \A f \in F : Live(f) /\ Sees(f, row[f].db, want[f])
    BY DEF CoreInv, FilesInv, ContentKept, Sees
  <1> QED BY <1>2, <1>3

LEMMA WriterStarts ==
  ASSUME CoreInv, PlanInv,
         \/ \E n \in Names : SaveOutput(n)
         \/ SaveImage \/ UploadFile \/ PurgeUnusedImages
         \/ \E s \in Snaps : CreateSnapshot(s) \/ RestoreRead(s)
  PROVE  WorkInv'
  <1> USE DEF CoreInv
  <1>0. \A n : Named(n) \in SUBSET {f \in Files : Live(f)} /\ Named(n) \in SUBSET Files
    BY DEF Named
  <1>1. ASSUME NEW n \in Names, SaveOutput(n) PROVE WorkInv'
    <2>1. /\ wr' \in FileWork /\ wr'.pc \in {"append", "delete"} /\ wr'.name = n
          /\ wr'.pc = "append" => n = "memory" /\ wr'.left = Instances(Named(n))
          /\ wr'.pc = "delete" /\ n = "memory" => wr'.due = {}
          /\ wr'.due \subseteq {want[f] : f \in Named(n)} \ {Null}
      BY <1>1, SaveOutputDoes
    <2>2. row' = row /\ cold' = cold /\ want' = want
      BY <1>1 DEF SaveOutput, dbVars
    <2>3. LoadedInv'
      <3>1. \A i \in Instances(Named(n)) : i.f \in Named(n) /\ Live(i.f) /\ Sees(i.f, i.db, want[i.f])
        BY <1>0, LoadedSees
      <3> QED BY <2>1, <2>2, <3>1 DEF LoadedInv, Live, Sees, GetBinaryData
    <2>4. DueInv'
      <3>1. \A i \in Instances(Named(n)) : i.f \in Named(n)
        BY <1>0, LoadedSees
      <3>2. \A f, g \in Named(n) : f = g
        BY DEF Named, PlanInv, NamesInv
      <3>3. \A d \in wr'.due : \E f \in Named(n) : d = want[f]
        BY <2>1
      <3>4. wr'.pc = "append" => Null \notin wr'.due /\ \A d \in wr'.due, i \in wr'.left : d = want[i.f]
        BY <2>1, <3>1, <3>2, <3>3
      <3> QED BY <2>1, <2>2, <3>4 DEF DueInv
    <2>5. FreshInv' /\ NothingOverlooked'
      BY <2>1 DEF FreshInv, NothingOverlooked
    <2> QED BY <2>3, <2>4, <2>5 DEF WorkInv
  <1>2. CASE SaveImage
    <2>1. row' = row
      BY <1>2 DEF SaveImage, dbVars
    <2> QED BY <1>2, <2>1, SaveImageDoes DEF WorkInv, LoadedInv, DueInv, FreshInv, NothingOverlooked, Named, Live
  <1>3. CASE UploadFile
    BY <1>3, UploadFileDoes DEF WorkInv, LoadedInv, DueInv, FreshInv, NothingOverlooked
  <1>4. CASE PurgeUnusedImages
    <2> DEFINE F == Named("report")
    <2>1. /\ wr'.pc = "scan" /\ wr'.name = "" /\ wr'.left = Instances(F)
          /\ wr'.due = {want[f] : f \in F} \ {Null, {}}
      BY <1>4, PurgeUnusedImagesDoes
    <2>2. row' = row /\ cold' = cold /\ want' = want
      BY <1>4 DEF PurgeUnusedImages, dbVars
    <2>3. \A i \in Instances(F) : i.f \in F /\ Live(i.f) /\ Sees(i.f, i.db, want[i.f])
      BY <1>0, LoadedSees
    <2>4. \A f \in F : \E i \in Instances(F) : i.f = f
      BY <1>0, Loading
    <2>5. LoadedInv'
      BY <2>1, <2>2, <2>3 DEF LoadedInv, Live, Sees, GetBinaryData
    <2>6. DueInv'
      <3>1. \A d \in wr'.due : d \notin {Null, {}} /\ \E f \in F : d = want[f]
        BY <2>1
      <3>2. ASSUME NEW d \in wr'.due
            PROVE  d \notin {Null, {}} /\ \E i \in wr'.left : want'[i.f] = d
        <4>1. PICK f \in F : d = want[f]
          BY <3>1
        <4>2. PICK i \in Instances(F) : i.f = f
          BY <2>4
        <4> QED BY <2>1, <2>2, <3>1, <4>1, <4>2
      <3> QED BY <2>1, <3>2 DEF DueInv
    <2>7. FreshInv' /\ NothingOverlooked'
      BY <2>1 DEF FreshInv, NothingOverlooked
    <2> QED BY <2>5, <2>6, <2>7 DEF WorkInv
  <1>5. ASSUME NEW s \in Snaps, CreateSnapshot(s) PROVE WorkInv'
    BY <1>5, CreateSnapshotDoes DEF WorkInv, LoadedInv, DueInv, FreshInv, NothingOverlooked
  <1>6. ASSUME NEW s \in Snaps, RestoreRead(s) PROVE WorkInv'
    <2>1. wr'.pc = "wipe" /\ wr'.got = zip[s].files
      BY <1>6, RestoreReadDoes
    <2>2. Differ(zip[s].files)
      BY <1>6 DEF RestoreRead, PlanInv, ZipsInv
    <2> QED BY <2>1, <2>2 DEF WorkInv, LoadedInv, DueInv, FreshInv, NothingOverlooked
  <1> QED BY <1>1, <1>2, <1>3, <1>4, <1>5, <1>6

LEMMA AppendWork ==
  ASSUME CoreInv, PlanInv, Append
  PROVE  WorkInv'
  <1>1. wr \in FileWork /\ wr.pc = "append" /\ session' = session
    BY InHand DEF CoreInv, Append, SnapPcs, dbVars
  <1>2. PICK i \in wr.left :
          \/ wr' = [wr EXCEPT !.pc = "delete", !.sound = ~text[i.f].met,
                              !.data = @ \cup (IF AppendBase(i) = Null THEN {} ELSE AppendBase(i))]
          \/ wr' = [wr EXCEPT !.pc = "delete", !.sound = FALSE]
    BY DEF Append
  <1> DEFINE base == IF AppendBase(i) = Null THEN {} ELSE AppendBase(i)
  <1>3. wr'.pc = "delete" /\ wr'.due = wr.due
    BY <1>1, <1>2 DEF FileWork
  <1>4. wr'.sound => ~text[i.f].met /\ wr'.data = wr.data \cup base
    <2>1. CASE wr' = [wr EXCEPT !.pc = "delete", !.sound = ~text[i.f].met, !.data = @ \cup base]
      BY <1>1, <2>1 DEF FileWork
    <2>2. CASE wr' = [wr EXCEPT !.pc = "delete", !.sound = FALSE]
      BY <1>1, <2>2 DEF FileWork
    <2> QED BY <1>2, <2>1, <2>2
  <1>5. i.f \in Files
    BY <1>1 DEF FileWork, Instance
  <1>6. ASSUME session # "purged", ~text[i.f].met, NEW d \in wr.due PROVE d \subseteq base
    <2>1. d = want[i.f] /\ Sees(i.f, i.db, want[i.f])
      BY <1>1, <1>6 DEF PlanInv, WorkInv, DueInv, LoadedInv
    <2>2. CASE d = {}
      BY <2>2
    <2>3. CASE d = Null
      <3>1. Null \notin wr.due
        BY <1>1, <1>6 DEF PlanInv, WorkInv, DueInv
      <3> QED BY <2>3, <3>1
    <2>4. CASE d \notin {Null, {}}
      <3>1. text[i.f].made => text[i.f].of = d
        BY <1>5, <1>6, <2>1, <2>4 DEF CoreInv, TextFresh
      <3>2. GetBinaryData(i.f, i.db) = d
        BY <2>1, <2>4 DEF Sees
      <3>3. AppendBase(i) = d
        BY <3>1, <3>2 DEF AppendBase
      <3> QED BY <2>4, <3>3
    <2> QED BY <2>2, <2>3, <2>4
  <1> HIDE DEF base
  <1> QED BY <1>1, <1>3, <1>4, <1>6 DEF WorkInv, LoadedInv, DueInv, FreshInv, NothingOverlooked

LEMMA DeleteOldWork ==
  ASSUME CoreInv, PlanInv, DeleteOld
  PROVE  WorkInv'
  <1>1. wr \in FileWork /\ wr.pc = "delete" /\ session' = session /\ wr' = [wr EXCEPT !.pc = "create"]
    BY InHand DEF CoreInv, DeleteOld, SnapPcs
  <1>2. wr'.pc = "create" /\ wr'.name = wr.name /\ wr'.data = wr.data /\ wr'.due = wr.due /\ wr'.sound = wr.sound
    BY <1>1 DEF FileWork
  <1>3. Named(wr.name) \in SUBSET Files /\ DeleteRows(Named(wr.name))
    BY Columns DEF CoreInv, DeleteOld
  <1>4. /\ \A f \in Named(wr.name) : row'[f].st = "gone"
        /\ \A f \in Files \ Named(wr.name) : row'[f] = row[f]
    BY <1>3, Deleted DEF CoreInv
  <1>5. \A f \in Files : ~(row'[f].st = "live" /\ row'[f].name = wr.name)
    BY <1>4 DEF Named, Live
  <1>6. FreshInv'
    BY <1>2, <1>5 DEF FreshInv, Named, Live
  <1>7. NothingOverlooked'
    BY <1>1, <1>2 DEF PlanInv, WorkInv, NothingOverlooked
  <1> QED BY <1>2, <1>6, <1>7 DEF WorkInv, LoadedInv, DueInv

LEMMA ScanReportWork ==
  ASSUME CoreInv, PlanInv, ScanReport
  PROVE  WorkInv'
  <1>1. wr \in FileWork /\ wr.pc = "scan" /\ UNCHANGED <<row, cold, want, session>>
    BY InHand DEF CoreInv, ScanReport, SnapPcs, dbVars
  <1>2. CASE wr.left = {}
    <2>1. wr' = [wr EXCEPT !.pc = "drop"]
      BY <1>2 DEF ScanReport
    <2>2. wr'.pc = "drop" /\ wr'.name = wr.name /\ wr'.due = wr.due /\ wr'.sound = wr.sound
      BY <1>1, <2>1 DEF FileWork
    <2>3. session # "purged" /\ wr.sound => wr.due = {}
      BY <1>1, <1>2 DEF PlanInv, WorkInv, DueInv
    <2> QED BY <1>1, <2>2, <2>3 DEF WorkInv, LoadedInv, DueInv, FreshInv, NothingOverlooked
  <1>3. CASE wr' = NoWork
    BY <1>3, NoWorkIs, NothingOwed
  <1>4. CASE wr.left # {} /\ wr' # NoWork
    <2>1. PICK i \in wr.left :
            \/ Scanned(i) \in {Null, {}} /\ wr' = [wr EXCEPT !.left = @ \ {i}]
            \/ wr' = [wr EXCEPT !.left = @ \ {i}, !.sound = FALSE]
      BY <1>4 DEF ScanReport
    <2>2. /\ wr'.pc = "scan" /\ wr'.left = wr.left \ {i} /\ wr'.due = wr.due
          /\ wr'.sound => wr.sound /\ Scanned(i) \in {Null, {}}
      <3>1. CASE Scanned(i) \in {Null, {}} /\ wr' = [wr EXCEPT !.left = @ \ {i}]
        BY <1>1, <3>1 DEF FileWork
      <3>2. CASE wr' = [wr EXCEPT !.left = @ \ {i}, !.sound = FALSE]
        BY <1>1, <3>2 DEF FileWork
      <3> QED BY <2>1, <3>1, <3>2
    <2>3. LoadedInv'
      BY <1>1, <2>2 DEF PlanInv, WorkInv, LoadedInv, Live, Sees, GetBinaryData
    <2>4. ASSUME session # "purged", wr.sound, Scanned(i) \in {Null, {}}, NEW d \in wr.due
          PROVE  \E j \in wr'.left : want[j.f] = d
      <3>1. PICK j \in wr.left : want[j.f] = d
        BY <1>1, <2>4 DEF PlanInv, WorkInv, DueInv
      <3>2. d \notin {Null, {}}
        BY <1>1, <2>4 DEF PlanInv, WorkInv, DueInv
      <3>3. want[i.f] \notin {Null, {}} => Scanned(i) = want[i.f]
        BY <1>1, <2>4 DEF PlanInv, WorkInv, LoadedInv, Sees, Scanned
      <3>4. j # i
        BY <2>4, <3>1, <3>2, <3>3
      <3> QED BY <2>2, <3>1, <3>4
    <2>5. \A d \in wr.due : session # "purged" => d \notin {Null, {}}
      BY <1>1 DEF PlanInv, WorkInv, DueInv
    <2>6. DueInv'
      BY <1>1, <2>2, <2>4, <2>5 DEF DueInv
    <2> QED BY <2>2, <2>3, <2>6 DEF WorkInv, FreshInv, NothingOverlooked, PlanInv
  <1> QED BY <1>2, <1>3, <1>4

LEMMA SnapshotFilesWork ==
  ASSUME CoreInv, PlanInv, SnapshotFiles
  PROVE  WorkInv'
  <1> DEFINE F == {f \in Files : Live(f)}
             u == {[name |-> row[f].name, data |-> want[f]] : f \in {g \in F : want[g] # Null}}
  <1>1. wr \in SnapWork /\ wr.pc = "files" /\ UNCHANGED <<row, cold, want, session>>
    BY InHand DEF CoreInv, SnapshotFiles, SnapPcs, dbVars
  <1>2. wr' = [wr EXCEPT !.pc = "zip", !.left = Instances(F), !.due = u]
    BY DEF SnapshotFiles
  <1>3. F \in SUBSET Files /\ F \in SUBSET {f \in Files : Live(f)}
    OBVIOUS
  <1>4. /\ \A i \in Instances(F) : i.f \in F /\ Live(i.f) /\ Sees(i.f, i.db, want[i.f])
        /\ \A i, j \in Instances(F) : i.f = j.f => i = j
        /\ \A f \in F : \E i \in Instances(F) : i.f = f
    BY <1>3, LoadedSees, Loading DEF CoreInv
  <1>5. \A e \in u : \E f \in F : e.name = row[f].name /\ e.data = want[f]
    OBVIOUS
  <1> HIDE DEF F, u
  <1>6. /\ wr'.pc = "zip" /\ wr'.left = Instances(F) /\ wr'.due = u /\ wr'.got = {}
    BY <1>1, <1>2 DEF SnapWork, PlanInv, WorkInv, FreshInv
  <1>7. LoadedInv'
    BY <1>1, <1>4, <1>6 DEF LoadedInv, Live, Sees, GetBinaryData
  <1>8. ASSUME NEW e \in u PROVE \E i \in wr'.left : e.name = row[i.f].name /\ e.data = want[i.f]
    <2>1. PICK f \in F : e.name = row[f].name /\ e.data = want[f]
      BY <1>5
    <2>2. PICK i \in Instances(F) : i.f = f
      BY <1>4
    <2> QED BY <1>6, <2>1, <2>2
  <1>9. DueInv'
    BY <1>1, <1>4, <1>6, <1>8 DEF DueInv, Differ
  <1> QED BY <1>6, <1>7, <1>9 DEF WorkInv, FreshInv, NothingOverlooked

LEMMA Pairs ==
  ASSUME NEW A, NEW B
  PROVE  \A x \in [name : A, data : B] : x = [name |-> x.name, data |-> x.data]
  OBVIOUS

LEMMA BuildZipWork ==
  ASSUME CoreInv, PlanInv, BuildZip
  PROVE  WorkInv'
  <1>1. wr \in SnapWork /\ wr.pc = "zip" /\ UNCHANGED <<row, cold, want, session>>
    BY InHand DEF CoreInv, BuildZip, SnapPcs, dbVars
  <1>2. PICK i \in wr.left :
          \/ wr' = [wr EXCEPT !.left = @ \ {i},
                      !.got = @ \cup {[name |-> row[i.f].name, data |-> OrEmpty(Zipped(i))]}]
          \/ wr' = [wr EXCEPT !.left = @ \ {i}, !.sound = FALSE,
                      !.got = @ \cup {[name |-> row[i.f].name, data |-> {}]}]
    BY DEF BuildZip
  <1>3. PICK e : /\ e.name = row[i.f].name
                 /\ wr'.pc = "zip" /\ wr'.left = wr.left \ {i} /\ wr'.got = wr.got \cup {e} /\ wr'.due = wr.due
                 /\ wr'.sound => wr.sound /\ e = [name |-> row[i.f].name, data |-> OrEmpty(Zipped(i))]
    <2> DEFINE e == [name |-> row[i.f].name, data |-> OrEmpty(Zipped(i))]
               z == [name |-> row[i.f].name, data |-> {}]
    <2>1. e.name = row[i.f].name /\ z.name = row[i.f].name
      OBVIOUS
    <2>2. wr' = [wr EXCEPT !.left = @ \ {i}, !.got = @ \cup {e}]
            \/ wr' = [wr EXCEPT !.left = @ \ {i}, !.sound = FALSE, !.got = @ \cup {z}]
      BY <1>2
    <2>3. e = [name |-> row[i.f].name, data |-> OrEmpty(Zipped(i))]
      OBVIOUS
    <2> HIDE DEF e, z
    <2>4. CASE wr' = [wr EXCEPT !.left = @ \ {i}, !.got = @ \cup {e}]
      <3>1. wr'.pc = "zip" /\ wr'.left = wr.left \ {i} /\ wr'.got = wr.got \cup {e} /\ wr'.due = wr.due
            /\ wr'.sound = wr.sound
        BY <1>1, <2>4 DEF SnapWork
      <3> QED BY <2>1, <2>3, <3>1
    <2>5. CASE wr' = [wr EXCEPT !.left = @ \ {i}, !.sound = FALSE, !.got = @ \cup {z}]
      <3>1. wr'.pc = "zip" /\ wr'.left = wr.left \ {i} /\ wr'.got = wr.got \cup {z} /\ wr'.due = wr.due
            /\ wr'.sound = FALSE
        BY <1>1, <2>5 DEF SnapWork
      <3> QED BY <2>1, <3>1
    <2> QED BY <2>2, <2>4, <2>5
  <1>4. LoadedInv'
    BY <1>1, <1>3 DEF PlanInv, WorkInv, LoadedInv, Live, Sees, GetBinaryData
  <1>5. ASSUME session # "purged" PROVE DueInv'
    <2>1. /\ Differ(wr.got)
          /\ \A j, k \in wr.left : j.f = k.f => j = k
          /\ \A d \in wr.got, j \in wr.left : d.name # row[j.f].name
          /\ wr.sound => \A d \in wr.due : \/ d \in wr.got
                                           \/ \E j \in wr.left : d.name = row[j.f].name /\ d.data = want[j.f]
      BY <1>1, <1>5 DEF PlanInv, WorkInv, DueInv
    <2>2. \A j \in wr.left : j.f \in Files /\ Live(j.f) /\ Sees(j.f, j.db, want[j.f])
      BY <1>1, <1>5 DEF PlanInv, WorkInv, LoadedInv, SnapWork, Instance
    <2>3. Differ(wr'.got)
      BY <1>3, <2>1 DEF Differ
    <2>4. \A j, k \in wr'.left : j.f = k.f => j = k
      BY <1>3, <2>1
    <2>5. \A j \in wr'.left : row[j.f].name # e.name
      BY <1>3, <2>1, <2>2 DEF PlanInv, NamesInv
    <2>6. \A d \in wr'.got, j \in wr'.left : d.name # row[j.f].name
      BY <1>3, <2>1, <2>5
    <2>7. ASSUME wr'.sound, NEW d \in wr'.due
          PROVE  \/ d \in wr'.got
                 \/ \E j \in wr'.left : d.name = row[j.f].name /\ d.data = want[j.f]
      <3>1. wr.sound /\ d \in wr.due /\ d = [name |-> d.name, data |-> d.data] /\ d.data # Null
        <4>1. d \in Entry
          BY <1>1, <1>3, <2>7 DEF SnapWork
        <4>2. d.data # Null
          BY <4>1 DEF Entry
        <4>3. \A x \in Entry : x = [name |-> x.name, data |-> x.data]
          BY Pairs DEF Entry
        <4>4. d = [name |-> d.name, data |-> d.data]
          BY <4>1, <4>3
        <4> QED BY <1>3, <2>7, <4>2, <4>4
      <3>2. CASE d \in wr.got
        BY <1>3, <3>2
      <3>3. CASE \E j \in wr.left : j # i /\ d.name = row[j.f].name /\ d.data = want[j.f]
        BY <1>3, <3>3
      <3>4. CASE d.name = row[i.f].name /\ d.data = want[i.f]
        <4>1. OrEmpty(Zipped(i)) = d.data
          <5>1. CASE want[i.f] # {}
            BY <2>2, <3>1, <3>4, <5>1 DEF Sees, Zipped, OrEmpty
          <5>2. CASE want[i.f] = {}
            <6>1. NeedsCold(i.db) /\ cold[i.f] = Null
              BY <2>2, <5>2 DEF Sees, CoreInv, FilesInv
            <6> QED BY <3>4, <5>2, <6>1 DEF NeedsCold, Zipped, GetBinaryData, OrEmpty
          <5> QED BY <5>1, <5>2
        <4>2. d = e
          BY <1>3, <2>7, <3>1, <3>4, <4>1
        <4> QED BY <1>3, <4>2
      <3> QED BY <2>1, <3>1, <3>2, <3>3, <3>4
    <2> QED BY <1>1, <1>3, <2>3, <2>4, <2>6, <2>7 DEF DueInv
  <1>6. DueInv'
    BY <1>1, <1>5 DEF DueInv
  <1> QED BY <1>3, <1>4, <1>6 DEF WorkInv, FreshInv, NothingOverlooked

LEMMA RestoreWork ==
  ASSUME CoreInv, PlanInv, RestoreWipe \/ RestoreFile
  PROVE  WorkInv'
  <1>1. wr \in SnapWork
    BY InHand DEF CoreInv, RestoreWipe, RestoreFile, SnapPcs
  <1>2. CASE wr' = NoWork
    BY <1>2, NoWorkIs, NothingOwed
  <1>3. CASE RestoreWipe /\ wr' # NoWork
    <2>1. DeleteRows({f \in Files : Live(f)}) /\ wr' = [wr EXCEPT !.pc = "refill"] /\ wr.pc = "wipe"
      BY <1>3 DEF RestoreWipe
    <2>2. wr'.pc = "refill" /\ wr'.got = wr.got
      BY <1>1, <2>1 DEF SnapWork
    <2> DEFINE F == {f \in Files : Live(f)}
    <2>3. /\ \A f \in F : row'[f].st = "gone"
          /\ \A f \in Files \ F : row'[f] = row[f]
      <3>1. F \in SUBSET Files
        OBVIOUS
      <3> QED BY <2>1, <3>1, Deleted DEF CoreInv
    <2>4. \A f \in Files : row'[f].st # "live"
      BY <2>3 DEF Live
    <2>5. Differ(wr.got)
      BY <2>1 DEF PlanInv, WorkInv, FreshInv
    <2> QED BY <2>2, <2>4, <2>5 DEF WorkInv, LoadedInv, DueInv, FreshInv, NothingOverlooked, Live
  <1>4. CASE RestoreFile /\ wr' # NoWork
    <2>1. PICK e \in wr.got, f \in Files : Insert(f, e.name, e.data) /\ wr' = [wr EXCEPT !.got = @ \ {e}] /\ wr.pc = "refill"
      BY <1>4 DEF RestoreFile
    <2>2. wr'.pc = "refill" /\ wr'.got = wr.got \ {e}
      BY <1>1, <2>1 DEF SnapWork
    <2>3. e.name \in Names \cup {""} /\ e.data \in Bytes
      BY <1>1, <2>1 DEF SnapWork, Entry, Bytes
    <2>4. row'[f].name = e.name /\ \A g \in Files \ {f} : row'[g] = row[g]
      <3> DEFINE n == e.name
                 b == e.data
      <3>1. n \in Names \cup {""} /\ b \in Bytes /\ Insert(f, n, b)
        BY <2>1, <2>3
      <3> HIDE DEF n, b
      <3>2. row'[f].name = n /\ \A g \in Files \ {f} : row'[g] = row[g]
        BY <3>1, Inserted
      <3> QED BY <3>2 DEF n
    <2>5. Differ(wr.got) /\ \A d \in wr.got, g \in Files : Live(g) => row[g].name # d.name
      BY <2>1 DEF PlanInv, WorkInv, FreshInv
    <2>6. Differ(wr'.got)
      BY <2>2, <2>5 DEF Differ
    <2>7. \A d \in wr'.got : d.name # e.name
      BY <2>2, <2>5 DEF Differ
    <2>8. \A d \in wr'.got, g \in Files : row'[g].st = "live" => row'[g].name # d.name
      BY <2>2, <2>4, <2>5, <2>7 DEF Live
    <2> QED BY <2>2, <2>6, <2>8 DEF WorkInv, LoadedInv, DueInv, FreshInv, NothingOverlooked, Live
  <1> QED BY <1>2, <1>3, <1>4

\* Steps after which nothing is owed.
LEMMA WriterEnds ==
  ASSUME CoreInv,
         \/ Create \/ SetClear \/ SetStore \/ SetSave \/ DropImages \/ StoreZip \/ WriterDies
         \/ \E f \in Files : ReplaceContent(f) \/ DeleteFile(f)
  PROVE  wr'.pc \in {"idle"} \cup SetPcs
  <1>1. CASE SetSave \/ DropImages \/ StoreZip \/ WriterDies \/ wr' = NoWork
    BY <1>1, NoWorkIs DEF SetSave, DropImages, StoreZip, WriterDies
  <1>2. CASE \E f \in Files : ReplaceContent(f) \/ DeleteFile(f)
    BY <1>2, ReplaceContentDoes DEF CoreInv, DeleteFile, MayWork, SetPcs
  <1>3. CASE SetClear
    <2>1. wr \in FileWork
      BY <1>3, InHand DEF CoreInv, SetClear, SnapPcs
    <2>2. wr' = [wr EXCEPT !.pc = IF wr.imm THEN "store" ELSE "save", !.got = wr.data]
      BY <1>3 DEF SetClear
    <2> QED BY <2>1, <2>2 DEF FileWork, SetPcs
  <1>4. CASE SetStore
    <2>1. wr \in FileWork
      BY <1>4, InHand DEF CoreInv, SetStore, SnapPcs
    <2>2. \E b : wr' = [wr EXCEPT !.pc = "save", !.got = b]
      BY <1>4 DEF SetStore
    <2> QED BY <2>1, <2>2 DEF FileWork, SetPcs
  <1>5. CASE Create /\ wr' # NoWork
    <2>1. wr \in FileWork
      BY <1>5, InHand DEF CoreInv, Create, SnapPcs
    <2>2. \E f : wr' = [wr EXCEPT !.pc = "clear", !.f = f, !.name = "", !.due = {}, !.sound = TRUE]
      BY <1>5 DEF Create
    <2> QED BY <2>1, <2>2 DEF FileWork, SetPcs
  <1> QED BY <1>1, <1>2, <1>3, <1>4, <1>5

LEMMA WorkStep ==
  ASSUME CoreInv, PlanInv, [Next]_vars
  PROVE  WorkInv'
  <1>1. CASE \/ \E n \in Names : SaveOutput(n)
             \/ SaveImage \/ UploadFile \/ PurgeUnusedImages
             \/ \E s \in Snaps : CreateSnapshot(s) \/ RestoreRead(s)
    BY <1>1, WriterStarts
  <1>2. CASE Append
    BY <1>2, AppendWork
  <1>3. CASE DeleteOld
    BY <1>3, DeleteOldWork
  <1>4. CASE ScanReport
    BY <1>4, ScanReportWork
  <1>5. CASE SnapshotFiles \/ BuildZip
    BY <1>5, SnapshotFilesWork, BuildZipWork
  <1>6. CASE RestoreWipe \/ RestoreFile
    BY <1>6, RestoreWork
  <1>7. CASE \/ Create \/ SetClear \/ SetStore \/ SetSave \/ DropImages \/ StoreZip \/ WriterDies
             \/ \E f \in Files : ReplaceContent(f) \/ DeleteFile(f)
    BY <1>7, WriterEnds, NothingOwed
  <1>8. CASE Others /\ ~Create /\ ~RestoreFile
    BY <1>8, RowsOnlyGo, OthersWork
  <1> QED BY <1>1, <1>2, <1>3, <1>4, <1>5, <1>6, <1>7, <1>8 DEF Next, Writer, Others

LEMMA PlanStep ==
  ASSUME CoreInv, PlanInv, [Next]_vars
  PROVE  PlanInv'
  BY NamesStep, ZipsStep, WorkStep DEF PlanInv

FileInv == CoreInv /\ PlanInv

\* The inductive invariant.
LEMMA FileInvariant == Spec => []FileInv
  <1>1. Init => FileInv
    BY CoreInit, PlanInit DEF FileInv
  <1>2. FileInv /\ [Next]_vars => FileInv'
    BY CoreStep, PlanStep DEF FileInv
  <1> QED BY <1>1, <1>2, PTL DEF Spec

(***************************************************************************)
(* The theorems.                                                           *)
(***************************************************************************)
\* Rows, objects, texts and ZIPs have their types whatever the five threads do: in
\* particular no ZIP holds a file without content (create_snapshot writes empty bytes).
THEOREM FileTypes == Spec => []TypeOK
  BY FileInvariant, PTL DEF FileInv, CoreInv

\* The bytes a finished write left in a file are found by get_binary_data, through
\* offloads, orphan purges, replacements, restores, storage errors and crashes.
THEOREM ContentIsKept == Spec => []ContentKept
  BY FileInvariant, PTL DEF FileInv, CoreInv, FilesInv

\* A download or text extraction that storage answers, of a file that stays and is not
\* replaced meanwhile, gets the bytes the file had when its row was loaded.
THEOREM ReadersFind == Spec => []ReadsFind
  <1>1. FileInv => ReadsFind
    BY DEF FileInv, CoreInv, ReaderInv, ReadsFind
  <1> QED BY <1>1, FileInvariant, PTL

\* A cached text is that of the bytes of the file, unless its reader overlapped a
\* replacement of them.
THEOREM TextsAreFresh == Spec => []TextFresh
  BY FileInvariant, PTL DEF FileInv, CoreInv

\* A stored ZIP has what the session had when create_snapshot listed its files.
THEOREM SnapshotsComplete == Spec => []SnapshotComplete
  BY FileInvariant, PTL DEF FileInv, PlanInv, ZipsInv

\* Appending to memory.md keeps what was in it, and purge_unused_images drops no image
\* of a report, unless a read failed or the session was purged meanwhile.
THEOREM NoneOverlooked == Spec => []NothingOverlooked
  BY FileInvariant, PTL DEF FileInv, PlanInv, WorkInv
=============================================================================

----------------------------- MODULE FileStore -----------------------------
(***************************************************************************)
(* The attached files of one session (or knowledge base): rows of          *)
(* AttachedFile, whose bytes are in the column binary_content or, offloaded,*)
(* in cold storage under the row's key; the extracted text cached in        *)
(* TextAttachedFile; and the ZIPs of session snapshots.                     *)
(*                                                                         *)
(* Five threads work on them.  The writer does what the session's executor  *)
(* and its user do, one thing after the other (a session has one task, and  *)
(* is restored between runs).  The reader downloads files and extracts      *)
(* their text.  The watchdog offloads bytes once a day, removes orphans     *)
(* from cold storage and purges the session once it is deleted.             *)
(*                                                                         *)
(* A content is the set of writes it is made of: {} is an empty file, an    *)
(* appended file has several.                                              *)
(***************************************************************************)
EXTENDS Integers, FiniteSets

CONSTANTS
  Files,         \* primary keys, never used twice
  Snaps,         \* snapshots
  Names,         \* the names files are given, of the four below
  Null,
  MaxWrites,     \* bound on the contents written
  MaxFaults      \* bound on storage errors, crashes, and changes of
                 \* coldstorage_offline and of is_deleted

ASSUME FileConstants ==
  /\ Names \subseteq {"report", "memory", "image", "input"}
  /\ Null \notin Files /\ \A b \in SUBSET (1 .. MaxWrites) : b # Null
  /\ MaxWrites \in Nat /\ MaxFaults \in Nat

VARIABLES
  row,       \* AttachedFile rows
  cold,      \* objects in the folder attached_files
  text,      \* TextAttachedFile rows
  zip,       \* snapshots: their row and their ZIP
  online,    \* cold storage is configured and not offline
  session,   \* the session's row
  wr, rd,    \* the writer and the reader
  off,       \* the daily offload job
  orph,      \* the orphan purge
  sweep,     \* the purge of deleted sessions
  want,      \* history: the bytes a finished write left in a file
  writes, faults

dbVars == <<row, text, session>>
tally  == <<writes, faults>>
vars   == <<dbVars, cold, zip, online, wr, rd, off, orph, sweep, want, tally>>

Contents == SUBSET (1 .. MaxWrites)
Bytes    == Contents \cup {Null}

NoRow == [st |-> "unused", name |-> "", db |-> Null]

Live(f) == row[f].st = "live"
Named(n) == {f \in Files : Live(f) /\ row[f].name = n}

NoText == [made |-> FALSE, of |-> Null, met |-> FALSE]
NoZip  == [st |-> "none", files |-> {}, due |-> {}, sound |-> TRUE]

\* The writer: the row and the name it works on, the bytes in its hands and
\* whether they go to cold storage at once, the snapshot; the instances it has
\* loaded, what it read of them, what it should have read, and whether no read
\* failed.
NoWork == [pc |-> "idle", f |-> Null, name |-> "", data |-> Null, imm |-> FALSE,
           snap |-> Null, left |-> {}, got |-> {}, due |-> {}, sound |-> TRUE]

\* The reader: its instance (key and column), what it read, the bytes the file had
\* when it was loaded, and whether a replacement of the file overlaps the read.
NoRead == [pc |-> "idle", f |-> Null, db |-> Null, got |-> Null, was |-> Null,
           met |-> FALSE]

SetPcs == {"clear", "store", "save"}

NoOffload == [pc |-> "idle", f |-> Null]

Init ==
  /\ row = [f \in Files |-> NoRow]
  /\ cold = [f \in Files |-> Null]
  /\ text = [f \in Files |-> NoText]
  /\ zip = [s \in Snaps |-> NoZip]
  /\ online = TRUE /\ session = "live"
  /\ wr = NoWork /\ rd = NoRead
  /\ off = NoOffload
  /\ orph = [pc |-> "list", ids |-> {}]
  /\ sweep = "list"
  /\ want = [f \in Files |-> Null]
  /\ writes = 0 /\ faults = 0

(***************************************************************************)
(* Cold storage.                                                           *)
(***************************************************************************)
\* An operation of the backend may raise; the helpers swallow it.
Works == online /\ UNCHANGED faults
Fails == faults < MaxFaults /\ faults' = faults + 1
Unavailable == IF online THEN Fails ELSE UNCHANGED faults

\* Variant: only the column is read.
ColumnOnly(f, db) == db

\* get_binary_data on an instance of f whose column was db when it was loaded.
GetBinaryData(f, db) == IF db \notin {Null, {}} THEN db ELSE cold[f]

NeedsCold(db) == db \in {Null, {}}

\* SELECT FOR UPDATE of the offload: other writers of the row wait.
Unlocked(F) == off.f \notin F

\* Deleting rows deletes their texts (CASCADE), not their objects.
DeleteRows(F) ==
  /\ Unlocked(F)
  /\ row' = [f \in Files |-> IF f \in F THEN [NoRow EXCEPT !.st = "gone"] ELSE row[f]]
  /\ text' = [f \in Files |-> IF f \in F THEN NoText ELSE text[f]]

Insert(f, n, bytes) ==
  /\ row[f] = NoRow
  /\ row' = [row EXCEPT ![f] = [st |-> "live", name |-> n, db |-> bytes]]

(***************************************************************************)
(* Output files, images, uploads and replacements.                         *)
(***************************************************************************)
NewWrite(v) == writes < MaxWrites /\ v = writes + 1 /\ writes' = v

MayWork == wr.pc = "idle" /\ session = "live"

\* save_generation_output_files: files are written anew, memory.md is appended to
\* the text of the existing one.
SaveOutput(n) ==
  /\ MayWork /\ n \in Names \cap {"report", "memory"}
  /\ \E v \in 1 .. MaxWrites :
       /\ NewWrite(v)
       /\ LET old == IF n = "memory" THEN Named(n) ELSE {}
          IN  wr' = [NoWork EXCEPT
                       !.pc = IF old = {} THEN "delete" ELSE "append", !.name = n, !.data = {v},
                       !.left = {[f |-> f, db |-> row[f].db] : f \in old},
                       !.due = {want[f] : f \in old} \ {Null}]
  /\ UNCHANGED <<dbVars, cold, zip, online, rd, off, orph, sweep, want, faults>>

AppendBase(i) == IF text[i.f].made THEN text[i.f].of ELSE GetBinaryData(i.f, i.db)

\* get_text_content of the existing file; without its bytes the text is "None".
\* (It also caches the text, in a row that goes with the file in the next step.)
Append ==
  /\ wr.pc = "append"
  /\ \E i \in wr.left :
       LET base == AppendBase(i) IN
       \/ /\ text[i.f].made \/ ~NeedsCold(i.db) \/ online
          /\ wr' = [wr EXCEPT !.pc = "delete", !.sound = ~text[i.f].met,
                              !.data = @ \cup (IF base = Null THEN {} ELSE base)]
          /\ UNCHANGED faults
       \/ /\ ~text[i.f].made /\ NeedsCold(i.db) /\ Unavailable
          /\ wr' = [wr EXCEPT !.pc = "delete", !.sound = FALSE]
  /\ UNCHANGED <<dbVars, cold, zip, online, rd, off, orph, sweep, want, writes>>

\* The existing rows of that name go (upload_files does the same).
DeleteOld ==
  /\ wr.pc = "delete"
  /\ DeleteRows(Named(wr.name))
  /\ wr' = [wr EXCEPT !.pc = "create"]
  /\ UNCHANGED <<session, cold, zip, online, rd, off, orph, sweep, want, tally>>

\* The new row is saved: an upload with its bytes, an output file without.
Create ==
  /\ wr.pc = "create"
  /\ \E f \in Files :
       IF wr.name = "input"
       THEN /\ Insert(f, wr.name, wr.data)
            /\ want' = [want EXCEPT ![f] = wr.data]
            /\ wr' = NoWork
       ELSE /\ Insert(f, wr.name, Null)
            /\ wr' = [wr EXCEPT !.pc = "clear", !.f = f, !.name = "", !.due = {}, !.sound = TRUE]
            /\ UNCHANGED want
  /\ UNCHANGED <<text, session, cold, zip, online, rd, off, orph, sweep, tally>>

\* _save_image_to_session_file: a new row, its bytes straight to cold storage.
SaveImage ==
  /\ MayWork /\ "image" \in Names /\ Named("image") = {}
  /\ \E v \in 1 .. MaxWrites :
       NewWrite(v) /\ wr' = [NoWork EXCEPT !.pc = "create", !.name = "image", !.data = {v}, !.imm = TRUE]
  /\ UNCHANGED <<dbVars, cold, zip, online, rd, off, orph, sweep, want, faults>>

UploadFile ==
  /\ MayWork /\ "input" \in Names
  /\ \E v \in 1 .. MaxWrites :
       NewWrite(v) /\ wr' = [NoWork EXCEPT !.pc = "delete", !.name = "input", !.data = {v}]
  /\ UNCHANGED <<dbVars, cold, zip, online, rd, off, orph, sweep, want, faults>>

\* The host gives a file new bytes with set_binary_content.
ReplaceContent(f) ==
  /\ MayWork /\ Live(f) /\ want[f] # Null
  /\ \E v \in 1 .. MaxWrites :
       NewWrite(v) /\ wr' = [NoWork EXCEPT !.pc = "clear", !.f = f, !.data = {v}]
  /\ rd' = IF rd.f = f THEN [rd EXCEPT !.met = TRUE] ELSE rd
  /\ UNCHANGED <<dbVars, cold, zip, online, off, orph, sweep, want, faults>>

\* Variant: the cached text is left alone.
KeepText(f) == text

DropText(f) == [text EXCEPT ![f] = NoText]

\* set_binary_content: the cached text goes, then the object in cold storage ...
SetClear ==
  /\ wr.pc = "clear"
  /\ text' = DropText(wr.f)
  /\ want' = [want EXCEPT ![wr.f] = Null]
  /\ \/ Works /\ cold' = [cold EXCEPT ![wr.f] = Null]
     \/ Unavailable /\ UNCHANGED cold
  /\ wr' = [wr EXCEPT !.pc = IF wr.imm THEN "store" ELSE "save", !.got = wr.data]
  /\ UNCHANGED <<row, session, zip, online, rd, off, orph, sweep, writes>>

ForColumn(stored) == IF stored THEN Null ELSE wr.data

\* ... store_attached_file, when the bytes are offloaded at once ...
SetStore ==
  /\ wr.pc = "store"
  /\ \/ Works /\ cold' = [cold EXCEPT ![wr.f] = wr.data] /\ wr' = [wr EXCEPT !.pc = "save", !.got = ForColumn(TRUE)]
     \/ Unavailable /\ UNCHANGED cold /\ wr' = [wr EXCEPT !.pc = "save", !.got = ForColumn(FALSE)]
  /\ UNCHANGED <<dbVars, zip, online, rd, off, orph, sweep, want, writes>>

\* ... and the column is saved.  A row deleted meanwhile makes it raise.
SetSave ==
  /\ wr.pc = "save"
  /\ IF Live(wr.f)
     THEN /\ Unlocked({wr.f})
          /\ row' = [row EXCEPT ![wr.f].db = wr.got]
          /\ want' = [want EXCEPT ![wr.f] = wr.data]
     ELSE UNCHANGED <<row, want>>
  /\ wr' = NoWork
  /\ UNCHANGED <<text, session, cold, zip, online, rd, off, orph, sweep, tally>>

\* KnowledgeBaseViewSet.remove_file, AttachedFileAdmin.
DeleteFile(f) ==
  /\ MayWork /\ Live(f)
  /\ DeleteRows({f})
  /\ UNCHANGED <<session, cold, zip, online, wr, rd, off, orph, sweep, want, tally>>

(***************************************************************************)
(* Readers: downloads (get_binary_data) and get_text_content.              *)
(***************************************************************************)
Load(f) ==
  /\ rd.pc = "idle" /\ Live(f)
  /\ rd' = [NoRead EXCEPT !.pc = "loaded", !.f = f, !.db = row[f].db, !.was = want[f],
                          !.met = wr.f = f /\ wr.pc \in SetPcs]
  /\ UNCHANGED <<dbVars, cold, zip, online, wr, off, orph, sweep, want, tally>>

\* A download, or the text is not cached: read the bytes.  A read that storage
\* fails finds nothing.
ReadBytes ==
  /\ rd.pc = "loaded"
  /\ \E next \in {"done", "extract"} :
       /\ next = "extract" => ~text[rd.f].made
       /\ \/ /\ ~NeedsCold(rd.db) \/ online
             /\ LET b == GetBinaryData(rd.f, rd.db)
                IN  rd' = [rd EXCEPT !.got = b, !.pc = IF b \in {Null, {}} THEN "done" ELSE next]
             /\ UNCHANGED faults
          \/ /\ NeedsCold(rd.db) /\ Unavailable
             /\ rd' = NoRead
  /\ UNCHANGED <<dbVars, cold, zip, online, wr, off, orph, sweep, want, writes>>

\* The text is made from the bytes read before and cached; the one-to-one row of
\* another reader, or the deletion of the file, makes this raise.
CreateText ==
  /\ rd.pc = "extract"
  /\ IF Live(rd.f) /\ ~text[rd.f].made
     THEN text' = [text EXCEPT ![rd.f] = [made |-> TRUE, of |-> rd.got, met |-> rd.met]]
     ELSE UNCHANGED text
  /\ rd' = NoRead
  /\ UNCHANGED <<row, session, cold, zip, online, wr, off, orph, sweep, want, tally>>

FinishRead ==
  /\ rd.pc = "done"
  /\ rd' = NoRead
  /\ UNCHANGED <<dbVars, cold, zip, online, wr, off, orph, sweep, want, tally>>

(***************************************************************************)
(* After a run: purge_unused_images, create_snapshot.  On demand:          *)
(* restore_snapshot.                                                       *)
(***************************************************************************)
Instances(F) == {[f |-> f, db |-> row[f].db] : f \in F}

\* The images are candidates, the text output files are loaded.  (Only reports
\* refer to images, and every report that is not empty does.)
PurgeUnusedImages ==
  /\ MayWork /\ Named("image") # {}
  /\ wr' = [NoWork EXCEPT !.pc = "scan", !.left = Instances(Named("report")),
                          !.due = {want[f] : f \in Named("report")} \ {Null, {}}]
  /\ UNCHANGED <<dbVars, cold, zip, online, rd, off, orph, sweep, want, tally>>

\* Variant: reports are looked for in the column.
ScanColumn(i) == ColumnOnly(i.f, i.db)

Scanned(i) == GetBinaryData(i.f, i.db)

\* A report that cannot be read refers to nothing.
ScanReport ==
  /\ wr.pc = "scan"
  /\ IF wr.left = {}
     THEN wr' = [wr EXCEPT !.pc = "drop"] /\ UNCHANGED faults
     ELSE \E i \in wr.left :
            \/ /\ ~NeedsCold(i.db) \/ online
               /\ wr' = IF Scanned(i) \in {Null, {}} THEN [wr EXCEPT !.left = @ \ {i}] ELSE NoWork
               /\ UNCHANGED faults
            \/ /\ NeedsCold(i.db) /\ Unavailable
               /\ wr' = [wr EXCEPT !.left = @ \ {i}, !.sound = FALSE]
  /\ UNCHANGED <<dbVars, cold, zip, online, rd, off, orph, sweep, want, writes>>

DropImages ==
  /\ wr.pc = "drop"
  /\ DeleteRows(Named("image"))
  /\ wr' = NoWork
  /\ UNCHANGED <<session, cold, zip, online, rd, off, orph, sweep, want, tally>>

\* create_snapshot: the row first, then the ZIP is built ...
CreateSnapshot(s) ==
  /\ MayWork /\ online /\ zip[s].st = "none"
  /\ zip' = [zip EXCEPT ![s].st = "row"]
  /\ wr' = [NoWork EXCEPT !.pc = "files", !.snap = s]
  /\ UNCHANGED <<dbVars, cold, online, rd, off, orph, sweep, want, tally>>

SnapshotFiles ==
  /\ wr.pc = "files"
  /\ LET F == {f \in Files : Live(f)}
     IN  wr' = [wr EXCEPT !.pc = "zip", !.left = Instances(F),
                          !.due = {[name |-> row[f].name, data |-> want[f]] :
                                     f \in {g \in F : want[g] # Null}}]
  /\ UNCHANGED <<dbVars, cold, zip, online, rd, off, orph, sweep, want, tally>>

\* Variant: the ZIP takes the column.
ZippedColumn(i) == ColumnOnly(i.f, i.db)

Zipped(i) == GetBinaryData(i.f, i.db)

\* Variant: bytes that were not found go into the ZIP as they are.
AsFound(b) == b

OrEmpty(b) == IF b = Null THEN {} ELSE b

\* ... from the bytes of each file, empty when they are not found ...
BuildZip ==
  /\ wr.pc = "zip"
  /\ \E i \in wr.left :
       \/ /\ ~NeedsCold(i.db) \/ online
          /\ wr' = [wr EXCEPT !.left = @ \ {i},
                      !.got = @ \cup {[name |-> row[i.f].name, data |-> OrEmpty(Zipped(i))]}]
          /\ UNCHANGED faults
       \/ /\ NeedsCold(i.db) /\ Unavailable
          /\ wr' = [wr EXCEPT !.left = @ \ {i}, !.sound = FALSE,
                      !.got = @ \cup {[name |-> row[i.f].name, data |-> {}]}]
  /\ UNCHANGED <<dbVars, cold, zip, online, rd, off, orph, sweep, want, writes>>

\* ... and stored.  A failure leaves the row without its ZIP.
StoreZip ==
  /\ wr.pc = "zip" /\ wr.left = {}
  /\ \/ /\ Works
        /\ zip' = [zip EXCEPT ![wr.snap] =
                     IF zip[wr.snap].st = "row"
                     THEN [st |-> "stored", files |-> wr.got, due |-> wr.due, sound |-> wr.sound]
                     ELSE [@ EXCEPT !.st = "orphan"]]
     \/ Unavailable /\ UNCHANGED zip
  /\ wr' = NoWork
  /\ UNCHANGED <<dbVars, cold, online, rd, off, orph, sweep, want, writes>>

\* restore_snapshot: nothing is touched before the ZIP is read and valid ...
RestoreRead(s) ==
  /\ MayWork /\ online /\ zip[s].st = "stored"
  /\ wr' = [NoWork EXCEPT !.pc = "wipe", !.snap = s, !.got = zip[s].files]
  /\ UNCHANGED <<dbVars, cold, zip, online, rd, off, orph, sweep, want, tally>>

\* ... then the session is saved (a deleted one raises), all files are deleted ...
RestoreWipe ==
  /\ wr.pc = "wipe"
  /\ IF session = "live"
     THEN DeleteRows({f \in Files : Live(f)}) /\ wr' = [wr EXCEPT !.pc = "refill"]
     ELSE UNCHANGED <<row, text>> /\ wr' = NoWork
  /\ UNCHANGED <<session, cold, zip, online, rd, off, orph, sweep, want, tally>>

\* ... and created again one by one.
RestoreFile ==
  /\ wr.pc = "refill"
  /\ IF wr.got = {} \/ session = "purged"
     THEN wr' = NoWork /\ UNCHANGED <<row, want>>
     ELSE \E e \in wr.got, f \in Files :
            /\ Insert(f, e.name, e.data)
            /\ want' = [want EXCEPT ![f] = e.data]
            /\ wr' = [wr EXCEPT !.got = @ \ {e}]
  /\ UNCHANGED <<text, session, cold, zip, online, rd, off, orph, sweep, tally>>

(***************************************************************************)
(* The watchdog: offload_to_cold_storage.                                  *)
(***************************************************************************)
\* The row is read again under its lock; an empty one is skipped.
OffloadLock(f) ==
  /\ off = NoOffload /\ online
  /\ Live(f) /\ ~NeedsCold(row[f].db)
  /\ off' = [pc |-> "store", f |-> f]
  /\ UNCHANGED <<dbVars, cold, zip, online, wr, rd, orph, sweep, want, tally>>

StoreFailed == NoOffload

OffloadStore ==
  /\ off.pc = "store"
  /\ \/ Works /\ cold' = [cold EXCEPT ![off.f] = row[off.f].db] /\ off' = [off EXCEPT !.pc = "commit"]
     \/ Unavailable /\ UNCHANGED cold /\ off' = StoreFailed
  /\ UNCHANGED <<dbVars, zip, online, wr, rd, orph, sweep, want, writes>>

OffloadCommit ==
  /\ off.pc = "commit"
  /\ row' = [row EXCEPT ![off.f].db = Null]
  /\ off' = NoOffload
  /\ UNCHANGED <<text, session, cold, zip, online, wr, rd, orph, sweep, want, tally>>

(***************************************************************************)
(* The watchdog: _purge_deleted_attached_files.                            *)
(***************************************************************************)
OrphanList ==
  /\ orph.pc = "list" /\ online /\ \E f \in Files : cold[f] # Null
  /\ orph' = [pc |-> "query", ids |-> {f \in Files : cold[f] # Null}]
  /\ UNCHANGED <<dbVars, cold, zip, online, wr, rd, off, sweep, want, tally>>

\* Variant: an object is an orphan when its row has its own bytes or none is there.
NotInColumn(ids) == {f \in ids : row[f].db = Null}

NotInDb(ids) == {f \in ids : ~Live(f)}

OrphanQuery ==
  /\ orph.pc = "query"
  /\ orph' = [pc |-> IF NotInDb(orph.ids) = {} THEN "list" ELSE "remove", ids |-> NotInDb(orph.ids)]
  /\ UNCHANGED <<dbVars, cold, zip, online, wr, rd, off, sweep, want, tally>>

OrphanRemove ==
  /\ orph.pc = "remove"
  /\ \E f \in orph.ids :
       /\ \/ UNCHANGED faults /\ cold' = [cold EXCEPT ![f] = Null]
          \/ Fails /\ UNCHANGED cold
       /\ orph' = [pc |-> IF orph.ids = {f} THEN "list" ELSE "remove", ids |-> orph.ids \ {f}]
  /\ UNCHANGED <<dbVars, zip, online, wr, rd, off, sweep, want, writes>>

(***************************************************************************)
(* The watchdog: _purge_deleted_sessions.                                  *)
(***************************************************************************)
\* The session has been deleted for purge_session_cutoff_days: its last run is over.
SweepList ==
  /\ sweep = "list" /\ session = "deleted" /\ wr.pc = "idle"
  /\ sweep' = IF online THEN "zips" ELSE "delete"
  /\ UNCHANGED <<dbVars, cold, zip, online, wr, rd, off, orph, want, tally>>

SweepZips ==
  /\ sweep = "zips"
  /\ \/ Works /\ zip' = [s \in Snaps |-> IF zip[s].st = "stored" THEN [NoZip EXCEPT !.st = "row"] ELSE zip[s]]
     \/ Unavailable /\ UNCHANGED zip
  /\ sweep' = "delete"
  /\ UNCHANGED <<dbVars, cold, online, wr, rd, off, orph, want, writes>>

\* DELETE ... WHERE is_deleted, with all the session has.
SweepDelete ==
  /\ sweep = "delete"
  /\ IF session = "deleted"
     THEN /\ DeleteRows({f \in Files : Live(f)})
          /\ session' = "purged"
          /\ zip' = [s \in Snaps |-> [NoZip EXCEPT !.st = IF zip[s].st = "stored" THEN "orphan" ELSE "gone"]]
     ELSE UNCHANGED <<row, text, session, zip>>
  /\ sweep' = "list"
  /\ UNCHANGED <<cold, online, wr, rd, off, orph, want, tally>>

(***************************************************************************)
(* Faults and administrators.                                              *)
(***************************************************************************)
\* A process dies, or a step raises outside the helpers' try blocks.
WriterDies ==
  /\ wr.pc # "idle" /\ Fails
  /\ wr' = NoWork
  /\ UNCHANGED <<dbVars, cold, zip, online, rd, off, orph, sweep, want, writes>>

WatchdogDies ==
  /\ off # NoOffload \/ orph.pc # "list" \/ sweep # "list"
  /\ Fails
  /\ off' = NoOffload /\ orph' = [pc |-> "list", ids |-> {}] /\ sweep' = "list"
  /\ UNCHANGED <<dbVars, cold, zip, online, wr, rd, want, writes>>

ToggleOffline ==
  /\ Fails
  /\ online' = ~online
  /\ UNCHANGED <<dbVars, cold, zip, wr, rd, off, orph, sweep, want, writes>>

\* Soft delete, and restore through the admin.
ToggleDeleted ==
  /\ Fails
  /\ session # "purged"
  /\ session' = IF session = "live" THEN "deleted" ELSE "live"
  /\ UNCHANGED <<row, text, cold, zip, online, wr, rd, off, orph, sweep, want, writes>>

Writer ==
  \/ \E n \in Names : SaveOutput(n)
  \/ Append \/ DeleteOld \/ Create \/ SaveImage \/ UploadFile
  \/ \E f \in Files : ReplaceContent(f) \/ DeleteFile(f)
  \/ SetClear \/ SetStore \/ SetSave
  \/ PurgeUnusedImages \/ ScanReport \/ DropImages
  \/ \E s \in Snaps : CreateSnapshot(s) \/ RestoreRead(s)
  \/ SnapshotFiles \/ BuildZip \/ StoreZip
  \/ RestoreWipe \/ RestoreFile

Reader == (\E f \in Files : Load(f)) \/ ReadBytes \/ CreateText \/ FinishRead

Offload == (\E f \in Files : OffloadLock(f)) \/ OffloadStore \/ OffloadCommit

OrphanPurge == OrphanList \/ OrphanQuery \/ OrphanRemove

SessionPurge == SweepList \/ SweepZips \/ SweepDelete

Next ==
  \/ Writer \/ Reader \/ Offload \/ OrphanPurge \/ SessionPurge
  \/ WriterDies \/ WatchdogDies \/ ToggleOffline \/ ToggleDeleted

Spec == Init /\ [][Next]_vars

(***************************************************************************)
(* Properties.                                                             *)
(***************************************************************************)
AttachedFiles == [st : {"unused", "live", "gone"}, name : Names \cup {""}, db : Bytes]
Texts         == [made : BOOLEAN, of : Bytes, met : BOOLEAN]

Instance == [f : Files, db : Bytes]

\* What the ZIP of a purged session is built from has lost its name.
Entry    == [name : Names \cup {""}, data : Bytes \ {Null}]

Zips == [st : {"none", "row", "stored", "orphan", "gone"},
         files : SUBSET Entry, due : SUBSET Entry, sound : BOOLEAN]

SnapPcs == {"files", "zip", "wipe", "refill"}

FileWork ==
  [pc : {"idle", "append", "delete", "create", "scan", "drop"} \cup SetPcs,
   f : Files \cup {Null}, name : Names \cup {""}, data : Bytes, imm : BOOLEAN,
   snap : Snaps \cup {Null}, left : SUBSET Instance, got : Bytes,
   due : SUBSET Bytes, sound : BOOLEAN]

SnapWork ==
  [pc : SnapPcs, f : {Null}, name : {""}, data : {Null}, imm : {FALSE}, snap : Snaps,
   left : SUBSET Instance, got : SUBSET Entry, due : SUBSET Entry, sound : BOOLEAN]

Reads    == [pc : {"idle", "loaded", "extract", "done"}, f : Files \cup {Null}, db : Bytes,
             got : Bytes, was : Bytes, met : BOOLEAN]
Offloads == [pc : {"idle", "store", "commit"}, f : Files \cup {Null}]
Purges   == [pc : {"list", "query", "remove"}, ids : SUBSET Files]

TypeOK ==
  /\ row \in [Files -> AttachedFiles]
  /\ cold \in [Files -> Bytes]
  /\ text \in [Files -> Texts]
  /\ zip \in [Snaps -> Zips]
  /\ online \in BOOLEAN /\ session \in {"live", "deleted", "purged"}
  /\ IF wr.pc \in SnapPcs THEN wr \in SnapWork ELSE wr \in FileWork
  /\ rd \in Reads /\ off \in Offloads /\ orph \in Purges
  /\ sweep \in {"list", "zips", "delete"}
  /\ want \in [Files -> Bytes]
  /\ writes \in 0 .. MaxWrites /\ faults \in 0 .. MaxFaults

\* The bytes a finished write left in a file are in its column or, when the column
\* is empty, in cold storage: no interleaving of offload, orphan purge, replacement,
\* restore and errors loses them.
ContentKept ==
  \A f \in Files : Live(f) /\ want[f] \notin {Null, {}} => GetBinaryData(f, row[f].db) = want[f]

\* A reader of a file that stays, is not being replaced and whose storage works gets
\* its bytes, even when they move to cold storage after it loaded the row.
ReadsFind ==
  rd.pc = "done" /\ ~rd.met /\ Live(rd.f) /\ rd.was \notin {Null, {}} => rd.got = rd.was

\* The cached text is made from the bytes the file has, unless it was made by a reader
\* whose work overlapped a replacement (files.py reads the bytes and caches the text
\* without a lock).
TextFresh ==
  \A f \in Files : text[f].made /\ ~text[f].met /\ want[f] # Null => text[f].of = want[f]

\* A ZIP has every file the session had when it was listed with the file's bytes,
\* although the offload moves them meanwhile, unless a read failed while it was built.
SnapshotComplete ==
  \A s \in Snaps : zip[s].st = "stored" /\ zip[s].sound => zip[s].due \subseteq zip[s].files

\* What save_generation_output_files appends to memory.md keeps what was in it, and
\* purge_unused_images drops no image of a report; only a read that failed hides them,
\* or the purge of the whole session.
NothingOverlooked ==
  wr.sound /\ session # "purged" =>
    /\ wr.name = "memory" /\ wr.pc \in {"delete", "create"} => \A d \in wr.due : d \subseteq wr.data
    /\ wr.pc = "drop" => wr.due = {}
=============================================================================

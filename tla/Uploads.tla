-------------------------------- MODULE Uploads --------------------------------
(***************************************************************************)
(* Uploads: a file in a local directory or a bucket, and a row that names  *)
(* it.  An upload stores the file, flushes the row and commits; the        *)
(* cleanup job reads the rows that are old enough, removes their files     *)
(* (the local ones only), then commits the deletion of the rows; a         *)
(* download reads the row, then looks for the file, then sends it.         *)
(* Requests and jobs overlap, and each may end between two steps.          *)
(***************************************************************************)
EXTENDS FiniteSets, Optional

CONSTANTS Files, Readers, Cleaners

ASSUME UploadsAssumption == None \notin Files

VARIABLES
  store,      \* settings.upload_backend: "local" or "remote"
  files,      \* the files stored
  rows,       \* the rows committed
  old,        \* rows older than the cutoff
  upc,        \* where the upload of each file is
  dpc, wants, \* where a reader is, and the file it asked for
  cpc, batch, \* where a cleanup is, and the rows it read
  unlinked,   \* those whose file it has dealt with
  deserted,   \* history: files dealt with by a cleanup that did not commit
  retired     \* history: files whose row a cleanup deleted

uvars == <<store, files, rows, old, upc, dpc, wants, cpc, batch, unlinked, deserted, retired>>
upload   == <<upc>>
download == <<dpc, wants>>
cleanup  == <<cpc, batch, unlinked, deserted, retired>>

DGoto(d, p) == dpc' = [dpc EXCEPT ![d] = p]
\* Mutant of CEnds: what the job has unlinked is not forgotten with its rows.
CEndsPartly(c) == /\ cpc' = [cpc EXCEPT ![c] = "done"] /\ batch' = [batch EXCEPT ![c] = {}]
                  /\ UNCHANGED unlinked
CEnds(c)    == /\ cpc' = [cpc EXCEPT ![c] = "done"] /\ batch' = [batch EXCEPT ![c] = {}]
               /\ unlinked' = [unlinked EXCEPT ![c] = {}]

UploadsInit ==
  /\ store \in {"local", "remote"} /\ files = {} /\ rows = {} /\ old = {}
  /\ upc = [f \in Files |-> "new"]
  /\ dpc = [d \in Readers |-> "new"] /\ wants = [d \in Readers |-> None]
  /\ cpc = [c \in Cleaners |-> "new"] /\ batch = [c \in Cleaners |-> {}]
  /\ unlinked = [c \in Cleaners |-> {}] /\ deserted = {} /\ retired = {}

-----------------------------------------------------------------------------
\* UploadStorage.save: under a name of its own.
SaveFile(f) ==
  /\ upc[f] = "new" /\ upc' = [upc EXCEPT ![f] = "saved"] /\ files' = files \cup {f}
  /\ UNCHANGED <<store, rows, old, download, cleanup>>

\* flush and, after the handler, commit.
CommitUpload(f) ==
  /\ upc[f] = "saved" /\ upc' = [upc EXCEPT ![f] = "stored"] /\ rows' = rows \cup {f}
  /\ UNCHANGED <<store, files, old, download, cleanup>>

\* The insert fails, or the process ends: the row is rolled back, the file stays.
UploadFails(f) ==
  /\ upc[f] = "saved" /\ upc' = [upc EXCEPT ![f] = "failed"]
  /\ UNCHANGED <<store, files, rows, old, download, cleanup>>

Ages(f) ==
  /\ f \in rows \ old /\ old' = old \cup {f}
  /\ UNCHANGED <<store, files, rows, upload, download, cleanup>>

\* download_file: the row and its owner; a bucket is not proxied (501).
FindUpload(d, f, owner) ==
  /\ dpc[d] = "new" /\ wants' = [wants EXCEPT ![d] = f]
  /\ DGoto(d, IF f \notin rows THEN "404" ELSE IF ~owner THEN "403"
              ELSE IF store # "local" THEN "501"
              ELSE IF f \notin files THEN "404" ELSE "send")
  /\ UNCHANGED <<store, files, rows, old, upload, cleanup>>

\* FileResponse opens the file after the handler has returned.
SendFile(d) ==
  /\ dpc[d] = "send" /\ DGoto(d, IF wants[d] \in files THEN "200" ELSE "500")
  /\ UNCHANGED <<store, files, rows, old, upload, wants, cleanup>>

\* cleanup_stale_uploads reads the rows ...
ReadOld(c) ==
  /\ cpc[c] = "new" /\ cpc' = [cpc EXCEPT ![c] = "unlink"]
  /\ batch' = [batch EXCEPT ![c] = rows \cap old]
  /\ UNCHANGED <<store, files, rows, old, upload, download, unlinked, deserted, retired>>

\* ... removes one file after the other, if it is there ...
Unlink(c, f) ==
  /\ cpc[c] = "unlink" /\ f \in batch[c] \ unlinked[c]
  /\ files' = IF store = "local" THEN files \ {f} ELSE files
  /\ unlinked' = [unlinked EXCEPT ![c] = @ \cup {f}]
  /\ UNCHANGED <<store, rows, old, upload, download, cpc, batch, deserted, retired>>

\* Mutant of CommitCleanup: the rows are selected again, with the cutoff of now.
DeleteOld(c) ==
  /\ cpc[c] = "unlink" /\ batch[c] = unlinked[c] /\ CEnds(c)
  /\ rows' = rows \ old /\ retired' = retired \cup old
  /\ UNCHANGED <<store, files, old, upload, download, deserted>>

\* ... and commits the deletion of what it has read.
CommitCleanup(c) ==
  /\ cpc[c] = "unlink" /\ batch[c] = unlinked[c] /\ CEnds(c)
  /\ rows' = rows \ batch[c] /\ retired' = retired \cup batch[c]
  /\ UNCHANGED <<store, files, old, upload, download, deserted>>

\* An unlink or the commit fails, or the process ends: the rows stay.
CleanupFails(c) ==
  /\ cpc[c] = "unlink" /\ CEnds(c) /\ deserted' = deserted \cup unlinked[c]
  /\ UNCHANGED <<store, files, rows, old, upload, download, retired>>

UploadsNext ==
  \/ \E f \in Files : SaveFile(f) \/ CommitUpload(f) \/ UploadFails(f) \/ Ages(f)
  \/ \E d \in Readers : SendFile(d) \/ \E f \in Files, owner \in BOOLEAN : FindUpload(d, f, owner)
  \/ \E c \in Cleaners : \/ ReadOld(c) \/ CommitCleanup(c) \/ CleanupFails(c)
                         \/ \E f \in Files : Unlink(c, f)

UploadsSpec == UploadsInit /\ [][UploadsNext]_uvars

-----------------------------------------------------------------------------
\* Files, rows, readers and cleanups keep their shape.
UploadsTypeOK ==
  /\ store \in {"local", "remote"} /\ files \subseteq Files /\ rows \subseteq Files
  /\ old \subseteq Files /\ upc \in [Files -> {"new", "saved", "stored", "failed"}]
  /\ dpc \in [Readers -> {"new", "send", "200", "403", "404", "500", "501"}]
  /\ wants \in [Readers -> Files \cup {None}]
  /\ cpc \in [Cleaners -> {"new", "unlink", "done"}] /\ batch \in [Cleaners -> SUBSET Files]
  /\ unlinked \in [Cleaners -> SUBSET Files] /\ \A c \in Cleaners : unlinked[c] \subseteq batch[c]
  /\ deserted \subseteq Files /\ retired \subseteq Files

\* A cleanup has removed the file of f and not, or not yet, its row.
Bereft(f) == store = "local" /\ (f \in deserted \/ \E c \in Cleaners : f \in unlinked[c])

\* Files and rows go together.  A row lacks its file only if a cleanup removed
\* the file and has yet to commit, or failed to; a file lacks its row only while
\* it is uploaded, after an upload that failed, or in a bucket, where cleanups
\* leave it; and a download fails halfway only under a cleanup.
FilesMatchRows ==
  /\ \A f \in rows \ files : Bereft(f)
  /\ \A f \in files \ rows : upc[f] \in {"saved", "failed"} \/ (store = "remote" /\ f \in retired)
  /\ \A d \in Readers : dpc[d] = "500" => Bereft(wants[d]) \/ wants[d] \in retired
=============================================================================

------------------------------ MODULE Attachments ------------------------------
(***************************************************************************)
(* The attachments of one ticket: rows in `ticket_attachments`, and bytes  *)
(* in the upload directory, which no transaction covers.  An upload writes *)
(* the bytes before it commits the rows; the deletion of the ticket        *)
(* commits first and removes the bytes afterwards.                         *)
(*                                                                         *)
(* Requests interleave at their database statements and file operations.   *)
(* A request may fail or die anywhere: its transaction is rolled back, the *)
(* files stay as they are.  Storage paths are fresh uuids, so that a file  *)
(* is named by the upload that writes it and its position there.  Sizes,   *)
(* content types and the checks on them come before any of this and touch  *)
(* neither rows nor files; comments of the ticket are left out.            *)
(***************************************************************************)
EXTENDS Integers, FiniteSets

CONSTANTS
  Requests,   \* HTTP requests, each handled once
  MaxFiles,   \* MAX_TICKET_ATTACHMENTS, per upload and per ticket
  Faults      \* whether requests may fail or die, and files resist removal

ASSUME AttachmentAssumption == MaxFiles \in Nat \ {0} /\ Faults \in BOOLEAN

VARIABLES
  ticket,     \* whether the row of the ticket exists
  rows,       \* the files with a committed row
  disk,       \* the files whose bytes are in the upload directory
  request,    \* what each request is doing
  resisting   \* history: the files whose removal raised an OSError

vars == <<ticket, rows, disk, request, resisting>>

-----------------------------------------------------------------------------

File == Requests \X (1..MaxFiles)

\* uploads: "counting" the ticket is found, "writing" files, then done;
\* deletions: "listing" the ticket is found, "deleting" the paths are known,
\* "committing" the DELETE statements have run, "removing" files, then done;
\* downloads: "opening" the row is found, "reading" the file was there, then
\* "served", "missing" (404), or "broken" (500).
Phase == {"ready", "counting", "writing", "listing", "deleting", "committing",
          "removing", "opening", "reading", "served", "missing", "broken",
          "done", "failed"}

\* files: to write, to remove, or to download; doomed: rows that the DELETE
\* of the request has matched.
Request == [phase : Phase, files : SUBSET File, doomed : SUBSET File]

At(r, phase) == request[r].phase = phase

Moves(r, phase, files, doomed) ==
  request' = [request EXCEPT
                ![r] = [phase |-> phase, files |-> files, doomed |-> doomed]]

-----------------------------------------------------------------------------
(* Mutated forms of the definitions below; no specification uses them.     *)

RemoveFileEarly(r, f) ==
  /\ At(r, "removing") \/ At(r, "committing")
  /\ f \in request[r].files
  /\ disk' = disk \ {f}
  /\ Moves(r, request[r].phase, request[r].files \ {f}, request[r].doomed)
  /\ UNCHANGED <<ticket, rows, resisting>>

RemoveFileUntilMissing(r, f) ==
  /\ At(r, "removing") /\ f \in request[r].files
  /\ disk' = disk \ {f}
  /\ Moves(r, "removing",
           IF f \in disk THEN request[r].files \ {f} ELSE {}, {})
  /\ UNCHANGED <<ticket, rows, resisting>>

StageFilesOneMore(r, n) ==
  /\ At(r, "counting")
  /\ Cardinality(rows) + n <= MaxFiles
  /\ Moves(r, "writing", {r} \X (1..(n + 1)), {})
  /\ UNCHANGED <<ticket, rows, disk, resisting>>

-----------------------------------------------------------------------------
(* POST /tickets/{id}/attachments *)

UploadAttachments(r) ==
  /\ At(r, "ready") /\ ticket
  /\ Moves(r, "counting", {}, {})
  /\ UNCHANGED <<ticket, rows, disk, resisting>>

\* n files have passed every check, the limit of the ticket among them.
StageFiles(r, n) ==
  /\ At(r, "counting")
  /\ Cardinality(rows) + n <= MaxFiles
  /\ Moves(r, "writing", {r} \X (1..n), {})
  /\ UNCHANGED <<ticket, rows, disk, resisting>>

TooManyFiles(r, n) ==
  /\ At(r, "counting")
  /\ Cardinality(rows) + n > MaxFiles
  /\ Moves(r, "failed", {}, {})
  /\ UNCHANGED <<ticket, rows, disk, resisting>>

WriteFile(r, f) ==
  /\ At(r, "writing") /\ f \in request[r].files \ disk
  /\ disk' = disk \cup {f}
  /\ UNCHANGED <<ticket, rows, request, resisting>>

\* The rows are inserted whether or not the ticket is still there: they carry
\* no foreign key.
CommitUpload(r) ==
  /\ At(r, "writing") /\ request[r].files \subseteq disk
  /\ rows' = rows \cup request[r].files
  /\ Moves(r, "done", {}, {})
  /\ UNCHANGED <<ticket, disk, resisting>>

-----------------------------------------------------------------------------
(* DELETE /tickets/{id} *)

DeleteTicket(r) ==
  /\ At(r, "ready") /\ ticket
  /\ Moves(r, "listing", {}, {})
  /\ UNCHANGED <<ticket, rows, disk, resisting>>

ListPaths(r) ==
  /\ At(r, "listing")
  /\ Moves(r, "deleting", rows, {})
  /\ UNCHANGED <<ticket, rows, disk, resisting>>

\* A DELETE matches the rows that are committed when it runs.
DeleteRows(r) ==
  /\ At(r, "deleting")
  /\ Moves(r, "committing", request[r].files, rows)
  /\ UNCHANGED <<ticket, rows, disk, resisting>>

\* Another deletion may have been faster: SQLAlchemy only warns.
CommitDelete(r) ==
  /\ At(r, "committing")
  /\ ticket' = FALSE
  /\ rows' = rows \ request[r].doomed
  /\ Moves(r, "removing", request[r].files, {})
  /\ UNCHANGED <<disk, resisting>>

\* _remove_attachment_files; a file that is gone already is passed over.
RemoveFile(r, f) ==
  /\ At(r, "removing") /\ f \in request[r].files
  /\ disk' = disk \ {f}
  /\ Moves(r, "removing", request[r].files \ {f}, {})
  /\ UNCHANGED <<ticket, rows, resisting>>

\* So is one that the operating system refuses to remove.
CannotRemove(r, f) ==
  /\ Faults
  /\ At(r, "removing") /\ f \in request[r].files \cap disk
  /\ resisting' = resisting \cup {f}
  /\ Moves(r, "removing", request[r].files \ {f}, {})
  /\ UNCHANGED <<ticket, rows, disk>>

DeletionDone(r) ==
  /\ At(r, "removing") /\ request[r].files = {}
  /\ Moves(r, "done", {}, {})
  /\ UNCHANGED <<ticket, rows, disk, resisting>>

-----------------------------------------------------------------------------
(* GET /tickets/{id}/attachments/{attachment_id}/content *)

DownloadAttachment(r, f) ==
  /\ At(r, "ready") /\ ticket
  /\ f \in rows
  /\ Moves(r, "opening", {f}, {})
  /\ UNCHANGED <<ticket, rows, disk, resisting>>

OpenFile(r) ==
  /\ At(r, "opening")
  /\ IF request[r].files \subseteq disk
     THEN Moves(r, "reading", request[r].files, {})
     ELSE Moves(r, "missing", {}, {})
  /\ UNCHANGED <<ticket, rows, disk, resisting>>

\* The file may be removed between isfile and open.
ReadFile(r) ==
  /\ At(r, "reading")
  /\ Moves(r, IF request[r].files \subseteq disk THEN "served" ELSE "broken", {}, {})
  /\ UNCHANGED <<ticket, rows, disk, resisting>>

-----------------------------------------------------------------------------

\* A full disk, a lost connection, or the end of the process.
Fail(r) ==
  /\ Faults
  /\ request[r].phase \in {"counting", "writing", "listing", "deleting",
                           "committing", "removing"}
  /\ Moves(r, "failed", {}, {})
  /\ UNCHANGED <<ticket, rows, disk, resisting>>

Init ==
  /\ ticket = TRUE
  /\ rows = {}
  /\ disk = {}
  /\ request = [r \in Requests |-> [phase |-> "ready", files |-> {}, doomed |-> {}]]
  /\ resisting = {}

Removal(r) == (\E f \in File : RemoveFile(r, f)) \/ DeletionDone(r)

Next ==
  \E r \in Requests :
    \/ UploadAttachments(r)
    \/ \E n \in 1..MaxFiles : StageFiles(r, n) \/ TooManyFiles(r, n)
    \/ \E f \in File :
         \/ WriteFile(r, f)
         \/ CannotRemove(r, f)
         \/ DownloadAttachment(r, f)
    \/ CommitUpload(r)
    \/ DeleteTicket(r)
    \/ ListPaths(r)
    \/ DeleteRows(r)
    \/ CommitDelete(r)
    \/ Removal(r)
    \/ OpenFile(r)
    \/ ReadFile(r)
    \/ Fail(r)

Spec == Init /\ [][Next]_vars

\* The loop that removes the files of a deletion goes on, unless it dies.
FairSpec == Spec /\ \A r \in Requests : WF_vars(Removal(r))

-----------------------------------------------------------------------------
(* Properties *)

\* Rows, files and requests have their shape.
TypeOK ==
  /\ ticket \in BOOLEAN
  /\ rows \subseteq File
  /\ disk \subseteq File
  /\ request \in [Requests -> Request]
  /\ resisting \subseteq File

\* "A rollback cannot leave rows pointing at deleted bytes": whatever fails or
\* overlaps, every committed row has its bytes on disk.
RowsHaveBytes == rows \subseteq disk

\* A download that has found its row answers "Attachment content is missing",
\* or fails, only if the whole ticket has been deleted since.
MissingOnlyIfDeleted ==
  (\E r \in Requests : At(r, "missing") \/ At(r, "broken")) => ~ticket

\* Every file that a deletion has listed goes, although other deletions of the
\* ticket remove the same files, fail half way, or meet files that resist.
DeletedBytesGo ==
  \A r \in Requests, f \in File :
    At(r, "removing") /\ f \in request[r].files
      ~> f \notin disk \/ f \in resisting \/ At(r, "failed")

-----------------------------------------------------------------------------
(* What comments say and overlapping requests break *)

\* The files that a request in progress is going to commit or to remove.
Held == UNION {request[r].files : r \in Requests}

\* "Attachment bytes are customer PII: deleting the row without the file left
\* them on disk indefinitely, and nothing else ever reached them": bytes on
\* disk belong to a row of the ticket, or to a request that is not finished.
NoOrphanBytes == disk \subseteq (IF ticket THEN rows ELSE {}) \cup Held

\* "Ticket already has ... attachments" (400): a ticket never has more than
\* MAX_TICKET_ATTACHMENTS.
AttachmentLimit == Cardinality(rows) <= MaxFiles
=============================================================================

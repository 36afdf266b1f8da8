--------------------------- MODULE AttachmentsProofs ---------------------------
(***************************************************************************)
(* Proofs about Attachments, for any requests and any number of files.     *)
(*                                                                         *)
(* A file is removed from disk long after its path was read.  That no row  *)
(* points at it by then rests on two facts: only files of finished uploads *)
(* can have been listed, and the DELETE of the same transaction matched    *)
(* every row that was listed and is still there.                           *)
(***************************************************************************)
EXTENDS Attachments, FiniteSetTheorems, TLAPS

Lists == {"deleting", "committing", "removing"}

\* Rows and listed files belong to uploads that are finished.
Settled ==
  /\ \A f \in rows : At(f[1], "done")
  /\ \A s \in Requests : request[s].phase \in Lists =>
       \A f \in request[s].files : At(f[1], "done")

\* An upload writes files of its own.
OwnFiles ==
  \A r \in Requests : At(r, "writing") =>
    \A f \in request[r].files : f[1] = r

\* What is listed goes from the rows in the commit, and is not in them after.
Matched ==
  \A s \in Requests :
    /\ At(s, "committing") => request[s].files \cap rows \subseteq request[s].doomed
    /\ At(s, "removing") => request[s].files \cap rows = {}

\* A download in progress is about a row, unless the ticket was deleted.
OpensRow ==
  /\ \A r \in Requests :
       (At(r, "opening") \/ At(r, "reading")) /\ ticket => request[r].files \subseteq rows
  /\ MissingOnlyIfDeleted

IInv == TypeOK /\ RowsHaveBytes /\ Settled /\ OwnFiles /\ Matched /\ OpensRow

-----------------------------------------------------------------------------

LEMMA InitIInv == Init => IInv
BY DEF Init, IInv, TypeOK, Request, Phase, File, RowsHaveBytes, Settled, Lists,
       OwnFiles, Matched, OpensRow, MissingOnlyIfDeleted, At

LEMMA FileOwner == \A f \in File : f[1] \in Requests
<1> TAKE f \in File
<1>1. PICK r \in Requests, n \in 1..MaxFiles : f = <<r, n>>
  BY DEF File
<1> QED
  BY <1>1

\* The state after one request has moved on.
LEMMA MoveType ==
  ASSUME TypeOK, NEW r \in Requests, NEW phase \in Phase,
         NEW files \in SUBSET File, NEW doomed \in SUBSET File,
         Moves(r, phase, files, doomed)
  PROVE  /\ request' \in [Requests -> Request]
         /\ request'[r] = [phase |-> phase, files |-> files, doomed |-> doomed]
         /\ \A s \in Requests \ {r} : request'[s] = request[s]
<1> DEFINE moved == [phase |-> phase, files |-> files, doomed |-> doomed]
<1>1. moved \in Request
  BY DEF Request
<1>2. request' = [request EXCEPT ![r] = moved]
  BY DEF Moves
<1> HIDE DEF moved
<1>3. /\ request' \in [Requests -> Request]
      /\ request'[r] = moved
      /\ \A s \in Requests \ {r} : request'[s] = request[s]
  BY <1>1, <1>2 DEF TypeOK
<1> QED
  BY <1>3 DEF moved

\* What a step has to show that moves one request, takes no row away and
\* leaves every row its bytes; the rows it adds belong to the request.
Sound(r, phase, files, doomed) ==
  /\ phase \in Lists => \A f \in files : At(f[1], "done")
  /\ phase = "writing" => \A f \in files : f[1] = r
  /\ phase = "committing" => files \cap rows \subseteq doomed
  /\ phase = "removing" => files \cap rows = {}
  /\ phase \in {"opening", "reading"} /\ ticket => files \subseteq rows
  /\ phase \in {"missing", "broken"} => ~ticket

LEMMA MoveStep ==
  ASSUME IInv, NEW r \in Requests, NEW phase \in Phase,
         NEW files \in SUBSET File, NEW doomed \in SUBSET File,
         Moves(r, phase, files, doomed), Sound(r, phase, files, doomed),
         ~At(r, "done"),
         UNCHANGED <<ticket, rows>>, rows \subseteq disk', disk' \subseteq File,
         resisting' \subseteq File
  PROVE  IInv'
<1>1. /\ request' \in [Requests -> Request]
      /\ request'[r] = [phase |-> phase, files |-> files, doomed |-> doomed]
      /\ \A s \in Requests \ {r} : request'[s] = request[s]
  BY MoveType DEF IInv
<1>2. /\ request'[r].phase = phase
      /\ request'[r].files = files
      /\ request'[r].doomed = doomed
  BY <1>1
<1>3. TypeOK' /\ RowsHaveBytes'
  BY <1>1 DEF IInv, TypeOK, RowsHaveBytes
<1>4. \A f \in File : At(f[1], "done") => At(f[1], "done")'
  BY <1>1, FileOwner DEF At
<1>5. Settled'
  <2>1. ASSUME NEW f \in rows'
        PROVE  At(f[1], "done")'
    BY <1>4 DEF IInv, TypeOK, Settled
  <2>2. ASSUME NEW s \in Requests, (request[s].phase \in Lists)',
               NEW f \in request'[s].files
        PROVE  At(f[1], "done")'
    <3>1. CASE s = r
      BY <1>2, <1>4, <2>2, <3>1 DEF Sound
    <3>2. CASE s # r
      <4>1. request'[s] = request[s] /\ f \in File
        BY <1>1, <2>2, <3>2 DEF IInv, TypeOK, Request
      <4> QED
        BY <1>4, <2>2, <4>1 DEF IInv, Settled
    <3> QED
      BY <3>1, <3>2
  <2> QED
    BY <2>1, <2>2 DEF Settled
<1>6. OwnFiles'
  BY <1>1, <1>2 DEF IInv, OwnFiles, Sound, At
<1>7. Matched'
  BY <1>1, <1>2 DEF IInv, Matched, Sound, At
<1>8. OpensRow'
  BY <1>1, <1>2 DEF IInv, OpensRow, MissingOnlyIfDeleted, Sound, At
<1> QED
  BY <1>3, <1>5, <1>6, <1>7, <1>8 DEF IInv

-----------------------------------------------------------------------------
(* Uploads *)

LEMMA UploadStep ==
  ASSUME IInv, NEW r \in Requests, UploadAttachments(r)
  PROVE  IInv'
<1>1. Sound(r, "counting", {}, {})
  BY DEF Sound, Lists
<1>2. ~At(r, "done")
  BY DEF UploadAttachments, At
<1>3. /\ Moves(r, "counting", {}, {}) /\ "counting" \in Phase
      /\ UNCHANGED <<ticket, rows>>
      /\ rows \subseteq disk' /\ disk' \subseteq File /\ resisting' \subseteq File
  BY DEF IInv, TypeOK, RowsHaveBytes, UploadAttachments, Phase
<1> QED
  BY <1>1, <1>2, <1>3, MoveStep

LEMMA StageStep ==
  ASSUME IInv, NEW r \in Requests, NEW n \in 1..MaxFiles, StageFiles(r, n)
  PROVE  IInv'
<1> DEFINE staged == {r} \X (1..n)
<1>1. staged \in SUBSET File /\ \A f \in staged : f[1] = r
  BY AttachmentAssumption DEF File
<1>2. Moves(r, "writing", staged, {})
  BY DEF StageFiles
<1> HIDE DEF staged
<1>3. Sound(r, "writing", staged, {})
  BY <1>1 DEF Sound, Lists
<1>4. ~At(r, "done")
  BY DEF StageFiles, At
<1>5. /\ "writing" \in Phase
      /\ UNCHANGED <<ticket, rows>>
      /\ rows \subseteq disk' /\ disk' \subseteq File /\ resisting' \subseteq File
  BY DEF IInv, TypeOK, RowsHaveBytes, StageFiles, Phase
<1> QED
  BY <1>1, <1>2, <1>3, <1>4, <1>5, MoveStep

LEMMA TooManyStep ==
  ASSUME IInv, NEW r \in Requests, NEW n \in 1..MaxFiles, TooManyFiles(r, n)
  PROVE  IInv'
<1>1. Sound(r, "failed", {}, {})
  BY DEF Sound, Lists
<1>2. ~At(r, "done")
  BY DEF TooManyFiles, At
<1>3. /\ Moves(r, "failed", {}, {}) /\ "failed" \in Phase
      /\ UNCHANGED <<ticket, rows>>
      /\ rows \subseteq disk' /\ disk' \subseteq File /\ resisting' \subseteq File
  BY DEF IInv, TypeOK, RowsHaveBytes, TooManyFiles, Phase
<1> QED
  BY <1>1, <1>2, <1>3, MoveStep

LEMMA WriteStep ==
  ASSUME IInv, NEW r \in Requests, NEW f \in File, WriteFile(r, f)
  PROVE  IInv'
<1>1. TypeOK' /\ RowsHaveBytes'
  BY DEF IInv, WriteFile, TypeOK, RowsHaveBytes
<1>2. Settled' /\ OwnFiles'
  BY DEF IInv, WriteFile, Settled, OwnFiles, At
<1>3. Matched' /\ OpensRow'
  BY DEF IInv, WriteFile, Matched, OpensRow, MissingOnlyIfDeleted, At
<1> QED
  BY <1>1, <1>2, <1>3 DEF IInv

\* The new rows have bytes, and nobody has listed them: their upload was not
\* finished.
LEMMA CommitUploadStep ==
  ASSUME IInv, NEW r \in Requests, CommitUpload(r)
  PROVE  IInv'
<1>0. TypeOK /\ "done" \in Phase /\ Moves(r, "done", {}, {})
  BY DEF IInv, CommitUpload, Phase
<1>1. /\ request' \in [Requests -> Request]
      /\ request'[r] = [phase |-> "done", files |-> {}, doomed |-> {}]
      /\ \A s \in Requests \ {r} : request'[s] = request[s]
  BY <1>0, MoveType
<1>2. /\ \A f \in request[r].files : f[1] = r
      /\ request[r].files \subseteq File
  BY DEF IInv, TypeOK, Request, OwnFiles, CommitUpload
<1>3. \A s \in Requests : request[s].phase \in Lists =>
        request[s].files \cap request[r].files = {}
  BY <1>2 DEF IInv, Settled, CommitUpload, At
<1>4. TypeOK' /\ RowsHaveBytes'
  BY <1>1, <1>2 DEF IInv, TypeOK, RowsHaveBytes, CommitUpload
<1>5. At(r, "done")' /\ \A f \in File : At(f[1], "done") => At(f[1], "done")'
  BY <1>1, FileOwner DEF At
<1>6. Settled'
  <2>1. ASSUME NEW f \in rows'
        PROVE  At(f[1], "done")'
    BY <1>2, <1>5 DEF IInv, TypeOK, Settled, CommitUpload
  <2>2. ASSUME NEW s \in Requests, (request[s].phase \in Lists)',
               NEW f \in request'[s].files
        PROVE  At(f[1], "done")'
    <3>1. request'[s] = request[s] /\ f \in File
      BY <1>1, <2>2 DEF IInv, TypeOK, Request, Lists
    <3> QED
      BY <1>5, <2>2, <3>1 DEF IInv, Settled
  <2> QED
    BY <2>1, <2>2 DEF Settled
<1>7. Matched'
  BY <1>1, <1>3 DEF IInv, Matched, CommitUpload, At, Lists
<1>8. OwnFiles' /\ OpensRow'
  BY <1>1 DEF IInv, CommitUpload, OwnFiles, OpensRow, MissingOnlyIfDeleted, At
<1> QED
  BY <1>4, <1>6, <1>7, <1>8 DEF IInv

-----------------------------------------------------------------------------
(* Deletions *)

LEMMA DeleteTicketStep ==
  ASSUME IInv, NEW r \in Requests, DeleteTicket(r)
  PROVE  IInv'
<1>1. Sound(r, "listing", {}, {})
  BY DEF Sound, Lists
<1>2. ~At(r, "done")
  BY DEF DeleteTicket, At
<1>3. /\ Moves(r, "listing", {}, {}) /\ "listing" \in Phase
      /\ UNCHANGED <<ticket, rows>>
      /\ rows \subseteq disk' /\ disk' \subseteq File /\ resisting' \subseteq File
  BY DEF IInv, TypeOK, RowsHaveBytes, DeleteTicket, Phase
<1> QED
  BY <1>1, <1>2, <1>3, MoveStep

LEMMA ListPathsStep ==
  ASSUME IInv, NEW r \in Requests, ListPaths(r)
  PROVE  IInv'
<1>1. Sound(r, "deleting", rows, {})
  BY DEF IInv, Settled, Sound, Lists
<1>2. ~At(r, "done")
  BY DEF ListPaths, At
<1>3. /\ Moves(r, "deleting", rows, {}) /\ "deleting" \in Phase /\ rows \in SUBSET File
      /\ UNCHANGED <<ticket, rows>>
      /\ rows \subseteq disk' /\ disk' \subseteq File /\ resisting' \subseteq File
  BY DEF IInv, TypeOK, RowsHaveBytes, ListPaths, Phase
<1> QED
  BY <1>1, <1>2, <1>3, MoveStep

LEMMA DeleteRowsStep ==
  ASSUME IInv, NEW r \in Requests, DeleteRows(r)
  PROVE  IInv'
<1>1. request[r].files \in SUBSET File
  BY DEF IInv, TypeOK, Request
<1>2. Sound(r, "committing", request[r].files, rows)
  BY DEF IInv, Settled, Sound, Lists, DeleteRows, At
<1>3. ~At(r, "done")
  BY DEF DeleteRows, At
<1>4. /\ Moves(r, "committing", request[r].files, rows) /\ "committing" \in Phase /\ rows \in SUBSET File
      /\ UNCHANGED <<ticket, rows>>
      /\ rows \subseteq disk' /\ disk' \subseteq File /\ resisting' \subseteq File
  BY DEF IInv, TypeOK, RowsHaveBytes, DeleteRows, Phase
<1> QED
  BY <1>1, <1>2, <1>3, <1>4, MoveStep

LEMMA CommitDeleteStep ==
  ASSUME IInv, NEW r \in Requests, CommitDelete(r)
  PROVE  IInv'
<1>0. TypeOK /\ "removing" \in Phase /\ Moves(r, "removing", request[r].files, {})
  BY DEF IInv, CommitDelete, Phase
<1>1. request[r].files \in SUBSET File
  BY DEF IInv, TypeOK, Request
<1>2. /\ request' \in [Requests -> Request]
      /\ request'[r] = [phase |-> "removing", files |-> request[r].files,
                        doomed |-> {}]
      /\ \A s \in Requests \ {r} : request'[s] = request[s]
  BY <1>0, <1>1, MoveType
<1>3. TypeOK' /\ RowsHaveBytes'
  BY <1>2 DEF IInv, TypeOK, RowsHaveBytes, CommitDelete
<1>4. \A f \in File : At(f[1], "done") => At(f[1], "done")'
  BY <1>2, FileOwner DEF CommitDelete, At
<1>5. \A s \in Requests :
        /\ request'[s].files = request[s].files
        /\ (request[s].phase \in Lists)' => request[s].phase \in Lists
  BY <1>2 DEF CommitDelete, At, Lists
<1>6. Settled'
  <2>1. ASSUME NEW f \in rows'
        PROVE  At(f[1], "done")'
    BY <1>4 DEF IInv, TypeOK, Settled, CommitDelete
  <2>2. ASSUME NEW s \in Requests, (request[s].phase \in Lists)',
               NEW f \in request'[s].files
        PROVE  At(f[1], "done")'
    <3>1. f \in request[s].files /\ f \in File
      BY <1>5, <2>2 DEF IInv, TypeOK, Request
    <3> QED
      BY <1>4, <1>5, <2>2, <3>1 DEF IInv, Settled
  <2> QED
    BY <2>1, <2>2 DEF Settled
<1>7. Matched'
  BY <1>2 DEF IInv, Matched, CommitDelete, At
<1>8. OwnFiles' /\ OpensRow'
  BY <1>2 DEF IInv, CommitDelete, OwnFiles, OpensRow, MissingOnlyIfDeleted, At
<1> QED
  BY <1>3, <1>6, <1>7, <1>8 DEF IInv

\* A file that is removed has no row: the commit has taken it.
LEMMA RemoveStep ==
  ASSUME IInv, NEW r \in Requests, NEW f \in File,
         RemoveFile(r, f) \/ CannotRemove(r, f)
  PROVE  IInv'
<1>1. request[r].files \ {f} \in SUBSET File
  BY DEF IInv, TypeOK, Request
<1>2. At(r, "removing") /\ f \in request[r].files /\ f \notin rows
  BY DEF IInv, Matched, RemoveFile, CannotRemove
<1>3. Sound(r, "removing", request[r].files \ {f}, {})
  BY <1>2 DEF IInv, Settled, Matched, Sound, Lists, At
<1>4. ~At(r, "done")
  BY DEF RemoveFile, CannotRemove, At
<1>5. /\ Moves(r, "removing", request[r].files \ {f}, {}) /\ "removing" \in Phase
      /\ UNCHANGED <<ticket, rows>>
      /\ rows \subseteq disk' /\ disk' \subseteq File /\ resisting' \subseteq File
  BY <1>2 DEF IInv, TypeOK, RowsHaveBytes, RemoveFile, CannotRemove, Phase
<1> QED
  BY <1>1, <1>2, <1>3, <1>4, <1>5, MoveStep

LEMMA DeletionDoneStep ==
  ASSUME IInv, NEW r \in Requests, DeletionDone(r)
  PROVE  IInv'
<1>1. Sound(r, "done", {}, {})
  BY DEF Sound, Lists
<1>2. ~At(r, "done")
  BY DEF DeletionDone, At
<1>3. /\ Moves(r, "done", {}, {}) /\ "done" \in Phase
      /\ UNCHANGED <<ticket, rows>>
      /\ rows \subseteq disk' /\ disk' \subseteq File /\ resisting' \subseteq File
  BY DEF IInv, TypeOK, RowsHaveBytes, DeletionDone, Phase
<1> QED
  BY <1>1, <1>2, <1>3, MoveStep

-----------------------------------------------------------------------------
(* Downloads and failures *)

LEMMA DownloadStep ==
  ASSUME IInv, NEW r \in Requests, NEW f \in File, DownloadAttachment(r, f)
  PROVE  IInv'
<1>1. Sound(r, "opening", {f}, {})
  BY DEF DownloadAttachment, Sound, Lists
<1>2. ~At(r, "done")
  BY DEF DownloadAttachment, At
<1>3. /\ Moves(r, "opening", {f}, {}) /\ "opening" \in Phase /\ {f} \in SUBSET File
      /\ UNCHANGED <<ticket, rows>>
      /\ rows \subseteq disk' /\ disk' \subseteq File /\ resisting' \subseteq File
  BY DEF IInv, TypeOK, RowsHaveBytes, DownloadAttachment, Phase
<1> QED
  BY <1>1, <1>2, <1>3, MoveStep

LEMMA OpenStep ==
  ASSUME IInv, NEW r \in Requests, OpenFile(r)
  PROVE  IInv'
<1>1. /\ ~At(r, "done") /\ {"reading", "missing"} \subseteq Phase
      /\ {} \in SUBSET File /\ request[r].files \in SUBSET File
      /\ UNCHANGED <<ticket, rows>>
      /\ rows \subseteq disk' /\ disk' \subseteq File /\ resisting' \subseteq File
  BY DEF IInv, TypeOK, Request, RowsHaveBytes, OpenFile, Phase, At
<1>2. CASE request[r].files \subseteq disk
  <2>1. Moves(r, "reading", request[r].files, {})
    BY <1>2 DEF OpenFile
  <2>2. Sound(r, "reading", request[r].files, {})
    BY DEF IInv, OpensRow, OpenFile, Sound, Lists
  <2> QED
    BY <1>1, <2>1, <2>2, MoveStep
<1>3. CASE ~(request[r].files \subseteq disk)
  <2>1. Moves(r, "missing", {}, {})
    BY <1>3 DEF OpenFile
  <2>2. Sound(r, "missing", {}, {})
    BY <1>3 DEF IInv, OpensRow, RowsHaveBytes, OpenFile, Sound, Lists
  <2> QED
    BY <1>1, <2>1, <2>2, MoveStep
<1> QED
  BY <1>2, <1>3

LEMMA ReadStep ==
  ASSUME IInv, NEW r \in Requests, ReadFile(r)
  PROVE  IInv'
<1>1. /\ ~At(r, "done") /\ {"served", "broken"} \subseteq Phase
      /\ UNCHANGED <<ticket, rows>>
      /\ rows \subseteq disk' /\ disk' \subseteq File /\ resisting' \subseteq File
  BY DEF IInv, TypeOK, RowsHaveBytes, ReadFile, Phase, At
<1>2. CASE request[r].files \subseteq disk
  <2>1. Moves(r, "served", {}, {})
    BY <1>2 DEF ReadFile
  <2>2. Sound(r, "served", {}, {})
    BY DEF Sound, Lists
  <2> QED
    BY <1>1, <2>1, <2>2, MoveStep
<1>3. CASE ~(request[r].files \subseteq disk)
  <2>1. Moves(r, "broken", {}, {})
    BY <1>3 DEF ReadFile
  <2>2. Sound(r, "broken", {}, {})
    BY <1>3 DEF IInv, OpensRow, RowsHaveBytes, ReadFile, Sound, Lists
  <2> QED
    BY <1>1, <2>1, <2>2, MoveStep
<1> QED
  BY <1>2, <1>3

LEMMA FailStep ==
  ASSUME IInv, NEW r \in Requests, Fail(r)
  PROVE  IInv'
<1>1. Sound(r, "failed", {}, {})
  BY DEF Sound, Lists
<1>2. ~At(r, "done")
  BY DEF Fail, At
<1>3. /\ Moves(r, "failed", {}, {}) /\ "failed" \in Phase
      /\ UNCHANGED <<ticket, rows>>
      /\ rows \subseteq disk' /\ disk' \subseteq File /\ resisting' \subseteq File
  BY DEF IInv, TypeOK, RowsHaveBytes, Fail, Phase
<1> QED
  BY <1>1, <1>2, <1>3, MoveStep

-----------------------------------------------------------------------------

LEMMA StepIInv == IInv /\ [Next]_vars => IInv'
<1> SUFFICES ASSUME IInv, [Next]_vars
             PROVE  IInv'
  OBVIOUS
<1>1. CASE UNCHANGED vars
  BY <1>1 DEF vars, IInv, TypeOK, RowsHaveBytes, Settled, OwnFiles, Matched,
              OpensRow, MissingOnlyIfDeleted, At
<1>2. CASE Next
  BY <1>2, UploadStep, StageStep, TooManyStep, WriteStep, CommitUploadStep,
     DeleteTicketStep, ListPathsStep, DeleteRowsStep, CommitDeleteStep,
     RemoveStep, DeletionDoneStep, DownloadStep, OpenStep, ReadStep,
     FailStep
     DEF Next, Removal
<1> QED
  BY <1>1, <1>2

LEMMA Invariance == Spec => []IInv
<1> QED
  BY InitIInv, StepIInv, PTL DEF Spec

\* Rows, files and requests have their shape, for any numbers of each.
THEOREM TypeCorrect == Spec => []TypeOK
<1>1. IInv => TypeOK
  BY DEF IInv
<1> QED
  BY <1>1, Invariance, PTL

\* A committed row always has its bytes on disk, whatever overlaps or fails.
THEOREM RowsAlwaysHaveBytes == Spec => []RowsHaveBytes
<1>1. IInv => RowsHaveBytes
  BY DEF IInv
<1> QED
  BY <1>1, Invariance, PTL

\* A download misses its bytes or fails only when the ticket has been deleted.
THEOREM MissingAlwaysMeansDeleted == Spec => []MissingOnlyIfDeleted
<1>1. IInv => MissingOnlyIfDeleted
  BY DEF IInv, OpensRow
<1> QED
  BY <1>1, Invariance, PTL

-----------------------------------------------------------------------------
(* The limit of a ticket *)

\* No two uploads write their files at the same time.
OneUpload == \A r, s \in Requests : At(r, "writing") /\ At(s, "writing") => r = s

\* What has been counted is still so when the rows are committed.
RoomLeft ==
  /\ IsFiniteSet(rows) /\ AttachmentLimit
  /\ \A r \in Requests : At(r, "writing") =>
       /\ IsFiniteSet(request[r].files)
       /\ Cardinality(rows) + Cardinality(request[r].files) <= MaxFiles

\* Staged files are as many as were counted.
LEMMA StagedFiles ==
  ASSUME NEW r, NEW n \in Nat
  PROVE  /\ IsFiniteSet({r} \X (1..n))
         /\ Cardinality({r} \X (1..n)) = n
<1>1. IsFiniteSet({r}) /\ Cardinality({r}) = 1
  BY FS_Singleton
<1>2. IsFiniteSet(1..n) /\ Cardinality(1..n) = n
  BY FS_Interval
<1>3. /\ IsFiniteSet({r} \X (1..n))
      /\ Cardinality({r} \X (1..n)) = Cardinality({r}) * Cardinality(1..n)
  BY <1>1, <1>2, FS_Product
<1> QED
  BY <1>1, <1>2, <1>3

\* A step that adds no row and stages no files.
LEMMA RoomStays ==
  ASSUME RoomLeft, rows' \subseteq rows,
         \A r \in Requests : At(r, "writing")' =>
           At(r, "writing") /\ request'[r].files = request[r].files
  PROVE  RoomLeft'
<1>1. PICK after : after = rows'
  OBVIOUS
<1>2. after \subseteq rows /\ IsFiniteSet(rows)
  BY <1>1 DEF RoomLeft
<1>3. /\ IsFiniteSet(after) /\ Cardinality(after) <= Cardinality(rows)
      /\ Cardinality(after) \in Nat /\ Cardinality(rows) \in Nat
  BY <1>2, FS_Subset, FS_CardinalityType
<1>4. AttachmentLimit'
  BY <1>1, <1>3, AttachmentAssumption DEF RoomLeft, AttachmentLimit
<1>5. ASSUME NEW r \in Requests, At(r, "writing")'
      PROVE  /\ IsFiniteSet(request'[r].files)
             /\ Cardinality(rows') + Cardinality(request'[r].files) <= MaxFiles
  <2>1. /\ request'[r].files = request[r].files
        /\ IsFiniteSet(request[r].files)
        /\ Cardinality(rows) + Cardinality(request[r].files) <= MaxFiles
    BY <1>5 DEF RoomLeft
  <2>2. Cardinality(request[r].files) \in Nat
    BY <2>1, FS_CardinalityType
  <2> QED
    BY <1>1, <1>3, <2>1, <2>2, AttachmentAssumption
<1> QED
  BY <1>1, <1>3, <1>4, <1>5 DEF RoomLeft

LEMMA StageKeepsRoom ==
  ASSUME TypeOK, RoomLeft, OneUpload', NEW r \in Requests, NEW n \in 1..MaxFiles,
         StageFiles(r, n)
  PROVE  RoomLeft'
<1>1. /\ request'[r].phase = "writing" /\ request'[r].files = {r} \X (1..n)
      /\ rows' = rows /\ Cardinality(rows) + n <= MaxFiles
  BY DEF StageFiles, Moves, TypeOK
<1>2. /\ IsFiniteSet(request'[r].files) /\ Cardinality(request'[r].files) = n
  <2>1. n \in Nat
    BY AttachmentAssumption
  <2>2. IsFiniteSet({r} \X (1..n)) /\ Cardinality({r} \X (1..n)) = n
    BY <2>1, StagedFiles, Zenon
  <2> QED
    BY <1>1, <2>2
<1>3. \A s \in Requests : At(s, "writing")' => s = r
  BY <1>1 DEF OneUpload, At
<1> QED
  BY <1>1, <1>2, <1>3 DEF RoomLeft, AttachmentLimit

LEMMA CommitKeepsRoom ==
  ASSUME TypeOK, RoomLeft, OneUpload, NEW r \in Requests, CommitUpload(r)
  PROVE  RoomLeft'
<1>1. /\ At(r, "writing") /\ rows' = rows \cup request[r].files
      /\ request'[r].phase = "done"
      /\ \A s \in Requests \ {r} : request'[s] = request[s]
  BY DEF CommitUpload, Moves, TypeOK
<1>2. /\ IsFiniteSet(rows) /\ IsFiniteSet(request[r].files)
      /\ Cardinality(rows) + Cardinality(request[r].files) <= MaxFiles
  BY <1>1 DEF RoomLeft
<1>3. PICK common : common = rows \cap request[r].files
  OBVIOUS
<1>4. IsFiniteSet(common) /\ Cardinality(common) \in Nat
  BY <1>2, <1>3, FS_Subset, FS_CardinalityType
<1>5. /\ IsFiniteSet(rows')
      /\ Cardinality(rows') =
           Cardinality(rows) + Cardinality(request[r].files) - Cardinality(common)
  BY <1>1, <1>2, <1>3, FS_Union
<1>6. Cardinality(rows) \in Nat /\ Cardinality(request[r].files) \in Nat
  BY <1>2, FS_CardinalityType
<1>7. AttachmentLimit'
  BY <1>2, <1>4, <1>5, <1>6, AttachmentAssumption DEF AttachmentLimit
<1>8. \A s \in Requests : ~At(s, "writing")'
  BY <1>1 DEF OneUpload, At
<1> QED
  BY <1>5, <1>7, <1>8 DEF RoomLeft

LEMMA NextRoomLeft ==
  TypeOK /\ RoomLeft /\ OneUpload /\ OneUpload' /\ [Next]_vars => RoomLeft'
<1> SUFFICES ASSUME TypeOK, RoomLeft, OneUpload, OneUpload', [Next]_vars
             PROVE  RoomLeft'
  OBVIOUS
<1>1. ASSUME NEW r \in Requests,
             \/ UploadAttachments(r) \/ DeleteTicket(r) \/ ListPaths(r)
             \/ DeleteRows(r) \/ CommitDelete(r) \/ Removal(r) \/ OpenFile(r)
             \/ ReadFile(r) \/ Fail(r)
             \/ \E n \in 1..MaxFiles : TooManyFiles(r, n)
             \/ \E f \in File : CannotRemove(r, f) \/ DownloadAttachment(r, f)
      PROVE  RoomLeft'
  <2>1. rows' \subseteq rows
    BY <1>1 DEF UploadAttachments, DeleteTicket, ListPaths, DeleteRows, CommitDelete,
       Removal, RemoveFile, DeletionDone, OpenFile, ReadFile, Fail, TooManyFiles,
       CannotRemove, DownloadAttachment
  <2>2. \A phase, files, doomed :
          Moves(r, phase, files, doomed) /\ phase # "writing" =>
            /\ request'[r].phase # "writing"
            /\ \A s \in Requests \ {r} : request'[s] = request[s]
    BY DEF Moves, TypeOK
  <2>3. /\ request'[r].phase # "writing"
        /\ \A s \in Requests \ {r} : request'[s] = request[s]
    <3>1. CASE UploadAttachments(r) \/ DeleteTicket(r) \/ ListPaths(r)
      BY <3>1, <2>2 DEF UploadAttachments, DeleteTicket, ListPaths
    <3>2. CASE DeleteRows(r) \/ CommitDelete(r)
      BY <3>2, <2>2 DEF DeleteRows, CommitDelete
    <3>3. CASE Removal(r)
      BY <3>3, <2>2 DEF Removal, RemoveFile, DeletionDone
    <3>4. CASE OpenFile(r)
      BY <3>4, <2>2 DEF OpenFile
    <3>5. CASE ReadFile(r)
      <4>1. \E phase \in {"served", "broken"} : Moves(r, phase, {}, {})
        BY <3>5 DEF ReadFile
      <4> QED
        BY <4>1, <2>2
    <3>6. CASE Fail(r) \/ \E n \in 1..MaxFiles : TooManyFiles(r, n)
      BY <3>6, <2>2 DEF Fail, TooManyFiles
    <3>7. CASE \E f \in File : CannotRemove(r, f) \/ DownloadAttachment(r, f)
      BY <3>7, <2>2 DEF CannotRemove, DownloadAttachment
    <3> QED
      BY <1>1, <3>1, <3>2, <3>3, <3>4, <3>5, <3>6, <3>7
  <2> QED
    BY <2>1, <2>3, RoomStays DEF At
<1>2. ASSUME NEW r \in Requests, NEW f \in File, WriteFile(r, f)
      PROVE  RoomLeft'
  BY <1>2, RoomStays DEF WriteFile, At
<1>3. ASSUME NEW r \in Requests, NEW n \in 1..MaxFiles, StageFiles(r, n)
      PROVE  RoomLeft'
  BY <1>3, StageKeepsRoom
<1>4. ASSUME NEW r \in Requests, CommitUpload(r)
      PROVE  RoomLeft'
  BY <1>4, CommitKeepsRoom
<1>5. CASE UNCHANGED vars
  BY <1>5, RoomStays DEF vars, At
<1> QED
  BY <1>1, <1>2, <1>3, <1>4, <1>5 DEF Next

\* Overlapping uploads are all that can break the limit: as long as no two of them
\* write at the same time, a ticket never has more than MAX_TICKET_ATTACHMENTS,
\* whatever deletions and downloads do meanwhile and whatever fails.
THEOREM LimitHoldsWithoutOverlap == Spec /\ []OneUpload => []AttachmentLimit
<1>1. Init => RoomLeft
  <2>1. IsFiniteSet({}) /\ Cardinality({}) = 0
    BY FS_EmptySet
  <2> QED
    BY <2>1, AttachmentAssumption DEF Init, RoomLeft, AttachmentLimit, At
<1>2. RoomLeft => AttachmentLimit
  BY DEF RoomLeft
<1> QED
  BY <1>1, <1>2, NextRoomLeft, TypeCorrect, PTL DEF Spec

-----------------------------------------------------------------------------
(* The files of a deletion *)

\* What a deletion has still to do once it is committed: its files, and to end.
FilesLeft(q) == IF q.phase = "removing" THEN Cardinality(q.files) + 1 ELSE 0

\* A deletion that removes files gets closer to its end with each of its steps, and
\* drops a file only when it is gone, or resists, or the request fails.
Removes(r) ==
  At(r, "removing") =>
    /\ FilesLeft(request[r]) \in Nat
    /\ request'[r] # request[r] => FilesLeft(request'[r]) < FilesLeft(request[r])
    /\ Removal(r) => FilesLeft(request'[r]) < FilesLeft(request[r])
    /\ \A f \in request[r].files :
         \/ At(r, "removing")' /\ f \in request'[r].files
         \/ f \notin disk' \/ f \in resisting' \/ At(r, "failed")'

\* There are finitely many rows, and requests hold finitely many files.
Finite ==
  /\ IsFiniteSet(rows)
  /\ \A r \in Requests : IsFiniteSet(request[r].files)

LEMMA MovesTo ==
  ASSUME TypeOK, NEW r \in Requests, NEW phase, NEW files, NEW doomed,
         Moves(r, phase, files, doomed)
  PROVE  /\ request'[r].phase = phase /\ request'[r].files = files
         /\ \A s \in Requests \ {r} : request'[s] = request[s]
BY DEF Moves, TypeOK

LEMMA MoveKeepsFinite ==
  ASSUME TypeOK, Finite, NEW r \in Requests, NEW phase, NEW files, NEW doomed,
         Moves(r, phase, files, doomed), IsFiniteSet(files), rows' \subseteq rows
  PROVE  Finite'
<1>1. PICK after : after = rows'
  OBVIOUS
<1>2. IsFiniteSet(after)
  BY <1>1, FS_Subset DEF Finite
<1>3. \A s \in Requests : IsFiniteSet(request'[s].files)
  BY MovesTo DEF Finite
<1> QED
  BY <1>1, <1>2, <1>3 DEF Finite

LEMMA NextKeepsFinite == TypeOK /\ Finite /\ [Next]_vars => Finite'
<1> SUFFICES ASSUME TypeOK, Finite, [Next]_vars
             PROVE  Finite'
  OBVIOUS
<1> USE FS_EmptySet
<1>1. ASSUME NEW r \in Requests,
             \/ UploadAttachments(r) \/ DeleteTicket(r) \/ DeletionDone(r) \/ Fail(r)
             \/ \E n \in 1..MaxFiles : TooManyFiles(r, n)
      PROVE  Finite'
  <2>1. PICK phase \in {"counting", "listing", "done", "failed"} : Moves(r, phase, {}, {})
    BY <1>1 DEF UploadAttachments, DeleteTicket, DeletionDone, Fail, TooManyFiles
  <2>2. rows' = rows
    BY <1>1 DEF UploadAttachments, DeleteTicket, DeletionDone, Fail, TooManyFiles
  <2> QED
    BY <2>1, <2>2, MoveKeepsFinite
<1>2. ASSUME NEW r \in Requests, NEW n \in 1..MaxFiles, StageFiles(r, n)
      PROVE  Finite'
  <2>1. n \in Nat
    BY AttachmentAssumption
  <2>2. IsFiniteSet({r} \X (1..n))
    BY <2>1, StagedFiles, Zenon
  <2> QED
    BY <1>2, <2>2, MoveKeepsFinite DEF StageFiles
<1>3. ASSUME NEW r \in Requests, NEW f \in File, WriteFile(r, f)
      PROVE  Finite'
  BY <1>3 DEF WriteFile, Finite
<1>4. ASSUME NEW r \in Requests, CommitUpload(r)
      PROVE  Finite'
  <2>1. /\ Moves(r, "done", {}, {}) /\ rows' = rows \cup request[r].files
        /\ \A s \in Requests \ {r} : request'[s] = request[s]
        /\ request'[r].files = {}
    BY <1>4, MovesTo DEF CommitUpload
  <2>2. IsFiniteSet(rows \cup request[r].files)
    BY FS_Union DEF Finite
  <2> QED
    BY <2>1, <2>2 DEF Finite
<1>5. ASSUME NEW r \in Requests, ListPaths(r)
      PROVE  Finite'
  BY <1>5, MoveKeepsFinite DEF ListPaths, Finite
<1>6. ASSUME NEW r \in Requests, DeleteRows(r) \/ CommitDelete(r)
      PROVE  Finite'
  <2>1. PICK phase, doomed : Moves(r, phase, request[r].files, doomed)
    BY <1>6 DEF DeleteRows, CommitDelete
  <2>2. rows' \subseteq rows
    BY <1>6 DEF DeleteRows, CommitDelete
  <2> QED
    BY <2>1, <2>2, MoveKeepsFinite DEF Finite
<1>7. ASSUME NEW r \in Requests, NEW f \in File, RemoveFile(r, f) \/ CannotRemove(r, f)
      PROVE  Finite'
  <2>1. IsFiniteSet(request[r].files \ {f})
    BY FS_RemoveElement DEF Finite
  <2> QED
    BY <1>7, <2>1, MoveKeepsFinite DEF RemoveFile, CannotRemove
<1>8. ASSUME NEW r \in Requests, NEW f \in File, DownloadAttachment(r, f)
      PROVE  Finite'
  <2>1. IsFiniteSet({f})
    BY FS_Singleton
  <2> QED
    BY <1>8, <2>1, MoveKeepsFinite DEF DownloadAttachment
<1>9. ASSUME NEW r \in Requests, OpenFile(r) \/ ReadFile(r)
      PROVE  Finite'
  <2>1. PICK phase \in Phase, files \in {request[r].files, {}} :
          Moves(r, phase, files, {})
    BY <1>9 DEF OpenFile, ReadFile, Phase
  <2>2. rows' = rows /\ IsFiniteSet(files)
    BY <1>9, <2>1 DEF OpenFile, ReadFile, Finite
  <2> QED
    BY <2>1, <2>2, MoveKeepsFinite
<1>10. CASE UNCHANGED vars
  BY <1>10 DEF vars, Finite
<1> QED
  BY <1>1, <1>2, <1>3, <1>4, <1>5, <1>6, <1>7, <1>8, <1>9, <1>10 DEF Next, Removal

\* The four things that can happen to a deletion that removes files.
LEMMA RemovalCases ==
  ASSUME TypeOK, Next, NEW r \in Requests, At(r, "removing")
  PROVE  \/ request'[r] = request[r] /\ ~Removal(r)
         \/ \E f \in request[r].files :
              /\ Moves(r, "removing", request[r].files \ {f}, {})
              /\ f \notin disk' \/ f \in resisting'
         \/ Moves(r, "done", {}, {}) /\ request[r].files = {}
         \/ Moves(r, "failed", {}, {})
<1>1. PICK s \in Requests :
        \/ UploadAttachments(s)
        \/ \E n \in 1..MaxFiles : StageFiles(s, n) \/ TooManyFiles(s, n)
        \/ \E f \in File :
             WriteFile(s, f) \/ CannotRemove(s, f) \/ DownloadAttachment(s, f)
        \/ CommitUpload(s) \/ DeleteTicket(s) \/ ListPaths(s) \/ DeleteRows(s)
        \/ CommitDelete(s) \/ Removal(s) \/ OpenFile(s) \/ ReadFile(s) \/ Fail(s)
  BY DEF Next
<1>2. CASE s = r
  <2>1. ~(\/ UploadAttachments(r) \/ CommitUpload(r) \/ DeleteTicket(r) \/ ListPaths(r)
          \/ DeleteRows(r) \/ CommitDelete(r) \/ OpenFile(r) \/ ReadFile(r)
          \/ \E n \in 1..MaxFiles : StageFiles(r, n) \/ TooManyFiles(r, n)
          \/ \E f \in File : WriteFile(r, f) \/ DownloadAttachment(r, f))
    BY DEF At, UploadAttachments, CommitUpload, DeleteTicket, ListPaths, DeleteRows,
           CommitDelete, OpenFile, ReadFile, StageFiles, TooManyFiles, WriteFile,
           DownloadAttachment
  <2>2. (\E f \in File : CannotRemove(r, f)) \/ Removal(r) \/ Fail(r)
    BY <1>1, <1>2, <2>1
  <2> QED
    BY <2>2 DEF CannotRemove, Removal, RemoveFile, DeletionDone, Fail
<1>3. CASE s # r
  <2>1. \/ request' = request
        \/ \E phase, files, doomed : Moves(s, phase, files, doomed)
    BY <1>1 DEF UploadAttachments, StageFiles, TooManyFiles, WriteFile, CannotRemove,
       DownloadAttachment, CommitUpload, DeleteTicket, ListPaths, DeleteRows,
       CommitDelete, Removal, RemoveFile, DeletionDone, OpenFile, ReadFile, Fail
  <2>2. request'[r] = request[r]
    BY <1>3, <2>1, MovesTo
  <2>3. ASSUME Removal(r)
        PROVE  request'[r] # request[r]
    <3>1. CASE DeletionDone(r)
      BY <3>1, MovesTo DEF DeletionDone, At
    <3>2. ASSUME NEW f \in File, RemoveFile(r, f)
          PROVE  request'[r] # request[r]
      BY <3>2, MovesTo DEF RemoveFile
    <3> QED
      BY <2>3, <3>1, <3>2 DEF Removal
  <2> QED
    BY <2>2, <2>3
<1> QED
  BY <1>2, <1>3

LEMMA NextRemoves ==
  TypeOK /\ Finite /\ Next => \A r \in Requests : Removes(r)
<1> SUFFICES ASSUME TypeOK, Finite, Next, NEW r \in Requests, At(r, "removing")
             PROVE  Removes(r)
  BY DEF Removes
<1>1. /\ IsFiniteSet(request[r].files) /\ Cardinality(request[r].files) \in Nat
      /\ FilesLeft(request[r]) = Cardinality(request[r].files) + 1
  BY FS_CardinalityType DEF Finite, FilesLeft, At
<1>2. CASE request'[r] = request[r] /\ ~Removal(r)
  BY <1>1, <1>2 DEF Removes, At
<1>3. ASSUME NEW f \in request[r].files,
             Moves(r, "removing", request[r].files \ {f}, {}),
             f \notin disk' \/ f \in resisting'
      PROVE  Removes(r)
  <2>1. request'[r].phase = "removing" /\ request'[r].files = request[r].files \ {f}
    BY <1>3, MovesTo
  <2>2. Cardinality(request[r].files \ {f}) = Cardinality(request[r].files) - 1
    BY <1>1, FS_RemoveElement
  <2>3. FilesLeft(request'[r]) < FilesLeft(request[r])
    BY <1>1, <2>1, <2>2 DEF FilesLeft
  <2> QED
    BY <1>1, <1>3, <2>1, <2>3 DEF Removes, At
<1>4. CASE \/ Moves(r, "done", {}, {}) /\ request[r].files = {}
           \/ Moves(r, "failed", {}, {})
  <2>1. \/ request'[r].phase = "done" /\ request[r].files = {}
        \/ request'[r].phase = "failed"
    BY <1>4, MovesTo
  <2> QED
    BY <1>1, <2>1 DEF Removes, FilesLeft, At
<1> QED
  BY <1>2, <1>3, <1>4, RemovalCases

\* The loop that removes the files of a deletion passes over none of them, and has
\* fewer left after each step, whatever other deletions of the ticket remove
\* meanwhile and whichever files resist.
THEOREM DeletionsNeverSkip == Spec => [][\A r \in Requests : Removes(r)]_vars
<1>1. Init => Finite
  BY FS_EmptySet DEF Init, Finite
<1>2. TypeOK /\ Finite /\ [Next]_vars => [\A r \in Requests : Removes(r)]_vars
  BY NextRemoves
<1> QED
  BY <1>1, <1>2, NextKeepsFinite, TypeCorrect, PTL DEF Spec

-----------------------------------------------------------------------------
(* The bytes of a deleted ticket *)

Uploads(r) == request[r].phase \in {"counting", "writing"}
Deletes(r) == request[r].phase \in {"deleting", "committing"}

\* No upload is in progress when a deletion has listed the paths and not committed.
NoUploadWhileDeleting == \A r, s \in Requests : ~(Uploads(r) /\ Deletes(s))

Keeping == {"writing", "deleting", "committing", "removing"}

\* The bytes on disk belong to a row, or to a request that will commit or remove
\* them; an upload finds its ticket there, and a deletion has listed every row.
HeldInv ==
  /\ \A f \in disk :
       \/ ticket /\ f \in rows
       \/ \E r \in Requests : request[r].phase \in Keeping /\ f \in request[r].files
  /\ ~ticket => \A r \in Requests : ~Uploads(r)
  /\ ticket => \A r \in Requests : Deletes(r) => rows \subseteq request[r].files

\* A step that commits nothing and drops no file that is still on disk.
LEMMA HeldStep ==
  ASSUME TypeOK, HeldInv, NEW r \in Requests, NEW phase, NEW files, NEW doomed,
         Moves(r, phase, files, doomed), ticket' = ticket, rows' = rows,
         disk' \subseteq disk,
         \A f \in disk' : request[r].phase \in Keeping /\ f \in request[r].files =>
           phase \in Keeping /\ f \in files,
         phase \in {"counting", "writing"} => ticket,
         ticket /\ phase \in {"deleting", "committing"} => rows \subseteq files
  PROVE  HeldInv'
<1>1. /\ request'[r].phase = phase /\ request'[r].files = files
      /\ \A s \in Requests \ {r} : request'[s] = request[s]
  BY MovesTo
<1>2. ASSUME NEW f \in disk'
      PROVE  \/ ticket /\ f \in rows
             \/ \E s \in Requests : request'[s].phase \in Keeping /\ f \in request'[s].files
  <2>1. CASE ticket /\ f \in rows
    BY <2>1
  <2>2. ASSUME NEW s \in Requests, request[s].phase \in Keeping, f \in request[s].files
        PROVE  request'[s].phase \in Keeping /\ f \in request'[s].files
    BY <1>1, <1>2, <2>2
  <2> QED
    BY <2>1, <2>2 DEF HeldInv
<1>3. ~ticket => \A s \in Requests : ~Uploads(s)'
  BY <1>1 DEF HeldInv, Uploads
<1>4. ticket => \A s \in Requests : Deletes(s)' => rows \subseteq request'[s].files
  BY <1>1 DEF HeldInv, Deletes
<1> QED
  BY <1>2, <1>3, <1>4 DEF HeldInv

LEMMA NextKeepsHeld ==
  IInv /\ HeldInv /\ NoUploadWhileDeleting /\ ~Faults /\ [Next]_vars => HeldInv'
<1> SUFFICES ASSUME IInv, HeldInv, NoUploadWhileDeleting, ~Faults, [Next]_vars
             PROVE  HeldInv'
  OBVIOUS
<1> USE DEF Keeping
<1>1. TypeOK
  BY DEF IInv
<1>2. ASSUME NEW r \in Requests, UploadAttachments(r) \/ DeleteTicket(r)
      PROVE  HeldInv'
  BY <1>1, <1>2, HeldStep DEF UploadAttachments, DeleteTicket, At
<1>3. ASSUME NEW r \in Requests, NEW n \in 1..MaxFiles, StageFiles(r, n)
      PROVE  HeldInv'
  <2>1. ticket /\ request[r].phase = "counting"
    BY <1>3 DEF StageFiles, HeldInv, Uploads, At
  <2> QED
    BY <1>1, <1>3, <2>1, HeldStep DEF StageFiles
<1>4. ASSUME NEW r \in Requests, NEW n \in 1..MaxFiles, TooManyFiles(r, n)
      PROVE  HeldInv'
  BY <1>1, <1>4, HeldStep DEF TooManyFiles, At
<1>5. ASSUME NEW r \in Requests, NEW f \in File, WriteFile(r, f)
      PROVE  HeldInv'
  <2>1. /\ disk' = disk \cup {f} /\ request' = request /\ ticket' = ticket /\ rows' = rows
        /\ request[r].phase \in Keeping /\ f \in request[r].files
    BY <1>5 DEF WriteFile, At
  <2>2. \A g \in disk' :
          \/ ticket /\ g \in rows
          \/ \E s \in Requests : request[s].phase \in Keeping /\ g \in request[s].files
    BY <2>1 DEF HeldInv
  <2> QED
    BY <2>1, <2>2 DEF HeldInv, Uploads, Deletes
<1>6. ASSUME NEW r \in Requests, CommitUpload(r)
      PROVE  HeldInv'
  <2>1. /\ ticket /\ ticket' /\ disk' = disk /\ rows' = rows \cup request[r].files
        /\ request'[r].phase = "done"
        /\ \A s \in Requests \ {r} : request'[s] = request[s]
    BY <1>1, <1>6, MovesTo DEF CommitUpload, HeldInv, Uploads, At
  <2>2. \A s \in Requests : ~Deletes(s)
    BY <1>6 DEF CommitUpload, NoUploadWhileDeleting, Uploads, At
  <2>3. \A s \in Requests : ~Deletes(s)'
    BY <2>1, <2>2 DEF Deletes
  <2>4. ASSUME NEW f \in disk
        PROVE  \/ f \in rows'
               \/ \E s \in Requests : request'[s].phase \in Keeping /\ f \in request'[s].files
    <3>1. CASE f \in rows
      BY <2>1, <3>1
    <3>2. ASSUME NEW s \in Requests, request[s].phase \in Keeping, f \in request[s].files
          PROVE  \/ f \in rows'
                 \/ request'[s].phase \in Keeping /\ f \in request'[s].files
      BY <2>1, <3>2
    <3> QED
      BY <3>1, <3>2 DEF HeldInv
  <2> QED
    BY <2>1, <2>3, <2>4 DEF HeldInv
<1>7. ASSUME NEW r \in Requests, ListPaths(r)
      PROVE  HeldInv'
  BY <1>1, <1>7, HeldStep DEF ListPaths, At
<1>8. ASSUME NEW r \in Requests, DeleteRows(r)
      PROVE  HeldInv'
  BY <1>1, <1>8, HeldStep DEF DeleteRows, HeldInv, Deletes, At
<1>9. ASSUME NEW r \in Requests, CommitDelete(r)
      PROVE  HeldInv'
  <2>1. /\ ~ticket' /\ disk' = disk
        /\ request[r].phase = "committing"
        /\ request'[r].phase = "removing" /\ request'[r].files = request[r].files
        /\ \A s \in Requests \ {r} : request'[s] = request[s]
    BY <1>1, <1>9, MovesTo DEF CommitDelete, At
  <2>2. \A s \in Requests : ~Uploads(s)
    BY <2>1 DEF NoUploadWhileDeleting, Deletes
  <2>3. \A s \in Requests : ~Uploads(s)'
    BY <2>1, <2>2 DEF Uploads
  <2>4. ASSUME NEW f \in disk
        PROVE  \E s \in Requests : request'[s].phase \in Keeping /\ f \in request'[s].files
    <3>1. CASE ticket /\ f \in rows
      BY <2>1, <3>1 DEF HeldInv, Deletes
    <3>2. ASSUME NEW s \in Requests, request[s].phase \in Keeping, f \in request[s].files
          PROVE  request'[s].phase \in Keeping /\ f \in request'[s].files
      BY <2>1, <3>2
    <3> QED
      BY <3>1, <3>2 DEF HeldInv
  <2> QED
    BY <2>1, <2>3, <2>4 DEF HeldInv
<1>10. ASSUME NEW r \in Requests, Removal(r)
       PROVE  HeldInv'
  <2>1. CASE DeletionDone(r)
    BY <1>1, <2>1, HeldStep DEF DeletionDone
  <2>2. ASSUME NEW f \in File, RemoveFile(r, f)
        PROVE  HeldInv'
    <3>1. /\ Moves(r, "removing", request[r].files \ {f}, {}) /\ disk' = disk \ {f}
          /\ ticket' = ticket /\ rows' = rows
      BY <2>2 DEF RemoveFile
    <3>2. \A g \in disk' : g \in request[r].files => g \in request[r].files \ {f}
      BY <3>1
    <3> QED
      BY <1>1, <3>1, <3>2, HeldStep
  <2> QED
    BY <1>10, <2>1, <2>2 DEF Removal
<1>11. ASSUME NEW r \in Requests, NEW f \in File, DownloadAttachment(r, f)
       PROVE  HeldInv'
  BY <1>1, <1>11, HeldStep DEF DownloadAttachment, At
<1>12. ASSUME NEW r \in Requests, OpenFile(r) \/ ReadFile(r)
       PROVE  HeldInv'
  <2>1. PICK phase \in {"reading", "missing", "served", "broken"},
             files \in {request[r].files, {}} : Moves(r, phase, files, {})
    BY <1>12 DEF OpenFile, ReadFile
  <2>2. /\ UNCHANGED <<ticket, rows, disk>>
        /\ request[r].phase \notin Keeping
    BY <1>12 DEF OpenFile, ReadFile, At
  <2> QED
    BY <1>1, <2>1, <2>2, HeldStep
<1>13. ASSUME NEW r \in Requests
       PROVE  ~Fail(r) /\ \A f \in File : ~CannotRemove(r, f)
  BY DEF Fail, CannotRemove
<1>14. CASE UNCHANGED vars
  BY <1>14 DEF vars, HeldInv, Uploads, Deletes
<1> QED
  BY <1>2, <1>3, <1>4, <1>5, <1>6, <1>7, <1>8, <1>9, <1>10, <1>11, <1>12, <1>13, <1>14
     DEF Next

\* Customers' bytes outlive their rows only through an upload that overlaps the
\* deletion of its ticket, or a failure: without failures, and with no upload in
\* progress between the listing of the paths and the commit of a deletion, whatever
\* is on disk has a row or is about to be removed or committed.
THEOREM NoOrphansWithoutOverlap ==
  ASSUME ~Faults
  PROVE  Spec /\ []NoUploadWhileDeleting => []NoOrphanBytes
<1>1. Init => HeldInv
  BY DEF Init, HeldInv, Deletes
<1>2. HeldInv => NoOrphanBytes
  BY DEF HeldInv, NoOrphanBytes, Held
<1>3. IInv /\ HeldInv /\ NoUploadWhileDeleting /\ [Next]_vars => HeldInv'
  BY NextKeepsHeld
<1> QED
  BY <1>1, <1>2, <1>3, Invariance, PTL DEF Spec
=============================================================================

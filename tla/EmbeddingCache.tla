---------------------------- MODULE EmbeddingCache ----------------------------
(***************************************************************************)
(* The vector index of the knowledge base: built once, kept in two module  *)
(* globals of each process and in two files of a shared directory.  The    *)
(* warm-up thread and the requests of a process fill and use the globals   *)
(* without a lock; processes share the files without one.                  *)
(*                                                                         *)
(* An index is abstracted to what it was built from: the signature of the  *)
(* embedding model and the version of the documents.  A file that is being *)
(* written, or whose writer died, is torn: reading it raises an exception. *)
(* Every process is started with a signature (its environment) and the     *)
(* documents of its deployment and keeps both; a restart may change them.  *)
(*                                                                         *)
(* The specification is called CacheSpec, and its parts likewise, for a    *)
(* module that extends another specification as well (SharedStateProofs).  *)
(***************************************************************************)
EXTENDS Naturals

CONSTANTS
  Processes,
  Threads,     \* the warm-up thread and the requests
  Home,        \* the process of each thread
  Signatures,  \* provider and model, numbered in the order of their use
  Dimension,   \* the length of the vectors of each model
  Documents,   \* versions of data/docs
  None,        \* an unset global, a missing file
  Torn         \* a file that cannot be read

\* What an index, or the file of the documents, was built from.
Built == [signature : Signatures, docs : Documents]

ASSUME CacheAssumption ==
  /\ Home \in [Threads -> Processes]
  /\ Signatures \subseteq Nat /\ Signatures # {}
  /\ Dimension \in [Signatures -> Nat \ {0}]
  /\ Documents # {}
  /\ None \notin Built \cup Documents /\ Torn \notin Built \cup {None}

VARIABLES
  setting,    \* per process: signature and documents it was started with
  index,      \* per process: _index
  documents,  \* per process: _documents
  indexFile,  \* faiss_index.bin
  docsFile,   \* documents.pkl: a signature and documents
  thread,     \* what each thread is doing
  broken,     \* history: a build of the cache was cut short
  returned    \* history: a process went back to an earlier signature

history == <<broken, returned>>
cacheVars == <<setting, index, documents, indexFile, docsFile, thread, history>>

-----------------------------------------------------------------------------

\* loading: the files exist; reading: documents.pkl had the right signature;
\* pairing: _index is assigned; building: no cache; publishing: embedded;
\* saving1 to saving4: _save_cache; searching: both globals are set;
\* scored: the index was searched; answered; empty: no result, for the
\* vectors have another length than the question's.
Phase == {"idle", "loading", "reading", "pairing", "building", "publishing",
          "saving1", "saving2", "saving3", "saving4", "searching", "scored",
          "answered", "empty"}

\* held: what the thread has read from documents.pkl, or built; written: what it
\* is writing to a file; scores: the index that it searched; found: the documents
\* it answered with.
Thread == [phase : Phase, held : Built \cup {None}, written : Built \cup {None},
           scores : Built \cup {None}, found : Documents \cup {None}]

Idle == [phase |-> "idle", held |-> None, written |-> None,
         scores |-> None, found |-> None]

Setting(t) == setting[Home[t]]
At(t, phase) == thread[t].phase = phase
Goes(t, phase) == thread' = [thread EXCEPT ![t].phase = phase]
Holds(t, phase, held) ==
  thread' = [thread EXCEPT ![t].phase = phase, ![t].held = held]
Writes(t, phase, what) ==
  thread' = [thread EXCEPT ![t].phase = phase, ![t].written = what]

-----------------------------------------------------------------------------
(* Mutated forms of the definitions below; no specification uses them.     *)

MatchesDocuments(t) == docsFile \in Built /\ docsFile.docs = Setting(t).docs

ReadyOnceIndexed(t) == index[Home[t]] # None

LoadIndexUnguarded(t) ==
  /\ At(t, "reading")
  /\ index' = [index EXCEPT ![Home[t]] = indexFile]
  /\ Goes(t, "pairing")
  /\ UNCHANGED <<setting, documents, indexFile, docsFile, history>>

AssignOwnDocuments(t) ==
  /\ At(t, "pairing")
  /\ documents' = [documents EXCEPT ![Home[t]] = Setting(t).docs]
  /\ Goes(t, "searching")
  /\ UNCHANGED <<setting, index, indexFile, docsFile, history>>

-----------------------------------------------------------------------------
(* _ensure_index *)

Ready(t) == index[Home[t]] # None /\ documents[Home[t]] # None

FilesExist == indexFile # None /\ docsFile # None

\* The signature is all that is compared: not the documents.
Matches(t) == docsFile \in Built /\ docsFile.signature = Setting(t).signature

EnsureIndex(t) ==
  /\ At(t, "idle")
  /\ Goes(t, IF Ready(t) THEN "searching"
             ELSE IF FilesExist THEN "loading" ELSE "building")
  /\ UNCHANGED <<setting, index, documents, indexFile, docsFile, history>>

\* _load_cached
LoadDocuments(t) ==
  /\ At(t, "loading")
  /\ IF Matches(t) THEN Holds(t, "reading", docsFile) ELSE Goes(t, "building")
  /\ UNCHANGED <<setting, index, documents, indexFile, docsFile, history>>

LoadIndex(t) ==
  /\ At(t, "reading")
  /\ IF indexFile \in Built
     THEN /\ index' = [index EXCEPT ![Home[t]] = indexFile]
          /\ Goes(t, "pairing")
     ELSE /\ Goes(t, "building")
          /\ UNCHANGED index
  /\ UNCHANGED <<setting, documents, indexFile, docsFile, history>>

AssignDocuments(t) ==
  /\ At(t, "pairing")
  /\ documents' = [documents EXCEPT ![Home[t]] = thread[t].held.docs]
  /\ Goes(t, "searching")
  /\ UNCHANGED <<setting, index, indexFile, docsFile, history>>

-----------------------------------------------------------------------------
(* build_index and _save_cache *)

\* Embedding takes a minute; the two assignments follow one another.
BuildIndex(t) ==
  /\ At(t, "building")
  /\ index' = [index EXCEPT ![Home[t]] = Setting(t)]
  /\ Holds(t, "publishing", Setting(t))
  /\ UNCHANGED <<setting, documents, indexFile, docsFile, history>>

PublishDocuments(t) ==
  /\ At(t, "publishing")
  /\ documents' = [documents EXCEPT ![Home[t]] = thread[t].held.docs]
  /\ Goes(t, "saving1")
  /\ UNCHANGED <<setting, index, indexFile, docsFile, history>>

\* What is written is read from the global when the writing starts; another
\* thread may assign the global before it ends.
StartIndexFile(t) ==
  /\ At(t, "saving1")
  /\ indexFile' = Torn
  /\ Writes(t, "saving2", index[Home[t]])
  /\ UNCHANGED <<setting, index, documents, docsFile, history>>

FinishIndexFile(t) ==
  /\ At(t, "saving2")
  /\ indexFile' = thread[t].written
  /\ Goes(t, "saving3")
  /\ UNCHANGED <<setting, index, documents, docsFile, history>>

StartDocumentsFile(t) ==
  /\ At(t, "saving3")
  /\ docsFile' = Torn
  /\ Writes(t, "saving4", [signature |-> thread[t].held.signature,
                            docs |-> documents[Home[t]]])
  /\ UNCHANGED <<setting, index, documents, indexFile, history>>

FinishDocumentsFile(t) ==
  /\ At(t, "saving4")
  /\ docsFile' = thread[t].written
  /\ Goes(t, "searching")
  /\ UNCHANGED <<setting, index, documents, indexFile, history>>

\* Embedding or writing raises: the request fails, or the warm-up gives up.
Fails(t) ==
  /\ thread[t].phase \in {"building", "saving1", "saving2", "saving3", "saving4"}
  /\ thread' = [thread EXCEPT ![t] = Idle]
  /\ broken' = TRUE
  /\ UNCHANGED <<setting, index, documents, indexFile, docsFile, returned>>

-----------------------------------------------------------------------------
(* semantic_search; the warm-up stops at "searching", which is no different *)

SearchIndex(t) ==
  LET searched == index[Home[t]]
      fits == /\ searched # None
              /\ Dimension[searched.signature] = Dimension[Setting(t).signature]
  IN  /\ At(t, "searching")
      /\ thread' = [thread EXCEPT ![t].phase = IF fits THEN "scored" ELSE "empty",
                                  ![t].scores = searched]
      /\ UNCHANGED <<setting, index, documents, indexFile, docsFile, history>>

PickDocuments(t) ==
  /\ At(t, "scored")
  /\ thread' = [thread EXCEPT ![t].phase = "answered",
                              ![t].found = documents[Home[t]]]
  /\ UNCHANGED <<setting, index, documents, indexFile, docsFile, history>>

NextSearch(t) ==
  /\ At(t, "answered") \/ At(t, "empty")
  /\ thread' = [thread EXCEPT ![t] = Idle]
  /\ UNCHANGED <<setting, index, documents, indexFile, docsFile, history>>

\* A process ends, gracefully or with threads half way, and its successor starts.
Restart(p, new) ==
  /\ setting' = [setting EXCEPT ![p] = new]
  /\ index' = [index EXCEPT ![p] = None]
  /\ documents' = [documents EXCEPT ![p] = None]
  /\ thread' = [t \in Threads |-> IF Home[t] = p THEN Idle ELSE thread[t]]
  /\ broken' = (broken \/ \E t \in Threads : Home[t] = p /\ ~At(t, "idle"))
  /\ returned' = (returned \/ new.signature < setting[p].signature)
  /\ UNCHANGED <<indexFile, docsFile>>

-----------------------------------------------------------------------------

\* The image contains no cache.
CacheInit ==
  /\ setting \in [Processes -> Built]
  /\ index = [p \in Processes |-> None]
  /\ documents = [p \in Processes |-> None]
  /\ indexFile = None
  /\ docsFile = None
  /\ thread = [t \in Threads |-> Idle]
  /\ broken = FALSE
  /\ returned = FALSE

CacheNext ==
  \/ \E t \in Threads :
       \/ EnsureIndex(t) \/ LoadDocuments(t) \/ LoadIndex(t) \/ AssignDocuments(t)
       \/ BuildIndex(t) \/ PublishDocuments(t)
       \/ StartIndexFile(t) \/ FinishIndexFile(t)
       \/ StartDocumentsFile(t) \/ FinishDocumentsFile(t)
       \/ SearchIndex(t) \/ PickDocuments(t) \/ NextSearch(t)
       \/ Fails(t)
  \/ \E p \in Processes, new \in Built : Restart(p, new)

CacheSpec == CacheInit /\ [][CacheNext]_cacheVars

-----------------------------------------------------------------------------
(* Properties *)

CacheTypeOK ==
  /\ setting \in [Processes -> Built]
  /\ index \in [Processes -> Built \cup {None}]
  /\ documents \in [Processes -> Documents \cup {None}]
  /\ indexFile \in Built \cup {None, Torn}
  /\ docsFile \in Built \cup {None, Torn}
  /\ thread \in [Threads -> Thread]
  /\ broken \in BOOLEAN /\ returned \in BOOLEAN

\* No search runs into an empty global, although another thread fills the two
\* of them one after the other: `_index.search` and `_documents[idx]` have
\* something to work on.
SearchesSomething ==
  \A t \in Threads :
    /\ At(t, "scored") \/ At(t, "empty") => thread[t].scores # None
    /\ At(t, "answered") => thread[t].found # None

\* A position in the index is looked up in the documents it was built from:
\* the passages that ground an answer are those that matched the question.
AnswersFromIndexedDocuments ==
  ~broken => \A t \in Threads :
    At(t, "answered") => thread[t].found = thread[t].scores.docs

\* "Whenever the active signature changes [...] the index is rebuilt": a
\* question is never compared with vectors of another model, nor left without
\* an answer because of their length.
ScoresWithOwnModel ==
  ~(broken /\ returned) => \A t \in Threads :
    At(t, "scored") \/ At(t, "empty") =>
      /\ thread[t].scores # None
      /\ thread[t].scores.signature = Setting(t).signature
=============================================================================

-------------------------------- MODULE Files --------------------------------
(***************************************************************************)
(* The files of one user of GUMMY OS.  An upload stores the bytes, and in  *)
(* one transaction the row, the chunks of the text and their vectors; a    *)
(* reindex makes the chunks anew from the bytes; a deletion removes the    *)
(* bytes and then the row.  What goes wrong in processing is recorded on   *)
(* the row and does not undo the upload.                                   *)
(*                                                                         *)
(* The bytes are in no transaction, and a row in one is not seen by the    *)
(* others until it commits.  A file and the bytes it stored have the same  *)
(* name here.  The chunks one processing made are one element, with the    *)
(* number of the processing, and count for one.                            *)
(*                                                                         *)
(* A restart ends every request, as if they failed one after the other.    *)
(*                                                                         *)
(* Operators whose name has an underscore are faulty variants of the       *)
(* definition they precede; no specification uses them.                    *)
(***************************************************************************)
EXTENDS Integers, FiniteSets

CONSTANTS
  File,        \* files that may be uploaded in a behaviour
  Content,     \* what an upload can hold
  Request,     \* requests the process can serve at a time
  MaxRuns      \* bound on the processings of a behaviour

VARIABLES
  files,      \* the files rows
  chunks,     \* the file_chunks rows of each
  blobs,      \* files whose bytes are in the storage
  task,       \* what each request is doing
  runs,       \* processings so far
  stranded,   \* files whose bytes a failure left without a row
  hollow,     \* files whose row a failure left without bytes
  contended   \* files that overlapping reindexes wrote last

fileVars == <<files, chunks, blobs, task, runs, stranded, hollow, contended>>

(* What is assumed of the constants.                                       *)
Assumption == File # {} /\ Content # {} /\ MaxRuns \in Nat

Row == [ status : {"none", "completed", "failed", "deleted"},
         content : Content, count : 0..1, indexed : BOOLEAN ]
Made == [ run : 1..MaxRuns, embedded : BOOLEAN ]

SomeFile == CHOOSE f \in File : TRUE
Unwritten == [ status |-> "none", content |-> CHOOSE c \in Content : TRUE,
               count |-> 0, indexed |-> FALSE ]
Idle == [ op |-> "idle", stage |-> "idle", file |-> SomeFile, seen |-> Unwritten,
          found |-> {}, late |-> FALSE ]

Init ==
  /\ files = [f \in File |-> Unwritten]
  /\ chunks = [f \in File |-> {}]
  /\ blobs = {}
  /\ task = [r \in Request |-> Idle]
  /\ runs = 0
  /\ stranded = {} /\ hollow = {} /\ contended = {}

Exists(f) == files[f].status \in {"completed", "failed"}
Busy(r, op) == task[r].op = op
Unused(f) ==
  /\ files[f].status = "none" /\ f \notin blobs
  /\ \A r \in Request : Busy(r, "idle") \/ task[r].file # f

Moves(r, stage) ==
  /\ task' = [task EXCEPT ![r].stage = stage]
  /\ UNCHANGED <<files, chunks, runs, stranded, hollow, contended>>

Begins(r, op, f, row) ==
  /\ Busy(r, "idle")
  /\ task' = [task EXCEPT ![r] =
                [Idle EXCEPT !.op = op, !.stage = "begun", !.file = f, !.seen = row]]
  /\ UNCHANGED <<files, chunks, blobs, runs, stranded, hollow, contended>>

-----------------------------------------------------------------------------
(* What processing makes of a file: an extractor that fails leaves no      *)
(* chunk; an embedding that fails leaves the chunks, not all with vectors. *)
Outcomes == { "indexed", "empty", "unreadable", "unembedded" }

ChunksOf(outcome) ==
  IF outcome \in {"empty", "unreadable"} THEN {}
  ELSE {[run |-> runs + 1, embedded |-> outcome = "indexed"]}

Processed(content, outcome) ==
  [ status |-> IF outcome \in {"indexed", "empty"} THEN "completed" ELSE "failed",
    content |-> content,
    count |-> IF outcome = "indexed" THEN 1 ELSE 0,
    indexed |-> outcome \in {"indexed", "empty"} ]

-----------------------------------------------------------------------------
(* Uploading.  Bytes that a committed file has already are not stored      *)
(* again; a row that another upload of them inserts first makes this one   *)
(* wait, and then fail on the unique checksum.                             *)
Upload(r, f, content) ==
  /\ Unused(f)
  /\ \A g \in File : Exists(g) => files[g].content # content
  /\ Begins(r, "upload", f, [Unwritten EXCEPT !.content = content])

SaveBytes(r) ==
  /\ Busy(r, "upload") /\ task[r].stage = "begun"
  /\ blobs' = blobs \cup {task[r].file}
  /\ Moves(r, "saved")

InsertRow(r) ==
  /\ Busy(r, "upload") /\ task[r].stage = "saved"
  /\ \A q \in Request : Busy(q, "upload") /\ task[q].stage = "inserted" =>
       task[q].seen.content # task[r].seen.content
  /\ \A g \in File : Exists(g) => files[g].content # task[r].seen.content
  /\ Moves(r, "inserted") /\ UNCHANGED blobs

FinishUpload(r, outcome) ==
  LET f == task[r].file
  IN  /\ Busy(r, "upload") /\ task[r].stage = "inserted" /\ runs < MaxRuns
      /\ files' = [files EXCEPT ![f] = Processed(task[r].seen.content, outcome)]
      /\ chunks' = [chunks EXCEPT ![f] = ChunksOf(outcome)]
      /\ runs' = runs + 1
      /\ task' = [task EXCEPT ![r] = Idle]
      /\ UNCHANGED <<blobs, stranded, hollow, contended>>

-----------------------------------------------------------------------------
(* Reindexing.  The old chunks are deleted first: those that were there    *)
(* when the statement began, which then waits for whoever holds the file.  *)
Reindex(r, f) == Exists(f) /\ Begins(r, "reindex", f, files[f])

LoadBytes(r) ==
  /\ Busy(r, "reindex") /\ task[r].stage = "begun"
  /\ task[r].file \in blobs
  /\ Moves(r, "loaded") /\ UNCHANGED blobs

DeleteChunks(r) ==
  /\ Busy(r, "reindex") /\ task[r].stage = "loaded"
  /\ task' = [task EXCEPT ![r].stage = "deleting",
                          ![r].found = chunks[task[r].file]]
  /\ UNCHANGED <<files, chunks, blobs, runs, stranded, hollow, contended>>

Holds(q, f) == Busy(q, "reindex") /\ task[q].stage = "holding" /\ task[q].file = f

HoldFile(r) ==
  /\ Busy(r, "reindex") /\ task[r].stage = "deleting"
  /\ Exists(task[r].file)
  /\ ~\E q \in Request : Holds(q, task[r].file)
  /\ Moves(r, "holding") /\ UNCHANGED blobs

(* Only what the session changed is written: a count of zero and a missing *)
(* time of indexing that it loaded and means to leave are not.             *)
Rewritten(row, seen, new) ==
  [new EXCEPT !.count = IF seen.count = 0 /\ new.count = 0 THEN row.count ELSE @,
              !.indexed = IF ~seen.indexed /\ ~new.indexed THEN row.indexed ELSE @]

Replaced_Kept(f, found, made) == chunks[f] \cup made

Replaced(f, found, made) == (chunks[f] \ found) \cup made

FinishReindex(r, outcome) ==
  LET f == task[r].file
      new == Processed(task[r].seen.content, outcome)
  IN  /\ Busy(r, "reindex") /\ task[r].stage = "holding" /\ runs < MaxRuns
      /\ files' = [files EXCEPT ![f] = Rewritten(@, task[r].seen, new)]
      /\ chunks' = [chunks EXCEPT ![f] =
                      Replaced(f, task[r].found, ChunksOf(outcome))]
      /\ runs' = runs + 1
      /\ contended' = IF task[r].late THEN contended \cup {f} ELSE contended \ {f}
      /\ task' = [q \in Request |->
           IF q = r THEN Idle
           ELSE [task[q] EXCEPT
                   !.late = @ \/ (Busy(q, "reindex") /\ task[q].file = f)]]
      /\ UNCHANGED <<blobs, stranded, hollow>>

-----------------------------------------------------------------------------
(* Deleting.  Bytes that cannot be removed do not keep the row; the chunks *)
(* go with it.                                                             *)
Delete(r, f) == Exists(f) /\ Begins(r, "delete", f, files[f])

DeleteBytes(r, removed) ==
  LET f == task[r].file
  IN  /\ Busy(r, "delete") /\ task[r].stage = "begun"
      /\ blobs' = IF removed THEN blobs \ {f} ELSE blobs
      /\ Moves(r, "unlinked")

DeleteRow(r) ==
  LET f == task[r].file
  IN  /\ Busy(r, "delete") /\ task[r].stage = "unlinked"
      /\ ~\E q \in Request : Holds(q, f)
      /\ files' = [files EXCEPT ![f].status = "deleted"]
      /\ chunks' = [chunks EXCEPT ![f] = {}]
      /\ stranded' = IF f \in blobs THEN stranded \cup {f} ELSE stranded
      /\ task' = [task EXCEPT ![r] = Idle]
      /\ UNCHANGED <<blobs, runs, hollow, contended>>

-----------------------------------------------------------------------------
(* A request may fail wherever it is: in the storage, in the database, on  *)
(* a row that is gone.  The transaction is undone, the storage is not.     *)
RequestFails(r) ==
  LET f == task[r].file
  IN  /\ ~Busy(r, "idle")
      /\ task' = [task EXCEPT ![r] = Idle]
      /\ stranded' = IF Busy(r, "upload") /\ f \in blobs THEN stranded \cup {f}
                                                        ELSE stranded
      /\ hollow' = IF Busy(r, "delete") /\ task[r].stage = "unlinked"
                   THEN hollow \cup {f} ELSE hollow
      /\ UNCHANGED <<files, chunks, blobs, runs, contended>>

Next ==
  \E r \in Request :
    \/ \E f \in File :
         \/ \E content \in Content : Upload(r, f, content)
         \/ Reindex(r, f) \/ Delete(r, f)
    \/ SaveBytes(r) \/ InsertRow(r)
    \/ \E outcome \in Outcomes : FinishUpload(r, outcome) \/ FinishReindex(r, outcome)
    \/ LoadBytes(r) \/ DeleteChunks(r) \/ HoldFile(r)
    \/ (\E removed \in BOOLEAN : DeleteBytes(r, removed)) \/ DeleteRow(r)
    \/ RequestFails(r)

Spec == Init /\ [][Next]_fileVars

-----------------------------------------------------------------------------
TypeOK ==
  /\ files \in [File -> Row]
  /\ chunks \in [File -> SUBSET Made]
  /\ blobs \subseteq File
  /\ task \in [Request ->
       [ op : {"idle", "upload", "reindex", "delete"},
         stage : {"idle", "begun", "saved", "inserted", "loaded", "deleting",
                  "holding", "unlinked"},
         file : File, seen : Row, found : SUBSET Made, late : BOOLEAN ]]
  /\ runs \in 0..MaxRuns
  /\ stranded \subseteq File /\ hollow \subseteq File /\ contended \subseteq File

(* The row tells the index.  Unless reindexes of the file overlapped, a    *)
(* completed file has exactly the chunks of its last processing, all with  *)
(* vectors, and a failed one none that are complete.                       *)
TellsItsIndex(f) ==
  LET row == files[f]
  IN  /\ row.indexed <=> row.status = "completed"
      /\ row.indexed => /\ Cardinality(chunks[f]) = row.count
                        /\ \A made \in chunks[f] : made.embedded
      /\ ~row.indexed => /\ row.count = 0 /\ Cardinality(chunks[f]) <= 1
                         /\ \A made \in chunks[f] : ~made.embedded

(* Rows, chunks and bytes agree.  Every row tells its index; no content is *)
(* held twice; a row has its bytes, and bytes their row, unless a deletion *)
(* or an upload is at work between the two or was broken off there; and    *)
(* the chunks of a deleted file are gone, whoever was reindexing it.       *)
IndexTellsTheFile ==
  /\ \A f \in File :
       IF Exists(f)
       THEN /\ f \notin contended => TellsItsIndex(f)
            /\ \/ f \in blobs \cup hollow
               \/ \E r \in Request : Busy(r, "delete") /\ task[r].file = f
       ELSE /\ chunks[f] = {}
            /\ f \in blobs => \/ f \in stranded
                              \/ \E r \in Request : Busy(r, "upload")
                                                    /\ task[r].file = f
  /\ \A f, g \in File :
       f # g /\ Exists(f) /\ Exists(g) => files[f].content # files[g].content
=============================================================================

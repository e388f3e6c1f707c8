----------------------------- MODULE FilesProofs -----------------------------
(***************************************************************************)
(* Proofs about Files, for any number of files, contents, requests and     *)
(* processings.                                                            *)
(***************************************************************************)
EXTENDS Files, FiniteSetTheorems, TLAPS

-----------------------------------------------------------------------------
Task == [ op : {"idle", "upload", "reindex", "delete"},
          stage : {"idle", "begun", "saved", "inserted", "loaded", "deleting",
                   "holding", "unlinked"},
          file : File, seen : Row, found : SUBSET Made, late : BOOLEAN ]

At(r, op, stages) == Busy(r, op) /\ task[r].stage \in stages

(* An upload has its file to itself, and once its row is inserted nobody   *)
(* else has its content.                                                   *)
Uploading(r) ==
  Busy(r, "upload") =>
    /\ task[r].stage \in {"begun", "saved", "inserted"}
    /\ files[task[r].file].status = "none"
    /\ \A q \in Request : q # r /\ ~Busy(q, "idle") => task[q].file # task[r].file
    /\ task[r].stage # "begun" => task[r].file \in blobs
    /\ task[r].stage = "inserted" =>
         /\ \A g \in File : Exists(g) => files[g].content # task[r].seen.content
         /\ \A q \in Request : q # r /\ At(q, "upload", {"inserted"}) =>
              task[q].seen.content # task[r].seen.content

(* Who reindexes or deletes a file has read its content right; a reindex   *)
(* that nobody has overtaken has read all of the row and of the chunks.    *)
Working(r) ==
  /\ Busy(r, "reindex") \/ Busy(r, "delete") =>
       /\ files[task[r].file].status # "none"
       /\ task[r].seen.content = files[task[r].file].content
  /\ Busy(r, "delete") => task[r].stage \in {"begun", "unlinked"}
  /\ Busy(r, "reindex") => task[r].stage \in {"begun", "loaded", "deleting", "holding"}
  /\ At(r, "reindex", {"holding"}) => Exists(task[r].file)
  /\ Busy(r, "reindex") /\ ~task[r].late /\ Exists(task[r].file) =>
       /\ task[r].seen = files[task[r].file]
       /\ task[r].stage \in {"deleting", "holding"} =>
            task[r].found = chunks[task[r].file]

(* Bytes are missing from a file only while a deletion is half done.       *)
Stored(f) ==
  IF Exists(f)
  THEN /\ f \notin contended => TellsItsIndex(f)
       /\ f \in blobs \cup hollow \/ \E r \in Request : At(r, "delete", {"unlinked"})
                                                       /\ task[r].file = f
  ELSE /\ chunks[f] = {}
       /\ f \in blobs => f \in stranded \/ \E r \in Request : Busy(r, "upload")
                                                             /\ task[r].file = f

Distinct ==
  \A f, g \in File : f # g /\ Exists(f) /\ Exists(g) => files[f].content # files[g].content

Inv ==
  /\ TypeOK
  /\ \A r \in Request : Uploading(r) /\ Working(r)
  /\ \A f \in File : Stored(f)
  /\ Distinct

-----------------------------------------------------------------------------
LEMMA Types ==
  ASSUME TypeOK
  PROVE  /\ task \in [Request -> Task]
         /\ \A r \in Request : /\ task[r] \in Task /\ task[r].file \in File
                               /\ task[r].seen \in Row /\ task[r].found \subseteq Made
                               /\ task[r].seen.content \in Content
         /\ \A f \in File : files[f] \in Row
         /\ runs \in Nat
<1>1. task \in [Request -> Task]
  BY DEF TypeOK, Task
<1>2. \A r \in Request : task[r] \in Task
  BY <1>1
<1>3. \A r \in Request : /\ task[r].file \in File /\ task[r].seen \in Row
                         /\ task[r].found \subseteq Made
  BY <1>2 DEF Task
<1>4. \A r \in Request : task[r].seen.content \in Content
  BY <1>3 DEF Row
<1>5. (\A f \in File : files[f] \in Row) /\ runs \in Nat
  BY DEF TypeOK
<1>. QED
  BY <1>1, <1>2, <1>3, <1>4, <1>5

LEMMA IdleIsATask ==
  Assumption => /\ Idle \in Task /\ Unwritten \in Row /\ Idle.op = "idle"
                /\ Unwritten.status = "none"
<1>. SUFFICES ASSUME Assumption
     PROVE  /\ Idle \in Task /\ Unwritten \in Row /\ Idle.op = "idle"
            /\ Unwritten.status = "none"
  OBVIOUS
<1>1. SomeFile \in File /\ (CHOOSE c \in Content : TRUE) \in Content
  BY DEF Assumption, SomeFile
<1>2. Unwritten \in Row /\ Unwritten.status = "none"
  BY <1>1 DEF Unwritten, Row
<1>3. Idle \in Task /\ Idle.op = "idle"
  BY <1>1, <1>2 DEF Idle, Task
<1>. QED
  BY <1>2, <1>3

LEMMA InvInit == Assumption /\ Init => Inv
<1>. SUFFICES ASSUME Assumption, Init PROVE Inv
  OBVIOUS
<1>1. \A r \in Request : task[r].op = "idle"
  BY IdleIsATask DEF Init
<1>2. \A f \in File : files[f].status = "none" /\ chunks[f] = {}
  BY IdleIsATask DEF Init
<1>3. TypeOK
  <2>1. task \in [Request -> Task] /\ files \in [File -> Row]
    BY IdleIsATask DEF Init
  <2>2. chunks \in [File -> SUBSET Made]
    BY DEF Init
  <2>3. runs \in 0..MaxRuns
    BY DEF Init, Assumption
  <2>. QED
    BY <2>1, <2>2, <2>3 DEF Init, TypeOK, Task
<1>4. \A f \in File : ~Exists(f)
  BY <1>2 DEF Exists
<1>5. blobs = {}
  BY DEF Init
<1>6. \A f \in File : Stored(f)
  BY <1>2, <1>4, <1>5 DEF Stored
<1>7. \A r \in Request : Uploading(r) /\ Working(r)
  BY <1>1 DEF Uploading, Working, Busy, At
<1>8. Distinct
  BY <1>4 DEF Distinct
<1>. QED
  BY <1>3, <1>6, <1>7, <1>8 DEF Inv

(* A request that goes from one stage to the next.                         *)
LEMMA Moved ==
  ASSUME TypeOK, NEW r \in Request,
         NEW stage \in {"idle", "begun", "saved", "inserted", "loaded", "deleting",
                        "holding", "unlinked"},
         task' = [task EXCEPT ![r].stage = stage]
  PROVE  /\ task' \in [Request -> Task]
         /\ task'[r].stage = stage /\ task'[r].op = task[r].op
         /\ task'[r].file = task[r].file /\ task'[r].seen = task[r].seen
         /\ task'[r].found = task[r].found /\ task'[r].late = task[r].late
         /\ \A q \in Request : q # r => task'[q] = task[q]
<1>1. task \in [Request -> Task]
  BY Types
<1>2. task[r] \in Task
  BY <1>1
<1>3. task'[r] = [task[r] EXCEPT !.stage = stage]
  BY <1>1
<1>4. \A q \in Request : q # r => task'[q] = task[q]
  BY <1>1
<1>5. /\ task'[r] \in Task
      /\ task'[r].stage = stage /\ task'[r].op = task[r].op
      /\ task'[r].file = task[r].file /\ task'[r].seen = task[r].seen
      /\ task'[r].found = task[r].found /\ task'[r].late = task[r].late
  BY <1>2, <1>3 DEF Task
<1>6. \A q \in Request : task'[q] \in Task
  BY <1>1, <1>4, <1>5
<1>. QED
  BY <1>1, <1>4, <1>5, <1>6

(* A request that becomes another record.                                  *)
LEMMA Set ==
  ASSUME TypeOK, NEW r \in Request, NEW new \in Task, task' = [task EXCEPT ![r] = new]
  PROVE  /\ task' \in [Request -> Task] /\ task'[r] = new
         /\ \A q \in Request : q # r => task'[q] = task[q]
  BY Types

(* A request that begins.                                                  *)
LEMMA Begun ==
  ASSUME Assumption, TypeOK, NEW r \in Request,
         NEW op \in {"upload", "reindex", "delete"}, NEW f \in File, NEW row \in Row,
         Begins(r, op, f, row)
  PROVE  /\ task' \in [Request -> Task]
         /\ task'[r].op = op /\ task'[r].stage = "begun" /\ task'[r].file = f
         /\ task'[r].seen = row /\ task'[r].late = FALSE
         /\ \A q \in Request : q # r => task'[q] = task[q]
         /\ UNCHANGED <<files, chunks, blobs, runs, stranded, hollow, contended>>
         /\ task[r].op = "idle"
<1>. DEFINE new == [Idle EXCEPT !.op = op, !.stage = "begun", !.file = f, !.seen = row]
<1>1. /\ new \in Task /\ new.op = op /\ new.stage = "begun" /\ new.file = f
      /\ new.seen = row /\ new.late = FALSE
  BY IdleIsATask DEF Idle, Task
<1>2. task' = [task EXCEPT ![r] = new]
  BY DEF Begins
<1>. HIDE DEF new
<1>3. /\ task' \in [Request -> Task] /\ task'[r] = new
      /\ \A q \in Request : q # r => task'[q] = task[q]
  BY <1>1, <1>2, Set
<1>. QED
  BY <1>1, <1>3 DEF Begins, Busy

(* A file that nobody touches stays as it is stored, as long as no upload  *)
(* and no deletion of it is lost.                                          *)
LEMMA StoredKept ==
  ASSUME NEW r \in Request, NEW f \in File, Stored(f),
         \A q \in Request : q # r => task'[q] = task[q],
         Busy(r, "upload") => Busy(r, "upload")' /\ task'[r].file = task[r].file,
         At(r, "delete", {"unlinked"}) =>
           At(r, "delete", {"unlinked"})' /\ task'[r].file = task[r].file,
         UNCHANGED <<files, chunks, blobs, stranded, hollow, contended>>
  PROVE  Stored(f)'
<1>1. (Exists(f)' <=> Exists(f)) /\ (TellsItsIndex(f)' <=> TellsItsIndex(f))
  BY DEF Exists, TellsItsIndex
<1>2. ASSUME NEW q \in Request, At(q, "delete", {"unlinked"}), task[q].file = f
      PROVE  At(q, "delete", {"unlinked"})' /\ task'[q].file = f
  BY <1>2 DEF At, Busy
<1>3. ASSUME NEW q \in Request, Busy(q, "upload"), task[q].file = f
      PROVE  Busy(q, "upload")' /\ task'[q].file = f
  BY <1>3 DEF Busy
<1>4. CASE Exists(f)
  <2>1. f \notin contended => TellsItsIndex(f)
    BY <1>4 DEF Stored
  <2>2. (f \notin contended => TellsItsIndex(f))'
    BY <1>1, <2>1
  <2>3. f \in blobs \cup hollow \/ \E q \in Request : At(q, "delete", {"unlinked"})
                                                    /\ task[q].file = f
    BY <1>4 DEF Stored
  <2>4. (f \in blobs \cup hollow \/ \E q \in Request : At(q, "delete", {"unlinked"})
                                                     /\ task[q].file = f)'
    BY <1>2, <2>3
  <2>5. Exists(f)'
    BY <1>1, <1>4
  <2>. QED
    BY <2>2, <2>4, <2>5 DEF Stored
<1>5. CASE ~Exists(f)
  <2>1. chunks[f] = {}
        /\ (f \in blobs => f \in stranded \/ \E q \in Request : Busy(q, "upload")
                                                            /\ task[q].file = f)
    BY <1>5 DEF Stored
  <2>2. (chunks[f] = {}
         /\ (f \in blobs => f \in stranded \/ \E q \in Request : Busy(q, "upload")
                                                             /\ task[q].file = f))'
    BY <1>3, <2>1
  <2>3. ~Exists(f)'
    BY <1>1, <1>5
  <2>. QED
    BY <2>2, <2>3 DEF Stored
<1>. QED
  BY <1>4, <1>5

(* So do all the files when a request moves that is neither an upload nor  *)
(* a deletion at its row.                                                  *)
LEMMA AllStoredKept ==
  ASSUME NEW r \in Request, \A g \in File : Stored(g),
         \A q \in Request : q # r => task'[q] = task[q],
         Busy(r, "upload") => Busy(r, "upload")' /\ task'[r].file = task[r].file,
         At(r, "delete", {"unlinked"}) =>
           At(r, "delete", {"unlinked"})' /\ task'[r].file = task[r].file,
         UNCHANGED <<files, chunks, blobs, stranded, hollow, contended>>
  PROVE  \A g \in File : Stored(g)'
<1>1. ASSUME NEW g \in File PROVE Stored(g)'
  BY StoredKept
<1>. QED
  BY <1>1

-----------------------------------------------------------------------------
(* The beginnings.                                                         *)
LEMMA InvUpload ==
  ASSUME Assumption, Inv, NEW r \in Request, NEW f \in File, NEW content \in Content,
         Upload(r, f, content)
  PROVE  Inv'
<1>g. TypeOK /\ (\A q \in Request : Uploading(q) /\ Working(q))
      /\ (\A g \in File : Stored(g)) /\ Distinct
  BY DEF Inv
<1>. DEFINE row == [Unwritten EXCEPT !.content = content]
<1>1. row \in Row
  BY IdleIsATask DEF Row
<1>. HIDE DEF row
<1>2. /\ task' \in [Request -> Task]
      /\ task'[r].op = "upload" /\ task'[r].stage = "begun" /\ task'[r].file = f
      /\ \A q \in Request : q # r => task'[q] = task[q]
      /\ UNCHANGED <<files, chunks, blobs, runs, stranded, hollow, contended>>
      /\ task[r].op = "idle"
  BY <1>1, <1>g, Begun DEF Upload, row
<1>3. /\ files[f].status = "none"
      /\ \A q \in Request : task[q].op = "idle" \/ task[q].file # f
  BY DEF Upload, Unused, Busy
<1>4. TypeOK'
  BY <1>g, <1>2 DEF TypeOK, Task
<1>5. ASSUME NEW q \in Request PROVE (Uploading(q) /\ Working(q))'
  <2>1. CASE q = r
    BY <1>2, <1>3, <2>1 DEF Uploading, Working, Busy, At
  <2>2. CASE q # r
    BY <1>g, <1>2, <1>3, <2>2 DEF Uploading, Working, Busy, At, Exists
  <2>. QED
    BY <2>1, <2>2
<1>6. \A g \in File : Stored(g)'
  <2>1. ~Busy(r, "upload") /\ ~At(r, "delete", {"unlinked"})
    BY <1>2 DEF Busy, At
  <2>. QED
    BY <1>g, <1>2, <2>1, AllStoredKept
<1>7. Distinct'
  BY <1>g, <1>2 DEF Distinct, Exists
<1>. QED
  BY <1>4, <1>5, <1>6, <1>7 DEF Inv

LEMMA InvBegins ==
  ASSUME Assumption, Inv, NEW r \in Request, NEW f \in File,
         Reindex(r, f) \/ Delete(r, f)
  PROVE  Inv'
<1>g. TypeOK /\ (\A q \in Request : Uploading(q) /\ Working(q))
      /\ (\A g \in File : Stored(g)) /\ Distinct
  BY DEF Inv
<1>1. Exists(f) /\ files[f] \in Row
  BY <1>g, Types DEF Reindex, Delete
<1>0. PICK row \in Row : row = files[f]
  BY <1>1
<1>2. PICK op \in {"reindex", "delete"} : Begins(r, op, f, row)
  BY <1>0 DEF Reindex, Delete, Begins
<1>c. /\ task' \in [Request -> Task]
      /\ task'[r].op = op /\ task'[r].stage = "begun" /\ task'[r].file = f
      /\ task'[r].seen = row
      /\ \A q \in Request : q # r => task'[q] = task[q]
      /\ UNCHANGED <<files, chunks, blobs, runs, stranded, hollow, contended>>
      /\ task[r].op = "idle"
  <2>1. TypeOK
    BY <1>g
  <2>2. CASE op = "reindex"
    <3>1. Begins(r, "reindex", f, row)
      BY <1>2, <2>2
    <3>. QED
      BY <2>1, <2>2, <3>1, Begun
  <2>3. CASE op = "delete"
    <3>1. Begins(r, "delete", f, row)
      BY <1>2, <2>3
    <3>. QED
      BY <2>1, <2>3, <3>1, Begun
  <2>. QED
    BY <2>2, <2>3
<1>3. /\ task' \in [Request -> Task]
      /\ task'[r].op = op /\ task'[r].stage = "begun" /\ task'[r].file = f
      /\ task'[r].seen = files[f]
      /\ \A q \in Request : q # r => task'[q] = task[q]
      /\ UNCHANGED <<files, chunks, blobs, runs, stranded, hollow, contended>>
      /\ task[r].op = "idle"
  BY <1>c, <1>0
<1>4. TypeOK'
  BY <1>g, <1>3 DEF TypeOK, Task
<1>5. ASSUME NEW q \in Request PROVE (Uploading(q) /\ Working(q))'
  <2>1. CASE q = r
    BY <1>1, <1>3, <2>1 DEF Uploading, Working, Busy, At, Exists
  <2>2. CASE q # r
    <3>1. task'[q] = task[q]
      BY <1>3, <2>2
    <3>2. Working(q)'
      BY <1>g, <1>3, <3>1 DEF Working, Busy, At, Exists
    <3>3. Uploading(q)'
      <4>1. Busy(q, "upload") => task[q].file # f
        BY <1>g, <1>1 DEF Uploading, Exists
      <4>. QED
        BY <1>g, <1>3, <3>1, <4>1 DEF Uploading, Busy, At, Exists
    <3>. QED
      BY <3>2, <3>3
  <2>. QED
    BY <2>1, <2>2
<1>6. \A g \in File : Stored(g)'
  <2>1. ~Busy(r, "upload") /\ ~At(r, "delete", {"unlinked"})
    BY <1>3 DEF Busy, At
  <2>. QED
    BY <1>g, <1>3, <2>1, AllStoredKept
<1>7. Distinct'
  BY <1>g, <1>3 DEF Distinct, Exists
<1>. QED
  BY <1>4, <1>5, <1>6, <1>7 DEF Inv

(* What one processing leaves of row and chunks tells the index.           *)
LEMMA ProcessedTells ==
  ASSUME Assumption, TypeOK, runs < MaxRuns, NEW outcome \in Outcomes, NEW content \in Content
  PROVE  /\ Processed(content, outcome) \in Row
         /\ Processed(content, outcome).content = content
         /\ Processed(content, outcome).status \in {"completed", "failed"}
         /\ ChunksOf(outcome) \subseteq Made
         /\ \A f \in File : files'[f] = Processed(content, outcome)
                          /\ chunks'[f] = ChunksOf(outcome) => TellsItsIndex(f)'
<1>. DEFINE row == Processed(content, outcome)  made == ChunksOf(outcome)
            full == (outcome = "indexed")  one == [run |-> runs + 1, embedded |-> full]
<1>1. runs + 1 \in 1..MaxRuns
  BY DEF TypeOK, Assumption
<1>2. /\ row \in Row /\ row.content = content /\ row.status \in {"completed", "failed"}
  BY DEF Processed, Row, Outcomes
<1>3. full \in BOOLEAN /\ (full <=> outcome = "indexed")
  OBVIOUS
<1>4. /\ outcome \in {"empty", "unreadable"} => made = {}
      /\ outcome \notin {"empty", "unreadable"} => made = {one}
  BY DEF ChunksOf
<1>5. outcome \in {"indexed", "empty", "unreadable", "unembedded"}
  BY DEF Outcomes
<1>6. /\ row.indexed <=> row.status = "completed"
      /\ row.indexed <=> outcome \in {"indexed", "empty"}
      /\ outcome = "indexed" => row.count = 1
      /\ outcome # "indexed" => row.count = 0
  BY <1>5 DEF Processed
<1>. HIDE DEF row, made, full
<1>7. one \in Made /\ (one.embedded <=> full)
  BY <1>1, <1>3 DEF Made
<1>. HIDE DEF one
<1>8. made \subseteq Made
  BY <1>4, <1>7
<1>a. Cardinality({}) = 0 /\ Cardinality({one}) = 1
  BY FS_EmptySet, FS_Singleton
<1>b. /\ outcome \in {"empty", "unreadable"} => Cardinality(made) = 0
      /\ outcome \notin {"empty", "unreadable"} => Cardinality(made) = 1
      /\ Cardinality(made) <= 1
  BY <1>4, <1>a
<1>c. \A each \in made : each.embedded <=> full
  BY <1>4, <1>7
<1>9. /\ row.indexed <=> row.status = "completed"
      /\ row.indexed => Cardinality(made) = row.count
                        /\ \A each \in made : each.embedded
      /\ ~row.indexed => row.count = 0 /\ Cardinality(made) <= 1
                         /\ \A each \in made : ~each.embedded
  <2>1. CASE outcome = "indexed"
    BY <1>3, <1>6, <1>b, <1>c, <2>1
  <2>2. CASE outcome = "empty"
    BY <1>4, <1>6, <1>b, <2>2
  <2>3. CASE outcome = "unreadable"
    BY <1>4, <1>6, <1>b, <2>3
  <2>4. CASE outcome = "unembedded"
    BY <1>3, <1>6, <1>b, <1>c, <2>4
  <2>. QED
    BY <1>5, <2>1, <2>2, <2>3, <2>4
<1>10. ASSUME NEW f \in File, files'[f] = row, chunks'[f] = made
       PROVE  TellsItsIndex(f)'
  BY <1>9, <1>10 DEF TellsItsIndex
<1>. QED
  BY <1>2, <1>8, <1>10 DEF row, made

-----------------------------------------------------------------------------
(* The steps of an upload.                                                 *)
LEMMA InvSaveBytes ==
  ASSUME Assumption, Inv, NEW r \in Request, SaveBytes(r)
  PROVE  Inv'
<1>g. TypeOK /\ (\A q \in Request : Uploading(q) /\ Working(q))
      /\ (\A g \in File : Stored(g)) /\ Distinct
  BY DEF Inv
<1>. DEFINE f == task[r].file
<1>0. f \in File /\ Busy(r, "upload") /\ task[r].stage = "begun"
      /\ files[f].status = "none"
  BY <1>g, Types DEF SaveBytes, Uploading
<1>1. task' = [task EXCEPT ![r].stage = "saved"]
  BY DEF SaveBytes, Moves
<1>2. /\ task' \in [Request -> Task]
      /\ task'[r].stage = "saved" /\ task'[r].op = task[r].op
      /\ task'[r].file = task[r].file /\ task'[r].seen = task[r].seen
      /\ \A q \in Request : q # r => task'[q] = task[q]
  BY <1>g, <1>1, Moved
<1>3. /\ blobs' = blobs \cup {f}
      /\ UNCHANGED <<files, chunks, runs, stranded, hollow, contended>>
  BY DEF SaveBytes, Moves
<1>4. TypeOK'
  BY <1>g, <1>0, <1>2, <1>3 DEF TypeOK, Task
<1>5. ASSUME NEW q \in Request PROVE (Uploading(q) /\ Working(q))'
  <2>1. CASE q = r
    BY <1>g, <1>0, <1>2, <1>3, <2>1 DEF Uploading, Working, Busy, At
  <2>2. CASE q # r
    BY <1>g, <1>0, <1>2, <1>3, <2>2 DEF Uploading, Working, Busy, At, Exists
  <2>. QED
    BY <2>1, <2>2
<1>6. ASSUME NEW g \in File PROVE Stored(g)'
  <2>1. (Exists(g)' <=> Exists(g)) /\ (TellsItsIndex(g)' <=> TellsItsIndex(g))
    BY <1>3 DEF Exists, TellsItsIndex
  <2>2. CASE g = f
    <3>1. ~Exists(g)' /\ chunks'[g] = {}
      BY <1>g, <1>0, <1>3, <2>2 DEF Exists, Stored
    <3>2. Busy(r, "upload")' /\ task'[r].file = g
      BY <1>0, <1>2, <2>2 DEF Busy
    <3>. QED
      BY <3>1, <3>2 DEF Stored
  <2>3. CASE g # f
    <3>1. \A q \in Request :
            At(q, "delete", {"unlinked"}) /\ task[q].file = g =>
              At(q, "delete", {"unlinked"})' /\ task'[q].file = g
      BY <1>0, <1>2 DEF At, Busy
    <3>2. \A q \in Request :
            Busy(q, "upload") /\ task[q].file = g =>
              Busy(q, "upload")' /\ task'[q].file = g
      BY <1>0, <1>2 DEF Busy
    <3>3. g \in blobs' <=> g \in blobs
      BY <1>3, <2>3
    <3>4. Stored(g)
      BY <1>g
    <3>5. CASE Exists(g)
      BY <1>3, <2>1, <3>1, <3>3, <3>4, <3>5 DEF Stored
    <3>6. CASE ~Exists(g)
      BY <1>3, <2>1, <3>2, <3>3, <3>4, <3>6 DEF Stored
    <3>. QED
      BY <3>5, <3>6
  <2>. QED
    BY <2>2, <2>3
<1>7. Distinct'
  BY <1>g, <1>3 DEF Distinct, Exists
<1>. QED
  BY <1>4, <1>5, <1>6, <1>7 DEF Inv

LEMMA InvInsertRow ==
  ASSUME Assumption, Inv, NEW r \in Request, InsertRow(r)
  PROVE  Inv'
<1>g. TypeOK /\ (\A q \in Request : Uploading(q) /\ Working(q))
      /\ (\A g \in File : Stored(g)) /\ Distinct
  BY DEF Inv
<1>0. Busy(r, "upload") /\ task[r].stage = "saved"
  BY DEF InsertRow
<1>1. task' = [task EXCEPT ![r].stage = "inserted"]
  BY DEF InsertRow, Moves
<1>2. /\ task' \in [Request -> Task]
      /\ task'[r].stage = "inserted" /\ task'[r].op = task[r].op
      /\ task'[r].file = task[r].file /\ task'[r].seen = task[r].seen
      /\ \A q \in Request : q # r => task'[q] = task[q]
  BY <1>g, <1>1, Moved
<1>3. UNCHANGED <<files, chunks, blobs, runs, stranded, hollow, contended>>
  BY DEF InsertRow, Moves
<1>4. TypeOK'
  BY <1>g, <1>2, <1>3 DEF TypeOK, Task
<1>8. /\ \A g \in File : Exists(g) => files[g].content # task[r].seen.content
      /\ \A q \in Request : At(q, "upload", {"inserted"}) =>
           task[q].seen.content # task[r].seen.content
  BY DEF InsertRow, At
<1>5. ASSUME NEW q \in Request PROVE (Uploading(q) /\ Working(q))'
  <2>1. CASE q = r
    BY <1>g, <1>0, <1>2, <1>3, <1>8, <2>1 DEF Uploading, Working, Busy, At, Exists
  <2>2. CASE q # r
    BY <1>g, <1>0, <1>2, <1>3, <1>8, <2>2 DEF Uploading, Working, Busy, At, Exists
  <2>. QED
    BY <2>1, <2>2
<1>6. \A g \in File : Stored(g)'
  <2>1. Busy(r, "upload")' /\ ~At(r, "delete", {"unlinked"})
    BY <1>0, <1>2 DEF Busy, At
  <2>. QED
    BY <1>g, <1>2, <1>3, <2>1, AllStoredKept
<1>7. Distinct'
  BY <1>g, <1>3 DEF Distinct, Exists
<1>. QED
  BY <1>4, <1>5, <1>6, <1>7 DEF Inv

LEMMA InvFinishUpload ==
  ASSUME Assumption, Inv, NEW r \in Request, NEW outcome \in Outcomes,
         FinishUpload(r, outcome)
  PROVE  Inv'
<1>g. TypeOK /\ (\A q \in Request : Uploading(q) /\ Working(q))
      /\ (\A g \in File : Stored(g)) /\ Distinct
  BY DEF Inv
<1>. DEFINE f == task[r].file  content == task[r].seen.content
            row == Processed(content, outcome)  made == ChunksOf(outcome)
<1>0. /\ f \in File /\ content \in Content
      /\ Busy(r, "upload") /\ task[r].stage = "inserted" /\ runs < MaxRuns
  BY <1>g, Types DEF FinishUpload
<1>1. /\ row \in Row /\ row.content = content /\ row.status \in {"completed", "failed"}
      /\ made \subseteq Made
      /\ \A g \in File : files'[g] = row /\ chunks'[g] = made => TellsItsIndex(g)'
  BY <1>g, <1>0, ProcessedTells
<1>. HIDE DEF row, made
<1>2. /\ files' = [files EXCEPT ![f] = row] /\ chunks' = [chunks EXCEPT ![f] = made]
      /\ runs' = runs + 1 /\ task' = [task EXCEPT ![r] = Idle]
      /\ UNCHANGED <<blobs, stranded, hollow, contended>>
  BY DEF FinishUpload, row, made
<1>3. /\ task' \in [Request -> Task] /\ task'[r] = Idle
      /\ \A q \in Request : q # r => task'[q] = task[q]
  BY <1>g, <1>2, IdleIsATask, Set
<1>a. task'[r].op = "idle"
  BY <1>3, IdleIsATask
<1>4. /\ files' \in [File -> Row] /\ files'[f] = row
      /\ \A g \in File : g # f => files'[g] = files[g]
  BY <1>0, <1>1, <1>2, <1>g DEF TypeOK
<1>5. /\ chunks' \in [File -> SUBSET Made] /\ chunks'[f] = made
      /\ \A g \in File : g # f => chunks'[g] = chunks[g]
  BY <1>0, <1>1, <1>2, <1>g DEF TypeOK
<1>6. TypeOK'
  <2>1. runs' \in 0..MaxRuns
    BY <1>0, <1>2, <1>g DEF TypeOK, Assumption
  <2>. QED
    BY <1>g, <1>2, <1>3, <1>4, <1>5, <2>1 DEF TypeOK, Task
<1>7. /\ files[f].status = "none" /\ f \in blobs
      /\ \A q \in Request : q # r /\ ~Busy(q, "idle") => task[q].file # f
      /\ \A g \in File : Exists(g) => files[g].content # content
      /\ \A q \in Request : q # r /\ At(q, "upload", {"inserted"}) =>
           task[q].seen.content # content
  BY <1>g, <1>0 DEF Uploading
<1>8. ASSUME NEW q \in Request PROVE (Uploading(q) /\ Working(q))'
  <2>1. CASE q = r
    BY <1>3, <1>a, <2>1 DEF Uploading, Working, Busy, At
  <2>2. CASE q # r
    <3>1. task'[q] = task[q]
      BY <1>3, <2>2
    <3>2. task[q].file \in File /\ (~Busy(q, "idle") => task[q].file # f)
      BY <1>g, <1>7, <2>2, Types
    <3>3. ~Busy(q, "idle") =>
            /\ files'[task[q].file] = files[task[q].file]
            /\ chunks'[task[q].file] = chunks[task[q].file]
      BY <1>4, <1>5, <3>2
    <3>4. Working(q)'
      BY <1>g, <3>1, <3>3 DEF Working, Busy, At, Exists
    <3>5. Uploading(q)'
      <4>1. CASE Busy(q, "upload")
        <5>1. Uploading(q) /\ files'[task[q].file] = files[task[q].file]
          BY <1>g, <3>3, <4>1 DEF Busy
        <5>2. \A p \in Request : p # q /\ ~Busy(p, "idle")' => task'[p].file # task[q].file
          BY <1>3, <1>a, <4>1, <5>1 DEF Uploading, Busy
        <5>3. At(q, "upload", {"inserted"}) =>
                \A g \in File : Exists(g)' => files'[g].content # task[q].seen.content
          BY <1>1, <1>4, <1>7, <2>2, <4>1, <5>1 DEF Uploading, Exists, At
        <5>4. At(q, "upload", {"inserted"}) =>
                \A p \in Request : p # q /\ At(p, "upload", {"inserted"})' =>
                  task'[p].seen.content # task[q].seen.content
          BY <1>3, <1>a, <4>1, <5>1 DEF Uploading, At, Busy
        <5>. QED
          BY <1>2, <3>1, <4>1, <5>1, <5>2, <5>3, <5>4 DEF Uploading, At, Busy
      <4>2. CASE ~Busy(q, "upload")
        BY <3>1, <4>2 DEF Uploading, Busy
      <4>. QED
        BY <4>1, <4>2
    <3>. QED
      BY <3>4, <3>5
  <2>. QED
    BY <2>1, <2>2
<1>9. ASSUME NEW g \in File PROVE Stored(g)'
  <2>1. CASE g = f
    <3>1. Exists(g)'
      BY <1>1, <1>4, <2>1 DEF Exists
    <3>2. TellsItsIndex(g)'
      BY <1>1, <1>4, <1>5, <2>1
    <3>. QED
      BY <1>2, <1>7, <2>1, <3>1, <3>2 DEF Stored
  <2>2. CASE g # f
    <3>1. /\ files'[g] = files[g] /\ chunks'[g] = chunks[g]
      BY <1>4, <1>5, <2>2
    <3>2. (Exists(g)' <=> Exists(g)) /\ (TellsItsIndex(g)' <=> TellsItsIndex(g))
      BY <3>1 DEF Exists, TellsItsIndex
    <3>3. \A q \in Request :
            At(q, "delete", {"unlinked"}) /\ task[q].file = g =>
              At(q, "delete", {"unlinked"})' /\ task'[q].file = g
      BY <1>0, <1>3 DEF At, Busy
    <3>4. \A q \in Request :
            Busy(q, "upload") /\ task[q].file = g =>
              Busy(q, "upload")' /\ task'[q].file = g
      BY <1>3, <2>2 DEF Busy
    <3>5. Stored(g)
      BY <1>g
    <3>6. CASE Exists(g)
      BY <1>2, <3>2, <3>3, <3>5, <3>6 DEF Stored
    <3>7. CASE ~Exists(g)
      BY <1>2, <3>1, <3>2, <3>4, <3>5, <3>7 DEF Stored
    <3>. QED
      BY <3>6, <3>7
  <2>. QED
    BY <2>1, <2>2
<1>10. Distinct'
  BY <1>g, <1>1, <1>4, <1>7 DEF Distinct, Exists
<1>. QED
  BY <1>6, <1>8, <1>9, <1>10 DEF Inv

-----------------------------------------------------------------------------
(* The steps of a reindex.                                                 *)
LEMMA InvLoadOrHold ==
  ASSUME Assumption, Inv, NEW r \in Request, LoadBytes(r) \/ HoldFile(r)
  PROVE  Inv'
<1>g. TypeOK /\ (\A q \in Request : Uploading(q) /\ Working(q))
      /\ (\A g \in File : Stored(g)) /\ Distinct
  BY DEF Inv
<1>0. /\ Busy(r, "reindex")
      /\ UNCHANGED <<files, chunks, blobs, runs, stranded, hollow, contended>>
  BY DEF LoadBytes, HoldFile, Moves
<1>1. PICK stage \in {"loaded", "holding"} :
        /\ task' = [task EXCEPT ![r].stage = stage]
        /\ stage = "holding" => task[r].stage = "deleting" /\ Exists(task[r].file)
  BY DEF LoadBytes, HoldFile, Moves
<1>2. /\ task' \in [Request -> Task]
      /\ task'[r].stage = stage /\ task'[r].op = task[r].op
      /\ task'[r].file = task[r].file /\ task'[r].seen = task[r].seen
      /\ task'[r].found = task[r].found /\ task'[r].late = task[r].late
      /\ \A q \in Request : q # r => task'[q] = task[q]
  BY <1>g, <1>1, Moved
<1>3. TypeOK'
  BY <1>g, <1>0, <1>2 DEF TypeOK, Task
<1>4. ASSUME NEW q \in Request PROVE (Uploading(q) /\ Working(q))'
  <2>1. CASE q = r
    BY <1>g, <1>0, <1>1, <1>2, <2>1 DEF Uploading, Working, Busy, At, Exists
  <2>2. CASE q # r
    BY <1>g, <1>0, <1>2, <2>2 DEF Uploading, Working, Busy, At, Exists
  <2>. QED
    BY <2>1, <2>2
<1>5. \A g \in File : Stored(g)'
  <2>1. ~Busy(r, "upload") /\ ~At(r, "delete", {"unlinked"})
    BY <1>0 DEF Busy, At
  <2>. QED
    BY <1>g, <1>0, <1>2, <2>1, AllStoredKept
<1>6. Distinct'
  BY <1>g, <1>0 DEF Distinct, Exists
<1>. QED
  BY <1>3, <1>4, <1>5, <1>6 DEF Inv

LEMMA InvDeleteChunks ==
  ASSUME Assumption, Inv, NEW r \in Request, DeleteChunks(r)
  PROVE  Inv'
<1>g. TypeOK /\ (\A q \in Request : Uploading(q) /\ Working(q))
      /\ (\A g \in File : Stored(g)) /\ Distinct
  BY DEF Inv
<1>. DEFINE had == chunks[task[r].file]
            new == [task[r] EXCEPT !.stage = "deleting", !.found = had]
<1>0. /\ Busy(r, "reindex") /\ task[r].stage = "loaded"
      /\ UNCHANGED <<files, chunks, blobs, runs, stranded, hollow, contended>>
  BY DEF DeleteChunks
<1>1. had \subseteq Made
  BY <1>g, Types DEF TypeOK
<1>. HIDE DEF had
<1>2. /\ new \in Task /\ new.stage = "deleting" /\ new.op = task[r].op
      /\ new.file = task[r].file /\ new.seen = task[r].seen
      /\ new.found = had /\ new.late = task[r].late
  <2>1. task[r] \in Task
    BY <1>g, Types
  <2>. QED
    BY <1>1, <2>1 DEF Task
<1>3. task' = [task EXCEPT ![r] = new]
  <2>1. task \in [Request -> Task]
    BY <1>g, Types
  <2>. QED
    BY <2>1 DEF DeleteChunks, had
<1>. HIDE DEF new
<1>4. /\ task' \in [Request -> Task] /\ task'[r] = new
      /\ \A q \in Request : q # r => task'[q] = task[q]
  BY <1>g, <1>2, <1>3, Set
<1>5. TypeOK'
  BY <1>g, <1>0, <1>4 DEF TypeOK, Task
<1>6. ASSUME NEW q \in Request PROVE (Uploading(q) /\ Working(q))'
  <2>1. CASE q = r
    <3>1. had = chunks[task[r].file]
      BY DEF had
    <3>. QED
      BY <1>g, <1>0, <1>2, <1>4, <2>1, <3>1 DEF Uploading, Working, Busy, At, Exists
  <2>2. CASE q # r
    BY <1>g, <1>0, <1>2, <1>4, <2>2 DEF Uploading, Working, Busy, At, Exists
  <2>. QED
    BY <2>1, <2>2
<1>7. \A g \in File : Stored(g)'
  <2>1. ~Busy(r, "upload") /\ ~At(r, "delete", {"unlinked"})
    BY <1>0 DEF Busy, At
  <2>. QED
    BY <1>g, <1>0, <1>4, <2>1, AllStoredKept
<1>8. Distinct'
  BY <1>g, <1>0 DEF Distinct, Exists
<1>. QED
  BY <1>5, <1>6, <1>7, <1>8 DEF Inv

(* A reindex rewrites the row as it means to if the row is as it read it.  *)
LEMMA RewritesAll ==
  ASSUME NEW row \in Row, NEW new \in Row
  PROVE  /\ Rewritten(row, row, new) = new
         /\ \A seen \in Row : /\ Rewritten(row, seen, new) \in Row
                              /\ Rewritten(row, seen, new).content = new.content
                              /\ Rewritten(row, seen, new).status = new.status
<1>1. ASSUME NEW seen \in Row
      PROVE  /\ Rewritten(row, seen, new) \in Row
             /\ Rewritten(row, seen, new).content = new.content
             /\ Rewritten(row, seen, new).status = new.status
             /\ Rewritten(row, seen, new).count =
                  IF seen.count = 0 /\ new.count = 0 THEN row.count ELSE new.count
             /\ Rewritten(row, seen, new).indexed =
                  IF ~seen.indexed /\ ~new.indexed THEN row.indexed ELSE new.indexed
  <2>. DEFINE count == IF seen.count = 0 /\ new.count = 0 THEN row.count ELSE new.count
              indexed == IF ~seen.indexed /\ ~new.indexed THEN row.indexed
                                                           ELSE new.indexed
  <2>1. Rewritten(row, seen, new) = [new EXCEPT !.count = count, !.indexed = indexed]
    BY DEF Rewritten, Row
  <2>2. count \in 0..1 /\ indexed \in BOOLEAN
    BY DEF Row
  <2>. HIDE DEF count, indexed
  <2>3. LET all == [new EXCEPT !.count = count, !.indexed = indexed]
        IN  all \in Row /\ all.content = new.content /\ all.status = new.status
            /\ all.count = count /\ all.indexed = indexed
    BY <2>2 DEF Row
  <2>. QED
    BY <2>1, <2>3 DEF count, indexed
<1>2. Rewritten(row, row, new) = new
  <2>1. /\ Rewritten(row, row, new) \in Row
        /\ Rewritten(row, row, new).content = new.content
        /\ Rewritten(row, row, new).status = new.status
        /\ Rewritten(row, row, new).count = new.count
    BY <1>1
  <2>2. Rewritten(row, row, new).indexed = new.indexed
    <3>1. row.indexed \in BOOLEAN /\ new.indexed \in BOOLEAN
      BY DEF Row
    <3>. QED
      BY <1>1, <3>1
  <2>. QED
    BY <2>1, <2>2 DEF Row
<1>. QED
  BY <1>1, <1>2

LEMMA InvFinishReindex ==
  ASSUME Assumption, Inv, NEW r \in Request, NEW outcome \in Outcomes,
         FinishReindex(r, outcome)
  PROVE  Inv'
<1>g. TypeOK /\ (\A q \in Request : Uploading(q) /\ Working(q))
      /\ (\A g \in File : Stored(g)) /\ Distinct
  BY DEF Inv
<1>. DEFINE f == task[r].file  seen == task[r].seen
            new == Processed(seen.content, outcome)  made == ChunksOf(outcome)
            row == Rewritten(files[f], seen, new)
            left == Replaced(f, task[r].found, made)
<1>0. /\ f \in File /\ seen \in Row /\ seen.content \in Content /\ files[f] \in Row
      /\ Busy(r, "reindex") /\ task[r].stage = "holding" /\ runs < MaxRuns
  BY <1>g, Types DEF FinishReindex
<1>1. /\ new \in Row /\ new.content = seen.content /\ new.status \in {"completed", "failed"}
      /\ made \subseteq Made
      /\ \A g \in File : files'[g] = new /\ chunks'[g] = made => TellsItsIndex(g)'
  BY <1>g, <1>0, ProcessedTells
<1>2. /\ files' = [files EXCEPT ![f] = row] /\ chunks' = [chunks EXCEPT ![f] = left]
      /\ runs' = runs + 1
      /\ contended' = IF task[r].late THEN contended \cup {f} ELSE contended \ {f}
      /\ task' = [q \in Request |->
            IF q = r THEN Idle
            ELSE [task[q] EXCEPT !.late = @ \/ (Busy(q, "reindex") /\ task[q].file = f)]]
      /\ UNCHANGED <<blobs, stranded, hollow>>
  <2>1. files' = [files EXCEPT ![f] = row]
    BY <1>0, <1>g DEF FinishReindex, TypeOK
  <2>. QED
    BY <2>1 DEF FinishReindex
<1>3. /\ Exists(f) /\ seen.content = files[f].content
      /\ ~task[r].late => seen = files[f] /\ task[r].found = chunks[f]
  BY <1>g, <1>0 DEF Working, Busy, At
<1>. HIDE DEF new, made
<1>4. /\ row \in Row /\ row.content = files[f].content
      /\ row.status \in {"completed", "failed"}
      /\ ~task[r].late => row = new
  <2>1. seen = files[f] => row = new
    BY <1>0, <1>1, RewritesAll
  <2>2. row \in Row /\ row.content = new.content /\ row.status = new.status
    BY <1>0, <1>1, RewritesAll
  <2>. QED
    BY <1>1, <1>3, <2>1, <2>2
<1>5. left \subseteq Made /\ (~task[r].late => left = made)
  BY <1>0, <1>1, <1>3, <1>g DEF Replaced, TypeOK
<1>. HIDE DEF row, left
<1>6. /\ files' \in [File -> Row] /\ files'[f] = row
      /\ \A g \in File : g # f => files'[g] = files[g]
  BY <1>0, <1>2, <1>4, <1>g DEF TypeOK
<1>7. /\ chunks' \in [File -> SUBSET Made] /\ chunks'[f] = left
      /\ \A g \in File : g # f => chunks'[g] = chunks[g]
  BY <1>0, <1>2, <1>5, <1>g DEF TypeOK
<1>8. /\ task'[r] = Idle /\ task'[r].op = "idle"
      /\ \A q \in Request : q # r =>
           /\ task'[q] \in Task
           /\ task'[q].op = task[q].op /\ task'[q].stage = task[q].stage
           /\ task'[q].file = task[q].file /\ task'[q].seen = task[q].seen
           /\ task'[q].found = task[q].found
           /\ task'[q].late <=> task[q].late \/ (Busy(q, "reindex") /\ task[q].file = f)
  <2>1. task'[r] = Idle /\ task'[r].op = "idle"
    BY <1>2, IdleIsATask
  <2>2. ASSUME NEW q \in Request, q # r
        PROVE  /\ task'[q] \in Task
               /\ task'[q].op = task[q].op /\ task'[q].stage = task[q].stage
               /\ task'[q].file = task[q].file /\ task'[q].seen = task[q].seen
               /\ task'[q].found = task[q].found
               /\ task'[q].late <=> task[q].late \/ (Busy(q, "reindex") /\ task[q].file = f)
    <3>. DEFINE late == task[q].late \/ (Busy(q, "reindex") /\ task[q].file = f)
    <3>1. task[q] \in Task
      BY <1>g, Types
    <3>2. task'[q] = [task[q] EXCEPT !.late = late]
      BY <1>2, <2>2, <3>1 DEF Task
    <3>3. late \in BOOLEAN
      BY <3>1 DEF Task
    <3>. HIDE DEF late
    <3>4. /\ task'[q] \in Task
          /\ task'[q].op = task[q].op /\ task'[q].stage = task[q].stage
          /\ task'[q].file = task[q].file /\ task'[q].seen = task[q].seen
          /\ task'[q].found = task[q].found /\ task'[q].late = late
      BY <3>1, <3>2, <3>3 DEF Task
    <3>. QED
      BY <3>4 DEF late
  <2>. QED
    BY <2>1, <2>2
<1>9. TypeOK'
  <2>1. runs' \in 0..MaxRuns
    BY <1>0, <1>2, <1>g DEF TypeOK, Assumption
  <2>2. contended' \subseteq File
    BY <1>0, <1>2, <1>g DEF TypeOK
  <2>3. task' \in [Request -> Task]
    <3>1. \A q \in Request : task'[q] \in Task
      BY <1>8, IdleIsATask
    <3>2. task' = [q \in Request |-> task'[q]]
      BY <1>2
    <3>. QED
      BY <3>1, <3>2
  <2>. QED
    BY <1>g, <1>2, <1>6, <1>7, <2>1, <2>2, <2>3 DEF TypeOK, Task
<1>e. \A g \in File :
        /\ files'[g].content = files[g].content
        /\ files'[g].status \in {"completed", "failed"}
             <=> files[g].status \in {"completed", "failed"}
        /\ files'[g].status = "none" <=> files[g].status = "none"
  <2>1. ASSUME NEW g \in File, g = f
        PROVE  /\ files'[g].content = files[g].content
               /\ files'[g].status \in {"completed", "failed"}
               /\ files[g].status \in {"completed", "failed"}
    BY <1>3, <1>4, <1>6, <2>1 DEF Exists
  <2>2. ASSUME NEW g \in File, g # f PROVE files'[g] = files[g]
    BY <1>6, <2>2
  <2>. QED
    BY <2>1, <2>2
<1>10. ASSUME NEW q \in Request PROVE (Uploading(q) /\ Working(q))'
  <2>1. CASE q = r
    BY <1>8, <2>1 DEF Uploading, Working, Busy, At
  <2>2. CASE q # r
    <3>1. /\ task'[q].op = task[q].op /\ task'[q].stage = task[q].stage
          /\ task'[q].file = task[q].file /\ task'[q].seen = task[q].seen
          /\ task'[q].found = task[q].found
          /\ task'[q].late <=> task[q].late \/ (Busy(q, "reindex") /\ task[q].file = f)
      BY <1>8, <2>2
    <3>2. task[q].file \in File
      BY <1>g, Types
    <3>3. Working(q)'
      <4>1. Working(q)
        BY <1>g
      <4>2. Busy(q, "reindex") \/ Busy(q, "delete") =>
              /\ files'[task[q].file].status # "none"
              /\ task[q].seen.content = files'[task[q].file].content
        BY <1>e, <3>2, <4>1 DEF Working, Exists
      <4>3. At(q, "reindex", {"holding"}) =>
              files'[task[q].file].status \in {"completed", "failed"}
        BY <1>e, <3>2, <4>1 DEF Working, Exists
      <4>4. Busy(q, "reindex") /\ ~task'[q].late
              /\ files'[task[q].file].status \in {"completed", "failed"} =>
              /\ task[q].seen = files'[task[q].file]
              /\ task[q].stage \in {"deleting", "holding"} =>
                   task[q].found = chunks'[task[q].file]
        <5>. SUFFICES ASSUME Busy(q, "reindex"), ~task'[q].late,
                             files'[task[q].file].status \in {"completed", "failed"}
             PROVE  /\ task[q].seen = files'[task[q].file]
                    /\ task[q].stage \in {"deleting", "holding"} =>
                         task[q].found = chunks'[task[q].file]
          OBVIOUS
        <5>1. ~task[q].late /\ task[q].file # f
          BY <3>1
        <5>2. /\ files'[task[q].file] = files[task[q].file]
              /\ chunks'[task[q].file] = chunks[task[q].file]
          BY <1>6, <1>7, <3>2, <5>1
        <5>3. Exists(task[q].file)
          BY <5>2 DEF Exists
        <5>. QED
          BY <4>1, <5>1, <5>2, <5>3 DEF Working
      <4>. QED
        BY <3>1, <4>1, <4>2, <4>3, <4>4 DEF Working, Busy, At, Exists
    <3>4. Uploading(q)'
      <4>1. CASE Busy(q, "upload")
        <5>1. Uploading(q) /\ task[q].file # f
          BY <1>g, <1>3, <4>1 DEF Uploading, Exists
        <5>2. \A p \in Request : p # q /\ ~Busy(p, "idle")' => task'[p].file # task[q].file
          BY <1>8, <4>1, <5>1 DEF Uploading, Busy
        <5>3. At(q, "upload", {"inserted"}) =>
                \A g \in File : Exists(g)' => files'[g].content # task[q].seen.content
          BY <1>e, <4>1, <5>1 DEF Uploading, At, Exists
        <5>4. At(q, "upload", {"inserted"}) =>
                \A p \in Request : p # q /\ At(p, "upload", {"inserted"})' =>
                  task'[p].seen.content # task[q].seen.content
          BY <1>8, <4>1, <5>1 DEF Uploading, At, Busy
        <5>5. files'[task[q].file].status = "none"
          BY <1>e, <3>2, <4>1, <5>1 DEF Uploading
        <5>. QED
          BY <1>2, <3>1, <4>1, <5>1, <5>2, <5>3, <5>4, <5>5 DEF Uploading, At, Busy
      <4>2. CASE ~Busy(q, "upload")
        BY <3>1, <4>2 DEF Uploading, Busy
      <4>. QED
        BY <4>1, <4>2
    <3>. QED
      BY <3>3, <3>4
  <2>. QED
    BY <2>1, <2>2
<1>11. ASSUME NEW g \in File PROVE Stored(g)'
  <2>0. Stored(g)
    BY <1>g
  <2>1. \A q \in Request :
          At(q, "delete", {"unlinked"}) /\ task[q].file = g =>
            At(q, "delete", {"unlinked"})' /\ task'[q].file = g
    BY <1>0, <1>8 DEF At, Busy
  <2>2. \A q \in Request :
          Busy(q, "upload") /\ task[q].file = g =>
            Busy(q, "upload")' /\ task'[q].file = g
    BY <1>0, <1>8 DEF Busy
  <2>3. CASE g = f
    <3>1. Exists(g) /\ Exists(g)'
      BY <1>3, <1>e, <2>3 DEF Exists
    <3>2. g \notin contended' => TellsItsIndex(g)'
      <4>1. g \notin contended' => files'[g] = new /\ chunks'[g] = made
        BY <1>2, <1>4, <1>5, <1>6, <1>7, <2>3
      <4>. QED
        BY <1>1, <4>1
    <3>3. g \in blobs \cup hollow \/ \E q \in Request : At(q, "delete", {"unlinked"})
                                                      /\ task[q].file = g
      BY <2>0, <3>1 DEF Stored
    <3>. QED
      BY <1>2, <2>1, <3>1, <3>2, <3>3 DEF Stored
  <2>4. CASE g # f
    <3>1. /\ files'[g] = files[g] /\ chunks'[g] = chunks[g]
          /\ g \in contended' <=> g \in contended
      BY <1>2, <1>6, <1>7, <2>4
    <3>2. (Exists(g)' <=> Exists(g)) /\ (TellsItsIndex(g)' <=> TellsItsIndex(g))
      BY <3>1 DEF Exists, TellsItsIndex
    <3>3. CASE Exists(g)
      BY <1>2, <2>0, <2>1, <3>1, <3>2, <3>3 DEF Stored
    <3>4. CASE ~Exists(g)
      BY <1>2, <2>0, <2>2, <3>1, <3>2, <3>4 DEF Stored
    <3>. QED
      BY <3>3, <3>4
  <2>. QED
    BY <2>3, <2>4
<1>12. Distinct'
  BY <1>g, <1>e DEF Distinct, Exists
<1>. QED
  BY <1>9, <1>10, <1>11, <1>12 DEF Inv

-----------------------------------------------------------------------------
(* The steps of a deletion.                                                *)
LEMMA InvDeleteBytes ==
  ASSUME Assumption, Inv, NEW r \in Request, NEW removed \in BOOLEAN,
         DeleteBytes(r, removed)
  PROVE  Inv'
<1>g. TypeOK /\ (\A q \in Request : Uploading(q) /\ Working(q))
      /\ (\A g \in File : Stored(g)) /\ Distinct
  BY DEF Inv
<1>. DEFINE f == task[r].file
<1>0. f \in File /\ Busy(r, "delete") /\ task[r].stage = "begun"
      /\ files[f].status # "none"
  BY <1>g, Types DEF DeleteBytes, Working
<1>1. task' = [task EXCEPT ![r].stage = "unlinked"]
  BY DEF DeleteBytes, Moves
<1>2. /\ task' \in [Request -> Task]
      /\ task'[r].stage = "unlinked" /\ task'[r].op = task[r].op
      /\ task'[r].file = task[r].file /\ task'[r].seen = task[r].seen
      /\ \A q \in Request : q # r => task'[q] = task[q]
  BY <1>g, <1>1, Moved
<1>3. /\ blobs' \subseteq blobs /\ \A g \in File : g # f => (g \in blobs' <=> g \in blobs)
      /\ UNCHANGED <<files, chunks, runs, stranded, hollow, contended>>
  BY DEF DeleteBytes, Moves
<1>4. TypeOK'
  BY <1>g, <1>2, <1>3 DEF TypeOK, Task
<1>5. ASSUME NEW q \in Request PROVE (Uploading(q) /\ Working(q))'
  <2>1. CASE q = r
    BY <1>g, <1>0, <1>2, <1>3, <2>1 DEF Uploading, Working, Busy, At
  <2>2. CASE q # r
    <3>1. Working(q)'
      BY <1>g, <1>2, <1>3, <2>2 DEF Working, Busy, At, Exists
    <3>2. Busy(q, "upload") => task[q].file # f /\ task[q].file \in File
      BY <1>g, <1>0, Types DEF Uploading
    <3>3. Uploading(q)'
      BY <1>g, <1>0, <1>2, <1>3, <2>2, <3>2 DEF Uploading, Busy, At, Exists
    <3>. QED
      BY <3>1, <3>3
  <2>. QED
    BY <2>1, <2>2
<1>6. ASSUME NEW g \in File PROVE Stored(g)'
  <2>1. (Exists(g)' <=> Exists(g)) /\ (TellsItsIndex(g)' <=> TellsItsIndex(g))
    BY <1>3 DEF Exists, TellsItsIndex
  <2>2. Stored(g)
    BY <1>g
  <2>3. \A q \in Request :
          At(q, "delete", {"unlinked"}) /\ task[q].file = g =>
            At(q, "delete", {"unlinked"})' /\ task'[q].file = g
    BY <1>0, <1>2 DEF At, Busy
  <2>4. \A q \in Request :
          Busy(q, "upload") /\ task[q].file = g => Busy(q, "upload")' /\ task'[q].file = g
    BY <1>2 DEF Busy
  <2>5. CASE Exists(g)
    <3>1. CASE g = f
      <4>1. At(r, "delete", {"unlinked"})' /\ task'[r].file = g
        BY <1>0, <1>2, <3>1 DEF At, Busy
      <4>. QED
        BY <1>3, <2>1, <2>2, <2>5, <4>1 DEF Stored
    <3>2. CASE g # f
      BY <1>3, <2>1, <2>2, <2>3, <2>5, <3>2 DEF Stored
    <3>. QED
      BY <3>1, <3>2
  <2>6. CASE ~Exists(g)
    BY <1>3, <2>1, <2>2, <2>4, <2>6 DEF Stored
  <2>. QED
    BY <2>5, <2>6
<1>7. Distinct'
  BY <1>g, <1>3 DEF Distinct, Exists
<1>. QED
  BY <1>4, <1>5, <1>6, <1>7 DEF Inv

LEMMA InvDeleteRow ==
  ASSUME Assumption, Inv, NEW r \in Request, DeleteRow(r)
  PROVE  Inv'
<1>g. TypeOK /\ (\A q \in Request : Uploading(q) /\ Working(q))
      /\ (\A g \in File : Stored(g)) /\ Distinct
  BY DEF Inv
<1>. DEFINE f == task[r].file
<1>0. f \in File /\ Busy(r, "delete") /\ files[f] \in Row /\ files[f].status # "none"
      /\ \A q \in Request : ~Holds(q, f)
  BY <1>g, Types DEF DeleteRow, Working
<1>2. /\ files' = [files EXCEPT ![f].status = "deleted"]
      /\ chunks' = [chunks EXCEPT ![f] = {}]
      /\ stranded' = IF f \in blobs THEN stranded \cup {f} ELSE stranded
      /\ task' = [task EXCEPT ![r] = Idle]
      /\ UNCHANGED <<blobs, runs, hollow, contended>>
  BY DEF DeleteRow
<1>3. /\ task' \in [Request -> Task] /\ task'[r] = Idle
      /\ \A q \in Request : q # r => task'[q] = task[q]
  BY <1>g, <1>2, IdleIsATask, Set
<1>a. task'[r].op = "idle"
  BY <1>3, IdleIsATask
<1>4. /\ files' \in [File -> Row] /\ files'[f].status = "deleted"
      /\ files'[f].content = files[f].content
      /\ \A g \in File : g # f => files'[g] = files[g]
  <2>1. [files[f] EXCEPT !.status = "deleted"] \in Row
    BY <1>0 DEF Row
  <2>2. files' = [files EXCEPT ![f] = [files[f] EXCEPT !.status = "deleted"]]
    BY <1>0, <1>2, <1>g DEF TypeOK
  <2>3. files'[f] = [files[f] EXCEPT !.status = "deleted"]
    BY <1>0, <2>2, <1>g DEF TypeOK
  <2>4. files'[f].status = "deleted" /\ files'[f].content = files[f].content
    BY <1>0, <2>3 DEF Row
  <2>. QED
    BY <1>0, <1>g, <2>1, <2>2, <2>4 DEF TypeOK
<1>5. /\ chunks' \in [File -> SUBSET Made] /\ chunks'[f] = {}
      /\ \A g \in File : g # f => chunks'[g] = chunks[g]
  BY <1>0, <1>2, <1>g DEF TypeOK
<1>6. TypeOK'
  BY <1>0, <1>g, <1>2, <1>3, <1>4, <1>5 DEF TypeOK, Task
<1>7. ASSUME NEW q \in Request PROVE (Uploading(q) /\ Working(q))'
  <2>1. CASE q = r
    BY <1>a, <2>1 DEF Uploading, Working, Busy, At
  <2>2. CASE q # r
    <3>1. task'[q] = task[q] /\ task[q].file \in File
      BY <1>3, <2>2, <1>g, Types
    <3>2. Working(q)'
      <4>1. CASE task[q].file = f
        <5>1. ~At(q, "reindex", {"holding"})
          BY <1>0, <4>1 DEF At, Holds
        <5>. QED
          BY <1>g, <1>4, <3>1, <4>1, <5>1 DEF Working, Busy, At, Exists
      <4>2. CASE task[q].file # f
        <5>1. /\ files'[task[q].file] = files[task[q].file]
              /\ chunks'[task[q].file] = chunks[task[q].file]
          BY <1>4, <1>5, <3>1, <4>2
        <5>. QED
          BY <1>g, <3>1, <5>1 DEF Working, Busy, At, Exists
      <4>. QED
        BY <4>1, <4>2
    <3>3. Uploading(q)'
      <4>1. CASE Busy(q, "upload")
        <5>1. Uploading(q) /\ task[q].file # f
          BY <1>g, <1>0, <4>1 DEF Uploading
        <5>2. \A p \in Request : p # q /\ ~Busy(p, "idle")' => task'[p].file # task[q].file
          BY <1>3, <1>a, <4>1, <5>1 DEF Uploading, Busy
        <5>3. At(q, "upload", {"inserted"}) =>
                \A g \in File : Exists(g)' => files'[g].content # task[q].seen.content
          BY <1>4, <4>1, <5>1 DEF Uploading, At, Exists
        <5>4. At(q, "upload", {"inserted"}) =>
                \A p \in Request : p # q /\ At(p, "upload", {"inserted"})' =>
                  task'[p].seen.content # task[q].seen.content
          BY <1>3, <1>a, <4>1, <5>1 DEF Uploading, At, Busy
        <5>5. files'[task[q].file].status = "none"
          BY <1>4, <3>1, <4>1, <5>1 DEF Uploading
        <5>. QED
          BY <1>2, <3>1, <4>1, <5>1, <5>2, <5>3, <5>4, <5>5 DEF Uploading, At, Busy
      <4>2. CASE ~Busy(q, "upload")
        BY <3>1, <4>2 DEF Uploading, Busy
      <4>. QED
        BY <4>1, <4>2
    <3>. QED
      BY <3>2, <3>3
  <2>. QED
    BY <2>1, <2>2
<1>8. ASSUME NEW g \in File PROVE Stored(g)'
  <2>1. CASE g = f
    <3>1. ~Exists(g)'
      BY <1>4, <2>1 DEF Exists
    <3>2. chunks'[g] = {} /\ (g \in blobs' => g \in stranded')
      BY <1>2, <1>5, <2>1
    <3>. QED
      BY <3>1, <3>2 DEF Stored
  <2>2. CASE g # f
    <3>1. /\ files'[g] = files[g] /\ chunks'[g] = chunks[g]
          /\ g \in stranded' <=> g \in stranded
      BY <1>2, <1>4, <1>5, <2>2
    <3>2. (Exists(g)' <=> Exists(g)) /\ (TellsItsIndex(g)' <=> TellsItsIndex(g))
      BY <1>2, <3>1 DEF Exists, TellsItsIndex
    <3>3. \A q \in Request :
            At(q, "delete", {"unlinked"}) /\ task[q].file = g =>
              At(q, "delete", {"unlinked"})' /\ task'[q].file = g
      BY <1>3, <2>2 DEF At, Busy
    <3>4. \A q \in Request :
            Busy(q, "upload") /\ task[q].file = g =>
              Busy(q, "upload")' /\ task'[q].file = g
      BY <1>3, <2>2 DEF Busy
    <3>5. Stored(g)
      BY <1>g
    <3>6. CASE Exists(g)
      BY <1>2, <3>2, <3>3, <3>5, <3>6 DEF Stored
    <3>7. CASE ~Exists(g)
      BY <1>2, <3>1, <3>2, <3>4, <3>5, <3>7 DEF Stored
    <3>. QED
      BY <3>6, <3>7
  <2>. QED
    BY <2>1, <2>2
<1>9. Distinct'
  BY <1>g, <1>4 DEF Distinct, Exists
<1>. QED
  BY <1>6, <1>7, <1>8, <1>9 DEF Inv

-----------------------------------------------------------------------------
(* A failure: what the request left behind is on the record.               *)
LEMMA InvRequestFails ==
  ASSUME Assumption, Inv, NEW r \in Request, RequestFails(r)
  PROVE  Inv'
<1>g. TypeOK /\ (\A q \in Request : Uploading(q) /\ Working(q))
      /\ (\A g \in File : Stored(g)) /\ Distinct
  BY DEF Inv
<1>. DEFINE f == task[r].file
<1>0. f \in File
  BY <1>g, Types
<1>1. /\ task' = [task EXCEPT ![r] = Idle]
      /\ UNCHANGED <<files, chunks, blobs, runs, contended>>
      /\ stranded \subseteq stranded' /\ hollow \subseteq hollow'
      /\ Busy(r, "upload") /\ f \in blobs => f \in stranded'
      /\ At(r, "delete", {"unlinked"}) => f \in hollow'
  BY DEF RequestFails, At
<1>2. stranded' \subseteq File /\ hollow' \subseteq File
  BY <1>0, <1>g DEF RequestFails, TypeOK
<1>3. /\ task' \in [Request -> Task] /\ task'[r] = Idle
      /\ \A q \in Request : q # r => task'[q] = task[q]
  BY <1>g, <1>1, IdleIsATask, Set
<1>a. task'[r].op = "idle"
  BY <1>3, IdleIsATask
<1>4. TypeOK'
  BY <1>g, <1>1, <1>2, <1>3 DEF TypeOK, Task
<1>5. ASSUME NEW q \in Request PROVE (Uploading(q) /\ Working(q))'
  <2>1. CASE q = r
    BY <1>a, <2>1 DEF Uploading, Working, Busy, At
  <2>2. CASE q # r
    BY <1>g, <1>1, <1>3, <1>a, <2>2 DEF Uploading, Working, Busy, At, Exists
  <2>. QED
    BY <2>1, <2>2
<1>6. ASSUME NEW g \in File PROVE Stored(g)'
  <2>1. (Exists(g)' <=> Exists(g)) /\ (TellsItsIndex(g)' <=> TellsItsIndex(g))
    BY <1>1 DEF Exists, TellsItsIndex
  <2>2. Stored(g)
    BY <1>g
  <2>3. \A q \in Request :
          At(q, "delete", {"unlinked"}) /\ task[q].file = g =>
            g \in hollow' \/ (At(q, "delete", {"unlinked"})' /\ task'[q].file = g)
    BY <1>1, <1>3 DEF At, Busy
  <2>4. \A q \in Request :
          Busy(q, "upload") /\ task[q].file = g /\ g \in blobs =>
            g \in stranded' \/ (Busy(q, "upload")' /\ task'[q].file = g)
    BY <1>1, <1>3 DEF Busy
  <2>5. CASE Exists(g)
    BY <1>1, <2>1, <2>2, <2>3, <2>5 DEF Stored
  <2>6. CASE ~Exists(g)
    BY <1>1, <2>1, <2>2, <2>4, <2>6 DEF Stored
  <2>. QED
    BY <2>5, <2>6
<1>7. Distinct'
  BY <1>g, <1>1 DEF Distinct, Exists
<1>. QED
  BY <1>4, <1>5, <1>6, <1>7 DEF Inv

-----------------------------------------------------------------------------
LEMMA InvNext == Assumption /\ Inv /\ [Next]_fileVars => Inv'
<1>. SUFFICES ASSUME Assumption, Inv, [Next]_fileVars PROVE Inv'
  OBVIOUS
<1>1. CASE UNCHANGED fileVars
  BY <1>1 DEF fileVars, Inv, TypeOK, Uploading, Working, Stored, Distinct, Busy, At,
              Exists, TellsItsIndex
<1>2. ASSUME NEW r \in Request, NEW f \in File, NEW content \in Content,
             Upload(r, f, content)
      PROVE  Inv'
  BY <1>2, InvUpload
<1>3. ASSUME NEW r \in Request, NEW f \in File, Reindex(r, f) \/ Delete(r, f)
      PROVE  Inv'
  BY <1>3, InvBegins
<1>4. ASSUME NEW r \in Request, SaveBytes(r) PROVE Inv'
  BY <1>4, InvSaveBytes
<1>5. ASSUME NEW r \in Request, InsertRow(r) PROVE Inv'
  BY <1>5, InvInsertRow
<1>6. ASSUME NEW r \in Request, NEW outcome \in Outcomes, FinishUpload(r, outcome)
      PROVE  Inv'
  BY <1>6, InvFinishUpload
<1>7. ASSUME NEW r \in Request, NEW outcome \in Outcomes, FinishReindex(r, outcome)
      PROVE  Inv'
  BY <1>7, InvFinishReindex
<1>8. ASSUME NEW r \in Request, LoadBytes(r) \/ HoldFile(r) PROVE Inv'
  BY <1>8, InvLoadOrHold
<1>9. ASSUME NEW r \in Request, DeleteChunks(r) PROVE Inv'
  BY <1>9, InvDeleteChunks
<1>10. ASSUME NEW r \in Request, NEW removed \in BOOLEAN, DeleteBytes(r, removed)
       PROVE  Inv'
  BY <1>10, InvDeleteBytes
<1>11. ASSUME NEW r \in Request, DeleteRow(r) PROVE Inv'
  BY <1>11, InvDeleteRow
<1>12. ASSUME NEW r \in Request, RequestFails(r) PROVE Inv'
  BY <1>12, InvRequestFails
<1>. QED
  BY <1>1, <1>2, <1>3, <1>4, <1>5, <1>6, <1>7, <1>8, <1>9, <1>10, <1>11, <1>12
     DEF Next

LEMMA InvHolds == ASSUME Assumption PROVE Spec => []Inv
<1>1. Init => Inv
  BY InvInit
<1>2. Inv /\ [Next]_fileVars => Inv'
  BY InvNext
<1>. QED
  BY <1>1, <1>2, PTL DEF Spec

(* Rows, chunks, bytes and requests keep their types, however uploads,     *)
(* reindexes, deletions and their failures interleave (services/files).    *)
THEOREM TypeCorrect == ASSUME Assumption PROVE Spec => []TypeOK
<1>1. Inv => TypeOK
  BY DEF Inv
<1>. QED
  BY <1>1, InvHolds, PTL

(* The row of a file tells its index, its bytes and chunks go with it, and *)
(* no content is held twice, for any number of files and requests          *)
(* (file_service.upload, reindex and delete).                              *)
THEOREM FilesAgree == ASSUME Assumption PROVE Spec => []IndexTellsTheFile
<1>1. Inv => IndexTellsTheFile
  <2>. SUFFICES ASSUME Inv PROVE IndexTellsTheFile
    OBVIOUS
  <2>1. \A f \in File : Stored(f)
    BY DEF Inv
  <2>2. Distinct
    BY DEF Inv
  <2>. QED
    BY <2>1, <2>2 DEF IndexTellsTheFile, Stored, Distinct, At
<1>. QED
  BY <1>1, InvHolds, PTL
=============================================================================

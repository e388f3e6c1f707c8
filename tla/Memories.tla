------------------------------ MODULE Memories ------------------------------
(***************************************************************************)
(* The memories of one user of GUMMY OS and the vectors they are searched  *)
(* by.  Requests create, edit, archive, restore and delete memories, each  *)
(* on a session of its own: it loads a row, and later writes what it made  *)
(* of it and commits.  A new fact is first consolidated with what is       *)
(* known.  A worker in the same process recomputes vectors from a queue    *)
(* in memory; a request can ask for the same directly.                     *)
(*                                                                         *)
(* An UPDATE locks its row until the commit, so what a request does from   *)
(* its first write to its commit is one step.  Whatever it read before may *)
(* have changed by then.                                                   *)
(*                                                                         *)
(* Operators whose name has an underscore are faulty variants of the       *)
(* definition they precede; no specification uses them.                    *)
(***************************************************************************)
EXTENDS Integers, Sequences, FiniteSets

CONSTANTS
  Memory,       \* memory ids
  Content,      \* what a memory can say
  Stored,       \* per memory, what is known to begin with
  Near,         \* pairs of contents above the similarity threshold
  Elaborates,   \* <<a, b>>: a contains b and is longer
  Request,      \* requests the process can serve at a time
  NoContent,    \* no text: no vector yet, an edit of other fields
  MaxRetries,   \* EMBEDDING_MAX_RETRIES
  MaxCommits    \* bound on the commits of a behaviour

VARIABLES
  memories,   \* the memories rows
  versions,   \* the memory_versions rows of each, oldest first
  vectors,    \* the text each memory_embeddings row was computed from
  request,    \* what each request is about to do, and what it has loaded
  jobs,       \* the worker's queue
  worker,     \* the worker's job
  excuse,     \* why no job is to be expected for a memory
  commits

memoryVars == <<memories, versions, vectors, request, jobs, worker, excuse,
                commits>>

(* What is assumed of the constants.                                       *)
Assumption ==
  /\ Memory # {} /\ DOMAIN Stored \subseteq Memory
  /\ \A m \in DOMAIN Stored : Stored[m] \in Content
  /\ MaxRetries \in Nat \ {0} /\ MaxCommits \in Nat

Status == { "none", "active", "superseded", "archived" }
Row == [ status : Status, content : Content \cup {NoContent},
         deleted : BOOLEAN ]
Version == [ reason : { "created", "edited", "archived" }, content : Content ]
Excuse == { "none", "overtaken", "given up", "restart", "unasked" }
NoRow == [ status |-> "none", content |-> NoContent, deleted |-> FALSE ]

Nothing == CHOOSE m \in Memory : TRUE
Idle == [ op |-> "idle", id |-> Nothing, seen |-> NoContent, text |-> NoContent ]
Resting == [ stage |-> "idle", id |-> Nothing, attempt |-> 0,
             text |-> NoContent, old |-> NoContent ]

Fresh(content) == [status |-> "active", content |-> content, deleted |-> FALSE]

(* What is known to begin with was stored by an earlier process.           *)
Init ==
  /\ memories = [m \in Memory |-> IF m \in DOMAIN Stored THEN Fresh(Stored[m])
                                                        ELSE NoRow]
  /\ versions = [m \in Memory |->
       IF m \in DOMAIN Stored
       THEN << [reason |-> "created", content |-> Stored[m]] >> ELSE << >>]
  /\ vectors = [m \in Memory |-> IF m \in DOMAIN Stored THEN Stored[m]
                                                       ELSE NoContent]
  /\ request = [r \in Request |-> Idle]
  /\ jobs = << >> /\ worker = Resting
  /\ excuse = [m \in Memory |-> "none"]
  /\ commits = 0

-----------------------------------------------------------------------------
(* get_memory finds rows that are not deleted.                             *)
Found(m) == memories[m].status # "none" /\ ~memories[m].deleted
Active(m) == Found(m) /\ memories[m].status = "active"

Loaded(r, op, m, seen, text) ==
  /\ request[r].op = "idle"
  /\ commits < MaxCommits
  /\ request' = [request EXCEPT ![r] =
                   [op |-> op, id |-> m, seen |-> seen, text |-> text]]
  /\ UNCHANGED <<memories, versions, vectors, jobs, worker, excuse, commits>>

(* An edit compares its text, if it has one, with the row it loaded.       *)
LoadToEdit(r, m, text) ==
  /\ Found(m)
  /\ Loaded(r, "edit", m, NoContent,
            IF text = memories[m].content THEN NoContent ELSE text)

LoadToArchive(r, m) ==
  /\ Found(m) /\ memories[m].status # "archived"
  /\ Loaded(r, "archive", m, memories[m].content, NoContent)

LoadToRestore(r, m) ==
  /\ Found(m) /\ memories[m].status # "active"
  /\ Loaded(r, "restore", m, NoContent, NoContent)

LoadToDelete(r, m) == Found(m) /\ Loaded(r, "delete", m, NoContent, NoContent)

(* The direct refresh also loads the vector it may have to overwrite.      *)
LoadToRefresh(r, m) ==
  /\ Found(m) /\ vectors[m] # memories[m].content
  /\ Loaded(r, "refresh", m, memories[m].content, vectors[m])

(* How a new fact relates to what is known: an exact match first, else a   *)
(* near one, unless similarities are not to be had.  A near one that the   *)
(* new fact does not elaborate passes for a duplicate.                     *)
Exact(text) == {m \in Memory : Active(m) /\ memories[m].content = text}
Similar(text) == {m \in Memory : Active(m) /\ <<text, memories[m].content>> \in Near}

LoadToCreate(r, text) ==
  \/ \E m \in Exact(text) : Loaded(r, "duplicate", m, NoContent, NoContent)
  \/ /\ Exact(text) = {}
     /\ \E m \in Similar(text) :
          IF <<text, memories[m].content>> \in Elaborates
          THEN Loaded(r, "supersede", m, memories[m].content, text)
          ELSE Loaded(r, "duplicate", m, NoContent, NoContent)
  \/ /\ Exact(text) = {}
     /\ Loaded(r, "plain", Nothing, NoContent, text)

-----------------------------------------------------------------------------
(* Commits.  The worker hears of a memory after the commit that wrote it.  *)
Committed(r, next) ==
  /\ request' = [request EXCEPT ![r] = next]
  /\ commits' = commits + 1
  /\ UNCHANGED <<vectors, jobs, worker, excuse>>

Queueing(m) == [Idle EXCEPT !.op = "queueing", !.id = m]

Snapshot(log, reason, content) ==
  Append(log, [reason |-> reason, content |-> content])

CommitEdit(r) ==
  LET m == request[r].id
  IN  /\ request[r].op = "edit" /\ commits < MaxCommits
      /\ IF request[r].text # NoContent
         THEN /\ memories' = [memories EXCEPT ![m].content = request[r].text]
              /\ versions' = [versions EXCEPT ![m] =
                                Snapshot(@, "edited", request[r].text)]
         ELSE UNCHANGED <<memories, versions>>
      /\ Committed(r, Queueing(m))

CommitArchive(r) ==
  LET m == request[r].id
  IN  /\ request[r].op = "archive" /\ commits < MaxCommits
      /\ memories' = [memories EXCEPT ![m].status = "archived"]
      /\ versions' = [versions EXCEPT ![m] =
                        Snapshot(@, "archived", request[r].seen)]
      /\ Committed(r, Idle)

CommitRestore(r) ==
  /\ request[r].op = "restore" /\ commits < MaxCommits
  /\ memories' = [memories EXCEPT ![request[r].id].status = "active"]
  /\ UNCHANGED versions
  /\ Committed(r, Idle)

CommitDelete(r) ==
  /\ request[r].op = "delete" /\ commits < MaxCommits
  /\ memories' = [memories EXCEPT ![request[r].id].deleted = TRUE]
  /\ UNCHANGED versions
  /\ Committed(r, Idle)

(* A duplicate only strengthens the scores of the memory it repeats.       *)
CommitDuplicate(r) ==
  /\ request[r].op = "duplicate" /\ commits < MaxCommits
  /\ UNCHANGED <<memories, versions>>
  /\ Committed(r, Idle)

Retired_Alone(known, old, new, text) ==
  [known EXCEPT ![old].status = "superseded"]

Retired(known, old, new, text) ==
  [known EXCEPT ![old].status = "superseded", ![new] = Fresh(text)]

CommitNew(r) ==
  LET new == CHOOSE m \in Memory : memories[m].status = "none"
      text == request[r].text
      old == request[r].id
  IN  /\ request[r].op \in {"plain", "supersede"} /\ commits < MaxCommits
      /\ \E m \in Memory : memories[m].status = "none"
      /\ IF request[r].op = "plain"
         THEN /\ memories' = [memories EXCEPT ![new] = Fresh(text)]
              /\ versions' = [versions EXCEPT ![new] =
                                Snapshot(@, "created", text)]
         ELSE /\ memories' = Retired(memories, old, new, text)
              /\ versions' = [versions EXCEPT
                   ![old] = Snapshot(@, "archived", request[r].seen),
                   ![new] = Snapshot(@, "created", text)]
      /\ Committed(r, Queueing(new))

(* The direct refresh writes the vector of the text it loaded; a row that  *)
(* appeared in the meantime makes it fail.  Written over a newer text, the *)
(* vector stays wrong until the memory is edited again.                    *)
CommitRefresh(r) ==
  LET m == request[r].id
      text == request[r].seen
  IN  /\ request[r].op = "refresh"
      /\ request[r].text = NoContent => vectors[m] = NoContent
      /\ vectors' = [vectors EXCEPT ![m] = text]
      /\ excuse' = IF text = memories[m].content THEN excuse
                   ELSE [excuse EXCEPT ![m] = "overtaken"]
      /\ request' = [request EXCEPT ![r] = Idle]
      /\ UNCHANGED <<memories, versions, jobs, worker, commits>>

(* Before its commit a request can fail without a trace.                   *)
RequestFails(r) ==
  /\ request[r].op \notin {"idle", "queueing"}
  /\ request' = [request EXCEPT ![r] = Idle]
  /\ UNCHANGED <<memories, versions, vectors, jobs, worker, excuse, commits>>

Enqueue(r) ==
  /\ request[r].op = "queueing"
  /\ jobs' = Append(jobs, request[r].id)
  /\ excuse' = [excuse EXCEPT ![request[r].id] = "none"]
  /\ request' = [request EXCEPT ![r] = Idle]
  /\ UNCHANGED <<memories, versions, vectors, worker, commits>>

(* After its commit a request reads the row again before it asks for the   *)
(* vector; where that fails or is cancelled, nobody asks.                  *)
RefreshFails(r) ==
  /\ request[r].op = "queueing"
  /\ excuse' = [excuse EXCEPT ![request[r].id] = "unasked"]
  /\ request' = [request EXCEPT ![r] = Idle]
  /\ UNCHANGED <<memories, versions, vectors, jobs, worker, commits>>

-----------------------------------------------------------------------------
(* The worker: one job at a time, each tried a few times.                  *)
Take ==
  /\ worker.stage = "idle" /\ jobs # << >>
  /\ worker' = [stage |-> "read", id |-> Head(jobs), attempt |-> 1,
                text |-> NoContent, old |-> NoContent]
  /\ jobs' = Tail(jobs)
  /\ UNCHANGED <<memories, versions, vectors, request, excuse, commits>>

UpToDate_Vector(m) == vectors[m] # NoContent

UpToDate(m) == vectors[m] = memories[m].content

Read ==
  LET m == worker.id
  IN  /\ worker.stage = "read"
      /\ worker' = IF ~Found(m) \/ UpToDate(m) THEN Resting
                   ELSE [worker EXCEPT !.stage = "write", !.old = vectors[m],
                                       !.text = memories[m].content]
      /\ UNCHANGED <<memories, versions, vectors, request, jobs, excuse,
                     commits>>

Write ==
  /\ worker.stage = "write"
  /\ worker.old = NoContent => vectors[worker.id] = NoContent
  /\ vectors' = [vectors EXCEPT ![worker.id] = worker.text]
  /\ worker' = Resting
  /\ UNCHANGED <<memories, versions, request, jobs, excuse, commits>>

AttemptFails_Silently ==
  /\ worker.stage \in {"read", "write"}
  /\ worker' = Resting
  /\ UNCHANGED <<memories, versions, vectors, request, jobs, excuse, commits>>

AttemptFails ==
  /\ worker.stage \in {"read", "write"}
  /\ IF worker.attempt < MaxRetries
     THEN /\ worker' = [worker EXCEPT !.stage = "read", !.attempt = @ + 1]
          /\ UNCHANGED excuse
     ELSE /\ worker' = Resting
          /\ excuse' = [excuse EXCEPT ![worker.id] = "given up"]
  /\ UNCHANGED <<memories, versions, vectors, request, jobs, commits>>

Work == Take \/ Read \/ Write \/ AttemptFails

(* A restart ends requests and worker; the queue was only in memory.       *)
Forgotten ==
  {jobs[k] : k \in DOMAIN jobs}
    \cup {m \in Memory : worker.stage # "idle" /\ worker.id = m}
    \cup {request[r].id : r \in {s \in Request : request[s].op = "queueing"}}

Restart ==
  /\ jobs' = << >> /\ worker' = Resting
  /\ request' = [r \in Request |-> Idle]
  /\ excuse' = [m \in Memory |-> IF m \in Forgotten THEN "restart"
                                                    ELSE excuse[m]]
  /\ UNCHANGED <<memories, versions, vectors, commits>>

-----------------------------------------------------------------------------
Load(r) ==
  \/ \E m \in Memory :
       \/ \E text \in Content \cup {NoContent} : LoadToEdit(r, m, text)
       \/ LoadToArchive(r, m) \/ LoadToRestore(r, m)
       \/ LoadToDelete(r, m) \/ LoadToRefresh(r, m)
  \/ \E text \in Content : LoadToCreate(r, text)

Commit(r) ==
  \/ CommitEdit(r) \/ CommitArchive(r) \/ CommitRestore(r) \/ CommitDelete(r)
  \/ CommitDuplicate(r) \/ CommitNew(r) \/ CommitRefresh(r)

Next ==
  \/ \E r \in Request :
       Load(r) \/ Commit(r) \/ RequestFails(r) \/ Enqueue(r) \/ RefreshFails(r)
  \/ Work \/ Restart

(* The worker's task is scheduled again and again, and the read that a     *)
(* request waits for after its commit ends, in a row or in an error.       *)
Fairness ==
  /\ WF_memoryVars(Work)
  /\ \A r \in Request : WF_memoryVars(Enqueue(r) \/ RefreshFails(r))

Spec == Init /\ [][Next]_memoryVars /\ Fairness

-----------------------------------------------------------------------------
TypeOK ==
  /\ memories \in [Memory -> Row]
  /\ versions \in [Memory -> Seq(Version)]
  /\ vectors \in [Memory -> Content \cup {NoContent}]
  /\ request \in [Request ->
       [ op : {"idle", "edit", "archive", "restore", "delete", "refresh",
               "duplicate", "plain", "supersede", "queueing"},
         id : Memory, seen : Content \cup {NoContent}, text : Content \cup {NoContent} ]]
  /\ jobs \in Seq(Memory)
  /\ worker \in [ stage : {"idle", "read", "write"}, id : Memory,
                  attempt : 0..MaxRetries, text : Content \cup {NoContent},
                  old : Content \cup {NoContent} ]
  /\ excuse \in [Memory -> Excuse]
  /\ commits \in 0..MaxCommits

(* The history tells the memory.  It begins with its creation, its last    *)
(* snapshot of a creation or an edit is what the row says, and what no     *)
(* longer is active was put on record; a fact is retired only together     *)
(* with the arrival of one that elaborates what it was read to say.        *)
Authored(m) == {k \in DOMAIN versions[m] : versions[m][k].reason # "archived"}
LastAuthored(m) == CHOOSE k \in Authored(m) : \A j \in Authored(m) : j <= k
Elaborated(m) ==
  \E k \in DOMAIN versions[m], n \in Memory :
    /\ versions[m][k].reason = "archived" /\ versions[n] # << >>
    /\ <<versions[n][1].content, versions[m][k].content>> \in Elaborates

HistoryTellsTheMemory ==
  \A m \in Memory :
    /\ memories[m].status = "none" <=> versions[m] = << >>
    /\ versions[m] # << >> =>
         /\ versions[m][1].reason = "created"
         /\ versions[m][LastAuthored(m)].content = memories[m].content
    /\ memories[m].status \in {"archived", "superseded"} =>
         \E k \in DOMAIN versions[m] : versions[m][k].reason = "archived"
    /\ memories[m].status = "superseded" => Elaborated(m)

(* A vector that does not match its memory is being seen to: a job for it  *)
(* is queued, at work on the present text, or about to be queued; or there *)
(* is one of four reasons why not: a restart lost the job, its retries     *)
(* were used up, a direct refresh wrote the vector of a text that an edit  *)
(* had replaced, or the request that was to ask for it failed between its  *)
(* commit and that.                                                        *)
Stale(m) == Found(m) /\ vectors[m] # memories[m].content
Seen(m) ==
  \/ \E k \in DOMAIN jobs : jobs[k] = m
  \/ /\ worker.stage # "idle" /\ worker.id = m
     /\ worker.stage = "write" => worker.text = memories[m].content
  \/ \E r \in Request : request[r].op = "queueing" /\ request[r].id = m

StaleVectorsAreSeenTo ==
  \A m \in Memory : Stale(m) => Seen(m) \/ excuse[m] # "none"

(* So every vector catches up with its memory, or there is a reason.       *)
VectorsCatchUp ==
  \A m \in Memory : Stale(m) ~> ~Stale(m) \/ excuse[m] # "none"
=============================================================================

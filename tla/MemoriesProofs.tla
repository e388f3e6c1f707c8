---------------------------- MODULE MemoriesProofs ----------------------------
(***************************************************************************)
(* Proofs about Memories, for any number of memories, contents and         *)
(* requests, any relation of likeness between contents, and any number of  *)
(* retries.                                                                *)
(***************************************************************************)
EXTENDS Memories, TLAPS

-----------------------------------------------------------------------------
Text == Content \cup {NoContent}
Asked == [ op : {"idle", "edit", "archive", "restore", "delete", "refresh",
                 "duplicate", "plain", "supersede", "queueing"},
           id : Memory, seen : Text, text : Text ]
Job == [ stage : {"idle", "read", "write"}, id : Memory, attempt : 0..MaxRetries,
         text : Text, old : Text ]

(* What a request has loaded suits what it is about to write.              *)
Suits(asked) ==
  /\ asked.op \notin {"idle", "plain"} => memories[asked.id].status # "none"
  /\ asked.op \in {"archive", "supersede"} => asked.seen \in Content
  /\ asked.op \in {"plain", "supersede"} => asked.text \in Content
  /\ asked.op = "supersede" => <<asked.text, asked.seen>> \in Elaborates

Archived(m) == \E k \in DOMAIN versions[m] : versions[m][k].reason = "archived"

(* HistoryTellsTheMemory, of one memory and without a CHOOSE.              *)
Told(m) ==
  /\ memories[m].status = "none" <=> versions[m] = << >>
  /\ versions[m] # << >> =>
       /\ memories[m].content \in Content
       /\ versions[m][1].reason = "created"
       /\ \E k \in Authored(m) : /\ \A j \in Authored(m) : j <= k
                                 /\ versions[m][k].content = memories[m].content
  /\ memories[m].status \in {"archived", "superseded"} => Archived(m)
  /\ memories[m].status = "superseded" => Elaborated(m)

(* A vector that is about to be written from a replaced text will be       *)
(* looked at once more, or there is an excuse.                             *)
Queued(m) ==
  \/ \E k \in DOMAIN jobs : jobs[k] = m
  \/ \E r \in Request : request[r].op = "queueing" /\ request[r].id = m
Tended(m) == Stale(m) => Seen(m) \/ excuse[m] # "none"
Writing ==
  worker.stage = "write" /\ worker.text # memories[worker.id].content =>
    Queued(worker.id) \/ excuse[worker.id] # "none"

Inv ==
  /\ TypeOK
  /\ \A r \in Request : Suits(request[r])
  /\ \A m \in Memory : Told(m)
  /\ \A m \in Memory : Tended(m)
  /\ Writing

-----------------------------------------------------------------------------
LEMMA Types ==
  ASSUME TypeOK
  PROVE  /\ memories \in [Memory -> Row] /\ versions \in [Memory -> Seq(Version)]
         /\ vectors \in [Memory -> Text] /\ request \in [Request -> Asked]
         /\ jobs \in Seq(Memory) /\ worker \in Job
         /\ excuse \in [Memory -> Excuse]
         /\ commits \in 0..MaxCommits
  BY DEF TypeOK, Text, Asked, Job

LEMMA TypesBack ==
  ASSUME memories \in [Memory -> Row], versions \in [Memory -> Seq(Version)],
         vectors \in [Memory -> Text], request \in [Request -> Asked],
         jobs \in Seq(Memory), worker \in Job,
         excuse \in [Memory -> Excuse],
         commits \in 0..MaxCommits
  PROVE  TypeOK
  BY DEF TypeOK, Text, Asked, Job

LEMMA Rests ==
  Assumption => /\ Nothing \in Memory /\ Idle \in Asked /\ Idle.op = "idle"
                /\ Resting \in Job /\ Resting.stage = "idle"
<1>. SUFFICES ASSUME Assumption
     PROVE  /\ Nothing \in Memory /\ Idle \in Asked /\ Idle.op = "idle"
            /\ Resting \in Job /\ Resting.stage = "idle"
  OBVIOUS
<1>1. Nothing \in Memory /\ NoContent \in Text /\ 0 \in 0..MaxRetries
  BY DEF Assumption, Nothing, Text
<1>2. Idle \in Asked /\ Idle.op = "idle"
  BY <1>1 DEF Idle, Asked
<1>3. Resting \in Job /\ Resting.stage = "idle"
  BY <1>1 DEF Resting, Job
<1>. QED
  BY <1>1, <1>2, <1>3

LEMMA IdleSuits ==
  ASSUME Assumption, NEW asked, asked.op = "idle"
  PROVE  Suits(asked)
  BY DEF Suits

(* A memory that has just been written with its first version is told.     *)
LEMMA ToldFirst ==
  ASSUME NEW m \in Memory, NEW text \in Content, memories[m] = Fresh(text),
         versions[m] = << [reason |-> "created", content |-> text] >>
  PROVE  Told(m)
<1>1. /\ memories[m].status = "active" /\ memories[m].content = text
      /\ versions[m] # << >> /\ DOMAIN versions[m] = {1}
      /\ versions[m][1].reason = "created" /\ versions[m][1].content = text
  BY DEF Fresh
<1>2. Authored(m) = {1}
  BY <1>1 DEF Authored
<1>. QED
  BY <1>1, <1>2 DEF Told

LEMMA InvInit == Assumption /\ Init => Inv
<1>. SUFFICES ASSUME Assumption, Init PROVE Inv
  OBVIOUS
<1>1. /\ \A m \in DOMAIN Stored : m \in Memory /\ Stored[m] \in Content
      /\ DOMAIN Stored \subseteq Memory
  BY DEF Assumption
<1>2. ASSUME NEW m \in Memory, m \in DOMAIN Stored
      PROVE  /\ memories[m] = Fresh(Stored[m]) /\ vectors[m] = Stored[m]
             /\ versions[m] = << [reason |-> "created", content |-> Stored[m]] >>
  BY <1>2 DEF Init
<1>3. ASSUME NEW m \in Memory, m \notin DOMAIN Stored
      PROVE  memories[m] = NoRow /\ vectors[m] = NoContent /\ versions[m] = << >>
  BY <1>3 DEF Init
<1>4. TypeOK
  <2>1. memories \in [Memory -> Row]
    <3>1. NoRow \in Row /\ \A c \in Content : Fresh(c) \in Row
      BY DEF NoRow, Row, Fresh, Status
    <3>. QED
      BY <1>1, <3>1 DEF Init
  <2>2. versions \in [Memory -> Seq(Version)]
    <3>1. << >> \in Seq(Version)
      OBVIOUS
    <3>2. ASSUME NEW c \in Content
          PROVE  << [reason |-> "created", content |-> c] >> \in Seq(Version)
      <4>1. [reason |-> "created", content |-> c] \in Version
        BY DEF Version
      <4>. QED
        BY <4>1
    <3>3. \A m \in Memory : versions[m] \in Seq(Version)
      BY <1>1, <1>2, <1>3, <3>1, <3>2
    <3>. QED
      BY <3>3 DEF Init
  <2>3. vectors \in [Memory -> Text]
    BY <1>1 DEF Init, Text
  <2>4. request \in [Request -> Asked] /\ worker \in Job /\ jobs \in Seq(Memory)
    BY Rests DEF Init
  <2>5. excuse \in [Memory -> Excuse]
        /\ commits \in 0..MaxCommits
    BY DEF Init, Assumption, Excuse
  <2>. QED
    BY <2>1, <2>2, <2>3, <2>4, <2>5, TypesBack
<1>5. ASSUME NEW r \in Request PROVE Suits(request[r])
  <2>1. request[r].op = "idle"
    BY Rests DEF Init
  <2>. QED
    BY <2>1, IdleSuits
<1>6. ASSUME NEW m \in Memory PROVE Told(m)
  <2>1. CASE m \in DOMAIN Stored
    <3>1. PICK text \in Content : text = Stored[m]
      BY <1>1, <2>1
    <3>. QED
      BY <1>2, <2>1, <3>1, ToldFirst
  <2>2. CASE m \notin DOMAIN Stored
    BY <1>3, <2>2 DEF Told, NoRow
  <2>. QED
    BY <2>1, <2>2
<1>7. ASSUME NEW m \in Memory PROVE Tended(m)
  <2>1. CASE m \in DOMAIN Stored
    <3>1. PICK text \in Content : text = Stored[m]
      BY <1>1, <2>1
    <3>2. memories[m] = Fresh(text) /\ vectors[m] = text
      BY <1>2, <2>1, <3>1
    <3>3. memories[m].content = text
      BY <3>2 DEF Fresh
    <3>. QED
      BY <3>2, <3>3 DEF Tended, Stale
  <2>2. CASE m \notin DOMAIN Stored
    BY <1>3, <2>2 DEF Tended, Stale, Found, NoRow
  <2>. QED
    BY <2>1, <2>2
<1>8. Writing
  BY Rests DEF Init, Writing
<1>. QED
  BY <1>4, <1>5, <1>6, <1>7, <1>8 DEF Inv

-----------------------------------------------------------------------------
(* Histories only grow.                                                    *)
LEMMA Grown ==
  ASSUME TypeOK, NEW m \in Memory, NEW v \in Version,
         versions'[m] = Append(versions[m], v)
  PROVE  /\ versions'[m] # << >>
         /\ \E n \in Nat \ {0} :
              /\ DOMAIN versions[m] = 1..(n - 1) /\ DOMAIN versions'[m] = 1..n
              /\ \A k \in DOMAIN versions[m] : k \in DOMAIN versions'[m]
                                              /\ versions'[m][k] = versions[m][k]
              /\ versions'[m][n] = v
<1>1. versions[m] \in Seq(Version)
  BY Types
<1>2. PICK len \in Nat : len = Len(versions[m])
  BY <1>1
<1>3. /\ DOMAIN versions[m] = 1..len /\ DOMAIN versions'[m] = 1..(len + 1)
      /\ \A k \in DOMAIN versions[m] : k \in DOMAIN versions'[m]
                                      /\ versions'[m][k] = versions[m][k]
      /\ versions'[m][len + 1] = v /\ versions'[m] # << >>
  BY <1>1, <1>2
<1>4. len + 1 \in Nat \ {0} /\ len = (len + 1) - 1
  OBVIOUS
<1>. QED
  BY <1>3, <1>4

Grow == \A n \in Memory : /\ versions[n] # << >> => versions'[n] # << >>
                          /\ \A k \in DOMAIN versions[n] :
                               k \in DOMAIN versions'[n] /\ versions'[n][k] = versions[n][k]

LEMMA KeptOnRecord ==
  ASSUME TypeOK, Grow, NEW m \in Memory
  PROVE  /\ Archived(m) => Archived(m)'
         /\ Elaborated(m) => Elaborated(m)'
<1>1. Archived(m) => Archived(m)'
  BY DEF Archived, Grow
<1>2. ASSUME Elaborated(m) PROVE Elaborated(m)'
  <2>1. PICK k \in DOMAIN versions[m], n \in Memory :
          /\ versions[m][k].reason = "archived" /\ versions[n] # << >>
          /\ <<versions[n][1].content, versions[m][k].content>> \in Elaborates
    BY <1>2 DEF Elaborated
  <2>2. versions[n] \in Seq(Version)
    BY Types
  <2>3. 1 \in DOMAIN versions[n]
    BY <2>1, <2>2
  <2>4. /\ k \in DOMAIN versions'[m] /\ versions'[m][k] = versions[m][k]
        /\ versions'[n] # << >> /\ versions'[n][1] = versions[n][1]
    BY <2>1, <2>3 DEF Grow
  <2>. QED
    BY <2>1, <2>4 DEF Elaborated
<1>. QED
  BY <1>1, <1>2

(* A memory whose row and history no step touches.                         *)
LEMMA ToldKept ==
  ASSUME TypeOK, Grow, NEW m \in Memory, Told(m),
         memories'[m].status = memories[m].status,
         memories'[m].content = memories[m].content, versions'[m] = versions[m]
  PROVE  Told(m)'
<1>1. (Archived(m) => Archived(m)') /\ (Elaborated(m) => Elaborated(m)')
  BY KeptOnRecord
<1>2. Authored(m)' = Authored(m)
  BY DEF Authored
<1>. QED
  BY <1>1, <1>2 DEF Told

(* An edit: the last version says what the row says.                       *)
LEMMA ToldEdited ==
  ASSUME TypeOK, Grow, NEW m \in Memory, Told(m), NEW text \in Content,
         memories[m].status # "none",
         memories'[m].status = memories[m].status, memories'[m].content = text,
         versions'[m] = Append(versions[m], [reason |-> "edited", content |-> text])
  PROVE  Told(m)'
<1>. DEFINE v == [reason |-> "edited", content |-> text]
<1>1. v \in Version /\ v.reason = "edited" /\ v.content = text
  BY DEF Version
<1>2. versions[m] # << >> /\ versions[m] \in Seq(Version)
  BY Types DEF Told
<1>a. versions'[m] = Append(versions[m], v)
  OBVIOUS
<1>. HIDE DEF v
<1>3. PICK n \in Nat \ {0} :
        /\ DOMAIN versions[m] = 1..(n - 1) /\ DOMAIN versions'[m] = 1..n
        /\ versions'[m][n] = v /\ versions'[m] # << >>
        /\ \A k \in DOMAIN versions[m] : versions'[m][k] = versions[m][k]
  BY <1>1, <1>a, Grown
<1>4. 1 \in DOMAIN versions[m]
  BY <1>2
<1>5. n \in Authored(m)' /\ \A j \in Authored(m)' : j <= n
  BY <1>1, <1>3 DEF Authored
<1>6. (Archived(m) => Archived(m)') /\ (Elaborated(m) => Elaborated(m)')
  BY KeptOnRecord
<1>7. versions'[m][1].reason = "created"
  BY <1>2, <1>3, <1>4 DEF Told
<1>8. versions'[m][n].content = memories'[m].content
  BY <1>1, <1>3
<1>. QED
  BY <1>3, <1>5, <1>6, <1>7, <1>8 DEF Told

(* An archive, of the user or of a consolidation.                          *)
LEMMA ToldArchived ==
  ASSUME TypeOK, Grow, NEW m \in Memory, Told(m), NEW text \in Content,
         memories[m].status # "none",
         memories'[m].status \in {"archived", "superseded"},
         memories'[m].content = memories[m].content,
         memories'[m].status = "superseded" => Elaborated(m)',
         versions'[m] = Append(versions[m], [reason |-> "archived", content |-> text])
  PROVE  Told(m)'
<1>. DEFINE v == [reason |-> "archived", content |-> text]
<1>1. v \in Version /\ v.reason = "archived"
  BY DEF Version
<1>2. versions[m] # << >> /\ versions[m] \in Seq(Version)
  BY Types DEF Told
<1>a. versions'[m] = Append(versions[m], v)
  OBVIOUS
<1>. HIDE DEF v
<1>3. PICK n \in Nat \ {0} :
        /\ DOMAIN versions[m] = 1..(n - 1) /\ DOMAIN versions'[m] = 1..n
        /\ versions'[m][n] = v /\ versions'[m] # << >>
        /\ \A k \in DOMAIN versions[m] : versions'[m][k] = versions[m][k]
  BY <1>1, <1>a, Grown
<1>4. 1 \in DOMAIN versions[m]
  BY <1>2
<1>5. Authored(m)' = Authored(m)
  <2>1. ASSUME NEW k \in DOMAIN versions'[m], k # n
        PROVE  k \in DOMAIN versions[m] /\ versions'[m][k] = versions[m][k]
    BY <1>3, <2>1
  <2>2. \A k \in DOMAIN versions[m] : k \in DOMAIN versions'[m] /\ k # n
    BY <1>3
  <2>. QED
    BY <1>1, <1>3, <2>1, <2>2 DEF Authored
<1>6. Archived(m)'
  BY <1>1, <1>3 DEF Archived
<1>7. versions'[m][1].reason = "created"
  BY <1>2, <1>3, <1>4 DEF Told
<1>8. \E k \in Authored(m)' : /\ \A j \in Authored(m)' : j <= k
                              /\ versions'[m][k].content = memories'[m].content
  <2>1. PICK k \in Authored(m) : /\ \A j \in Authored(m) : j <= k
                                 /\ versions[m][k].content = memories[m].content
    BY <1>2 DEF Told
  <2>2. versions'[m][k] = versions[m][k]
    BY <1>3, <2>1 DEF Authored
  <2>. QED
    BY <1>5, <2>1, <2>2
<1>9. memories[m].content \in Content
  BY <1>2 DEF Told
<1>. QED
  BY <1>3, <1>6, <1>7, <1>8, <1>9 DEF Told

-----------------------------------------------------------------------------
(* What a step leaves as it was.                                           *)
Queueings == {q \in Request : request[q].op = "queueing"}

LEMMA TendedKept ==
  ASSUME NEW m \in Memory, Tended(m), memories'[m].content = memories[m].content,
         Found(m)' => Found(m), UNCHANGED <<vectors, jobs, worker, excuse>>,
         \A q \in Queueings : request'[q] = request[q]
  PROVE  Tended(m)'
<1>1. Stale(m)' => Stale(m)
  BY DEF Stale
<1>2. Seen(m) => Seen(m)'
  BY DEF Seen, Queueings
<1>. QED
  BY <1>1, <1>2 DEF Tended

LEMMA WritingKept ==
  ASSUME Writing, memories'[worker.id].content = memories[worker.id].content,
         UNCHANGED <<jobs, worker>>, \A q \in Queueings : request'[q] = request[q],
         excuse[worker.id] # "none" => excuse'[worker.id] # "none"
  PROVE  Writing'
<1>1. Queued(worker.id) => Queued(worker.id)'
  BY DEF Queued, Queueings
<1>. QED
  BY <1>1 DEF Writing

LEMMA Asking ==
  ASSUME TypeOK, NEW r \in Request, NEW new \in Asked,
         request' = [request EXCEPT ![r] = new], request[r].op # "queueing"
  PROVE  /\ request' \in [Request -> Asked] /\ request'[r] = new
         /\ \A q \in Request : q # r => request'[q] = request[q]
         /\ \A q \in Queueings : request'[q] = request[q]
<1>1. request \in [Request -> Asked]
  BY Types
<1>. QED
  BY <1>1 DEF Queueings

(* All requests suit their rows if the one that changed does and no row    *)
(* ceases to exist.                                                        *)
LEMMA AllSuit ==
  ASSUME TypeOK, \A q \in Request : Suits(request[q]), NEW r \in Request,
         \A m \in Memory : memories[m].status # "none" => memories'[m].status # "none",
         \A q \in Request : q # r => request'[q] = request[q],
         NEW new \in Asked, request'[r] = new,
         \/ new.op = "idle"
         \/ new.op = "queueing" /\ memories'[new.id].status # "none"
  PROVE  \A q \in Request : Suits(request[q])'
<1>1. ASSUME NEW q \in Request PROVE Suits(request[q])'
  <2>1. CASE q = r
    BY <2>1 DEF Suits
  <2>2. CASE q # r
    <3>1. request'[q] = request[q] /\ request[q].id \in Memory
      BY <2>2, Types DEF Asked
    <3>. QED
      BY <3>1 DEF Suits
  <2>. QED
    BY <2>1, <2>2
<1>. QED
  BY <1>1

-----------------------------------------------------------------------------
(* A request that only reads, or fails.                                    *)
LEMMA InvAsks ==
  ASSUME Assumption, Inv, NEW r \in Request, NEW new \in Asked,
         request' = [request EXCEPT ![r] = new], request[r].op # "queueing",
         Suits(new),
         UNCHANGED <<memories, versions, vectors, jobs, worker, excuse, commits>>
  PROVE  Inv'
<1>g. /\ TypeOK /\ Writing
      /\ (\A q \in Request : Suits(request[q]))
      /\ (\A m \in Memory : Told(m)) /\ (\A m \in Memory : Tended(m))
  BY DEF Inv
<1>1. /\ request' \in [Request -> Asked] /\ request'[r] = new
      /\ \A q \in Request : q # r => request'[q] = request[q]
      /\ \A q \in Queueings : request'[q] = request[q]
  BY <1>g, Asking
<1>2. TypeOK'
  BY <1>g, <1>1, Types, TypesBack DEF TypeOK, Text, Asked, Job
<1>3. \A q \in Request : Suits(request[q])'
  <2>1. ASSUME NEW q \in Request PROVE Suits(request[q])'
    BY <1>g, <1>1 DEF Suits
  <2>. QED
    BY <2>1
<1>4. \A m \in Memory : Told(m)'
  BY <1>g DEF Told, Archived, Elaborated, Authored
<1>5. ASSUME NEW m \in Memory PROVE Tended(m)'
  <2>1. Found(m)' => Found(m)
    BY DEF Found
  <2>. QED
    BY <1>g, <1>1, <2>1, TendedKept
<1>6. Writing'
  BY <1>g, <1>1, WritingKept
<1>. QED
  BY <1>2, <1>3, <1>4, <1>5, <1>6 DEF Inv

LEMMA InvLoaded ==
  ASSUME Assumption, Inv, NEW r \in Request, NEW m \in Memory,
         NEW seen \in Text, NEW text \in Text,
         NEW op \in {"edit", "archive", "restore", "delete", "refresh", "duplicate",
                     "plain", "supersede"},
         Loaded(r, op, m, seen, text),
         op # "plain" => memories[m].status # "none",
         op \in {"archive", "supersede"} => seen \in Content,
         op \in {"plain", "supersede"} => text \in Content,
         op = "supersede" => <<text, seen>> \in Elaborates
  PROVE  Inv'
<1>. DEFINE new == [op |-> op, id |-> m, seen |-> seen, text |-> text]
<1>1. new \in Asked /\ Suits(new)
  BY DEF Asked, Suits
<1>2. /\ request' = [request EXCEPT ![r] = new] /\ request[r].op # "queueing"
      /\ UNCHANGED <<memories, versions, vectors, jobs, worker, excuse, commits>>
  BY DEF Loaded
<1>. HIDE DEF new
<1>. QED
  BY <1>1, <1>2, InvAsks

LEMMA ExistingHasContent ==
  ASSUME Inv, NEW m \in Memory
  PROVE  memories[m].content \in Text
         /\ (memories[m].status # "none" => memories[m].content \in Content)
<1>1. Told(m) /\ memories \in [Memory -> Row]
  BY Types DEF Inv
<1>2. memories[m].content \in Text
  BY <1>1 DEF Row, Text
<1>. QED
  BY <1>1, <1>2 DEF Told

LEMMA InvLoads ==
  ASSUME Assumption, Inv, NEW r \in Request, Load(r)
  PROVE  Inv'
<1>0. NoContent \in Text /\ Content \subseteq Text /\ Text = Content \cup {NoContent}
  BY DEF Text
<1>1. ASSUME NEW m \in Memory, NEW text \in Content \cup {NoContent}, LoadToEdit(r, m, text)
      PROVE  Inv'
  <2>1. PICK new \in Text : new = IF text = memories[m].content THEN NoContent ELSE text
    BY <1>0
  <2>2. Loaded(r, "edit", m, NoContent, new) /\ memories[m].status # "none"
    BY <1>1, <2>1 DEF LoadToEdit, Found
  <2>. QED
    BY <1>0, <2>2, InvLoaded
<1>2. ASSUME NEW m \in Memory, LoadToArchive(r, m) PROVE Inv'
  <2>1. memories[m].status # "none"
    BY <1>2 DEF LoadToArchive, Found
  <2>2. PICK seen \in Content : seen = memories[m].content
    BY <2>1, ExistingHasContent
  <2>3. Loaded(r, "archive", m, seen, NoContent)
    BY <1>2, <2>2 DEF LoadToArchive, Loaded
  <2>. QED
    BY <1>0, <2>1, <2>3, InvLoaded
<1>3. ASSUME NEW m \in Memory, LoadToRestore(r, m) PROVE Inv'
  <2>1. Loaded(r, "restore", m, NoContent, NoContent) /\ memories[m].status # "none"
    BY <1>3 DEF LoadToRestore, Found
  <2>. QED
    BY <1>0, <2>1, InvLoaded
<1>4. ASSUME NEW m \in Memory, LoadToDelete(r, m) PROVE Inv'
  <2>1. Loaded(r, "delete", m, NoContent, NoContent) /\ memories[m].status # "none"
    BY <1>4 DEF LoadToDelete, Found
  <2>. QED
    BY <1>0, <2>1, InvLoaded
<1>5. ASSUME NEW m \in Memory, LoadToRefresh(r, m) PROVE Inv'
  <2>1. memories[m].status # "none"
    BY <1>5 DEF LoadToRefresh, Found
  <2>2. PICK seen \in Text : seen = memories[m].content
    BY ExistingHasContent
  <2>3. PICK old \in Text : old = vectors[m]
    <3>1. vectors \in [Memory -> Text]
      BY Types DEF Inv
    <3>. QED
      BY <3>1
  <2>4. Loaded(r, "refresh", m, seen, old)
    BY <1>5, <2>2, <2>3 DEF LoadToRefresh, Loaded
  <2>. QED
    BY <2>1, <2>4, InvLoaded
<1>6. ASSUME NEW text \in Content, LoadToCreate(r, text) PROVE Inv'
  <2>1. ASSUME NEW m \in Memory, Active(m), Loaded(r, "duplicate", m, NoContent, NoContent)
        PROVE  Inv'
    <3>1. memories[m].status # "none"
      BY <2>1 DEF Active, Found
    <3>. QED
      BY <1>0, <2>1, <3>1, InvLoaded
  <2>2. ASSUME NEW m \in Memory, Active(m), <<text, memories[m].content>> \in Elaborates,
               Loaded(r, "supersede", m, memories[m].content, text)
        PROVE  Inv'
    <3>1. memories[m].status # "none"
      BY <2>2 DEF Active, Found
    <3>2. PICK seen \in Content : seen = memories[m].content
      BY <3>1, ExistingHasContent
    <3>3. Loaded(r, "supersede", m, seen, text) /\ <<text, seen>> \in Elaborates
      BY <2>2, <3>2 DEF Loaded
    <3>4. seen \in Text /\ text \in Text
      BY <1>0
    <3>. QED
      BY <3>1, <3>3, <3>4, InvLoaded
  <2>3. ASSUME Loaded(r, "plain", Nothing, NoContent, text) PROVE Inv'
    <3>1. Nothing \in Memory /\ text \in Text
      BY <1>0, Rests
    <3>. QED
      BY <1>0, <2>3, <3>1, InvLoaded
  <2>. QED
    BY <1>6, <2>1, <2>2, <2>3 DEF LoadToCreate, Exact, Similar
<1>. QED
  BY <1>1, <1>2, <1>3, <1>4, <1>5, <1>6 DEF Load

LEMMA InvRequestFails ==
  ASSUME Assumption, Inv, NEW r \in Request, RequestFails(r)
  PROVE  Inv'
<1>1. Idle \in Asked /\ Suits(Idle)
  BY Rests, IdleSuits
<1>2. /\ request' = [request EXCEPT ![r] = Idle] /\ request[r].op # "queueing"
      /\ UNCHANGED <<memories, versions, vectors, jobs, worker, excuse, commits>>
  BY DEF RequestFails
<1>. QED
  BY <1>1, <1>2, InvAsks

-----------------------------------------------------------------------------
(* Commits: a row is written, a version appended.                          *)
LEMMA Written ==
  ASSUME TypeOK, NEW m \in Memory, NEW row \in Row, memories' = [memories EXCEPT ![m] = row]
  PROVE  /\ memories' \in [Memory -> Row] /\ memories'[m] = row
         /\ \A n \in Memory : n # m => memories'[n] = memories[n]
  BY Types

LEMMA Snapped ==
  ASSUME TypeOK, NEW m \in Memory, NEW v \in Version,
         versions' = [versions EXCEPT ![m] = Append(@, v)]
  PROVE  /\ versions' \in [Memory -> Seq(Version)]
         /\ versions'[m] = Append(versions[m], v)
         /\ \A n \in Memory : n # m => versions'[n] = versions[n]
         /\ Grow
<1>1. versions \in [Memory -> Seq(Version)]
  BY Types
<1>2. versions'[m] = Append(versions[m], v)
  BY <1>1
<1>3. \A n \in Memory : n # m => versions'[n] = versions[n]
  BY <1>1
<1>4. versions' \in [Memory -> Seq(Version)]
  <2>1. Append(versions[m], v) \in Seq(Version)
    BY <1>1
  <2>. QED
    BY <1>1, <2>1
<1>5. ASSUME NEW n \in Memory
      PROVE  /\ versions[n] # << >> => versions'[n] # << >>
             /\ \A k \in DOMAIN versions[n] :
                  k \in DOMAIN versions'[n] /\ versions'[n][k] = versions[n][k]
  <2>1. CASE n = m
    BY <1>2, <2>1, Grown
  <2>2. CASE n # m
    BY <1>3, <2>2
  <2>. QED
    BY <2>1, <2>2
<1>6. Grow
  BY <1>5 DEF Grow
<1>. QED
  BY <1>2, <1>3, <1>4, <1>6

LEMMA QueueingAsks ==
  ASSUME Assumption, NEW m \in Memory
  PROVE  Queueing(m) \in Asked /\ Queueing(m).op = "queueing" /\ Queueing(m).id = m
  BY Rests DEF Queueing, Asked

(* A commit after which the request has nothing more to do, on a memory    *)
(* whose text it does not change.                                          *)
LEMMA InvSettles ==
  ASSUME Assumption, Inv, NEW r \in Request, commits < MaxCommits,
         request[r].op # "queueing",
         Committed(r, Idle), memories' \in [Memory -> Row],
         versions' \in [Memory -> Seq(Version)],
         \A m \in Memory : /\ memories'[m].content = memories[m].content
                           /\ memories[m].status # "none" => memories'[m].status # "none"
                           /\ memories'[m].status # "none" => memories[m].status # "none"
                           /\ memories[m].deleted => memories'[m].deleted,
         \A m \in Memory : Told(m)'
  PROVE  Inv'
<1>g. /\ TypeOK /\ Writing
      /\ (\A q \in Request : Suits(request[q]))
      /\ (\A m \in Memory : Tended(m))
  BY DEF Inv
<1>0. /\ request' = [request EXCEPT ![r] = Idle] /\ commits' = commits + 1
      /\ UNCHANGED <<vectors, jobs, worker, excuse>>
  BY DEF Committed
<1>1. /\ request' \in [Request -> Asked] /\ request'[r] = Idle
      /\ \A q \in Request : q # r => request'[q] = request[q]
      /\ \A q \in Queueings : request'[q] = request[q]
      /\ Idle \in Asked /\ Idle.op = "idle"
  BY <1>g, <1>0, Rests, Asking
<1>2. TypeOK'
  <2>1. commits' \in 0..MaxCommits
    <3>1. commits \in 0..MaxCommits /\ MaxCommits \in Nat
      BY <1>g, Types DEF Assumption
    <3>. QED
      BY <1>0, <3>1
  <2>. QED
    BY <1>g, <1>0, <1>1, <2>1, Types, TypesBack DEF TypeOK, Text, Asked, Job
<1>3. \A q \in Request : Suits(request[q])'
  <2>1. \A m \in Memory : memories[m].status # "none" => memories'[m].status # "none"
    OBVIOUS
  <2>. QED
    BY <1>g, <1>1, <2>1, AllSuit
<1>4. ASSUME NEW m \in Memory PROVE Tended(m)'
  <2>1. Found(m)' => Found(m)
    BY DEF Found
  <2>. QED
    BY <1>g, <1>0, <1>1, <2>1, TendedKept
<1>5. Writing'
  <2>1. worker.id \in Memory
    BY <1>g, Types DEF Job
  <2>. QED
    BY <1>g, <1>0, <1>1, <2>1, WritingKept
<1>. QED
  BY <1>2, <1>3, <1>4, <1>5 DEF Inv

LEMMA InvCommitArchive ==
  ASSUME Assumption, Inv, NEW r \in Request, CommitArchive(r)
  PROVE  Inv'
<1>g. TypeOK /\ (\A q \in Request : Suits(request[q])) /\ (\A m \in Memory : Told(m))
  BY DEF Inv
<1>0. PICK m \in Memory, text \in Content : m = request[r].id /\ text = request[r].seen
  BY <1>g, Types DEF CommitArchive, Suits, Asked
<1>1. /\ request[r].op = "archive" /\ commits < MaxCommits /\ Committed(r, Idle)
      /\ memories[m].status # "none" /\ memories[m] \in Row
  BY <1>g, <1>0, Types DEF CommitArchive, Suits
<1>. DEFINE row == [memories[m] EXCEPT !.status = "archived"]
            v == [reason |-> "archived", content |-> text]
<1>2. /\ row \in Row /\ row.status = "archived" /\ row.content = memories[m].content
      /\ row.deleted = memories[m].deleted
  BY <1>1 DEF Row, Status
<1>3. memories' = [memories EXCEPT ![m] = row]
  BY <1>0, <1>g, Types DEF CommitArchive
<1>4. v \in Version /\ versions' = [versions EXCEPT ![m] = Append(@, v)]
  BY <1>0 DEF CommitArchive, Snapshot, Version
<1>5. versions'[m] = Append(versions[m], [reason |-> "archived", content |-> text])
  BY <1>g, <1>4, Snapped
<1>. HIDE DEF row, v
<1>6. /\ memories' \in [Memory -> Row] /\ memories'[m] = row
      /\ \A n \in Memory : n # m => memories'[n] = memories[n]
  BY <1>g, <1>2, <1>3, Written
<1>7. /\ versions' \in [Memory -> Seq(Version)] /\ Grow
      /\ \A n \in Memory : n # m => versions'[n] = versions[n]
  BY <1>g, <1>4, Snapped
<1>8. ASSUME NEW n \in Memory PROVE Told(n)'
  <2>1. CASE n = m
    <3>1. /\ memories'[m].status \in {"archived", "superseded"}
          /\ memories'[m].content = memories[m].content
          /\ memories'[m].status # "superseded"
      BY <1>2, <1>6
    <3>. QED
      BY <1>g, <1>1, <1>5, <1>7, <2>1, <3>1, ToldArchived
  <2>2. CASE n # m
    BY <1>g, <1>6, <1>7, <2>2, ToldKept
  <2>. QED
    BY <2>1, <2>2
<1>9. \A n \in Memory : /\ memories'[n].content = memories[n].content
                        /\ memories[n].status # "none" => memories'[n].status # "none"
                        /\ memories'[n].status # "none" => memories[n].status # "none"
                        /\ memories[n].deleted => memories'[n].deleted
  BY <1>1, <1>2, <1>6
<1>. QED
  BY <1>1, <1>6, <1>7, <1>8, <1>9, InvSettles

LEMMA InvCommitMarks ==
  ASSUME Assumption, Inv, NEW r \in Request,
         CommitRestore(r) \/ CommitDelete(r) \/ CommitDuplicate(r)
  PROVE  Inv'
<1>g. TypeOK /\ (\A q \in Request : Suits(request[q])) /\ (\A m \in Memory : Told(m))
  BY DEF Inv
<1>0. PICK m \in Memory : m = request[r].id
  BY <1>g, Types DEF Asked
<1>1. /\ request[r].op \in {"restore", "delete", "duplicate"} /\ commits < MaxCommits
      /\ Committed(r, Idle) /\ versions' = versions
      /\ memories[m].status # "none" /\ memories[m] \in Row
      /\ memories \in [Memory -> Row] /\ versions \in [Memory -> Seq(Version)]
  BY <1>g, <1>0, Types DEF CommitRestore, CommitDelete, CommitDuplicate, Suits
<1>2. PICK row \in Row :
        /\ row.content = memories[m].content /\ row.status \in {"active", memories[m].status}
        /\ memories[m].deleted => row.deleted
        /\ memories' = [memories EXCEPT ![m] = row]
  <2>1. CASE CommitRestore(r)
    <3>. DEFINE row == [memories[m] EXCEPT !.status = "active"]
    <3>1. /\ row \in Row /\ row.content = memories[m].content /\ row.status = "active"
          /\ row.deleted = memories[m].deleted
      BY <1>1 DEF Row, Status
    <3>2. memories' = [memories EXCEPT ![m] = row]
      BY <1>0, <1>1, <2>1 DEF CommitRestore
    <3>. HIDE DEF row
    <3>. QED
      BY <3>1, <3>2
  <2>2. CASE CommitDelete(r)
    <3>. DEFINE row == [memories[m] EXCEPT !.deleted = TRUE]
    <3>1. /\ row \in Row /\ row.content = memories[m].content
          /\ row.status = memories[m].status /\ row.deleted
      BY <1>1 DEF Row, Status
    <3>2. memories' = [memories EXCEPT ![m] = row]
      BY <1>0, <1>1, <2>2 DEF CommitDelete
    <3>. HIDE DEF row
    <3>. QED
      BY <3>1, <3>2
  <2>3. CASE CommitDuplicate(r)
    <3>1. memories' = [memories EXCEPT ![m] = memories[m]]
      BY <1>1, <2>3 DEF CommitDuplicate
    <3>. QED
      BY <1>1, <3>1
  <2>. QED
    BY <2>1, <2>2, <2>3
<1>3. /\ memories' \in [Memory -> Row] /\ memories'[m] = row
      /\ \A n \in Memory : n # m => memories'[n] = memories[n]
  BY <1>g, <1>2, Written
<1>4. Grow
  BY <1>1 DEF Grow
<1>5. ASSUME NEW n \in Memory PROVE Told(n)'
  <2>1. CASE memories'[n].status = memories[n].status
    <3>1. memories'[n].content = memories[n].content
      BY <1>2, <1>3
    <3>. QED
      BY <1>g, <1>1, <1>4, <2>1, <3>1, ToldKept
  <2>2. CASE memories'[n].status # memories[n].status
    <3>1. n = m /\ memories'[n].status = "active"
          /\ memories'[n].content = memories[n].content
      BY <1>2, <1>3, <2>2
    <3>2. Told(n) /\ Authored(n)' = Authored(n)
      BY <1>g, <1>1 DEF Authored
    <3>. QED
      BY <1>1, <3>1, <3>2 DEF Told
  <2>. QED
    BY <2>1, <2>2
<1>6. \A n \in Memory : /\ memories'[n].content = memories[n].content
                        /\ memories[n].status # "none" => memories'[n].status # "none"
                        /\ memories'[n].status # "none" => memories[n].status # "none"
                        /\ memories[n].deleted => memories'[n].deleted
  BY <1>1, <1>2, <1>3
<1>7. request[r].op # "queueing" /\ versions' \in [Memory -> Seq(Version)]
  BY <1>1
<1>. QED
  BY <1>1, <1>3, <1>5, <1>6, <1>7, InvSettles

-----------------------------------------------------------------------------
(* A commit that the worker is to hear of: a memory whose text it wrote.   *)
LEMMA InvQueues ==
  ASSUME Assumption, Inv, NEW r \in Request, NEW new \in Memory, commits < MaxCommits,
         request[r].op # "queueing",
         Committed(r, Queueing(new)), memories' \in [Memory -> Row],
         versions' \in [Memory -> Seq(Version)],
         memories'[new].status # "none",
         \A m \in Memory : memories[m].status # "none" => memories'[m].status # "none",
         \A m \in Memory \ {new} :
           /\ memories'[m].content = memories[m].content
           /\ memories'[m].status # "none" => memories[m].status # "none"
           /\ memories[m].deleted => memories'[m].deleted,
         \A m \in Memory : Told(m)'
  PROVE  Inv'
<1>g. /\ TypeOK /\ Writing
      /\ (\A q \in Request : Suits(request[q]))
      /\ (\A m \in Memory : Tended(m))
  BY DEF Inv
<1>. DEFINE next == Queueing(new)
<1>0. /\ request' = [request EXCEPT ![r] = next] /\ commits' = commits + 1
      /\ UNCHANGED <<vectors, jobs, worker, excuse>>
  BY DEF Committed
<1>a. next \in Asked /\ next.op = "queueing" /\ next.id = new
  BY QueueingAsks
<1>. HIDE DEF next
<1>1. /\ request' \in [Request -> Asked] /\ request'[r] = next
      /\ \A q \in Request : q # r => request'[q] = request[q]
      /\ \A q \in Queueings : request'[q] = request[q]
  BY <1>g, <1>0, <1>a, Asking
<1>2. TypeOK'
  <2>1. commits' \in 0..MaxCommits
    <3>1. commits \in 0..MaxCommits /\ MaxCommits \in Nat
      BY <1>g, Types DEF Assumption
    <3>. QED
      BY <1>0, <3>1
  <2>. QED
    BY <1>g, <1>0, <1>1, <2>1, Types, TypesBack DEF TypeOK, Text, Asked, Job
<1>3. \A q \in Request : Suits(request[q])'
  BY <1>g, <1>1, <1>a, AllSuit
<1>4. ASSUME NEW m \in Memory PROVE Tended(m)'
  <2>1. CASE m = new
    BY <1>1, <1>a, <2>1 DEF Tended, Seen
  <2>2. CASE m # new
    <3>1. m \in Memory \ {new}
      BY <2>2
    <3>2. Found(m)' => Found(m)
      BY <3>1 DEF Found
    <3>3. memories'[m].content = memories[m].content
      BY <3>1
    <3>. QED
      BY <1>g, <1>0, <1>1, <3>2, <3>3, TendedKept
  <2>. QED
    BY <2>1, <2>2
<1>5. Writing'
  <2>1. worker.id \in Memory
    BY <1>g, Types DEF Job
  <2>2. CASE worker.id = new
    BY <1>0, <1>1, <1>a, <2>2 DEF Writing, Queued
  <2>3. CASE worker.id # new
    <3>1. memories'[worker.id].content = memories[worker.id].content
      BY <2>1, <2>3
    <3>. QED
      BY <1>g, <1>0, <1>1, <3>1, WritingKept
  <2>. QED
    BY <2>2, <2>3
<1>. QED
  BY <1>2, <1>3, <1>4, <1>5 DEF Inv

LEMMA InvCommitEdit ==
  ASSUME Assumption, Inv, NEW r \in Request, CommitEdit(r)
  PROVE  Inv'
<1>g. TypeOK /\ (\A q \in Request : Suits(request[q])) /\ (\A m \in Memory : Told(m))
  BY DEF Inv
<1>0. PICK m \in Memory, text \in Text : m = request[r].id /\ text = request[r].text
  BY <1>g, Types DEF Asked
<1>1. /\ request[r].op = "edit" /\ commits < MaxCommits /\ Committed(r, Queueing(m))
      /\ memories[m].status # "none" /\ memories[m] \in Row
      /\ memories \in [Memory -> Row] /\ versions \in [Memory -> Seq(Version)]
  BY <1>g, <1>0, Types DEF CommitEdit, Suits
<1>2. CASE text = NoContent
  <2>1. UNCHANGED <<memories, versions>>
    BY <1>0, <1>2 DEF CommitEdit
  <2>2. \A n \in Memory : Told(n)'
    BY <1>g, <2>1 DEF Told, Archived, Elaborated, Authored
  <2>. QED
    BY <1>1, <2>1, <2>2, InvQueues
<1>3. CASE text # NoContent
  <2>. DEFINE row == [memories[m] EXCEPT !.content = text]
              v == [reason |-> "edited", content |-> text]
  <2>1. text \in Content
    BY <1>3 DEF Text
  <2>2. /\ row \in Row /\ row.status = memories[m].status /\ row.content = text
        /\ row.deleted = memories[m].deleted
    BY <1>1, <2>1 DEF Row, Status
  <2>3. memories' = [memories EXCEPT ![m] = row]
    BY <1>0, <1>1, <1>3 DEF CommitEdit
  <2>4. v \in Version /\ versions' = [versions EXCEPT ![m] = Append(@, v)]
    BY <1>0, <1>3, <2>1 DEF CommitEdit, Snapshot, Version
  <2>5. versions'[m] = Append(versions[m], [reason |-> "edited", content |-> text])
    BY <1>g, <2>4, Snapped
  <2>. HIDE DEF row, v
  <2>6. /\ memories' \in [Memory -> Row] /\ memories'[m] = row
        /\ \A n \in Memory : n # m => memories'[n] = memories[n]
    BY <1>g, <2>2, <2>3, Written
  <2>7. /\ versions' \in [Memory -> Seq(Version)] /\ Grow
        /\ \A n \in Memory : n # m => versions'[n] = versions[n]
    BY <1>g, <2>4, Snapped
  <2>8. ASSUME NEW n \in Memory PROVE Told(n)'
    <3>1. CASE n = m
      <4>1. memories'[m].status = memories[m].status /\ memories'[m].content = text
        BY <2>2, <2>6
      <4>. QED
        BY <1>g, <1>1, <2>1, <2>5, <2>7, <3>1, <4>1, ToldEdited
    <3>2. CASE n # m
      BY <1>g, <2>6, <2>7, <3>2, ToldKept
    <3>. QED
      BY <3>1, <3>2
  <2>9. /\ memories'[m].status # "none" /\ request[r].op # "queueing"
        /\ \A n \in Memory : memories[n].status # "none" => memories'[n].status # "none"
        /\ \A n \in Memory \ {m} :
             /\ memories'[n].content = memories[n].content
             /\ memories'[n].status # "none" => memories[n].status # "none"
             /\ memories[n].deleted => memories'[n].deleted
    BY <1>1, <2>2, <2>6
  <2>. QED
    BY <1>1, <2>6, <2>7, <2>8, <2>9, InvQueues
<1>. QED
  BY <1>2, <1>3

-----------------------------------------------------------------------------
(* A new memory, alone or in the place of one that it elaborates.          *)
LEMMA FreshIsARow ==
  ASSUME NEW text \in Content
  PROVE  /\ Fresh(text) \in Row /\ Fresh(text).status = "active"
         /\ Fresh(text).content = text
  BY DEF Fresh, Row, Status

(* The empty history of a memory that is not there yet, and its first.     *)
LEMMA FirstVersion ==
  ASSUME TypeOK, NEW m \in Memory, Told(m), memories[m].status = "none",
         NEW text \in Content,
         versions'[m] = Append(versions[m], [reason |-> "created", content |-> text])
  PROVE  versions'[m] = << [reason |-> "created", content |-> text] >>
<1>. DEFINE v == [reason |-> "created", content |-> text]
<1>1. versions[m] = << >>
  BY DEF Told
<1>2. v \in Version
  BY DEF Version
<1>. HIDE DEF v
<1>3. Append(<< >>, v) = << v >>
  OBVIOUS
<1>. QED
  BY <1>1, <1>3 DEF v

LEMMA ToldAtFirst ==
  ASSUME NEW m \in Memory, NEW text \in Content, memories'[m] = Fresh(text),
         versions'[m] = << [reason |-> "created", content |-> text] >>
  PROVE  Told(m)'
<1>1. /\ memories'[m].status = "active" /\ memories'[m].content = text
      /\ versions'[m] # << >> /\ DOMAIN versions'[m] = {1}
      /\ versions'[m][1].reason = "created" /\ versions'[m][1].content = text
  BY FreshIsARow
<1>2. Authored(m)' = {1}
  BY <1>1 DEF Authored
<1>. QED
  BY <1>1, <1>2 DEF Told

LEMMA InvCommitPlain ==
  ASSUME Assumption, Inv, NEW r \in Request, CommitNew(r), request[r].op = "plain"
  PROVE  Inv'
<1>g. TypeOK /\ (\A q \in Request : Suits(request[q])) /\ (\A m \in Memory : Told(m))
  BY DEF Inv
<1>0. PICK new \in Memory : /\ new = CHOOSE m \in Memory : memories[m].status = "none"
                            /\ memories[new].status = "none"
  BY DEF CommitNew
<1>1. PICK text \in Content : text = request[r].text
  BY <1>g DEF Suits
<1>. DEFINE row == Fresh(text)  v == [reason |-> "created", content |-> text]
<1>2. /\ commits < MaxCommits /\ Committed(r, Queueing(new))
      /\ memories' = [memories EXCEPT ![new] = row]
      /\ versions' = [versions EXCEPT ![new] = Append(@, v)]
  BY <1>0, <1>1 DEF CommitNew, Snapshot
<1>3. v \in Version /\ row \in Row /\ row.status = "active"
  BY FreshIsARow DEF Version
<1>4. versions'[new] = Append(versions[new], [reason |-> "created", content |-> text])
  BY <1>g, <1>2, <1>3, Snapped
<1>5. versions'[new] = << [reason |-> "created", content |-> text] >>
  BY <1>g, <1>0, <1>4, FirstVersion
<1>6. /\ memories' \in [Memory -> Row] /\ memories'[new] = Fresh(text)
      /\ \A n \in Memory : n # new => memories'[n] = memories[n]
  BY <1>g, <1>2, <1>3, Written
<1>. HIDE DEF row, v
<1>7. /\ versions' \in [Memory -> Seq(Version)] /\ Grow
      /\ \A n \in Memory : n # new => versions'[n] = versions[n]
  BY <1>g, <1>2, <1>3, Snapped
<1>8. ASSUME NEW n \in Memory PROVE Told(n)'
  <2>1. CASE n = new
    <3>1. Told(new)'
      BY <1>5, <1>6, ToldAtFirst
    <3>. QED
      BY <2>1, <3>1
  <2>2. CASE n # new
    BY <1>g, <1>6, <1>7, <2>2, ToldKept
  <2>. QED
    BY <2>1, <2>2
<1>9. /\ memories'[new].status # "none" /\ request[r].op # "queueing"
      /\ \A n \in Memory : memories[n].status # "none" => memories'[n].status # "none"
      /\ \A n \in Memory \ {new} :
           /\ memories'[n].content = memories[n].content
           /\ memories'[n].status # "none" => memories[n].status # "none"
           /\ memories[n].deleted => memories'[n].deleted
  BY <1>6, FreshIsARow
<1>. QED
  BY <1>2, <1>6, <1>7, <1>8, <1>9, InvQueues

LEMMA InvCommitSupersede ==
  ASSUME Assumption, Inv, NEW r \in Request, CommitNew(r), request[r].op = "supersede"
  PROVE  Inv'
<1>g. TypeOK /\ (\A q \in Request : Suits(request[q])) /\ (\A m \in Memory : Told(m))
  BY DEF Inv
<1>0. PICK new \in Memory : /\ new = CHOOSE m \in Memory : memories[m].status = "none"
                            /\ memories[new].status = "none"
  BY DEF CommitNew
<1>1. PICK text \in Content, seen \in Content, old \in Memory :
        /\ text = request[r].text /\ seen = request[r].seen /\ old = request[r].id
        /\ <<text, seen>> \in Elaborates /\ memories[old].status # "none"
  <2>1. Suits(request[r]) /\ request[r] \in Asked
    BY <1>g, Types
  <2>2. request[r].id \in Memory
    BY <2>1 DEF Asked
  <2>. QED
    BY <2>1, <2>2 DEF Suits
<1>2. old # new /\ commits < MaxCommits /\ Committed(r, Queueing(new))
  BY <1>0, <1>1 DEF CommitNew
<1>3. /\ memories \in [Memory -> Row] /\ versions \in [Memory -> Seq(Version)]
      /\ memories[old] \in Row /\ versions[old] \in Seq(Version)
      /\ versions[new] \in Seq(Version)
  BY <1>g, Types
<1>. DEFINE row == [memories[old] EXCEPT !.status = "superseded"]
            a == [reason |-> "archived", content |-> seen]
            c == [reason |-> "created", content |-> text]
<1>4. /\ row \in Row /\ row.status = "superseded" /\ row.content = memories[old].content
      /\ row.deleted = memories[old].deleted
  BY <1>3 DEF Row, Status
<1>5. /\ memories' \in [Memory -> Row] /\ memories'[old] = row
      /\ memories'[new] = Fresh(text)
      /\ \A n \in Memory : n # old /\ n # new => memories'[n] = memories[n]
  <2>1. memories' = [memories EXCEPT ![old] = row, ![new] = Fresh(text)]
    BY <1>0, <1>1, <1>3 DEF CommitNew, Retired
  <2>. HIDE DEF row
  <2>. QED
    BY <1>2, <1>3, <1>4, <2>1, FreshIsARow
<1>6. a \in Version /\ c \in Version /\ a.reason = "archived" /\ a.content = seen
      /\ c.content = text
  BY DEF Version
<1>7. versions' = [versions EXCEPT ![old] = Append(@, a), ![new] = Append(@, c)]
  BY <1>0, <1>1 DEF CommitNew, Snapshot
<1>8. /\ versions'[old] = Append(versions[old], [reason |-> "archived", content |-> seen])
      /\ versions'[new] = Append(versions[new], [reason |-> "created", content |-> text])
      /\ \A n \in Memory : n # old /\ n # new => versions'[n] = versions[n]
  BY <1>2, <1>3, <1>7
<1>9. versions' \in [Memory -> Seq(Version)]
  <2>1. versions'[old] \in Seq(Version) /\ versions'[new] \in Seq(Version)
    BY <1>3, <1>6, <1>8
  <2>2. \A n \in Memory : versions'[n] \in Seq(Version)
    BY <1>3, <1>8, <2>1
  <2>3. versions' = [n \in Memory |-> versions'[n]]
    BY <1>3, <1>7
  <2>. QED
    BY <2>2, <2>3
<1>10. versions'[new] = << [reason |-> "created", content |-> text] >>
  BY <1>g, <1>0, <1>8, FirstVersion
<1>11. versions'[old] = Append(versions[old], a) /\ versions[new] = << >>
  BY <1>g, <1>0, <1>8 DEF Told
<1>. HIDE DEF row, a, c
<1>12. Grow
  <2>1. ASSUME NEW n \in Memory
        PROVE  /\ versions[n] # << >> => versions'[n] # << >>
               /\ \A k \in DOMAIN versions[n] :
                    k \in DOMAIN versions'[n] /\ versions'[n][k] = versions[n][k]
    <3>1. CASE n = old
      BY <1>g, <1>6, <1>11, <3>1, Grown
    <3>2. CASE n = new
      BY <1>11, <3>2
    <3>3. CASE n # old /\ n # new
      BY <1>8, <3>3
    <3>. QED
      BY <3>1, <3>2, <3>3
  <2>. QED
    BY <2>1 DEF Grow
<1>13. Elaborated(old)'
  <2>1. PICK k \in Nat \ {0} : k \in DOMAIN versions'[old] /\ versions'[old][k] = a
    BY <1>g, <1>6, <1>11, Grown
  <2>2. versions'[new] # << >> /\ versions'[new][1].content = text
    BY <1>10
  <2>3. versions'[old][k].reason = "archived" /\ versions'[old][k].content = seen
    BY <1>6, <2>1
  <2>. QED
    BY <1>1, <2>1, <2>2, <2>3 DEF Elaborated
<1>14. ASSUME NEW n \in Memory PROVE Told(n)'
  <2>1. CASE n = new
    <3>1. Told(new)'
      BY <1>5, <1>10, ToldAtFirst
    <3>. QED
      BY <2>1, <3>1
  <2>2. CASE n = old
    <3>1. /\ memories'[old].status \in {"archived", "superseded"}
          /\ memories'[old].content = memories[old].content
          /\ Told(old)
      BY <1>g, <1>4, <1>5
    <3>2. Told(old)'
      BY <1>g, <1>1, <1>8, <1>12, <1>13, <3>1, ToldArchived
    <3>. QED
      BY <2>2, <3>2
  <2>3. CASE n # new /\ n # old
    <3>1. memories'[n] = memories[n] /\ versions'[n] = versions[n]
      BY <1>5, <1>8, <2>3
    <3>. QED
      BY <1>g, <1>12, <3>1, ToldKept
  <2>. QED
    BY <2>1, <2>2, <2>3
<1>15. /\ memories'[new].status # "none" /\ request[r].op # "queueing"
       /\ \A n \in Memory : memories[n].status # "none" => memories'[n].status # "none"
       /\ \A n \in Memory \ {new} :
            /\ memories'[n].content = memories[n].content
            /\ memories'[n].status # "none" => memories[n].status # "none"
            /\ memories[n].deleted => memories'[n].deleted
  BY <1>1, <1>4, <1>5, FreshIsARow
<1>. QED
  BY <1>2, <1>5, <1>9, <1>14, <1>15, InvQueues

-----------------------------------------------------------------------------
(* The direct refresh, and what the worker is told and does.               *)
LEMMA InvCommitRefresh ==
  ASSUME Assumption, Inv, NEW r \in Request, CommitRefresh(r)
  PROVE  Inv'
<1>g. /\ TypeOK /\ Writing
      /\ (\A q \in Request : Suits(request[q]))
      /\ (\A m \in Memory : Told(m)) /\ (\A m \in Memory : Tended(m))
  BY DEF Inv
<1>0. PICK m \in Memory, text \in Text : m = request[r].id /\ text = request[r].seen
  BY <1>g, Types DEF Asked
<1>1. /\ request' = [request EXCEPT ![r] = Idle] /\ request[r].op # "queueing"
      /\ vectors' = [vectors EXCEPT ![m] = text]
      /\ excuse' = IF text = memories[m].content THEN excuse
                   ELSE [excuse EXCEPT ![m] = "overtaken"]
      /\ UNCHANGED <<memories, versions, jobs, worker, commits>>
  BY <1>0 DEF CommitRefresh
<1>2. /\ request' \in [Request -> Asked] /\ request'[r] = Idle
      /\ \A q \in Request : q # r => request'[q] = request[q]
      /\ \A q \in Queueings : request'[q] = request[q]
      /\ Idle \in Asked /\ Idle.op = "idle"
  BY <1>g, <1>1, Rests, Asking
<1>3. /\ vectors' \in [Memory -> Text] /\ vectors'[m] = text
      /\ \A n \in Memory : n # m => vectors'[n] = vectors[n]
  BY <1>g, <1>1, Types
<1>4. /\ excuse' \in [Memory -> Excuse]
      /\ text # memories[m].content => excuse'[m] = "overtaken"
      /\ \A n \in Memory : n # m => excuse'[n] = excuse[n]
      /\ \A n \in Memory : excuse[n] # "none" => excuse'[n] # "none"
  BY <1>g, <1>1, Types DEF Excuse
<1>5. TypeOK'
  BY <1>g, <1>1, <1>2, <1>3, <1>4, Types, TypesBack DEF TypeOK, Text, Asked, Job
<1>6. \A q \in Request : Suits(request[q])'
  BY <1>g, <1>1, <1>2, AllSuit
<1>7. \A n \in Memory : Told(n)'
  BY <1>g, <1>1 DEF Told, Archived, Elaborated, Authored
<1>8. ASSUME NEW n \in Memory PROVE Tended(n)'
  <2>1. CASE n = m
    BY <1>1, <1>3, <1>4, <2>1 DEF Tended, Stale
  <2>2. CASE n # m
    <3>1. Stale(n)' => Stale(n)
      BY <1>1, <1>3, <2>2 DEF Stale, Found
    <3>2. Seen(n) => Seen(n)'
      BY <1>1, <1>2 DEF Seen, Queueings
    <3>3. Tended(n) /\ excuse'[n] = excuse[n]
      BY <1>g, <1>4, <2>2
    <3>. QED
      BY <3>1, <3>2, <3>3 DEF Tended
  <2>. QED
    BY <2>1, <2>2
<1>9. Writing'
  <2>1. memories'[worker.id].content = memories[worker.id].content
    BY <1>1
  <2>2. worker.id \in Memory
    BY <1>g, Types DEF Job
  <2>3. excuse[worker.id] # "none" => excuse'[worker.id] # "none"
    BY <1>4, <2>2
  <2>. QED
    BY <1>g, <1>1, <1>2, <2>1, <2>3, WritingKept
<1>. QED
  BY <1>5, <1>6, <1>7, <1>8, <1>9 DEF Inv

LEMMA InvEnqueue ==
  ASSUME Assumption, Inv, NEW r \in Request, Enqueue(r)
  PROVE  Inv'
<1>g. /\ TypeOK /\ Writing
      /\ (\A q \in Request : Suits(request[q]))
      /\ (\A m \in Memory : Told(m)) /\ (\A m \in Memory : Tended(m))
  BY DEF Inv
<1>0. PICK m \in Memory : m = request[r].id
  BY <1>g, Types DEF Asked
<1>1. /\ request' = [request EXCEPT ![r] = Idle] /\ jobs' = Append(jobs, m)
      /\ excuse' = [excuse EXCEPT ![m] = "none"]
      /\ UNCHANGED <<memories, versions, vectors, worker, commits>>
  BY <1>0 DEF Enqueue
<1>2. /\ request' \in [Request -> Asked] /\ request'[r] = Idle
      /\ \A q \in Request : q # r => request'[q] = request[q]
      /\ Idle \in Asked /\ Idle.op = "idle"
  BY <1>g, <1>1, Rests, Types
<1>3. /\ jobs' \in Seq(Memory)
      /\ \E k \in DOMAIN jobs' : jobs'[k] = m
      /\ \A n \in Memory : (\E k \in DOMAIN jobs : jobs[k] = n) =>
                            \E k \in DOMAIN jobs' : jobs'[k] = n
  <2>1. jobs \in Seq(Memory)
    BY <1>g, Types
  <2>2. Len(jobs') \in DOMAIN jobs' /\ jobs'[Len(jobs')] = m /\ jobs' \in Seq(Memory)
    BY <1>1, <2>1
  <2>3. \A k \in DOMAIN jobs : k \in DOMAIN jobs' /\ jobs'[k] = jobs[k]
    BY <1>1, <2>1
  <2>. QED
    BY <2>2, <2>3
<1>4. /\ excuse' \in [Memory -> Excuse]
      /\ \A n \in Memory : n # m => excuse'[n] = excuse[n]
  BY <1>g, <1>1, Types DEF Excuse
<1>5. TypeOK'
  BY <1>g, <1>1, <1>2, <1>3, <1>4, Types, TypesBack DEF TypeOK, Text, Asked, Job
<1>6. \A q \in Request : Suits(request[q])'
  BY <1>g, <1>1, <1>2, AllSuit
<1>7. \A n \in Memory : Told(n)'
  BY <1>g, <1>1 DEF Told, Archived, Elaborated, Authored
<1>8. ASSUME NEW n \in Memory PROVE Tended(n)'
  <2>1. CASE n = m
    BY <1>3, <2>1 DEF Tended, Seen
  <2>2. CASE n # m
    <3>1. Stale(n)' => Stale(n)
      BY <1>1 DEF Stale, Found
    <3>2. \A q \in Request : request[q].op = "queueing" /\ request[q].id = n =>
                              request'[q] = request[q]
      BY <1>0, <1>2, <2>2
    <3>3. Seen(n) => Seen(n)'
      BY <1>1, <1>3, <3>2 DEF Seen
    <3>4. Tended(n) /\ excuse'[n] = excuse[n]
      BY <1>g, <1>4, <2>2
    <3>. QED
      BY <3>1, <3>3, <3>4 DEF Tended
  <2>. QED
    BY <2>1, <2>2
<1>9. Writing'
  <2>1. worker.id \in Memory
    BY <1>g, Types DEF Job
  <2>2. CASE worker.id = m
    BY <1>1, <1>3, <2>2 DEF Writing, Queued
  <2>3. CASE worker.id # m
    <3>1. \A q \in Request : request[q].op = "queueing" /\ request[q].id = worker.id =>
                              request'[q] = request[q]
      BY <1>0, <1>2, <2>3
    <3>2. Queued(worker.id) => Queued(worker.id)'
      BY <1>1, <1>3, <2>1, <3>1 DEF Queued
    <3>3. excuse'[worker.id] = excuse[worker.id]
      BY <1>4, <2>1, <2>3
    <3>. QED
      BY <1>g, <1>1, <3>2, <3>3 DEF Writing
  <2>. QED
    BY <2>2, <2>3
<1>. QED
  BY <1>5, <1>6, <1>7, <1>8, <1>9 DEF Inv

(* A request that cannot read its row again leaves an excuse where the job *)
(* would have been.                                                        *)
LEMMA InvRefreshFails ==
  ASSUME Assumption, Inv, NEW r \in Request, RefreshFails(r)
  PROVE  Inv'
<1>g. /\ TypeOK /\ Writing
      /\ (\A q \in Request : Suits(request[q]))
      /\ (\A m \in Memory : Told(m)) /\ (\A m \in Memory : Tended(m))
  BY DEF Inv
<1>0. PICK m \in Memory : m = request[r].id
  BY <1>g, Types DEF Asked
<1>1. /\ request' = [request EXCEPT ![r] = Idle]
      /\ excuse' = [excuse EXCEPT ![m] = "unasked"]
      /\ UNCHANGED <<memories, versions, vectors, jobs, worker, commits>>
  BY <1>0 DEF RefreshFails
<1>2. /\ request' \in [Request -> Asked] /\ request'[r] = Idle
      /\ \A q \in Request : q # r => request'[q] = request[q]
      /\ Idle \in Asked /\ Idle.op = "idle"
  BY <1>g, <1>1, Rests, Types
<1>3. /\ excuse' \in [Memory -> Excuse] /\ excuse'[m] # "none"
      /\ \A n \in Memory : n # m => excuse'[n] = excuse[n]
  BY <1>g, <1>1, Types DEF Excuse
<1>4. TypeOK'
  BY <1>g, <1>1, <1>2, <1>3, Types, TypesBack DEF TypeOK, Text, Asked, Job
<1>5. \A q \in Request : Suits(request[q])'
  BY <1>g, <1>1, <1>2, AllSuit
<1>6. \A n \in Memory : Told(n)'
  BY <1>g, <1>1 DEF Told, Archived, Elaborated, Authored
<1>7. ASSUME NEW n \in Memory, n # m
      PROVE  /\ Queued(n) => Queued(n)'
             /\ Seen(n) => Seen(n)'
  <2>1. \A q \in Request : request[q].op = "queueing" /\ request[q].id = n =>
                            request'[q] = request[q]
    BY <1>0, <1>2, <1>7
  <2>. QED
    BY <1>1, <2>1 DEF Queued, Seen
<1>8. ASSUME NEW n \in Memory PROVE Tended(n)'
  <2>1. CASE n = m
    BY <1>3, <2>1 DEF Tended
  <2>2. CASE n # m
    <3>1. Stale(n)' => Stale(n)
      BY <1>1 DEF Stale, Found
    <3>2. Tended(n) /\ excuse'[n] = excuse[n] /\ (Seen(n) => Seen(n)')
      BY <1>g, <1>3, <1>7, <2>2
    <3>. QED
      BY <3>1, <3>2 DEF Tended
  <2>. QED
    BY <2>1, <2>2
<1>9. Writing'
  <2>1. worker.id \in Memory
    BY <1>g, Types DEF Job
  <2>2. CASE worker.id = m
    BY <1>1, <1>3, <2>2 DEF Writing
  <2>3. CASE worker.id # m
    <3>1. excuse'[worker.id] = excuse[worker.id]
      BY <1>3, <2>1, <2>3
    <3>2. \A q \in Request : request[q].op = "queueing" /\ request[q].id = worker.id =>
                              request'[q] = request[q]
      BY <1>0, <1>2, <2>3
    <3>3. Queued(worker.id) => Queued(worker.id)'
      BY <1>1, <2>1, <3>2 DEF Queued
    <3>. QED
      BY <1>g, <1>1, <3>1, <3>3 DEF Writing
  <2>. QED
    BY <2>2, <2>3
<1>. QED
  BY <1>4, <1>5, <1>6, <1>8, <1>9 DEF Inv

(* What the worker does to its job and the vectors leaves rows, histories  *)
(* and requests as they are.                                               *)
LEMMA InvWorks ==
  ASSUME Assumption, Inv, UNCHANGED <<memories, versions, request, commits>>,
         vectors' \in [Memory -> Text], jobs' \in Seq(Memory), worker' \in Job,
         excuse' \in [Memory -> Excuse],
         \A m \in Memory : Tended(m)', Writing'
  PROVE  Inv'
<1>g. /\ TypeOK
      /\ (\A q \in Request : Suits(request[q])) /\ (\A m \in Memory : Told(m))
  BY DEF Inv
<1>1. TypeOK'
  BY <1>g, Types, TypesBack DEF TypeOK, Text, Asked, Job
<1>2. \A q \in Request : Suits(request[q])'
  BY <1>g DEF Suits
<1>3. \A m \in Memory : Told(m)'
  BY <1>g DEF Told, Archived, Elaborated, Authored
<1>. QED
  BY <1>1, <1>2, <1>3 DEF Inv

LEMMA InvTake ==
  ASSUME Assumption, Inv, Take
  PROVE  Inv'
<1>g. TypeOK /\ (\A m \in Memory : Tended(m))
  BY DEF Inv
<1>1. jobs \in Seq(Memory) /\ jobs # << >>
  BY <1>g, Types DEF Take
<1>2. PICK m \in Memory : m = Head(jobs)
  BY <1>1
<1>3. /\ worker.stage = "idle" /\ jobs' = Tail(jobs)
      /\ worker' = [stage |-> "read", id |-> m, attempt |-> 1,
                    text |-> NoContent, old |-> NoContent]
      /\ UNCHANGED <<memories, versions, vectors, request, excuse, commits>>
  BY <1>2 DEF Take
<1>4. worker' \in Job /\ worker'.stage = "read" /\ worker'.id = m
  <2>1. 1 \in 0..MaxRetries /\ NoContent \in Text
    BY DEF Assumption, Text
  <2>. QED
    BY <1>3, <2>1 DEF Job
<1>5. /\ jobs' \in Seq(Memory)
      /\ \A n \in Memory \ {m} : (\E k \in DOMAIN jobs : jobs[k] = n) =>
                                  \E k \in DOMAIN jobs' : jobs'[k] = n
  <2>1. jobs' \in Seq(Memory)
    BY <1>1, <1>3
  <2>2. ASSUME NEW n \in Memory, n # m, NEW k \in DOMAIN jobs, jobs[k] = n
        PROVE  k - 1 \in DOMAIN jobs' /\ jobs'[k - 1] = n
    <3>1. k # 1
      BY <1>1, <1>2, <2>2
    <3>. QED
      BY <1>1, <1>3, <2>2, <3>1
  <2>. QED
    BY <2>1, <2>2
<1>6. ASSUME NEW n \in Memory PROVE Tended(n)'
  <2>1. CASE n = m
    BY <1>4, <2>1 DEF Tended, Seen
  <2>2. CASE n # m
    <3>1. Stale(n)' => Stale(n)
      BY <1>3 DEF Stale, Found
    <3>2. Seen(n) => Seen(n)'
      BY <1>3, <1>5, <2>2 DEF Seen
    <3>. QED
      BY <1>g, <1>3, <3>1, <3>2 DEF Tended
  <2>. QED
    BY <2>1, <2>2
<1>7. Writing'
  BY <1>4 DEF Writing
<1>8. /\ vectors' \in [Memory -> Text]
      /\ excuse' \in [Memory -> Excuse]
  BY <1>g, <1>3, Types
<1>. QED
  BY <1>3, <1>4, <1>5, <1>6, <1>7, <1>8, InvWorks

LEMMA InvRead ==
  ASSUME Assumption, Inv, Read
  PROVE  Inv'
<1>g. TypeOK /\ (\A m \in Memory : Tended(m))
  BY DEF Inv
<1>1. PICK m \in Memory : m = worker.id
  BY <1>g, Types DEF Job
<1>2. PICK text \in Text, old \in Text : text = memories[m].content /\ old = vectors[m]
  <2>1. memories[m].content \in Text /\ vectors[m] \in Text
    BY <1>g, ExistingHasContent, Types
  <2>. QED
    BY <2>1
<1>3. UNCHANGED <<memories, versions, vectors, request, jobs, excuse, commits>>
  BY DEF Read
<1>4. \/ ~Stale(m) /\ worker' = Resting
      \/ worker' = [worker EXCEPT !.stage = "write", !.old = old, !.text = text]
  BY <1>1, <1>2 DEF Read, Stale, UpToDate
<1>5. /\ worker' \in Job
      /\ \/ ~Stale(m) /\ worker'.stage = "idle"
         \/ worker'.stage = "write" /\ worker'.id = m /\ worker'.text = text
  <2>1. worker \in Job
    BY <1>g, Types
  <2>. QED
    BY <1>1, <1>4, <2>1, Rests DEF Job
<1>6. ASSUME NEW n \in Memory PROVE Tended(n)'
  <2>1. Stale(n)' => Stale(n)
    BY <1>3 DEF Stale, Found
  <2>2. CASE n = m
    BY <1>2, <1>3, <1>5, <2>1, <2>2 DEF Tended, Seen
  <2>3. CASE n # m
    <3>1. Seen(n) => Seen(n)'
      BY <1>1, <1>3, <2>3 DEF Seen
    <3>. QED
      BY <1>g, <1>3, <2>1, <3>1 DEF Tended
  <2>. QED
    BY <2>2, <2>3
<1>7. Writing'
  BY <1>2, <1>3, <1>5 DEF Writing
<1>8. /\ vectors' \in [Memory -> Text] /\ jobs' \in Seq(Memory)
      /\ excuse' \in [Memory -> Excuse]
  BY <1>g, <1>3, Types
<1>. QED
  BY <1>3, <1>5, <1>6, <1>7, <1>8, InvWorks

(* A vector written from a text that has been replaced is wrong, but then  *)
(* the edit has queued the memory again.                                   *)
LEMMA InvWrite ==
  ASSUME Assumption, Inv, Write
  PROVE  Inv'
<1>g. TypeOK /\ Writing /\ (\A m \in Memory : Tended(m))
  BY DEF Inv
<1>1. PICK m \in Memory, text \in Text : m = worker.id /\ text = worker.text
  BY <1>g, Types DEF Job
<1>2. /\ worker.stage = "write" /\ worker' = Resting
      /\ vectors' = [vectors EXCEPT ![m] = text]
      /\ UNCHANGED <<memories, versions, request, jobs, excuse, commits>>
  BY <1>1 DEF Write
<1>3. /\ vectors' \in [Memory -> Text] /\ vectors'[m] = text
      /\ \A n \in Memory : n # m => vectors'[n] = vectors[n]
  BY <1>g, <1>2, Types
<1>4. ASSUME NEW n \in Memory PROVE Tended(n)'
  <2>1. CASE n = m
    <3>1. text = memories[m].content \/ Queued(m) \/ excuse[m] # "none"
      BY <1>g, <1>1, <1>2 DEF Writing
    <3>2. CASE text = memories[m].content
      BY <1>2, <1>3, <2>1, <3>2 DEF Tended, Stale
    <3>3. CASE Queued(m)
      BY <1>2, <2>1, <3>3 DEF Tended, Seen, Queued
    <3>4. CASE excuse[m] # "none"
      BY <1>2, <2>1, <3>4 DEF Tended
    <3>. QED
      BY <3>1, <3>2, <3>3, <3>4
  <2>2. CASE n # m
    <3>1. Stale(n)' => Stale(n)
      BY <1>2, <1>3, <2>2 DEF Stale, Found
    <3>2. Seen(n) => Seen(n)'
      BY <1>1, <1>2, <2>2 DEF Seen
    <3>. QED
      BY <1>g, <1>2, <3>1, <3>2 DEF Tended
  <2>. QED
    BY <2>1, <2>2
<1>5. worker' \in Job /\ Writing'
  BY <1>2, Rests DEF Writing
<1>6. /\ jobs' \in Seq(Memory)
      /\ excuse' \in [Memory -> Excuse]
  BY <1>g, <1>2, Types
<1>. QED
  BY <1>2, <1>3, <1>4, <1>5, <1>6, InvWorks

LEMMA InvAttemptFails ==
  ASSUME Assumption, Inv, AttemptFails
  PROVE  Inv'
<1>g. TypeOK /\ (\A m \in Memory : Tended(m))
  BY DEF Inv
<1>0. worker \in Job /\ excuse \in [Memory -> Excuse]
  BY <1>g, Types
<1>1. PICK m \in Memory : m = worker.id
  BY <1>0 DEF Job
<1>2. /\ worker.stage # "idle"
      /\ UNCHANGED <<memories, versions, vectors, request, jobs, commits>>
  BY DEF AttemptFails
<1>3. /\ worker' \in Job /\ worker'.stage # "write"
      /\ excuse' \in [Memory -> Excuse]
      /\ \A n \in Memory : n # m => excuse'[n] = excuse[n]
      /\ (worker'.stage = "read" /\ worker'.id = m) \/ excuse'[m] # "none"
  <2>1. CASE worker.attempt < MaxRetries
    <3>1. worker' = [worker EXCEPT !.stage = "read", !.attempt = @ + 1] /\ excuse' = excuse
      BY <2>1 DEF AttemptFails
    <3>2. worker.attempt + 1 \in 0..MaxRetries
      <4>1. worker.attempt \in 0..MaxRetries /\ MaxRetries \in Nat
        BY <1>0 DEF Job, Assumption
      <4>. QED
        BY <2>1, <4>1
    <3>. QED
      BY <1>0, <1>1, <3>1, <3>2 DEF Job
  <2>2. CASE ~(worker.attempt < MaxRetries)
    <3>1. worker' = Resting /\ excuse' = [excuse EXCEPT ![m] = "given up"]
      BY <1>1, <2>2 DEF AttemptFails
    <3>. QED
      BY <1>0, <3>1, Rests DEF Excuse
  <2>. QED
    BY <2>1, <2>2
<1>4. ASSUME NEW n \in Memory PROVE Tended(n)'
  <2>1. CASE n = m
    BY <1>3, <2>1 DEF Tended, Seen
  <2>2. CASE n # m
    <3>1. Stale(n)' => Stale(n)
      BY <1>2 DEF Stale, Found
    <3>2. Seen(n) => Seen(n)'
      BY <1>1, <1>2, <2>2 DEF Seen
    <3>. QED
      BY <1>g, <1>3, <2>2, <3>1, <3>2 DEF Tended
  <2>. QED
    BY <2>1, <2>2
<1>5. Writing'
  BY <1>3 DEF Writing
<1>6. vectors' \in [Memory -> Text] /\ jobs' \in Seq(Memory)
  BY <1>g, <1>2, Types
<1>. QED
  BY <1>2, <1>3, <1>4, <1>5, <1>6, InvWorks

(* A restart loses the queue: whatever was in it has an excuse then.       *)
LEMMA InvRestart ==
  ASSUME Assumption, Inv, Restart
  PROVE  Inv'
<1>g. TypeOK /\ (\A m \in Memory : Told(m)) /\ (\A m \in Memory : Tended(m))
  BY DEF Inv
<1>1. /\ jobs' = << >> /\ worker' = Resting /\ request' = [r \in Request |-> Idle]
      /\ excuse' = [m \in Memory |-> IF m \in Forgotten THEN "restart" ELSE excuse[m]]
      /\ UNCHANGED <<memories, versions, vectors, commits>>
  BY DEF Restart
<1>2. /\ jobs' \in Seq(Memory) /\ worker' \in Job /\ worker'.stage = "idle"
      /\ request' \in [Request -> Asked] /\ \A r \in Request : request'[r].op = "idle"
      /\ excuse' \in [Memory -> Excuse]
  <2>1. Idle \in Asked /\ Idle.op = "idle" /\ Resting \in Job /\ Resting.stage = "idle"
    BY Rests
  <2>2. excuse' \in [Memory -> Excuse]
    <3>1. excuse \in [Memory -> Excuse]
      BY <1>g, Types
    <3>2. excuse' = [m \in Memory |-> IF m \in Forgotten THEN "restart" ELSE excuse[m]]
      BY <1>1
    <3>. QED
      BY <3>1, <3>2 DEF Excuse
  <2>3. request' \in [Request -> Asked] /\ \A r \in Request : request'[r].op = "idle"
    BY <1>1, <2>1
  <2>4. jobs' \in Seq(Memory) /\ worker' \in Job /\ worker'.stage = "idle"
    <3>1. jobs' = << >> /\ worker' = Resting
      BY <1>1
    <3>. QED
      BY <2>1, <3>1
  <2>. QED
    BY <2>2, <2>3, <2>4
<1>3. TypeOK'
  BY <1>g, <1>1, <1>2, Types, TypesBack DEF TypeOK, Text, Asked, Job
<1>4. \A r \in Request : Suits(request[r])'
  BY <1>2 DEF Suits
<1>5. \A m \in Memory : Told(m)'
  BY <1>g, <1>1 DEF Told, Archived, Elaborated, Authored
<1>6. ASSUME NEW m \in Memory PROVE Tended(m)'
  <2>1. Stale(m)' => Stale(m)
    BY <1>1 DEF Stale, Found
  <2>2. Seen(m) => m \in Forgotten
    BY DEF Seen, Forgotten
  <2>3. m \in Forgotten => excuse'[m] # "none"
    BY <1>1
  <2>4. excuse[m] # "none" => excuse'[m] # "none"
    BY <1>1
  <2>. QED
    BY <1>g, <2>1, <2>2, <2>3, <2>4 DEF Tended
<1>7. Writing'
  BY <1>2 DEF Writing
<1>. QED
  BY <1>3, <1>4, <1>5, <1>6, <1>7 DEF Inv

-----------------------------------------------------------------------------
LEMMA InvNext == Assumption /\ Inv /\ [Next]_memoryVars => Inv'
<1>. SUFFICES ASSUME Assumption, Inv, [Next]_memoryVars PROVE Inv'
  OBVIOUS
<1>1. CASE UNCHANGED memoryVars
  <2>1. UNCHANGED <<memories, versions, vectors, request, jobs, worker, excuse, commits>>
    BY <1>1 DEF memoryVars
  <2>2. /\ vectors' \in [Memory -> Text] /\ jobs' \in Seq(Memory) /\ worker' \in Job
        /\ excuse' \in [Memory -> Excuse]
    BY <2>1, Types DEF Inv
  <2>3. \A m \in Memory : Tended(m)'
    BY <2>1 DEF Inv, Tended, Stale, Found, Seen
  <2>4. Writing'
    BY <2>1 DEF Inv, Writing, Queued
  <2>. QED
    BY <2>1, <2>2, <2>3, <2>4, InvWorks
<1>2. ASSUME NEW r \in Request, Load(r) PROVE Inv'
  BY <1>2, InvLoads
<1>3. ASSUME NEW r \in Request, Commit(r) PROVE Inv'
  <2>1. CASE CommitNew(r)
    <3>1. request[r].op \in {"plain", "supersede"}
      BY <2>1 DEF CommitNew
    <3>. QED
      BY <2>1, <3>1, InvCommitPlain, InvCommitSupersede
  <2>. QED
    BY <1>3, <2>1, InvCommitEdit, InvCommitArchive, InvCommitMarks, InvCommitRefresh
       DEF Commit
<1>4. ASSUME NEW r \in Request, RequestFails(r) PROVE Inv'
  BY <1>4, InvRequestFails
<1>5. ASSUME NEW r \in Request, Enqueue(r) \/ RefreshFails(r) PROVE Inv'
  BY <1>5, InvEnqueue, InvRefreshFails
<1>6. CASE Work
  BY <1>6, InvTake, InvRead, InvWrite, InvAttemptFails DEF Work
<1>7. CASE Restart
  BY <1>7, InvRestart
<1>. QED
  BY <1>1, <1>2, <1>3, <1>4, <1>5, <1>6, <1>7 DEF Next

LEMMA InvHolds == ASSUME Assumption PROVE Spec => []Inv
<1>1. Init => Inv
  BY InvInit
<1>2. Inv /\ [Next]_memoryVars => Inv'
  BY InvNext
<1>. QED
  BY <1>1, <1>2, PTL DEF Spec

(* Rows, histories, vectors, queue and worker keep their types, whatever   *)
(* requests, the worker and restarts do in between (memory_service,        *)
(* embedding_worker).                                                      *)
THEOREM TypeCorrect == ASSUME Assumption PROVE Spec => []TypeOK
<1>1. Inv => TypeOK
  BY DEF Inv
<1>. QED
  BY <1>1, InvHolds, PTL

(* The history of a memory tells what the row says, and a fact is retired  *)
(* only in favour of one that elaborates it (consolidation,                *)
(* memory_service), for any number of overlapping requests.                *)
THEOREM HistoryHolds == ASSUME Assumption PROVE Spec => []HistoryTellsTheMemory
<1>1. ASSUME Inv PROVE HistoryTellsTheMemory
  <2>1. ASSUME NEW m \in Memory, versions[m] # << >>
        PROVE  versions[m][LastAuthored(m)].content = memories[m].content
    <3>1. Told(m) /\ versions[m] \in Seq(Version)
      BY <1>1, Types DEF Inv
    <3>2. Authored(m) \subseteq Nat
      BY <3>1 DEF Authored
    <3>3. PICK k \in Authored(m) : /\ \A j \in Authored(m) : j <= k
                                   /\ versions[m][k].content = memories[m].content
      BY <2>1, <3>1 DEF Told
    <3>4. \A i \in Authored(m) : (\A j \in Authored(m) : j <= i) => i = k
      BY <3>2, <3>3
    <3>5. LastAuthored(m) = k
      BY <3>3, <3>4 DEF LastAuthored
    <3>. QED
      BY <3>3, <3>5
  <2>2. \A m \in Memory : Told(m)
    BY <1>1 DEF Inv
  <2>. QED
    BY <2>1, <2>2 DEF HistoryTellsTheMemory, Told, Archived
<1>. QED
  BY <1>1, InvHolds, PTL

(* No stale vector goes unnoticed: an edit that overtakes the worker, a    *)
(* refresh or a retry leaves a job behind, or one of four known excuses    *)
(* (embedding_service, embedding_worker).                                  *)
THEOREM NoneIsForgotten == ASSUME Assumption PROVE Spec => []StaleVectorsAreSeenTo
<1>1. Inv => StaleVectorsAreSeenTo
  BY DEF Inv, Tended, StaleVectorsAreSeenTo
<1>. QED
  BY <1>1, InvHolds, PTL
=============================================================================

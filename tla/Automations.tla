----------------------------- MODULE Automations -----------------------------
(***************************************************************************)
(* The automations of GUMMY OS: reminders and other scheduled tasks kept   *)
(* in a table, fired by poller processes, paused, resumed, deleted and     *)
(* created by requests that run concurrently with the pollers.             *)
(*                                                                         *)
(* The database is PostgreSQL at READ COMMITTED.  A process reads a row    *)
(* into its session, works on that snapshot, and at commit writes the      *)
(* columns whose value it changed (SQLAlchemy's unit of work): a column it *)
(* left as it was loaded keeps whatever the row holds by then.  The        *)
(* pollers' session is not expired on commit, so the snapshots of a batch  *)
(* are as old as the query that listed it.                                 *)
(*                                                                         *)
(* Operators whose name has an underscore are faulty variants of the       *)
(* definition they precede; no specification uses them.                    *)
(***************************************************************************)
EXTENDS Integers, FiniteSets

CONSTANTS
  Automations,  \* the ids a row can have; an id is never used twice
  Schedulers,   \* the poller processes
  Clients,      \* the concurrent requests of the user
  Schedules,    \* the schedules the user asks for
  Day,          \* the length of a day in clock units
  MaxFailures,  \* MAX_CONSECUTIVE_FAILURES
  BatchSize,    \* SCHEDULER_BATCH_SIZE
  MaxPerUser,   \* _MAX_ACTIVE_PER_USER
  Horizon,      \* bound: how far ahead an automation is created
  MaxTime,      \* bound: the last instant of the clock
  MaxSetBacks,  \* bound: how often the clock is set back
  MaxAborts,    \* bound: how many ticks die half way
  NULL

Statuses == {"active", "paused", "completed", "failed"}

(* A row of the table, and the copy of it a session holds.  The run a      *)
(* firing leaves behind, and the pending work of the processes: an entry   *)
(* of a poller's batch, a toggle that has read its row, a creation that    *)
(* has counted the rows.                                                   *)
Row ==
  [ schedule : {"once", "daily", "weekly"}, status : Statuses,
    enabled : BOOLEAN, next : Nat \cup {NULL}, failures : Nat ]
Run == [ slot : Nat, status : {"succeeded", "failed"} ]
Entry == [ auto : Automations, loaded : Row, moment : Nat ]
Toggle == [ auto : Automations, loaded : Row, enable : BOOLEAN, at : Nat ]
Creation == [ total : Nat, at : Nat ]

ASSUME ScheduleAssumption == Schedules \subseteq {"once", "daily", "weekly"}
ASSUME DayAssumption == Day \in Nat \ {0}
ASSUME AutomationsFinite == IsFiniteSet(Automations)
ASSUME LimitsAssumption ==
  /\ MaxFailures \in Nat \ {0}
  /\ BatchSize \in Nat \ {0}
  /\ MaxPerUser \in Nat
ASSUME BoundsAssumption ==
  /\ Horizon \in Nat
  /\ MaxTime \in Nat
  /\ MaxSetBacks \in Nat
  /\ MaxAborts \in Nat
ASSUME NullAssumption ==
  /\ NULL \notin Nat
  /\ NULL \notin Row
  /\ NULL \notin Entry
  /\ NULL \notin Toggle
  /\ NULL \notin Creation

VARIABLES
  unused,    \* ids no row has had yet
  row,       \* the automations table: a row, or NULL for an id without one
  runs,      \* the committed rows of automation_runs, per automation
  batch,     \* per poller: the due automations its tick has still to fire
  claim,     \* per poller: the entry whose run it inserted, not committed
  toggle,    \* per client: a pause or resume between its read and its commit
  creation,  \* per client: an automation_create between its count and commit
  now,       \* the clock
  peak,      \* history: the latest instant the clock ever showed
  refired,   \* history: the slots fired more than once
  lost,      \* history: automations whose schedule was overwritten unseen
  setbacks, aborts

table == <<unused, row, runs>>
pollers == <<batch, claim>>
requests == <<toggle, creation>>
clock == <<now, peak, setbacks>>
history == <<refired, lost>>
vars == <<table, pollers, requests, clock, history, aborts>>

Live == {a \in Automations : row[a] # NULL}

-----------------------------------------------------------------------------
(* Scheduling arithmetic.                                                  *)

Step(schedule) == IF schedule = "daily" THEN Day ELSE 7 * Day

NextOccurrence_FromNow(schedule, after, anchor) ==
  IF schedule = "once" THEN NULL
  ELSE IF anchor > after THEN anchor ELSE after + Step(schedule)

NextOccurrence_SameSlot(schedule, after, anchor) ==
  IF schedule = "once" THEN NULL
  ELSE IF anchor >= after THEN anchor
  ELSE anchor + Step(schedule) * (((after - anchor) \div Step(schedule)) + 1)

NextOccurrence_WrongSign(schedule, after, anchor) ==
  IF schedule = "once" THEN NULL
  ELSE IF anchor > after THEN anchor
  ELSE anchor - Step(schedule) * (((after - anchor) \div Step(schedule)) + 1)

NextOccurrence(schedule, after, anchor) ==
  IF schedule = "once" THEN NULL
  ELSE IF anchor > after THEN anchor
  ELSE anchor + Step(schedule) * (((after - anchor) \div Step(schedule)) + 1)

(* The row after a commit of a session that loaded one value and leaves    *)
(* another: the changed columns are written over the current row.          *)
Flushed_WholeRow(current, loaded, left) == left

Flushed(current, loaded, left) ==
  [ schedule |-> current.schedule,
    status |-> IF left.status = loaded.status
                 THEN current.status ELSE left.status,
    enabled |-> IF left.enabled = loaded.enabled
                  THEN current.enabled ELSE left.enabled,
    next |-> IF left.next = loaded.next THEN current.next ELSE left.next,
    failures |-> IF left.failures = loaded.failures
                   THEN current.failures ELSE left.failures ]

(* The commit changes a schedule that is no longer the one it had read.    *)
LosesSchedule(current, loaded, left) ==
  left.next # loaded.next /\ current.next # loaded.next

-----------------------------------------------------------------------------
(* What firing a slot and toggling do to the copy of the row.              *)

AfterRun_CountsForever(loaded, moment, ok) ==
  LET failures == IF ok THEN loaded.failures ELSE loaded.failures + 1
      parked == failures >= MaxFailures
      following == NextOccurrence(loaded.schedule, moment, loaded.next)
  IN  [loaded EXCEPT
         !.failures = failures,
         !.status = IF parked THEN "failed"
                    ELSE IF following = NULL THEN "completed" ELSE @,
         !.enabled = IF parked \/ following = NULL THEN FALSE ELSE @,
         !.next = following]

AfterRun_KeepsSlot(loaded, moment, ok) ==
  IF ok THEN [loaded EXCEPT
                !.failures = 0,
                !.next = NextOccurrence(loaded.schedule, moment, loaded.next)]
        ELSE [loaded EXCEPT !.failures = @ + 1]

AfterRun(loaded, moment, ok) ==
  LET failures == IF ok THEN 0 ELSE loaded.failures + 1
      parked == failures >= MaxFailures
      following == NextOccurrence(loaded.schedule, moment, loaded.next)
  IN  [loaded EXCEPT
         !.failures = failures,
         !.status = IF parked THEN "failed"
                    ELSE IF following = NULL THEN "completed" ELSE @,
         !.enabled = IF parked \/ following = NULL THEN FALSE ELSE @,
         !.next = following]

AfterToggle(loaded, enable, at) ==
  IF ~enable
  THEN [loaded EXCEPT !.enabled = FALSE, !.status = "paused"]
  ELSE LET missed == loaded.next # NULL /\ loaded.next <= at
           next == IF missed
                     THEN NextOccurrence(loaded.schedule, at, loaded.next)
                     ELSE loaded.next
       IN  [loaded EXCEPT
              !.enabled = TRUE,
              !.status = IF missed /\ next = NULL
                           THEN "completed" ELSE "active",
              !.failures = 0,
              !.next = next]

-----------------------------------------------------------------------------
Init ==
  /\ unused = Automations
  /\ row = [a \in Automations |-> NULL]
  /\ runs = [a \in Automations |-> {}]
  /\ batch = [s \in Schedulers |-> {}]
  /\ claim = [s \in Schedulers |-> NULL]
  /\ toggle = [c \in Clients |-> NULL]
  /\ creation = [c \in Clients |-> NULL]
  /\ now = 0 /\ peak = 0 /\ setbacks = 0
  /\ refired = {} /\ lost = {}
  /\ aborts = 0

-----------------------------------------------------------------------------
(* The pollers: one tick lists the due automations and fires them one by   *)
(* one, each in a transaction of its own.                                  *)

IsDue_Early(a) ==
  row[a] # NULL /\ row[a].enabled /\ row[a].status = "active"
    /\ row[a].next # NULL

IsDue(a) ==
  /\ row[a] # NULL
  /\ row[a].enabled
  /\ row[a].status = "active"
  /\ row[a].next # NULL
  /\ row[a].next <= now

Due == {a \in Automations : IsDue(a)}

ListDue(s) ==
  /\ batch[s] = {} /\ claim[s] = NULL
  /\ Due # {}
  /\ \E listed \in SUBSET Due :
       /\ listed # {}
       /\ Cardinality(listed) <= BatchSize
       /\ listed # Due => Cardinality(listed) = BatchSize
       /\ \A a \in listed, b \in Due \ listed : row[a].next <= row[b].next
       /\ batch' = [batch EXCEPT ![s] =
            {[auto |-> a, loaded |-> row[a], moment |-> now] : a \in listed}]
  /\ UNCHANGED <<table, claim, requests, clock, history, aborts>>

(* The batch is served in the order of the query.                          *)
IsHead(s, e) ==
  /\ e \in batch[s]
  /\ \A other \in batch[s] : e.loaded.next <= other.loaded.next

Fired(a) == {r.slot : r \in runs[a]}

(* The unique constraint and the foreign key of automation_runs: inserting *)
(* waits while another transaction holds the same key uncommitted, and     *)
(* fails when the key is taken or the automation is gone.                  *)
Pending(a, slot) ==
  \E s \in Schedulers :
    claim[s] # NULL /\ claim[s].auto = a /\ claim[s].loaded.next = slot

KeyTaken_Unconstrained(a, slot) == row[a] = NULL

KeyTaken(a, slot) == row[a] = NULL \/ slot \in Fired(a)

Claim(s) ==
  /\ claim[s] = NULL
  /\ \E e \in batch[s] :
       /\ IsHead(s, e)
       /\ ~Pending(e.auto, e.loaded.next)
       /\ ~KeyTaken(e.auto, e.loaded.next)
       /\ claim' = [claim EXCEPT ![s] = e]
       /\ batch' = [batch EXCEPT ![s] = @ \ {e}]
  /\ UNCHANGED <<table, requests, clock, history, aborts>>

ClaimRefused(s) ==
  /\ claim[s] = NULL
  /\ \E e \in batch[s] :
       /\ IsHead(s, e)
       /\ ~Pending(e.auto, e.loaded.next)
       /\ KeyTaken(e.auto, e.loaded.next)
       /\ batch' = [batch EXCEPT ![s] = @ \ {e}]
  /\ UNCHANGED <<table, claim, requests, clock, history, aborts>>

(* The body ran, well or badly: the run, the failure count and the next    *)
(* slot are committed together.                                            *)
Finish(s, ok) ==
  /\ claim[s] # NULL
  /\ LET a == claim[s].auto
         slot == claim[s].loaded.next
         left == AfterRun(claim[s].loaded, claim[s].moment, ok)
         run == [slot |-> slot,
                 status |-> IF ok THEN "succeeded" ELSE "failed"]
     IN  /\ row' = [row EXCEPT ![a] = Flushed(@, claim[s].loaded, left)]
         /\ runs' = [runs EXCEPT ![a] = @ \cup {run}]
         /\ refired' = IF slot \in Fired(a)
                         THEN refired \cup {<<a, slot>>} ELSE refired
         /\ lost' = IF LosesSchedule(row[a], claim[s].loaded, left)
                      THEN lost \cup {a} ELSE lost
  /\ claim' = [claim EXCEPT ![s] = NULL]
  /\ UNCHANGED <<unused, batch, requests, clock, aborts>>

(* The process dies, the poller is stopped, or a statement fails: the open *)
(* transaction rolls back and the rest of the batch is dropped (after a    *)
(* rollback every snapshot of the session is expired and cannot be read).  *)
Abort(s) ==
  /\ batch[s] # {} \/ claim[s] # NULL
  /\ aborts < MaxAborts
  /\ aborts' = aborts + 1
  /\ batch' = [batch EXCEPT ![s] = {}]
  /\ claim' = [claim EXCEPT ![s] = NULL]
  /\ UNCHANGED <<table, requests, clock, history>>

-----------------------------------------------------------------------------
(* The user: pause, resume, delete and create.                             *)

Idle(c) == toggle[c] = NULL /\ creation[c] = NULL

ReadToggle(c, a, enable) ==
  /\ Idle(c)
  /\ row[a] # NULL
  /\ toggle' = [toggle EXCEPT ![c] =
       [auto |-> a, loaded |-> row[a], enable |-> enable, at |-> now]]
  /\ UNCHANGED <<table, pollers, creation, clock, history, aborts>>

(* The commit; an update of a row that is gone matches nothing and fails.  *)
WriteToggle(c) ==
  /\ toggle[c] # NULL
  /\ LET a == toggle[c].auto
         loaded == toggle[c].loaded
         left == AfterToggle(loaded, toggle[c].enable, toggle[c].at)
     IN  IF row[a] = NULL
         THEN UNCHANGED <<row, lost>>
         ELSE /\ row' = [row EXCEPT ![a] = Flushed(@, loaded, left)]
              /\ lost' = IF LosesSchedule(row[a], loaded, left)
                           THEN lost \cup {a} ELSE lost
  /\ toggle' = [toggle EXCEPT ![c] = NULL]
  /\ UNCHANGED <<unused, runs, pollers, creation, clock, refired, aborts>>

(* Deleting cascades to the runs.  It waits for a poller that has inserted *)
(* a run of the automation and holds its key.                              *)
Delete(a) ==
  /\ row[a] # NULL
  /\ \A s \in Schedulers : claim[s] # NULL => claim[s].auto # a
  /\ row' = [row EXCEPT ![a] = NULL]
  /\ runs' = [runs EXCEPT ![a] = {}]
  /\ lost' = lost \ {a}
  /\ UNCHANGED <<unused, pollers, requests, clock, refired, aborts>>

CountForCreate(c) ==
  /\ Idle(c)
  /\ creation' = [creation EXCEPT ![c] =
       [total |-> Cardinality(Live), at |-> now]]
  /\ UNCHANGED <<table, pollers, toggle, clock, history, aborts>>

WithinQuota_OffByOne(total) == total <= MaxPerUser

WithinQuota(total) == total < MaxPerUser

Create(c) ==
  /\ creation[c] # NULL
  /\ creation' = [creation EXCEPT ![c] = NULL]
  /\ IF WithinQuota(creation[c].total)
     THEN \E a \in unused, schedule \in Schedules, ahead \in 1..Horizon :
            /\ unused' = unused \ {a}
            /\ row' = [row EXCEPT ![a] =
                 [schedule |-> schedule, status |-> "active", enabled |-> TRUE,
                  next |-> creation[c].at + ahead, failures |-> 0]]
            /\ UNCHANGED runs
     ELSE UNCHANGED table
  /\ UNCHANGED <<pollers, toggle, clock, history, aborts>>

-----------------------------------------------------------------------------
(* The clock goes on, and is now and then set back.                        *)

Advance ==
  /\ now < MaxTime
  /\ now' = now + 1
  /\ peak' = IF now' > peak THEN now' ELSE peak
  /\ UNCHANGED <<table, pollers, requests, setbacks, history, aborts>>

SetBack ==
  /\ now > 0 /\ setbacks < MaxSetBacks
  /\ now' = now - 1
  /\ setbacks' = setbacks + 1
  /\ UNCHANGED <<table, pollers, requests, peak, history, aborts>>

Poller(s) ==
  \/ ListDue(s) \/ Claim(s) \/ ClaimRefused(s)
  \/ \E ok \in BOOLEAN : Finish(s, ok)

Next ==
  \/ \E s \in Schedulers : Poller(s) \/ Abort(s)
  \/ \E c \in Clients, a \in Automations, enable \in BOOLEAN :
       ReadToggle(c, a, enable)
  \/ \E c \in Clients : WriteToggle(c) \/ CountForCreate(c) \/ Create(c)
  \/ \E a \in Automations : Delete(a)
  \/ Advance \/ SetBack

Spec == Init /\ [][Next]_vars

(* A poller that is up goes on ticking, and time passes.  Nothing is       *)
(* assumed of the user.                                                    *)
FairSpec == Spec /\ (\A s \in Schedulers : WF_vars(Poller(s))) /\ WF_vars(Advance)

-----------------------------------------------------------------------------
(* Types of the state.                                                     *)
TypeOK ==
  /\ unused \subseteq Automations
  /\ row \in [Automations -> Row \cup {NULL}]
  /\ runs \in [Automations -> SUBSET Run]
  /\ batch \in [Schedulers -> SUBSET Entry]
  /\ claim \in [Schedulers -> Entry \cup {NULL}]
  /\ toggle \in [Clients -> Toggle \cup {NULL}]
  /\ creation \in [Clients -> Creation \cup {NULL}]
  /\ now \in Nat /\ peak \in Nat /\ setbacks \in Nat
  /\ refired \subseteq Automations \X Nat
  /\ lost \subseteq Automations
  /\ aborts \in Nat

(* No slot of an automation fires twice, whatever the pollers race on,     *)
(* wherever a tick dies and however the clock is set (the promise of the   *)
(* unique constraint that claim_run relies on).                            *)
SlotFiresAtMostOnce == refired = {}

(* The slot an automation waits for is later than every slot it has fired, *)
(* so its next claim cannot be refused for ever; except where a stale      *)
(* session overwrote the schedule, which run_once never notices.           *)
FiredSlotsAreBehind ==
  \A a \in Live \ lost :
    row[a].next # NULL => \A slot \in Fired(a) : slot < row[a].next

(* Stepping from the anchor, never from the moment of the run: all slots   *)
(* of a recurring automation, fired or to come, are whole steps apart.     *)
ScheduleNeverDrifts ==
  \A a \in Live :
    LET step == Step(row[a].schedule)
        slots == Fired(a) \cup ({row[a].next} \ {NULL})
    IN  row[a].schedule # "once" =>
          \A x, y \in slots : (x - y) % step = 0

(* failure_count tells the truth about the latest runs: at least that many *)
(* failures, with no success after any of them.  An automation is parked   *)
(* only for a real streak of failures.                                     *)
FailureStreak ==
  \A a \in Live \ lost :
    LET sinceSuccess ==
          {r \in runs[a] :
             \A q \in runs[a] : q.slot >= r.slot => q.status = "failed"}
    IN  row[a].failures <= Cardinality(sinceSuccess)

(* The row of an automation agrees with the runs that were committed for   *)
(* it, though pollers and resumes compute both from copies of any age: it  *)
(* waits for a slot beyond all it fired, a whole number of steps away from *)
(* them, and counts no failure that did not happen or was made up for.     *)
RowsTellTheirRuns ==
  /\ FiredSlotsAreBehind
  /\ ScheduleNeverDrifts
  /\ FailureStreak

(* The count that is checked before the insert is stale when two creations *)
(* overlap, but the table outgrows the limit at most by the requests that  *)
(* were in flight beside the one that filled it.                           *)
QuotaOvershootIsBounded ==
  Cardinality(Live) <= MaxPerUser + Cardinality(Clients) - 1

(* A pause sticks: only the commit of the user's own resume makes a paused *)
(* automation active again, never a poller that still holds the row as it  *)
(* was before the pause.                                                   *)
PauseIsNotUndone ==
  [][\A a \in Automations :
       (/\ row[a] # NULL /\ row[a].status = "paused"
        /\ row'[a] # NULL /\ row'[a].status = "active")
       => \E c \in Clients :
            /\ toggle[c] # NULL /\ toggle'[c] = NULL
            /\ toggle[c].auto = a /\ toggle[c].enable]_vars

(* Each firing adds a fresh slot whose time has come to the user's ledger  *)
(* of reminders, and none is a repeat of one that went off before; only    *)
(* deleting an automation takes entries out of it.                         *)
Delivered == UNION {{<<a, slot>> : slot \in Fired(a)} : a \in Automations}

Ledger == INSTANCE ReminderLedger
  WITH ledger <- Delivered, repeats <- refired, horizon <- peak

FiresLikeALedger == Ledger!Spec

(* What becomes due is dealt with: fired, moved on, paused or deleted, if  *)
(* no stale session has overwritten a schedule (an overwritten one can be  *)
(* refused for ever and keep its place in every batch).                    *)
DueIsServed ==
  \A a \in Automations, t \in 0..MaxTime :
    (IsDue(a) /\ row[a].next = t)
      ~> (~IsDue(a) \/ row[a].next # t \/ lost # {})

(* Supporting invariants.  The clock never passes its peak; a poller holds *)
(* entries that were due when it listed them; an id without a row has no   *)
(* runs, and an unused id no row.                                          *)
PeakIsLatest == now <= peak

EntriesAreDue ==
  \A s \in Schedulers : \A e \in batch[s] \cup ({claim[s]} \ {NULL}) :
    /\ e.loaded.next \in Nat
    /\ e.loaded.next <= e.moment
    /\ e.moment <= peak
    /\ e.loaded.status = "active"

UnusedIsEmpty ==
  \A a \in Automations :
    /\ a \in unused => row[a] = NULL
    /\ row[a] = NULL => runs[a] = {} /\ a \notin lost

(* An uncommitted run belongs to an automation that still has its row.     *)
ClaimsHaveRows ==
  \A s \in Schedulers : claim[s] # NULL => row[claim[s].auto] # NULL

(* It is the only one for its slot, and its slot has not been fired.       *)
ClaimsAreExclusive ==
  \A s \in Schedulers : claim[s] # NULL =>
    /\ claim[s].loaded.next \notin Fired(claim[s].auto)
    /\ \A t \in Schedulers \ {s} :
         claim[t] # NULL /\ claim[t].auto = claim[s].auto
           => claim[t].loaded.next # claim[s].loaded.next

(* What docstrings say and the code does not keep.                         *)

(* set_enabled: "A one-off whose moment passed while paused cannot be      *)
(* revived."  An automation that is active has a slot to wait for.         *)
SpentOneOffStaysCompleted ==
  \A a \in Live : row[a].status = "active" => row[a].next # NULL

(* claim_run on a refused claim: "Someone else already owns this slot",    *)
(* and run_once: "Advancing the schedule happens whether the body          *)
(* succeeded or failed".  An automation never waits for a slot it fired.   *)
ScheduleAlwaysAdvances ==
  \A a \in Live : row[a].next \notin Fired(a)
=============================================================================

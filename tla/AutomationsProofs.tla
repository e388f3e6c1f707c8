-------------------------- MODULE AutomationsProofs --------------------------
(***************************************************************************)
(* Proofs about Automations, for every number of ids, pollers and requests *)
(* and every value of the limits.                                          *)
(***************************************************************************)
EXTENDS Automations, FiniteSetTheorems, TLAPS

-----------------------------------------------------------------------------
(* Scheduling arithmetic.                                                  *)

(* A schedule steps by a positive number of clock units.                   *)
LEMMA StepPositive == \A schedule : Step(schedule) \in Nat \ {0}
  BY DayAssumption DEF Step

(* Whole steps past the anchor are the first slot strictly later: the      *)
(* formula next_occurrence uses to catch up in one jump.                   *)
LEMMA StepsPassAfter ==
  ASSUME NEW step \in Nat \ {0}, NEW gap \in Nat
  PROVE  step * ((gap \div step) + 1) \in Nat /\ step * ((gap \div step) + 1) > gap
<1>1. /\ gap \div step \in Nat
      /\ gap = step * (gap \div step) + (gap % step)
      /\ gap % step \in 0..(step - 1)
  OBVIOUS
<1>. DEFINE q == gap \div step
<1>2. q \in Nat /\ gap < step * q + step
  BY <1>1
<1>. HIDE DEF q
<1>3. step * (q + 1) = step * q + step /\ step * q \in Nat
  BY <1>2
<1>. QED
  BY <1>2, <1>3 DEF q

(* The next occurrence of a recurring schedule is an instant strictly      *)
(* after the moment asked about; a one-off has none.                       *)
LEMMA NextIsLater ==
  ASSUME NEW schedule, NEW after \in Nat, NEW anchor \in Nat
  PROVE  LET next == NextOccurrence(schedule, after, anchor)
         IN  IF schedule = "once" THEN next = NULL
             ELSE next \in Nat /\ next > after
<1>1. CASE schedule = "once"
  BY <1>1 DEF NextOccurrence
<1>2. CASE schedule # "once" /\ anchor > after
  BY <1>2 DEF NextOccurrence
<1>3. CASE schedule # "once" /\ ~(anchor > after)
  <2>. DEFINE step == Step(schedule)
              jump == step * (((after - anchor) \div step) + 1)
  <2>1. step \in Nat \ {0} /\ after - anchor \in Nat
    BY <1>3, StepPositive
  <2>2. jump \in Nat /\ jump > after - anchor
    <3>. HIDE DEF step
    <3>. QED  BY <2>1, StepsPassAfter
  <2>3. NextOccurrence(schedule, after, anchor) = anchor + jump
    BY <1>3 DEF NextOccurrence
  <2>. HIDE DEF jump
  <2>. QED  BY <1>3, <2>2, <2>3
<1>. QED
  BY <1>1, <1>2, <1>3

-----------------------------------------------------------------------------
(* What firing, toggling and committing make of a row.                     *)

(* A commit writes a row back.                                             *)
LEMMA FlushedType ==
  ASSUME NEW current \in Row, NEW loaded \in Row, NEW left \in Row
  PROVE  Flushed(current, loaded, left) \in Row
BY DEF Flushed, Row

(* Firing moves the schedule strictly past the moment of the tick, or ends *)
(* a one-off, and never makes an automation active that was not.           *)
LEMMA AfterRunType ==
  ASSUME NEW loaded \in Row, loaded.next \in Nat,
         NEW moment \in Nat, NEW ok \in BOOLEAN,
         NEW left, left = AfterRun(loaded, moment, ok)
  PROVE  /\ left \in Row
         /\ left.status \in {loaded.status, "failed", "completed"}
         /\ IF loaded.schedule = "once" THEN left.next = NULL
            ELSE left.next \in Nat /\ left.next > moment
<1>. DEFINE following == NextOccurrence(loaded.schedule, moment, loaded.next)
<1>1. IF loaded.schedule = "once" THEN following = NULL
      ELSE following \in Nat /\ following > moment
  BY NextIsLater
<1>2. following \in Nat \cup {NULL}
  BY <1>1
<1>3. left.next = following
  BY DEF AfterRun, Row
<1>4. left \in Row /\ left.status \in {loaded.status, "failed", "completed"}
  <2>. HIDE DEF following
  <2>1. left = [loaded EXCEPT
                  !.failures = left.failures, !.status = left.status,
                  !.enabled = left.enabled, !.next = following]
    BY DEF AfterRun, Row, following
  <2>2. left.failures \in Nat
    BY LimitsAssumption DEF AfterRun, Row
  <2>3. left.status \in {loaded.status, "failed", "completed"}
    BY DEF AfterRun, Row
  <2>4. left.enabled \in BOOLEAN
    BY DEF AfterRun, Row
  <2>. QED  BY <1>2, <2>1, <2>2, <2>3, <2>4 DEF Row, Statuses
<1>. QED
  BY <1>1, <1>3, <1>4

(* Toggling leaves the schedule alone or moves a missed one strictly past  *)
(* the moment of the request; only resuming activates.                     *)
LEMMA AfterToggleType ==
  ASSUME NEW loaded \in Row, NEW enable \in BOOLEAN, NEW at \in Nat,
         NEW left, left = AfterToggle(loaded, enable, at)
  PROVE  /\ left \in Row
         /\ left.status = "active" => enable
         /\ left.next # loaded.next =>
              /\ loaded.next \in Nat /\ loaded.next <= at
              /\ IF loaded.schedule = "once" THEN left.next = NULL
                 ELSE left.next \in Nat /\ left.next > at
<1>. DEFINE missed == loaded.next # NULL /\ loaded.next <= at
            following == NextOccurrence(loaded.schedule, at, loaded.next)
<1>1. CASE ~enable
  BY <1>1 DEF AfterToggle, Row, Statuses
<1>2. CASE enable /\ ~missed
  BY <1>2 DEF AfterToggle, Row, Statuses
<1>3. CASE enable /\ missed
  <2>1. loaded.next \in Nat
    BY <1>3 DEF Row
  <2>2. IF loaded.schedule = "once" THEN following = NULL
        ELSE following \in Nat /\ following > at
    BY <2>1, NextIsLater
  <2>3. left = [loaded EXCEPT
                  !.enabled = TRUE,
                  !.status = IF following = NULL THEN "completed" ELSE "active",
                  !.failures = 0, !.next = following]
    BY <1>3 DEF AfterToggle
  <2>. HIDE DEF following
  <2>4. left \in Row
    <3>1. following \in Nat \cup {NULL}
      BY <2>2
    <3>2. PICK status \in Statuses :
            left = [loaded EXCEPT !.enabled = TRUE, !.status = status,
                                  !.failures = 0, !.next = following]
      BY <2>3 DEF Statuses
    <3>3. left = [schedule |-> loaded.schedule, status |-> status,
                  enabled |-> TRUE, next |-> following, failures |-> 0]
      BY <3>2 DEF Row
    <3>. QED  BY <3>1, <3>3 DEF Row
  <2>5. left.next = following
    BY <2>3 DEF Row
  <2>. QED  BY <1>3, <2>1, <2>2, <2>4, <2>5
<1>. QED
  BY <1>1, <1>2, <1>3

-----------------------------------------------------------------------------
(* Types.  A poller's entries carry a slot, so a run has one too, and a    *)
(* run is committed with a row to update: the type invariant is inductive  *)
(* together with EntriesAreDue and ClaimsHaveRows.                         *)

TypeInv == TypeOK /\ PeakIsLatest /\ EntriesAreDue /\ ClaimsHaveRows

(* The initial state is well typed.                                        *)
LEMMA TypeInit == Init => TypeInv
BY DEF Init, TypeInv, TypeOK, PeakIsLatest, EntriesAreDue, ClaimsHaveRows

(* Listing what is due keeps the types; the entries are due by the query.  *)
LEMMA TypeListDue ==
  ASSUME TypeInv, NEW s \in Schedulers, ListDue(s)
  PROVE  TypeInv'
<1>1. PICK listed \in SUBSET Due :
        batch' = [batch EXCEPT ![s] =
          {[auto |-> a, loaded |-> row[a], moment |-> now] : a \in listed}]
  BY DEF ListDue
<1>. DEFINE entries ==
       {[auto |-> a, loaded |-> row[a], moment |-> now] : a \in listed}
<1>2. \A e \in entries :
        /\ e \in Entry /\ e.loaded.next \in Nat /\ e.loaded.next <= e.moment
        /\ e.moment <= peak /\ e.loaded.status = "active"
  <2>. SUFFICES ASSUME NEW a \in listed
       PROVE  LET e == [auto |-> a, loaded |-> row[a], moment |-> now]
              IN  /\ e \in Entry /\ e.loaded.next \in Nat
                  /\ e.loaded.next <= e.moment
                  /\ e.moment <= peak /\ e.loaded.status = "active"
    OBVIOUS
  <2>1. a \in Automations /\ IsDue(a)
    BY DEF Due
  <2>2. row[a] \in Row /\ now \in Nat /\ now <= peak
    BY <2>1 DEF IsDue, TypeInv, TypeOK, PeakIsLatest
  <2>3. row[a].next \in Nat /\ row[a].next <= now /\ row[a].status = "active"
    BY <2>1, <2>2 DEF IsDue, Row
  <2>. QED  BY <2>1, <2>2, <2>3 DEF Entry
<1>. HIDE DEF entries
<1>3. UNCHANGED <<unused, row, runs, claim, toggle, creation, now, peak,
                  setbacks, refired, lost, aborts>>
  BY DEF ListDue, table, requests, clock, history
<1>4. TypeOK'
  BY <1>1, <1>2, <1>3 DEF TypeInv, TypeOK, entries
<1>5. PeakIsLatest'
  BY <1>3 DEF TypeInv, PeakIsLatest
<1>6. EntriesAreDue'
  BY <1>1, <1>2, <1>3 DEF TypeInv, TypeOK, EntriesAreDue, entries
<1>7. ClaimsHaveRows'
  BY <1>3 DEF TypeInv, ClaimsHaveRows
<1>. QED  BY <1>4, <1>5, <1>6, <1>7 DEF TypeInv

(* Taking an entry out of a batch, with or without a claim, or dropping    *)
(* the batch keeps the types.                                              *)
LEMMA TypeClaim ==
  ASSUME TypeInv, NEW s \in Schedulers,
         Claim(s) \/ ClaimRefused(s) \/ Abort(s)
  PROVE  TypeInv'
<1>1. UNCHANGED <<unused, row, runs, toggle, creation, now, peak, setbacks,
                  refired, lost>>
  BY DEF Claim, ClaimRefused, Abort, table, requests, clock, history
<1>2. aborts' \in Nat
  BY DEF Claim, ClaimRefused, Abort, TypeInv, TypeOK
<1>3. /\ \A t \in Schedulers : batch'[t] \subseteq batch[t]
      /\ batch' \in [Schedulers -> SUBSET Entry]
  BY DEF Claim, ClaimRefused, Abort, TypeInv, TypeOK
<1>4. /\ \A t \in Schedulers : claim'[t] \in batch[t] \cup {claim[t], NULL}
      /\ claim' \in [Schedulers -> Entry \cup {NULL}]
  BY DEF Claim, ClaimRefused, Abort, TypeInv, TypeOK
<1>5. TypeOK'
  BY <1>1, <1>2, <1>3, <1>4 DEF TypeInv, TypeOK
<1>6. EntriesAreDue' /\ PeakIsLatest'
  BY <1>1, <1>3, <1>4 DEF TypeInv, EntriesAreDue, PeakIsLatest
<1>7. ClaimsHaveRows'
  <2>. SUFFICES ASSUME NEW t \in Schedulers, claim'[t] # NULL
                PROVE  row'[claim'[t].auto] # NULL
    BY DEF ClaimsHaveRows
  <2>1. CASE claim'[t] = claim[t]
    BY <1>1, <2>1 DEF TypeInv, ClaimsHaveRows
  <2>2. CASE claim'[t] # claim[t]
    BY <1>1, <2>2 DEF Claim, ClaimRefused, Abort, KeyTaken, TypeInv, TypeOK
  <2>. QED  BY <2>1, <2>2
<1>. QED  BY <1>5, <1>6, <1>7 DEF TypeInv

(* What committing a run writes: the row exists, and its new value is one. *)
LEMMA FinishEffect ==
  ASSUME TypeInv, NEW s \in Schedulers, NEW ok \in BOOLEAN, Finish(s, ok)
  PROVE  /\ claim[s] \in Entry /\ claim[s].loaded.next \in Nat
         /\ row[claim[s].auto] \in Row
         /\ \E left \in Row :
              /\ left = AfterRun(claim[s].loaded, claim[s].moment, ok)
              /\ Flushed(row[claim[s].auto], claim[s].loaded, left) \in Row
              /\ row' = [row EXCEPT ![claim[s].auto] =
                           Flushed(row[claim[s].auto], claim[s].loaded, left)]
              /\ lost' = IF LosesSchedule(row[claim[s].auto], claim[s].loaded, left)
                           THEN lost \cup {claim[s].auto} ELSE lost
<1>1. claim[s] # NULL /\ claim[s] \in Entry /\ claim[s].loaded.next \in Nat
  BY DEF Finish, TypeInv, TypeOK, EntriesAreDue
<1>2. /\ claim[s].auto \in Automations /\ claim[s].loaded \in Row
      /\ claim[s].moment \in Nat
  BY <1>1 DEF Entry
<1>3. row[claim[s].auto] \in Row
  BY <1>1, <1>2 DEF TypeInv, TypeOK, ClaimsHaveRows
<1>4. PICK left : left = AfterRun(claim[s].loaded, claim[s].moment, ok)
  OBVIOUS
<1>5. left \in Row
  BY <1>1, <1>2, <1>4, AfterRunType
<1>6. Flushed(row[claim[s].auto], claim[s].loaded, left) \in Row
  BY <1>2, <1>3, <1>5, FlushedType
<1>. QED
  BY <1>1, <1>3, <1>4, <1>5, <1>6 DEF Finish

(* Committing a run keeps the types.                                       *)
LEMMA TypeFinish ==
  ASSUME TypeInv, NEW s \in Schedulers, NEW ok \in BOOLEAN, Finish(s, ok)
  PROVE  TypeInv'
<1>. DEFINE a == claim[s].auto
            slot == claim[s].loaded.next
            run == [slot |-> slot,
                    status |-> IF ok THEN "succeeded" ELSE "failed"]
<1>1. PICK new \in Row :
        row' = [row EXCEPT ![a] = new] /\ lost' \subseteq lost \cup {a}
  BY FinishEffect
<1>2. a \in Automations /\ slot \in Nat
  BY FinishEffect DEF Entry
<1>3. /\ runs' = [runs EXCEPT ![a] = @ \cup {run}]
      /\ refired' \subseteq refired \cup {<<a, slot>>}
      /\ claim' = [claim EXCEPT ![s] = NULL]
      /\ UNCHANGED <<unused, batch, toggle, creation, now, peak, setbacks, aborts>>
  BY DEF Finish, requests, clock
<1>4. run \in Run
  BY <1>2 DEF Run
<1>. HIDE DEF a, slot, run
<1>5. TypeOK'
  <2>1. row' \in [Automations -> Row \cup {NULL}]
    BY <1>1 DEF TypeInv, TypeOK
  <2>2. runs' \in [Automations -> SUBSET Run]
    BY <1>3, <1>4 DEF TypeInv, TypeOK
  <2>3. refired' \subseteq Automations \X Nat /\ lost' \subseteq Automations
    BY <1>1, <1>2, <1>3 DEF TypeInv, TypeOK
  <2>. QED  BY <1>3, <2>1, <2>2, <2>3 DEF TypeInv, TypeOK
<1>6. EntriesAreDue' /\ PeakIsLatest'
  BY <1>3 DEF TypeInv, TypeOK, EntriesAreDue, PeakIsLatest
<1>7. ClaimsHaveRows'
  <2>1. \A b \in Automations : row[b] # NULL => row'[b] # NULL
    BY <1>1, NullAssumption DEF TypeInv, TypeOK
  <2>. QED  BY <1>3, <2>1 DEF TypeInv, TypeOK, ClaimsHaveRows, Entry
<1>. QED  BY <1>5, <1>6, <1>7 DEF TypeInv

(* What the commit of a toggle writes, if the row is still there.          *)
LEMMA ToggleEffect ==
  ASSUME TypeInv, NEW c \in Clients, WriteToggle(c)
  PROVE  /\ toggle[c] \in Toggle
         /\ \/ UNCHANGED <<row, lost>>
            \/ /\ row[toggle[c].auto] \in Row
               /\ \E left \in Row :
                    /\ left = AfterToggle(toggle[c].loaded, toggle[c].enable,
                                          toggle[c].at)
                    /\ Flushed(row[toggle[c].auto], toggle[c].loaded, left) \in Row
                    /\ row' = [row EXCEPT ![toggle[c].auto] =
                                 Flushed(row[toggle[c].auto], toggle[c].loaded, left)]
                    /\ lost' = IF LosesSchedule(row[toggle[c].auto],
                                                toggle[c].loaded, left)
                                 THEN lost \cup {toggle[c].auto} ELSE lost
<1>1. toggle[c] \in Toggle
  BY DEF WriteToggle, TypeInv, TypeOK
<1>2. /\ toggle[c].auto \in Automations /\ toggle[c].loaded \in Row
      /\ toggle[c].enable \in BOOLEAN /\ toggle[c].at \in Nat
  BY <1>1 DEF Toggle
<1>3. CASE row[toggle[c].auto] = NULL
  BY <1>1, <1>3 DEF WriteToggle
<1>4. CASE row[toggle[c].auto] # NULL
  <2>1. row[toggle[c].auto] \in Row
    BY <1>2, <1>4 DEF TypeInv, TypeOK
  <2>2. PICK left :
          left = AfterToggle(toggle[c].loaded, toggle[c].enable, toggle[c].at)
    OBVIOUS
  <2>3. left \in Row
    BY <1>2, <2>2, AfterToggleType
  <2>4. Flushed(row[toggle[c].auto], toggle[c].loaded, left) \in Row
    BY <1>2, <2>1, <2>3, FlushedType
  <2>. QED
    BY <1>1, <1>4, <2>1, <2>2, <2>3, <2>4 DEF WriteToggle
<1>. QED  BY <1>3, <1>4

(* A toggle's read and its commit keep the types.                          *)
LEMMA TypeToggle ==
  ASSUME TypeInv, NEW c \in Clients,
         \/ \E a \in Automations, enable \in BOOLEAN : ReadToggle(c, a, enable)
         \/ WriteToggle(c)
  PROVE  TypeInv'
<1>1. CASE \E a \in Automations, enable \in BOOLEAN : ReadToggle(c, a, enable)
  <2>1. PICK a \in Automations, enable \in BOOLEAN : ReadToggle(c, a, enable)
    BY <1>1
  <2>2. /\ row[a] # NULL
        /\ toggle' = [toggle EXCEPT ![c] =
             [auto |-> a, loaded |-> row[a], enable |-> enable, at |-> now]]
        /\ UNCHANGED <<unused, row, runs, batch, claim, creation, now, peak,
                       setbacks, refired, lost, aborts>>
    BY <2>1 DEF ReadToggle, table, pollers, clock, history
  <2>3. [auto |-> a, loaded |-> row[a], enable |-> enable, at |-> now] \in Toggle
    BY <2>2 DEF TypeInv, TypeOK, Toggle
  <2>4. TypeOK'
    BY <2>2, <2>3 DEF TypeInv, TypeOK
  <2>. QED
    BY <2>2, <2>4 DEF TypeInv, EntriesAreDue, PeakIsLatest, ClaimsHaveRows
<1>2. CASE WriteToggle(c)
  <2>1. /\ toggle' = [toggle EXCEPT ![c] = NULL]
        /\ UNCHANGED <<unused, runs, batch, claim, creation, now, peak,
                       setbacks, refired, aborts>>
    BY <1>2 DEF WriteToggle, pollers, clock
  <2>2. toggle[c].auto \in Automations
    BY <1>2, ToggleEffect DEF Toggle
  <2>3. \/ UNCHANGED <<row, lost>>
        \/ \E new \in Row : /\ row' = [row EXCEPT ![toggle[c].auto] = new]
                            /\ lost' \subseteq lost \cup {toggle[c].auto}
    BY <1>2, ToggleEffect
  <2>4. /\ row' \in [Automations -> Row \cup {NULL}]
        /\ \A b \in Automations : row[b] # NULL => row'[b] # NULL
        /\ lost' \subseteq Automations
    BY <2>2, <2>3, NullAssumption DEF TypeInv, TypeOK
  <2>5. TypeOK'
    BY <2>1, <2>4 DEF TypeInv, TypeOK
  <2>6. EntriesAreDue' /\ PeakIsLatest'
    BY <2>1 DEF TypeInv, EntriesAreDue, PeakIsLatest
  <2>7. ClaimsHaveRows'
    BY <2>1, <2>4 DEF TypeInv, TypeOK, ClaimsHaveRows, Entry
  <2>. QED  BY <2>5, <2>6, <2>7 DEF TypeInv
<1>. QED  BY <1>1, <1>2

(* Deleting keeps the types: it waits for the claims of the automation.    *)
LEMMA TypeDelete ==
  ASSUME TypeInv, NEW a \in Automations, Delete(a)
  PROVE  TypeInv'
<1>1. /\ \A s \in Schedulers : claim[s] # NULL => claim[s].auto # a
      /\ row' = [row EXCEPT ![a] = NULL]
      /\ runs' = [runs EXCEPT ![a] = {}]
      /\ lost' = lost \ {a}
      /\ UNCHANGED <<unused, batch, claim, toggle, creation, now, peak,
                     setbacks, refired, aborts>>
  BY DEF Delete, pollers, requests, clock
<1>2. TypeOK'
  BY <1>1 DEF TypeInv, TypeOK
<1>3. EntriesAreDue' /\ PeakIsLatest'
  BY <1>1 DEF TypeInv, EntriesAreDue, PeakIsLatest
<1>4. ClaimsHaveRows'
  BY <1>1 DEF TypeInv, TypeOK, ClaimsHaveRows, Entry
<1>. QED  BY <1>2, <1>3, <1>4 DEF TypeInv

(* What an insert writes: a fresh row for an id that had none.             *)
LEMMA CreateEffect ==
  ASSUME TypeInv, NEW c \in Clients, Create(c)
  PROVE  \/ UNCHANGED table
         \/ \E a \in unused, new \in Row :
              /\ new.status = "active" /\ new.next \in Nat /\ new.failures = 0
              /\ unused' = unused \ {a}
              /\ row' = [row EXCEPT ![a] = new]
              /\ runs' = runs
<1>1. CASE UNCHANGED table
  BY <1>1
<1>2. CASE ~UNCHANGED table
  <2>. DEFINE New(schedule, ahead) ==
         [schedule |-> schedule, status |-> "active", enabled |-> TRUE,
          next |-> creation[c].at + ahead, failures |-> 0]
  <2>1. PICK a \in unused, schedule \in Schedules, ahead \in 1..Horizon :
          /\ unused' = unused \ {a}
          /\ row' = [row EXCEPT ![a] = New(schedule, ahead)]
          /\ runs' = runs
    BY <1>2 DEF Create
  <2>2. creation[c] \in Creation
    BY DEF Create, TypeInv, TypeOK
  <2>3. /\ New(schedule, ahead) \in Row
        /\ New(schedule, ahead).status = "active"
        /\ New(schedule, ahead).next \in Nat
        /\ New(schedule, ahead).failures = 0
    BY <2>2, ScheduleAssumption, BoundsAssumption DEF Creation, Row, Statuses
  <2>. HIDE DEF New
  <2>. QED  BY <2>1, <2>3
<1>. QED  BY <1>1, <1>2

(* Counting and inserting keep the types: a new row waits for an instant   *)
(* after its request.                                                      *)
LEMMA TypeCreate ==
  ASSUME TypeInv, NEW c \in Clients, CountForCreate(c) \/ Create(c)
  PROVE  TypeInv'
<1>1. CASE CountForCreate(c)
  <2>1. /\ creation' = [creation EXCEPT ![c] =
             [total |-> Cardinality(Live), at |-> now]]
        /\ UNCHANGED <<unused, row, runs, batch, claim, toggle, now, peak,
                       setbacks, refired, lost, aborts>>
    BY <1>1 DEF CountForCreate, table, pollers, clock, history
  <2>2. Cardinality(Live) \in Nat
    BY AutomationsFinite, FS_Subset, FS_CardinalityType DEF Live
  <2>3. TypeOK'
    BY <2>1, <2>2 DEF TypeInv, TypeOK, Creation
  <2>. QED
    BY <2>1, <2>3 DEF TypeInv, EntriesAreDue, PeakIsLatest, ClaimsHaveRows
<1>2. CASE Create(c)
  <2>1. /\ creation[c] \in Creation
        /\ creation' = [creation EXCEPT ![c] = NULL]
        /\ UNCHANGED <<batch, claim, toggle, now, peak, setbacks, refired,
                       lost, aborts>>
    BY <1>2 DEF Create, TypeInv, TypeOK, pollers, clock, history
  <2>2. /\ unused' \subseteq unused /\ runs' = runs
        /\ row' \in [Automations -> Row \cup {NULL}]
        /\ \A b \in Automations : row[b] # NULL => row'[b] # NULL
    BY <1>2, CreateEffect, NullAssumption DEF table, TypeInv, TypeOK
  <2>3. TypeOK'
    BY <2>1, <2>2 DEF TypeInv, TypeOK
  <2>4. EntriesAreDue' /\ PeakIsLatest'
    BY <2>1 DEF TypeInv, EntriesAreDue, PeakIsLatest
  <2>5. ClaimsHaveRows'
    BY <2>1, <2>2 DEF TypeInv, TypeOK, ClaimsHaveRows, Entry
  <2>. QED  BY <2>3, <2>4, <2>5 DEF TypeInv
<1>. QED  BY <1>1, <1>2

(* The clock keeps the types, and its peak does not fall behind it.        *)
LEMMA TypeClock ==
  ASSUME TypeInv, Advance \/ SetBack
  PROVE  TypeInv'
<1>1. UNCHANGED <<unused, row, runs, batch, claim, toggle, creation, refired,
                  lost, aborts>>
  BY DEF Advance, SetBack, table, pollers, requests, history
<1>2. /\ now' \in Nat /\ peak' \in Nat /\ setbacks' \in Nat
      /\ now' <= peak' /\ peak <= peak'
  BY DEF Advance, SetBack, TypeInv, TypeOK, PeakIsLatest
<1>3. TypeOK'
  BY <1>1, <1>2 DEF TypeInv, TypeOK
<1>4. EntriesAreDue'
  <2>. SUFFICES ASSUME NEW s \in Schedulers,
                       NEW e \in batch[s] \cup ({claim[s]} \ {NULL})
       PROVE  e.loaded.next \in Nat /\ e.loaded.next <= e.moment
              /\ e.moment <= peak' /\ e.loaded.status = "active"
    BY <1>1 DEF EntriesAreDue
  <2>1. e \in Entry
    BY DEF TypeInv, TypeOK
  <2>. QED  BY <1>2, <2>1 DEF TypeInv, TypeOK, EntriesAreDue, Entry
<1>5. PeakIsLatest' /\ ClaimsHaveRows'
  BY <1>1, <1>2 DEF TypeInv, PeakIsLatest, ClaimsHaveRows
<1>. QED  BY <1>3, <1>4, <1>5 DEF TypeInv

(* Every step of the system keeps the types.                               *)
LEMMA TypeStep == TypeInv /\ [Next]_vars => TypeInv'
<1>. SUFFICES ASSUME TypeInv, [Next]_vars PROVE TypeInv'
  OBVIOUS
<1>1. ASSUME NEW s \in Schedulers, Poller(s) \/ Abort(s) PROVE TypeInv'
  BY <1>1, TypeListDue, TypeClaim, TypeFinish DEF Poller
<1>2. ASSUME NEW c \in Clients, NEW a \in Automations, NEW enable \in BOOLEAN,
             ReadToggle(c, a, enable)
      PROVE  TypeInv'
  BY <1>2, TypeToggle
<1>3. ASSUME NEW c \in Clients, WriteToggle(c) \/ CountForCreate(c) \/ Create(c)
      PROVE  TypeInv'
  BY <1>3, TypeToggle, TypeCreate
<1>4. ASSUME NEW a \in Automations, Delete(a) PROVE TypeInv'
  BY <1>4, TypeDelete
<1>5. CASE Advance \/ SetBack
  BY <1>5, TypeClock
<1>6. CASE UNCHANGED vars
  BY <1>6 DEF vars, table, pollers, requests, clock, history, TypeInv, TypeOK,
              PeakIsLatest, EntriesAreDue, ClaimsHaveRows
<1>. QED
  BY <1>1, <1>2, <1>3, <1>4, <1>5, <1>6 DEF Next

(* The types and the claims rows hold in every reachable state.            *)
LEMMA TypeInvariant == Spec => []TypeInv
BY TypeInit, TypeStep, PTL DEF Spec

(* The state is well typed in every reachable state.                       *)
THEOREM TypeCorrect == Spec => []TypeOK
<1>1. TypeInv => TypeOK
  BY DEF TypeInv
<1>. QED  BY <1>1, TypeInvariant, PTL

-----------------------------------------------------------------------------
(* At most once.  The unique constraint makes the slot of an uncommitted   *)
(* run exclusive from its insert to its commit, and the foreign key keeps  *)
(* the automation from being deleted meanwhile.                            *)

FiringInv == UnusedIsEmpty /\ ClaimsAreExclusive /\ SlotFiresAtMostOnce

(* The initial state has fired nothing.                                    *)
LEMMA FiringInit == Init => FiringInv
BY DEF Init, FiringInv, UnusedIsEmpty, ClaimsAreExclusive, SlotFiresAtMostOnce

(* A step that leaves the tables and the claims alone.                     *)
LEMMA FiringUnchanged ==
  ASSUME FiringInv, UNCHANGED <<unused, row, runs, claim, refired, lost>>
  PROVE  FiringInv'
BY DEF FiringInv, UnusedIsEmpty, ClaimsAreExclusive, SlotFiresAtMostOnce, Fired

(* Inserting a run: its key was neither taken nor pending.                 *)
LEMMA FiringClaim ==
  ASSUME TypeInv, FiringInv, NEW s \in Schedulers, Claim(s)
  PROVE  FiringInv'
<1>1. PICK e \in batch[s] :
        /\ ~Pending(e.auto, e.loaded.next)
        /\ ~KeyTaken(e.auto, e.loaded.next)
        /\ claim' = [claim EXCEPT ![s] = e]
  BY DEF Claim
<1>2. UNCHANGED <<unused, row, runs, refired, lost>>
  BY DEF Claim, table, history
<1>3. claim'[s] = e /\ \A t \in Schedulers \ {s} : claim'[t] = claim[t]
  BY <1>1 DEF TypeInv, TypeOK
<1>4. ClaimsAreExclusive'
  <2>1. \A t \in Schedulers : claim[t] # NULL /\ claim[t].auto = e.auto
                                => claim[t].loaded.next # e.loaded.next
    BY <1>1 DEF Pending
  <2>2. e.loaded.next \notin Fired(e.auto)
    BY <1>1 DEF KeyTaken
  <2>. QED
    BY <1>2, <1>3, <2>1, <2>2 DEF FiringInv, ClaimsAreExclusive, Fired
<1>. QED
  BY <1>2, <1>4 DEF FiringInv, UnusedIsEmpty, SlotFiresAtMostOnce

(* Dropping a claim leaves the others exclusive.                           *)
LEMMA FiringAbort ==
  ASSUME TypeInv, FiringInv, NEW s \in Schedulers, Abort(s)
  PROVE  FiringInv'
<1>1. UNCHANGED <<unused, row, runs, refired, lost>>
  BY DEF Abort, table, history
<1>2. \A t \in Schedulers : claim'[t] \in {claim[t], NULL}
  BY DEF Abort, TypeInv, TypeOK
<1>. QED
  BY <1>1, <1>2
     DEF FiringInv, UnusedIsEmpty, ClaimsAreExclusive, SlotFiresAtMostOnce, Fired

(* Committing a run: its slot is new, and no other claim is for it.        *)
LEMMA FiringFinish ==
  ASSUME TypeInv, FiringInv, NEW s \in Schedulers, NEW ok \in BOOLEAN,
         Finish(s, ok)
  PROVE  FiringInv'
<1>. DEFINE a == claim[s].auto
            slot == claim[s].loaded.next
            status == IF ok THEN "succeeded" ELSE "failed"
<1>1. /\ claim[s] # NULL /\ claim' = [claim EXCEPT ![s] = NULL]
      /\ runs' = [runs EXCEPT ![a] = @ \cup {[slot |-> slot, status |-> status]}]
      /\ refired' = IF slot \in Fired(a)
                      THEN refired \cup {<<a, slot>>} ELSE refired
      /\ unused' = unused
  BY DEF Finish
<1>2. a \in Automations
  BY <1>1 DEF TypeInv, TypeOK, Entry
<1>3. slot \notin Fired(a)
  BY <1>1 DEF FiringInv, ClaimsAreExclusive
<1>4. /\ row[a] # NULL /\ lost' \subseteq lost \cup {a}
      /\ \A b \in Automations : row'[b] = NULL <=> row[b] = NULL
  <2>1. PICK new \in Row :
          row' = [row EXCEPT ![a] = new] /\ lost' \subseteq lost \cup {a}
    BY FinishEffect
  <2>2. row[a] # NULL
    BY FinishEffect, NullAssumption
  <2>. QED  BY <2>1, <2>2, NullAssumption DEF TypeInv, TypeOK
<1>. DEFINE firedNow(b) == {r.slot : r \in runs'[b]}
<1>5. \A b \in Automations :
        firedNow(b) = IF b = a THEN Fired(b) \cup {slot} ELSE Fired(b)
  <2>1. PICK run : run = [slot |-> slot, status |-> status]
    OBVIOUS
  <2>2. run.slot = slot
    BY <2>1
  <2>3. /\ runs'[a] = runs[a] \cup {run}
        /\ \A b \in Automations : b # a => runs'[b] = runs[b]
    BY <1>1, <1>2, <2>1 DEF TypeInv, TypeOK
  <2>4. firedNow(a) = Fired(a) \cup {slot}
    BY <2>2, <2>3 DEF Fired
  <2>. QED  BY <2>3, <2>4 DEF Fired
<1>6. UnusedIsEmpty'
  BY <1>1, <1>2, <1>4 DEF TypeInv, TypeOK, FiringInv, UnusedIsEmpty
<1>7. ClaimsAreExclusive'
  <2>. SUFFICES ASSUME NEW t \in Schedulers, claim'[t] # NULL
       PROVE  /\ claim'[t].loaded.next \notin firedNow(claim'[t].auto)
              /\ \A u \in Schedulers \ {t} :
                   claim'[u] # NULL /\ claim'[u].auto = claim'[t].auto
                     => claim'[u].loaded.next # claim'[t].loaded.next
    BY DEF ClaimsAreExclusive, Fired
  <2>1. /\ t # s /\ claim'[t] = claim[t]
        /\ \A u \in Schedulers : claim'[u] \in {claim[u], NULL}
    BY <1>1 DEF TypeInv, TypeOK
  <2>2. claim[t].auto \in Automations
    BY <2>1 DEF TypeInv, TypeOK, Entry
  <2>3. claim[t].loaded.next \notin Fired(claim[t].auto)
        /\ (claim[t].auto = a => claim[t].loaded.next # slot)
    BY <1>1, <2>1 DEF FiringInv, ClaimsAreExclusive
  <2>4. claim'[t].loaded.next \notin firedNow(claim'[t].auto)
    BY <1>5, <2>1, <2>2, <2>3
  <2>. QED  BY <2>1, <2>4 DEF FiringInv, ClaimsAreExclusive
<1>8. SlotFiresAtMostOnce'
  BY <1>1, <1>3 DEF FiringInv, SlotFiresAtMostOnce
<1>. QED  BY <1>6, <1>7, <1>8 DEF FiringInv

(* The commit of a toggle keeps a row a row.                               *)
LEMMA FiringToggle ==
  ASSUME TypeInv, FiringInv, NEW c \in Clients, WriteToggle(c)
  PROVE  FiringInv'
<1>1. UNCHANGED <<unused, runs, claim, refired>>
  BY DEF WriteToggle, pollers
<1>2. toggle[c].auto \in Automations
  BY ToggleEffect DEF Toggle
<1>3. \/ UNCHANGED <<row, lost>>
      \/ /\ row[toggle[c].auto] # NULL
         /\ lost' \subseteq lost \cup {toggle[c].auto}
         /\ \A b \in Automations : row'[b] = NULL <=> row[b] = NULL
  <2>1. \/ UNCHANGED <<row, lost>>
        \/ /\ row[toggle[c].auto] \in Row
           /\ lost' \subseteq lost \cup {toggle[c].auto}
           /\ \E new \in Row : row' = [row EXCEPT ![toggle[c].auto] = new]
    BY ToggleEffect
  <2>. QED  BY <1>2, <2>1, NullAssumption DEF TypeInv, TypeOK
<1>4. UnusedIsEmpty'
  BY <1>1, <1>2, <1>3 DEF FiringInv, UnusedIsEmpty
<1>. QED
  BY <1>1, <1>4 DEF FiringInv, ClaimsAreExclusive, SlotFiresAtMostOnce, Fired

(* Deleting empties the runs of an automation nobody has claimed.          *)
LEMMA FiringDelete ==
  ASSUME TypeInv, FiringInv, NEW a \in Automations, Delete(a)
  PROVE  FiringInv'
<1>1. /\ \A s \in Schedulers : claim[s] # NULL => claim[s].auto # a
      /\ row' = [row EXCEPT ![a] = NULL]
      /\ runs' = [runs EXCEPT ![a] = {}]
      /\ lost' = lost \ {a}
      /\ UNCHANGED <<unused, claim, refired>>
  BY DEF Delete, pollers
<1>2. UnusedIsEmpty'
  BY <1>1 DEF TypeInv, TypeOK, FiringInv, UnusedIsEmpty
<1>3. \A s \in Schedulers : claim[s] # NULL =>
        runs'[claim[s].auto] = runs[claim[s].auto]
  BY <1>1 DEF TypeInv, TypeOK
<1>4. ClaimsAreExclusive'
  BY <1>1, <1>3 DEF FiringInv, ClaimsAreExclusive, Fired
<1>. QED  BY <1>1, <1>2, <1>4 DEF FiringInv, SlotFiresAtMostOnce

(* Inserting uses an id without runs.                                      *)
LEMMA FiringCreate ==
  ASSUME TypeInv, FiringInv, NEW c \in Clients, Create(c)
  PROVE  FiringInv'
<1>1. UNCHANGED <<claim, refired, lost>>
  BY DEF Create, pollers, history
<1>2. runs' = runs
  BY CreateEffect DEF table
<1>3. UnusedIsEmpty'
  BY <1>1, CreateEffect, NullAssumption
     DEF table, TypeInv, TypeOK, FiringInv, UnusedIsEmpty
<1>. QED
  BY <1>1, <1>2, <1>3
     DEF FiringInv, ClaimsAreExclusive, SlotFiresAtMostOnce, Fired

(* Every step keeps the claims exclusive and fires no slot again.          *)
LEMMA FiringStep == TypeInv /\ FiringInv /\ [Next]_vars => FiringInv'
<1>. SUFFICES ASSUME TypeInv, FiringInv, [Next]_vars PROVE FiringInv'
  OBVIOUS
<1>1. ASSUME NEW s \in Schedulers, Poller(s) \/ Abort(s) PROVE FiringInv'
  <2>1. CASE ListDue(s) \/ ClaimRefused(s)
    BY <2>1, FiringUnchanged DEF ListDue, ClaimRefused, table, history
  <2>. QED
    BY <1>1, <2>1, FiringClaim, FiringFinish, FiringAbort DEF Poller
<1>2. ASSUME NEW c \in Clients, NEW a \in Automations, NEW enable \in BOOLEAN,
             ReadToggle(c, a, enable)
      PROVE  FiringInv'
  BY <1>2, FiringUnchanged DEF ReadToggle, table, pollers, history
<1>3. ASSUME NEW c \in Clients, WriteToggle(c) \/ CountForCreate(c) \/ Create(c)
      PROVE  FiringInv'
  <2>1. CASE CountForCreate(c)
    BY <2>1, FiringUnchanged DEF CountForCreate, table, pollers, history
  <2>. QED  BY <1>3, <2>1, FiringToggle, FiringCreate
<1>4. ASSUME NEW a \in Automations, Delete(a) PROVE FiringInv'
  BY <1>4, FiringDelete
<1>5. CASE Advance \/ SetBack
  BY <1>5, FiringUnchanged DEF Advance, SetBack, table, pollers, history
<1>6. CASE UNCHANGED vars
  BY <1>6, FiringUnchanged DEF vars, table, pollers, history
<1>. QED
  BY <1>1, <1>2, <1>3, <1>4, <1>5, <1>6 DEF Next

(* The claims are exclusive in every reachable state.                      *)
LEMMA FiringInvariant == Spec => [](TypeInv /\ FiringInv)
<1>1. Init => TypeInv /\ FiringInv
  BY TypeInit, FiringInit
<1>2. TypeInv /\ FiringInv /\ [Next]_vars => (TypeInv /\ FiringInv)'
  BY TypeStep, FiringStep
<1>. QED  BY <1>1, <1>2, PTL DEF Spec

(* No slot of an automation fires twice, for any number of pollers and any *)
(* clock: the idempotency the unique constraint is there for.              *)
THEOREM AtMostOnce == Spec => []SlotFiresAtMostOnce
<1>1. FiringInv => SlotFiresAtMostOnce
  BY DEF FiringInv
<1>. QED  BY <1>1, FiringInvariant, PTL

-----------------------------------------------------------------------------
(* The schedule moves on.  A commit that moves a schedule from the value   *)
(* it is known to have moves it strictly forward.                          *)

(* A commit that does not lose the schedule keeps it or moves it forward,  *)
(* past the slot it had loaded.                                            *)
LEMMA FlushedNext ==
  ASSUME NEW current \in Row, NEW loaded \in Row, NEW left \in Row,
         ~LosesSchedule(current, loaded, left)
  PROVE  LET next == Flushed(current, loaded, left).next
         IN  \/ left.next = loaded.next /\ next = current.next
             \/ current.next = loaded.next /\ next = left.next
BY DEF LosesSchedule, Flushed

(* Committing a run leaves all fired slots, its own included, behind.      *)
LEMMA BehindFinish ==
  ASSUME TypeInv, FiredSlotsAreBehind,
         NEW s \in Schedulers, NEW ok \in BOOLEAN, Finish(s, ok)
  PROVE  FiredSlotsAreBehind'
<1>. DEFINE a == claim[s].auto
            loaded == claim[s].loaded
            status == IF ok THEN "succeeded" ELSE "failed"
<1>1. /\ claim[s] \in Entry /\ loaded.next \in Nat
      /\ row[a] \in Row
  BY FinishEffect
<1>2. PICK left \in Row :
        /\ left = AfterRun(loaded, claim[s].moment, ok)
        /\ Flushed(row[a], loaded, left) \in Row
        /\ row' = [row EXCEPT ![a] = Flushed(row[a], loaded, left)]
        /\ lost' = IF LosesSchedule(row[a], loaded, left)
                     THEN lost \cup {a} ELSE lost
  BY FinishEffect
<1>3. a \in Automations /\ loaded \in Row /\ claim[s].moment \in Nat
  BY <1>1 DEF Entry
<1>4. loaded.next <= claim[s].moment
  BY <1>1, NullAssumption DEF Finish, TypeInv, EntriesAreDue
<1>5. left.next = NULL \/ (left.next \in Nat /\ left.next > loaded.next)
  BY <1>1, <1>2, <1>3, <1>4, AfterRunType
<1>6. runs' = [runs EXCEPT ![a] = @ \cup {[slot |-> loaded.next, status |-> status]}]
  BY DEF Finish
<1>. HIDE DEF a, loaded, status
<1>7. PICK run : run = [slot |-> loaded.next, status |-> status]
  OBVIOUS
<1>8. run.slot = loaded.next
  BY <1>7
<1>9. SUFFICES ASSUME NEW b \in Automations, row'[b] # NULL, b \notin lost',
                      row'[b].next # NULL, NEW r \in runs'[b]
               PROVE  r.slot < row'[b].next
  BY DEF FiredSlotsAreBehind, Live, Fired
<1>10. CASE b # a
  <2>1. row'[b] = row[b] /\ runs'[b] = runs[b] /\ b \notin lost
    BY <1>2, <1>3, <1>6, <1>9, <1>10 DEF TypeInv, TypeOK
  <2>. QED
    BY <1>9, <2>1 DEF FiredSlotsAreBehind, Live, Fired
<1>11. CASE b = a
  <2>1. ~LosesSchedule(row[a], loaded, left) /\ a \notin lost
    BY <1>2, <1>9, <1>11
  <2>2. row'[a] = Flushed(row[a], loaded, left)
    BY <1>2, <1>3 DEF TypeInv, TypeOK
  <2>3. row[a].next = loaded.next /\ row'[a].next = left.next
    BY <1>1, <1>2, <1>3, <1>5, <2>1, <2>2, FlushedNext, NullAssumption
  <2>4. \A q \in runs[a] : q.slot < loaded.next
    BY <1>1, <1>3, <2>1, <2>3, NullAssumption
       DEF FiredSlotsAreBehind, Live, Fired
  <2>5. r = run \/ r \in runs[a]
    BY <1>3, <1>6, <1>7, <1>9, <1>11 DEF TypeInv, TypeOK
  <2>6. \A q \in runs[a] : q.slot \in Nat
    BY <1>3 DEF TypeInv, TypeOK, Run
  <2>. QED
    BY <1>1, <1>5, <1>8, <1>9, <1>11, <2>3, <2>4, <2>5, <2>6
<1>. QED  BY <1>10, <1>11

(* So does the commit of a toggle.                                         *)
LEMMA BehindToggle ==
  ASSUME TypeInv, FiredSlotsAreBehind, NEW c \in Clients, WriteToggle(c)
  PROVE  FiredSlotsAreBehind'
<1>. DEFINE a == toggle[c].auto
            loaded == toggle[c].loaded
<1>1. runs' = runs
  BY DEF WriteToggle
<1>2. CASE UNCHANGED <<row, lost>>
  BY <1>1, <1>2 DEF FiredSlotsAreBehind, Live, Fired
<1>3. CASE ~UNCHANGED <<row, lost>>
  <2>1. /\ toggle[c] \in Toggle /\ row[a] \in Row
        /\ \E left \in Row :
             /\ left = AfterToggle(loaded, toggle[c].enable, toggle[c].at)
             /\ row' = [row EXCEPT ![a] = Flushed(row[a], loaded, left)]
             /\ lost' = IF LosesSchedule(row[a], loaded, left)
                          THEN lost \cup {a} ELSE lost
    BY <1>3, ToggleEffect
  <2>2. PICK left \in Row :
          /\ left = AfterToggle(loaded, toggle[c].enable, toggle[c].at)
          /\ row' = [row EXCEPT ![a] = Flushed(row[a], loaded, left)]
          /\ lost' = IF LosesSchedule(row[a], loaded, left)
                       THEN lost \cup {a} ELSE lost
    BY <2>1
  <2>3. /\ a \in Automations /\ loaded \in Row
        /\ toggle[c].enable \in BOOLEAN /\ toggle[c].at \in Nat
    BY <2>1 DEF Toggle
  <2>4. \/ left.next = loaded.next
        \/ left.next = NULL
        \/ loaded.next \in Nat /\ left.next \in Nat /\ left.next > loaded.next
    BY <2>2, <2>3, AfterToggleType
  <2>. HIDE DEF a, loaded
  <2>5. SUFFICES ASSUME NEW b \in Automations, row'[b] # NULL, b \notin lost',
                        row'[b].next # NULL, NEW r \in runs[b]
                 PROVE  r.slot < row'[b].next
    BY <1>1 DEF FiredSlotsAreBehind, Live, Fired
  <2>6. r.slot \in Nat
    BY DEF TypeInv, TypeOK, Run
  <2>7. CASE b # a
    <3>1. row'[b] = row[b] /\ b \notin lost
      BY <2>2, <2>3, <2>5, <2>7 DEF TypeInv, TypeOK
    <3>. QED  BY <2>5, <3>1 DEF FiredSlotsAreBehind, Live, Fired
  <2>8. CASE b = a
    <3>1. ~LosesSchedule(row[a], loaded, left) /\ a \notin lost
      BY <2>2, <2>5, <2>8
    <3>2. row'[a] = Flushed(row[a], loaded, left)
      BY <2>2, <2>3 DEF TypeInv, TypeOK
    <3>3. row[a].next # NULL => r.slot < row[a].next
      BY <2>1, <2>3, <2>5, <2>8, <3>1, NullAssumption
         DEF FiredSlotsAreBehind, Live, Fired
    <3>4. \/ row'[a].next = row[a].next
          \/ row[a].next = loaded.next /\ row'[a].next = left.next
      BY <2>1, <2>3, <3>1, <3>2, FlushedNext
    <3>. QED
      BY <2>4, <2>5, <2>6, <2>8, <3>3, <3>4, NullAssumption
  <2>. QED  BY <2>7, <2>8
<1>. QED  BY <1>2, <1>3

(* Every step leaves the fired slots of a schedule nobody has overwritten  *)
(* behind it.                                                              *)
LEMMA BehindStep ==
  TypeInv /\ FiringInv /\ FiredSlotsAreBehind /\ [Next]_vars
    => FiredSlotsAreBehind'
<1>. SUFFICES ASSUME TypeInv, FiringInv, FiredSlotsAreBehind, [Next]_vars
              PROVE  FiredSlotsAreBehind'
  OBVIOUS
<1>1. ASSUME UNCHANGED <<row, runs, lost>> PROVE FiredSlotsAreBehind'
  BY <1>1 DEF FiredSlotsAreBehind, Live, Fired
<1>2. ASSUME NEW s \in Schedulers, Poller(s) \/ Abort(s)
      PROVE  FiredSlotsAreBehind'
  <2>1. CASE ListDue(s) \/ Claim(s) \/ ClaimRefused(s) \/ Abort(s)
    BY <1>1, <2>1 DEF ListDue, Claim, ClaimRefused, Abort, table, history
  <2>. QED  BY <1>2, <2>1, BehindFinish DEF Poller
<1>3. ASSUME NEW c \in Clients, NEW a \in Automations, NEW enable \in BOOLEAN,
             ReadToggle(c, a, enable)
      PROVE  FiredSlotsAreBehind'
  BY <1>1, <1>3 DEF ReadToggle, table, history
<1>4. ASSUME NEW c \in Clients, Create(c) PROVE FiredSlotsAreBehind'
  <2>1. lost' = lost
    BY <1>4 DEF Create, history
  <2>2. CASE UNCHANGED table
    BY <1>1, <2>1, <2>2 DEF table
  <2>3. CASE ~UNCHANGED table
    <3>1. PICK a \in unused, new \in Row :
            row' = [row EXCEPT ![a] = new] /\ runs' = runs
      BY <1>4, <2>3, CreateEffect
    <3>2. a \in Automations /\ runs[a] = {}
      BY DEF TypeInv, TypeOK, FiringInv, UnusedIsEmpty
    <3>3. \A b \in Automations : b # a => row'[b] = row[b]
      BY <3>1 DEF TypeInv, TypeOK
    <3>. QED
      BY <2>1, <3>1, <3>2, <3>3 DEF FiredSlotsAreBehind, Live, Fired
  <2>. QED  BY <2>2, <2>3
<1>5. ASSUME NEW c \in Clients, WriteToggle(c) \/ CountForCreate(c) \/ Create(c)
      PROVE  FiredSlotsAreBehind'
  <2>1. CASE CountForCreate(c)
    BY <1>1, <2>1 DEF CountForCreate, table, history
  <2>. QED  BY <1>4, <1>5, <2>1, BehindToggle
<1>6. ASSUME NEW a \in Automations, Delete(a) PROVE FiredSlotsAreBehind'
  <2>1. /\ row' = [row EXCEPT ![a] = NULL] /\ runs' = [runs EXCEPT ![a] = {}]
        /\ lost' = lost \ {a}
    BY <1>6 DEF Delete
  <2>2. row'[a] = NULL
    BY <2>1 DEF TypeInv, TypeOK
  <2>3. \A b \in Automations : b # a => row'[b] = row[b] /\ runs'[b] = runs[b]
    BY <2>1 DEF TypeInv, TypeOK
  <2>. QED
    BY <2>1, <2>2, <2>3 DEF FiredSlotsAreBehind, Live, Fired
<1>7. CASE Advance \/ SetBack
  BY <1>1, <1>7 DEF Advance, SetBack, table, history
<1>8. CASE UNCHANGED vars
  BY <1>1, <1>8 DEF vars, table, history
<1>. QED
  BY <1>2, <1>3, <1>5, <1>6, <1>7, <1>8 DEF Next

(* An automation whose schedule no stale session has overwritten waits for *)
(* a slot later than all it has fired: its next claim is not refused.      *)
THEOREM ScheduleMovesOn == Spec => []FiredSlotsAreBehind
<1>1. Init => FiredSlotsAreBehind
  BY DEF Init, FiredSlotsAreBehind, Live
<1>2. TypeInv /\ FiringInv /\ FiredSlotsAreBehind /\ [Next]_vars
        => FiredSlotsAreBehind'
  BY BehindStep
<1>. QED  BY <1>1, <1>2, FiringInvariant, PTL DEF Spec

-----------------------------------------------------------------------------
(* A pause sticks.                                                         *)

(* Of all the steps, only the commit of a resume activates a paused row.   *)
LEMMA PauseStep ==
  ASSUME TypeInv, FiringInv, [Next]_vars, NEW b \in Automations,
         row[b] # NULL, row[b].status = "paused",
         row'[b] # NULL, row'[b].status = "active"
  PROVE  \E c \in Clients :
           /\ toggle[c] # NULL /\ toggle'[c] = NULL
           /\ toggle[c].auto = b /\ toggle[c].enable
<1>1. row'[b] # row[b]
  OBVIOUS
<1>2. ASSUME NEW s \in Schedulers, NEW ok \in BOOLEAN, Finish(s, ok)
      PROVE  FALSE
  <2>. DEFINE a == claim[s].auto
              loaded == claim[s].loaded
  <2>1. PICK left \in Row :
          /\ left = AfterRun(loaded, claim[s].moment, ok)
          /\ row' = [row EXCEPT ![a] = Flushed(row[a], loaded, left)]
    BY <1>2, FinishEffect
  <2>2. /\ claim[s] \in Entry /\ loaded.next \in Nat
    BY <1>2, FinishEffect
  <2>3. loaded.status = "active"
    BY <1>2, <2>2, NullAssumption DEF Finish, TypeInv, EntriesAreDue
  <2>4. left.status \in {"active", "failed", "completed"}
    BY <1>2, <2>1, <2>2, <2>3, AfterRunType DEF Entry
  <2>5. a = b /\ row'[b] = Flushed(row[b], loaded, left)
    BY <1>1, <2>1, <2>2 DEF TypeInv, TypeOK
  <2>. QED  BY <2>3, <2>4, <2>5 DEF Flushed
<1>3. ASSUME NEW c \in Clients, WriteToggle(c)
      PROVE  /\ toggle[c] # NULL /\ toggle'[c] = NULL
             /\ toggle[c].auto = b /\ toggle[c].enable
  <2>1. row' # row
    BY <1>1
  <2>2. toggle[c] \in Toggle
    BY <1>3, ToggleEffect
  <2>3. PICK left \in Row :
          /\ left = AfterToggle(toggle[c].loaded, toggle[c].enable, toggle[c].at)
          /\ row' = [row EXCEPT ![toggle[c].auto] =
                       Flushed(row[toggle[c].auto], toggle[c].loaded, left)]
    BY <1>3, <2>1, ToggleEffect
  <2>4. toggle[c].auto = b /\ row'[b] = Flushed(row[b], toggle[c].loaded, left)
    BY <1>1, <2>2, <2>3 DEF TypeInv, TypeOK, Toggle
  <2>5. left.status = "active"
    BY <2>4 DEF Flushed
  <2>6. toggle[c].enable
    BY <2>2, <2>3, <2>5, AfterToggleType DEF Toggle
  <2>. QED
    BY <1>3, <2>4, <2>6 DEF WriteToggle, TypeInv, TypeOK
<1>4. ASSUME NEW c \in Clients, Create(c) PROVE FALSE
  <2>1. \/ row' = row
        \/ \E a \in unused, new \in Row : row' = [row EXCEPT ![a] = new]
    BY <1>4, CreateEffect DEF table
  <2>2. \A a \in unused : a # b
    BY DEF FiringInv, UnusedIsEmpty
  <2>. QED  BY <1>1, <2>1, <2>2 DEF TypeInv, TypeOK
<1>5. ASSUME NEW a \in Automations, Delete(a) PROVE FALSE
  <2>1. row' = [row EXCEPT ![a] = NULL]
    BY <1>5 DEF Delete
  <2>. QED  BY <1>1, <2>1 DEF TypeInv, TypeOK
<1>6. ASSUME row' = row PROVE FALSE
  BY <1>1, <1>6
<1>7. ASSUME NEW s \in Schedulers, Poller(s) \/ Abort(s) PROVE FALSE
  BY <1>2, <1>6, <1>7
     DEF Poller, ListDue, Claim, ClaimRefused, Abort, table
<1>8. ASSUME NEW c \in Clients, NEW a \in Automations, NEW enable \in BOOLEAN,
             ReadToggle(c, a, enable)
      PROVE  FALSE
  BY <1>6, <1>8 DEF ReadToggle, table
<1>9. ASSUME NEW c \in Clients, CountForCreate(c) PROVE FALSE
  BY <1>6, <1>9 DEF CountForCreate, table
<1>10. ~(Advance \/ SetBack \/ UNCHANGED vars)
  BY <1>6 DEF Advance, SetBack, vars, table
<1>. QED
  BY <1>3, <1>4, <1>5, <1>7, <1>8, <1>9, <1>10 DEF Next

(* No poller undoes a pause, however old the copy of the row it holds.     *)
THEOREM PauseSticks == Spec => PauseIsNotUndone
<1>. DEFINE Sticks ==
       \A a \in Automations :
         (/\ row[a] # NULL /\ row[a].status = "paused"
          /\ row'[a] # NULL /\ row'[a].status = "active")
         => \E c \in Clients :
              /\ toggle[c] # NULL /\ toggle'[c] = NULL
              /\ toggle[c].auto = a /\ toggle[c].enable
<1>1. TypeInv /\ FiringInv /\ [Next]_vars => Sticks
  BY PauseStep
<1>2. PauseIsNotUndone <=> [][Sticks]_vars
  BY DEF PauseIsNotUndone
<1>. HIDE DEF Sticks
<1>. QED  BY <1>1, <1>2, FiringInvariant, PTL DEF Spec

-----------------------------------------------------------------------------
(* Automations implements ReminderLedger.                                  *)

(* The ledger holds exactly the slots of the committed runs.               *)
LEMMA DeliveredMember ==
  \A x : x \in Delivered
           <=> \E a \in Automations : \E slot \in Fired(a) : x = <<a, slot>>
BY DEF Delivered

(* Committing a run makes one reminder go off, at or after its time.       *)
LEMMA LedgerFinish ==
  ASSUME TypeInv, FiringInv,
         NEW s \in Schedulers, NEW ok \in BOOLEAN, Finish(s, ok)
  PROVE  Ledger!Next
<1>. DEFINE a == claim[s].auto
            slot == claim[s].loaded.next
            status == IF ok THEN "succeeded" ELSE "failed"
            fired(b) == {r.slot : r \in runs'[b]}
            delivered == UNION {{<<b, t>> : t \in fired(b)} : b \in Automations}
<1>1. /\ claim[s] \in Entry /\ slot \in Nat
      /\ a \in Automations
  BY FinishEffect DEF Entry
<1>2. slot \in 0..peak
  <2>1. slot <= claim[s].moment /\ claim[s].moment <= peak
    BY <1>1, NullAssumption DEF Finish, TypeInv, EntriesAreDue
  <2>. QED  BY <1>1, <2>1 DEF Entry, TypeInv, TypeOK
<1>3. slot \notin Fired(a)
  BY DEF Finish, FiringInv, ClaimsAreExclusive
<1>4. \A b \in Automations :
        fired(b) = IF b = a THEN Fired(b) \cup {slot} ELSE Fired(b)
  <2>1. PICK run : run = [slot |-> slot, status |-> status]
    OBVIOUS
  <2>2. run.slot = slot
    BY <2>1
  <2>3. /\ runs'[a] = runs[a] \cup {run}
        /\ \A b \in Automations : b # a => runs'[b] = runs[b]
    BY <1>1, <2>1 DEF Finish, TypeInv, TypeOK
  <2>4. fired(a) = Fired(a) \cup {slot}
    BY <2>2, <2>3 DEF Fired
  <2>. QED  BY <2>3, <2>4 DEF Fired
<1>. HIDE DEF a, slot, status, fired
<1>5. \A x : x \in delivered
               <=> \E b \in Automations : \E t \in fired(b) : x = <<b, t>>
  OBVIOUS
<1>. HIDE DEF delivered
<1>6. delivered = Delivered \cup {<<a, slot>>}
  BY <1>1, <1>4, <1>5, DeliveredMember
<1>7. <<a, slot>> \notin Delivered
  BY <1>3, DeliveredMember
<1>8. Delivered' = delivered
  BY DEF Delivered, Fired, delivered, fired
<1>9. peak' = peak /\ refired' = refired
  BY <1>3 DEF Finish, clock, a, slot
<1>10. slot <= peak
  BY <1>2 DEF TypeInv, TypeOK
<1>11. Ledger!GoOff(a, slot)
  BY <1>6, <1>7, <1>8, <1>9, <1>10 DEF Ledger!GoOff
<1>. QED
  BY <1>1, <1>2, <1>11 DEF Ledger!Next

(* Deleting an automation forgets its reminders.                           *)
LEMMA LedgerDelete ==
  ASSUME TypeInv, NEW a \in Automations, Delete(a)
  PROVE  Ledger!Next
<1>. DEFINE fired(b) == {r.slot : r \in runs'[b]}
            delivered == UNION {{<<b, t>> : t \in fired(b)} : b \in Automations}
<1>1. \A b \in Automations : runs'[b] = IF b = a THEN {} ELSE runs[b]
  BY DEF Delete, TypeInv, TypeOK
<1>2. \A b \in Automations : fired(b) = IF b = a THEN {} ELSE Fired(b)
  BY <1>1 DEF Fired
<1>. HIDE DEF fired
<1>3. \A x : x \in delivered
               <=> \E b \in Automations : \E t \in fired(b) : x = <<b, t>>
  OBVIOUS
<1>. HIDE DEF delivered
<1>4. delivered = {entry \in Delivered : entry[1] # a}
  <2>1. ASSUME NEW x
        PROVE  x \in delivered <=> x \in Delivered /\ x[1] # a
    BY <1>2, <1>3, DeliveredMember
  <2>. QED  BY <2>1
<1>5. Delivered' = delivered
  BY DEF Delivered, Fired, delivered, fired
<1>6. peak' = peak /\ refired' = refired
  BY DEF Delete, clock
<1>7. Ledger!Forget(a)
  BY <1>4, <1>5, <1>6 DEF Ledger!Forget
<1>. QED  BY <1>7 DEF Ledger!Next

(* Every step of the system is a step of the ledger or leaves it alone.    *)
LEMMA LedgerStep ==
  TypeInv /\ FiringInv /\ [Next]_vars
    => [Ledger!Next]_<<Delivered, refired, peak>>
<1>. SUFFICES ASSUME TypeInv, FiringInv, [Next]_vars
              PROVE  [Ledger!Next]_<<Delivered, refired, peak>>
  OBVIOUS
<1>0. refired' = refired
  BY FiringStep DEF FiringInv, SlotFiresAtMostOnce
<1>1. ASSUME runs' = runs, peak' = peak
      PROVE  UNCHANGED <<Delivered, refired, peak>>
  BY <1>0, <1>1 DEF Delivered, Fired
<1>2. ASSUME NEW s \in Schedulers, Poller(s) \/ Abort(s)
      PROVE  [Ledger!Next]_<<Delivered, refired, peak>>
  <2>1. CASE ListDue(s) \/ Claim(s) \/ ClaimRefused(s) \/ Abort(s)
    BY <1>1, <2>1 DEF ListDue, Claim, ClaimRefused, Abort, table, clock
  <2>. QED  BY <1>2, <2>1, LedgerFinish DEF Poller
<1>3. ASSUME NEW c \in Clients, NEW a \in Automations, NEW enable \in BOOLEAN,
             ReadToggle(c, a, enable)
      PROVE  UNCHANGED <<Delivered, refired, peak>>
  BY <1>1, <1>3 DEF ReadToggle, table, clock
<1>4. ASSUME NEW c \in Clients, WriteToggle(c) \/ CountForCreate(c) \/ Create(c)
      PROVE  UNCHANGED <<Delivered, refired, peak>>
  <2>1. CASE Create(c)
    <3>1. runs' = runs
      BY <2>1, CreateEffect DEF table
    <3>. QED  BY <1>1, <2>1, <3>1 DEF Create, clock
  <2>. QED
    BY <1>1, <1>4, <2>1 DEF WriteToggle, CountForCreate, table, clock
<1>5. CASE Advance
  <2>1. runs' = runs /\ (peak' = peak \/ peak' = peak + 1)
    BY <1>5 DEF Advance, table, TypeInv, TypeOK, PeakIsLatest
  <2>2. Delivered' = Delivered
    BY <2>1 DEF Delivered, Fired
  <2>. QED
    BY <1>0, <2>1, <2>2 DEF Ledger!Next, Ledger!TimePasses
<1>6. CASE SetBack
  BY <1>1, <1>6 DEF SetBack, table
<1>7. CASE UNCHANGED vars
  BY <1>1, <1>7 DEF vars, table, clock
<1>. QED
  BY <1>2, <1>3, <1>4, <1>5, <1>6, <1>7, LedgerDelete DEF Next

(* The table, the pollers and the requests together keep the promise of    *)
(* the ledger: every slot at most once, never again, and never early.      *)
THEOREM KeepsTheLedger == Spec => FiresLikeALedger
<1>1. Init => Ledger!Init
  BY DEF Init, Ledger!Init, Delivered, Fired
<1>2. TypeInv /\ FiringInv /\ [Next]_vars
        => [Ledger!Next]_<<Delivered, refired, peak>>
  BY LedgerStep
<1>. QED
  BY <1>1, <1>2, FiringInvariant, PTL DEF Spec, FiresLikeALedger, Ledger!Spec

-----------------------------------------------------------------------------
(* A row tells its runs.  Pollers and resumes write what they computed     *)
(* from copies of the row, so the invariant speaks of the copies too.      *)

(* Slots a whole number of steps apart.                                    *)
Apart(x, y, step) == (x - y) % step = 0

(* What is zero modulo the step is a multiple of it, and conversely.       *)
LEMMA MultipleOf ==
  ASSUME NEW step \in Nat \ {0}, NEW d \in Int
  PROVE  d % step = 0 <=> \E n \in Int : d = step * n
<1>1. /\ d \div step \in Int
      /\ d = step * (d \div step) + (d % step)
      /\ d % step \in 0..(step - 1)
  OBVIOUS
<1>. DEFINE q == d \div step
            r == d % step
<1>2. q \in Int /\ r \in Int /\ 0 <= r /\ r < step /\ d = step * q + r
  BY <1>1
<1>. HIDE DEF q, r
<1>3. ASSUME NEW n \in Int, d = step * n PROVE r = 0
  <2>1. r = step * (n - q)
    BY <1>2, <1>3
  <2>2. CASE n - q >= 1
    BY <1>2, <2>1, <2>2
  <2>3. CASE n - q <= -1
    BY <1>2, <2>1, <2>3
  <2>4. CASE n - q = 0
    BY <1>2, <2>1, <2>4
  <2>. QED  BY <1>2, <2>2, <2>3, <2>4
<1>4. r = 0 => d = step * q
  BY <1>2
<1>5. r = 0 <=> \E n \in Int : d = step * n
  BY <1>2, <1>3, <1>4
<1>. QED  BY <1>5 DEF r

(* Being apart by whole steps is an equivalence.                           *)
LEMMA ApartEquivalence ==
  ASSUME NEW step \in Nat \ {0}, NEW x \in Int, NEW y \in Int, NEW z \in Int
  PROVE  /\ Apart(x, x, step)
         /\ Apart(x, y, step) => Apart(y, x, step)
         /\ Apart(x, y, step) /\ Apart(y, z, step) => Apart(x, z, step)
<1>. x - x \in Int /\ x - y \in Int /\ y - x \in Int /\ y - z \in Int /\ x - z \in Int
  OBVIOUS
<1>1. Apart(x, x, step)
  <2>1. x - x = step * 0
    OBVIOUS
  <2>. QED  BY <2>1, MultipleOf DEF Apart
<1>2. ASSUME Apart(x, y, step) PROVE Apart(y, x, step)
  <2>1. PICK n \in Int : x - y = step * n
    BY <1>2, MultipleOf DEF Apart
  <2>2. y - x = step * (-n)
    BY <2>1
  <2>. QED  BY <2>2, MultipleOf DEF Apart
<1>3. ASSUME Apart(x, y, step), Apart(y, z, step) PROVE Apart(x, z, step)
  <2>1. PICK n \in Int : x - y = step * n
    BY <1>3, MultipleOf DEF Apart
  <2>2. PICK m \in Int : y - z = step * m
    BY <1>3, MultipleOf DEF Apart
  <2>3. x - z = step * (n + m)
    BY <2>1, <2>2
  <2>. QED  BY <2>3, MultipleOf DEF Apart
<1>. QED  BY <1>1, <1>2, <1>3

(* next_occurrence stays on the grid of its anchor.                        *)
LEMMA NextIsApart ==
  ASSUME NEW schedule, schedule # "once", NEW after \in Nat, NEW anchor \in Nat
  PROVE  Apart(NextOccurrence(schedule, after, anchor), anchor, Step(schedule))
<1>. DEFINE step == Step(schedule)
            jumps == ((after - anchor) \div step) + 1
<1>1. step \in Nat \ {0}
  BY StepPositive
<1>2. jumps \in Int
  <2>. HIDE DEF step
  <2>. QED  BY <1>1
<1>3. \/ NextOccurrence(schedule, after, anchor) = anchor
      \/ NextOccurrence(schedule, after, anchor) = anchor + step * jumps
  BY DEF NextOccurrence
<1>. HIDE DEF step, jumps
<1>4. Apart(anchor, anchor, step)
  BY <1>1, ApartEquivalence
<1>5. Apart(anchor + step * jumps, anchor, step)
  <2>1. (anchor + step * jumps) - anchor = step * jumps
    BY <1>1, <1>2
  <2>2. step * jumps \in Int
    BY <1>1, <1>2
  <2>. QED  BY <1>1, <1>2, <2>1, <2>2, MultipleOf DEF Apart
<1>. QED  BY <1>3, <1>4, <1>5 DEF step

(* The copies of a row that are held by the processes.                     *)
Held(a) ==
  LET queued == UNION {batch[s] : s \in Schedulers}
      claimed == {claim[s] : s \in Schedulers} \ {NULL}
      toggled == {toggle[c] : c \in Clients} \ {NULL}
  IN  {e.loaded : e \in {d \in queued \cup claimed \cup toggled : d.auto = a}}

(* The slots a row and its copies wait for, and those that were fired.     *)
Slots(current, held, fired) ==
  fired \cup ({copy.next : copy \in held \cup {current}} \ {NULL})

(* All of them are whole steps apart.                                      *)
Aligned(current, held, fired) ==
  /\ \A copy \in held : copy.schedule = current.schedule
  /\ current.schedule # "once" =>
       \A x, y \in Slots(current, held, fired) :
         Apart(x, y, Step(current.schedule))

(* The latest runs, back to the last success.                              *)
Streak(done) ==
  {r \in done : \A q \in done : q.slot >= r.slot => q.status = "failed"}

(* The row counts no failure the runs do not show, and neither does a copy *)
(* that is young enough for its commit not to be a lost schedule.          *)
Truthful(current, held, done) ==
  /\ current.failures <= Cardinality(Streak(done))
  /\ \A copy \in held :
       /\ copy.next = NULL => current.next = NULL
       /\ copy.next # NULL /\ current.next # NULL => copy.next <= current.next
       /\ copy.next = current.next =>
            /\ copy.failures <= Cardinality(Streak(done))
            /\ current.failures <= copy.failures

RowInv(a) ==
  /\ IsFiniteSet(runs[a])
  /\ a \in unused => Held(a) = {}
  /\ a \in Live => Aligned(row[a], Held(a), Fired(a))
  /\ a \in Live \ lost => Truthful(row[a], Held(a), runs[a])

RowsInv == \A a \in Automations : RowInv(a)

(* Slots that each lie whole steps from one of the old ones are aligned.   *)
LEMMA StaysAligned ==
  ASSUME NEW step \in Nat \ {0}, NEW old \in SUBSET Nat, NEW new \in SUBSET Nat,
         \A x, y \in old : Apart(x, y, step),
         \A x \in new : \E y \in old : Apart(x, y, step)
  PROVE  \A x, y \in new : Apart(x, y, step)
<1>. SUFFICES ASSUME NEW x \in new, NEW y \in new PROVE Apart(x, y, step)
  OBVIOUS
<1>1. PICK p \in old : Apart(x, p, step)
  OBVIOUS
<1>2. PICK q \in old : Apart(y, q, step)
  OBVIOUS
<1>3. x \in Int /\ y \in Int /\ p \in Int /\ q \in Int
  OBVIOUS
<1>4. Apart(p, q, step)
  OBVIOUS
<1>5. Apart(x, q, step)
  BY <1>1, <1>3, <1>4, ApartEquivalence
<1>6. Apart(q, y, step)
  BY <1>2, <1>3, ApartEquivalence
<1>. QED
  BY <1>3, <1>5, <1>6, ApartEquivalence

(* The slots of a row are instants.                                        *)
LEMMA SlotsAreInstants ==
  ASSUME NEW current \in Row, NEW held \in SUBSET Row, NEW fired \in SUBSET Nat
  PROVE  Slots(current, held, fired) \in SUBSET Nat
BY DEF Slots, Row

(* Losing copies, or reading the row once more, keeps the slots aligned.   *)
LEMMA AlignedRead ==
  ASSUME NEW current \in Row, NEW held \in SUBSET Row, NEW fired \in SUBSET Nat,
         Aligned(current, held, fired),
         NEW heldNow \in SUBSET (held \cup {current})
  PROVE  Aligned(current, heldNow, fired)
<1>1. Slots(current, heldNow, fired) \subseteq Slots(current, held, fired)
  BY DEF Slots
<1>. QED  BY <1>1 DEF Aligned

(* A commit that leaves the slot of the row or of the copy, or the next    *)
(* occurrence of the latter, keeps the slots aligned; so does firing the   *)
(* slot of the copy.                                                       *)
LEMMA AlignedWrite ==
  ASSUME NEW current \in Row, NEW held \in SUBSET Row, NEW fired \in SUBSET Nat,
         Aligned(current, held, fired),
         NEW copy \in held, NEW at \in Nat, NEW new \in Row,
         new.schedule = current.schedule,
         \/ new.next \in {current.next, copy.next}
         \/ /\ copy.next \in Nat
            /\ new.next = NextOccurrence(copy.schedule, at, copy.next),
         NEW heldNow \in SUBSET held,
         NEW firedNow \in SUBSET Nat,
         firedNow \subseteq fired \cup ({copy.next} \ {NULL})
  PROVE  Aligned(new, heldNow, firedNow)
<1>1. \A other \in heldNow : other.schedule = new.schedule
  BY DEF Aligned
<1>2. ASSUME new.schedule # "once"
      PROVE  \A x, y \in Slots(new, heldNow, firedNow) :
               Apart(x, y, Step(new.schedule))
  <2>. DEFINE step == Step(new.schedule)
              old == Slots(current, held, fired)
              slots == Slots(new, heldNow, firedNow)
  <2>1. step \in Nat \ {0} /\ old \in SUBSET Nat /\ slots \in SUBSET Nat
    BY StepPositive, SlotsAreInstants
  <2>2. copy.schedule = new.schedule
    BY DEF Aligned
  <2>3. \A x, y \in old : Apart(x, y, step)
    BY <1>2 DEF Aligned
  <2>4. \A x \in slots : x \in old \/ (x = new.next /\ x # NULL)
    BY DEF Slots
  <2>5. {current.next, copy.next} \ {NULL} \subseteq old
    BY DEF Slots
  <2>. HIDE DEF step, old, slots
  <2>6. \A x \in old : Apart(x, x, step)
    BY <2>3
  <2>7. ASSUME NEW x \in slots PROVE \E y \in old : Apart(x, y, step)
    <3>1. CASE x \in old
      BY <2>6, <3>1
    <3>2. CASE x = new.next /\ x # NULL /\ new.next \in {current.next, copy.next}
      BY <2>5, <2>6, <3>2
    <3>3. CASE /\ x = new.next /\ copy.next \in Nat
               /\ new.next = NextOccurrence(copy.schedule, at, copy.next)
      <4>1. copy.next \in old
        BY <2>5, <3>3, NullAssumption
      <4>2. Apart(x, copy.next, step)
        BY <1>2, <2>2, <3>3, NextIsApart DEF step
      <4>. QED  BY <4>1, <4>2
    <3>. QED  BY <2>4, <3>1, <3>2, <3>3
  <2>8. \A x, y \in slots : Apart(x, y, step)
    BY <2>1, <2>3, <2>7, StaysAligned
  <2>. QED  BY <2>8 DEF step, slots
<1>. QED  BY <1>1, <1>2 DEF Aligned

(* A failed run later than all others makes the streak longer; an          *)
(* unbroken one is finite.                                                 *)
LEMMA StreakGrows ==
  ASSUME NEW done \in SUBSET Run, IsFiniteSet(done),
         NEW slot \in Nat, \A q \in done : q.slot < slot,
         NEW run, run = [slot |-> slot, status |-> "failed"]
  PROVE  Cardinality(Streak(done \cup {run})) >= Cardinality(Streak(done)) + 1
<1>1. run.slot = slot /\ run.status = "failed" /\ run \notin done
  BY DEF Run
<1>2. run \in Streak(done \cup {run})
  <2>1. \A q \in done : ~(q.slot >= slot)
    BY DEF Run
  <2>. QED  BY <1>1, <2>1 DEF Streak
<1>3. Streak(done) \subseteq Streak(done \cup {run})
  BY <1>1 DEF Streak
<1>4. run \notin Streak(done)
  BY <1>1 DEF Streak
<1>5. Streak(done \cup {run}) \subseteq done \cup {run} /\ Streak(done) \subseteq done
  BY DEF Streak
<1>6. IsFiniteSet(Streak(done)) /\ IsFiniteSet(Streak(done \cup {run}))
  BY <1>5, FS_Subset, FS_AddElement
<1>7. Cardinality(Streak(done) \cup {run}) = Cardinality(Streak(done)) + 1
  BY <1>4, <1>6, FS_AddElement
<1>8. Cardinality(Streak(done) \cup {run}) <= Cardinality(Streak(done \cup {run}))
  BY <1>2, <1>3, <1>6, FS_Subset
<1>9. /\ Cardinality(Streak(done)) \in Nat
      /\ Cardinality(Streak(done \cup {run})) \in Nat
  BY <1>6, FS_CardinalityType
<1>. QED  BY <1>7, <1>8, <1>9

(* The length of a streak is a number.                                     *)
LEMMA StreakNat ==
  ASSUME NEW done, IsFiniteSet(done)
  PROVE  Cardinality(Streak(done)) \in Nat
<1>1. Streak(done) \subseteq done
  BY DEF Streak
<1>. QED  BY <1>1, FS_Subset, FS_CardinalityType
(* Losing copies, or reading the row once more, keeps the counts true.     *)
LEMMA TruthfulRead ==
  ASSUME NEW current \in Row, NEW held \in SUBSET Row, NEW done,
         Truthful(current, held, done),
         NEW heldNow \in SUBSET (held \cup {current})
  PROVE  Truthful(current, heldNow, done)
<1>. SUFFICES ASSUME NEW copy \in heldNow
     PROVE  /\ copy.next = NULL => current.next = NULL
            /\ copy.next # NULL /\ current.next # NULL => copy.next <= current.next
            /\ copy.next = current.next =>
                 /\ copy.failures <= Cardinality(Streak(done))
                 /\ current.failures <= copy.failures
  BY DEF Truthful
<1>1. CASE copy \in held
  BY <1>1 DEF Truthful
<1>2. CASE copy = current
  BY <1>2 DEF Truthful, Row
<1>. QED  BY <1>1, <1>2

(* Once the schedule has moved past the slot of a copy, the other copies   *)
(* are too old to count.                                                   *)
LEMMA TruthfulMove ==
  ASSUME NEW current \in Row, NEW held \in SUBSET Row, NEW done, NEW doneNow,
         Truthful(current, held, done),
         NEW copy \in held, copy.next \in Nat, current.next = copy.next,
         NEW new \in Row, new.next # NULL => new.next > copy.next,
         new.failures <= Cardinality(Streak(doneNow)),
         NEW heldNow \in SUBSET held
  PROVE  Truthful(new, heldNow, doneNow)
<1>. SUFFICES ASSUME NEW other \in heldNow
     PROVE  /\ other.next # NULL
            /\ new.next # NULL => other.next <= new.next
            /\ other.next # new.next
  BY DEF Truthful
<1>1. other \in held /\ other.next # NULL /\ other.next \in Nat
  BY NullAssumption DEF Truthful, Row
<1>2. other.next <= current.next
  BY <1>1, NullAssumption DEF Truthful
<1>3. new.next \in Nat \cup {NULL}
  BY DEF Row
<1>. QED  BY <1>1, <1>2, <1>3

(* The commit of a pause or resume that does not lose a schedule.          *)
LEMMA TruthfulToggle ==
  ASSUME NEW current \in Row, NEW held \in SUBSET Row, NEW done, IsFiniteSet(done),
         Truthful(current, held, done),
         NEW copy \in held, NEW enable \in BOOLEAN, NEW at \in Nat, NEW left \in Row,
         left = AfterToggle(copy, enable, at),
         ~LosesSchedule(current, copy, left),
         NEW new \in Row, new = Flushed(current, copy, left),
         NEW heldNow \in SUBSET held
  PROVE  Truthful(new, heldNow, done)
<1>1. current.failures \in Nat /\ Cardinality(Streak(done)) \in Nat
  BY StreakNat DEF Row
<1>2. left.failures \in {copy.failures, 0}
  BY DEF AfterToggle, Row
<1>3. new.failures \in {current.failures, 0}
  BY <1>2 DEF Flushed
<1>4. new.failures <= current.failures /\ new.failures <= Cardinality(Streak(done))
  BY <1>1, <1>3 DEF Truthful
<1>5. CASE new.next = current.next
  <2>. SUFFICES ASSUME NEW other \in heldNow, other.next = current.next
       PROVE  new.failures <= other.failures
    BY <1>4, <1>5 DEF Truthful
  <2>1. current.failures <= other.failures /\ other.failures \in Nat
    BY DEF Truthful, Row
  <2>. QED  BY <1>1, <1>3, <2>1
<1>6. CASE new.next # current.next
  <2>1. new.next = left.next /\ current.next = copy.next /\ left.next # copy.next
    BY <1>6, FlushedNext
  <2>2. /\ copy.next \in Nat /\ copy.next <= at
        /\ IF copy.schedule = "once" THEN left.next = NULL
           ELSE left.next \in Nat /\ left.next > at
    BY <2>1, AfterToggleType
  <2>3. new.next # NULL => new.next > copy.next
    BY <2>1, <2>2
  <2>. QED  BY <1>4, <2>1, <2>2, <2>3, TruthfulMove
<1>. QED  BY <1>5, <1>6

(* The commit of a run that does not lose a schedule.                      *)
LEMMA TruthfulFinish ==
  ASSUME NEW current \in Row, NEW held \in SUBSET Row,
         NEW done \in SUBSET Run, IsFiniteSet(done),
         Truthful(current, held, done),
         current.next # NULL => \A q \in done : q.slot < current.next,
         NEW copy \in held, copy.next \in Nat,
         NEW moment \in Nat, copy.next <= moment, NEW ok \in BOOLEAN,
         NEW left \in Row, left = AfterRun(copy, moment, ok),
         ~LosesSchedule(current, copy, left),
         NEW new \in Row, new = Flushed(current, copy, left),
         NEW heldNow \in SUBSET held,
         NEW run, run = [slot |-> copy.next,
                         status |-> IF ok THEN "succeeded" ELSE "failed"]
  PROVE  Truthful(new, heldNow, done \cup {run})
<1>1. IF copy.schedule = "once" THEN left.next = NULL
      ELSE left.next \in Nat /\ left.next > moment
  BY AfterRunType
<1>2. left.next # copy.next
  BY <1>1, NullAssumption
<1>3. current.next = copy.next /\ new.next = left.next
  BY <1>2, FlushedNext
<1>4. new.next # NULL => new.next > copy.next
  BY <1>1, <1>3
<1>5. /\ current.failures \in Nat /\ copy.failures \in Nat
      /\ Cardinality(Streak(done)) \in Nat
      /\ Cardinality(Streak(done \cup {run})) \in Nat
  BY StreakNat, FS_AddElement DEF Row
<1>6. /\ copy.failures <= Cardinality(Streak(done))
      /\ current.failures <= copy.failures
  BY <1>3 DEF Truthful
<1>7. CASE ok
  <2>1. left.failures = 0
    BY <1>7 DEF AfterRun, Row
  <2>2. new.failures = 0
    BY <1>5, <1>6, <2>1 DEF Flushed
  <2>. QED  BY <1>3, <1>4, <1>5, <2>2, TruthfulMove
<1>8. CASE ~ok
  <2>1. left.failures = copy.failures + 1
    BY <1>8 DEF AfterRun, Row
  <2>2. new.failures = copy.failures + 1
    BY <1>5, <2>1 DEF Flushed
  <2>3. run = [slot |-> copy.next, status |-> "failed"]
    BY <1>8
  <2>4. \A q \in done : q.slot < copy.next
    BY <1>3, NullAssumption
  <2>5. Cardinality(Streak(done \cup {run})) >= Cardinality(Streak(done)) + 1
    BY <2>3, <2>4, StreakGrows
  <2>6. new.failures <= Cardinality(Streak(done \cup {run}))
    BY <1>5, <1>6, <2>2, <2>5
  <2>. QED  BY <1>3, <1>4, <2>6, TruthfulMove
<1>. QED  BY <1>7, <1>8

(* What a held copy is held by.                                            *)
LEMMA HeldMember ==
  ASSUME NEW a, NEW copy
  PROVE  copy \in Held(a) <=>
           \/ \E s \in Schedulers : \E e \in batch[s] : e.auto = a /\ e.loaded = copy
           \/ \E s \in Schedulers :
                claim[s] # NULL /\ claim[s].auto = a /\ claim[s].loaded = copy
           \/ \E c \in Clients :
                toggle[c] # NULL /\ toggle[c].auto = a /\ toggle[c].loaded = copy
<1>. DEFINE queued == UNION {batch[s] : s \in Schedulers}
            claimed == {claim[s] : s \in Schedulers} \ {NULL}
            toggled == {toggle[c] : c \in Clients} \ {NULL}
<1>1. Held(a) = {e.loaded : e \in {d \in queued \cup claimed \cup toggled : d.auto = a}}
  BY DEF Held
<1>2. \A e : e \in queued <=> \E s \in Schedulers : e \in batch[s]
  OBVIOUS
<1>3. \A e : e \in claimed <=> e # NULL /\ \E s \in Schedulers : e = claim[s]
  OBVIOUS
<1>4. \A e : e \in toggled <=> e # NULL /\ \E c \in Clients : e = toggle[c]
  OBVIOUS
<1>. HIDE DEF queued, claimed, toggled
<1>5. copy \in Held(a) <=>
        \E e \in queued \cup claimed \cup toggled : e.auto = a /\ e.loaded = copy
  BY <1>1
<1>. QED  BY <1>2, <1>3, <1>4, <1>5

(* The same after a step.                                                  *)
LEMMA HeldMemberNow ==
  ASSUME NEW a, NEW copy
  PROVE  copy \in Held(a)' <=>
           \/ \E s \in Schedulers : \E e \in batch'[s] : e.auto = a /\ e.loaded = copy
           \/ \E s \in Schedulers :
                claim'[s] # NULL /\ claim'[s].auto = a /\ claim'[s].loaded = copy
           \/ \E c \in Clients :
                toggle'[c] # NULL /\ toggle'[c].auto = a /\ toggle'[c].loaded = copy
<1>. DEFINE queued == UNION {batch'[s] : s \in Schedulers}
            claimed == {claim'[s] : s \in Schedulers} \ {NULL}
            toggled == {toggle'[c] : c \in Clients} \ {NULL}
<1>1. Held(a)' = {e.loaded : e \in {d \in queued \cup claimed \cup toggled : d.auto = a}}
  BY DEF Held
<1>2. \A e : e \in queued <=> \E s \in Schedulers : e \in batch'[s]
  OBVIOUS
<1>3. \A e : e \in claimed <=> e # NULL /\ \E s \in Schedulers : e = claim'[s]
  OBVIOUS
<1>4. \A e : e \in toggled <=> e # NULL /\ \E c \in Clients : e = toggle'[c]
  OBVIOUS
<1>. HIDE DEF queued, claimed, toggled
<1>5. copy \in Held(a)' <=>
        \E e \in queued \cup claimed \cup toggled : e.auto = a /\ e.loaded = copy
  BY <1>1
<1>. QED  BY <1>2, <1>3, <1>4, <1>5

(* Copies are rows.                                                        *)
LEMMA HeldRows ==
  ASSUME TypeInv, NEW a
  PROVE  Held(a) \in SUBSET Row
BY HeldMember DEF TypeInv, TypeOK, Entry, Toggle

(* A step that reads nothing leaves no new copies.                         *)
LEMMA HeldKept ==
  ASSUME \A s \in Schedulers : batch'[s] \subseteq batch[s],
         \A s \in Schedulers : claim'[s] \in batch[s] \cup {claim[s], NULL},
         \A c \in Clients : toggle'[c] \in {toggle[c], NULL},
         NEW a
  PROVE  Held(a)' \subseteq Held(a)
<1>. SUFFICES ASSUME NEW copy \in Held(a)' PROVE copy \in Held(a)
  OBVIOUS
<1>. QED  BY HeldMember, HeldMemberNow

(* A step that reads adds copies of the rows as they are.                  *)
LEMMA HeldRead ==
  ASSUME \A s \in Schedulers : \A e \in batch'[s] :
           e \in batch[s] \/ (row[e.auto] # NULL /\ e.loaded = row[e.auto]),
         claim' = claim,
         \A c \in Clients :
           \/ toggle'[c] = toggle[c]
           \/ row[toggle'[c].auto] # NULL /\ toggle'[c].loaded = row[toggle'[c].auto],
         NEW a
  PROVE  Held(a)' \subseteq Held(a) \cup ({row[a]} \ {NULL})
<1>. SUFFICES ASSUME NEW copy \in Held(a)'
              PROVE  copy \in Held(a) \cup ({row[a]} \ {NULL})
  OBVIOUS
<1>. QED  BY HeldMember, HeldMemberNow

(* An automation whose row and runs a step leaves alone.                   *)
LEMMA RowKept ==
  ASSUME TypeInv, UnusedIsEmpty, NEW a \in Automations, RowInv(a),
         row'[a] = row[a], runs'[a] = runs[a], unused' \subseteq unused,
         a \in lost => a \in lost',
         Held(a)' \subseteq Held(a) \cup ({row[a]} \ {NULL})
  PROVE  RowInv(a)'
<1>. DEFINE held == Held(a)
            heldNow == Held(a)'
            fired == Fired(a)
<1>1. Fired(a)' = fired
  BY DEF Fired
<1>2. held \in SUBSET Row
  BY HeldRows
<1>3. fired \in SUBSET Nat
  BY DEF Fired, TypeInv, TypeOK, Run
<1>4. a \in unused' => heldNow = {}
  BY DEF RowInv, UnusedIsEmpty
<1>5. a \in Live' => a \in Live /\ row[a] \in Row /\ row[a] # NULL
  BY DEF Live, TypeInv, TypeOK
<1>6. a \in Live => Aligned(row[a], held, fired)
  BY DEF RowInv
<1>7. a \in Live \ lost => Truthful(row[a], held, runs[a])
  BY DEF RowInv
<1>8. IsFiniteSet(runs[a])
  BY DEF RowInv
<1>9. heldNow \subseteq held \cup {row[a]}
  OBVIOUS
<1>10. RowInv(a)' <=>
         /\ IsFiniteSet(runs'[a])
         /\ a \in unused' => heldNow = {}
         /\ a \in Live' => Aligned(row'[a], heldNow, Fired(a)')
         /\ a \in Live' \ lost' => Truthful(row'[a], heldNow, runs'[a])
  BY DEF RowInv
<1>. HIDE DEF held, heldNow, fired
<1>11. a \in Live' => Aligned(row[a], heldNow, fired)
  BY <1>2, <1>3, <1>5, <1>6, <1>9, AlignedRead
<1>12. a \in Live' \ lost' => Truthful(row[a], heldNow, runs[a])
  BY <1>2, <1>5, <1>7, <1>9, TruthfulRead
<1>. QED  BY <1>1, <1>4, <1>8, <1>10, <1>11, <1>12

(* Committing a run, for the automation that was fired.                    *)
LEMMA RowFinish ==
  ASSUME TypeInv, FiringInv, FiredSlotsAreBehind,
         NEW s \in Schedulers, NEW ok \in BOOLEAN, Finish(s, ok),
         NEW a \in Automations, a = claim[s].auto, RowInv(a)
  PROVE  RowInv(a)'
<1>. PICK copy : copy = claim[s].loaded
  OBVIOUS
<1>. DEFINE current == row[a]
            held == Held(a)
            heldNow == Held(a)'
            fired == Fired(a)
            done == runs[a]
<1>1. /\ claim[s] \in Entry /\ copy.next \in Nat /\ current \in Row
      /\ a \in Automations /\ copy \in Row /\ claim[s].moment \in Nat
      /\ claim[s] # NULL
  BY FinishEffect DEF Entry, Finish
<1>2. PICK left \in Row :
        /\ left = AfterRun(copy, claim[s].moment, ok)
        /\ Flushed(current, copy, left) \in Row
        /\ row' = [row EXCEPT ![a] = Flushed(current, copy, left)]
        /\ lost' = IF LosesSchedule(current, copy, left)
                     THEN lost \cup {a} ELSE lost
  BY FinishEffect
<1>3. PICK new \in Row : new = Flushed(current, copy, left)
  BY <1>2
<1>4. row'[a] = new
  BY <1>1, <1>2, <1>3 DEF TypeInv, TypeOK
<1>5. PICK run : run = [slot |-> copy.next,
                        status |-> IF ok THEN "succeeded" ELSE "failed"]
  OBVIOUS
<1>6. runs'[a] = done \cup {run} /\ run.slot = copy.next
  BY <1>1, <1>5 DEF Finish, TypeInv, TypeOK
<1>7. Fired(a)' = fired \cup {copy.next}
  BY <1>6 DEF Fired
<1>8. copy \in held
  BY <1>1, HeldMember
<1>9. heldNow \subseteq held
  <2>1. /\ \A t \in Schedulers : batch'[t] \subseteq batch[t]
        /\ \A t \in Schedulers : claim'[t] \in batch[t] \cup {claim[t], NULL}
        /\ \A c \in Clients : toggle'[c] \in {toggle[c], NULL}
    BY DEF Finish, requests, TypeInv, TypeOK
  <2>. QED  BY <2>1, HeldKept
<1>10. held \in SUBSET Row /\ fired \in SUBSET Nat /\ done \in SUBSET Run
  BY <1>1, HeldRows DEF Fired, TypeInv, TypeOK, Run
<1>11. a \in Live /\ a \notin unused
  BY <1>1, NullAssumption DEF Live, FiringInv, UnusedIsEmpty
<1>12. a \notin unused'
  BY <1>11 DEF Finish
<1>13. /\ IsFiniteSet(done) /\ Aligned(current, held, fired)
       /\ a \notin lost => Truthful(current, held, done)
  BY <1>11 DEF RowInv
<1>14. a \notin lost /\ current.next # NULL =>
         \A q \in done : q.slot < current.next
  BY <1>11 DEF FiredSlotsAreBehind, Fired
<1>15. copy.next <= claim[s].moment
  BY <1>1 DEF TypeInv, EntriesAreDue
<1>16. a \notin lost' => a \notin lost /\ ~LosesSchedule(current, copy, left)
  BY <1>2
<1>17. RowInv(a)' <=>
         /\ IsFiniteSet(runs'[a])
         /\ a \in unused' => heldNow = {}
         /\ a \in Live' => Aligned(row'[a], heldNow, Fired(a)')
         /\ a \in Live' \ lost' => Truthful(row'[a], heldNow, runs'[a])
  BY DEF RowInv
<1>. HIDE DEF current, held, heldNow, fired, done
<1>18. new.schedule = current.schedule /\ new.next \in {current.next, left.next}
  BY <1>3 DEF Flushed
<1>19. left.next = NextOccurrence(copy.schedule, claim[s].moment, copy.next)
  BY <1>1, <1>2 DEF AfterRun, Row
<1>20. Aligned(new, heldNow, fired \cup {copy.next})
  <2>. DEFINE firedNow == fired \cup {copy.next}
  <2>1. firedNow \in SUBSET Nat /\ firedNow \subseteq fired \cup ({copy.next} \ {NULL})
    BY <1>1, <1>10, NullAssumption
  <2>2. \/ new.next \in {current.next, copy.next}
        \/ /\ copy.next \in Nat
           /\ new.next = NextOccurrence(copy.schedule, claim[s].moment, copy.next)
    BY <1>1, <1>18, <1>19
  <2>. HIDE DEF firedNow
  <2>3. Aligned(new, heldNow, firedNow)
    BY <1>1, <1>8, <1>9, <1>10, <1>13, <1>18, <2>1, <2>2, AlignedWrite
  <2>. QED  BY <2>3 DEF firedNow
<1>21. ASSUME a \notin lost' PROVE Truthful(new, heldNow, done \cup {run})
  <2>1. /\ Truthful(current, held, done) /\ ~LosesSchedule(current, copy, left)
        /\ current.next # NULL => \A q \in done : q.slot < current.next
    BY <1>13, <1>14, <1>16, <1>21
  <2>. QED
    BY <1>1, <1>2, <1>3, <1>5, <1>8, <1>9, <1>10, <1>13, <1>15, <2>1, TruthfulFinish
<1>22. IsFiniteSet(done \cup {run})
  BY <1>13, FS_AddElement
<1>. QED
  BY <1>4, <1>6, <1>7, <1>12, <1>17, <1>20, <1>21, <1>22

(* The commit of a toggle, for the automation that is toggled.             *)
LEMMA RowToggle ==
  ASSUME TypeInv, FiringInv, NEW c \in Clients, WriteToggle(c),
         NEW a \in Automations, a = toggle[c].auto, RowInv(a),
         ~ UNCHANGED <<row, lost>>
  PROVE  RowInv(a)'
<1>. PICK copy : copy = toggle[c].loaded
  OBVIOUS
<1>. DEFINE current == row[a]
            held == Held(a)
            heldNow == Held(a)'
            fired == Fired(a)
            done == runs[a]
<1>1. /\ toggle[c] \in Toggle /\ current \in Row /\ copy \in Row
      /\ toggle[c].enable \in BOOLEAN /\ toggle[c].at \in Nat /\ toggle[c] # NULL
  BY ToggleEffect DEF Toggle, WriteToggle
<1>2. PICK left \in Row :
        /\ left = AfterToggle(copy, toggle[c].enable, toggle[c].at)
        /\ Flushed(current, copy, left) \in Row
        /\ row' = [row EXCEPT ![a] = Flushed(current, copy, left)]
        /\ lost' = IF LosesSchedule(current, copy, left)
                     THEN lost \cup {a} ELSE lost
  BY ToggleEffect
<1>3. PICK new \in Row : new = Flushed(current, copy, left)
  BY <1>2
<1>4. row'[a] = new
  BY <1>2, <1>3 DEF TypeInv, TypeOK
<1>5. runs'[a] = done /\ Fired(a)' = fired /\ unused' = unused
  BY DEF WriteToggle, Fired
<1>6. copy \in held
  BY <1>1, HeldMember
<1>7. heldNow \subseteq held
  <2>1. /\ \A t \in Schedulers : batch'[t] \subseteq batch[t]
        /\ \A t \in Schedulers : claim'[t] \in batch[t] \cup {claim[t], NULL}
        /\ \A d \in Clients : toggle'[d] \in {toggle[d], NULL}
    BY DEF WriteToggle, pollers, TypeInv, TypeOK
  <2>. QED  BY <2>1, HeldKept
<1>8. held \in SUBSET Row /\ fired \in SUBSET Nat
  BY HeldRows DEF Fired, TypeInv, TypeOK, Run
<1>9. a \in Live /\ a \notin unused
  BY <1>1, NullAssumption DEF Live, FiringInv, UnusedIsEmpty
<1>10. /\ IsFiniteSet(done) /\ Aligned(current, held, fired)
       /\ a \notin lost => Truthful(current, held, done)
  BY <1>9 DEF RowInv
<1>11. a \notin lost' => a \notin lost /\ ~LosesSchedule(current, copy, left)
  BY <1>2
<1>12. RowInv(a)' <=>
         /\ IsFiniteSet(runs'[a])
         /\ a \in unused' => heldNow = {}
         /\ a \in Live' => Aligned(row'[a], heldNow, Fired(a)')
         /\ a \in Live' \ lost' => Truthful(row'[a], heldNow, runs'[a])
  BY DEF RowInv
<1>. HIDE DEF current, held, heldNow, fired, done
<1>13. new.schedule = current.schedule /\ new.next \in {current.next, left.next}
  BY <1>3 DEF Flushed
<1>14. \/ left.next = copy.next
       \/ left.next = NextOccurrence(copy.schedule, toggle[c].at, copy.next)
  BY <1>1, <1>2 DEF AfterToggle, Row
<1>15. left.next # copy.next => copy.next \in Nat
  BY <1>1, <1>2, AfterToggleType
<1>16. Aligned(new, heldNow, fired)
  <2>1. \/ new.next \in {current.next, copy.next}
        \/ /\ copy.next \in Nat
           /\ new.next = NextOccurrence(copy.schedule, toggle[c].at, copy.next)
    BY <1>13, <1>14, <1>15
  <2>2. fired \subseteq fired \cup ({copy.next} \ {NULL})
    OBVIOUS
  <2>. QED
    BY <1>1, <1>6, <1>7, <1>8, <1>10, <1>13, <2>1, <2>2, AlignedWrite
<1>17. ASSUME a \notin lost' PROVE Truthful(new, heldNow, done)
  <2>1. Truthful(current, held, done) /\ ~LosesSchedule(current, copy, left)
    BY <1>10, <1>11, <1>17
  <2>. QED
    BY <1>1, <1>2, <1>3, <1>6, <1>7, <1>8, <1>10, <2>1, TruthfulToggle
<1>. QED
  BY <1>4, <1>5, <1>9, <1>10, <1>12, <1>16, <1>17

(* Inserting a row nobody has a copy of.                                   *)
LEMMA RowCreate ==
  ASSUME TypeInv, FiringInv, RowsInv, NEW c \in Clients, Create(c),
         NEW a \in Automations
  PROVE  RowInv(a)'
<1>1. Held(a)' \subseteq Held(a)
  <2>1. UNCHANGED <<batch, claim, toggle>>
    BY DEF Create, pollers
  <2>. QED  BY <2>1 DEF Held
<1>2. lost' = lost /\ runs' = runs /\ RowInv(a)
  BY CreateEffect DEF Create, history, table, RowsInv
<1>3. CASE row'[a] = row[a] /\ unused' \subseteq unused
  BY <1>1, <1>2, <1>3, RowKept DEF FiringInv
<1>4. CASE /\ a \in unused /\ a \notin unused'
           /\ row'[a] \in Row /\ row'[a].next \in Nat /\ row'[a].failures = 0
  <2>. PICK new \in Row : new = row'[a]
    BY <1>4
  <2>1. /\ Held(a)' = {} /\ IsFiniteSet(runs'[a])
    BY <1>1, <1>2, <1>4 DEF RowInv
  <2>2. runs'[a] = {} /\ Fired(a)' = {}
    BY <1>2, <1>4 DEF FiringInv, UnusedIsEmpty, Fired
  <2>3. Aligned(new, {}, {})
    <3>1. Slots(new, {}, {}) = {new.next}
      BY <1>4, NullAssumption DEF Slots
    <3>2. Apart(new.next, new.next, Step(new.schedule))
      BY <1>4, StepPositive, ApartEquivalence
    <3>. QED  BY <3>1, <3>2 DEF Aligned
  <2>4. Truthful(new, {}, {})
    <3>1. Streak({}) = {}
      BY DEF Streak
    <3>. QED  BY <1>4, <3>1, FS_EmptySet DEF Truthful
  <2>. QED  BY <1>4, <2>1, <2>2, <2>3, <2>4 DEF RowInv
<1>5. \/ row'[a] = row[a] /\ unused' \subseteq unused
      \/ /\ a \in unused /\ a \notin unused'
         /\ row'[a] \in Row /\ row'[a].next \in Nat /\ row'[a].failures = 0
  BY CreateEffect DEF TypeInv, TypeOK, table
<1>. QED  BY <1>3, <1>4, <1>5

(* Every step keeps every row in agreement with its runs and copies.       *)
LEMMA RowsStep ==
  TypeInv /\ FiringInv /\ FiredSlotsAreBehind /\ RowsInv /\ [Next]_vars => RowsInv'
<1>. SUFFICES ASSUME TypeInv, FiringInv, FiredSlotsAreBehind, RowsInv, [Next]_vars,
                     NEW a \in Automations
              PROVE  RowInv(a)'
  BY DEF RowsInv
<1>1. RowInv(a) /\ UnusedIsEmpty
  BY DEF RowsInv, FiringInv
<1>2. ASSUME row'[a] = row[a], runs'[a] = runs[a], unused' \subseteq unused,
             a \in lost => a \in lost', Held(a)' \subseteq Held(a)
      PROVE  RowInv(a)'
  BY <1>1, <1>2, RowKept
<1>3. ASSUME NEW s \in Schedulers, Poller(s) \/ Abort(s) PROVE RowInv(a)'
  <2>1. CASE ListDue(s)
    <3>1. \A t \in Schedulers : \A e \in batch'[t] :
            e \in batch[t] \/ (row[e.auto] # NULL /\ e.loaded = row[e.auto])
      BY <2>1 DEF ListDue, Due, IsDue, TypeInv, TypeOK
    <3>2. UNCHANGED <<row, runs, unused, lost, claim, toggle>>
      BY <2>1 DEF ListDue, table, requests, history
    <3>3. Held(a)' \subseteq Held(a) \cup ({row[a]} \ {NULL})
      BY <3>1, <3>2, HeldRead
    <3>. QED  BY <1>1, <3>2, <3>3, RowKept
  <2>2. CASE Claim(s) \/ ClaimRefused(s) \/ Abort(s)
    <3>1. UNCHANGED <<row, runs, unused, lost, toggle>>
      BY <2>2 DEF Claim, ClaimRefused, Abort, table, requests, history
    <3>2. \A t \in Schedulers : batch'[t] \subseteq batch[t]
      BY <2>2 DEF Claim, ClaimRefused, Abort, TypeInv, TypeOK
    <3>3. \A t \in Schedulers : claim'[t] \in batch[t] \cup {claim[t], NULL}
      BY <2>2 DEF Claim, ClaimRefused, Abort, TypeInv, TypeOK
    <3>4. Held(a)' \subseteq Held(a)
      BY <3>1, <3>2, <3>3, HeldKept
    <3>. QED  BY <1>2, <3>1, <3>4
  <2>3. ASSUME NEW ok \in BOOLEAN, Finish(s, ok) PROVE RowInv(a)'
    <3>1. CASE a = claim[s].auto
      BY <1>1, <2>3, <3>1, RowFinish
    <3>2. CASE a # claim[s].auto
      <4>1. /\ \A t \in Schedulers : batch'[t] \subseteq batch[t]
            /\ \A t \in Schedulers : claim'[t] \in batch[t] \cup {claim[t], NULL}
            /\ \A c \in Clients : toggle'[c] \in {toggle[c], NULL}
        BY <2>3 DEF Finish, requests, TypeInv, TypeOK
      <4>2. row'[a] = row[a] /\ runs'[a] = runs[a]
        BY <2>3, <3>2 DEF Finish, TypeInv, TypeOK
      <4>3. unused' = unused /\ lost \subseteq lost'
        BY <2>3 DEF Finish
      <4>. QED  BY <1>2, <4>1, <4>2, <4>3, HeldKept
    <3>. QED  BY <3>1, <3>2
  <2>. QED  BY <1>3, <2>1, <2>2, <2>3 DEF Poller
<1>4. ASSUME NEW c \in Clients, NEW b \in Automations, NEW enable \in BOOLEAN,
             ReadToggle(c, b, enable)
      PROVE  RowInv(a)'
  <2>1. UNCHANGED <<row, runs, unused, lost, claim, batch>>
    BY <1>4 DEF ReadToggle, table, pollers, history
  <2>2. \A d \in Clients :
          \/ toggle'[d] = toggle[d]
          \/ row[toggle'[d].auto] # NULL /\ toggle'[d].loaded = row[toggle'[d].auto]
    BY <1>4 DEF ReadToggle, TypeInv, TypeOK
  <2>3. Held(a)' \subseteq Held(a) \cup ({row[a]} \ {NULL})
    BY <2>1, <2>2, HeldRead
  <2>. QED  BY <1>1, <2>1, <2>3, RowKept
<1>5. ASSUME NEW c \in Clients, WriteToggle(c) PROVE RowInv(a)'
  <2>1. CASE a = toggle[c].auto /\ ~ UNCHANGED <<row, lost>>
    BY <1>1, <1>5, <2>1, RowToggle
  <2>2. CASE ~(a = toggle[c].auto /\ ~ UNCHANGED <<row, lost>>)
    <3>1. /\ \A t \in Schedulers : batch'[t] \subseteq batch[t]
          /\ \A t \in Schedulers : claim'[t] \in batch[t] \cup {claim[t], NULL}
          /\ \A d \in Clients : toggle'[d] \in {toggle[d], NULL}
      BY <1>5 DEF WriteToggle, pollers, TypeInv, TypeOK
    <3>2. row'[a] = row[a] /\ lost \subseteq lost'
      BY <1>5, <2>2 DEF WriteToggle, TypeInv, TypeOK
    <3>3. runs' = runs /\ unused' = unused
      BY <1>5 DEF WriteToggle
    <3>. QED  BY <1>2, <3>1, <3>2, <3>3, HeldKept
  <2>. QED  BY <2>1, <2>2
<1>6. ASSUME NEW c \in Clients, CountForCreate(c) PROVE RowInv(a)'
  <2>1. UNCHANGED <<row, runs, unused, lost, batch, claim, toggle>>
    BY <1>6 DEF CountForCreate, table, pollers, history
  <2>. QED  BY <1>2, <2>1 DEF Held
<1>7. ASSUME NEW b \in Automations, Delete(b) PROVE RowInv(a)'
  <2>1. UNCHANGED <<unused, batch, claim, toggle>>
    BY <1>7 DEF Delete, pollers, requests
  <2>2. Held(a)' = Held(a)
    BY <2>1 DEF Held
  <2>3. CASE a # b
    <3>1. row'[a] = row[a] /\ runs'[a] = runs[a] /\ (a \in lost => a \in lost')
      BY <1>7, <2>3 DEF Delete, TypeInv, TypeOK
    <3>. QED  BY <1>2, <2>1, <2>2, <3>1
  <2>4. CASE a = b
    <3>1. row'[a] = NULL /\ runs'[a] = {}
      BY <1>7, <2>4 DEF Delete, TypeInv, TypeOK
    <3>. QED  BY <1>1, <2>1, <2>2, <3>1, FS_EmptySet DEF RowInv, Live
  <2>. QED  BY <2>3, <2>4
<1>8. CASE Advance \/ SetBack \/ UNCHANGED vars
  <2>1. UNCHANGED <<row, runs, unused, lost, batch, claim, toggle>>
    BY <1>8 DEF Advance, SetBack, vars, table, pollers, requests, history
  <2>. QED  BY <1>2, <2>1 DEF Held
<1>. QED
  BY <1>3, <1>4, <1>5, <1>6, <1>7, <1>8, RowCreate DEF Next

(* What the rows say follows from what they and their copies agree on.     *)
LEMMA RowsTell ==
  TypeInv /\ FiredSlotsAreBehind /\ RowsInv => RowsTellTheirRuns
<1>. SUFFICES ASSUME TypeInv, FiredSlotsAreBehind, RowsInv
              PROVE  ScheduleNeverDrifts /\ FailureStreak
  BY DEF RowsTellTheirRuns
<1>1. ScheduleNeverDrifts
  <2>. SUFFICES ASSUME NEW a \in Live, row[a].schedule # "once",
                       NEW x \in Fired(a) \cup ({row[a].next} \ {NULL}),
                       NEW y \in Fired(a) \cup ({row[a].next} \ {NULL})
                PROVE  (x - y) % Step(row[a].schedule) = 0
    BY DEF ScheduleNeverDrifts
  <2>1. Aligned(row[a], Held(a), Fired(a))
    BY DEF RowsInv, RowInv, Live
  <2>. QED  BY <2>1 DEF Aligned, Slots, Apart
<1>2. FailureStreak
  <2>. SUFFICES ASSUME NEW a \in Live \ lost
                PROVE  row[a].failures <= Cardinality(Streak(runs[a]))
    BY DEF FailureStreak, Streak
  <2>. QED  BY DEF RowsInv, RowInv, Live, Truthful
<1>. QED  BY <1>1, <1>2

(* The row of an automation agrees with its committed runs, whatever       *)
(* copies the pollers and the requests compute from: it waits past them,   *)
(* whole steps away, and counts only failures that happened.               *)
THEOREM RowsAgreeWithRuns == Spec => []RowsTellTheirRuns
<1>1. Init => RowsInv
  <2>. SUFFICES ASSUME Init, NEW a \in Automations PROVE RowInv(a)
    BY DEF RowsInv
  <2>1. Held(a) = {} /\ runs[a] = {} /\ row[a] = NULL
    BY DEF Init, Held
  <2>. QED  BY <2>1, FS_EmptySet DEF RowInv, Live
<1>2. TypeInv /\ FiringInv /\ FiredSlotsAreBehind /\ RowsInv /\ [Next]_vars
        => RowsInv'
  BY RowsStep
<1>3. TypeInv /\ FiredSlotsAreBehind /\ RowsInv => RowsTellTheirRuns
  BY RowsTell
<1>. QED
  BY <1>1, <1>2, <1>3, FiringInvariant, ScheduleMovesOn, PTL DEF Spec

-----------------------------------------------------------------------------
(* The quota.  A creation that was counted below the limit is sure to      *)
(* insert: with the rows there are, those creations never outnumber the    *)
(* seats of the limit and of the other requests.                           *)
Armed == {c \in Clients : creation[c] # NULL /\ WithinQuota(creation[c].total)}

SeatsSuffice ==
  Cardinality(Live) + Cardinality(Armed) <= MaxPerUser + Cardinality(Clients) - 1

(* The sets that are counted are finite.                                   *)
LEMMA QuotaFinite ==
  ASSUME IsFiniteSet(Clients)
  PROVE  /\ IsFiniteSet(Live) /\ Cardinality(Live) \in Nat
         /\ IsFiniteSet(Armed) /\ Cardinality(Armed) \in Nat
         /\ Cardinality(Armed) <= Cardinality(Clients)
         /\ Cardinality(Clients) \in Nat
<1>1. Live \subseteq Automations /\ Armed \subseteq Clients
  BY DEF Live, Armed
<1>. QED
  BY <1>1, AutomationsFinite, FS_Subset, FS_CardinalityType

(* Fewer rows and fewer creations to come keep the bound.                  *)
LEMMA QuotaFewer ==
  ASSUME NEW rows, NEW armed, IsFiniteSet(rows), IsFiniteSet(armed),
         NEW rowsNow \in SUBSET rows, NEW armedNow \in SUBSET armed
  PROVE  Cardinality(rowsNow) + Cardinality(armedNow)
           <= Cardinality(rows) + Cardinality(armed)
<1>1. Cardinality(rowsNow) <= Cardinality(rows) /\ Cardinality(armedNow) <= Cardinality(armed)
  BY FS_Subset
<1>2. IsFiniteSet(rowsNow) /\ IsFiniteSet(armedNow)
  BY FS_Subset
<1>. QED
  BY <1>1, <1>2, FS_CardinalityType

(* An insert takes a row more and leaves a creation fewer to come.         *)
LEMMA QuotaInsert ==
  ASSUME NEW rows, NEW armed, IsFiniteSet(rows), IsFiniteSet(armed),
         NEW a, NEW c \in armed,
         NEW rowsNow \in SUBSET (rows \cup {a}),
         NEW armedNow \in SUBSET (armed \ {c})
  PROVE  Cardinality(rowsNow) + Cardinality(armedNow)
           <= Cardinality(rows) + Cardinality(armed)
<1>1. /\ IsFiniteSet(rows \cup {a})
      /\ Cardinality(rows \cup {a}) <= Cardinality(rows) + 1
      /\ Cardinality(rows) \in Nat
  <2>1. Cardinality(rows) \in Nat
    BY FS_CardinalityType
  <2>2. /\ IsFiniteSet(rows \cup {a})
        /\ \/ Cardinality(rows \cup {a}) = Cardinality(rows)
           \/ Cardinality(rows \cup {a}) = Cardinality(rows) + 1
    BY FS_AddElement
  <2>. QED  BY <2>1, <2>2
<1>2. IsFiniteSet(armed \ {c}) /\ Cardinality(armed \ {c}) = Cardinality(armed) - 1
  BY FS_RemoveElement
<1>3. /\ Cardinality(armed) \in Nat /\ Cardinality(rows \cup {a}) \in Nat
      /\ Cardinality(armed \ {c}) \in Nat
  BY <1>1, <1>2, FS_CardinalityType
<1>4. Cardinality(rowsNow) + Cardinality(armedNow)
        <= Cardinality(rows \cup {a}) + Cardinality(armed \ {c})
  BY <1>1, <1>2, QuotaFewer
<1>5. IsFiniteSet(rowsNow) /\ IsFiniteSet(armedNow)
  BY <1>1, <1>2, FS_Subset
<1>. QED
  BY <1>1, <1>2, <1>3, <1>4, <1>5, FS_CardinalityType

(* What a step does to the rows and to the creations that will insert.     *)
LEMMA QuotaCases ==
  ASSUME TypeInv, [Next]_vars
  PROVE  \/ Live' \subseteq Live /\ Armed' \subseteq Armed
         \/ Live' = Live /\ (Cardinality(Live) < MaxPerUser \/ Armed' \subseteq Armed)
         \/ \E a \in Automations, c \in Armed :
              Live' \subseteq Live \cup {a} /\ Armed' \subseteq Armed \ {c}
<1>1. ASSUME row' = row, creation' = creation
      PROVE  Live' = Live /\ Armed' = Armed
  BY <1>1 DEF Live, Armed, WithinQuota
<1>2. ASSUME NEW s \in Schedulers, Poller(s) \/ Abort(s)
      PROVE  Live' \subseteq Live /\ Armed' \subseteq Armed
  <2>1. CASE ListDue(s) \/ Claim(s) \/ ClaimRefused(s) \/ Abort(s)
    BY <1>1, <2>1 DEF ListDue, Claim, ClaimRefused, Abort, table, requests
  <2>2. ASSUME NEW ok \in BOOLEAN, Finish(s, ok)
        PROVE  Live' \subseteq Live /\ Armed' \subseteq Armed
    <3>1. /\ row[claim[s].auto] \in Row
          /\ \E new \in Row : row' = [row EXCEPT ![claim[s].auto] = new]
      BY <2>2, FinishEffect
    <3>2. creation' = creation
      BY <2>2 DEF Finish, requests
    <3>3. \A b \in Automations : row'[b] # NULL => row[b] # NULL
      BY <3>1, NullAssumption DEF TypeInv, TypeOK
    <3>. QED  BY <3>2, <3>3 DEF Live, Armed, WithinQuota
  <2>. QED  BY <1>2, <2>1, <2>2 DEF Poller
<1>3. ASSUME NEW c \in Clients, NEW a \in Automations, NEW enable \in BOOLEAN,
             ReadToggle(c, a, enable)
      PROVE  Live' \subseteq Live /\ Armed' \subseteq Armed
  BY <1>1, <1>3 DEF ReadToggle, table
<1>4. ASSUME NEW c \in Clients, WriteToggle(c)
      PROVE  Live' \subseteq Live /\ Armed' \subseteq Armed
  <2>1. \/ row' = row
        \/ /\ row[toggle[c].auto] \in Row
           /\ \E new \in Row : row' = [row EXCEPT ![toggle[c].auto] = new]
    BY <1>4, ToggleEffect
  <2>2. creation' = creation
    BY <1>4 DEF WriteToggle
  <2>3. \A b \in Automations : row'[b] # NULL => row[b] # NULL
    BY <2>1, NullAssumption DEF TypeInv, TypeOK
  <2>. QED  BY <2>2, <2>3 DEF Live, Armed, WithinQuota
<1>5. ASSUME NEW c \in Clients, CountForCreate(c)
      PROVE  Live' = Live /\ (Cardinality(Live) < MaxPerUser \/ Armed' \subseteq Armed)
  <2>1. row' = row
    BY <1>5 DEF CountForCreate, table
  <2>2. \A d \in Clients : d # c => creation'[d] = creation[d]
    BY <1>5 DEF CountForCreate, TypeInv, TypeOK
  <2>3. creation'[c].total = Cardinality(Live)
    BY <1>5 DEF CountForCreate, TypeInv, TypeOK
  <2>4. Live' = Live
    BY <2>1 DEF Live
  <2>. QED  BY <2>2, <2>3, <2>4 DEF Armed, WithinQuota
<1>6. ASSUME NEW c \in Clients, Create(c)
      PROVE  \/ Live' \subseteq Live /\ Armed' \subseteq Armed
             \/ \E a \in Automations, d \in Armed :
                  Live' \subseteq Live \cup {a} /\ Armed' \subseteq Armed \ {d}
  <2>1. Armed' \subseteq Armed \ {c}
    BY <1>6 DEF Create, Armed, WithinQuota, TypeInv, TypeOK
  <2>2. CASE ~WithinQuota(creation[c].total)
    BY <1>6, <2>1, <2>2 DEF Create, table, Live
  <2>3. CASE WithinQuota(creation[c].total)
    <3>1. c \in Armed
      BY <1>6, <2>3 DEF Create, Armed
    <3>2. PICK a \in unused : \E new : row' = [row EXCEPT ![a] = new]
      BY <1>6, <2>3 DEF Create
    <3>3. a \in Automations /\ Live' \subseteq Live \cup {a}
      BY <3>2 DEF Live, TypeInv, TypeOK
    <3>. QED  BY <2>1, <3>1, <3>3
  <2>. QED  BY <2>2, <2>3
<1>7. ASSUME NEW a \in Automations, Delete(a)
      PROVE  Live' \subseteq Live /\ Armed' \subseteq Armed
  BY <1>7 DEF Delete, requests, Live, Armed, WithinQuota, TypeInv, TypeOK
<1>8. CASE Advance \/ SetBack \/ UNCHANGED vars
  BY <1>1, <1>8 DEF Advance, SetBack, vars, table, requests
<1>. QED
  BY <1>2, <1>3, <1>4, <1>5, <1>6, <1>7, <1>8 DEF Next

(* Counting below the limit leaves a seat for every request, inserting     *)
(* takes one, and every other step gives some back.                        *)
LEMMA QuotaStep ==
  ASSUME IsFiniteSet(Clients), TypeInv, SeatsSuffice, [Next]_vars
  PROVE  SeatsSuffice'
<1>. DEFINE rowsNow == Live'
            armedNow == Armed'
<1>1. /\ IsFiniteSet(Live) /\ Cardinality(Live) \in Nat
      /\ IsFiniteSet(Armed) /\ Cardinality(Armed) \in Nat
      /\ Cardinality(Clients) \in Nat
  BY QuotaFinite
<1>2. armedNow \subseteq Clients /\ rowsNow \subseteq Automations
  BY DEF Armed, Live
<1>3. \/ rowsNow \subseteq Live /\ armedNow \subseteq Armed
      \/ rowsNow = Live /\ (Cardinality(Live) < MaxPerUser \/ armedNow \subseteq Armed)
      \/ \E a \in Automations, c \in Armed :
           rowsNow \subseteq Live \cup {a} /\ armedNow \subseteq Armed \ {c}
  BY QuotaCases
<1>4. SeatsSuffice' <=> Cardinality(rowsNow) + Cardinality(armedNow)
                          <= MaxPerUser + Cardinality(Clients) - 1
  BY DEF SeatsSuffice
<1>. HIDE DEF rowsNow, armedNow
<1>5. /\ Cardinality(rowsNow) \in Nat /\ Cardinality(armedNow) \in Nat
      /\ Cardinality(armedNow) <= Cardinality(Clients)
  BY <1>2, AutomationsFinite, FS_Subset, FS_CardinalityType
<1>6. CASE rowsNow \subseteq Live /\ armedNow \subseteq Armed
  <2>1. Cardinality(rowsNow) + Cardinality(armedNow)
          <= Cardinality(Live) + Cardinality(Armed)
    BY <1>1, <1>6, QuotaFewer
  <2>. QED  BY <1>1, <1>4, <1>5, <2>1, LimitsAssumption DEF SeatsSuffice
<1>7. CASE rowsNow = Live /\ Cardinality(Live) < MaxPerUser
  BY <1>1, <1>4, <1>5, <1>7, LimitsAssumption
<1>8. ASSUME NEW a \in Automations, NEW c \in Armed,
             rowsNow \subseteq Live \cup {a}, armedNow \subseteq Armed \ {c}
      PROVE  SeatsSuffice'
  <2>1. Cardinality(rowsNow) + Cardinality(armedNow)
          <= Cardinality(Live) + Cardinality(Armed)
    BY <1>1, <1>8, QuotaInsert
  <2>. QED  BY <1>1, <1>4, <1>5, <2>1, LimitsAssumption DEF SeatsSuffice
<1>. QED
  BY <1>3, <1>6, <1>7, <1>8

(* However many creations overlap, the table outgrows its limit at most by *)
(* the requests in flight beside the one that filled it.                   *)
THEOREM OvershootIsBounded ==
  ASSUME IsFiniteSet(Clients), Clients # {}
  PROVE  Spec => []QuotaOvershootIsBounded
<1>1. Init => SeatsSuffice
  <2>. SUFFICES ASSUME Init PROVE SeatsSuffice
    OBVIOUS
  <2>1. Live = {} /\ Armed = {}
    BY DEF Init, Live, Armed
  <2>2. Cardinality(Clients) \in Nat /\ Cardinality(Clients) # 0
    BY FS_CardinalityType, FS_EmptySet
  <2>. QED
    BY <2>1, <2>2, FS_EmptySet, LimitsAssumption DEF SeatsSuffice
<1>2. TypeInv /\ SeatsSuffice /\ [Next]_vars => SeatsSuffice'
  BY QuotaStep
<1>3. SeatsSuffice => QuotaOvershootIsBounded
  BY QuotaFinite, LimitsAssumption DEF SeatsSuffice, QuotaOvershootIsBounded
<1>. QED
  BY <1>1, <1>2, <1>3, TypeInvariant, PTL DEF Spec
=============================================================================

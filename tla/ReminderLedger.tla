--------------------------- MODULE ReminderLedger ---------------------------
(***************************************************************************)
(* What the automations promise a user: a ledger of the reminders that     *)
(* went off, each automation at most once for each of its slots and never  *)
(* before the slot's time.  Pollers, sessions, rows and retries are not    *)
(* part of it.                                                             *)
(***************************************************************************)
EXTENDS Integers

CONSTANT Automations

VARIABLES
  ledger,   \* the <<automation, slot>> pairs that went off
  repeats,  \* those that went off although they had gone off before
  horizon   \* the latest instant reached so far

Init == ledger = {} /\ repeats = {} /\ horizon = 0

(* A reminder goes off, and only one that has not gone off before.         *)
GoOff(a, slot) ==
  /\ slot <= horizon
  /\ <<a, slot>> \notin ledger
  /\ ledger' = ledger \cup {<<a, slot>>}
  /\ UNCHANGED <<repeats, horizon>>

(* An automation is deleted, and its entries with it.                      *)
Forget(a) ==
  /\ ledger' = {entry \in ledger : entry[1] # a}
  /\ UNCHANGED <<repeats, horizon>>

TimePasses == horizon' = horizon + 1 /\ UNCHANGED <<ledger, repeats>>

Next ==
  \/ \E a \in Automations : Forget(a)
  \/ \E a \in Automations, slot \in 0..horizon : GoOff(a, slot)
  \/ TimePasses

Spec == Init /\ [][Next]_<<ledger, repeats, horizon>>
=============================================================================

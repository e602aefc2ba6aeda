----------------------------- MODULE ScanSlots -----------------------------
(***************************************************************************)
(* What admission promises to the scans of clean-disk-server: slots are    *)
(* given out one at a time and never more than there are, a scan is turned *)
(* away only at a moment at which every slot is taken, and a slot comes    *)
(* back once.                                                              *)
(***************************************************************************)
EXTENDS Naturals, FiniteSets

CONSTANTS Scans, Slots

VARIABLES
  holders,   \* the scans that have a slot
  verdict    \* what each scan was told

slotVars == <<holders, verdict>>

SlotsInit ==
  /\ holders = {}
  /\ verdict = [s \in Scans |-> "none"]

Grant(s) ==
  /\ verdict[s] = "none"
  /\ Cardinality(holders) < Slots
  /\ holders' = holders \cup {s}
  /\ verdict' = [verdict EXCEPT ![s] = "granted"]

TurnAway(s) ==
  /\ verdict[s] = "none"
  /\ Cardinality(holders) = Slots
  /\ verdict' = [verdict EXCEPT ![s] = "refused"]
  /\ UNCHANGED holders

GiveBack(s) ==
  /\ s \in holders
  /\ holders' = holders \ {s}
  /\ UNCHANGED verdict

SlotsNext == \E s \in Scans : Grant(s) \/ TurnAway(s) \/ GiveBack(s)

SlotsSpec == SlotsInit /\ [][SlotsNext]_slotVars
=============================================================================

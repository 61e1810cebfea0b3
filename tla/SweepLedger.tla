---------------------------- MODULE SweepLedger ----------------------------
(***************************************************************************)
(* What the sweep checkpoints promise: every sweep ever started is on the  *)
(* ledger, a point enters it once, and a sweep counts as done only when    *)
(* all its points are there.  How and when points are acquired, by how     *)
(* many attempts and across which restarts, is left open.                  *)
(***************************************************************************)
EXTENDS Naturals, Sequences

CONSTANT Points  \* the points of a sweep

VARIABLE ledger  \* the sweeps in the order of their creation

NewEntry == [done |-> FALSE, points |-> {}]

Create == ledger' = Append(ledger, NewEntry)

Record(id, p) ==
  /\ ~ledger[id].done
  /\ p \in Points \ ledger[id].points
  /\ ledger' = [ledger EXCEPT ![id].points = @ \cup {p}]

Complete(id) ==
  /\ ~ledger[id].done
  /\ ledger[id].points = Points
  /\ ledger' = [ledger EXCEPT ![id].done = TRUE]

LedgerInit == ledger = <<>>

LedgerNext ==
  \/ Create
  \/ \E id \in DOMAIN ledger : Complete(id) \/ \E p \in Points : Record(id, p)

LedgerSpec == LedgerInit /\ [][LedgerNext]_ledger
=============================================================================

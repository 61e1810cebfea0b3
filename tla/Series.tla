------------------------------- MODULE Series -------------------------------
(***************************************************************************)
(* What the queue promises for a series of measurements: items are taken   *)
(* in order and one at a time, what has settled stays settled, and when    *)
(* the series is over every item has settled.  Items that were never begun *)
(* are skipped, and only at its end.                                       *)
(***************************************************************************)
EXTENDS Naturals, Sequences

CONSTANT MaxItems  \* the longest series

VARIABLES
  items,    \* what became of each item
  underway  \* the series is not over

seriesVars == <<items, underway>>

Settled == {"done", "aborted", "error", "skipped"}
ItemStatus == {"pending", "running"} \cup Settled

(* Items are begun in order, when the ones before have settled.             *)
InOrder(its) ==
  \A i, j \in DOMAIN its : i < j /\ its[j] # "pending" => its[i] \in Settled

SkippedLast(its) ==
  \A i, j \in DOMAIN its : i < j /\ its[i] = "skipped" => its[j] = "skipped"

(* Only a pending or a running item changes.                                *)
Moves(its, next) ==
  /\ DOMAIN next = DOMAIN its
  /\ \A i \in DOMAIN its :
       /\ its[i] \in Settled => next[i] = its[i]
       /\ its[i] = "running" => next[i] # "pending"

Launch ==
  /\ ~underway
  /\ underway' = TRUE
  /\ \E n \in 1..MaxItems : items' = [i \in 1..n |-> "pending"]

Advance ==
  /\ underway
  /\ items' \in [DOMAIN items -> ItemStatus]
  /\ Moves(items, items') /\ InOrder(items') /\ SkippedLast(items')
  /\ underway' \in BOOLEAN
  /\ IF underway' THEN \A i \in DOMAIN items : items'[i] # "skipped"
                  ELSE \A i \in DOMAIN items : items'[i] \in Settled

SeriesInit == items = <<>> /\ underway = FALSE

SeriesNext == Launch \/ Advance

SeriesSpec == SeriesInit /\ [][SeriesNext]_seriesVars
=============================================================================

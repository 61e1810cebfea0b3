-------------------------- MODULE InstrumentLease --------------------------
(***************************************************************************)
(* What the busy guard promises, in the abstract: the instrument is leased *)
(* to one operation at a time, only the operation that has the lease talks *)
(* to the camera, and the instrument is offered again when the lease comes *)
(* back.  An operation may die with the lease: it is then offered no more. *)
(***************************************************************************)
CONSTANTS Ops, None

VARIABLES
  owner,   \* the operation that has the lease, or None
  open,    \* whether a new operation would be admitted
  talking  \* the operations with a camera command queued or in flight

leaseVars == <<owner, open, talking>>

LeaseInit == owner = None /\ open = TRUE /\ talking = {}

(* An operation is admitted, and may issue its first command at once.       *)
Take(o) ==
  /\ owner = None /\ open
  /\ owner' = o
  /\ open' = FALSE
  /\ talking' \in {{}, {o}}

Talk(o) == owner = o /\ talking' = {o} /\ UNCHANGED <<owner, open>>
Rest(o) == owner = o /\ talking' = {} /\ UNCHANGED <<owner, open>>

Return(o) ==
  /\ owner = o
  /\ owner' = None
  /\ open' = TRUE
  /\ talking' = {}

Die(o) ==
  /\ owner = o
  /\ owner' = None
  /\ talking' = {}
  /\ UNCHANGED open

LeaseNext == \E o \in Ops : Take(o) \/ Talk(o) \/ Rest(o) \/ Return(o) \/ Die(o)

LeaseSpec == LeaseInit /\ [][LeaseNext]_leaseVars
=============================================================================

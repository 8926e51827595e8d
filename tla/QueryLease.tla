----------------------------- MODULE QueryLease -----------------------------
(***************************************************************************)
(* What a timestamp pool promises the code that submits work (the contract *)
(* written above TimestampPool and TimestampPool::Handle): a pair of       *)
(* queries is leased to one submission at a time, and it comes back only   *)
(* when the GPU has no write to it outstanding.  Nothing is said of        *)
(* chunks, of the reaper or of how a lease is passed around.               *)
(***************************************************************************)
CONSTANT Slot    \* the query pairs that can be leased

VARIABLES
  leased,        \* the slots handed out and not yet returned
  outstanding    \* the slots the GPU still has to write

vars == <<leased, outstanding>>

Init ==
  /\ leased = {}
  /\ outstanding = {}

Lease(s) ==
  /\ s \notin leased
  /\ s \notin outstanding
  /\ leased' = leased \union {s}
  /\ UNCHANGED outstanding

\* One queue submission executes a batch of leased slots.
Execute(S) ==
  /\ S \subseteq leased
  /\ S \intersect outstanding = {}
  /\ outstanding' = outstanding \union S
  /\ UNCHANGED leased

Complete(s) ==
  /\ s \in outstanding
  /\ outstanding' = outstanding \ {s}
  /\ UNCHANGED leased

Return(s) ==
  /\ s \in leased
  /\ s \notin outstanding
  /\ leased' = leased \ {s}
  /\ UNCHANGED outstanding

Next ==
  \/ \E s \in Slot : Lease(s) \/ Complete(s) \/ Return(s)
  \/ \E S \in SUBSET Slot : Execute(S)

Spec == Init /\ [][Next]_vars
=============================================================================

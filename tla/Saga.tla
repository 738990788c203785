-------------------------------- MODULE Saga --------------------------------
(***************************************************************************)
(* What transactional execution promises, with everything else forgotten:  *)
(* each transaction pushes the effectful steps of its plan in plan order   *)
(* and then either commits with all of them in place, or turns back and    *)
(* pops them last in, first out, until none is left.  A transaction that   *)
(* turned back never goes forward or commits; one that cannot go on        *)
(* popping is contained, and says so while something is still in place.    *)
(* `lost' is a transaction that an exception took out of the manager's     *)
(* hands: what it had in place stays in place.                             *)
(***************************************************************************)
EXTENDS Integers

CONSTANTS Tx,        \* transactions
          Effectful  \* steps of the plan that have effects: numbers in plan order

VARIABLES phase,     \* [Tx -> Phase]
          applied    \* [Tx -> SUBSET Effectful], steps in place

sagaVars == <<phase, applied>>

\* A phase is "forward", "backward", "committed", "rolled_back", "contained",
\* "failed" or "lost".
SagaInit ==
  /\ phase = [t \in Tx |-> "forward"]
  /\ applied = [t \in Tx |-> {}]

Move(t, from, to) ==
  /\ phase[t] = from
  /\ phase' = [phase EXCEPT ![t] = to]
  /\ UNCHANGED applied

\* Push the next effectful step of the plan.
Do(t, i) ==
  /\ phase[t] = "forward"
  /\ \A j \in Effectful : j < i <=> j \in applied[t]
  /\ applied' = [applied EXCEPT ![t] = @ \cup {i}]
  /\ UNCHANGED phase

Commit(t) == applied[t] = Effectful /\ Move(t, "forward", "committed")

FailClean(t) == applied[t] = {} /\ Move(t, "forward", "failed")

TurnBack(t) == applied[t] # {} /\ Move(t, "forward", "backward")

\* Pop the latest step still in place.
UndoLast(t, i) ==
  /\ phase[t] = "backward"
  /\ i \in applied[t]
  /\ \A j \in applied[t] : j <= i
  /\ applied' = [applied EXCEPT ![t] = @ \ {i}]
  /\ UNCHANGED phase

RollBack(t) == applied[t] = {} /\ Move(t, "backward", "rolled_back")

Contain(t) == applied[t] # {} /\ Move(t, "backward", "contained")

Lose(t) == \E from \in {"forward", "backward"} : Move(t, from, "lost")

SagaNext ==
  \E t \in Tx :
    \/ \E i \in Effectful : Do(t, i) \/ UndoLast(t, i)
    \/ Commit(t) \/ FailClean(t) \/ TurnBack(t)
    \/ RollBack(t) \/ Contain(t) \/ Lose(t)

SagaSpec == SagaInit /\ [][SagaNext]_sagaVars

=============================================================================

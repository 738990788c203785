-------------------------- MODULE MCSessionStore ---------------------------
(***************************************************************************)
(* Two callers on one session, and two plan texts: one sound, one that     *)
(* scores better but is not.                                               *)
(***************************************************************************)
EXTENDS SessionStore, TLC

CONSTANTS x, y, p, q

MCScore == p :> 1 @@ q :> 2

\* A caller on its own goes as deep as the bounds allow when max_rounds is 2.  A
\* session that is to have one round has one more at most, one with hashless verdicts
\* two, one with a second verdict one, and none of these a checkpoint.  Two callers
\* meet on shorter sessions: no checkpoint, no logged failure, one verdict, a third
\* round only while a finish is under way, and hashless verdicts only where one
\* round is all there is to be.
Busy(a) == pc[a] # "idle" \/ mem[a] # None
Hashless == \E e \in heard \cup {file.judges[i] : i \in 1 .. Len(file.judges)} : e.text = None
Narrow ==
  LET n == Len(file.rounds) IN
  /\ file.max = 1 => n < 3 /\ file.checkpoints = <<>>
  /\ Len(file.judges) = 2 => n < 2 /\ file.checkpoints = <<>>
  /\ Hashless => n < 3 /\ file.checkpoints = <<>>
  /\ (\A a \in Caller : Busy(a)) =>
       /\ file.checkpoints = <<>> /\ ~file.replan /\ Len(file.judges) < 2
       /\ n < 3 \/ \E a \in Caller : pc[a] \in {"released", "finishing"}
       /\ IF file.max = 1 THEN n < 2 ELSE ~Hashless

=============================================================================

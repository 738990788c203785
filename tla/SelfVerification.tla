-------------------------- MODULE SelfVerification ---------------------------
(***************************************************************************)
(* Best-of-N plan selection (PlanSelfVerifier and                          *)
(* ProbabilisticSelfVerifier in self_verification.py): the candidates are  *)
(* validated one after the other, those that pass -- or, when none does,   *)
(* those that are undecided -- are ranked by the model that wrote them,    *)
(* and the winner is validated once more.                                  *)
(*                                                                         *)
(* A validation reads the capability registry, which others may change,    *)
(* and the clock, by which observations expire; both are the moment.  The  *)
(* ranking is a call of a model and takes as long as it takes.  It knows   *)
(* the candidates by their places in the list it was given.                *)
(***************************************************************************)
EXTENDS Integers, Sequences, SequencesExt, FiniteSets, Ascending

CONSTANTS
    Moments,      \* what the registry and the clock may be
    Status,       \* [Moments -> the status of each candidate, in order]
    Evaluations, Pivots, CriteriaCount, MaxCalls,
    Scores,       \* the scores the model may give
    Unset

First == CHOOSE m \in Moments : TRUE
N == Len(Status[First])
Statuses == {"PASS", "UNKNOWN", "FAIL"}

\* every moment has a status for each of the candidates
ASSUME StatusAssumption ==
    /\ Moments # {} /\ Status \in [Moments -> Seq(Statuses)]
    /\ \A m \in Moments : Len(Status[m]) = N

VARIABLES
    choice_pc,  \* "validate", "ask", "answer", "revalidate", "done"
    moment,
    found,      \* candidate_statuses, as far as the list has come
    eligible,   \* eligible_indices
    selected,   \* selected_index
    scores,     \* [candidate -> its score, or Unset]
    certified,  \* is_certified
    raised,     \* whether select raised instead of returning
    soft,       \* what the model answered, by places in its own list
    last        \* history: the moment of the last validation

choiceVars == <<choice_pc, moment, found, eligible, selected, scores, certified, raised, soft, last>>

ChoiceTypeOK ==
    /\ choice_pc \in {"validate", "ask", "answer", "revalidate", "done"}
    /\ moment \in Moments /\ last \in Moments
    /\ found \in Seq(Statuses) /\ Len(found) <= N
    /\ eligible \in Seq(1..N) /\ selected \in 1..N \cup {Unset}
    /\ scores \in [1..N -> Scores \cup {Unset}]
    /\ certified \in BOOLEAN /\ raised \in BOOLEAN

ChoiceInit ==
    /\ choice_pc = "validate" /\ moment = First /\ last = First
    /\ found = <<>> /\ eligible = <<>> /\ selected = Unset
    /\ scores = [c \in 1..N |-> Unset] /\ certified = FALSE /\ raised = FALSE
    /\ soft = Unset

-----------------------------------------------------------------------------
\* others register capabilities, observations expire
Change(m) ==
    /\ choice_pc # "done" /\ moment' = m
    /\ UNCHANGED <<choice_pc, found, eligible, selected, scores, certified, raised, soft, last>>

\* _validate of the next candidate; an unregistered capability makes it UNKNOWN
Validate ==
    /\ choice_pc = "validate" /\ Len(found) < N
    /\ found' = Append(found, Status[moment][Len(found) + 1]) /\ last' = moment
    /\ UNCHANGED <<choice_pc, moment, eligible, selected, scores, certified, raised, soft>>

\* the candidates with a status, in order
With(s) == InOrder({c \in 1..N : found[c] = s})

\* Mutant of Prefilter: undecided candidates compete with those that pass
PrefilterAll ==
    /\ choice_pc = "validate" /\ Len(found) = N
    /\ eligible' = InOrder({c \in 1..N : found[c] # "FAIL"})
    /\ choice_pc' = IF eligible' = <<>> THEN "done" ELSE "ask"
    /\ UNCHANGED <<moment, found, selected, scores, certified, raised, soft, last>>

\* nothing eligible: the result selects nothing
Prefilter ==
    /\ choice_pc = "validate" /\ Len(found) = N
    /\ eligible' = IF With("PASS") # <<>> THEN With("PASS") ELSE With("UNKNOWN")
    /\ choice_pc' = IF eligible' = <<>> THEN "done" ELSE "ask"
    /\ UNCHANGED <<moment, found, selected, scores, certified, raised, soft, last>>

estimated_calls(k) ==
    (k + k * (IF Pivots < k THEN Pivots ELSE k)) * CriteriaCount * Evaluations

GiveUp == choice_pc' = "done" /\ raised' = TRUE

\* the model's identity is known and the calls fit the budget, or it raises
Ask(known) ==
    /\ choice_pc = "ask"
    /\ IF known /\ estimated_calls(Len(eligible)) <= MaxCalls
       THEN choice_pc' = "answer" /\ UNCHANGED raised
       ELSE GiveUp
    /\ UNCHANGED <<moment, found, eligible, selected, scores, certified, soft, last>>

\* the answer is checked and its places translated into candidates
Answer(i, ss) ==
    /\ choice_pc = "answer" /\ soft' = [index |-> i, scores |-> ss]
    /\ IF i \in DOMAIN eligible /\ Len(ss) \in {0, Len(eligible)}
       THEN /\ choice_pc' = "revalidate" /\ selected' = eligible[i]
            /\ scores' = [c \in 1..N |-> IF \E j \in DOMAIN ss : eligible[j] = c
                                         THEN ss[CHOOSE j \in DOMAIN ss : eligible[j] = c] ELSE Unset]
            /\ UNCHANGED raised
       ELSE GiveUp /\ UNCHANGED <<selected, scores>>
    /\ UNCHANGED <<moment, found, eligible, certified, last>>

Revalidate ==
    /\ choice_pc = "revalidate" /\ choice_pc' = "done"
    /\ certified' = (Status[moment][selected] = "PASS") /\ last' = moment
    /\ UNCHANGED <<moment, found, eligible, selected, scores, raised, soft>>

ChoiceNext ==
    \/ \E m \in Moments : Change(m)
    \/ Validate \/ Prefilter \/ Revalidate
    \/ \E known \in BOOLEAN : Ask(known)
    \/ \E i \in 0..(N + 1) : \E n \in 0..N : \E ss \in [1..n -> Scores] : Answer(i, ss)

ChoiceSpec == ChoiceInit /\ [][ChoiceNext]_choiceVars

-----------------------------------------------------------------------------
(* "Closed-world prefilter -> same-model/same-thinking rank -> deterministic *)
(* revalidation" (self_verification.py:586).  Whatever the model answers and *)
(* however the registry and the clock move meanwhile, a certified selection *)
(* passes at the moment the result is made; a candidate that was refused    *)
(* never wins, nor an undecided one over one that had passed; and the score *)
(* each candidate carries is the one the model gave to its own text.        *)
CertifiedSelection ==
    /\ certified => choice_pc = "done" /\ ~raised /\ Status[last][selected] = "PASS"
    /\ selected # Unset =>
          /\ found[selected] # "FAIL"
          /\ found[selected] = "UNKNOWN" => "PASS" \notin ToSet(found)
          /\ eligible[soft.index] = selected
          /\ \A c \in 1..N : scores[c] # Unset => found[c] = found[selected]
          /\ soft.scores # <<>> =>
                \A c \in 1..N : found[c] = found[selected] =>
                    scores[c] = soft.scores[Cardinality({d \in 1..c : found[d] = found[c]})]
=============================================================================

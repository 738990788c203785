---------------------------- MODULE SessionStore ----------------------------
(***************************************************************************)
(* A plan session kept in one JSON file and worked on by several callers:  *)
(* assess, fold_history, checkpoint, rewind, log_progress, record_judge,   *)
(* judge_ensemble, release and finish, as the last layer of patches leaves *)
(* them.                                                                   *)
(*                                                                         *)
(* session_lock covers a load, the work and the save; the file itself is   *)
(* replaced in one step by os.replace.  Some operations write without the  *)
(* lock, or with a copy they loaded before they took it: an operation is   *)
(* therefore a load (Enter, Read) and a save (Write), and other callers    *)
(* may save in between.  A caller is a thread, a process or a coroutine.   *)
(* A plan text is a model value; its hash is the text itself.              *)
(***************************************************************************)
EXTENDS Integers, Sequences, FiniteSets, Ascending

CONSTANTS
  Caller,
  Planners,   \* callers that work on the plan
  Judges,     \* callers that judge, release and finish it
  Holders,    \* callers that pass the session as a dict, which nothing reloads
  Text,       \* plan texts
  Score,      \* [Text -> Nat], _score
  Sound,      \* texts that pass verify, ground_check and simulate
  MinScore,   \* min_score of release
  MaxRounds,  \* what start() may be given as max_rounds
  RoundBound, JudgeBound, CheckpointBound, \* bounds on the lists in the session
  Summary,    \* what a folded round has instead of its text
  None

ASSUME StoreAssumption ==
  /\ Planners \cup Judges \cup Holders \subseteq Caller /\ None \notin Caller
  /\ Sound \subseteq Text
  /\ Score \in [Text -> Nat] /\ MinScore \in Nat
  /\ MaxRounds \subseteq Nat
  /\ {RoundBound, JudgeBound, CheckpointBound} \subseteq Nat
  /\ Summary \notin Text \cup {None} /\ None \notin Text

\* A round, a verdict, what a checkpoint keeps, and the session itself (the
\* schema start() writes); best and committed are version numbers, 0 for none.
\* A verdict on a version that does not exist is hashless: its text is None.
Plan == Text \cup {Summary}
Round == [text : Plan, score : Nat]
Verdict == [version : Nat, text : Plan \cup {None}, go : BOOLEAN]
StatusName == {"drafting", "improving", "converged", "plateaued", "finished"}
Snapshot == [rounds : Seq(Round), best : Nat, status : StatusName, replan : BOOLEAN,
             committed : Nat, promised : Plan \cup {None}]
Session == [rounds : Seq(Round), best : Nat, status : StatusName, replan : BOOLEAN,
            committed : Nat, promised : Plan \cup {None},
            judges : Seq(Verdict), folded : BOOLEAN, checkpoints : Seq(Snapshot),
            max : Nat]

ASSUME NoneAssumption == None \notin Session

VARIABLES
  file,   \* the session on disk
  lock,   \* who holds session_lock, None when nobody does
  mem,    \* [Caller -> the session dict in hand, or None]
  pc,     \* [Caller -> where its call is]
  topic,  \* [Caller -> the text it assessed or has judged, or None]
  heard,  \* history: what some verdict "go" was about, see About
  raced   \* history: callers whose finish was overtaken after its release

vars == <<file, lock, mem, pc, topic, heard, raced>>

New(m) == [rounds |-> <<>>, best |-> 0, status |-> "drafting", replan |-> FALSE,
           committed |-> 0, promised |-> None,
           judges |-> <<>>, folded |-> FALSE, checkpoints |-> <<>>, max |-> m]

Init ==
  /\ file \in {New(m) : m \in MaxRounds}
  /\ lock = None
  /\ mem = [a \in Caller |-> None]
  /\ pc = [a \in Caller |-> "idle"]
  /\ topic = [a \in Caller |-> None]
  /\ heard = {} /\ raced = {}

---------------------------------------------------------------------------
(* What the operations compute, as functions of the session they have.     *)

TextOf(s, v) == IF v \in 1 .. Len(s.rounds) THEN s.rounds[v].text ELSE None

\* Two rounds in a row that did not improve on the one before them.
Plateaued(rounds) ==
  LET n == Len(rounds) IN
  n > 2 /\ rounds[n].score <= rounds[n - 1].score /\ rounds[n - 1].score <= rounds[n - 2].score

\* Mutant of Compress: only the best and the latest rounds are kept.
CompressBestOnly(s, long) ==
  LET n == Len(s.rounds)
      protected == {s.best, n} \cup (IF long THEN {} ELSE {n - 1})
  IN  [s EXCEPT !.folded = TRUE,
                !.rounds = [v \in 1 .. n |->
                   IF v \in protected THEN s.rounds[v] ELSE [s.rounds[v] EXCEPT !.text = Summary]]]

\* compress_history folds every round that is neither protected nor one of the
\* last two, and the one before the last too when the session is still too long.
Compress(s, long) ==
  LET n == Len(s.rounds)
      protected == {s.best, s.committed, n} \cup (IF long THEN {} ELSE {n - 1})
  IN  [s EXCEPT !.folded = TRUE,
                !.rounds = [v \in 1 .. n |->
                   IF v \in protected THEN s.rounds[v] ELSE [s.rounds[v] EXCEPT !.text = Summary]]]

\* A history is folded once, and only when it is longer than what is kept.
Folded(s, keep, long) ==
  IF s.folded \/ Len(s.rounds) <= keep + 1 THEN s ELSE Compress(s, long)

\* assess: a mechanical critique (`open') or a pending replan keeps the loop
\* going, max_rounds stops it whatever the critiques.
Stops(s, open) ==
  LET n == Len(s.rounds) IN
  n >= s.max \/ (~open /\ ~s.replan /\ Plateaued(s.rounds))

Assessed(s, t, open, addressed, long) ==
  LET r == [s EXCEPT
              !.rounds = Append(@, [text |-> t, score |-> Score[t]]),
              !.best = IF @ = 0 \/ Score[t] > s.rounds[@].score THEN Len(s.rounds) + 1 ELSE @,
              !.status = IF s.best = 0 THEN "improving" ELSE @]
      e == IF Stops(r, open) THEN Folded([r EXCEPT !.status = "converged"], 2, long) ELSE r
  IN  [e EXCEPT !.replan = @ /\ ~addressed]

\* The status assess returns: an open critique always says "improving".
Reports(s, r, open) == (~open /\ ~s.replan /\ r.status = "converged") \/ Len(r.rounds) >= s.max

Aligned(s) == [rounds |-> s.rounds, best |-> s.best, status |-> s.status, replan |-> s.replan,
               committed |-> s.committed, promised |-> s.promised]

\* Mutant of Rewound: the best version is not restored.
RewoundButBest(s, c) ==
  [s EXCEPT !.rounds = c.rounds, !.status = c.status, !.replan = c.replan,
            !.committed = c.committed, !.promised = c.promised]

Rewound(s, c) ==
  [s EXCEPT !.rounds = c.rounds, !.best = c.best, !.status = c.status, !.replan = c.replan,
            !.committed = c.committed, !.promised = c.promised]

\* release looks only at verdicts about the text the best version has now, in
\* the order they were recorded in; a session with one round keeps hashless ones.
RelevantPlaces(s) ==
  {i \in 1 .. Len(s.judges) :
     s.best # 0 /\ s.judges[i].version = s.best =>
       \/ s.judges[i].text = TextOf(s, s.best)
       \/ s.judges[i].text = None /\ Len(s.rounds) <= 1}

\* Mutant of Relevant: the version number alone binds a verdict.
RelevantByVersion(s) == s.judges

Relevant(s) ==
  LET places == InOrder(RelevantPlaces(s))
  IN  [k \in DOMAIN places |-> s.judges[places[k]]]

\* The latest of them for the best version says go.
JudgeGate(s) ==
  LET said == {i \in 1 .. Len(Relevant(s)) : Relevant(s)[i].version = s.best} IN
  \E i \in said : Relevant(s)[i].go /\ \A j \in said : j <= i

Gate(s) ==
  /\ s.status = "converged"
  /\ TextOf(s, s.best) \in Sound
  /\ s.rounds[s.best].score >= MinScore
  /\ JudgeGate(s)

Released(s) == [s EXCEPT !.committed = s.best, !.promised = TextOf(s, s.best)]

---------------------------------------------------------------------------
(* Taking the lock, loading and saving.                                    *)

Loaded(a) == IF a \in Holders /\ mem[a] # None THEN mem[a] ELSE file

\* The file is replaced; the others whose finish has passed its gate are overtaken.
Write(a, s) ==
  /\ file' = s
  /\ raced' = raced \cup {b \in Caller \ {a} : pc[b] \in {"released", "finishing"}}

\* What a call leaves the caller with: a dict stays, a loaded session is dropped.
Kept(a, s) == mem' = [mem EXCEPT ![a] = IF a \in Holders THEN s ELSE None]

Goto(a, l) == pc' = [pc EXCEPT ![a] = l]

Enter(a, from, to) ==
  /\ pc[a] = from /\ lock = None
  /\ lock' = a
  /\ mem' = [mem EXCEPT ![a] = Loaded(a)]
  /\ Goto(a, to)
  /\ UNCHANGED <<file, topic, heard, raced>>

Begin(a) == Enter(a, "idle", "locked")

\* A call that is done: saved in one step, the lock released.
Done(a, s) ==
  /\ pc[a] = "locked"
  /\ Write(a, s) /\ Kept(a, s)
  /\ lock' = None
  /\ Goto(a, "idle")

\* A call that raises or has nothing to do: a finished session is not assessed,
\* a session without checkpoints is not rewound.
Leave(a) ==
  /\ pc[a] = "locked"
  /\ lock' = None /\ Kept(a, mem[a]) /\ Goto(a, "idle")
  /\ UNCHANGED <<file, topic, heard, raced>>

---------------------------------------------------------------------------
(* The operations.                                                         *)

Assess(a, t, open, addressed, long) ==
  LET s == mem[a]
      r == Assessed(s, t, open, addressed, long)
  IN
  /\ pc[a] = "locked"
  /\ s.status # "finished"
  /\ Len(s.rounds) < RoundBound
  /\ t \notin Sound => open
  /\ Write(a, r) /\ Kept(a, r)
  /\ lock' = None
  /\ IF Reports(s, r, open)
     THEN Goto(a, "converged") /\ topic' = [topic EXCEPT ![a] = t]
     ELSE Goto(a, "idle") /\ UNCHANGED topic
  /\ UNCHANGED heard

\* The wrapper around assess writes the status again, without the lock.
ReadStatus(a) ==
  /\ pc[a] = "converged"
  /\ mem' = [mem EXCEPT ![a] = Loaded(a)]
  /\ Goto(a, "persist")
  /\ UNCHANGED <<file, lock, topic, heard, raced>>

PersistStatus(a) ==
  LET s == [mem[a] EXCEPT !.status = IF topic[a] \in Sound THEN "converged" ELSE "plateaued"] IN
  /\ pc[a] = "persist"
  /\ Write(a, s) /\ Kept(a, s)
  /\ topic' = [topic EXCEPT ![a] = None]
  /\ Goto(a, "idle")
  /\ UNCHANGED <<lock, heard>>

FoldHistory(a, keep, long) ==
  /\ Done(a, Folded(mem[a], keep, long))
  /\ UNCHANGED <<topic, heard>>

Checkpoint(a) ==
  /\ pc[a] = "locked"
  /\ Len(mem[a].checkpoints) < CheckpointBound
  /\ Done(a, [mem[a] EXCEPT !.checkpoints = Append(@, Aligned(mem[a]))])
  /\ UNCHANGED <<topic, heard>>

Rewind(a) ==
  /\ pc[a] = "locked"
  /\ \E i \in 1 .. Len(mem[a].checkpoints) : Done(a, Rewound(mem[a], mem[a].checkpoints[i]))
  /\ UNCHANGED <<topic, heard>>

\* Progress that is not a failure leaves a log entry nothing else reads.
LogFailure(a) ==
  /\ Done(a, [mem[a] EXCEPT !.replan = TRUE])
  /\ UNCHANGED <<topic, heard>>

\* What a verdict is about: a text, of whatever version, or a version without one.
Subject == [version : Nat, text : Plan \cup {None}]
About(e) == [version |-> IF e.text = None THEN e.version ELSE 0, text |-> e.text]

Said(e) == heard' = IF e.go THEN heard \cup {About(e)} ELSE heard

WithVerdict(s, e) == [s EXCEPT !.judges = Append(@, e)]

\* A verdict recorded for version v is taken to be about the text v has now, if
\* there is such a version.  (One for no version at all decides nothing.)
RecordJudge(a, v, go) ==
  LET e == [version |-> v, text |-> TextOf(mem[a], v), go |-> go] IN
  /\ pc[a] = "locked"
  /\ Len(mem[a].judges) < JudgeBound
  /\ Done(a, WithVerdict(mem[a], e))
  /\ Said(e)
  /\ UNCHANGED topic

\* judge_ensemble loads the session, awaits the judges, and records the verdict
\* in the session it loaded.
AskJudges(a, t) ==
  /\ pc[a] = "idle"
  /\ mem' = [mem EXCEPT ![a] = Loaded(a)]
  /\ topic' = [topic EXCEPT ![a] = t]
  /\ Goto(a, "judging")
  /\ UNCHANGED <<file, lock, heard, raced>>

\* The votes: on t for the best version, and the recorded ones for that version
\* whose hash is t's or missing; those recorded before there was a version (0, with
\* a text) count in a session with one round.
Votes(s, t) ==
  [version : {s.best}, text : {t}, go : BOOLEAN] \cup
  {e \in {s.judges[i] : i \in 1 .. Len(s.judges)} :
     \/ s.best # 0 /\ e.version = s.best /\ e.text \in {t, None}
     \/ e.version = 0 /\ e.text = t /\ Len(s.rounds) = 1}

\* The median vote is recorded as it is, with its own version and hash.
RecordEnsemble(a, e) ==
  LET s == WithVerdict(mem[a], e) IN
  /\ pc[a] = "judging" /\ lock = None
  /\ Len(mem[a].judges) < JudgeBound
  /\ Write(a, s) /\ Kept(a, s)
  /\ Said(e)
  /\ topic' = [topic EXCEPT ![a] = None]
  /\ Goto(a, "idle")
  /\ UNCHANGED lock

\* release saves the report with the judge log cut down to what it looked at;
\* `others' stands for the checks the caller asks for in addition.
Release(a, others) ==
  LET s == IF others /\ Gate(mem[a]) THEN Released(mem[a]) ELSE mem[a] IN
  /\ pc[a] = "locked"
  /\ Write(a, [s EXCEPT !.judges = Relevant(s)])
  /\ mem' = [mem EXCEPT ![a] = s]
  /\ Goto(a, IF others /\ Gate(mem[a]) THEN "passed" ELSE "failed")
  /\ UNCHANGED <<lock, topic, heard>>

\* Mutant of RestoreJudges: finish goes on whatever the gate said.
RestoreAndGoOn(a) ==
  /\ pc[a] \in {"passed", "failed"}
  /\ Write(a, mem[a]) /\ Kept(a, mem[a])
  /\ lock' = None
  /\ Goto(a, "idle") \/ Goto(a, "released")
  /\ UNCHANGED <<topic, heard>>

\* ... and again with the whole of it.  A finish goes on after a gate that passed.
RestoreJudges(a) ==
  /\ pc[a] \in {"passed", "failed"}
  /\ Write(a, mem[a]) /\ Kept(a, mem[a])
  /\ lock' = None
  /\ \/ Goto(a, "idle")
     \/ pc[a] = "passed" /\ Goto(a, "released")
  /\ UNCHANGED <<topic, heard>>

BeginFinish(a) == Enter(a, "released", "finishing")

Finish(a) ==
  LET s == [mem[a] EXCEPT !.status = "finished"] IN
  /\ pc[a] = "finishing"
  /\ file' = s /\ Kept(a, s)
  /\ raced' = raced \ {a}
  /\ lock' = None
  /\ Goto(a, "idle")
  /\ UNCHANGED <<topic, heard>>

\* The caller's process dies, is cancelled, or gives up waiting for the lock.
Crash(a) ==
  /\ pc[a] # "idle"
  /\ pc' = [pc EXCEPT ![a] = "idle"]
  /\ mem' = [mem EXCEPT ![a] = None]
  /\ topic' = [topic EXCEPT ![a] = None]
  /\ lock' = IF lock = a THEN None ELSE lock
  /\ raced' = raced \ {a}
  /\ UNCHANGED <<file, heard>>

Plans(a) ==
  \/ \E t \in Text, open \in BOOLEAN, addressed \in BOOLEAN, long \in BOOLEAN :
        Assess(a, t, open, addressed, long)
  \/ ReadStatus(a)
  \/ PersistStatus(a)
  \/ \E keep \in {1, 2}, long \in BOOLEAN : FoldHistory(a, keep, long)
  \/ Checkpoint(a)
  \/ Rewind(a)
  \/ LogFailure(a)

Decides(a) ==
  \/ \E v \in 1 .. RoundBound, go \in BOOLEAN : RecordJudge(a, v, go)
  \/ \E t \in Text : AskJudges(a, t)
  \/ pc[a] = "judging" /\ \E e \in Votes(mem[a], topic[a]) : RecordEnsemble(a, e)
  \/ \E others \in BOOLEAN : Release(a, others)
  \/ RestoreJudges(a)
  \/ BeginFinish(a)
  \/ Finish(a)

Next ==
  \E a \in Caller :
    \/ Begin(a) \/ Leave(a) \/ Crash(a)
    \/ a \in Planners /\ Plans(a)
    \/ a \in Judges /\ Decides(a)

Spec == Init /\ [][Next]_vars

---------------------------------------------------------------------------
(* Properties.                                                             *)

\* The versions a session or a checkpoint names exist.
Exist(s) ==
  /\ Len(s.rounds) <= RoundBound
  /\ {s.best, s.committed} \subseteq 0 .. Len(s.rounds)
IsSession(s) ==
  /\ s \in Session /\ Exist(s)
  /\ \A i \in 1 .. Len(s.checkpoints) : Exist(s.checkpoints[i])

\* Whatever is written, by whom and from however old a copy, the file is a session
\* whose best and committed versions exist (the schema start() writes).
TypeOK ==
  /\ IsSession(file)
  /\ mem \in [Caller -> Session \cup {None}]
  /\ \A a \in Caller : mem[a] # None => IsSession(mem[a])
  /\ lock \in Caller \cup {None}
  /\ pc \in [Caller -> {"idle", "locked", "converged", "persist", "judging", "passed", "failed",
                        "released", "finishing"}]
  /\ topic \in [Caller -> Text \cup {None}]
  /\ heard \subseteq Subject /\ raced \subseteq Caller

\* Folding, rewinding and overwriting never lose the text of the best version, nor
\* that of the committed one, which keeps the hash it was committed with
\* (committed_plan_hash); the same is true of every checkpoint.
Intact(s) ==
  /\ s.best # 0 => s.rounds[s.best].text # Summary
  /\ s.committed # 0 => s.rounds[s.committed].text = s.promised
KeepsPlans ==
  /\ Intact(file)
  /\ \A i \in 1 .. Len(file.checkpoints) : Intact(file.checkpoints[i])

\* A committed plan is sound, and some judge said go about this very text, though
\* rewinding gives its version number to other texts (release).  The one exception
\* is what the code lets pass: version 1 may rest on a go recorded for it while it
\* did not exist, which a session with one round keeps.
Backs(e, s) == e.text = s.promised \/ (e.text = None /\ e.version = 1 /\ s.committed = 1)
CommitJudged ==
  file.committed # 0 => file.promised \in Sound /\ \E e \in heard : Backs(e, file)

\* Who finishes without being overtaken marks as finished what its own release
\* committed: the best version, judged (finish).
FinishesReleased(a) ==
  (pc[a] = "finishing" /\ file'.status = "finished" /\ pc'[a] = "idle") =>
    file'.committed # 0 /\ file'.committed = file'.best
FinishIsReleased == [][\A a \in Caller \ raced : FinishesReleased(a)]_vars

\* No operation but a rewind takes a round away that another has saved
\* (SKILL.md on session_lock).
RoundsSurvive ==
  [][Len(file'.rounds) >= Len(file.rounds) \/ \E a \in Caller : Rewind(a)]_vars

=============================================================================

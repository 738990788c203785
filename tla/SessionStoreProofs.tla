-------------------------- MODULE SessionStoreProofs --------------------------
(***************************************************************************)
(* The session file is a session, keeps the plans it names, commits what a *)
(* judge said go about (or about version 1 before it existed), and is      *)
(* finished only as released -- for any number of callers, texts, rounds   *)
(* and verdicts, whatever copies the callers write back.                   *)
(*                                                                         *)
(* None of this is inductive on the file alone: any copy in a caller's     *)
(* hand, and any checkpoint in it, may become the file.  Sane is what all  *)
(* of them have in common, and every operation keeps it; PlaceInv says     *)
(* which caller has a copy at all, and ReleaseInv where a finish that was  *)
(* not overtaken still sees its own release.                               *)
(***************************************************************************)
EXTENDS SessionStore, AscendingProofs, SequenceTheorems, TLAPS

-----------------------------------------------------------------------------
(* Sessions *)

\* h is what some judge said go about
SaneParts(s, h) ==
  /\ Exist(s) /\ Intact(s)
  /\ s.committed # 0 => s.promised \in Sound /\ \E e \in h : Backs(e, s)

Sane(s, h) ==
  /\ s \in Session /\ SaneParts(s, h)
  /\ \A i \in 1 .. Len(s.judges) : s.judges[i].go => About(s.judges[i]) \in h
  /\ \A i \in 1 .. Len(s.checkpoints) : SaneParts(s.checkpoints[i], h)

LEMMA NewSane == \A m \in MaxRounds : Sane(New(m), {})
<1> TAKE m \in MaxRounds
<1>1. m \in Nat
  BY StoreAssumption
<1>2. New(m) \in Session
  BY <1>1 DEF New, Session, StatusName
<1>3. SaneParts(New(m), {})
  BY StoreAssumption DEF New, SaneParts, Exist, Intact
<1>4. QED
  BY <1>2, <1>3 DEF New, Sane

LEMMA SaneGrows ==
  ASSUME NEW s, NEW h, NEW g, h \subseteq g, Sane(s, h)
  PROVE  Sane(s, g)
BY DEF Sane, SaneParts

LEMMA CompressSane ==
  ASSUME NEW s, NEW h, Sane(s, h), NEW long \in BOOLEAN
  PROVE  Sane(Compress(s, long), h)
<1> DEFINE n == Len(s.rounds)
           protected == {s.best, s.committed, n} \cup (IF long THEN {} ELSE {n - 1})
           rs == [v \in 1 .. n |->
                   IF v \in protected THEN s.rounds[v] ELSE [s.rounds[v] EXCEPT !.text = Summary]]
           c == Compress(s, long)
<1>1. s \in Session /\ s.rounds \in Seq(Round) /\ n \in Nat /\ s.best \in Nat /\ s.committed \in Nat
  BY DEF Sane, Session
<1>2. rs \in [1 .. n -> Round]
  <2>1. ASSUME NEW v \in 1 .. n PROVE s.rounds[v] \in Round /\ [s.rounds[v] EXCEPT !.text = Summary] \in Round
    <3>1. s.rounds[v] \in Round
      BY <1>1, ElementOfSeq
    <3>2. QED
      BY <3>1 DEF Round, Plan
  <2>2. QED
    BY <2>1
<1>3. rs \in Seq(Round) /\ Len(rs) = n
  <2> HIDE DEF rs
  <2>1. QED
    BY <1>1, <1>2
<1>4. c = [s EXCEPT !.folded = TRUE, !.rounds = rs]
  BY DEF Compress
<1> HIDE DEF rs, c
<1>5. /\ c \in Session /\ c.rounds = rs
      /\ c.best = s.best /\ c.committed = s.committed /\ c.promised = s.promised
      /\ c.judges = s.judges /\ c.checkpoints = s.checkpoints
  BY <1>1, <1>3, <1>4 DEF Session
<1>6. /\ s.best # 0 => rs[s.best] = s.rounds[s.best]
      /\ s.committed # 0 => rs[s.committed] = s.rounds[s.committed]
  BY <1>1 DEF rs, Sane, SaneParts, Exist
<1>7. SaneParts(c, h)
  BY <1>3, <1>5, <1>6 DEF Sane, SaneParts, Backs, Exist, Intact
<1>8. QED
  BY <1>5, <1>7 DEF Sane, c

LEMMA FoldedSane ==
  ASSUME NEW s, NEW h, Sane(s, h), NEW keep, NEW long \in BOOLEAN
  PROVE  Sane(Folded(s, keep, long), h)
BY CompressSane DEF Folded

LEMMA StatusSane ==
  ASSUME NEW s, NEW h, Sane(s, h), NEW st \in StatusName
  PROVE  Sane([s EXCEPT !.status = st], h)
BY DEF Sane, SaneParts, Backs, Exist, Intact, Session

LEMMA ReplanSane ==
  ASSUME NEW s, NEW h, Sane(s, h), NEW r \in BOOLEAN
  PROVE  Sane([s EXCEPT !.replan = r], h)
BY DEF Sane, SaneParts, Backs, Exist, Intact, Session

-----------------------------------------------------------------------------
(* The verdicts release looks at *)

LEMMA RelevantAreVerdicts ==
  ASSUME NEW s \in Session
  PROVE  /\ Relevant(s) \in Seq(Verdict)
         /\ \A k \in 1 .. Len(Relevant(s)) :
               \E i \in 1 .. Len(s.judges) :
                  /\ Relevant(s)[k] = s.judges[i]
                  /\ s.best # 0 /\ s.judges[i].version = s.best =>
                       \/ s.judges[i].text = TextOf(s, s.best)
                       \/ s.judges[i].text = None /\ Len(s.rounds) <= 1
<1> DEFINE P == RelevantPlaces(s)
           n == Len(s.judges)
           m == Cardinality(P)
           places == InOrder(P)
           r == [k \in 1 .. m |-> s.judges[places[k]]]
<1>1. s.judges \in Seq(Verdict) /\ n \in Nat
  BY DEF Session
<1>2. P \in SUBSET (1 .. n)
  BY DEF RelevantPlaces
<1>3. places \in Seq(P) /\ Len(places) = m /\ m \in Nat
  <2> HIDE DEF P, n
  <2>1. QED
    BY <1>1, <1>2, InOrderProperties
<1>4. DOMAIN places = 1 .. m /\ \A k \in 1 .. m : places[k] \in P
  <2> HIDE DEF P, places, m
  <2>1. QED
    BY <1>3, LenProperties, ElementOfSeq
<1>5. Relevant(s) = r
  BY <1>4 DEF Relevant
<1> HIDE DEF places, m
<1>6. r \in [1 .. m -> Verdict]
  <2>1. ASSUME NEW k \in 1 .. m PROVE s.judges[places[k]] \in Verdict
    BY <1>1, <1>2, <1>4, ElementOfSeq
  <2>2. QED
    BY <2>1
<1>7. r \in Seq(Verdict) /\ Len(r) = m
  <2> HIDE DEF r
  <2>1. QED
    BY <1>3, <1>6
<1>8. \A k \in 1 .. m : r[k] = s.judges[places[k]] /\ places[k] \in P
  BY <1>4
<1> HIDE DEF r
<1>9. QED
  BY <1>2, <1>5, <1>7, <1>8 DEF RelevantPlaces

-----------------------------------------------------------------------------
(* What the operations make of a session *)

LEMMA RelevantSane ==
  ASSUME NEW s, NEW h, Sane(s, h)
  PROVE  Sane([s EXCEPT !.judges = Relevant(s)], h)
<1> DEFINE r == [s EXCEPT !.judges = Relevant(s)]
<1>1. s \in Session
  BY DEF Sane
<1>2. Relevant(s) \in Seq(Verdict)
  BY <1>1, RelevantAreVerdicts
<1>3. /\ r \in Session /\ r.judges = Relevant(s)
      /\ r.rounds = s.rounds /\ r.best = s.best /\ r.committed = s.committed
      /\ r.promised = s.promised /\ r.checkpoints = s.checkpoints
  BY <1>1, <1>2 DEF Session
<1>4. \A k \in 1 .. Len(Relevant(s)) : Relevant(s)[k].go => About(Relevant(s)[k]) \in h
  BY <1>1, RelevantAreVerdicts DEF Sane
<1> HIDE DEF r
<1>5. SaneParts(r, h)
  BY <1>3 DEF Sane, SaneParts, Backs, Exist, Intact
<1>6. QED
  BY <1>3, <1>4, <1>5 DEF Sane, r

LEMMA JudgedSane ==
  ASSUME NEW s, NEW h, Sane(s, h), NEW e \in Verdict, NEW g, h \subseteq g, e.go => About(e) \in g
  PROVE  Sane(WithVerdict(s, e), g)
<1> DEFINE r == WithVerdict(s, e)
<1>1. s \in Session /\ s.judges \in Seq(Verdict) /\ Len(s.judges) \in Nat
  BY DEF Sane, Session
<1>2. e \in Verdict
  OBVIOUS
<1>3. /\ Append(s.judges, e) \in Seq(Verdict)
      /\ Len(Append(s.judges, e)) = Len(s.judges) + 1
      /\ \A i \in 1 .. Len(s.judges) : Append(s.judges, e)[i] = s.judges[i]
      /\ Append(s.judges, e)[Len(s.judges) + 1] = e
  BY <1>1, <1>2, AppendProperties
<1>4. /\ r \in Session /\ r.judges = Append(s.judges, e)
      /\ r.rounds = s.rounds /\ r.best = s.best /\ r.committed = s.committed
      /\ r.promised = s.promised /\ r.checkpoints = s.checkpoints
  BY <1>1, <1>3 DEF Session, WithVerdict
<1>5. ASSUME NEW i \in 1 .. Len(r.judges), r.judges[i].go PROVE About(r.judges[i]) \in g
  <2>1. CASE i = Len(s.judges) + 1
    BY <1>3, <1>4, <1>5, <2>1
  <2>2. CASE i \in 1 .. Len(s.judges)
    BY <1>3, <1>4, <1>5, <2>2 DEF Sane
  <2>3. QED
    BY <1>1, <1>3, <1>4, <2>1, <2>2
<1> HIDE DEF r
<1>6. SaneParts(r, g) /\ \A i \in 1 .. Len(r.checkpoints) : SaneParts(r.checkpoints[i], g)
  BY <1>4 DEF Sane, SaneParts, Backs, Exist, Intact
<1>7. QED
  BY <1>4, <1>5, <1>6 DEF Sane, r

LEMMA CheckpointSane ==
  ASSUME NEW s, NEW h, Sane(s, h)
  PROVE  Sane([s EXCEPT !.checkpoints = Append(@, Aligned(s))], h)
<1> DEFINE c == Aligned(s)
           r == [s EXCEPT !.checkpoints = Append(@, c)]
<1>1. s \in Session /\ s.checkpoints \in Seq(Snapshot) /\ Len(s.checkpoints) \in Nat
  BY DEF Sane, Session
<1>2. /\ c \in Snapshot
      /\ c.rounds = s.rounds /\ c.best = s.best /\ c.committed = s.committed
      /\ c.promised = s.promised
  BY <1>1 DEF Aligned, Session, Snapshot
<1> HIDE DEF c
<1>3. /\ Append(s.checkpoints, c) \in Seq(Snapshot)
      /\ Len(Append(s.checkpoints, c)) = Len(s.checkpoints) + 1
      /\ \A i \in 1 .. Len(s.checkpoints) : Append(s.checkpoints, c)[i] = s.checkpoints[i]
      /\ Append(s.checkpoints, c)[Len(s.checkpoints) + 1] = c
  BY <1>1, <1>2, AppendProperties
<1>4. /\ r \in Session /\ r.checkpoints = Append(s.checkpoints, c)
      /\ r.rounds = s.rounds /\ r.best = s.best /\ r.committed = s.committed
      /\ r.promised = s.promised /\ r.judges = s.judges
  BY <1>1, <1>3 DEF Session
<1>5. SaneParts(c, h)
  BY <1>2 DEF Sane, SaneParts, Backs, Exist, Intact
<1>6. ASSUME NEW i \in 1 .. Len(r.checkpoints) PROVE SaneParts(r.checkpoints[i], h)
  <2>1. CASE i = Len(s.checkpoints) + 1
    BY <1>3, <1>4, <1>5, <2>1
  <2>2. CASE i \in 1 .. Len(s.checkpoints)
    BY <1>3, <1>4, <2>2 DEF Sane
  <2>3. QED
    BY <1>1, <1>3, <1>4, <2>1, <2>2
<1> HIDE DEF r
<1>7. SaneParts(r, h) /\ \A i \in 1 .. Len(r.judges) : r.judges[i].go => About(r.judges[i]) \in h
  BY <1>4 DEF Sane, SaneParts, Backs, Exist, Intact
<1>8. QED
  BY <1>4, <1>6, <1>7 DEF Sane, r, c

LEMMA RewoundSane ==
  ASSUME NEW s, NEW h, Sane(s, h), NEW i \in 1 .. Len(s.checkpoints)
  PROVE  Sane(Rewound(s, s.checkpoints[i]), h)
<1> DEFINE c == s.checkpoints[i]
           r == Rewound(s, c)
<1>1. s \in Session /\ s.checkpoints \in Seq(Snapshot)
  BY DEF Sane, Session
<1>2. c \in Snapshot
  BY <1>1, ElementOfSeq
<1>3. SaneParts(c, h)
  BY DEF Sane
<1> HIDE DEF c
<1>4. /\ r \in Session /\ r.checkpoints = s.checkpoints /\ r.judges = s.judges
      /\ r.rounds = c.rounds /\ r.best = c.best /\ r.committed = c.committed
      /\ r.promised = c.promised
  BY <1>1, <1>2 DEF Rewound, Session, Snapshot
<1> HIDE DEF r
<1>5. SaneParts(r, h)
  BY <1>3, <1>4 DEF SaneParts, Backs, Exist, Intact
<1>6. QED
  BY <1>4, <1>5 DEF Sane, r, c

\* What a gate that passed rests on: the best version exists and is sound, and
\* some judge said go about its text, or about version 1 before it existed.
LEMMA GateMeans ==
  ASSUME NEW s, NEW h, Sane(s, h), Gate(s)
  PROVE  /\ s.best \in 1 .. Len(s.rounds)
         /\ s.rounds[s.best].text \in Sound
         /\ \E e \in h : e.text = s.rounds[s.best].text \/ (e.text = None /\ e.version = 1 /\ s.best = 1)
<1>1. s \in Session /\ Len(s.rounds) \in Nat /\ s.judges \in Seq(Verdict)
  BY DEF Sane, Session
<1>2. s.best \in 1 .. Len(s.rounds) /\ TextOf(s, s.best) \in Sound
  BY StoreAssumption DEF Gate, TextOf
<1>3. PICK k \in 1 .. Len(Relevant(s)) : Relevant(s)[k].version = s.best /\ Relevant(s)[k].go
  BY DEF Gate, JudgeGate
<1>4. PICK i \in 1 .. Len(s.judges) :
         /\ Relevant(s)[k] = s.judges[i]
         /\ s.best # 0 /\ s.judges[i].version = s.best =>
              \/ s.judges[i].text = TextOf(s, s.best)
              \/ s.judges[i].text = None /\ Len(s.rounds) <= 1
  BY <1>1, RelevantAreVerdicts
<1> DEFINE j == s.judges[i]
<1>5. j.version = s.best /\ About(j) \in h /\ s.best # 0
  BY <1>2, <1>3, <1>4 DEF Sane
<1>6. CASE j.text = TextOf(s, s.best)
  <2>1. s.rounds[s.best].text \in Sound /\ j.text = s.rounds[s.best].text
    BY <1>2, <1>6 DEF TextOf
  <2>2. About(j).text = s.rounds[s.best].text
    BY <2>1 DEF About
  <2>3. QED
    BY <1>2, <1>5, <2>1, <2>2
<1>7. CASE j.text = None /\ Len(s.rounds) <= 1
  <2>1. s.best = 1
    BY <1>1, <1>2, <1>7
  <2>2. About(j).text = None /\ About(j).version = 1
    BY <1>5, <1>7, <2>1 DEF About
  <2>3. QED
    BY <1>2, <1>5, <2>1, <2>2 DEF TextOf
<1>8. QED
  BY <1>4, <1>5, <1>6, <1>7

LEMMA ReleasedSane ==
  ASSUME NEW s, NEW h, Sane(s, h), Gate(s)
  PROVE  /\ Sane(Released(s), h)
         /\ Released(s).committed # 0 /\ Released(s).committed = Released(s).best
<1> DEFINE r == Released(s)
<1>1. s \in Session
  BY DEF Sane
<1>2. /\ s.best \in 1 .. Len(s.rounds)
      /\ s.rounds[s.best].text \in Sound
  BY GateMeans
<1>3. TextOf(s, s.best) = s.rounds[s.best].text /\ TextOf(s, s.best) \in Plan
  BY <1>2, StoreAssumption DEF TextOf, Plan
<1>4. /\ r \in Session /\ r.checkpoints = s.checkpoints /\ r.judges = s.judges
      /\ r.rounds = s.rounds /\ r.best = s.best /\ r.committed = s.best
      /\ r.promised = s.rounds[s.best].text
  BY <1>1, <1>3 DEF Released, Session
<1> HIDE DEF r
<1>5. \E e \in h : Backs(e, r)
  BY <1>4, GateMeans DEF Backs
<1>6. SaneParts(r, h)
  BY <1>2, <1>4, <1>5 DEF Sane, SaneParts, Exist, Intact
<1>7. Sane(r, h) /\ r.committed # 0 /\ r.committed = r.best
  BY <1>2, <1>4, <1>6 DEF Sane
<1>8. QED
  BY <1>7 DEF r

LEMMA AssessedSane ==
  ASSUME NEW s, NEW h, Sane(s, h), NEW t \in Text, Len(s.rounds) < RoundBound,
         NEW open \in BOOLEAN, NEW addressed \in BOOLEAN, NEW long \in BOOLEAN
  PROVE  Sane(Assessed(s, t, open, addressed, long), h)
<1> DEFINE e == [text |-> t, score |-> Score[t]]
           b == IF s.best = 0 \/ Score[t] > s.rounds[s.best].score THEN Len(s.rounds) + 1 ELSE s.best
           st == IF s.best = 0 THEN "improving" ELSE s.status
           r == [s EXCEPT !.rounds = Append(@, e), !.best = b, !.status = st]
           f == IF Stops(r, open) THEN Folded([r EXCEPT !.status = "converged"], 2, long) ELSE r
<1>1. /\ s \in Session /\ s.rounds \in Seq(Round) /\ Len(s.rounds) \in Nat
      /\ s.best \in Nat /\ s.committed \in Nat
  BY DEF Sane, Session
<1>2. e \in Round /\ e.text # Summary
  BY StoreAssumption DEF Round, Plan
<1> HIDE DEF e
<1>3. /\ Append(s.rounds, e) \in Seq(Round)
      /\ Len(Append(s.rounds, e)) = Len(s.rounds) + 1
      /\ \A i \in 1 .. Len(s.rounds) : Append(s.rounds, e)[i] = s.rounds[i]
      /\ Append(s.rounds, e)[Len(s.rounds) + 1] = e
  BY <1>1, <1>2, AppendProperties
<1>4. b \in Nat /\ b \in {s.best, Len(s.rounds) + 1} /\ st \in StatusName
  BY <1>1 DEF Session, StatusName
<1> HIDE DEF b, st
<1>5. /\ r \in Session /\ r.checkpoints = s.checkpoints /\ r.judges = s.judges
      /\ r.rounds = Append(s.rounds, e) /\ r.best = b /\ r.committed = s.committed
      /\ r.promised = s.promised
  BY <1>1, <1>3, <1>4 DEF Session
<1> HIDE DEF r
<1>6. Exist(r)
  BY <1>1, <1>3, <1>4, <1>5, StoreAssumption DEF Sane, SaneParts, Exist
<1>7. Intact(r)
  BY <1>1, <1>2, <1>3, <1>4, <1>5 DEF Sane, SaneParts, Backs, Exist, Intact
<1>8. Sane(r, h)
  <2>1. s.committed # 0 => s.promised \in Sound /\ \E g \in h : Backs(g, s)
    BY DEF Sane, SaneParts
  <2>2. r.committed # 0 => r.promised \in Sound /\ \E g \in h : Backs(g, r)
    BY <1>5, <2>1 DEF Backs
  <2>3. QED
    BY <1>5, <1>6, <1>7, <2>2 DEF Sane, SaneParts
<1>9. Sane(f, h)
  BY <1>8, StatusSane, FoldedSane DEF StatusName
<1>10. (f.replan /\ ~addressed) \in BOOLEAN
  OBVIOUS
<1>11. Assessed(s, t, open, addressed, long) = [f EXCEPT !.replan = @ /\ ~addressed]
  BY DEF Assessed, f, r, e, b, st
<1> HIDE DEF f
<1>12. QED
  BY <1>9, <1>10, <1>11, ReplanSane, ZenonT(60)

-----------------------------------------------------------------------------
(* The inductive invariant *)

SaneInv ==
  /\ Sane(file, heard)
  /\ mem \in [Caller -> Session \cup {None}]
  /\ \A a \in Caller : mem[a] # None => Sane(mem[a], heard)
  /\ heard \subseteq Subject

Locked == {"locked", "passed", "failed", "finishing"}
Places == Locked \cup {"idle", "converged", "persist", "judging", "released"}

\* who holds the lock, who has a copy, who has a text
PlaceInv ==
  /\ lock \in Caller \cup {None}
  /\ pc \in [Caller -> Places]
  /\ topic \in [Caller -> Text \cup {None}]
  /\ raced \subseteq Caller
  /\ \A a \in Caller :
       /\ pc[a] \in Locked => lock = a
       /\ pc[a] \in Locked \cup {"persist", "judging"} => mem[a] # None
       /\ pc[a] \in {"converged", "persist", "judging"} => topic[a] \in Text
       /\ a \in Holders /\ pc[a] = "released" => mem[a] # None

\* s is as a release that passed leaves it
AsReleased(s) == s.committed # 0 /\ s.committed = s.best

\* b has released and nobody has written since
Ahead(b) == pc[b] = "released" /\ b \notin raced

ReleaseInv ==
  \A a \in Caller :
    /\ pc[a] = "passed" => AsReleased(mem[a])
    /\ a \in Holders /\ pc[a] \in {"released", "finishing"} => AsReleased(mem[a])
    /\ Ahead(a) => AsReleased(file)
    /\ pc[a] = "finishing" /\ a \notin raced => AsReleased(mem[a]) /\ AsReleased(file)
    /\ pc[a] = "finishing" /\ (\E b \in Caller : Ahead(b)) => AsReleased(mem[a])

\* A step of a changes at most the file and a's copy: both must be sane.
LEMMA SaneStep ==
  ASSUME SaneInv, NEW a \in Caller, NEW m,
         heard \subseteq heard', heard' \subseteq Subject,
         file' = file \/ Sane(file', heard'),
         mem' = [mem EXCEPT ![a] = m], m = None \/ Sane(m, heard')
  PROVE  SaneInv'
<1>1. Sane(file, heard')
  BY SaneGrows DEF SaneInv
<1>2. Sane(file', heard')
  BY <1>1
<1>3. m \in Session \cup {None}
  BY DEF Sane
<1>4. mem' \in [Caller -> Session \cup {None}]
  BY <1>3 DEF SaneInv
<1>5. ASSUME NEW b \in Caller, mem'[b] # None PROVE Sane(mem'[b], heard')
  <2>1. CASE b = a
    BY <1>5, <2>1 DEF SaneInv
  <2>2. CASE b # a
    <3>1. mem'[b] = mem[b]
      BY <2>2 DEF SaneInv
    <3>2. Sane(mem[b], heard)
      BY <1>5, <3>1 DEF SaneInv
    <3>3. QED
      BY <3>1, <3>2, SaneGrows
  <2>3. QED
    BY <2>1, <2>2
<1>6. QED
  BY <1>2, <1>4, <1>5 DEF SaneInv

\* ... as when a saves s and is left with m.
LEMMA WriteSane ==
  ASSUME SaneInv, NEW a \in Caller, NEW s, Sane(s, heard'),
         heard \subseteq heard', heard' \subseteq Subject,
         Write(a, s), Kept(a, s) \/ mem' = [mem EXCEPT ![a] = s]
  PROVE  SaneInv'
<1>1. file' = s
  BY DEF Write
<1>2. CASE Kept(a, s)
  <2> DEFINE m == IF a \in Holders THEN s ELSE None
  <2>1. mem' = [mem EXCEPT ![a] = m] /\ (m = None \/ Sane(m, heard'))
    BY <1>2 DEF Kept
  <2> HIDE DEF m
  <2>2. QED
    BY <1>1, <2>1, SaneStep
<1>3. CASE mem' = [mem EXCEPT ![a] = s]
  BY <1>1, <1>3, SaneStep
<1>4. QED
  BY <1>2, <1>3

LEMMA SomeSession ==
  ASSUME NEW s, NEW h, Sane(s, h)
  PROVE  s # None
BY NoneAssumption DEF Sane

LEMMA LoadedSane ==
  ASSUME SaneInv, NEW a \in Caller
  PROVE  Sane(Loaded(a), heard)
BY DEF SaneInv, Loaded

\* Who saves overtakes everyone who has released.
LEMMA WriteOvertakes ==
  ASSUME SaneInv, PlaceInv, ReleaseInv, NEW a \in Caller, NEW s, NEW m, NEW l,
         Write(a, s), mem' = [mem EXCEPT ![a] = m], pc' = [pc EXCEPT ![a] = l],
         l # "finishing",
         l = "passed" => AsReleased(m),
         l = "released" => /\ AsReleased(s) /\ (a \in Holders => AsReleased(m))
                           /\ \A b \in Caller \ {a} : pc[b] # "finishing"
  PROVE  ReleaseInv'
<1>1. ASSUME NEW b \in Caller, b # a
      PROVE  mem'[b] = mem[b] /\ pc'[b] = pc[b] /\ (pc[b] \in {"released", "finishing"} => b \in raced')
  BY <1>1 DEF SaneInv, PlaceInv, Write
<1>2. mem'[a] = m /\ pc'[a] = l /\ file' = s
  BY DEF SaneInv, PlaceInv, Write
<1>3. ASSUME NEW b \in Caller, Ahead(b)' PROVE b = a /\ l = "released"
  BY <1>1, <1>2, <1>3 DEF Ahead
<1>4. ASSUME NEW b \in Caller
      PROVE  /\ pc'[b] = "passed" => AsReleased(mem'[b])
             /\ b \in Holders /\ pc'[b] \in {"released", "finishing"} => AsReleased(mem'[b])
             /\ Ahead(b)' => AsReleased(file')
             /\ pc'[b] = "finishing" /\ b \notin raced' => AsReleased(mem'[b]) /\ AsReleased(file')
             /\ pc'[b] = "finishing" /\ (\E c \in Caller : Ahead(c)') => AsReleased(mem'[b])
  <2>1. CASE b = a
    BY <1>2, <1>3, <2>1
  <2>2. CASE b # a
    BY <1>1, <1>2, <1>3, <2>2 DEF ReleaseInv
  <2>3. QED
    BY <2>1, <2>2
<1>5. QED
  BY <1>4 DEF ReleaseInv, AsReleased

\* Who does not save leaves it to the others.
LEMMA MoveReleases ==
  ASSUME SaneInv, PlaceInv, ReleaseInv, NEW a \in Caller, NEW m, NEW l,
         file' = file, raced \ {a} \subseteq raced',
         mem' = [mem EXCEPT ![a] = m], pc' = [pc EXCEPT ![a] = l],
         l \notin {"passed", "released", "finishing"}
  PROVE  ReleaseInv'
<1>1. ASSUME NEW b \in Caller, b # a
      PROVE  mem'[b] = mem[b] /\ pc'[b] = pc[b] /\ (b \in raced => b \in raced')
  BY <1>1 DEF SaneInv, PlaceInv
<1>2. mem'[a] = m /\ pc'[a] = l
  BY DEF SaneInv, PlaceInv
<1>3. ASSUME NEW b \in Caller, Ahead(b)' PROVE Ahead(b) /\ b # a
  BY <1>1, <1>2, <1>3 DEF Ahead
<1>4. ASSUME NEW b \in Caller
      PROVE  /\ pc'[b] = "passed" => AsReleased(mem'[b])
             /\ b \in Holders /\ pc'[b] \in {"released", "finishing"} => AsReleased(mem'[b])
             /\ Ahead(b)' => AsReleased(file')
             /\ pc'[b] = "finishing" /\ b \notin raced' => AsReleased(mem'[b]) /\ AsReleased(file')
             /\ pc'[b] = "finishing" /\ (\E c \in Caller : Ahead(c)') => AsReleased(mem'[b])
  <2>1. CASE b = a
    BY <1>2, <1>3, <2>1
  <2>2. CASE b # a
    BY <1>1, <1>3, <2>2 DEF ReleaseInv
  <2>3. QED
    BY <2>1, <2>2
<1>5. QED
  BY <1>4 DEF ReleaseInv, AsReleased

-----------------------------------------------------------------------------
(* The steps *)

StoreInv == SaneInv /\ PlaceInv /\ ReleaseInv

LEMMA InitStore == Init => StoreInv
<1> SUFFICES ASSUME Init PROVE StoreInv
  OBVIOUS
<1>1. SaneInv
  BY NewSane DEF Init, SaneInv
<1>2. PlaceInv /\ ReleaseInv
  BY DEF Init, PlaceInv, Places, Locked, ReleaseInv, Ahead
<1>3. QED
  BY <1>1, <1>2 DEF StoreInv

LEMMA StutterStore == StoreInv /\ UNCHANGED vars => StoreInv'
BY DEF StoreInv, vars, SaneInv, PlaceInv, ReleaseInv, Ahead, AsReleased

LEMMA BeginStore == ASSUME StoreInv, NEW a \in Caller, Begin(a) PROVE StoreInv'
<1> USE DEF StoreInv
<1>1. /\ pc[a] = "idle" /\ lock = None /\ lock' = a
      /\ mem' = [mem EXCEPT ![a] = Loaded(a)] /\ pc' = [pc EXCEPT ![a] = "locked"]
      /\ UNCHANGED <<file, topic, heard, raced>>
  BY DEF Begin, Enter, Goto
<1>2. Sane(Loaded(a), heard') /\ Loaded(a) # None
  BY <1>1, LoadedSane, SomeSession
<1>3. SaneInv'
  BY <1>1, <1>2, SaneStep DEF SaneInv
<1>4. PlaceInv'
  BY <1>1, <1>2, StoreAssumption DEF PlaceInv, Places, Locked, SaneInv
<1>5. ReleaseInv'
  BY <1>1, MoveReleases
<1>6. QED
  BY <1>3, <1>4, <1>5

LEMMA LeaveStore == ASSUME StoreInv, NEW a \in Caller, Leave(a) PROVE StoreInv'
<1> USE DEF StoreInv
<1> DEFINE m == IF a \in Holders THEN mem[a] ELSE None
<1>1. /\ pc[a] = "locked" /\ lock' = None
      /\ mem' = [mem EXCEPT ![a] = m] /\ pc' = [pc EXCEPT ![a] = "idle"]
      /\ UNCHANGED <<file, topic, heard, raced>>
  BY DEF Leave, Kept, Goto
<1>2. m = None \/ Sane(m, heard')
  BY <1>1 DEF SaneInv
<1> HIDE DEF m
<1>3. SaneInv'
  BY <1>1, <1>2, SaneStep DEF SaneInv
<1>4. PlaceInv'
  BY <1>1, StoreAssumption DEF PlaceInv, Places, Locked, SaneInv
<1>5. ReleaseInv'
  BY <1>1, MoveReleases
<1>6. QED
  BY <1>3, <1>4, <1>5

LEMMA CrashStore == ASSUME StoreInv, NEW a \in Caller, Crash(a) PROVE StoreInv'
<1> USE DEF StoreInv
<1>1. /\ pc' = [pc EXCEPT ![a] = "idle"] /\ mem' = [mem EXCEPT ![a] = None]
      /\ topic' = [topic EXCEPT ![a] = None] /\ lock' = IF lock = a THEN None ELSE lock
      /\ raced' = raced \ {a} /\ UNCHANGED <<file, heard>>
  BY DEF Crash
<1>2. SaneInv'
  BY <1>1, SaneStep DEF SaneInv
<1>3. PlaceInv'
  BY <1>1, StoreAssumption DEF PlaceInv, Places, Locked, SaneInv
<1>4. ReleaseInv'
  BY <1>1, MoveReleases
<1>5. QED
  BY <1>2, <1>3, <1>4

\* An operation that holds the lock, saves and is done.
LEMMA DoneStore ==
  ASSUME StoreInv, NEW a \in Caller, NEW s, Sane(s, heard'),
         heard \subseteq heard', heard' \subseteq Subject,
         Done(a, s), UNCHANGED topic
  PROVE  StoreInv'
<1> USE DEF StoreInv
<1> DEFINE m == IF a \in Holders THEN s ELSE None
<1>1. /\ pc[a] = "locked" /\ lock' = None /\ Write(a, s) /\ Kept(a, s)
      /\ mem' = [mem EXCEPT ![a] = m] /\ pc' = [pc EXCEPT ![a] = "idle"]
  BY DEF Done, Kept, Goto
<1> HIDE DEF m
<1>2. SaneInv'
  BY <1>1, WriteSane
<1>3. raced' \subseteq Caller
  BY <1>1 DEF Write, PlaceInv
<1>4. PlaceInv'
  BY <1>1, <1>3, StoreAssumption DEF PlaceInv, Places, Locked, SaneInv
<1>5. ReleaseInv'
  BY <1>1, WriteOvertakes
<1>6. QED
  BY <1>2, <1>4, <1>5

\* What a caller that holds the lock works on.
LEMMA InHand ==
  ASSUME StoreInv, NEW a \in Caller, pc[a] \in Locked \cup {"persist", "judging"}
  PROVE  Sane(mem[a], heard) /\ mem[a] \in Session
BY DEF StoreInv, PlaceInv, SaneInv, Sane

LEMMA AssessStore ==
  ASSUME StoreInv, NEW a \in Caller,
         NEW t \in Text, NEW open \in BOOLEAN, NEW addressed \in BOOLEAN, NEW long \in BOOLEAN,
         Assess(a, t, open, addressed, long)
  PROVE  StoreInv'
<1> USE DEF StoreInv
<1> DEFINE r == Assessed(mem[a], t, open, addressed, long)
           m == IF a \in Holders THEN r ELSE None
           l == pc'[a]
<1>1. pc[a] = "locked" /\ Len(mem[a].rounds) < RoundBound /\ Write(a, r) /\ Kept(a, r)
      /\ lock' = None /\ heard' = heard
  BY DEF Assess
<1>2. Sane(r, heard')
  BY <1>1, InHand, AssessedSane DEF Locked
<1> HIDE DEF r
<1>3. /\ l \in {"idle", "converged"} /\ pc' = [pc EXCEPT ![a] = l]
      /\ (topic' = topic /\ l = "idle") \/ topic' = [topic EXCEPT ![a] = t]
  BY DEF Assess, Goto, PlaceInv
<1>4. mem' = [mem EXCEPT ![a] = m]
  BY <1>1 DEF Kept
<1> HIDE DEF m, l
<1>5. SaneInv'
  BY <1>1, <1>2, WriteSane DEF SaneInv
<1>6. raced' \subseteq Caller
  BY <1>1 DEF Write, PlaceInv
<1>7. PlaceInv'
  BY <1>1, <1>3, <1>4, <1>6, StoreAssumption DEF PlaceInv, Places, Locked, SaneInv
<1>8. ReleaseInv'
  BY <1>1, <1>3, <1>4, WriteOvertakes
<1>9. QED
  BY <1>5, <1>7, <1>8

LEMMA ReadStatusStore == ASSUME StoreInv, NEW a \in Caller, ReadStatus(a) PROVE StoreInv'
<1> USE DEF StoreInv
<1>1. /\ pc[a] = "converged"
      /\ mem' = [mem EXCEPT ![a] = Loaded(a)] /\ pc' = [pc EXCEPT ![a] = "persist"]
      /\ UNCHANGED <<file, lock, topic, heard, raced>>
  BY DEF ReadStatus, Goto
<1>2. Sane(Loaded(a), heard') /\ Loaded(a) # None
  BY <1>1, LoadedSane, SomeSession
<1>3. SaneInv'
  BY <1>1, <1>2, SaneStep DEF SaneInv
<1>4. PlaceInv'
  BY <1>1, <1>2, StoreAssumption DEF PlaceInv, Places, Locked, SaneInv
<1>5. ReleaseInv'
  BY <1>1, MoveReleases
<1>6. QED
  BY <1>3, <1>4, <1>5

LEMMA PersistStatusStore == ASSUME StoreInv, NEW a \in Caller, PersistStatus(a) PROVE StoreInv'
<1> USE DEF StoreInv
<1> DEFINE s == [mem[a] EXCEPT !.status = IF topic[a] \in Sound THEN "converged" ELSE "plateaued"]
           m == IF a \in Holders THEN s ELSE None
<1>1. /\ pc[a] = "persist" /\ Write(a, s) /\ Kept(a, s)
      /\ topic' = [topic EXCEPT ![a] = None] /\ pc' = [pc EXCEPT ![a] = "idle"]
      /\ UNCHANGED <<lock, heard>>
  BY DEF PersistStatus, Goto
<1>2. Sane(s, heard')
  BY <1>1, InHand, StatusSane DEF StatusName
<1> HIDE DEF s
<1>3. mem' = [mem EXCEPT ![a] = m]
  BY <1>1 DEF Kept
<1> HIDE DEF m
<1>4. SaneInv'
  BY <1>1, <1>2, WriteSane DEF SaneInv
<1>5. raced' \subseteq Caller
  BY <1>1 DEF Write, PlaceInv
<1>6. PlaceInv'
  BY <1>1, <1>3, <1>5 DEF PlaceInv, Places, Locked, SaneInv
<1>7. ReleaseInv'
  BY <1>1, <1>3, WriteOvertakes
<1>8. QED
  BY <1>4, <1>6, <1>7

LEMMA PlansStore == ASSUME StoreInv, NEW a \in Caller, Plans(a) PROVE StoreInv'
<1> USE DEF StoreInv
<1>1. ASSUME NEW t \in Text, NEW open \in BOOLEAN, NEW addressed \in BOOLEAN, NEW long \in BOOLEAN,
             Assess(a, t, open, addressed, long)
      PROVE  StoreInv'
  BY <1>1, AssessStore
<1>2. CASE ReadStatus(a)
  BY <1>2, ReadStatusStore
<1>3. CASE PersistStatus(a)
  BY <1>3, PersistStatusStore
<1>4. ASSUME NEW keep \in {1, 2}, NEW long \in BOOLEAN, FoldHistory(a, keep, long) PROVE StoreInv'
  <2>1. Done(a, Folded(mem[a], keep, long)) /\ UNCHANGED <<topic, heard>> /\ pc[a] = "locked"
    BY <1>4 DEF FoldHistory, Done
  <2>2. Sane(Folded(mem[a], keep, long), heard')
    BY <2>1, InHand, FoldedSane DEF Locked
  <2>3. QED
    BY <2>1, <2>2, DoneStore DEF SaneInv
<1>5. CASE Checkpoint(a)
  <2> DEFINE s == [mem[a] EXCEPT !.checkpoints = Append(@, Aligned(mem[a]))]
  <2>1. Done(a, s) /\ UNCHANGED <<topic, heard>> /\ pc[a] = "locked"
    BY <1>5 DEF Checkpoint
  <2>2. Sane(s, heard')
    BY <2>1, InHand, CheckpointSane DEF Locked
  <2> HIDE DEF s
  <2>3. QED
    BY <2>1, <2>2, DoneStore DEF SaneInv
<1>6. CASE Rewind(a)
  <2>1. PICK i \in 1 .. Len(mem[a].checkpoints) : Done(a, Rewound(mem[a], mem[a].checkpoints[i]))
    BY <1>6 DEF Rewind
  <2>2. UNCHANGED <<topic, heard>> /\ pc[a] = "locked"
    BY <1>6 DEF Rewind
  <2>3. Sane(Rewound(mem[a], mem[a].checkpoints[i]), heard')
    BY <2>2, InHand, RewoundSane DEF Locked
  <2>4. QED
    BY <2>1, <2>2, <2>3, DoneStore DEF SaneInv
<1>7. CASE LogFailure(a)
  <2> DEFINE s == [mem[a] EXCEPT !.replan = TRUE]
  <2>1. Done(a, s) /\ UNCHANGED <<topic, heard>> /\ pc[a] = "locked"
    BY <1>7 DEF LogFailure, Done
  <2>2. Sane(s, heard')
    BY <2>1, InHand, ReplanSane DEF Locked
  <2> HIDE DEF s
  <2>3. QED
    BY <2>1, <2>2, DoneStore DEF SaneInv
<1>8. QED
  BY <1>1, <1>2, <1>3, <1>4, <1>5, <1>6, <1>7 DEF Plans

\* A verdict and what it leaves in the history.
LEMMA SaidHeard ==
  ASSUME SaneInv, NEW s, Sane(s, heard), NEW e \in Verdict, Said(e)
  PROVE  /\ heard \subseteq heard' /\ heard' \subseteq Subject
         /\ Sane(WithVerdict(s, e), heard')
<1>1. About(e) \in Subject
  BY DEF About, Subject, Verdict
<1>2. /\ heard \subseteq heard' /\ heard' \subseteq Subject
      /\ e.go => About(e) \in heard'
  BY <1>1 DEF Said, SaneInv
<1>3. QED
  BY <1>2, JudgedSane

LEMMA RecordJudgeStore ==
  ASSUME StoreInv, NEW a \in Caller, NEW v \in 1 .. RoundBound, NEW go \in BOOLEAN,
         RecordJudge(a, v, go)
  PROVE  StoreInv'
<1> DEFINE t == TextOf(mem[a], v)
           e == [version |-> v, text |-> t, go |-> go]
           s == WithVerdict(mem[a], e)
<1>1. pc[a] = "locked" /\ Done(a, s) /\ Said(e) /\ UNCHANGED topic
  BY DEF RecordJudge
<1>2. Sane(mem[a], heard) /\ mem[a].rounds \in Seq(Round) /\ v \in Nat
  BY <1>1, InHand, StoreAssumption DEF Locked, Session
<1>3. t \in Plan \cup {None}
  <2>1. CASE v \in 1 .. Len(mem[a].rounds)
    <3>1. mem[a].rounds[v] \in Round
      BY <1>2, <2>1, ElementOfSeq
    <3>2. QED
      BY <2>1, <3>1 DEF TextOf, Round
  <2>2. CASE v \notin 1 .. Len(mem[a].rounds)
    BY <2>2 DEF TextOf
  <2>3. QED
    BY <2>1, <2>2
<1> HIDE DEF t
<1>4. e \in Verdict
  BY <1>2, <1>3 DEF Verdict
<1> HIDE DEF e
<1>5. /\ heard \subseteq heard' /\ heard' \subseteq Subject
      /\ Sane(s, heard')
  BY <1>1, <1>2, <1>4, SaidHeard DEF StoreInv
<1> HIDE DEF s
<1>6. QED
  BY <1>1, <1>5, DoneStore

LEMMA AskJudgesStore ==
  ASSUME StoreInv, NEW a \in Caller, NEW t \in Text, AskJudges(a, t)
  PROVE  StoreInv'
<1> USE DEF StoreInv
<1>1. /\ pc[a] = "idle" /\ topic' = [topic EXCEPT ![a] = t]
      /\ mem' = [mem EXCEPT ![a] = Loaded(a)] /\ pc' = [pc EXCEPT ![a] = "judging"]
      /\ UNCHANGED <<file, lock, heard, raced>>
  BY DEF AskJudges, Goto
<1>2. Sane(Loaded(a), heard') /\ Loaded(a) # None
  BY <1>1, LoadedSane, SomeSession
<1>3. SaneInv'
  BY <1>1, <1>2, SaneStep DEF SaneInv
<1>4. PlaceInv'
  BY <1>1, <1>2 DEF PlaceInv, Places, Locked, SaneInv
<1>5. ReleaseInv'
  BY <1>1, MoveReleases
<1>6. QED
  BY <1>3, <1>4, <1>5

LEMMA RecordEnsembleStore ==
  ASSUME StoreInv, NEW a \in Caller, pc[a] = "judging",
         NEW e \in Votes(mem[a], topic[a]), RecordEnsemble(a, e)
  PROVE  StoreInv'
<1> USE DEF StoreInv
<1> DEFINE s == WithVerdict(mem[a], e)
           m == IF a \in Holders THEN s ELSE None
<1>1. /\ Write(a, s) /\ Kept(a, s) /\ Said(e)
      /\ topic' = [topic EXCEPT ![a] = None] /\ pc' = [pc EXCEPT ![a] = "idle"]
      /\ UNCHANGED lock
  BY DEF RecordEnsemble, Goto
<1>2. Sane(mem[a], heard) /\ mem[a].best \in Nat /\ mem[a].judges \in Seq(Verdict)
  BY InHand DEF Session
<1>3. topic[a] \in Plan
  BY DEF PlaceInv, Plan
<1>4. e \in Verdict
  <2>1. CASE e \in [version : {mem[a].best}, text : {topic[a]}, go : BOOLEAN]
    BY <1>2, <1>3, <2>1 DEF Verdict
  <2>2. CASE e \in {mem[a].judges[i] : i \in 1 .. Len(mem[a].judges)}
    BY <1>2, <2>2, ElementOfSeq
  <2>3. QED
    BY <2>1, <2>2 DEF Votes
<1>5. /\ heard \subseteq heard' /\ heard' \subseteq Subject
      /\ Sane(s, heard')
  BY <1>1, <1>2, <1>4, SaidHeard
<1> HIDE DEF s
<1>7. mem' = [mem EXCEPT ![a] = m]
  BY <1>1 DEF Kept
<1> HIDE DEF m
<1>8. SaneInv'
  BY <1>1, <1>5, WriteSane
<1>9. raced' \subseteq Caller
  BY <1>1 DEF Write, PlaceInv
<1>10. PlaceInv'
  BY <1>1, <1>7, <1>9 DEF PlaceInv, Places, Locked, SaneInv
<1>11. ReleaseInv'
  BY <1>1, <1>7, WriteOvertakes
<1>12. QED
  BY <1>8, <1>10, <1>11

LEMMA ReleaseStore ==
  ASSUME StoreInv, NEW a \in Caller, NEW others \in BOOLEAN, Release(a, others)
  PROVE  StoreInv'
<1> USE DEF StoreInv
<1> DEFINE s == IF others /\ Gate(mem[a]) THEN Released(mem[a]) ELSE mem[a]
           w == [s EXCEPT !.judges = Relevant(s)]
           l == IF others /\ Gate(mem[a]) THEN "passed" ELSE "failed"
<1>1. /\ pc[a] = "locked" /\ Write(a, w)
      /\ mem' = [mem EXCEPT ![a] = s] /\ pc' = [pc EXCEPT ![a] = l]
      /\ UNCHANGED <<lock, topic, heard>>
  BY DEF Release, Goto
<1>2. Sane(mem[a], heard')
  BY <1>1, InHand DEF Locked
<1>3. Sane(s, heard') /\ (l = "passed" => AsReleased(s))
  BY <1>2, ReleasedSane DEF AsReleased
<1>4. l \in {"passed", "failed"}
  OBVIOUS
<1> HIDE DEF s, l
<1>5. Sane(w, heard')
  BY <1>3, RelevantSane
<1> HIDE DEF w
<1>6. s # None
  BY <1>3, SomeSession
<1>7. SaneInv'
  BY <1>1, <1>3, <1>5, SaneStep DEF SaneInv, Write
<1>8. raced' \subseteq Caller
  BY <1>1 DEF Write, PlaceInv
<1>9. PlaceInv'
  BY <1>1, <1>4, <1>6, <1>8 DEF PlaceInv, Places, Locked, SaneInv
<1>10. ReleaseInv'
  BY <1>1, <1>3, <1>4, WriteOvertakes
<1>11. QED
  BY <1>7, <1>9, <1>10

LEMMA RestoreJudgesStore == ASSUME StoreInv, NEW a \in Caller, RestoreJudges(a) PROVE StoreInv'
<1> USE DEF StoreInv
<1> DEFINE l == pc'[a]
           m == IF a \in Holders THEN mem[a] ELSE None
<1>1. /\ pc[a] \in {"passed", "failed"} /\ Write(a, mem[a]) /\ Kept(a, mem[a])
      /\ lock' = None /\ UNCHANGED <<topic, heard>>
      /\ mem' = [mem EXCEPT ![a] = m]
  BY DEF RestoreJudges, Kept
<1>2. /\ l \in {"idle", "released"} /\ pc' = [pc EXCEPT ![a] = l]
      /\ l = "released" => pc[a] = "passed"
  BY DEF RestoreJudges, Goto, PlaceInv
<1>3. Sane(mem[a], heard') /\ mem[a] # None
  BY <1>1, InHand, SomeSession DEF Locked
<1>4. l = "released" => AsReleased(mem[a]) /\ (a \in Holders => AsReleased(m))
  BY <1>2 DEF ReleaseInv
<1>5. \A b \in Caller \ {a} : pc[b] # "finishing"
  BY <1>1 DEF PlaceInv, Locked
<1>6. a \in Holders => m # None
  BY <1>3
<1> HIDE DEF l, m
<1>7. SaneInv'
  BY <1>1, <1>3, WriteSane DEF SaneInv
<1>8. raced' \subseteq Caller
  BY <1>1 DEF Write, PlaceInv
<1>9. PlaceInv'
  BY <1>1, <1>2, <1>6, <1>8, StoreAssumption DEF PlaceInv, Places, Locked, SaneInv
<1>10. ReleaseInv'
  BY <1>1, <1>2, <1>4, <1>5, WriteOvertakes
<1>11. QED
  BY <1>7, <1>9, <1>10

LEMMA BeginFinishStore == ASSUME StoreInv, NEW a \in Caller, BeginFinish(a) PROVE StoreInv'
<1> USE DEF StoreInv
<1>1. /\ pc[a] = "released" /\ lock = None /\ lock' = a
      /\ mem' = [mem EXCEPT ![a] = Loaded(a)] /\ pc' = [pc EXCEPT ![a] = "finishing"]
      /\ UNCHANGED <<file, topic, heard, raced>>
  BY DEF BeginFinish, Enter, Goto
<1>2. Sane(Loaded(a), heard') /\ Loaded(a) # None
  BY <1>1, LoadedSane, SomeSession
<1>3. SaneInv'
  BY <1>1, <1>2, SaneStep DEF SaneInv
<1>4. PlaceInv'
  BY <1>1, <1>2, StoreAssumption DEF PlaceInv, Places, Locked, SaneInv
<1>5. /\ a \in Holders => AsReleased(Loaded(a))
      /\ (\E b \in Caller : Ahead(b)) => AsReleased(Loaded(a)) /\ AsReleased(file)
  BY <1>1 DEF PlaceInv, ReleaseInv, Loaded
<1>6. ASSUME NEW b \in Caller, Ahead(b)' PROVE Ahead(b) /\ b # a
  BY <1>1, <1>6 DEF Ahead, PlaceInv
<1>7. a \notin raced => Ahead(a)
  BY <1>1 DEF Ahead
<1>8. ASSUME NEW b \in Caller
      PROVE  /\ pc'[b] = "passed" => AsReleased(mem'[b])
             /\ b \in Holders /\ pc'[b] \in {"released", "finishing"} => AsReleased(mem'[b])
             /\ Ahead(b)' => AsReleased(file')
             /\ pc'[b] = "finishing" /\ b \notin raced' => AsReleased(mem'[b]) /\ AsReleased(file')
             /\ pc'[b] = "finishing" /\ (\E c \in Caller : Ahead(c)') => AsReleased(mem'[b])
  <2>1. CASE b = a
    <3>1. mem'[b] = Loaded(a) /\ pc'[b] = "finishing" /\ raced' = raced /\ file' = file
      BY <1>1, <2>1 DEF SaneInv, PlaceInv
    <3>2. QED
      BY <1>5, <1>6, <1>7, <2>1, <3>1
  <2>2. CASE b # a
    <3>1. mem'[b] = mem[b] /\ pc'[b] = pc[b] /\ raced' = raced /\ file' = file
      BY <1>1, <2>2 DEF SaneInv, PlaceInv
    <3>2. QED
      BY <1>6, <3>1 DEF ReleaseInv
  <2>3. QED
    BY <2>1, <2>2
<1>9. ReleaseInv'
  BY <1>8 DEF ReleaseInv, AsReleased
<1>10. QED
  BY <1>3, <1>4, <1>9

LEMMA FinishStore == ASSUME StoreInv, NEW a \in Caller, Finish(a) PROVE StoreInv'
<1> USE DEF StoreInv
<1> DEFINE s == [mem[a] EXCEPT !.status = "finished"]
           m == IF a \in Holders THEN s ELSE None
<1>1. /\ pc[a] = "finishing" /\ file' = s /\ raced' = raced \ {a} /\ lock' = None
      /\ mem' = [mem EXCEPT ![a] = m] /\ pc' = [pc EXCEPT ![a] = "idle"]
      /\ UNCHANGED <<topic, heard>>
  BY DEF Finish, Kept, Goto
<1>2. Sane(mem[a], heard') /\ mem[a] \in Session
  BY <1>1, InHand DEF Locked
<1>3. Sane(s, heard')
  BY <1>2, StatusSane DEF StatusName
<1>4. AsReleased(mem[a]) => AsReleased(s)
  BY <1>2 DEF AsReleased, Session
<1>5. m = None \/ Sane(m, heard')
  BY <1>3
<1> HIDE DEF s, m
<1>6. SaneInv'
  BY <1>1, <1>3, <1>5, SaneStep DEF SaneInv
<1>7. PlaceInv'
  BY <1>1, StoreAssumption DEF PlaceInv, Places, Locked, SaneInv
<1>8. ASSUME NEW b \in Caller, Ahead(b)' PROVE Ahead(b) /\ b # a /\ AsReleased(file')
  <2>1. Ahead(b) /\ b # a
    BY <1>1, <1>8 DEF Ahead, PlaceInv
  <2>2. QED
    BY <1>1, <1>4, <2>1 DEF ReleaseInv
<1>9. ASSUME NEW b \in Caller
      PROVE  /\ pc'[b] = "passed" => AsReleased(mem'[b])
             /\ b \in Holders /\ pc'[b] \in {"released", "finishing"} => AsReleased(mem'[b])
             /\ Ahead(b)' => AsReleased(file')
             /\ pc'[b] = "finishing" /\ b \notin raced' => AsReleased(mem'[b]) /\ AsReleased(file')
             /\ pc'[b] = "finishing" /\ (\E c \in Caller : Ahead(c)') => AsReleased(mem'[b])
  <2>1. CASE b = a
    BY <1>1, <1>8, <2>1 DEF PlaceInv
  <2>2. CASE b # a
    <3>1. mem'[b] = mem[b] /\ pc'[b] = pc[b] /\ pc[b] # "finishing"
      BY <1>1, <2>2 DEF SaneInv, PlaceInv, Locked
    <3>2. QED
      BY <1>8, <3>1 DEF ReleaseInv
  <2>3. QED
    BY <2>1, <2>2
<1>10. ReleaseInv'
  BY <1>9 DEF ReleaseInv, AsReleased
<1>11. QED
  BY <1>6, <1>7, <1>10

LEMMA DecidesStore == ASSUME StoreInv, NEW a \in Caller, Decides(a) PROVE StoreInv'
<1>1. ASSUME NEW v \in 1 .. RoundBound, NEW go \in BOOLEAN, RecordJudge(a, v, go) PROVE StoreInv'
  BY <1>1, RecordJudgeStore
<1>2. ASSUME pc[a] = "judging", NEW e \in Votes(mem[a], topic[a]), RecordEnsemble(a, e)
      PROVE  StoreInv'
  BY <1>2, RecordEnsembleStore
<1>3. QED
  BY <1>1, <1>2, AskJudgesStore, ReleaseStore, RestoreJudgesStore, BeginFinishStore, FinishStore
     DEF Decides

LEMMA NextStore == StoreInv /\ [Next]_vars => StoreInv'
<1> SUFFICES ASSUME StoreInv, [Next]_vars PROVE StoreInv'
  OBVIOUS
<1>1. CASE UNCHANGED vars
  BY <1>1, StutterStore
<1>2. ASSUME NEW a \in Caller, Begin(a) \/ Leave(a) \/ Crash(a) \/ Plans(a) \/ Decides(a)
      PROVE  StoreInv'
  BY <1>2, BeginStore, LeaveStore, CrashStore, PlansStore, DecidesStore
<1>3. QED
  BY <1>1, <1>2 DEF Next

-----------------------------------------------------------------------------
(* The theorems *)

LEMMA Invariance == Spec => []StoreInv
BY InitStore, NextStore, PTL DEF Spec

\* Whatever is written, by whom and from however old a copy, the file is a
\* session whose best and committed versions exist.
THEOREM SessionsStaySessions == Spec => []TypeOK
<1>1. StoreInv => TypeOK
  BY DEF StoreInv, SaneInv, PlaceInv, Places, Locked, Sane, SaneParts, TypeOK, IsSession
<1>2. QED
  BY <1>1, Invariance, PTL

\* Folding, rewinding and overwriting with old copies lose neither the text of
\* the best version nor that of the committed one.
THEOREM PlansAreKept == Spec => []KeepsPlans
<1>1. StoreInv => KeepsPlans
  BY DEF StoreInv, SaneInv, Sane, SaneParts, KeepsPlans
<1>2. QED
  BY <1>1, Invariance, PTL

\* A committed text is sound, and some judge said go about that text -- or about
\* version 1 before it existed, when it is version 1 that is committed.
THEOREM CommitsAreJudged == Spec => []CommitJudged
<1>1. StoreInv => CommitJudged
  BY DEF StoreInv, SaneInv, Sane, SaneParts, CommitJudged
<1>2. QED
  BY <1>1, Invariance, PTL

LEMMA WhoEndsFinish ==
  ASSUME PlaceInv, [Next]_vars, NEW a \in Caller, pc[a] = "finishing", pc'[a] = "idle"
  PROVE  Finish(a) \/ Crash(a)
<1>1. pc' # pc
  OBVIOUS
<1>2. PICK b \in Caller : Begin(b) \/ Leave(b) \/ Crash(b) \/ Plans(b) \/ Decides(b)
  BY <1>1 DEF Next, vars
<1>3. CASE b # a
  <2>1. \E l : pc' = [pc EXCEPT ![b] = l]
    BY <1>1, <1>2 DEF Begin, Leave, Crash, Plans, Decides, Enter, Goto, Done, Assess, ReadStatus,
       PersistStatus, FoldHistory, Checkpoint, Rewind, LogFailure, RecordJudge, AskJudges,
       RecordEnsemble, Release, RestoreJudges, BeginFinish, Finish
  <2>2. QED
    BY <1>3, <2>1 DEF PlaceInv
<1>4. CASE b = a
  BY <1>2, <1>4 DEF Begin, Leave, Plans, Decides, Enter, Done, Assess, ReadStatus,
     PersistStatus, FoldHistory, Checkpoint, Rewind, LogFailure, RecordJudge, AskJudges,
     RecordEnsemble, Release, RestoreJudges, BeginFinish
<1>5. QED
  BY <1>3, <1>4

\* A finish nobody overtook marks as finished what its own release committed.
THEOREM FinishesTheRelease == Spec => FinishIsReleased
<1>1. ASSUME StoreInv, [Next]_vars, NEW a \in Caller \ raced PROVE FinishesReleased(a)
  <2> SUFFICES ASSUME pc[a] = "finishing", file'.status = "finished", pc'[a] = "idle"
               PROVE  file'.committed # 0 /\ file'.committed = file'.best
    BY DEF FinishesReleased
  <2>1. mem[a] \in Session /\ AsReleased(mem[a])
    BY <1>1, InHand DEF StoreInv, ReleaseInv, Locked
  <2>2. CASE Finish(a)
    BY <2>1, <2>2 DEF Finish, Session, AsReleased
  <2>3. CASE Crash(a)
    BY <1>1, <2>3 DEF Crash, StoreInv, ReleaseInv, AsReleased
  <2>4. QED
    BY <1>1, <2>2, <2>3, WhoEndsFinish DEF StoreInv
<1>2. StoreInv /\ [Next]_vars => [\A a \in Caller \ raced : FinishesReleased(a)]_vars
  BY <1>1
<1>3. QED
  BY <1>2, Invariance, PTL DEF Spec, FinishIsReleased

=============================================================================

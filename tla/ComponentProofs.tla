--------------------------- MODULE ComponentProofs ----------------------------
(***************************************************************************)
(* What five components that share nothing with each other guarantee, for  *)
(* every value of their constants: the trace gate of release, the          *)
(* isolation log, the stand-alone saga recovery, the choice among          *)
(* candidates and the edit journal.                                        *)
(*                                                                         *)
(* None of the properties is inductive.  What a passed gate means was      *)
(* decided when the evidence was compared with the plan, when the tree was *)
(* copied and when the copy was audited; what a conflict is, by the        *)
(* versions and times the records were given; what a rollback reports, by  *)
(* what its loop had left to undo; what a selection is worth, by the       *)
(* validation and the ranking before it; what the journal brings back, by  *)
(* what was read before each edit.  The invariants carry each decision to  *)
(* where the property reads it.                                            *)
(***************************************************************************)
EXTENDS TraceGate, Isolation, Journal, Recovery, SelfVerification, AscendingProofs, SequenceTheorems, TLAPS

-----------------------------------------------------------------------------
(* The evidence *)

\* no error so far: the evidence under examination agrees with the plan
StoryInv ==
    /\ pc # "idle" /\ ~errors => EvidenceOK(evidence)
    /\ gate = "passed" => EvidenceOK(evidence)

\* Two readers look at the first and the last entry of a task, and there is
\* only one.
LEMMA OneEntry ==
    ASSUME NEW ev, EvidenceOK(ev), NEW c \in DOMAIN Criteria, NEW e \in ToSet(ev.entries),
           e.id = Criteria[c].task
    PROVE  /\ e.exit = Criteria[c].want
           /\ e.id \in Tasks => Outputs[e.id] \subseteq e.items
<1>1. PICK k \in DOMAIN ev.entries : e = ev.entries[k]
  BY DEF ToSet
<1>2. \A i \in EntriesOf(ev, e.id) : i = k
  BY <1>1 DEF EvidenceOK, WellFormed, EntriesOf
<1>3. e.exit = Criteria[c].want
  BY <1>1, <1>2 DEF EvidenceOK, ExitsRecorded
<1>4. ASSUME e.id \in Tasks PROVE Outputs[e.id] \subseteq e.items
  BY <1>1, <1>2, <1>4 DEF EvidenceOK, Aligned
<1>5. QED
  BY <1>3, <1>4

LEMMA StoryKept == StoryInv /\ [Next]_vars => StoryInv'
<1> SUFFICES ASSUME StoryInv, [Next]_vars PROVE StoryInv'
  OBVIOUS
<1> USE DEF StoryInv
<1>1. CASE UNCHANGED vars
  BY <1>1 DEF vars
<1>2. ASSUME NEW x \in Items, Write(x) \/ Unlink(x) PROVE StoryInv'
  BY <1>2 DEF Write, Unlink, Others
<1>3. ASSUME NEW xs \in SUBSET Items, Replace(xs) PROVE StoryInv'
  BY <1>3 DEF Replace, Others
<1>4. ASSUME NEW ev \in Evidence, Call(ev) PROVE StoryInv'
  BY <1>4 DEF Call
<1>5. ASSUME NEW fits \in BOOLEAN, List(fits) PROVE StoryInv'
  BY <1>5 DEF List, Raise, Env
<1>6. ASSUME NEW x \in Items, CopyItem(x) PROVE StoryInv'
  BY <1>6 DEF CopyItem, Raise, Env
<1>7. CASE Audit
  BY <1>7 DEF Audit, Env
<1>8. ASSUME NEW t \in 0..Timeout, NEW code \in {None, 0, 1}, NEW xs \in SUBSET Items,
             RunCommand(t, code, xs)
      PROVE  StoryInv'
  BY <1>8 DEF RunCommand, Env
<1>9. CASE BudgetExhausted
  BY <1>9 DEF BudgetExhausted, Fail, Env
<1>10. CASE StageDone
  BY <1>10 DEF StageDone, Env
<1>11. CASE CheckOutputs
  BY <1>11 DEF CheckOutputs, Env
<1>12. CASE Attest
  BY <1>12 DEF Attest, Env
<1>13. QED
  BY <1>1, <1>2, <1>3, <1>4, <1>5, <1>6, <1>7, <1>8, <1>9, <1>10, <1>11, <1>12 DEF Next

\* The gate passes evidence only when every entry of a task claims its
\* outputs and records its exit code, and the evidence is nobody else's.
THEOREM PassesOneStory == Spec => []PassedOnOneStory
<1>1. Init => StoryInv
  BY DEF Init, StoryInv
<1>2. StoryInv => PassedOnOneStory
  <2> SUFFICES ASSUME StoryInv, gate = "passed" PROVE PassedOnOneStory
    BY DEF PassedOnOneStory
  <2>1. EvidenceOK(evidence)
    BY DEF StoryInv
  <2>2. evidence.verifier # "executor" /\ evidence.verifier # None
    BY <2>1 DEF EvidenceOK, Independent
  <2>3. \A k \in DOMAIN evidence.fields :
            evidence.fields[k] # None => evidence.fields[k] = "own"
    BY <2>1 DEF EvidenceOK, Bound
  <2>4. QED
    BY <2>1, <2>2, <2>3, OneEntry DEF PassedOnOneStory
<1>3. QED
  BY <1>1, <1>2, StoryKept, PTL DEF Spec


-----------------------------------------------------------------------------
(* The copy *)

Copied == {s[1] : s \in seen}

\* a command of a stage that has not failed exits with 0, one after another
CountInv ==
    /\ pc = "verify" => queue \in Seq(Range(Commands)) /\ passed + Len(queue) = Len(Commands)
    /\ pc = "exit" => queue \in Seq(Range(Criteria))
                      /\ passed + Len(queue) = Len(Commands) + Len(Criteria)
    /\ pc \in {"outputs", "attest"} => passed = Len(Commands) + Len(Criteria)

\* what the copy holds comes from the tree between the two looks at its
\* identity, or from the commands
CopyInv ==
    /\ ident \in Nat /\ expected \in Nat
    /\ copy \subseteq Copied \cup made
    /\ \A s \in seen : s[2] \in Nat /\ expected <= s[2] /\ s[2] <= ident

SightInv ==
    /\ pc \in {"idle", "list", "copy", "verify", "exit", "outputs", "attest"}
    /\ gate # "none" => pc = "idle"
    /\ (pc = "idle" /\ gate = "none") \/ pc = "list" =>
          copy = {} /\ seen = {} /\ made = {} /\ passed = 0
    /\ pc = "list" => expected <= ident
    /\ pc = "copy" => made = {} /\ passed = 0 /\ expected <= ident
    /\ passed \in Nat
    /\ CopyInv
    /\ ~errors => CountInv
    /\ pc \in {"verify", "exit", "outputs", "attest"} /\ ~errors => Audited \subseteq Copied
    /\ pc = "attest" /\ ~errors => Items \subseteq copy
    /\ gate \in {"none", "passed", "failed"}
    /\ PassedOnSight

LEMMA SightKept == SightInv /\ [Next]_vars => SightInv'
<1> SUFFICES ASSUME SightInv, [Next]_vars PROVE SightInv'
  OBVIOUS
<1>1. CASE UNCHANGED vars
  BY <1>1 DEF vars, SightInv, CopyInv, CountInv, Copied, PassedOnSight
<1>2. ASSUME NEW x \in Items, Write(x) \/ Unlink(x) PROVE SightInv'
  BY <1>2 DEF Write, Unlink, Others, SightInv, CopyInv, CountInv, Copied, PassedOnSight
<1>3. ASSUME NEW xs \in SUBSET Items, Replace(xs) PROVE SightInv'
  BY <1>3 DEF Replace, Others, SightInv, CopyInv, CountInv, Copied, PassedOnSight
<1>4. ASSUME NEW ev \in Evidence, Call(ev) PROVE SightInv'
  BY <1>4 DEF Call, SightInv, CopyInv, CountInv, Copied, PassedOnSight
<1>5. ASSUME NEW fits \in BOOLEAN, List(fits) PROVE SightInv'
  BY <1>5 DEF List, Raise, Env, SightInv, CopyInv, CountInv, Copied, PassedOnSight
<1>6. ASSUME NEW x \in Items, CopyItem(x) PROVE SightInv'
  <2>1. CASE x \in ws
    <3>1. /\ pc = "copy" /\ pc' = "copy" /\ gate = "none" /\ gate' = "none"
          /\ made = {} /\ made' = {} /\ passed = 0 /\ passed' = 0
          /\ ident' = ident /\ expected' = expected /\ expected <= ident
          /\ copy' = copy \cup {x} /\ seen' = seen \cup {<<x, ident>>}
      BY <1>6, <2>1 DEF CopyItem, Env, SightInv
    <3>2. Copied \cup {x} \subseteq Copied'
      <4>1. <<x, ident>> \in seen' /\ <<x, ident>>[1] = x
        BY <3>1
      <4>2. x \in Copied'
        BY <4>1 DEF Copied
      <4>3. Copied \subseteq Copied'
        BY <3>1 DEF Copied
      <4>4. QED
        BY <4>2, <4>3
    <3>3. CopyInv'
      BY <3>1, <3>2 DEF SightInv, CopyInv
    <3>4. QED
      BY <3>1, <3>3 DEF SightInv, CountInv, PassedOnSight
  <2>2. CASE x \notin ws
    BY <1>6, <2>2 DEF CopyItem, Raise, Env, SightInv, CopyInv, CountInv, Copied, PassedOnSight
  <2>3. QED
    BY <2>1, <2>2
<1>7. CASE Audit
  <2>1. /\ pc = "copy" /\ pc' = "verify" /\ queue' = Commands
        /\ errors' = (errors \/ ~ (Audited \subseteq copy))
        /\ UNCHANGED <<ident, expected, copy, gate, seen, made, passed>>
    BY <1>7 DEF Audit, Env
  <2>2. CopyInv' /\ Copied' = Copied
    BY <2>1 DEF SightInv, CopyInv, Copied
  <2>3. CountInv'
    BY <2>1, ContractAssumption DEF SightInv, CountInv
  <2>4. ~errors' => Audited \subseteq Copied'
    BY <2>1, <2>2 DEF SightInv, CopyInv
  <2>5. QED
    BY <2>1, <2>2, <2>3, <2>4 DEF SightInv, PassedOnSight
<1>8. ASSUME NEW t \in 0..Timeout, NEW code \in {None, 0, 1}, NEW xs \in SUBSET Items,
             RunCommand(t, code, xs)
      PROVE  SightInv'
  <2>1. /\ pc \in {"verify", "exit"} /\ pc' = pc /\ queue # <<>> /\ queue' = Tail(queue)
        /\ copy' = copy \cup xs /\ made' = made \cup (xs \ copy)
        /\ errors' = (errors \/ code # 0)
        /\ passed' = IF code = 0 THEN passed + 1 ELSE passed
        /\ UNCHANGED <<ident, expected, gate, seen>>
    BY <1>8 DEF RunCommand, Env
  <2>2. CopyInv' /\ Copied' = Copied
    BY <2>1 DEF SightInv, CopyInv, Copied
  <2>3. ASSUME ~errors' PROVE CountInv'
    <3>1. CountInv /\ code = 0 /\ passed \in Nat /\ passed' = passed + 1
      BY <2>1, <2>3 DEF SightInv
    <3>2. CASE pc = "verify"
      BY <2>1, <3>1, <3>2 DEF CountInv
    <3>3. CASE pc = "exit"
      BY <2>1, <3>1, <3>3 DEF CountInv
    <3>4. QED
      BY <2>1, <3>2, <3>3
  <2>4. gate' = "none" /\ passed' \in Nat
    BY <2>1 DEF SightInv
  <2>5. ~errors' => ~errors
    BY <2>1
  <2>6. QED
    BY <2>1, <2>2, <2>3, <2>4, <2>5 DEF SightInv, PassedOnSight
<1>9. CASE BudgetExhausted
  BY <1>9 DEF BudgetExhausted, Fail, Env, SightInv, CopyInv, CountInv, Copied, PassedOnSight
<1>10. CASE StageDone
  BY <1>10, ContractAssumption DEF StageDone, Env, SightInv, CopyInv, CountInv, Copied, PassedOnSight
<1>11. CASE CheckOutputs
  BY <1>11 DEF CheckOutputs, Env, SightInv, CopyInv, CountInv, Copied, PassedOnSight
<1>12. CASE Attest
  BY <1>12 DEF Attest, Env, SightInv, CopyInv, CountInv, Copied, PassedOnSight
<1>13. QED
  BY <1>1, <1>2, <1>3, <1>4, <1>5, <1>6, <1>7, <1>8, <1>9, <1>10, <1>11, <1>12 DEF Next

\* The gate passes only when what it promises was copied from the one tree
\* release identified, or made in the copy by commands that all exited 0.
THEOREM PassesOnSight == Spec => []PassedOnSight
<1>1. Init => SightInv
  BY DEF Init, SightInv, CopyInv, CountInv, Copied, PassedOnSight
<1>2. SightInv => PassedOnSight
  BY DEF SightInv
<1>3. QED
  BY <1>1, <1>2, SightKept, PTL DEF Spec

-----------------------------------------------------------------------------
(* Artifact isolation *)

LogRecord == [place : Places, agent : Agents, op : Ops \cup {"release"}, version : Nat, at : Nat]

\* Versions are handed out in order, and time does not run backwards.
LogInv ==
    /\ now \in Nat /\ versions \in [Places -> Nat]
    /\ records \in Seq(LogRecord)
    /\ \A i \in DOMAIN records : records[i].at <= now
                                 /\ records[i].version <= versions[records[i].place]
    /\ \A i, j \in DOMAIN records : i < j =>
          /\ records[i].at <= records[j].at
          /\ records[i].place = records[j].place /\ records[j].op # "release" =>
                records[i].version < records[j].version

LEMMA LogTyped ==
    ASSUME LogInv
    PROVE  /\ Len(records) \in Nat /\ DOMAIN records = 1 .. Len(records)
           /\ \A i \in DOMAIN records :
                 /\ i \in Nat /\ records[i].place \in Places /\ records[i].agent \in Agents
                 /\ records[i].op \in Ops \cup {"release"}
                 /\ records[i].version \in Nat /\ records[i].at \in Nat
<1>1. records \in Seq(LogRecord)
  BY DEF LogInv
<1>2. Len(records) \in Nat /\ DOMAIN records = 1 .. Len(records)
  BY <1>1
<1>3. \A i \in DOMAIN records : records[i] \in LogRecord
  BY <1>1, <1>2, ElementOfSeq
<1>4. QED
  BY <1>2, <1>3 DEF LogRecord

LEMMA LogKept == LogInv /\ [IsolationNext]_isolationVars => LogInv'
<1> SUFFICES ASSUME LogInv, [IsolationNext]_isolationVars PROVE LogInv'
  OBVIOUS
<1>1. CASE UNCHANGED isolationVars
  BY <1>1 DEF isolationVars, LogInv
<1>2. ASSUME NEW p \in Places, NEW a \in Agents, NEW op \in Ops \cup {"release"}, NEW tick \in BOOLEAN,
             Log(p, a, op, tick),
             \/ op # "release" /\ versions' = [versions EXCEPT ![p] = @ + 1]
             \/ op = "release" /\ versions' = versions
      PROVE  LogInv'
  <2> DEFINE r == [place |-> p, agent |-> a, op |-> op, version |-> versions'[p], at |-> now']
             n == Len(records)
  <2>1. now' \in Nat /\ now <= now' /\ versions' \in [Places -> Nat]
    BY <1>2 DEF LogInv, Log
  <2>2. /\ \A q \in Places : versions[q] <= versions'[q]
        /\ op # "release" => versions[p] < versions'[p]
    BY <1>2 DEF LogInv
  <2>3. records' = Append(records, r) /\ r \in LogRecord
    BY <1>2, <2>1 DEF Log, LogRecord
  <2>4. /\ n \in Nat /\ DOMAIN records = 1 .. n /\ DOMAIN records' = 1 .. (n + 1)
        /\ \A i \in 1 .. n : records'[i] = records[i] /\ records[i].place \in Places
                             /\ records[i].version \in Nat /\ records[i].at \in Nat
        /\ records'[n + 1] = r
    <3>1. records \in Seq(LogRecord)
      BY DEF LogInv
    <3> HIDE DEF r
    <3>2. Len(records') = n + 1 /\ records' \in Seq(LogRecord) /\ records'[n + 1] = r
          /\ \A i \in 1 .. n : records'[i] = records[i]
      BY <2>3, <3>1, AppendProperties
    <3>3. DOMAIN records' = 1 .. (n + 1)
      BY <3>2
    <3>4. QED
      BY <3>2, <3>3, LogTyped
  <2>5. records' \in Seq(LogRecord)
    <3> HIDE DEF r
    <3>1. QED
      BY <2>3, AppendProperties DEF LogInv
  <2>6. r.place = p /\ r.op = op /\ r.version = versions'[p] /\ r.at = now'
    OBVIOUS
  <2> HIDE DEF r, n
  <2>7. ASSUME NEW i \in DOMAIN records'
        PROVE  records'[i].at <= now' /\ records'[i].version <= versions'[records'[i].place]
    <3>1. CASE i \in 1 .. n
      <4>1. /\ records[i].at <= now /\ records[i].version <= versions[records[i].place]
            /\ versions[records[i].place] \in Nat /\ versions'[records[i].place] \in Nat
            /\ versions[records[i].place] <= versions'[records[i].place]
        BY <2>1, <2>2, <2>4, <3>1 DEF LogInv
      <4>2. records[i].version \in Nat /\ records[i].at \in Nat /\ now \in Nat
        BY <2>4, <3>1 DEF LogInv
      <4>3. QED
        BY <2>1, <2>4, <3>1, <4>1, <4>2
    <3>2. CASE i = n + 1
      BY <2>1, <2>4, <2>6, <3>2
    <3>3. QED
      BY <2>4, <3>1, <3>2
  <2>8. ASSUME NEW i \in DOMAIN records', NEW j \in DOMAIN records', i < j
        PROVE  /\ records'[i].at <= records'[j].at
               /\ records'[i].place = records'[j].place /\ records'[j].op # "release" =>
                     records'[i].version < records'[j].version
    <3>1. CASE j \in 1 .. n
      <4>1. i \in 1 .. n
        BY <2>4, <2>8, <3>1
      <4>2. QED
        BY <2>4, <2>8, <3>1, <4>1 DEF LogInv
    <3>2. CASE j = n + 1
      <4>1. i \in 1 .. n
        BY <2>4, <2>8, <3>2
      <4>2. records[i].at <= now /\ records[i].version <= versions[records[i].place]
        BY <2>4, <4>1 DEF LogInv
      <4>3. versions[p] \in Nat /\ versions'[p] \in Nat /\ now \in Nat
        BY <2>1 DEF LogInv
      <4>4. QED
        BY <2>1, <2>2, <2>4, <2>6, <3>2, <4>1, <4>2, <4>3
    <3>3. QED
      BY <2>4, <3>1, <3>2
  <2>9. QED
    BY <2>1, <2>5, <2>7, <2>8 DEF LogInv
<1>3. ASSUME NEW p \in Places, NEW a \in Agents, NEW tick \in BOOLEAN, NEW op \in Ops,
             acquire_artifact(p, a, op, tick)
      PROVE  LogInv'
  BY <1>2, <1>3 DEF acquire_artifact, Ops
<1>4. ASSUME NEW p \in Places, NEW a \in Agents, NEW tick \in BOOLEAN, release_artifact(p, a, tick)
      PROVE  LogInv'
  BY <1>2, <1>4 DEF release_artifact
<1>5. QED
  BY <1>1, <1>3, <1>4 DEF IsolationNext

\* of an agent that holds an artifact, the record detect_conflicts looks at is
\* one of its holdings, and no earlier one
LEMMA LastIsHeld ==
    ASSUME LogInv, NEW p \in Places, NEW a \in Agents, NEW i \in Held(p, a)
    PROVE  \E k \in Held(p, a) : i <= k /\ records[k] \in Active
<1> DEFINE n == Len(records)
           T == {k \in 1 .. n : records[k].place = p /\ records[k].agent = a}
<1>1. n \in Nat /\ DOMAIN records = 1 .. n
  BY DEF LogInv
<1>2. /\ i \in 1 .. n /\ records[i].place = p /\ records[i].agent = a
      /\ ~Released(i, n)
  BY <1>1 DEF Held
<1>3. T \subseteq 0 .. n /\ i \in T
  BY <1>1, <1>2
<1> HIDE DEF T, n
<1>4. PICK k \in T : \A l \in T : l <= k
  BY <1>1, <1>3, GreatestNat
<1>5. i <= k /\ k \in 1 .. n /\ records[k].place = p /\ records[k].agent = a
  BY <1>3, <1>4 DEF T
<1>6. records[k].op # "release"
  <2>1. k \in i .. n
    BY <1>1, <1>2, <1>5
  <2>2. QED
    BY <1>2, <1>5, <2>1 DEF Released
<1>7. records[k].op \in Ops
  BY <1>1, <1>5, <1>6, LogTyped
<1>8. ~Released(k, n)
  <2> SUFFICES ASSUME NEW l \in k .. n, records[l].place = p, records[l].agent = a,
                      records[l].op = "release"
               PROVE  FALSE
    BY <1>5 DEF Released
  <2>1. l \in i .. n
    BY <1>1, <1>2, <1>5
  <2>2. QED
    BY <1>2, <2>1 DEF Released
<1>9. k \in Held(p, a)
  BY <1>1, <1>5, <1>7, <1>8 DEF Held, n
<1>10. records[k] \in Active
  BY <1>1, <1>4, <1>5, <1>6 DEF Active, T
<1>11. QED
  BY <1>5, <1>9, <1>10

\* an active record is the last of its agent at its place, which holds it
LEMMA ActiveIsHeld ==
    ASSUME LogInv, NEW r \in Active
    PROVE  \E i \in Held(r.place, r.agent) : records[i] = r
<1>1. PICK i \in DOMAIN records :
         /\ r = records[i] /\ r.op # "release"
         /\ \A j \in DOMAIN records : records[j].place = records[i].place
                                      /\ records[j].agent = records[i].agent => j <= i
  BY DEF Active
<1>2. Len(records) \in Nat /\ DOMAIN records = 1 .. Len(records)
  BY DEF LogInv
<1>3. r.op \in Ops
  BY <1>1, LogTyped
<1>4. ~Released(i, Len(records))
  <2> SUFFICES ASSUME NEW k \in i .. Len(records), records[k].place = r.place,
                      records[k].agent = r.agent, records[k].op = "release"
               PROVE  FALSE
    BY <1>1 DEF Released
  <2>1. k \in DOMAIN records /\ k <= i /\ i <= k
    BY <1>1, <1>2
  <2>2. k = i
    BY <1>2, <2>1
  <2>3. QED
    BY <1>1, <2>2
<1>5. QED
  BY <1>1, <1>3, <1>4 DEF Held

LEMMA HeldTwice ==
    ASSUME LogInv, NEW p, NEW a, NEW i \in Held(p, a), NEW k \in Held(p, a), i # k
    PROVE  Repeated(p, a)
<1>1. Len(records) \in Nat /\ Held(p, a) \in SUBSET (1 .. Len(records))
  BY DEF LogInv, Held
<1>2. IsFiniteSet(Held(p, a)) /\ Cardinality(Held(p, a)) \in Nat
  BY <1>1, PlacesFinite
<1>3. Cardinality({i, k}) = 2
  <2>1. IsFiniteSet({i}) /\ Cardinality({i}) = 1 /\ {i, k} = {i} \cup {k} /\ k \notin {i}
    BY FS_Singleton
  <2>2. QED
    BY <2>1, FS_AddElement
<1>4. Cardinality({i, k}) <= Cardinality(Held(p, a))
  BY <1>2, FS_Subset
<1>5. QED
  BY <1>2, <1>3, <1>4 DEF Repeated

\* the read of a held pair is older than the write: so the last ones are, or
\* the reader repeated its read
LEMMA ReadIsSeen ==
    ASSUME LogInv, NEW p \in Places, NEW a \in Agents, NEW b \in Agents,
           NEW i \in Held(p, a), NEW j \in Held(p, b),
           records[i].op = "read", records[j].op \in Writes, records[i].at < records[j].at,
           ~Replaced(p, a), ~Replaced(p, b)
    PROVE  ReadConflict(p, a, b) \/ Repeated(p, a)
<1>1. PICK k \in Held(p, a) : i <= k /\ records[k] \in Active
  BY LastIsHeld
<1>2. PICK l \in Held(p, b) : j <= l /\ records[l] \in Active
  BY LastIsHeld
<1>3. records[k].op = "read" /\ records[l].op \in Writes
  <2>1. records[k].op \notin Writes
    BY <1>1 DEF Replaced, Writes
  <2>2. records[k].op \in Ops
    BY DEF Held
  <2>3. records[l].op \in Writes
    BY <1>2 DEF Replaced
  <2>4. QED
    BY <2>1, <2>2, <2>3 DEF Ops, Writes
<1>4. CASE k = i
  <2>1. /\ j \in DOMAIN records /\ l \in DOMAIN records /\ i \in DOMAIN records
        /\ records[k].place = p /\ records[k].agent = a
        /\ records[l].place = p /\ records[l].agent = b
    BY DEF Held
  <2>2. records[j].at <= records[l].at /\ records[i].at \in Nat /\ records[j].at \in Nat
        /\ records[l].at \in Nat
    <3>1. records[i].at \in Nat /\ records[j].at \in Nat /\ records[l].at \in Nat
      BY <2>1, LogTyped
    <3>2. j \in Nat /\ l \in Nat
      BY <2>1, LogTyped
    <3>3. CASE j = l
      BY <3>1, <3>3
    <3>4. CASE j < l
      BY <2>1, <3>1, <3>4 DEF LogInv
    <3>5. QED
      BY <1>2, <3>2, <3>3, <3>4
  <2>3. records[k].at < records[l].at
    BY <1>4, <2>2
  <2>4. <<records[k], records[l]>> \in Pairs(p, a, b)
    BY <1>1, <1>2, <2>1 DEF Pairs
  <2>5. QED
    BY <1>3, <2>3, <2>4 DEF ReadConflict
<1>5. CASE k # i
  BY <1>5, HeldTwice
<1>6. QED
  BY <1>4, <1>5

\* What detect_conflicts reports is what the agents hold, for any places, agents
\* and history (isolation.py).
THEOREM ConflictsAreExact == IsolationSpec => []ConflictsExact
<1>1. IsolationInit => LogInv
  BY DEF IsolationInit, LogInv
<1>2. LogInv => ConflictsExact
  <2> SUFFICES ASSUME LogInv, NEW p \in Places, NEW a \in Agents, NEW b \in Agents, a # b
               PROVE  /\ ~WriteConflict(p, a, b, TRUE)
                      /\ Reported(p, a, b) => Clash(p, a, b)
                      /\ Clash(p, a, b) /\ ~Replaced(p, a) /\ ~Replaced(p, b) =>
                            \/ Reported(p, a, b)
                            \/ \E c \in {a, b} : Repeated(p, c) /\ \E i \in Held(p, c) : records[i].op = "read"
    BY DEF ConflictsExact
  <2>1. ASSUME NEW rs \in Pairs(p, a, b)
        PROVE  \E i \in Held(p, a), j \in Held(p, b) : rs[1] = records[i] /\ rs[2] = records[j]
    <3>1. PICK r \in Active, s \in Active :
             rs = <<r, s>> /\ r.place = p /\ s.place = p /\ r.agent = a /\ s.agent = b
      BY DEF Pairs
    <3>2. QED
      BY <3>1, ActiveIsHeld
  <2>2. ASSUME NEW rs \in Pairs(p, b, a)
        PROVE  \E i \in Held(p, b), j \in Held(p, a) : rs[1] = records[i] /\ rs[2] = records[j]
    <3>1. PICK r \in Active, s \in Active :
             rs = <<r, s>> /\ r.place = p /\ s.place = p /\ r.agent = b /\ s.agent = a
      BY DEF Pairs
    <3>2. QED
      BY <3>1, ActiveIsHeld
  <2>3. ~WriteConflict(p, a, b, TRUE)
    <3> SUFFICES ASSUME NEW rs \in Pairs(p, a, b), {rs[1].op, rs[2].op} \subseteq Writes,
                        rs[1].version = rs[2].version
                 PROVE  FALSE
      BY DEF WriteConflict
    <3>1. PICK i \in Held(p, a), j \in Held(p, b) : rs[1] = records[i] /\ rs[2] = records[j]
      BY <2>1
    <3>2. /\ i \in DOMAIN records /\ j \in DOMAIN records
          /\ records[i].place = p /\ records[j].place = p
          /\ records[i].agent = a /\ records[j].agent = b
      BY DEF Held
    <3>3. records[i].op # "release" /\ records[j].op # "release"
      BY <3>1 DEF Writes
    <3>4. i \in Nat /\ j \in Nat /\ i # j /\ records[i].version \in Nat /\ records[j].version \in Nat
      <4>1. i # j
        BY <3>2
      <4>2. QED
        BY <3>2, <4>1, LogTyped
    <3>5. records[i].version < records[j].version \/ records[j].version < records[i].version
      <4>1. i < j \/ j < i
        BY <3>4
      <4>2. QED
        BY <3>2, <3>3, <4>1 DEF LogInv
    <3>6. QED
      BY <3>1, <3>4, <3>5
  <2>4. ASSUME Reported(p, a, b) PROVE Clash(p, a, b)
    <3>1. CASE WriteConflict(p, a, b, FALSE)
      BY <2>1, <3>1 DEF WriteConflict, Clash
    <3>2. CASE ReadConflict(p, a, b)
      BY <2>1, <3>2 DEF ReadConflict, Clash
    <3>3. CASE ReadConflict(p, b, a)
      BY <2>2, <3>3 DEF ReadConflict, Clash
    <3>4. QED
      BY <2>4, <3>1, <3>2, <3>3 DEF Reported
  <2>5. ASSUME Clash(p, a, b), ~Replaced(p, a), ~Replaced(p, b)
        PROVE  \/ Reported(p, a, b)
               \/ \E c \in {a, b} : Repeated(p, c) /\ \E i \in Held(p, c) : records[i].op = "read"
    <3>1. PICK i \in Held(p, a), j \in Held(p, b) :
            \/ records[i].op \in Writes /\ records[j].op \in Writes
            \/ records[i].op = "read" /\ records[j].op \in Writes /\ records[i].at < records[j].at
            \/ records[j].op = "read" /\ records[i].op \in Writes /\ records[j].at < records[i].at
      BY <2>5 DEF Clash
    <3>2. CASE records[i].op \in Writes /\ records[j].op \in Writes
      <4>1. PICK k \in Held(p, a) : records[k] \in Active
        BY LastIsHeld
      <4>2. PICK l \in Held(p, b) : records[l] \in Active
        BY LastIsHeld
      <4>3. records[k].op \in Writes /\ records[l].op \in Writes
        BY <2>5, <3>2 DEF Replaced
      <4>4. <<records[k], records[l]>> \in Pairs(p, a, b)
        BY <4>1, <4>2 DEF Pairs, Held
      <4>5. QED
        BY <4>3, <4>4 DEF Reported, WriteConflict
    <3>3. CASE records[i].op = "read" /\ records[j].op \in Writes /\ records[i].at < records[j].at
      BY <2>5, <3>3, ReadIsSeen DEF Reported
    <3>4. CASE records[j].op = "read" /\ records[i].op \in Writes /\ records[j].at < records[i].at
      BY <2>5, <3>4, ReadIsSeen DEF Reported
    <3>5. QED
      BY <3>1, <3>2, <3>3, <3>4
  <2>6. QED
    BY <2>3, <2>4, <2>5
<1>3. QED
  BY <1>1, <1>2, LogKept, PTL DEF IsolationSpec

-----------------------------------------------------------------------------
(* Saga recovery *)

\* Before the rollback nothing was reported; in its loop what is still in place
\* is still to be undone, and counted; a report is kept by later calls.
SagaInv ==
    /\ steps \in Seq(ExecutedStep) /\ done \in Nat
    /\ to_undo \in Seq(Undoable) /\ saga_pc \in {"run", "undo", "idle"}
    /\ \A k, l \in 1 .. Len(to_undo) : k < l => to_undo[l] < to_undo[k]
    /\ saga_pc = "run" => /\ report = "none" /\ to_undo = <<>>
                          /\ session \in {"EXECUTING", "DIAGNOSING", "COMPENSATING"}
    /\ saga_pc = "undo" => /\ report = "none"
                           /\ Len(to_undo) + done = Cardinality(Undoable)
                           /\ \A i \in Undoable \cap world : \E k \in 1 .. Len(to_undo) : to_undo[k] = i
    /\ "ROLLED_BACK" \in {report, session} => Undoable \cap world = {}
    /\ report = "ROLLED_BACK" => done = Cardinality(Undoable)
    /\ report = "CONTAINMENT_FAILED" => session = "FAILED"

LEMMA StepsToUndo ==
    ASSUME steps \in Seq(ExecutedStep)
    PROVE  /\ Undoable \in SUBSET Nat /\ Cardinality(Undoable) \in Nat
           /\ Reverse(steps_to_undo) \in Seq(Undoable)
           /\ Len(Reverse(steps_to_undo)) = Cardinality(Undoable)
           /\ \A k, l \in 1 .. Len(Reverse(steps_to_undo)) :
                 k < l => Reverse(steps_to_undo)[l] < Reverse(steps_to_undo)[k]
           /\ \A i \in Undoable : \E k \in 1 .. Len(Reverse(steps_to_undo)) : Reverse(steps_to_undo)[k] = i
           /\ steps_to_undo = <<>> <=> Undoable = {}
<1> DEFINE U == Undoable
           m == Cardinality(U)
           s == InOrder(U)
           r == Reverse(s)
<1>1. Len(steps) \in Nat /\ U \in SUBSET (1 .. Len(steps))
  BY DEF Undoable
<1> HIDE DEF U
<1>2. /\ s \in Seq(U) /\ Len(s) = m /\ m \in Nat
      /\ \A i \in U : Rank(U, i) \in 1 .. m /\ s[Rank(U, i)] = i
      /\ \A k, l \in 1 .. m : k < l => s[k] < s[l]
  BY <1>1, InOrderProperties
<1> HIDE DEF s, m
<1>3. r = [k \in 1 .. m |-> s[m - k + 1]]
  BY <1>2 DEF Reverse
<1>4. \A k \in 1 .. m : m - k + 1 \in 1 .. m /\ s[m - k + 1] \in U
  <2> TAKE k \in 1 .. m
  <2>1. m - k + 1 \in 1 .. m
    BY <1>2
  <2>2. QED
    BY <1>2, <2>1, ElementOfSeq
<1>5. r \in Seq(U) /\ Len(r) = m
  <2>1. [k \in 1 .. m |-> s[m - k + 1]] \in [1 .. m -> U]
    BY <1>4
  <2>2. QED
    BY <1>2, <1>3, <2>1
<1>6. ASSUME NEW k \in 1 .. m, NEW l \in 1 .. m, k < l PROVE r[l] < r[k]
  <2>1. m - l + 1 < m - k + 1
    BY <1>2, <1>6
  <2>2. QED
    BY <1>2, <1>3, <1>4, <2>1
<1>7. ASSUME NEW i \in U PROVE \E k \in 1 .. m : r[k] = i
  <2>1. m - Rank(U, i) + 1 \in 1 .. m /\ m - (m - Rank(U, i) + 1) + 1 = Rank(U, i)
    BY <1>2
  <2>2. r[m - Rank(U, i) + 1] = i
    BY <1>2, <1>3, <2>1
  <2>3. QED
    BY <2>1, <2>2
<1>8. s = <<>> <=> U = {}
  <2>1. IsFiniteSet(U)
    BY <1>1, PlacesFinite
  <2>2. m = 0 <=> U = {}
    BY <2>1, FS_EmptySet DEF m
  <2>3. QED
    BY <1>2, <2>2
<1> HIDE DEF r
<1>9. QED
  BY <1>1, <1>2, <1>5, <1>6, <1>7, <1>8 DEF U, s, m, r, steps_to_undo

LEMMA SagaKept == SagaInv /\ [RecoveryNext]_recoveryVars => SagaInv'
<1> SUFFICES ASSUME SagaInv, [RecoveryNext]_recoveryVars PROVE SagaInv'
  OBVIOUS
<1> DEFINE Same == steps' = steps /\ Undoable' = Undoable
<1>1. steps' = steps => Same
  BY DEF Undoable
<1> HIDE DEF Same
<1>2. CASE UNCHANGED recoveryVars
  BY <1>1, <1>2 DEF recoveryVars, SagaInv, Same
<1>3. ASSUME NEW s \in ExecutedStep, NEW effective \in BOOLEAN, Execute(s, effective) PROVE SagaInv'
  <2>1. /\ saga_pc' = "run" /\ report' = "none" /\ to_undo' = <<>> /\ done' = done
        /\ session' \in {"EXECUTING", "DIAGNOSING", "COMPENSATING"} /\ steps' = Append(steps, s)
    BY <1>3 DEF Execute, SagaInv
  <2>2. steps' \in Seq(ExecutedStep) /\ done' \in Nat /\ to_undo' \in Seq(Undoable')
    BY <2>1 DEF SagaInv
  <2>3. QED
    BY <2>1, <2>2 DEF SagaInv
<1>4. ASSUME NEW target \in {"DIAGNOSING", "COMPENSATING"}, MoveOn(target) PROVE SagaInv'
  BY <1>1, <1>4 DEF MoveOn, SagaInv, Same
<1>5. CASE Rollback
  <2>1. Same
    BY <1>1, <1>5 DEF Rollback
  <2>2. /\ to_undo' = Reverse(steps_to_undo) /\ done' = 0 /\ world' = world
        /\ \/ /\ steps_to_undo = <<>> /\ saga_pc' = "idle" /\ report' = "NO_RECOVERY_NEEDED"
              /\ session' = IF session = "COMPENSATING" THEN "ROLLED_BACK" ELSE session
           \/ /\ saga_pc' = "undo" /\ report' = "none"
              /\ session' = IF session \in {"EXECUTING", "DIAGNOSING"} THEN "COMPENSATING" ELSE session
    BY <1>5 DEF Rollback
  <2>3. steps \in Seq(ExecutedStep)
    BY DEF SagaInv
  <2>4. \/ Undoable = {} /\ saga_pc' = "idle" /\ report' = "NO_RECOVERY_NEEDED"
        \/ saga_pc' = "undo" /\ report' = "none" /\ (session' = "ROLLED_BACK" => session = "ROLLED_BACK")
    BY <2>2, <2>3, StepsToUndo
  <2> DEFINE r == Reverse(steps_to_undo)
  <2>5. /\ Cardinality(Undoable) \in Nat /\ r \in Seq(Undoable) /\ Len(r) = Cardinality(Undoable)
        /\ \A k, l \in 1 .. Len(r) : k < l => r[l] < r[k]
        /\ \A i \in Undoable : \E k \in 1 .. Len(r) : r[k] = i
    BY <2>3, StepsToUndo
  <2>6. to_undo' = r
    BY <2>2
  <2> HIDE DEF r
  <2>7. /\ steps' \in Seq(ExecutedStep) /\ done' \in Nat /\ to_undo' \in Seq(Undoable')
        /\ \A k, l \in 1 .. Len(to_undo') : k < l => to_undo'[l] < to_undo'[k]
    BY <2>1, <2>2, <2>3, <2>5, <2>6 DEF Same
  <2>8. Len(to_undo') + done' = Cardinality(Undoable')
        /\ \A i \in Undoable' \cap world' : \E k \in 1 .. Len(to_undo') : to_undo'[k] = i
    BY <2>1, <2>2, <2>5, <2>6 DEF Same
  <2>9. "ROLLED_BACK" \in {report', session'} => Undoable' \cap world' = {}
    BY <2>1, <2>2, <2>4 DEF Same, SagaInv
  <2>10. QED
    BY <2>4, <2>7, <2>8, <2>9 DEF SagaInv
<1>6. ASSUME Contain, world' \subseteq world PROVE SagaInv'
  <2>1. Same /\ to_undo' = <<>> /\ saga_pc' = "idle" /\ report' = "CONTAINMENT_FAILED"
        /\ session' = "FAILED" /\ done' = done
    BY <1>1, <1>6 DEF Contain
  <2>2. QED
    BY <2>1 DEF SagaInv, Same
<1>7. CASE Unable
  BY <1>6, <1>7 DEF Unable
<1>8. CASE Raises
  BY <1>1, <1>8 DEF Raises, SagaInv, Same
<1>9. CASE Complete
  <2>1. /\ Same /\ saga_pc = "undo" /\ to_undo = <<>> /\ to_undo' = <<>> /\ report' = "ROLLED_BACK"
        /\ saga_pc' = "idle" /\ world' = world /\ done' = done
    BY <1>1, <1>9 DEF Complete
  <2>2. Len(to_undo) = 0
    BY <2>1
  <2>3. Undoable \cap world = {}
    BY <2>1, <2>2 DEF SagaInv
  <2>4. done = Cardinality(Undoable)
    BY <2>1, <2>2 DEF SagaInv
  <2>5. QED
    BY <2>1, <2>3, <2>4 DEF SagaInv, Same
<1>10. ASSUME NEW ok \in BOOLEAN, NEW undone \in BOOLEAN, Compensate(ok, undone) PROVE SagaInv'
  <2>1. CASE ~ok
    BY <1>6, <1>10, <2>1 DEF Compensate
  <2>2. CASE ok
    <3>1. /\ saga_pc = "undo" /\ saga_pc' = "undo" /\ to_undo # <<>> /\ to_undo' = Tail(to_undo)
          /\ world' = world \ {Head(to_undo)} /\ done' = done + 1
          /\ session' = session /\ report' = report /\ Same
      BY <1>1, <1>10, <2>2 DEF Compensate
    <3>2. to_undo \in Seq(Undoable) /\ Len(to_undo) \in Nat /\ Len(to_undo) > 0
      BY <3>1 DEF SagaInv
    <3>3. /\ to_undo' \in Seq(Undoable) /\ Len(to_undo') = Len(to_undo) - 1
          /\ \A k \in 1 .. Len(to_undo') : to_undo'[k] = to_undo[k + 1] /\ k + 1 \in 1 .. Len(to_undo)
          /\ Head(to_undo) = to_undo[1]
      BY <3>1, <3>2, HeadTailProperties
    <3>4. \A k, l \in 1 .. Len(to_undo') : k < l => to_undo'[l] < to_undo'[k]
      <4> SUFFICES ASSUME NEW k \in 1 .. Len(to_undo'), NEW l \in 1 .. Len(to_undo'), k < l
                   PROVE  to_undo'[l] < to_undo'[k]
        OBVIOUS
      <4>1. k + 1 < l + 1
        OBVIOUS
      <4>2. QED
        BY <3>3, <4>1, SMTT(30) DEF SagaInv
    <3>5. ASSUME NEW i \in Undoable \cap world'
          PROVE  \E k \in 1 .. Len(to_undo') : to_undo'[k] = i
      <4>1. i # Head(to_undo) /\ i \in Undoable \cap world
        BY <3>1
      <4>2. PICK k \in 1 .. Len(to_undo) : to_undo[k] = i
        BY <3>1, <4>1 DEF SagaInv
      <4>3. k # 1
        BY <3>3, <4>1, <4>2
      <4>4. k - 1 \in 1 .. Len(to_undo') /\ (k - 1) + 1 = k
        BY <3>2, <3>3, <4>3
      <4>5. QED
        BY <3>3, <4>2, <4>4
    <3>6. Len(to_undo') + done' = Cardinality(Undoable) /\ done' \in Nat
      BY <3>1, <3>2, <3>3 DEF SagaInv
    <3>7. QED
      BY <3>1, <3>3, <3>4, <3>5, <3>6 DEF SagaInv, Same
  <2>3. QED
    BY <2>1, <2>2
<1>11. QED
  BY <1>2, <1>3, <1>4, <1>5, <1>7, <1>8, <1>9, <1>10 DEF RecoveryNext

\* A rollback reported is one that happened, in the reverse of the order of the
\* steps, whatever was called before (recovery.py).
THEOREM RolledBackIsClean == RecoverySpec => []RolledBackClean
<1>1. RecoveryInit => SagaInv
  BY DEF RecoveryInit, SagaInv
<1>2. SagaInv => RolledBackClean
  <2> SUFFICES ASSUME SagaInv, saga_pc = "undo", to_undo # <<>>, NEW i \in Undoable \cap world
               PROVE  i <= Head(to_undo)
    BY DEF SagaInv, RolledBackClean
  <2>1. PICK k \in 1 .. Len(to_undo) : to_undo[k] = i
    BY DEF SagaInv
  <2>2. to_undo \in Seq(Undoable) /\ Head(to_undo) = to_undo[1] /\ Len(to_undo) \in Nat
    BY DEF SagaInv
  <2>3. k = 1 \/ to_undo[k] < to_undo[1]
    BY <2>2 DEF SagaInv
  <2>4. Undoable \in SUBSET Nat
    BY StepsToUndo DEF SagaInv
  <2>5. i \in Nat /\ to_undo[1] \in Nat
    <3>1. Len(to_undo) \in Nat /\ 1 \in 1 .. Len(to_undo)
      BY <2>2
    <3>2. to_undo[1] \in Undoable
      BY <2>2, <3>1, ElementOfSeq
    <3>3. QED
      BY <2>4, <3>2
  <2>6. QED
    BY <2>1, <2>2, <2>3, <2>5
<1>3. QED
  BY <1>1, <1>2, SagaKept, PTL DEF RecoverySpec

-----------------------------------------------------------------------------
(* Choice among candidates *)

\* the candidates are all validated before any is eligible, those eligible are
\* the ones with the best status, and what was selected and scored are theirs
EligibleInv ==
    /\ Len(found) = N
    /\ \/ eligible = With("PASS")
       \/ eligible = With("UNKNOWN") /\ With("PASS") = <<>>

SelectionInv ==
    /\ soft.index \in DOMAIN eligible /\ selected = eligible[soft.index]
    /\ soft.scores \in Seq(Scores) /\ Len(soft.scores) \in {0, Len(eligible)}
    /\ scores = [c \in 1..N |-> IF \E j \in DOMAIN soft.scores : eligible[j] = c
                                THEN soft.scores[CHOOSE j \in DOMAIN soft.scores : eligible[j] = c]
                                ELSE Unset]

ChoiceInv ==
    /\ found \in Seq(Statuses) /\ Len(found) <= N /\ moment \in Moments
    /\ choice_pc \in {"validate", "ask", "answer", "revalidate", "done"}
    /\ choice_pc \in {"validate", "ask", "answer"} => selected = Unset
    /\ choice_pc # "done" => ~certified /\ ~raised
    /\ choice_pc \in {"ask", "answer", "revalidate"} => EligibleInv
    /\ certified => ~raised /\ Status[last][selected] = "PASS"
    /\ selected # Unset => EligibleInv /\ SelectionInv

LEMMA Candidates ==
    /\ N \in Nat
    /\ \A m \in Moments : Len(Status[m]) = N /\ Status[m] \in Seq(Statuses)
<1>1. First \in Moments
  BY StatusAssumption DEF First
<1>2. QED
  BY <1>1, StatusAssumption DEF N

LEMMA WithProperties ==
    ASSUME NEW s
    PROVE  /\ With(s) \in Seq(1..N)
           /\ \A j \in DOMAIN With(s) : With(s)[j] \in 1..N /\ found[With(s)[j]] = s
           /\ \A c \in 1..N : found[c] = s =>
                 LET k == Cardinality({d \in 1..c : found[d] = s})
                 IN k \in DOMAIN With(s) /\ With(s)[k] = c
           /\ \A j, k \in DOMAIN With(s) : With(s)[j] = With(s)[k] => j = k
<1> DEFINE S == {c \in 1..N : found[c] = s}
<1>1. N \in Nat /\ S \in SUBSET (1..N)
  BY Candidates
<1> HIDE DEF S
<1>2. /\ InOrder(S) \in Seq(S) /\ Len(InOrder(S)) = Cardinality(S) /\ Cardinality(S) \in Nat
      /\ \A i \in S : Rank(S, i) \in 1..Cardinality(S) /\ InOrder(S)[Rank(S, i)] = i
      /\ \A k \in 1 .. Cardinality(S) : Rank(S, InOrder(S)[k]) = k
  BY <1>1, InOrderProperties
<1>3. With(s) = InOrder(S)
  BY DEF With, S
<1>4. With(s) \in Seq(S) /\ DOMAIN With(s) = 1..Cardinality(S)
  BY <1>2, <1>3
<1>5. \A j \in DOMAIN With(s) : With(s)[j] \in S
  BY <1>2, <1>3, <1>4, ElementOfSeq
<1>6. ASSUME NEW c \in S
      PROVE  {d \in 1..c : found[d] = s} = {d \in S : d <= c}
  BY <1>1 DEF S
<1>7. With(s) \in Seq(1..N)
  <2>1. With(s) \in [1 .. Cardinality(S) -> 1..N]
    <3>1. With(s) = [k \in 1 .. Cardinality(S) |-> With(s)[k]]
      BY <1>4
    <3>2. \A k \in 1 .. Cardinality(S) : With(s)[k] \in 1..N
      BY <1>1, <1>4, <1>5
    <3>3. QED
      BY <3>1, <3>2
  <2>2. Cardinality(S) \in Nat
    BY <1>2
  <2>3. QED
    BY <2>1, <2>2, SeqDef, Zenon
<1>8. \A c \in 1..N : found[c] = s => c \in S
  BY DEF S
<1>9. \A c \in S : Rank(S, c) = Cardinality({d \in 1..c : found[d] = s})
  BY <1>6 DEF Rank
<1>10. \A c \in S : c \in 1..N /\ found[c] = s
  BY DEF S
<1>11. ASSUME NEW c \in 1..N, found[c] = s
       PROVE  LET k == Cardinality({d \in 1..c : found[d] = s})
              IN k \in DOMAIN With(s) /\ With(s)[k] = c
  <2>1. c \in S /\ Rank(S, c) = Cardinality({d \in 1..c : found[d] = s})
    BY <1>8, <1>9, <1>11
  <2>2. Rank(S, c) \in DOMAIN With(s) /\ With(s)[Rank(S, c)] = c
    BY <1>2, <1>3, <1>4, <2>1
  <2>3. QED
    BY <2>1, <2>2
<1>12. ASSUME NEW j \in DOMAIN With(s), NEW k \in DOMAIN With(s), With(s)[j] = With(s)[k]
       PROVE  j = k
  <2>1. Rank(S, InOrder(S)[j]) = j /\ Rank(S, InOrder(S)[k]) = k
    BY <1>2, <1>4
  <2>2. QED
    BY <2>1, <1>3, <1>12
<1>13. \A j \in DOMAIN With(s) : With(s)[j] \in 1..N /\ found[With(s)[j]] = s
  BY <1>5, <1>10
<1>14. QED
  BY <1>7, <1>11, <1>12, <1>13

LEMMA ChoiceKept == ChoiceInv /\ [ChoiceNext]_choiceVars => ChoiceInv'
<1> SUFFICES ASSUME ChoiceInv, [ChoiceNext]_choiceVars PROVE ChoiceInv'
  OBVIOUS
<1>1. ASSUME UNCHANGED <<found, eligible>> PROVE EligibleInv' <=> EligibleInv
  BY <1>1 DEF EligibleInv, With
<1>10. ASSUME UNCHANGED <<eligible, selected, scores, soft>> PROVE SelectionInv' <=> SelectionInv
  BY <1>10 DEF SelectionInv
<1>2. CASE UNCHANGED choiceVars
  <2>1. /\ choice_pc' = choice_pc /\ moment' = moment /\ found' = found /\ eligible' = eligible
        /\ selected' = selected /\ scores' = scores /\ certified' = certified
        /\ raised' = raised /\ soft' = soft /\ last' = last
    BY <1>2 DEF choiceVars
  <2>2. (EligibleInv' <=> EligibleInv) /\ (SelectionInv' <=> SelectionInv)
    BY <1>1, <1>10, <2>1
  <2>3. QED
    BY <2>1, <2>2 DEF ChoiceInv
<1>3. ASSUME NEW m \in Moments, Change(m) PROVE ChoiceInv'
  <2>1. /\ choice_pc' = choice_pc /\ moment' \in Moments /\ found' = found /\ eligible' = eligible
        /\ selected' = selected /\ scores' = scores /\ certified' = certified
        /\ raised' = raised /\ soft' = soft /\ last' = last
    BY <1>3 DEF Change
  <2>2. (EligibleInv' <=> EligibleInv) /\ (SelectionInv' <=> SelectionInv)
    BY <1>1, <1>10, <2>1
  <2>3. QED
    BY <2>1, <2>2 DEF ChoiceInv
<1>4. CASE Validate
  <2>1. /\ choice_pc = "validate" /\ choice_pc' = "validate" /\ Len(found) < N
        /\ found' = Append(found, Status[moment][Len(found) + 1])
        /\ selected' = selected /\ certified' = certified /\ raised' = raised
    BY <1>4 DEF Validate
  <2>2. Len(found') <= N /\ found' \in Seq(Statuses) /\ moment' \in Moments
    <3>1. Len(found) \in Nat /\ found \in Seq(Statuses) /\ moment \in Moments
      BY DEF ChoiceInv
    <3>2. Status[moment][Len(found) + 1] \in Statuses
      <4>1. Len(found) + 1 \in 1 .. N
        BY <2>1, <3>1, Candidates
      <4>2. QED
        BY <3>1, <4>1, Candidates, ElementOfSeq
    <3>3. Len(found') = Len(found) + 1 /\ found' \in Seq(Statuses)
      BY <2>1, <3>1, <3>2, AppendProperties
    <3>4. moment' = moment
      BY <1>4 DEF Validate
    <3>5. QED
      BY <2>1, <3>1, <3>3, <3>4, Candidates
  <2>3. QED
    BY <2>1, <2>2 DEF ChoiceInv
<1>5. CASE Prefilter
  <2>1. /\ choice_pc = "validate" /\ Len(found) = N /\ found' = found
        /\ eligible' = IF With("PASS") # <<>> THEN With("PASS") ELSE With("UNKNOWN")
        /\ choice_pc' \in {"done", "ask"}
        /\ selected' = selected /\ certified' = certified /\ raised' = raised /\ moment' = moment
    BY <1>5 DEF Prefilter
  <2>2. With("PASS")' = With("PASS") /\ With("UNKNOWN")' = With("UNKNOWN")
    BY <2>1 DEF With
  <2>3. EligibleInv'
    BY <2>1, <2>2 DEF EligibleInv
  <2>4. QED
    BY <2>1, <2>3 DEF ChoiceInv
<1>6. CASE Revalidate
  <2>1. /\ choice_pc = "revalidate" /\ choice_pc' = "done" /\ moment' = moment /\ found' = found
        /\ eligible' = eligible /\ selected' = selected /\ scores' = scores /\ raised' = raised
        /\ soft' = soft /\ last' = moment
        /\ certified' = (Status[moment][selected] = "PASS")
    BY <1>6 DEF Revalidate
  <2>2. (EligibleInv' <=> EligibleInv) /\ (SelectionInv' <=> SelectionInv)
    BY <1>1, <1>10, <2>1
  <2>3. ~ raised
    BY <2>1 DEF ChoiceInv
  <2>4. certified' => ~ raised' /\ Status[last'][selected'] = "PASS"
    BY <2>1, <2>3
  <2>5. QED
    BY <2>1, <2>2, <2>4 DEF ChoiceInv
<1>7. ASSUME NEW known \in BOOLEAN, Ask(known) PROVE ChoiceInv'
  BY <1>1, <1>10, <1>7 DEF Ask, GiveUp, ChoiceInv
<1>8. ASSUME NEW i \in 0..(N + 1), NEW n \in 0..N, NEW ss \in [1..n -> Scores], Answer(i, ss)
      PROVE  ChoiceInv'
  <2>1. /\ choice_pc = "answer" /\ found' = found /\ eligible' = eligible /\ certified' = certified
        /\ moment' = moment /\ soft' = [index |-> i, scores |-> ss]
    BY <1>8 DEF Answer
  <2>2. CASE i \in DOMAIN eligible /\ Len(ss) \in {0, Len(eligible)}
    <3>1. /\ choice_pc' = "revalidate" /\ selected' = eligible[i] /\ raised' = raised
          /\ scores' = [c \in 1..N |-> IF \E j \in DOMAIN ss : eligible[j] = c
                                       THEN ss[CHOOSE j \in DOMAIN ss : eligible[j] = c] ELSE Unset]
      BY <1>8, <2>2 DEF Answer
    <3>2. EligibleInv /\ EligibleInv'
      BY <1>1, <2>1 DEF ChoiceInv
    <3>3. ss \in Seq(Scores)
      BY Candidates
    <3>4. soft'.index = i /\ soft'.scores = ss
      BY <2>1
    <3>5. SelectionInv'
      BY <2>1, <2>2, <3>1, <3>3, <3>4 DEF SelectionInv
    <3>6. QED
      BY <2>1, <3>1, <3>2, <3>5 DEF ChoiceInv
  <2>3. CASE ~ (i \in DOMAIN eligible /\ Len(ss) \in {0, Len(eligible)})
    <3>1. choice_pc' = "done" /\ raised' = TRUE /\ selected' = selected
      BY <1>8, <2>3 DEF Answer, GiveUp
    <3>2. QED
      BY <2>1, <3>1 DEF ChoiceInv
  <2>4. QED
    BY <2>2, <2>3
<1>9. QED
  BY <1>2, <1>3, <1>4, <1>5, <1>6, <1>7, <1>8 DEF ChoiceNext

\* A selection reported as certified passed at the last validation; it was not beaten
\* by a better status, and has the score the model gave to its own text, for any
\* candidates, any registry and any answer (self_verification.py:586).
THEOREM SelectionIsCertified == ChoiceSpec => []CertifiedSelection
<1>1. ChoiceInit => ChoiceInv
  <2>1. First \in Moments /\ N \in Nat
    BY StatusAssumption, Candidates DEF First
  <2>2. QED
    BY <2>1 DEF ChoiceInit, ChoiceInv
<1>2. ChoiceInv => CertifiedSelection
  <2> SUFFICES ASSUME ChoiceInv, selected # Unset
               PROVE  /\ found[selected] # "FAIL"
                      /\ found[selected] = "UNKNOWN" => "PASS" \notin ToSet(found)
                      /\ eligible[soft.index] = selected
                      /\ \A c \in 1..N : scores[c] # Unset => found[c] = found[selected]
                      /\ soft.scores # <<>> =>
                            \A c \in 1..N : found[c] = found[selected] =>
                                scores[c] = soft.scores[Cardinality({d \in 1..c : found[d] = found[c]})]
    BY DEF ChoiceInv, CertifiedSelection
  <2> DEFINE s == found[selected]
             ss == soft.scores
  <2>1. /\ EligibleInv /\ soft.index \in DOMAIN eligible /\ selected = eligible[soft.index]
        /\ ss \in Seq(Scores) /\ Len(ss) \in {0, Len(eligible)}
        /\ scores = [c \in 1..N |-> IF \E j \in DOMAIN ss : eligible[j] = c
                                    THEN ss[CHOOSE j \in DOMAIN ss : eligible[j] = c] ELSE Unset]
    BY DEF ChoiceInv, SelectionInv
  <2> HIDE DEF ss
  <2>2. eligible = With(s) /\ s \in {"PASS", "UNKNOWN"} /\ (s = "UNKNOWN" => With("PASS") = <<>>)
    BY <2>1, WithProperties DEF EligibleInv
  <2> HIDE DEF s
  <2>3. ASSUME With("PASS") = <<>> PROVE "PASS" \notin ToSet(found)
    <3> SUFFICES ASSUME "PASS" \in ToSet(found) PROVE FALSE
      OBVIOUS
    <3>1. PICK c \in DOMAIN found : found[c] = "PASS"
      BY DEF ToSet
    <3>2. c \in 1..N
      BY <2>1 DEF ChoiceInv, EligibleInv
    <3>3. \E k : k \in DOMAIN With("PASS")
      BY <3>1, <3>2, WithProperties
    <3>4. DOMAIN With("PASS") = {}
      BY <2>3
    <3>5. QED
      BY <3>3, <3>4
  <2>4. ASSUME NEW c \in 1..N, scores[c] # Unset PROVE found[c] = s
    <3>1. PICK j \in DOMAIN ss : eligible[j] = c
      BY <2>1, <2>4
    <3>2. j \in DOMAIN eligible
      BY <2>1, <2>2, <3>1, WithProperties
    <3>3. QED
      BY <2>2, <3>1, <3>2, WithProperties
  <2>5. ASSUME NEW c \in 1..N, found[c] = s, ss # <<>>
        PROVE  scores[c] = ss[Cardinality({d \in 1..c : found[d] = found[c]})]
    <3> DEFINE k == Cardinality({d \in 1..c : found[d] = s})
    <3>1. k \in DOMAIN eligible /\ eligible[k] = c
      BY <2>2, <2>5, WithProperties
    <3> HIDE DEF k
    <3>2. DOMAIN ss = DOMAIN eligible
      BY <2>1, <2>2, <2>5, WithProperties
    <3>3. (CHOOSE j \in DOMAIN ss : eligible[j] = c) = k
      BY <2>2, <3>1, <3>2, WithProperties
    <3>4. scores[c] = ss[k]
      BY <2>1, <3>1, <3>2, <3>3
    <3>5. QED
      BY <2>5, <3>4 DEF k
  <2>6. QED
    BY <2>1, <2>2, <2>3, <2>4, <2>5 DEF s, ss
<1>3. QED
  BY <1>1, <1>2, ChoiceKept, PTL DEF ChoiceSpec

(***************************************************************************)
(* The edit journal.                                                       *)
(***************************************************************************)

Content == Contents \cup {NoFile}
EditVars == [path : Paths, before : Content, after : Contents]
RollVars == [undo : Seq(Entry), left : Seq(Entry)]
Editing(c) == edit_pc[c] \in {"write", "append"}

\* The values of the variables; a journal without a last newline has a last line.
JournalValues ==
  /\ files \in [Paths -> Content]
  /\ lines \in Seq(Seq(Entry)) /\ ended \in BOOLEAN /\ (~ended => lines # <<>>)
  /\ edit_pc \in [Callers -> {"idle", "write", "append", "revert", "rewrite"}]
  /\ mem \in [Callers -> EditVars \cup RollVars \cup {NoFile}]
  /\ \A c \in Callers : /\ Editing(c) => mem[c] \in EditVars
                        /\ Rolling(c) => mem[c] \in RollVars
                        /\ edit_pc[c] = "rewrite" => mem[c].undo = <<>>
  /\ lost \subseteq Paths

\* Line i can be parsed and is an entry of p.
EntryOfPath(i, p) == Len(lines[i]) = 1 /\ lines[i][1].path = p
Journaled(p) == \E i \in DOMAIN lines : EntryOfPath(i, p)

Mentions(es, p) == \E k \in DOMAIN es : es[k].path = p
\* The first entry of p, and the last one, found no file.
StartsClean(es, p) ==
  \A k \in DOMAIN es :
     es[k].path = p /\ (\A j \in DOMAIN es : j < k => es[j].path # p) => es[k].before = NoFile
EndsClean(es, p) ==
  \A k \in DOMAIN es :
     es[k].path = p /\ (\A j \in DOMAIN es : k < j => es[j].path # p) => es[k].before = NoFile
LinesClean(p) ==
  \A i \in DOMAIN lines :
     EntryOfPath(i, p) /\ (\A j \in DOMAIN lines : j < i => ~EntryOfPath(j, p))
     => lines[i][1].before = NoFile

\* The first entry of p found no file; without an entry there is no file, or
\* somebody is about to append the entry of the edit that made it.
KeptInv(p) ==
  /\ LinesClean(p)
  /\ ~Journaled(p) =>
       /\ files[p] = NoFile \/ \E c \in Callers : edit_pc[c] = "append" /\ mem[c].path = p
       /\ \A c \in Callers : Editing(c) /\ mem[c].path = p => mem[c].before = NoFile

\* A rollback of p is alone with p, and when it is through with the entries of
\* p it undoes, p is what the entries it leaves start from.
RollInv(c, p) ==
  Rolling(c) =>
    /\ \A d \in Callers \ {c} : ~Rolling(d) /\ (Editing(d) => mem[d].path # p)
    /\ Mentions(mem[c].undo, p) => Journaled(p)
    /\ StartsClean(mem[c].left, p)
    /\ ~Mentions(mem[c].left, p) =>
         IF Mentions(mem[c].undo, p) THEN EndsClean(mem[c].undo, p) ELSE files[p] = NoFile

\* What makes Recoverable inductive.
JournalInv ==
  /\ JournalValues
  /\ \A p \in Paths \ lost : KeptInv(p) /\ \A c \in Callers : RollInv(c, p)

\* Whoever parses the journal gets the entries of its lines, in their order.
LEMMA ParsedEntries ==
  ASSUME JournalValues
  PROVE  /\ Parsed \in Seq(Entry)
         /\ \A p : Mentions(Parsed, p) <=> Journaled(p)
         /\ \A p : LinesClean(p) => StartsClean(Parsed, p)
<1> DEFINE P == {i \in DOMAIN lines : Len(lines[i]) = 1}
           at == InOrder(P)
           n == Len(lines)
<1>1. lines \in Seq(Seq(Entry)) /\ n \in Nat /\ DOMAIN lines = 1 .. n /\ P \in SUBSET (1 .. n)
  BY DEF JournalValues
<1>2. /\ at \in Seq(P) /\ Len(at) = Cardinality(P) /\ Cardinality(P) \in Nat
      /\ \A i \in P : Rank(P, i) \in 1 .. Cardinality(P) /\ at[Rank(P, i)] = i
      /\ \A k, l \in 1 .. Cardinality(P) : k < l => at[k] < at[l]
  BY <1>1, InOrderProperties
<1> HIDE DEF at
<1>3. DOMAIN at = 1 .. Cardinality(P) /\ \A k \in 1 .. Cardinality(P) : at[k] \in P
  <2> HIDE DEF P
  <2>1. at \in Seq(P) /\ Len(at) = Cardinality(P)
    BY <1>2
  <2> QED
    BY <2>1, <1>2
<1>4. ASSUME NEW i \in P PROVE lines[i][1] \in Entry
  <2>1. i \in 1 .. Len(lines) /\ Len(lines[i]) = 1
    BY <1>1
  <2>2. lines[i] \in Seq(Entry)
    BY <2>1, <1>1, ElementOfSeq
  <2> QED
    BY <2>1, <2>2, SMTT(30)
<1>5. /\ Parsed = [k \in 1 .. Cardinality(P) |-> lines[at[k]][1]]
      /\ DOMAIN Parsed = 1 .. Cardinality(P)
  BY <1>3 DEF Parsed, at
<1>6. Parsed \in Seq(Entry)
  BY <1>2, <1>3, <1>4, <1>5
<1>7. ASSUME NEW p PROVE Mentions(Parsed, p) <=> Journaled(p)
  <2>1. ASSUME NEW k \in DOMAIN Parsed, Parsed[k].path = p PROVE Journaled(p)
    BY <2>1, <1>3, <1>5 DEF Journaled, EntryOfPath
  <2>2. ASSUME NEW i \in DOMAIN lines, EntryOfPath(i, p) PROVE Mentions(Parsed, p)
    <3>1. i \in P
      BY <2>2 DEF EntryOfPath
    <3>2. Rank(P, i) \in DOMAIN Parsed /\ Parsed[Rank(P, i)].path = p
      BY <2>2, <3>1, <1>2, <1>5 DEF EntryOfPath
    <3> QED
      BY <3>2 DEF Mentions
  <2> QED
    BY <2>1, <2>2 DEF Mentions, Journaled
<1>8. ASSUME NEW p, LinesClean(p) PROVE StartsClean(Parsed, p)
  <2> SUFFICES ASSUME NEW k \in DOMAIN Parsed, Parsed[k].path = p,
                      \A j \in DOMAIN Parsed : j < k => Parsed[j].path # p
               PROVE  Parsed[k].before = NoFile
    BY DEF StartsClean
  <2>1. at[k] \in P /\ Parsed[k] = lines[at[k]][1] /\ k \in 1 .. Cardinality(P)
    BY <1>3, <1>5
  <2>2. ASSUME NEW j \in DOMAIN lines, j < at[k], EntryOfPath(j, p) PROVE FALSE
    <3>1. j \in P
      BY <2>2 DEF EntryOfPath
    <3>2. PICK r \in 1 .. Cardinality(P) : at[r] = j
      BY <3>1, <1>2
    <3>3. Parsed[r].path = p
      BY <2>2, <3>2, <1>5 DEF EntryOfPath
    <3>4. ~(r < k)
      BY <3>3, <1>5
    <3>5. r = k \/ k < r
      BY <3>4, <2>1, <1>2
    <3>6. CASE r = k
      BY <3>6, <3>2, <2>2, <2>1, <1>1
    <3>7. CASE k < r
      <4>1. at[k] < at[r]
        BY <3>7, <2>1, <1>2
      <4> QED
        BY <4>1, <3>2, <2>2, <2>1, <1>1
    <3> QED
      BY <3>5, <3>6, <3>7
  <2>3. EntryOfPath(at[k], p) /\ at[k] \in DOMAIN lines
    BY <2>1 DEF EntryOfPath
  <2> QED
    BY <2>1, <2>2, <2>3, <1>8 DEF LinesClean
<1> QED
  BY <1>6, <1>7, <1>8

\* What a rollback undoes of a list of entries, and what it leaves.
LEMMA CutEntries ==
  ASSUME NEW es \in Seq(Entry), NEW cut \in 0 .. Len(es)
  PROVE  LET left == SubSeq(es, 1, cut)
             undo == Reverse(SubSeq(es, cut + 1, Len(es)))
         IN  /\ left \in Seq(Entry) /\ undo \in Seq(Entry)
             /\ \A p : Mentions(undo, p) => Mentions(es, p)
             /\ \A p : Mentions(es, p) /\ ~Mentions(left, p) => Mentions(undo, p)
             /\ \A p : StartsClean(es, p) => /\ StartsClean(left, p)
                                             /\ ~Mentions(left, p) => EndsClean(undo, p)
<1> DEFINE left == SubSeq(es, 1, cut)
           undo == Reverse(SubSeq(es, cut + 1, Len(es)))
           n == Len(es)
           rest == SubSeq(es, cut + 1, n)
<1>1. n \in Nat /\ cut \in Nat /\ cut <= n /\ DOMAIN es = 1 .. n
  OBVIOUS
<1>2. /\ left \in Seq(Entry) /\ DOMAIN left = 1 .. cut
      /\ \A k \in 1 .. cut : left[k] = es[k]
  BY <1>1
<1>3. /\ rest \in Seq(Entry) /\ Len(rest) = n - cut
      /\ \A k \in 1 .. (n - cut) : rest[k] = es[cut + k]
  <2>1. \A i \in cut + 1 .. n : es[i] \in Entry
    BY <1>1
  <2>2. cut + 1 \in Int /\ n \in Int
    BY <1>1
  <2>3. /\ rest \in Seq(Entry) /\ Len(rest) = IF cut + 1 <= n THEN n - (cut + 1) + 1 ELSE 0
        /\ \A i \in 1 .. n - (cut + 1) + 1 : rest[i] = es[(cut + 1) + i - 1]
    BY <2>1, <2>2, SubSeqProperties
  <2>4. n - (cut + 1) + 1 = n - cut /\ \A k \in 1 .. (n - cut) : (cut + 1) + k - 1 = cut + k
    BY <1>1
  <2>5. Len(rest) = n - cut
    <3>1. CASE cut + 1 <= n
      BY <3>1, <2>3, <2>4
    <3>2. CASE ~(cut + 1 <= n)
      <4>0. n \in Nat /\ cut \in Nat /\ cut <= n
        BY <1>1
      <4>1. n - cut = 0
        <5> HIDE DEF n
        <5> QED
          BY <4>0, <3>2
      <4> QED
        BY <4>1, <3>2, <2>3
    <3> QED
      BY <3>1, <3>2
  <2>6. \A k \in 1 .. (n - cut) : rest[k] = es[(cut + 1) + k - 1]
    BY <2>3, <2>4
  <2> QED
    BY <2>3, <2>4, <2>5, <2>6
<1> HIDE DEF rest
<1>4. undo = [i \in 1 .. (n - cut) |-> rest[((n - cut) - i) + 1]]
  BY <1>3 DEF Reverse, rest, undo
<1> HIDE DEF left, undo
<1>5. DOMAIN undo = 1 .. (n - cut) /\ \A k \in 1 .. (n - cut) : undo[k] = es[(n - k) + 1]
  <2>1. ASSUME NEW k \in 1 .. (n - cut) PROVE undo[k] = es[(n - k) + 1]
    <3>1. ((n - cut) - k) + 1 \in 1 .. (n - cut) /\ cut + (((n - cut) - k) + 1) = (n - k) + 1
      BY <1>1
    <3> QED
      BY <3>1, <1>3, <1>4
  <2> QED
    BY <2>1, <1>4
<1>6. undo \in Seq(Entry)
  <2>1. \A k \in 1 .. (n - cut) : (n - k) + 1 \in 1 .. n
    BY <1>1
  <2>2. ASSUME NEW k \in 1 .. (n - cut) PROVE undo[k] \in Entry
    <3>1. (n - k) + 1 \in DOMAIN es /\ undo[k] = es[(n - k) + 1]
      BY <2>1, <1>1, <1>5
    <3> QED
      BY <3>1
  <2>3. n - cut \in Nat
    BY <1>1
  <2> QED
    BY <2>2, <2>3, <1>4, <1>5
<1>7. ASSUME NEW p, StartsClean(es, p) PROVE StartsClean(left, p)
  BY <1>1, <1>2, <1>7 DEF StartsClean
<1>8. ASSUME NEW p PROVE Mentions(undo, p) => Mentions(es, p)
  <2>1. \A k \in 1 .. (n - cut) : (n - k) + 1 \in 1 .. n
    BY <1>1
  <2> QED
    BY <2>1, <1>1, <1>5 DEF Mentions
<1>9. ASSUME NEW p, ~Mentions(left, p)
      PROVE  (StartsClean(es, p) => EndsClean(undo, p)) /\ (Mentions(es, p) => Mentions(undo, p))
  <2>1. ASSUME NEW k \in 1 .. n, es[k].path = p PROVE cut < k
    <3>1. k <= cut => k \in DOMAIN left /\ left[k].path = p
      BY <2>1, <1>1, <1>2
    <3> QED
      BY <3>1, <1>1, <1>9 DEF Mentions
  <2>2. ASSUME NEW k \in 1 .. n, cut < k PROVE (n - k) + 1 \in 1 .. (n - cut) /\ undo[(n - k) + 1] = es[k]
    <3>1. (n - k) + 1 \in 1 .. (n - cut) /\ (n - ((n - k) + 1)) + 1 = k
      BY <2>2, <1>1
    <3> QED
      BY <3>1, <1>5
  <2>3. Mentions(es, p) => Mentions(undo, p)
    BY <2>1, <2>2, <1>1, <1>5 DEF Mentions
  <2>4. ASSUME StartsClean(es, p),
               NEW k \in DOMAIN undo, undo[k].path = p, \A j \in DOMAIN undo : k < j => undo[j].path # p
        PROVE  undo[k].before = NoFile
    <3> DEFINE m == (n - k) + 1
    <3>1. m \in 1 .. n /\ es[m] = undo[k] /\ k \in 1 .. (n - cut) /\ k \in Nat
      <4>1. k \in 1 .. (n - cut) /\ undo[k] = es[(n - k) + 1]
        BY <1>5
      <4> QED
        BY <4>1, <1>1
    <3>2. ASSUME NEW j \in 1 .. n, j < m, es[j].path = p PROVE FALSE
      <4>1. (n - j) + 1 \in 1 .. (n - cut) /\ undo[(n - j) + 1] = es[j]
        BY <3>2, <2>1, <2>2
      <4>2. k < (n - j) + 1
        BY <3>1, <3>2, <1>1
      <4> QED
        BY <4>1, <4>2, <3>2, <2>4, <1>5
    <3> QED
      BY <3>1, <3>2, <2>4, <1>1 DEF StartsClean
  <2> QED
    BY <2>3, <2>4 DEF EndsClean
<1> QED
  BY <1>2, <1>6, <1>7, <1>8, <1>9 DEF left, undo

\* What is left to undo after the next entry.
LEMMA TailEntries ==
  ASSUME NEW es \in Seq(Entry), es # <<>>, NEW p
  PROVE  /\ Head(es) \in Entry /\ Tail(es) \in Seq(Entry)
         /\ Mentions(es, p) <=> Head(es).path = p \/ Mentions(Tail(es), p)
         /\ EndsClean(es, p) =>
              /\ EndsClean(Tail(es), p)
              /\ Head(es).path = p /\ ~Mentions(Tail(es), p) => Head(es).before = NoFile
<1> DEFINE n == Len(es)
           t == Tail(es)
<1>1. /\ n \in Nat /\ n >= 1 /\ DOMAIN es = 1 .. n /\ Head(es) = es[1] /\ es[1] \in Entry
      /\ t \in Seq(Entry) /\ DOMAIN t = 1 .. (n - 1)
      /\ \A k \in 1 .. (n - 1) : t[k] = es[k + 1]
  OBVIOUS
<1> HIDE DEF t
<1>2. \A k \in 1 .. n : k = 1 \/ (k - 1 \in 1 .. (n - 1) /\ es[k] = t[k - 1])
  BY <1>1
<1>3. \A k \in 1 .. (n - 1) : k + 1 \in 1 .. n
  BY <1>1
<1>4. Mentions(es, p) <=> Head(es).path = p \/ Mentions(t, p)
  <2>1. ASSUME NEW k \in 1 .. n, es[k].path = p PROVE es[1].path = p \/ Mentions(t, p)
    BY <2>1, <1>1, <1>2 DEF Mentions
  <2>2. ASSUME NEW k \in 1 .. (n - 1), t[k].path = p PROVE Mentions(es, p)
    BY <2>2, <1>1, <1>3 DEF Mentions
  <2>3. es[1].path = p => Mentions(es, p)
    BY <1>1 DEF Mentions
  <2> QED
    BY <2>1, <2>2, <2>3, <1>1 DEF Mentions
<1>5. ASSUME EndsClean(es, p) PROVE EndsClean(t, p)
  <2> SUFFICES ASSUME NEW k \in DOMAIN t, t[k].path = p, \A j \in DOMAIN t : k < j => t[j].path # p
               PROVE  t[k].before = NoFile
    BY DEF EndsClean
  <2>1. k + 1 \in 1 .. n /\ es[k + 1] = t[k] /\ k \in Nat
    BY <1>1
  <2>2. ASSUME NEW j \in 1 .. n, k + 1 < j PROVE es[j].path # p
    <3>1. j - 1 \in 1 .. (n - 1) /\ es[j] = t[j - 1] /\ k < j - 1
      BY <2>1, <2>2, <1>1, <1>2
    <3> QED
      BY <3>1, <1>1
  <2> QED
    BY <2>1, <2>2, <1>1, <1>5 DEF EndsClean
<1>6. ASSUME EndsClean(es, p), Head(es).path = p, ~Mentions(t, p) PROVE Head(es).before = NoFile
  <2>1. \A j \in 1 .. n : 1 < j => es[j].path # p
    BY <1>1, <1>2, <1>6 DEF Mentions
  <2> QED
    BY <2>1, <1>1, <1>6 DEF EndsClean
<1> QED
  BY <1>1, <1>4, <1>5, <1>6 DEF t
\* What a step leaves alone of a path keeps what is said of it: its journal
\* lines, its file, and who edits it.
LEMMA KeptAlone ==
  ASSUME NEW p, KeptInv(p), Journaled(p)' <=> Journaled(p), LinesClean(p)', files'[p] = files[p],
         \A c \in Callers : Editing(c)' /\ mem'[c].path = p =>
                               Editing(c) /\ mem[c].path = p /\ mem'[c].before = mem[c].before,
         \A c \in Callers : edit_pc[c] = "append" /\ mem[c].path = p =>
                               edit_pc'[c] = "append" /\ mem'[c].path = p
  PROVE  KeptInv(p)'
BY DEF KeptInv

\* An entry of another path, or one that is joined with another's line, leaves
\* the lines of p as they are.
LEMMA PutAlone ==
  ASSUME JournalValues, NEW c \in Callers, NEW es \in Seq(Entry), Put(c, es),
         NEW p, p \notin lost', Len(es) = 1 => es[1].path # p, es # <<>>
  PROVE  (Journaled(p)' <=> Journaled(p)) /\ (LinesClean(p) => LinesClean(p)')
<1>0. PICK n \in Nat : n = Len(lines)
  BY DEF JournalValues
<1>1. lines \in Seq(Seq(Entry)) /\ n \in Nat /\ DOMAIN lines = 1 .. n /\ Len(lines) = n
  BY <1>0 DEF JournalValues
<1>2. CASE ended
  <2>1. lines' = Append(lines, es)
    BY <1>2 DEF Put
  <2>2. /\ DOMAIN lines' = 1 .. (n + 1) /\ lines'[n + 1] = es
        /\ \A i \in 1 .. n : lines'[i] = lines[i]
    BY <2>1, <1>1, AppendProperties
  <2>3. ~EntryOfPath(n + 1, p)' /\ \A i \in 1 .. n : EntryOfPath(i, p)' <=> EntryOfPath(i, p)
    BY <2>2 DEF EntryOfPath
  <2>4. \A i \in 1 .. (n + 1) : i = n + 1 \/ i \in 1 .. n
    BY <1>1
  <2>5. \A i \in 1 .. n : i \in 1 .. (n + 1)
    BY <1>1
  <2>6. Journaled(p)' <=> Journaled(p)
    BY <2>2, <2>3, <2>4, <2>5, <1>1 DEF Journaled
  <2>7. LinesClean(p) => LinesClean(p)'
    BY <2>2, <2>3, <2>4, <2>5, <1>1 DEF LinesClean
  <2> QED
    BY <2>6, <2>7
<1>3. CASE ~ended
  <2>1. lines # <<>> /\ n >= 1
    BY <1>1, <1>3 DEF JournalValues
  <2>2. lines' = Append(Front(lines), Last(lines) \o es)
        /\ lost' = lost \cup {e.path : e \in ToSet(Last(lines) \o es)}
    BY <1>3 DEF Put
  <2>3. lines[n] \in Seq(Entry) /\ Last(lines) = lines[n]
    BY <1>1, <2>1, ElementOfSeq DEF Last
  <2> DEFINE l == lines[n]
             j == l \o es
  <2>4. /\ j \in Seq(Entry) /\ Len(j) = Len(l) + Len(es) /\ Len(l) \in Nat /\ Len(es) \in Nat
        /\ \A i \in 1 .. Len(l) : j[i] = l[i]
        /\ \A i \in (Len(l) + 1) .. (Len(l) + Len(es)) : j[i] = es[i - Len(l)]
    BY <2>3, ConcatProperties
  <2> HIDE DEF j
  <2>5. \A i \in DOMAIN j : j[i].path # p
    BY <2>2, <2>3 DEF ToSet, j
  <2>6. DOMAIN j = 1 .. Len(j)
    BY <2>4
  <2>7. ~(Len(l) = 1 /\ l[1].path = p)
    <3>1. Len(l) = 1 => 1 \in DOMAIN j /\ j[1] = l[1]
      BY <2>4, <2>6
    <3> QED
      BY <3>1, <2>5
  <2>8. ~(Len(j) = 1 /\ j[1].path = p)
    BY <2>5, <2>6
  <2>9. Front(lines) \in Seq(Seq(Entry)) /\ Len(Front(lines)) = n - 1
        /\ \A i \in 1 .. (n - 1) : Front(lines)[i] = lines[i]
    BY <1>1, <2>1 DEF Front
  <2>10. /\ DOMAIN lines' = 1 .. n /\ lines'[n] = j
         /\ \A i \in 1 .. (n - 1) : lines'[i] = lines[i]
    <3>1. lines' = Append(Front(lines), j)
      BY <2>2, <2>3 DEF j
    <3>2. (n - 1) + 1 = n /\ n - 1 \in Nat
      BY <1>1, <2>1
    <3>3. /\ DOMAIN Append(Front(lines), j) = 1 .. n /\ Append(Front(lines), j)[n] = j
          /\ \A i \in 1 .. (n - 1) : Append(Front(lines), j)[i] = Front(lines)[i]
      <4>1. /\ Len(Append(Front(lines), j)) = (n - 1) + 1 /\ Append(Front(lines), j) \in Seq(Seq(Entry))
            /\ Append(Front(lines), j)[(n - 1) + 1] = j
            /\ \A i \in 1 .. (n - 1) : Append(Front(lines), j)[i] = Front(lines)[i]
        BY <2>9, <2>4, AppendProperties
      <4> QED
        BY <4>1, <3>2
    <3> QED
      BY <3>1, <3>3, <2>9
  <2>11. \A i \in 1 .. n : i = n \/ i \in 1 .. (n - 1)
    BY <1>1, <2>1
  <2>12. \A i \in 1 .. n : EntryOfPath(i, p)' <=> EntryOfPath(i, p)
    BY <2>7, <2>8, <2>10, <2>11 DEF EntryOfPath
  <2>13. \A i \in 1 .. n : EntryOfPath(i, p) => lines'[i] = lines[i]
    BY <2>7, <2>10, <2>11 DEF EntryOfPath
  <2> QED
    BY <2>10, <2>12, <2>13, <1>1 DEF Journaled, LinesClean
<1> QED
  BY <1>2, <1>3 DEF JournalValues
\* Nor does it disturb a rollback.
LEMMA RollAlone ==
  ASSUME NEW c \in Callers, NEW p, RollInv(c, p), Rolling(c)' => Rolling(c) /\ mem'[c] = mem[c],
         \A d \in Callers \ {c} : Rolling(d)' => Rolling(d),
         \A d \in Callers : Editing(d)' /\ mem'[d].path = p => Editing(d) /\ mem[d].path = p,
         Journaled(p) => Journaled(p)', files'[p] = files[p]
  PROVE  RollInv(c, p)'
<1> SUFFICES ASSUME Rolling(c)' PROVE RollInv(c, p)'
  BY DEF RollInv
<1>1. Rolling(c) /\ mem'[c] = mem[c]
  OBVIOUS
<1>2. Mentions(mem[c].undo, p)' <=> Mentions(mem[c].undo, p)
  BY <1>1 DEF Mentions
<1>3. Mentions(mem[c].left, p)' <=> Mentions(mem[c].left, p)
  BY <1>1 DEF Mentions
<1>4. StartsClean(mem[c].left, p) => StartsClean(mem[c].left, p)'
  BY <1>1 DEF StartsClean
<1>5. EndsClean(mem[c].undo, p) => EndsClean(mem[c].undo, p)'
  BY <1>1 DEF EndsClean
<1>6. \A d \in Callers \ {c} : ~Rolling(d)' /\ (Editing(d)' => mem'[d].path # p)
  BY <1>1 DEF RollInv
<1> QED
  BY <1>1, <1>2, <1>3, <1>4, <1>5, <1>6 DEF RollInv

\* The state after an append is one the program can be in.
LEMMA PutValues ==
  ASSUME JournalValues, NEW c \in Callers, edit_pc[c] = "append", NEW es \in Seq(Entry), es # <<>>, Put(c, es)
  PROVE  lines' \in Seq(Seq(Entry)) /\ lines' # <<>> /\ lost \subseteq lost' /\ lost' \subseteq Paths
<1>1. lines \in Seq(Seq(Entry)) /\ mem[c] \in EditVars /\ lost \subseteq Paths
  BY DEF JournalValues, Editing
<1>2. CASE ended
  <2>1. lines' = Append(lines, es) /\ lost' = lost \cup IF Len(es) = 1 THEN {} ELSE {mem[c].path}
    BY <1>2 DEF Put
  <2>2. Append(lines, es) \in Seq(Seq(Entry)) /\ Append(lines, es) # <<>>
    BY <1>1, AppendProperties
  <2> QED
    BY <2>1, <2>2, <1>1 DEF EditVars
<1>3. CASE ~ended
  <2>1. lines # <<>> /\ Len(lines) \in Nat /\ Len(lines) >= 1
    BY <1>1, <1>3 DEF JournalValues
  <2>2. Last(lines) \in Seq(Entry)
    BY <1>1, <2>1, ElementOfSeq DEF Last
  <2>3. Front(lines) \in Seq(Seq(Entry))
    BY <1>1, <2>1 DEF Front
  <2>4. Last(lines) \o es \in Seq(Entry)
    BY <2>2, ConcatProperties
  <2>5. lines' = Append(Front(lines), Last(lines) \o es)
        /\ lost' = lost \cup {e.path : e \in ToSet(Last(lines) \o es)}
    BY <1>3 DEF Put
  <2>6. lines' \in Seq(Seq(Entry)) /\ lines' # <<>>
    BY <2>3, <2>4, <2>5, AppendProperties
  <2>7. ASSUME NEW e \in ToSet(Last(lines) \o es) PROVE e.path \in Paths
    <3>1. e \in Entry
      BY <2>4 DEF ToSet
    <3> QED
      BY <3>1 DEF Entry
  <2> QED
    BY <2>5, <2>6, <2>7, <1>1
<1> QED
  BY <1>2, <1>3 DEF JournalValues

\* An edit reads what was there.
LEMMA BeginEditKept ==
  ASSUME JournalInv, NEW c \in Callers, NEW q \in Paths, NEW x \in Contents, BeginEdit(c, q, x)
  PROVE  JournalInv'
<1>1. /\ edit_pc[c] = "idle" /\ edit_pc' = [edit_pc EXCEPT ![c] = "write"]
      /\ mem' = [mem EXCEPT ![c] = [path |-> q, before |-> files[q], after |-> x]]
      /\ lost' = lost \cup {r \in {q} : \E d \in Callers :
                                Rolling(d) \/ (edit_pc[d] # "idle" /\ mem[d].path = q)}
      /\ UNCHANGED <<files, lines, ended>>
  BY DEF BeginEdit, Goto, Keep
<1>2. JournalValues
  BY DEF JournalInv
<1>3. /\ mem'[c] = [path |-> q, before |-> files[q], after |-> x] /\ mem'[c] \in EditVars
      /\ edit_pc'[c] = "write" /\ Editing(c)' /\ ~Rolling(c)' /\ ~Rolling(c) /\ ~Editing(c)
      /\ \A d \in Callers \ {c} : mem'[d] = mem[d] /\ edit_pc'[d] = edit_pc[d]
      /\ \A d \in Callers \ {c} : (Editing(d)' <=> Editing(d)) /\ (Rolling(d)' <=> Rolling(d))
  BY <1>1, <1>2 DEF JournalValues, EditVars, Editing, Rolling
<1>4. JournalValues'
  BY <1>1, <1>2, <1>3 DEF JournalValues
<1>5. ASSUME NEW p \in Paths \ lost' PROVE KeptInv(p)' /\ \A d \in Callers : RollInv(d, p)'
  <2>1. KeptInv(p) /\ \A d \in Callers : RollInv(d, p)
    BY <1>1 DEF JournalInv
  <2>2. (Journaled(p)' <=> Journaled(p)) /\ LinesClean(p)'
    BY <1>1, <2>1 DEF KeptInv, Journaled, LinesClean, EntryOfPath
  <2>3. CASE p = q
    <3>1. \A d \in Callers : ~Rolling(d) /\ (edit_pc[d] # "idle" => mem[d].path # p)
      BY <1>1, <2>3
    <3>2. ~Journaled(p) => files[p] = NoFile
      BY <2>1, <3>1 DEF KeptInv
    <3>3. KeptInv(p)'
      <4>1. \A d \in Callers : Editing(d)' /\ mem'[d].path = p => d = c
        BY <1>3, <3>1 DEF Editing
      <4> QED
        BY <1>1, <1>3, <2>2, <2>3, <3>2, <4>1 DEF KeptInv
    <3> QED
      BY <3>1, <3>3, <1>3 DEF RollInv
  <2>4. CASE p # q
    <3>1. \A d \in Callers : Editing(d)' /\ mem'[d].path = p =>
             d # c /\ Editing(d) /\ mem[d].path = p /\ mem'[d].before = mem[d].before
      BY <1>3, <2>4
    <3>2. KeptInv(p)'
      BY <1>1, <1>3, <2>1, <2>2, <3>1, KeptAlone
    <3>3. ASSUME NEW d \in Callers PROVE RollInv(d, p)'
      BY <1>1, <1>3, <2>1, <2>2, <3>1, RollAlone
    <3> QED
      BY <3>2, <3>3
  <2> QED
    BY <2>3, <2>4
<1> QED
  BY <1>4, <1>5 DEF JournalInv

\* A rollback begins with the entries it parses; what overlaps it is lost.
LEMMA BeginRollbackKept ==
  ASSUME JournalInv, NEW c \in Callers, NEW n \in Nat, BeginRollback(c, n)
  PROVE  JournalInv'
<1>1. JournalValues
  BY DEF JournalInv
<1>2. /\ Parsed \in Seq(Entry)
      /\ \A p : Mentions(Parsed, p) <=> Journaled(p)
      /\ \A p : LinesClean(p) => StartsClean(Parsed, p)
  BY <1>1, ParsedEntries
<1>3. PICK cut \in 0 .. Len(Parsed) :
         mem' = [mem EXCEPT ![c] = [undo |-> Reverse(SubSeq(Parsed, cut + 1, Len(Parsed))),
                                    left |-> SubSeq(Parsed, 1, cut)]]
  <2> DEFINE m == IF n = 0 \/ n > Len(Parsed) THEN Len(Parsed) ELSE n
  <2>1. mem' = [mem EXCEPT ![c] = [undo |-> Reverse(SubSeq(Parsed, (Len(Parsed) - m) + 1, Len(Parsed))),
                                   left |-> SubSeq(Parsed, 1, Len(Parsed) - m)]]
    BY DEF BeginRollback, Keep
  <2>2. Len(Parsed) - m \in 0 .. Len(Parsed)
    BY <1>2
  <2> QED
    BY <2>1, <2>2
<1>4. /\ edit_pc[c] = "idle" /\ edit_pc' = [edit_pc EXCEPT ![c] = "revert"]
      /\ lost' = IF \E d \in Callers : edit_pc[d] # "idle" THEN Paths ELSE lost
      /\ UNCHANGED <<files, lines, ended>>
  BY DEF BeginRollback, Goto
<1> DEFINE left == SubSeq(Parsed, 1, cut)
           undo == Reverse(SubSeq(Parsed, cut + 1, Len(Parsed)))
<1>5. /\ mem'[c] = [undo |-> undo, left |-> left] /\ edit_pc'[c] = "revert"
      /\ \A d \in Callers \ {c} : mem'[d] = mem[d] /\ edit_pc'[d] = edit_pc[d]
  BY <1>1, <1>3, <1>4 DEF JournalValues
<1>6. /\ left \in Seq(Entry) /\ undo \in Seq(Entry)
      /\ \A p : Mentions(undo, p) => Mentions(Parsed, p)
      /\ \A p : Mentions(Parsed, p) /\ ~Mentions(left, p) => Mentions(undo, p)
      /\ \A p : StartsClean(Parsed, p) => /\ StartsClean(left, p)
                                          /\ ~Mentions(left, p) => EndsClean(undo, p)
  BY <1>2, CutEntries
<1> HIDE DEF left, undo
<1>7. JournalValues'
  <2>1. mem'[c] \in RollVars
    BY <1>5, <1>6 DEF RollVars
  <2> QED
    BY <1>1, <1>3, <1>4, <1>5, <2>1 DEF JournalValues, Editing, Rolling, left, undo
<1>8. ASSUME NEW p \in Paths \ lost' PROVE KeptInv(p)' /\ \A d \in Callers : RollInv(d, p)'
  <2>1. (\A d \in Callers : edit_pc[d] = "idle") /\ p \notin lost
    BY <1>4
  <2>2. KeptInv(p)
    BY <2>1 DEF JournalInv
  <2>3. (Journaled(p)' <=> Journaled(p)) /\ LinesClean(p)'
    BY <1>4, <2>2 DEF KeptInv, Journaled, LinesClean, EntryOfPath
  <2>4. \A d \in Callers : ~Editing(d)' /\ (d # c => ~Rolling(d)')
    BY <1>5, <2>1 DEF Editing, Rolling
  <2>5. KeptInv(p)'
    BY <1>4, <2>1, <2>2, <2>3, <2>4, KeptAlone
  <2>6. /\ StartsClean(left, p) /\ (Mentions(undo, p) => Mentions(Parsed, p))
        /\ ~Mentions(left, p) => EndsClean(undo, p) /\ (Mentions(Parsed, p) => Mentions(undo, p))
    BY <2>2, <1>2, <1>6 DEF KeptInv
  <2>7. ~Journaled(p) => files[p] = NoFile
    BY <2>1, <2>2 DEF KeptInv
  <2>8. mem'[c].left = left /\ mem'[c].undo = undo
    BY <1>5
  <2>9. RollInv(c, p)'
    <3>1. Mentions(mem[c].undo, p)' => Journaled(p)'
      BY <2>3, <2>6, <2>8, <1>2 DEF Mentions
    <3>2. StartsClean(mem[c].left, p)'
      BY <2>6, <2>8 DEF StartsClean
    <3>3. ASSUME ~Mentions(mem[c].left, p)'
          PROVE  IF Mentions(mem[c].undo, p)' THEN EndsClean(mem[c].undo, p)' ELSE files'[p] = NoFile
      <4>1. ~Mentions(left, p) /\ (Mentions(mem[c].undo, p)' <=> Mentions(undo, p))
        BY <3>3, <2>8 DEF Mentions
      <4>2. EndsClean(mem[c].undo, p)'
        BY <4>1, <2>6, <2>8 DEF EndsClean
      <4> QED
        BY <4>1, <4>2, <2>6, <2>7, <1>2, <1>4
    <3> QED
      BY <3>1, <3>2, <3>3, <2>4 DEF RollInv
  <2> QED
    BY <2>4, <2>5, <2>9 DEF RollInv
<1> QED
  BY <1>7, <1>8 DEF JournalInv
\* The file is written; its entry is not yet.
LEMMA WriteFileKept ==
  ASSUME JournalInv, NEW c \in Callers, WriteFile(c)
  PROVE  JournalInv'
<1> DEFINE q == mem[c].path
<1>1. /\ edit_pc[c] = "write" /\ edit_pc' = [edit_pc EXCEPT ![c] = "append"]
      /\ files' = [files EXCEPT ![q] = mem[c].after]
      /\ UNCHANGED <<lines, ended, mem, lost>>
  BY DEF WriteFile, Goto
<1>2. JournalValues
  BY DEF JournalInv
<1>3. /\ mem[c] \in EditVars /\ Editing(c) /\ ~Rolling(c) /\ edit_pc'[c] = "append" /\ q \in Paths
      /\ \A d \in Callers \ {c} : edit_pc'[d] = edit_pc[d]
      /\ \A d \in Callers : (Editing(d)' <=> Editing(d)) /\ (Rolling(d)' <=> Rolling(d))
  BY <1>1, <1>2 DEF JournalValues, EditVars, Editing, Rolling
<1>4. JournalValues'
  <2>1. files' \in [Paths -> Content]
    BY <1>1, <1>2, <1>3 DEF JournalValues, EditVars, Content
  <2> QED
    BY <1>1, <1>2, <1>3, <2>1 DEF JournalValues
<1>5. ASSUME NEW p \in Paths \ lost' PROVE KeptInv(p)' /\ \A d \in Callers : RollInv(d, p)'
  <2>1. KeptInv(p) /\ \A d \in Callers : RollInv(d, p)
    BY <1>1 DEF JournalInv
  <2>2. (Journaled(p)' <=> Journaled(p)) /\ LinesClean(p)'
    BY <1>1, <2>1 DEF KeptInv, Journaled, LinesClean, EntryOfPath
  <2>3. CASE p = q
    <3>1. \A d \in Callers : ~Rolling(d)
      BY <1>3, <2>1, <2>3 DEF RollInv
    <3>2. KeptInv(p)'
      BY <1>1, <1>3, <2>1, <2>2, <2>3 DEF KeptInv
    <3> QED
      BY <3>1, <3>2, <1>3 DEF RollInv
  <2>4. CASE p # q
    <3>1. files'[p] = files[p]
      BY <1>1, <1>2, <2>4 DEF JournalValues
    <3>2. KeptInv(p)'
      BY <1>1, <1>3, <2>1, <2>2, <2>4, <3>1, KeptAlone
    <3>3. ASSUME NEW d \in Callers PROVE RollInv(d, p)'
      BY <1>1, <1>3, <2>1, <2>2, <3>1, RollAlone
    <3> QED
      BY <3>2, <3>3
  <2> QED
    BY <2>3, <2>4
<1> QED
  BY <1>4, <1>5 DEF JournalInv

\* A call that returns or stops leaves no trace but what it wrote.
LEMMA IdleValues ==
  ASSUME JournalValues, NEW c \in Callers, Goto(c, "idle"), Keep(c, NoFile)
  PROVE  /\ edit_pc' \in [Callers -> {"idle", "write", "append", "revert", "rewrite"}]
         /\ mem' \in [Callers -> EditVars \cup RollVars \cup {NoFile}]
         /\ \A d \in Callers : /\ Editing(d)' => mem'[d] \in EditVars
                               /\ Rolling(d)' => mem'[d] \in RollVars
                               /\ edit_pc'[d] = "rewrite" => mem'[d].undo = <<>>
         /\ ~Editing(c)' /\ ~Rolling(c)' /\ edit_pc'[c] = "idle"
         /\ \A d \in Callers \ {c} : mem'[d] = mem[d] /\ edit_pc'[d] = edit_pc[d]
         /\ \A d \in Callers \ {c} : (Editing(d)' <=> Editing(d)) /\ (Rolling(d)' <=> Rolling(d))
<1>1. /\ edit_pc'[c] = "idle"
      /\ \A d \in Callers \ {c} : mem'[d] = mem[d] /\ edit_pc'[d] = edit_pc[d]
  BY DEF JournalValues, Goto, Keep
<1> QED
  BY <1>1 DEF JournalValues, Goto, Keep, Editing, Rolling

\* A call ends and a path that was none of its business keeps its own.
LEMMA IdleAlone ==
  ASSUME JournalValues, NEW c \in Callers, Goto(c, "idle"), Keep(c, NoFile),
         NEW p, KeptInv(p), \A d \in Callers : RollInv(d, p),
         edit_pc[c] = "append" => mem[c].path # p,
         Journaled(p)' <=> Journaled(p), LinesClean(p)', files' = files
  PROVE  KeptInv(p)' /\ \A d \in Callers : RollInv(d, p)'
<1>1. /\ ~Editing(c)' /\ ~Rolling(c)'
      /\ \A d \in Callers \ {c} : mem'[d] = mem[d] /\ edit_pc'[d] = edit_pc[d]
      /\ \A d \in Callers \ {c} : (Editing(d)' <=> Editing(d)) /\ (Rolling(d)' <=> Rolling(d))
  BY IdleValues
<1>2. KeptInv(p)'
  <2>1. \A d \in Callers : edit_pc[d] = "append" /\ mem[d].path = p => edit_pc'[d] = "append" /\ mem'[d].path = p
    BY <1>1
  <2>2. \A d \in Callers : Editing(d)' /\ mem'[d].path = p =>
           Editing(d) /\ mem[d].path = p /\ mem'[d].before = mem[d].before
    BY <1>1
  <2> QED
    BY <2>1, <2>2, KeptAlone
<1>3. ASSUME NEW d \in Callers PROVE RollInv(d, p)'
  BY <1>1, RollAlone
<1> QED
  BY <1>2, <1>3

\* The entry is appended.
LEMMA AppendEntryKept ==
  ASSUME JournalInv, NEW c \in Callers, AppendEntry(c)
  PROVE  JournalInv'
<1> DEFINE es == <<NewEntry(c)>>
           q == mem[c].path
<1>1. /\ edit_pc[c] = "append" /\ Goto(c, "idle") /\ Keep(c, NoFile) /\ Put(c, es)
      /\ ended' = TRUE /\ files' = files
  BY DEF AppendEntry
<1>2. JournalValues
  BY DEF JournalInv
<1>3. mem[c] \in EditVars /\ Editing(c) /\ es \in Seq(Entry) /\ es # <<>> /\ Len(es) = 1
      /\ es[1] = [path |-> q, before |-> mem[c].before]
  <2>1. mem[c] \in EditVars /\ Editing(c)
    BY <1>1, <1>2 DEF JournalValues, Editing
  <2>2. NewEntry(c) \in Entry
    BY <2>1 DEF NewEntry, Entry, EditVars, Content
  <2> QED
    BY <2>1, <2>2 DEF NewEntry
<1>4. lines' \in Seq(Seq(Entry)) /\ lost \subseteq lost' /\ lost' \subseteq Paths
  BY <1>1, <1>2, <1>3, PutValues
<1>5. JournalValues'
  BY <1>1, <1>2, <1>4, IdleValues DEF JournalValues
<1>6. ASSUME NEW p \in Paths \ lost' PROVE KeptInv(p)' /\ \A d \in Callers : RollInv(d, p)'
  <2>1. KeptInv(p) /\ \A d \in Callers : RollInv(d, p)
    BY <1>4 DEF JournalInv
  <2>2. CASE p # q
    <3>1. (Journaled(p)' <=> Journaled(p)) /\ LinesClean(p)'
      <4>1. Len(es) = 1 => es[1].path # p
        BY <1>3, <2>2
      <4> HIDE DEF es
      <4> QED
        BY <4>1, <1>1, <1>2, <1>3, <2>1, PutAlone DEF KeptInv
    <3> QED
      BY <3>1, <1>1, <1>2, <2>1, <2>2, IdleAlone
  <2>3. CASE p = q
    <3>1. ended
      <4> SUFFICES ASSUME ~ended PROVE FALSE
        BY <1>2 DEF JournalValues
      <4>1. lost' = lost \cup {e.path : e \in ToSet(Last(lines) \o es)}
        BY <1>1 DEF Put
      <4>2. lines # <<>> /\ lines \in Seq(Seq(Entry)) /\ Len(lines) \in 1 .. Len(lines)
        BY <1>2 DEF JournalValues
      <4>3. Last(lines) \in Seq(Entry)
        BY <4>2, ElementOfSeq DEF Last
      <4>4. es[1] \in ToSet(Last(lines) \o es)
        <5> DEFINE l == Last(lines)
        <5> HIDE DEF l, es
        <5>1. Len(l) + 1 \in 1 .. Len(l \o es) /\ (l \o es)[Len(l) + 1] = es[1] /\ l \o es \in Seq(Entry)
          <6>1. l \in Seq(Entry)
            BY <4>3 DEF l
          <6> QED
            BY <6>1, <1>3, ConcatProperties
        <5> QED
          BY <5>1 DEF ToSet, l
      <4> QED
        BY <4>1, <4>4, <1>3, <2>3
    <3>2. PICK n \in Nat : n = Len(lines)
      BY <1>2 DEF JournalValues
    <3>3. /\ DOMAIN lines = 1 .. n /\ DOMAIN lines' = 1 .. (n + 1) /\ lines'[n + 1] = es
          /\ \A i \in 1 .. n : lines'[i] = lines[i]
      <4>1. lines' = Append(lines, es) /\ lines \in Seq(Seq(Entry))
        BY <1>1, <1>2, <3>1 DEF Put, JournalValues
      <4> HIDE DEF es
      <4> QED
        BY <4>1, <3>2, <1>3, AppendProperties
    <3>4. EntryOfPath(n + 1, p)' /\ \A i \in 1 .. n : EntryOfPath(i, p)' <=> EntryOfPath(i, p)
      BY <3>3, <1>3, <2>3 DEF EntryOfPath
    <3>5. Journaled(p)'
      <4>1. n + 1 \in 1 .. (n + 1)
        BY <3>2
      <4> QED
        BY <4>1, <3>3, <3>4 DEF Journaled
    <3>6. LinesClean(p)'
      <4> SUFFICES ASSUME NEW i \in 1 .. (n + 1), EntryOfPath(i, p)',
                          \A j \in 1 .. (n + 1) : j < i => ~EntryOfPath(j, p)'
                   PROVE  lines'[i][1].before = NoFile
        BY <3>3 DEF LinesClean
      <4>1. CASE i \in 1 .. n
        <5>1. \A j \in 1 .. n : j \in 1 .. (n + 1)
          BY <3>2
        <5> QED
          BY <4>1, <5>1, <3>3, <3>4, <2>1 DEF KeptInv, LinesClean
      <4>2. CASE i = n + 1
        <5>1. \A j \in 1 .. n : j \in 1 .. (n + 1) /\ j < i
          BY <4>2, <3>2
        <5>2. ~Journaled(p)
          BY <5>1, <3>3, <3>4 DEF Journaled
        <5>3. mem[c].before = NoFile
          BY <5>2, <1>3, <2>1, <2>3 DEF KeptInv
        <5> QED
          BY <5>3, <4>2, <3>3, <1>3
      <4>3. i \in 1 .. n \/ i = n + 1
        BY <3>2
      <4> QED
        BY <4>1, <4>2, <4>3
    <3>7. \A d \in Callers : ~Rolling(d)'
      <4>1. \A d \in Callers : ~Rolling(d)
        BY <1>3, <2>1, <2>3, <1>1 DEF RollInv, Rolling
      <4> QED
        BY <4>1, <1>1, <1>2, IdleValues
    <3> QED
      BY <3>5, <3>6, <3>7 DEF KeptInv, RollInv
  <2> QED
    BY <2>2, <2>3
<1> QED
  BY <1>5, <1>6 DEF JournalInv
\* One entry is undone.
LEMMA RevertOneKept ==
  ASSUME JournalInv, NEW c \in Callers, RevertOne(c)
  PROVE  JournalInv'
<1> DEFINE undo == mem[c].undo
<1>1. JournalValues
  BY DEF JournalInv
<1>2. edit_pc[c] = "revert" /\ Rolling(c) /\ ~Editing(c) /\ mem[c] \in RollVars /\ UNCHANGED <<lines, ended, edits, lost>>
  BY <1>1 DEF RevertOne, JournalValues, Rolling, Editing
<1>3. undo \in Seq(Entry) /\ mem[c].left \in Seq(Entry)
  BY <1>2 DEF RollVars
<1>4. CASE undo = <<>>
  <2>1. edit_pc' = [edit_pc EXCEPT ![c] = "rewrite"] /\ UNCHANGED <<files, mem>>
    BY <1>2, <1>4 DEF RevertOne, Goto
  <2>2. /\ edit_pc'[c] = "rewrite" /\ \A d \in Callers \ {c} : edit_pc'[d] = edit_pc[d]
        /\ \A d \in Callers : (Editing(d)' <=> Editing(d)) /\ (Rolling(d)' <=> Rolling(d))
    BY <1>1, <1>2, <2>1 DEF JournalValues, Editing, Rolling
  <2>3. JournalValues'
    BY <1>1, <1>2, <1>4, <2>1, <2>2 DEF JournalValues
  <2>4. ASSUME NEW p \in Paths \ lost' PROVE KeptInv(p)' /\ \A d \in Callers : RollInv(d, p)'
    <3>1. KeptInv(p) /\ \A d \in Callers : RollInv(d, p)
      BY <1>2 DEF JournalInv
    <3>2. (Journaled(p)' <=> Journaled(p)) /\ LinesClean(p)'
      BY <1>2, <3>1 DEF KeptInv, Journaled, LinesClean, EntryOfPath
    <3>3. KeptInv(p)'
      BY <1>2, <2>1, <2>2, <3>1, <3>2, KeptAlone
    <3>4. ASSUME NEW d \in Callers PROVE RollInv(d, p)'
      BY <2>1, <2>2, <3>1, <3>2, RollAlone
    <3> QED
      BY <3>3, <3>4
  <2> QED
    BY <2>3, <2>4 DEF JournalInv
<1>5. CASE undo # <<>>
  <2> DEFINE e == Head(undo)
  <2>1. /\ edit_pc' = edit_pc /\ files' = [files EXCEPT ![e.path] = e.before]
        /\ mem' = [mem EXCEPT ![c] = [mem[c] EXCEPT !.undo = Tail(@)]]
    BY <1>2, <1>5 DEF RevertOne, Keep
  <2>2. e \in Entry /\ Tail(undo) \in Seq(Entry)
    BY <1>3, <1>5
  <2>3. /\ mem'[c].undo = Tail(undo) /\ mem'[c].left = mem[c].left /\ mem'[c] \in RollVars
        /\ \A d \in Callers \ {c} : mem'[d] = mem[d]
        /\ \A d \in Callers : (Editing(d)' <=> Editing(d)) /\ (Rolling(d)' <=> Rolling(d))
    BY <1>1, <1>2, <1>3, <2>1, <2>2 DEF JournalValues, RollVars, Editing, Rolling
  <2>4. JournalValues'
    <3>1. files' \in [Paths -> Content]
      BY <1>1, <2>1, <2>2 DEF JournalValues, Entry, Content
    <3> QED
      BY <1>1, <1>2, <2>1, <2>3, <3>1 DEF JournalValues
  <2>5. ASSUME NEW p \in Paths \ lost' PROVE KeptInv(p)' /\ \A d \in Callers : RollInv(d, p)'
    <3>1. KeptInv(p) /\ \A d \in Callers : RollInv(d, p)
      BY <1>2 DEF JournalInv
    <3>2. (Journaled(p)' <=> Journaled(p)) /\ LinesClean(p)'
      BY <1>2, <3>1 DEF KeptInv, Journaled, LinesClean, EntryOfPath
    <3>3. /\ Mentions(undo, p) <=> e.path = p \/ Mentions(Tail(undo), p)
          /\ EndsClean(undo, p) =>
               /\ EndsClean(Tail(undo), p)
               /\ e.path = p /\ ~Mentions(Tail(undo), p) => e.before = NoFile
      BY <1>3, <1>5, TailEntries
    <3>4. /\ Mentions(undo, p) => Journaled(p)
          /\ StartsClean(mem[c].left, p)
          /\ ~Mentions(mem[c].left, p) =>
               IF Mentions(undo, p) THEN EndsClean(undo, p) ELSE files[p] = NoFile
          /\ \A d \in Callers \ {c} : ~Rolling(d) /\ (Editing(d) => mem[d].path # p)
      BY <1>2, <3>1 DEF RollInv
    <3>5. e.path # p => files'[p] = files[p]
      BY <1>1, <2>1 DEF JournalValues
    <3>6. e.path = p => files'[p] = e.before
      BY <1>1, <2>1 DEF JournalValues
    <3>7. \A d \in Callers : ~(Editing(d)' /\ mem'[d].path = p)
      BY <1>2, <2>3, <3>4
    <3>8. KeptInv(p)'
      <4>1. ~Journaled(p) => files'[p] = NoFile
        <5>1. ~Journaled(p) => e.path # p
          BY <3>3, <3>4
        <5>2. ~Journaled(p) => files[p] = NoFile
          BY <3>1, <3>4, <1>2 DEF KeptInv, Editing, Rolling
        <5> QED
          BY <5>1, <5>2, <3>5
      <4> QED
        BY <4>1, <3>2, <3>7 DEF KeptInv
    <3>9. RollInv(c, p)'
      <4>1. (Mentions(mem[c].undo, p)' <=> Mentions(Tail(undo), p))
            /\ (Mentions(mem[c].left, p)' <=> Mentions(mem[c].left, p))
        BY <2>3 DEF Mentions
      <4>2. StartsClean(mem[c].left, p)' /\ (EndsClean(Tail(undo), p) => EndsClean(mem[c].undo, p)')
        BY <2>3, <3>4 DEF StartsClean, EndsClean
      <4>3. ASSUME ~Mentions(mem[c].left, p), Mentions(Tail(undo), p) PROVE EndsClean(Tail(undo), p)
        BY <4>3, <3>3, <3>4
      <4>4. ASSUME ~Mentions(mem[c].left, p), ~Mentions(Tail(undo), p) PROVE files'[p] = NoFile
        BY <4>4, <3>3, <3>4, <3>5, <3>6
      <4>5. \A d \in Callers \ {c} : ~Rolling(d)' /\ (Editing(d)' => mem'[d].path # p)
        BY <2>3, <3>4
      <4> QED
        BY <4>1, <4>2, <4>3, <4>4, <4>5, <3>2, <3>3, <3>4 DEF RollInv
    <3>10. ASSUME NEW d \in Callers, d # c PROVE RollInv(d, p)'
      BY <3>10, <2>3, <3>4 DEF RollInv
    <3> QED
      BY <3>8, <3>9, <3>10
  <2> QED
    BY <2>4, <2>5 DEF JournalInv
<1> QED
  BY <1>4, <1>5

\* The journal is rewritten with the entries that are left.
LEMMA RewriteKept ==
  ASSUME JournalInv, NEW c \in Callers, Rewrite(c)
  PROVE  JournalInv'
<1> DEFINE left == mem[c].left
<1>1. JournalValues
  BY DEF JournalInv
<1>2. /\ edit_pc[c] = "rewrite" /\ Goto(c, "idle") /\ Keep(c, NoFile)
      /\ lines' = [i \in DOMAIN left |-> <<left[i]>>] /\ ended' = (left = <<>>)
      /\ UNCHANGED <<files, edits, lost>>
  BY DEF Rewrite
<1>3. Rolling(c) /\ ~Editing(c) /\ left \in Seq(Entry) /\ mem[c].undo = <<>>
  BY <1>1, <1>2 DEF JournalValues, Rolling, Editing, RollVars
<1>4. PICK n \in Nat : n = Len(left)
  BY <1>3
<1>5. /\ DOMAIN left = 1 .. n /\ DOMAIN lines' = 1 .. n
      /\ \A i \in 1 .. n : lines'[i] = <<left[i]>> /\ left[i] \in Entry
  BY <1>2, <1>3, <1>4
<1>6. lines' \in Seq(Seq(Entry)) /\ (left # <<>> => lines' # <<>>)
  <2>1. \A i \in 1 .. n : <<left[i]>> \in Seq(Entry)
    BY <1>5
  <2>2. lines' = [i \in 1 .. n |-> <<left[i]>>]
    BY <1>2, <1>5
  <2> DEFINE T == Seq(Entry)
  <2> HIDE DEF T, left
  <2>3. lines' \in Seq(T)
    BY <2>1, <2>2, <1>4 DEF T
  <2>4. left # <<>> => n # 0
    BY <1>3, <1>4
  <2>5. n # 0 => lines' # <<>>
    BY <1>5
  <2> QED
    BY <2>3, <2>4, <2>5 DEF T
<1>7. JournalValues'
  BY <1>1, <1>2, <1>6, IdleValues DEF JournalValues
<1>8. ASSUME NEW p \in Paths \ lost' PROVE KeptInv(p)' /\ \A d \in Callers : RollInv(d, p)'
  <2>1. KeptInv(p) /\ RollInv(c, p)
    BY <1>2 DEF JournalInv
  <2>2. /\ \A d \in Callers \ {c} : ~Rolling(d) /\ (Editing(d) => mem[d].path # p)
        /\ StartsClean(left, p)
        /\ ~Mentions(left, p) => files[p] = NoFile
    <3>1. ~Mentions(mem[c].undo, p)
      BY <1>3 DEF Mentions
    <3> QED
      BY <3>1, <1>3, <2>1 DEF RollInv
  <2>3. ASSUME NEW i \in 1 .. n PROVE EntryOfPath(i, p)' <=> left[i].path = p
    <3>1. Len(<<left[i]>>) = 1 /\ <<left[i]>>[1] = left[i]
      OBVIOUS
    <3>2. lines'[i] = <<left[i]>>
      BY <1>5
    <3> HIDE DEF left
    <3> QED
      BY <3>1, <3>2 DEF EntryOfPath
  <2>4. Journaled(p)' <=> Mentions(left, p)
    BY <1>5, <2>3 DEF Journaled, Mentions
  <2>5. LinesClean(p)'
    BY <1>5, <2>2, <2>3 DEF LinesClean, StartsClean
  <2>6. \A d \in Callers : ~Rolling(d)' /\ (Editing(d)' => mem'[d].path # p)
    BY <1>1, <1>2, <2>2, IdleValues
  <2> QED
    BY <1>2, <2>2, <2>4, <2>5, <2>6 DEF KeptInv, RollInv
<1> QED
  BY <1>7, <1>8 DEF JournalInv

\* A call stops between two writes.
LEMMA StopKept ==
  ASSUME JournalInv, NEW c \in Callers, Stop(c)
  PROVE  JournalInv'
<1>1. /\ Goto(c, "idle") /\ Keep(c, NoFile)
      /\ lost' = IF edit_pc[c] = "append" THEN lost \cup {mem[c].path} ELSE lost
      /\ UNCHANGED <<files, lines, ended>>
  BY DEF Stop
<1>2. JournalValues
  BY DEF JournalInv
<1>3. lost \subseteq lost' /\ lost' \subseteq Paths
  BY <1>1, <1>2 DEF JournalValues, Editing, EditVars
<1>4. JournalValues'
  BY <1>1, <1>2, <1>3, IdleValues DEF JournalValues
<1>5. ASSUME NEW p \in Paths \ lost' PROVE KeptInv(p)' /\ \A d \in Callers : RollInv(d, p)'
  <2>1. KeptInv(p) /\ \A d \in Callers : RollInv(d, p)
    BY <1>3 DEF JournalInv
  <2>2. (Journaled(p)' <=> Journaled(p)) /\ LinesClean(p)'
    BY <1>1, <2>1 DEF KeptInv, Journaled, LinesClean, EntryOfPath
  <2>3. edit_pc[c] = "append" => mem[c].path # p
    BY <1>1
  <2> QED
    BY <1>1, <1>2, <2>1, <2>2, <2>3, IdleAlone
<1> QED
  BY <1>4, <1>5 DEF JournalInv

\* Or in the middle of one.
LEMMA StopWritingKept ==
  ASSUME JournalInv, NEW c \in Callers, StopWriting(c)
  PROVE  JournalInv'
<1>1. Goto(c, "idle") /\ Keep(c, NoFile) /\ files' = files
  BY DEF StopWriting
<1>2. JournalValues
  BY DEF JournalInv
<1>3. CASE edit_pc[c] = "append" /\ Put(c, <<NewEntry(c), NewEntry(c)>>) /\ ended' = FALSE
  <2> DEFINE es == <<NewEntry(c), NewEntry(c)>>
  <2>1. mem[c] \in EditVars /\ NewEntry(c) \in Entry /\ NewEntry(c).path = mem[c].path
    BY <1>2, <1>3 DEF JournalValues, Editing, NewEntry, Entry, EditVars, Content
  <2>2. es \in Seq(Entry) /\ es # <<>> /\ Len(es) = 2 /\ es[2] = NewEntry(c)
    BY <2>1
  <2> HIDE DEF es
  <2>3. Put(c, es)
    BY <1>3 DEF es
  <2>4. lines' \in Seq(Seq(Entry)) /\ lines' # <<>> /\ lost \subseteq lost' /\ lost' \subseteq Paths
    BY <1>2, <1>3, <2>2, <2>3, PutValues
  <2>5. JournalValues'
    BY <1>1, <1>2, <1>3, <2>4, IdleValues DEF JournalValues
  <2>6. mem[c].path \in lost'
    <3>1. CASE ended
      BY <3>1, <2>2, <2>3 DEF Put
    <3>2. CASE ~ended
      <4>1. lost' = lost \cup {e.path : e \in ToSet(Last(lines) \o es)}
        BY <3>2, <2>3 DEF Put
      <4>2. lines # <<>> /\ lines \in Seq(Seq(Entry)) /\ Len(lines) \in 1 .. Len(lines)
        BY <1>2, <3>2 DEF JournalValues
      <4> DEFINE l == Last(lines)
      <4>3. l \in Seq(Entry)
        BY <4>2, ElementOfSeq DEF Last
      <4> HIDE DEF l
      <4>4. Len(l) + 2 \in 1 .. Len(l \o es) /\ (l \o es)[Len(l) + 2] = es[2] /\ l \o es \in Seq(Entry)
        BY <4>3, <2>2, ConcatProperties
      <4>5. es[2] \in ToSet(Last(lines) \o es)
        BY <4>4 DEF ToSet, l
      <4> QED
        BY <4>1, <4>5, <2>1, <2>2
    <3> QED
      BY <3>1, <3>2, <1>2 DEF JournalValues
  <2>7. ASSUME NEW p \in Paths \ lost' PROVE KeptInv(p)' /\ \A d \in Callers : RollInv(d, p)'
    <3>1. KeptInv(p) /\ \A d \in Callers : RollInv(d, p)
      BY <2>4 DEF JournalInv
    <3>2. (Journaled(p)' <=> Journaled(p)) /\ LinesClean(p)'
      BY <1>2, <2>2, <2>3, <3>1, PutAlone DEF KeptInv
    <3> QED
      BY <1>1, <1>2, <2>6, <3>1, <3>2, IdleAlone
  <2> QED
    BY <2>5, <2>7 DEF JournalInv
<1>4. CASE edit_pc[c] = "rewrite" /\ lines' = <<>> /\ ended' = TRUE /\ lost' = Paths
  <2>1. JournalValues'
    BY <1>1, <1>2, <1>4, IdleValues DEF JournalValues
  <2> QED
    BY <1>4, <2>1 DEF JournalInv
<1> QED
  BY <1>3, <1>4 DEF StopWriting

\* Between calls the entries of a path that is not lost start from no file.
LEMMA UnwoundIsClean ==
  ASSUME JournalInv, \A c \in Callers : edit_pc[c] = "idle", NEW p \in Paths \ lost
  PROVE  Unwound(p) = NoFile
<1>1. /\ Parsed \in Seq(Entry) /\ (Mentions(Parsed, p) <=> Journaled(p))
      /\ LinesClean(p) => StartsClean(Parsed, p)
  BY ParsedEntries DEF JournalInv
<1>2. KeptInv(p)
  BY DEF JournalInv
<1> DEFINE at == {k \in DOMAIN Parsed : Parsed[k].path = p}
<1>3. CASE at = {}
  <2>1. ~Journaled(p)
    BY <1>1, <1>3 DEF Mentions
  <2>2. files[p] = NoFile
    BY <1>2, <2>1 DEF KeptInv
  <2> QED
    BY <1>3, <2>2 DEF Unwound
<1>4. CASE at # {}
  <2>1. at \in SUBSET Nat
    BY <1>1
  <2>2. \E k \in at : \A j \in at : k <= j
    <3> HIDE DEF at
    <3> QED
      BY <1>4, <2>1, LeastNat
  <2>3. PICK k \in at : (\A j \in at : k <= j) /\ Unwound(p) = Parsed[k].before
    BY <1>4, <2>2 DEF Unwound
  <2>4. ASSUME NEW j \in DOMAIN Parsed, j < k PROVE Parsed[j].path # p
    BY <2>3, <2>4, <1>1
  <2> QED
    BY <1>1, <1>2, <2>3, <2>4 DEF KeptInv, StartsClean
<1> QED
  BY <1>3, <1>4

\* Every edit can be taken back: between calls, undoing all that the journal holds
\* brings back the files as they were before the first edit, but for paths an entry
\* is missing of (edit_file, rollback).
THEOREM EditsAreRecoverable == JournalSpec => []Recoverable
<1>1. JournalInit => JournalInv
  <2> SUFFICES ASSUME JournalInit PROVE JournalInv
    OBVIOUS
  <2>1. JournalValues
    BY DEF JournalInit, JournalValues, Content, Editing, Rolling
  <2>2. ASSUME NEW p \in Paths PROVE KeptInv(p) /\ \A c \in Callers : RollInv(c, p)
    BY DEF JournalInit, KeptInv, RollInv, Journaled, LinesClean, Editing, Rolling
  <2> QED
    BY <2>1, <2>2 DEF JournalInv
<1>2. JournalInv /\ [JournalNext]_journalVars => JournalInv'
  <2> SUFFICES ASSUME JournalInv, [JournalNext]_journalVars PROVE JournalInv'
    OBVIOUS
  <2>1. CASE UNCHANGED journalVars
    BY <2>1 DEF journalVars, JournalInv, JournalValues, KeptInv, RollInv, Journaled, LinesClean,
                EntryOfPath, Editing, Rolling, Mentions, StartsClean, EndsClean
  <2>2. ASSUME NEW c \in Callers, NEW p \in Paths, NEW x \in Contents, BeginEdit(c, p, x) PROVE JournalInv'
    BY <2>2, BeginEditKept
  <2>3. ASSUME NEW c \in Callers, NEW n \in Counts, BeginRollback(c, n) PROVE JournalInv'
    BY <2>3, BeginRollbackKept, JournalAssumption
  <2>4. ASSUME NEW c \in Callers, WriteFile(c) PROVE JournalInv'
    BY <2>4, WriteFileKept
  <2>5. ASSUME NEW c \in Callers, AppendEntry(c) PROVE JournalInv'
    BY <2>5, AppendEntryKept
  <2>6. ASSUME NEW c \in Callers, RevertOne(c) PROVE JournalInv'
    BY <2>6, RevertOneKept
  <2>7. ASSUME NEW c \in Callers, Rewrite(c) PROVE JournalInv'
    BY <2>7, RewriteKept
  <2>8. ASSUME NEW c \in Callers, Stop(c) PROVE JournalInv'
    BY <2>8, StopKept
  <2>9. ASSUME NEW c \in Callers, StopWriting(c) PROVE JournalInv'
    BY <2>9, StopWritingKept
  <2> QED
    BY <2>1, <2>2, <2>3, <2>4, <2>5, <2>6, <2>7, <2>8, <2>9 DEF JournalNext
<1>3. JournalInv => Recoverable
  BY UnwoundIsClean DEF Recoverable
<1> QED
  BY <1>1, <1>2, <1>3, PTL DEF JournalSpec
=============================================================================

------------------------- MODULE PlanSessionProofs -------------------------
(***************************************************************************)
(* A planning session never executes what was not validated: proofs of     *)
(* type correctness, AuthorizedIsJudged, CertificateSpentOnce and          *)
(* CommitEarned for every set of plans, worlds, registries and policies    *)
(* and every bound on versions and certificates.                           *)
(***************************************************************************)
EXTENDS PlanSession, SequenceTheorems, TLAPS

\* A version whose content is as submitted and that has a result was judged as
\* submitted: an edit that is not taken back leaves content and hash different.
VersionInv ==
  Edits = "kept" => \A v \in Version :
    (versions[v].ir = versions[v].hash /\ versions[v].status # None)
      => judged[v] = versions[v].hash

\* The selected candidate has passed.
SelectedInv ==
  state = "SELECTED" => candidate \in Version /\ versions[candidate].status = "PASS"

JudgedInv == Edits = "kept" => AuthorizedIsJudged

\* A certificate that is authorized is unspent; one being executed is spent, and
\* a recorded success belongs to it.
SpentInv ==
  /\ spent \subseteq 1 .. cert.id
  /\ state = "AUTHORIZED" => cert.id \notin spent /\ cert.id # 0
  /\ state = "EXECUTING" => cert.id \in spent /\ (success => witness = cert.id)

IInv == TypeOK /\ VersionInv /\ SelectedInv /\ JudgedInv /\ SpentInv

LEMMA InitInv == Init => IInv
<1> SUFFICES ASSUME Init PROVE IInv
    OBVIOUS
<1>1. versions = <<>> /\ Len(versions) = 0 /\ versions \in Seq(VersionRecord)
  BY DEF Init
<1>2. judged = <<>> /\ Len(judged) = 0 /\ judged \in Seq(Plan \cup {None})
  BY DEF Init
<1>3. cert \in Certificate
  BY SessionAssumption DEF Init, NoCert, Certificate
<1>4. TypeOK
  <2>1. 0 \in 0 .. MaxCert /\ 0 <= MaxVersion
    BY SessionAssumption
  <2>2. /\ {candidate, authorized, committed, attestedFor} \subseteq {0} \cup Version
        /\ spent \subseteq 1 .. MaxCert
    BY DEF Init
  <2>3. state \in SessionState
    BY DEF Init, SessionState
  <2> QED
    BY <1>1, <1>2, <1>3, <2>1, <2>2, <2>3 DEF Init, TypeOK
<1>5. VersionInv /\ SelectedInv /\ JudgedInv
  BY <1>1 DEF Init, VersionInv, SelectedInv, JudgedInv, AuthorizedIsJudged, Version
<1>6. SpentInv
  BY DEF Init, SpentInv, NoCert
<1> QED
  BY <1>4, <1>5, <1>6 DEF IInv

\* A step that leaves the versions and the certificate alone keeps everything
\* but what the new state itself asks for.
LEMMA Quiet ==
  ASSUME IInv, UNCHANGED <<versions, candidate, authorized, committed, cert, success,
                           attested, attestedFor, registry, ghosts>>,
         state' \in SessionState,
         state' \in {"SELECTED", "AUTHORIZED", "EXECUTING"} => state' = state
  PROVE  IInv'
<1>1. TypeOK'
  BY DEF IInv, TypeOK, Version, ghosts
<1>2. VersionInv'
  BY DEF IInv, VersionInv, Version, ghosts
<1>3. SelectedInv'
  BY DEF IInv, SelectedInv, Version, ghosts
<1>4. JudgedInv'
  BY DEF IInv, JudgedInv, AuthorizedIsJudged, Version, Current, ghosts
<1>5. SpentInv'
  BY DEF IInv, SpentInv, ghosts
<1> QED
  BY <1>1, <1>2, <1>3, <1>4, <1>5 DEF IInv

LEMMA EditInv == ASSUME IInv, NEW v \in Version, NEW p \in Plan, Edit(v, p) PROVE IInv'
<1> DEFINE edited == [versions[v] EXCEPT !.ir = p]
<1>0. /\ versions \in Seq(VersionRecord) /\ v \in 1 .. Len(versions)
      /\ versions' = [versions EXCEPT ![v] = edited]
      /\ edited.ir = p /\ edited.hash = versions[v].hash
      /\ edited.status = versions[v].status /\ edited.world = versions[v].world
      /\ edited \in VersionRecord /\ (Edits = "kept" => p # versions[v].hash)
  <2>1. versions \in Seq(VersionRecord) /\ v \in 1 .. Len(versions)
    BY DEF IInv, TypeOK, Version
  <2>2. versions[v] \in VersionRecord
    BY <2>1
  <2> QED
    BY <2>1, <2>2 DEF Edit, VersionRecord
<1> HIDE DEF edited
<1>1. /\ Len(versions') = Len(versions)
      /\ versions' \in Seq(VersionRecord)
      /\ Version' = Version
  BY <1>0 DEF Version
<1>2. TypeOK'
  BY <1>1 DEF IInv, TypeOK, Edit, ghosts
<1>3. \A u \in Version : /\ versions'[u].hash = versions[u].hash
                         /\ versions'[u].status = versions[u].status
                         /\ versions'[u].world = versions[u].world
                         /\ u # v => versions'[u] = versions[u]
  BY <1>0 DEF Version
<1>4. Edits = "kept" => versions'[v].ir # versions'[v].hash
  BY <1>0
<1>5. VersionInv'
  BY <1>1, <1>3, <1>4 DEF IInv, VersionInv, Edit, ghosts
<1>6. SelectedInv'
  BY <1>1, <1>3 DEF IInv, SelectedInv, Edit
<1>7. JudgedInv'
  BY <1>1, <1>3 DEF IInv, JudgedInv, AuthorizedIsJudged, Current, Edit, ghosts
<1>8. SpentInv'
  BY DEF IInv, SpentInv, Edit, ghosts
<1> QED
  BY <1>2, <1>5, <1>6, <1>7, <1>8 DEF IInv

LEMMA SubmitInv == ASSUME IInv, NEW p \in Plan, SubmitDraft(p) PROVE IInv'
<1> DEFINE new == [ir |-> p, hash |-> p, status |-> None, world |-> None]
           n == Len(versions)
<1>0. new \in VersionRecord
  BY DEF VersionRecord
<1>1. /\ versions' = Append(versions, new)
      /\ judged' = Append(judged, None)
      /\ n \in Nat /\ n < MaxVersion
      /\ versions \in Seq(VersionRecord) /\ judged \in Seq(Plan \cup {None})
      /\ Len(judged) = n
  BY DEF IInv, TypeOK, SubmitDraft
<1> HIDE DEF new
<1>2. /\ Len(versions') = n + 1 /\ versions' \in Seq(VersionRecord)
      /\ versions'[n + 1] = new
      /\ \A u \in 1 .. n : versions'[u] = versions[u]
  BY <1>0, <1>1, AppendProperties
<1>3. /\ Len(judged') = n + 1 /\ judged' \in Seq(Plan \cup {None})
      /\ judged'[n + 1] = None
      /\ \A u \in 1 .. n : judged'[u] = judged[u]
  BY <1>1
<1>4. Version = 1 .. n /\ Version' = 1 .. n + 1
  BY <1>2 DEF Version
<1>5. state' \in SessionState \ {"SELECTED", "AUTHORIZED", "EXECUTING"}
  BY DEF SubmitDraft, Terminal, SessionState
<1>6. TypeOK'
  <2>1. n + 1 <= MaxVersion
    BY <1>1, SessionAssumption
  <2>2. {candidate', authorized', committed', attestedFor'} \subseteq {0} \cup (1 .. n + 1)
    BY <1>1, <1>4 DEF IInv, TypeOK, SubmitDraft
  <2> QED
    BY <1>2, <1>3, <1>4, <1>5, <2>1, <2>2 DEF IInv, TypeOK, SubmitDraft
<1>7. VersionInv'
  <2> SUFFICES ASSUME Edits = "kept", NEW u \in 1 .. n + 1,
                      versions'[u].ir = versions'[u].hash, versions'[u].status # None
               PROVE  judged'[u] = versions'[u].hash
    BY <1>4 DEF VersionInv
  <2>1. u # n + 1
    BY <1>2 DEF new
  <2>2. u \in 1 .. n
    BY <1>1, <2>1
  <2> QED
    BY <1>2, <1>3, <1>4, <2>2 DEF IInv, VersionInv
<1>8. SelectedInv' /\ JudgedInv'
  BY <1>5 DEF SelectedInv, JudgedInv, AuthorizedIsJudged
<1>9. SpentInv'
  BY <1>5 DEF IInv, SpentInv, SubmitDraft
<1> QED
  BY <1>6, <1>7, <1>8, <1>9 DEF IInv

LEMMA ValidateInv ==
  ASSUME IInv, NEW v \in Version, NEW w \in World, ValidateCandidate(v, w) PROVE IInv'
<1> DEFINE s == Verdict[versions[v].ir, w, registry]
<1>1. versions[v] \in VersionRecord
  BY DEF IInv, TypeOK, Version
<1>2. s \in Status
  <2>1. versions[v].ir \in Plan /\ registry \in Registry
    BY <1>1 DEF IInv, TypeOK, VersionRecord
  <2> QED
    BY <2>1, SessionAssumption
<1> HIDE DEF s
<1> DEFINE r == [ir |-> versions[v].ir, hash |-> versions[v].hash, status |-> s, world |-> w]
<1>r. /\ r \in VersionRecord
      /\ r.ir = versions[v].ir /\ r.hash = versions[v].hash
  BY <1>1, <1>2 DEF VersionRecord
<1>3. /\ versions' = [versions EXCEPT ![v] = r]
      /\ judged' = [judged EXCEPT ![v] = versions[v].ir]
      /\ versions \in Seq(VersionRecord) /\ judged \in Seq(Plan \cup {None})
      /\ Len(judged) = Len(versions) /\ v \in 1 .. Len(versions)
  BY DEF IInv, TypeOK, ValidateCandidate, Version, s
<1> HIDE DEF r
<1>4. /\ versions' \in Seq(VersionRecord) /\ Len(versions') = Len(versions)
      /\ \A u \in 1 .. Len(versions) : /\ versions'[u].ir = versions[u].ir
                                       /\ versions'[u].hash = versions[u].hash
                                       /\ u # v => versions'[u] = versions[u]
  BY <1>r, <1>3
<1>5. /\ judged' \in Seq(Plan \cup {None}) /\ Len(judged') = Len(judged)
      /\ judged'[v] = versions[v].ir
      /\ \A u \in 1 .. Len(versions) : u # v => judged'[u] = judged[u]
  BY <1>1, <1>3 DEF VersionRecord
<1>6. Version' = Version /\ Version = 1 .. Len(versions)
  BY <1>4 DEF Version
<1>7. TypeOK'
  BY <1>3, <1>4, <1>5, <1>6 DEF IInv, TypeOK, ValidateCandidate, SessionState
<1>8. VersionInv'
  BY <1>4, <1>5, <1>6 DEF IInv, VersionInv
<1>9. SelectedInv' /\ JudgedInv'
  BY DEF SelectedInv, JudgedInv, AuthorizedIsJudged, ValidateCandidate
<1>10. SpentInv'
  BY DEF IInv, SpentInv, ValidateCandidate
<1> QED
  BY <1>7, <1>8, <1>9, <1>10 DEF IInv

LEMMA SelectInv == ASSUME IInv, NEW v \in Version, SelectVersion(v) PROVE IInv'
<1>1. TypeOK'
  BY DEF IInv, TypeOK, SelectVersion, Version, SessionState, ghosts
<1>2. VersionInv'
  BY DEF IInv, VersionInv, SelectVersion, Version, ghosts
<1>3. SelectedInv'
  BY DEF SelectedInv, SelectVersion, Version
<1>4. JudgedInv' /\ SpentInv'
  BY DEF IInv, JudgedInv, AuthorizedIsJudged, SpentInv, SelectVersion, ghosts
<1> QED
  BY <1>1, <1>2, <1>3, <1>4 DEF IInv

LEMMA AuthorizeInv == ASSUME IInv, NEW pol \in Policy, AuthorizeSelected(pol) PROVE IInv'
<1> DEFINE v == versions[candidate]
<1>1. candidate \in Version /\ v.status = "PASS" /\ v \in VersionRecord
  BY DEF IInv, TypeOK, SelectedInv, AuthorizeSelected, Version
<1>2. (Edits = "kept" => judged[candidate] = v.hash) /\ v.ir = v.hash
  BY <1>1, SessionAssumption DEF IInv, VersionInv, AuthorizeSelected, Status
<1>3. /\ cert'.id = cert.id + 1 /\ cert'.version = candidate /\ cert'.plan = v.ir
      /\ cert'.world = v.world
      /\ cert.id \in 0 .. MaxCert /\ cert.id + 1 \in 1 .. MaxCert
  BY SessionAssumption DEF IInv, TypeOK, Certificate, AuthorizeSelected
<1>4. candidate \in 0 .. MaxVersion
  BY <1>1, SessionAssumption DEF IInv, TypeOK, Version
<1>5. cert' \in Certificate
  BY <1>1, <1>3, <1>4 DEF IInv, TypeOK, AuthorizeSelected, Certificate, VersionRecord
<1>6. TypeOK'
  BY <1>1, <1>5 DEF IInv, TypeOK, AuthorizeSelected, SessionState, Version, ghosts
<1>7. VersionInv'
  BY DEF IInv, VersionInv, AuthorizeSelected, Version, ghosts
<1>8. JudgedInv'
  BY <1>1, <1>2, <1>3 DEF JudgedInv, AuthorizedIsJudged, AuthorizeSelected, Version, Current, ghosts
<1>9. SelectedInv'
  BY DEF SelectedInv, AuthorizeSelected
<1>10. SpentInv'
  BY <1>3 DEF IInv, SpentInv, AuthorizeSelected, ghosts
<1> QED
  BY <1>6, <1>7, <1>8, <1>9, <1>10 DEF IInv

LEMMA StartInv ==
  ASSUME IInv, NEW pol \in Policy, NEW w \in World \cup {None}, StartExecution(pol, w)
  PROVE  IInv'
<1>1. cert.id \in 1 .. MaxCert
  BY SessionAssumption DEF IInv, TypeOK, SpentInv, StartExecution, Certificate
<1>2. TypeOK'
  BY <1>1 DEF IInv, TypeOK, StartExecution, SessionState, Version
<1>3. VersionInv' /\ SelectedInv'
  BY DEF IInv, VersionInv, SelectedInv, StartExecution, Version
<1>4. JudgedInv'
  BY DEF IInv, JudgedInv, AuthorizedIsJudged, StartExecution, Version, Current
<1>5. SpentInv'
  <2>1. cert.id \in 1 .. cert.id
    BY <1>1, SessionAssumption
  <2>2. /\ cert' = cert /\ spent' = spent \cup {cert.id}
        /\ state' = "EXECUTING" /\ success' = FALSE
    BY DEF StartExecution
  <2> QED
    BY <2>1, <2>2 DEF IInv, SpentInv
<1> QED
  BY <1>2, <1>3, <1>4, <1>5 DEF IInv

LEMMA RecordInv ==
  ASSUME IInv, NEW ok \in BOOLEAN, NEW w \in World, RecordExecutionResult(ok, w) PROVE IInv'
<1>1. cert.id \in 0 .. MaxCert
  BY DEF IInv, TypeOK, Certificate
<1>2. TypeOK'
  BY <1>1 DEF IInv, TypeOK, RecordExecutionResult, Version
<1>3. VersionInv' /\ SelectedInv'
  BY DEF IInv, VersionInv, SelectedInv, RecordExecutionResult, Version
<1>4. JudgedInv'
  BY DEF IInv, JudgedInv, AuthorizedIsJudged, RecordExecutionResult, Version, Current
<1>5. SpentInv'
  BY DEF IInv, SpentInv, RecordExecutionResult
<1> QED
  BY <1>2, <1>3, <1>4, <1>5 DEF IInv

LEMMA CommitInv == ASSUME IInv, NEW w \in World, CommitExecution(w) PROVE IInv'
<1>1. TypeOK'
  BY DEF IInv, TypeOK, CommitExecution, Version, SessionState, ghosts
<1>2. VersionInv' /\ SelectedInv'
  BY DEF IInv, VersionInv, SelectedInv, CommitExecution, Version, ghosts
<1>3. JudgedInv' /\ SpentInv'
  BY DEF IInv, JudgedInv, AuthorizedIsJudged, SpentInv, CommitExecution, ghosts
<1> QED
  BY <1>1, <1>2, <1>3 DEF IInv

LEMMA EnvironmentInv ==
  ASSUME IInv, Expire \/ \E r \in Registry : ChangeRegistry(r) PROVE IInv'
<1>1. /\ cert'.id = cert.id /\ cert'.version = cert.version
      /\ cert'.plan = cert.plan /\ cert'.world = cert.world
      /\ cert' \in Certificate
      /\ UNCHANGED <<state, versions, candidate, authorized, committed, success,
                     attested, attestedFor, ghosts>>
      /\ registry' \in Registry
  <2>1. CASE Expire
    BY <2>1 DEF IInv, TypeOK, Expire, Certificate
  <2>2. CASE \E r \in Registry : ChangeRegistry(r)
    BY <2>2 DEF IInv, TypeOK, ChangeRegistry, code
  <2> QED
    BY <2>1, <2>2
<1>2. TypeOK'
  BY <1>1 DEF IInv, TypeOK, Version, ghosts
<1>3. VersionInv' /\ SelectedInv'
  BY <1>1 DEF IInv, VersionInv, SelectedInv, Version, ghosts
<1>4. JudgedInv'
  BY <1>1 DEF IInv, JudgedInv, AuthorizedIsJudged, Version, Current, ghosts
<1>5. SpentInv'
  BY <1>1 DEF IInv, SpentInv, ghosts
<1> QED
  BY <1>2, <1>3, <1>4, <1>5 DEF IInv

LEMMA NextInv == IInv /\ [Next]_vars => IInv'
<1> SUFFICES ASSUME IInv, [Next]_vars PROVE IInv'
    OBVIOUS
<1>1. ASSUME NEW v \in Version, NEW p \in Plan, Edit(v, p) PROVE IInv'
  BY <1>1, EditInv
<1>2. CASE Expire \/ \E r \in Registry : ChangeRegistry(r)
  BY <1>2, EnvironmentInv
<1>3. ASSUME NEW p \in Plan, SubmitDraft(p) PROVE IInv'
  BY <1>3, SubmitInv
<1>4. CASE Reopen
  BY <1>4, Quiet DEF Reopen, SessionState
<1>5. ASSUME NEW v \in Version, NEW w \in World, ValidateCandidate(v, w) PROVE IInv'
  BY <1>5, ValidateInv
<1>6. CASE ValidatorRaises
  BY <1>6, Quiet DEF ValidatorRaises, SessionState
<1>7. ASSUME NEW v \in Version, SelectVersion(v) PROVE IInv'
  BY <1>7, SelectInv
<1>8. ASSUME NEW pol \in Policy, AuthorizeSelected(pol) PROVE IInv'
  BY <1>8, AuthorizeInv
<1>9. ASSUME NEW pol \in Policy, NEW w \in World \cup {None}, StartExecution(pol, w) PROVE IInv'
  BY <1>9, StartInv
<1>10. ASSUME NEW ok \in BOOLEAN, NEW w \in World, RecordExecutionResult(ok, w) PROVE IInv'
  BY <1>10, RecordInv
<1>11. ASSUME NEW w \in World, CommitExecution(w) PROVE IInv'
  BY <1>11, CommitInv
<1>12. ASSUME NEW s \in SessionState, Settle(s) PROVE IInv'
  BY <1>12, Quiet DEF Settle
<1>13. CASE UNCHANGED vars
  BY <1>13, Quiet DEF vars, code, IInv, TypeOK
<1> QED
  BY <1>1, <1>2, <1>3, <1>4, <1>5, <1>6, <1>7, <1>8, <1>9, <1>10, <1>11, <1>12, <1>13
  DEF Next

LEMMA Inductive == Spec => []IInv
  BY InitInv, NextInv, PTL DEF Spec

\* The session's fields keep their types (PlanningSession).
THEOREM SessionTypeCorrect == Spec => []TypeOK
<1>1. IInv => TypeOK
  BY DEF IInv
<1> QED
  BY <1>1, Inductive, PTL

\* What is authorized or executing is a submitted plan that the validator passed
\* in the certificate's world, unless edits are taken
\* back (authorize_selected, start_execution).
THEOREM AuthorizedWasJudged == ASSUME Edits = "kept" PROVE Spec => []AuthorizedIsJudged
<1>1. IInv => AuthorizedIsJudged
  BY DEF IInv, JudgedInv
<1> QED
  BY <1>1, Inductive, PTL

\* Only StartExecution leads from AUTHORIZED to EXECUTING.
LEMMA StartOnly ==
  ASSUME IInv, [Next]_vars, state = "AUTHORIZED", state' = "EXECUTING"
  PROVE  cert.id \notin spent
  BY DEF IInv, SpentInv

\* A certificate starts one execution at most (start_execution).
THEOREM StartsOnce == Spec => CertificateSpentOnce
<1>1. IInv /\ [Next]_vars => [SpentOnce]_vars
  BY StartOnly DEF SpentOnce
<1> QED
  BY <1>1, Inductive, PTL DEF Spec, CertificateSpentOnce

\* A step into COMMITTED is a CommitExecution.
LEMMA CommitOnly ==
  ASSUME IInv, [Next]_vars, state # "COMMITTED", state' = "COMMITTED"
  PROVE  \E w \in World : CommitExecution(w)
  BY DEF Next, vars, code, ghosts, Edit, Expire, ChangeRegistry, SubmitDraft, Terminal,
         Reopen, ValidateCandidate, ValidatorRaises, SelectVersion, AuthorizeSelected,
         StartExecution, RecordExecutionResult, Settle

\* A commit rests on a success recorded under its own certificate, of the plan
\* that was judged (commit_execution).
THEOREM CommitsAreEarned == Spec => CommitEarned
<1>1. IInv /\ [Next]_vars => [Earned]_vars
  <2> SUFFICES ASSUME IInv, [Next]_vars, state # "COMMITTED", state' = "COMMITTED"
               PROVE  /\ cert.id \in spent
                      /\ witness = cert.id
                      /\ Current.ir = cert.plan
                      /\ <<cert.plan, attested>> \in Meets
    BY DEF Earned
  <2>1. PICK w \in World : CommitExecution(w)
    BY CommitOnly
  <2> QED
    BY <2>1 DEF IInv, SpentInv, CommitExecution, Current
<1> QED
  BY <1>1, Inductive, PTL DEF Spec, CommitEarned

=============================================================================

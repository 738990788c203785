---------------------------- MODULE PlanSession ----------------------------
(***************************************************************************)
(* A PlanningSession from draft to commit: versions of a plan are          *)
(* submitted, validated against a snapshot of the world, selected,         *)
(* authorized by a signed certificate, executed once, and resubmitted or   *)
(* validated again after whatever the execution came to.                   *)
(*                                                                         *)
(* A hash is the value hashed: plan contents, worlds, registries and       *)
(* policies are compared as values.  The transactional manager is here     *)
(* only as the order in which it moves the session (module Transaction).   *)
(* best_verified_version and best_unknown_version are left out: nothing    *)
(* reads them.                                                             *)
(***************************************************************************)
EXTENDS Integers, Sequences, SessionStates

CONSTANTS
  Plan,        \* contents of a plan: what compute_hash tells apart
  World,       \* normalized snapshots: what compute_world_state_hash tells apart
  Registry,    \* contents of the capability registry
  Policy,      \* policy hashes
  Perishable,  \* worlds with a fact that carries a TTL
  Verdict,     \* [Plan \X World \X Registry -> Status], CausalValidator
  Fits,        \* pairs of a plan and a registry that accepts all its actions
  Meets,       \* pairs of a plan and a world that meets its mandatory criteria
  Edits,       \* whether an edit of a submitted plan is "kept" or may be "undone"
  MaxVersion,  \* bound on submitted versions
  MaxCert,     \* bound on issued certificates
  None

Status == {"PASS", "FAIL", "UNKNOWN", "CONFLICT"}

ASSUME SessionAssumption ==
  /\ Perishable \subseteq World
  /\ Verdict \in [Plan \X World \X Registry -> Status]
  /\ Fits \subseteq Plan \X Registry
  /\ Meets \subseteq Plan \X World
  /\ Edits \in {"kept", "undone"}
  /\ MaxVersion \in Nat /\ MaxCert \in Nat
  /\ None \notin Plan \cup World \cup Status

VARIABLES
  state,      \* current_state
  versions,   \* sequence of PlanVersion
  candidate,  \* best_candidate_version, 0 when None
  authorized, \* authorized_version
  committed,  \* committed_version
  cert,       \* authorization_certificate; id 0 before the first
  success,    \* last_execution_success
  attested,   \* last_execution_world_state_hash
  attestedFor,\* last_execution_version
  registry,   \* the registry the callers pass in
  spent,      \* ids of the certificates an execution was started with
  judged,     \* [version -> plan content its validation result is about]
  witness     \* id of the certificate under which success was last recorded

code == <<state, versions, candidate, authorized, committed, cert,
          success, attested, attestedFor>>
ghosts == <<spent, judged, witness>>
vars == <<code, registry, ghosts>>

NoCert == [id |-> 0, version |-> 0, plan |-> None, world |-> None,
           registry |-> None, policy |-> None, expired |-> FALSE]

Version == 1 .. Len(versions)
Current == versions[authorized]

Init ==
  /\ state = "DRAFT"
  /\ versions = <<>>
  /\ candidate = 0 /\ authorized = 0 /\ committed = 0
  /\ cert = NoCert
  /\ success = FALSE /\ attested = None /\ attestedFor = 0
  /\ registry \in Registry
  /\ spent = {} /\ judged = <<>> /\ witness = 0

---------------------------------------------------------------------------
(* The environment.                                                        *)

\* The caller edits the PlanIR of a version in place; the hash taken at its
\* submission stays.
Edit(v, p) ==
  /\ v \in Version
  /\ Edits = "undone" \/ versions[v].ir = versions[v].hash
  /\ p # versions[v].ir
  /\ versions' = [versions EXCEPT ![v].ir = p]
  /\ UNCHANGED <<state, candidate, authorized, committed, cert, success,
                 attested, attestedFor, registry, ghosts>>

ChangeRegistry(r) ==
  /\ r # registry
  /\ registry' = r
  /\ UNCHANGED <<code, ghosts>>

Expire ==
  /\ cert.id # 0 /\ ~cert.expired
  /\ cert' = [cert EXCEPT !.expired = TRUE]
  /\ UNCHANGED <<state, versions, candidate, authorized, committed,
                 success, attested, attestedFor, registry, ghosts>>

---------------------------------------------------------------------------
(* Drafting and validation.                                                *)

Terminal == {"COMMITTED", "ROLLED_BACK", "FAILED"}

\* Mutant of SubmitDraft: the number is computed after the version is stored.
SubmitMisnumbered(p) ==
  /\ Len(versions) < MaxVersion
  /\ state \in {"DRAFT"} \cup Terminal \/ CanMove(state, "DRAFT")
  /\ versions' = Append(versions, [ir |-> p, hash |-> p, status |-> None, world |-> None])
  /\ candidate' = Len(versions') + 1
  /\ judged' = Append(judged, None)
  /\ state' = IF state \in Terminal THEN state ELSE "IR_VALID"
  /\ UNCHANGED <<authorized, committed, cert, success, attested,
                 attestedFor, registry, spent, witness>>

\* submit_draft appends a version and makes it the candidate.  From a terminal
\* state it does so and then raises, since only DRAFT may move to IR_VALID: the
\* session keeps its state and the stray version.
SubmitDraft(p) ==
  /\ Len(versions) < MaxVersion
  /\ state \in {"DRAFT"} \cup Terminal \/ CanMove(state, "DRAFT")
  /\ versions' = Append(versions, [ir |-> p, hash |-> p, status |-> None, world |-> None])
  /\ candidate' = Len(versions) + 1
  /\ judged' = Append(judged, None)
  /\ state' = IF state \in Terminal THEN state ELSE "IR_VALID"
  /\ UNCHANGED <<authorized, committed, cert, success, attested,
                 attestedFor, registry, spent, witness>>

\* The caller starts over with transition_to(DRAFT).
Reopen ==
  /\ CanMove(state, "DRAFT")
  /\ state' = "DRAFT"
  /\ UNCHANGED <<versions, candidate, authorized, committed, cert, success,
                 attested, attestedFor, registry, ghosts>>

\* validate_candidate judges the content the version has now.
ValidateCandidate(v, w) ==
  LET s == Verdict[versions[v].ir, w, registry] IN
  /\ v \in Version
  /\ state = "IR_VALID" \/ CanMove(state, "IR_VALID")
  /\ versions' = [versions EXCEPT ![v] =
       [ir |-> @.ir, hash |-> @.hash, status |-> s, world |-> w]]
  /\ judged' = [judged EXCEPT ![v] = versions[v].ir]
  /\ state' = "FEASIBILITY"
  /\ UNCHANGED <<candidate, authorized, committed, cert, success, attested,
                 attestedFor, registry, spent, witness>>

\* The validator raises: the session has already moved to IR_VALID.
ValidatorRaises ==
  /\ versions # <<>>
  /\ CanMove(state, "IR_VALID")
  /\ state' = "IR_VALID"
  /\ UNCHANGED <<versions, candidate, authorized, committed, cert, success,
                 attested, attestedFor, registry, ghosts>>

\* Mutant of SelectVersion: any validated version may be selected.
SelectUnverified(v) ==
  /\ v \in Version
  /\ versions[v].status # None
  /\ state = "FEASIBILITY" \/ CanMove(state, "FEASIBILITY")
  /\ candidate' = v
  /\ state' = "SELECTED"
  /\ UNCHANGED <<versions, authorized, committed, cert, success, attested,
                 attestedFor, registry, ghosts>>

SelectVersion(v) ==
  /\ v \in Version
  /\ versions[v].status = "PASS"
  /\ state = "FEASIBILITY" \/ CanMove(state, "FEASIBILITY")
  /\ candidate' = v
  /\ state' = "SELECTED"
  /\ UNCHANGED <<versions, authorized, committed, cert, success, attested,
                 attestedFor, registry, ghosts>>

---------------------------------------------------------------------------
(* Authorization and execution.                                            *)

\* The candidate must be as submitted and the registry must accept its actions.
\* The certificate signs plan, world, registry and policy as they are now.
AuthorizeSelected(pol) ==
  LET v == versions[candidate] IN
  /\ cert.id < MaxCert
  /\ state = "SELECTED"
  /\ v.ir = v.hash
  /\ <<v.ir, registry>> \in Fits
  /\ cert' = [id |-> cert.id + 1, version |-> candidate, plan |-> v.ir, world |-> v.world,
              registry |-> registry, policy |-> pol, expired |-> FALSE]
  /\ authorized' = candidate
  /\ state' = "AUTHORIZED"
  /\ UNCHANGED <<versions, candidate, committed, success, attested,
                 attestedFor, registry, ghosts>>

\* Facts the caller hands to start_execution; None leaves the validation
\* snapshot in force, which is refused when any of its facts can expire.
FactsAccepted(w) ==
  IF w = None THEN Current.world \notin Perishable ELSE w = cert.world

\* Mutant of StartExecution: the attestation of the last execution is kept.
StartWithOldAttestation(pol, w) ==
  /\ state = "AUTHORIZED"
  /\ ~cert.expired
  /\ pol = cert.policy
  /\ Current.ir = cert.plan
  /\ FactsAccepted(w)
  /\ registry = cert.registry
  /\ spent' = spent \cup {cert.id}
  /\ state' = "EXECUTING"
  /\ UNCHANGED <<versions, candidate, authorized, committed, cert, registry,
                 success, attested, attestedFor, judged, witness>>

StartExecution(pol, w) ==
  /\ state = "AUTHORIZED"
  /\ ~cert.expired
  /\ pol = cert.policy
  /\ Current.ir = cert.plan
  /\ FactsAccepted(w)
  /\ registry = cert.registry
  /\ success' = FALSE /\ attested' = None /\ attestedFor' = 0
  /\ spent' = spent \cup {cert.id}
  /\ state' = "EXECUTING"
  /\ UNCHANGED <<versions, candidate, authorized, committed, cert, registry,
                 judged, witness>>

\* The manager reports whether every action was witnessed, and the world it saw.
RecordExecutionResult(ok, w) ==
  /\ state = "EXECUTING"
  /\ success' = ok /\ attested' = w /\ attestedFor' = authorized
  /\ witness' = IF ok THEN cert.id ELSE witness
  /\ UNCHANGED <<state, versions, candidate, authorized, committed, cert,
                 registry, spent, judged>>

CommitExecution(w) ==
  /\ state = "EXECUTING"
  /\ success
  /\ attestedFor = authorized
  /\ attested = w
  /\ Current.ir = cert.plan
  /\ <<Current.ir, w>> \in Meets
  /\ committed' = authorized
  /\ state' = "COMMITTED"
  /\ UNCHANGED <<versions, candidate, authorized, cert, success, attested,
                 attestedFor, registry, ghosts>>

\* Mutant of Settle: a failed execution may be started again.
SettleForRetry(s) ==
  /\ state \in {"EXECUTING", "COMPENSATING"}
  /\ s \in {"FAILED", "COMPENSATING", "ROLLED_BACK", "CONTAINMENT_FAILED"}
  /\ CanMove(state, s)
  /\ state' = IF s = "FAILED" THEN "AUTHORIZED" ELSE s
  /\ UNCHANGED <<versions, candidate, authorized, committed, cert, success,
                 attested, attestedFor, registry, ghosts>>

\* The manager ends an execution that is not committed: FAILED when nothing was
\* dispatched, else COMPENSATING and then ROLLED_BACK or CONTAINMENT_FAILED.
Settle(s) ==
  /\ state \in {"EXECUTING", "COMPENSATING"}
  /\ s \in {"FAILED", "COMPENSATING", "ROLLED_BACK", "CONTAINMENT_FAILED"}
  /\ CanMove(state, s)
  /\ state' = s
  /\ UNCHANGED <<versions, candidate, authorized, committed, cert, success,
                 attested, attestedFor, registry, ghosts>>

Next ==
  \/ \E v \in Version, p \in Plan : Edit(v, p)
  \/ \E r \in Registry : ChangeRegistry(r)
  \/ Expire
  \/ \E p \in Plan : SubmitDraft(p)
  \/ Reopen
  \/ \E v \in Version, w \in World : ValidateCandidate(v, w)
  \/ ValidatorRaises
  \/ \E v \in Version : SelectVersion(v)
  \/ \E pol \in Policy : AuthorizeSelected(pol)
  \/ \E pol \in Policy, w \in World \cup {None} : StartExecution(pol, w)
  \/ \E ok \in BOOLEAN, w \in World : RecordExecutionResult(ok, w)
  \/ \E w \in World : CommitExecution(w)
  \/ \E s \in SessionState : Settle(s)

Spec == Init /\ [][Next]_vars

---------------------------------------------------------------------------
(* Properties.                                                             *)

VersionRecord == [ir : Plan, hash : Plan, status : Status \cup {None}, world : World \cup {None}]
Certificate == [id : 0 .. MaxCert, version : 0 .. MaxVersion, plan : Plan \cup {None},
                world : World \cup {None}, registry : Registry \cup {None},
                policy : Policy \cup {None}, expired : BOOLEAN]

\* The fields of PlanningSession keep their types, and a version number a field
\* holds names a version that was submitted (PlanningSession's Optional[int] fields).
TypeOK ==
  /\ state \in SessionState
  /\ versions \in Seq(VersionRecord) /\ Len(versions) <= MaxVersion
  /\ {candidate, authorized, committed, attestedFor} \subseteq {0} \cup Version
  /\ cert \in Certificate
  /\ success \in BOOLEAN
  /\ attested \in World \cup {None}
  /\ registry \in Registry
  /\ spent \subseteq 1 .. MaxCert
  /\ judged \in Seq(Plan \cup {None}) /\ Len(judged) = Len(versions)
  /\ witness \in 0 .. MaxCert

\* What is authorized or executing passed validation: the certificate's plan is
\* the one submitted, the one the validator judged, in the certificate's world,
\* whatever was submitted, edited or validated in between.  (Not so when edits are
\* taken back: the validator may have judged the edited plan.)
AuthorizedIsJudged ==
  state \in {"AUTHORIZED", "EXECUTING"} =>
    /\ authorized \in Version
    /\ cert.version = authorized
    /\ Current.status = "PASS"
    /\ Current.world = cert.world
    /\ Current.hash = cert.plan
    /\ judged[authorized] = cert.plan

\* A certificate starts at most one execution, however that execution ends.
SpentOnce == (state = "AUTHORIZED" /\ state' = "EXECUTING") => cert.id \notin spent
CertificateSpentOnce == [][SpentOnce]_vars

\* A commit rests on a success recorded under the certificate it is committed
\* under, not on one an earlier execution of the same version left behind.
Earned ==
  (state # "COMMITTED" /\ state' = "COMMITTED") =>
    /\ cert.id \in spent
    /\ witness = cert.id
    /\ Current.ir = cert.plan
    /\ <<cert.plan, attested>> \in Meets
CommitEarned == [][Earned]_vars

=============================================================================

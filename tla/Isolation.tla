----------------------------- MODULE Isolation ------------------------------
(***************************************************************************)
(* The artifact isolation manager (isolation.py): agents acquire and       *)
(* release artifacts in a log of records, and detect_conflicts compares    *)
(* the records that are still active.  Every method runs under the         *)
(* manager's lock, so each is one step.                                    *)
(***************************************************************************)
EXTENDS Naturals, Sequences, FiniteSets, SequencesExt

CONSTANTS
    Places,      \* the artifacts: pairs of a path and a workspace
    Agents,
    MaxRecords   \* bound: the length of the log

VARIABLES
    records,   \* [place, agent, op, version, at], in order
    versions,  \* [Places -> the number of acquisitions so far]
    now        \* the clock; two records may carry the same time

isolationVars == <<records, versions, now>>

Ops == {"read", "write", "delete"}
Writes == {"write", "delete"}

IsolationTypeOK ==
    /\ records \in Seq([place : Places, agent : Agents, op : Ops \cup {"release"},
                        version : Nat, at : Nat])
    /\ Len(records) <= MaxRecords
    /\ versions \in [Places -> Nat] /\ now \in Nat

IsolationInit == records = <<>> /\ versions = [p \in Places |-> 0] /\ now = 0

-----------------------------------------------------------------------------
Log(p, a, op, tick) ==
    /\ Len(records) < MaxRecords
    /\ now' = IF tick THEN now + 1 ELSE now
    /\ records' = Append(records, [place |-> p, agent |-> a, op |-> op,
                                   version |-> versions'[p], at |-> now'])

acquire_artifact(p, a, op, tick) ==
    /\ versions' = [versions EXCEPT ![p] = @ + 1]
    /\ Log(p, a, op, tick)

release_artifact(p, a, tick) ==
    /\ UNCHANGED versions
    /\ Log(p, a, "release", tick)

IsolationNext ==
    \E p \in Places, a \in Agents, tick \in BOOLEAN :
        \/ \E op \in Ops : acquire_artifact(p, a, op, tick)
        \/ release_artifact(p, a, tick)

IsolationSpec == IsolationInit /\ [][IsolationNext]_isolationVars

-----------------------------------------------------------------------------
\* Mutant of Active: a release does not end the record before it
ActiveUnreleased ==
    LET acquired == {i \in DOMAIN records : records[i].op # "release"}
    IN {records[i] : i \in {i \in acquired :
            \A j \in acquired : records[j].place = records[i].place
                                /\ records[j].agent = records[i].agent => j <= i}}

\* _active_records: of each agent and place the last record, unless it is a
\* release
Active ==
    {r \in {records[i] : i \in {i \in DOMAIN records :
                \A j \in DOMAIN records : records[j].place = records[i].place
                                          /\ records[j].agent = records[i].agent => j <= i}} :
        r.op # "release"}

Pairs(p, a, b) ==
    {rs \in Active \X Active :
        rs[1].place = p /\ rs[2].place = p /\ rs[1].agent = a /\ rs[2].agent = b}

\* detect_conflicts: whether it reports a pair of agents at a place
WriteConflict(p, a, b, optimistic) ==
    \E rs \in Pairs(p, a, b) :
        /\ {rs[1].op, rs[2].op} \subseteq Writes
        /\ optimistic => rs[1].version = rs[2].version

ReadConflict(p, a, b) ==
    \E rs \in Pairs(p, a, b) : rs[1].op = "read" /\ rs[2].op \in Writes /\ rs[1].at < rs[2].at

Reported(p, a, b) == WriteConflict(p, a, b, FALSE) \/ ReadConflict(p, a, b) \/ ReadConflict(p, b, a)

-----------------------------------------------------------------------------
\* What is to be detected, by the history alone: an agent holds an operation
\* from its acquisition to its next release of the artifact.
Released(i, j) ==
    \E k \in i..j : records[k].place = records[i].place /\ records[k].agent = records[i].agent
                    /\ records[k].op = "release"
Held(p, a) == {i \in DOMAIN records : records[i].place = p /\ records[i].agent = a
                                      /\ records[i].op \in Ops /\ ~Released(i, Len(records))}
Clash(p, a, b) ==
    \E i \in Held(p, a), j \in Held(p, b) :
        \/ records[i].op \in Writes /\ records[j].op \in Writes
        \/ records[i].op = "read" /\ records[j].op \in Writes /\ records[i].at < records[j].at
        \/ records[j].op = "read" /\ records[i].op \in Writes /\ records[j].at < records[i].at

\* an agent that holds two different operations: only the last is looked at
Replaced(p, a) == \E i, j \in Held(p, a) : records[i].op \in Writes /\ records[j].op \notin Writes
\* an acquisition repeated while it is held: only the last time is looked at
Repeated(p, a) == Cardinality(Held(p, a)) > 1

(* The optimistic check reports nothing at all: versions are handed out one *)
(* to an acquisition, so two writers never share one.                       *)
(* The serializable check is exact: it reports two agents at an artifact    *)
(* whenever their holdings clash, never otherwise -- releases, repeated     *)
(* acquisitions, several workspaces and equal times included.  An agent     *)
(* that holds both a read and a write counts by the later of the two only,  *)
(* so for such an agent a report is right and silence means nothing; the    *)
(* order of a read and a write is taken from the later of a repetition.     *)
ConflictsExact ==
    \A p \in Places : \A a, b \in Agents : a # b =>
        /\ ~WriteConflict(p, a, b, TRUE)
        /\ Reported(p, a, b) => Clash(p, a, b)
        /\ Clash(p, a, b) /\ ~Replaced(p, a) /\ ~Replaced(p, b) =>
              \/ Reported(p, a, b)
              \/ \E c \in {a, b} : Repeated(p, c) /\ \E i \in Held(p, c) : records[i].op = "read"
=============================================================================

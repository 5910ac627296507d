------------------------------ MODULE Evolution ------------------------------
(*****************************************************************************)
(* Proposals to change an agent (app/services/evolution.py) and the versions *)
(* of its configuration (agent_version.py, update_agent in agent.py).  Each  *)
(* request reads rows, decides, and commits in one transaction what it has   *)
(* changed; the reads of one request and the commits of others interleave,   *)
(* for PostgreSQL reads what is committed and no request locks what it has   *)
(* read.  A column is written only where it differs from what was read, and  *)
(* two versions of an agent cannot have one number.                          *)
(*                                                                           *)
(* One agent, of which two columns are told apart: `model` stands for those  *)
(* that a proposal's version keeps (instructions is the other one),          *)
(* `agent_tools` for those it does not (guardrails).  Scores only decide     *)
(* which proposals a check rolls back: any that it may.                      *)
(*****************************************************************************)
EXTENDS Naturals, Sequences

CONSTANTS
    Proposals,
    ModelProposals,     \* of type "model"
    ToolProposals,      \* of type "tools"; the others, "memory", write nothing
    Handlers,           \* requests that are served at once
    MaxVersions         \* bound: versions of the agent

ASSUME EvolutionAssumption ==
    /\ ModelProposals \cup ToolProposals \subseteq Proposals
    /\ ModelProposals \cap ToolProposals = {}
    /\ MaxVersions \in Nat

VARIABLES
    proposal,   \* the status of each proposal
    appliedAt,  \* its applied_at, 0 for none
    config,     \* the agent's columns
    versions,   \* the rows of agent_config_versions, as they were committed
    task        \* what each handler is doing, and what it has read

evolutionVars == <<proposal, appliedAt, config, versions, task>>

Columns == {"model", "agent_tools"}
Created == [c \in Columns |-> "created"]
Idle == [op |-> "idle"]
Numbering == {"apply", "update", "restore"}     \* requests that add a version

_TRANSITIONS ==
    [pending |-> {"approved", "rejected"}, approved |-> {"applied"}, applied |-> {"rolled_back"}]

Targets(s) == IF s \in DOMAIN _TRANSITIONS THEN _TRANSITIONS[s] ELSE {}

EvolutionInit ==
    /\ proposal = [p \in Proposals |-> "none"]
    /\ appliedAt = [p \in Proposals |-> 0]
    /\ config = Created
    /\ versions = <<[number |-> 1, created |-> 1, by |-> "create", snapshot |-> Created]>>
    /\ task = [h \in Handlers |-> Idle]

-----------------------------------------------------------------------------
\* What is written.

\* Commits happen at times of their own, none before the last version's.
Now == versions[Len(versions)].created + 1

\* The columns p writes, and the value of each.
Proposed(p) ==
    [c \in {d \in Columns : \/ d = "model" /\ p \in ModelProposals
                            \/ d = "agent_tools" /\ p \in ToolProposals} |-> p]

Overlay(write, seen) == [c \in Columns |-> IF c \in DOMAIN write THEN write[c] ELSE seen[c]]

\* The UPDATE of the agent names the columns that changed since they were read.
Write(new, seen) == config' = [c \in Columns |-> IF new[c] = seen[c] THEN config[c] ELSE new[c]]

\* Mutant: the table has no unique constraint.
TakenNever(n) == FALSE

Taken(n) == \E i \in DOMAIN versions : versions[i].number = n

\* `by` is history, for RollbackRestores to tell whose version a row is: the
\* table has a reason in words, which nothing reads back.
AddVersion(n, created, by, snapshot) ==
    /\ ~Taken(n)
    /\ versions' = Append(versions, [number |-> n, created |-> created,
                                     by |-> by, snapshot |-> snapshot])

\* The version a rollback goes by: the last one no later than applied_at.
Before(time) ==
    LET older == {i \in DOMAIN versions : versions[i].created <= time}
    IN  versions[CHOOSE i \in older : \A j \in older : versions[j].created <= versions[i].created]

\* What rolling back p writes: its columns, where that version has them.
Restored(p, time) ==
    LET snapshot == Before(time).snapshot
    IN  [c \in DOMAIN Proposed(p) \cap DOMAIN snapshot |-> snapshot[c]]

-----------------------------------------------------------------------------
\* Requests begin with the read of the row they are about.

Begins(h, t) ==
    /\ task[h] = Idle
    /\ task' = [task EXCEPT ![h] = t]
    /\ UNCHANGED <<proposal, appliedAt, config, versions>>

\* create_proposal, or one of analyze_agent's.
CreateProposal(p) ==
    /\ proposal[p] = "none"
    /\ proposal' = [proposal EXCEPT ![p] = "pending"]
    /\ UNCHANGED <<appliedAt, config, versions, task>>

DeleteProposal(p) ==
    /\ proposal[p] \notin {"none", "deleted"}
    /\ proposal' = [proposal EXCEPT ![p] = "deleted"]
    /\ UNCHANGED <<appliedAt, config, versions, task>>

\* update_proposal: another status than "applied".
BeginPatch(h, p) ==
    \E s \in Targets(proposal[p]) \ {"applied"} :
        Begins(h, [op |-> "patch", at |-> "commit", of |-> {p}, to |-> s])

\* update_proposal with "applied", or the scheduler's auto_apply of a new one.
BeginApply(h, p) ==
    /\ proposal[p] \in {"pending", "approved"}
    /\ Begins(h, [op |-> "apply", at |-> "agent", of |-> {p}, write |-> Proposed(p),
                  seen |-> Created, top |-> 0])

\* check_and_rollback of one proposal, scan_and_rollback_all of several, whose
\* scores have dropped.
BeginRollback(h, S) ==
    /\ S # {}
    /\ \A p \in S : proposal[p] = "applied"
    /\ Begins(h, [op |-> "rollback", at |-> "agent", of |-> S,
                  applied |-> [p \in S |-> appliedAt[p]], seen |-> Created])

\* update_agent reads the agent first.
BeginUpdate(h) ==
    \E C \in (SUBSET Columns) \ {{}} :
        Begins(h, [op |-> "update", at |-> "version", of |-> {},
                   write |-> [c \in C |-> "edited"], seen |-> config, top |-> 0])

\* So does rollback_to_version; the version it goes back to never changes.
BeginRestore(h) ==
    \E i \in DOMAIN versions :
        Begins(h, [op |-> "restore", at |-> "version", of |-> {},
                   write |-> versions[i].snapshot, seen |-> config, top |-> 0])

ReadAgent(h) ==
    /\ task[h] # Idle
    /\ task[h].at = "agent"
    /\ task' = [task EXCEPT ![h].seen = config,
                            ![h].at = IF task[h].op = "rollback" THEN "commit" ELSE "version"]
    /\ UNCHANGED <<proposal, appliedAt, config, versions>>

\* The greatest version number, which the request will add one to.
ReadVersion(h) ==
    /\ task[h] # Idle
    /\ task[h].at = "version"
    /\ Len(versions) < MaxVersions
    /\ \E i \in DOMAIN versions :
          /\ \A j \in DOMAIN versions : versions[j].number <= versions[i].number
          /\ task' = [task EXCEPT ![h].top = versions[i].number, ![h].at = "commit"]
    /\ UNCHANGED <<proposal, appliedAt, config, versions>>

-----------------------------------------------------------------------------
\* Requests end with a commit, or with nothing written.

Ending(h, ops) ==
    /\ task[h].op \in ops
    /\ task[h].at = "commit"
    /\ task' = [task EXCEPT ![h] = Idle]

\* An UPDATE of a deleted row fails.
Present(S) == \A p \in S : proposal[p] # "deleted"

CommitPatch(h) ==
    /\ Ending(h, {"patch"})
    /\ Present(task[h].of)
    /\ proposal' = [p \in Proposals |-> IF p \in task[h].of THEN task[h].to ELSE proposal[p]]
    /\ UNCHANGED <<appliedAt, config, versions>>

\* applied_at is taken first; created_at is the column's default, which the
\* flush within the commit evaluates: later, unless the clock has not moved.
\* The version holds the model, as it was read, and no tools.
CommitApply(h) ==
    /\ Ending(h, {"apply"})
    /\ Present(task[h].of)
    /\ \E p \in task[h].of, created \in {Now, Now + 1} :
          /\ AddVersion(task[h].top + 1, created, p, [c \in {"model"} |-> task[h].seen[c]])
          /\ appliedAt' = [appliedAt EXCEPT ![p] = Now]
          /\ proposal' = [proposal EXCEPT ![p] = "applied"]
    /\ Write(Overlay(task[h].write, task[h].seen), task[h].seen)

\* The rows of a scan come in any order, and the last one writes over others.
CommitRollback(h) ==
    LET t == task[h]
        writers(c) == {p \in t.of : c \in DOMAIN Restored(p, t.applied[p])}
    IN  /\ Ending(h, {"rollback"})
        /\ Present(t.of)
        /\ proposal' = [p \in Proposals |-> IF p \in t.of THEN "rolled_back" ELSE proposal[p]]
        /\ \E last \in [Columns -> t.of] :
              /\ \A c \in Columns : writers(c) # {} => last[c] \in writers(c)
              /\ Write([c \in Columns |-> IF writers(c) = {} THEN t.seen[c]
                                          ELSE Restored(last[c], t.applied[last[c]])[c]],
                       t.seen)
        /\ UNCHANGED <<appliedAt, versions>>

\* update_agent keeps what it found.
CommitUpdate(h) ==
    /\ Ending(h, {"update"})
    /\ AddVersion(task[h].top + 1, Now, "update", task[h].seen)
    /\ Write(Overlay(task[h].write, task[h].seen), task[h].seen)
    /\ UNCHANGED <<proposal, appliedAt>>

\* rollback_to_version keeps what it restores.
CommitRestore(h) ==
    LET new == Overlay(task[h].write, task[h].seen) IN
    /\ Ending(h, {"restore"})
    /\ AddVersion(task[h].top + 1, Now, "restore", new)
    /\ Write(new, task[h].seen)
    /\ UNCHANGED <<proposal, appliedAt>>

\* The commit fails: the number is taken, or the proposal is gone.
CommitFails(h) ==
    /\ Ending(h, Numbering \cup {"patch", "rollback"})
    /\ \/ ~Present(task[h].of)
       \/ task[h].op \in Numbering /\ Taken(task[h].top + 1)
    /\ UNCHANGED <<proposal, appliedAt, config, versions>>

ServeStep(h) ==
    \/ \E p \in Proposals : BeginPatch(h, p) \/ BeginApply(h, p)
    \/ \E S \in SUBSET Proposals : BeginRollback(h, S)
    \/ BeginUpdate(h) \/ BeginRestore(h)
    \/ ReadAgent(h) \/ ReadVersion(h)
    \/ CommitPatch(h) \/ CommitApply(h) \/ CommitRollback(h)
    \/ CommitUpdate(h) \/ CommitRestore(h) \/ CommitFails(h)

EvolutionNext ==
    \/ \E p \in Proposals : CreateProposal(p) \/ DeleteProposal(p)
    \/ \E h \in Handlers : ServeStep(h)

EvolutionSpec == EvolutionInit /\ [][EvolutionNext]_evolutionVars

-----------------------------------------------------------------------------
\* However requests interleave, the versions of the agent are numbered in the
\* order in which they were created, none twice: a rollback looks for the
\* latest version by created_at, or by its number, and means the same.
VersionsInOrder ==
    \A i, j \in DOMAIN versions :
        i < j => /\ versions[i].number < versions[j].number
                 /\ versions[i].created < versions[j].created

\* "Find the version created when the proposal was applied ... and restore the
\* agent's configuration": a rollback puts the model back that the version of
\* the proposal's own application holds.
RollbackRestores ==
    [][\A h \in Handlers : CommitRollback(h) =>
           \A p \in task[h].of \cap ModelProposals :
               \E i \in DOMAIN versions :
                   versions[i].by = p /\ config'["model"] = versions[i].snapshot["model"]]_evolutionVars
=============================================================================

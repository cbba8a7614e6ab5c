------------------------------ MODULE Workspace ------------------------------
(***************************************************************************)
(* The shared workspace of one lead agent and the private copies its       *)
(* coordinated runs work in: WorkspaceManager                              *)
(* (apps/server/src/workspace.ts) with the parts of AgentService that open *)
(* a transaction, commit it and discard it (agent-service.ts).             *)
(*                                                                         *)
(* A promotion is two renames and two removals, a discard is a removal,    *)
(* and the status of the transaction is stored after either of them; the   *)
(* server may die between any two of these.  A directory is the set of     *)
(* runs whose edits it holds.                                              *)
(*                                                                         *)
(* Who opens, commits and discards is up to the module that extends this   *)
(* one: it takes part in OpenCopy, CommitCopy and DiscardCopy and waits    *)
(* for "op" to say how they have ended.                                    *)
(***************************************************************************)
EXTENDS Naturals

CONSTANTS
  Runs,       \* runs that work in a copy
  MaxTrouble  \* bound: crashes, failed file operations and failed writes, together

ASSUME WorkspaceAssumption == MaxTrouble \in Nat

VARIABLES
  shared,   \* Agent.workspacePath
  scratch,  \* .transactions/<run>
  backup,   \* .transactions/<run>-backup
  txn,      \* AgentRun.workspaceTransaction.status
  status,   \* AgentRun.status
  op,       \* what is in progress, or how it ended, on each run's copy
  trouble

files == <<shared, scratch, backup>>
workspaceVars == <<shared, scratch, backup, txn, status, op, trouble>>

Dir(work) == [there |-> TRUE, work |-> work]
NoDir == [there |-> FALSE, work |-> {}]

WorkspaceInit ==
  /\ shared = Dir({})
  /\ scratch = [r \in Runs |-> NoDir]
  /\ backup = [r \in Runs |-> NoDir]
  /\ txn = [r \in Runs |-> "none"]
  /\ status = [r \in Runs |-> "none"]
  /\ op = [r \in Runs |-> "unused"]
  /\ trouble = 0

Trouble == trouble < MaxTrouble /\ trouble' = trouble + 1
Becomes(r, step) == op' = [op EXCEPT ![r] = step]

-----------------------------------------------------------------------------
(* sendCoordinatedMessage: a copy is made, then the run is admitted.       *)

OpenCopy(r) ==
  /\ op[r] = "unused"
  /\ Becomes(r, "copying")
  /\ UNCHANGED <<files, txn, status, trouble>>

\* beginTransaction: the copy is complete.
Copied(r) ==
  /\ op[r] = "copying" /\ shared.there
  /\ scratch' = [scratch EXCEPT ![r] = shared]
  /\ Becomes(r, "admitting")
  /\ UNCHANGED <<shared, backup, txn, status, trouble>>

\* cp rejects, and nobody removes what it has copied so far.
CopyFails(r) ==
  /\ op[r] = "copying"
  /\ \/ ~shared.there /\ UNCHANGED <<scratch, trouble>>
     \/ Trouble /\ scratch' = [scratch EXCEPT ![r] = Dir({})]
  /\ Becomes(r, "rejected")
  /\ UNCHANGED <<shared, backup, txn, status>>

Admit(r) ==
  /\ op[r] = "admitting"
  /\ txn' = [txn EXCEPT ![r] = "open"]
  /\ status' = [status EXCEPT ![r] = "running"]
  /\ Becomes(r, "open")
  /\ UNCHANGED <<files, trouble>>

\* The agent is busy, stopped or gone: the copy is removed again, or stays if its
\* removal rejects.
Refuse(r) ==
  /\ op[r] = "admitting"
  /\ \/ scratch' = [scratch EXCEPT ![r] = NoDir] /\ UNCHANGED trouble
     \/ Trouble /\ UNCHANGED scratch
  /\ Becomes(r, "rejected")
  /\ UNCHANGED <<shared, backup, txn, status>>

\* The run ends.  A cancelled or failed one may have edited its copy, too.
RunEnds(r) ==
  /\ status[r] = "running"
  /\ \E how \in {"completed", "ended"} :
       /\ status' = [status EXCEPT ![r] = how]
       /\ scratch' = [scratch EXCEPT ![r].work = @ \cup {r}]
  /\ UNCHANGED <<shared, backup, txn, op, trouble>>

-----------------------------------------------------------------------------
(* commitRunWorkspace and commitTransaction                                *)

\* Mutant of Committable: the status of the run is not looked at.
MutantCommittable(r) == txn[r] = "open"

Committable(r) == txn[r] = "open" /\ status[r] = "completed"

CommitCopy(r) ==
  /\ op[r] = "open" /\ Committable(r)
  /\ Becomes(r, "saving")
  /\ UNCHANGED <<files, txn, status, trouble>>

\* rename(destination, backup), after stat(scratch).
Save(r) ==
  /\ op[r] = "saving" /\ shared.there
  /\ backup' = [backup EXCEPT ![r] = shared]
  /\ shared' = NoDir
  /\ Becomes(r, "promoting")
  /\ UNCHANGED <<scratch, txn, status, trouble>>

\* Mutant of Promote: the backup is not kept until the copy is in its place.
MutantPromote(r) ==
  /\ op[r] = "promoting"
  /\ \/ shared' = scratch[r] /\ scratch' = [scratch EXCEPT ![r] = NoDir] /\ Becomes(r, "cleaning")
     \/ backup[r].there /\ UNCHANGED <<shared, scratch, op>>
  /\ backup' = [backup EXCEPT ![r] = NoDir]
  /\ UNCHANGED <<txn, status, trouble>>

\* rename(scratch, destination).
Promote(r) ==
  /\ op[r] = "promoting"
  /\ shared' = scratch[r]
  /\ scratch' = [scratch EXCEPT ![r] = NoDir]
  /\ Becomes(r, "cleaning")
  /\ UNCHANGED <<backup, txn, status, trouble>>

Clean(r) ==
  /\ op[r] = "cleaning"
  /\ backup' = [backup EXCEPT ![r] = NoDir]
  /\ Becomes(r, "recording")
  /\ UNCHANGED <<shared, scratch, txn, status, trouble>>

RecordCommit(r) ==
  /\ op[r] = "recording"
  /\ txn' = [txn EXCEPT ![r] = "committed"]
  /\ Becomes(r, "committed")
  /\ UNCHANGED <<files, status, trouble>>

\* A step of the commit rejects.  The backup is renamed back, which fails
\* unnoticed if the disk still does, or if the copy is in its place already.
CommitFails(r) ==
  /\ op[r] \in {"saving", "promoting", "cleaning", "recording"}
  /\ Trouble
  /\ \/ UNCHANGED <<shared, backup>>
     \/ /\ op[r] = "promoting"
        /\ shared' = backup[r]
        /\ backup' = [backup EXCEPT ![r] = NoDir]
  /\ Becomes(r, "failed")
  /\ UNCHANGED <<scratch, txn, status>>

-----------------------------------------------------------------------------
(* discardRunWorkspace                                                     *)

DiscardCopy(r) ==
  /\ op[r] \in {"open", "failed"} /\ txn[r] = "open"
  /\ Becomes(r, "removing")
  /\ UNCHANGED <<files, txn, status, trouble>>

Remove(r) ==
  /\ op[r] = "removing"
  /\ scratch' = [scratch EXCEPT ![r] = NoDir]
  /\ Becomes(r, "noting")
  /\ UNCHANGED <<shared, backup, txn, status, trouble>>

NoteDiscard(r) ==
  /\ op[r] = "noting"
  /\ txn' = [txn EXCEPT ![r] = "discarded"]
  /\ Becomes(r, "discarded")
  /\ UNCHANGED <<files, status, trouble>>

\* The removal or the write rejects: the transaction stays open.
DiscardFails(r) ==
  /\ op[r] \in {"removing", "noting"}
  /\ Trouble
  /\ Becomes(r, "kept")
  /\ UNCHANGED <<files, txn, status>>

-----------------------------------------------------------------------------
\* The server dies and AgentService.initialize sees to the transactions that are
\* stored as open, and to the runs that were in progress.
CrashRestart ==
  /\ Trouble
  /\ scratch' = [r \in Runs |-> IF txn[r] = "open" THEN NoDir ELSE scratch[r]]
  /\ txn' = [r \in Runs |-> IF txn[r] = "open" THEN "discarded" ELSE txn[r]]
  /\ status' = [r \in Runs |-> IF status[r] = "running" THEN "ended" ELSE status[r]]
  /\ op' = [r \in Runs |-> IF op[r] = "unused" THEN "unused" ELSE "over"]
  /\ UNCHANGED <<shared, backup>>

\* The steps that follow one another without anybody's doing.
Proceed(r) ==
  \/ Copied(r) \/ Save(r) \/ Promote(r) \/ Clean(r) \/ RecordCommit(r)
  \/ Remove(r) \/ NoteDiscard(r)
Stumble(r) == CopyFails(r) \/ CommitFails(r) \/ DiscardFails(r)

-----------------------------------------------------------------------------
Directory == [there : BOOLEAN, work : SUBSET Runs]
OpStep == {"unused", "copying", "admitting", "rejected", "open", "saving", "promoting",
           "cleaning", "recording", "committed", "failed", "removing", "noting",
           "discarded", "kept", "over"}

WorkspaceTypeOK ==
  /\ shared \in Directory
  /\ scratch \in [Runs -> Directory] /\ backup \in [Runs -> Directory]
  /\ txn \in [Runs -> {"none", "open", "committed", "discarded"}]
  /\ status \in [Runs -> {"none", "running", "completed", "ended"}]
  /\ op \in [Runs -> OpStep]
  /\ trouble \in 0..MaxTrouble

\* Where the edits of a run can still be found: under the workspace's name or in
\* what a promotion has put aside.
Kept(r) == r \in shared.work \/ \E q \in Runs : r \in backup[q].work
=============================================================================

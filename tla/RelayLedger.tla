----------------------------- MODULE RelayLedger -----------------------------
(***************************************************************************)
(* What a durable relay session promises its operator, with no mailbox, no *)
(* coordinator process and no key-value store: an ordered ledger of        *)
(* accepted runs.                                                          *)
(*                                                                         *)
(* Runs are judged once and for all.  A run is "open" while it may still   *)
(* be accepted, "valid" once it has finished with a usable output, and     *)
(* "void" once it has failed, has been cancelled, has outlived its         *)
(* deadline or has been named in an operator's interruption request.  The  *)
(* ledger accepts valid runs only, one per turn, in turn order, never the  *)
(* same run twice, and nothing changes once the session has ended.         *)
(***************************************************************************)
EXTENDS Naturals, Sequences

CONSTANTS
  NumTurns,     \* number of turns (checkpoints, countdown values) of the job
  Runs          \* identifiers of agent runs

VARIABLES
  status,       \* RelaySession.status
  accepted,     \* RelaySession.acceptedTurns: the accepted runs, in order
  verdict       \* what is known of each run

ledgerVars == <<status, accepted, verdict>>

Accepted == {accepted[i] : i \in 1..Len(accepted)}

Init ==
  /\ status = "running"
  /\ accepted = <<>>
  /\ verdict = [r \in Runs |-> "open"]

\* Runs finish, fail, are cancelled or are given up, any number at a time (a
\* server crash voids every run in progress).  The verdict on an accepted run
\* no longer changes, and a void run stays void.
Judge ==
  /\ verdict' \in [Runs -> {"open", "valid", "void"}]
  /\ \A r \in Runs :
       \/ verdict'[r] = verdict[r]
       \/ verdict[r] = "open"
       \/ verdict[r] = "valid" /\ r \notin Accepted /\ verdict'[r] = "void"
  /\ UNCHANGED <<status, accepted>>

\* The next turn of a running session is settled by a valid, unused run.
Accept(r) ==
  /\ status = "running"
  /\ Len(accepted) < NumTurns
  /\ verdict[r] = "valid"
  /\ r \notin Accepted
  /\ accepted' = Append(accepted, r)
  /\ status' = IF Len(accepted) + 1 = NumTurns THEN "completed" ELSE "running"
  /\ UNCHANGED verdict

\* A running session is cancelled by an operator or fails for good.
End ==
  /\ status = "running"
  /\ status' \in {"failed", "cancelled"}
  /\ UNCHANGED <<accepted, verdict>>

Next ==
  \/ Judge
  \/ \E r \in Runs : Accept(r)
  \/ End

Spec == Init /\ [][Next]_ledgerVars
=============================================================================

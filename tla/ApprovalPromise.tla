--------------------------- MODULE ApprovalPromise ---------------------------
(***************************************************************************)
(* What the owner of the wallet may rely on when approve-permit2 is run,   *)
(* without any mention of prompts, mempools, receipts or blocks:           *)
(*                                                                         *)
(*   - a run changes what Permit2 may move at most once, to the amount it  *)
(*     was given, and only if its user agreed;                             *)
(*   - a run that reports how its approval ended reports what happened;    *)
(*     one that says it stopped before will not change anything later.     *)
(***************************************************************************)
EXTENDS Integers

CONSTANTS
  Runs,       \* runs of the command
  Amounts,    \* the amounts to approve
  Allowances  \* what Permit2 may move at first

VARIABLES
  granted,    \* what Permit2 may move
  wanted,     \* the amount of each run
  agreed,     \* the runs whose user agreed to an approval
  effect,     \* what became of each run's approval
  verdict     \* what each run reported

promiseVars == <<granted, wanted, agreed, effect, verdict>>

Effects == {"none", "set", "reverted"}
Verdicts == {"open", "sufficient", "refused", "approved", "reverted", "unknown"}

Init ==
  /\ granted \in Allowances
  /\ wanted \in [Runs -> Amounts]
  /\ agreed \in SUBSET Runs
  /\ effect = [r \in Runs |-> "none"]
  /\ verdict = [r \in Runs |-> "open"]

Agree(r) ==
  /\ verdict[r] = "open"
  /\ agreed' = agreed \cup {r}
  /\ UNCHANGED <<granted, wanted, effect, verdict>>

\* The approval takes effect or reverts, perhaps after its run gave up.
TakeEffect(r) ==
  /\ r \in agreed
  /\ effect[r] = "none"
  /\ verdict[r] \in {"open", "unknown"}
  /\ \/ effect' = [effect EXCEPT ![r] = "set"] /\ granted' = wanted[r]
     \/ effect' = [effect EXCEPT ![r] = "reverted"] /\ UNCHANGED granted
  /\ UNCHANGED <<wanted, agreed, verdict>>

Conclude(r, v) ==
  /\ verdict[r] = "open"
  /\ \/ v = "sufficient" /\ effect[r] = "none" /\ granted >= wanted[r]
     \/ v = "refused" /\ effect[r] = "none"
     \/ v = "approved" /\ effect[r] = "set"
     \/ v = "reverted" /\ effect[r] = "reverted"
     \/ v = "unknown"
  /\ verdict' = [verdict EXCEPT ![r] = v]
  /\ UNCHANGED <<granted, wanted, agreed, effect>>

\* A settlement draws on the allowance.
Settle ==
  /\ granted' \in 0 .. granted - 1
  /\ UNCHANGED <<wanted, agreed, effect, verdict>>

Next ==
  \/ \E r \in Runs : \/ Agree(r) \/ TakeEffect(r)
                     \/ \E v \in Verdicts : Conclude(r, v)
  \/ Settle

Spec == Init /\ [][Next]_promiseVars

=============================================================================

------------------------------ MODULE Approve ------------------------------
(***************************************************************************)
(* approve-permit2 (commands/approve.rs): the one command that broadcasts  *)
(* a transaction.  It reads the USDC allowance of Permit2, stops when that *)
(* suffices, asks, sends USDC.approve and waits for the receipt.           *)
(*                                                                         *)
(* A run is one process; several may be busy with the same wallet, one may *)
(* follow another that was interrupted or lost its transaction, and what   *)
(* the allowance was granted for goes on meanwhile: settlements draw on    *)
(* it.  Between two awaits of the command, or while its prompt is open,    *)
(* the chain moves on.                                                     *)
(***************************************************************************)
EXTENDS Integers, Sequences, FiniteSets

CONSTANTS
  Runs,        \* runs of the command, for one wallet
  Amounts,     \* the amounts to approve: U256::MAX is just the largest
  Allowances,  \* the allowances Permit2 may have at first
  MaxDraws     \* bound on the settlements that draw on the allowance

ASSUME ApproveAssumption ==
  /\ Amounts \subseteq Nat
  /\ Allowances \subseteq Nat
  /\ MaxDraws \in Nat
  /\ "settlement" \notin Runs

VARIABLES
  pc,         \* where each run is: see States
  requested,  \* --amount
  yes,        \* --yes
  consent,    \* the runs whose prompt was answered with y
  outcome,    \* how each run ended: see Outcomes
  readAt,     \* how long the ledger was when a run read the allowance
  mempool,    \* the runs whose transaction is broadcast and not mined
  ledger,     \* what happened to the allowance, in block order
  allowance   \* USDC.allowance(owner, PERMIT2)

runVars == <<pc, requested, yes, consent, outcome, readAt>>
chainVars == <<mempool, ledger, allowance>>
vars == <<runVars, chainVars>>

States == {"idle", "resolving", "reading", "asking", "sending", "waiting", "over"}

\* The ends before a transaction, and the ends after one may have been sent.
Before == {"noRef", "noKey", "readFailed", "nothingToDo", "aborted"}
After == {"sendFailed", "receiptFailed", "reverted", "approved"}
Outcomes == {"none", "interrupted"} \cup Before \cup After

\* A ledger entry: who changed the allowance (the run whose transaction it
\* was, or a settlement), whether the transaction succeeded, and the allowance
\* before and after it.
Settlement == "settlement"
Entry == [by : Runs \cup {Settlement}, ok : BOOLEAN, was : Nat, is : Nat]

Init ==
  /\ pc = [r \in Runs |-> "idle"]
  /\ requested \in [Runs -> Amounts]
  /\ yes \in [Runs -> BOOLEAN]
  /\ consent = {}
  /\ outcome = [r \in Runs |-> "none"]
  /\ readAt = [r \in Runs |-> 0]
  /\ mempool = {}
  /\ ledger = << >>
  /\ allowance \in Allowances

----------------------------------------------------------------------------
(* The command *)

Goto(r, state) == pc' = [pc EXCEPT ![r] = state] /\ UNCHANGED outcome

Ends(r, how) ==
  /\ pc' = [pc EXCEPT ![r] = "over"]
  /\ outcome' = [outcome EXCEPT ![r] = how]

\* X402_KEY_REF is empty, or it is not and the key is asked for.
Start(r) ==
  /\ pc[r] = "idle"
  /\ Ends(r, "noRef") \/ Goto(r, "resolving")
  /\ UNCHANGED <<requested, yes, consent, readAt, chainVars>>

\* The config does not load, the resolver fails, or what it returns is no key;
\* otherwise the run has its signer.
Resolve(r) ==
  /\ pc[r] = "resolving"
  /\ Ends(r, "noKey") \/ Goto(r, "reading")
  /\ UNCHANGED <<requested, yes, consent, readAt, chainVars>>

\* Is the allowance sufficient?  The comparison with an off-by-one, the test
\* for the very amount, and the comparison of the code.
Exceeds(current, wanted) == current > wanted
Matches(current, wanted) == current = wanted
Suffices(current, wanted) == current >= wanted

\* A look whose result only the prompt shows, and --yes asks no prompt.
ReadAllowanceToAsk(r) ==
  /\ pc[r] = "reading"
  /\ IF Suffices(allowance, requested[r]) /\ ~yes[r]
       THEN Ends(r, "nothingToDo")
       ELSE Goto(r, IF yes[r] THEN "sending" ELSE "asking")
  /\ readAt' = [readAt EXCEPT ![r] = Len(ledger)]
  /\ UNCHANGED <<requested, yes, consent, chainVars>>

ReadAllowance(r) ==
  /\ pc[r] = "reading"
  /\ IF Suffices(allowance, requested[r])
       THEN Ends(r, "nothingToDo")
       ELSE Goto(r, IF yes[r] THEN "sending" ELSE "asking")
  /\ readAt' = [readAt EXCEPT ![r] = Len(ledger)]
  /\ UNCHANGED <<requested, yes, consent, chainVars>>

ReadFails(r) ==
  /\ pc[r] = "reading"
  /\ Ends(r, "readFailed")
  /\ UNCHANGED <<requested, yes, consent, readAt, chainVars>>

\* A prompt that takes any answer for consent.
ConfirmAnything(r) ==
  /\ pc[r] = "asking"
  /\ Goto(r, "sending")
  /\ consent' = consent \cup {r} \/ UNCHANGED consent
  /\ UNCHANGED <<requested, yes, readAt, chainVars>>

\* The prompt: y goes on, everything else, and a failing stdin, does not.
Confirm(r) ==
  /\ pc[r] = "asking"
  /\ \/ Goto(r, "sending") /\ consent' = consent \cup {r}
     \/ Ends(r, "aborted") /\ UNCHANGED consent
  /\ UNCHANGED <<requested, yes, readAt, chainVars>>

Broadcast(r) == mempool' = mempool \cup {r} /\ UNCHANGED <<ledger, allowance>>

\* The node takes the transaction.
Send(r) ==
  /\ pc[r] = "sending"
  /\ Goto(r, "waiting")
  /\ Broadcast(r)
  /\ UNCHANGED <<requested, yes, consent, readAt>>

\* send() fails: the gas estimate or the transaction was refused, or the node
\* took it and the reply was lost.
SendFails(r) ==
  /\ pc[r] = "sending"
  /\ Ends(r, "sendFailed")
  /\ Broadcast(r) \/ UNCHANGED chainVars
  /\ UNCHANGED <<requested, yes, consent, readAt>>

\* The receipt taken as such, without a look at its status; and a wait that
\* only a success ends.
ReceiptIsSuccess(r) ==
  /\ pc[r] = "waiting"
  /\ \E i \in DOMAIN ledger : ledger[i].by = r
  /\ Ends(r, "approved")
  /\ UNCHANGED <<requested, yes, consent, readAt, chainVars>>

ReceiptOfSuccess(r) ==
  /\ pc[r] = "waiting"
  /\ \E i \in DOMAIN ledger : ledger[i].by = r /\ ledger[i].ok
  /\ Ends(r, "approved")
  /\ UNCHANGED <<requested, yes, consent, readAt, chainVars>>

\* The transaction was mined and the run gets its receipt.
Receipt(r) ==
  /\ pc[r] = "waiting"
  /\ \E i \in DOMAIN ledger :
        /\ ledger[i].by = r
        /\ Ends(r, IF ledger[i].ok THEN "approved" ELSE "reverted")
  /\ UNCHANGED <<requested, yes, consent, readAt, chainVars>>

\* A lost receipt reported as if nothing had been sent.
ReceiptFailsAsAborted(r) ==
  /\ pc[r] = "waiting"
  /\ Ends(r, "aborted")
  /\ UNCHANGED <<requested, yes, consent, readAt, chainVars>>

\* The wait for the receipt fails; the transaction may still be mined.
ReceiptFails(r) ==
  /\ pc[r] = "waiting"
  /\ Ends(r, "receiptFailed")
  /\ UNCHANGED <<requested, yes, consent, readAt, chainVars>>

\* The user interrupts the run; what it broadcast remains.
Interrupt(r) ==
  /\ pc[r] \notin {"idle", "over"}
  /\ Ends(r, "interrupted")
  /\ UNCHANGED <<requested, yes, consent, readAt, chainVars>>

Step(r) ==
  \/ Start(r)
  \/ Resolve(r)
  \/ ReadAllowance(r) \/ ReadFails(r)
  \/ Confirm(r)
  \/ Send(r) \/ SendFails(r)
  \/ Receipt(r) \/ ReceiptFails(r)

----------------------------------------------------------------------------
(* The chain.  Transactions are mined in any order here: the order in which *)
(* a run's nonce places them is one of them.                                *)

Becomes(by, ok, amount) ==
  /\ ledger' = Append(ledger, [by |-> by, ok |-> ok, was |-> allowance, is |-> amount])
  /\ allowance' = amount

\* USDC.approve(PERMIT2, requested) is mined: it sets the allowance, whatever
\* it was, or it reverts.
Mine ==
  /\ \E r \in mempool :
        /\ mempool' = mempool \ {r}
        /\ Becomes(r, TRUE, requested[r]) \/ Becomes(r, FALSE, allowance)
  /\ UNCHANGED runVars

\* A pending transaction is replaced or forgotten.
Forget ==
  /\ \E r \in mempool : mempool' = mempool \ {r}
  /\ UNCHANGED <<ledger, allowance, runVars>>

Draws == {i \in DOMAIN ledger : ledger[i].by = Settlement}

\* An upto payment is settled.
Draw ==
  /\ Cardinality(Draws) < MaxDraws
  /\ \E x \in 1 .. allowance : Becomes(Settlement, TRUE, allowance - x)
  /\ UNCHANGED <<mempool, runVars>>

Finished ==
  /\ \A r \in Runs : pc[r] = "over"
  /\ UNCHANGED vars

Next ==
  \/ \E r \in Runs : Step(r) \/ Interrupt(r)
  \/ Mine \/ Forget \/ Draw
  \/ Finished

Spec == Init /\ [][Next]_vars

\* A run that was started goes on: the RPC endpoint answers or fails, the user
\* answers the prompt, a transaction is mined unless it is forgotten, and its
\* receipt is delivered.  Nothing makes the wait for a receipt fail.
Fairness ==
  /\ WF_vars(Mine)
  /\ \A r \in Runs :
        WF_vars(Resolve(r) \/ ReadAllowance(r) \/ Confirm(r) \/ Send(r) \/ Receipt(r))

FairSpec == Spec /\ Fairness

----------------------------------------------------------------------------
(* Properties *)

InLedger(r) == \E i \in DOMAIN ledger : ledger[i].by = r
Sent(r) == r \in mempool \/ InLedger(r)

TypeOK ==
  /\ pc \in [Runs -> States]
  /\ requested \in [Runs -> Amounts]
  /\ yes \in [Runs -> BOOLEAN]
  /\ consent \subseteq Runs
  /\ outcome \in [Runs -> Outcomes]
  /\ readAt \in [Runs -> Nat]
  /\ mempool \subseteq Runs
  /\ ledger \in Seq(Entry)
  /\ allowance \in Nat

\* The allowance when a run looked at it.
Seen(r) ==
  IF readAt[r] < Len(ledger) THEN ledger[readAt[r] + 1].was ELSE allowance

\* Money is spent on gas, and Permit2 empowered, only with the user's consent,
\* and only by a run that found the allowance too small, however long ago it
\* looked (approve.rs:105-127).
OnlyWithConsent ==
  \A r \in Runs : Sent(r) => /\ yes[r] \/ r \in consent
                            /\ Seen(r) < requested[r]

\* What a run reports is true: one that ends before its transaction sent none,
\* not even later, "reverted" and "approved" are what the chain says of its
\* transaction (approve.rs:109-144).
TruthfulReports ==
  \A r \in Runs :
    /\ outcome[r] \in Before => ~Sent(r)
    /\ outcome[r] = "approved" => \E i \in DOMAIN ledger : ledger[i].by = r /\ ledger[i].ok
    /\ outcome[r] = "reverted" => \E i \in DOMAIN ledger : ledger[i].by = r /\ ~ledger[i].ok

\* "The wallet is now ready": the run saw the chain in a state in which Permit2
\* may move the requested amount, and only what happened since can have changed
\* that (approve.rs:109-112, 140-144).
ReadyWhenReported ==
  \A r \in Runs :
    /\ outcome[r] = "nothingToDo" /\ readAt[r] = Len(ledger) => allowance >= requested[r]
    /\ outcome[r] = "approved" /\ ledger # << >> /\ ledger[Len(ledger)].by = r =>
         allowance >= requested[r]

\* A transaction that takes effect although the allowance would have sufficed
\* (it changes nothing, or lowers it) was overtaken: between its run's look at
\* the allowance and its block another run's approval was mined.  Settlements
\* alone never cause one, nor does a run that comes later (approve.rs:103-112).
NeedlessOnlyWhenOvertaken ==
  \A i \in DOMAIN ledger :
    LET r == ledger[i].by
    IN  r \in Runs /\ ledger[i].ok /\ ledger[i].was >= requested[r] =>
          \E j \in readAt[r] + 1 .. i - 1 : ledger[j].ok /\ ledger[j].by \in Runs \ {r}

\* What became of a run's approval, and what its report amounts to.
Effect(r) ==
  IF \E i \in DOMAIN ledger : ledger[i].by = r /\ ledger[i].ok THEN "set"
  ELSE IF InLedger(r) THEN "reverted"
  ELSE "none"

Verdict(r) ==
  IF outcome[r] = "none" THEN "open"
  ELSE IF outcome[r] = "nothingToDo" THEN "sufficient"
  ELSE IF outcome[r] \in Before THEN "refused"
  ELSE IF outcome[r] \in {"approved", "reverted"} THEN outcome[r]
  ELSE "unknown"

Promise == INSTANCE ApprovalPromise WITH
  granted <- allowance,
  wanted  <- requested,
  agreed  <- {r \in Runs : yes[r]} \cup consent,
  effect  <- [r \in Runs |-> Effect(r)],
  verdict <- [r \in Runs |-> Verdict(r)]

\* However runs overlap, are cut off or lose their transactions, each of them
\* keeps the promise: one change of the allowance at most, agreed to, and a
\* report that nothing contradicts later (approve.rs:63-145 as a whole).
KeepsApproval == Promise!Spec

\* A run waits for a transaction that nobody knows any more.
Forgotten(r) == pc[r] = "waiting" /\ ~Sent(r)

\* Every run that was started ends, unless the network forgets its transaction:
\* get_receipt has no timeout (approve.rs:136-139).
EndsUnlessForgotten ==
  \A r \in Runs : pc[r] \notin {"idle", "over"} ~> pc[r] = "over" \/ Forgotten(r)

\* "Idempotent: skip if already approved for at least the requested amount"
\* (approve.rs:103): no transaction is sent while the allowance suffices.  The
\* code looks before the prompt and sends after it.
SkipsIfApproved ==
  [][\A r \in mempool' \ mempool : allowance < requested[r]]_vars

=============================================================================

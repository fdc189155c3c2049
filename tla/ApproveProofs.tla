--------------------------- MODULE ApproveProofs ---------------------------
(***************************************************************************)
(* Theorems about Approve, for any number of runs, amounts and             *)
(* settlements.  The inductive invariant is the conjunction of TypeInv,    *)
(* SentInv (what a run has sent at each point, and with whose consent),    *)
(* BookInv (the ledger and the allowance), SeenInv (what a run that goes   *)
(* on saw there), and OvertakenInv (what a run's look at the allowance is  *)
(* still worth).  With it every step of a run or of the chain is a step of *)
(* ApprovalPromise, or is not seen there.                                  *)
(***************************************************************************)
EXTENDS Approve, TLAPS

----------------------------------------------------------------------------
(* Types *)

\* The typing facts a step needs of an entry appended to the ledger: it is
\* one, and everything before it stays where it was.
LEMMA Appended ==
  ASSUME TypeOK, NEW e \in Entry, ledger' = Append(ledger, e)
  PROVE  /\ ledger' \in Seq(Entry)
         /\ Len(ledger') = Len(ledger) + 1
         /\ ledger'[Len(ledger) + 1] = e
         /\ \A i \in 1 .. Len(ledger) : ledger'[i] = ledger[i]
         /\ DOMAIN ledger' = 1 .. Len(ledger) + 1
         /\ DOMAIN ledger = 1 .. Len(ledger)
         /\ Len(ledger) \in Nat
  BY DEF TypeOK

\* What every step of the chain does to the ledger: nothing, or one entry,
\* whose "before" is the allowance and whose "after" becomes it; a run's entry
\* comes from the mempool.
LEMMA ChainSteps ==
  ASSUME TypeOK, [Next]_vars
  PROVE  \/ /\ UNCHANGED <<ledger, allowance>>
            /\ \A r \in mempool' \ mempool : pc[r] = "sending"
         \/ \E e \in Entry :
              /\ ledger' = Append(ledger, e)
              /\ allowance' = e.is
              /\ e.was = allowance
              /\ UNCHANGED runVars
              /\ \/ /\ e.by \in mempool
                    /\ mempool' = mempool \ {e.by}
                    /\ e.is = IF e.ok THEN requested[e.by] ELSE allowance
                 \/ /\ e.by = Settlement /\ e.by \notin Runs
                    /\ mempool' = mempool
                    /\ e.is <= allowance
  <1>1. CASE Mine
    <2>1. PICK r \in mempool :
            /\ mempool' = mempool \ {r}
            /\ Becomes(r, TRUE, requested[r]) \/ Becomes(r, FALSE, allowance)
      BY <1>1 DEF Mine
    <2>2. r \in Runs /\ requested[r] \in Nat /\ allowance \in Nat /\ UNCHANGED runVars
      BY <1>1, ApproveAssumption DEF TypeOK, Mine
    <2>3. CASE Becomes(r, TRUE, requested[r])
      <3> DEFINE e == [by |-> r, ok |-> TRUE, was |-> allowance, is |-> requested[r]]
      <3>1. e \in Entry BY <2>2 DEF Entry
      <3>2. QED BY <2>1, <2>2, <2>3, <3>1 DEF Becomes
    <2>4. CASE Becomes(r, FALSE, allowance)
      <3> DEFINE e == [by |-> r, ok |-> FALSE, was |-> allowance, is |-> allowance]
      <3>1. e \in Entry BY <2>2 DEF Entry
      <3>2. QED BY <2>1, <2>2, <2>4, <3>1 DEF Becomes
    <2>5. QED BY <2>1, <2>3, <2>4
  <1>2. CASE Draw
    <2>1. PICK x \in 1 .. allowance : Becomes(Settlement, TRUE, allowance - x)
      BY <1>2 DEF Draw
    <2> DEFINE e == [by |-> Settlement, ok |-> TRUE, was |-> allowance, is |-> allowance - x]
    <2>2. allowance \in Nat /\ allowance - x \in Nat /\ allowance - x <= allowance
      BY DEF TypeOK
    <2>3. e \in Entry BY <2>2 DEF Entry
    <2>4. QED BY <1>2, <2>1, <2>2, <2>3, ApproveAssumption DEF Draw, Becomes, Settlement
  <1>3. CASE Forget \/ Finished \/ UNCHANGED vars
    BY <1>3 DEF Forget, Finished, vars, chainVars
  <1>4. ASSUME NEW r \in Runs, Step(r) \/ Interrupt(r)
        PROVE  UNCHANGED <<ledger, allowance>> /\ \A q \in mempool' \ mempool : pc[q] = "sending"
    BY <1>4 DEF Step, Interrupt, Start, Resolve, ReadAllowance, ReadFails, Confirm, Send,
                SendFails, Receipt, ReceiptFails, Broadcast, chainVars
  <1>5. QED BY <1>1, <1>2, <1>3, <1>4 DEF Next

\* A run whose state changes is at work; what it changes, and where it goes.
LEMMA RunSteps ==
  ASSUME TypeOK, [Next]_vars
  PROVE  /\ UNCHANGED <<requested, yes>>
         /\ \/ UNCHANGED runVars /\ mempool' \subseteq mempool
            \/ \E r \in Runs :
                 /\ Step(r) \/ Interrupt(r)
                 /\ \A q \in Runs \ {r} :
                      /\ pc'[q] = pc[q] /\ outcome'[q] = outcome[q] /\ readAt'[q] = readAt[q]
                      /\ q \in consent' <=> q \in consent
                      /\ q \in mempool' <=> q \in mempool
  <1>1. CASE Mine \/ Forget \/ Draw \/ Finished \/ UNCHANGED vars
    BY <1>1 DEF Mine, Forget, Draw, Finished, vars, runVars, chainVars
  <1>2. ASSUME NEW r \in Runs, Step(r) \/ Interrupt(r)
        PROVE  /\ UNCHANGED <<requested, yes>>
               /\ \A q \in Runs \ {r} :
                      /\ pc'[q] = pc[q] /\ outcome'[q] = outcome[q] /\ readAt'[q] = readAt[q]
                      /\ q \in consent' <=> q \in consent
                      /\ q \in mempool' <=> q \in mempool
    BY <1>2 DEF TypeOK, Step, Interrupt, Start, Resolve, ReadAllowance, ReadFails, Confirm,
                Send, SendFails, Receipt, ReceiptFails, Broadcast, Goto, Ends, chainVars
  <1>3. QED BY <1>1, <1>2 DEF Next

LEMMA TypeStep == TypeOK /\ [Next]_vars => TypeOK'
  <1> SUFFICES ASSUME TypeOK, [Next]_vars PROVE TypeOK'
    OBVIOUS
  <1>1. ledger' \in Seq(Entry) /\ allowance' \in Nat
    <2>1. CASE UNCHANGED <<ledger, allowance>>
      BY <2>1 DEF TypeOK
    <2>2. ASSUME NEW e \in Entry, ledger' = Append(ledger, e), allowance' = e.is
          PROVE  ledger' \in Seq(Entry) /\ allowance' \in Nat
      BY <2>2, Appended DEF Entry
    <2>3. QED BY <2>1, <2>2, ChainSteps
  <1>2. CASE Mine \/ Forget \/ Draw \/ Finished \/ UNCHANGED vars
    BY <1>1, <1>2 DEF TypeOK, Mine, Forget, Draw, Finished, vars, runVars, chainVars
  <1>3. ASSUME NEW r \in Runs, Step(r) \/ Interrupt(r) PROVE TypeOK'
    <2>1. Len(ledger) \in Nat BY DEF TypeOK
    <2>2. QED
      BY <1>1, <1>3, <2>1
      DEF TypeOK, Step, Interrupt, Start, Resolve, ReadAllowance, ReadFails, Confirm, Send,
          SendFails, Receipt, ReceiptFails, Broadcast, Goto, Ends, chainVars, States,
          Outcomes, Before, After
  <1>4. QED BY <1>2, <1>3 DEF Next

\* Every run of the command keeps to its types.
THEOREM TypeCorrect == Spec => []TypeOK
  <1>1. Init => TypeOK
    BY ApproveAssumption DEF Init, TypeOK, States, Outcomes
  <1>2. QED BY <1>1, TypeStep, PTL DEF Spec

----------------------------------------------------------------------------
(* What was sent, with whose consent, and what is reported *)

\* Where a run has sent nothing yet.
Early == {"idle", "resolving", "reading", "asking", "sending"}

SentFor(r) ==
  /\ pc[r] # "over" => outcome[r] = "none"
  /\ pc[r] \in Early \/ outcome[r] \in Before => ~Sent(r)
  /\ pc[r] \in {"sending", "waiting"} \/ Sent(r) => yes[r] \/ r \in consent
  /\ ~(r \in mempool /\ InLedger(r))

SentInv == \A r \in Runs : SentFor(r)

\* A step of the chain sends nothing for a run, and a step of a run nothing for
\* another: a run that has sent something afterwards had before, or is the one
\* at "sending" now.
LEMMA WhoSends ==
  ASSUME TypeOK, [Next]_vars, NEW r \in Runs, Sent(r)'
  PROVE  Sent(r) \/ (pc[r] = "sending" /\ r \in mempool' /\ ~InLedger(r)')
  <1>1. CASE UNCHANGED <<ledger, allowance>> /\ \A q \in mempool' \ mempool : pc[q] = "sending"
    BY <1>1 DEF Sent, InLedger
  <1>2. ASSUME NEW e \in Entry, ledger' = Append(ledger, e), mempool' \subseteq mempool,
               e.by \in mempool \/ e.by \notin Runs
        PROVE  Sent(r)
    BY <1>2, Appended DEF Sent, InLedger
  <1>3. QED BY <1>1, <1>2, ChainSteps

\* The transaction of r was mined, with this status.
Mined(r, status) == \E i \in DOMAIN ledger : ledger[i].by = r /\ ledger[i].ok = status

\* What is in the ledger stays there.
LEMMA LedgerKeeps ==
  ASSUME TypeOK, [Next]_vars, NEW r \in Runs
  PROVE  /\ InLedger(r) => InLedger(r)'
         /\ Mined(r, TRUE) => Mined(r, TRUE)'
         /\ Mined(r, FALSE) => Mined(r, FALSE)'
  <1>1. CASE UNCHANGED <<ledger, allowance>>
    BY <1>1 DEF InLedger, Mined
  <1>2. ASSUME NEW e \in Entry, ledger' = Append(ledger, e)
        PROVE  /\ InLedger(r) => InLedger(r)'
               /\ Mined(r, TRUE) => Mined(r, TRUE)'
               /\ Mined(r, FALSE) => Mined(r, FALSE)'
    BY <1>2, Appended DEF InLedger, Mined
  <1>3. QED BY <1>1, <1>2, ChainSteps

LEMMA SentInvStep == TypeOK /\ SentInv /\ [Next]_vars => SentInv'
  <1> SUFFICES ASSUME TypeOK, SentInv, [Next]_vars, NEW r \in Runs
               PROVE  SentFor(r)'
    BY DEF SentInv
  <1>1. ~(r \in mempool' /\ InLedger(r)')
    <2>1. CASE UNCHANGED <<ledger, allowance>> /\ \A q \in mempool' \ mempool : pc[q] = "sending"
      BY <2>1 DEF SentInv, SentFor, Early, Sent, InLedger
    <2>2. ASSUME NEW e \in Entry, ledger' = Append(ledger, e), e.by \in mempool,
                 mempool' = mempool \ {e.by}
          PROVE  ~(r \in mempool' /\ InLedger(r)')
      BY <2>2, Appended DEF SentInv, SentFor, InLedger
    <2>3. ASSUME NEW e \in Entry, ledger' = Append(ledger, e), e.by \notin Runs,
                 mempool' = mempool
          PROVE  ~(r \in mempool' /\ InLedger(r)')
      BY <2>3, Appended DEF SentInv, SentFor, InLedger
    <2>4. QED BY <2>1, <2>2, <2>3, ChainSteps
  <1>2. CASE UNCHANGED runVars /\ mempool' \subseteq mempool
    BY <1>1, <1>2, WhoSends DEF SentInv, SentFor, Sent, runVars
  <1>3. ASSUME NEW q \in Runs, q # r, pc'[r] = pc[r], outcome'[r] = outcome[r],
               r \in consent' <=> r \in consent, r \in mempool' <=> r \in mempool
        PROVE  SentFor(r)'
    BY <1>1, <1>3, WhoSends, RunSteps DEF SentInv, SentFor, Sent
  <1>4. ASSUME Step(r) \/ Interrupt(r)
        PROVE  SentFor(r)'
    <2>1. UNCHANGED yes BY RunSteps
    <2>2. CASE Send(r) \/ SendFails(r)
      BY <1>1, <2>1, <2>2 DEF TypeOK, SentInv, SentFor, Send, SendFails, Goto, Ends, Early, Before
    <2>3. CASE Confirm(r)
      BY <1>1, <2>1, <2>3
      DEF TypeOK, SentInv, SentFor, Sent, InLedger, Confirm, Goto, Ends, Early, Before, chainVars
    <2>4. CASE Receipt(r) \/ ReceiptFails(r) \/ Interrupt(r)
      BY <1>1, <2>1, <2>4
      DEF TypeOK, SentInv, SentFor, Sent, InLedger, Receipt, ReceiptFails, Interrupt, Ends,
          Early, Before, chainVars
    <2>5. CASE Start(r) \/ Resolve(r) \/ ReadFails(r)
      BY <1>1, <2>1, <2>5
      DEF TypeOK, SentInv, SentFor, Sent, InLedger, Start, Resolve, ReadFails, Goto, Ends,
          Early, Before, chainVars
    <2>6. CASE ReadAllowance(r)
      BY <1>1, <2>1, <2>6
      DEF TypeOK, SentInv, SentFor, Sent, InLedger, ReadAllowance, Goto, Ends, Early, Before, chainVars
    <2>7. QED BY <1>4, <2>2, <2>3, <2>4, <2>5, <2>6 DEF Step
  <1>5. QED BY <1>2, <1>3, <1>4, RunSteps

\* What a run says of its transaction is in the ledger.
ReportFor(r) ==
  /\ outcome[r] = "approved" => Mined(r, TRUE)
  /\ outcome[r] = "reverted" => Mined(r, FALSE)

ReportInv == \A r \in Runs : ReportFor(r)

LEMMA ReportInvStep == TypeOK /\ ReportInv /\ [Next]_vars => ReportInv'
  <1> SUFFICES ASSUME TypeOK, ReportInv, [Next]_vars, NEW r \in Runs
               PROVE  ReportFor(r)'
    BY DEF ReportInv
  <1>1. CASE outcome'[r] = outcome[r] \/ outcome'[r] \notin {"approved", "reverted"}
    BY <1>1, LedgerKeeps DEF ReportInv, ReportFor
  <1>2. CASE Step(r) \/ Interrupt(r)
    <2>1. CASE Receipt(r)
      <3>1. PICK i \in DOMAIN ledger :
              ledger[i].by = r /\ Ends(r, IF ledger[i].ok THEN "approved" ELSE "reverted")
        BY <2>1 DEF Receipt
      <3>2. ledger[i].ok \in BOOLEAN
        <4>1. ledger[i] \in Entry BY DEF TypeOK
        <4>2. QED BY <4>1 DEF Entry
      <3>3. ledger' = ledger BY <2>1 DEF Receipt, chainVars
      <3>4. outcome'[r] = IF ledger[i].ok THEN "approved" ELSE "reverted"
        BY <3>1 DEF Ends, TypeOK
      <3>5. QED BY <3>1, <3>2, <3>3, <3>4 DEF ReportFor, Mined
    <2>2. CASE ~Receipt(r)
      <3>1. outcome'[r] = outcome[r] \/ outcome'[r] \notin {"approved", "reverted"}
        BY <1>2, <2>2
        DEF TypeOK, Step, Interrupt, Start, Resolve, ReadAllowance, ReadFails, Confirm, Send,
            SendFails, ReceiptFails, Goto, Ends
      <3>2. QED BY <3>1, <1>1
    <2>3. QED BY <2>1, <2>2
  <1>3. QED BY <1>1, <1>2, RunSteps DEF runVars

----------------------------------------------------------------------------
(* The ledger and the allowance *)

BookInv ==
  /\ ledger # << >> => ledger[Len(ledger)].is = allowance
  /\ \A i \in 1 .. Len(ledger) :
        ledger[i].by \in Runs /\ ledger[i].ok => ledger[i].is = requested[ledger[i].by]
  /\ \A i, j \in 1 .. Len(ledger) :
        ledger[i].by \in Runs /\ ledger[i].by = ledger[j].by => i = j
  /\ \A r \in Runs :
        /\ readAt[r] <= Len(ledger)
        /\ outcome[r] = "nothingToDo" /\ readAt[r] = Len(ledger) => allowance >= requested[r]

\* What a run read is of the ledger as it is or was.
LEMMA Reads ==
  ASSUME TypeOK, SentInv, BookInv, [Next]_vars, UNCHANGED <<ledger, allowance>>, NEW r \in Runs
  PROVE  /\ readAt'[r] <= Len(ledger)
         /\ outcome'[r] = "nothingToDo" /\ readAt'[r] = Len(ledger) => allowance >= requested[r]
  <1>1. Len(ledger) \in Nat BY DEF TypeOK
  <1>2. CASE outcome'[r] = outcome[r] /\ readAt'[r] = readAt[r]
    BY <1>2 DEF BookInv
  <1>3. CASE Step(r) \/ Interrupt(r)
    <2>1. CASE ReadAllowance(r)
      BY <1>1, <2>1 DEF TypeOK, SentInv, SentFor, ReadAllowance, Suffices, Goto, Ends, BookInv
    <2>2. CASE ~ReadAllowance(r)
      <3>1. readAt'[r] = readAt[r] /\ (outcome'[r] = outcome[r] \/ outcome'[r] # "nothingToDo")
        BY <1>3, <2>2
        DEF TypeOK, Step, Interrupt, Start, Resolve, ReadFails, Confirm, Send, SendFails,
            Receipt, ReceiptFails, Goto, Ends
      <3>2. QED BY <3>1 DEF BookInv
    <2>3. QED BY <2>1, <2>2
  <1>4. QED BY <1>2, <1>3, RunSteps DEF runVars

LEMMA BookInvStep == TypeOK /\ SentInv /\ BookInv /\ [Next]_vars => BookInv'
  <1> SUFFICES ASSUME TypeOK, SentInv, BookInv, [Next]_vars PROVE BookInv'
    OBVIOUS
  <1>0. UNCHANGED requested BY RunSteps
  <1>1. CASE UNCHANGED <<ledger, allowance>>
    BY <1>0, <1>1, Reads DEF BookInv
  <1>2. ASSUME NEW e \in Entry, ledger' = Append(ledger, e), allowance' = e.is, UNCHANGED runVars,
               \/ e.by \in mempool /\ e.is = IF e.ok THEN requested[e.by] ELSE allowance
               \/ e.by \notin Runs
        PROVE  BookInv'
    <2> DEFINE n == Len(ledger)
    <2>1. /\ n \in Nat /\ Len(ledger') = n + 1 /\ ledger'[n + 1] = e
          /\ \A i \in 1 .. n : ledger'[i] = ledger[i]
      BY <1>2, Appended
    <2>2. (ledger # << >> => ledger[Len(ledger)].is = allowance)'
      BY <1>2, <2>1
    <2>3. \A i \in 1 .. n + 1 :
            ledger'[i].by \in Runs /\ ledger'[i].ok => ledger'[i].is = requested[ledger'[i].by]
      BY <1>2, <2>1 DEF BookInv
    <2>4. e.by \in Runs => \A i \in 1 .. n : ledger[i].by # e.by
      BY <1>2, <2>1, Appended DEF SentInv, SentFor, InLedger
    <2>5. \A i, j \in 1 .. n + 1 :
            ledger'[i].by \in Runs /\ ledger'[i].by = ledger'[j].by => i = j
      BY <2>1, <2>4 DEF BookInv
    <2>6. \A r \in Runs :
            /\ readAt'[r] <= n + 1
            /\ outcome'[r] = "nothingToDo" /\ readAt'[r] = n + 1 => allowance' >= requested[r]
      <3> SUFFICES ASSUME NEW r \in Runs PROVE readAt'[r] <= n + 1 /\ readAt'[r] # n + 1
        OBVIOUS
      <3>1. readAt'[r] = readAt[r] /\ readAt[r] \in Nat /\ readAt[r] <= n
        BY <1>2 DEF BookInv, runVars, TypeOK
      <3>2. QED BY <2>1, <3>1
    <2> HIDE DEF n
    <2>7. QED BY <1>0, <2>1, <2>2, <2>3, <2>5, <2>6 DEF BookInv
  <1>3. QED BY <1>1, <1>2, ChainSteps

----------------------------------------------------------------------------
(* What a run saw *)

\* Runs that are past their look at the allowance, or have sent something,
\* found it too small.
SeenInv ==
  \A r \in Runs : pc[r] \in {"asking", "sending", "waiting"} \/ Sent(r) => Seen(r) < requested[r]

\* What a run saw is not changed by what the ledger gets later.
LEMMA SeenStays ==
  ASSUME TypeOK, BookInv, [Next]_vars, NEW r \in Runs, readAt'[r] = readAt[r]
  PROVE  Seen(r)' = Seen(r)
  <1>0. readAt[r] \in Nat /\ readAt[r] <= Len(ledger)
    BY DEF TypeOK, BookInv
  <1>1. CASE UNCHANGED <<ledger, allowance>>
    BY <1>1 DEF Seen
  <1>2. ASSUME NEW e \in Entry, ledger' = Append(ledger, e), e.was = allowance
        PROVE  Seen(r)' = Seen(r)
    <2>1. /\ Len(ledger) \in Nat /\ Len(ledger') = Len(ledger) + 1
          /\ ledger'[Len(ledger) + 1] = e
          /\ \A i \in 1 .. Len(ledger) : ledger'[i] = ledger[i]
      BY <1>2, Appended
    <2>2. CASE readAt[r] < Len(ledger)
      <3>1. readAt[r] + 1 \in 1 .. Len(ledger) BY <1>0, <2>1, <2>2
      <3>2. QED BY <1>0, <2>1, <2>2, <3>1 DEF Seen
    <2>3. CASE readAt[r] = Len(ledger)
      BY <1>0, <1>2, <2>1, <2>3 DEF Seen
    <2>4. QED BY <1>0, <2>1, <2>2, <2>3
  <1>3. QED BY <1>1, <1>2, ChainSteps

LEMMA SeenInvStep == TypeOK /\ SentInv /\ BookInv /\ SeenInv /\ [Next]_vars => SeenInv'
  <1> SUFFICES ASSUME TypeOK, SentInv, BookInv, SeenInv, [Next]_vars, NEW r \in Runs,
                      pc'[r] \in {"asking", "sending", "waiting"} \/ Sent(r)'
               PROVE  Seen(r)' < requested'[r]
    BY DEF SeenInv
  <1>0. requested' = requested BY RunSteps
  <1>1. ASSUME readAt'[r] = readAt[r],
               pc[r] \in {"asking", "sending", "waiting"} \/ Sent(r)
        PROVE  Seen(r)' < requested'[r]
    BY <1>0, <1>1, SeenStays DEF SeenInv
  <1>2. Sent(r)' => Sent(r) \/ pc[r] = "sending"
    BY WhoSends
  <1>3. CASE readAt'[r] = readAt[r] /\ pc'[r] = pc[r]
    BY <1>1, <1>2, <1>3
  <1>4. CASE Step(r) \/ Interrupt(r)
    <2>1. CASE ReadAllowance(r)
      <3>1. ~Sent(r) /\ pc[r] = "reading" BY <2>1 DEF ReadAllowance, SentInv, SentFor, Early
      <3>2. pc'[r] \in {"asking", "sending", "waiting"} BY <1>2, <3>1
      <3>3. ~(allowance >= requested[r]) /\ readAt'[r] = Len(ledger)
              /\ UNCHANGED <<ledger, allowance>>
        BY <2>1, <3>2 DEF ReadAllowance, Suffices, Ends, TypeOK, chainVars
      <3>4. Len(ledger) \in Nat /\ allowance \in Nat /\ requested[r] \in Nat
        <4>1. Len(ledger) \in Nat /\ allowance \in Nat BY DEF TypeOK
        <4>2. requested[r] \in Amounts BY DEF TypeOK
        <4>3. QED BY <4>1, <4>2, ApproveAssumption
      <3>5. Seen(r)' = allowance BY <3>3, <3>4 DEF Seen
      <3>6. QED BY <1>0, <3>3, <3>4, <3>5
    <2>2. CASE ~ReadAllowance(r)
      <3>1. readAt'[r] = readAt[r] BY <1>4, <2>2
        DEF Step, Interrupt, Start, Resolve, ReadFails, Confirm, Send, SendFails, Receipt, ReceiptFails
      <3>2. pc'[r] \in {"asking", "sending", "waiting"} => pc[r] \in {"asking", "sending", "waiting"}
        BY <1>4, <2>2
        DEF TypeOK, Step, Interrupt, Start, Resolve, ReadFails, Confirm, Send, SendFails, Receipt,
            ReceiptFails, Goto, Ends
      <3>3. QED BY <1>1, <1>2, <3>1, <3>2
    <2>3. QED BY <2>1, <2>2
  <1>5. QED BY <1>3, <1>4, RunSteps DEF runVars

----------------------------------------------------------------------------
(* What a look at the allowance is worth *)

\* Another run's approval was mined after r read the allowance, in the first n
\* entries of the ledger.
Overtaken(r, n) ==
  \E j \in readAt[r] + 1 .. n : ledger[j].ok /\ ledger[j].by \in Runs \ {r}

OvertakenInv ==
  \A r \in Runs : r \in mempool \/ pc[r] \in {"asking", "sending"} =>
    allowance < requested[r] \/ Overtaken(r, Len(ledger))

LEMMA OvertakenInvStep ==
  TypeOK /\ SentInv /\ BookInv /\ OvertakenInv /\ [Next]_vars => OvertakenInv'
  <1> SUFFICES ASSUME TypeOK, SentInv, BookInv, OvertakenInv, [Next]_vars, NEW r \in Runs,
                      (r \in mempool \/ pc[r] \in {"asking", "sending"})'
               PROVE  (allowance < requested[r] \/ Overtaken(r, Len(ledger)))'
    BY DEF OvertakenInv
  <1>0. requested' = requested /\ Len(ledger) \in Nat BY RunSteps DEF TypeOK
  <1>1. CASE UNCHANGED <<ledger, allowance>>
    <2>1. CASE readAt'[r] = readAt[r] /\ (r \in mempool \/ pc[r] \in {"asking", "sending"})
      BY <1>0, <1>1, <2>1 DEF OvertakenInv, Overtaken
    <2>2. CASE ReadAllowance(r)
      <3>1. allowance \in Nat /\ requested[r] \in Nat BY ApproveAssumption DEF TypeOK
      <3>2. r \notin mempool' /\ pc[r] = "reading"
        BY <2>2 DEF SentInv, SentFor, Early, Sent, ReadAllowance, chainVars
      <3>3. ~(allowance >= requested[r])
        BY <2>2, <3>2 DEF TypeOK, ReadAllowance, Suffices, Ends
      <3>4. QED BY <1>0, <1>1, <3>1, <3>3
    <2>3. CASE (Step(r) \/ Interrupt(r)) /\ ~ReadAllowance(r)
      BY <2>1, <2>3
      DEF TypeOK, Step, Interrupt, Start, Resolve, ReadFails, Confirm, Send, SendFails, Broadcast,
          Receipt, ReceiptFails, Goto, Ends, chainVars
    <2>4. CASE UNCHANGED runVars /\ mempool' \subseteq mempool
      BY <2>1, <2>4 DEF runVars
    <2>5. QED BY <2>1, <2>2, <2>3, <2>4, RunSteps
  <1>2. ASSUME NEW e \in Entry, ledger' = Append(ledger, e), allowance' = e.is, UNCHANGED runVars,
               \/ /\ e.by \in mempool
                  /\ mempool' = mempool \ {e.by}
                  /\ e.is = IF e.ok THEN requested[e.by] ELSE allowance
               \/ e.by = Settlement /\ mempool' = mempool /\ e.is <= allowance
        PROVE  (allowance < requested[r] \/ Overtaken(r, Len(ledger)))'
    <2> DEFINE n == Len(ledger)
    <2>1. /\ n \in Nat /\ Len(ledger') = n + 1 /\ ledger'[n + 1] = e
          /\ \A i \in 1 .. n : ledger'[i] = ledger[i]
      BY <1>2, Appended
    <2>2. /\ readAt'[r] = readAt[r] /\ readAt[r] \in Nat /\ readAt[r] <= n
          /\ r \in mempool \/ pc[r] \in {"asking", "sending"}
      BY <1>2 DEF BookInv, runVars, TypeOK
    <2>3. allowance < requested[r] \/ Overtaken(r, n)
      BY <2>2 DEF OvertakenInv
    <2> HIDE DEF n
    <2>4. CASE Overtaken(r, n)
      BY <2>1, <2>2, <2>4 DEF Overtaken
    <2>5. CASE allowance < requested[r] /\ e.is <= allowance
      <3>1. allowance \in Nat /\ e.is \in Nat /\ requested[r] \in Nat
        BY ApproveAssumption DEF TypeOK, Entry
      <3>2. QED BY <1>0, <1>2, <2>5, <3>1
    <2>6. CASE e.by \in mempool /\ e.ok
      <3>1. e.by \in Runs /\ e.by # r
        BY <1>2, <2>6, ApproveAssumption
        DEF TypeOK, SentInv, SentFor, Early, Sent, runVars, Settlement
      <3>2. QED BY <2>1, <2>2, <2>6, <3>1 DEF Overtaken
    <2>7. CASE e.by \in mempool /\ ~e.ok
      <3>1. e.is = allowance /\ allowance \in Nat BY <1>2, <2>7, ApproveAssumption DEF TypeOK, Settlement
      <3>2. QED BY <2>3, <2>4, <2>5, <3>1
    <2>8. QED BY <1>2, <2>3, <2>4, <2>5, <2>6, <2>7
  <1>3. QED BY <1>1, <1>2, ChainSteps

----------------------------------------------------------------------------
(* Needless approvals *)

\* The entry a step adds to the ledger is no needless approval, unless it was
\* overtaken; the entries before it have nothing to do with the step.
LEMMA NeedlessStep ==
  TypeOK /\ SentInv /\ BookInv /\ OvertakenInv /\ NeedlessOnlyWhenOvertaken /\ [Next]_vars
    => NeedlessOnlyWhenOvertaken'
  <1> SUFFICES ASSUME TypeOK, SentInv, BookInv, OvertakenInv, NeedlessOnlyWhenOvertaken, [Next]_vars,
                      NEW i \in DOMAIN ledger', NEW r \in Runs, r = ledger'[i].by,
                      ledger'[i].ok, ledger'[i].was >= requested'[r]
               PROVE  Overtaken(r, i - 1)'
    BY DEF NeedlessOnlyWhenOvertaken, Overtaken
  <1> DEFINE n == Len(ledger)
  <1>0. requested' = requested /\ n \in Nat /\ DOMAIN ledger = 1 .. n
    BY RunSteps DEF TypeOK
  <1>1. ASSUME i \in 1 .. n, ledger'[i] = ledger[i], \A j \in 1 .. n : ledger'[j] = ledger[j]
        PROVE  Overtaken(r, i - 1)'
    <2>1. Overtaken(r, i - 1)
      BY <1>0, <1>1 DEF NeedlessOnlyWhenOvertaken, Overtaken
    <2>2. readAt[r] \in Nat BY <1>1 DEF TypeOK
    <2>3. readAt'[r] = readAt[r]
      <3>1. pc[r] # "reading"
        BY <1>0, <1>1 DEF SentInv, SentFor, Early, Sent, InLedger
      <3>2. QED
        BY <3>1, <1>1, RunSteps
        DEF runVars, TypeOK, Step, Interrupt, Start, Resolve, ReadAllowance, ReadFails, Confirm,
            Send, SendFails, Receipt, ReceiptFails
    <2>4. \A j \in readAt[r] + 1 .. i - 1 : j \in 1 .. n
      BY <1>0, <1>1, <2>2
    <2>5. QED BY <1>1, <2>1, <2>3, <2>4 DEF Overtaken
  <1>2. CASE UNCHANGED <<ledger, allowance>>
    BY <1>0, <1>1, <1>2
  <1>3. ASSUME NEW e \in Entry, ledger' = Append(ledger, e), e.was = allowance, UNCHANGED runVars,
               e.by \in mempool \/ e.by \notin Runs
        PROVE  Overtaken(r, i - 1)'
    <2>1. /\ DOMAIN ledger' = 1 .. n + 1 /\ ledger'[n + 1] = e
          /\ \A j \in 1 .. n : ledger'[j] = ledger[j]
      BY <1>3, Appended
    <2>2. CASE i \in 1 .. n
      BY <1>1, <2>1, <2>2
    <2>3. CASE i = n + 1
      <3>1. r = e.by /\ r \in mempool
        BY <1>3, <2>1, <2>3
      <3>2. allowance \in Nat /\ requested[r] \in Nat /\ allowance >= requested[r]
        BY <1>0, <1>3, <2>1, <2>3, <3>1, ApproveAssumption DEF TypeOK
      <3>3. Overtaken(r, n)
        BY <3>1, <3>2 DEF OvertakenInv
      <3>4. readAt'[r] = readAt[r] /\ readAt[r] \in Nat
        BY <1>3, <3>1 DEF runVars, TypeOK
      <3>5. QED BY <1>0, <2>1, <2>3, <3>3, <3>4 DEF Overtaken
    <2>4. QED BY <1>0, <2>1, <2>2, <2>3
  <1>4. QED BY <1>2, <1>3, ChainSteps

----------------------------------------------------------------------------
(* The theorems *)

\* The inductive invariant.
IInv ==
  /\ TypeOK /\ SentInv /\ ReportInv /\ BookInv /\ SeenInv
  /\ OvertakenInv /\ NeedlessOnlyWhenOvertaken

LEMMA Invariance == Spec => []IInv
  <1>1. Init => IInv
    <2> SUFFICES ASSUME Init PROVE IInv
      OBVIOUS
    <2>1. TypeOK
      BY ApproveAssumption DEF Init, TypeOK, States, Outcomes
    <2>2. DOMAIN ledger = {} /\ Len(ledger) = 0 /\ \A r \in Runs : readAt[r] = 0
      BY DEF Init
    <2>3. SentInv /\ ReportInv /\ SeenInv
      BY <2>2 DEF Init, SentInv, SentFor, Sent, InLedger, ReportInv, ReportFor, SeenInv, Before
    <2>4. BookInv
      BY <2>2 DEF Init, BookInv
    <2>5. OvertakenInv /\ NeedlessOnlyWhenOvertaken
      BY <2>2 DEF Init, OvertakenInv, NeedlessOnlyWhenOvertaken
    <2>6. QED BY <2>1, <2>3, <2>4, <2>5 DEF IInv
  <1>2. IInv /\ [Next]_vars => IInv'
    BY TypeStep, SentInvStep, ReportInvStep, BookInvStep, SeenInvStep, OvertakenInvStep, NeedlessStep DEF IInv
  <1>3. QED BY <1>1, <1>2, PTL DEF Spec

\* No transaction without consent, and none of a run that saw a sufficient
\* allowance: one that sent something was given --yes or had its prompt answered
\* with y, and had read too small an allowance before (approve.rs:105-127).
THEOREM ConsentTheorem == Spec => []OnlyWithConsent
  <1>1. IInv => OnlyWithConsent
    BY DEF IInv, SentInv, SentFor, SeenInv, OnlyWithConsent
  <1>2. QED BY <1>1, Invariance, PTL

\* Runs report the truth about their transactions, whatever is lost, killed or
\* run beside them (approve.rs:109-144).
THEOREM TruthTheorem == Spec => []TruthfulReports
  <1>1. IInv => TruthfulReports
    BY DEF IInv, SentInv, SentFor, ReportInv, ReportFor, Mined, TruthfulReports
  <1>2. QED BY <1>1, Invariance, PTL

\* A run that says the wallet is ready saw it ready (approve.rs:109-112, 140-144).
THEOREM ReadyTheorem == Spec => []ReadyWhenReported
  <1>1. ASSUME IInv, NEW r \in Runs, outcome[r] = "approved", ledger # << >>,
               ledger[Len(ledger)].by = r
        PROVE  allowance >= requested[r]
    <2> DEFINE n == Len(ledger)
    <2>1. n \in 1 .. n /\ DOMAIN ledger = 1 .. n BY <1>1 DEF IInv, TypeOK
    <2>2. PICK i \in 1 .. n : ledger[i].by = r /\ ledger[i].ok = TRUE
      BY <1>1, <2>1 DEF IInv, ReportInv, ReportFor, Mined
    <2>3. i = n BY <1>1, <2>1, <2>2 DEF IInv, BookInv
    <2>4. allowance = requested[r] /\ allowance \in Nat
      BY <1>1, <2>1, <2>2, <2>3 DEF IInv, BookInv, TypeOK
    <2>5. QED BY <2>4
  <1>2. IInv => ReadyWhenReported
    BY <1>1 DEF IInv, BookInv, ReadyWhenReported
  <1>3. QED BY <1>2, Invariance, PTL

\* An approval that was not needed any more was overtaken by another run's
\* (approve.rs:103-112).
THEOREM NeedlessTheorem == Spec => []NeedlessOnlyWhenOvertaken
  <1>1. IInv => NeedlessOnlyWhenOvertaken BY DEF IInv
  <1>2. QED BY <1>1, Invariance, PTL

----------------------------------------------------------------------------
(* The promise *)

\* One run's outcome changes, and with it its verdict only.
LEMMA VerdictOf ==
  ASSUME NEW r \in Runs, NEW o, outcome' = [outcome EXCEPT ![r] = o],
         outcome \in [Runs -> Outcomes]
  PROVE  /\ \A q \in Runs \ {r} : Verdict(q)' = Verdict(q)
         /\ Verdict(r)' = IF o = "none" THEN "open"
                          ELSE IF o = "nothingToDo" THEN "sufficient"
                          ELSE IF o \in Before THEN "refused"
                          ELSE IF o \in {"approved", "reverted"} THEN o
                          ELSE "unknown"
  BY DEF Verdict

\* A step that leaves the ledger alone leaves what became of the approvals.
LEMMA EffectStays ==
  ASSUME UNCHANGED ledger, NEW r \in Runs
  PROVE  Effect(r)' = Effect(r)
  BY DEF Effect, InLedger

\* A new entry decides what becomes of its own run's approval, and no other's.
LEMMA EffectOfEntry ==
  ASSUME TypeOK, SentInv, NEW e \in Entry, ledger' = Append(ledger, e), NEW r \in Runs
  PROVE  /\ e.by # r => Effect(r)' = Effect(r)
         /\ e.by = r /\ r \in mempool =>
              Effect(r) = "none" /\ Effect(r)' = IF e.ok THEN "set" ELSE "reverted"
  <1> DEFINE n == Len(ledger)
  <1>1. /\ n \in Nat /\ DOMAIN ledger' = 1 .. n + 1 /\ DOMAIN ledger = 1 .. n
        /\ ledger'[n + 1] = e /\ \A i \in 1 .. n : ledger'[i] = ledger[i]
    BY Appended
  <1> HIDE DEF n
  <1>2. \A i \in 1 .. n + 1 : i \in 1 .. n \/ i = n + 1 BY <1>1
  <1>3. n + 1 \in 1 .. n + 1 /\ \A i \in 1 .. n : i \in 1 .. n + 1 BY <1>1
  <1>4. ASSUME e.by # r PROVE Effect(r)' = Effect(r)
    <2>1. InLedger(r)' <=> InLedger(r) BY <1>1, <1>2, <1>3, <1>4 DEF InLedger
    <2>2. (\E i \in DOMAIN ledger : ledger[i].by = r /\ ledger[i].ok)' <=>
          (\E i \in DOMAIN ledger : ledger[i].by = r /\ ledger[i].ok)
      BY <1>1, <1>2, <1>3, <1>4
    <2>3. QED BY <2>1, <2>2 DEF Effect
  <1>5. ASSUME e.by = r, r \in mempool
        PROVE  Effect(r) = "none" /\ Effect(r)' = IF e.ok THEN "set" ELSE "reverted"
    <2>1. ~InLedger(r) BY <1>5 DEF SentInv, SentFor
    <2>2. Effect(r) = "none" BY <2>1 DEF Effect, InLedger
    <2>3. InLedger(r)' BY <1>1, <1>3, <1>5 DEF InLedger
    <2>4. (\E i \in DOMAIN ledger : ledger[i].by = r /\ ledger[i].ok)' <=> e.ok
      BY <1>1, <1>2, <1>3, <1>5, <2>1 DEF InLedger
    <2>5. QED BY <2>2, <2>3, <2>4 DEF Effect
  <1>6. QED BY <1>4, <1>5

\* The effect of a run that has sent nothing, or whose transaction was mined.
LEMMA EffectIs ==
  ASSUME TypeOK, BookInv, NEW r \in Runs
  PROVE  /\ ~InLedger(r) => Effect(r) = "none"
         /\ Mined(r, TRUE) => Effect(r) = "set"
         /\ Mined(r, FALSE) => Effect(r) = "reverted"
  <1>1. DOMAIN ledger = 1 .. Len(ledger) BY DEF TypeOK
  <1>2. ~InLedger(r) => Effect(r) = "none" BY DEF InLedger, Effect
  <1>3. Mined(r, TRUE) => Effect(r) = "set" BY DEF Mined, Effect
  <1>4. Mined(r, FALSE) => Effect(r) = "reverted"
    BY <1>1 DEF Mined, Effect, InLedger, BookInv
  <1>5. QED BY <1>2, <1>3, <1>4

\* A run that ends tells its user the truth, as far as it knows it.
LEMMA Concludes ==
  ASSUME IInv, IInv', NEW r \in Runs, NEW o \in Outcomes \ {"none"},
         pc[r] # "over", Ends(r, o),
         UNCHANGED <<requested, yes, consent, ledger, allowance>>,
         o = "nothingToDo" => allowance >= requested[r]
  PROVE  \E v \in Promise!Verdicts : Promise!Conclude(r, v)
  <1> USE DEF IInv
  <1>1. outcome' = [outcome EXCEPT ![r] = o] /\ outcome \in [Runs -> Outcomes]
        /\ outcome[r] = "none" /\ outcome'[r] = o
    BY DEF Ends, TypeOK, SentInv, SentFor
  <1> DEFINE v == Verdict(r)'
  <1>2. /\ \A q \in Runs \ {r} : Verdict(q)' = Verdict(q)
        /\ v = IF o = "none" THEN "open"
               ELSE IF o = "nothingToDo" THEN "sufficient"
               ELSE IF o \in Before THEN "refused"
               ELSE IF o \in {"approved", "reverted"} THEN o
               ELSE "unknown"
    BY <1>1, VerdictOf
  <1>3. Verdict(r) = "open" BY <1>1 DEF Verdict
  <1>4. \A q \in Runs : Effect(q)' = Effect(q) BY EffectStays
  <1>5. o \in Before => Effect(r) = "none"
    <2>1. o \in Before => ~InLedger(r)' BY <1>1 DEF SentInv, SentFor, Sent
    <2>2. InLedger(r)' <=> InLedger(r) BY DEF InLedger
    <2>3. QED BY <2>1, <2>2, EffectIs
  <1>6. (o = "approved" => Effect(r) = "set") /\ (o = "reverted" => Effect(r) = "reverted")
    <2>1. (o = "approved" => Mined(r, TRUE)') /\ (o = "reverted" => Mined(r, FALSE)')
      BY <1>1 DEF ReportInv, ReportFor
    <2>2. (Mined(r, TRUE)' <=> Mined(r, TRUE)) /\ (Mined(r, FALSE)' <=> Mined(r, FALSE))
      BY DEF Mined
    <2>3. QED BY <2>1, <2>2, EffectIs
  <1>7. v \in Promise!Verdicts BY <1>1, <1>2 DEF Promise!Verdicts
  <1>8. \/ v = "sufficient" /\ Effect(r) = "none" /\ allowance >= requested[r]
        \/ v = "refused" /\ Effect(r) = "none"
        \/ v = "approved" /\ Effect(r) = "set"
        \/ v = "reverted" /\ Effect(r) = "reverted"
        \/ v = "unknown"
    BY <1>2, <1>5, <1>6 DEF Before
  <1>9. [q \in Runs |-> Verdict(q)]' = [[q \in Runs |-> Verdict(q)] EXCEPT ![r] = v]
    BY <1>2
  <1>10. [q \in Runs |-> Effect(q)]' = [q \in Runs |-> Effect(q)] BY <1>4
  <1>11. /\ UNCHANGED <<allowance, requested>>
         /\ ({q \in Runs : yes[q]} \cup consent)' = {q \in Runs : yes[q]} \cup consent
    OBVIOUS
  <1>12. Promise!Conclude(r, v)
    <2> HIDE DEF v
    <2>1. QED BY <1>3, <1>8, <1>9, <1>10, <1>11 DEF Promise!Conclude
  <1>13. QED BY <1>7, <1>12

\* What the owner sees does not change.
Stutters == UNCHANGED <<ledger, allowance, requested, yes, consent, outcome>>

LEMMA StuttersIs == Stutters => UNCHANGED Promise!promiseVars
  <1> SUFFICES ASSUME Stutters PROVE UNCHANGED Promise!promiseVars
    OBVIOUS
  <1> USE DEF Stutters
  <1>1. [q \in Runs |-> Effect(q)]' = [q \in Runs |-> Effect(q)]
    <2>1. \A q \in Runs : Effect(q)' = Effect(q) BY EffectStays
    <2>2. QED BY <2>1
  <1>2. [q \in Runs |-> Verdict(q)]' = [q \in Runs |-> Verdict(q)]
    BY DEF Verdict
  <1>3. QED BY <1>1, <1>2 DEF Promise!promiseVars

\* The user agrees at the prompt.
LEMMA Agrees ==
  ASSUME IInv, NEW r \in Runs, pc[r] = "asking", Goto(r, "sending"),
         consent' = consent \cup {r},
         UNCHANGED <<requested, yes, readAt, chainVars>>
  PROVE  Promise!Agree(r)
  <1>1. outcome' = outcome /\ outcome[r] = "none" BY DEF Goto, IInv, SentInv, SentFor
  <1>2. Verdict(r) = "open" BY <1>1 DEF Verdict
  <1>3. [q \in Runs |-> Verdict(q)]' = [q \in Runs |-> Verdict(q)] BY <1>1 DEF Verdict
  <1>4. [q \in Runs |-> Effect(q)]' = [q \in Runs |-> Effect(q)]
    <2>1. \A q \in Runs : Effect(q)' = Effect(q) BY EffectStays DEF chainVars
    <2>2. QED BY <2>1
  <1>5. ({q \in Runs : yes[q]} \cup consent)' = ({q \in Runs : yes[q]} \cup consent) \cup {r}
    OBVIOUS
  <1>6. QED BY <1>2, <1>3, <1>4, <1>5 DEF Promise!Agree, chainVars

\* Every step of a run is one the promise allows, or is not seen.
LEMMA RunKeepsPromise ==
  ASSUME IInv, IInv', NEW r \in Runs, Step(r) \/ Interrupt(r)
  PROVE  \/ Stutters
         \/ Promise!Agree(r)
         \/ \E v \in Promise!Verdicts : Promise!Conclude(r, v)
  <1> DEFINE Concluded == \E v \in Promise!Verdicts : Promise!Conclude(r, v)
  <1> SUFFICES Stutters \/ Promise!Agree(r) \/ Concluded
    OBVIOUS
  <1>1. ASSUME NEW o \in Outcomes \ {"none", "nothingToDo"}, pc[r] # "over", Ends(r, o),
               UNCHANGED <<requested, yes, consent, ledger, allowance>>
        PROVE  Concluded
    BY <1>1, Concludes
  <1>2. ASSUME NEW s, Goto(r, s), UNCHANGED <<requested, yes, consent, ledger, allowance>>
        PROVE  Stutters
    BY <1>2 DEF Goto, Stutters
  <1>3. {"noRef", "noKey", "readFailed", "aborted", "sendFailed", "receiptFailed", "reverted",
         "approved", "interrupted"} \subseteq Outcomes \ {"none", "nothingToDo"}
    BY DEF Outcomes, Before, After
  <1> HIDE DEF Concluded
  <1>4. CASE Start(r) BY <1>1, <1>2, <1>3, <1>4 DEF Start, chainVars
  <1>5. CASE Resolve(r) BY <1>1, <1>2, <1>3, <1>5 DEF Resolve, chainVars
  <1>6. CASE ReadAllowance(r)
    <2>1. CASE allowance >= requested[r]
      <3>1. /\ Ends(r, "nothingToDo") /\ pc[r] # "over"
            /\ UNCHANGED <<requested, yes, consent, ledger, allowance>>
        BY <1>6, <2>1 DEF ReadAllowance, Suffices, chainVars
      <3>2. "nothingToDo" \in Outcomes \ {"none"} BY DEF Outcomes, Before
      <3>3. Concluded BY <2>1, <3>1, <3>2, Concludes DEF Concluded
      <3>4. QED BY <3>3
    <2>2. CASE ~(allowance >= requested[r])
      BY <1>2, <1>6, <2>2 DEF ReadAllowance, Suffices, chainVars
    <2>3. QED BY <2>1, <2>2
  <1>7. CASE ReadFails(r) BY <1>1, <1>3, <1>7 DEF ReadFails, chainVars
  <1>8. CASE Confirm(r)
    <2>1. CASE Goto(r, "sending") /\ consent' = consent \cup {r}
      BY <1>8, <2>1, Agrees DEF Confirm
    <2>2. CASE Ends(r, "aborted") /\ UNCHANGED consent
      BY <1>1, <1>3, <1>8, <2>2 DEF Confirm, chainVars
    <2>3. QED BY <1>8, <2>1, <2>2 DEF Confirm
  <1>9. CASE Send(r) BY <1>2, <1>9 DEF Send, Broadcast
  <1>10. CASE SendFails(r) BY <1>1, <1>3, <1>10 DEF SendFails, Broadcast, chainVars
  <1>11. CASE Receipt(r)
    <2>1. PICK i \in DOMAIN ledger :
            ledger[i].by = r /\ Ends(r, IF ledger[i].ok THEN "approved" ELSE "reverted")
      BY <1>11 DEF Receipt
    <2> DEFINE o == IF ledger[i].ok THEN "approved" ELSE "reverted"
    <2>2. o \in Outcomes \ {"none", "nothingToDo"} BY <1>3
    <2>3. Ends(r, o) BY <2>1
    <2> HIDE DEF o
    <2>4. QED BY <1>1, <1>11, <2>2, <2>3 DEF Receipt, chainVars
  <1>12. CASE ReceiptFails(r) BY <1>1, <1>3, <1>12 DEF ReceiptFails, chainVars
  <1>13. CASE Interrupt(r) BY <1>1, <1>3, <1>13 DEF Interrupt, chainVars
  <1>14. QED
    BY <1>4, <1>5, <1>6, <1>7, <1>8, <1>9, <1>10, <1>11, <1>12, <1>13 DEF Step

\* Every step of the chain is one the promise allows, or is not seen.
LEMMA ChainKeepsPromise ==
  ASSUME IInv, Mine \/ Forget \/ Draw
  PROVE  \/ Stutters
         \/ \E r \in Runs : Promise!TakeEffect(r)
         \/ Promise!Settle
  <1> USE DEF IInv
  <1> DEFINE eff == [q \in Runs |-> Effect(q)]
             ver == [q \in Runs |-> Verdict(q)]
             agr == {q \in Runs : yes[q]} \cup consent
  <1>1. CASE Forget BY <1>1 DEF Forget, Stutters, runVars
  <1>2. CASE Mine
    <2>1. PICK r \in mempool : Becomes(r, TRUE, requested[r]) \/ Becomes(r, FALSE, allowance)
      BY <1>2 DEF Mine
    <2>2. r \in Runs /\ UNCHANGED runVars /\ allowance \in Nat /\ requested[r] \in Nat
      BY <1>2, ApproveAssumption DEF TypeOK, Mine
    <2>3. ver' = ver /\ agr' = agr /\ requested' = requested BY <2>2 DEF runVars, Verdict
    <2>4. r \in agr BY <2>2 DEF SentInv, SentFor, Sent
    <2>5. Verdict(r) \in {"open", "unknown"}
      <3>1. outcome[r] \notin Before BY <2>2 DEF SentInv, SentFor, Sent
      <3>2. ~InLedger(r) BY <2>2 DEF SentInv, SentFor
      <3>3. outcome[r] \notin {"approved", "reverted"}
        BY <2>2, <3>2 DEF ReportInv, ReportFor, Mined, InLedger
      <3>4. QED BY <3>1, <3>3 DEF Verdict, Before
    <2>6. ASSUME NEW ok \in BOOLEAN, NEW a \in Nat, Becomes(r, ok, a)
          PROVE  /\ Effect(r) = "none" /\ allowance' = a
                 /\ eff' = [eff EXCEPT ![r] = IF ok THEN "set" ELSE "reverted"]
      <3> DEFINE e == [by |-> r, ok |-> ok, was |-> allowance, is |-> a]
      <3>1. e \in Entry /\ e.by = r /\ e.ok = ok BY <2>2 DEF Entry
      <3>2. ledger' = Append(ledger, e) /\ allowance' = a BY <2>6 DEF Becomes
      <3> HIDE DEF e
      <3>3. Effect(r) = "none" /\ Effect(r)' = IF ok THEN "set" ELSE "reverted"
        BY <2>1, <2>2, <3>1, <3>2, EffectOfEntry
      <3>4. \A q \in Runs : q # r => Effect(q)' = Effect(q)
        BY <3>1, <3>2, EffectOfEntry
      <3>5. QED BY <3>2, <3>3, <3>4
    <2> HIDE DEF ver, agr
    <2>7. Promise!TakeEffect(r)
      <3>1. CASE Becomes(r, TRUE, requested[r])
        <4>1. /\ Effect(r) = "none" /\ allowance' = requested[r]
              /\ eff' = [eff EXCEPT ![r] = "set"]
          BY <2>2, <2>6, <3>1
        <4>2. QED BY <2>2, <2>3, <2>4, <2>5, <4>1 DEF Promise!TakeEffect, ver, agr
      <3>2. CASE Becomes(r, FALSE, allowance)
        <4>1. /\ Effect(r) = "none" /\ allowance' = allowance
              /\ eff' = [eff EXCEPT ![r] = "reverted"]
          BY <2>2, <2>6, <3>2
        <4>2. QED BY <2>2, <2>3, <2>4, <2>5, <4>1 DEF Promise!TakeEffect, ver, agr
      <3>3. QED BY <2>1, <3>1, <3>2
    <2>8. QED BY <2>2, <2>7
  <1>3. CASE Draw
    <2>1. PICK x \in 1 .. allowance : Becomes(Settlement, TRUE, allowance - x)
      BY <1>3 DEF Draw
    <2>2. allowance \in Nat /\ UNCHANGED runVars BY <1>3 DEF TypeOK, Draw
    <2> DEFINE e == [by |-> Settlement, ok |-> TRUE, was |-> allowance, is |-> allowance - x]
    <2>3. e \in Entry /\ e.by \notin Runs
      <3>1. allowance - x \in Nat BY <2>2
      <3>2. QED BY <2>2, <3>1, ApproveAssumption DEF Entry, Settlement
    <2>4. ledger' = Append(ledger, e) /\ allowance' = allowance - x BY <2>1 DEF Becomes
    <2>5. allowance' \in 0 .. allowance - 1 BY <2>2, <2>4
    <2> HIDE DEF e
    <2>6. eff' = eff
      <3>1. \A q \in Runs : Effect(q)' = Effect(q) BY <2>3, <2>4, EffectOfEntry
      <3>2. QED BY <3>1
    <2>7. ver' = ver /\ agr' = agr /\ requested' = requested BY <2>2 DEF runVars, Verdict
    <2>8. Promise!Settle BY <2>5, <2>6, <2>7 DEF Promise!Settle
    <2>9. QED BY <2>8
  <1>4. QED BY <1>1, <1>2, <1>3

\* approve-permit2 implements ApprovalPromise, however its runs overlap, are cut
\* off, or lose transactions and receipts (approve.rs:63-145).
THEOREM ApprovalTheorem == Spec => KeepsApproval
  <1>1. Init => Promise!Init
    <2> SUFFICES ASSUME Init PROVE Promise!Init
      OBVIOUS
    <2>1. \A q \in Runs : Effect(q) = "none" /\ Verdict(q) = "open"
      BY DEF Init, Effect, InLedger, Verdict
    <2>2. {q \in Runs : yes[q]} \cup consent \in SUBSET Runs BY DEF Init
    <2>3. QED BY <2>1, <2>2 DEF Init, Promise!Init
  <1>2. IInv /\ IInv' /\ [Next]_vars => [Promise!Next]_(Promise!promiseVars)
    <2> SUFFICES ASSUME IInv, IInv', [Next]_vars
                 PROVE  Promise!Next \/ UNCHANGED Promise!promiseVars
      OBVIOUS
    <2>1. CASE Finished \/ UNCHANGED vars
      <3>1. Stutters BY <2>1 DEF Finished, vars, runVars, chainVars, Stutters
      <3>2. QED BY <3>1, StuttersIs
    <2>2. CASE Mine \/ Forget \/ Draw
      BY <2>2, ChainKeepsPromise, StuttersIs DEF Promise!Next
    <2>3. ASSUME NEW r \in Runs, Step(r) \/ Interrupt(r)
          PROVE  Promise!Next \/ UNCHANGED Promise!promiseVars
      BY <2>3, RunKeepsPromise, StuttersIs DEF Promise!Next
    <2>4. QED BY <2>1, <2>2, <2>3 DEF Next
  <1>3. QED BY <1>1, <1>2, Invariance, PTL DEF Spec, KeepsApproval, Promise!Spec
=============================================================================

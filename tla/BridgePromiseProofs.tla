------------------------ MODULE BridgePromiseProofs ------------------------
(***************************************************************************)
(* The bridge implements WalletPromise: initial states map to initial      *)
(* states and every step maps to a step of the promise, or to none.        *)
(***************************************************************************)
EXTENDS BridgePromise, BridgeProofs

\* The mapped variables, named.
Authorized == {[call |-> a.call, limit |-> a.value, expires |-> a.validBefore] : a \in signed}
Charges    == {[call |-> d.auth.call, amount |-> d.amount, at |-> d.at] : d \in debits}
VerdictOf  == [c \in Calls |-> Verdict(c)]

\* A verdict follows from where the handler is and what it answered.
LEMMA VerdictCases ==
  ASSUME TypeInv, AnswerInv, NEW c \in Calls
  PROVE  /\ pc[c] \in {"idle"} \cup InFlight => VerdictOf[c] = "open"
         /\ pc[c] = "dropped" => VerdictOf[c] = "gone"
         /\ pc[c] = "answered" => VerdictOf[c] \in {"paid", "unpaid"}
         /\ VerdictOf[c] \in {"open", "paid", "unpaid", "gone"}
<1>1. pc[c] \in States /\ answer[c] \in Answers
  BY DEF TypeInv, TypeOK
<1> QED
  BY <1>1 DEF VerdictOf, Verdict, AnswerInv, States, Answers, Paid, Unpaid, InFlight

THEOREM PromiseInit == Init => Promise!Init
<1> SUFFICES ASSUME Init PROVE Promise!Init
  OBVIOUS
<1>1. clock = 0 /\ debits = {} /\ signed = {}
  BY DEF Init, ChainInit
<1>2. Guard \in Guards
  BY BridgeAssumption DEF Init, Guard
<1>3. VerdictOf = [c \in Calls |-> "open"]
  BY DEF Init, VerdictOf, Verdict, Paid, Unpaid
<1> QED BY <1>1, <1>2, <1>3 DEF Promise!Init, VerdictOf

\* A call is authorized in the promise when something was signed for it.
LEMMA AuthorizedMaps ==
  ASSUME NEW c \in Calls
  PROVE  Promise!IsAuthorized(c) <=> \E x \in signed : x.call = c
<1>1. ASSUME NEW x \in signed, x.call = c PROVE Promise!IsAuthorized(c)
  <2> DEFINE y == [call |-> x.call, limit |-> x.value, expires |-> x.validBefore]
  <2>1. y \in Authorized /\ y.call = c
    BY <1>1 DEF Authorized
  <2> QED BY <2>1 DEF Promise!IsAuthorized, Authorized
<1>2. ASSUME Promise!IsAuthorized(c) PROVE \E x \in signed : x.call = c
  BY <1>2 DEF Promise!IsAuthorized
<1> QED BY <1>1, <1>2

\* A call is charged in the promise when a debit was made for it.
LEMMA ChargedMaps ==
  ASSUME NEW c \in Calls
  PROVE  Promise!IsCharged(c) => \E d \in debits : d.auth.call = c
BY DEF Promise!IsCharged

\* An answer that the promise allows.
LEMMA AnswerMaps ==
  ASSUME TypeInv, AnswerInv, NEW c \in Calls, NEW a \in Answers \ {"none"}, Return(c, a),
         pc[c] \in InFlight,
         a \in Unpaid => \A x \in signed : x.call # c,
         a \in Paid => \E x \in signed : x.call = c,
         UNCHANGED <<clock, session, guards, signed, debits>>
  PROVE  [Promise!Next]_(Promise!promiseVars)
<1> DEFINE v == IF a \in Paid THEN "paid" ELSE "unpaid"
<1>t. pc \in [Calls -> States] /\ answer \in [Calls -> Answers]
  BY DEF TypeInv, TypeOK
<1>1. VerdictOf[c] = "open"
  BY VerdictCases
<1>2. VerdictOf' = [VerdictOf EXCEPT ![c] = v]
  BY <1>t DEF Return, VerdictOf, Verdict, Answers, Paid, Unpaid
<1>3. UNCHANGED <<clock, Guard, Authorized, Charges>>
  BY DEF Guard, Authorized, Charges
<1>4. /\ a \in Paid => Promise!IsAuthorized(c)
      /\ a \notin Paid => ~Promise!IsAuthorized(c)
  BY AuthorizedMaps DEF Answers
<1>5. Promise!Answer(c, v)
  BY <1>1, <1>2, <1>3, <1>4
     DEF Promise!Answer, VerdictOf, Authorized, Charges
<1>6. Promise!Answer(c, "paid") \/ Promise!Answer(c, "unpaid")
  BY <1>5
<1> QED BY <1>6 DEF Promise!Next

\* A step that the promise does not see.
LEMMA StutterMaps ==
  ASSUME TypeInv, UNCHANGED <<clock, session, guards, signed, debits>>,
         VerdictOf' = VerdictOf
  PROVE  [Promise!Next]_(Promise!promiseVars)
BY DEF Promise!promiseVars, VerdictOf, Guard

\* The handler goes on without an answer.
LEMMA ProgressMaps ==
  ASSUME TypeInv, AnswerInv, NEW c \in Calls, NEW to \in InFlight,
         pc[c] \in {"idle"} \cup InFlight, pc' = [pc EXCEPT ![c] = to], answer' = answer
  PROVE  VerdictOf' = VerdictOf
<1>t. pc \in [Calls -> States] /\ answer \in [Calls -> Answers]
  BY DEF TypeInv, TypeOK
<1>1. \A x \in Calls : Verdict(x)' = Verdict(x)
  BY <1>t DEF Verdict, InFlight
<1> QED BY <1>1 DEF VerdictOf

LEMMA SignMaps ==
  ASSUME TypeInv, LedgerInv, NEW c \in Calls, SignAndRetry(c)
  PROVE  Promise!Authorize(c)
<1>0. PICK now \in Readings, nonce \in Nonces :
             signed' = signed \cup {Sign(c, entry[c], now, nonce)}
  BY DEF SignAndRetry
<1> DEFINE b == Sign(c, entry[c], now, nonce)
           y == [call |-> c, limit |-> b.value, expires |-> b.validBefore]
<1>1. /\ signed' = signed \cup {b} /\ pc[c] = "signer" /\ signer # NoKey
      /\ pc' = [pc EXCEPT ![c] = "retrying"]
      /\ UNCHANGED <<clock, session, guards, debits, answer>>
  BY <1>0 DEF SignAndRetry, Ready, chainVars
<1>2. b \in Authorization /\ b.call = c /\ b.value = entry[c].amount
  BY <1>1, SignTypes DEF Sign
<1>3. WithinCeiling(Guard, entry[c].amount) /\ entry[c] \in AcceptsEntry
  BY <1>1, SelectedEntry DEF TypeInv, TypeOK, SelectionInv
<1>4. Guard # Unset /\ Guard \in Nat /\ b.value \in 0 .. Guard
  <2>1. Guard \in Guards
    BY DEF Guard, TypeInv, TypeOK
  <2>2. Guard \in Nat /\ entry[c].amount \in Nat
    BY <1>3, <2>1, CeilingChecksAmount
  <2>3. Guard # Unset /\ entry[c].amount <= Guard
    BY <1>3 DEF WithinCeiling
  <2> HIDE DEF b
  <2> QED BY <1>2, <2>2, <2>3
\* The clock is ahead of block time by MaxSkew at most.
<1>5. b.validBefore \in 0 .. clock + (MaxSkew + MaxTimeout)
  <2>1. clock \in Nat /\ MaxSkew \in Nat /\ MaxTimeout \in Nat
    BY ChainAssumption, BridgeAssumption, PaymentAssumption DEF TypeInv, TypeOK, ChainTypeOK
  <2>2. Timeout(entry[c]) \in 0 .. MaxTimeout
    BY <1>3, TimeoutBounded
  <2>3. now \in 0 .. clock + MaxSkew
    BY <2>1, BridgeAssumption DEF Readings
  <2>4. b.validBefore = now + Timeout(entry[c])
    BY DEF Sign, ValidBefore
  <2> HIDE DEF b
  <2> QED BY <2>1, <2>2, <2>3, <2>4
<1>6. VerdictOf[c] = "open" /\ VerdictOf' = VerdictOf
  BY <1>1, VerdictCases, ProgressMaps DEF LedgerInv, InFlight
<1>7. ~Promise!IsAuthorized(c)
  BY <1>1, AuthorizedMaps DEF LedgerInv, SignedInv
<1>8. Authorized' = Authorized \cup {y}
  BY <1>1, <1>2 DEF Authorized
<1>9. Guard' = Guard /\ clock' = clock /\ Charges' = Charges
  BY <1>1 DEF Guard, Charges
<1> HIDE DEF b
<1> QED BY <1>4, <1>5, <1>6, <1>7, <1>8, <1>9 DEF Promise!Authorize, VerdictOf, Authorized, Charges

LEMMA SettleMaps ==
  ASSUME TypeInv, LedgerInv, Settle
  PROVE  \E y \in Authorized : Promise!Charge(y)
<1>1. PICK a \in signed : SettleExact(a) \/ \E x \in 0 .. a.value : SettleUpto(a, x)
  BY DEF Settle
<1>2. /\ a \in Authorization /\ a.value \in Nat /\ a.validBefore \in Nat /\ clock \in Nat
      /\ a.call \in Calls
  BY ChainAssumption DEF TypeInv, TypeOK, ChainTypeOK, Authorization
<1>3. PICK x \in 0 .. a.value : Debit(a, x)
  BY <1>1, <1>2 DEF SettleExact, SettleUpto
<1>4. /\ clock <= a.validBefore /\ ~Used(a) /\ clock' = clock
      /\ debits' = debits \cup {[auth |-> a, amount |-> x, at |-> clock]}
  BY <1>2, <1>3 DEF Debit, InWindow
<1> DEFINE y == [call |-> a.call, limit |-> a.value, expires |-> a.validBefore]
<1>5. y \in Authorized
  BY DEF Authorized
<1>6. ~Promise!IsCharged(a.call)
  <2>1. \A d \in debits : d.auth.call # a.call
    BY <1>4 DEF LedgerInv, UniqueInv, TypeInv, TypeOK, Used
  <2> QED BY <1>2, <2>1, ChargedMaps
<1>7. Charges' = Charges \cup {[call |-> a.call, amount |-> x, at |-> clock]}
  <2> DEFINE e == [auth |-> a, amount |-> x, at |-> clock]
             Charged(d) == [call |-> d.auth.call, amount |-> d.amount, at |-> d.at]
  <2>1. Charged(e) = [call |-> a.call, amount |-> x, at |-> clock]
    OBVIOUS
  <2>2. debits' = debits \cup {e}
    BY <1>4
  <2> HIDE DEF e
  <2>3. {Charged(d) : d \in debits'} = {Charged(d) : d \in debits} \cup {Charged(e)}
    <3> HIDE DEF Charged
    <3> QED BY <2>2
  <2> QED BY <2>1, <2>3 DEF Charges
<1>8. Guard' = Guard /\ Authorized' = Authorized /\ VerdictOf' = VerdictOf
  BY DEF Settle, callVars, Guard, Authorized, VerdictOf, Verdict
<1>9. Promise!Charge(y)
  BY <1>4, <1>6, <1>7, <1>8 DEF Promise!Charge, VerdictOf, Authorized, Charges
<1> QED BY <1>5, <1>9

LEMMA RestartMaps ==
  ASSUME TypeInv, AnswerInv, Restart
  PROVE  Promise!Relaunch
<1>t. pc \in [Calls -> States] /\ answer \in [Calls -> Answers]
  BY DEF TypeInv, TypeOK
<1>1. Guard' \in Guards
  BY DEF Restart, Relaunch, Guard, TypeInv, TypeOK
<1>2. ASSUME NEW c \in Calls
      PROVE  /\ \/ VerdictOf'[c] = VerdictOf[c]
                \/ VerdictOf[c] = "open" /\ VerdictOf'[c] = "gone"
             /\ VerdictOf'[c] \in {"open", "paid", "unpaid", "gone"}
  <2>1. CASE pc[c] \in InFlight
    <3>1. VerdictOf[c] = "open"
      BY <2>1, VerdictCases
    <3>2. VerdictOf'[c] = "gone"
      BY <2>1, <1>t DEF Restart, Relaunch, VerdictOf, Verdict
    <3> QED BY <3>1, <3>2
  <2>2. CASE pc[c] \notin InFlight
    <3>1. VerdictOf'[c] = VerdictOf[c]
      BY <2>2, <1>t DEF Restart, Relaunch, VerdictOf, Verdict
    <3> QED BY <3>1, VerdictCases
  <2> QED BY <2>1, <2>2
<1>3. VerdictOf' \in [Calls -> {"open", "paid", "unpaid", "gone"}]
  BY <1>2 DEF VerdictOf
<1>4. clock' = clock /\ Authorized' = Authorized /\ Charges' = Charges
  BY DEF Restart, Relaunch, chainVars, Authorized, Charges
<1> QED BY <1>1, <1>2, <1>3, <1>4
  DEF Promise!Relaunch, Promise!Verdicts, VerdictOf, Authorized, Charges

LEMMA PromiseStep ==
  TypeInv /\ CellInv /\ LedgerInv /\ [Next]_vars => [Promise!Next]_(Promise!promiseVars)
<1> SUFFICES ASSUME TypeInv, CellInv, LedgerInv, [Next]_vars
             PROVE  [Promise!Next]_(Promise!promiseVars)
  OBVIOUS
<1> USE DEF LedgerInv
\* Nothing was signed for a call that has not reached the signature.
<1>a. ASSUME NEW c \in Calls, pc[c] \in {"forwarded", "signer"}
      PROVE  \A x \in signed : x.call # c
  BY <1>a DEF SignedInv
<1>1. ASSUME NEW c \in Calls, ClientCall(c) PROVE [Promise!Next]_(Promise!promiseVars)
  BY <1>1, StutterMaps, ProgressMaps DEF ClientCall, chainVars, InFlight
<1>2. ASSUME NEW c \in Calls, FirstReplyFails(c) PROVE [Promise!Next]_(Promise!promiseVars)
  BY <1>a, <1>2, AnswerMaps DEF FirstReplyFails, chainVars, InFlight, Answers, Unpaid, Paid
<1>3. ASSUME NEW c \in Calls, NEW r \in Replies, PassThrough(c, r)
      PROVE  [Promise!Next]_(Promise!promiseVars)
  BY <1>a, <1>3, AnswerMaps DEF PassThrough, chainVars, InFlight, Answers, Unpaid, Paid
<1>4. ASSUME NEW c \in Calls, NEW r \in Replies, Refuse(c, r)
      PROVE  [Promise!Next]_(Promise!promiseVars)
  BY <1>a, <1>4, AnswerMaps DEF Refuse, Select, chainVars, InFlight, Answers, Unpaid, Paid
<1>5. ASSUME NEW c \in Calls, NEW r \in Replies, RequestSigner(c, r)
      PROVE  [Promise!Next]_(Promise!promiseVars)
  BY <1>5, StutterMaps, ProgressMaps DEF RequestSigner, Select, chainVars, InFlight
<1>6. ASSUME NEW k \in Keys, KeyResolved(k) PROVE [Promise!Next]_(Promise!promiseVars)
  <2>1. VerdictOf' = VerdictOf
    BY <1>6 DEF KeyResolved, callVars, VerdictOf, Verdict
  <2> QED BY <1>6, <2>1, StutterMaps DEF KeyResolved, chainVars
<1>7. ASSUME KeyFails PROVE [Promise!Next]_(Promise!promiseVars)
  <2>1. Head(queue) \in Calls /\ pc[Head(queue)] = "signer"
    BY <1>7, HeadIsWaiting DEF TypeInv
  <2> QED BY <1>a, <1>7, <2>1, AnswerMaps
          DEF KeyFails, chainVars, InFlight, Answers, Unpaid, Paid
<1>8. ASSUME NEW c \in Calls, NonceFails(c) \/ SigningFails(c)
      PROVE  [Promise!Next]_(Promise!promiseVars)
  <2>1. PICK a \in {"noNonce", "badEntry"} : Return(c, a)
    BY <1>8 DEF NonceFails, SigningFails
  <2>2. pc[c] = "signer" /\ UNCHANGED <<clock, session, guards, signed, debits>>
    BY <1>8 DEF NonceFails, SigningFails, Ready, chainVars
  <2> QED BY <1>a, <2>1, <2>2, AnswerMaps DEF InFlight, Answers, Unpaid, Paid
<1>9. ASSUME NEW c \in Calls, SignAndRetry(c) PROVE [Promise!Next]_(Promise!promiseVars)
  BY <1>9, SignMaps DEF Promise!Next
<1>10. ASSUME NEW c \in Calls, SecondReply(c) PROVE [Promise!Next]_(Promise!promiseVars)
  <2>1. PICK a \in Paid : Return(c, a)
    BY <1>10 DEF SecondReply, RetryFails, RetryAnswered, Paid
  <2>2. pc[c] = "retrying" /\ UNCHANGED <<clock, session, guards, signed, debits>>
    BY <1>10 DEF SecondReply, RetryFails, RetryAnswered, chainVars
  <2>3. \E x \in signed : x.call = c
    BY <2>2 DEF AnswerInv
  <2> QED BY <2>1, <2>2, <2>3, AnswerMaps DEF InFlight, Answers, Unpaid, Paid
<1>11. ASSUME Settle PROVE [Promise!Next]_(Promise!promiseVars)
  BY <1>11, SettleMaps DEF Promise!Next, Authorized
<1>12. ASSUME TimePasses PROVE [Promise!Next]_(Promise!promiseVars)
  <2>1. Promise!TimePasses
    BY <1>12 DEF TimePasses, Tick, callVars, Promise!TimePasses, Guard, Verdict
  <2> QED BY <2>1 DEF Promise!Next
<1>13. ASSUME Restart PROVE [Promise!Next]_(Promise!promiseVars)
  BY <1>13, RestartMaps DEF Promise!Next
<1>14. ASSUME UNCHANGED vars PROVE [Promise!Next]_(Promise!promiseVars)
  <2>1. VerdictOf' = VerdictOf
    BY <1>14 DEF vars, callVars, VerdictOf, Verdict
  <2> QED BY <1>14, <2>1, StutterMaps DEF vars, chainVars
<1> QED
  BY <1>1, <1>2, <1>3, <1>4, <1>5, <1>6, <1>7, <1>8, <1>9, <1>10, <1>11, <1>12,
     <1>13, <1>14
     DEF Next, FirstReply, Pay, Resolver, Done

\* The bridge, however calls interleave, processes restart, upstreams misbehave
\* and facilitators settle, keeps the promise made to the owner of the wallet.
THEOREM PromiseTheorem == Spec => KeepsPromise
BY PromiseInit, PromiseStep, Invariance, PTL DEF Spec, KeepsPromise, Promise!Spec

----------------------------------------------------------------------------
(* The cell keeps its promise to the handlers.  The queue holds exactly    *)
(* those who ask, each of them once.                                       *)

LEMMA AskingIsQueued ==
  ASSUME TypeInv, CellInv
  PROVE  /\ \A c \in Calls : c \in Asking <=> Waiting(c)
         /\ Asking = {} <=> queue = << >>
         /\ Len(queue) > 1 <=> \E c \in Asking : c # Head(queue)
<1>1. queue \in Seq(Calls) /\ \A i \in 1 .. Len(queue) : queue[i] \in Calls
  BY DEF TypeInv, TypeOK, CellTypeOK
<1>2. \A c \in Calls : c \in Asking <=> Waiting(c)
  BY DEF Asking, CellInv, NoLostWaiter
<1>3. Asking = {} <=> queue = << >>
  <2>1. ASSUME queue # << >> PROVE queue[1] \in Asking
    BY <1>1, <1>2, <2>1 DEF Waiting
  <2>2. ASSUME queue = << >> PROVE Asking = {}
    BY <1>2, <2>2 DEF Waiting, Asking
  <2> QED BY <2>1, <2>2
<1>4. ASSUME Len(queue) > 1 PROVE queue[2] \in Asking /\ queue[2] # Head(queue)
  BY <1>1, <1>2, <1>4 DEF Waiting, CellInv, QueueInv
<1>5. ASSUME NEW c \in Asking, c # Head(queue) PROVE Len(queue) > 1
  BY <1>1, <1>2, <1>5 DEF Waiting, Asking
<1> QED BY <1>2, <1>3, <1>4, <1>5

LEMMA LazyStutter ==
  ASSUME UNCHANGED <<signer, resolutions>>, Asking' = Asking
  PROVE  [Lazy!Next]_(Lazy!lazyVars)
BY DEF Lazy!lazyVars

\* A handler that has the key, or does not want it, is not one that asks.
LEMMA NotAsking ==
  ASSUME TypeInv, NEW c \in Calls, NEW to \in States \ {"signer"},
         pc[c] # "signer" \/ signer # NoKey,
         pc' = [pc EXCEPT ![c] = to], UNCHANGED signer
  PROVE  Asking' = Asking
<1>1. pc \in [Calls -> States]
  BY DEF TypeInv, TypeOK
<1> QED BY <1>1 DEF Asking

LEMMA LazyStep ==
  TypeInv /\ CellInv /\ [Next]_vars => [Lazy!Next]_(Lazy!lazyVars)
<1> SUFFICES ASSUME TypeInv, CellInv, [Next]_vars
             PROVE  [Lazy!Next]_(Lazy!lazyVars)
  OBVIOUS
<1>t. pc \in [Calls -> States] /\ queue \in Seq(Calls)
  BY DEF TypeInv, TypeOK, CellTypeOK
<1>1. ASSUME NEW c \in Calls, ClientCall(c) PROVE [Lazy!Next]_(Lazy!lazyVars)
  <2>1. Asking' = Asking
    BY <1>1, NotAsking DEF ClientCall, cellVars, States
  <2> QED BY <1>1, <2>1, LazyStutter DEF ClientCall, cellVars
<1>2. ASSUME NEW c \in Calls,
             FirstReplyFails(c) \/ \E r \in Replies : PassThrough(c, r) \/ Refuse(c, r)
      PROVE  [Lazy!Next]_(Lazy!lazyVars)
  <2>1. pc[c] = "forwarded" /\ pc' = [pc EXCEPT ![c] = "answered"] /\ UNCHANGED cellVars
    BY <1>2 DEF FirstReplyFails, PassThrough, Refuse, Select, Return
  <2>2. Asking' = Asking
    BY <2>1, NotAsking DEF cellVars, States
  <2> QED BY <2>1, <2>2, LazyStutter DEF cellVars
<1>3. ASSUME NEW c \in Calls, NEW r \in Replies, RequestSigner(c, r)
      PROVE  [Lazy!Next]_(Lazy!lazyVars)
  <2>1. /\ pc[c] = "forwarded" /\ pc' = [pc EXCEPT ![c] = "signer"]
        /\ signer' = signer /\ (Join(c) \/ Hit)
    BY <1>3 DEF RequestSigner, Select, Join, Hit, cellVars
  <2>2. CASE Join(c)
    <3>1. c \notin Asking /\ Asking' = Asking \cup {c}
      BY <1>t, <2>1, <2>2 DEF Asking, Join
    <3>2. Lazy!Ask(c)
      BY <2>2, <3>1, AskingIsQueued DEF Join, Lazy!Ask
    <3> QED BY <3>2 DEF Lazy!Next
  <2>3. CASE Hit
    <3>1. Asking' = Asking
      BY <1>t, <2>1, <2>3 DEF Asking, Hit
    <3> QED BY <2>3, <3>1, LazyStutter DEF Hit, cellVars
  <2> QED BY <2>1, <2>2, <2>3
<1>4. ASSUME NEW k \in Keys, KeyResolved(k) PROVE [Lazy!Next]_(Lazy!lazyVars)
  <2>1. /\ signer = NoKey /\ Asking # {} /\ signer' = k /\ resolutions' = resolutions
        /\ pc' = pc
    BY <1>4, AskingIsQueued DEF KeyResolved, Resolved, Resolving, callVars
  <2>2. Asking' = {}
    BY <2>1, CellAssumption DEF Asking
  <2>3. Lazy!Obtain
    BY <2>1, <2>2 DEF Lazy!Obtain
  <2> QED BY <2>3 DEF Lazy!Next
<1>5. ASSUME KeyFails PROVE [Lazy!Next]_(Lazy!lazyVars)
  <2> DEFINE h == Head(queue)
  <2>1. /\ signer = NoKey /\ signer' = NoKey /\ queue # << >>
        /\ resolutions' = IF Len(queue) > 1 THEN resolutions + 1 ELSE resolutions
        /\ pc' = [pc EXCEPT ![h] = "answered"]
    BY <1>5 DEF KeyFails, ResolutionFails, Resolving, Return
  <2>2. h \in Calls /\ pc[h] = "signer"
    BY <1>5, HeadIsWaiting DEF TypeInv
  <2>3. h \in Asking /\ Asking' = Asking \ {h}
    BY <1>t, <2>1, <2>2 DEF Asking
  <2>4. Asking' = {} <=> ~(Len(queue) > 1)
    BY <2>3, AskingIsQueued
  <2>5. Lazy!TurnAway(h)
    BY <2>1, <2>3, <2>4 DEF Lazy!TurnAway
  <2> QED BY <2>2, <2>5 DEF Lazy!Next
<1>6. ASSUME NEW c \in Calls, Pay(c) PROVE [Lazy!Next]_(Lazy!lazyVars)
  <2>1. Ready(c) /\ UNCHANGED cellVars
    BY <1>6 DEF Pay, NonceFails, SigningFails, SignAndRetry
  <2>2. PICK to \in {"answered", "retrying"} : pc' = [pc EXCEPT ![c] = to]
    BY <1>6 DEF Pay, NonceFails, SigningFails, SignAndRetry, Return
  <2>3. Asking' = Asking
    BY <2>1, <2>2, NotAsking DEF Ready, cellVars, States
  <2> QED BY <2>1, <2>3, LazyStutter DEF cellVars
<1>7. ASSUME NEW c \in Calls, SecondReply(c) PROVE [Lazy!Next]_(Lazy!lazyVars)
  <2>1. pc[c] = "retrying" /\ pc' = [pc EXCEPT ![c] = "answered"] /\ UNCHANGED cellVars
    BY <1>7 DEF SecondReply, RetryFails, RetryAnswered, Return
  <2>2. Asking' = Asking
    BY <2>1, NotAsking DEF cellVars, States
  <2> QED BY <2>1, <2>2, LazyStutter DEF cellVars
<1>8. ASSUME Settle \/ TimePasses \/ UNCHANGED vars PROVE [Lazy!Next]_(Lazy!lazyVars)
  <2>1. pc' = pc /\ UNCHANGED cellVars
    BY <1>8 DEF Settle, TimePasses, vars, callVars
  <2>2. Asking' = Asking
    BY <2>1 DEF Asking, cellVars
  <2> QED BY <2>1, <2>2, LazyStutter DEF cellVars
<1>9. ASSUME Restart PROVE [Lazy!Next]_(Lazy!lazyVars)
  <2>1. signer' = NoKey /\ resolutions' = 0 /\ \A c \in Calls : pc'[c] # "signer"
    BY <1>9, <1>t DEF Restart, Relaunch, InFlight
  <2>2. Lazy!Relaunch
    BY <2>1 DEF Lazy!Relaunch, Asking
  <2> QED BY <2>2 DEF Lazy!Next
<1> QED
  BY <1>1, <1>2, <1>3, <1>4, <1>5, <1>6, <1>7, <1>8, <1>9
     DEF Next, FirstReply, Resolver, Done

\* However calls interleave, fail and are cut off by a restart, the cell with
\* its queue of permits is a key that is set once.
THEOREM KeyPromiseTheorem == Spec => KeepsKeyPromise
<1>1. Init => Lazy!Init
  BY DEF Init, CellInit, Asking, Lazy!Init
<1> QED BY <1>1, LazyStep, Invariance, PTL DEF Spec, KeepsKeyPromise, Lazy!Spec

=============================================================================

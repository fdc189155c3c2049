---------------------------- MODULE BridgeProofs ----------------------------
(***************************************************************************)
(* The safety properties of Bridge, for every set of calls, replies, keys, *)
(* ceilings and clocks.                                                    *)
(***************************************************************************)
EXTENDS Bridge, FiniteSetTheorems, TLAPS

\* The first element of a sequence that satisfies P is one of its elements,
\* and does satisfy P.  (Used for the demand and for the selected entry.)
LEMMA FirstDemand ==
  ASSUME NEW r \in Result, NEW accepts \in Demands(r)
  PROVE  accepts \in Seq(AcceptsEntry)
  BY DEF Demands, FirstOf, Result

\* The selected entry is offered, and supported by the scheme it names; it is
\* an `exact` one only when no entry is supported under `upto`.
LEMMA SelectedEntry ==
  ASSUME NEW accepts \in Seq(AcceptsEntry), NEW e \in Selected(accepts)
  PROVE  /\ e \in AcceptsEntry
         /\ Supported(e)
         /\ e.scheme = "exact" => \A i \in DOMAIN accepts : ~UptoSupports(accepts[i])
<1>1. e \in FirstOf(accepts, UptoSupports) =>
        /\ e \in AcceptsEntry
        /\ UptoSupports(e)
  BY DEF FirstOf
<1>2. e \in FirstOf(accepts, ExactSupports) =>
        /\ e \in AcceptsEntry
        /\ ExactSupports(e)
  BY DEF FirstOf
<1> QED BY <1>1, <1>2 DEF Selected, Supported, UptoSupports, ExactSupports

\* The guard passes only amounts that are amounts.
LEMMA CeilingChecksAmount ==
  ASSUME NEW g \in Guards, NEW e \in AcceptsEntry, WithinCeiling(g, e.amount)
  PROVE  e.amount \in Nat /\ g \in Nat
  BY BridgeAssumption DEF WithinCeiling, AcceptsEntry

----------------------------------------------------------------------------
(* Types.  A call that is being paid has a selected entry that the guard   *)
(* passed; without that, what is signed would have no type.                *)

\* What is known of a call from the selection until its answer.
SelectionInv ==
  \A c \in Calls :
    /\ pc[c] \in InFlight => home[c] = session
    /\ pc[c] \in {"signer", "retrying"} =>
         /\ entry[c] \in Selected(demand[c])
         /\ WithinCeiling(Guard, entry[c].amount)

TypeInv == TypeOK /\ SelectionInv

\* What Select(c, r, e) leaves behind.
LEMMA SelectTypes ==
  ASSUME TypeOK, NEW c \in Calls, NEW r \in Replies,
         NEW i \in DOMAIN r.blocks, NEW j \in DOMAIN r.blocks[i],
         Select(c, r, r.blocks[i][j])
  PROVE  /\ demand' \in [Calls -> Seq(AcceptsEntry)]
         /\ entry' \in [Calls -> AcceptsEntry \cup {NoEntry}]
         /\ entry'[c] = r.blocks[i][j]
         /\ entry'[c] \in Selected(demand'[c])
         /\ \A x \in Calls \ {c} : entry'[x] = entry[x] /\ demand'[x] = demand[x]
<1>1. PICK accepts \in Demands(r) :
        /\ r.blocks[i][j] \in Selected(accepts)
        /\ demand' = [demand EXCEPT ![c] = accepts]
  BY DEF Select
<1>2. r \in Result
  BY BridgeAssumption
<1>3. accepts \in Seq(AcceptsEntry)
  BY <1>1, <1>2, FirstDemand
<1>4. r.blocks[i][j] \in AcceptsEntry
  BY <1>1, <1>3, SelectedEntry
<1> QED BY <1>1, <1>3, <1>4 DEF Select, TypeOK

LEMMA SignTypes ==
  ASSUME TypeInv, NEW c \in Calls, pc[c] = "signer", signer # NoKey,
         NEW now \in Readings, NEW nonce \in Nonces
  PROVE  Sign(c, entry[c], now, nonce) \in Authorization
<1>1. /\ entry[c] \in Selected(demand[c])
      /\ WithinCeiling(Guard, entry[c].amount)
      /\ demand[c] \in Seq(AcceptsEntry)
      /\ Guard \in Guards
  BY DEF TypeInv, SelectionInv, TypeOK, Guard
<1>2. entry[c] \in AcceptsEntry /\ Supported(entry[c])
  BY <1>1, SelectedEntry
<1>3. entry[c].amount \in Nat
  BY <1>1, <1>2, CeilingChecksAmount
<1>4. now \in Nat /\ clock \in Nat
  BY ChainAssumption DEF TypeInv, TypeOK, ChainTypeOK, Readings
<1>5. Timeout(entry[c]) \in Nat
  BY <1>2, PaymentAssumption DEF Timeout, AcceptsEntry
<1>6. ValidAfter(now) \in Nat /\ ValidBefore(entry[c], now) \in Nat
  BY <1>4, <1>5, PaymentAssumption DEF ValidAfter, ValidBefore
<1>7. /\ entry[c].scheme \in {"exact", "upto"}
      /\ entry[c].asset = "USDC"
  BY <1>2 DEF Supported, UptoSupports, ExactSupports
<1>8. /\ signer \in Keys
      /\ session \in 1 .. MaxSessions
  BY DEF TypeInv, TypeOK, CellTypeOK
<1> QED BY <1>3, <1>4, <1>6, <1>7, <1>8 DEF Sign, Authorization

THEOREM TypeInvInit == Init => TypeInv
<1> SUFFICES ASSUME Init PROVE TypeInv
  OBVIOUS
<1>1. CellTypeOK
  BY DEF Init, CellInit, CellTypeOK
<1>2. ChainTypeOK
  <2>1. clock \in 0 .. MaxClock
    BY ChainAssumption DEF Init, ChainInit
  <2>2. allowance \in [Payers -> Nat]
    <3>1. Allowances \subseteq Nat
      BY ChainAssumption
    <3> QED BY <3>1 DEF Init, ChainInit
  <2> QED BY <2>1, <2>2 DEF ChainTypeOK
<1>3. TypeOK
  BY <1>1, <1>2, BridgeAssumption
     DEF Init, TypeOK, ChainInit, States, Answers
<1>4. SelectionInv
  BY DEF Init, SelectionInv, InFlight
<1> QED BY <1>3, <1>4 DEF TypeInv

\* Every step keeps the types.
LEMMA TypeInvStep == TypeInv /\ [Next]_vars => TypeInv'
<1> SUFFICES ASSUME TypeInv, [Next]_vars PROVE TypeInv'
  OBVIOUS
<1> USE DEF TypeInv
<1>1. ASSUME NEW c \in Calls, ClientCall(c) PROVE TypeInv'
  <2>1. TypeOK'
    BY <1>1 DEF ClientCall, TypeOK, CellTypeOK, ChainTypeOK, cellVars, chainVars, States
  <2>2. SelectionInv'
    BY <1>1 DEF ClientCall, SelectionInv, TypeOK, Guard, InFlight
  <2> QED BY <2>1, <2>2
<1>2. ASSUME NEW c \in Calls, NEW a \in Answers, Return(c, a),
             UNCHANGED <<cellVars, chainVars, session, guards, home, demand, entry, signed>>
      PROVE  TypeInv'
  <2>1. TypeOK'
    BY <1>2 DEF Return, TypeOK, CellTypeOK, ChainTypeOK, cellVars, chainVars, States
  <2>2. SelectionInv'
    BY <1>2 DEF Return, SelectionInv, TypeOK, Guard, InFlight
  <2> QED BY <2>1, <2>2
<1>3. ASSUME NEW c \in Calls, FirstReplyFails(c) PROVE TypeInv'
  BY <1>2, <1>3 DEF FirstReplyFails, Answers, Unpaid, TypeOK
<1>4. ASSUME NEW c \in Calls, NEW r \in Replies, PassThrough(c, r) PROVE TypeInv'
  BY <1>2, <1>4 DEF PassThrough, Answers, Unpaid, TypeOK
<1>5. ASSUME NEW c \in Calls, NEW r \in Replies, Refuse(c, r) PROVE TypeInv'
  <2>1. PICK i \in DOMAIN r.blocks : \E j \in DOMAIN r.blocks[i] : Select(c, r, r.blocks[i][j])
    BY <1>5 DEF Refuse
  <2>2. PICK j \in DOMAIN r.blocks[i] : Select(c, r, r.blocks[i][j])
    BY <2>1
  <2>3. TypeOK'
    BY <1>5, <2>2, SelectTypes
       DEF Refuse, Return, TypeOK, CellTypeOK, ChainTypeOK, cellVars, chainVars,
           States, Answers, Unpaid
  <2>4. SelectionInv'
    BY <1>5, <2>2, SelectTypes DEF Refuse, Return, SelectionInv, TypeOK, Guard, InFlight
  <2> QED BY <2>3, <2>4
<1>6. ASSUME NEW c \in Calls, NEW r \in Replies, RequestSigner(c, r) PROVE TypeInv'
  <2>1. PICK i \in DOMAIN r.blocks : \E j \in DOMAIN r.blocks[i] :
               Select(c, r, r.blocks[i][j]) /\ WithinCeiling(Guard, r.blocks[i][j].amount)
    BY <1>6 DEF RequestSigner
  <2>2. PICK j \in DOMAIN r.blocks[i] :
               Select(c, r, r.blocks[i][j]) /\ WithinCeiling(Guard, r.blocks[i][j].amount)
    BY <2>1
  <2>3. CellTypeOK'
    <3>1. CASE Join(c)
      BY <3>1 DEF Join, TypeOK, CellTypeOK
    <3>2. CASE Hit
      BY <3>2 DEF Hit, cellVars, TypeOK, CellTypeOK
    <3> QED BY <1>6, <3>1, <3>2 DEF RequestSigner
  <2>4. TypeOK'
    BY <1>6, <2>2, <2>3, SelectTypes
       DEF RequestSigner, TypeOK, ChainTypeOK, chainVars, States
  <2>5. SelectionInv'
    <3>1. pc[c] = "forwarded"
      BY <2>2 DEF Select
    <3>2. /\ entry'[c] = r.blocks[i][j]
          /\ entry'[c] \in Selected(demand'[c])
          /\ \A x \in Calls \ {c} : entry'[x] = entry[x] /\ demand'[x] = demand[x]
      BY <2>2, SelectTypes
    <3> QED BY <1>6, <2>2, <3>1, <3>2 DEF RequestSigner, SelectionInv, TypeOK, Guard, InFlight
  <2> QED BY <2>4, <2>5
<1>7. ASSUME NEW k \in Keys, KeyResolved(k) PROVE TypeInv'
  <2>1. TypeOK'
    BY <1>7 DEF KeyResolved, Resolved, TypeOK, CellTypeOK, ChainTypeOK, chainVars, callVars
  <2>2. SelectionInv'
    BY <1>7 DEF KeyResolved, SelectionInv, callVars, Guard, InFlight
  <2> QED BY <2>1, <2>2
<1>8. ASSUME KeyFails PROVE TypeInv'
  <2>1. Head(queue) \in Calls
    BY <1>8 DEF KeyFails, ResolutionFails, Resolving, TypeOK, CellTypeOK
  <2>2. CellTypeOK'
    BY <1>8 DEF KeyFails, ResolutionFails, Resolving, TypeOK, CellTypeOK
  <2>3. TypeOK'
    BY <1>8, <2>1, <2>2
       DEF KeyFails, Return, TypeOK, ChainTypeOK, chainVars, States, Answers, Unpaid
  <2>4. SelectionInv'
    BY <1>8, <2>1 DEF KeyFails, Return, SelectionInv, TypeOK, Guard, InFlight
  <2> QED BY <2>3, <2>4
<1>9. ASSUME NEW c \in Calls, NonceFails(c) PROVE TypeInv'
  BY <1>2, <1>9 DEF NonceFails, Answers, Unpaid, TypeOK
<1>10. ASSUME NEW c \in Calls, SigningFails(c) PROVE TypeInv'
  BY <1>2, <1>10 DEF SigningFails, Answers, Unpaid, TypeOK
<1>11. ASSUME NEW c \in Calls, SignAndRetry(c) PROVE TypeInv'
  <2>1. \A now \in Readings, nonce \in Nonces : Sign(c, entry[c], now, nonce) \in Authorization
    BY <1>11, SignTypes DEF SignAndRetry, Ready
  <2>2. TypeOK'
    BY <1>11, <2>1
       DEF SignAndRetry, TypeOK, CellTypeOK, ChainTypeOK, cellVars, chainVars, States
  <2>3. SelectionInv'
    BY <1>11 DEF SignAndRetry, Ready, SelectionInv, TypeOK, Guard, InFlight
  <2> QED BY <2>2, <2>3
<1>12. ASSUME NEW c \in Calls, NEW r \in Replies, RetryAnswered(c, r) PROVE TypeInv'
  BY <1>2, <1>12 DEF RetryAnswered, Answers, Paid, TypeOK
<1>13. ASSUME NEW c \in Calls, RetryFails(c) PROVE TypeInv'
  BY <1>2, <1>13 DEF RetryFails, Answers, Paid, TypeOK
<1>14. ASSUME Settle PROVE TypeInv'
  <2>1. PICK a \in signed : SettleExact(a) \/ \E x \in 0 .. a.value : SettleUpto(a, x)
    BY <1>14 DEF Settle
  <2>2. a \in Authorization /\ a.value \in Nat /\ a.from \in Payers
    BY BridgeAssumption DEF TypeOK, Authorization
  <2>3. PICK x \in 0 .. a.value : Debit(a, x)
    BY <2>1, <2>2 DEF SettleExact, SettleUpto
  <2>4. allowance' \in [Payers -> Nat]
    <3>1. CASE SettleExact(a)
      BY <3>1 DEF SettleExact, TypeOK, ChainTypeOK
    <3>2. ASSUME NEW y \in 0 .. a.value, SettleUpto(a, y) PROVE allowance' \in [Payers -> Nat]
      <4>1. allowance[a.from] - y \in Nat
        BY <2>2, <3>2 DEF SettleUpto, TypeOK, ChainTypeOK
      <4> QED BY <2>2, <3>2, <4>1 DEF SettleUpto, TypeOK, ChainTypeOK
    <3> QED BY <2>1, <3>1, <3>2
  <2>5. TypeOK'
    BY <1>14, <2>2, <2>3, <2>4, ChainAssumption
       DEF Settle, Debit, TypeOK, CellTypeOK, ChainTypeOK, cellVars, callVars
  <2>6. SelectionInv'
    BY <1>14 DEF Settle, SelectionInv, callVars, Guard
  <2> QED BY <2>5, <2>6
<1>15. ASSUME TimePasses PROVE TypeInv'
  <2>1. ChainTypeOK'
    BY <1>15, ChainAssumption DEF TimePasses, Tick, TypeOK, ChainTypeOK
  <2>2. TypeOK'
    BY <1>15, <2>1 DEF TimePasses, Tick, TypeOK, CellTypeOK, cellVars, callVars
  <2>3. SelectionInv'
    BY <1>15 DEF TimePasses, SelectionInv, callVars, Guard
  <2> QED BY <2>2, <2>3
<1>16. ASSUME Restart PROVE TypeInv'
  <2>0. PICK guard \in Guards : Relaunch(guard)
    BY <1>16 DEF Restart
  <2>1. CellTypeOK'
    BY <2>0 DEF Relaunch, CellTypeOK
  <2>2. /\ session' \in 1 .. MaxSessions
        /\ guards' \in Seq(Guards) /\ Len(guards') = session'
    BY <2>0, BridgeAssumption DEF Relaunch, TypeOK
  <2>3. TypeOK'
    BY <2>0, <2>1, <2>2 DEF Relaunch, TypeOK, ChainTypeOK, chainVars, States
  <2>4. SelectionInv'
    BY <2>0 DEF Relaunch, SelectionInv, TypeOK, InFlight
  <2> QED BY <2>3, <2>4
<1>17. ASSUME UNCHANGED vars PROVE TypeInv'
  BY <1>17 DEF vars, cellVars, chainVars, callVars, TypeOK, CellTypeOK, ChainTypeOK,
               SelectionInv, Guard
<1> QED
  BY <1>1, <1>3, <1>4, <1>5, <1>6, <1>7, <1>8, <1>9, <1>10, <1>11, <1>12, <1>13,
     <1>14, <1>15, <1>16, <1>17
     DEF Next, FirstReply, Pay, SecondReply, Resolver, Done

\* The state of the bridge has its types in every reachable state: proxy.rs
\* and the records it signs, whatever the upstream sends.
THEOREM TypeCorrect == Spec => []TypeOK
<1>1. Spec => []TypeInv
  BY TypeInvInit, TypeInvStep, PTL DEF Spec
<1>2. TypeInv => TypeOK
  BY DEF TypeInv
<1> QED BY <1>1, <1>2, PTL

----------------------------------------------------------------------------
(* The queue for the signer: nobody is in it twice, nobody is forgotten. *)

\* Appending to a sequence of distinct elements one that is not in it.
LEMMA AppendDistinct ==
  ASSUME NEW S, NEW q \in Seq(S), NEW c \in S,
         \A i \in 1 .. Len(q) : q[i] # c,
         \A i, j \in 1 .. Len(q) : q[i] = q[j] => i = j
  PROVE  LET p == Append(q, c)
         IN  /\ \A i, j \in 1 .. Len(p) : p[i] = p[j] => i = j
             /\ \A x \in S : (\E i \in 1 .. Len(p) : p[i] = x)
                               <=> x = c \/ \E i \in 1 .. Len(q) : q[i] = x
<1> DEFINE p == Append(q, c)
<1>1. /\ Len(p) = Len(q) + 1 /\ Len(q) \in Nat
      /\ p[Len(q) + 1] = c
      /\ \A i \in 1 .. Len(q) : p[i] = q[i]
  OBVIOUS
<1> HIDE DEF p
<1>2. \A i, j \in 1 .. Len(p) : p[i] = p[j] => i = j
  <2> SUFFICES ASSUME NEW i \in 1 .. Len(p), NEW j \in 1 .. Len(p), p[i] = p[j] PROVE i = j
    OBVIOUS
  <2>1. CASE i = Len(q) + 1 \/ j = Len(q) + 1
    BY <1>1, <2>1
  <2>2. CASE i # Len(q) + 1 /\ j # Len(q) + 1
    BY <1>1, <2>2
  <2> QED BY <2>1, <2>2
<1>3. ASSUME NEW x \in S
      PROVE  (\E i \in 1 .. Len(p) : p[i] = x) <=> x = c \/ \E i \in 1 .. Len(q) : q[i] = x
  BY <1>1
<1> QED BY <1>2, <1>3 DEF p

\* Taking the head off a sequence of distinct elements.
LEMMA TailDistinct ==
  ASSUME NEW S, NEW q \in Seq(S), q # << >>,
         \A i, j \in 1 .. Len(q) : q[i] = q[j] => i = j
  PROVE  LET p == Tail(q)
         IN  /\ \A i, j \in 1 .. Len(p) : p[i] = p[j] => i = j
             /\ \A x \in S : (\E i \in 1 .. Len(p) : p[i] = x)
                               <=> x # Head(q) /\ \E i \in 1 .. Len(q) : q[i] = x
<1> DEFINE p == Tail(q)
<1>1. /\ Len(q) \in Nat \ {0} /\ Len(p) = Len(q) - 1
      /\ Head(q) = q[1]
      /\ \A i \in 1 .. Len(p) : p[i] = q[i + 1]
  OBVIOUS
<1> HIDE DEF p
<1>2. \A i, j \in 1 .. Len(p) : p[i] = p[j] => i = j
  <2> SUFFICES ASSUME NEW i \in 1 .. Len(p), NEW j \in 1 .. Len(p), p[i] = p[j] PROVE i = j
    OBVIOUS
  <2>1. i + 1 \in 1 .. Len(q) /\ j + 1 \in 1 .. Len(q)
    BY <1>1
  <2>2. q[i + 1] = q[j + 1]
    BY <1>1
  <2>3. i + 1 = j + 1
    BY <2>1, <2>2
  <2> QED BY <2>3
<1>3. ASSUME NEW x \in S
      PROVE  (\E i \in 1 .. Len(p) : p[i] = x) <=> x # Head(q) /\ \E i \in 1 .. Len(q) : q[i] = x
  <2>1. ASSUME NEW i \in 1 .. Len(p), p[i] = x
        PROVE  x # Head(q) /\ \E j \in 1 .. Len(q) : q[j] = x
    <3>1. i + 1 \in 1 .. Len(q) /\ i + 1 # 1 /\ 1 \in 1 .. Len(q) /\ q[i + 1] = x
      BY <1>1, <2>1
    <3>2. q[1] # x
      BY <3>1
    <3> QED BY <1>1, <3>1, <3>2
  <2>2. ASSUME NEW j \in 1 .. Len(q), q[j] = x, x # Head(q)
        PROVE  \E i \in 1 .. Len(p) : p[i] = x
    <3>1. j # 1
      BY <1>1, <2>2
    <3>2. j - 1 \in 1 .. Len(p) /\ (j - 1) + 1 = j
      BY <1>1, <3>1
    <3>3. p[j - 1] = q[j]
      BY <1>1, <3>2
    <3> QED BY <2>2, <3>2, <3>3
  <2> QED BY <2>1, <2>2
<1> QED BY <1>2, <1>3 DEF p

CellInv == QueueInv /\ NoLostWaiter

THEOREM CellInvInit == Init => CellInv
<1> SUFFICES ASSUME Init PROVE CellInv
  OBVIOUS
<1>1. queue = << >> /\ Len(queue) = 0
  BY DEF Init, CellInit
<1>2. \A c \in Calls : ~Waiting(c) /\ pc[c] = "idle"
  BY <1>1 DEF Waiting, Init
<1> QED BY <1>1, <1>2 DEF CellInv, QueueInv, NoLostWaiter

LEMMA CellInvStep == TypeInv /\ CellInv /\ [Next]_vars => CellInv'
<1> SUFFICES ASSUME TypeInv, CellInv, [Next]_vars PROVE CellInv'
  OBVIOUS
<1> USE DEF TypeInv, CellInv
<1>t. pc \in [Calls -> States] /\ queue \in Seq(Calls)
  BY DEF TypeOK, CellTypeOK
\* A step that leaves the cell alone and moves no call into "signer" or, while
\* the cell is empty, out of it.
<1>a. ASSUME UNCHANGED cellVars,
             \A c \in Calls : pc'[c] = "signer" /\ signer = NoKey
                                <=> pc[c] = "signer" /\ signer = NoKey
      PROVE  CellInv'
  <2>1. \A c \in Calls : Waiting(c)' <=> Waiting(c)
    BY <1>a DEF Waiting, cellVars
  <2>2. QueueInv'
    BY <1>a DEF QueueInv, cellVars
  <2>3. NoLostWaiter'
    BY <1>a, <2>1 DEF NoLostWaiter, cellVars
  <2> QED BY <2>2, <2>3
<1>1. ASSUME NEW c \in Calls, ClientCall(c) PROVE CellInv'
  BY <1>a, <1>t, <1>1 DEF ClientCall
<1>2. ASSUME NEW c \in Calls, FirstReplyFails(c) PROVE CellInv'
  BY <1>a, <1>t, <1>2 DEF FirstReplyFails, Return
<1>3. ASSUME NEW c \in Calls, NEW r \in Replies, PassThrough(c, r) PROVE CellInv'
  BY <1>a, <1>t, <1>3 DEF PassThrough, Return
<1>4. ASSUME NEW c \in Calls, NEW r \in Replies, Refuse(c, r) PROVE CellInv'
  BY <1>a, <1>t, <1>4 DEF Refuse, Select, Return
<1>5. ASSUME NEW c \in Calls, NEW r \in Replies, RequestSigner(c, r) PROVE CellInv'
  <2>1. pc[c] = "forwarded" /\ pc' = [pc EXCEPT ![c] = "signer"]
    BY <1>5 DEF RequestSigner, Select
  <2>2. CASE Hit
    BY <1>a, <1>t, <2>1, <2>2 DEF Hit
  <2>3. CASE Join(c)
    <3>1. \A i \in 1 .. Len(queue) : queue[i] # c
      BY <2>1 DEF NoLostWaiter, Waiting
    <3>2. /\ \A i, j \in 1 .. Len(queue') : queue'[i] = queue'[j] => i = j
          /\ \A x \in Calls : Waiting(x)' <=> x = c \/ Waiting(x)
      BY <1>t, <2>3, <3>1, AppendDistinct DEF Join, QueueInv, Waiting
    <3>3. QueueInv'
      BY <2>3, <3>2 DEF Join, QueueInv
    <3>4. NoLostWaiter'
      BY <1>t, <2>1, <2>3, <3>2 DEF Join, NoLostWaiter
    <3> QED BY <3>3, <3>4
  <2> QED BY <1>5, <2>2, <2>3 DEF RequestSigner
<1>6. ASSUME NEW k \in Keys, KeyResolved(k) PROVE CellInv'
  <2>1. queue' = << >> /\ Len(queue') = 0 /\ signer' # NoKey
    BY <1>6, CellAssumption DEF KeyResolved, Resolved
  <2> QED BY <2>1 DEF QueueInv, NoLostWaiter, Waiting
<1>7. ASSUME KeyFails PROVE CellInv'
  <2>1. /\ signer = NoKey /\ signer' = NoKey
        /\ queue # << >> /\ queue' = Tail(queue)
        /\ pc' = [pc EXCEPT ![Head(queue)] = "answered"]
    BY <1>7 DEF KeyFails, ResolutionFails, Resolving, Return
  <2>2. /\ \A i, j \in 1 .. Len(queue') : queue'[i] = queue'[j] => i = j
        /\ \A x \in Calls : Waiting(x)' <=> x # Head(queue) /\ Waiting(x)
    BY <1>t, <2>1, TailDistinct DEF QueueInv, Waiting
  <2>3. QueueInv'
    BY <2>1, <2>2 DEF QueueInv
  <2>4. Head(queue) \in Calls
    BY <1>t, <2>1
  <2>5. NoLostWaiter'
    BY <1>t, <2>1, <2>2, <2>4 DEF NoLostWaiter
  <2> QED BY <2>3, <2>5
<1>8. ASSUME NEW c \in Calls, Pay(c) PROVE CellInv'
  <2>1. Ready(c) /\ UNCHANGED cellVars
    BY <1>8 DEF Pay, NonceFails, SigningFails, SignAndRetry
  <2>2. pc'[c] # "signer" /\ \A x \in Calls \ {c} : pc'[x] = pc[x]
    BY <1>8, <1>t DEF Pay, NonceFails, SigningFails, SignAndRetry, Return
  <2> QED BY <1>a, <2>1, <2>2 DEF Ready
<1>9. ASSUME NEW c \in Calls, SecondReply(c) PROVE CellInv'
  <2>1. pc[c] = "retrying" /\ UNCHANGED cellVars /\ pc' = [pc EXCEPT ![c] = "answered"]
    BY <1>9 DEF SecondReply, RetryFails, RetryAnswered, Return
  <2> QED BY <1>a, <1>t, <2>1
<1>10. ASSUME Settle \/ TimePasses \/ UNCHANGED vars PROVE CellInv'
  BY <1>a, <1>10 DEF Settle, TimePasses, vars, callVars
<1>11. ASSUME Restart PROVE CellInv'
  <2>1. queue' = << >> /\ Len(queue') = 0 /\ \A c \in Calls : pc'[c] # "signer"
    BY <1>11, <1>t DEF Restart, Relaunch, InFlight
  <2> QED BY <2>1 DEF QueueInv, NoLostWaiter, Waiting
<1> QED
  BY <1>1, <1>2, <1>3, <1>4, <1>5, <1>6, <1>7, <1>8, <1>9, <1>10, <1>11
     DEF Next, FirstReply, Resolver, Done

\* Nobody waits for a key that is there, and nobody twice.
THEOREM QueueTheorem == Spec => []QueueInv
<1>1. Init => TypeInv /\ CellInv
  BY TypeInvInit, CellInvInit
<1>2. TypeInv /\ CellInv /\ [Next]_vars => (TypeInv /\ CellInv)'
  BY TypeInvStep, CellInvStep
<1>3. CellInv => QueueInv
  BY DEF CellInv
<1> QED BY <1>1, <1>2, <1>3, PTL DEF Spec

\* Nobody waits for the signer unnoticed, and nobody twice: the queue of
\* OnceCell::get_or_try_init as the handlers of proxy.rs use it.
THEOREM WaitersAreQueued == Spec => [](QueueInv /\ NoLostWaiter)
<1>1. Spec => [](TypeInv /\ CellInv)
  <2>1. Init => TypeInv /\ CellInv
    BY TypeInvInit, CellInvInit
  <2>2. TypeInv /\ CellInv /\ [Next]_vars => (TypeInv /\ CellInv)'
    BY TypeInvStep, CellInvStep
  <2> QED BY <2>1, <2>2, PTL DEF Spec
<1>2. TypeInv /\ CellInv => QueueInv /\ NoLostWaiter
  BY DEF CellInv
<1> QED BY <1>1, <1>2, PTL

----------------------------------------------------------------------------
(* The ledger: what every authorization and every debit satisfies.  The    *)
(* properties of Bridge about money are consequences of it.                *)

\* Every authorization belongs to one call, past its signature, and repeats
\* what was selected for that call under the ceiling of its process.
SignedInv ==
  \A a \in signed :
    /\ pc[a.call] \in {"retrying", "answered", "dropped"}
    /\ answer[a.call] \notin Unpaid
    /\ a.session = home[a.call]
    /\ entry[a.call] \in Selected(demand[a.call])
    /\ WithinCeiling(guards[a.session], entry[a.call].amount)
    /\ a.value = entry[a.call].amount
    /\ a.asset = entry[a.call].asset
    /\ a.scheme = entry[a.call].scheme
    /\ a.validBefore = ValidBefore(entry[a.call], a.signedAt)

\* Its window starts where it was computed to, and ends in bounded time after
\* a reading of the clock that is ahead of block time by no more than MaxSkew.
WindowInv ==
  \A a \in signed :
    /\ a.signedAt <= a.sentAt + MaxSkew
    /\ a.validAfter = ValidAfter(a.signedAt)
    /\ a.validBefore <= a.signedAt + MaxTimeout

\* No two authorizations share a call.
UniqueInv == \A a, b \in signed : a.call = b.call => a = b

\* Those of the running process are signed with the key in the cell.
PayerInv ==
  /\ \A a \in signed : a.session <= session /\ (a.session = session => a.from = signer)
  /\ OnePayer

\* Calls that are past the signature have an authorization, and answers are
\* given once.
AnswerInv ==
  \A c \in Calls :
    /\ home[c] <= session
    /\ answer[c] # "none" <=> pc[c] = "answered"
    /\ pc[c] = "retrying" \/ answer[c] \in Paid => \E a \in signed : a.call = c

\* A debit is covered by its authorization, in amount and in time, and no
\* other debit is one of the same authorization.
DebitInv ==
  /\ \A d \in debits : d.amount <= d.auth.value /\ d.at <= d.auth.validBefore
  /\ \A d, x \in debits : d.auth = x.auth => d = x

LedgerInv == SignedInv /\ WindowInv /\ UniqueInv /\ PayerInv /\ AnswerInv /\ DebitInv

THEOREM LedgerInvInit == Init => LedgerInv
<1> SUFFICES ASSUME Init PROVE LedgerInv
  OBVIOUS
<1>1. signed = {} /\ debits = {}
  BY DEF Init, ChainInit
<1>2. AnswerInv
  BY DEF Init, AnswerInv, Paid
<1> QED
  BY <1>1, <1>2
     DEF LedgerInv, SignedInv, WindowInv, UniqueInv, PayerInv, OnePayer, DebitInv

\* The call that the resolver turns away was waiting for the signer.
LEMMA HeadIsWaiting ==
  ASSUME TypeOK, CellInv, KeyFails
  PROVE  Head(queue) \in Calls /\ pc[Head(queue)] = "signer"
<1>1. queue \in Seq(Calls) /\ queue # << >>
  BY DEF KeyFails, ResolutionFails, Resolving, TypeOK, CellTypeOK
<1>2. Head(queue) \in Calls /\ 1 \in 1 .. Len(queue) /\ queue[1] = Head(queue)
  BY <1>1
<1>3. Waiting(Head(queue))
  BY <1>2 DEF Waiting
<1> QED BY <1>2, <1>3 DEF CellInv, NoLostWaiter

\* A step that signs nothing, seen from the calls that were signed for: their
\* handlers are past the signature, and what was selected for them stays.
LEMMA SignedCallsKept ==
  ASSUME TypeInv, CellInv, [Next]_vars, signed' = signed,
         \A a \in signed : /\ pc[a.call] \in {"retrying", "answered", "dropped"}
                           /\ answer[a.call] \notin Unpaid
  PROVE  /\ \A s \in 1 .. session : guards'[s] = guards[s]
         /\ \A a \in signed : /\ pc'[a.call] \in {"retrying", "answered", "dropped"}
                              /\ answer'[a.call] \notin Unpaid
                              /\ home'[a.call] = home[a.call]
                              /\ entry'[a.call] = entry[a.call]
                              /\ demand'[a.call] = demand[a.call]
<1> DEFINE Kept ==
      /\ \A s \in 1 .. session : guards'[s] = guards[s]
      /\ \A a \in signed : /\ pc'[a.call] \in {"retrying", "answered", "dropped"}
                           /\ answer'[a.call] \notin Unpaid
                           /\ home'[a.call] = home[a.call]
                           /\ entry'[a.call] = entry[a.call]
                           /\ demand'[a.call] = demand[a.call]
<1> USE DEF TypeInv
<1>t. \A a \in signed : a.call \in Calls
  BY DEF TypeOK, Authorization
<1>1. ASSUME NEW c \in Calls, ClientCall(c) PROVE Kept
  BY <1>t, <1>1 DEF ClientCall, TypeOK
<1>2. ASSUME NEW c \in Calls, FirstReplyFails(c) PROVE Kept
  BY <1>t, <1>2 DEF FirstReplyFails, Return, TypeOK
<1>3. ASSUME NEW c \in Calls, NEW r \in Replies, PassThrough(c, r) PROVE Kept
  BY <1>t, <1>3 DEF PassThrough, Return, TypeOK
<1>4. ASSUME NEW c \in Calls, NEW r \in Replies, Refuse(c, r) PROVE Kept
  BY <1>t, <1>4 DEF Refuse, Select, Return, TypeOK
<1>5. ASSUME NEW c \in Calls, NEW r \in Replies, RequestSigner(c, r) PROVE Kept
  BY <1>t, <1>5 DEF RequestSigner, Select, TypeOK
<1>6. ASSUME NEW k \in Keys, KeyResolved(k) PROVE Kept
  BY <1>6 DEF KeyResolved, callVars
<1>7. ASSUME KeyFails PROVE Kept
  BY <1>t, <1>7, HeadIsWaiting DEF KeyFails, Return, TypeOK
<1>8. ASSUME NEW c \in Calls, Pay(c) PROVE Kept
  BY <1>t, <1>8 DEF Pay, NonceFails, SigningFails, SignAndRetry, Ready, Return, TypeOK
<1>9. ASSUME NEW c \in Calls, SecondReply(c) PROVE Kept
  BY <1>t, <1>9 DEF SecondReply, RetryFails, RetryAnswered, Return, TypeOK, Unpaid
<1>10. ASSUME Settle \/ TimePasses \/ UNCHANGED vars PROVE Kept
  BY <1>10 DEF Settle, TimePasses, vars, callVars
<1>11. ASSUME Restart PROVE Kept
  BY <1>t, <1>11 DEF Restart, Relaunch, InFlight, TypeOK
<1> QED
  BY <1>1, <1>2, <1>3, <1>4, <1>5, <1>6, <1>7, <1>8, <1>9, <1>10, <1>11
     DEF Next, FirstReply, Resolver, Done

\* Only SignAndRetry signs, and only Settle debits.
LEMMA WhoSigns ==
  ASSUME [Next]_vars
  PROVE  /\ signed' = signed \/ \E c \in Calls : SignAndRetry(c)
         /\ debits' = debits \/ Settle
BY DEF Next, ClientCall, FirstReply, FirstReplyFails, PassThrough, Refuse, RequestSigner,
       Pay, NonceFails, SigningFails, SignAndRetry, SecondReply, RetryFails, RetryAnswered,
       Resolver, KeyFails, KeyResolved, Settle, TimePasses, Tick, Restart, Relaunch, Done,
       vars, chainVars

LEMMA SignedInvStep ==
  TypeInv /\ CellInv /\ AnswerInv /\ PayerInv /\ SignedInv /\ [Next]_vars => SignedInv'
<1> SUFFICES ASSUME TypeInv, CellInv, AnswerInv, PayerInv, SignedInv, [Next]_vars
             PROVE  SignedInv'
  OBVIOUS
<1>1. CASE signed' = signed
  <2>1. \A a \in signed : a.session \in 1 .. session
    BY DEF TypeInv, TypeOK, Authorization, PayerInv
  <2> QED BY <1>1, <2>1, SignedCallsKept DEF SignedInv
<1>2. ASSUME NEW c \in Calls, SignAndRetry(c) PROVE SignedInv'
  <2>0. PICK now \in Readings, nonce \in Nonces :
               signed' = signed \cup {Sign(c, entry[c], now, nonce)}
    BY <1>2 DEF SignAndRetry
  <2>1. /\ pc[c] = "signer"
        /\ pc' = [pc EXCEPT ![c] = "retrying"]
        /\ UNCHANGED <<guards, home, entry, demand, answer>>
    BY <1>2 DEF SignAndRetry, Ready
  <2>2. /\ entry[c] \in Selected(demand[c])
        /\ WithinCeiling(Guard, entry[c].amount)
        /\ home[c] = session
    BY <2>1 DEF TypeInv, SelectionInv, InFlight
  <2>3. answer[c] \notin Unpaid
    BY <2>1 DEF AnswerInv, Unpaid
  <2>4. pc'[c] = "retrying" /\ \A x \in Calls \ {c} : pc'[x] = pc[x]
    BY <2>1 DEF TypeInv, TypeOK
  <2>5. \A a \in signed : a.call \in Calls
    BY DEF TypeInv, TypeOK, Authorization
  <2> QED BY <2>0, <2>1, <2>2, <2>3, <2>4, <2>5 DEF SignedInv, Sign, Guard
<1> QED BY <1>1, <1>2, WhoSigns

LEMMA TimeoutBounded ==
  ASSUME NEW e \in AcceptsEntry PROVE Timeout(e) \in 0 .. MaxTimeout
BY PaymentAssumption DEF Timeout, AcceptsEntry

LEMMA WindowInvStep == TypeInv /\ WindowInv /\ [Next]_vars => WindowInv'
<1> SUFFICES ASSUME TypeInv, WindowInv, [Next]_vars PROVE WindowInv'
  OBVIOUS
<1>1. CASE signed' = signed
  BY <1>1 DEF WindowInv
<1>2. ASSUME NEW c \in Calls, SignAndRetry(c) PROVE WindowInv'
  <2>0. PICK now \in Readings, nonce \in Nonces :
               signed' = signed \cup {Sign(c, entry[c], now, nonce)}
    BY <1>2 DEF SignAndRetry
  <2> DEFINE b == Sign(c, entry[c], now, nonce)
  <2>1. signed' = signed \cup {b} /\ pc[c] = "signer"
    BY <1>2, <2>0 DEF SignAndRetry, Ready
  <2>2. entry[c] \in AcceptsEntry
    BY <2>1, SelectedEntry DEF TypeInv, TypeOK, SelectionInv
  <2>3. Timeout(entry[c]) \in 0 .. MaxTimeout
    BY <2>2, TimeoutBounded
  <2>4. /\ b.signedAt = now /\ now \in Nat /\ now <= clock + MaxSkew /\ b.sentAt = clock
        /\ b.validAfter = ValidAfter(now)
        /\ b.validBefore = now + Timeout(entry[c])
    <3>1. clock \in Nat
      BY ChainAssumption DEF TypeInv, TypeOK, ChainTypeOK
    <3>2. now \in Nat /\ now <= clock + MaxSkew
      BY <3>1, BridgeAssumption DEF Readings
    <3> QED BY <3>2 DEF Sign, ValidBefore
  <2> HIDE DEF b
  <2> QED BY <2>1, <2>3, <2>4, PaymentAssumption DEF WindowInv
<1> QED BY <1>1, <1>2, WhoSigns

LEMMA UniqueInvStep ==
  SignedInv /\ UniqueInv /\ [Next]_vars => UniqueInv'
<1> SUFFICES ASSUME SignedInv, UniqueInv, [Next]_vars PROVE UniqueInv'
  OBVIOUS
<1>1. CASE signed' = signed
  BY <1>1 DEF UniqueInv
<1>2. ASSUME NEW c \in Calls, SignAndRetry(c) PROVE UniqueInv'
  <2>0. PICK now \in Readings, nonce \in Nonces :
               signed' = signed \cup {Sign(c, entry[c], now, nonce)}
    BY <1>2 DEF SignAndRetry
  <2> DEFINE b == Sign(c, entry[c], now, nonce)
  <2>1. signed' = signed \cup {b} /\ pc[c] = "signer" /\ b.call = c
    BY <1>2, <2>0 DEF SignAndRetry, Ready, Sign
  <2>2. \A a \in signed : a.call # c
    BY <2>1 DEF SignedInv
  <2> HIDE DEF b
  <2> QED BY <2>1, <2>2 DEF UniqueInv
<1> QED BY <1>1, <1>2, WhoSigns

LEMMA PayerInvStep == TypeInv /\ PayerInv /\ [Next]_vars => PayerInv'
<1> SUFFICES ASSUME TypeInv, PayerInv, [Next]_vars PROVE PayerInv'
  OBVIOUS
<1>t. /\ session \in Nat
      /\ \A a \in signed : a.session \in Nat /\ a.from \in Keys
  BY DEF TypeInv, TypeOK, Authorization
<1>1. ASSUME UNCHANGED <<session, signer, signed>> PROVE PayerInv'
  BY <1>1 DEF PayerInv, OnePayer
<1>2. ASSUME NEW c \in Calls, SignAndRetry(c) PROVE PayerInv'
  <2>0. PICK now \in Readings, nonce \in Nonces :
               signed' = signed \cup {Sign(c, entry[c], now, nonce)}
    BY <1>2 DEF SignAndRetry
  <2> DEFINE b == Sign(c, entry[c], now, nonce)
  <2>1. signed' = signed \cup {b} /\ session' = session /\ signer' = signer
    BY <1>2, <2>0 DEF SignAndRetry, cellVars
  <2>2. b.session = session /\ b.from = signer
    BY DEF Sign
  <2> HIDE DEF b
  <2> QED BY <1>t, <2>1, <2>2 DEF PayerInv, OnePayer
<1>3. ASSUME NEW k \in Keys, KeyResolved(k) PROVE PayerInv'
  <2>1. signer = NoKey /\ UNCHANGED <<session, signed>>
    BY <1>3 DEF KeyResolved, Resolved, Resolving
  <2>2. \A a \in signed : a.session # session
    BY <1>t, <2>1, CellAssumption DEF PayerInv
  <2> QED BY <2>1, <2>2 DEF PayerInv, OnePayer
<1>4. ASSUME Restart PROVE PayerInv'
  BY <1>t, <1>4 DEF Restart, Relaunch, PayerInv, OnePayer
<1>5. ASSUME NEW c \in Calls, NEW r \in Replies, RequestSigner(c, r) PROVE PayerInv'
  BY <1>1, <1>5 DEF RequestSigner, Join, Hit, cellVars
<1> QED
  BY <1>1, <1>2, <1>3, <1>4, <1>5
     DEF Next, ClientCall, FirstReply, FirstReplyFails, PassThrough, Refuse, Pay,
       NonceFails, SigningFails, SecondReply, RetryFails, RetryAnswered, Resolver,
       KeyFails, ResolutionFails, Settle, TimePasses, Done, vars, cellVars

LEMMA AnswerInvStep == TypeInv /\ CellInv /\ AnswerInv /\ [Next]_vars => AnswerInv'
<1> SUFFICES ASSUME TypeInv, CellInv, AnswerInv, [Next]_vars PROVE AnswerInv'
  OBVIOUS
<1> USE DEF TypeInv
<1>t. /\ pc \in [Calls -> States] /\ answer \in [Calls -> Answers]
      /\ home \in [Calls -> 0 .. MaxSessions] /\ session \in Nat
  BY DEF TypeOK
\* An answer for a call that was not signed for.
<1>a. ASSUME NEW c \in Calls, NEW a \in Unpaid, Return(c, a), pc[c] # "answered",
             UNCHANGED <<session, home, signed>>
      PROVE  AnswerInv'
  BY <1>t, <1>a DEF Return, AnswerInv, Unpaid, Paid
<1>1. ASSUME NEW c \in Calls, ClientCall(c) PROVE AnswerInv'
  BY <1>t, <1>1 DEF ClientCall, AnswerInv
<1>2. ASSUME NEW c \in Calls, FirstReplyFails(c) PROVE AnswerInv'
  BY <1>a, <1>2 DEF FirstReplyFails, Unpaid
<1>3. ASSUME NEW c \in Calls, NEW r \in Replies, PassThrough(c, r) PROVE AnswerInv'
  BY <1>a, <1>3 DEF PassThrough, Unpaid
<1>4. ASSUME NEW c \in Calls, NEW r \in Replies, Refuse(c, r) PROVE AnswerInv'
  BY <1>a, <1>4 DEF Refuse, Select, Unpaid
<1>5. ASSUME NEW c \in Calls, NEW r \in Replies, RequestSigner(c, r) PROVE AnswerInv'
  BY <1>t, <1>5 DEF RequestSigner, Select, AnswerInv
<1>6. ASSUME KeyFails PROVE AnswerInv'
  BY <1>a, <1>6, HeadIsWaiting DEF KeyFails, Unpaid
<1>7. ASSUME NEW c \in Calls, NonceFails(c) \/ SigningFails(c) PROVE AnswerInv'
  BY <1>a, <1>7 DEF NonceFails, SigningFails, Ready, Unpaid
<1>8. ASSUME NEW c \in Calls, SignAndRetry(c) PROVE AnswerInv'
  <2>0. PICK now \in Readings, nonce \in Nonces :
               signed' = signed \cup {Sign(c, entry[c], now, nonce)}
    BY <1>8 DEF SignAndRetry
  <2>1. /\ pc[c] = "signer"
        /\ pc' = [pc EXCEPT ![c] = "retrying"]
        /\ UNCHANGED <<session, home, answer>>
    BY <1>8 DEF SignAndRetry, Ready
  <2>2. Sign(c, entry[c], now, nonce).call = c
    BY DEF Sign
  <2> QED BY <1>t, <2>0, <2>1, <2>2 DEF AnswerInv
<1>9. ASSUME NEW c \in Calls, SecondReply(c) PROVE AnswerInv'
  <2>1. PICK a \in Paid : Return(c, a)
    BY <1>9 DEF SecondReply, RetryFails, RetryAnswered, Paid
  <2>2. pc[c] = "retrying" /\ UNCHANGED <<session, home, signed>>
    BY <1>9 DEF SecondReply, RetryFails, RetryAnswered
  <2> QED BY <1>t, <2>1, <2>2 DEF Return, AnswerInv, Paid
<1>10. ASSUME NEW k \in Keys, KeyResolved(k) PROVE AnswerInv'
  BY <1>10 DEF KeyResolved, callVars, AnswerInv
<1>11. ASSUME Settle \/ TimePasses \/ UNCHANGED vars PROVE AnswerInv'
  BY <1>11 DEF Settle, TimePasses, vars, callVars, AnswerInv
<1>12. ASSUME Restart PROVE AnswerInv'
  BY <1>t, <1>12 DEF Restart, Relaunch, InFlight, AnswerInv
<1> QED
  BY <1>1, <1>2, <1>3, <1>4, <1>5, <1>6, <1>7, <1>8, <1>9, <1>10, <1>11, <1>12
     DEF Next, FirstReply, Pay, Resolver, Done

LEMMA DebitInvStep ==
  TypeInv /\ DebitInv /\ [Next]_vars => DebitInv'
<1> SUFFICES ASSUME TypeInv, DebitInv, [Next]_vars PROVE DebitInv'
  OBVIOUS
<1>1. CASE debits' = debits
  BY <1>1 DEF DebitInv
<1>2. CASE Settle
  <2>1. PICK a \in signed : SettleExact(a) \/ \E x \in 0 .. a.value : SettleUpto(a, x)
    BY <1>2 DEF Settle
  <2>2. /\ a.value \in Nat /\ a.validBefore \in Nat /\ clock \in Nat
    BY ChainAssumption DEF TypeInv, TypeOK, ChainTypeOK, Authorization
  <2>3. PICK x \in 0 .. a.value : Debit(a, x)
    BY <2>1, <2>2 DEF SettleExact, SettleUpto
  <2>4. clock <= a.validBefore
    BY <2>2, <2>3 DEF Debit, InWindow
  <2>5. ~Used(a) /\ debits' = debits \cup {[auth |-> a, amount |-> x, at |-> clock]}
    BY <2>3 DEF Debit
  <2> QED BY <2>2, <2>4, <2>5 DEF DebitInv, Used
<1> QED BY <1>1, <1>2, WhoSigns

LEMMA InvariantInit == Init => TypeInv /\ CellInv /\ LedgerInv
BY TypeInvInit, CellInvInit, LedgerInvInit

LEMMA InvariantStep ==
  TypeInv /\ CellInv /\ LedgerInv /\ [Next]_vars => (TypeInv /\ CellInv /\ LedgerInv)'
BY TypeInvStep, CellInvStep, SignedInvStep, WindowInvStep, UniqueInvStep, PayerInvStep,
   AnswerInvStep, DebitInvStep
   DEF LedgerInv

LEMMA Invariance == Spec => [](TypeInv /\ CellInv /\ LedgerInv)
BY InvariantInit, InvariantStep, PTL DEF Spec

----------------------------------------------------------------------------
(* The properties. *)

\* What the ledger says of the entry that was signed.
LEMMA SignedEntry ==
  ASSUME TypeInv, SignedInv, NEW a \in signed
  PROVE  /\ entry[a.call] \in AcceptsEntry
         /\ Supported(entry[a.call])
         /\ a.scheme = "exact" =>
              \A i \in DOMAIN demand[a.call] : ~UptoSupports(demand[a.call][i])
<1>1. /\ a.call \in Calls
      /\ demand[a.call] \in Seq(AcceptsEntry)
      /\ entry[a.call] \in Selected(demand[a.call])
      /\ a.scheme = entry[a.call].scheme
  BY DEF TypeInv, TypeOK, Authorization, SignedInv
<1> QED BY <1>1, SelectedEntry

\* The ceiling of payment.rs:191-200 holds for everything that is signed, in
\* every interleaving and across restarts.
THEOREM CeilingTheorem == Spec => []CeilingRespected
<1>1. TypeInv /\ LedgerInv => CeilingRespected
  <2> SUFFICES ASSUME TypeInv, LedgerInv, NEW a \in signed
               PROVE  /\ a.asset = "USDC" /\ entry[a.call].network = "base"
                      /\ guards[a.session] # Unset
                      /\ a.value <= guards[a.session]
    BY DEF CeilingRespected
  <2>1. Supported(entry[a.call])
    BY SignedEntry DEF LedgerInv
  <2> QED
    BY <2>1
       DEF LedgerInv, SignedInv, Supported, UptoSupports, ExactSupports, WithinCeiling
<1> QED BY <1>1, Invariance, PTL

\* One authorization per call, however the retry is answered (proxy.rs:165).
THEOREM PaidOnceTheorem == Spec => []PaidOnce
<1>1. LedgerInv => PaidOnce
  BY DEF LedgerInv, UniqueInv, PaidOnce
<1> QED BY <1>1, Invariance, PTL

\* One charge per call, at most the ceiling of the process that took it.
THEOREM CostTheorem == Spec => []CostBounded
<1>1. TypeInv /\ LedgerInv => CostBounded
  <2> SUFFICES ASSUME TypeInv, LedgerInv, NEW d \in debits
               PROVE  /\ guards[home[d.auth.call]] # Unset
                      /\ d.amount <= guards[home[d.auth.call]]
                      /\ \A x \in debits : x.auth.call = d.auth.call => x = d
    BY DEF CostBounded
  <2>1. d.auth \in signed /\ d.amount \in Nat /\ \A x \in debits : x.auth \in signed
    BY DEF TypeInv, TypeOK
  <2> DEFINE a == d.auth
  <2>2. /\ a.session = home[a.call]
        /\ WithinCeiling(guards[a.session], entry[a.call].amount)
        /\ a.value = entry[a.call].amount
        /\ a.value \in Nat /\ a.session \in 1 .. session
    BY <2>1 DEF LedgerInv, SignedInv, PayerInv, TypeInv, TypeOK, Authorization
  <2>3. guards[a.session] \in Nat \cup {Unset}
    <3>1. \A s \in 1 .. session : guards[s] \in Guards
      BY DEF TypeInv, TypeOK
    <3> QED BY <2>2, <3>1, BridgeAssumption
  <2>4. guards[a.session] # Unset /\ d.amount <= a.value /\ a.value <= guards[a.session]
    BY <2>1, <2>2 DEF LedgerInv, DebitInv, WithinCeiling
  <2>5. d.amount <= guards[home[a.call]]
    BY <2>1, <2>2, <2>3, <2>4
  <2>6. \A x \in debits : x.auth.call = d.auth.call => x = d
    BY <2>1 DEF LedgerInv, UniqueInv, DebitInv
  <2> QED BY <2>2, <2>4, <2>5, <2>6
<1> QED BY <1>1, Invariance, PTL

\* What the client is told of a payment is true (the answers of proxy.rs:84-171).
THEOREM TruthTheorem == Spec => []TruthfulAnswers
<1>1. LedgerInv => TruthfulAnswers
  BY DEF LedgerInv, SignedInv, AnswerInv, TruthfulAnswers
<1> QED BY <1>1, Invariance, PTL

\* A process pays from one wallet (the OnceCell of proxy.rs:61-65).
THEOREM OnePayerTheorem == Spec => []OnePayer
<1>1. LedgerInv => OnePayer
  BY DEF LedgerInv, PayerInv
<1> QED BY <1>1, Invariance, PTL

\* `exact` is signed only for want of `upto` (proxy.rs:102-109).
THEOREM PreferenceTheorem == Spec => []UptoPreferred
<1>1. TypeInv /\ LedgerInv => UptoPreferred
  BY SignedEntry DEF LedgerInv, UptoPreferred
<1> QED BY <1>1, Invariance, PTL

\* Nothing is charged later than MaxTimeout after it was sent, by block time,
\* give or take what the proxy's clock is ahead (payment.rs:19-21).
THEOREM ExposureTheorem == Spec => []ExposureEnds
<1>1. TypeInv /\ LedgerInv => ExposureEnds
  <2> SUFFICES ASSUME TypeInv, LedgerInv, NEW d \in debits
               PROVE  d.at <= d.auth.sentAt + MaxTimeout + MaxSkew
    BY DEF ExposureEnds
  <2>1. d.auth \in signed /\ d.at \in Nat
    BY DEF TypeInv, TypeOK
  <2>2. /\ d.auth.signedAt \in Nat /\ d.auth.validBefore \in Nat /\ d.auth.sentAt \in Nat
        /\ MaxSkew \in Nat
    BY <2>1, BridgeAssumption DEF TypeInv, TypeOK, Authorization
  <2>3. d.at <= d.auth.validBefore
    BY <2>1 DEF LedgerInv, DebitInv
  <2>4. /\ d.auth.validBefore <= d.auth.signedAt + MaxTimeout
        /\ d.auth.signedAt <= d.auth.sentAt + MaxSkew
    BY <2>1 DEF LedgerInv, WindowInv
  <2> QED BY <2>1, <2>2, <2>3, <2>4, PaymentAssumption
<1> QED BY <1>1, Invariance, PTL

\* What is signed can be settled at once, by a chain whose clock differs from
\* the proxy's by less than the slack one way and the timeout the other
\* (payment.rs:22-23; exact.rs:115-133).
THEOREM ArrivalTheorem == Spec => []ValidOnArrival
<1>1. TypeInv /\ LedgerInv => ValidOnArrival
  <2> SUFFICES ASSUME TypeInv, LedgerInv, NEW a \in signed, 0 < a.sentAt,
                      a.signedAt - a.sentAt < Slack,
                      0 < (a.signedAt - a.sentAt) + Timeout(entry[a.call])
               PROVE  InWindow(a, a.sentAt)
    BY DEF ValidOnArrival
  <2>1. /\ a.signedAt \in Nat /\ a.sentAt \in Nat /\ a.validBefore \in Nat
        /\ a.validAfter \in Nat /\ Slack \in Nat
    BY PaymentAssumption DEF TypeInv, TypeOK, Authorization
  <2>2. a.validAfter < a.sentAt
    BY <2>1 DEF LedgerInv, WindowInv, ValidAfter
  <2>3. a.sentAt < a.validBefore
    <3>1. entry[a.call] \in AcceptsEntry
      BY SignedEntry DEF LedgerInv
    <3>2. Timeout(entry[a.call]) \in Nat
      BY <3>1, TimeoutBounded, PaymentAssumption
    <3>3. a.validBefore = a.signedAt + Timeout(entry[a.call])
      BY DEF LedgerInv, SignedInv, ValidBefore
    <3> QED BY <2>1, <3>2, <3>3
  <2> QED BY <2>1, <2>2, <2>3 DEF InWindow
<1> QED BY <1>1, Invariance, PTL

----------------------------------------------------------------------------
(* The unlock prompts. *)

LEMMA PromptsAccountedInit == Init => PromptsAccounted
<1> SUFFICES ASSUME Init PROVE PromptsAccounted
  OBVIOUS
<1>1. TurnedAway = {}
  BY DEF Init, TurnedAway
<1> QED BY <1>1, FS_EmptySet DEF Init, CellInit, PromptsAccounted

LEMMA PromptsAccountedStep ==
  TypeInv /\ CellInv /\ AnswerInv /\ PromptsAccounted /\ [Next]_vars => PromptsAccounted'
<1> SUFFICES ASSUME TypeInv, CellInv, AnswerInv, PromptsAccounted, [Next]_vars
             PROVE  PromptsAccounted'
  OBVIOUS
<1> USE DEF TypeInv
<1>t. /\ pc \in [Calls -> States] /\ answer \in [Calls -> Answers]
      /\ home \in [Calls -> 0 .. MaxSessions] /\ session \in Nat
      /\ queue \in Seq(Calls) /\ resolutions \in Nat
  BY DEF TypeOK, CellTypeOK
<1>n. IsFiniteSet(TurnedAway) /\ Cardinality(TurnedAway) \in Nat
  BY CallsAssumption, FS_Subset, FS_CardinalityType DEF TurnedAway
\* A step that turns nobody away and leaves the cell alone.
<1>a. ASSUME TurnedAway' = TurnedAway, UNCHANGED cellVars PROVE PromptsAccounted'
  BY <1>a DEF PromptsAccounted, cellVars
\* A call that is answered for another reason.
<1>b. ASSUME NEW c \in Calls, NEW a \in Answers \ {"noKey"}, Return(c, a),
             pc[c] # "answered", UNCHANGED <<session, home>>
      PROVE  TurnedAway' = TurnedAway
  BY <1>t, <1>b DEF Return, AnswerInv, TurnedAway
<1>1. ASSUME NEW c \in Calls, ClientCall(c) PROVE PromptsAccounted'
  <2>1. TurnedAway' = TurnedAway
    BY <1>t, <1>1 DEF ClientCall, AnswerInv, TurnedAway
  <2> QED BY <1>a, <1>1, <2>1 DEF ClientCall
<1>2. ASSUME NEW c \in Calls, FirstReplyFails(c) PROVE PromptsAccounted'
  BY <1>a, <1>b, <1>2 DEF FirstReplyFails, Answers, Unpaid
<1>3. ASSUME NEW c \in Calls, NEW r \in Replies, PassThrough(c, r) PROVE PromptsAccounted'
  BY <1>a, <1>b, <1>3 DEF PassThrough, Answers, Unpaid
<1>4. ASSUME NEW c \in Calls, NEW r \in Replies, Refuse(c, r) PROVE PromptsAccounted'
  BY <1>a, <1>b, <1>4 DEF Refuse, Select, Answers, Unpaid
<1>5. ASSUME NEW c \in Calls, NEW r \in Replies, RequestSigner(c, r) PROVE PromptsAccounted'
  <2>1. TurnedAway' = TurnedAway
    BY <1>5 DEF RequestSigner, TurnedAway
  <2>2. CASE Hit
    BY <1>a, <2>1, <2>2 DEF Hit
  <2>3. CASE Join(c)
    <3>1. queue' # << >> /\ signer = NoKey
      BY <1>t, <2>3 DEF Join
    <3> QED BY <1>n, <1>t, <2>1, <2>3, <3>1 DEF Join, PromptsAccounted
  <2> QED BY <1>5, <2>2, <2>3 DEF RequestSigner
<1>6. ASSUME NEW k \in Keys, KeyResolved(k) PROVE PromptsAccounted'
  <2>1. TurnedAway' = TurnedAway
    BY <1>6 DEF KeyResolved, callVars, TurnedAway
  <2> QED BY <1>6, <2>1, CellAssumption DEF KeyResolved, Resolved, Resolving, PromptsAccounted
<1>7. ASSUME KeyFails PROVE PromptsAccounted'
  <2> DEFINE h == Head(queue)
  <2>1. /\ signer = NoKey /\ queue # << >> /\ signer' = signer /\ queue' = Tail(queue)
        /\ resolutions' = IF Len(queue) > 1 THEN resolutions + 1 ELSE resolutions
        /\ UNCHANGED <<session, home>>
        /\ Return(h, "noKey")
    BY <1>7 DEF KeyFails, ResolutionFails, Resolving
  <2>2. h \in Calls /\ pc[h] = "signer"
    BY <1>7, HeadIsWaiting
  <2>3. h \notin TurnedAway /\ home[h] = session
    BY <2>2 DEF AnswerInv, TurnedAway, SelectionInv, InFlight
  <2>4. TurnedAway' = TurnedAway \cup {h}
    BY <1>t, <2>1, <2>2, <2>3 DEF Return, TurnedAway
  <2>5. Cardinality(TurnedAway') = Cardinality(TurnedAway) + 1
    BY <1>n, <2>3, <2>4, FS_AddElement
  <2>6. queue' = << >> <=> ~(Len(queue) > 1)
    <3>1. /\ Len(queue) \in Nat \ {0}
          /\ queue' \in Seq(Calls) /\ Len(queue') = Len(queue) - 1
      BY <1>t, <2>1
    <3>2. queue' = << >> <=> Len(queue') = 0
      BY <3>1
    <3> QED BY <3>1, <3>2
  <2> QED BY <1>n, <1>t, <2>1, <2>5, <2>6 DEF PromptsAccounted
<1>8. ASSUME NEW c \in Calls, NonceFails(c) \/ SigningFails(c) PROVE PromptsAccounted'
  BY <1>a, <1>b, <1>8 DEF NonceFails, SigningFails, Ready, Answers, Unpaid
<1>9. ASSUME NEW c \in Calls, SignAndRetry(c) PROVE PromptsAccounted'
  BY <1>a, <1>9 DEF SignAndRetry, TurnedAway
<1>10. ASSUME NEW c \in Calls, SecondReply(c) PROVE PromptsAccounted'
  <2>1. PICK a \in Paid : Return(c, a)
    BY <1>10 DEF SecondReply, RetryFails, RetryAnswered, Paid
  <2>2. pc[c] = "retrying" /\ UNCHANGED <<cellVars, session, home>>
    BY <1>10 DEF SecondReply, RetryFails, RetryAnswered
  <2> QED BY <1>a, <1>b, <2>1, <2>2 DEF Answers, Paid
<1>11. ASSUME Settle \/ TimePasses \/ UNCHANGED vars PROVE PromptsAccounted'
  BY <1>a, <1>11 DEF Settle, TimePasses, vars, callVars, TurnedAway
<1>12. ASSUME Restart PROVE PromptsAccounted'
  <2>1. TurnedAway' = {}
    BY <1>t, <1>12 DEF Restart, Relaunch, AnswerInv, TurnedAway
  <2> QED BY <1>12, <2>1, FS_EmptySet DEF Restart, Relaunch, PromptsAccounted
<1> QED
  BY <1>1, <1>2, <1>3, <1>4, <1>5, <1>6, <1>7, <1>8, <1>9, <1>10, <1>11, <1>12
     DEF Next, FirstReply, Pay, Resolver, Done

\* Concurrent payments share one unlock, and it is repeated only for a call
\* that the resolver turned away (proxy.rs:61-80).
THEOREM PromptTheorem == Spec => []PromptsAccounted
<1>1. TypeInv /\ CellInv /\ LedgerInv /\ PromptsAccounted /\ [Next]_vars => PromptsAccounted'
  BY PromptsAccountedStep DEF LedgerInv
<1> QED BY <1>1, PromptsAccountedInit, Invariance, PTL DEF Spec

\* Every call that came to the signer had selected an entry that the guard
\* passed, and if the key is there, one of them was not turned away.
AskerInv ==
  /\ \A c \in Askers : /\ entry[c] \in Selected(demand[c])
                       /\ WithinCeiling(Guard, entry[c].amount)
  /\ signer # NoKey => \E c \in Askers : answer[c] # "noKey"

LEMMA AskerInvStep == TypeInv /\ CellInv /\ AnswerInv /\ AskerInv /\ [Next]_vars => AskerInv'
<1> SUFFICES ASSUME TypeInv, CellInv, AnswerInv, AskerInv, [Next]_vars PROVE AskerInv'
  OBVIOUS
<1> USE DEF TypeInv
<1>t. /\ pc \in [Calls -> States] /\ answer \in [Calls -> Answers]
      /\ home \in [Calls -> 0 .. MaxSessions] /\ session \in Nat
  BY DEF TypeOK
\* A step that brings no call to the signer, turns none away, and fills no cell.
<1>a. ASSUME UNCHANGED <<session, guards>>,
             signer' # NoKey => signer # NoKey,
             \A c \in Calls : c \in Askers' =>
               c \in Askers /\ entry'[c] = entry[c] /\ demand'[c] = demand[c],
             \A c \in Calls : c \in Askers /\ answer[c] # "noKey" /\ signer # NoKey =>
               c \in Askers' /\ answer'[c] # "noKey"
      PROVE  AskerInv'
  <2>1. \A c \in Askers' : /\ entry'[c] \in Selected(demand'[c])
                           /\ WithinCeiling(Guard, entry[c].amount)' 
    BY <1>a DEF AskerInv, Guard, Askers
  <2>2. signer' # NoKey => \E c \in Askers' : answer'[c] # "noKey"
    BY <1>a DEF AskerInv, Askers
  <2> QED BY <2>1, <2>2 DEF AskerInv
\* A call that is answered before it came to the signer.
<1>b. ASSUME NEW c \in Calls, pc[c] = "forwarded",
             NEW a \in {"upstreamFailed", "passthrough", "refused"}, Return(c, a),
             UNCHANGED <<cellVars, session, guards, home>>,
             \A x \in Calls \ {c} : entry'[x] = entry[x] /\ demand'[x] = demand[x]
      PROVE  AskerInv'
  <2>1. c \notin Askers /\ c \notin Askers'
    BY <1>t, <1>b DEF AnswerInv, Askers, Return, Paid
  <2>2. \A x \in Calls \ {c} : (x \in Askers' <=> x \in Askers) /\ answer'[x] = answer[x]
    BY <1>t, <1>b DEF Askers, Return
  <2> QED BY <1>a, <1>b, <2>1, <2>2 DEF cellVars
\* A call that is at the signer or beyond it, and stays there or is answered.
<1>c. ASSUME NEW c \in Calls, pc[c] \in {"signer", "retrying"},
             UNCHANGED <<cellVars, session, guards, home, demand, entry>>,
             \/ pc' = [pc EXCEPT ![c] = "retrying"] /\ answer' = answer
             \/ \E a \in {"noNonce", "badEntry"} \cup Paid : Return(c, a)
      PROVE  AskerInv'
  <2>1. home[c] = session
    BY <1>c DEF SelectionInv, InFlight
  <2>2. c \in Askers
    BY <1>c, <2>1 DEF Askers
  <2>3. c \in Askers' /\ (answer[c] # "noKey" => answer'[c] # "noKey")
    BY <1>t, <1>c, <2>1 DEF Askers, Return, Paid
  <2>4. \A x \in Calls \ {c} : (x \in Askers' <=> x \in Askers) /\ answer'[x] = answer[x]
    BY <1>t, <1>c DEF Askers, Return
  <2> QED BY <1>a, <1>c, <2>2, <2>3, <2>4 DEF cellVars
<1>1. ASSUME NEW c \in Calls, ClientCall(c) PROVE AskerInv'
  <2>1. c \notin Askers /\ c \notin Askers'
    BY <1>t, <1>1 DEF ClientCall, AnswerInv, Askers, Paid
  <2>2. \A x \in Calls \ {c} : x \in Askers' <=> x \in Askers
    BY <1>t, <1>1 DEF ClientCall, Askers
  <2> QED BY <1>a, <1>1, <2>1, <2>2 DEF ClientCall, cellVars
<1>2. ASSUME NEW c \in Calls, FirstReplyFails(c) PROVE AskerInv'
  BY <1>b, <1>2 DEF FirstReplyFails
<1>3. ASSUME NEW c \in Calls, NEW r \in Replies, PassThrough(c, r) PROVE AskerInv'
  BY <1>b, <1>3 DEF PassThrough
<1>4. ASSUME NEW c \in Calls, NEW r \in Replies, Refuse(c, r) PROVE AskerInv'
  BY <1>b, <1>4 DEF Refuse, Select, TypeOK
<1>5. ASSUME NEW c \in Calls, NEW r \in Replies, RequestSigner(c, r) PROVE AskerInv'
  <2>1. PICK i \in DOMAIN r.blocks : \E j \in DOMAIN r.blocks[i] :
               Select(c, r, r.blocks[i][j]) /\ WithinCeiling(Guard, r.blocks[i][j].amount)
    BY <1>5 DEF RequestSigner
  <2>2. PICK j \in DOMAIN r.blocks[i] :
               Select(c, r, r.blocks[i][j]) /\ WithinCeiling(Guard, r.blocks[i][j].amount)
    BY <2>1
  <2>3. /\ entry'[c] = r.blocks[i][j] /\ entry'[c] \in Selected(demand'[c])
        /\ \A x \in Calls \ {c} : entry'[x] = entry[x] /\ demand'[x] = demand[x]
    BY <2>2, SelectTypes
  <2>4. /\ pc' = [pc EXCEPT ![c] = "signer"] /\ Guard' = Guard
        /\ signer' = signer /\ UNCHANGED <<session, home, answer>>
    BY <1>5 DEF RequestSigner, Join, Hit, cellVars, Guard
  <2>5. \A x \in Calls \ {c} : x \in Askers' <=> x \in Askers
    BY <1>t, <2>4 DEF Askers
  <2>6. \A x \in Askers' : /\ entry'[x] \in Selected(demand'[x])
                           /\ WithinCeiling(Guard, entry[x].amount)'
    <3> SUFFICES ASSUME NEW x \in Askers'
                 PROVE  /\ entry'[x] \in Selected(demand'[x])
                        /\ WithinCeiling(Guard, entry'[x].amount)
      BY <2>4
    <3>1. CASE x = c
      BY <2>2, <2>3, <3>1
    <3>2. CASE x # c
      BY <2>3, <2>5, <3>2 DEF AskerInv, Askers
    <3> QED BY <3>1, <3>2
  <2>7. signer' # NoKey => \E x \in Askers' : answer'[x] # "noKey"
    <3>1. pc[c] = "forwarded"
      BY <2>2 DEF Select
    <3>2. c \notin Askers
      BY <1>t, <3>1 DEF AnswerInv, Askers, Paid
    <3> QED BY <2>4, <2>5, <3>2 DEF AskerInv, Askers
  <2> QED BY <2>6, <2>7 DEF AskerInv
<1>6. ASSUME NEW k \in Keys, KeyResolved(k) PROVE AskerInv'
  <2> DEFINE h == Head(queue)
  <2>1. /\ queue \in Seq(Calls) /\ queue # << >>
        /\ UNCHANGED <<session, guards, callVars>>
    BY <1>6 DEF KeyResolved, Resolved, Resolving, TypeOK, CellTypeOK
  <2>2. h \in Calls /\ 1 \in 1 .. Len(queue) /\ queue[1] = h
    BY <2>1
  <2>3. Waiting(h)
    BY <2>2 DEF Waiting
  <2>4. pc[h] = "signer" /\ home[h] = session /\ answer[h] = "none"
    BY <2>2, <2>3 DEF CellInv, NoLostWaiter, SelectionInv, InFlight, AnswerInv
  <2>5. Askers' = Askers /\ h \in Askers' /\ answer'[h] # "noKey"
    BY <2>1, <2>2, <2>4 DEF Askers, callVars
  <2>6. entry' = entry /\ demand' = demand /\ Guard' = Guard
    BY <2>1 DEF callVars, Guard
  <2> QED BY <2>5, <2>6 DEF AskerInv
<1>7. ASSUME KeyFails PROVE AskerInv'
  <2> DEFINE h == Head(queue)
  <2>1. h \in Calls /\ pc[h] = "signer"
    BY <1>7, HeadIsWaiting
  <2>2. home[h] = session
    BY <2>1 DEF SelectionInv, InFlight
  <2>3. /\ signer = NoKey /\ signer' = NoKey /\ Return(h, "noKey")
        /\ UNCHANGED <<session, guards, home, demand, entry>>
    BY <1>7 DEF KeyFails, ResolutionFails, Resolving
  <2>4. \A x \in Calls : x \in Askers' => x \in Askers
    BY <1>t, <2>1, <2>2, <2>3 DEF Askers, Return
  <2> QED BY <1>a, <2>3, <2>4
<1>8. ASSUME NEW c \in Calls, Pay(c) PROVE AskerInv'
  <2>1. /\ pc[c] = "signer"
        /\ UNCHANGED <<cellVars, session, guards, home, demand, entry>>
    BY <1>8 DEF Pay, NonceFails, SigningFails, SignAndRetry, Ready
  <2>2. \/ pc' = [pc EXCEPT ![c] = "retrying"] /\ answer' = answer
        \/ Return(c, "noNonce") \/ Return(c, "badEntry")
    BY <1>8 DEF Pay, NonceFails, SigningFails, SignAndRetry
  <2> QED BY <1>c, <2>1, <2>2
<1>9. ASSUME NEW c \in Calls, SecondReply(c) PROVE AskerInv'
  <2>1. PICK a \in Paid : Return(c, a)
    BY <1>9 DEF SecondReply, RetryFails, RetryAnswered, Paid
  <2>2. /\ pc[c] = "retrying"
        /\ UNCHANGED <<cellVars, session, guards, home, demand, entry>>
    BY <1>9 DEF SecondReply, RetryFails, RetryAnswered
  <2> QED BY <1>c, <2>1, <2>2
<1>10. ASSUME Settle \/ TimePasses \/ UNCHANGED vars PROVE AskerInv'
  <2>1. UNCHANGED <<cellVars, session, guards, callVars>>
    BY <1>10 DEF Settle, TimePasses, vars
  <2>2. Askers' = Askers
    BY <2>1 DEF Askers, callVars
  <2> QED BY <1>a, <2>1, <2>2 DEF cellVars, callVars
<1>11. ASSUME Restart PROVE AskerInv'
  <2>1. session' = session + 1 /\ home' = home /\ signer' = NoKey
    BY <1>11 DEF Restart, Relaunch
  <2>2. \A c \in Calls : home[c] # session'
    BY <1>t, <2>1 DEF AnswerInv
  <2>3. Askers' = {}
    BY <2>1, <2>2 DEF Askers
  <2> QED BY <2>1, <2>3 DEF AskerInv
<1> QED
  BY <1>1, <1>2, <1>3, <1>4, <1>5, <1>6, <1>7, <1>8, <1>9, <1>10, <1>11
     DEF Next, FirstReply, Resolver, Done

\* There are no more prompts than calls that came to the signer: one for each
\* that was turned away, and one for another that waits or was given the key.
LEMMA PromptsCounted ==
  ASSUME TypeInv, CellInv, AnswerInv, AskerInv, PromptsAccounted
  PROVE  resolutions <= Cardinality(Askers)
<1> USE DEF TypeInv
<1>1. /\ IsFiniteSet(Askers) /\ IsFiniteSet(TurnedAway) /\ TurnedAway \subseteq Askers
      /\ Cardinality(Askers) \in Nat /\ Cardinality(TurnedAway) \in Nat
      /\ Cardinality(TurnedAway) <= Cardinality(Askers)
  <2>1. TurnedAway \subseteq Askers /\ Askers \subseteq Calls
    BY DEF TurnedAway, Askers
  <2> QED BY <2>1, CallsAssumption, FS_Subset, FS_CardinalityType
<1>2. CASE queue = << >> /\ signer = NoKey
  BY <1>1, <1>2 DEF PromptsAccounted
<1>3. CASE ~(queue = << >> /\ signer = NoKey)
  <2>1. PICK c \in Askers : c \notin TurnedAway
    <3>1. CASE signer # NoKey
      BY <3>1 DEF AskerInv, TurnedAway
    <3>2. CASE signer = NoKey
      <4> DEFINE h == Head(queue)
      <4>1. h \in Calls /\ 1 \in 1 .. Len(queue) /\ queue[1] = h
        BY <1>3, <3>2 DEF TypeOK, CellTypeOK
      <4>2. Waiting(h)
        BY <4>1 DEF Waiting
      <4>3. pc[h] = "signer" /\ home[h] = session /\ answer[h] = "none"
        BY <4>1, <4>2 DEF CellInv, NoLostWaiter, SelectionInv, InFlight, AnswerInv
      <4>4. h \in Askers /\ h \notin TurnedAway
        BY <4>1, <4>3 DEF Askers, TurnedAway
      <4> QED BY <4>4
    <3> QED BY <3>1, <3>2
  <2>2. Cardinality(TurnedAway \cup {c}) = Cardinality(TurnedAway) + 1
    BY <1>1, <2>1, FS_AddElement
  <2>3. Cardinality(TurnedAway \cup {c}) <= Cardinality(Askers)
    BY <1>1, <2>1, FS_Subset
  <2> QED BY <1>1, <1>3, <2>2, <2>3 DEF PromptsAccounted
<1> QED BY <1>2, <1>3

\* The key is touched only for demands that the proxy supports and that the
\* guard lets it pay: each call that waits for it, was refused it or was given
\* it had selected such a one, and no prompt is without its call
\* (proxy.rs:102-132).
THEOREM PromptsOnlyToPayTheorem == Spec => []PromptsOnlyToPay
<1>1. Init => AskerInv
  BY DEF Init, CellInit, Askers, AskerInv, Paid
<1>2. TypeInv /\ CellInv /\ LedgerInv /\ AskerInv /\ [Next]_vars => AskerInv'
  BY AskerInvStep DEF LedgerInv
<1>3. TypeInv /\ CellInv /\ LedgerInv /\ AskerInv /\ PromptsAccounted => PromptsOnlyToPay
  <2> SUFFICES ASSUME TypeInv, CellInv, LedgerInv, AskerInv, PromptsAccounted
               PROVE  PromptsOnlyToPay
    OBVIOUS
  <2>1. \A c \in Calls : Waiting(c) => c \in Askers
    BY DEF CellInv, NoLostWaiter, TypeInv, SelectionInv, InFlight, Askers
  <2>2. ASSUME NEW c \in Askers
        PROVE  /\ entry[c] # NoEntry
               /\ Supported(entry[c])
               /\ WithinCeiling(Guard, entry[c].amount)
    <3>1. /\ entry[c] \in Selected(demand[c])
          /\ WithinCeiling(Guard, entry[c].amount)
          /\ demand[c] \in Seq(AcceptsEntry)
      BY DEF AskerInv, TypeInv, TypeOK, Askers
    <3>2. entry[c] \in AcceptsEntry /\ Supported(entry[c])
      BY <3>1, SelectedEntry
    <3> QED BY <3>1, <3>2, BridgeAssumption
  <2>3. resolutions <= Cardinality(Askers)
    BY PromptsCounted DEF LedgerInv
  <2> QED BY <2>1, <2>2, <2>3 DEF PromptsOnlyToPay
<1> QED BY <1>1, <1>2, <1>3, PromptTheorem, Invariance, PTL DEF Spec

=============================================================================

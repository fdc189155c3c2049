-------------------------- MODULE DeploymentProofs --------------------------
(***************************************************************************)
(* The deployed proxy keeps to Bridge and to Launch, and no debit is above *)
(* what the user chose, for any settings, replies, calls and launches.     *)
(*                                                                         *)
(* Each component's invariant is known from its own proofs.  LinkInv says  *)
(* how the two agree in between: on the ceiling, the reference and the key *)
(* of the running launch, and on what was signed.  With it every step of   *)
(* Deployment is a step, or none, of either component, and what was proved *)
(* of each of them holds of the whole.                                     *)
(***************************************************************************)
EXTENDS Deployment, BridgePromiseProofs, LaunchProofs

\* The ceilings that files, entries and plans can hold.
Limits == Guards \cup {None, Bad}

\* No ceiling is outside those that handlers may be started with.
LimitInv ==
  /\ registered # None => registered.max \in Limits
  /\ printed # None => printed.entry.max \in Limits

\* What handlers were asked to pay is what upstreams demand.
OfferInv == \A c \in Calls : entry[c] # NoEntry => entry[c].amount \in Demanded \cup {BadAmount}

\* The running handlers hold what the running launch resolved.
RunningInv ==
  process # None =>
    /\ Guard = process.guard
    /\ launches[session] = Origin(process)
    /\ IF signer = NoKey THEN process.key = None ELSE process.key = signer /\ signer # None

\* Each authorization is a payment that Launch knows.
RecordInv ==
  \A a \in signed : \E p \in payments : Origin(p) = launches[a.session] /\ p.amount = a.value

Origins == [ref : Ref \cup {None}, exported : BOOLEAN]

LinkInv == Len(launches) = session /\ launches \in Seq(Origins)
             /\ LimitInv /\ OfferInv /\ RunningInv /\ RecordInv

DeployInv == TypeInv /\ CellInv /\ LedgerInv /\ LaunchInv /\ LinkInv

\* The signer of the cell is a key, which is not None.
LEMMA SecretKeys == None \notin Secrets /\ NoKey \notin Secrets
  BY LaunchAssumption, CellAssumption, DeploymentAssumption

----------------------------------------------------------------------------
(* Where ceilings may come from *)

LEMMA FileLimits ==
  ASSUME LaunchTypeOK, NEW side \in Sides, FileOn(side) # Bad,
         NEW name \in Names, Known(FileOn(side), name)
  PROVE  FileOn(side).wallets[name].max \in Limits
  <1>1. environs[side] \in Environ BY LaunchAssumption DEF LaunchTypeOK
  <1>2. ConfigPath(environs[side]) \in Paths BY <1>1 DEF ConfigPath, Environ
  <1>3. FileOn(side) \in Configs \ {Bad} BY <1>2 DEF LaunchTypeOK, FileOn
  <1>4. QED BY <1>3, DeploymentAssumption DEF Known, Limits

\* serve comes to a ceiling that handlers may be started with.
LEMMA ServedGuard ==
  ASSUME LaunchTypeOK, LimitInv, Serve
  PROVE  process'.guard \in Guards
  <1>0. PICK start : start = Launched(registered, environs["client"])
    OBVIOUS
  <1>1. PICK guard \in ResolveGuard(FileOn("client"), start) : process'.guard = guard
    BY <1>0 DEF Serve
  <1>2. /\ registered # None /\ start.ref \in Ref /\ start.max \in Maxes
        /\ FileOn("client") # Bad /\ FileOn("client") \in Config
    BY <1>0, FileIsConfig, LaunchedType DEF Serve, Sides
  <1>3. guard \in Nat \cup {Unset} BY <1>1, <1>2, GuardType
  <1>4. guard \notin {None, Bad} BY <1>3, LaunchAssumption
  <1>5. CASE start.max # None
    <2>1. environs["client"].max \in Limits
      BY DeploymentAssumption DEF LaunchTypeOK, Sides, Limits
    <2>2. start.max \in Limits
      BY <1>0, <1>2, <2>1 DEF Launched, LimitInv
    <2>3. QED BY <1>1, <1>4, <1>5, <2>2 DEF ResolveGuard, Parsed, Limits
  <1>6. CASE start.max = None /\ IsWallet(start.ref) /\ Known(FileOn("client"), start.ref.of)
    <2>1. start.ref.of \in Names BY <1>2, <1>6, WalletRef
    <2>2. FileOn("client").wallets[start.ref.of].max \in Limits
      BY <1>2, <1>6, <2>1, FileLimits DEF Sides
    <2>3. QED BY <1>1, <1>4, <1>6, <2>2, DeploymentAssumption DEF ResolveGuard, Parsed, Limits
  <1>7. CASE /\ start.max = None
             /\ ~(IsWallet(start.ref) /\ Known(FileOn("client"), start.ref.of))
    BY <1>1, <1>7, DeploymentAssumption DEF ResolveGuard
  <1>8. QED BY <1>5, <1>6, <1>7

LEMMA LimitStep ==
  ASSUME LaunchTypeOK, LimitInv, [LaunchNext]_launchVars
  PROVE  LimitInv'
  <1>1. ASSUME NEW max \in Demanded \cup {None, Bad}, NEW asked \in Refs \cup {None},
               NEW client \in {"print", "claude"}, Install(asked, max, client)
        PROVE  LimitInv'
    <2>0. PICK file : file = FileOn("shell")
      OBVIOUS
    <2>1. max \in Maxes /\ max \in Limits
      BY LaunchAssumption, DeploymentAssumption DEF Maxes, Limits
    <2>2. file \in Config /\ file # Bad
      BY <1>1, <2>0, <2>1, InstallDoes, LaunchAssumption
    <2>3. PICK ref \in Ref :
            /\ printed' \in {printed, PlanOf(file, ref, max)}
            /\ registered' \in {registered, PlanOf(file, ref, max).entry}
      BY <1>1, <2>0, <2>1, InstallDoes
    <2>4. Ceiling(file, ref, max) \in Limits
      BY <2>0, <2>1, <2>2, FileLimits, WalletRef DEF Ceiling, Sides
    <2>5. QED BY <2>3, <2>4 DEF LimitInv, PlanOf
  <1>2. ASSUME NEW max \in Demanded \cup {None, Bad}, NEW ref \in Refs \cup {None}, EditEntry(ref, max)
        PROVE  LimitInv'
    BY <1>2, DeploymentAssumption DEF EditEntry, LimitInv, Limits
  <1>3. CASE Paste
    BY <1>3 DEF Paste, LimitInv
  <1>4. CASE UNCHANGED <<registered, printed>>
    BY <1>4 DEF LimitInv
  <1>5. QED
    BY <1>1, <1>2, <1>3, <1>4
    DEF LaunchNext, Administer, Run, EditFile, Export, Rotate, Serve, Exit, ResolveKey,
        SignPayment, launchVars

----------------------------------------------------------------------------
(* Every step is one of each component, or none *)

\* Deployment does to the handlers and the chain what Bridge does.
LEMMA IsBridgeStep ==
  ASSUME DeployInv, [DeployNext]_deployVars
  PROVE  [Next]_vars
  <1>1. CASE Launching
    <2>1. PICK guard : guard = process'.guard /\ Relaunch(guard)
      BY <1>1 DEF Launching
    <2>2. guard \in Guards
      BY <1>1, <2>1, ServedGuard DEF Launching, DeployInv, LaunchInv, LinkInv
    <2>3. QED BY <2>1, <2>2 DEF Next, Restart
  <1>2. ASSUME NEW k \in Secrets, KeyFound(k)
        PROVE  Next
    <2>1. k \in Keys BY DeploymentAssumption
    <2>2. QED BY <1>2, <2>1 DEF KeyFound, Next, Resolver
  <1>3. CASE Handling
    BY <1>3 DEF Handling, Next, Pay, Resolver
  <1>4. ASSUME NEW c \in Calls, Signing(c)
        PROVE  Next
    BY <1>4 DEF Signing, Next, Pay
  <1>5. CASE OnChain
    BY <1>5 DEF OnChain, Next
  <1>6. CASE Ending \/ Administering \/ UNCHANGED deployVars
    BY <1>6 DEF Ending, Administering, deployVars
  <1>7. QED BY <1>1, <1>2, <1>3, <1>4, <1>5, <1>6 DEF DeployNext

\* A call that is in the queue for the key, or has it, is to be paid within the
\* ceiling of the launch that is running.
LEMMA PaidWithin ==
  ASSUME DeployInv, process # None, NEW c \in Calls, pc[c] = "signer"
  PROVE  entry[c].amount \in Demanded /\ WithinCeiling(process.guard, entry[c].amount)
  <1>1. WithinCeiling(process.guard, entry[c].amount)
    BY DEF DeployInv, TypeInv, SelectionInv, LinkInv, RunningInv
  <1>2. entry[c] \in AcceptsEntry
    BY SelectedEntry DEF DeployInv, TypeInv, TypeOK, SelectionInv
  <1>3. QED BY <1>1, <1>2, BridgeAssumption DEF DeployInv, LinkInv, OfferInv, WithinCeiling

\* The head of the queue waits for the key.
LEMMA HeadWaits ==
  ASSUME TypeOK, CellInv, Resolving
  PROVE  Head(queue) \in Calls /\ pc[Head(queue)] = "signer"
  <1>1. queue \in Seq(Calls) /\ queue # << >> BY DEF Resolving, TypeOK, CellTypeOK
  <1>2. Head(queue) \in Calls /\ 1 \in 1 .. Len(queue) /\ queue[1] = Head(queue) BY <1>1
  <1>3. Waiting(Head(queue)) BY <1>2 DEF Waiting
  <1>4. QED BY <1>2, <1>3 DEF CellInv, NoLostWaiter

\* Deployment does to settings, launches and payments what Launch does.
LEMMA IsLaunchStep ==
  ASSUME DeployInv, [DeployNext]_deployVars
  PROVE  [LaunchNext]_launchVars
  <1>1. CASE Launching
    BY <1>1 DEF Launching, LaunchNext, Run
  <1>2. ASSUME NEW k \in Secrets, KeyFound(k)
        PROVE  LaunchNext
    <2>1. Resolving /\ process # None
      BY <1>2 DEF KeyFound, KeyResolved, Resolved
    <2>2. PICK amount \in Demanded : WithinCeiling(process.guard, amount)
      BY <2>1, HeadWaits, PaidWithin DEF DeployInv, TypeInv
    <2>3. process.key = None
      BY <2>1 DEF Resolving, DeployInv, LinkInv, RunningInv
    <2>4. ResolveKey(amount)
      BY <1>2, <2>1, <2>2, <2>3, SecretKeys DEF KeyFound, ResolveKey
    <2>5. QED BY <2>4 DEF LaunchNext, Run
  <1>3. ASSUME NEW c \in Calls, Signing(c)
        PROVE  LaunchNext
    <2>1. process # None /\ pc[c] = "signer" /\ signer # NoKey
      BY <1>3 DEF Signing, SignAndRetry, Ready
    <2>2. entry[c].amount \in Demanded /\ WithinCeiling(process.guard, entry[c].amount)
      BY <2>1, PaidWithin
    <2>3. process.key # None
      BY <2>1 DEF DeployInv, LinkInv, RunningInv
    <2>4. SignPayment(entry[c].amount)
      BY <1>3, <2>1, <2>2, <2>3 DEF Signing, SignPayment
    <2>5. QED BY <2>2, <2>4 DEF LaunchNext, Run
  <1>4. CASE Ending
    BY <1>4 DEF Ending, LaunchNext, Run
  <1>5. CASE Administering
    BY <1>5 DEF Administering, LaunchNext
  <1>6. CASE Handling \/ OnChain \/ UNCHANGED deployVars
    BY <1>6 DEF Handling, OnChain, deployVars
  <1>7. QED BY <1>1, <1>2, <1>3, <1>4, <1>5, <1>6 DEF DeployNext

----------------------------------------------------------------------------
(* What links the components *)

LEMMA OfferStep ==
  ASSUME TypeOK, OfferInv, [Next]_vars
  PROVE  OfferInv'
  <1>1. CASE entry' = entry
    BY <1>1 DEF OfferInv
  <1>2. ASSUME NEW c \in Calls, NEW r \in Replies, Refuse(c, r) \/ RequestSigner(c, r)
        PROVE  OfferInv'
    <2>1. PICK i \in DOMAIN r.blocks : \E j \in DOMAIN r.blocks[i] : Select(c, r, r.blocks[i][j])
      BY <1>2 DEF Refuse, RequestSigner
    <2>2. PICK j \in DOMAIN r.blocks[i] : Select(c, r, r.blocks[i][j])
      BY <2>1
    <2>3. entry'[c] = r.blocks[i][j] /\ \A x \in Calls \ {c} : entry'[x] = entry[x]
      BY <2>2, SelectTypes
    <2>4. entry'[c].amount \in Demanded \cup {BadAmount}
      BY <2>3, DeploymentAssumption
    <2>5. QED BY <2>3, <2>4 DEF OfferInv
  <1>3. QED
    BY <1>1, <1>2
    DEF Next, ClientCall, FirstReply, FirstReplyFails, PassThrough, Pay, NonceFails, SigningFails,
        SignAndRetry, SecondReply, RetryFails, RetryAnswered, Resolver, KeyFails, KeyResolved,
        Settle, TimePasses, Restart, Relaunch, Done, vars, callVars

\* What is signed is recorded under the reference of the launch that signs it.
LEMMA RecordStep ==
  ASSUME DeployInv, [DeployNext]_deployVars
  PROVE  RecordInv'
  <1>0. /\ \A a \in signed : a.session \in 1 .. session
        /\ session \in Nat /\ session >= 1 /\ Len(launches) = session /\ launches \in Seq(Origins)
    BY DEF DeployInv, TypeInv, TypeOK, LedgerInv, PayerInv, Authorization, LinkInv
  <1>1. ASSUME NEW c \in Calls, Signing(c)
        PROVE  RecordInv'
    <2>1. PICK now \in Readings, nonce \in Nonces :
                 signed' = signed \cup {Sign(c, entry[c], now, nonce)}
      BY <1>1 DEF Signing, SignAndRetry
    <2>2. PICK a : a = Sign(c, entry[c], now, nonce)
      OBVIOUS
    <2>3. a.session = session /\ a.value = entry[c].amount
      BY <2>2 DEF Sign
    <2>4. PICK p : p = [amount |-> entry[c].amount, ref |-> process.ref, max |-> process.max,
                        exported |-> process.exported, guard |-> process.guard,
                        source |-> process.source, key |-> process.key]
      OBVIOUS
    <2>5. payments' = payments \cup {p} /\ launches' = launches /\ process # None
      BY <1>1, <2>4 DEF Signing
    <2>6. Origin(p) = launches[a.session] /\ p.amount = a.value
      BY <2>3, <2>4, <2>5 DEF DeployInv, LinkInv, RunningInv, Origin
    <2>7. QED BY <2>1, <2>2, <2>5, <2>6 DEF DeployInv, LinkInv, RecordInv
  <1>2. CASE Launching
    <2>1. PICK x : launches' = Append(launches, x) BY <1>2 DEF Launching
    <2>2. \A s \in 1 .. session : launches'[s] = launches[s]
      BY <1>0, <2>1
    <2>3. signed' = signed /\ payments' = payments
      BY <1>2 DEF Launching, Relaunch, Serve
    <2>4. QED BY <1>0, <2>2, <2>3 DEF DeployInv, LinkInv, RecordInv
  <1>3. CASE UNCHANGED <<signed, payments, launches>>
    BY <1>3 DEF DeployInv, LinkInv, RecordInv
  <1>4. QED
    <2>1. CASE Handling
      <3>1. signed' = signed
        BY <2>1
        DEF Handling, ClientCall, FirstReply, FirstReplyFails, PassThrough, Refuse, RequestSigner,
            NonceFails, SigningFails, SecondReply, RetryFails, RetryAnswered, KeyFails
      <3>2. QED BY <1>3, <2>1, <3>1 DEF Handling, launchVars
    <2>2. ASSUME NEW k \in Secrets, KeyFound(k) PROVE RecordInv'
      BY <1>3, <2>2 DEF KeyFound, KeyResolved
    <2>3. CASE Ending \/ OnChain \/ UNCHANGED deployVars
      BY <1>3, <2>3 DEF Ending, Exit, OnChain, Settle, TimePasses, deployVars, launchVars, vars
    <2>4. CASE Administering
      BY <1>3, <2>4
      DEF Administering, Administer, Install, EditEntry, EditFile, Paste, Export, Rotate, vars
    <2>5. QED BY <1>1, <1>2, <2>1, <2>2, <2>3, <2>4 DEF DeployNext

\* The handlers and the launch agree on ceiling, reference and key.
LEMMA RunningStep ==
  ASSUME DeployInv, [DeployNext]_deployVars
  PROVE  RunningInv'
  <1>0. /\ session \in Nat /\ session >= 1 /\ Len(launches) = session /\ launches \in Seq(Origins)
        /\ Len(guards) = session /\ guards \in Seq(Guards)
    BY DEF DeployInv, TypeInv, TypeOK, LinkInv
  <1>1. CASE Launching
    <2>1. PICK p : p = process' OBVIOUS
    <2>2. p.key = None
      BY <1>1, <2>1 DEF Launching, Serve
    <2>3. /\ session' = session + 1 /\ guards' = Append(guards, p.guard) /\ signer' = NoKey
          /\ launches' = Append(launches, Origin(p))
      BY <1>1, <2>1 DEF Launching, Relaunch
    <2>4. guards'[session'] = p.guard /\ launches'[session'] = Origin(p)
      BY <1>0, <2>3
    <2>5. QED BY <2>1, <2>2, <2>3, <2>4 DEF RunningInv, Guard
  <1>2. ASSUME NEW k \in Secrets, KeyFound(k)
        PROVE  RunningInv'
    <2>1. process # None /\ process \in Process
      BY <1>2 DEF KeyFound, DeployInv, LaunchInv, LaunchTypeOK
    <2>2. /\ process'.key = k /\ process'.guard = process.guard /\ Origin(process') = Origin(process)
      BY <1>2, <2>1 DEF KeyFound, Process, Origin
    <2>3. signer' = k /\ UNCHANGED <<session, guards, launches>> /\ k # None /\ k # NoKey
      BY <1>2, SecretKeys DEF KeyFound, KeyResolved, Resolved
    <2>4. QED BY <2>1, <2>2, <2>3 DEF DeployInv, LinkInv, RunningInv, Guard
  <1>3. CASE Ending
    BY <1>3 DEF Ending, Exit, RunningInv
  <1>4. CASE UNCHANGED <<process, session, guards, launches, signer>>
    BY <1>4 DEF DeployInv, LinkInv, RunningInv, Guard
  <1>5. CASE Handling
    BY <1>4, <1>5
    DEF Handling, ClientCall, FirstReply, FirstReplyFails, PassThrough, Refuse, RequestSigner,
        NonceFails, SigningFails, SecondReply, RetryFails, RetryAnswered, KeyFails,
        ResolutionFails, Join, Hit, cellVars, launchVars
  <1>6. ASSUME NEW c \in Calls, Signing(c)
        PROVE  RunningInv'
    BY <1>4, <1>6 DEF Signing, SignAndRetry, cellVars
  <1>7. CASE Administering \/ OnChain \/ UNCHANGED deployVars
    BY <1>4, <1>7
    DEF Administering, Administer, Install, EditEntry, EditFile, Paste, Export, Rotate, OnChain,
        Settle, TimePasses, vars, cellVars, launchVars, deployVars
  <1>8. QED BY <1>1, <1>2, <1>3, <1>5, <1>6, <1>7 DEF DeployNext

LEMMA LinkStep ==
  ASSUME DeployInv, [DeployNext]_deployVars
  PROVE  LinkInv'
  <1>1. [Next]_vars /\ [LaunchNext]_launchVars
    BY IsBridgeStep, IsLaunchStep
  <1>2. OfferInv' /\ LimitInv'
    BY <1>1, OfferStep, LimitStep DEF DeployInv, TypeInv, LaunchInv, LinkInv
  <1>3. Len(launches') = session' /\ launches' \in Seq(Origins)
    <2>1. CASE Launching
      <3>1. PICK x \in Origins : launches' = Append(launches, x)
        <4>1. /\ process'.ref = Launched(registered, environs["client"]).ref
              /\ process'.exported \in BOOLEAN
          BY <2>1 DEF Launching, Serve
        <4>2. process'.ref \in Ref
          BY <2>1, <4>1, LaunchedType DEF Launching, Serve, DeployInv, LaunchInv
        <4>3. Origin(process') \in Origins BY <4>1, <4>2 DEF Origin, Origins
        <4>4. QED BY <2>1, <4>3 DEF Launching
      <3>2. session' = session + 1 BY <2>1 DEF Launching, Relaunch
      <3>3. QED BY <3>1, <3>2 DEF DeployInv, LinkInv
    <2>2. CASE UNCHANGED <<launches, session>>
      BY <2>2 DEF DeployInv, LinkInv
    <2>3. CASE Handling
      BY <2>2, <2>3
      DEF Handling, ClientCall, FirstReply, FirstReplyFails, PassThrough, Refuse, RequestSigner,
          NonceFails, SigningFails, SecondReply, RetryFails, RetryAnswered, KeyFails
    <2>4. QED
      BY <2>1, <2>2, <2>3
      DEF DeployNext, KeyFound, KeyResolved, Signing, SignAndRetry, Ending, Administering, OnChain,
          Settle, TimePasses, vars, deployVars
  <1>4. QED BY <1>2, <1>3, RecordStep, RunningStep DEF LinkInv

----------------------------------------------------------------------------
(* The theorems *)

LEMMA DeployInvInit == DeployInit => DeployInv
  <1> SUFFICES ASSUME DeployInit PROVE DeployInv
    OBVIOUS
  <1>1. TypeInv /\ CellInv /\ LedgerInv
    BY InvariantInit DEF DeployInit
  <1>2. LaunchInv
    BY LaunchInvInit DEF DeployInit
  <1>3. Len(launches) = session /\ launches \in Seq(Origins)
    <2>1. [ref |-> None, exported |-> FALSE] \in Origins BY DEF Origins
    <2>2. QED BY <2>1 DEF DeployInit, Init
  <1>4. LimitInv /\ OfferInv /\ RunningInv /\ RecordInv
    BY DEF DeployInit, Init, LaunchInit, LimitInv, OfferInv, RunningInv, RecordInv
  <1>5. QED BY <1>1, <1>2, <1>3, <1>4 DEF DeployInv, LinkInv

LEMMA DeployInvStep == DeployInv /\ [DeployNext]_deployVars => DeployInv'
  <1> SUFFICES ASSUME DeployInv, [DeployNext]_deployVars PROVE DeployInv'
    OBVIOUS
  <1>1. [Next]_vars /\ [LaunchNext]_launchVars
    BY IsBridgeStep, IsLaunchStep
  <1>2. (TypeInv /\ CellInv /\ LedgerInv)'
    BY <1>1, InvariantStep DEF DeployInv
  <1>3. LaunchInv'
    BY <1>1, LaunchInvStep DEF DeployInv
  <1>4. QED BY <1>2, <1>3, LinkStep DEF DeployInv

LEMMA DeployInvariance == DeploySpec => []DeployInv
  BY DeployInvInit, DeployInvStep, PTL DEF DeploySpec

\* The handlers of a deployed proxy do what Bridge says, so what is proved of
\* Bridge holds of them (serve.rs:46-52).
THEOREM KeepsBridgeTheorem == DeploySpec => KeepsBridge
  <1>1. DeployInit => Init
    BY DEF DeployInit
  <1>2. DeployInv /\ [DeployNext]_deployVars => [Next]_vars
    BY IsBridgeStep
  <1>3. QED BY <1>1, <1>2, DeployInvariance, PTL DEF DeploySpec, KeepsBridge, Spec

\* Settings, launches and payments of a deployed proxy do what Launch says, so
\* what is proved of Launch holds of them (proxy.rs:126-160).
THEOREM KeepsLaunchTheorem == DeploySpec => KeepsLaunch
  <1>1. DeployInit => LaunchInit
    BY DEF DeployInit
  <1>2. DeployInv /\ [DeployNext]_deployVars => [LaunchNext]_launchVars
    BY IsLaunchStep
  <1>3. QED BY <1>1, <1>2, DeployInvariance, PTL DEF DeploySpec, KeepsLaunch, LaunchSpec

\* From the user's choice to the debit (install.rs:45-52, serve.rs:62-73,
\* payment.rs:191-200).
THEOREM DebitsTheorem == DeploySpec => []DebitsWithinChosen
  <1>1. DeployInv => DebitsWithinChosen
    <2> SUFFICES ASSUME DeployInv, NEW d \in debits
                 PROVE  \E limit \in ChosenFor(launches[d.auth.session]) \cap Nat : d.amount <= limit
      BY DEF DebitsWithinChosen
    <2>1. d.auth \in signed /\ d.amount \in Nat
      BY DEF DeployInv, TypeInv, TypeOK
    <2>2. d.amount <= d.auth.value /\ d.auth.value \in Nat
      BY <2>1 DEF DeployInv, TypeInv, TypeOK, LedgerInv, DebitInv, Authorization
    <2>3. PICK p \in payments : Origin(p) = launches[d.auth.session] /\ p.amount = d.auth.value
      BY <2>1 DEF DeployInv, LinkInv, RecordInv
    <2>4. p.guard \in Nat /\ p.amount <= p.guard /\ p.guard \in ChosenFor(p)
      BY DEF DeployInv, LaunchInv, LaunchTypeOK, Payments, PaidInv
    <2>5. ChosenFor(p) = ChosenFor(launches[d.auth.session])
      BY <2>3 DEF Origin, ChosenFor
    <2>6. QED BY <2>1, <2>2, <2>3, <2>4, <2>5
  <1>2. QED BY <1>1, DeployInvariance, PTL

\* What pays is the wallet's own key of that time (proxy.rs:61-80;
\* key.rs:136-157).
THEOREM WalletTheorem == DeploySpec => PaysFromItsWallet
  <1> DEFINE FromItsWallet ==
        \A a \in signed' \ signed :
          /\ process # None
          /\ \E s \in SourceOf(process) :
               \/ s \in RawSources /\ a.from = s
               \/ [store |-> s, key |-> a.from] \in held
  <1>1. DeployInv /\ [DeployNext]_deployVars => [FromItsWallet]_deployVars
    <2> SUFFICES ASSUME DeployInv, DeployNext, NEW a \in signed' \ signed
                 PROVE  /\ process # None
                        /\ \E s \in SourceOf(process) :
                             \/ s \in RawSources /\ a.from = s
                             \/ [store |-> s, key |-> a.from] \in held
      OBVIOUS
    <2>1. PICK c \in Calls : Signing(c)
      BY DEF DeployNext, Launching, Relaunch, Ending, Handling, ClientCall, FirstReply,
             FirstReplyFails, PassThrough, Refuse, RequestSigner, NonceFails, SigningFails,
             SecondReply, RetryFails, RetryAnswered, KeyFails, KeyFound, KeyResolved,
             Administering, OnChain, Settle, TimePasses, vars
    <2>2. PICK now \in Readings, nonce \in Nonces :
                 signed' = signed \cup {Sign(c, entry[c], now, nonce)}
      BY <2>1 DEF Signing, SignAndRetry
    <2>3. a.from = signer
      BY <2>2 DEF Sign
    <2>4. process # None /\ process.key = a.from /\ process.key # None
      BY <2>1, <2>3 DEF Signing, SignAndRetry, Ready, DeployInv, LinkInv, RunningInv
    <2>5. process.source \in SourceOf(process)
      BY <2>4 DEF DeployInv, LaunchInv, KeyInv
    <2>6. \/ process.source \in RawSources /\ process.key = process.source
          \/ [store |-> process.source, key |-> process.key] \in held
      BY <2>4 DEF DeployInv, LaunchInv, HeldInv, RetiredKeysAreIdle
    <2>7. QED BY <2>4, <2>5, <2>6
  <1>2. QED BY <1>1, DeployInvariance, PTL DEF DeploySpec, PaysFromItsWallet

\* What the owner of the wallet and the handlers were promised, a deployed proxy
\* keeps from launch to launch (proxy.rs:61-208, serve.rs:16-58).
THEOREM DeployedPromiseTheorem == DeploySpec => KeepsPromise /\ KeepsKeyPromise
  BY KeepsBridgeTheorem, PromiseTheorem, KeyPromiseTheorem, PTL DEF KeepsBridge

\* Nothing that was proved of the handlers under arbitrary ceilings and keys, or
\* of launches under arbitrary payments, is lost where the two meet
\* (proxy.rs:84-208, serve.rs:16-73, install.rs:39-160).
THEOREM DeployedSafetyTheorem ==
  DeploySpec =>
    /\ [](CeilingRespected /\ CostBounded /\ PaidOnce /\ TruthfulAnswers)
    /\ [](OnePayer /\ ExposureEnds /\ ValidOnArrival /\ PromptsOnlyToPay)
    /\ [](KeyAndCeilingTogether /\ CeilingWasChosen /\ RetiredKeysAreIdle)
    /\ [](MalformedCeilingNeverServes /\ InstallForetellsLaunch)
  <1>1. DeploySpec => Spec BY KeepsBridgeTheorem DEF KeepsBridge
  <1>2. DeploySpec => LaunchSpec BY KeepsLaunchTheorem DEF KeepsLaunch
  <1>3. DeploySpec => [](CeilingRespected /\ CostBounded /\ PaidOnce /\ TruthfulAnswers)
    BY <1>1, CeilingTheorem, CostTheorem, PaidOnceTheorem, TruthTheorem, PTL
  <1>4. DeploySpec => [](OnePayer /\ ExposureEnds /\ ValidOnArrival /\ PromptsOnlyToPay)
    BY <1>1, OnePayerTheorem, ExposureTheorem, ArrivalTheorem, PromptsOnlyToPayTheorem, PTL
  <1>5. DeploySpec => [](KeyAndCeilingTogether /\ CeilingWasChosen /\ RetiredKeysAreIdle)
    BY <1>2, TogetherTheorem, ChosenTheorem, RetiredTheorem, PTL
  <1>6. DeploySpec => [](MalformedCeilingNeverServes /\ InstallForetellsLaunch)
    BY <1>2, MalformedTheorem, InstallTheorem, PTL
  <1>7. QED BY <1>3, <1>4, <1>5, <1>6

=============================================================================

------------------------------- MODULE Bridge -------------------------------
(***************************************************************************)
(* X402Proxy (proxy.rs): an MCP client's tool calls go through the proxy   *)
(* to an upstream server; a call that is answered with a payment demand is *)
(* paid, once and within the spend ceiling, and sent again.                *)
(*                                                                         *)
(* Every call_tool handler is a task of its own, so calls interleave at    *)
(* each await: the first upstream call, the signer, the retry.  What lies  *)
(* between two awaits is one action.  The state that calls share is the    *)
(* signer cell (SignerCell); what they sign meets the chain (Chain).  The  *)
(* process may end at any time and be launched again; nothing survives it  *)
(* but the authorizations it has sent.                                     *)
(***************************************************************************)
EXTENDS Payment, SignerCell, Chain, FiniteSets

CONSTANTS
  Replies,      \* the tool results the upstream may return
  Guards,       \* the spend ceilings a launch may be configured with
  Skews,        \* how far the proxy's clock may be ahead of block time
  MaxSkew,      \* the most it may be ahead
  Nonces,       \* 256-bit nonces, of which any may be drawn at any time
  NoEntry,      \* no accepts entry selected
  MaxSessions   \* bound on the launches of the process

ASSUME BridgeAssumption ==
  /\ Keys \subseteq Payers
  /\ Replies \subseteq Result
  /\ Guards \subseteq Nat \cup {Unset}
  /\ Skews \subseteq Int /\ MaxSkew \in Nat /\ \A skew \in Skews : skew <= MaxSkew
  /\ NoEntry \notin AcceptsEntry
  /\ MaxSessions \in Nat \ {0}

ASSUME CallsAssumption == IsFiniteSet(Calls)

VARIABLES
  session,  \* how many times the process was launched
  guards,   \* the ceilings of the launches so far, resolved as they start
  pc,       \* where each call is: see States
  home,     \* the launch that handles each call, 0 before it is made
  demand,   \* the accepts list each call was asked to pay from
  entry,    \* the entry selected for each call
  answer,   \* what the client was told of each call: see Answers
  signed    \* every authorization that was signed and sent upstream

callVars == <<pc, home, demand, entry, answer>>
vars == <<cellVars, chainVars, session, guards, callVars, signed>>

\* "forwarded": first upstream call outstanding; "signer": selected, within
\* the ceiling and waiting for the signer; "retrying": second call outstanding.
States == {"idle", "forwarded", "signer", "retrying", "answered", "dropped"}

\* The answers that tell the client nothing was paid, and those given after a
\* payment was sent.
Unpaid == {"passthrough", "upstreamFailed", "refused", "noKey", "noNonce", "badEntry"}
Paid == {"retryResult", "retryError", "retryFailed"}
Answers == {"none"} \cup Unpaid \cup Paid

Authorization ==
  [call : Calls, session : 1 .. MaxSessions, scheme : {"exact", "upto"},
   asset : {"USDC", "other"}, from : Keys, value : Nat, nonce : Nonces,
   sentAt : Nat, signedAt : Nat, validAfter : Nat, validBefore : Nat]

\* What the proxy's clock may show: it may be wrong either way, and may be set
\* between one signature and the next.
Readings == {clock + skew : skew \in Skews} \cap Nat

\* The ceiling of the running process.
Guard == guards[session]

Init ==
  /\ CellInit
  /\ ChainInit
  /\ session = 1
  /\ \E guard \in Guards : guards = <<guard>>
  /\ pc = [c \in Calls |-> "idle"]
  /\ home = [c \in Calls |-> 0]
  /\ demand = [c \in Calls |-> << >>]
  /\ entry = [c \in Calls |-> NoEntry]
  /\ answer = [c \in Calls |-> "none"]
  /\ signed = {}

----------------------------------------------------------------------------
(* call_tool up to its second await *)

\* The handler returns to the client with answer a.
Return(c, a) ==
  /\ pc' = [pc EXCEPT ![c] = "answered"]
  /\ answer' = [answer EXCEPT ![c] = a]

\* The client calls a tool and the proxy forwards the request.
ClientCall(c) ==
  /\ pc[c] = "idle"
  /\ pc' = [pc EXCEPT ![c] = "forwarded"]
  /\ home' = [home EXCEPT ![c] = session]
  /\ UNCHANGED <<cellVars, chainVars, session, guards, demand, entry, answer, signed>>

\* The upstream call fails: the client gets a protocol error.
FirstReplyFails(c) ==
  /\ pc[c] = "forwarded"
  /\ Return(c, "upstreamFailed")
  /\ UNCHANGED <<cellVars, chainVars, session, guards, home, demand, entry, signed>>

\* The result is no payment demand, or none the proxy supports: the client
\* gets it as it is.
PassThrough(c, r) ==
  /\ pc[c] = "forwarded"
  /\ \A accepts \in Demands(r) : Selected(accepts) = {}
  /\ Return(c, "passthrough")
  /\ UNCHANGED <<cellVars, chainVars, session, guards, home, demand, entry, signed>>

\* The handler selects entry e of the demand that r carries.
Select(c, r, e) ==
  /\ pc[c] = "forwarded"
  /\ \E accepts \in Demands(r) :
        /\ e \in Selected(accepts)
        /\ demand' = [demand EXCEPT ![c] = accepts]
  /\ entry' = [entry EXCEPT ![c] = e]

\* The selected entry has no valid amount, or the guard rejects it.  No other
\* entry is tried.
Refuse(c, r) ==
  /\ \E i \in DOMAIN r.blocks : \E j \in DOMAIN r.blocks[i] :
        LET e == r.blocks[i][j]
        IN  Select(c, r, e) /\ ~WithinCeiling(Guard, e.amount)
  /\ Return(c, "refused")
  /\ UNCHANGED <<cellVars, chainVars, session, guards, home, signed>>

\* The key asked for before the guard is consulted.
RequestSignerUnguarded(c, r) ==
  /\ \E i \in DOMAIN r.blocks : \E j \in DOMAIN r.blocks[i] :
        Select(c, r, r.blocks[i][j])
  /\ pc' = [pc EXCEPT ![c] = "signer"]
  /\ Join(c) \/ Hit
  /\ UNCHANGED <<chainVars, session, guards, home, answer, signed>>

\* The selected entry may be paid: the handler asks for the signer.
RequestSigner(c, r) ==
  /\ \E i \in DOMAIN r.blocks : \E j \in DOMAIN r.blocks[i] :
        LET e == r.blocks[i][j]
        IN  Select(c, r, e) /\ WithinCeiling(Guard, e.amount)
  /\ pc' = [pc EXCEPT ![c] = "signer"]
  /\ Join(c) \/ Hit
  /\ UNCHANGED <<chainVars, session, guards, home, answer, signed>>

\* Reply handling that has to wait for a resolver that is running.
FirstReplyAfterResolver(c) ==
  /\ queue = << >>
  /\ \/ FirstReplyFails(c)
     \/ \E r \in Replies : PassThrough(c, r) \/ Refuse(c, r) \/ RequestSigner(c, r)

\* Reply handling that has to wait for the second requests of other calls.
FirstReplySerialized(c) ==
  /\ \A x \in Calls : pc[x] # "retrying"
  /\ \/ FirstReplyFails(c)
     \/ \E r \in Replies : PassThrough(c, r) \/ Refuse(c, r) \/ RequestSigner(c, r)

FirstReply(c) ==
  \/ FirstReplyFails(c)
  \/ \E r \in Replies : PassThrough(c, r) \/ Refuse(c, r) \/ RequestSigner(c, r)

----------------------------------------------------------------------------
(* The signer *)

KeyResolved(k) ==
  /\ Resolved(k)
  /\ UNCHANGED <<chainVars, session, guards, callVars, signed>>

\* The call that held the permit returns with the failure.
KeyFails ==
  /\ ResolutionFails
  /\ Return(Head(queue), "noKey")
  /\ UNCHANGED <<chainVars, session, guards, home, demand, entry, signed>>

Resolver == KeyFails \/ \E k \in Keys : KeyResolved(k)

----------------------------------------------------------------------------
(* Sign and retry *)

\* The handler has the signer and goes on to sign.
Ready(c) == pc[c] = "signer" /\ signer # NoKey /\ ~Waiting(c)

\* No randomness for the nonce.
NonceFails(c) ==
  /\ Ready(c)
  /\ Return(c, "noNonce")
  /\ UNCHANGED <<cellVars, chainVars, session, guards, home, demand, entry, signed>>

\* An address of the entry does not parse.
SigningFails(c) ==
  /\ Ready(c)
  /\ ~Signable(entry[c])
  /\ Return(c, "badEntry")
  /\ UNCHANGED <<cellVars, chainVars, session, guards, home, demand, entry, signed>>

\* What is signed for entry e at the time now; sentAt is the block time then.
Sign(c, e, now, nonce) ==
  [call |-> c, session |-> session, scheme |-> e.scheme, asset |-> e.asset,
   from |-> signer, value |-> e.amount, nonce |-> nonce, sentAt |-> clock,
   signedAt |-> now, validAfter |-> ValidAfter(now), validBefore |-> ValidBefore(e, now)]

\* The entry is signed and the request sent again with the authorization;
\* there is no await between the two.  The nonce is drawn from the system's
\* generator, and nothing but its width keeps it from having been drawn before.
SignAndRetry(c) ==
  /\ Ready(c)
  /\ Signable(entry[c])
  /\ \E now \in Readings, nonce \in Nonces :
        signed' = signed \cup {Sign(c, entry[c], now, nonce)}
  /\ pc' = [pc EXCEPT ![c] = "retrying"]
  /\ UNCHANGED <<cellVars, chainVars, session, guards, home, demand, entry, answer>>

Pay(c) == NonceFails(c) \/ SigningFails(c) \/ SignAndRetry(c)

\* A second demand that is paid like the first.
RetryAnsweredByPaying(c, r) ==
  /\ pc[c] = "retrying"
  /\ IF Demands(r) # {} THEN pc' = [pc EXCEPT ![c] = "signer"] /\ UNCHANGED answer
                        ELSE Return(c, "retryResult")
  /\ UNCHANGED <<cellVars, chainVars, session, guards, home, demand, entry, signed>>

\* The client gets the second result, whatever it is: an error, or another
\* demand, is not acted on again.
RetryAnswered(c, r) ==
  /\ pc[c] = "retrying"
  /\ Return(c, IF r.isError THEN "retryError" ELSE "retryResult")
  /\ UNCHANGED <<cellVars, chainVars, session, guards, home, demand, entry, signed>>

\* A failed retry reported like a failed first call.
RetryFailsSilently(c) ==
  /\ pc[c] = "retrying"
  /\ Return(c, "upstreamFailed")
  /\ UNCHANGED <<cellVars, chainVars, session, guards, home, demand, entry, signed>>

\* The second upstream call fails; the authorization may have arrived.
RetryFails(c) ==
  /\ pc[c] = "retrying"
  /\ Return(c, "retryFailed")
  /\ UNCHANGED <<cellVars, chainVars, session, guards, home, demand, entry, signed>>

SecondReply(c) == RetryFails(c) \/ \E r \in Replies : RetryAnswered(c, r)

----------------------------------------------------------------------------
(* The world around the handlers *)

\* The facilitator settles an authorization.
Settle ==
  /\ \E a \in signed : SettleExact(a) \/ \E x \in 0 .. a.value : SettleUpto(a, x)
  /\ UNCHANGED <<cellVars, session, guards, callVars, signed>>

TimePasses ==
  /\ Tick
  /\ UNCHANGED <<cellVars, session, guards, callVars, signed>>

InFlight == {"forwarded", "signer", "retrying"}

\* The process ends, with whatever it was doing, and is launched again, with
\* the ceiling that is resolved then.
Relaunch(guard) ==
  /\ session < MaxSessions
  /\ session' = session + 1
  /\ guards' = Append(guards, guard)
  /\ pc' = [c \in Calls |-> IF pc[c] \in InFlight THEN "dropped" ELSE pc[c]]
  /\ signer' = NoKey
  /\ queue' = << >>
  /\ resolutions' = 0
  /\ UNCHANGED <<chainVars, home, demand, entry, answer, signed>>

Restart == \E guard \in Guards : Relaunch(guard)

\* Every call was made and is over.
Done ==
  /\ \A c \in Calls : pc[c] \in {"answered", "dropped"}
  /\ UNCHANGED vars

Next ==
  \/ \E c \in Calls : ClientCall(c) \/ FirstReply(c) \/ Pay(c) \/ SecondReply(c)
  \/ Resolver
  \/ Settle
  \/ TimePasses
  \/ Restart
  \/ Done

Spec == Init /\ [][Next]_vars

\* The upstream answers the requests made for c, or fails them, and the runtime
\* polls the task of c when it can go on.  Nothing of the kind is assumed of
\* other calls.  The resolver need not return (an unlock prompt nobody
\* answers), clients need not call, facilitators need not settle, and the
\* process may be ended.
Served(c) == WF_vars(FirstReply(c)) /\ WF_vars(Pay(c)) /\ WF_vars(SecondReply(c))

----------------------------------------------------------------------------
(* Safety *)

TypeOK ==
  /\ CellTypeOK
  /\ ChainTypeOK
  /\ session \in 1 .. MaxSessions
  /\ guards \in Seq(Guards) /\ Len(guards) = session
  /\ pc \in [Calls -> States]
  /\ home \in [Calls -> 0 .. MaxSessions]
  /\ demand \in [Calls -> Seq(AcceptsEntry)]
  /\ entry \in [Calls -> AcceptsEntry \cup {NoEntry}]
  /\ answer \in [Calls -> Answers]
  /\ signed \subseteq Authorization
  /\ \A d \in debits : d.auth \in signed /\ d.amount \in Nat /\ d.at \in Nat

\* Whatever the upstream demands and however calls interleave, nothing is
\* signed but USDC on Base, for at most the ceiling of the process that signs
\* it, and nothing at all by a process without a ceiling (payment.rs:13-18,
\* 191-200; proxy.rs:126-132).
CeilingRespected ==
  \A a \in signed :
    /\ a.asset = "USDC" /\ entry[a.call].network = "base"
    /\ guards[a.session] # Unset
    /\ a.value <= guards[a.session]

\* A tool call is charged at most once, and never more than the ceiling of the
\* process it was made to: whatever the retry answers, there is no second
\* authorization for it, and no authorization settles twice, not even if its
\* nonce is one that was drawn before (proxy.rs:165-170; exact.rs:123;
\* upto.rs:166).
CostBounded ==
  \A d \in debits :
    LET ceiling == guards[home[d.auth.call]]
    IN  /\ ceiling # Unset /\ d.amount <= ceiling
        /\ \A x \in debits : x.auth.call = d.auth.call => x = d

\* No tool call is paid twice, not even when the paid request is answered
\* with another demand (proxy.rs:165-166 returns it to the client).
PaidOnce ==
  \A a, b \in signed : a.call = b.call => a = b

\* The client is told the truth: a handler that returns with an answer that says
\* the call was not paid has signed nothing for it, and one that returns after
\* the retry has (proxy.rs:120-170, the error texts and the early returns).
\* What the upstream says in a result of the retry, which the handler hands on
\* as it is (proxy.rs:166), is the upstream's word and not the proxy's.
TruthfulAnswers ==
  \A c \in Calls :
    /\ answer[c] \in Unpaid => \A a \in signed : a.call # c
    /\ answer[c] \in Paid   => \E a \in signed : a.call = c

\* All payments of a process come from one wallet, although calls race to
\* resolve its key (proxy.rs:61-65).
OnePayer ==
  \A a, b \in signed : a.session = b.session => a.from = b.from

\* A call that needs the signer and does not have it has a place in the queue
\* for it, and nobody else has (OnceCell::get_or_try_init).
NoLostWaiter ==
  \A c \in Calls : Waiting(c) <=> pc[c] = "signer" /\ signer = NoKey

\* Calls of the running process that were turned away for want of a key.
TurnedAway == {c \in Calls : home[c] = session /\ answer[c] = "noKey"}

\* The resolver (and with it the unlock prompt) runs once per call that it
\* turns away, and once more for all others: concurrent payments share one
\* resolution, and after one that succeeded there is no other.
PromptsAccounted ==
  resolutions =
    Cardinality(TurnedAway) + (IF queue = << >> /\ signer = NoKey THEN 0 ELSE 1)

\* Calls of the running process that came to the signer: those that wait for it,
\* that have it, or that were answered since.
Askers ==
  {c \in Calls : home[c] = session /\
     (pc[c] \in {"signer", "retrying"} \/ answer[c] \in {"noKey", "noNonce", "badEntry"} \cup Paid)}

\* The resolver runs only for a demand that the proxy supports and that is
\* within the ceiling (proxy.rs:102-132, "no key prompt for schemes we can't
\* do"): everyone in the queue, everyone that was turned away, and whoever was
\* given the key had selected an entry that it may pay, and there were no more
\* prompts than such calls.
PromptsOnlyToPay ==
  /\ \A c \in Calls : Waiting(c) => c \in Askers
  /\ \A c \in Askers : /\ entry[c] # NoEntry
                        /\ Supported(entry[c])
                        /\ WithinCeiling(Guard, entry[c].amount)
  /\ resolutions <= Cardinality(Askers)

\* A payment is made under `exact` only when the demand had no entry that the
\* proxy supports under `upto` (proxy.rs:102-109).
UptoPreferred ==
  \A a \in signed : a.scheme = "exact" =>
    \A i \in DOMAIN demand[a.call] : ~UptoSupports(demand[a.call][i])

\* No money moves later than MaxTimeout after an authorization was sent, whatever
\* timeout the upstream asked for (payment.rs:19-21), give or take what the
\* proxy's clock is ahead: both moments are block time.
ExposureEnds ==
  \A d \in debits : d.at <= d.auth.sentAt + MaxTimeout + MaxSkew

\* An authorization can be settled at the moment it is sent, although the
\* proxy's clock is wrong: ahead of block time by less than the slack, or behind
\* it by less than the timeout in force (payment.rs:22-23; exact.rs:115-133).
ValidOnArrival ==
  \A a \in signed :
    LET ahead == a.signedAt - a.sentAt
    IN  0 < a.sentAt /\ ahead < Slack /\ 0 < ahead + Timeout(entry[a.call])
          => InWindow(a, a.sentAt)

----------------------------------------------------------------------------
(* Liveness *)

Over(c) == pc[c] \in {"answered", "dropped"}

\* A resolver that hangs holds up only the calls that need the key: it runs
\* on a blocking thread, and free calls go on (proxy.rs:68).
OnlyPayersWait ==
  \A c \in Calls : Served(c) => (pc[c] = "forwarded" ~> Over(c) \/ Waiting(c))

\* A call whose own requests the upstream answers is answered, unless the
\* process ends: neither an upstream that is silent on other calls, for which
\* the code has no timeout, nor the queue for the key keeps it, once the
\* resolver returns, with a key or without (proxy.rs:61-80, 193-208).
AnsweredIfServed ==
  \A c \in Calls :
    Served(c) /\ WF_vars(Resolver) => (pc[c] = "forwarded" ~> Over(c))

=============================================================================

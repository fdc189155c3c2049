----------------------------- MODULE Deployment -----------------------------
(***************************************************************************)
(* The proxy as its user runs it: the settings and the launches of Launch, *)
(* the running process of Bridge, and the steps in which they meet.  serve *)
(* resolves a ceiling and starts handlers that it binds (serve.rs, 16-58); *)
(* the signer of those handlers is what the resolver finds for the         *)
(* reference of the launch (proxy.rs, 61-80); what they sign leaves the    *)
(* user's wallet (Chain).                                                  *)
(*                                                                         *)
(* Bridge counts a launch from its first state on.  Here its session 1 is  *)
(* the time before the first launch; it has no ceiling and no calls.       *)
(***************************************************************************)
EXTENDS Bridge, Launch

ASSUME DeploymentAssumption ==
  /\ Secrets \subseteq Keys
  /\ {Unset} \cup Demanded \subseteq Guards
  /\ \A config \in Configs \ {Bad} : \A n \in Names :
        config.wallets[n] # None => config.wallets[n].max \in Guards \cup {None, Bad}
  /\ \A v \in Environs : v.max \in Guards \cup {None, Bad}
  /\ \A r \in Replies : \A i \in DOMAIN r.blocks : \A j \in DOMAIN r.blocks[i] :
        r.blocks[i][j].amount \in Demanded \cup {BadAmount}

VARIABLE launches  \* of each session: its reference, and whether its ceiling was exported

deployVars == <<vars, launchVars, launches>>

DeployInit ==
  /\ Init
  /\ guards = <<Unset>>
  /\ LaunchInit
  /\ launches = <<[ref |-> None, exported |-> FALSE]>>

----------------------------------------------------------------------------

Origin(p) == [ref |-> p.ref, exported |-> p.exported]

\* A launch whose calls find the key of the launch before.
LaunchingWarm ==
  /\ Serve
  /\ session < MaxSessions
  /\ session' = session + 1
  /\ guards' = Append(guards, process'.guard)
  /\ pc' = [c \in Calls |-> IF pc[c] \in InFlight THEN "dropped" ELSE pc[c]]
  /\ launches' = Append(launches, Origin(process'))
  /\ UNCHANGED <<cellVars, chainVars, home, demand, entry, answer, signed>>

\* A launch whose wallet's ceiling goes before that of its entry.
LaunchingUnderWalletMax ==
  /\ Serve
  /\ LET config == FileOn("client")
         ref == Launched(registered, environs["client"]).ref
     IN  Relaunch(IF /\ IsWallet(ref) /\ Known(config, ref.of)
                     /\ config.wallets[ref.of].max \in Nat
                    THEN config.wallets[ref.of].max
                    ELSE process'.guard)
  /\ launches' = Append(launches, Origin(process'))

\* The client launches the proxy: handlers start under the ceiling that serve
\* resolved, with an empty cell.  What an earlier process left undone is lost.
Launching ==
  /\ Serve
  /\ Relaunch(process'.guard)
  /\ launches' = Append(launches, Origin(process'))

\* The process ends, whatever its handlers were doing.
Ending ==
  /\ Exit
  /\ UNCHANGED <<vars, launches>>

\* Steps of the handlers that neither read nor change what Launch describes.
Handling ==
  /\ process # None
  /\ \/ \E c \in Calls : \/ ClientCall(c) \/ FirstReply(c) \/ SecondReply(c)
                         \/ NonceFails(c) \/ SigningFails(c)
     \/ KeyFails
  /\ UNCHANGED <<launchVars, launches>>

\* The resolver finds a key for the reference of the launch; the cell is filled
\* with it for as long as the process lives.
KeyFound(k) ==
  /\ process # None
  /\ KeyResolved(k)
  /\ \E s \in SourceOf(process) :
        /\ k = KeyIn(process, s)
        /\ process' = [process EXCEPT !.key = k, !.source = s]
  /\ UNCHANGED <<settings, printed, registered, note, held, payments, edits, history, launches>>

\* A call is signed for: it is paid by the launch that is running.
Signing(c) ==
  /\ process # None
  /\ SignAndRetry(c)
  /\ payments' = payments \cup {[amount |-> entry[c].amount, ref |-> process.ref,
                                 max |-> process.max, exported |-> process.exported,
                                 guard |-> process.guard, source |-> process.source,
                                 key |-> process.key]}
  /\ UNCHANGED <<settings, printed, registered, note, process, held, edits, history, launches>>

\* The user changes settings, whether or not the proxy is running.
Administering ==
  /\ Administer
  /\ UNCHANGED <<vars, launches>>

\* Facilitators settle what was signed, also when the proxy is gone.
OnChain ==
  /\ Settle \/ TimePasses
  /\ UNCHANGED <<launchVars, launches>>

DeployNext ==
  \/ Launching \/ Ending
  \/ Handling
  \/ \E k \in Secrets : KeyFound(k)
  \/ \E c \in Calls : Signing(c)
  \/ Administering
  \/ OnChain

DeploySpec == DeployInit /\ [][DeployNext]_deployVars

----------------------------------------------------------------------------
(* Properties *)

\* The handlers of a deployed proxy do what Bridge allows: every ceiling that
\* serve comes to is one that Bridge was checked for, the key comes from the
\* resolver, and a new process starts from nothing (serve.rs:46-52).
KeepsBridge == Spec

\* A deployed proxy does to the user's settings and wallets what Launch allows,
\* although a payment goes through many calls' awaits between the ceiling, the
\* key and the signature: the key is looked up only for an amount within the
\* ceiling, in the launch's own config, and what is signed is within the
\* ceiling of the launch that is running then (proxy.rs:126-160).
KeepsLaunch == LaunchSpec

\* From end to end: no debit is above every ceiling that the user chose for the
\* wallet or the source that the launch which signed it referred to, or that was
\* exported if its entry set none, whatever upstreams demand, however calls
\* interleave, whatever was edited since, and even if it settles when that
\* launch is over (install.rs:45-52, serve.rs:62-73, payment.rs:191-200).
DebitsWithinChosen ==
  \A d \in debits :
    \E limit \in ChosenFor(launches[d.auth.session]) \cap Nat : d.amount <= limit

\* What is signed is paid with a key that the wallet which the launch refers to
\* has held while the launch was running, for however many calls and however
\* long the cell has had it (proxy.rs:40-41, 61-80; key.rs:136-157).
PaysFromItsWallet ==
  [][\A a \in signed' \ signed :
       /\ process # None
       /\ \E s \in SourceOf(process) :
            \/ s \in RawSources /\ a.from = s
            \/ [store |-> s, key |-> a.from] \in held]_deployVars

=============================================================================

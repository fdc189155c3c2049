---------------------------- MODULE BridgeClaims ----------------------------
(***************************************************************************)
(* What the repository's documents say of the bridge and the code does not *)
(* do.  Each claim is quoted with its place; TLC finds it violated.        *)
(***************************************************************************)
EXTENDS Bridge

\* "iterate schemes in preference order [upto, exact], take the first
\* supports() entry that also passes the ceiling" (docs/2026-08-31-x402-upto-
\* scheme-design.md:92-93): a call is refused only when no supported entry
\* passes.  The code consults the guard after the selection (proxy.rs:106-132).
FallsBackWithinCeiling ==
  \A c \in Calls : answer[c] = "refused" =>
    \A i \in DOMAIN demand[c] :
      ~(Supported(demand[c][i]) /\ WithinCeiling(Guard, demand[c][i].amount))

\* "One `op` prompt per session at most" (docs/2026-07-16-x402-proxy-rust-
\* design.md:90).  The cell stays empty when the resolver fails, and the next
\* payment, or the next in the queue, prompts again (proxy.rs:64-79).
OnePromptPerSession == resolutions <= 1

\* "unlock happens exactly when a payment is signed" (README.md:62): when the
\* calls of a process are over and its key was unlocked, a payment was signed,
\* unless the system had no randomness for a nonce.  The code unlocks the key
\* before it parses the addresses it signs over (proxy.rs:141-160).
UnlockedOnlyToSign ==
  /\ signer # NoKey
  /\ \A c \in Calls : pc[c] \in {"idle", "answered"} /\ answer[c] # "noNonce"
  => \E a \in signed : a.session = session

\* "exact stays the safe default until the wallet is approved" (docs/2026-08-
\* 31-x402-upto-scheme-design.md:81-82): no permit is signed by a wallet that
\* granted Permit2 no allowance while the demand can be met under `exact`.
\* The code does not look at the allowance (proxy.rs:106-109).
ExactUntilApproved ==
  [][\A a \in signed' \ signed :
       a.scheme = "upto" /\ allowance[a.from] = 0 =>
         \A i \in DOMAIN demand[a.call] : ~ExactSupports(demand[a.call][i])]_vars

=============================================================================

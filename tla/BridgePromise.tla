---------------------------- MODULE BridgePromise ----------------------------
(***************************************************************************)
(* The refinement mappings: the bridge keeps the promise of WalletPromise  *)
(* to the owner of the wallet, and its cell that of LazyKey to handlers.   *)
(***************************************************************************)
EXTENDS Bridge

\* The verdict on a call, from what its handler told the client.
Verdict(c) ==
  IF pc[c] = "dropped" THEN "gone"
  ELSE IF answer[c] \in Paid THEN "paid"
  ELSE IF answer[c] \in Unpaid THEN "unpaid"
  ELSE "open"

Promise == INSTANCE WalletPromise WITH
  Ceilings   <- Guards,
  NoCeiling  <- Unset,
  Exposure   <- MaxSkew + MaxTimeout,
  now        <- clock,
  ceiling    <- Guard,
  authorized <- {[call |-> a.call, limit |-> a.value, expires |-> a.validBefore] : a \in signed},
  charges    <- {[call |-> d.auth.call, amount |-> d.amount, at |-> d.at] : d \in debits},
  verdict    <- [c \in Calls |-> Verdict(c)]

\* Every behaviour of the bridge is one the wallet's owner was promised: one
\* bounded, short-lived authorization per call, and answers that tell whether
\* there is one (proxy.rs:84-208 as a whole).
KeepsPromise == Promise!Spec

\* The calls whose handlers wait for the key.
Asking == {c \in Calls : pc[c] = "signer" /\ signer = NoKey}

Lazy == INSTANCE LazyKey WITH key <- signer, asking <- Asking, attempts <- resolutions

\* As the handlers see it, the signer cell with its queue of permits is a key
\* that is set once: none of them is forgotten or sees another key, and a
\* failed attempt turns away no one but the call it was made for
\* (proxy.rs:61-80, 141-148).
KeepsKeyPromise == Lazy!Spec

=============================================================================

------------------------------- MODULE Chain -------------------------------
(***************************************************************************)
(* The world outside the process that a signed payment meets: the clock,   *)
(* and the contracts on Base that a facilitator settles through.  This is  *)
(* not code of the repository; it is modelled from what exact.rs and       *)
(* upto.rs sign: an EIP-3009 authorization for a fixed value, or a Permit2 *)
(* permit for at most a value, drawn on the allowance granted to Permit2;  *)
(* each with a validity window and a nonce that can be used once.          *)
(***************************************************************************)
EXTENDS Integers

CONSTANTS
  Payers,      \* the accounts that may pay
  Allowances,  \* the USDC allowances Permit2 may start with
  MaxClock     \* bound on the clock

ASSUME ChainAssumption == Allowances \subseteq Nat /\ MaxClock \in Nat

VARIABLES
  clock,       \* block time
  debits,      \* what was settled: set of [auth, amount, at]
  allowance    \* [Payers -> Nat]: USDC that Permit2 may still move

chainVars == <<clock, debits, allowance>>

ChainTypeOK ==
  /\ clock \in 0 .. MaxClock
  /\ allowance \in [Payers -> Nat]

ChainInit ==
  /\ clock = 0
  /\ debits = {}
  /\ allowance \in [Payers -> Allowances]

\* An authorization is used up when one of the same payer with the same nonce
\* was settled; USDC and Permit2 keep books of their own.
Used(a) ==
  \E d \in debits : /\ d.auth.nonce = a.nonce /\ d.auth.from = a.from
                    /\ d.auth.scheme = a.scheme

Tick ==
  /\ clock < MaxClock
  /\ clock' = clock + 1
  /\ UNCHANGED <<debits, allowance>>

\* The contract would take authorization a at time t.
InWindow(a, t) ==
  IF a.scheme = "exact" THEN a.validAfter < t /\ t < a.validBefore
                        ELSE a.validAfter <= t /\ t <= a.validBefore

Debit(a, amount) ==
  /\ ~Used(a)
  /\ InWindow(a, clock)
  /\ debits' = debits \cup {[auth |-> a, amount |-> amount, at |-> clock]}
  /\ UNCHANGED clock

\* transferWithAuthorization moves exactly the signed value.
SettleExact(a) ==
  /\ a.scheme = "exact"
  /\ Debit(a, a.value)
  /\ UNCHANGED allowance

\* permitWitnessTransferFrom moves what the facilitator asks for, up to the
\* signed maximum, out of the allowance.
SettleUpto(a, amount) ==
  /\ a.scheme = "upto"
  /\ amount <= a.value
  /\ amount <= allowance[a.from]
  /\ Debit(a, amount)
  /\ allowance' = [allowance EXCEPT ![a.from] = @ - amount]

=============================================================================

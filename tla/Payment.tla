------------------------------ MODULE Payment ------------------------------
(***************************************************************************)
(* The payment rules of payment.rs, payment/exact.rs and payment/upto.rs:  *)
(* what counts as a payment demand, which of the offered entries the proxy *)
(* selects, when the spend ceiling lets it pay, and what it signs.         *)
(*                                                                         *)
(* Wire strings are abstracted to what parsing makes of them.  An amount   *)
(* is the number of atomic USDC units, or BadAmount when u128 parsing      *)
(* rejects the string; an address is a name, or "invalid" when it does     *)
(* not parse; a content block is the `accepts` list it carries, and the    *)
(* empty list when PaymentRequired::from_error_text returns None for it    *)
(* (prose, malformed JSON, or an empty `accepts`).                         *)
(***************************************************************************)
EXTENDS Integers, Sequences

CONSTANTS
  BadAmount,       \* a wire amount that is not a u128
  NoTimeout,       \* maxTimeoutSeconds omitted by the server
  Unset,           \* AmountGuard::Unset
  MaxTimeout,      \* MAX_TIMEOUT_SECS
  DefaultTimeout,  \* DEFAULT_TIMEOUT_SECS (the same for both schemes)
  Slack            \* VALID_AFTER_SLACK_SECS

ASSUME PaymentAssumption ==
  /\ BadAmount \notin Nat
  /\ NoTimeout \notin Nat
  /\ Unset \notin Nat
  /\ MaxTimeout \in Nat
  /\ DefaultTimeout \in Nat
  /\ Slack \in Nat

AcceptsEntry ==
  [scheme      : {"exact", "upto", "other"},
   network     : {"base", "other"},
   asset       : {"USDC", "other", "invalid"},
   amount      : Nat \cup {BadAmount},
   payTo       : {"payee", "invalid"},
   timeout     : Nat \cup {NoTimeout},
   facilitator : {"none", "facilitator", "invalid"}]

\* A tool result: its is_error flag and its text blocks.
Result == [isError : BOOLEAN, blocks : Seq(Seq(AcceptsEntry))]

----------------------------------------------------------------------------
(* Selection *)

UptoSupports(e) ==
  /\ e.scheme = "upto"
  /\ e.network = "base"
  /\ e.asset = "USDC"
  /\ e.facilitator # "none"

ExactSupports(e) ==
  /\ e.scheme = "exact"
  /\ e.network = "base"
  /\ e.asset = "USDC"

Supported(e) == UptoSupports(e) \/ ExactSupports(e)

\* The first element of s that satisfies P, as a set of at most one element.
FirstOf(s, P(_)) ==
  {s[i] : i \in {i \in DOMAIN s : P(s[i]) /\ \A j \in 1 .. i - 1 : ~P(s[j])}}

\* A block is a payment demand when it carries a non-empty accepts list.
IsDemand(block) == block # << >>

\* The accepts list the proxy answers in the tool result r: that of the first
\* demand among the text blocks of an error result, if there is one.
Demands(r) == IF r.isError THEN FirstOf(r.blocks, IsDemand) ELSE {}

\* The selection with the preference between the two schemes swapped, and the
\* selection without its network and asset checks.
SelectedExactFirst(accepts) ==
  IF \E i \in DOMAIN accepts : ExactSupports(accepts[i])
    THEN FirstOf(accepts, ExactSupports)
    ELSE FirstOf(accepts, UptoSupports)

SelectedOnAnyAsset(accepts) ==
  FirstOf(accepts, LAMBDA e : e.scheme \in {"upto", "exact"})

\* The entry the proxy picks from accepts: the first it supports under `upto`,
\* and only without one the first it supports under `exact`.
Selected(accepts) ==
  IF \E i \in DOMAIN accepts : UptoSupports(accepts[i])
    THEN FirstOf(accepts, UptoSupports)
    ELSE FirstOf(accepts, ExactSupports)

----------------------------------------------------------------------------
(* The spend ceiling *)

\* The check without the ceiling comparison.
SetIsEnough(guard, amount) ==
  /\ amount # BadAmount
  /\ guard # Unset

\* AtomicUsdc::parse_wire accepts the amount and AmountGuard::check passes it.
WithinCeiling(guard, amount) ==
  /\ amount # BadAmount
  /\ guard # Unset
  /\ amount <= guard

----------------------------------------------------------------------------
(* Signing *)

\* Every address the scheme signs over parses, and so does the amount.
Signable(e) ==
  /\ e.asset # "invalid"
  /\ e.payTo # "invalid"
  /\ e.scheme = "upto" => e.facilitator = "facilitator"
  /\ e.amount # BadAmount

\* The timeout as the server asked for it, without the clamp.
UnclampedTimeout(e) == IF e.timeout = NoTimeout THEN DefaultTimeout ELSE e.timeout

Timeout(e) ==
  LET asked == IF e.timeout = NoTimeout THEN DefaultTimeout ELSE e.timeout
  IN  IF asked <= MaxTimeout THEN asked ELSE MaxTimeout

\* The start of the window without backdating, and backdated without
\* saturation at zero.
NotBackdated(now) == now
Unsaturated(now)  == now - Slack

ValidAfter(now) == IF now >= Slack THEN now - Slack ELSE 0

ValidBefore(e, now) == now + Timeout(e)

=============================================================================

------------------------------ MODULE MCBridge ------------------------------
(***************************************************************************)
(* Constants for model-checking Bridge: the tool results an upstream may   *)
(* send, one for every path through try_pay_and_retry.                     *)
(***************************************************************************)
EXTENDS BridgePromise, BridgeClaims, TLC

Offer(scheme, amount) ==
  [scheme |-> scheme, network |-> "base", asset |-> "USDC", amount |-> amount,
   payTo |-> "payee", timeout |-> NoTimeout,
   facilitator |-> IF scheme = "upto" THEN "facilitator" ELSE "none"]

Failure(blocks) == [isError |-> TRUE, blocks |-> blocks]
Prose == << >>

Success     == [isError |-> FALSE, blocks |-> <<Prose>>]
ProseError  == Failure(<<Prose>>)
BothSchemes == Failure(<<Prose, <<Offer("exact", 1),
                                  [Offer("upto", 2) EXCEPT !.timeout = 5]>>>>)
ExactOnly   == Failure(<<<<Offer("exact", 1)>>>>)
LongExact   == Failure(<<<<[Offer("exact", 1) EXCEPT !.timeout = 5]>>>>)
CheapExact  == Failure(<<<<Offer("upto", 3), Offer("exact", 1)>>>>)
NoAmount    == Failure(<<<<Offer("exact", BadAmount)>>>>)
BadPayee    == Failure(<<<<[Offer("exact", 1) EXCEPT !.payTo = "invalid"]>>>>)
NoFacilitator ==
  Failure(<<<<[Offer("upto", 1) EXCEPT !.facilitator = "none"],
              [Offer("exact", 1) EXCEPT !.timeout = 0]>>>>)
OtherAsset  == Failure(<<<<[Offer("exact", 1) EXCEPT !.asset = "other"]>>,
                         <<Offer("exact", 1)>>>>)

AllReplies  == {Success, ProseError, BothSchemes, LongExact, CheapExact,
                NoAmount, BadPayee, NoFacilitator, OtherAsset}

CellReplies == {Success, ProseError, ExactOnly, BadPayee, CheapExact}

\* Demands under each scheme with no timeout, with none to speak of, with one
\* below the maximum and one above it.
TimedReplies ==
  {Failure(<<<<[Offer(scheme, 1) EXCEPT !.timeout = t]>>>>) :
     scheme \in {"exact", "upto"}, t \in {NoTimeout, 0, 1, 7}}

\* A clock that is ahead or behind: one second either way, or up to two.
EitherWay == {-1, 1}
Wrong == -2 .. 2

CallSymmetry == Permutations(Calls)
CallAndNonceSymmetry == CallSymmetry \cup Permutations(Nonces)

=============================================================================

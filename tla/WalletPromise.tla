---------------------------- MODULE WalletPromise ----------------------------
(***************************************************************************)
(* What the owner of the wallet, and the client, may rely on, without any  *)
(* mention of handlers, signer cells, nonces or windows:                   *)
(*                                                                         *)
(*   - a tool call is authorized at most once, for at most the ceiling in  *)
(*     force, and never after the client got its answer;                   *)
(*   - it is charged at most once, never more than was authorized, and not *)
(*     later than Exposure after it was authorized;                        *)
(*   - the client that is told "unpaid" will never be charged.             *)
(***************************************************************************)
EXTENDS Integers

CONSTANTS
  Calls,     \* tool calls
  Ceilings,  \* the ceilings a launch may be configured with
  NoCeiling, \* the one that forbids to pay
  Exposure   \* how long an authorization stays open at most

VARIABLES
  now,         \* the time
  ceiling,     \* the ceiling in force
  authorized,  \* authorizations: set of [call, limit, expires]
  charges,     \* charges: set of [call, amount, at]
  verdict      \* what each call has come to

promiseVars == <<now, ceiling, authorized, charges, verdict>>

\* "open": not answered; "gone": the process ended without an answer.
Verdicts == {"open", "paid", "unpaid", "gone"}

IsAuthorized(c) == \E a \in authorized : a.call = c
IsCharged(c) == \E x \in charges : x.call = c

Init ==
  /\ now = 0
  /\ ceiling \in Ceilings
  /\ authorized = {}
  /\ charges = {}
  /\ verdict = [c \in Calls |-> "open"]

Authorize(c) ==
  /\ verdict[c] = "open"
  /\ ~IsAuthorized(c)
  /\ ceiling # NoCeiling
  /\ \E limit \in 0 .. ceiling, expires \in 0 .. now + Exposure :
        authorized' = authorized \cup {[call |-> c, limit |-> limit, expires |-> expires]}
  /\ UNCHANGED <<now, ceiling, charges, verdict>>

Charge(a) ==
  /\ ~IsCharged(a.call)
  /\ now <= a.expires
  /\ \E amount \in 0 .. a.limit :
        charges' = charges \cup {[call |-> a.call, amount |-> amount, at |-> now]}
  /\ UNCHANGED <<now, ceiling, authorized, verdict>>

\* The client gets an answer, and it is true.
Answer(c, v) ==
  /\ verdict[c] = "open"
  /\ \/ v = "paid" /\ IsAuthorized(c)
     \/ v = "unpaid" /\ ~IsAuthorized(c)
  /\ verdict' = [verdict EXCEPT ![c] = v]
  /\ UNCHANGED <<now, ceiling, authorized, charges>>

\* The process ends; calls it was busy with will not be answered.
Relaunch ==
  /\ ceiling' \in Ceilings
  /\ verdict' \in [Calls -> Verdicts]
  /\ \A c \in Calls : \/ verdict'[c] = verdict[c]
                      \/ verdict[c] = "open" /\ verdict'[c] = "gone"
  /\ UNCHANGED <<now, authorized, charges>>

TimePasses ==
  /\ now' = now + 1
  /\ UNCHANGED <<ceiling, authorized, charges, verdict>>

Next ==
  \/ \E c \in Calls : Authorize(c) \/ Answer(c, "paid") \/ Answer(c, "unpaid")
  \/ \E a \in authorized : Charge(a)
  \/ Relaunch
  \/ TimePasses

Spec == Init /\ [][Next]_promiseVars

=============================================================================

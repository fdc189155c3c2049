# A TLA+ verification project for x402-proxy

x402-proxy is a stdio MCP server between an MCP client and a remote MCP server. It forwards
tool calls; when the remote side answers a call with an x402 payment demand, the proxy signs an
authorization for a USDC payment on Base with the user's key and sends the call again with it.
It guards money with a spend ceiling and a key that is unlocked only when it is needed.

This directory models the parts of the program that decide about money and keys, checks them
with TLC on small instances, and proves their safety properties and refinements with TLAPS for
every instance. Paths below are relative to `crates/x402-proxy/src/` unless they begin with `docs/`,
`tests/` or are `README.md` (the repository's).

Contents: [the system](#1-the-system), [the modules](#2-the-modules),
[the runs](#3-the-runs), [fairness](#4-fairness), [the proofs](#5-the-proofs),
[where documents and code disagree](#6-where-documents-and-code-disagree),
[what is left out](#7-what-is-left-out), [the plan](#8-the-plan).

## 1. The system

### Components

| Component | Code | State it keeps | Operations | Model |
|---|---|---|---|---|
| Bridge | `proxy.rs` | per call: where its handler is; shared: guard, signer cell, upstream connection | `call_tool`, `try_pay_and_retry`, `list_tools`, `get_info` | `Bridge` |
| Signer cell | `proxy.rs:61-80` | a `tokio::sync::OnceCell` with its permit queue | `signer()` | `SignerCell`, `LazyKey` |
| Payment rules | `payment.rs`, `payment/exact.rs`, `payment/upto.rs` | none | demand detection, `supports`, selection, `AmountGuard::check`, `sign` | `Payment` |
| USDC amounts | `payment.rs:99-173` | none | `parse_decimal`, `parse_wire`, `Display` | `Usdc` (`parse_wire` in `Payment`) |
| Approval command | `commands/approve.rs` | the run's place between its awaits; the allowance on chain | `run` | `Approve`, `ApprovalPromise` |
| Configuration | `config.rs` | the config files and where they are looked for | `config_path`, `load`, `wallet`, key sources | `Launch` |
| Install | `commands/install.rs` | what it printed; the entry in the MCP client's configuration | `plan`, `resolve_key_ref`, `run`, `run_claude_mcp_add` | `Launch` |
| Serve | `commands/serve.rs` | the guard and the key reference of a launch | `run`, `resolve_guard` | `Launch` (startup), `Bridge` (serving), `Deployment` (both) |
| Key resolver | `key.rs` | none; reads `op`, the environment, files | `resolve`, `resolve_source` | `Launch` (which source, which key), `SignerCell` (when), `Deployment` (both) |
| CLI, URLs, errors, logging | `cli.rs`, `main.rs`, `net.rs`, `lib.rs` | none | dispatch | not modelled |
| Test kit, vectors, CI | `testkit.rs`, `vectors/`, `.github/workflows/ci.yml` | none | test data | not modelled |
| Release pipeline | `.github/workflows/release*.yml`, `knope.toml` | tags and releases | release, publish | not modelled |

### How they interact

`install` reads the config file, chooses a key reference and a ceiling, and makes of both an entry
for the MCP client, with environment variables: printed, for the user to paste, or registered by
`claude mcp add`, which may fail. Days later the client starts `serve` from
that entry, in an environment of its own, in which the client's exported variables stand behind those of
the entry; `serve` loads the config file it finds there, resolves the ceiling (environment first, then the
wallet's `max`), connects upstream and serves. The key is not touched until a payment is due:
`try_pay_and_retry` selects an entry of the demand, consults the guard, and only then asks
`signer()`, which runs the key resolver on a blocking thread, at most once at a time, while other
payments wait. Then it signs and retries. What it signed is settled by a facilitator, at a time of
its own and in contracts on Base: EIP-3009 for `exact`, Permit2 for `upto`. Permit2 needs an
allowance, which `approve-permit2` sets.

### What is hard

* **Concurrency.** rmcp runs each `call_tool` handler as a task. Handlers interleave at three
  awaits (first upstream call, signer, retry) and meet in the signer cell. A resolver may fail,
  panic, or hang in a prompt while others wait.
* **Failure after commitment.** The retry carries the authorization; if it fails, the payment may
  still be settled. The process may end there too. `approve-permit2` has the same problem with a
  transaction whose reply or receipt is lost.
* **Distance in time and place.** Ceiling, key reference, key source and key are read at different
  moments (install, paste, launch, first payment) and in different environments (the shell's, the
  client's), from files, variables and stores that the user changes in between.
* **Untrusted input.** The upstream chooses amounts, timeouts, addresses, the order of entries, and
  whether the retry is answered with another demand.
* **Clocks and numbers.** Windows are computed from the proxy's clock and judged by block time;
  subtraction and addition on unsigned numbers; decimal text scaled to 128 bits.

### What makes each component correct

* Bridge: a call is paid at most once, within the ceiling, from one wallet; the client is told the
  truth about it; a call that needs no key never waits for one.
* Signer cell: to its callers it is a key that is set once: nobody who waits is forgotten, one prompt
  serves all, a failure turns away one; no prompt without a payment to make.
* Payment rules: the preference of `upto`; only USDC on Base; windows that are valid on arrival and
  end in bounded time.
* Amounts: a ceiling is what its text says, or is rejected.
* Approve: no transaction without consent; reports that are true; no needless approval unless it
  was overtaken; every run ends.
* Launch: a ceiling belongs to the wallet it was chosen for, and a mistake never turns into one; the
  key stood beside the ceiling it signs under; a retired key is not used; what install tells the user
  is what will happen.
* The whole: what was chosen at one end bounds what is debited at the other, from the wallet that was
  named.

`PROJECT.json` lists the hazards, each at its line with the properties that cover it.

## 2. The modules

```
WalletPromise <-- BridgePromise --> LazyKey      Approve --> ApprovalPromise      Usdc
                        |
                        |             Deployment
                        |            /          \
                      Bridge <------+            +------> Launch
                    /   |   \                                |
           SignerCell  Chain  Payment                     Payment
```

Arrows without a head downwards are EXTENDS; those of BridgePromise and Approve are refinements
(INSTANCE).
Deployment extends its components instead of instantiating them, so that their theorems can be cited
about it.

**Payment** holds the pure rules. Wire strings are abstracted to what parsing makes of them: an
amount is a number or `BadAmount`, an address a name or `"invalid"`, a content block the `accepts`
list it carries (empty if it is no demand). `Demands`, `Selected`, `WithinCeiling`, `Signable`,
`Timeout`, `ValidAfter` and `ValidBefore` follow the order of `try_pay_and_retry` and of the two
`sign` functions. EIP-712 hashing and the signature are abstracted to the record that is signed.

**SignerCell** is `OnceCell::get_or_try_init` as `signer()` uses it. `queue` is the permit queue of
the cell, its head the caller that runs the resolver; success empties the queue and fills the cell,
failure turns the head away and hands the permit on. `resolutions` counts the prompts.

**Chain** is not code of the repository: the clock, used nonces and the Permit2 allowance, as far
as what the proxy signs depends on them.

**Bridge** composes the three. `pc[c]` is where the handler of call `c` is: `forwarded`
(proxy.rs:200), `signer` (141), `retrying` (165), `answered`. Everything between two awaits is one
action: `PassThrough`, `Refuse` and `RequestSigner` are what one upstream reply leads to,
`SignAndRetry` signs and sends without an await in between, `RetryAnswered` and `RetryFails` end the
call. `answer[c]` keeps which of the early returns the client got. `Restart` ends the process at any
point; nothing survives it but `signed`, which is out of the proxy's hands. `guards` has the ceiling
of each launch so far; a launch brings its own, any of `Guards`, when it starts (`Relaunch`). Each
signature reads the clock anew, and the clock may be wrong either way (`Readings`, `Skews`), ahead by
`MaxSkew` at most; `sentAt` keeps the block time of the signature for the properties. A nonce is any
member of `Nonces`: that 256 random bits do not repeat is not built in, so nothing that is checked or
proved rests on it, except that a payment whose nonce was used before can no longer settle.

**WalletPromise** is what the owner of the wallet may rely on, in terms of authorizations, charges
and verdicts only: at most one bounded and short-lived authorization per call, at most one charge
within it, and a client that is told "unpaid" is never charged. **LazyKey** is what the handlers may
rely on when they ask for the key, without permits and queues: it is set once in the life of a
process, and a failed attempt turns away one caller. **BridgePromise** has the refinement mappings;
`KeepsPromise` and `KeepsKeyPromise` say that Bridge implements the one and its cell the other. **BridgeClaims** states what
documents say of the bridge and the code does not do.

**Launch** is config files, install, client entry, serve and key resolver as one system, with a user
who changes anything at any time. Commands look for the config file in the environment they run in
(`ConfigPath`, `FileOn`): install in the shell's, serve in the client's. `Install` prints a plan,
which is pasted later (`Paste`), or registers it, or fails to. An entry may also be written by hand, and
need not set either variable; `Launched` is what a launch finds in its process environment: what
the entry sets, else what the client exports (main.rs:15, serve.rs:63). A `Process` keeps what a launch read:
its reference, `X402_MAX_AMOUNT` as text and whether its entry set it, the config it loaded, its guard, the
variables it inherited and, once resolved, its key. `KeyIn` is when each kind of source is read: a raw key never, a variable
at launch, an op item or a file at the first payment. References keep the distinctions the code makes
between them: `wallet:` and a source; a `wallet:` reference with blanks before it; the empty string
and garbage. `KeyResolver::resolve` trims a reference at both ends (key.rs:144), `resolve_guard` and install do
not (serve.rs:66, install.rs:110): blanks before it make it another kind of reference, those after it are
the end of the wallet's name, which `Trimmed` maps to the name without them. Three
variables record the past for the properties: `history`, what the user ever set or exported; `held`, what the
stores held since the running launch started; `note`, what install said of the entry, and of which
file. A key is read in one step, at the moment the resolver returns it.

**Deployment** joins Launch and Bridge where the code does. `Launching` is `Serve`, and handlers start
under the ceiling it resolved, with an empty cell; session 1 is the time before the first launch.
`KeyFound` fills the cell with what the source of the running launch yields at that moment. `Signing`
is `SignAndRetry`, and is recorded among Launch's payments. Steps of one side only (`Handling`,
`Administering`, `OnChain`, `Ending`) leave the other as it is. `launches` records each session's
reference and whether its ceiling was exported.

**Approve** is `approve-permit2`: one action per await and one for the prompt. Several runs share a
wallet. `mempool` holds transactions that are broadcast, `ledger` is the history of the allowance in
block order. Transactions may be mined in any order, revert, or be forgotten; a reply or a receipt
may be lost; a run may be interrupted anywhere. **ApprovalPromise** is what the owner of the wallet
may rely on, without prompts, mempool or blocks: a run changes the allowance once at most, to the
amount it was given and after its user agreed; a run that reports "nothing to do" or "aborted" will
not change it later, and "approved" and "reverted" are what happened. `Promise` in Approve has the
mapping (`Effect`, from the ledger; `Verdict`, from the outcome), `KeepsApproval` the refinement.

**Usdc** is `parse_decimal` and `Display` digit by digit, with the base, the number of decimals and
the width as parameters, against `Reading`, which says what a text means as a number: the parser accumulates from the left
(`Value`), the meaning adds up what each digit is worth at its place (`Worth`).

**MCBridge**, **MCLaunch**, **MCDeployment** and **MCUsdc** give the constants values for TLC. Each component module
also holds, beside the definitions it uses, a few faulty variants (their comments begin with what
the variant gets wrong); no run uses them. They are there so that each property can be seen to fail
when the code has the corresponding fault.

**BridgeProofs**, **BridgePromiseProofs**, **ApproveProofs**, **LaunchProofs**,
**DeploymentProofs** and **UsdcProofs** hold theorems and the invariants they need;
**NaturalRecursion** the facts about recursion and induction that UsdcProofs rests on.

## 3. The runs

| Run | Question | States |
|---|---|---|
| `bridge_payments` | What is signed, charged and answered when two calls run over two launches, the upstream sends every kind of reply and the proxy's clock is wrong either way? Is it what WalletPromise allows? | 874,000 |
| `bridge_windows` | Every timeout, a clock up to two seconds wrong either way, block time that passes every window: when can what is signed be settled, first and last? | 67,000 |
| `bridge_signer` | Three calls race for the key; resolvers fail, hang or return either of two keys; one restart. Who waits, who is prompted, who is answered? Is the cell a LazyKey? | 77,000 |
| `approve` | Two runs of `approve-permit2`, at once or one after the other, a settlement in between. What is sent, what is reported, does each run end? Is it what ApprovalPromise allows? | 84,000 |
| `launch` | Three changes by the user, launches before, between and after. Where do the ceiling and the key of each payment come from? | 2,928,000 |
| `deployment` | Two changes by the user, two launches, two calls that interleave with all of it. Does the whole keep to its parts, and what is debited in the end? | 603,000 |
| `usdc` | What is each text read as, and what is shown of it? | 51,000 |
| `claim_*` | Section 6: each finds one documented claim violated. | |

The longest take about two minutes with two workers.

### The properties

*bridge_payments.* `CeilingRespected` (nothing but USDC on Base, within the ceiling of the signing
process, none by a process without a ceiling), `CostBounded` and `PaidOnce` (one authorization and
one charge per call, within the ceiling of the process the call was made to, also when the paid retry is
answered with another demand or the process is relaunched), `TruthfulAnswers` (an answer that says "not paid" if and only if nothing was signed),
`UptoPreferred` (`exact` is signed only when no entry is supported under `upto`), `KeepsPromise`
(refinement), `TypeOK`. What an answer says is judged by the return of the handler it comes from: a retry
that is answered with another demand counts as paid, because an authorization went out with it, although the
client is handed the upstream's words (proxy.rs:166).

*bridge_windows.* `ExposureEnds` (no charge later than `MaxTimeout` after the authorization was sent,
whatever timeout was demanded, plus what the proxy's clock is ahead: the end of a window is computed from
that clock and judged by block time), `ValidOnArrival` (what is signed can be settled at once, by a clock
that is ahead by less than the slack or behind by less than the timeout).

*bridge_signer.* `QueueInv` and `NoLostWaiter` (the queue is exactly the calls that need the key and
do not have it, once each), `OnePayer` (a process pays from one wallet), `PromptsAccounted` (one
prompt per call that is turned away, one for all others), `PromptsOnlyToPay` (every call that waits for
the key, was turned away without it or got it had selected a supported entry within the ceiling, and
there were no more prompts than such calls), `KeepsKeyPromise`
(refinement), `OnlyPayersWait` (a hanging resolver holds up only the calls that need the key),
`AnsweredIfServed` (a call whose own requests the upstream answers is answered, if the resolver
returns: neither calls the upstream is silent on nor the queue keep it).

*approve.* `OnlyWithConsent` (a transaction is sent only by a run with `--yes` or a `y` at the prompt, and only
by one that saw an allowance that is too small), `TruthfulReports`, `ReadyWhenReported`, `NeedlessOnlyWhenOvertaken` (a
transaction that takes effect although the allowance sufficed was overtaken by another run's approval
after its own look; settlements alone never cause one), `KeepsApproval` (refinement), `EndsUnlessForgotten`.

*launch.* `CeilingWasChosen` (no payment above every ceiling the user chose for the wallet or source
that pays, or, when the entry sets none, exported where the client runs: ceilings do not stray between
wallets), `KeyAndCeilingTogether` (a payment under a wallet's own ceiling is signed with a source that
stood in the same file, although the two are read at different times, and with the wallet's own
unless blanks end its name), `MalformedCeilingNeverServes`, `InstallForetellsLaunch` (as long as the client
finds the file that install found: the entry leads to a key source, unless its wallet's name ends in
blanks; when install said that payments will be refused "until X402_MAX_AMOUNT is set", they are, until
one is exported; when it did not, launches are under the ceiling of the entry whatever is exported, and
there is none if it does not parse), `RetiredKeysAreIdle` (a key that left its source before the launch
is not used), `LaunchTypeOK`.

*deployment.* `KeepsBridge` and `KeepsLaunch` (refinement: the whole does nothing its parts would not
do, though the ceiling, the key and the signature of Launch now lie calls and awaits apart),
`DebitsWithinChosen` (from end to end: no debit is above every ceiling the user chose for the reference
of the launch that signed it, or exported if that launch's entry set none, whatever has changed since), `PaysFromItsWallet` (what is signed is
signed with a key that the launch's wallet held while it was running).

*usdc.* `ReadAsWritten`, `ShownExactly`.

### The bounds, and why they are enough

* `bridge_payments`: two calls, because what can go wrong between calls goes wrong between two
  (`PaidOnce` is about pairs); two nonces, which may collide; two launches, each with a ceiling of 2 or without; nine
  replies, one for each path through `try_pay_and_retry`, with amounts below, at and above the
  ceiling, an amount that does not parse, a timeout that is omitted, zero and above the maximum; block
  times 0 to 3 and a clock that is one ahead or behind at each signature, so that windows of
  `MaxTimeout = 2` both open (`Slack = 2`, saturation of `ValidAfter` at 0) and run out. The calls are
  symmetric, and so are the nonces.
* `bridge_windows`: one call, since a window is a matter of one authorization. Timeouts omitted, zero, below
  and above `MaxTimeout = 3`, under both schemes; the clock from two behind to two ahead (`MaxSkew = 2`, the
  slack) at each signature; block times 0 to 9, past the end of any window whose signature is early.
* `bridge_signer`: three calls, so that the queue has a head, one to hand the permit to and one who
  must not get it; two keys, two launches; five replies, among them those that need no key. No time,
  which the queue does not depend on, and no symmetry, since liveness is checked.
* `approve`: two runs: overtaking takes two, and a later run after a lost one is the second of the
  two. Amounts 1 and 2 over allowances 0 and 1 give too small, equal and sufficient; one settlement.
* `launch`: `MaxEdits = 3` lets the user install, paste or change the file, then change it back or
  change the entry, an environment or a key. Two wallets, `main` and `padded`, whose names are "main"
  and "main ", and three sources (one read late, one inherited, one a key in the file) show whether
  something strays from one to the other; of the six config files one does not parse, and the others differ
  in the default, in which wallets they hold, and in whether a wallet has a ceiling, none, or a malformed
  one; two places for them, found or not by shell and client; a client that exports a ceiling of 2 and a
  reference, or nothing. The run ends when the changes are used up and no launch is running, so it is
  not checked for deadlock.
* `deployment`: the components have their own runs; here the bounds let them meet. Two changes: one
  makes the entry, the other comes before, between or during the launches (another entry, another
  config, a rotated or missing key). Two launches, the third and second session, so that something
  may leak from one into the next; an exported ceiling above the wallet's; two calls, of which one may be cut off and the other follow; a
  demand of 2, which only one wallet's ceiling admits, under `upto` and settled for 0, 1 or 2, and a
  demand of 1, which both admit. No time: what is signed under `exact` is not yet settled, which
  `bridge_payments` covers. It ends like `launch`.
* `usdc`: base 3, three decimals, `MaxUnits = 146` (12.102 in base 3, neither a multiple of the scale
  nor of the base), all texts with up to two characters before the point and four after it, or four
  without a point, over the digits, `+` and one character that stands for all others. A text that is
  rejected is the end, so it is not checked for deadlock.

`MaxSessions`, `MaxClock`, `MaxDraws` and `MaxEdits` are bounds of the models; the theorems hold for
every value of them.

## 4. Fairness

*Bridge*: liveness is stated call by call, under `Served(c)`: the upstream answers the requests made
for `c`, or fails them, and the runtime polls the task of `c` when it can go on. The first is an
assumption, of this call only: the code sets no timeout on upstream calls, and other calls may hang for
ever. The second is what tokio does. Nothing is assumed of clients, of facilitators, or of the process,
which may end. `OnlyPayersWait` assumes nothing of the resolver either (a prompt may stay open for
ever); `AnsweredIfServed` assumes that it returns, with a key or without. Weak fairness is enough:
each of these steps stays enabled until it is taken or the process ends.

*Approve* (`Fairness`): a run that was started goes on: the RPC endpoint answers, the user answers the
prompt, a broadcast transaction is mined unless it is forgotten, a receipt is delivered. No fairness on
`ReceiptFails`, `SendFails`, `Forget` or `Interrupt`. `EndsUnlessForgotten` has to except a forgotten
transaction, because `get_receipt` waits without a timeout (approve.rs:136-139).

*Launch*, *Deployment* and *Usdc* have safety properties only: nothing there has to happen.

## 5. The proofs

`tlapm` checks every proof, with Z3, Zenon and LS4 as backends. The theorems hold for any sets of
calls, keys, runs, wallets, sources, config files and replies, under the named assumptions of the
modules: `PaymentAssumption`, `CellAssumption`, `ChainAssumption`, `BridgeAssumption`,
`CallsAssumption` (finitely many calls, for the count in `PromptsAccounted`), `ApproveAssumption`,
`LaunchAssumption`, `UsdcAssumption` (a base above one, a width that holds one whole unit),
`DeploymentAssumption` (keys, ceilings and demanded amounts of Launch are among
those of Bridge). They say that numbers are naturals, that sentinels differ from what they stand
beside, and that the inputs have their types. TLC evaluates each in the runs.

Most of the properties are not inductive. The strengthenings:

* **Bridge.** `TypeInv` (the types); `CellInv` (the queue has no duplicates and holds exactly the
  calls at `signer` while the cell is empty); `LedgerInv`, in six parts: `SignedInv` ties each
  authorization to the entry selected for its call, to the ceiling of its process and to a handler
  past the signature; `WindowInv` and `DebitInv` to the windows that were computed and to what was
  settled, with what the clock may be ahead; `UniqueInv` says that no call has two authorizations; `PayerInv` ties
  those of the running process to the key in the cell; `AnswerInv` ties answers to handlers. The
  interplay matters: `PaidOnce` holds because an authorization exists only for a call past its
  signature (`SignedInv`), a fact about `pc` that `PaidOnce` does not mention. `PromptsOnlyToPay`
  follows from `AskerInv` (whoever came to the signer keeps the entry it had selected and passed
  the guard with) and from the count of `PromptTheorem`. Theorems: `TypeCorrect`, `WaitersAreQueued`, `CeilingTheorem`,
  `CostTheorem`, `PaidOnceTheorem`, `TruthTheorem`, `OnePayerTheorem`,
  `PreferenceTheorem`, `ExposureTheorem`, `ArrivalTheorem`, `QueueTheorem`, `PromptTheorem`,
  `PromptsOnlyToPayTheorem`.
* **BridgePromise.** `PromiseTheorem`: `Spec => KeepsPromise`. Under the invariants of Bridge each
  action is mapped to an action of WalletPromise or to a stutter: `SignAndRetry` to `Authorize`, each
  return to `Answer`, `Settle` to `Charge`, `Restart` to `Relaunch`. `KeyPromiseTheorem`:
  `Spec => KeepsKeyPromise`. The set of askers is the set of calls in the queue (`CellInv`), so
  `RequestSigner` maps to `Ask`, `KeyResolved` to `Obtain` and `KeyFails` to `TurnAway`.
* **Approve.** `SentInv` (who has a transaction, by its place and outcome, and that it is in the
  mempool or in the ledger, not both), `ReportInv` (reports against the ledger), `BookInv` (the
  ledger is the history of the allowance, one entry per run; a look at the allowance is of a prefix of
  it) and `OvertakenInv` (a run that is past its look and whose request is met by now was overtaken).
  Theorems: `TypeCorrect`, `ConsentTheorem`, `TruthTheorem`, `ReadyTheorem`, `NeedlessTheorem`.
  `ApprovalTheorem`: `Spec => KeepsApproval`. `Confirm` maps to `Agree`, `Mine` to `TakeEffect`,
  `Draw` to `Settle`, the end of a run to `Conclude`; `Send`, `Forget` and the rest are stutters.
  `Mine` may change the allowance only for a run whose verdict is still open or unknown (`SentInv`),
  and "reverted" is true because a run has one entry in the ledger (`BookInv`).
* **Launch.** `KeyInv` (the source of a resolved key), `EntryInv` (the ceiling of an entry, registered
  or only printed, was chosen for its reference), `ProcessInv` (the same of a launch, or that it was exported, and that its
  guard is what `ResolveGuard` made of the config it loaded), `PaidInv` (the same of payments),
  `NoteInv` (what install said is true of the file it read), `HeldInv` (stores and inherited variables
  are among what was held). Theorems: `LaunchTypeCorrect`, `ChosenTheorem`, `TogetherTheorem`,
  `MalformedTheorem`, `InstallTheorem`, `RetiredTheorem`.
* **Deployment.** The two components' invariants are kept because each step maps to a step of the
  component or to a stutter (`IsBridgeStep`, `IsLaunchStep`); these need what holds in between,
  `LinkInv`: ceilings in entries are ones that Bridge allows, entries that were selected are ones that
  upstreams demand, the running handlers have the guard and the key of the running launch, and every
  authorization has its payment in Launch. Theorems: `KeepsBridgeTheorem` and `KeepsLaunchTheorem`,
  the refinements; `DebitsTheorem`, which chains `DebitInv` of Bridge, `LinkInv` and
  `PaidInv` of Launch; `WalletTheorem`. From the refinements follow `DeployedPromiseTheorem` (a deployed
  proxy keeps WalletPromise and LazyKey) and `DeployedSafetyTheorem` (what was proved of Bridge under
  arbitrary ceilings, and of Launch under arbitrary payments, holds of the whole).
* **Usdc.** What is to be shown is about functions over texts of any length, in every base, width and
  number of decimals. The library's induction theorems cannot be instantiated by the provers, so
  NaturalRecursion derives induction from the well-foundedness of `<`, for a *set* of numbers
  (`LeastNumber`, `Induction`) and for a set of sequences (`SequenceInduction`), and shows that a
  recursively defined function exists (`Recursion`, `BoundedRecursion`). With these: `PowerIs`,
  `ValueIs` and `WorthIs` (the recursive functions are what their definitions say), `WorthIsValue`
  (the parser's number is the sum of what each digit is worth), `ValueOfConcat` (two texts of digits
  one after the other), `ValueBelow` (n digits are below the n-th power of the base), `ValueOfDigits`
  and `WrittenIs` (the digits of a number form that number); then, step by step in the order of the
  code, `ParseUintIs`, `PaddedIs`, `FractionRead`, `WellWrittenIs`, `SumChecked` and from them
  `ParseDecimalIs`: `parse_decimal` is `Reading`, for every text. On the way out, `TrimmedValue` and
  `DisplayIs`: what is shown is canonical and means the amount. The inductive invariant `Inv` adds to
  the types that what is shown is the `Display` of a count. Theorems: `UsdcTypeCorrect`,
  `ReadTheorem`, `ShownTheorem`, and `RoundTrip`: `ParseDecimal(Display(n)) = n` for every amount. They
  also say why the other modules may take a ceiling for a number or a text that is rejected.

Only model-checked: `OnlyPayersWait`, `AnsweredIfServed` and `EndsUnlessForgotten`, since
liveness under fairness and ENABLED are beyond the provers; and the claims of section 6, which are
violated. Every other invariant, action property and refinement that a passing run checks is a theorem.

## 6. Where documents and code disagree

Each of these runs checks one sentence of the repository's documents or comments, and TLC finds a
behaviour of the code that violates it. Some are likely to be decisions that the text was not updated
for; the model only shows the difference.

| Run | The text | The code |
|---|---|---|
| `claim_fallback` | "iterate schemes in preference order [upto, exact], take the first supports() entry that also passes the ceiling" (docs/2026-08-31-x402-upto-scheme-design.md:92-93) | selects first and consults the guard afterwards: an `upto` entry over the ceiling makes the proxy refuse a demand whose `exact` entry is within it (proxy.rs:106-132) |
| `claim_one_prompt` | "One `op` prompt per session at most" (docs/2026-07-16-x402-proxy-rust-design.md:90) | a failed resolution leaves the cell empty, and the next in the queue, or the next payment, prompts again (proxy.rs:64-79) |
| `claim_unlock` | "unlock happens exactly when a payment is signed" (README.md:62-63) | the key is unlocked before the entry's addresses are parsed; when they do not parse, nothing is signed (proxy.rs:141-160) |
| `claim_approval` | "`exact` stays the safe default until the wallet is approved" (docs/2026-08-31-x402-upto-scheme-design.md:81-82) | the allowance is never looked at; `upto` is preferred whenever it is offered (proxy.rs:106-109) |
| `claim_idempotent` | "Idempotent: skip if already approved for at least the requested amount." (commands/approve.rs:103) | the allowance is read before the prompt and the transaction sent after it; another run's approval may be mined in between (approve.rs:105-133) |

Observations that no run is spent on:

* `parse_decimal` accepts a `+` before the fraction, because `u128`'s parser does: "0.+5" is read as 0.05.
  It can only lower a ceiling; `Reading` in Usdc states it.
* "The proxy refuses to sign if it's unset" (README.md:69-70) is not so: the `max` of the wallet takes the
  place of `X402_MAX_AMOUNT` (serve.rs:62-73), and a payment of Launch may have `max = None`.
* A key reference with blanks before `wallet:` resolves to the wallet's key but not to its ceiling:
  such a launch refuses every payment unless `X402_MAX_AMOUNT` is set (key.rs:144, serve.rs:66).
* Blanks at the end of a name count for the ceiling (serve.rs:66) and not for the key (key.rs:144): with
  wallets "main " and "main" in the file, `wallet:main ` pays with the key of the second under the `max` of
  the first; with "main " alone, it finds no key. `KeyAndCeilingTogether` and `InstallForetellsLaunch` name
  the exception, and the wallet `padded` of the run meets it.
* A `--max` that does not parse is accepted by install without a word, and no launch of that entry
  starts (install.rs:45-52, serve.rs:63-64); `InstallForetellsLaunch` states it so.
* `X402_MAX_AMOUNT` exported where the client runs is the ceiling of every entry that sets none, also of
  one that install said would refuse all payments (serve.rs:63, install.rs:179-183). `CeilingWasChosen`
  and `DebitsWithinChosen` count it as a choice for whatever wallet such an entry names.

## 7. What is left out

* The tool list and the server info: fixed at startup, no state changes. That the list may become
  stale is listed as a hazard.
* The envelope of a call (`_meta`, arguments, progress, cancellation): the request is an opaque call.
  Cancellation has no effect in the code, hence none in the model.
* The bytes: JSON, EIP-712, signatures, calldata. The repository pins these with test vectors.
* What lies in a key source: `op`, files and the environment yield a key or not, at any time
  differently. Redaction of `op` errors is left out.
* The shape of the printed JSON and of the arguments of `claude mcp add`, the name and scope of an
  entry, and the upstream's URL with its payment parameter: nothing that is modelled depends on them.
* `approve-permit2` raising the allowance while the proxy runs: in Bridge the allowance starts
  anywhere and is only drawn down. Which wallet is approved depends on the shell's `X402_KEY_REF`,
  which wallet pays on the client's entry; nothing in the code relates them.
* An MCP client may pass its environment to the servers it starts, or only a part of it: what is not passed
  is not exported, as far as `Environ` goes. An `X402_MAX_AMOUNT` that is not Unicode, which serve.rs:63
  ignores, and an `X402_KEY_REF` that is not, which main.rs:15 replaces by the empty string, are as if they
  were not set.
* The randomness of nonces (exact.rs:123, upto.rs:166): that two never collide is not claimed.
* CLI and URL parsing, logging, CI and releases.

## 8. The plan

The order follows what is at stake: money first, then the key, then the settings that lead to both.

1. Done: Payment, SignerCell, Chain, Bridge; WalletPromise, LazyKey and the refinements; their proofs.
2. Done: Approve, Launch and their proofs; ApprovalPromise and its refinement; Usdc and its proofs.
3. Done: Deployment, its refinements of Bridge and Launch, and the end-to-end properties.
4. Approve beside Bridge: a module in which approvals raise the allowance that `upto` payments draw on,
   so that "approve, then pay" can be stated end to end.
5. The envelope: what of a request reaches the upstream, first and in the retry, against the design's
   "forward upstream verbatim" (docs/2026-07-16-x402-proxy-rust-design.md:50).
6. The release workflow, as a small module of its own, if it proves to have interesting interleavings.
7. More theorems: lemmas on `Selected` and the windows as a library of their own.

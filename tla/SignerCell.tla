----------------------------- MODULE SignerCell -----------------------------
(***************************************************************************)
(* X402Proxy::signer(): the signing key, resolved by the first payment     *)
(* that needs it and cached for the life of the process (proxy.rs:61-80).  *)
(*                                                                         *)
(* The cache is a tokio OnceCell.  While it is empty, callers queue for    *)
(* its single permit; the caller at the head holds it and runs the secret  *)
(* resolver (spawn_blocking, then the key parse).  Success fills the cell  *)
(* and releases everyone; a failure is returned to the head alone, and the *)
(* permit passes to the next caller, who runs the resolver again.          *)
(***************************************************************************)
EXTENDS Integers, Sequences

CONSTANTS
  Calls,   \* the tool calls that may ask for the signer
  Keys,    \* the keys the resolver may return
  NoKey    \* the empty cell

ASSUME CellAssumption == NoKey \notin Keys

VARIABLES
  signer,      \* the cell: a key, or NoKey
  queue,       \* the callers in get_or_try_init, the permit holder first
  resolutions  \* how often the resolver was started in this process

cellVars == <<signer, queue, resolutions>>

Waiting(c) == \E i \in 1 .. Len(queue) : queue[i] = c

CellTypeOK ==
  /\ signer \in Keys \cup {NoKey}
  /\ queue \in Seq(Calls)
  /\ resolutions \in Nat

CellInit ==
  /\ signer = NoKey
  /\ queue = << >>
  /\ resolutions = 0

----------------------------------------------------------------------------

\* A caller that starts a resolver of its own while another one is running.
JoinWithoutPermit(c) ==
  /\ signer = NoKey
  /\ queue' = Append(queue, c)
  /\ resolutions' = resolutions + 1
  /\ UNCHANGED signer

\* A caller finds the cell empty.  With nobody before it, it takes the permit
\* and starts the resolver; otherwise it waits for the permit.
Join(c) ==
  /\ signer = NoKey
  /\ queue' = Append(queue, c)
  /\ resolutions' = IF queue = << >> THEN resolutions + 1 ELSE resolutions
  /\ UNCHANGED signer

\* A caller finds the cell full and has the signer at once.
Hit == signer # NoKey /\ UNCHANGED cellVars

\* The resolver runs for the caller at the head.
Resolving == signer = NoKey /\ queue # << >>

\* Resolution that fills the cell but forgets those who wait for it, and
\* resolution by each caller for itself.
ResolvedForHead(k) ==
  /\ Resolving
  /\ signer' = k
  /\ queue' = Tail(queue)
  /\ UNCHANGED resolutions

ResolvedForEach(k) ==
  /\ queue # << >>
  /\ signer' = k
  /\ queue' = Tail(queue)
  /\ UNCHANGED resolutions

\* The resolver returns a key that parses: the cell is set, its semaphore
\* closed, and every caller in the queue continues with the key.
Resolved(k) ==
  /\ Resolving
  /\ signer' = k
  /\ queue' = << >>
  /\ UNCHANGED resolutions

\* A failed resolution that turns everybody in the queue away.
ResolutionFailsForAll ==
  /\ Resolving
  /\ queue' = << >>
  /\ UNCHANGED <<signer, resolutions>>

\* The resolver fails, its task panics, or what it returns is no valid key:
\* the head leaves with the error and the next in line starts the resolver.
ResolutionFails ==
  /\ Resolving
  /\ queue' = Tail(queue)
  /\ resolutions' = IF Len(queue) > 1 THEN resolutions + 1 ELSE resolutions
  /\ UNCHANGED signer

----------------------------------------------------------------------------
(* What the queue guarantees, whoever uses the cell. *)

\* Nobody waits for a key that is already there, and nobody waits twice.
QueueInv ==
  /\ signer # NoKey => queue = << >>
  /\ \A i, j \in 1 .. Len(queue) : queue[i] = queue[j] => i = j

=============================================================================

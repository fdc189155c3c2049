------------------------------ MODULE LazyKey ------------------------------
(***************************************************************************)
(* What the handlers may rely on when they ask for the signing key, with   *)
(* no mention of permits, queues or resolver tasks: the key is set once in *)
(* the life of a process, and then all who asked for it have it; an        *)
(* attempt that fails turns away one caller and is made again for those    *)
(* who are left; there are no attempts but these.                          *)
(***************************************************************************)
EXTENDS Naturals

CONSTANTS
  Calls,  \* who may ask
  Keys,   \* what an attempt may find
  NoKey   \* not set

VARIABLES
  key,       \* the key, or NoKey
  asking,    \* who asked and has no answer
  attempts   \* how often somebody was asked to unlock the key

lazyVars == <<key, asking, attempts>>

Init ==
  /\ key = NoKey
  /\ asking = {}
  /\ attempts = 0

\* The first to ask starts an attempt; later ones share it.
Ask(c) ==
  /\ key = NoKey
  /\ c \notin asking
  /\ asking' = asking \cup {c}
  /\ attempts' = IF asking = {} THEN attempts + 1 ELSE attempts
  /\ UNCHANGED key

Obtain ==
  /\ key = NoKey
  /\ asking # {}
  /\ key' \in Keys
  /\ asking' = {}
  /\ UNCHANGED attempts

TurnAway(c) ==
  /\ c \in asking
  /\ asking' = asking \ {c}
  /\ attempts' = IF asking' = {} THEN attempts ELSE attempts + 1
  /\ UNCHANGED key

\* The process is launched again.
Relaunch ==
  /\ key' = NoKey
  /\ asking' = {}
  /\ attempts' = 0

Next ==
  \/ \E c \in Calls : Ask(c) \/ TurnAway(c)
  \/ Obtain
  \/ Relaunch

Spec == Init /\ [][Next]_lazyVars

=============================================================================

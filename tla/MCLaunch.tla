------------------------------ MODULE MCLaunch ------------------------------
(***************************************************************************)
(* Constants for model-checking Launch: two wallets whose names differ in  *)
(* a blank at the end; config files that differ in what a wallet says, in  *)
(* the default, and in whether they parse at all; two places for them; a   *)
(* store the proxy reads late, one it inherits, and a key that stands in   *)
(* the file; a client that exports variables of its own, and one that does *)
(* not.                                                                    *)
(***************************************************************************)
EXTENDS Launch

CONSTANTS
  main, padded,  \* "main" and "main "
  vault, shell, k1, here, there

MCTrimmed == [n \in Names |-> IF n = padded THEN main ELSE n]

Holding(key, max) == [key |-> key, max |-> max]

File(default, ofMain, ofPadded) ==
  [default |-> default,
   wallets |-> [n \in Names |-> IF n = main THEN ofMain ELSE ofPadded]]

Absent == File(None, None, None)
Usual  == File(main, Holding(vault, 1), Holding(shell, None))

MCConfigs ==
  {Absent, Usual,
   File(main, Holding(shell, 2), Holding(k1, Bad)),
   File(padded, Holding(vault, None), Holding(shell, 2)),
   File(padded, None, Holding(vault, 1)),
   Bad}

Wallets(names) == [kind : {"wallet"}, of : names]
Shell == [kind |-> "source", of |-> shell]

MCRefs ==
  Wallets({main, padded}) \cup {[kind |-> "blankWallet", of |-> main], Shell}

AtHome    == [explicit |-> None, xdg |-> None, home |-> here, max |-> None, ref |-> None]
Explicit  == [explicit |-> there, xdg |-> here, home |-> here, max |-> None, ref |-> None]
Exporting == [explicit |-> None, xdg |-> None, home |-> here, max |-> 2, ref |-> Shell]

MCEnvirons == {AtHome, Explicit, Exporting}

\* Nothing is set up, or the usual config; the client finds it, or looks
\* elsewhere, or has variables of its own.
MCWorlds ==
  {[files |-> f, contents |-> [s \in Stores |-> k1],
    environs |-> [side \in Sides |-> IF side = "client" THEN e ELSE AtHome]] :
     f \in {[p \in Paths |-> Absent], [p \in Paths |-> IF p = here THEN Usual ELSE Absent]},
     e \in MCEnvirons}

=============================================================================

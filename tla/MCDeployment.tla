---------------------------- MODULE MCDeployment ----------------------------
(***************************************************************************)
(* Constants for model-checking Deployment.  The wallet main has a ceiling *)
(* of its own and the default wallet, padded, a higher one.                *)
(***************************************************************************)
EXTENDS Deployment, MCBridge, MCLaunch

\* A demand that only the higher ceiling admits, and one that both do.  Every
\* other kind of reply is for the runs of Bridge.
DeployedReplies ==
  {Failure(<<<<Offer("upto", 2)>>>>), Failure(<<<<Offer("exact", 1)>>>>)}

TwoWallets == File(padded, Holding(vault, 1), Holding(vault, 2))
Changed    == File(padded, Holding(k1, None), None)

DeployedConfigs == {TwoWallets, Changed}
DeployedRefs == {[kind |-> "wallet", of |-> main]}

\* A ceiling above that of main, which a launch is under if its entry has none.
MaxExported == [AtHome EXCEPT !.max = 2]

DeployedEnvirons == {AtHome, MaxExported}

DeployedWorlds ==
  {[files |-> [p \in Paths |-> TwoWallets], contents |-> [s \in Stores |-> k1],
    environs |-> [side \in Sides |-> AtHome]]}

=============================================================================

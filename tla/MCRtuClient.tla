----------------------------- MODULE MCRtuClient ----------------------------
(* RtuClient on small instances.                                             *)
EXTENDS RtuClient

CONSTANTS read, write  \* two function codes

NoNoise == {}

\* What interference on a shared line adds: a damaged response and one from
\* another device.
MCDamage ==
  {[origin |-> None, fc |-> read, kind |-> "normal", envelope |-> e] : e \in {"broken", "otherUnit"}}
=============================================================================

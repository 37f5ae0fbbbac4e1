----------------------------- MODULE MCBotLifecycle -----------------------------
(***************************************************************************)
(* Small instances of BotLifecycle: one unit of time is fifteen seconds.   *)
(***************************************************************************)
EXTENDS BotLifecycle

\* What LiveLoopIsSpared supposes of the numbers holds of these.
ASSUME InstanceFits == ProbesFit
================================================================================

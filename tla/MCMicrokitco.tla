---------------------------- MODULE MCMicrokitco ----------------------------
(* Small instances of the cothread library.                                *)
EXTENDS Microkitco

Channels1 == {"ch0"}
Semaphores1 == {"s0"}
NoChannels == {}
OneArg == {"a"}
AllRules == RuleNames
NoRules == {}
RootWaits == RuleNames \ {"root_never_waits"}
AnyDestroy == RuleNames \ {"cothreads_destroy"}
StaleReuse == RuleNames \ {"no_stale_reuse"}
=============================================================================

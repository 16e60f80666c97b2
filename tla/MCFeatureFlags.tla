---------------------------- MODULE MCFeatureFlags ----------------------------
(* FeatureFlags with two guilds, in one process with a worker and a web handler, and two
   plugins: streaming, which updates its flag itself but marks the guild when it
   disables its role, and automod, which marks guilds too early and whose flag is new.
   The process hears g1's own evictions, and of g2 only the global one. *)
EXTENDS FeatureFlags

CONSTANTS g1, g2, streaming, automod, role, enabled, process, worker, handler

MCFlagsOf ==
  [p \in Plugins |-> CASE p = streaming -> {role} [] p = automod -> {enabled}]
MCOrder ==
  [p \in Plugins |-> CASE p = streaming -> 1 [] p = automod -> 2]
MCHome == [u \in Updaters |-> process]
MCInitial == [g \in Guilds |-> IF g = g1 THEN {role, enabled} ELSE {}]
MCReady == {<<process, g1>>}
=============================================================================

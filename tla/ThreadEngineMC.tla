---------------------------- MODULE ThreadEngineMC ----------------------------
(* Two request processes and the poller at one thread.                        *)
EXTENDS ThreadEngine, TLC

CONSTANTS dashboard, gateway, poller

Symmetry == Permutations(Users)
==============================================================================

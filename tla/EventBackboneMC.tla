-------------------------- MODULE EventBackboneMC --------------------------
(* Two consumers, as the daemon registers: notify-demo subscribes to one    *)
(* type and declares no consent; the other subscribes to all and is gated.  *)
EXTENDS EventBackbone, TLC

CONSTANTS demo, action, ping, changed, moved

MCRoster == <<demo, action>>
MCHandles == demo :> ({ping} \cap Ids) @@ action :> Ids
MCGated == {action}

=============================================================================

-------------------------- MODULE EventRetentionMC --------------------------
(* The roster of EventBackboneMC. Both producers name their events with a    *)
(* random uuid, which no seq reads as.                                       *)
EXTENDS EventRetention, TLC

CONSTANTS demo, action, ping, changed

MCRoster == <<demo, action>>
MCHandles == demo :> {ping} @@ action :> {ping, changed}
MCSpelledSeq == [e \in Ids |-> 0]
=============================================================================

---------------------------- MODULE SourcePollerMC ----------------------------
(* A source that two processes poll at the same time.                          *)
EXTENDS SourcePoller

CONSTANTS cron, gateway, up, down, flat
==============================================================================

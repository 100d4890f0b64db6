--------------------------- MODULE MCInboxDaemon ---------------------------
(* Instances of InboxDaemon for TLC.  All versions of a file have one size: *)
(* the worst case for the dedup key, which then rests on the second alone.  *)
EXTENDS InboxDaemon

MCSizeOf == [v \in Versions |-> 1]

=============================================================================

----------------------------- MODULE MCUploader -----------------------------
(* Small instances of Uploader for TLC.                                    *)
EXTENDS Uploader

(* A quiet window, and one with an alert that also asks for the ruleset.   *)
MCShapes == { [alerts |-> 0, extras |-> {"heartbeat"}],
              [alerts |-> 1, extras |-> {"forensics", "heartbeat", "rules"}] }
=============================================================================

----------------------------- MODULE MCLogDialog -----------------------------
(* Instances of LogDialog for TLC.                                            *)
EXTENDS LogDialog, TLC

================================================================================

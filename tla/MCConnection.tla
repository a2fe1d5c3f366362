----------------------------- MODULE MCConnection -----------------------------
(* Constants of the model-checking runs of Connection. *)
EXTENDS Connection

\* A reconnection by name only, and one whose hint names a peripheral.
MCHints == {{}, {2}}
=============================================================================

---------------------------- MODULE MCCsiCapture -----------------------------
(* Model-checking CsiCapture: three events and a queue of two, which fills    *)
(* while the sender holds nothing yet, and drains behind a full callback.     *)
EXTENDS CsiCapture

=============================================================================

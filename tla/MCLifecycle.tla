---------------------------- MODULE MCLifecycle -----------------------------
(* The lifecycle of small servers under every supervisor.                  *)
EXTENDS Lifecycle
=============================================================================

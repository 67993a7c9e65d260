----------------------------- MODULE MCObstack -----------------------------
(* The instance of Obstack that TLC checks: MCObstack.cfg.                 *)
EXTENDS Obstack
=============================================================================

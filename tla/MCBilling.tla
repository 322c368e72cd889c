------------------------------ MODULE MCBilling ------------------------------
(* Billing with two threads: see Billing.cfg.                               *)
EXTENDS Billing, TLC
=============================================================================

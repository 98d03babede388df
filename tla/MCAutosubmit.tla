----------------------------- MODULE MCAutosubmit -----------------------------
(* One timer's two overlapping runs and a user, who may change the scheduler. *)
EXTENDS Autosubmit
=============================================================================

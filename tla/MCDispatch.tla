----------------------------- MODULE MCDispatch -----------------------------
(***************************************************************************)
(* Instance of Dispatch for TLC: two workers, three descriptors.  With two *)
(* threads at curr_conns < Limit and connections still in their queues all *)
(* descriptors can be in use, so that both refusals and EMFILE happen.     *)
(***************************************************************************)
EXTENDS Dispatch
=============================================================================

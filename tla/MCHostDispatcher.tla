-------------------------- MODULE MCHostDispatcher --------------------------
(* HostDispatcher on a small instance.                                     *)
EXTENDS HostDispatcher

=============================================================================

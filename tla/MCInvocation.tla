---------------------------- MODULE MCInvocation ----------------------------
(***************************************************************************)
(* An Invocation with an expected and an unexpected return code and two    *)
(* delays.  The state space is finite without any other bound: a process   *)
(* may be restarted, cancelled and killed any number of times.             *)
(***************************************************************************)
EXTENDS Invocation

MCCodes == {0, -9}
MCExpected == {0}
MCDelays == {1, 30}
=============================================================================

------------------------------- MODULE Client --------------------------------
(***************************************************************************)
(* What the modules about the client library (fscli.cc) have in common:    *)
(* the threads that call it, and the null pointer.                         *)
(***************************************************************************)
EXTENDS FiniteSets

CONSTANTS Thread, NULL

ASSUME ClientAssumption == IsFiniteSet(Thread)
=============================================================================

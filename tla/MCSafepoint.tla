------------------------------ MODULE MCSafepoint ------------------------------
(***************************************************************************)
(* Safepoint with two or three mutator threads, collected by a thread of   *)
(* its own or by one of them.                                              *)
(***************************************************************************)
EXTENDS Safepoint

CONSTANTS t1, t2, t3, driver

TwoThreads == {t1, t2}
ThreeThreads == {t1, t2, t3}
OnlyT3 == {t3}

===============================================================================

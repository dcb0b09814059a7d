------------------------ MODULE MCVersionController ------------------------
(***************************************************************************)
(* Small instances of VersionController for TLC: every thread has a slot   *)
(* of its own, as it has while at most max_access_threads threads use the  *)
(* instance.                                                               *)
(***************************************************************************)
EXTENDS VersionController, TLC

CONSTANTS t1, t2, c1, c2

TwoThreads == {t1, t2}
TwoSlots == (t1 :> 0) @@ (t2 :> 1)
OneCleaner == {c1}
TwoCleaners == {c1, c2}

OnlyFirst == {t1}
OnlySecond == {t2}
Nobody == {}
=============================================================================

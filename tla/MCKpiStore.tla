-------------------------------- MODULE MCKpiStore --------------------------------
(* Small instances of KpiStore for TLC: one handler, which all threads     *)
(* share, as its mutex suggests.                                           *)
EXTENDS KpiStore

CONSTANTS t1, t2, shared, gnb1, gnb2, bytes   \* threads, a handler, names, a key

OneThread  == {t1}
TwoThreads == {t1, t2}
OneHandler  == {shared}
AllShared   == [t \in TwoThreads |-> shared]
OneShared   == [t \in OneThread |-> shared]
TwoGNodeBs  == {gnb1, gnb2}
TheKeys     == {bytes}
TwoCounts   == {0, 1}
===================================================================================

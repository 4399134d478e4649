----------------------------- MODULE MCShardData -----------------------------
(* Model-checking instance of ShardData: up to four backends of mixed blob   *)
(* sizes, every failure tolerance, data of up to ten bytes.                  *)
EXTENDS ShardData

MCSizes == {2, 5}
MCDataLengths == {0, 1, 2, 5, 6, 7, 9}
=============================================================================

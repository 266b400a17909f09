-------------------------- MODULE MCStorageEngine --------------------------
(* One-bit integers stand for the 64-bit ones: long long from -1 to 0, so  *)
(* that DECR goes past the smallest and meets every value.                 *)
EXTENDS StorageEngine

MCDeltas == {-1}
=============================================================================

---------------------------- MODULE MCSectorCache -----------------------------
(***************************************************************************)
(* Instances of SectorCache for TLC.  CACHE_MAX_NUM is 32 in the code and  *)
(* the eviction threshold a quarter of it; here there are fewer lines than *)
(* blocks that reads cache, so that the lines run out, and the threshold   *)
(* is a constant of its own, so that the second drain of a write's         *)
(* eviction is reached.                                                    *)
(***************************************************************************)
EXTENDS SectorCache
================================================================================

------------------------------ MODULE BlockDevice ------------------------------
(***************************************************************************)
(* What a caching block device promises its callers (the FAT file system   *)
(* and the mass-storage LUN).                                              *)
(*                                                                         *)
(* `disk' is what the callers see, `durable' what survives a power loss.   *)
(* The device may persist a write at any time, and only a completed Sync   *)
(* promises that everything written before it is durable.                  *)
(***************************************************************************)
EXTENDS BlockData

VARIABLES
    disk,        \* [Sector -> version a read returns]
    durable,     \* [Sector -> version that survives a power loss]
    out          \* what the last call returned

vars == <<disk, durable, out>>

Init ==
    /\ disk = [s \in Sector |-> 0]
    /\ durable = [s \in Sector |-> 0]
    /\ out = Silent

Read(s, c) ==
    /\ Inside(s, c)
    /\ out' = Got([t \in Extent(s, c) |-> disk[t]])
    /\ UNCHANGED <<disk, durable>>

\* Beyond the end a read is refused, or returns a buffer nobody wrote; a write
\* is refused.
Outside(s, c) ==
    /\ ~Inside(s, c)
    /\ out' \in {Refused, Got([t \in Extent(s, c) |-> Junk])}
    /\ UNCHANGED <<disk, durable>>

Write(s, c) ==
    /\ Inside(s, c)
    /\ out' = Wrote
    /\ disk' = [t \in Sector |-> IF t \in Extent(s, c) THEN disk[t] + 1 ELSE disk[t]]
    /\ UNCHANGED durable

\* In the background, any write not yet durable may become so, in any order
\* between sectors but never backwards for one of them.
Persist(s) ==
    /\ UNCHANGED <<disk, out>>
    /\ \E v \in durable[s] .. disk[s] : durable' = [durable EXCEPT ![s] = v]

Sync ==
    /\ out' = Synced
    /\ durable' = disk
    /\ UNCHANGED disk

PowerLoss ==
    /\ out' = Silent
    /\ disk' = durable
    /\ UNCHANGED durable

Next ==
    \/ Sync
    \/ PowerLoss
    \/ \E s \in Sector : Persist(s)
    \/ \E s \in Block, c \in Count : Write(s, c) \/ Read(s, c) \/ Outside(s, c)

Spec == Init /\ [][Next]_vars
================================================================================

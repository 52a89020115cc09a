------------------------------- MODULE HostDisk --------------------------------
(***************************************************************************)
(* What a USB host relies on: LUNs that carry out one command at a time.   *)
(*                                                                         *)
(* A write is stored piece by piece, front to back, each sector once, and  *)
(* is complete before its status; a read delivers every sector of the      *)
(* request as it is.  A host that goes away (a bus reset, a pulled cable)  *)
(* gives its command up wherever it is; what is left of a write may still  *)
(* be stored, until the host is attached again.                            *)
(***************************************************************************)
EXTENDS BlockData, Sequences

CONSTANTS
    LUNs,
    Removable    \* the LUNs whose medium may be missing

VARIABLES
    disk,   \* [LUN -> [Sector -> version]]
    req,    \* the command the host waits for, Idle, or Gone
    left,   \* the part of a write that is not stored yet
    got     \* what a read has delivered

vars == <<disk, req, left, got>>

Gone == [op |-> "gone"]
Idle == [op |-> "idle"]
Request == [op : {"read", "write", "other"}, lun : LUNs, start : Sector, count : 0 .. MaxCount]

Nothing == [nr |-> 0]
ToStore(l, s, n) == IF n = 0 THEN Nothing ELSE [nr |-> n, lun |-> l, start |-> s]

Init ==
    /\ disk = [l \in LUNs |-> [s \in Sector |-> 0]]
    /\ req = Gone
    /\ left = Nothing
    /\ got = <<>>

\* A new command; nothing is left of the one before.
Ask(r) ==
    /\ req = Idle
    /\ left = Nothing
    /\ r.op # "other" => Inside(r.start, r.count)
    /\ req' = r
    /\ left' = IF r.op = "write" THEN ToStore(r.lun, r.start, r.count) ELSE Nothing
    /\ got' = <<>>
    /\ UNCHANGED disk

\* The next n sectors of a write; without a medium they are lost.
Store(n) ==
    /\ n \in 1 .. left.nr
    /\ left' = ToStore(left.lun, left.start + n, left.nr - n)
    /\ \/ disk' = [disk EXCEPT ![left.lun] =
             [s \in Sector |-> IF s \in Extent(left.start, n) THEN @[s] + 1 ELSE @[s]]]
       \/ left.lun \in Removable /\ UNCHANGED disk
    /\ UNCHANGED <<req, got>>

\* The next n sectors of a read; those read without a medium are lost.
Deliver(n, lost) ==
    /\ req.op = "read"
    /\ n \in 1 .. req.count - Len(got)
    /\ lost # {} => req.lun \in Removable
    /\ got' = got \o [i \in 1 .. n |-> IF i \in lost THEN Junk
                                       ELSE disk[req.lun][req.start + Len(got) + i - 1]]
    /\ UNCHANGED <<disk, req, left>>

\* The status.
Complete ==
    /\ req \notin {Gone, Idle}
    /\ left = Nothing
    /\ req.op = "read" => Len(got) = req.count
    /\ req' = Idle
    /\ got' = <<>>
    /\ UNCHANGED <<disk, left>>

GiveUp ==
    /\ req' = Gone
    /\ left' \in {left, Nothing}
    /\ got' = <<>>
    /\ UNCHANGED disk

Attach ==
    /\ req = Gone
    /\ req' = Idle
    /\ left' = Nothing
    /\ UNCHANGED <<disk, got>>

Next ==
    \/ \E r \in Request : Ask(r)
    \/ \E n \in Count : Store(n) \/ \E lost \in SUBSET (1 .. n) : Deliver(n, lost)
    \/ Complete \/ GiveUp \/ Attach

Spec == Init /\ [][Next]_vars
================================================================================

------------------------------- MODULE BlockData -------------------------------
(***************************************************************************)
(* The vocabulary the block-device modules share: sectors, the versions    *)
(* they hold and the results of a call.  The contents of a sector are a    *)
(* version number: a write stores the successor of what a read would have  *)
(* returned, so "older" and "newer" are < and >.                           *)
(***************************************************************************)
EXTENDS Integers

CONSTANTS
    TotalSec,    \* total_sec: sectors the device exports
    MaxCount,    \* bound: sectors in one request
    MaxVersion   \* bound: versions written to one sector

ASSUME DeviceAssumption ==
    /\ TotalSec \in Nat \ {0}
    /\ MaxCount \in Nat \ {0}
    /\ MaxVersion \in Nat \ {0}

Sector == 0 .. TotalSec - 1
Block  == 0 .. TotalSec             \* one block past the end can be asked for
Count  == 1 .. MaxCount

Extent(s, c) == s .. s + c - 1
Inside(s, c) == s + c <= TotalSec

Junk == -1                          \* contents of a buffer that got no data
Data == Junk .. MaxVersion

\* Results of a call.
Silent  == [op |-> "none"]
Refused == [op |-> "refused"]
Wrote   == [op |-> "wrote"]
Synced  == [op |-> "synced"]
Got(f)  == [op |-> "got", data |-> f]
================================================================================

----------------------------- MODULE DrvHeapProofs -----------------------------
(***************************************************************************)
(* Proofs about DrvHeap: for a heap of any size, any requests and any      *)
(* order of calls, the blocks of DrvMemMgr.c tile the heap, no two free    *)
(* ones are neighbours, and what callers were given never overlaps.        *)
(***************************************************************************)
EXTENDS DrvHeap, TLAPS

\* Rounding up never makes a request smaller.
LEMMA RoundUpBound ==
    ASSUME NEW n \in Nat
    PROVE  RoundUp(n) \in Nat /\ n <= RoundUp(n)
  BY DEF RoundUp, MIN_FREE_BYTES

\* What has been rounded up is not rounded up again.
LEMMA RoundUpTwice ==
    ASSUME NEW n \in Nat
    PROVE  RoundUp(RoundUp(n)) = RoundUp(n)
  BY DEF RoundUp, MIN_FREE_BYTES

\* Aligning skips less than an alignment.
LEMMA OffsetBound ==
    ASSUME NEW p \in Nat, NEW align \in Nat \ {0}
    PROVE  OffsetOf(p, align) \in 0 .. align - 1
  BY DEF OffsetOf

\* The blocks strictly between b and r in the list are those of gone.
Between(b, r, gone) ==
    /\ b \in Block \ {last} /\ r \in Block /\ gone \subseteq Block
    /\ b + SIZE_HEADER <= r
    /\ \A c \in gone : b < c /\ c < r
    /\ \A c \in Block : c <= b \/ r <= c \/ c \in gone
    /\ \A c \in Block \ {last} : next[c] \in gone \cup {r} => c \in gone \cup {b}
    /\ \A c \in Block \ {first} : prev[c] \in gone \cup {b} => c \in gone \cup {r}

\* What HeapInv says of the list alone, but for the free neighbours.
ListOK ==
    /\ BlocksTile
    /\ Block \subseteq first .. last
    /\ next \in [Block -> Nat] /\ prev \in [Block -> Nat]
    /\ status \in [Block -> {"FREE", "RESERVED"}]

LEMMA Numbers ==
    /\ first \in Nat \ {0} /\ last \in Nat /\ first < last
    /\ TypeOK => \A b \in Block : b \in Nat /\ b # 0 /\ first <= b /\ b <= last
  BY HeapAssumption DEF SIZE_HEADER, TypeOK

LEMMA Neighbours ==
    ASSUME TypeOK, BlocksTile, NEW b \in Block \ {last}
    PROVE  Between(b, next[b], {})
  BY Numbers DEF BlocksTile, Between, SIZE_HEADER

LEMMA OneBetween ==
    ASSUME TypeOK, BlocksTile, NEW b \in Block \ {last}, next[b] # last
    PROVE  Between(b, next[next[b]], {next[b]})
<1> DEFINE m == next[b]
           r == next[m]
<1>1. /\ m \in Block \ {last} /\ r \in Block
      /\ prev[m] = b /\ prev[r] = m
      /\ b + SIZE_HEADER <= m /\ m + SIZE_HEADER <= r
      /\ \A c \in Block : c <= b \/ m <= c
      /\ \A c \in Block : c <= m \/ r <= c
  BY DEF BlocksTile
<1>2. \A c \in Block \ {last} : prev[next[c]] = c
  BY DEF BlocksTile
<1>3. \A c \in Block \ {first} : next[prev[c]] = c
  BY DEF BlocksTile
<1>4. b \in Nat /\ m \in Nat /\ r \in Nat /\ \A c \in Block : c \in Nat
  BY <1>1, Numbers
<1>5. \A c \in Block : c <= b \/ r <= c \/ c = m
  BY <1>1, <1>4
<1>6. b < m /\ m < r /\ b + SIZE_HEADER <= r
  BY <1>1, <1>4 DEF SIZE_HEADER
<1> QED
  BY <1>1, <1>2, <1>3, <1>5, <1>6 DEF Between

LEMMA TwoBetween ==
    ASSUME TypeOK, BlocksTile, NEW b \in Block \ {last}, next[b] # last,
           next[next[b]] # last
    PROVE  Between(b, next[next[next[b]]], {next[b], next[next[b]]})
<1> DEFINE m == next[b]
           k == next[m]
           r == next[k]
<1>1. /\ m \in Block \ {last} /\ k \in Block \ {last} /\ r \in Block
      /\ prev[m] = b /\ prev[k] = m /\ prev[r] = k
      /\ b + SIZE_HEADER <= m /\ m + SIZE_HEADER <= k /\ k + SIZE_HEADER <= r
      /\ \A c \in Block : c <= b \/ m <= c
      /\ \A c \in Block : c <= m \/ k <= c
      /\ \A c \in Block : c <= k \/ r <= c
  BY DEF BlocksTile
<1>2. \A c \in Block \ {last} : prev[next[c]] = c
  BY DEF BlocksTile
<1>3. \A c \in Block \ {first} : next[prev[c]] = c
  BY DEF BlocksTile
<1>4. b \in Nat /\ m \in Nat /\ k \in Nat /\ r \in Nat /\ \A c \in Block : c \in Nat
  BY <1>1, Numbers
<1>5. \A c \in Block : c <= b \/ r <= c \/ c = m \/ c = k
  BY <1>1, <1>4
<1>6. b < m /\ m < k /\ k < r /\ b + SIZE_HEADER <= r
  BY <1>1, <1>4 DEF SIZE_HEADER
<1>7. \A c \in Block \ {last} : next[c] \in {m, k} \cup {r} => c \in {m, k} \cup {b}
  BY <1>1, <1>2
<1>8. \A c \in Block \ {first} : prev[c] \in {m, k} \cup {b} => c \in {m, k} \cup {r}
  BY <1>1, <1>3
<1>9. \A c \in {m, k} : b < c /\ c < r
  BY <1>4, <1>6
<1>10. \A c \in Block : c <= b \/ r <= c \/ c \in {m, k}
  BY <1>5
<1> QED
  BY <1>1, <1>6, <1>7, <1>8, <1>9, <1>10 DEF Between

\* The list after a split: the blocks tile the heap as before.
LEMMA CutTiles ==
    ASSUME TypeOK, BlocksTile, NEW b, NEW r, NEW gone, NEW h \in Nat,
           Between(b, r, gone), Cut(b, h, r, gone),
           b + SIZE_HEADER <= h, h + SIZE_HEADER <= r
    PROVE  ListOK' /\ Block' = (Block \ gone) \cup {h}
<1> DEFINE blocks == (Block \ gone) \cup {h}
<1>1. /\ next' = [c \in blocks |-> CASE c = h -> r [] c = b -> h [] OTHER -> next[c]]
      /\ prev' = [c \in blocks |-> CASE c = h -> b [] c = r -> h [] OTHER -> prev[c]]
      /\ status' = [c \in blocks |->
            CASE c = h -> "FREE" [] c = b -> "RESERVED" [] OTHER -> status[c]]
  BY DEF Cut
<1>2. /\ b \in Block \ {last} /\ r \in Block /\ gone \subseteq Block
      /\ \A c \in gone : b < c /\ c < r
      /\ \A c \in Block : c <= b \/ r <= c \/ c \in gone
  BY DEF Between
<1>3. /\ \A c \in Block \ {last} : next[c] \in gone \cup {r} => c \in gone \cup {b}
      /\ \A c \in Block \ {first} : prev[c] \in gone \cup {b} => c \in gone \cup {r}
  BY DEF Between
<1>4. \A c \in Block : c \in Nat /\ c # 0 /\ first <= c /\ c <= last
  BY Numbers
<1>5. b < h /\ h < r /\ b \in Nat /\ r \in Nat
  BY <1>2, <1>4 DEF SIZE_HEADER
<1>6. h \notin Block \ gone /\ h # b /\ h # r
  BY <1>2, <1>4, <1>5
<1>7. first \in blocks /\ last \in blocks /\ b \in blocks /\ r \in blocks /\ r # first /\ b # last
      /\ h # first /\ h # last /\ first \notin gone /\ last \notin gone /\ b \notin gone /\ r \notin gone
  BY <1>2, <1>4, <1>5, <1>6, Numbers DEF BlocksTile
<1>8. Block' = blocks
  BY <1>1 DEF Block
<1>9. blocks \subseteq first .. last
  BY <1>2, <1>4, <1>5, Numbers
<1>10. /\ next'[h] = r /\ next'[b] = h /\ prev'[h] = b /\ prev'[r] = h
       /\ status'[h] = "FREE" /\ status'[b] = "RESERVED"
       /\ \A c \in blocks \ {h, b} : next'[c] = next[c] /\ status'[c] = status[c]
       /\ \A c \in blocks \ {h, r} : prev'[c] = prev[c]
  BY <1>1, <1>6, <1>7
<1>11. \A c \in blocks \ {h, b, last} : next[c] \in blocks \ {h, r}
  <2> SUFFICES ASSUME NEW c \in blocks \ {h, b, last}
               PROVE  next[c] \in blocks \ {h, r}
    OBVIOUS
  <2>1. next[c] \in Block /\ next[c] \notin gone \cup {r}
    BY <1>3 DEF BlocksTile
  <2> QED
    BY <2>1, <1>6
<1>12. \A c \in blocks \ {h, r, first} : prev[c] \in blocks \ {h, b}
  <2> SUFFICES ASSUME NEW c \in blocks \ {h, r, first}
               PROVE  prev[c] \in blocks \ {h, b}
    OBVIOUS
  <2>1. prev[c] \in Block /\ prev[c] \notin gone \cup {b}
    BY <1>3 DEF BlocksTile
  <2> QED
    BY <2>1, <1>6
<1>13. \A c \in blocks \ {last} : next'[c] \in blocks /\ prev'[next'[c]] = c
  BY <1>7, <1>10, <1>11 DEF BlocksTile
<1>14. \A c \in blocks \ {first} : prev'[c] \in blocks /\ next'[prev'[c]] = c
  BY <1>7, <1>10, <1>12 DEF BlocksTile
<1>15. \A c \in blocks \ {last} : c + SIZE_HEADER <= next'[c]
  BY <1>7, <1>10 DEF BlocksTile
<1>16. \A c \in blocks \ {last} : \A d \in blocks : d <= c \/ next'[c] <= d
  <2> SUFFICES ASSUME NEW c \in blocks \ {last}, NEW d \in blocks
               PROVE  d <= c \/ next'[c] <= d
    OBVIOUS
  <2>1. CASE c \in {b, h}
    BY <2>1, <1>2, <1>4, <1>5, <1>10
  <2>2. CASE c \notin {b, h}
    <3>1. c \in Block \ gone /\ next'[c] = next[c] /\ next[c] \in Block
      BY <2>2, <1>10 DEF BlocksTile
    <3>2. CASE d # h
      BY <3>1, <3>2 DEF BlocksTile
    <3>3. CASE d = h
      <4>1. c < b \/ r <= c
        BY <2>2, <3>1, <1>2, <1>4, <1>5
      <4>2. b <= c \/ next[c] <= b
        BY <3>1, <1>2 DEF BlocksTile
      <4> QED
        <5>1. c \in Nat /\ next[c] \in Nat /\ b < h /\ h < r /\ b \in Nat /\ r \in Nat
          BY <3>1, <1>4, <1>5
        <5>2. h <= c \/ next[c] <= h
          BY <4>1, <4>2, <5>1
        <5> QED
          BY <3>1, <3>3, <5>2
    <3> QED
      BY <3>2, <3>3
  <2> QED
    BY <2>1, <2>2
<1>17. prev'[first] = 0 /\ next'[last] = 0 /\ status'[last] = "RESERVED"
  BY <1>7, <1>10 DEF BlocksTile
<1>18. BlocksTile'
  BY <1>7, <1>8, <1>13, <1>14, <1>15, <1>16, <1>17 DEF BlocksTile
<1>19. /\ next' \in [blocks -> Nat] /\ prev' \in [blocks -> Nat]
       /\ status' \in [blocks -> {"FREE", "RESERVED"}]
  BY <1>1, <1>5 DEF TypeOK
<1> QED
  BY <1>8, <1>9, <1>18, <1>19 DEF ListOK

\* The list after a merge, or after a block was freed without one.
LEMMA JoinTiles ==
    ASSUME TypeOK, BlocksTile, NEW b, NEW r, NEW gone,
           Between(b, r, gone), Join(b, r, gone)
    PROVE  ListOK' /\ Block' = Block \ gone
<1> DEFINE blocks == Block \ gone
<1>1. /\ next' = [c \in blocks |-> IF c = b THEN r ELSE next[c]]
      /\ prev' = [c \in blocks |-> IF c = r THEN b ELSE prev[c]]
      /\ status' = [c \in blocks |-> IF c = b THEN "FREE" ELSE status[c]]
  BY DEF Join
<1>2. /\ b \in Block \ {last} /\ r \in Block /\ gone \subseteq Block
      /\ b + SIZE_HEADER <= r
      /\ \A c \in gone : b < c /\ c < r
      /\ \A c \in Block : c <= b \/ r <= c \/ c \in gone
  BY DEF Between
<1>3. /\ \A c \in Block \ {last} : next[c] \in gone \cup {r} => c \in gone \cup {b}
      /\ \A c \in Block \ {first} : prev[c] \in gone \cup {b} => c \in gone \cup {r}
  BY DEF Between
<1>4. \A c \in Block : c \in Nat /\ c # 0 /\ first <= c /\ c <= last
  BY Numbers
<1>5. b < r /\ b \in Nat /\ r \in Nat
  BY <1>2, <1>4 DEF SIZE_HEADER
<1>6. first \in blocks /\ last \in blocks /\ b \in blocks /\ r \in blocks /\ r # first /\ b # last
  BY <1>2, <1>4, <1>5, Numbers DEF BlocksTile
<1>7. Block' = blocks
  BY <1>1 DEF Block
<1>8. /\ next'[b] = r /\ prev'[r] = b /\ status'[b] = "FREE"
      /\ \A c \in blocks \ {b} : next'[c] = next[c] /\ status'[c] = status[c]
      /\ \A c \in blocks \ {r} : prev'[c] = prev[c]
  BY <1>1, <1>6
<1>9. \A c \in blocks \ {b, last} : next[c] \in blocks \ {r}
  BY <1>3 DEF BlocksTile
<1>10. \A c \in blocks \ {r, first} : prev[c] \in blocks \ {b}
  BY <1>3 DEF BlocksTile
<1>11. \A c \in blocks \ {last} : next'[c] \in blocks /\ prev'[next'[c]] = c
  BY <1>6, <1>8, <1>9 DEF BlocksTile
<1>12. \A c \in blocks \ {first} : prev'[c] \in blocks /\ next'[prev'[c]] = c
  BY <1>6, <1>8, <1>10 DEF BlocksTile
<1>13. \A c \in blocks \ {last} : c + SIZE_HEADER <= next'[c]
  BY <1>2, <1>8 DEF BlocksTile
<1>14. \A c \in blocks \ {last} : \A d \in blocks : d <= c \/ next'[c] <= d
  BY <1>2, <1>8 DEF BlocksTile
<1>15. prev'[first] = 0 /\ next'[last] = 0 /\ status'[last] = "RESERVED"
  BY <1>6, <1>8 DEF BlocksTile
<1>16. BlocksTile'
  BY <1>6, <1>7, <1>11, <1>12, <1>13, <1>14, <1>15 DEF BlocksTile
<1>17. /\ next' \in [blocks -> Nat] /\ prev' \in [blocks -> Nat]
       /\ status' \in [blocks -> {"FREE", "RESERVED"}]
  BY <1>1, <1>5 DEF TypeOK
<1> QED
  BY <1>4, <1>7, <1>16, <1>17, Numbers DEF ListOK

\* A split leaves a reserved block and a free one before a reserved one.
LEMMA CutSeparates ==
    ASSUME TypeOK, BlocksTile, NoFreeNeighbours, NEW b, NEW r, NEW gone, NEW h \in Nat,
           Between(b, r, gone), Cut(b, h, r, gone),
           b + SIZE_HEADER <= h, h + SIZE_HEADER <= r,
           status[r] = "RESERVED"
    PROVE  /\ NoFreeNeighbours'
           /\ h \notin Block \ gone /\ b \in Block' /\ b \notin gone /\ h # last
           /\ next'[b] = h /\ status'[b] = "RESERVED" /\ status'[h] = "FREE"
           /\ \A c \in Block' \ {h, b} : next'[c] = next[c] /\ status'[c] = status[c]
<1> DEFINE blocks == (Block \ gone) \cup {h}
<1>1. Block' = blocks
  BY CutTiles
<1>2. /\ next' = [c \in blocks |-> CASE c = h -> r [] c = b -> h [] OTHER -> next[c]]
      /\ status' = [c \in blocks |->
            CASE c = h -> "FREE" [] c = b -> "RESERVED" [] OTHER -> status[c]]
  BY DEF Cut
<1>3. /\ b \in Block \ {last} /\ r \in Block /\ gone \subseteq Block
      /\ \A c \in gone : b < c /\ c < r
      /\ \A c \in Block : c <= b \/ r <= c \/ c \in gone
  BY DEF Between
<1>4. \A c \in Block : c \in Nat /\ c <= last
  BY Numbers
<1>5. b < h /\ h < r /\ b \in Nat /\ r \in Nat
  BY <1>3, <1>4 DEF SIZE_HEADER
<1>6. h \notin Block \ gone /\ h # b /\ h # r /\ b \in blocks /\ r \in blocks /\ h # last /\ b \notin gone
  BY <1>3, <1>4, <1>5, Numbers
<1>7. /\ next'[h] = r /\ next'[b] = h /\ status'[h] = "FREE" /\ status'[b] = "RESERVED"
      /\ \A c \in blocks \ {h, b} : next'[c] = next[c] /\ status'[c] = status[c]
  BY <1>2, <1>6
<1>8. \A c \in blocks \ {h, b, last} : next[c] \in blocks \ {h}
  BY <1>6 DEF BlocksTile, Between
<1>9. \A c \in blocks \ {last} : status'[c] = "FREE" => status'[next'[c]] = "RESERVED"
  BY <1>3, <1>6, <1>7, <1>8 DEF NoFreeNeighbours
<1> QED
  BY <1>1, <1>6, <1>7, <1>9 DEF NoFreeNeighbours

\* A merge leaves a free block between reserved ones.
LEMMA JoinSeparates ==
    ASSUME TypeOK, BlocksTile, NoFreeNeighbours, NEW b, NEW r, NEW gone,
           Between(b, r, gone), Join(b, r, gone),
           status[r] = "RESERVED",
           b # first => status[prev[b]] = "RESERVED"
    PROVE  /\ NoFreeNeighbours'
           /\ b \in Block' /\ b \notin gone /\ status'[b] = "FREE"
           /\ \A c \in Block' \ {b} : next'[c] = next[c] /\ status'[c] = status[c]
<1> DEFINE blocks == Block \ gone
<1>1. Block' = blocks
  BY JoinTiles
<1>2. /\ next' = [c \in blocks |-> IF c = b THEN r ELSE next[c]]
      /\ status' = [c \in blocks |-> IF c = b THEN "FREE" ELSE status[c]]
  BY DEF Join
<1>3. /\ b \in Block \ {last} /\ r \in Block /\ gone \subseteq Block
      /\ b + SIZE_HEADER <= r
      /\ \A c \in gone : b < c /\ c < r
  BY DEF Between
<1>4. \A c \in Block : c \in Nat
  BY Numbers
<1>5. b # r /\ b \in blocks /\ r \in blocks
  BY <1>3, <1>4 DEF SIZE_HEADER
<1>6. /\ next'[b] = r /\ status'[b] = "FREE"
      /\ \A c \in blocks \ {b} : next'[c] = next[c] /\ status'[c] = status[c]
  BY <1>2, <1>5
<1>7. \A c \in blocks \ {b, last} : next[c] \in blocks
  BY DEF BlocksTile, Between
<1>8. \A c \in blocks \ {b, last} : next[c] = b => status[c] = "RESERVED"
  <2> SUFFICES ASSUME NEW c \in blocks \ {b, last}, next[c] = b
               PROVE  status[c] = "RESERVED"
    OBVIOUS
  <2>1. prev[b] = c
    BY DEF BlocksTile
  <2>2. b # first
    BY <2>1, <1>4, Numbers DEF BlocksTile
  <2> QED
    BY <2>1, <2>2
<1>9. \A c \in blocks \ {last} : status'[c] = "FREE" => status'[next'[c]] = "RESERVED"
  BY <1>3, <1>5, <1>6, <1>7, <1>8 DEF NoFreeNeighbours
<1> QED
  BY <1>1, <1>5, <1>6, <1>9 DEF NoFreeNeighbours

\* What the calls need to know of currentNodeAlloc: b was free, is reserved and
\* has room; every other block is as it was, and a new one is free.
Taken(b, n) ==
    /\ ListOK' /\ NoFreeNeighbours'
    /\ Block \subseteq Block' /\ b \in Block \ {last}
    /\ status[b] = "FREE" /\ status'[b] = "RESERVED"
    /\ b + SIZE_HEADER + n <= next'[b] /\ next'[b] <= next[b]
    /\ \A c \in Block \ {b} : next'[c] = next[c] /\ status'[c] = status[c]
    /\ \A c \in Block' \ Block : status'[c] = "FREE"

LEMMA TakeStep ==
    ASSUME TypeOK, BlocksTile, NoFreeNeighbours,
           NEW n \in Nat, NEW b \in Fit(n), Take(b, n)
    PROVE  Taken(b, n)
<1>1. b \in Block \ {last} /\ status[b] = "FREE" /\ n <= next[b] - b - SIZE_HEADER
  BY DEF Fit, BlocksTile, Size
<1>2. b \in Nat /\ next[b] \in Block /\ next[b] \in Nat /\ status[next[b]] = "RESERVED"
  BY <1>1, Numbers DEF BlocksTile, NoFreeNeighbours
<1>3. CASE /\ Size(b) >= n + SIZE_HEADER + MIN_FREE_BYTES
           /\ Cut(b, b + SIZE_HEADER + n, next[b], {})
  <2> DEFINE h == b + SIZE_HEADER + n
  <2>1. h \in Nat /\ b + SIZE_HEADER <= h /\ h + SIZE_HEADER <= next[b]
    BY <1>2, <1>3 DEF Size, SIZE_HEADER, MIN_FREE_BYTES
  <2>2. Between(b, next[b], {})
    BY <1>1, Neighbours
  <2>3. ListOK' /\ Block' = Block \cup {h}
    BY <1>3, <2>1, <2>2, CutTiles
  <2>4. /\ NoFreeNeighbours' /\ h \notin Block
        /\ next'[b] = h /\ status'[b] = "RESERVED" /\ status'[h] = "FREE"
        /\ \A c \in Block' \ {h, b} : next'[c] = next[c] /\ status'[c] = status[c]
    BY <1>2, <1>3, <2>1, <2>2, CutSeparates
  <2>5. h <= next[b]
    BY <1>2, <2>1 DEF SIZE_HEADER
  <2> QED
    BY <1>1, <2>1, <2>3, <2>4, <2>5 DEF Taken
<1>4. CASE /\ status' = [status EXCEPT ![b] = "RESERVED"]
           /\ UNCHANGED <<prev, next>>
  <2>1. /\ status'[b] = "RESERVED"
        /\ \A c \in Block \ {b} : status'[c] = status[c]
        /\ status' \in [Block -> {"FREE", "RESERVED"}]
    BY <1>1, <1>4 DEF TypeOK
  <2>2. Block' = Block
    BY <1>4 DEF Block
  <2>3. ListOK'
    BY <1>1, <1>4, <2>1, <2>2 DEF ListOK, TypeOK, BlocksTile
  <2>4. NoFreeNeighbours'
    BY <1>4, <2>1, <2>2 DEF NoFreeNeighbours, BlocksTile
  <2> QED
    BY <1>1, <1>2, <1>4, <2>1, <2>2, <2>3, <2>4 DEF Taken, SIZE_HEADER
<1> QED
  BY <1>3, <1>4 DEF Take

\* A pointer into the block that was taken is the caller's alone.
LEMMA GiveStep ==
    ASSUME TypeOK, BlocksTile, Owned, NEW b, NEW n \in Nat, Taken(b, n),
           NEW m \in Nat, NEW offset \in Nat, m + offset <= n,
           Give(b + SIZE_HEADER + offset, m, offset)
    PROVE  /\ Owned'
           /\ live' \in [Pointer' -> [bytes : Nat, offset : Nat]]
           /\ Pointer' \subseteq Nat
           /\ Pointer' = Pointer \cup {b + SIZE_HEADER + offset}
<1> DEFINE p == b + SIZE_HEADER + offset
           pointers == Pointer \cup {p}
<1>1. live' = [q \in pointers |->
                  IF q = p THEN [bytes |-> m, offset |-> offset] ELSE live[q]]
  BY DEF Give
<1>2. Pointer' = pointers
  BY <1>1 DEF Pointer
<1>3. /\ Block \subseteq Block' /\ b \in Block \ {last}
      /\ status[b] = "FREE" /\ status'[b] = "RESERVED"
      /\ b + SIZE_HEADER + n <= next'[b]
      /\ \A c \in Block \ {b} : next'[c] = next[c] /\ status'[c] = status[c]
      /\ \A c \in Block' \ Block : status'[c] = "FREE"
  BY DEF Taken
<1>4. b \in Nat /\ next'[b] \in Nat /\ p \in Nat
  BY <1>3, Numbers DEF Taken, ListOK, SIZE_HEADER
<1>5. \A q \in Pointer : BlockOf(q) \in Block \ {last, b}
  BY <1>3 DEF Owned
<1>6. p \notin Pointer
  <2> SUFFICES ASSUME p \in Pointer
               PROVE  FALSE
    OBVIOUS
  <2> DEFINE c == BlockOf(p)
  <2>1. /\ c \in Block \ {last} /\ c # b /\ next[c] \in Nat /\ next[c] \in Block
        /\ p + live[p].bytes <= next[c]
        /\ c = p - live[p].offset - SIZE_HEADER
        /\ live[p].bytes \in Nat /\ live[p].offset \in Nat
    BY <1>5, Numbers DEF Owned, BlocksTile, BlockOf, TypeOK
  <2>2. b <= c \/ next[c] <= b
    BY <1>3, <2>1 DEF BlocksTile
  <2>3. /\ c <= b \/ next[b] <= c
        /\ next[b] \in Nat /\ c \in Nat
        /\ b + SIZE_HEADER <= next[b]
    BY <1>3, <2>1, Numbers DEF BlocksTile
  <2>4. next'[b] <= next[b]
    BY DEF Taken
  <2> QED
    BY <1>3, <1>4, <2>1, <2>2, <2>3, <2>4 DEF SIZE_HEADER
<1>7. live'[p] = [bytes |-> m, offset |-> offset] /\ BlockOf(p)' = b
  BY <1>1, <1>4 DEF BlockOf, SIZE_HEADER
<1>8. \A q \in Pointer : live'[q] = live[q] /\ BlockOf(q)' = BlockOf(q)
  BY <1>1, <1>6 DEF BlockOf
<1>9. \A q \in pointers :
        /\ BlockOf(q)' \in Block' \ {last} /\ status'[BlockOf(q)'] = "RESERVED"
        /\ q + live'[q].bytes <= next'[BlockOf(q)']
  <2>1. p + m <= next'[b]
    BY <1>3, <1>4 DEF SIZE_HEADER
  <2>2. \A q \in Pointer :
          /\ BlockOf(q) \in Block \ {last, b} /\ status[BlockOf(q)] = "RESERVED"
          /\ q + live[q].bytes <= next[BlockOf(q)]
    BY <1>5 DEF Owned
  <2> QED
    BY <1>3, <1>7, <1>8, <2>1, <2>2
<1>10. \A q, u \in pointers : BlockOf(q)' = BlockOf(u)' => q = u
  BY <1>5, <1>7, <1>8 DEF Owned
<1>11. \A c \in Block' \ {last} :
          status'[c] = "RESERVED" => \E q \in pointers : BlockOf(q)' = c
  <2> SUFFICES ASSUME NEW c \in Block' \ {last}, status'[c] = "RESERVED"
               PROVE  \E q \in pointers : BlockOf(q)' = c
    OBVIOUS
  <2>1. CASE c = b
    BY <2>1, <1>7
  <2>2. CASE c # b
    BY <2>2, <1>3, <1>8 DEF Owned
  <2> QED
    BY <2>1, <2>2
<1>12. Owned'
  BY <1>2, <1>9, <1>10, <1>11 DEF Owned
<1>13. live' \in [pointers -> [bytes : Nat, offset : Nat]] /\ pointers \subseteq Nat
  BY <1>1, <1>4 DEF TypeOK
<1> QED
  BY <1>2, <1>12, <1>13

\* The four cases of my_free are one: a stretch of b and free blocks becomes a free
\* block, and reserved blocks are on both sides of it.
LEMMA FreeIsJoin ==
    ASSUME TypeOK, BlocksTile, NoFreeNeighbours,
           NEW b \in Block \ {last}, status[b] = "RESERVED", Free(b)
    PROVE  \E f \in Block, e \in Block, gone \in SUBSET Block :
              /\ Between(f, e, gone) /\ Join(f, e, gone)
              /\ status[e] = "RESERVED"
              /\ f # first => status[prev[f]] = "RESERVED"
              /\ \A c \in gone \cup {f} : c = b \/ status[c] = "FREE"
              /\ b \in gone \cup {f}
<1> DEFINE l == prev[b]
           r == next[b]
<1>1. r \in Block /\ r # 0 /\ prev[r] = b
  BY Numbers DEF BlocksTile
<1>2. IsFree(r) => /\ status[r] = "FREE" /\ r \in Block \ {last}
                   /\ next[r] \in Block /\ status[next[r]] = "RESERVED"
  BY <1>1 DEF IsFree, BlocksTile, NoFreeNeighbours
<1>3. ~IsFree(r) => status[r] = "RESERVED"
  BY <1>1 DEF IsFree, TypeOK
<1>4. IsFree(l) => /\ status[l] = "FREE" /\ l \in Block \ {last} /\ next[l] = b
                   /\ l # first => status[prev[l]] = "RESERVED"
  <2> SUFFICES ASSUME IsFree(l)
               PROVE  /\ status[l] = "FREE" /\ l \in Block \ {last} /\ next[l] = b
                      /\ l # first => status[prev[l]] = "RESERVED"
    OBVIOUS
  <2>1. b # first /\ status[l] = "FREE"
    BY DEF IsFree, BlocksTile
  <2>2. l \in Block /\ next[l] = b /\ l # last
    BY <2>1, Numbers DEF BlocksTile
  <2>3. ASSUME l # first
        PROVE  status[prev[l]] = "RESERVED"
    <3>1. prev[l] \in Block \ {last} /\ next[prev[l]] = l
      BY <2>2, <2>3, Numbers DEF BlocksTile
    <3> QED
      BY <2>1, <3>1 DEF NoFreeNeighbours, TypeOK
  <2> QED
    BY <2>1, <2>2, <2>3
<1>5. ~IsFree(l) => (b # first => status[l] = "RESERVED")
  BY Numbers DEF IsFree, BlocksTile, TypeOK
<1>6. CASE IsFree(l) /\ IsFree(r)
  <2>1. Join(l, next[r], {b, r})
    <3>1. {c \in {b} : IsFree(l)} \cup {c \in {r} : IsFree(r)} = {b, r}
      BY <1>6
    <3> QED
      BY <1>6, <3>1 DEF Free
  <2>2. Between(l, next[r], {b, r})
    BY <1>2, <1>4, <1>6, TwoBetween
  <2>3. next[r] \in Block /\ l \in Block /\ {b, r} \in SUBSET Block
    BY <1>1, <1>2, <1>4, <1>6
  <2> QED
    BY <1>2, <1>4, <1>6, <2>1, <2>2, <2>3
<1>7. CASE IsFree(l) /\ ~IsFree(r)
  <2>1. Join(l, r, {b})
    <3>1. {c \in {b} : IsFree(l)} \cup {c \in {r} : IsFree(r)} = {b}
      BY <1>7
    <3> QED
      BY <1>7, <3>1 DEF Free
  <2>2. Between(l, r, {b})
    BY <1>4, <1>7, OneBetween
  <2>3. r \in Block /\ l \in Block /\ {b} \in SUBSET Block
    BY <1>1, <1>4, <1>7
  <2> QED
    BY <1>3, <1>4, <1>7, <2>1, <2>2, <2>3
<1>8. CASE ~IsFree(l) /\ IsFree(r)
  <2>1. Join(b, next[r], {r})
    <3>1. {c \in {b} : IsFree(l)} \cup {c \in {r} : IsFree(r)} = {r}
      BY <1>8
    <3> QED
      BY <1>8, <3>1 DEF Free
  <2>2. Between(b, next[r], {r})
    BY <1>2, <1>8, OneBetween
  <2>3. next[r] \in Block /\ b \in Block /\ {r} \in SUBSET Block
    BY <1>1, <1>2, <1>8
  <2> QED
    BY <1>2, <1>5, <1>8, <2>1, <2>2, <2>3
<1>9. CASE ~IsFree(l) /\ ~IsFree(r)
  <2>1. Join(b, r, {})
    <3>1. {c \in {b} : IsFree(l)} \cup {c \in {r} : IsFree(r)} = {}
      BY <1>9
    <3> QED
      BY <1>9, <3>1 DEF Free
  <2>2. Between(b, r, {})
    BY Neighbours
  <2>3. r \in Block /\ b \in Block /\ {} \in SUBSET Block
    BY <1>1
  <2> QED
    BY <1>3, <1>5, <1>9, <2>1, <2>2, <2>3
<1> QED
  BY <1>6, <1>7, <1>8, <1>9

LEMMA FreeStep ==
    ASSUME TypeOK, BlocksTile, NoFreeNeighbours, Owned, NEW p \in Pointer,
           Free(BlockOf(p)), Drop(p)
    PROVE  /\ ListOK' /\ NoFreeNeighbours' /\ Owned'
           /\ live' \in [Pointer' -> [bytes : Nat, offset : Nat]]
           /\ Pointer' = Pointer \ {p}
<1> DEFINE b == BlockOf(p)
           pointers == Pointer \ {p}
<1>1. b \in Block \ {last} /\ status[b] = "RESERVED"
  BY DEF Owned
<1>2. PICK f \in Block, e \in Block, gone \in SUBSET Block :
              /\ Between(f, e, gone) /\ Join(f, e, gone)
              /\ status[e] = "RESERVED"
              /\ f # first => status[prev[f]] = "RESERVED"
              /\ \A c \in gone \cup {f} : c = b \/ status[c] = "FREE"
              /\ b \in gone \cup {f}
  BY <1>1, FreeIsJoin
<1>3. ListOK' /\ Block' = Block \ gone
  BY <1>2, JoinTiles
<1>4. /\ NoFreeNeighbours'
      /\ f \in Block' /\ status'[f] = "FREE"
      /\ \A c \in Block' \ {f} : next'[c] = next[c] /\ status'[c] = status[c]
  BY <1>2, JoinSeparates
<1>5. live' = [q \in pointers |-> live[q]]
  BY DEF Drop
<1>6. Pointer' = pointers /\ \A q \in pointers : live'[q] = live[q] /\ BlockOf(q)' = BlockOf(q)
  BY <1>5 DEF Pointer, BlockOf
<1>7. \A q \in pointers : BlockOf(q) \in Block \ {last, b} /\ status[BlockOf(q)] = "RESERVED"
  BY DEF Owned
<1>8. \A q \in pointers : BlockOf(q) \in Block' \ {f}
  BY <1>2, <1>3, <1>7
<1>9. \A q \in pointers :
        /\ BlockOf(q) \in Block' \ {last} /\ status'[BlockOf(q)] = "RESERVED"
        /\ q + live[q].bytes <= next'[BlockOf(q)]
  BY <1>4, <1>7, <1>8 DEF Owned
<1>10. \A c \in Block' \ {last} :
          status'[c] = "RESERVED" => \E q \in pointers : BlockOf(q) = c
  <2> SUFFICES ASSUME NEW c \in Block' \ {last}, status'[c] = "RESERVED"
               PROVE  \E q \in pointers : BlockOf(q) = c
    OBVIOUS
  <2>1. c \in Block \ {last} /\ status[c] = "RESERVED" /\ c # b
    BY <1>2, <1>3, <1>4
  <2> QED
    BY <2>1 DEF Owned
<1>11. Owned'
  BY <1>6, <1>9, <1>10 DEF Owned
<1>12. live' \in [pointers -> [bytes : Nat, offset : Nat]]
  BY <1>5 DEF TypeOK
<1> QED
  BY <1>3, <1>4, <1>6, <1>11, <1>12

LEMMA InitInv == Init => HeapInv
<1> SUFFICES ASSUME Init
             PROVE  HeapInv
  OBVIOUS
<1>1. Block = {first, last} /\ Pointer = {} /\ doomed = {} /\ intact = TRUE
  BY DEF Init, Block, Pointer
<1>2. /\ next[first] = last /\ next[last] = 0 /\ prev[first] = 0 /\ prev[last] = first
      /\ status[first] = "FREE" /\ status[last] = "RESERVED"
  BY Numbers DEF Init
<1>3. TypeOK
  BY <1>1, Numbers DEF TypeOK, Init
<1>4. BlocksTile
  BY <1>1, <1>2, Numbers, HeapAssumption DEF BlocksTile
<1> QED
  BY <1>1, <1>2, <1>3, <1>4 DEF HeapInv, NoFreeNeighbours, Owned, CopyStaysInside

\* HeapInv', put together from what is said of the list and of the pointers.
LEMMA Together ==
    ASSUME ListOK', NoFreeNeighbours', Owned',
           live' \in [Pointer' -> [bytes : Nat, offset : Nat]], Pointer' \subseteq Nat,
           doomed' \subseteq Pointer', intact' = TRUE
    PROVE  HeapInv'
  BY DEF ListOK, HeapInv, TypeOK, CopyStaysInside

LEMMA AllocStep ==
    ASSUME HeapInv, NEW n \in Request, Alloc(n)
    PROVE  HeapInv'
<1>1. PICK b \in FirstFit(RoundUp(n)) :
        Take(b, RoundUp(n)) /\ Give(b + SIZE_HEADER, n, 0)
  BY DEF Alloc
<1>2. n \in Nat /\ RoundUp(n) \in Nat /\ n <= RoundUp(n)
  BY HeapAssumption, RoundUpBound
<1>3. b \in Fit(RoundUp(n)) /\ b \in Nat
  BY Numbers DEF FirstFit, Fit, HeapInv
<1>4. Taken(b, RoundUp(n))
  BY <1>1, <1>2, <1>3, TakeStep DEF HeapInv
<1>5. Give(b + SIZE_HEADER + 0, n, 0) /\ n + 0 <= RoundUp(n)
  BY <1>1, <1>2, <1>3 DEF SIZE_HEADER
<1>6. /\ Owned'
      /\ live' \in [Pointer' -> [bytes : Nat, offset : Nat]]
      /\ Pointer' \subseteq Nat
      /\ Pointer \subseteq Pointer'
  BY <1>2, <1>4, <1>5, GiveStep DEF HeapInv
<1> QED
  BY <1>4, <1>6, Together DEF Taken, Alloc, HeapInv, TypeOK, CopyStaysInside

LEMMA AlignAllocStep ==
    ASSUME HeapInv, NEW n \in Request, NEW align \in Alignment, AlignAlloc(align, n)
    PROVE  HeapInv'
<1>1. PICK b \in FirstFit(RoundUp(n + align)) :
        LET offset == OffsetOf(b + SIZE_HEADER, align)
        IN  Take(b, RoundUp(n + align)) /\ Give(b + SIZE_HEADER + offset, n, offset)
  BY DEF AlignAlloc
<1> DEFINE offset == OffsetOf(b + SIZE_HEADER, align)
<1>2. n \in Nat /\ align \in Nat \ {0} /\ RoundUp(n + align) \in Nat /\ n + align <= RoundUp(n + align)
  <2>1. n \in Nat /\ align \in Nat \ {0} /\ n + align \in Nat
    BY HeapAssumption
  <2> QED
    BY <2>1, RoundUpBound
<1>3. b \in Fit(RoundUp(n + align)) /\ b \in Nat
  BY Numbers DEF FirstFit, Fit, HeapInv
<1>4. Taken(b, RoundUp(n + align))
  BY <1>1, <1>2, <1>3, TakeStep DEF HeapInv
<1>5. offset \in Nat /\ offset < align
  <2>1. b + SIZE_HEADER \in Nat
    BY <1>3 DEF SIZE_HEADER
  <2> QED
    BY <1>2, <2>1, OffsetBound
<1>6. Give(b + SIZE_HEADER + offset, n, offset) /\ n + offset <= RoundUp(n + align)
  <2> HIDE DEF offset
  <2>1. n + offset <= RoundUp(n + align)
    BY <1>2, <1>5
  <2> QED
    BY <1>1, <2>1 DEF offset
<1>7. /\ Owned'
      /\ live' \in [Pointer' -> [bytes : Nat, offset : Nat]]
      /\ Pointer' \subseteq Nat
      /\ Pointer \subseteq Pointer'
  <2> HIDE DEF offset
  <2> QED
    BY <1>2, <1>4, <1>5, <1>6, GiveStep DEF HeapInv
<1> QED
  BY <1>4, <1>7, Together DEF Taken, AlignAlloc, HeapInv, TypeOK, CopyStaysInside

LEMMA DeAllocStep ==
    ASSUME HeapInv, NEW p \in Pointer, DeAlloc(p) \/ ReallocFree(p)
    PROVE  HeapInv'
<1>1. Free(BlockOf(p)) /\ Drop(p) /\ intact' = intact
  BY DEF DeAlloc, ReallocFree
<1>2. /\ ListOK' /\ NoFreeNeighbours' /\ Owned'
      /\ live' \in [Pointer' -> [bytes : Nat, offset : Nat]]
      /\ Pointer' = Pointer \ {p}
  BY <1>1, FreeStep DEF HeapInv
<1>3. doomed' \subseteq Pointer'
  BY <1>2 DEF DeAlloc, ReallocFree, HeapInv, TypeOK
<1>4. Pointer' \subseteq Nat
  BY <1>2 DEF HeapInv, TypeOK
<1> QED
  BY <1>1, <1>2, <1>3, <1>4, Together DEF HeapInv, CopyStaysInside

\* What Drv_realloc works with, for a pointer at the start of its block.
LEMMA ReallocNumbers ==
    ASSUME HeapInv, ~ReallocAligned, NEW p \in Pointer, NEW n \in Request, Resizable(p, n)
    PROVE  /\ BlockOf(p) \in Block \ {last} /\ BlockOf(p) \in Nat
           /\ next[BlockOf(p)] \in Block /\ next[BlockOf(p)] \in Nat
           /\ status[BlockOf(p)] = "RESERVED"
           /\ p = BlockOf(p) + SIZE_HEADER
           /\ live[p].offset = 0
           /\ n \in Nat /\ Need(n) \in Nat /\ n <= Need(n) /\ Length(p, n) = Need(n)
<1>1. p \in Nat /\ live[p].offset = 0 /\ n \in Nat
  BY HeapAssumption DEF HeapInv, TypeOK, Resizable
<1>2. BlockOf(p) \in Block \ {last} /\ status[BlockOf(p)] = "RESERVED"
  BY DEF HeapInv, Owned
<1>3. p = BlockOf(p) + SIZE_HEADER
  BY <1>1 DEF BlockOf, SIZE_HEADER
<1>4. Need(n) \in Nat /\ n <= Need(n)
  BY <1>1, RoundUpBound DEF Need
<1>5. Length(p, n) = Need(n)
  <2>1. Need(n) + live[p].offset = RoundUp(n)
    BY <1>1, <1>4 DEF Need
  <2> QED
    BY <1>1, <2>1, RoundUpTwice DEF Need, Length
<1> QED
  BY <1>1, <1>2, <1>3, <1>4, <1>5, Numbers DEF HeapInv, BlocksTile

LEMMA ReallocStayStep ==
    ASSUME HeapInv, ~ReallocAligned, NEW p \in Pointer, NEW n \in Request, ReallocStay(p, n)
    PROVE  HeapInv'
<1> DEFINE b == BlockOf(p)
<1>1. /\ b \in Block \ {last} /\ b \in Nat /\ next[b] \in Nat
      /\ p = b + SIZE_HEADER /\ live[p].offset = 0
      /\ n \in Nat /\ Need(n) \in Nat /\ n <= Need(n)
  BY ReallocNumbers DEF ReallocStay
<1>2. p + n <= next[b]
  BY <1>1 DEF ReallocStay, Enough, Size, SIZE_HEADER
<1>3. /\ live' = [live EXCEPT ![p].bytes = n]
      /\ UNCHANGED <<prev, next, status, doomed, intact>>
  BY DEF ReallocStay, list
<1>4. /\ Pointer' = Pointer /\ live'[p].bytes = n
      /\ \A q \in Pointer : q # p => live'[q] = live[q]
      /\ \A q \in Pointer : live'[q].offset = live[q].offset
      /\ live' \in [Pointer -> [bytes : Nat, offset : Nat]]
  BY <1>1, <1>3 DEF Pointer, HeapInv, TypeOK
<1>5. Block' = Block /\ \A q \in Pointer : BlockOf(q)' = BlockOf(q)
  BY <1>3, <1>4 DEF Block, BlockOf
<1>6. Owned'
  BY <1>2, <1>3, <1>4, <1>5 DEF HeapInv, Owned
<1> QED
  BY <1>3, <1>4, <1>5, <1>6 DEF HeapInv, TypeOK, BlocksTile, NoFreeNeighbours, CopyStaysInside

LEMMA ReallocGrowStep ==
    ASSUME HeapInv, ~ReallocAligned, NEW p \in Pointer, NEW n \in Request, ReallocGrow(p, n)
    PROVE  HeapInv'
<1> DEFINE b == BlockOf(p)
           m == next[b]
           r == next[m]
           h == b + SIZE_HEADER + Length(p, n)
<1>1. /\ b \in Block \ {last} /\ b \in Nat /\ m \in Block /\ m \in Nat
      /\ status[b] = "RESERVED"
      /\ p = b + SIZE_HEADER /\ live[p].offset = 0
      /\ n \in Nat /\ Need(n) \in Nat /\ n <= Need(n) /\ Length(p, n) = Need(n)
  BY ReallocNumbers DEF ReallocGrow
<1>2. status[m] = "FREE" /\ m # last
  BY DEF ReallocGrow, Growable, IsFree, HeapInv, BlocksTile
<1>3. r \in Block /\ r \in Nat /\ status[r] = "RESERVED" /\ m + SIZE_HEADER <= r
  BY <1>1, <1>2, Numbers DEF HeapInv, BlocksTile, NoFreeNeighbours
<1>4. Need(n) <= (m - b - SIZE_HEADER) + (r - m - SIZE_HEADER)
  BY <1>1 DEF ReallocGrow, Growable, Bsize, Size
<1>5. h \in Nat /\ b + SIZE_HEADER <= h /\ h + SIZE_HEADER <= r
  BY <1>1, <1>3, <1>4 DEF SIZE_HEADER
<1>6. Cut(b, h, r, {m}) /\ Between(b, r, {m})
  BY <1>1, <1>2, OneBetween DEF ReallocGrow, HeapInv
<1>7. ListOK' /\ Block' = (Block \ {m}) \cup {h}
  BY <1>5, <1>6, CutTiles DEF HeapInv
<1>8. /\ NoFreeNeighbours'
      /\ h \notin Block \ {m} /\ b \in Block' /\ b # m /\ h # last
      /\ next'[b] = h /\ status'[b] = "RESERVED" /\ status'[h] = "FREE"
      /\ \A c \in Block' \ {h, b} : next'[c] = next[c] /\ status'[c] = status[c]
  BY <1>3, <1>5, <1>6, CutSeparates DEF HeapInv
<1>9. /\ live' = [live EXCEPT ![p].bytes = n]
      /\ UNCHANGED <<doomed, intact>>
  BY DEF ReallocGrow
<1>10. /\ Pointer' = Pointer /\ live'[p].bytes = n
       /\ \A q \in Pointer : q # p => live'[q] = live[q]
       /\ \A q \in Pointer : live'[q].offset = live[q].offset
       /\ live' \in [Pointer -> [bytes : Nat, offset : Nat]]
  BY <1>1, <1>9 DEF Pointer, HeapInv, TypeOK
<1>11. \A q \in Pointer : BlockOf(q)' = BlockOf(q)
  BY <1>10 DEF BlockOf
<1>12. \A q \in Pointer : /\ BlockOf(q) \in Block' \ {last, h}
                          /\ status[BlockOf(q)] = "RESERVED"
  <2> SUFFICES ASSUME NEW q \in Pointer
               PROVE  /\ BlockOf(q) \in Block' \ {last, h}
                      /\ status[BlockOf(q)] = "RESERVED"
    OBVIOUS
  <2>1. BlockOf(q) \in Block \ {last} /\ status[BlockOf(q)] = "RESERVED"
    BY DEF HeapInv, Owned
  <2> QED
    BY <2>1, <1>2, <1>7, <1>8
<1>13. p + n <= h
  BY <1>1 DEF SIZE_HEADER
<1>14. \A q \in Pointer :
          /\ BlockOf(q) \in Block' \ {last} /\ status'[BlockOf(q)] = "RESERVED"
          /\ q + live'[q].bytes <= next'[BlockOf(q)]
  <2> SUFFICES ASSUME NEW q \in Pointer
               PROVE  /\ BlockOf(q) \in Block' \ {last} /\ status'[BlockOf(q)] = "RESERVED"
                      /\ q + live'[q].bytes <= next'[BlockOf(q)]
    OBVIOUS
  <2>1. CASE q = p
    BY <2>1, <1>8, <1>10, <1>12, <1>13
  <2>2. CASE q # p
    <3>1. BlockOf(q) # b /\ q + live[q].bytes <= next[BlockOf(q)]
      BY <2>2 DEF HeapInv, Owned
    <3> QED
      BY <2>2, <3>1, <1>8, <1>10, <1>12
  <2> QED
    BY <2>1, <2>2
<1>15. \A c \in Block' \ {last} :
          status'[c] = "RESERVED" => \E q \in Pointer : BlockOf(q) = c
  BY <1>7, <1>8 DEF HeapInv, Owned
<1>16. Owned'
  <2>1. \A q, u \in Pointer : BlockOf(q) = BlockOf(u) => q = u
    BY DEF HeapInv, Owned
  <2> QED
    BY <2>1, <1>10, <1>11, <1>14, <1>15 DEF Owned
<1> QED
  BY <1>7, <1>8, <1>9, <1>10, <1>16, Together DEF HeapInv, TypeOK, CopyStaysInside

\* The copy: the old block was too small, and so were it and its free neighbour.
LEMMA ReallocMoveStep ==
    ASSUME HeapInv, ~ReallocAligned, NEW p \in Pointer, NEW n \in Request, ReallocMove(p, n)
    PROVE  HeapInv'
<1> DEFINE old == BlockOf(p)
           need == Need(n)
<1>1. /\ old \in Block \ {last} /\ old \in Nat
      /\ next[old] \in Block /\ next[old] \in Nat
      /\ p = old + SIZE_HEADER /\ live[p].offset = 0
      /\ n \in Nat /\ need \in Nat /\ n <= need /\ Length(p, n) = need
  BY ReallocNumbers DEF ReallocMove
<1>2. PICK b \in FirstFit(need) :
        /\ Take(b, need)
        /\ Give(b + SIZE_HEADER + 0, n, 0)
        /\ intact' = (b + SIZE_HEADER + 0 + Bsize(old) <= next'[b])
  BY <1>1 DEF ReallocMove
<1>3. b \in Fit(need) /\ b \in Nat
  BY Numbers DEF FirstFit, Fit, HeapInv
<1>4. Taken(b, need)
  BY <1>1, <1>2, <1>3, TakeStep DEF HeapInv
<1>5. /\ Owned'
      /\ live' \in [Pointer' -> [bytes : Nat, offset : Nat]]
      /\ Pointer' \subseteq Nat
      /\ Pointer \subseteq Pointer'
  <2>1. n + 0 <= need /\ n \in Nat /\ need \in Nat
    BY <1>1
  <2>2. TypeOK /\ BlocksTile /\ Owned
    BY DEF HeapInv
  <2> HIDE DEF need, old
  <2> QED
    BY <1>2, <1>4, <2>1, <2>2, GiveStep
<1>6. Bsize(old) \in Int /\ Bsize(old) < need
  <2>1. Size(old) \in Int /\ Size(old) < need
    BY <1>1 DEF ReallocMove, Enough, Size, SIZE_HEADER
  <2>2. CASE IsFree(next[old])
    <3>1. ~(Bsize(old) >= need + 0)
      BY <1>1, <2>2 DEF ReallocMove, Growable
    <3>2. next[next[old]] \in Nat
      BY <1>1 DEF HeapInv, TypeOK
    <3>3. Bsize(old) \in Int
      BY <1>1, <2>1, <2>2, <3>2 DEF Bsize, Size, SIZE_HEADER
    <3> QED
      BY <1>1, <3>1, <3>3
  <2>3. CASE ~IsFree(next[old])
    BY <2>1, <2>3 DEF Bsize
  <2> QED
    BY <2>2, <2>3
<1>7. intact' = TRUE
  <2>1. b + SIZE_HEADER + need <= next'[b] /\ next'[b] \in Nat
    BY <1>4 DEF Taken, ListOK
  <2>2. b + SIZE_HEADER + 0 + Bsize(old) <= next'[b]
    BY <1>1, <1>3, <1>6, <2>1 DEF SIZE_HEADER
  <2> QED
    BY <1>2, <2>2
<1>8. doomed' \subseteq Pointer'
  BY <1>5 DEF ReallocMove, HeapInv, TypeOK
<1> QED
  BY <1>4, <1>5, <1>7, <1>8, Together DEF Taken

LEMMA NextStep == ~ReallocAligned /\ HeapInv /\ [Next]_vars => HeapInv'
<1> SUFFICES ASSUME ~ReallocAligned, HeapInv, [Next]_vars
             PROVE  HeapInv'
  OBVIOUS
<1>1. ASSUME NEW n \in Request, Alloc(n)
      PROVE  HeapInv'
  BY <1>1, AllocStep
<1>2. ASSUME NEW n \in Request, NEW align \in Alignment, AlignAlloc(align, n)
      PROVE  HeapInv'
  BY <1>2, AlignAllocStep
<1>3. ASSUME NEW n \in Request, NEW p \in Pointer,
             ReallocStay(p, n) \/ ReallocGrow(p, n) \/ ReallocMove(p, n)
      PROVE  HeapInv'
  BY <1>3, ReallocStayStep, ReallocGrowStep, ReallocMoveStep
<1>4. ASSUME NEW p \in Pointer, DeAlloc(p) \/ ReallocFree(p)
      PROVE  HeapInv'
  BY <1>4, DeAllocStep
<1>5. CASE UNCHANGED vars
  BY <1>5 DEF vars, list, HeapInv, TypeOK, BlocksTile, NoFreeNeighbours, Owned,
              CopyStaysInside, Block, Pointer, BlockOf
<1> QED
  BY <1>1, <1>2, <1>3, <1>4, <1>5 DEF Next

\* Whatever sequence of calls is made, of any sizes, on a heap of any length, the
\* list of DrvMemMgr.c is well formed and every reserved block has one owner.
THEOREM Invariance == ~ReallocAligned => (Spec => []HeapInv)
<1> SUFFICES ASSUME ~ReallocAligned
             PROVE  Spec => []HeapInv
  OBVIOUS
<1>1. HeapInv /\ [Next]_vars => HeapInv'
  BY NextStep
<1> QED
  BY <1>1, InitInv, PTL DEF Spec

\* The blocks cover the heap without gaps or overlaps, linked both ways (my_free,
\* currentNodeAlloc and the split of Drv_realloc).
THEOREM Tiling == ~ReallocAligned => (Spec => []BlocksTile)
<1>1. HeapInv => BlocksTile
  BY DEF HeapInv
<1> QED
  BY <1>1, Invariance, PTL

\* my_free leaves no two free blocks side by side.
THEOREM Merged == ~ReallocAligned => (Spec => []NoFreeNeighbours)
<1>1. HeapInv => NoFreeNeighbours
  BY DEF HeapInv
<1> QED
  BY <1>1, Invariance, PTL

\* The memcpy of Drv_realloc stays inside the new block.
THEOREM CopySafe == ~ReallocAligned => (Spec => []CopyStaysInside)
<1>1. HeapInv => CopyStaysInside
  BY DEF HeapInv
<1> QED
  BY <1>1, Invariance, PTL

LEMMA OwnedApart == HeapInv => PointersApart
<1> SUFFICES ASSUME HeapInv
             PROVE  PointersApart
  OBVIOUS
<1>1. \A p \in Pointer :
        /\ p \in Nat /\ live[p].bytes \in Nat /\ live[p].offset \in Nat
        /\ BlockOf(p) \in Block \ {last} /\ BlockOf(p) \in Nat
        /\ BlockOf(p) + SIZE_HEADER <= p
        /\ next[BlockOf(p)] \in Nat
        /\ p + live[p].bytes <= next[BlockOf(p)]
  <2> SUFFICES ASSUME NEW p \in Pointer
               PROVE  /\ p \in Nat /\ live[p].bytes \in Nat /\ live[p].offset \in Nat
                      /\ BlockOf(p) \in Block \ {last} /\ BlockOf(p) \in Nat
                      /\ BlockOf(p) + SIZE_HEADER <= p
                      /\ next[BlockOf(p)] \in Nat
                      /\ p + live[p].bytes <= next[BlockOf(p)]
    OBVIOUS
  <2>1. p \in Nat /\ live[p].bytes \in Nat /\ live[p].offset \in Nat
    BY DEF HeapInv, TypeOK
  <2>2. BlockOf(p) \in Block \ {last} /\ p + live[p].bytes <= next[BlockOf(p)]
    BY DEF HeapInv, Owned
  <2>3. BlockOf(p) \in Nat /\ next[BlockOf(p)] \in Nat
    BY <2>2, Numbers DEF HeapInv, TypeOK
  <2>4. BlockOf(p) + SIZE_HEADER <= p
    BY <2>1 DEF BlockOf, SIZE_HEADER
  <2> QED
    BY <2>1, <2>2, <2>3, <2>4
<1>2. \A b \in Block \ {last}, c \in Block : c <= b \/ next[b] <= c
  BY DEF HeapInv, BlocksTile
<1>3. \A p \in Pointer, b \in Block : p + live[p].bytes <= b \/ b + SIZE_HEADER <= p
  <2> SUFFICES ASSUME NEW p \in Pointer, NEW b \in Block
               PROVE  p + live[p].bytes <= b \/ b + SIZE_HEADER <= p
    OBVIOUS
  <2> DEFINE c == BlockOf(p)
  <2>1. /\ b \in Nat /\ c \in Nat /\ next[c] \in Nat /\ p \in Nat /\ live[p].bytes \in Nat
        /\ c + SIZE_HEADER <= p /\ p + live[p].bytes <= next[c]
    BY <1>1, Numbers DEF HeapInv
  <2>2. b <= c \/ next[c] <= b
    BY <1>1, <1>2
  <2> HIDE DEF c
  <2> QED
    BY <2>1, <2>2 DEF SIZE_HEADER
<1>4. \A p, q \in Pointer :
        p # q => p + live[p].bytes <= q \/ q + live[q].bytes <= p
  <2> SUFFICES ASSUME NEW p \in Pointer, NEW q \in Pointer, p # q
               PROVE  p + live[p].bytes <= q \/ q + live[q].bytes <= p
    OBVIOUS
  <2> DEFINE c == BlockOf(p)
             d == BlockOf(q)
  <2>1. /\ c \in Nat /\ next[c] \in Nat /\ p \in Nat /\ live[p].bytes \in Nat
        /\ c + SIZE_HEADER <= p /\ p + live[p].bytes <= next[c]
        /\ d \in Nat /\ next[d] \in Nat /\ q \in Nat /\ live[q].bytes \in Nat
        /\ d + SIZE_HEADER <= q /\ q + live[q].bytes <= next[d]
    BY <1>1
  <2>2. c # d
    BY DEF HeapInv, Owned
  <2>3. (d <= c \/ next[c] <= d) /\ (c <= d \/ next[d] <= c)
    BY <1>1, <1>2
  <2> HIDE DEF c, d
  <2> QED
    BY <2>1, <2>2, <2>3 DEF SIZE_HEADER
<1> QED
  BY <1>3, <1>4 DEF PointersApart

\* What callers were given never overlaps, nor touches a header of the list: alloc,
\* alignAlloc with any alignment, and Drv_realloc in each of its three ways.
THEOREM Disjointness == ~ReallocAligned => (Spec => []PointersApart)
  BY Invariance, OwnedApart, PTL

LEMMA OwnedWhole == HeapInv => NothingLost
<1> SUFFICES ASSUME HeapInv, Pointer = {}
             PROVE  Block = {first, last} /\ status[first] = "FREE"
  BY DEF NothingLost
<1>1. \A b \in Block \ {last} : status[b] = "FREE"
  BY DEF HeapInv, TypeOK, Owned
<1>2. first \in Block \ {last} /\ last \in Block
  BY Numbers DEF HeapInv, BlocksTile
<1>3. next[first] = last
  BY <1>1, <1>2 DEF HeapInv, BlocksTile, NoFreeNeighbours
<1>4. \A c \in Block : c <= first \/ last <= c
  BY <1>2, <1>3 DEF HeapInv, BlocksTile
<1>5. \A c \in Block : c \in {first, last}
  BY <1>4, Numbers DEF HeapInv
<1> QED
  BY <1>1, <1>2, <1>5

\* After any sequence of calls at the end of which nothing is in use, all of the heap is
\* one free block again.
THEOREM NoLeak == ~ReallocAligned => (Spec => []NothingLost)
  BY Invariance, OwnedWhole, PTL
================================================================================

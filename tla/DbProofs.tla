------------------------------ MODULE DbProofs ------------------------------
(***************************************************************************)
(* Theorems about Db: for every number of objects, every sizes and every   *)
(* geometry of the bitmap, no two objects ever share a block, the bitmap   *)
(* covers every block it is asked about, and Db implements ObjectMap.      *)
(***************************************************************************)
EXTENDS Db, WellFoundedInduction, TLAPS

-----------------------------------------------------------------------------
(***************************************************************************)
(* Arithmetic.                                                             *)
(***************************************************************************)

\* A set of numbers has a least element: what FirstFit chooses.
LEMMA MinInSet ==
  ASSUME NEW S \in SUBSET Nat, S # {}
  PROVE  Min(S) \in S /\ \A y \in S : Min(S) <= y
<1> DEFINE R == OpToRel(<, Nat)
<1>1. IsWellFoundedOn(R, Nat)
  BY NatLessThanWellFounded
<1>2. PICK x \in S : \A y \in S : ~ (<<y, x>> \in R)
  <2> HIDE DEF R
  <2> QED  BY <1>1, WFMin
<1>3. \A y \in S : x <= y
  <2> TAKE y \in S
  <2>1. <<y, x>> \in Nat \X Nat /\ <<y, x>> \notin R
    BY <1>2
  <2>2. ~(y < x)
    BY <2>1 DEF OpToRel
  <2> QED  BY <2>2
<1> QED  BY <1>3 DEF Min

\* A bounded set of numbers has a greatest element: the last block in use.
LEMMA MaxInSet ==
  ASSUME NEW n \in Nat, NEW S \in SUBSET (0 .. n), S # {}
  PROVE  Max(S) \in S /\ \A y \in S : y <= Max(S)
<1> DEFINE T == {n - x : x \in S}
<1>1. T \in SUBSET Nat
  OBVIOUS
<1>0. T # {}
  OBVIOUS
<1>2. Min(T) \in T /\ \A y \in T : Min(T) <= y
  <2> HIDE DEF T
  <2> QED  BY <1>0, <1>1, MinInSet
<1>3. PICK x \in S : Min(T) = n - x
  BY <1>2
<1>4. \A y \in S : y <= x
  <2> TAKE y \in S
  <2>1. n - x <= n - y
    BY <1>2, <1>3
  <2> QED  BY <2>1
<1> QED  BY <1>4 DEF Max

\* The growth of the bitmap: beyond the block asked for, in whole bytes.
LEMMA GrownBeyond ==
  ASSUME NEW blocks \in Nat, NEW b \in Nat, DB_BITBLOCK \in Nat \ {0}
  PROVE  /\ Grown(blocks, b) \in Nat
         /\ b < Grown(blocks, b)
         /\ blocks <= Grown(blocks, b)
<1>1. CASE b < blocks
  BY <1>1 DEF Grown
<1>2. CASE ~(b < blocks)
  <2> DEFINE x == b - blocks
             q == x \div DB_BITBLOCK
  <2>1. x \in Nat
    BY <1>2
  <2>2. q \in Nat
    BY <2>1
  <2>3. x < DB_BITBLOCK * (q + 1)
    BY <2>1
  <2>4. DB_BITBLOCK * (q + 1) \in Nat
    BY <2>2
  <2>5. Grown(blocks, b) = blocks + DB_BITBLOCK * (q + 1)
    BY <1>2 DEF Grown
  <2> HIDE DEF q
  <2> QED  BY <2>1, <2>3, <2>4, <2>5
<1> QED  BY <1>1, <1>2

\* A multiple of a whole number plus a multiple of it is one too.
LEMMA WholeSum ==
  ASSUME NEW a \in Nat, NEW b \in Nat, NEW k \in Nat, NEW m \in Nat \ {0},
         a % m = 0, b % m = 0
  PROVE  (a + b * k) % m = 0
<1>1. PICK p \in Nat : a = p * m
  OBVIOUS
<1>2. PICK q \in Nat : b = q * m
  OBVIOUS
<1> DEFINE n == p + q * k
<1>3. n \in Nat
  OBVIOUS
<1>4. (q * m) * k = (q * k) * m
  OBVIOUS
<1>5. n * m = p * m + (q * k) * m
  OBVIOUS
<1>6. a + b * k = n * m
  BY <1>1, <1>2, <1>4, <1>5
<1> HIDE DEF n
<1>7. (n * m) % m = 0
  BY <1>3, SMTT(30)
<1> QED  BY <1>6, <1>7

\* A bitmap of whole bytes stays one when it grows (db_alloc()).
LEMMA GrownWhole ==
  ASSUME NEW blocks \in Nat, NEW b \in Nat, DB_BITBLOCK \in Nat \ {0}, BYTE \in Nat \ {0},
         blocks % BYTE = 0, DB_BITBLOCK % BYTE = 0
  PROVE  Grown(blocks, b) % BYTE = 0
<1>1. CASE b < blocks
  BY <1>1 DEF Grown
<1>2. CASE ~(b < blocks)
  <2> DEFINE k == (b - blocks) \div DB_BITBLOCK + 1
  <2>1. k \in Nat
    BY <1>2
  <2>2. Grown(blocks, b) = blocks + DB_BITBLOCK * k
    BY <1>2 DEF Grown
  <2> HIDE DEF k
  <2>3. (blocks + DB_BITBLOCK * k) % BYTE = 0
    BY <2>1, WholeSum, ZenonT(30)
  <2> QED  BY <2>2, <2>3
<1> QED  BY <1>1, <1>2

\* Rounding up gives the next multiple, which is no smaller.
LEMMA RoundedUp ==
  ASSUME NEW a \in Nat \ {0}, NEW m \in Nat \ {0}
  PROVE  ROUND_UP(a, m) \in Nat /\ ROUND_UP(a, m) % m = 0 /\ a <= ROUND_UP(a, m)
<1> DEFINE x == (a - 1) - ((a - 1) % m)
<1>1. (a - 1) % m \in 0 .. m - 1
  OBVIOUS
<1>2. x % m = 0
  OBVIOUS
<1>3. x \in Nat
  BY Z3
<1>4. (x + m) % m = 0
  BY <1>2, <1>3
<1>5. ROUND_UP(a, m) = x + m
  BY <1>1 DEF ROUND_UP
<1> QED  BY <1>1, <1>3, <1>4, <1>5
-----------------------------------------------------------------------------
(***************************************************************************)
(* The inductive invariant.  A start that trusts the files needs the index *)
(* on disk to be as good as the one in memory (DiskGood), which it is as   *)
(* long as the clean file exists, because ndbm's two copies then differ    *)
(* only in an object whose deletion has begun (Lag).  A deletion has to    *)
(* know that the blocks it gives back are nobody else's (Removed).         *)
(***************************************************************************)
Separate(idx) ==
  \A d, e \in Dbref :
    idx[d] # NoEntry /\ idx[e] # NoEntry /\ d # e => Run(idx[d]) \cap Run(idx[e]) = {}

Inside(idx, blocks) == \A d \in Dbref : idx[d] # NoEntry => Run(idx[d]) \subseteq blocks

Flags == phase # "down" => db_clean = clean

DiskGood == clean => Separate(indexDisk) /\ Inside(indexDisk, Block)

Lag == clean /\ phase # "down" => \A d \in Dbref : index[d] \in {indexDisk[d], NoEntry}

Resting == phase = "down" => index = NoIndex /\ marked = {} /\ last_free = 0 /\ op = Idle

Removed ==
  op.pc = "dirty" =>
    /\ Run(op.entry) \subseteq marked
    /\ \A d \in Dbref : index[d] # NoEntry => Run(index[d]) \cap Run(op.entry) = {}

\* An object is put only when the clean file is gone.
Dirtied == op.pc = "store" => ~clean

Bitmap ==
  phase # "down" =>
    /\ Inside(index, marked)
    /\ \A b \in marked : b < bitmap_blocks
    /\ last_free < bitmap_blocks
    /\ bitmap_blocks % BYTE = 0

IInv ==
  /\ TypeOK
  /\ Separate(index)
  /\ Bitmap
  /\ Flags
  /\ DiskGood
  /\ Lag
  /\ Resting
  /\ Removed
  /\ Dirtied

\* IInv says what the runs check.
LEMMA Strong == IInv => BlocksDisjoint /\ BitmapCovers
<1>1. IInv => BlocksDisjoint
  BY DEF IInv, BlocksDisjoint, Separate, Indexed
<1>2. IInv => BitmapCovers
  BY DEF IInv, BitmapCovers, Bitmap, Inside, Used, Indexed
<1> QED  BY <1>1, <1>2

\* The invariant holds before the first start.
LEMMA Initially == Init => IInv
<1> USE DbAssumption
<1> SUFFICES ASSUME Init PROVE IInv
  OBVIOUS
<1>1. TypeOK
  BY DEF Init, TypeOK, NoIndex, Phase, Ops, Idle
<1>2. Separate(index) /\ Bitmap /\ Flags /\ DiskGood /\ Lag /\ Resting /\ Removed /\ Dirtied
  BY DEF Init, Separate, Bitmap, Flags, DiskGood, Lag, Resting, Removed, Dirtied, NoIndex, Idle
<1> QED  BY <1>1, <1>2 DEF IInv
-----------------------------------------------------------------------------
\* db_alloc() returns a run of free blocks.
LEMMA FirstFitFree ==
  ASSUME NEW blocks \in Nat, NEW m, \A b \in m : b \in Nat /\ b < blocks,
         NEW last \in Nat, NEW n \in Nat
  PROVE  FirstFit(m, last, blocks, n) \in Nat /\ Free(m, FirstFit(m, last, blocks, n), n)
<1> DEFINE A == {s \in last .. blocks - 1 : Free(m, s, n)}
           B == {s \in 0 .. blocks : Free(m, s, n)}
<1>1. A \in SUBSET Nat /\ B \in SUBSET Nat
  OBVIOUS
<1>2. blocks \in B
  BY DEF Free
<1>3. FirstFit(m, last, blocks, n) = IF A # {} THEN Min(A) ELSE Min(B)
  BY DEF FirstFit
<1>4. A # {} => Min(A) \in A
  <2> HIDE DEF A
  <2> QED  BY <1>1, MinInSet
<1>5. Min(B) \in B
  <2> HIDE DEF B
  <2> QED  BY <1>1, <1>2, MinInSet
<1>6. CASE A # {}
  BY <1>1, <1>3, <1>4, <1>6
<1>7. CASE A = {}
  BY <1>1, <1>3, <1>5, <1>7
<1> QED  BY <1>6, <1>7

\* A run is not empty.
LEMMA RunStarts ==
  ASSUME NEW e \in Entry
  PROVE  e.start \in Run(e) /\ Run(e) \subseteq Nat /\ e.start \in Nat /\ e.size \in Nat \ {0}
BY DbAssumption DEF Run, Entry, Sizes

-----------------------------------------------------------------------------
(***************************************************************************)
(* Each action keeps the invariant.                                        *)
(***************************************************************************)
LEMMA StartTrustingKeeps ==
  ASSUME IInv, StartTrusting
  PROVE  IInv'
<1> USE DbAssumption
<1>1. index' = indexDisk /\ marked' = Used(indexDisk) /\ phase' = "running" /\ db_clean' = TRUE
      /\ clean' = TRUE /\ indexDisk' = indexDisk /\ last_free' = 0 /\ op' = Idle
      /\ file' = file /\ textDump' = textDump
  BY DEF IInv, StartTrusting, files, TypeOK, Resting
<1>2. Separate(indexDisk) /\ Inside(indexDisk, Block) /\ indexDisk \in [Dbref -> Entry \cup {NoEntry}]
  BY DEF IInv, DiskGood, StartTrusting, TypeOK
<1>3. Used(indexDisk) \subseteq Block /\ Inside(indexDisk, Used(indexDisk))
  BY <1>2 DEF Inside, Used, Indexed
<1>4. PICK full \in Nat :
        LET blocks == ROUND_UP(full + DB_BITBLOCK, BYTE)
        IN  bitmap_blocks' =
              IF Used(indexDisk) = {} THEN blocks ELSE Grown(blocks, Max(Used(indexDisk)))
  BY DEF StartTrusting
<1> DEFINE blocks == ROUND_UP(full + DB_BITBLOCK, BYTE)
<1>5. blocks \in Nat /\ blocks % BYTE = 0 /\ 0 < blocks
  BY RoundedUp
<1> HIDE DEF blocks
<1>6. /\ bitmap_blocks' \in Nat
      /\ bitmap_blocks' % BYTE = 0
      /\ 0 < bitmap_blocks'
      /\ \A b \in Used(indexDisk) : b < bitmap_blocks'
  <2>1. CASE Used(indexDisk) = {}
    BY <1>4, <1>5, <2>1 DEF blocks
  <2>2. CASE Used(indexDisk) # {}
    <3>1. Max(Used(indexDisk)) \in Used(indexDisk)
          /\ \A y \in Used(indexDisk) : y <= Max(Used(indexDisk))
      <4>1. MaxBlocks \in Nat /\ Used(indexDisk) \in SUBSET (0 .. MaxBlocks)
        BY <1>3 DEF Block
      <4> QED  BY <4>1, <2>2, MaxInSet
    <3>2. Max(Used(indexDisk)) \in Nat
      BY <3>1, <1>3 DEF Block
    <3>3. bitmap_blocks' = Grown(blocks, Max(Used(indexDisk)))
      BY <1>4, <2>2 DEF blocks
    <3>4. bitmap_blocks' \in Nat /\ Max(Used(indexDisk)) < bitmap_blocks' /\ blocks <= bitmap_blocks'
      BY <3>2, <3>3, <1>5, GrownBeyond
    <3>5. bitmap_blocks' % BYTE = 0
      BY <3>2, <3>3, <1>5, GrownWhole
    <3>6. \A b \in Used(indexDisk) : b \in Nat
      BY <1>3 DEF Block
    <3>7. 0 < bitmap_blocks'
      BY <3>4, <1>5
    <3>8. \A b \in Used(indexDisk) : b < bitmap_blocks'
      <4> TAKE b \in Used(indexDisk)
      <4>1. b \in Nat /\ b <= Max(Used(indexDisk))
        BY <3>1, <3>6
      <4> QED  BY <4>1, <3>2, <3>4
    <3> QED  BY <3>4, <3>5, <3>7, <3>8
  <2> QED  BY <2>1, <2>2
<1>7. TypeOK'
  BY <1>1, <1>2, <1>3, <1>6 DEF IInv, TypeOK, Phase, Ops, Idle
<1>8. Bitmap' /\ Separate(index)'
  BY <1>1, <1>2, <1>3, <1>6 DEF Bitmap, Separate, Inside
<1>9. Flags' /\ DiskGood' /\ Lag' /\ Resting' /\ Removed' /\ Dirtied'
  BY <1>1, <1>2 DEF Flags, DiskGood, Lag, Resting, Removed, Dirtied, Separate, Inside, Idle
<1> QED  BY <1>7, <1>8, <1>9 DEF IInv

\* Emptying the files for a new database keeps the invariant.
LEMMA StartAnewKeeps ==
  ASSUME IInv, StartAnew
  PROVE  IInv'
<1> USE DbAssumption
<1>1. /\ index' = NoIndex /\ indexDisk' = NoIndex /\ marked' = {} /\ last_free' = 0 /\ op' = Idle
      /\ phase' = "opening" /\ db_clean' = TRUE /\ clean' = TRUE /\ textDump' = textDump
      /\ bitmap_blocks' = ROUND_UP(DB_BITBLOCK, BYTE) /\ file' = [b \in Block |-> NoPiece]
  BY DEF IInv, StartAnew, Resting
<1>2. bitmap_blocks' \in Nat /\ bitmap_blocks' % BYTE = 0 /\ 0 < bitmap_blocks'
  BY <1>1, RoundedUp
<1>3. TypeOK'
  BY <1>1, <1>2 DEF IInv, TypeOK, Phase, Ops, Idle, NoIndex
<1>4. Separate(index)' /\ Bitmap' /\ Flags' /\ DiskGood' /\ Lag' /\ Resting' /\ Removed' /\ Dirtied'
  BY <1>1, <1>2 DEF Separate, Bitmap, Flags, DiskGood, Lag, Resting, Removed, Dirtied, Inside, NoIndex, Idle
<1> QED  BY <1>3, <1>4 DEF IInv

\* The process ends, and leaves the files as they are.
LEMMA EndKeeps ==
  ASSUME IInv, End, UNCHANGED files
  PROVE  IInv'
<1>1. /\ index' = NoIndex /\ marked' = {} /\ last_free' = 0 /\ op' = Idle /\ bitmap_blocks' = 0
      /\ phase' = "down" /\ db_clean' = FALSE /\ clean' = clean /\ textDump' = textDump
      /\ file' = file /\ indexDisk' = indexDisk
  BY DEF End, files
<1>2. TypeOK'
  BY <1>1 DEF IInv, TypeOK, Phase, Ops, Idle, NoIndex
<1>3. Separate(index)' /\ Bitmap' /\ Flags' /\ DiskGood' /\ Lag' /\ Resting' /\ Removed' /\ Dirtied'
  BY <1>1 DEF IInv, Separate, Bitmap, Flags, DiskGood, Lag, Resting, Removed, Dirtied, Inside, NoIndex, Idle
<1> QED  BY <1>2, <1>3 DEF IInv

\* The start goes on.
LEMMA StartGoesOn ==
  ASSUME IInv, OpenTextDump \/ TextDumpRead
  PROVE  IInv'
<1>1. UNCHANGED <<clean, file, indexDisk, textDump, index, marked, bitmap_blocks, last_free, db_clean, op>>
      /\ phase # "down" /\ phase' \in {"loading", "running"}
  BY DEF OpenTextDump, TextDumpRead, files, memory
<1> QED
  BY <1>1 DEF IInv, TypeOK, Phase, Separate, Bitmap, Flags, DiskGood, Lag, Resting, Removed, Dirtied, Inside

\* An index page that reaches the disk keeps the invariant.
LEMMA WriteIndexKeeps ==
  ASSUME IInv, NEW d \in Dbref, WriteIndex(d)
  PROVE  IInv'
<1>1. /\ UNCHANGED <<clean, file, textDump, phase, index, marked, bitmap_blocks, last_free, db_clean, op>>
      /\ indexDisk' = [indexDisk EXCEPT ![d] = index[d]]
      /\ phase # "down" /\ indexDisk[d] # index[d]
  BY DEF WriteIndex, memory
<1>2. TypeOK'
  BY <1>1 DEF IInv, TypeOK
<1>3. clean => index[d] = NoEntry
  BY <1>1 DEF IInv, Lag
<1>4. \A e \in Dbref : indexDisk'[e] = IF e = d THEN index[d] ELSE indexDisk[e]
  BY <1>1 DEF IInv, TypeOK
<1>5. DiskGood' /\ Lag'
  BY <1>1, <1>3, <1>4 DEF IInv, DiskGood, Lag, Separate, Inside
<1>6. Separate(index)' /\ Bitmap' /\ Flags' /\ Resting' /\ Removed' /\ Dirtied'
  BY <1>1 DEF IInv, Separate, Bitmap, Flags, Resting, Removed, Dirtied, Inside
<1> QED  BY <1>2, <1>5, <1>6 DEF IInv

\* The begin of db_put(), which takes the clean file away, keeps the
\* invariant.
LEMMA PutKeeps ==
  ASSUME IInv, NEW d \in Dbref, NEW c \in Contents, Put(d, c)
  PROVE  IInv'
<1>1. /\ UNCHANGED <<file, indexDisk, textDump, phase, index, marked, bitmap_blocks, last_free>>
      /\ op' = [pc |-> "store", dbref |-> d, contents |-> c]
      /\ phase # "down"
      /\ clean' = (clean /\ ~db_clean) /\ db_clean' = FALSE
  BY DEF Put, Ready, db_is_dirty, memory
<1>2. clean' = FALSE
  BY <1>1 DEF IInv, Flags, TypeOK
<1>3. TypeOK'
  BY <1>1, <1>2 DEF IInv, TypeOK, Ops
<1>4. Separate(index)' /\ Bitmap' /\ Flags' /\ DiskGood' /\ Lag' /\ Resting' /\ Removed' /\ Dirtied'
  BY <1>1, <1>2 DEF IInv, Separate, Bitmap, Flags, DiskGood, Lag, Resting, Removed, Dirtied, Inside
<1> QED  BY <1>3, <1>4 DEF IInv

\* A new entry replaces the old one: its blocks are those of no other object,
\* and the blocks of the others stay marked.
LEMMA PutStoresKeeps ==
  ASSUME IInv, PutStores
  PROVE  IInv'
<1> USE DbAssumption
<1> DEFINE d == op.dbref
           n == Size[op.contents]
           given == IF index[d] = NoEntry THEN {} ELSE Run(index[d])
           fits == index[d] # NoEntry /\ n <= index[d].size
<1>1. /\ op.pc = "store" /\ op \in Ops /\ UNCHANGED <<clean, file, indexDisk, textDump, phase, db_clean>>
  BY DEF PutStores, files, IInv, TypeOK
<1>2. d \in Dbref /\ op.contents \in Contents
  BY <1>1 DEF Ops, Idle
<1>3. n \in Nat \ {0} /\ n \in Sizes
  BY <1>2 DEF Sizes
<1>4. ~clean /\ phase # "down"
  BY <1>1 DEF IInv, Dirtied, Resting, Idle
<1>5. PICK start \in Block :
        /\ IF fits THEN start = index[d].start /\ UNCHANGED memory ELSE Allocate(given, n, start)
        /\ index' = [index EXCEPT ![d] = [start |-> start, size |-> n]]
        /\ op' = [pc |-> "write", dbref |-> d, contents |-> op.contents, at |-> start, part |-> 0]
  BY DEF PutStores
<1> DEFINE e == [start |-> start, size |-> n]
<1>6. e \in Entry /\ start \in Nat /\ e # NoEntry /\ Run(e) = start .. start + n - 1
  BY <1>3, SentinelAssumption DEF Entry, Block, Run
<1>7. \A x \in Dbref : index'[x] = IF x = d THEN e ELSE index[x]
  BY <1>2, <1>5 DEF IInv, TypeOK
<1>8. index' \in [Dbref -> Entry \cup {NoEntry}]
  BY <1>2, <1>5, <1>6 DEF IInv, TypeOK
<1> HIDE DEF d, n, given, fits, e
<1>9. /\ marked' \subseteq Block /\ bitmap_blocks' \in Nat /\ last_free' \in Nat
      /\ Run(e) \subseteq marked'
      /\ \A x \in Dbref \ {d} : index[x] # NoEntry =>
           Run(index[x]) \subseteq marked' /\ Run(index[x]) \cap Run(e) = {}
      /\ \A b \in marked' : b < bitmap_blocks'
      /\ last_free' < bitmap_blocks' /\ bitmap_blocks' % BYTE = 0
  <2>0. /\ marked \subseteq Block /\ bitmap_blocks \in Nat /\ last_free \in Nat
        /\ bitmap_blocks % BYTE = 0 /\ last_free < bitmap_blocks
        /\ \A b \in marked : b \in Nat /\ b < bitmap_blocks
        /\ \A x \in Dbref : index[x] # NoEntry => index[x] \in Entry /\ Run(index[x]) \subseteq marked
    BY <1>4 DEF IInv, TypeOK, Bitmap, Inside, Block
  <2>1. CASE fits
    <3>1. index[d] # NoEntry /\ n <= index[d].size /\ start = index[d].start
          /\ UNCHANGED <<marked, bitmap_blocks, last_free>>
      BY <1>5, <2>1 DEF fits, memory
    <3>2. Run(e) \subseteq Run(index[d])
      <4>1. index[d].size \in Nat
        BY <1>2, <2>0, <3>1, RunStarts
      <4>2. Run(index[d]) = start .. start + index[d].size - 1
        BY <3>1 DEF Run
      <4> QED  BY <1>3, <1>6, <3>1, <4>1, <4>2
    <3>3. \A x \in Dbref \ {d} : index[x] # NoEntry => Run(index[x]) \cap Run(index[d]) = {}
      BY <1>2, <3>1 DEF IInv, Separate
    <3> QED  BY <1>2, <2>0, <3>1, <3>2, <3>3
  <2>2. CASE ~fits
    <3> DEFINE m == marked \ given
               last == IF given = {} THEN last_free ELSE Min(given)
    <3>1. /\ start = FirstFit(m, last, bitmap_blocks, n)
          /\ start + n <= MaxBlocks
          /\ marked' = m \cup start .. start + n - 1
          /\ bitmap_blocks' = Grown(bitmap_blocks, start + n)
          /\ last_free' = start + n
      BY <1>5, <2>2 DEF Allocate
    <3>2. given \subseteq Nat
      BY <1>2, <2>0, RunStarts DEF given
    <3>3. last \in Nat
      BY <2>0, <3>2, MinInSet
    <3>4. \A b \in m : b \in Nat /\ b < bitmap_blocks
      BY <2>0
    <3> HIDE DEF last, m
    <3>5. Free(m, start, n)
      BY <1>3, <2>0, <3>1, <3>3, <3>4, FirstFitFree
    <3>6. \A b \in Run(e) : b \notin m /\ b \in Block
      BY <1>3, <1>6, <3>1, <3>5 DEF Free, Block
    <3>7. \A x \in Dbref \ {d} : index[x] # NoEntry => Run(index[x]) \subseteq m
      BY <1>2, <2>0 DEF IInv, Separate, given, m
    <3>8. start + n \in Nat
      BY <1>3, <1>6
    <3>9. bitmap_blocks' \in Nat /\ start + n < bitmap_blocks' /\ bitmap_blocks <= bitmap_blocks'
      BY <2>0, <3>1, <3>8, GrownBeyond
    <3>10. bitmap_blocks' % BYTE = 0
      BY <2>0, <3>1, <3>8, GrownWhole
    <3>11. \A b \in marked' : b < bitmap_blocks'
      <4> TAKE b \in marked'
      <4>1. CASE b \in m
        BY <2>0, <3>4, <3>9, <4>1
      <4>2. CASE b \in start .. start + n - 1
        BY <1>3, <1>6, <3>9, <4>2
      <4> QED  BY <3>1, <4>1, <4>2
    <3>12. marked' \subseteq Block
      BY <1>6, <2>0, <3>1, <3>6 DEF m
    <3>13. Run(e) \subseteq marked'
      BY <1>6, <3>1
    <3>14. \A x \in Dbref \ {d} : index[x] # NoEntry =>
             Run(index[x]) \subseteq marked' /\ Run(index[x]) \cap Run(e) = {}
      BY <3>1, <3>6, <3>7
    <3> QED  BY <3>1, <3>8, <3>9, <3>10, <3>11, <3>12, <3>13, <3>14
  <2> QED  BY <2>1, <2>2
<1>10. op' \in Ops /\ op'.pc = "write" /\ op'.part < Size[op'.contents]
  BY <1>2, <1>3, <1>5 DEF Ops, n
<1>11. TypeOK'
  BY <1>1, <1>8, <1>9, <1>10 DEF IInv, TypeOK
<1>12. Separate(index)'
  BY <1>2, <1>7, <1>9 DEF IInv, Separate
<1>13. Bitmap'
  BY <1>7, <1>9 DEF Bitmap, Inside
<1>14. Flags' /\ DiskGood' /\ Lag' /\ Resting' /\ Removed' /\ Dirtied'
  BY <1>1, <1>4, <1>10 DEF IInv, Flags, DiskGood, Lag, Resting, Removed, Dirtied
<1> QED  BY <1>11, <1>12, <1>13, <1>14 DEF IInv

\* The write of db_put() keeps the invariant.
LEMMA PutWritesKeeps ==
  ASSUME IInv, PutWrites
  PROVE  IInv'
<1> USE DbAssumption
<1>1. UNCHANGED <<clean, indexDisk, textDump, phase, index, marked, bitmap_blocks, last_free, db_clean>>
      /\ op.pc = "write" /\ op \in Ops
  BY DEF PutWrites, memory, IInv, TypeOK
<1>2. /\ op \in [pc: {"write"}, dbref: Dbref, contents: Contents, at: Block, part: Nat]
      /\ op.part < Size[op.contents] /\ Size[op.contents] \in Nat
  BY <1>1 DEF Ops, Idle, IInv, TypeOK
<1>3. phase # "down"
  BY <1>1 DEF IInv, Resting, Idle
<1>4. file' \in [Block -> Piece \cup {Delobj, NoPiece}]
  BY <1>2 DEF PutWrites, IInv, TypeOK, Piece
<1>5. CASE op.part + 1 = Size[op.contents]
  <2>1. op' = Idle
    BY <1>5 DEF PutWrites
  <2>2. TypeOK'
    BY <1>1, <1>4, <2>1 DEF IInv, TypeOK, Ops, Idle
  <2>3. Separate(index)' /\ Bitmap' /\ Flags' /\ DiskGood' /\ Lag' /\ Resting' /\ Removed' /\ Dirtied'
    BY <1>1, <1>3, <2>1
    DEF IInv, Separate, Bitmap, Flags, DiskGood, Lag, Resting, Removed, Dirtied, Inside, Idle
  <2> QED  BY <2>2, <2>3 DEF IInv
<1>6. CASE op.part + 1 # Size[op.contents]
  <2>1. op' = [op EXCEPT !.part = @ + 1]
    BY <1>6 DEF PutWrites
  <2>2. /\ op' \in [pc: {"write"}, dbref: Dbref, contents: Contents, at: Block, part: Nat]
        /\ op'.part < Size[op'.contents] /\ op'.pc = "write"
    BY <1>2, <1>6, <2>1
  <2>3. TypeOK'
    BY <1>1, <1>4, <2>2 DEF IInv, TypeOK, Ops
  <2>4. Separate(index)' /\ Bitmap' /\ Flags' /\ DiskGood' /\ Lag' /\ Resting' /\ Removed' /\ Dirtied'
    BY <1>1, <1>3, <2>2
    DEF IInv, Separate, Bitmap, Flags, DiskGood, Lag, Resting, Removed, Dirtied, Inside
  <2> QED  BY <2>3, <2>4 DEF IInv
<1> QED  BY <1>5, <1>6

\* The entry goes; the blocks stay marked until the next step, and nobody
\* else has them.
LEMMA DeleteKeeps ==
  ASSUME IInv, NEW d \in Dbref, Delete(d)
  PROVE  IInv'
<1>1. /\ UNCHANGED <<clean, file, indexDisk, textDump, phase, marked, bitmap_blocks, last_free, db_clean>>
      /\ index[d] # NoEntry /\ phase # "down"
      /\ op' = [pc |-> "dirty", dbref |-> d, entry |-> index[d]]
      /\ index' = [index EXCEPT ![d] = NoEntry]
  BY DEF Delete, Ready, files, memory
<1>2. index[d] \in Entry
  BY <1>1 DEF IInv, TypeOK
<1>3. \A x \in Dbref : index'[x] = IF x = d THEN NoEntry ELSE index[x]
  BY <1>1 DEF IInv, TypeOK
<1>4. TypeOK'
  BY <1>1, <1>2 DEF IInv, TypeOK, Ops
<1>5. Separate(index)' /\ Bitmap' /\ Lag'
  BY <1>1, <1>3 DEF IInv, Separate, Bitmap, Lag, Inside
<1>6. Flags' /\ DiskGood' /\ Resting' /\ Dirtied'
  BY <1>1 DEF IInv, Flags, DiskGood, Resting, Dirtied, Separate, Inside
<1>7. Removed'
  <2>1. Run(index[d]) \subseteq marked
    BY <1>1 DEF IInv, Bitmap, Inside
  <2>2. \A x \in Dbref \ {d} : index[x] # NoEntry => Run(index[x]) \cap Run(index[d]) = {}
    BY <1>1 DEF IInv, Separate
  <2> QED  BY <1>1, <1>3, <2>1, <2>2 DEF Removed
<1> QED  BY <1>4, <1>5, <1>6, <1>7 DEF IInv

\* The blocks of a deleted object can be given back.
LEMMA DeleteDirtiesKeeps ==
  ASSUME IInv, DeleteDirties
  PROVE  IInv'
<1>1. /\ UNCHANGED <<file, indexDisk, textDump, phase, index, bitmap_blocks>>
      /\ op.pc = "dirty" /\ op \in Ops
      /\ clean' = (clean /\ ~db_clean) /\ db_clean' = FALSE
      /\ marked' = marked \ Run(op.entry)
      /\ last_free' = op.entry.start
      /\ op' = [pc |-> "kill", at |-> op.entry.start]
  BY DEF DeleteDirties, db_is_dirty, IInv, TypeOK
<1>2. op.entry \in Entry
  BY <1>1 DEF Ops, Idle
<1>3. phase # "down"
  BY <1>1 DEF IInv, Resting, Idle
<1>4. clean' = FALSE
  BY <1>1, <1>3 DEF IInv, Flags, TypeOK
<1>5. op.entry.start \in marked /\ op.entry.start \in Nat
  BY <1>1, <1>2, RunStarts DEF IInv, Removed
<1>6. op.entry.start \in Block
  BY <1>5 DEF IInv, TypeOK
<1>7. TypeOK'
  BY <1>1, <1>4, <1>5, <1>6 DEF IInv, TypeOK, Ops
<1>8. Bitmap'
  BY <1>1, <1>3, <1>5 DEF IInv, Bitmap, Inside, Removed
<1>9. Separate(index)' /\ Flags' /\ DiskGood' /\ Lag' /\ Resting' /\ Removed' /\ Dirtied'
  BY <1>1, <1>3, <1>4 DEF IInv, Separate, Flags, DiskGood, Lag, Resting, Removed, Dirtied
<1> QED  BY <1>7, <1>8, <1>9 DEF IInv

\* The mark that db_del() leaves in the file keeps the invariant.
LEMMA DeleteKillsKeeps ==
  ASSUME IInv, DeleteKills
  PROVE  IInv'
<1>1. UNCHANGED <<clean, indexDisk, textDump, phase, index, marked, bitmap_blocks, last_free, db_clean>>
      /\ op' = Idle /\ file' = [file EXCEPT ![op.at] = Delobj] /\ op.pc = "kill"
  BY DEF DeleteKills, memory
<1>2. TypeOK'
  BY <1>1 DEF IInv, TypeOK, Ops, Idle
<1>3. Separate(index)' /\ Bitmap' /\ Flags' /\ DiskGood' /\ Lag' /\ Resting' /\ Removed' /\ Dirtied'
  BY <1>1 DEF IInv, Separate, Bitmap, Flags, DiskGood, Lag, Resting, Removed, Dirtied, Inside, Idle
<1> QED  BY <1>2, <1>3 DEF IInv

\* What db_flush() does, for a dump of either kind.
LEMMA FlushKeeps ==
  ASSUME IInv, Ready, indexDisk' = index, db_is_clean, textDump' \in BOOLEAN,
         UNCHANGED <<file, phase, index, memory>>,
         op' \in {Idle, [pc |-> "rename"]}
  PROVE  IInv'
<1>1. /\ UNCHANGED <<file, phase, index, marked, bitmap_blocks, last_free>>
      /\ indexDisk' = index /\ clean' = TRUE /\ db_clean' = TRUE
      /\ op'.pc \in {"idle", "rename"} /\ op' \in Ops /\ phase # "down"
  BY DEF Ready, db_is_clean, memory, Idle, Ops
<1>2. TypeOK'
  BY <1>1 DEF IInv, TypeOK
<1>3. Inside(index, Block)
  BY <1>1 DEF IInv, Bitmap, Inside, TypeOK
<1>4. DiskGood' /\ Lag'
  BY <1>1, <1>3 DEF IInv, DiskGood, Lag, Separate, Inside
<1>5. Separate(index)' /\ Bitmap' /\ Flags' /\ Resting' /\ Removed' /\ Dirtied'
  BY <1>1 DEF IInv, Separate, Bitmap, Flags, Resting, Removed, Dirtied, Inside, Idle
<1> QED  BY <1>2, <1>4, <1>5 DEF IInv

\* The renaming of a text dump keeps the invariant.
LEMMA TextDumpRenamesKeeps ==
  ASSUME IInv, TextDumpRenames
  PROVE  IInv'
<1>1. UNCHANGED <<clean, file, indexDisk, phase, index, marked, bitmap_blocks, last_free, db_clean>>
      /\ op' = Idle /\ textDump' = TRUE /\ op.pc = "rename"
  BY DEF TextDumpRenames, memory
<1>2. TypeOK'
  BY <1>1 DEF IInv, TypeOK, Ops, Idle
<1>3. Separate(index)' /\ Bitmap' /\ Flags' /\ DiskGood' /\ Lag' /\ Resting' /\ Removed' /\ Dirtied'
  BY <1>1 DEF IInv, Separate, Bitmap, Flags, DiskGood, Lag, Resting, Removed, Dirtied, Inside, Idle
<1> QED  BY <1>2, <1>3 DEF IInv

-----------------------------------------------------------------------------
\* Every step keeps the invariant.
LEMMA StepKeeps == IInv /\ [Next]_vars => IInv'
<1> SUFFICES ASSUME IInv, [Next]_vars PROVE IInv'
  OBVIOUS
<1>1. CASE StartTrusting
  BY <1>1, StartTrustingKeeps
<1>2. CASE StartAnew
  BY <1>2, StartAnewKeeps
<1>3. CASE FailToStart
  BY <1>3, EndKeeps DEF FailToStart
<1>4. CASE OpenTextDump \/ TextDumpRead
  BY <1>4, StartGoesOn
<1>5. CASE Crash
  BY <1>5, EndKeeps DEF Crash
<1>6. ASSUME NEW d \in Dbref, WriteIndex(d) PROVE IInv'
  BY <1>6, WriteIndexKeeps
<1>7. ASSUME NEW d \in Dbref, NEW c \in Contents, Put(d, c) PROVE IInv'
  BY <1>7, PutKeeps
<1>8. CASE PutStores
  BY <1>8, PutStoresKeeps
<1>9. CASE PutWrites
  BY <1>9, PutWritesKeeps
<1>10. ASSUME NEW d \in Dbref, Delete(d) PROVE IInv'
  BY <1>10, DeleteKeeps
<1>11. CASE DeleteDirties
  BY <1>11, DeleteDirtiesKeeps
<1>12. CASE DeleteKills
  BY <1>12, DeleteKillsKeeps
<1>13. CASE Flush
  <2>1. textDump' \in BOOLEAN
    BY <1>13 DEF Flush, IInv, TypeOK
  <2>2. Ready /\ indexDisk' = index /\ db_is_clean /\ UNCHANGED <<file, phase, index, memory>>
        /\ op' = Idle
    BY <1>13 DEF Flush, Ready
  <2> QED  BY <2>1, <2>2, FlushKeeps
<1>15. CASE TextDump
  BY <1>15, FlushKeeps DEF TextDump
<1>16. CASE TextDumpRenames
  BY <1>16, TextDumpRenamesKeeps
<1>14. CASE UNCHANGED vars
  <2>1. UNCHANGED <<clean, file, indexDisk, textDump, phase, index, marked, bitmap_blocks,
                    last_free, db_clean, op>>
    BY <1>14 DEF vars, files, memory
  <2> QED
    BY <2>1 DEF IInv, TypeOK, Separate, Bitmap, Flags, DiskGood, Lag, Resting, Removed, Dirtied, Inside
<1> QED
  BY <1>1, <1>2, <1>3, <1>4, <1>5, <1>6, <1>7, <1>8, <1>9, <1>10, <1>11, <1>12, <1>13, <1>14,
     <1>15, <1>16
  DEF Next

(***************************************************************************)
(* The invariant holds in every state the database and its process reach,  *)
(* through crashes and restarts.                                           *)
(***************************************************************************)
THEOREM Invariance == Spec => []IInv
BY Initially, StepKeeps, PTL DEF Spec

(***************************************************************************)
(* Type correctness: in particular the blocks marked in the bitmap are     *)
(* always blocks of the file, and a write never passes the object's end.   *)
(***************************************************************************)
THEOREM TypeCorrect == Spec => []TypeOK
<1>1. IInv => TypeOK
  BY DEF IInv
<1> QED  BY <1>1, Invariance, PTL

(***************************************************************************)
(* No two objects ever share a block: db_alloc() never gives away a block  *)
(* of an object, whatever was deleted, resized or recovered before.        *)
(***************************************************************************)
THEOREM BlocksNeverShared == Spec => []BlocksDisjoint
BY Strong, Invariance, PTL

(***************************************************************************)
(* The bitmap always marks every object's blocks and covers last_free and  *)
(* every marked block, so that db_alloc() starts its search inside it.     *)
(***************************************************************************)
THEOREM BitmapAlwaysCovers == Spec => []BitmapCovers
BY Strong, Invariance, PTL

-----------------------------------------------------------------------------
(***************************************************************************)
(* Db implements ObjectMap: whenever the process ends, between any two     *)
(* changes of the files, the next start finds what the map promises.       *)
(*                                                                         *)
(* IInv says where objects are; this invariant says that they are there.   *)
(* Every object of the index in memory is in its blocks, but for the one   *)
(* being put; every object of the index on disk is, as long as the clean   *)
(* file exists.  The writes of db_put() and db_del() hit no other object,  *)
(* and no safe one.                                                        *)
(***************************************************************************)
StoredAt(f, d, e) == \E c \in Contents : Size[c] = e.size /\ Holds(f, d, e.start, c)

LiveGood ==
  \A d \in Dbref :
    index[d] # NoEntry => StoredAt(file, d, index[d]) \/ (op.pc = "write" /\ op.dbref = d)

SafeGood ==
  clean => \A d \in Dbref : indexDisk[d] # NoEntry => StoredAt(file, d, indexDisk[d])

Writing ==
  op.pc = "write" =>
    /\ ~clean
    /\ index[op.dbref] = [start |-> op.at, size |-> Size[op.contents]]
    /\ \A i \in 0 .. op.part - 1 :
         file[op.at + i] = [dbref |-> op.dbref, contents |-> op.contents, part |-> i]

Killing ==
  op.pc = "kill" =>
    /\ ~clean
    /\ \A d \in Dbref : index[d] # NoEntry => op.at \notin Run(index[d])

CInv == IInv /\ LiveGood /\ SafeGood /\ Writing /\ Killing

-----------------------------------------------------------------------------
\* The first block tells what an object is: db_get() has no choice.
LEMMA HoldsOne ==
  ASSUME NEW f, NEW d, NEW start, NEW c \in Contents, NEW e \in Contents,
         Holds(f, d, start, c), Holds(f, d, start, e)
  PROVE  c = e
<1>1. 0 \in 0 .. Size[c] - 1 /\ 0 \in 0 .. Size[e] - 1
  BY DbAssumption
<1>2. f[start + 0] = [dbref |-> d, contents |-> c, part |-> 0]
  BY <1>1 DEF Holds
<1>3. f[start + 0] = [dbref |-> d, contents |-> e, part |-> 0]
  BY <1>1 DEF Holds
<1> QED  BY <1>2, <1>3

\* An object whose blocks hold its contents is read as these contents.
LEMMA GetHeld ==
  ASSUME NEW idx, NEW f, NEW d, idx[d] # NoEntry,
         NEW c \in Contents, Holds(f, d, idx[d].start, c)
  PROVE  Get(idx, f, d) = c
<1>1. \A e \in Contents : Holds(f, d, idx[d].start, e) => e = c
  BY HoldsOne
<1>2. (CHOOSE e \in Contents : Holds(f, d, idx[d].start, e)) = c
  BY <1>1
<1> HIDE DEF Holds
<1>3. \E e \in Contents : Holds(f, d, idx[d].start, e)
  OBVIOUS
<1> QED  BY <1>2, <1>3 DEF Get

\* An object that is not in the index is not found.
LEMMA GetNone ==
  ASSUME NEW idx, NEW f, NEW d, idx[d] = NoEntry
  PROVE  Get(idx, f, d) = NoObject
BY DEF Get

\* Blocks outside an object's run do not matter to it.
LEMMA HoldsElsewhere ==
  ASSUME NEW f, NEW g, NEW d, NEW e \in Entry, NEW c \in Contents, Size[c] = e.size,
         Holds(f, d, e.start, c), \A b \in Run(e) : g[b] = f[b]
  PROVE  Holds(g, d, e.start, c)
<1>1. e.start \in Nat /\ e.size \in Nat
  BY RunStarts
<1>2. \A i \in 0 .. Size[c] - 1 : e.start + i \in Run(e)
  BY <1>1 DEF Run
<1> QED  BY <1>2 DEF Holds

\* An object whose entry and blocks stay as they are is stored and read as
\* before.
LEMMA GetElsewhere ==
  ASSUME NEW idx, NEW jdx, NEW f, NEW g, NEW d, idx[d] \in Entry, idx[d] # NoEntry, jdx[d] = idx[d],
         StoredAt(f, d, idx[d]), \A b \in Run(idx[d]) : g[b] = f[b]
  PROVE  StoredAt(g, d, jdx[d]) /\ Get(jdx, g, d) = Get(idx, f, d)
<1>1. PICK c \in Contents : Size[c] = idx[d].size /\ Holds(f, d, idx[d].start, c)
  BY DEF StoredAt
<1>2. Holds(g, d, idx[d].start, c)
  BY <1>1, HoldsElsewhere
<1>3. Get(idx, f, d) = c
  BY <1>1, GetHeld
<1>4. Get(jdx, g, d) = c
  BY <1>2, GetHeld
<1> QED  BY <1>1, <1>2, <1>3, <1>4 DEF StoredAt

\* With the same entry and the same file there is nothing to show.
LEMMA GetSame ==
  ASSUME NEW idx, NEW jdx, NEW f, NEW d, jdx[d] = idx[d]
  PROVE  Get(jdx, f, d) = Get(idx, f, d)
BY DEF Get

-----------------------------------------------------------------------------
(***************************************************************************)
(* What the two maps are.                                                  *)
(***************************************************************************)
LEMMA SafeNothing == ~clean => Safe = Nothing
BY DEF Safe

\* Between operations the map is what db_get() finds.
LEMMA LiveIs ==
  ASSUME phase # "down", op.pc # "write"
  PROVE  Live = [d \in Dbref |-> Get(index, file, d)]
BY DEF Live

\* While db_put() has yet to write, the map already has what it will write.
LEMMA LiveWriting ==
  ASSUME phase # "down", op.pc = "write"
  PROVE  Live = [d \in Dbref |-> IF d = op.dbref THEN op.contents ELSE Get(index, file, d)]
BY DEF Live

MapStep == Map!Next \/ UNCHANGED Map!vars

-----------------------------------------------------------------------------
(***************************************************************************)
(* Each action keeps the invariant and is a step of the map, or none.      *)
(***************************************************************************)
LEMMA MapInitially == Init => CInv /\ Map!Init
<1> SUFFICES ASSUME Init PROVE CInv /\ Map!Init
  OBVIOUS
<1>1. LiveGood /\ SafeGood /\ Writing /\ Killing
  BY DEF Init, LiveGood, SafeGood, Writing, Killing, NoIndex, Idle
<1>2. Safe = Nothing /\ Live = Nothing
  BY DEF Init, Safe, Live
<1> QED  BY <1>1, <1>2, Initially DEF CInv, Map!Init, Map!Nothing, Nothing

\* A start that trusts the files leaves the map as it is.
LEMMA MapStartTrusting ==
  ASSUME CInv, StartTrusting
  PROVE  CInv' /\ MapStep
<1>1. index' = indexDisk /\ phase = "down" /\ phase' = "running" /\ clean /\ clean'
      /\ indexDisk' = indexDisk /\ op' = Idle /\ file' = file
  BY DEF CInv, IInv, StartTrusting, files, TypeOK, Resting
<1>2. IInv'
  BY StartTrustingKeeps DEF CInv
<1>3. LiveGood' /\ SafeGood' /\ Writing' /\ Killing'
  BY <1>1 DEF CInv, LiveGood, SafeGood, Writing, Killing, Idle
<1>4. Safe' = Safe
  BY <1>1 DEF Safe
<1>5. Live' = [d \in Dbref |-> Get(index', file', d)]
  BY <1>1 DEF Live, Idle
<1>6. Live = Safe /\ Safe = [d \in Dbref |-> Get(indexDisk, file, d)]
  BY <1>1 DEF Live, Safe
<1> QED  BY <1>1, <1>2, <1>3, <1>4, <1>5, <1>6 DEF CInv, MapStep, Map!vars

\* A start with new files empties the map.
LEMMA MapStartAnew ==
  ASSUME CInv, StartAnew
  PROVE  CInv' /\ MapStep
<1>1. /\ index' = NoIndex /\ indexDisk' = NoIndex /\ op' = Idle /\ phase = "down"
      /\ phase' = "opening" /\ clean' /\ ~clean
  BY DEF CInv, IInv, StartAnew, Resting
<1>2. IInv'
  BY StartAnewKeeps DEF CInv
<1>3. LiveGood' /\ SafeGood' /\ Writing' /\ Killing'
  BY <1>1 DEF LiveGood, SafeGood, Writing, Killing, Idle, NoIndex
<1>4. \A d \in Dbref : NoIndex[d] = NoEntry
  BY DEF NoIndex
<1>5. Safe' = Nothing
  BY <1>1, <1>4, GetNone DEF Safe, Nothing
<1>6. Live' = Nothing
  BY <1>1, <1>4, GetNone DEF Live, Nothing, Idle
<1>7. Safe = Nothing /\ Live = Nothing
  BY <1>1 DEF Safe, Live
<1> QED  BY <1>2, <1>3, <1>5, <1>6, <1>7 DEF CInv, MapStep, Map!vars

\* Whenever the process ends, what is safe is all there is.
LEMMA MapEnd ==
  ASSUME CInv, End, UNCHANGED files
  PROVE  CInv' /\ MapStep
<1>1. /\ index' = NoIndex /\ op' = Idle /\ phase' = "down" /\ clean' = clean
      /\ file' = file /\ indexDisk' = indexDisk
  BY DEF End, files
<1>2. IInv'
  BY EndKeeps DEF CInv
<1>3. LiveGood' /\ SafeGood' /\ Writing' /\ Killing'
  BY <1>1 DEF CInv, LiveGood, SafeGood, Writing, Killing, Idle, NoIndex
<1>4. Safe' = Safe
  BY <1>1 DEF Safe
<1>5. Live' = Safe'
  BY <1>1 DEF Live
<1> QED  BY <1>2, <1>3, <1>4, <1>5 DEF CInv, MapStep, Map!Next, Map!Stop

\* The rest of a start leaves the map as it is.
LEMMA MapStartGoesOn ==
  ASSUME CInv, OpenTextDump \/ TextDumpRead
  PROVE  CInv' /\ MapStep
<1>1. UNCHANGED <<clean, file, indexDisk, index, op>>
      /\ phase # "down" /\ phase' \in {"loading", "running"}
  BY DEF OpenTextDump, TextDumpRead, files, memory
<1>2. IInv'
  BY StartGoesOn DEF CInv
<1>3. LiveGood' /\ SafeGood' /\ Writing' /\ Killing'
  BY <1>1 DEF CInv, LiveGood, SafeGood, Writing, Killing
<1>4. Safe' = Safe /\ Live' = Live
  BY <1>1 DEF Safe, Live
<1> QED  BY <1>2, <1>3, <1>4 DEF CInv, MapStep, Map!vars

\* With a clean file, ndbm can only write out a deletion.
LEMMA MapWriteIndex ==
  ASSUME CInv, NEW d \in Dbref, WriteIndex(d)
  PROVE  CInv' /\ MapStep
<1>1. /\ UNCHANGED <<clean, file, phase, index, op>>
      /\ indexDisk' = [indexDisk EXCEPT ![d] = index[d]]
      /\ phase # "down" /\ indexDisk[d] # index[d]
  BY DEF WriteIndex, memory
<1>2. IInv'
  BY WriteIndexKeeps DEF CInv
<1>3. \A e \in Dbref : indexDisk'[e] = IF e = d THEN index[d] ELSE indexDisk[e]
  BY <1>1 DEF CInv, IInv, TypeOK
<1>4. clean => index[d] = NoEntry
  BY <1>1 DEF CInv, IInv, Lag
<1>5. LiveGood' /\ SafeGood' /\ Writing' /\ Killing'
  BY <1>1, <1>3, <1>4 DEF CInv, LiveGood, SafeGood, Writing, Killing
<1>6. Live' = Live
  <2>1. CASE op.pc = "write"
    <3>1. ~clean /\ ~clean'
      BY <1>1, <2>1 DEF CInv, Writing
    <3> QED  BY <1>1, <2>1 DEF Live
  <2>2. CASE op.pc # "write"
    BY <1>1, <2>2 DEF Live
  <2> QED  BY <2>1, <2>2
<1>7. CASE ~clean
  <2>1. Safe' = Safe
    BY <1>1, <1>7 DEF Safe
  <2> QED  BY <1>2, <1>5, <1>6, <2>1 DEF CInv, MapStep, Map!vars
<1>8. CASE clean
  <2>1. op.pc # "write"
    BY <1>8 DEF CInv, Writing
  <2>2. Live[d] = NoObject
    BY <1>1, <1>4, <1>8, <2>1, LiveIs, GetNone
  <2>3. Safe = [e \in Dbref |-> Get(indexDisk, file, e)]
    BY <1>8 DEF Safe
  <2>4. Safe' = [e \in Dbref |-> Get(indexDisk', file, e)]
    BY <1>1, <1>8 DEF Safe
  <2>5. \A e \in Dbref : Get(indexDisk', file, e) = IF e = d THEN NoObject ELSE Get(indexDisk, file, e)
    <3> TAKE e \in Dbref
    <3>1. CASE e = d
      BY <1>3, <1>4, <1>8, <3>1, GetNone
    <3>2. CASE e # d
      BY <1>3, <3>2, GetSame
    <3> QED  BY <3>1, <3>2
  <2>6. Safe' = [Safe EXCEPT ![d] = NoObject]
    BY <2>3, <2>4, <2>5
  <2> QED  BY <1>2, <1>5, <1>6, <2>2, <2>6 DEF CInv, MapStep, Map!Next, Map!Forget
<1> QED  BY <1>7, <1>8

\* The begin of db_put() leaves the map as it is.
LEMMA MapPut ==
  ASSUME CInv, NEW d \in Dbref, NEW c \in Contents, Put(d, c)
  PROVE  CInv' /\ MapStep
<1>1. /\ UNCHANGED <<file, indexDisk, phase, index>>
      /\ op' = [pc |-> "store", dbref |-> d, contents |-> c]
      /\ op = Idle /\ phase # "down"
      /\ clean' = (clean /\ ~db_clean) /\ db_clean' = FALSE
  BY DEF Put, Ready, db_is_dirty, memory
<1>2. ~clean'
  BY <1>1 DEF CInv, IInv, Flags, TypeOK
<1>3. IInv'
  BY PutKeeps DEF CInv
<1>4. LiveGood' /\ SafeGood' /\ Writing' /\ Killing'
  BY <1>1, <1>2 DEF CInv, LiveGood, SafeGood, Writing, Killing, Idle
<1>5. Safe' = Nothing
  BY <1>2 DEF Safe
<1>6. Live' = Live
  BY <1>1 DEF Live, Idle
<1> QED  BY <1>3, <1>4, <1>5, <1>6 DEF CInv, MapStep, Map!Next, Map!GiveUp, Map!Nothing, Nothing

\* The object is there from the new entry on, for the map; for db_get() it is
\* there once its blocks are written.
LEMMA MapPutStores ==
  ASSUME CInv, PutStores
  PROVE  CInv' /\ MapStep
<1> DEFINE d == op.dbref
           c == op.contents
<1>1. /\ op.pc = "store" /\ op \in Ops /\ UNCHANGED <<clean, file, indexDisk, phase>>
      /\ ~clean /\ phase # "down"
  BY DEF PutStores, files, CInv, IInv, TypeOK, Dirtied, Resting, Idle
<1>2. d \in Dbref /\ c \in Contents
  BY <1>1 DEF Ops, Idle
<1>3. PICK start \in Block :
        /\ index' = [index EXCEPT ![d] = [start |-> start, size |-> Size[c]]]
        /\ op' = [pc |-> "write", dbref |-> d, contents |-> c, at |-> start, part |-> 0]
  BY DEF PutStores
<1>4. IInv'
  BY PutStoresKeeps DEF CInv
<1>5. \A x \in Dbref : index'[x] = IF x = d THEN [start |-> start, size |-> Size[c]] ELSE index[x]
  BY <1>2, <1>3 DEF CInv, IInv, TypeOK
<1>6. op'.pc = "write" /\ op'.dbref = d /\ op'.contents = c /\ op'.at = start /\ op'.part = 0
  BY <1>3
<1> HIDE DEF d, c
<1>7. LiveGood'
  BY <1>1, <1>5, <1>6 DEF CInv, LiveGood
<1>8. SafeGood' /\ Killing'
  BY <1>1, <1>6 DEF SafeGood, Killing
<1>9. Writing'
  BY <1>1, <1>2, <1>5, <1>6 DEF Writing
<1>10. Safe = Nothing /\ Safe' = Nothing
  BY <1>1 DEF Safe
<1>11. Live = [x \in Dbref |-> Get(index, file, x)]
  BY <1>1, LiveIs
<1>12. Live' = [x \in Dbref |-> IF x = d THEN c ELSE Get(index', file, x)]
  BY <1>1, <1>6 DEF Live
<1>13. \A x \in Dbref : x # d => Get(index', file, x) = Get(index, file, x)
  BY <1>5, GetSame
<1>14. Live' = [Live EXCEPT ![d] = c]
  BY <1>2, <1>11, <1>12, <1>13
<1>15. MapStep
  BY <1>2, <1>10, <1>14 DEF MapStep, Map!Next, Map!Put, Map!Nothing, Nothing
<1> QED  BY <1>4, <1>7, <1>8, <1>9, <1>15 DEF CInv

\* A block of the object being put is no other object's; the last one makes
\* db_get() find it.
LEMMA MapPutWrites ==
  ASSUME CInv, PutWrites
  PROVE  CInv' /\ MapStep
<1> DEFINE d == op.dbref
           c == op.contents
           b == op.at + op.part
           piece == [dbref |-> d, contents |-> c, part |-> op.part]
<1>1. /\ op.pc = "write" /\ op \in Ops /\ UNCHANGED <<clean, indexDisk, phase, index>>
      /\ ~clean /\ phase # "down" /\ op.part < Size[c]
      /\ index[d] = [start |-> op.at, size |-> Size[c]]
  BY DEF PutWrites, CInv, IInv, TypeOK, Resting, Idle, Writing
<1>2. d \in Dbref /\ c \in Contents /\ op.at \in Block /\ op.at \in Nat /\ op.part \in Nat
  BY <1>1 DEF Ops, Idle, Block
<1>3. Size[c] \in Nat \ {0}
  BY <1>2, DbAssumption
<1>4. file' = [file EXCEPT ![b] = piece]
  BY DEF PutWrites
<1>5. IInv'
  BY PutWritesKeeps DEF CInv
<1>6. index[d] # NoEntry /\ index[d] \in Entry /\ b \in Run(index[d])
  BY <1>1, <1>2, <1>3, SentinelAssumption DEF Entry, Sizes, Run
<1>7. Run(index[d]) \subseteq Block
  BY <1>1, <1>2, <1>6 DEF CInv, IInv, Bitmap, Inside, TypeOK
<1>8. file'[b] = piece /\ \A a \in Block : a # b => file'[a] = file[a]
  BY <1>4, <1>6, <1>7 DEF CInv, IInv, TypeOK
<1>9. \A x \in Dbref : x # d /\ index[x] # NoEntry =>
        /\ StoredAt(file', x, index'[x])
        /\ Get(index', file', x) = Get(index, file, x)
  <2> SUFFICES ASSUME NEW x \in Dbref, x # d, index[x] # NoEntry
               PROVE  StoredAt(file', x, index'[x]) /\ Get(index', file', x) = Get(index, file, x)
    OBVIOUS
  <2>1. index[x] \in Entry /\ StoredAt(file, x, index[x])
    BY DEF CInv, IInv, TypeOK, LiveGood
  <2>2. b \notin Run(index[x])
    BY <1>2, <1>6 DEF CInv, IInv, Separate
  <2>3. Run(index[x]) \subseteq Block
    BY <1>1 DEF CInv, IInv, Bitmap, Inside, TypeOK
  <2>4. \A a \in Run(index[x]) : file'[a] = file[a]
    BY <1>8, <2>2, <2>3
  <2>5. index'[x] = index[x]
    BY <1>1
  <2> QED  BY <2>1, <2>4, <2>5, GetElsewhere
<1>10. \A x \in Dbref : x # d => Get(index', file', x) = Get(index, file, x)
  BY <1>1, <1>9, GetNone
<1>11. \A i \in 0 .. op.part : file'[op.at + i] = [dbref |-> d, contents |-> c, part |-> i]
  <2> TAKE i \in 0 .. op.part
  <2>1. CASE i = op.part
    BY <1>8, <2>1
  <2>2. CASE i # op.part
    <3>1. i \in 0 .. op.part - 1 /\ i \in Nat
      BY <1>2, <2>2
    <3>2. file[op.at + i] = [dbref |-> d, contents |-> c, part |-> i]
      BY <1>1, <3>1 DEF CInv, Writing
    <3>3. op.at + i \in Run(index[d]) /\ op.at + i # b
      BY <1>1, <1>2, <1>3, <3>1 DEF Run
    <3> QED  BY <1>7, <1>8, <3>2, <3>3
  <2> QED  BY <2>1, <2>2
<1>12. Safe = Nothing /\ Safe' = Nothing
  BY <1>1 DEF Safe
<1>13. Live = [x \in Dbref |-> IF x = d THEN c ELSE Get(index, file, x)]
  BY <1>1, LiveWriting
<1>14. SafeGood'
  BY <1>1 DEF SafeGood
<1>15. CASE op.part + 1 = Size[c]
  <2>1. op' = Idle
    BY <1>15 DEF PutWrites
  <2>2. Holds(file', d, index'[d].start, c)
    <3>1. \A i \in 0 .. Size[c] - 1 : i \in 0 .. op.part /\ op.at + i \in Run(index[d])
      BY <1>1, <1>2, <1>3, <1>15 DEF Run
    <3>2. index'[d].start = op.at
      BY <1>1
    <3> QED  BY <1>7, <1>11, <3>1, <3>2 DEF Holds
  <2>3. Get(index', file', d) = c /\ StoredAt(file', d, index'[d])
    BY <1>1, <1>2, <1>6, <2>2, GetHeld DEF StoredAt
  <2>4. LiveGood'
    BY <1>1, <1>9, <2>3 DEF LiveGood
  <2>5. Writing' /\ Killing'
    BY <2>1 DEF Writing, Killing, Idle
  <2>6. Live' = [x \in Dbref |-> Get(index', file', x)]
    BY <1>1, <2>1 DEF Live, Idle
  <2>7. Live' = Live
    BY <1>10, <1>13, <2>3, <2>6
  <2> QED  BY <1>5, <1>12, <1>14, <2>4, <2>5, <2>7 DEF CInv, MapStep, Map!vars
<1>16. CASE op.part + 1 # Size[c]
  <2>1. op' = [op EXCEPT !.part = @ + 1]
    BY <1>16 DEF PutWrites
  <2>2. /\ op'.pc = "write" /\ op'.dbref = d /\ op'.contents = c /\ op'.at = op.at
        /\ op'.part = op.part + 1
    BY <1>1, <2>1 DEF Ops, Idle
  <2>3. LiveGood'
    BY <1>1, <1>9, <2>2 DEF LiveGood
  <2>4. Killing'
    BY <2>2 DEF Killing
  <2>5. Writing'
    <3>1. 0 .. op'.part - 1 = 0 .. op.part
      BY <1>2, <2>2
    <3> QED  BY <1>1, <1>11, <2>2, <3>1 DEF Writing
  <2>6. Live' = [x \in Dbref |-> IF x = d THEN c ELSE Get(index', file', x)]
    BY <1>1, <2>2 DEF Live
  <2>7. Live' = Live
    BY <1>10, <1>13, <2>6
  <2> QED  BY <1>5, <1>12, <1>14, <2>3, <2>4, <2>5, <2>7 DEF CInv, MapStep, Map!vars
<1> QED  BY <1>15, <1>16

\* The begin of db_del(), which takes the object out of the index, is the
\* step of the map.
LEMMA MapDelete ==
  ASSUME CInv, NEW d \in Dbref, Delete(d)
  PROVE  CInv' /\ MapStep
<1>1. /\ UNCHANGED <<clean, file, indexDisk, phase>>
      /\ op = Idle /\ phase # "down"
      /\ op' = [pc |-> "dirty", dbref |-> d, entry |-> index[d]]
      /\ index' = [index EXCEPT ![d] = NoEntry]
  BY DEF Delete, Ready, files
<1>2. \A x \in Dbref : index'[x] = IF x = d THEN NoEntry ELSE index[x]
  BY <1>1 DEF CInv, IInv, TypeOK
<1>3. IInv'
  BY DeleteKeeps DEF CInv
<1>4. LiveGood' /\ SafeGood' /\ Writing' /\ Killing'
  BY <1>1, <1>2 DEF CInv, LiveGood, SafeGood, Writing, Killing, Idle
<1>5. Safe' = Safe
  BY <1>1 DEF Safe
<1>6. Live = [x \in Dbref |-> Get(index, file, x)]
  BY <1>1, LiveIs DEF Idle
<1>7. Live' = [x \in Dbref |-> Get(index', file, x)]
  BY <1>1 DEF Live
<1>8. \A x \in Dbref : Get(index', file, x) = IF x = d THEN NoObject ELSE Get(index, file, x)
  <2> TAKE x \in Dbref
  <2>1. CASE x = d
    BY <1>2, <2>1, GetNone
  <2>2. CASE x # d
    BY <1>2, <2>2, GetSame
  <2> QED  BY <2>1, <2>2
<1>9. Live' = [Live EXCEPT ![d] = NoObject]
  BY <1>6, <1>7, <1>8
<1> QED  BY <1>3, <1>4, <1>5, <1>9 DEF CInv, MapStep, Map!Next, Map!Delete

\* When db_del() goes on and gives the blocks back, the map stays as it is.
LEMMA MapDeleteDirties ==
  ASSUME CInv, DeleteDirties
  PROVE  CInv' /\ MapStep
<1>1. /\ UNCHANGED <<file, indexDisk, phase, index>>
      /\ op.pc = "dirty" /\ op \in Ops
      /\ clean' = (clean /\ ~db_clean)
      /\ op' = [pc |-> "kill", at |-> op.entry.start]
  BY DEF DeleteDirties, db_is_dirty, CInv, IInv, TypeOK
<1>2. op.entry \in Entry /\ phase # "down"
  BY <1>1 DEF Ops, Idle, CInv, IInv, Resting
<1>3. ~clean'
  BY <1>1, <1>2 DEF CInv, IInv, Flags, TypeOK
<1>4. IInv'
  BY DeleteDirtiesKeeps DEF CInv
<1>5. Killing'
  <2>1. op.entry.start \in Run(op.entry)
    BY <1>2, RunStarts
  <2>2. \A d \in Dbref : index[d] # NoEntry => op.entry.start \notin Run(index[d])
    BY <1>1, <2>1 DEF CInv, IInv, Removed
  <2> QED  BY <1>1, <1>3, <2>2 DEF Killing
<1>6. LiveGood' /\ SafeGood' /\ Writing'
  BY <1>1, <1>3 DEF CInv, LiveGood, SafeGood, Writing
<1>7. Safe' = Nothing
  BY <1>3 DEF Safe
<1>8. Live' = Live
  BY <1>1, <1>2 DEF Live
<1> QED  BY <1>4, <1>5, <1>6, <1>7, <1>8 DEF CInv, MapStep, Map!Next, Map!GiveUp, Map!Nothing, Nothing

\* The word "delobj" overwrites no object.
LEMMA MapDeleteKills ==
  ASSUME CInv, DeleteKills
  PROVE  CInv' /\ MapStep
<1>1. /\ UNCHANGED <<clean, indexDisk, phase, index>>
      /\ op' = Idle /\ file' = [file EXCEPT ![op.at] = Delobj] /\ op.pc = "kill"
      /\ ~clean /\ phase # "down"
  BY DEF DeleteKills, memory, CInv, IInv, Resting, Idle, Killing
<1>2. \A a \in Block : a # op.at => file'[a] = file[a]
  BY <1>1 DEF CInv, IInv, TypeOK
<1>3. \A x \in Dbref : index[x] # NoEntry =>
        /\ StoredAt(file', x, index'[x])
        /\ Get(index', file', x) = Get(index, file, x)
  <2> SUFFICES ASSUME NEW x \in Dbref, index[x] # NoEntry
               PROVE  StoredAt(file', x, index'[x]) /\ Get(index', file', x) = Get(index, file, x)
    OBVIOUS
  <2>1. index[x] \in Entry /\ StoredAt(file, x, index[x])
    BY <1>1 DEF CInv, IInv, TypeOK, LiveGood
  <2>2. op.at \notin Run(index[x])
    BY <1>1 DEF CInv, Killing
  <2>3. Run(index[x]) \subseteq Block
    BY <1>1 DEF CInv, IInv, Bitmap, Inside, TypeOK
  <2>4. \A a \in Run(index[x]) : file'[a] = file[a]
    BY <1>2, <2>2, <2>3
  <2>5. index'[x] = index[x]
    BY <1>1
  <2> QED  BY <2>1, <2>4, <2>5, GetElsewhere
<1>4. \A x \in Dbref : Get(index', file', x) = Get(index, file, x)
  BY <1>1, <1>3, GetNone
<1>5. IInv'
  BY DeleteKillsKeeps DEF CInv
<1>6. LiveGood' /\ SafeGood' /\ Writing' /\ Killing'
  BY <1>1, <1>3 DEF LiveGood, SafeGood, Writing, Killing, Idle
<1>7. Safe' = Safe
  BY <1>1 DEF Safe
<1>8. Live = [x \in Dbref |-> Get(index, file, x)]
  BY <1>1, LiveIs
<1>9. Live' = [x \in Dbref |-> Get(index', file', x)]
  BY <1>1 DEF Live, Idle
<1>10. Live' = Live
  BY <1>4, <1>8, <1>9
<1> QED  BY <1>5, <1>6, <1>7, <1>10 DEF CInv, MapStep, Map!vars

\* A flush makes safe what is live, because every object is in its blocks.
LEMMA MapFlush ==
  ASSUME CInv, IInv', Ready, indexDisk' = index, db_is_clean,
         UNCHANGED <<file, phase, index>>, op' \in {Idle, [pc |-> "rename"]}
  PROVE  CInv' /\ MapStep
<1>1. clean' /\ op = Idle /\ op'.pc \in {"idle", "rename"} /\ phase # "down"
  BY DEF Ready, db_is_clean, Idle
<1>2. LiveGood' /\ SafeGood' /\ Writing' /\ Killing'
  BY <1>1 DEF CInv, LiveGood, SafeGood, Writing, Killing, Idle
<1>3. Live = [x \in Dbref |-> Get(index, file, x)]
  BY <1>1, LiveIs DEF Idle
<1>4. Live' = Live
  BY <1>1, <1>3 DEF Live
<1>5. Safe' = Live
  BY <1>1, <1>3 DEF Safe
<1> QED  BY <1>2, <1>4, <1>5 DEF CInv, MapStep, Map!Next, Map!Dump

\* The renaming of a text dump leaves the map as it is.
LEMMA MapRenames ==
  ASSUME CInv, TextDumpRenames
  PROVE  CInv' /\ MapStep
<1>1. UNCHANGED <<clean, file, indexDisk, phase, index>> /\ op' = Idle /\ op.pc = "rename"
  BY DEF TextDumpRenames
<1>2. IInv'
  BY TextDumpRenamesKeeps DEF CInv
<1>3. LiveGood' /\ SafeGood' /\ Writing' /\ Killing'
  BY <1>1 DEF CInv, LiveGood, SafeGood, Writing, Killing, Idle
<1>4. Safe' = Safe /\ Live' = Live
  BY <1>1 DEF Safe, Live, Idle
<1> QED  BY <1>2, <1>3, <1>4 DEF CInv, MapStep, Map!vars

-----------------------------------------------------------------------------
\* Every step is one of the map, or none.
LEMMA MapStepKeeps == CInv /\ [Next]_vars => CInv' /\ MapStep
<1> SUFFICES ASSUME CInv, [Next]_vars PROVE CInv' /\ MapStep
  OBVIOUS
<1>1. CASE StartTrusting
  BY <1>1, MapStartTrusting
<1>2. CASE StartAnew
  BY <1>2, MapStartAnew
<1>3. CASE FailToStart
  BY <1>3, MapEnd DEF FailToStart
<1>4. CASE OpenTextDump \/ TextDumpRead
  BY <1>4, MapStartGoesOn
<1>5. CASE Crash
  BY <1>5, MapEnd DEF Crash
<1>6. ASSUME NEW d \in Dbref, WriteIndex(d) PROVE CInv' /\ MapStep
  BY <1>6, MapWriteIndex
<1>7. ASSUME NEW d \in Dbref, NEW c \in Contents, Put(d, c) PROVE CInv' /\ MapStep
  BY <1>7, MapPut
<1>8. CASE PutStores
  BY <1>8, MapPutStores
<1>9. CASE PutWrites
  BY <1>9, MapPutWrites
<1>10. ASSUME NEW d \in Dbref, Delete(d) PROVE CInv' /\ MapStep
  BY <1>10, MapDelete
<1>11. CASE DeleteDirties
  BY <1>11, MapDeleteDirties
<1>12. CASE DeleteKills
  BY <1>12, MapDeleteKills
<1>13. CASE Flush \/ TextDump
  <2>1. IInv'
    BY StepKeeps, <1>13 DEF CInv, Next
  <2>2. Ready /\ indexDisk' = index /\ db_is_clean /\ UNCHANGED <<file, phase, index>>
        /\ op' \in {Idle, [pc |-> "rename"]}
    BY <1>13 DEF Flush, TextDump, Ready
  <2> QED  BY <2>1, <2>2, MapFlush
<1>14. CASE TextDumpRenames
  BY <1>14, MapRenames
<1>15. CASE UNCHANGED vars
  <2>1. IInv'
    BY StepKeeps, <1>15 DEF CInv
  <2>2. UNCHANGED <<clean, file, indexDisk, phase, index, op>>
    BY <1>15 DEF vars, files
  <2>3. LiveGood' /\ SafeGood' /\ Writing' /\ Killing'
    BY <2>2 DEF CInv, LiveGood, SafeGood, Writing, Killing
  <2>4. Safe' = Safe /\ Live' = Live
    BY <2>2 DEF Safe, Live
  <2> QED  BY <2>1, <2>3, <2>4 DEF CInv, MapStep, Map!vars
<1> QED
  BY <1>1, <1>2, <1>3, <1>4, <1>5, <1>6, <1>7, <1>8, <1>9, <1>10, <1>11, <1>12, <1>13, <1>14, <1>15
  DEF Next

(***************************************************************************)
(* The binary database keeps its promise: db_get() answers what db_put()   *)
(* and db_del() left, and a start after any end of the process finds what  *)
(* the last dump saved, less what was being deleted, or nothing.           *)
(***************************************************************************)
THEOREM PromiseKept == Spec => KeepsItsPromise
<1>1. CInv /\ [Next]_vars => [Map!Next]_(Map!vars)
  BY MapStepKeeps DEF MapStep
<1>2. CInv /\ [Next]_vars => CInv'
  BY MapStepKeeps
<1>3. Init => CInv /\ Map!Init
  BY MapInitially
<1> QED  BY <1>1, <1>2, <1>3, PTL DEF Spec, KeepsItsPromise, Map!Spec
=============================================================================

-------------------------- MODULE FileSystemProofs --------------------------
(***************************************************************************)
(* What holds of the file system of fs/fs.c for any number of slots, any   *)
(* names, users, modes and contents, and any size of the pool: the tables  *)
(* stay a tree, in memory and on the disk, every file has a block of its   *)
(* own, rm -r stays in its tree and is saved once, failure costs nothing,  *)
(* and the permissions hold.                                               *)
(*                                                                         *)
(* First come paths, tables and the pool's calls as the file system makes  *)
(* them; then each call keeps FSInv; then the theorems, and the action     *)
(* properties that follow.                                                 *)
(***************************************************************************)
EXTENDS FileSystem, FilePoolProofs, SequenceTheorems

---------------------------------------------------------------------------
(***************************************************************************)
(* The inductive invariant.                                                *)
(***************************************************************************)
Contents == Seq(Bytes \cup {Junk})

FileRec == [used : BOOLEAN, name : Path, ptr : Nat, data : Contents,
            owner : Uids, mode : SUBSET Bits]
DirRec == [used : BOOLEAN, name : Path, owner : Uids, mode : SUBSET Bits]

\* Well-formed tables; a slot that is not in use has no contents.
FilesOK(fs) == /\ fs \in [FSlot -> FileRec]
               /\ \A i \in FSlot : Len(fs[i].data) <= MaxFile
               /\ \A i \in FSlot : fs[i].data # <<>> => fs[i].used
DirsOK(ds) == ds \in [DSlot -> DirRec]

Whole(fs, ds) == TreeOf(fs, ds) /\ NamesUniqueIn(fs, ds)

TablesOK(fs, ds) == FilesOK(fs) /\ DirsOK(ds) /\ Whole(fs, ds)

\* An image that can be booted from.
ImageOK(img) == /\ TablesOK(img.files, img.dirs)
                /\ img.cwd \in Path
                /\ \A i \in FSlot : img.files[i].ptr = NULL

\* BlocksOwned, of any table and pool.
Owned(fs, h) ==
    /\ \A i \in FSlot :
         /\ fs[i].data = <<>> <=> fs[i].ptr = NULL
         /\ fs[i].ptr # NULL => /\ fs[i].used
                                /\ fs[i].ptr \in DOMAIN Live(h)
                                /\ Live(h)[fs[i].ptr] > Len(fs[i].data)
    /\ \A i, j \in FSlot : fs[i].ptr = fs[j].ptr /\ fs[i].ptr # NULL => i = j
    /\ \A ptr \in DOMAIN Live(h) : \E i \in FSlot : fs[i].ptr = ptr

PoolOK(fs, h) == Good(h) /\ Merged(h) /\ Owned(fs, h)

\* What a spelling of several characters has for its single one.
Long == ""

Spelling == [full : Path, slash : BOOLEAN, short : Short \cup {Long}]

Level == [sp : Spelling,
          ds : SUBSET (DSlot \X Names), fs : SUBSET (FSlot \X Names)]

\* Every activation of rm -r counts in the batch depth, and the path of each
\* is at least as long as it is deep: the recursion cannot outgrow PathLen.
StackOK == /\ stack \in Seq(Level) /\ batch \in Nat /\ Len(stack) <= batch
           /\ \A k \in 1 .. Len(stack) : /\ Len(stack[k].sp.full) >= k - 1
                                         /\ k > 1 => stack[k].sp.short = Long

Results == [op : Ops, rc : -4 .. 0, errno : {0, 13}]

FSInv == /\ TablesOK(files, dirs) /\ ImageOK(disk) /\ PoolOK(files, pool)
         /\ cwd \in Path /\ uid \in Uids /\ ret \in Results
         /\ StackOK

---------------------------------------------------------------------------
(***************************************************************************)
(* Paths and slots.                                                        *)
(***************************************************************************)

\* A path is a sequence of at most PathLen names.
LEMMA PathFacts ==
    ASSUME NEW p
    PROVE  p \in Path <=> p \in Seq(Names) /\ Len(p) <= PathLen
<1>1. ASSUME p \in Path PROVE p \in Seq(Names) /\ Len(p) <= PathLen
  <2>1. PICK n \in 0 .. PathLen : p \in [1 .. n -> Names]
    BY <1>1 DEF Path
  <2> QED BY <2>1, FSAssumption
<1>2. ASSUME p \in Seq(Names), Len(p) <= PathLen PROVE p \in Path
  <2>1. Len(p) \in 0 .. PathLen /\ p \in [1 .. Len(p) -> Names]
    BY <1>2, FSAssumption, LenProperties
  <2> QED BY <2>1 DEF Path
<1> QED BY <1>1, <1>2

LEMMA RootPath == Root \in Path
<1>1. <<>> \in Seq(Names) /\ Len(<<>>) = 0
  BY EmptySeq
<1>2. 0 <= PathLen
  BY FSAssumption
<1>3. <<>> \in Path
  BY <1>1, <1>2, PathFacts
<1> QED BY <1>3 DEF Root

\* The path above one with several components is not the root.
LEMMA FrontFacts ==
    ASSUME NEW p \in Path
    PROVE  /\ Len(p) \in Nat /\ p \in Seq(Names)
           /\ p # Root => /\ Len(p) > 0 /\ Front(p) \in Path
                          /\ Len(Front(p)) = Len(p) - 1
           /\ Len(p) > 1 => Front(p) # Root
<1>1. p \in Seq(Names) /\ Len(p) <= PathLen /\ Len(p) \in Nat
  BY PathFacts, LenProperties
<1>2. p # Root => Len(p) > 0
  BY <1>1, EmptySeq DEF Root
<1>3. ASSUME Len(p) > 0
      PROVE  /\ Front(p) \in Seq(Names) /\ Len(Front(p)) = Len(p) - 1
  <2>1. /\ 1 \in Int /\ Len(p) - 1 \in Int
        /\ \A i \in 1 .. Len(p) - 1 : p[i] \in Names
    BY <1>1, <1>3
  <2>2. /\ SubSeq(p, 1, Len(p) - 1) \in Seq(Names)
        /\ Len(SubSeq(p, 1, Len(p) - 1)) =
               IF 1 <= Len(p) - 1 THEN (Len(p) - 1) - 1 + 1 ELSE 0
    BY ONLY <2>1, SubSeqProperties
  <2>3. \A n \in Nat : n > 0 => (IF 1 <= n - 1 THEN (n - 1) - 1 + 1 ELSE 0) = n - 1
    OBVIOUS
  <2>4. Len(SubSeq(p, 1, Len(p) - 1)) = Len(p) - 1
    BY ONLY <1>1, <1>3, <2>2, <2>3, Zenon
  <2> QED BY <2>2, <2>4 DEF Front
<1>4. Len(p) > 0 => Front(p) \in Path
  BY <1>1, <1>3, PathFacts, FSAssumption
<1>5. Len(<<>>) = 0
  BY EmptySeq
<1> QED BY <1>1, <1>2, <1>3, <1>4, <1>5 DEF Root

\* The tables are searched from slot 0: the slot that is found is one of them.
LEMMA LowestIn ==
    ASSUME NEW S, S \subseteq Nat, S # {}
    PROVE  Lowest(S) \in S
BY NatMin DEF Lowest

LEMMA SlotFacts == /\ FSlot \subseteq Nat /\ DSlot \subseteq Nat
                   /\ UsedF \subseteq FSlot /\ UsedD \subseteq DSlot
                   /\ \A p : FileAt(p) \subseteq UsedF /\ DirAt(p) \subseteq UsedD
BY FSAssumption DEF FSlot, DSlot, UsedF, UsedD, FileAt, DirAt

---------------------------------------------------------------------------
(***************************************************************************)
(* What keeps a tree whole.                                                *)
(***************************************************************************)

\* Files may go and everything else may change but the names.
LEMMA WholeLess ==
    ASSUME NEW fs, NEW ds, NEW gs, NEW es, Whole(fs, ds),
           \A i \in FSlot : gs[i].used => fs[i].used /\ gs[i].name = fs[i].name,
           \A d \in DSlot : es[d].used = ds[d].used,
           \A d \in DSlot : es[d].used => es[d].name = ds[d].name
    PROVE  Whole(gs, es)
<1>1. NamesUniqueIn(gs, es)
  BY DEF Whole, NamesUniqueIn
<1>2. TreeOf(gs, es)
  BY DEF Whole, TreeOf
<1> QED BY <1>1, <1>2 DEF Whole

LEMMA WholeFewer ==
    ASSUME NEW fs, NEW ds, NEW gs, Whole(fs, ds),
           \A i \in FSlot : gs[i].used => fs[i].used /\ gs[i].name = fs[i].name
    PROVE  Whole(gs, ds)
BY WholeLess

\* A file whose name is free and whose parent exists may be added.
LEMMA WholeFile ==
    ASSUME NEW fs, NEW ds, NEW gs, Whole(fs, ds), NEW i \in FSlot,
           Len(gs[i].name) > 1 =>
              \E d \in DSlot : ds[d].used /\ ds[d].name = Front(gs[i].name),
           \A j \in FSlot : fs[j].used => fs[j].name # gs[i].name,
           \A d \in DSlot : ds[d].used => ds[d].name # gs[i].name,
           \A j \in FSlot \ {i} : gs[j].used => fs[j].used /\ gs[j].name = fs[j].name
    PROVE  Whole(gs, ds)
<1>1. NamesUniqueIn(gs, ds)
  BY DEF Whole, NamesUniqueIn
<1>2. TreeOf(gs, ds)
  BY DEF Whole, TreeOf
<1> QED BY <1>1, <1>2 DEF Whole

\* So may a directory.
LEMMA WholeDir ==
    ASSUME NEW fs, NEW ds, NEW es, Whole(fs, ds), NEW d \in DSlot,
           ~ds[d].used,
           Len(es[d].name) > 1 =>
              \E e \in DSlot : ds[e].used /\ ds[e].name = Front(es[d].name),
           \A j \in FSlot : fs[j].used => fs[j].name # es[d].name,
           \A e \in DSlot : ds[e].used => ds[e].name # es[d].name,
           \A e \in DSlot \ {d} : es[e] = ds[e]
    PROVE  Whole(fs, es)
<1>1. NamesUniqueIn(fs, es)
  BY DEF Whole, NamesUniqueIn
<1>2. TreeOf(fs, es)
  BY DEF Whole, TreeOf
<1> QED BY <1>1, <1>2 DEF Whole

\* A directory without children may go.
LEMMA WholeWithout ==
    ASSUME NEW fs, NEW ds, NEW es, Whole(fs, ds), NEW d \in DSlot, ~es[d].used,
           \A e \in DSlot \ {d} : es[e] = ds[e],
           \A j \in FSlot : fs[j].used /\ Len(fs[j].name) > 1
                              => Front(fs[j].name) # ds[d].name,
           \A e \in DSlot : ds[e].used /\ Len(ds[e].name) > 1
                              => Front(ds[e].name) # ds[d].name
    PROVE  Whole(fs, es)
<1>1. NamesUniqueIn(fs, es)
  BY DEF Whole, NamesUniqueIn
<1>2. TreeOf(fs, es)
  BY DEF Whole, TreeOf
<1> QED BY <1>1, <1>2 DEF Whole

---------------------------------------------------------------------------
(***************************************************************************)
(* What the operations on the tables do to them.                           *)
(***************************************************************************)

\* A commit leaves an image that can be booted from.
LEMMA ImageFacts ==
    ASSUME NEW fs, NEW ds, TablesOK(fs, ds), cwd \in Path
    PROVE  ImageOK(Image(fs, ds))
<1> DEFINE img == Image(fs, ds)
<1>1. /\ img.dirs = ds /\ img.cwd = cwd
      /\ img.files = [i \in FSlot |-> [fs[i] EXCEPT !.ptr = NULL]]
  BY DEF Image
<1>2. fs \in [FSlot -> FileRec]
  BY DEF TablesOK, FilesOK
<1>3. \A i \in FSlot :
         /\ img.files[i] \in FileRec
         /\ img.files[i].used = fs[i].used /\ img.files[i].name = fs[i].name
         /\ img.files[i].data = fs[i].data /\ img.files[i].ptr = NULL
  BY <1>1, <1>2 DEF FileRec, NULL
<1>4. FilesOK(img.files)
  BY <1>1, <1>3 DEF TablesOK, FilesOK
<1>5. Whole(img.files, img.dirs)
  BY <1>1, <1>3, WholeLess DEF TablesOK
<1> QED BY <1>1, <1>3, <1>4, <1>5 DEF TablesOK, ImageOK

\* New contents for a file that is there.
LEMMA DataFacts ==
    ASSUME NEW fs, NEW ds, TablesOK(fs, ds), NEW i \in FSlot, NEW gs,
           gs \in [FSlot -> FileRec], gs[i].used, fs[i].used, gs[i].name = fs[i].name,
           Len(gs[i].data) <= MaxFile, \A j \in FSlot \ {i} : gs[j] = fs[j]
    PROVE  TablesOK(gs, ds)
<1>1. FilesOK(gs)
  BY DEF TablesOK, FilesOK
<1>2. \A j \in FSlot : gs[j].used => fs[j].used /\ gs[j].name = fs[j].name
  OBVIOUS
<1>3. Whole(gs, ds)
  BY <1>2, WholeFewer DEF TablesOK
<1> QED BY <1>1, <1>3 DEF TablesOK

\* A file that goes.
LEMMA EmptyFacts ==
    ASSUME NEW fs, NEW ds, TablesOK(fs, ds), NEW i \in FSlot, NEW gs,
           gs = [fs EXCEPT ![i] = EmptyFile]
    PROVE  TablesOK(gs, ds)
<1>1. fs \in [FSlot -> FileRec]
  BY DEF TablesOK, FilesOK
<1>2. EmptyFile \in FileRec /\ ~EmptyFile.used /\ EmptyFile.data = <<>>
  BY FSAssumption, RootPath, EmptySeq DEF EmptyFile, FileRec, NULL, Contents, M755
<1>3. gs \in [FSlot -> FileRec]
  BY <1>1, <1>2
<1>4. Len(<<>>) = 0 /\ MaxFile \in Nat
  BY FSAssumption, EmptySeq
<1>5. FilesOK(gs)
  BY <1>1, <1>2, <1>3, <1>4 DEF TablesOK, FilesOK
<1>6. \A j \in FSlot : gs[j].used => fs[j].used /\ gs[j].name = fs[j].name
  BY <1>1, <1>2
<1>7. Whole(gs, ds)
  BY <1>6, WholeFewer DEF TablesOK
<1> QED BY <1>5, <1>7 DEF TablesOK

\* A path whose parent exists: what the whole tree asks of a new entry.
LEMMA ParentFacts ==
    ASSUME NEW p \in Path, parent_exists(p), Len(p) > 1
    PROVE  \E d \in DSlot : dirs[d].used /\ dirs[d].name = Front(p)
<1>1. ~(Len(p) <= 1) /\ Front(p) # Root
  BY FrontFacts
<1>2. DirAt(Front(p)) # {}
  BY <1>1 DEF parent_exists, fs_directory_exists
<1> QED BY <1>2 DEF DirAt, UsedD

\* The file that the calls which write find or create.
LEMMA CreateFacts ==
    ASSUME TablesOK(files, dirs), uid \in Uids, NEW p \in Path,
           FileAt(p) # {} \/ CreateResult(p).rc = 0
    PROVE  /\ SlotFor(p) \in FSlot /\ WithFile(p)[SlotFor(p)].used
           /\ TablesOK(WithFile(p), dirs)
           /\ \A j \in FSlot \ {SlotFor(p)} : WithFile(p)[j] = files[j]
           /\ FileAt(p) # {} => WithFile(p) = files
           /\ FileAt(p) = {} => /\ ~files[SlotFor(p)].used
                               /\ WithFile(p)[SlotFor(p)] = NewFile(p)
<1> DEFINE i == SlotFor(p)
           gs == WithFile(p)
<1>0. files \in [FSlot -> FileRec]
  BY DEF TablesOK, FilesOK
<1>1. CASE FileAt(p) # {}
  <2>1. Lowest(FileAt(p)) \in FileAt(p)
    BY <1>1, LowestIn, SlotFacts
  <2>2. i \in FileAt(p) /\ gs = files
    BY <1>1, <2>1 DEF SlotFor, WithFile
  <2>3. i \in FSlot /\ files[i].used
    BY <2>2 DEF FileAt, UsedF
  <2> QED BY <1>1, <2>2, <2>3
<1>2. CASE FileAt(p) = {}
  <2>1. CreateResult(p).rc = 0
    BY <1>2
  <2>2. parent_exists(p) /\ DirAt(p) = {} /\ FreeF # {}
    BY <1>2, <2>1 DEF CreateResult
  <2>3. Lowest(FreeF) \in FreeF
    BY <2>2, LowestIn, SlotFacts DEF FreeF
  <2>4. i = Lowest(FreeF) /\ i \in FSlot /\ ~files[i].used
    BY <1>2, <2>3 DEF SlotFor, FreeF, UsedF
  <2>5. gs = [files EXCEPT ![i] = NewFile(p)]
    BY <1>2, <2>4 DEF WithFile
  <2>6. /\ NewFile(p) \in FileRec /\ NewFile(p).used /\ NewFile(p).data = <<>>
        /\ NewFile(p).name = p
    BY EmptySeq DEF NewFile, FileRec, NULL, Contents, M644, Bits
  <2>7. /\ gs[i] = NewFile(p) /\ gs \in [FSlot -> FileRec]
        /\ \A j \in FSlot \ {i} : gs[j] = files[j]
    BY <1>0, <2>4, <2>5, <2>6
  <2>8. FilesOK(gs)
    <3>1. Len(<<>>) = 0 /\ MaxFile \in Nat
      BY FSAssumption, EmptySeq
    <3> QED BY <2>6, <2>7, <3>1 DEF TablesOK, FilesOK
  <2>9. Whole(gs, dirs)
    <3>1. gs[i].name = p
      BY <2>6, <2>7
    <3>2. Len(gs[i].name) > 1 =>
             \E d \in DSlot : dirs[d].used /\ dirs[d].name = Front(gs[i].name)
      BY <2>2, <3>1, ParentFacts
    <3>3. /\ \A j \in FSlot : files[j].used => files[j].name # gs[i].name
          /\ \A d \in DSlot : dirs[d].used => dirs[d].name # gs[i].name
      BY <1>2, <2>2, <3>1 DEF FileAt, UsedF, DirAt, UsedD
    <3>4. \A j \in FSlot \ {i} : gs[j].used =>
                                   files[j].used /\ gs[j].name = files[j].name
      BY <2>7
    <3> HIDE DEF gs, i
    <3> QED BY <2>4, <3>2, <3>3, <3>4, WholeFile DEF TablesOK
  <2> QED BY <1>2, <2>4, <2>6, <2>7, <2>8, <2>9 DEF TablesOK
<1> QED BY <1>1, <1>2

\* What the disk holds once it exists.
LEMMA CreateDisk ==
    ASSUME TablesOK(files, dirs), ImageOK(disk), cwd \in Path, uid \in Uids,
           NEW p \in Path, FileAt(p) # {} \/ CreateResult(p).rc = 0
    PROVE  ImageOK(DiskWithFile(p))
BY CreateFacts, ImageFacts DEF DiskWithFile, Committed

\* A directory that is made.
LEMMA MkdirFacts ==
    ASSUME TablesOK(files, dirs), uid \in Uids, NEW p \in Path, parent_exists(p),
           DirAt(p) = {}, FileAt(p) = {}, NEW d \in DSlot, ~dirs[d].used, NEW es,
           es = [dirs EXCEPT ![d] = [used |-> TRUE, name |-> p, owner |-> uid, mode |-> M755]]
    PROVE  TablesOK(files, es)
<1>1. dirs \in [DSlot -> DirRec]
  BY DEF TablesOK, DirsOK
<1>2. [used |-> TRUE, name |-> p, owner |-> uid, mode |-> M755] \in DirRec
  BY DEF DirRec, M755
<1>3. es \in [DSlot -> DirRec] /\ es[d].name = p /\ \A e \in DSlot \ {d} : es[e] = dirs[e]
  BY <1>1, <1>2
<1>4. Len(es[d].name) > 1 =>
         \E e \in DSlot : dirs[e].used /\ dirs[e].name = Front(es[d].name)
  BY <1>3, ParentFacts
<1>5. /\ \A j \in FSlot : files[j].used => files[j].name # es[d].name
      /\ \A e \in DSlot : dirs[e].used => dirs[e].name # es[d].name
  BY <1>3 DEF FileAt, UsedF, DirAt, UsedD
<1>6. Whole(files, es)
  <2>1. Whole(files, dirs) /\ d \in DSlot /\ ~dirs[d].used
    BY DEF TablesOK
  <2> QED BY ONLY <1>3, <1>4, <1>5, <2>1, WholeDir
<1> QED BY <1>3, <1>6 DEF TablesOK, DirsOK

\* A directory that has no children and goes.  Under the root there may be
\* children: what hangs on it hangs on nothing.
LEMMA RmdirFacts ==
    ASSUME TablesOK(files, dirs), NEW p, Children(p) = {}, DirAt(p) # {}
    PROVE  /\ Lowest(DirAt(p)) \in DirAt(p)
           /\ TablesOK(files, WithoutDir(p))
<1> DEFINE d == Lowest(DirAt(p))
           es == WithoutDir(p)
<1>1. dirs \in [DSlot -> DirRec] /\ files \in [FSlot -> FileRec]
  BY DEF TablesOK, DirsOK, FilesOK
<1>2. d \in DirAt(p)
  BY LowestIn, SlotFacts
<1>3. d \in DSlot /\ dirs[d].name = p
  BY <1>2 DEF DirAt, UsedD
<1>4. EmptyDir \in DirRec /\ ~EmptyDir.used
  BY FSAssumption, RootPath DEF EmptyDir, DirRec, M755
<1>5. /\ es \in [DSlot -> DirRec] /\ ~es[d].used
      /\ \A e \in DSlot \ {d} : es[e] = dirs[e]
  BY <1>1, <1>3, <1>4 DEF WithoutDir
<1>6. \A n \in Path : Len(n) > 1 /\ Front(n) = p => n # Root /\ p # Root
  <2>1. Len(Root) = 0
    BY EmptySeq DEF Root
  <2> QED BY <2>1, FrontFacts
<1>7. \A j \in FSlot : files[j].name \in Path
  BY <1>1 DEF FileRec
<1>8. \A e \in DSlot : dirs[e].name \in Path
  BY <1>1 DEF DirRec
<1>9. /\ \A j \in FSlot : files[j].used /\ Len(files[j].name) > 1
                              => Front(files[j].name) # dirs[d].name
      /\ \A e \in DSlot : dirs[e].used /\ Len(dirs[e].name) > 1
                              => Front(dirs[e].name) # dirs[d].name
  BY <1>3, <1>6, <1>7, <1>8 DEF Children, UsedF, UsedD
<1>10. Whole(files, es)
  <2> HIDE DEF d, es
  <2> QED BY <1>3, <1>5, <1>9, WholeWithout DEF TablesOK
<1> QED BY <1>2, <1>5, <1>10 DEF TablesOK, DirsOK

\* Owners and modes change, nothing else.
LEMMA MetaFacts ==
    ASSUME TablesOK(files, dirs), NEW gs, NEW es,
           gs \in [FSlot -> FileRec], es \in [DSlot -> DirRec],
           \A i \in FSlot : /\ gs[i].used = files[i].used /\ gs[i].name = files[i].name
                            /\ gs[i].data = files[i].data /\ gs[i].ptr = files[i].ptr,
           \A d \in DSlot : es[d].used = dirs[d].used /\ es[d].name = dirs[d].name
    PROVE  TablesOK(gs, es)
<1>1. FilesOK(gs) /\ DirsOK(es)
  BY DEF TablesOK, FilesOK, DirsOK
<1>2. Whole(gs, es)
  BY WholeLess DEF TablesOK
<1> QED BY <1>1, <1>2 DEF TablesOK

---------------------------------------------------------------------------
(***************************************************************************)
(* File contents and the pool.                                             *)
(***************************************************************************)

\* No allocation starts at the null pointer.
LEMMA LivePointers ==
    ASSUME NEW h, Good(h), NEW q \in DOMAIN Live(h)
    PROVE  q \in Nat /\ q # NULL /\ Live(h)[q] \in Nat /\ q + Live(h)[q] <= PoolBytes
<1>1. PoolType(h) /\ Tiled(h)
  BY DEF Good
<1>2. q \in Nat /\ q - HDR \in DOMAIN h /\ Live(h)[q] = h[q - HDR].size
  BY <1>1, LiveFacts
<1>3. /\ q - HDR \in Nat /\ h[q - HDR].size \in Nat
      /\ NextOff(h, q - HDR) = (q - HDR) + 8 + h[q - HDR].size
  BY <1>1, <1>2, NextOffFacts
<1>4. NextOff(h, q - HDR) <= PoolBytes
  BY <1>1, <1>2 DEF Tiled, Linked
<1> QED BY <1>2, <1>3, <1>4, PoolAssumption DEF HDR, NULL

\* fpool_free, of a live pointer or of NULL.
LEMMA FreeFacts ==
    ASSUME NEW h, Good(h), Merged(h), NEW ptr, ptr = NULL \/ ptr \in DOMAIN Live(h)
    PROVE  /\ Good(fpool_free(h, ptr)) /\ Merged(fpool_free(h, ptr))
           /\ DOMAIN Live(fpool_free(h, ptr)) = DOMAIN Live(h) \ {ptr}
           /\ \A q \in DOMAIN Live(h) \ {ptr} :
                 Live(fpool_free(h, ptr))[q] = Live(h)[q]
<1>1. CASE ptr = NULL
  <2>1. fpool_free(h, ptr) = h
    BY <1>1 DEF fpool_free
  <2>2. ptr \notin DOMAIN Live(h)
    BY <1>1, LivePointers
  <2> QED BY <2>1, <2>2
<1>2. CASE ptr # NULL
  <2>1. ptr \in DOMAIN Live(h) /\ fpool_free(h, ptr) = fpool_coalesce(Release(h, ptr))
    BY <1>2 DEF fpool_free
  <2>2. /\ Good(Release(h, ptr))
        /\ Live(Release(h, ptr)) = [q \in DOMAIN Live(h) \ {ptr} |-> Live(h)[q]]
    BY <2>1, ReleaseFacts
  <2>3. /\ Good(fpool_free(h, ptr)) /\ Merged(fpool_free(h, ptr))
        /\ Live(fpool_free(h, ptr)) = [q \in DOMAIN Live(h) \ {ptr} |-> Live(h)[q]]
    BY <2>1, <2>2, CoalesceGood, CoalesceLive
  <2> QED BY <2>3
<1> QED BY <1>1, <1>2

\* fdata_resize leaves the pool in order and, when it succeeds, the old block
\* free and a new one that is large enough.
LEMMA ResizeFacts ==
    ASSUME NEW h, Good(h), Merged(h), NEW size \in Nat,
           NEW ptr, ptr = NULL \/ ptr \in DOMAIN Live(h), NEW r,
           r = fdata_resize(h, ptr, size)
    PROVE  /\ r.ok \in BOOLEAN /\ Good(r.pool) /\ Merged(r.pool)
           /\ ~r.ok => r.pool = h /\ r.ptr = ptr
           /\ r.ok => /\ r.ptr \in Nat /\ (r.ptr = NULL <=> size = 0)
                      /\ r.ptr \notin DOMAIN Live(h)
                      /\ DOMAIN Live(r.pool) = (DOMAIN Live(h) \ {ptr})
                                                 \cup (IF size = 0 THEN {} ELSE {r.ptr})
                      /\ \A q \in DOMAIN Live(h) \ {ptr} :
                            Live(r.pool)[q] = Live(h)[q]
                      /\ size > 0 => Live(r.pool)[r.ptr] > size
<1>0. PoolType(h) /\ \A q \in DOMAIN Live(h) : q # NULL
  BY LivePointers DEF Good
<1>1. CASE size = 0
  <2>1. r = [ok |-> TRUE, pool |-> fpool_free(h, ptr), ptr |-> NULL]
    BY <1>1 DEF fdata_resize
  <2>2. /\ Good(r.pool) /\ Merged(r.pool)
        /\ DOMAIN Live(r.pool) = DOMAIN Live(h) \ {ptr}
        /\ \A q \in DOMAIN Live(h) \ {ptr} : Live(r.pool)[q] = Live(h)[q]
    <3>1. /\ Good(fpool_free(h, ptr)) /\ Merged(fpool_free(h, ptr))
          /\ DOMAIN Live(fpool_free(h, ptr)) = DOMAIN Live(h) \ {ptr}
          /\ \A q \in DOMAIN Live(h) \ {ptr} :
                Live(fpool_free(h, ptr))[q] = Live(h)[q]
      BY FreeFacts
    <3>2. r.pool = fpool_free(h, ptr)
      BY <2>1
    <3> QED BY <3>1, <3>2
  <2>3. r.ok /\ r.ok \in BOOLEAN /\ r.ptr = NULL /\ r.ptr \in Nat
    BY <2>1 DEF NULL
  <2> QED BY <1>0, <1>1, <2>2, <2>3
<1>2. CASE size # 0 /\ Fits(h, size + 1) = {}
  <2>1. r = [ok |-> FALSE, pool |-> h, ptr |-> ptr]
    BY <1>2 DEF fdata_resize
  <2> QED BY <2>1
<1>3. CASE size # 0 /\ Fits(h, size + 1) # {}
  <2> DEFINE o == Lowest(Fits(h, size + 1))
             c == Carve(h, o, size + 1)
  <2>1. DOMAIN h \subseteq Nat
    BY <1>0, PoolAssumption DEF PoolType
  <2>2. o \in Fits(h, size + 1)
    BY <1>3, <2>1, LowestIn DEF Fits
  <2>3. o \in Nat /\ o \in DOMAIN h /\ h[o].free
    BY <2>1, <2>2 DEF Fits
  <2>4. r = [ok |-> TRUE, pool |-> fpool_free(c, ptr), ptr |-> o + HDR]
    BY <1>3 DEF fdata_resize
  <2> HIDE DEF o, c
  <2>5. o + HDR \notin DOMAIN Live(h)
    <3>1. \A q \in DOMAIN Live(h) : ~h[q - HDR].free
      BY <1>0, LiveFacts
    <3>2. (o + HDR) - HDR = o
      BY <2>3 DEF HDR
    <3> QED BY <2>3, <3>1, <3>2
  <2>6. /\ Good(c) /\ Merged(c) /\ c[o].size >= size + 1 /\ c[o].size \in Nat
        /\ Live(c) = Grow(Live(h), o + HDR, c[o].size)
    <3>1. size + 1 \in Nat
      OBVIOUS
    <3> QED BY <2>2, <3>1, CarveGood, CarveLive DEF c
  <2>7. /\ DOMAIN Live(c) = DOMAIN Live(h) \cup {o + HDR}
        /\ Live(c)[o + HDR] = c[o].size
        /\ \A q \in DOMAIN Live(h) : Live(c)[q] = Live(h)[q]
    BY <2>5, <2>6 DEF Grow
  <2>8. o + HDR \in Nat /\ o + HDR # NULL
    BY <2>3 DEF HDR, NULL
  <2>9. ptr = NULL \/ ptr \in DOMAIN Live(c)
    BY <2>7
  <2>10. /\ Good(fpool_free(c, ptr)) /\ Merged(fpool_free(c, ptr))
         /\ DOMAIN Live(fpool_free(c, ptr)) = DOMAIN Live(c) \ {ptr}
         /\ \A q \in DOMAIN Live(c) \ {ptr} :
               Live(fpool_free(c, ptr))[q] = Live(c)[q]
    BY <2>6, <2>9, FreeFacts
  <2>11. ptr # o + HDR
    BY <2>5, <2>8
  <2>12. /\ DOMAIN Live(r.pool) = (DOMAIN Live(h) \ {ptr}) \cup {r.ptr}
         /\ \A q \in DOMAIN Live(h) \ {ptr} : Live(r.pool)[q] = Live(h)[q]
         /\ Live(r.pool)[r.ptr] = c[o].size
    BY <2>4, <2>7, <2>10, <2>11
  <2>13. Live(r.pool)[r.ptr] > size
    BY <2>6, <2>12
  <2> QED BY <1>3, <2>4, <2>5, <2>8, <2>10, <2>12, <2>13
<1> QED BY <1>1, <1>2, <1>3

\* Nothing happens to the pool, and no file gains or loses contents.
LEMMA PoolSame ==
    ASSUME NEW fs, NEW h, PoolOK(fs, h), NEW gs,
           \A i \in FSlot : /\ gs[i].ptr = fs[i].ptr
                            /\ Len(gs[i].data) = Len(fs[i].data)
                            /\ gs[i].data = <<>> <=> fs[i].data = <<>>
                            /\ fs[i].used /\ fs[i].ptr # NULL => gs[i].used
    PROVE  PoolOK(gs, h)
<1>1. Owned(fs, h)
  BY DEF PoolOK
<1>2. \A i \in FSlot :
         /\ gs[i].data = <<>> <=> gs[i].ptr = NULL
         /\ gs[i].ptr # NULL => /\ gs[i].used
                                /\ gs[i].ptr \in DOMAIN Live(h)
                                /\ Live(h)[gs[i].ptr] > Len(gs[i].data)
  BY <1>1 DEF Owned
<1>3. \A i, j \in FSlot : gs[i].ptr = gs[j].ptr /\ gs[i].ptr # NULL => i = j
  BY <1>1 DEF Owned
<1>4. \A ptr \in DOMAIN Live(h) : \E i \in FSlot : gs[i].ptr = ptr
  BY <1>1 DEF Owned
<1> QED BY <1>2, <1>3, <1>4 DEF PoolOK, Owned

\* fpool_coalesce, on its own in fs_prealloc_file.
LEMMA PoolCoalesced ==
    ASSUME NEW fs, NEW h, PoolOK(fs, h)
    PROVE  PoolOK(fs, fpool_coalesce(h))
BY CoalesceGood, CoalesceLive DEF PoolOK, Owned

\* The contents of one file are moved to a block of their new size.
LEMMA PoolResized ==
    ASSUME NEW fs, NEW h, PoolOK(fs, h), NEW i \in FSlot, NEW size \in Nat, NEW r,
           r = fdata_resize(h, fs[i].ptr, size), r.ok, NEW gs,
           \A j \in FSlot \ {i} : gs[j] = fs[j],
           gs[i].ptr = r.ptr, Len(gs[i].data) = size,
           gs[i].data = <<>> <=> size = 0, size > 0 => gs[i].used
    PROVE  PoolOK(gs, r.pool) /\ r.ptr \in Nat
<1>1. Owned(fs, h) /\ Good(h) /\ Merged(h)
  BY DEF PoolOK
<1>2. fs[i].ptr = NULL \/ fs[i].ptr \in DOMAIN Live(h)
  BY <1>1 DEF Owned
<1>3. /\ Good(r.pool) /\ Merged(r.pool)
      /\ r.ptr \in Nat /\ (r.ptr = NULL <=> size = 0)
      /\ r.ptr \notin DOMAIN Live(h)
      /\ DOMAIN Live(r.pool) = (DOMAIN Live(h) \ {fs[i].ptr})
                                \cup (IF size = 0 THEN {} ELSE {r.ptr})
      /\ \A q \in DOMAIN Live(h) \ {fs[i].ptr} : Live(r.pool)[q] = Live(h)[q]
      /\ size > 0 => Live(r.pool)[r.ptr] > size
  <2> DEFINE ptr == fs[i].ptr
  <2>1. r = fdata_resize(h, ptr, size)
    OBVIOUS
  <2> HIDE DEF ptr
  <2>2. ptr = NULL \/ ptr \in DOMAIN Live(h)
    BY <1>2 DEF ptr
  <2> SUFFICES
      /\ Good(r.pool) /\ Merged(r.pool)
      /\ r.ptr \in Nat /\ (r.ptr = NULL <=> size = 0)
      /\ r.ptr \notin DOMAIN Live(h)
      /\ DOMAIN Live(r.pool) = (DOMAIN Live(h) \ {ptr})
                                \cup (IF size = 0 THEN {} ELSE {r.ptr})
      /\ \A q \in DOMAIN Live(h) \ {ptr} : Live(r.pool)[q] = Live(h)[q]
      /\ size > 0 => Live(r.pool)[r.ptr] > size
    BY DEF ptr
  <2>3. Good(h) /\ Merged(h) /\ size \in Nat /\ r.ok
    BY <1>1
  <2> QED BY ONLY <2>1, <2>2, <2>3, ResizeFacts
<1>4. \A j \in FSlot \ {i} : fs[j].ptr # NULL =>
         fs[j].ptr \in DOMAIN Live(h) \ {fs[i].ptr}
  BY <1>1 DEF Owned
<1>5. size > 0 <=> size # 0
  OBVIOUS
<1>6. \A j \in FSlot :
         /\ gs[j].data = <<>> <=> gs[j].ptr = NULL
         /\ gs[j].ptr # NULL => /\ gs[j].used
                                /\ gs[j].ptr \in DOMAIN Live(r.pool)
                                /\ Live(r.pool)[gs[j].ptr] > Len(gs[j].data)
  <2> SUFFICES ASSUME NEW j \in FSlot
               PROVE  /\ gs[j].data = <<>> <=> gs[j].ptr = NULL
                      /\ gs[j].ptr # NULL =>
                            /\ gs[j].used
                            /\ gs[j].ptr \in DOMAIN Live(r.pool)
                            /\ Live(r.pool)[gs[j].ptr] > Len(gs[j].data)
    OBVIOUS
  <2>1. CASE j = i
    BY <1>3, <1>5, <2>1
  <2>2. CASE j # i
    BY <1>1, <1>3, <1>4, <2>2 DEF Owned
  <2> QED BY <2>1, <2>2
<1>7. \A j, k \in FSlot : gs[j].ptr = gs[k].ptr /\ gs[j].ptr # NULL => j = k
  <2>1. \A j \in FSlot \ {i} : gs[j].ptr # NULL => gs[j].ptr # r.ptr
    BY <1>3, <1>4
  <2>2. \A j, k \in FSlot \ {i} : gs[j].ptr = gs[k].ptr /\ gs[j].ptr # NULL => j = k
    BY <1>1 DEF Owned
  <2> QED BY <2>1, <2>2
<1>8. \A ptr \in DOMAIN Live(r.pool) : \E j \in FSlot : gs[j].ptr = ptr
  <2>1. ASSUME NEW ptr \in DOMAIN Live(h), ptr # fs[i].ptr
        PROVE  \E j \in FSlot : gs[j].ptr = ptr
    BY <1>1, <2>1 DEF Owned
  <2> QED BY <1>3, <2>1
<1> QED BY <1>3, <1>6, <1>7, <1>8 DEF PoolOK, Owned

\* A file that is deleted gives its block back.
LEMMA PoolDeleted ==
    ASSUME NEW fs, fs \in [FSlot -> FileRec], NEW h, PoolOK(fs, h), NEW i \in FSlot
    PROVE  PoolOK([fs EXCEPT ![i] = EmptyFile], fpool_free(h, fs[i].ptr))
<1> DEFINE gs == [fs EXCEPT ![i] = EmptyFile]
           r == fdata_resize(h, fs[i].ptr, 0)
<1>1. r = [ok |-> TRUE, pool |-> fpool_free(h, fs[i].ptr), ptr |-> NULL]
  BY DEF fdata_resize
<1>2. r.ok /\ r.pool = fpool_free(h, fs[i].ptr) /\ r.ptr = NULL
  BY <1>1
<1>3. Len(<<>>) = 0
  BY EmptySeq
<1>4. /\ \A j \in FSlot \ {i} : gs[j] = fs[j]
      /\ gs[i].ptr = r.ptr /\ Len(gs[i].data) = 0 /\ gs[i].data = <<>>
  BY <1>2, <1>3 DEF EmptyFile
<1> HIDE DEF gs, r
<1>5. PoolOK(gs, r.pool)
  BY <1>2, <1>4, PoolResized DEF r
<1> QED BY <1>2, <1>5 DEF gs

---------------------------------------------------------------------------
(***************************************************************************)
(* Reading an image back.  Loaded is a recursive function over the slots;  *)
(* the induction is on the least slot at which it would go wrong (NatMin). *)
(***************************************************************************)
IsLoad(img, n, f) ==
    f = [k \in 0 .. n |-> IF k = 0 THEN LoadedNone
                                   ELSE LoadedOne(img, f[k - 1], k - 1)]

\* The loop over the slots can be run for any number of them.
LEMMA LoadExists ==
    ASSUME NEW img, NEW n \in Nat
    PROVE  \E f : IsLoad(img, n, f)
<1> DEFINE S == {m \in Nat : ~\E f : IsLoad(img, m, f)}
<1> SUFFICES ASSUME S # {} PROVE FALSE
  OBVIOUS
<1>1. PICK m \in S : \A k \in S : m <= k
  <2>1. S \subseteq Nat
    OBVIOUS
  <2> HIDE DEF S
  <2> QED BY <2>1, NatMin
<1>2. CASE m = 0
  <2> DEFINE f == [k \in 0 .. 0 |-> LoadedNone]
  <2>1. f = [k \in 0 .. 0 |-> IF k = 0 THEN LoadedNone
                                        ELSE LoadedOne(img, f[k - 1], k - 1)]
    OBVIOUS
  <2> QED BY <1>2, <2>1 DEF IsLoad
<1>3. CASE m # 0
  <2>1. m - 1 \in Nat /\ m - 1 \notin S
    BY <1>1, <1>3
  <2>2. PICK g : IsLoad(img, m - 1, g)
    BY <2>1
  <2> DEFINE f == [k \in 0 .. m |-> IF k = m THEN LoadedOne(img, g[m - 1], m - 1) ELSE g[k]]
  <2>3. \A k \in 0 .. m - 1 : g[k] = IF k = 0 THEN LoadedNone
                                       ELSE LoadedOne(img, g[k - 1], k - 1)
    BY <2>2 DEF IsLoad
  <2>4. \A k \in 0 .. m : f[k] = IF k = 0 THEN LoadedNone
                                   ELSE LoadedOne(img, f[k - 1], k - 1)
    <3> SUFFICES ASSUME NEW k \in 0 .. m
                 PROVE  f[k] = IF k = 0 THEN LoadedNone
                               ELSE LoadedOne(img, f[k - 1], k - 1)
      OBVIOUS
    <3>1. CASE k = m
      <4>1. m - 1 \in 0 .. m /\ m - 1 # m
        BY <2>1
      <4>2. f[m - 1] = g[m - 1]
        BY <4>1
      <4>3. f[m] = LoadedOne(img, g[m - 1], m - 1)
        BY <1>1
      <4> HIDE DEF f
      <4> QED BY <1>3, <3>1, <4>2, <4>3
    <3>2. CASE k = 0
      BY <1>3, <2>1, <2>3, <3>2
    <3>3. CASE k # m /\ k # 0
      <4>1. /\ k \in 0 .. m - 1 /\ k - 1 \in 0 .. m /\ k - 1 # m
        BY <1>1, <3>3
      <4>2. f[k] = g[k] /\ f[k - 1] = g[k - 1]
        BY <3>3, <4>1
      <4> HIDE DEF f
      <4> QED BY <2>3, <3>3, <4>1, <4>2
    <3> QED BY <3>1, <3>2, <3>3
  <2>5. IsLoad(img, m, f)
    <3>1. f = [k \in 0 .. m |-> f[k]]
      OBVIOUS
    <3> HIDE DEF f
    <3> QED BY <2>4, <3>1 DEF IsLoad
  <2> QED BY <1>1, <2>5
<1> QED BY <1>2, <1>3

LEMMA LoadedIs ==
    ASSUME NEW img
    PROVE  \E f : IsLoad(img, MAX_F, f) /\ Loaded(img) = f[MAX_F]
<1> DEFINE f == CHOOSE g : IsLoad(img, MAX_F, g)
<1>1. Loaded(img) = f[MAX_F]
  BY DEF IsLoad, Loaded
<1>2. \E g : IsLoad(img, MAX_F, g)
  BY LoadExists, FSAssumption
<1>3. IsLoad(img, MAX_F, f)
  BY <1>2
<1> QED BY <1>1, <1>3

\* The table when the first k slots have been loaded.
Part(img, f, k) == [i \in FSlot |-> IF i < k THEN [img.files[i] EXCEPT !.ptr = f[k].ptrs[i]]
                                    ELSE EmptyFile]

LEMMA LoadStart ==
    ASSUME NEW img, NEW f, f[0] = LoadedNone
    PROVE  f[0].ptrs \in [FSlot -> Nat] /\ PoolOK(Part(img, f, 0), f[0].pool)
<1> DEFINE gs == Part(img, f, 0)
<1>1. f[0].pool = fpool_init /\ f[0].ptrs = [i \in FSlot |-> NULL]
  BY DEF LoadedNone
<1>2. \A i \in FSlot : gs[i] = EmptyFile
  BY SlotFacts DEF Part
<1>3. \A i \in FSlot : gs[i].data = <<>> /\ gs[i].ptr = NULL
  BY <1>2 DEF EmptyFile
<1>4. Good(fpool_init) /\ Merged(fpool_init)
  BY InitGood
<1>5. DOMAIN Live(fpool_init) = {}
  <2>1. \A o \in DOMAIN fpool_init : fpool_init[o].free
    BY DEF fpool_init
  <2> QED BY <2>1 DEF Live
<1>6. Owned(gs, fpool_init)
  BY <1>3, <1>5 DEF Owned
<1> QED BY <1>1, <1>4, <1>6 DEF PoolOK, NULL

\* What one slot adds.
LEMMA LoadedOneFacts ==
    ASSUME NEW img, NEW b, NEW i, NEW r,
           r = fdata_resize(b.pool, NULL, Len(img.files[i].data))
    PROVE  /\ LoadedOne(img, b, i).ok => b.ok /\ r.ok
           /\ LoadedOne(img, b, i).pool = r.pool
           /\ LoadedOne(img, b, i).ptrs = [b.ptrs EXCEPT ![i] = r.ptr]
<1>1. LoadedOne(img, b, i) = [ok |-> b.ok /\ r.ok, pool |-> r.pool,
                              ptrs |-> [b.ptrs EXCEPT ![i] = r.ptr]]
  <2> DEFINE q == fdata_resize(b.pool, NULL, Len(img.files[i].data))
  <2>1. LoadedOne(img, b, i) = [ok |-> b.ok /\ q.ok, pool |-> q.pool,
                                ptrs |-> [b.ptrs EXCEPT ![i] = q.ptr]]
    BY DEF LoadedOne
  <2> QED BY <2>1
<1>2. LoadedOne(img, b, i).ok = (b.ok /\ r.ok)
  BY ONLY <1>1
<1>3. LoadedOne(img, b, i).ok => b.ok /\ r.ok
  BY ONLY <1>2
<1> QED BY <1>1, <1>3

LEMMA LoadNext ==
    ASSUME NEW img, ImageOK(img), NEW f, NEW k \in FSlot,
           f[k + 1] = LoadedOne(img, f[k], k), f[k + 1].ok,
           f[k].ptrs \in [FSlot -> Nat], PoolOK(Part(img, f, k), f[k].pool)
    PROVE  /\ f[k + 1].ptrs \in [FSlot -> Nat]
           /\ PoolOK(Part(img, f, k + 1), f[k + 1].pool)
<1> DEFINE fs == Part(img, f, k)
           gs == Part(img, f, k + 1)
           size == Len(img.files[k].data)
           r == fdata_resize(f[k].pool, NULL, size)
<1>1. /\ f[k + 1].pool = r.pool /\ f[k + 1].ptrs = [f[k].ptrs EXCEPT ![k] = r.ptr]
      /\ r.ok
  BY LoadedOneFacts
<1>2. /\ img.files \in [FSlot -> FileRec]
      /\ img.files[k].data # <<>> => img.files[k].used
  BY DEF ImageOK, TablesOK, FilesOK
<1>3. size \in Nat /\ (img.files[k].data = <<>> <=> size = 0)
  <2>1. img.files[k].data \in Contents
    BY <1>2 DEF FileRec
  <2> QED BY <2>1, EmptySeq, LenProperties DEF Contents
<1>4. fs[k].ptr = NULL
  BY SlotFacts DEF Part, EmptyFile
<1>5. /\ gs[k] = [img.files[k] EXCEPT !.ptr = r.ptr]
      /\ \A j \in FSlot \ {k} : gs[j] = fs[j]
  <2>1. \A j \in FSlot \ {k} : j < k + 1 <=> j < k
    BY SlotFacts
  <2>2. \A j \in FSlot \ {k} : f[k + 1].ptrs[j] = f[k].ptrs[j]
    BY <1>1
  <2>3. k < k + 1 /\ f[k + 1].ptrs[k] = r.ptr
    BY <1>1, SlotFacts
  <2> HIDE DEF r
  <2> QED BY <2>1, <2>2, <2>3 DEF Part
<1>6. /\ gs[k].ptr = r.ptr /\ gs[k].data = img.files[k].data
      /\ gs[k].used = img.files[k].used
  BY <1>2, <1>5 DEF FileRec
<1>7. size > 0 => gs[k].used
  BY <1>2, <1>3, <1>6
<1>8. r = fdata_resize(f[k].pool, fs[k].ptr, size)
  BY <1>4
<1>9. PoolOK(fs, f[k].pool) /\ Len(gs[k].data) = size /\ (gs[k].data = <<>> <=> size = 0)
  BY <1>3, <1>6
<1> HIDE DEF fs, gs, size, r
<1>10. PoolOK(gs, r.pool) /\ r.ptr \in Nat
  <2> DEFINE h == f[k].pool
  <2>1. k \in FSlot /\ PoolOK(fs, h) /\ r = fdata_resize(h, fs[k].ptr, size) /\ r.ok
    BY <1>1, <1>8, <1>9
  <2>2. \A j \in FSlot \ {k} : gs[j] = fs[j]
    BY <1>5
  <2>3. /\ gs[k].ptr = r.ptr /\ Len(gs[k].data) = size /\ size \in Nat
        /\ (gs[k].data = <<>> <=> size = 0)
        /\ (size > 0 => gs[k].used)
    BY <1>3, <1>6, <1>7, <1>9
  <2> HIDE DEF h
  <2> QED BY ONLY <2>1, <2>2, <2>3, PoolResized
<1> QED BY <1>1, <1>10 DEF gs

\* The table that a reload ends with.
Reloaded(img) == [i \in FSlot |-> [img.files[i] EXCEPT !.ptr = Loaded(img).ptrs[i]]]

LEMMA LoadedFacts ==
    ASSUME NEW img, ImageOK(img), Loaded(img).ok
    PROVE  TablesOK(Reloaded(img), img.dirs) /\ PoolOK(Reloaded(img), Loaded(img).pool)
<1>1. PICK f : IsLoad(img, MAX_F, f) /\ Loaded(img) = f[MAX_F]
  BY LoadedIs
<1>2. \A k \in 0 .. MAX_F : f[k] = IF k = 0 THEN LoadedNone
                                     ELSE LoadedOne(img, f[k - 1], k - 1)
  BY <1>1 DEF IsLoad
<1>3. \A k \in FSlot : k \in 0 .. MAX_F /\ k + 1 \in 0 .. MAX_F /\ k + 1 # 0
                         /\ (k + 1) - 1 = k
  BY FSAssumption DEF FSlot
<1>4. f[0] = LoadedNone
  BY <1>2, FSAssumption
<1>5. \A k \in FSlot : f[k + 1] = LoadedOne(img, f[k], k)
  BY <1>2, <1>3
<1>6. \A k \in FSlot : f[k + 1].ok => f[k].ok
  <2> SUFFICES ASSUME NEW k \in FSlot, f[k + 1].ok PROVE f[k].ok
    OBVIOUS
  <2>1. LoadedOne(img, f[k], k).ok => f[k].ok
    <3> DEFINE r == fdata_resize(f[k].pool, NULL, Len(img.files[k].data))
    <3>1. LoadedOne(img, f[k], k).ok => f[k].ok /\ r.ok
      BY LoadedOneFacts
    <3> QED BY <3>1
  <2>2. LoadedOne(img, f[k], k).ok
    <3>1. LoadedOne(img, f[k], k) = f[k + 1]
      BY <1>5
    <3> QED BY <3>1
  <2> QED BY <2>1, <2>2
<1> DEFINE P(k) == f[k].ptrs \in [FSlot -> Nat] /\ PoolOK(Part(img, f, k), f[k].pool)
           S == {k \in 0 .. MAX_F : f[k].ok /\ ~P(k)}
<1>7. S = {}
  <2> SUFFICES ASSUME S # {} PROVE FALSE
    OBVIOUS
  <2>1. S \subseteq Nat
    BY FSAssumption
  <2>2. PICK m \in S : \A k \in S : m <= k
    <3> HIDE DEF S
    <3> QED BY <2>1, NatMin
  <2>3. m # 0
    BY <1>4, <2>2, LoadStart
  <2>4. m - 1 \in FSlot /\ m - 1 \in 0 .. MAX_F /\ (m - 1) + 1 = m /\ ~(m <= m - 1)
    BY <2>2, <2>3, FSAssumption DEF FSlot
  <2>5. f[m - 1].ok /\ m - 1 \notin S
    BY <1>6, <2>2, <2>4
  <2>6. P(m - 1)
    BY <2>4, <2>5
  <2>7. f[(m - 1) + 1] = LoadedOne(img, f[m - 1], m - 1) /\ f[(m - 1) + 1].ok
    BY <1>5, <2>2, <2>4
  <2>8. P((m - 1) + 1)
    BY <2>4, <2>6, <2>7, LoadNext
  <2> QED BY <2>2, <2>4, <2>8
<1>8. MAX_F \in 0 .. MAX_F /\ f[MAX_F].ok
  BY <1>1, FSAssumption
<1>9. P(MAX_F)
  BY <1>7, <1>8
<1>10. Part(img, f, MAX_F) = Reloaded(img)
  <2>1. \A i \in FSlot : i < MAX_F
    BY FSAssumption DEF FSlot
  <2> QED BY <1>1, <2>1 DEF Part, Reloaded
<1>11. PoolOK(Reloaded(img), Loaded(img).pool) /\ Loaded(img).ptrs \in [FSlot -> Nat]
  BY <1>1, <1>9, <1>10
<1>12. TablesOK(Reloaded(img), img.dirs)
  <2> DEFINE gs == Reloaded(img)
  <2>1. /\ img.files \in [FSlot -> FileRec]
    BY DEF ImageOK, TablesOK, FilesOK
  <2>2. \A i \in FSlot : /\ gs[i] \in FileRec /\ gs[i].used = img.files[i].used
                         /\ gs[i].name = img.files[i].name
                         /\ gs[i].data = img.files[i].data
    BY <1>11, <2>1 DEF Reloaded, FileRec
  <2>3. gs \in [FSlot -> FileRec]
    BY <2>2 DEF Reloaded
  <2>4. FilesOK(gs)
    BY <2>2, <2>3 DEF ImageOK, TablesOK, FilesOK
  <2>5. Whole(gs, img.dirs)
    BY <2>2, WholeFewer DEF ImageOK, TablesOK
  <2> QED BY <2>4, <2>5 DEF ImageOK, TablesOK
<1> QED BY <1>11, <1>12

---------------------------------------------------------------------------
(***************************************************************************)
(* Every step preserves the invariant.                                     *)
(***************************************************************************)

\* What a call outside rm -r has to show.
LEMMA CallKeeps ==
    ASSUME FSInv, UNCHANGED <<batch, stack>>, uid' \in Uids, cwd' \in Path,
           TablesOK(files', dirs'), ImageOK(disk'), PoolOK(files', pool'),
           ret' \in Results
    PROVE  FSInv'
BY DEF FSInv, StackOK

LEMMA FailKeeps ==
    ASSUME FSInv, NEW op \in Ops, NEW rc \in -4 .. 0, NEW errno \in {0, 13},
           Fail(op, rc, errno)
    PROVE  FSInv'
<1>1. ret' \in Results
  BY DEF Fail, Return, Results
<1>2. UNCHANGED <<files, dirs, pool, cwd, uid, batch, stack, disk>>
  BY DEF Fail
<1> QED BY <1>1, <1>2, CallKeeps DEF FSInv

\* The results of the calls, with the errno they set.
LEMMA ResultFacts ==
    /\ \A p : CreateResult(p).rc \in -2 .. 0 /\ CreateResult(p).errno \in {0, 13}
    /\ \A p : DeleteResult(p).rc \in -2 .. 0 /\ DeleteResult(p).errno \in {0, 13}
    /\ \A p, b : RmdirResult(p, b).rc \in -2 .. 0 /\ RmdirResult(p, b).errno \in {0, 13}
    /\ \A sp : EntryResult(sp).rc \in -2 .. 0 /\ EntryResult(sp).errno \in {0, 13}
    /\ ret \in Results => ret.errno \in {0, 13}
<1>1. \A p : CreateResult(p).rc \in -2 .. 0 /\ CreateResult(p).errno \in {0, 13}
  BY DEF CreateResult
<1>2. \A p : DeleteResult(p).rc \in -2 .. 0 /\ DeleteResult(p).errno \in {0, 13}
  BY DEF DeleteResult
<1>3. \A p, b : RmdirResult(p, b).rc \in -2 .. 0 /\ RmdirResult(p, b).errno \in {0, 13}
  BY DEF RmdirResult
<1>4. \A sp : EntryResult(sp).rc \in -2 .. 0 /\ EntryResult(sp).errno \in {0, 13}
  BY DEF EntryResult
<1> QED BY <1>1, <1>2, <1>3, <1>4 DEF Results

\* fs_commit_change leaves a bootable image, or the one that was there.
LEMMA CommitFacts ==
    ASSUME FSInv, NEW fs, NEW ds, TablesOK(fs, ds)
    PROVE  ImageOK(Committed(fs, ds)) /\ ImageOK(Image(fs, ds))
BY ImageFacts DEF FSInv, Committed

LEMMA MkdirKeeps ==
    ASSUME FSInv, NEW p \in Path, fs_create_directory(p)
    PROVE  FSInv'
<1> DEFINE slot == {d \in DSlot \ {0} : ~dirs[d].used}
           bad == ~parent_exists(p) \/ p = Root \/ DirAt(p) # {} \/ FileAt(p) # {}
           es == [dirs EXCEPT ![Lowest(slot)] =
                    [used |-> TRUE, name |-> p, owner |-> uid, mode |-> M755]]
<1>1. CASE Fail("mkdir", -1, 0) \/ Fail("mkdir", -2, 13)
  BY <1>1, FailKeeps DEF Ops
<1>2. CASE /\ ~bad /\ slot # {}
           /\ dirs' = es
           /\ disk' = Committed(files, dirs')
           /\ Return("mkdir", 0, 0)
           /\ UNCHANGED <<files, pool, cwd, uid, batch, stack>>
  <2>1. Lowest(slot) \in slot
    BY <1>2, LowestIn, SlotFacts
  <2>2. Lowest(slot) \in DSlot /\ ~dirs[Lowest(slot)].used
    BY <2>1
  <2>3. parent_exists(p) /\ DirAt(p) = {} /\ FileAt(p) = {}
    BY <1>2
  <2>4. TablesOK(files, dirs) /\ uid \in Uids
    BY DEF FSInv
  <2>5. TablesOK(files, es)
    <3> DEFINE d == Lowest(slot)
    <3> HIDE DEF d, slot
    <3> QED BY <2>2, <2>3, <2>4, MkdirFacts DEF d
  <2>6. TablesOK(files', dirs') /\ ImageOK(disk')
    BY <1>2, <2>5, CommitFacts
  <2>7. ret' \in Results
    BY <1>2 DEF Return, Results, Ops
  <2> QED BY <1>2, <2>6, <2>7, CallKeeps DEF FSInv
<1> QED BY <1>1, <1>2 DEF fs_create_directory

LEMMA RmdirKeeps ==
    ASSUME FSInv, NEW p \in Path, NEW b \in BOOLEAN, fs_delete_directory(p, b)
    PROVE  FSInv'
<1> DEFINE r == RmdirResult(p, b)
<1>1. CASE Fail("rmdir", r.rc, r.errno)
  <2>1. r.rc \in -4 .. 0 /\ r.errno \in {0, 13} /\ "rmdir" \in Ops
    BY ResultFacts DEF Ops
  <2> QED BY <1>1, <2>1, FailKeeps
<1>2. CASE /\ r.rc = 0
           /\ dirs' = WithoutDir(p)
           /\ disk' = Committed(files, dirs')
           /\ Return("rmdir", 0, 0)
           /\ UNCHANGED <<files, pool, cwd, uid, batch, stack>>
  <2>1. Children(p) = {} /\ DirAt(p) # {}
    BY <1>2 DEF RmdirResult
  <2>2. TablesOK(files, WithoutDir(p))
    BY <2>1, RmdirFacts DEF FSInv
  <2>3. TablesOK(files', dirs') /\ ImageOK(disk')
    BY <1>2, <2>2, CommitFacts
  <2>4. ret' \in Results
    BY <1>2 DEF Return, Results, Ops
  <2> QED BY <1>2, <2>3, <2>4, CallKeeps DEF FSInv
<1> QED BY <1>1, <1>2 DEF fs_delete_directory

LEMMA CdKeeps ==
    ASSUME FSInv, NEW p \in Path, NEW b \in BOOLEAN, fs_change_directory(p, b)
    PROVE  FSInv'
<1>1. CASE Fail("cd", -1, 0) \/ Fail("cd", -2, 13)
  BY <1>1, FailKeeps DEF Ops
<1>2. CASE /\ cwd' = p
           /\ Return("cd", 0, 0)
           /\ UNCHANGED <<files, dirs, pool, uid, batch, stack, disk>>
  <2>1. ret' \in Results
    BY <1>2 DEF Return, Results, Ops
  <2> QED BY <1>2, <2>1, CallKeeps DEF FSInv
<1> QED BY <1>1, <1>2 DEF fs_change_directory

\* The file exists or can be created.
Creatable(p) == FileAt(p) # {} \/ CreateResult(p).rc = 0

\* A slot that is not in use holds no block, nor does a new file.
LEMMA CreatePool ==
    ASSUME FSInv, NEW p \in Path, Creatable(p), NEW h, PoolOK(files, h)
    PROVE  PoolOK(WithFile(p), h)
<1> DEFINE i == SlotFor(p)
           gs == WithFile(p)
<1>1. TablesOK(files, dirs) /\ uid \in Uids
  BY DEF FSInv
<1>2. /\ i \in FSlot /\ (\A j \in FSlot \ {i} : gs[j] = files[j])
      /\ FileAt(p) # {} => gs = files
      /\ FileAt(p) = {} => ~files[i].used /\ gs[i] = NewFile(p)
  BY <1>1, CreateFacts DEF Creatable
<1>3. CASE FileAt(p) # {}
  BY <1>2, <1>3
<1>4. CASE FileAt(p) = {}
  <2>1. ~files[i].used /\ gs[i].data = <<>> /\ gs[i].ptr = NULL
    BY <1>2, <1>4 DEF NewFile
  <2>2. files[i].data = <<>>
    BY <1>1, <1>2, <2>1 DEF TablesOK, FilesOK
  <2>3. files[i].ptr = NULL
    BY <1>2, <2>2 DEF PoolOK, Owned
  <2> HIDE DEF gs, i
  <2>4. \A j \in FSlot : /\ gs[j].ptr = files[j].ptr
                         /\ Len(gs[j].data) = Len(files[j].data)
                         /\ gs[j].data = <<>> <=> files[j].data = <<>>
                         /\ files[j].used /\ files[j].ptr # NULL => gs[j].used
    BY <1>2, <2>1, <2>2, <2>3
  <2>5. PoolOK(gs, h)
    BY <2>4, PoolSame
  <2> QED BY <2>5 DEF gs
<1> QED BY <1>3, <1>4

LEMMA CreateKeeps ==
    ASSUME FSInv, NEW p \in Path, fs_create_file(p)
    PROVE  FSInv'
<1> DEFINE r == CreateResult(p)
<1>1. CASE Fail("create", r.rc, r.errno)
  <2>1. r.rc \in -4 .. 0 /\ r.errno \in {0, 13} /\ "create" \in Ops
    BY ResultFacts DEF Ops
  <2> QED BY <1>1, <2>1, FailKeeps
<1>2. CASE /\ r.rc = 0
           /\ files' = WithFile(p)
           /\ disk' = DiskWithFile(p)
           /\ Return("create", 0, 0)
           /\ UNCHANGED <<dirs, pool, cwd, uid, batch, stack>>
  <2>1. TablesOK(WithFile(p), dirs) /\ ImageOK(DiskWithFile(p))
    BY <1>2, CreateFacts, CreateDisk DEF FSInv
  <2>2. PoolOK(WithFile(p), pool)
    BY <1>2, CreatePool DEF FSInv, Creatable
  <2>3. ret' \in Results
    BY <1>2 DEF Return, Results, Ops
  <2> QED BY <1>2, <2>1, <2>2, <2>3, CallKeeps DEF FSInv
<1> QED BY <1>1, <1>2 DEF fs_create_file

\* A file that is there and goes.
LEMMA DeleteFacts ==
    ASSUME FSInv, NEW p, FileAt(p) # {}
    PROVE  /\ Lowest(FileAt(p)) \in FileAt(p)
           /\ TablesOK(WithoutFile(p), dirs)
           /\ PoolOK(WithoutFile(p), PoolWithoutFile(p))
<1> DEFINE i == Lowest(FileAt(p))
<1>1. i \in FileAt(p)
  BY LowestIn, SlotFacts
<1>2. i \in FSlot
  BY <1>1, SlotFacts
<1>3. WithoutFile(p) = [files EXCEPT ![i] = EmptyFile]
  BY DEF WithoutFile
<1>4. TablesOK(files, dirs) /\ files \in [FSlot -> FileRec] /\ PoolOK(files, pool)
  BY DEF FSInv, TablesOK, FilesOK
<1>5. PoolWithoutFile(p) = fpool_free(pool, files[i].ptr)
  BY DEF PoolWithoutFile
<1> HIDE DEF i
<1>6. TablesOK(WithoutFile(p), dirs)
  BY <1>2, <1>3, <1>4, EmptyFacts
<1>7. PoolOK([files EXCEPT ![i] = EmptyFile], fpool_free(pool, files[i].ptr))
  BY <1>2, <1>4, PoolDeleted
<1> QED BY <1>1, <1>3, <1>5, <1>6, <1>7 DEF i

LEMMA DeleteKeeps ==
    ASSUME FSInv, NEW p \in Path, fs_delete_file(p)
    PROVE  FSInv'
<1> DEFINE r == DeleteResult(p)
<1>1. CASE Fail("delete", r.rc, r.errno)
  <2>1. r.rc \in -4 .. 0 /\ r.errno \in {0, 13} /\ "delete" \in Ops
    BY ResultFacts DEF Ops
  <2> QED BY <1>1, <2>1, FailKeeps
<1>2. CASE /\ r.rc = 0
           /\ files' = WithoutFile(p)
           /\ pool' = PoolWithoutFile(p)
           /\ disk' = Committed(files', dirs)
           /\ Return("delete", 0, 0)
           /\ UNCHANGED <<dirs, cwd, uid, batch, stack>>
  <2>1. FileAt(p) # {}
    BY <1>2 DEF DeleteResult
  <2>2. TablesOK(files', dirs') /\ PoolOK(files', pool')
    BY <1>2, <2>1, DeleteFacts
  <2>3. ImageOK(disk')
    BY <1>2, <2>2, CommitFacts
  <2>4. ret' \in Results
    BY <1>2 DEF Return, Results, Ops
  <2> QED BY <1>2, <2>2, <2>3, <2>4, CallKeeps DEF FSInv
<1> QED BY <1>1, <1>2 DEF fs_delete_file

\* New contents, of any pool the call has in hand.
LEMMA WriteFacts ==
    ASSUME FSInv, NEW p \in Path, Creatable(p), NEW h, PoolOK(files, h),
           NEW data \in Contents, Len(data) <= MaxFile, NEW r,
           r = fdata_resize(h, WithFile(p)[SlotFor(p)].ptr, Len(data)), r.ok, NEW gs,
           gs = [WithFile(p) EXCEPT ![SlotFor(p)].data = data,
                                    ![SlotFor(p)].ptr = r.ptr]
    PROVE  TablesOK(gs, dirs) /\ PoolOK(gs, r.pool)
<1> DEFINE i == SlotFor(p)
           fs == WithFile(p)
           n == Len(data)
<1>1. TablesOK(fs, dirs) /\ i \in FSlot /\ fs[i].used
  BY CreateFacts DEF FSInv, Creatable
<1>2. PoolOK(fs, h)
  BY CreatePool
<1>3. n \in Nat /\ (data = <<>> <=> n = 0)
  BY EmptySeq, LenProperties DEF Contents
<1>4. r = fdata_resize(h, fs[i].ptr, n) /\ r.ok
  OBVIOUS
<1>5. gs = [fs EXCEPT ![i].data = data, ![i].ptr = r.ptr]
  OBVIOUS
<1>6. data \in Contents /\ Len(data) <= MaxFile
  OBVIOUS
<1> HIDE DEF i, fs
<1>7. r.ptr \in Nat
  <2>1. fs[i].ptr = NULL \/ fs[i].ptr \in DOMAIN Live(h)
    BY <1>1, <1>2 DEF PoolOK, Owned
  <2> DEFINE ptr == fs[i].ptr
  <2>2. Good(h) /\ Merged(h)
    BY <1>2 DEF PoolOK
  <2>3. r = fdata_resize(h, ptr, n) /\ r.ok /\ n \in Nat
    BY <1>3, <1>4
  <2>4. ptr = NULL \/ ptr \in DOMAIN Live(h)
    BY <2>1
  <2> HIDE DEF ptr, n
  <2> QED BY ONLY <2>2, <2>3, <2>4, ResizeFacts
<1>8. /\ TablesOK(gs, dirs)
      /\ gs[i].data = data /\ gs[i].ptr = r.ptr /\ gs[i].used
      /\ \A j \in FSlot \ {i} : gs[j] = fs[j]
  <2>1. fs \in [FSlot -> FileRec]
    BY <1>1 DEF TablesOK, FilesOK
  <2>2. /\ gs[i] = [fs[i] EXCEPT !.data = data, !.ptr = r.ptr]
        /\ \A j \in FSlot \ {i} : gs[j] = fs[j]
        /\ gs = [j \in FSlot |-> gs[j]]
    BY ONLY <1>1, <1>5, <2>1
  <2>3. /\ gs[i] \in FileRec /\ gs[i].used /\ gs[i].name = fs[i].name
        /\ gs[i].data = data /\ gs[i].ptr = r.ptr
    <3> DEFINE f == fs[i]
               g == gs[i]
    <3>1. f \in FileRec /\ f.used /\ g = [f EXCEPT !.data = data, !.ptr = r.ptr]
      BY ONLY <1>1, <2>1, <2>2
    <3>2. data \in Contents /\ r.ptr \in Nat
      BY ONLY <1>6, <1>7
    <3> HIDE DEF f, g
    <3>3. /\ g \in FileRec /\ g.used /\ g.name = f.name
          /\ g.data = data /\ g.ptr = r.ptr
      BY ONLY <3>1, <3>2 DEF FileRec
    <3> QED BY ONLY <3>3 DEF f, g
  <2>4. gs \in [FSlot -> FileRec]
    BY <2>1, <2>2, <2>3
  <2>5. TablesOK(gs, dirs)
    <3>1. /\ gs[i].used /\ fs[i].used /\ gs[i].name = fs[i].name /\ i \in FSlot
          /\ Len(gs[i].data) <= MaxFile /\ TablesOK(fs, dirs)
          /\ \A j \in FSlot \ {i} : gs[j] = fs[j]
      BY ONLY <1>1, <1>6, <2>2, <2>3
    <3> QED BY ONLY <2>4, <3>1, DataFacts
  <2> QED BY <2>2, <2>3, <2>5
<1>9. PoolOK(gs, r.pool)
  <2>1. Len(gs[i].data) = n /\ (gs[i].data = <<>> <=> n = 0)
    BY <1>3, <1>8
  <2> HIDE DEF n
  <2> QED BY ONLY <1>1, <1>2, <1>3, <1>4, <1>8, <2>1, PoolResized
<1> QED BY <1>8, <1>9

LEMMA StringFacts ==
    ASSUME NEW data \in Strings
    PROVE  data \in Contents /\ Len(data) \in Nat /\ DOMAIN data = 1 .. Len(data)
           /\ \A k \in DOMAIN data : data[k] \in Bytes
<1>1. PICK n \in Sizes : data \in [1 .. n -> Bytes]
  BY DEF Strings
<1>2. n \in Nat
  BY FSAssumption
<1> QED BY <1>1, <1>2 DEF Contents

\* The rollback of fs_write_file, in either case.
LEMMA RollbackFacts ==
    ASSUME FSInv, NEW p \in Path, Creatable(p)
    PROVE  /\ TablesOK(Rollback(WithFile(p), SlotFor(p)), dirs)
           /\ PoolOK(Rollback(WithFile(p), SlotFor(p)), pool)
<1> DEFINE i == SlotFor(p)
           fs == WithFile(p)
           gs == Rollback(fs, i)
<1>1. TablesOK(fs, dirs) /\ i \in FSlot
  BY CreateFacts DEF FSInv, Creatable
<1>2. PoolOK(fs, pool)
  BY CreatePool DEF FSInv
<1> HIDE DEF i, fs
<1>3. CASE fs[i].data = <<>> /\ fs[i].ptr = NULL
  <2>1. gs = [fs EXCEPT ![i] = EmptyFile]
    BY <1>3 DEF Rollback
  <2>2. fs \in [FSlot -> FileRec]
    BY <1>1 DEF TablesOK, FilesOK
  <2>3. /\ gs[i].data = <<>> /\ gs[i].ptr = NULL
        /\ \A j \in FSlot \ {i} : gs[j] = fs[j]
    BY <1>1, <2>1, <2>2 DEF EmptyFile
  <2> HIDE DEF gs
  <2>4. TablesOK(gs, dirs)
    BY <1>1, <2>1, EmptyFacts
  <2>5. \A j \in FSlot : /\ gs[j].ptr = fs[j].ptr
                         /\ Len(gs[j].data) = Len(fs[j].data)
                         /\ gs[j].data = <<>> <=> fs[j].data = <<>>
                         /\ fs[j].used /\ fs[j].ptr # NULL => gs[j].used
    BY <1>3, <2>3
  <2>6. PoolOK(gs, pool)
    BY <1>2, <2>5, PoolSame
  <2> QED BY <2>4, <2>6 DEF gs, fs, i
<1>4. CASE ~(fs[i].data = <<>> /\ fs[i].ptr = NULL)
  <2>1. gs = fs
    BY <1>4 DEF Rollback
  <2> QED BY <1>1, <1>2, <2>1 DEF fs, i
<1> QED BY <1>3, <1>4

LEMMA WriteKeeps ==
    ASSUME FSInv, NEW p \in Path, NEW data \in Strings, fs_write_file(p, data)
    PROVE  FSInv'
<1> DEFINE i == SlotFor(p)
           fs == WithFile(p)
           r == Resized(fs, i, Len(data))
<1>1. CASE Fail("write", -2, 13) \/ Fail("write", -1, CreateResult(p).errno)
  <2>1. CreateResult(p).errno \in {0, 13} /\ "write" \in Ops
    BY ResultFacts DEF Ops
  <2>2. -2 \in -4 .. 0 /\ -1 \in -4 .. 0 /\ 13 \in {0, 13}
    OBVIOUS
  <2> QED BY <1>1, <2>1, <2>2, FailKeeps
<1>2. CASE /\ Creatable(p)
           /\ files' = Rollback(fs, i)
           /\ disk' = DiskWithFile(p)
           /\ Return("write", -2, 0) \/ Return("write", -3, 0)
           /\ UNCHANGED <<dirs, pool, cwd, uid, batch, stack>>
  <2>1. TablesOK(files', dirs') /\ PoolOK(files', pool')
    BY <1>2, RollbackFacts
  <2>2. ImageOK(disk')
    BY <1>2, CreateDisk DEF FSInv, Creatable
  <2>3. ret' \in Results
    BY <1>2 DEF Return, Results, Ops
  <2> QED BY <1>2, <2>1, <2>2, <2>3, CallKeeps DEF FSInv
<1>3. CASE /\ Creatable(p) /\ Len(data) <= MaxFile /\ r.ok
           /\ files' = SetData(fs, i, Len(data), data)
           /\ pool' = r.pool
           /\ disk' = Committed(files', dirs)
           /\ Return("write", 0, 0)
           /\ UNCHANGED <<dirs, cwd, uid, batch, stack>>
  <2>1. data \in Contents
    BY StringFacts
  <2>2. r = fdata_resize(pool, fs[i].ptr, Len(data))
    BY DEF Resized
  <2>3. files' = [fs EXCEPT ![i].data = data, ![i].ptr = r.ptr]
    BY <1>3 DEF SetData
  <2>4. PoolOK(files, pool) /\ Creatable(p) /\ r.ok /\ Len(data) <= MaxFile
    BY <1>3 DEF FSInv
  <2>5. TablesOK(files', dirs) /\ PoolOK(files', r.pool)
    <3> HIDE DEF r
    <3> QED BY <2>1, <2>2, <2>3, <2>4, WriteFacts
  <2>6. ImageOK(disk')
    BY <1>3, <2>5, CommitFacts
  <2>7. ret' \in Results
    BY <1>3 DEF Return, Results, Ops
  <2> QED BY <1>3, <2>5, <2>6, <2>7, CallKeeps DEF FSInv
<1> QED BY <1>1, <1>2, <1>3 DEF fs_write_file, Creatable

LEMMA AppendKeeps ==
    ASSUME FSInv, NEW p \in Path, NEW data \in Strings, fs_append_file(p, data)
    PROVE  FSInv'
<1> DEFINE i == SlotFor(p)
           fs == WithFile(p)
           n == Len(fs[i].data) + Len(data)
           new == fs[i].data \o data
           r == Resized(fs, i, n)
<1>1. CASE \/ Fail("append", -2, 13)
           \/ Fail("append", CreateResult(p).rc, CreateResult(p).errno)
  <2>1. /\ CreateResult(p).errno \in {0, 13} /\ CreateResult(p).rc \in -4 .. 0
        /\ "append" \in Ops
    BY ResultFacts DEF Ops
  <2>2. -2 \in -4 .. 0 /\ 13 \in {0, 13}
    OBVIOUS
  <2> QED BY <1>1, <2>1, <2>2, FailKeeps
<1>2. CASE /\ Creatable(p)
           /\ files' = fs
           /\ disk' = DiskWithFile(p)
           /\ Return("append", -3, 0) \/ Return("append", -4, 0)
           /\ UNCHANGED <<dirs, pool, cwd, uid, batch, stack>>
  <2>1. TablesOK(files', dirs') /\ PoolOK(files', pool')
    BY <1>2, CreateFacts, CreatePool DEF FSInv, Creatable
  <2>2. ImageOK(disk')
    BY <1>2, CreateDisk DEF FSInv, Creatable
  <2>3. ret' \in Results
    BY <1>2 DEF Return, Results, Ops
  <2> QED BY <1>2, <2>1, <2>2, <2>3, CallKeeps DEF FSInv
<1>3. CASE /\ Creatable(p) /\ n <= MaxFile /\ r.ok
           /\ files' = SetData(fs, i, n, new)
           /\ pool' = r.pool
           /\ disk' = DiskWithFile(p)
           /\ Return("append", 0, 0)
           /\ UNCHANGED <<dirs, cwd, uid, batch, stack>>
  <2>1. new \in Contents /\ Len(new) = n
    <3>1. TablesOK(fs, dirs) /\ i \in FSlot
      BY <1>3, CreateFacts DEF FSInv, Creatable
    <3>2. fs[i].data \in Contents
      BY <3>1 DEF TablesOK, FilesOK, FileRec
    <3>3. data \in Contents
      BY StringFacts
    <3> QED BY <3>2, <3>3, ConcatProperties DEF Contents
  <2>2. r = fdata_resize(pool, fs[i].ptr, Len(new))
    BY <2>1 DEF Resized
  <2>3. files' = [fs EXCEPT ![i].data = new, ![i].ptr = r.ptr]
    BY <1>3 DEF SetData
  <2>4. PoolOK(files, pool) /\ Creatable(p) /\ r.ok /\ Len(new) <= MaxFile
    BY <1>3, <2>1 DEF FSInv
  <2>5. TablesOK(files', dirs) /\ PoolOK(files', r.pool)
    <3> HIDE DEF r, new
    <3> QED BY <2>1, <2>2, <2>3, <2>4, WriteFacts
  <2>6. ImageOK(disk')
    BY <1>3, CreateDisk DEF FSInv, Creatable
  <2>7. ret' \in Results
    BY <1>3 DEF Return, Results, Ops
  <2> QED BY <1>3, <2>5, <2>6, <2>7, CallKeeps DEF FSInv
<1> QED BY <1>1, <1>2, <1>3 DEF fs_append_file, Creatable

LEMMA PreallocKeeps ==
    ASSUME FSInv, NEW p \in Path, NEW size \in Sizes, fs_prealloc_file(p, size)
    PROVE  FSInv'
<1> DEFINE i == SlotFor(p)
           fs == WithFile(p)
           h == fpool_coalesce(pool)
           r == fdata_resize(h, fs[i].ptr, size)
           Kept(k) == IF k <= Len(fs[i].data) THEN fs[i].data[k] ELSE Junk
           new == [k \in 1 .. size |-> Kept(k)]
           errno == IF FileAt(p) # {} THEN ret.errno ELSE 0
<1>0. ret.errno \in {0, 13} /\ errno \in {0, 13} /\ size \in Nat
  BY ResultFacts, FSAssumption DEF FSInv
<1>1. CASE Fail("prealloc", -1, ret.errno) \/ Fail("prealloc", -1, CreateResult(p).errno)
  <2>1. CreateResult(p).errno \in {0, 13} /\ "prealloc" \in Ops /\ -1 \in -4 .. 0
    BY ResultFacts DEF Ops
  <2> QED BY <1>0, <1>1, <2>1, FailKeeps
<1>2. CASE /\ Creatable(p) /\ size <= MaxFile
           /\ files' = IF ~r.ok THEN fs ELSE [fs EXCEPT ![i].data = new, ![i].ptr = r.ptr]
           /\ pool' = r.pool
           /\ disk' = DiskWithFile(p)
           /\ Return("prealloc", IF r.ok THEN 0 ELSE -3, errno)
           /\ UNCHANGED <<dirs, cwd, uid, batch, stack>>
  <2>1. TablesOK(fs, dirs) /\ i \in FSlot /\ ImageOK(disk')
    BY <1>2, CreateFacts, CreateDisk DEF FSInv, Creatable
  <2>2. PoolOK(files, h)
    BY PoolCoalesced DEF FSInv
  <2>3. PoolOK(fs, h)
    BY <1>2, <2>2, CreatePool
  <2>4. ret' \in Results
    <3>1. ret' = [op |-> "prealloc", rc |-> IF r.ok THEN 0 ELSE -3, errno |-> errno]
      BY <1>2 DEF Return
    <3> HIDE DEF errno, r
    <3> QED BY <1>0, <3>1 DEF Results, Ops
  <2>5. CASE r.ok
    <3>1. new \in Contents /\ Len(new) = size
      <4>1. fs[i].data \in Seq(Bytes \cup {Junk})
        BY <2>1 DEF TablesOK, FilesOK, FileRec, Contents
      <4>2. \A k \in 1 .. size : Kept(k) \in Bytes \cup {Junk}
        BY <1>0, <4>1
      <4> QED BY <1>0, <4>2 DEF Contents
    <3>2. files' = [fs EXCEPT ![i].data = new, ![i].ptr = r.ptr]
      BY <1>2, <2>5
    <3>3. /\ r = fdata_resize(h, fs[i].ptr, Len(new)) /\ r.ok /\ Len(new) <= MaxFile
          /\ Creatable(p)
      BY <1>2, <2>5, <3>1
    <3>4. TablesOK(files', dirs) /\ PoolOK(files', r.pool)
      <4> HIDE DEF r, h, new
      <4> QED BY <2>2, <3>1, <3>2, <3>3, WriteFacts
    <3> QED BY <1>2, <2>1, <2>4, <3>4, CallKeeps DEF FSInv
  <2>6. CASE ~r.ok
    <3>1. r.pool = h
      BY <2>6 DEF fdata_resize
    <3>2. files' = fs /\ pool' = h
      BY <1>2, <2>6, <3>1
    <3> QED BY <1>2, <2>1, <2>3, <2>4, <3>2, CallKeeps DEF FSInv
  <2> QED BY <2>5, <2>6
<1> QED BY <1>0, <1>1, <1>2, FSAssumption DEF fs_prealloc_file, Creatable

LEMMA WriteAtKeeps ==
    ASSUME FSInv, NEW p \in Path, NEW offset \in Sizes, NEW data \in Strings,
           fs_write_at(p, offset, data)
    PROVE  FSInv'
<1> DEFINE i == Lowest(FileAt(p))
           old == files[i].data
           new == [k \in DOMAIN old |-> IF k - offset \in DOMAIN data
                                        THEN data[k - offset] ELSE old[k]]
<1>1. CASE Fail("write_at", -1, ret.errno) \/ Fail("write_at", -3, ret.errno)
  <2>1. ret.errno \in {0, 13} /\ "write_at" \in Ops /\ -1 \in -4 .. 0 /\ -3 \in -4 .. 0
    BY ResultFacts DEF Ops, FSInv
  <2> QED BY <1>1, <2>1, FailKeeps
<1>2. CASE /\ FileAt(p) # {}
           /\ files' = [files EXCEPT ![i].data =
                    [k \in DOMAIN @ |-> IF k - offset \in DOMAIN data
                                        THEN data[k - offset] ELSE @[k]]]
           /\ Return("write_at", 0, ret.errno)
           /\ UNCHANGED <<dirs, pool, cwd, uid, batch, stack, disk>>
  <2>1. i \in FSlot /\ files[i].used
    BY <1>2, LowestIn, SlotFacts DEF FileAt, UsedF
  <2>2. TablesOK(files, dirs) /\ files \in [FSlot -> FileRec]
    BY DEF FSInv, TablesOK, FilesOK
  <2>3. old \in Contents /\ Len(old) \in Nat /\ DOMAIN old = 1 .. Len(old)
    BY <2>1, <2>2, LenProperties DEF FileRec, Contents
  <2>4. new \in Contents /\ Len(new) = Len(old) /\ (new = <<>> <=> old = <<>>)
    <3>1. \A k \in DOMAIN data : data[k] \in Bytes
      BY StringFacts
    <3>2. new \in [1 .. Len(old) -> Bytes \cup {Junk}]
      BY <2>3, <3>1 DEF Contents
    <3>3. new \in Seq(Bytes \cup {Junk}) /\ Len(new) = Len(old)
      <4> HIDE DEF new, old
      <4> QED BY <2>3, <3>2
    <3> HIDE DEF new, old
    <3> QED BY <2>3, <3>3, EmptySeq DEF Contents
  <2>5. files' = [files EXCEPT ![i].data = new]
    BY <1>2
  <2> HIDE DEF new
  <2>6. /\ files'[i] = [files[i] EXCEPT !.data = new]
        /\ \A j \in FSlot \ {i} : files'[j] = files[j]
        /\ files' = [j \in FSlot |-> files'[j]]
    BY ONLY <2>1, <2>2, <2>5
  <2>7. /\ files'[i] \in FileRec /\ files'[i].used /\ files'[i].name = files[i].name
        /\ files'[i].data = new /\ files'[i].ptr = files[i].ptr
    BY ONLY <2>1, <2>2, <2>4, <2>6 DEF FileRec
  <2>8. files' \in [FSlot -> FileRec]
    BY ONLY <2>2, <2>6, <2>7
  <2>9. TablesOK(files', dirs)
    <3>1. Len(files'[i].data) <= MaxFile
      BY <2>1, <2>4, <2>7, <2>2 DEF TablesOK, FilesOK
    <3>2. /\ files'[i].used /\ files[i].used /\ files'[i].name = files[i].name
          /\ TablesOK(files, dirs) /\ i \in FSlot
          /\ \A j \in FSlot \ {i} : files'[j] = files[j]
      BY ONLY <2>1, <2>2, <2>6, <2>7
    <3> HIDE DEF i
    <3> QED BY ONLY <2>8, <3>1, <3>2, DataFacts
  <2>10. PoolOK(files', pool)
    <3> HIDE DEF i
    <3>1. \A j \in FSlot : /\ files'[j].ptr = files[j].ptr
                           /\ Len(files'[j].data) = Len(files[j].data)
                           /\ files'[j].data = <<>> <=> files[j].data = <<>>
                           /\ files[j].used /\ files[j].ptr # NULL => files'[j].used
      BY <2>1, <2>4, <2>6, <2>7
    <3> QED BY <3>1, PoolSame DEF FSInv
  <2>11. ret' \in Results
    BY <1>2, ResultFacts DEF Return, Results, Ops, FSInv
  <2> QED BY <1>2, <2>9, <2>10, <2>11, CallKeeps DEF FSInv
<1> QED BY <1>1, <1>2 DEF fs_write_at

LEMMA ReadKeeps ==
    ASSUME FSInv, NEW p \in Path, fs_read_file(p)
    PROVE  FSInv'
<1>1. Fail("read", -1, 0) \/ Fail("read", 0, 0) \/ Fail("read", -2, 13)
  BY DEF fs_read_file
<1> QED BY <1>1, FailKeeps DEF Ops

\* The calls that change owners and modes.
LEMMA MetaKeeps ==
    ASSUME FSInv, UNCHANGED <<pool, cwd, uid, batch, stack>>,
           files' \in [FSlot -> FileRec], dirs' \in [DSlot -> DirRec],
           \A i \in FSlot :
              /\ files'[i].used = files[i].used /\ files'[i].name = files[i].name
              /\ files'[i].data = files[i].data /\ files'[i].ptr = files[i].ptr,
           \A d \in DSlot : dirs'[d].used = dirs[d].used /\ dirs'[d].name = dirs[d].name,
           disk' = disk \/ disk' = Committed(files', dirs'), ret' \in Results
    PROVE  FSInv'
<1>1. TablesOK(files', dirs')
  BY MetaFacts DEF FSInv
<1>2. PoolOK(files', pool)
  BY PoolSame DEF FSInv
<1>3. ImageOK(disk')
  BY <1>1, CommitFacts DEF FSInv
<1> QED BY <1>1, <1>2, <1>3, CallKeeps DEF FSInv

LEMMA ChmodKeeps ==
    ASSUME FSInv, NEW p \in Path, NEW mode \in Modes, NEW rec \in BOOLEAN,
           fs_chmod(p, mode, rec)
    PROVE  FSInv'
<1> DEFINE op == IF rec THEN "chmod_r" ELSE "chmod"
           F == TargetF(p) \cup {i \in Sweep(p, rec, files, UsedF) : MayChmod(files[i])}
           D == TargetD(p) \cup {d \in Sweep(p, rec, dirs, UsedD) : MayChmod(dirs[d])}
<1>0. op \in Ops /\ ret.errno \in {0, 13} /\ mode \in SUBSET Bits
  BY ResultFacts, ModesAssumption DEF Ops, FSInv
<1>1. CASE Fail(op, -1, ret.errno)
  <2> HIDE DEF op
  <2> QED BY <1>0, <1>1, FailKeeps
<1>2. CASE /\ files' = [i \in FSlot |-> IF i \in F
                           THEN [files[i] EXCEPT !.mode = mode] ELSE files[i]]
           /\ dirs' = [d \in DSlot |-> IF d \in D
                           THEN [dirs[d] EXCEPT !.mode = mode] ELSE dirs[d]]
           /\ disk' = Committed(files', dirs')
           /\ Return(op, 0, ret.errno)
           /\ UNCHANGED <<pool, cwd, uid, batch, stack>>
  <2>1. files \in [FSlot -> FileRec] /\ dirs \in [DSlot -> DirRec]
    BY DEF FSInv, TablesOK, FilesOK, DirsOK
  <2>2. ret' \in Results
    <3> HIDE DEF op
    <3> QED BY <1>0, <1>2 DEF Return, Results
  <2> HIDE DEF F, D
  <2>3. /\ files' \in [FSlot -> FileRec]
        /\ \A i \in FSlot :
              /\ files'[i].used = files[i].used /\ files'[i].name = files[i].name
              /\ files'[i].data = files[i].data /\ files'[i].ptr = files[i].ptr
    BY <1>0, <1>2, <2>1 DEF FileRec
  <2>4. /\ dirs' \in [DSlot -> DirRec]
        /\ \A d \in DSlot : dirs'[d].used = dirs[d].used /\ dirs'[d].name = dirs[d].name
    BY <1>0, <1>2, <2>1 DEF DirRec
  <2> QED BY <1>2, <2>2, <2>3, <2>4, MetaKeeps
<1> QED BY <1>1, <1>2 DEF fs_chmod

LEMMA GiveFacts ==
    ASSUME FSInv, NEW new \in Uids, NEW F, NEW D, GiveTo(new, F, D)
    PROVE  /\ files' \in [FSlot -> FileRec] /\ dirs' \in [DSlot -> DirRec]
           /\ \A i \in FSlot :
                 /\ files'[i].used = files[i].used /\ files'[i].name = files[i].name
                 /\ files'[i].data = files[i].data /\ files'[i].ptr = files[i].ptr
           /\ \A d \in DSlot :
                 dirs'[d].used = dirs[d].used /\ dirs'[d].name = dirs[d].name
<1>1. files \in [FSlot -> FileRec] /\ dirs \in [DSlot -> DirRec]
  BY DEF FSInv, TablesOK, FilesOK, DirsOK
<1>2. /\ files' \in [FSlot -> FileRec]
      /\ \A i \in FSlot :
            /\ files'[i].used = files[i].used /\ files'[i].name = files[i].name
            /\ files'[i].data = files[i].data /\ files'[i].ptr = files[i].ptr
  BY <1>1 DEF GiveTo, FileRec
<1>3. /\ dirs' \in [DSlot -> DirRec]
      /\ \A d \in DSlot : dirs'[d].used = dirs[d].used /\ dirs'[d].name = dirs[d].name
  BY <1>1 DEF GiveTo, DirRec
<1> QED BY <1>2, <1>3

LEMMA ChownKeeps ==
    ASSUME FSInv, NEW p \in Path, NEW new \in Uids, NEW rec \in BOOLEAN,
           fs_chown(p, new, rec)
    PROVE  FSInv'
<1> DEFINE op == IF rec THEN "chown_r" ELSE "chown"
           F == TargetF(p) \cup Sweep(p, rec, files, UsedF)
           D == TargetD(p) \cup Sweep(p, rec, dirs, UsedD)
<1>0. op \in Ops /\ ret.errno \in {0, 13}
  BY ResultFacts DEF Ops, FSInv
<1>1. CASE Fail(op, -1, ret.errno)
  <2> HIDE DEF op
  <2> QED BY <1>0, <1>1, FailKeeps
<1>2. CASE /\ GiveTo(new, F, D)
           /\ disk' = Committed(files', dirs')
           /\ Return(op, 0, ret.errno)
           /\ UNCHANGED <<pool, cwd, uid, batch, stack>>
  <2>1. ret' \in Results
    <3> HIDE DEF op
    <3> QED BY <1>0, <1>2 DEF Return, Results
  <2> HIDE DEF F, D
  <2> QED BY <1>2, <2>1, GiveFacts, MetaKeeps
<1> QED BY <1>1, <1>2 DEF fs_chown

LEMMA ReassignKeeps ==
    ASSUME FSInv, NEW old \in Uids, NEW new \in Uids, fs_reassign_uid(old, new)
    PROVE  FSInv'
<1> DEFINE F == {i \in UsedF : files[i].owner = old}
           D == {d \in UsedD : dirs[d].owner = old}
<1>1. /\ GiveTo(new, F, D)
      /\ disk' = disk \/ disk' = Committed(files', dirs')
      /\ Return("reassign", 0, ret.errno)
      /\ UNCHANGED <<pool, cwd, uid, batch, stack>>
  BY DEF fs_reassign_uid
<1>2. ret' \in Results
  BY <1>1, ResultFacts DEF Return, Results, Ops, FSInv
<1> HIDE DEF F, D
<1> QED BY <1>1, <1>2, GiveFacts, MetaKeeps

LEMMA SetUidKeeps ==
    ASSUME FSInv, NEW u \in Uids, SetUid(u)
    PROVE  FSInv'
<1>1. /\ uid' = u /\ Return("setuid", 0, ret.errno)
      /\ UNCHANGED <<files, dirs, pool, cwd, batch, stack, disk>>
  BY DEF SetUid
<1>2. ret' \in Results
  BY <1>1, ResultFacts DEF Return, Results, Ops, FSInv
<1> QED BY <1>1, <1>2, CallKeeps DEF FSInv

LEMMA SaveKeeps ==
    ASSUME FSInv, store_save
    PROVE  FSInv'
<1>1. /\ disk' = Image(files, dirs) /\ Return("sync", 0, ret.errno)
      /\ UNCHANGED <<files, dirs, pool, cwd, uid, batch, stack>>
  BY DEF store_save
<1>2. ret' \in Results
  BY <1>1, ResultFacts DEF Return, Results, Ops, FSInv
<1>3. ImageOK(disk')
  BY <1>1, CommitFacts DEF FSInv
<1> QED BY <1>1, <1>2, <1>3, CallKeeps DEF FSInv

LEMMA FreshFacts ==
    /\ TablesOK([i \in FSlot |-> EmptyFile], FreshDirs)
    /\ PoolOK([i \in FSlot |-> EmptyFile], fpool_init)
    /\ \A img : /\ img.files = [i \in FSlot |-> EmptyFile]
                /\ img.dirs = FreshDirs /\ img.cwd = Root
                => ImageOK(img)
<1> DEFINE fs == [i \in FSlot |-> EmptyFile]
<1>1. /\ EmptyFile \in FileRec /\ ~EmptyFile.used /\ EmptyFile.data = <<>>
      /\ EmptyFile.ptr = NULL
  BY FSAssumption, RootPath, EmptySeq DEF EmptyFile, FileRec, NULL, Contents, M755
<1>2. Len(<<>>) = 0 /\ MaxFile \in Nat
  BY FSAssumption, EmptySeq
<1>3. FilesOK(fs)
  BY <1>1, <1>2 DEF FilesOK
<1>4. /\ FreshDirs \in [DSlot -> DirRec]
      /\ \A d \in DSlot : (FreshDirs[d].used <=> d = 0) /\ FreshDirs[d].name = Root
  BY FSAssumption, RootPath DEF FreshDirs, RootDir, EmptyDir, DirRec, M755
<1>5. Whole(fs, FreshDirs)
  <2>1. NamesUniqueIn(fs, FreshDirs)
    BY <1>1, <1>4 DEF NamesUniqueIn
  <2>2. Len(Root) = 0
    BY EmptySeq DEF Root
  <2>3. TreeOf(fs, FreshDirs)
    BY <1>1, <1>4, <2>2 DEF TreeOf
  <2> QED BY <2>1, <2>3 DEF Whole
<1>6. TablesOK(fs, FreshDirs)
  BY <1>3, <1>4, <1>5 DEF TablesOK, DirsOK
<1>7. PoolOK(fs, fpool_init)
  <2>1. \A o \in DOMAIN fpool_init : fpool_init[o].free
    BY DEF fpool_init
  <2>2. DOMAIN Live(fpool_init) = {}
    BY <2>1 DEF Live
  <2> QED BY <1>1, <2>2, InitGood DEF PoolOK, Owned
<1>8. \A img : /\ img.files = fs /\ img.dirs = FreshDirs /\ img.cwd = Root
                => ImageOK(img)
  BY <1>1, <1>6, RootPath DEF ImageOK
<1> QED BY <1>6, <1>7, <1>8

LEMMA FSStart == Init => FSInv
<1> SUFFICES ASSUME Init PROVE FSInv
  OBVIOUS
<1>1. TablesOK(files, dirs) /\ PoolOK(files, pool)
  BY FreshFacts DEF Init
<1>2. ImageOK(disk)
  <2>1. disk.files = [i \in FSlot |-> EmptyFile] /\ disk.dirs = FreshDirs /\ disk.cwd = Root
    BY DEF Init
  <2> QED BY <2>1, FreshFacts
<1>3. stack \in Seq(Level) /\ Len(stack) = 0 /\ batch = 0
  BY EmptySeq DEF Init
<1>4. StackOK
  BY <1>3 DEF StackOK
<1>5. ret \in Results
  BY DEF Init, Results, Ops
<1> QED BY <1>1, <1>2, <1>4, <1>5, RootPath, FSAssumption DEF FSInv, Init

LEMMA RebootKeeps ==
    ASSUME FSInv, Reboot
    PROVE  FSInv'
<1> DEFINE l == Loaded(disk)
<1>1. /\ uid' = 0 /\ batch' = 0 /\ stack' = <<>>
      /\ ret' = [op |-> "reboot", rc |-> IF l.ok THEN 0 ELSE -1, errno |-> 0]
  BY DEF Reboot, Return
<1>2. ret' \in Results
  <2> HIDE DEF l
  <2> QED BY <1>1 DEF Results, Ops
<1>3. StackOK'
  <2>1. <<>> \in Seq(Level) /\ Len(<<>>) = 0
    BY EmptySeq
  <2> QED BY <1>1, <2>1 DEF StackOK
<1>4. CASE l.ok
  <2>1. /\ files' = Reloaded(disk) /\ dirs' = disk.dirs /\ pool' = l.pool
        /\ cwd' = disk.cwd /\ disk' = disk
    BY <1>4 DEF Reboot, Reloaded
  <2>2. TablesOK(files', dirs') /\ PoolOK(files', pool')
    BY <1>4, <2>1, LoadedFacts DEF FSInv
  <2>3. cwd' \in Path /\ ImageOK(disk')
    BY <2>1 DEF FSInv, ImageOK
  <2> QED BY <1>1, <1>2, <1>3, <2>2, <2>3, FSAssumption DEF FSInv
<1>5. CASE ~l.ok
  <2>1. /\ files' = [i \in FSlot |-> EmptyFile] /\ dirs' = FreshDirs
        /\ pool' = fpool_init /\ cwd' = Root
        /\ disk' = [files |-> files', dirs |-> dirs', cwd |-> Root]
    BY <1>5 DEF Reboot
  <2>2. TablesOK(files', dirs') /\ PoolOK(files', pool')
    BY <2>1, FreshFacts
  <2>3. ImageOK(disk')
    <3>1. disk'.files = [i \in FSlot |-> EmptyFile] /\ disk'.dirs = FreshDirs /\ disk'.cwd = Root
      BY <2>1
    <3> QED BY <3>1, FreshFacts
  <2> QED BY <1>1, <1>2, <1>3, <2>1, <2>2, <2>3, RootPath, FSAssumption DEF FSInv
<1> QED BY <1>4, <1>5

---------------------------------------------------------------------------
(***************************************************************************)
(* fs_delete_directory_recursive.                                          *)
(***************************************************************************)

\* The names an activation has listed are slots and components of paths.
LEMMA ActivationFacts ==
    ASSUME FSInv, NEW sp \in Spelling
    PROVE  Activation(sp) \in Level /\ Activation(sp).sp = sp
<1>1. files \in [FSlot -> FileRec] /\ dirs \in [DSlot -> DirRec]
  BY DEF FSInv, TablesOK, FilesOK, DirsOK
<1>2. \A n \in Path : n # Root => n[Len(n)] \in Names
  <2> SUFFICES ASSUME NEW n \in Path, n # Root PROVE n[Len(n)] \in Names
    OBVIOUS
  <2>1. n \in Seq(Names) /\ Len(n) \in Nat /\ Len(n) > 0
    BY FrontFacts
  <2>2. \A k \in Nat : k > 0 => k \in 1 .. k
    OBVIOUS
  <2>3. Len(n) \in 1 .. Len(n)
    BY ONLY <2>1, <2>2
  <2> QED BY ONLY <2>1, <2>3, ElementOfSeq
<1>3. /\ \A i \in FSlot : files[i].name \in Path
      /\ \A d \in DSlot : dirs[d].name \in Path
  BY <1>1 DEF FileRec, DirRec
<1> DEFINE LastF(i) == files[i].name[Len(files[i].name)]
           LastD(i) == dirs[i].name[Len(dirs[i].name)]
<1>4. Listed(sp.full, files, UsedF) \subseteq FSlot \X Names
  <2>1. \A i \in FSlot : files[i].name # Root => LastF(i) \in Names
    BY <1>2, <1>3
  <2>2. Listed(sp.full, files, UsedF) =
          {<<i, LastF(i)>> : i \in {j \in UsedF : files[j].name # Root
                                                 /\ Front(files[j].name) = sp.full}}
    BY DEF Listed
  <2>3. UsedF \subseteq FSlot
    BY SlotFacts
  <2> HIDE DEF LastF
  <2> QED BY ONLY <2>1, <2>2, <2>3
<1>5. Listed(sp.full, dirs, UsedD \ {0}) \subseteq DSlot \X Names
  <2>1. \A i \in DSlot : dirs[i].name # Root => LastD(i) \in Names
    BY <1>2, <1>3
  <2>2. Listed(sp.full, dirs, UsedD \ {0}) =
          {<<i, LastD(i)>> : i \in {j \in UsedD \ {0} : dirs[j].name # Root
                                                 /\ Front(dirs[j].name) = sp.full}}
    BY DEF Listed
  <2>3. UsedD \subseteq DSlot
    BY SlotFacts
  <2> HIDE DEF LastD
  <2> QED BY ONLY <2>1, <2>2, <2>3
<1> QED BY <1>4, <1>5 DEF Activation, Level

\* An activation starts only on a directory that is there, or on "/".
LEMMA EntryFacts ==
    ASSUME FSInv, NEW sp, EntryResult(sp).rc = 0, ~sp.slash
    PROVE  sp.full \in Path /\ DirAt(sp.full) # {}
<1>1. DirAt(sp.full) # {}
  BY DEF EntryResult
<1>2. \A d \in DirAt(sp.full) : sp.full = dirs[d].name /\ d \in DSlot
  BY DEF DirAt, UsedD
<1>3. \A d \in DSlot : dirs[d].name \in Path
  BY DEF FSInv, TablesOK, DirsOK, DirRec
<1> QED BY <1>1, <1>2, <1>3

LEMMA RmStartKeeps ==
    ASSUME FSInv, NEW sp \in Spellings, RmStart(sp)
    PROVE  FSInv'
<1> DEFINE r == EntryResult(sp)
<1>1. CASE Fail("rm_r", r.rc, r.errno)
  <2>1. r.rc \in -4 .. 0 /\ r.errno \in {0, 13} /\ "rm_r" \in Ops
    BY ResultFacts DEF Ops
  <2> QED BY <1>1, <2>1, FailKeeps
<1>2. CASE /\ r.rc = 0
           /\ stack' = <<Activation(sp)>>
           /\ batch' = batch + 1
           /\ Return("rm_r", 0, 0)
           /\ UNCHANGED <<files, dirs, pool, cwd, uid, disk>>
  <2>1. /\ sp = [full |-> sp.full, slash |-> sp.slash, short |-> sp.short]
        /\ sp.slash \in BOOLEAN /\ sp.short \in Short \cup {Long}
        /\ sp.slash => sp.full = Root
    <3>1. ASSUME NEW p, NEW l \in BOOLEAN, NEW c \in Short \cup {Long},
                 l => p = Root, sp = [full |-> p, slash |-> l, short |-> c]
          PROVE  /\ sp = [full |-> sp.full, slash |-> sp.slash, short |-> sp.short]
                 /\ sp.slash \in BOOLEAN /\ sp.short \in Short \cup {Long}
                 /\ sp.slash => sp.full = Root
      BY ONLY <3>1
    <3>2. \/ sp = [full |-> Root, slash |-> TRUE, short |-> Long]
          \/ \E p \in Path : sp = [full |-> p, slash |-> FALSE, short |-> Long]
          \/ \E c \in Short : sp = [full |-> IF c = "." THEN cwd ELSE Append(cwd, c),
                                  slash |-> FALSE, short |-> c]
      BY Zenon DEF Spellings, Spelled, Long
    <3> QED BY ONLY <3>1, <3>2, Zenon
  <2>2. sp.full \in Path
    BY <1>2, <2>1, EntryFacts, RootPath
  <2>3. sp \in Spelling
    BY <2>1, <2>2 DEF Spelling
  <2> DEFINE a == Activation(sp)
  <2>4. a \in Level /\ a.sp.full = sp.full
    BY <2>3, ActivationFacts
  <2>5. stack' = <<a>>
    BY <1>2
  <2>6. Len(sp.full) \in Nat
    BY <2>2, FrontFacts
  <2> HIDE DEF a
  <2>7. stack' \in Seq(Level) /\ Len(stack') = 1 /\ stack'[1] = a
    BY ONLY <2>4, <2>5
  <2>8. StackOK'
    <3>1. batch' = batch + 1 /\ batch \in Nat
      BY <1>2 DEF FSInv, StackOK
    <3>2. Len(stack'[1].sp.full) >= 0
      BY <2>4, <2>6, <2>7
    <3> QED BY <2>7, <3>1, <3>2 DEF StackOK
  <2>9. ret' \in Results
    BY <1>2 DEF Return, Results, Ops
  <2> QED BY <1>2, <2>8, <2>9 DEF FSInv
<1> QED BY <1>1, <1>2 DEF RmStart

\* The innermost activation.
LEMMA TopFacts ==
    ASSUME FSInv, stack # <<>>
    PROVE  /\ Len(stack) \in Nat \ {0} /\ Len(stack) \in 1 .. Len(stack)
           /\ Top = stack[Len(stack)] /\ Top \in Level
           /\ Len(Top.sp.full) \in Nat /\ Len(Top.sp.full) >= Len(stack) - 1
           /\ Top.sp.full \in Path
           /\ Len(stack) > 1 => Top.sp.short = Long
           /\ batch \in Nat /\ batch >= Len(stack)
           /\ stack \in Seq(Level)
<1>1. stack \in Seq(Level) /\ batch \in Nat /\ Len(stack) <= batch
  BY DEF FSInv, StackOK
<1>2. Len(stack) \in Nat \ {0} /\ Len(stack) \in 1 .. Len(stack)
  BY <1>1, EmptySeq
<1>3. Top = stack[Len(stack)] /\ Top \in Level
  BY <1>1, <1>2, ElementOfSeq DEF Top
<1>4. Top.sp.full \in Path
  BY <1>3 DEF Level, Spelling
<1>5. Len(Top.sp.full) \in Nat
  BY <1>4, FrontFacts
<1>6. /\ Len(Top.sp.full) >= Len(stack) - 1
      /\ Len(stack) > 1 => Top.sp.short = Long
  BY <1>2, <1>3 DEF FSInv, StackOK
<1> QED BY <1>1, <1>2, <1>3, <1>4, <1>5, <1>6

\* The path of a child: one longer than its parent's, or than cwd.
LEMMA ChildFacts ==
    ASSUME FSInv, stack # <<>>, NEW name \in Names, NEW sp, sp = ChildOf(Top.sp, name)
    PROVE  /\ ~sp.slash /\ sp.short = Long
           /\ sp = [full |-> sp.full, slash |-> FALSE, short |-> Long]
           /\ Len(sp.full) \in Nat /\ Len(sp.full) >= Len(stack)
           /\ Top.sp.short = Long => sp.full = Append(Top.sp.full, name)
<1> DEFINE g == Glue[Top.sp.short, name]
           t == Top.sp
           p == t.full
           q == IF t.short = Long THEN Append(p, name) ELSE Append(cwd, g)
           n == Len(stack)
<1>1. sp = [full |-> q, slash |-> FALSE, short |-> Long]
  BY Zenon DEF ChildOf, Spelled, Long
<1>2. /\ p \in Path /\ cwd \in Path
      /\ Len(p) >= n - 1
      /\ n \in Nat \ {0}
      /\ n > 1 => t.short = Long
  BY TopFacts DEF FSInv
<1>3. p \in Seq(Names) /\ Len(p) \in Nat /\ cwd \in Seq(Names) /\ Len(cwd) \in Nat
  BY <1>2, FrontFacts
<1> HIDE DEF g, t, p, n
<1>4. Len(Append(p, name)) = Len(p) + 1
  BY ONLY <1>3, AppendProperties, name \in Names
<1>5. Len(Append(cwd, g)) = Len(cwd) + 1
  <2> DEFINE S == Names \cup {g}
  <2>1. g \in S /\ Names \subseteq S
    OBVIOUS
  <2> HIDE DEF S
  <2>2. cwd \in Seq(S)
    BY ONLY <1>3, <2>1, SeqMonotonic
  <2> QED BY ONLY <2>1, <2>2, AppendProperties
<1>6. Len(q) \in Nat /\ Len(q) >= n
  <2>1. CASE t.short = Long
    <3>1. Len(q) = Len(p) + 1
      BY ONLY <1>4, <2>1
    <3> HIDE DEF q
    <3> QED BY ONLY <3>1, <1>2, <1>3
  <2>2. CASE t.short # Long
    <3>1. Len(q) = Len(cwd) + 1
      BY ONLY <1>5, <2>2
    <3> HIDE DEF q
    <3>2. ~(n > 1)
      BY ONLY <1>2, <2>2, Zenon
    <3>3. n = 1
      BY ONLY <1>2, <3>2
    <3> QED BY ONLY <3>1, <3>3, <1>3
  <2> QED BY ONLY <2>1, <2>2
<1>7. t.short = Long => q = Append(p, name)
  OBVIOUS
<1> HIDE DEF q
<1>8. /\ sp.full = q /\ ~sp.slash /\ sp.short = Long
      /\ sp = [full |-> sp.full, slash |-> FALSE, short |-> Long]
  BY ONLY <1>1
<1> QED BY <1>6, <1>7, <1>8, Zenon DEF n, t, p

\* The batch depth counts every activation, so that leaving n of them does
\* not take it below zero.
LEMMA LeaveFacts ==
    ASSUME FSInv, TablesOK(files', dirs'), NEW n \in Nat, n <= batch, Leave(n)
    PROVE  batch' = batch - n /\ batch' \in Nat /\ ImageOK(disk')
<1>1. batch \in Nat /\ ImageOK(disk)
  BY DEF FSInv, StackOK
<1>2. batch' = batch - n /\ disk' = IF batch' = 0 THEN Image(files', dirs') ELSE disk
  BY DEF Leave
<1>3. batch' \in Nat
  BY <1>1, <1>2
<1>4. ImageOK(Image(files', dirs'))
  BY CommitFacts
<1> QED BY <1>1, <1>2, <1>3, <1>4

\* No activation is left.
LEMMA StackReset ==
    ASSUME stack' = <<>>, batch' \in Nat
    PROVE  StackOK'
<1>1. stack' \in Seq(Level) /\ Len(stack') = 0
  BY EmptySeq
<1> QED BY <1>1 DEF StackOK

LEMMA RmFailKeeps ==
    ASSUME FSInv, stack # <<>>, NEW errno \in {0, 13}, RmFail(errno)
    PROVE  FSInv'
<1>1. /\ stack' = <<>> /\ UNCHANGED <<files, dirs, pool, cwd, uid>>
      /\ Leave(Len(stack)) /\ Return("rm_r", -1, errno)
  BY DEF RmFail
<1>2. TablesOK(files', dirs') /\ PoolOK(files', pool')
  BY <1>1 DEF FSInv
<1>3. Len(stack) \in Nat /\ Len(stack) <= batch
  BY TopFacts
<1>4. batch' \in Nat /\ ImageOK(disk')
  BY <1>1, <1>2, <1>3, LeaveFacts
<1>5. StackOK'
  BY <1>1, <1>4, StackReset
<1>6. ret' \in Results
  BY <1>1 DEF Return, Results, Ops
<1> QED BY <1>1, <1>2, <1>4, <1>5, <1>6 DEF FSInv

LEMMA CtrlCKeeps ==
    ASSUME FSInv, CtrlC
    PROVE  FSInv'
<1>1. /\ stack' = <<>> /\ UNCHANGED <<files, dirs, pool, cwd, uid, batch, disk>>
      /\ Return("ctrl_c", 0, ret.errno)
  BY DEF CtrlC
<1>2. batch' \in Nat
  BY <1>1 DEF FSInv, StackOK
<1>3. StackOK'
  BY <1>1, <1>2, StackReset
<1>4. ret' \in Results
  BY <1>1, ResultFacts DEF FSInv, Return, Results, Ops
<1> QED BY <1>1, <1>3, <1>4 DEF FSInv

\* The innermost activation goes on with less to do.
LEMMA SetTopFacts ==
    ASSUME FSInv, stack # <<>>, NEW act \in Level, act.sp = Top.sp
    PROVE  /\ SetTop(act) \in Seq(Level) /\ Len(SetTop(act)) = Len(stack)
           /\ \A k \in 1 .. Len(stack) : SetTop(act)[k].sp = stack[k].sp
<1> DEFINE n == Len(stack)
           s == SetTop(act)
<1>1. stack \in Seq(Level) /\ n \in Nat \ {0} /\ n \in 1 .. Len(stack) /\ Top = stack[n]
  BY TopFacts
<1>2. s = [stack EXCEPT ![n] = act]
  BY DEF SetTop
<1> HIDE DEF n
<1>3. /\ s \in Seq(Level) /\ Len(s) = Len(stack)
      /\ \A k \in 1 .. Len(stack) : s[k] = IF k = n THEN act ELSE stack[k]
  BY ONLY <1>1, <1>2, act \in Level, ExceptSeq
<1>4. \A k \in 1 .. Len(stack) : s[k].sp = stack[k].sp
  BY <1>1, <1>3
<1> QED BY <1>3, <1>4

LEMMA RmDirKeeps ==
    ASSUME FSInv, stack # <<>>, RmDir
    PROVE  FSInv'
<1>1. PICK e \in Top.ds :
        LET sp == ChildOf(Top.sp, e[2])
            r  == EntryResult(sp)
        IN  \/ r.rc # 0 /\ RmFail(r.errno)
            \/ /\ r.rc = 0
               /\ stack' = Append(SetTop([Top EXCEPT !.ds = @ \ {e}]), Activation(sp))
               /\ batch' = batch + 1
               /\ Return("rm_r", 0, 0)
               /\ UNCHANGED <<files, dirs, pool, cwd, uid, disk>>
  BY DEF RmDir
<1> DEFINE name == e[2]
           sp == ChildOf(Top.sp, name)
           r == EntryResult(sp)
           rest == [Top EXCEPT !.ds = @ \ {e}]
           s == SetTop(rest)
           a == Activation(sp)
<1>2. Top \in Level /\ stack \in Seq(Level) /\ batch \in Nat /\ Len(stack) <= batch
      /\ Len(stack) \in Nat
  BY TopFacts
<1>3. name \in Names
  BY <1>2 DEF Level
<1>4. CASE RmFail(r.errno)
  BY <1>4, RmFailKeeps, ResultFacts
<1>5. CASE /\ r.rc = 0
           /\ stack' = Append(s, a)
           /\ batch' = batch + 1
           /\ Return("rm_r", 0, 0)
           /\ UNCHANGED <<files, dirs, pool, cwd, uid, disk>>
  <2>1. rest \in Level /\ rest.sp = Top.sp
    <3> DEFINE t == Top
    <3>1. t \in Level /\ rest = [t EXCEPT !.ds = @ \ {e}]
      BY <1>2
    <3> HIDE DEF t
    <3>2. rest \in Level /\ rest.sp = t.sp
      BY <3>1 DEF Level
    <3> QED BY <3>2 DEF t
  <2> HIDE DEF rest
  <2>2. /\ s \in Seq(Level) /\ Len(s) = Len(stack)
        /\ \A k \in 1 .. Len(stack) : s[k].sp = stack[k].sp
    BY <2>1, SetTopFacts
  <2>3. /\ ~sp.slash /\ sp.short = Long
        /\ sp = [full |-> sp.full, slash |-> FALSE, short |-> Long]
        /\ Len(sp.full) \in Nat /\ Len(sp.full) >= Len(stack)
    BY <1>3, ChildFacts
  <2> HIDE DEF s, sp
  <2>4. sp.full \in Path
    BY <1>5, <2>3, EntryFacts
  <2>5. sp \in Spelling
    <3>1. [full |-> sp.full, slash |-> FALSE, short |-> Long] \in Spelling
      BY ONLY <2>4 DEF Spelling
    <3> QED BY ONLY <2>3, <3>1, Zenon
  <2>6. a \in Level /\ a.sp = sp
    BY <2>5, ActivationFacts
  <2> HIDE DEF a
  <2>7. stack' = Append(s, a)
    BY <1>5
  <2>8. /\ stack' \in Seq(Level) /\ Len(stack') = Len(stack) + 1
        /\ \A k \in 1 .. Len(stack) : stack'[k] = s[k]
        /\ stack'[Len(stack) + 1] = a
    <3> HIDE DEF s, a
    <3>1. /\ Append(s, a) \in Seq(Level) /\ Len(Append(s, a)) = Len(s) + 1
          /\ \A k \in 1 .. Len(s) : Append(s, a)[k] = s[k]
          /\ Append(s, a)[Len(s) + 1] = a
      BY ONLY <2>2, <2>6, AppendProperties
    <3> QED BY ONLY <2>2, <2>7, <3>1
  <2>9. \A k \in 1 .. Len(stack) : /\ Len(stack'[k].sp.full) >= k - 1
                                   /\ k > 1 => stack'[k].sp.short = Long
    <3>1. \A k \in 1 .. Len(stack) : /\ Len(stack[k].sp.full) >= k - 1
                                     /\ k > 1 => stack[k].sp.short = Long
      BY DEF FSInv, StackOK
    <3> QED BY ONLY <2>2, <2>8, <3>1
  <2>10. \A k \in 1 .. Len(stack') : /\ Len(stack'[k].sp.full) >= k - 1
                                     /\ k > 1 => stack'[k].sp.short = Long
    <3> SUFFICES ASSUME NEW k \in 1 .. Len(stack')
                 PROVE  /\ Len(stack'[k].sp.full) >= k - 1
                        /\ k > 1 => stack'[k].sp.short = Long
      OBVIOUS
    <3>1. CASE k = Len(stack) + 1
      <4>1. stack'[k].sp = sp
        BY ONLY <2>6, <2>8, <3>1
      <4> QED BY ONLY <1>2, <2>3, <3>1, <4>1
    <3>2. k \in 1 .. Len(stack) \/ k = Len(stack) + 1
      BY ONLY <1>2, <2>8, k \in 1 .. Len(stack')
    <3> QED BY <3>1, <3>2, <2>9
  <2>11. StackOK'
    BY <1>2, <1>5, <2>8, <2>10 DEF StackOK
  <2>12. ret' \in Results
    BY <1>5 DEF Return, Results, Ops
  <2> QED BY <1>5, <2>11, <2>12 DEF FSInv
<1> QED BY <1>1, <1>4, <1>5

LEMMA RmFileKeeps ==
    ASSUME FSInv, stack # <<>>, RmFile
    PROVE  FSInv'
<1>1. PICK e \in Top.fs :
        LET p == ChildOf(Top.sp, e[2]).full
            r == DeleteResult(p)
        IN  \/ r.rc # 0 /\ RmFail(r.errno)
            \/ /\ r.rc = 0
               /\ files' = WithoutFile(p)
               /\ pool' = PoolWithoutFile(p)
               /\ stack' = SetTop([Top EXCEPT !.fs = @ \ {e}])
               /\ disk' = Committed(files', dirs)
               /\ Return("rm_r", 0, 0)
               /\ UNCHANGED <<dirs, cwd, uid, batch>>
  BY DEF RmFile
<1> DEFINE p == ChildOf(Top.sp, e[2]).full
           r == DeleteResult(p)
           rest == [Top EXCEPT !.fs = @ \ {e}]
           s == SetTop(rest)
<1>2. Top \in Level
  BY TopFacts
<1>3. CASE RmFail(r.errno)
  BY <1>3, RmFailKeeps, ResultFacts
<1>4. CASE /\ r.rc = 0
           /\ files' = WithoutFile(p)
           /\ pool' = PoolWithoutFile(p)
           /\ stack' = s
           /\ disk' = Committed(files', dirs)
           /\ Return("rm_r", 0, 0)
           /\ UNCHANGED <<dirs, cwd, uid, batch>>
  <2>1. rest \in Level /\ rest.sp = Top.sp
    <3> DEFINE t == Top
    <3>1. t \in Level /\ rest = [t EXCEPT !.fs = @ \ {e}]
      BY <1>2
    <3> HIDE DEF t
    <3>2. rest \in Level /\ rest.sp = t.sp
      BY <3>1 DEF Level
    <3> QED BY <3>2 DEF t
  <2> HIDE DEF rest
  <2>2. /\ s \in Seq(Level) /\ Len(s) = Len(stack)
        /\ \A k \in 1 .. Len(stack) : s[k].sp = stack[k].sp
    BY <2>1, SetTopFacts
  <2> HIDE DEF s, p
  <2>3. FileAt(p) # {}
    BY <1>4 DEF DeleteResult
  <2>4. TablesOK(files', dirs') /\ PoolOK(files', pool')
    BY <1>4, <2>3, DeleteFacts
  <2>5. ImageOK(disk')
    BY <1>4, <2>4, CommitFacts
  <2>6. StackOK'
    BY <1>4, <2>2 DEF FSInv, StackOK
  <2>7. ret' \in Results
    BY <1>4 DEF Return, Results, Ops
  <2> QED BY <1>4, <2>4, <2>5, <2>6, <2>7 DEF FSInv
<1> QED BY <1>1, <1>3, <1>4

\* The innermost activation returns.
LEMMA PopFacts ==
    ASSUME FSInv, stack # <<>>, NEW s, s = SubSeq(stack, 1, Len(stack) - 1)
    PROVE  /\ s \in Seq(Level) /\ Len(s) = Len(stack) - 1
           /\ \A k \in 1 .. Len(s) : s[k] = stack[k] /\ k \in 1 .. Len(stack)
<1> DEFINE n == Len(stack) - 1
<1>1. stack \in Seq(Level) /\ Len(stack) \in Nat \ {0} /\ n \in Nat
      /\ n \in Int /\ 1 \in Int /\ Len(stack) = n + 1
  BY TopFacts
<1> HIDE DEF n
<1>2. \A k \in 1 .. n : k \in 1 .. Len(stack) /\ stack[k] \in Level
  BY <1>1, ElementOfSeq
<1>3. /\ SubSeq(stack, 1, n) \in Seq(Level)
      /\ Len(SubSeq(stack, 1, n)) = IF 1 <= n THEN n - 1 + 1 ELSE 0
      /\ \A k \in 1 .. n - 1 + 1 : SubSeq(stack, 1, n)[k] = stack[1 + k - 1]
  BY ONLY <1>1, <1>2, SubSeqProperties
<1>4. s = SubSeq(stack, 1, n)
  BY DEF n
<1>5. Len(s) = n
  BY ONLY <1>1, <1>3, <1>4
<1>6. \A k \in 1 .. n : s[k] = stack[k]
  <2>1. \A k \in 1 .. n : k \in 1 .. n - 1 + 1 /\ 1 + k - 1 = k
    BY ONLY <1>1
  <2> QED BY ONLY <1>3, <1>4, <2>1
<1> QED BY ONLY <1>1, <1>2, <1>3, <1>4, <1>5, <1>6 DEF n

LEMMA RmSelfKeeps ==
    ASSUME FSInv, stack # <<>>, RmSelf
    PROVE  FSInv'
<1> DEFINE p == Top.sp.full
           r == RmdirResult(p, Top.sp.slash)
<1>1. CASE RmFail(r.errno)
  BY <1>1, RmFailKeeps, ResultFacts
<1>2. CASE /\ r.rc = 0
           /\ dirs' = WithoutDir(p)
           /\ stack' = SubSeq(stack, 1, Len(stack) - 1)
           /\ UNCHANGED <<files, pool, cwd, uid>>
           /\ Leave(1)
           /\ Return("rm_r", 0, 0)
  <2> HIDE DEF p
  <2>1. Children(p) = {} /\ DirAt(p) # {}
    BY <1>2 DEF RmdirResult
  <2>2. TablesOK(files', dirs')
    BY <1>2, <2>1, RmdirFacts DEF FSInv
  <2>3. Len(stack) \in Nat \ {0} /\ batch \in Nat /\ Len(stack) <= batch
    BY TopFacts
  <2>4. batch' = batch - 1 /\ batch' \in Nat /\ ImageOK(disk')
    BY <1>2, <2>2, <2>3, LeaveFacts
  <2>5. /\ stack' \in Seq(Level) /\ Len(stack') = Len(stack) - 1
        /\ \A k \in 1 .. Len(stack') : stack'[k] = stack[k] /\ k \in 1 .. Len(stack)
    BY <1>2, PopFacts
  <2>6. StackOK'
    BY <2>3, <2>4, <2>5 DEF FSInv, StackOK
  <2>7. ret' \in Results
    BY <1>2 DEF Return, Results, Ops
  <2>8. PoolOK(files', pool')
    BY <1>2 DEF FSInv
  <2> QED BY <1>2, <2>2, <2>4, <2>6, <2>7, <2>8 DEF FSInv
<1> QED BY <1>1, <1>2 DEF RmSelf

---------------------------------------------------------------------------
(***************************************************************************)
(* Every step keeps the invariant.                                         *)
(***************************************************************************)
LEMMA FileCallKeeps == FSInv /\ FileCall => FSInv'
<1> SUFFICES ASSUME FSInv, NEW p \in Path,
                    \/ fs_create_file(p) \/ fs_delete_file(p) \/ fs_read_file(p)
                    \/ \E data \in Strings : fs_write_file(p, data) \/ fs_append_file(p, data)
                    \/ \E size \in Sizes : fs_prealloc_file(p, size)
                    \/ \E data \in Strings, off \in Sizes : fs_write_at(p, off, data)
             PROVE  FSInv'
  BY DEF FileCall
<1> QED BY CreateKeeps, DeleteKeeps, ReadKeeps, WriteKeeps, AppendKeeps, PreallocKeeps,
           WriteAtKeeps

LEMMA DirCallKeeps == FSInv /\ DirCall => FSInv'
<1> SUFFICES ASSUME FSInv, NEW p \in Path,
                    \/ fs_create_directory(p)
                    \/ \E lit \in BOOLEAN : \/ fs_delete_directory(p, lit)
                                            \/ fs_change_directory(p, lit)
             PROVE  FSInv'
  BY DEF DirCall
<1> QED BY MkdirKeeps, RmdirKeeps, CdKeeps

LEMMA OwnerCallKeeps == FSInv /\ OwnerCall => FSInv'
<1> SUFFICES ASSUME FSInv, OwnerCall PROVE FSInv'
  OBVIOUS
<1>1. CASE \E p \in Path, rec \in BOOLEAN, mode \in Modes : fs_chmod(p, mode, rec)
  BY <1>1, ChmodKeeps
<1>2. CASE \E p \in Path, rec \in BOOLEAN, new \in Uids : fs_chown(p, new, rec)
  BY <1>2, ChownKeeps
<1>3. CASE \E old, new \in Uids : fs_reassign_uid(old, new)
  BY <1>3, ReassignKeeps
<1>4. CASE \E u \in Uids : SetUid(u)
  BY <1>4, SetUidKeeps
<1> QED BY <1>1, <1>2, <1>3, <1>4 DEF OwnerCall

LEMMA FSStep == FSInv /\ [Next]_vars => FSInv'
<1> SUFFICES ASSUME FSInv, [Next]_vars PROVE FSInv'
  OBVIOUS
<1>1. CASE FileCall \/ DirCall \/ OwnerCall
  BY <1>1, FileCallKeeps, DirCallKeeps, OwnerCallKeeps
<1>2. CASE \E sp \in Spellings : RmStart(sp)
  BY <1>2, RmStartKeeps
<1>3. CASE RmStep
  BY <1>3, RmDirKeeps, RmFileKeeps, RmSelfKeeps DEF RmStep
<1>4. CASE CtrlC \/ store_save \/ Reboot
  BY <1>4, CtrlCKeeps, SaveKeeps, RebootKeeps
<1>5. CASE UNCHANGED vars
  BY <1>5 DEF vars, FSInv, StackOK
<1> QED BY <1>1, <1>2, <1>3, <1>4, <1>5 DEF Next

\* Whatever calls are made, interrupted or cut off by a power failure, the
\* tables, the image on the disk, the pool and the recursion stay sound.
THEOREM FileSystemCorrect == Spec => []FSInv
BY FSStart, FSStep, PTL DEF Spec

\* Every table entry, counter and result keeps to its range, pointers stay
\* inside the pool, and the recursion of rm -r is never deeper than a path
\* is long, nor than the batch depth counts.
THEOREM FileSystemTyped == Spec => []TypeOK
<1>1. FSInv => TypeOK
  <2> SUFFICES ASSUME FSInv PROVE TypeOK
    OBVIOUS
  <2>1. /\ files \in [FSlot -> FileRec] /\ dirs \in [DSlot -> DirRec]
        /\ \A i \in FSlot : Len(files[i].data) <= MaxFile
        /\ Good(pool) /\ Owned(files, pool)
    BY DEF FSInv, TablesOK, FilesOK, DirsOK, PoolOK
  <2>2. \A i \in FSlot : files[i].ptr \in 0 .. PoolBytes
    <3> SUFFICES ASSUME NEW i \in FSlot PROVE files[i].ptr \in 0 .. PoolBytes
      OBVIOUS
    <3> DEFINE q == files[i].ptr
    <3>1. q = NULL \/ q \in DOMAIN Live(pool)
      BY <2>1 DEF Owned
    <3> HIDE DEF q
    <3>2. q = NULL => q \in 0 .. PoolBytes
      BY PoolAssumption DEF NULL
    <3>3. ASSUME q \in DOMAIN Live(pool) PROVE q \in 0 .. PoolBytes
      <4>1. q \in Nat /\ Live(pool)[q] \in Nat /\ q + Live(pool)[q] <= PoolBytes
        BY <2>1, <3>3, LivePointers
      <4> QED BY <4>1, PoolAssumption
    <3> QED BY <3>1, <3>2, <3>3 DEF q
  <2>3. \A i \in FSlot :
         /\ files[i].used \in BOOLEAN /\ files[i].name \in Path
         /\ files[i].owner \in Uids /\ files[i].mode \subseteq Bits
    BY <2>1 DEF FileRec
  <2>4. \A d \in DSlot : /\ dirs[d].used \in BOOLEAN /\ dirs[d].name \in Path
                         /\ dirs[d].owner \in Uids /\ dirs[d].mode \subseteq Bits
    BY <2>1 DEF DirRec
  <2>5. PoolType(pool)
    BY <2>1 DEF Good
  <2>6. cwd \in Path /\ uid \in Uids /\ batch \in Nat /\ Len(stack) <= batch
    BY DEF FSInv, StackOK
  <2>7. ret.op \in Ops /\ ret.rc \in -4 .. 0 /\ ret.errno \in {0, 13}
    BY DEF FSInv, Results
  <2>8. Len(stack) <= PathLen + 1
    <3>1. CASE stack = <<>>
      <4>1. Len(stack) = 0
        BY <3>1, EmptySeq
      <4> QED BY <4>1, FSAssumption
    <3>2. CASE stack # <<>>
      <4>1. /\ Len(stack) \in Nat /\ Len(Top.sp.full) \in Nat
            /\ Len(Top.sp.full) >= Len(stack) - 1 /\ Top.sp.full \in Path
        BY <3>2, TopFacts
      <4>2. Len(Top.sp.full) <= PathLen
        BY <4>1, PathFacts
      <4> QED BY <4>1, <4>2, FSAssumption
    <3> QED BY <3>1, <3>2
  <2> QED BY <2>1, <2>2, <2>3, <2>4, <2>5, <2>6, <2>7, <2>8 DEF TypeOK
<1> QED BY <1>1, FileSystemCorrect, PTL

\* In memory and on the disk, after every step of every call, every entry
\* hangs on a directory and every path names one entry.
THEOREM TreeAlwaysWhole == Spec => []TreeWhole
<1>1. FSInv => TreeWhole
  BY DEF FSInv, ImageOK, TablesOK, Whole, TreeWhole
<1> QED BY <1>1, FileSystemCorrect, PTL

\* The contents of every file have a block of their own that holds them, and
\* no block is without a file.
THEOREM BlocksAlwaysOwned == Spec => []BlocksOwned
<1>1. FSInv => BlocksOwned
  BY DEF FSInv, PoolOK, Owned, BlocksOwned
<1> QED BY <1>1, FileSystemCorrect, PTL

---------------------------------------------------------------------------
(***************************************************************************)
(* What a step may do: the action properties, each from FSInv.             *)
(***************************************************************************)

\* Commands run one at a time: while rm -r is under way, only its own steps,
\* Ctrl+C and power loss happen.
LEMMA BusyStep ==
    ASSUME stack # <<>>, Next
    PROVE  RmStep \/ CtrlC \/ Reboot
<1>1. ~FileCall
  BY DEF FileCall, Idle, fs_create_file, fs_delete_file, fs_read_file, fs_write_file,
         fs_append_file, fs_prealloc_file, fs_write_at
<1>2. ~DirCall
  BY DEF DirCall, Idle, fs_create_directory, fs_delete_directory, fs_change_directory
<1>3. ~OwnerCall
  BY DEF OwnerCall, Idle, fs_chmod, fs_chown, fs_reassign_uid, SetUid
<1>4. ~store_save /\ \A sp \in Spellings : ~RmStart(sp)
  BY DEF store_save, RmStart, Idle
<1> QED BY <1>1, <1>2, <1>3, <1>4 DEF Next

\* What a step of rm -r leaves on the disk.
LEMMA RmDisk ==
    ASSUME FSInv, stack # <<>>, RmDir \/ RmFile \/ RmSelf
    PROVE  \/ disk' = disk
           \/ stack' = <<>> /\ disk' = Image(files', dirs')
<1>1. /\ Len(stack) \in Nat \ {0} /\ batch \in Nat /\ Len(stack) <= batch
      /\ stack \in Seq(Level)
  BY TopFacts
<1>2. ASSUME NEW errno, RmFail(errno)
      PROVE  disk' = disk \/ (stack' = <<>> /\ disk' = Image(files', dirs'))
  BY <1>2 DEF RmFail, Leave
<1>3. CASE RmDir
  BY <1>2, <1>3 DEF RmDir
<1>4. CASE RmFile
  <2>1. \/ \E errno : RmFail(errno)
        \/ disk' = Committed(files', dirs)
    BY <1>4 DEF RmFile
  <2>2. Committed(files', dirs) = disk
    BY <1>1 DEF Committed
  <2> QED BY <1>2, <2>1, <2>2
<1>5. CASE RmSelf
  <2>1. \/ \E errno : RmFail(errno)
        \/ stack' = SubSeq(stack, 1, Len(stack) - 1) /\ Leave(1)
    BY <1>5 DEF RmSelf
  <2>2. CASE stack' = SubSeq(stack, 1, Len(stack) - 1) /\ Leave(1)
    <3>1. batch' = batch - 1 /\ disk' = IF batch' = 0 THEN Image(files', dirs') ELSE disk
      BY <2>2 DEF Leave
    <3>2. stack' \in Seq(Level) /\ Len(stack') = Len(stack) - 1
      BY <2>2, PopFacts
    <3>3. batch' = 0 => Len(stack') = 0
      BY <1>1, <3>1, <3>2
    <3>4. Len(stack') = 0 => stack' = <<>>
      BY ONLY <3>2, EmptySeq
    <3> QED BY <3>1, <3>3, <3>4
  <2> QED BY <1>2, <2>1, <2>2
<1> QED BY <1>3, <1>4, <1>5

\* rm -r writes the disk once: until the outermost activation returns, power
\* loss brings back the tree as it was before the command.
THEOREM TreeDeletedAtOnce == Spec => RmSavesOnce
<1> DEFINE A == stack # <<>> /\ ret'.op = "rm_r" =>
                  \/ disk' = disk
                  \/ stack' = <<>> /\ disk' = Image(files', dirs')
<1>1. FSInv /\ [Next]_vars => [A]_vars
  <2> SUFFICES ASSUME FSInv, Next, stack # <<>>, ret'.op = "rm_r"
               PROVE  disk' = disk \/ (stack' = <<>> /\ disk' = Image(files', dirs'))
    OBVIOUS
  <2>1. ~CtrlC
    BY DEF CtrlC, Return
  <2>2. ~Reboot
    BY DEF Reboot, Return
  <2> QED BY <2>1, <2>2, BusyStep, RmDisk DEF RmStep
<1> QED BY <1>1, FileSystemCorrect, PTL DEF Spec, RmSavesOnce

\* A path is under itself, and what is below a path under r is under r.
LEMMA UnderFacts ==
    ASSUME NEW S, NEW p \in Seq(S), NEW r \in Seq(S), NEW x \in S
    PROVE  /\ Under(p, p)
           /\ Under(p, r) => Under(Append(p, x), r)
<1>1. Len(p) \in Nat /\ Len(r) \in Nat /\ Len(p) \in Int /\ Len(r) \in Int /\ 1 \in Int
  BY LenProperties
<1>2. \A q \in Seq(S), n \in Nat : n <= Len(q) =>
         /\ SubSeq(q, 1, n) \in Seq(S) /\ Len(SubSeq(q, 1, n)) = n
         /\ \A i \in 1 .. n : SubSeq(q, 1, n)[i] = q[i]
  <2> SUFFICES ASSUME NEW q \in Seq(S), NEW n \in Nat, n <= Len(q)
               PROVE  /\ SubSeq(q, 1, n) \in Seq(S) /\ Len(SubSeq(q, 1, n)) = n
                      /\ \A i \in 1 .. n : SubSeq(q, 1, n)[i] = q[i]
    OBVIOUS
  <2>1. Len(q) \in Nat /\ n \in Int /\ 1 \in Int
    BY LenProperties
  <2>2. \A i \in 1 .. n : i \in 1 .. Len(q) /\ q[i] \in S
    BY <2>1, ElementOfSeq
  <2>3. /\ SubSeq(q, 1, n) \in Seq(S)
        /\ Len(SubSeq(q, 1, n)) = IF 1 <= n THEN n - 1 + 1 ELSE 0
        /\ \A i \in 1 .. n - 1 + 1 : SubSeq(q, 1, n)[i] = q[1 + i - 1]
    BY ONLY <2>1, <2>2, SubSeqProperties
  <2>4. Len(SubSeq(q, 1, n)) = n
    BY ONLY <2>1, <2>3, n \in Nat
  <2>5. \A i \in 1 .. n : i \in 1 .. n - 1 + 1 /\ 1 + i - 1 = i
    OBVIOUS
  <2> QED BY ONLY <2>3, <2>4, <2>5
<1>3. Under(p, p)
  <2>1. /\ SubSeq(p, 1, Len(p)) \in Seq(S) /\ Len(SubSeq(p, 1, Len(p))) = Len(p)
        /\ \A i \in 1 .. Len(p) : SubSeq(p, 1, Len(p))[i] = p[i]
    BY <1>1, <1>2
  <2>2. SubSeq(p, 1, Len(p)) = p
    BY ONLY <2>1, p \in Seq(S), SeqEqual
  <2> QED BY <1>1, <2>2 DEF Under
<1>4. ASSUME Under(p, r) PROVE Under(Append(p, x), r)
  <2> DEFINE q == Append(p, x)
             n == Len(r)
  <2>1. n <= Len(p) /\ SubSeq(p, 1, n) = r
    BY <1>4, <1>1 DEF Under
  <2>2. /\ q \in Seq(S) /\ Len(q) = Len(p) + 1
        /\ \A i \in 1 .. Len(p) : q[i] = p[i]
    BY ONLY AppendProperties, p \in Seq(S), x \in S
  <2> HIDE DEF q
  <2>3. n \in Nat /\ n <= Len(q)
    BY <1>1, <2>1, <2>2
  <2> HIDE DEF n
  <2>4. /\ SubSeq(q, 1, n) \in Seq(S) /\ Len(SubSeq(q, 1, n)) = n
        /\ \A i \in 1 .. n : SubSeq(q, 1, n)[i] = q[i]
    BY ONLY <2>2, <2>3, <1>2
  <2>5. /\ Len(SubSeq(p, 1, n)) = n
        /\ \A i \in 1 .. n : SubSeq(p, 1, n)[i] = p[i]
    BY ONLY <2>1, <2>3, <1>2, p \in Seq(S)
  <2>6. \A i \in 1 .. n : i \in 1 .. Len(p)
    BY ONLY <1>1, <2>1, <2>3
  <2>7. \A i \in 1 .. n : SubSeq(q, 1, n)[i] = r[i]
    BY ONLY <2>1, <2>2, <2>4, <2>5, <2>6
  <2>8. SubSeq(q, 1, n) = r
    BY ONLY <2>1, <2>4, <2>5, <2>7, SeqEqual, r \in Seq(S)
  <2> QED BY <1>1, <2>3, <2>8 DEF Under, n, q
<1> QED BY <1>3, <1>4

\* What FSInv leaves open about the activations: each works below the path
\* that rm was given, unless that was spelled with a single character.
Confined == \A k \in 1 .. Len(stack) :
              stack[1].sp.short = Long => Under(stack[k].sp.full, stack[1].sp.full)

\* The stack grows only in RmStart and RmDir.
LEMMA StackKept ==
    ASSUME Next, stack = <<>>
    PROVE  stack' = <<>> \/ \E sp \in Spellings : RmStart(sp)
<1>1. FileCall => stack' = stack
  BY DEF FileCall, Fail, fs_create_file, fs_delete_file, fs_read_file, fs_write_file,
         fs_append_file, fs_prealloc_file, fs_write_at
<1>2. DirCall => stack' = stack
  BY DEF DirCall, Fail, fs_create_directory, fs_delete_directory, fs_change_directory
<1>3. OwnerCall => stack' = stack
  BY DEF OwnerCall, Fail, fs_chmod, fs_chown, fs_reassign_uid, SetUid
<1>4. store_save => stack' = stack
  BY DEF store_save
<1>5. Reboot => stack' = <<>>
  BY DEF Reboot
<1> QED BY <1>1, <1>2, <1>3, <1>4, <1>5 DEF Next, RmStep, CtrlC

LEMMA ConfinedStep == FSInv /\ Confined /\ [Next]_vars => Confined'
<1> SUFFICES ASSUME FSInv, Confined, [Next]_vars PROVE Confined'
  OBVIOUS
<1>1. CASE stack' = <<>>
  <2>1. Len(stack') = 0
    BY <1>1, EmptySeq
  <2> QED BY <2>1 DEF Confined
<1>2. CASE stack' = stack
  BY <1>2 DEF Confined
<1>3. ASSUME NEW sp \in Spellings, RmStart(sp) PROVE Confined'
  <2>1. CASE stack' = <<Activation(sp)>>
    <3>1. FSInv'
      BY <1>3, RmStartKeeps
    <3>2. Len(stack') = 1
      BY <2>1
    <3>3. stack'[1].sp.full \in Path
      <4>1. stack' \in Seq(Level)
        BY <3>1 DEF FSInv, StackOK
      <4>2. stack'[1] \in Level
        BY ONLY <3>2, <4>1, ElementOfSeq
      <4> QED BY <4>2 DEF Level, Spelling
    <3>4. stack'[1].sp.full \in Seq(Names)
      BY <3>3, PathFacts
    <3> DEFINE q == stack'[1].sp.full
    <3>5. Under(q, q)
      <4> DEFINE S == Names \cup {q}
      <4>1. q \in Seq(S) /\ q \in S
        BY <3>4, SeqMonotonic
      <4> HIDE DEF S, q
      <4> QED BY ONLY <4>1, UnderFacts
    <3> QED BY <3>2, <3>5 DEF Confined
  <2> QED BY <1>1, <1>2, <1>3, <2>1 DEF RmStart, Fail
<1>4. CASE stack # <<>> /\ RmDir
  <2>1. PICK e \in Top.ds :
          LET sp == ChildOf(Top.sp, e[2])
          IN  \/ stack' = <<>>
              \/ stack' = Append(SetTop([Top EXCEPT !.ds = @ \ {e}]), Activation(sp))
    BY <1>4 DEF RmDir, RmFail
  <2> DEFINE name == e[2]
             sp == ChildOf(Top.sp, name)
             rest == [Top EXCEPT !.ds = @ \ {e}]
             s == SetTop(rest)
             a == Activation(sp)
             n == Len(stack)
  <2>2. CASE stack' = Append(s, a)
    <3>1. /\ Top \in Level /\ stack \in Seq(Level) /\ n \in Nat \ {0}
          /\ Top = stack[n] /\ n \in 1 .. Len(stack)
          /\ Top.sp.full \in Path /\ (n > 1 => Top.sp.short = Long)
      BY <1>4, TopFacts
    <3>2. name \in Names
      BY <3>1 DEF Level
    <3>3. rest \in Level /\ rest.sp = Top.sp
      <4> DEFINE t == Top
      <4>1. t \in Level /\ rest = [t EXCEPT !.ds = @ \ {e}]
        BY <3>1
      <4> HIDE DEF t
      <4>2. rest \in Level /\ rest.sp = t.sp
        BY <4>1 DEF Level
      <4> QED BY <4>2 DEF t
    <3> HIDE DEF rest
    <3>4. /\ s \in Seq(Level) /\ Len(s) = n
          /\ \A k \in 1 .. n : s[k].sp = stack[k].sp
      BY <1>4, <3>3, SetTopFacts
    <3>5. Top.sp.short = Long => sp.full = Append(Top.sp.full, name)
      BY <1>4, <3>2, ChildFacts
    <3>6. a.sp = sp
      BY DEF Activation
    <3> HIDE DEF s, a, sp
    <3>7. /\ Len(stack') = n + 1
          /\ \A k \in 1 .. n : stack'[k].sp = stack[k].sp
          /\ stack'[n + 1].sp = sp
      <4> DEFINE T == Level \cup {a}
      <4>1. s \in Seq(T) /\ a \in T
        BY <3>4, SeqMonotonic
      <4> HIDE DEF T
      <4>2. /\ Len(Append(s, a)) = Len(s) + 1
            /\ \A k \in 1 .. Len(s) : Append(s, a)[k] = s[k]
            /\ Append(s, a)[Len(s) + 1] = a
        BY ONLY <4>1, AppendProperties
      <4> HIDE DEF n
      <4> QED BY ONLY <2>2, <3>4, <3>6, <4>2
    <3> HIDE DEF n
    <3>8. stack'[1].sp = stack[1].sp /\ 1 \in 1 .. n
      BY <3>1, <3>7
    <3>9. ASSUME NEW k \in 1 .. Len(stack'), stack'[1].sp.short = Long
          PROVE  Under(stack'[k].sp.full, stack'[1].sp.full)
      <4> DEFINE top == Top.sp.full
                 r == stack[1].sp.full
      <4>1. stack[1].sp.short = Long /\ r = stack'[1].sp.full
        BY <3>8, <3>9
      <4>2. \A j \in 1 .. n : Under(stack[j].sp.full, r)
        BY <4>1 DEF Confined, n
      <4>3. CASE k \in 1 .. n
        BY <3>7, <4>1, <4>2, <4>3
      <4>4. CASE k = n + 1
        <5>1. Top.sp.short = Long
          <6>1. n = 1 \/ n > 1
            BY <3>1
          <6> QED BY <3>1, <4>1, <6>1
        <5>2. stack'[k].sp.full = Append(top, name)
          BY <3>5, <3>7, <4>4, <5>1
        <5>3. top \in Seq(Names) /\ r \in Seq(Names)
          <6>1. stack[1] \in Level
            BY <3>1, ElementOfSeq
          <6>2. r \in Path
            BY <6>1 DEF Level, Spelling
          <6> QED BY <3>1, <6>2, PathFacts
        <5>4. Under(top, r)
          BY <3>1, <4>2 DEF n
        <5> HIDE DEF top, r, name
        <5>5. Under(Append(top, name), r)
          BY ONLY <3>2, <5>3, <5>4, UnderFacts
        <5> QED BY <4>1, <5>2, <5>5
      <4>5. k \in 1 .. n \/ k = n + 1
        BY <3>1, <3>7, <3>9
      <4> QED BY <4>3, <4>4, <4>5
    <3> QED BY <3>9 DEF Confined
  <2> QED BY <1>1, <2>1, <2>2
<1>5. CASE stack # <<>> /\ RmFile
  <2>1. PICK e \in Top.fs : stack' = <<>> \/ stack' = SetTop([Top EXCEPT !.fs = @ \ {e}])
    BY <1>5 DEF RmFile, RmFail
  <2> DEFINE rest == [Top EXCEPT !.fs = @ \ {e}]
             s == SetTop(rest)
  <2>2. CASE stack' = s
    <3>1. Top \in Level /\ Len(stack) \in Nat \ {0}
      BY <1>5, TopFacts
    <3>2. rest \in Level /\ rest.sp = Top.sp
      <4> DEFINE t == Top
      <4>1. t \in Level /\ rest = [t EXCEPT !.fs = @ \ {e}]
        BY <3>1
      <4> HIDE DEF t
      <4>2. rest \in Level /\ rest.sp = t.sp
        BY <4>1 DEF Level
      <4> QED BY <4>2 DEF t
    <3> HIDE DEF rest
    <3>3. /\ Len(s) = Len(stack)
          /\ \A k \in 1 .. Len(stack) : s[k].sp = stack[k].sp
      BY <1>5, <3>2, SetTopFacts
    <3> QED BY <2>2, <3>1, <3>3 DEF Confined
  <2> QED BY <1>1, <2>1, <2>2
<1>6. CASE stack # <<>> /\ RmSelf
  <2>1. stack' = <<>> \/ stack' = SubSeq(stack, 1, Len(stack) - 1)
    BY <1>6 DEF RmSelf, RmFail
  <2>2. CASE stack' = SubSeq(stack, 1, Len(stack) - 1)
    <3>1. /\ Len(stack') = Len(stack) - 1
          /\ \A k \in 1 .. Len(stack') : stack'[k] = stack[k] /\ k \in 1 .. Len(stack)
      BY <1>6, <2>2, PopFacts
    <3>2. Len(stack) \in Nat \ {0}
      BY <1>6, TopFacts
    <3>3. \A k \in 1 .. Len(stack') : 1 \in 1 .. Len(stack')
      BY <3>1, <3>2
    <3> QED BY <3>1, <3>3 DEF Confined
  <2> QED BY <1>1, <2>1, <2>2
<1>7. CASE UNCHANGED vars
  BY <1>2, <1>7 DEF vars
<1>8. CASE Next /\ stack # <<>>
  <2>1. RmStep \/ CtrlC \/ Reboot
    BY <1>8, BusyStep
  <2>2. CtrlC \/ Reboot => stack' = <<>>
    BY DEF CtrlC, Reboot
  <2> QED BY <1>1, <1>4, <1>5, <1>6, <1>8, <2>1, <2>2 DEF RmStep
<1>9. CASE Next /\ stack = <<>>
  BY <1>1, <1>3, <1>9, StackKept
<1> QED BY <1>7, <1>8, <1>9

\* rm -r removes nothing but what lies under the path it was given, as long
\* as no spelling of a single character is used (with one, the path of a
\* child is put together wrongly: the run short_path shows what then goes).
THEOREM RmStaysBelow ==
    ASSUME Short = {}
    PROVE  Spec => RmConfined
<1> DEFINE A == stack # <<>> /\ ret'.op = "rm_r" =>
                  /\ \A i \in UsedF : ~files'[i].used =>
                         Under(files[i].name, stack[1].sp.full)
                  /\ \A d \in UsedD : ~dirs'[d].used =>
                         Under(dirs[d].name, stack[1].sp.full)
<1>1. FSInv /\ Confined /\ [Next]_vars => [A]_vars
  <2> SUFFICES ASSUME FSInv, Confined, Next, stack # <<>>, ret'.op = "rm_r"
               PROVE  /\ \A i \in UsedF : ~files'[i].used =>
                             Under(files[i].name, stack[1].sp.full)
                      /\ \A d \in UsedD : ~dirs'[d].used =>
                             Under(dirs[d].name, stack[1].sp.full)
    OBVIOUS
  <2> DEFINE n == Len(stack)
             r == stack[1].sp.full
             top == Top.sp.full
  <2>1. ~CtrlC
    BY DEF CtrlC, Return
  <2>2. ~Reboot
    BY DEF Reboot, Return
  <2>3. RmDir \/ RmFile \/ RmSelf
    BY <2>1, <2>2, BusyStep DEF RmStep
  <2>4. /\ n \in Nat \ {0} /\ n \in 1 .. Len(stack) /\ 1 \in 1 .. Len(stack)
        /\ stack \in Seq(Level) /\ Top = stack[n] /\ Top \in Level
    BY TopFacts
  <2>5. stack[1] \in Level
    BY ONLY <2>4, ElementOfSeq
  <2>6. \A a \in Level : a.sp.full \in Path /\ a.sp.short = Long
    BY DEF Level, Spelling
  <2>7. /\ Top.sp.short = Long
        /\ top \in Seq(Names) /\ r \in Seq(Names) /\ Under(top, r)
    BY <2>4, <2>5, <2>6, PathFacts DEF Confined
  <2>8. \A i \in FSlot : i \in UsedF <=> files[i].used
    BY DEF UsedF
  <2>9. \A d \in DSlot : d \in UsedD <=> dirs[d].used
    BY DEF UsedD
  <2>10. UsedF \subseteq FSlot /\ UsedD \subseteq DSlot
    BY SlotFacts
  <2>11. files \in [FSlot -> FileRec] /\ dirs \in [DSlot -> DirRec]
    BY DEF FSInv, TablesOK, FilesOK, DirsOK
  <2>12. dirs' = dirs => \A d \in UsedD : ~dirs'[d].used => Under(dirs[d].name, r)
    BY <2>9, <2>10
  <2>13. files' = files => \A i \in UsedF : ~files'[i].used => Under(files[i].name, r)
    BY <2>8, <2>10
  <2>14. CASE UNCHANGED <<files, dirs>>
    BY <2>12, <2>13, <2>14
  <2>15. CASE RmDir
    BY <2>14, <2>15 DEF RmDir, RmFail
  <2>16. CASE RmFile
    <3>1. PICK e \in Top.fs : LET p == ChildOf(Top.sp, e[2]).full
                              IN  \/ UNCHANGED <<files, dirs>>
                                  \/ /\ DeleteResult(p).rc = 0
                                     /\ files' = WithoutFile(p) /\ dirs' = dirs
      BY <2>16 DEF RmFile, RmFail
    <3> DEFINE name == e[2]
               p == ChildOf(Top.sp, name).full
               j == Lowest(FileAt(p))
    <3>2. CASE DeleteResult(p).rc = 0 /\ files' = WithoutFile(p) /\ dirs' = dirs
      <4>1. name \in Names
        BY <2>4 DEF Level
      <4>2. p = Append(top, name)
        BY <2>7, <4>1, ChildFacts
      <4>3. FileAt(p) # {}
        BY <3>2 DEF DeleteResult
      <4>4. j \in FileAt(p)
        BY <4>3, DeleteFacts
      <4>5. files' = [files EXCEPT ![j] = EmptyFile] /\ files[j].name = p
        BY <3>2, <4>4 DEF WithoutFile, FileAt
      <4> HIDE DEF top, r, name, p, j
      <4>6. Under(p, r)
        BY ONLY <2>7, <4>1, <4>2, UnderFacts
      <4>7. \A i \in UsedF : ~files'[i].used => i = j
        BY <2>8, <2>10, <2>11, <4>5
      <4>8. \A i \in UsedF : ~files'[i].used => Under(files[i].name, r)
        BY <4>5, <4>6, <4>7
      <4> QED BY <2>12, <3>2, <4>8 DEF r
    <3> QED BY <2>14, <3>1, <3>2
  <2>17. CASE RmSelf
    <3> DEFINE j == Lowest(DirAt(top))
    <3>1. \/ UNCHANGED <<files, dirs>>
          \/ /\ RmdirResult(top, Top.sp.slash).rc = 0
             /\ dirs' = WithoutDir(top) /\ files' = files
      BY <2>17 DEF RmSelf, RmFail
    <3>2. CASE /\ RmdirResult(top, Top.sp.slash).rc = 0
               /\ dirs' = WithoutDir(top) /\ files' = files
      <4> HIDE DEF top
      <4>1. DirAt(top) # {}
        BY <3>2 DEF RmdirResult
      <4>2. j \in DirAt(top)
        BY <4>1, LowestIn, SlotFacts
      <4>3. dirs' = [dirs EXCEPT ![j] = EmptyDir] /\ dirs[j].name = top
        BY <3>2, <4>2 DEF WithoutDir, DirAt
      <4> HIDE DEF r, j
      <4>4. \A d \in UsedD : ~dirs'[d].used => d = j
        BY <2>9, <2>10, <2>11, <4>3
      <4>5. \A d \in UsedD : ~dirs'[d].used => Under(dirs[d].name, r)
        BY <2>7, <4>3, <4>4
      <4> QED BY <2>13, <3>2, <4>5 DEF r
    <3> QED BY <2>14, <3>1, <3>2
  <2> QED BY <2>3, <2>15, <2>16, <2>17
<1>2. Init => Confined
  <2>1. Init => Len(stack) = 0
    BY EmptySeq DEF Init
  <2> QED BY <2>1 DEF Confined
<1> QED BY <1>1, <1>2, ConfinedStep, FileSystemCorrect, PTL DEF Spec, RmConfined

\* Outside a batch, fs_commit_change saves.
LEMMA SavedStep == FSInv /\ Next /\ batch = Len(stack) => Saves
<1> SUFFICES ASSUME FSInv, Next, batch = Len(stack), ret'.op \in CommittingCalls,
                    ret'.rc = 0, stack' = <<>>, <<files', dirs'>> # <<files, dirs>>
             PROVE  disk' = Image(files', dirs')
  BY DEF Saves
<1>1. ASSUME NEW op, NEW rc, NEW errno PROVE ~Fail(op, rc, errno)
  BY DEF Fail
<1>2. ~CtrlC
  BY DEF CtrlC
<1>3. ~Reboot
  BY DEF Reboot, Return, CommittingCalls
<1>4. ASSUME NEW op, NEW rc, NEW errno, Return(op, rc, errno)
      PROVE  op \in CommittingCalls /\ rc = 0
  BY <1>4 DEF Return
<1>5. ASSUME NEW errno PROVE ~RmFail(errno)
  BY DEF RmFail
<1>6. CASE stack # <<>>
  <2>1. RmDir \/ RmFile \/ RmSelf
    BY <1>2, <1>3, <1>6, BusyStep DEF RmStep
  <2>2. ~RmDir
    BY <1>5 DEF RmDir
  <2>3. /\ Len(stack) \in Nat \ {0} /\ Top \in Level
    BY <1>6, TopFacts
  <2>4. ~RmFile
    <3> SUFFICES ASSUME RmFile PROVE FALSE
      OBVIOUS
    <3>1. PICK e \in Top.fs : stack' = SetTop([Top EXCEPT !.fs = @ \ {e}])
      BY <1>5 DEF RmFile
    <3> DEFINE t == Top
               rest == [t EXCEPT !.fs = @ \ {e}]
    <3>2. t \in Level
      BY <2>3
    <3> HIDE DEF t
    <3>3. rest \in Level /\ rest.sp = t.sp
      BY <3>2 DEF Level
    <3> HIDE DEF rest
    <3>4. Len(SetTop(rest)) = Len(stack)
      BY <1>6, <3>3, SetTopFacts DEF t
    <3>5. Len(stack') = Len(stack)
      BY <3>1, <3>4 DEF rest, t
    <3>6. Len(stack') = 0
      BY EmptySeq
    <3> QED BY <2>3, <3>5, <3>6
  <2>5. stack' = SubSeq(stack, 1, Len(stack) - 1) /\ Leave(1)
    BY <1>5, <2>1, <2>2, <2>4 DEF RmSelf
  <2>6. Len(stack') = Len(stack) - 1
    BY <1>6, <2>5, PopFacts
  <2>7. Len(stack') = 0
    BY EmptySeq
  <2>8. batch' = batch - 1 /\ disk' = IF batch' = 0 THEN Image(files', dirs') ELSE disk
    BY <2>5 DEF Leave
  <2>9. batch' = 0
    BY <2>3, <2>6, <2>7, <2>8
  <2> QED BY <2>8, <2>9
<1>7. CASE stack = <<>>
  <2>1. batch = 0
    BY <1>7, EmptySeq
  <2>2. ASSUME NEW fs, NEW ds PROVE Committed(fs, ds) = Image(fs, ds)
    BY <2>1 DEF Committed
  <2>3. \A sp \in Spellings : ~RmStart(sp)
    BY <1>1 DEF RmStart
  <2>4. ~RmStep
    BY <1>7 DEF RmStep
  <2>5. ~store_save /\ \A u \in Uids : ~SetUid(u)
    BY DEF store_save, SetUid
  <2>6. ASSUME NEW p \in Path
        PROVE  /\ ~fs_read_file(p)
               /\ \A data : ~fs_append_file(p, data)
               /\ \A size : ~fs_prealloc_file(p, size)
               /\ \A data, off : ~fs_write_at(p, off, data)
               /\ \A lit : ~fs_change_directory(p, lit)
    <3>1. \A data : ~fs_append_file(p, data)
      BY <1>1, <1>4 DEF fs_append_file, CommittingCalls
    <3>2. \A size : ~fs_prealloc_file(p, size)
      BY <1>1, <1>4 DEF fs_prealloc_file, CommittingCalls
    <3>3. \A data, off : ~fs_write_at(p, off, data)
      BY <1>1, <1>4 DEF fs_write_at, CommittingCalls
    <3>4. \A lit : ~fs_change_directory(p, lit)
      BY <1>1, <1>4 DEF fs_change_directory, CommittingCalls
    <3>5. ~fs_read_file(p)
      BY <1>1 DEF fs_read_file
    <3> QED BY <3>1, <3>2, <3>3, <3>4, <3>5
  <2>7. ASSUME NEW p \in Path, fs_create_file(p) PROVE disk' = Image(files', dirs')
    <3>1. files' = WithFile(p) /\ disk' = DiskWithFile(p) /\ dirs' = dirs
      BY <1>1, <2>7 DEF fs_create_file
    <3> QED BY <2>2, <3>1 DEF WithFile, DiskWithFile
  <2>8. ASSUME NEW p \in Path, fs_delete_file(p) PROVE disk' = Image(files', dirs')
    BY <1>1, <2>2, <2>8 DEF fs_delete_file
  <2>9. ASSUME NEW p \in Path, NEW data, fs_write_file(p, data)
        PROVE  disk' = Image(files', dirs')
    <3>1. disk' = Committed(files', dirs) /\ dirs' = dirs
      BY <1>1, <1>4, <2>9 DEF fs_write_file
    <3> QED BY <2>2, <3>1
  <2>10. ASSUME NEW p \in Path, fs_create_directory(p) PROVE disk' = Image(files', dirs')
    BY <1>1, <2>2, <2>10 DEF fs_create_directory
  <2>11. ASSUME NEW p \in Path, NEW lit, fs_delete_directory(p, lit)
         PROVE  disk' = Image(files', dirs')
    BY <1>1, <2>2, <2>11 DEF fs_delete_directory
  <2>12. ASSUME NEW p \in Path, NEW mode, NEW rec, fs_chmod(p, mode, rec)
         PROVE  disk' = Image(files', dirs')
    BY <1>1, <2>2, <2>12 DEF fs_chmod
  <2>13. ASSUME NEW p \in Path, NEW new, NEW rec, fs_chown(p, new, rec)
         PROVE  disk' = Image(files', dirs')
    BY <1>1, <2>2, <2>13 DEF fs_chown
  <2>14. ASSUME NEW old, NEW new, fs_reassign_uid(old, new)
         PROVE  disk' = Image(files', dirs')
    <3> DEFINE F == {i \in UsedF : files[i].owner = old}
               D == {d \in UsedD : dirs[d].owner = old}
    <3>1. /\ files' = [i \in FSlot |-> IF i \in F
                         THEN [files[i] EXCEPT !.owner = new] ELSE files[i]]
          /\ dirs' = [d \in DSlot |-> IF d \in D
                         THEN [dirs[d] EXCEPT !.owner = new] ELSE dirs[d]]
          /\ disk' = IF F \cup D = {} THEN disk ELSE Committed(files', dirs')
      BY <2>14 DEF fs_reassign_uid, GiveTo
    <3>2. files \in [FSlot -> FileRec] /\ dirs \in [DSlot -> DirRec]
      BY DEF FSInv, TablesOK, FilesOK, DirsOK
    <3> HIDE DEF F, D
    <3>3. F = {} => files' = files
      BY ONLY <3>1, <3>2
    <3>4. D = {} => dirs' = dirs
      BY ONLY <3>1, <3>2
    <3>5. F \cup D # {}
      BY <3>3, <3>4
    <3> QED BY <2>2, <3>1, <3>5
  <2>15. FileCall => disk' = Image(files', dirs')
    BY <2>6, <2>7, <2>8, <2>9 DEF FileCall
  <2>16. DirCall => disk' = Image(files', dirs')
    BY <2>6, <2>10, <2>11 DEF DirCall
  <2>17. OwnerCall => disk' = Image(files', dirs')
    BY <2>5, <2>12, <2>13, <2>14 DEF OwnerCall
  <2> QED BY <1>2, <1>3, <2>3, <2>4, <2>5, <2>15, <2>16, <2>17 DEF Next
<1> QED BY <1>6, <1>7

\* A call that changed the tables and returned success has put them on the
\* disk, whatever the order of the calls before it, unless an interrupt has
\* left a batch open.
THEOREM ChangesSaved == Spec => SavedWhenDone
<1> DEFINE A == batch = Len(stack) => Saves
<1>1. FSInv /\ [Next]_vars => [A]_vars
  BY SavedStep
<1> QED BY <1>1, FileSystemCorrect, PTL DEF Spec, SavedWhenDone

\* Finding or creating a file leaves the others alone.
LEMMA CreateLeaves ==
    ASSUME FSInv, NEW p \in Path, Creatable(p), NEW j \in UsedF
    PROVE  WithFile(p)[j] = files[j]
<1>1. /\ \A k \in FSlot \ {SlotFor(p)} : WithFile(p)[k] = files[k]
      /\ FileAt(p) # {} => WithFile(p) = files
      /\ FileAt(p) = {} => ~files[SlotFor(p)].used
  BY CreateFacts DEF FSInv, Creatable
<1>2. j \in FSlot /\ files[j].used
  BY DEF UsedF
<1> QED BY <1>1, <1>2

\* So does the rollback, but for a file that is empty.
LEMMA RollbackLeaves ==
    ASSUME FSInv, NEW p \in Path, Creatable(p), NEW j \in UsedF, files[j].data # <<>>
    PROVE  Rollback(WithFile(p), SlotFor(p))[j] = files[j]
<1> DEFINE i == SlotFor(p)
           fs == WithFile(p)
<1>1. fs[j] = files[j]
  BY CreateLeaves
<1>2. fs \in [FSlot -> FileRec] /\ i \in FSlot /\ j \in FSlot
  BY CreateFacts DEF FSInv, Creatable, TablesOK, FilesOK, UsedF
<1> HIDE DEF i, fs
<1>3. Rollback(fs, i)[j] = files[j]
  <2>1. CASE fs[i].data = <<>> /\ fs[i].ptr = NULL
    <3>1. j # i
      BY <1>1, <2>1
    <3>2. Rollback(fs, i) = [fs EXCEPT ![i] = EmptyFile]
      BY <2>1 DEF Rollback
    <3> QED BY <1>1, <1>2, <3>1, <3>2
  <2>2. CASE ~(fs[i].data = <<>> /\ fs[i].ptr = NULL)
    BY <1>1, <2>2 DEF Rollback
  <2> QED BY <2>1, <2>2
<1> QED BY <1>3 DEF i, fs

\* No call that fails costs a file its contents.
THEOREM FailuresKeepData == Spec => FailureKeepsData
<1> DEFINE A == ret'.rc < 0 /\ ret'.op # "reboot" =>
                  \A i \in UsedF : files[i].data # <<>> => Survives(i)
<1>1. FSInv /\ [Next]_vars => [A]_vars
  <2> SUFFICES ASSUME FSInv, Next, ret'.rc < 0, ret'.op # "reboot",
                      NEW j \in UsedF, files[j].data # <<>>
               PROVE  files'[j] = files[j]
    BY DEF Survives, UsedF
  <2>1. ASSUME NEW op, NEW rc, NEW errno, Return(op, rc, errno)
        PROVE  rc < 0 /\ op # "reboot"
    BY <2>1 DEF Return
  <2>2. ASSUME NEW op, NEW errno PROVE ~Return(op, 0, errno)
    BY <2>1
  <2>3. ASSUME NEW op, NEW rc, NEW errno, Fail(op, rc, errno)
        PROVE  files'[j] = files[j]
    BY <2>3 DEF Fail
  <2>4. ASSUME NEW errno, RmFail(errno) PROVE files'[j] = files[j]
    BY <2>4 DEF RmFail
  <2>5. RmStep => files'[j] = files[j]
    BY <2>2, <2>4 DEF RmStep, RmDir, RmFile, RmSelf
  <2>6. (\E sp \in Spellings : RmStart(sp)) => files'[j] = files[j]
    BY <2>2, <2>3 DEF RmStart
  <2>7. ~CtrlC /\ ~store_save
    BY <2>2 DEF CtrlC, store_save
  <2>8. ~Reboot
    BY DEF Reboot, Return
  <2>9. DirCall => files'[j] = files[j]
    BY <2>2, <2>3 DEF DirCall, fs_create_directory, fs_delete_directory,
                      fs_change_directory
  <2>10. OwnerCall => files'[j] = files[j]
    BY <2>2, <2>3 DEF OwnerCall, fs_chmod, fs_chown, fs_reassign_uid, SetUid
  <2>11. ASSUME NEW p \in Path,
                fs_create_file(p) \/ fs_delete_file(p) \/ fs_read_file(p)
         PROVE  files'[j] = files[j]
    BY <2>2, <2>3, <2>11 DEF fs_create_file, fs_delete_file, fs_read_file
  <2>12. ASSUME NEW p \in Path, NEW data, fs_write_file(p, data)
         PROVE  files'[j] = files[j]
    <3>1. \/ \E op, rc, errno : Fail(op, rc, errno)
          \/ Creatable(p) /\ files' = Rollback(WithFile(p), SlotFor(p))
      BY <2>2, <2>12 DEF fs_write_file, Creatable
    <3> QED BY <2>3, <3>1, RollbackLeaves
  <2>13. ASSUME NEW p \in Path, NEW data, fs_append_file(p, data)
         PROVE  files'[j] = files[j]
    <3>1. \/ \E op, rc, errno : Fail(op, rc, errno)
          \/ Creatable(p) /\ files' = WithFile(p)
      BY <2>2, <2>13 DEF fs_append_file, Creatable
    <3> QED BY <2>3, <3>1, CreateLeaves
  <2>14. ASSUME NEW p \in Path, NEW size, fs_prealloc_file(p, size)
         PROVE  files'[j] = files[j]
    <3> DEFINE r == fdata_resize(fpool_coalesce(pool), WithFile(p)[SlotFor(p)].ptr, size)
    <3>1. \/ \E op, rc, errno : Fail(op, rc, errno)
          \/ /\ Creatable(p) /\ (~r.ok => files' = WithFile(p))
             /\ \E errno : Return("prealloc", IF r.ok THEN 0 ELSE -3, errno)
      BY <2>14 DEF fs_prealloc_file, Creatable
    <3> HIDE DEF r
    <3>2. CASE /\ Creatable(p) /\ (~r.ok => files' = WithFile(p))
               /\ \E errno : Return("prealloc", IF r.ok THEN 0 ELSE -3, errno)
      <4>1. ~r.ok
        BY <2>2, <3>2
      <4> QED BY <3>2, <4>1, CreateLeaves
    <3> QED BY <2>3, <3>1, <3>2
  <2>15. ASSUME NEW p \in Path, NEW data, NEW off, fs_write_at(p, off, data)
         PROVE  files'[j] = files[j]
    BY <2>2, <2>3, <2>15 DEF fs_write_at
  <2>16. FileCall => files'[j] = files[j]
    BY <2>11, <2>12, <2>13, <2>14, <2>15 DEF FileCall
  <2> QED BY <2>5, <2>6, <2>7, <2>8, <2>9, <2>10, <2>16 DEF Next
<1> QED BY <1>1, FileSystemCorrect, PTL DEF Spec, FailureKeepsData

---------------------------------------------------------------------------
(***************************************************************************)
(* Permissions.                                                            *)
(***************************************************************************)

\* PermissionsHold, of one slot.
FileAllowed(i) ==
    /\ files[i].used # files'[i].used =>
          \/ MayChange(IF files[i].used THEN files[i].name ELSE files'[i].name)
          \/ files[i].used /\ RolledBack(i)
    /\ files[i].used /\ files'[i].used =>
          /\ files'[i].owner = files[i].owner
          /\ files'[i].mode # files[i].mode => files[i].owner = uid
          /\ files'[i].data # files[i].data => perm_allows(files[i], "w")
DirAllowed(d) ==
    /\ dirs[d].used # dirs'[d].used =>
          MayChange(IF dirs[d].used THEN dirs[d].name ELSE dirs'[d].name)
    /\ dirs[d].used /\ dirs'[d].used =>
          /\ dirs'[d].owner = dirs[d].owner
          /\ dirs'[d].mode # dirs[d].mode => dirs[d].owner = uid

LEMMA SameAllowed ==
    /\ \A i : files'[i] = files[i] => FileAllowed(i)
    /\ \A d : dirs'[d] = dirs[d] => DirAllowed(d)
BY DEF FileAllowed, DirAllowed

\* An entry that is made, or goes.
LEMMA OtherAllowed ==
    /\ \A i : ~files[i].used /\ files'[i].used /\ MayChange(files'[i].name) => FileAllowed(i)
    /\ \A i : files[i].used /\ ~files'[i].used /\ MayChange(files[i].name) => FileAllowed(i)
    /\ \A d : ~dirs[d].used /\ dirs'[d].used /\ MayChange(dirs'[d].name) => DirAllowed(d)
    /\ \A d : dirs[d].used /\ ~dirs'[d].used /\ MayChange(dirs[d].name) => DirAllowed(d)
BY DEF FileAllowed, DirAllowed

\* fs_delete_file, also inside rm -r.
LEMMA DeleteAllowed ==
    ASSUME FSInv, NEW p, DeleteResult(p).rc = 0, files' = WithoutFile(p), NEW i \in FSlot
    PROVE  FileAllowed(i)
<1> DEFINE j == Lowest(FileAt(p))
<1>1. FileAt(p) # {} /\ may_modify_parent(p)
  BY DEF DeleteResult
<1>2. j \in FileAt(p)
  BY <1>1, DeleteFacts
<1>3. files' = [files EXCEPT ![j] = EmptyFile]
  BY DEF WithoutFile
<1>4. j \in FSlot /\ files[j].used /\ files[j].name = p
  BY <1>2 DEF FileAt, UsedF
<1> HIDE DEF j
<1>5. files \in [FSlot -> FileRec]
  BY DEF FSInv, TablesOK, FilesOK
<1>6. /\ i # j => files'[i] = files[i]
      /\ files'[j] = EmptyFile
  BY <1>3, <1>4, <1>5
<1>7. ~EmptyFile.used
  BY DEF EmptyFile
<1>8. MayChange(files[j].name)
  BY <1>1, <1>4 DEF MayChange, may_modify_parent
<1>9. CASE i = j
  BY <1>4, <1>6, <1>7, <1>8, <1>9, OtherAllowed
<1> QED BY <1>6, <1>9, SameAllowed

\* fs_delete_directory, also inside rm -r.
LEMMA RmdirAllowed ==
    ASSUME FSInv, NEW p, NEW b, RmdirResult(p, b).rc = 0, dirs' = WithoutDir(p),
           NEW d \in DSlot
    PROVE  DirAllowed(d)
<1> DEFINE j == Lowest(DirAt(p))
<1>1. DirAt(p) # {} /\ may_modify_parent(p)
  BY DEF RmdirResult
<1>2. j \in DirAt(p)
  BY <1>1, LowestIn, SlotFacts
<1>3. dirs' = [dirs EXCEPT ![j] = EmptyDir]
  BY DEF WithoutDir
<1>4. j \in DSlot /\ dirs[j].used /\ dirs[j].name = p
  BY <1>2 DEF DirAt, UsedD
<1> HIDE DEF j
<1>5. dirs \in [DSlot -> DirRec]
  BY DEF FSInv, TablesOK, DirsOK
<1>6. /\ d # j => dirs'[d] = dirs[d]
      /\ dirs'[j] = EmptyDir
  BY <1>3, <1>4, <1>5
<1>7. ~EmptyDir.used
  BY DEF EmptyDir
<1>8. MayChange(dirs[j].name)
  BY <1>1, <1>4 DEF MayChange, may_modify_parent
<1>9. CASE d = j
  BY <1>4, <1>6, <1>7, <1>8, <1>9, OtherAllowed
<1> QED BY <1>6, <1>9, SameAllowed

LEMMA MkdirAllowed ==
    ASSUME FSInv, NEW p \in Path, fs_create_directory(p), NEW d \in DSlot
    PROVE  DirAllowed(d)
<1> DEFINE slot == {e \in DSlot \ {0} : ~dirs[e].used}
           j == Lowest(slot)
           new == [used |-> TRUE, name |-> p, owner |-> uid, mode |-> M755]
<1>1. CASE dirs' = dirs
  BY <1>1, SameAllowed
<1>2. CASE may_modify_parent(p) /\ slot # {} /\ dirs' = [dirs EXCEPT ![j] = new]
  <2>1. slot \subseteq Nat
    BY SlotFacts
  <2>2. j \in slot
    BY ONLY <1>2, <2>1, LowestIn
  <2>3. j \in DSlot /\ ~dirs[j].used
    BY <2>2
  <2> HIDE DEF j, slot
  <2>4. dirs \in [DSlot -> DirRec]
    BY DEF FSInv, TablesOK, DirsOK
  <2>5. new.used /\ new.name = p
    OBVIOUS
  <2> HIDE DEF new
  <2>6. /\ d # j => dirs'[d] = dirs[d]
        /\ dirs'[j] = new
    BY <1>2, <2>3, <2>4
  <2>7. MayChange(dirs'[j].name)
    BY <1>2, <2>5, <2>6 DEF MayChange, may_modify_parent
  <2>8. CASE d = j
    BY <2>3, <2>5, <2>6, <2>7, <2>8, OtherAllowed
  <2> QED BY <2>6, <2>8, SameAllowed
<1> QED BY <1>1, <1>2 DEF fs_create_directory, Fail

\* The calls that find or create a file, and then may set its contents.
LEMMA DataAllowed ==
    ASSUME FSInv, NEW p \in Path, Creatable(p), NEW i, i = SlotFor(p), NEW k \in FSlot,
           \A j \in FSlot \ {i} : files'[j] = WithFile(p)[j],
           files'[i].used, files'[i].name = WithFile(p)[i].name,
           files'[i].owner = WithFile(p)[i].owner, files'[i].mode = WithFile(p)[i].mode,
           FileAt(p) # {} => \/ files'[i].data = files[i].data
                             \/ perm_allows(files[i], "w")
    PROVE  FileAllowed(k)
<1>1. /\ i \in FSlot
      /\ \A j \in FSlot \ {i} : WithFile(p)[j] = files[j]
      /\ FileAt(p) # {} => WithFile(p) = files
      /\ FileAt(p) = {} => ~files[i].used /\ WithFile(p)[i] = NewFile(p)
      /\ WithFile(p)[i].used
  BY CreateFacts DEF FSInv, Creatable
<1>2. CASE k # i
  <2>1. files'[k] = files[k]
    BY <1>1, <1>2
  <2> QED BY <2>1, SameAllowed
<1>3. CASE k = i /\ FileAt(p) # {}
  <2>1. /\ files[k].used /\ files'[k].used
        /\ files'[k].owner = files[k].owner /\ files'[k].mode = files[k].mode
        /\ files'[k].data = files[k].data \/ perm_allows(files[k], "w")
    BY <1>1, <1>3
  <2>2. files[k].used \in BOOLEAN
    BY DEF FSInv, TablesOK, FilesOK, FileRec
  <2> QED BY <2>1, <2>2 DEF FileAllowed
<1>4. CASE k = i /\ FileAt(p) = {}
  <2>1. may_modify_parent(p)
    BY <1>4 DEF Creatable, CreateResult
  <2>2. files'[k].name = p
    BY <1>1, <1>4 DEF NewFile
  <2>3. MayChange(files'[k].name)
    BY <2>1, <2>2 DEF MayChange, may_modify_parent
  <2> QED BY <1>1, <1>4, <2>3, OtherAllowed
<1> QED BY <1>2, <1>3, <1>4

LEMMA CreateAllowed ==
    ASSUME FSInv, NEW p \in Path, Creatable(p), files' = WithFile(p), NEW k \in FSlot
    PROVE  FileAllowed(k)
<1> DEFINE i == SlotFor(p)
<1>1. files'[i].used /\ (FileAt(p) # {} => files'[i].data = files[i].data)
  BY CreateFacts DEF FSInv, Creatable
<1> QED BY <1>1, DataAllowed

LEMMA AppendAllowed ==
    ASSUME FSInv, NEW p \in Path, NEW data, fs_append_file(p, data), NEW k \in FSlot
    PROVE  FileAllowed(k)
<1> DEFINE i == SlotFor(p)
           fs == WithFile(p)
           new == fs[i].data \o data
           ptr == Resized(fs, i, Len(fs[i].data) + Len(data)).ptr
<1>1. \/ files' = files
      \/ Creatable(p) /\ files' = fs
      \/ /\ Creatable(p) /\ (FileAt(p) # {} => perm_allows(files[i], "w"))
         /\ files' = [fs EXCEPT ![i].data = new, ![i].ptr = ptr]
  BY DEF fs_append_file, Fail, SetData, Creatable
<1>2. CASE files' = files
  BY <1>2, SameAllowed
<1>3. CASE Creatable(p) /\ files' = fs
  BY <1>3, CreateAllowed
<1>4. CASE /\ Creatable(p) /\ (FileAt(p) # {} => perm_allows(files[i], "w"))
           /\ files' = [fs EXCEPT ![i].data = new, ![i].ptr = ptr]
  <2>1. /\ \A j \in FSlot \ {i} : files'[j] = fs[j]
        /\ files'[i].used /\ files'[i].name = fs[i].name
        /\ files'[i].owner = fs[i].owner /\ files'[i].mode = fs[i].mode
    <3>1. i \in FSlot /\ fs \in [FSlot -> FileRec] /\ fs[i].used /\ fs[i] \in FileRec
      BY <1>4, CreateFacts DEF FSInv, Creatable, TablesOK, FilesOK
    <3> HIDE DEF i, fs, new, ptr
    <3>2. /\ \A j \in FSlot \ {i} : files'[j] = fs[j]
          /\ files'[i] = [fs[i] EXCEPT !.data = new, !.ptr = ptr]
      BY ONLY <1>4, <3>1
    <3>3. /\ files'[i].used = fs[i].used /\ files'[i].name = fs[i].name
          /\ files'[i].owner = fs[i].owner /\ files'[i].mode = fs[i].mode
      BY ONLY <3>1, <3>2 DEF FileRec
    <3> QED BY <3>1, <3>2, <3>3
  <2> QED BY <1>4, <2>1, DataAllowed
<1> QED BY <1>1, <1>2, <1>3, <1>4

LEMMA WriteAllowed ==
    ASSUME FSInv, NEW p \in Path, NEW data, fs_write_file(p, data), NEW k \in FSlot
    PROVE  FileAllowed(k)
<1> DEFINE i == SlotFor(p)
           fs == WithFile(p)
           ptr == Resized(fs, i, Len(data)).ptr
<1>1. \/ files' = files
      \/ /\ Creatable(p) /\ (FileAt(p) # {} => perm_allows(files[i], "w"))
         /\ files' = Rollback(fs, i) /\ ret'.op = "write" /\ ret'.rc < 0
      \/ /\ Creatable(p) /\ (FileAt(p) # {} => perm_allows(files[i], "w"))
         /\ files' = [fs EXCEPT ![i].data = data, ![i].ptr = ptr]
  BY DEF fs_write_file, Fail, SetData, Creatable, Return
<1>2. CASE files' = files
  BY <1>2, SameAllowed
<1>3. CASE /\ Creatable(p) /\ (FileAt(p) # {} => perm_allows(files[i], "w"))
           /\ files' = Rollback(fs, i) /\ ret'.op = "write" /\ ret'.rc < 0
  <2>1. CASE files' = fs
    BY <1>3, <2>1, CreateAllowed
  <2>2. CASE fs[i].data = <<>> /\ files' = [fs EXCEPT ![i] = EmptyFile]
    <3>1. /\ i \in FSlot /\ fs \in [FSlot -> FileRec]
          /\ \A j \in FSlot \ {i} : fs[j] = files[j]
          /\ FileAt(p) # {} => fs = files
          /\ FileAt(p) = {} => ~files[i].used
          /\ fs[i].used
      BY <1>3, CreateFacts DEF FSInv, Creatable, TablesOK, FilesOK
    <3> HIDE DEF i, fs
    <3>2. files'[i] = EmptyFile /\ (k # i => files'[k] = files[k])
      BY <2>2, <3>1
    <3>3. EmptyFile.used = FALSE
      BY DEF EmptyFile
    <3>4. CASE k # i
      BY <3>2, <3>4, SameAllowed
    <3>5. CASE k = i /\ FileAt(p) # {}
      <4>1. RolledBack(k)
        BY <1>3, <2>2, <3>1, <3>5 DEF RolledBack
      <4>2. files[k].used /\ ~files'[k].used
        BY <3>1, <3>2, <3>3, <3>5
      <4> QED BY <4>1, <4>2 DEF FileAllowed
    <3>6. CASE k = i /\ FileAt(p) = {}
      <4>1. files[k].used = FALSE
        <5>1. files[k].used \in BOOLEAN
          BY DEF FSInv, TablesOK, FilesOK, FileRec
        <5> QED BY <3>1, <3>6, <5>1
      <4>2. files'[k].used = FALSE
        BY <3>2, <3>3, <3>6
      <4> QED BY <4>1, <4>2 DEF FileAllowed
    <3> QED BY <3>4, <3>5, <3>6
  <2> QED BY <1>3, <2>1, <2>2 DEF Rollback
<1>4. CASE /\ Creatable(p) /\ (FileAt(p) # {} => perm_allows(files[i], "w"))
           /\ files' = [fs EXCEPT ![i].data = data, ![i].ptr = ptr]
  <2>1. /\ \A j \in FSlot \ {i} : files'[j] = fs[j]
        /\ files'[i].used /\ files'[i].name = fs[i].name
        /\ files'[i].owner = fs[i].owner /\ files'[i].mode = fs[i].mode
    <3>1. i \in FSlot /\ fs \in [FSlot -> FileRec] /\ fs[i].used /\ fs[i] \in FileRec
      BY <1>4, CreateFacts DEF FSInv, Creatable, TablesOK, FilesOK
    <3> HIDE DEF i, fs, ptr
    <3>2. /\ \A j \in FSlot \ {i} : files'[j] = fs[j]
          /\ files'[i] = [fs[i] EXCEPT !.data = data, !.ptr = ptr]
      BY ONLY <1>4, <3>1
    <3>3. /\ files'[i].used = fs[i].used /\ files'[i].name = fs[i].name
          /\ files'[i].owner = fs[i].owner /\ files'[i].mode = fs[i].mode
      BY ONLY <3>1, <3>2 DEF FileRec
    <3> QED BY <3>1, <3>2, <3>3
  <2> QED BY <1>4, <2>1, DataAllowed
<1> QED BY <1>1, <1>2, <1>3, <1>4

\* chmod: the target and, with -R, what lies under it, as far as the user
\* owns them.
LEMMA ChmodAllowed ==
    ASSUME FSInv, uid # 0, NEW p, NEW mode, NEW rec, fs_chmod(p, mode, rec)
    PROVE  /\ \A i \in FSlot : FileAllowed(i)
           /\ \A d \in DSlot : DirAllowed(d)
<1> DEFINE F == TargetF(p) \cup {i \in Sweep(p, rec, files, UsedF) : MayChmod(files[i])}
           D == TargetD(p) \cup {d \in Sweep(p, rec, dirs, UsedD) : MayChmod(dirs[d])}
<1>1. CASE UNCHANGED <<files, dirs>>
  BY <1>1, SameAllowed
<1>2. CASE /\ \E e \in Targets(p) : MayChmod(e)
           /\ files' = [i \in FSlot |-> IF i \in F
                          THEN [files[i] EXCEPT !.mode = mode] ELSE files[i]]
           /\ dirs' = [d \in DSlot |-> IF d \in D
                          THEN [dirs[d] EXCEPT !.mode = mode] ELSE dirs[d]]
  <2>1. files \in [FSlot -> FileRec] /\ dirs \in [DSlot -> DirRec]
    BY DEF FSInv, TablesOK, FilesOK, DirsOK
  <2>2. /\ \A i, j \in FileAt(p) : i = j
        /\ \A i, j \in DirAt(p) : i = j
    BY DEF FSInv, TablesOK, Whole, NamesUniqueIn, FileAt, DirAt, UsedF, UsedD
  <2>3. /\ \A i \in TargetF(p) : files[i].owner = uid
        /\ \A d \in TargetD(p) : dirs[d].owner = uid
    <3>1. PICK e \in Targets(p) : uid = e.owner
      BY <1>2 DEF MayChmod
    <3>2. CASE FileAt(p) # {}
      <4>1. PICK i \in FileAt(p) : e = files[i]
        BY <3>1, <3>2 DEF Targets, TargetF, TargetD
      <4> QED BY <2>2, <3>1, <3>2, <4>1 DEF TargetF, TargetD
    <3>3. CASE FileAt(p) = {}
      <4>1. PICK d \in DirAt(p) : e = dirs[d]
        BY <3>1, <3>3 DEF Targets, TargetF, TargetD
      <4> QED BY <2>2, <3>1, <3>3, <4>1 DEF TargetF, TargetD
    <3> QED BY <3>2, <3>3
  <2>4. /\ \A i \in F : files[i].owner = uid
        /\ \A d \in D : dirs[d].owner = uid
    BY <2>3 DEF MayChmod
  <2> HIDE DEF F, D
  <2>5. ASSUME NEW i \in FSlot PROVE FileAllowed(i)
    <3>1. CASE i \notin F
      BY <1>2, <3>1, SameAllowed
    <3>2. CASE i \in F
      <4>1. files'[i] = [files[i] EXCEPT !.mode = mode]
        BY <1>2, <3>2
      <4>2. files[i] \in FileRec
        BY <2>1
      <4>3. /\ files'[i].used = files[i].used /\ files'[i].owner = files[i].owner
            /\ files'[i].data = files[i].data
        BY ONLY <4>1, <4>2 DEF FileRec
      <4>4. files[i].owner = uid
        BY <2>4, <3>2
      <4> QED BY <4>3, <4>4 DEF FileAllowed
    <3> QED BY <3>1, <3>2
  <2>6. ASSUME NEW d \in DSlot PROVE DirAllowed(d)
    <3>1. CASE d \notin D
      BY <1>2, <3>1, SameAllowed
    <3>2. CASE d \in D
      <4>1. dirs'[d] = [dirs[d] EXCEPT !.mode = mode]
        BY <1>2, <3>2
      <4>2. dirs[d] \in DirRec
        BY <2>1
      <4>3. dirs'[d].used = dirs[d].used /\ dirs'[d].owner = dirs[d].owner
        BY ONLY <4>1, <4>2 DEF DirRec
      <4>4. dirs[d].owner = uid
        BY <2>4, <3>2
      <4> QED BY <4>3, <4>4 DEF DirAllowed
    <3> QED BY <3>1, <3>2
  <2> QED BY <2>5, <2>6
<1> QED BY <1>1, <1>2 DEF fs_chmod, Fail

\* Whoever is not root changes an entry only as its owner and mode allow, and
\* makes or removes one only where the directory above lets him; the one way
\* around is the rollback of a failed write to an empty file that he may write.
\* fs_prealloc_file and fs_write_at check nothing, so that this is about a
\* system in which a command that calls them is root's.
THEOREM PermissionsAlwaysHold ==
    ASSUME Calls \cap {"prealloc", "write_at"} = {}
    PROVE  Spec => PermissionsHold
<1> DEFINE A == uid # 0 /\ ret'.op \notin {"reboot", "setuid", "reassign"} =>
                  /\ \A i \in FSlot : FileAllowed(i)
                  /\ \A d \in DSlot : DirAllowed(d)
<1>1. FSInv /\ [Next]_vars => [A]_vars
  <2> SUFFICES ASSUME FSInv, Next, uid # 0,
                      ret'.op \notin {"reboot", "setuid", "reassign"}
               PROVE  /\ \A i \in FSlot : FileAllowed(i)
                      /\ \A d \in DSlot : DirAllowed(d)
    OBVIOUS
  <2>1. files' = files => \A i \in FSlot : FileAllowed(i)
    BY SameAllowed
  <2>2. dirs' = dirs => \A d \in DSlot : DirAllowed(d)
    BY SameAllowed
  <2>3. CASE UNCHANGED <<files, dirs>>
    BY <2>1, <2>2, <2>3
  <2>4. ASSUME NEW op, NEW rc, NEW errno, Fail(op, rc, errno)
        PROVE  UNCHANGED <<files, dirs>>
    BY <2>4 DEF Fail
  <2>5. ~Reboot /\ (\A old, new : ~fs_reassign_uid(old, new)) /\ (\A u : ~SetUid(u))
    <3>1. ~Reboot
      BY DEF Reboot, Return
    <3>2. \A old, new : ~fs_reassign_uid(old, new)
      BY DEF fs_reassign_uid, Return
    <3>3. \A u : ~SetUid(u)
      BY DEF SetUid, Return
    <3> QED BY <3>1, <3>2, <3>3
  <2>6. CASE CtrlC \/ store_save \/ \E sp \in Spellings : RmStart(sp)
    <3>1. UNCHANGED <<files, dirs>>
      BY <2>4, <2>6 DEF CtrlC, store_save, RmStart
    <3> QED BY <2>3, <3>1
  <2>7. CASE RmStep
    <3>1. \/ UNCHANGED <<files, dirs>>
          \/ \E p : DeleteResult(p).rc = 0 /\ files' = WithoutFile(p) /\ dirs' = dirs
          \/ \E p, b : RmdirResult(p, b).rc = 0 /\ dirs' = WithoutDir(p) /\ files' = files
      BY <2>7 DEF RmStep, RmDir, RmFile, RmSelf, RmFail
    <3> QED BY <2>1, <2>2, <3>1, DeleteAllowed, RmdirAllowed
  <2>8. CASE FileCall
    <3>1. PICK p \in Path :
            \/ fs_create_file(p) \/ fs_delete_file(p) \/ fs_read_file(p)
            \/ \E data \in Strings : fs_write_file(p, data) \/ fs_append_file(p, data)
            \/ \E size \in Sizes : fs_prealloc_file(p, size)
            \/ \E data \in Strings, off \in Sizes : fs_write_at(p, off, data)
      BY <2>8 DEF FileCall
    <3>2. /\ \A size : ~fs_prealloc_file(p, size)
          /\ \A data, off : ~fs_write_at(p, off, data)
      BY DEF fs_prealloc_file, fs_write_at, Idle
    <3>3. CASE fs_create_file(p)
      <4>1. UNCHANGED <<files, dirs>> \/ (Creatable(p) /\ files' = WithFile(p) /\ dirs' = dirs)
        BY <2>4, <3>3 DEF fs_create_file, Creatable
      <4> QED BY <2>2, <2>3, <4>1, CreateAllowed
    <3>4. CASE fs_delete_file(p)
      <4>1. \/ UNCHANGED <<files, dirs>>
            \/ DeleteResult(p).rc = 0 /\ files' = WithoutFile(p) /\ dirs' = dirs
        BY <2>4, <3>4 DEF fs_delete_file
      <4> QED BY <2>2, <2>3, <4>1, DeleteAllowed
    <3>5. CASE fs_read_file(p)
      BY <2>3, <2>4, <3>5 DEF fs_read_file
    <3>6. ASSUME NEW data \in Strings, fs_write_file(p, data) \/ fs_append_file(p, data)
          PROVE  (\A i \in FSlot : FileAllowed(i)) /\ (\A d \in DSlot : DirAllowed(d))
      <4>1. dirs' = dirs
        BY <3>6 DEF fs_write_file, fs_append_file, Fail
      <4> QED BY <2>2, <3>6, <4>1, WriteAllowed, AppendAllowed
    <3> QED BY <3>1, <3>2, <3>3, <3>4, <3>5, <3>6
  <2>9. CASE DirCall
    <3>1. PICK p \in Path : \/ fs_create_directory(p)
                            \/ \E lit \in BOOLEAN : \/ fs_delete_directory(p, lit)
                                                    \/ fs_change_directory(p, lit)
      BY <2>9 DEF DirCall
    <3>2. CASE fs_create_directory(p)
      <4>1. files' = files
        BY <3>2 DEF fs_create_directory, Fail
      <4> QED BY <2>1, <3>2, <4>1, MkdirAllowed
    <3>3. ASSUME NEW lit, fs_delete_directory(p, lit)
          PROVE  (\A i \in FSlot : FileAllowed(i)) /\ (\A d \in DSlot : DirAllowed(d))
      <4>1. \/ UNCHANGED <<files, dirs>>
            \/ RmdirResult(p, lit).rc = 0 /\ dirs' = WithoutDir(p) /\ files' = files
        BY <2>4, <3>3 DEF fs_delete_directory
      <4> QED BY <2>1, <2>3, <4>1, RmdirAllowed
    <3>4. ASSUME NEW lit, fs_change_directory(p, lit) PROVE UNCHANGED <<files, dirs>>
      BY <2>4, <3>4 DEF fs_change_directory
    <3> QED BY <2>3, <3>1, <3>2, <3>3, <3>4
  <2>10. CASE OwnerCall
    <3>1. \/ \E p \in Path, rec \in BOOLEAN, mode \in Modes : fs_chmod(p, mode, rec)
          \/ \E p \in Path, rec \in BOOLEAN, new \in Uids : fs_chown(p, new, rec)
      BY <2>5, <2>10 DEF OwnerCall
    <3>2. ASSUME NEW p, NEW new, NEW rec, fs_chown(p, new, rec)
          PROVE  UNCHANGED <<files, dirs>>
      BY <2>4, <3>2 DEF fs_chown
    <3> QED BY <2>3, <3>1, <3>2, ChmodAllowed
  <2> QED BY <2>5, <2>6, <2>7, <2>8, <2>9, <2>10 DEF Next
<1>2. [][A]_vars => PermissionsHold
  <2>1. [A]_vars => [uid # 0 /\ ret'.op \notin {"reboot", "setuid", "reassign"} =>
         /\ \A i \in FSlot :
              /\ files[i].used # files'[i].used =>
                    \/ MayChange(IF files[i].used THEN files[i].name ELSE files'[i].name)
                    \/ files[i].used /\ RolledBack(i)
              /\ files[i].used /\ files'[i].used =>
                    /\ files'[i].owner = files[i].owner
                    /\ files'[i].mode # files[i].mode => files[i].owner = uid
                    /\ files'[i].data # files[i].data => perm_allows(files[i], "w")
         /\ \A d \in DSlot :
              /\ dirs[d].used # dirs'[d].used =>
                    MayChange(IF dirs[d].used THEN dirs[d].name ELSE dirs'[d].name)
              /\ dirs[d].used /\ dirs'[d].used =>
                    /\ dirs'[d].owner = dirs[d].owner
                    /\ dirs'[d].mode # dirs[d].mode => dirs[d].owner = uid]_vars
    BY DEF FileAllowed, DirAllowed
  <2> QED BY <2>1, PTL DEF PermissionsHold
<1> QED BY <1>1, <1>2, FileSystemCorrect, PTL DEF Spec
=============================================================================

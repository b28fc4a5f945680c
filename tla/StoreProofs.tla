---------------------------- MODULE StoreProofs ----------------------------
(***************************************************************************)
(* What store_autosave and store_init guarantee for every size of the      *)
(* image, of the stage and of the region, and for any number of failed     *)
(* transfers and power failures; and, of StoreLayout, that the region is   *)
(* clear of its neighbours on every disk.                                  *)
(***************************************************************************)
EXTENDS Store, StoreLayout, TLAPS

Saving == {"sink", "flush", "last", "verify"}

Used == [ver : Nat \ {0}, part : Nat, len : Nat \ {0}, build : Builds]
Sector == Used \cup {Blank}

\* An image that a serializer made: it belongs together and its header tells
\* its length.
Whole(img) == /\ img \in Seq(Sector)
              /\ Len(img) \in 1 .. Cap
              /\ Uniform(img)
              /\ img[1] # Blank
              /\ img[1].len = Len(img)

Types == /\ pc \in Saving \cup {"off", "idle"}
         /\ disk \in [1 .. Cap -> Sector]
         /\ mem \in Seq(Sector) /\ stage \in Seq(Sector) /\ landed \in Seq(Sector)
         /\ off \in Nat /\ start \in Nat /\ ver \in Nat \ {0}
         /\ build \in Builds

\* The writer's window: the stage holds the sectors of the image that precede
\* off, and all that precede the stage are on the disk.
Window == pc \in Saving =>
    /\ Whole(mem) /\ enabled
    /\ off <= Len(mem) /\ Len(stage) <= off
    /\ Len(stage) > 0 => start = off - Len(stage)
    /\ \A k \in 1 .. Len(stage) : stage[k] = mem[off - Len(stage) + k]
    /\ \A k \in 1 .. off - Len(stage) : disk[k] = mem[k]

\* Where in the image each part of the save is.
Position == /\ pc = "sink" => off < Len(mem)
            /\ pc = "flush" => Len(stage) > 0
            /\ pc = "last" => off = Len(mem)
            /\ pc = "verify" => off = Len(mem) /\ Len(stage) = 0

Memory == pc = "idle" => /\ Len(mem) \in 1 .. Cap
                         /\ mem[1] # Blank /\ mem[1].len = Len(mem)

Landed == landed # <<>> => Whole(landed) /\ OnDisk(landed)

StoreInv == Types /\ Window /\ Position /\ Memory /\ Landed /\ QuietMeansSaved

\* Serializing contents makes a whole image.
LEMMA ContentsWhole ==
    ASSUME NEW v \in Nat \ {0}, NEW n \in 1 .. Cap, NEW b \in Builds
    PROVE  Whole(Contents(v, n, b))
<1> DEFINE img == Contents(v, n, b)
<1> USE StoreAssumption
<1>1. \A k \in 1 .. n : img[k] \in Used
  BY DEF Contents, Used
<1>2. img \in [1 .. n -> Sector]
  BY <1>1 DEF Contents, Sector
<1>3. img \in Seq(Sector) /\ Len(img) = n
  BY <1>2
<1>4. img[1] = [ver |-> v, part |-> 1, len |-> n, build |-> b]
  BY DEF Contents
<1>5. img[1] # Blank
  BY <1>4 DEF Blank
<1>6. Uniform(img)
  BY <1>3 DEF Contents, Uniform
<1>7. img[1].len = n
  BY <1>4
<1> HIDE DEF img
<1>8. Whole(img)
  BY <1>3, <1>5, <1>6, <1>7 DEF Whole
<1> QED  BY <1>8 DEF img

\* What a transfer, complete or not, leaves on the disk.
LEMMA WrittenFacts ==
    ASSUME Types, NEW n \in 0 .. Len(stage)
    PROVE  /\ Written(n) \in [1 .. Cap -> Sector]
           /\ \A k \in 1 .. Cap : k <= start => Written(n)[k] = disk[k]
           /\ \A k \in 1 .. Cap : k - start \in 1 .. n
                                     => Written(n)[k] = stage[k - start]
BY StoreAssumption DEF Types, Written

\* Before the first boot nothing is staged and nothing has landed.
LEMMA StoreStart == Init => StoreInv
<1> SUFFICES ASSUME Init PROVE StoreInv
    OBVIOUS
<1> USE StoreAssumption
<1>1. Types
  <2>1. disk \in [1 .. Cap -> Sector]
    BY DEF Init, Sector
  <2>2. <<>> \in Seq(Sector)
    OBVIOUS
  <2> QED  BY <2>1, <2>2 DEF Init, Types
<1>2. Window /\ Position /\ Memory /\ Landed /\ QuietMeansSaved
  BY DEF Init, Saving, Window, Position, Memory, Landed, QuietMeansSaved
<1> QED  BY <1>1, <1>2 DEF StoreInv

\* A disk that does not change keeps what landed.
LEMMA LandedKept ==
    ASSUME Landed, UNCHANGED <<disk, landed>>
    PROVE  Landed'
BY DEF Landed, OnDisk, Whole, Uniform

\* store_wr_sink moves one sector of the image into the window.
LEMMA EmitStep == StoreInv /\ Emit => StoreInv'
<1> SUFFICES ASSUME StoreInv, Emit PROVE StoreInv'
    OBVIOUS
<1> USE StoreAssumption
<1>1. /\ pc = "sink" /\ Types /\ Window /\ Position /\ Landed
      /\ off < Len(mem) /\ Whole(mem) /\ Whole(mem)'
  BY DEF StoreInv, Emit, Position, Window, Saving, Whole, Uniform
<1>2. mem[off + 1] \in Sector
  BY <1>1 DEF Types
<1>3. /\ stage' \in Seq(Sector) /\ Len(stage') = Len(stage) + 1
      /\ \A k \in 1 .. Len(stage) : stage'[k] = stage[k]
      /\ stage'[Len(stage) + 1] = mem[off + 1]
  BY <1>1, <1>2 DEF Emit, Types
<1>4. off' = off + 1 /\ mem' = mem /\ disk' = disk /\ enabled' = enabled
  BY DEF Emit
<1>5. start' \in Nat /\ start' = off' - Len(stage')
  <2>1. CASE stage = <<>>
    BY <2>1, <1>1, <1>3, <1>4 DEF Emit, Types
  <2>2. CASE stage # <<>>
    <3>1. Len(stage) > 0
      BY <2>2, <1>1 DEF Types
    <3>2. start' = start
      BY <2>2 DEF Emit
    <3>3. start = off - Len(stage)
      BY <3>1, <1>1 DEF Window, Saving
    <3> QED  BY <3>2, <3>3, <1>1, <1>3, <1>4 DEF Types
  <2> QED  BY <2>1, <2>2
<1>6. Types'
  BY <1>1, <1>3, <1>5 DEF Emit, Types, Saving
<1>7. pc' \in {"flush", "last", "sink"}
  BY DEF Emit
<1>8. Window'
  <2>1. enabled /\ Len(stage) <= off /\ off \in Nat /\ Len(stage) \in Nat
    BY <1>1 DEF Types, Window, Saving
  <2>2. \A k \in 1 .. Len(stage) : stage[k] = mem[off - Len(stage) + k]
    BY <1>1 DEF Window, Saving
  <2>3. \A k \in 1 .. Len(stage') : stage'[k] = mem'[off' - Len(stage') + k]
    <3> SUFFICES ASSUME NEW k \in 1 .. Len(stage')
                 PROVE  stage'[k] = mem[off - Len(stage) + k]
      BY <1>3, <1>4, <2>1
    <3>1. CASE k <= Len(stage)
      BY <3>1, <1>3, <2>1, <2>2
    <3>2. CASE k = Len(stage) + 1
      BY <3>2, <1>3, <2>1
    <3> QED  BY <3>1, <3>2, <1>3, <2>1
  <2>4. \A k \in 1 .. off' - Len(stage') : disk'[k] = mem'[k]
    BY <1>1, <1>3, <1>4, <2>1 DEF Window, Saving
  <2> QED  BY <1>1, <1>3, <1>4, <1>5, <2>1, <2>3, <2>4 DEF Window, Types
<1>9. Position'
  BY <1>1, <1>3, <1>4 DEF Emit, Position, Types
<1>10. Memory' /\ QuietMeansSaved'
  BY <1>7 DEF Memory, QuietMeansSaved
<1>11. Landed'
  BY <1>1, LandedKept DEF Emit
<1> QED  BY <1>6, <1>8, <1>9, <1>10, <1>11 DEF StoreInv

\* However far a transfer got, what landed before is either still there or no
\* longer claimed to be.
LEMMA TouchKeeps ==
    ASSUME Types, Landed, Touch
    PROVE  landed' \in Seq(Sector) /\ Landed'
<1>1. CASE disk' = disk
  <2>1. landed' = landed
    BY <1>1 DEF Touch
  <2> QED  BY <1>1, <2>1, LandedKept DEF Types
<1>2. CASE disk' # disk
  <2>1. landed' = <<>>
    BY <1>2 DEF Touch
  <2> QED  BY <2>1 DEF Landed
<1> QED  BY <1>1, <1>2

\* A batch that was written completes the image up to off.
LEMMA BatchDone ==
    ASSUME StoreInv, pc \in {"flush", "last"}, Len(stage) > 0,
           disk' = Written(Len(stage))
    PROVE  /\ disk' \in [1 .. Cap -> Sector]
           /\ \A k \in 1 .. off : disk'[k] = mem[k]
<1> USE StoreAssumption
<1>1. /\ Types /\ start = off - Len(stage) /\ off <= Len(mem) /\ Len(mem) <= Cap
      /\ \A k \in 1 .. Len(stage) : stage[k] = mem[off - Len(stage) + k]
      /\ \A k \in 1 .. off - Len(stage) : disk[k] = mem[k]
  <2>1. pc \in Saving /\ Types /\ Window
    BY DEF StoreInv, Saving
  <2>2. Whole(mem)
    BY <2>1 DEF Window
  <2>3. Len(mem) <= Cap
    BY <2>2 DEF Whole
  <2> QED  BY <2>1, <2>3 DEF Window
<1>2. off \in Nat /\ Len(stage) \in Nat /\ Len(mem) \in Nat /\ start \in Nat
  BY <1>1 DEF Types
<1>3. /\ Written(Len(stage)) \in [1 .. Cap -> Sector]
      /\ \A k \in 1 .. Cap : k <= start => Written(Len(stage))[k] = disk[k]
      /\ \A k \in 1 .. Cap : k - start \in 1 .. Len(stage)
                              => Written(Len(stage))[k] = stage[k - start]
  <2>1. Len(stage) \in 0 .. Len(stage)
    BY <1>2
  <2>2. Types
    BY <1>1
  <2> QED  BY ONLY <2>1, <2>2, WrittenFacts
<1>4. ASSUME NEW k \in 1 .. off PROVE disk'[k] = mem[k]
  <2>0. k \in 1 .. Cap
    BY <1>1, <1>2
  <2>1. CASE k <= start
    <3>1. disk'[k] = disk[k]
      BY <2>0, <2>1, <1>3
    <3>2. k \in 1 .. off - Len(stage)
      BY <2>1, <1>1, <1>2
    <3> QED  BY <3>1, <3>2, <1>1
  <2>2. CASE k > start
    <3>1. k - start \in 1 .. Len(stage)
      BY <2>2, <1>1, <1>2
    <3>2. disk'[k] = stage[k - start]
      BY <2>0, <3>1, <1>3
    <3>3. off - Len(stage) + (k - start) = k
      BY <1>1, <1>2
    <3>4. stage[k - start] = mem[off - Len(stage) + (k - start)]
      BY <3>1, <1>1
    <3> QED  BY <3>2, <3>3, <3>4
  <2> QED  BY <2>1, <2>2, <1>2
<1> QED  BY <1>3, <1>4

\* A batch that was not leaves alone what the batches before it wrote.
LEMMA BatchTorn ==
    ASSUME StoreInv, pc \in {"flush", "last"}, Len(stage) > 0,
           NEW n \in 0 .. Len(stage), disk' = Written(n)
    PROVE  /\ disk' \in [1 .. Cap -> Sector]
           /\ \A k \in 1 .. off - Len(stage) : disk'[k] = mem[k]
<1> USE StoreAssumption
<1>1. /\ Types /\ start = off - Len(stage) /\ off <= Len(mem) /\ Len(mem) <= Cap
      /\ \A k \in 1 .. off - Len(stage) : disk[k] = mem[k]
  <2>1. pc \in Saving /\ Types /\ Window
    BY DEF StoreInv, Saving
  <2>2. Whole(mem)
    BY <2>1 DEF Window
  <2>3. Len(mem) <= Cap
    BY <2>2 DEF Whole
  <2> QED  BY <2>1, <2>3 DEF Window
<1>2. off \in Nat /\ Len(stage) \in Nat /\ Len(mem) \in Nat /\ start \in Nat
  BY <1>1 DEF Types
<1>3. /\ Written(n) \in [1 .. Cap -> Sector]
      /\ \A k \in 1 .. Cap : k <= start => Written(n)[k] = disk[k]
  BY <1>1, WrittenFacts
<1> QED  BY <1>1, <1>2, <1>3

\* A flush of a full stage, complete or torn, keeps the window.
LEMMA FlushStep == StoreInv /\ Flush => StoreInv'
<1> SUFFICES ASSUME StoreInv, Flush PROVE StoreInv'
    OBVIOUS
<1> USE StoreAssumption
<1>1. /\ pc = "flush" /\ Types /\ Len(stage) > 0 /\ Landed /\ Touch
      /\ Whole(mem) /\ Whole(mem)' /\ enabled /\ enabled'
      /\ off <= Len(mem) /\ Len(stage) <= off /\ start = off - Len(stage)
      /\ \A k \in 1 .. Len(stage) : stage[k] = mem[off - Len(stage) + k]
  BY DEF StoreInv, Flush, Position, Window, Saving, Whole, Uniform
<1>2. UNCHANGED <<mem, off, start, build, ver>>
  BY DEF Flush
<1>3. landed' \in Seq(Sector) /\ Landed'
  BY <1>1, TouchKeeps
<1>4. off \in Nat /\ Len(stage) \in Nat /\ Len(mem) \in Nat
  BY <1>1 DEF Types
<1>5. CASE FlushWorks /\ pc' = IF off = Len(mem) THEN "last" ELSE "sink"
  <2>1. disk' = Written(Len(stage)) /\ stage' = <<>>
    BY <1>5 DEF FlushWorks
  <2>2. disk' \in [1 .. Cap -> Sector] /\ \A k \in 1 .. off : disk'[k] = mem[k]
    BY <2>1, <1>1, BatchDone
  <2>3. stage' \in Seq(Sector) /\ Len(stage') = 0 /\ pc' \in {"last", "sink"}
    BY <2>1, <1>5
  <2>4. Types'
    BY <2>2, <2>3, <1>1, <1>2, <1>3 DEF Types, Saving
  <2>5. Window'
    BY <2>2, <2>3, <1>1, <1>2, <1>4 DEF Window
  <2>6. Position' /\ Memory' /\ QuietMeansSaved'
    BY <2>3, <1>1, <1>2, <1>4, <1>5 DEF Position, Memory, QuietMeansSaved
  <2> QED  BY <2>4, <2>5, <2>6, <1>3 DEF StoreInv
<1>6. CASE FlushFails /\ pc' = IF off = Len(mem) THEN "last" ELSE "flush"
  <2>1. PICK n \in 0 .. Len(stage) : disk' = Written(n)
    BY <1>6 DEF FlushFails
  <2>2. stage' = stage /\ pc' \in {"last", "flush"}
    BY <1>6 DEF FlushFails
  <2>3. /\ disk' \in [1 .. Cap -> Sector]
        /\ \A k \in 1 .. off - Len(stage) : disk'[k] = mem[k]
    BY <2>1, <1>1, BatchTorn
  <2>4. Types'
    BY <2>2, <2>3, <1>1, <1>2, <1>3 DEF Types, Saving
  <2>5. Window'
    BY <2>2, <2>3, <1>1, <1>2, <1>4 DEF Window
  <2>6. Position' /\ Memory' /\ QuietMeansSaved'
    BY <2>2, <1>1, <1>2, <1>6 DEF Position, Memory, QuietMeansSaved
  <2> QED  BY <2>4, <2>5, <2>6, <1>3 DEF StoreInv
<1> QED  BY <1>5, <1>6 DEF Flush

\* The flush at the end: either the save goes on to the header with all of the
\* image on the disk, or it returns with its failure recorded.
LEMMA LastStep == StoreInv /\ Last => StoreInv'
<1> SUFFICES ASSUME StoreInv, Last PROVE StoreInv'
    OBVIOUS
<1> USE StoreAssumption
<1>1. /\ pc = "last" /\ Types /\ Landed /\ Touch
      /\ Whole(mem) /\ Whole(mem)' /\ enabled /\ enabled'
      /\ off = Len(mem) /\ Len(stage) <= off
  BY DEF StoreInv, Last, Position, Window, Saving, Whole, Uniform
<1>2. UNCHANGED <<mem, off, start, build, ver>>
  BY DEF Last
<1>3. landed' \in Seq(Sector) /\ Landed'
  BY <1>1, TouchKeeps
<1>4. off \in Nat /\ Len(stage) \in Nat /\ Len(mem) \in Nat
  BY <1>1 DEF Types
<1>5. Memory'
  BY <1>1, <1>2 DEF Memory, Whole
<1>6. ASSUME stage' = <<>>, pc' = (IF failed THEN "idle" ELSE "verify"),
             failed' = failed, disk' \in [1 .. Cap -> Sector],
             \A k \in 1 .. off : disk'[k] = mem[k]
      PROVE  StoreInv'
  <2>1. stage' \in Seq(Sector) /\ Len(stage') = 0 /\ pc' \in {"idle", "verify"}
    BY <1>6
  <2>2. Types'
    BY <2>1, <1>1, <1>2, <1>3, <1>6 DEF Types, Saving
  <2>3. Window'
    BY <2>1, <1>1, <1>2, <1>4, <1>6 DEF Window
  <2>4. Position'
    BY <2>1, <1>1, <1>2 DEF Position
  <2>5. QuietMeansSaved'
    BY <1>6 DEF QuietMeansSaved
  <2> QED  BY <2>2, <2>3, <2>4, <2>5, <1>3, <1>5 DEF StoreInv
<1>7. CASE /\ stage = <<>> /\ pc' = (IF failed THEN "idle" ELSE "verify")
           /\ UNCHANGED <<disk, stage, failed, hw>>
  <2>1. \A k \in 1 .. off - Len(stage) : disk[k] = mem[k]
    BY <1>1 DEF StoreInv, Window, Saving
  <2>2. \A k \in 1 .. off : disk'[k] = mem[k]
    BY <2>1, <1>4, <1>7
  <2>3. disk' \in [1 .. Cap -> Sector]
    BY <1>1, <1>7 DEF Types
  <2> QED  BY <2>2, <2>3, <1>6, <1>7
<1>8. ASSUME stage # <<>> PROVE Len(stage) > 0
  BY <1>8, <1>1 DEF Types
<1>9. CASE stage # <<>> /\ FlushWorks /\ pc' = (IF failed THEN "idle" ELSE "verify")
  <2>1. /\ disk' = Written(Len(stage)) /\ stage' = <<>> /\ failed' = failed
        /\ Len(stage) > 0 /\ pc \in {"flush", "last"}
    BY <1>1, <1>8, <1>9 DEF FlushWorks
  <2>2. disk' \in [1 .. Cap -> Sector] /\ \A k \in 1 .. off : disk'[k] = mem[k]
    BY <2>1, BatchDone
  <2> QED  BY <2>1, <2>2, <1>6, <1>9
<1>10. CASE stage # <<>> /\ FlushFails /\ pc' = "idle"
  <2>1. PICK n \in 0 .. Len(stage) : disk' = Written(n)
    BY <1>10 DEF FlushFails
  <2>2. Written(n) \in [1 .. Cap -> Sector]
    BY <1>1, WrittenFacts
  <2>3. stage' = stage /\ failed'
    BY <1>10 DEF FlushFails
  <2>4. Types'
    BY <2>1, <2>2, <2>3, <1>1, <1>2, <1>3, <1>10 DEF Types
  <2>5. Window' /\ Position'
    BY <1>10 DEF Window, Position, Saving
  <2>6. QuietMeansSaved'
    BY <2>3 DEF QuietMeansSaved
  <2> QED  BY <2>4, <2>5, <2>6, <1>3, <1>5 DEF StoreInv
<1> QED  BY <1>7, <1>9, <1>10 DEF Last

\* A save that reads its header back has landed.
LEMMA VerifyStep == StoreInv /\ Verify => StoreInv'
<1> SUFFICES ASSUME StoreInv, Verify PROVE StoreInv'
    OBVIOUS
<1> USE StoreAssumption
<1>1. /\ pc = "verify" /\ Types /\ Whole(mem) /\ off = Len(mem) /\ Len(stage) = 0
      /\ \A k \in 1 .. off - Len(stage) : disk[k] = mem[k]
  BY DEF StoreInv, Verify, Position, Window, Saving
<1>2. /\ UNCHANGED <<disk, mem, off, stage, start, build, ver>>
      /\ landed' = mem /\ pc' = "idle"
  BY DEF Verify, ctx
<1>3. off \in Nat
  BY <1>1 DEF Types
<1>4. OnDisk(mem)
  BY <1>1, <1>3 DEF OnDisk, Whole
<1>5. OnDisk(mem)' /\ OnDisk(landed)'
  BY <1>2, <1>4 DEF OnDisk
<1>6. Whole(landed)'
  BY <1>1, <1>2 DEF Whole, Uniform
<1>7. Types'
  BY <1>1, <1>2 DEF Types
<1>8. Window' /\ Position'
  BY <1>2 DEF Window, Position, Saving
<1>9. Memory'
  BY <1>1, <1>2 DEF Memory, Whole
<1> QED  BY <1>5, <1>6, <1>7, <1>8, <1>9 DEF StoreInv, Landed, QuietMeansSaved

\* Starting to save a whole image, or having persistence off, is a good state.
LEMMA Starts ==
    ASSUME NEW on, StartSave(on, mem'), Whole(mem'), on <=> enabled',
           disk' \in [1 .. Cap -> Sector], ver' \in Nat \ {0}, build' \in Builds,
           landed' \in Seq(Sector), Landed'
    PROVE  StoreInv'
<1> USE StoreAssumption
<1>1. /\ pc' = (IF on THEN "sink" ELSE "idle")
      /\ off' = 0 /\ stage' = <<>> /\ start' = 0
  BY DEF StartSave, Whole
<1>2. stage' \in Seq(Sector) /\ Len(stage') = 0
  BY <1>1
<1>3. /\ mem' \in Seq(Sector) /\ Len(mem') \in 1 .. Cap
      /\ mem'[1] # Blank /\ mem'[1].len = Len(mem')
  BY DEF Whole
<1>4. pc' = "sink" \/ (pc' = "idle" /\ ~enabled')
  BY <1>1
<1>5. Types'
  BY <1>1, <1>2, <1>3, <1>4 DEF Types, Saving
<1>6. Window'
  <2>1. CASE pc' = "idle"
    BY <2>1 DEF Window, Saving
  <2>2. CASE pc' = "sink"
    <3>1. enabled'
      BY <2>2, <1>1
    <3>2. Whole(mem)'
      BY DEF Whole, Uniform
    <3> QED  BY <3>1, <3>2, <1>1, <1>2, <1>3 DEF Window
  <2> QED  BY <2>1, <2>2, <1>4
<1>7. Position'
  BY <1>1, <1>3, <1>4 DEF Position
<1>8. Memory'
  BY <1>3 DEF Memory
<1>9. QuietMeansSaved'
  BY <1>4 DEF QuietMeansSaved
<1> QED  BY <1>5, <1>6, <1>7, <1>8, <1>9 DEF StoreInv

\* Changed contents are whole.
LEMMA ChangeStep == ASSUME NEW n \in Lengths PROVE StoreInv /\ Change(n) => StoreInv'
<1> SUFFICES ASSUME StoreInv, Change(n) PROVE StoreInv'
    OBVIOUS
<1>1. Types /\ Landed
  BY DEF StoreInv
<1>2. n \in 1 .. Cap
  BY LengthAssumption
<1>3. ver' \in Nat \ {0} /\ build \in Builds
  BY <1>1 DEF Change, Types
<1>4. Whole(mem')
  BY <1>2, <1>3, ContentsWhole DEF Change
<1>5. landed' \in Seq(Sector) /\ Landed'
  BY <1>1, LandedKept DEF Change, Types
<1>6. StartSave(enabled, mem') /\ (enabled <=> enabled')
  BY DEF Change
<1>7. disk' \in [1 .. Cap -> Sector] /\ build' \in Builds
  BY <1>1 DEF Change, Types
<1> QED  BY <1>3, <1>4, <1>5, <1>6, <1>7, Starts

\* What sync saves is whole: the contents in memory, or contents of their own.
LEMMA SyncStep == StoreInv /\ Sync => StoreInv'
<1> SUFFICES ASSUME StoreInv, Sync PROVE StoreInv'
    OBVIOUS
<1>1. Types /\ Landed
  BY DEF StoreInv
<1>2. /\ Len(mem) \in 1 .. Cap /\ mem[1] # Blank /\ mem[1].len = Len(mem)
      /\ mem \in Seq(Sector)
  BY DEF StoreInv, Sync, Memory, Types
<1>3. ver' \in Nat \ {0} /\ Whole(mem')
  <2>1. CASE Uniform(mem) /\ UNCHANGED <<mem, ver>>
    BY <2>1, <1>1, <1>2 DEF Whole, Types
  <2>2. CASE ver' = ver + 1 /\ mem' = Contents(ver', Len(mem), build)
    <3>1. ver' \in Nat \ {0} /\ build \in Builds
      BY <2>2, <1>1 DEF Types
    <3>2. Whole(Contents(ver', Len(mem), build))
      BY <3>1, <1>2, ContentsWhole
    <3> QED  BY <3>1, <3>2, <2>2
  <2> QED  BY <2>1, <2>2 DEF Sync
<1>4. landed' \in Seq(Sector) /\ Landed'
  BY <1>1, LandedKept DEF Sync, Types
<1>5. StartSave(TRUE, mem') /\ enabled'
  BY DEF Sync
<1>6. disk' \in [1 .. Cap -> Sector] /\ build' \in Builds
  BY <1>1 DEF Sync, Types
<1> QED  BY <1>3, <1>4, <1>5, <1>6, Starts

\* Whatever the power failure tore, only what is on the disk counts.
LEMMA PowerStep == StoreInv /\ PowerFails => StoreInv'
<1> SUFFICES ASSUME StoreInv, PowerFails PROVE StoreInv'
    OBVIOUS
<1>1. Types /\ Landed /\ Touch
  BY DEF StoreInv, PowerFails
<1>2. landed' \in Seq(Sector) /\ Landed'
  BY <1>1, TouchKeeps
<1>3. disk' \in [1 .. Cap -> Sector]
  <2>1. CASE \E n \in 0 .. Len(stage) : disk' = Written(n)
    <3>1. PICK n \in 0 .. Len(stage) : disk' = Written(n)
      BY <2>1
    <3> QED  BY <3>1, <1>1, WrittenFacts
  <2>2. CASE disk' = disk
    BY <2>2, <1>1 DEF Types
  <2> QED  BY <2>1, <2>2 DEF PowerFails
<1>4. Types'
  <2>1. <<>> \in Seq(Sector)
    OBVIOUS
  <2> QED  BY <2>1, <1>1, <1>2, <1>3 DEF PowerFails, Types
<1>5. Window' /\ Position' /\ Memory' /\ QuietMeansSaved'
  BY DEF PowerFails, Window, Position, Memory, QuietMeansSaved, Saving
<1> QED  BY <1>2, <1>4, <1>5 DEF StoreInv

\* What a valid header announces is on the disk.
LEMMA AnnouncedFacts ==
    ASSUME Types, NEW b, HeaderOK(b)
    PROVE  /\ Announced \in Seq(Sector) /\ Len(Announced) = disk[1].len
           /\ Len(Announced) \in 1 .. Cap
           /\ Announced[1] = disk[1]
           /\ OnDisk(Announced)
<1> USE StoreAssumption
<1>1. disk[1] \in Used
  <2>1. disk[1] \in Sector /\ disk[1] # Blank
    BY DEF Types, HeaderOK
  <2> QED  BY <2>1 DEF Sector
<1>2. disk[1].len \in 1 .. Cap
  BY <1>1 DEF Used, HeaderOK
<1>3. \A k \in 1 .. disk[1].len : disk[k] \in Sector
  BY <1>2 DEF Types
<1>4. Announced \in [1 .. disk[1].len -> Sector]
  BY <1>3 DEF Announced
<1>5. Announced \in Seq(Sector) /\ Len(Announced) = disk[1].len
  BY <1>2, <1>4 DEF Announced
<1> QED  BY <1>2, <1>5 DEF Announced, OnDisk

\* Loading makes memory what is on the disk.
LEMMA LoadsStep == ASSUME NEW b \in Builds PROVE StoreInv /\ BootLoads(b) => StoreInv'
<1> SUFFICES ASSUME StoreInv, BootLoads(b) PROVE StoreInv'
    OBVIOUS
<1>1. Types /\ Landed /\ HeaderOK(b)
  BY DEF StoreInv, BootLoads
<1>2. /\ UNCHANGED <<disk, off, stage, start, ver, landed>>
      /\ mem' = Announced /\ pc' = "idle" /\ build' = b
  BY DEF BootLoads, ctx
<1>3. /\ Announced \in Seq(Sector) /\ Len(Announced) = disk[1].len
      /\ Len(Announced) \in 1 .. Cap /\ Announced[1] = disk[1]
      /\ OnDisk(Announced) /\ disk[1] # Blank
  BY <1>1, AnnouncedFacts DEF HeaderOK
<1>4. Types'
  BY <1>1, <1>2, <1>3 DEF Types
<1>5. Memory'
  BY <1>2, <1>3 DEF Memory
<1>6. QuietMeansSaved'
  BY <1>2, <1>3 DEF QuietMeansSaved, OnDisk
<1>7. Window' /\ Position'
  BY <1>2 DEF Window, Position, Saving
<1>8. Landed'
  BY <1>1, <1>2, LandedKept
<1> QED  BY <1>4, <1>5, <1>6, <1>7, <1>8 DEF StoreInv

\* The factory contents are whole.
LEMMA FactoryWhole == ASSUME NEW b \in Builds PROVE Whole(Factory(b))
<1>1. FactoryLen \in 1 .. Cap
  BY LengthAssumption
<1> QED  BY <1>1, ContentsWhole DEF Factory

\* A boot that loads nothing saves, or runs on, the factory contents.
LEMMA FactoryStep ==
    ASSUME NEW b \in Builds
    PROVE  StoreInv /\ (BootFresh(b) \/ BootLive(b)) => StoreInv'
<1> SUFFICES ASSUME StoreInv, BootFresh(b) \/ BootLive(b) PROVE StoreInv'
    OBVIOUS
<1>1. Types /\ Landed
  BY DEF StoreInv
<1>2. Whole(mem') /\ build' \in Builds
  BY FactoryWhole DEF BootFresh, BootLive
<1>3. UNCHANGED <<disk, ver, landed>>
  BY DEF BootFresh, BootLive
<1>4. landed' \in Seq(Sector) /\ Landed'
  BY <1>1, <1>3, LandedKept DEF Types
<1>5. disk' \in [1 .. Cap -> Sector] /\ ver' \in Nat \ {0}
  BY <1>1, <1>3 DEF Types
<1>6. CASE BootFresh(b)
  <2>1. StartSave(TRUE, mem') /\ enabled'
    BY <1>6 DEF BootFresh
  <2> QED  BY <2>1, <1>2, <1>4, <1>5, Starts
<1>7. CASE BootLive(b)
  <2>1. pc' = "idle" /\ ~enabled' /\ UNCHANGED <<off, stage, start>>
    BY <1>7 DEF BootLive, ctx
  <2>2. Types'
    BY <2>1, <1>1, <1>2, <1>4, <1>5 DEF Types, Whole
  <2>3. Window' /\ Position' /\ QuietMeansSaved'
    BY <2>1 DEF Window, Position, QuietMeansSaved, Saving
  <2>4. Memory'
    BY <1>2 DEF Memory, Whole
  <2> QED  BY <2>2, <2>3, <2>4, <1>4 DEF StoreInv
<1> QED  BY <1>6, <1>7

\* A step that leaves all but the disk's health alone.
LEMMA QuietStep ==
    StoreInv /\ UNCHANGED <<pc, disk, mem, enabled, ctx, build, ver, landed>>
        => StoreInv'
BY DEF StoreInv, Types, Window, Position, Memory, Landed, QuietMeansSaved, Saving,
       Whole, Uniform, OnDisk, ctx

\* Every step of the system keeps the invariant.
LEMMA StoreStep == StoreInv /\ [Next]_vars => StoreInv'
<1> SUFFICES ASSUME StoreInv, [Next]_vars PROVE StoreInv'
    OBVIOUS
<1>1. CASE SaveStep
  BY <1>1, EmitStep, FlushStep, LastStep, VerifyStep DEF SaveStep
<1>2. CASE \E n \in Lengths : Change(n)
  BY <1>2, ChangeStep
<1>3. CASE Sync
  BY <1>3, SyncStep
<1>4. CASE PowerFails
  BY <1>4, PowerStep
<1>5. CASE DiskDies \/ UNCHANGED vars
  BY <1>5, QuietStep DEF DiskDies, vars
<1>6. CASE \E b \in Builds : BootLoads(b) \/ BootFresh(b) \/ BootLive(b)
  BY <1>6, LoadsStep, FactoryStep
<1> QED  BY <1>1, <1>2, <1>3, <1>4, <1>5, <1>6 DEF Next

\* The invariant holds throughout every behaviour of the store.
THEOREM StoreCorrect == Spec => []StoreInv
BY StoreStart, StoreStep, PTL DEF Spec

\* A save of any length, with batches of any size, that gets as far as reading
\* its header back has the whole image on the disk, whichever of its batches
\* failed, tore and were repeated (store_wr_sink, store_wr_flush).
THEOREM SavesLandWhole == Spec => []LandsWhole
<1>1. StoreInv => LandsWhole
  <2> SUFFICES ASSUME StoreInv, pc = "verify" PROVE OnDisk(mem)
    BY DEF LandsWhole
  <2>1. /\ Types /\ Whole(mem) /\ off = Len(mem) /\ Len(stage) = 0
        /\ \A k \in 1 .. off - Len(stage) : disk[k] = mem[k]
    BY DEF StoreInv, Position, Window, Saving
  <2>2. off \in Nat
    BY <2>1 DEF Types
  <2> QED  BY <2>1, <2>2, StoreAssumption DEF OnDisk, Whole
<1> QED  BY <1>1, StoreCorrect, PTL

\* When store_autosave returns with persistence on and no failure recorded,
\* and after store_init has loaded an image, disk and memory agree.
THEOREM QuietIsSaved == Spec => []QuietMeansSaved
<1>1. StoreInv => QuietMeansSaved
  BY DEF StoreInv
<1> QED  BY <1>1, StoreCorrect, PTL

\* With store_enabled off, no step writes to the region.
THEOREM OffNeverWrites == Spec => OffMeansOff
<1>1. StoreInv /\ [Next]_vars => [~enabled /\ pc # "off" => disk' = disk]_vars
  <2> SUFFICES ASSUME StoreInv, Next, ~enabled, pc # "off" PROVE disk' = disk
    BY DEF vars
  <2>1. pc \notin Saving
    BY DEF StoreInv, Window
  <2>2. ~SaveStep
    BY <2>1 DEF SaveStep, Emit, Flush, Last, Verify, Saving
  <2>3. PowerFails => disk' = disk
    BY <2>1 DEF PowerFails, Saving
  <2> QED  BY <2>2, <2>3 DEF Next, Change, Sync, DiskDies, BootLoads, BootFresh, BootLive
<1> QED  BY <1>1, StoreCorrect, PTL DEF Spec, OffMeansOff

\* The image that the header announces is the one that landed.
LEMMA LandedAnnounced ==
    ASSUME StoreInv, landed # <<>>
    PROVE  Announced = landed /\ HeaderOK(landed[1].build) /\ Uniform(Announced)
<1> USE StoreAssumption
<1>1. Whole(landed) /\ OnDisk(landed)
  BY DEF StoreInv, Landed
<1>2. /\ landed \in Seq(Sector) /\ Len(landed) \in 1 .. Cap
      /\ landed[1] # Blank /\ landed[1].len = Len(landed) /\ Uniform(landed)
  BY <1>1 DEF Whole
<1>3. \A k \in 1 .. Len(landed) : disk[k] = landed[k]
  BY <1>1 DEF OnDisk
<1>4. disk[1] = landed[1]
  BY <1>2, <1>3
<1>5. landed = [k \in 1 .. Len(landed) |-> landed[k]]
  BY <1>2
<1>6. Announced = [k \in 1 .. Len(landed) |-> disk[k]]
  BY <1>2, <1>4 DEF Announced
<1>7. Announced = landed
  BY <1>3, <1>5, <1>6
<1> QED  BY <1>2, <1>4, <1>7 DEF HeaderOK

Counts == /\ faults \in 0 .. MaxFaults /\ ver \in 1 .. MaxVer
          /\ enabled \in BOOLEAN /\ failed \in BOOLEAN

\* Failed transfers and contents are counted, within their bounds.
LEMMA Counted == Spec => []Counts
<1> USE StoreAssumption
<1>1. Init => Counts
  <2>1. Init => faults \in 0 .. MaxFaults /\ ver \in 1 .. MaxVer
    BY DEF Init
  <2>2. Init => enabled \in BOOLEAN /\ failed \in BOOLEAN
    BY Zenon DEF Init
  <2> QED  BY <2>1, <2>2 DEF Counts
<1>2. Counts /\ [Next]_vars => Counts'
  <2> SUFFICES ASSUME Counts, [Next]_vars PROVE Counts'
    OBVIOUS
  <2>1. ASSUME UNCHANGED hw PROVE faults' \in 0 .. MaxFaults
    BY <2>1 DEF hw, Counts
  <2>2. ASSUME Faults PROVE faults' \in 0 .. MaxFaults
    BY <2>2 DEF Faults, hw, Counts
  <2>3. ASSUME Works PROVE faults' \in 0 .. MaxFaults
    BY <2>1, <2>3 DEF Works
  <2>4. ASSUME FlushWorks \/ FlushFails
        PROVE  faults' \in 0 .. MaxFaults /\ failed' \in BOOLEAN
    BY <2>2, <2>3, <2>4 DEF FlushWorks, FlushFails, Counts
  <2>5. ASSUME faults' \in 0 .. MaxFaults, failed' \in BOOLEAN, UNCHANGED <<enabled, ver>>
        PROVE  Counts'
    BY <2>5 DEF Counts
  <2>6. CASE SaveStep
    <3>1. CASE Emit
      BY <3>1, <2>1, <2>5 DEF Emit, Counts
    <3>2. CASE Flush
      BY <3>2, <2>4, <2>5 DEF Flush
    <3>3. CASE Last
      <4>1. FlushWorks \/ FlushFails \/ (UNCHANGED hw /\ failed' = failed)
        BY <3>3 DEF Last, hw
      <4>2. UNCHANGED <<enabled, ver>>
        BY <3>3 DEF Last
      <4>3. faults' \in 0 .. MaxFaults /\ failed' \in BOOLEAN
        BY <4>1, <2>1, <2>4 DEF Counts
      <4> QED  BY <4>2, <4>3, <2>5
    <3>4. CASE Verify
      <4>1. faults' \in 0 .. MaxFaults
        BY <3>4, <2>2, <2>3 DEF Verify
      <4>2. failed' = failed /\ ver' = ver /\ enabled' \in BOOLEAN
        BY <3>4 DEF Verify, ctx
      <4> QED  BY <4>1, <4>2 DEF Counts
    <3> QED  BY <2>6, <3>1, <3>2, <3>3, <3>4 DEF SaveStep
  <2>7. CASE \E n \in Lengths : Change(n)
    <3>1. ver' \in 1 .. MaxVer /\ UNCHANGED hw /\ enabled' = enabled
      BY <2>7 DEF Change, Counts
    <3>2. failed' \in BOOLEAN
      BY <2>7, Zenon DEF Change, StartSave
    <3> QED  BY <2>1, <3>1, <3>2 DEF Counts
  <2>8. CASE Sync
    <3>1. ver' \in 1 .. MaxVer /\ UNCHANGED hw /\ enabled' = enabled
      BY <2>8 DEF Sync, Counts
    <3>2. failed' \in BOOLEAN
      BY <2>8, Zenon DEF Sync, StartSave
    <3> QED  BY <2>1, <3>1, <3>2 DEF Counts
  <2>9. CASE PowerFails
    BY <2>9, <2>1 DEF PowerFails, Counts
  <2>10. CASE DiskDies
    BY <2>10 DEF DiskDies, ctx, Counts
  <2>11. ASSUME NEW b \in Builds, BootLoads(b) PROVE Counts'
    BY <2>11, <2>3 DEF BootLoads, ctx, Counts
  <2>12. ASSUME NEW b \in Builds, BootFresh(b) PROVE Counts'
    BY <2>12, <2>2, <2>3 DEF BootFresh, StartSave, Counts
  <2>13. ASSUME NEW b \in Builds, BootLive(b) PROVE Counts'
    BY <2>13, <2>1 DEF BootLive, ctx, Counts
  <2>14. CASE UNCHANGED vars
    BY <2>14 DEF vars, ctx, hw, Counts
  <2> QED  BY <2>6, <2>7, <2>8, <2>9, <2>10, <2>11, <2>12, <2>13, <2>14 DEF Next
<1> QED  BY <1>1, <1>2, PTL DEF Spec

\* The stage and the offsets of the writer, also between saves: the stage of a
\* save that failed keeps what it holds until the next one starts.
Room == /\ off <= Len(mem) /\ start + Len(stage) <= Cap /\ Len(stage) <= STAGE
        /\ pc = "sink" => Len(stage) < STAGE
        /\ pc = "off" => off = 0

LEMMA RoomStep == StoreInv /\ Room /\ [Next]_vars => Room'
<1> SUFFICES ASSUME StoreInv, Room, [Next]_vars PROVE Room'
  OBVIOUS
<1> USE StoreAssumption
<1>1. /\ off \in Nat /\ start \in Nat /\ Len(stage) \in Nat /\ Len(mem) \in Nat
      /\ stage \in Seq(Sector) /\ mem \in Seq(Sector)
  BY DEF StoreInv, Types
<1>2. pc \in Saving => /\ Len(mem) <= Cap /\ off <= Len(mem)
                       /\ Len(stage) > 0 => start = off - Len(stage)
  BY DEF StoreInv, Window, Whole
<1>3. Len(<<>>) = 0
  OBVIOUS
<1>4. stage = <<>> <=> Len(stage) = 0
  BY <1>1
<1>5. StoreInv'
  BY StoreStep
<1>6. Len(mem') \in Nat
  BY <1>5 DEF StoreInv, Types
<1>7. CASE off' = 0 /\ stage' = <<>> /\ start' = 0
  BY <1>3, <1>6, <1>7 DEF Room
<1>8. CASE Emit
  <2>1. /\ pc = "sink" /\ off' = off + 1 /\ mem' = mem
        /\ start' = IF stage = <<>> THEN off ELSE start
        /\ pc' = IF Len(stage') = STAGE THEN "flush"
                 ELSE IF off' = Len(mem) THEN "last" ELSE "sink"
    BY <1>8 DEF Emit
  <2>2. off < Len(mem)
    BY <2>1 DEF StoreInv, Position
  <2>3. Len(stage') = Len(stage) + 1
    <3>1. mem[off + 1] \in Sector
      BY <1>1, <2>2
    <3>2. stage' = Append(stage, mem[off + 1])
      BY <1>8 DEF Emit
    <3> QED  BY <1>1, <3>1, <3>2
  <2>4. Len(stage) < STAGE /\ pc \in Saving
    BY <2>1 DEF Room, Saving
  <2>5. start' + Len(stage') <= Cap
    <3>1. CASE Len(stage) = 0
      BY <1>1, <1>2, <1>4, <2>1, <2>2, <2>3, <2>4, <3>1
    <3>2. CASE Len(stage) > 0
      <4>1. start' = off - Len(stage)
        BY <1>1, <1>2, <1>4, <2>1, <2>4, <3>2
      <4> QED  BY <1>1, <1>2, <2>2, <2>3, <2>4, <4>1
    <3> QED  BY <1>1, <3>1, <3>2
  <2>6. Len(stage') <= STAGE /\ (pc' = "sink" => Len(stage') < STAGE) /\ pc' # "off"
    BY <1>1, <2>1, <2>3, <2>4
  <2>7. off' <= Len(mem')
    BY <1>1, <2>1, <2>2
  <2> QED  BY <2>5, <2>6, <2>7 DEF Room
<1>9. CASE Flush \/ Last
  <2>1. stage' = stage \/ stage' = <<>>
    BY <1>9 DEF Flush, Last, FlushWorks, FlushFails
  <2>2. off' = off /\ start' = start /\ mem' = mem
    BY <1>9 DEF Flush, Last
  <2>3. pc' = "sink" => stage' = <<>>
    BY <1>9 DEF Flush, Last, FlushWorks, FlushFails
  <2>4. pc' # "off"
    BY <1>9 DEF Flush, Last
  <2> QED  BY <1>1, <1>3, <2>1, <2>2, <2>3, <2>4 DEF Room
<1>10. CASE Verify \/ DiskDies \/ UNCHANGED vars
  <2>1. /\ off' = off /\ start' = start /\ stage' = stage /\ mem' = mem
        /\ pc' = pc \/ pc' = "idle"
    BY <1>10 DEF Verify, DiskDies, vars, ctx
  <2> QED  BY <2>1 DEF Room
<1>11. CASE Sync \/ PowerFails \/ (\E n \in Lengths : Change(n))
            \/ \E b \in Builds : BootFresh(b)
  BY <1>7, <1>11 DEF Sync, PowerFails, Change, BootFresh, StartSave
<1>12. CASE \E b \in Builds : BootLoads(b) \/ BootLive(b)
  <2>1. /\ pc = "off" /\ off' = off /\ start' = start /\ stage' = stage
        /\ pc' = "idle"
    BY <1>12 DEF BootLoads, BootLive, ctx
  <2> QED  BY <1>6, <2>1 DEF Room
<1> QED  BY <1>8, <1>9, <1>10, <1>11, <1>12 DEF Next, SaveStep

\* The writer's offset stays inside the image, its stage inside the buffer
\* and inside the region, whatever fails, and the counters in their bounds.
THEOREM StoreTyped == Spec => []StoreTypeOK
<1>1. Init => Room
  BY StoreAssumption DEF Init, Room
<1>2. StoreInv /\ Counts /\ Room => StoreTypeOK
  <2> SUFFICES ASSUME StoreInv, Counts, Room PROVE StoreTypeOK
    OBVIOUS
  <2>1. off \in 0 .. Len(mem)
    BY DEF StoreInv, Types, Room
  <2>2. pc \in {"off", "idle", "sink", "flush", "last", "verify"}
    BY DEF StoreInv, Types, Saving
  <2> QED  BY <2>1, <2>2 DEF Counts, Room, StoreTypeOK
<1> QED  BY <1>1, <1>2, RoomStep, StoreCorrect, Counted, PTL DEF Spec

\* With an image of its own build that landed whole, and a disk that works,
\* store_init loads exactly that image, whatever happened since it landed.
THEOREM BootsRestore == Spec => BootRestores
<1> DEFINE Restores == pc = "off" /\ landed # <<>> /\ enabled' /\ hw' = hw /\ ~dead
                         /\ landed[1].build = build'
                            => mem' = landed
<1>1. StoreInv /\ Counts /\ [Next]_vars => [Restores]_vars
  <2> SUFFICES ASSUME StoreInv, Counts, Next,
                      pc = "off", landed # <<>>, enabled', hw' = hw, ~dead,
                      landed[1].build = build'
               PROVE  mem' = landed
    BY DEF vars
  <2>1. Announced = landed /\ HeaderOK(build') /\ Uniform(Announced)
    BY LandedAnnounced
  <2>2. ~Faults
    BY DEF Faults, hw, Counts
  <2>3. ASSUME NEW b \in Builds, BootLoads(b) PROVE mem' = landed
    BY <2>1, <2>3 DEF BootLoads
  <2>4. ASSUME NEW b \in Builds, BootFresh(b) PROVE FALSE
    BY <2>1, <2>2, <2>4 DEF BootFresh
  <2>5. ASSUME NEW b \in Builds, BootLive(b) PROVE FALSE
    BY <2>5 DEF BootLive
  <2>6. ~DiskDies
    <3>1. dead' = dead
      BY DEF hw
    <3> QED  BY <3>1, Zenon DEF DiskDies
  <2>7. ~SaveStep /\ ~Sync /\ ~PowerFails /\ \A n \in Lengths : ~Change(n)
    BY DEF SaveStep, Emit, Flush, Last, Verify, Sync, PowerFails, Change
  <2> QED  BY <2>3, <2>4, <2>5, <2>6, <2>7 DEF Next
<1> QED  BY <1>1, StoreCorrect, Counted, PTL DEF Spec, BootRestores

---------------------------------------------------------------------------
(***************************************************************************)
(* Where the region is: no save reaches the boot image or the reserved     *)
(* tail, for every disk, every size of the region and every width of       *)
(* store_lba.                                                              *)
(***************************************************************************)

\* Cutting a sector number down to the width of store_lba never moves it
\* towards the end of the disk.
LEMMA ModSmaller == \A x \in Nat, w \in Nat \ {0} : x % w \in Nat /\ x % w <= x
<1> SUFFICES ASSUME NEW x \in Nat, NEW w \in Nat \ {0}
             PROVE  x % w \in Nat /\ x % w <= x
    OBVIOUS
<1>1. x % w \in 0 .. w - 1
  BY SMT
<1>2. CASE x < w
  <2>1. x % w = x
    BY <1>2, SMT
  <2> QED  BY <2>1
<1>3. CASE x >= w
  BY <1>1, <1>3
<1> QED  BY <1>2, <1>3

\* What makes WritesConfined inductive: from Place on, the region and the
\* tail behind it end within the disk.
LayoutInv ==
    /\ LayoutTypeOK
    /\ boot \in {"placed", "ready"} => store_lba + Capacity + Reserved <= disk_sectors
    /\ boot = "ready" => Front <= store_lba
    /\ WritesConfined

\* The region stays clear of the boot image and of the tail at every stage of
\* store_init and of the saves that follow.
THEOREM LayoutCorrect == LayoutSpec => []LayoutInv
<1>1. LayoutInit => LayoutInv
  BY LayoutAssumption DEF LayoutInit, LayoutInv, LayoutTypeOK, WritesConfined
<1>2. LayoutInv /\ [LayoutNext]_layout_vars => LayoutInv'
  <2> SUFFICES ASSUME LayoutInv, [LayoutNext]_layout_vars
               PROVE  LayoutInv'
    OBVIOUS
  <2> USE LayoutAssumption
  <2>1. CASE Place
    <3> DEFINE x == disk_sectors - Capacity - Reserved
    <3>1. x \in Nat
      BY <2>1 DEF Place, LayoutInv, LayoutTypeOK
    <3>2. x % Wrap \in Nat /\ x % Wrap <= x
      BY <3>1, ModSmaller
    <3>3. store_lba' = x % Wrap /\ boot' = "placed" /\ write' = write
          /\ disk_sectors' = disk_sectors
      BY <2>1 DEF Place
    <3>4. store_lba' \in Nat /\ store_lba' + Capacity + Reserved <= disk_sectors
      BY <3>1, <3>2, <3>3 DEF LayoutInv, LayoutTypeOK
    <3> QED  BY <3>3, <3>4 DEF LayoutInv, LayoutTypeOK, WritesConfined
  <2>2. CASE Panic
    BY <2>2 DEF Panic, LayoutInv, LayoutTypeOK, WritesConfined
  <2>3. CASE Accept
    BY <2>3 DEF Accept, LayoutInv, LayoutTypeOK, WritesConfined
  <2>4. CASE Batch
    <3>0. PICK o \in 0 .. Capacity - 1 : \E count \in 1 .. Capacity - o :
                 write' = <<store_lba + o, count>>
      BY <2>4 DEF Batch
    <3>1. PICK count \in 1 .. Capacity - o : write' = <<store_lba + o, count>>
      BY <3>0
    <3> QED  BY <2>4, <3>1 DEF Batch, LayoutInv, LayoutTypeOK, WritesConfined
  <2>5. CASE UNCHANGED layout_vars
    BY <2>5 DEF layout_vars, LayoutInv, LayoutTypeOK, WritesConfined
  <2> QED  BY <2>1, <2>2, <2>3, <2>4, <2>5 DEF LayoutNext
<1> QED  BY <1>1, <1>2, PTL DEF LayoutSpec

\* No batch of any save touches the boot image in front of the region or the
\* tail behind it.
THEOREM SavesConfined == LayoutSpec => []WritesConfined
<1>1. LayoutInv => WritesConfined
  BY DEF LayoutInv
<1> QED  BY <1>1, LayoutCorrect, PTL

\* Every batch of an image that fits the region lies on the disk, so
\* store_backend_write never refuses one.
THEOREM SavesFit == LayoutSpec => []RegionFits
<1>1. LayoutInv => RegionFits
  BY LayoutAssumption DEF LayoutInv, LayoutTypeOK, RegionFits
<1> QED  BY <1>1, LayoutCorrect, PTL
=============================================================================

------------------------------- MODULE Store -------------------------------
(***************************************************************************)
(* The Storefile of kernel/store.c: the image of the file system and of    *)
(* the configuration that store_autosave streams to disk after a change,   *)
(* in place, in batches of STAGE sectors, and that store_init reads back.  *)
(* Sectors may fail to be written or read, and the power may fail between  *)
(* any two of them.                                                        *)
(*                                                                         *)
(* An image is a sequence of sectors.  A sector records which contents it  *)
(* is a part of, which part, and how long and by which build those were    *)
(* saved: of these the code reads the last two, in the header.  Offsets    *)
(* count sectors, the unit of a transfer; the pieces in which the          *)
(* serializers emit one are taken together.                                *)
(***************************************************************************)
EXTENDS Integers, Sequences

CONSTANTS Cap,         \* store_capacity_sectors
          STAGE,       \* STORE_STAGE_BYTES, in sectors
          Lengths,     \* lengths of an image, in sectors
          FactoryLen,  \* length of the image of the factory contents
          Builds,      \* build ids of the kernels that are booted
          MaxVer,      \* bound: contents the system goes through
          MaxFaults    \* bound: transfers that fail on a good disk

ASSUME StoreAssumption == /\ Cap \in Nat \ {0} /\ STAGE \in Nat \ {0}
                          /\ MaxVer \in Nat \ {0} /\ MaxFaults \in Nat
                          /\ 0 \notin Builds

\* fs_store_size and config_store_size, which the region is sized by, bound
\* every image.
ASSUME LengthAssumption == Lengths \cup {FactoryLen} \subseteq 1 .. Cap

VARIABLES pc,          \* "off", "idle", or where store_autosave is
          disk,        \* the sectors of the Storefile region
          mem,         \* what is in memory, as the image it serializes to
          enabled,     \* store_enabled
          off,         \* store_wr_ctx.img_off
          stage,       \* store_stage, as much of it as is staged
          start,       \* store_wr_ctx.start_off
          failed,      \* store_wr_ctx.failed
          build,       \* TANJA_BUILD_ID of the running kernel
          ver,         \* contents made so far
          faults,      \* transfers that have failed
          dead,        \* every transfer fails from now on
          landed       \* history: the image known to be whole on disk, or <<>>

ctx == <<off, stage, start, failed>>
hw == <<faults, dead>>
vars == <<pc, disk, mem, enabled, ctx, build, ver, hw, landed>>

Blank == [ver |-> 0, part |-> 0, len |-> 0, build |-> 0]

\* Contents v, serialized to n sectors by build b.
Contents(v, n, b) ==
    [k \in 1 .. n |-> [ver |-> v, part |-> k, len |-> n, build |-> b]]

\* The sectors belong together.
Uniform(img) == \A k \in 1 .. Len(img) : /\ img[k].ver = img[1].ver
                                          /\ img[k].build = img[1].build

OnDisk(img) == Len(img) <= Cap /\ \A k \in 1 .. Len(img) : disk[k] = img[k]

---------------------------------------------------------------------------
(***************************************************************************)
(* Transfers.  A write that fails, or that the power interrupts, may have  *)
(* reached the disk up to any sector.                                      *)
(***************************************************************************)
Written(n) == [k \in 1 .. Cap |->
                  IF k - start \in 1 .. n THEN stage[k - start] ELSE disk[k]]

\* History: a change to the disk spoils what was known to be whole.
Touch == landed' = IF disk' = disk THEN landed ELSE <<>>

Works == ~dead /\ UNCHANGED hw
Faults == \/ dead /\ UNCHANGED hw
          \/ ~dead /\ faults < MaxFaults /\ faults' = faults + 1 /\ dead' = dead

\* store_wr_flush on a stage that is not empty.
FlushWorks == Works /\ disk' = Written(Len(stage)) /\ stage' = <<>> /\ failed' = failed

\* Mutants of FlushFails: the stage is given up; the failure is not recorded.
FlushForgets == /\ Faults /\ failed' = failed /\ stage' = <<>>
                /\ \E n \in 0 .. Len(stage) : disk' = Written(n)
FlushSilent == /\ Faults /\ failed' = failed /\ stage' = stage
               /\ \E n \in 0 .. Len(stage) : disk' = Written(n)

FlushFails == /\ Faults /\ failed' = TRUE /\ stage' = stage
              /\ \E n \in 0 .. Len(stage) : disk' = Written(n)

---------------------------------------------------------------------------
(***************************************************************************)
(* store_autosave.                                                         *)
(***************************************************************************)

\* Mutant of StartSave: it does not ask whether persistence is on.
StartAnyway(on, img) ==
    /\ pc' = IF Len(img) <= Cap THEN "sink" ELSE "idle"
    /\ off' = 0 /\ stage' = <<>> /\ start' = 0 /\ failed' = FALSE

\* Its first lines: return unless persistence is on and the image fits.
StartSave(on, img) ==
    /\ pc' = IF on /\ Len(img) <= Cap THEN "sink" ELSE "idle"
    /\ off' = 0 /\ stage' = <<>> /\ start' = 0 /\ failed' = FALSE

\* Mutants of Emit: img_off stays behind; the stage is flushed one sector late.
EmitInPlace == /\ pc = "sink"
               /\ start' = IF stage = <<>> THEN off ELSE start
               /\ stage' = Append(stage, mem[off + 1])
               /\ off' = off
               /\ pc' = IF Len(stage') = STAGE THEN "flush" ELSE "sink"
               /\ UNCHANGED <<disk, mem, enabled, failed, build, ver, hw, landed>>
EmitTooMuch == /\ pc = "sink"
               /\ start' = IF stage = <<>> THEN off ELSE start
               /\ stage' = Append(stage, mem[off + 1])
               /\ off' = off + 1
               /\ pc' = IF Len(stage') > STAGE THEN "flush"
                        ELSE IF off' = Len(mem) THEN "last" ELSE "sink"
               /\ UNCHANGED <<disk, mem, enabled, failed, build, ver, hw, landed>>

\* The next sector reaches store_wr_sink.
Emit == /\ pc = "sink"
        /\ start' = IF stage = <<>> THEN off ELSE start
        /\ stage' = Append(stage, mem[off + 1])
        /\ off' = off + 1
        /\ pc' = IF Len(stage') = STAGE THEN "flush"
                 ELSE IF off' = Len(mem) THEN "last" ELSE "sink"
        /\ UNCHANGED <<disk, mem, enabled, failed, build, ver, hw, landed>>

\* store_wr_sink flushes a full stage.  Its loop only moves on once the stage
\* has room again, so with more to come a flush that fails is repeated.
Flush == /\ pc = "flush"
         /\ \/ FlushWorks /\ pc' = IF off = Len(mem) THEN "last" ELSE "sink"
            \/ FlushFails /\ pc' = IF off = Len(mem) THEN "last" ELSE "flush"
         /\ Touch
         /\ UNCHANGED <<mem, enabled, off, start, build, ver>>

\* The flush at the end.  A failure at any time, repaired or not, makes
\* store_autosave return here.
Last == /\ pc = "last"
        /\ \/ /\ stage = <<>>
              /\ pc' = IF failed THEN "idle" ELSE "verify"
              /\ UNCHANGED <<disk, stage, failed, hw>>
           \/ /\ stage # <<>>
              /\ FlushWorks
              /\ pc' = IF failed THEN "idle" ELSE "verify"
           \/ /\ stage # <<>>
              /\ FlushFails
              /\ pc' = "idle"
        /\ Touch
        /\ UNCHANGED <<mem, enabled, off, start, build, ver>>

\* Persistence is off unless the header can be read back and is the new one.
Verify == /\ pc = "verify"
          /\ \/ Works /\ enabled' = (disk[1].len = Len(mem))
             \/ Faults /\ enabled' = FALSE
          /\ landed' = mem
          /\ pc' = "idle"
          /\ UNCHANGED <<disk, mem, ctx, build, ver>>

SaveStep == Emit \/ Flush \/ Last \/ Verify

---------------------------------------------------------------------------
(***************************************************************************)
(* What starts a save.                                                     *)
(***************************************************************************)

\* A command changes the file system or the configuration.
Change(n) == /\ pc = "idle" /\ ver < MaxVer
             /\ ver' = ver + 1
             /\ mem' = Contents(ver', n, build)
             /\ StartSave(enabled, mem')
             /\ UNCHANGED <<disk, enabled, build, hw, landed>>

\* sync, or a command that ends in store_save.  What was loaded from parts of
\* several images is serialized as contents of its own.
Sync == /\ pc = "idle" /\ enabled
        /\ \/ Uniform(mem) /\ UNCHANGED <<mem, ver>>
           \/ /\ ~Uniform(mem) /\ ver < MaxVer
              /\ ver' = ver + 1
              /\ mem' = Contents(ver', Len(mem), build)
        /\ StartSave(TRUE, mem')
        /\ UNCHANGED <<disk, enabled, build, hw, landed>>

---------------------------------------------------------------------------
(***************************************************************************)
(* Power and store_init.                                                   *)
(***************************************************************************)
PowerFails ==
    /\ pc # "off"
    /\ IF pc \in {"flush", "last"}
       THEN \E n \in 0 .. Len(stage) : disk' = Written(n)
       ELSE disk' = disk
    /\ Touch
    /\ pc' = "off" /\ mem' = <<>> /\ enabled' = FALSE
    /\ off' = 0 /\ stage' = <<>> /\ start' = 0 /\ failed' = FALSE
    /\ UNCHANGED <<build, ver, hw>>

\* Mutant of HeaderOK: an image that fills the region is refused.
HeaderTooStrict(b) == disk[1] # Blank /\ disk[1].build = b /\ disk[1].len < Cap

\* store_header_valid_at, store_header_matches_build_at and the length test.
HeaderOK(b) == disk[1] # Blank /\ disk[1].build = b /\ disk[1].len <= Cap

\* The image that the header announces.
Announced == [k \in 1 .. disk[1].len |-> disk[k]]

BootLoads(b) == /\ pc = "off"
                /\ build' = b
                /\ Works /\ HeaderOK(b)
                /\ mem' = Announced
                /\ enabled' = TRUE
                /\ pc' = "idle"
                /\ UNCHANGED <<disk, ctx, ver, landed>>

\* fs_init and fs_seed_home, and the boot module where there is one: contents
\* that only depend on what is booted.
Factory(b) == Contents(1, FactoryLen, b)

\* No header, another build, a sector that cannot be read, or parts that do
\* not make up an image: there is no checksum, so parts of several images may
\* be refused or not.  The factory contents are saved over what was there.
BootFresh(b) == /\ pc = "off"
                /\ build' = b
                /\ \/ Faults
                   \/ Works /\ ~HeaderOK(b)
                   \/ Works /\ HeaderOK(b) /\ ~Uniform(Announced)
                /\ mem' = Factory(b)
                /\ enabled' = TRUE
                /\ StartSave(TRUE, mem')
                /\ UNCHANGED <<disk, ver, landed>>

\* A live session, or no disk: the factory contents, in memory only.
BootLive(b) == /\ pc = "off"
               /\ build' = b
               /\ mem' = Factory(b)
               /\ enabled' = FALSE
               /\ pc' = "idle"
               /\ UNCHANGED <<disk, ctx, ver, hw, landed>>

DiskDies == /\ ~dead /\ dead' = TRUE
            /\ UNCHANGED <<pc, disk, mem, enabled, ctx, build, ver, faults, landed>>

Init == /\ pc = "off"
        /\ disk = [k \in 1 .. Cap |-> Blank]
        /\ mem = <<>> /\ enabled = FALSE
        /\ off = 0 /\ stage = <<>> /\ start = 0 /\ failed = FALSE
        /\ build \in Builds
        /\ ver = 1
        /\ faults = 0 /\ dead = FALSE
        /\ landed = <<>>

Next == \/ SaveStep
        \/ \E n \in Lengths : Change(n)
        \/ Sync
        \/ PowerFails \/ DiskDies
        \/ \E b \in Builds : BootLoads(b) \/ BootFresh(b) \/ BootLive(b)

\* The kernel keeps executing a save that it has started: nothing preempts it
\* but the power.
Spec == Init /\ [][Next]_vars /\ WF_vars(SaveStep)

---------------------------------------------------------------------------
(***************************************************************************)
(* Properties.                                                             *)
(***************************************************************************)

\* The streaming writer keeps its window within the image and the region.
StoreTypeOK ==
    /\ pc \in {"off", "idle", "sink", "flush", "last", "verify"}
    /\ off \in 0 .. Len(mem) /\ start + Len(stage) <= Cap
    /\ Len(stage) <= STAGE
    /\ enabled \in BOOLEAN /\ failed \in BOOLEAN
    /\ faults \in 0 .. MaxFaults /\ ver \in 1 .. MaxVer

\* A save that gets as far as reading its header back has every sector of its
\* image on the disk, whichever batches failed, tore and were repeated.
LandsWhole == pc = "verify" => OnDisk(mem)

\* Once idle with persistence on and no failure recorded, disk and memory
\* agree, also after a restart.
QuietMeansSaved == pc = "idle" /\ enabled /\ ~failed => OnDisk(mem)

\* store_init finds what the last save left: with an image of its own build
\* that landed whole, and a disk that works, it loads that image.
BootRestores ==
    [][pc = "off" /\ landed # <<>> /\ enabled' /\ hw' = hw /\ ~dead
         /\ landed[1].build = build'
            => mem' = landed]_vars

\* A live session, and one whose persistence was turned off, never writes.
OffMeansOff == [][~enabled /\ pc # "off" => disk' = disk]_vars

\* A save ends, although a batch that fails is repeated, unless the disk has
\* stopped working for good.
SaveEnds == (pc \in {"sink", "flush", "last", "verify"}) ~> (pc \in {"idle", "off"} \/ dead)
=============================================================================

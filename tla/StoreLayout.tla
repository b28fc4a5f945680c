---------------------------- MODULE StoreLayout ----------------------------
(***************************************************************************)
(* Where store_init in kernel/store.c puts the Storefile region on a disk: *)
(* at the end, in front of a reserved tail, and clear of the boot image    *)
(* that the installer wrote to the front without a partition table.  The   *)
(* sector count has 64 bits, store_lba only 32.                            *)
(***************************************************************************)
EXTENDS Integers

CONSTANTS Wrap,        \* 2^32, the width of store_lba
          Capacity,    \* store_capacity_sectors
          Reserved,    \* STORE_RESERVED_TAIL_SECTORS
          Slack,       \* the 32 in the first size test
          Front,       \* STORE_FRONT_RESERVE_SECTORS
          Fallback,    \* STORE_FALLBACK_LBA
          Disks        \* sector counts a disk may report

ASSUME LayoutAssumption ==
    /\ Wrap \in Nat \ {0} /\ Capacity \in Nat \ {0}
    /\ Reserved \in Nat /\ Slack \in Nat /\ Front \in Nat /\ Fallback \in Nat
    /\ Disks \subseteq Nat

VARIABLES disk_sectors, store_lba,
          boot,        \* how far store_init has come
          write        \* the sectors of the last batch written, <<lba, count>>

layout_vars == <<disk_sectors, store_lba, boot, write>>

LayoutInit == /\ disk_sectors \in Disks
              /\ store_lba = Fallback
              /\ boot = "found"
              /\ write = <<0, 0>>

\* Mutants of Place: the tail, or the region itself, is not taken off.
PlaceOverTail == /\ boot = "found"
                 /\ disk_sectors > Capacity + Reserved + Slack
                 /\ store_lba' = (disk_sectors - Capacity) % Wrap
                 /\ boot' = "placed"
                 /\ UNCHANGED <<disk_sectors, write>>
PlaceAtEnd == /\ boot = "found"
              /\ disk_sectors > Capacity + Reserved + Slack
              /\ store_lba' = (disk_sectors - Reserved) % Wrap
              /\ boot' = "placed"
              /\ UNCHANGED <<disk_sectors, write>>

Place == /\ boot = "found"
         /\ disk_sectors > Capacity + Reserved + Slack
         /\ store_lba' = (disk_sectors - Capacity - Reserved) % Wrap
         /\ boot' = "placed"
         /\ UNCHANGED <<disk_sectors, write>>

\* store_panic_disk_too_small: the machine halts.
Panic == /\ \/ boot = "found" /\ disk_sectors <= Capacity + Reserved + Slack
            \/ boot = "placed" /\ store_lba < Front
         /\ boot' = "panic"
         /\ UNCHANGED <<disk_sectors, store_lba, write>>

Accept == /\ boot = "placed" /\ store_lba >= Front
          /\ boot' = "ready"
          /\ UNCHANGED <<disk_sectors, store_lba, write>>

\* One batch of a save: store_autosave stays within Capacity sectors, and
\* store_backend_write refuses what lies past the end of the disk.
Batch == /\ boot = "ready"
         /\ \E o \in 0 .. Capacity - 1 : \E count \in 1 .. Capacity - o :
              /\ store_lba + o + count <= disk_sectors
              /\ write' = <<store_lba + o, count>>
         /\ UNCHANGED <<disk_sectors, store_lba, boot>>

LayoutNext == Place \/ Panic \/ Accept \/ Batch

LayoutSpec == LayoutInit /\ [][LayoutNext]_layout_vars

---------------------------------------------------------------------------
(***************************************************************************)
(* Properties.                                                             *)
(***************************************************************************)
LayoutTypeOK == /\ disk_sectors \in Nat /\ store_lba \in Nat
                /\ boot \in {"found", "placed", "panic", "ready"}
                /\ write \in Nat \X Nat

\* Whatever the size of the disk, and although store_lba wraps on the largest
\* ones, no save touches the boot image in front or the reserved tail.
WritesConfined == write[2] > 0 =>
    /\ Front <= write[1]
    /\ write[1] + write[2] + Reserved <= disk_sectors

\* A region that was accepted is large enough for any save: the bounds check
\* in store_backend_write never refuses a batch.
RegionFits == boot = "ready" => store_lba + Capacity <= disk_sectors
=============================================================================

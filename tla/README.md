# TanjaOS in TLA+

TanjaOS is a 32-bit operating system for PCs: a kernel that keeps the whole
file system in memory and saves it to a reserved region of the disk, loads
commands and programs as ELF objects into its own address space, and has a
polled network stack of its own. There is one processor, no scheduler and no
memory protection: a command runs to its end, and what makes the system
concurrent are the timer interrupt (Ctrl+C, scancodes), the disk and the
network, and the power switch.

This directory holds TLA+ models of its parts, TLC configurations that check
them on small instances, and TLAPS proofs of what matters most for every size.

## The system's parts

| Part | State | Operations | Talks to | What is hard | What makes it correct |
|---|---|---|---|---|---|
| File pool (`fs/fs.c`, `fpool_*`) | block headers in one memory area | init, alloc (first fit), free, coalesce | file contents | split threshold, order of frees, pointers handed out | blocks tile the pool; free space is merged; nothing in use moves; refusal only without room |
| File system (`fs/fs.c`) | two fixed tables keyed by absolute path, contents in the pool, cwd, effective uid, batch depth | create, delete, write, append, preallocate, write at, read, mkdir, rmdir, rm -r, cd, chmod, chown (and recursive), reassign, serialize, load | pool, store, every command | full tables, full pool, one step of several failing, rm -r interrupted, rebuild at boot | a tree without orphans or duplicates; contents and blocks agree; failure loses nothing; permissions hold; what returns is saved |
| Store (`kernel/store.c`) | region on disk, staging window, `store_enabled` | autosave, save, init | file system, configuration, ATA and AHCI drivers | failed and torn transfers, power loss, retries, other builds, 32-bit sector numbers | a save that is taken as done is whole; the next boot loads exactly it; nothing outside the region is written |
| Disk drivers (`ata.c`, `ahci.c`) | controller registers | detect, read, write | store | timeouts, ignored flush result | a transfer that succeeds has happened |
| Keyboard and timer (`kernel.c`) | scancode ring of 64, shift state | timer tick, `ctrlc_poll`, `get_key` | every program | interrupt between ring, status and port, ring at its limit, 0xE0 pairs split | a typed key is not lost; Ctrl+C reaches the program |
| Programs (`elf.c`, `exec.c`, `idt.c`) | program break, jump buffer, script depth | run, exit, fault, nested run, scripts | file system (zero-copy scripts), libc, keyboard | unwinding through nested runs by longjmp | every run restores what it changed |
| Linux programs (`linux.c`) | descriptors, brk, mappings | system calls | file system, libc | descriptor reuse, limits | |
| Accounts and configuration (`kernel.c`) | users, groups, hostname | login, su, sudo, passwd, useradd, userdel | store, file system | uid switched around one command, partial updates | the table is sound and survives a restart; root's rights end with sudo |
| Boot memory sizing (`kernel.c`) | memory map | `boot_size_pools` | pool, libc heap | overlapping ranges, 32-bit overflow | pools disjoint, in usable RAM |
| C library (`libc.c`, `libc2.c`) | heap arena, streams, descriptors | malloc, stdio, open/read/write | file system | limits, stale descriptors | |
| Network (`net.c`, `nic.c`, `tls.c`) | ARP table, one UDP slot, one TCP connection, card rings | poll, resolve, DHCP, DNS, TCP, HTTP download | file system, `pkg` | loss, duplication, reordering, re-entrant polling, resume | bytes delivered once and in order; a download is the server's file |
| Commands (`bin/`) | none | argument parsing over the calls above | | | |

TinyCC, BearSSL, Doom and the trust anchors are vendored or generated.

## Modules

| Module | Models |
|---|---|
| `Heap` | what callers need from an allocator: disjoint, unmoved, refused only without room |
| `PoolOps` | the pool's operations as operators on its headers |
| `FilePool` | the pool as a state machine; refines `Heap` |
| `FileSystem` | the two tables, contents, permissions, rm -r step by step, the saved image, Ctrl+C, restart; built on `PoolOps` |
| `StoreLayout` | where `store_init` puts the region, with a 32-bit `store_lba` |
| `Store` | `store_autosave` sector by sector, failures, power loss, `store_init` |
| `ByteStream` | what the code above TCP relies on: bytes in order, once, unaltered, the end only after the last |
| `Tcp` | the TCP client between a lossy network and its callers; refines `ByteStream` |
| `NetConfig` | the ARP table, `arp_resolve`, DHCP over the one UDP slot, link watch, static configuration |
| `Download` | `pkg install` and `remove` over `net_http_save`, on connections as `ByteStream` promises them |
| `Keyboard` | scancodes between the port, the timer's ring and `get_key` |
| `Programs` | programs, Linux programs and scripts inside each other and the ways out of them; extends `Keyboard` |
| `Accounts` | the accounts, their image and loader, setup, login, su, sudo and the user commands |
| `MC*` | the same modules with the constants TLC needs |
| `FilePoolProofs`, `FileSystemProofs`, `StoreProofs`, `TcpProofs`, `NetConfigProofs`, `DownloadProofs`, `ProgramsProofs`, `AccountsProofs` | theorems and proofs about the modules they are named after; `FileSystemProofs` uses the lemmas about the pool, `StoreProofs` has those of `StoreLayout`, `ProgramsProofs` those of `Keyboard` |

`PROJECT.json` maps every definition to the source lines it stands for.
Definitions whose comment begins with "Mutant of" are deliberate mistakes: each
replaces the definition it names, and the run must then find the property
violated. They are no part of any specification.

### FilePool

`blocks` is a function from the offsets that hold a header to the header. A
C pointer is an offset, 0 is NULL. `fpool_coalesce` is one pass over the pool
in the code; the model says what the pass leaves: each free block that no free
block precedes, extended to the next block in use. `Alloc`, `AllocFails` and
`Free` are the calls. `fs_set_pool` rounds the size to 16, and the model
assumes that.

### FileSystem

`files` and `dirs` are the tables, one record for the parallel arrays. A path
is the sequence of its components, as `abs_path` leaves it. `Fail` is an early
return; each action lists the returns of its function in their order, with the
result code and `fs_errno`. The recursion of `fs_delete_directory_recursive`
is unfolded: `stack` holds one activation per recursive call with the entries
it has listed and not yet deleted, and `RmDir`, `RmFile` and `RmSelf` are the
iterations of its loop, so that Ctrl+C (`CtrlC`) and power loss (`Reboot`) fall
between them. All other calls are one step; nothing else runs inside them but
the timer.

`disk` is what a restart would load. A commit replaces it (`Committed`,
`Leave`, `store_save`); how a commit reaches the sectors is `Store`'s matter.

Abstractions: a free slot has one canonical form; group bits, which the code
stores and never tests, are left out; a recursive chmod or chown that succeeds
returns 0 rather than its count; names are as short as the tables allow, so
that paths cut off at 255 characters and directory listings cut off at 16 KiB
do not occur.

### Store

A sector is the record of the contents it belongs to, its number, and the
length and build in their header. `mem` is the image that memory serializes
to. `Emit` and `Flush` are the sink's loop, `Last` the final flush, `Verify`
the header check. A transfer that fails, or that the power interrupts, may have
written any prefix. `DiskDies` makes every later transfer fail. `BootLoads`,
`BootFresh` and `BootLive` are the ways through `store_init`; a mixture of two
images may be accepted or refused, since nothing in the format tells.
`landed` is a history variable: the image last known to be whole on disk.

### StoreLayout

Sector numbers are natural numbers, `store_lba` is taken modulo `Wrap`. Sizes
are constants, so that the proofs hold for the real ones.

### Tcp and ByteStream

`Tcp` keeps the fields of `tc` under their names. `call` is the call in
progress with its locals: the callers poll the network inside their waits, so
packets come between any two steps of a call and at no other time
(`Polling`). `SegmentIn` is `tcp_in` for an established connection: the
acknowledgement, the bytes taken from a segment in order or overlapping, the
FIN, the answer. The peer may at any time present any piece of its stream with
any acknowledgement it ever gave, which covers loss, repetition, reordering and
repacketisation; in the other direction it takes what `wire` holds in any order
and any number of times. Sequence numbers are taken modulo `W`, and the run
lets both streams cross the wrap. A reset is accepted whatever its number, as
in the code. Assumed: a new connection has another port than the last, and the
peer's segment size is not 0 (`tcp_send` would send empty pieces for ever).

`ByteStream` says the same for the caller: `arrived` and `got` are beginnings
of the streams, a send is confirmed only when all has arrived, the end is
reported only after the last byte.

### NetConfig

An address is named by who gave it. `air` holds every answer the servers have
sent in this exchange; each may be delivered at any time and again, and only
when the slot is empty. A message carries only the options the server states
(`Stated`), and `dhcp_parse` leaves the others as they were. `heard` is a
history variable, what each neighbour last said. The netmask is treated like
the gateway and the name server and left out. DNS uses the same slot and is
not modelled.

### Download

The file is the sequence of its bytes, 0 for a byte that was never written.
`Answer200` and `Answer206` are the header with the part of the body that came
with it, `Chunk` the receive loop, `Retry` the label of that name. A full pool
is a choice (`ok`). `do_install`'s branch for a chmod that fails is left out:
only root can write `/usr/bin`.

### Keyboard and Programs

`ReadRing`, `ReadStatus` and `ReadPort` are the accesses of `next_scancode`, so
that the timer falls between them; reading the port when it is empty returns
the last code again, as the controller does. In `Programs` a jump buffer is the
position of its frame in `stack`. `Arm` and `SetJmp` are separate, and so are
`Restore`, `Disarm`, `RunHandler` and `Leave`, because Ctrl+C and faults may
jump between them. `skipped` is a history variable: the calls of `exec_file` a
jump has left. `halted` is a jump through a buffer that was never set; the
machine is then restarted. Every image takes one unit of the region; relocation
is a step that works or fails.

### Accounts

`disk` is the image the store holds, as `config_serialize` writes it; `Reboot`
is the loader. The bounds of names and passwords are left out, as is the
one-user image of old versions. `cmd_usermod` works through its options in the
order of the code, with the return in the middle for a root that is to be
locked. `calls` holds the programs and sudo commands inside each other: a
program may run commands, and Ctrl+C leaves the innermost program with all it
was running. `left` is a history variable: a jump has left a sudo. Commands
that refuse change nothing and are not steps. Home directories are made with
`FileSystem`'s calls.

## Runs

| Run | What it asks | Bounds |
|---|---|---|
| `file_pool` | does the pool stay tiled and merged, never move a block, and implement `Heap` under any sequence of calls | 96 bytes, requests of 1, 6, 13 and 30 bytes: up to eight blocks, tails on both sides of the split threshold, exact fits |
| `file_system_tree` | can any sequence of mkdir, rmdir, writes, rm -r, Ctrl+C and restarts orphan, duplicate or leak anything, in memory or on disk; does rm -r stay in its tree, save once and end | two names, depth two, three directory slots and one file slot, all of which fill up; one leaked batch level |
| `file_system_data` | do contents and blocks agree, and does failure keep data, when pool and table run out | three files, 48 bytes of pool, sizes of 0, 4 and 9 with a limit of 8; names are only compared, hence symmetric |
| `file_system_owner` | does a user change only what mode and owner allow | two users, two modes, a tree of depth two, a length within the limit and one past it, so that writes are rolled back |
| `store` | is a save whole, does a boot restore it, does a save end, with any failures | images of 3, 4 and 5 sectors in batches of 2, three contents, two builds, two failed transfers, a disk that dies, power loss anywhere |
| `store_layout` | do saves stay in the region | every disk size from 0 to 80 with a wrap at 32: three times around |
| `tcp` | is the connection the byte stream of `ByteStream` in both directions, is the window reopened, does every timed call return | numbers modulo 16 starting at 13 and 4: both streams wrap; a ring of 3 for a stream of 4, a request of 3 in segments of 1 or 2, two tries |
| `download` | is the installed file the package after any breaks, and does the download end | a package of 4 bytes in pieces of any size, the code's 6 attempts and 3 redirects |
| `programs` | do jumps end the innermost program, is everything shared put back, is a key ever lost | nesting of 3, a region of 2, a ring of 3 slots with 3 keys, so that it can be filled and lapped; one exit handler |
| `net_config` | can the ARP table hold an old or doubled entry, can an address be used that was not granted | three neighbours for two entries, two servers of which one states no name server, two tries each |
| `accounts` | does the table stay sound, does a restart return it, do root's rights end with sudo | root and one more account out of two names, one group, passwords empty or not, calls nested twice |
| `short_path` | rm -r with a path of one character deletes outside its tree, see below | the smallest instance that shows it |

The bounds are enough in this sense: tables, pool and stage fill up and are
emptied again, every return of every function is taken, and a save has a first,
a middle and a short last batch.

`PermissionsHold` covers the calls that check permissions. `fs_prealloc_file`
and `fs_write_at` check none; only the downloader calls them, on a file that it
has created, and they are not part of that run. It makes one exception,
`RolledBack`: when `fs_write_file` fails it removes the file if that is empty,
also one that was there before, and has then looked at the file's mode only and
not at the directory's. The attempt to prove the property showed this, and TLC
confirms it in five states.

Deadlock is checked except in `store_layout`, where a panic halts the machine.

### Fairness

`WF_vars(RmStep)`, `WF_vars(SaveStep)` and, in `Tcp`, `WF_vars(Waits)`: the
kernel keeps executing a call that it has started; there is no scheduler that
could leave it aside, and the waits of `Tcp` look at a clock that runs by
itself. The peer of `Tcp` is not fair: it may be silent for ever. `Download`
has `WF_vars(Serves)`, which is an assumption about the network: its receive
calls have no timeout, so a connection that neither brings data nor ends would
hold it. Nothing else is fair: no command, restart or repair has to happen.
`SaveEnds` allows for a disk that has stopped working, and failures of a
working disk are finite in number (`MaxFaults`).

## What is proved

| Theorem | Says, for all values of the constants |
|---|---|
| `PoolCorrect`, `PoolTypeCorrect`, `AlwaysTiled`, `AlwaysMerged` | the pool's invariant |
| `PoolNeverMoves` | a live block stays where it is |
| `PoolImplementsHeap` | every step of the pool is a step of `Heap` |
| `FileSystemCorrect` | the file system's invariant |
| `FileSystemTyped`, `TreeAlwaysWhole`, `BlocksAlwaysOwned` | the invariants of `file_system_tree` and `file_system_data` |
| `TreeDeletedAtOnce`, `RmStaysBelow`, `ChangesSaved`, `FailuresKeepData`, `PermissionsAlwaysHold` | what no call and no step of rm -r may do |
| `SavesConfined`, `SavesFit` | no save leaves the region, whatever the disk's size, although `store_lba` wraps |
| `StoreCorrect`, `StoreTyped` | the streaming writer's invariant |
| `SavesLandWhole`, `QuietIsSaved`, `OffNeverWrites`, `BootsRestore` | the properties of the run `store` |
| `TcpCorrect`, `BytesInOrder`, `WindowsReopened` | the invariants of the run `tcp` |
| `TcpImplementsStream` | every step of `Tcp` is a step of `ByteStream` |
| `NetCorrect`, `TableAlwaysFresh`, `AddressGranted` | the ARP table and the DHCP exchange |
| `DownloadCorrect`, `ResumesSound`, `InstallsWhole` | downloads, however they break and resume |
| `ProgramsCorrect`, `ProgramsTyped`, `UnwindToOwn`, `PromptAsAtBoot`, `DepthAlwaysCounts`, `NoKeyLost` | programs, scripts, faults, Ctrl+C and the keyboard |
| `AccountsCorrect`, `TablesSound`, `ReloadsFaithful`, `RightsGivenBack` | the accounts' invariant and the properties of the run `accounts` |
| `ReloadsSettle`, `PasswdKeepsToOne` | restarts do not change the accounts again and again; passwd touches one record |

Assumptions. The pool has a multiple of 16 bytes and at least 16
(`PoolAssumption`); requests are positive; modes are sets of the known bits
(`ModesAssumption`); every image fits the region, which `store_init` sizes for
the largest (`LengthAssumption`); stage and region are not empty; a server of
`NetConfig` is not called `"static"`, the name of an address set by hand; a TCP
stream and a request are shorter than half the range of sequence numbers
(`SizesAssumption`): the numbers of a connection are compared with a signed
difference, and nothing in `net.c` keeps a longer stream apart; passwords are
sequences of characters, one of which may be the `!` of a locked account, and
the uids that are given out stay at or below `MaxUid`, so that `next_uid` does
not overflow (`AccountsAssumption` and the guards of `Accounts`). Two theorems state a hypothesis of their own, because the code does not do better:
`RmStaysBelow` that no name of one character is used as a path (`Short = {}`;
with one the property fails, `short_path`), and `PermissionsAlwaysHold` that
`fs_prealloc_file` and `fs_write_at` are not called.

The pool's argument. `Tiled` alone is not inductive: coalescing needs to know
that the run of free blocks behind a header ends at a block in use or at the
end. The invariant therefore has three views of the same fact: `Linked` (each
block ends where another begins or at the end of the pool), `Disjoint`, and
`Covered` (every byte is in some block). With `Covered` the end of a run is the
least header in use behind its head, so that no induction along the walk is
needed; the least one exists by well-foundedness of the naturals, used once.
`Merged` and alignment ride along. A refused request is shown to have no room:
a gap between live blocks is covered by free blocks, adjacent free blocks
contradict `Merged`, so the gap is one free block that `Fits` would have found.

The store's argument. The invariant's core is `Window`: while a save is under
way the stage holds exactly the sectors of the image that end at `img_off`,
`start_off` is where it begins, and all sectors before it are on the disk. A
failed batch disturbs only what the stage still holds; a batch that works moves
the boundary up to `img_off`. At `verify` the stage is empty and `img_off` is
the length, so the image is whole. `Landed` carries this over power failures
and boots.

`StoreTyped` needs besides that the stage of a save that failed, which keeps
what it holds until the next one starts, still fits (`Room`).

The file system's argument. `FSInv` says of the tables in memory and of those
in the image that they are well formed and a tree (`TablesOK`), of the pool
that it is tiled, merged and that blocks and contents go together (`PoolOK`),
and of rm -r that activation k works on a path of at least k - 1 components and
that `fs_batch_depth` is at least the number of activations (`StackOK`). The
image must be in the invariant because a restart makes it the memory.
`BlocksOwned` is not inductive without the pool's own invariant: that
`fdata_resize` gives a block that no other file has needs the pool tiled, and
giving the old one back keeps it only together with `Merged`; the lemmas about
`fpool_alloc` and `fpool_free` are those of `FilePoolProofs`. `TreeWhole`
survives a deletion because the code looks for entries below first, and a
creation because the parent is looked up in the same step. The load at boot
works through the slots in order; what it has done after slot i is stated for
each i and proved for all by taking the least slot for which it fails.
`RmStaysBelow` adds to `FSInv` that every activation's path is below the first
one's (`Confined`), which holds because `Spelled` puts a slash between a path
of several characters and an entry.

`TcpInv`. `InOrder` speaks of a connection that is up; the refinement also
needs it of one that was reset with bytes left in the ring, so `Receives` says
it of every state, and only of `rcv_nxt` while the connection is up. In the
other direction `Sends` and `Numbers` tie every segment ever sent, and
`snd_nxt`, to the bytes they stand for, and say that only what arrived is
acknowledged; that the FIN, which also takes a number, comes after the caller's
last use of the connection (`Phases`) is what lets `tcp_send` take an
acknowledgement of `snd_nxt` for the arrival of its bytes. All comparisons of
sequence numbers go through one lemma, `Distance`: two numbers counted from the
same one and less than half of `W` apart compare as their counts do, which is
where the bound on the streams' lengths (`SizesAssumption`) is used. `RingSlots`
does the same for the ring.

`NetInv`. The table has no two entries for one address, and each has what was
last heard (`Neighbours`): `arp_learn` looks through the whole table before it
takes a slot. `Answers` says that a server grants or refuses only after it was
asked, so that a grant that is still in the air from an earlier try is as good
as a new one.

`DownInv`. `Fronted` splits on the lengths the answers so far have stated: none
yet, always, never, or both, and for the last promises only that the file is
not too long. `InstalledWhole` follows since a length that is always stated
ends the download at that length and nowhere else.

`ProgInv` and `KbInv`. Frame by frame, the value of the buffer, the flag and
the break that a frame has saved is the one that belongs to the frames outside
it (`Buffers`, `Breaks`); a frame in the middle of setting up or restoring is
the exception, and there is at most one, the top. A jump cuts the stack to a
frame for which that is known already, so it needs no more. The ring's
`Waiting` codes are those from `kb_tail` on; the arithmetic modulo `KB_RING` is
proved once as lemmas.

`AccountsInv`. `TableSound` is kept by every command but not by a restart, which
makes the image the table: `OnDisk` says of the image what `Memory` says of the
table. It follows that the loader drops no record of an image it meets, so that
the records close up to themselves and `LoadedNext`, a maximum over what was
read, is above every uid; the maximum exists because the set is bounded. A
passwd that waits for an answer holds an index into the table, and `InShell`
says that the account is there and that no other command comes in between.
`RightsReturned` speaks of the prompt only; `Rights` says what holds inside:
as long as no jump has left a sudo, outside every sudo uid 0 for files is
root's session, and therefore the outermost sudo, which only another session
opens, has saved another uid. Those inside it may have saved 0, and it does not
matter. `ReloadSettles` and `PasswdAlone` are stated in `AccountsProofs` and have
no run of their own.

Only model-checked: liveness (`RmTerminates`, `SaveEnds`, `CallsEnd`,
`InstallEnds`), which is out of the prover's reach.

## Differences between the code and its comments

With a run that shows it:

* `rm -r a`, with a relative path of one character, glues the names of the
  entries to it and deletes siblings such as `ab` (`short_path`).

Met while modelling, without a run of their own:

* `fs_write_file` rolls back an empty file also when the call did not create
  it, even from a directory the user may not write, and does not commit the
  rollback (fs.c:797-814).
* `fs_delete_directory` protects the spelling `/` only, so `/.` removes the
  root's entry (fs.c:577-630).
* -2 also stands for "not empty" and "too long" (fs.c:577, 797), and `rmdir`
  prints "Permission denied" for it.
* `path_under` finds nothing under `/` (fs.c:1260-1269).
* `store_lba` wraps on disks just above 2^32 sectors, which are then reported
  as too small (store.c:457-488).
* A flush that keeps failing with more data to come is repeated for ever
  (store.c:249-266).
* An image torn by power loss may be loaded (store.c:494-518).
* `fs_append_file`, `fs_prealloc_file` and `fs_write_at` do not save, although
  `store_autosave` "is what fs.c calls after every mutation" (store.h:17-18).
* Ctrl+C in rm -r leaves the batch open; nothing is saved until reboot or sync
  (fs.c:646).
* A tree that fitted in the pool may not fit when it is loaded in slot order,
  and is then replaced by the factory contents (fs.c:1468).
* After a failed batch `store_is_persistent` still says yes (store.c:298;
  store.h:21 "writes are being persisted").
* A read error at boot is taken for a first boot, and the saved image is
  overwritten (store.c:531; store.h:9 "if this is a first boot").
* A boot module that fails to deserialize half way leaves half-filled tables,
  which are then saved (store.c:544).

Network:

* `tcp_tx` builds into one static buffer and `ip_send` polls while it resolves,
  so that a segment that answers a packet overwrites the one being sent
  (net.c:239).
* A repeated FIN is not acknowledged again (net.c:311-316).
* `pkg` takes a connection that the server ends early for the whole package,
  and lengths stated in some answers and not in others leave bytes that were
  never written in the file (net.c:976-1035).
* An install interrupted by Ctrl+C leaves the file without its marker, and pkg
  then refuses it as a system command (pkg.c:71); a failed reinstall leaves the
  marker without the file (pkg.c:97-112).
* Options that an ACK does not state may come from another server's offer
  (net.c:473-493), and Ctrl+C leaves `in_dhcp` set, after which plugging in a
  cable does nothing (net.c:437-450).

Programs and keyboard:

* The ring's test for "full" never refuses; the code that fills the last slot
  empties the ring (kernel.c:763).
* Between get_key's look at the status and at the port the timer may take the
  code: it is then read twice; and codes of ring and port may change places
  (kernel.c:802-813).
* Between `tanja_exit_active = 1` and the setjmp, and between the restored
  buffer and the restored flag, Ctrl+C jumps through the buffer of the program
  outside or an empty one (elf.c:712, 718).
* `exec_depth` is not lowered for the scripts a jump leaves (exec.c:126): after
  four, nothing runs any more.
* The end of a nested program switches raw mode off for the outer one and runs
  the outer one's exit handlers (elf.c:720-721).
* A script is read from the pool in place while its lines may rewrite it
  (exec.c:46).

Accounts:

* `passwd` says "password unchanged" after two mismatches, but has cleared the
  password in memory (kernel.c:2310, 2329-2330).
* `usermod` renames root or gives it another uid; a restart undoes it.
  `usermod -l x -L root` returns after the rename, unsaved (kernel.c:2087-2120).
* The uid of a deleted account is given out again after a restart if it was the
  highest.
* userdel of the last member of wheel opens sudo to everybody
  (kernel.c:1917-1928).
* After `sudo su`, the end of sudo puts the old uid back for files, while the
  session is the new user's (kernel.c:1944-1946); and commands that test
  `cur_uid` refuse under sudo.
* Ctrl+C out of a program that runs sudo leaves root's uid in `fs_cur_uid`.

## Plan

1. Done: pool, file system, store, layout; proofs for pool, layout and store.
2. Done: TCP, ARP and DHCP, downloads, keyboard, programs, accounts.
3. Done: proofs for the file system, TCP, ARP and DHCP, downloads, programs,
   keyboard and accounts.
4. Ctrl+C inside `fdata_resize` and `fs_write_file` as steps of `FileSystem`.
5. `Paths` (`abs_path` against a reference definition) and `BootMemory`
   (`boot_size_pools`) as operators; DNS over the UDP slot of `NetConfig`.
6. `LibcHeap` and `Descriptors` (libc, Linux compatibility); `NicRings`.

## Not modelled

Console output, line editing and the argument parsing of the commands; TLS
records and certificates, TinyCC and Doom, which are vendored; the registers of
disk and network cards, whose outcomes the models of their callers enumerate;
boot assembly. Most of the repository's lines are of these kinds: the compiler
with its Windows headers, BearSSL, the trust anchors and the game make up more
than nine tenths of it. `PROJECT.json` gives the reason for each part.

----------------------------- MODULE FileSystem -----------------------------
(***************************************************************************)
(* The in-memory file system of fs/fs.c: two fixed tables, one of files    *)
(* and one of directories, that name every entry by its absolute path; the *)
(* pool that holds file contents; and the image that a commit leaves on    *)
(* disk (store_autosave, here always successful: see Store for the disk).  *)
(*                                                                         *)
(* A path is what abs_path makes of the spelling a command passes: the     *)
(* sequence of its components, the empty one for "/".  Every path has an   *)
(* absolute spelling, so the calls below range over paths.  Two calls also *)
(* look at the spelling itself; they take a Spelling.                      *)
(*                                                                         *)
(* Every fs_ call is one action, since nothing else runs inside it, except *)
(* fs_delete_directory_recursive: its recursion is unfolded into steps, so *)
(* that Ctrl+C and power loss can fall between them.                       *)
(***************************************************************************)
EXTENDS PoolOps, Sequences

CONSTANTS Names,       \* path components
          PathLen,     \* bound: components in a path
          MAX_F,       \* file slots
          MAX_D,       \* directory slots, slot 0 is the root's
          MaxFile,     \* MAX_FILE_DATA - 1, the longest file
          Sizes,       \* bound: how many bytes a call may be given
          Bytes,       \* what files are made of
          Uids,        \* users; 0 is root
          Modes,       \* what chmod may be asked to set
          Short,       \* spellings of one character that rm -r may be given
          Glue,        \* Short \X Names -> Names: two strings put together
          MaxLeak,     \* bound: batch depth at which Ctrl+C may still strike
          Calls        \* the calls that commands make in this instance

ASSUME FSAssumption == /\ MAX_F \in Nat \ {0} /\ MAX_D \in Nat \ {0}
                       /\ PathLen \in Nat /\ MaxFile \in Nat /\ Sizes \subseteq Nat
                       /\ MaxLeak \in Nat
                       /\ 0 \in Uids /\ Uids \subseteq Nat

Junk == "junk"         \* what a byte holds before it is written
ASSUME JunkAssumption == Junk \notin Bytes

VARIABLES files,       \* fused, fname, fdata, fsize, fowner, fmode
          dirs,        \* dused, dname, downer, dmode
          pool,        \* the file-data pool
          cwd,
          uid,         \* fs_cur_uid
          batch,       \* fs_batch_depth
          stack,       \* activations of fs_delete_directory_recursive
          disk,        \* the Storefile image
          ret          \* the last call, its result, and fs_errno

vars == <<files, dirs, pool, cwd, uid, batch, stack, disk, ret>>

FSlot == 0 .. MAX_F - 1
DSlot == 0 .. MAX_D - 1

Path == UNION {[1 .. n -> Names] : n \in 0 .. PathLen}
Root == <<>>
Front(p) == SubSeq(p, 1, Len(p) - 1)

Strings == UNION {[1 .. n -> Bytes] : n \in Sizes}

\* Nine mode bits without the group's, which are stored but not enforced.
Bits == {"u", "o"} \X {"r", "w", "x"}
ASSUME ModesAssumption == \A mode \in Modes : mode \subseteq Bits

M755 == Bits \ {<<"o", "w">>}
M644 == {<<"u", "r">>, <<"u", "w">>, <<"o", "r">>}

EmptyFile == [used |-> FALSE, name |-> Root, ptr |-> NULL, data |-> <<>>,
              owner |-> 0, mode |-> M755]
EmptyDir  == [used |-> FALSE, name |-> Root, owner |-> 0, mode |-> M755]
RootDir   == [EmptyDir EXCEPT !.used = TRUE]

UsedF == {i \in FSlot : files[i].used}
UsedD == {d \in DSlot : dirs[d].used}

FileAt(p) == {i \in UsedF : files[i].name = p}       \* file_index
DirAt(p)  == {d \in UsedD : dirs[d].name = p}        \* dir_index

Lowest(S) == CHOOSE i \in S : \A j \in S : i <= j

---------------------------------------------------------------------------
(***************************************************************************)
(* Permissions and existence.                                              *)
(***************************************************************************)
perm_allows(e, bit) ==
    uid = 0 \/ <<IF uid = e.owner THEN "u" ELSE "o", bit>> \in e.mode

Parent(p) == IF p = Root THEN Root ELSE Front(p)     \* split_parent

\* Mutant of may_modify_parent: the parent's mode is not looked at.
AnyoneMayModify(p) == TRUE

\* A parent that has no entry is not checked.
may_modify_parent(p) == \A d \in DirAt(Parent(p)) : perm_allows(dirs[d], "w")

fs_directory_exists(p) == p = Root \/ DirAt(p) # {}

parent_exists(p) == Len(p) <= 1 \/ fs_directory_exists(Front(p))

\* Mutant of Children: subdirectories are overlooked.
ChildFiles(p) ==
    {<<"f", i>> : i \in {j \in UsedF : files[j].name # Root /\ Front(files[j].name) = p}}

\* Direct children as fs_delete_directory looks for them: an entry whose name
\* continues with "/".  No name continues "/" that way.
Children(p) ==
    IF p = Root THEN {}
    ELSE {<<"f", i>> : i \in {j \in UsedF : files[j].name # Root
                                            /\ Front(files[j].name) = p}}
         \cup {<<"d", d>> : d \in {j \in UsedD : dirs[j].name # Root
                                                 /\ Front(dirs[j].name) = p}}

(***************************************************************************)
(* The disk.  An image is the tables without the pointers.                 *)
(***************************************************************************)
Image(fs, ds) == [files |-> [i \in FSlot |-> [fs[i] EXCEPT !.ptr = NULL]],
                  dirs  |-> ds,
                  cwd   |-> cwd]

\* Mutant of Committed: batches are not respected.
CommittedAtOnce(fs, ds) == Image(fs, ds)

\* fs_commit_change: what the disk holds after it.
Committed(fs, ds) == IF batch = 0 THEN Image(fs, ds) ELSE disk

Return(op, rc, errno) == ret' = [op |-> op, rc |-> rc, errno |-> errno]

\* A call that fails and changes nothing.
Fail(op, rc, errno) == /\ Return(op, rc, errno)
                       /\ UNCHANGED <<files, dirs, pool, cwd, uid, batch, stack, disk>>

\* Commands run one at a time: no call starts while rm -r is under way.
Idle(op) == stack = <<>> /\ op \in Calls

---------------------------------------------------------------------------
(***************************************************************************)
(* Directories.                                                            *)
(***************************************************************************)
fs_create_directory(p) ==
    LET bad  == ~parent_exists(p) \/ p = Root \/ DirAt(p) # {} \/ FileAt(p) # {}
        slot == {d \in DSlot \ {0} : ~dirs[d].used}
    IN  /\ Idle("mkdir")
        /\ \/ bad /\ Fail("mkdir", -1, 0)
           \/ ~bad /\ ~may_modify_parent(p) /\ Fail("mkdir", -2, 13)
           \/ ~bad /\ may_modify_parent(p) /\ slot = {} /\ Fail("mkdir", -1, 0)
           \/ /\ ~bad /\ may_modify_parent(p) /\ slot # {}
              /\ dirs' = [dirs EXCEPT ![Lowest(slot)] =
                            [used |-> TRUE, name |-> p, owner |-> uid, mode |-> M755]]
              /\ disk' = Committed(files, dirs')
              /\ Return("mkdir", 0, 0)
              /\ UNCHANGED <<files, pool, cwd, uid, batch, stack>>

\* The result of fs_delete_directory; slash: the spelling is literally "/".
RmdirResult(p, slash) ==
    IF ~may_modify_parent(p) THEN [rc |-> -2, errno |-> 13]
    ELSE [rc |-> IF slash THEN -1
                 ELSE IF Children(p) # {} THEN -2
                 ELSE IF DirAt(p) = {} THEN -1 ELSE 0,
          errno |-> 0]

WithoutDir(p) == [dirs EXCEPT ![Lowest(DirAt(p))] = EmptyDir]

fs_delete_directory(p, slash) ==
    LET r == RmdirResult(p, slash)
    IN  /\ Idle("rmdir")
        /\ \/ r.rc # 0 /\ Fail("rmdir", r.rc, r.errno)
           \/ /\ r.rc = 0
              /\ dirs' = WithoutDir(p)
              /\ disk' = Committed(files, dirs')
              /\ Return("rmdir", 0, 0)
              /\ UNCHANGED <<files, pool, cwd, uid, batch, stack>>

\* bare: the empty spelling, which goes to "/" unchecked.
fs_change_directory(p, bare) ==
    /\ Idle("cd")
    /\ \/ ~bare /\ DirAt(p) = {} /\ Fail("cd", -1, 0)
       \/ \E d \in DirAt(p) : /\ ~bare /\ ~perm_allows(dirs[d], "x")
                              /\ Fail("cd", -2, 13)
       \/ /\ bare \/ \E d \in DirAt(p) : perm_allows(dirs[d], "x")
          /\ cwd' = p
          /\ Return("cd", 0, 0)
          /\ UNCHANGED <<files, dirs, pool, uid, batch, stack, disk>>

---------------------------------------------------------------------------
(***************************************************************************)
(* Files.                                                                  *)
(***************************************************************************)
FreeF == FSlot \ UsedF

\* The result of fs_create_file; -1 also when the table is full.
CreateResult(p) ==
    IF ~parent_exists(p) THEN [rc |-> -1, errno |-> 0]
    ELSE IF FileAt(p) # {} THEN [rc |-> 0, errno |-> 0]
    ELSE IF DirAt(p) # {} THEN [rc |-> -1, errno |-> 0]
    ELSE IF ~may_modify_parent(p) THEN [rc |-> -2, errno |-> 13]
    ELSE [rc |-> IF FreeF = {} THEN -1 ELSE 0, errno |-> 0]

NewFile(p) == [used |-> TRUE, name |-> p, ptr |-> NULL, data |-> <<>>,
               owner |-> uid, mode |-> M644]

\* The file's slot, the table and the disk once the file exists: the calls
\* that write create a missing file first, and creating commits.
SlotFor(p) == IF FileAt(p) # {} THEN Lowest(FileAt(p)) ELSE Lowest(FreeF)
WithFile(p) == IF FileAt(p) # {} THEN files
               ELSE [files EXCEPT ![Lowest(FreeF)] = NewFile(p)]
DiskWithFile(p) == IF FileAt(p) # {} THEN disk ELSE Committed(WithFile(p), dirs)

fs_create_file(p) ==
    LET r == CreateResult(p)
    IN  /\ Idle("create")
        /\ \/ r.rc # 0 /\ Fail("create", r.rc, r.errno)
           \/ /\ r.rc = 0
              /\ files' = WithFile(p)
              /\ disk' = DiskWithFile(p)
              /\ Return("create", 0, 0)
              /\ UNCHANGED <<dirs, pool, cwd, uid, batch, stack>>

DeleteResult(p) == IF ~may_modify_parent(p) THEN [rc |-> -2, errno |-> 13]
                   ELSE [rc |-> IF FileAt(p) = {} THEN -1 ELSE 0, errno |-> 0]

WithoutFile(p) == [files EXCEPT ![Lowest(FileAt(p))] = EmptyFile]
\* Mutant of PoolWithoutFile: the block is not given back.
PoolStillWith(p) == pool
PoolWithoutFile(p) == fpool_free(pool, files[Lowest(FileAt(p))].ptr)

fs_delete_file(p) ==
    LET r == DeleteResult(p)
    IN  /\ Idle("delete")
        /\ \/ r.rc # 0 /\ Fail("delete", r.rc, r.errno)
           \/ /\ r.rc = 0
              /\ files' = WithoutFile(p)
              /\ pool' = PoolWithoutFile(p)
              /\ disk' = Committed(files', dirs)
              /\ Return("delete", 0, 0)
              /\ UNCHANGED <<dirs, cwd, uid, batch, stack>>

(***************************************************************************)
(* fdata_resize: the new block is taken before the old one is given back,  *)
(* so that a failure leaves the file as it was.                            *)
(***************************************************************************)
fdata_resize(h, ptr, size) ==
    IF size = 0 THEN [ok |-> TRUE, pool |-> fpool_free(h, ptr), ptr |-> NULL]
    ELSE IF Fits(h, size + 1) = {} THEN [ok |-> FALSE, pool |-> h, ptr |-> ptr]
    ELSE LET o == Lowest(Fits(h, size + 1))
         IN  [ok   |-> TRUE,
              pool |-> fpool_free(Carve(h, o, size + 1), ptr),
              ptr  |-> o + HDR]

Resized(fs, i, size) == fdata_resize(pool, fs[i].ptr, size)

SetData(fs, i, size, data) ==
    [fs EXCEPT ![i].data = data, ![i].ptr = Resized(fs, i, size).ptr]

\* Mutant of Rollback: it does not look whether the file is new.
RollbackAny(fs, i) == [fs EXCEPT ![i] = EmptyFile]

\* The rollback in fs_write_file, "if this call created a new empty file".
Rollback(fs, i) == IF fs[i].data = <<>> /\ fs[i].ptr = NULL
                   THEN [fs EXCEPT ![i] = EmptyFile] ELSE fs

fs_write_file(p, data) ==
    LET i  == SlotFor(p)
        fs == WithFile(p)
        n  == Len(data)
        denied == FileAt(p) # {} /\ ~perm_allows(files[i], "w")
        uncreated == FileAt(p) = {} /\ CreateResult(p).rc # 0
        Failed(rc) == /\ files' = Rollback(fs, i)
                      /\ disk' = DiskWithFile(p)
                      /\ Return("write", rc, 0)
                      /\ UNCHANGED <<dirs, pool, cwd, uid, batch, stack>>
    IN  /\ Idle("write")
        /\ \/ denied /\ Fail("write", -2, 13)
           \/ uncreated /\ Fail("write", -1, CreateResult(p).errno)
           \/ ~denied /\ ~uncreated /\ n > MaxFile /\ Failed(-2)
           \/ /\ ~denied /\ ~uncreated /\ n <= MaxFile
              /\ ~Resized(fs, i, n).ok /\ Failed(-3)
           \/ /\ ~denied /\ ~uncreated /\ n <= MaxFile
              /\ Resized(fs, i, n).ok
              /\ files' = SetData(fs, i, n, data)
              /\ pool' = Resized(fs, i, n).pool
              /\ disk' = Committed(files', dirs)
              /\ Return("write", 0, 0)
              /\ UNCHANGED <<dirs, cwd, uid, batch, stack>>

\* Only the creation commits; a failure leaves the file that was created.
fs_append_file(p, data) ==
    LET i  == SlotFor(p)
        fs == WithFile(p)
        n  == Len(fs[i].data) + Len(data)
        denied == FileAt(p) # {} /\ ~perm_allows(files[i], "w")
        uncreated == FileAt(p) = {} /\ CreateResult(p).rc # 0
        Failed(rc) == /\ files' = fs
                      /\ disk' = DiskWithFile(p)
                      /\ Return("append", rc, 0)
                      /\ UNCHANGED <<dirs, pool, cwd, uid, batch, stack>>
    IN  /\ Idle("append") /\ data # <<>>
        /\ \/ denied /\ Fail("append", -2, 13)
           \/ uncreated /\ Fail("append", CreateResult(p).rc, CreateResult(p).errno)
           \/ ~denied /\ ~uncreated /\ n > MaxFile /\ Failed(-3)
           \/ /\ ~denied /\ ~uncreated /\ n <= MaxFile
              /\ ~Resized(fs, i, n).ok /\ Failed(-4)
           \/ /\ ~denied /\ ~uncreated /\ n <= MaxFile
              /\ Resized(fs, i, n).ok
              /\ files' = SetData(fs, i, n, fs[i].data \o data)
              /\ pool' = Resized(fs, i, n).pool
              /\ disk' = DiskWithFile(p)
              /\ Return("append", 0, 0)
              /\ UNCHANGED <<dirs, cwd, uid, batch, stack>>

\* Contents past the old end are whatever the block held.
fs_prealloc_file(p, size) ==
    LET i  == SlotFor(p)
        fs == WithFile(p)
        bad == size = 0 \/ size > MaxFile
        uncreated == FileAt(p) = {} /\ CreateResult(p).rc # 0
        r == fdata_resize(fpool_coalesce(pool), fs[i].ptr, size)
        Kept(k) == IF k <= Len(fs[i].data) THEN fs[i].data[k] ELSE Junk
        errno == IF FileAt(p) # {} THEN ret.errno ELSE 0
    IN  /\ Idle("prealloc")
        /\ \/ bad /\ Fail("prealloc", -1, ret.errno)
           \/ ~bad /\ uncreated /\ Fail("prealloc", -1, CreateResult(p).errno)
           \/ /\ ~bad /\ ~uncreated
              /\ files' = IF ~r.ok THEN fs
                          ELSE [fs EXCEPT ![i].data = [k \in 1 .. size |-> Kept(k)],
                                          ![i].ptr = r.ptr]
              /\ pool' = r.pool
              /\ disk' = DiskWithFile(p)
              /\ Return("prealloc", IF r.ok THEN 0 ELSE -3, errno)
              /\ UNCHANGED <<dirs, cwd, uid, batch, stack>>

fs_write_at(p, offset, data) ==
    LET i == Lowest(FileAt(p))
        there == FileAt(p) # {} /\ files[i].ptr # NULL
        long == offset + Len(data) > Len(files[i].data)
    IN  /\ Idle("write_at") /\ data # <<>>
        /\ \/ ~there /\ Fail("write_at", -1, ret.errno)
           \/ there /\ long /\ Fail("write_at", -3, ret.errno)
           \/ /\ there /\ ~long
              /\ files' = [files EXCEPT ![i].data =
                    [k \in DOMAIN @ |-> IF k - offset \in DOMAIN data
                                        THEN data[k - offset] ELSE @[k]]]
              /\ Return("write_at", 0, ret.errno)
              /\ UNCHANGED <<dirs, pool, cwd, uid, batch, stack, disk>>

\* The calls that only read leave fs_errno behind.
fs_read_file(p) ==
    /\ Idle("read")
    /\ \/ FileAt(p) = {} /\ Fail("read", -1, 0)
       \/ \E i \in FileAt(p) :
            IF perm_allows(files[i], "r") THEN Fail("read", 0, 0)
                                          ELSE Fail("read", -2, 13)

---------------------------------------------------------------------------
(***************************************************************************)
(* Ownership.  The recursive forms apply the plain one to the target, then *)
(* sweep both tables.                                                      *)
(***************************************************************************)

\* path_under strips a trailing "/" from dir, and so finds nothing under "/".
path_under(child, dir) ==
    dir # Root /\ Len(child) >= Len(dir) /\ SubSeq(child, 1, Len(dir)) = dir

MayChmod(e) == uid = 0 \/ uid = e.owner

\* The entry a path names, a file before a directory.
TargetF(p) == FileAt(p)
TargetD(p) == IF FileAt(p) # {} THEN {} ELSE DirAt(p)

Targets(p) == {files[i] : i \in TargetF(p)} \cup {dirs[d] : d \in TargetD(p)}

Sweep(p, rec, table, used) == {i \in used : rec /\ path_under(table[i].name, p)}

fs_chmod(p, mode, rec) ==
    LET op == IF rec THEN "chmod_r" ELSE "chmod"
        ok == \E e \in Targets(p) : MayChmod(e)
        F  == TargetF(p) \cup {i \in Sweep(p, rec, files, UsedF) : MayChmod(files[i])}
        D  == TargetD(p) \cup {d \in Sweep(p, rec, dirs, UsedD) : MayChmod(dirs[d])}
    IN  /\ Idle(op)
        /\ \/ ~ok /\ Fail(op, -1, ret.errno)
           \/ /\ ok
              /\ files' = [i \in FSlot |-> IF i \in F
                             THEN [files[i] EXCEPT !.mode = mode] ELSE files[i]]
              /\ dirs' = [d \in DSlot |-> IF d \in D
                             THEN [dirs[d] EXCEPT !.mode = mode] ELSE dirs[d]]
              /\ disk' = Committed(files', dirs')
              /\ Return(op, 0, ret.errno)
              /\ UNCHANGED <<pool, cwd, uid, batch, stack>>

\* Hand the files F and the directories D to another user.
GiveTo(new, F, D) ==
    /\ files' = [i \in FSlot |-> IF i \in F
                   THEN [files[i] EXCEPT !.owner = new] ELSE files[i]]
    /\ dirs' = [d \in DSlot |-> IF d \in D
                   THEN [dirs[d] EXCEPT !.owner = new] ELSE dirs[d]]

fs_chown(p, new, rec) ==
    LET op == IF rec THEN "chown_r" ELSE "chown"
        ok == uid = 0 /\ Targets(p) # {}
    IN  /\ Idle(op)
        /\ \/ ~ok /\ Fail(op, -1, ret.errno)
           \/ /\ ok
              /\ GiveTo(new, TargetF(p) \cup Sweep(p, rec, files, UsedF),
                             TargetD(p) \cup Sweep(p, rec, dirs, UsedD))
              /\ disk' = Committed(files', dirs')
              /\ Return(op, 0, ret.errno)
              /\ UNCHANGED <<pool, cwd, uid, batch, stack>>

fs_reassign_uid(old, new) ==
    LET F == {i \in UsedF : files[i].owner = old}
        D == {d \in UsedD : dirs[d].owner = old}
    IN  /\ Idle("reassign")
        /\ GiveTo(new, F, D)
        /\ disk' = IF F \cup D = {} THEN disk ELSE Committed(files', dirs')
        /\ Return("reassign", 0, ret.errno)
        /\ UNCHANGED <<pool, cwd, uid, batch, stack>>

\* Login, su and sudo set the effective user.
SetUid(u) == /\ Idle("setuid")
             /\ uid' = u
             /\ Return("setuid", 0, ret.errno)
             /\ UNCHANGED <<files, dirs, pool, cwd, batch, stack, disk>>

\* sync, and the commands that change accounts, save whatever is unsaved: a
\* batch that is still open does not hold store_save back.
store_save == /\ Idle("sync")
              /\ disk' = Image(files, dirs)
              /\ Return("sync", 0, ret.errno)
              /\ UNCHANGED <<files, dirs, pool, cwd, uid, batch, stack>>

---------------------------------------------------------------------------
(***************************************************************************)
(* fs_delete_directory_recursive.  An activation lists its directory once, *)
(* into a buffer, and then works through the names it found there: first   *)
(* the directories in slot order, then the files.  The path of a child is  *)
(* put together from the caller's spelling, a "/" and the name, but the    *)
(* "/" is left out when the spelling has one character.                    *)
(*                                                                         *)
(* A Spelling is [full, slash, short]: the path it resolves to, whether it *)
(* is "/", and the single character it consists of ("" for longer ones).   *)
(***************************************************************************)
Spelled(p) == [full |-> p, slash |-> FALSE, short |-> ""]

Spellings == {Spelled(p) : p \in Path}
             \cup {[full |-> Root, slash |-> TRUE, short |-> ""]}
             \cup {[full |-> IF c = "." THEN cwd ELSE Append(cwd, c),
                    slash |-> FALSE, short |-> c] :
                   c \in {x \in Short : x = "." \/ Len(cwd) < PathLen}}

ChildOf(sp, name) == Spelled(IF sp.short = "" THEN Append(sp.full, name)
                                              ELSE Append(cwd, Glue[sp.short, name]))

\* fs_list_directory lists the children of "/" as well.
Listed(p, table, used) ==
    {<<i, table[i].name[Len(table[i].name)]>> :
        i \in {j \in used : table[j].name # Root /\ Front(table[j].name) = p}}

Activation(sp) == [sp |-> sp,
                   ds |-> Listed(sp.full, dirs, UsedD \ {0}),
                   fs |-> Listed(sp.full, files, UsedF)]

\* What an activation's checks return before it starts on its list.
EntryResult(sp) ==
    IF ~may_modify_parent(sp.full) THEN [rc |-> -2, errno |-> 13]
    ELSE IF ~sp.slash /\ DirAt(sp.full) = {} THEN [rc |-> -1, errno |-> 0]
    ELSE IF \E d \in DirAt(sp.full) : ~perm_allows(dirs[d], "r")
         THEN [rc |-> -1, errno |-> 13]
    ELSE [rc |-> 0, errno |-> 0]

RmStart(sp) ==
    LET r == EntryResult(sp)
    IN  /\ Idle("rm_r")
        /\ \/ r.rc # 0 /\ Fail("rm_r", r.rc, r.errno)
           \/ /\ r.rc = 0
              /\ stack' = <<Activation(sp)>>
              /\ batch' = batch + 1
              /\ Return("rm_r", 0, 0)
              /\ UNCHANGED <<files, dirs, pool, cwd, uid, disk>>

Top == stack[Len(stack)]
SetTop(act) == [stack EXCEPT ![Len(stack)] = act]

\* Mutants of Leave: one decrement too many; no save at the end.
LeaveTooFar(n) == /\ batch' = batch - n - 1
                  /\ disk' = IF batch' = 0 THEN Image(files', dirs') ELSE disk
LeaveUnsaved(n) == batch' = batch - n /\ disk' = disk

\* fs_batch_depth-- in n activations, and the save when it reaches 0.
Leave(n) == /\ batch' = batch - n
            /\ disk' = IF batch' = 0 THEN Image(files', dirs') ELSE disk

\* Mutant of RmFail: it goes on instead of breaking out, with the same entry.
RmRetry(errno) == UNCHANGED <<files, dirs, pool, cwd, uid, batch, stack, disk, ret>>

\* A call inside failed: every activation breaks out and returns -1.
RmFail(errno) == /\ stack' = <<>>
                 /\ UNCHANGED <<files, dirs, pool, cwd, uid>>
                 /\ Leave(Len(stack))
                 /\ Return("rm_r", -1, errno)

RmDir == \E e \in Top.ds :
    LET sp == ChildOf(Top.sp, e[2])
        r  == EntryResult(sp)
    IN  /\ \A f \in Top.ds : e[1] <= f[1]
        /\ \/ r.rc # 0 /\ RmFail(r.errno)
           \/ /\ r.rc = 0
              /\ stack' = Append(SetTop([Top EXCEPT !.ds = @ \ {e}]), Activation(sp))
              /\ batch' = batch + 1
              /\ Return("rm_r", 0, 0)
              /\ UNCHANGED <<files, dirs, pool, cwd, uid, disk>>

RmFile == \E e \in Top.fs :
    LET p == ChildOf(Top.sp, e[2]).full
        r == DeleteResult(p)
    IN  /\ Top.ds = {}
        /\ \A f \in Top.fs : e[1] <= f[1]
        /\ \/ r.rc # 0 /\ RmFail(r.errno)
           \/ /\ r.rc = 0
              /\ files' = WithoutFile(p)
              /\ pool' = PoolWithoutFile(p)
              /\ stack' = SetTop([Top EXCEPT !.fs = @ \ {e}])
              /\ disk' = Committed(files', dirs)
              /\ Return("rm_r", 0, 0)
              /\ UNCHANGED <<dirs, cwd, uid, batch>>

\* Mutant of RmSelf: the path has lost its last component.
RmParent ==
    LET r == RmdirResult(Top.sp.full, Top.sp.slash)
    IN  /\ Top.ds = {} /\ Top.fs = {}
        /\ \/ r.rc # 0 /\ RmFail(r.errno)
           \/ /\ r.rc = 0 /\ DirAt(Parent(Top.sp.full)) # {}
              /\ dirs' = WithoutDir(Parent(Top.sp.full))
              /\ stack' = SubSeq(stack, 1, Len(stack) - 1)
              /\ UNCHANGED <<files, pool, cwd, uid>>
              /\ Leave(1)
              /\ Return("rm_r", 0, 0)

RmSelf ==
    LET r == RmdirResult(Top.sp.full, Top.sp.slash)
    IN  /\ Top.ds = {} /\ Top.fs = {}
        /\ \/ r.rc # 0 /\ RmFail(r.errno)
           \/ /\ r.rc = 0
              /\ dirs' = WithoutDir(Top.sp.full)
              /\ stack' = SubSeq(stack, 1, Len(stack) - 1)
              /\ UNCHANGED <<files, pool, cwd, uid>>
              /\ Leave(1)
              /\ Return("rm_r", 0, 0)

RmStep == stack # <<>> /\ (RmDir \/ RmFile \/ RmSelf)

\* Ctrl+C: timer_handler jumps back into elf_run from wherever rm was.
CtrlC == /\ stack # <<>> /\ "ctrl_c" \in Calls /\ batch <= MaxLeak
         /\ stack' = <<>>
         /\ Return("ctrl_c", 0, ret.errno)
         /\ UNCHANGED <<files, dirs, pool, cwd, uid, batch, disk>>

---------------------------------------------------------------------------
(***************************************************************************)
(* fs_deserialize_fill: an empty pool, then one fdata_resize for each file *)
(* in slot order.                                                          *)
(***************************************************************************)
LoadedNone == [ok |-> TRUE, pool |-> fpool_init, ptrs |-> [i \in FSlot |-> NULL]]

LoadedOne(img, before, i) ==
    LET r == fdata_resize(before.pool, NULL, Len(img.files[i].data))
    IN  [ok   |-> before.ok /\ r.ok,
         pool |-> r.pool,
         ptrs |-> [before.ptrs EXCEPT ![i] = r.ptr]]

Loaded(img) ==
    LET load[k \in 0 .. MAX_F] ==
          IF k = 0 THEN LoadedNone ELSE LoadedOne(img, load[k - 1], k - 1)
    IN  load[MAX_F]

FreshDirs == [d \in DSlot |-> IF d = 0 THEN RootDir ELSE EmptyDir]

\* Power off at any moment and boot from the disk.  store_init starts over,
\* and saves that, when the image cannot be loaded.
Reboot ==
    LET l == Loaded(disk)
    IN  /\ "reboot" \in Calls
        /\ IF l.ok
           THEN /\ files' = [i \in FSlot |-> [disk.files[i] EXCEPT !.ptr = l.ptrs[i]]]
                /\ dirs' = disk.dirs
                /\ pool' = l.pool
                /\ cwd' = disk.cwd
                /\ disk' = disk
           ELSE /\ files' = [i \in FSlot |-> EmptyFile]
                /\ dirs' = FreshDirs
                /\ pool' = fpool_init
                /\ cwd' = Root
                /\ disk' = [files |-> files', dirs |-> dirs', cwd |-> Root]
        /\ uid' = 0 /\ batch' = 0 /\ stack' = <<>>
        /\ Return("reboot", IF l.ok THEN 0 ELSE -1, 0)

\* fs_init, followed by the save that ends store_init.
Init == /\ files = [i \in FSlot |-> EmptyFile]
        /\ dirs = FreshDirs
        /\ pool = fpool_init
        /\ cwd = Root
        /\ uid = 0 /\ batch = 0 /\ stack = <<>>
        /\ disk = [files |-> files, dirs |-> dirs, cwd |-> cwd]
        /\ ret = [op |-> "init", rc |-> 0, errno |-> 0]

FileCall == \E p \in Path :
    \/ fs_create_file(p) \/ fs_delete_file(p) \/ fs_read_file(p)
    \/ \E data \in Strings : fs_write_file(p, data) \/ fs_append_file(p, data)
    \/ \E size \in Sizes : fs_prealloc_file(p, size)
    \/ \E data \in Strings, off \in Sizes : fs_write_at(p, off, data)

DirCall == \E p \in Path :
    \/ fs_create_directory(p)
    \/ \E lit \in BOOLEAN : /\ lit => p = Root
                            /\ \/ fs_delete_directory(p, lit)
                               \/ fs_change_directory(p, lit)

OwnerCall ==
    \/ \E p \in Path, rec \in BOOLEAN :
          \/ \E mode \in Modes : fs_chmod(p, mode, rec)
          \/ \E new \in Uids : fs_chown(p, new, rec)
    \/ \E old, new \in Uids : fs_reassign_uid(old, new)
    \/ \E u \in Uids : SetUid(u)

Next == \/ FileCall \/ DirCall \/ OwnerCall
        \/ \E sp \in Spellings : RmStart(sp)
        \/ RmStep \/ CtrlC \/ store_save \/ Reboot

\* The kernel keeps executing a call that it has started.
Spec == Init /\ [][Next]_vars /\ WF_vars(RmStep)

---------------------------------------------------------------------------
(***************************************************************************)
(* Properties.                                                             *)
(***************************************************************************)
Ops == {"init", "mkdir", "rmdir", "cd", "create", "delete", "write", "append",
        "prealloc", "write_at", "read", "chmod", "chmod_r", "chown", "chown_r",
        "reassign", "setuid", "sync", "rm_r", "ctrl_c", "reboot"}

\* The tables, counters and results stay within what their C types are for.
TypeOK ==
    /\ \A i \in FSlot :
         /\ files[i].used \in BOOLEAN /\ files[i].name \in Path
         /\ files[i].ptr \in 0 .. PoolBytes /\ Len(files[i].data) <= MaxFile
         /\ files[i].owner \in Uids /\ files[i].mode \subseteq Bits
    /\ \A d \in DSlot : /\ dirs[d].used \in BOOLEAN /\ dirs[d].name \in Path
                        /\ dirs[d].owner \in Uids /\ dirs[d].mode \subseteq Bits
    /\ PoolType(pool)
    /\ cwd \in Path /\ uid \in Uids /\ batch \in Nat
    /\ Len(stack) <= PathLen + 1 /\ Len(stack) <= batch
    /\ ret.op \in Ops /\ ret.rc \in -4 .. 0 /\ ret.errno \in {0, 13}

TreeOf(fs, ds) ==
    LET names == {fs[i].name : i \in {j \in FSlot : fs[j].used}}
                 \cup {ds[d].name : d \in {j \in DSlot : ds[j].used}}
    IN  \A n \in names : Len(n) > 1 =>
          \E d \in DSlot : ds[d].used /\ ds[d].name = Front(n)

NamesUniqueIn(fs, ds) ==
    /\ \A i, j \in FSlot : fs[i].used /\ fs[j].used /\ fs[i].name = fs[j].name
                              => i = j
    /\ \A d, e \in DSlot : ds[d].used /\ ds[e].used /\ ds[d].name = ds[e].name
                              => d = e
    /\ \A i \in FSlot, d \in DSlot : fs[i].used /\ ds[d].used
                              => fs[i].name # ds[d].name

\* In memory, and on the disk whenever the power fails between two steps, every
\* entry hangs on a directory and a path names at most one entry: no call,
\* failure or interrupt orphans part of the tree or reuses a slot for a name
\* that is taken, and no commit in the middle of rm -r, of an interrupted one
\* or of the calls after it saves half of a change.
TreeWhole == /\ TreeOf(files, dirs) /\ NamesUniqueIn(files, dirs)
             /\ TreeOf(disk.files, disk.dirs) /\ NamesUniqueIn(disk.files, disk.dirs)

\* File contents and the pool agree: a file with contents owns a block that
\* holds them and the final NUL, no two files share one, and no block is
\* leaked by a failed write, a rollback, rm -r or a reload.
BlocksOwned ==
    /\ \A i \in FSlot :
         /\ files[i].data = <<>> <=> files[i].ptr = NULL
         /\ files[i].ptr # NULL =>
              /\ files[i].used
              /\ files[i].ptr \in DOMAIN Live(pool)
              /\ Live(pool)[files[i].ptr] > Len(files[i].data)
    /\ \A i, j \in FSlot : files[i].ptr = files[j].ptr /\ files[i].ptr # NULL => i = j
    /\ \A ptr \in DOMAIN Live(pool) : \E i \in FSlot : files[i].ptr = ptr

CommittingCalls == {"mkdir", "rmdir", "create", "delete", "write", "chmod",
                    "chmod_r", "chown", "chown_r", "reassign", "rm_r"}

Saves == ret'.op \in CommittingCalls /\ ret'.rc = 0 /\ stack' = <<>>
                /\ <<files', dirs'>> # <<files, dirs>>
                   => disk' = Image(files', dirs')

\* A call that changed the tables and succeeded has left them on the disk by
\* the time it returns, with what earlier calls had left unsaved, as long as
\* no interrupt has left a batch open.
SavedWhenDone == [][batch = Len(stack) => Saves]_vars

Survives(i) == files'[i].used /\ files'[i].name = files[i].name
                              /\ files'[i].data = files[i].data

\* A call that fails costs no file its contents: fdata_resize takes the new
\* block before it gives the old one back.
FailureKeepsData ==
    [][ret'.rc < 0 /\ ret'.op # "reboot" =>
         \A i \in UsedF : files[i].data # <<>> => Survives(i)]_vars

Under(n, p) == Len(n) >= Len(p) /\ SubSeq(n, 1, Len(p)) = p

\* fs_delete_directory_recursive deletes "the whole tree" and nothing else:
\* whatever an activation removes lies under the path rm was given.
RmConfined ==
    [][stack # <<>> /\ ret'.op = "rm_r" =>
         /\ \A i \in UsedF : ~files'[i].used =>
                Under(files[i].name, stack[1].sp.full)
         /\ \A d \in UsedD : ~dirs'[d].used =>
                Under(dirs[d].name, stack[1].sp.full)]_vars

\* "Batch the whole tree deletion into one compact Storefile write": until
\* the outermost activation returns, the disk keeps the tree as it was.
RmSavesOnce ==
    [][stack # <<>> /\ ret'.op = "rm_r" =>
         \/ disk' = disk
         \/ stack' = <<>> /\ disk' = Image(files', dirs')]_vars

\* rm -r comes to an end, whatever the tree and the permissions.
RmTerminates == (stack # <<>>) ~> (stack = <<>>)

\* A user who is not root changes an entry only as its mode and its owner
\* allow, and makes or removes one only where the directory above lets him.
\* The one exception is the rollback of fs_write_file, which also takes a file
\* that was there and empty: only the file's own mode has been looked at.
RolledBack(i) == /\ ret'.op = "write" /\ ret'.rc < 0
                 /\ files[i].data = <<>> /\ perm_allows(files[i], "w")
MayChange(p) == \A d \in DirAt(Parent(p)) : perm_allows(dirs[d], "w")
PermissionsHold ==
    [][uid # 0 /\ ret'.op \notin {"reboot", "setuid", "reassign"} =>
         /\ \A i \in FSlot :
              /\ files[i].used # files'[i].used =>
                    \/ MayChange(IF files[i].used THEN files[i].name ELSE files'[i].name)
                    \/ files[i].used /\ RolledBack(i)
              /\ files[i].used /\ files'[i].used =>
                    /\ files'[i].owner = files[i].owner
                    /\ files'[i].mode # files[i].mode => files[i].owner = uid
                    /\ files'[i].data # files[i].data => perm_allows(files[i], "w")
         /\ \A d \in DSlot :
              /\ dirs[d].used # dirs'[d].used =>
                    MayChange(IF dirs[d].used THEN dirs[d].name ELSE dirs'[d].name)
              /\ dirs[d].used /\ dirs'[d].used =>
                    /\ dirs'[d].owner = dirs[d].owner
                    /\ dirs'[d].mode # dirs[d].mode => dirs[d].owner = uid]_vars
=============================================================================

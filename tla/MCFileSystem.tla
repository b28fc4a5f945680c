---------------------------- MODULE MCFileSystem ----------------------------
(***************************************************************************)
(* FileSystem for TLC.  The instances differ in the calls that are made    *)
(* and in how much of the state those calls can reach.                     *)
(***************************************************************************)
EXTENDS FileSystem, TLC

\* "a" followed by "b" is the string "ab"; no other two names meet.
MCGlue == [cn \in {".", "a"} \X Names |->
              IF cn = <<"a", "b">> THEN "ab" ELSE "none"]
NoGlue == <<>>

\* Names are only compared, so runs without liveness may permute them.
NameSymmetry == Permutations(Names)

M700 == {"u"} \X {"r", "w", "x"}
M555 == {"u", "o"} \X {"r", "x"}
MCModes == {M700, M555}
NoModes == {}

TreeCalls == {"mkdir", "rmdir", "write", "rm_r", "ctrl_c", "reboot"}
DataCalls == {"create", "delete", "write", "append", "prealloc", "write_at", "sync",
              "reboot"}
OwnerCalls == {"mkdir", "rmdir", "create", "write", "delete", "rm_r", "read", "cd",
               "chmod", "chmod_r", "chown", "chown_r", "reassign", "setuid"}
=============================================================================

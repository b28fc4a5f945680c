------------------------------ MODULE Accounts ------------------------------
(***************************************************************************)
(* The accounts of kernel/kernel.c: the table and its image in the store,  *)
(* setup, login, su, sudo, passwd and the commands that change the table.  *)
(*                                                                         *)
(* One command runs at a time; a program may run commands itself and may   *)
(* be left by Ctrl+C while they run.  Home directories and the owners of   *)
(* files are FileSystem's.  Commands that refuse change nothing and are no *)
(* steps here.  A password is the sequence of its characters, <<>> when    *)
(* the account has none; "!" in front locks it.                            *)
(***************************************************************************)
EXTENDS Integers, Sequences, FiniteSets, FiniteSetsExt

CONSTANTS Names,       \* account names, "root" among them
          GroupNames,  \* "wheel" among them
          Words,       \* what is typed as a password
          Uids,        \* arguments of -u
          Mods,        \* combinations of the options of usermod
          MAX_USERS, MAX_GROUPS, MAX_GMEM,
          FIRST_UID,   \* 1000 in the code
          MaxUid,      \* bound on the uids given out
          MaxCalls,    \* bound on commands inside commands
          None         \* an option that is not given

Options == [l : (Names \ {"root"}) \cup {None}, p : (Words \ {<<>>}) \cup {None},
            u : Uids \cup {0}, L : BOOLEAN, U : BOOLEAN,
            G : (SUBSET GroupNames) \cup {None}, a : BOOLEAN]

ASSUME AccountsAssumption ==
    /\ "root" \in Names /\ "wheel" \in GroupNames
    /\ <<>> \in Words /\ Words \subseteq Seq(STRING)
    /\ Uids \subseteq 1..MaxUid
    /\ {MAX_USERS, MAX_GROUPS, MAX_GMEM, FIRST_UID} \subseteq Nat \ {0}
    /\ MaxUid \in Nat /\ MaxCalls \in Nat
    /\ Mods \subseteq Options
    /\ \A o \in Mods : o.a => o.G # None

VARIABLES users, groups, next_uid, is_setup,
          disk,             \* the image of the configuration
          phase,            \* "root password", "accounts", "login", "shell"
          cur,              \* cur_username and cur_uid
          fs_cur_uid,       \* the uid files are accessed with
          calls,            \* programs and sudo inside each other
          changing,         \* passwd: the account and its state
          left              \* a jump has left a sudo behind since the prompt's session began

table == <<users, groups, next_uid>>
session == <<phase, cur, fs_cur_uid, calls, changing, left>>
vars == <<table, is_setup, disk, session>>

Root0 == [name |-> "root", pass |-> <<>>, uid |-> 0]
NoChange == [i |-> 0]
Image == [users |-> users, groups |-> groups, is_setup |-> is_setup]
NewImage == [users |-> users', groups |-> groups', is_setup |-> is_setup']

\* store_save, at the end of what changes the table.
store_save == disk' = NewImage

user_find(name) == {i \in DOMAIN users : users[i].name = name}
Above(n, uid) == IF uid >= n THEN uid + 1 ELSE n

---------------------------------------------------------------------------
(***************************************************************************)
(* Reading the image back.                                                 *)
(***************************************************************************)

\* Mutant of Records: the loader as it once was, reading root's record again.
RecordsFromFirst(img) == img.users

\* The records the loader looks at: root's is passed over.
Records(img) == Tail(img.users)

LoadedUid(r, i) == IF r.uid <= 0 THEN FIRST_UID + i ELSE r.uid

\* Record i as it is read.
LoadedRecord(img, i) ==
    [Records(img)[i] EXCEPT !.uid = LoadedUid(Records(img)[i], i)]

\* Records without a name do not occur; those named root are dropped, and the
\* others close up.
LoadedUsers(img) ==
    LET kept == {i \in DOMAIN Records(img) : Records(img)[i].name # "root"}
        Nth(j) == CHOOSE i \in kept : Cardinality(kept \cap 1..i) = j
    IN  <<[Root0 EXCEPT !.pass = img.users[1].pass]>>
          \o [j \in 1..Cardinality(kept) |-> LoadedRecord(img, Nth(j))]

\* Members that no longer exist are dropped.
LoadedGroups(img) ==
    LET known == {LoadedUsers(img)[i].name : i \in DOMAIN LoadedUsers(img)}
    IN  [g \in DOMAIN img.groups |-> img.groups[g] \cap known]

\* Above every uid that was read, that of a dropped record too.
LoadedNext(img) ==
    Max({FIRST_UID} \cup {LoadedRecord(img, i).uid + 1 : i \in DOMAIN Records(img)})

\* What the boot asks for before it shows the login prompt.
BootPhase(img) == IF ~img.is_setup \/ img.users[1].pass = <<>>
                  THEN "root password" ELSE "login"

\* The machine restarts, at any moment; cur_username and cur_uid are what
\* they are initialised to until somebody logs in.
Reboot == /\ users' = LoadedUsers(disk)
          /\ groups' = LoadedGroups(disk)
          /\ next_uid' = LoadedNext(disk)
          /\ is_setup' = disk.is_setup
          /\ phase' = BootPhase(disk)
          /\ cur' = [name |-> "root", uid |-> 0] /\ fs_cur_uid' = 0
          /\ calls' = <<>> /\ changing' = NoChange
          /\ left' = FALSE
          /\ UNCHANGED disk

\* config_reset and the first save of store_init.
Init == /\ users = <<Root0>> /\ groups = [g \in {} |-> {}]
        /\ next_uid = FIRST_UID /\ is_setup = FALSE
        /\ disk = Image
        /\ phase = "root password"
        /\ cur = [name |-> "root", uid |-> 0] /\ fs_cur_uid = 0
        /\ calls = <<>> /\ changing = NoChange
        /\ left = FALSE

---------------------------------------------------------------------------
(***************************************************************************)
(* Setup and login.                                                        *)
(***************************************************************************)

\* user_add_full: the new record and the next uid; nothing when the table is full.
user_add_full(name, pass, uid) ==
    LET u == IF uid > 0 THEN uid ELSE next_uid
    IN  /\ user_find(name) = {} /\ Len(users) < MAX_USERS
        /\ u <= MaxUid
        /\ users' = Append(users, [name |-> name, pass |-> pass, uid |-> u])
        /\ next_uid' = Above(next_uid, u)
        /\ UNCHANGED <<groups, is_setup>>
        /\ store_save

\* The wizard's first question, or prompt_root_password, which saves at once.
RootPassword(p) ==
    /\ phase = "root password" /\ p # <<>>
    /\ users' = [users EXCEPT ![1].pass = p]
    /\ phase' = IF is_setup THEN "login" ELSE "accounts"
    /\ UNCHANGED <<groups, next_uid, is_setup, cur, fs_cur_uid, calls, changing, left>>
    /\ IF is_setup THEN store_save ELSE UNCHANGED disk

WizardUser(name, p) ==
    /\ phase = "accounts" /\ name # "root" /\ p # <<>>
    /\ user_add_full(name, p, 0)
    /\ UNCHANGED session

WizardEnd == /\ phase = "accounts"
             /\ is_setup' = TRUE /\ phase' = "login"
             /\ UNCHANGED <<table, cur, fs_cur_uid, calls, changing, left>>
             /\ store_save

set_session_user(i) == /\ cur' = [name |-> users[i].name, uid |-> users[i].uid]
                       /\ fs_cur_uid' = users[i].uid
                       /\ left' = (left /\ calls # <<>>)

login_prompt(i, p) ==
    /\ phase = "login" /\ users[i].pass \in {<<>>, p}
    /\ set_session_user(i)
    /\ phase' = "shell"
    /\ UNCHANGED <<table, is_setup, disk, calls, changing>>

---------------------------------------------------------------------------
(***************************************************************************)
(* Commands.                                                               *)
(***************************************************************************)

\* A command may start: at the prompt, or from the program or script that runs.
Prompt == phase = "shell" /\ changing = NoChange

\* exit; inside another command it takes effect when that has returned, which
\* is no different from an exit there and then.
cmd_exit == /\ Prompt /\ calls = <<>>
            /\ phase' = "login"
            /\ UNCHANGED <<table, is_setup, disk, cur, fs_cur_uid, calls, changing, left>>

\* Any change of a file or of the hostname saves the accounts too.
SaveOther == /\ Prompt /\ disk' = Image
             /\ UNCHANGED <<table, is_setup, session>>

cmd_useradd(name, p, uid) ==
    /\ Prompt /\ cur.uid = 0 /\ name # "root" /\ p # <<>>
    /\ user_add_full(name, p, uid)
    /\ UNCHANGED session

WithoutUser(i) == SubSeq(users, 1, i - 1) \o SubSeq(users, i + 1, Len(users))

\* Mutant of DropMember: the deleted account stays in its groups.
KeepMember(name) == groups

\* group_member_remove, in every group.
DropMember(name) == [g \in DOMAIN groups |-> groups[g] \ {name}]

cmd_userdel(i) ==
    /\ Prompt /\ cur.uid = 0
    /\ i > 1 /\ users[i].name # "root"
    /\ users' = WithoutUser(i) /\ groups' = DropMember(users[i].name)
    /\ UNCHANGED <<next_uid, is_setup, session>>
    /\ store_save

Locked(p) == IF p # <<>> /\ Head(p) = "!" THEN p ELSE <<"!">> \o p
Unlocked(p) == IF p # <<>> /\ Head(p) = "!" THEN Tail(p) ELSE p
Given(option, default) == IF option = None THEN default ELSE option

\* group_member_add, which does nothing in a full group.
Plus(members, name) == IF Cardinality(members \ {name}) >= MAX_GMEM THEN members
                       ELSE members \cup {name}

Renamed(members, from, to) == IF from \in members THEN (members \ {from}) \cup {to}
                              ELSE members

\* cmd_usermod works through its options in this order; locking root ends it
\* with what -l and -p have done, unsaved.
cmd_usermod(i, o) ==
    LET old == users[i]
        new == [name |-> Given(o.l, old.name), pass |-> Given(o.p, old.pass),
                uid |-> IF o.u > 0 THEN o.u ELSE old.uid]
        refused == o.L /\ new.uid = 0
        locked == IF o.L THEN Locked(new.pass) ELSE new.pass
        carried == [g \in DOMAIN groups |-> Renamed(groups[g], old.name, new.name)]
        listed == [g \in DOMAIN groups |->
                      IF g \in o.G THEN Plus(carried[g], new.name)
                      ELSE IF o.a THEN carried[g] ELSE carried[g] \ {new.name}]
    IN  /\ Prompt /\ cur.uid = 0
        /\ o.G # None => o.G \subseteq DOMAIN groups
        /\ o.l # None => user_find(o.l) = {}
        /\ users' = [users EXCEPT ![i] =
              IF refused THEN new
              ELSE [new EXCEPT !.pass = IF o.U THEN Unlocked(locked) ELSE locked]]
        /\ groups' = IF refused \/ o.G = None THEN carried ELSE listed
        /\ next_uid' = Above(next_uid, o.u)
        /\ UNCHANGED <<is_setup, session>>
        /\ IF refused THEN UNCHANGED disk ELSE store_save

cmd_groupadd(g) ==
    /\ Prompt /\ cur.uid = 0
    /\ g \notin DOMAIN groups /\ Cardinality(DOMAIN groups) < MAX_GROUPS
    /\ groups' = [h \in DOMAIN groups \cup {g} |-> IF h = g THEN {} ELSE groups[h]]
    /\ UNCHANGED <<users, next_uid, is_setup, session>>
    /\ store_save

cmd_groupdel(g) ==
    /\ Prompt /\ cur.uid = 0 /\ g \in DOMAIN groups
    /\ groups' = [h \in DOMAIN groups \ {g} |-> groups[h]]
    /\ UNCHANGED <<users, next_uid, is_setup, session>>
    /\ store_save

---------------------------------------------------------------------------
(***************************************************************************)
(* passwd, which reads lines while it works.                               *)
(***************************************************************************)

cmd_passwd(i, p) ==
    /\ Prompt
    /\ users[i].name = cur.name \/ cur.uid = 0
    /\ cur.uid = 0 \/ users[i].pass \in {<<>>, p}
    /\ changing' = [i |-> i, attempt |-> 0, pw1 |-> <<>>]
    /\ UNCHANGED <<table, is_setup, disk, phase, cur, fs_cur_uid, calls, left>>

\* The old password is cleared as soon as the new one has been typed once.
NewPassword(p) ==
    /\ changing # NoChange /\ changing.pw1 = <<>>
    /\ users' = [users EXCEPT ![changing.i].pass = <<>>]
    /\ changing' = IF p = <<>> THEN NoChange ELSE [changing EXCEPT !.pw1 = p]
    /\ UNCHANGED <<groups, next_uid, is_setup, phase, cur, fs_cur_uid, calls, left>>
    /\ IF p = <<>> THEN store_save ELSE UNCHANGED disk

Retype(p) ==
    /\ changing # NoChange /\ changing.pw1 # <<>>
    /\ UNCHANGED <<groups, next_uid, is_setup, phase, cur, fs_cur_uid, calls, left>>
    /\ IF p = changing.pw1
       THEN /\ users' = [users EXCEPT ![changing.i].pass = p]
            /\ changing' = NoChange
            /\ store_save
       ELSE /\ changing' = IF changing.attempt = 1 THEN NoChange
                           ELSE [changing EXCEPT !.attempt = 1, !.pw1 = <<>>]
            /\ UNCHANGED <<users, disk>>

---------------------------------------------------------------------------
(***************************************************************************)
(* su, sudo, and programs that run commands.                               *)
(***************************************************************************)

cmd_su(i, p) ==
    /\ Prompt
    /\ fs_cur_uid = 0 \/ users[i].pass \in {<<>>, p}
    /\ set_session_user(i)
    /\ UNCHANGED <<table, is_setup, disk, phase, calls, changing>>

\* While wheel has members only they may.
Sudoer == "wheel" \in DOMAIN groups => groups["wheel"] = {} \/ cur.name \in groups["wheel"]

Sudo(p) ==
    /\ Prompt /\ Len(calls) < MaxCalls
    /\ cur.uid # 0 /\ Sudoer
    /\ p # <<>> /\ \E i \in user_find(cur.name) : users[i].pass = p
    /\ calls' = Append(calls, [op |-> "sudo", saved_uid |-> fs_cur_uid])
    /\ fs_cur_uid' = 0
    /\ UNCHANGED <<table, is_setup, disk, phase, cur, changing, left>>

\* Mutant of SudoDone: the uid of before is not put back.
SudoKeeps == /\ calls # <<>> /\ calls[Len(calls)].op = "sudo" /\ changing = NoChange
             /\ calls' = SubSeq(calls, 1, Len(calls) - 1)
             /\ UNCHANGED <<table, is_setup, disk, phase, cur, fs_cur_uid, changing, left>>

SudoDone == /\ calls # <<>> /\ calls[Len(calls)].op = "sudo" /\ changing = NoChange
            /\ fs_cur_uid' = calls[Len(calls)].saved_uid
            /\ calls' = SubSeq(calls, 1, Len(calls) - 1)
            /\ UNCHANGED <<table, is_setup, disk, phase, cur, changing, left>>

Program == /\ Prompt /\ Len(calls) < MaxCalls
           /\ calls' = Append(calls, [op |-> "program"])
           /\ UNCHANGED <<table, is_setup, disk, phase, cur, fs_cur_uid, changing, left>>

\* The innermost program returns, or Ctrl+C leaves it with every command it
\* was running.
Programs == {k \in DOMAIN calls : calls[k].op = "program"}
ProgramEnds ==
    \E k \in Programs :
        /\ \A j \in Programs : j <= k
        /\ calls' = SubSeq(calls, 1, k - 1) /\ changing' = NoChange
        /\ left' = (left \/ k < Len(calls))
        /\ UNCHANGED <<table, is_setup, disk, phase, cur, fs_cur_uid>>

Next == \/ Reboot \/ WizardEnd \/ cmd_exit \/ SaveOther
        \/ SudoDone \/ Program \/ ProgramEnds
        \/ \E p \in Words :
              \/ RootPassword(p) \/ NewPassword(p) \/ Retype(p) \/ Sudo(p)
              \/ \E name \in Names : WizardUser(name, p)
              \/ \E name \in Names, uid \in Uids \cup {0} : cmd_useradd(name, p, uid)
              \/ \E i \in DOMAIN users :
                    login_prompt(i, p) \/ cmd_passwd(i, p) \/ cmd_su(i, p)
        \/ \E i \in DOMAIN users : cmd_userdel(i) \/ \E o \in Mods : cmd_usermod(i, o)
        \/ \E g \in GroupNames : cmd_groupadd(g) \/ cmd_groupdel(g)

Spec == Init /\ [][Next]_vars

---------------------------------------------------------------------------
(***************************************************************************)
(* Properties.                                                             *)
(***************************************************************************)

\* The table stays one that every lookup by name can rely on: names are
\* distinct, nobody but the first record is called root or has uid 0, every
\* member of a group is an account, and the next uid that is given out is
\* above every one in use.
TableSound ==
    /\ Len(users) \in 1..MAX_USERS
    /\ \A i, j \in DOMAIN users : users[i].name = users[j].name => i = j
    /\ \A i \in 2..Len(users) : users[i].name # "root" /\ users[i].uid > 0
    /\ \A g \in DOMAIN groups : \A m \in groups[g] : user_find(m) # {}
    /\ \A i \in DOMAIN users : users[i].uid < next_uid

\* A restart gives back the accounts that were saved, in their order and with
\* their passwords and uids, and every group with its members; only what
\* usermod did to the name and the uid of root is undone.
ReloadsSame ==
    LET back == LoadedUsers(disk)
    IN  /\ Len(back) = Len(disk.users)
        /\ Tail(back) = Tail(disk.users)
        /\ back[1] = [disk.users[1] EXCEPT !.name = "root", !.uid = 0]
        /\ \A g \in DOMAIN disk.groups :
              disk.groups[g] \ LoadedGroups(disk)[g]
                  \subseteq {disk.users[1].name} \ {"root"}

\* Back at the prompt, files are accessed with root's uid only in a session of
\* root's, unless Ctrl+C has left a program in which sudo was running.
RightsReturned == phase = "shell" /\ calls = <<>> /\ fs_cur_uid = 0 /\ ~left
                     => cur.uid = 0
=============================================================================

--------------------------- MODULE AccountsProofs ---------------------------
(***************************************************************************)
(* What the account table, its image in the store and the session of       *)
(* kernel/kernel.c keep to, for any number of accounts, groups, passwords  *)
(* and commands inside commands.                                           *)
(***************************************************************************)
EXTENDS Accounts, TLAPS, FiniteSetTheorems, SequenceTheorems,
        WellFoundedInduction

\* "!" is itself a string, which the provers do not know.
Characters == STRING \cup {"!"}
Account == [name : Names, pass : Seq(Characters), uid : Nat]
Frame == [op : {"sudo"}, saved_uid : Nat] \cup [op : {"program"}]

\* What holds of a table of users, be it in memory or in the image.
SoundUsers(us) ==
    /\ us \in Seq(Account)
    /\ Len(us) \in 1..MAX_USERS
    /\ \A i, j \in DOMAIN us : us[i].name = us[j].name => i = j
    /\ \A i \in 2..Len(us) : us[i].name # "root" /\ us[i].uid > 0
    /\ \A i \in DOMAIN us : us[i].uid <= MaxUid

\* Every member of every group is an account.
SoundGroups(us, gs) ==
    /\ gs = [g \in DOMAIN gs |-> gs[g]]
    /\ DOMAIN gs \subseteq GroupNames
    /\ \A g \in DOMAIN gs : \A m \in gs[g] : \E i \in DOMAIN us : us[i].name = m

Memory == /\ SoundUsers(users) /\ SoundGroups(users, groups)
          /\ next_uid \in Nat \ {0} /\ \A i \in DOMAIN users : users[i].uid < next_uid
          /\ is_setup \in BOOLEAN

\* A restart makes the image the table.
OnDisk == /\ disk = [users |-> disk.users, groups |-> disk.groups,
                     is_setup |-> disk.is_setup]
          /\ SoundUsers(disk.users) /\ SoundGroups(disk.users, disk.groups)
          /\ disk.is_setup \in BOOLEAN

SessionTypes == /\ phase \in {"root password", "accounts", "login", "shell"}
                /\ cur \in [name : Names, uid : Nat] /\ fs_cur_uid \in Nat
                /\ calls \in Seq(Frame) /\ left \in BOOLEAN

\* Commands and passwd run in a shell, and passwd works on an account that
\* is there.
InShell == /\ phase # "shell" => calls = <<>> /\ changing = NoChange
           /\ changing # NoChange =>
                 changing \in [i : DOMAIN users, attempt : 0..1, pw1 : Words]

IsSudo(k) == calls[k].op = "sudo"

\* Unless a jump has left a sudo behind: outside of every sudo root's rights
\* are root's, so that the outermost sudo puts back another uid than 0.
Rights == ~left =>
    /\ (\A k \in DOMAIN calls : ~IsSudo(k)) => (fs_cur_uid = 0 => cur.uid = 0)
    /\ \A k \in DOMAIN calls :
          IsSudo(k) /\ (\A j \in 1..k - 1 : ~IsSudo(j)) => calls[k].saved_uid # 0

AccountsInv == Memory /\ OnDisk /\ SessionTypes /\ InShell /\ Rights

---------------------------------------------------------------------------
(***************************************************************************)
(* Reading a sound image back.                                             *)
(***************************************************************************)

\* A set of numbers with a bound has a greatest one, which Max finds.
LEMMA MaxOf ==
    ASSUME NEW S \in SUBSET Nat, S # {}, NEW b \in Nat, \A x \in S : x <= b
    PROVE  Max(S) \in S /\ \A x \in S : x <= Max(S)
<1> DEFINE T == {n \in Nat : \A x \in S : x <= n}
<1>1. PICK n \in T : \A y \in T : ~(<<y, n>> \in OpToRel(<, Nat))
  <2>1. T \subseteq Nat /\ b \in T
    OBVIOUS
  <2> HIDE DEF T
  <2> QED  BY <2>1, NatLessThanWellFounded, WFMin
<1>2. ASSUME NEW y \in T
      PROVE  y >= n
  <2>1. y \in Nat /\ n \in Nat
    OBVIOUS
  <2> HIDE DEF T
  <2>2. ~(<<y, n>> \in OpToRel(<, Nat))
    BY <1>1
  <2>3. ~(y < n)
    BY <2>1, <2>2 DEF OpToRel
  <2> QED  BY <2>1, <2>3
<1>3. n \in S
  <2>1. SUFFICES ASSUME n \notin S
                 PROVE  FALSE
    OBVIOUS
  <2>2. \A x \in S : x < n
    BY <2>1
  <2>3. n - 1 \in Nat
    <3>1. PICK x \in S : TRUE
      OBVIOUS
    <3>2. x < n /\ x \in Nat /\ n \in Nat
      BY <2>2
    <3> QED  BY <3>2
  <2>4. n - 1 \in T
    BY <2>2, <2>3
  <2> QED  BY <1>2, <2>4
<1> QED  BY <1>3 DEF Max

\* A record whose name and uid are those of root.
LEMMA AsRoot ==
    ASSUME NEW N, NEW P, NEW r \in [name : N, pass : P, uid : Nat]
    PROVE  [r EXCEPT !.name = "root", !.uid = 0]
             = [name |-> "root", pass |-> r.pass, uid |-> 0]
<1> DEFINE q == [r EXCEPT !.name = "root"]
<1>1. [r EXCEPT !.name = "root", !.uid = 0] = [q EXCEPT !.uid = 0]
  OBVIOUS
<1>2. q \in [name : {"root"}, pass : P, uid : Nat] /\ q.name = "root" /\ q.pass = r.pass
  OBVIOUS
<1> HIDE DEF q
<1>3. [q EXCEPT !.uid = 0] = [name |-> q.name, pass |-> q.pass, uid |-> 0]
  BY <1>2
<1> QED  BY <1>1, <1>2, <1>3

\* The k-th of the first n numbers is k.
LEMMA NthOf ==
    ASSUME NEW n \in Nat, NEW j \in 1..n
    PROVE  (CHOOSE i \in 1..n : Cardinality((1..n) \cap 1..i) = j) = j
<1>1. ASSUME NEW i \in 1..n
      PROVE  Cardinality((1..n) \cap 1..i) = i
  <2>1. (1..n) \cap 1..i = 1..i
    OBVIOUS
  <2>2. Cardinality(1..i) = i
    BY FS_Interval
  <2> QED  BY <2>1, <2>2
<1> QED  BY <1>1

\* No record of a sound image is dropped or changed, root's excepted.
LEMMA LoadedIs ==
    ASSUME NEW img, SoundUsers(img.users)
    PROVE  /\ LoadedUsers(img) \in Seq(Account)
           /\ Len(LoadedUsers(img)) = Len(img.users)
           /\ LoadedUsers(img)[1] = [name |-> "root", pass |-> img.users[1].pass, uid |-> 0]
           /\ \A i \in 2..Len(img.users) : LoadedUsers(img)[i] = img.users[i]
           /\ DOMAIN Records(img) = 1..Len(img.users) - 1
           /\ \A i \in DOMAIN Records(img) : LoadedRecord(img, i) = img.users[i + 1]
<1> DEFINE us == img.users
           n == Len(us) - 1
           kept == {i \in DOMAIN Records(img) : Records(img)[i].name # "root"}
           Nth(j) == CHOOSE i \in kept : Cardinality(kept \cap 1..i) = j
           root == [Root0 EXCEPT !.pass = us[1].pass]
           rest == [j \in 1..Cardinality(kept) |-> LoadedRecord(img, Nth(j))]
<1>1. /\ us \in Seq(Account) /\ Len(us) \in Nat \ {0}
      /\ \A i \in 2..Len(us) : us[i].name # "root" /\ us[i].uid > 0
  BY AccountsAssumption DEF SoundUsers
<1>2. LoadedUsers(img) = <<root>> \o rest
  BY DEF LoadedUsers
<1>3. /\ Records(img) \in Seq(Account) /\ Len(Records(img)) = n /\ n \in Nat
      /\ DOMAIN Records(img) = 1..n
      /\ \A i \in 1..n : Records(img)[i] = us[i + 1]
  <2> HIDE DEF us
  <2>1. Records(img) = Tail(us)
    BY DEF Records, us
  <2> QED  BY <1>1, <2>1
<1>4. kept = 1..n
  <2> HIDE DEF us
  <2> QED  BY <1>1, <1>3
<1>5. \A i \in 1..n : LoadedRecord(img, i) = us[i + 1]
  <2> SUFFICES ASSUME NEW i \in 1..n
               PROVE  LoadedRecord(img, i) = us[i + 1]
    OBVIOUS
  <2>1. us[i + 1] \in Account /\ us[i + 1].uid > 0
    <3> HIDE DEF us
    <3> QED  BY <1>1
  <2>2. LoadedRecord(img, i) = [us[i + 1] EXCEPT !.uid = us[i + 1].uid]
    <3>1. Records(img)[i] = us[i + 1]
      BY <1>3
    <3>2. us[i + 1].uid \in Nat
      BY <2>1 DEF Account
    <3>3. LoadedUid(us[i + 1], i) = us[i + 1].uid
      BY <2>1, <3>2 DEF LoadedUid
    <3> HIDE DEF us
    <3> QED  BY <3>1, <3>3 DEF LoadedRecord
  <2> HIDE DEF us
  <2> QED  BY <2>1, <2>2 DEF Account
<1>6. Cardinality(kept) = n /\ \A j \in 1..n : Nth(j) = j
  <2> HIDE DEF n
  <2>1. Cardinality(1..n) = n
    BY <1>3, FS_Interval
  <2>2. ASSUME NEW j \in 1..n
        PROVE  Nth(j) = j
    <3> HIDE DEF kept
    <3>1. Nth(j) = CHOOSE i \in 1..n : Cardinality((1..n) \cap 1..i) = j
      BY <1>4
    <3> QED  BY <3>1, <1>3, NthOf
  <2> QED  BY <1>4, <2>1, <2>2
<1>7. rest = [j \in 1..n |-> us[j + 1]]
  <2> HIDE DEF kept, Nth, us, n
  <2> QED  BY <1>5, <1>6
<1>8. root = [name |-> "root", pass |-> us[1].pass, uid |-> 0]
  BY DEF Root0
<1>9. root \in Account
  <2> HIDE DEF us
  <2>1. us[1] \in Account
    BY <1>1
  <2> QED  BY <2>1, <1>8, AccountsAssumption DEF Account
<1>10. rest \in Seq(Account) /\ Len(rest) = n
  <2> HIDE DEF rest, us
  <2>1. rest \in [1..n -> Account]
    BY <1>1, <1>3, <1>7
  <2> QED  BY <2>1, <1>3
<1>11. /\ <<root>> \o rest \in Seq(Account) /\ Len(<<root>> \o rest) = n + 1
       /\ (<<root>> \o rest)[1] = root
       /\ \A i \in 2..n + 1 : (<<root>> \o rest)[i] = rest[i - 1]
  <2> HIDE DEF rest, root, n
  <2> QED  BY <1>3, <1>9, <1>10
<1>12. \A i \in 2..n + 1 : rest[i - 1] = us[i]
  <2> HIDE DEF rest, us, n
  <2> QED  BY <1>3, <1>7
<1>13. n + 1 = Len(us)
  <2> HIDE DEF us
  <2> QED  BY <1>1
<1> HIDE DEF rest, root, n
<1> QED  BY <1>2, <1>3, <1>5, <1>8, <1>11, <1>12, <1>13 DEF n

\* What is typed is made of characters.
LEMMA WordsTyped == \A w \in Words : w \in Seq(Characters)
<1> SUFFICES ASSUME NEW w \in Words
             PROVE  w \in Seq(Characters)
    OBVIOUS
<1>1. w \in Seq(STRING)
  BY AccountsAssumption
<1>2. w \in [1..Len(w) -> STRING] /\ Len(w) \in Nat
  BY ONLY <1>1
<1>3. w \in [1..Len(w) -> Characters]
  BY ONLY <1>2 DEF Characters
<1> QED  BY ONLY <1>2, <1>3

\* What -u may ask for.
LEMMA UidsBounded == MaxUid \in Nat /\ \A u \in Uids : u \in Nat /\ 1 <= u /\ u <= MaxUid
BY AccountsAssumption

\* The table, position by position.
LEMMA UsersAt ==
    ASSUME NEW us, SoundUsers(us)
    PROVE  /\ us \in Seq(Account) /\ Len(us) \in Nat /\ Len(us) >= 1
           /\ Len(us) <= MAX_USERS /\ DOMAIN us = 1..Len(us)
           /\ \A i \in 1..Len(us) : /\ us[i] \in Account /\ us[i].name \in Names
                                     /\ us[i].uid \in Nat /\ us[i].uid <= MaxUid
           /\ \A i, j \in 1..Len(us) : us[i].name = us[j].name => i = j
           /\ \A i \in 2..Len(us) : us[i].name # "root" /\ us[i].uid > 0
<1>1. us \in Seq(Account) /\ Len(us) \in Nat /\ DOMAIN us = 1..Len(us)
  BY DEF SoundUsers
<1>2. Len(us) >= 1 /\ Len(us) <= MAX_USERS
  BY <1>1, AccountsAssumption DEF SoundUsers
<1>3. ASSUME NEW i \in 1..Len(us)
      PROVE  us[i] \in Account /\ us[i].name \in Names /\ us[i].uid \in Nat
  <2>1. us[i] \in Account
    BY <1>1
  <2> QED  BY <2>1 DEF Account
<1>4. \A i \in 1..Len(us) : us[i].uid <= MaxUid
  BY <1>1 DEF SoundUsers
<1>5. \A i, j \in 1..Len(us) : us[i].name = us[j].name => i = j
  BY <1>1 DEF SoundUsers
<1>6. \A i \in 2..Len(us) : us[i].name # "root" /\ us[i].uid > 0
  BY DEF SoundUsers
<1> QED  BY <1>1, <1>2, <1>3, <1>4, <1>5, <1>6

\* A sound image makes a sound table, and the next uid is above all in use.
LEMMA LoadSound ==
    ASSUME NEW img, SoundUsers(img.users), SoundGroups(img.users, img.groups)
    PROVE  /\ SoundUsers(LoadedUsers(img))
           /\ SoundGroups(LoadedUsers(img), LoadedGroups(img))
           /\ LoadedNext(img) \in Nat \ {0}
           /\ \A i \in DOMAIN LoadedUsers(img) : LoadedUsers(img)[i].uid < LoadedNext(img)
<1> DEFINE us == img.users
           back == LoadedUsers(img)
           raised == {LoadedRecord(img, i).uid + 1 : i \in DOMAIN Records(img)}
           n == LoadedNext(img)
<1> USE AccountsAssumption
<1>1. /\ Len(us) \in Nat /\ Len(us) >= 1 /\ Len(us) \in 1..MAX_USERS
      /\ \A i \in 1..Len(us) : us[i].uid <= MaxUid /\ us[i].uid \in Nat
      /\ \A i, j \in 1..Len(us) : us[i].name = us[j].name => i = j
      /\ \A i \in 2..Len(us) : us[i].name # "root" /\ us[i].uid > 0
  BY UsersAt DEF SoundUsers
<1>2. /\ back \in Seq(Account) /\ Len(back) = Len(us) /\ DOMAIN back = 1..Len(us)
      /\ back[1].name = "root" /\ back[1].uid = 0
      /\ \A i \in 2..Len(us) : back[i] = us[i]
      /\ DOMAIN Records(img) = 1..Len(us) - 1
      /\ \A i \in DOMAIN Records(img) : LoadedRecord(img, i) = us[i + 1]
  <2>1. /\ back \in Seq(Account) /\ Len(back) = Len(us)
        /\ back[1] = [name |-> "root", pass |-> us[1].pass, uid |-> 0]
        /\ \A i \in 2..Len(us) : back[i] = us[i]
        /\ DOMAIN Records(img) = 1..Len(us) - 1
        /\ \A i \in DOMAIN Records(img) : LoadedRecord(img, i) = us[i + 1]
    BY LoadedIs
  <2>2. back[1].name = "root" /\ back[1].uid = 0
    BY <2>1
  <2> HIDE DEF back, us
  <2> QED  BY <2>1, <2>2
<1>3. SoundUsers(back)
  <2> HIDE DEF us, back
  <2>1. \A i, j \in DOMAIN back : back[i].name = back[j].name => i = j
    <3> SUFFICES ASSUME NEW i \in 1..Len(us), NEW j \in 1..Len(us),
                        back[i].name = back[j].name
                 PROVE  i = j
      BY <1>2
    <3>1. \A x \in 2..Len(us) : back[x].name # back[1].name
      BY <1>1, <1>2
    <3>2. \A x \in 1..Len(us) : x = 1 \/ x \in 2..Len(us)
      BY <1>1
    <3>3. CASE i = 1 \/ j = 1
      BY <3>1, <3>2, <3>3
    <3>4. CASE i \in 2..Len(us) /\ j \in 2..Len(us)
      <4>1. back[i] = us[i] /\ back[j] = us[j]
        BY <1>2, <3>4
      <4> QED  BY <1>1, <4>1
    <3> QED  BY <3>2, <3>3, <3>4
  <2>2. \A i \in DOMAIN back : back[i].uid <= MaxUid
    BY <1>1, <1>2
  <2> QED  BY <1>1, <1>2, <2>1, <2>2 DEF SoundUsers
<1>4. SoundGroups(back, LoadedGroups(img))
  <2> DEFINE known == {back[i].name : i \in DOMAIN back}
  <2>1. LoadedGroups(img) = [g \in DOMAIN img.groups |-> img.groups[g] \cap known]
    BY DEF LoadedGroups
  <2> HIDE DEF back
  <2> QED  BY <2>1 DEF SoundGroups
<1>5. n \in {FIRST_UID} \cup raised /\ \A x \in {FIRST_UID} \cup raised : x <= n
  <2> HIDE DEF us
  <2>1. ASSUME NEW i \in DOMAIN Records(img)
        PROVE  /\ LoadedRecord(img, i).uid + 1 \in Nat
               /\ LoadedRecord(img, i).uid + 1 <= MaxUid + 1
    <3>1. LoadedRecord(img, i) = us[i + 1] /\ i + 1 \in 1..Len(us)
      BY <1>1, <1>2
    <3>2. us[i + 1].uid \in Nat /\ us[i + 1].uid <= MaxUid
      BY <1>1, <3>1
    <3> QED  BY <3>1, <3>2
  <2>2. {FIRST_UID} \cup raised \in SUBSET Nat
    BY <2>1
  <2>3. \A x \in {FIRST_UID} \cup raised : x <= FIRST_UID + MaxUid + 1
    BY <2>1
  <2>4. n = Max({FIRST_UID} \cup raised)
    BY DEF LoadedNext
  <2>5. FIRST_UID + MaxUid + 1 \in Nat /\ {FIRST_UID} \cup raised # {}
    OBVIOUS
  <2> HIDE DEF n, raised
  <2> QED  BY <2>2, <2>3, <2>4, <2>5, MaxOf
<1>6. n \in Nat \ {0}
  <2>1. ASSUME NEW i \in DOMAIN Records(img)
        PROVE  LoadedRecord(img, i).uid + 1 \in Nat \ {0}
    <3> HIDE DEF us
    <3>1. LoadedRecord(img, i) = us[i + 1] /\ i + 1 \in 1..Len(us)
      BY <1>1, <1>2
    <3>2. us[i + 1].uid \in Nat
      BY <1>1, <3>1
    <3> QED  BY <3>1, <3>2
  <2> HIDE DEF n
  <2> QED  BY <1>5, <2>1
<1>7. ASSUME NEW i \in DOMAIN back
      PROVE  back[i].uid < n
  <2>1. CASE i = 1
    <3> HIDE DEF back, n
    <3> QED  BY <1>2, <1>6, <2>1
  <2>2. CASE i # 1
    <3> HIDE DEF us, back
    <3>1. i \in 2..Len(us) /\ i - 1 \in DOMAIN Records(img) /\ us[i].uid \in Nat
      <4>1. i \in 1..Len(us) /\ Len(us) \in Nat /\ DOMAIN Records(img) = 1..Len(us) - 1
        BY <1>1, <1>2
      <4>2. i \in 2..Len(us) /\ i - 1 \in DOMAIN Records(img)
        BY ONLY <2>2, <4>1
      <4> QED  BY <1>1, <4>1, <4>2
    <3>0. i - 1 + 1 = i /\ \A x \in DOMAIN Records(img) : LoadedRecord(img, x) = us[x + 1]
      BY <1>2, <3>1
    <3>2. LoadedRecord(img, i - 1).uid + 1 = us[i].uid + 1
      <4>1. LoadedRecord(img, i - 1) = us[i - 1 + 1]
        BY ONLY <3>0, <3>1
      <4> QED  BY ONLY <4>1, <3>0
    <3>3. us[i].uid + 1 \in raised
      BY <3>1, <3>2
    <3> HIDE DEF raised, n
    <3> QED  BY <1>2, <1>5, <1>6, <3>1, <3>3
  <2> QED  BY <2>1, <2>2
<1> QED  BY <1>3, <1>4, <1>6, <1>7

---------------------------------------------------------------------------
(***************************************************************************)
(* Changing a sound table.                                                 *)
(***************************************************************************)

\* The groups only know names.
LEMMA SameNames ==
    ASSUME NEW us, NEW vs, NEW gs, SoundGroups(us, gs), DOMAIN vs = DOMAIN us,
           \A i \in DOMAIN us : vs[i].name = us[i].name
    PROVE  SoundGroups(vs, gs)
BY DEF SoundGroups

\* A table with the same names and uids.
LEMMA SameAccounts ==
    ASSUME NEW us, SoundUsers(us), NEW vs, vs \in Seq(Account), Len(vs) = Len(us),
           \A i \in DOMAIN us : vs[i].name = us[i].name /\ vs[i].uid = us[i].uid
    PROVE  SoundUsers(vs)
<1>1. DOMAIN us = 1..Len(us) /\ DOMAIN vs = 1..Len(us) /\ Len(us) \in Nat
  BY UsersAt
<1>2. \A i \in 2..Len(vs) : i \in DOMAIN us /\ i \in 2..Len(us)
  BY <1>1
<1>3. \A i \in 2..Len(vs) : vs[i].name # "root" /\ vs[i].uid > 0
  BY <1>2 DEF SoundUsers
<1>4. \A i, j \in DOMAIN vs : vs[i].name = vs[j].name => i = j
  BY <1>1 DEF SoundUsers
<1>5. \A i \in DOMAIN vs : vs[i].uid <= MaxUid
  BY <1>1 DEF SoundUsers
<1> QED  BY <1>3, <1>4, <1>5 DEF SoundUsers

\* A new account, with a name and a uid of its own.
LEMMA AddSound ==
    ASSUME NEW us, SoundUsers(us), NEW r \in Account, Len(us) < MAX_USERS,
           \A i \in DOMAIN us : us[i].name # r.name,
           r.name # "root", r.uid \in 1..MaxUid
    PROVE  /\ SoundUsers(Append(us, r))
           /\ DOMAIN us \subseteq DOMAIN Append(us, r)
           /\ \A i \in DOMAIN us : Append(us, r)[i] = us[i]
           /\ \A i \in DOMAIN Append(us, r) : i \in DOMAIN us \/ Append(us, r)[i] = r
<1> USE AccountsAssumption
<1>1. /\ us \in Seq(Account) /\ DOMAIN us = 1..Len(us) /\ Len(us) \in Nat /\ Len(us) >= 1
      /\ \A i, j \in 1..Len(us) : us[i].name = us[j].name => i = j
      /\ \A i \in 2..Len(us) : us[i].name # "root" /\ us[i].uid > 0
      /\ \A i \in 1..Len(us) : us[i].uid <= MaxUid
      /\ MAX_USERS \in Nat
  BY UsersAt
<1> DEFINE vs == Append(us, r)
<1>2. /\ vs \in Seq(Account) /\ Len(vs) = Len(us) + 1 /\ DOMAIN vs = 1..Len(us) + 1
      /\ \A i \in 1..Len(us) : vs[i] = us[i]
      /\ vs[Len(us) + 1] = r
  BY <1>1
<1> HIDE DEF vs
<1>3. \A i, j \in DOMAIN vs : vs[i].name = vs[j].name => i = j
  <2>1. \A i \in DOMAIN vs : i \in 1..Len(us) \/ i = Len(us) + 1
    BY <1>1, <1>2
  <2> QED  BY <1>1, <1>2, <2>1
<1>4. \A i \in 2..Len(vs) : vs[i].name # "root" /\ vs[i].uid > 0
  <2>1. \A i \in 2..Len(vs) : (i \in 1..Len(us) /\ i \in 2..Len(us)) \/ i = Len(us) + 1
    BY <1>1, <1>2
  <2>2. r.uid > 0
    OBVIOUS
  <2> QED  BY <1>1, <1>2, <2>1, <2>2
<1>5. \A i \in DOMAIN vs : vs[i].uid <= MaxUid
  <2>1. \A i \in DOMAIN vs : i \in 1..Len(us) \/ i = Len(us) + 1
    BY <1>1, <1>2
  <2>2. r.uid <= MaxUid
    OBVIOUS
  <2> QED  BY <1>1, <1>2, <2>1, <2>2
<1>6. SoundUsers(vs)
  BY <1>1, <1>2, <1>3, <1>4, <1>5 DEF SoundUsers
<1> QED  BY <1>1, <1>2, <1>6 DEF vs

\* An account less, never the first.
LEMMA DeleteSound ==
    ASSUME NEW us, SoundUsers(us), NEW k \in 2..Len(us)
    PROVE  LET vs == SubSeq(us, 1, k - 1) \o SubSeq(us, k + 1, Len(us))
           IN  /\ SoundUsers(vs)
               /\ \A i \in DOMAIN us \ {k} : \E j \in DOMAIN vs : vs[j] = us[i]
               /\ \A j \in DOMAIN vs : \E i \in DOMAIN us : vs[j] = us[i]
<1> DEFINE a == SubSeq(us, 1, k - 1)
           b == SubSeq(us, k + 1, Len(us))
           vs == a \o b
           n == Len(us)
           From(i) == IF i < k THEN i ELSE i + 1
<1> USE AccountsAssumption
<1>1. /\ us \in Seq(Account) /\ DOMAIN us = 1..n /\ n \in Nat /\ k \in Nat /\ 2 <= k /\ k <= n
      /\ n <= MAX_USERS /\ MAX_USERS \in Nat
      /\ \A i \in 1..n : us[i] \in Account /\ us[i].uid <= MaxUid
      /\ \A i, j \in 1..n : us[i].name = us[j].name => i = j
      /\ \A i \in 2..n : us[i].name # "root" /\ us[i].uid > 0
  BY UsersAt
<1>2. /\ a \in Seq(Account) /\ Len(a) = k - 1 /\ \A i \in 1..k - 1 : a[i] = us[i]
  BY <1>1
<1>3. /\ b \in Seq(Account) /\ Len(b) = n - k /\ \A i \in 1..n - k : b[i] = us[k + i]
  <2>1. \A i \in 1..n - k : us[k + i] \in Account
    BY <1>1
  <2>2. b = [i \in 1..n - k |-> us[k + i]]
    BY <1>1
  <2>3. b \in [1..n - k -> Account]
    <3> HIDE DEF b, n
    <3> QED  BY <2>1, <2>2
  <2> HIDE DEF b, n
  <2> QED  BY <1>1, <2>2, <2>3
<1>4. /\ vs \in Seq(Account) /\ Len(vs) = n - 1 /\ DOMAIN vs = 1..n - 1
      /\ \A i \in 1..n - 1 : vs[i] = IF i < k THEN a[i] ELSE b[i - (k - 1)]
  <2> HIDE DEF a, b, n
  <2>0. a \in Seq(Account) /\ b \in Seq(Account)
    BY <1>2, <1>3
  <2>1. /\ a \o b \in Seq(Account) /\ Len(a \o b) = Len(a) + Len(b)
        /\ \A i \in 1..Len(a) + Len(b) :
              (a \o b)[i] = IF i <= Len(a) THEN a[i] ELSE b[i - Len(a)]
    BY ONLY <2>0
  <2>2. Len(a) + Len(b) = n - 1 /\ n - 1 \in Nat /\ Len(a) = k - 1
    BY <1>1, <1>2, <1>3
  <2>3. \A i \in Int : i < k <=> i <= Len(a)
    BY <1>1, <2>2
  <2> HIDE DEF vs
  <2>4. vs \in Seq(Account) /\ Len(vs) = n - 1 /\ DOMAIN vs = 1..n - 1
    <3>1. vs \in Seq(Account) /\ Len(vs) = n - 1
      BY <2>1, <2>2 DEF vs
    <3> QED  BY <3>1
  <2>5. ASSUME NEW i \in 1..n - 1
        PROVE  vs[i] = IF i < k THEN a[i] ELSE b[i - (k - 1)]
    <3>1. vs[i] = IF i <= Len(a) THEN a[i] ELSE b[i - Len(a)]
      BY <2>1, <2>2 DEF vs
    <3>2. (i < k <=> i <= Len(a)) /\ i - Len(a) = i - (k - 1)
      BY <2>2, <2>3
    <3> QED  BY <3>1, <3>2
  <2> QED  BY <2>4, <2>5
<1>5. \A i \in 1..n - 1 : From(i) \in 1..n /\ vs[i] = us[From(i)]
  <2> HIDE DEF a, b, n, vs
  <2> SUFFICES ASSUME NEW i \in 1..n - 1
               PROVE  From(i) \in 1..n /\ vs[i] = us[From(i)]
    OBVIOUS
  <2>1. CASE i < k
    <3>1. i \in 1..k - 1 /\ i \in 1..n
      BY <1>1, <2>1
    <3> QED  BY <1>2, <1>4, <2>1, <3>1
  <2>2. CASE ~(i < k)
    <3>1. i - (k - 1) \in 1..n - k /\ k + (i - (k - 1)) = i + 1 /\ i + 1 \in 1..n
      BY <1>1, <2>2
    <3>2. vs[i] = us[k + (i - (k - 1))]
      BY <1>3, <1>4, <2>2, <3>1
    <3> QED  BY <2>2, <3>1, <3>2
  <2> QED  BY <2>1, <2>2
<1> HIDE DEF vs
<1>6. SoundUsers(vs)
  <2>1. ASSUME NEW i \in DOMAIN vs, NEW j \in DOMAIN vs, vs[i].name = vs[j].name
        PROVE  i = j
    <3>1. From(i) \in 1..n /\ From(j) \in 1..n /\ us[From(i)].name = us[From(j)].name
      BY <1>4, <1>5, <2>1
    <3>2. From(i) = From(j)
      <4> HIDE DEF From, n
      <4>1. \A x, y \in 1..n : us[x].name = us[y].name => x = y
        BY <1>1
      <4> QED  BY ONLY <3>1, <4>1
    <3>3. i \in Int /\ j \in Int /\ k \in Int
      BY <1>1, <1>4
    <3> QED  BY ONLY <3>2, <3>3
  <2>2. ASSUME NEW i \in 2..Len(vs)
        PROVE  vs[i].name # "root" /\ vs[i].uid > 0
    <3>1. i \in 1..n - 1 /\ From(i) \in 2..n
      BY <1>1, <1>4
    <3> HIDE DEF From, n
    <3> QED  BY <1>1, <1>5, <3>1
  <2>3. \A i \in DOMAIN vs : vs[i].uid <= MaxUid
    <3> HIDE DEF From, n
    <3> QED  BY <1>1, <1>4, <1>5
  <2> QED  BY <1>1, <1>4, <2>1, <2>2, <2>3 DEF SoundUsers
<1>7. ASSUME NEW i \in DOMAIN us \ {k}
      PROVE  \E j \in DOMAIN vs : vs[j] = us[i]
  <2>1. CASE i < k
    <3>1. i \in 1..n - 1 /\ From(i) = i
      BY <1>1, <2>1
    <3> QED  BY <1>4, <1>5, <3>1
  <2>2. CASE i > k
    <3>1. i - 1 \in 1..n - 1 /\ From(i - 1) = i
      BY <1>1, <2>2
    <3> QED  BY <1>4, <1>5, <3>1
  <2> QED  BY <1>1, <2>1, <2>2
<1>8. \A j \in DOMAIN vs : \E i \in DOMAIN us : vs[j] = us[i]
  BY <1>1, <1>4, <1>5
<1> QED  BY <1>6, <1>7, <1>8 DEF vs

\* One record replaced by another whose name is new or the old one.
LEMMA ReplaceSound ==
    ASSUME NEW us, SoundUsers(us), NEW k \in DOMAIN us, NEW r \in Account,
           \A i \in DOMAIN us \ {k} : us[i].name # r.name,
           k > 1 => r.name # "root" /\ r.uid > 0, r.uid <= MaxUid
    PROVE  LET vs == [us EXCEPT ![k] = r]
           IN  SoundUsers(vs) /\ DOMAIN vs = DOMAIN us
               /\ \A i \in DOMAIN us : vs[i] = IF i = k THEN r ELSE us[i]
<1> DEFINE vs == [us EXCEPT ![k] = r]
<1>1. us \in Seq(Account) /\ DOMAIN us = 1..Len(us) /\ Len(us) \in Nat
  BY DEF SoundUsers
<1>2. DOMAIN vs = DOMAIN us /\ \A i \in DOMAIN us : vs[i] = IF i = k THEN r ELSE us[i]
  OBVIOUS
<1>3. vs \in Seq(Account) /\ Len(vs) = Len(us)
  <2>1. vs \in [1..Len(us) -> Account]
    BY <1>1
  <2> HIDE DEF vs
  <2> QED  BY <1>1, <2>1
<1> HIDE DEF vs
<1>4. \A i, j \in DOMAIN vs : vs[i].name = vs[j].name => i = j
  BY <1>2 DEF SoundUsers
<1>5. \A i \in 2..Len(vs) : vs[i].name # "root" /\ vs[i].uid > 0
  BY <1>1, <1>2, <1>3 DEF SoundUsers
<1>6. \A i \in DOMAIN vs : vs[i].uid <= MaxUid
  BY <1>2 DEF SoundUsers
<1>7. SoundUsers(vs)
  BY <1>3, <1>4, <1>5, <1>6 DEF SoundUsers
<1> QED  BY <1>2, <1>7 DEF vs

---------------------------------------------------------------------------
(***************************************************************************)
(* The table and the image, action by action.                              *)
(***************************************************************************)

\* Whatever is saved is a sound table.
LEMMA Saving ==
    ASSUME Memory', store_save
    PROVE  OnDisk'
BY DEF Memory, store_save, NewImage, OnDisk

\* Setting a password.
LEMMA PasswordMemory ==
    ASSUME Memory, NEW k, NEW p \in Seq(Characters),
           users' = [users EXCEPT ![k].pass = p], UNCHANGED <<groups, next_uid, is_setup>>
    PROVE  Memory' /\ DOMAIN users' = DOMAIN users
<1>1. SoundUsers(users) /\ users \in Seq(Account)
      /\ DOMAIN users = 1..Len(users) /\ Len(users) \in Nat
  BY UsersAt DEF Memory
<1>2. users' = [i \in DOMAIN users |->
                  IF i = k THEN [users[i] EXCEPT !.pass = p] ELSE users[i]]
  OBVIOUS
<1>3. ASSUME NEW i \in DOMAIN users
      PROVE  users'[i] \in Account /\ users'[i].name = users[i].name
             /\ users'[i].uid = users[i].uid
  <2>1. users[i] \in Account
    BY <1>1
  <2>2. users'[i] = IF i = k THEN [users[i] EXCEPT !.pass = p] ELSE users[i]
    BY <1>2
  <2> QED  BY ONLY <2>1, <2>2, p \in Seq(Characters) DEF Account
<1>4. users' \in [1..Len(users) -> Account]
  BY <1>1, <1>2, <1>3
<1>5. users' \in Seq(Account) /\ Len(users') = Len(users) /\ DOMAIN users' = DOMAIN users
  BY ONLY <1>1, <1>4
<1>6. SoundUsers(users')
  BY <1>1, <1>3, <1>5, SameAccounts
<1>7. SoundGroups(users', groups')
  BY <1>3, <1>5, SameNames DEF Memory
<1> QED  BY <1>3, <1>5, <1>6, <1>7 DEF Memory

\* user_add_full: the uid that is given out is above those in use, and one that
\* is asked for moves the next one up.
LEMMA AddMemory ==
    ASSUME Memory, NEW name \in Names, name # "root", NEW p \in Words,
           NEW uid \in Uids \cup {0}, user_add_full(name, p, uid)
    PROVE  Memory'
<1> USE AccountsAssumption
<1> DEFINE u == IF uid > 0 THEN uid ELSE next_uid
           r == [name |-> name, pass |-> p, uid |-> u]
<1>1. /\ users' = Append(users, r) /\ next_uid' = Above(next_uid, u)
      /\ u <= MaxUid /\ Len(users) < MAX_USERS /\ user_find(name) = {}
      /\ UNCHANGED <<groups, is_setup>>
  BY DEF user_add_full
<1>2. u \in 1..MaxUid /\ next_uid \in Nat
  BY <1>1 DEF Memory
<1> HIDE DEF u
<1>3. r \in Account /\ r.name = name /\ r.uid = u
  BY <1>2, WordsTyped DEF Account
<1>4. \A i \in DOMAIN users : users[i].name # name
  BY <1>1 DEF user_find
<1> HIDE DEF r
<1>5. /\ SoundUsers(users')
      /\ DOMAIN users \subseteq DOMAIN users'
      /\ \A i \in DOMAIN users : users'[i] = users[i]
      /\ \A i \in DOMAIN users' : i \in DOMAIN users \/ users'[i] = r
  BY <1>1, <1>2, <1>3, <1>4, AddSound DEF Memory
<1>6. SoundGroups(users', groups')
  BY <1>1, <1>5 DEF SoundGroups, Memory
<1>7. /\ next_uid' \in Nat \ {0} /\ u < next_uid'
      /\ \A x \in Nat : x < next_uid => x < next_uid'
  BY <1>1, <1>2 DEF Above, Memory
<1>8. ASSUME NEW i \in DOMAIN users'
      PROVE  users'[i].uid < next_uid'
  <2>1. CASE i \in DOMAIN users
    <3>1. users[i].uid \in Nat /\ users[i].uid < next_uid
      BY <2>1, UsersAt DEF Memory
    <3> QED  BY <1>5, <1>7, <2>1, <3>1
  <2>2. CASE users'[i] = r
    BY <1>3, <1>7, <2>2
  <2> QED  BY <1>5, <2>1, <2>2
<1> QED  BY <1>1, <1>5, <1>6, <1>7, <1>8 DEF Memory

\* userdel takes the account out of every group.
LEMMA DeleteMemory ==
    ASSUME Memory, NEW i \in DOMAIN users, cmd_userdel(i)
    PROVE  Memory'
<1>1. /\ i > 1 /\ users' = WithoutUser(i) /\ groups' = DropMember(users[i].name)
      /\ UNCHANGED <<next_uid, is_setup>>
  BY DEF cmd_userdel
<1>2. SoundUsers(users) /\ DOMAIN users = 1..Len(users) /\ Len(users) \in Nat
  BY UsersAt DEF Memory
<1>3. i \in 2..Len(users)
  BY <1>1, <1>2
<1>4. /\ SoundUsers(users')
      /\ \A x \in DOMAIN users \ {i} : \E j \in DOMAIN users' : users'[j] = users[x]
      /\ \A j \in DOMAIN users' : \E x \in DOMAIN users : users'[j] = users[x]
  BY <1>1, <1>2, <1>3, DeleteSound DEF WithoutUser
<1>5. SoundGroups(users', groups')
  <2>1. /\ groups' = [g \in DOMAIN groups |-> groups[g] \ {users[i].name}]
        /\ DOMAIN groups \subseteq GroupNames
        /\ \A g \in DOMAIN groups : \A m \in groups[g] :
              \E x \in DOMAIN users : users[x].name = m
    BY <1>1 DEF DropMember, Memory, SoundGroups
  <2>2. ASSUME NEW g \in DOMAIN groups, NEW m \in groups'[g]
        PROVE  \E j \in DOMAIN users' : users'[j].name = m
    <3>1. m \in groups[g] /\ m # users[i].name
      BY <2>1
    <3>2. PICK x \in DOMAIN users : users[x].name = m
      BY <2>1, <3>1
    <3> QED  BY <1>4, <3>1, <3>2
  <2> QED  BY <2>1, <2>2 DEF SoundGroups
<1>6. \A j \in DOMAIN users' : users'[j].uid < next_uid'
  BY <1>1, <1>4 DEF Memory
<1> QED  BY <1>1, <1>4, <1>5, <1>6 DEF Memory

\* usermod: a new name goes to the groups as well, a new uid moves the next
\* one up, also when locking root ends it half-way.
LEMMA ModifyMemory ==
    ASSUME Memory, NEW i \in DOMAIN users, NEW o \in Mods, cmd_usermod(i, o)
    PROVE  Memory' /\ DOMAIN users' = DOMAIN users
<1> USE AccountsAssumption
<1> DEFINE old == users[i]
           new == [name |-> Given(o.l, old.name), pass |-> Given(o.p, old.pass),
                   uid |-> IF o.u > 0 THEN o.u ELSE old.uid]
           refused == o.L /\ new.uid = 0
           locked == IF o.L THEN Locked(new.pass) ELSE new.pass
           r == IF refused THEN new
                ELSE [new EXCEPT !.pass = IF o.U THEN Unlocked(locked) ELSE locked]
           carried == [g \in DOMAIN groups |-> Renamed(groups[g], old.name, new.name)]
           listed == [g \in DOMAIN groups |->
                         IF g \in o.G THEN Plus(carried[g], new.name)
                         ELSE IF o.a THEN carried[g] ELSE carried[g] \ {new.name}]
<1>1. /\ users' = [users EXCEPT ![i] = r]
      /\ groups' = carried \/ groups' = listed
      /\ next_uid' = Above(next_uid, o.u) /\ is_setup' = is_setup
      /\ o.l # None => user_find(o.l) = {}
  BY DEF cmd_usermod
<1>2. /\ o.l \in (Names \ {"root"}) \cup {None} /\ o.p \in (Words \ {<<>>}) \cup {None}
      /\ o.u \in Uids \cup {0} /\ o.u \in 0..MaxUid
  <2>1. o \in Options
    OBVIOUS
  <2>2. o.l \in (Names \ {"root"}) \cup {None} /\ o.p \in (Words \ {<<>>}) \cup {None}
    BY ONLY <2>1 DEF Options
  <2>3. o.u \in Uids \cup {0}
    BY ONLY <2>1 DEF Options
  <2>4. o.u \in 0..MaxUid
    BY ONLY <2>3, UidsBounded
  <2> QED  BY <2>2, <2>3, <2>4
<1>3. SoundUsers(users) /\ DOMAIN users = 1..Len(users) /\ Len(users) \in Nat
  BY UsersAt DEF Memory
<1>4. /\ old \in Account /\ old.name \in Names /\ old.pass \in Seq(Characters)
      /\ old.uid \in Nat /\ old.uid <= MaxUid /\ old.uid < next_uid
      /\ i > 1 => old.name # "root" /\ old.uid > 0
  <2>1. users[i] \in Account /\ users[i].uid <= MaxUid
    BY <1>3, UsersAt
  <2>2. i > 1 => i \in 2..Len(users)
    BY <1>3
  <2>3. i > 1 => users[i].name # "root" /\ users[i].uid > 0
    BY <1>3, <2>2 DEF SoundUsers
  <2>4. users[i].uid < next_uid
    BY DEF Memory
  <2> QED  BY <2>1, <2>3, <2>4 DEF Account
<1> HIDE DEF old
<1>5. /\ new.name \in Names /\ new.name = Given(o.l, old.name)
      /\ new.pass \in Seq(Characters) /\ new.uid \in 0..MaxUid
      /\ new.uid = IF o.u > 0 THEN o.u ELSE old.uid
  <2>1. Given(o.l, old.name) \in Names
    BY <1>2, <1>4 DEF Given
  <2>2. Given(o.p, old.pass) \in Seq(Characters)
    BY <1>2, <1>4, WordsTyped DEF Given
  <2>3. (IF o.u > 0 THEN o.u ELSE old.uid) \in 0..MaxUid
    BY <1>2, <1>4
  <2> QED  BY <2>1, <2>2, <2>3
<1>6. r \in Account /\ r.name = new.name /\ r.uid = new.uid
  <2>1. locked \in Seq(Characters)
    <3> HIDE DEF new
    <3> DEFINE pass == new.pass
    <3>2. "!" \in Characters
      BY DEF Characters
    <3>3. <<"!">> \in Seq(Characters)
      BY ONLY <3>2
    <3>0. pass \in Seq(Characters) /\ <<"!">> \in Seq(Characters)
      BY <1>5, <3>3
    <3>1. <<"!">> \o pass \in Seq(Characters)
      <4> HIDE DEF pass
      <4> QED  BY ONLY <3>0
    <3> QED  BY <1>5, <3>1 DEF Locked
  <2>2. (IF o.U THEN Unlocked(locked) ELSE locked) \in Seq(Characters)
    <3> HIDE DEF locked
    <3>1. locked # <<>> => Tail(locked) \in Seq(Characters)
      BY <2>1
    <3> QED  BY <2>1, <3>1 DEF Unlocked
  <2> DEFINE pw == IF o.U THEN Unlocked(locked) ELSE locked
  <2>3. new \in Account
    BY <1>5 DEF Account
  <2>4. r = IF refused THEN new ELSE [new EXCEPT !.pass = pw]
    OBVIOUS
  <2> HIDE DEF pw, new, r, refused
  <2>5. pw \in Seq(Characters)
    BY <2>2 DEF pw
  <2> QED  BY <2>3, <2>4, <2>5 DEF Account
<1> HIDE DEF new, r
<1>7. \A x \in DOMAIN users \ {i} : users[x].name # r.name
  <2>1. CASE o.l = None
    BY <1>3, <1>5, <1>6, <2>1 DEF Given, SoundUsers, old
  <2>2. CASE o.l # None
    BY <1>1, <1>5, <1>6, <2>2 DEF Given, user_find
  <2> QED  BY <2>1, <2>2
<1>8. /\ i > 1 => r.name # "root" /\ r.uid > 0
      /\ r.uid \in Nat /\ r.uid <= MaxUid
  <2>1. i > 1 => Given(o.l, old.name) # "root"
    BY <1>2, <1>4 DEF Given
  <2>2. i > 1 => (IF o.u > 0 THEN o.u ELSE old.uid) > 0
    BY <1>2, <1>4
  <2> QED  BY <1>5, <1>6, <2>1, <2>2
<1>9. /\ SoundUsers(users') /\ DOMAIN users' = DOMAIN users
      /\ \A x \in DOMAIN users : users'[x] = IF x = i THEN r ELSE users[x]
  BY <1>1, <1>3, <1>6, <1>7, <1>8, ReplaceSound
<1>10. SoundGroups(users', groups')
  <2>1. /\ DOMAIN groups \subseteq GroupNames
        /\ \A g \in DOMAIN groups : \A m \in groups[g] :
              \E x \in DOMAIN users : users[x].name = m
    BY DEF Memory, SoundGroups
  <2>2. DOMAIN groups' = DOMAIN groups /\ groups' = [g \in DOMAIN groups' |-> groups'[g]]
    BY <1>1
  <2>3. ASSUME NEW g \in DOMAIN groups
        PROVE  groups'[g] \subseteq {new.name} \cup (groups[g] \ {old.name})
    <3>1. carried[g] \subseteq {new.name} \cup (groups[g] \ {old.name})
      BY DEF Renamed
    <3>2. CASE groups' = carried
      <4> HIDE DEF carried
      <4> QED  BY <3>1, <3>2
    <3>3. CASE groups' = listed
      <4>1. groups'[g] \subseteq carried[g] \cup {new.name}
        <5> HIDE DEF carried
        <5>1. groups'[g] = IF g \in o.G THEN Plus(carried[g], new.name)
                           ELSE IF o.a THEN carried[g] ELSE carried[g] \ {new.name}
          BY <3>3
        <5> QED  BY <5>1 DEF Plus
      <4> HIDE DEF carried
      <4> QED  BY <3>1, <4>1
    <3> QED  BY <1>1, <3>2, <3>3
  <2>4. ASSUME NEW g \in DOMAIN groups, NEW m \in groups'[g]
        PROVE  \E x \in DOMAIN users' : users'[x].name = m
    <3>1. CASE m = new.name
      BY <1>6, <1>9, <3>1
    <3>2. CASE m \in groups[g] \ {old.name}
      <4>1. PICK x \in DOMAIN users : users[x].name = m
        BY <2>1, <3>2
      <4>2. x # i
        BY <3>2, <4>1 DEF old
      <4> QED  BY <1>9, <4>1, <4>2
    <3> QED  BY <2>3, <3>1, <3>2
  <2> HIDE DEF carried, listed
  <2> QED  BY <2>1, <2>2, <2>4 DEF SoundGroups
<1>11. /\ next_uid' \in Nat \ {0} /\ r.uid < next_uid'
       /\ \A x \in Nat : x < next_uid => x < next_uid'
  <2>1. next_uid \in Nat \ {0}
    BY DEF Memory
  <2>2. /\ next_uid' \in Nat \ {0} /\ next_uid' >= next_uid /\ o.u < next_uid'
    BY <1>1, <1>2, <2>1 DEF Above
  <2>3. r.uid < next_uid'
    BY <1>4, <1>5, <1>6, <1>2, <2>1, <2>2
  <2> QED  BY <2>1, <2>2, <2>3
<1>12. ASSUME NEW x \in DOMAIN users'
       PROVE  users'[x].uid < next_uid'
  <2>1. CASE x = i
    BY <1>9, <1>11, <2>1
  <2>2. CASE x # i
    <3>1. users[x].uid \in Nat /\ users[x].uid < next_uid /\ users'[x] = users[x]
      BY <1>3, <1>9, <2>2, UsersAt DEF Memory
    <3> QED  BY <1>11, <3>1
  <2> QED  BY <2>1, <2>2
<1> QED  BY <1>1, <1>9, <1>10, <1>11, <1>12 DEF Memory

\* groupadd and groupdel.
LEMMA GroupMemory ==
    ASSUME Memory, NEW g \in GroupNames, cmd_groupadd(g) \/ cmd_groupdel(g)
    PROVE  Memory'
<1>1. users' = users /\ next_uid' = next_uid /\ is_setup' = is_setup
  BY DEF cmd_groupadd, cmd_groupdel
<1>2. SoundGroups(users', groups')
  <2>1. CASE cmd_groupadd(g)
    BY <1>1, <2>1 DEF cmd_groupadd, Memory, SoundGroups
  <2>2. CASE cmd_groupdel(g)
    BY <1>1, <2>2 DEF cmd_groupdel, Memory, SoundGroups
  <2> QED  BY <2>1, <2>2
<1> QED  BY <1>1, <1>2 DEF Memory

---------------------------------------------------------------------------
(***************************************************************************)
(* The session, action by action.                                          *)
(***************************************************************************)
Session == SessionTypes /\ InShell /\ Rights

\* What leaves the session alone may change the table while no passwd runs.
LEMMA SameSession ==
    ASSUME Session, UNCHANGED session,
           changing = NoChange \/ DOMAIN users' = DOMAIN users
    PROVE  Session'
<1>1. UNCHANGED <<phase, cur, fs_cur_uid, calls, changing, left>>
  BY DEF session
<1>2. SessionTypes' /\ Rights'
  BY <1>1 DEF Session, SessionTypes, Rights, IsSudo
<1>3. InShell'
  BY <1>1 DEF Session, InShell
<1> QED  BY <1>2, <1>3 DEF Session

\* login and su: the session's user and the uid for files agree again.
LEMMA UserSession ==
    ASSUME Session, Memory, NEW i \in DOMAIN users, set_session_user(i),
           phase' = "shell", changing = NoChange, UNCHANGED <<users, calls, changing>>
    PROVE  Session'
<1>1. users[i].name \in Names /\ users[i].uid \in Nat
  BY UsersAt DEF Memory
<1>2. /\ cur' = [name |-> users[i].name, uid |-> users[i].uid]
      /\ fs_cur_uid' = users[i].uid /\ left' = (left /\ calls # <<>>)
  BY DEF set_session_user
<1>3. SessionTypes'
  BY <1>1, <1>2 DEF Session, SessionTypes
<1>4. InShell'
  BY DEF Session, InShell
<1>5. Rights'
  <2>1. fs_cur_uid' = cur'.uid
    BY <1>2
  <2>2. CASE calls = <<>>
    <3>1. DOMAIN calls' = {}
      BY <2>2
    <3> QED  BY <2>1, <3>1 DEF Rights
  <2>3. CASE ~left
    BY <2>1, <2>3 DEF Session, Rights, IsSudo
  <2>4. CASE left /\ calls # <<>>
    <3>1. left'
      BY <1>2, <2>4
    <3> QED  BY <3>1 DEF Rights
  <2> QED  BY <2>2, <2>3, <2>4 DEF Session, SessionTypes
<1> QED  BY <1>3, <1>4, <1>5 DEF Session

\* A frame on top.
LEMMA PushAt ==
    ASSUME calls \in Seq(Frame), NEW f \in Frame, calls' = Append(calls, f)
    PROVE  /\ calls' \in Seq(Frame) /\ DOMAIN calls = 1..Len(calls) /\ Len(calls) \in Nat
           /\ DOMAIN calls' = 1..Len(calls) + 1
           /\ \A k \in 1..Len(calls) : calls'[k] = calls[k]
           /\ calls'[Len(calls) + 1] = f
OBVIOUS

\* Frames off the top.
LEMMA PopAt ==
    ASSUME calls \in Seq(Frame), NEW n \in 0..Len(calls), calls' = SubSeq(calls, 1, n)
    PROVE  /\ calls' \in Seq(Frame) /\ DOMAIN calls = 1..Len(calls) /\ Len(calls) \in Nat
           /\ DOMAIN calls' = 1..n
           /\ \A k \in 1..n : calls'[k] = calls[k]
<1>1. n \in Nat /\ n <= Len(calls) /\ Len(calls) \in Nat
  OBVIOUS
<1>2. calls' = [k \in 1..n |-> calls[k]]
  BY <1>1
<1>3. \A k \in 1..n : calls[k] \in Frame
  BY <1>1
<1>4. calls' \in [1..n -> Frame]
  BY ONLY <1>2, <1>3
<1>5. calls' \in Seq(Frame) /\ DOMAIN calls' = 1..n
  BY ONLY <1>1, <1>4
<1> QED  BY <1>1, <1>2, <1>5

\* sudo: outside of every other sudo it saves the uid of a user who is not
\* root.
LEMMA SudoSession ==
    ASSUME Session, NEW p, Sudo(p)
    PROVE  Session'
<1> DEFINE f == [op |-> "sudo", saved_uid |-> fs_cur_uid]
           n == Len(calls)
<1>1. /\ phase = "shell" /\ changing = NoChange /\ cur.uid # 0
      /\ calls' = Append(calls, f) /\ fs_cur_uid' = 0
      /\ UNCHANGED <<users, phase, cur, changing, left>>
  BY DEF Sudo, Prompt, table
<1>2. f \in Frame /\ calls \in Seq(Frame)
  BY DEF Frame, Session, SessionTypes
<1>3. /\ calls' \in Seq(Frame) /\ DOMAIN calls = 1..n /\ n \in Nat
      /\ DOMAIN calls' = 1..n + 1
      /\ \A k \in 1..n : calls'[k] = calls[k]
      /\ calls'[n + 1] = f
  <2> HIDE DEF f
  <2> QED  BY <1>1, <1>2, PushAt
<1>4. SessionTypes'
  BY <1>1, <1>3 DEF Session, SessionTypes
<1>5. InShell'
  BY <1>1 DEF Session, InShell
<1>6. Rights'
  <2> SUFFICES ASSUME ~left
               PROVE  Rights'
    BY <1>1 DEF Rights, Session, SessionTypes
  <2>1. calls'[n + 1].op = "sudo" /\ calls'[n + 1].saved_uid = fs_cur_uid
    BY <1>3
  <2> HIDE DEF f, n
  <2>2. \E k \in DOMAIN calls' : IsSudo(k)'
    <3>1. n + 1 \in DOMAIN calls'
      BY <1>3
    <3> QED  BY <2>1, <3>1 DEF IsSudo
  <2>3. ASSUME NEW k \in DOMAIN calls', IsSudo(k)', \A j \in 1..k - 1 : ~IsSudo(j)'
        PROVE  calls'[k].saved_uid # 0
    <3>1. CASE k \in 1..n
      <4>1. IsSudo(k) /\ \A j \in 1..k - 1 : ~IsSudo(j)
        <5>1. \A j \in 1..k - 1 : j \in 1..n
          BY <1>3, <3>1
        <5> QED  BY <1>3, <2>3, <3>1, <5>1 DEF IsSudo
      <4> QED  BY <1>3, <3>1, <4>1 DEF Session, Rights
    <3>2. CASE k = n + 1
      <4>1. \A j \in 1..n : ~IsSudo(j)
        <5>1. k - 1 = n
          BY <1>3, <3>2
        <5> QED  BY <1>3, <2>3, <5>1 DEF IsSudo
      <4>2. fs_cur_uid # 0
        BY <1>1, <1>3, <4>1 DEF Session, Rights
      <4> QED  BY <2>1, <3>2, <4>2
    <3> QED  BY <1>3, <3>1, <3>2
  <2> QED  BY <2>2, <2>3 DEF Rights
<1> QED  BY <1>4, <1>5, <1>6 DEF Session

\* The end of a sudo: that of the outermost puts back a uid that is not 0.
LEMMA SudoDoneSession ==
    ASSUME Session, SudoDone
    PROVE  Session'
<1> DEFINE n == Len(calls)
<1>1. /\ calls # <<>> /\ calls[n].op = "sudo" /\ changing = NoChange
      /\ fs_cur_uid' = calls[n].saved_uid /\ calls' = SubSeq(calls, 1, n - 1)
      /\ UNCHANGED <<users, phase, cur, changing, left>>
  BY DEF SudoDone, table
<1>2. calls \in Seq(Frame) /\ n \in Nat /\ n >= 1 /\ n - 1 \in 0..Len(calls)
  <2>1. calls \in Seq(Frame)
    BY DEF Session, SessionTypes
  <2>2. Len(calls) \in Nat /\ Len(calls) # 0
    BY <1>1, <2>1
  <2> QED  BY <2>1, <2>2
<1>3. /\ calls' \in Seq(Frame) /\ DOMAIN calls = 1..n
      /\ DOMAIN calls' = 1..n - 1
      /\ \A k \in 1..n - 1 : calls'[k] = calls[k]
  BY <1>1, <1>2, PopAt
<1>4. calls[n].saved_uid \in Nat
  <2>1. calls[n] \in Frame
    BY <1>2
  <2> QED  BY <1>1, <2>1 DEF Frame
<1> HIDE DEF n
<1>5. SessionTypes'
  BY <1>1, <1>3, <1>4 DEF Session, SessionTypes
<1>6. InShell'
  BY <1>1 DEF Session, InShell
<1>7. Rights'
  <2> SUFFICES ASSUME ~left
               PROVE  Rights'
    BY <1>1 DEF Rights, Session, SessionTypes
  <2>1. ASSUME \A k \in DOMAIN calls' : ~IsSudo(k)'
        PROVE  fs_cur_uid' # 0
    <3>1. \A j \in 1..n - 1 : ~IsSudo(j)
      BY <1>3, <2>1 DEF IsSudo
    <3>2. n \in DOMAIN calls /\ IsSudo(n)
      BY <1>1, <1>2, <1>3 DEF IsSudo
    <3> QED  BY <1>1, <3>1, <3>2 DEF Session, Rights
  <2>2. ASSUME NEW k \in DOMAIN calls', IsSudo(k)', \A j \in 1..k - 1 : ~IsSudo(j)'
        PROVE  calls'[k].saved_uid # 0
    <3>1. k \in DOMAIN calls /\ \A j \in 1..k - 1 : j \in 1..n - 1
      BY <1>2, <1>3
    <3>2. IsSudo(k) /\ \A j \in 1..k - 1 : ~IsSudo(j)
      BY <1>3, <2>2, <3>1 DEF IsSudo
    <3> QED  BY <1>3, <3>1, <3>2 DEF Session, Rights
  <2> QED  BY <2>1, <2>2 DEF Rights
<1> QED  BY <1>5, <1>6, <1>7 DEF Session

\* A program starts; it is no sudo.
LEMMA ProgramSession ==
    ASSUME Session, Program
    PROVE  Session'
<1> DEFINE f == [op |-> "program"]
           n == Len(calls)
<1>1. /\ phase = "shell" /\ changing = NoChange /\ calls' = Append(calls, f)
      /\ UNCHANGED <<users, phase, cur, fs_cur_uid, changing, left>>
  BY DEF Program, Prompt, table
<1>2. f \in Frame /\ f.op # "sudo" /\ calls \in Seq(Frame)
  BY DEF Frame, Session, SessionTypes
<1> HIDE DEF f
<1>3. /\ calls' \in Seq(Frame) /\ DOMAIN calls = 1..n /\ n \in Nat
      /\ DOMAIN calls' = 1..n + 1
      /\ \A k \in 1..n : calls'[k] = calls[k]
      /\ calls'[n + 1] = f
  BY <1>1, <1>2, PushAt
<1> HIDE DEF n
<1>4. SessionTypes'
  BY <1>1, <1>3 DEF Session, SessionTypes
<1>5. InShell'
  BY <1>1 DEF Session, InShell
<1>6. Rights'
  <2> SUFFICES ASSUME ~left
               PROVE  Rights'
    BY <1>1 DEF Rights, Session, SessionTypes
  <2>1. ASSUME \A k \in DOMAIN calls' : ~IsSudo(k)'
        PROVE  fs_cur_uid' = 0 => cur'.uid = 0
    <3>1. \A k \in DOMAIN calls : ~IsSudo(k)
      BY <1>3, <2>1 DEF IsSudo
    <3> QED  BY <1>1, <3>1 DEF Session, Rights
  <2>2. ASSUME NEW k \in DOMAIN calls', IsSudo(k)', \A j \in 1..k - 1 : ~IsSudo(j)'
        PROVE  calls'[k].saved_uid # 0
    <3>1. k \in 1..n
      BY <1>2, <1>3, <2>2 DEF IsSudo
    <3>2. \A j \in 1..k - 1 : j \in 1..n
      BY <1>3, <3>1
    <3>3. IsSudo(k) /\ \A j \in 1..k - 1 : ~IsSudo(j)
      BY <1>3, <2>2, <3>1, <3>2 DEF IsSudo
    <3> QED  BY <1>3, <3>1, <3>3 DEF Session, Rights
  <2> QED  BY <2>1, <2>2 DEF Rights
<1> QED  BY <1>4, <1>5, <1>6 DEF Session

\* The innermost program ends: what it leaves behind is noted, and if there is
\* nothing, only the program itself is off the stack.
LEMMA ProgramEndsSession ==
    ASSUME Session, ProgramEnds
    PROVE  Session'
<1>1. PICK k \in Programs :
         /\ calls' = SubSeq(calls, 1, k - 1) /\ changing' = NoChange
         /\ left' = (left \/ k < Len(calls))
         /\ UNCHANGED <<users, phase, cur, fs_cur_uid>>
  BY DEF ProgramEnds, table
<1>2. /\ calls \in Seq(Frame) /\ Len(calls) \in Nat /\ k \in 1..Len(calls)
      /\ calls[k].op = "program" /\ k - 1 \in 0..Len(calls)
  <2>1. calls \in Seq(Frame)
    BY DEF Session, SessionTypes
  <2>2. k \in DOMAIN calls /\ calls[k].op = "program"
    BY DEF Programs
  <2>3. Len(calls) \in Nat /\ k \in 1..Len(calls)
    BY ONLY <2>1, <2>2
  <2> QED  BY <2>1, <2>2, <2>3
<1>3. /\ calls' \in Seq(Frame) /\ DOMAIN calls = 1..Len(calls)
      /\ DOMAIN calls' = 1..k - 1
      /\ \A j \in 1..k - 1 : calls'[j] = calls[j]
  BY <1>1, <1>2, PopAt
<1>4. SessionTypes'
  BY <1>1, <1>3 DEF Session, SessionTypes
<1>5. InShell'
  <2>1. phase = "shell"
    <3>1. calls # <<>>
      BY <1>2
    <3> QED  BY <3>1 DEF Session, InShell
  <2> QED  BY <1>1, <2>1 DEF InShell, NoChange
<1>6. Rights'
  <2> SUFFICES ASSUME ~left'
               PROVE  Rights'
    BY DEF Rights
  <2>1. ~left /\ k = Len(calls)
    <3>1. ~left /\ ~(k < Len(calls))
      BY <1>1, Zenon
    <3> QED  BY <1>2, <3>1
  <2>2. \A j \in 1..Len(calls) : j = k \/ j \in 1..k - 1
    BY <1>2, <2>1
  <2>3. ASSUME \A j \in DOMAIN calls' : ~IsSudo(j)'
        PROVE  fs_cur_uid' = 0 => cur'.uid = 0
    <3>1. \A j \in DOMAIN calls : ~IsSudo(j)
      BY <1>2, <1>3, <2>2, <2>3 DEF IsSudo
    <3> QED  BY <1>1, <2>1, <3>1 DEF Session, Rights
  <2>4. ASSUME NEW j \in DOMAIN calls', IsSudo(j)', \A x \in 1..j - 1 : ~IsSudo(x)'
        PROVE  calls'[j].saved_uid # 0
    <3>1. j \in DOMAIN calls /\ \A x \in 1..j - 1 : x \in 1..k - 1
      BY <1>2, <1>3
    <3>2. IsSudo(j) /\ \A x \in 1..j - 1 : ~IsSudo(x)
      BY <1>3, <2>4, <3>1 DEF IsSudo
    <3> QED  BY <1>3, <2>1, <3>1, <3>2 DEF Session, Rights
  <2> QED  BY <2>3, <2>4 DEF Rights
<1> QED  BY <1>4, <1>5, <1>6 DEF Session

\* passwd goes on, on the same account, or ends.
LEMMA PasswdSession ==
    ASSUME Session, UNCHANGED <<phase, cur, fs_cur_uid, calls, left>>,
           phase = "shell", DOMAIN users' = DOMAIN users,
           \/ changing' = NoChange
           \/ changing' \in [i : DOMAIN users, attempt : 0..1, pw1 : Words]
    PROVE  Session'
<1>1. SessionTypes' /\ Rights'
  BY DEF Session, SessionTypes, Rights, IsSudo
<1>2. InShell'
  BY DEF InShell, NoChange
<1> QED  BY <1>1, <1>2 DEF Session

\* NewPassword and Retype: one password changes, and passwd goes on or ends.
LEMMA PasswdStep ==
    ASSUME Memory, OnDisk, Session, NEW p \in Words, NewPassword(p) \/ Retype(p)
    PROVE  Memory' /\ OnDisk' /\ Session'
<1> USE AccountsAssumption
<1>0. /\ changing # NoChange /\ UNCHANGED <<phase, cur, fs_cur_uid, calls, left>>
      /\ UNCHANGED <<groups, next_uid, is_setup>>
  BY DEF NewPassword, Retype
<1>1. /\ changing \in [i : DOMAIN users, attempt : 0..1, pw1 : Words]
      /\ phase = "shell"
  BY <1>0 DEF Session, InShell
<1>2. <<>> \in Seq(Characters) /\ p \in Seq(Characters)
  BY WordsTyped
<1>3. CASE NewPassword(p)
  <2>1. users' = [users EXCEPT ![changing.i].pass = <<>>]
    BY <1>3 DEF NewPassword
  <2>2. Memory' /\ DOMAIN users' = DOMAIN users
    BY <1>0, <1>2, <2>1, PasswordMemory
  <2>3. OnDisk'
    <3>1. store_save \/ disk' = disk
      BY <1>3 DEF NewPassword
    <3>2. CASE store_save
      BY <2>2, <3>2, Saving
    <3>3. CASE disk' = disk
      BY <3>3 DEF OnDisk
    <3> QED  BY <3>1, <3>2, <3>3
  <2>4. \/ changing' = NoChange
        \/ changing' \in [i : DOMAIN users, attempt : 0..1, pw1 : Words]
    <3>1. changing' = NoChange \/ changing' = [changing EXCEPT !.pw1 = p]
      BY <1>3 DEF NewPassword
    <3> QED  BY <1>1, <3>1
  <2> QED  BY <1>0, <1>1, <2>2, <2>3, <2>4, PasswdSession
<1>4. CASE Retype(p)
  <2>1. CASE p = changing.pw1
    <3>1. /\ users' = [users EXCEPT ![changing.i].pass = p]
          /\ changing' = NoChange /\ store_save
      BY <1>4, <2>1 DEF Retype
    <3>2. Memory' /\ DOMAIN users' = DOMAIN users
      BY <1>0, <1>2, <3>1, PasswordMemory
    <3>3. OnDisk'
      BY <3>1, <3>2, Saving
    <3> QED  BY <1>0, <1>1, <3>1, <3>2, <3>3, PasswdSession
  <2>2. CASE p # changing.pw1
    <3>1. /\ users' = users /\ disk' = disk
          /\ \/ changing' = NoChange
             \/ changing' = [i |-> changing.i, attempt |-> 1, pw1 |-> <<>>]
      BY <1>1, <1>4, <2>2 DEF Retype
    <3>2. Memory' /\ OnDisk'
      BY <1>0, <3>1 DEF Memory, OnDisk
    <3>3. \/ changing' = NoChange
          \/ changing' \in [i : DOMAIN users, attempt : 0..1, pw1 : Words]
      <4>1. changing.i \in DOMAIN users
        BY <1>1
      <4>2. CASE changing' = [i |-> changing.i, attempt |-> 1, pw1 |-> <<>>]
        BY <4>1, <4>2
      <4> QED  BY <3>1, <4>2
    <3> QED  BY <1>0, <1>1, <3>1, <3>2, <3>3, PasswdSession
  <2> QED  BY <2>1, <2>2
<1> QED  BY <1>3, <1>4

\* A restart: the image becomes the table, nobody is logged in.
LEMMA RebootStep ==
    ASSUME Memory, OnDisk, Session, Reboot
    PROVE  Memory' /\ OnDisk' /\ Session'
<1>1. /\ users' = LoadedUsers(disk) /\ groups' = LoadedGroups(disk)
      /\ next_uid' = LoadedNext(disk) /\ is_setup' = disk.is_setup
      /\ phase' = BootPhase(disk) /\ cur' = [name |-> "root", uid |-> 0]
      /\ fs_cur_uid' = 0 /\ calls' = <<>> /\ changing' = NoChange /\ left' = FALSE
      /\ disk' = disk
  BY DEF Reboot
<1>2. SoundUsers(disk.users) /\ SoundGroups(disk.users, disk.groups)
      /\ disk.is_setup \in BOOLEAN
  BY DEF OnDisk
<1>3. Memory'
  <2>1. /\ SoundUsers(LoadedUsers(disk))
        /\ SoundGroups(LoadedUsers(disk), LoadedGroups(disk))
        /\ LoadedNext(disk) \in Nat \ {0}
        /\ \A i \in DOMAIN LoadedUsers(disk) : LoadedUsers(disk)[i].uid < LoadedNext(disk)
    BY <1>2, LoadSound
  <2> QED  BY <1>1, <1>2, <2>1 DEF Memory
<1>4. OnDisk'
  BY <1>1 DEF OnDisk
<1>5. SessionTypes'
  <2>1. phase' \in {"root password", "login"}
    BY <1>1 DEF BootPhase
  <2>2. cur' \in [name : Names, uid : Nat] /\ fs_cur_uid' \in Nat
    BY <1>1, AccountsAssumption
  <2>3. calls' \in Seq(Frame)
    BY <1>1
  <2> QED  BY <1>1, <2>1, <2>2, <2>3 DEF SessionTypes
<1>6. InShell'
  BY <1>1 DEF InShell, NoChange
<1>7. Rights'
  <2>1. DOMAIN calls' = {} /\ cur'.uid = 0
    BY <1>1
  <2> QED  BY <2>1 DEF Rights
<1> QED  BY <1>3, <1>4, <1>5, <1>6, <1>7 DEF Session

\* The wizard's first question, and prompt_root_password.
LEMMA RootPasswordStep ==
    ASSUME Memory, OnDisk, Session, NEW p \in Words, RootPassword(p)
    PROVE  Memory' /\ OnDisk' /\ Session'
<1>1. /\ users' = [users EXCEPT ![1].pass = p] /\ phase = "root password"
      /\ phase' \in {"login", "accounts"}
      /\ UNCHANGED <<groups, next_uid, is_setup, cur, fs_cur_uid, calls, changing, left>>
      /\ store_save \/ disk' = disk
  BY DEF RootPassword
<1>2. Memory'
  BY <1>1, WordsTyped, PasswordMemory
<1>3. OnDisk'
  <2>1. CASE store_save
    BY <1>2, <2>1, Saving
  <2>2. CASE disk' = disk
    BY <2>2 DEF OnDisk
  <2> QED  BY <1>1, <2>1, <2>2
<1>4. calls = <<>> /\ changing = NoChange
  BY <1>1 DEF Session, InShell
<1>5. SessionTypes' /\ Rights'
  BY <1>1 DEF Session, SessionTypes, Rights, IsSudo
<1>6. InShell'
  BY <1>1, <1>4 DEF InShell, NoChange
<1> QED  BY <1>2, <1>3, <1>5, <1>6 DEF Session

\* What ends the wizard or the session keeps the table.
LEMMA PhaseStep ==
    ASSUME Memory, OnDisk, Session, WizardEnd \/ cmd_exit
    PROVE  Memory' /\ OnDisk' /\ Session'
<1>1. /\ phase' = "login" /\ calls = <<>> /\ changing = NoChange
      /\ UNCHANGED <<users, groups, next_uid, cur, fs_cur_uid, calls, changing, left>>
      /\ is_setup' \in BOOLEAN
      /\ store_save \/ disk' = disk
  BY DEF WizardEnd, cmd_exit, table, Session, InShell, Memory, Prompt
<1>2. Memory'
  BY <1>1 DEF Memory
<1>3. OnDisk'
  <2>1. CASE store_save
    BY <1>2, <2>1, Saving
  <2>2. CASE disk' = disk
    BY <2>2 DEF OnDisk
  <2> QED  BY <1>1, <2>1, <2>2
<1>4. SessionTypes' /\ Rights'
  BY <1>1 DEF Session, SessionTypes, Rights, IsSudo
<1>5. InShell'
  BY <1>1 DEF InShell, NoChange
<1> QED  BY <1>2, <1>3, <1>4, <1>5 DEF Session

---------------------------------------------------------------------------
(***************************************************************************)
(* The theorems.                                                           *)
(***************************************************************************)

\* A fresh system.
LEMMA AccountsStart == Init => AccountsInv
<1> SUFFICES ASSUME Init
             PROVE  AccountsInv
    OBVIOUS
<1> USE AccountsAssumption
<1>1. Root0 \in Account /\ Root0.uid = 0
  <2>1. <<>> \in Seq(Characters)
    OBVIOUS
  <2> QED  BY <2>1 DEF Root0, Account
<1>2. /\ users = <<Root0>> /\ groups = [g \in {} |-> {}] /\ next_uid = FIRST_UID
      /\ is_setup = FALSE /\ disk = Image
  BY DEF Init
<1>3. /\ users \in Seq(Account) /\ Len(users) = 1 /\ DOMAIN users = {1}
      /\ users[1] = Root0
  BY <1>1, <1>2
<1>4. SoundUsers(users)
  BY <1>1, <1>3 DEF SoundUsers
<1>5. SoundGroups(users, groups)
  BY <1>2 DEF SoundGroups
<1>6. Memory
  <2>1. FIRST_UID \in Nat \ {0}
    OBVIOUS
  <2>2. next_uid \in Nat \ {0} /\ \A i \in DOMAIN users : users[i].uid < next_uid
    BY ONLY <1>1, <1>2, <1>3, <2>1
  <2> QED  BY <1>2, <1>4, <1>5, <2>2 DEF Memory
<1>7. OnDisk
  BY <1>2, <1>4, <1>5 DEF OnDisk, Image
<1>8. SessionTypes /\ InShell
  <2>1. /\ phase = "root password" /\ cur = [name |-> "root", uid |-> 0]
        /\ fs_cur_uid = 0 /\ calls = <<>> /\ changing = NoChange /\ left = FALSE
    BY DEF Init
  <2>2. cur \in [name : Names, uid : Nat]
    <3>1. "root" \in Names
      OBVIOUS
    <3> QED  BY ONLY <2>1, <3>1
  <2>3. calls \in Seq(Frame)
    <3>1. calls = <<>>
      BY <2>1
    <3> QED  BY ONLY <3>1
  <2>4. SessionTypes
    BY <2>1, <2>2, <2>3 DEF SessionTypes
  <2>5. InShell
    BY <2>1 DEF InShell
  <2> QED  BY <2>4, <2>5
<1>9. Rights
  <2>1. DOMAIN calls = {} /\ cur.uid = 0
    <3>1. calls = <<>> /\ cur = [name |-> "root", uid |-> 0]
      BY DEF Init
    <3> QED  BY ONLY <3>1
  <2> QED  BY <2>1 DEF Rights
<1> QED  BY <1>6, <1>7, <1>8, <1>9 DEF AccountsInv

\* Every step of the shell, of login and of setup, and every restart.
LEMMA AccountsStep == AccountsInv /\ [Next]_vars => AccountsInv'
<1> SUFFICES ASSUME AccountsInv, [Next]_vars
             PROVE  Memory' /\ OnDisk' /\ Session'
    BY DEF AccountsInv, Session
<1>0. Memory /\ OnDisk /\ Session
  BY DEF AccountsInv, Session
<1>1. CASE Reboot
  BY <1>0, <1>1, RebootStep
<1>2. CASE WizardEnd \/ cmd_exit
  BY <1>0, <1>2, PhaseStep
<1>3. CASE SaveOther
  <2>1. UNCHANGED <<users, groups, next_uid, is_setup, session>> /\ disk' = Image
    BY <1>3 DEF SaveOther, table
  <2>2. Memory'
    BY <1>0, <2>1 DEF Memory
  <2>3. OnDisk'
    BY <1>0, <2>1 DEF Memory, OnDisk, Image
  <2> QED  BY <1>0, <2>1, <2>2, <2>3, SameSession
<1>4. CASE SudoDone \/ Program \/ ProgramEnds \/ \E p \in Words : Sudo(p)
  <2>1. UNCHANGED <<users, groups, next_uid, is_setup, disk>>
    BY <1>4 DEF SudoDone, Program, ProgramEnds, Sudo, table
  <2>2. Memory' /\ OnDisk'
    BY <1>0, <2>1 DEF Memory, OnDisk
  <2>3. Session'
    BY <1>0, <1>4, SudoDoneSession, ProgramSession, ProgramEndsSession, SudoSession
  <2> QED  BY <2>2, <2>3
<1>5. ASSUME NEW p \in Words, RootPassword(p)
      PROVE  Memory' /\ OnDisk' /\ Session'
  BY <1>0, <1>5, RootPasswordStep
<1>6. ASSUME NEW p \in Words, NewPassword(p) \/ Retype(p)
      PROVE  Memory' /\ OnDisk' /\ Session'
  BY <1>0, <1>6, PasswdStep
<1>7. ASSUME NEW p \in Words, NEW name \in Names, NEW uid \in Uids \cup {0},
             (WizardUser(name, p) /\ uid = 0) \/ cmd_useradd(name, p, uid)
      PROVE  Memory' /\ OnDisk' /\ Session'
  <2>1. /\ name # "root" /\ user_add_full(name, p, uid) /\ UNCHANGED session
        /\ phase = "shell" => changing = NoChange
    BY <1>7 DEF WizardUser, cmd_useradd, Prompt
  <2>2. Memory'
    BY <1>0, <2>1, AddMemory
  <2>3. OnDisk'
    BY <2>1, <2>2, Saving DEF user_add_full
  <2>4. changing = NoChange
    BY <1>0, <2>1 DEF Session, InShell
  <2> QED  BY <1>0, <2>1, <2>2, <2>3, <2>4, SameSession
<1>8. ASSUME NEW p \in Words, NEW i \in DOMAIN users, login_prompt(i, p) \/ cmd_su(i, p)
      PROVE  Memory' /\ OnDisk' /\ Session'
  <2>1. /\ set_session_user(i) /\ phase' = "shell" /\ changing = NoChange
        /\ UNCHANGED <<users, groups, next_uid, is_setup, disk, calls, changing>>
    BY <1>0, <1>8 DEF login_prompt, cmd_su, Prompt, table, Session, InShell
  <2>2. Memory' /\ OnDisk'
    BY <1>0, <2>1 DEF Memory, OnDisk
  <2> QED  BY <1>0, <2>1, <2>2, UserSession
<1>9. ASSUME NEW p \in Words, NEW i \in DOMAIN users, cmd_passwd(i, p)
      PROVE  Memory' /\ OnDisk' /\ Session'
  <2>1. /\ changing' = [i |-> i, attempt |-> 0, pw1 |-> <<>>] /\ phase = "shell"
        /\ UNCHANGED <<users, groups, next_uid, is_setup, disk>>
        /\ UNCHANGED <<phase, cur, fs_cur_uid, calls, left>>
    BY <1>9 DEF cmd_passwd, Prompt, table
  <2>2. Memory' /\ OnDisk'
    BY <1>0, <2>1 DEF Memory, OnDisk
  <2>3. changing' \in [i : DOMAIN users, attempt : 0..1, pw1 : Words]
    BY <2>1, AccountsAssumption
  <2> QED  BY <1>0, <2>1, <2>2, <2>3, PasswdSession
<1>10. ASSUME NEW i \in DOMAIN users, cmd_userdel(i)
       PROVE  Memory' /\ OnDisk' /\ Session'
  <2>1. Memory'
    BY <1>0, <1>10, DeleteMemory
  <2>2. OnDisk'
    BY <1>10, <2>1, Saving DEF cmd_userdel
  <2>3. UNCHANGED session /\ changing = NoChange
    BY <1>10 DEF cmd_userdel, Prompt
  <2> QED  BY <1>0, <2>1, <2>2, <2>3, SameSession
<1>11. ASSUME NEW i \in DOMAIN users, NEW o \in Mods, cmd_usermod(i, o)
       PROVE  Memory' /\ OnDisk' /\ Session'
  <2>1. Memory'
    BY <1>0, <1>11, ModifyMemory
  <2>2. OnDisk'
    <3>1. store_save \/ disk' = disk
      BY <1>11 DEF cmd_usermod
    <3>2. CASE store_save
      BY <2>1, <3>2, Saving
    <3>3. CASE disk' = disk
      BY <1>0, <3>3 DEF OnDisk
    <3> QED  BY <3>1, <3>2, <3>3
  <2>3. UNCHANGED session /\ changing = NoChange
    BY <1>11 DEF cmd_usermod, Prompt
  <2> QED  BY <1>0, <2>1, <2>2, <2>3, SameSession
<1>12. ASSUME NEW g \in GroupNames, cmd_groupadd(g) \/ cmd_groupdel(g)
       PROVE  Memory' /\ OnDisk' /\ Session'
  <2>1. Memory'
    BY <1>0, <1>12, GroupMemory
  <2>2. OnDisk'
    BY <1>12, <2>1, Saving DEF cmd_groupadd, cmd_groupdel
  <2>3. UNCHANGED session /\ changing = NoChange
    BY <1>12 DEF cmd_groupadd, cmd_groupdel, Prompt
  <2> QED  BY <1>0, <2>1, <2>2, <2>3, SameSession
<1>13. CASE UNCHANGED vars
  <2>1. UNCHANGED <<users, groups, next_uid, is_setup, disk, session>>
    BY <1>13 DEF vars, table
  <2>2. Memory' /\ OnDisk'
    BY <1>0, <2>1 DEF Memory, OnDisk
  <2> QED  BY <1>0, <2>1, <2>2, SameSession
<1> QED  BY <1>1, <1>2, <1>3, <1>4, <1>5, <1>6, <1>7, <1>8, <1>9, <1>10, <1>11,
            <1>12, <1>13 DEF Next

\* The table in memory and the one in the image are sound, a passwd works on an
\* account that exists, and rights are given back, in every reachable state.
THEOREM AccountsCorrect == Spec => []AccountsInv
<1> QED  BY AccountsStart, AccountsStep, PTL DEF Spec

\* Every lookup by name in kernel.c finds the one account meant, root's
\* privileges stay with the first record, and no group names an account that
\* has been deleted or renamed.
THEOREM TablesSound == Spec => []TableSound
<1>1. AccountsInv => TableSound
  <2> SUFFICES ASSUME AccountsInv
               PROVE  TableSound
    OBVIOUS
  <2>1. Memory
    BY DEF AccountsInv
  <2>2. \A g \in DOMAIN groups : \A m \in groups[g] : user_find(m) # {}
    BY <2>1 DEF Memory, SoundGroups, user_find
  <2> QED  BY <2>1, <2>2 DEF Memory, SoundUsers, TableSound
<1> QED  BY <1>1, AccountsCorrect, PTL

\* config_deserialize gives back what config_serialize wrote, whatever setup
\* and the commands have done to the table and whenever the machine stops.
THEOREM ReloadsFaithful == Spec => []ReloadsSame
<1>1. AccountsInv => ReloadsSame
  <2> SUFFICES ASSUME AccountsInv
               PROVE  ReloadsSame
    OBVIOUS
  <2> DEFINE us == disk.users
             back == LoadedUsers(disk)
  <2>1. SoundUsers(us) /\ SoundGroups(us, disk.groups)
    BY DEF AccountsInv, OnDisk
  <2>2. /\ us \in Seq(Account) /\ Len(us) \in Nat /\ Len(us) >= 1 /\ us[1] \in Account
    BY <2>1, UsersAt
  <2>3. /\ back \in Seq(Account) /\ Len(back) = Len(us)
        /\ back[1] = [name |-> "root", pass |-> us[1].pass, uid |-> 0]
        /\ \A i \in 2..Len(us) : back[i] = us[i]
    BY <2>1, LoadedIs
  <2> HIDE DEF us, back
  <2>4. Tail(back) = Tail(us)
    <3>1. /\ Tail(back) \in Seq(Account) /\ Len(Tail(back)) = Len(us) - 1
          /\ Tail(us) \in Seq(Account) /\ Len(Tail(us)) = Len(us) - 1
      BY <2>2, <2>3
    <3>2. \A i \in 1..Len(us) - 1 : Tail(back)[i] = back[i + 1] /\ Tail(us)[i] = us[i + 1]
      BY <2>2, <2>3
    <3>3. \A i \in 1..Len(us) - 1 : back[i + 1] = us[i + 1]
      BY <2>2, <2>3
    <3> QED  BY <3>1, <3>2, <3>3, SeqEqual
  <2>5. back[1] = [us[1] EXCEPT !.name = "root", !.uid = 0]
    <3>1. us[1] \in [name : Names, pass : Seq(Characters), uid : Nat]
      BY <2>2 DEF Account
    <3>2. [us[1] EXCEPT !.name = "root", !.uid = 0]
            = [name |-> "root", pass |-> us[1].pass, uid |-> 0]
      BY ONLY <3>1, AsRoot, Zenon
    <3> QED  BY <2>3, <3>2, Zenon
  <2>6. ASSUME NEW g \in DOMAIN disk.groups,
               NEW m \in disk.groups[g] \ LoadedGroups(disk)[g]
        PROVE  m \in {us[1].name} \ {"root"}
    <3>1. LoadedGroups(disk)[g] = disk.groups[g] \cap {back[i].name : i \in DOMAIN back}
      BY DEF LoadedGroups, back
    <3>2. \A i \in DOMAIN back : back[i].name # m
      BY <2>6, <3>1
    <3>3. DOMAIN back = 1..Len(us) /\ 1 \in DOMAIN back /\ DOMAIN us = 1..Len(us)
      BY <2>2, <2>3
    <3>4. m # "root"
      BY <2>3, <3>2, <3>3
    <3>5. PICK i \in DOMAIN us : us[i].name = m
      BY <2>1, <2>6 DEF SoundGroups
    <3>6. i = 1
      <4>1. i \in 2..Len(us) => back[i].name = m
        BY <2>3, <3>5
      <4> QED  BY <2>2, <3>2, <3>3, <4>1
    <3> QED  BY <3>4, <3>5, <3>6
  <2> QED  BY <2>3, <2>4, <2>5, <2>6 DEF ReloadsSame, us, back
<1> QED  BY <1>1, AccountsCorrect, PTL

\* sudo gives root's rights back however its commands, su and further sudos
\* are nested, unless Ctrl+C jumps over it.
THEOREM RightsGivenBack == Spec => []RightsReturned
<1>1. AccountsInv => RightsReturned
  <2>1. calls = <<>> => DOMAIN calls = {}
    OBVIOUS
  <2> QED  BY <2>1 DEF AccountsInv, Rights, RightsReturned
<1> QED  BY <1>1, AccountsCorrect, PTL

\* While passwd waits for what is typed nothing else happens to the table: as
\* long as the machine runs, a step changes the password of the one account
\* that passwd was started for, and passwd stays with that account.
PasswdAlone ==
    [][changing # NoChange /\ phase' = "shell" =>
          /\ DOMAIN users' = DOMAIN users /\ groups' = groups
          /\ \A j \in DOMAIN users : /\ users'[j].name = users[j].name
                                     /\ users'[j].uid = users[j].uid
                                     /\ j # changing.i => users'[j] = users[j]
          /\ changing' # NoChange => changing'.i = changing.i]_vars

\* What a restart makes of the image, saved and loaded again, is the same: the
\* uids, the members and the next uid do not drift from boot to boot.
ReloadSettles ==
    LET again == [users |-> LoadedUsers(disk), groups |-> LoadedGroups(disk),
                  is_setup |-> disk.is_setup]
    IN  /\ LoadedUsers(again) = LoadedUsers(disk)
        /\ LoadedGroups(again) = LoadedGroups(disk)
        /\ LoadedNext(again) = LoadedNext(disk)

\* An image read back, saved and read again gives the same table.
THEOREM ReloadsSettle == Spec => []ReloadSettles
<1>1. AccountsInv => ReloadSettles
  <2> SUFFICES ASSUME AccountsInv
               PROVE  ReloadSettles
    OBVIOUS
  <2> DEFINE back == LoadedUsers(disk)
             gs == LoadedGroups(disk)
             again == [users |-> back, groups |-> gs, is_setup |-> disk.is_setup]
             twice == LoadedUsers(again)
             n == Len(back)
  <2>1. SoundUsers(disk.users) /\ SoundGroups(disk.users, disk.groups)
    BY DEF AccountsInv, OnDisk
  <2>2. SoundUsers(back) /\ SoundGroups(back, gs)
    BY <2>1, LoadSound
  <2>3. again.users = back /\ again.groups = gs
    OBVIOUS
  <2>4. /\ back[1] = [name |-> "root", pass |-> disk.users[1].pass, uid |-> 0]
        /\ n = Len(disk.users) /\ DOMAIN Records(disk) = 1..n - 1
        /\ \A i \in 2..n : back[i] = disk.users[i]
        /\ \A i \in 1..n - 1 : LoadedRecord(disk, i) = disk.users[i + 1]
    BY <2>1, LoadedIs
  <2> HIDE DEF back, gs, again
  <2>5. back \in Seq(Account) /\ n \in Nat /\ n >= 1
    BY <2>2, UsersAt
  <2>6. /\ twice \in Seq(Account) /\ Len(twice) = n
        /\ twice[1] = [name |-> "root", pass |-> back[1].pass, uid |-> 0]
        /\ \A i \in 2..n : twice[i] = back[i]
        /\ DOMAIN Records(again) = 1..n - 1
        /\ \A i \in 1..n - 1 : LoadedRecord(again, i) = back[i + 1]
    BY <2>2, <2>3, LoadedIs
  <2> HIDE DEF twice, n
  <2>7. twice = back
    <3>1. twice[1] = back[1]
      BY <2>4, <2>6
    <3>2. \A i \in 1..n : i = 1 \/ i \in 2..n
      BY <2>5
    <3>3. \A i \in 1..n : twice[i] = back[i]
      BY <2>6, <3>1, <3>2
    <3>4. Len(twice) = Len(back)
      BY <2>6 DEF n
    <3> QED  BY <2>5, <2>6, <3>3, <3>4, SeqEqual DEF n
  <2>8. LoadedGroups(again) = gs
    <3> DEFINE known == {back[i].name : i \in DOMAIN back}
    <3>1. LoadedGroups(again) = [g \in DOMAIN gs |-> gs[g] \cap known]
      BY <2>3, <2>7 DEF LoadedGroups, twice
    <3>2. gs = [g \in DOMAIN disk.groups |-> disk.groups[g] \cap known]
      BY DEF LoadedGroups, gs, back
    <3> HIDE DEF known
    <3> QED  BY <3>1, <3>2
  <2>9. LoadedNext(again) = LoadedNext(disk)
    <3>1. \A i \in 1..n - 1 : LoadedRecord(again, i) = LoadedRecord(disk, i)
      <4>1. \A i \in 1..n - 1 : i + 1 \in 2..n
        BY <2>5
      <4> QED  BY <2>4, <2>6, <4>1
    <3>2. {LoadedRecord(again, i).uid + 1 : i \in DOMAIN Records(again)}
            = {LoadedRecord(disk, i).uid + 1 : i \in DOMAIN Records(disk)}
      BY <2>4, <2>6, <3>1
    <3> QED  BY <3>2 DEF LoadedNext
  <2> QED  BY <2>7, <2>8, <2>9 DEF ReloadSettles, again, back, gs, twice
<1> QED  BY <1>1, AccountsCorrect, PTL

\* Nobody's entry but one changes between passwd's questions.
THEOREM PasswdKeepsToOne == Spec => PasswdAlone
<1> DEFINE Alone == changing # NoChange /\ phase' = "shell" =>
                      /\ DOMAIN users' = DOMAIN users /\ groups' = groups
                      /\ \A j \in DOMAIN users : /\ users'[j].name = users[j].name
                                                 /\ users'[j].uid = users[j].uid
                                                 /\ j # changing.i => users'[j] = users[j]
                      /\ changing' # NoChange => changing'.i = changing.i
<1>1. AccountsInv /\ [Next]_vars => [Alone]_vars
  <2> SUFFICES ASSUME AccountsInv, Next, changing # NoChange, phase' = "shell"
               PROVE  /\ DOMAIN users' = DOMAIN users /\ groups' = groups
                      /\ \A j \in DOMAIN users : /\ users'[j].name = users[j].name
                                                 /\ users'[j].uid = users[j].uid
                                                 /\ j # changing.i => users'[j] = users[j]
                      /\ changing' # NoChange => changing'.i = changing.i
    OBVIOUS
  <2>1. /\ changing \in [i : DOMAIN users, attempt : 0..1, pw1 : Words]
        /\ phase = "shell"
    BY DEF AccountsInv, InShell
  <2>2. ~Prompt
    BY DEF Prompt
  <2>3. \/ ProgramEnds
        \/ \E p \in Words : NewPassword(p) \/ Retype(p)
    <3>1. ~Reboot
      BY DEF Reboot, BootPhase
    <3>2. ~WizardEnd /\ ~cmd_exit /\ ~SaveOther /\ ~SudoDone /\ ~Program
      BY <2>1, <2>2 DEF WizardEnd, cmd_exit, SaveOther, SudoDone, Program
    <3>3. \A p : ~RootPassword(p) /\ ~Sudo(p)
      BY <2>1, <2>2 DEF RootPassword, Sudo
    <3>4. \A p, name, uid : ~WizardUser(name, p) /\ ~cmd_useradd(name, p, uid)
      BY <2>1, <2>2 DEF WizardUser, cmd_useradd
    <3>5. \A i, p : ~login_prompt(i, p) /\ ~cmd_passwd(i, p) /\ ~cmd_su(i, p)
      BY <2>1, <2>2 DEF login_prompt, cmd_passwd, cmd_su
    <3>6. \A i, o : ~cmd_userdel(i) /\ ~cmd_usermod(i, o)
      BY <2>2 DEF cmd_userdel, cmd_usermod
    <3>7. \A g : ~cmd_groupadd(g) /\ ~cmd_groupdel(g)
      BY <2>2 DEF cmd_groupadd, cmd_groupdel
    <3> QED  BY <3>1, <3>2, <3>3, <3>4, <3>5, <3>6, <3>7 DEF Next
  <2>4. CASE ProgramEnds
    BY <2>4 DEF ProgramEnds, table
  <2>5. ASSUME NEW p \in Words, NewPassword(p) \/ Retype(p)
        PROVE  \E pw : users' = [users EXCEPT ![changing.i].pass = pw] \/ users' = users
    BY <2>5 DEF NewPassword, Retype
  <2>6. ASSUME NEW p \in Words, NewPassword(p) \/ Retype(p)
        PROVE  /\ DOMAIN users' = DOMAIN users /\ groups' = groups
               /\ \A j \in DOMAIN users : /\ users'[j].name = users[j].name
                                          /\ users'[j].uid = users[j].uid
                                          /\ j # changing.i => users'[j] = users[j]
               /\ changing' # NoChange => changing'.i = changing.i
    <3>1. PICK pw : users' = [users EXCEPT ![changing.i].pass = pw] \/ users' = users
      BY <2>5, <2>6
    <3>2. ASSUME NEW j \in DOMAIN users
          PROVE  /\ users'[j].name = users[j].name /\ users'[j].uid = users[j].uid
                 /\ j # changing.i => users'[j] = users[j]
      <4>1. users[j] \in Account
        BY UsersAt DEF AccountsInv, Memory
      <4>2. \/ users'[j] = users[j]
            \/ j = changing.i /\ users'[j] = [users[j] EXCEPT !.pass = pw]
        BY <3>1
      <4> QED  BY <4>1, <4>2 DEF Account
    <3>3. DOMAIN users' = DOMAIN users /\ groups' = groups
      BY <2>6, <3>1 DEF NewPassword, Retype
    <3>4. \/ changing' = NoChange
          \/ changing' = [changing EXCEPT !.pw1 = p]
          \/ changing' = [changing EXCEPT !.attempt = 1, !.pw1 = <<>>]
      BY <2>6 DEF NewPassword, Retype
    <3>5. changing' # NoChange => changing'.i = changing.i
      BY <2>1, <3>4
    <3> QED  BY <3>2, <3>3, <3>5
  <2> QED  BY <2>3, <2>4, <2>6
<1> QED  BY <1>1, AccountsCorrect, PTL DEF Spec, PasswdAlone
=============================================================================

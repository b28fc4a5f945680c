--------------------------- MODULE DownloadProofs ---------------------------
(***************************************************************************)
(* What holds of a download for every length of the package, every limit   *)
(* on attempts and redirects, and however the connections break.           *)
(***************************************************************************)
EXTENDS Download, SequenceTheorems, TLAPS

Bytes == 0..BodyLen
File == Seq(Bytes) \cup {NoFile}

\* The counters, and what follows from how far the connection is.
Counters ==
    /\ bin \in File
    /\ byPkg \in BOOLEAN /\ marker \in BOOLEAN /\ cut \in BOOLEAN
    /\ lengths \subseteq BOOLEAN
    /\ phase \in {"idle", "request", "body"}
    /\ ret \in {"none", "refused", "failed", "installed", "removed"}
    /\ phase # "idle" => ret = "none"
    /\ attempt \in 0 .. ATTEMPTS - 1 /\ redirects \in 0..REDIRECTS
    /\ total \in 0..BodyLen /\ pos \in 0..BodyLen /\ content_len \in {0, BodyLen}
    /\ phase = "body" => pos = total /\ lengths # {}

\* A file f of which t bytes have come is never longer than a package and
\* what has been appended to it.
Sized(f, t) == /\ f # NoFile => Len(f) <= BodyLen + t
               /\ t > 0 => f # NoFile /\ t <= Len(f)

\* What has come is at the front of the file, in its place, when the lengths
\* stated, ls, and the one kept, len, agree.
Fronted(f, t, len, ls) ==
    /\ ls = {} => f = NoFile /\ t = 0 /\ len = 0
    /\ ls = {TRUE} => f # NoFile /\ Len(f) = BodyLen /\ len = BodyLen
    /\ ls = {FALSE} => len = 0 /\ (f # NoFile => Len(f) = t)
    /\ ls # BOOLEAN => \A k \in 1..t : f[k] = k

Contents == /\ Exists => Len(bin) <= 2 * BodyLen
            /\ phase # "idle" => /\ Sized(bin, total)
                                 /\ Fronted(bin, total, content_len, lengths)

DownInv == Counters /\ Contents /\ InstalledWhole

---------------------------------------------------------------------------
(***************************************************************************)
(* Files.                                                                  *)
(***************************************************************************)

\* A function on 1..n is a sequence of length n.
LEMMA FunSeq ==
    ASSUME NEW S, NEW n \in Nat, NEW f \in [1..n -> S]
    PROVE  f \in Seq(S) /\ Len(f) = n /\ \A k \in 1..n : f[k] \in S
OBVIOUS

\* No file is not a file.
LEMMA NoFileIsNone == NoFile \notin Seq(Bytes)
<1>1. NoFile[1] = -1 /\ Len(NoFile) = 1
  BY DEF NoFile
<1>2. NoFile \in Seq(Bytes) => NoFile[1] \in Bytes
  BY <1>1
<1> QED  BY <1>1, <1>2, DownloadAssumption DEF Bytes

\* fs_prealloc_file makes a file of that length.
LEMMA PreallocFacts ==
    ASSUME NEW file \in File, NEW n \in Nat
    PROVE  Prealloc(file, n) \in Seq(Bytes) /\ Len(Prealloc(file, n)) = n
<1> USE DownloadAssumption
<1>1. CASE file = NoFile
  <2>1. Prealloc(file, n) \in [1..n -> Bytes]
    BY <1>1 DEF Prealloc, Undefined, Bytes
  <2> QED  BY <2>1, FunSeq
<1>2. CASE file # NoFile
  <2>1. file \in Seq(Bytes)
    BY <1>2 DEF File
  <2>2. \A k \in 1..n : (IF k <= Len(file) THEN file[k] ELSE 0) \in Bytes
    BY <2>1 DEF Bytes
  <2>3. Prealloc(file, n) = [k \in 1..n |-> IF k <= Len(file) THEN file[k] ELSE 0]
    BY <1>2 DEF Prealloc
  <2>4. Prealloc(file, n) \in [1..n -> Bytes]
    BY <2>2, <2>3
  <2> QED  BY <2>4, FunSeq
<1> QED  BY <1>1, <1>2

\* n bytes behind the first t, in a file whose length is not known.
LEMMA AppendFacts ==
    ASSUME NEW f \in File, NEW t \in Nat, NEW n \in Nat \ {0}, t + n <= BodyLen,
           NEW p, p = Put(f, t, n, t, 0),
           NEW m, f = NoFile => m = 0, f # NoFile => m = Len(f)
    PROVE  /\ p \in Seq(Bytes) /\ m \in Nat /\ Len(p) = m + n
           /\ \A k \in 1..m : p[k] = f[k]
           /\ \A k \in 1..n : p[m + k] = t + k
<1> USE DownloadAssumption
<1> DEFINE new == [k \in 1..n |-> t + k]
<1>1. new \in [1..n -> Bytes]
  BY DEF Bytes
<1>2. new \in Seq(Bytes) /\ Len(new) = n /\ \A k \in 1..n : new[k] = t + k
  BY <1>1, FunSeq
<1>3. CASE f = NoFile
  <2>1. p = new
    BY <1>3 DEF Put
  <2> HIDE DEF new
  <2>2. Len(p) = 0 + n /\ \A k \in 1..n : p[0 + k] = t + k
    BY <1>2, <2>1
  <2> QED  BY <1>2, <1>3, <2>1, <2>2
<1>4. CASE f # NoFile
  <2>1. f \in Seq(Bytes) /\ Len(f) \in Nat
    BY <1>4 DEF File
  <2>2. p = f \o new
    BY <1>4 DEF Put
  <2> HIDE DEF new
  <2>3. p \in Seq(Bytes) /\ Len(p) = Len(f) + n
    BY <1>2, <2>1, <2>2, ConcatProperties
  <2>4. \A k \in 1..Len(f) : p[k] = f[k]
    BY <1>2, <2>1, <2>2
  <2>5. \A k \in 1..n : p[Len(f) + k] = t + k
    <3> TAKE k \in 1..n
    <3>1. /\ Len(f) + k \in 1..Len(f)+Len(new) /\ ~(Len(f) + k <= Len(f))
          /\ (Len(f) + k) - Len(f) = k
      BY <1>2, <2>1
    <3>2. \A i \in 1..Len(f)+Len(new) :
             p[i] = IF i <= Len(f) THEN f[i] ELSE new[i - Len(f)]
      <4>1. \A i \in 1..Len(f)+Len(new) :
               (f \o new)[i] = IF i <= Len(f) THEN f[i] ELSE new[i - Len(f)]
        BY <1>2, <2>1, ConcatProperties, Zenon
      <4> QED  BY <2>2, <4>1, Zenon
    <3>3. p[Len(f) + k] = new[k]
      BY <3>1, <3>2
    <3> QED  BY <1>2, <3>3
  <2> QED  BY <1>4, <2>1, <2>3, <2>4, <2>5
<1> QED  BY <1>3, <1>4

\* n bytes behind the first t, in a file of known length.
LEMMA WriteFacts ==
    ASSUME NEW f \in Seq(Bytes), NEW t \in Nat, NEW n \in Nat \ {0},
           t + n <= BodyLen, t + n <= Len(f)
    PROVE  LET p == Put(f, t, n, t, BodyLen)
           IN  /\ p \in Seq(Bytes) /\ Len(p) = Len(f)
               /\ \A k \in 1..t : p[k] = f[k]
               /\ \A k \in t+1..t+n : p[k] = k
<1> USE DownloadAssumption
<1> DEFINE new == [k \in 1..n |-> t + k]
           p == Put(f, t, n, t, BodyLen)
<1>1. p = [k \in 1..Len(f) |-> IF k \in t+1 .. t+n THEN new[k - t] ELSE f[k]]
  BY DEF Put
<1>2. \A k \in t+1..t+n : new[k - t] = k /\ k \in Bytes
  <2> TAKE k \in t+1..t+n
  <2>1. k - t \in 1..n /\ t + (k - t) = k
    OBVIOUS
  <2> QED  BY <2>1 DEF Bytes
<1> HIDE DEF p, new
<1>3. p \in [1..Len(f) -> Bytes]
  BY <1>1, <1>2
<1>4. p \in Seq(Bytes) /\ Len(p) = Len(f)
  BY <1>3, FunSeq
<1>5. \A k \in 1..t : p[k] = f[k]
  <2> TAKE k \in 1..t
  <2>1. k \in 1..Len(f) /\ k \notin t+1..t+n
    OBVIOUS
  <2> QED  BY <1>1, <2>1
<1>6. \A k \in t+1..t+n : p[k] = k
  <2> TAKE k \in t+1..t+n
  <2>1. k \in 1..Len(f)
    OBVIOUS
  <2> QED  BY <1>1, <1>2, <2>1
<1> QED  BY <1>4, <1>5, <1>6 DEF p

\* Bytes that come in order keep the file sound.
LEMMA PutSound ==
    ASSUME NEW f \in File, NEW t \in Nat, NEW n \in Nat, t + n <= BodyLen,
           NEW len \in {0, BodyLen}, n = 0 \/ Fits(f, t, n, len),
           NEW ls \in SUBSET BOOLEAN, ls # {}, Sized(f, t), Fronted(f, t, len, ls)
    PROVE  LET p == Put(f, t, n, t, len)
           IN  p \in File /\ Sized(p, t + n) /\ Fronted(p, t + n, len, ls)
<1> USE DownloadAssumption
<1> DEFINE p == Put(f, t, n, t, len)
<1>1. CASE n = 0
  <2>1. p = f /\ t + n = t
    BY <1>1 DEF Put
  <2> QED  BY <2>1
<1>2. CASE n # 0 /\ len = 0
  <2> DEFINE m == IF f = NoFile THEN 0 ELSE Len(f)
  <2>1. /\ p \in Seq(Bytes) /\ m \in Nat /\ Len(p) = m + n
        /\ \A k \in 1..m : p[k] = f[k]
        /\ \A k \in 1..n : p[m + k] = t + k
    <3>1. p = Put(f, t, n, t, 0)
      BY <1>2
    <3>2. (f = NoFile => m = 0) /\ (f # NoFile => m = Len(f))
      OBVIOUS
    <3>3. n \in Nat \ {0}
      BY <1>2
    <3> HIDE DEF p, m
    <3> QED  BY SMTT(30), <3>1, <3>2, <3>3, AppendFacts
  <2> HIDE DEF p
  <2>2. p \in File /\ p # NoFile
    BY <2>1, NoFileIsNone DEF File
  <2>3. Sized(p, t + n)
    BY <2>1, <2>2 DEF Sized
  <2>4. ls # {TRUE}
    BY <1>2 DEF Fronted
  <2>5. ls # BOOLEAN => Len(p) = t + n /\ \A k \in 1..t+n : p[k] = k
    <3>4. ls # BOOLEAN => ls = {FALSE}
      BY <2>4
    <3> SUFFICES ASSUME ls # BOOLEAN, ls = {FALSE}
                 PROVE  Len(p) = t + n /\ \A k \in 1..t+n : p[k] = k
        BY <3>4
    <3>1. m = t
      BY DEF Fronted, Sized
    <3>2. \A k \in 1..t : p[k] = k
      BY <2>1, <3>1 DEF Fronted
    <3>3. \A k \in t+1..t+n : p[k] = k
      <4> TAKE k \in t+1..t+n
      <4>1. k - t \in 1..n /\ t + (k - t) = k
        OBVIOUS
      <4> QED  BY <2>1, <3>1, <4>1
    <3>5. Len(p) = t + n
      BY <2>1, <3>1
    <3> QED  BY <3>2, <3>3, <3>5
  <2> QED  BY <1>2, <2>2, <2>3, <2>4, <2>5 DEF Fronted, p
<1>3. CASE n # 0 /\ len # 0
  <2>1. f \in Seq(Bytes) /\ f # NoFile /\ t + n <= Len(f) /\ len = BodyLen
    BY <1>3 DEF Fits, File
  <2>2. /\ p \in Seq(Bytes) /\ Len(p) = Len(f)
        /\ \A k \in 1..t : p[k] = f[k]
        /\ \A k \in t+1..t+n : p[k] = k
    BY <1>3, <2>1, WriteFacts
  <2> HIDE DEF p
  <2>3. p \in File /\ p # NoFile
    BY <2>2, NoFileIsNone DEF File
  <2>4. Sized(p, t + n)
    BY <2>1, <2>2, <2>3 DEF Sized
  <2>5. ls # {FALSE}
    BY <1>3 DEF Fronted
  <2>6. ls # BOOLEAN => \A k \in 1..t+n : p[k] = k
    BY <2>2 DEF Fronted
  <2> QED  BY <2>1, <2>2, <2>3, <2>4, <2>5, <2>6 DEF Fronted, p
<1> QED  BY <1>1, <1>2, <1>3

---------------------------------------------------------------------------
(***************************************************************************)
(* The steps.                                                              *)
(***************************************************************************)

\* No package, and nothing going on.
LEMMA DownStart == Init => DownInv
<1> SUFFICES ASSUME Init PROVE DownInv
    OBVIOUS
<1> USE DownloadAssumption
<1>1. byPkg \in BOOLEAN /\ marker \in BOOLEAN /\ cut \in BOOLEAN
  BY DEF Init
<1>2. Counters
  BY <1>1 DEF Init, Counters, File
<1>3. Contents /\ InstalledWhole
  BY DEF Init, Contents, Exists, InstalledWhole
<1> QED  BY <1>2, <1>3 DEF DownInv

\* Giving up leaves no file and no claim that there is one.
LEMMA FailedStep == ASSUME DownInv, Failed PROVE DownInv'
<1>1. /\ bin' = NoFile /\ phase' = "idle" /\ ret' = "failed"
      /\ UNCHANGED <<byPkg, marker, attempt, redirects, total, content_len, pos, lengths, cut>>
  BY DEF Failed, progress
<1>2. Counters'
  BY <1>1 DEF DownInv, Counters, File
<1>3. Contents' /\ InstalledWhole'
  BY <1>1 DEF Contents, Exists, InstalledWhole
<1> QED  BY <1>2, <1>3 DEF DownInv

\* The next attempt finds what the broken connection left.
LEMMA RetryStep == ASSUME DownInv, Retry, phase # "idle" PROVE DownInv'
<1> USE DownloadAssumption
<1>1. CASE attempt + 1 >= ATTEMPTS
  BY <1>1, FailedStep DEF Retry
<1>2. CASE ~(attempt + 1 >= ATTEMPTS)
  <2>1. /\ attempt' = attempt + 1 /\ redirects' = 0 /\ phase' = "request"
        /\ UNCHANGED <<bin, byPkg, marker, total, content_len, pos, lengths, cut, ret>>
    BY <1>2 DEF Retry
  <2>2. attempt' \in 0..ATTEMPTS-1 /\ redirects' \in 0..REDIRECTS
    BY <1>2, <2>1 DEF DownInv, Counters
  <2>3. Counters'
    BY <2>1, <2>2 DEF DownInv, Counters
  <2>4. Contents' /\ InstalledWhole'
    BY <2>1 DEF DownInv, Contents, Exists, InstalledWhole
  <2> QED  BY <2>3, <2>4 DEF DownInv
<1> QED  BY <1>1, <1>2

\* A redirect starts over with another address.
LEMMA RedirectStep == ASSUME DownInv, Redirect PROVE DownInv'
<1> USE DownloadAssumption
<1>1. CASE redirects + 1 > REDIRECTS
  BY <1>1, FailedStep DEF Redirect
<1>2. CASE ~(redirects + 1 > REDIRECTS)
  <2>1. /\ redirects' = redirects + 1
        /\ UNCHANGED <<bin, byPkg, marker, phase, attempt, total, content_len, pos,
                       lengths, cut, ret>>
    BY <1>2 DEF Redirect
  <2>2. redirects' \in 0..REDIRECTS
    BY <1>2, <2>1 DEF DownInv, Counters
  <2>3. Counters'
    BY <2>1, <2>2 DEF DownInv, Counters
  <2>4. Contents' /\ InstalledWhole'
    BY <2>1 DEF DownInv, Contents, Exists, InstalledWhole
  <2> QED  BY <2>3, <2>4 DEF DownInv
<1> QED  BY <1>1, <1>2

\* Bytes arrive: n of them, at the place t of the package, for a file f of
\* which t bytes have come.
LEMMA ArriveStep ==
    ASSUME DownInv, phase # "idle", NEW f \in File, NEW t \in Nat, NEW n \in Nat,
           t + n <= BodyLen, NEW len \in {0, BodyLen}, n = 0 \/ Fits(f, t, n, len),
           lengths' \in SUBSET BOOLEAN, lengths' # {}, Sized(f, t),
           Fronted(f, t, len, lengths'),
           bin' = Put(f, t, n, t, len), total' = t + n, content_len' = len,
           pos' = t + n, phase' = "body",
           UNCHANGED <<byPkg, marker, attempt, redirects, cut, ret>>
    PROVE  DownInv'
<1> USE DownloadAssumption
<1>1. bin' \in File /\ Sized(bin', total') /\ Fronted(bin', total', content_len', lengths')
  BY PutSound
<1>2. total' \in 0..BodyLen /\ pos' \in 0..BodyLen /\ ret' = "none"
  BY DEF DownInv, Counters
<1>3. Counters'
  BY <1>1, <1>2 DEF DownInv, Counters
<1>4. Exists' => Len(bin') <= 2 * BodyLen
  <2>1. Exists' => Len(bin') \in Nat
    BY <1>1 DEF File, Exists
  <2> QED  BY <1>1, <1>2, <2>1 DEF Sized, Exists
<1>5. Contents'
  BY <1>1, <1>4 DEF Contents
<1>6. InstalledWhole'
  BY <1>2 DEF InstalledWhole
<1> QED  BY <1>3, <1>5, <1>6 DEF DownInv

\* A server that sends the whole package starts a new file.
LEMMA Answer200Step ==
    ASSUME DownInv, NEW n \in 0..BodyLen, NEW stated \in BOOLEAN, NEW ok \in BOOLEAN,
           Answer200(n, stated, ok)
    PROVE  DownInv'
<1> USE DownloadAssumption
<1> DEFINE old == IF total > 0 THEN NoFile ELSE bin
           len == IF stated THEN BodyLen ELSE 0
           f == IF len > 0 /\ 0 = 0 THEN Prealloc(old, len) ELSE old
           ls == lengths \cup {stated}
<1>1. phase = "request" /\ Answer(old, 0, len, 0, n, stated, ok)
  BY DEF Answer200
<1>2. CASE ~(ok /\ (n = 0 \/ Fits(f, 0, n, len)))
  BY <1>1, <1>2, FailedStep DEF Answer
<1>3. CASE ok /\ (n = 0 \/ Fits(f, 0, n, len))
  <2>1. /\ bin' = Put(f, 0, n, 0, len) /\ total' = 0 + n /\ content_len' = len
        /\ pos' = 0 + n /\ lengths' = ls /\ phase' = "body"
        /\ UNCHANGED <<byPkg, marker, attempt, redirects, cut, ret>>
    BY <1>1, <1>3 DEF Answer
  <2>2. /\ bin \in File /\ total \in Nat /\ lengths \in SUBSET BOOLEAN
        /\ Sized(bin, total) /\ Fronted(bin, total, content_len, lengths)
    BY <1>1 DEF DownInv, Counters, Contents
  <2>3. old \in File /\ len \in {0, BodyLen} /\ ls \in SUBSET BOOLEAN /\ ls # {}
    BY <2>2 DEF File
  <2>4. /\ stated => f \in Seq(Bytes) /\ Len(f) = BodyLen /\ f # NoFile
        /\ ~stated => f = old
    BY <2>3, PreallocFacts, NoFileIsNone
  <2>5. f \in File
    BY <2>3, <2>4 DEF File
  <2>6. old # NoFile => old = bin /\ total = 0 /\ Len(old) \in Nat /\ Len(old) <= BodyLen
    BY <2>2 DEF Sized, File
  <2>7. Sized(f, 0)
    BY <2>4, <2>6 DEF Sized
  <2>8. Fronted(f, 0, len, ls)
    <3>1. ls = {TRUE} => stated
      OBVIOUS
    <3>2. ls = {FALSE} => ~stated /\ (lengths = {} \/ lengths = {FALSE})
      BY <2>2
    <3>3. ls = {FALSE} => len = 0 /\ (f # NoFile => Len(f) = 0)
      BY <2>2, <2>4, <2>6, <3>2 DEF Fronted
    <3>4. ls = {TRUE} => f # NoFile /\ Len(f) = BodyLen /\ len = BodyLen
      BY <2>4, <3>1
    <3>5. \A k \in 1..0 : f[k] = k
      OBVIOUS
    <3> HIDE DEF f, len, ls
    <3> QED  BY <2>3, <3>3, <3>4, <3>5 DEF Fronted
  <2>9. n \in Nat /\ 0 + n <= BodyLen /\ phase # "idle"
    BY <1>1
  <2> HIDE DEF old, len, f, ls
  <2> QED  BY <1>3, <2>1, <2>3, <2>5, <2>7, <2>8, <2>9, ArriveStep
<1> QED  BY <1>2, <1>3

\* A server that goes on where the last connection broke.
LEMMA Answer206Step ==
    ASSUME DownInv, NEW n \in 0..BodyLen, NEW stated \in BOOLEAN, NEW ok \in BOOLEAN,
           Answer206(n, stated, ok)
    PROVE  DownInv'
<1> USE DownloadAssumption
<1> DEFINE len == IF content_len = 0 /\ stated THEN BodyLen ELSE content_len
           ls == lengths \cup {stated}
<1>1. /\ phase = "request" /\ total > 0 /\ total < BodyLen /\ n \in 0..BodyLen-total
      /\ Answer(bin, total, len, total, n, stated, ok)
  BY DEF Answer206
<1>2. /\ bin \in File /\ total \in Nat /\ lengths \in SUBSET BOOLEAN
      /\ content_len \in {0, BodyLen}
      /\ Sized(bin, total) /\ Fronted(bin, total, content_len, lengths)
  BY <1>1 DEF DownInv, Counters, Contents
<1>3. (IF len > 0 /\ total = 0 THEN Prealloc(bin, len) ELSE bin) = bin
  BY <1>1, <1>2
<1>4. CASE ~(ok /\ (n = 0 \/ Fits(bin, total, n, len)))
  BY <1>1, <1>3, <1>4, FailedStep DEF Answer
<1>5. CASE ok /\ (n = 0 \/ Fits(bin, total, n, len))
  <2>1. /\ bin' = Put(bin, total, n, total, len) /\ total' = total + n
        /\ content_len' = len /\ pos' = total + n /\ lengths' = ls /\ phase' = "body"
        /\ UNCHANGED <<byPkg, marker, attempt, redirects, cut, ret>>
    BY <1>1, <1>3, <1>5 DEF Answer
  <2>2. len \in {0, BodyLen} /\ ls \in SUBSET BOOLEAN /\ ls # {}
    BY <1>2
  <2>3. lengths # {}
    BY <1>1, <1>2 DEF Fronted
  <2>4. Fronted(bin, total, len, ls)
    <3>1. ls = {TRUE} => lengths = {TRUE} /\ stated
      BY <1>2, <2>3
    <3>2. ls = {FALSE} => lengths = {FALSE} /\ ~stated
      BY <1>2, <2>3
    <3>3. ls # BOOLEAN => lengths # BOOLEAN
      BY <1>2
    <3>4. ls = {TRUE} => bin # NoFile /\ Len(bin) = BodyLen /\ len = BodyLen
      BY <1>2, <3>1 DEF Fronted
    <3>5. ls = {FALSE} => len = 0 /\ (bin # NoFile => Len(bin) = total)
      BY <1>2, <3>2 DEF Fronted
    <3>6. ls # BOOLEAN => \A k \in 1..total : bin[k] = k
      BY <1>2, <3>3 DEF Fronted
    <3> HIDE DEF len, ls
    <3> QED  BY <2>2, <3>4, <3>5, <3>6 DEF Fronted
  <2>5. n \in Nat /\ total + n <= BodyLen /\ phase # "idle"
    BY <1>1, <1>2
  <2> HIDE DEF len, ls
  <2> QED  BY <1>2, <1>5, <2>1, <2>2, <2>4, <2>5, ArriveStep
<1> QED  BY <1>4, <1>5

\* More of the body.
LEMMA ChunkStep ==
    ASSUME DownInv, NEW n \in 1..BodyLen, NEW ok \in BOOLEAN, Chunk(n, ok)
    PROVE  DownInv'
<1> USE DownloadAssumption
<1>1. phase = "body" /\ pos + n <= BodyLen
  BY DEF Chunk
<1>2. CASE ~(ok /\ Fits(bin, total, n, content_len))
  BY <1>2, FailedStep DEF Chunk
<1>3. CASE ok /\ Fits(bin, total, n, content_len)
  <2>1. /\ bin \in File /\ total \in Nat /\ lengths \in SUBSET BOOLEAN /\ lengths # {}
        /\ content_len \in {0, BodyLen} /\ pos = total
        /\ Sized(bin, total) /\ Fronted(bin, total, content_len, lengths)
    BY <1>1 DEF DownInv, Counters, Contents
  <2>2. /\ bin' = Put(bin, total, n, total, content_len) /\ total' = total + n
        /\ pos' = total + n /\ phase' = "body"
        /\ UNCHANGED <<byPkg, marker, attempt, redirects, content_len, lengths, cut, ret>>
    BY <1>1, <1>3, <2>1 DEF Chunk
  <2>3. n \in Nat /\ total + n <= BodyLen /\ phase # "idle"
    BY <1>1, <2>1
  <2> QED  BY <1>3, <2>1, <2>2, <2>3, ArriveStep
<1> QED  BY <1>2, <1>3

\* The end of a connection, at the end of the package, leaves the package.
LEMMA EofStep == ASSUME DownInv, CleanEof PROVE DownInv'
<1> USE DownloadAssumption
<1>1. /\ phase = "body" /\ cut' = (pos < BodyLen) /\ phase' = "idle"
      /\ UNCHANGED <<byPkg, attempt, redirects, total, content_len, pos, lengths>>
      /\ Finished
  BY DEF CleanEof
<1>2. /\ bin \in File /\ total \in 0..BodyLen /\ lengths \in SUBSET BOOLEAN
      /\ lengths # {} /\ pos = total /\ marker \in BOOLEAN
      /\ Sized(bin, total) /\ Fronted(bin, total, content_len, lengths)
  BY <1>1 DEF DownInv, Counters, Contents
<1>3. /\ bin' \in {bin, NoFile} /\ ret' \in {"failed", "installed"}
      /\ ret' = "installed" => bin' = bin /\ total # 0
  BY <1>1 DEF Finished
<1>4. marker' \in BOOLEAN /\ cut' \in BOOLEAN
  <2>1. cut' \in BOOLEAN
    BY <1>1
  <2>2. marker' = marker \/ marker' = TRUE
    BY <1>1 DEF Finished
  <2> QED  BY <1>2, <2>1, <2>2
<1>5. Counters'
  BY <1>1, <1>2, <1>3, <1>4 DEF DownInv, Counters, File
<1>6. Contents'
  BY <1>1, <1>3 DEF DownInv, Contents, Exists
<1>7. InstalledWhole'
  <2> SUFFICES ASSUME ret' = "installed", ~cut', lengths # BOOLEAN PROVE bin = Body
      BY <1>1, <1>3 DEF InstalledWhole
  <2>1. total = BodyLen /\ bin # NoFile
    BY SMTT(30), <1>1, <1>2, <1>3 DEF Sized
  <2>2. lengths = {TRUE} \/ lengths = {FALSE}
    BY <1>2
  <2>3. bin \in Seq(Bytes) /\ Len(bin) = BodyLen /\ \A k \in 1..BodyLen : bin[k] = k
    BY <1>2, <2>1, <2>2 DEF Fronted, File
  <2>4. Body \in [1..BodyLen -> Bytes] /\ \A k \in 1..BodyLen : Body[k] = k
    BY DEF Body, Bytes
  <2>5. Body \in Seq(Bytes) /\ Len(Body) = BodyLen
    BY <2>4, FunSeq
  <2> QED  BY <2>3, <2>4, <2>5, SeqEqual
<1> QED  BY <1>5, <1>6, <1>7 DEF DownInv

\* What happens between downloads, and Ctrl+C.
LEMMA OutsideStep ==
    ASSUME DownInv,
           \/ InstallRefused \/ Install \/ Remove \/ SystemCommand \/ Interrupt
           \/ UNCHANGED vars
    PROVE  DownInv'
<1> USE DownloadAssumption
<1>1. CASE InstallRefused
  <2>1. Counters'
    BY <1>1 DEF DownInv, Counters, InstallRefused, progress
  <2>2. Contents' /\ InstalledWhole'
    BY <1>1 DEF DownInv, Contents, Exists, InstalledWhole, InstallRefused, progress
  <2> QED  BY <2>1, <2>2 DEF DownInv
<1>2. CASE Install
  <2>1. byPkg' \in BOOLEAN /\ cut' \in BOOLEAN
    BY <1>2 DEF Install
  <2>2. Counters'
    BY <1>2, <2>1 DEF DownInv, Counters, Install, File
  <2>3. Sized(bin', total') /\ Fronted(bin', total', content_len', lengths')
    <3>1. bin' = NoFile /\ total' = 0 /\ content_len' = 0 /\ lengths' = {}
      BY <1>2 DEF Install
    <3>2. lengths' # {TRUE} /\ lengths' # {FALSE}
      BY <3>1
    <3>3. \A k \in 1..total' : bin'[k] = k
      BY <3>1
    <3>4. Sized(bin', total')
      BY <3>1 DEF Sized
    <3>5. Fronted(bin', total', content_len', lengths')
      BY <3>1, <3>2, <3>3, Zenon DEF Fronted
    <3> QED  BY <3>4, <3>5
  <2>4. Contents' /\ InstalledWhole'
    BY <1>2, <2>3 DEF Contents, Exists, InstalledWhole, Install
  <2> QED  BY <2>2, <2>4 DEF DownInv
<1>3. CASE Remove
  <2>1. byPkg' \in BOOLEAN /\ marker' \in BOOLEAN
    BY <1>3 DEF Remove, DownInv, Counters
  <2>2. Counters'
    BY <1>3, <2>1 DEF DownInv, Counters, Remove, File, progress
  <2>3. Contents' /\ InstalledWhole'
    BY <1>3 DEF DownInv, Contents, Exists, InstalledWhole, Remove
  <2> QED  BY <2>2, <2>3 DEF DownInv
<1>4. CASE SystemCommand
  <2>1. bin' \in [1..1 -> Bytes]
    BY <1>4 DEF SystemCommand, Undefined, Bytes
  <2>2. bin' \in Seq(Bytes) /\ Len(bin') = 1
    BY <2>1, FunSeq
  <2>3. byPkg' \in BOOLEAN
    BY <1>4 DEF SystemCommand
  <2>4. Counters'
    BY <1>4, <2>2, <2>3 DEF DownInv, Counters, SystemCommand, File, progress
  <2>5. Contents' /\ InstalledWhole'
    <3>1. phase' = "idle" /\ ret' = "none"
      BY <1>4 DEF SystemCommand
    <3>2. Len(bin') <= 2 * BodyLen
      BY <2>2
    <3> QED  BY <3>1, <3>2 DEF Contents, InstalledWhole
  <2> QED  BY <2>4, <2>5 DEF DownInv
<1>5. CASE Interrupt
  <2>1. Counters'
    BY <1>5 DEF DownInv, Counters, Interrupt, progress
  <2>2. Contents' /\ InstalledWhole'
    BY <1>5 DEF DownInv, Contents, Exists, InstalledWhole, Interrupt, progress
  <2> QED  BY <2>1, <2>2 DEF DownInv
<1>6. CASE UNCHANGED vars
  BY <1>6 DEF DownInv, Counters, Contents, Exists, InstalledWhole, vars, progress
<1> QED  BY <1>1, <1>2, <1>3, <1>4, <1>5, <1>6

---------------------------------------------------------------------------
(***************************************************************************)
(* Theorems.                                                               *)
(***************************************************************************)

\* The counters, the file and what has come of the package fit together.
THEOREM DownloadCorrect == Spec => []DownInv
<1>1. DownInv /\ [Next]_vars => DownInv'
  <2> SUFFICES ASSUME DownInv, [Next]_vars PROVE DownInv'
      OBVIOUS
  <2>1. CASE Serves
    <3>1. CASE RequestFails \/ Drop
      BY <3>1, RetryStep DEF RequestFails, Drop
    <3>2. CASE Refusal
      BY <3>2, FailedStep DEF Refusal
    <3>3. CASE Redirect
      BY <3>3, RedirectStep
    <3>4. CASE CleanEof
      BY <3>4, EofStep
    <3>5. CASE \E n \in 0..BodyLen, stated, ok \in BOOLEAN :
                  Answer200(n, stated, ok) \/ Answer206(n, stated, ok)
      BY <3>5, Answer200Step, Answer206Step
    <3>6. CASE \E n \in 1..BodyLen, ok \in BOOLEAN : Chunk(n, ok)
      BY <3>6, ChunkStep
    <3> QED  BY <2>1, <3>1, <3>2, <3>3, <3>4, <3>5, <3>6 DEF Serves
  <2> QED  BY <2>1, OutsideStep DEF Next
<1> QED  BY <1>1, DownStart, PTL DEF Spec

\* A connection that breaks is resumed behind bytes that are the package's,
\* and the loops' counters keep their bounds.
THEOREM ResumesSound == Spec => []ResumeSound
<1> USE DownloadAssumption
<1>1. DownInv => TypeOK
  <2> SUFFICES ASSUME DownInv PROVE TypeOK
      OBVIOUS
  <2>1. Exists => bin \in Seq(Bytes) /\ Len(bin) <= 2 * BodyLen
    BY DEF DownInv, Counters, Contents, File, Exists
  <2>2. Exists => \A k \in DOMAIN bin : bin[k] \in 0..BodyLen
    BY <2>1 DEF Bytes
  <2>3. phase # "idle" /\ total > 0 => Exists /\ total <= Len(bin)
    BY DEF DownInv, Contents, Sized, Exists
  <2>4. {byPkg, marker, cut} \subseteq BOOLEAN /\ lengths \subseteq BOOLEAN
    BY DEF DownInv, Counters
  <2> QED  BY <2>1, <2>2, <2>3, <2>4 DEF DownInv, Counters, TypeOK
<1>2. DownInv => ResumeSound
  <2> SUFFICES ASSUME DownInv, phase # "idle", lengths # BOOLEAN
               PROVE  /\ total > 0 => SubSeq(bin, 1, total) = SubSeq(Body, 1, total)
                      /\ Exists => Len(bin) = IF lengths = {TRUE} THEN BodyLen ELSE total
      BY <1>1 DEF ResumeSound
  <2>1. /\ bin \in File /\ total \in 0..BodyLen /\ lengths \in SUBSET BOOLEAN
        /\ Sized(bin, total) /\ Fronted(bin, total, content_len, lengths)
    BY DEF DownInv, Counters, Contents
  <2>2. lengths = {} \/ lengths = {TRUE} \/ lengths = {FALSE}
    BY <2>1
  <2>3. Exists => Len(bin) = IF lengths = {TRUE} THEN BodyLen ELSE total
    BY <2>1, <2>2 DEF Fronted, Exists
  <2>4. ASSUME total > 0 PROVE SubSeq(bin, 1, total) = SubSeq(Body, 1, total)
    <3>1. /\ bin \in Seq(Bytes) /\ total \in Nat /\ total <= Len(bin) /\ total <= BodyLen
          /\ \A k \in 1..total : bin[k] = k /\ k \in Bytes
      BY <2>1, <2>4 DEF Sized, Fronted, File, Bytes
    <3>2. \A k \in 1..total : Body[k] = k
      BY <3>1 DEF Body
    <3> DEFINE a == SubSeq(bin, 1, total)
               b == SubSeq(Body, 1, total)
    <3>3. /\ a \in Seq(Bytes) /\ Len(a) = (IF 1 <= total THEN total - 1 + 1 ELSE 0)
          /\ \A i \in 1..total-1+1 : a[i] = bin[1 + i - 1]
      BY <3>1, SubSeqProperties
    <3>4. /\ b \in Seq(Bytes) /\ Len(b) = (IF 1 <= total THEN total - 1 + 1 ELSE 0)
          /\ \A i \in 1..total-1+1 : b[i] = Body[1 + i - 1]
      BY <3>1, <3>2, SubSeqProperties
    <3> HIDE DEF a, b
    <3>5. Len(a) = total
      BY <2>4, <3>1, <3>3
    <3>6. \A i \in 1..total : a[i] = b[i]
      <4> TAKE i \in 1..total
      <4>1. i \in 1..total-1+1 /\ 1 + i - 1 = i
        BY <3>1
      <4> QED  BY <3>1, <3>2, <3>3, <3>4, <4>1
    <3>7. a = b
      BY <3>3, <3>4, <3>5, <3>6, SeqEqual
    <3> QED  BY <3>7 DEF a, b
  <2> QED  BY <2>3, <2>4
<1> QED  BY <1>2, DownloadCorrect, PTL

\* What pkg reports as installed is the server's package, for every length.
THEOREM InstallsWhole == Spec => []InstalledWhole
<1>1. DownInv => InstalledWhole
  BY DEF DownInv
<1> QED  BY <1>1, DownloadCorrect, PTL
=============================================================================

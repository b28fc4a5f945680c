------------------------------ MODULE Download ------------------------------
(***************************************************************************)
(* pkg install and pkg remove (bin/pkg.c) and the download under it,       *)
(* net_http_save in kernel/net.c: up to ATTEMPTS connections, each resumed *)
(* where the last one broke, into a file that is preallocated when the     *)
(* length is known and appended to when it is not.                         *)
(*                                                                         *)
(* Byte k of the package is the number k; 0 is a byte that was never       *)
(* written.  A connection is what Tcp promises: bytes in order, then the   *)
(* end, or it breaks.  Ctrl+C may take the program out at any point.       *)
(***************************************************************************)
EXTENDS Integers, Sequences

CONSTANTS BodyLen,      \* the length of the package
          ATTEMPTS,     \* 6 in the code
          REDIRECTS     \* 3 in the code

ASSUME DownloadAssumption == {BodyLen, ATTEMPTS, REDIRECTS} \subseteq Nat \ {0}

VARIABLES bin,          \* the contents of /usr/bin/<name>.o, if there is one
          byPkg,        \* it was put there by pkg
          marker,       \* /var/pkg/<name> exists
          phase,        \* idle, request (no answer yet), body
          attempt, redirects, total, content_len,
          pos,          \* how much of the package this connection has sent
          lengths,      \* whether the answers so far stated their length
          cut,          \* the server closed before the end of the package
          ret           \* how the last command ended

progress == <<attempt, redirects, total, content_len, pos, lengths, cut>>
vars == <<bin, byPkg, marker, phase, progress, ret>>

NoFile == <<-1>>
Exists == bin # NoFile
Body == [k \in 1..BodyLen |-> k]

Init == /\ bin = NoFile /\ byPkg = FALSE /\ marker = FALSE
        /\ phase = "idle" /\ ret = "none"
        /\ attempt = 0 /\ redirects = 0 /\ total = 0 /\ content_len = 0
        /\ pos = 0 /\ lengths = {} /\ cut = FALSE

---------------------------------------------------------------------------
(***************************************************************************)
(* do_install around the download.                                         *)
(***************************************************************************)

Refused == Exists /\ ~marker

InstallRefused == /\ phase = "idle" /\ Refused
                  /\ ret' = "refused"
                  /\ UNCHANGED <<bin, byPkg, marker, phase, progress>>

\* The old file goes first, then net_http_save starts.
Install == /\ phase = "idle" /\ ~Refused
           /\ bin' = NoFile /\ byPkg' = TRUE
           /\ phase' = "request" /\ ret' = "none"
           /\ attempt' = 0 /\ redirects' = 0
           /\ total' = 0 /\ content_len' = 0 /\ pos' = 0
           /\ lengths' = {} /\ cut' = FALSE
           /\ UNCHANGED marker

\* What do_install does with anything but 200.
Failed == /\ bin' = NoFile
          /\ phase' = "idle" /\ ret' = "failed"
          /\ UNCHANGED <<byPkg, marker, progress>>

\* After 200: an empty file is removed, the marker is written if it can be.
Finished == IF total = 0
            THEN /\ bin' = NoFile /\ ret' = "failed"
                 /\ UNCHANGED marker
            ELSE /\ marker' \in {marker, TRUE}
                 /\ ret' = "installed"
                 /\ UNCHANGED bin

---------------------------------------------------------------------------
(***************************************************************************)
(* net_http_save.                                                          *)
(***************************************************************************)

\* Mutant of Retry: the attempts are not counted.
RetryForever == /\ redirects' = 0
                /\ phase' = "request"
                /\ UNCHANGED <<bin, byPkg, marker, attempt, total, content_len, pos,
                               lengths, cut, ret>>

\* retry: what is there is kept, unless this was the last attempt.
Retry == IF attempt + 1 >= ATTEMPTS
         THEN Failed
         ELSE /\ attempt' = attempt + 1
              /\ redirects' = 0
              /\ phase' = "request"
              /\ UNCHANGED <<bin, byPkg, marker, total, content_len, pos, lengths, cut, ret>>

\* Connecting, the handshake, sending or the header fails.
RequestFails == phase = "request" /\ Retry

\* Returned as it is: the name does not resolve, a status that is final.
Refusal == phase = "request" /\ Failed

Redirect == /\ phase = "request"
            /\ IF redirects + 1 > REDIRECTS
               THEN Failed
               ELSE /\ redirects' = redirects + 1
                    /\ UNCHANGED <<bin, byPkg, marker, phase, attempt, total,
                                   content_len, pos, lengths, cut, ret>>

Undefined(n) == [k \in 1..n |-> 0]

\* fs_prealloc_file keeps what the file holds as far as it reaches.
Prealloc(file, n) ==
    IF file = NoFile THEN Undefined(n)
    ELSE [k \in 1..n |-> IF k <= Len(file) THEN file[k] ELSE 0]

\* n bytes from the connection, at "at" in the file: fs_write_at into a
\* preallocated file, or fs_append_file.
Fits(file, at, n, len) == len = 0 \/ (file # NoFile /\ at + n <= Len(file))

\* Mutant of Put: each connection writes from the start of the file.
PutAtStart(file, at, n, from, len) ==
    IF n = 0 THEN file
    ELSE IF file = NoFile \/ len = 0 THEN [k \in 1..n |-> from + k]
    ELSE [k \in 1..Len(file) |-> IF k <= n THEN from + k ELSE file[k]]

Put(file, at, n, from, len) ==
    LET new == [k \in 1..n |-> from + k]
    IN  IF n = 0 THEN file
        ELSE IF len = 0 THEN (IF file = NoFile THEN new ELSE file \o new)
        ELSE [k \in 1..Len(file) |-> IF k \in at+1 .. at+n THEN new[k - at] ELSE file[k]]

\* The header has come, stating a length or not, with n bytes of the body
\* behind it; "start" is where the server begins, t is the new total, len the
\* new content_len, and ok says that the pool has room.
Answer(file, t, len, start, n, stated, ok) ==
    LET f == IF len > 0 /\ t = 0 THEN Prealloc(file, len) ELSE file
    IN  IF ok /\ (n = 0 \/ Fits(f, t, n, len))
        THEN /\ bin' = Put(f, t, n, start, len)
             /\ total' = t + n /\ content_len' = len
             /\ pos' = start + n
             /\ lengths' = lengths \cup {stated}
             /\ phase' = "body"
             /\ UNCHANGED <<byPkg, marker, attempt, redirects, cut, ret>>
        ELSE Failed

\* Mutant of Answer200: what the broken connection left is kept.
Answer200Kept(n, stated, ok) ==
    /\ phase = "request"
    /\ n \in 0..BodyLen
    /\ Answer(bin, 0, IF stated THEN BodyLen ELSE 0, 0, n, stated, ok)

\* The whole package: whatever was there is dropped.
Answer200(n, stated, ok) ==
    /\ phase = "request"
    /\ n \in 0..BodyLen
    /\ Answer(IF total > 0 THEN NoFile ELSE bin,
              0, IF stated THEN BodyLen ELSE 0, 0, n, stated, ok)

\* The rest of the package, which was asked for with Range: bytes=total-.
Answer206(n, stated, ok) ==
    /\ phase = "request" /\ total > 0 /\ total < BodyLen
    /\ n \in 0 .. BodyLen - total
    /\ Answer(bin, total,
              IF content_len = 0 /\ stated THEN BodyLen ELSE content_len,
              total, n, stated, ok)

Chunk(n, ok) ==
    /\ phase = "body" /\ pos + n <= BodyLen
    /\ IF ok /\ Fits(bin, total, n, content_len)
       THEN /\ bin' = Put(bin, total, n, pos, content_len)
            /\ total' = total + n /\ pos' = pos + n
            /\ UNCHANGED <<byPkg, marker, phase, attempt, redirects, content_len, lengths, cut, ret>>
       ELSE Failed

\* The connection ends cleanly, which is taken for the end of the package.
CleanEof == /\ phase = "body"
            /\ cut' = (pos < BodyLen)
            /\ phase' = "idle"
            /\ Finished
            /\ UNCHANGED <<byPkg, attempt, redirects, total, content_len, pos, lengths>>

Drop == phase = "body" /\ Retry

---------------------------------------------------------------------------

Remove == /\ phase = "idle" /\ Exists /\ marker
          /\ bin' = NoFile /\ byPkg' = FALSE
          /\ marker' \in {FALSE, marker}       \* best effort
          /\ ret' = "removed"
          /\ UNCHANGED <<phase, progress>>

\* Something else than pkg puts a command of that name there.
SystemCommand == /\ phase = "idle" /\ ~Exists
                 /\ bin' = Undefined(1) /\ byPkg' = FALSE
                 /\ ret' = "none"
                 /\ UNCHANGED <<marker, phase, progress>>

\* The timer sees Ctrl+C and jumps out of the program.
Interrupt == /\ phase # "idle"
             /\ phase' = "idle" /\ ret' = "none"
             /\ UNCHANGED <<bin, byPkg, marker, progress>>

Serves == \/ RequestFails \/ Refusal \/ Redirect \/ CleanEof \/ Drop
          \/ \E n \in 0..BodyLen, stated, ok \in BOOLEAN :
                Answer200(n, stated, ok) \/ Answer206(n, stated, ok)
          \/ \E n \in 1..BodyLen, ok \in BOOLEAN : Chunk(n, ok)

Next == InstallRefused \/ Install \/ Serves \/ Remove \/ SystemCommand \/ Interrupt

\* No timeout ends a wait for the body (tcp_recv with timeout_ms = 0), so that
\* this is about the network: it does not stay silent for ever.
Spec == Init /\ [][Next]_vars /\ WF_vars(Serves)

---------------------------------------------------------------------------
(***************************************************************************)
(* Properties.                                                             *)
(***************************************************************************)

\* The loops' counters keep their bounds, and total is never past the file.
TypeOK ==
    /\ Exists => /\ Len(bin) <= 2 * BodyLen
                 /\ \A k \in DOMAIN bin : bin[k] \in 0..BodyLen
    /\ {byPkg, marker, cut} \subseteq BOOLEAN /\ lengths \subseteq BOOLEAN
    /\ phase \in {"idle", "request", "body"}
    /\ ret \in {"none", "refused", "failed", "installed", "removed"}
    /\ attempt \in 0 .. ATTEMPTS - 1 /\ redirects \in 0..REDIRECTS
    /\ total \in 0..BodyLen /\ pos \in 0..BodyLen /\ content_len \in {0, BodyLen}
    /\ phase # "idle" /\ total > 0 => Exists /\ total <= Len(bin)

\* A connection that breaks is resumed at total: whatever happened before -
\* breaks, redirects, a server that starts over, a length that is known or
\* not - the file holds the first total bytes of the package at its front
\* when the next request goes out, and nothing that an append would land
\* behind.
ResumeSound ==
    /\ TypeOK
    /\ phase # "idle" /\ lengths # BOOLEAN =>
        /\ total > 0 => SubSeq(bin, 1, total) = SubSeq(Body, 1, total)
        /\ Exists => Len(bin) = IF lengths = {TRUE} THEN BodyLen ELSE total

\* A package that pkg reports as installed is the server's package, byte for
\* byte, unless the server closed a connection early or gave the length in
\* some of its answers and not in others.
InstalledWhole ==
    ret = "installed" /\ ~cut /\ lengths # BOOLEAN => bin = Body

\* pkg install comes to an end: neither redirects nor broken connections
\* keep it going for ever.
InstallEnds == (phase # "idle") ~> (phase = "idle")
=============================================================================

------------------------------ MODULE Keyboard ------------------------------
(***************************************************************************)
(* Scancodes between the controller and get_key (kernel/kernel.c): the     *)
(* timer moves what waits at the port to a ring while a program runs, and  *)
(* get_key takes from the ring first and then from the port.  The timer    *)
(* interrupts get_key between any two of its accesses.                     *)
(*                                                                         *)
(* A scancode is its number in the order of typing and a kind: ctrl and    *)
(* release stand for the keys that only change the state both sides keep,  *)
(* c for the C key, key for all others, the prefix 0xE0 included.          *)
(***************************************************************************)
EXTENDS Integers, Sequences

CONSTANTS KB_RING,     \* slots of the ring (64)
          MaxKeys      \* bound: keys typed in a behaviour

ASSUME KeyboardAssumption == KB_RING \in Nat \ {0, 1} /\ MaxKeys \in Nat

VARIABLES keys,        \* the kinds of the keys typed so far
          port,        \* the number of the code waiting at the port, or 0
          latch,       \* what reading the port returns when nothing waits
          kb_ring, kb_head, kb_tail,
          ctrl,        \* the Ctrl key is down, as far as the kernel has seen
          reader,      \* where next_scancode is
          taken,       \* codes get_key has taken
          heard,       \* codes the timer has used up
          lapped       \* the ring has been filled past its last slot

kb == <<keys, port, latch, kb_ring, kb_head, kb_tail, ctrl, reader, taken, heard, lapped>>

Kinds == {"key", "c", "ctrl", "release"}

KbInit == /\ keys = <<>> /\ port = 0 /\ latch = 0
          /\ kb_ring = [i \in 0..KB_RING-1 |-> 0] /\ kb_head = 0 /\ kb_tail = 0
          /\ ctrl = FALSE /\ reader = "none"
          /\ taken = {} /\ heard = {} /\ lapped = FALSE

\* The controller's output buffer holds one code; the keyboard keeps the rest.
Type(k) == /\ Len(keys) < MaxKeys /\ port = 0
           /\ keys' = Append(keys, k)
           /\ port' = Len(keys) + 1
           /\ UNCHANGED <<latch, kb_ring, kb_head, kb_tail, ctrl, reader, taken, heard, lapped>>

kb_ring_count == (kb_head - kb_tail + KB_RING) % KB_RING

\* Mutant of Push: the slot before the last is taken for the end.
PushDropped(n) ==
    IF kb_ring_count < KB_RING - 2
    THEN /\ kb_ring' = [kb_ring EXCEPT ![kb_head] = n]
         /\ kb_head' = (kb_head + 1) % KB_RING
         /\ UNCHANGED lapped
    ELSE UNCHANGED <<kb_ring, kb_head, lapped>>

\* kb_ring_push.  The count is at most KB_RING - 1, so that the test never
\* refuses: the code that fills the last slot makes the ring look empty.
Push(n) == /\ kb_ring_count < KB_RING
           /\ kb_ring' = [kb_ring EXCEPT ![kb_head] = n]
           /\ kb_head' = (kb_head + 1) % KB_RING
           /\ lapped' = (lapped \/ kb_head' = kb_tail)

CtrlC == port # 0 /\ keys[port] = "c" /\ ctrl

\* ctrlc_poll, for the code at the port.
ctrlc_poll ==
    /\ port # 0
    /\ port' = 0 /\ latch' = port
    /\ ctrl' = CASE keys[port] = "ctrl" -> TRUE
                 [] keys[port] = "release" -> FALSE
                 [] OTHER -> ctrl
    /\ IF keys[port] = "key" \/ (keys[port] = "c" /\ ~ctrl)
       THEN Push(port) /\ UNCHANGED heard
       ELSE /\ heard' = heard \cup {port}
            /\ UNCHANGED <<kb_ring, kb_head, lapped>>
    /\ UNCHANGED <<keys, kb_tail, taken>>

---------------------------------------------------------------------------
(***************************************************************************)
(* get_key and next_scancode: the ring, the status port, the data port.    *)
(***************************************************************************)

get_key == /\ reader = "none"
           /\ reader' = "ring"
           /\ UNCHANGED <<keys, port, latch, kb_ring, kb_head, kb_tail, ctrl, taken, heard, lapped>>

\* What get_key does with the code: keep the state of Ctrl and go on, or
\* return the key.
Take(n) ==
    /\ taken' = taken \cup {n}
    /\ ctrl' = CASE keys[n] = "ctrl" -> TRUE
                 [] keys[n] = "release" -> FALSE
                 [] OTHER -> ctrl
    /\ reader' = IF keys[n] \in {"ctrl", "release"} THEN "ring" ELSE "none"

ReadRing == /\ reader = "ring"
            /\ IF kb_ring_count > 0
               THEN /\ Take(kb_ring[kb_tail])
                    /\ kb_tail' = (kb_tail + 1) % KB_RING
               ELSE /\ reader' = "status"
                    /\ UNCHANGED <<ctrl, taken, kb_tail>>
            /\ UNCHANGED <<keys, port, latch, kb_ring, kb_head, heard, lapped>>

ReadStatus == /\ reader = "status"
              /\ reader' = IF port = 0 THEN "ring" ELSE "port"
              /\ UNCHANGED <<keys, port, latch, kb_ring, kb_head, kb_tail, ctrl, taken, heard, lapped>>

\* The timer may have emptied the port since: the last code is read again.
ReadPort == /\ reader = "port"
            /\ Take(IF port = 0 THEN latch ELSE port)
            /\ latch' = IF port = 0 THEN latch ELSE port
            /\ port' = 0
            /\ UNCHANGED <<keys, kb_ring, kb_head, kb_tail, heard, lapped>>

---------------------------------------------------------------------------
(***************************************************************************)
(* Properties.                                                             *)
(***************************************************************************)

KbTypeOK ==
    /\ keys \in Seq(Kinds) /\ Len(keys) <= MaxKeys
    /\ {port, latch} \subseteq 0..Len(keys)
    /\ kb_ring \in [0..KB_RING-1 -> 0..Len(keys)]
    /\ {kb_head, kb_tail} \subseteq 0..KB_RING-1
    /\ {ctrl, lapped} \subseteq BOOLEAN
    /\ reader \in {"none", "ring", "status", "port"}
    /\ taken \cup heard \subseteq 1..Len(keys)

Waiting == {kb_ring[(kb_tail + i) % KB_RING] : i \in 0 .. kb_ring_count - 1}

\* "nothing typed is lost": however the timer, get_key and the programs that
\* start, end and are interrupted are interleaved, a code that was typed is
\* at the port, in the ring, taken by get_key or used up by the timer, as
\* long as the ring has not been filled past its last slot.
NothingLost == ~lapped => 1..Len(keys) = taken \cup heard \cup Waiting \cup ({port} \ {0})
=============================================================================

------------------------------ MODULE Programs ------------------------------
(***************************************************************************)
(* Programs and scripts inside each other: exec_file (kernel/exec.c),      *)
(* elf_run (kernel/elf.c), the end of linux_run (kernel/linux.c), and the  *)
(* three ways out of a program: it returns or calls exit (kernel/libc.c),  *)
(* it faults (kernel/idt.c), or the timer sees Ctrl+C (kernel/kernel.c).   *)
(* All of them jump to whatever tanja_exit_jmp holds.                      *)
(*                                                                         *)
(* stack holds the calls of exec_file that have not returned; a jump       *)
(* buffer is the position of its frame in it, 0 before the first setjmp.   *)
(* Every image takes one unit of the program region.                       *)
(***************************************************************************)
EXTENDS Keyboard

CONSTANTS EXEC_MAX_DEPTH,   \* 4 in the code
          Region,           \* units of the region programs are loaded into
          ATEXIT_MAX        \* handlers atexit keeps (32)

ASSUME ProgramsAssumption == {EXEC_MAX_DEPTH, Region, ATEXIT_MAX} \subseteq Nat \ {0}

VARIABLES stack,
          exec_depth, program_brk,
          tanja_exit_jmp, tanja_exit_active, kb_raw_mode,
          atexit_funcs,     \* whose handlers are registered
          skipped,          \* exec_file calls that a jump has left behind
          halted            \* a jump through an empty buffer, a kernel fault

prog == <<stack, exec_depth, program_brk, tanja_exit_jmp, tanja_exit_active,
          kb_raw_mode, atexit_funcs, skipped, halted>>
vars == <<kb, prog>>

Top == stack[Len(stack)]
SetTop(f) == [stack EXCEPT ![Len(stack)] = f]
At(pc) == stack # <<>> /\ Top.pc = pc /\ ~halted

Init == /\ KbInit
        /\ stack = <<>> /\ exec_depth = 0 /\ program_brk = 0
        /\ tanja_exit_jmp = 0 /\ tanja_exit_active = FALSE /\ kb_raw_mode = FALSE
        /\ atexit_funcs = <<>> /\ skipped = 0 /\ halted = FALSE

---------------------------------------------------------------------------
(***************************************************************************)
(* exec_file, elf_run and linux_run.                                       *)
(***************************************************************************)

\* The shell at its prompt, a script at a line, or a program that calls
\* execute_command or system; Linux programs have no such call.
CanExec == ~halted /\ (stack # <<>> => Top.pc = "run" /\ Top.kind # "linux")

exec_file(kind) ==
    /\ CanExec /\ exec_depth < EXEC_MAX_DEPTH
    /\ exec_depth' = exec_depth + 1
    /\ stack' = Append(stack, [kind |-> kind,
                               pc |-> IF kind = "script" THEN "run" ELSE "load",
                               brk |-> program_brk, active |-> FALSE, jmp |-> 0])
    /\ reader' = "none"
    /\ UNCHANGED <<program_brk, tanja_exit_jmp, tanja_exit_active, kb_raw_mode,
                   atexit_funcs, skipped, halted, keys, port, latch, kb_ring,
                   kb_head, kb_tail, ctrl, taken, heard, lapped>>

\* Mutant of ReturnEarly: the early return does not count.
ReturnUncounted ==
    /\ At("load")
    /\ program_brk' = IF Top.kind = "elf" THEN Top.brk ELSE program_brk
    /\ stack' = SubSeq(stack, 1, Len(stack) - 1)
    /\ UNCHANGED <<exec_depth, tanja_exit_jmp, tanja_exit_active, kb_raw_mode,
                   atexit_funcs, skipped, halted, kb>>

\* A script's last line is done, or the image cannot be loaded.
ReturnEarly ==
    /\ \/ At("run") /\ Top.kind = "script"
       \/ At("load")
    /\ program_brk' = IF Top.kind = "elf" THEN Top.brk ELSE program_brk
    /\ stack' = SubSeq(stack, 1, Len(stack) - 1)
    /\ exec_depth' = exec_depth - 1
    /\ UNCHANGED <<tanja_exit_jmp, tanja_exit_active, kb_raw_mode, atexit_funcs,
                   skipped, halted, kb>>

\* Mutant of Place: the limit of the region is not looked at.
PlaceAnywhere == /\ At("load") /\ Top.kind = "elf" /\ program_brk = Top.brk
                 /\ program_brk' = program_brk + 1
                 /\ UNCHANGED <<stack, exec_depth, tanja_exit_jmp, tanja_exit_active,
                                kb_raw_mode, atexit_funcs, skipped, halted, kb>>

\* The sections are placed above the break.
Place == /\ At("load") /\ Top.kind = "elf"
         /\ program_brk = Top.brk /\ program_brk < Region
         /\ program_brk' = program_brk + 1
         /\ UNCHANGED <<stack, exec_depth, tanja_exit_jmp, tanja_exit_active,
                        kb_raw_mode, atexit_funcs, skipped, halted, kb>>

\* The old buffer is saved and tanja_exit_active set, then setjmp.
Arm == /\ At("load")
       /\ Top.kind = "elf" => program_brk > Top.brk
       /\ stack' = SetTop([Top EXCEPT !.pc = "armed", !.active = tanja_exit_active,
                                      !.jmp = tanja_exit_jmp])
       /\ tanja_exit_active' = TRUE
       /\ UNCHANGED <<exec_depth, program_brk, tanja_exit_jmp, kb_raw_mode,
                      atexit_funcs, skipped, halted, kb>>

SetJmp == /\ At("armed")
          /\ tanja_exit_jmp' = Len(stack)
          /\ stack' = SetTop([Top EXCEPT !.pc = "run"])
          /\ UNCHANGED <<exec_depth, program_brk, tanja_exit_active, kb_raw_mode,
                         atexit_funcs, skipped, halted, kb>>

\* Mutant of Restore: the buffer of the program outside is not put back.
RestoreNothing == /\ At("back")
                  /\ stack' = SetTop([Top EXCEPT !.pc = "unarm"])
                  /\ UNCHANGED <<exec_depth, program_brk, tanja_exit_jmp, tanja_exit_active,
                                 kb_raw_mode, atexit_funcs, skipped, halted, kb>>

\* Behind the setjmp, however it was reached: the buffer, then the flag and
\* the keyboard, then the handlers, then the break.
Restore == /\ At("back")
           /\ tanja_exit_jmp' = Top.jmp
           /\ stack' = SetTop([Top EXCEPT !.pc = "unarm"])
           /\ UNCHANGED <<exec_depth, program_brk, tanja_exit_active, kb_raw_mode,
                          atexit_funcs, skipped, halted, kb>>

Disarm == /\ At("unarm")
          /\ tanja_exit_active' = Top.active
          /\ kb_raw_mode' = FALSE
          /\ stack' = SetTop([Top EXCEPT !.pc = "atexit"])
          /\ UNCHANGED <<exec_depth, program_brk, tanja_exit_jmp, atexit_funcs,
                         skipped, halted, kb>>

\* tanja_run_atexit: the last one registered first; linux_run has none.
RunHandler == /\ At("atexit") /\ Top.kind = "elf" /\ atexit_funcs # <<>>
              /\ atexit_funcs' = SubSeq(atexit_funcs, 1, Len(atexit_funcs) - 1)
              /\ UNCHANGED <<stack, exec_depth, program_brk, tanja_exit_jmp,
                             tanja_exit_active, kb_raw_mode, skipped, halted, kb>>

\* Mutant of Leave: the break stays where the program left it.
LeaveBreak == /\ At("atexit") /\ (Top.kind = "linux" \/ atexit_funcs = <<>>)
              /\ stack' = SubSeq(stack, 1, Len(stack) - 1)
              /\ exec_depth' = exec_depth - 1
              /\ UNCHANGED <<program_brk, tanja_exit_jmp, tanja_exit_active, kb_raw_mode,
                             atexit_funcs, skipped, halted, kb>>

Leave == /\ At("atexit") /\ (Top.kind = "linux" \/ atexit_funcs = <<>>)
         /\ program_brk' = IF Top.kind = "elf" THEN Top.brk ELSE program_brk
         /\ stack' = SubSeq(stack, 1, Len(stack) - 1)
         /\ exec_depth' = exec_depth - 1
         /\ UNCHANGED <<tanja_exit_jmp, tanja_exit_active, kb_raw_mode, atexit_funcs,
                        skipped, halted, kb>>

---------------------------------------------------------------------------
(***************************************************************************)
(* What programs do, and the ways out.                                     *)
(***************************************************************************)

Running == At("run") /\ Top.kind # "script"

SetRaw == /\ Running
          /\ kb_raw_mode' \in BOOLEAN
          /\ UNCHANGED <<stack, exec_depth, program_brk, tanja_exit_jmp, tanja_exit_active,
                         atexit_funcs, skipped, halted, kb>>

atexit == /\ Running /\ Top.kind = "elf" /\ Len(atexit_funcs) < ATEXIT_MAX
          /\ atexit_funcs' = Append(atexit_funcs, Len(stack))
          /\ UNCHANGED <<stack, exec_depth, program_brk, tanja_exit_jmp,
                         tanja_exit_active, kb_raw_mode, skipped, halted, kb>>

\* main returns to elf_run, exit_group to linux_run.
Returns == /\ Running
           /\ stack' = SetTop([Top EXCEPT !.pc = "back"])
           /\ reader' = "none"
           /\ UNCHANGED <<exec_depth, program_brk, tanja_exit_jmp, tanja_exit_active,
                          kb_raw_mode, atexit_funcs, skipped, halted, keys, port,
                          latch, kb_ring, kb_head, kb_tail, ctrl, taken, heard, lapped>>

\* longjmp: the frames above the target are gone, and what they would have
\* restored is not restored.
LongJmp == /\ IF tanja_exit_jmp = 0
              THEN halted' = TRUE /\ UNCHANGED <<stack, skipped>>
              ELSE /\ stack' = [SubSeq(stack, 1, tanja_exit_jmp)
                                   EXCEPT ![tanja_exit_jmp].pc = "back"]
                   /\ skipped' = skipped + (Len(stack) - tanja_exit_jmp)
                   /\ UNCHANGED halted
           /\ reader' = "none"
           /\ UNCHANGED <<exec_depth, program_brk, tanja_exit_jmp, tanja_exit_active,
                          kb_raw_mode, atexit_funcs>>

\* exit, or a fault in the program's own code, handlers included.
ExitOrFault ==
    /\ (At("run") /\ Top.kind # "script") \/ (At("atexit") /\ Top.kind = "elf" /\ atexit_funcs # <<>>)
    /\ tanja_exit_active
    /\ LongJmp
    /\ UNCHANGED <<keys, port, latch, kb_ring, kb_head, kb_tail, ctrl, taken, heard, lapped>>

\* timer_handler.
Timer == /\ tanja_exit_active /\ ~kb_raw_mode /\ ~halted
         /\ IF CtrlC THEN LongJmp ELSE UNCHANGED <<prog, reader>>
         /\ ctrlc_poll

\* Keys are read by the shell at its prompt and by running programs.
Reads == /\ ~halted /\ (stack # <<>> => Top.pc = "run")
         /\ get_key \/ ReadRing \/ ReadStatus \/ ReadPort
         /\ UNCHANGED prog

Types == ~halted /\ (\E k \in Kinds : Type(k)) /\ UNCHANGED prog

Reboot == /\ halted
          /\ keys' = <<>> /\ port' = 0 /\ latch' = 0
          /\ kb_ring' = [i \in 0..KB_RING-1 |-> 0] /\ kb_head' = 0 /\ kb_tail' = 0
          /\ ctrl' = FALSE /\ reader' = "none"
          /\ taken' = {} /\ heard' = {} /\ lapped' = FALSE
          /\ stack' = <<>> /\ exec_depth' = 0 /\ program_brk' = 0
          /\ tanja_exit_jmp' = 0 /\ tanja_exit_active' = FALSE /\ kb_raw_mode' = FALSE
          /\ atexit_funcs' = <<>> /\ skipped' = 0 /\ halted' = FALSE

Ends == Restore \/ Disarm \/ RunHandler \/ Leave

Next == \/ \E kind \in {"elf", "linux", "script"} : exec_file(kind)
        \/ ReturnEarly \/ Place \/ Arm \/ SetJmp \/ Ends
        \/ SetRaw \/ atexit \/ Returns \/ ExitOrFault
        \/ Timer \/ Reads \/ Types \/ Reboot

Spec == Init /\ [][Next]_vars

---------------------------------------------------------------------------
(***************************************************************************)
(* Properties.                                                             *)
(***************************************************************************)

IsProgram(i) == stack[i].kind # "script"

\* Depths, breaks and saved buffers keep their ranges.
TypeOK ==
    /\ KbTypeOK
    /\ exec_depth \in 0..EXEC_MAX_DEPTH /\ program_brk \in 0..Region
    /\ tanja_exit_jmp \in 0..Len(stack)
    /\ {tanja_exit_active, kb_raw_mode, halted} \subseteq BOOLEAN
    /\ Len(atexit_funcs) <= ATEXIT_MAX
    /\ \A i \in 1..Len(stack) :
          /\ stack[i].kind \in {"elf", "linux", "script"}
          /\ stack[i].pc \in {"load", "armed", "run", "back", "unarm", "atexit"}
          /\ stack[i].brk \in 0..Region /\ stack[i].jmp \in 0 .. i - 1
          /\ i < Len(stack) => stack[i].pc = "run"

\* "nested programs unwind to their OWN elf_run": outside the instructions
\* that set the buffer up and put the old one back, exit, a fault and Ctrl+C
\* end the innermost program that runs - never a finished one, one further
\* out, or the shell.
JumpsToInnermost ==
    ~halted /\ ~At("armed") /\ ~At("unarm") =>
        LET running == {i \in 1..Len(stack) : IsProgram(i) /\ stack[i].pc \in {"run", "back"}}
        IN  /\ tanja_exit_active = (running # {})
            /\ running # {} => /\ tanja_exit_jmp \in running
                               /\ \A i \in running : i <= tanja_exit_jmp

\* A nested program never lands on the memory of one that has not ended, and
\* when control is back at the prompt everything programs share is as it was
\* at boot, however the programs were left.
SharedRestored ==
    ~halted =>
        /\ stack = <<>> => /\ program_brk = 0 /\ tanja_exit_jmp = 0
                           /\ ~tanja_exit_active /\ ~kb_raw_mode
        /\ \A i, j \in 1..Len(stack) :
              i < j /\ stack[i].kind = "elf" /\ stack[j].kind = "elf" =>
                  stack[j].brk > stack[i].brk
        /\ \A i \in 1..Len(stack) :
              stack[i].kind = "elf" /\ stack[i].pc # "load" => program_brk > stack[i].brk

\* exec_depth counts the calls of exec_file that are open, and those a jump
\* has left behind; nothing else makes the nesting look deeper than it is.
DepthCounts == exec_depth = Len(stack) + skipped
=============================================================================

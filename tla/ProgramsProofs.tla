--------------------------- MODULE ProgramsProofs ---------------------------
(***************************************************************************)
(* What holds of programs and scripts inside each other for every depth of *)
(* nesting, size of the program region and length of the keyboard ring,    *)
(* wherever Ctrl+C, exit and faults jump.                                  *)
(***************************************************************************)
EXTENDS Programs, SequenceTheorems, TLAPS

Frame == [kind : {"elf", "linux", "script"},
          pc : {"load", "armed", "run", "back", "unarm", "atexit"},
          brk : 0..Region, active : BOOLEAN, jmp : Nat]

\* Frames below the top run something further in, which Linux programs cannot.
Frames == /\ stack \in Seq(Frame)
          /\ \A i \in 1..Len(stack) :
                /\ stack[i].kind = "script" => stack[i].pc = "run"
                /\ i < Len(stack) => stack[i].pc = "run" /\ stack[i].kind # "linux"

\* j is the innermost program among the first k frames of s, 0 when there is
\* none.
Inner(s, j, k) ==
    \/ j = 0 /\ \A m \in 1..k : s[m].kind = "script"
    \/ j \in 1..k /\ s[j].kind # "script" /\ \A m \in j+1..k : s[m].kind = "script"

\* What frame i of s keeps: the buffer of the innermost program around it.
Saved(s, i) ==
    IF s[i].kind # "script" /\ s[i].pc # "load"
    THEN Inner(s, s[i].jmp, i - 1) /\ (s[i].active <=> s[i].jmp # 0)
    ELSE s[i].jmp = 0

\* How many frames of s the jump buffer speaks for: not the top one while its
\* buffer is not set up yet or put back already.
Level(s) == IF s # <<>> /\ s[Len(s)].kind # "script" /\ s[Len(s)].pc \notin {"run", "back"}
            THEN Len(s) - 1 ELSE Len(s)

Half(s) == s # <<>> /\ s[Len(s)].pc \in {"armed", "unarm"}

Buffers == /\ tanja_exit_jmp \in Nat /\ Inner(stack, tanja_exit_jmp, Level(stack))
           /\ \A i \in 1..Len(stack) : Saved(stack, i)
           /\ tanja_exit_active \in BOOLEAN
           /\ tanja_exit_active <=> (tanja_exit_jmp # 0 \/ Half(stack))

IsElf(i) == stack[i].kind = "elf"

\* Every program in the region starts above those further out.
Breaks == /\ program_brk \in 0..Region
          /\ (\A i \in 1..Len(stack) : ~IsElf(i)) => program_brk = 0
          /\ \A i \in 1..Len(stack) : IsElf(i) =>
                /\ program_brk >= stack[i].brk
                /\ stack[i].pc # "load" => program_brk > stack[i].brk
                /\ stack[i].brk = 0 \/ \E j \in 1..i-1 : IsElf(j)
          /\ \A i, j \in 1..Len(stack) :
                i < j /\ IsElf(i) /\ IsElf(j) => stack[j].brk > stack[i].brk

\* The keyboard is raw only while a program that could have asked for it is
\* not done.
Raw == /\ kb_raw_mode \in BOOLEAN
       /\ kb_raw_mode => \E i \in 1..Len(stack) :
                            IsProgram(i) /\ stack[i].pc \in {"run", "back", "unarm"}

Counts == /\ skipped \in Nat /\ exec_depth \in 0..EXEC_MAX_DEPTH /\ DepthCounts
          /\ atexit_funcs \in Seq(Nat) /\ Len(atexit_funcs) <= ATEXIT_MAX
          /\ halted \in BOOLEAN

ProgInv == Frames /\ Buffers /\ Breaks /\ Raw /\ Counts

---------------------------------------------------------------------------
(***************************************************************************)
(* The innermost program, and the ways the stack changes.                  *)
(***************************************************************************)

\* Stacks with the same kinds of frames have the same innermost program.
LEMMA InnerSame ==
    ASSUME NEW s, NEW t, NEW j, NEW k \in Nat, Inner(s, j, k),
           \A m \in 1..k : t[m].kind = s[m].kind
    PROVE  Inner(t, j, k)
BY DEF Inner

\* There is one innermost program.
LEMMA InnerUnique ==
    ASSUME NEW s, NEW j, NEW i, NEW k \in Nat, Inner(s, j, k), Inner(s, i, k)
    PROVE  i = j
BY DEF Inner

\* It is further in than every other program.
LEMMA InnerLast ==
    ASSUME NEW s, NEW j, NEW k \in Nat, Inner(s, j, k)
    PROVE  /\ j \in 0..k
           /\ j # 0 => s[j].kind # "script"
           /\ \A m \in 1..k : s[m].kind # "script" => j # 0 /\ m <= j
BY DEF Inner

\* What a frame keeps depends on the frames up to it alone.
LEMMA SavedSame ==
    ASSUME NEW s, NEW t, NEW i \in Nat \ {0}, Saved(s, i), t[i] = s[i],
           \A m \in 1..i-1 : t[m].kind = s[m].kind
    PROVE  Saved(t, i)
<1>1. i - 1 \in Nat
  OBVIOUS
<1>2. Inner(s, s[i].jmp, i - 1) => Inner(t, s[i].jmp, i - 1)
  BY <1>1, InnerSame
<1> QED  BY <1>2 DEF Saved

\* Another frame on top.
LEMMA PushFacts ==
    ASSUME Frames, NEW f \in Frame, stack' = Append(stack, f)
    PROVE  /\ stack' \in Seq(Frame) /\ Len(stack') = Len(stack) + 1 /\ stack' # <<>>
           /\ stack'[Len(stack) + 1] = f
           /\ \A i \in 1..Len(stack) : stack'[i] = stack[i]
BY DEF Frames

\* The top frame is changed.
LEMMA TopFacts ==
    ASSUME Frames, stack # <<>>, NEW f \in Frame, stack' = SetTop(f)
    PROVE  /\ stack' \in Seq(Frame) /\ Len(stack') = Len(stack) /\ stack' # <<>>
           /\ Len(stack) \in Nat \ {0} /\ stack'[Len(stack)] = f
           /\ \A i \in 1..Len(stack)-1 : stack'[i] = stack[i]
BY DEF Frames, SetTop

\* The top frame is gone.
LEMMA PopFacts ==
    ASSUME Frames, stack # <<>>, stack' = SubSeq(stack, 1, Len(stack) - 1)
    PROVE  /\ stack' \in Seq(Frame) /\ Len(stack') = Len(stack) - 1
           /\ Len(stack) \in Nat \ {0}
           /\ \A i \in 1..Len(stack)-1 : stack'[i] = stack[i]
<1>1. stack \in Seq(Frame)
  BY DEF Frames
<1>2. Len(stack) \in Nat \ {0}
  BY <1>1, EmptySeq
<1>3. Len(stack) - 1 \in Int /\ \A i \in 1..Len(stack)-1 : stack[i] \in Frame
  BY <1>1, <1>2
<1> DEFINE s == SubSeq(stack, 1, Len(stack) - 1)
<1>4. /\ s \in Seq(Frame)
      /\ Len(s) = IF 1 <= Len(stack) - 1 THEN Len(stack) - 1 - 1 + 1 ELSE 0
      /\ \A i \in 1..(Len(stack)-1)-1+1 : s[i] = stack[1 + i - 1]
  BY <1>3, SubSeqProperties
<1> HIDE DEF s
<1>5. Len(s) = Len(stack) - 1
  <2>1. \A k \in Nat \ {0} : (IF 1 <= k - 1 THEN k - 1 - 1 + 1 ELSE 0) = k - 1
    OBVIOUS
  <2> QED  BY <1>2, <1>4, <2>1
<1>6. \A i \in 1..Len(stack)-1 : s[i] = stack[i]
  <2> TAKE i \in 1..Len(stack)-1
  <2>1. i \in 1..(Len(stack)-1)-1+1 /\ 1 + i - 1 = i
    BY <1>2
  <2> QED  BY <1>4, <2>1
<1>7. stack' = s
  BY DEF s
<1> QED  BY <1>2, <1>4, <1>5, <1>6, <1>7

\* The fields of a frame.
LEMMA FrameFacts ==
    ASSUME Frames, NEW i \in 1..Len(stack)
    PROVE  /\ stack[i] \in Frame /\ stack[i].brk \in 0..Region
           /\ stack[i].jmp \in Nat /\ stack[i].active \in BOOLEAN
<1>1. stack[i] \in Frame
  BY DEF Frames
<1> QED  BY <1>1 DEF Frame

\* At boot nothing runs.
LEMMA ProgStart == Init => ProgInv
<1> SUFFICES ASSUME Init PROVE ProgInv
    OBVIOUS
<1> USE ProgramsAssumption
<1>1. /\ stack = <<>> /\ Len(stack) = 0 /\ stack \in Seq(Frame)
      /\ atexit_funcs \in Seq(Nat) /\ Len(atexit_funcs) = 0
  BY DEF Init
<1>2. /\ tanja_exit_jmp = 0 /\ tanja_exit_active = FALSE /\ kb_raw_mode = FALSE
      /\ exec_depth = 0 /\ program_brk = 0 /\ skipped = 0 /\ halted = FALSE
  BY DEF Init
<1>3. Frames
  BY <1>1 DEF Frames
<1>4. Breaks
  BY <1>1, <1>2 DEF Breaks
<1>5. Raw
  BY <1>2 DEF Raw
<1>6. Counts
  <2>1. halted \in BOOLEAN
    BY <1>2
  <2> QED  BY <1>1, <1>2, <2>1 DEF Counts, DepthCounts
<1>7. Buffers
  <2>1. tanja_exit_active \in BOOLEAN /\ Level(stack) = 0 /\ ~Half(stack)
    BY <1>1, <1>2 DEF Level, Half
  <2>2. tanja_exit_active <=> (tanja_exit_jmp # 0 \/ Half(stack))
    BY <1>2, <2>1
  <2> QED  BY <1>1, <1>2, <2>1, <2>2 DEF Buffers, Inner
<1> QED  BY <1>3, <1>4, <1>5, <1>6, <1>7 DEF ProgInv

---------------------------------------------------------------------------
(***************************************************************************)
(* The steps.                                                              *)
(***************************************************************************)

\* exec_file opens a frame.
LEMMA ExecStep ==
    ASSUME ProgInv, NEW kind \in {"elf", "linux", "script"}, exec_file(kind)
    PROVE  ProgInv'
<1> USE ProgramsAssumption
<1> DEFINE n == Len(stack)
           f == [kind |-> kind, pc |-> IF kind = "script" THEN "run" ELSE "load",
                 brk |-> program_brk, active |-> FALSE, jmp |-> 0]
<1>1. /\ stack \in Seq(Frame) /\ n \in Nat /\ f \in Frame
      /\ program_brk \in 0..Region /\ Frames
  BY DEF ProgInv, Frames, Breaks, Frame
<1>2. /\ stack' = Append(stack, f) /\ exec_depth' = exec_depth + 1
      /\ exec_depth < EXEC_MAX_DEPTH
      /\ stack # <<>> => stack[n].pc = "run" /\ stack[n].kind # "linux"
      /\ UNCHANGED <<program_brk, tanja_exit_jmp, tanja_exit_active, kb_raw_mode,
                     atexit_funcs, skipped, halted>>
  BY DEF exec_file, CanExec, Top
<1>3. /\ stack' \in Seq(Frame) /\ Len(stack') = n + 1 /\ stack' # <<>>
      /\ stack'[n + 1] = f /\ \A i \in 1..n : stack'[i] = stack[i]
  BY <1>1, <1>2, PushFacts
<1>4. f.kind = kind /\ f.pc = (IF kind = "script" THEN "run" ELSE "load")
      /\ f.brk = program_brk /\ f.jmp = 0
  OBVIOUS
<1> HIDE DEF f
<1>5. Frames'
  BY <1>1, <1>2, <1>3, <1>4 DEF ProgInv, Frames
<1>6. Buffers'
  <2>1. Inner(stack, tanja_exit_jmp, n) /\ ~Half(stack)
    BY <1>1, <1>2 DEF ProgInv, Buffers, Level, Half
  <2>2. Inner(stack', tanja_exit_jmp, n)
    BY <1>1, <1>3, <2>1, InnerSame
  <2>3. Inner(stack', tanja_exit_jmp, Level(stack')) /\ ~Half(stack')
    BY <1>1, <1>3, <1>4, <2>2 DEF Level, Half, Inner
  <2>4. \A i \in 1..n : Saved(stack', i)
    <3> TAKE i \in 1..n
    <3>1. Saved(stack, i) /\ i \in Nat \ {0} /\ \A m \in 1..i-1 : m \in 1..n
      BY <1>1 DEF ProgInv, Buffers
    <3> QED  BY <1>1, <1>3, <3>1, SavedSame
  <2>5. Saved(stack', n + 1)
    BY <1>3, <1>4 DEF Saved
  <2> QED  BY <1>1, <1>2, <1>3, <2>1, <2>3, <2>4, <2>5 DEF ProgInv, Buffers
<1>7. Breaks'
  <2>1. \A i \in 1..n : IsElf(i) => program_brk > stack[i].brk
    BY SMTT(30), <1>1, <1>2 DEF ProgInv, Frames, Breaks, IsElf
  <2>2. \A i \in 1..n : (IsElf(i))' <=> IsElf(i)
    BY <1>3 DEF IsElf
  <2>3. (\A i \in 1..n : ~IsElf(i)) => program_brk = 0
    BY DEF ProgInv, Breaks
  <2>4. (\A i \in 1..Len(stack) : ~IsElf(i))' => program_brk' = 0
    BY <1>1, <1>2, <1>3, <2>2, <2>3
  <2>5. \A i \in 1..n+1 : stack'[i].kind = "elf" =>
            stack'[i].brk = 0 \/ \E j \in 1..i-1 : stack'[j].kind = "elf"
    BY <1>1, <1>2, <1>3, <1>4, <2>3 DEF ProgInv, Breaks, IsElf
  <2>6. \A i \in 1..n+1 : stack'[i].kind = "elf" =>
            /\ program_brk >= stack'[i].brk
            /\ stack'[i].pc # "load" => program_brk > stack'[i].brk
    BY <1>1, <1>2, <1>3, <1>4, <2>1 DEF ProgInv, Breaks, IsElf
  <2>7. \A i, j \in 1..n+1 : i < j /\ stack'[i].kind = "elf" /\ stack'[j].kind = "elf"
            => stack'[j].brk > stack'[i].brk
    BY SMTT(30), <1>1, <1>3, <1>4, <2>1 DEF ProgInv, Breaks, IsElf
  <2> QED  BY <1>1, <1>2, <1>3, <2>4, <2>5, <2>6, <2>7 DEF Breaks, IsElf
<1>8. Raw'
  BY <1>1, <1>2, <1>3, <1>4 DEF ProgInv, Raw, IsProgram
<1>9. Counts'
  BY <1>1, <1>2, <1>3 DEF ProgInv, Counts, DepthCounts
<1> QED  BY <1>5, <1>6, <1>7, <1>8, <1>9 DEF ProgInv

\* What holds of the stack and the break when its top frame is gone.
LEMMA PopBreaks ==
    ASSUME ProgInv, stack # <<>>, stack' = SubSeq(stack, 1, Len(stack) - 1),
           program_brk' = IF Top.kind = "elf" THEN Top.brk ELSE program_brk
    PROVE  Breaks'
<1> USE ProgramsAssumption
<1> DEFINE n == Len(stack)
<1>1. /\ stack' \in Seq(Frame) /\ Len(stack') = n - 1 /\ n \in Nat \ {0}
      /\ \A i \in 1..n-1 : stack'[i] = stack[i]
  BY PopFacts DEF ProgInv
<1>2. stack[n] \in Frame /\ stack[n].brk \in 0..Region
  BY <1>1, FrameFacts DEF ProgInv
<1>3. program_brk' \in 0..Region
  BY <1>2 DEF ProgInv, Breaks, Top
<1>4. \A i \in 1..n-1 : stack[i].kind = "elf" =>
         /\ program_brk' > stack[i].brk
         /\ stack[i].brk = 0 \/ \E j \in 1..i-1 : stack[j].kind = "elf"
  <2> SUFFICES ASSUME NEW i \in 1..n-1, stack[i].kind = "elf"
               PROVE  /\ program_brk' > stack[i].brk
                      /\ stack[i].brk = 0 \/ \E j \in 1..i-1 : stack[j].kind = "elf"
      OBVIOUS
  <2>1. i \in 1..n /\ n \in 1..n /\ i < n
    BY <1>1
  <2>2. stack[i].pc # "load"
    BY <2>1 DEF ProgInv, Frames
  <2>3. /\ program_brk > stack[i].brk
        /\ stack[i].brk = 0 \/ \E j \in 1..i-1 : stack[j].kind = "elf"
    BY <2>1, <2>2 DEF ProgInv, Breaks, IsElf
  <2>4. stack[n].kind = "elf" => stack[n].brk > stack[i].brk
    BY <2>1 DEF ProgInv, Breaks, IsElf
  <2> QED  BY <2>3, <2>4 DEF Top
<1>5. (\A i \in 1..n-1 : stack[i].kind # "elf") => program_brk' = 0
  <2> SUFFICES ASSUME \A i \in 1..n-1 : stack[i].kind # "elf" PROVE program_brk' = 0
      OBVIOUS
  <2>1. CASE stack[n].kind = "elf"
    <3>1. stack[n].brk = 0
      BY <1>1, <2>1 DEF ProgInv, Breaks, IsElf
    <3> QED  BY <2>1, <3>1 DEF Top
  <2>2. CASE stack[n].kind # "elf"
    <3>1. \A i \in 1..n : stack[i].kind # "elf"
      BY <1>1, <2>2
    <3> QED  BY <2>2, <3>1 DEF ProgInv, Breaks, IsElf, Top
  <2> QED  BY <2>1, <2>2
<1>6. \A i \in 1..n-1 : stack[i].kind = "elf" =>
         stack[i].brk = 0 \/ \E j \in 1..i-1 : stack'[j].kind = "elf"
  BY <1>1, <1>4
<1>7. \A i, j \in 1..n-1 : i < j /\ stack'[i].kind = "elf" /\ stack'[j].kind = "elf"
         => stack'[j].brk > stack'[i].brk
  BY SMTT(30), <1>1 DEF ProgInv, Breaks, IsElf
<1>8. \A i \in 1..n-1 : stack'[i].kind = "elf" =>
         /\ program_brk' >= stack'[i].brk /\ program_brk' > stack'[i].brk
  <2> SUFFICES ASSUME NEW i \in 1..n-1, stack'[i].kind = "elf"
               PROVE  program_brk' >= stack'[i].brk /\ program_brk' > stack'[i].brk
      OBVIOUS
  <2>1. stack[i].brk \in Nat /\ stack'[i] = stack[i]
    BY <1>1, FrameFacts DEF ProgInv
  <2> QED  BY <1>3, <1>4, <2>1
<1> QED  BY <1>1, <1>3, <1>5, <1>6, <1>7, <1>8 DEF Breaks, IsElf

\* A frame goes that holds no buffer and that the buffer does not speak for.
LEMMA PopStep ==
    ASSUME ProgInv, stack # <<>>, stack' = SubSeq(stack, 1, Len(stack) - 1),
           Top.kind = "script" \/ Top.pc \in {"load", "atexit"},
           program_brk' = IF Top.kind = "elf" THEN Top.brk ELSE program_brk,
           exec_depth' = exec_depth - 1,
           UNCHANGED <<tanja_exit_jmp, tanja_exit_active, kb_raw_mode, atexit_funcs,
                       skipped, halted>>
    PROVE  ProgInv'
<1> USE ProgramsAssumption
<1> DEFINE n == Len(stack)
<1>1. /\ stack' \in Seq(Frame) /\ Len(stack') = n - 1 /\ n \in Nat \ {0}
      /\ \A i \in 1..n-1 : stack'[i] = stack[i]
  BY PopFacts DEF ProgInv
<1>2. stack' # <<>> => n - 1 \in Nat \ {0} /\ stack'[n-1].pc = "run"
  BY <1>1, EmptySeq DEF ProgInv, Frames
<1>3. Frames'
  BY SMTT(30), <1>1 DEF ProgInv, Frames
<1>4. Breaks'
  BY PopBreaks
<1>5. Buffers'
  <2>1. Inner(stack, tanja_exit_jmp, n - 1) /\ ~Half(stack)
    <3>1. Inner(stack, tanja_exit_jmp, Level(stack)) /\ n \in 1..n
      BY <1>1 DEF ProgInv, Buffers
    <3>2. CASE stack[n].kind = "script"
      <4>1. Level(stack) = n /\ stack[n].pc = "run"
        BY <3>1, <3>2 DEF Level, ProgInv, Frames
      <4> QED  BY <1>1, <3>1, <3>2, <4>1 DEF Inner, Half
    <3>3. CASE stack[n].kind # "script"
      BY <3>1, <3>3 DEF Level, Half, Top
    <3> QED  BY <3>2, <3>3
  <2>2. Inner(stack', tanja_exit_jmp, n - 1)
    <3>1. n - 1 \in Nat /\ \A m \in 1..n-1 : stack'[m].kind = stack[m].kind
      BY <1>1
    <3> HIDE DEF n
    <3> QED  BY ZenonT(40), <2>1, <3>1, InnerSame
  <2>3. Level(stack') = n - 1 /\ ~Half(stack')
    BY <1>1, <1>2 DEF Level, Half
  <2>4. \A i \in 1..n-1 : Saved(stack', i)
    <3> TAKE i \in 1..n-1
    <3>1. Saved(stack, i) /\ i \in Nat \ {0} /\ \A m \in 1..i-1 : m \in 1..n-1
      BY <1>1 DEF ProgInv, Buffers
    <3> QED  BY <1>1, <3>1, SavedSame
  <2> QED  BY <1>1, <2>1, <2>2, <2>3, <2>4 DEF ProgInv, Buffers
<1>6. Raw'
  BY <1>1 DEF ProgInv, Frames, Raw, IsProgram, Top
<1>7. Counts'
  <2>1. exec_depth' \in 0..EXEC_MAX_DEPTH /\ exec_depth' = Len(stack') + skipped
    BY <1>1 DEF ProgInv, Counts, DepthCounts
  <2> QED  BY <2>1 DEF ProgInv, Counts, DepthCounts
<1> QED  BY <1>3, <1>4, <1>5, <1>6, <1>7 DEF ProgInv

\* The end of exec_file, before anything was started or after it has ended.
LEMMA EndStep == ASSUME ProgInv, ReturnEarly \/ Leave PROVE ProgInv'
<1>1. /\ stack # <<>> /\ stack' = SubSeq(stack, 1, Len(stack) - 1)
      /\ Top.kind = "script" \/ Top.pc \in {"load", "atexit"}
      /\ program_brk' = IF Top.kind = "elf" THEN Top.brk ELSE program_brk
      /\ exec_depth' = exec_depth - 1
      /\ UNCHANGED <<tanja_exit_jmp, tanja_exit_active, kb_raw_mode, atexit_funcs,
                     skipped, halted>>
  BY DEF ReturnEarly, Leave, At
<1> QED  BY <1>1, PopStep

\* The top frame moves on; its kind and its break stay.
LEMMA TopFrames ==
    ASSUME ProgInv, stack # <<>>, NEW f \in Frame, stack' = SetTop(f),
           f.kind = Top.kind, f.kind # "script", f.brk = Top.brk, f.pc # "load",
           Top.kind = "elf" => program_brk > Top.brk, UNCHANGED program_brk
    PROVE  Frames' /\ Breaks'
<1> DEFINE n == Len(stack)
<1>1. /\ stack' \in Seq(Frame) /\ Len(stack') = n /\ n \in Nat \ {0}
      /\ stack'[n] = f /\ \A i \in 1..n-1 : stack'[i] = stack[i]
  BY TopFacts DEF ProgInv
<1>2. \A i \in 1..n : stack'[i].kind = stack[i].kind /\ stack'[i].brk = stack[i].brk
  BY <1>1 DEF Top
<1>3. Frames'
  BY <1>1 DEF ProgInv, Frames
<1>4. \A i \in 1..n : stack'[i].kind = "elf" =>
         /\ program_brk >= stack'[i].brk
         /\ stack'[i].pc # "load" => program_brk > stack'[i].brk
  BY <1>1, <1>2 DEF ProgInv, Breaks, IsElf, Top
<1>5. \A i \in 1..n : stack'[i].kind = "elf" =>
         stack'[i].brk = 0 \/ \E j \in 1..i-1 : stack'[j].kind = "elf"
  <2> SUFFICES ASSUME NEW i \in 1..n, stack'[i].kind = "elf", stack'[i].brk # 0
               PROVE  \E j \in 1..i-1 : stack'[j].kind = "elf"
      OBVIOUS
  <2>1. \E j \in 1..i-1 : stack[j].kind = "elf"
    BY <1>2 DEF ProgInv, Breaks, IsElf
  <2> QED  BY <1>1, <1>2, <2>1
<1>6. Breaks'
  BY <1>1, <1>2, <1>4, <1>5 DEF ProgInv, Breaks, IsElf
<1> QED  BY <1>3, <1>6

\* What the frames keep, when the top one moves on and keeps what it should.
LEMMA TopSaved ==
    ASSUME ProgInv, stack # <<>>, NEW f \in Frame, stack' = SetTop(f),
           f.kind = Top.kind, Saved(stack', Len(stack))
    PROVE  \A i \in 1..Len(stack') : Saved(stack', i)
<1> DEFINE n == Len(stack)
<1>1. /\ stack' \in Seq(Frame) /\ Len(stack') = n /\ n \in Nat \ {0}
      /\ stack'[n] = f /\ \A i \in 1..n-1 : stack'[i] = stack[i]
  BY TopFacts DEF ProgInv
<1>2. \A i \in 1..n-1 : Saved(stack', i)
  <2> TAKE i \in 1..n-1
  <2>1. Saved(stack, i) /\ i \in Nat \ {0} /\ \A m \in 1..i-1 : m \in 1..n-1
    BY <1>1 DEF ProgInv, Buffers
  <2> QED  BY <1>1, <2>1, SavedSame
<1> QED  BY <1>1, <1>2

\* The old buffer is saved: it is that of the innermost program around.
LEMMA ArmStep == ASSUME ProgInv, Arm PROVE ProgInv'
<1> DEFINE n == Len(stack)
           f == [Top EXCEPT !.pc = "armed", !.active = tanja_exit_active,
                            !.jmp = tanja_exit_jmp]
<1>1. /\ stack # <<>> /\ Top.pc = "load" /\ stack' = SetTop(f)
      /\ Top.kind = "elf" => program_brk > Top.brk
      /\ tanja_exit_active' = TRUE
      /\ UNCHANGED <<exec_depth, program_brk, tanja_exit_jmp, kb_raw_mode,
                     atexit_funcs, skipped, halted>>
  BY DEF Arm, At
<1>2. n \in Nat \ {0} /\ n \in 1..n /\ Top = stack[n]
  BY <1>1, EmptySeq DEF ProgInv, Frames, Top
<1>3. Top \in Frame /\ Top.kind # "script"
  BY <1>1, <1>2, FrameFacts DEF ProgInv, Frames
<1>4. tanja_exit_jmp \in Nat /\ tanja_exit_active \in BOOLEAN
  BY DEF ProgInv, Buffers
<1>5. /\ f \in Frame /\ f.kind = Top.kind /\ f.brk = Top.brk /\ f.pc = "armed"
      /\ f.active = tanja_exit_active /\ f.jmp = tanja_exit_jmp
  BY <1>3, <1>4 DEF Frame
<1> HIDE DEF f
<1>6. /\ stack' \in Seq(Frame) /\ Len(stack') = n /\ stack' # <<>>
      /\ stack'[n] = f /\ \A i \in 1..n-1 : stack'[i] = stack[i]
  BY <1>1, <1>5, TopFacts DEF ProgInv
<1>7. Frames' /\ Breaks'
  BY <1>1, <1>3, <1>5, TopFrames
<1>8. Buffers'
  <2>1. Inner(stack, tanja_exit_jmp, n - 1) /\ ~Half(stack)
    BY <1>1, <1>2, <1>3 DEF ProgInv, Buffers, Level, Half
  <2>2. Inner(stack', tanja_exit_jmp, n - 1)
    <3>1. n - 1 \in Nat /\ \A m \in 1..n-1 : stack'[m].kind = stack[m].kind
      BY <1>2, <1>6
    <3> HIDE DEF n
    <3> QED  BY <2>1, <3>1, InnerSame
  <2>3. Level(stack') = n - 1 /\ Half(stack')
    BY <1>3, <1>5, <1>6 DEF Level, Half
  <2>4. tanja_exit_active <=> tanja_exit_jmp # 0
    BY <2>1 DEF ProgInv, Buffers
  <2>5. Saved(stack', n)
    BY <1>3, <1>5, <1>6, <2>2, <2>4 DEF Saved
  <2>6. \A i \in 1..Len(stack') : Saved(stack', i)
    BY <1>1, <1>5, <2>5, TopSaved
  <2> QED  BY <1>1, <1>4, <2>2, <2>3, <2>6 DEF Buffers
<1>9. Raw'
  BY <1>1, <1>2, <1>6 DEF ProgInv, Raw, IsProgram
<1>10. Counts'
  BY <1>1, <1>6 DEF ProgInv, Counts, DepthCounts
<1> QED  BY <1>7, <1>8, <1>9, <1>10 DEF ProgInv

\* The new buffer is set up: its frame is the innermost program.
LEMMA SetJmpStep == ASSUME ProgInv, SetJmp PROVE ProgInv'
<1> DEFINE n == Len(stack)
           f == [Top EXCEPT !.pc = "run"]
<1>1. /\ stack # <<>> /\ Top.pc = "armed" /\ stack' = SetTop(f)
      /\ tanja_exit_jmp' = n
      /\ UNCHANGED <<exec_depth, program_brk, tanja_exit_active, kb_raw_mode,
                     atexit_funcs, skipped, halted>>
  BY DEF SetJmp, At
<1>2. n \in Nat \ {0} /\ n \in 1..n /\ Top = stack[n]
  BY <1>1, EmptySeq DEF ProgInv, Frames, Top
<1>3. Top \in Frame /\ Top.kind # "script" /\ (Top.kind = "elf" => program_brk > Top.brk)
  BY <1>1, <1>2, FrameFacts DEF ProgInv, Frames, Breaks, IsElf
<1>4. /\ f \in Frame /\ f.kind = Top.kind /\ f.brk = Top.brk /\ f.pc = "run"
      /\ f.active = Top.active /\ f.jmp = Top.jmp
  BY <1>3 DEF Frame
<1> HIDE DEF f
<1>5. /\ stack' \in Seq(Frame) /\ Len(stack') = n /\ stack' # <<>>
      /\ stack'[n] = f /\ \A i \in 1..n-1 : stack'[i] = stack[i]
  BY <1>1, <1>4, TopFacts DEF ProgInv
<1>6. Frames' /\ Breaks'
  BY <1>1, <1>3, <1>4, TopFrames
<1>7. Buffers'
  <2>1. Level(stack') = n /\ ~Half(stack') /\ Half(stack)
    BY <1>1, <1>2, <1>4, <1>5 DEF Level, Half
  <2>2. Inner(stack', n, n)
    BY <1>2, <1>3, <1>4, <1>5 DEF Inner
  <2>3. Saved(stack, n)
    BY <1>2 DEF ProgInv, Buffers
  <2>4. Inner(stack, Top.jmp, n - 1) /\ (Top.active <=> Top.jmp # 0)
    BY <1>1, <1>2, <1>3, <2>3 DEF Saved
  <2>5. Inner(stack', Top.jmp, n - 1)
    <3>1. n - 1 \in Nat /\ \A m \in 1..n-1 : stack'[m].kind = stack[m].kind
      BY <1>2, <1>5
    <3> HIDE DEF n
    <3> QED  BY <2>4, <3>1, InnerSame
  <2>6. Saved(stack', n)
    BY <1>3, <1>4, <1>5, <2>4, <2>5 DEF Saved
  <2>7. \A i \in 1..Len(stack') : Saved(stack', i)
    BY <1>1, <1>4, <2>6, TopSaved
  <2>8. tanja_exit_active = TRUE
    BY <2>1 DEF ProgInv, Buffers
  <2> QED  BY <1>1, <1>2, <2>1, <2>2, <2>7, <2>8 DEF Buffers
<1>8. Raw'
  BY <1>1, <1>2, <1>3, <1>4, <1>5 DEF ProgInv, Raw, IsProgram
<1>9. Counts'
  BY <1>1, <1>5 DEF ProgInv, Counts, DepthCounts
<1> QED  BY <1>6, <1>7, <1>8, <1>9 DEF ProgInv

\* The buffer of the program around is put back.
LEMMA RestoreStep == ASSUME ProgInv, Restore PROVE ProgInv'
<1> DEFINE n == Len(stack)
           f == [Top EXCEPT !.pc = "unarm"]
<1>1. /\ stack # <<>> /\ Top.pc = "back" /\ stack' = SetTop(f)
      /\ tanja_exit_jmp' = Top.jmp
      /\ UNCHANGED <<exec_depth, program_brk, tanja_exit_active, kb_raw_mode,
                     atexit_funcs, skipped, halted>>
  BY DEF Restore, At
<1>2. n \in Nat \ {0} /\ n \in 1..n /\ Top = stack[n]
  BY <1>1, EmptySeq DEF ProgInv, Frames, Top
<1>3. /\ Top \in Frame /\ Top.jmp \in Nat /\ Top.kind # "script"
      /\ Top.kind = "elf" => program_brk > Top.brk
  BY <1>1, <1>2, FrameFacts DEF ProgInv, Frames, Breaks, IsElf
<1>4. /\ f \in Frame /\ f.kind = Top.kind /\ f.brk = Top.brk /\ f.pc = "unarm"
      /\ f.active = Top.active /\ f.jmp = Top.jmp
  BY <1>3 DEF Frame
<1> HIDE DEF f
<1>5. /\ stack' \in Seq(Frame) /\ Len(stack') = n /\ stack' # <<>>
      /\ stack'[n] = f /\ \A i \in 1..n-1 : stack'[i] = stack[i]
  BY <1>1, <1>4, TopFacts DEF ProgInv
<1>6. Frames' /\ Breaks'
  BY <1>1, <1>3, <1>4, TopFrames
<1>7. Buffers'
  <2>1. Level(stack) = n /\ Level(stack') = n - 1 /\ Half(stack')
    BY <1>1, <1>2, <1>3, <1>4, <1>5 DEF Level, Half
  <2>2. Saved(stack, n) /\ Inner(stack, tanja_exit_jmp, n)
    BY <1>2, <2>1 DEF ProgInv, Buffers
  <2>3. tanja_exit_jmp # 0
    BY <1>2, <1>3, <2>2 DEF Inner
  <2>4. tanja_exit_active = TRUE
    BY <2>3 DEF ProgInv, Buffers
  <2>5. Inner(stack, Top.jmp, n - 1) /\ (Top.active <=> Top.jmp # 0)
    BY <1>1, <1>2, <1>3, <2>2 DEF Saved
  <2>6. Inner(stack', Top.jmp, n - 1)
    <3>1. n - 1 \in Nat /\ \A m \in 1..n-1 : stack'[m].kind = stack[m].kind
      BY <1>2, <1>5
    <3> HIDE DEF n
    <3> QED  BY <2>5, <3>1, InnerSame
  <2>7. Saved(stack', n)
    BY <1>3, <1>4, <1>5, <2>5, <2>6 DEF Saved
  <2>8. \A i \in 1..Len(stack') : Saved(stack', i)
    BY <1>1, <1>4, <2>7, TopSaved
  <2> QED  BY <1>1, <1>3, <2>1, <2>4, <2>6, <2>8 DEF Buffers
<1>8. Raw'
  BY <1>1, <1>2, <1>3, <1>4, <1>5 DEF ProgInv, Raw, IsProgram
<1>9. Counts'
  BY <1>1, <1>5 DEF ProgInv, Counts, DepthCounts
<1> QED  BY <1>6, <1>7, <1>8, <1>9 DEF ProgInv

\* The flag is put back, and the keyboard is no longer raw.  The saved flag
\* fits the buffer because both tell of the same program.
LEMMA DisarmStep == ASSUME ProgInv, Disarm PROVE ProgInv'
<1> DEFINE n == Len(stack)
           f == [Top EXCEPT !.pc = "atexit"]
<1>1. /\ stack # <<>> /\ Top.pc = "unarm" /\ stack' = SetTop(f)
      /\ tanja_exit_active' = Top.active /\ kb_raw_mode' = FALSE
      /\ UNCHANGED <<exec_depth, program_brk, tanja_exit_jmp, atexit_funcs,
                     skipped, halted>>
  BY DEF Disarm, At
<1>2. n \in Nat \ {0} /\ n \in 1..n /\ Top = stack[n]
  BY <1>1, EmptySeq DEF ProgInv, Frames, Top
<1>3. /\ Top \in Frame /\ Top.kind # "script" /\ Top.active \in BOOLEAN
      /\ Top.kind = "elf" => program_brk > Top.brk
  BY <1>1, <1>2, FrameFacts DEF ProgInv, Frames, Breaks, IsElf
<1>4. /\ f \in Frame /\ f.kind = Top.kind /\ f.brk = Top.brk /\ f.pc = "atexit"
      /\ f.active = Top.active /\ f.jmp = Top.jmp
  BY <1>3 DEF Frame
<1> HIDE DEF f
<1>5. /\ stack' \in Seq(Frame) /\ Len(stack') = n /\ stack' # <<>>
      /\ stack'[n] = f /\ \A i \in 1..n-1 : stack'[i] = stack[i]
  BY <1>1, <1>4, TopFacts DEF ProgInv
<1>6. Frames' /\ Breaks'
  BY <1>1, <1>3, <1>4, TopFrames
<1>7. Buffers'
  <2>1. Level(stack) = n - 1 /\ Level(stack') = n - 1 /\ ~Half(stack')
    BY <1>1, <1>2, <1>3, <1>4, <1>5 DEF Level, Half
  <2>2. Saved(stack, n) /\ Inner(stack, tanja_exit_jmp, n - 1) /\ n - 1 \in Nat
    BY <1>2, <2>1 DEF ProgInv, Buffers
  <2>3. Inner(stack, Top.jmp, n - 1) /\ (Top.active <=> Top.jmp # 0)
    BY <1>1, <1>2, <1>3, <2>2 DEF Saved
  <2>4. \A m \in 1..n-1 : stack'[m].kind = stack[m].kind
    BY <1>5
  <2>5. Inner(stack', Top.jmp, n - 1) /\ tanja_exit_jmp = Top.jmp
    <3> HIDE DEF n
    <3>1. Inner(stack', Top.jmp, n - 1)
      BY <2>2, <2>3, <2>4, InnerSame
    <3>2. tanja_exit_jmp = Top.jmp
      BY <2>2, <2>3, InnerUnique
    <3> QED  BY <3>1, <3>2
  <2>6. Saved(stack', n)
    BY <1>3, <1>4, <1>5, <2>3, <2>5 DEF Saved
  <2>7. \A i \in 1..Len(stack') : Saved(stack', i)
    BY <1>1, <1>4, <2>6, TopSaved
  <2>8. tanja_exit_active' <=> (tanja_exit_jmp' # 0 \/ Half(stack'))
    BY <1>1, <2>1, <2>3, <2>5
  <2>9. tanja_exit_jmp' \in Nat /\ Inner(stack', tanja_exit_jmp', Level(stack'))
    BY <1>1, <2>1, <2>5 DEF ProgInv, Buffers
  <2> QED  BY <1>1, <1>3, <2>7, <2>8, <2>9 DEF Buffers
<1>8. Raw'
  BY <1>1 DEF Raw
<1>9. Counts'
  BY <1>1, <1>5 DEF ProgInv, Counts, DepthCounts
<1> QED  BY <1>6, <1>7, <1>8, <1>9 DEF ProgInv

\* A program that has returned is still the innermost one.
LEMMA ReturnStep == ASSUME ProgInv, Returns PROVE ProgInv'
<1> DEFINE n == Len(stack)
           f == [Top EXCEPT !.pc = "back"]
<1>1. /\ stack # <<>> /\ Top.pc = "run" /\ stack' = SetTop(f) /\ Top.kind # "script"
      /\ UNCHANGED <<exec_depth, program_brk, tanja_exit_jmp, tanja_exit_active,
                     kb_raw_mode, atexit_funcs, skipped, halted>>
  BY DEF Returns, Running, At
<1>2. n \in Nat \ {0} /\ n \in 1..n /\ Top = stack[n]
  BY <1>1, EmptySeq DEF ProgInv, Frames, Top
<1>3. Top \in Frame /\ (Top.kind = "elf" => program_brk > Top.brk)
  BY <1>1, <1>2, FrameFacts DEF ProgInv, Breaks, IsElf
<1>4. /\ f \in Frame /\ f.kind = Top.kind /\ f.brk = Top.brk /\ f.pc = "back"
      /\ f.active = Top.active /\ f.jmp = Top.jmp
  BY <1>3 DEF Frame
<1> HIDE DEF f
<1>5. /\ stack' \in Seq(Frame) /\ Len(stack') = n /\ stack' # <<>>
      /\ stack'[n] = f /\ \A i \in 1..n-1 : stack'[i] = stack[i]
  BY <1>1, <1>4, TopFacts DEF ProgInv
<1>6. Frames' /\ Breaks'
  BY <1>1, <1>3, <1>4, TopFrames
<1>7. Buffers'
  <2>1. Level(stack) = n /\ Level(stack') = n /\ ~Half(stack') /\ ~Half(stack)
    BY <1>1, <1>2, <1>4, <1>5 DEF Level, Half
  <2>2. Saved(stack, n) /\ Inner(stack, tanja_exit_jmp, n)
    BY <1>2, <2>1 DEF ProgInv, Buffers
  <2>3. \A m \in 1..n : stack'[m].kind = stack[m].kind
    BY <1>2, <1>4, <1>5
  <2>4. Inner(stack', tanja_exit_jmp, n)
    BY <1>2, <2>2, <2>3, InnerSame
  <2>5. Inner(stack, Top.jmp, n - 1) /\ (Top.active <=> Top.jmp # 0)
    BY <1>1, <1>2, <2>2 DEF Saved
  <2>6. Inner(stack', Top.jmp, n - 1)
    <3>1. n - 1 \in Nat /\ \A m \in 1..n-1 : stack'[m].kind = stack[m].kind
      BY <1>2, <2>3
    <3> HIDE DEF n
    <3> QED  BY <2>5, <3>1, InnerSame
  <2>7. Saved(stack', n)
    BY <1>1, <1>4, <1>5, <2>5, <2>6 DEF Saved
  <2>8. \A i \in 1..Len(stack') : Saved(stack', i)
    BY <1>1, <1>4, <2>7, TopSaved
  <2> QED  BY <1>1, <2>1, <2>4, <2>8 DEF ProgInv, Buffers
<1>8. Raw'
  BY <1>1, <1>2, <1>4, <1>5 DEF ProgInv, Raw, IsProgram
<1>9. Counts'
  BY <1>1, <1>5 DEF ProgInv, Counts, DepthCounts
<1> QED  BY <1>6, <1>7, <1>8, <1>9 DEF ProgInv

\* A jump lands in the frame the buffer names: a program that runs.
LEMMA JumpFacts ==
    ASSUME ProgInv, tanja_exit_jmp # 0,
           stack' = [SubSeq(stack, 1, tanja_exit_jmp) EXCEPT ![tanja_exit_jmp].pc = "back"]
    PROVE  LET t == tanja_exit_jmp
           IN  /\ Len(stack) \in Nat \ {0} /\ t \in 1..Len(stack)
               /\ stack[t].kind # "script" /\ stack[t].pc \in {"run", "back"}
               /\ t < Len(stack) => stack[t].kind = "elf"
               /\ stack' \in Seq(Frame) /\ Len(stack') = t /\ stack' # <<>>
               /\ stack'[t].pc = "back" /\ stack'[t].kind = stack[t].kind
               /\ stack'[t].brk = stack[t].brk /\ stack'[t].jmp = stack[t].jmp
               /\ stack'[t].active = stack[t].active
               /\ \A i \in 1..t-1 : stack'[i] = stack[i]
<1> DEFINE t == tanja_exit_jmp
           n == Len(stack)
           s == SubSeq(stack, 1, t)
           f == [stack[t] EXCEPT !.pc = "back"]
<1>1. n \in Nat /\ stack \in Seq(Frame) /\ t \in Nat \ {0}
  BY DEF ProgInv, Frames, Buffers
<1>2. /\ Level(stack) \in Nat /\ Level(stack) <= n
      /\ Level(stack) = n /\ n # 0 =>
            stack[n].kind = "script" \/ stack[n].pc \in {"run", "back"}
  BY <1>1, EmptySeq DEF Level
<1>3. Inner(stack, t, Level(stack))
  BY DEF ProgInv, Buffers
<1>4. t \in 1..n /\ t <= Level(stack) /\ stack[t].kind # "script"
  BY <1>1, <1>2, <1>3, InnerLast
<1>5. n \in Nat \ {0} /\ stack[t] \in Frame /\ stack[t].kind \in {"elf", "linux", "script"}
  BY <1>1, <1>4, FrameFacts DEF ProgInv, Frame
<1>6. t < n => stack[t].kind = "elf" /\ stack[t].pc = "run"
  BY <1>4, <1>5 DEF ProgInv, Frames
<1>7. stack[t].pc \in {"run", "back"}
  BY <1>1, <1>2, <1>4, <1>6
<1>8. /\ s \in Seq(Frame) /\ Len(s) = t /\ \A i \in 1..t : s[i] = stack[i]
  <2>1. \A i \in 1..t : stack[i] \in Frame
    BY <1>1, <1>4
  <2>2. /\ s \in Seq(Frame) /\ Len(s) = (IF 1 <= t THEN t - 1 + 1 ELSE 0)
        /\ \A i \in 1..t-1+1 : s[i] = stack[1+i-1]
    BY <1>1, <2>1, SubSeqProperties
  <2>3. \A i \in 1..t : s[i] = stack[i]
    <3> TAKE i \in 1..t
    <3>1. i \in 1..t-1+1 /\ 1 + i - 1 = i
      BY <1>1
    <3> QED  BY <2>2, <3>1
  <2> HIDE DEF s, t
  <2>4. \A k \in Nat \ {0} : (IF 1 <= k THEN k - 1 + 1 ELSE 0) = k
    OBVIOUS
  <2> QED  BY <1>1, <2>2, <2>3, <2>4
<1>9. /\ f \in Frame /\ f.pc = "back" /\ f.kind = stack[t].kind /\ f.brk = stack[t].brk
      /\ f.jmp = stack[t].jmp /\ f.active = stack[t].active
  BY <1>5 DEF Frame
<1>10. stack' = [s EXCEPT ![t] = f]
  <2>1. s[t] = stack[t]
    BY <1>1, <1>8
  <2>2. stack' = [s EXCEPT ![t] = [s[t] EXCEPT !.pc = "back"]]
    BY <1>1
  <2> QED  BY <2>1, <2>2
<1> HIDE DEF s, f
<1>11. /\ stack' \in Seq(Frame) /\ Len(stack') = t /\ stack'[t] = f
       /\ \A i \in 1..t-1 : stack'[i] = s[i]
  <2>1. t \in 1..Len(s)
    BY <1>1, <1>8
  <2> HIDE DEF t
  <2>2. [s EXCEPT ![t] = f] \in Seq(Frame)
    BY <1>8, <1>9, <2>1
  <2>3. Len([s EXCEPT ![t] = f]) = Len(s)
    BY <1>8, <2>1
  <2>6. s \in [1..Len(s) -> Frame]
    BY <1>8, LenProperties
  <2>4. [s EXCEPT ![t] = f][t] = f
    BY <2>1, <2>6
  <2>5. \A i \in 1..t-1 : [s EXCEPT ![t] = f][i] = s[i]
    <3> TAKE i \in 1..t-1
    <3>1. i \in 1..Len(s) /\ i # t
      BY <1>1, <1>8
    <3> QED  BY <2>6, <3>1
  <2> QED  BY <1>8, <1>10, <2>2, <2>3, <2>4, <2>5
<1>12. \A i \in 1..t-1 : stack'[i] = stack[i]
  BY <1>1, <1>8, <1>11
<1>13. stack' # <<>>
  BY <1>1, <1>11
<1> QED  BY <1>4, <1>5, <1>6, <1>7, <1>9, <1>11, <1>12, <1>13

\* exit, a fault or Ctrl+C: the frames above the innermost program that runs
\* are gone, and no program has its memory taken away.
LEMMA JumpStep == ASSUME ProgInv, tanja_exit_active, LongJmp PROVE ProgInv'
<1> DEFINE t == tanja_exit_jmp
           n == Len(stack)
<1>1. UNCHANGED <<exec_depth, program_brk, tanja_exit_jmp, tanja_exit_active,
                  kb_raw_mode, atexit_funcs>>
  BY DEF LongJmp
<1>2. CASE t = 0
  <2>1. halted' = TRUE /\ stack' = stack /\ skipped' = skipped
    BY <1>2 DEF LongJmp
  <2>2. Frames' /\ Breaks' /\ Raw'
    BY <1>1, <2>1 DEF ProgInv, Frames, Breaks, Raw, IsProgram, IsElf
  <2>3. Buffers'
    BY <1>1, <2>1 DEF ProgInv, Buffers
  <2>4. Counts'
    BY <1>1, <2>1 DEF ProgInv, Counts, DepthCounts
  <2> QED  BY <2>2, <2>3, <2>4 DEF ProgInv
<1>3. CASE t # 0
  <2>1. /\ stack' = [SubSeq(stack, 1, t) EXCEPT ![t].pc = "back"]
        /\ skipped' = skipped + (n - t) /\ halted' = halted
    BY <1>3 DEF LongJmp
  <2>2. /\ n \in Nat \ {0} /\ t \in 1..n
        /\ stack[t].kind # "script" /\ stack[t].pc \in {"run", "back"}
        /\ t < n => stack[t].kind = "elf"
        /\ stack' \in Seq(Frame) /\ Len(stack') = t /\ stack' # <<>>
        /\ stack'[t].pc = "back" /\ stack'[t].kind = stack[t].kind
        /\ stack'[t].brk = stack[t].brk /\ stack'[t].jmp = stack[t].jmp
        /\ stack'[t].active = stack[t].active
        /\ \A i \in 1..t-1 : stack'[i] = stack[i]
    BY <1>3, <2>1, JumpFacts
  <2>3. /\ \A i \in 1..t : i \in 1..n
        /\ \A i \in 1..t : stack'[i].kind = stack[i].kind /\ stack'[i].brk = stack[i].brk
    BY <2>2
  <2>4. Frames'
    BY <2>2 DEF ProgInv, Frames
  <2>5. Breaks'
    <3>1. (\A i \in 1..t : stack'[i].kind # "elf") => program_brk = 0
      <4>1. CASE t < n
        BY <2>2, <4>1
      <4>2. CASE t = n
        BY <2>3, <4>2 DEF ProgInv, Breaks, IsElf
      <4> QED  BY <2>2, <4>1, <4>2
    <3>2. \A i \in 1..t : stack'[i].kind = "elf" =>
             program_brk >= stack'[i].brk /\ program_brk > stack'[i].brk
      <4> SUFFICES ASSUME NEW i \in 1..t, stack[i].kind = "elf"
                   PROVE  program_brk >= stack[i].brk /\ program_brk > stack[i].brk
          BY <2>3
      <4>1. stack[i].pc # "load"
        BY <2>2, <2>3 DEF ProgInv, Frames
      <4> QED  BY <2>3, <4>1 DEF ProgInv, Breaks, IsElf
    <3>3. \A i \in 1..t : stack'[i].kind = "elf" =>
             stack'[i].brk = 0 \/ \E j \in 1..i-1 : stack'[j].kind = "elf"
      <4> SUFFICES ASSUME NEW i \in 1..t, stack'[i].kind = "elf", stack'[i].brk # 0
                   PROVE  \E j \in 1..i-1 : stack'[j].kind = "elf"
          OBVIOUS
      <4>1. PICK j \in 1..i-1 : stack[j].kind = "elf"
        BY <2>3 DEF ProgInv, Breaks, IsElf
      <4>2. j \in 1..t
        BY <2>2
      <4> QED  BY <2>3, <4>1, <4>2
    <3>4. \A i, j \in 1..t : i < j /\ stack'[i].kind = "elf" /\ stack'[j].kind = "elf"
             => stack'[j].brk > stack'[i].brk
      BY <2>3 DEF ProgInv, Breaks, IsElf
    <3> QED  BY <1>1, <2>2, <3>1, <3>2, <3>3, <3>4 DEF ProgInv, Breaks, IsElf
  <2>6. Buffers'
    <3>1. Level(stack') = t /\ ~Half(stack')
      BY <2>2 DEF Level, Half
    <3>2. Inner(stack', t, t)
      BY <2>2 DEF Inner
    <3>3. \A i \in 1..t-1 : Saved(stack', i)
      <4> TAKE i \in 1..t-1
      <4>1. /\ i \in 1..n /\ i \in Nat \ {0} /\ stack'[i] = stack[i]
            /\ \A m \in 1..i-1 : stack'[m].kind = stack[m].kind
        BY <2>2
      <4>2. Saved(stack, i)
        BY <4>1 DEF ProgInv, Buffers
      <4> QED  BY <4>1, <4>2, SavedSame
    <3>4. Saved(stack', t)
      <4>1. Saved(stack, t)
        BY <2>2 DEF ProgInv, Buffers
      <4>2. Inner(stack, stack[t].jmp, t - 1) /\ (stack[t].active <=> stack[t].jmp # 0)
        BY <2>2, <4>1 DEF Saved
      <4>3. t - 1 \in Nat /\ \A m \in 1..t-1 : stack'[m].kind = stack[m].kind
        BY <2>2
      <4>4. Inner(stack', stack[t].jmp, t - 1)
        <5> HIDE DEF t
        <5> QED  BY <4>2, <4>3, InnerSame
      <4> QED  BY <2>2, <4>2, <4>4 DEF Saved
    <3>5. \A i \in 1..t : Saved(stack', i)
      BY <2>2, <3>3, <3>4
    <3> QED  BY <1>1, <1>3, <2>2, <3>1, <3>2, <3>5 DEF ProgInv, Buffers
  <2>7. Raw'
    BY <1>1, <2>2 DEF ProgInv, Raw, IsProgram
  <2>8. Counts'
    BY <1>1, <2>1, <2>2 DEF ProgInv, Counts, DepthCounts
  <2> QED  BY <2>4, <2>5, <2>6, <2>7, <2>8 DEF ProgInv
<1> QED  BY <1>2, <1>3

\* The image is placed above those of the programs further out.
LEMMA PlaceStep == ASSUME ProgInv, Place PROVE ProgInv'
<1> USE ProgramsAssumption
<1> DEFINE n == Len(stack)
<1>1. /\ stack # <<>> /\ stack[n].kind = "elf"
      /\ program_brk < Region /\ program_brk' = program_brk + 1
      /\ UNCHANGED <<stack, exec_depth, tanja_exit_jmp, tanja_exit_active,
                     kb_raw_mode, atexit_funcs, skipped, halted>>
  BY DEF Place, At, Top
<1>2. n \in 1..n /\ stack \in Seq(Frame)
  BY <1>1, EmptySeq DEF ProgInv, Frames
<1>3. Frames' /\ Raw'
  BY <1>1 DEF ProgInv, Frames, Raw, IsProgram
<1>4. Buffers'
  BY <1>1 DEF ProgInv, Buffers
<1>5. Counts'
  BY <1>1 DEF ProgInv, Counts, DepthCounts
<1>6. Breaks'
  <2>1. program_brk' \in 0..Region /\ program_brk \in 0..Region
    BY <1>1 DEF ProgInv, Breaks
  <2>2. \A i \in 1..n : IsElf(i) =>
           /\ program_brk' >= stack[i].brk
           /\ stack[i].pc # "load" => program_brk' > stack[i].brk
    <3> TAKE i \in 1..n
    <3>1. stack[i].brk \in 0..Region
      BY FrameFacts DEF ProgInv
    <3>2. IsElf(i) => program_brk >= stack[i].brk
      BY DEF ProgInv, Breaks
    <3> QED  BY <1>1, <2>1, <3>1, <3>2
  <2> QED  BY <1>1, <1>2, <2>1, <2>2 DEF ProgInv, Breaks, IsElf
<1> QED  BY <1>3, <1>4, <1>5, <1>6 DEF ProgInv

\* What only changes the handlers and the keyboard's mode, or nothing here.
LEMMA QuietStep ==
    ASSUME ProgInv,
           RunHandler \/ atexit \/ SetRaw \/ UNCHANGED prog
    PROVE  ProgInv'
<1>1. UNCHANGED <<stack, exec_depth, program_brk, tanja_exit_jmp,
                  tanja_exit_active, skipped, halted>>
  BY DEF RunHandler, atexit, SetRaw, prog
<1>2. Frames' /\ Breaks'
  BY <1>1 DEF ProgInv, Frames, Breaks, IsElf
<1>3. Buffers'
  BY <1>1 DEF ProgInv, Buffers
<1>4. Raw'
  <2>1. CASE SetRaw
    <3>1. kb_raw_mode' \in BOOLEAN /\ stack # <<>> /\ Top.pc = "run" /\ Top.kind # "script"
      BY <2>1 DEF SetRaw, Running, At
    <3>2. Len(stack) \in 1..Len(stack)
      BY <3>1, EmptySeq DEF ProgInv, Frames
    <3> QED  BY <1>1, <3>1, <3>2 DEF Raw, IsProgram, Top
  <2>2. CASE ~SetRaw
    <3>1. UNCHANGED kb_raw_mode
      BY <2>2 DEF RunHandler, atexit, prog
    <3> QED  BY <1>1, <3>1 DEF ProgInv, Raw, IsProgram
  <2> QED  BY <2>1, <2>2
<1>5. atexit_funcs' \in Seq(Nat) /\ Len(atexit_funcs') <= ATEXIT_MAX
  <2>1. /\ atexit_funcs \in Seq(Nat) /\ Len(atexit_funcs) <= ATEXIT_MAX
        /\ Len(stack) \in Nat /\ ATEXIT_MAX \in Nat
    BY ProgramsAssumption DEF ProgInv, Counts, Frames
  <2>2. CASE RunHandler
    <3>1. /\ atexit_funcs # <<>>
          /\ atexit_funcs' = SubSeq(atexit_funcs, 1, Len(atexit_funcs) - 1)
      BY <2>2 DEF RunHandler
    <3>2. Len(atexit_funcs) \in Nat \ {0}
      BY <2>1, <3>1, EmptySeq
    <3>3. /\ Len(atexit_funcs) - 1 \in Int
          /\ \A i \in 1..Len(atexit_funcs)-1 : atexit_funcs[i] \in Nat
      BY <2>1, <3>2
    <3>4. /\ atexit_funcs' \in Seq(Nat)
          /\ Len(atexit_funcs') = IF 1 <= Len(atexit_funcs) - 1
                                 THEN Len(atexit_funcs) - 1 - 1 + 1 ELSE 0
      BY <3>1, <3>3, SubSeqProperties
    <3>5. \A k \in Nat \ {0} : (IF 1 <= k - 1 THEN k - 1 - 1 + 1 ELSE 0) <= k
      OBVIOUS
    <3> QED  BY <2>1, <3>2, <3>4, <3>5
  <2>3. CASE atexit
    BY <2>1, <2>3 DEF atexit
  <2>4. CASE ~RunHandler /\ ~atexit
    BY <2>1, <2>4 DEF SetRaw, prog
  <2> QED  BY <2>2, <2>3, <2>4
<1>6. Counts'
  BY <1>1, <1>5 DEF ProgInv, Counts, DepthCounts
<1> QED  BY <1>2, <1>3, <1>4, <1>6 DEF ProgInv

\* A step of the system keeps what holds of the programs.
LEMMA ProgStep == ASSUME ProgInv, [Next]_vars, ~Reboot PROVE ProgInv'
<1>1. CASE \E kind \in {"elf", "linux", "script"} : exec_file(kind)
  BY <1>1, ExecStep
<1>2. CASE ReturnEarly \/ Leave
  BY <1>2, EndStep
<1>3. CASE Place
  BY <1>3, PlaceStep
<1>4. CASE Arm
  BY <1>4, ArmStep
<1>5. CASE SetJmp
  BY <1>5, SetJmpStep
<1>6. CASE Restore
  BY <1>6, RestoreStep
<1>7. CASE Disarm
  BY <1>7, DisarmStep
<1>8. CASE Returns
  BY <1>8, ReturnStep
<1>9. CASE RunHandler \/ SetRaw \/ atexit
  BY <1>9, QuietStep
<1>10. CASE ExitOrFault
  BY <1>10, JumpStep DEF ExitOrFault
<1>11. CASE Timer
  <2>1. CASE CtrlC
    BY <1>11, <2>1, JumpStep DEF Timer
  <2>2. CASE ~CtrlC
    BY <1>11, <2>2, QuietStep DEF Timer
  <2> QED  BY <2>1, <2>2
<1>12. CASE Reads \/ Types \/ UNCHANGED vars
  <2>1. UNCHANGED prog
    BY <1>12 DEF Reads, Types, vars
  <2> QED  BY <2>1, QuietStep
<1> QED
  BY <1>1, <1>2, <1>3, <1>4, <1>5, <1>6, <1>7, <1>8, <1>9, <1>10, <1>11, <1>12
     DEF Next, Ends

---------------------------------------------------------------------------
(***************************************************************************)
(* The keyboard.                                                           *)
(***************************************************************************)

\* The slots from the tail t to the head h, and what they hold.
Live(h, t) == {s \in 0..KB_RING-1 : IF t <= h THEN t <= s /\ s < h ELSE t <= s \/ s < h}
Held(ring, h, t) == {ring[s] : s \in Live(h, t)}

KbInv == /\ KbTypeOK /\ NothingLost
         /\ reader = "port" => port # 0 \/ latch # 0
         /\ Held(kb_ring, kb_head, kb_tail) \subseteq 1..Len(keys)

\* One turn of the ring.
LEMMA ModTurn ==
    ASSUME NEW a \in Nat, a < 2 * KB_RING
    PROVE  a % KB_RING = IF a < KB_RING THEN a ELSE a - KB_RING
<1> USE KeyboardAssumption
<1>1. CASE a < KB_RING
  BY <1>1
<1>2. CASE a >= KB_RING
  BY <1>2
<1> QED  BY <1>1, <1>2

\* How many codes kb_ring_count sees from the tail to the head.
LEMMA RingCount ==
    ASSUME NEW h \in 0..KB_RING-1, NEW t \in 0..KB_RING-1
    PROVE  (h - t + KB_RING) % KB_RING = IF t <= h THEN h - t ELSE (h - t) + KB_RING
<1> USE KeyboardAssumption
<1> DEFINE a == h - t + KB_RING
<1>1. a \in Nat /\ a < 2 * KB_RING
  OBVIOUS
<1>2. a % KB_RING = IF a < KB_RING THEN a ELSE a - KB_RING
  <2> HIDE DEF a
  <2> QED  BY <1>1, ModTurn
<1> QED  BY <1>2

\* The slot after s.
LEMMA NextSlot ==
    ASSUME NEW s \in 0..KB_RING-1
    PROVE  (s + 1) % KB_RING = IF s = KB_RING - 1 THEN 0 ELSE s + 1
<1> USE KeyboardAssumption
<1>1. s + 1 \in Nat /\ s + 1 < 2 * KB_RING
  OBVIOUS
<1>2. (s + 1) % KB_RING = IF s + 1 < KB_RING THEN s + 1 ELSE (s + 1) - KB_RING
  BY <1>1, ModTurn
<1> QED  BY <1>2

\* Counting from the tail reaches the live slots and no others.
LEMMA RingHeld ==
    ASSUME NEW ring, NEW h \in 0..KB_RING-1, NEW t \in 0..KB_RING-1
    PROVE  {ring[(t + i) % KB_RING] : i \in 0 .. ((h - t + KB_RING) % KB_RING) - 1}
              = Held(ring, h, t)
<1> USE KeyboardAssumption
<1> DEFINE slot(i) == (t + i) % KB_RING
           c == (h - t + KB_RING) % KB_RING
<1>1. c = IF t <= h THEN h - t ELSE (h - t) + KB_RING
  BY RingCount
<1> HIDE DEF c
<1>2. \A i \in 0..c-1 : slot(i) = IF t + i < KB_RING THEN t + i ELSE (t + i) - KB_RING
  <2> TAKE i \in 0..c-1
  <2>1. t + i \in Nat /\ t + i < 2 * KB_RING
    BY <1>1
  <2> DEFINE a == t + i
  <2>2. a % KB_RING = IF a < KB_RING THEN a ELSE a - KB_RING
    <3> HIDE DEF a
    <3> QED  BY <2>1, ModTurn DEF a
  <2> QED  BY <2>2
<1> HIDE DEF slot
<1>3. \A i \in 0..c-1 : slot(i) \in Live(h, t)
  BY <1>1, <1>2 DEF Live
<1>4. \A s \in Live(h, t) : \E i \in 0..c-1 : slot(i) = s
  <2> TAKE s \in Live(h, t)
  <2>1. CASE s >= t
    <3>1. s - t \in 0..c-1 /\ t + (s - t) = s /\ s < KB_RING
      BY <1>1, <2>1 DEF Live
    <3> QED  BY <1>2, <3>1
  <2>2. CASE s < t
    <3>1. /\ (s + KB_RING) - t \in 0..c-1 /\ s \in Nat
          /\ t + ((s + KB_RING) - t) = s + KB_RING
      BY <1>1, <2>2 DEF Live
    <3>2. ~(s + KB_RING < KB_RING) /\ (s + KB_RING) - KB_RING = s
      BY <3>1
    <3>3. slot((s + KB_RING) - t) = s
      BY <1>2, <3>1, <3>2
    <3> QED  BY <3>1, <3>3
  <2> QED  BY <2>1, <2>2 DEF Live
<1>5. {ring[(t + i) % KB_RING] : i \in 0 .. ((h - t + KB_RING) % KB_RING) - 1}
         = {ring[slot(i)] : i \in 0..c-1}
  BY DEF slot, c
<1>6. {ring[slot(i)] : i \in 0..c-1} = Held(ring, h, t)
  BY <1>3, <1>4 DEF Held
<1> QED  BY <1>5, <1>6

\* A code is added at the head, unless that closes the ring.
LEMMA HeldPush ==
    ASSUME NEW ring, NEW h \in 0..KB_RING-1, NEW t \in 0..KB_RING-1, NEW n,
           NEW g, g = (h + 1) % KB_RING,
           NEW r, r[h] = n, \A s \in 0..KB_RING-1 : s # h => r[s] = ring[s]
    PROVE  /\ g \in 0..KB_RING-1
           /\ g = t => Held(r, g, t) = {}
           /\ g # t => Held(r, g, t) = Held(ring, h, t) \cup {n}
<1> USE KeyboardAssumption
<1>1. g = IF h = KB_RING - 1 THEN 0 ELSE h + 1
  BY NextSlot
<1>2. g \in 0..KB_RING-1
  BY <1>1
<1>3. g = t => Live(g, t) = {}
  BY <1>2 DEF Live
<1>4. g # t => Live(g, t) = Live(h, t) \cup {h}
  BY <1>1 DEF Live
<1>5. h \notin Live(h, t)
  BY DEF Live
<1>6. \A s \in Live(h, t) : r[s] = ring[s]
  BY <1>5 DEF Live
<1>7. g = t => Held(r, g, t) = {}
  BY <1>3 DEF Held
<1>8. g # t => Held(r, g, t) = Held(ring, h, t) \cup {n}
  BY <1>4, <1>6 DEF Held
<1> QED  BY <1>2, <1>7, <1>8

\* A code is taken from the tail.
LEMMA HeldPop ==
    ASSUME NEW ring, NEW h \in 0..KB_RING-1, NEW t \in 0..KB_RING-1, h # t
    PROVE  LET u == (t + 1) % KB_RING
           IN  /\ u \in 0..KB_RING-1
               /\ Held(ring, h, t) = Held(ring, h, u) \cup {ring[t]}
<1> USE KeyboardAssumption
<1> DEFINE u == (t + 1) % KB_RING
<1>1. u = IF t = KB_RING - 1 THEN 0 ELSE t + 1
  BY NextSlot
<1> HIDE DEF u
<1>2. u \in 0..KB_RING-1
  BY <1>1
<1>3. Live(h, t) = Live(h, u) \cup {t}
  BY <1>1 DEF Live
<1>4. Held(ring, h, t) = Held(ring, h, u) \cup {ring[t]}
  BY <1>3 DEF Held
<1> QED  BY <1>2, <1>4 DEF u

\* The parts of the state, one by one.
LEMMA KbFacts ==
    ASSUME KbTypeOK
    PROVE  /\ keys \in Seq(Kinds) /\ Len(keys) \in Nat /\ Len(keys) <= MaxKeys
           /\ port \in 0..Len(keys) /\ latch \in 0..Len(keys)
           /\ kb_ring \in [0..KB_RING-1 -> 0..Len(keys)] /\ DOMAIN kb_ring = 0..KB_RING-1
           /\ kb_head \in 0..KB_RING-1 /\ kb_tail \in 0..KB_RING-1
           /\ ctrl \in BOOLEAN /\ lapped \in BOOLEAN
           /\ reader \in {"none", "ring", "status", "port"}
           /\ taken \subseteq 1..Len(keys) /\ heard \subseteq 1..Len(keys)
           /\ Waiting = Held(kb_ring, kb_head, kb_tail)
<1>1. kb_head \in 0..KB_RING-1 /\ kb_tail \in 0..KB_RING-1
  BY DEF KbTypeOK
<1>2. Waiting = Held(kb_ring, kb_head, kb_tail)
  BY <1>1, RingHeld DEF Waiting, kb_ring_count
<1>3. keys \in Seq(Kinds) /\ Len(keys) \in Nat /\ Len(keys) <= MaxKeys
  BY DEF KbTypeOK
<1>4. ctrl \in BOOLEAN /\ lapped \in BOOLEAN
  BY DEF KbTypeOK
<1> QED  BY <1>1, <1>2, <1>3, <1>4 DEF KbTypeOK

\* How the invariant is put together again after a step.
LEMMA KbJoin ==
    ASSUME keys' \in Seq(Kinds), Len(keys') <= MaxKeys, port' \in 0..Len(keys'),
           latch' \in 0..Len(keys'), kb_ring' \in [0..KB_RING-1 -> 0..Len(keys')],
           kb_head' \in 0..KB_RING-1, kb_tail' \in 0..KB_RING-1,
           ctrl' \in BOOLEAN, lapped' \in BOOLEAN,
           reader' \in {"none", "ring", "status", "port"},
           taken' \subseteq 1..Len(keys'), heard' \subseteq 1..Len(keys'),
           reader' = "port" => port' # 0 \/ latch' # 0,
           Held(kb_ring', kb_head', kb_tail') \subseteq 1..Len(keys'),
           ~lapped' => 1..Len(keys') = taken' \cup heard'
                          \cup Held(kb_ring', kb_head', kb_tail') \cup ({port'} \ {0})
    PROVE  KbInv'
<1>1. {ctrl', lapped'} \subseteq BOOLEAN
  OBVIOUS
<1>2. KbTypeOK'
  BY <1>1 DEF KbTypeOK
<1>3. Waiting' = Held(kb_ring', kb_head', kb_tail')
  <2>1. Waiting' = {kb_ring'[(kb_tail' + i) % KB_RING] :
                       i \in 0 .. ((kb_head' - kb_tail' + KB_RING) % KB_RING) - 1}
    BY DEF Waiting, kb_ring_count
  <2> QED  BY <2>1, RingHeld
<1>4. NothingLost'
  BY <1>3 DEF NothingLost
<1> QED  BY <1>2, <1>4 DEF KbInv

\* The empty keyboard.
LEMMA KbStart == KbInit => KbInv
<1> SUFFICES ASSUME KbInit PROVE KbInv
    OBVIOUS
<1> USE KeyboardAssumption
<1>1. keys = <<>> /\ Len(keys) = 0 /\ keys \in Seq(Kinds)
  BY DEF KbInit
<1>2. /\ port = 0 /\ latch = 0 /\ kb_head = 0 /\ kb_tail = 0 /\ reader = "none"
      /\ kb_ring \in [0..KB_RING-1 -> 0..Len(keys)] /\ taken = {} /\ heard = {}
  BY <1>1 DEF KbInit
<1>3. {ctrl, lapped} \subseteq BOOLEAN
  BY DEF KbInit
<1>4. KbTypeOK
  BY <1>1, <1>2, <1>3 DEF KbTypeOK
<1>5. Held(kb_ring, kb_head, kb_tail) = {}
  BY <1>2 DEF Held, Live
<1>6. NothingLost
  <2>1. Waiting = {}
    BY <1>4, <1>5, KbFacts
  <2> QED  BY <1>1, <1>2, <2>1 DEF NothingLost
<1> QED  BY <1>2, <1>4, <1>5, <1>6 DEF KbInv

\* A key is typed.
LEMMA TypeStep == ASSUME KbInv, NEW k \in Kinds, Type(k) PROVE KbInv'
<1> USE KeyboardAssumption
<1>1. /\ Len(keys) < MaxKeys /\ port = 0 /\ keys' = Append(keys, k)
      /\ port' = Len(keys) + 1
      /\ UNCHANGED <<latch, kb_ring, kb_head, kb_tail, ctrl, reader, taken, heard, lapped>>
  BY DEF Type
<1>2. /\ keys \in Seq(Kinds) /\ Len(keys) \in Nat /\ Len(keys) <= MaxKeys
      /\ port \in 0..Len(keys) /\ latch \in 0..Len(keys)
      /\ kb_ring \in [0..KB_RING-1 -> 0..Len(keys)] /\ DOMAIN kb_ring = 0..KB_RING-1
      /\ kb_head \in 0..KB_RING-1 /\ kb_tail \in 0..KB_RING-1
      /\ ctrl \in BOOLEAN /\ lapped \in BOOLEAN
      /\ reader \in {"none", "ring", "status", "port"}
      /\ taken \subseteq 1..Len(keys) /\ heard \subseteq 1..Len(keys)
      /\ Waiting = Held(kb_ring, kb_head, kb_tail)
  BY KbFacts DEF KbInv
<1>3. keys' \in Seq(Kinds) /\ Len(keys') = Len(keys) + 1
  BY <1>1, <1>2
<1>4. 1..Len(keys') = 1..Len(keys) \cup {port'} /\ port' # 0
  BY <1>1, <1>2, <1>3
<1>5. kb_ring' \in [0..KB_RING-1 -> 0..Len(keys')]
  <2>1. \A i \in 0..Len(keys) : i \in 0..Len(keys')
    BY <1>2, <1>3
  <2> QED  BY <1>1, <1>2, <2>1
<1>6. Held(kb_ring', kb_head', kb_tail') \subseteq 1..Len(keys')
  BY <1>1, <1>4 DEF KbInv
<1>7. ~lapped' => 1..Len(keys') = taken' \cup heard'
         \cup Held(kb_ring', kb_head', kb_tail') \cup ({port'} \ {0})
  BY <1>1, <1>2, <1>4 DEF KbInv, NothingLost
<1>8. Len(keys') <= MaxKeys /\ port' \in 0..Len(keys') /\ latch' \in 0..Len(keys')
  BY <1>1, <1>2, <1>3
<1> QED  BY <1>1, <1>2, <1>3, <1>4, <1>5, <1>6, <1>7, <1>8, KbJoin

\* Only the reader moves, and it does not come to read the port.
LEMMA IdleStep ==
    ASSUME KbInv, reader' = reader \/ reader' \in {"none", "ring", "status"}
                                  \/ (reader' = "port" /\ port # 0),
           UNCHANGED <<keys, port, latch, kb_ring, kb_head, kb_tail, ctrl, taken, heard, lapped>>
    PROVE  KbInv'
BY DEF KbInv, KbTypeOK, NothingLost, Waiting, kb_ring_count

\* get_key takes a code.
LEMMA TakeFacts ==
    ASSUME KbInv, NEW n \in 1..Len(keys), Take(n)
    PROVE  /\ taken' = taken \cup {n} /\ taken' \subseteq 1..Len(keys)
           /\ ctrl' \in BOOLEAN /\ reader' \in {"none", "ring"}
<1>1. taken' = taken \cup {n} /\ taken' \subseteq 1..Len(keys)
  BY KbFacts DEF KbInv, Take
<1>2. ctrl \in BOOLEAN
  BY KbFacts DEF KbInv
<1>3. ctrl' \in BOOLEAN
  <2>1. ctrl' = TRUE \/ ctrl' = FALSE \/ ctrl' = ctrl
    BY DEF Take
  <2> QED  BY <1>2, <2>1
<1>4. reader' \in {"none", "ring"}
  BY DEF Take
<1> QED  BY <1>1, <1>3, <1>4

\* A code is read from the ring, or the ring is seen empty.
LEMMA ReadRingStep == ASSUME KbInv, ReadRing PROVE KbInv'
<1> USE KeyboardAssumption
<1>1. CASE ~(kb_ring_count > 0)
  BY <1>1, IdleStep DEF ReadRing
<1>2. CASE kb_ring_count > 0
  <2>1. /\ Take(kb_ring[kb_tail]) /\ kb_tail' = (kb_tail + 1) % KB_RING
        /\ UNCHANGED <<keys, port, latch, kb_ring, kb_head, heard, lapped>>
    BY <1>2 DEF ReadRing
  <2>2. /\ keys \in Seq(Kinds) /\ Len(keys) \in Nat /\ Len(keys) <= MaxKeys
        /\ port \in 0..Len(keys) /\ latch \in 0..Len(keys)
        /\ kb_ring \in [0..KB_RING-1 -> 0..Len(keys)] /\ DOMAIN kb_ring = 0..KB_RING-1
        /\ kb_head \in 0..KB_RING-1 /\ kb_tail \in 0..KB_RING-1
        /\ ctrl \in BOOLEAN /\ lapped \in BOOLEAN
        /\ reader \in {"none", "ring", "status", "port"}
        /\ taken \subseteq 1..Len(keys) /\ heard \subseteq 1..Len(keys)
        /\ Held(kb_ring, kb_head, kb_tail) \subseteq 1..Len(keys)
        /\ ~lapped => 1..Len(keys) = taken \cup heard
                         \cup Held(kb_ring, kb_head, kb_tail) \cup ({port} \ {0})
    BY KbFacts DEF KbInv, NothingLost
  <2>3. kb_head # kb_tail
    BY <1>2, <2>2, RingCount DEF kb_ring_count
  <2> DEFINE u == (kb_tail + 1) % KB_RING
             n == kb_ring[kb_tail]
  <2>4. /\ u \in 0..KB_RING-1
        /\ Held(kb_ring, kb_head, kb_tail) = Held(kb_ring, kb_head, u) \cup {n}
    BY <2>2, <2>3, HeldPop
  <2> HIDE DEF u, n
  <2>5. n \in 1..Len(keys)
    BY <2>2, <2>4
  <2>6. /\ taken' = taken \cup {n} /\ taken' \subseteq 1..Len(keys)
        /\ ctrl' \in BOOLEAN /\ reader' \in {"none", "ring"}
    BY <2>1, <2>5, TakeFacts DEF n
  <2>7. Held(kb_ring', kb_head', kb_tail') = Held(kb_ring, kb_head, u)
    BY <2>1 DEF u
  <2>8. ~lapped' => 1..Len(keys') = taken' \cup heard'
           \cup Held(kb_ring', kb_head', kb_tail') \cup ({port'} \ {0})
    BY <2>1, <2>2, <2>4, <2>6, <2>7
  <2>9. Held(kb_ring', kb_head', kb_tail') \subseteq 1..Len(keys')
    BY <2>1, <2>2, <2>4, <2>7
  <2>10. kb_tail' \in 0..KB_RING-1
    BY <2>1, <2>4 DEF u
  <2> QED  BY <2>1, <2>2, <2>6, <2>8, <2>9, <2>10, KbJoin
<1> QED  BY <1>1, <1>2

\* A code is read from the port, or the one read last is read again.
LEMMA ReadPortStep == ASSUME KbInv, ReadPort PROVE KbInv'
<1> USE KeyboardAssumption
<1> DEFINE n == IF port = 0 THEN latch ELSE port
<1>1. /\ Take(n) /\ latch' = n /\ port' = 0 /\ reader = "port"
      /\ UNCHANGED <<keys, kb_ring, kb_head, kb_tail, heard, lapped>>
  BY DEF ReadPort
<1>2. /\ keys \in Seq(Kinds) /\ Len(keys) \in Nat /\ Len(keys) <= MaxKeys
      /\ port \in 0..Len(keys) /\ latch \in 0..Len(keys)
      /\ kb_ring \in [0..KB_RING-1 -> 0..Len(keys)] /\ DOMAIN kb_ring = 0..KB_RING-1
      /\ kb_head \in 0..KB_RING-1 /\ kb_tail \in 0..KB_RING-1
      /\ ctrl \in BOOLEAN /\ lapped \in BOOLEAN
      /\ reader \in {"none", "ring", "status", "port"}
      /\ taken \subseteq 1..Len(keys) /\ heard \subseteq 1..Len(keys)
      /\ Held(kb_ring, kb_head, kb_tail) \subseteq 1..Len(keys)
      /\ ~lapped => 1..Len(keys) = taken \cup heard
                       \cup Held(kb_ring, kb_head, kb_tail) \cup ({port} \ {0})
  BY KbFacts DEF KbInv, NothingLost
<1>3. n \in 1..Len(keys) /\ (port # 0 => n = port)
  BY <1>1, <1>2 DEF KbInv
<1> HIDE DEF n
<1>4. /\ taken' = taken \cup {n} /\ taken' \subseteq 1..Len(keys)
      /\ ctrl' \in BOOLEAN /\ reader' \in {"none", "ring"}
  BY <1>1, <1>3, TakeFacts
<1>5. ~lapped' => 1..Len(keys') = taken' \cup heard'
         \cup Held(kb_ring', kb_head', kb_tail') \cup ({port'} \ {0})
  BY <1>1, <1>2, <1>3, <1>4
<1>6. latch' \in 0..Len(keys') /\ port' \in 0..Len(keys')
  BY <1>1, <1>2, <1>3
<1> QED  BY <1>1, <1>2, <1>4, <1>5, <1>6, KbJoin

\* The timer takes the code at the port, into the ring or for itself.
LEMMA PollStep ==
    ASSUME KbInv, ctrlc_poll, reader' \in {"none", reader}
    PROVE  KbInv'
<1> USE KeyboardAssumption
<1>1. /\ port # 0 /\ port' = 0 /\ latch' = port
      /\ UNCHANGED <<keys, kb_tail, taken>>
      /\ \/ Push(port) /\ UNCHANGED heard
         \/ heard' = heard \cup {port} /\ UNCHANGED <<kb_ring, kb_head, lapped>>
  BY DEF ctrlc_poll
<1>2. /\ keys \in Seq(Kinds) /\ Len(keys) \in Nat /\ Len(keys) <= MaxKeys
      /\ port \in 0..Len(keys) /\ latch \in 0..Len(keys)
      /\ kb_ring \in [0..KB_RING-1 -> 0..Len(keys)] /\ DOMAIN kb_ring = 0..KB_RING-1
      /\ kb_head \in 0..KB_RING-1 /\ kb_tail \in 0..KB_RING-1
      /\ ctrl \in BOOLEAN /\ lapped \in BOOLEAN
      /\ reader \in {"none", "ring", "status", "port"}
      /\ taken \subseteq 1..Len(keys) /\ heard \subseteq 1..Len(keys)
      /\ Held(kb_ring, kb_head, kb_tail) \subseteq 1..Len(keys)
      /\ ~lapped => 1..Len(keys) = taken \cup heard
                       \cup Held(kb_ring, kb_head, kb_tail) \cup ({port} \ {0})
  BY KbFacts DEF KbInv, NothingLost
<1>3. ctrl' \in BOOLEAN
  <2>1. ctrl' = TRUE \/ ctrl' = FALSE \/ ctrl' = ctrl
    BY DEF ctrlc_poll
  <2> QED  BY <1>2, <2>1
<1>4. port \in 1..Len(keys) /\ port' \in 0..Len(keys') /\ latch' \in 0..Len(keys')
  BY <1>1, <1>2
<1>5. CASE Push(port) /\ UNCHANGED heard
  <2> DEFINE g == (kb_head + 1) % KB_RING
             r == [kb_ring EXCEPT ![kb_head] = port]
  <2>1. kb_ring' = r /\ kb_head' = g /\ lapped' = (lapped \/ g = kb_tail)
    BY <1>5 DEF Push
  <2>2. kb_ring' \in [0..KB_RING-1 -> 0..Len(keys')]
    BY <1>1, <1>2, <2>1
  <2>3. /\ g \in 0..KB_RING-1
        /\ g = kb_tail => Held(r, g, kb_tail) = {}
        /\ g # kb_tail => Held(r, g, kb_tail) = Held(kb_ring, kb_head, kb_tail) \cup {port}
    <3>1. g = (kb_head + 1) % KB_RING
      OBVIOUS
    <3>2. r[kb_head] = port /\ \A s \in 0..KB_RING-1 : s # kb_head => r[s] = kb_ring[s]
      BY <1>2
    <3>3. kb_head \in 0..KB_RING-1 /\ kb_tail \in 0..KB_RING-1
      BY <1>2
    <3> HIDE DEF g, r
    <3> QED  BY ONLY <3>1, <3>2, <3>3, HeldPush
  <2> HIDE DEF g, r
  <2>4. lapped' \in BOOLEAN
    BY <1>2, <2>1
  <2>5. Held(kb_ring', kb_head', kb_tail') \subseteq 1..Len(keys')
    BY <1>1, <1>2, <1>4, <2>1, <2>3
  <2>6. ~lapped' => ~lapped /\ g # kb_tail
    BY <2>1
  <2>7. ~lapped' => 1..Len(keys') = taken' \cup heard'
           \cup Held(kb_ring', kb_head', kb_tail') \cup ({port'} \ {0})
    BY <1>1, <1>2, <1>4, <1>5, <2>1, <2>3, <2>6
  <2> QED  BY <1>1, <1>2, <1>3, <1>4, <1>5, <2>1, <2>2, <2>3, <2>4, <2>5, <2>7, KbJoin
<1>6. CASE heard' = heard \cup {port} /\ UNCHANGED <<kb_ring, kb_head, lapped>>
  <2>1. heard' \subseteq 1..Len(keys')
    BY <1>1, <1>2, <1>4, <1>6
  <2>2. ~lapped' => 1..Len(keys') = taken' \cup heard'
           \cup Held(kb_ring', kb_head', kb_tail') \cup ({port'} \ {0})
    BY <1>1, <1>2, <1>4, <1>6
  <2> QED  BY <1>1, <1>2, <1>3, <1>4, <1>6, <2>1, <2>2, KbJoin
<1> QED  BY <1>1, <1>5, <1>6

\* A step of the system keeps what holds of the keyboard.
LEMMA KbStep == ASSUME KbInv, [Next]_vars, ~Reboot PROVE KbInv'
<1>1. CASE \/ \E kind \in {"elf", "linux", "script"} : exec_file(kind)
           \/ Returns \/ ExitOrFault
  <2>1. /\ reader' = "none"
        /\ UNCHANGED <<keys, port, latch, kb_ring, kb_head, kb_tail, ctrl, taken, heard, lapped>>
    BY <1>1 DEF exec_file, Returns, ExitOrFault, LongJmp
  <2> QED  BY <2>1, IdleStep
<1>2. CASE \/ ReturnEarly \/ Place \/ Arm \/ SetJmp \/ Ends \/ SetRaw \/ atexit
           \/ UNCHANGED vars
  <2>1. UNCHANGED kb
    BY <1>2 DEF ReturnEarly, Place, Arm, SetJmp, Ends, Restore, Disarm, RunHandler,
                Leave, SetRaw, atexit, vars
  <2> QED  BY <2>1, IdleStep DEF kb
<1>3. CASE Timer
  <2>1. ctrlc_poll /\ reader' \in {"none", reader}
    BY <1>3 DEF Timer, LongJmp
  <2> QED  BY <2>1, PollStep
<1>4. CASE Reads
  <2>1. CASE get_key \/ ReadStatus
    BY <2>1, IdleStep DEF get_key, ReadStatus
  <2> QED  BY <1>4, <2>1, ReadRingStep, ReadPortStep DEF Reads
<1>5. CASE Types
  BY <1>5, TypeStep DEF Types
<1> QED  BY <1>1, <1>2, <1>3, <1>4, <1>5 DEF Next

---------------------------------------------------------------------------
(***************************************************************************)
(* Theorems.                                                               *)
(***************************************************************************)

\* What holds of programs and keyboard together, in every state.
THEOREM ProgramsCorrect == Spec => [](ProgInv /\ KbInv)
<1>1. Init => ProgInv /\ KbInv
  BY ProgStart, KbStart DEF Init
<1>2. (ProgInv /\ KbInv) /\ [Next]_vars => (ProgInv /\ KbInv)'
  <2>1. Reboot => Init'
    BY DEF Reboot, Init, KbInit
  <2>2. Init' => (ProgInv /\ KbInv)'
    BY <1>1, PTL
  <2> QED  BY <2>1, <2>2, ProgStep, KbStep
<1> QED  BY <1>1, <1>2, PTL DEF Spec

\* Depths, breaks, saved buffers and keyboard keep their ranges.
THEOREM ProgramsTyped == Spec => []TypeOK
<1>1. ProgInv /\ KbInv => TypeOK
  <2> SUFFICES ASSUME ProgInv, KbInv PROVE TypeOK
      OBVIOUS
  <2>1. KbTypeOK
    BY DEF KbInv
  <2>2. exec_depth \in 0..EXEC_MAX_DEPTH /\ program_brk \in 0..Region
    BY DEF ProgInv, Counts, Breaks
  <2>3. tanja_exit_jmp \in 0..Len(stack)
    <3>1. Level(stack) \in Nat /\ Level(stack) <= Len(stack) /\ Len(stack) \in Nat
      BY EmptySeq DEF ProgInv, Frames, Level
    <3>2. tanja_exit_jmp \in 0..Level(stack)
      BY <3>1, InnerLast DEF ProgInv, Buffers
    <3> QED  BY <3>1, <3>2
  <2>4. {tanja_exit_active, kb_raw_mode, halted} \subseteq BOOLEAN
    BY DEF ProgInv, Buffers, Raw, Counts
  <2>5. Len(atexit_funcs) <= ATEXIT_MAX
    BY DEF ProgInv, Counts
  <2>6. ASSUME NEW i \in 1..Len(stack)
        PROVE  /\ stack[i].kind \in {"elf", "linux", "script"}
               /\ stack[i].pc \in {"load", "armed", "run", "back", "unarm", "atexit"}
               /\ stack[i].brk \in 0..Region /\ stack[i].jmp \in 0 .. i - 1
               /\ i < Len(stack) => stack[i].pc = "run"
    <3>1. /\ stack[i].kind \in {"elf", "linux", "script"}
          /\ stack[i].pc \in {"load", "armed", "run", "back", "unarm", "atexit"}
          /\ stack[i].brk \in 0..Region
      BY FrameFacts DEF ProgInv, Frame
    <3>2. i < Len(stack) => stack[i].pc = "run"
      BY DEF ProgInv, Frames
    <3>3. stack[i].jmp \in 0 .. i - 1
      <4>1. Saved(stack, i) /\ i - 1 \in Nat
        BY DEF ProgInv, Frames, Buffers
      <4> DEFINE k == i - 1
      <4>2. Inner(stack, stack[i].jmp, k) => stack[i].jmp \in 0..k
        <5>1. k \in Nat
          BY <4>1
        <5> HIDE DEF k
        <5> QED  BY <5>1, InnerLast
      <4> QED  BY <4>1, <4>2 DEF Saved
    <3> QED  BY <3>1, <3>2, <3>3
  <2> QED  BY <2>1, <2>2, <2>3, <2>4, <2>5, <2>6 DEF TypeOK
<1> QED  BY <1>1, ProgramsCorrect, PTL

\* "nested programs unwind to their OWN elf_run": however deep the programs
\* and scripts are nested, exit, a fault and Ctrl+C end the innermost program.
THEOREM UnwindToOwn == Spec => []JumpsToInnermost
<1>1. ProgInv => JumpsToInnermost
  <2> SUFFICES ASSUME ProgInv, ~halted, ~At("armed"), ~At("unarm")
               PROVE  LET running == {i \in 1..Len(stack) : IsProgram(i) /\ stack[i].pc \in {"run", "back"}}
                      IN  /\ tanja_exit_active = (running # {})
                          /\ running # {} => /\ tanja_exit_jmp \in running
                                             /\ \A i \in running : i <= tanja_exit_jmp
      BY DEF JumpsToInnermost
  <2> DEFINE running == {i \in 1..Len(stack) : IsProgram(i) /\ stack[i].pc \in {"run", "back"}}
             l == Level(stack)
  <2>1. l \in Nat /\ l <= Len(stack) /\ Len(stack) \in Nat /\ ~Half(stack)
    BY EmptySeq DEF ProgInv, Frames, Level, Half, At, Top
  <2>2. running = {i \in 1..l : IsProgram(i)}
    <3>1. \A i \in 1..Len(stack) : i < Len(stack) => stack[i].pc = "run"
      BY DEF ProgInv, Frames
    <3>2. CASE l = Len(stack)
      <4>1. \A i \in 1..Len(stack) : IsProgram(i) => stack[i].pc \in {"run", "back"}
        BY <2>1, <3>1, <3>2 DEF Level, IsProgram, ProgInv, Frames
      <4> QED  BY <3>2, <4>1
    <3>3. CASE l # Len(stack)
      <4>1. l = Len(stack) - 1 /\ stack[Len(stack)].pc \notin {"run", "back"}
        BY <3>3 DEF Level
      <4>2. \A i \in 1..Len(stack) : i \in 1..l \/ i = Len(stack)
        BY <2>1, <4>1
      <4>3. \A i \in 1..l : i \in 1..Len(stack) /\ stack[i].pc = "run"
        BY <2>1, <3>1, <4>1
      <4> QED  BY <4>1, <4>2, <4>3
    <3> QED  BY <3>2, <3>3
  <2>3. Inner(stack, tanja_exit_jmp, l)
    BY DEF ProgInv, Buffers
  <2> HIDE DEF running, l
  <2>4. /\ tanja_exit_jmp \in 0..l
        /\ tanja_exit_jmp # 0 => IsProgram(tanja_exit_jmp)
        /\ \A m \in 1..l : IsProgram(m) => tanja_exit_jmp # 0 /\ m <= tanja_exit_jmp
    BY <2>1, <2>3, InnerLast DEF IsProgram
  <2>5. tanja_exit_jmp # 0 <=> running # {}
    BY <2>1, <2>2, <2>4
  <2>6. running # {} => tanja_exit_jmp \in running /\ \A i \in running : i <= tanja_exit_jmp
    BY <2>1, <2>2, <2>4
  <2>7. tanja_exit_active \in BOOLEAN /\ (tanja_exit_active <=> tanja_exit_jmp # 0)
    BY <2>1 DEF ProgInv, Buffers
  <2>8. tanja_exit_active = (running # {})
    BY <2>5, <2>7
  <2> QED  BY <2>6, <2>8 DEF running
<1> QED  BY <1>1, ProgramsCorrect, PTL

\* Programs never share memory, and back at the prompt the break, the buffer,
\* the flag and the keyboard are as at boot, however the programs were left.
THEOREM PromptAsAtBoot == Spec => []SharedRestored
<1>1. ProgInv => SharedRestored
  <2> SUFFICES ASSUME ProgInv, ~halted PROVE SharedRestored
      BY DEF SharedRestored
  <2>1. ASSUME stack = <<>>
        PROVE  program_brk = 0 /\ tanja_exit_jmp = 0 /\ ~tanja_exit_active /\ ~kb_raw_mode
    <3>1. Len(stack) = 0 /\ Level(stack) = 0 /\ ~Half(stack)
      BY <2>1 DEF Level, Half
    <3>2. program_brk = 0
      BY <3>1 DEF ProgInv, Breaks
    <3>3. ~kb_raw_mode
      BY <3>1 DEF ProgInv, Raw
    <3>4. tanja_exit_jmp = 0
      BY <3>1 DEF ProgInv, Buffers, Inner
    <3>5. ~tanja_exit_active
      BY <3>1, <3>4 DEF ProgInv, Buffers
    <3> QED  BY <3>2, <3>3, <3>4, <3>5
  <2> QED  BY <2>1 DEF ProgInv, Breaks, IsElf, SharedRestored
<1> QED  BY <1>1, ProgramsCorrect, PTL

\* exec_depth is the number of open calls of exec_file and of those jumped over.
THEOREM DepthAlwaysCounts == Spec => []DepthCounts
<1>1. ProgInv => DepthCounts
  BY DEF ProgInv, Counts
<1> QED  BY <1>1, ProgramsCorrect, PTL

\* "nothing typed is lost", for every length of the ring, until it is filled
\* past its last slot.
THEOREM NoKeyLost == Spec => []NothingLost
<1>1. KbInv => NothingLost
  BY DEF KbInv
<1> QED  BY <1>1, ProgramsCorrect, PTL
=============================================================================

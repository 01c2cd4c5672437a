----------------------------- MODULE BootProof ------------------------------
(***************************************************************************)
(* Whatever devices, drivers and exceptions there are, no handler runs     *)
(* before what it uses is set up, the segments it runs in included; and an *)
(* interrupt leaves the program it struck as it was, and no line blocked.  *)
(***************************************************************************)
EXTENDS Boot, TLAPS

LEMMA KMainSteps ==
  /\ KMain[1] = "sse_init" /\ KMain[2] = "graphics_init"
  /\ KMain[3] = "fb_console_init" /\ KMain[4] = "gdt_install"
  /\ KMain[5] = "pic_remap_ICW" /\ KMain[6] = "pic_remap_masks"
  /\ KMain[7] = "idt_load" /\ KMain[8] = "fpu_init" /\ KMain[9] = "keyboard_init"
  /\ KMain[10] = "ramdisk_init" /\ KMain[11] = "fat32_init" /\ KMain[12] = "sti"
  /\ KMain[13] = "cli_run"
BY DEF KMain

\* A step of k_main() is done once the position has passed it.
LEMMA DoneByPosition ==
  ASSUME at \in 1 .. 13
  PROVE  /\ at > 2 => "graphics_init" \in Done
         /\ at > 3 => "fb_console_init" \in Done
         /\ at > 4 => "gdt_install" \in Done
         /\ at > 9 => "keyboard_init" \in Done
         /\ "idt_load" \in Done => at > 7
         /\ "sti" \in Done => at > 12
<1>1. \A i \in 1 .. at - 1 : KMain[i] \in Done
  BY DEF Done
<1>2. at > 2 => KMain[2] \in Done
  BY <1>1
<1>3. at > 3 => KMain[3] \in Done
  BY <1>1
<1>4. at > 4 => KMain[4] \in Done
  BY <1>1
<1>5. at > 9 => KMain[9] \in Done
  BY <1>1
<1>6. "idt_load" \in Done => at > 7
  <2>1. ASSUME "idt_load" \in Done PROVE at > 7
    <3>1. PICK i \in 1 .. at - 1 : KMain[i] = "idt_load"
      BY <2>1 DEF Done
    <3>2. i # 1 /\ i # 2 /\ i # 3 /\ i # 4 /\ i # 5 /\ i # 6
      BY <3>1, KMainSteps
    <3> QED BY <3>1, <3>2
  <2> QED BY <2>1
<1>7. "sti" \in Done => at > 12
  <2>1. ASSUME "sti" \in Done PROVE at > 12
    <3>1. PICK i \in 1 .. at - 1 : KMain[i] = "sti"
      BY <2>1 DEF Done
    <3>2. /\ i # 1 /\ i # 2 /\ i # 3 /\ i # 4 /\ i # 5 /\ i # 6
          /\ i # 7 /\ i # 8 /\ i # 9 /\ i # 10 /\ i # 11
      BY <3>1, KMainSteps
    <3> QED BY <3>1, <3>2
  <2> QED BY <2>1
<1> QED BY <1>2, <1>3, <1>4, <1>5, <1>6, <1>7, KMainSteps

\* The strengthening: exceptions come after position 7, interrupts after 12.
HandlersInOrder ==
  /\ at \in 1 .. 13
  /\ code # <<>> => at > 7
  /\ code # <<>> /\ vector >= 32 => at > 12
  /\ vector \in Int

LEMMA InOrderIsReady == HandlersInOrder => HandlersReady
<1> SUFFICES ASSUME HandlersInOrder PROVE HandlersReady
  OBVIOUS
<1> USE DEF HandlersInOrder
<1>1. ~ InMain => {"gdt_install", "graphics_init", "fb_console_init"} \subseteq Done
  BY DoneByPosition DEF InMain
<1>2. ~ InMain /\ vector = VectorOf(KeyboardLine) => "keyboard_init" \in Done
  BY DoneByPosition DEF InMain, VectorOf, KeyboardLine
<1> QED BY <1>1, <1>2 DEF HandlersReady

LEMMA InOrderInit == Init => HandlersInOrder
BY DEF Init, HandlersInOrder

\* k_main() goes on only while no handler runs.
LEMMA BootKeepsOrder == HandlersInOrder /\ BootStep => HandlersInOrder'
<1> SUFFICES ASSUME HandlersInOrder, BootStep PROVE HandlersInOrder'
  OBVIOUS
<1>1. InMain /\ at' = at + 1 /\ UNCHANGED cpu
  BY DEF BootStep, GdtInstall, PicStart, PicMask, KeyboardInit, InitPart, Reaches
<1>2. KMain[at] # "cli_run"
  BY DEF BootStep, GdtInstall, PicStart, PicMask, KeyboardInit, InitPart, Reaches
<1>3. at # 13
  BY <1>2, KMainSteps
<1> QED BY <1>1, <1>3 DEF HandlersInOrder, InMain, cpu

\* A handler's instructions leave the vector alone, and only return from a stub.
LEMMA ExecuteKeepsOrder ==
  HandlersInOrder /\ Execute /\ UNCHANGED at => HandlersInOrder'
<1> SUFFICES ASSUME HandlersInOrder, Execute, UNCHANGED at PROVE HandlersInOrder'
  OBVIOUS
<1>1. vector' = vector /\ (code' = code \/ code' = <<>>)
  BY DEF Execute, PushInstr, PopInstr, LoadInstr, Iret, CallIrqHandler, Step
<1> QED BY <1>1 DEF HandlersInOrder

LEMMA HappensKeepsOrder ==
  HandlersInOrder /\ Happens /\ UNCHANGED at => HandlersInOrder'
<1> SUFFICES ASSUME HandlersInOrder, Happens, UNCHANGED at PROVE HandlersInOrder'
  OBVIOUS
<1>1. CASE Execute
  BY <1>1, ExecuteKeepsOrder
<1>2. CASE Press \/ \E line \in Lines : Request(line)
  BY <1>2 DEF Press, Request, cpu, HandlersInOrder
<1>3. ASSUME NEW e \in Exceptions, "idt_load" \in Done, Raise(e)
      PROVE  HandlersInOrder'
  <2>1. at > 7
    BY <1>3, DoneByPosition DEF HandlersInOrder
  <2>2. vector' = e /\ e \in 0 .. 31
    BY <1>3, VectorAssumption DEF Raise, Enter
  <2> QED BY <2>1, <2>2 DEF HandlersInOrder
<1> QED BY <1>1, <1>2, <1>3 DEF Happens

LEMMA InterruptKeepsOrder ==
  ASSUME HandlersInOrder, NEW line \in Lines \cup {KeyboardLine}, Interrupt(line),
         UNCHANGED at
  PROVE  HandlersInOrder'
<1>1. at > 12
  BY DoneByPosition DEF Interrupt, HandlersInOrder
<1>2. vector' \in Int
  BY VectorAssumption DEF Interrupt, Deliver, Enter, VectorOf, KeyboardLine
<1> QED BY <1>1, <1>2 DEF HandlersInOrder

LEMMA InOrderStep == HandlersInOrder /\ [Next]_vars => HandlersInOrder'
<1> SUFFICES ASSUME HandlersInOrder, [Next]_vars PROVE HandlersInOrder'
  OBVIOUS
<1>1. CASE BootStep
  BY <1>1, BootKeepsOrder
<1>2. CASE \E line \in Drivers : OpenLine(line)
  BY <1>2 DEF OpenLine, cpu, HandlersInOrder
<1>3. CASE Happens /\ UNCHANGED <<at, gdt, early>>
  BY <1>3, HappensKeepsOrder
<1>4. CASE /\ \E line \in Lines \cup {KeyboardLine} : Interrupt(line)
           /\ UNCHANGED <<at, gdt, early>>
  BY <1>4, InterruptKeepsOrder
<1>5. CASE UNCHANGED vars
  BY <1>5 DEF vars, cpu, HandlersInOrder
<1> QED BY <1>1, <1>2, <1>3, <1>4, <1>5 DEF Next

\* k_main() sets everything up before a handler can want it: the descriptor table
\* and the screen before the IDT is loaded, the keyboard's ring before sti.
THEOREM SetUpBeforeUse == Spec => []HandlersReady
<1>1. Init => HandlersInOrder
  BY InOrderInit
<1>2. HandlersInOrder /\ [Next]_vars => HandlersInOrder'
  BY InOrderStep
<1>3. HandlersInOrder => HandlersReady
  BY InOrderIsReady
<1> QED BY <1>1, <1>2, <1>3, PTL DEF Spec

-----------------------------------------------------------------------------
(* The segments.                                                           *)

TableLoaded == at \in 1 .. 13 /\ (at > 4 => gdt = Descriptors)

LEMMA TableStep == TableLoaded /\ HandlersInOrder' /\ [Next]_vars => TableLoaded'
<1> SUFFICES ASSUME TableLoaded, HandlersInOrder', [Next]_vars PROVE TableLoaded'
  OBVIOUS
<1>1. at' \in 1 .. 13
  BY DEF HandlersInOrder
<1>2. CASE BootStep
  <2>1. CASE GdtInstall
    BY <1>1, <2>1 DEF GdtInstall, TableLoaded
  <2>2. CASE PicStart \/ PicMask \/ KeyboardInit \/ InitPart
    <3>1. gdt' = gdt /\ at' = at + 1 /\ KMain[at] # "gdt_install"
      BY <2>2 DEF PicStart, PicMask, KeyboardInit, InitPart, Reaches
    <3>2. at # 4
      BY <3>1, KMainSteps
    <3> QED BY <1>1, <3>1, <3>2 DEF TableLoaded
  <2> QED BY <1>2, <2>1, <2>2 DEF BootStep
<1>3. CASE UNCHANGED <<at, gdt>>
  BY <1>3 DEF TableLoaded
<1> QED BY <1>2, <1>3 DEF Next, OpenLine, vars

\* The code and the data descriptor differ in one bit.
LEMMA PackedFields ==
  ASSUME NEW access \in Nat
  PROVE  Descriptor(Nothing, All32, access, 207) =
           [base_low |-> 0, base_middle |-> 0, base_high |-> 0, limit_low |-> 65535,
            granularity |-> 207, access |-> access]
<1>1. 65535 % 16 = 15 /\ 207 \div 16 = 12 /\ 0 % 256 = 0 /\ 0 \div 256 = 0
  OBVIOUS
<1> QED BY <1>1 DEF Descriptor, Nothing, All32

LEMMA FlatByAccess ==
  ASSUME NEW access \in {146, 154}, NEW d, d = Descriptor(Nothing, All32, access, 207)
  PROVE  Flat(d) /\ (Executes(d) <=> access = 154)
<1>1. /\ d.base_low = 0 /\ d.base_middle = 0 /\ d.base_high = 0
      /\ d.limit_low = 65535 /\ d.granularity = 207 /\ d.access = access
  BY PackedFields
<1>2. Base(d) = Nothing /\ Limit(d) = <<15, 65535>>
  BY <1>1 DEF Base, Limit, Nothing
<1>3. CountsPages(d) /\ Of32Bits(d)
  BY <1>1 DEF CountsPages, Of32Bits
<1>4. Present(d) /\ Ring(d) = 0 /\ Accessible(d)
  BY <1>1 DEF Present, Ring, Accessible
<1>5. Executes(d) <=> access = 154
  BY <1>1 DEF Executes
<1> QED BY <1>2, <1>3, <1>4, <1>5 DEF Flat

LEMMA DescriptorsAreFlat ==
  /\ Flat(Descriptors[2]) /\ Executes(Descriptors[2])
  /\ Flat(Descriptors[3]) /\ ~ Executes(Descriptors[3])
<1>1. Descriptors[2] = Descriptor(Nothing, All32, 154, 207)
  BY DEF Descriptors
<1>2. Descriptors[3] = Descriptor(Nothing, All32, 146, 207)
  BY DEF Descriptors
<1> QED BY <1>1, <1>2, FlatByAccess

\* Every handler finds segments that cover all of memory: gdt_install() packed them
\* as the CPU unpacks them, before the IDT was loaded.
THEOREM HandlersHaveSegments == Spec => []SegmentsAreFlat
<1>1. Init => HandlersInOrder /\ TableLoaded
  BY InOrderInit DEF Init, TableLoaded
<1>2. HandlersInOrder /\ TableLoaded /\ [Next]_vars => (HandlersInOrder /\ TableLoaded)'
  BY InOrderStep, TableStep
<1>3. HandlersInOrder /\ TableLoaded => SegmentsAreFlat
  <2> SUFFICES ASSUME HandlersInOrder, TableLoaded, ~ InMain PROVE SegmentsAreFlat
    BY DEF SegmentsAreFlat
  <2>1. gdt = Descriptors
    BY DEF HandlersInOrder, TableLoaded, InMain
  <2>2. 1 + 8 \div 8 = 2 /\ 1 + 16 \div 8 = 3
    OBVIOUS
  <2> QED BY <2>1, <2>2, DescriptorsAreFlat DEF SegmentsAreFlat
<1> QED BY <1>1, <1>2, <1>3, PTL DEF Spec

-----------------------------------------------------------------------------
(* The stubs, instruction by instruction.                                  *)

LEMMA IrqStubSteps ==
  ASSUME NEW v
  PROVE  /\ IrqStub(v)[1] = Push(0) /\ IrqStub(v)[2] = Push(v)
         /\ IrqStub(v)[3] = <<"pusha">>
         /\ IrqStub(v)[4] = PushReg("ds") /\ IrqStub(v)[5] = PushReg("es")
         /\ IrqStub(v)[6] = PushReg("fs") /\ IrqStub(v)[7] = PushReg("gs")
         /\ IrqStub(v)[8] = <<"kernel_segments">> /\ IrqStub(v)[9] = LoadEax(48)
         /\ IrqStub(v)[10] = PushReg("eax") /\ IrqStub(v)[11] = <<"irq_handler">>
         /\ IrqStub(v)[12] = Drop(1)
         /\ IrqStub(v)[13] = PopReg("gs") /\ IrqStub(v)[14] = PopReg("fs")
         /\ IrqStub(v)[15] = PopReg("es") /\ IrqStub(v)[16] = PopReg("ds")
         /\ IrqStub(v)[17] = <<"popa">> /\ IrqStub(v)[18] = Drop(2)
         /\ IrqStub(v)[19] = <<"iret">>
BY DEF IrqStub, Save, Restore

LEMMA ShortIsrStub ==
  ASSUME NEW v \in ExpectsErrorCode, NEW s, s = IsrStub(v)
  PROVE  /\ s[1] = Push(v) /\ s[2] = <<"pusha">>
         /\ s[3] = PushReg("ds") /\ s[4] = PushReg("es")
         /\ s[5] = PushReg("fs") /\ s[6] = PushReg("gs") /\ s[7] = <<"kernel_segments">>
         /\ s[8] = LoadEax(52) /\ s[9] = PushReg("eax")
         /\ s[10] = LoadEax(56) /\ s[11] = PushReg("eax")
         /\ s[12] = LoadEax(36) /\ s[13] = PushReg("eax")
         /\ s[14] = LoadEax(44) /\ s[15] = PushReg("eax")
         /\ s[16] = LoadEax(40) /\ s[17] = PushReg("eax") /\ s[18] = <<"isr_handler">>
BY DEF IsrStub, Save, Restore

LEMMA LongIsrStub ==
  ASSUME NEW v, v \notin ExpectsErrorCode, NEW s, s = IsrStub(v)
  PROVE  /\ s[1] = Push(0) /\ s[2] = Push(v) /\ s[3] = <<"pusha">>
         /\ s[4] = PushReg("ds") /\ s[5] = PushReg("es")
         /\ s[6] = PushReg("fs") /\ s[7] = PushReg("gs") /\ s[8] = <<"kernel_segments">>
         /\ s[9] = LoadEax(52) /\ s[10] = PushReg("eax")
         /\ s[11] = LoadEax(56) /\ s[12] = PushReg("eax")
         /\ s[13] = LoadEax(36) /\ s[14] = PushReg("eax")
         /\ s[15] = LoadEax(44) /\ s[16] = PushReg("eax")
         /\ s[17] = LoadEax(40) /\ s[18] = PushReg("eax") /\ s[19] = <<"isr_handler">>
BY DEF IsrStub, Save, Restore

\* What each instruction does.
LEMMA PushEffect ==
  ASSUME NEW x, ~ InMain, Instr = <<"push", x>>, Execute
  PROVE  /\ stack' = Append(stack, x)
         /\ ip' = ip + 1 /\ UNCHANGED <<regs, code, vector, devices>>
BY DEF Execute, PushInstr, PopInstr, LoadInstr, Iret, CallIrqHandler, Is, Step

LEMMA PushRegEffect ==
  ASSUME NEW r, ~ InMain, Instr = PushReg(r), Execute
  PROVE  /\ stack' = Append(stack, regs[r])
         /\ ip' = ip + 1 /\ UNCHANGED <<regs, code, vector, devices>>
BY DEF Execute, PushInstr, PopInstr, LoadInstr, Iret, CallIrqHandler, Is, Step, PushReg

LEMMA PushaEffect ==
  ASSUME ~ InMain, Instr = <<"pusha">>, Execute
  PROVE  /\ stack' = stack \o << regs["eax"], regs["ecx"], regs["edx"], regs["ebx"],
                                 <<"esp", Depth>>, regs["ebp"], regs["esi"], regs["edi"] >>
         /\ ip' = ip + 1 /\ UNCHANGED <<regs, code, vector, devices>>
BY DEF Execute, PushInstr, PopInstr, LoadInstr, Iret, CallIrqHandler, Is, Step

LEMMA PopRegEffect ==
  ASSUME NEW r, ~ InMain, Instr = PopReg(r), Execute
  PROVE  /\ stack' = Popped(1) /\ regs' = [regs EXCEPT ![r] = Last(stack)]
         /\ ip' = ip + 1 /\ UNCHANGED <<code, vector, devices>>
BY DEF Execute, PushInstr, PopInstr, LoadInstr, Iret, CallIrqHandler, Is, Step, PopReg

LEMMA PopaEffect ==
  ASSUME ~ InMain, Instr = <<"popa">>, Execute
  PROVE  /\ stack' = Popped(8)
         /\ regs' = [regs EXCEPT !["edi"] = Peek(0), !["esi"] = Peek(4),
                                !["ebp"] = Peek(8), !["ebx"] = Peek(16),
                                !["edx"] = Peek(20), !["ecx"] = Peek(24),
                                !["eax"] = Peek(28)]
         /\ ip' = ip + 1 /\ UNCHANGED <<code, vector, devices>>
BY DEF Execute, PushInstr, PopInstr, LoadInstr, Iret, CallIrqHandler, Is, Step

LEMMA DropEffect ==
  ASSUME NEW n, ~ InMain, Instr = Drop(n), Execute
  PROVE  /\ stack' = Popped(n)
         /\ ip' = ip + 1 /\ UNCHANGED <<regs, code, vector, devices>>
BY DEF Execute, PushInstr, PopInstr, LoadInstr, Iret, CallIrqHandler, Is, Step, Drop

LEMMA LoadEffect ==
  ASSUME NEW o, ~ InMain, Instr = LoadEax(o), Execute
  PROVE  /\ regs' = [regs EXCEPT !["eax"] = Peek(o)]
         /\ ip' = ip + 1 /\ UNCHANGED <<stack, code, vector, devices>>
BY DEF Execute, PushInstr, PopInstr, LoadInstr, Iret, CallIrqHandler, Is, Step, LoadEax

\* The CPU has all its registers.
Complete(f) == f = [r \in Registers |-> f[r]]

LEMMA SegmentsEffect ==
  ASSUME ~ InMain, Instr = <<"kernel_segments">>, Execute
  PROVE  /\ Complete(regs')
         /\ ip' = ip + 1 /\ UNCHANGED <<stack, code, vector, devices>>
BY DEF Execute, PushInstr, PopInstr, LoadInstr, Iret, CallIrqHandler, Is, Step, Complete

LEMMA CallEffect ==
  ASSUME ~ InMain, Instr = <<"irq_handler">>, Execute
  PROVE  /\ in_service' = Acknowledged(Last(stack)[2], in_service)
         /\ \E a : stack' = Append(Popped(1), a)
         /\ Complete(regs')
         /\ ip' = ip + 1 /\ UNCHANGED <<code, vector>>
BY DEF Execute, PushInstr, PopInstr, LoadInstr, Iret, CallIrqHandler, Is, Step, Complete

LEMMA IretEffect ==
  ASSUME ~ InMain, Instr = <<"iret">>, Execute
  PROVE  /\ code' = <<>> /\ UNCHANGED <<vector, devices>>
         /\ regs' = [regs EXCEPT !["eip"] = Peek(0), !["cs"] = Peek(4), !["eflags"] = Peek(8)]
         /\ stack' = Popped(3)
BY DEF Execute, PushInstr, PopInstr, LoadInstr, Iret, CallIrqHandler, Is, Step

LEMMA NoReturn == ~ InMain /\ Instr = <<"isr_handler">> => ~ Execute
BY DEF Execute, PushInstr, PopInstr, LoadInstr, Iret, CallIrqHandler, Is

-----------------------------------------------------------------------------
(* Stacks.                                                                 *)

\* A stack of n dwords.
IsTuple(s, n) == s = [i \in 1 .. n |-> s[i]]

\* What is on the stack once a stub has saved everything.
Frame(v) ==
  << <<"main", "top">>, MainRegs["eflags"], MainRegs["cs"], MainRegs["eip"],
     IF v \in WithErrorCode THEN <<"error_code">> ELSE Number(0), Number(v),
     MainRegs["eax"], MainRegs["ecx"], MainRegs["edx"], MainRegs["ebx"], <<"esp", 6>>,
     MainRegs["ebp"], MainRegs["esi"], MainRegs["edi"],
     MainRegs["ds"], MainRegs["es"], MainRegs["fs"], MainRegs["gs"] >>

\* The stack is the first n dwords of it, or has them at the bottom.
Begins(s, v, n) == \A i \in 1 .. n : s[i] = Frame(v)[i]
Holds(s, v, n) == IsTuple(s, n) /\ Begins(s, v, n)


\* How much of it is there before each instruction of an interrupt's stub.
Saved == << 4, 5, 6, 14, 15, 16, 17, 18, 18, 18, 18, 18, 18, 17, 16, 15, 14, 6, 4 >>

\* The instructions that put it there.
Opening(v) ==
  << Push(0), Push(v), <<"pusha">>, PushReg("ds"), PushReg("es"), PushReg("fs"),
     PushReg("gs"), <<"kernel_segments">> >>

LEMMA TopOf ==
  ASSUME NEW n \in Nat, NEW s, IsTuple(s, n)
  PROVE  Len(s) = n /\ Last(s) = s[n]
BY DEF IsTuple, Last

LEMMA PushHolds ==
  ASSUME NEW v, NEW s, NEW n \in 0 .. 17, Holds(s, v, n), NEW e, e = Frame(v)[n + 1]
  PROVE  Holds(Append(s, e), v, n + 1)
<1>1. n \in Nat
  OBVIOUS
<1>2. IsTuple(Append(s, e), n + 1)
  BY <1>1 DEF Holds, IsTuple
<1>3. Begins(Append(s, e), v, n + 1)
  BY <1>1 DEF Begins, Holds, IsTuple
<1> QED BY <1>2, <1>3 DEF Holds

LEMMA PushaHolds ==
  ASSUME NEW v, NEW s, Holds(s, v, 6), NEW t, IsTuple(t, 8),
         \A i \in 1 .. 8 : t[i] = Frame(v)[6 + i]
  PROVE  Holds(s \o t, v, 14)
<1>1. IsTuple(s \o t, 14)
  BY DEF Holds, IsTuple
<1>2. Begins(s \o t, v, 14)
  <2> SUFFICES ASSUME NEW i \in 1 .. 14 PROVE (s \o t)[i] = Frame(v)[i]
    BY DEF Begins
  <2>1. CASE i \in 1 .. 6
    BY <2>1 DEF Holds, Begins, IsTuple
  <2>2. CASE i \in 7 .. 14
    <3>1. i - 6 \in 1 .. 8 /\ 6 + (i - 6) = i
      BY <2>2
    <3>2. (s \o t)[i] = t[i - 6]
      BY <2>2 DEF Holds, IsTuple
    <3> QED BY <3>1, <3>2
  <2>3. i \in 1 .. 6 \/ i \in 7 .. 14
    OBVIOUS
  <2> QED BY <2>1, <2>2, <2>3, Zenon
<1> QED BY <1>1, <1>2 DEF Holds

LEMMA FrameIs ==
  ASSUME NEW v
  PROVE  /\ Frame(v)[1] = <<"main", "top">> /\ Frame(v)[2] = MainRegs["eflags"]
         /\ Frame(v)[3] = MainRegs["cs"] /\ Frame(v)[4] = MainRegs["eip"]
         /\ Frame(v)[5] = IF v \in WithErrorCode THEN <<"error_code">> ELSE Number(0)
         /\ Frame(v)[6] = Number(v)
         /\ Frame(v)[7] = MainRegs["eax"] /\ Frame(v)[8] = MainRegs["ecx"]
         /\ Frame(v)[9] = MainRegs["edx"] /\ Frame(v)[10] = MainRegs["ebx"]
         /\ Frame(v)[11] = <<"esp", 6>> /\ Frame(v)[12] = MainRegs["ebp"]
         /\ Frame(v)[13] = MainRegs["esi"] /\ Frame(v)[14] = MainRegs["edi"]
         /\ Frame(v)[15] = MainRegs["ds"] /\ Frame(v)[16] = MainRegs["es"]
         /\ Frame(v)[17] = MainRegs["fs"] /\ Frame(v)[18] = MainRegs["gs"]
BY DEF Frame

\* The instructions that save, the same ones in every stub.
LEMMA OpeningStep ==
  ASSUME NEW v, NEW p \in 1 .. 8, Holds(stack, v, Saved[p]), regs = MainRegs,
         p = 1 => v \notin WithErrorCode, ~ InMain, Instr = Opening(v)[p], Execute
  PROVE  /\ Holds(stack', v, Saved[p + 1])
         /\ p < 8 => regs' = MainRegs
         /\ Complete(regs')
         /\ ip' = ip + 1 /\ UNCHANGED <<code, vector, devices>>
<1>0. Complete(MainRegs)
  BY DEF MainRegs, Complete
<1>1. CASE p = 1
  <2>1. Instr = <<"push", Number(0)>>
    BY <1>1 DEF Opening, Push
  <2>2. Saved[1] = 4 /\ Saved[2] = 5
    BY DEF Saved
  <2>3. Number(0) = Frame(v)[4 + 1]
    BY <1>1, FrameIs
  <2>4. Holds(Append(stack, Number(0)), v, 4 + 1)
    BY <1>1, <2>2, <2>3, PushHolds
  <2>5. stack' = Append(stack, Number(0)) /\ ip' = ip + 1
        /\ UNCHANGED <<regs, code, vector, devices>>
    BY <2>1, PushEffect
  <2> QED BY <1>0, <1>1, <2>2, <2>4, <2>5
<1>2. CASE p = 2
  <2>1. Instr = <<"push", Number(v)>>
    BY <1>2 DEF Opening, Push
  <2>2. Saved[2] = 5 /\ Saved[3] = 6
    BY DEF Saved
  <2>3. Number(v) = Frame(v)[5 + 1]
    BY FrameIs
  <2>4. Holds(Append(stack, Number(v)), v, 5 + 1)
    BY <1>2, <2>2, <2>3, PushHolds
  <2>5. stack' = Append(stack, Number(v)) /\ ip' = ip + 1
        /\ UNCHANGED <<regs, code, vector, devices>>
    BY <2>1, PushEffect
  <2> QED BY <1>0, <1>2, <2>2, <2>4, <2>5
<1>3. CASE p = 3
  <2> DEFINE t == << regs["eax"], regs["ecx"], regs["edx"], regs["ebx"],
                     <<"esp", Depth>>, regs["ebp"], regs["esi"], regs["edi"] >>
  <2>1. Instr = <<"pusha">>
    BY <1>3 DEF Opening
  <2>2. Saved[3] = 6 /\ Saved[4] = 14
    BY DEF Saved
  <2>3. Depth = 6
    <3>1. IsTuple(stack, 6) /\ 6 \in Nat
      BY <1>3, <2>2 DEF Holds
    <3> QED BY <3>1, TopOf DEF Depth
  <2>4. IsTuple(t, 8)
    BY DEF IsTuple
  <2>5. \A i \in 1 .. 8 : t[i] = Frame(v)[6 + i]
    <3>1. /\ t[1] = Frame(v)[6 + 1] /\ t[2] = Frame(v)[6 + 2] /\ t[3] = Frame(v)[6 + 3]
          /\ t[4] = Frame(v)[6 + 4] /\ t[5] = Frame(v)[6 + 5] /\ t[6] = Frame(v)[6 + 6]
          /\ t[7] = Frame(v)[6 + 7] /\ t[8] = Frame(v)[6 + 8]
      BY <2>3, FrameIs
    <3> HIDE DEF t
    <3>2. \A i \in 1 .. 8 : i \in {1, 2, 3, 4, 5, 6, 7, 8}
      OBVIOUS
    <3> QED BY <3>1, <3>2
  <2>6. /\ stack' = stack \o t /\ ip' = ip + 1
        /\ UNCHANGED <<regs, code, vector, devices>>
    BY <2>1, PushaEffect
  <2> HIDE DEF t
  <2>7. Holds(stack, v, 6)
    BY <1>3, <2>2
  <2>8. Holds(stack \o t, v, 14)
    BY <2>4, <2>5, <2>7, PushaHolds
  <2> QED BY <1>0, <1>3, <2>2, <2>6, <2>8
<1>4. ASSUME NEW r, p \in 4 .. 7, Instr = PushReg(r), regs[r] = Frame(v)[Saved[p] + 1]
      PROVE  /\ Holds(stack', v, Saved[p + 1]) /\ regs' = MainRegs
             /\ ip' = ip + 1 /\ UNCHANGED <<code, vector, devices>>
  <2>1. Saved[p + 1] = Saved[p] + 1 /\ Saved[p] \in 0 .. 17
    <3>1. Saved[4] = 14 /\ Saved[5] = 15 /\ Saved[6] = 16 /\ Saved[7] = 17 /\ Saved[8] = 18
      BY DEF Saved
    <3>2. p = 4 \/ p = 5 \/ p = 6 \/ p = 7
      BY <1>4
    <3> QED BY <3>1, <3>2
  <2>2. Holds(Append(stack, regs[r]), v, Saved[p] + 1)
    BY <1>4, <2>1, PushHolds
  <2> QED BY <1>4, <2>1, <2>2, PushRegEffect
<1>5. Saved[4] = 14 /\ Saved[5] = 15 /\ Saved[6] = 16 /\ Saved[7] = 17
  BY DEF Saved
<1>6. CASE p = 4
  <2>1. Instr = PushReg("ds") /\ regs["ds"] = Frame(v)[Saved[p] + 1]
    BY <1>5, <1>6, FrameIs DEF Opening
  <2> QED BY <1>0, <1>4, <1>6, <2>1
<1>7. CASE p = 5
  <2>1. Instr = PushReg("es") /\ regs["es"] = Frame(v)[Saved[p] + 1]
    BY <1>5, <1>7, FrameIs DEF Opening
  <2> QED BY <1>0, <1>4, <1>7, <2>1
<1>8. CASE p = 6
  <2>1. Instr = PushReg("fs") /\ regs["fs"] = Frame(v)[Saved[p] + 1]
    BY <1>5, <1>8, FrameIs DEF Opening
  <2> QED BY <1>0, <1>4, <1>8, <2>1
<1>9. CASE p = 7
  <2>1. Instr = PushReg("gs") /\ regs["gs"] = Frame(v)[Saved[p] + 1]
    BY <1>5, <1>9, FrameIs DEF Opening
  <2> QED BY <1>0, <1>4, <1>9, <2>1
<1>10. CASE p = 8
  <2>1. Instr = <<"kernel_segments">>
    BY <1>10 DEF Opening
  <2>2. Saved[8] = 18 /\ Saved[9] = 18
    BY DEF Saved
  <2> QED BY <1>10, <2>1, <2>2, SegmentsEffect
<1> QED BY <1>1, <1>2, <1>3, <1>6, <1>7, <1>8, <1>9, <1>10

LEMMA CutKeeps ==
  ASSUME NEW v, NEW s, NEW l \in Nat, IsTuple(s, l), NEW n \in 0 .. l, Begins(s, v, n),
         NEW k \in 0 .. l, NEW m \in 0 .. l - k, m <= n
  PROVE  /\ IsTuple(SubSeq(s, 1, Len(s) - k), l - k)
         /\ Begins(SubSeq(s, 1, Len(s) - k), v, m)
<1>1. Len(s) = l
  BY TopOf
<1>2. IsTuple(SubSeq(s, 1, l - k), l - k)
  BY DEF IsTuple
<1>3. Begins(SubSeq(s, 1, l - k), v, m)
  <2> DEFINE t == SubSeq(s, 1, l - k)
  <2>1. \A i \in 1 .. m : t[i] = s[i]
    BY DEF IsTuple
  <2> HIDE DEF t
  <2>2. \A i \in 1 .. m : t[i] = Frame(v)[i]
    BY <2>1 DEF Begins
  <2> QED BY <2>2 DEF t, Begins
<1> QED BY <1>1, <1>2, <1>3

LEMMA PutOn ==
  ASSUME NEW v, NEW s, NEW l \in Nat, IsTuple(s, l), NEW n \in 0 .. l, Begins(s, v, n), NEW e
  PROVE  /\ IsTuple(Append(s, e), l + 1) /\ Begins(Append(s, e), v, n)
         /\ Last(Append(s, e)) = e
<1>1. IsTuple(Append(s, e), l + 1)
  BY DEF IsTuple
<1>2. Begins(Append(s, e), v, n)
  <2> DEFINE t == Append(s, e)
  <2>1. \A i \in 1 .. n : t[i] = s[i]
    BY DEF IsTuple
  <2> HIDE DEF t
  <2>2. \A i \in 1 .. n : t[i] = Frame(v)[i]
    BY <2>1 DEF Begins
  <2> QED BY <2>2 DEF t, Begins
<1>3. Last(Append(s, e)) = e
  BY DEF IsTuple, Last
<1> QED BY <1>1, <1>2, <1>3

LEMMA StubsAreCode == ASSUME NEW v PROVE IrqStub(v) # <<>> /\ IsrStub(v) # <<>>
<1>1. IrqStub(v) # <<>>
  BY DEF IrqStub, Save, Restore
<1>2. IsrStub(v) # <<>>
  BY DEF IsrStub, Save, Restore
<1> QED BY <1>1, <1>2

\* How many dwords there are: irq_handler()'s argument is one more.
Length == << 4, 5, 6, 14, 15, 16, 17, 18, 18, 18, 19, 19, 18, 17, 16, 15, 14, 6, 4 >>

\* The registers that are back before instruction k.
RestoredBy(k, f) ==
  /\ k > 13 => f["gs"] = MainRegs["gs"]
  /\ k > 14 => f["fs"] = MainRegs["fs"]
  /\ k > 15 => f["es"] = MainRegs["es"]
  /\ k > 16 => f["ds"] = MainRegs["ds"]
  /\ k > 17 => \A r \in General : f[r] = MainRegs[r]

LEMMA Tables ==
  /\ Length[1] = 4 /\ Length[2] = 5 /\ Length[3] = 6 /\ Length[4] = 14 /\ Length[5] = 15
  /\ Length[6] = 16 /\ Length[7] = 17 /\ Length[8] = 18 /\ Length[9] = 18
  /\ Length[10] = 18 /\ Length[11] = 19 /\ Length[12] = 19 /\ Length[13] = 18
  /\ Length[14] = 17 /\ Length[15] = 16 /\ Length[16] = 15 /\ Length[17] = 14
  /\ Length[18] = 6 /\ Length[19] = 4
  /\ Saved[1] = 4 /\ Saved[2] = 5 /\ Saved[3] = 6 /\ Saved[4] = 14 /\ Saved[5] = 15
  /\ Saved[6] = 16 /\ Saved[7] = 17 /\ Saved[8] = 18 /\ Saved[9] = 18
  /\ Saved[10] = 18 /\ Saved[11] = 18 /\ Saved[12] = 18 /\ Saved[13] = 18
  /\ Saved[14] = 17 /\ Saved[15] = 16 /\ Saved[16] = 15 /\ Saved[17] = 14
  /\ Saved[18] = 6 /\ Saved[19] = 4
<1>1. /\ Length[1] = 4 /\ Length[2] = 5 /\ Length[3] = 6 /\ Length[4] = 14 /\ Length[5] = 15
      /\ Length[6] = 16 /\ Length[7] = 17 /\ Length[8] = 18 /\ Length[9] = 18
      /\ Length[10] = 18 /\ Length[11] = 19 /\ Length[12] = 19 /\ Length[13] = 18
      /\ Length[14] = 17 /\ Length[15] = 16 /\ Length[16] = 15 /\ Length[17] = 14
      /\ Length[18] = 6 /\ Length[19] = 4
  BY DEF Length
<1>2. /\ Saved[1] = 4 /\ Saved[2] = 5 /\ Saved[3] = 6 /\ Saved[4] = 14 /\ Saved[5] = 15
      /\ Saved[6] = 16 /\ Saved[7] = 17 /\ Saved[8] = 18 /\ Saved[9] = 18
      /\ Saved[10] = 18 /\ Saved[11] = 18 /\ Saved[12] = 18 /\ Saved[13] = 18
      /\ Saved[14] = 17 /\ Saved[15] = 16 /\ Saved[16] = 15 /\ Saved[17] = 14
      /\ Saved[18] = 6 /\ Saved[19] = 4
  BY DEF Saved
<1> QED BY <1>1, <1>2

\* What holds while an interrupt's stub runs.
IrqRuns ==
  /\ vector \in {VectorOf(line) : line \in Lines \cup {KeyboardLine}}
  /\ code = IrqStub(vector) /\ ip \in 1 .. 19 /\ Complete(regs)
  /\ IsTuple(stack, Length[ip]) /\ Begins(stack, vector, Saved[ip])
  /\ ip <= 8 => regs = MainRegs
  /\ ip = 10 => regs["eax"] = Number(vector)
  /\ ip = 11 => Last(stack) = Number(vector)
  /\ RestoredBy(ip, regs)
  /\ in_service = IF ip > 11 THEN {} ELSE {vector - 32, OnMaster(vector - 32)}

\* A step that goes on to the next instruction, and what it must bring about there.
LEMMA IrqGoesOn ==
  ASSUME IrqRuns, ip < 19, ip' = ip + 1, UNCHANGED <<code, vector>>, Complete(regs'),
         IsTuple(stack', Length[ip + 1]), Begins(stack', vector, Saved[ip + 1]),
         ip < 8 => regs' = MainRegs,
         ip = 9 => regs'["eax"] = Number(vector),
         ip = 10 => Last(stack') = Number(vector),
         RestoredBy(ip + 1, regs'),
         in_service' = IF ip = 11 THEN {} ELSE in_service
  PROVE  IrqRuns'
<1>1. ip \in 1 .. 18 /\ ip' \in 1 .. 19
  BY DEF IrqRuns
<1>2. in_service' = IF ip' > 11 THEN {} ELSE {vector - 32, OnMaster(vector - 32)}
  <2>1. CASE ip = 11
    BY <2>1
  <2>2. CASE ip < 11
    BY <1>1, <2>2 DEF IrqRuns
  <2>3. CASE ip > 11
    BY <1>1, <2>3 DEF IrqRuns
  <2> QED BY <1>1, <2>1, <2>2, <2>3
<1>3. (vector \in {VectorOf(line) : line \in Lines \cup {KeyboardLine}})'
  BY DEF IrqRuns
<1>4. (ip' <= 8 => regs' = MainRegs) /\ (ip' = 10 => regs'["eax"] = Number(vector'))
      /\ (ip' = 11 => Last(stack') = Number(vector'))
  BY <1>1
<1>5. RestoredBy(ip', regs') /\ IsTuple(stack', Length[ip']) /\ Begins(stack', vector', Saved[ip'])
  OBVIOUS
<1> QED BY <1>1, <1>2, <1>3, <1>4, <1>5 DEF IrqRuns

LEMMA RegistersAre ==
  /\ General \subseteq Registers /\ Segments \subseteq Registers
  /\ {"eip", "cs", "eflags"} \subseteq Registers
BY DEF Registers

\* The instructions that save, in an interrupt's stub.
LEMMA IrqOpening == ASSUME IrqRuns, ip \in 1 .. 8, Execute PROVE IrqRuns'
<1>1. ~ InMain /\ Instr = IrqStub(vector)[ip]
  BY StubsAreCode DEF IrqRuns, InMain, Instr
<1>2. Instr = Opening(vector)[ip]
  <2>1. \A k \in 1 .. 8 : k \in {1, 2, 3, 4, 5, 6, 7, 8}
    OBVIOUS
  <2>2. \A k \in 1 .. 8 : IrqStub(vector)[k] = Opening(vector)[k]
    BY <2>1, IrqStubSteps DEF Opening
  <2> QED BY <1>1, <2>2
<1>3. vector \notin WithErrorCode
  BY VectorAssumption DEF IrqRuns, VectorOf, KeyboardLine, WithErrorCode
<1>4. \A k \in 1 .. 9 : Length[k] = Saved[k]
  <2>1. \A k \in 1 .. 9 : k \in {1, 2, 3, 4, 5, 6, 7, 8, 9}
    OBVIOUS
  <2> QED BY <2>1, Tables
<1>5. Holds(stack, vector, Saved[ip]) /\ regs = MainRegs
  BY <1>4 DEF IrqRuns, Holds
<1>6. /\ Holds(stack', vector, Saved[ip + 1]) /\ (ip < 8 => regs' = MainRegs)
      /\ Complete(regs') /\ ip' = ip + 1 /\ UNCHANGED <<code, vector, devices>>
  BY <1>1, <1>2, <1>3, <1>5, OpeningStep
<1>7. IsTuple(stack', Length[ip + 1]) /\ Begins(stack', vector, Saved[ip + 1])
  <2>1. ip + 1 \in 1 .. 9
    OBVIOUS
  <2>2. Length[ip + 1] = Saved[ip + 1]
    BY <1>4, <2>1
  <2> QED BY <1>6, <2>2 DEF Holds
<1>8. RestoredBy(ip + 1, regs')
  BY DEF RestoredBy
<1> QED BY <1>6, <1>7, <1>8, IrqGoesOn DEF devices, pic

\* The call: irq_handler() gets the vector.
LEMMA IrqCall == ASSUME IrqRuns, ip \in 9 .. 12, Execute PROVE IrqRuns'
<1>1. ~ InMain /\ Instr = IrqStub(vector)[ip]
  BY StubsAreCode DEF IrqRuns, InMain, Instr
<1>2. /\ Complete(regs) /\ IsTuple(stack, Length[ip]) /\ Begins(stack, vector, Saved[ip])
  BY DEF IrqRuns
<1>3. \A f : RestoredBy(ip + 1, f)
  BY DEF RestoredBy
<1>4. CASE ip = 9
  <2>1. Instr = LoadEax(48)
    BY <1>1, <1>4, IrqStubSteps
  <2>2. IsTuple(stack, 18) /\ Begins(stack, vector, 18)
    BY <1>2, <1>4, Tables
  <2>3. Peek(48) = Number(vector)
    <3>1. Depth = 18 /\ 48 \div 4 = 12
      <4>1. 18 \in Nat /\ 48 \div 4 = 12
        OBVIOUS
      <4>2. Len(stack) = 18
        BY <2>2, <4>1, TopOf
      <4> QED BY <4>1, <4>2 DEF Depth
    <3>2. stack[6] = Frame(vector)[6]
      BY <2>2 DEF Begins
    <3> QED BY <3>1, <3>2, FrameIs DEF Peek
  <2>4. /\ regs' = [regs EXCEPT !["eax"] = Number(vector)]
        /\ ip' = ip + 1 /\ UNCHANGED <<stack, code, vector, devices>>
    BY <1>1, <2>1, <2>3, LoadEffect
  <2>5. Complete(regs') /\ regs'["eax"] = Number(vector)
    BY <1>2, <2>4 DEF Complete, Registers, General
  <2>6. IsTuple(stack', Length[ip + 1]) /\ Begins(stack', vector, Saved[ip + 1])
    BY <1>4, <2>2, <2>4, Tables
  <2> QED BY <1>3, <1>4, <2>4, <2>5, <2>6, IrqGoesOn DEF devices, pic
<1>5. CASE ip = 10
  <2>1. Instr = PushReg("eax") /\ regs["eax"] = Number(vector)
    BY <1>1, <1>5, IrqStubSteps DEF IrqRuns
  <2>2. IsTuple(stack, 18) /\ Begins(stack, vector, 18) /\ 18 \in Nat /\ 18 \in 0 .. 18
    BY <1>2, <1>5, Tables
  <2>3. /\ stack' = Append(stack, Number(vector))
        /\ ip' = ip + 1 /\ UNCHANGED <<regs, code, vector, devices>>
    BY <1>1, <2>1, PushRegEffect
  <2>4. /\ IsTuple(stack', 18 + 1) /\ Begins(stack', vector, 18)
        /\ Last(stack') = Number(vector)
    BY <2>2, <2>3, PutOn
  <2>5. IsTuple(stack', Length[ip + 1]) /\ Begins(stack', vector, Saved[ip + 1])
    BY <1>5, <2>4, Tables
  <2> QED BY <1>2, <1>3, <1>5, <2>3, <2>4, <2>5, IrqGoesOn DEF devices, pic
<1>6. CASE ip = 11
  <2>1. Instr = <<"irq_handler">> /\ Last(stack) = Number(vector)
    BY <1>1, <1>6, IrqStubSteps DEF IrqRuns
  <2>2. IsTuple(stack, 19) /\ Begins(stack, vector, 18) /\ 19 \in Nat /\ 18 \in 0 .. 19
    BY <1>2, <1>6, Tables
  <2>3. /\ in_service' = Acknowledged(vector, in_service)
        /\ \E a : stack' = Append(Popped(1), a)
        /\ Complete(regs') /\ ip' = ip + 1 /\ UNCHANGED <<code, vector>>
    BY <1>1, <2>1, CallEffect DEF Number
  <2>4. IsTuple(stack', 19) /\ Begins(stack', vector, 18)
    <3>1. IsTuple(Popped(1), 18) /\ Begins(Popped(1), vector, 18)
      <4>1. /\ IsTuple(SubSeq(stack, 1, Len(stack) - 1), 19 - 1)
            /\ Begins(SubSeq(stack, 1, Len(stack) - 1), vector, 18)
        <5>1. 1 \in 0 .. 19 /\ 18 \in 0 .. 19 - 1 /\ 18 <= 18
          OBVIOUS
        <5> QED BY <2>2, <5>1, CutKeeps
      <4> QED BY <4>1 DEF Popped, Depth
    <3>2. PICK a : stack' = Append(Popped(1), a)
      BY <2>3
    <3>3. 18 \in Nat /\ 18 \in 0 .. 18
      OBVIOUS
    <3> HIDE DEF Popped
    <3>4. IsTuple(stack', 18 + 1) /\ Begins(stack', vector, 18)
      BY <3>1, <3>2, <3>3, PutOn
    <3> QED BY <3>4
  <2>5. IsTuple(stack', Length[ip + 1]) /\ Begins(stack', vector, Saved[ip + 1])
    BY <1>6, <2>4, Tables
  <2>6. in_service' = {}
    <3>1. PICK line \in Lines \cup {KeyboardLine} : vector = 32 + line
      BY DEF IrqRuns, VectorOf
    <3>2. line \in 0 .. 15 /\ vector - 32 = line
      BY <3>1, VectorAssumption DEF KeyboardLine
    <3>3. in_service = {line, OnMaster(line)}
      BY <1>6, <3>2 DEF IrqRuns
    <3>4. CASE line < 8
      <4>1. in_service = {line} /\ line \in 0 .. 7 /\ ~ vector >= 40
        BY <3>1, <3>2, <3>3, <3>4 DEF OnMaster
      <4>2. Acknowledged(vector, in_service) = in_service \ (0 .. 7)
        BY <4>1 DEF Acknowledged
      <4> QED BY <2>3, <4>1, <4>2
    <3>5. CASE line >= 8
      BY <2>3, <3>1, <3>2, <3>5 DEF Acknowledged
    <3> QED BY <3>2, <3>4, <3>5
  <2> QED BY <1>3, <1>6, <2>3, <2>5, <2>6, IrqGoesOn
<1>7. CASE ip = 12
  <2>1. Instr = Drop(1)
    BY <1>1, <1>7, IrqStubSteps
  <2>2. IsTuple(stack, 19) /\ Begins(stack, vector, 18) /\ 19 \in Nat /\ 18 \in 0 .. 19
    BY <1>2, <1>7, Tables
  <2>3. stack' = Popped(1) /\ ip' = ip + 1 /\ UNCHANGED <<regs, code, vector, devices>>
    BY <1>1, <2>1, DropEffect
  <2>4. /\ IsTuple(SubSeq(stack, 1, Len(stack) - 1), 19 - 1)
        /\ Begins(SubSeq(stack, 1, Len(stack) - 1), vector, 18)
    <3>1. 1 \in 0 .. 19 /\ 18 \in 0 .. 19 - 1 /\ 18 <= 18
      OBVIOUS
    <3> QED BY <2>2, <3>1, CutKeeps
  <2>5. IsTuple(stack', Length[ip + 1]) /\ Begins(stack', vector, Saved[ip + 1])
    BY <1>7, <2>3, <2>4, Tables DEF Popped, Depth
  <2> QED BY <1>2, <1>3, <1>7, <2>3, <2>5, IrqGoesOn DEF devices, pic
<1> QED BY <1>4, <1>5, <1>6, <1>7

LEMMA SegmentBack ==
  ASSUME NEW r \in Segments, IrqRuns, ip \in 13 .. 16, Instr = PopReg(r), Execute,
         NEW n \in 15 .. 18, Length[ip] = n, Saved[ip] = n,
         Length[ip + 1] = n - 1, Saved[ip + 1] = n - 1, Frame(vector)[n] = MainRegs[r],
         \A f : Complete(f) /\ RestoredBy(ip, f)
                  => RestoredBy(ip + 1, [f EXCEPT ![r] = MainRegs[r]])
  PROVE  IrqRuns'
<1>1. ~ InMain
  BY StubsAreCode DEF IrqRuns, InMain
<1>2. /\ Complete(regs) /\ IsTuple(stack, n) /\ Begins(stack, vector, n)
      /\ RestoredBy(ip, regs)
  BY DEF IrqRuns
<1>3. /\ stack' = Popped(1) /\ regs' = [regs EXCEPT ![r] = Last(stack)]
      /\ ip' = ip + 1 /\ UNCHANGED <<code, vector, devices>>
  BY <1>1, PopRegEffect
<1>4. Last(stack) = MainRegs[r]
  <2>1. n \in Nat /\ n \in 1 .. n
    OBVIOUS
  <2>2. Last(stack) = stack[n]
    BY <1>2, <2>1, TopOf
  <2>3. stack[n] = Frame(vector)[n]
    BY <1>2, <2>1 DEF Begins
  <2> QED BY <2>2, <2>3
<1>5. Complete(regs')
  BY <1>2, <1>3, RegistersAre DEF Complete
<1>6. RestoredBy(ip + 1, regs')
  BY <1>2, <1>3, <1>4
<1>7. /\ IsTuple(SubSeq(stack, 1, Len(stack) - 1), n - 1)
      /\ Begins(SubSeq(stack, 1, Len(stack) - 1), vector, n - 1)
  <2>1. n \in Nat /\ n \in 0 .. n /\ 1 \in 0 .. n /\ n - 1 \in 0 .. n - 1 /\ n - 1 <= n
    OBVIOUS
  <2> QED BY <1>2, <2>1, CutKeeps
<1>8. IsTuple(stack', Length[ip + 1]) /\ Begins(stack', vector, Saved[ip + 1])
  BY <1>3, <1>7 DEF Popped, Depth
<1> QED BY <1>3, <1>5, <1>6, <1>8, IrqGoesOn DEF devices, pic

LEMMA IrqSegments == ASSUME IrqRuns, ip \in 13 .. 16, Execute PROVE IrqRuns'
<1>1. Instr = IrqStub(vector)[ip]
  BY DEF IrqRuns, Instr
<1>2. {"ds", "es", "fs", "gs"} \subseteq Segments
  BY DEF Segments
<1>3. CASE ip = 13
  <2>1. Instr = PopReg("gs")
    BY <1>1, <1>3, IrqStubSteps
  <2>2. /\ Length[ip] = 18 /\ Saved[ip] = 18
        /\ Length[ip + 1] = 18 - 1 /\ Saved[ip + 1] = 18 - 1
    BY <1>3, Tables
  <2>3. \A f : Complete(f) /\ RestoredBy(ip, f)
                  => RestoredBy(ip + 1, [f EXCEPT !["gs"] = MainRegs["gs"]])
    BY <1>2, <1>3, RegistersAre DEF RestoredBy, Complete
  <2> QED BY <1>2, <2>1, <2>2, <2>3, FrameIs, SegmentBack
<1>4. CASE ip = 14
  <2>1. Instr = PopReg("fs")
    BY <1>1, <1>4, IrqStubSteps
  <2>2. /\ Length[ip] = 17 /\ Saved[ip] = 17
        /\ Length[ip + 1] = 17 - 1 /\ Saved[ip + 1] = 17 - 1
    BY <1>4, Tables
  <2>3. \A f : Complete(f) /\ RestoredBy(ip, f)
                  => RestoredBy(ip + 1, [f EXCEPT !["fs"] = MainRegs["fs"]])
    BY <1>2, <1>4, RegistersAre DEF RestoredBy, Complete
  <2> QED BY <1>2, <2>1, <2>2, <2>3, FrameIs, SegmentBack
<1>5. CASE ip = 15
  <2>1. Instr = PopReg("es")
    BY <1>1, <1>5, IrqStubSteps
  <2>2. /\ Length[ip] = 16 /\ Saved[ip] = 16
        /\ Length[ip + 1] = 16 - 1 /\ Saved[ip + 1] = 16 - 1
    BY <1>5, Tables
  <2>3. \A f : Complete(f) /\ RestoredBy(ip, f)
                  => RestoredBy(ip + 1, [f EXCEPT !["es"] = MainRegs["es"]])
    BY <1>2, <1>5, RegistersAre DEF RestoredBy, Complete
  <2> QED BY <1>2, <2>1, <2>2, <2>3, FrameIs, SegmentBack
<1>6. CASE ip = 16
  <2>1. Instr = PopReg("ds")
    BY <1>1, <1>6, IrqStubSteps
  <2>2. /\ Length[ip] = 15 /\ Saved[ip] = 15
        /\ Length[ip + 1] = 15 - 1 /\ Saved[ip + 1] = 15 - 1
    BY <1>6, Tables
  <2>3. \A f : Complete(f) /\ RestoredBy(ip, f)
                  => RestoredBy(ip + 1, [f EXCEPT !["ds"] = MainRegs["ds"]])
    BY <1>2, <1>6, RegistersAre DEF RestoredBy, Complete
  <2> QED BY <1>2, <2>1, <2>2, <2>3, FrameIs, SegmentBack
<1> QED BY <1>3, <1>4, <1>5, <1>6

\* popa takes the registers from where pusha put them, and leaves esp alone.
LEMMA IrqPopa == ASSUME IrqRuns, ip = 17, Execute PROVE IrqRuns'
<1>1. ~ InMain /\ Instr = <<"popa">>
  BY StubsAreCode, IrqStubSteps DEF IrqRuns, InMain, Instr
<1>2. /\ Complete(regs) /\ IsTuple(stack, 14) /\ Begins(stack, vector, 14)
      /\ RestoredBy(17, regs)
  BY Tables DEF IrqRuns
<1>3. /\ stack' = Popped(8)
      /\ regs' = [regs EXCEPT !["edi"] = Peek(0), !["esi"] = Peek(4),
                              !["ebp"] = Peek(8), !["ebx"] = Peek(16),
                              !["edx"] = Peek(20), !["ecx"] = Peek(24),
                              !["eax"] = Peek(28)]
      /\ ip' = ip + 1 /\ UNCHANGED <<code, vector, devices>>
  BY <1>1, PopaEffect
<1>4. /\ Peek(0) = stack[14] /\ Peek(4) = stack[13] /\ Peek(8) = stack[12]
      /\ Peek(16) = stack[10] /\ Peek(20) = stack[9] /\ Peek(24) = stack[8]
      /\ Peek(28) = stack[7]
  <2>1. 14 \in Nat /\ 0 \div 4 = 0 /\ 4 \div 4 = 1 /\ 8 \div 4 = 2 /\ 16 \div 4 = 4
        /\ 20 \div 4 = 5 /\ 24 \div 4 = 6 /\ 28 \div 4 = 7
    OBVIOUS
  <2>2. Len(stack) = 14
    BY <1>2, <2>1, TopOf
  <2> QED BY <2>1, <2>2 DEF Peek, Depth
<1>5. \A k \in 1 .. 14 : stack[k] = Frame(vector)[k]
  BY <1>2 DEF Begins
<1>6. /\ Peek(0) = MainRegs["edi"] /\ Peek(4) = MainRegs["esi"]
      /\ Peek(8) = MainRegs["ebp"] /\ Peek(16) = MainRegs["ebx"]
      /\ Peek(20) = MainRegs["edx"] /\ Peek(24) = MainRegs["ecx"]
      /\ Peek(28) = MainRegs["eax"]
  BY <1>4, <1>5, FrameIs
<1>7. regs' = [regs EXCEPT !["edi"] = MainRegs["edi"], !["esi"] = MainRegs["esi"],
                           !["ebp"] = MainRegs["ebp"], !["ebx"] = MainRegs["ebx"],
                           !["edx"] = MainRegs["edx"], !["ecx"] = MainRegs["ecx"],
                           !["eax"] = MainRegs["eax"]]
  BY <1>3, <1>6
<1>8. Complete(regs')
  BY <1>2, <1>7 DEF Complete
<1>9. RestoredBy(18, regs')
  <2>1. \A r \in General : regs'[r] = MainRegs[r]
    BY <1>2, <1>7 DEF Complete, Registers, General
  <2>2. regs'["gs"] = regs["gs"] /\ regs'["fs"] = regs["fs"] /\ regs'["es"] = regs["es"]
        /\ regs'["ds"] = regs["ds"]
    BY <1>2, <1>7 DEF Complete, Registers, Segments
  <2> QED BY <1>2, <2>1, <2>2 DEF RestoredBy
<1>10. /\ IsTuple(SubSeq(stack, 1, Len(stack) - 8), 14 - 8)
       /\ Begins(SubSeq(stack, 1, Len(stack) - 8), vector, 6)
  <2>1. 14 \in Nat /\ 14 \in 0 .. 14 /\ 8 \in 0 .. 14 /\ 6 \in 0 .. 14 - 8 /\ 6 <= 14
    OBVIOUS
  <2> QED BY <1>2, <2>1, CutKeeps
<1>11. IsTuple(stack', Length[ip + 1]) /\ Begins(stack', vector, Saved[ip + 1])
  BY <1>3, <1>10, Tables DEF Popped, Depth
<1> QED BY <1>3, <1>8, <1>9, <1>11, IrqGoesOn DEF devices, pic

LEMMA IrqDrop == ASSUME IrqRuns, ip = 18, Execute PROVE IrqRuns'
<1>1. ~ InMain /\ Instr = Drop(2)
  BY StubsAreCode, IrqStubSteps DEF IrqRuns, InMain, Instr
<1>2. /\ Complete(regs) /\ IsTuple(stack, 6) /\ Begins(stack, vector, 6)
      /\ RestoredBy(18, regs)
  BY Tables DEF IrqRuns
<1>3. stack' = Popped(2) /\ ip' = ip + 1 /\ UNCHANGED <<regs, code, vector, devices>>
  BY <1>1, DropEffect
<1>4. /\ IsTuple(SubSeq(stack, 1, Len(stack) - 2), 6 - 2)
      /\ Begins(SubSeq(stack, 1, Len(stack) - 2), vector, 4)
  <2>1. 6 \in Nat /\ 6 \in 0 .. 6 /\ 2 \in 0 .. 6 /\ 4 \in 0 .. 6 - 2 /\ 4 <= 6
    OBVIOUS
  <2> QED BY <1>2, <2>1, CutKeeps
<1>5. IsTuple(stack', Length[ip + 1]) /\ Begins(stack', vector, Saved[ip + 1])
  BY <1>3, <1>4, Tables DEF Popped, Depth
<1>6. RestoredBy(ip + 1, regs')
  BY <1>2, <1>3 DEF RestoredBy
<1> QED BY <1>2, <1>3, <1>5, <1>6, IrqGoesOn DEF devices, pic

\* The program that was interrupted, as it was.
Undisturbed == InMain => regs = MainRegs /\ stack = MainStack /\ in_service = {}

LEMMA OnlyOne == ASSUME NEW s, IsTuple(s, 1) PROVE s = << s[1] >>
BY DEF IsTuple

LEMMA IrqReturns == ASSUME IrqRuns, ip = 19, Execute PROVE InMain' /\ Undisturbed'
<1>1. ~ InMain /\ Instr = <<"iret">>
  BY StubsAreCode, IrqStubSteps DEF IrqRuns, InMain, Instr
<1>2. /\ Complete(regs) /\ IsTuple(stack, 4) /\ Begins(stack, vector, 4)
      /\ RestoredBy(19, regs) /\ in_service = {}
  BY Tables DEF IrqRuns
<1>3. /\ code' = <<>> /\ UNCHANGED <<vector, devices>>
      /\ regs' = [regs EXCEPT !["eip"] = Peek(0), !["cs"] = Peek(4), !["eflags"] = Peek(8)]
      /\ stack' = Popped(3)
  BY <1>1, IretEffect
<1>4. 4 \in Nat /\ 0 \div 4 = 0 /\ 4 \div 4 = 1 /\ 8 \div 4 = 2
  OBVIOUS
<1>5. Len(stack) = 4
  BY <1>2, <1>4, TopOf
<1>6. Peek(0) = stack[4] /\ Peek(4) = stack[3] /\ Peek(8) = stack[2]
  BY <1>4, <1>5 DEF Peek, Depth
<1>7. \A k \in 1 .. 4 : stack[k] = Frame(vector)[k]
  BY <1>2 DEF Begins
<1>8. regs' = [regs EXCEPT !["eip"] = MainRegs["eip"], !["cs"] = MainRegs["cs"],
                           !["eflags"] = MainRegs["eflags"]]
  <2>1. Peek(0) = MainRegs["eip"] /\ Peek(4) = MainRegs["cs"] /\ Peek(8) = MainRegs["eflags"]
    BY <1>6, <1>7, FrameIs
  <2> QED BY <1>3, <2>1
<1>9. regs' = MainRegs
  <2>1. \A r \in Registers : regs'[r] = MainRegs[r]
    <3>1. regs'["gs"] = MainRegs["gs"] /\ regs'["fs"] = MainRegs["fs"]
          /\ regs'["es"] = MainRegs["es"] /\ regs'["ds"] = MainRegs["ds"]
      BY <1>2, <1>8 DEF RestoredBy, Complete, Registers, Segments
    <3>2. \A r \in General : regs'[r] = MainRegs[r]
      BY <1>2, <1>8 DEF RestoredBy, Complete, Registers, General
    <3>3. regs'["eip"] = MainRegs["eip"] /\ regs'["cs"] = MainRegs["cs"]
          /\ regs'["eflags"] = MainRegs["eflags"]
      BY <1>2, <1>8 DEF Complete, Registers
    <3> QED BY <3>1, <3>2, <3>3 DEF Registers, Segments
  <2>2. Complete(regs')
    BY <1>2, <1>8 DEF Complete
  <2>3. Complete(MainRegs)
    BY DEF MainRegs, Complete
  <2> QED BY <2>1, <2>2, <2>3 DEF Complete
<1>10. stack' = MainStack
  <2>1. IsTuple(SubSeq(stack, 1, 1), 1) /\ SubSeq(stack, 1, 1)[1] = stack[1]
    BY <1>2 DEF IsTuple
  <2>2. stack' = SubSeq(stack, 1, 1)
    BY <1>3, <1>5 DEF Popped, Depth
  <2>3. stack[1] = <<"main", "top">>
    BY <1>7, FrameIs
  <2> QED BY <2>1, <2>2, <2>3, OnlyOne DEF MainStack
<1> QED BY <1>2, <1>3, <1>9, <1>10 DEF Undisturbed, InMain, devices, pic

\* All nineteen instructions.
LEMMA IrqStep == ASSUME IrqRuns, Execute PROVE IrqRuns' \/ (InMain' /\ Undisturbed')
<1>1. \/ ip \in 1 .. 8 \/ ip \in 9 .. 12 \/ ip \in 13 .. 16
      \/ ip = 17 \/ ip = 18 \/ ip = 19
  BY DEF IrqRuns
<1> QED BY <1>1, IrqOpening, IrqCall, IrqSegments, IrqPopa, IrqDrop, IrqReturns

-----------------------------------------------------------------------------
(* Exceptions.                                                             *)

\* Where isr_handler() is called, which never returns.
CallAt(v) == IF v \in ExpectsErrorCode THEN 18 ELSE 19

IsrRuns ==
  /\ vector \in Exceptions /\ code = IsrStub(vector) /\ ip \in 1 .. CallAt(vector)
  /\ in_service = {}

\* None of these instructions is iret, and none calls irq_handler().
LEMMA IsrInstructions ==
  ASSUME NEW v, NEW k \in 1 .. CallAt(v)
  PROVE  /\ IsrStub(v)[k][1] \notin {"irq_handler", "iret"}
         /\ k = CallAt(v) => IsrStub(v)[k] = <<"isr_handler">>
<1>1. CASE v \in ExpectsErrorCode
  <2> DEFINE s == IsrStub(v)
  <2>1. /\ s[1] = Push(v) /\ s[2] = <<"pusha">>
        /\ s[3] = PushReg("ds") /\ s[4] = PushReg("es")
        /\ s[5] = PushReg("fs") /\ s[6] = PushReg("gs") /\ s[7] = <<"kernel_segments">>
        /\ s[8] = LoadEax(52) /\ s[9] = PushReg("eax")
        /\ s[10] = LoadEax(56) /\ s[11] = PushReg("eax")
        /\ s[12] = LoadEax(36) /\ s[13] = PushReg("eax")
        /\ s[14] = LoadEax(44) /\ s[15] = PushReg("eax")
        /\ s[16] = LoadEax(40) /\ s[17] = PushReg("eax") /\ s[18] = <<"isr_handler">>
    BY <1>1, ShortIsrStub
  <2>2. k \in 1 .. 18 /\ CallAt(v) = 18
    BY <1>1 DEF CallAt
  <2> HIDE DEF s
  <2>3. k \in {1, 2, 3, 4, 5, 6, 7, 8, 9, 10, 11, 12, 13, 14, 15, 16, 17, 18}
    BY <2>2
  <2>4. s[k][1] \notin {"irq_handler", "iret"}
    BY <2>1, <2>3 DEF Push, PushReg, LoadEax
  <2> QED BY <2>1, <2>2, <2>4 DEF s
<1>2. CASE v \notin ExpectsErrorCode
  <2> DEFINE s == IsrStub(v)
  <2>1. /\ s[1] = Push(0) /\ s[2] = Push(v) /\ s[3] = <<"pusha">>
        /\ s[4] = PushReg("ds") /\ s[5] = PushReg("es")
        /\ s[6] = PushReg("fs") /\ s[7] = PushReg("gs") /\ s[8] = <<"kernel_segments">>
        /\ s[9] = LoadEax(52) /\ s[10] = PushReg("eax")
        /\ s[11] = LoadEax(56) /\ s[12] = PushReg("eax")
        /\ s[13] = LoadEax(36) /\ s[14] = PushReg("eax")
        /\ s[15] = LoadEax(44) /\ s[16] = PushReg("eax")
        /\ s[17] = LoadEax(40) /\ s[18] = PushReg("eax") /\ s[19] = <<"isr_handler">>
    BY <1>2, LongIsrStub
  <2>2. k \in 1 .. 19 /\ CallAt(v) = 19
    BY <1>2 DEF CallAt
  <2> HIDE DEF s
  <2>3. k \in {1, 2, 3, 4, 5, 6, 7, 8, 9, 10, 11, 12, 13, 14, 15, 16, 17, 18, 19}
    BY <2>2
  <2>4. s[k][1] \notin {"irq_handler", "iret"}
    BY <2>1, <2>3 DEF Push, PushReg, LoadEax
  <2> QED BY <2>1, <2>2, <2>4 DEF s
<1> QED BY <1>1, <1>2

LEMMA IsrStep == ASSUME IsrRuns, Execute PROVE IsrRuns'
<1>1. ~ InMain /\ Instr = IsrStub(vector)[ip] /\ ip \in 1 .. CallAt(vector)
  BY StubsAreCode DEF IsrRuns, InMain, Instr
<1>2. Instr[1] # "irq_handler" /\ Instr[1] # "iret"
  BY <1>1, IsrInstructions
<1>3. ip # CallAt(vector)
  BY <1>1, IsrInstructions, NoReturn
<1>4. ip' = ip + 1 /\ UNCHANGED <<code, vector, devices>>
  BY <1>2 DEF Execute, PushInstr, PopInstr, LoadInstr, Iret, CallIrqHandler, Is, Step
<1>5. ip + 1 \in 1 .. CallAt(vector)
  BY <1>1, <1>3 DEF CallAt
<1> QED BY <1>4, <1>5 DEF IsrRuns, devices, pic

-----------------------------------------------------------------------------
(* A stub runs from the delivery of its vector on, and nothing else does.  *)

StubsInOrder == Undisturbed /\ (~ InMain => IrqRuns \/ IsrRuns)

LEMMA IrqEnters ==
  ASSUME StubsInOrder, NEW line \in Lines \cup {KeyboardLine}, Deliver(line)
  PROVE  IrqRuns'
<1> DEFINE v == VectorOf(line)
<1>1. /\ regs = MainRegs /\ stack = MainStack /\ in_service = {} /\ line \in 0 .. 15
      /\ Enter(v, <<>>) /\ in_service' = in_service \cup {line, OnMaster(line)}
  BY VectorAssumption DEF StubsInOrder, Undisturbed, Deliver, KeyboardLine
<1>2. v = 32 + line /\ v >= 32
  BY <1>1 DEF VectorOf
<1>3. code' = IrqStub(v) /\ ip' = 1 /\ vector' = v /\ UNCHANGED regs
  BY <1>1, <1>2 DEF Enter, Gate
<1>4. stack' = << <<"main", "top">> >>
                 \o << MainRegs["eflags"], MainRegs["cs"], MainRegs["eip"] >> \o <<>>
  BY <1>1 DEF Enter, MainStack
<1>5. /\ IsTuple(stack', 4) /\ stack'[1] = <<"main", "top">>
      /\ stack'[2] = MainRegs["eflags"] /\ stack'[3] = MainRegs["cs"]
      /\ stack'[4] = MainRegs["eip"]
  BY <1>4 DEF IsTuple
<1>6. Begins(stack', v, 4)
  <2>1. \A k \in 1 .. 4 : k \in {1, 2, 3, 4}
    OBVIOUS
  <2> QED BY <1>5, <2>1, FrameIs DEF Begins
<1>7. Complete(regs')
  BY <1>1, <1>3 DEF MainRegs, Complete
<1>8. in_service' = {v - 32, OnMaster(v - 32)}
  BY <1>1, <1>2
<1> HIDE DEF v
<1>9. v \in {VectorOf(l) : l \in Lines \cup {KeyboardLine}}
  BY DEF v
<1>10. IsTuple(stack', Length[ip']) /\ Begins(stack', vector', Saved[ip'])
  BY <1>3, <1>5, <1>6, Tables
<1>11. RestoredBy(ip', regs')
  BY <1>3 DEF RestoredBy
<1> QED BY <1>1, <1>3, <1>7, <1>8, <1>9, <1>10, <1>11 DEF IrqRuns

LEMMA IsrEnters == ASSUME StubsInOrder, NEW e \in Exceptions, Raise(e) PROVE IsrRuns'
<1>1. in_service' = {} /\ e < 32
  BY VectorAssumption DEF StubsInOrder, Undisturbed, Raise, devices, pic
<1>2. code' = IsrStub(e) /\ ip' = 1 /\ vector' = e
  BY <1>1 DEF Raise, Enter, Gate
<1>3. 1 \in 1 .. CallAt(e)
  BY DEF CallAt
<1> QED BY <1>1, <1>2, <1>3 DEF IsrRuns

LEMMA StubsStep == StubsInOrder /\ [Next]_vars => StubsInOrder'
<1> SUFFICES ASSUME StubsInOrder, [Next]_vars PROVE StubsInOrder'
  OBVIOUS
<1>0. /\ IrqRuns' => StubsInOrder'
      /\ IsrRuns' => StubsInOrder'
  BY StubsAreCode DEF StubsInOrder, Undisturbed, InMain, IrqRuns, IsrRuns
<1>1. CASE UNCHANGED <<regs, stack, code, ip, vector, in_service>>
  BY <1>1 DEF StubsInOrder, Undisturbed, InMain, IrqRuns, IsrRuns
<1>2. CASE PicStart
  BY <1>2 DEF PicStart, Reaches, cpu, StubsInOrder, Undisturbed, InMain
<1>3. CASE Execute
  <2>1. ~ InMain
    BY <1>3 DEF Execute, PushInstr, PopInstr, LoadInstr, Iret, CallIrqHandler, Is
  <2>2. CASE IrqRuns
    BY <1>0, <1>3, <2>2, IrqStep DEF StubsInOrder
  <2>3. CASE IsrRuns
    BY <1>0, <1>3, <2>3, IsrStep
  <2> QED BY <2>1, <2>2, <2>3 DEF StubsInOrder
<1>4. ASSUME NEW e \in Exceptions, Raise(e) PROVE StubsInOrder'
  BY <1>0, <1>4, IsrEnters
<1>5. ASSUME NEW line \in Lines \cup {KeyboardLine}, Interrupt(line) PROVE StubsInOrder'
  BY <1>0, <1>5, IrqEnters DEF Interrupt
<1>6. CASE Press \/ (\E line \in Lines : Request(line)) \/ (\E line \in Drivers : OpenLine(line))
           \/ UNCHANGED vars
  BY <1>1, <1>6 DEF Press, Request, OpenLine, vars, cpu, devices, pic
<1>7. CASE BootStep /\ ~ PicStart
  BY <1>1, <1>7 DEF BootStep, GdtInstall, PicMask, KeyboardInit, InitPart, Reaches, cpu, devices, pic
<1> QED BY <1>2, <1>3, <1>4, <1>5, <1>6, <1>7 DEF Next, Happens

LEMMA StubsInvariant == Spec => []StubsInOrder
<1>1. Init => StubsInOrder
  BY DEF Init, StubsInOrder, Undisturbed, InMain
<1> QED BY <1>1, StubsStep, PTL DEF Spec

\* An interrupt is invisible: the stub gives back every register, and the stack,
\* whatever irq_handler() did to the registers and the argument it may overwrite.
THEOREM InterruptsAreInvisible == Spec => []Transparent
<1>1. StubsInOrder => Transparent
  BY DEF StubsInOrder, Undisturbed, Transparent
<1> QED BY <1>1, StubsInvariant, PTL

\* irq_handler() is told which line was delivered.
THEOREM HandlerKnowsItsLine == Spec => []ToldTheLine
<1>1. StubsInOrder => ToldTheLine
  <2> SUFFICES ASSUME StubsInOrder, Is("irq_handler") PROVE Last(stack) = Number(vector)
    BY DEF ToldTheLine
  <2>1. ~ InMain /\ Instr[1] = "irq_handler"
    BY DEF Is
  <2>2. ~ IsrRuns
    BY <2>1, IsrInstructions DEF IsrRuns, Instr
  <2>3. IrqRuns
    BY <2>1, <2>2 DEF StubsInOrder
  <2>4. ip = 11
    <3> DEFINE s == IrqStub(vector)
    <3>1. Instr = s[ip] /\ ip \in 1 .. 19
      BY <2>3 DEF IrqRuns, Instr
    <3>2. /\ s[1][1] = "push" /\ s[2][1] = "push" /\ s[3][1] = "pusha"
          /\ s[4][1] = "push_register" /\ s[5][1] = "push_register"
          /\ s[6][1] = "push_register" /\ s[7][1] = "push_register"
          /\ s[8][1] = "kernel_segments" /\ s[9][1] = "load_eax"
          /\ s[10][1] = "push_register" /\ s[12][1] = "drop"
          /\ s[13][1] = "pop_register" /\ s[14][1] = "pop_register"
          /\ s[15][1] = "pop_register" /\ s[16][1] = "pop_register"
          /\ s[17][1] = "popa" /\ s[18][1] = "drop" /\ s[19][1] = "iret"
      BY IrqStubSteps DEF Push, PushReg, LoadEax, Drop, PopReg
    <3> HIDE DEF s
    <3>3. ip \in {1, 2, 3, 4, 5, 6, 7, 8, 9, 10, 11, 12, 13, 14, 15, 16, 17, 18, 19}
      BY <3>1
    <3> QED BY <2>1, <3>1, <3>2, <3>3
  <2> QED BY <2>3, <2>4 DEF IrqRuns
<1> QED BY <1>1, StubsInvariant, PTL

\* Back in the program no line is left in service, at either controller.
THEOREM LinesAreAcknowledged == Spec => []NoLineBlocked
<1>1. StubsInOrder => NoLineBlocked
  BY DEF StubsInOrder, Undisturbed, NoLineBlocked
<1> QED BY <1>1, StubsInvariant, PTL

-----------------------------------------------------------------------------
(* What isr_handler() finds on the stack.                                  *)

\* The stubs that the CPU spares the first instruction are one position ahead.
Position == ip + 19 - CallAt(vector)

IsrBody(v) ==
  << Push(0), Push(v), <<"pusha">>, PushReg("ds"), PushReg("es"), PushReg("fs"),
     PushReg("gs"), <<"kernel_segments">>,
     LoadEax(52), PushReg("eax"), LoadEax(56), PushReg("eax"), LoadEax(36), PushReg("eax"),
     LoadEax(44), PushReg("eax"), LoadEax(40), PushReg("eax"), <<"isr_handler">> >>

IsrLength == << 4, 5, 6, 14, 15, 16, 17, 18, 18, 18, 19, 19, 20, 20, 21, 21, 22, 22, 23 >>
IsrSaved(p) == IF p <= 8 THEN Saved[p] ELSE 18

IsrHas ==
  /\ IsTuple(stack, IsrLength[Position]) /\ Begins(stack, vector, IsrSaved(Position))
  /\ Position <= 8 => regs = MainRegs

LEMMA PositionOf == ASSUME IsrRuns PROVE Position \in 1 .. 19 /\ Instr = IsrBody(vector)[Position]
<1>1. CASE vector \in ExpectsErrorCode
  <2>1. ip \in 1 .. 18 /\ Position = ip + 1 /\ Instr = IsrStub(vector)[ip]
    BY <1>1 DEF IsrRuns, CallAt, Position, Instr
  <2>2. ip \in {1, 2, 3, 4, 5, 6, 7, 8, 9, 10, 11, 12, 13, 14, 15, 16, 17, 18}
    BY <2>1
  <2>3. IsrStub(vector)[ip] = IsrBody(vector)[ip + 1]
    BY <1>1, <2>2, ShortIsrStub DEF IsrBody
  <2> QED BY <2>1, <2>3
<1>2. CASE vector \notin ExpectsErrorCode
  <2>1. ip \in 1 .. 19 /\ Position = ip /\ Instr = IsrStub(vector)[ip]
    BY <1>2 DEF IsrRuns, CallAt, Position, Instr
  <2>2. ip \in {1, 2, 3, 4, 5, 6, 7, 8, 9, 10, 11, 12, 13, 14, 15, 16, 17, 18, 19}
    BY <2>1
  <2>3. IsrStub(vector)[ip] = IsrBody(vector)[ip]
    BY <1>2, <2>2, LongIsrStub DEF IsrBody
  <2> QED BY <2>1, <2>3
<1> QED BY <1>1, <1>2

\* Exceptions with an error code that the stubs do not count on: a misaligned access
\* (only outside ring 0), a shadow stack's fault and two of virtual machines (features
\* that are off).  They do not strike.
ErrorCodesExpected == Exceptions \cap WithErrorCode \subseteq ExpectsErrorCode

LEMMA IsrHasStep ==
  ASSUME ErrorCodesExpected, IsrRuns, IsrHas, Execute
  PROVE  IsrHas'
<1> DEFINE p == Position
<1>1. /\ ~ InMain /\ p \in 1 .. 19 /\ Instr = IsrBody(vector)[p]
      /\ IsTuple(stack, IsrLength[p]) /\ Begins(stack, vector, IsrSaved(p))
  BY PositionOf, StubsAreCode DEF IsrRuns, InMain, IsrHas
<1>2. SUFFICES /\ IsTuple(stack', IsrLength[p + 1]) /\ Begins(stack', vector, IsrSaved(p + 1))
               /\ p + 1 <= 8 => regs' = MainRegs
               /\ ip' = ip + 1 /\ UNCHANGED <<code, vector>>
  <2>1. ASSUME ip' = ip + 1, vector' = vector PROVE Position' = p + 1
    BY <2>1 DEF Position, IsrRuns, CallAt
  <2> HIDE DEF p
  <2> QED BY <2>1 DEF IsrHas
<1>3. CASE p \in 1 .. 8
  <2>1. \A k \in 1 .. 8 : k \in {1, 2, 3, 4, 5, 6, 7, 8}
    OBVIOUS
  <2>2. \A k \in 1 .. 8 : IsrBody(vector)[k] = Opening(vector)[k]
    BY <2>1 DEF IsrBody, Opening
  <2>3. \A k \in 1 .. 9 : IsrLength[k] = Saved[k] /\ IsrSaved(k) = Saved[k]
    <3>1. \A k \in 1 .. 9 : k \in {1, 2, 3, 4, 5, 6, 7, 8, 9}
      OBVIOUS
    <3>2. \A k \in 1 .. 9 : IsrLength[k] = Saved[k]
      BY <3>1 DEF IsrLength, Saved
    <3>3. \A k \in 1 .. 9 : IsrSaved(k) = Saved[k]
      BY <3>1, Tables DEF IsrSaved
    <3> QED BY <3>2, <3>3
  <2>4. p = 1 => vector \notin WithErrorCode
    BY DEF IsrRuns, CallAt, Position, ErrorCodesExpected
  <2> HIDE DEF p
  <2>5. regs = MainRegs
    BY <1>3 DEF p, IsrHas
  <2>6. Instr = Opening(vector)[p] /\ Holds(stack, vector, Saved[p])
    BY <1>1, <1>3, <2>2, <2>3 DEF Holds
  <2>7. /\ Holds(stack', vector, Saved[p + 1]) /\ (p < 8 => regs' = MainRegs)
        /\ ip' = ip + 1 /\ UNCHANGED <<code, vector, devices>>
    BY <1>1, <1>3, <2>4, <2>5, <2>6, OpeningStep
  <2>8. IsrLength[p + 1] = Saved[p + 1] /\ IsrSaved(p + 1) = Saved[p + 1]
    <3>1. p + 1 \in 1 .. 9
      BY <1>3
    <3> QED BY <2>3, <3>1
  <2> QED BY <1>3, <2>7, <2>8 DEF Holds
<1>4. (IsrSaved(p + 1) = 18 /\ (p > 8 => IsrSaved(p) = 18)) \/ p < 8
  BY <1>1 DEF IsrSaved
<1>5. CASE p \in {9, 11, 13, 15, 17}
  <2>1. PICK o : Instr = LoadEax(o)
    BY <1>1, <1>5 DEF IsrBody
  <2>2. ip' = ip + 1 /\ UNCHANGED <<stack, code, vector>>
    BY <1>1, <2>1, LoadEffect
  <2>3. IsrLength[p + 1] = IsrLength[p]
    BY <1>5 DEF IsrLength
  <2> HIDE DEF p
  <2> QED BY <1>1, <1>4, <1>5, <2>2, <2>3
<1>6. CASE p \in {10, 12, 14, 16, 18}
  <2>1. Instr = PushReg("eax")
    BY <1>1, <1>6 DEF IsrBody
  <2>2. stack' = Append(stack, regs["eax"]) /\ ip' = ip + 1 /\ UNCHANGED <<code, vector>>
    BY <1>1, <2>1, PushRegEffect
  <2>3. IsrLength[p + 1] = IsrLength[p] + 1 /\ IsrLength[p] \in Nat /\ IsrLength[p] >= 18
    BY <1>6 DEF IsrLength
  <2> HIDE DEF p
  <2>4. 18 \in 0 .. IsrLength[p] /\ IsrSaved(p) = 18
    BY <1>4, <1>6, <2>3
  <2>5. IsTuple(stack', IsrLength[p] + 1) /\ Begins(stack', vector, 18)
    BY <1>1, <2>2, <2>3, <2>4, PutOn
  <2> QED BY <1>4, <1>6, <2>2, <2>3, <2>5
<1>7. CASE p = 19
  BY <1>1, <1>7, NoReturn DEF IsrBody
<1>8. p \in 1 .. 8 \/ p \in {9, 11, 13, 15, 17} \/ p \in {10, 12, 14, 16, 18} \/ p = 19
  BY <1>1
<1> HIDE DEF p
<1> QED BY <1>3, <1>5, <1>6, <1>7, <1>8

LEMMA IsrHasEnters ==
  ASSUME ErrorCodesExpected, StubsInOrder, NEW e \in Exceptions, Raise(e)
  PROVE  IsrHas'
<1>1. regs = MainRegs /\ stack = MainStack /\ e < 32
  BY VectorAssumption DEF StubsInOrder, Undisturbed, Raise
<1>2. ip' = 1 /\ vector' = e /\ regs' = MainRegs
  BY <1>1 DEF Raise, Enter
<1>3. CASE e \in ExpectsErrorCode
  <2>1. e \in WithErrorCode /\ Position' = 2
    BY <1>2, <1>3 DEF ExpectsErrorCode, WithErrorCode, Position, CallAt
  <2>2. stack' = << <<"main", "top">> >>
                   \o << MainRegs["eflags"], MainRegs["cs"], MainRegs["eip"] >>
                   \o << <<"error_code">> >>
    BY <1>1, <2>1 DEF Raise, Enter, MainStack
  <2>3. /\ IsTuple(stack', 5) /\ stack'[1] = <<"main", "top">>
        /\ stack'[2] = MainRegs["eflags"] /\ stack'[3] = MainRegs["cs"]
        /\ stack'[4] = MainRegs["eip"] /\ stack'[5] = <<"error_code">>
    BY <2>2 DEF IsTuple
  <2>4. \A k \in 1 .. 5 : k \in {1, 2, 3, 4, 5}
    OBVIOUS
  <2>5. Begins(stack', e, 5)
    BY <2>1, <2>3, <2>4, FrameIs DEF Begins
  <2>6. IsrLength[2] = 5 /\ IsrSaved(2) = 5
    BY Tables DEF IsrLength, IsrSaved
  <2> QED BY <1>2, <2>1, <2>3, <2>5, <2>6 DEF IsrHas
<1>4. CASE e \notin ExpectsErrorCode
  <2>1. e \notin WithErrorCode /\ Position' = 1
    BY <1>2, <1>4 DEF ErrorCodesExpected, Position, CallAt
  <2>2. stack' = << <<"main", "top">> >>
                   \o << MainRegs["eflags"], MainRegs["cs"], MainRegs["eip"] >> \o <<>>
    BY <1>1, <2>1 DEF Raise, Enter, MainStack
  <2>3. /\ IsTuple(stack', 4) /\ stack'[1] = <<"main", "top">>
        /\ stack'[2] = MainRegs["eflags"] /\ stack'[3] = MainRegs["cs"]
        /\ stack'[4] = MainRegs["eip"]
    BY <2>2 DEF IsTuple
  <2>4. \A k \in 1 .. 4 : k \in {1, 2, 3, 4}
    OBVIOUS
  <2>5. Begins(stack', e, 4)
    BY <2>3, <2>4, FrameIs DEF Begins
  <2>6. IsrLength[1] = 4 /\ IsrSaved(1) = 4
    BY Tables DEF IsrLength, IsrSaved
  <2> QED BY <1>2, <2>1, <2>3, <2>5, <2>6 DEF IsrHas
<1> QED BY <1>3, <1>4

Framed == StubsInOrder /\ (~ InMain /\ IsrRuns => IsrHas)

LEMMA FramedStep ==
  ASSUME ErrorCodesExpected PROVE Framed /\ [Next]_vars => Framed'
<1> SUFFICES ASSUME Framed, [Next]_vars PROVE Framed'
  OBVIOUS
<1>0. StubsInOrder /\ StubsInOrder'
  BY StubsStep DEF Framed
<1>1. CASE UNCHANGED cpu
  <2> SUFFICES ASSUME ~ InMain', IsrRuns' PROVE IsrHas'
    BY <1>0 DEF Framed
  <2>1. UNCHANGED <<regs, stack, code, ip, vector>> /\ ~ InMain
    BY <1>1 DEF cpu, InMain
  <2>2. vector \in Exceptions
    BY <2>1 DEF IsrRuns
  <2>3. IsrRuns
    BY <1>0, <2>1, <2>2, VectorAssumption DEF StubsInOrder, IrqRuns, VectorOf, KeyboardLine
  <2>4. IsrHas
    BY <2>1, <2>3 DEF Framed
  <2> QED BY <2>1, <2>4 DEF IsrHas, Position
<1>2. CASE Execute
  <2>1. ~ InMain
    BY <1>2 DEF Execute, PushInstr, PopInstr, LoadInstr, Iret, CallIrqHandler, Is
  <2>2. CASE IrqRuns
    <3>1. InMain' \/ IrqRuns'
      BY <1>2, <2>2, IrqStep
    <3>2. IrqRuns' => ~ IsrRuns'
      BY VectorAssumption DEF IrqRuns, IsrRuns, VectorOf, KeyboardLine
    <3> QED BY <1>0, <3>1, <3>2 DEF Framed
  <2>3. CASE IsrRuns
    BY <1>0, <1>2, <2>1, <2>3, IsrHasStep DEF Framed
  <2> QED BY <1>0, <2>1, <2>2, <2>3 DEF StubsInOrder
<1>3. ASSUME NEW e \in Exceptions, Raise(e) PROVE Framed'
  BY <1>0, <1>3, IsrHasEnters DEF Framed
<1>4. ASSUME NEW line \in Lines \cup {KeyboardLine}, Interrupt(line) PROVE Framed'
  <2>1. IrqRuns'
    BY <1>0, <1>4, IrqEnters DEF Interrupt
  <2>2. IrqRuns' => ~ IsrRuns'
    BY VectorAssumption DEF IrqRuns, IsrRuns, VectorOf, KeyboardLine
  <2> QED BY <1>0, <2>1, <2>2 DEF Framed
<1>5. CASE Press \/ (\E line \in Lines : Request(line)) \/ (\E line \in Drivers : OpenLine(line))
           \/ BootStep \/ UNCHANGED vars
  BY <1>1, <1>5 DEF Press, Request, OpenLine, vars, BootStep, GdtInstall, PicStart, PicMask,
                    KeyboardInit, InitPart, Reaches
<1> QED BY <1>2, <1>3, <1>4, <1>5 DEF Next, Happens

\* Whether or not the CPU pushes an error code, isr_handler() is called over the same
\* frame: the exception's number, its error code or 0, and what iret would need.
THEOREM FramesAreAlike == ErrorCodesExpected => (Spec => []SameFrame)
<1> SUFFICES ASSUME ErrorCodesExpected PROVE Spec => []SameFrame
  OBVIOUS
<1>1. Init => Framed
  BY DEF Init, Framed, StubsInOrder, Undisturbed, InMain
<1>2. Framed /\ [Next]_vars => Framed'
  BY FramedStep
<1>3. Framed => SameFrame
  <2> SUFFICES ASSUME Framed, Is("isr_handler") PROVE SameFrame
    BY DEF SameFrame
  <2>1. ~ InMain /\ Instr[1] = "isr_handler"
    BY DEF Is
  <2>2. ~ IrqRuns
    <3> SUFFICES ASSUME IrqRuns PROVE FALSE
      OBVIOUS
    <3> DEFINE s == IrqStub(vector)
    <3>1. Instr = s[ip] /\ ip \in 1 .. 19
      BY DEF IrqRuns, Instr
    <3>2. /\ s[1][1] = "push" /\ s[2][1] = "push" /\ s[3][1] = "pusha"
          /\ s[4][1] = "push_register" /\ s[5][1] = "push_register"
          /\ s[6][1] = "push_register" /\ s[7][1] = "push_register"
          /\ s[8][1] = "kernel_segments" /\ s[9][1] = "load_eax"
          /\ s[10][1] = "push_register" /\ s[11][1] = "irq_handler" /\ s[12][1] = "drop"
          /\ s[13][1] = "pop_register" /\ s[14][1] = "pop_register"
          /\ s[15][1] = "pop_register" /\ s[16][1] = "pop_register"
          /\ s[17][1] = "popa" /\ s[18][1] = "drop" /\ s[19][1] = "iret"
      BY IrqStubSteps DEF Push, PushReg, LoadEax, Drop, PopReg
    <3> HIDE DEF s
    <3>3. ip \in {1, 2, 3, 4, 5, 6, 7, 8, 9, 10, 11, 12, 13, 14, 15, 16, 17, 18, 19}
      BY <3>1
    <3> QED BY <2>1, <3>1, <3>2, <3>3
  <2>3. IsrRuns /\ IsrHas
    BY <2>1, <2>2 DEF Framed, StubsInOrder
  <2>4. Position = 19
    <3> DEFINE p == Position
               s == IsrBody(vector)
    <3>1. p \in 1 .. 19 /\ Instr = s[p]
      BY <2>3, PositionOf
    <3>2. /\ s[1][1] = "push" /\ s[2][1] = "push" /\ s[3][1] = "pusha"
          /\ s[4][1] = "push_register" /\ s[5][1] = "push_register"
          /\ s[6][1] = "push_register" /\ s[7][1] = "push_register"
          /\ s[8][1] = "kernel_segments" /\ s[9][1] = "load_eax"
          /\ s[10][1] = "push_register" /\ s[11][1] = "load_eax"
          /\ s[12][1] = "push_register" /\ s[13][1] = "load_eax"
          /\ s[14][1] = "push_register" /\ s[15][1] = "load_eax"
          /\ s[16][1] = "push_register" /\ s[17][1] = "load_eax"
          /\ s[18][1] = "push_register"
      BY DEF IsrBody, Push, PushReg, LoadEax
    <3> HIDE DEF p, s
    <3>3. p \in {1, 2, 3, 4, 5, 6, 7, 8, 9, 10, 11, 12, 13, 14, 15, 16, 17, 18, 19}
      BY <3>1
    <3>4. p = 19
      BY <2>1, <3>1, <3>2, <3>3
    <3> QED BY <3>4 DEF p
  <2>5. IsrLength[19] = 23 /\ IsrSaved(19) = 18 /\ 23 \in Nat
    BY DEF IsrLength, IsrSaved
  <2>6. IsTuple(stack, 23) /\ Begins(stack, vector, 18)
    BY <2>3, <2>4, <2>5 DEF IsrHas
  <2>7. Depth = 23
    <3>1. Len(stack) = 23
      BY <2>5, <2>6, TopOf
    <3> QED BY <3>1 DEF Depth
  <2>8. /\ Peek(4 * (5 + 12 + 0)) = stack[6] /\ Peek(4 * (5 + 12 + 1)) = stack[5]
        /\ Peek(4 * (5 + 12 + 2)) = stack[4] /\ Peek(4 * (5 + 12 + 4)) = stack[2]
    BY <2>7 DEF Peek
  <2>9. \A k \in 1 .. 18 : stack[k] = Frame(vector)[k]
    BY <2>6 DEF Begins
  <2>10. /\ stack[6] = Number(vector)
         /\ stack[5] = IF vector \in WithErrorCode THEN <<"error_code">> ELSE Number(0)
         /\ stack[4] = MainRegs["eip"] /\ stack[2] = MainRegs["eflags"]
    BY <2>9, FrameIs
  <2> QED BY <2>8, <2>10 DEF SameFrame
<1> QED BY <1>1, <1>2, <1>3, PTL DEF Spec

=============================================================================

--------------------------- MODULE InterruptEntry ---------------------------
(***************************************************************************)
(* How the CPU gets into and out of a C handler: the interrupt controller  *)
(* and the CPU deliver a vector, the gate idt_install() set up for it runs *)
(* one of the stubs of cpu.asm, the stub saves the registers on the stack  *)
(* and calls irq_handler() or isr_handler(), and iret goes back.           *)
(*                                                                         *)
(* A stub is a sequence of instructions that work on a stack of dwords, so *)
(* an offset in bytes from esp is four times a position below the top.     *)
(***************************************************************************)
EXTENDS Integers, Sequences, SequencesExt

CONSTANTS Lines,       \* interrupt lines of other devices than the keyboard
          Exceptions,  \* exceptions that may strike, of 0 .. 31
          MaxWaiting   \* bound: bytes of the keyboard that wait to be read

ASSUME VectorAssumption ==
  /\ Lines \subseteq 0 .. 15 \ {1} /\ Exceptions \subseteq 0 .. 31
  /\ MaxWaiting \in Nat \ {0}

General == {"eax", "ecx", "edx", "ebx", "ebp", "esi", "edi"}
Segments == {"ds", "es", "fs", "gs"}
Registers == General \cup Segments \cup {"eip", "cs", "eflags"}

VARIABLES
  regs, stack,   \* the CPU; esp is the length of the stack
  code, ip,      \* the stub that runs and the next instruction in it
  vector,        \* the vector delivered last
  open,          \* lines that the controllers' masks let through
  requested,     \* lines whose edge the interrupt controllers hold
  in_service,    \* lines delivered and not yet acknowledged
  waiting        \* bytes in the keyboard, the first one at port 0x60

cpu == <<regs, stack, code, ip, vector>>
pic == <<open, requested, in_service>>
devices == <<pic, waiting>>

-----------------------------------------------------------------------------
(* The stubs.                                                              *)

\* Exceptions for which the CPU pushes an error code, and those whose stub
\* expects one.
WithErrorCode == {8, 10, 11, 12, 13, 14, 17, 21, 29, 30}

\* mutant: the page fault's stub does not count on its error code.
ExpectsSomeErrorCodes == {8, 10, 11, 12, 13}
ExpectsErrorCode == {8, 10, 11, 12, 13, 14}

Number(v) == <<"number", v>>
Push(v) == <<"push", Number(v)>>
PushReg(r) == <<"push_register", r>>
PopReg(r) == <<"pop_register", r>>
LoadEax(offset) == <<"load_eax", offset>>
Drop(n) == <<"drop", n>>

Save ==
  << <<"pusha">>, PushReg("ds"), PushReg("es"), PushReg("fs"), PushReg("gs"),
     <<"kernel_segments">> >>

\* mutant: the segment registers come back in the order they were pushed.
RestoreSwapped ==
  << PopReg("ds"), PopReg("es"), PopReg("fs"), PopReg("gs"),
     <<"popa">>, Drop(2), <<"iret">> >>

Restore ==
  << PopReg("gs"), PopReg("fs"), PopReg("es"), PopReg("ds"),
     <<"popa">>, Drop(2), <<"iret">> >>

\* mutant: the argument is read where the comment on the other stub has it.
IrqStubAsCommented(v) ==
  << Push(0), Push(v) >> \o Save
  \o << LoadEax(52), PushReg("eax"), <<"irq_handler">>, Drop(1) >>
  \o Restore

IrqStub(v) ==
  << Push(0), Push(v) >> \o Save
  \o << LoadEax(48), PushReg("eax"), <<"irq_handler">>, Drop(1) >>
  \o Restore

IsrStub(v) ==
  (IF v \in ExpectsErrorCode THEN << Push(v) >> ELSE << Push(0), Push(v) >>) \o Save
  \o << LoadEax(52), PushReg("eax"), LoadEax(56), PushReg("eax"),
        LoadEax(36), PushReg("eax"), LoadEax(44), PushReg("eax"),
        LoadEax(40), PushReg("eax"), <<"isr_handler">>, Drop(5) >>
  \o Restore

\* idt_install() and pic_remap(): the lines are vectors 32 to 47.
Gate(v) == IF v < 32 THEN IsrStub(v) ELSE IrqStub(v)
VectorOf(line) == 32 + line

-----------------------------------------------------------------------------
(* The interrupted program runs with interrupts on and is always at the    *)
(* same place: every register holds a value of its own.                    *)

MainRegs == [r \in Registers |-> <<"main", r>>]
MainStack == << <<"main", "top">> >>

InMain == code = <<>>

KeyboardLine == 1

\* The keyboard controller holds its line up as long as a byte is at port 0x60:
\* only the first of several waiting ones makes an edge.
Press ==
  /\ waiting < MaxWaiting /\ waiting' = waiting + 1
  /\ requested' = IF waiting = 0 THEN requested \cup {KeyboardLine} ELSE requested
  /\ UNCHANGED <<cpu, open, in_service>>

Request(line) ==
  /\ line \notin requested
  /\ requested' = requested \cup {line}
  /\ UNCHANGED <<cpu, open, in_service, waiting>>

\* The CPU pushes eflags, cs and eip, and goes through the gate, which turns
\* interrupts off.
Enter(v, errorCode) ==
  /\ stack' = stack \o << regs["eflags"], regs["cs"], regs["eip"] >> \o errorCode
  /\ code' = Gate(v) /\ ip' = 1 /\ vector' = v /\ UNCHANGED regs

\* Lower lines first; the lines of the slave controller come in on line 2.
OnMaster(line) == IF line < 8 THEN line ELSE 2
Before(i, j) ==
  OnMaster(i) < OnMaster(j) \/ (OnMaster(i) = OnMaster(j) /\ i < j)

Deliver(line) ==
  /\ InMain /\ line \in requested /\ {line, OnMaster(line)} \subseteq open
  /\ \A other \in ((requested \cap open) \cup in_service) \ {line} : Before(line, other)
  /\ line \notin in_service
  /\ requested' = requested \ {line}
  /\ in_service' = in_service \cup {line, OnMaster(line)}
  /\ Enter(VectorOf(line), <<>>) /\ UNCHANGED <<open, waiting>>

Raise(e) ==
  /\ InMain
  /\ Enter(e, IF e \in WithErrorCode THEN << <<"error_code">> >> ELSE <<>>)
  /\ UNCHANGED devices

-----------------------------------------------------------------------------
(* One instruction.                                                        *)

Depth == Len(stack)
Peek(offset) == stack[Depth - offset \div 4]
Popped(n) == SubSeq(stack, 1, Depth - n)
Instr == code[ip]
Is(op) == ~ InMain /\ Instr[1] = op
Step == ip' = ip + 1 /\ UNCHANGED <<code, vector>>

PushInstr ==
  /\ \/ Is("push") /\ stack' = Append(stack, Instr[2])
     \/ Is("push_register") /\ stack' = Append(stack, regs[Instr[2]])
     \/ /\ Is("pusha")
        /\ stack' = stack \o << regs["eax"], regs["ecx"], regs["edx"], regs["ebx"],
                                <<"esp", Depth>>, regs["ebp"], regs["esi"], regs["edi"] >>
  /\ Step /\ UNCHANGED <<regs, devices>>

PopInstr ==
  /\ \/ /\ Is("pop_register") /\ stack' = Popped(1)
        /\ regs' = [regs EXCEPT ![Instr[2]] = Last(stack)]
     \/ /\ Is("popa") /\ stack' = Popped(8)
        /\ regs' = [regs EXCEPT !["edi"] = Peek(0), !["esi"] = Peek(4),
                                !["ebp"] = Peek(8), !["ebx"] = Peek(16),
                                !["edx"] = Peek(20), !["ecx"] = Peek(24),
                                !["eax"] = Peek(28)]
     \/ Is("drop") /\ stack' = Popped(Instr[2]) /\ UNCHANGED regs
  /\ Step /\ UNCHANGED devices

LoadInstr ==
  /\ \/ Is("load_eax") /\ regs' = [regs EXCEPT !["eax"] = Peek(Instr[2])]
     \/ /\ Is("kernel_segments")
        /\ regs' = [r \in Registers |-> IF r \in Segments \cup {"eax"}
                                         THEN <<"kernel_data">> ELSE regs[r]]
  /\ Step /\ UNCHANGED <<stack, devices>>

Iret ==
  /\ Is("iret") /\ code' = <<>> /\ ip' = 0 /\ UNCHANGED <<vector, devices>>
  /\ regs' = [regs EXCEPT !["eip"] = Peek(0), !["cs"] = Peek(4), !["eflags"] = Peek(8)]
  /\ stack' = Popped(3)

\* mutant: the slave controller is never told.
AcknowledgedMaster(v, lines) == lines \ (0 .. 7)

\* The end of interrupt goes to the master controller, and to the slave as well
\* for one of its lines.  At most one line of each is in service.
Acknowledged(v, lines) == IF v >= 40 THEN {} ELSE lines \ (0 .. 7)

\* irq_handler() calls keyboard_handler() for its vector only, which reads one
\* byte; when another one follows, the line falls and rises again.
AfterReading(v) == IF v = 33 /\ waiting > 0 THEN waiting - 1 ELSE waiting

\* A C function keeps all registers but three; its arguments are its own.
CallIrqHandler ==
  /\ Is("irq_handler")
  /\ in_service' = Acknowledged(Last(stack)[2], in_service)
  /\ waiting' = AfterReading(Last(stack)[2])
  /\ requested' = IF waiting' \in 1 .. waiting - 1
                     THEN requested \cup {KeyboardLine} ELSE requested
  /\ UNCHANGED open
  /\ \E lost \in SUBSET {"eax", "ecx", "edx"} :
       regs' = [r \in Registers |-> IF r \in lost THEN <<"lost">> ELSE regs[r]]
  /\ \E a \in {Last(stack), <<"lost">>} : stack' = Append(Popped(1), a)
  /\ Step

\* isr_handler() shows its arguments and never returns: no step follows it.
Execute == PushInstr \/ PopInstr \/ LoadInstr \/ Iret \/ CallIrqHandler

-----------------------------------------------------------------------------
(* Properties.                                                             *)

\* An interrupt is invisible: the interrupted program goes on at the same place
\* with the same registers and the same stack, whatever registers and arguments
\* the C handler overwrote.
Transparent == InMain => regs = MainRegs /\ stack = MainStack

\* irq_handler() is told the vector of the line that was delivered.
ToldTheLine == Is("irq_handler") => Last(stack) = Number(vector)

\* irq_handler() acknowledges at both controllers what they delivered: back in the
\* program no line is blocked.
NoLineBlocked == InMain => in_service = {}

\* Whether or not the CPU pushed an error code, below the saved registers are the
\* exception's number, an error code or 0, and what iret needs.
SameFrame ==
  Is("isr_handler") =>
    LET frame(i) == Peek(4 * (5 + 12 + i))
    IN  /\ frame(0) = Number(vector)
        /\ frame(1) = IF vector \in WithErrorCode THEN <<"error_code">> ELSE Number(0)
        /\ frame(2) = MainRegs["eip"] /\ frame(4) = MainRegs["eflags"]

\* isr_handler() gets, in this order, the exception's number, the address and the
\* registers eax, ebx and esp of the program it struck.
ToldTheException ==
  Is("isr_handler") =>
    /\ Peek(0) = Number(vector) /\ Peek(4) = MainRegs["eip"]
    /\ Peek(8) = MainRegs["eax"] /\ Peek(12) = MainRegs["ebx"]
    /\ Peek(16)[1] = "esp"

=============================================================================

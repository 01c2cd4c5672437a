-------------------------------- MODULE Boot --------------------------------
(***************************************************************************)
(* k_main(): the order in which the kernel sets up its parts, with a user  *)
(* who types and devices that interrupt from the first instruction on, and *)
(* the running kernel after sti.  The boot loader leaves interrupts off.   *)
(***************************************************************************)
EXTENDS InterruptEntry

CONSTANT Drivers   \* lines that a driver of its own opens; none today

ASSUME DriverAssumption == Drivers \subseteq Lines

VARIABLES
  at,      \* position in KMain of the step that comes next
  gdt,     \* the descriptor table, empty as long as the boot loader's is loaded
  early    \* auxiliary: a byte waited when the controllers were initialised

vars == <<cpu, devices, at, gdt, early>>

\* mutant: the IDT comes first, as the comment left after idt_install() has it.
KMainIdtFirst ==
  << "sse_init", "gdt_install", "pic_remap_ICW", "pic_remap_masks", "idt_load",
     "graphics_init", "fb_console_init", "fpu_init", "keyboard_init",
     "ramdisk_init", "fat32_init", "sti", "cli_run" >>

\* mutant: keyboard_init() is called as soon as there is a screen.
KMainKeyboardFirst ==
  << "sse_init", "graphics_init", "fb_console_init", "keyboard_init",
     "gdt_install", "pic_remap_ICW", "pic_remap_masks", "idt_load", "fpu_init",
     "ramdisk_init", "fat32_init", "sti", "cli_run" >>

\* The steps of k_main(); idt_install() sets all gates before it loads the IDT.
KMain ==
  << "sse_init", "graphics_init", "fb_console_init", "gdt_install",
     "pic_remap_ICW", "pic_remap_masks", "idt_load", "fpu_init", "keyboard_init",
     "ramdisk_init", "fat32_init", "sti", "cli_run" >>

Done == {KMain[i] : i \in 1 .. at - 1}
Reaches(step) == InMain /\ KMain[at] = step /\ at' = at + 1 /\ UNCHANGED cpu

-----------------------------------------------------------------------------
(* The descriptor table.  A number of 32 bits is a pair of halves.         *)

\* mutant: granularity has only the limit's upper bits.
DescriptorFine(base, limit, access, gran) ==
  [base_low |-> base[2], base_middle |-> base[1] % 256, base_high |-> base[1] \div 256,
   limit_low |-> limit[2], granularity |-> limit[1] % 16, access |-> access]

\* gdt_set_gate()
Descriptor(base, limit, access, gran) ==
  [base_low |-> base[2], base_middle |-> base[1] % 256, base_high |-> base[1] \div 256,
   limit_low |-> limit[2], granularity |-> (limit[1] % 16) + 16 * (gran \div 16),
   access |-> access]

Nothing == <<0, 0>>
All32 == <<65535, 65535>>

Descriptors ==
  << Descriptor(Nothing, Nothing, 0, 0), Descriptor(Nothing, All32, 154, 207),
     Descriptor(Nothing, All32, 146, 207), Descriptor(Nothing, All32, 250, 207) >>

\* What the CPU takes a descriptor for.
Base(d) == <<256 * d.base_high + d.base_middle, d.base_low>>
Limit(d) == <<d.granularity % 16, d.limit_low>>
CountsPages(d) == d.granularity \div 128 = 1
Of32Bits(d) == (d.granularity \div 64) % 2 = 1
Present(d) == d.access \div 128 = 1
Ring(d) == (d.access \div 32) % 4
Executes(d) == (d.access \div 8) % 2 = 1
Accessible(d) == (d.access \div 2) % 2 = 1

-----------------------------------------------------------------------------
Init ==
  /\ regs = MainRegs /\ stack = MainStack /\ code = <<>> /\ ip = 0 /\ vector = -1
  /\ open \in SUBSET ({KeyboardLine} \cup Lines) /\ requested = {} /\ in_service = {}
  /\ waiting = 0 /\ at = 1 /\ gdt = <<>> /\ early = FALSE

GdtInstall ==
  /\ Reaches("gdt_install") /\ gdt' = Descriptors /\ UNCHANGED <<devices, early>>

\* ICW1 clears the masks, and the controllers forget every edge they have seen: a
\* line that is up stays up without a new one.
PicStart ==
  /\ Reaches("pic_remap_ICW")
  /\ open' = 0 .. 15 /\ requested' = {} /\ in_service' = {}
  /\ early' = (waiting > 0) /\ UNCHANGED <<waiting, gdt>>

PicMask ==
  /\ Reaches("pic_remap_masks") /\ open' = {}
  /\ UNCHANGED <<requested, in_service, waiting, gdt, early>>

\* keyboard_init() opens its line and leaves port 0x60 alone.
KeyboardInit ==
  /\ Reaches("keyboard_init") /\ open' = open \cup {KeyboardLine}
  /\ UNCHANGED <<requested, in_service, waiting, gdt, early>>

\* Parts whose state other modules have; the CPU's flags; sti.
InitPart ==
  /\ \E part \in {"sse_init", "graphics_init", "fb_console_init", "idt_load",
                  "fpu_init", "ramdisk_init", "fat32_init", "sti"} : Reaches(part)
  /\ UNCHANGED <<devices, gdt, early>>

BootStep == GdtInstall \/ PicStart \/ PicMask \/ KeyboardInit \/ InitPart

\* A driver for another line would open it the way keyboard_init() does.
OpenLine(line) ==
  /\ "keyboard_init" \in Done /\ line \notin open
  /\ open' = open \cup {line, OnMaster(line)}
  /\ UNCHANGED <<cpu, requested, in_service, waiting, at, gdt, early>>

\* An exception before the IDT is loaded resets the machine: nothing to model.
Happens ==
  \/ Execute
  \/ Press
  \/ \E line \in Lines : Request(line)
  \/ \E e \in Exceptions : "idt_load" \in Done /\ Raise(e)

Interrupt(line) == "sti" \in Done /\ Deliver(line)

Next ==
  \/ BootStep
  \/ \E line \in Drivers : OpenLine(line)
  \/ /\ Happens \/ \E line \in Lines \cup {KeyboardLine} : Interrupt(line)
     /\ UNCHANGED <<at, gdt, early>>

Spec == Init /\ [][Next]_vars

\* The CPU executes and takes the interrupts that are due.
FairSpec ==
  /\ Spec /\ WF_vars(BootStep) /\ WF_vars(Execute /\ UNCHANGED <<at, gdt, early>>)
  /\ \A line \in Lines \cup {KeyboardLine} :
       WF_vars(Interrupt(line) /\ UNCHANGED <<at, gdt, early>>)

-----------------------------------------------------------------------------
(* Properties.                                                             *)

\* What a handler uses was set up before the handler can be called: the gates'
\* segments, the screen for isr_handler()'s report, which may be wanted as soon as
\* the IDT is loaded, and keyboard_init() before the first key.
HandlersReady ==
  /\ ~ InMain => {"gdt_install", "graphics_init", "fb_console_init"} \subseteq Done
  /\ ~ InMain /\ vector = VectorOf(KeyboardLine) => "keyboard_init" \in Done

\* The selectors of the gates (0x08, code) and of the stubs (0x10, data) then stand
\* for all of memory: 2^20 pages from address 0, in ring 0.
Flat(d) ==
  /\ Base(d) = Nothing /\ Limit(d) = <<15, 65535>> /\ CountsPages(d)
  /\ Of32Bits(d) /\ Present(d) /\ Ring(d) = 0 /\ Accessible(d)

SegmentsAreFlat ==
  ~ InMain =>
    LET forCode == gdt[1 + 8 \div 8]
        forData == gdt[1 + 16 \div 8]
    IN  Flat(forCode) /\ Executes(forCode) /\ Flat(forData) /\ ~ Executes(forData)

\* A byte that came after the controllers' initialisation, while the kernel was
\* still booting or a handler running, has its edge waiting with it: every one is
\* read once the kernel is up, whatever other lines do, unless an exception stops
\* the machine.  (A byte that was there before is never read; its line stays up,
\* and no key is ever heard of again.)
Serving == Is("irq_handler") /\ Last(stack) = Number(VectorOf(KeyboardLine))

KeyServed ==
  ("pic_remap_ICW" \in Done /\ ~ early /\ waiting > 0) ~> (Serving \/ Is("isr_handler"))

=============================================================================

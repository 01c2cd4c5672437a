# A verification project for KryOS

KryOS is a small 32-bit x86 kernel: it boots from GRUB into a graphics mode,
installs its descriptor tables, and runs one shell that reads the keyboard,
prints on a framebuffer console and keeps files and directories on a FAT32 file
system in a RAM disk. There is one CPU, one thread, no user mode and no
preemption; the only concurrency is between that thread and the keyboard
interrupt.

This directory holds TLA+ modules translated from the C and assembly source,
TLC configurations that check them on small instances, and proofs checked by
TLAPS. Source paths below are relative to `src/src/kernel/`
of the repository.

1. [Inventory](#1-inventory)
2. [Plan](#2-plan)
3. [The modules and the code](#3-the-modules-and-the-code)
4. [The runs](#4-the-runs)
5. [Fairness](#5-fairness)
6. [What is proved](#6-what-is-proved)
7. [Where code and documentation disagree](#7-where-code-and-documentation-disagree)
8. [What is not modelled](#8-what-is-not-modelled)
9. [Running the checks](#9-running-the-checks)

## 1. Inventory

| Component | Source | State it keeps | Operations | Modelled |
|---|---|---|---|---|
| FAT32 file system | `drivers/fs/fat32.c` | boot sector, both FATs, `cluster_buffer`, `current_dir_cluster`, `current_path` | format, create, mkdir, delete, list, chdir | yes |
| File interface | `fat32.c:393-542` | `fat_file_t` of the caller, the chain of clusters it follows | open, read, write, close | yes |
| RAM disk | `drivers/fs/ramdisk.c` | 1 MB array (2048 sectors) | read, write with a bounds check | yes, within `Fat32` |
| 8.3 names | `fat32.c:168-262` | none | format, parse, compare | yes |
| Keyboard driver | `drivers/input/keyboard.c` | ring of 256 characters, `head`, `tail`, modifier flags | handler (IRQ 1), `keyboard_has_key`, `keyboard_getchar` | yes |
| Graphics driver | `drivers/video/graphics.c` | double buffer, framebuffer, dirty rectangle | clear, rectangles, lines, discs, pixels, copy, swap; colors | yes |
| Graphics demo | `demo.c` | frame, previous radius, hue | one frame; a key ends it | yes |
| Framebuffer console | `drivers/video/fb_console.c` | cursor, colors, the pixels of the text | `fb_putchar`, `fb_print`, clear, flush, colors, numbers | yes |
| Shell | `cli.c` | `cmd_buffer`, `cmd_pos` | line editor, dispatch, commands | yes |
| Interrupt entry, PIC | `cpu.asm`, `idt.c` | stack and registers; masks, edges, lines in service | stubs, `irq_handler`, `isr_handler`, `pic_remap` | yes |
| Kernel start-up, GDT | `kernel.c`, `gdt.c` | descriptor tables, interrupt flag | the steps of `k_main` | their order and effects |
| Strings and memory | `string.c` | where `strtok` stopped | 24 functions | yes |
| Utilities | `utils.c` | VGA text memory and cursor | text driver, number printing; delay, shutdown | all but the last two |
| Boot loader, linking | `../bootloader`, `../link.ld` | none | calls `k_main` | no |

### How the components interact

* **Shell -> file system.** `cli_process_command` (`cli.c:257-361`) dispatches to
  `cmd_*_exec`, which call one `fat32_*` function each. No interrupt handler
  touches the file system, so a call is atomic. The result of the call only
  decides what is printed.
* **File system -> RAM disk.** All reads and writes go through `read_cluster` and
  `write_cluster`, whose -1 no caller looks at. All calls share one static
  `cluster_buffer`.
* **Keyboard interrupt <-> shell.** The ring is the only state that an interrupt
  and the thread share. `keyboard_getchar` tests it with interrupts on, sleeps in
  `hlt`, and reads and advances the tail without a lock.
* **Shell -> console -> graphics driver -> screen.** The console stores the
  pictures of characters straight into the double buffer (`gfx_get_double_buffer`)
  and uses the driver's rectangles, row copies and swaps for everything else. The
  demo uses the same driver and leaves a cleared screen behind the console's back.
  `isr_handler` prints its report through the same console, from any state of it.
* **PIC -> stubs -> handlers.** Vector 33 leads through `irq1` to `irq_handler`,
  which calls the keyboard's handler and acknowledges afterwards. Exceptions lead
  to `isr_handler`, which shows a screen and stops the machine.
* **Start-up -> everything.** `k_main` sets the parts up in a straight line with
  interrupts off, while the keyboard and other devices already raise their lines.
  What each handler needs must be set up before the handler can run, and that is
  a matter of the order of lines only.

### What is hard in this code, and what makes each part correct

* *File system.* Long sequences of legal calls: slots are reused, a directory of
  one cluster fills up, `rm` frees the cluster of whatever it found, a cluster is
  taken before a slot is looked for, a failed read leaves the previous directory
  in the buffer. Correct means: directories stay in order (no live entry behind
  the end mark, no name twice), failed calls change nothing, and, for users who
  keep to the documentation, the directories are a tree in which every cluster
  is named once, calls do what the same calls on a tree of paths do, and `pwd`
  tells the truth.
* *Files.* No byte count and no first cluster ever reaches a directory entry, so all files
  share one chain that starts at "cluster 0". Correct means: that chain stays apart
  from the directories, ends, and each byte goes where its position says.
* *Keyboard.* The interrupt falls between any two steps of the reader. Correct
  means: a bounded queue in which nothing is lost, repeated or reordered; flags
  that follow the keys; no sleep over a character.
* *Graphics and console.* Index arithmetic on rows, clipping at four edges,
  overlapping copies, a dirty rectangle that direct stores bypass. Correct means:
  nothing drawn stays unswapped, and painting rows of pixels implements a screen
  of text.
* *Shell.* Two copies of the line, in the buffer and on the screen, through
  wrapping, scrolling and erasing. Correct means: what is seen is what runs.
* *Interrupt entry.* Offsets that depend on how much was pushed before. Correct
  means: interrupts are invisible, handlers get the right arguments, no line
  stays blocked, and no key is lost for good because of when it was pressed.
* *Text.* Limits, overlaps, empty strings, tokens and prefixes. Correct means: each
  function computes what it is meant to on every short input.

`PROJECT.json` lists each hazard at its line with the properties that cover it,
and the reason where none does.

## 2. Plan

Written in this order: the file system (its state, then its shape, then its
refinement), the keyboard, the graphics driver with the console and the demo on
top of it, the shell's line, interrupt entry and the first proofs; then the file
interface, the functions on text, start-up, the crash report, colors and the
text driver.

| Part | Built on | Refines | Checked by | Proved in |
|---|---|---|---|---|
| `FileNames` | | | `MCFileNames`, `MCText` | `Fat32Proof` |
| `CStrings`, `Numerals`, `Commands`, `VgaText` | | | `MCText` | |
| `Fat32` | tables that agree with `FileNames` | | `MCFat32` | `Fat32Proof` |
| `FatFiles` | `Fat32` | | `MCFatTree` | `Fat32Proof` |
| `Fat32Tree` | `FatFiles` | `DirTree` | `MCFatTree` | `Fat32Proof` |
| `Keyboard` | | `BoundedQueue` | `MCKeyboard` | `KeyboardProof` |
| `Graphics` | | | `MCGraphics` | `GraphicsProof` |
| `Demo` | `Graphics`, `Colors` | | `MCDemo` | `DemoProof` |
| `Console` | `Graphics` | `TextScreen` | `MCConsole` | `ConsoleProof` |
| `Shell` | `TextScreen` | | `MCShell` | `ShellProof` |
| `InterruptEntry` | | | `MCBoot` | `BootProof` |
| `Boot` | `InterruptEntry` | | `MCBoot` | `BootProof` |

*Built on* is EXTENDS, *refines* an INSTANCE with a refinement mapping. The abstract
specifications are `DirTree` (a tree of paths without clusters), `BoundedQueue` (a
queue of typed characters) and `TextScreen` (text, what is shown of it, a cursor).
The shell is written on `TextScreen`, not on pixels: `Console` is shown to implement
it.

`Induction` states induction over natural numbers with a set in the place of a predicate,
and that a loop has a state after every turn; the proofs about loops, which the modules
write as recursive functions, rest on it.

What is left to prove are the functions on text other than names, for which their modules
would have to write their loops as recursive functions. Of the system, a keyboard that
starts with keys held down, and shell, console and keyboard in one module, are left.

## 3. The modules and the code

`PROJECT.json` maps every definition to the lines it stands for.

**`Fat32`** is `fat32.c` as the shell reaches it. One call is one action:
`Create` (touch), `Mkdir`, `Delete` (rm), `List` (ls), and `Chdir`, split by the
four kinds of argument. State: `fat` (the first FAT; the second is a copy that
nobody reads), `data` (the directory in each cluster), `buffer`
(`cluster_buffer`), `cwd`, `path`, `ret`. What is kept of the code's control: which
cluster a search starts from, that the first matching and the first free slot are
taken, the order in which the FAT and directories are written, the rollback of
`mkdir`, the early resets of `current_path`, reads and writes beyond the disk that
do nothing (`Load`, `Store`). What is abstracted: an entry is its state, its 8.3
name and its first cluster (times, attributes other than the directory bit, and
sizes are never read back); names are values with the two conversions as
constants `Format` and `Spells`. Only `fat32_write` links two clusters, and only
clusters of the files' chain, which has none of a directory (`FatFiles!ChainIsApart`), so a
directory has the 128
entries of one cluster and each walk along its chain makes one turn.

**`FatFiles`** adds `fat32_open`, `fat32_read`, `fat32_write` and `fat32_close` with one
handle, interleaved with all the calls of `Fat32`: `zero` is FAT[0], the entry of the
"cluster" every file begins in, `handle` the caller's structure. The loops of read and
write are followed cluster by cluster, with the order in which the FAT is stored;
bytes are counted but have no values. What is stored in "cluster 0" changes nothing
that is modelled: `MCFatTree` assumes, and TLC evaluates, that with the numbers of
`fat32_format` it lies in the second FAT. One turn is an operator (`WriteTurn`, `ReadTurn`)
and the loop a function of the number of turns; a request of n bytes takes n at most,
and a turn with nothing left changes nothing.

**`FileNames`** computes the conversions of names from characters (`format_filename`,
`parse_filename`, `filename_cmp`, the test in `find_dir_entry`). `MCFat32` assumes,
and TLC evaluates, that the tables given to `Fat32` agree with it; that such tables have
what `Fat32` assumes of them is proved for all names (`ConversionsAreTables`). Fields have
two characters or more: in an extension of one, the name `...` would be cut to `..`.

**`Fat32Tree`** adds the premises of careful use and states the shape of the tree,
the mapping to **`DirTree`**, and what `pwd` prints. `DirTree` knows paths, a limit
on directories and on entries per directory, and nothing of clusters; of the files'
data it knows how many clusters it takes. The variable `shape` is auxiliary: it is the
tree that the other variables amount to, computed once per step instead of once
per property. Every entry of a directory in use, `.` and `..` aside, stands for one path: the
path of the directory, found by climbing its `..` entries, and the entry's name.

**`Keyboard`** has `keyboard_handler` as one step (it runs with interrupts off) and
the reader cut at every access to shared state: `Check` and `Halt` (the loop around
`hlt`), `Read` and `Advance` (the load and the store of the tail), `Poll` (the demo).
The user presses, repeats and releases keys; `port` is what the keyboard has sent.
Characters are a key and which of its two table entries; keys without an entry are
`Mute`. **`BoundedQueue`** is what the ring promises.

**`Graphics`** is `graphics.c` as operators from state to state, on arrays addressed
by `y * Width + x` as in the code, because running on into the next row is what can
go wrong; runs of pixels are stored in chunks of four and a rest. `DrawNext` is an
arbitrary client, stores past the driver included. **`Colors`** is `gfx_rgb` and
`gfx_hsv`, beside the definition of the hexcone without rounding.
**`Demo`** is `demo_rainbow_circle` with `gfx_draw_circle` and those colors. **`Console`** is
`fb_console.c` on the same operators; a character is one pixel wide, since all its
columns are painted alike, but as many rows high as it takes to see a picture, the
space below it and scrolling by a line. `Crash` is what `isr_handler` does before it
prints, in any state of the console; the report is any text that ends before the
last line. **`TextScreen`** is what it implements.

**`Shell`** is `cli_run` with the echo, one character of output per step; the demo
that `test` starts behind its two lines is an output, too.

**`CStrings`**, **`Numerals`**, **`Commands`** and **`VgaText`** are functions without
variables of their own. `CStrings` is `string.c` on a memory of bytes in which
addresses are indices, so that what lies behind a string shows; the static variable of
`strtok` is an argument and a result. `Numerals` is `fb_print_int` and `fb_print_hex` and their twins
in `utils.c`, for integers of `Width` bits (the negation of the most negative one
wraps, as the compiled code does). `Commands` takes a line apart as
`cli_process_command` does, and has the text of `current_path`. `VgaText` is the text driver of
`utils.c` on the cells of the video memory.

**`InterruptEntry`** executes the stubs of `cpu.asm` instruction by instruction on a
stack of dwords; offsets are those of the source. The PIC is external: masks, edges,
priorities, lines in service, and which end-of-interrupt clears what. So is the
keyboard's controller: it holds `waiting` bytes, raises its line with an edge when the
first one comes and when another is still there after `keyboard_handler` read one.
`irq_handler` may overwrite the registers and the argument a C function may overwrite.

**`Boot`** is `k_main`: one action per step that changes state modelled here
(`GdtInstall`, `PicStart` and `PicMask` for the two halves of `pic_remap`,
`KeyboardInit`), and `InitPart` for the others, interleaved with keys, devices and
exceptions. ICW1 clears the masks and forgets edges; the auxiliary `early` remembers
whether a byte was waiting then. `Drivers` are lines a further driver would open. `gdt_set_gate` is
modelled by the fields it packs and what the CPU reads from them.

## 4. The runs

| Run | Asks | Instance |
|---|---|---|
| `names` | Do the two spellings that find an entry agree, are 8.3 names kept apart, can a listed name be typed back? Do the string functions, the printing of numbers, the dispatch of lines, the text of `pwd` and the text driver compute what they are meant to? | letters `a`, `A`, point and space; fields of 2 and 2; names up to 5 and 4 characters; strings up to 4 and 2; all integers of 8 bits; lines of up to 4 pieces; paths of up to 4 names; 5 calls on a text screen of 3 x 2 |
| `fat32_any` | What holds of every use, `rm` of directories and of `..`, colliding names and reused clusters included? | 2 clusters, 3 entries each; names `a` and `a b`, the second of which the first also finds; paths with and without `/` |
| `fat32_tree` | For files removed with `rm` and ordinary names: is it a tree, does it implement `DirTree` call by call, is `pwd` right, while files are opened, read and written? Is the chain of the files apart from it, and does each byte go to its cluster? | 3 clusters, 3 entries each, depth 3, two names; clusters of 2 bytes, requests of 1 and 4, 5 bytes through one handle |
| `fat32_mkdir_lost` | Does `mkdir` make a directory whenever it says so? *Violated.* | 3 clusters in the FAT, 2 on the disk |
| `keyboard` | Is the ring a queue in every interleaving, do flags follow keys, is a character read, does it end the demo? | ring of 3 (2 usable slots); a letter, a mute key, one shift, caps lock, Ctrl, Alt; one scancode under way |
| `keyboard_lost_wakeup` | Does `keyboard_getchar` return when there is a character? *Violated.* | two keys, two scancodes under way |
| `graphics` | Does every client see all it drew, clipped and copied on the plane? | 2 x 3 pixels, 2 colors; rectangles over each edge |
| `demo` | Is the screen exactly the current disc, in every frame, and are the colors right? | 13 x 11 pixels, radius 1 to 6, so that discs are clipped; all hues the demo reaches |
| `console` | Do rows of pixels implement a screen of text, the report of a crash included? | 3 columns, 3 lines of 2 pixel rows, 2 characters, 2 backgrounds |
| `shell_line` | Is the line on the screen the line that runs? | 3 x 3 screen, lines up to 5 (so they wrap and scroll), commands that print nothing, one or two lines, or clear |
| `interrupts` | From the first step of `k_main` on: is everything set up before it is used, is an IRQ invisible, acknowledged and identified, is every key heard, do all exceptions reach `isr_handler` with one frame? | lines 0, 1 and 12, the last opened by a driver of its own; exceptions 0, 6, 8, 13, 14; two bytes waiting |
| `exception_arguments` | Does `isr_handler` get what it is declared with? *Violated.* | line 1, exception 0 |

Why the bounds are enough for the cases of interest:

* *Clusters and entries.* Three entries are `.`, `..` and one more: directories fill
  up at once, slots are reused, and every error return is reached. Three clusters
  allow siblings as well as a chain of two directories below the root, and a full
  FAT. Two clusters are enough to hand a removed directory's cluster to another
  one while stale entries still name it. `MaxDepth` bounds `current_path`, which
  the code does not bound (see section 7). In `fat32_tree` it never binds: three
  clusters nest two directories, and the limit is three. In `fat32_any`, where a
  directory can come to contain itself, it keeps the paths finite.
* *Names.* `FormatName` treats fields of 8 and 3 as fields of any length; five
  characters overflow a field of two, with a point at any place.
* *Text.* `MaxString` 4 and `MaxOther` 2 are enough for a match that fails after one character
  and begins again inside it, for delimiters on both ends and in a row, for every
  overlap of two areas, and for limits below, at and above a length (for `strncpy`, below
  and at). `Width` 8 with
  `TopDivisor` 100 has the same shape as 32 with 1000000000: the top divisor is the
  largest power of ten an unsigned number reaches. Four pieces make a command with
  spaces before, between and after, glued to another word, or as an argument.
  Five calls put the text driver's cursor in the last cell, wrap, scroll and erase.
* *Files.* Clusters of two bytes have one position inside and one boundary; a request
  of four always crosses one, and a position of five needs three clusters, more than
  the disk has free.
* *`VIEW WithoutBuffer`* in `fat32_tree`: in that geometry every cluster exists, so
  `read_cluster` never fails and each call fills `cluster_buffer` before it looks at
  it. What it holds between calls tells no two states apart, and no property of the
  run mentions it. `fat32_any` and the proofs keep it.
* *Ring.* Three slots are the smallest ring in which head and tail wrap
  independently and both "one left" and "full" are distinct from "empty".
  `MaxPending` is the number of scancodes the controller holds back: it bounds how
  far the user is ahead of the handler, not how long he types.
* *Screens.* Each is the smallest with a middle row, both edges, and an overlap
  of source and target when rows are copied.
* *Colors.* `ShadesAreTrue` tries six levels (`Levels`) of saturation and value: both ends,
  their neighbors and the middle, at every hue the demo reaches.
* *Crash report.* It ends before the last line of the screen, as the real one (14 of 50
  lines) does; before it the screen may hold any text.
* *Interrupts.* KryOS unmasks line 1 only. Line 0 is a timer nobody opens, line 12 stands
  for a line of the slave controller, so that the second branch of `irq_handler` is
  executed too. `MaxWaiting` 2 is a byte being read and another behind it.

`names`, `console` and `interrupts` have `CHECK_DEADLOCK FALSE`: names stop growing at
their bounds, and `isr_handler` stops the machine by design. All the other systems are
checked for deadlock.

Every property of a passing run has a mutant in `PROJECT.json`: a plausible bug in
one mapped definition (kept in the module beside it, marked *mutant*) under which
TLC finds the property violated.

### Premises of the properties

Where the code does not hold what a property says for every user, the premise is a
named operator, and the other cases are listed in section 7:

* `NamesFile` (rm is given files), `Ordinary` for the tree: names that find only their own
  entry and whose entry is not found as `.` or `..`. (`.. a` has the extension `. A`, which is
  shown up to its space, as `..`.) `AllOnDisk` for clusters the disk does not have;
* `AtBoundary` in `StaysInPlace`: writes that end on the last byte of a cluster;
* `early` in `KeyServed`: a byte that waited before `pic_remap`;
* `n <= Len(S)` for `strncpy` in `CopiesStopInTime`: limits beyond the length of the string;
* `PathStaysTrue` for `pwd` after an absolute `cd`;
* `WithinLine` for backspace at the start of a wrapped line;
* one of the two shift keys, for the shift flag in `FlagsMatchKeys`.

## 5. Fairness

* `Keyboard!FairSpec`: weak fairness of the main thread (the CPU keeps executing)
  and of the handler. `keyboard_handler` is entered whenever IRQ 1 is raised:
  interrupts are on from `kernel.c:181` on and nothing turns them off for good,
  IRQ 1 is unmasked by `keyboard_init`, and `irq_handler` acknowledges every
  interrupt, which the run `interrupts` checks (`NoLineBlocked`, `KeyServed`).
  Nothing is assumed of the user. `TypingDelivers` is therefore conditional: *if*
  scancodes keep coming, a character in the ring is read.
* `Keyboard!ReleasingSpec` adds that every key is released some time. Only
  `keyboard_lost_wakeup` uses it, so that its counterexample is not one of a user
  who holds a key for ever: with all fairness granted, the character stays unread.
* `Boot!FairSpec`: the CPU executes (`BootStep` and `Execute`) and takes an interrupt
  that is due (`Interrupt`, for each line). A delivery is disabled while the CPU is in a stub
  or boots and enabled back in the program; weak fairness is enough because a request
  stays pending and every stub is finite. A line of higher priority could overtake a
  lower one for ever; above the keyboard there is only line 0, which no driver opens.
  Nothing is assumed of users and devices.

The other components are sequential; they are checked for safety only.

## 6. What is proved

TLAPS checks these theorems for every value of the constants that satisfies the
named assumptions, which TLC evaluates in the runs.

| Theorem | States | Assumes |
|---|---|---|
| `Fat32Proof!TypeCorrect` | `Spec => []TypeOK` | `GeometryAssumption`, `EntriesAssumption`, `NameAssumption`, `PathAssumption` |
| `Fat32Proof!NoHiddenEntriesAlways` | `Spec => []NoHiddenEntries` | the same |
| `Fat32Proof!UniqueNamesAlways` | `Spec => []UniqueNames` | the same |
| `Fat32Proof!FailedCallsHarmless` | `Spec => FailedCallsChangeNothing` | the same |
| `Fat32Proof!ChainStaysApart` | `OrdinarySpec => []ChainIsApart`: the chain ends, each of its clusters has one link, and none is a directory's | the same and `FilesAssumption` |
| `Fat32Proof!WritesStayInPlace` | `OrdinarySpec => StaysInPlace` | the same |
| `Fat32Proof!TreeStaysInOrder` | `OrdinarySpec => []TreeInOrder` | the same |
| `Fat32Proof!TreeIsImplemented` | `OrdinarySpec /\ []AllOnDisk => ImplementsTree` | the same |
| `Fat32Proof!PwdFollows` | `OrdinarySpec /\ []AllOnDisk => PwdFollowsCwd` | the same |
| `Fat32Proof!DiskHasItsClusters` | both, without `[]AllOnDisk`, if every cluster of the FAT is on the disk | the same |
| `Fat32Proof!NamesAlwaysFind` | `NamesSpec => []NamesFindTheirEntries` | `CharAssumption`, `LengthAssumption` |
| `Fat32Proof!ConversionsAreTables` | tables made by `FormatName` and `ParseName` are what `NameAssumption` asks of `Format` and `Spells` | the same |
| `KeyboardProof!TypeCorrect` | `Spec => []TypeOK` | `RingAssumption`, `PendingAssumption`, `KeysAssumption`, `NothingAssumption` |
| `KeyboardProof!DemoAwake` | `Spec => []DemoNeverSleeps` | the same |
| `KeyboardProof!FlagsFollowKeys` | `Spec => []FlagsMatchKeys` | the same |
| `KeyboardProof!RingIsQueue` | `Spec => KeepsOrder` | the same |
| `KeyboardProof!DropsOnlyWhenFull` | `Spec => OnlyAFullRingDrops` | the same |
| `GraphicsProof!NothingEverMissed` | `DrawSpec => []NothingMissed` | `SizeAssumption`, `ColorAssumption`, `AreasAssumption` |
| `GraphicsProof!RectangleStaysOnScreen` | `DrawSpec => []DrawTypeOK` | the same |
| `GraphicsProof!RowsArePlane` | `DrawSpec => DrawsOnThePlane` | the same |
| `DemoProof!OneDiscSeen` | `Spec => []OnlyTheDisc` | the same and `DemoAssumption` |
| `DemoProof!ShadesAlwaysTrue` | `Spec => []ShadesAreTrue` | the same |
| `DemoProof!HsvIsNear` | `Near(Hsv(h, s, v), h, s, v)` for every integer `h` and all bytes `s` and `v` | nothing |
| `ConsoleProof!CursorStaysOnScreen` | `Spec => []CursorOnScreen` | `SizeAssumption`, `CellAssumption` |
| `ConsoleProof!PixelsAreText` | `Spec => ImplementsTextScreen` | the same, `ColorAssumption`, `AreasAssumption`, `PaperAssumption` |
| `ConsoleProof!CrashesAreReported` | `Spec => ReportIsText` | the same |
| `GraphicsProof!ClearPaintsAll` | `Clear(g, c)` leaves the color in every address of the buffer | `SizeAssumption` |
| `ShellProof!LineStaysInBuffer` | `ShellSpec => []ShellTypeOK` | `SizeAssumption`, `BlankAssumption`, `LineAssumption`, `PromptAssumption`, `OutputsAssumption` |
| `ShellProof!SeenIsRun` | `WithinLineSpec => []EchoMirrorsLine` | the same and `GlyphsAssumption` |
| `BootProof!SetUpBeforeUse` | `Spec => []HandlersReady` | `VectorAssumption` |
| `BootProof!HandlersHaveSegments` | `Spec => []SegmentsAreFlat` | the same |
| `BootProof!InterruptsAreInvisible` | `Spec => []Transparent` | the same |
| `BootProof!HandlerKnowsItsLine` | `Spec => []ToldTheLine` | the same |
| `BootProof!LinesAreAcknowledged` | `Spec => []NoLineBlocked` | the same |
| `BootProof!FramesAreAlike` | `ErrorCodesExpected => (Spec => []SameFrame)` | the same |

How the arguments go:

* **Directories in order.** Neither property is inductive by itself: a read that
  fails leaves the scan on `buffer`, and what was scanned is written back.
  `DirectoriesInOrder` says of the buffer, too, that it is in order. It is kept
  because an entry is only ever added in the *first* free slot, which everything
  before it being live puts at or before the end mark, and only after `Found` said
  that its 8.3 name is not there; and because removing leaves a deleted entry, not
  an end mark. Since `Load` and `Store` are used with clusters that may lie beyond
  the disk, the theorems also cover geometries like the real one with its phantom
  clusters, which the passing run leaves to `fat32_mkdir_lost`.
* **Failed calls.** The one path that writes before it fails is the full directory
  in `Mkdir`: `Release(Take(fat, c), c) = fat` because `c` was free.
* **The chain of the files.** `ChainIsApart` alone is not inductive: a write goes on from
  the handle, so the handle must be in the chain. `FilesInv` says that the chain is a
  sequence of different clusters from 0 to an end, that links lead upward, that no other
  cluster is linked and the root is not in it, and that an open handle's cluster is in it, at the
  end of what was written (position and size agree after every call). A cluster is only
  appended while it is free, and only the last one of the chain is given a link. The loop is
  followed turn by turn: `LoopOK` holds of the state after each of them (`TurnInduction`).
  That no cluster is a directory's, too, is `LeadInv`: the root, the current directory and
  every subdirectory entry lead to clusters that are in use and outside the chain. It is said of
  the entries in *all* clusters and in the buffer, because a failed read makes a call take the buffer
  for the directory, and a cluster beyond the disk is found by the search but never
  written. A call stores a cluster it had before, one with an entry added or removed, a new
  directory with its own cluster and its parent's, or bytes (`OnlyBytesPut`), which lead nowhere.
  The premise is `OrdinarySpec`: `rm` of a directory gives its cluster back while entries still
  lead there, and the next write may link it.
* **Writes in place.** By the same invariant the handle is at the cluster with some number in
  the chain; `InPlaceIs` and `WriteKeeps` count how that number and the position advance together
  through a loop, for a write that does not begin where another ended with its cluster.
* **The tree.** `TreeInv` is stated of the set of directories in use, their contents and the
  current directory (`IsTree`), so that each call is one of a few changes to them: an entry
  for a file added or removed (`QuietTree`), a directory added (`AddDirectory`), the shell
  moved. That a directory is beyond its parent needs that the FAT gives nothing back:
  `rm` frees a cluster only for a directory, and is given none. `mkdir` may give its cluster
  back, which was free before.
* **The disk is a tree of paths.** The states of the disk and of `DirTree` are related by
  `Describes`: every entry of a directory in use is a path with its kind, every path of the
  tree is the root or such an entry, and this determines the tree (`DescribedOnce`). Paths
  are defined by recursion on cluster numbers, possible because parents come first
  (`PathsExist`); different directories have different paths, since no directory holds a name
  twice (`PathsDiffer`); and they stay when files come and go or a directory is added
  (`PathsStay`). `OrderInv`, the third part of the invariant, says that directories in use are
  in order, and that `..` finds no entry but the one `mkdir` wrote. Then looking a name up on
  the disk is looking the path up in the tree (`LookUpIs`), and each call is matched by the
  call of `DirTree` with the same result. That both are *refused* alike is a matter of
  counting: a free slot exists exactly if the directory has fewer children than its limit
  (`RoomIs`), and a free cluster exactly if directories and file data together do not use all
  (`DirsAre`, `ClustersAdd`, `LimitIs`). The premise `[]AllOnDisk` is what the run `fat32_mkdir_lost` shows to
  be needed; where every cluster of the FAT is on the disk, as in the run `fat32_tree`, it always
  holds.
* **pwd.** `current_path` is compared with the path by names as they are formatted (`Shown`);
  going down appends to both, going up takes the last from both, and the two early resets
  are harmless under `PathStaysTrue`.
* **Names.** `StopExists` and `BeforeStops` say where a field ends; with them the formatted name (`FormatIs`)
  and the listed one (`ParseIs`, `ListedIs`) are known character by character. What is
  listed has the same two parts, cut to their fields, so it is formatted to the same entry
  (`ListedAgain`), and since formatting does not see case (`FormatFolds`) the two tests
  of `find_dir_entry` agree (`SpellingAgrees`).
* **The demo does not sleep.** `DemoInv`: once the demo has left the poll for
  `keyboard_getchar`, the ring is not empty. The handler only adds (a full ring is
  not empty either), and the demo is the only reader.
* **Flags.** `FollowsInv` generalises from "no scancode pending" to any number: a
  key is in the state that its *last* pending scancode says, and, without one, in
  the state the flag says. Each press, repeat and release extends it at the end of
  the queue and the handler consumes it at the front. It holds of Ctrl, of Alt and
  of a shift key that is the user's only one.
* **The ring is a queue.** The mapping takes the characters from `tail` to `head` round
  the ring; one leaves when the tail moves, not when it is loaded, and `QueueInv`
  says that what was loaded is still the oldest. The rest is arithmetic modulo `BufferSize`: which slots a store at the head and
  a step of the tail add and remove, and that one slot always stays free, so that equal
  indices mean empty. `OnlyAFullRingDrops` needs the same count.
* **Nothing missed, and the rectangle.** `DrawInv`: the dirty rectangle is the whole
  screen while marking is on and the reset one while it is off. `MarkAll` is all that turns it on; drawing only
  grows it, by parts of the screen; swapping turns it off. That is why stores that mark nothing
  are safe, and, incidentally, why no swap of this code ever copies less than
  everything.
* **Rows and the plane.** A pixel's address determines its column and row
  (`PixelOfAddress`), so a run of addresses in one row touches no pixel of another once
  its ends are clipped (`CoversIsIn`). The copy upward is a loop: `CopyMovesUp` exhibits
  the buffer after each turn, shows that it satisfies the recursion, since a row is
  read before it is written, and concludes with `TurnInduction`.
* **The disc.** `RowOfDisc`: a largest fitting x exists (`LeastNumber`) and the columns
  up to it are those inside the circle, squares being monotone. `CircleDraws` follows the loop over
  the rows. `DemoInv` says that both buffers show the disc drawn last and nothing
  else; a disc two pixels larger covers it (`Covered`), so the next frame starts from
  black.
* **The colors.** Each channel is 255 less a fall of `r` out of 255, for `r` = 0, 255, the
  remainder or its complement (`HsvFalls`); `FallIsNear` bounds what the two divisions
  and the scaling of 60 to 255 lose, once for all four, and `DropByRegion` matches them
  with the hexcone in each of the six regions.
* **The console.** The text is read off the double buffer cell by cell. Each action draws
  as `GraphicsProof` says, on areas that are unions of cells because the sizes of the
  screen and the characters divide; a scroll moves the picture by one line of cells and
  paints the last. The steps of `Console` are matched with those of `TextScreen` one by one,
  the flush with its show. For a report, the screen starts empty in the report's color,
  and every step of printing keeps the cells before the cursor as written.
* **Clear.** `RunIsAll`: the chunks of four and the rest that `sse_memset32` stores are all
  the pixels it was given, whatever their number (a quotient and a remainder).
* **The line.** A character is only taken while `cmd_pos` is below the limit and only
  erased above zero, and every action of `TextScreen` keeps the cursor on the screen.
* **What is seen is what runs.** The invariant places the prompt and the line on the
  screen, character by character, wherever they wrapped and however often they scrolled;
  a new line's echo, an erased character and the output of a command each keep it.
  `WithinLineSpec` is the premise of section 4, under which an erased character is in the
  line of the cursor.
* **Start-up.** `HandlersInOrder` ties the CPU to the position in `k_main`: in a handler
  of an exception the IDT is loaded, in one of an interrupt `sti` has been executed,
  and what a handler needs comes before that in the list. `TableLoaded` adds that
  the GDT holds its four descriptors from then on, and `DescriptorsAreFlat` computes what
  the CPU reads from their packed fields.
* **Stubs.** `StubsInOrder` says for each of the 19 instructions of an IRQ's stub what lies on
  the stack before it (`Frame` above what the CPU pushed, cut at a length that is a
  table of the position), which registers still hold what, and which lines are in
  service; each instruction leads from one row of the table to the next. `Framed` does
  the same for the exceptions' stubs, which never return. `irq_handler` may overwrite
  registers and its argument, and the table says why nobody minds. For `FramesAreAlike` the
  theorem needs `ErrorCodesExpected`: of the exceptions that happen, those with an error code
  are 8 and 10 to 14. The CPU pushes one for 17, 21, 29 and 30 as well, and their stubs
  (`cpu.asm:78-91`) push a 0 of their own; none of them can be raised here, with
  everything in ring 0 and those features of the CPU off.
* **Cursor.** Every character leaves the column below `Cols` or goes down a line,
  and `Down` never leaves the screen.

Model-checked only: liveness under fairness (`TypingDelivers`, `CharacterEndsDemo`,
`KeyServed`), which is out of the prover's reach; and the functions on text other than names
(`StringsWritten`, `StringsRead`, `NumeralsDenote`, `LinesUnderstood`, `TextIsTheTrail`,
`WindowOnTheSheet`), which are recursive operators, work on strings or were written for bounded inputs.

## 7. Where code and documentation disagree

Three disagreements are shown by a run that TLC finds violated:

1. **`mkdir` can lose a directory** (`fat32_mkdir_lost`). `fat32.c:110` bounds the
   search for a free cluster by the size of the whole disk (256), but clusters 234
   to 255 do not exist on it. `fat32_mkdir` ignores the failed write and returns 0.
   From then on, entering that directory reads whatever the buffer last held.
2. **A key can be slept over** (`keyboard_lost_wakeup`). `keyboard_getchar`
   (`keyboard.c:171`) tests the ring and then executes `hlt` with interrupts on in
   between. The character waits for another key.
3. **Exceptions are misreported** (`exception_arguments`). `cpu.asm:127-136` loads
   the arguments of `isr_handler` at wrong offsets and pushes them in the wrong
   order; the handler's "number" is `ebp`.

Others met while modelling, kept out of the properties by the premises of section 4
or left to data the models abstract:

* `rm` removes directories, also non-empty ones, the current one and `..`
  (`fat32.c:660`), and frees their clusters.
* `cd /nosuch`, `cd /.` and `cd /..` reset `current_path` to `/` although the user stays where
  he was, or goes up from there (`fat32.c:747`).
* `current_path` (256 bytes) grows with each `cd` without a check (`fat32.c:799`).
* Backspace in column 0 of a wrapped line forgets the character but leaves it on the
  screen (`fb_console.c:244`).
* Both shift keys drive one flag: releasing one while the other is down turns it
  off. Caps lock toggles with each repeated scancode.
* Only keys with a character end the demo.
* What is written to a file cannot be read back after it is opened again: `fat32_write`
  never stores size or first cluster in the directory entry. All files start in
  "cluster 0" and share its chain (`fat32.c:518`), and the second FAT, which is where
  that cluster lies, is written by nobody else after the format.
* `fat32_read` never returns a byte: a handle's position is its size after opening and after
  every write, and nothing seeks (part of the invariant of the files' chain).
* `mkdir .. a` makes an entry that `ls` shows as `..`. In the root, which has no `..` of its
  own, `cd ..` finds it and goes down (`fat32.c:761`).
* A write that ends exactly at the end of a cluster leaves the handle there; the next
  one overwrites that cluster (`fat32.c:523`).
* `strncpy` writes n + 1 bytes when the string is shorter than n (`string.c:93-99`): the
  zero that ends the string is copied and not counted, and n counts on. The comment above it says
  "Copy string with length limit" (`string.c:88`). `CStrings!strncpy` does what the code does;
  `StringsWritten` leaves such limits out.
* `help ` with a trailing space is an unknown command: commands without an argument are
  compared as a whole (`cli.c:276`).
* `idt.c:229` says "Clear screen to blue", but 0x00FF0000 is red, by the driver's own
  `gfx_rgb`.
* The comment "Initialize graphics first" stands after `idt_install` (`kernel.c:126`); the call
  it meant comes before it, as it must.
* A key pressed before `pic_remap` makes the keyboard deaf for good: its byte keeps the
  line up, the edge is forgotten, and nobody reads the port (`keyboard.c:149-158`).
* Nothing calls `vga_init`: what `graphics_init` prints with the text driver joins
  whatever the boot loader left.
* After the first swap the dirty rectangle is never in use again: `Reset` turns
  marking off, and what turns it on marks the whole screen.

## 8. What is not modelled

* *The boot loader and the linker script.* No state beyond what `Boot!Init` starts from.
* *What messages say*, and the names of exceptions. For the screen, a command is what it
  prints or clears.
* *The fallbacks of start-up* for a missing framebuffer, and the texts printed on the way.
* *Contents of files.* Bytes are counted, not compared.
* *`gfx_copy_rect` within one row* with overlapping columns, where `sse_memcpy` would read
  what it has written: the repository copies upwards only.
* *`wait()`, which only delays, `is_qemu()` and `shutdown()`,* which write to ports and stop
  the machine.
* *Sizes in bytes*: of the stack, of `current_path`, of the double buffer against another
  mode than the one asked for, and of the boot sector that is read into a structure
  smaller than a sector.
* *Prefixed scancodes* (0xE0), and a keyboard that starts with keys held down.
* *Bytes above 127*, where `char` and `uint8_t` differ in comparisons.

## 9. Running the checks

```
tlasany Fat32.tla                                   # parse
tlc -workers 2 -config Fat32Tree.cfg MCFatTree.tla   # one run; see PROJECT.json
tlapm Fat32Proof.tla                                # proofs of one module
```

Each run takes a few minutes at most. `PROJECT.json` names for each run its module,
its configuration and the outcome to expect.

------------------------------ MODULE Keyboard ------------------------------
(***************************************************************************)
(* The keyboard driver (input/keyboard.c): a ring of characters filled by  *)
(* keyboard_handler() on IRQ 1 and emptied by keyboard_getchar(), which    *)
(* sleeps with "hlt" while the ring is empty.  The reader is the main      *)
(* thread, in the shell's loop (cli_run) or in the graphics demo           *)
(* (demo_rainbow_circle), which polls keyboard_has_key().                  *)
(*                                                                         *)
(* There is one CPU.  The handler runs with interrupts off, so it is one   *)
(* step, and it may come between any two steps of the main thread.  IRQ 1  *)
(* is the only interrupt the PIC lets through: nothing else ends a "hlt".  *)
(***************************************************************************)
EXTENDS Integers, Sequences, FiniteSets

CONSTANTS BufferSize,    \* KB_BUFFER_SIZE                               (256)
          Letters,       \* keys that type a letter
          Signs,         \* keys that type another character
          Mute,          \* keys neither table has a character for, F1 say
          Modifiers,     \* which modifier keys the user has
          Nothing,       \* no character
          MaxPending     \* bound: scancodes the keyboard holds back

ASSUME RingAssumption == BufferSize \in Nat /\ BufferSize > 1
ASSUME PendingAssumption == MaxPending \in Nat

\* The modifier keys.  Right Ctrl and right Alt send the left ones' scancodes
\* behind a prefix that the driver takes for the release of an unknown key.
Shifts == {"LShift", "RShift"}
AllModifiers == Shifts \cup {"Caps", "Ctrl", "Alt"}
Keys == Letters \cup Signs \cup Mute \cup Modifiers

ASSUME KeysAssumption ==
  /\ Modifiers \subseteq AllModifiers
  /\ Letters \cap Signs = {} /\ Mute \cap (Letters \cup Signs) = {}
  /\ AllModifiers \cap (Letters \cup Signs \cup Mute) = {}

\* A character: the key and which of its two characters, the upper one being
\* the capital of a letter.
Char == [key : Letters \cup Signs, upper : BOOLEAN]
ASSUME NothingAssumption == Nothing \notin Char

Flags == {"shift", "caps", "ctrl", "alt"}
Scancode == [key : Keys, released : BOOLEAN]

VARIABLES
  buf, head, tail,  \* kb_buffer, kb_buffer_head, kb_buffer_tail
  flags,            \* kb_flags, as the set of flags that are on
  pc,               \* what the main thread does next
  mode,             \* who reads: the shell or the demo
  c,                \* local variable of keyboard_getchar()
  got,              \* the last character keyboard_getchar() returned
  held,             \* keys the user holds down
  port              \* scancodes the keyboard has sent, not yet read

ring == <<buf, head, tail>>
main == <<pc, mode, c, got>>
user == <<held, port>>
vars == <<buf, head, tail, flags, pc, mode, c, got, held, port>>

Indices == 0 .. BufferSize - 1

TypeOK ==
  /\ buf \in [Indices -> Char \cup {Nothing}]
  /\ head \in Indices /\ tail \in Indices
  /\ flags \in SUBSET Flags
  /\ pc \in {"check", "halt", "asleep", "read", "advance", "poll"}
  /\ mode \in {"shell", "demo"}
  /\ c \in Char \cup {Nothing} /\ got \in Char \cup {Nothing}
  /\ held \in SUBSET Keys
  /\ port \in Seq(Scancode)

\* keyboard_init(), then cli_run().
Init ==
  /\ buf = [i \in Indices |-> Nothing]
  /\ head = 0 /\ tail = 0 /\ flags = {}
  /\ pc = "check" /\ mode = "shell" /\ c = Nothing /\ got = Nothing
  /\ held = {} /\ port = <<>>

\* mutant: the ring does not wrap.
SuccUnwrapped(i) == i + 1

\* The index after i in the ring.
Succ(i) == (i + 1) % BufferSize

\* mutant: a ring that has wrapped looks empty.
HasKeyUnwrapped == head > tail

HasKey == head # tail

-----------------------------------------------------------------------------
(* The user and the keyboard.                                              *)

Send(k, up) ==
  /\ Len(port) < MaxPending
  /\ port' = Append(port, [key |-> k, released |-> up])
  /\ UNCHANGED <<buf, head, tail, flags, pc, mode, c, got>>

Press(k) == k \notin held /\ held' = held \cup {k} /\ Send(k, FALSE)

\* A key held down repeats its scancode.
Repeat(k) == k \in held /\ UNCHANGED held /\ Send(k, FALSE)

Release(k) == k \in held /\ held' = held \ {k} /\ Send(k, TRUE)

-----------------------------------------------------------------------------
(* IRQ 1.                                                                  *)

FlagOf(k) ==
  IF k \in Shifts THEN "shift" ELSE IF k = "Ctrl" THEN "ctrl" ELSE "alt"

\* mutant: every modifier toggles its flag, as caps lock does.
Toggled(s) ==
  LET f == IF s.key = "Caps" THEN "caps" ELSE FlagOf(s.key)
  IN  IF s.released THEN flags ELSE (flags \ {f}) \cup ({f} \ flags)

\* The switch over modifier keys.
NewFlags(s) ==
  IF s.key = "Caps"
    THEN IF s.released THEN flags
         ELSE (flags \ {"caps"}) \cup ({"caps"} \ flags)
    ELSE IF s.released THEN flags \ {FlagOf(s.key)} ELSE flags \cup {FlagOf(s.key)}

\* The two tables and caps lock, which swaps the cases of letters only.
CharOf(k) ==
  [key |-> k,
   upper |-> IF k \in Letters THEN ("shift" \in flags) <=> ("caps" \notin flags)
                              ELSE "shift" \in flags]

\* mutant: nothing stops the head at the tail.
PutAnyway(ch) ==
  buf' = [buf EXCEPT ![head] = ch] /\ head' = Succ(head) /\ UNCHANGED tail

\* mutant: two slots stay free.
PutEarly(ch) ==
  IF Succ(head) = tail \/ Succ(Succ(head)) = tail
    THEN UNCHANGED ring
    ELSE /\ buf' = [buf EXCEPT ![head] = ch]
         /\ head' = Succ(head) /\ UNCHANGED tail

\* A full ring drops the character.  One slot always stays free.
Put(ch) ==
  IF Succ(head) = tail
    THEN UNCHANGED ring
    ELSE /\ buf' = [buf EXCEPT ![head] = ch]
         /\ head' = Succ(head) /\ UNCHANGED tail

\* "hlt" ends with the interrupt; getchar then looks at the ring again.
Wake == pc' = IF pc = "asleep" THEN "check" ELSE pc

keyboard_handler ==
  /\ port # <<>> /\ port' = Tail(port)
  /\ LET s == Head(port)
     IN  \/ /\ s.key \in Modifiers
            /\ flags' = NewFlags(s) /\ UNCHANGED ring
         \/ /\ s.key \notin Modifiers
            /\ s.released \/ s.key \in Mute
            /\ UNCHANGED <<flags, ring>>
         \/ /\ s.key \in Letters \cup Signs /\ ~ s.released
            /\ Put(CharOf(s.key)) /\ UNCHANGED flags
  /\ Wake
  /\ UNCHANGED <<mode, c, got, held>>

-----------------------------------------------------------------------------
(* The main thread.                                                        *)

\* "while (!keyboard_has_key())" and "hlt" are two steps: the handler may run
\* in between.
Check ==
  /\ pc = "check"
  /\ pc' = IF HasKey THEN "read" ELSE "halt"
  /\ UNCHANGED <<ring, flags, mode, c, got, user>>

Halt ==
  /\ pc = "halt" /\ pc' = "asleep"
  /\ UNCHANGED <<ring, flags, mode, c, got, user>>

Read ==
  /\ pc = "read" /\ c' = buf[tail] /\ pc' = "advance"
  /\ UNCHANGED <<ring, flags, mode, got, user>>

\* keyboard_getchar() moves the tail and returns.  The shell asks for the next
\* character or, when that one completed the command "test", runs the demo; the
\* demo returns to the shell.
Advance ==
  /\ pc = "advance"
  /\ tail' = Succ(tail) /\ got' = c /\ c' = Nothing
  /\ \/ mode' = "shell" /\ pc' = "check"
     \/ mode = "shell" /\ mode' = "demo" /\ pc' = "poll"
  /\ UNCHANGED <<buf, head, flags, user>>

\* mutant: the demo asks for a key without looking for one.
PollBlocking ==
  /\ pc = "poll" /\ pc' = "check"
  /\ UNCHANGED <<ring, flags, mode, c, got, user>>

\* The demo calls keyboard_getchar() only once it has seen a key; until then
\* it draws frames, which changes nothing here.
Poll ==
  /\ pc = "poll" /\ HasKey /\ pc' = "check"
  /\ UNCHANGED <<ring, flags, mode, c, got, user>>

Main == Check \/ Halt \/ Read \/ Advance \/ Poll

Next ==
  \/ Main \/ keyboard_handler
  \/ \E k \in Keys : Press(k) \/ Repeat(k) \/ Release(k)

Spec == Init /\ [][Next]_vars

\* The CPU keeps executing, and since interrupts stay on, the PIC lets IRQ 1
\* through and every interrupt is acknowledged, a scancode sent is handled.
\* Nothing is assumed of the user.
FairSpec == Spec /\ WF_vars(Main) /\ WF_vars(keyboard_handler)

\* And every key is let go of some time.
ReleasingSpec == FairSpec /\ \A k \in Keys : WF_vars(Release(k))

-----------------------------------------------------------------------------
(* Safety.                                                                 *)

\* What the ring holds, oldest first.
Contents ==
  [i \in 1 .. ((head + BufferSize - tail) % BufferSize) |->
     buf[(tail + i - 1) % BufferSize]]

\* keyboard_handler() and keyboard_getchar() share the ring without a lock.
\* Whatever the order of their steps, the reader gets the characters typed, in
\* their order, each once: the ring is a bounded queue, from which a character
\* leaves when keyboard_getchar() moves the tail.
Queue == INSTANCE BoundedQueue
           WITH Item <- Char, Capacity <- BufferSize - 1,
                queue <- Contents, taken <- got
KeepsOrder == Queue!QueueSpec

\* keyboard_handler() drops the character of a key pressed only when all slots
\* but one are taken, the last one included.
OnlyAFullRingDrops ==
  [][ \/ Len(port') >= Len(port)
      \/ Head(port).released \/ Head(port).key \notin Letters \cup Signs
      \/ Len(Contents) = BufferSize - 1 /\ Contents' = Contents
      \/ Len(Contents') = Len(Contents) + 1 ]_vars

\* The demo never sleeps in keyboard_getchar(): the key it saw is still there.
DemoNeverSleeps == mode = "demo" => pc \notin {"halt", "asleep"}

\* Once the scancodes sent are handled, keyboard_get_flags() tells which modifier
\* keys are held down, repeated scancodes or not.  (Of Shift only for a user who
\* leaves one of the two shift keys alone: both drive one flag.)
FlagsMatchKeys ==
  port = <<>> => /\ ("ctrl" \in flags) = ("Ctrl" \in held)
                 /\ ("alt" \in flags) = ("Alt" \in held)
                 /\ ~ (Shifts \subseteq Modifiers)
                      => ("shift" \in flags) = (held \cap Shifts # {})

-----------------------------------------------------------------------------
(* Liveness.                                                               *)

Waiting == Contents # <<>>

\* While scancodes keep coming, a character in the ring is read: the next
\* interrupt after the reader fell asleep over it wakes the reader.
TypingDelivers == []<>(port # <<>>) => [](Waiting => <>(pc = "advance"))

\* keyboard_getchar() is "blocking": it waits for a character and no longer, so
\* that a character in the ring is read.
WaitingIsRead == Waiting ~> pc = "advance"

\* A key that types a character ends the demo.
CharacterEndsDemo == (mode = "demo" /\ Waiting) ~> mode = "shell"

=============================================================================

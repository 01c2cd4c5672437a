--------------------------- MODULE KeyboardProof ---------------------------
(***************************************************************************)
(* Proofs about the keyboard driver, for every size of the ring, every set *)
(* of keys and every bound on the scancodes that wait in the keyboard.     *)
(***************************************************************************)
EXTENDS Keyboard, TLAPS

LEMMA SuccInRing ==
  ASSUME NEW i \in Indices PROVE Succ(i) \in Indices
BY RingAssumption DEF Succ, Indices

LEMMA FlagOfTyped ==
  ASSUME NEW k \in Modifiers, k # "Caps" PROVE FlagOf(k) \in Flags
BY KeysAssumption DEF FlagOf, Flags, Shifts, AllModifiers

LEMMA CharOfTyped ==
  ASSUME NEW k \in Letters \cup Signs PROVE CharOf(k) \in Char
<1> DEFINE upper == IF k \in Letters THEN ("shift" \in flags) <=> ("caps" \notin flags)
                                   ELSE "shift" \in flags
<1>1. CharOf(k) = [key |-> k, upper |-> upper]
  BY Zenon DEF CharOf
<1>2. upper \in BOOLEAN
  <2>1. k \in Letters => upper \in BOOLEAN
    BY Zenon
  <2>2. ("shift" \in flags) \in BOOLEAN
    OBVIOUS
  <2>3. k \notin Letters => upper \in BOOLEAN
    BY <2>2, Zenon
  <2> QED BY <2>1, <2>3
<1> HIDE DEF upper
<1> QED BY <1>1, <1>2 DEF Char

LEMMA NewFlagsTyped ==
  ASSUME NEW s \in Scancode, s.key \in Modifiers, flags \in SUBSET Flags
  PROVE  NewFlags(s) \in SUBSET Flags
<1>1. CASE s.key = "Caps"
  BY <1>1 DEF NewFlags, Flags
<1>2. CASE s.key # "Caps"
  BY <1>2, FlagOfTyped DEF NewFlags
<1> QED BY <1>1, <1>2

LEMMA PutTyped ==
  ASSUME TypeOK, NEW ch \in Char, Put(ch)
  PROVE  /\ buf' \in [Indices -> Char \cup {Nothing}]
         /\ head' \in Indices /\ tail' \in Indices
BY SuccInRing DEF TypeOK, Put, ring

\* What a step of the handler does to the port and to the types.
LEMMA HandlerTyped ==
  ASSUME TypeOK, keyboard_handler
  PROVE  TypeOK'
<1> DEFINE s == Head(port)
<1>1. s \in Scancode /\ port' \in Seq(Scancode)
  BY DEF TypeOK, keyboard_handler
<1>2. s.key \in Keys
  BY <1>1 DEF Scancode
<1>3. pc' \in {"check", "halt", "asleep", "read", "advance", "poll"}
  BY DEF TypeOK, keyboard_handler, Wake
<1>4. /\ UNCHANGED <<mode, c, got, held>>
      /\ \/ s.key \in Modifiers /\ flags' = NewFlags(s) /\ UNCHANGED ring
         \/ UNCHANGED <<flags, ring>>
         \/ s.key \in Letters \cup Signs /\ Put(CharOf(s.key)) /\ UNCHANGED flags
  BY DEF keyboard_handler
<1>5. CASE s.key \in Modifiers /\ flags' = NewFlags(s) /\ UNCHANGED ring
  <2>1. flags' \in SUBSET Flags
    BY <1>1, <1>5, NewFlagsTyped DEF TypeOK
  <2> QED BY <1>1, <1>3, <1>4, <1>5, <2>1 DEF TypeOK, ring
<1>6. CASE UNCHANGED <<flags, ring>>
  BY <1>1, <1>3, <1>4, <1>6 DEF TypeOK, ring
<1>7. CASE s.key \in Letters \cup Signs /\ Put(CharOf(s.key)) /\ UNCHANGED flags
  <2>1. /\ buf' \in [Indices -> Char \cup {Nothing}]
        /\ head' \in Indices /\ tail' \in Indices
    BY <1>7, CharOfTyped, PutTyped
  <2> QED BY <1>1, <1>3, <1>4, <1>7, <2>1 DEF TypeOK
<1> QED BY <1>4, <1>5, <1>6, <1>7

\* Every variable keeps its type: in particular head and tail stay inside
\* kb_buffer, whatever the handler and the reader do.
THEOREM TypeCorrect == Spec => []TypeOK
<1>1. Init => TypeOK
  BY RingAssumption DEF Init, TypeOK, Indices, Flags, Keys
<1>2. TypeOK /\ [Next]_vars => TypeOK'
  <2> SUFFICES ASSUME TypeOK, [Next]_vars PROVE TypeOK'
    OBVIOUS
  <2>1. ASSUME NEW k \in Keys, NEW up \in BOOLEAN, Send(k, up),
               held' \in SUBSET Keys
        PROVE  TypeOK'
    <3>1. [key |-> k, released |-> up] \in Scancode
      BY DEF Scancode
    <3> QED BY <2>1, <3>1 DEF TypeOK, Send
  <2>2. CASE Check
    BY <2>2 DEF Check, TypeOK, ring, user
  <2>3. CASE Halt
    BY <2>3 DEF Halt, TypeOK, ring, user
  <2>4. CASE Read
    BY <2>4 DEF Read, TypeOK, ring, user
  <2>5. CASE Advance
    BY <2>5, SuccInRing DEF Advance, TypeOK, user
  <2>6. CASE Poll
    BY <2>6 DEF Poll, TypeOK, ring, user
  <2>7. CASE keyboard_handler
    BY <2>7, HandlerTyped
  <2>8. ASSUME NEW k \in Keys, Press(k) PROVE TypeOK'
    BY <2>8, <2>1 DEF Press, TypeOK
  <2>9. ASSUME NEW k \in Keys, Repeat(k) PROVE TypeOK'
    BY <2>9, <2>1 DEF Repeat, TypeOK
  <2>10. ASSUME NEW k \in Keys, Release(k) PROVE TypeOK'
    BY <2>10, <2>1 DEF Release, TypeOK
  <2>11. CASE UNCHANGED vars
    BY <2>11 DEF vars, TypeOK
  <2> QED
    BY <2>2, <2>3, <2>4, <2>5, <2>6, <2>7, <2>8, <2>9, <2>10, <2>11 DEF Next, Main
<1> QED BY <1>1, <1>2, PTL DEF Spec

-----------------------------------------------------------------------------
(* The demo.  Between the moment it sees a key and the moment it takes it,  *)
(* only the handler can move, and the handler never empties the ring.       *)

DemoInv ==
  /\ DemoNeverSleeps
  /\ mode = "demo" /\ pc = "check" => HasKey

LEMMA PutFillsRing ==
  ASSUME NEW ch, Put(ch), HasKey PROVE HasKey'
BY DEF Put, HasKey, ring

LEMMA HandlerKeepsKey ==
  ASSUME keyboard_handler, HasKey PROVE HasKey'
BY PutFillsRing DEF keyboard_handler, HasKey, ring

\* demo_rainbow_circle() calls keyboard_getchar() for a key it has seen, so it
\* never stops in "hlt" and its animation never hangs.
THEOREM DemoAwake == Spec => []DemoNeverSleeps
<1>1. Init => DemoInv
  BY DEF Init, DemoInv, DemoNeverSleeps
<1>2. DemoInv /\ [Next]_vars => DemoInv'
  <2> SUFFICES ASSUME DemoInv, [Next]_vars PROVE DemoInv'
    OBVIOUS
  <2> USE DEF DemoInv, DemoNeverSleeps, HasKey
  <2>1. CASE keyboard_handler
    BY <2>1, HandlerKeepsKey DEF keyboard_handler, Wake
  <2>2. CASE Check
    BY <2>2 DEF Check, ring
  <2>3. CASE Halt
    BY <2>3 DEF Halt, ring
  <2>4. CASE Read
    BY <2>4 DEF Read, ring
  <2>5. CASE Advance
    BY <2>5 DEF Advance
  <2>6. CASE Poll
    BY <2>6 DEF Poll, ring
  <2>7. ASSUME NEW k \in Keys, Press(k) \/ Repeat(k) \/ Release(k) PROVE DemoInv'
    BY <2>7 DEF Press, Repeat, Release, Send
  <2>8. CASE UNCHANGED vars
    BY <2>8 DEF vars
  <2> QED
    BY <2>1, <2>2, <2>3, <2>4, <2>5, <2>6, <2>7, <2>8 DEF Next, Main
<1>3. DemoInv => DemoNeverSleeps
  BY DEF DemoInv
<1> QED BY <1>1, <1>2, <1>3, PTL DEF Spec

-----------------------------------------------------------------------------
(* Modifiers.  A flag lags behind its key by the scancodes that wait: the  *)
(* last of them that is about the key tells how the key is now, and when    *)
(* there is none the flag does.                                             *)

Follows(k, f) ==
  /\ (\A i \in 1 .. Len(port) : port[i].key # k) => (f \in flags <=> k \in held)
  /\ \A i \in 1 .. Len(port) :
       /\ port[i].key = k
       /\ \A j \in 1 .. Len(port) : j > i => port[j].key # k
       => (port[i].released <=> k \notin held)

\* The keys that have a flag of their own, a shift key if it is the only one.
OneShift == {k \in Shifts : Shifts \cap Modifiers \subseteq {k}}
Own == {<<"Ctrl", "ctrl">>, <<"Alt", "alt">>} \cup (OneShift \X {"shift"})

FollowsInv == \A o \in Own : Follows(o[1], o[2])

LEMMA SendFollows ==
  ASSUME TypeOK, NEW k, NEW f, Follows(k, f),
         NEW kk \in Keys, NEW up \in BOOLEAN, Send(kk, up),
         held' = IF up THEN held \ {kk} ELSE held \cup {kk}
  PROVE  Follows(k, f)'
<1>1. /\ port \in Seq(Scancode)
      /\ port' = Append(port, [key |-> kk, released |-> up])
      /\ flags' = flags
  BY DEF TypeOK, Send
<1>2. /\ Len(port') = Len(port) + 1 /\ Len(port) \in Nat
      /\ \A i \in 1 .. Len(port) : port'[i] = port[i]
      /\ port'[Len(port) + 1] = [key |-> kk, released |-> up]
  BY <1>1
<1>3. CASE kk = k
  BY <1>1, <1>2, <1>3 DEF Follows
<1>4. CASE kk # k
  <2>1. k \in held' <=> k \in held
    BY <1>4
  <2> QED BY <1>1, <1>2, <1>4, <2>1 DEF Follows
<1> QED BY <1>3, <1>4

LEMMA OwnIsModifier ==
  ASSUME NEW k, NEW f, <<k, f>> \in Own
  PROVE  k \in AllModifiers
BY DEF Own, OneShift, Shifts, AllModifiers

LEMMA HandlerFollows ==
  ASSUME TypeOK, NEW k, NEW f, Follows(k, f), keyboard_handler,
         <<k, f>> \in Own
  PROVE  Follows(k, f)'
<1> DEFINE s == Head(port)
<1>1. /\ port \in Seq(Scancode) /\ port # <<>> /\ port' = Tail(port)
      /\ held' = held
  BY DEF TypeOK, keyboard_handler
<1>2. /\ Len(port) \in Nat \ {0} /\ Len(port') = Len(port) - 1
      /\ \A i \in 1 .. Len(port') : port'[i] = port[i + 1]
      /\ s = port[1]
  BY <1>1
<1>3. /\ s.key # k => (f \in flags' <=> f \in flags)
      /\ s.key = k => (f \in flags' <=> ~ s.released)
  <2>1. s.key \in Keys /\ s.released \in BOOLEAN
    <3>1. s \in Scancode
      BY <1>1
    <3> QED BY <3>1 DEF Scancode
  <2>2. k # "Caps" /\ FlagOf(k) = f /\ f # "caps"
    BY DEF FlagOf, Own, OneShift, Shifts
  <2>3. s.key \in Modifiers /\ s.key # "Caps" /\ s.key # k => FlagOf(s.key) # f
    BY KeysAssumption DEF FlagOf, Own, OneShift, Shifts, AllModifiers
  <2>4. CASE s.key \in Modifiers
    <3>1. flags' = NewFlags(s)
      BY <2>4, KeysAssumption DEF keyboard_handler
    <3> QED BY <2>1, <2>2, <2>3, <2>4, <3>1 DEF NewFlags
  <2>5. CASE s.key \notin Modifiers
    <3>1. flags' = flags
      BY <2>5 DEF keyboard_handler
    <3>2. s.key # k
      BY <2>1, <2>5, OwnIsModifier, KeysAssumption DEF Keys
    <3> QED BY <3>1, <3>2
  <2> QED BY <2>4, <2>5
<1>4. (\A i \in 1 .. Len(port') : port'[i].key # k)
        => (f \in flags' <=> k \in held')
  <2> SUFFICES ASSUME \A i \in 1 .. Len(port') : port'[i].key # k
               PROVE  f \in flags' <=> k \in held'
    OBVIOUS
  <2>1. \A j \in 1 .. Len(port) : j > 1 => port[j].key # k
    <3> TAKE j \in 1 .. Len(port)
    <3> HAVE j > 1
    <3>1. j - 1 \in 1 .. Len(port') /\ port'[j - 1] = port[(j - 1) + 1]
      BY <1>2
    <3> QED BY <1>2, <3>1
  <2>2. CASE s.key = k
    <3>1. s.released <=> k \notin held
      BY <1>2, <2>1, <2>2 DEF Follows
    <3> QED BY <1>1, <1>3, <2>2, <3>1
  <2>3. CASE s.key # k
    <3>1. \A j \in 1 .. Len(port) : port[j].key # k
      BY <1>2, <2>1, <2>3
    <3> QED BY <1>1, <1>3, <2>3, <3>1 DEF Follows
  <2> QED BY <2>2, <2>3
<1>5. ASSUME NEW i \in 1 .. Len(port'), port'[i].key = k,
             \A j \in 1 .. Len(port') : j > i => port'[j].key # k
      PROVE  port'[i].released <=> k \notin held'
  <2>1. i + 1 \in 1 .. Len(port) /\ port[i + 1] = port'[i]
    BY <1>2
  <2>2. \A j \in 1 .. Len(port) : j > i + 1 => port[j].key # k
    <3> TAKE j \in 1 .. Len(port)
    <3> HAVE j > i + 1
    <3>1. j - 1 \in 1 .. Len(port') /\ port'[j - 1] = port[(j - 1) + 1] /\ j - 1 > i
      BY <1>2
    <3> QED BY <1>2, <1>5, <3>1
  <2> QED BY <1>1, <1>5, <2>1, <2>2 DEF Follows
<1> QED BY <1>4, <1>5 DEF Follows

LEMMA OthersFollow ==
  ASSUME NEW k, NEW f, Follows(k, f), UNCHANGED <<flags, held, port>>
  PROVE  Follows(k, f)'
BY DEF Follows

\* Once every scancode sent is handled, keyboard_get_flags() tells whether Ctrl,
\* Alt and a sole shift key are held down, however often the keyboard repeated.
THEOREM FlagsFollowKeys == Spec => []FlagsMatchKeys
<1>1. Init => FollowsInv
  BY DEF Init, Follows, FollowsInv, Own
<1>2. TypeOK /\ FollowsInv /\ [Next]_vars => FollowsInv'
  <2> SUFFICES ASSUME TypeOK, FollowsInv, [Next]_vars,
                      NEW k, NEW f, <<k, f>> \in Own
               PROVE  Follows(k, f)'
    BY DEF FollowsInv, Own
  <2>0. Follows(k, f)
    BY DEF FollowsInv
  <2>1. CASE keyboard_handler
    BY <2>0, <2>1, HandlerFollows
  <2>2. CASE Main
    BY <2>0, <2>2, OthersFollow DEF Main, Check, Halt, Read, Advance, Poll, user
  <2>3. ASSUME NEW kk \in Keys, Press(kk) \/ Repeat(kk) PROVE Follows(k, f)'
    <3>1. held' = held \cup {kk} /\ Send(kk, FALSE)
      BY <2>3 DEF Press, Repeat
    <3> QED BY <2>0, <3>1, SendFollows
  <2>4. ASSUME NEW kk \in Keys, Release(kk) PROVE Follows(k, f)'
    <3>1. held' = held \ {kk} /\ Send(kk, TRUE)
      BY <2>4 DEF Release
    <3> QED BY <2>0, <3>1, SendFollows
  <2>5. CASE UNCHANGED vars
    BY <2>0, <2>5, OthersFollow DEF vars
  <2> QED BY <2>1, <2>2, <2>3, <2>4, <2>5 DEF Next
<1>3. TypeOK /\ FollowsInv => FlagsMatchKeys
  <2> SUFFICES ASSUME TypeOK, FollowsInv, port = <<>> PROVE FlagsMatchKeys
    BY DEF FlagsMatchKeys
  <2>1. \A o \in Own : o[2] \in flags <=> o[1] \in held
    BY DEF FollowsInv, Follows
  <2>2. /\ <<"Ctrl", "ctrl">> \in Own /\ <<"Alt", "alt">> \in Own
        /\ \A k \in OneShift : <<k, "shift">> \in Own
    BY DEF Own
  <2>3. ASSUME ~ (Shifts \subseteq Modifiers)
        PROVE  "shift" \in flags <=> held \cap Shifts # {}
    <3>1. PICK k \in OneShift : Shifts \cap Modifiers \subseteq {k}
      BY <2>3 DEF OneShift, Shifts
    <3>2. held \subseteq Keys /\ Keys \cap Shifts \subseteq {k}
      BY <3>1, KeysAssumption DEF TypeOK, Keys, AllModifiers
    <3>3. "shift" \in flags <=> k \in held
      BY <2>1, <2>2, <3>1
    <3> QED BY <3>1, <3>2, <3>3 DEF OneShift
  <2> QED BY <2>1, <2>2, <2>3 DEF FlagsMatchKeys
<1> QED BY <1>1, <1>2, <1>3, TypeCorrect, PTL DEF Spec

-----------------------------------------------------------------------------
(* The ring as a queue.  Contents is written with "%", as the code is; the  *)
(* lemmas say once what that comes to and what a store at the head and a    *)
(* move of the tail do to the sequence.                                     *)

Distance(h, t) == (h + BufferSize - t) % BufferSize
Slot(t, i) == (t + i - 1) % BufferSize

LEMMA Wrapped ==
  ASSUME NEW n \in 0 .. 2 * BufferSize - 1
  PROVE  n % BufferSize = IF n < BufferSize THEN n ELSE n - BufferSize
BY RingAssumption

LEMMA SuccIs ==
  ASSUME NEW i \in Indices
  PROVE  Succ(i) = IF i = BufferSize - 1 THEN 0 ELSE i + 1
BY RingAssumption, Wrapped DEF Succ, Indices

LEMMA DistanceIs ==
  ASSUME NEW h \in Indices, NEW t \in Indices
  PROVE  /\ Distance(h, t) = IF h >= t THEN h - t ELSE h + BufferSize - t
         /\ Distance(h, t) \in 0 .. BufferSize - 1
<1>1. h + BufferSize - t \in 0 .. 2 * BufferSize - 1
  BY RingAssumption DEF Indices
<1> QED BY <1>1, Wrapped, RingAssumption DEF Distance, Indices

LEMMA SlotIs ==
  ASSUME NEW t \in Indices, NEW i \in 1 .. BufferSize
  PROVE  /\ Slot(t, i) = IF t + i - 1 < BufferSize THEN t + i - 1
                                                   ELSE t + i - 1 - BufferSize
         /\ Slot(t, i) \in Indices
<1>1. t + i - 1 \in 0 .. 2 * BufferSize - 1
  BY RingAssumption DEF Indices
<1> QED BY <1>1, Wrapped, RingAssumption DEF Slot, Indices

LEMMA ContentsIs ==
  Contents = [i \in 1 .. Distance(head, tail) |-> buf[Slot(tail, i)]]
BY DEF Contents, Distance, Slot

LEMMA NewContentsIs ==
  Contents' = [i \in 1 .. Distance(head', tail') |-> buf'[Slot(tail', i)]]
BY DEF Contents, Distance, Slot

\* The slots between tail and head are the head's predecessors and not the head.
LEMMA HeadIsNext ==
  ASSUME NEW h \in Indices, NEW t \in Indices, Succ(h) # t
  PROVE  /\ Distance(Succ(h), t) = Distance(h, t) + 1
         /\ Distance(h, t) + 1 \in 1 .. BufferSize - 1
         /\ Slot(t, Distance(h, t) + 1) = h
         /\ \A i \in 1 .. Distance(h, t) : Slot(t, i) # h
<1> DEFINE d == Distance(h, t)
<1>1. /\ Succ(h) \in Indices
      /\ Succ(h) = IF h = BufferSize - 1 THEN 0 ELSE h + 1
  BY SuccInRing, SuccIs
<1>2. /\ d = IF h >= t THEN h - t ELSE h + BufferSize - t
      /\ d \in 0 .. BufferSize - 1
  BY DistanceIs
<1>3. Distance(Succ(h), t) =
        IF Succ(h) >= t THEN Succ(h) - t ELSE Succ(h) + BufferSize - t
  BY <1>1, DistanceIs
<1> HIDE DEF d
<1>4. Distance(Succ(h), t) = d + 1 /\ d + 1 \in 1 .. BufferSize - 1
  BY <1>1, <1>2, <1>3, RingAssumption DEF Indices
<1>5. \A i \in 1 .. d + 1 :
        Slot(t, i) = IF t + i - 1 < BufferSize THEN t + i - 1
                                               ELSE t + i - 1 - BufferSize
  <2> TAKE i \in 1 .. d + 1
  <2>1. i \in 1 .. BufferSize
    BY <1>4, RingAssumption
  <2> QED BY <2>1, SlotIs
<1>6. Slot(t, d + 1) = h
  <2>1. Slot(t, d + 1) = IF t + (d + 1) - 1 < BufferSize THEN t + (d + 1) - 1
                                               ELSE t + (d + 1) - 1 - BufferSize
    BY <1>4, <1>5
  <2> QED BY <1>2, <1>4, <2>1, RingAssumption DEF Indices
<1>7. \A i \in 1 .. d : Slot(t, i) # h
  <2> TAKE i \in 1 .. d
  <2>1. Slot(t, i) = IF t + i - 1 < BufferSize THEN t + i - 1
                                               ELSE t + i - 1 - BufferSize
    BY <1>2, <1>4, <1>5
  <2> QED BY <1>2, <1>4, <2>1, RingAssumption DEF Indices
<1> QED BY <1>4, <1>6, <1>7 DEF d

\* keyboard_handler() stores at the head: the sequence grows at its end.
LEMMA PutAppends ==
  ASSUME TypeOK, NEW ch, Put(ch), Succ(head) # tail
  PROVE  Contents' = Append(Contents, ch) /\ Len(Contents) + 1 <= BufferSize - 1
<1> DEFINE n == Distance(head, tail)
<1>1. /\ head \in Indices /\ tail \in Indices /\ tail' = tail /\ head' = Succ(head)
      /\ buf' = [buf EXCEPT ![head] = ch]
      /\ buf \in [Indices -> Char \cup {Nothing}]
  BY DEF TypeOK, Put
<1>2. /\ Distance(head', tail) = n + 1 /\ n \in Nat /\ n + 1 <= BufferSize - 1
      /\ Slot(tail, n + 1) = head /\ \A i \in 1 .. n : Slot(tail, i) # head
  BY <1>1, HeadIsNext, DistanceIs
<1>3. Contents' = [i \in 1 .. n + 1 |-> buf'[Slot(tail, i)]]
  BY <1>1, <1>2, NewContentsIs
<1>4. \A i \in 1 .. n : Slot(tail, i) \in Indices
  BY <1>1, <1>2, SlotIs, RingAssumption
<1>5. \A i \in 1 .. n + 1 : buf'[Slot(tail, i)] = IF i = n + 1 THEN ch ELSE buf[Slot(tail, i)]
  BY <1>1, <1>2, <1>4
<1>6. Contents = [i \in 1 .. n |-> buf[Slot(tail, i)]]
  BY ContentsIs
<1> HIDE DEF n
<1>7. Len(Contents) = n
  BY <1>2, <1>6
<1> QED BY <1>2, <1>3, <1>5, <1>6, <1>7

\* keyboard_getchar() moves the tail: the sequence loses its first element.
LEMMA TailMoves ==
  ASSUME NEW h \in Indices, NEW t \in Indices, h # t
  PROVE  /\ Distance(h, t) \in 1 .. BufferSize - 1
         /\ Distance(h, Succ(t)) = Distance(h, t) - 1
         /\ Slot(t, 1) = t
         /\ \A i \in 1 .. Distance(h, t) - 1 : Slot(Succ(t), i) = Slot(t, i + 1)
<1> DEFINE d == Distance(h, t)
<1>1. /\ Succ(t) \in Indices
      /\ Succ(t) = IF t = BufferSize - 1 THEN 0 ELSE t + 1
  BY SuccInRing, SuccIs
<1>2. /\ d = IF h >= t THEN h - t ELSE h + BufferSize - t
      /\ d \in 0 .. BufferSize - 1
  BY DistanceIs
<1>3. Distance(h, Succ(t)) =
        IF h >= Succ(t) THEN h - Succ(t) ELSE h + BufferSize - Succ(t)
  BY <1>1, DistanceIs
<1> HIDE DEF d
<1>4. Distance(h, Succ(t)) = d - 1 /\ d \in 1 .. BufferSize - 1
  BY <1>1, <1>2, <1>3, RingAssumption DEF Indices
<1>5. Slot(t, 1) = t
  <2>1. 1 \in 1 .. BufferSize
    BY RingAssumption
  <2>2. Slot(t, 1) = IF t + 1 - 1 < BufferSize THEN t + 1 - 1 ELSE t + 1 - 1 - BufferSize
    BY <2>1, SlotIs
  <2> QED BY <2>2, RingAssumption DEF Indices
<1>6. ASSUME NEW i \in 1 .. d - 1
      PROVE  Slot(Succ(t), i) = Slot(t, i + 1)
  <2>1. i \in 1 .. BufferSize /\ i + 1 \in 1 .. BufferSize
    BY <1>4, RingAssumption
  <2>2. Slot(t, i + 1) = IF t + (i + 1) - 1 < BufferSize THEN t + (i + 1) - 1
                                                   ELSE t + (i + 1) - 1 - BufferSize
    BY <2>1, SlotIs
  <2>3. Slot(Succ(t), i) = IF Succ(t) + i - 1 < BufferSize THEN Succ(t) + i - 1
                                                   ELSE Succ(t) + i - 1 - BufferSize
    BY <1>1, <2>1, SlotIs
  <2> QED BY <1>1, <2>1, <2>2, <2>3, RingAssumption DEF Indices
<1> QED BY <1>4, <1>5, <1>6 DEF d

LEMMA AdvanceTakes ==
  ASSUME TypeOK, HasKey, UNCHANGED <<buf, head>>, tail' = Succ(tail)
  PROVE  /\ Contents # <<>> /\ Head(Contents) = buf[tail]
         /\ Contents' = Tail(Contents)
<1> DEFINE n == Distance(head, tail)
<1>1. head \in Indices /\ tail \in Indices /\ head # tail
  BY DEF TypeOK, HasKey
<1>2. /\ n \in Nat \ {0} /\ Distance(head, Succ(tail)) = n - 1 /\ Slot(tail, 1) = tail
      /\ \A i \in 1 .. n - 1 : Slot(Succ(tail), i) = Slot(tail, i + 1)
  BY <1>1, TailMoves
<1>3. Contents = [i \in 1 .. n |-> buf[Slot(tail, i)]]
  BY ContentsIs
<1>4. Contents' = [i \in 1 .. n - 1 |-> buf[Slot(Succ(tail), i)]]
  BY <1>2, NewContentsIs
<1> HIDE DEF n
<1>5. Len(Contents) = n /\ Contents[1] = buf[tail]
  BY <1>2, <1>3
<1>6. Contents' = [i \in 1 .. n - 1 |-> Contents[i + 1]]
  BY <1>2, <1>3, <1>4
<1>7. Head(Contents) = Contents[1] /\ Tail(Contents) = [i \in 1 .. n - 1 |-> Contents[i + 1]]
  BY <1>2, <1>3, <1>5
<1> QED BY <1>2, <1>5, <1>6, <1>7

-----------------------------------------------------------------------------
(* The refinement.  The reader looks, reads and moves the tail in three      *)
(* steps, and the handler runs in between: it never touches the character    *)
(* the reader has seen, so the step that moves the tail is the abstract Take.*)

QueueInv ==
  /\ pc \in {"read", "advance"} => HasKey
  /\ pc = "advance" => c = buf[tail]

LEMMA PutKeepsFirst ==
  ASSUME TypeOK, HasKey, NEW ch, Put(ch) PROVE buf'[tail'] = buf[tail]
BY DEF TypeOK, HasKey, Put, ring

LEMMA HandlerKeepsFirst ==
  ASSUME TypeOK, HasKey, keyboard_handler
  PROVE  buf'[tail'] = buf[tail]
BY PutKeepsFirst DEF keyboard_handler, ring

LEMMA QueueInvHolds == Spec => []QueueInv
<1>1. Init => QueueInv
  BY DEF Init, QueueInv
<1>2. TypeOK /\ QueueInv /\ [Next]_vars => QueueInv'
  <2> SUFFICES ASSUME TypeOK, QueueInv, [Next]_vars PROVE QueueInv'
    OBVIOUS
  <2> USE DEF QueueInv, HasKey
  <2>1. CASE keyboard_handler
    <3>1. pc' \in {"read", "advance"} => pc' = pc
      BY <2>1 DEF keyboard_handler, Wake
    <3>2. c' = c
      BY <2>1 DEF keyboard_handler
    <3> QED BY <2>1, <3>1, <3>2, HandlerKeepsKey, HandlerKeepsFirst
  <2>2. CASE Check
    BY <2>2 DEF Check, ring
  <2>3. CASE Halt
    BY <2>3 DEF Halt, ring
  <2>4. CASE Read
    BY <2>4 DEF Read, ring
  <2>5. CASE Advance
    BY <2>5 DEF Advance
  <2>6. CASE Poll
    BY <2>6 DEF Poll, ring
  <2>7. ASSUME NEW k \in Keys, Press(k) \/ Repeat(k) \/ Release(k) PROVE QueueInv'
    BY <2>7 DEF Press, Repeat, Release, Send
  <2>8. CASE UNCHANGED vars
    BY <2>8 DEF vars
  <2> QED
    BY <2>1, <2>2, <2>3, <2>4, <2>5, <2>6, <2>7, <2>8 DEF Next, Main
<1> QED BY <1>1, <1>2, TypeCorrect, PTL DEF Spec

\* Steps that leave the ring alone leave its contents alone.
LEMMA ContentsKept == UNCHANGED ring => UNCHANGED Contents
BY DEF ring, Contents

LEMMA ContentsCount == ASSUME TypeOK PROVE Len(Contents) \in 0 .. BufferSize - 1
<1>1. Distance(head, tail) \in 0 .. BufferSize - 1
  BY DistanceIs DEF TypeOK
<1>2. Len(Contents) = Distance(head, tail)
  BY <1>1, ContentsIs, RingAssumption
<1> QED BY <1>1, <1>2

LEMMA FullRing ==
  ASSUME TypeOK, Succ(head) = tail PROVE Len(Contents) = BufferSize - 1
<1>1. head \in Indices /\ tail \in Indices
  BY DEF TypeOK
<1>2. /\ Distance(head, tail) = IF head >= tail THEN head - tail
                                                ELSE head + BufferSize - tail
      /\ tail = IF head = BufferSize - 1 THEN 0 ELSE head + 1
  BY <1>1, DistanceIs, SuccIs
<1>3. Distance(head, tail) = BufferSize - 1
  BY <1>1, <1>2, RingAssumption DEF Indices
<1>4. Contents = [i \in 1 .. BufferSize - 1 |-> buf[Slot(tail, i)]]
  BY <1>3, ContentsIs
<1> QED BY <1>4, RingAssumption

\* A step of the handler, as the queue sees it.
LEMMA HandlerOffers ==
  ASSUME TypeOK, keyboard_handler
  PROVE  \/ UNCHANGED Contents
         \/ /\ Head(port).key \in Letters \cup Signs
            /\ Contents' = Append(Contents, CharOf(Head(port).key))
            /\ Len(Contents) + 1 <= BufferSize - 1
<1>1. CASE UNCHANGED ring
  BY <1>1, ContentsKept
<1>2. CASE /\ Head(port).key \in Letters \cup Signs
           /\ Put(CharOf(Head(port).key))
  <2>1. CASE Succ(head) = tail
    BY <1>2, <2>1, ContentsKept DEF Put
  <2>2. CASE Succ(head) # tail
    BY <1>2, <2>2, PutAppends
  <2> QED BY <2>1, <2>2
<1> QED BY <1>1, <1>2 DEF keyboard_handler

\* keyboard_handler() and keyboard_getchar() share the ring without a lock, and
\* it is a queue: no character is lost, repeated or overtaken, whatever the size
\* of the ring and wherever the interrupt falls.
THEOREM RingIsQueue == Spec => KeepsOrder
<1>1. Init => Queue!Init
  <2> SUFFICES ASSUME Init PROVE Queue!Init
    OBVIOUS
  <2>1. Distance(0, 0) = 0
    <3>1. 0 \in Indices
      BY RingAssumption DEF Indices
    <3> QED BY <3>1, DistanceIs, RingAssumption
  <2>2. Contents = [i \in 1 .. 0 |-> buf[Slot(tail, i)]]
    BY <2>1, ContentsIs DEF Init
  <2>3. Contents = <<>>
    BY <2>2
  <2> QED BY <2>3 DEF Init, Queue!Init
<1>2. TypeOK /\ QueueInv /\ [Next]_vars => [Queue!Next]_(Queue!queueVars)
  <2> SUFFICES ASSUME TypeOK, QueueInv, [Next]_vars
               PROVE  Queue!Next \/ UNCHANGED <<Contents, got>>
    BY DEF Queue!queueVars
  <2>1. CASE keyboard_handler
    <3>1. got' = got
      BY <2>1 DEF keyboard_handler
    <3>2. CASE UNCHANGED Contents
      BY <3>1, <3>2
    <3>3. CASE /\ Head(port).key \in Letters \cup Signs
               /\ Contents' = Append(Contents, CharOf(Head(port).key))
               /\ Len(Contents) + 1 <= BufferSize - 1
      <4> DEFINE ch == CharOf(Head(port).key)
      <4>1. ch \in Char
        BY <3>3, CharOfTyped
      <4>2. Len(Contents) < BufferSize - 1
        BY <3>3, ContentsCount, RingAssumption
      <4> HIDE DEF ch
      <4>3. Queue!Offer(ch)
        BY <3>1, <3>3, <4>2 DEF ch, Queue!Offer
      <4> QED BY <4>1, <4>3 DEF Queue!Next
    <3> QED BY <2>1, <3>2, <3>3, HandlerOffers
  <2>2. CASE Advance
    <3>1. HasKey /\ c = buf[tail] /\ UNCHANGED <<buf, head>> /\ tail' = Succ(tail)
          /\ got' = c
      BY <2>2 DEF QueueInv, Advance
    <3>2. Queue!Take
      BY <3>1, AdvanceTakes DEF Queue!Take
    <3> QED BY <3>2 DEF Queue!Next
  <2>3. CASE Check \/ Halt \/ Read \/ Poll
    <3>1. UNCHANGED ring /\ UNCHANGED got
      BY <2>3 DEF Check, Halt, Read, Poll
    <3> QED BY <3>1, ContentsKept
  <2>4. ASSUME NEW k \in Keys, Press(k) \/ Repeat(k) \/ Release(k)
        PROVE  UNCHANGED <<Contents, got>>
    <3>1. UNCHANGED ring /\ UNCHANGED got
      BY <2>4 DEF Press, Repeat, Release, Send, ring
    <3> QED BY <3>1, ContentsKept
  <2>5. CASE UNCHANGED vars
    BY <2>5, ContentsKept DEF vars, ring
  <2> QED BY <2>1, <2>2, <2>3, <2>4, <2>5 DEF Next, Main
<1> QED BY <1>1, <1>2, TypeCorrect, QueueInvHolds, PTL DEF Spec, KeepsOrder, Queue!QueueSpec

\* A character is only dropped when BufferSize - 1 are waiting, so that every slot
\* but one, the last of the array included, is used before anything is lost.
THEOREM DropsOnlyWhenFull == Spec => OnlyAFullRingDrops
<1> DEFINE Goal == \/ Len(port') >= Len(port)
                   \/ Head(port).released \/ Head(port).key \notin Letters \cup Signs
                   \/ Len(Contents) = BufferSize - 1 /\ Contents' = Contents
                   \/ Len(Contents') = Len(Contents) + 1
<1>1. TypeOK /\ [Next]_vars => [Goal]_vars
  <2> SUFFICES ASSUME TypeOK, Next PROVE Goal
    OBVIOUS
  <2>1. CASE keyboard_handler
    <3> SUFFICES ASSUME Head(port).key \in Letters \cup Signs, ~ Head(port).released
                 PROVE  \/ Len(Contents) = BufferSize - 1 /\ Contents' = Contents
                        \/ Len(Contents') = Len(Contents) + 1
      OBVIOUS
    <3> DEFINE ch == CharOf(Head(port).key)
    <3>1. Put(ch)
      BY <2>1, KeysAssumption DEF keyboard_handler, AllModifiers, Shifts
    <3> HIDE DEF ch
    <3>2. CASE Succ(head) = tail
      <4>1. UNCHANGED ring
        BY <3>1, <3>2 DEF Put
      <4> QED BY <3>2, <4>1, FullRing, ContentsKept
    <3>3. CASE Succ(head) # tail
      <4>1. Contents' = Append(Contents, ch)
        BY <3>1, <3>3, PutAppends
      <4>2. Contents = [i \in 1 .. Distance(head, tail) |-> buf[Slot(tail, i)]]
            /\ Distance(head, tail) \in Nat
        BY ContentsIs, DistanceIs DEF TypeOK
      <4> QED BY <4>1, <4>2
    <3> QED BY <3>2, <3>3
  <2>2. CASE Main
    <3>1. port' = port
      BY <2>2 DEF Main, Check, Halt, Read, Advance, Poll, user
    <3> QED BY <3>1 DEF TypeOK
  <2>3. ASSUME NEW k \in Keys, Press(k) \/ Repeat(k) \/ Release(k) PROVE Goal
    <3>1. \E s : port' = Append(port, s)
      BY <2>3 DEF Press, Repeat, Release, Send
    <3> QED BY <3>1 DEF TypeOK
  <2> QED BY <2>1, <2>2, <2>3 DEF Next
<1> QED BY <1>1, TypeCorrect, PTL DEF Spec, OnlyAFullRingDrops

=============================================================================

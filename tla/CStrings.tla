------------------------------ MODULE CStrings ------------------------------
(***************************************************************************)
(* The string and memory functions of string.c.  Memory is a sequence of   *)
(* bytes, an address is an index into it and NULL is 0; a function that    *)
(* writes gives the memory it leaves.  The loops are recursive operators.  *)
(* Bytes are below 128, where char and uint8_t agree.                      *)
(***************************************************************************)
EXTENDS Integers, Sequences

NUL == 0
NULL == 0

RECURSIVE memcpy(_, _, _, _)
memcpy(m, d, s, n) ==
  IF n = 0 THEN m ELSE memcpy([m EXCEPT ![d] = m[s]], d + 1, s + 1, n - 1)

\* memmove's other direction: from the last byte to the first.
RECURSIVE copydown(_, _, _, _)
copydown(m, d, s, n) ==
  IF n = 0 THEN m ELSE copydown([m EXCEPT ![d + n - 1] = m[s + n - 1]], d, s, n - 1)

memmoveUp(m, d, s, n) == memcpy(m, d, s, n)     \* mutant: one direction only
memmove(m, d, s, n) == IF d < s THEN memcpy(m, d, s, n) ELSE copydown(m, d, s, n)

RECURSIVE memset(_, _, _, _)
memset(m, p, c, n) == IF n = 0 THEN m ELSE memset([m EXCEPT ![p] = c], p + 1, c, n - 1)

RECURSIVE memcmp(_, _, _, _)
memcmp(m, p, q, n) ==
  IF n = 0 THEN 0
  ELSE IF m[p] # m[q] THEN m[p] - m[q] ELSE memcmp(m, p + 1, q + 1, n - 1)

-----------------------------------------------------------------------------
(* Lengths and copies.                                                     *)

RECURSIVE strlen(_, _)
strlen(m, p) == IF m[p] = NUL THEN 0 ELSE 1 + strlen(m, p + 1)

RECURSIVE strnlen(_, _, _)
strnlen(m, p, n) == IF n = 0 \/ m[p] = NUL THEN 0 ELSE 1 + strnlen(m, p + 1, n - 1)

RECURSIVE strcpy(_, _, _)
strcpy(m, d, s) ==
  LET m2 == [m EXCEPT ![d] = m[s]]
  IN  IF m[s] = NUL THEN m2 ELSE strcpy(m2, d + 1, s + 1)

\* The copy of the terminator is not counted: n more zeros follow it.
RECURSIVE strncpy(_, _, _, _)
strncpy(m, d, s, n) ==
  IF n = 0 THEN m
  ELSE LET m2 == [m EXCEPT ![d] = m[s]]
       IN  IF m[s] = NUL THEN memset(m2, d + 1, NUL, n)
                         ELSE strncpy(m2, d + 1, s + 1, n - 1)

strcat(m, d, s) == strcpy(m, d + strlen(m, d), s)

ended(m, d) == [m EXCEPT ![d] = NUL]

\* The loop of strncat, from the end of the destination on.
RECURSIVE append(_, _, _, _)
append(m, d, s, n) ==
  IF n = 0 \/ m[s] = NUL THEN ended(m, d)
  ELSE append([m EXCEPT ![d] = m[s]], d + 1, s + 1, n - 1)

strncat(m, d, s, n) == append(m, d + strlen(m, d), s, n)

-----------------------------------------------------------------------------
(* Comparisons.                                                            *)

RECURSIVE strcmp(_, _, _)
strcmp(m, p, q) ==
  IF m[p] # NUL /\ m[q] # NUL /\ m[p] = m[q] THEN strcmp(m, p + 1, q + 1)
                                             ELSE m[p] - m[q]

RECURSIVE strncmp(_, _, _, _)
strncmp(m, p, q, n) ==
  IF n = 0 THEN 0
  ELSE IF m[p] # NUL /\ m[q] # NUL /\ m[p] = m[q] THEN strncmp(m, p + 1, q + 1, n - 1)
                                                  ELSE m[p] - m[q]

Between(c, first, last) == first <= c /\ c <= last

lower(c) == IF Between(c, 65, 90) THEN c + 32 ELSE c
upper(c) == IF Between(c, 97, 122) THEN c - 32 ELSE c

RECURSIVE strcasecmp(_, _, _)
strcasecmp(m, p, q) ==
  IF m[p] = NUL \/ m[q] = NUL THEN m[p] - m[q]
  ELSE IF lower(m[p]) # lower(m[q]) THEN lower(m[p]) - lower(m[q])
                                    ELSE strcasecmp(m, p + 1, q + 1)

RECURSIVE strncasecmp(_, _, _, _)
strncasecmp(m, p, q, n) ==
  IF n = 0 THEN 0
  ELSE IF m[p] = NUL \/ m[q] = NUL THEN m[p] - m[q]
  ELSE IF lower(m[p]) # lower(m[q]) THEN lower(m[p]) - lower(m[q])
                                    ELSE strncasecmp(m, p + 1, q + 1, n - 1)

-----------------------------------------------------------------------------
(* Searches.                                                               *)

RECURSIVE strchr(_, _, _)
strchr(m, p, c) ==
  IF m[p] = c THEN p ELSE IF m[p] = NUL THEN NULL ELSE strchr(m, p + 1, c)

\* strrchr's loop, with the last address that matched so far.
RECURSIVE lastchr(_, _, _, _)
lastchr(m, p, c, last) ==
  IF m[p] = NUL THEN IF c = NUL THEN p ELSE last
  ELSE lastchr(m, p + 1, c, IF m[p] = c THEN p ELSE last)

strrchr(m, p, c) == lastchr(m, p, c, NULL)

\* Is the byte one of the string at a?  (The inner loops of the next three.)
accepts(m, a, c) == c # NUL /\ strchr(m, a, c) # NULL

RECURSIVE strpbrk(_, _, _)
strpbrk(m, p, a) ==
  IF m[p] = NUL THEN NULL
  ELSE IF accepts(m, a, m[p]) THEN p ELSE strpbrk(m, p + 1, a)

RECURSIVE strspn(_, _, _)
strspn(m, p, a) ==
  IF m[p] = NUL \/ ~ accepts(m, a, m[p]) THEN 0 ELSE 1 + strspn(m, p + 1, a)

RECURSIVE strcspn(_, _, _)
strcspn(m, p, a) ==
  IF m[p] = NUL \/ accepts(m, a, m[p]) THEN 0 ELSE 1 + strcspn(m, p + 1, a)

\* How far the two strings run together.
RECURSIVE matched(_, _, _)
matched(m, h, n) ==
  IF m[h] # NUL /\ m[n] # NUL /\ m[h] = m[n] THEN 1 + matched(m, h + 1, n + 1) ELSE 0

stepOver(k) == IF k = 0 THEN 1 ELSE k     \* mutant: what matched is skipped
step(k) == 1

\* strstr's loop over the positions of the haystack; an empty needle is at h.
RECURSIVE strstr(_, _, _)
strstr(m, h, n) ==
  LET k == matched(m, h, n)
  IN  IF m[n + k] = NUL THEN h
      ELSE IF m[h] = NUL THEN NULL ELSE strstr(m, h + step(k), n)

-----------------------------------------------------------------------------
(* strtok, and changes in place.                                           *)

skip(m, p, delim) == p + strspn(m, p, delim)

\* One call: the memory it leaves, the token or NULL, and strtok_next, the
\* static variable that a next call with NULL goes on from.
strtok(m, str, saved, delim) ==
  LET from == IF str = NULL THEN saved ELSE str
      token == skip(m, from, delim)
      end == token + strcspn(m, token, delim)
  IN  IF from = NULL \/ m[token] = NUL
        THEN [mem |-> m, token |-> NULL, saved |-> NULL]
        ELSE IF m[end] = NUL
          THEN [mem |-> m, token |-> token, saved |-> end]
          ELSE [mem |-> [m EXCEPT ![end] = NUL], token |-> token, saved |-> end + 1]

\* strrev's loop; the indices meet in the middle.
RECURSIVE swapEnds(_, _, _)
swapEnds(m, first, last) ==
  IF first >= last THEN m
  ELSE swapEnds([m EXCEPT ![first] = m[last], ![last] = m[first]], first + 1, last - 1)

lastOf(m, p) == p + strlen(m, p) - 1
strrev(m, p) == swapEnds(m, p, lastOf(m, p))

RECURSIVE strupr(_, _)
strupr(m, p) == IF m[p] = NUL THEN m ELSE strupr([m EXCEPT ![p] = upper(@)], p + 1)

RECURSIVE strlwr(_, _)
strlwr(m, p) == IF m[p] = NUL THEN m ELSE strlwr([m EXCEPT ![p] = lower(@)], p + 1)

=============================================================================

---------------------------- MODULE DataPatterns ----------------------------
(***************************************************************************)
(* pattern.c, dataascii.c, databin.c and datapid.c: a buffer is filled,    *)
(* some of its bytes may change, and the buffer, or all of it but its      *)
(* first bytes, is checked.  An action is one round of a loop of the code, *)
(* or what goes before it.                                                 *)
(***************************************************************************)
EXTENDS Integers, Sequences, FiniteSetsExt

CONSTANTS
  Fills,    \* the fills: records [kind, chars, size, offset]
  Lost,     \* the bytes that a change may leave
  SKIP      \* bound: how many first bytes a check leaves out

(* The offset of the pattern kind is patshift; a pattern or a list of      *)
(* characters must not be empty.                                           *)
ASSUME FillsAssumption ==
  /\ Lost \subseteq Int /\ SKIP \in Nat
  /\ \A f \in Fills :
       /\ f.kind \in {"pattern", "ascii", "a", "c", "C", "o", "z", "r", "pid"}
       /\ f.size \in Nat /\ f.offset \in Nat /\ f.chars \in Seq(Int)
       /\ f.kind \in {"pattern", "ascii"} => f.chars # <<>>

VARIABLES
  fill,     \* the fill that was asked for, or <<>>
  buffer,   \* the bytes
  written,  \* the bytes as the generator left them
  step,     \* "idle", "filling", "filled", "handed", "comparing" or "checked"
  from,     \* the check leaves out the first `from' bytes
  ncmp,     \* how many bytes the check has compared
  verdict   \* what the check returned

patternVars == <<fill, buffer, written, step, from, ncmp, verdict>>

PatternInit ==
  /\ fill = <<>> /\ buffer = <<>> /\ written = <<>> /\ step = "idle" /\ from = 0 /\ ncmp = 0
  /\ verdict = 0

Smaller(a, b) == IF a < b THEN a ELSE b

(***************************************************************************)
(* The generators.                                                         *)
(***************************************************************************)

(* The pattern from patshift on, then its beginning.                       *)
Shifted(pat, patshift) ==
  LET shift == patshift % Len(pat)
  IN SubSeq(pat, shift + 1, Len(pat)) \o SubSeq(pat, 1, shift)

(* The byte of a mode at an offset of the file.                            *)
Expected(mode, at) ==
  CASE mode = "a" -> 85 [] mode = "c" -> 240 [] mode = "o" -> 255 [] mode = "z" -> 0 [] mode = "C" -> at % 8

dataasciigen(chars, size, offset) == [i \in 1 .. size |-> chars[((offset + i - 1) % Len(chars)) + 1]]

(* rand() is some byte with bit 0100 set.                                  *)
databingen(mode, size, offset) ==
  [i \in 1 .. size |-> IF mode = "r" THEN 64 ELSE Expected(mode, offset + i - 1)]

(* What is there before pattern_fill's loop; datapidgen writes nothing but *)
(* on a Cray.                                                              *)
Generated(f) ==
  CASE f.kind = "pattern" -> SubSeq(Shifted(f.chars, f.offset), 1, Smaller(Len(f.chars), f.size))
    [] f.kind = "ascii"   -> dataasciigen(f.chars, f.size, f.offset)
    [] f.kind = "pid"     -> [i \in 1 .. f.size |-> 0]
    [] OTHER              -> databingen(f.kind, f.size, f.offset)

Generate ==
  /\ step = "idle"
  /\ fill' \in Fills /\ buffer' = Generated(fill') /\ step' = "filling"
  /\ UNCHANGED <<written, from, ncmp, verdict>>

(* Copies of what is there, doubling.                                      *)
pattern_fill ==
  /\ step = "filling" /\ Len(buffer) < fill.size
  /\ buffer' = buffer \o SubSeq(buffer, 1, Smaller(Len(buffer), fill.size - Len(buffer)))
  /\ UNCHANGED <<fill, written, step, from, ncmp, verdict>>

Filled ==
  /\ step = "filling" /\ Len(buffer) >= fill.size
  /\ written' = buffer /\ step' = "filled"
  /\ UNCHANGED <<fill, buffer, from, ncmp, verdict>>

(* The file system, or whatever the test is about, hands the bytes back,   *)
(* or a stretch of others.                                                 *)
HandBack ==
  /\ step = "filled"
  /\ \/ UNCHANGED buffer
     \/ \E i, j \in 1 .. Len(buffer), v \in Lost :
          buffer' = [k \in 1 .. Len(buffer) |-> IF k \in i .. j THEN v ELSE buffer[k]]
  /\ from' \in 0 .. Smaller(SKIP, Len(buffer)) /\ step' = "handed"
  /\ UNCHANGED <<fill, written, ncmp, verdict>>

(***************************************************************************)
(* The checks.                                                             *)
(***************************************************************************)

(* What the check is given.                                                *)
buf        == SubSeq(buffer, from + 1, Len(buffer))
buf_offset == fill.offset + from

Verdict(v) == verdict' = v /\ step' = "checked" /\ UNCHANGED ncmp

Compared(n) == ncmp' = n /\ step' = "comparing" /\ UNCHANGED verdict

(* "no check can be done for random"; datapidchk checks nothing.           *)
NoCheck ==
  /\ step = "handed" /\ fill.kind \in {"r", "pid"}
  /\ Verdict(IF fill.kind = "r" THEN -1 ELSE 0)
  /\ UNCHANGED <<fill, buffer, written, from>>

(* The first bytes, as many as the pattern has, with the pattern.          *)
CheckFirst ==
  /\ step = "handed" /\ fill.kind = "pattern"
  /\ LET patlen == Len(fill.chars)
         nb     == Smaller(Len(buf), patlen)
         same   == SubSeq(buf, 1, nb) = SubSeq(Shifted(fill.chars, buf_offset), 1, nb)
     IN \/ ~same /\ Verdict(-1)
        \/ same /\ Len(buf) < patlen /\ Verdict(0)
        \/ same /\ Len(buf) >= patlen /\ Compared(patlen)
  /\ UNCHANGED <<fill, buffer, written, from>>

(* Wrong variant: the last byte of a piece is not compared.                *)
SameButLast(n, nb) == SubSeq(buf, 1, nb - 1) = SubSeq(buf, n + 1, n + nb - 1)

Same(n, nb) == SubSeq(buf, 1, nb) = SubSeq(buf, n + 1, n + nb)

(* Then the buffer with itself: as many bytes as have been compared, from  *)
(* the beginning, with those behind.                                       *)
pattern_check ==
  /\ step = "comparing" /\ fill.kind = "pattern"
  /\ LET nb == Smaller(ncmp, Len(buf) - ncmp)
     IN \/ ncmp >= Len(buf) /\ Verdict(0)
        \/ ncmp < Len(buf) /\ ~Same(ncmp, nb) /\ Verdict(-1)
        \/ ncmp < Len(buf) /\ Same(ncmp, nb) /\ Compared(ncmp + nb)
  /\ UNCHANGED <<fill, buffer, written, from>>

Bytewise == {"ascii", "a", "c", "C", "o", "z"}

CheckBytes ==
  /\ step = "handed" /\ fill.kind \in Bytewise /\ Compared(0)
  /\ UNCHANGED <<fill, buffer, written, from>>

(* One byte with the one that is expected at its offset in the file.       *)
CompareByte(wanted) ==
  /\ \/ ncmp >= Len(buf) /\ Verdict(-1)
     \/ ncmp < Len(buf) /\ buf[ncmp + 1] # wanted /\ Verdict(buf_offset + ncmp)
     \/ ncmp < Len(buf) /\ buf[ncmp + 1] = wanted /\ Compared(ncmp + 1)
  /\ UNCHANGED <<fill, buffer, written, from>>

dataasciichk ==
  /\ step = "comparing" /\ fill.kind = "ascii"
  /\ CompareByte(fill.chars[((buf_offset + ncmp) % Len(fill.chars)) + 1])

databinchk ==
  /\ step = "comparing" /\ fill.kind \in Bytewise \ {"ascii"}
  /\ CompareByte(Expected(fill.kind, buf_offset + ncmp))

-----------------------------------------------------------------------------

PatternNext ==
  \/ Generate \/ pattern_fill \/ Filled \/ HandBack
  \/ NoCheck \/ CheckFirst \/ pattern_check \/ CheckBytes \/ dataasciichk \/ databinchk

PatternSpec == PatternInit /\ [][PatternNext]_patternVars

(***************************************************************************)
(* Properties.                                                             *)
(***************************************************************************)

(* What the check has to find.                                             *)
Changed == {i \in from + 1 .. Len(buffer) : buffer[i] # written[i]}

(* The check finds exactly what happened to the buffer since it was        *)
(* generated, though it computes the bytes in another way and from another *)
(* offset: nothing, or, but for the pattern, the offset in the file of the *)
(* first byte that changed.  Random bytes and pids cannot be checked.      *)
CheckTells ==
  (step = "checked" /\ fill.kind \notin {"r", "pid"}) =>
    verdict = IF fill.kind = "pattern" THEN IF Changed = {} THEN 0 ELSE -1
              ELSE IF Changed = {} THEN -1 ELSE fill.offset + Min(Changed) - 1
=============================================================================

----------------------------- MODULE LibHelpers -----------------------------
(***************************************************************************)
(* Pure functions of the LTP library: random_range.c, string_to_tokens.c,  *)
(* open_flags.c and stride_bounds of tlibio.c.  A helper is called with    *)
(* some arguments and answers; where the code draws a random number, the   *)
(* answer is one of those it can draw.  A helper whose loop matters takes  *)
(* a round at a time.                                                      *)
(*                                                                         *)
(* An int has the values -W .. W - 1, and lrand48() the values below W.    *)
(***************************************************************************)
EXTENDS Integers, Sequences, FiniteSets, FiniteSetsExt

CONSTANTS
  HelperCalls,  \* the calls: records with a field fn and the arguments of fn
  W,            \* half the number of values of an int
  DEPTH         \* the bits of an int, and how often divider halves: 32

(* A blank or bad field of a range, see parse_ranges.                      *)
BLANK == -100
BAD   == -101

LongLong == -W * 2 ^ DEPTH .. W * 2 ^ DEPTH - 1

(* The arguments of random_range are ints.  Those of random_rangell are    *)
(* long longs and so small that no sum overflows.  A mask has bits of a    *)
(* long, and the defaults of a range are numbers.                          *)
CallAssumption(c) ==
  CASE c.fn = "random_range"   -> {c.min, c.max, c.mult} \subseteq -W .. W - 1
    [] c.fn = "random_rangell" ->
         /\ {c.min, c.max, c.mult} \subseteq LongLong
         /\ {c.min + c.mult, c.max + c.mult, c.min + W, c.max + W} \subseteq LongLong
         /\ {c.max - c.min + 1, c.min - c.max + 1} \subseteq LongLong
    [] c.fn = "random_bit"     -> c.mask \subseteq Nat /\ IsFiniteSet(c.mask) /\ Cardinality(c.mask) < W
    [] c.fn = "parse_ranges"   ->
         /\ c.fields \in Seq(Seq(Int) \ {<<>>})
         /\ {c.default.min, c.default.max, c.default.mult} \subseteq Int \ {BLANK, BAD}
    [] c.fn = "string_to_tokens"  -> c.toks \in Seq(STRING) /\ c.size \in Int
    [] c.fn = "openflags2symbols" -> c.flags \subseteq STRING /\ c.mode \in Int
    [] c.fn = "stride_bounds"     -> {c.offset, c.stride, c.nstrides, c.bytes} \subseteq Int

ASSUME HelperAssumption ==
  /\ W \in Nat \ {0} /\ DEPTH \in Nat
  /\ \A c \in HelperCalls : CallAssumption(c)

(* Arithmetic of powers.                                                   *)
ASSUME PowerAssumption == 2 ^ 0 = 1 /\ \A n \in 0 .. DEPTH : 2 ^ (n + 1) = 2 * 2 ^ n /\ 2 ^ n \in Nat

VARIABLES
  args,     \* the call, or <<>>
  frame,    \* the locals of its loop, or <<>>
  answer    \* what it returned, or <<>>

helperVars == <<args, frame, answer>>

Busy(fn)  == args # <<>> /\ args.fn = fn /\ answer = <<>>
Answer(v) == answer' = <<v>> /\ UNCHANGED <<args, frame>>
Goes(f)   == frame' = f /\ UNCHANGED <<args, answer>>

(* C's %, which takes the sign of the dividend, and / likewise.            *)
CMod(a, b) == IF a >= 0 THEN a % b ELSE -((-a) % b)

Int32(v) == ((v + W) % (2 * W)) - W

-----------------------------------------------------------------------------
(***************************************************************************)
(* random_range, random_rangel (a long is 32 bits wide), random_rangell.   *)
(***************************************************************************)

(* Wrong variant: the remainder itself is added to the lower bound.        *)
BumpByRemainder(lo, mult) == LET r == CMod(lo, mult) IN lo + r

(* "bump to the next higher 'mult' multiple".                              *)
Bump(lo, mult) == LET r == CMod(lo, mult) IN IF r # 0 THEN lo + mult - r ELSE lo

(* "reduce to the next lower 'mult' multiple".                             *)
Reduce(hi, mult) == hi - CMod(hi, mult)

Lower(a) == IF a.max < a.min THEN a.max ELSE a.min
Upper(a) == IF a.max < a.min THEN a.min ELSE a.max

Error == [err |-> 1, val |-> -1]
Drawn(v) == [err |-> 0, val |-> v]
Fault == [err |-> 2, val |-> 0]     \* division by zero

random_range(a) ==
  LET min == Int32(Bump(Lower(a), a.mult))
      max == Int32(Reduce(Upper(a), a.mult))
      diff == Int32(max - min)
      nmults == (IF diff >= 0 THEN diff \div a.mult ELSE -((-diff) \div a.mult)) + 1
  IN IF a.mult < 1 \/ min > max THEN {Error}
     ELSE IF nmults = 0 THEN {Fault}
     ELSE {Drawn(Int32(min + (r % (IF nmults > 0 THEN nmults ELSE -nmults)) * a.mult)) : r \in 0 .. W - 1}

(* What random_rangell does up to the call of lrand48(), or of divider,    *)
(* which draws a number at first; nothing to start from is an error.       *)
RangellLocals(a) ==
  IF a.mult < 1 \/ Bump(Lower(a), a.mult) > Reduce(Upper(a), a.mult) THEN {<<>>}
  ELSE {[min |-> Bump(Lower(a), a.mult), max |-> Reduce(Upper(a), a.mult), cnt |-> 0, rand |-> r] :
          r \in 0 .. W - 1}

RangellAnswer(randnum) ==
  LET min == Bump(Lower(args), args.mult)
      nmults == (Reduce(Upper(args), args.mult) - min) \div args.mult + 1
  IN Answer(Drawn(min + CMod(randnum, nmults) * args.mult))

random_rangell ==
  /\ Busy("random_rangell")
  /\ \/ frame = <<>> /\ Answer(Error)
     \/ frame # <<>> /\ frame.cnt = 0 /\ frame.max <= W - 1 /\ RangellAnswer(frame.rand)

(* Is the bit set?  Behind the bits of an int, where the shift by cnt is   *)
(* undefined, it may be or not.                                            *)
BitValues(rand, cnt) == IF cnt < DEPTH THEN {(rand \div 2 ^ cnt) % 2} ELSE {0, 1}

(* The bits of the random number choose halves until the range has shrunk  *)
(* below W, and the number itself is added.                                *)
divider ==
  /\ Busy("random_rangell") /\ frame # <<>> /\ (frame.cnt = 0 => frame.max > W - 1)
  /\ \E bit \in BitValues(frame.rand, frame.cnt) :
     LET diff == frame.max - frame.min
         half == diff \div 2
         med  == frame.min + half
     IN \/ /\ frame.cnt <= DEPTH => diff <= W - 1
           /\ RangellAnswer(IF frame.cnt > DEPTH THEN -1 ELSE frame.min + frame.rand)
        \/ /\ frame.cnt <= DEPTH /\ diff > W - 1 /\ half <= W - 1
           /\ RangellAnswer(IF bit = 1 THEN med + frame.rand ELSE frame.min + frame.rand)
        \/ /\ frame.cnt <= DEPTH /\ diff > W - 1 /\ half > W - 1
           /\ Goes(IF bit = 1 THEN [frame EXCEPT !.min = med, !.cnt = @ + 1]
                   ELSE [frame EXCEPT !.max = med, !.cnt = @ + 1])

(* One of the bits set in mask, a set of positions: with bit k drawn, mask *)
(* is shifted until k of its bits have gone out.  Of no bits, -1 is drawn. *)
random_bit(mask) ==
  IF mask = {} THEN {-1}
  ELSE {CHOOSE b \in mask : Cardinality({c \in mask : c <= b}) = d.val :
          d \in random_range([min |-> 1, max |-> Cardinality(mask), mult |-> 1])}

-----------------------------------------------------------------------------
(***************************************************************************)
(* parse_ranges.  A token is the sequence of its fields between colons, at *)
(* most three; a field is a number, BLANK or BAD.                          *)
(***************************************************************************)

(* One of the fields of a range, or its default.                           *)
Parsed(t, i, default) == IF i > Len(t) \/ t[i] = BLANK THEN default ELSE t[i]

(* Wrong variant: a blank second field stands for the first, as none does. *)
BlankIsShort(t, d) ==
  LET min == Parsed(t, 1, d.min)
  IN [min |-> min, max |-> Parsed(t, 2, min), mult |-> Parsed(t, 3, d.mult)]

RangeOf(t, d) ==
  LET min == Parsed(t, 1, d.min)
  IN [min |-> min, max |-> IF Len(t) = 1 THEN min ELSE Parsed(t, 2, d.max),
      mult |-> Parsed(t, 3, d.mult)]

RangesStart(a) == {[ind |-> 1, ranges |-> <<>>]}

(* strtok passes over an empty token; a range is refused as soon as one of *)
(* its fields is.                                                          *)
parse_ranges ==
  /\ Busy("parse_ranges")
  /\ \/ frame.ind > Len(args.fields) /\ Answer([n |-> Len(frame.ranges), ranges |-> frame.ranges])
     \/ /\ frame.ind <= Len(args.fields)
        /\ LET t == args.fields[frame.ind] IN
           \/ t = <<BLANK>> /\ Goes([frame EXCEPT !.ind = @ + 1])
           \/ (\E k \in DOMAIN t : t[k] = BAD) /\ Answer([n |-> -1, ranges |-> <<>>])
           \/ /\ t # <<BLANK>> /\ \A k \in DOMAIN t : t[k] # BAD
              /\ Goes([frame EXCEPT !.ind = @ + 1, !.ranges = Append(@, RangeOf(t, args.default))])

-----------------------------------------------------------------------------
(***************************************************************************)
(* string_to_tokens: what is written to arg_array, of array_size elements. *)
(***************************************************************************)

NULL == "NULL"

(* The loop stores up to array_size tokens, and then a NULL behind them.   *)
string_to_tokens(toks, size) ==
  IF size <= 1 THEN [n |-> -1, array |-> <<>>]
  ELSE IF Len(toks) >= size THEN [n |-> size, array |-> Append(SubSeq(toks, 1, size), NULL)]
  ELSE [n |-> Len(toks), array |-> Append(toks, NULL)]

-----------------------------------------------------------------------------
(***************************************************************************)
(* open_flags.c: flags are sets of bits.                                   *)
(***************************************************************************)

(* Some rows of the table, in its order, with the values of Linux: O_SYNC  *)
(* contains O_DSYNC and is O_RSYNC, O_NDELAY is O_NONBLOCK.                *)
Open_flags ==
  <<<<"O_RDONLY", {}>>, <<"O_WRONLY", {"WRONLY"}>>, <<"O_RDWR", {"RDWR"}>>,
    <<"O_SYNC", {"SYNC", "DSYNC"}>>, <<"O_CREAT", {"CREAT"}>>, <<"O_NONBLOCK", {"NONBLOCK"}>>,
    <<"O_DSYNC", {"DSYNC"}>>, <<"O_RSYNC", {"SYNC", "DSYNC"}>>, <<"O_NDELAY", {"NONBLOCK"}>>>>

UNKNOWN_SYMBOL == "UNKNOWN"

Known(name) == \E i \in DOMAIN Open_flags : Open_flags[i][1] = name
FlagOf(name) == Open_flags[CHOOSE i \in DOMAIN Open_flags : Open_flags[i][1] = name][2]

(* The bits, or that a name is invalid.                                    *)
parse_open_flags(names) ==
  IF \A i \in DOMAIN names : Known(names[i])
  THEN [ok |-> 1, bits |-> UNION {FlagOf(names[i]) : i \in DOMAIN names}]
  ELSE [ok |-> 0, bits |-> {}]

(* O_RDONLY is assumed when neither of the others is there, and the loop   *)
(* begins behind it.                                                       *)
SymbolsStart(a) ==
  {[ind |-> 2, bits |-> a.flags,
    names |-> IF {"WRONLY", "RDWR"} \cap a.flags = {} THEN <<"O_RDONLY">> ELSE <<>>]}

(* Each row whose bits are all there takes them away.                      *)
openflags2symbols ==
  /\ Busy("openflags2symbols")
  /\ \/ /\ frame.ind > Len(Open_flags)
        /\ Answer(IF frame.bits # {} /\ args.mode = 1 THEN Append(frame.names, UNKNOWN_SYMBOL) ELSE frame.names)
     \/ /\ frame.ind <= Len(Open_flags)
        /\ LET row == Open_flags[frame.ind] IN
           \/ ~(row[2] \subseteq frame.bits) /\ Goes([frame EXCEPT !.ind = @ + 1])
           \/ /\ row[2] \subseteq frame.bits
              /\ Goes([frame EXCEPT !.ind = @ + 1, !.bits = @ \ row[2], !.names = Append(@, row[1])])

-----------------------------------------------------------------------------
(***************************************************************************)
(* stride_bounds.                                                          *)
(***************************************************************************)

stride_bounds(a) ==
  LET stride == IF a.stride = 0 THEN a.bytes ELSE a.stride
      nbytes == (IF stride < 0 THEN -stride ELSE stride) * (a.nstrides - 1) + a.bytes
      last   == a.offset + a.bytes - 1
  IN IF a.nstrides < 0 \/ a.bytes < 0 THEN [nbytes |-> -1, min |-> 0, max |-> 0]
     ELSE IF stride < 0 THEN [nbytes |-> nbytes, min |-> last - nbytes + 1, max |-> last]
     ELSE [nbytes |-> nbytes, min |-> a.offset, max |-> a.offset + nbytes - 1]

-----------------------------------------------------------------------------

Locals(a) ==
  CASE a.fn = "random_rangell"    -> RangellLocals(a)
    [] a.fn = "parse_ranges"      -> RangesStart(a)
    [] a.fn = "openflags2symbols" -> SymbolsStart(a)
    [] OTHER                      -> {<<>>}

HelperInit == args = <<>> /\ frame = <<>> /\ answer = <<>>

CallHelper ==
  args = <<>> /\ args' \in HelperCalls /\ frame' \in Locals(args') /\ UNCHANGED answer

(* The helpers that are one step.                                          *)
HelperReturns ==
  \/ Busy("random_range") /\ \E v \in random_range(args) : Answer(v)
  \/ Busy("random_bit") /\ \E b \in random_bit(args.mask) : Answer(b)
  \/ Busy("string_to_tokens") /\ Answer(string_to_tokens(args.toks, args.size))
  \/ Busy("stride_bounds") /\ Answer(stride_bounds(args))

HelperNext ==
  CallHelper \/ HelperReturns \/ random_rangell \/ divider \/ parse_ranges \/ openflags2symbols

HelperSpec == HelperInit /\ [][HelperNext]_helperVars

(***************************************************************************)
(* Properties.                                                             *)
(***************************************************************************)

Returned(fns) == args # <<>> /\ args.fn \in fns /\ answer # <<>>
Multiples(a)  == {v \in Lower(a) .. Upper(a) : v % a.mult = 0}

(* "Returns a psuedo-random number which is >= 'start', <= 'end', and a    *)
(* multiple of 'mult'", and fails only if there is none; each of them can  *)
(* come from random_range.  Not so if an end below 0 is no multiple, for % *)
(* rounds it towards 0, if the range is wider than half an int, or if the  *)
(* next multiple is no int.                                                *)
RandomRight ==
  /\ (/\ Returned({"random_range", "random_rangell"}) /\ args.mult > 0
      /\ Upper(args) - Lower(args) < W /\ (args.fn = "random_range" => Upper(args) + args.mult <= W)
      /\ \A e \in {args.min, args.max} : e >= 0 \/ e % args.mult = 0) =>
       /\ answer[1].err = IF Multiples(args) = {} THEN 1 ELSE 0
       /\ answer[1].err = 0 => answer[1].val \in Multiples(args)
       /\ args.fn = "random_range" =>
            {a.val : a \in {b \in random_range(args) : b.err = 0}} = Multiples(args)
  /\ (Returned({"random_rangell"}) /\ args.mult > 0 /\ Lower(args) >= 0 /\ answer[1].err = 0) =>
       answer[1].val \in Multiples(args)
  /\ Returned({"random_bit"}) => random_bit(args.mask) = args.mask \/ args.mask = {}

(* Field k of a token if it is given, or else its default.                 *)
Given(t, k, default) == IF k \in DOMAIN t /\ t[k] # BLANK THEN t[k] ELSE default

(* What a list of symbols or tokens stands for survives: the flags that    *)
(* openflags2symbols names are the flags it was given, overlapping ones    *)
(* included, or an "UNKNOWN" that parse_open_flags refuses; tokens arrive  *)
(* with a NULL behind them inside the array if there are fewer than        *)
(* array_size; each token gives its range, in order, or all are refused:   *)
(* every field that is given is taken at its place, one that is blank or   *)
(* missing is its default, and "num is short hand for num:num".            *)
ParsedRight ==
  /\ Returned({"openflags2symbols"}) =>
       LET known == args.flags \cap UNION {Open_flags[i][2] : i \in DOMAIN Open_flags}
           lost  == known \cap {"SYNC"} # {} /\ "DSYNC" \notin known
           back  == parse_open_flags(answer[1])
       IN IF known = args.flags /\ ~lost THEN back = [ok |-> 1, bits |-> args.flags]
          ELSE IF args.mode = 1 THEN back.ok = 0 ELSE back.bits \subseteq args.flags
  /\ (Returned({"string_to_tokens"}) /\ args.size > 1 /\ Len(args.toks) < args.size) =>
       /\ answer[1].n = Len(args.toks) /\ Len(answer[1].array) <= args.size
       /\ answer[1].array = Append(args.toks, NULL)
  /\ Returned({"parse_ranges"}) =>
       LET f == args.fields
           toks == {i \in DOMAIN f : f[i] # <<BLANK>>}
       IN IF \E i \in toks : \E k \in DOMAIN f[i] : f[i][k] = BAD THEN answer[1].n = -1
          ELSE /\ answer[1].n = Cardinality(toks) /\ Len(answer[1].ranges) = answer[1].n
               /\ \A i \in toks :
                    LET r == answer[1].ranges[Cardinality({j \in toks : j <= i})] IN
                    /\ r.min = Given(f[i], 1, args.default.min)
                    /\ r.max = Given(f[i], 2, IF Len(f[i]) = 1 THEN f[i][1] ELSE args.default.max)
                    /\ r.mult = Given(f[i], 3, args.default.mult)

(* The bounds of a strided request are those of the bytes it touches: the  *)
(* first and the last byte of every stride, from offset on.                *)
StridesCovered ==
  (Returned({"stride_bounds"}) /\ args.nstrides > 0 /\ args.bytes > 0) =>
    LET step == IF args.stride = 0 THEN args.bytes ELSE args.stride
        touched == {args.offset + k * step + j : k \in 0 .. args.nstrides - 1, j \in 0 .. args.bytes - 1}
    IN /\ answer[1].min = Min(touched) /\ answer[1].max = Max(touched)
       /\ answer[1].nbytes = Max(touched) - Min(touched) + 1

(* Whoever asks for bytes by a range gets them from that range: a number   *)
(* that may be drawn, and the bounds of a strided request.                 *)
RangesRight == RandomRight /\ StridesCovered
=============================================================================

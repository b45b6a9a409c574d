----------------------------- MODULE MCHelpers -----------------------------
(* Three machines without any state in common, of which a behaviour runs     *)
(* one: the size lists of the DMA test, a helper of the library, and a       *)
(* buffer that is filled and checked.                                        *)
EXTENDS SizeList, LibHelpers, DataPatterns

(* The calls the test cases make, on lists of at most MaxLength entries: the *)
(* loops treat every entry alike.                                            *)
MaxLength == 3

ShortCalls ==
  {[c EXCEPT !.length = IF @ < MaxLength THEN @ ELSE MaxLength] : c \in SizeCalls}

\* Ends of ranges on both sides of 0 and of W = 8, and more than W apart.
Ranges == [fn : {"random_range"}, min : {-8, -6, -5, 0, 1, 7}, max : {-5, -3, 0, 2, 6, 7}, mult : {0, 1, 2, 3}]
WideRanges == [fn : {"random_rangell"}, min : {-6, -5, 0, 1, 20}, max : {-3, 5, 8, 21, 40, 119}, mult : {0, 1, 3}]
Masks  == [fn : {"random_bit"}, mask : SUBSET {0, 1, 5, 6}]
Fields == {<<<<3>>>>, <<<<1, 5>>, <<2>>>>, <<<<BLANK>>, <<BLANK, 9>>, <<4, BLANK, 2>>>>, <<<<1, BAD>>>>, <<<<1, 2, BLANK>>>>,
           <<<<BLANK, BLANK, BLANK>>, <<BAD>>>>, <<<<7>>, <<BLANK, BLANK, 5>>>>, <<<<BLANK>>>>,
           <<<<8, 3, 2>>, <<BLANK, 6, 4>>, <<5, BLANK>>>>}
Parses == [fn : {"parse_ranges"}, fields : Fields, default : {[min |-> 0, max |-> 50, mult |-> 1]}]
Strings == [fn : {"string_to_tokens"}, toks : {<<>>, <<"a">>, <<"a", "b">>, <<"a", "b", "c">>}, size : 0 .. 4]
Flags  == [fn : {"openflags2symbols"}, mode : {0, 1},
           flags : SUBSET {"WRONLY", "RDWR", "SYNC", "DSYNC", "NONBLOCK", "other"}]
Strides == [fn : {"stride_bounds"}, offset : {0, 3}, stride : -2 .. 2, nstrides : -1 .. 3, bytes : -1 .. 3]

AllHelperCalls == UNION {Ranges, WideRanges, Masks, Parses, Strings, Flags, Strides}

PatternFills ==
  [kind : {"pattern"}, chars : {<<5>>, <<5, 85>>, <<5, 85, 85>>}, size : 0 .. 8, offset : 0 .. 3]
    \cup [kind : {"ascii"}, chars : {<<5>>, <<5, 85, 0>>}, size : 0 .. 4, offset : {0, 1, 5}]
    \cup [kind : {"a", "c", "C", "o", "z", "r", "pid"}, chars : {<<>>}, size : 0 .. 3, offset : {0, 6}]

SizeCall0 == CHOOSE c \in ShortCalls : TRUE

MCInit == SizeInit /\ HelperInit /\ PatternInit

MCNext ==
  \/ args = <<>> /\ step = "idle" /\ SizeNext /\ UNCHANGED <<helperVars, patternVars>>
  \/ /\ call = SizeCall0 /\ pc = "fill" /\ list_size = <<>>
     /\ \/ step = "idle" /\ HelperNext /\ UNCHANGED <<sizeVars, patternVars>>
        \/ args = <<>> /\ PatternNext /\ UNCHANGED <<sizeVars, helperVars>>

MCSpec == MCInit /\ [][MCNext]_<<sizeVars, helperVars, patternVars>>
============================================================================

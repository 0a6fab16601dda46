--------------------------- MODULE BencodeBasics ---------------------------
(***************************************************************************)
(* What bencode_parser.c is built on and what its callers see of it: the   *)
(* bytes of a buffer, segments of it, the blocks on the heap, numbers,     *)
(* strings and integers.  Bencode has the rest, which is recursive.        *)
(*                                                                         *)
(* The functions become operators over the bytes of a buffer and a         *)
(* position, that return what the function returns and stores.  data is a  *)
(* sequence of byte values and position counts from 0, as                  *)
(* parser->position does.                                                  *)
(*                                                                         *)
(* Every failing path of the code also restores parser->position; no       *)
(* caller reads the position after a failure, so it is left out.           *)
(***************************************************************************)
EXTENDS SizeT, Sequences, FiniteSetsExt

CONSTANTS
  IntMax,       \* INT64_MAX
  ItemSize,     \* sizeof(bencode_object_t)
  EntrySize     \* sizeof(bencode_dictionary_entry_t)

ASSUME BencodeAssumption ==
  /\ IntMax \in Nat /\ IntMax >= 9
  /\ ItemSize \in Nat \ {0} /\ EntrySize \in Nat \ {0}

-----------------------------------------------------------------------------
(* Bytes.                                                                  *)

Minus == 45
Colon == 58
TagInteger == 105
TagList == 108
TagDictionary == 100
TagEnd == 101
Digits == 48 .. 57

NoByte == -1

\* peek_current_byte
ByteAt(data, position) == IF position < Len(data) THEN data[position + 1] ELSE NoByte

\* bencode_segment_t: where a string starts in the buffer, and its length.
Segment(start, length) == [data |-> start, length |-> length]
Text(data, segment) == SubSeq(data, segment.data + 1, segment.data + segment.length)

\* The end of the run of digits that starts at position.
DigitsEnd(data, position) ==
  Min({ p \in position .. Len(data) : ByteAt(data, p) \notin Digits })

-----------------------------------------------------------------------------
(* The heap: the blocks that are allocated, how many were asked for, which *)
(* request is refused (0: none), and whether something was freed that was  *)
(* not allocated.                                                          *)

NULL == 0

EmptyHeap == [live |-> {}, calls |-> 0, fails |-> 0, faulty |-> FALSE]

Realloc(heap, block) ==
  LET n == heap.calls + 1
      asked == [heap EXCEPT !.calls = n]
  IN IF n = heap.fails
     THEN [ok |-> FALSE, block |-> block, heap |-> asked]
     ELSE [ok |-> TRUE, block |-> n,
           heap |-> [asked EXCEPT !.live = (@ \ {block}) \cup {n}]]

FreeBlock(heap, block) ==
  [heap EXCEPT !.live = @ \ {block},
               !.faulty = @ \/ (block # NULL /\ block \notin heap.live)]

\* A list or a dictionary: a list's elements have no key.
EmptyContainer == [elements |-> <<>>, capacity |-> 0, block |-> NULL]
NoKey == Segment(0, 0)
Containers == {"LIST", "DICTIONARY"}

\* What a function returns that could not parse.
Failed(heap) == [ok |-> FALSE, heap |-> heap]

-----------------------------------------------------------------------------
(* Numbers and strings.                                                    *)

Overflow == -1

\* The loops at lines 122-143 and 283-308: the limit is tested before the
\* number grows.  (Testing without the next digit is a plausible mistake.)
TooLargeWithoutDigit(number, digit, limit) == number > limit \div 10

TooLarge(number, digit, limit) == number > (limit - digit) \div 10

WithDigit(number, digit, limit) ==
  IF number = Overflow \/ TooLarge(number, digit, limit)
  THEN Overflow ELSE 10 * number + digit

Number(data, first, end, limit) ==
  LET number[k \in 0 .. end - first] ==
        IF k = 0 THEN 0 ELSE WithDigit(number[k - 1], data[first + k] - 48, limit)
  IN number[end - first]

ParseString(data, position) ==
  LET colon  == DigitsEnd(data, position)
      length == Number(data, position, colon, SizeMax)
      start  == colon + 1
  IN [ok |-> /\ colon > position
             /\ ByteAt(data, colon) = Colon
             /\ length # Overflow
             /\ length <= Len(data) - start,
      value |-> Segment(start, length),
      position |-> start + length]

\* A minus before a zero, a zero before a digit and no digit are refused; the
\* magnitude of a negative number may be one larger.
ParseInteger(data, position) ==
  LET negative  == ByteAt(data, position + 1) = Minus
      first     == position + (IF negative THEN 2 ELSE 1)
      end       == DigitsEnd(data, first)
      magnitude == Number(data, first, end, IF negative THEN IntMax + 1 ELSE IntMax)
      zero      == ByteAt(data, first) = 48
  IN [ok |-> /\ end > first
             /\ ByteAt(data, end) = TagEnd
             /\ ~(zero /\ negative)
             /\ ~(zero /\ end > first + 1)
             /\ magnitude # Overflow,
      value |-> IF negative THEN -magnitude ELSE magnitude,
      position |-> end + 1]
=============================================================================

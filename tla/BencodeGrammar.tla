--------------------------- MODULE BencodeGrammar ---------------------------
(***************************************************************************)
(* What a bencoded value is, without a parser: sequences of bytes that can *)
(* be split in the right way.  And what an object that the parser built    *)
(* stands for.  Bencode is checked against these definitions.              *)
(***************************************************************************)
EXTENDS Bencode
LOCAL INSTANCE FiniteSetsExt
LOCAL INSTANCE SequencesExt

\* The number that a row of digits denotes.
Denotes(digits) ==
  MapThenSumSet(LAMBDA k : (digits[k] - 48) * 10 ^ (Len(digits) - k), DOMAIN digits)

IsDigits(s) == s # <<>> /\ \A k \in DOMAIN s : s[k] \in Digits

Part(s, first, last) == SubSeq(s, first, last)
Inner(s) == Part(s, 2, Len(s) - 1)
Between(s, first, last) == Len(s) >= 2 /\ s[1] = first /\ s[Len(s)] = last

\* 0, or a number without a leading zero, that int64_t can hold.
IsIntegerText(s) ==
  \/ s = <<48>>
  \/ IsDigits(s) /\ s[1] # 48 /\ Denotes(s) <= IntMax
  \/ /\ Len(s) > 1 /\ s[1] = Minus
     /\ IsDigits(Tail(s)) /\ s[2] # 48 /\ Denotes(Tail(s)) <= IntMax + 1

\* A string's length may have leading zeros, an integer may not.
StringText(s) ==
  { Part(s, k + 1, Len(s)) : k \in { c \in DOMAIN s :
      /\ s[c] = Colon
      /\ IsDigits(Part(s, 1, c - 1))
      /\ Denotes(Part(s, 1, c - 1)) = Len(s) - c } }

Less(a, b) ==
  \E k \in 1 .. Len(b) :
    /\ k <= Len(a) + 1
    /\ Part(a, 1, k - 1) = Part(b, 1, k - 1)
    /\ k <= Len(a) => a[k] < b[k]

\* Arrays grow by doubling: the number of elements that the machine can hold.
Holds(count, size) ==
  count = 0 \/ \E k \in 0 .. count : 2 ^ k >= count /\ 2 ^ k <= SizeMax \div size

RECURSIVE IsBencode(_)
RECURSIVE AreItems(_, _)
RECURSIVE AreEntries(_, _, _)

AreItems(s, count) ==
  IF s = <<>> THEN Holds(count, ItemSize)
  ELSE \E k \in DOMAIN s :
         IsBencode(Part(s, 1, k)) /\ AreItems(Part(s, k + 1, Len(s)), count + 1)

\* Every key comes after all that precede it.
AreEntries(s, keys, count) ==
  IF s = <<>> THEN Holds(count, EntrySize)
  ELSE \E k, m \in DOMAIN s :
         /\ k < m
         /\ \E key \in StringText(Part(s, 1, k)) :
              /\ \A earlier \in keys : Less(earlier, key)
              /\ IsBencode(Part(s, k + 1, m))
              /\ AreEntries(Part(s, m + 1, Len(s)), keys \cup {key}, count + 1)

IsBencode(s) ==
  \/ StringText(s) # {}
  \/ Between(s, TagInteger, TagEnd) /\ IsIntegerText(Inner(s))
  \/ Between(s, TagList, TagEnd) /\ AreItems(Inner(s), 0)
  \/ Between(s, TagDictionary, TagEnd) /\ AreEntries(Inner(s), {}, 0)

-----------------------------------------------------------------------------
\* The objects in an object, itself among them.
RECURSIVE Objects(_)
Objects(object) ==
  {object} \cup
  (IF object.type \in Containers
   THEN UNION { Objects(object.value.elements[k].value) :
                  k \in DOMAIN object.value.elements }
   ELSE {})

\* The blocks an object owns.
Blocks(object) ==
  { o.value.block : o \in { c \in Objects(object) : c.type \in Containers } } \ {NULL}

\* The bytes an object says it was parsed from.
Encoded(data, object) ==
  SubSeq(data, object.start_offset + 1, object.start_offset + object.encoded_length)

\* The meaning of an object: the bytes of its strings instead of pointers.
RECURSIVE Meaning(_, _)
Meaning(data, object) ==
  CASE object.type = "INTEGER"     -> <<"INTEGER", object.value>>
    [] object.type = "BYTE_STRING" -> <<"BYTE_STRING", Text(data, object.value)>>
    [] OTHER -> <<object.type,
         [k \in DOMAIN object.value.elements |->
            << Text(data, object.value.elements[k].key),
               Meaning(data, object.value.elements[k].value) >>]>>
=============================================================================

------------------------------ MODULE Bencode ------------------------------
(***************************************************************************)
(* The bencode parser: the functions of bencode_parser.c that call         *)
(* themselves, for lists, for dictionaries and to free them.               *)
(***************************************************************************)
EXTENDS BencodeBasics
LOCAL INSTANCE SequencesExt
LOCAL INSTANCE TLC

-----------------------------------------------------------------------------
(* Freeing.                                                                *)

RECURSIVE FreeObject(_, _)

\* free_elements_in_list or free_entries_in_dict, and free of the array.
FreeContainer(heap, container) ==
  FreeBlock(FoldLeft(LAMBDA h, element : FreeObject(h, element.value),
                     heap, container.elements),
            container.block)

FreeObject(heap, object) ==
  IF object.type \in Containers THEN FreeContainer(heap, object.value) ELSE heap

-----------------------------------------------------------------------------
(* Lists and dictionaries.                                                 *)

\* memcmp over the common length, then the lengths.  (Taking equal keys is a
\* plausible mistake.)
KeyFollowsOrEqual(previous, key) ==
  LET common == Min({Len(previous), Len(key)})
      differ == { k \in 1 .. common : previous[k] # key[k] }
  IN IF differ = {} THEN Len(previous) <= Len(key)
     ELSE previous[Min(differ)] < key[Min(differ)]

KeyFollows(previous, key) ==
  LET common == Min({Len(previous), Len(key)})
      differ == { k \in 1 .. common : previous[k] # key[k] }
  IN IF differ = {} THEN Len(previous) < Len(key)
     ELSE previous[Min(differ)] < key[Min(differ)]

ParseKey(data, position, container) ==
  LET key == ParseString(data, position)
  IN [key EXCEPT !.ok =
        @ /\ \/ container.elements = <<>>
             \/ KeyFollows(Text(data, Last(container.elements).key),
                           Text(data, key.value))]

ElementSize(type) == IF type = "LIST" THEN ItemSize ELSE EntrySize

\* Whether an array of this capacity has a size in size_t.  (Leaving the
\* second test out is a plausible mistake.)
CapacityDoubles(capacity, new_capacity, size) == capacity <= SizeMax \div 2

CapacityFits(capacity, new_capacity, size) ==
  /\ capacity <= SizeMax \div 2
  /\ new_capacity <= SizeMax \div size

\* The container with the array that realloc returned, if it did.
Grown(container, capacity, array) ==
  [ok |-> array.ok, heap |-> array.heap,
   container |-> IF array.ok
                 THEN [container EXCEPT !.capacity = capacity, !.block = array.block]
                 ELSE container]

\* Room for one more element, by doubling.
Grow(container, type, heap) ==
  LET capacity == IF container.capacity = 0 THEN 1 ELSE 2 * container.capacity
  IN IF Len(container.elements) < container.capacity
     THEN [ok |-> TRUE, container |-> container, heap |-> heap]
     ELSE IF CapacityFits(container.capacity, capacity, ElementSize(type))
     THEN Grown(container, capacity, Realloc(heap, container.block))
     ELSE [ok |-> FALSE, container |-> container, heap |-> heap]

\* There is no room for the value that was just parsed.  (Freeing only what is
\* in the container is a plausible mistake.)
FreeStoredOnly(heap, container, object) == FreeContainer(heap, container)

FreeAll(heap, container, object) == FreeContainer(FreeObject(heap, object), container)

\* The parsed value and its key, stored in the room that was made.
Stored(container, key, item, room) ==
  IF room.ok
  THEN [ok |-> TRUE, position |-> item.position, heap |-> room.heap,
        container |-> [room.container EXCEPT
           !.elements = Append(@, [key |-> key.value, value |-> item.object])]]
  ELSE Failed(FreeAll(room.heap, container, item.object))

AddValue(type, container, key, item) ==
  IF item.ok THEN Stored(container, key, item, Grow(container, type, item.heap))
             ELSE Failed(FreeContainer(item.heap, container))

RECURSIVE ParseBuffer(_, _, _)
RECURSIVE ParseElements(_, _, _, _, _)

AddElement(data, type, container, heap, key) ==
  IF key.ok THEN AddValue(type, container, key, ParseBuffer(data, key.position, heap))
            ELSE Failed(FreeContainer(heap, container))

ParseRest(data, type, added) ==
  IF added.ok THEN ParseElements(data, added.position, type, added.container, added.heap)
              ELSE added

\* The loop of a list or a dictionary; position is behind its tag or its last
\* element.
ParseElements(data, position, type, container, heap) ==
  LET byte == ByteAt(data, position)
      key  == IF type = "LIST"
              THEN [ok |-> TRUE, value |-> NoKey, position |-> position]
              ELSE ParseKey(data, position, container)
  IN CASE byte = TagEnd ->
            [ok |-> TRUE, value |-> container, position |-> position + 1, heap |-> heap]
       [] byte = NoByte -> Failed(FreeContainer(heap, container))
       [] OTHER -> ParseRest(data, type, AddElement(data, type, container, heap, key))

ParseList(data, position, heap) ==
  ParseElements(data, position + 1, "LIST", EmptyContainer, heap)

ParseDictionary(data, position, heap) ==
  ParseElements(data, position + 1, "DICTIONARY", EmptyContainer, heap)

-----------------------------------------------------------------------------
\* determine_bencode_data_type
DataType(byte) ==
  CASE byte \in Digits       -> "BYTE_STRING"
    [] byte = TagInteger     -> "INTEGER"
    [] byte = TagList        -> "LIST"
    [] byte = TagDictionary  -> "DICTIONARY"
    [] OTHER                 -> "INVALID"

ParseValue(data, position, heap) ==
  LET type == DataType(ByteAt(data, position))
  IN CASE type = "BYTE_STRING" -> ParseString(data, position) @@ [heap |-> heap]
       [] type = "INTEGER"     -> ParseInteger(data, position) @@ [heap |-> heap]
       [] type = "LIST"        -> ParseList(data, position, heap)
       [] type = "DICTIONARY"  -> ParseDictionary(data, position, heap)
       [] OTHER                -> Failed(heap)

\* The bytes an object was parsed from.  (Leaving out the last is a plausible
\* mistake.)
EncodedBeforeEnd(start, position) == position - start - 1

EncodedLength(start, position) == position - start

Object(data, start, parsed) ==
  [type |-> DataType(ByteAt(data, start)),
   value |-> parsed.value,
   start_offset |-> start,
   encoded_length |-> EncodedLength(start, parsed.position)]

WithObject(data, start, parsed) ==
  IF parsed.ok
  THEN [ok |-> TRUE, position |-> parsed.position, heap |-> parsed.heap,
        object |-> Object(data, start, parsed)]
  ELSE Failed(parsed.heap)

ParseBuffer(data, position, heap) ==
  WithObject(data, position, ParseValue(data, position, heap))
=============================================================================

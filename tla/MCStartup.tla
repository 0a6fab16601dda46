------------------------------ MODULE MCStartup ------------------------------
(***************************************************************************)
(* TLC's instance of Intake: small torrents and answers.  The names of     *)
(* entries have one byte, a hash has two bytes, an address has one.        *)
(***************************************************************************)
EXTENDS IntakeTrees
LOCAL INSTANCE SequencesExt
LOCAL INSTANCE TLC

-----------------------------------------------------------------------------
(* Encoding.                                                               *)

RECURSIVE Numeral(_)
Numeral(n) == IF n < 10 THEN <<48 + n>> ELSE Append(Numeral(n \div 10), 48 + (n % 10))

Str(text) == Numeral(Len(text)) \o <<Colon>> \o text
Integer(n) ==
  <<TagInteger>> \o (IF n < 0 THEN <<Minus>> \o Numeral(-n) ELSE Numeral(n)) \o <<TagEnd>>
List(items) == <<TagList>> \o FlattenSeq(items) \o <<TagEnd>>
Dict(entries) ==
  <<TagDictionary>> \o FlattenSeq([k \in DOMAIN entries |-> Str(entries[k][1]) \o entries[k][2]])
                    \o <<TagEnd>>

\* A text with one byte changed, left out or added behind it, or cut off.
Edits(text, bytes) ==
  { ReplaceAt(text, k, b) : k \in DOMAIN text, b \in bytes }
  \cup { RemoveAt(text, k) : k \in DOMAIN text }
  \cup { SubSeq(text, 1, k) : k \in 0 .. Len(text) }
  \cup { Append(text, b) : b \in bytes }

\* 0 1 2 : - a d e i l
Alphabet == {48, 49, 50, Colon, Minus, 97, TagDictionary, TagEnd, TagInteger, TagList}

-----------------------------------------------------------------------------
(* Torrents.                                                               *)

MCAnnounceKey    == <<97>>
MCInfoKey        == <<98>>
MCLengthKey      == <<109>>
MCNameKey        == <<110>>
MCPieceLengthKey == <<112>>
MCPiecesKey      == <<113>>

InfoOf(length, piece_length, pieces) ==
  Dict(<< <<MCLengthKey, length>>, <<MCNameKey, Str(<<102>>)>>,
          <<MCPieceLengthKey, piece_length>>, <<MCPiecesKey, pieces>> >>)

TorrentOf(announce, info) == Dict(<< <<MCAnnounceKey, announce>>, <<MCInfoKey, info>> >>)

Hashes(n) == Str([k \in 1 .. n |-> 104])
PlainInfo == InfoOf(Integer(5), Integer(3), Hashes(4))
PlainTorrent == TorrentOf(Str(<<117>>), PlainInfo)

\* Values that the lookups must tell apart.
OddTorrents ==
  { TorrentOf(Str(<<117>>), InfoOf(length, piece_length, pieces)) :
      length \in { Integer(n) : n \in {-1, 0, SizeMax, SizeMax + 1} } \cup {Str(<<>>)},
      piece_length \in { Integer(n) : n \in {-1, 0, 3, SizeMax + 1} },
      pieces \in { Hashes(n) : n \in {0, 3, 4} } \cup {Integer(0)} }
  \cup { TorrentOf(announce, PlainInfo) :
           announce \in { Str(<<>>), Str(<<117, QuestionMark, 120>>), Str(<<QuestionMark>>),
                          Str([k \in 1 .. 20 |-> 117]), Integer(1) } }
  \cup { TorrentOf(Str(<<117>>), info) : info \in {List(<<>>), Dict(<<>>), Str(<<98>>)} }
  \cup { PlainInfo, Dict(<< <<MCInfoKey, PlainInfo>> >>) }

\* Every short text, and lists and dictionaries of every few values.
ShortTexts == SeqOf(Alphabet, 4)

Small ==
  { Str(<<>>), Str(<<97>>), Str(<<98>>), Str(<<97, 97>>), <<48, 48, Colon>>, Integer(0),
    Integer(-1), List(<<>>), Dict(<<>>), List(<<Dict(<<>>)>>), List(<<List(<<Str(<<>>)>>)>>) }

Nested ==
  { List(items) : items \in SeqOf(Small, 3) }
  \cup { <<TagDictionary>> \o FlattenSeq(items) \o <<TagEnd>> : items \in SeqOf(Small, 3) }
  \cup { Dict(<< <<a, x>>, <<b, y>> >>) :
           a, b \in {<<>>, <<97>>, <<98>>, <<97, 97>>}, x, y \in {Integer(0), List(<<Str(<<>>)>>)} }
  \cup { Dict([k \in 1 .. n |-> <<<<96 + k>>, List(<<Integer(k)>>)>>]) : n \in 3 .. 5 }
  \cup { List(<<List(<<Integer(1)>>), Integer(2), List(<<Integer(3)>>)>>) }

Numbers ==
  { Integer(n) : n \in { IntMax - 1, IntMax, IntMax + 1, IntMax + 10,
                         -IntMax, -IntMax - 1, -IntMax - 2, -IntMax - 10 } }
  \cup { Numeral(n) \o <<Colon>> \o [k \in 1 .. n - 1 |-> 97] : n \in {SizeMax, SizeMax + 1} }

MCTorrents ==
  ShortTexts \cup Nested \cup Numbers \cup OddTorrents \cup Edits(PlainTorrent, Alphabet)

-----------------------------------------------------------------------------
(* Answers of the tracker.                                                 *)

MCIntervalKey == <<105>>
MCPeersKey    == <<112>>
MCIpKey       == <<97>>
MCPortKey     == <<98>>

\* The texts x and yy are addresses.
MCAddresses == (<<120>> :> <<1>>) @@ (<<121, 121>> :> <<2>>)

AnswerOf(interval, peers) == Dict(<< <<MCIntervalKey, interval>>, <<MCPeersKey, peers>> >>)

Item(ip, port) == Dict(<< <<MCIpKey, ip>>, <<MCPortKey, port>> >>)
Items ==
  { Item(Str(<<120>>), Integer(7)), Item(Str(<<121, 121>>), Integer(UINT16_MAX)),
    Item(Str(<<120>>), Integer(UINT16_MAX + 1)), Item(Str(<<120>>), Integer(-1)),
    Item(Str(<<122>>), Integer(7)), Item(Integer(7), Str(<<120>>)),
    Dict(<< <<MCIpKey, Str(<<121, 121>>)>> >>), Dict(<< <<MCPortKey, Integer(8)>> >>),
    Integer(7), List(<<>>) }

CompactTexts ==
  { <<>>, <<1>>, <<1, 2>>, <<1, 2, 3>>, <<255, 255, 255>>, <<1, 0, 80, 2>>,
    <<1, 0, 80, 2, 1, 0>>, <<1, 2, 3, 4, 5, 6, 7, 8, 9>> }

PlainAnswer == AnswerOf(Integer(9), Str(<<1, 2, 3>>))

Answers ==
  { AnswerOf(Integer(9), List(items)) : items \in SeqOf(Items, 2) }
  \cup { AnswerOf(Integer(9), List(<<Integer(1), Integer(2), Integer(3)>>)) }
  \cup { AnswerOf(Integer(9), Str(text)) : text \in CompactTexts }
  \cup { AnswerOf(Integer(9), Integer(1)), AnswerOf(Str(<<>>), Str(<<1, 2, 3>>)) }
  \cup { Dict(<< <<MCPeersKey, Str(<<1, 2, 3>>)>> >>), List(<<>>), Integer(3) }
  \cup { Str([k \in 1 .. SizeMax |-> 97]) }
  \cup Edits(PlainAnswer, Alphabet)

MCBodies(t) == IF t = PlainTorrent THEN Answers ELSE {PlainAnswer}
=============================================================================

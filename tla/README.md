# A TLA+ development of loco

`loco` is a BitTorrent client written in C: it reads a `.torrent` file, asks the
tracker for peers, and downloads the file one piece and one peer at a time. This
directory holds TLA+ modules that model it, TLC configurations that check the
modules on small instances, and proofs, checked by TLAPS, that hold for every
torrent, every number of peers and every message.

Line numbers refer to the files under `src/` and `include/` of the repository
(`main.c:349` is `src/main.c`, line 349).

## The system

The program is one thread. Its concurrency is with the outside: a peer and a
network that act between any two of its calls, libcurl's callbacks, and calls
that fail or do only a part of what they were asked for.

| Component | Source | State | Operations |
|---|---|---|---|
| Startup and cleanup | `main.c:31-283, 586-601`, `file_reader.c`, `cli.c`, `info_hash.c`, `peer_id.c` | what is allocated and open | a chain of 34 steps, each with its own exit |
| Bencode parser | `bencode_parser.c` | bytes and a position | parse and free integers, strings, lists, dictionaries |
| Torrent metadata | `torrent_metadata.c` | none, it borrows from the tree | find name, lengths, hashes, the span of the info dictionary |
| Tracker | `tracker.c` | the response so far | build the URL, announce, receive chunks, extract peers |
| Torrent layout | `main.c:208-267, 443-505` | none | piece sizes and offsets in `size_t` |
| Download loop | `main.c:292-584` | current peer, `current_connection`, `current_piece_state`, the output file | connect, handle a message, check and store a piece, ask for a block, leave the peer |
| Piece state and bitfield | `peer_connection.c:24-33, 582-763` | `piece_download_state_t`, `piece_bitfield_t` | have, bitfield, piece, reset |
| Peer wire reader | `peer_connection.c:257-282, 438-580, 765-771` | a stream of bytes, `peer_wire_message_t` | read one message, free it |
| Peer socket | `peer_connection.c:55-255, 311-436` | descriptor, flags, bytes sent and received | connect, shake hands, send |
| Output stream | `main.c:246, 458-468, 587` | position, buffer | seek, write, close |

How they interact: `main` calls everything. The loop calls the socket's
functions, blocks in the reader, hands the message to the functions of the
piece state, and writes to the stream. The bencode trees borrow the bytes they
were parsed from, and the metadata and the peer list are read from the trees, so
all of these live until the end of `main`.

What is hard in it (`PROJECT.json` has the list, with a line for each):

- *Order of a peer's messages.* A choke that crosses a request, a block that is
  sent twice or too late, haves before, after or instead of a bitfield.
- *State that outlives a peer.* `current_piece_state` and its buffer are shared
  by all connections; the buffer is never cleared.
- *Steps that do a part.* `recv`, `send` and `fwrite` return less than they were
  asked for, or fail half way; `connect` is answered while `poll` times out.
- *Boundaries.* The last piece may be shorter, full, empty, the only one or larger
  than the others; products and offsets may exceed `size_t`, `long` or 32 bits.
- *Waiting.* The loop blocks in `recv` without a timeout.
- *Ownership.* Every exit has its own hand-written list of what to free, and so
  has every failing path of the recursive parser.
- *Foreign bytes.* A torrent and a tracker's answer may be anything, cut anywhere.
- *Buffered output.* A piece is counted before the disk has it.

What makes each component correct:

- *Layout*: the pieces cut the declared length without gap or overlap.
- *Download loop*: only verified bytes reach the file, each in its place;
  `piece_index` says how much is there; success means all of it.
- *Piece state*: bytes are counted once, for the piece they belong to; a request
  ends inside the piece.
- *Among peers*: a peer that behaves is neither blamed nor left; loco finishes.
- *Reader*: the messages of the peer, whole, in order, and nothing else.
- *Socket*: a connection is usable or closed; messages are whole on the wire.
- *Output stream*: what is counted is on the disk or still on its way there.
- *Parser*: it takes bencoded values and nothing else, its spans are exact, it
  owns each array once.
- *Metadata and tracker*: what is hashed is what is read; an answer is used as a
  whole; peers are those of the answer; the URL fits its buffer to the byte.
- *Startup*: all is freed exactly once, nothing before its last use; the loop
  starts with what it relies on.

## Modules

| Module | Models | Extends or uses |
|---|---|---|
| `TorrentLayout` | the arithmetic of pieces and offsets | |
| `VerifiedDownload` | abstract: what the user is promised | `TorrentLayout` |
| `Download` | the loop, with an arbitrary environment | `TorrentLayout`, refines `VerifiedDownload` |
| `Swarm` | the loop composed with peers that follow the protocol, and both directions of the connection | `Download` |
| `MessageChannel` | abstract: what the loop expects of the reader | |
| `PeerWire` | the reader over a stream of bytes | refines `MessageChannel` |
| `PeerLink` | one socket from `connect` to `close` | |
| `OutputFile` | the loop composed with the stream it writes to and the disk behind it | `Download` |
| `DownloadBytes` | the loop with the bytes of bitfields and messages | `Download` |
| `SizeT` | `size_t` of the modules below | |
| `BencodeBasics` | the parser's bytes, heap, numbers, strings and integers | `SizeT` |
| `Bencode` | the parser: lists, dictionaries and how they are freed, which is recursive | `BencodeBasics` |
| `BencodeGrammar` | what bencode is, without a parser; what a tree means | `Bencode` |
| `TorrentMetadata` | what is read from a torrent | `BencodeBasics` |
| `TrackerResponse` | what is read from the tracker's answer | `TorrentMetadata` |
| `TrackerUrl` | the URL and its capacity | `SizeT` |
| `Startup` | resources from the command line to the last `free` | `SizeT` |
| `Intake` | `Startup` with the values its steps compute | `Startup`, `TrackerResponse`, `TrackerUrl` |
| `IntakeTrees` | what must hold of the trees in `Intake` | `Intake`, `BencodeGrammar` |

Eight of them have a module of proofs, named after them: `DownloadProofs`, which
`OutputFileProofs`, `DownloadBytesProofs` and `SwarmProofs` extend,
`PeerWireProofs`, `PeerLinkProofs`, and `StartupProofs`, which `IntakeProofs` extends.

`MCDownload`, `MCOutputFile`, `MCDownloadBytes`, `MCSwarm`, `MCPeerWire`,
`MCPeerLink` and `MCStartup` instantiate them for TLC. An operator whose comment calls it *a plausible mistake* is not
part of any specification: it is a wrong form of the definition after it, kept
so that one can see each property fail when the code is wrong in that way
(`PROJECT.json`, `mutants`).

### Download

The variables have the names of the C variables: `i`, the fields of
`current_connection` and of `current_piece_state`, and `download_complete`. `pc`
is the place in the loop: `next_peer` (292), `handshake` (312), `receive` (345),
`check` (418), `serve` (510), `drop` (580), `exit` (595), and `overrun`, see below.
One action is one path
from a place to the next: `ReceivePiece` is `process_incoming_piece_message`
with its tests as guards, `StorePiece` is lines 443-507 when `fwrite` succeeds,
with its four ends `FinishDownload`, `RefuseLayout`, `SizeLastPiece` and
`KeepPieceSize`. Every call that can fail has a failing action, and every test
of the code that can hold is a guard; the test at 558 ends as a failed `send` does
and shares its action, `RequestNotSent`. Two tests can not hold and have no action
of their own: the hash offset at 424 and the index at 512, since
`piece_index < piece_count` wherever they are reached (`Completion`, proved).

Bytes are named by their position in the torrent: byte `p` of the file is right
when it is `p`. A block from a peer is either the torrent's bytes or `Corrupt`;
`Unset` is a byte of the buffer nothing was copied to and `Hole` one of the file
nothing was written to. SHA-1 is taken to be free of collisions. A bitfield is
the set of pieces whose bit is set. `file` is what was handed to the stream.
Products are reduced modulo `SizeMax + 1`, as `size_t` arithmetic is, and the
code's guards are modelled as they stand.

One case is beyond what C defines. The buffer has the size of the first piece
(`main.c:269`), the last piece has the rest of the declared length
(`main.c:503-505`), and a block is tested against the piece it belongs to, not
against the buffer (`peer_connection.c:752-758`). No code compares the declared
length with what the pieces hold. When it is larger, in a torrent of more than one
piece, loco asks for blocks of the last piece that lie behind the buffer, and
`memcpy` writes there. `OverrunBuffer` is that step; it ends in the place
`overrun`, where the model stops, since anything may follow. `DownloadLongLast`
is such a torrent; the theorem `CopiesFit` says that it takes one.

A keep-alive, an interrupted system call and the terminal output change nothing
that is modelled and are stuttering steps. The peer may send any message at any
time; an index of `PieceCount` stands for all that are too large.

### Swarm

`Swarm` reuses the actions of `Download` and restricts when they may happen: a
message is received when it is at the head of `inbox`, sent messages go to
`outbox`. The remote peer is not part of the repository; it is modelled from
what `main.c` sends and waits for, and its traits are listed in the module. A
peer that chokes discards the requests it reads while choking, which is the
protocol's rule. The disk and the allocator do not fail in `Swarm`.

### PeerWire

A stream is a sequence of messages given by prefix and id, cut at any byte.
`phase` says which of the three loops around `recv` the reader is in. Payload
bytes are counted only; the lengths that `MaxPayload` and `MaxPiecePayload`
stand for are 1048576 and 16392.

### PeerLink

`pc` names the call that comes next, `connection` what the kernel knows of the
connection, which changes on its own while `poll` waits. `wire` records what
reached the wire of each message.

### OutputFile

`Download`'s `file` is what the loop handed to the stream. `disk` is what the
disk has, `pending` the positions in the stream's buffer. A store flushes what is
pending (`fseek`), and keeps any end of the new piece back; a flush may break off
anywhere, and then either drops the rest or keeps it, since C does not say which.
`WriteIsShort` is `fwrite` at 458 when it takes a part, `CloseStream` is `fclose`
at 587, whose result the code ignores.

The code does not promise more than `CompleteOnDisk` says: when a flush drops
bytes of a piece that is counted (`lost`), loco does not see it (a failing
`fclose`), or sees a failing `fseek` and tries the next piece again, not the one
that was dropped. It may then report a complete download. The properties say
that this is the only way to lose a byte.

### DownloadBytes

A bitfield is a sequence of bytes and a byte is the set of its bits, so that `|=`
and `&` are union and intersection. A word of a message is a sequence of digits.
`bytes` is the connection's bitfield and `request` the last request on the wire;
each action is one of `Download`'s, with the payload it was read from.
`Represents` says that `Download`'s set of pieces is what the bytes stand for.

### BencodeBasics, Bencode and BencodeGrammar

Each parsing function is an operator from a buffer, a position and a heap to
what the function returns and stores. The list's and the dictionary's parser
differ in the key only and share `ParseElements`, whose branches are the failing
paths of both. The heap knows the live arrays and can refuse any one request.
`BencodeGrammar` says which byte sequences are bencode by splitting them, without
a position and without failing paths, and `Meaning` what a tree stands for;
`ReadsBencode` and `SpansExact` of `IntakeTrees` compare the two.

A module of proofs reaches no recursive operator. So `TrackerResponse` and
`Intake`, which call the parser, take it as constants, `parse_bencode_buffer` and
`free_bencode_object`, and say in `ParserAssumption` what they rely on: in what
is returned, as deep as `main` reads it, strings lie inside the buffer, integers
are integers and containers have elements. `StartupExits` gives the constants the
parser of `Bencode`, and TLC evaluates the assumption for it, for every torrent
and answer, every prefix of an answer, and every refused allocation.

### TorrentMetadata, TrackerResponse, TrackerUrl

The lookups have the order and the tests of the code, also where the code repeats
itself. The list of peers is a fold with the loop's variables, its flags among
them. `TrackerUrl` has the two halves of `build_tracker_url` apart: `Capacity`
adds lengths, `Filled` adds parameters. `main` asks only with the event `started`;
`UrlFits` is checked for every event, since `tracker.c` takes them all.

### Startup and Intake

`Steps` lists the 34 steps in program order with what each borrows, tests, gets,
frees when it fails and releases when it succeeds, as the code has it. What is
freed at a failure is up to three lists, one of each function that frees something:
one that a callee of `main` has called (`build_tracker_url`), the callee, and `main`.
`FreedOnce` compares them with each other and with what was released before. The
actions `Succeed` and `Fail` are the two ways out of a step. Freeing a `NULL`
pointer is allowed, as in C: `acquired` tells it from a second `free`. So `main`
frees nothing when the file could not be read (`main.c:43`), as its buffer is set
last (`file_reader.c:91`): `NothingGiven`. A chunk of no bytes is delivered only
for an empty body; `realloc` then gives a block of no bytes, which is held.

`Intake` gives the steps their values: the torrent's bytes, the trees, the
metadata, the request, the tracker's answer. A step whose outcome the values
decide (`Decisions`) takes the way they say (`Verdict`), all others both.
`IntakeTrees` adds the properties that look into the trees, in terms of
`BencodeGrammar`.

## Runs

Every run switches deadlock checking off: the program ends.

| Run | Instance | What it shows |
|---|---|---|
| `DownloadShortLast` | `OutputFile`: 3 pieces of 3, 3 and 2 bytes, blocks of 2, 3 peers | the inductive invariant (`StreamInv`, which contains `Inv` and with it `TypeOK`, `FileGenuine`, `VerifiedPrefix`, `RequestWindow` and `NoStaleBytes`), the refinement, and what is on the disk, in the typical torrent: several blocks per piece, a short last block, a short last piece |
| `DownloadLongLast` | 3 pieces, piece length 3, declared length 11, blocks of 2, 2 peers | the last piece gets 5 bytes; sizes are those of the index for every peer, requests end inside the piece, and inside the buffer but for the last piece, where it is overrun |
| `DownloadTight` | `DownloadBytes`: 5 pieces, four of one byte and an empty last one, bytes of 3 bits, words of 2 binary digits, so `UINT32_MAX` 3; `LONG_MAX` 3 | the bits and the words, and in reach the refusals at 454 and 559 and a piece complete with no byte |
| `DownloadOverflow` | `SIZE_MAX` 8, 4 pieces of 3 bytes, declared length 6 | the refusals at 446 and 492 (499 leads to the same state; here 492 always comes first); without the divisions an offset wraps to 0 |
| `SwarmResponsive` | 2 pieces of 3 and 2 bytes, blocks of 2, 3 peers, each of 9 kinds | no honest peer blamed, no seed left, and liveness |
| `SwarmChoking` | 2 pieces of 2 bytes, blocks of 1, 3 peers of 4 kinds, each chokes again up to twice | one request at a time when chokes cross requests; `SeedInv`, the inductive invariant of the loop, its messages and what it knows of a seed; a last piece that is full |
| `PeerWireCuts` | 2 messages of 12 shapes | the reader and its inductive invariant `WireInv`, in every cut of the stream |
| `PeerLinkLife` | buffers of 2 to 4 bytes, 3 messages | the socket and its inductive invariant `LinkInv` |
| `StartupExits` | about 14,600 torrents, 316 answers with one of them; `SIZE_MAX` 95, `INT64_MAX` 70000, hashes of 2 bytes, addresses of 1, chunks of up to 3, one allocation of each parser refused | the parser, what is read from torrent and answer, the URL, and every exit |

Why the bounds are enough: three pieces give a first, a middle and a last one;
three peers let state survive a corrupt peer, a failed write and a refused
layout, and still be used; a piece of 3 bytes takes a whole and a shorter block.
Three bits to a byte and five pieces give a
bitfield of two bytes with a padding bit. The torrents are every text of up to
four of ten bytes, lists and dictionaries of up to three values of eleven kinds,
numbers and lengths on both sides of their limits, every one-byte change, cut and
extension of a whole torrent, and torrents with odd values; the answers likewise.
Lengths the pieces cannot hold are among the odd values. `SIZE_MAX` 95 is small
enough for a list of three items to be refused its array of four and for
a URL to be too long, `INT64_MAX` is above 65535 so that a port can be too large.
The first three allocations reach an array in an array. The theorems remove the
bounds for everything but liveness and what lists and dictionaries parse to. Two messages let the reader fall
out of step with the second; a message's content does not outlive it.

Three runs look for a disagreement between `README.md` and the code, and find
it (`findings`):

- `SwarmEmptyPeer`: README.md:68 says that loco tries another peer when the
  current one cannot provide the required piece. A peer that has nothing may
  announce nothing; loco looks at what the peer has only once there is a bitfield
  (`main.c:510`) and waits in `recv` (`main.c:349`). The run asks only for peers with a
  seed behind them in the list, which is never tried.
- `SwarmOnePieceEach`: the same sentence. Peers are tried once, in order
  (`main.c:292`); loco gives up while a peer it has left has the piece.
- `SwarmLostRequest`: README.md:39 lists choking and unchoking. A choke leaves
  `request_pending` set (`main.c:363-365`), so that a request the peer has
  discarded is never made again (`main.c:545-547`).

`SwarmResponsive` leaves these cases out by its profiles (every peer has
something, none chokes again); what it says of liveness is said of those peers.

### Fairness

`SwarmSpec` assumes weak fairness of `Loco`, a loop of one thread that blocks only
in `recv`; and of a remote peer that has something to announce, to read or to
unchoke. It does not assume that a peer ever chokes or closes. `PeerWire` assumes
that the reader goes on while there is input; messages, the end of the stream
and errors need not come. `PeerLink` assumes that the calls of
`connect_to_peer` return: `poll` has a timeout and the others do not block on a
non-blocking socket.

`Swarm` lets a handshake succeed or fail, but not hang. The code could: the `recv`
of the handshake (`peer_connection.c:229`) has no timeout either. What is said of
liveness is said of peers that answer a handshake or close.

## Proofs

Every theorem is about a whole specification and every value of its constants
that satisfies the assumptions; only `SwarmSeedKept` and `CopiesFit` have a
hypothesis more. For each module there is one inductive invariant;
the other theorems follow from it.

| Module | Theorem | States |
|---|---|---|
| `DownloadProofs` | `Invariance` | `Spec => []Inv` |
| | `TypeCorrect`, `OnlyVerifiedBytes`, `RequestsInWindow`, `SizesRight` | the conjuncts of `Inv` worth a name, and `PieceSizeRight` |
| | `CopiesFit` | `pc` is never `overrun`, of a torrent with `LengthFits` |
| | `CountedOnce` | `Spec => BlockCountedOnce` |
| | `Refinement` | `Spec => Implements` |
| `OutputFileProofs` | `OutputIsDownload` | `OutputSpec => Spec` |
| | `OutputImplements` | `OutputSpec => Implements` |
| | `StreamInvariant` | `OutputSpec => []StreamInv` |
| | `BytesKept`, `SuccessOnDisk` | `CountedBytesKept`, `CompleteOnDisk` |
| `DownloadBytesProofs` | `BytesIsDownload` | `BytesSpec => Spec` |
| | `BytesInvariant` | `BytesSpec => []BytesInv` |
| | `BytesRepresent`, `BytesRequestRead` | `Represents`, `RequestRead` |
| `SwarmProofs` | `SwarmIsDownload` | `SwarmSpec => Spec` |
| | `SwarmInvariant` | `SwarmSpec => []SwarmInv` |
| | `SwarmOneInFlight`, `SwarmHonestNeverBlamed` | `OneInFlight`, `HonestNeverBlamed` |
| | `SeedInvariant` | `SwarmSpec => []SeedInv` |
| | `SwarmSeedKept` | `SeedKept`, of a torrent that is `WellFormed` |
| `PeerWireProofs` | `WireInvariant` | `Spec => []WireInv` |
| | `WireInSync`, `WireOwnedOnce` | `InSync`, `OwnedOnce` |
| | `WireImplementsChannel` | `Spec => ImplementsChannel` |
| `PeerLinkProofs` | `LinkInvariant` | `Spec => []LinkInv` |
| | `LinkSocketOwned`, `LinkReadyToTalk`, `LinkWholeMessages`, `LinkHandshakeFirst` | the four properties of `PeerLink` |
| `StartupProofs` | `StartupInvariant` | `Spec => []StartupInv` |
| | `StartupNothingLeaks`, `StartupFreedOnce`, `StartupBorrowedAlive` | the three properties of ownership |
| | `StartupResponseGrows` | `Spec => ResponseGrows` |
| `IntakeProofs` | `IntakeIsStartup` | `IntakeSpec => Spec`, of `Startup` |
| | `IntakeExits` | `NothingLeaks`, `FreedOnce`, `BorrowedAlive` and `ResponseGrows`, with the values |
| | `IntakeInvariant` | `IntakeSpec => []IntakeInv` |
| | `IntakeLoopPreconditions`, `IntakePeersFaithful`, `IntakeUrlFits` | `LoopPreconditions`, `PeersFaithful`, `UrlFits` |
| | `UrlExact` | every request's URL fills its capacity to the byte |
| | `NumberExact`, `StringRead`, `IntegerRead` | what the parser makes of digits, strings and integers |

### Download

No one of the safety properties is inductive. `FileGenuine` needs
that what is written was verified and that `FileOffset`, a product modulo
`SizeMax + 1`, is where the piece belongs: `NoWrap` shows it from the divisions
before it. `VerifiedPrefix` needs that `piece_size` is the size of the piece
`piece_index` names (`Sized`), or a store would leave a gap; and `Sized` must
hold too after the layout of the last piece was refused, where the size stays
the old one: then the last piece begins behind the file and nothing of it counts.
`RequestWindow` needs `Counted` (the subtraction at 549 does not wrap) and
`NoStaleBytes` needs `Disconnected` (between two connections nothing is
counted, so the buffer's old bytes are not either). `Completion` ties the flag to
the index. The last piece may be larger than the buffer; `Overrun` says that this is
the only way to `overrun`, and since the model stops there, whatever was counted lies
inside the buffer. So the file and the count are right as far as C says anything. `Inv` is their conjunction. `InvNext` has one step per action.

The refinement maps `piece_index` to `stored` and the flag at `exit` to the
outcome. A write that fails half way is `StorePart`, a store is `StoreNext`, and
the invariant supplies that its size and its bytes are the right ones.

### What composes with Download

`OutputFile`, `DownloadBytes` and `Swarm` each implement `Spec` of `Download`, so
all that is proved of `Download` holds with the stream, with the bytes, and among
those peers. The step is a lemma of its own (`OutputStep`, `BytesStep`,
`SwarmStep`); the latter two need the invariant, since a number read from a
payload must be one of those `Download` lets a peer send.

*The stream.* `StreamInv` is `Inv`, `CountedBytesKept`, that no byte on the disk
is foreign to the torrent (`DiskGenuine`), and that a closed stream has nothing
left (`StreamClosed`). `DiskGenuine` is what makes `CountedBytesKept` inductive:
a part of the buffer that is flushed is a part of `file`, which holds what was
verified.

*The bytes.* `BytesInv` says that the bytes have the length of the bitfield and
no padding bit, and that `bitfield` is `PiecesOf(bytes)`; `PlaceOf` and
`PaddingIs` are the arithmetic (byte and bit of a piece are unique, the padding
is just what lies behind the last piece, also when nothing does). For requests
it says which three numbers were written and that they fit 32 bits.
`HornerReadsBack` and `SumReadsBack` are inductions over the bytes of a word: a
number cut off behind its `j`-th byte is what the first `j` bytes are worth. The
library's induction theorems take an operator, which the provers cannot
instantiate, so these proofs take the least number at which the claim fails
(`LeastNumber`, from `WFMin` of `WellFoundedInduction`), and `Recurrence` shows
that the function a recursive definition asks for exists.

*The peers.* `OneUnderWay` of `SwarmInv` says that at most one request is under
way, in `outbox` as a request or in `inbox` as an answer, and `OneInFlight` that
it is pending and has the numbers loco has noted; `FreshChannel` says that both directions are empty before a handshake; `HonestBytes`
that what an honest peer has sent for the current piece is the torrent's.
`OneInFlight` says nothing of the numbers of a message at `drop`: a last piece
that is empty is complete while its request is still under way, and is stored,
which resets the request, before the connection is closed. Nothing is read from
a connection at `drop`, so nothing depends on it; the attempt to prove the
stronger property showed the case.

*A seed.* `SeedKept` needs that nothing a seed sends is refused. `SeedHeard` says
that it has announced itself once, that its bitfield is under way or is the one
loco has, and that it has not closed; so its bitfield is taken, `CanServe` holds
whenever it is asked, its answers are accepted (`OneInFlight`) and its pieces pass
the hash check (`HonestBytes`). What is left is the layout of the last piece,
which loco refuses while it is connected to whoever sent the piece before it
(`main.c:499`): a seed is then left although it did nothing wrong. The theorem
therefore has the hypothesis that the last piece begins inside the file
(`WellFormed`), which is the negation of that refusal (`LastPiece`).

### Reader, socket, startup

*The reader.* `WireInv` says where in the stream the message in hand began
(`Laid`, `InSync`), that what was read of it is what was sent (`InMessage`), that
what was delivered is the beginning of what was sent (`DeliveredSent`), and who
owns the payload (`OwnedOnce`, `Freed`). The refinement maps to `MessageChannel`
what was sent, what was delivered and whether the reader has failed.

*The socket.* Beside the four properties `LinkInv` has that the descriptor is
valid exactly where the code holds it (`Descriptor`), and, for the wire, that all
messages before the one being sent are whole and none was begun behind it
(`Unsent`, `WireSoFar`, `Whole`); `AllRead` is the same for the handshake's answer.

*Startup.* `StartupInv` says that what is held before a step is what that step
frees when it fails. It is proved from the list of steps itself: `StepFits` says
of each of the 34 steps that what it must hold, gets and releases leads from its
own list to the next one. The one exception is the response, which exists only
after a chunk has arrived (`ResponseHeld`).

### What is read

*The steps with their values.* Each action of `Intake` is one of `Startup` with a
condition on data added (`IntakeSteps`), so the ownership properties carry over.
`IntakeInv` says what each step has found out and that it stays true up to the
loop: the torrent is a file that was read and its tree is sound
(`TorrentParsed`), the answer is a prefix of what the tracker sends and its tree
is sound (`AnswerParsed`), the request has its types (`RequestMade`), and the
three tests before the loop were passed (`Checked`). It is needed because the
step that decides and the step that relies on it are far apart:
`LoopPreconditions` holds at step 35 by tests made at steps 8 and 29 to 32, and the
array of hashes lies inside the file because its tree does (`EntryFound`,
`MetadataSound`). The heap is part of it since `ParserAssumption` speaks of the
heap that the first tree leaves to the second parser. TLC was given `IntakeInv` as
an invariant of `StartupExits` before it was proved.

*The URL.* `UrlExact` compares two folds over different texts. `CapacitySum`: a
capacity that is not `TooLong` is 1 plus the nine lengths. `FilledIs` unfolds the
filling; while each position fits, it is the sum of what was written before it.
The sums agree, for each of the four events and with or without a query in the
announce URL, because the static text is as long as the separator, the prefixes
and the value of `compact` together (`TextAssumption`); one byte is left for the
end of the string. Each position is at most the whole sum, so none of
`add_query_parameter_to_url`'s tests fails.

*The peers.* For the compact form `CompactFaithful` reads the segments back
(`PartOfPart`, `Offsets`). For a list the loop over the entries of an item
(`EntriesRead`) keeps that an address or a port that was found stands in an entry
read so far, and finds one if there is one; `FlagsCleared` makes that
true of this item. The loop over the items (`OneMoreItem`, `MadeOf`) keeps a
strictly increasing map from the peers to the items that describe one. Both are
inductions over a position in a sequence, done by `Reaches`.

*Numbers.* `NumberExact` is the overflow test that length prefixes and integers
share: `number > (limit - digit) / 10` refuses exactly what exceeds the limit, for
every limit of at least 9 and any number of digits. From it `StringRead` says that a
string lies inside the buffer, which is `ParserAssumption` for the leaves of a tree,
and `IntegerRead` that integers are those of `int64_t`, `INT64_MIN` included.

### Assumptions

`TorrentAssumption` is what `main` establishes before the loop
(`main.c:208-237`, `torrent_metadata.c:148`, `166`) and nothing else; it allows any
declared length, smaller or larger than what the pieces hold. That `main` does
establish it is `LoopPreconditions`, proved for `Intake`. `DownloadAssumption` and `BytesAssumption` say
that numbers are numbers, that the values for foreign bytes are not positions, and
that a word of `WordBytes` bytes goes up to `UInt32Max`, which a block does not
exceed (`peer_connection.h:16`). `WireAssumption` says what a message is; its
one conjunct of substance is that a message with no byte behind its prefix, a
keep-alive, has no id. `LinkAssumption` gives every message a positive size.
`StartupAssumption` says that there is at least one chunk to receive.
`SizeAssumption` and `BencodeAssumption` let a size and an integer hold a digit.
`IntakeAssumption`, `MetadataAssumption` and `TrackerAssumption` say that files
and answers are bytes, that hashes and addresses have a length, and that what
`inet_pton` returns has that of an address. `TextAssumption` gives the lengths of
`tracker.c`'s string literals, which the provers cannot count; TLC counts them.
`ParserAssumption` is the one assumption about the program itself, see above: for
strings and integers it is proved, for containers TLC evaluates it on the
instances.

### Model-checked only

- Liveness: `SeedSuffices`, `Returns`, `EveryMessageAnswered` and
  `ConnectReturns` need fairness and `ENABLED`, which are out of the proof
  system's reach.
- `ReadsBencode`, `SpansExact`, `BlocksOwned`, `ArraysHold`, `HashedInfo` and
  `WholeAnswer` speak of whole trees, of any depth. The parser, the grammar and the
  meaning of a tree are recursive over data, which the prover does not take; what
  is proved of the parser ends at strings and integers.

## Not modelled

- The constant bytes of messages: the handshake's layout and the prefix and id in
  front of a request; `PeerLink` counts them.
- `parser->position` after a failure, which is restored on every path and read
  on none; the depth of the parser's recursion, which only the torrent's nesting
  bounds; the stack an output file's name takes (`main.c:241`).
- What the program does after it has written past its buffer (`overrun`).
- SHA-1, random bytes, libcurl, the kernel: external.
- Progress display, wording of errors, tests, `vendor/munit`, build files.

## Plan

1. A composition of `PeerWire` with `Download` through `MessageChannel`, and the
   theorem that the loop behind the reader is the loop of `Download`.
2. `ParserAssumption` for containers: a parser with an explicit stack, which
   `parse_bencode_list` and `parse_bencode_dict` refine, is not recursive and could
   be proved about.

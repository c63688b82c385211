# The SurvivalGame client in TLA+

A verification project for the client of SurvivalGame (`src/Classes`, a
cocos2d-x game). It models the code that has state and interleavings worth
checking: the network client with its two threads, the protocol messages in
both generations of their generated code, the first use of a message type by two
threads, and the text input box. The sources are encoded in GBK; comments are
quoted here in translation. Line numbers refer to `src/Classes/NetWork`,
`src/Classes/Utils` and `src/google/protobuf`.

## 1. The system

### Components

| component | state | operations | modules |
|---|---|---|---|
| `TcpClient` (sending, threads) | `m_isRuning`, `m_sendQueue`, `m_socket`; per thread: position, pocket | `tcp_start`, `tcp_stop`, `pushSendQueue`, `th_send`/`sendFunc`, `th_recv`/`tcpCheck` | `TcpClient`, `Outbox` |
| `TcpClient` (receiving) | the head and body being read, `m_recvQueue` | `recvFunc`, `pushRecvQueue` | `RecvFunc` |
| frame of a message | none | the encoder of `sendFunc`, the decoder of `recvFunc`, `MakePocket` | `PocketFrame` |
| `ODSocket` | `m_sock`; in the system: descriptors, the Winsock count | `Init`, `Clean`, `Create`, `Connect`, `Check`, `Send`, `Recv`, `Close` | `ODSocket` |
| `Queue`, `Pocket` | a `std::vector` of pockets | `PushPocket`, `PullPocket`, `getSize` | `PocketQueue`, `PocketFifo` |
| `CursorTextField` | the text, its window, two counts of what is cut off, a list of byte lengths | insertion, deletion, `setInpuntText`, `setInputWidth`, `openIME`, `closeIME` | `CursorTextField` |
| `MyCharSet`, `split_text` | none | conversions from and to UTF-8, taking an input apart | `MyCharSet` |
| `GbkToUtf8` | none | one call of the platform's conversion | not modelled |
| `LoginScene`, `FightScene`, `AppDelegate` | scene graph | layout, empty handlers, exit | not modelled |
| `MessagePool` | none | a header without an implementation | not modelled |
| protocol messages: `Classes/Data` (proto3), `Classes/Messages` (proto2) | the fields, which of them are set, the unknown fields | writing, sizing, reading, the check of required fields | `DataMessages`, `PlatMessages`, `MessageCodec` |
| `google/protobuf`, as far as the messages call it | the status of each scc, the mutex of the initialization | varints, texts, tags, `SkipField`, unknown fields, `InitSCC` | `WireFormat`, `MessageCodec`, `SccInit` |

### How they interact

`tcp_start()` runs on the application thread: it sets `m_isRuning`, connects
(ignoring the result), and detaches two threads that are never joined.

- `th_send` pulls pockets from `m_sendQueue`, which the application thread
  pushes to, and writes each frame with `ODSocket::Send`.
- `th_recv` calls `ODSocket::Check`; if that fails it makes one attempt to
  reconnect, which replaces `m_sock` under the feet of `th_send`. It then reads
  a head and a body and pushes a pocket on `m_recvQueue`.
- `tcp_stop()` only clears the flag.

A protocol message is serialized by the application into a buffer of
`ByteSize()` bytes, which `MakePocket` copies with `strlen`; on the other side
`ParseFromArray` reads the body of a received pocket. There are two generations
of the generated code for the same thirteen messages, with different rules for
fields that are not set and for unknown enumerators. Either constructor of a
message first calls `InitSCC`, on whatever thread it runs.

`TcpClient` has a mutex that is never locked, so every access to the flag, the
queue and `m_sock` may interleave with any other. The socket is non-blocking:
each read and each write may carry any part of what was asked for.

`CursorTextField` is a delegate of its own base class `TextFieldTTF`: the
library calls `onTextFieldInsertText` with what the keyboard hands over, and
`onTextFieldDeleteBackward` with the number of bytes of the last character *it
displays*, which need not be the last of the text the box keeps. It uses
`MyCharSet::utf8_to_unicode` to count characters.

### What is hard

1. *Interleaving.* Three threads and no lock: a vector that is appended to and
   shifted at once; a socket that is replaced in the middle of a frame; a second
   `tcp_start()` over threads of the first.
2. *Partial input and output.* Frames are cut at any byte in both directions,
   across messages and across reconnections; the result of `Send` is ignored.
3. *Failure.* Connections finish, break, are refused; `WSAStartup` and
   `WSACleanup` are called on different paths of `Connect`, `Check` and `Close`.
4. *Termination.* Read loops that test neither errors nor the flag; a loop of
   the input box whose end depends on the widths of the glyphs.
5. *Numbers.* A 16-bit length that wraps, bytes combined as signed `char`,
   `strlen` over binary data, the size of a pointer in place of that of a
   buffer, a mask with two bits too many, `ByteSize()` without a division.
6. *Versions.* Two generations of the messages with different zeros, defaults and
   enumerations, and servers of another version whose fields must survive.
7. *First use.* The default instances of the messages are made once, under a
   mutex that the thread that makes them comes back to, with an unlocked fast
   path that relies on the order of memory accesses.

`PROJECT.json` lists each of these at its line, with the properties for it.

## 2. The modules

`X` below stands for a module, `MCX` for the module that gives its constants
values for TLC (`MCCodecs` for `PocketFrame`, `MyCharSet` and `MessageCodec`;
`PocketQueue` needs none), `XProofs` for the theorems about it.

| module | models | state and actions |
|---|---|---|
| `Outbox` | what `TcpClient` promises about messages | abstract: submitted, taken in order, in hand, their pieces accepted in order, reported sent or failed. |
| `ODSocket` | `ODSocket.cpp` | `link`: what the system knows of each descriptor; `startups`: the Winsock count. Its operators are the system calls that other threads can observe; `Create` and `connect()` are two, since a thread may run between them. |
| `TcpClient` | `TcpClient.cpp`, extends `ODSocket` | One action per step between two accesses of shared state: `Start`, `StartCreate`, `StartConnect`, `Spawn`, `Stop`, `Push` for the application; `SendLoop` ... `SendKilled` for each `th_send`; `RecvLoop` ... `RecvRest` for each `th_recv`; `PeerCloses` and `LinkBreaks` for the network. |
| `Platform` | the one property of the machine that two modules share | `CharSigned`: whether `char` is signed. |
| `PocketFrame` | the bytes of a message | pure operators: `EncodeHead` (`sendFunc`), `ReadId`, `ReadLen`, `HasBody` (`recvFunc`), `MakePocket`. |
| `RecvFunc` | `recvFunc` byte by byte, extends `PocketFrame` | `HeadFirst`, `HeadMore`, `Decode`, `BodyMore` are the reads and the decoding; the server sends whole messages, and closes or loses the connection at any byte. |
| `PocketFifo` | what `Queue` promises | abstract: a sequence, one action to push and one to pull. |
| `PocketQueue` | `Queue.cpp` over a `std::vector` | the loads and stores of `push_back` and `erase(begin())`, growth included. `AllowOverlap` chooses between the code as it is and the code with the lock. |
| `CursorTextField` | `CursorTextField.cpp` | one action per character inserted, per deletion and per round of the two loops that cut the text. |
| `MyCharSet` | `MyCharSet.cpp`, `split_text` | pure operators, compared with `Utf8`. |
| `WireFormat` | `coded_stream`, `wire_format_lite` | pure operators: writing, sizing and reading of one field. A number of 64 bits is the sequence of its groups of seven bits. |
| `DataMessages`, `PlatMessages` | the thirteen messages in `Classes/Data` and `Classes/Messages` | tables of field types; what an unset field holds, which enumerators are known, what is required. |
| `MessageCodec` | the generated `SerializeWithCachedSizes`, `ByteSizeLong`, `MergePartialFromCodedStream`, and `wire_format.cc` | `Write` writes one field; `Deliver` is `MakePocket`; `ReadField`, `ReadUnknown`, `ReadBadTag`, `EndOfBody` are the rounds of the read loop; `SendOn` lets the reader send what it has read, unknown fields too. |
| `SccInit` | `InitSCC`, `InitSCCImpl`, `InitSCC_DFS` | one action per access of the statuses, the runner or the mutex; `know`, `published` and `unlocked` model the order of memory accesses. |
| `CodecsProofs` | | theorems about `PocketFrame`, `MyCharSet`, `MessageCodec` and the specification of `MCCodecs` |
| `SequenceLemmas` | | what several proofs need of natural numbers and of sequences |

`TcpClient` abstracts what the other two network modules refine: the bytes that
`th_recv` reads become "nothing, a whole message, or waiting for the rest of
one" (`RecvRead`, `RecvRest`), and the queue is accessed in one step. The second
abstraction is what `LockedQueueIsFifo` proves of the vector *with* the lock;
that it is false of the code as it stands is what the run `queue_lost` shows. So
the results of `TcpClient` about messages hold on top of the queue's race, not
in spite of it.

`TcpClient` implements `Outbox` (`ImplementsOutbox`): a message in the hands of
a thread, with the number of its pieces that are gone, is an element of `hand`;
`taken` is what was pushed and is no longer queued. What `Outbox` leaves open is
the whole of the threads, the socket and the connection.

`MessageCodec` uses `PocketFrame`'s `MakePocket` for the way between sender and
reader, so that the properties of a message include what `strlen` does to it.

Definitions that serve as mutants (a plausible bug in one operator, which a
property must notice) stand before the operator they change, each with a comment
that says so. No specification uses them.

### Choices that a reader of the code may ask about

- *Winsock count.* `startups` counts the calls of this program only.
  `WSACleanup` to zero releases every socket, which is what makes the Windows
  build free of descriptor leaks (`OneSocket`). Elsewhere `Clean` does nothing,
  and an erroneous or refused socket is dropped without being closed; descriptors
  run out and no reconnection succeeds after that. That is why `Reconnects` is
  checked for Windows only.
- *`connect()` and `ioctlsocket()`* are one step: the socket is connected in
  blocking mode, and nobody else changes its mode.
- *A closed descriptor* may be handed out again at once, and `m_sock` keeps its
  number after `Close()`.
- *SIGPIPE.* `Send` passes no flag against it, so a write to a broken connection
  may kill the process outside Windows (`SendKilled`).
- *A head read past its end.* The loop that completes a head asks for
  `sizeof(recvHeadBuf - recvLen)`, the size of a pointer. What lies past the ten
  bytes is allocated to nobody or to somebody else: the model lets the process
  end there, or go on. `torn` records that it happened on a connection, and the
  properties of `RecvFunc` that the code can keep are about the others.
- *Growth of the vector* is by doubling, from 1, as in the library the Android
  build uses. A push that grows the vector while a pull shifts it leaves the pull
  in a freed buffer: the shift is lost.
- *Fonts of more than one width.* `LongestShown` holds for one width only. With
  two, a deletion may not end (`text_hang`), and a deletion after which the text
  fits leaves `inpuText` behind, which the next insertion that does not fit may
  display although it is no longer the end of the text.
- *`setInpuntText` and `openIME`* display something other than the box keeps: the
  first empties `m_pInputText`, the second shows the whole text however wide.
  `LongestShown` speaks of the steps that insert, delete or cut.
- *Characters.* `CursorTextField` takes characters of one byte and of three, the
  cases of its own `codeNumType`; the run `codecs` shows that exactly these are
  taken apart correctly (and a two-byte character at the very end).
- *Which runtime.* The code in `Classes/Data` was generated for the protobuf in
  the repository (3.6.1); that in `Classes/Messages` for 2.5, whose runtime is not
  there. Where both need the same function (`SkipField`, varints), the model has
  that of the repository.
- *Numbers of 64 bits* are sequences of groups of seven bits, never TLC integers,
  so that the casts between `int64`, `uint64`, `uint32` and `int` are exact.
- *Unknown groups* are flat: the tags that begin and end one are unknown fields
  of their own, as `UnknownFieldSet` writes them; `Depth` is the recursion limit.
- *UTF-8.* Only the reader of proto3 refuses a text that is not UTF-8; the writer
  of either generation, and the reader of proto2, only log it.
- *Weak memory.* `know[t]` is the set of default instances whose contents thread
  `t` is sure to see. It grows at an acquiring load of a status and at the mutex.
  `ReadyOnReturn` would fail with a relaxed load, which is its mutant.
- *Not called.* `Bind`, `Listen`, `Accept`, `DnsParse`, `MakePocketFromData` have
  no caller; nobody calls `pullRecvQueue` and `tcp_stop` yet either, but they are
  the interface, so `Stop` is an action.

## 3. What the runs show

| run | bounds | shows |
|---|---|---|
| `tcp_session` | Windows, 1 start, 3 messages, 3 descriptors | every message is in one place (`Accounted`); pieces are accepted once and in order, whatever becomes of the connection (`WireInOrder`); the Winsock calls balance and no dropped socket stays open (`OneSocket`) or connected (`OneConnection`); the client never ends a working connection itself (`LiveLinkKept`); `th_send` ends after `tcp_stop()`, every message is tried, a lost connection is made again (`SendersStop`, `MessagesTried`, `Reconnects`) |
| `tcp_restart` | not Windows, 2 starts, 2 messages, 2 descriptors | with four threads alive the client does nothing that `Outbox` does not allow (`ImplementsOutbox`); the order of the pieces (`WireInOrder`); the null pocket needs such an overlap (`SendNeverNull`) |
| `tcp_recv_stop` | Windows, 1 start, no messages | **violated**: `th_recv` need not end after `tcp_stop()` |
| `codecs` | boundary bytes in every position of a head; texts of 3 characters at the borders of UTF-8; every message with at most two fields set, between all generations, and three fields of another version, both sent on once | which ids and lengths survive the way through both ends (`RoundTrip`), for which lengths the body is overlooked (`BodyIsSeen`); which characters are counted, taken apart and encoded correctly (`Counted`, `SplitRight`, `Encoded`); `ByteSize()` is exact (`SizeExact`); which messages `strlen` leaves whole (`ArrivesWhole`), that one it cuts is never read as another (`CutIsRefused`), and what a reader of either generation finds in one that arrives (`Understood`); error codes change their meaning between the generations (`CodesShift`) |
| `recv` | 2 messages a connection, 2 connections | pushed pockets are a first part of what was sent, in order (`DeliveredInOrder`); between messages the reader stands at the front of a frame (`InSync`); no message ends the process (`AbortsOnlyTorn`); a message over a connection that stays up is pushed (`Delivers`) |
| `recv_head` | 1 message | **violated**: a head is read past its end |
| `recv_zero` | 1 message with a zero byte | **violated**: its body is cut at the zero |
| `queue_locked` | 6 pushes | without overlap the vector implements `PocketFifo`, fairness included, and no null and no empty slot is pulled |
| `queue_lost` | 4 pushes | **violated**: with overlap a pocket is lost |
| `text_fonts` | text of 6, a font of one width and one of two, boxes of 3 or 4 | the counts stay in step with the text (`CountsKept`), no character is split (`WholeCharacters`), only the deletion of a text that the program has set throws (`ThrowsOnlyUnkept`); in the font of one width the longest end that fits is shown (`LongestShown`) and the handlers end (`OneWidthEnds`) |
| `text_hang` | text of 4, two widths | **violated**: the loop of a deletion does not end |
| `scc` | 3 threads, 3 sccs that depend on each other | whoever returns from `InitSCC` sees the instances and all they depend on (`ReadyOnReturn`), which are made once (`MadeOnce`); a constructor that comes back to `InitSCC` neither waits for its own thread nor fails the check (`ReentersSafely`); every call returns (`CallsReturn`) |

Each violation contradicts a comment of the code; `findings` in `PROJECT.json`
quotes it.

### Bounds, and why they are enough

- *Descriptors* (`Sockets`): two are needed for a socket that is dropped while
  another is open; the third lets one more be dropped before the first is
  reused.
- *Messages* (`MaxPush`): two are needed for an order, a third for a message
  behind one that failed; the first message is cut in two pieces, so that a
  reconnection and another sender may fall in the middle of it.
- *Starts* (`MaxStarts`): two, the least with which threads of two starts live
  together.
- *Received messages*: an empty body and a body of two bytes, one of them above
  127, with ids from `Mid.proto`; twelve bytes of frame are longer than a head
  and a pointer, so every read can end before, at and behind a boundary.
  One reconnection lets a fragment of the first connection meet the second.
- *Pushes of the queue*: six reach a second and a third growth (capacities 1, 2,
  4, 8) with elements before and behind them.
- *Text*: a box of three characters under a text of five has a window with
  something cut off that survives two deletions. `MaxBox` bounds `inpuText`,
  which the code never shortens while the whole text fits; it is one longer
  than the text in `text_fonts`, so that an old window longer than the text
  occurs. `Fits` only compares sums, so widths 1 and 2 stand for any two that
  differ.
- *Messages of the protocol*: zero, one and the ends of each type; texts that
  are empty, have a zero byte, are not UTF-8, or need a length of two bytes. Two
  set fields are enough for one to be cut off and one to precede it. `Foreign` is
  every sequence of three out of nine fields of all wire types, groups and a
  number of two bytes among them; `Depth = 1` makes a group in a group one too
  many.
- *First use*: three sccs, one of which is a dependency of both others, reached
  directly and through the other; three threads, so that one may wait for the
  mutex while another makes the empty string.
- Deadlock is not checked (`CHECK_DEADLOCK FALSE`): the program may come to rest,
  or end, and the inputs are bounded.

### Fairness

- `TcpClient!FairSpec`: weak fairness of every `th_send` and every `th_recv`:
  the system schedules threads that can run. `RecvRest`, the arrival of the rest
  of a message, is excepted: it depends on the server. No fairness for the
  application or for the network.
- `TcpClient!ServedSpec` adds strong fairness of a successful `socket()` and
  `connect()`: the server is not away for ever. Only `Reconnects` needs it.
- `RecvFunc!FairSpec`: weak fairness of the thread, and strong fairness of
  `HeadFirst`: what was sent over a connection that stays up is found by some
  read. `Stop`, `ServerSends` and the failures have none.
- `PocketQueue`: the application finishes a push it has begun, `th_send` goes on
  pulling; a push is never owed.
- `SccInit!FairSpec`: weak fairness of every thread within a call: the threads
  are scheduled. A thread that has held the mutex sees all that is initialized and
  takes the mutex again only for something that is not, so it is contended
  finitely often and weak fairness of a waiting thread is enough. No call is owed.
- `CursorTextField!FairSpec`: a handler that was called runs on. Nothing is owed
  by the user.

## 4. What is proved

The theorems hold for every value of the constants that satisfies the named
assumptions (`SocketsAssumption`, `Win32Assumption`, `BoundsAssumption`,
`UnitsAssumption`, `MessagesAssumption`, `RecvBoundsAssumption`,
`PtrSizeAssumption`, `QueueAssumption`, `CharSignedAssumption`,
`CharsAssumption`, `FramesAssumption`, `LengthAssumption`, `InputsAssumption`,
`SccAssumption`, `DepthAssumption`, `ForeignAssumption`, `ValuesAssumption`).
Those that bound a size say what the code does: a text of a message is below
2^28 bytes, a number of a message is one that its field holds (and, of an
enumeration of proto2, one of its enumerators, as the setters assert), a
received body below 2^15, a box takes at most 49 characters and is as wide as
any one of them. TLC evaluates each in some run.

**`TcpClientProofs`**: every safety property of `TcpClient`.

- `TypeCorrect`: `Spec => []TypeOK`. `TypeOK` is not inductive: `Spawn` writes to
  thread `starts + 1` and a sender that sends needs a pocket. `TypeInv` adds that
  a position other than "idle" belongs to a start that is still to be counted,
  and that a sending thread holds a message.
- `NeverNull`: `Spec => []SendNeverNull`. `sendFunc` tests `getSize()` and pulls
  in two steps. `OneSender` says that without an overlap of starts at most one
  sender is alive, that none is alive of a start still to come, and that the
  queue is not empty while that sender stands between the test and the pull; only
  it takes pockets out. `PullInv == TypeInv /\ OneSender` is inductive.
- `ClientImplementsOutbox`: `Spec => ImplementsOutbox`. `HoldInv` adds to
  `PullInv` that the queue holds the messages pushed last, in their order
  (`QueueOrder`), that a thread holds a message that was taken, which no other
  holds (`Held`), and that a thread that was not spawned has no position
  (`Unspawned`). Then each step of the threads is a step of `Outbox` or a
  stutter: `SendPull` is `Take`, `SendSome` is `Accept`, and so on.
- `WireKeepsOrder` and `EveryMessageAccounted`: `Spec => []WireInOrder`,
  `Spec => []Accounted`. Both come from the abstract specification. `OutInv` of
  `OutboxProofs` is inductive for `Outbox`; it relates the pieces accepted to the
  hands (`PieceInv`: of a message in hand just the pieces it says are gone, the
  last of them last). The refinement carries it over (`Proved == INSTANCE
  OutboxProofs WITH ...`), and with `HoldInv` it gives the two properties.
- `StartupsBalance`, `DroppedSocketsAreDead`, `ClientKeepsItsLink`: `OneSocket`,
  `OneConnection` and `LiveLinkKept`. In a first session one thread at a time
  works on the socket: the application, then `th_recv`. `Phase` is where that
  thread is, and `SessionInv` says of each phase which sockets may be connected
  (`Connected`) and, on Windows, whether `WSAStartup` is outstanding and which
  socket may be open (`Balanced`).

**`OutboxProofs`**: `OutboxInOrder` and `OutboxReports`, for any number of
messages of any number of pieces.

**`SccInitProofs`**: `DefaultsMadeOnce`, `Reentrant`, `ReturnsReady` (`MadeOnce`,
`ReentersSafely`, `ReadyOnReturn`), for any threads and any sccs without a cycle.
`SccInv` has four parts beside the types: `LockInv` (who holds the mutex, who is
the runner, who makes the empty string), `StackInv` (the sccs being visited form
a chain of falling ranks), `MadeInv` (an scc is initialized after its
dependencies) and `KnowInv` (what a thread, a status and the mutex carry is
closed under dependency).

**`RecvFuncProofs`**: every safety property of `RecvFunc`, for any messages, any
number of them and any number of connections.

- `TypeCorrect`: `Spec => []TypeOK`.
- `PocketsInOrder`, `ReaderInSync`, `AbortsAfterTornHead` (`DeliveredInOrder`,
  `InSync`, `AbortsOnlyTorn`). Each of these speaks of the moments between two
  messages, where the reader holds nothing; none is inductive. `ReadInv ==
  TypeOK /\ ReaderInv /\ FrontInv` is. `ReaderInv` says how much of a message
  is read at each position of the thread. `FrontInv` says that on a connection
  whose heads were read without their surplus there is a number `n` such that
  the pockets pushed are those of the first `n` messages, and that what the
  reader has taken of a message, followed by what is under way, is the frames of
  the others, except that a connection that went down may have lost an end of it.
  A read moves bytes from the stream to what is taken and leaves their
  concatenation alone (`FrontHead`, `FrontBody`); the step that completes a body
  turns `n` into `n + 1` (`FrontDecode`, `NextMessage`), because the decoder
  makes of a frame's head the length of its body (`HeadDecoded`).
- Frames and pockets of many messages are flattened sequences; what the proofs
  need of `FlattenSeq` is in `SequenceLemmas`.

**`CursorTextFieldProofs`**: `TypeCorrect`, `CountsStayKept`,
`CharactersStayWhole`, `TypedIsDeleted` (`TypeOK`, `CountsKept`,
`WholeCharacters`, `ThrowsOnlyUnkept`), for any characters of one byte and of
three, any fonts, in which no two characters need be equally wide, and any boxes
that hold one character. `CursorInv` adds to these four two parts that the
properties do not mention: `CutInside`, where the cut stands (a character is left
of it before a widening, two are right of it before a narrowing, so that each of
the loops finds the character it takes), and `SameEnd`, that what is displayed
ends with the same character as the text, whatever is left in `inpuText` of an
older window; the number of bytes that `TextFieldTTF` hands to
`onTextFieldDeleteBackward` is that of the character displayed last, and
`SameEnd` is why it deletes one character of the text. The sums behind `Size` and
`WidthOf` are recursive functions; `Counted` says that the sizes of the first
characters rise with their number, so that a cut at a number of bytes is a cut at
one place between two characters (`CutAt`).

`LongestEndShown` (`LongestShown`), in a font of one width and a box whose width
does not change, has an invariant of its own, `CursorInv /\ WindowInv`: what
is displayed, or about to be when a loop has one more round to go, is the last
`k` characters of the text, where `k` is as many as fit or all there are
(`Window`, `Holds`). That the characters are equally wide enters at one place:
the width of a text is a multiple of its length, so what fits is a number of
characters, whichever they are. The string `inpuText` that a deletion widens from
may be older than the text; that it is never shorter than what is displayed is
why the old window does not come back.

**`PocketQueueProofs`**:

- `TypeCorrect`: `Spec => []TypeOK`, from the invariant of the next one.
- `PulledWasPushed`: `Spec => []NeverNull`, with or without
  overlap. The invariant has three parts: `BufferInv` (the slots up to the size
  have been stored to), `PusherInv` and `PullerInv` (the same of the size each
  thread has read, which lags behind in one direction only: the pusher sees the
  size shrink, the puller sees it grow).
- `LockedQueueIsFifo`: with `AllowOverlap = FALSE`, `Spec`
  implies the safety part of `PocketFifo` under the mapping `FifoQueue`: a push
  takes effect when the size grows, a pull when it shrinks. `AloneInv` says what
  each thread knows exactly when it is alone, and counts the pockets
  (`pushed = Len(out) + size`, and one under way). Every step is a push, a pull
  or a stutter (`PushMaps`, `PullMaps`). The lemmas `FrontGrows` and
  `FrontShifts` say what the steps do to the first elements of the buffer.

**`CodecsProofs`**, heads and texts:

- `HeadsRoundTrip` and `BodiesSeen`: for all 2^64 heads.
- `EncodedExactly`: `unicode_to_utf8` is right exactly for the
  characters of fewer than three bytes and for those with bit 12 clear.
- `CountRight` and `SplitsExactly`: for texts of any length, what
  `utf8_to_unicode` counts and which texts `split_text` takes apart correctly.
  Both functions run over the bytes, whereas the statement is about characters.
  `Places` are the positions in the bytes at which a character begins, and
  `Shaped` says which first byte each character has. Counting goes from place to
  place (`CountOver`), since neither function looks into the middle of a
  character it has taken whole. Where `split_text` goes wrong it does so at the
  first character that is not `Right`, and from there on the pieces differ
  (`PieceIsCharacter`, `CharacterPlaces`). Both are inductions from the end of the text
  (`InductionDown`), for the recursions read ahead.
- `HeadsSurvive`, `BodiesAreSeen`, `TextsEncoded`, `TextsCounted`, `TextsSplit`:
  the specification that TLC runs keeps the five properties of `codecs` that
  state these facts. Its texts are the bounded ones of that run; the theorems
  above are about all of them.

**`CodecsProofs`**, messages, for both generations, texts of any length below
2^28, any unknown fields:

- `SizesAreExact`: `Spec => []SizeExact`. The arithmetic behind it is
  `VarintSizeIsLen`: `(log2 * 9 + 73) / 64` is the number of groups of seven bits
  for every number of 64 bits.
- `WholeUnlessZero`: `Spec => []ArrivesWhole`.
- Both rest on `MInv`: each field of the sender is unset or holds what its type
  can (`Filled`), each unknown field has a tag that is not zero and a value of
  its wire type (`Straying`), and what is written so far has the size added up
  so far and a zero in it exactly when one of the items has (`WritingInv`).
  Since the reader sends on what it has read, the invariant must also hold of
  the reader: the lemmas `PrimitiveRead` and `Skipped` say that whatever bytes
  arrive, what a read that succeeds has read can be written again.
- `CutsAreRefused`, `MessagesUnderstood`, `CodesAlwaysShift`: `Spec =>
  []CutIsRefused`, `[]Understood`, `[]CodesShift`. They relate every byte that is
  written to what a reader makes of it, in any order of the generations, also
  when the reader sends on what it has read. The invariant is `MInv /\ RereadInv
  /\ FaithfulInv`:
  - `RereadInv` is what makes a message readable once more: fields of proto2 hold
    valid numbers, and the unknown fields lead a reader through groups that are
    all closed at the end (`Walk`, `Leads`, `Wired`).
  - `Laying`, of `FaithfulInv`: the items that are written lie one behind the
    other (`Laid`).
  - `Coming`: a reader stands at the place of an item, also in a body that was cut
    off, and holds exactly what came before it (`At`: `Holds`, `Found`,
    `Accepted`).
  - `Came`: a reader that is done has read all of the items, and the body is
    whole.
  - `Refusal`: a whole message is refused for one of the two reasons of `Faulty`
    only, a text that is not UTF-8 or a rid that is missing.

  A reader's step from item to item needs the inverse of each operator that
  writes: where the bytes of an item are, as far as they are there (`Agrees`), its
  reader finds the value or, when they are cut off, fails (`Reads`): `VarintBack`,
  `TextBack`, `PrimitiveBack`, `TagBack`, `SkippedBack`. An item is taken for
  the field it is because no two fields have the same tag (`TagsDiffer`) and the
  two generations number their fields alike (`AlikeKinds`, `GenerationsAlike`). A
  cut is never taken for the end of the message because no item begins with a
  zero byte (`WiredBegins`).

**`SequenceLemmas`**: induction in the form the provers take (a set of natural
numbers that contains 0 and with each number the next, `Induction`; the same
downwards, `InductionDown`), from the library's theorem about least elements;
`FlattenSeq` as a recursion that exists and is unique (`FlattenStep` to
`FlattenConcat`); the places of the parts in a flattened sequence (`Places`); and
recursions that jump ahead by more than one (`JumpsExist`).

Only model-checked:

- every liveness property (fairness and ENABLED are out of the provers' reach),
  among them the fairness part of `ImplementsFifo`.

Every safety property that a passing run checks is also a theorem.

## 5. Not modelled

- `GbkToUtf8`: one call of a platform function without state.
- Scenes and `AppDelegate`: layout; their handlers are empty. The exit is in the
  plan below.
- `MessagePool`: a header without an implementation.
- Of the generated messages: `MergeFrom`, `CopyFrom`, `Clear`, `Swap` and the
  reflection, which nothing calls; the accessors, which are assignments.
- Of `google/protobuf`: all that the messages do not call. It is a vendored
  library of some 250 000 lines, by far the largest part of the repository:
  the compiler and its generators, descriptors, arenas, maps, JSON, the text
  format, and the tests of all these. That is why the share of the repository's
  lines that the models stand for is small, and cannot become large without
  models of a library that the program does not use.
- The heap: that `recvHeadBuf`, `wText` and the result of `utf8_to_unicode` are
  leaked has no state in these models.
- Of `CursorTextField`: the cursor sprite, the geometry of touches,
  `setInputMaxLength`.

## 6. Plan

Done, in this order: `ODSocket` and `TcpClient`; `PocketFrame` and `RecvFunc`;
`PocketFifo` and `PocketQueue`; their first theorems; `CursorTextField` and
`MyCharSet`; `SccInit` and its theorems; `WireFormat`, the messages and
`MessageCodec`; `Outbox` with the refinement and its proof; the remaining safety
properties of `TcpClient`; the size and the way of a message for all its values;
the safety properties of `RecvFunc` and `CursorTextField`, the counting and
taking apart of texts, and what a reader makes of every message.

What is left:

1. *AppLifecycle*: `quitGame`, the exit of the process and the static `TcpClient`
   that is destroyed while its detached threads run, composed with the positions
   of both threads.
2. *Received messages on the application side*: a puller of `m_recvQueue` and
   `th_recv` as its pusher, by an instance of `PocketQueue`, once the program has
   a caller of `pullRecvQueue`.
3. *Descriptors outside Windows*: how many one failed session leaks, as a bound
   that the run checks.
4. *TextWindow*: an abstract input box (a text and the longest end that fits)
   that `CursorTextField` implements in a font of one width.

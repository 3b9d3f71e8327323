# Specifications of posmanage

TLA+ specifications of the program in `src/src`: the service that receives the
data of POS machines over the network or a serial line, cuts it into receipts,
stores them in an SQLite database and draws them over the video of the cameras
bound to the machine. TLC checks the specifications on small instances; TLAPS
proves their safety properties, all but that of the decryption, for any number of
objects, threads and configurations, and any texts and sizes. `PROJECT.json` lists
components, runs, the source lines of each definition, mutants, hazards,
findings and theorems.

## 1. The system

| Component | Source | State it keeps | Operations |
|---|---|---|---|
| `net_service` | `net_driver.h` | the handler queue, one thread, the work object; an `event` on the stack of each caller | `async_call`, `sync_call`, `async_delete`, the destructor |
| TCP server | `pos_net.cpp` 202-342 | a `tcp_server` (`_session`, `_dead`, the acceptor) and its `session`s (`_dead`, buffer, socket) | `start`, `on_accept`, `stop`; the session's `start`, `on_recv`, `stop` |
| UDP server | `pos_net.cpp` 343-400 | a `udp_server` (`_dead`, buffer, `_recv_len`) | `start`, `on_recv`, `stop` |
| receipt stream | `pos_net.cpp` 16-151 | `_has_started`, the bytes kept of an unfinished line | `on_data_cashing`, `on_data_loop` |
| text and terminal data | `pos_net.cpp` 46-68, 152-208 | none | `on_data_plaintext`, `on_data_terminal`, `remove_extra_space`, `convert_encoding` |
| `pos_db` | `pos_db.cpp` | the connection, its transaction, the tables | `config`, `write`, `write_terminal_record`, three queries |
| `TextStreamQueue`, CT_VencModule | `textstreamqueue.cpp` | rows, marks of changed rows, canvas, `mTickClean`, flags | `Append`, `Update`, the `CanvasClear` thread, `StartComposing`, `StopComposing`, `resize` |
| `TextStreamQueue`, CT_ViModule | `textstreamqueue.cpp` | `mTickCnt`, `m_bChnComposing`, `m_bChnNeedPause`, frames taken | a `ComposingThread` per channel, `Pause`, `Restore`, `StartComposing`, `StopComposing` |
| `POSDevice` | `posdevice.cpp` | the configuration, `m_pServId`, the displayer, the analyzer, the converter | constructor, `Config`, `PauseOsd`, `RestoreOsd`, destructor, the callback `PosDataRecv` |
| serial parser | `posdevice.cpp` 139-293 | `m_buf`, `isStarted` | `Pos485String`, `on_data_loop` |
| `PosDataAnalyzer` | `posdataanalyzer.cpp` | the record being assembled | `addItem`, `writePlainText` |
| terminal parser | `pos_terminal_parser.cpp` | none | `aes_dec`, `parse_terminal_msg` |
| `Canvas` | `canvas.cpp` | two pixel buffers | `Clear`, `DrawText`, `Sync` |
| configuration types | `posdefine.h`, `pos_net.h` | plain data | |
| SQLite | `sqlite3.c` | vendored | |

How they interact. `POSDevice` starts a server with `pos_net::start`, which
creates the object and posts its start to the `net_service` of pos_net. From
then on everything the server does is a handler on that one thread: accepts,
reads, and the callback into `POSDevice::PosDataRecv`, which appends to the
`TextStreamQueue` and, through `PosDataAnalyzer`, calls `pos_db::write`, which
posts to the `net_service` of pos_db, a second thread. `POSDevice::Config` runs
on a thread of its caller: it stops the server with a `sync_call`, so that no
callback is left, stops the display, changes everything and starts both again.
A serial line has a third thread, outside the repository, which calls
`Pos485String`, and ends in the same callback. The display has one thread
(CT_VencModule) or one per bound channel (CT_ViModule), and no lock.

What is hard in it:

- Objects are freed by handlers (`async_delete`), so what keeps memory safe is
  the order in which handlers are posted, across accepts, reads, replaced
  clients and a stop at any time.
- `sync_call` is the only synchronisation there is, and its event lives on the
  stack of the caller that it wakes up.
- The network cuts the stream anywhere; the parsers keep what is unfinished in
  a buffer of fixed size, `_has_started` outlives the session, and the serial
  parser's `size` is not the length of what it looks at.
- A change of the configuration may come in the middle of a receipt, while the
  record of it is half assembled in an object that survives the change.
- The statements of a receipt may fail or be cut by a crash, and errors are
  printed and ignored.
- The display's threads share everything without a lock, and the flag that
  `StopComposing` waits for is written by the threads themselves.
- Lengths travel separately from what they measure: the size of a message that
  has become another text, the size of a text that was converted, a count that is off by one, a run of spaces moved in
  place.

What makes each component correct is stated by the properties in section 3.

## 2. The modules

| Module | Models | Composed with |
|---|---|---|
| `PosServer` | the contract of `pos_net::start` and `stop` with their caller, as an abstract specification | implemented by `TcpServer` and `UdpServer`, used by `Device` |
| `TcpServer` | `tcp_server`, `session`, and the device that starts and stops them | `Abstract == INSTANCE PosServer` |
| `UdpServer` | `udp_server` and the device | `Abstract == INSTANCE PosServer` |
| `NetService` | `net_service`, `event`, `sync_call` | |
| `ReceiptStream` | `on_data_cashing`, `on_data_loop` and the receive buffer | |
| `SerialStream` | the second parser, of serial lines, and its reset by `Config` | extends `ReceiptStream`: the same reference |
| `Device` | `POSDevice` and `PosDataAnalyzer` | `Server == INSTANCE PosServer` |
| `ReceiptLog` | what the file of `pos_db` promises, as an abstract specification | implemented by `PosDb` |
| `PosDb` | `pos_db` and what it needs of SQLite | `Log == INSTANCE ReceiptLog` |
| `TextStreamQueue` | the rows and `CanvasClear` (CT_VencModule) | |
| `Composer` | the composing threads (CT_ViModule) | |
| `PlainText` | `remove_extra_space` and its two callers | `Routines` |
| `TerminalMessage` | a terminal message from the read to the item | `Routines` |
| `OverlayPlace` | where an overlay is put on a frame | `Routines` |
| `Canvas` | the pixels of `Clear` and `DrawText` | `Routines` |
| `Routines` | the calls of the four modules before it | `Algorithms` |
| `Aes` | `KeyExpansion`, `InvCipher`, `aes_dec` | `Algorithms` |
| `Algorithms` | the calls of `Routines` and `Aes` | |
| `TcpServerProofs`, `UdpServerProofs`, `NetServiceProofs`, `DeviceProofs`, `PosDbProofs`, `TextStreamQueueProofs` | theorems | extend their modules |
| `ComposerProofs` | theorems about `Composer` and about `Routines`, which make what it draws | extends both |
| `SerialStreamProofs` | theorems about `ReceiptStream` and `SerialStream` | extends `SerialStream` |

An `MC` module extends each of the modules that TLC runs, for its constants.

**TcpServer.** `queue` is the handler queue of the service; a handler is a
record of the operation, the server and session it is bound to, and whether it
completes with an error. `liveServers` and `liveSessions` are the heap: an
identifier is a block, and is used again once freed, as an allocator does. One
action is one handler from its beginning to its end (`RunStart`, `RunAccept...`,
`RunRecv...`, `RunStop`, `RunDelete...`), since other threads only append to the
queue; `Start`, `StopCall` and `StopReturn` are the calls of the device;
`AcceptCompletes` and `ReadCompletes` are the network. Closing a socket or
acceptor posts the completion of what was outstanding on it, with an error.
What a read contains is left to `ReceiptStream`: here it calls the callback or
not, and leaves the buffer full or not.

**UdpServer.** The same for the one object of UDP, with the fill of its buffer.
The error and the empty datagram are the one branch that they are in the code.
`converts` says that the object has opened a converter, which it has not for UTF-8
nor when `libiconv_open` fails; `on_data` may then leave any count of bytes up to
one more than the buffer holds (`Rests`), the size of `m_cvt_buf`.

**NetService.** Two kinds of calls from several threads, `event` step by step
between its lock operations, with spurious wake-ups, and the destructor, whose
join ends when the queue is empty, the work object is gone and no network
operation is outstanding.

**ReceiptStream.** Bytes are members of a small alphabet. `Receive` is a read
of any length and contents that fits in the room left; each round of
`on_data_loop` is an action. `parm` is chosen at the start from a set: with an
item separator, without one, and with an encoding that is converted.
`convert_encoding` (`Handed`) gives any text of a set, with any size that its
buffer of one byte more than a line has room for (a text may end before its size:
it is searched up to its first NUL, and `size` counts on), or fails and leaves the
bytes as they are. The unread rest is moved to the front of `m_cvt_buf`, not of
the receive buffer, so that of the bytes kept of such a line the model knows how
many they are and not which (`Unknown`). A rest of one byte more than a line
passes the `==` test for a full buffer; the next read is begun with a huge size
and never succeeds (`Room`), which ends a TCP session and makes `udp_server` try
again for ever. `NewSession` is a replaced TCP client. `calls`, `input`, `base`
and `broken` are history. It is cut when the buffer is emptied for a reason other
than its contents, and `broken` then remembers a receipt that was open and is
forgotten.

**SerialStream.** Shares the variables of `ReceiptStream`: `buf` is `m_buf`,
`started` is `isStarted`. It works in its buffer, loses what is left of a read
behind a stop tag, cuts the buffer by the length of the start tag from its
front, wherever the tag was found, and counts `size` down from where it was
found: `size` and the string part ways, and `size` may wrap around, so it is
kept modulo a power of two, which is only assumed to be more than the
buffer holds. A string that does not fit clears the buffer and `isStarted`, and so
does `Config`, without a STOP for a receipt that is open (`Forgets`, `broken`).
Conversion has a buffer of one byte less than the network's, and its result
stays in `m_buf`, where it is converted again with the string that continues it.

**Device.** The owner's `Config` and destructor step by step (`owner` is its
place: stop the server, stop the display, change, start the display, start the
server), the callback `PosDataRecv` with what it appends and writes, and who
may call it: the service thread, as far as `PosServer` lets it, and the serial
thread. The latter enters `Pos485String`, tests `isStarted`, calls back and stores
`isStarted` in steps of their own (`serial` is its place), between which the owner
may do any of its own, since nothing in the code keeps the two apart. A string
that overflows the buffer resets `isStarted`. A callback that finds the type
changed to that of terminals reads a message that it has not (`"aborted"`). The
parsers are reduced to the order of their callbacks, the display to being on, off
or deleted; a converter that cannot be opened is none. An item carries its type
and the version of the configuration it came in, so that a record shows where its
items come from. `raced` is history: a serial call has overlapped `Config` or the
destructor since the last change.

**PosDb.** A handler of `write` is one action per `exec` call. A statement
succeeds, fails, or fails with the transaction rolled back. `disk` is what is
committed, `view` what the connection sees. `lastRowid` is
`sqlite3_last_insert_rowid`, which an `INSERT` into any table changes. The
statements of `open` may fail too (`OpenedPartly`): its `END` may commit what has
succeeded, and a `SELECT` that fails makes it insert the row of `t_info` again.
`PRAGMA foreign_keys` does nothing, since `open` runs it inside its transaction.
`Crash` may come between any two calls. `written`, `owed` and `promised` are
history of the callers, `faulty` says that a statement has failed.

**TextStreamQueue.** A row is a text; the canvas holds at each row the set of
texts drawn over each other. The steps of `Append`, `Update` and `CanvasClear`
are split where another thread can get between: in particular `mTickClean++` is
a load and a store. The owner is `Config` or the destructor; `Resize` changes
the number of rows (the font) and whether a channel is bound. `missed` is history:
the clearing thread had been created and had not begun when `StopComposing` was
called, which does not wait for it then. What such a thread does to an object
that was resized under it is undefined; it is not followed beyond that.

**Composer.** Each channel's thread step by step: the write of its flag (a load
and a store of a word that the flags share), the increment of `mTickCnt`, the
clearing of canvas and rows, the pause, the frame that is taken and given back,
the recovery after failed captures. What is drawn is reduced to whether there is
text; the size of a frame to whether the canvas fits or it is zero. Starting and
stopping a capture and giving back a frame may fail, and the code goes on.
`lost` and `astray` are history: the frames that were empty, and so not given
back, or whose giving back failed; and that two threads wrote the shared word at
once, or one had not begun when `StopComposing` was called, since the threads
were created. What a thread that is missed does afterwards is not followed, as in
`TextStreamQueue`.

**Routines** and **Algorithms** call the sequential functions, once each, with
every input of a set. `RoutineSpec` says of a call what it returns, and nothing of
the calls of other functions, so that `Algorithms` can add the decryption: its
bit operations come from a module that the prover cannot use. `PlainText` is the loop of `remove_extra_space` with its three
indexes into the text that it rewrites; the reference says which spaces are
extra. `Aes` is the decryption as the source writes it out, one round per step;
the reference is the cipher of FIPS 197, built from its definition of the
field, with the standard's examples as keys and texts (the key of the source is
not repeated). `TerminalMessage` takes a message by the lengths of its parts,
from the header over the test of `len` and the whole blocks that `aes_dec` has to
the JSON, its conversion and the limits of `PosDataRecv`. Where the body lacks a
byte its last block decrypts to anything, so that a field that reaches into it,
or lies behind an empty one, may have any length of `Strays`. `OverlayPlace` is the
arithmetic of the nine positions. `Canvas` is the address of each pixel that is
written, and the value that it gets.

## 3. The runs

| Run | What it shows | Instance |
|---|---|---|
| `tcp` | nothing freed is used (`NoUseAfterFree`), one client (`OneClient`), always listening and on one port only (`AlwaysListening`), no leak (`NoLeak`), everything is freed in the end (`AllFreed`), the contract holds (`Contract`) | 2 servers, 3 sessions; 23,000 states |
| `udp` | the same for UDP, and a receive has room but in one case of a converted line (`NoUseAfterFree`, `AlwaysReceiving`, `Contract`) | 2 servers, a buffer of 3, with and without a converter; 2,600 states |
| `net_service` | `sync_call` is a barrier (`SyncIsBarrier`) and returns (`SyncReturns`), its event outlives its use (`EventOutlivesNotify`), shutdown ends (`CloseEnds`) and drops nothing | 2 threads, 3 calls each; 168,000 states |
| `receipts` | both parsers: the callbacks do not depend on how the stream is cut (`ChunkingIrrelevant`); no byte is lost without a separator (`NothingLost`), both for an encoding that is not converted; receipts are well bracketed, and only a serial overflow or `Config` breaks one (`WellBracketed`); the buffer does not fill between receipts, and has room but for a converted line (`BufferWaits`, `TypeOK`) | 3 bytes, a buffer of 5, reads of up to 3, inputs of up to 7, 13 parameter sets, 3 converted texts of every size; 2.8 million states |
| `db` | receipts whole or not at all (`ReceiptsWhole`), promises kept and the file closed on return (`PromisesKept`), the file a log that only grows, in order, whatever fails (`LogGrows`: the abstract `ReceiptLog`) | 3 receipts of 2, 0 and 1 items, 3 waiting handlers, 2 rows of `t_info`; 1.5 million states |
| `db_foreign_key` | a finding, see below | the same |
| `rows` | the overlay shows the rows (`ShowsRows`); every row that would be drawn has a place (`TypeOK`); they are cleared only when old (`ClearedWhenOld`); `StopComposing` returns (`StopReturns`), and then the thread is gone if it had begun (`ThreadGone`) | 2 texts, 1 or 3 rows, 3 ticks, three modes; 375,000 states |
| `rows_previous` | a finding, see below | the same |
| `composer` | `StopComposing` leaves no thread, capture or frame behind but for the failures and races that it names (`StoppedClean`), no running channel is left off unless a call failed (`RunningIsCaptured`), the count never stops with text on the canvas (`TextIsCounted`) | 2 channels, 1 failure, 1 tick per channel, 1 lost frame; 6.7 million states |
| `device` | a server's callback finds its configuration and, where no serial call has overlapped `Config`, every callback a display that composes (`CallbackFindsDevice`); there too a stored receipt is of one configuration and whole (`RecordOfOneConfig`) and plain text is mixed with nothing but leftovers of an earlier configuration (`MixedOnlyAtSwitch`); a serial line keeps its converter or has none (`ConverterFollows`) | 24 configurations, 2 changes, 2 unwritten items; 1.03 million states |
| `functions` | `aes_dec` inverts the cipher (`DecryptsCipher`), extra spaces and nothing else go (`SpacesRemoved`), a terminal message read whole becomes its item (`ItemWhole`), overlays and text are drawn where they should be (`DrawnInPlace`) | 34,000 states, 18,000 calls |
| `terminal_converted` | a finding, see below | the same messages, a second encoding |

Why the bounds are enough:

- *tcp*. Two servers let the device start one while the other is being deleted;
  a third would find one of the first two freed (`OneListener` and the queue's
  order). Three sessions are all that are ever allocated at once: the one being
  closed, the current one and the one that waits. With four blocks TLC finds
  240,000 states and never more than three live. The queue is not bounded. The
  safety properties are proved for any sets.
- *udp*. A buffer of 3 can be empty, partly filled, full and overfilled by a
  conversion, and a rest of any length can be kept. The safety properties are
  proved for any size.
- *net_service*. Each pair of calls of one thread (asynchronous before
  synchronous, twice synchronous) can occur with another thread in between. The
  safety properties are proved for any threads and calls.
- *receipts*. With the separator `r` the bound on the input holds a start tag,
  an item and a stop tag; with `rr` the separator overlaps itself and every cut
  of a tag occurs. History is cut by `NewSession`, after which a receipt goes on
  from the middle, so longer streams add no situation of the parser, whose state
  is only `started` and the bytes kept. A conversion gives nothing, a start tag or
  a stop tag, each counted as any size up to the largest, or fails: so a text is
  shorter than its count, a receipt opens and closes, the loop stops short, and
  the rest is one byte more than the buffer. All five properties are proved for
  any alphabet, tags, sizes and texts of a conversion.
- *db*. A receipt that can be cut by a crash, an empty one, and one behind both;
  two transactions that flow together and a third that commits them. A second
  row of `t_info` is what an `open` that failed leaves; more change nothing.
- *rows*. A text has one to three lines, so that it can scroll none, some and
  all rows; one row and three are a large and a small font. Three ticks separate
  the restart of the count, one lost update and the clearing.
- *composer*. Two channels are the least with threads that race for the count
  and the flags. One failure restarts a capture, as the fifth does in the code,
  and later ones do not; one frame is lost or none. Values of `mTickCnt` above the largest limit are one value
  (stores that overtake each other can drive it up without bound). The four
  properties are proved for any channels, counts and lost frames.
- *device*. Two changes allow every sequence of three configurations, and so of
  the three types, with each line and encoding, and a return to the first. Two
  items are a receipt cut off, or one of it, and one that must not be there. The
  safety properties are proved for any configurations and bounds.
- *functions*. Texts of up to six characters hold two runs of spaces between
  two ends of lines. Messages have every field at, above and below its limit,
  empty, and ending at either side of a block; reads lack each number of bytes
  that crosses a test. A field that decrypts to anything has a length within, at
  the edge of and beyond the limits, or one that overflows the text alone.
  Frames and gaps have every remainder of the shifts and
  both sides of the 5% margin. Canvases are so small that a glyph leaves them at
  each side, and every coverage of a pixel occurs. All but `DecryptsCipher` is
  proved for any of these.

Deadlock is checked except in `net_service`, where the process ends, in `rows`
and `rows_previous`, where the display is destroyed, in `device`, where the
device is or an assertion fails, in `functions` and `terminal_converted`, where a
call returns, and in `composer`: two threads that end at the same time may leave a
flag set in the word that they share, and `StopComposing` then polls it for ever.

### Fairness

- `TcpServer`, `UdpServer`: weak fairness of the service thread
  (`io_service::run` takes one handler after the other) and of the return of a
  caller whose event is set. The network and the device owe nothing.
- `NetService`: weak fairness of each step of the service thread and of a caller
  inside `sync_call`, and strong fairness of `Notify`: it takes a mutex that a
  caller may take again and again only by waking up spuriously, and a mutex is
  not withheld for ever from a thread that wants it. Nobody has to wake up
  spuriously, to make a call or to shut down.
- `TextStreamQueue`: weak fairness of the clearing thread, of an `Append` under
  way and of the wait of `StopComposing`, which polls.
- `ReceiptStream`, `SerialStream`, `PosDb`, `Composer`, `Device`, `Routines` and
  `Algorithms`: none, safety only.

### What a run is about, and what it assumes

Where the code races or ignores a failure, the model does the same. What then
goes wrong is not excluded by an assumption: a history variable remembers it
(`raced`, `astray`, `lost`, `missed`, `broken`), and the property says that nothing
else goes wrong.

- `rows`: `mode` is chosen at the start. With `interleaved` the appender and the
  clearing thread overlap, as nothing in the code forbids; `ShowsRows` and
  `ClearedWhenOld` are about behaviours where they happen not to. Overlapping,
  both fail: the thread empties the rows between an `Append` and its drawing, and
  the load and the store of `mTickClean++` can enclose the restart of the count
  by `Append`. What the list itself suffers is beyond the model. `ShowsRows` is
  about a composition that stays (`reconfigured` is FALSE; see `rows_previous`),
  and the rows' places in `TypeOK` about a display that keeps a channel
  (`unbound` is FALSE): without one `StartComposing` draws nothing, and a font
  made smaller and larger again leaves a marked row beyond `mRowYPos`.
- `rows`: `ThreadGone` says nothing of a thread that had not begun when
  `StopComposing` was called (`missed`): the flag that is waited for is set by the
  thread itself, and no code waits for that. It is all that can go wrong there.
- `composer`: `StoppedClean` says nothing of threads after two of them changed
  the word of `m_bChnComposing`, a `vector<bool>`, at the same time, or one had not
  begun when `StopComposing` was called (`astray`): a thread may then not be waited
  for, or a flag may stay. It counts the frames that were lost, and a capture is
  stopped or the call that stops it failed. Leaving out either exception makes it
  fail. `Config`, `PauseOsd` and `RestoreOsd` are called in turn, by one thread.
- `device`: nothing in the repository keeps the serial thread out of `Config` and
  the destructor, and the model lets it in. `RecordOfOneConfig`,
  `MixedOnlyAtSwitch` and the half of `CallbackFindsDevice` about the display and
  the assertions are about the states where it has not been there since the last
  change (`raced`); without that each of them fails, `RecordOfOneConfig` as follows:
  `Config` resets `isStarted` between the callback of START and the store behind it
  (`posdevice.cpp` 152-153), and items of the new configuration join the old START.
- `receipts`: the start tag with its separator is not empty, and bytes are not
  NUL. With a converted encoding neither `ChunkingIrrelevant` nor `NothingLost`
  holds (the rest is moved to the front of `m_cvt_buf`, `pos_net.cpp` 69-78, and the
  bytes of a serial line are converted twice), and both are stated only without
  conversion. On a serial line they are stated for tidy lines only: those
  where a read begins with the start tag if no receipt is open, and nothing
  follows a stop tag in the same read. For any other line the parser drops and
  repeats bytes; what holds even then, and for any conversion, is `WellBracketed`,
  with the one exception that it names, and `BufferWaits`.
- `functions`: the fields of a terminal message need no escape in JSON and end
  with a NUL within the body. `ItemWhole` says nothing of the fields after one
  case, a read that lacks exactly the last byte, which the test of `len` takes for
  whole: a field may then have any length, and `itemtext`, put together before the
  limits are tested (`posdevice.cpp` 331-359), no bound. A message that comes in two
  reads gives what its first read gives.
- `net_service`: the service exists. The race of two first calls of `instance()`
  is not modelled, as the threads that make them are outside the repository.

## 4. Findings

- `db_foreign_key`. When the `INSERT` of a record fails, `on_write` takes the
  rowid of an earlier `INSERT` and stores the items under it. The foreign key
  `fkey0` of `t_item` should refuse that and does not: `open` enables foreign keys
  inside a transaction, where SQLite ignores the pragma.
- `rows_previous`. A comment says that the `Update` of `StartComposing` shows the
  previous rows. It draws nothing: the canvas is new and no row is marked.
- `terminal_converted`. `on_data_terminal` puts the parser's JSON in the buffer
  and converts as many bytes as the raw message had. With an encoding other than
  UTF-8 a longer JSON is cut, and `PosDataRecv` drops it; the comment in
  `pos_net.h` says that the item is the whole object.

Hazards that the models show and that no line of the repository denies are
listed in `PROJECT.json` with a note: the race of `mTickClean++`, the lost flag
of `vector<bool>`, the thread that has not begun when `StopComposing` is called, the
serial thread inside `Config`, the receipt without a STOP behind a serial overflow,
the converted text that passes the test for a full buffer, the read that lacks one
byte, the second conversion of a serial string that continues a receipt.

## 5. What is proved

For any values of the constants, from the assumptions that their modules name
(the null pointers are no objects; bounds are natural numbers; the encoding
without a converter is one of the encodings; the channels are finitely many; of
the numbers of rows that fonts give there is a largest, and none is zero; a
start tag with its separator is not empty and fits the buffer; the numbers of a
`size_t` do not end within the buffer; a space, an end of line and another
character differ; sizes of frames, canvases and glyphs are natural numbers, and
channels of a colour bytes; the parts of a terminal message have lengths and its
fields lie, with their ends, within the body, `IsMessage`):

| Module | Theorem | Says |
|---|---|---|
| `TcpServerProofs` | `TypeCorrect` | `Spec => []TypeOK` |
| | `NothingUsedAfterFree` | `Spec => []NoUseAfterFree` |
| | `OnlyOneListener` | `Spec => []OneListener` |
| | `CallbackInTime` | `Spec => []NoLateCallback` |
| | `KeepsContract` | initial states and steps map to those of `PosServer` (its safety part) |
| | `ReadsOneClient` | `Spec => []OneClient` |
| | `NothingLeaks` | `Spec => []NoLeak` |
| | `NeverDeaf` | `Spec => []AlwaysListening` |
| `UdpServerProofs` | `TypeCorrect`, `NothingUsedAfterFree`, `NeverDeaf` | `[]TypeOK`, `[]NoUseAfterFree`, `[]AlwaysReceiving` |
| | `KeepsContract` | the safety part of `PosServer` |
| `NetServiceProofs` | `TypeCorrect`, `SyncCallIsBarrier`, `NotifiesLiveEvents` | `[]TypeOK`, `[]SyncIsBarrier`, `[]EventOutlivesNotify` |
| `DeviceProofs` | `TypeCorrect`, `ReceiptsOfOneConfig`, `MixesOnlyAtSwitch` | `[]TypeOK`, `[]RecordOfOneConfig`, `[]MixedOnlyAtSwitch` |
| | `CallbacksFindDevice` | `Spec => []CallbackFindsDevice` |
| | `ConverterKept` | `Spec => ConverterFollows` |
| `SerialStreamProofs` | `TypeCorrect`, `ReceiptsBracketed`, `BufferHasRoom` | `LineSpec` implies `[]TypeOK`, `[]WellBracketed`, `[]BufferWaits` |
| | `ChunkingDoesNotMatter` | `LineSpec => []ChunkingIrrelevant` |
| | `NoByteLost` | `LineSpec => []NothingLost` |
| `PosDbProofs` | `TypeCorrect`, `ReceiptsAreWhole`, `PromisesAreKept` | `[]TypeOK`, `[]ReceiptsWhole`, `[]PromisesKept` |
| | `ImplementsLog`, `OrderKept` | `Spec => LogGrows`, the abstract `ReceiptLog`, and its order |
| `ComposerProofs` | `TypeCorrect`, `TextStaysCounted`, `RunningStaysCaptured` | `[]TypeOK`, `[]TextIsCounted`, `[]RunningIsCaptured` |
| | `OverlayStaysInFrame` | for all sizes, `Place` puts an overlay in its frame (`InFrame`) |
| | `OnlyExtraSpaceGoes` | `RoutineSpec => []SpacesRemoved` |
| | `WholeMessagesAreItems` | `RoutineSpec => []ItemWhole`, if every encoding is UTF-8 |
| | `AllIsDrawnInPlace` | `RoutineSpec => []DrawnInPlace` |
| | `StopsClean` | `Spec => []StoppedClean` |
| `TextStreamQueueProofs` | `TypeCorrect`, `RowsAreShown` | `[]TypeOK`, `[]ShowsRows` |
| | `ClearedLate` | `Spec => ClearedWhenOld` |
| | `ThreadIsGone` | `Spec => []ThreadGone` |

**TcpServer.** `NoUseAfterFree` is not inductive. That a handler in the queue
touches only live objects now does not say that it will when it reaches the
head: the handlers before it may free them. The inductive invariant
`Inv == TypeOK /\ Ordered(queue) /\ AllFit /\ StateInv` therefore says

- `Ordered`: of each handler `a` and each `b` behind it, `Ok(a, b)`: nothing that
  names an object is behind its deletion, so no object is deleted twice; a
  session waiting in an accept is in no other handler; a session has at most one
  completed read, a server at most one handler that listens; no start or second
  stop is behind a stop;
- `AllFit`: of each handler on its own, that the objects it names are live and in
  the state that it expects (`Fits`);
- `StateInv`: how `current`, `accepting`, `reading`, `dead` and `closed` relate,
  and what the device's state says about its server.

Both statements about the queue are about single handlers or pairs of them, so
taking the head and appending a few handlers is dealt with once, by lemmas on
sequences (`TailOrdered`, `ConcatOrdered`) and on steps (`RunsKeeps`,
`PostKeeps`). Each action then has one lemma, which shows that the rest of the
queue still fits in the new state, that what the handler posts fits, and that it
may stand behind everything else. The pairwise form is what an action that frees
an object needs: `Ok(head, b)` for all `b` says that nothing left names it.

`Inv` says what must not be in the queue. What must be there is a second
invariant, `Accounts`: each live session has its deletion queued if it is
closed, else waits for a client or is its server's current one; each live server
has its deletion queued if it is dead, else listens or will. From both follow
`OneClient`, `NoLeak` and `AlwaysListening`, where `Ok` gives that there is only
one listening handler, and the count of the places of such a handler is one.

**UdpServer.** The same argument with one kind of object; here the invariant
carries both halves (`Receiving` in `ReceiveInv`), and `Fits` adds that a
completed receive fits into the room left. That there is room (`HasRoom`) has one
exception, a line with a converter and one byte more than the buffer in the count.

**NetService.** Two arguments. The handlers of a thread are counted (`Counted`):
those that have run and those that wait are those it posted; nothing of a thread
is behind its `sync_handler` (`SyncLast`), so none waits when that has run. And
the event of a thread is in one place: a `sync_handler` that waits
(`SyncAwaited`), the notify in progress (`ServiceInv`), or set (`CallerInv`).
`wait` returns with the mutex held that `notify` has to give back first.

**Device.** `StageInv` ties the place of the owner to the server (`phase` is
`"off"` wherever the configuration or the display changes) and says that the
server's type is the configuration's while it is there. `SerialInv` does it for the
serial thread: a call that has not overlapped `Config` is of this configuration,
and what it has found of `isStarted` still holds. `ReceiptInv` says that inside a
receipt (`InReceipt`: for the serial thread also between a callback and the store
behind or before it) the record is the receipt so far, of this configuration:
`hasStarted` and `isStarted` are reset before a parser runs under the next one.
`ItemsInv` says that no item is of a later version, and none of this one is left
while the type is plain text. The halves about the serial thread are under
`~raced`; those about the servers are not, as `stop` waits for the service thread.

**ReceiptStream and SerialStream.** The two parsers share their variables, so
one invariant and `LineSpec` deal with both. `WellBracketed` says how the last
callback, and the first, relate to `started` and `base`: with that it is nearly
inductive, and one lemma (`OneMore`) on appending a callback serves every step of
both; `broken` is set only where the history is cut with a receipt open and
`started` reset, which the network's parser never does. What it lacks is that an
item is not empty. The guard of both loops is `size # 0`, and `size` is not the
length of the string where it was converted, or on a serial line behind a start
tag. `SizeInv` says how far the two part. Without conversion: over the network and
on a tidy line, where the start tag is found at the front, not at all; on another
serial line not at all until a start tag is found, and never so that `size` is
larger if there is no separator (and so it cannot wrap around there). With
conversion, over the network `size` is never the smaller, nor more than the
conversion's buffer, which bounds what is kept by one byte more than a line. `BufferWaits` of a tidy line needs that too: a loop
that ends with `size = 0` leaves nothing. With a separator and an untidy line
`size` does wrap around; the theorems hold then because the parser looks for tags
in the string and not in the first `size` bytes.

`ChunkingIrrelevant` relates the parser to an automaton that has been fed every
byte since the history was cut, and says nothing in the middle of a loop.
`ChunkInv` does: the automaton, fed the whole input, is where it gets from the
parser's own state and calls, fed what is left (`work`, or `buf` between reads).
Two states of the automaton with no receipt open count as `Alike` when what the
one has read ends with what the other has read, and the rest cannot matter: the
parser drops what is before a start tag, and keeps only what may be the beginning
of one. The steps rest on lemmas about the automaton: fed a part and then the
rest it gets where the whole would lead (`FeedConcat`); fed a line without the
tag it only reads it (`FedWithoutTag`); fed one up to the first tag it makes the
one callback of the parser (`FedTag`), where the parser has searched the whole
string and the automaton compares the end of each beginning of it (`Unhit`,
`EndsWith`); what it has called back before does not change what it does
(`FeedShifts`); and states that are alike stay so (`FeedAlike`). On a tidy serial
line nothing is behind a stop tag (`NothingBehindStop`), so that what the serial
parser throws away is nothing. All of this is about lines that are not converted.

`NothingLost` needs two facts at once (`PlainInv`): what each finished receipt
spells is a part of the input, and what the open one spells, followed by what is
left, is its end (`Receipts`). What the parser has still to look at, and what it
keeps, is always an end of the input (`Ends`).

**PosDb.** One argument for each property. `OrderInv`: each receipt in a
table is older than the one that is being written, that one than all that wait,
and these wait in order. `GrowInv`: the connection sees the tables of the disk
and perhaps more, so that a commit only adds; with `OrderInv` each step is a step
of `ReceiptLog` or none. `WholeInv`: while no statement fails, a transaction is
open exactly while a handler is at work, the disk is whole, and the connection's
view is the disk or that and the record at work with its first items. `CallerInv`
and `OwedInv`: a receipt written while configured is stored, or its request waits
at a place where the database will be open (`OpenAt`: an opening is before it and
no closing is between); so nothing is owed when the closing has run. Rows are
counted by their places (`Listed`), not by a filter, so that no step needs
induction.

**Composer.** `TextIsCounted` and `RunningIsCaptured` hold whatever frames arrive
and however the flags are written. For the second, `CaptureInv` also covers the
phases in which a channel is between a pause and its restore. `FramesInv` counts
the frames of a thread: those lost and the one at work. The rest of `StoppedClean`
needs that a flag says what its thread does (`SeenInv`), which a stale copy of the
word would undo: while the flags are not astray at most one thread has a copy, and
it is not stale (`WordInv`); and that no thread begins while `StopComposing` waits
(`StopInv`). All three hold only under `~astray`, so `FlagsInv` is their conjunction
under it, and each step either keeps them or makes `astray` true.

**Routines.** Each routine is a loop, written as a recursive function, and each
proof is the loop's invariant and induction over its rounds. The one of
`remove_extra_space` (`Scanned`): what is written so far is the text that should
remain (`Written`), what is behind it is as it was, and a run of spaces that waits
for the next character lies behind it too, untouched; `MovedAll` is the inner loop, whose reads and writes overlap in the
same text. That the written text is the reference follows by counting: the
reference keeps the characters that are not extra, each at the place that the
number of those before it gives (`Counted`, `CountKeeps`). `WholeMessagesAreItems`
adds up the lengths of the fields: the end of each is within the blocks that are
decrypted (`FieldEnds`), so that of a body that is whole no
field is garbled (`WholeIsIntact`), and
six fields within one body leave the text of the item within `itemtext`
(`TextFits`), whatever the limits then say. It is about UTF-8: of another encoding it is false,
as the run `terminal_converted` shows. For `AllIsDrawnInPlace`, the address of a
pixel gives back its column and its line (`PixelAt`), `Clear` covers all
addresses by rows of lines (`FillsAll`), the pen moves by the sum of the advances
(`PenMoves`), and the three channels of a pixel are told apart by its two bytes
(`PixelChannels`), of which each mixed one lies between the grey and the colour.

**Induction.** The theorems of the library about induction take the predicate as
an operator, which cannot be given here. `SerialStreamProofs` and `ComposerProofs`
prove it again with a set for the predicate (`Induct`, `CountUp`, for sequences
`AppendInduct`) from the well-foundedness of the natural numbers. With it there is
a function that satisfies the equation of a recursive definition, so the defined
one, which is chosen among these, does too (`FeedIs`, `ScanAll`).

**TextStreamQueue.** `DrawInv` says that rows that are still to be drawn have a
place: a smaller font takes rows away before the canvas shrinks. `ShowInv` says
at each stage what the canvas lacks of the rows: what `Update` will draw is what
the canvas lacks, then nothing but the push. `AgeInv` relates the count, and the copy
of it that the thread has loaded, to the sleeps since the last `Append`. `ThreadGone`
follows from the meaning of the flag (`StopInv`): a thread that has begun has it set
until it ends, and one that had not begun is what `missed` remembers.

TLC was used first to check each of these invariants on the instances of the
runs.

Only model-checked: liveness (`AllFreed`, the liveness half of `Contract`,
`SyncReturns`, `CloseEnds`, `StopReturns`), as TLAPS does not reason about
fairness and ENABLED here; and `DecryptsCipher`, which is about the operations on
bits of `Aes` and the tables of 256 bytes that it compares with the field's
definition: TLC compares every entry, and the rounds on the standard's examples.

## 6. What is not modelled

- SQLite, 207,030 of the 210,287 lines: vendored code, of which `PosDb` states
  what the calls of `pos_db` rely on. Of the program's own 3,257 lines most are
  mapped; of all lines only that part can be.
- Of `Canvas`, the allocation of its two buffers and the copy of `Sync`, which
  are calls of the platform. (The destructor frees one buffer, `canvas.cpp` 80-83:
  the small one is lost whenever the display is resized.)
- The queries of `pos_db`, which change nothing.
- The encodings: `convert_encoding` is what it does to sizes and to where bytes are
  kept, with any text as its result. What the second conversion of a continued
  serial string (`posdevice.cpp` 274) makes of its bytes is not stated. A converted
  text that fills its buffer has its NUL behind it (`pos_net.cpp` 205,
  `posdevice.cpp` 252); texts here have no NUL.
- The word wrap of `subText`; the switch of one display between the two modes.
- `posdefine.h` and the parameters of `pos_net.h` are plain data.

## 7. Plan

Every component that keeps state is modelled, and every safety property of these
is proved; of the routines all but the decryption are. What is left:

1. A `sync_call` as one atomic step of its caller: an abstract specification that
   `NetService` implements.
2. The decryption for any key and body: `InvCipher` undoes the rounds of the cipher
   one by one, given that the two tables are each other's inverse.

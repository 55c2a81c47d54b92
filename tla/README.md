# A TLA+ model of faceserver

faceserver takes images over websocket connections, has a third-party library
extract face features on the library's own threads, and sends the features back
on the connection each request came from. It is stopped by a command over a
local socket. The server is small; what is hard in it is that requests cross five
kinds of goroutines and the library's threads, through unbuffered channels and
two mutexes, on the way in, on the way back and during shutdown. Beside it stands
cJSON, which reads the library's configuration: much more code, all sequential,
where what is hard are linked lists, ownership, buffers and the edges of texts.

## 1. Inventory

| Part | Source | State | Operations |
| --- | --- | --- | --- |
| request ids | `server/seq.go` | `UniqueIdInstance`, `counter` | `GetIdInstance`, `Get` |
| websocket server | `server/server.go` | `server`, `ctx`, `wg`, `quit`, `conns`, `seq`, `mu` | `start`, `close`, `handleConn`, `onOpen`, `onClosed`, `send`, `State` |
| connections | `server/conn.go` | `isClosed`, `writeCh`, `seq`, `messageType`, the channel `done`, the read deadline | `start` (write goroutine), `handleRead`, `close` |
| engine wrapper | `face/face.go` | `reqs`, `mu`, `writeCh`, `ctx`, `wg`, `OnCompleted` | `Init`, `UnInit`, `DoFeature`, `run`, `doRequest`, `onCallback` |
| library glue | `face/face.c`, `face/cfuns.go` | `gInstance` and its handle | `InitFaceLib` with `InitXFace`, `UnInitFaceLib`, `DoFeature`, `OnFeature` |
| application | `server/app.go`, `main.go` | `ws`, `cmd`, `ctx` | `Run` and its deferred shutdown, `onCompleted`, `OnMessage`, `Quit` |
| shell server | `pkg/shell/shell_server.go`, `shell_conn.go` | `conns`, `listener`, `mu`, `wg`, `quit`, `writeCh` (10) | `Open`, `Close`, `Write`, accept loop, connection goroutines |
| shell framing, client | `pkg/shell/shell_pack.go`, `shell_client.go` | a buffered reader | `packet`, `unPacket`, `Open`, `Write`, `Close` |
| cJSON | `xface/cJSON.c`, `.h` (vendored) | items in lists, `global_error`, the print buffer | parse, print, build, change, delete, duplicate, compare, minify |
| SDK headers | `xface/xface*.h` (vendored) | - | declarations only |

How they interact:

- A read goroutine (`handleRead`) gives each message a `ReqId` from `Get`, its
  connection's number as `ConnId`, and hands it to the engine's goroutine `run`
  over the unbuffered `XFace.writeCh`.
- `run` loads the image and submits it to the library. Failures it reports
  itself; after a success it puts the request into `reqs`, under `x.mu`.
- A library thread calls back (`OnFeature`, `callbackOnCgo`, `onCallback`), finds
  the request in `reqs` and, still holding `x.mu`, reports.
- A report is `OnCompleted` = `App.onCompleted` = `server.send`: it looks the
  connection up under `server.mu` and, still holding it, sends on the
  connection's unbuffered `writeCh`, which its write goroutine receives.
- The shell calls `App.OnMessage`; a stop command cancels the App's context, and
  `Run`'s deferred function closes the websocket server, the engine and the shell,
  in that order.
- `InitXFace` (`face.c:76-93`) reads the configuration file, has `cJSON_Parse` make a
  tree of it, walks the members, hands each to the library, and deletes the tree.
  That is all of cJSON the program uses; it sets no hooks.

What is hard here (PROJECT.json lists every place, with its line): `server.mu` is
held across a channel send whose receiver may want `server.mu`; a callback can
overtake the registration of its request; handlers share `seq` without a lock;
ids go through a `C.int`; `close` can overtake the serve goroutine's start;
`wg.Add` can race with `wg.Wait`; the order of shutdown matters to every goroutine
still waiting for somebody; only the read goroutine reads pongs and it waits in
`DoFeature`; writes have no deadline; the shell keeps a mutex while a channel is full
and reads a body with one `Read`; in cJSON any allocation may fail in the middle of a
call, items are shared by reference, and every text may break off anywhere.

What makes each part correct:

- ids: never the same one twice, and `Get` always gets somewhere.
- websocket server: `conns` maps a number to the open connection with that number;
  a send never waits on a goroutine that is gone; no reader is abandoned; `close`
  returns only when no connection is running.
- connections over time: a client that answers is kept, one that has gone is noticed.
- engine: each request is reported exactly once, with its own features, to its own
  connection; the library is not freed while in use.
- library glue: `gInstance` says whether there is an engine; what the file sets and
  the library accepts is set.
- shell: a command ends the App whatever the other clients do; `Close` returns only
  when every goroutine is gone; messages come out as they went in.
- the whole: clients see answers to their own requests only, once, and all of them
  unless somebody leaves or stops; a stop command ends the process.
- cJSON: items form a forest in which every block has one owner; a text is parsed to
  what it says or refused; what is printed is read back; no access leaves its block.

## 2. The modules

| Module | What it is |
| --- | --- |
| `IdDispenser` | abstract: hands out ids never handed out before |
| `UniqueID` | `seq.go`, one action per atomic access; implements `IdDispenser` |
| `WsServer` | `server.go` and `conn.go` |
| `Heartbeat` | `conn.go` over time: pings, pongs, the read deadline, blocked writes |
| `XFace` | `face.go` and what of `face.c` matters to it |
| `FaceLib` | `face.c` in full |
| `FaceService` | abstract: what a client may observe of the server |
| `FaceServer` | `app.go`: `WsServer` and `XFace` composed; implements `FaceService` |
| `ShellService` | abstract: what the shell promises its clients and the App |
| `Shell` | `pkg/shell` with `OnMessage` behind it; implements `ShellService` |
| `ShellPack` | the framing, over a `bufio.Reader` |
| `JsonForest` | abstract: the forest cJSON's items are |
| `CJsonTree` | every call that makes or changes items; implements `JsonForest` |
| `CJsonCompare` | `cJSON_Compare` on those items, against equality |
| `JsonGrammar` | reference: what a text says, and whether it can go on to say something |
| `CJsonParse` | the parser as a machine with a stack of frames |
| `CJsonBuffer`, `CJsonPrint` | the print buffer; `print_value` as the pieces it puts there |
| `CJsonPrintString`, `CJsonString` | the bytes of strings: printed, parsed |
| `CJsonMinify` | `cJSON_Minify`, in place |
| `CJsonReaders` | parsing, strings and minifying as one specification of three parts |
| `MC...`, `JsonTexts` | for TLC: symmetry, bounds, what to print and parse |
| `ConnProofs` (of `UniqueID` and `Heartbeat`), `WsServerProofs`, `XFaceProofs`, `FaceLibProofs`, `FaceServerProofs`, `ShellProofs`, `CJsonTreeProofs`, `CJsonTextProofs` | theorems |

Conventions. Every goroutine or thread has a program counter whose values are the
places where it can be overtaken. A critical section in which nothing can block is
one step; where the code keeps a mutex across something that blocks (the two `send`s,
`onCallback`), the mutex is a variable naming its holder and the section is several
steps. A send on an unbuffered channel and its receive are one joint step. What the
code reads and writes without a lock (`seq`) is read and written in separate steps.
Locals go back to their first value when a call returns. Operators marked "Mutant of
X" are wrong versions of X with which a property is shown to be violated; no
specification uses them.

`Adversity` is a set of names for what the environment may do beyond the normal.
A property is checked under as much adversity as it survives.

**UniqueID.** `instance`, `counter` are the code's; `pc`, `val` a caller's place and
local; `issued` is history. `GetIdInstance`, `Load`, `Swap` are the steps of a call. What
other modules call `Init`, `Next`, `Spec` is `IdInit`, `IdNext`, `IdSpec` here, so that
`ConnProofs` can extend this module and `Heartbeat`.

**WsServer.** Per connection: the HTTP handler (`hpc`; `Upgrade`, `ReadKey`, `OnOpen`,
`AddConn`, `StartConn`, `LoadSeq`, `StoreSeq` are the statements of `handleConn`; handlers of
different connections overlap with "overlapping upgrades"), the write
goroutine (`wpc`; `ServerQuits`, `ReadDone`, `Ping`, `ReceiveResponse` are the
branches of its select, `OnClosed`, `WriteReturns`, `WriterReturns` what follows),
the read goroutine (`rpc`; `ReadMessage`, `ReadFails`, `Submitted`). Per calling
thread `server.send` (`Send`, `SendLookup`, the hand-over in `ReceiveResponse`,
`SendReturns`). The serve goroutine (`lpc`) and the caller of `close` (`cpc`)
follow `start` and `close`; `http` is the flag that `http.Server.Close` sets.
On its own, the module is driven by threads that send anything to any number.
`ReadFails` stands for every way of ending the read loop.

**Heartbeat.** One connection with its client and a clock. A tick is long against a
goroutine's step, so `Tick` waits for goroutines that can run (`CanRun`); the
connection's window (`SocketCap`) makes a write wait. `cause` records why the
connection was given up. A pong takes the client up to `RoundTrip` ticks, which must
be less than `PongWait` - `PingPeriod`, or an answering client is lost (6 s in the code).

**XFace.** `run` and the workers share `pc`, `job`, `img`. `Accept` receives from
`writeCh`; `LoadImage`, `FeatureCall`, `Register` are `doRequest`; `StartCallback`,
`Lookup` a callback; `CallOnCompleted` and `OnCompletedReturns` the report, which
may block in between. A response records the request whose `ID` it carries and the
request whose image it was computed from. `CInt` is what a 64-bit id becomes when
passed as a `C.int` of `CIntMod` values. The library is external: it takes or refuses
an image, calls back once for each it took, at any time after, also before `doRequest`
has put the request into `reqs` (nothing in `face.go:231-240` orders the two), and its `Free`
is taken to wait for the callbacks in progress. A callback that is over before the
registration is dropped (`Dropped`). An image of no bytes makes `run` panic, which ends every
thread, and the process (`Crash` in `FaceServer`).

**FaceLib.** `gInstance` is `null`, `bare` (no handle) or `held`; `engine` is what the
handle is of. Each call into the library is a step that may fail. `Told` is what the
library knows after a setting; `work` and `pc` are its threads in `OnFeature`.
`App.Run` calls `InitFaceLib` once; the model allows `MaxInits` lives.

**FaceServer.** The two are instantiated on their own variables. Joint steps:
`Submit` = `W!Submitted` with `E!Accept`; `Complete` = `E!CallOnCompleted` with
`W!Send`; `CompleteReturns`. The threads of `WsServer` are `run` and the workers.
The App's own goroutine (`apc`) boots, loops and shuts down in the code's order.
The shell is one stop command and one `Close` that returns.

**FaceService.** `Ask` adds a fresh id to a connection, `Answer` appends one of the
connection's unanswered ids to its inbox; from `Mix` on - two connections share a number -
it may be another connection's. `FaceServer` implements it with `inbox[c]` = the requests
answered in `out[c]` and `mixed` read off the handlers' numbers.

**Shell, ShellService.** The goroutine of `Open` and `Close` (`main`), the accept loop
(`accepting`), per connection a `writer` and a `reader`, which also runs `OnMessage`:
`Lock` and `Write` are `server.Write`, `Quit` is `app.Quit`. A client reads its replies
or leaves them unread, leaves, or sends the messages of its `Script`. For the service,
a client is served while the server has its socket open.

**ShellPack.** `wire` is what has been written and not read, `buf` what the reader's
buffer holds. `Fill` is the reader's own read of the connection, `ReadSize`, `ReadBody`,
`ReadDirect` are the reads of `unPacket`. A read of the connection returns any beginning of
what was written, up to the room (`Part`), so that a packet may come in any pieces.
A byte has `Radix` values.

**CJsonTree, JsonForest.** An item is a block of `heap` with cJSON's `next`, `prev`,
`child`, `string` and two flags. One action per call of the interface; an allocation
inside one may fail (`DuplicateFails`, `CreateArrayFails`, `lost`, ...; a call that
changes nothing when memory runs out is a stutter). An array maker that cannot allocate
the array itself (`cJSON.c:2546`), or is asked for no items, writes through NULL (2565; 2602,
2639, 2676): `CreateArrayCrashes` ends the process (`crashed`), and no call follows.
`cJSON_Duplicate` links a child only after its own duplicate has returned, so that a failure
is met with one unlinked copy per level (`Begun`), each deleted on the way out. `held` are the items the program
has to delete, `strs` counts the blocks of names and texts. The refinement reads
`kids` off the lists. Two texts shared through `valuestring` of a reference are not
told apart. What a caller must not do is a guard (`CanGive`, `CanRefer`,
`Unreferenced`): give an item to two lists or below itself, change a list through a
reference, delete what a reference points at. Not modelled besides: a recursive duplicate that comes to an item
twice, by way of a reference, and makes two copies of it (`IsTree`).

**CJsonParse, JsonGrammar.** One step for each function that can return; `frames` are
the calls not over, each with the list it has made; `blocks` counts allocations. A
character stands for a token where its inside does not matter to the parser: a
literal, a whole string. The value of a number is not computed. The text has a NUL,
as `cJSON_Parse` requires; `cJSON_ParseWithLength` without one is not modelled.

**CJsonBuffer, CJsonPrint.** A piece is one call of `ensure` with the characters written
behind it and the move of the offset. `script` is what `print_value` still has to put.
Every action of `CJsonPrint` is one of `CJsonBuffer`'s, or leaves its variables alone,
conjoined with a change of `script`: what is proved of the buffer holds of printing.

**CJsonString, CJsonPrintString.** Bytes are numbers. Parsing measures (`Measure`),
allocates and copies, escape by escape; printing is a function from bytes to bytes,
`Ensured` what it asks `ensure` for.

**CJsonMinify, CJsonReaders.** `json` and `into` are positions in one `text`. `CJsonReaders`
puts the parser, `parse_string` and `cJSON_Minify` side by side: `part` says which one a behaviour is of.


## 3. The runs

| Run | Module, cfg | States | What it asks |
| --- | --- | --- | --- |
| `ids` | `UniqueID` | 2,781 | Is `Get` a dispenser of fresh ids (`DispensesFreshIds`), and does some caller always get through (`SomeGetReturns`)? |
| `ws_server` | `MCWsServer`, `WsServer.cfg` | 4.02 M | Do registry, `done` channel and wait group stay in step while connections open, at the same time or not, close and are sent to, and the server stops at any moment (`SendTargetStaysOpen`, `ReaderEndsFirst`, `WaitSeesEveryConn`)? |
| `engine` | `XFace` | 46,884 | Is each request reported once, with its own features, under `x.mu`, and in the end, unless its callback is over too early (`AnsweredOnce`, `AnswersOwnRequest`, `CallbacksExclusive`, `EveryRequestAnswered`)? |
| `whole` | `MCFaceServer`, `FaceServer.cfg` | 1.27 M | Do clients see `FaceService` only (`ImplementsService`, `RightConnection`), and is no reader abandoned by shutdown (`NoReaderStranded`)? |
| `whole_answers` | `FaceServer`, `FaceServerAnswers.cfg` | 56,391 | Is every request answered, unless its callback is over too early (`EveryRequestDelivered`)? |
| `whole_stops` | `FaceServer`, `FaceServerStops.cfg` | 35,040 | Does a stop command end the process (`StopsOnCommand`)? |
| `whole_leave` | `FaceServer`, `FaceServerLeave.cfg` | violation | The same when a client leaves without its answer. |
| `shell` | `MCShell`, `Shell.cfg` | 901,482 | Does a command end the App whatever other clients do (`CommandStops`), does `Close` wait for every goroutine (`CloseWaits`), does the shell keep its promises (`ImplementsService`), what can come out of the framing however reads cut the stream (`FirstWrongIsTorn`)? |
| `heartbeat` | `Heartbeat` | 12,959 | Are answering clients kept, gone ones noticed, and do the goroutines end with the server (`AnsweringClientKept`, `GoneClientNoticed`, `EndsWithServer`)? |
| `face_lib` | `FaceLib` | 65,276 | Does `gInstance` say whether there is an engine, with no handle lost, freed twice or used after that (`InstanceTracksEngine`); does the library get what the file sets (`ConfigIsTheFiles`)? |
| `cjson_tree` | `MCCJsonTree`, `CJsonTree.cfg` | 141,575 | Are lists whole (`WellLinked`), has every block one owner (`EveryBlockOwned`), is comparing equality (`CompareIsEquality`), do linked items implement a forest (`ImplementsForest`)? |
| `cjson_text` | `MCCJsonText`, `CJsonText.cfg` | 1.23 M | Printing (`WritesFit`, `OneBuffer`, `PrintsTheItem`, `FiveMoreSuffice`), parsing (`ParsesTheText`, `BlocksHaveOwners`), strings (`DecodesTheLiteral`, `PrintedIsReadBack`), minifying (`MinifiesTheText`), and bounds in all of them (`StaysInBounds`). |

**The disagreements.** In seven places the repository says one thing and the code does
another. The first is a run, whose one property is the sentence and which TLC must find
violated. Of the others the passing runs state what does hold, with the exception written into the
property (for the second, into the adversity of `whole_stops`); with the exception left out, TLC finds
each of them violated.

- README.md:19 says that the command stops the server (`StopsOnCommand`, `whole_leave`). A client
  leaves while its
  request is in the engine. Its write goroutine is in `close` -> `onClosed` and wants
  `server.mu`; `send` holds `server.mu` and waits on that connection's `writeCh`, which nobody
  will receive from. `State` waits for the mutex as well, and with it the App's own
  loop, so that the stop command is never carried out. A stop command while requests are
  in the engine ("abrupt stop") ends the same way.
- The same sentence, with "stop at boot" and "early close". The command is served as soon as the shell is open
  (`app.go:50`); `close` may then close the zero `http.Server` before the serve goroutine has set
  it (`server.go:54`), and waits on `quit` for ever.
- `app.go:81` says that a completed request is made known to the network module. A
  callback that is over before `reqs[id]` is set finds nothing and is dropped (`face.go:240`,
  292). `EveryRequestAnswered` and `EveryRequestDelivered` say that this is the only way to
  lose one (`Dropped`).
- `server.go:104` says that `send` finds the connection of a `connId`. Handlers that
  overlap ("overlapping upgrades") read `seq` (`server.go:84`, 86) before either increments it (89) and give two
  connections one number, so that a client gets the other's answer. `RightConnection`,
  `SendTargetStaysOpen` and `FaceService` say what holds until then (`OwnNumbers`), and that even
  afterwards an answer carries the features of its own request, once. Handlers overlap in
  `ws_server`, and in the theorems of `WsServerProofs` and `FaceServerProofs`. In `whole`
  they take turns, since with leaving clients there are too many states
  otherwise; TLC has gone through `FaceServer.cfg` with them for one library thread
  and clients that stay (1.97 M states, no error).
- cJSON.h:214 says that the utilities create an array of `count` items. Without
  memory for the array item itself (2546), or with a count of 0, all four write through NULL (2565,
  2602, 2639, 2676), which ends the process (`CreateArrayCrashes`; `~crashed` is no invariant). What `cjson_tree` and its
  theorems say of running out of memory is of calls that come back.
- cJSON.c:665 says that a code is checked to be valid. `parse_hex4` answers 0
  for a digit that is none, which is a code like another, so that `\u0g01` is a zero
  byte. `DecodesTheLiteral` says that of them, and that every other escape without a meaning is
  refused.
- cJSON.h:257 says that blanks are removed. The quote behind an escaped backslash is
  taken for an escaped one (2806), and the string for one that goes on to the next quote.
  `MinifiesTheText` says that the result is right up to the end of the first such string.

**No deadlock check.** Every cfg but `CJsonText.cfg` says `CHECK_DEADLOCK FALSE`,
because the system may really stop: callers stop asking, the process exits, the library
layer has used up its lives, every block is used up, a stream is read to its end. A real
deadlock is one of the liveness properties failing, as in `whole_leave`.

**Bounds, and why they are enough.**

- Two connections are what it takes to confuse them and to have one wait for the mutex
  the other's send holds; two library threads and `run` are three threads that report;
  `ws_server` has every adversity and one thread that sends, since `send` keeps `mu` and a
  second one could only wait for it;
  three requests are one with the library, one with `run`, one waiting. `MaxSeq`,
  `MaxReq`, `MaxOut`, `MaxId` bound counters in guards. `CIntMod` = 8 gives every id
  used a `C.int` of its own.
- `shell`: two clients, one with four commands to quit - more than `writeCh` and
  its socket (one message each) can hold the replies to, so that `Write` blocks with
  the mutex -, one with another command and one to quit. The stream is a kind of
  behaviour of its own, since nothing is shared: three messages out of seven, of none to
  ten letters, with bytes in base `Radix` = 3 (so that 9 and 10 are too long for two bytes)
  against a buffer of four, so that there are messages below, at and above its size.
- `heartbeat`: `PongWait` is 20 ticks, so `PingPeriod` is 18 as in the code (nine tenths);
  a pong takes up to one tick, below the two that are left; the socket holds five
  messages.
- `face_lib`: files of three members over two keys (so a repeated one), two lives, two
  library threads and images.
- `cjson_tree` has three worlds. "calls": all calls on four blocks, no references.
  "references": three items and two references, whether to items, lists or texts. "equality": all pairs of items
  made of six blocks, with names that differ in case only. Blocks are
  interchangeable; in the last world they are taken in a fixed order and never freed, so
  permuting the first four relates only states that have used the same blocks.
- `cjson_text` runs the five machines as separate kinds of behaviour. Print buffers of
  0 to 20 bytes with an `INT_MAX` of 24 and a default size of four; all texts
  of up to three of fifteen characters, bracket texts of up to six, and one-character
  edits of four longer samples, under a nesting limit of two; literals of two parts,
  each an escape, a surrogate half or a plain byte, whole or broken off; codes followed by
  any six of backslash, `u` and a digit, so that their digits may be none and their six
  bytes may end in the middle of another escape; strings of three bytes; texts of three parts to minify. Memory may run out at any allocation.

**What the runs leave out.** A property holds under the adversity its cfg lists; the
rest of this list was found by adding one name, or changing one number, and running:

| Change | Then violated | In the code |
| --- | --- | --- |
| `XFace.cfg`: `CIntMod` = 2 | `AnswersOwnRequest` | ids beyond 2^31, then 2^32, `face.go:304` |
| `FaceServer.cfg`: "late upgrade" or "close error" | `NoReaderStranded` | a handler adds to `wg` behind `Wait`, `server.go:87`; `close` returns before it waits, `server.go:66` |
| `FaceServerStops.cfg`: "abrupt stop" | `StopsOnCommand` | as in `whole_leave` |
| `FaceServerStops.cfg`: "stop at boot" and "early close" | `StopsOnCommand` | the command overtakes the serve goroutine, `server.go:66` |
| `Heartbeat.cfg`: `SocketCap` = 1 | `GoneClientNoticed` | no write deadline, `conn.go:91` |
| `Heartbeat.cfg`: "slow engine" | `AnsweringClientKept` | pongs unread while in `DoFeature`, `conn.go:112` |
| `FaceLib.cfg`: "late callback" | `InstanceTracksEngine` | a `Free` that does not wait, `face.c:48` |
| `CJsonText.cfg`: `NumberLimit` = 2 | `ParsesTheText` | a number is cut at 63 characters, `cJSON.c:317` |
| `NamesDiffer`: names may be repeated | `CompareIsEquality` | members are looked up by name, `cJSON.c:3044` |

Those of `StopsOnCommand` contradict README.md:19 as `whole_leave` does. For the
others we found no sentence of the repository to quote against the code, so they are not
listed as findings; they are faults of this size all the same. Further, `whole` has no "unencodable",
which `ws_server` has. The liveness runs of the whole assume that
clients stay for their answers and that operators stop the server when nobody waits.
`CommandStops` leaves out clients that were refused and those that would have been
accepted after `Accept` failed once (the listener stays open with nobody behind
it, `shell_server.go:62`). `FirstWrongIsTorn` says what goes wrong first: a body that one `Read`
does not deliver (`shell_pack.go:33`) comes out as its own beginning, with zeros for the rest, or a
length beyond 16 bits (`shell_pack.go:11`) is framed wrongly. After that, anything may come out.

Clauses of the models that record what one may not expect: pongs alone move
the read deadline (`conn.go:115`; the comment at 109 says the first packet has one); a second `InitFaceLib`
after a failed one returns OK with no handle (`face.c:119`); a callback after
`UnInitFaceLib` does not release its features (`face.c:48`, against `xface.h:100`).
In cJSON, an escape can take the closing quote with it: in `"\uabc\\"` the bad digit counts
for 0 and the six bytes of the code end behind the first backslash, so that the second
one escapes the quote (845; nothing further is read, and the output still fits:
`StaysInLiteral`, `OutputFits`). Also in cJSON, which the program does not use that way: growing a buffer of no bytes
without `realloc` copies one byte of it (512); appending behind a lone reference loses the item (1965-1977); `cJSON_AddItemReferenceToObject`
loses the reference when its name cannot be allocated (2070); a replacement's name is
lost likewise (2357).

**Fairness.** Go's scheduler runs every goroutine that can run, and a `select` with
several ready branches picks among them at random.

- A goroutine's own next step is weakly fair: it stays possible until taken. So are
  the steps of `Get`'s callers once inside `Get` (`UniqueID`).
- A `select` branch other than the ticker is strongly fair: other branches may be taken
  in between, but a branch that is ready again and again is taken. Where the ticker ends in a write, its branch is fair only
  in `Heartbeat`, which is about it.
- Taking `x.mu` is strongly fair in `XFace`, where threads report for ever; in `FaceServer`
  and `Shell` contention is finite and weak fairness is enough (Go's mutexes hand
  over to a waiter that has starved).
- The library calls back for each image it took (`StartCallback`); a websocket write
  returns (`WriteReturns`) - except in `Heartbeat`, where it returns if the socket has
  room or breaks.
- `Shell`: an accept error is never forced, and a client reads its
  replies or leaves, as `main.go`'s does, which waits ten seconds at most.
- `Heartbeat`: time passes (`Tick`).
- Nothing is assumed of clients and operators otherwise.

## 4. The proofs

All constants are arbitrary: any set of callers, connections, threads, any bounds,
any `Adversity` except where stated.

- `ConnProofs`, on what the goroutines of a connection rest on.
  - `UniqueID`: `IdTypeCorrect`, and `ImplementsDispenser`: `IdSpec => DispensesFreshIds`.
    The invariant adds to the types that `counter` is above every id issued (and that
    nothing is issued before `once.Do`); a successful swap is then an `Issue`.
  - `Heartbeat`: `TypeCorrect`; `AnsweringClientIsKept` is `AnsweringClientKept` for any
    `PongWait`, `RoundTrip`, socket size. The invariant follows a ping from the ticker
    through the socket and the client to the pong handler (`PingsAnswered`), and says that the
    deadline is never nearer than the pong under way (`DeadlineAhead`). It assumes `InTime`:
    a pong takes less than `PongWait` - `PingPeriod`, and the reader is not kept in
    `DoFeature` ("slow engine"); with either left out the property fails.
- `XFaceProofs`. `TypeCorrect`, `ExclusiveCallbacks` from the
  invariant `Control` (types; which places run and the workers can be in), which
  needs no assumption. `ReportedOnce` and `ReportsOwnRequest` assume `NoWrap`: every id
  survives `CInt` (`SmallIdsFit`: ids below half of an even `CIntMod` do). They need
  `Images`: accepted requests have distinct ids, and the image of an id is in one place
  only - with run, in the library, with one worker - and is not yet answered as long as
  it is in one of them. Without it `AnsweredOnce` is not inductive, since nothing would
  keep a second callback for the same image out. Early callbacks are included.
- `WsServerProofs`. `TypeCorrect`, `ReadersEndFirst` and `CloseWaitsForAll` from `Control`:
  types, the matching lives of handler, write and read goroutine (`Lives`), and
  `wg` = the number of connections whose write goroutine runs or that are between `Add` and
  `start` (`WgCounts`, with the library's theorems on
  cardinality; it is what makes `wg \in Nat` inductive). `TargetsStayOpen` is about handlers
  that overlap as they like, and needs `Registered`: as long as no two connections have been given
  one number (`OwnNumbers`, which once false stays so), handlers have in fact taken turns, their
  copies of `seq` are still right and all earlier numbers smaller (`Turns`), `conns` holds open
  connections under their own numbers (`Entries`), and a thread in front of a
  `writeCh` holds `mu`, so that its entry cannot go (`Targets`).
- `FaceServerProofs`. Every step of the whole is a step of `XFace` and one of `WsServer`, or
  leaves their variables alone (`EngineIsXFace`, `ServerIsWsServer`): what is proved of
  the two, `AnswersOwnRequest` and `AnsweredOnce` among it, carries over without a second proof.
  These and `TypeCorrect` assume nothing: clients that connect at the same time and callbacks
  that overtake the registration are in them. On top, `EachOnItsConnection` is `RightConnection`: a
  response carries the image of its own request, and, as long as no two connections
  share a number, a request carries the number
  of the connection it was read from, all the way through `reqs`, `img` and `job`, and the
  entry of `conns` under that number is that connection. `ServesAsPromised` is
  `ImplementsService`, each step an `Ask`, an `Answer`, a `Mix` or a stutter. Both
  assume `NoWrap` of the engine. `NoReaderIsStranded` is
  `NoReaderStranded`: a reader inside `DoFeature` keeps `close` waiting, and so the engine
  from being cancelled; it assumes `PromptClose` (no "late upgrade", no "close error"),
  without which `App.Run` goes on to `UnInit` with a reader still to come or still there.
- `ShellProofs`. `TypeCorrect`; `CloseWaitsForAll` is `CloseWaits`, by the argument of `WsServerProofs`
  (`wg` = the number of `conns` = the connections whose writer is not over);
  `ServesAsPromised` is `ImplementsService`, for any number of clients, any scripts and any
  capacities but zero. Of `ShellPack`, `FirstWrongIsItsBeginning` is `FirstWrongIsTorn`,
  for messages of any length, any `Radix` and buffer, and reads that return any part of what is there. The
  invariant (`PackInv`) has a function that says where
  in the stream each packet ends (`Marks`). As long as nothing has gone wrong (`InStep`),
  what follows in buffer and connection is what the packets have there (`Follows`), so that the
  next message returned is right, too long, or a beginning of the right one; what was
  returned before the first that is not right is right for ever (`OutOfStep`). That a message is
  without zero bytes tells a beginning with zeros behind it from the message.
- `FaceLibProofs`. `TypeCorrect`, and `StartsWithItsFile`, which is `ConfigIsTheFiles`: the invariant
  (`Stages`, `Settings`) says at each place of `InitXFace` how far the members have been
  told to the library. `InstanceStandsForEngine` is `InstanceTracksEngine`, from which
  places of `InitFaceLib` and `UnInitFaceLib` have a handle and whether a thread is inside
  `OnFeature` (`Threads`); it assumes that `Free` waits for callbacks (no "late callback"),
  as does `XFace`; the run without it is in the table of section 3.
- `CJsonTreeProofs`, on cJSON's items, for any number of blocks, and all calls that come back
  (after `crashed` there is no call). `ListsStayWhole` is
  `WellLinked`, `BlocksOwned` is `EveryBlockOwned`; with them `TypeCorrect`, and
  `ItemsStayLinked`, the invariant they follow from. `WellLinked` follows lists and
  `EveryBlockOwned` what `cJSON_Delete` reaches, and neither says enough of the pointers to
  be inductive. `TreeInv` is about single pointers (`Linked`): an item's `next` points back at
  it (`Neighbours`), the first item's `prev` is one that has no `next` (`ListEnds`), what the
  program holds or has lost is in no list (`Apart`), every other item is led to from one
  (`LedTo`), and no pointer leads to a free block (`Solid`). Two parts stand in for
  recursion. `par`, a function of which there must be one, is whose list each item is in;
  it is what tells the last of one list from the last of another. `Grounded` says that no set
  of items is led to from itself: nothing goes round in a circle, so that every walk ends.
  From these: an item is led to in one way (`OneEdge`) and is under one root
  (`OnlyFromBelow`, `AllOwned`); a walk along `next` comes to the item that `prev` of the
  first names (`WellLinked`; induction up to a bound is `UpTo`, over the set of the numbers
  of which a thing is true, since a theorem cannot take a predicate). Then one lemma for what each
  primitive does to the links (append, insert, detach, replace, free, name, refer), one for each
  call. A call that makes many items at once is taken item by item (`Listed`), or, for
  `cJSON_Duplicate`, as an isomorphism of what is copied (`CopiesAreOwned`, for a tree, in which an
  item is led to in one way, `OneWay`); where memory ends in the middle of either, that all
  copies made so far are freed, level by level, follows from their being the least set that the
  copying reaches, and each being under a copy that is `Begun`.
  `ItemsAreTheForest` is `ImplementsForest`: every call is a step of `JsonForest` or changes none
  of its lists. The walk that reads a list off the heap is recursive; it is
  replaced by `IsList`, a sequence that begins at the child, follows `next` and ends, which only
  one sequence can (`KidsIs`). So for each primitive the sequence it is to make (an item put in,
  taken out or replaced at a place, the others moved by one) is checked against the pointers
  it leaves (`ForestAppended` to `ForestReplaced`), and the lists whose pointers it leaves alone
  are kept (`ListKept`). What the forest deletes, the tree under an item, is what
  `cJSON_Delete` frees (`TreeIsOwned`), also when the item has just been taken out of a list
  (`TreeTaken`, which needs that no item is under itself).
- `CJsonTextProofs`, on cJSON where it works on a text.
  - The print buffer: types, `WritesFit`, `OneBuffer`, sizes that are still ints, and a
    caller's buffer that is still the block (`Kept`). It assumes of the pieces that each
    puts no more than it asked `ensure` for, and moves the offset by no more than it put -
    which is what `print_value` must keep to. Theorems: `BufferTypes`,
    `NothingWrittenOutside`, `BufferFreedOnce`, `SizesAreInts`, `CallersBufferIsLeft`. As
    every action of `CJsonPrint` is one of `CJsonBuffer`'s, they are about printing.
  - `cJSON_Minify`, on a text with one NUL, at its end: `WorksInPlace` (no access outside of
    it) and `NothingIsOverwritten` (what has not been read is as it was given), from `into <=
    json` and from where in a construct each place can be.
  - The parser, on any text with one NUL, at its end: `LooksInside` (no character behind the text
    is looked at), from where each place can stand (`ParserPlaces`) and from `Skip` and
    numbers ending inside the text, which they do since the NUL is no blank and no digit;
    `EveryBlockIsOwned` (the blocks allocated are those of the calls not over, so that a
    failure at any depth frees each once), from `Owns`, the sum over the frames
    (`FramesOK`); `ParserTypeCorrect`. Where a definition chooses a least or greatest
    place, its existence is a lemma (`LeastIsThere`, from the library's theorem that `<` on
    the naturals is well founded), and the sum is taken apart frame by frame (`OwnsTheLast`).
  - `parse_string`, on any bytes: `DecodedFits` (`OutputFits`), `EndsAtTheQuote`
    (`StaysInLiteral`), `StringTypeCorrect` (every byte decoded is a byte). The loop that
    copies need not stop at the places where the loop that measures has counted an escape:
    a code with a bad digit is six bytes whatever they are. So the invariant (`Escaped`) has a
    function that counts the escapes in front of each place, of which
    k bytes begin at most (k + 1) / 2: two bytes decode to one and begin one escape at most, six
    to three and three, twelve to four and six. What is written and what was
    skipped in front of a place never add up to more than the bytes in front of it.
  - All three readers together (`CJsonReaders`, which is what the run checks):
    `ReadersOwnBlocks` is `BlocksHaveOwners`, `ReadersStayInBounds` is `StaysInBounds`, from the
    three invariants.

What the assumptions say of the code: `NoWrap` holds until an id reaches 2^31 (the ids
count from 1); `PromptClose` is that no handler is
in the middle of an upgrade when `close` is called, and that closing the listener reports no error,
neither of which the code ensures; `InTime` is 6 s for a pong. Each names what goes wrong otherwise, and the
table in section 3 has the run in which it does. All are about the constants, and the cfg
files of the runs meet them.

Model-checked only: liveness, all of it; and of cJSON comparing, what the parser returns,
what printing puts and what strings decode to. Out of the prover's reach
are liveness under fairness and ENABLED, and what recursive definitions compute for every
input (the grammar, equality of items, the pieces of an item), in modules with RECURSIVE
operators most of all. The SMT backend takes neither CASE nor an EXCEPT within an EXCEPT nor
`@@`; definitions that are proved about are written without them.

## 5. Not modelled

- Server: `messageType` (the frame type of a response is in no property), the ticker
  that calls `State` beyond its wait for `mu`, what `State` formats, `wsConn.send`
  (never called), an answer that `json.Marshal` rejects beyond its being dropped.
- Engine: the contents of feature records; that entries of `reqs` are never deleted is in
  the model and nothing forbids it. An image of no bytes ends the process; it is in the
  model (`Crash`), and nothing forbids that either.
- Widths: `seq` does not wrap at 2^32, `counter` not at 2^63.
- The shell's transports, `MakeUniqueName`, logging, the version, the command line and
  client mode: pure I/O, or constants.
- cJSON: the values of numbers, parsing a length of text that has no NUL, hooks, the version and
  one-line accessors; aliasing of texts through `valuestring` of a reference.
- The XFace headers: declarations.

## 6. Plan

Done: the components above, each with its abstract specification where it promises
something to another, and eight modules of theorems. Left: `messageType`
as state of `WsServer`, if a promise about frame types is ever written.

# Verification of tac-os in TLA+

TLA+ models of the tac-os platform, the TLC configurations that check them on
small instances, and TLAPS proofs of the results that hold for every instance.
Every definition is translated from the code; `PROJECT.json` maps each one to
its lines (`map`), lists the parts of the system (`components`), what is hard to
test in it (`hazards`), the runs, the theorems and the findings.

## The system

| part | code | state | operations |
|---|---|---|---|
| Broker | `broker/main.go` | subscriber table under `b.mu`, one `writeMu` per connection | `SUB`, `PUB` with one delivery goroutine per recipient, write deadline, removal |
| Target Service | `target-service/main.go` | latest Observation per Target | parse and keep an Observation |
| DBMS client | `target-service/dbclient/client.go` | one shared connection, deadline | `Exec`, `Close`, cancellation callback |
| DBMS server | `server/dbms/internal/server` | lock file, socket file, open connections, stop flag | `Listen`, `Serve`, `handle`, `execute`, `Close` |
| DBMS engine and command line | `server/dbms/{lexer,parser,database}.go`, `internal/cli` | the tables | framing, parsing, `CREATE`, `INSERT`, `SELECT`, `UPDATE` |
| Window Manager | `window-manager/server/server.go`, `backend/` | the window, its two buffers, event subscribers | commands, native close, `QUIT` |
| Map | `app/map` | session, broker feed, targets | subscribe, create, draw, redraw, close |
| Runtime | `runtime/src` | IPC descriptors and receive buffer, detector helper | function table, `ipc_*`, window and camera clients |
| Marker detector | `prototypes/marker-detect` | socket, connections, camera, one request at a time | `Listen`, `Serve`, `Close`, detection |
| Compiler and VM | `compiler/`, `vm/src/vm.cpp` | operand stack, frames | check, generate, load, execute |

An Analyzer program (on the VM, with the Runtime) asks the detector for markers
and sends Observations to Map over a Unix socket (`ipc_send`, `ipc_receive`).
Map publishes Observations on the broker, subscribes to Targets and draws them in
a window of the Window Manager. Target Service subscribes to Observations; the
client of the DBMS is a package beside it.

What is hard here: sockets whose peers die, stop reading or send half a
message; a shared connection without request numbers; socket files that outlive
their process; commands that are given up but still executed; events, frames and
responses that are older than the question; two sides of a protocol that check it
separately; goroutines that must all end on shutdown; code that the compiler
produces and the VM refuses.

## Modules

| module | models | correspondence |
|---|---|---|
| `Broker` | `broker/main.go` | `handler[c]` is where `handle` is, `deliveries` are the goroutines that `publish` starts, `writeMu[c]` the mutex, `lines[c]` what the recipient's connection carries. One action per blocking point: scan, subscribe, snapshot, lock, write (whole, partial, failing), removal |
| `PubSub` | what the broker promises | `owed` messages are received once or lost |
| `MCBroker` | TLC instance | what each peer writes |
| `UnixSocket` | the kernel (external) | what a path names, who listens |
| `DbListen` | `Listen` and `Close` of the DBMS server | one action per system call, with its failure, and the lock file |
| `IpcListen` | `Runtime::ipc_listen` and the destructor | one action per system call |
| `DetectorListen` | `Listen`, `removeStale`, `Server.Close` of the detector | one action per system call |
| `StaleSocket` | several processes of one of the last two on one path | |
| `DbWire` | the connections (external) and the framing | a frame is a length and a payload, each sent on its own |
| `DbClient` | `dbclient.Client` | `Exec` from lock to return; deadline and late callback |
| `DbServer` | `Serve`, `handle`, `execute`, `Close` | |
| `DbExchange`, `MCDbExchange` | client and server together | |
| `Ipc` | `ipc_send`, `ipc_receive` | byte by byte; a line is valid or not (`validate_observation`) |
| `Sql` | `lexer.go`, `parser.go`, `readStatement`, `SQLString` | pure operators on texts; a text is a sequence of atoms (a run of letters, a run of digits, one other character), a position of the parser is 0 once it has failed |
| `Database` | `database.go`, `value.go` | `tables` is `db.tables`; a statement is a record as the parser builds it; one action per statement, `Invalid` for every error |
| `SqlStore` | what the engine promises | a table is a sequence of records by column name, with types by name; neither columns nor rows have positions |
| `SqlSession`, `MCSql` | `cli.Run`, `executor.execute` with `query`, `validate` of the client | one process, fed by a terminal or by frames |
| `MapFrame` | `messages.go`, `projection.go`, `frame.go`, `preview.go` of Map | pure operators; angles in whole degrees, probabilities in percent |
| `MapFeed` | the goroutine of `RunWithBroker`, `receiveTargets` | `feed` is where it is; `updates` and `notices` are the two channels; the Broker is external |
| `WindowManager` | `Server.Run`, `handleRequest`, `pollWindowEvents`, both backends | a command is read by a goroutine of its connection and handled by the loop in any order; a buffer is the set of commands painted in it; `native` is the event queue of SDL |
| `MapSession`, `MCMapSession` | `RunWithBroker`, `runMap` and its client, on `WindowManager` and `MapFeed` | `pc[c]` is where `runMap` is, `todo[c]` the rest of the frame it sends |
| `DetectorProtocol` | `ipc/protocol.go`, `Normalize`, `decode_response` | requests are sequences of JSON tokens read as `json.Decoder` reads them; `NaN`, infinity and -0 are values of their own |
| `Detector` | `runServe`, `cameraSource`, `Server` of the detector | one variable per goroutine: `main`, `serving`, `shutdown`, `handler[c]` |
| `Camera`, `MCCamera` | `CameraDetectorClient`, with `Detector` as its child process and another client beside it | `pc` is where the thread of the Runtime is |
| `Vm` | `load_program` and `Vm::run` | one action per instruction with its failures; code is a sequence of bytes in which an instruction's first byte carries its decoded operands, so that a jump can miss a boundary |
| `Ast` | `Ast.kt` | a node is a record; `alwaysReturns` |
| `Compiler` | `Checker.kt`, `CodeGen.kt`, `Bytecode.kt` | pure operators: `checkExpr` annotates a tree, `genExpr` and `genStmt` emit, jumps are patched |
| `Language` | what a program means | an evaluator of the syntax tree that knows neither slots, temporaries nor jumps |
| `Toolchain`, `MCToolchain` | compiling, then loading and running | |
| `BrokerProofs` | proofs about `Broker` and its refinement of `PubSub` | |
| `DbmsProofs` | proofs about `Database` and `DbListen` | |
| `DbExchangeProofs` | proofs about `DbExchange` | |
| `RuntimeProofs` | proofs about `Vm` and `StaleSocket` | |
| `IpcProofs` | proofs about `Ipc` | |
| `CameraProofs` | proofs about `Camera`, `Detector`, `DetectorProtocol` | |
| `MapSessionProofs`, `MapWindowProofs` | proofs about `MapSession`, `WindowManager`, `MapFeed`, `MapFrame` | |

Operations that the code performs in one uninterrupted step are one action;
what another process can observe in between is split.

## Runs

| run | instance | shows |
|---|---|---|
| `broker_safe` | two publishers, one subscriber, anyone may die | `LinesIntact`: deliveries never mix; `PublisherOrder`; `ImplementsPubSub` |
| `broker_live` | one publisher, a healthy subscriber, one that stops reading and may die | `HealthyReceives`, `DeadConnectionsLeave` |
| `broker_splice` | as `broker_safe` with a slow subscriber | finding: a timed-out partial write is continued by the next delivery (`EveryLineIntact`) |
| `db_listen` | three servers, a leftover or a foreign file at first, calls that fail | the lock file makes start, takeover and close exclusive: `ServingIsReachable`, `RemovesOnlyStale` |
| `stale_claim` | three Maps or three detectors, killed anywhere | `LoneGetsSocket`: whatever was left behind, a lone process gets the socket |
| `db_exchange` | two goroutines, two connections, two statements, server may stop | `ResponseMatches`; `OutcomeIsTrue`: an answered statement is executed once, a refused one never; `StoppedIsQuiet`: after `Close` no connection stays open, and when `Serve` returns nothing is executed any more; `ExecReturns`; `ServeStops` |
| `ipc` | two senders, two messages each, sizes around the limit | `ReceivedIsSent`: whole valid messages, in order, exact limit; `NothingVanishes`: not even a part of a message is dropped without an error; `PartialIsBounded` |
| `map_session` | a fed Map, then a demo, on SDL | `FrontIsWhole`: the window shows one frame, painted as the preview paints it; `LatestShown`: and in the end that of the newest Targets; `FeedLinesHarmless`; `NoDuplicateClose`, `NoOrphanWindow`, `NoStaleClose`; `SessionEnds` |
| `toolchain` | small programs compiled and run; all modules of up to three instructions, loaded and run | `FetchesAreValid`: what `load_program` accepts stays within its code, constants and locals; `CallerOperandsKept`; `CheckedNeverFaults`: checked programs meet no type error, empty stack or uninitialized local; `ComputesSource`: they compute what the language says; `LoopsKeepStack` |
| `toolchain_loads` | the same | finding: an `if` or `while` after a `return` gives a module that does not load (`CompiledLoads`) |
| `sql` | up to four texts at a terminal or in frames; every one-atom mistake in five statements | `FramesOneStatement`: a statement ends at its first semicolon outside quotes; `ParsesItsGrammar`: exactly the texts of the grammar are parsed, to what they say; `ImplementsStore`; `RowsTyped`; `ClientGetsResult`: `validate` refuses no response of the server |
| `camera` | two calls of the Runtime, another client, camera and fake modes | `CurrentFrame`, `RightDetections`, `ProtocolAgrees`, `CloseWaits`, `SocketRemoved`, `DetectReturns`, `DetectorEnds` |

Every property of a passing run has a mutant, a plausible bug in one mapped
definition that makes TLC report it.

### Bounds

`MaxLines` lets a publisher publish twice, enough for one message to overtake
the other, and leaves a line in the scanner when a connection fails. Three
processes on a path let one leave its socket, one take over and one interfere.
Two statements over two connections show a reply left by a failed exchange and
a reconnect. In `Ipc` the limit is 3 bytes, with messages of 1, 3 and 4 bytes,
a socket buffer and a receive buffer of 2, so that every message longer than
one byte can be cut, arrive with its neighbour, and end at the limit or above
it.

In `map_session` the Broker sends two lines of three: a Target on the south-east
corner of the map, the same Target outside of it, and one with a probability
above 1, which Map must skip. The channels hold one element instead of 16 and 8,
so that the feed waits for the session and one update waits during a redraw. The
demo starts when the fed Map has returned and WM has handled its last command,
so that it meets what the first window left. `Cancellable` and `TimesOut` name
the points where the context or a time-out may cut a command off; they hold every
command of the session, `CREATE` included. What WM may then still handle decides
two exceptions, which `cutOff` keeps apart: a `CREATE` that was cut off may leave
a window (`NoOrphanWindow`), and after any cut-off command `CLOSE` may meet a
window that the user has closed (`NoDuplicateClose`). The instance uses the SDL
backend, whose steps include those of the headless one. PRESENT of SDL is
modelled for surfaces of 4 bytes per pixel; for others the code copies nothing.

In `sql` a table has two columns, one named `from`; the values are a text of a
quote and a semicolon, the empty text, 0.5, 5.0 and both zeros. Four texts
create, fill, change and read a table. `MaxFrame` = 3 values lets a result of two
columns fit with one row and not with two. `ClientGetsResult` also says which
code a response has: `BAD_REQUEST` exactly for a text without a statement.
`validate` of the client would refuse responses of another form as well, and drop
its connection (`Fail` of `DbClient`); this server sends none.

In `camera` the driver keeps up to `DriverFrames` = 4 old frames and
`staleFrames` = 3 are thrown away, as in the code: `CurrentFrame` says that an
answer shows an old frame only when the driver has kept more than that. Frames
show copies of one marker in either order, markers out of order, ids, shapes and
poses that are no detection, and distances that are no length. Two calls are
enough for the answer to one to reach the other.

In `toolchain` an Int is in -4..3, so that all four operations overflow; the
machine has 4 frames and 4 stack entries, which recursion and nested operands
reach; a slot is at most `MAX_U8` = 3, which locals together with the
temporaries of nested comparisons pass; a constant or function index is at most
`MAX_U16` = 5, and programs with 2 to 8 functions and up to 9 constants reach and
pass it. The programs are expressions of one to three operators, comparisons
nested up to three deep in the operands of comparisons, bodies of up to three statements with a call in a loop, and recursion
with the recursive call as the first or second operand. The modules that no
compiler wrote have up to three instructions of an alphabet with wrong indices,
targets inside an instruction and an unknown opcode, and headers with other
versions, entry functions and parameters. `Language`
evaluates `MaxCalls` = 5 nested calls, more than the machine has frames, and
`MaxLoops` = 4 rounds; beyond that it says nothing of a program. `MaxOutput` ends
loops that log for ever.

### Fairness

Weak fairness is on goroutines and on processes that the operating system runs
(`Handle`, `Exec`, `Serve`, `Session`, `Receive`, the loop of the Window
Manager, the client of the detector and its main goroutine). A write or
read with a deadline ends because its failing outcome is part of the same action. Strong fairness is only on taking the `writeMu` of the
broker, because Go's mutexes do not starve a waiter. No fairness is on peers,
users, signals, cameras, the broker of Map and deaths. `ExecReturns` assumes only
that the client's side runs, `ServeStops` only that the server's does, and
`DetectReturns` and `DetectorEnds` nothing of the camera or of the goroutines of
other connections: deadlines end what they hold up.

## Proofs

The theorems hold for every value of the constants that the named `ASSUME`s
allow: any number of clients, processes, connections and messages, any sizes.

- `BrokerProofs!TypeCorrect`, type correctness of the broker.
- `BrokerProofs!PublisherOrderHolds`. The invariant `OrderInv` adds to the
  property that the lines of a peer carry consecutive numbers (`Numbered`), that
  a publisher with open deliveries is still in `publish`, with one per recipient
  (`Waited`), and that what a subscriber has is older than what is on the way
  (`Ordered`). Without `Waited` a second publication could overtake the first.
- `BrokerProofs!LinesIntactHolds`, from mutual exclusion on `writeMu`
  (`Exclusive`) and from unterminated bytes belonging to the delivery that writes
  (`CleanTail`). It holds for each subscriber that keeps reading; for the others
  `broker_splice` shows that it does not.
- `BrokerProofs!BrokerImplementsPubSub`: initial states and each action map
  to `PubSub`, using `OrderInv`.
- `DbmsProofs!ServingIsReachableHolds`, `CloseLeavesNothingHolds`,
  `RemovesOnlyStaleHolds`, from what the holder of the lock knows of the path at
  each step (`LockInv`, `PathInv`).
- `DbmsProofs!RowsTypedHolds`, about `DbSpec`: the engine alone with any
  statement that the parser can build, over any names and values. `Typed`
  and `RowsTyped` together are inductive: an accepted `INSERT` names as many
  distinct known columns as the table has, hence all of them, and `UPDATE` only
  replaces values by values of the same type.
- `DbExchangeProofs!ResponseMatchesHolds`, `OutcomeIsTrueHolds`,
  `StoppedIsQuietHolds`. `ResponseMatches` is not inductive: it depends on what a
  connection can still carry. `Exchange` says that a connection that a client
  keeps carries nothing between two exchanges and within one only the parts of
  its own statement; `Once`, which speaks of dropped connections too, that a
  statement waits for its execution in one place at most. `Severed` adds, for
  the last theorem, that a connection of a handler is never opened again.
- `RuntimeProofs!FetchesAreValidHolds`, `CallerOperandsKeptHolds` and `VmTypeCorrect`,
  about `VmSpec`: the machine alone with any module in its file. The inductive
  invariant `Inv` says that the frames' bases are ordered and within the stack
  (`FramesNest`), and that while the machine runs the module is one that
  `load_program` accepts and every frame is at an instruction or at the end of its
  code, with a local for every slot (`FrameValid`). `FramesNest` is needed for
  `RET`: the frame below must find its own operands. Each instruction is shown to
  keep `Inv` and what is under the base (`Good`); most of them through one lemma
  on steps that replace operands of the top frame (`LocalStepKeeps`).
- `RuntimeProofs!LoneGetsSocketHolds`, from what a lone process knows of the path
  at each call (`Knows`), for both programs.
- `IpcProofs!ReceivedIsSentHolds`, `NothingVanishesHolds`. The invariant is about
  the stream of a connection: what is buffered, in the pipe and still to be sent,
  one after the other. Most steps move bytes along it; it is a sequence of whole
  lines but for its end (`Framed`), of one sender in the order of its calls
  (`Ordered`).
- `CameraProofs!ParsesDetectOnly`, `ProtocolAgreesHolds`, `CurrentFrameHolds`,
  `RightDetectionsHolds`, `CloseWaitsHolds`, `SocketRemovedHolds`. `Process` is the
  order in which the goroutines of the detector work, `Connection` what is on
  its way on the Runtime's connection: a request, or an answer made during this
  call (`Honest`). What `Detect`, `Normalize` and `validate` make of a frame of any
  length is proved by well-founded induction over their loops
  (`ResponsesRight`).
- `MapSessionProofs!FeedLinesHarmlessHolds`, `NoStaleCloseHolds` from `Base` (types
  and the close control), `PreviewAcceptsFrames` from arithmetic on the
  projection.
- `MapSessionProofs!NoOrphanWindowHolds`, `MapWindowProofs!NoDuplicateCloseHolds` and
  `FrontIsWholeHolds` under two assumptions about the circumstances: `OneByOne`
  (Maps do not overlap) and `CreateWaits` (`CREATE` is neither cancelled nor timed
  out; all other commands may be). `Orderly` says which command each session waits
  for, what it has heard of its window and whose window there is; `Closing` and
  `Pictures` add what a session knows when the user closes its window and what the
  back buffer holds before each command of a frame. That the three properties also
  hold when `CREATE` is given up is only model-checked (`map_session`).

The assumptions are the named `ASSUME`s of the modules: model values differ and
bounds are natural numbers; `VmAssumption` asks for a range of Int around 0 and at
least one frame. Liveness under fairness, the compiler, whose operators are
recursive, the SQL parser, whose functions recurse over texts, `ImplementsStore`
and `PartialIsBounded` are only model-checked.

## Disagreements without a run

Besides the two findings, the models have these behaviours of the code, in which
it differs from what a comment or a document says.

- `ipc_listen` (`runtime/src/runtime.cpp:520`) and `removeStale`
  (`prototypes/marker-detect/ipc/listen_unix.go:66`) probe a path and unlink it in
  two steps. A process that starts to listen between them loses its socket to
  another one that starts at the same time, against the comments at
  `runtime.cpp:499` and `listen_unix.go:45`. `LoneGetsSocket` therefore speaks of
  processes that do not overlap.
- When `CREATE` fails `runMap` returns before it defers `CLOSE`
  (`app/map/session.go:32`), also when a cancellation or a time-out cut it off and
  WM still handles it: the window stays. `app/map/README.md:27` and
  `spec/map-rendering.md:75` say that Map closes its window on cancellation.
  `NoOrphanWindow` names this exception; without it TLC finds the window.
- Two Maps share the window name `map`. With `Overlap = TRUE`, a Map that has
  subscribed before its own `CREATE` gets the close event of the other one's
  window, takes it for its own (`session.go:94`) and leaves its window open
  (`NoOrphanWindow`). A Map whose window has been closed goes on to draw in the
  window of the other (`FrontIsWhole`).
- A command that times out leads to `CLOSE`, which may meet a window that the user
  has closed in the meantime: the exception of `NoDuplicateClose`.
- A command that was given up is still handled by WM, and with `Overlap = TRUE`
  may paint into the frame of the next Map. In `map_session` the next Map starts
  when WM has handled every command of the first.
- A signal that the detector handles before `Serve` has stored its listener
  (`cmd/marker-detect/serve.go:76`, `ipc/server.go:46`) makes `Close` find nothing to close, and the
  process may exit with its socket file in place, against `serve.go:85` and
  `spec/camera-detector-protocol.md`. `SocketRemoved` excludes exactly this order.
- The broker executes a command whose connection ends in the middle of its line.

## Not modelled

`PROJECT.json` gives the reason for each part.

- Target Service keeps the latest Observation of each Target in memory and logs
  it; nothing else reads the store, so there is no state to be right or wrong
  about. It refuses a timestamp that is not positive (`main.go:62`), which Map's
  check of the Observations it publishes lets through.
- The parser of the language, image processing and pose estimation: text and
  numerical code without state.
- The programs that only read flags (`map-demo`, `wm-server`, `wm-client`,
  `tacdb`), the reading of map and Observation files, PNG output.
- The other functions of the Runtime's table, one exchange each.
- Within modelled parts: pixels and blending; the wording and positions of
  errors; how the command line displays a value; a slow event subscriber, which
  WM drops after one second; WM commands with missing fields, which Map does not
  send. A Float of the VM is only its kind: the arithmetic and its failures are
  any that the code allows.

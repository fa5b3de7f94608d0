# A TLA+ verification of rtltcp

rtltcp serves the IQ samples of an RTL-SDR dongle over TCP. This directory holds
TLA+ models of its servers, its proxy, its command protocol and its capture and
replay tools, the TLC runs that check them on small instances, and proofs checked
by TLAPS. Source paths are relative to the repository; line numbers are those of
`PROJECT.json`.

## 1. The system

| Component | Source | State it keeps | Operations |
|---|---|---|---|
| IQ fan-out | `src/stream.rs` | ring of the last 64 buffers, one cursor per receiver, `should_exit` | `send`, `subscribe`, `write_client_loop` |
| Single-client server | `src/main.rs` `run_serve_single` | four threads (main, control, cancel, signal handler), `sync_channel(1)`, `should_exit`, the client's socket, the device read | accept, magic packet, read callback, command loop, cancel, shutdown |
| Multi-client server | `src/main.rs` `run_serve_multi`, `spawn_*` | the above with an acceptor thread, a reader thread and a writer thread per client; `count`, `all_streams`, `encryption_nonces` | master reconnection loop, slave acceptor, fan-out, nonce exchange, final shutdown |
| Command path | `src/control.rs`, the command loops in `src/main.rs` | bytes in the socket, `RateLimiter`, `AgcState`, the device's settings | `read_exact`, rate check, validation, device calls |
| Encryption | `src/encryption.rs` | a cipher per direction | nonce exchange (both sides), `EncryptedWriter` |
| Proxy | `src/main.rs` `run_proxy_multi` | upstream connection, write cipher, fan-out | upstream reader, command forwarding, master reconnection |
| Upstream connection | `src/proxy.rs` | is_chain, ciphers | magic, chain probe, nonce exchange |
| Capture | `src/capture/mod.rs`, `src/bin/capture.rs` | the file, the write buffer, the exit flag, the clock | record, flush, interrupt |
| Replay | `src/capture/mod.rs`, `src/bin/replay.rs` | position in the file, `prev_timestamp`, two threads and `client_quit` | read, pace, loop, log commands |
| Whitelist, arguments, key parsing, errors | `src/control.rs`, `src/main.rs`, `src/error.rs` | none that lives on | checks at start-up or at accept |

How they interact. The device's callback calls `Sender::send` (multi-client) or
writes to the socket itself (single-client). Writer threads poll their receiver
and the exit flag. Control threads share a socket with the writer of the same
client, and the device handle with the cancel thread. Everything stops through
one message to the cancel thread, which cancels the device read and sets the
flag. The main thread joins control threads, then the cancel and the reader
thread. A proxy is a client of another server (its upstream): it probes whether
that server is of its own kind, may agree on nonces with it, fans its IQ data out
through the same channel and forwards its master's commands. A recorder is a
client too; its file is what a replay serves.

What is hard here, in the order of the plan: threads that share a socket, a flag
and a channel of one place; joins that wait for a thread that waits for a client;
clients that stall, half-close or reset at any point; slow clients that are
overtaken by the ring; state that outlives a connection (nonces, the AGC flag,
the slave count, the proxy's cipher); timeouts inside `read_exact`; a handshake on a
socket on which IQ data is already flowing; a recorder that dies, or whose disk
fills up, in the middle of a write. `PROJECT.json` lists these
hazards with their lines, and the properties that cover them.

What makes each component correct:

- fan-out: each client gets a subsequence of the stream, in order, missing only
  what the ring had overwritten; writers stop on exit and on close;
- servers: nothing but a signal or a failed write stops the device; the end of
  `run_*` leaves no thread behind; signals, resets and device errors end what they
  should and nothing else; the magic packet comes first; one commander;
- command path: the device only gets values within its limits; the rate limit
  is exact; the AGC flag does not drift from the device; frames stay whole;
- upstream connection: both ends agree on the nonces and on what a command is,
  whatever the timing; `connect_upstream` returns, and takes little IQ data;
- proxy: the upstream decrypts each command where it was encrypted, in order, one
  master at a time; a lost upstream and a signal have a defined end;
- capture and replay: what is replayed is what was received, whole, in order and
  at its pace, however the recording ended; both tools stop when they should.

## 2. Plan

1. `Broadcast` and `IqFeed`: the fan-out, its abstract specification, the
   refinement and all proofs. *Done.*
2. `ServeSingle`, `ServeMulti`, `Control`: the servers and the command path.
   *Done.*
3. `ControlProofs`, `ServeSingleProofs`: the invariants of those modules for every value of the
   constants. *Done.*
4. `Handshake`: `connect_upstream` against the threads of its upstream, on one
   socket. *Done.*
5. `Proxy`: `run_proxy_multi`. *Done.*
6. `CaptureFile`, `Capture`, `Replay` and their composition `Recording`. *Done.*
7. `ProxyProofs`: the invariants of `Proxy`. *Done.*
8. Proofs: `ServeMultiProofs`; `FramesIntact` in `ControlProofs`, with the lemmas on
   streams of frames in `Framing`; `HandshakeProofs`; `RecordingProofs`. *Done*: every
   invariant that a passing run checks is a theorem.
9. The safety parts of what is stated as liveness: `BlockedForCause` is done; next is
   what a server that was signalled can still be waiting for.

## 3. Modules

**`IqFeed`** is what a client is promised: buffers have positions in one stream;
`Deliver` hands a client a newer buffer, and every buffer it passes over must be
at least `Window` behind the head.

**`Broadcast`** is `write_client_loop` over tokio's broadcast channel. A buffer is
its position in the stream, so the ring is just `tail` and `Oldest`, and a
receiver is `next[c]`. The writer's program counter has the three points between
which other threads act (load of the flag, `try_recv`, `write_all`); each branch of
the `match` is an action. `Feed` maps the state to `IqFeed` (`tail` is what is
published, `out` what is delivered, the writer's program counter the phase).

**`ServeSingle`** has one program counter per thread and an action per statement
that another thread can observe. The callback runs on the main thread inside
`read_async` (`Callback`). The client's side of the connection is `peer` (`open`,
`half` closed, `gone`), external; a write succeeds only while `Writable`, and may
always time out. `wire` records the kinds of items sent, runs of IQ data once.
`cancel_async_read` has an effect only while the read is running; that it was
called too early is recorded in `missed`. Every `?` before the return ends in `err`.

**`ServeMulti`** follows the same scheme with a control and a writer thread per
connection. The inside of a writer's receiver is `Broadcast`'s subject; here a
receiver either has something to return (`pending`) or not. The lock of
`encryption_nonces` is `nlock`: a writer's guard lives through
`write_client_loop`, because it is a temporary of the `if let`. `nonces` and `cipher`
name the master whose exchange the nonces come from, not bytes. The sweep over
`all_streams` at the end (`MainShutdown`) and the return (`MainReturn`) are two steps:
nobody joins the acceptor, and one that has passed its look at the exit flag may
still register a slave, write its magic packet and spawn its writer in between.

**`Control`** is one control thread, its socket's bytes and the device. Bytes are
below `Base` and payloads have `Width` bytes (256 and 4 in the program), big-endian,
with two's complement for `i32`. The limits are parameters. Frames may be cut
(`Split`) and then `ReadTimeout` loses what was read (`cut` remembers it). Time is
counted in ticks. A new limiter lets the first command through, or not where the
clock cannot be set back by the interval (`NewLimiter`). `gap`, `prev`, `sent`, `handled`, `outcome`, `agcStale` and `cut` are
history variables, for properties only.

**`Handshake`** puts `connect_upstream` and `nonce_exchange` on one side of a
connection and the main, writer and control threads of its upstream on the other.
Each direction is a sequence of bytes of which only the kind is kept, because who
takes which byte for what is the question. An IQ byte may look like the first byte of
an acknowledgement or not. `setup` says what the upstream is (an rtl_tcp that
knows no probe, rtltcp with one or with many clients), which ends have the key, and
whether nonces of an earlier master are stored. After the handshake the proxy
relays bytes and forwards commands, encrypted if it believes to be in a chain. It
does not look at what it forwards, and so a command may be the probe of another
proxy further down (`Forwarded`), which the upstream answers as it did the first one
(`AfterFrame`), unless its rate limiter drops it. `in_step` says whether the upstream
decrypts at the place of the keystream at which the proxy encrypted. `garbled` records
that the upstream has executed a frame nobody sent, `again` that a forwarded probe
made it repeat the exchange, and `relayed` the IQ data relayed. Of a chain of several
proxies the model has the one next to the server: what the probe of a proxy further
down does to its connection, and not how that proxy takes what is relayed to it.

**`Proxy`** is `run_proxy_multi` from there on, in the scheme of `ServeMulti`: main
thread, upstream reader, a control thread per master. A command is encrypted at
one position of the keystream and written in another step, and `received` records
what reached the upstream with the position it was encrypted at. Writing to an open
upstream may block for good; the first write to a closed one returns Ok. Slaves and
the inside of writer threads are left to `ServeMulti` and `Broadcast`.

**`CaptureFile`** is the file format over bytes below `Base`: little-endian timestamp
and length, then data; **`Capture`** the recorder and **`Replay`** the two threads of the
replay tool. They share `file`, and **`Recording`** composes them: the replay starts
when the recorder has ended. `write_all` may fail after a part of its bytes, and a
kill may leave a part of what is being written. The bytes of the stream are
numbered, so that what is sent tells what was lost, repeated or misread; the numbers
may exceed a byte, those in timestamps and lengths do not. A client of
the replay is `chatty` while commands of it are on the way.

**`MCBroadcast`**, **`MCServeSingle`**, **`MCServeMulti`**, **`MCControl`**, **`MCHandshake`**, **`MCProxy`**
and **`MCRecording`** are the instances for TLC; **`BroadcastProofs`**, **`ControlProofs`**,
**`ServeSingleProofs`**, **`ServeMultiProofs`**, **`ProxyProofs`**, **`HandshakeProofs`** and
**`RecordingProofs`** hold theorems, and **`Framing`** the lemmas on streams of whole
frames that the ones about `Control` and `Handshake` share. Operators with an underscore
and a capital in their name (`WriteErr_Continues`) are variants of the definition
that follows them, as a plausible bug would have it; each makes TLC report the
property it belongs to.

## 4. Runs

| Run | Instance | Checks |
|---|---|---|
| `broadcast` | 2 clients, ring of 3, 5 sends | loss accounting; catching up; stopping on exit and close; refinement of `IqFeed`, which has the order of buffers and what may be skipped |
| `serve_single` | 2 signals, 2 commands | clean return; the device is cancelled for cause; signals and resets end the program; the end of the device leaves at most the idle client |
| `serve_multi` | 2 masters, a key, 1 signal, 2 commands | types; one commander; cancelled for cause; IQ data overtakes a master's magic packet only under nonces left from before |
| `serve_multi_slaves` | 1 master, 2 slaves, limit 1, 1 signal | the limit; what a return leaves behind; a slave gets the magic packet first |
| `serve_multi_signal` | 1 master, 1 signal, 1 command | a signal ends the server or leaves it waiting for that master; a gone master is released |
| `control` | 13 frames at and past the limits, 3 sends, 3 instants, 1 reconnection | device within limits; exact rate limit; AGC flag; frames intact until a read gives up inside one |
| `handshake` | every setup; probe of 2 bytes, magic packet and nonce of 3, 3 IQ bytes, 5 commands | types; nonces agree; commands are understood; IQ loss is accounted for and bounded; the upstream reads all it is sent, or is blocked for a known reason |
| `proxy` | 2 masters, 2 commands, 1 signal, an upstream that closes or resets | keystream in step; order of commands; clean return; a signal ends the proxy or leaves it waiting for the master or the upstream; masters are let go when the upstream is lost |
| `recording` | 3 bytes in reads of 1 or 2, a flush threshold of 5 bytes, 2 instants, with and without timeout, loop and pacing | types; what is replayed is a prefix of what was received, in whole chunks; nothing lost by a capture that ended; pacing; what ends a loop; capture, replay and command thread end |

Runs that show a disagreement between the documents and the code (each a
finding in `PROJECT.json`):

| Run | Claim | What the code does |
|---|---|---|
| `multi_slot` | a limit on concurrent slaves | a limit on slaves ever accepted |
| `multi_reconnect` | masters can reconnect | with a key, the writer of a half-closed master keeps the nonces' lock and the next master's control thread blocks for good |
| `handshake_iq` | IQ data is encrypted and decrypted | the proxy relays it encrypted: the cipher made for reading is never used |

Other disagreements that the models contain, most of them visible as the exception
in a property that holds:

- Ctrl-C does not end a multi-client server or a proxy whose connected master
  sends nothing, nor a proxy whose upstream does not take a command
  (`SignalStopsOrWaits` of both modules; `CHANGELOG.md:43`, `:44`);
- with a key and nonces of an earlier master, the next master's IQ data may come
  before the magic packet, under the wrong nonce, and the lock of the nonces stops
  its own exchange (`EarlyOnlyUnderStaleNonce`, `CommandsConsumed`); without a key it
  may come before the magic packet at any time;
- a timeout inside a command shifts the framing of all that follow on the
  connection (`FramesIntact`);
- an acknowledgement that comes after 500 ms is relayed as IQ data, and with a key
  at the upstream the proxy's commands are taken for a nonce (`CommandsUnderstood`);
  from an upstream that is no proxy the five bytes of the acknowledgement are IQ
  data that is lost, which shifts I and Q by an odd number of bytes (`LossBounded`);
- the proxy forwards commands as they are, the chain probe of another proxy too. In a
  chain of proxies (`docs/superpowers/specs/2026-05-22-rtltcp-proxy-design.md:14`,
  `:24`; called the design document below) a keyed upstream then repeats the nonce
  exchange, takes the next commands for a nonce and blocks for good in the store at
  `main.rs:784`, whose lock its writer thread holds (`again` in `NoncesAgree`,
  `CommandsUnderstood` and `CommandsConsumed`). A proxy without the key, or one that
  was acknowledged too late, gets a keyed upstream into the same state by frames it
  misreads (`garbled` in `CommandsConsumed`);
- an upstream that is lost ends the reader thread only (`CleanReturn` of `Proxy`): the
  proxy goes on accepting masters and slaves and never connects again. The design
  document (`:222`) has the slave port refuse connections and the upstream
  re-established by a reconnecting master;
- the device is never stopped for want of clients. The design document (`:219`, `:220`)
  has it torn down when the last client is gone, and the callback means to
  (`main.rs:523-525`), but the receiver `_rx` (`main.rs:476`) keeps the send from failing
  (`CancelledForCause` of `ServeMulti`);
- slaves are accepted at any time: the design document has the slave port refuse
  them when no master is present (`:250`) and after an error of the device (`:223`); a
  slave over the limit stays in the backlog, where it is to be reset (`:227`);
- at shutdown a slave that the acceptor is just taking may be registered after the
  sweep and its stream is left open to the end of the process, where all slave
  streams are to be closed (`:225`; the last conjunct of `CleanReturn` of `ServeMulti`);
- a flush that fails part-way is followed by a second write of the same chunks
  after the part, and the file cannot be read from there on (the `diskError`
  exception of the properties of `Recording`);
- `--timeout 0` leaves the recorder without a timeout (`CaptureStops`); a replay in a
  loop over a file without chunks spins and never notices that its client is gone
  (`ReplayStops`; `requirements.md:70`); a client that never pauses keeps a finished
  replay from ending (`CmdThreadJoined`); a file that breaks off inside a chunk ends a
  loop, one that breaks off inside a timestamp does not (`LoopGoesOn`);
- a master that resets before the magic packet, or is refused by the whitelist,
  ends the multi-client server and the proxy (`MainMagicFails`, `MainRefuse`);
- in single-client mode the end of `read_async` waits for an idle client
  (`DeviceEndLeavesOnlyCtl` states exactly what it waits for).

**Bounds.** Two clients and a ring of three with five sends let a client lag, resume and lag
again while the other keeps up (with a ring of two, a gap of one buffer would
always be outside the window by the time the next one is delivered); clients do not interact except through the
ring. Two signals reach the handler's full-channel and dropped-receiver branches.
Two commands put chain probes on both sides of the magic packet, and with a key
make a second exchange meet the first one's lock. A limit of one slave with two
slaves reaches the limit, and leaves a slave for the acceptor to take while the
server ends. In `Control` one byte of payload below 16 has the same
sign and limit cases as four bytes; three frames at three instants are what the
rate limiter needs to admit, reject and admit again at exactly the interval.
Symmetry is used for masters and slaves, in the runs without liveness. In `Handshake` a
magic packet and a nonce of three bytes and commands of two keep what decides about
the program's 12, 5 and 12: a nonce is longer than a command and no multiple of it,
so that frames read out of a nonce end inside the next command; three IQ bytes are
enough to be taken for an acknowledgement with one left over, or to fill a nonce's
place. Five commands let the upstream take commands for a nonce, misread one as a
probe, take others for a second nonce and block in the store with bytes left to
read; with fewer, nothing is left to read unless there were nonces from before. Two
masters and two commands make a proxy hand over its cipher with a command written,
dropped or lost on either side. In `Recording` a read of two bytes reaches the flush
threshold at once and two reads of one byte together; three bytes leave something
buffered after a flush; the later instant needs both bytes of a timestamp.

**Fairness.** Weak fairness of each thread's own steps: threads are scheduled,
sleeps end, and blocking writes return because every socket has a write timeout.
Where there is none (the proxy's upstream, the client of a replay) a write to a
peer that is open is not fair. The reads of `connect_upstream`, of the nonce exchange
and of the recorder return by their timeout (the recorder's only if it has one).
A running device keeps calling the callback, whose write fails once the connection
takes no data. Strong fairness of
`AcceptorAccept(s)`: accept errors on the slave port do not recur forever while a
connection waits. Nothing is assumed of clients (they need not send, read or
disconnect), of signals or of the device's end; reading a command is never fair.
Deadlock is checked in the server modules, in `Proxy` and in `Recording`. It is not in
`Broadcast`, `Control` and `Handshake`, where every writer may have ended and where
clients may stop sending.

## 5. Proofs

`BroadcastProofs` proves, for every set of clients, capacity above zero and
number of sends:

- `Invariance`: `BroadcastInv` is an invariant. The properties are not inductive by
  themselves: that `out` stays ordered needs every element of it to be below the
  buffer in hand, and that below the cursor; that only overwritten buffers are skipped
  needs `next[c] <= tail` and that a lag moves the cursor to `Oldest`, where everything
  passed over is `Capacity` behind `tail`; loss accounting needs a buffer to be in
  hand exactly when the writer is at `write` (or ended there).
- `TypeCorrect`, `InOrder`, `LossIsAccounted`, `OnlyOverwrittenSkipped`, from it.
- `Refinement`: `Spec => ImplementsFeed`. `WriteOk` is a `Deliver` (the invariant gives
  its guards), `Subscribe` a `Join`, the ends of a writer a `Leave`, `Send` a
  `Publish`, and everything else stutters.

`ControlProofs` proves, for every base and width of bytes, all limits, every rate
limit and every set of frames: `TypeCorrect`, `SettingsInRange`, `LimiterIsExact`,
`AgcAgrees`. The strengthening is `LimiterInv`: the limiter's `last_command` is the
time of the last frame let through (frames that are rejected leave it alone).
Range safety does not depend on the decoding of payloads, only on validation
coming before the device call on every path. `FramesStayIntact` rests on `FrameInv`:
what the socket holds and what the client has yet to send of a frame it has begun
are together a stream of whole frames, unless a read has given up inside one.
`Framed` says so with a set of borders, which needs no recursion; a read of a whole
frame takes one from the front, whatever pieces it arrived in.

`ServeSingleProofs` proves, for any number of signals and commands: `TypeCorrect`,
`ExitCancels`, `CancelHasCause`, `ReturnIsClean`, `MagicComesFirst`. `SingleInv` adds what
they need: a cancellation that is queued or under way has a signal or a failed
write behind it, or is the wake-up call after `read_async`, at which time the
device is not running any more (`CauseInv`, `DeviceInv`); no cancel thread before
its spawn (`SpawnInv`); what each join has established (`JoinInv`); the magic
packet is on the wire before the device is read (`MagicInv`).

`ServeMultiProofs` proves, for any masters, any finite set of slaves, every limit, with
and without a key: `TypeCorrect`, `OnlyOneCommands`, `CancelHasCause`, `ReturnIsClean`,
`LimitHolds`, `EarlyIqIsStale`, `SlaveGetsMagic`. `MultiInv` adds: a control thread that has not ended is
the one the main thread waits for (`JoinInv`), so that a new master is accepted only
when the last one's thread is gone; everything on the way to stop the device, from
the handler over the channel to the cancel thread and the end of the main loop, has
a signal behind it (`CauseInv`); the acceptor's `count` is the number of slaves that
ever got a writer thread (`LimitInv`), which also says why the limit is one on slaves
ever accepted; who has a writer thread is registered in `all_streams`, which the
shutdown at the end walks through (`StreamsInv`, `ReturnInv`). What the acceptor does
after that walk is bounded by the exit flag, which is set by then: it can finish one
slave and does not take another (`ShutInv`, `LateInv`), and that slave's writer, which looks
at the flag before it reads a buffer, sends it nothing, so that everyone who was
sent IQ data is shut down (`IqInv`). A slave's writer starts after the magic packet, and
if that could not be written its connection is dead (`SlaveInv`). With a key, nonces that
name a master exist only after its control thread and so after its magic packet
(`NonceInv`).

`HandshakeProofs` proves, for all lengths, any IQ data and commands and every set of
setups: `TypeCorrect`, `EndsAgree`, `NothingGarbled`, `BlockedForCause`, `LossIsBounded`. The bytes of IQ data
are counted by the cardinality of their positions, and every read and write keeps
the sum (`SumInv`). That the proxy reads at most one acknowledgement without a key
needs the magic packet to be the first thing under way (`MagicInv`). That commands in
clear are understood needs the stream to the upstream to be whole frames (`ClearInv`).
For a fresh keyed chain, `ChainInv` lists the phases the two ends can be in
together, with the bytes under way in both directions: before the nonce, in the
exchange, paired, *reopened* (the probe of another proxy was forwarded and answered, and
nothing more is said of what the upstream reads), unpaired, and *astray*: the upstream's read of the nonce timed out
just before the proxy sent its own, and the upstream takes the nonce for commands.
One of them may look like a probe and be acknowledged. The proxy, which waits for
a nonce, must not be satisfied by that acknowledgement, and this is why
`LengthsAssumption` has `CmdLen < NonceLen` (5 and 12 in the program). A writer thread
with a key sends nothing before there are nonces (`WriterInv`), so no IQ data fills the
place of a nonce either. `BlockedForCause` is the safety part of `CommandsConsumed`: while
the upstream has to store nonces and its writer thread runs, there were nonces from
before, a misread frame or a forwarded probe. `StoreInv` says why: without them the
control thread gets to the store once, and the writer waits for it.

`RecordingProofs` proves, for every base and width of fields, any number of bytes,
reads, times and flush threshold: `TypeCorrect`, `ReplaySendsRecorded`, `PassesAreComplete`,
`PacingIsRecorded`, `OnlyTornFilesEndLoops`. They need what the recursive definitions
compute, which is proved without the library's induction theorems: `LeastNat` derives
from the well-foundedness of inclusion between finite sets that a set of numbers
has a least element, `Induction` and `Recursion` follow for sets and functions instead of
operators, and `RoundTrip` shows that a field is read as it was written if its value
fits. The inductive invariant `LogInv` says that there is a log with a header and a
chunk for every read, placed without gaps, with times that do not decrease
(`Layout`); that the file is the log up to the last flush and the buffer its rest, and
after the end the file a part of the log that lacks nothing unless the recorder was
killed (`Written`); that the replay tool's position or the chunk it has in hand is the
one after what it has sent (`Aimed`); and that it has slept for the age of the last
chunk (`Slept`). A failed write to the disk ends what is promised, as in the
properties. `FieldAssumption` says that times fit a timestamp (584 years of
nanoseconds do) and reads a length (512 KiB do).

`ProxyProofs` proves, for any masters and any number of commands and signals,
`KeystreamInSync`, `ForwardedInOrder`, `MagicFirst` and `CleanReturn`. None is inductive.
The argument rests on `JoinInv`: a control thread that has not ended is the one the
main thread waits for, so at most one of them holds a command. `SyncInv` adds how far
the cipher may be ahead of the upstream while the upstream is there: by the
command that is being written, and by none otherwise; once the upstream is lost
they part, and that does no harm because nothing arrives any more. `OrderInv` says
that a command in hand is newer than all that arrived, `MagicInv` that whoever is
subscribed has been sent the magic packet, `StopInv` that the exit flag and the end of
the main loop have a signal behind them.

Invariants that are proved and that no run repeats: the type invariants of
`Broadcast`, `ServeSingle`, `Control` and `Proxy`, `DeliveredInOrder`,
`SkippedWereOverwritten`, `ExitMeansCancelling`, `IqAfterMagic`, `MagicFirst` and what
`BlockedForCause` states.

Assumptions: those named in the modules (`CapacityAssumption` and the like), which TLC
evaluates in every run. Only model-checked, because they are out of the prover's
reach: all liveness properties, which need fairness. All other properties of the
passing runs are proved. The inductive invariants were checked by TLC on the runs'
instances before they were proved, `LogInv` with the log computed from the state.

## 6. Not modelled

The bytes of ChaCha20: a library; what matters here is which nonce is used, and the
position in the keystream. Parsing of addresses and CIDR blocks: a library; both
outcomes of the whitelist are modelled. Arguments, key files, port binding, systemd:
sequential start-up. Panics and poisoned locks: on these paths only a failed
`try_clone` in the acceptor panics, with no lock held that the others use afterwards
but `all_streams`. A debug build of the replay tool would panic where the release
build wraps (`ReplayPace`). The branch of `write_header` for a writer that is not at its
start: the recorder never takes it. Loss of what the operating system had not yet
written when the machine goes down: the recorder never syncs.

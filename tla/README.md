# gobalprotect in TLA+

A GlobalProtect VPN client in Go: it logs in at a gateway, creates a TUN device
with its routes, opens a TLS tunnel, moves packets between the two, runs a local
DNS proxy that adds host routes for what it resolves, and takes everything down
again on a signal. This directory holds the specifications of its stateful
parts, the TLC configurations that check them, and proofs for TLAPS.

    tlc -workers 2 -config MCDataLoop.cfg MCDataLoop     # one run
    tlapm DataLoopProofs.tla                             # the proofs of one module

## 1. The system

| part | code | state | operations |
|---|---|---|---|
| command and signals | `connect.go:160-279` | signal channel (2), the command's context | the signal goroutine |
| outer loop | `run`, `connect.go:409-473` | `first`, `backoff` | call `runSession`, sleep, give up |
| session | `runSession`, `connect.go:479-585` | the stack of defers, the session's context | login, config, device, tunnel, DNS server, data loop, and the cleanups |
| authentication | `pkg/gpst/auth.go`, callbacks `connect.go:587-635` | OTP used or not, the login's `inputStr`, the session's authcookie | prelogin, login, challenge, cookie login, logout |
| gateway configuration | `pkg/gpst/config.go` | none | one request; refusals, merged DNS servers, defaults |
| tunnel connection | `tunnel.go:70-217` | `conn`, `closed` under `mu` | Connect, setConn, Close |
| data loop | `tunnel.go:224-393` | `tunOut` (64), `errCh` (3), `tunReadErr` (1), two contexts, the read deadline, statistics | five goroutines |
| packet codec | `pkg/gpst/packet.go` | the bytes of the packet under way | encode, read |
| TUN device | `pkg/tun/tun.go` | `addedRoutes` under `mu`, the kernel's table, resolved's settings of the link | New, AddDefaultRoute, AddRouteWithDomain, RemoveRoutes, RemoveDNS, Close |
| DNS proxy | `pkg/splitdns` | `server`, the cache | ListenAndServe, Shutdown, one goroutine per query |
| configuration | `connect.go:151-276`, `281-407` | the settings found so far, the shell of a command | profiles, `coalesce`, `runShellCmd`, prompts |

**How they interact.** The command calls `run`, which calls `runSession` again
and again. `runSession` acquires in this order the gateway's session, the
device, the connection and the DNS server, and releases them in the opposite
order by its defers. `RunDataLoop` reads and writes the device through two
callbacks. The DNS server's goroutine reports a failure by cancelling the
session's context, and its query handlers call back into the device
(`AddRouteWithDomain`). A signal cancels the command's context, from which all
the others are derived.

**What is hard.** Five goroutines end one another through contexts, channels and
`conn.Close`; each may fail at any time, and the first one to be heard decides
the result. Reads and writes of the connection do not look at the context.
HTTP requests and the read of `START_TUNNEL` know neither a context nor a
timeout. The reply to the tunnel request and the first packets share one byte
stream, which TLS cuts wherever it likes. Credentials come from five sources, some
of them are good for one login only, and the gateway's side of a session may live
on after its reply was lost. The device is shared between the session and the DNS handlers, the
routing table with the whole machine. `PROJECT.json` lists these hazards with
the lines where they bite and the properties that watch them.

**What makes each part correct.**
*Data loop*: nobody is stuck after it ends; its error is the one that ended it;
packets keep their order; nothing is lost but by a full queue or the end.
*Session*: whatever is held is released, in an order in which the logout does not
go through the tunnel; a signal ends the process.
*Outer loop*: the documented backoff; the cookie once; it reconnects when it can.
*Start*: `run` is called with credentials, and the documented source wins.
*Login*: one password or cookie, one code at most, each in its place; what is good
for one login is used for one; client and gateway agree on who is logged in.
*Byte stream*: packets arrive whole and in order; what is missed has a cause.
*DNS proxy*: everybody gets an answer, to his own question, and a route with it.
*Device*: what is tracked is installed and the other way round; the server stays
outside the tunnel; what the program did to the table is undone. The code keeps the
last two with the exceptions of section 3.

## 2. The modules

| module | models | abstract / composed |
|---|---|---|
| `Uplink` | what the sending direction promises: a bounded lossy FIFO | abstract specification |
| `DataLoop` | `RunDataLoop` and its goroutines | implements `Uplink` |
| `DataLoopProofs` | theorems about `DataLoop`, and that it implements `Uplink` | |
| `FrameChannel` | what the receiving direction promises: whole payloads, in order, without a gap once it is open | abstract specification |
| `PacketStream` | the reply of `Connect`, `EncodePacket`, `ReadPacket` and the loop around it, on bytes | implements `FrameChannel`; `DataLoop` takes its packets as units |
| `PacketStreamProofs` | theorems about `PacketStream`, and that it implements `FrameChannel` | |
| `SessionLife` | what a session is to the gateway, from login to logout | abstract specification of `Session` and of `Command` |
| `Session` | `runSession`, the signal goroutine, the DNS server's goroutine | takes the data loop as one phase whose ends are `DataLoop!LoopEnds` and `DataLoop!CanceledOnlyByCaller`; implements `SessionLife` |
| `SessionProofs` | theorems about `Session` | |
| `RunLoop` | `run` | takes `runSession` as a set of results, of which `Session!NeverReturnsNil` says which are real |
| `RunLoopProofs` | theorems about `RunLoop` | |
| `Startup` | the start of `connectCommand`: profile, shell commands, prompts | a part of `Command` |
| `Client` | `auth.go`, `config.go` and the input callbacks, as one session uses them | a part of `Command` |
| `Command` | the whole command | composes `Startup`, `RunLoop` and `Client`; implements `RunLoop` and, session after session, `SessionLife` |
| `CommandProofs` | theorems about `Command` | |
| `SplitDNS` | query handlers, cache with its TTLs, upstream servers | |
| `SplitDNSProofs` | theorems about `SplitDNS` | |
| `TunDevice` | the device and the routing table | |
| `TunDeviceProofs` | theorems about `TunDevice` | |
| `LoopTheorems` | least numbers, induction over a set, loops as recursive functions, the least of finitely many sets | used by the proofs |

Each `MC` module holds the values of the constants. Operators commented as a
*mutant* are faulty variants of the definition that follows them; nothing in the
specifications uses them, and putting one in the place of its original makes the
property violated that `PROJECT.json` names for it.

**DataLoop.** One action is one step of one goroutine that the others can see: a
channel operation, a call on the connection or the device. `main` is the select
of `runSession` and the way out; `reader`, `writer`, `keeper` are the three
goroutines that own a place in `errCh`; `tunReader` is the one that feeds
`tunOut`. `callerDone`, `loopDone`, `sessDone` are the three nested contexts. A
non-blocking select (`DropPacket`) is enabled only when no other case is. A
packet is a number; a frame is data, something `readLoop` skips, or garbage. The
read deadline may pass whenever a read is under way.

**PacketStream.** A cell is what the code reads or compares as a whole: a half of
`START_TUNNEL`, a field of the header, a byte of a payload. `avail` is what is
left of the TLS record in the client's hands: `ReadN(n)` returns that and never
more, `RecordArrives` chooses where the gateway cuts. `Missing` is what
`io.ReadFull` still waits for. The length keeps its width. `wire` is all the gateway
has sent and `read` how much of it the client has; the histories `sent`, `payloads` and
`bounds` say which frames that was, which of them carry something for the device, and
where each begins. What `FrameChannel` calls pending are the payloads from the next
frame on that the client has not begun (`NextFrame`).

**Session.** A phase of `main` is a blocking call. `Proceed` pushes a cleanup on
`defers`, `Fail` begins the unwinding, `Cleanup` pops one. The signal goroutine
is `sigG`, its channel the counter `sigCh` with its capacity of two; `dns`
distinguishes a server that was spawned, one whose `s.server` is set and one that
serves, because `Shutdown` behaves differently in each.

**Startup.** `stage` walks through the settings `connectCommand` needs, in its
order; `Needed` is the condition in front of each of them. A string is where it
comes from. A shell command has a process, `shell`, and perhaps a descendant,
`child`, that holds its output: `Output` returns when both are gone
(`CommandReturns`), while the timeout kills the first only (`ShellKilled`).

**Client.** `call` is the request that is under way. A reply is a record of what
the code tells apart: whether there is a script and what it leaves in
`respStatus`, whether there is a JNLP document and its arguments.
`ParseLoginOrChallenge` is the function of that name over such a record. A lost
reply to a login, or a lost logout, leaves the gateway with a session of which
nobody knows (`live = "left"`); every other end must not. `Session`, which sees a login as one
phase, says the same by `gateway = "abandoned"`.

**Command.** The steps of the three modules, each with what the others keep.
`EnterRun` hands over what `Startup` has found, `EndSession` is the return of
`runSession` on both sides. A signal may come from the moment on at which the
context exists.

**RunLoop.** `SessionErrors` is what `runSession` is taken to return. The run with
both results checks the loop for what it is written for, the one with errors only
for what users get.

**SplitDNS.** Every query has its own program counter; cache operations are
atomic (the library locks), everything between them interleaves. A question has a
name, a record type and a class, of which `CacheKey` takes the first two. An upstream
server fails or responds, and a response with the code SERVFAIL is a response like
any other: `forward` looks at the error of the exchange only. `heard` is the history
of what the servers said to a query. A message has
the TTLs of its records by section; `MinTTL`, `NegativeTTL` and `KeepFor` are the
code's way to a time from them, and entries expire at any time.

**TunDevice.** A prefix is the set of addresses it covers. The kernel's part
(replace by prefix and metric, longest prefix, routes that go with their link) is
modelled from the netlink requests of `tun.go`. Each request may be refused. A pushed
default route may be skipped or installed: the code compares two spellings of it only
(`tun.go:253`).

## 3. The runs

| run | question | bounds | states |
|---|---|---|---|
| `dataloop` | senders, result, refinement of `Uplink`, completeness of the receiving direction | queue 1, 2 packets, 2 frames | 4.2 M |
| `dataloop_live` | the loop and its goroutines end | 1, 1, 1 | 0.3 M |
| `stream` | causes of what is lost or garbled, refinement of `FrameChannel`, nothing is left incomplete | 3 frames of 0 to 2 cells, 2 bits of length, reply buffer of 6 | 177 k |
| `session` | resources, order of teardown, refinement of `SessionLife`, signals, DNS failure | 3 signals | 2.7 k |
| `command` | credentials over several sessions, order of a login, agreement with the gateway, backoff, cancellation, refinement of `SessionLife` | 7 sessions, 7 command lines, 4 files | 122 k |
| `splitdns` | the cache, its keys and its TTLs, who decides what a client is told, every query is answered | 3 queries, 4 questions with 3 keys, 1 address, 3 messages, cache of 2, 2 servers | 0.4 M |
| `tundevice` | tracking, why the server is inside the tunnel, resolved addresses inside, what is left behind | 4 addresses, 3 pushed routes, 4 tables | 54 k |

*Why the bounds are enough.* Two packets fill a queue of one and the writer's
hands, or are dropped; three senders compete for `errCh` in every run. Three
frames behind the reply are enough for a reply that takes a frame and a half and
another one behind; a payload
of two cells can be cut inside, and with two bits the longest one together with a
header does not fit the length field. Three signals overfill the channel of
two. Seven sessions reach the cap of the backoff (1, 2, 4, 8, 16, 30) and stay
there. The command lines and files between them put every setting in the flag, in
the file, in a command or in a prompt, and name a profile that exists, one that
does not, and none; the replies contain every script result with every kind of
argument list. Three queries over two cache entries have three keys, so that the third
store evicts, or two of them race for one key beside the entry of another, or all three
race; queries and keys are alike, so that there is no other case. Two of those that share
a key differ in the class. The messages of `splitdns` have TTLs in every section, a TTL of 0 at
the end, which keeps a response out of the cache, and a SERVFAIL of the server's own that
is kept for its SOA. A TTL of 0 with others behind it is in no run (a third kind of
cache entry is beyond five minutes); `SmallestTTLDecides` proves that case with all others. The
tables of the user have no default route, one with and one without a metric (what
the program replaces, and what it hides), and a local network inside a pushed
prefix; the gateway pushes a network, the server's host route and the default route.

Only `splitdns_routes` uses symmetry, of the queries; liveness and fixed tables rule it
out elsewhere.

**Runs that find a violation** show where the code does not do what its
documentation or a comment says:

| run | what is said | what happens |
|---|---|---|
| `session_force_quit` | README: a second signal exits at once | the signal goroutine sees the context it has just cancelled and returns (`connect.go:192`) |
| `session_dns_leak` | `connect.go:478`: everything is torn down | `Shutdown` before `s.server` is set stops nothing, the server starts afterwards (`dns.go:69`) |
| `runloop_reconnect` | README: reconnects when the tunnel dies | every end of a first session is an error, and `first && err != nil` returns (`connect.go:446`) |
| `splitdns_routes` | README: host routes for what is resolved | a concurrent cache hit is answered before the routes are there (`dns.go:121-128`) |
| `tundevice_server` | `tun.go:44`: excluded addresses go via the existing gateway | a pushed host route to the server, or one for a name that resolves to it, replaces the exclusion route (`tun.go:540`) |

**What passing properties have to except.** Where the code falls short of a
sentence of its documentation, the property states what is left, and the exception
is the finding:

* `SettingsInUse`: a single profile is used whatever `--profile` says
  (`connect.go:346-349`), against the order of README.md:194; and a number of the
  file counts only if its flag is given as 0, because the flags have defaults
  (`connect.go:275`).
* `CommandsEnd`: the timeout of 10 s does not end a command whose descendant keeps
  its output open (`connect.go:402`).
* `KeptForSmallestTTL`: a TTL of 0 is taken for "none yet", so that a response that
  must not be kept is (`dns.go:185`); and `negativeTTL` is asked only when there is
  no TTL at all, so that `Minttl` rarely counts (`dns.go:123`).
* `LossHasCause`, `FrameChannel!Open`: what comes in one record with the reply is
  missed, in whole or in part (`tunnel.go:127`).
* `ServerInsideHasCause`: the tunnel's own packets do enter it where a host route to the
  server has replaced the exclusion route (`tun.go:540`, run `tundevice_server`), and
  where there is no exclusion route: without a gateway, or when the kernel refuses, a
  warning is all there is (`tun.go:221-242`, `449-451`), and a pushed prefix or the default
  route takes the server in. The property says that there is no third way.
* `OnlyExclusionsLeft`: the exclusion routes are not in `addedRoutes` and outlive the
  device, although `RemoveRoutes` "removes all routes added by this device"
  (`tun.go:105`). A default route of the user with metric 0 is replaced by the one of
  `AddDefaultRoute` (`tun.go:467-471`) and never restored, and so is a route whose prefix
  was pushed or whose address a name resolved to.
* `FirstResponseDecides`: `forward` asks the next server only when an exchange fails. A
  SERVFAIL, or REFUSED, of the first server goes to the client, and into the cache if it
  has a TTL, with the other servers never asked (`dns.go:169-174`). No document says
  otherwise.
* `AnswersItsQuestion`: the class is not in the cache's key (`cache.go:33`), so that a
  query may be given the response to its name and type in another class.
* `ResolvedThroughTunnel`: an address a tracked prefix covers gets no host route
  (`tun.go:497-505`), even if a longer route of the user takes it elsewhere.

Three smaller facts came up on the way. The prompt for the password takes an empty
answer, so that `run` may be called without one (`connect.go:244-256`). The error of
the one-time password's callback (`connect.go:590`) cannot be reached: `SingleUseOnce`
holds. And a `totp_secret` of
the file beats an `--otp` of the command line (`connect.go:424-430`).

**Fairness.** Weak fairness for every goroutine step the Go runtime makes by
itself: a ready select case, a send with room, a return. In `DataLoop` a write
into a connection is fair only while the gateway is up, and its failure only once
this side has closed the connection; the read deadline only when the gateway has
left; nothing is assumed about the device, the ticker, the user or the gateway.
That `Device.Close` ends a blocked read of the device is an assumption about the
water library. In `Session` the gateway's answers are a separate conjunct
(`GatewayFairness`), because nothing in the code enforces them: `session` assumes
them, `session_force_quit` must not. `Command` is sequential: its own steps, its
timers and the gateway's answers are fair; prompts and the descendants of a shell
are not. In `PacketStream` what was sent arrives and the client reads; in
`SplitDNS` an exchange ends with an answer or the DNS client's timeout, and some handler
runs as long as there is one: less than what Go's scheduler does, and enough.

## 4. The proofs

`DataLoopProofs` proves for every capacity of `tunOut` and any number of packets
and frames, from the assumption `BoundsAssumption` alone:

* `TypeCorrect`: `TypeOK`, with the capacities of the channels. Inductive with
  `SendersHoldErrors`: a goroutine about to send has an error in its hands.
* `NoSenderBlocks`: `SendersNeverBlock`. It does not follow from itself: a full
  `errCh` is harmless only because a goroutine sends at most once. The invariant
  is `ErrChReserved`: what is in `errCh` and what may still be sent fit into it
  together. A send moves a place from one side of the sum to the other
  (`ReservedStep`); whoever wants to send still owns a place (`ReservedSuffices`).
* `OnlyCallerCancels`: `CanceledOnlyByCaller`. The strengthening
  `CancellationHasCause` says that a "canceled" in a goroutine's hands or in
  `errCh` was caused by a done context, and that while `main` is in its select
  only the caller's can be done.
* `UplinkOrdered`: `UplinkInOrder` is inductive with the types; every step moves
  the oldest packet of one place to the young end of the next.
* `NothingLostDown`: `DownlinkComplete`. It needs that no frame has a number beyond the
  last one given out (`FramesNumbered`); then a frame that is sent goes to the end of
  the set that is under way (`FrameSent`), one that is read is its first (`FrameRead`).
* `ImplementsUplink`: `UplinkSpec`. `Uplink` tells an empty hand from a full one by
  0, the code by where the goroutine stands; `HandsTell` says that the two agree
  and that the TUN goroutine holds the youngest packet. With it every step of the
  writer and of the TUN goroutine is a step of `Uplink` or a stutter, and all
  others leave the mapped state alone (`OthersIdle`).
* `StatsFollow`: `StatsFollowWire`, strengthened by `SentCounted`, which counts the
  packet in the writer's hands.

`SessionProofs`, for any number of signals (`SignalsAssumption`): the stack of
defers is a function of the phase, and of how far the unwinding has come
(`DefersByPhase`). Together with `HeldIsDeferred` it is inductive (`IInv`), one
lemma for each kind of step. `HeldAreDeferred` is a part of it; `AllTornDown`
follows because an empty stack holds nothing; `LogoutAfterTunnel` follows because
below a logout there is neither the device nor the connection (`PopFacts`).
`ResultsHaveCause` needs that the DNS server starts after everything that
could fail without it (`CancellationHasCause`); it justifies the constant of
`RunLoop` that stands for what users get. `ImplementsSessionLife` maps every step to
one of `SessionLife` or to none; only `Return` and `Exit` need the invariant, which
rules out that they leave an open session behind.

`RunLoopProofs`, for any number of sessions and any results (`RunAssumption`):
`WaitsOnSchedule` is about waits of the past and carried by `BackoffIsNext`, the
backoff is always the next wait; `CookieOnlyOnce` by `CookieUnused`, the first
session is the only one that starts with `first` set; `KeepsReconnecting` is
inductive itself.

`CommandProofs`, for any number of sessions, any command lines and files, and any
replies made of cookies and placeholders (`ClientAssumption`, `RunAssumption`,
`StartAssumption`: a file is a list of profiles):

* `ImplementsRunLoop`: `RunLoop!Spec`. With it `LoopInCommand` carries the theorems
  of `RunLoopProofs` over to the command.
* `ReconnectsAlone`: `SessionsNeedTotp` says that nobody gets past the first session
  without a secret for codes, wherever the loop stands.
* `SingleUse`: `OtpSpent` says that a login that has asked for the one-time password
  is past its challenge, and with `SessionsNeedTotp` that there is no other login.
* `GatewayMatches`, `LoginsInOrder`: `ClientInv`, the conjunction of who is logged in
  (`GatewayAgrees`), what a login has submitted by how far it has come
  (`CredentialsByCall`), and whose challenge is in hand (`ChallengeInHand`). That a
  login's reply is a cookie exactly when the gateway grants one is `ReplyFacts`.
* `CredentialsComplete`: a user name, or a cookie with a name and a value, when `run` is
  called (`NameBeforePassword`). It says nothing of a password, which may be empty.
* `CommandTypeCorrect`: `CommandTypeOK`. Inductive with `StartInv`: a shell runs only
  while what it prints is wanted, so that no command is skipped with its shell alive.
* `SettingsWin`: `SettingsInUse`, a part of `StartInv`; `LoadedProfile` says which profile
  the loop over the file's list returns.
* `DnsServersMerged`: `DnsServersOnce`. The merge of the two lists is a loop with the
  invariant `Merged`; `MergeStep` is one round of it, `MergeDNSMerges` all of them, for
  lists of any length.
* `SessionsImplementLife`: `SessionLife` from the guards of `Client` alone.

`TunDeviceProofs`, for any finite set of addresses, any pushed routes that are nested or
disjoint, as prefixes are, and any tables of the user that have one route per prefix and
metric and none into the device (`TunAssumption`): `Inv` is inductive. Each action is
first reduced to what it does to the table (`TableInOrder`: nothing, one or two added
routes, deletions, the end of the link), from which `TableStep` follows once for all.

* `TypeCorrect`, `TrackingCorrect`: `TypeOK` and `TrackedIffInstalled`; the second
  needs that nothing is tracked while exclusion routes are added
  (`InstalledWhileLinked`).
* `ServerInsideForCause`: `ServerInsideHasCause`. Only a host route through the device takes
  the place of an exclusion route (`ExclusionsStay`), a host route with metric 0 decides
  where its address goes (`HostRouteDecides`), and while the device is up every tracked
  host route was pushed or promised (`TrackedAsAsked`). Where the exclusion route is
  missing, the route by which packets enter (`EntersByRoute`) is tracked or the default.
* `LeavesOnlyExclusions`: `NewRoutes` and `LostRoutes` say in every phase which routes
  are new and which are lost; the routes through the device go with the link.
* `PromisesKept`: `ResolvedThroughTunnel`. While the device is up a tracked route covers
  every address that was promised (`TrackedAsAsked`), whether its own or one it relied
  on; of the routes of the device that cover an address the longest exists
  (`SmallestSet`), and decides unless a route of the user is longer (`LongestDecides`).

`SplitDNSProofs`, for any number of queries, questions and servers and any capacity of
the cache (`DnsAssumption`). The invariant of the cache, `CacheOK`, is proved of sequences
first (`RemoveOK`, `AppendOK`, `TailOK`), then of the operations of the cache.

* `TypeCorrect`, `CacheStaysSound`: `TypeOK` and `CacheSound`.
* `OwnQuestionAnswered`: `AnswersItsQuestion`. It needs that each entry is filed under the
  key of the question it answers (`Filed`) and that what a handler is about to store answers its
  own question (`AnswerInHand`).
* `FirstServerDecides`: `FirstResponseDecides`. The servers before the one in turn have failed
  (`FailedInTurn`), so that a response ends a history of failures. `Told` is the set of
  what the servers have told the queries so far, by name and type; it only grows
  (`ToldGrows`), and every entry of the cache is in it.
* `SmallestTTLDecides`: `KeptForSmallestTTL`. What a handler is about to store may be
  kept (`MayBeKept`), and what is in the cache was (`Filed`). The loop of `minTTL` is a
  recursive function; `Least` is its loop invariant, `SmallestIsLeast` shows that the
  function exists (`LoopRuns`) and keeps it.

`PacketStreamProofs`, for any number of frames, payloads of any length that the length
field can hold, any size of the buffer for the reply and any way to cut the stream
(`StreamAssumption`; that `2 ^ Width` is a number is assumed, because the provers know
no powers):

* `Invariant`: the inductive invariant has two halves. `WireInv` is about the gateway:
  the cells behind the reply are the frames one after another, with `bounds` between
  them; its consequence `MagicBeginsFrame` says that a cell that looks like the magic
  begins a frame. `ClientInv` is about the client: what is in `buf` was on the wire at
  `PacketStart`, is not more than one packet, and `PacketStart` is a bound whose
  payloads before it are those received (`InStep`); or the Read of the reply stopped
  within a frame, and the client has not moved from there (`Astray`). From both follows
  that a header with the right magic is that of the next frame (`HeaderRead`), so that
  the packet that is read is this frame (`PacketClient`).
* `StreamTypeCorrect`, `LossIsExplained`: `TypeOK` and `LossHasCause`. A Read that
  returned the reply alone stopped at the first bound, so nothing is missed; a packet
  without the magic is a frame without it, or the client is astray.
* `ImplementsChannel`: `ChannelSpec`. `NextFrame` moves only when a packet is complete
  (`PendingPacket`) and when the reply is read (`PendingReply`); a frame that is sent
  is appended to what is pending (`PendingSend`).

`LoopTheorems` makes induction available to the others. The library's induction
theorems are about an operator, which the provers cannot instantiate; here a *set* of
numbers that has 0 and is closed under the successor is `Nat` (`SetInduction`, from the
library's well-foundedness of `<`). From it follows that a loop with a given step exists
as a recursive function (`LoopRuns`), and that of finitely many nonempty sets, nested or
disjoint, that have an element in common there is a smallest (`SmallestSet`).

`UplinkInOrder`, `StatsFollowWire`, `HeldIsDeferred`, `NeverGivesUpLater` and
`ReadyHasCredentials` are theorems without a run: the first is also a consequence of
the refinement, the others are steps to what the runs check.

Every invariant and every refinement that a run checks is a theorem. Only
model-checked are the liveness properties (`LoopEnds`, `GoroutinesExit`, `StreamDrains`,
`SignalEndsProcess`, `DnsFailureEndsSession`, `CancelEndsLoop`, `CommandsEnd`,
`EveryQueryAnswered`): they need fairness and `ENABLED`, which is out of the prover's
reach.

## 5. Not modelled

* **`DomainMatcher`** (`dns.go:215`): exported, but nothing calls it.
* **TOTP**: the arithmetic of a library, and the clock; codes are not told apart, so
  that a code sent twice within its 30 s is not seen.
* **`Tunnel.Read`, `Write`, `SendKeepalive`**: nothing calls them.
* **`parseDNSServer` and the D-Bus encoding** of the link's DNS settings: `TunDevice`
  knows whether they are set.
* **Boolean switches, defaults of the gateway's configuration** (MTU, netmask, URL):
  no property depends on them.
* **Printing, logging, build information, the entry points, XML and form encoding, the
  JavaScript engine**: no state, or a library; what the code tells apart of their
  results is in `Client!LoginBodies`.
* Address families are not told apart in `TunDevice`; the statistics ticker and
  the byte counters of the tunnel are left out.

## 6. Plan

1. Done: `DataLoop` with `Uplink`, `Session`, `RunLoop` with their runs and proofs;
   `SplitDNS`, `TunDevice` with their runs.
2. Done: `Startup`, `Client` and `Command` with their proofs; `PacketStream` with
   `FrameChannel`; the TTLs of `SplitDNS`; `SessionLife` and its two implementations.
   `TunDeviceProofs`, `SplitDNSProofs`.
3. Done: the proofs of every invariant and refinement the runs check; `LoopTheorems`
   for those that go over a loop, `PacketStreamProofs`.
4. `Session` composed with `DataLoop`, so that the end of the data loop is no phase of
   its own; `TunDevice` called by the handlers of `SplitDNS`.

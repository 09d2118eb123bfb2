# A verification project for SimpleRank

SimpleRank is a leaderboard service in Go: an HTTP API and a WebSocket endpoint
in front of Redis (sorted sets, a stream, a cache), PostgreSQL (leaderboard
metadata) and ClickHouse (score history).  This directory holds TLA+ models of
the parts whose correctness depends on the order in which goroutines, requests
and services act, TLC runs that check them on small instances, and proofs,
checked by TLAPS, that hold for instances of any size.

Paths below are relative to the repository.

## 1. Inventory

### Components

| Component | State it keeps | Operations | Modelled in |
|---|---|---|---|
| WebSocket hub, `presentation/socket` | three maps of clients, the register, unregister and broadcast channels; per connection a subscription set and a send channel | `Run`, `readPump`, `writePump`, `handleMessage`, `Broadcast*`, `OnStop`, the ping and read deadlines | `Hub`, `Heartbeat` |
| Score submission, `internal/service/leaderboard.go` | none of its own; the sorted set, the stream | `UpdateEntryScore`, `publishEvent` | `ScoreUpdate`, `SimpleRank` |
| Stream subscriber, `presentation/rstream`, `pkg/cache` (`Publish`, `EnsureGroup`, `Subscribe`), `HistorySvc.Record` | the Redis consumer group (position, pending list), the ClickHouse table | start, read, handle, acknowledge | `ScoreUpdate` |
| Leaderboard metadata, `internal/service/leaderboard.go`, `internal/repository` | the PostgreSQL row, its copy in Redis (TTL) | create, update, detail, cached lookup | `Leaderboards` |
| Sorted-set operations, `pkg/cache` | one Redis sorted set per leaderboard | `AddScore`, `RemoveMember`, `GetTopN`, `GetRank`, `GetAroundMember` | `Ranking` |
| Key-value operations, `pkg/cache` | keys with a TTL | `Set`, `Get`, `Delete`, `Clear`, `ClearWithPrefix` | `Leaderboards` in part |
| Repositories, `internal/repository` | tables | generic CRUD, pagination | `Leaderboards`, `ScoreUpdate` in part |
| HTTP server and handlers, `presentation/http` | none | bind a request, call a service | the first step of each operation |
| Lifecycle, `cmd/main.go` | the fx hooks and their contexts | start, stop | `ScoreUpdate`, `Hub`, `SimpleRank` in part |
| Configuration, errors, database clients, logger | none that changes | | not modelled |

### How they interact

A submitted score (`POST`) is one HTTP goroutine: it looks up the metadata (Redis,
then PostgreSQL, then a fill of Redis), runs `ZADD`, starts two goroutines and
answers.  One goroutine appends the event to the Redis stream, the other hands it to
the hub's broadcast channel.  The subscriber's goroutine reads the stream one entry
at a time, inserts a row in ClickHouse and acknowledges, whatever the insert did.
The hub's goroutine fans a broadcast out to the send channels of its clients; each
connection has a goroutine that reads frames and one that writes them.  None of
the goroutines is waited for when the process stops.

### What is hard, and what makes each component correct

* **Hub.** Three parties touch a client's channel: the hub sends and closes, the
  read goroutine sends confirmations, the write goroutine receives.  The maps, the
  client's own subscription set and the channel must stay consistent; nobody may
  be skipped, served out of order or served what is not addressed to it; the hub must
  never block on one client and must never panic.  Its deadlines race the pongs that
  renew them: a peer that answers must be kept, one that does not must go.
* **Score path.** Every step can fail or be the last before a crash, and a lost reply
  is retried.  Nothing may be announced that was not applied; a row may not be
  recorded twice for one stream entry; the consumer must outlive every failure; every
  accepted score should get a row; whoever watches must not see an effect before its
  cause, although every event is broadcast by a goroutine of its own.
* **Metadata.** Lookups, fills, expiry and updates interleave.  A copy must be a row
  the table had, an update must not undo another, and a stale copy must go away.
* **Sorted set.** Two of the reads are two commands.  What they return must be related
  to contents the set had during the call; positions at the ends must be right.

`PROJECT.json` lists the hazards one by one, at their lines, with the properties that
catch them.

## 2. Modules

| Module | Role |
|---|---|
| `Multicast` | abstract specification: what the hub promises its callers and peers |
| `Hub` | `presentation/socket/socket.go`, one action per step between two points where another goroutine can interfere |
| `HubProps` | its properties, and `Contract == INSTANCE Multicast WITH ...` |
| `Heartbeat`, `HeartbeatProps` | the deadlines of one connection: `pongWait`, `pingPeriod`, `writeWait` |
| `ScoreUpdate`, `ScoreUpdateProps` | a score from the request to the history table and to the hub |
| `SimpleRank`, `SimpleRankProps` | the service: `ScoreUpdate` composed with the peers that watch, the hub being its contract `Multicast` |
| `Leaderboards`, `LeaderboardsProps` | the metadata row and its cached copy |
| `Ranking`, `RankingProps` | the sorted set and the operations on it |
| `MCHub`, `MCHeartbeat`, `MCScoreUpdate`, `MCSimpleRank`, `MCLeaderboards`, `MCRanking` | instances for TLC |
| `HubProofs`, `HubRefinement`, `HubDelivery`, `HeartbeatProofs`, `ScoreUpdateProofs`, `SimpleRankProofs`, `LeaderboardsProofs`, `RankingProofs` | theorems and proofs |

Some operators differ from the code on purpose (`EvictSkipping`, `GetRankFromZero`,
`UpdateWholeModel`, ...).  They are plausible mistakes in the definition that follows
them, are not part of any specification, and exist to show that each property fails
when the code is wrong in that way.

### Hub

* *State.* `hub` is where `Run` is; `fan` and `todo` are the message of the current
  fan-out and the targets left.  `clients`, `allClients`, `userClients` are the maps
  (a key without clients and a missing key are the same set `{}`).  `broadcast` is the
  buffered channel, `callers` the goroutines blocked on it.  Per client: `conn`,
  `reader` and `writer` (where the two goroutines are), `request` (the frame being
  handled), `subscriptions`, `send`, `sendClosed`.  `asked`, `accepted`, `received` are
  history variables, the state of `Multicast`; `gaveUp`, another, holds the topics a client
  unsubscribed from.
* *Atomicity.* A branch of `select` that edits maps is one action because it holds
  `h.mu`; the fan-out is one action per target, as the pumps do not take the lock.
  `register` and `unregister` are unbuffered, so taking them is a joint step of the
  reader and the hub.
* *Failures.* Reads, writes and pings may fail at any time, which covers deadlines
  and peers that leave.  Sending on or closing a closed channel panics: in `Run`
  nobody recovers and the process ends (`hub = "panicked"`); in `readPump` the deferred
  function still runs and the HTTP server's Recover middleware takes the panic.
* *Abstraction.* Messages are model values, each broadcast at most once, so that
  duplicates are visible; frames that change nothing (pong, unknown types, the empty
  topic) are left out.  `Receive` may return a frame after the connection was closed, since
  the library reads through a buffer.

### Heartbeat

* *State.* One connection: where `readPump` and `writePump` are, the time left to the read
  deadline, the write deadline and the next tick, the tick waiting in the ticker's channel
  (at most one: a ticker drops ticks), and the pongs not yet handled: at most the one that
  answers the ping while the peer is responsive, and up to `MaxPongs` when it fails, since a
  peer may send pongs unasked.
* *Buffering.* The library's `Receive` reads through a buffer, so frames that arrived are
  handled, in the model, also when the deadline has passed or the connection is closed, and
  a buffered pong renews even a deadline that has passed.  `ReadError` is what `Receive` returns
  when the buffer is empty.
* *Time.* `Tick` lets one unit pass and takes the others' steps as instantaneous.  A
  deadline that has passed is noticed before time goes on.
* *Environment.* A peer is responsive, mute (it may go on sending and reading but answers
  no ping) or gone.  Three constants bound what "responsive" means: how long a due ping
  waits behind other frames, how long the peer takes a frame, and how long until
  `readPump` handles its pong.  `SlackAssumption` says that together they fit between
  `pingPeriod` and `pongWait`.  A mute or absent peer is not bound by anything.
* *Abstraction.* The maps and queues are those of `Hub`: here a frame is there to write or
  not, at any moment, and the hub takes a registration after any time.

### ScoreUpdate

* *State.* `process`, `starts`, `startCtx`; `request`, `board`, `applied`; the two
  kinds of goroutine (`publishing`, `broadcasting`); the stream, the consumer group
  (`groupAt`, `lastDelivered`, `pending`), the consumer (`consumer`, `current`) and the
  rows of `history` as positions in the stream; `unrecorded` remembers the positions whose
  handler ended without a row, and which the code merely logs.
* *Failures.* `Faults` selects what may go wrong: `crash` (also a stop: nothing is
  waited for), `score`, `publish`, `reply` (a lost reply: the client library repeats
  the XADD; an XREADGROUP has delivered), `record`, `ack`.  Runs without faults show what
  goes wrong by scheduling alone.
* *Start.* The hooks run in the order http, rstream, socket, and the first only starts
  a goroutine: hence the state `http`, where requests are served and no group need
  exist.  `StartTimeout` is the 15 seconds of fx.

### SimpleRank

`ScoreUpdate` and its peers.  The hub is not repeated: `Socket` instantiates `Multicast`, the
contract that `Hub` is proved to implement, with the announced scores as the accepted
broadcasts of one topic.  A step of the service is a step of `ScoreUpdate` that leaves the
peers alone, a subscription (`Multicast`'s `Ask`) or a delivery (`Deliver`) of something the
running process announced: `base` is where a process begins, since the hub's queues are
gone with the previous one, and `life` is the process a connection belongs to.  `seen`
remembers what had been shown, to anyone, when a score came in.  A stop needs no state of
its own: the stop hooks cancel the hub, do nothing for the subscriber and shut the HTTP
server down within five seconds, but wait for none of the goroutines, so what they may
have done when the process ends is what they may have done at a crash.

### Leaderboards

The table, its history `versions`, the cached copy, and per request a program counter
through `getCacheLeaderboard` and the two operations behind it.  An error of Redis
counts as a miss, an error of the database as a missing row: that is what the code
does.  Writes whose outcome is unknown may or may not take effect.

### Ranking

The sorted set as a function from members to scores or `None`, `past` (every content it
had), and per call a program counter.  `ZRevRank` and `ZRevRange` model Redis (not part
of this repository): order by score, ties by the member's name, both descending; negative
indices count from the end; a range is clipped.  The properties are stated without
`ZRevRange`.

## 3. Runs

Times are for two workers.  "Violation" runs check a statement of a document, a comment
or a test that the code does not meet; `PROJECT.json` quotes each under "findings".

| Run | Instance | States | Shows |
|---|---|---|---|
| `hub_maps` | 2 connections (one anonymous), 1 topic, 1 user, 1 payload, channels of 1 | 4.8 M, 2 min | `TypeOK`, `MapsAgree`, `SubscriptionsRegistered`, `UnregisteredIsGone`, `PanicHasTwoCauses` |
| `hub_order` | 1 connection, 2 payloads, channels of 2 | 580 k, 15 s | `FanoutReachesAll`, `NoGaps`; `Hub` implements `Multicast` |
| `hub_live` | 1 connection, 2 payloads, channels of 1, fair | 270 k, 3 min | `ClosedConnectionEnds`, `BroadcastIsAccepted` |
| `beat` | `pongWait` 31, `writeWait` 5 units of 1.9 s, delays of 3 units in all, `MaxPongs` 2, fair | 730 k, 80 s | `TypeOK`, `ResponsivePeerIsKept`, `PatienceRunsOut`, `UnresponsivePeerIsDropped` |
| `score` | 2 scores for one entry, 2 starts, every fault, fair | 430 k, 1 min | `TypeOK`, `HistoryFollowsStream`, `DeliveredIsAccounted`, `PublishedWasApplied`, `StreamDrains` |
| `service` | 2 scores, 2 connections, 2 starts, stops and failing ZADDs, fair | 240 k, 20 s | `CausalOrder`, `PublishedIsHandled`; the service respects `Multicast` |
| `board` | 1 leaderboard of 2 columns, 2 requests, fair | 54 k, 6 s | `TypeOK`, `CopiesAreRows`, `NoLostUpdate`, `StaleCopiesGo` |
| `rank_reads` | 3 members, 2 scores, 1 call, 4 writes | 810 k, 20 s | `TypeOK`, `RankWasTrue`, `WindowIsAroundRank`, `TopIsBest` |
| `hub_evict` | 1 connection, 2 payloads | violation | evicting one slow client panics the hub |
| `hub_active` | 2 connections | violation | a client stays in the map of a topic it unsubscribed from |
| `score_tracked` | no faults | violation | a score published before the group exists never gets a row |
| `score_recorded` | no faults | violation | an event handled after the start timeout is acknowledged without a row |

### Other divergences seen while modelling

No run is spent on these; the models contain the behaviour.

* After the "unsubscribed" confirmation (`socket.go:382`) a client goes on receiving the
  topic's broadcasts, since the topic's map keeps it (`socket.go:375`), although
  `BroadcastToTopic` promises "all clients subscribed to a specific topic" (`socket.go:210`).
  `hub_active` shows its cause; `NoGaps` speaks only of topics a client did not give up, so
  it holds of this code and of a repaired one.
* An entry that was delivered but not acknowledged, because the process ended, the reply was
  lost or the XACK failed, stays in the group's pending list: `Subscribe` asks for new entries only
  (`cache.go:253`) and nothing claims pending ones, although `README.md:61` and `:76` say that
  scores are recorded.  `DeliveredIsAccounted` is what does hold: such an entry is still pending.
* `GetConnectedClients` counts clients that unsubscribed, `GetTotalConnections` misses those
  that never subscribed (`socket.go:273`, `:280`).  Nothing calls either.
* `OnStop` closes only the connections some topic map holds (`socket.go:454`).
* Announcements of two scores of one entry submitted at the same time can overtake each
  other (`leaderboard.go:202`): peers then keep showing a score that is not on the board.
  `CausalOrder` is what does hold.
* `UpdateLeaderboard` leaves the cached copy (`leaderboard.go:149`): a read that begins after an
  update was answered can return the row from before it, until the TTL ends.  `StaleCopiesGo`
  is what does hold.
* `GetTopN(0)` asks Redis for positions 0 to -1, which is the whole board (`cache.go:124`); the
  test at `cache_test.go:676` expects no entries.
* `writeWait` is longer than the slack between `pingPeriod` and `pongWait`: the condition of
  the comment at `socket.go:22` does not keep a peer that uses up its `writeWait`.
* During a stop the hub goes first and the HTTP server last (`main.go:44`), so requests are
  still answered whose events nobody receives.
* A port that is taken ends the process from a goroutine, after the start hooks have
  succeeded (`server.go:97`).
* `c.Bind` of echo ignores the `binding` tags of the DTOs, which are gin's: nothing is
  validated.
* `GetRank` can pair a rank and a score the member never had together, and
  `GetAroundMember` can return a window without its member (`cache.go:140`, `:162`), when a
  write falls between their two commands.
* `IsAscending` and `ExpiredAt` of a leaderboard are stored and never consulted.

### Bounds, and why they are enough

* *Hub.* A channel of one slot is full after one message and of two keeps an order; the
  code's 256 adds nothing but longer waits.  Two connections make the maps disagree about
  one of them while the other keeps a map non-empty; one anonymous and one with a user id
  cover both registration paths.  Nothing else relates more than two connections.  A
  connection is opened once and a payload broadcast once, so the state space is finite
  although peers subscribe for ever.
* *Heartbeat.* The units keep the code's proportions (60 s, 52 s for the 54 s of `pingPeriod`,
  which is rounded down, 10 s); the delays sum up to one unit less than the slack, the largest
  that `SlackAssumption` admits.  Two pongs are the least of which one waits while another renews the
  deadline; a peer that fails sends none afterwards.
* *SimpleRank.* Two scores and two connections are the least in which one peer causes what
  another sees; two starts give events of a process that is gone.
* *ScoreUpdate.* Two scores for one entry are the least that can overtake each other;
  `MaxStarts = 2` gives a life before and after a crash.  Lost replies make up to four
  stream entries.
* *Leaderboards.* Two requests and two columns are the least in which an update can undo
  another, or a fill can undo it.  `CreateLeaderboard` runs once per id.
* *Ranking.* Three members have two ways to tie and a middle; `MaxWrites = 4` fills the
  board and moves a member during the call.  Calls do not affect one another, so one is
  enough.

Deadlock is not checked: every instance is a finite amount of work, after which the
system rightly stops, and a panic or a stop ends it too.

### Fairness

* *Hub.* Weak fairness for a goroutine's own steps: the scheduler runs what can run.
  Strong fairness for what `select` picks at random among ready cases and for senders
  queued on a channel, which Go serves in order; steps of one goroutine of which only one is
  possible at a time share a condition.  What is buffered when a connection closes is
  finite, so `readPump` meets the error behind it (strong fairness, as it may handle a frame
  first).  A write has a deadline and a failing
  one ends `writePump`, so `writePump` leaves every frame behind.  Nothing makes a peer
  send or leave or a service broadcast.
* *ScoreUpdate.* The consumer's and the publishing goroutines are scheduled and the calls
  they make return.  The 15 seconds of fx end.  No fairness for submissions or starts.
* *Heartbeat.* Time passes, a goroutine that can run does, and the hub takes what `readPump`
  hands it, which `hub_live` shows.  The frames buffered when the deadline passes or the
  connection closes are finite, so `readPump` meets the error behind them.  Nothing makes a peer
  send, read or answer.
* *SimpleRank.* That of `ScoreUpdate`; nothing makes a peer connect or receive.
* *Leaderboards.* A request goes on to its end, and a key does not outlive its TTL.

## 4. Proofs

Every theorem holds for all values of the constants allowed by the `ASSUME` of its module:
any numbers of connections, topics, users and calls, any capacities.

* `HubProofs`: `TypeOK`, `MapsAgree`, `SubscriptionsRegistered`, `UnregisteredIsGone`,
  `PanicHasTwoCauses`, `FanoutReachesAll`.  The first two are inductive on top of the
  types, but for the case of connections not yet opened (`NotOpened`: they are in no map
  and have no subscriptions).  `SubscriptionsRegistered` and `UnregisteredIsGone` rest on
  each other's facts in this order.  `PanicHasTwoCauses` needs that a fan-out's remaining
  targets are still in the map it iterates over (`FanoutWithin`): the map is edited only by
  the fan-out itself, since the hub is the only writer.
* `HubRefinement`: `Implements`, that is, `Spec` implies the specification of `Multicast`.  The
  invariant `OrderInv` says where an accepted broadcast can be: the hub's channel is a suffix of
  `accepted`, the message of the current fan-out is the one before it, what a client has
  received and then has queued are dispatched broadcasts at increasing indices, all addressed
  to it, and every client in a topic's map has asked for the topic.  A write of an event is
  then a `Deliver`, the acceptance of a broadcast an `Accept`, a subscription an `Ask`, and
  every other step a stutter.
* `HubDelivery`: `NoGaps`.  `Multicast` lets a peer miss anything, as the hub evicts whoever is
  slow; what the hub adds is that nobody who stays subscribed misses one broadcast and gets a later
  one it would have had together with it (a topic the client gave up, by `gaveUp`, counts for
  nothing; broadcasts to everyone need no topic and are compared for clients that gave none up).  The invariant `DeliveryInv` says that a client that was given a
  broadcast and whose channel is open is still in the maps of all broadcasts that follow it
  (`StaysTargeted`: unsubscribing edits the client's own set and not the maps, and leaving them
  goes with closing the channel), so each later fan-out begins with the client among its
  targets, and that a fan-out is over only when it has no target left (`NoTargetsLeft`).  A
  target leaves the fan-out with the message in its channel, or evicted.
* `HeartbeatProofs`: `TypeOK`, `ResponsivePeerIsKept`, for all durations under
  `SlackAssumption`, and the action property `PatienceRunsOut`, for all durations.  The invariant
  of the first follows the round of a ping: between two rounds the read deadline was renewed after
  the last tick; during one, the time since the tick is bounded by the delays met so far.  The
  second is a variant: what is left of the deadline plus one `pongWait` per pong not handled.
  Time takes from it while `readPump` waits, a pong that is handled takes one `pongWait` from it and
  gives back at most one, and nothing else touches it once the peer answers no more.
* `ScoreUpdateProofs`: `TypeOK`, `HistoryFollowsStream`, `DeliveredIsAccounted`,
  `PublishedWasApplied`.  The history is increasing because the entry in the
  consumer's hands is the last delivered one and every row is at or below it, strictly
  below while the handler has not run.  An event the group was given is pending until its
  handler has run and it is acknowledged, so at an acknowledgement it is recorded or known to
  have failed (`Handled`), and neither is ever forgotten.  A published event without a row is
  therefore one that waits its turn, is pending, was acknowledged after a
  failed insert (`score_recorded`) or is behind the group's start (`score_tracked`).
* `SimpleRankProofs`: every step of the service is a step of `ScoreUpdate` or a stutter
  (`SystemImplementsScoreUpdate`), so what is proved there holds here;
  `SocketContract`, which discharges the assumption under which `Hub` was studied, that no
  payload is broadcast twice; and `CausalOrder`.  The last rests on three facts: a score is
  announced at most once and after it was submitted (`AnnouncedOnce`), what was seen before a
  score came in has a smaller number among the announced (`SeenFirst`), and peers receive in
  the order of the numbers (`ShownInOrder`).
* `LeaderboardsProofs`: `TypeOK`, `CopiesAreRows`, `NoLostUpdate`.  A request's copy is a row
  the table had, and versions are never forgotten; the value of a column is always the
  last one written to it, by whichever request.
* `RankingProofs`: `TypeOK`, `RankWasTrue`, `TopIsBest`, `WindowIsAroundRank`.  The last two rest on
  a lemma, `RanksAreAnOrder`: counting the members ahead numbers the board 0 to size - 1 without
  gaps or ties (ranks are an injection between finite sets of the same size).
  A call between its commands holds a rank its member had during the call (`RankSeen`);
  `past` only grows, so what an answer was true of stays there.

Every safety property of the passing runs is proved.  Only model-checked are the liveness
properties, since TLAPS handles neither fairness nor ENABLED here: `ClosedConnectionEnds`,
`BroadcastIsAccepted`, `UnresponsivePeerIsDropped`, `StreamDrains`, `PublishedIsHandled`,
`StaleCopiesGo`.

## 5. Not modelled

* Byte formats: JSON frames, gob events, cache values.  A payload is a model value.
* HTTP routing and binding, the status mapping of errors, configuration, logging, the
  opening of databases: sequential, or pure I/O.  The start hooks' order and timeout are in
  `ScoreUpdate`; failing constructors only end the process before it starts.
* Operations nobody calls outside the tests: `Delete`, `Clear`, `ClearWithPrefix` of the cache,
  the generic methods of the PostgreSQL repository beyond `FindOneById`, `Create` and
  `Update`, pagination and aggregation of the ClickHouse repository (`HistoryRepository.GetList`
  is a stub that returns nothing).
* `GetListLeaderboards`: one read of the table, without state.
* A crash of Redis or of the databases with loss of data: their durability is a matter of
  their configuration.  A consumer group that is lost with it is never created again while
  the process runs (`cache.go:246`).

## 6. Order of the work

`Hub` and `Multicast` first, as the only component with shared memory and several goroutines
per client; then `ScoreUpdate`, `Leaderboards` and `Ranking`, each with its runs and safety
theorems; then the refinement of `Multicast`, `Heartbeat`, and `SimpleRank` on top of the
contract and `ScoreUpdate`.

What would come next is tied to callers the code does not have yet: `HistorySvc.List` and its
pagination while rows are recorded, and invalidation of cached metadata with
`ClearWithPrefix`.

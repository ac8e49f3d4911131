# timerapi in TLA+

This directory holds the specification of timerapi, the backend of a timer
application: TLA+ modules translated from the Go code, TLC configurations that
check them on small instances, and proofs that TLAPS checks for every instance.

## The system

A timer belongs to its *creator* and has *subscribers*. A DATE timer ends once
and is gone; a COUNTDOWN timer can be stopped, started and reset, and when it
ends it is paused at its full duration. The parts, all under `src/`:

| part | state | operations | correct when |
|---|---|---|---|
| timer requests, `internal/domain/usecase/timerusecase` | none of its own | Create, Delete, Update, Subscribe, Unsubscribe, queries | database, cache and timer service agree after every request, also one that failed half way |
| countdown requests, `internal/domain/usecase/countdowntimerusecase` | none | Stop, Start, Reset | the same, and exactly the running timers are going to fire |
| saga, `pkg/saga` | compensations of one request | Register, OK, Rollback | a failed request is undone, last step first |
| timer storage, `internal/database/postgres/timerstorage` | tables timers, countdown_timers, timer_subcribers | insert, soft delete, updates of end, settings and pause, selects | duration, end and pause time fit together |
| subscriber cache, `internal/database/redis/subscriberstorage` | one key per timer: its set of users | Subscribe, Unsubscribe, DeleteTimer, TimerSubscribers | the set is the one of the database, and is gone when the timer is |
| timer service client, `internal/timerservice/grpc.go` | one tick stream | Add, AddMany, Start, Stop, Remove, Update, TimerTick | every tick reaches the notification stream |
| in-process ticker, `internal/timerservice/timerticker` | two indexes of the timers, subscribers | AddTimer, AddManyTimers, RemoveTimer, Start, Close, streams | every registered timer fires once, at its second |
| notification stream, `internal/domain/datastream/timernotificationstream` | online users' streams, service streams, a queue | Start, Send, timerExpired, timerDelete, NewUserStream, NewStream, Close | every subscriber is told once, online or later; the expired timer is cleared |
| event stream, `internal/domain/datastream/timereventstream` | streams, and per timer its streams | NewStream, Subscribe, Unsubscribe, Send, Close | a subscribed stream gets every event, in order; nobody blocks for ever |
| websocket, `internal/transport/ws/timersocket` | one event stream and one user stream per connection | the loop, the goroutine that reads, the close handler | both streams are closed with the connection, no goroutine is left, one writes at a time |
| notification storage and use case | unread notifications | insert, read, delete | one per user and timer |
| start-up, `internal/utilityusecases/invokeusecase`, `internal/app/run.go` | none | Invoke | cache and timer service are rebuilt from the database |
| REST interface, `internal/transport/rest`, `pkg/vk`, `internal/echoconfig` | none | one handler per request | the answer fits what was done |
| bot, models, configuration, generated code | none that matters here | | |

The hard behaviours are the ones where these parts meet: a request is a chain
of calls to three stores without a common transaction; ticks and other requests
run between any two calls; a call may fail, or fail after it took effect; the
application may stop anywhere and rebuilds two of the three stores from the
third; channels of bounded capacity are filled under locks that their readers
need in order to leave. `PROJECT.json` lists each hazard at its line.

## The modules

```
      TimerRow   TimerService
       /     \   /     \
  TimerApi   TimerLifecycle   Subscriptions         Ticker
                   | implements                        | implements
                   v                                   v
             TimerPromise (on TimerRow, TimerService)  TimerTable

  EventStream     NotificationStream     TimerSocket (the channels of both under one loop)
```

Each of `TimerLifecycle`, `Subscriptions`, `TimerApi`, `Ticker`, `EventStream`,
`NotificationStream` and `TimerSocket` has an `MC` module for TLC and a `Proofs`
module, `TimerLifecycle` a second one, `TimerLifecycleSerialProofs`. The first three look at the requests from three sides: `TimerLifecycle`
takes the requests that move a timer's end apart into calls, `Subscriptions`
those that change its subscribers, and `TimerApi` runs every request to its end
but has several users, several timers and the answers.

**`TimerRow`**: one row of the database with the statements that the requests
execute on it, each an operator from row to row: `InsertTimer`, `DeleteTimer`
(a soft delete), `UpdateTime`, `UpdateTimer`, `UpdatePauseTime`. `Live` and
`IsCountdown` are what the selects find. Times are seconds; names, colours and
the creator are left out, since no decision depends on them here.

**`TimerService`** (external): the timer service has no source in this
repository; the module says what its client in `internal/timerservice/grpc.go`
relies on: one entry per timer, `Add` refuses an id it has, `Remove`, `Stop` and
`Update` one it lacks, and an entry is removed when it fires.

**`TimerLifecycle`**: the life of one timer. `row`, `cached` and `service` are
the three stores. `pc[r]`, `snap[r]`, `arg[r]` are the locals of a request
goroutine: the call it makes next, the row it read at its start, the time it
computed. One action is one call (`StopRead`, `StopService`, `StopStore`, ...),
so every other request, tick and handler can run between two calls. A call
succeeds, is refused, or fails (`Fault`); with `LostAnswers` a call that fails may have
taken effect. The `Undo` actions are the compensations that `pkg/saga` has
registered at that point, in the order in which `Rollback` runs them; as in the
code their own errors are ignored. `hpc[h]`, `hsnap[h]` are the goroutines that
`StreamHandler` starts for a tick (`ExpiredRead`, `ExpiredClear`,
`ExpiredUncache`); `notices` are the delete notifications under way. `Crash`
forgets every local, `Restart` is `Invoke`.

`strayed` is a history variable. It becomes TRUE when a failure leaves a running
timer without a wake-up in one of the ways that the code does not compensate:
an INSERT whose answer is lost, or the compensation of a Create that fails; a
Delete that has removed the entry and then fails; a Stop whose call took effect
without an answer, or whose compensation fails or is refused because the end has
passed; a Start whose unpausing took effect without an answer, or is not undone;
an expiry handler whose read or write fails; a tick that comes while the
application is down, and a crash while a request or handler is on the way to
settle the timer. It becomes FALSE again when a restart or a Start registers the
timer. The places where it is set are the list of the ways in which failures
can lose a timer; `Watched` says that the list is complete.

**`TimerPromise`**: what the requests promise a client, without calls, handlers
and failures: `timer` is the timer as it may be shown, `entry` what the timer service
has, `ringing` whether an end is being handled, and each request changes `timer`
and `entry` in one step (`Create`, `UpdateRunning`, `Start`, ...) or not at all. It keeps two
things the code does not hide: `Stop` and `Delete` first take the timer out of the
service (`Withdraw`, and `Readmit` when a Stop fails), and a Create that fails leaves the
id taken (`Burn`). In `TimerLifecycle`, `Seen` is the refinement mapping for `timer`: the
row without what the request in progress has written and its compensations may still
take back (`Undone`). So the steps up to the last call of a request
stutter, its last call is the abstract step, and a compensation stutters again.
`AllOrNothing` is the refinement with one exception, `Unrepaired`: the step in which a
compensation of the row or an expiry handler fails itself. What follows such a step must again be
what `TimerPromise` allows.

**`TimerTable`**: what an in-process timer service promises, without threads,
lists or mutexes: a function from ids to seconds, and steps that add, forget,
remove, and fire what is due.

**`Ticker`**: `timerticker.Ticker` with both its indexes (`timers`, `endTime`
with `keys` for the seconds present in the map), its two mutexes `mu` and
`subMu`, the loop of `Start`, the goroutine that every pass of the loop spawns
(`tpc`, `now`, `togo`), and the readers of its streams. `AddManyTimers` does not
check whether an id is registered; `readded` notes the ids it was given twice.
The list of a second is kept as a sequence because `RemoveTimer` overwrites the
removed element with the last one (`SwapOut`). The in-process ticker is not
wired into the application at this commit; it is the only timer
service whose code is here.

**`EventStream`**: `timereventstream`. The streams, the index by timer and
the index by stream, the read-write lock of the stored streams (`readers`,
`writer`; a waiting writer keeps new readers out, as in Go), the bounded channels,
the requests in `Send` (`pc`, `togo`, `target`) and the owner of each
stream, which is the loop of `TimerWS`. The lock of the subscribers is held for
a few assignments and never while waiting, so `Subscribe`, `Unsubscribe`,
`CopySubscribers` and `Unlink` are one step each.

**`NotificationStream`**: `timernotificationstream`. `pc[j]` is where goroutine
`j` is in `StreamHandler.notification`: it reads the subscribers from the cache,
takes the mutex, goes through the users (`NextUser`) and through the streams of
each (`Deliver`), gives the mutex back, stores the notification for the offline
(`InsertNotification`), takes the mutex again and tells the service streams
(`TellService`). A send waits while the channel is full, with the mutex held.
The owner of a user's stream is the loop of `TimerWS`, the reader of a service
stream is the bot's; both may leave at any time, and then need the mutex to
close. `stored` is the table of unread notifications with its primary key; the
cache changes meanwhile by `CacheSubscribe` and `CacheUnsubscribe`. `audience`,
`given` and `refused` are history variables: whom a goroutine has to tell, whom it has
told, and for whom the key refused the row. An INSERT that is refused tells nobody:
`EveryoneTold` leaves out exactly those users, and `OfflineIsStored` is violated by
them. What the expiry handlers do to the timer's row is in `TimerLifecycle`.

**`Subscriptions`**: the subscribers of one timer, which are kept twice: `members`
are the rows of the table and `cached` the set in Redis. `req[r]` is a request:
its next call and the set that its GET has read, since `Storage.Subscribe` and
`Unsubscribe` of the cache are a GET and a SET that others run between
(`CacheGet`, `CacheSet`). `Store` is the statement, `undo.get` and `undo.set` the
compensation, which is the inverse operation and may be refused, overwritten or
fail itself. `MarkDeleted` and `DropKey` are the end of a timer and the goroutine
that drops its key; `Crash`, `Restart` and the three steps of `Invoke` a restart, with
Redis as it was or empty. Nothing in the code keeps two requests apart, so the
stores may part for good; four history variables say when: `tangled` are the
users whose requests overlapped, over whom another request wrote a
set read before (`Clobbered`), or whose failure hit a call that nothing undoes;
`uninvited` are those who had no row when their Unsubscribe failed in the table: the
inverse operation, which is there for a subscriber, adds them to the set, so they may
be cached without a row (`Agrees`); `filled` is TRUE while the creator has been put
into the set; `leftover` when the key's deletion was missed or somebody may write
after it.

**`TimerApi`**: the REST interface. A request is a record; `Answer` follows it
from the middleware (`VkKeyHandler`) through parsing, validation, use case and
statements to the code of its error, and returns with it the timer as the
request leaves it, so that the same operator gives the step (`Serve`) and the
subject of properties like `RetrySafe`. `HttpCode`, `Success` and `Status` are
what the client sees: an error that is no `AmidException` has become an internal
one in `Wrap`. `Update` keeps what the code does to a paused timer. The lists
are sets with an order (`Before`) and pages (`Page`); `walk` is a client that
reads a list page by page while others change it. `Expire` is a tick with its
handler. The times of a request are the client's, before or after the server's
clock; `unchecked` notes the timers given a time that the code does not
compare with the timer's (`Unchecked`): a beginning to come, a pause before the
beginning, an end in pause. `unread` keeps the type of each notification, and the
older one where the primary key refuses the second (`Notified`). A list that is asked for with a
negative offset or limit is an error of the statement (`ListStatement`).

**`TimerSocket`**: `TimerWS` with all its goroutines: the loop (`loop[s]`), the
goroutine of `WSReadStream` (`reader[s]`), which also runs the close handler,
the mutex of the connection, the deferred calls in their order (`Deferred`), and
the senders of both streams, each with the lock that it holds while it waits for
room (`eventTo`, `noteTo`). The client sends messages, malformed ones, a close
frame, hangs up, and, if it is in `Unreliable`, stops reading or is cut off. A read
that fails for any reason but a close is tried again at once; gorilla/websocket
panics at the `ReadLimit`th, and since nobody recovers in that goroutine the application ends
(`panicked`). The streams are counters here: their contents, indexes and
addressees are in `EventStream` and `NotificationStream`.

The `MC` modules hold the symmetry sets and the lists of ids that a configuration file
cannot write. A definition marked `Variant` is a plausible mistake in the
operation next to it; `PROJECT.json` names the property that each one breaks.

## The runs

| run | question | instance |
|---|---|---|
| `LifecycleSerial` | do database and timer service agree whenever nothing is in progress (`RegisteredIffRunning`, `RegisteredAtEnd`), is an expired timer set back to its full duration (`FullAfterExpiry`), does a request take effect in both at once or not at all, so that every step is one of `TimerPromise` (`AllOrNothing`)? | one request at a time, two handlers, seconds 0..4, a client clock up to one second behind, one failing call |
| `LifecycleRace` | is a running timer always registered, or about to be settled, whatever races (`AlwaysWatched`), and does every running timer end, unless stopped or deleted (`RunningEnds`)? | two concurrent requests of five kinds, two handlers, seconds 0..2, no failures, fairness |
| `LifecycleFaults` | the same with failing calls and a restart (`Watched`), and `RollbackRestores` with lost answers | one request of all kinds at a time, seconds 0..3, three failing calls, one restart |
| `TickerSafety` | do the indexes agree (`Indexed`, `NoGhost`), does only what is registered and due fire (`FiresRegistered`), is a timer overdue only when its second was skipped (`OverdueOnlyIfSkipped`), is no closed channel sent to (`SendsToOpen`)? | two ids, one stream of one place, two goroutines, seconds 0..2, ids registered twice allowed |
| `TickerLive` | does a tick end (`TickEnds`), and is the ticker a timer service (`ImplementsTable`)? | one id, which may be added again once it has fired, one stream of one place, two goroutines, seconds 0..2, fairness |
| `EventStream` | do the indexes agree (`Linked`), is no closed channel sent to (`SendsToOpen`), does every subscriber get every event (`Delivered`), do Send, NewStream and Close return (`SendEnds`, `OpenAndCloseEnd`)? | one timer, two streams of one place, two senders, fairness |
| `NotificationSafety` | does the handler send to no closed channel (`SendsToOpen`), tell nobody twice or in two ways (`ToldOnce`), and tell all of them but whom an older unread notification keeps from it (`EveryoneTold`)? | two goroutines, the creator and a subscriber with one stream, one bot, channels of one place, one failing call, a cache that changes |
| `NotificationLive` | is a notification handled to its end (`NotificationEnds`), and can a websocket close (`CloseEnds`)? | the same without failures and requests, fairness |
| `Subscriptions` | is the creator always among the cached (`CreatorCached`), do cache and table agree on everybody not in `tangled` (`CacheMatchesStorage`), is nothing left of a deleted timer (`DeletedForgotten`)? | the creator and two users, two requests, two failing calls that may have taken effect, one restart |
| `TimerApi` | does a page walk miss or repeat a timer (`WalkExact`), is a retry harmless (`RetrySafe`), does a refusal change nothing (`RefusalLeaves`), has every well-formed request an error of its own (`NoInternal`), does a timer keep the minimum duration (`DurationKept`), is its end told to all (`EndIsTold`)? | two users, ids 0 to 2, 33 requests right and wrong, pages of one, seconds 0..2, beginnings and ends up to 4 |
| `TimerSocket` | does one goroutine write at a time (`OneWriter`), do the subscriptions follow the client (`FollowsClient`), is no reader left behind (`ReaderNotLeft`), is only a cut connection read to the panic (`RereadsOnlyBroken`), do notifications go on without the events (`NotificationsGoOn`), does a socket end (`SocketEnds`)? | one websocket with an unreliable client, channels of one place, two frames, two events, two notifications, a panic at the third read, fairness |
| `UnreadHidden` | a property that a comment states and the code breaks | one timer, two goroutines; see below |

**Bounds.** `MaxTime` and `Durations` bound the clock and the ends that
clients ask for; five seconds are enough for a timer to run, be paused for a
second, run on, expire and be started again. With two seconds (`LifecycleRace`)
a timer can still be created, stopped before or after its end, and expire. Two
requests and two handlers are the smallest number with every pairwise race, also
of an expiry with the next expiry of the same timer. Adding `Update` to the racing
requests takes TLC beyond five minutes; for that combination, and for any
number of requests, there is the theorem `RacesAreSafe`. `MaxFaults` = 3 lets a call, its
compensation and a handler fail. A channel of one place (`Capacity`) is full after one
send, which is when the code's mutexes matter. `MaxListed` bounds how often an
id is put into a list. In `TickerLive` the id fires in two seconds, so a second batch meets a stream
that still holds the first: the full stream of which `Wedged` speaks. `MaxEvents` = 1 gives each sender one event, so there two
events meet in a channel of one place; that a sender's events enter a channel
once and in their order is the theorem `EventsInOrder`, for any number.
In the notification runs a subscriber has one stream; the theorems of
`NotificationStreamProofs` hold for any number. In `Subscriptions` two requests are every pair of a GET and a SET, and two
failures a statement and its compensation; `SubscriptionsProofs` has any number.
In `TimerApi` two timers of different creators give one page
boundary; the requests of `MCTimerApi` have one for every way to be refused, a beginning a second
ahead and a pause a second late, which reach each of the unchecked times. `MaxEnd` bounds
beginnings and ends, which repeated late pauses would move on without end. One
websocket is the largest instance of `TimerSocket` whose liveness TLC checks in
minutes: two events and two notifications fill both its channels and leave a
sender waiting in each; three failed reads stand for a thousand, since the
reader counts only up to the panic. Two websockets and more are left to the
theorems of `TimerSocketProofs`. Goroutines are interchangeable,
and so are ids and handlers: hence the symmetry sets of the safety runs.
Only `TimerApi` checks deadlock, since all other systems may come to rest: a timer is
deleted, the clock has reached its bound, every websocket has left.

**Fairness.** Weak fairness for whatever a goroutine does next, for the clock,
for the firing of what is due and for a reader that reads: Go schedules every runnable goroutine.
Strong fairness for what waits for a mutex: a `sync.Mutex` is handed to a waiter
that has waited for a millisecond, and a `sync.RWMutex` lets the waiting readers in
before the next writer. No fairness for what a client decides: to
make a request, to subscribe, to leave. The exceptions that the liveness
properties name are what the code can really come to: `Wedged` in
`Ticker` is a full stream whose reader wants the mutex that the sender holds, or
the mutex that `Unsubscribe` leaves locked when `Close` has forgotten the stream;
`Wedged` in `EventStream` is a sender that waits, with the read
lock held, for a channel whose owner has left its loop and waits for the write
lock: from then on every `Send` and every new websocket waits too. `Wedged` in
`NotificationStream` is the same with its only mutex: a goroutine waits with the mutex
held for a full channel whose owner, a websocket or the bot, has left and wants
the mutex. In `TimerSocket` the same two situations are `NotesWedged` and
`EventsWedged`, and two more end what the properties promise: a client that
stops reading (`SomeStalled`), because `WriteJSON` has no deadline, and the panic.
`NotificationsGoOn` does not except `EventsWedged`: since the notification stream
is closed first, a websocket that waits for the wedged event lock has already
given back the notifications.

## What disagrees with the code's own words

`UnreadHidden` is a run, and `PROJECT.json` quotes the lines: a notification
for an offline subscriber is lost when an older one of the same timer lies
unread, since the table's key is timer and user.

The others were met while modelling; the models do what the code does, and no
property claims the opposite:

- Resetting a running timer leaves the timer service with the old end
  (`countdowntimerusecase/usecase.go:172`; "if timer is started, reset not pause,
  only update end time", `countdowntimer.go:83`), and the expiry handler then pauses the
  timer that was just reset. `RegisteredAtEnd` is checked without Reset for that reason.
- An expiry handler computes the pause time from a row read before a Reset that
  may have come between (`timernotificationstream/handler.go:205`).
- A restart registers paused timers with the timer service (`invokeusecase/usecase.go:79`),
  which Delete relies on not being there (`timerusecase/usecase.go:169`).
- A Delete whose UPDATE fails has already removed the wake-up of a running timer and
  registered no compensation (`usecase.go:171`; the model notes it in `strayed`).
- `checkSettingsEndTime` (`usecase.go:228`) checks the minimum duration of a paused
  timer's update against the old end, so a shorter one is accepted (`unchecked`).
- Nothing compares a client's times with the server's: a timer may begin in the
  future (`create_timer.go:56`), where an Update leaves it as little as it likes
  of its duration, and it may be paused before its beginning (`countdowntimer.go:38`,
  `countdowntimerusecase/usecase.go:63`): Start then moves it into the future as well, and a
  running timer's update that keeps the minimum from now takes the rest. `DurationKept` excepts these
  timers; TLC finds it violated when any of the three exceptions is dropped.
- The compensation of an Unsubscribe whose DELETE fails subscribes its user in the
  cache, also one who was no subscriber before (`timerusecase/usecase.go:357`;
  the cache answers both alike): he is notified and shown among the subscribers until a
  later Unsubscribe (`uninvited`).
- `offsetLimit` (`handler.go:70`) passes negative numbers on. PostgreSQL refuses them and
  `Error` and `Wrap` make that an internal error: a well-formed request is answered with 500.
- `WrongLenError` has the status 400 (`stringvalidate.go`), but `Wrap` makes every error
  that is no `AmidException` an internal one: a long name is answered with 500, as
  is a parameter that cannot be parsed. `NoInternal` excepts these. An Update never
  validates its settings and leaves a long name to the column's type.
- "create context with defer cancel" (`socket.go:99`): nothing defers it; the
  context is cancelled by the close handler alone.
- The close handler passes the close code as the type of its message
  (`socket.go:120`), which `WriteMessage` refuses: the client's close is never answered, and
  the reading goroutine is ended by the cancelled context instead of the `CloseError`
  it looks for.
- A connection that is cut off makes the reading goroutine retry until
  gorilla/websocket panics, which ends the application (`socket.go:189`).
- The comment "close chan" at `ticker.go:134` stands where `Start` returns without
  closing the streams, and `Ticker.Close` before `Start` calls a nil function (the
  model's `CloseTicker` requires the loop to have been started).

## The proofs

TLAPS checks these for every value of the constants that satisfies the named
assumptions, so for any number of requests, handlers, faults, ids, streams,
senders, and for every bound. The finite bounds stay in the guards and the theorems hold for every value of them.

**`TimerLifecycleProofs`.** The inductive invariant is `TypeOK`,
`RemoveReadRunning` (a Delete that goes to the service has read a timer that was
not paused) and `Watched` itself. Every step of a request is shown to satisfy
`Moved(r)`, which says what a single request can do to the claim: the row did not
start to run, or the entry did not go, or the request is now one that will settle it;
`MovedAlone(r)` is the part about its locals. `MovedPreserves` then shows the
invariant once for all requests, instead of once for each action. It gives `TypeCorrect`
and `RunningIsWatched`. With `MaxFaults` and `MaxCrashes` zero no history is
written (`strayed` stays FALSE), which gives `RacesAreSafe`.

**`TimerLifecycleSerialProofs`.** Several requests at once can leave database and
timer service apart for good (two Updates with different ends, two Starts with a paused timer that is registered), so what `LifecycleSerial`
checks is proved under `OneAtATime`: `Req` has at most one element, which means that the
creator waits for each answer. Handlers, ticks, delete notifications and failing
calls still come between the calls of that request, in any number. `SerialInv` is `World`, what holds
between requests (the service knows no paused timer and sends no tick of one, and
no timer that was never created; at most one handler settles a live timer), and
`Phase(r)`, what the request in progress relies on at each of its calls: a Create, Start
or Stop has the timer to itself (`Loose`: no entry, no handler), and whoever has
read a pause still finds it. `RegisteredIffRunning` says nothing while a request is in progress, so it
is not inductive without `Phase`. `Ends` adds which end the request is about to pass on
and which one the service has in the middle of an Update; `Spans` that the
beginning of a countdown (its end less its duration) stays as a handler has read
it, since an Update moves both and a Start finds no handler; `Tracks` the same
for what a request has read, without which `UpdateTimer`, which computes the duration from
the row it finds, could not be seen to undo itself. Results and what they assume besides `OneAtATime`:

- `RegisteredIffRunningHolds`: `Reliable`, a failed call has had no effect and there is no
  restart. A lost answer of Start leaves a paused timer registered, and so
  does `Invoke`.
- `RegisteredAtEndHolds`, `FullAfterExpiryHolds`: `Reliable`, and no Reset among the requests,
  which moves the end without the duration and does not tell the service.
- `RollbackRestoresHolds`: no restart, or answers may be lost, since the property then claims
  nothing of the pause. The run allows one failure; the theorem needs no such bound.
- `AllOrNothingHolds`: `Reliable`, and no Reset. A Reset that finds the timer running moves
  the end in the database alone, which is no step of `TimerPromise`, and a handler that read the row before
  it would settle another end than the one shown. `AtomInv` adds to the invariants above
  `Given(r)`, what a request still finds of what it has read or written (a Create its whole row, a
  Start the end and its countdown), without which a compensation could not be seen to
  lead back to the row that was shown, and `Kinds`, that a handler has the type of the
  row. One lemma per request shows that its calls stutter but for the one that
  counts (`AtomCreate`, `AtomDelete`, ...), `AtomFire` and `AtomHandler` treat the ticks.
- `RequestsImplementPromise`: besides, no call fails (`MaxFaults = 0`); then `Unrepaired` never happens
  and `Spec` implements `TimerPromise` as it stands. The timer service may still refuse a call.

**`TickerProofs`.** The invariant is in parts that are kept separately: the
table (`TableInv`: types, `Indexed`, `NoGhost`), the control (who holds which
mutex, which goroutine sends to which streams, that seconds captured lie in
the past and the second of a new capture is fresh), the streams, and
`OverdueOnlyIfSkipped`. Results: `TypeCorrect`,
`RegisteredAreListed`, `ListedAreRegistered`, `NoSendOnClosed`, `OverdueWasSkipped`, `SendsAreDue`, and
`TickerIsTimerService`: every step of `Ticker` is a step of `TimerTable` or
leaves it unchanged, provided `AddManyTimers` is given new ids only (`~Readds`); with
ids registered twice the code fires the old second too, and the refinement is
false.

**`EventStreamProofs`.** The invariant is `TypeOK`, `Linked`, and: `Holding`,
the lock (who sends holds the read lock, and what it waits for is stored;
what is stored has an owner that has not closed it); `Serving` (what a sender has
yet to serve has not had its event); `Hearing` (who stayed subscribed is served
or yet to be served). `Holding` is needed because `SendsToOpen` alone does not say why
`Remove` must wait; `Hearing` because `Delivered` speaks of the last step of a
Send only. Results: `TypeCorrect`, `IndexesLinked`, `NoSendOnClosed`,
`SubscribersServed`, `EventsInOrder`.

**`NotificationStreamProofs`.** The invariant is `TypeOK`, `Listening`,
`ToldOnce`, and: `Holding` (which goroutine has the mutex, and that the streams it is
serving are still listed, which is why `Close` must wait); `Apart` (a subscriber
is waiting, being served, told, or offline, and never two of these, from which
`ToldOnce` follows at `NextUser` and `Deliver`); `Telling` (what is left to tell
in each phase, and that only the offline are refused, from which `EveryoneTold` follows at the last step). `OthersStay`
reduces a step of a goroutine to that goroutine. Results: `TypeCorrect`,
`StreamsListening`, `NoSendOnClosed`, `ToldOneWay`, `SubscribersTold`.

**`SubscriptionsProofs`.** The invariant is `TypeOK` and: `Shape` (which call a request of
each kind can be at), `Tracked` (for each user with a request in progress or outside of `tangled`, up to `uninvited`,
what the cache has, given what the table has and where the request is: its
operation on the cache done, its statement not, or the inverse still to come),
`Kept` (with `filled`, the creator is in the set and in every set that somebody has read and is going to
write, which is why a stale write cannot lose him), `Booting` (what `Invoke` has
read is still the table's) and `Forgotten` (without `leftover`, nobody is left to
write to the key of a deleted timer). `CacheMatchesStorage` alone is not inductive: it says
nothing of a user in the middle of a request. Results: `TypeCorrect`, `CreatorStays`,
`StoresAgree`, `KeyStaysDropped`.

**`TimerApiProofs`.** The invariant is `TypeOK`, of every timer that it is `Sound`: the cached set
and the table agree on a live timer, the creator is among them; and of every timer not
in `unchecked` that it is `Long`: it has the minimum duration, and its end less its
duration lies neither after now nor after its pause, without which an Update could
shorten it. Each operation has one lemma that it keeps
`Sound`, keeps `Long` unless it accepts one of the unchecked times, and, when it refuses, leaves what it should (`Good`), and one that
applying it twice is applying it once (`Twice`); the routes combine them. Results:
`TypeCorrect`, `ListsDivide`, `RefusalsLeave`, `DurationsKept`, `EndsAreTold`,
`RetriesSafe`, `NothingInternal`. For the pages, `Place` is the number of timers before one in
its list. The places have no gaps (`NoGaps`, from `Predecessor`: among the finite sets of what
stands before each timer there is a smallest one), so an empty page means the end of the list; a live timer
keeps its second of creation (`CreatedKept`), so a place moves only with what
enters or leaves (`PlacesMove`). The invariant `Walking` then is that what a client has
yet to see stands on a page to come, and what it has seen on one before:
`WalksAreExact`. Nothing is assumed of the clients' clocks.

**`TimerSocketProofs`.** The invariant is `TypeOK` and, per websocket, `Sound` (who
holds the mutex, that a reader runs only with a loop, why a loop has left), `Following` (the
subscription is the client's wish, less the message that is being handed over) and `Failing` (reads
fail for good only on a connection that was cut off, and once after a close);
for the application, `Panic`. Results: `TypeCorrect`, `WritesAlone`, `SubscriptionsFollow`,
`ReaderEndsToo`, `RereadsBroken`.

**Checked by proof only:** the type invariants of all modules (`TypeCorrect`), with the capacities of the
channels in them, and `InOrder`, `Listening` and `ListsAgree`, whose theorems hold for
every instance.

**Only model-checked:** the liveness properties (`RunningEnds`, `TickEnds`,
`SendEnds`, `OpenAndCloseEnd`, `NotificationEnds`, `CloseEnds`, `NotificationsGoOn`,
`SocketEnds`), which are out of the prover's reach. Every other property of a passing run
is a theorem, under the assumptions named above.

## Not modelled

- The goroutine that receives the stream of ticks (`grpc.go`, `serviceStream`), and that `StreamHandler.Start`
  spins and gets no tick once that stream has ended: the code neither reconnects nor reports it. In the models a
  tick is lost only while the application is down.
- Paging in `Invoke`: with one timer there is no page boundary. Timers that
  leave the list while it is read can make it skip others.
- Encodings, the messages of the bot, configuration, SQL names and generated code: they
  keep no state that others read.
- The mutex that `Saga.Rollback` leaves locked after `OK`: nobody uses the saga again.
- Several timers in one request chain: every statement, key and entry is keyed by
  the timer's id, so `TimerLifecycle` and `Subscriptions` have one timer. Where
  timers meet (lists, notifications, channels), the modules have several.

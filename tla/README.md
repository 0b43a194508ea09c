# A TLA+ development for DotRas

DotRas is a .NET library over the Windows Remote Access Service (RAS): it dials
phone book entries, hangs connections up, enumerates them and raises events when
connections come and go. Its state is small, its concurrency is not: a dial is
ended by whichever of three threads comes first, a watcher is worked on by its
users, by pool threads and by RAS at once, and every list RAS gives may have
changed before it is read. This directory models that, checks it with TLC on
small instances and proves the central facts with TLAPS for any number of dials,
connections, threads and services.

Paths below are relative to `src/src/DotRas` unless they begin with `src/`.

## 1. Inventory

| Component | State | Operations | Interacts with |
| --- | --- | --- | --- |
| `RasDialer` | the service | `Connect`, `ConnectAsync`, `Dispose`, raising `StateChanged` | the dial service; user code through events, a `SynchronizingObject` |
| `RasDialService` | `SyncRoot`, `IsBusy`, `CompletionSource`, `CancellationSource` | `DialAsync`, `OnCancellationRequestedCallback`, `OnDialCompletedCallback`, `Dispose` | the handler, `RasDial`, hang up, marshaller |
| `DefaultRasDialCallbackHandler` | task, token, callbacks, `Completed`, the `ValueWaiter` | `Initialize`, `SetHandle`, `OnCallback` | called by RAS; enumerates, hangs up, completes the task |
| `DisposableObject` | `SyncRoot` (a `SemaphoreSlim(1)`), `disposed` | `Dispose`, guard | every service |
| `RasConnectionWatcher` | the connection watched | `Start`, `Stop`, `Restart`, `Connection`, `Dispose` | its service, event handlers, a `SynchronizingObject` |
| `RasConnectionNotificationService`, `RegisteredCallback` | the registrations by kind | `Subscribe`, `Reset`, `Dispose` | RAS, the thread pool |
| `RasConnectionNotificationCallbackHandler` | the previous snapshot | `Initialize`, `OnCallback`: compare and report | pool threads, enumeration |
| `RasHangUpService` | none | `HangUpAsync`: close once, or until RAS knows the handle no more | `RasConnection`, the dial service |
| `RasEnumConnectionsService`, `RasEnumDevicesService` | none | retry with a growing buffer, an iterator over the answer | RAS, device factories |
| `RasGetEapUserDataService` | an unmanaged buffer in flight | retry, free on failure | marshaller; the dial service frees what it returns |
| `RasGetConnectStatusService` | none | one call, and a conversion that may throw | its own exception policy, the device factories |
| Exception policies, device factories | none | pure functions | everyone |
| IoC container | registrations, instances by lifetime | `GetService`, scopes, `Dispose` | every object of the library is made by it |
| Statistics, credentials, error strings, interop, diagnostics, values | none | one call and a conversion, or a trace event | Windows |

What makes them correct:

* **Dialing.** The handler uses the handle of the attempt it is called for. No
  attempt survives its dial. A connection handed to a caller is not hung up
  behind his back. Permits balance. The dialer is busy while a task is pending
  and idle when all is over. Unmanaged memory is freed once. Tasks complete.
  Disposing ends what is in progress. Nothing is thrown into RAS.
* **Watching.** What is registered with RAS and the pool is what `IsActive`
  counts, whatever fails in between. A change that was signalled is not lost to
  an event that coalesces. Each change is told at most once and never one that
  did not happen. Nothing new starts once stopped. Calls return, those made by
  event handlers too.
* **Requests.** An enumeration is the list as it was at one moment. Hanging up
  with `closeAllReferences` ends the connection. A connection that goes away
  meanwhile is reported as that. Each block of unmanaged memory has one owner.
* **Container.** One instance per lifetime, for all threads; nothing that
  outlives a scope holds something of it; each owner disposes what it gave.

The hazards, with the line where each bites and the properties that guard it, are
in `PROJECT.json`.

## 2. The modules

| Module | Models |
| --- | --- |
| `DialState` | constants, variables, locations, type and initial state of a dialer; the operations several threads share |
| `DialCallbackHandler` | `DefaultRasDialCallbackHandler.cs`, `ValueWaiter.cs` |
| `RasDialService` | `RasDialService.cs`: the caller's thread, the cancelling thread, `Dispose` |
| `Dialing` | the composition with callers and RAS; fairness; properties; the mapping to `DialPromise` |
| `DialPromise` | abstract: what a dialer promises its callers |
| `WatchState` | constants, variables, type and initial state of a watcher; registrations (`RegisteredCallback.cs`), RAS, the thread pool |
| `NotificationCallbackHandler` | `RasConnectionNotificationCallbackHandler.cs` |
| `RasConnectionNotification` | `RasConnectionNotificationService.cs`, `RegisteredCallbackFactory.cs` |
| `RasConnectionWatcher` | `RasConnectionWatcher.cs`; the composition; fairness; properties; the mapping to `WatcherPromise` |
| `WatcherPromise` | abstract: what a watcher tells of the connections |
| `ExceptionPolicy` | the exception policies: which exception an error code becomes |
| `RequestState` | constants, variables, type and initial state of threads that make requests of a machine that changes |
| `RasEnumeration` | `RasEnumConnectionsService.cs`, `RasEnumDevicesService.cs`, `DeviceTypeFactory.cs` |
| `RasConnectionRequests` | `RasHangUpService.cs`, `RasGetConnectStatusService.cs` with the constructor of `RasConnectionStatus` and `IPAddressConversionService.cs` |
| `RasGetEapUserData` | `RasGetEapUserDataService.cs` and the allocations of `MarshallingService.cs` |
| `RasRequests` | their composition; fairness; properties |
| `Container` | `Container.cs` |
| `MCDialing`, `MCWatching`, `MCRequests`, `MCContainer` | values of constants for the configurations |
| `DialingProofs`, `DialsInTurn`, `LoneDial` | theorems about dialing: for all behaviours; for dials that follow one another; for one dial cancelled at any time |
| `WatchingProofs`, `WatcherRefinement`, `RequestProofs`, `ContainerProofs` | theorems about the other three systems |

Four systems, each a chain of modules that extend one another. They are separate
because the library keeps them so: a dialer and a watcher share no object, only
the machine. Definitions marked "Defect" belong to no behaviour: they are
plausible wrong versions of the definition after them, with which a property is
shown to fail.

### 2.1 Dialing

**State.** A *dial* `d` is one call of `DialAsync`, with a context and a
cancellation token of its own. `sem`, `busy`, `current` are the service's
`SyncRoot`, `IsBusy` and the owner of `CompletionSource` and
`CancellationSource`. `hTask`, `hContext`, `waiter`, `completed` are the
handler's fields, each represented by the dial it came from, which is what lets a
property tell a dial's own handle or task from another's. `task`, `handle` and
`eap` are the completion source's task, `context.Handle` and the buffer in
`context.RasDialExtensions`. `cancelled`, `registered`, `dead` are the tokens.
`ras` and `notified` are the attempts as RAS knows them. `pc`, `kpc`, `cpc`,
`xpc` are the locations of the four kinds of threads.

**Steps.** A step is a statement that reads or writes something another thread
can see. `DialAsync`: `GuardBusy`, `Enter`, `Prepare`,
`InitializeCallbackHandler`, `SetBusy`, `BuildExtensions`, `BuildParams`,
`CheckToken`, `RasDialStarts`, `RasDialReturns`, `TransferHandle`, `Leave`, with
`EnterIsCancelled`, `EnterIsDisposed`, `RasDialFails`, `CatchHangUp` and
`CatchNotBusy` for the ways that throw. `OnCancellationRequestedCallback`: the
`Cancel...` actions. `OnCallback`: `CaptureToken`, `HandleArrives` or
`WaitThrows`, `PassGuards`, `CreateConnection`, `CompletedFrees`,
`CompletedNotBusy`, `SettleTask`, `CatchHangsUp`, `CallbackReturns`. `Dispose`:
the `Dispose...` actions.

**Merged.** The assignments of `Initialize` (made before the attempt starts,
under a lock); lines 57 to 60 of `DialAsync`, all under `SyncRoot`;
`FlagRequestAsCompleted` with the lookup or hang up before it.
`HasEncounteredErrors` is left out: no code of the library reads it. A dial's
linked token and the caller's are one flag: the only code that cancels the
linked source alone is `Dispose`.

**Assumed.** RAS calls back for an attempt from one thread at a time, and starts no
call after `RasHangUp`; a call in progress goes on. Any number of states up to
`MaxStates` is reported before the outcome. Waits on a disposed semaphore or
event throw. A thread already blocked there may in fact stay blocked; the runs
that dispose check safety under a specification without fairness, whose
behaviours include those in which it never moves again, and not for deadlock.

### 2.2 Watching

**State.** A *registration* is one `RegisterCallback`: a state object, an
auto-reset event, a wait of the thread pool. `subs` is the service's dictionary,
`wait`, `signal`, `queued` and `callback` what became of each registration: its
wait, whether its event is set, callbacks on the pool that have not entered the
handler, and the delegate of the state object. `previous`, `hpc`, `holder`,
`current` and `pending` are the handler and the thread inside its lock. `pc`,
`after`, `context`, `reg` are the threads inside the watcher; one of them, `Pool`,
is the thread that runs an event handler and may call the watcher from it.
`missed`, `told` and `lone` are history.

**Steps.** A user's call: `Start`, `Stop`, `SetConnection`, `CallDispose`, then
`RestartStops`, `RestartStarts`, `DisposeWatcher`. `Subscribe`: `Guard`, `Enter`,
`Initialize`, then `Create`, `Notify` and `Assign` for either kind, `Catch` when one
of them throws, `Leave`. `Unsubscribe`: `DisposeCallback` twice, `Clear`,
`DisposeService`. The pool: `PoolQueues`, `CallbackEnters`. The handler:
`Enumerate`, `Raise` and `Raised` for each change, `CallbackLeaves`, and
`CallbackThrows`, after which the process is gone. RAS: `Comes`, `Goes`.

**Assumed.** RAS sets an event when a connection comes or goes that the
registration asked for, and refuses the handle of a connection that is gone. The
pool waits again on an event it has seen (`executeOnlyOnce` is false), and
`Unregister` does not wait for callbacks, as the code calls it. `Wait` and `Release`
of a disposed `SyncRoot` throw, so a call that another thread's `Dispose` overtakes
ends there. A connection has one life. What an event handler throws goes to the
`Error` event and no further, so events have no failing branch.

### 2.3 Requests

**State.** `refs` counts the references open to each connection, which is up while
there are some; `opened` those ever opened. `heap` has the blocks of unmanaged
memory. Each thread has at most one request in progress: its location `pc`, its
locals `target`, `all`, `count`, `slots`, `buf`, `size`, and how it ended
(`thrown`, `made`). `seen` is history: all the values the list has had since an
enumeration began.

**Steps.** Every call into RAS is a step, and the machine changes between any two:
`Opens`, `Closes`, `Plugs`. An enumeration is `Fetch` until the buffer is large
enough, then `Yield`, `YieldThrows`, `YieldEnds`. A hang up is `CheckToken`,
`CloseReference`, `Sleep`. EAP data is `Alloc`, `Query`, `RetryWithMore`, `Catch`;
RAS may answer with another size each time. A status is `GetStatus`, the call and
the conversion of its answer: the device is made first, which throws for frame
relay; then the two addresses, which throws for an unknown kind of endpoint; then
the `RasConnectionStatus`, whose constructor (`RasConnectionStatus.cs:60`) refuses
the null that stands for a device without a type.

**Assumed.** RAS fills the array with the list as it is at the call, or reports how
many entries there are. RAS closes one reference at a time. An allocation may
fail. A device has one type while it is listed; the type a status reports is that
of any machine in `Machines`, not necessarily the one the connection was listed
with. A `RasConnection` comes from an enumeration, so it has a device that could be
made (`MayBeAskedOf`).

### 2.4 Container

**State.** A *lifetime* is the container's own, `Root`, or that of a scope. `cache`
is `instanceCache`; `type`, `dep`, `home` describe each instance made; `stack` is
the stack of factories a thread is in; `use`, `left`, `disposed` are the disposal
of a lifetime. `given` is history: everything that was resolved from a cache and
whether it came before any `Dispose` of its lifetime.

**Steps.** `GetService`; `LookFinds` and `LookMisses`, the two outcomes of
`GetOrAdd`'s first look; `BuildArgument`, which resolves the argument of a
constructor; `BuildTransient` and `BuildCached`, in which `GetOrAdd` decides whose
instance is kept; `BuildThrows`; `Dispose`, `DisposeInstance` one after the other,
`DisposeReturns`. The factory runs outside any lock, so two threads may be in it
for the same service.

## 3. What the runs check

| Run | Instance | Shows |
| --- | --- | --- |
| `cancel` | 1 dial, cancelled any time, RAS failing | handle handshake, no orphan, busy while pending, `KeepsPromise` with termination |
| `redial` | 2 dials in sequence, cancelled at most before they have the lock, RAS failing | the handler's reuse: handshake, results stay, idle is not busy, EAP buffer, nothing thrown into RAS, `KeepsPromise` |
| `overlap` | 2 dials in any order, cancelled during, building and dialing failing, continuations that redial | `SyncRoot` excludes, permits balance, a `DialAsync` that throws leaves no attempt |
| `dispose` | 1 dial, cancelled and failing anywhere, disposed at any time | the lock and its permits until it is disposed, `DisposeEndsAttempt` |
| `watch` | 2 users, one also the thread of the `SynchronizingObject`; 1 connection; 3 calls; enumeration and registration failing; disposal | the service's lock, no registration leaks, `CallbackIsSet`, `StopIsFinal`, every call returns |
| `changes` | 2 connections, 1 user, event handlers that call the watcher, 3 calls | no signalled change is lost, the right event for a change that comes alone, the handler catches up, `KeepsItsWord` |
| `requests` | 2 threads, 2 connections, 1 port, 2 requests | enumerations are snapshots, hang ups keep their word, a loss is told as one, blocks are owned, every request ends |
| `container` | 2 threads, 2 scopes, 3 services, 4 calls | one instance, no captive, owners dispose |

`CHECK_DEADLOCK FALSE` stands in three runs, because the code really can stop there.
In `overlap` a token cancelled between the lock and its registration runs the
callback on the thread that holds `SyncRoot`, and with `IsBusy` still set by an
earlier dial that callback waits for its own thread; with `Inline` a continuation
does the same. In `dispose` and `watch` a thread blocked on a disposed semaphore may
stay blocked. In the other runs a state in which nothing moves but something is
unfinished is an error: `Rest` is allowed only when all is quiet.

**Bounds.** *Dialing.* Two dials are enough for one to be mistaken for the other,
and for every pair of threads to meet; a third adds no new pair of fields. One
intermediate state (`MaxStates`) is a callback before the outcome. Cancelling,
failing and overlapping at once with two dials is out of TLC's reach; the runs
split it so that each property meets what endangers it.
`ThrownLeavesNoAttempt` holds only while `RasHangUp` works (the catch block has
nothing left to try when it does not), so `overlap` does not let it fail;
`dispose` does. *Watching.* Three calls are a start, a stop and a start, a restart
in between, or two users who start at once; `MaxRegs` is what they can register.
Two connections are the fewest for one to come while another goes. `watch` needs
two users and one connection, `changes` one user and two connections; both
together are too many. *Requests.* Two requests are one of either thread, or two
in sequence; two references to `c1` let another process close or open one between
two hang ups. With two entries at most an enumeration retries once; the loop has
no state that a second retry would meet differently. Devices are all of a known
type, or a connection has none, as has the port, and the other connection is frame
relay; a status may report either for `c1` or `c2`. RAS refuses each of its calls at
times, endpoints are unknown and memory runs out. `MaxData` of 2 gives the data room to
grow, to shrink and to vanish. *Container.* A singleton that takes a transient that
takes a per-scope service is the shortest chain through which a scope could be
captured. Four calls are two resolutions and two disposals, or four of either;
`MaxMade` is as many as they can make.

**Fairness.** A thread that can run does, RAS brings an attempt to an outcome (it
has timeouts of its own), and the pool runs what is queued; nobody has to dial,
call, cancel or dispose, and no connection has to come or go. A thread that waits
for a semaphore that is disposed is exempt. Weak fairness suffices, as the holder
of each lock leaves it and only finitely many others compete. It justifies
`EveryCallReturns`, `EveryChangeIsNoticed`, `EveryRequestEnds` and the termination
in `KeepsPromise`.

**The promises.** `KeepsPromise` shows that the dialer implements `DialPromise`: a
dial at a time, one end per dial, no `canceled` without a request, no end but
`connected` while the line is up, no line cut under a caller who did not ask.
`KeepsItsWord` shows that the watcher implements `WatcherPromise`: each connection
is told at most once to have come and at most once to have gone, in this order,
and only when it did. A watcher does not promise to tell everything, nor by which
of its two events: see the next section.

## 4. Where code and intention part

Runs that are expected to find a violation; each is told in full under
`findings` in `PROJECT.json`.

| Run | Line | What TLC finds |
| --- | --- | --- |
| `precancelled` | `RasDialService.cs:55` | a cancelled `Wait` is followed by `Release`: the lock admits two |
| `stale_token` | `RasDialService.cs:113` | the token of a finished dial cancels the next one's task |
| `wrong_event` | `RasConnectionNotificationCallbackHandler.cs:66` | one connection goes and another comes before the handler looks: the one that has gone is raised as `Connected`, the other is never told |
| `half_subscribed` | `RasConnectionNotificationService.cs:59` | the second registration fails: `Start` has thrown and `IsActive` is true |

More behaviours of this kind were met and have no run of their own. Those of dialing
can be seen with TLC by changing a configuration as told:

* A dial cancelled between its guard and `RasDial` leaves `IsBusy` set for good
  (`RasDialService.cs:133`). `IdleIsNotBusy` has that as its exception; without the
  second disjunct `cancel` fails.
* The busy check comes before the lock (`:51`), so two attempts may be in progress
  at once: `overlap`, with an invariant that at most one attempt is live.
* A cancellation whose dial the callback ended meanwhile, between its test of
  `IsBusy` and the lock (`:92`), resets the busy flag of the next dial and cancels
  it: `BusyWhilePending` with two dials and `CancelWindows` of any time, or
  `CanceledByOwnToken` in `stale_token` with `CancelWindows` of `during`.
* `SetResult` on a task the cancelling thread has completed throws, and from the
  catch block the exception goes to RAS (`DefaultRasDialCallbackHandler.cs:167`):
  `NothingEscapesToRas` with cancellation.
* A redial in a continuation of the canceled task never returns, as `SetCanceled`
  runs it under `SyncRoot` (`RasDialService.cs:113`): `redial` with `Inline` and
  cancellation.
* The cancelling thread and `OnCallback` both free the EAP buffer of a dial
  (`:191`), whose field keeps the freed address: `EapFreedOnce` without its
  exception for cancelled dials.
* When an allocation fails in the retry loop of the EAP data, the catch block frees
  the block already freed (`RasGetEapUserDataService.cs:59`); when the data shrinks
  to nothing between two calls, the block is left to nobody. `BuffersAreOwned`
  names both as its exceptions.
* The frame relay entry of `DeviceTypeFactory.cs:15` names the device where the
  others name a factory: when it comes to a frame relay device an enumeration
  throws `KeyNotFoundException`, the rest of the list undone, and so does a status
  of a connection through one. `EnumerationIsSnapshot` without the disjunct for it in
  `BrokeOff` fails in `requests`.
* A device without a type is null to whoever lists devices, ends an enumeration of
  connections with an `InvalidOperationException` (`RasEnumConnectionsService.cs:72`),
  and makes a status throw an `ArgumentNullException` for a parameter no caller
  passed (`RasConnectionStatus.cs:60`). `EnumerationIsSnapshot` and `LossIsTold` name
  these cases and admit no others.
* `RasConnectionWatcher.cs:26` documents an `ObjectDisposedException` that the
  setter of `Connection` does not throw.
* A second `Dispose` of the notification service waits on a disposed `SyncRoot`
  (`RasConnectionNotificationService.cs:115`) and throws from its finally clause.
* A callback that enters the handler between `RasConnectionNotification` and the
  assignment of the delegate (`:92`) ends the process. `CallbackIsSet` says that
  this window is the only one.

Some properties are stated with the limit the code has. `LastCallbackStops` speaks of
a handler not yet initialized for another dial: a redial made before the last
callback returns resets `Completed`, and that callback returns true.
`DisposeEndsAttempt` speaks of an attempt that `Dispose` itself cancels: when a
cancellation is already waiting for `SyncRoot`, `Cancel` does nothing, `Dispose`
disposes the semaphore under it and nobody hangs up. `KeepsPromise` is checked
where dials that follow each other are not cancelled once they have the lock, and
over one dial that is cancelled at any time; `NoOrphanedAttempt` over one dial.
`ChangesAreSignalled` excepts what `missed` records: changes while nobody was asked
for them, and signals that `Unregister` drops with the event. `OwnersDispose` speaks of what a lifetime gave before its first `Dispose`: the loser of a race in
`GetOrAdd` is never disposed, nor is what a disposed lifetime goes on giving.

## 5. What is proved

For every value of the constants that meets the assumption of the module
(`DialAssumption`, `WatchAssumption`, `RequestAssumption`, `ContainerAssumption`:
types and bounds, that a machine has finitely many connections and devices, and
that the error codes for a refusal are not those with a meaning of their own).

**`DialingProofs`.**
* `TypeCorrect`: `Spec => []TypeOK`, one lemma per group of steps.
* `SyncRootExcludes`: if no token is cancelled before its `DialAsync` has the lock,
  `Spec => []SyncRootIsLock`, with overlapping dials, failures, continuations and
  disposal. `SyncRootIsLock` alone is not inductive: it does not say that the permit
  is gone while a thread holds the lock. `LockInv` adds that, that no permit is
  made up, and that the location `releaseOnly`, in which a thread releases what it
  never took, is not reached. The assumption cannot be dropped: `precancelled` is
  the counterexample without it.
* `ThrownLeavesNothing`: if `RasHangUp` does not fail and the dialer is not
  disposed, `Spec => []ThrownLeavesNoAttempt`. `ThrownInv` follows a dial through
  `DialAsync`: before `RasDial` there is no attempt, and on the way to the catch
  block a live attempt has its handle in the context, so that `HangUpIfNecessary`
  ends it.
* `PermitsBalance`: `Spec => []PermitsAreAccountedFor`, with no hypothesis: overlapping
  dials, cancellation before the lock included, all failures, until the dialer is
  disposed. `PermitInv` counts: the permits of `SyncRoot` and the threads that hold
  one make one, and at most one more for each dial that threw without ever having
  entered. That every other `Release` gives back what a `Wait` took needs that a
  cancellation callback does not start over while it is inside, hence
  `Unregistered`.

**`DialsInTurn`.** The hypothesis is `InTurn`: callers wait for one dial to end before
they make the next, cancel a dial at most before it has the lock, and do not
dispose the dialer. The code needs it: a token cancelled later may cancel the next
dial (`stale_token`), and overlapping dials share every field (section 4). Nothing
is assumed of RAS, of the number of dials or of what fails, except, for some, that
`RasHangUp` does not. `TurnInv` is the one inductive invariant. It says for each
dial what its task, attempt, callback and EAP buffer can be at each of its locations
(`Progress`, `CallbackProgress`, `EapProgress`); that the dial that is not over owns
the fields the dials share, first those of the service, then those of the handler
(`Owns`); that there is one such dial; and that the busy flag is set from
`BeginDial` to whatever ends it (`BusyIffDialing`). From it:
* whatever fails, `HandshakeHolds` (`HandleIsOurs`), `ResultsStay`
  (`ResultStaysConnected`), `BusyUntilSettled` (`BusyWhilePending`) and
  `LastCallbackStopsRas` (`LastCallbackStops`);
* if `RasHangUp` works, `NotBusyWhenOver` (`IdleIsNotBusy`), `NothingIsOrphaned`
  (`NoOrphanedAttempt`), `EapIsFreedOnce` (`EapFreedOnce`), `NothingEscapes`
  (`NothingEscapesToRas`) and `StaysInPromise`: every step of the dialer is a step of
  `DialPromise` or a stutter (`Promise!Allowed`, its safety part).

**`LoneDial`.** One dial, cancelled at any time. The stale token needs a second dial,
so there is no hypothesis about cancelling.
* With every failure, and disposed at any time: `LoneSyncRootExcludes`
  (`SyncRootIsLock`; a permit is made up only when the call throws, and then nobody
  else comes), `LoneHandshakeHolds` (`HandleIsOurs`) and `DisposeEndsItsAttempt`
  (`DisposeEndsAttempt`), by `LoneInv`. It orders the four threads: what may have
  started at each location of the caller, and that a cancellation callback that has
  passed its hang up leaves no attempt that is still dialing.
* Not disposed, `RasHangUp` working: `LoneIsNotOrphaned` (`NoOrphanedAttempt`),
  `LoneBusyWhilePending` (`BusyWhilePending`), `LoneIdleIsNotBusy` (`IdleIsNotBusy`),
  `LoneEapFreedOnce` (`EapFreedOnce`) and `LoneStaysInPromise` (`Promise!Allowed`), by
  `CalmInv`. It follows the race between the callback and the cancellation: which of
  them may still settle the task, reset the flag or free the buffer.

**`WatchingProofs`.**
* `TypeCorrect`, and `SyncRootExcludes` (`OneSubscriber`) by `LockInv`: while a thread
  is in `Holds` there is no permit, and never more than one.
* `NothingLeaks` (`SubscriptionsAreLive`) and `StoppedForGood` (`StopIsFinal`).
  The property speaks of moments when nobody is inside; `RegInv` says what holds in
  between: which registration a thread is making, that only that one may be live
  without being in the dictionary, and that only those a thread in `Unsubscribe`
  has passed may be in the dictionary without being live.
* `CallbackWindow` (`CallbackIsSet`) by `CallInv`: a registration whose event RAS
  has, a callback on the pool for it or the thread in the handler has its delegate,
  or its maker is about to assign it.
* `NoChangeIsLost` (`ChangesAreSignalled`), which is inductive given the types:
  every step that makes the handler's knowledge stale leaves a signal, every step
  that takes a signal leaves a callback, and an enumeration makes it true again.
* `LoneChangeIsTold` (`LoneChangeIsRight`) by `LoneInv`: as long as the last change is
  one that came when everything was watched and settled, each event that is set,
  callback on the pool and thread in the handler is of a registration of its kind,
  and a delegate has the kind of its registration. The wrong event takes two
  changes.

**`WatcherRefinement`.** `WatcherKeepsItsWord`: `Spec => KeepsItsWord`, every behaviour
of the watcher implements `WatcherPromise`. Most steps stutter; `Comes`, `Goes` and
`Raise` map to steps of the promise. `TellInv` makes `Raise` do so: what was told to
have come is known to the handler or gone, what was told to have gone is gone and
known no more, and what is still to be reported was not told.

**`ContainerProofs`.** `TypeCorrect`, `CacheDecides` (`OneInstance`) and
`DisposedWithOwner` (`OwnersDispose`) from one invariant `IInv`: a frame that looks
into a cache has one; an entry of a cache was made for it, and is what anyone was
given from it (so an entry is never replaced); a `Dispose` in progress has still
ahead of it, or behind it, everything given before it began. `NothingIsCaptive`
(`NoCaptive`) by `CaptiveInv`: each instance can be given an origin, the lifetime its
factory was resolving from, so that what a lifetime keeps has that lifetime as its
origin, and a constructor's argument has the origin of what it is given to, or the
container's own. The stack of factories shows why: one that caches goes on from its
cache, and what is resolved below it stays there or goes to `Root`. `Held`, the
chain of arguments, is a recursive function; that it exists, and that what it
reaches has one of the two origins, follows from the least number principle, as the
argument of a constructor was made before.

**`RequestProofs`.** `TypeCorrect`, `EnumerationIsOneMoment`
(`EnumerationIsSnapshot`), `HangUpHoldsItsWord` (`HangUpKeepsItsWord`),
`LossHasItsException` (`LossIsTold`) and `BuffersHaveOneOwner` (`BuffersAreOwned`),
from an invariant `IInv` with four parts for each thread, which the steps of others
do not disturb. `ListInv`: the list as it is now is among those seen, until RAS has
answered with one of them; what is yielded is part of the answer, and an enumeration
that throws broke off at an entry of it that could not be made (`BrokeOff`).
`CloseInv`: a hang up of all references leaves its loop only when the connection is
gone, and a handle that is gone stays gone. `BufferInv`: at each location whether the thread's block
is live; with `BlocksAreApart`, no thread frees another's. The properties alone say
nothing of a request in progress. `LossIsTold` is an action property, proved of each
step from the types: `ConversionTypes` says which answers make which exception, and
`StatusReturnsTypes` that `ERROR_NO_CONNECTION` is given for a connection that is gone
and no other, so that a loss and an unusable answer are never told as each other.

The strengthened invariants were run through TLC before they were proved.

Every invariant of the passing runs is stated by a theorem. Only model-checked:

* liveness, which is beyond the prover: `EveryCallReturns`, `EveryChangeIsNoticed`,
  `EveryRequestEnds`, and `DialPromise!EveryDialEnds`, by which `KeepsPromise` says more
  than `StaysInPromise` (`DialPromise!Spec` is `Allowed /\ EveryDialEnds`);
* dials that overlap, or that follow one another and are cancelled once they have
  the lock. Most properties of dialing fail there, as section 4 tells; those that
  stand, `PermitsBalance`, `SyncRootExcludes` and `ThrownLeavesNothing`, are proved
  for them as far as their hypotheses go.

## 6. What is not modelled

* The synchronous `Connect` and `StateChanged`: `Connect` waits for the task of
  `DialAsync`, and the event is raised on the RAS thread with no lock held that a
  caller needs.
* Service registrations: a list made once by a static initialiser.
* Values (`Luid`, statistics): immutable records with equality.
* Texts of messages and traces, marshalling of structures, P/Invoke declarations,
  credentials and the check of entry names: one call into Windows each and a
  conversion, with no state and no retry.
* Diagnostics and logging advice: they wrap calls and change nothing.
* The console runner and the examples, and the headers of the Windows SDK.

## 7. Plan

1. Between `DialsInTurn` and `LoneDial`: dials in turn, each cancelled while it is in
   progress. A cancelling thread that is still inside when the next dial begins resets
   its busy flag (`RasDialService.cs:95`), so this takes a constant by which a caller
   waits for that thread too; the invariant is then `TurnInv` with the race of
   `CalmInv` for the one dial that is not over.
2. What `OnCallback` may throw into RAS while its dial is cancelled
   (`NothingEscapesToRas` fails there), stated by the location it comes from.

------------------------------- MODULE WatchState -------------------------------
(***************************************************************************)
(* The state shared by the parts of one RasConnectionWatcher: the watcher  *)
(* itself, its notification service (RasConnectionNotificationService.cs)  *)
(* with the callbacks it registers (RegisteredCallback.cs), the handler    *)
(* they call on pool threads (RasConnectionNotificationCallbackHandler.cs),*)
(* and the connections of the machine as RAS knows them.                   *)
(*                                                                         *)
(* A registration is one RegisterCallback: a state object, an auto-reset   *)
(* event and a wait of the thread pool on it.  They are numbered in the    *)
(* order they are made; 0 is none.  A connection has one life: it comes    *)
(* and goes at most once, and its handle is not used again.                *)
(***************************************************************************)
EXTENDS Naturals, Sequences

CONSTANTS
    Conns,          \* the connections that may come and go
    NoConn,         \* a null connection, INVALID_HANDLE_VALUE
    Users,          \* the threads that use the watcher
    Pool,           \* the pool thread inside the handler, as a user: an event
                    \* handler may call the watcher
    Runners,        \* who runs event handlers: Pool, or the thread of the
                    \* SynchronizingObject
    Targets,        \* connections a user may give the watcher, or NoConn
    Failures,       \* which calls into Windows may fail
    MayDispose,     \* TRUE: the watcher may be disposed, at any time
    MaxCalls,       \* bound: calls of the watcher
    MaxRegs         \* bound: registrations made, two by a call at most

ASSUME WatchAssumption ==
    /\ NoConn \notin Conns
    /\ Pool \notin Users
    /\ Runners \subseteq Users \cup {Pool}
    /\ Targets \subseteq Conns \cup {NoConn}
    /\ Failures \subseteq {"enum", "create", "notify"}
    /\ MayDispose \in BOOLEAN
    /\ MaxCalls \in Nat
    /\ MaxRegs \in Nat /\ MaxRegs >= 2 * MaxCalls

Threads == Users \cup {Pool}
Regs    == 1..MaxRegs
Kinds   == {"Connection", "Disconnection"}

VARIABLES
    up, past,       \* connections RAS has, connections it had
    runner,         \* the thread event handlers run on
    sem,            \* count of the service's SyncRoot, a SemaphoreSlim(1)
    subs,           \* notifications: the registration of each kind, or 0
    serviceDisposed,\* the service and its SyncRoot are disposed
    made,           \* registrations made so far
    kind,           \* the change a registration asks for
    target,         \* the handle it was registered with
    wait,           \* its wait on the event: "armed" once RAS knows the event
    signal,         \* its auto-reset event is set
    queued,         \* callbacks on the pool that have not entered the handler
    callback,       \* stateObject.Callback
    initialized,
    previous,       \* previousState
    hpc,            \* where the thread is that has the handler's lock
    holder,         \* the registration that thread was called for
    current,        \* the connections it enumerated
    pending,        \* the changes it has still to report
    subject,        \* the connection of the event being raised
    connection,     \* RasConnectionWatcher.Connection
    disposed,       \* the watcher is disposed
    pc,             \* location of each thread inside the watcher
    after,          \* what a thread does when it has unsubscribed
    context,        \* the connection in the RasNotificationContext it made
    reg,            \* the registration it is making
    calls,          \* calls made
    crashed,        \* an exception left a pool thread: the process is gone
    missed, told, lone  \* history, for the properties: see the end

rasVars     == <<up, past, runner>>
serviceVars == <<sem, subs, serviceDisposed>>
regVars     == <<made, kind, target, wait, signal, queued, callback>>
handlerVars == <<initialized, previous, hpc, holder, current, pending, subject>>
watcherVars == <<connection, disposed>>
threadVars  == <<pc, after, context, reg, calls>>
history     == <<missed, told, lone>>
vars == <<rasVars, serviceVars, regVars, handlerVars, watcherVars, threadVars,
          crashed, history>>

(* Locations.  A thread in one of Holds has passed SyncRoot.Wait and has   *)
(* not yet called SyncRoot.Release.                                        *)
Registers == {"create", "notify", "assign", "catch"}
Holds == Registers \cup {"initialize", "release", "unregister", "unregister2", "clear", "unlock"}
PC == Holds \cup {"idle", "subscribe", "enter", "stop", "start", "reset",
                  "unsubscribe", "disposeService", "disposeWatcher"}

IsActive == \E k \in Kinds : subs[k] # 0
InUse(r) == wait[r] \in {"waiting", "armed"}

(* The connections the handler knows of: what it enumerated last.          *)
Known   == IF hpc \in {"report", "raising", "store"} THEN current ELSE previous
Stale   == (up \ Known) \cup (Known \ up)

(* The type invariant. *)
TypeOK ==
    /\ up \subseteq Conns /\ past \subseteq Conns
    /\ runner \in Runners
    /\ sem \in Nat
    /\ subs \in [Kinds -> Regs \cup {0}]
    /\ serviceDisposed \in BOOLEAN
    /\ made \in 0..MaxRegs
    /\ kind \in [Regs -> Kinds]
    /\ target \in [Regs -> Conns \cup {NoConn}]
    /\ wait \in [Regs -> {"none", "waiting", "armed", "unregistered"}]
    /\ signal \in [Regs -> BOOLEAN]
    /\ queued \in [Regs -> Nat]
    /\ callback \in [Regs -> {"null", "OnConnected", "OnDisconnected"}]
    /\ initialized \in BOOLEAN
    /\ previous \subseteq Conns /\ current \subseteq Conns /\ pending \subseteq Conns
    /\ hpc \in {"free", "enumerate", "report", "raising", "store"}
    /\ holder \in Regs \cup {0}
    /\ subject \in Conns \cup {NoConn}
    /\ connection \in Conns \cup {NoConn}
    /\ disposed \in BOOLEAN
    /\ pc \in [Threads -> PC]
    /\ after \in [Threads -> {"return", "start", "dispose"}]
    /\ context \in [Threads -> Conns \cup {NoConn}]
    /\ reg \in [Threads -> Regs \cup {0}]
    /\ calls \in 0..MaxCalls
    /\ crashed \in BOOLEAN
    /\ missed \subseteq Conns
    /\ told \in [Conns -> Seq({"came", "went"})]
    /\ lone \in Conns \cup {NoConn}

(* A watcher just constructed, on a machine with any connections. *)
Init ==
    /\ up \in SUBSET Conns /\ past = {}
    /\ runner \in Runners
    /\ sem = 1 /\ subs = [k \in Kinds |-> 0] /\ serviceDisposed = FALSE
    /\ made = 0
    /\ kind = [r \in Regs |-> "Connection"]
    /\ target = [r \in Regs |-> NoConn]
    /\ wait = [r \in Regs |-> "none"]
    /\ signal = [r \in Regs |-> FALSE]
    /\ queued = [r \in Regs |-> 0]
    /\ callback = [r \in Regs |-> "null"]
    /\ initialized = FALSE /\ previous = {}
    /\ hpc = "free" /\ holder = 0 /\ current = {} /\ pending = {} /\ subject = NoConn
    /\ connection = NoConn /\ disposed = FALSE
    /\ pc = [u \in Threads |-> "idle"]
    /\ after = [u \in Threads |-> "return"]
    /\ context = [u \in Threads |-> NoConn]
    /\ reg = [u \in Threads |-> 0]
    /\ calls = 0
    /\ crashed = FALSE
    /\ missed = up /\ told = [c \in Conns |-> <<>>] /\ lone = NoConn

-----------------------------------------------------------------------------
(* RAS and the thread pool (outside the library).                          *)

(* Defect: the wait stays registered with the pool. *)
UnregisterForgotten(r) == UNCHANGED <<wait, signal, missed>>

(* RegisteredCallback.Dispose: the pool waits no more on the event, which  *)
(* is closed.  Callbacks already on the pool stay there; a signal nobody   *)
(* has seen is lost, and with it the changes it stood for.                 *)
Unregister(r) ==
    /\ wait' = [wait EXCEPT ![r] = "unregistered"]
    /\ signal' = [signal EXCEPT ![r] = FALSE]
    /\ missed' = IF signal[r] THEN missed \cup Stale ELSE missed

(* The wait on a set event resets it and puts a callback on the pool, and  *)
(* waits again (executeOnlyOnce is false).                                 *)
PoolQueues(r) ==
    /\ wait[r] = "armed" /\ signal[r]
    /\ signal' = [signal EXCEPT ![r] = FALSE]
    /\ queued' = [queued EXCEPT ![r] = @ + 1]
    /\ UNCHANGED <<rasVars, serviceVars, made, kind, target, wait, callback,
                   handlerVars, watcherVars, threadVars, crashed, history>>

Asks(r, k, c) == wait[r] = "armed" /\ kind[r] = k /\ target[r] \in {NoConn, c}

(* Everything is watched and the handler is up to date.                    *)
Calm ==
    /\ \A k \in Kinds : \E r \in Regs : Asks(r, k, NoConn)
    /\ \A r \in Regs : ~signal[r] /\ queued[r] = 0
    /\ hpc = "free" /\ previous = up

(* A change of connection c sets the events of those who asked for it.     *)
Signals(k, c) ==
    LET woken == {r \in Regs : Asks(r, k, c)}
    IN  /\ signal' = [r \in Regs |-> signal[r] \/ r \in woken]
        /\ missed' = IF woken = {} THEN missed \cup {c} ELSE missed \ {c}
        /\ lone' = IF Calm THEN c ELSE NoConn

Comes(c) ==
    /\ c \notin up \cup past
    /\ up' = up \cup {c}
    /\ Signals("Connection", c)
    /\ UNCHANGED <<past, runner, serviceVars, made, kind, target, wait, queued,
                   callback, handlerVars, watcherVars, threadVars, crashed, told>>

Goes(c) ==
    /\ c \in up
    /\ up' = up \ {c} /\ past' = past \cup {c}
    /\ Signals("Disconnection", c)
    /\ UNCHANGED <<runner, serviceVars, made, kind, target, wait, queued,
                   callback, handlerVars, watcherVars, threadVars, crashed, told>>
=============================================================================

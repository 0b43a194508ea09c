----------------------------- MODULE WatchingProofs -----------------------------
(***************************************************************************)
(* Theorems about RasConnectionWatcher, for any number of connections and  *)
(* of threads that use the watcher, whatever fails.                        *)
(***************************************************************************)
EXTENDS RasConnectionWatcher, TLAPS

-----------------------------------------------------------------------------
(* Types.                                                                  *)

LEMMA InitTypes == Init => TypeOK
  <1> SUFFICES ASSUME Init PROVE TypeOK
    OBVIOUS
  <1>1. /\ subs \in [Kinds -> Regs \cup {0}]
        /\ kind \in [Regs -> Kinds]
        /\ target \in [Regs -> Conns \cup {NoConn}]
        /\ wait \in [Regs -> {"none", "waiting", "armed", "unregistered"}]
        /\ signal \in [Regs -> BOOLEAN]
        /\ queued \in [Regs -> Nat]
        /\ callback \in [Regs -> {"null", "OnConnected", "OnDisconnected"}]
    BY DEF Init, Kinds
  <1>2. /\ pc \in [Threads -> PC]
        /\ after \in [Threads -> {"return", "start", "dispose"}]
        /\ context \in [Threads -> Conns \cup {NoConn}]
        /\ reg \in [Threads -> Regs \cup {0}]
        /\ told \in [Conns -> Seq({"came", "went"})]
    BY DEF Init, PC
  <1>3. made \in 0..MaxRegs /\ calls \in 0..MaxCalls
    BY WatchAssumption DEF Init
  <1> QED
    BY <1>1, <1>2, <1>3 DEF Init, TypeOK

LEMMA SubscribeTypes ==
  ASSUME TypeOK, NEW u \in Threads, SubscribeStep(u)
  PROVE  TypeOK'
  <1> USE DEF TypeOK, PC, Holds, Registers, At, rasVars, serviceVars, regVars,
        handlerVars, watcherVars, threadVars, history
  <1>1. CASE Guard(u, "subscribe", "enter")
    BY <1>1 DEF Guard
  <1>2. CASE Enter(u, "enter", "initialize")
    BY <1>2 DEF Enter, LockSubscriptions
  <1>3. CASE EnterThrows(u, "enter")
    BY <1>3 DEF EnterThrows
  <1>4. CASE Initialize(u)
    <2>1. pc' \in [Threads -> PC] /\ initialized' \in BOOLEAN /\ previous' \subseteq Conns
      BY <1>4 DEF Initialize, InitializeSnapshot
    <2> QED
      BY <1>4, <2>1 DEF Initialize
  <1>5. CASE Create(u)
    <2>1. CASE /\ At(u, "create", "notify")
               /\ made < MaxRegs
               /\ made' = made + 1
               /\ kind' = [kind EXCEPT ![made + 1] = NextKind(u)]
               /\ wait' = [wait EXCEPT ![made + 1] = "waiting"]
               /\ reg' = [reg EXCEPT ![u] = made + 1]
      <3>1. NextKind(u) \in Kinds
        BY DEF NextKind, Kinds
      <3>2. made + 1 \in Regs /\ made' \in 0..MaxRegs
        BY <2>1, WatchAssumption DEF Regs
      <3>3. /\ kind' \in [Regs -> Kinds]
            /\ wait' \in [Regs -> {"none", "waiting", "armed", "unregistered"}]
        BY <2>1, <3>1
      <3>4. pc' \in [Threads -> PC] /\ reg' \in [Threads -> Regs \cup {0}]
        BY <2>1, <3>2
      <3> QED
        BY <1>5, <3>2, <3>3, <3>4 DEF Create
    <2>2. CASE /\ At(u, "create", "release")
               /\ UNCHANGED <<made, kind, wait>>
               /\ reg' = [reg EXCEPT ![u] = 0]
      BY <1>5, <2>2 DEF Create
    <2> QED
      BY <1>5, <2>1, <2>2 DEF Create
  <1>6. CASE Notify(u)
    <2>1. HandleFor(u) \in Conns \cup {NoConn}
      BY DEF HandleFor
    <2>2. CASE pc' = [pc EXCEPT ![u] = "assign"]
      <3>1. /\ target' = [target EXCEPT ![reg[u]] = HandleFor(u)]
            /\ wait' = [wait EXCEPT ![reg[u]] = "armed"]
        BY <1>6, <2>2 DEF Notify
      <3>2. /\ target' \in [Regs -> Conns \cup {NoConn}]
            /\ wait' \in [Regs -> {"none", "waiting", "armed", "unregistered"}]
        BY <2>1, <3>1
      <3> QED
        BY <1>6, <2>2, <3>2 DEF Notify
    <2>3. CASE pc' = [pc EXCEPT ![u] = "catch"]
      BY <1>6, <2>3 DEF Notify
    <2> QED
      BY <1>6, <2>2, <2>3 DEF Notify
  <1>7. CASE Assign(u)
    <2>1. CallbackFor(kind[reg[u]]) \in {"null", "OnConnected", "OnDisconnected"}
      BY DEF CallbackFor
    <2>2. callback' \in [Regs -> {"null", "OnConnected", "OnDisconnected"}]
      BY <1>7, <2>1 DEF Assign
    <2>3. /\ subs' \in [Kinds -> Regs \cup {0}]
          /\ reg' \in [Threads -> Regs \cup {0}]
      BY <1>7 DEF Assign
    <2>4. pc' \in [Threads -> PC]
      <3>1. \E next \in {"catch", "create", "release"} : pc' = [pc EXCEPT ![u] = next]
        BY <1>7 DEF Assign
      <3> QED
        BY <3>1
    <2> QED
      BY <1>7, <2>2, <2>3, <2>4 DEF Assign
  <1>8. CASE Catch(u)
    <2>1. Stale \subseteq Conns
      BY DEF Stale, Known
    <2>2. /\ wait' \in [Regs -> {"none", "waiting", "armed", "unregistered"}]
          /\ signal' \in [Regs -> BOOLEAN]
          /\ missed' \subseteq Conns
      BY <1>8, <2>1 DEF Catch, CatchDisposes, Unregister
    <2> QED
      BY <1>8, <2>2 DEF Catch
  <1>9. CASE Leave(u, "release", "idle")
    BY <1>9 DEF Leave, UnlockSubscriptions
  <1> QED
    BY <1>1, <1>2, <1>3, <1>4, <1>5, <1>6, <1>7, <1>8, <1>9 DEF SubscribeStep

LEMMA UnsubscribeTypes ==
  ASSUME TypeOK, NEW u \in Threads, UnsubscribeStep(u)
  PROVE  TypeOK'
  <1> USE DEF TypeOK, PC, Holds, Registers, At, rasVars, serviceVars, regVars,
        handlerVars, watcherVars, threadVars, history
  <1>1. CASE Guard(u, "reset", "unsubscribe")
    BY <1>1 DEF Guard
  <1>2. CASE Enter(u, "unsubscribe", "unregister")
    BY <1>2 DEF Enter, LockSubscriptions
  <1>3. CASE EnterThrows(u, "unsubscribe")
    BY <1>3 DEF EnterThrows
  <1>4. ASSUME NEW k \in Kinds, NEW here, NEW next \in PC, DisposeCallback(u, k, here, next)
        PROVE  TypeOK'
    <2>1. Stale \subseteq Conns
      BY DEF Stale, Known
    <2>2. /\ wait' \in [Regs -> {"none", "waiting", "armed", "unregistered"}]
          /\ signal' \in [Regs -> BOOLEAN]
          /\ missed' \subseteq Conns
      BY <1>4, <2>1 DEF DisposeCallback, Unregister
    <2> QED
      BY <1>4, <2>2 DEF DisposeCallback
  <1>5. CASE Clear(u)
    BY <1>5 DEF Clear, ClearSubscriptions
  <1>6. CASE Leave(u, "unlock", AfterUnsubscribe(u))
    <2>1. AfterUnsubscribe(u) \in PC
      BY DEF AfterUnsubscribe
    <2> QED
      BY <1>6, <2>1 DEF Leave, UnlockSubscriptions
  <1>7. CASE DisposeService(u)
    BY <1>7 DEF DisposeService
  <1> QED
    BY <1>1, <1>2, <1>3, <1>4, <1>5, <1>6, <1>7 DEF UnsubscribeStep, Kinds

LEMMA WatcherTypes ==
  ASSUME TypeOK, NEW u \in Threads, Restart(u) \/ DisposeWatcher(u) \/ Call(u)
  PROVE  TypeOK'
  <1> USE DEF TypeOK, PC, Holds, Registers, At, rasVars, serviceVars, regVars,
        handlerVars, watcherVars, threadVars, history, Calls, MayCall
  <1>1. CASE Restart(u)
    <2>1. CASE RestartStops(u) /\ UNCHANGED context
      BY <1>1, <2>1 DEF Restart, RestartStops
    <2>2. CASE RestartStarts(u) /\ UNCHANGED after
      BY <1>1, <2>2 DEF Restart, RestartStarts
    <2> QED
      BY <1>1, <2>1, <2>2 DEF Restart
  <1>2. CASE DisposeWatcher(u)
    BY <1>2 DEF DisposeWatcher
  <1>3. CASE Start(u)
    BY <1>3, WatchAssumption DEF Start
  <1>4. CASE Stop(u)
    BY <1>4, WatchAssumption DEF Stop
  <1>5. CASE CallDispose(u)
    BY <1>5, WatchAssumption DEF CallDispose
  <1>6. ASSUME NEW c \in Targets, SetConnection(u, c)
        PROVE  TypeOK'
    BY <1>6, WatchAssumption DEF SetConnection
  <1> QED
    BY <1>1, <1>2, <1>3, <1>4, <1>5, <1>6 DEF Call

LEMMA HandlerTypes ==
  ASSUME TypeOK, HandlerStep \/ \E r \in Regs : PoolQueues(r) \/ CallbackEnters(r)
  PROVE  TypeOK'
  <1> USE DEF TypeOK, rasVars, serviceVars, regVars, handlerVars, watcherVars,
        threadVars, history
  <1>1. CASE Enumerate
    BY <1>1 DEF Enumerate, FindConnectionChanges
  <1>2. CASE CallbackThrows
    BY <1>2 DEF CallbackThrows, Forget
  <1>3. CASE Raised
    BY <1>3 DEF Raised
  <1>4. CASE CallbackLeaves
    BY <1>4 DEF CallbackLeaves, Store, Forget
  <1>5. ASSUME NEW c \in Conns, Raise(c)
        PROVE  TypeOK'
    BY <1>5 DEF Raise
  <1>6. ASSUME NEW r \in Regs, PoolQueues(r)
        PROVE  TypeOK'
    BY <1>6 DEF PoolQueues
  <1>7. ASSUME NEW r \in Regs, CallbackEnters(r)
        PROVE  TypeOK'
    BY <1>7 DEF CallbackEnters
  <1> QED
    BY <1>1, <1>2, <1>3, <1>4, <1>5, <1>6, <1>7 DEF HandlerStep

LEMMA RasTypes ==
  ASSUME TypeOK, NEW c \in Conns, Comes(c) \/ Goes(c)
  PROVE  TypeOK'
  <1> USE DEF TypeOK, rasVars, serviceVars, regVars, handlerVars, watcherVars,
        threadVars, history
  <1>1. ASSUME NEW k, Signals(k, c)
        PROVE  /\ signal' \in [Regs -> BOOLEAN]
               /\ missed' \subseteq Conns
               /\ lone' \in Conns \cup {NoConn}
    BY <1>1 DEF Signals
  <1>2. CASE Comes(c)
    BY <1>1, <1>2 DEF Comes
  <1>3. CASE Goes(c)
    BY <1>1, <1>3 DEF Goes
  <1> QED
    BY <1>2, <1>3

LEMMA StutterTypes == TypeOK /\ UNCHANGED vars => TypeOK'
  BY DEF TypeOK, vars, rasVars, serviceVars, regVars, handlerVars, watcherVars,
     threadVars, history

LEMMA NextTypes == TypeOK /\ [Next]_vars => TypeOK'
  BY SubscribeTypes, UnsubscribeTypes, WatcherTypes, HandlerTypes, RasTypes,
     StutterTypes DEF Next, WatcherStep, Rest

(* TypeOK holds of every behaviour of a watcher: the state of              *)
(* RasConnectionWatcher, its service, handler and registrations has its    *)
(* type, whatever users, RAS and the thread pool do.                       *)
THEOREM TypeCorrect == Spec => []TypeOK
  BY InitTypes, NextTypes, PTL DEF Spec

-----------------------------------------------------------------------------
(* SyncRoot of the service.  Its permit is not there while a thread is     *)
(* inside, which makes OneSubscriber inductive.                            *)
LockInv ==
    /\ sem \in {0, 1}
    /\ OneSubscriber
    /\ (\E u \in Threads : pc[u] \in Holds) => sem = 0

LEMMA InitLock == Init => LockInv
  BY DEF Init, LockInv, OneSubscriber, Holds, Registers

LEMMA LockEnters ==
  ASSUME TypeOK, LockInv, NEW u \in Threads, NEW here, NEW next \in Holds,
         At(u, here, next), LockSubscriptions
  PROVE  LockInv'
  <1>1. sem = 1 /\ sem' = 0
    BY DEF LockInv, LockSubscriptions
  <1>2. \A v \in Threads : pc[v] \notin Holds
    BY <1>1 DEF LockInv
  <1>3. pc'[u] \in Holds /\ \A v \in Threads \ {u} : pc'[v] = pc[v]
    BY DEF At, TypeOK
  <1> QED
    BY <1>1, <1>2, <1>3 DEF LockInv, OneSubscriber

LEMMA LockLeaves ==
  ASSUME TypeOK, LockInv, NEW u \in Threads, NEW here \in Holds, NEW next \in PC \ Holds,
         At(u, here, next), UnlockSubscriptions \/ UNCHANGED sem
  PROVE  LockInv'
  <1>1. sem = 0
    BY DEF LockInv, At
  <1>2. sem' \in {0, 1}
    BY <1>1 DEF UnlockSubscriptions
  <1>3. \A v \in Threads \ {u} : pc[v] \notin Holds
    BY DEF LockInv, OneSubscriber, At
  <1>4. pc'[u] \notin Holds /\ \A v \in Threads \ {u} : pc'[v] = pc[v]
    BY DEF At, TypeOK
  <1> QED
    BY <1>2, <1>3, <1>4 DEF LockInv, OneSubscriber

(* A step between two locations that are both inside, or both outside.     *)
LEMMA LockStays ==
  ASSUME TypeOK, LockInv, NEW u \in Threads, NEW next \in PC,
         pc[u] \in Holds <=> next \in Holds,
         pc' = [pc EXCEPT ![u] = next], UNCHANGED sem
  PROVE  LockInv'
  <1>1. \A v \in Threads : pc'[v] \in Holds <=> pc[v] \in Holds
    BY DEF TypeOK
  <1> QED
    BY <1>1 DEF LockInv, OneSubscriber

LEMMA SubscribeLock ==
  ASSUME TypeOK, LockInv, NEW u \in Threads, SubscribeStep(u)
  PROVE  LockInv'
  <1> USE DEF PC, Holds, Registers, serviceVars
  <1>1. CASE Guard(u, "subscribe", "enter")
    BY <1>1, LockStays DEF Guard, At
  <1>2. CASE Enter(u, "enter", "initialize")
    BY <1>2, LockEnters DEF Enter
  <1>3. CASE EnterThrows(u, "enter")
    BY <1>3, LockStays DEF EnterThrows, At
  <1>4. CASE Initialize(u)
    <2>1. PICK next \in {"create", "release"} : pc' = [pc EXCEPT ![u] = next]
      BY <1>4 DEF Initialize, InitializeSnapshot
    <2> QED
      BY <1>4, <2>1, LockStays DEF Initialize
  <1>5. CASE Create(u)
    <2>1. PICK next \in {"notify", "release"} : At(u, "create", next)
      BY <1>5 DEF Create
    <2> QED
      BY <1>5, <2>1, LockStays DEF Create, At
  <1>6. CASE Notify(u)
    <2>1. PICK next \in {"assign", "catch"} : pc' = [pc EXCEPT ![u] = next]
      BY <1>6 DEF Notify
    <2> QED
      BY <1>6, <2>1, LockStays DEF Notify
  <1>7. CASE Assign(u)
    <2>1. PICK next \in {"catch", "create", "release"} : At(u, "assign", next)
      BY <1>7 DEF Assign
    <2> QED
      BY <1>7, <2>1, LockStays DEF Assign, At
  <1>8. CASE Catch(u)
    BY <1>8, LockStays DEF Catch, At
  <1>9. CASE Leave(u, "release", "idle")
    BY <1>9, LockLeaves DEF Leave
  <1> QED
    BY <1>1, <1>2, <1>3, <1>4, <1>5, <1>6, <1>7, <1>8, <1>9 DEF SubscribeStep

LEMMA UnsubscribeLock ==
  ASSUME TypeOK, LockInv, NEW u \in Threads, UnsubscribeStep(u)
  PROVE  LockInv'
  <1> USE DEF PC, Holds, Registers, serviceVars
  <1>1. CASE Guard(u, "reset", "unsubscribe")
    BY <1>1, LockStays DEF Guard, At
  <1>2. CASE Enter(u, "unsubscribe", "unregister")
    BY <1>2, LockEnters DEF Enter
  <1>3. CASE EnterThrows(u, "unsubscribe")
    BY <1>3, LockStays DEF EnterThrows, At
  <1>4. CASE DisposeCallback(u, "Connection", "unregister", "unregister2")
    BY <1>4, LockStays DEF DisposeCallback, At
  <1>5. CASE DisposeCallback(u, "Disconnection", "unregister2", "clear")
    BY <1>5, LockStays DEF DisposeCallback, At
  <1>6. CASE Clear(u)
    BY <1>6, LockStays DEF Clear, At
  <1>7. CASE Leave(u, "unlock", AfterUnsubscribe(u))
    <2>1. AfterUnsubscribe(u) \in PC \ Holds
      BY DEF AfterUnsubscribe, TypeOK
    <2> QED
      BY <1>7, <2>1, LockLeaves DEF Leave
  <1>8. CASE DisposeService(u)
    BY <1>8, LockStays DEF DisposeService, At
  <1> QED
    BY <1>1, <1>2, <1>3, <1>4, <1>5, <1>6, <1>7, <1>8 DEF UnsubscribeStep

(* The steps of the watcher's own methods and the calls of its users are   *)
(* outside of SyncRoot and leave the service and its registrations alone.  *)
LEMMA WatcherStepsOutside ==
  ASSUME TypeOK, NEW u \in Threads, Restart(u) \/ DisposeWatcher(u) \/ Call(u)
  PROVE  /\ \E next \in PC \ Holds : pc' = [pc EXCEPT ![u] = next]
         /\ pc[u] \notin Holds
         /\ UNCHANGED <<serviceVars, regVars, handlerVars, reg>>
  <1> USE DEF PC, Holds, Registers, At, Calls, MayCall
  <1>1. CASE Restart(u)
    BY <1>1 DEF Restart, RestartStops, RestartStarts
  <1>2. CASE DisposeWatcher(u)
    BY <1>2 DEF DisposeWatcher
  <1>3. CASE Start(u)
    BY <1>3 DEF Start
  <1>4. CASE Stop(u)
    BY <1>4 DEF Stop
  <1>5. CASE CallDispose(u)
    BY <1>5 DEF CallDispose
  <1>6. ASSUME NEW c \in Targets, SetConnection(u, c)
        PROVE  /\ \E next \in PC \ Holds : pc' = [pc EXCEPT ![u] = next]
               /\ pc[u] \notin Holds
               /\ UNCHANGED <<serviceVars, regVars, handlerVars, reg>>
    BY <1>6 DEF SetConnection
  <1> QED
    BY <1>1, <1>2, <1>3, <1>4, <1>5, <1>6 DEF Call

(* Everybody else: RAS, the pool and the threads it runs.                  *)
Others ==
    \/ HandlerStep
    \/ \E r \in Regs : PoolQueues(r) \/ CallbackEnters(r)
    \/ \E c \in Conns : Comes(c) \/ Goes(c)

LEMMA OthersLeaveService ==
  Others => UNCHANGED <<serviceVars, threadVars, made, kind, target, wait, callback>>
  BY DEF Others, HandlerStep, Enumerate, CallbackThrows, Raised, CallbackLeaves, Raise,
     PoolQueues, CallbackEnters, Comes, Goes, regVars

LEMMA NextLock == TypeOK /\ LockInv /\ [Next]_vars => LockInv'
  <1> SUFFICES ASSUME TypeOK, LockInv, [Next]_vars PROVE LockInv'
    OBVIOUS
  <1>1. ASSUME NEW u \in Threads, Restart(u) \/ DisposeWatcher(u) \/ Call(u)
        PROVE  LockInv'
    BY <1>1, WatcherStepsOutside, LockStays DEF serviceVars
  <1>2. CASE Others
    BY <1>2, OthersLeaveService DEF LockInv, OneSubscriber, serviceVars, threadVars
  <1>3. CASE UNCHANGED vars
    BY <1>3 DEF LockInv, OneSubscriber, vars, serviceVars, threadVars
  <1> QED
    BY <1>1, <1>2, <1>3, SubscribeLock, UnsubscribeLock DEF Next, WatcherStep, Others, Rest

(* OneSubscriber: at most one thread is inside Subscribe or Unsubscribe of *)
(* RasConnectionNotificationService, for any number of users, whatever     *)
(* fails in there, and while the service is disposed.                      *)
THEOREM SyncRootExcludes == Spec => []OneSubscriber
  <1>1. Init => TypeOK /\ LockInv
    BY InitTypes, InitLock
  <1>2. TypeOK /\ LockInv /\ [Next]_vars => (TypeOK /\ LockInv)'
    BY NextTypes, NextLock
  <1>3. LockInv => OneSubscriber
    BY DEF LockInv
  <1> QED
    BY <1>1, <1>2, <1>3, PTL DEF Spec

-----------------------------------------------------------------------------
(* Registrations.  Each one in use is in the dictionary or in the hands of *)
(* the one thread that makes it; each one in the dictionary is in use,     *)
(* until Unsubscribe has come to it.                                       *)
Making  == {"notify", "assign", "catch"}
Undoing == {"unregister2", "clear"}

RegInv ==
    /\ \A u \in Threads : pc[u] \in Making =>
          reg[u] \in 1..made /\ InUse(reg[u]) /\ \A k \in Kinds : subs[k] # reg[u]
    /\ \A k \in Kinds : subs[k] \in 0..made
    /\ \A r \in Regs : InUse(r) => r \in 1..made
    /\ \A r \in Regs : InUse(r) =>
          \/ \E k \in Kinds : subs[k] = r
          \/ \E u \in Threads : pc[u] \in Making /\ reg[u] = r
    /\ \A k \in Kinds : subs[k] # 0 =>
          InUse(subs[k]) \/ \E u \in Threads : pc[u] \in Undoing
    /\ \A u \in Threads, k \in Kinds :
          pc[u] = "clear" \/ (pc[u] = "unregister2" /\ k = "Connection")
             => subs[k] = 0 \/ ~InUse(subs[k])

(* The same, when thread u is the one inside SyncRoot. *)
HolderInv(u) ==
    /\ pc[u] \in Making =>
          reg[u] \in 1..made /\ InUse(reg[u]) /\ \A k \in Kinds : subs[k] # reg[u]
    /\ \A k \in Kinds : subs[k] \in 0..made
    /\ \A r \in Regs : InUse(r) => r \in 1..made
    /\ \A r \in Regs : InUse(r) =>
          (\E k \in Kinds : subs[k] = r) \/ (pc[u] \in Making /\ reg[u] = r)
    /\ \A k \in Kinds : subs[k] # 0 => InUse(subs[k]) \/ pc[u] \in Undoing
    /\ \A k \in Kinds :
          pc[u] = "clear" \/ (pc[u] = "unregister2" /\ k = "Connection")
             => subs[k] = 0 \/ ~InUse(subs[k])

LEMMA InitReg == Init => RegInv
  BY DEF Init, RegInv, Making, Undoing, InUse

(* A thread that neither makes nor undoes a registration moves.            *)
LEMMA RegStays ==
  ASSUME TypeOK, RegInv, NEW u \in Threads, NEW next \in PC \ (Making \cup Undoing),
         pc[u] \notin Making \cup Undoing,
         pc' = [pc EXCEPT ![u] = next], UNCHANGED <<subs, made, wait, reg>>
  PROVE  RegInv'
  <1>1. \A v \in Threads :
           pc'[v] \in Making \cup Undoing \/ pc[v] \in Making \cup Undoing => pc'[v] = pc[v]
    BY DEF TypeOK
  <1> QED
    BY <1>1 DEF RegInv, Making, Undoing, InUse

LEMMA RegOfHolder ==
  ASSUME TypeOK, LockInv, RegInv, NEW u \in Threads, pc[u] \in Holds
  PROVE  /\ HolderInv(u)
         /\ \A k \in Kinds : subs[k] # 0 => subs[k] \in Regs
         /\ pc[u] \in Making => reg[u] \in Regs /\ kind[reg[u]] \in Kinds
  <1>1. \A v \in Threads \ {u} : pc[v] \notin Making \cup Undoing
    BY DEF LockInv, OneSubscriber, Holds, Registers, Making, Undoing
  <1>2. HolderInv(u)
    BY <1>1 DEF RegInv, HolderInv, Making, Undoing
  <1>3. pc[u] \in Making => reg[u] \in Regs
    BY <1>2 DEF HolderInv, TypeOK, Regs
  <1> QED
    BY <1>2, <1>3 DEF TypeOK

(* One thread at most makes or undoes: what RegInv says is what it says of *)
(* that thread, when the others have not moved.                            *)
LEMMA RegMoves ==
  ASSUME TypeOK, LockInv, NEW u \in Threads, pc[u] \in Holds, NEW next \in PC,
         pc' = [pc EXCEPT ![u] = next], HolderInv(u)'
  PROVE  RegInv'
  <1>1. \A v \in Threads \ {u} : pc'[v] \notin Making \cup Undoing
    BY DEF TypeOK, LockInv, OneSubscriber, Making, Undoing, Holds, Registers
  <1>2. pc'[u] = next
    BY DEF TypeOK
  <1> QED
    BY <1>1, <1>2 DEF RegInv, HolderInv, Making, Undoing

(* A registration is in use when the pool waits on its event.              *)
LEMMA InUseOf ==
  ASSUME TypeOK, NEW r \in Regs, NEW s \in Regs, NEW w \in {"waiting", "armed", "unregistered"},
         wait' = [wait EXCEPT ![s] = w]
  PROVE  InUse(r)' <=> IF r = s THEN w # "unregistered" ELSE InUse(r)
  BY DEF TypeOK, InUse

LEMMA CreateReg ==
  ASSUME TypeOK, LockInv, RegInv, NEW u \in Threads, Create(u)
  PROVE  RegInv'
  <1> USE DEF HolderInv, Making, Undoing
  <1>1. /\ pc[u] = "create" /\ pc[u] \in Holds
        /\ "notify" \in PC /\ "release" \in PC
        /\ subs' = subs
    BY DEF Create, At, PC, Holds, Registers, serviceVars
  <1>2. HolderInv(u) /\ \A k \in Kinds : subs[k] # 0 => subs[k] \in Regs
    BY <1>1, RegOfHolder
  <1>3. CASE /\ At(u, "create", "notify")
             /\ made < MaxRegs
             /\ made' = made + 1
             /\ wait' = [wait EXCEPT ![made + 1] = "waiting"]
             /\ reg' = [reg EXCEPT ![u] = made + 1]
    <2>1. pc' = [pc EXCEPT ![u] = "notify"] /\ pc'[u] = "notify" /\ reg'[u] = made + 1
      BY <1>3 DEF At, TypeOK
    <2>2. made \in Nat /\ made + 1 \in Regs
      BY <1>3, WatchAssumption DEF TypeOK, Regs
    <2>3. \A r \in Regs : InUse(r)' <=> InUse(r) \/ r = made + 1
      BY <1>3, <2>2, InUseOf
    <2>4. reg'[u] \in 1..made' /\ InUse(reg[u])' /\ \A k \in Kinds : subs'[k] # reg'[u]
      BY <1>1, <1>2, <1>3, <2>1, <2>2, <2>3
    <2>5. \A r \in Regs : InUse(r)' => r \in 1..made'
      BY <1>2, <1>3, <2>2, <2>3
    <2>6. \A r \in Regs : InUse(r)' => (\E k \in Kinds : subs'[k] = r) \/ reg'[u] = r
      BY <1>1, <1>2, <2>1, <2>3
    <2>7. \A k \in Kinds : subs'[k] \in 0..made' /\ (subs'[k] # 0 => InUse(subs[k])')
      BY <1>1, <1>2, <1>3, <2>2, <2>3
    <2> QED
      BY <1>1, <2>1, <2>4, <2>5, <2>6, <2>7, RegMoves
  <1>4. CASE /\ At(u, "create", "release")
             /\ UNCHANGED <<made, wait>>
             /\ reg' = [reg EXCEPT ![u] = 0]
    <2>1. pc' = [pc EXCEPT ![u] = "release"] /\ pc'[u] = "release"
      BY <1>4 DEF At, TypeOK
    <2>2. HolderInv(u)'
      BY <1>1, <1>2, <1>4, <2>1 DEF InUse
    <2> QED
      BY <1>1, <2>1, <2>2, RegMoves
  <1> QED
    BY <1>3, <1>4 DEF Create

LEMMA NotifyReg ==
  ASSUME TypeOK, LockInv, RegInv, NEW u \in Threads, Notify(u)
  PROVE  RegInv'
  <1> USE DEF HolderInv, Making, Undoing
  <1>1. /\ pc[u] = "notify" /\ pc[u] \in Holds
        /\ subs' = subs /\ made' = made /\ reg' = reg
    BY DEF Notify, Holds, Registers, serviceVars
  <1>2. PICK next \in {"assign", "catch"} : pc' = [pc EXCEPT ![u] = next]
    BY DEF Notify
  <1>3. next \in PC /\ pc'[u] = next
    BY <1>2 DEF PC, Holds, Registers, TypeOK
  <1>4. /\ HolderInv(u) /\ reg[u] \in Regs
        /\ \A k \in Kinds : subs[k] # 0 => subs[k] \in Regs
    BY <1>1, RegOfHolder
  <1>5. wait' = [wait EXCEPT ![reg[u]] = "armed"] \/ wait' = wait
    BY DEF Notify
  <1>6. \A r \in Regs : InUse(r)' <=> InUse(r)
    BY <1>1, <1>4, <1>5, InUseOf DEF InUse
  <1>7. HolderInv(u)'
    BY <1>1, <1>3, <1>4, <1>6
  <1> QED
    BY <1>1, <1>2, <1>3, <1>7, RegMoves

LEMMA AssignReg ==
  ASSUME TypeOK, LockInv, RegInv, NEW u \in Threads, Assign(u)
  PROVE  RegInv'
  <1> USE DEF HolderInv, Making, Undoing
  <1>1. /\ pc[u] = "assign" /\ pc[u] \in Holds
        /\ wait' = wait /\ made' = made
    BY DEF Assign, Holds, Registers
  <1>2. /\ HolderInv(u) /\ reg[u] \in Regs /\ kind[reg[u]] \in Kinds
        /\ \A k \in Kinds : subs[k] # 0 => subs[k] \in Regs
    BY <1>1, RegOfHolder
  <1>3. \A r \in Regs : InUse(r)' <=> InUse(r)
    BY <1>1 DEF InUse
  <1>4. CASE subs[kind[reg[u]]] # 0
    <2>1. pc' = [pc EXCEPT ![u] = "catch"] /\ UNCHANGED <<subs, reg>>
      BY <1>4 DEF Assign, At
    <2>2. "catch" \in PC /\ pc'[u] = "catch"
      BY <2>1 DEF PC, Holds, Registers, TypeOK
    <2>3. HolderInv(u)'
      BY <1>1, <1>2, <1>3, <2>1, <2>2
    <2> QED
      BY <1>1, <2>1, <2>2, <2>3, RegMoves
  <1>5. CASE subs[kind[reg[u]]] = 0
    <2>1. subs' = [subs EXCEPT ![kind[reg[u]]] = reg[u]]
      BY <1>5 DEF Assign
    <2>2. PICK next \in {"create", "release"} : pc' = [pc EXCEPT ![u] = next]
      BY <1>5 DEF Assign, At
    <2>3. next \in PC /\ pc'[u] = next
      BY <2>2 DEF PC, Holds, Registers, TypeOK
    <2>4. \A k \in Kinds : subs'[k] = IF k = kind[reg[u]] THEN reg[u] ELSE subs[k]
      BY <2>1 DEF TypeOK
    <2>5. \A r \in Regs : InUse(r) => \E k \in Kinds : subs'[k] = r
      BY <1>1, <1>2, <1>5, <2>4 DEF Regs
    <2>6. HolderInv(u)'
      BY <1>1, <1>2, <1>3, <2>3, <2>4, <2>5
    <2> QED
      BY <1>1, <2>2, <2>3, <2>6, RegMoves
  <1> QED
    BY <1>4, <1>5

LEMMA CatchReg ==
  ASSUME TypeOK, LockInv, RegInv, NEW u \in Threads, Catch(u)
  PROVE  RegInv'
  <1> USE DEF HolderInv, Making, Undoing
  <1>1. /\ pc[u] = "catch" /\ pc[u] \in Holds /\ "release" \in PC
        /\ pc' = [pc EXCEPT ![u] = "release"]
        /\ subs' = subs /\ made' = made
    BY DEF Catch, At, PC, Holds, Registers, serviceVars
  <1>2. /\ HolderInv(u) /\ reg[u] \in Regs
        /\ \A k \in Kinds : subs[k] # 0 => subs[k] \in Regs
    BY <1>1, RegOfHolder
  <1>3. wait' = [wait EXCEPT ![reg[u]] = "unregistered"]
    BY DEF Catch, CatchDisposes, Unregister
  <1>4. \A r \in Regs : InUse(r)' <=> InUse(r) /\ r # reg[u]
    BY <1>2, <1>3, InUseOf
  <1>5. pc'[u] = "release"
    BY <1>1 DEF TypeOK
  <1>6. HolderInv(u)'
    BY <1>1, <1>2, <1>4, <1>5
  <1> QED
    BY <1>1, <1>6, RegMoves

LEMMA DisposeCallbackReg ==
  ASSUME TypeOK, LockInv, RegInv, NEW u \in Threads,
         NEW k \in Kinds, NEW here \in Holds \ Making, NEW next \in Undoing,
         DisposeCallback(u, k, here, next),
         \/ k = "Connection" /\ here \notin Undoing /\ next = "unregister2"
         \/ k = "Disconnection" /\ here = "unregister2" /\ next = "clear"
  PROVE  RegInv'
  <1> USE DEF HolderInv, Making, Undoing
  <1>1. /\ pc[u] = here /\ pc' = [pc EXCEPT ![u] = next] /\ next \in PC
        /\ subs' = subs /\ made' = made
    BY DEF DisposeCallback, At, PC, Holds, serviceVars
  <1>2. /\ HolderInv(u)
        /\ \A j \in Kinds : subs[j] # 0 => subs[j] \in Regs
    BY <1>1, RegOfHolder
  <1>3. \A r \in Regs : InUse(r)' <=> InUse(r) /\ r # subs[k]
    <2>1. CASE subs[k] = 0
      BY <2>1 DEF DisposeCallback, InUse, Regs
    <2>2. CASE subs[k] # 0
      <3>1. wait' = [wait EXCEPT ![subs[k]] = "unregistered"]
        BY <2>2 DEF DisposeCallback, Unregister
      <3> QED
        BY <1>2, <2>2, <3>1, InUseOf
    <2> QED
      BY <2>1, <2>2
  <1>4. pc'[u] = next
    BY <1>1 DEF TypeOK
  <1>5. \A j \in Kinds : next = "clear" \/ j = "Connection" => subs[j] = 0 \/ ~InUse(subs[j])'
    BY <1>1, <1>2, <1>3 DEF Kinds
  <1>6. HolderInv(u)'
    BY <1>1, <1>2, <1>3, <1>4, <1>5
  <1> QED
    BY <1>1, <1>6, RegMoves

LEMMA ClearReg ==
  ASSUME TypeOK, LockInv, RegInv, NEW u \in Threads, Clear(u)
  PROVE  RegInv'
  <1> USE DEF HolderInv, Making, Undoing
  <1>1. /\ pc[u] = "clear" /\ pc[u] \in Holds /\ "unlock" \in PC
        /\ pc' = [pc EXCEPT ![u] = "unlock"]
        /\ wait' = wait /\ made' = made
    BY DEF Clear, At, PC, Holds, regVars
  <1>2. HolderInv(u)
    BY <1>1, RegOfHolder
  <1>3. \A k \in Kinds : subs'[k] = 0
    BY DEF Clear, ClearSubscriptions
  <1>4. \A r \in Regs : ~InUse(r)'
    BY <1>1, <1>2 DEF InUse, Regs
  <1>5. pc'[u] = "unlock"
    BY <1>1 DEF TypeOK
  <1>6. HolderInv(u)'
    BY <1>1, <1>2, <1>3, <1>4, <1>5 DEF TypeOK
  <1> QED
    BY <1>1, <1>6, RegMoves

LEMMA SubscribeReg ==
  ASSUME TypeOK, LockInv, RegInv, NEW u \in Threads, SubscribeStep(u)
  PROVE  RegInv'
  <1> USE DEF PC, Holds, Registers, Making, Undoing, serviceVars, regVars
  <1>1. CASE Guard(u, "subscribe", "enter")
    BY <1>1, RegStays DEF Guard, At
  <1>2. CASE Enter(u, "enter", "initialize")
    BY <1>2, RegStays DEF Enter, At
  <1>3. CASE EnterThrows(u, "enter")
    BY <1>3, RegStays DEF EnterThrows, At
  <1>4. CASE Initialize(u)
    <2>1. PICK next \in {"create", "release"} : pc' = [pc EXCEPT ![u] = next]
      BY <1>4 DEF Initialize, InitializeSnapshot
    <2> QED
      BY <1>4, <2>1, RegStays DEF Initialize
  <1>5. CASE Leave(u, "release", "idle")
    BY <1>5, RegStays DEF Leave, At
  <1> QED
    BY <1>1, <1>2, <1>3, <1>4, <1>5, CreateReg, NotifyReg, AssignReg, CatchReg
       DEF SubscribeStep

LEMMA UnsubscribeReg ==
  ASSUME TypeOK, LockInv, RegInv, NEW u \in Threads, UnsubscribeStep(u)
  PROVE  RegInv'
  <1> USE DEF PC, Holds, Registers, Making, Undoing, serviceVars, regVars
  <1>1. CASE Guard(u, "reset", "unsubscribe")
    BY <1>1, RegStays DEF Guard, At
  <1>2. CASE Enter(u, "unsubscribe", "unregister")
    BY <1>2, RegStays DEF Enter, At
  <1>3. CASE EnterThrows(u, "unsubscribe")
    BY <1>3, RegStays DEF EnterThrows, At
  <1>4. CASE DisposeCallback(u, "Connection", "unregister", "unregister2")
    BY <1>4, DisposeCallbackReg DEF Kinds
  <1>5. CASE DisposeCallback(u, "Disconnection", "unregister2", "clear")
    BY <1>5, DisposeCallbackReg DEF Kinds
  <1>6. CASE Leave(u, "unlock", AfterUnsubscribe(u))
    <2>1. AfterUnsubscribe(u) \in PC \ (Making \cup Undoing)
      BY DEF AfterUnsubscribe, TypeOK
    <2> QED
      BY <1>6, <2>1, RegStays DEF Leave, At
  <1>7. CASE DisposeService(u)
    BY <1>7, RegStays DEF DisposeService, At
  <1> QED
    BY <1>1, <1>2, <1>3, <1>4, <1>5, <1>6, <1>7, ClearReg DEF UnsubscribeStep

LEMMA NextReg == TypeOK /\ LockInv /\ RegInv /\ [Next]_vars => RegInv'
  <1> SUFFICES ASSUME TypeOK, LockInv, RegInv, [Next]_vars PROVE RegInv'
    OBVIOUS
  <1>1. ASSUME NEW u \in Threads, Restart(u) \/ DisposeWatcher(u) \/ Call(u)
        PROVE  RegInv'
    <2>1. PICK next \in PC \ Holds : pc' = [pc EXCEPT ![u] = next]
      BY <1>1, WatcherStepsOutside
    <2>2. pc[u] \notin Holds /\ UNCHANGED <<serviceVars, regVars, reg>>
      BY <1>1, WatcherStepsOutside
    <2> QED
      BY <2>1, <2>2, RegStays DEF Holds, Registers, Making, Undoing, serviceVars, regVars
  <1>2. CASE Others
    BY <1>2, OthersLeaveService DEF RegInv, InUse, serviceVars, threadVars
  <1>3. CASE UNCHANGED vars
    BY <1>3 DEF RegInv, InUse, vars, serviceVars, regVars, threadVars
  <1> QED
    BY <1>1, <1>2, <1>3, SubscribeReg, UnsubscribeReg DEF Next, WatcherStep, Others, Rest

IInv == TypeOK /\ LockInv /\ RegInv

LEMMA IInvHolds == Spec => []IInv
  <1>1. Init => IInv
    BY InitTypes, InitLock, InitReg DEF IInv
  <1>2. IInv /\ [Next]_vars => IInv'
    BY NextTypes, NextLock, NextReg DEF IInv
  <1> QED
    BY <1>1, <1>2, PTL DEF Spec

LEMMA NobodyInside ==
  ASSUME RegInv, \A u \in Threads : pc[u] \notin Holds
  PROVE  \A r \in Regs : InUse(r) <=> \E k \in Kinds : subs[k] = r
  BY DEF RegInv, Holds, Registers, Making, Undoing, Regs

(* SubscriptionsAreLive: what RegisterCallback and Unsubscribe leave behind*)
(* is always what IsActive counts.  No failure of the factory, of RAS or of*)
(* the dictionary leaks a wait of the thread pool or leaves a dead one.    *)
THEOREM NothingLeaks == Spec => []SubscriptionsAreLive
  <1>1. IInv => SubscriptionsAreLive
    BY NobodyInside DEF IInv, SubscriptionsAreLive
  <1> QED
    BY <1>1, IInvHolds, PTL

(* StopIsFinal: a registration that Stop, a failed Start or Dispose has    *)
(* disposed gets no new callback.                                          *)
THEOREM StoppedForGood == Spec => StopIsFinal
  <1> DEFINE Final ==
        \A r \in Regs :
           (\A u \in Threads : pc[u] \notin Holds) /\ (\A k \in Kinds : subs[k] # r)
               => queued'[r] <= queued[r]
  <1>1. IInv /\ [Next]_vars => Final
    <2> SUFFICES ASSUME IInv, [Next]_vars, NEW r \in Regs,
                        \A u \in Threads : pc[u] \notin Holds, \A k \in Kinds : subs[k] # r
                 PROVE  queued'[r] <= queued[r]
      OBVIOUS
    <2>1. wait[r] # "armed"
      BY NobodyInside DEF IInv, InUse
    <2>2. queued[r] \in Nat
      BY DEF IInv, TypeOK
    <2>3. ASSUME NEW s \in Regs, PoolQueues(s)
          PROVE  queued'[r] = queued[r]
      BY <2>1, <2>3 DEF PoolQueues, IInv, TypeOK
    <2>4. ASSUME NEW s \in Regs, CallbackEnters(s)
          PROVE  queued'[r] <= queued[r]
      BY <2>2, <2>4 DEF CallbackEnters, IInv, TypeOK
    <2>5. ASSUME HandlerStep \/ \E c \in Conns : Comes(c) \/ Goes(c)
          PROVE  queued' = queued
      BY <2>5 DEF HandlerStep, Enumerate, CallbackThrows, Raised, CallbackLeaves, Raise,
         Comes, Goes, regVars
    <2>6. ASSUME NEW u \in Threads, Restart(u) \/ DisposeWatcher(u) \/ Call(u)
          PROVE  queued' = queued
      BY <2>6, WatcherStepsOutside DEF IInv, regVars
    <2>7. ASSUME NEW u \in Threads, SubscribeStep(u) \/ UnsubscribeStep(u)
          PROVE  queued' = queued
      BY <2>7 DEF SubscribeStep, UnsubscribeStep, Guard, Enter, EnterThrows, Initialize,
         Create, Notify, Assign, Catch, Leave, DisposeCallback, Clear, DisposeService,
         regVars
    <2>8. CASE UNCHANGED vars
      BY <2>2, <2>8 DEF vars, regVars
    <2> QED
      BY <2>2, <2>3, <2>4, <2>5, <2>6, <2>7, <2>8 DEF Next, WatcherStep, Rest
  <1> QED
    BY <1>1, IInvHolds, PTL DEF Spec, StopIsFinal

-----------------------------------------------------------------------------
(* Callbacks.  A registration the handler may be called for has the        *)
(* callback it is to call, or its maker is about to set it.                *)
Coming(r) == wait[r] = "armed" \/ queued[r] > 0 \/ (hpc # "free" /\ holder = r)

CallInv ==
    /\ hpc # "free" => holder \in Regs
    /\ \A r \in Regs : callback[r] = "null" /\ Coming(r)
          => \E u \in Threads : pc[u] = "assign" /\ reg[u] = r

LEMMA InitCall == Init => CallInv
  BY DEF Init, CallInv, Coming

(* A step that sets no callback and brings no registration nearer to one.  *)
LEMMA CallStays ==
  ASSUME CallInv,
         \A v \in Threads : pc[v] = "assign" => pc'[v] = "assign" /\ reg'[v] = reg[v],
         UNCHANGED callback,
         \A r \in Regs : Coming(r)' => Coming(r),
         hpc' # "free" => holder' \in Regs
  PROVE  CallInv'
  BY DEF CallInv

(* It is enough to look at the one thread that moves.                      *)
LEMMA CallMoves ==
  ASSUME TypeOK, CallInv, NEW u \in Threads, pc[u] # "assign", NEW next \in PC,
         pc' = [pc EXCEPT ![u] = next],
         \A v \in Threads \ {u} : reg'[v] = reg[v],
         UNCHANGED <<callback, queued, hpc, holder>>,
         \A r \in Regs : wait'[r] = "armed" => wait[r] = "armed"
  PROVE  CallInv'
  <1>1. \A v \in Threads : pc[v] = "assign" => pc'[v] = "assign" /\ reg'[v] = reg[v]
    BY DEF TypeOK
  <1>2. \A r \in Regs : Coming(r)' => Coming(r)
    BY DEF Coming
  <1> QED
    BY <1>1, <1>2, CallStays DEF CallInv

LEMMA SubscribeCall ==
  ASSUME TypeOK, LockInv, CallInv, NEW u \in Threads, SubscribeStep(u)
  PROVE  CallInv'
  <1> USE DEF PC, Holds, Registers, serviceVars, regVars, handlerVars
  <1>1. CASE Guard(u, "subscribe", "enter")
    BY <1>1, CallMoves DEF Guard, At
  <1>2. CASE Enter(u, "enter", "initialize")
    BY <1>2, CallMoves DEF Enter, At
  <1>3. CASE EnterThrows(u, "enter")
    BY <1>3, CallMoves DEF EnterThrows, At
  <1>4. CASE Initialize(u)
    <2>1. PICK next \in {"create", "release"} : pc' = [pc EXCEPT ![u] = next]
      BY <1>4 DEF Initialize, InitializeSnapshot
    <2> QED
      BY <1>4, <2>1, CallMoves DEF Initialize
  <1>5. CASE Create(u)
    <2>1. PICK next \in {"notify", "release"} : At(u, "create", next)
      BY <1>5 DEF Create
    <2>2. \A r \in Regs : wait'[r] = "armed" => wait[r] = "armed"
      BY <1>5 DEF Create, TypeOK
    <2>3. \A v \in Threads \ {u} : reg'[v] = reg[v]
      BY <1>5 DEF Create, TypeOK
    <2> QED
      BY <1>5, <2>1, <2>2, <2>3, CallMoves DEF Create, At
  <1>6. CASE Notify(u)
    <2>1. CASE /\ pc' = [pc EXCEPT ![u] = "assign"]
               /\ wait' = [wait EXCEPT ![reg[u]] = "armed"]
      <3>1. pc'[u] = "assign" /\ reg' = reg /\ \A v \in Threads \ {u} : pc'[v] = pc[v]
        BY <1>6, <2>1 DEF Notify, TypeOK
      <3>2. \A r \in Regs \ {reg[u]} : Coming(r)' => Coming(r)
        BY <1>6, <2>1 DEF Notify, Coming, TypeOK
      <3>3. UNCHANGED <<callback, hpc, holder>> /\ pc[u] = "notify"
        BY <1>6 DEF Notify
      <3> QED
        BY <3>1, <3>2, <3>3 DEF CallInv
    <2>2. CASE pc' = [pc EXCEPT ![u] = "catch"] /\ UNCHANGED wait
      BY <1>6, <2>2, CallMoves DEF Notify
    <2> QED
      BY <1>6, <2>1, <2>2 DEF Notify
  <1>7. CASE Assign(u)
    <2>1. /\ pc[u] = "assign"
          /\ callback' = [callback EXCEPT ![reg[u]] = CallbackFor(kind[reg[u]])]
          /\ UNCHANGED <<wait, queued, hpc, holder>>
      BY <1>7 DEF Assign
    <2>2. \A v \in Threads : pc[v] = "assign" => v = u
      BY <2>1 DEF LockInv, OneSubscriber
    <2>3. \A r \in Regs : callback'[r] = "null" => callback[r] = "null" /\ r # reg[u]
      BY <2>1 DEF CallbackFor, TypeOK
    <2>4. \A r \in Regs : Coming(r)' <=> Coming(r)
      BY <2>1 DEF Coming
    <2> QED
      BY <2>1, <2>2, <2>3, <2>4 DEF CallInv
  <1>8. CASE Catch(u)
    <2>1. \A r \in Regs : wait'[r] = "armed" => wait[r] = "armed"
      BY <1>8 DEF Catch, CatchDisposes, Unregister, TypeOK
    <2>2. \A v \in Threads \ {u} : reg'[v] = reg[v]
      BY <1>8 DEF Catch, TypeOK
    <2> QED
      BY <1>8, <2>1, <2>2, CallMoves DEF Catch, At
  <1>9. CASE Leave(u, "release", "idle")
    BY <1>9, CallMoves DEF Leave, At
  <1> QED
    BY <1>1, <1>2, <1>3, <1>4, <1>5, <1>6, <1>7, <1>8, <1>9 DEF SubscribeStep

LEMMA UnsubscribeCall ==
  ASSUME TypeOK, CallInv, NEW u \in Threads, UnsubscribeStep(u)
  PROVE  CallInv'
  <1> USE DEF PC, Holds, Registers, serviceVars, regVars, handlerVars
  <1>1. CASE Guard(u, "reset", "unsubscribe")
    BY <1>1, CallMoves DEF Guard, At
  <1>2. CASE Enter(u, "unsubscribe", "unregister")
    BY <1>2, CallMoves DEF Enter, At
  <1>3. CASE EnterThrows(u, "unsubscribe")
    BY <1>3, CallMoves DEF EnterThrows, At
  <1>4. ASSUME NEW k \in Kinds, NEW here \in PC \ {"assign"}, NEW next \in PC,
               DisposeCallback(u, k, here, next)
        PROVE  CallInv'
    <2>1. \A r \in Regs : wait'[r] = "armed" => wait[r] = "armed"
      BY <1>4 DEF DisposeCallback, Unregister, TypeOK
    <2> QED
      BY <1>4, <2>1, CallMoves DEF DisposeCallback, At
  <1>5. CASE Clear(u)
    BY <1>5, CallMoves DEF Clear, At
  <1>6. CASE Leave(u, "unlock", AfterUnsubscribe(u))
    <2>1. AfterUnsubscribe(u) \in PC
      BY DEF AfterUnsubscribe, TypeOK
    <2> QED
      BY <1>6, <2>1, CallMoves DEF Leave, At
  <1>7. CASE DisposeService(u)
    BY <1>7, CallMoves DEF DisposeService, At
  <1> QED
    BY <1>1, <1>2, <1>3, <1>4, <1>5, <1>6, <1>7 DEF UnsubscribeStep, Kinds

LEMMA OthersCall == TypeOK /\ CallInv /\ Others => CallInv'
  <1> SUFFICES ASSUME TypeOK, CallInv, Others PROVE CallInv'
    OBVIOUS
  <1>1. UNCHANGED <<pc, reg, callback, wait>>
    BY OthersLeaveService DEF threadVars
  <1>2. ASSUME NEW r \in Regs, PoolQueues(r)
        PROVE  CallInv'
    BY <1>1, <1>2, CallStays DEF PoolQueues, Coming, CallInv, TypeOK, handlerVars
  <1>3. ASSUME NEW r \in Regs, CallbackEnters(r)
        PROVE  CallInv'
    <2>1. \A s \in Regs : Coming(s)' => Coming(s)
      BY <1>1, <1>3 DEF CallbackEnters, Coming, TypeOK
    <2> QED
      BY <1>1, <1>3, <2>1, CallStays DEF CallbackEnters
  <1>4. ASSUME HandlerStep \/ \E c \in Conns : Comes(c) \/ Goes(c)
        PROVE  CallInv'
    <2>1. /\ queued' = queued
          /\ hpc' # "free" => hpc # "free" /\ holder' = holder
      BY <1>4 DEF HandlerStep, Enumerate, CallbackThrows, Raised, CallbackLeaves, Raise,
         Comes, Goes, regVars, handlerVars
    <2> QED
      BY <1>1, <2>1, CallStays DEF Coming, CallInv
  <1> QED
    BY <1>2, <1>3, <1>4 DEF Others

LEMMA NextCall == TypeOK /\ LockInv /\ CallInv /\ [Next]_vars => CallInv'
  <1> SUFFICES ASSUME TypeOK, LockInv, CallInv, [Next]_vars PROVE CallInv'
    OBVIOUS
  <1>1. ASSUME NEW u \in Threads, Restart(u) \/ DisposeWatcher(u) \/ Call(u)
        PROVE  CallInv'
    <2>1. PICK next \in PC \ Holds : pc' = [pc EXCEPT ![u] = next]
      BY <1>1, WatcherStepsOutside
    <2>2. pc[u] \notin Holds /\ UNCHANGED <<regVars, handlerVars, reg>>
      BY <1>1, WatcherStepsOutside
    <2> QED
      BY <2>1, <2>2, CallMoves DEF Holds, Registers, regVars, handlerVars
  <1>2. CASE UNCHANGED vars
    BY <1>2 DEF CallInv, Coming, vars, regVars, handlerVars, threadVars
  <1> QED
    BY <1>1, <1>2, SubscribeCall, UnsubscribeCall, OthersCall DEF Next, WatcherStep, Others, Rest

(* CallbackIsSet: the handler finds the state object without its callback  *)
(* only between the two calls of RegisterCallback that register and fill   *)
(* it; nothing that fails or is disposed widens that window.               *)
THEOREM CallbackWindow == Spec => []CallbackIsSet
  <1>1. IInv /\ CallInv => CallbackIsSet
    BY DEF IInv, CallInv, Coming, CallbackIsSet
  <1>2. Init => CallInv
    BY InitCall
  <1>3. IInv /\ CallInv /\ [Next]_vars => CallInv'
    BY NextCall DEF IInv
  <1> QED
    BY <1>1, <1>2, <1>3, IInvHolds, PTL DEF Spec

-----------------------------------------------------------------------------
(* Changes.                                                                *)

(* The service disposes a registration with its signal, if anything.       *)
LEMMA ServiceSignals ==
  ASSUME TypeOK, NEW u \in Threads, SubscribeStep(u) \/ UnsubscribeStep(u)
  PROVE  /\ UNCHANGED <<up, hpc, current, queued, crashed>>
         /\ UNCHANGED previous \/ (hpc = "free" /\ previous' = up)
         /\ \/ UNCHANGED <<signal, missed>>
            \/ \E r \in Regs \cup {0} : Unregister(r)
  <1> USE DEF rasVars, regVars, handlerVars, history
  <1>1. CASE Initialize(u)
    BY <1>1 DEF Initialize, InitializeSnapshot
  <1>2. CASE Catch(u)
    BY <1>2 DEF Catch, CatchDisposes, TypeOK
  <1>3. ASSUME NEW k \in Kinds, NEW here, NEW next, DisposeCallback(u, k, here, next)
        PROVE  /\ UNCHANGED <<up, hpc, current, queued, crashed, previous>>
               /\ \/ UNCHANGED <<signal, missed>>
                  \/ \E r \in Regs \cup {0} : Unregister(r)
    BY <1>3 DEF DisposeCallback, TypeOK
  <1>4. CASE Guard(u, "subscribe", "enter") \/ Guard(u, "reset", "unsubscribe")
    BY <1>4 DEF Guard
  <1>5. CASE Enter(u, "enter", "initialize") \/ Enter(u, "unsubscribe", "unregister")
    BY <1>5 DEF Enter
  <1>6. CASE EnterThrows(u, "enter") \/ EnterThrows(u, "unsubscribe")
    BY <1>6 DEF EnterThrows
  <1>7. CASE Create(u) \/ Notify(u) \/ Assign(u)
    BY <1>7 DEF Create, Notify, Assign
  <1>8. CASE Leave(u, "release", "idle") \/ Leave(u, "unlock", AfterUnsubscribe(u))
    BY <1>8 DEF Leave
  <1>9. CASE Clear(u) \/ DisposeService(u)
    BY <1>9 DEF Clear, DisposeService
  <1> QED
    BY <1>1, <1>2, <1>3, <1>4, <1>5, <1>6, <1>7, <1>8, <1>9
       DEF SubscribeStep, UnsubscribeStep, Kinds

LEMMA NextSignalled == TypeOK /\ ChangesAreSignalled /\ [Next]_vars => ChangesAreSignalled'
  <1> SUFFICES ASSUME TypeOK, ChangesAreSignalled, [Next]_vars
               PROVE  ChangesAreSignalled'
    OBVIOUS
  <1> USE DEF ChangesAreSignalled, Stale, Known
  <1>1. ASSUME NEW u \in Threads, SubscribeStep(u) \/ UnsubscribeStep(u)
        PROVE  ChangesAreSignalled'
    <2>1. /\ UNCHANGED <<up, hpc, current, queued, crashed>>
          /\ UNCHANGED previous \/ (hpc = "free" /\ previous' = up)
      BY <1>1, ServiceSignals
    <2>2. Stale' \subseteq Stale
      BY <2>1
    <2>3. CASE UNCHANGED <<signal, missed>>
      BY <2>1, <2>2, <2>3
    <2>4. ASSUME NEW r \in Regs \cup {0}, Unregister(r)
          PROVE  ChangesAreSignalled'
      <3>1. CASE signal[r]
        BY <2>2, <2>4, <3>1 DEF Unregister
      <3>2. CASE ~signal[r]
        <4>1. missed' = missed /\ \A s \in Regs : signal[s] => signal'[s]
          BY <2>4, <3>2 DEF Unregister, TypeOK
        <4> QED
          BY <2>1, <2>2, <4>1
      <3> QED
        BY <3>1, <3>2
    <2> QED
      BY <1>1, <2>3, <2>4, ServiceSignals
  <1>2. ASSUME NEW u \in Threads, Restart(u) \/ DisposeWatcher(u) \/ Call(u)
        PROVE  ChangesAreSignalled'
    BY <1>2 DEF Restart, DisposeWatcher, Call, Start, Stop, CallDispose, SetConnection,
       rasVars, regVars, handlerVars, history
  <1>3. ASSUME NEW r \in Regs, PoolQueues(r)
        PROVE  ChangesAreSignalled'
    BY <1>3 DEF PoolQueues, TypeOK
  <1>4. ASSUME NEW r \in Regs, CallbackEnters(r)
        PROVE  ChangesAreSignalled'
    BY <1>4 DEF CallbackEnters
  <1>5. CASE HandlerStep
    <2>1. CASE Enumerate
      <3>1. Stale' = {}
        BY <2>1 DEF Enumerate, rasVars
      <3> QED
        BY <3>1
    <2>2. CASE CallbackThrows
      BY <2>2 DEF CallbackThrows
    <2>3. CASE Raised \/ CallbackLeaves
      BY <2>3 DEF Raised, CallbackLeaves, Store, rasVars, regVars, history
    <2>4. ASSUME NEW c \in Conns, Raise(c)
          PROVE  ChangesAreSignalled'
      BY <2>4 DEF Raise, rasVars, regVars
    <2> QED
      BY <1>5, <2>1, <2>2, <2>3, <2>4 DEF HandlerStep
  <1>6. ASSUME NEW c \in Conns, Comes(c) \/ Goes(c)
        PROVE  ChangesAreSignalled'
    <2>1. PICK k \in Kinds : Signals(k, c)
      BY <1>6 DEF Comes, Goes, Kinds
    <2>2. /\ Stale' \subseteq Stale \cup {c}
          /\ UNCHANGED <<hpc, queued, crashed>>
      BY <1>6 DEF Comes, Goes, handlerVars
    <2>3. CASE \E r \in Regs : Asks(r, k, c)
      BY <2>1, <2>3 DEF Signals
    <2>4. CASE ~\E r \in Regs : Asks(r, k, c)
      <3>1. missed' = missed \cup {c} /\ \A r \in Regs : signal'[r] = signal[r]
        BY <2>1, <2>4 DEF Signals, TypeOK
      <3> QED
        BY <2>2, <3>1
    <2> QED
      BY <2>3, <2>4
  <1>7. CASE UNCHANGED vars
    BY <1>7 DEF vars, rasVars, regVars, handlerVars, history
  <1> QED
    BY <1>1, <1>2, <1>3, <1>4, <1>5, <1>6, <1>7 DEF Next, WatcherStep, Rest

(* ChangesAreSignalled: a connection that changed while RAS was asked for  *)
(* it is known to the handler, or a signal, a callback or an enumeration   *)
(* is still to come, although the events coalesce, for any number of       *)
(* connections that come and go at any time around starts and stops.       *)
THEOREM NoChangeIsLost == Spec => []ChangesAreSignalled
  <1>1. Init => ChangesAreSignalled
    BY DEF Init, ChangesAreSignalled, Stale, Known
  <1> QED
    BY <1>1, NextSignalled, TypeCorrect, PTL DEF Spec

-----------------------------------------------------------------------------
(* Lone changes.  The state object of a registration has no callback or    *)
(* that of its kind; and as long as the last change is one that came alone *)
(* whatever is under way was set off by it, for a registration of its kind.*)
Called(r) == signal[r] \/ queued[r] > 0 \/ (hpc # "free" /\ holder = r)

KindOfLone == IF lone \in up THEN "Connection" ELSE "Disconnection"

LoneInv ==
    /\ \A r \in Regs : r > made => callback[r] = "null" /\ ~Called(r)
    /\ \A r \in Regs : callback[r] # "null" => callback[r] = CallbackFor(kind[r])
    /\ hpc # "free" => holder \in Regs
    /\ hpc = "raising" => subject \in Conns /\ callback[holder] # "null"
    /\ lone \in Conns => \A r \in Regs : Called(r) => kind[r] = KindOfLone

LEMMA InitLone == Init => LoneInv
  BY WatchAssumption DEF Init, LoneInv, Called

(* A step that sets no event and raises none.                              *)
LEMMA LoneStays ==
  ASSUME LoneInv, UNCHANGED <<up, lone, made, kind, callback>>,
         \A r \in Regs : Called(r)' => Called(r),
         hpc' # "free" => holder' \in Regs,
         hpc' = "raising" => hpc = "raising" /\ UNCHANGED <<subject, holder>>
  PROVE  LoneInv'
  BY DEF LoneInv, KindOfLone

LEMMA CreateLone ==
  ASSUME TypeOK, LoneInv, NEW u \in Threads, Create(u)
  PROVE  LoneInv'
  <1>1. /\ UNCHANGED <<up, lone, callback, hpc, holder, subject>>
        /\ \A r \in Regs : Called(r)' <=> Called(r)
    BY DEF Create, Called, rasVars, handlerVars, history
  <1>2. CASE UNCHANGED <<made, kind>>
    BY <1>1, <1>2, LoneStays DEF LoneInv
  <1>3. CASE made' = made + 1 /\ kind' = [kind EXCEPT ![made + 1] = NextKind(u)]
    <2>1. \A r \in Regs : r > made' => r > made
      BY <1>3 DEF TypeOK, Regs
    <2>2. \A r \in Regs : callback[r] # "null" \/ Called(r) => kind'[r] = kind[r]
      BY <1>3 DEF LoneInv, TypeOK, Regs
    <2> QED
      BY <1>1, <2>1, <2>2 DEF LoneInv, KindOfLone
  <1> QED
    BY <1>2, <1>3 DEF Create

LEMMA AssignLone ==
  ASSUME TypeOK, RegInv, LoneInv, NEW u \in Threads, Assign(u)
  PROVE  LoneInv'
  <1>1. /\ callback' = [callback EXCEPT ![reg[u]] = CallbackFor(kind[reg[u]])]
        /\ UNCHANGED <<up, lone, made, kind, hpc, holder, subject>>
        /\ \A r \in Regs : Called(r)' <=> Called(r)
    BY DEF Assign, Called, rasVars, handlerVars
  <1>2. reg[u] \in 1..made
    BY DEF Assign, RegInv, Making
  <1>3. CallbackFor(kind[reg[u]]) # "null"
    BY DEF CallbackFor
  <1>4. \A r \in Regs : callback'[r] = IF r = reg[u] THEN CallbackFor(kind[r]) ELSE callback[r]
    BY <1>1 DEF TypeOK
  <1>5. \A r \in Regs : r > made => r # reg[u]
    BY <1>2 DEF TypeOK, Regs
  <1> QED
    BY <1>1, <1>3, <1>4, <1>5 DEF LoneInv, KindOfLone

LEMMA RaiseLone ==
  ASSUME LoneInv, NEW c \in Conns, Raise(c)
  PROVE  LoneInv'
  <1>1. /\ UNCHANGED <<up, lone, made, kind, callback, holder>>
        /\ \A r \in Regs : Called(r)' => Called(r)
        /\ hpc = "report" /\ hpc' = "raising" /\ subject' = c /\ callback[holder] # "null"
    BY DEF Raise, Called, rasVars, regVars
  <1> QED
    BY <1>1 DEF LoneInv, KindOfLone

(* A change that does not come alone puts an end to the one before; one    *)
(* that does sets off all there is.                                        *)
LEMMA ChangeLone ==
  ASSUME TypeOK, RegInv, LoneInv, NEW c \in Conns, Comes(c) \/ Goes(c)
  PROVE  LoneInv'
  <1> DEFINE k == IF Comes(c) THEN "Connection" ELSE "Disconnection"
  <1>1. Signals(k, c)
    BY DEF Comes, Goes
  <1>2. UNCHANGED <<made, kind, queued, callback, hpc, holder, subject>>
    BY DEF Comes, Goes, handlerVars
  <1>3. \A r \in Regs : signal'[r] <=> signal[r] \/ Asks(r, k, c)
    BY <1>1 DEF Signals, TypeOK
  <1>4. \A r \in Regs : r > made => ~Asks(r, k, c)
    BY DEF Asks, RegInv, InUse, TypeOK, Regs
  <1>5. ASSUME lone' \in Conns PROVE \A r \in Regs : Called(r)' => kind'[r] = KindOfLone'
    <2>1. Calm /\ lone' = c
      BY <1>1, <1>5, WatchAssumption DEF Signals
    <2>2. KindOfLone' = k
      BY <2>1 DEF KindOfLone, Comes, Goes
    <2>3. \A r \in Regs : Called(r)' => Asks(r, k, c)
      BY <1>2, <1>3, <2>1 DEF Calm, Called
    <2> QED
      BY <1>2, <2>2, <2>3 DEF Asks
  <1> QED
    BY <1>2, <1>3, <1>4, <1>5 DEF LoneInv, Called

LEMMA ServiceLone ==
  ASSUME TypeOK, RegInv, LoneInv, NEW u \in Threads, SubscribeStep(u) \/ UnsubscribeStep(u)
  PROVE  LoneInv'
  <1>1. CASE ~Create(u) /\ ~Assign(u)
    <2>1. UNCHANGED <<up, lone, made, kind, callback, hpc, holder, subject, queued>>
      BY <1>1 DEF SubscribeStep, UnsubscribeStep, Guard, Enter, EnterThrows, Initialize,
         InitializeSnapshot, Notify, Catch, Leave, DisposeCallback, Clear, DisposeService,
         rasVars, regVars, handlerVars, history
    <2>2. \A r \in Regs : signal'[r] => signal[r]
      BY ServiceSignals DEF Unregister, TypeOK
    <2> QED
      BY <2>1, <2>2, LoneStays DEF Called, LoneInv
  <1> QED
    BY <1>1, CreateLone, AssignLone

LEMMA NextLone == TypeOK /\ RegInv /\ LoneInv /\ [Next]_vars => LoneInv'
  <1> SUFFICES ASSUME TypeOK, RegInv, LoneInv, [Next]_vars PROVE LoneInv'
    OBVIOUS
  <1> USE DEF rasVars, regVars, handlerVars, history
  <1>1. ASSUME NEW u \in Threads, Restart(u) \/ DisposeWatcher(u) \/ Call(u)
        PROVE  LoneInv'
    <2>1. UNCHANGED <<rasVars, regVars, handlerVars, history>>
      BY <1>1 DEF Restart, DisposeWatcher, Call, Start, Stop, CallDispose, SetConnection
    <2> QED
      BY <2>1, LoneStays DEF Called, LoneInv
  <1>2. ASSUME NEW r \in Regs, PoolQueues(r)
        PROVE  LoneInv'
    <2>1. \A s \in Regs : Called(s)' => Called(s)
      BY <1>2 DEF PoolQueues, Called, TypeOK
    <2> QED
      BY <1>2, <2>1, LoneStays DEF PoolQueues, LoneInv
  <1>3. ASSUME NEW r \in Regs, CallbackEnters(r)
        PROVE  LoneInv'
    <2>1. \A s \in Regs : Called(s)' => Called(s)
      BY <1>3 DEF CallbackEnters, Called, TypeOK
    <2> QED
      BY <1>3, <2>1, LoneStays DEF CallbackEnters
  <1>4. CASE Enumerate \/ CallbackThrows \/ Raised \/ CallbackLeaves
    <2>1. /\ UNCHANGED <<up, lone, made, kind, callback, signal, queued>>
          /\ hpc' # "free" => hpc # "free" /\ holder' = holder
          /\ hpc' # "raising"
      BY <1>4 DEF Enumerate, CallbackThrows, Raised, CallbackLeaves
    <2> QED
      BY <2>1, LoneStays DEF Called, LoneInv
  <1>5. CASE UNCHANGED vars
    BY <1>5, LoneStays DEF vars, Called, LoneInv
  <1> QED
    BY <1>1, <1>2, <1>3, <1>4, <1>5, ServiceLone, RaiseLone, ChangeLone
       DEF Next, WatcherStep, HandlerStep, Rest

(* LoneChangeIsRight: a change that comes when everything is watched and   *)
(* settled raises the right one of the two events, for any number of       *)
(* watchers' threads, starts and stops: the wrong event takes two changes. *)
THEOREM LoneChangeIsTold == Spec => []LoneChangeIsRight
  <1>1. IInv /\ LoneInv => LoneChangeIsRight
    <2> SUFFICES ASSUME IInv, LoneInv, hpc = "raising", subject = lone
                 PROVE  callback[holder] =
                           IF lone \in up THEN "OnConnected" ELSE "OnDisconnected"
      BY DEF LoneChangeIsRight
    <2>1. Called(holder) /\ holder \in Regs /\ callback[holder] = CallbackFor(kind[holder])
      BY DEF LoneInv, Called
    <2>2. kind[holder] = KindOfLone
      BY <2>1 DEF LoneInv
    <2> QED
      BY <2>1, <2>2 DEF CallbackFor, KindOfLone
  <1>2. IInv /\ LoneInv /\ [Next]_vars => LoneInv'
    BY NextLone DEF IInv
  <1> QED
    BY InitLone, IInvHolds, <1>1, <1>2, PTL DEF Spec
=============================================================================

----------------------- MODULE RasConnectionNotification -----------------------
(* RasConnectionNotificationService.cs, with RegisteredCallbackFactory.cs: *)
(* a thread u in Subscribe or Unsubscribe.                                 *)
EXTENDS NotificationCallbackHandler

At(u, here, next) == pc[u] = here /\ pc' = [pc EXCEPT ![u] = next]

(* GuardMustNotBeDisposed of the service: throws, or goes on. *)
Guard(u, here, next) ==
    /\ At(u, here, IF serviceDisposed THEN "idle" ELSE next)
    /\ UNCHANGED <<rasVars, serviceVars, regVars, handlerVars, watcherVars, after,
                   context, reg, calls, crashed, history>>

(* Defect: does not wait. *)
LockSubscriptionsUnwaited == sem' = sem - 1

(* SyncRoot.Wait *)
LockSubscriptions == sem > 0 /\ sem' = sem - 1

Enter(u, here, next) ==
    /\ At(u, here, next)
    /\ ~serviceDisposed
    /\ LockSubscriptions
    /\ UNCHANGED <<rasVars, subs, serviceDisposed, regVars, handlerVars, watcherVars,
                   after, context, reg, calls, crashed, history>>

(* SyncRoot.Wait throws on a disposed semaphore, and so does the Release   *)
(* of the finally clause.                                                  *)
EnterThrows(u, here) ==
    /\ At(u, here, "idle")
    /\ serviceDisposed
    /\ UNCHANGED <<rasVars, serviceVars, regVars, handlerVars, watcherVars, after,
                   context, reg, calls, crashed, history>>

(* Defect: a path that leaves without releasing. *)
KeepLock == UNCHANGED sem

(* SyncRoot.Release, which throws once SyncRoot is disposed; the context   *)
(* of this call is not used again.                                         *)
UnlockSubscriptions == sem' = sem + 1

Leave(u, here, next) ==
    /\ At(u, here, IF serviceDisposed THEN "idle" ELSE next)
    /\ IF serviceDisposed THEN UNCHANGED sem ELSE UnlockSubscriptions
    /\ after' = [after EXCEPT ![u] = "return"]
    /\ context' = [context EXCEPT ![u] = NoConn]
    /\ UNCHANGED <<rasVars, subs, serviceDisposed, regVars, handlerVars, watcherVars,
                   reg, calls, crashed, history>>

-----------------------------------------------------------------------------
(* Subscribe *)

Initialize(u) ==
    /\ pc[u] = "initialize"
    /\ \/ InitializeSnapshot(u, "create")
       \/ /\ ~initialized /\ "enum" \in Failures
          /\ pc' = [pc EXCEPT ![u] = "release"]
          /\ UNCHANGED <<initialized, previous>>
    /\ UNCHANGED <<rasVars, serviceVars, regVars, hpc, holder, current, pending,
                   subject, watcherVars, after, context, reg, calls, crashed, history>>

(* The registration a thread makes: Connection first, then Disconnection.  *)
NextKind(u) ==
    IF reg[u] # 0 /\ kind[reg[u]] = "Connection" THEN "Disconnection" ELSE "Connection"

(* RegisterCallback: the factory creates the event and the wait on it, or  *)
(* throws with nothing left behind.                                        *)
Create(u) ==
    /\ \/ /\ At(u, "create", "notify")
          /\ made < MaxRegs
          /\ made' = made + 1
          /\ kind' = [kind EXCEPT ![made + 1] = NextKind(u)]
          /\ wait' = [wait EXCEPT ![made + 1] = "waiting"]
          /\ reg' = [reg EXCEPT ![u] = made + 1]
       \/ /\ "create" \in Failures
          /\ At(u, "create", "release")
          /\ UNCHANGED <<made, kind, wait>>
          /\ reg' = [reg EXCEPT ![u] = 0]
    /\ UNCHANGED <<rasVars, serviceVars, target, signal, queued, callback, handlerVars,
                   watcherVars, after, context, calls, crashed, history>>

(* Connection events are asked for with an invalid handle, the others with *)
(* the one DetermineHandleForSubscribe returns.                            *)
HandleFor(u) == IF kind[reg[u]] = "Connection" THEN NoConn ELSE context[u]

(* RasConnectionNotification: from now on RAS sets the event.  It refuses  *)
(* the handle of a connection that is gone.                                *)
Notify(u) ==
    /\ pc[u] = "notify"
    /\ \/ /\ HandleFor(u) \in up \cup {NoConn}
          /\ pc' = [pc EXCEPT ![u] = "assign"]
          /\ target' = [target EXCEPT ![reg[u]] = HandleFor(u)]
          /\ wait' = [wait EXCEPT ![reg[u]] = "armed"]
       \/ /\ "notify" \in Failures \/ HandleFor(u) \notin up \cup {NoConn}
          /\ pc' = [pc EXCEPT ![u] = "catch"]
          /\ UNCHANGED <<target, wait>>
    /\ UNCHANGED <<rasVars, serviceVars, made, kind, signal, queued, callback,
                   handlerVars, watcherVars, after, context, reg, calls, crashed,
                   history>>

(* Defect: the two callbacks are mixed up. *)
SwappedCallback(k) == IF k = "Connection" THEN "OnDisconnected" ELSE "OnConnected"

(* Defect: the state object is left without one. *)
NoCallback(k) == "null"

CallbackFor(k) == IF k = "Connection" THEN "OnConnected" ELSE "OnDisconnected"

(* The state object gets its callback, and notifications.Add takes it or   *)
(* throws because it has one of that kind.                                 *)
Assign(u) ==
    LET r == reg[u]
        k == kind[r]
    IN  /\ pc[u] = "assign"
        /\ callback' = [callback EXCEPT ![r] = CallbackFor(k)]
        /\ IF subs[k] # 0
              THEN /\ At(u, "assign", "catch")
                   /\ UNCHANGED <<subs, reg>>
              ELSE /\ subs' = [subs EXCEPT ![k] = r]
                   /\ IF k = "Connection"
                         THEN At(u, "assign", "create") /\ UNCHANGED reg
                         ELSE At(u, "assign", "release") /\ reg' = [reg EXCEPT ![u] = 0]
        /\ UNCHANGED <<rasVars, sem, serviceDisposed, made, kind, target, wait, signal,
                       queued, handlerVars, watcherVars, after, context, calls,
                       crashed, told, lone, missed>>

(* Defect: the catch block lets the registration be. *)
CatchNothing(r) == UNCHANGED <<wait, signal, missed>>

(* The catch block of RegisterCallback. *)
CatchDisposes(r) == Unregister(r)

Catch(u) ==
    /\ At(u, "catch", "release")
    /\ CatchDisposes(reg[u])
    /\ reg' = [reg EXCEPT ![u] = 0]
    /\ UNCHANGED <<rasVars, serviceVars, made, kind, target, queued, callback,
                   handlerVars, watcherVars, after, context, calls, crashed, told, lone>>

SubscribeStep(u) ==
    \/ Guard(u, "subscribe", "enter")
    \/ Enter(u, "enter", "initialize") \/ EnterThrows(u, "enter")
    \/ Initialize(u)
    \/ Create(u) \/ Notify(u) \/ Assign(u) \/ Catch(u)
    \/ Leave(u, "release", "idle")

-----------------------------------------------------------------------------
(* Unsubscribe *)

(* The registered callbacks are disposed one after the other, in the order *)
(* they were added.                                                        *)
DisposeCallback(u, k, here, next) ==
    /\ At(u, here, next)
    /\ IF subs[k] # 0 THEN Unregister(subs[k]) ELSE UNCHANGED <<wait, signal, missed>>
    /\ UNCHANGED <<rasVars, serviceVars, made, kind, target, queued, callback,
                   handlerVars, watcherVars, after, context, reg, calls, crashed,
                   told, lone>>

(* Defect: the dictionary keeps its entries. *)
ClearNothing == UNCHANGED subs

ClearSubscriptions == subs' = [k \in Kinds |-> 0]

Clear(u) ==
    /\ At(u, "clear", "unlock")
    /\ ClearSubscriptions
    /\ UNCHANGED <<rasVars, sem, serviceDisposed, regVars, handlerVars, watcherVars,
                   after, context, reg, calls, crashed, history>>

AfterUnsubscribe(u) ==
    CASE after[u] = "return"  -> "idle"
      [] after[u] = "start"   -> "start"
      [] after[u] = "dispose" -> "disposeService"

(* base.Dispose of the service: SyncRoot is disposed, the flag is set. *)
DisposeService(u) ==
    /\ At(u, "disposeService", "disposeWatcher")
    /\ serviceDisposed' = TRUE
    /\ UNCHANGED <<rasVars, sem, subs, regVars, handlerVars, watcherVars, after,
                   context, reg, calls, crashed, history>>

UnsubscribeStep(u) ==
    \/ Guard(u, "reset", "unsubscribe")
    \/ Enter(u, "unsubscribe", "unregister") \/ EnterThrows(u, "unsubscribe")
    \/ DisposeCallback(u, "Connection", "unregister", "unregister2")
    \/ DisposeCallback(u, "Disconnection", "unregister2", "clear")
    \/ Clear(u)
    \/ Leave(u, "unlock", AfterUnsubscribe(u))
    \/ DisposeService(u)
=============================================================================

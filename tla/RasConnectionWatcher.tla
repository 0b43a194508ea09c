-------------------------- MODULE RasConnectionWatcher --------------------------
(* RasConnectionWatcher.cs, composed with its service, the handler, the    *)
(* thread pool and RAS; and the properties of the whole.                   *)
EXTENDS RasConnectionNotification

(* A call begins: by a user, or by an event handler, which may call the    *)
(* watcher from inside its event.  Calls whose guards make them return or  *)
(* throw at once change nothing and are left out.                          *)
MayCall(u) ==
    /\ pc[u] = "idle"
    /\ u = Pool => hpc = "raising" /\ runner = Pool
    /\ calls < MaxCalls

Calls(u, to) ==
    /\ MayCall(u)
    /\ pc' = [pc EXCEPT ![u] = to]
    /\ calls' = calls + 1

(* Start: the guard, the look at IsActive, the context. *)
Start(u) ==
    /\ ~disposed /\ ~IsActive
    /\ Calls(u, "subscribe")
    /\ context' = [context EXCEPT ![u] = connection]
    /\ UNCHANGED <<rasVars, serviceVars, regVars, handlerVars, watcherVars, after, reg,
                   crashed, history>>

(* Stop: the guard and the look at IsActive. *)
Stop(u) ==
    /\ ~disposed /\ IsActive
    /\ Calls(u, "reset")
    /\ after' = [after EXCEPT ![u] = "return"]
    /\ UNCHANGED <<rasVars, serviceVars, regVars, handlerVars, watcherVars, context,
                   reg, crashed, history>>

(* The setter of Connection; a connection was up when the user got it.     *)
SetConnection(u, c) ==
    /\ c # connection /\ (c = NoConn \/ c \in up)
    /\ Calls(u, IF IsActive THEN "stop" ELSE "idle")
    /\ connection' = c
    /\ UNCHANGED <<rasVars, serviceVars, regVars, handlerVars, disposed, after, context,
                   reg, crashed, history>>

(* Dispose, which has no guard: it disposes the service first. *)
CallDispose(u) ==
    /\ MayDispose
    /\ Calls(u, "unsubscribe")
    /\ after' = [after EXCEPT ![u] = "dispose"]
    /\ UNCHANGED <<rasVars, serviceVars, regVars, handlerVars, watcherVars, context,
                   reg, crashed, history>>

(* Restart calls Stop, which throws, does nothing, or resets.              *)
RestartStops(u) ==
    /\ At(u, "stop", IF disposed THEN "idle" ELSE IF IsActive THEN "reset" ELSE "start")
    /\ after' = [after EXCEPT ![u] = "start"]

(* Restart calls Start, which throws, does nothing, or subscribes.         *)
RestartStarts(u) ==
    /\ At(u, "start", IF disposed \/ IsActive THEN "idle" ELSE "subscribe")
    /\ context' = [context EXCEPT ![u] = connection]

Restart(u) ==
    /\ \/ RestartStops(u) /\ UNCHANGED context
       \/ RestartStarts(u) /\ UNCHANGED after
    /\ UNCHANGED <<rasVars, serviceVars, regVars, handlerVars, watcherVars, reg, calls,
                   crashed, history>>

(* base.Dispose of the watcher. *)
DisposeWatcher(u) ==
    /\ At(u, "disposeWatcher", "idle")
    /\ disposed' = TRUE
    /\ UNCHANGED <<rasVars, serviceVars, regVars, handlerVars, connection, after,
                   context, reg, calls, crashed, history>>

Call(u) ==
    \/ Start(u) \/ Stop(u) \/ CallDispose(u)
    \/ \E c \in Targets : SetConnection(u, c)

WatcherStep(u) ==
    SubscribeStep(u) \/ UnsubscribeStep(u) \/ Restart(u) \/ DisposeWatcher(u)

Quiet ==
    \/ crashed
    \/ /\ hpc = "free"
       /\ \A u \in Threads : pc[u] = "idle"
       /\ \A r \in Regs : queued[r] = 0 /\ ~signal[r]

Rest == Quiet /\ UNCHANGED vars

Next ==
    \/ /\ ~crashed
       /\ \/ \E u \in Threads : Call(u) \/ WatcherStep(u)
          \/ \E r \in Regs : PoolQueues(r) \/ CallbackEnters(r)
          \/ HandlerStep
          \/ \E c \in Conns : Comes(c) \/ Goes(c)
    \/ Rest

Spec == Init /\ [][Next]_vars

Stuck(u) == serviceDisposed /\ pc[u] \in {"enter", "unsubscribe"}

(* Threads that can run do run, but for one in SyncRoot.Wait when SyncRoot *)
(* is disposed: it may throw, or stay there.  Nobody has to call, and no   *)
(* connection has to come or go.                                           *)
Fairness ==
    /\ \A u \in Threads : WF_vars(~crashed /\ WatcherStep(u) /\ ~Stuck(u))
    /\ \A r \in Regs : WF_vars(~crashed /\ (PoolQueues(r) \/ CallbackEnters(r)))
    /\ WF_vars(~crashed /\ HandlerStep)

FairSpec == Spec /\ Fairness

-----------------------------------------------------------------------------
(* Safety.                                                                 *)

(* SyncRoot of the service admits one thread. *)
OneSubscriber ==
    \A u, v \in Threads : pc[u] \in Holds /\ pc[v] \in Holds => u = v

(* Whenever no thread is inside Subscribe or Unsubscribe, the waits the    *)
(* pool has for this watcher are those of the dictionary IsActive counts,  *)
(* whatever failed: none leaks, none is dead.                              *)
SubscriptionsAreLive ==
    (\A u \in Threads : pc[u] \notin Holds)
        => \A r \in Regs : InUse(r) <=> \E k \in Kinds : subs[k] = r

(* An event handler is invoked through a state object that has none only   *)
(* while Subscribe is between registering it and filling it.               *)
CallbackIsSet ==
    hpc = "report" /\ callback[holder] = "null"
        => \E u \in Threads : pc[u] = "assign" /\ reg[u] = holder

(* No change is lost to the auto-reset events: as long as the process      *)
(* lives, a connection that changed while RAS was asked for it is known to *)
(* the handler, or a signal, a callback or an enumeration is still to come.*)
ChangesAreSignalled ==
    Stale \subseteq missed \/ crashed
        \/ hpc = "enumerate" \/ \E r \in Regs : signal[r] \/ queued[r] > 0

(* A change that comes alone to a watcher of all connections is told by    *)
(* the right one of the two events.                                        *)
LoneChangeIsRight ==
    hpc = "raising" /\ subject = lone
        => callback[holder] = IF lone \in up THEN "OnConnected" ELSE "OnDisconnected"

(* RasConnectionWatcher.cs:50 says Connected "Occurs when a new connection *)
(* has been established."                                                  *)
ConnectedMeansEstablished ==
    hpc = "raising" /\ callback[holder] = "OnConnected" => subject \in current \ previous

(* RasConnectionWatcher.cs:17 says IsActive tells whether this instance is *)
(* actively watching for connection changes: it has asked for both kinds.  *)
ActiveMeansWatching ==
    (\A u \in Threads : pc[u] \notin Holds) /\ IsActive => \A k \in Kinds : subs[k] # 0

(* Once Unsubscribe is done no new callback starts for what it disposed:   *)
(* what still comes after Stop was on the pool before.                     *)
StopIsFinal ==
    [][\A r \in Regs :
          (\A u \in Threads : pc[u] \notin Holds) /\ (\A k \in Kinds : subs[k] # r)
              => queued'[r] <= queued[r]]_vars

-----------------------------------------------------------------------------
(* Liveness.                                                               *)

(* Every call returns, made in an event handler or by the thread of the    *)
(* synchronizing object too, unless the watcher is disposed under it.      *)
EveryCallReturns ==
    \A u \in Threads : pc[u] # "idle" ~> pc[u] = "idle" \/ Stuck(u) \/ crashed

(* The handler catches up with a change RAS signalled, or it was undone.   *)
EveryChangeIsNoticed ==
    \A c \in Conns : c \in Stale \ missed ~> c \notin Stale \ missed \/ crashed

-----------------------------------------------------------------------------
LineOf(c) == IF c \in up THEN "up" ELSE IF c \in past THEN "gone" ELSE "never"

Promise == INSTANCE WatcherPromise WITH line <- [c \in Conns |-> LineOf(c)]

(* The watcher tells each change once, in order, and never one that was    *)
(* not, as WatcherPromise says.                                            *)
KeepsItsWord == Promise!Spec
=============================================================================

---------------------- MODULE NotificationCallbackHandler ----------------------
(* RasConnectionNotificationCallbackHandler.cs: the snapshot of the        *)
(* connections, and the pool threads that compare it with a new one.  All  *)
(* but Initialize's first look happens under the handler's own lock, which *)
(* is free when hpc = "free".                                              *)
EXTENDS WatchState, FiniteSets

(* Defect: the lock, which a thread may take again, is taken before        *)
(* looking whether there is anything to do.                                *)
InitializeLocks(u, next) ==
    /\ hpc = "free" \/ u = Pool
    /\ IF initialized THEN UNCHANGED <<initialized, previous>>
                      ELSE initialized' = TRUE /\ previous' = up
    /\ pc' = [pc EXCEPT ![u] = next]

(* Initialize, by a thread in Subscribe: the first one takes a snapshot.   *)
InitializeSnapshot(u, next) ==
    /\ \/ initialized /\ UNCHANGED <<initialized, previous>>
       \/ ~initialized /\ hpc = "free" /\ initialized' = TRUE /\ previous' = up
    /\ pc' = [pc EXCEPT ![u] = next]

(* Defect: no lock; the thread that was there before is not followed.      *)
LockNot == hpc # "raising"

LockFree == hpc = "free"

(* A callback on the pool enters lock (syncRoot). *)
CallbackEnters(r) ==
    /\ queued[r] > 0 /\ LockFree
    /\ queued' = [queued EXCEPT ![r] = @ - 1]
    /\ holder' = r /\ hpc' = "enumerate"
    /\ UNCHANGED <<rasVars, serviceVars, made, kind, target, wait, signal, callback,
                   initialized, previous, current, pending, subject, watcherVars,
                   threadVars, crashed, history>>

(* FindConnectionChanges: what the larger collection has and the other has *)
(* not; connections are equal when their handles are.                      *)
FindConnectionChanges(now) ==
    IF Cardinality(now) > Cardinality(previous) THEN now \ previous ELSE previous \ now

Enumerate ==
    /\ hpc = "enumerate"
    /\ current' = up
    /\ pending' = FindConnectionChanges(up)
    /\ hpc' = IF FindConnectionChanges(up) = {} THEN "store" ELSE "report"
    /\ UNCHANGED <<rasVars, serviceVars, regVars, initialized, previous, holder,
                   subject, watcherVars, threadVars, crashed, history>>

(* What the thread had on its stack is gone when it leaves the lock.       *)
Forget == holder' = 0 /\ current' = {} /\ pending' = {} /\ subject' = NoConn

(* The enumeration throws, or the callback of the state object is not set: *)
(* the exception leaves the pool thread and ends the process.              *)
CallbackThrows ==
    /\ \/ hpc = "enumerate" /\ "enum" \in Failures
       \/ hpc = "report" /\ callback[holder] = "null"
    /\ hpc' = "free" /\ crashed' = TRUE
    /\ Forget
    /\ UNCHANGED <<rasVars, serviceVars, regVars, initialized, previous, watcherVars,
                   threadVars, history>>

(* ExecuteCallbackForChanges: the event for one change is raised, on the   *)
(* thread of the SynchronizingObject when there is one.  RaiseEvent waits  *)
(* until that thread is free and has run the event handlers; what they     *)
(* throw goes to the Error event and no further.                           *)
Raise(c) ==
    /\ hpc = "report" /\ c \in pending
    /\ callback[holder] # "null"
    /\ pc[runner] = "idle"
    /\ pending' = pending \ {c}
    /\ subject' = c
    /\ hpc' = "raising"
    /\ told' = [told EXCEPT ![c] = Append(@, IF c \in current THEN "came" ELSE "went")]
    /\ UNCHANGED <<rasVars, serviceVars, regVars, initialized, previous, holder,
                   current, watcherVars, threadVars, crashed, missed, lone>>

Raised ==
    /\ hpc = "raising" /\ pc[runner] = "idle"
    /\ hpc' = IF pending = {} THEN "store" ELSE "report"
    /\ UNCHANGED <<rasVars, serviceVars, regVars, initialized, previous, holder,
                   current, pending, subject, watcherVars, threadVars, crashed,
                   history>>

(* Defect: the snapshot stays what it was. *)
StoreNothing == UNCHANGED previous

Store == previous' = current

CallbackLeaves ==
    /\ hpc = "store"
    /\ Store
    /\ hpc' = "free"
    /\ Forget
    /\ UNCHANGED <<rasVars, serviceVars, regVars, initialized, watcherVars,
                   threadVars, crashed, history>>

HandlerStep ==
    \/ Enumerate \/ CallbackThrows \/ Raised \/ CallbackLeaves
    \/ \E c \in Conns : Raise(c)
=============================================================================

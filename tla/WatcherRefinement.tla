---------------------------- MODULE WatcherRefinement ----------------------------
(***************************************************************************)
(* A RasConnectionWatcher implements WatcherPromise: each connection is    *)
(* told at most once to have come and at most once to have gone, in this   *)
(* order, and only when it did, for any number of connections and users.   *)
(***************************************************************************)
EXTENDS WatchingProofs, SequenceTheorems

(* The thread in the handler has enumerated and not yet stored.            *)
Looking == hpc \in {"report", "raising", "store"}

Went == {<<"went">>, <<"came", "went">>}

(* How what was told of a connection relates to the handler's snapshots:   *)
(* what was told to have come is known or gone, what was told to have gone *)
(* is gone and never known again, and what is still to be reported was not *)
(* told before.                                                            *)
TellInv ==
    /\ up \cap past = {}
    /\ previous \subseteq up \cup past
    /\ Looking => /\ current \subseteq up \cup past
                  /\ previous \ current \subseteq past
                  /\ pending \subseteq current \cup previous
    /\ ~Looking => pending = {}
    /\ \A c \in Conns :
          /\ told[c] \in {<<>>, <<"came">>} \cup Went
          /\ told[c] # <<>> => c \in up \cup past
          /\ told[c] # <<>> => crashed \/ c \in past \/ c \in Known
          /\ told[c] \in Went => c \in past /\ c \notin pending
          /\ told[c] \in Went => crashed \/ c \notin Known
          /\ c \in pending \cap current => told[c] = <<>>

LEMMA InitTell == Init => TellInv
  BY DEF Init, TellInv, Looking, Went

(* Steps outside the handler: the snapshot may be taken, nothing is told.  *)
LEMMA TellStays ==
  ASSUME TypeOK, TellInv,
         UNCHANGED <<up, past, hpc, current, pending, told, crashed>>,
         UNCHANGED previous \/ (hpc = "free" /\ previous' = up)
  PROVE  TellInv'
  <1> USE DEF TellInv, Looking, Known
  <1>1. CASE UNCHANGED previous
    BY <1>1
  <1>2. CASE hpc = "free" /\ previous' = up
    BY <1>2
  <1> QED
    BY <1>1, <1>2

LEMMA ServiceTells ==
  ASSUME TypeOK, NEW u \in Threads, SubscribeStep(u) \/ UnsubscribeStep(u)
  PROVE  UNCHANGED <<past, pending, told>>
  BY DEF SubscribeStep, UnsubscribeStep, Guard, Enter, EnterThrows, Initialize, Create,
     Notify, Assign, Catch, Leave, DisposeCallback, Clear, DisposeService,
     rasVars, handlerVars, history

LEMMA OnlyCame == Append(<<>>, "came") = <<"came">> /\ <<"came">> \notin Went
  <1>1. <<"came">> # <<"went">>
    <2> SUFFICES <<"came">>[1] # <<"went">>[1]
      BY Zenon
    <2> QED
      OBVIOUS
  <1>2. <<"came">> # <<"came", "went">>
    <2> SUFFICES Len(<<"came">>) # Len(<<"came", "went">>)
      BY Zenon
    <2> QED
      OBVIOUS
  <1> QED
    BY <1>1, <1>2 DEF Went

LEMMA ThenWent == \A s \in {<<>>, <<"came">>} : Append(s, "went") \in Went
  <1>1. Append(<<>>, "went") = <<"went">>
    OBVIOUS
  <1>2. Append(<<"came">>, "went") = <<"came", "went">>
    <2> DEFINE S == {"came", "went"}
               a == Append(<<"came">>, "went")
               b == <<"came", "went">>
    <2>1. a \in Seq(S) /\ b \in Seq(S) /\ Len(a) = 2 /\ Len(b) = 2
      OBVIOUS
    <2>2. \A i \in 1..Len(a) : a[i] = b[i]
      BY <2>1
    <2> QED
      BY <2>1, <2>2, SeqEqual
  <1> QED
    BY <1>1, <1>2 DEF Went

LEMMA EnumerateTell == TypeOK /\ TellInv /\ ~crashed /\ Enumerate => TellInv'
  <1> SUFFICES ASSUME TypeOK, TellInv, ~crashed, Enumerate PROVE TellInv'
    OBVIOUS
  <1>1. /\ ~Looking /\ Looking' /\ Known = previous /\ Known' = up
        /\ current' = up /\ pending' \subseteq up \cup previous
        /\ UNCHANGED <<up, past, previous, told, crashed>>
    BY DEF Enumerate, FindConnectionChanges, Looking, Known, rasVars, history
  <1>2. previous \ up \subseteq past
    BY DEF TellInv
  <1>3. ASSUME NEW c \in Conns
        PROVE  /\ told[c] \in Went => c \notin previous /\ c \notin up
               /\ c \in pending' \cap up => c \notin previous
    <2>1. told[c] \in Went => c \in past /\ c \notin previous
      BY <1>1 DEF TellInv
    <2>2. pending' = up \ previous \/ pending' = previous \ up
      BY DEF Enumerate, FindConnectionChanges
    <2> QED
      BY <2>1, <2>2 DEF TellInv
  <1> QED
    BY <1>1, <1>2, <1>3 DEF TellInv

LEMMA RaiseTell == \A c \in Conns : TypeOK /\ TellInv /\ ~crashed /\ Raise(c) => TellInv'
  <1> SUFFICES ASSUME NEW c \in Conns, TypeOK, TellInv, ~crashed, Raise(c) PROVE TellInv'
    OBVIOUS
  <1>1. /\ Looking /\ Looking' /\ Known = current /\ Known' = current
        /\ c \in pending /\ pending' = pending \ {c}
        /\ UNCHANGED <<up, past, previous, current, crashed>>
    BY DEF Raise, Looking, Known, rasVars
  <1>2. /\ told'[c] = Append(told[c], IF c \in current THEN "came" ELSE "went")
        /\ \A d \in Conns \ {c} : told'[d] = told[d]
    BY DEF Raise, TypeOK
  <1>3. CASE c \in current
    <2>1. told'[c] = <<"came">> /\ told'[c] \notin Went
      <3>1. told[c] = <<>>
        BY <1>1, <1>3 DEF TellInv
      <3> QED
        BY <1>2, <1>3, <3>1, OnlyCame
    <2>2. c \in up \cup past
      BY <1>1 DEF TellInv
    <2> QED
      BY <1>1, <1>2, <1>3, <2>1, <2>2 DEF TellInv
  <1>4. CASE c \notin current
    <2>1. c \in past
      BY <1>1, <1>4 DEF TellInv
    <2>2. told[c] \in {<<>>, <<"came">>}
      BY <1>1 DEF TellInv
    <2>3. told'[c] \in Went
      BY <1>2, <1>4, <2>2, ThenWent
    <2> QED
      BY <1>1, <1>2, <1>4, <2>1, <2>3 DEF TellInv
  <1> QED
    BY <1>3, <1>4

LEMMA HandlerTell == TypeOK /\ TellInv /\ ~crashed /\ HandlerStep => TellInv'
  <1> SUFFICES ASSUME TypeOK, TellInv, ~crashed, HandlerStep PROVE TellInv'
    OBVIOUS
  <1> USE DEF rasVars, history
  <1>1. CASE CallbackThrows
    BY <1>1 DEF CallbackThrows, Forget, TellInv, Looking, Known
  <1>2. CASE Raised
    BY <1>2 DEF Raised, TellInv, Looking, Known
  <1>3. CASE CallbackLeaves
    <2>1. /\ Looking /\ ~Looking' /\ Known = current /\ Known' = current
          /\ previous' = current /\ pending' = {} /\ current' = {}
          /\ UNCHANGED <<up, past, told, crashed>>
      BY <1>3 DEF CallbackLeaves, Store, Forget, Looking, Known
    <2> QED
      BY <2>1 DEF TellInv
  <1> QED
    BY <1>1, <1>2, <1>3, EnumerateTell, RaiseTell DEF HandlerStep

LEMMA RasTell == \A c \in Conns : TypeOK /\ TellInv /\ (Comes(c) \/ Goes(c)) => TellInv'
  <1> SUFFICES ASSUME NEW c \in Conns, TypeOK, TellInv, Comes(c) \/ Goes(c) PROVE TellInv'
    OBVIOUS
  <1>1. /\ UNCHANGED <<hpc, previous, current, pending, told, crashed>>
        /\ \/ c \notin up \cup past /\ up' = up \cup {c} /\ past' = past
           \/ c \in up /\ up' = up \ {c} /\ past' = past \cup {c}
    BY DEF Comes, Goes, handlerVars
  <1>2. /\ up' \cap past' = {} /\ up \cup past \subseteq up' \cup past'
        /\ past \subseteq past' /\ UNCHANGED <<Known, Looking>>
    BY <1>1 DEF TellInv, Known, Looking
  <1> QED
    BY <1>1, <1>2 DEF TellInv

LEMMA NextTell == TypeOK /\ TellInv /\ [Next]_vars => TellInv'
  <1> SUFFICES ASSUME TypeOK, TellInv, [Next]_vars PROVE TellInv'
    OBVIOUS
  <1>1. ASSUME NEW u \in Threads, SubscribeStep(u) \/ UnsubscribeStep(u)
        PROVE  TellInv'
    BY <1>1, ServiceSignals, ServiceTells, TellStays
  <1>2. ASSUME NEW u \in Threads, Restart(u) \/ DisposeWatcher(u) \/ Call(u)
        PROVE  TellInv'
    BY <1>2, TellStays DEF Restart, DisposeWatcher, Call, Start, Stop, CallDispose,
       SetConnection, rasVars, handlerVars, history
  <1>3. ASSUME NEW r \in Regs, PoolQueues(r)
        PROVE  TellInv'
    BY <1>3, TellStays DEF PoolQueues, rasVars, handlerVars, history
  <1>4. ASSUME NEW r \in Regs, CallbackEnters(r)
        PROVE  TellInv'
    BY <1>4 DEF CallbackEnters, LockFree, TellInv, Looking, Known, rasVars, history
  <1>5. CASE UNCHANGED vars
    BY <1>5, TellStays DEF vars, rasVars, handlerVars, history
  <1> QED
    BY <1>1, <1>2, <1>3, <1>4, <1>5, HandlerTell, RasTell DEF Next, WatcherStep, Rest

-----------------------------------------------------------------------------
(* The refinement.                                                         *)

Line == [c \in Conns |-> LineOf(c)]

LEMMA LineStays ==
  ASSUME UNCHANGED <<up, past>>
  PROVE  UNCHANGED Line
  BY DEF Line, LineOf

LEMMA InitPromise == Init => Promise!Init
  BY DEF Init, Promise!Init, LineOf

(* Only RAS changes the line.  Only Raise tells.                           *)
LEMMA TellSteps ==
  ASSUME TypeOK, [Next]_vars
  PROVE  \/ UNCHANGED <<up, past, told>>
         \/ ~crashed /\ \E c \in Conns : Raise(c) \/ Comes(c) \/ Goes(c)
  <1> USE DEF rasVars, history
  <1>1. ASSUME NEW u \in Threads, SubscribeStep(u) \/ UnsubscribeStep(u)
        PROVE  UNCHANGED <<up, past, told>>
    BY <1>1, ServiceSignals, ServiceTells
  <1>2. ASSUME NEW u \in Threads, Restart(u) \/ DisposeWatcher(u) \/ Call(u)
        PROVE  UNCHANGED <<up, past, told>>
    BY <1>2 DEF Restart, DisposeWatcher, Call, Start, Stop, CallDispose, SetConnection
  <1>3. ASSUME NEW r \in Regs, PoolQueues(r) \/ CallbackEnters(r)
        PROVE  UNCHANGED <<up, past, told>>
    BY <1>3 DEF PoolQueues, CallbackEnters
  <1>4. ASSUME Enumerate \/ CallbackThrows \/ Raised \/ CallbackLeaves
        PROVE  UNCHANGED <<up, past, told>>
    BY <1>4 DEF Enumerate, CallbackThrows, Raised, CallbackLeaves
  <1>5. CASE UNCHANGED vars
    BY <1>5 DEF vars
  <1> QED
    BY <1>1, <1>2, <1>3, <1>4, <1>5 DEF Next, WatcherStep, HandlerStep, Rest

LEMMA NextPromise ==
  ASSUME TypeOK, TellInv, [Next]_vars
  PROVE  [Promise!Next]_<<Line, told>>
  <1>1. CASE UNCHANGED <<up, past, told>>
    BY <1>1, LineStays
  <1>2. ASSUME NEW c \in Conns, Comes(c)
        PROVE  Promise!Comes(c)
    <2>1. c \notin up \cup past /\ up' = up \cup {c} /\ past' = past /\ told' = told
      BY <1>2 DEF Comes
    <2>2. Line[c] = "never" /\ Line' = [Line EXCEPT ![c] = "up"]
      BY <2>1 DEF Line, LineOf
    <2> QED
      BY <2>1, <2>2 DEF Promise!Comes, Line
  <1>3. ASSUME NEW c \in Conns, Goes(c)
        PROVE  Promise!Goes(c)
    <2>1. c \in up /\ up' = up \ {c} /\ past' = past \cup {c} /\ told' = told
      BY <1>3 DEF Goes
    <2>2. Line[c] = "up" /\ Line' = [Line EXCEPT ![c] = "gone"]
      BY <2>1 DEF Line, LineOf
    <2> QED
      BY <2>1, <2>2 DEF Promise!Goes, Line
  <1>4. ASSUME NEW c \in Conns, Raise(c)
        PROVE  Promise!TellCame(c) \/ Promise!TellWent(c)
    <2>1. /\ Looking /\ c \in pending
          /\ told' = [told EXCEPT ![c] = Append(@, IF c \in current THEN "came" ELSE "went")]
          /\ UNCHANGED <<up, past>>
      BY <1>4 DEF Raise, Looking, rasVars
    <2>2. UNCHANGED Line
      BY <2>1, LineStays
    <2>3. CASE c \in current
      <3>1. told[c] = <<>> /\ Line[c] # "never"
        BY <2>1, <2>3 DEF TellInv, Line, LineOf
      <3>2. told' = [told EXCEPT ![c] = <<"came">>]
        BY <2>1, <2>3, <3>1 DEF TypeOK
      <3> QED
        BY <2>2, <3>1, <3>2 DEF Promise!TellCame, Line
    <2>4. CASE c \notin current
      <3>1. told[c] \in {<<>>, <<"came">>} /\ c \in past /\ c \notin up
        BY <2>1, <2>4 DEF TellInv
      <3>2. Line[c] = "gone"
        BY <3>1 DEF Line, LineOf
      <3> QED
        BY <2>1, <2>2, <2>4, <3>1, <3>2 DEF Promise!TellWent, Line
    <2> QED
      BY <2>3, <2>4
  <1> QED
    BY <1>1, <1>2, <1>3, <1>4, TellSteps DEF Promise!Next

(* KeepsItsWord: every behaviour of the watcher, its service, its handler  *)
(* and the pool threads is one that WatcherPromise allows.                 *)
THEOREM WatcherKeepsItsWord == Spec => KeepsItsWord
  <1>1. TypeOK /\ TellInv /\ [Next]_vars => [Promise!Next]_<<Line, told>>
    BY NextPromise
  <1>2. Spec => []TellInv
    BY InitTell, NextTell, TypeCorrect, PTL DEF Spec
  <1> QED
    BY <1>1, <1>2, TypeCorrect, InitPromise, PTL DEF Spec, KeepsItsWord, Promise!Spec, Line
=============================================================================

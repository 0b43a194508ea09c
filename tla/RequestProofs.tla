----------------------------- MODULE RequestProofs -----------------------------
(***************************************************************************)
(* Theorems about RasRequests, for any threads, connections and devices,   *)
(* whatever RAS and the memory refuse: an enumeration is the list at one   *)
(* moment, a hang up does what it was asked, a loss is told as one, and    *)
(* the blocks of EAP data have one owner.                                  *)
(***************************************************************************)
EXTENDS RasRequests, FiniteSetTheorems, TLAPS

(* What a thread is about. *)
TargetInv(t) ==
    /\ pc[t] \in {"fetch", "yield"} => target[t] \in Lists
    /\ pc[t] \in {"token", "hangUp", "sleep", "status"} => target[t] \in Conns
    /\ pc[t] \in {"alloc", "query", "retry", "catch"} => target[t] \notin Lists
    /\ target[t] \in Conns => opened[target[t]] > 0

(* An enumeration: the list as it is while the loop runs, the answer of    *)
(* RAS, and the part of it that was yielded.                               *)
ListInv(t) ==
    /\ pc[t] = "idle" => made[t] = {}
    /\ pc[t] = "fetch" => made[t] = {} /\ Listed(target[t]) \in seen[t]
    /\ pc[t] = "yield" => made[t] \subseteq slots[t] /\ slots[t] \in seen[t]
    /\ pc[t] = "returned" /\ target[t] \in Lists => made[t] \in seen[t]
    /\ pc[t] = "thrown" /\ target[t] \in Lists /\ thrown[t].code \notin Codes => BrokeOff(t)

(* A hang up: what it has closed, and that it does not return while the    *)
(* connection is up when it was to close all references.                   *)
HangsUp == {"token", "hangUp", "sleep"}

CloseInv(t) ==
    /\ pc[t] \notin HangsUp \cup {"returned", "thrown"} => ~all[t] /\ closed[t] = 0
    /\ pc[t] \in {"token", "hangUp"} /\ ~all[t] => closed[t] = 0
    /\ ~all[t] => closed[t] <= 1
    /\ all[t] => target[t] \in Conns
    /\ pc[t] \in {"sleep", "returned"} /\ all[t] => target[t] \notin Up

(* EAP data: whose block is live, where.                                   *)
Fetches == {"alloc", "query", "retry", "catch", "returned", "thrown"}

BufferInv(t) ==
    /\ pc[t] \notin Fetches => buf[t] = 0
    /\ buf[t] # 0 =>
          /\ heap[buf[t]] # "unused"
          /\ pc[t] \in {"query", "retry", "returned"} => heap[buf[t]] = "live"
          /\ pc[t] \in {"alloc", "thrown"} => heap[buf[t]] # "live"
          /\ pc[t] = "catch" => heap[buf[t]] = "live" \/ thrown[t].class = "OutOfMemory"

ThreadInv(t) == TargetInv(t) /\ ListInv(t) /\ CloseInv(t) /\ BufferInv(t)

(* No two threads have the same block. *)
BlocksAreApart == \A t, u \in Threads : buf[t] = buf[u] /\ buf[t] # 0 => t = u

IInv == TypeOK /\ (\A t \in Threads : ThreadInv(t)) /\ BlocksAreApart

-----------------------------------------------------------------------------
(* Types.                                                                  *)

LEMMA InitTypes == Init => TypeOK
  <1> SUFFICES ASSUME Init PROVE TypeOK
    OBVIOUS
  <1>1. \A c \in Conns : refs[c] \in {0, 1} /\ opened[c] = refs[c] /\ MaxRefs[c] \in Nat \ {0}
    BY RequestAssumption DEF Init
  <1>2. refs \in [Conns -> Nat] /\ opened \in [Conns -> Nat]
    BY DEF Init
  <1>3. \A c \in Conns : refs[c] <= opened[c] /\ opened[c] <= MaxRefs[c]
    BY <1>1
  <1>4. calls \in 0..MaxCalls /\ size \in [Threads -> 0..MaxData]
    BY RequestAssumption DEF Init
  <1>5. NoException \in Exceptions
    BY DEF NoException, Exception, Exceptions
  <1> QED
    BY <1>2, <1>3, <1>4, <1>5 DEF Init, TypeOK, PC

LEMMA CodeTypes ==
  ASSUME NEW code \in Nat, code # SUCCESS
  PROVE  Create(code) \in Exceptions /\ Create(code).code = code
  BY DEF Create, Exception, Exceptions

LEMMA ListedTypes ==
  ASSUME TypeOK, NEW l
  PROVE  Listed(l) \in SUBSET (Conns \cup Ports) /\ Cardinality(Listed(l)) \in Nat
  <1>1. Listed(l) \in SUBSET (Conns \cup Ports)
    BY DEF TypeOK, Listed, Up
  <1>2. IsFiniteSet(Conns \cup Ports)
    BY RequestAssumption, FS_Union
  <1>3. IsFiniteSet(Listed(l))
    BY <1>1, <1>2, FS_Subset
  <1> QED
    BY <1>1, <1>3, FS_CardinalityType

LEMMA WitnessedTypes ==
  ASSUME TypeOK, NEW l, Witnessed(l), refs' \in [Conns -> Nat], plugged' \subseteq Ports
  PROVE  seen' \in [Threads -> SUBSET SUBSET (Conns \cup Ports)]
  <1>1. Listed(l)' \in SUBSET (Conns \cup Ports)
    BY DEF Listed, Up
  <1> HIDE DEF Listed
  <1> QED
    BY <1>1 DEF Witnessed, TypeOK

LEMMA CallTypes ==
  ASSUME TypeOK, NEW t \in Threads, Call(t)
  PROVE  TypeOK'
  <1>1. ASSUME NEW request, NEW here \in PC, NEW what \in Conns \cup Lists \cup {NoItem},
               Calls(t, request, here, what)
        PROVE  /\ calls' \in 0..MaxCalls /\ pc' \in [Threads -> PC]
               /\ target' \in [Threads -> Conns \cup Lists \cup {NoItem}]
    BY <1>1, RequestAssumption DEF Calls, At, TypeOK
  <1>2. ASSUME NEW l \in Lists, CallEnumerate(t, l)
        PROVE  TypeOK'
    <2>1. seen' \in [Threads -> SUBSET SUBSET (Conns \cup Ports)]
      BY <1>2, ListedTypes DEF CallEnumerate, TypeOK
    <2>2. count' \in [Threads -> Nat]
      BY <1>2 DEF CallEnumerate, TypeOK
    <2> QED
      BY <1>1, <1>2, <2>1, <2>2 DEF CallEnumerate, TypeOK, PC, machineVars, eapVars
  <1>3. ASSUME NEW c \in Conns, CallHangUp(t, c)
        PROVE  TypeOK'
    BY <1>1, <1>3 DEF CallHangUp, TypeOK, PC, machineVars, enumVars, eapVars
  <1>4. ASSUME NEW c \in Conns, CallGetStatus(t, c)
        PROVE  TypeOK'
    BY <1>1, <1>4 DEF CallGetStatus, TypeOK, PC, machineVars, enumVars, eapVars
  <1>5. CASE CallGetEapUserData(t)
    BY <1>1, <1>5 DEF CallGetEapUserData, TypeOK, PC, machineVars, enumVars, eapVars
  <1> QED
    BY <1>2, <1>3, <1>4, <1>5 DEF Call

LEMMA ThrowTypes ==
  ASSUME TypeOK, NEW t \in Threads, NEW e \in Exceptions, Throws(t, e)
  PROVE  pc' \in [Threads -> PC] /\ thrown' \in [Threads -> Exceptions]
  BY DEF TypeOK, Throws, PC

LEMMA AtTypes ==
  ASSUME TypeOK, NEW t \in Threads, NEW here, NEW next \in PC, At(t, here, next)
  PROVE  pc' \in [Threads -> PC]
  BY DEF TypeOK, At

LEMMA FailureCodes ==
  /\ \A code \in Codes : code \in Nat /\ code # SUCCESS /\ code # ERROR_NO_CONNECTION
                         /\ code # ERROR_INVALID_HANDLE
  /\ \A code \in Codes : Create(code) \in Exceptions
  <1>1. \A code \in Codes : code \in Nat /\ code # SUCCESS /\ code # ERROR_NO_CONNECTION
                          /\ code # ERROR_INVALID_HANDLE
    BY RequestAssumption
  <1> QED
    BY <1>1, CodeTypes

LEMMA EnumerationTypes ==
  ASSUME TypeOK, NEW t \in Threads, EnumerationStep(t)
  PROVE  TypeOK'
  <1> USE DEF machineVars, enumVars, eapVars
  <1>1. CASE Fetch(t)
    <2> DEFINE now == Listed(target[t])
    <2>1. now \in SUBSET (Conns \cup Ports) /\ Cardinality(now) \in Nat
      BY ListedTypes
    <2> HIDE DEF now
    <2>2. pc' \in [Threads -> PC] /\ thrown' \in [Threads -> Exceptions]
      <3>1. ASSUME NEW code \in Codes, Throws(t, Create(code))
            PROVE  pc' \in [Threads -> PC] /\ thrown' \in [Threads -> Exceptions]
        BY <3>1, FailureCodes, ThrowTypes
      <3>2. ASSUME Retry(t) \/ At(t, "fetch", "yield"), UNCHANGED thrown
            PROVE  pc' \in [Threads -> PC] /\ thrown' \in [Threads -> Exceptions]
        BY <3>2, AtTypes DEF Retry, PC, TypeOK
      <3> QED
        BY <1>1, <3>1, <3>2 DEF Fetch
    <2>3. count' \in [Threads -> Nat] /\ slots' \in [Threads -> SUBSET (Conns \cup Ports)]
      BY <1>1, <2>1 DEF Fetch, TypeOK, now
    <2> QED
      BY <1>1, <2>2, <2>3 DEF Fetch, TypeOK
  <1>2. CASE Yield(t)
    BY <1>2 DEF Yield, TypeOK
  <1>3. CASE YieldThrows(t)
    BY <1>3 DEF YieldThrows, TypeOK, Throws, Exception, Exceptions, PC
  <1>4. CASE YieldEnds(t)
    BY <1>4, AtTypes DEF YieldEnds, TypeOK, PC
  <1> QED
    BY <1>1, <1>2, <1>3, <1>4 DEF EnumerationStep

LEMMA HangUpTypes ==
  ASSUME TypeOK, \A t \in Threads : ThreadInv(t), NEW t \in Threads, HangUpStep(t)
  PROVE  TypeOK'
  <1> USE DEF machineVars, enumVars, eapVars
  <1>1. CASE CheckToken(t)
    <2>1. Exception("OperationCanceled", 0) \in Exceptions
      BY DEF Exception, Exceptions
    <2>2. pc' \in [Threads -> PC] /\ thrown' \in [Threads -> Exceptions]
      BY <1>1, <2>1, AtTypes, ThrowTypes DEF CheckToken, TypeOK, PC
    <2> QED
      BY <1>1, <2>2 DEF CheckToken, TypeOK
  <1>2. CASE CloseReference(t)
    <2> DEFINE c == target[t]
    <2>1. c \in Conns
      BY <1>2 DEF CloseReference, ThreadInv, TargetInv
    <2>2. PICK ret \in HangUpReturns(c) :
              /\ refs' = [refs EXCEPT ![c] = IF ret = SUCCESS THEN @ - 1 ELSE @]
              /\ closed' = [closed EXCEPT ![t] = IF ret = SUCCESS THEN @ + 1 ELSE @]
              /\ IF ShouldThrowExceptionFromReturnCode(ret)
                    THEN Throws(t, Create(ret))
                    ELSE /\ At(t, "hangUp", IF LoopsOn(t, ret) THEN "token" ELSE "sleep")
                         /\ UNCHANGED thrown
      BY <1>2 DEF CloseReference
    <2>3. ret = SUCCESS => refs[c] > 0
      BY FailureCodes DEF HangUpReturns, Up, SUCCESS, ERROR_NO_CONNECTION, RASBASE
    <2>4. refs' \in [Conns -> Nat] /\ \A d \in Conns : refs'[d] <= refs[d]
      BY <2>1, <2>2, <2>3 DEF TypeOK
    <2>5. \A d \in Conns : refs'[d] <= opened[d]
      BY <2>4 DEF TypeOK
    <2>6. closed' \in [Threads -> Nat]
      BY <2>2 DEF TypeOK
    <2>7. pc' \in [Threads -> PC] /\ thrown' \in [Threads -> Exceptions]
      <3>1. CASE ShouldThrowExceptionFromReturnCode(ret)
        <4>1. Create(ret) \in Exceptions
          BY <3>1, FailureCodes DEF HangUpReturns, ShouldThrowExceptionFromReturnCode
        <4> QED
          BY <2>2, <3>1, <4>1, ThrowTypes
      <3>2. CASE ~ShouldThrowExceptionFromReturnCode(ret)
        BY <2>2, <3>2, AtTypes DEF PC, TypeOK
      <3> QED
        BY <3>1, <3>2
    <2>8. seen' \in [Threads -> SUBSET SUBSET (Conns \cup Ports)]
      BY <1>2, <2>4, WitnessedTypes DEF CloseReference, TypeOK
    <2> QED
      BY <1>2, <2>4, <2>5, <2>6, <2>7, <2>8 DEF CloseReference, TypeOK
  <1>3. CASE Sleep(t)
    BY <1>3, AtTypes DEF Sleep, TypeOK, PC
  <1> QED
    BY <1>1, <1>2, <1>3 DEF HangUpStep

LEMMA StatusReturnsTypes ==
  ASSUME NEW c, NEW ret \in StatusReturns(c), ret # SUCCESS
  PROVE  /\ CreateForStatus(ret) \in Exceptions
         /\ \/ ret \in Codes /\ "status" \in Failures /\ CreateForStatus(ret).code = ret
            \/ c \notin Up /\ CreateForStatus(ret) = Exception("RasException", ERROR_NO_CONNECTION)
  <1>1. ret = ERROR_INVALID_HANDLE \/ ret \in Codes
    BY DEF StatusReturns
  <1>2. CASE ret = ERROR_INVALID_HANDLE
    <2>1. CreateForStatus(ret) = Create(ERROR_NO_CONNECTION)
      BY <1>2 DEF CreateForStatus
    <2>2. Create(ERROR_NO_CONNECTION) = Exception("RasException", ERROR_NO_CONNECTION)
      BY DEF Create, IsRasErrorCode, IsIPSecErrorCode, ERROR_NO_CONNECTION, SUCCESS,
         ERROR_INVALID_SIZE, RASBASE, RASBASEEND, IPSECBASE, IPSECBASEEND
    <2>3. c \notin Up
      BY <1>2, FailureCodes DEF StatusReturns, SUCCESS, ERROR_INVALID_HANDLE
    <2> QED
      BY <2>1, <2>2, <2>3 DEF Exception, Exceptions, ERROR_NO_CONNECTION, RASBASE
  <1>3. CASE ret \in Codes /\ ret # ERROR_INVALID_HANDLE
    <2>1. CreateForStatus(ret) = Create(ret)
      BY <1>3 DEF CreateForStatus
    <2>2. "status" \in Failures
      BY <1>3, FailureCodes DEF StatusReturns
    <2> QED
      BY <1>3, <2>1, <2>2, FailureCodes, CodeTypes
  <1> QED
    BY <1>1, <1>2, <1>3

(* What an answer that is no status throws.                                *)
Conversions == {"KeyNotFound", "ArgumentNull", "NotSupported"}

LEMMA ConversionTypes ==
  ASSUME NEW type, NEW known \in KnownEndpoints, NEW class,
         class = ConversionThrows(type, known), class # "none"
  PROVE  /\ class \in Conversions
         /\ class = "KeyNotFound" => type = "frameRelay"
         /\ class = "ArgumentNull" => type = "blank"
         /\ class = "NotSupported" => "endpoint" \in Failures
  <1>1. known \in BOOLEAN /\ (~known => "endpoint" \in Failures)
    BY DEF KnownEndpoints
  <1>2. CASE type = "blank"
    <2>1. DeviceFor(type) = "null"
      BY <1>2 DEF DeviceFor
    <2> QED
      BY <1>1, <1>2, <2>1 DEF ConversionThrows, Conversions
  <1>3. CASE type = "frameRelay"
    <2>1. DeviceFor(type) = "KeyNotFound"
      BY <1>3 DEF DeviceFor
    <2> QED
      BY <1>1, <1>3, <2>1 DEF ConversionThrows, Conversions
  <1>4. CASE type # "blank" /\ type # "frameRelay"
    <2>1. DeviceFor(type) = "device"
      BY <1>4 DEF DeviceFor
    <2> QED
      BY <1>1, <2>1 DEF ConversionThrows, Conversions
  <1> QED
    BY <1>2, <1>3, <1>4

LEMMA StatusTypes ==
  ASSUME TypeOK, NEW t \in Threads, GetStatus(t)
  PROVE  TypeOK'
  <1>1. pc' \in [Threads -> PC] /\ thrown' \in [Threads -> Exceptions]
    <2>1. PICK ret \in StatusReturns(target[t]) :
          \/ ret # SUCCESS /\ Throws(t, CreateForStatus(ret))
          \/ \E class \in Conversions : Throws(t, Exception(class, 0))
          \/ At(t, "status", "returned") /\ UNCHANGED thrown
      BY ConversionTypes DEF GetStatus
    <2>2. \A class \in Conversions : Exception(class, 0) \in Exceptions
      BY DEF Exception, Exceptions, Conversions
    <2> QED
      BY <2>1, <2>2, StatusReturnsTypes, ThrowTypes, AtTypes DEF PC, TypeOK
  <1> QED
    BY <1>1 DEF GetStatus, TypeOK, machineVars, enumVars, eapVars

LEMMA EapTypes ==
  ASSUME TypeOK, NEW t \in Threads, EapStep(t)
  PROVE  TypeOK'
  <1> USE DEF machineVars, enumVars, eapVars
  <1>1. CASE Alloc(t)
    <2>1. pc' \in [Threads -> PC]
      BY <1>1, AtTypes DEF Alloc, PC
    <2>2. thrown' \in [Threads -> Exceptions]
      <3>1. Exception("OutOfMemory", 0) \in Exceptions
        BY DEF Exception, Exceptions
      <3> QED
        BY <1>1, <3>1 DEF Alloc, TypeOK
    <2>3. /\ heap' \in [Blocks -> {"unused", "live", "freed", "freedTwice"}]
          /\ buf' \in [Threads -> Blocks \cup {0}]
      BY <1>1 DEF Alloc, TypeOK
    <2> QED
      BY <1>1, <2>1, <2>2, <2>3 DEF Alloc, TypeOK
  <1>2. CASE Query(t)
    <2>1. pc' \in [Threads -> PC]
      BY <1>2, AtTypes DEF Query, PC
    <2>2. thrown' \in [Threads -> Exceptions]
      BY <1>2, FailureCodes DEF Query, TypeOK
    <2>3. size' \in [Threads -> 0..MaxData]
      BY <1>2 DEF Query, TypeOK
    <2> QED
      BY <1>2, <2>1, <2>2, <2>3 DEF Query, TypeOK
  <1>3. ASSUME Free(buf[t])
        PROVE  heap' \in [Blocks -> {"unused", "live", "freed", "freedTwice"}]
    BY <1>3 DEF Free, TypeOK
  <1>4. CASE RetryWithMore(t)
    BY <1>3, <1>4, AtTypes DEF RetryWithMore, FreesBuffer, TypeOK, PC
  <1>5. CASE Catch(t)
    BY <1>3, <1>5, AtTypes DEF Catch, TypeOK, PC
  <1> QED
    BY <1>1, <1>2, <1>4, <1>5 DEF EapStep

LEMMA DoneTypes ==
  ASSUME TypeOK, NEW t \in Threads, Done(t)
  PROVE  TypeOK'
  <1>1. heap' \in [Blocks -> {"unused", "live", "freed", "freedTwice"}]
    BY DEF Done, Free, TypeOK
  <1>2. thrown' \in [Threads -> Exceptions]
    BY DEF Done, TypeOK, NoException, Exception, Exceptions
  <1>3. size' \in [Threads -> 0..MaxData]
    BY RequestAssumption DEF Done, TypeOK
  <1> QED
    BY <1>1, <1>2, <1>3 DEF Done, TypeOK, PC, machineVars

LEMMA MachineTypes ==
  ASSUME TypeOK, Machine
  PROVE  TypeOK'
  <1>1. ASSUME NEW c \in Conns, Opens(c)
        PROVE  /\ refs' \in [Conns -> Nat] /\ opened' \in [Conns -> Nat] /\ plugged' \subseteq Ports
               /\ \A d \in Conns : refs'[d] <= opened'[d] /\ opened'[d] <= MaxRefs[d]
               /\ device' \in Machines
    <2>1. MaxRefs[c] \in Nat
      BY RequestAssumption
    <2> QED
      BY <1>1, <2>1 DEF Opens, TypeOK
  <1>2. ASSUME NEW c \in Conns, NEW n \in 0..1, Closes(c, n)
        PROVE  /\ refs' \in [Conns -> Nat] /\ opened' \in [Conns -> Nat] /\ plugged' \subseteq Ports
               /\ \A d \in Conns : refs'[d] <= opened'[d] /\ opened'[d] <= MaxRefs[d]
               /\ device' \in Machines
    BY <1>2 DEF Closes, TypeOK
  <1>3. ASSUME NEW p \in Ports, Plugs(p)
        PROVE  /\ refs' \in [Conns -> Nat] /\ opened' \in [Conns -> Nat] /\ plugged' \subseteq Ports
               /\ \A d \in Conns : refs'[d] <= opened'[d] /\ opened'[d] <= MaxRefs[d]
               /\ device' \in Machines
    BY <1>3 DEF Plugs, TypeOK
  <1>4. /\ refs' \in [Conns -> Nat] /\ opened' \in [Conns -> Nat] /\ plugged' \subseteq Ports
        /\ \A d \in Conns : refs'[d] <= opened'[d] /\ opened'[d] <= MaxRefs[d]
        /\ device' \in Machines
    BY <1>1, <1>2, <1>3 DEF Machine
  <1>5. \E l \in Lists : Witnessed(l)
    BY DEF Machine, Opens, Closes, Plugs, Lists
  <1>6. seen' \in [Threads -> SUBSET SUBSET (Conns \cup Ports)]
    BY <1>4, <1>5, WitnessedTypes
  <1> QED
    BY <1>4, <1>6 DEF Machine, TypeOK, enumVars, eapVars

-----------------------------------------------------------------------------
(* The threads a step is not of.                                           *)

Same(u) ==
    /\ pc'[u] = pc[u] /\ target'[u] = target[u] /\ (all'[u] <=> all[u])
    /\ slots'[u] = slots[u] /\ made'[u] = made[u] /\ closed'[u] = closed[u]
    /\ buf'[u] = buf[u] /\ thrown'[u] = thrown[u]
    /\ buf[u] # 0 => heap'[buf[u]] = heap[buf[u]]
    /\ seen[u] \subseteq seen'[u]

(* What the machine may do: a handle that is gone stays so, and devices    *)
(* keep their types.                                                       *)
GoneStaysGone ==
    /\ device' = device
    /\ \A c \in Conns : opened[c] > 0 => opened'[c] > 0 /\ (c \notin Up => c \notin Up')

LEMMA OthersStay ==
  ASSUME NEW u \in Threads, ThreadInv(u), Same(u), GoneStaysGone,
         pc[u] = "fetch" => Listed(target[u])' \in seen'[u]
  PROVE  ThreadInv(u)'
  <1> USE DEF ThreadInv, Same
  <1>1. TargetInv(u)'
    BY DEF TargetInv, GoneStaysGone
  <1>2. ListInv(u)'
    <2>1. pc'[u] = "fetch" => made'[u] = {} /\ Listed(target[u])' \in seen'[u]
      BY DEF ListInv
    <2> QED
      BY <2>1 DEF ListInv, BrokeOff, GoneStaysGone
  <1>3. CloseInv(u)'
    BY DEF CloseInv, TargetInv, GoneStaysGone, HangsUp
  <1>4. BufferInv(u)'
    BY DEF BufferInv, Fetches
  <1> QED
    BY <1>1, <1>2, <1>3, <1>4

(* A step of thread t that leaves the machine and all blocks but its own.  *)
LEMMA StepOf ==
  ASSUME IInv, NEW t \in Threads, UNCHANGED machineVars, TypeOK', ThreadInv(t)',
         \A u \in Threads \ {t} : Same(u),
         buf'[t] # 0 => \A u \in Threads \ {t} : buf[u] # buf'[t]
  PROVE  IInv'
  <1>1. GoneStaysGone
    BY DEF GoneStaysGone, Up, machineVars
  <1>2. ASSUME NEW u \in Threads \ {t} PROVE ThreadInv(u)'
    <2>1. pc[u] = "fetch" => Listed(target[u]) \in seen[u]
      BY DEF IInv, ThreadInv, ListInv
    <2>2. Listed(target[u])' = Listed(target[u])
      BY DEF Listed, Up, machineVars, Same
    <2>3. pc[u] = "fetch" => Listed(target[u])' \in seen'[u]
      BY <2>1, <2>2 DEF Same
    <2> QED
      BY <1>1, <2>3, OthersStay DEF IInv
  <1>3. BlocksAreApart'
    BY DEF IInv, BlocksAreApart, Same
  <1> QED
    BY <1>2, <1>3 DEF IInv

(* The same, when it does not touch blocks either.                         *)
LEMMA PlainStep ==
  ASSUME IInv, NEW t \in Threads, UNCHANGED <<machineVars, heap, buf>>, TypeOK',
         ThreadInv(t)', \A u \in Threads \ {t} : Same(u)
  PROVE  IInv'
  <1>1. buf'[t] # 0 => \A u \in Threads \ {t} : buf[u] # buf'[t]
    BY DEF IInv, BlocksAreApart
  <1> QED
    BY <1>1, StepOf

-----------------------------------------------------------------------------
LEMMA InitIInv == Init => IInv
  <1> SUFFICES ASSUME Init PROVE IInv
    OBVIOUS
  <1>1. NoItem \notin Conns \cup Lists
    BY RequestAssumption
  <1> QED
    BY <1>1, InitTypes DEF Init, IInv, ThreadInv, TargetInv, ListInv, CloseInv, BufferInv,
       BlocksAreApart, HangsUp, Fetches

LEMMA CallInvs ==
  ASSUME IInv, NEW t \in Threads, Call(t)
  PROVE  IInv'
  <1> USE DEF machineVars, enumVars, eapVars
  <1>1. TypeOK'
    BY CallTypes DEF IInv
  <1>2. TypeOK /\ ThreadInv(t)
    BY DEF IInv
  <1>3. ASSUME NEW l \in Lists, CallEnumerate(t, l)
        PROVE  IInv'
    <2>1. ThreadInv(t)'
      <3>1. /\ pc[t] = "idle" /\ pc'[t] = "fetch" /\ target'[t] = l
            /\ seen'[t] = {Listed(l)} /\ Listed(l)' = Listed(l)
            /\ UNCHANGED <<machineVars, heap, all, slots, made, buf, thrown, closed>>
        BY <1>2, <1>3 DEF CallEnumerate, Calls, At, TypeOK, Listed, Up
      <3>2. l \notin Conns
        BY RequestAssumption
      <3> QED
        BY <1>2, <3>1, <3>2 DEF ThreadInv, TargetInv, ListInv, CloseInv, BufferInv, HangsUp,
           Fetches
    <2>2. \A u \in Threads \ {t} : Same(u)
      BY <1>2, <1>3 DEF CallEnumerate, Calls, At, TypeOK, Same
    <2> QED
      BY <1>1, <1>3, <2>1, <2>2, PlainStep DEF CallEnumerate
  <1>4. ASSUME NEW c \in Conns, CallHangUp(t, c)
        PROVE  IInv'
    <2>1. ThreadInv(t)'
      <3>1. /\ pc[t] = "idle" /\ pc'[t] = "token" /\ target'[t] = c /\ opened[c] > 0
            /\ UNCHANGED <<machineVars, heap, slots, made, buf, thrown, seen, closed>>
        BY <1>2, <1>4 DEF CallHangUp, MayBeAskedOf, Calls, At, TypeOK
      <3>2. c \notin Lists
        BY RequestAssumption
      <3> QED
        BY <1>2, <3>1, <3>2 DEF ThreadInv, TargetInv, ListInv, CloseInv, BufferInv, HangsUp,
           Fetches
    <2>2. \A u \in Threads \ {t} : Same(u)
      BY <1>2, <1>4 DEF CallHangUp, Calls, At, TypeOK, Same
    <2> QED
      BY <1>1, <1>4, <2>1, <2>2, PlainStep DEF CallHangUp
  <1>5. ASSUME NEW c \in Conns, CallGetStatus(t, c)
        PROVE  IInv'
    <2>1. ThreadInv(t)'
      <3>1. /\ pc[t] = "idle" /\ pc'[t] = "status" /\ target'[t] = c /\ opened[c] > 0
            /\ UNCHANGED <<machineVars, heap, all, slots, made, buf, thrown, seen, closed>>
        BY <1>2, <1>5 DEF CallGetStatus, MayBeAskedOf, Calls, At, TypeOK
      <3> QED
        BY <1>2, <3>1 DEF ThreadInv, TargetInv, ListInv, CloseInv, BufferInv, HangsUp, Fetches
    <2>2. \A u \in Threads \ {t} : Same(u)
      BY <1>2, <1>5 DEF CallGetStatus, Calls, At, TypeOK, Same
    <2> QED
      BY <1>1, <1>5, <2>1, <2>2, PlainStep DEF CallGetStatus
  <1>6. ASSUME CallGetEapUserData(t)
        PROVE  IInv'
    <2>1. ThreadInv(t)'
      <3>1. /\ pc[t] = "idle" /\ pc'[t] = "alloc" /\ target'[t] = NoItem
            /\ UNCHANGED <<machineVars, heap, all, slots, made, buf, thrown, seen, closed>>
        BY <1>2, <1>6 DEF CallGetEapUserData, Calls, At, TypeOK
      <3>2. NoItem \notin Conns \cup Lists
        BY RequestAssumption
      <3> QED
        BY <1>2, <3>1, <3>2 DEF ThreadInv, TargetInv, ListInv, CloseInv, BufferInv, HangsUp,
           Fetches
    <2>2. \A u \in Threads \ {t} : Same(u)
      BY <1>2, <1>6 DEF CallGetEapUserData, Calls, At, TypeOK, Same
    <2> QED
      BY <1>1, <1>6, <2>1, <2>2, PlainStep DEF CallGetEapUserData
  <1> QED
    BY <1>3, <1>4, <1>5, <1>6 DEF Call

LEMMA EnumerationInvs ==
  ASSUME IInv, NEW t \in Threads, EnumerationStep(t)
  PROVE  IInv'
  <1> USE DEF machineVars, enumVars, eapVars
  <1>1. TypeOK'
    BY EnumerationTypes DEF IInv
  <1>2. TypeOK /\ ThreadInv(t)
    BY DEF IInv
  <1>3. CASE Fetch(t)
    <2>1. /\ pc[t] = "fetch" /\ target[t] \in Lists /\ target[t] \notin Conns
          /\ UNCHANGED <<machineVars, heap, target, all, made, buf, seen, closed>>
          /\ Listed(target[t])' = Listed(target[t])
      BY <1>2, <1>3, RequestAssumption
      DEF Fetch, ThreadInv, TargetInv, Listed, Up
    <2>2. \/ pc'[t] = "fetch"
          \/ pc'[t] = "yield" /\ slots'[t] = Listed(target[t])
          \/ pc'[t] = "thrown" /\ thrown'[t].code \in Codes
      BY <1>2, <1>3, FailureCodes, CodeTypes DEF Fetch, Retry, At, Throws, TypeOK
    <2>3. ThreadInv(t)'
      BY <1>2, <2>1, <2>2
      DEF ThreadInv, TargetInv, ListInv, CloseInv, BufferInv, HangsUp, Fetches
    <2>4. \A u \in Threads \ {t} : Same(u)
      <3>1. \A u \in Threads \ {t} : pc'[u] = pc[u]
        BY <1>2, <1>3 DEF Fetch, Retry, At, Throws, TypeOK
      <3>2. \A u \in Threads \ {t} : slots'[u] = slots[u] /\ thrown'[u] = thrown[u]
        BY <1>2, <1>3 DEF Fetch, Throws, TypeOK
      <3> QED
        BY <2>1, <3>1, <3>2 DEF Same
    <2> QED
      BY <1>1, <2>1, <2>3, <2>4, PlainStep
  <1>4. CASE Yield(t) \/ YieldThrows(t) \/ YieldEnds(t)
    <2>1. /\ pc[t] = "yield" /\ target[t] \in Lists /\ target[t] \notin Conns
          /\ UNCHANGED <<machineVars, heap, target, all, slots, buf, seen, closed>>
      BY <1>2, <1>4, RequestAssumption
      DEF Yield, YieldThrows, YieldEnds, ThreadInv, TargetInv, At
    <2>2. \/ pc'[t] = "yield" /\ made'[t] \subseteq slots[t]
          \/ pc'[t] = "thrown" /\ BrokeOff(t)'
          \/ pc'[t] = "returned" /\ made[t] = slots[t] /\ made'[t] = made[t]
      <3>1. CASE YieldThrows(t)
        <4>1. PICK i \in slots[t] \ made[t] :
                  /\ Refuses(target[t], i)
                  /\ Throws(t, Exception(IF DeviceFor(device[i]) = "null"
                                            THEN "InvalidOperation" ELSE "KeyNotFound", 0))
          BY <3>1 DEF YieldThrows
        <4>2. \/ device[i] = "frameRelay" /\ DeviceFor(device[i]) = "KeyNotFound"
              \/ /\ device[i] = "blank" /\ DeviceFor(device[i]) = "null"
                 /\ target[t] = "connections"
          BY <4>1 DEF Refuses, DeviceFor
        <4>3. \/ device[i] = "frameRelay" /\ thrown'[t].class = "KeyNotFound"
              \/ /\ device[i] = "blank" /\ thrown'[t].class = "InvalidOperation"
                 /\ target[t] = "connections"
          BY <1>2, <4>1, <4>2 DEF Throws, Exception, TypeOK
        <4>4. /\ slots[t] \in seen[t] /\ made[t] \subseteq slots[t]
              /\ UNCHANGED <<seen, made, device, target>>
          BY <1>2, <3>1, <2>1 DEF YieldThrows, ThreadInv, ListInv
        <4>5. BrokeOff(t)'
          BY <4>3, <4>4 DEF BrokeOff
        <4> QED
          BY <1>2, <4>1, <4>5 DEF Throws, TypeOK
      <3>2. CASE Yield(t) \/ YieldEnds(t)
        BY <1>2, <3>2 DEF Yield, YieldEnds, At, TypeOK, ThreadInv, ListInv
      <3> QED
        BY <1>4, <3>1, <3>2
    <2>3. ThreadInv(t)'
      BY <1>2, <2>1, <2>2
      DEF ThreadInv, TargetInv, ListInv, CloseInv, BufferInv, HangsUp, Fetches
    <2>4. \A u \in Threads \ {t} : Same(u)
      BY <1>2, <1>4 DEF Yield, YieldThrows, YieldEnds, At, Throws, TypeOK, Same
    <2> QED
      BY <1>1, <2>1, <2>3, <2>4, PlainStep
  <1> QED
    BY <1>3, <1>4 DEF EnumerationStep

(* Steps of a request for one connection that close nothing.               *)
LEMMA ConnectionInvs ==
  ASSUME IInv, NEW t \in Threads, CheckToken(t) \/ Sleep(t) \/ GetStatus(t)
  PROVE  IInv'
  <1> USE DEF machineVars, enumVars, eapVars
  <1>1. TypeOK'
    BY HangUpTypes, StatusTypes DEF IInv, HangUpStep
  <1>2. TypeOK /\ ThreadInv(t)
    BY DEF IInv
  <1>3. UNCHANGED <<machineVars, heap, target, all, slots, made, buf, seen, closed>>
    BY DEF CheckToken, Sleep, GetStatus
  <1>4. /\ pc[t] \in {"token", "sleep", "status"} /\ target[t] \in Conns /\ target[t] \notin Lists
        /\ \/ pc[t] = "token" /\ pc'[t] \in {"hangUp", "thrown"}
           \/ pc[t] = "sleep" /\ pc'[t] = "returned"
           \/ pc[t] = "status" /\ pc'[t] \in {"returned", "thrown"}
    BY <1>2, RequestAssumption
    DEF CheckToken, Sleep, GetStatus, At, Throws, TypeOK, ThreadInv, TargetInv
  <1>5. ThreadInv(t)'
    BY <1>2, <1>3, <1>4
    DEF ThreadInv, TargetInv, ListInv, CloseInv, BufferInv, HangsUp, Fetches, Up
  <1>6. \A u \in Threads \ {t} : Same(u)
    <2>1. \A u \in Threads \ {t} : pc'[u] = pc[u] /\ thrown'[u] = thrown[u]
      BY <1>2 DEF CheckToken, Sleep, GetStatus, At, Throws, TypeOK
    <2> QED
      BY <1>3, <2>1 DEF Same
  <1> QED
    BY <1>1, <1>3, <1>5, <1>6, PlainStep

LEMMA CloseReferenceInv ==
  ASSUME IInv, NEW t \in Threads, CloseReference(t)
  PROVE  IInv'
  <1> DEFINE c == target[t]
  <1>1. TypeOK'
    BY HangUpTypes DEF IInv, HangUpStep
  <1>2. TypeOK /\ ThreadInv(t)
    BY DEF IInv
  <1>3. /\ pc[t] = "hangUp" /\ c \in Conns /\ c \notin Lists
        /\ UNCHANGED <<opened, plugged, device, heap, target, all, slots, made, buf>>
        /\ Witnessed("connections")
    BY <1>2, RequestAssumption
    DEF CloseReference, ThreadInv, TargetInv, enumVars, eapVars
  <1>4. PICK ret \in HangUpReturns(c) :
            /\ refs' = [refs EXCEPT ![c] = IF ret = SUCCESS THEN @ - 1 ELSE @]
            /\ closed' = [closed EXCEPT ![t] = IF ret = SUCCESS THEN @ + 1 ELSE @]
            /\ IF ShouldThrowExceptionFromReturnCode(ret)
                  THEN Throws(t, Create(ret))
                  ELSE /\ At(t, "hangUp", IF LoopsOn(t, ret) THEN "token" ELSE "sleep")
                       /\ UNCHANGED thrown
    BY DEF CloseReference
  <1>5. ret = SUCCESS => c \in Up
    BY FailureCodes DEF HangUpReturns, SUCCESS, ERROR_NO_CONNECTION, RASBASE
  <1>6. ret = ERROR_NO_CONNECTION => c \notin Up
    BY FailureCodes DEF HangUpReturns, SUCCESS, ERROR_NO_CONNECTION, RASBASE
  <1>7. \A d \in Conns : d \notin Up => d \notin Up'
    BY <1>2, <1>3, <1>4, <1>5 DEF Up, TypeOK
  <1>8. /\ \A u \in Threads : seen[u] \subseteq seen'[u]
        /\ \A u \in Threads : pc[u] = "fetch" /\ target[u] = "connections"
              => Listed("connections")' \in seen'[u]
    BY <1>2, <1>3 DEF Witnessed, TypeOK
  <1>9. \/ pc'[t] = "thrown" /\ closed'[t] = closed[t]
        \/ pc'[t] = "token" /\ all[t]
        \/ /\ pc'[t] = "sleep" /\ (all[t] => c \notin Up /\ c \notin Up')
           /\ closed'[t] <= closed[t] + 1
    <2>1. CASE ShouldThrowExceptionFromReturnCode(ret)
      BY <1>2, <1>4, <2>1
      DEF ShouldThrowExceptionFromReturnCode, Throws, TypeOK
    <2>2. CASE ~ShouldThrowExceptionFromReturnCode(ret) /\ LoopsOn(t, ret)
      BY <1>2, <1>4, <2>2 DEF LoopsOn, At, TypeOK
    <2>3. CASE ~ShouldThrowExceptionFromReturnCode(ret) /\ ~LoopsOn(t, ret)
      <3>1. pc'[t] = "sleep" /\ closed'[t] <= closed[t] + 1
        BY <1>2, <1>4, <2>3 DEF At, TypeOK
      <3>2. all[t] => ret = ERROR_NO_CONNECTION
        BY <2>3 DEF LoopsOn, ShouldThrowExceptionFromReturnCode
      <3> QED
        BY <1>3, <1>6, <1>7, <3>1, <3>2
    <2> QED
      BY <2>1, <2>2, <2>3
  <1>10. ThreadInv(t)'
    <2>1. closed[t] \in Nat
      BY <1>2 DEF TypeOK
    <2>2. CloseInv(t)'
      BY <1>2, <1>3, <1>9, <2>1 DEF ThreadInv, CloseInv, HangsUp
    <2> QED
      BY <1>2, <1>3, <1>9, <2>2 DEF ThreadInv, TargetInv, ListInv, BufferInv, HangsUp, Fetches
  <1>11. ASSUME NEW u \in Threads \ {t} PROVE ThreadInv(u)'
    <2>1. Same(u)
      <3>1. pc'[u] = pc[u] /\ thrown'[u] = thrown[u] /\ closed'[u] = closed[u]
        BY <1>2, <1>4 DEF At, Throws, TypeOK
      <3> QED
        BY <1>3, <1>8, <3>1 DEF Same
    <2>2. GoneStaysGone
      BY <1>3, <1>7 DEF GoneStaysGone
    <2>3. pc[u] = "fetch" => Listed(target[u])' \in seen'[u]
      <3>1. pc[u] = "fetch" => target[u] \in {"connections", "devices"}
        BY DEF IInv, ThreadInv, TargetInv, Lists
      <3>2. pc[u] = "fetch" /\ target[u] = "devices" => Listed(target[u]) \in seen[u]
        BY DEF IInv, ThreadInv, ListInv
      <3>3. target[u] = "devices" => Listed(target[u])' = Listed(target[u])
        BY <1>3 DEF Listed
      <3>4. target[u] = "connections" => Listed(target[u])' = Listed("connections")'
        BY <1>3 DEF Listed
      <3> QED
        BY <1>8, <3>1, <3>2, <3>3, <3>4
    <2> QED
      BY <2>1, <2>2, <2>3, OthersStay DEF IInv
  <1>12. BlocksAreApart'
    BY <1>3 DEF IInv, BlocksAreApart
  <1> QED
    BY <1>1, <1>10, <1>11, <1>12 DEF IInv

(* What EAP steps leave alone. *)
LEMMA EapStays ==
  ASSUME IInv, NEW t \in Threads, EapStep(t)
  PROVE  /\ pc[t] \in {"alloc", "query", "retry", "catch"}
         /\ UNCHANGED <<machineVars, target, all, slots, made, seen, closed>>
         /\ \A u \in Threads \ {t} : pc'[u] = pc[u] /\ thrown'[u] = thrown[u] /\ buf'[u] = buf[u]
  BY DEF IInv, TypeOK, EapStep, Alloc, Query, RetryWithMore, Catch, At, enumVars, eapVars

(* Blocks of others are not unused, nor the block of t.                    *)
LEMMA EapOthers ==
  ASSUME IInv, NEW t \in Threads, EapStep(t)
  PROVE  \A u \in Threads \ {t} : Same(u)
  <1>1. \A u \in Threads \ {t} : buf[u] # 0 =>
            buf[u] # buf[t] /\ buf[u] \in Blocks /\ heap[buf[u]] # "unused"
    BY DEF IInv, TypeOK, BlocksAreApart, ThreadInv, BufferInv
  <1>2. \/ UNCHANGED heap
        \/ \E b \in Blocks : heap[b] = "unused" /\ heap' = [heap EXCEPT ![b] = "live"]
        \/ \E s : heap' = [heap EXCEPT ![buf[t]] = s]
    BY DEF EapStep, Alloc, Query, RetryWithMore, Catch, FreesBuffer, Free
  <1>3. \A u \in Threads \ {t} : buf[u] # 0 => heap'[buf[u]] = heap[buf[u]]
    BY <1>1, <1>2 DEF IInv, TypeOK
  <1> QED
    BY <1>3, EapStays DEF Same

LEMMA EapInvs ==
  ASSUME IInv, NEW t \in Threads, EapStep(t)
  PROVE  IInv'
  <1>1. TypeOK'
    BY EapTypes DEF IInv
  <1>2. TypeOK /\ ThreadInv(t)
    BY DEF IInv
  <1>3. BufferInv(t)' /\ pc'[t] \in {"alloc", "query", "retry", "catch", "returned", "thrown"}
    <2> USE DEF BufferInv, ThreadInv, At, Fetches
    <2>1. CASE Alloc(t)
      <3>1. /\ pc[t] = "alloc"
            /\ \/ pc'[t] = "query" /\ buf'[t] = 0
               \/ pc'[t] = "query" /\ buf'[t] \in Blocks /\ heap'[buf'[t]] = "live"
               \/ /\ pc'[t] = "catch" /\ buf'[t] = buf[t] /\ UNCHANGED heap
                  /\ thrown'[t].class = "OutOfMemory"
        BY <1>2, <2>1 DEF Alloc, TypeOK, Exception
      <3> QED
        BY <1>2, <3>1
    <2>2. CASE Query(t)
      BY <1>2, <2>2 DEF Query, TypeOK
    <2>3. ASSUME Free(buf[t]), buf[t] # 0, buf[t] \in Blocks
          PROVE  heap'[buf[t]] \in {"freed", "freedTwice"}
      BY <1>2, <2>3 DEF Free, TypeOK
    <2>4. CASE RetryWithMore(t)
      BY <1>2, <2>3, <2>4 DEF RetryWithMore, FreesBuffer, TypeOK, eapVars
    <2>5. CASE Catch(t)
      BY <1>2, <2>3, <2>5 DEF Catch, TypeOK, eapVars
    <2> QED
      BY <2>1, <2>2, <2>4, <2>5 DEF EapStep
  <1>4. target[t] \notin Lists \/ pc'[t] # "returned"
    BY <1>2, EapStays DEF ThreadInv, TargetInv
  <1>5. ThreadInv(t)'
    BY <1>2, <1>3, <1>4, EapStays
    DEF ThreadInv, TargetInv, ListInv, CloseInv, HangsUp, machineVars, Up
  <1>6. buf'[t] # 0 => \A u \in Threads \ {t} : buf[u] # buf'[t]
    <2>1. buf'[t] = buf[t] \/ buf'[t] = 0 \/ heap[buf'[t]] = "unused"
      BY <1>2 DEF EapStep, Alloc, Query, RetryWithMore, Catch, TypeOK, eapVars
    <2> QED
      BY <2>1 DEF IInv, BlocksAreApart, ThreadInv, BufferInv
  <1> QED
    BY <1>1, <1>5, <1>6, EapStays, EapOthers, StepOf

LEMMA CancelsInv ==
  ASSUME IInv, NEW t \in Threads, Cancels(t)
  PROVE  IInv'
  <1>1. TypeOK'
    BY DEF IInv, TypeOK, Cancels, machineVars, enumVars, eapVars
  <1>2. UNCHANGED <<machineVars, heap, pc, target, all, slots, made, buf, thrown, seen, closed>>
    BY DEF Cancels, enumVars, eapVars
  <1>3. \A u \in Threads : Same(u)
    BY <1>2 DEF Same
  <1>4. GoneStaysGone /\ \A l : Listed(l)' = Listed(l)
    BY <1>2 DEF GoneStaysGone, Up, machineVars, Listed
  <1>5. ThreadInv(t)'
    BY <1>2, <1>3, <1>4, OthersStay DEF IInv, ThreadInv, ListInv, machineVars
  <1> QED
    BY <1>1, <1>2, <1>3, <1>5, PlainStep

LEMMA DoneInv ==
  ASSUME IInv, NEW t \in Threads, Done(t)
  PROVE  IInv'
  <1> USE DEF machineVars
  <1>1. TypeOK'
    BY DoneTypes DEF IInv
  <1>2. TypeOK
    BY DEF IInv
  <1>3. ThreadInv(t)'
    <2>1. /\ pc'[t] = "idle" /\ target'[t] = NoItem /\ all'[t] = FALSE /\ closed'[t] = 0
          /\ made'[t] = {} /\ buf'[t] = 0
      BY <1>2 DEF Done, TypeOK
    <2>2. NoItem \notin Conns \cup Lists
      BY RequestAssumption
    <2> QED
      BY <2>1, <2>2 DEF ThreadInv, TargetInv, ListInv, CloseInv, BufferInv, HangsUp, Fetches
  <1>4. ASSUME NEW u \in Threads \ {t} PROVE Same(u)
    <2>1. buf[u] # 0 => buf[u] # buf[t] /\ buf[u] \in Blocks
      BY DEF IInv, TypeOK, BlocksAreApart
    <2>2. UNCHANGED heap \/ \E s : heap' = [heap EXCEPT ![buf[t]] = s]
      BY DEF Done, Free
    <2>3. buf[u] # 0 => heap'[buf[u]] = heap[buf[u]]
      BY <1>2, <2>1, <2>2 DEF TypeOK
    <2> QED
      BY <1>2, <2>3 DEF Done, TypeOK, Same
  <1> QED
    BY <1>1, <1>2, <1>3, <1>4, StepOf DEF Done, TypeOK

LEMMA MachineInv ==
  ASSUME IInv, Machine
  PROVE  IInv'
  <1>1. TypeOK'
    BY MachineTypes DEF IInv
  <1>2. TypeOK /\ UNCHANGED <<heap, pc, target, all, slots, made, buf, thrown, closed>>
    BY DEF IInv, Machine, enumVars, eapVars
  <1>3. GoneStaysGone
    <2>1. ASSUME NEW c \in Conns, Opens(c) PROVE GoneStaysGone
      BY <1>2, <2>1 DEF Opens, GoneStaysGone, Up, TypeOK
    <2>2. ASSUME NEW c \in Conns, NEW n \in 0..1, Closes(c, n) PROVE GoneStaysGone
      BY <1>2, <2>2 DEF Closes, GoneStaysGone, Up, TypeOK
    <2>3. ASSUME NEW p \in Ports, Plugs(p) PROVE GoneStaysGone
      BY <2>3 DEF Plugs, GoneStaysGone, Up
    <2> QED
      BY <2>1, <2>2, <2>3 DEF Machine
  <1>4. PICK l \in Lists : Witnessed(l) /\ \A k \in Lists \ {l} : Listed(k)' = Listed(k)
    BY DEF Machine, Opens, Closes, Plugs, Lists, Listed, Up
  <1>5. ASSUME NEW u \in Threads PROVE ThreadInv(u)'
    <2>1. seen[u] \subseteq seen'[u]
      BY <1>2, <1>4 DEF Witnessed, TypeOK
    <2>2. pc[u] = "fetch" => Listed(target[u])' \in seen'[u]
      <3>1. pc[u] = "fetch" => target[u] \in Lists /\ Listed(target[u]) \in seen[u]
        BY DEF IInv, ThreadInv, TargetInv, ListInv
      <3>2. pc[u] = "fetch" /\ target[u] = l => Listed(l)' \in seen'[u]
        BY <1>4 DEF Witnessed
      <3>3. \A k \in Lists : target[u] = k => Listed(target[u])' = Listed(k)'
        BY <1>2 DEF Listed
      <3> QED
        BY <1>4, <2>1, <3>1, <3>2, <3>3
    <2> QED
      BY <1>2, <1>3, <2>1, <2>2, OthersStay DEF IInv, Same
  <1> QED
    BY <1>1, <1>2, <1>5 DEF IInv, BlocksAreApart

LEMMA NextIInv == IInv /\ [Next]_vars => IInv'
  <1> SUFFICES ASSUME IInv, [Next]_vars PROVE IInv'
    OBVIOUS
  <1>1. CASE UNCHANGED vars
    <2>1. TypeOK' /\ BlocksAreApart'
      BY <1>1 DEF vars, machineVars, enumVars, eapVars, IInv, TypeOK, BlocksAreApart
    <2>2. \A t \in Threads : ThreadInv(t)'
      BY <1>1 DEF vars, machineVars, enumVars, eapVars, IInv, ThreadInv, TargetInv, ListInv,
         CloseInv, BufferInv, BrokeOff, Listed, Up
    <2> QED
      BY <2>1, <2>2 DEF IInv
  <1>2. ASSUME NEW t \in Threads, Step(t)
        PROVE  IInv'
    BY <1>2, EnumerationInvs, ConnectionInvs, CloseReferenceInv, EapInvs DEF Step, HangUpStep
  <1> QED
    BY <1>1, <1>2, CallInvs, CancelsInv, DoneInv, MachineInv DEF Next, Rest

LEMMA IInvHolds == Spec => []IInv
  BY InitIInv, NextIInv, PTL DEF Spec

-----------------------------------------------------------------------------
(* Who leaves a request by throwing, and who touches the heap.             *)
LEMMA OnlyOwnSteps ==
  ASSUME TypeOK, [Next]_vars, NEW t \in Threads, pc[t] \in {"hangUp", "status"},
         pc'[t] = "thrown" \/ (pc[t] = "status" /\ pc'[t] = "returned")
  PROVE  CloseReference(t) \/ GetStatus(t)
  <1> USE DEF At, Throws, TypeOK
  <1>1. ASSUME NEW u \in Threads, EnumerationStep(u)
        PROVE  pc'[t] = pc[t]
    BY <1>1 DEF EnumerationStep, Fetch, Retry, Yield, YieldThrows, YieldEnds
  <1>2. ASSUME NEW u \in Threads, EapStep(u) \/ CheckToken(u) \/ Sleep(u)
        PROVE  pc'[t] = pc[t]
    BY <1>2 DEF EapStep, Alloc, Query, RetryWithMore, Catch, CheckToken, Sleep
  <1>3. ASSUME NEW u \in Threads, CloseReference(u) \/ GetStatus(u)
        PROVE  u = t \/ pc'[t] = pc[t]
    BY <1>3 DEF CloseReference, GetStatus
  <1>4. ASSUME NEW u \in Threads, Call(u) \/ Done(u) \/ Cancels(u)
        PROVE  pc'[t] = pc[t]
    BY <1>4 DEF Call, CallEnumerate, CallHangUp, CallGetStatus, CallGetEapUserData, Calls,
       Done, Cancels
  <1>5. Machine \/ UNCHANGED vars => pc'[t] = pc[t]
    BY DEF Machine, vars
  <1> QED
    BY <1>1, <1>2, <1>3, <1>4, <1>5 DEF Next, Step, HangUpStep, Rest

LEMMA OnlyEapTouches ==
  ASSUME [Next]_vars
  PROVE  \/ UNCHANGED <<heap, buf>>
         \/ \E t \in Threads : EapStep(t) \/ Done(t)
  <1> USE DEF eapVars
  <1>1. ASSUME NEW u \in Threads, EnumerationStep(u) \/ HangUpStep(u) \/ GetStatus(u)
        PROVE  UNCHANGED <<heap, buf>>
    BY <1>1 DEF EnumerationStep, Fetch, Yield, YieldThrows, YieldEnds, HangUpStep, CheckToken,
       CloseReference, Sleep, GetStatus, enumVars
  <1>2. ASSUME NEW u \in Threads, Call(u) \/ Cancels(u)
        PROVE  UNCHANGED <<heap, buf>>
    BY <1>2 DEF Call, CallEnumerate, CallHangUp, CallGetStatus, CallGetEapUserData, Cancels
  <1>3. Machine \/ UNCHANGED vars => UNCHANGED <<heap, buf>>
    BY DEF Machine, vars
  <1> QED
    BY <1>1, <1>2, <1>3 DEF Next, Step, Rest

(* TypeOK: in every behaviour the threads' requests, the machine and the   *)
(* heap have their types.                                                  *)
THEOREM TypeCorrect == Spec => []TypeOK
  BY IInvHolds, PTL DEF IInv

(* EnumerationIsSnapshot: the retry loop of GetConnections and GetDevices  *)
(* ends with the list as it was at one moment since the call, however      *)
(* often it changes between two rounds and under the iterator.             *)
THEOREM EnumerationIsOneMoment == Spec => []EnumerationIsSnapshot
  <1>1. IInv => EnumerationIsSnapshot
    BY DEF IInv, ThreadInv, ListInv, EnumerationIsSnapshot
  <1> QED
    BY <1>1, IInvHolds, PTL

(* HangUpKeepsItsWord: HangUpAsync that closes all references ends the     *)
(* connection, for any number of references opened and closed by others    *)
(* meanwhile; one that does not closes one at most.                        *)
THEOREM HangUpHoldsItsWord == Spec => []HangUpKeepsItsWord
  <1>1. IInv => HangUpKeepsItsWord
    BY DEF IInv, ThreadInv, CloseInv, HangUpKeepsItsWord
  <1> QED
    BY <1>1, IInvHolds, PTL

(* LossIsTold: a connection that goes under a request is no error to a     *)
(* hang up and a RasException to a request for its status, whatever RAS    *)
(* reports of its device and endpoints; a loss is neither made up nor      *)
(* passed over.                                                            *)
THEOREM LossHasItsException == Spec => LossIsTold
  <1> DEFINE Caused(t) ==
        \/ pc[t] \in Failures /\ thrown'[t].code \in Codes
        \/ /\ pc[t] = "status" /\ target[t] \notin Up
           /\ thrown'[t] = Exception("RasException", ERROR_NO_CONNECTION)
        \/ /\ pc[t] = "status" /\ target[t] \in Up
           /\ UnusableAnswer(target[t], thrown'[t].class)
  <1> DEFINE Told ==
        \A t \in Threads :
           /\ pc[t] \in {"hangUp", "status"} /\ pc'[t] = "thrown" => Caused(t)
           /\ pc[t] = "status" /\ pc'[t] = "returned" => target[t] \in Up
  <1>1. IInv /\ [Next]_vars => Told
    <2> SUFFICES ASSUME IInv, [Next]_vars, NEW t \in Threads, pc[t] \in {"hangUp", "status"},
                        pc'[t] = "thrown" \/ (pc[t] = "status" /\ pc'[t] = "returned")
                 PROVE  /\ pc'[t] = "thrown" => Caused(t)
                        /\ pc[t] = "status" /\ pc'[t] = "returned" => target[t] \in Up
      OBVIOUS
    <2>1. TypeOK
      BY DEF IInv
    <2>2. CloseReference(t) \/ GetStatus(t)
      BY <2>1, OnlyOwnSteps
    <2>3. CASE CloseReference(t)
      <3>1. PICK ret \in HangUpReturns(target[t]) :
                IF ShouldThrowExceptionFromReturnCode(ret)
                    THEN Throws(t, Create(ret))
                    ELSE At(t, "hangUp", IF LoopsOn(t, ret) THEN "token" ELSE "sleep")
        BY <2>3 DEF CloseReference
      <3>2. pc[t] = "hangUp"
        BY <2>3 DEF CloseReference
      <3>3. ShouldThrowExceptionFromReturnCode(ret) /\ Throws(t, Create(ret))
        BY <2>1, <3>1, <3>2 DEF At, TypeOK
      <3>4. ret \in Codes /\ "hangUp" \in Failures
        BY <3>3 DEF HangUpReturns, ShouldThrowExceptionFromReturnCode
      <3> QED
        BY <2>1, <3>2, <3>3, <3>4, FailureCodes, CodeTypes DEF Throws, TypeOK
    <2>4. CASE GetStatus(t)
      <3>1. PICK ret \in StatusReturns(target[t]), type \in ReportedTypes(target[t]),
                 known \in KnownEndpoints :
                \/ ret # SUCCESS /\ Throws(t, CreateForStatus(ret))
                \/ /\ ret = SUCCESS /\ ConversionThrows(type, known) # "none"
                   /\ Throws(t, Exception(ConversionThrows(type, known), 0))
                \/ ret = SUCCESS /\ At(t, "status", "returned")
        BY <2>4 DEF GetStatus
      <3>2. pc[t] = "status"
        BY <2>4 DEF GetStatus
      <3>3. ret = SUCCESS => target[t] \in Up
        BY FailureCodes DEF StatusReturns, SUCCESS, ERROR_INVALID_HANDLE
      <3>4. CASE ret # SUCCESS /\ Throws(t, CreateForStatus(ret))
        BY <2>1, <3>2, <3>4, StatusReturnsTypes DEF Throws, TypeOK
      <3>5. CASE /\ ret = SUCCESS /\ ConversionThrows(type, known) # "none"
                 /\ Throws(t, Exception(ConversionThrows(type, known), 0))
        <4>1. UnusableAnswer(target[t], ConversionThrows(type, known))
          BY <3>5, ConversionTypes DEF Conversions, UnusableAnswer, ReportedTypes
        <4>2. pc'[t] = "thrown" /\ thrown'[t].class = ConversionThrows(type, known)
          BY <2>1, <3>5 DEF Throws, TypeOK, Exception
        <4> QED
          BY <3>2, <3>3, <3>5, <4>1, <4>2
      <3>6. CASE ret = SUCCESS /\ At(t, "status", "returned")
        BY <2>1, <3>3, <3>6 DEF At, TypeOK
      <3> QED
        BY <3>1, <3>4, <3>5, <3>6
    <2> QED
      BY <2>2, <2>3, <2>4
  <1>2. IInv /\ [Next]_vars => [Told]_vars
    BY <1>1
  <1> QED
    BY <1>2, IInvHolds, PTL DEF Spec, LossIsTold

(* BuffersAreOwned: a live block of EAP data is let go of only by freeing  *)
(* it or handing it over, and none is freed twice, but for the two cases   *)
(* the property names.                                                     *)
THEOREM BuffersHaveOneOwner == Spec => BuffersAreOwned
  <1> DEFINE Owned ==
        /\ \A t \in Threads :
              buf[t] # 0 /\ heap[buf[t]] = "live" /\ buf'[t] # buf[t]
                  => heap'[buf[t]] = "freed" \/ size[t] = 0
        /\ \A b \in Blocks :
              heap[b] # "freedTwice" /\ heap'[b] = "freedTwice"
                  => \E t \in Threads : thrown[t].class = "OutOfMemory" /\ buf[t] = b
  <1>1. IInv /\ [Next]_vars => Owned
    <2> SUFFICES ASSUME IInv, [Next]_vars PROVE Owned
      OBVIOUS
    <2>1. TypeOK /\ \A t \in Threads : BufferInv(t)
      BY DEF IInv, ThreadInv
    <2>2. ASSUME NEW t \in Threads, EapStep(t) \/ Done(t) PROVE Owned
      <3>1. \A u \in Threads \ {t} : buf'[u] = buf[u]
        BY <2>1, <2>2, EapStays DEF Done, TypeOK
      <3>2. CASE Alloc(t)
        <4>1. heap[buf[t]] # "live" \/ buf[t] = 0 \/ buf'[t] = buf[t]
          BY <2>1, <3>2 DEF Alloc, At, BufferInv, eapVars
        <4>2. \A b \in Blocks : heap[b] # "freedTwice" => heap'[b] # "freedTwice"
          BY <2>1, <3>2 DEF Alloc, TypeOK
        <4> QED
          BY <3>1, <4>1, <4>2
      <3>3. CASE Query(t)
        BY <3>1, <3>3 DEF Query
      <3>4. ASSUME buf[t] # 0, Free(buf[t])
            PROVE  /\ heap[buf[t]] = "live" => heap'[buf[t]] = "freed"
                   /\ \A b \in Blocks : b # buf[t] => heap'[b] = heap[b]
        BY <2>1, <3>4 DEF Free, TypeOK
      <3>5. CASE RetryWithMore(t) \/ Catch(t)
        <4>1. buf' = buf /\ Free(buf[t])
          BY <3>5 DEF RetryWithMore, Catch, FreesBuffer, eapVars
        <4>2. buf[t] # 0 => heap[buf[t]] = "live" \/ thrown[t].class = "OutOfMemory"
          BY <2>1, <3>5 DEF RetryWithMore, Catch, At, BufferInv
        <4>3. buf[t] = 0 => UNCHANGED heap
          BY <4>1 DEF Free
        <4> QED
          BY <3>4, <4>1, <4>2, <4>3
      <3>6. CASE Done(t)
        <4>1. buf[t] # 0 => \/ pc[t] = "returned" /\ heap[buf[t]] = "live"
                            \/ pc[t] = "thrown" /\ heap[buf[t]] # "live"
          BY <2>1, <3>6 DEF Done, BufferInv
        <4>2. \/ pc[t] = "returned" /\ buf[t] # 0 /\ Free(buf[t])
              \/ UNCHANGED heap /\ ~(pc[t] = "returned" /\ HandsOver(t))
          BY <3>6 DEF Done, HandsOver
        <4>3. size[t] \in Nat
          BY <2>1, RequestAssumption DEF TypeOK
        <4>4. UNCHANGED heap /\ pc[t] = "returned" /\ buf[t] # 0 /\ ~HandsOver(t) => size[t] = 0
          BY <4>3 DEF HandsOver
        <4> QED
          BY <3>1, <3>4, <4>1, <4>2, <4>4
      <3> QED
        BY <2>2, <3>2, <3>3, <3>5, <3>6 DEF EapStep
    <2>3. CASE UNCHANGED <<heap, buf>>
      BY <2>3
    <2> QED
      BY <2>2, <2>3, OnlyEapTouches
  <1>2. IInv /\ [Next]_vars => [Owned]_vars
    BY <1>1
  <1> QED
    BY <1>2, IInvHolds, PTL DEF Spec, BuffersAreOwned
=============================================================================

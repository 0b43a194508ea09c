------------------------------ MODULE RequestState ------------------------------
(***************************************************************************)
(* The state shared by the requests that threads make of RAS without a     *)
(* dialer or watcher: enumerating connections and devices, hanging up,     *)
(* asking for a status, fetching EAP user data; and the machine they are   *)
(* made on, which changes under them.                                      *)
(***************************************************************************)
EXTENDS ExceptionPolicy, FiniteSets

CONSTANTS
    Threads,        \* the threads that make requests
    Conns,          \* the connections that may come and go
    Ports,          \* the devices that may be plugged in
    NoItem,
    Machines,       \* the types RAS may report for the devices of Conns and Ports
    Asks,           \* which requests each thread makes
    MaxRefs,        \* bound: references opened to each connection, in all
    MaxData,        \* bound: size of the EAP data of an entry
    MaxCalls,       \* bound: requests made
    Failures,       \* what RAS or the memory may refuse; "endpoint" it answers oddly
    Codes           \* the error codes RAS then returns

Lists == {"connections", "devices"}
DeviceTypes == {"known", "unknown", "blank", "frameRelay"}

ASSUME RequestAssumption ==
    /\ IsFiniteSet(Conns) /\ IsFiniteSet(Ports)
    /\ NoItem \notin Conns \cup Lists /\ Conns \cap Lists = {}
    /\ Machines \subseteq [Conns \cup Ports -> DeviceTypes] /\ Machines # {}
    /\ Asks \in [Threads -> SUBSET {"list", "hangUp", "status", "eapData"}]
    /\ MaxRefs \in [Conns -> Nat \ {0}] /\ MaxData \in Nat /\ MaxCalls \in Nat
    /\ Failures \subseteq {"enum", "hangUp", "status", "endpoint", "query", "alloc"}
    /\ Codes \subseteq Nat \ {SUCCESS, ERROR_NO_CONNECTION, ERROR_INVALID_HANDLE}

Blocks == 1..(MaxCalls * MaxData)

VARIABLES
    refs,       \* references open to each connection; it is up while there are some
    opened,     \* references ever opened to it; its handle is not used again
    plugged,    \* devices plugged in
    device,     \* the type RAS reports for each device
    heap,       \* each block of unmanaged memory
    calls,      \* requests made
    pc,         \* location of each thread
    target,     \* what its request is about: a list, a connection
    all,        \* closeAllReferences
    cancelled,  \* its cancellation token
    count,      \* count: entries of its array, then entries RAS filled
    slots,      \* what RAS put into the array
    made,       \* what the enumeration has yielded
    buf,        \* pbEapData, a block or 0, which stands for IntPtr.Zero
    size,       \* pdwSizeofEapData
    thrown,     \* the exception it ended with
    seen, closed \* history: what the list was since the call, references it closed

machineVars == <<refs, opened, plugged, device>>
enumVars    == <<count, slots, made>>
eapVars     == <<buf, size>>
vars == <<machineVars, heap, calls, pc, target, all, cancelled, enumVars, eapVars,
          thrown, seen, closed>>

NoException == Exception("none", 0)
Exceptions  == [class : {"none", "ArgumentException", "OperatingSystemNotSupported",
                         "RasException", "IPSecException", "Win32Exception",
                         "OperationCanceled", "InvalidOperation", "KeyNotFound",
                         "ArgumentNull", "NotSupported", "OutOfMemory"}, code : Nat]

(* Where a thread is: in GetConnections or GetDevices and the iterator, in *)
(* the loop of RasHangUpService, in that of RasGetEapUserDataService.      *)
PC == {"idle", "fetch", "yield", "token", "hangUp", "sleep", "status",
       "alloc", "query", "retry", "catch", "returned", "thrown"}

Up == {c \in Conns : refs[c] > 0}
Listed(l) == IF l = "connections" THEN Up ELSE plugged

(* The type invariant. *)
TypeOK ==
    /\ refs \in [Conns -> Nat] /\ opened \in [Conns -> Nat]
    /\ \A c \in Conns : refs[c] <= opened[c] /\ opened[c] <= MaxRefs[c]
    /\ plugged \subseteq Ports /\ device \in Machines
    /\ heap \in [Blocks -> {"unused", "live", "freed", "freedTwice"}]
    /\ calls \in 0..MaxCalls
    /\ pc \in [Threads -> PC]
    /\ target \in [Threads -> Conns \cup Lists \cup {NoItem}]
    /\ all \in [Threads -> BOOLEAN] /\ cancelled \in [Threads -> BOOLEAN]
    /\ count \in [Threads -> Nat]
    /\ slots \in [Threads -> SUBSET (Conns \cup Ports)]
    /\ made \in [Threads -> SUBSET (Conns \cup Ports)]
    /\ buf \in [Threads -> Blocks \cup {0}] /\ size \in [Threads -> 0..MaxData]
    /\ thrown \in [Threads -> Exceptions]
    /\ seen \in [Threads -> SUBSET SUBSET (Conns \cup Ports)]
    /\ closed \in [Threads -> Nat]

Init ==
    /\ refs \in [Conns -> {0, 1}] /\ opened = refs
    /\ plugged \in SUBSET Ports /\ device \in Machines
    /\ heap = [b \in Blocks |-> "unused"]
    /\ calls = 0
    /\ pc = [t \in Threads |-> "idle"]
    /\ target = [t \in Threads |-> NoItem]
    /\ all = [t \in Threads |-> FALSE] /\ cancelled = [t \in Threads |-> FALSE]
    /\ count = [t \in Threads |-> 0]
    /\ slots = [t \in Threads |-> {}] /\ made = [t \in Threads |-> {}]
    /\ buf = [t \in Threads |-> 0] /\ size = [t \in Threads |-> 0]
    /\ thrown = [t \in Threads |-> NoException]
    /\ seen = [t \in Threads |-> {}] /\ closed = [t \in Threads |-> 0]

-----------------------------------------------------------------------------
At(t, here, next) == pc[t] = here /\ pc' = [pc EXCEPT ![t] = next]

Throws(t, e) ==
    /\ pc' = [pc EXCEPT ![t] = "thrown"]
    /\ thrown' = [thrown EXCEPT ![t] = e]

(* Every thread in the loop of an enumeration sees what its list has become. *)
Witnessed(l) ==
    seen' = [t \in Threads |->
                IF pc[t] = "fetch" /\ target[t] = l THEN seen[t] \cup {Listed(l)'}
                                                    ELSE seen[t]]

(* A call begins. *)
Calls(t, request, here, what) ==
    /\ request \in Asks[t]
    /\ At(t, "idle", here)
    /\ calls < MaxCalls
    /\ calls' = calls + 1
    /\ target' = [target EXCEPT ![t] = what]

(* The machine (outside the library): a reference to a connection is       *)
(* opened, which may be its first one; one is closed by another process; a *)
(* connection is dropped by the other end; a device comes or goes.         *)
Opens(c) ==
    /\ opened[c] < MaxRefs[c] /\ (opened[c] > 0 => refs[c] > 0)
    /\ refs' = [refs EXCEPT ![c] = @ + 1] /\ opened' = [opened EXCEPT ![c] = @ + 1]
    /\ Witnessed("connections")
    /\ UNCHANGED <<plugged, device>>

Closes(c, n) ==
    /\ n < refs[c]
    /\ refs' = [refs EXCEPT ![c] = n]
    /\ Witnessed("connections")
    /\ UNCHANGED <<opened, plugged, device>>

Plugs(p) ==
    /\ plugged' = IF p \in plugged THEN plugged \ {p} ELSE plugged \cup {p}
    /\ Witnessed("devices")
    /\ UNCHANGED <<refs, opened, device>>

Machine ==
    /\ \/ \E c \in Conns : Opens(c) \/ \E n \in 0..1 : Closes(c, n)
       \/ \E p \in Ports : Plugs(p)
    /\ UNCHANGED <<heap, calls, pc, target, all, cancelled, enumVars, eapVars,
                   thrown, closed>>
=============================================================================

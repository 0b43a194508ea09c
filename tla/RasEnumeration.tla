----------------------------- MODULE RasEnumeration -----------------------------
(* RasEnumConnectionsService.cs and RasEnumDevicesService.cs, which differ *)
(* in what they make of an entry, with DeviceTypeFactory.cs.               *)
EXTENDS RequestState

(* The iterator runs from its first MoveNext; the array has room for one.  *)
CallEnumerate(t, l) ==
    /\ Calls(t, "list", "fetch", l)
    /\ count' = [count EXCEPT ![t] = 1]
    /\ seen' = [seen EXCEPT ![t] = {Listed(l)}]
    /\ UNCHANGED <<machineVars, heap, all, cancelled, slots, made, eapVars, thrown,
                   closed>>

(* Defect: what fits into the array is taken for the answer. *)
RetryForgotten(t) == At(t, "fetch", "yield")

(* ERROR_BUFFER_TOO_SMALL: once more, with room for what RAS counted. *)
Retry(t) == At(t, "fetch", "fetch")

(* One round of the loop: an array of count entries and the call. *)
Fetch(t) ==
    LET now == Listed(target[t])
    IN  /\ pc[t] = "fetch"
        /\ \/ /\ Cardinality(now) > count[t]
              /\ Retry(t)
              /\ count' = [count EXCEPT ![t] = Cardinality(now)]
              /\ UNCHANGED <<slots, thrown>>
           \/ /\ Cardinality(now) <= count[t]
              /\ At(t, "fetch", "yield")
              /\ count' = [count EXCEPT ![t] = Cardinality(now)]
              /\ slots' = [slots EXCEPT ![t] = now]
              /\ UNCHANGED thrown
           \/ /\ "enum" \in Failures
              /\ \E code \in Codes : Throws(t, Create(code))
              /\ UNCHANGED <<count, slots>>
        /\ UNCHANGED <<machineVars, heap, calls, target, all, cancelled, made, eapVars,
                       seen, closed>>

(* DeviceTypeFactory.Create: no device without a type; the factory the     *)
(* lookup table names for the type; a device of unknown type otherwise.    *)
(* For frame relay the table names the device itself, which the container  *)
(* has no registration of.                                                 *)
DeviceFor(type) ==
    CASE type = "blank"      -> "null"
      [] type = "frameRelay" -> "KeyNotFound"
      [] OTHER               -> "device"

(* The conversion of one entry fails: a connection needs a device.         *)
Refuses(l, i) ==
    \/ DeviceFor(device[i]) = "KeyNotFound"
    \/ DeviceFor(device[i]) = "null" /\ l = "connections"

(* MoveNext yields the connection or device of the next entry, *)
Yield(t) ==
    /\ pc[t] = "yield"
    /\ \E i \in slots[t] \ made[t] :
          /\ ~Refuses(target[t], i)
          /\ made' = [made EXCEPT ![t] = @ \cup {i}]
    /\ UNCHANGED <<machineVars, heap, calls, pc, target, all, cancelled, count, slots,
                   eapVars, thrown, seen, closed>>

(* or throws, *)
YieldThrows(t) ==
    /\ pc[t] = "yield"
    /\ \E i \in slots[t] \ made[t] :
          /\ Refuses(target[t], i)
          /\ Throws(t, Exception(IF DeviceFor(device[i]) = "null"
                                    THEN "InvalidOperation" ELSE "KeyNotFound", 0))
    /\ UNCHANGED <<machineVars, heap, calls, target, all, cancelled, enumVars, eapVars,
                   seen, closed>>

(* or there are no more entries.                                           *)
YieldEnds(t) ==
    /\ At(t, "yield", "returned")
    /\ made[t] = slots[t]
    /\ UNCHANGED <<machineVars, heap, calls, target, all, cancelled, enumVars, eapVars,
                   thrown, seen, closed>>

EnumerationStep(t) == Fetch(t) \/ Yield(t) \/ YieldThrows(t) \/ YieldEnds(t)
=============================================================================

---------------------------- MODULE RasGetEapUserData ----------------------------
(* RasGetEapUserDataService.cs, with AllocHGlobal and FreeHGlobalIfNeeded  *)
(* of MarshallingService.cs.                                               *)
EXTENDS RequestState

(* TryUnsafeGetEapUserData *)
CallGetEapUserData(t) ==
    /\ Calls(t, "eapData", "alloc", NoItem)
    /\ UNCHANGED <<machineVars, heap, all, cancelled, enumVars, eapVars, thrown, seen,
                   closed>>

(* FreeHGlobalIfNeeded(block), which does nothing to IntPtr.Zero. *)
Free(b) ==
    IF b = 0 THEN UNCHANGED heap
    ELSE heap' = [heap EXCEPT ![b] = IF @ = "live" THEN "freed" ELSE "freedTwice"]

(* AllocHGlobal: no block for no bytes; when it throws, pbEapData is what  *)
(* it was before.                                                          *)
Alloc(t) ==
    /\ \/ /\ At(t, "alloc", "query") /\ size[t] = 0
          /\ buf' = [buf EXCEPT ![t] = 0]
          /\ UNCHANGED <<heap, thrown>>
       \/ /\ At(t, "alloc", "query") /\ size[t] > 0
          /\ \E b \in Blocks :
                /\ heap[b] = "unused" /\ \A a \in Blocks : heap[a] = "unused" => b <= a
                /\ heap' = [heap EXCEPT ![b] = "live"]
                /\ buf' = [buf EXCEPT ![t] = b]
          /\ UNCHANGED thrown
       \/ /\ At(t, "alloc", "catch") /\ size[t] > 0 /\ "alloc" \in Failures
          /\ thrown' = [thrown EXCEPT ![t] = Exception("OutOfMemory", 0)]
          /\ UNCHANGED <<heap, buf>>
    /\ UNCHANGED <<machineVars, calls, target, all, cancelled, enumVars, size, seen,
                   closed>>

(* RasGetEapUserData puts the size of the data into pdwSizeofEapData and   *)
(* the data into the buffer, if it is large enough; or it refuses.  The    *)
(* data may be rewritten between any two calls.                            *)
Query(t) ==
    /\ \/ /\ \E data \in 0..MaxData :
                /\ At(t, "query", IF data > size[t] THEN "retry" ELSE "returned")
                /\ size' = [size EXCEPT ![t] = data]
          /\ UNCHANGED thrown
       \/ /\ At(t, "query", "catch") /\ "query" \in Failures
          /\ \E code \in Codes : thrown' = [thrown EXCEPT ![t] = Create(code)]
          /\ UNCHANGED size
    /\ UNCHANGED <<machineVars, heap, calls, target, all, cancelled, enumVars, buf, seen,
                   closed>>

(* Defect: the buffer that was too small is forgotten. *)
KeepsBuffer(t) == UNCHANGED heap

FreesBuffer(t) == Free(buf[t])

(* Defect: the size is doubled, not the one RAS asked for. *)
RetryWithTwice(t) ==
    /\ At(t, "retry", "alloc")
    /\ FreesBuffer(t)
    /\ size' = [size EXCEPT ![t] = 2 * @]
    /\ UNCHANGED <<machineVars, calls, target, all, cancelled, enumVars, buf, thrown,
                   seen, closed>>

RetryWithMore(t) ==
    /\ At(t, "retry", "alloc")
    /\ FreesBuffer(t)
    /\ UNCHANGED <<machineVars, calls, target, all, cancelled, enumVars, eapVars, thrown,
                   seen, closed>>

Catch(t) ==
    /\ At(t, "catch", "thrown")
    /\ Free(buf[t])
    /\ UNCHANGED <<machineVars, calls, target, all, cancelled, enumVars, eapVars, thrown,
                   seen, closed>>

EapStep(t) == Alloc(t) \/ Query(t) \/ RetryWithMore(t) \/ Catch(t)

(* The answer is true, and the caller has the block, if there is one and   *)
(* it holds something.                                                     *)
HandsOver(t) == buf[t] # 0 /\ size[t] > 0
=============================================================================

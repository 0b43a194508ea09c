------------------------------- MODULE Container -------------------------------
(***************************************************************************)
(* Container.cs, the dependency injection container: threads that resolve  *)
(* services from the container and its scopes, at the same time as each    *)
(* other and as the disposal of a container or scope.                      *)
(*                                                                         *)
(* A lifetime is the container's own, Root, or that of a scope.  Each has  *)
(* a cache of instances by type.  A type's constructor takes at most one   *)
(* service, that of type Dep[type]; instances are numbered as they are     *)
(* made, and 0 is none.                                                    *)
(***************************************************************************)
EXTENDS Naturals, Sequences, FiniteSets

CONSTANTS
    Types,          \* the types registered
    NoType,         \* one that is not
    Lives,          \* how each was registered: Register, AsSingleton, PerScope
    Dep,            \* the service a type's constructor takes, or NoType
    Scopes, Root,   \* the lifetimes
    NoLifetime,
    Threads,
    Throwing,       \* types whose constructor may throw
    Faulty,         \* types whose Dispose may throw
    MaxCalls,       \* bound: calls of GetService and Dispose
    MaxMade         \* bound: instances made, as many as the calls need

Lifetimes == Scopes \cup {Root}
Instances == 1..MaxMade

ASSUME ContainerAssumption ==
    /\ NoType \notin Types
    /\ Root \notin Scopes /\ NoLifetime \notin Lifetimes
    /\ Lives \in [Types -> {"transient", "singleton", "perScope"}]
    /\ Dep \in [Types -> Types \cup {NoType}]
    /\ Throwing \subseteq Types /\ Faulty \subseteq Types
    /\ MaxCalls \in Nat /\ MaxMade \in Nat

VARIABLES
    cache,      \* instanceCache of each lifetime: type to instance
    made,       \* instances made so far
    calls,      \* calls of GetService and Dispose
    type, dep,  \* of each instance: its type, the instance it was given
    home,       \* the lifetime in whose cache it was to go, NoLifetime for a transient
    stack,      \* calls of factories in progress on each thread
    got,        \* what the thread's last call returned
    use,        \* lifetimes: "open", "disposing", "disposed", or its Dispose threw
    left,       \* instances its Dispose has still to dispose
    disposed,   \* instances disposed
    given       \* history: what was resolved from caches: see Resolved

vars == <<cache, made, calls, type, dep, home, stack, got, use, left, disposed, given>>

(* A frame of a thread's stack: the type, the lifetime that caches it, the *)
(* lifetime its factory resolves from, and whether that factory runs.      *)
Frames == [type : Types, cache : Lifetimes \cup {NoLifetime}, from : Lifetimes,
           at : {"look", "build", "add"}]

(* A resolution from a cache, and whether it came before any Dispose of    *)
(* the lifetime.                                                           *)
Resolutions == [owner : Lifetimes, type : Types, instance : Instances,
                when : {"before", "since"}]

TypeOK ==
    /\ cache \in [Lifetimes -> [Types -> Instances \cup {0}]]
    /\ made \in 0..MaxMade
    /\ calls \in 0..MaxCalls
    /\ type \in [Instances -> Types \cup {NoType}]
    /\ dep \in [Instances -> Instances \cup {0}]
    /\ home \in [Instances -> Lifetimes \cup {NoLifetime}]
    /\ stack \in [Threads -> Seq(Frames)]
    /\ got \in [Threads -> Instances \cup {0}]
    /\ use \in [Lifetimes -> {"open", "disposing", "disposed", "threw"}]
    /\ left \in [Lifetimes -> SUBSET Instances]
    /\ disposed \subseteq Instances
    /\ given \subseteq Resolutions

Init ==
    /\ cache = [l \in Lifetimes |-> [y \in Types |-> 0]]
    /\ made = 0
    /\ calls = 0
    /\ type = [i \in Instances |-> NoType]
    /\ dep = [i \in Instances |-> 0]
    /\ home = [i \in Instances |-> NoLifetime]
    /\ stack = [t \in Threads |-> <<>>]
    /\ got = [t \in Threads |-> 0]
    /\ use = [l \in Lifetimes |-> "open"]
    /\ left = [l \in Lifetimes |-> {}]
    /\ disposed = {}
    /\ given = {}

-----------------------------------------------------------------------------
(* ScopeLifetime delegates singletons to its parent lifetime; at container *)
(* level per-scope services are singletons.                                *)
CacheFor(y, l) ==
    CASE Lives[y] = "transient" -> NoLifetime
      [] Lives[y] = "singleton" -> Root
      [] Lives[y] = "perScope"  -> l

(* Defect: the factory goes on with the lifetime the service is asked of.  *)
AskedLifetime(y, l) == l

(* The lifetime that caches a service is the one its factory gets.         *)
FactoryLifetime(y, l) == IF Lives[y] = "transient" THEN l ELSE CacheFor(y, l)

(* The function registered for a type, called with a lifetime. *)
FrameFor(y, l) ==
    [type |-> y, cache |-> CacheFor(y, l), from |-> FactoryLifetime(y, l),
     at |-> IF Lives[y] = "transient" THEN "build" ELSE "look"]

Top(t)  == stack[t][Len(stack[t])]
Below(t) == SubSeq(stack[t], 1, Len(stack[t]) - 1)

(* GetService of a container or scope.                                     *)
GetService(t, y, l) ==
    /\ stack[t] = <<>>
    /\ calls < MaxCalls /\ calls' = calls + 1
    /\ stack' = [stack EXCEPT ![t] = <<FrameFor(y, l)>>]
    /\ got' = [got EXCEPT ![t] = 0]
    /\ UNCHANGED <<cache, made, type, dep, home, use, left, disposed, given>>

(* A thread gets instance i from the cache of the frame on top. *)
Resolved(t, i) ==
    /\ stack' = [stack EXCEPT ![t] = Below(t)]
    /\ got' = [got EXCEPT ![t] = i]
    /\ given' = given \cup {[owner |-> Top(t).cache, type |-> Top(t).type, instance |-> i,
                             when |-> IF use[Top(t).cache] = "open" THEN "before" ELSE "since"]}

(* GetOrAdd looks into the cache, which may have the instance, *)
LookFinds(t) ==
    /\ stack[t] # <<>> /\ Top(t).at = "look"
    /\ cache[Top(t).cache][Top(t).type] # 0
    /\ Resolved(t, cache[Top(t).cache][Top(t).type])
    /\ UNCHANGED <<cache, made, type, dep, home, calls, use, left, disposed>>

(* or runs the factory, without a lock.                                    *)
LookMisses(t) ==
    /\ stack[t] # <<>> /\ Top(t).at = "look"
    /\ cache[Top(t).cache][Top(t).type] = 0
    /\ stack' = [stack EXCEPT ![t] = Append(Below(t), [Top(t) EXCEPT !.at = "build"])]
    /\ UNCHANGED <<cache, made, type, dep, home, got, calls, use, left, disposed, given>>

(* FactoryFromType: the constructor's argument is resolved first, from the *)
(* same lifetime.                                                          *)
BuildArgument(t) ==
    /\ stack[t] # <<>> /\ Top(t).at = "build"
    /\ Dep[Top(t).type] \in Types
    /\ stack' = [stack EXCEPT ![t] =
                    Append(Append(Below(t), [Top(t) EXCEPT !.at = "add"]),
                           FrameFor(Dep[Top(t).type], Top(t).from))]
    /\ UNCHANGED <<cache, made, type, dep, home, got, calls, use, left, disposed, given>>

Constructs(t) ==
    /\ stack[t] # <<>>
    /\ \/ Top(t).at = "add"
       \/ Top(t).at = "build" /\ Dep[Top(t).type] \notin Types
    /\ made < MaxMade
    /\ made' = made + 1
    /\ type' = [type EXCEPT ![made + 1] = Top(t).type]
    /\ dep' = [dep EXCEPT ![made + 1] = IF Top(t).at = "add" THEN got[t] ELSE 0]
    /\ home' = [home EXCEPT ![made + 1] = Top(t).cache]

(* The constructor of a transient runs; nothing keeps the instance.        *)
BuildTransient(t) ==
    /\ Constructs(t)
    /\ Top(t).cache = NoLifetime
    /\ stack' = [stack EXCEPT ![t] = Below(t)]
    /\ got' = [got EXCEPT ![t] = made + 1]
    /\ UNCHANGED <<cache, calls, use, left, disposed, given>>

(* Defect: each thread keeps the instance it made. *)
Own(l, y) == made + 1

Winner(l, y) == IF cache[l][y] = 0 THEN made + 1 ELSE cache[l][y]

(* The constructor runs and GetOrAdd adds what it made, unless another     *)
(* thread was first: then that thread's instance is returned.              *)
BuildCached(t) ==
    LET l == Top(t).cache
        y == Top(t).type
    IN  /\ Constructs(t)
        /\ l # NoLifetime
        /\ cache' = [cache EXCEPT ![l][y] = IF @ = 0 THEN made + 1 ELSE @]
        /\ Resolved(t, Winner(l, y))
        /\ UNCHANGED <<calls, use, left, disposed>>

(* A constructor throws, and so do all the calls in progress; what they    *)
(* added to caches stays there.                                            *)
BuildThrows(t) ==
    /\ stack[t] # <<>> /\ Top(t).at # "look"
    /\ Top(t).at = "build" => Dep[Top(t).type] \notin Types
    /\ Top(t).type \in Throwing
    /\ stack' = [stack EXCEPT ![t] = <<>>]
    /\ got' = [got EXCEPT ![t] = 0]
    /\ UNCHANGED <<cache, made, type, dep, home, calls, use, left, disposed, given>>

ResolveStep(t) ==
    LookFinds(t) \/ LookMisses(t) \/ BuildArgument(t) \/ BuildTransient(t)
        \/ BuildCached(t) \/ BuildThrows(t)

-----------------------------------------------------------------------------
(* Defect: per-scope instances are left to themselves. *)
CachedSingletons(l) ==
    {i \in Instances : \E y \in Types : cache[l][y] = i /\ Lives[y] = "singleton"}

(* Defect: types without an instance have their 0 in it. *)
CachedOrNone(l) == {cache[l][y] : y \in Types}

Cached(l) == {i \in Instances : \E y \in Types : cache[l][y] = i}

(* Dispose of a lifetime, which may be called again: it goes through the   *)
(* values the cache has now, ...                                           *)
Dispose(l) ==
    /\ use[l] # "disposing"
    /\ calls < MaxCalls /\ calls' = calls + 1
    /\ use' = [use EXCEPT ![l] = "disposing"]
    /\ left' = [left EXCEPT ![l] = Cached(l)]
    /\ UNCHANGED <<cache, made, type, dep, home, stack, got, disposed, given>>

(* ... disposes one after the other, in any order, until one throws ...    *)
DisposeInstance(l) ==
    /\ use[l] = "disposing"
    /\ \E i \in left[l] :
          \/ /\ disposed' = disposed \cup {i}
             /\ left' = [left EXCEPT ![l] = @ \ {i}]
             /\ UNCHANGED use
          \/ /\ type[i] \in Faulty
             /\ use' = [use EXCEPT ![l] = "threw"]
             /\ left' = [left EXCEPT ![l] = {}]
             /\ UNCHANGED disposed
    /\ UNCHANGED <<cache, made, type, dep, home, stack, got, calls, given>>

(* ... and returns. *)
DisposeReturns(l) ==
    /\ use[l] = "disposing" /\ left[l] = {}
    /\ use' = [use EXCEPT ![l] = "disposed"]
    /\ UNCHANGED <<cache, made, type, dep, home, stack, got, calls, left, disposed, given>>

DisposeStep(l) == DisposeInstance(l) \/ DisposeReturns(l)

Rest ==
    /\ calls = MaxCalls
    /\ \A t \in Threads : stack[t] = <<>>
    /\ \A l \in Lifetimes : use[l] # "disposing"
    /\ UNCHANGED vars

Next ==
    \/ \E t \in Threads :
          ResolveStep(t) \/ \E y \in Types, l \in Lifetimes : GetService(t, y, l)
    \/ \E l \in Lifetimes : Dispose(l) \/ DisposeStep(l)
    \/ Rest

Spec == Init /\ [][Next]_vars

-----------------------------------------------------------------------------
(* Every lifetime has one instance of each type it caches: whoever         *)
(* resolves it, at the same time as others or after another's constructor  *)
(* threw, gets the same.                                                   *)
OneInstance ==
    \A g, h \in given : g.owner = h.owner /\ g.type = h.type => g.instance = h.instance

(* The instances an instance holds, directly or through others. *)
Held[i \in 0..MaxMade] ==
    IF i = 0 \/ dep[i] = 0 THEN {} ELSE {dep[i]} \cup Held[dep[i]]

(* What outlives a scope holds nothing of it: an instance the container    *)
(* keeps, or another scope, reaches no instance of that scope, through     *)
(* transients either.                                                      *)
NoCaptive ==
    \A i \in 1..made : home[i] # NoLifetime =>
        \A d \in Held[i] : home[d] \in Scopes => home[d] = home[i]

(* When the Dispose of a lifetime has returned, whatever it had given to   *)
(* anyone before is disposed; and nothing is disposed but by its owner.    *)
OwnersDispose ==
    /\ \A g \in given : g.when = "before" /\ use[g.owner] = "disposed" => g.instance \in disposed
    /\ \A i \in disposed : home[i] # NoLifetime /\ use[home[i]] # "open"
=============================================================================

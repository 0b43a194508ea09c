---------------------------- MODULE ContainerProofs ----------------------------
(***************************************************************************)
(* Theorems about Container, for any services, scopes and threads: who     *)
(* resolves a cached service gets the one instance, and the instances a    *)
(* lifetime gave are disposed with it, and only then.                      *)
(***************************************************************************)
EXTENDS Container, SequenceTheorems, WellFoundedInduction, TLAPS

(* A factory that looks into a cache has one. *)
Sound == {f \in Frames : f.at = "look" => f.cache # NoLifetime}

StackInv == stack \in [Threads -> Seq(Sound)]

(* An entry of a cache is an instance made for that cache, ... *)
CacheInv ==
    \A l \in Lifetimes, y \in Types : cache[l][y] # 0 =>
        cache[l][y] \in 1..made /\ home[cache[l][y]] = l

(* ... and once somebody has it, it is never replaced. *)
GivenInv == \A g \in given : cache[g.owner][g.type] = g.instance

(* A Dispose goes through instances of its own, and has not lost any that  *)
(* was given before it began.                                              *)
DisposeInv ==
    /\ \A l \in Lifetimes :
          /\ left[l] # {} => use[l] = "disposing"
          /\ \A i \in left[l] : i \in 1..made /\ home[i] = l
    /\ \A i \in disposed : i \in 1..made /\ home[i] # NoLifetime /\ use[home[i]] # "open"
    /\ \A g \in given : g.when = "before" =>
          /\ use[g.owner] = "disposing" => g.instance \in left[g.owner] \cup disposed
          /\ use[g.owner] = "disposed" => g.instance \in disposed

IInv == TypeOK /\ StackInv /\ CacheInv /\ GivenInv /\ DisposeInv

-----------------------------------------------------------------------------
(* The stack of factories.                                                 *)

LEMMA PopFrames ==
  ASSUME NEW S, NEW s \in Seq(S), s # <<>>
  PROVE  s[Len(s)] \in S /\ SubSeq(s, 1, Len(s) - 1) \in Seq(S)
  <1>1. Len(s) \in Nat \ {0}
    BY EmptySeq
  <1>2. \A i \in 1..Len(s) : s[i] \in S
    BY ElementOfSeq
  <1>3. Len(s) \in 1..Len(s) /\ \A i \in 1..(Len(s) - 1) : s[i] \in S
    BY <1>1, <1>2
  <1>4. SubSeq(s, 1, Len(s) - 1) \in Seq(S)
    BY <1>1, <1>3, SubSeqProperties
  <1> QED
    BY <1>2, <1>3, <1>4

LEMMA PushFrame ==
  ASSUME NEW S, NEW s \in Seq(S), NEW f \in S
  PROVE  Append(s, f) \in Seq(S)
  OBVIOUS

LEMMA TopBelow ==
  ASSUME StackInv, NEW t \in Threads, stack[t] # <<>>
  PROVE  Top(t) \in Sound /\ Below(t) \in Seq(Sound)
  <1>1. stack[t] \in Seq(Sound)
    BY DEF StackInv
  <1> QED
    BY <1>1, PopFrames DEF Top, Below

LEMMA FrameForSound ==
  ASSUME NEW y \in Types, NEW l \in Lifetimes
  PROVE  FrameFor(y, l) \in Sound
  <1>1. Lives[y] \in {"transient", "singleton", "perScope"} /\ Root \in Lifetimes
    BY ContainerAssumption DEF Lifetimes
  <1>2. CacheFor(y, l) \in Lifetimes \cup {NoLifetime}
    BY <1>1 DEF CacheFor
  <1>3. FactoryLifetime(y, l) \in Lifetimes
    BY <1>1 DEF FactoryLifetime, CacheFor
  <1>4. Lives[y] # "transient" => CacheFor(y, l) # NoLifetime
    BY <1>1, ContainerAssumption DEF CacheFor
  <1> QED
    BY <1>2, <1>3, <1>4 DEF FrameFor, Sound, Frames

LEMMA SetStack ==
  ASSUME StackInv, NEW t \in Threads, NEW s \in Seq(Sound), stack' = [stack EXCEPT ![t] = s]
  PROVE  StackInv' /\ stack' \in [Threads -> Seq(Frames)]
  <1>1. stack' \in [Threads -> Seq(Sound)]
    BY DEF StackInv
  <1>2. Seq(Sound) \subseteq Seq(Frames)
    BY SeqMonotonic DEF Sound
  <1> QED
    BY <1>1, <1>2 DEF StackInv

-----------------------------------------------------------------------------
LEMMA InitIInv == Init => IInv
  <1> SUFFICES ASSUME Init PROVE IInv
    OBVIOUS
  <1>1. TypeOK
    <2>1. made \in 0..MaxMade /\ calls \in 0..MaxCalls
      BY ContainerAssumption DEF Init
    <2>2. stack \in [Threads -> Seq(Frames)]
      BY EmptySeq DEF Init
    <2> QED
      BY <2>1, <2>2 DEF Init, TypeOK
  <1>2. StackInv
    BY EmptySeq DEF Init, StackInv
  <1> QED
    BY <1>1, <1>2 DEF Init, IInv, CacheInv, GivenInv, DisposeInv

(* Steps that only move a thread's stack.                                  *)
LEMMA Moves ==
  ASSUME IInv, NEW t \in Threads, NEW s \in Seq(Sound), stack' = [stack EXCEPT ![t] = s],
         got' \in [Threads -> Instances \cup {0}], calls' \in 0..MaxCalls,
         UNCHANGED <<cache, made, type, dep, home, use, left, disposed, given>>
  PROVE  IInv'
  <1>1. StackInv' /\ stack' \in [Threads -> Seq(Frames)]
    BY SetStack DEF IInv
  <1>2. TypeOK'
    BY <1>1 DEF IInv, TypeOK
  <1> QED
    BY <1>1, <1>2 DEF IInv, CacheInv, GivenInv, DisposeInv

(* What was taken from a cache, where the cache now has it.                *)
LEMMA ResolvedInv ==
  ASSUME IInv, NEW t \in Threads, NEW i \in Instances,
         stack[t] # <<>>, Top(t).cache # NoLifetime, Resolved(t, i)
  PROVE  /\ StackInv' /\ stack' \in [Threads -> Seq(Frames)]
         /\ got' \in [Threads -> Instances \cup {0}]
         /\ Top(t).cache \in Lifetimes /\ Top(t).type \in Types
         /\ given' \subseteq Resolutions
  <1>1. Top(t) \in Sound /\ Below(t) \in Seq(Sound)
    BY TopBelow DEF IInv
  <1>2. StackInv' /\ stack' \in [Threads -> Seq(Frames)]
    BY <1>1, SetStack DEF IInv, Resolved
  <1>3. Top(t).cache \in Lifetimes /\ Top(t).type \in Types
    BY <1>1 DEF Sound, Frames
  <1>4. given' \subseteq Resolutions
    BY <1>3 DEF IInv, TypeOK, Resolved, Resolutions
  <1> QED
    BY <1>2, <1>3, <1>4 DEF IInv, TypeOK, Resolved

LEMMA GetServiceInv ==
  ASSUME IInv, NEW t \in Threads, NEW y \in Types, NEW l \in Lifetimes, GetService(t, y, l)
  PROVE  IInv'
  <1>1. <<FrameFor(y, l)>> \in Seq(Sound)
    BY FrameForSound
  <1>2. got' \in [Threads -> Instances \cup {0}] /\ calls' \in 0..MaxCalls
    BY ContainerAssumption DEF GetService, IInv, TypeOK
  <1> QED
    BY <1>1, <1>2, Moves DEF GetService

LEMMA LookFindsInv ==
  ASSUME IInv, NEW t \in Threads, LookFinds(t)
  PROVE  IInv'
  <1> DEFINE l == Top(t).cache
             y == Top(t).type
             i == cache[l][y]
  <1>1. Top(t) \in Sound /\ l # NoLifetime /\ l \in Lifetimes /\ y \in Types
    BY TopBelow DEF LookFinds, IInv, Sound, Frames
  <1>2. i \in Instances
    BY <1>1 DEF LookFinds, IInv, TypeOK
  <1>3. /\ StackInv' /\ stack' \in [Threads -> Seq(Frames)]
        /\ got' \in [Threads -> Instances \cup {0}] /\ given' \subseteq Resolutions
    BY <1>1, <1>2, ResolvedInv DEF LookFinds
  <1>4. TypeOK'
    BY <1>3 DEF IInv, TypeOK, LookFinds
  <1>5. given' = given \cup {[owner |-> l, type |-> y, instance |-> i,
                              when |-> IF use[l] = "open" THEN "before" ELSE "since"]}
    BY DEF LookFinds, Resolved
  <1>6. GivenInv'
    BY <1>5 DEF GivenInv, IInv, LookFinds
  <1>7. DisposeInv'
    BY <1>5 DEF DisposeInv, IInv, LookFinds
  <1> QED
    BY <1>3, <1>4, <1>6, <1>7 DEF IInv, CacheInv, LookFinds

LEMMA LookMissesInv ==
  ASSUME IInv, NEW t \in Threads, LookMisses(t)
  PROVE  IInv'
  <1>1. Top(t) \in Sound /\ Below(t) \in Seq(Sound)
    BY TopBelow DEF LookMisses, IInv
  <1>2. [Top(t) EXCEPT !.at = "build"] \in Sound
    BY <1>1 DEF Sound, Frames
  <1>3. Append(Below(t), [Top(t) EXCEPT !.at = "build"]) \in Seq(Sound)
    BY <1>1, <1>2, PushFrame
  <1> QED
    BY <1>3, Moves DEF LookMisses, IInv, TypeOK

LEMMA BuildArgumentInv ==
  ASSUME IInv, NEW t \in Threads, BuildArgument(t)
  PROVE  IInv'
  <1>1. Top(t) \in Sound /\ Below(t) \in Seq(Sound)
    BY TopBelow DEF BuildArgument, IInv
  <1>2. [Top(t) EXCEPT !.at = "add"] \in Sound
    BY <1>1 DEF Sound, Frames
  <1>3. FrameFor(Dep[Top(t).type], Top(t).from) \in Sound
    BY <1>1, FrameForSound DEF BuildArgument, Sound, Frames
  <1>4. Append(Append(Below(t), [Top(t) EXCEPT !.at = "add"]),
               FrameFor(Dep[Top(t).type], Top(t).from)) \in Seq(Sound)
    BY <1>1, <1>2, <1>3, PushFrame
  <1> QED
    BY <1>4, Moves DEF BuildArgument, IInv, TypeOK

LEMMA BuildThrowsInv ==
  ASSUME IInv, NEW t \in Threads, BuildThrows(t)
  PROVE  IInv'
  <1>1. <<>> \in Seq(Sound)
    BY EmptySeq
  <1>2. got' \in [Threads -> Instances \cup {0}] /\ calls' \in 0..MaxCalls
    BY DEF BuildThrows, IInv, TypeOK
  <1> QED
    BY <1>1, <1>2, Moves DEF BuildThrows

(* What the constructors do: a new instance, of a type, for a lifetime.    *)
LEMMA ConstructsInv ==
  ASSUME IInv, NEW t \in Threads, Constructs(t)
  PROVE  /\ made + 1 \in Instances /\ made + 1 \notin 1..made
         /\ made' = made + 1 /\ made' \in 0..MaxMade /\ 1..made \subseteq 1..made'
         /\ type' \in [Instances -> Types \cup {NoType}]
         /\ dep' \in [Instances -> Instances \cup {0}]
         /\ home' \in [Instances -> Lifetimes \cup {NoLifetime}]
         /\ home'[made + 1] = Top(t).cache
         /\ \A i \in 1..made : home'[i] = home[i]
  <1>1. Top(t) \in Sound
    BY TopBelow DEF IInv, Constructs
  <1>2. made \in 0..MaxMade /\ made < MaxMade /\ made' = made + 1 /\ MaxMade \in Nat
    BY ContainerAssumption DEF IInv, TypeOK, Constructs
  <1>3. made + 1 \in Instances /\ made + 1 \notin 1..made /\ 1..made \subseteq Instances
    BY <1>2 DEF Instances
  <1>4. Top(t).type \in Types /\ Top(t).cache \in Lifetimes \cup {NoLifetime}
    BY <1>1 DEF Sound, Frames
  <1>5. type' \in [Instances -> Types \cup {NoType}] /\ dep' \in [Instances -> Instances \cup {0}]
    BY <1>4 DEF IInv, TypeOK, Constructs
  <1>6. home' = [home EXCEPT ![made + 1] = Top(t).cache]
        /\ home \in [Instances -> Lifetimes \cup {NoLifetime}]
    BY DEF IInv, TypeOK, Constructs
  <1> QED
    BY <1>2, <1>3, <1>4, <1>5, <1>6

LEMMA BuildTransientInv ==
  ASSUME IInv, NEW t \in Threads, BuildTransient(t)
  PROVE  IInv'
  <1>1. Constructs(t) /\ stack[t] # <<>>
    BY DEF BuildTransient, Constructs
  <1>2. StackInv' /\ stack' \in [Threads -> Seq(Frames)]
    BY <1>1, TopBelow, SetStack DEF BuildTransient, IInv
  <1>3. got' \in [Threads -> Instances \cup {0}]
    BY <1>1, ConstructsInv DEF BuildTransient, IInv, TypeOK
  <1>4. TypeOK'
    BY <1>1, <1>2, <1>3, ConstructsInv DEF BuildTransient, IInv, TypeOK
  <1>5. CacheInv'
    BY <1>1, ConstructsInv DEF BuildTransient, IInv, CacheInv
  <1>6. DisposeInv'
    BY <1>1, ConstructsInv DEF BuildTransient, IInv, DisposeInv
  <1> QED
    BY <1>2, <1>4, <1>5, <1>6 DEF BuildTransient, IInv, GivenInv

LEMMA BuildCachedInv ==
  ASSUME IInv, NEW t \in Threads, BuildCached(t)
  PROVE  IInv'
  <1> DEFINE l == Top(t).cache
             y == Top(t).type
             i == Winner(l, y)
  <1>1. Constructs(t) /\ stack[t] # <<>> /\ l # NoLifetime /\ Resolved(t, i)
    BY DEF BuildCached, Constructs
  <1>2. l \in Lifetimes /\ y \in Types
    BY <1>1, TopBelow DEF IInv, Sound, Frames
  <1>3. i \in Instances
    BY <1>1, <1>2, ConstructsInv DEF Winner, IInv, TypeOK
  <1>4. /\ StackInv' /\ stack' \in [Threads -> Seq(Frames)]
        /\ got' \in [Threads -> Instances \cup {0}] /\ given' \subseteq Resolutions
    BY <1>1, <1>3, ResolvedInv
  <1>5. cache' = [cache EXCEPT ![l][y] = i]
    BY DEF BuildCached, Winner
  <1>6. /\ cache'[l][y] = i /\ i # 0
        /\ \A k \in Lifetimes, z \in Types : k # l \/ z # y => cache'[k][z] = cache[k][z]
        /\ cache' \in [Lifetimes -> [Types -> Instances \cup {0}]]
    BY <1>2, <1>3, <1>5 DEF IInv, TypeOK, Instances
  <1>7. TypeOK'
    BY <1>1, <1>4, <1>6, ConstructsInv DEF BuildCached, IInv, TypeOK
  <1>8. CacheInv'
    <2>1. i \in 1..made' /\ home'[i] = l
      BY <1>1, <1>2, ConstructsInv DEF Winner, IInv, CacheInv, TypeOK
    <2> QED
      BY <1>1, <1>6, <2>1, ConstructsInv DEF IInv, CacheInv
  <1>9. given' = given \cup {[owner |-> l, type |-> y, instance |-> i,
                              when |-> IF use[l] = "open" THEN "before" ELSE "since"]}
    BY <1>1 DEF Resolved
  <1>10. GivenInv'
    <2>1. ASSUME NEW g \in given PROVE cache'[g.owner][g.type] = g.instance
      <3>1. /\ g.owner \in Lifetimes /\ g.type \in Types /\ g.instance # 0
            /\ cache[g.owner][g.type] = g.instance
        BY DEF IInv, TypeOK, Resolutions, Instances, GivenInv
      <3>2. CASE g.owner = l /\ g.type = y
        BY <1>6, <3>1, <3>2 DEF Winner
      <3> QED
        BY <1>6, <3>1, <3>2
    <2> QED
      BY <1>6, <1>9, <2>1 DEF GivenInv
  <1>11. DisposeInv'
    BY <1>1, <1>9, ConstructsInv DEF BuildCached, IInv, DisposeInv
  <1> QED
    BY <1>4, <1>7, <1>8, <1>10, <1>11 DEF IInv

-----------------------------------------------------------------------------
LEMMA DisposeInvs ==
  ASSUME IInv, NEW l \in Lifetimes, Dispose(l)
  PROVE  IInv'
  <1>1. use' = [use EXCEPT ![l] = "disposing"] /\ left' = [left EXCEPT ![l] = Cached(l)]
        /\ UNCHANGED <<cache, made, type, dep, home, stack, got, disposed, given>>
    BY DEF Dispose
  <1>2. Cached(l) \subseteq Instances
    BY DEF Cached
  <1>3. TypeOK'
    BY <1>1, <1>2, ContainerAssumption DEF IInv, TypeOK, Dispose
  <1>4. \A i \in Cached(l) : i \in 1..made /\ home[i] = l
    BY DEF Cached, Instances, IInv, CacheInv
  <1>5. \A g \in given : g.owner = l => g.instance \in Cached(l)
    BY DEF Cached, IInv, GivenInv, TypeOK, Resolutions
  <1>6. DisposeInv'
    BY <1>1, <1>4, <1>5 DEF IInv, TypeOK, DisposeInv, Resolutions
  <1> QED
    BY <1>1, <1>3, <1>6 DEF IInv, StackInv, CacheInv, GivenInv

LEMMA DisposeStepInv ==
  ASSUME IInv, NEW l \in Lifetimes, DisposeStep(l)
  PROVE  IInv'
  <1>1. UNCHANGED <<cache, made, type, dep, home, stack, got, calls, given>>
    BY DEF DisposeStep, DisposeInstance, DisposeReturns
  <1>2. TypeOK'
    BY <1>1 DEF IInv, TypeOK, DisposeStep, DisposeInstance, DisposeReturns
  <1>3. DisposeInv'
    <2>1. ASSUME NEW i \in left[l], use[l] = "disposing", disposed' = disposed \cup {i},
                 left' = [left EXCEPT ![l] = @ \ {i}], UNCHANGED use
          PROVE  DisposeInv'
      <3>1. i \in 1..made /\ home[i] = l /\ l # NoLifetime
        BY ContainerAssumption DEF IInv, DisposeInv
      <3> QED
        BY <1>1, <2>1, <3>1 DEF IInv, TypeOK, DisposeInv, Resolutions
    <2>2. ASSUME use[l] = "disposing", use' = [use EXCEPT ![l] = "threw"],
                 left' = [left EXCEPT ![l] = {}], UNCHANGED disposed
          PROVE  DisposeInv'
      BY <1>1, <2>2 DEF IInv, TypeOK, DisposeInv, Resolutions
    <2>3. CASE DisposeReturns(l)
      BY <2>3 DEF DisposeReturns, IInv, TypeOK, DisposeInv, Resolutions
    <2> QED
      BY <2>1, <2>2, <2>3 DEF DisposeStep, DisposeInstance
  <1> QED
    BY <1>1, <1>2, <1>3 DEF IInv, StackInv, CacheInv, GivenInv

LEMMA NextIInv == IInv /\ [Next]_vars => IInv'
  <1> SUFFICES ASSUME IInv, [Next]_vars PROVE IInv'
    OBVIOUS
  <1>1. CASE UNCHANGED vars
    BY <1>1 DEF vars, IInv, TypeOK, StackInv, CacheInv, GivenInv, DisposeInv
  <1>2. ASSUME NEW t \in Threads, ResolveStep(t)
        PROVE  IInv'
    BY <1>2, LookFindsInv, LookMissesInv, BuildArgumentInv, BuildTransientInv,
       BuildCachedInv, BuildThrowsInv DEF ResolveStep
  <1> QED
    BY <1>1, <1>2, GetServiceInv, DisposeInvs, DisposeStepInv DEF Next, Rest

LEMMA IInvHolds == Spec => []IInv
  BY InitIInv, NextIInv, PTL DEF Spec

-----------------------------------------------------------------------------
(* TypeOK: in every behaviour the state of a container and its scopes has  *)
(* its type.                                                               *)
THEOREM TypeCorrect == Spec => []TypeOK
  BY IInvHolds, PTL DEF IInv

(* OneInstance: GetOrAdd runs the factory without a lock, so that several  *)
(* threads may construct the service, but all get the one that was added.  *)
THEOREM CacheDecides == Spec => []OneInstance
  <1>1. IInv => OneInstance
    BY DEF IInv, GivenInv, OneInstance
  <1> QED
    BY <1>1, IInvHolds, PTL

(* OwnersDispose: when Dispose has returned without an exception, what the *)
(* lifetime had given before is disposed, and nothing else is.             *)
THEOREM DisposedWithOwner == Spec => []OwnersDispose
  <1>1. IInv => OwnersDispose
    BY DEF IInv, DisposeInv, OwnersDispose
  <1> QED
    BY <1>1, IInvHolds, PTL

-----------------------------------------------------------------------------
(* What an instance holds.  Held is a recursive function: that it exists   *)
(* follows from the least number principle, as instances only hold ones    *)
(* made before them.                                                       *)
Less == {p \in Nat \X Nat : p[1] < p[2]}

LEMMA LeastNumber ==
  ASSUME NEW T, T \subseteq Nat, T # {}
  PROVE  \E x \in T : \A y \in T : x <= y
  <1>1. IsWellFoundedOn(Less, Nat)
    BY NatLessThanWellFounded, Zenon DEF OpToRel, Less
  <1>2. PICK x \in T : \A y \in T : <<y, x>> \notin Less
    BY <1>1, WFMin
  <1>3. ASSUME NEW y \in T PROVE x <= y
    <2>1. x \in Nat /\ y \in Nat /\ ~(y < x)
      BY <1>2 DEF Less
    <2> QED
      BY <2>1
  <1> QED
    BY <1>3

Backward == dep \in [Instances -> Instances \cup {0}] /\ \A i \in Instances : dep[i] < i

HeldWith(f, i) == IF i = 0 \/ dep[i] = 0 THEN {} ELSE {dep[i]} \cup f[dep[i]]

LEMMA HeldExists ==
  ASSUME Backward
  PROVE  \E f : f = [i \in 0..MaxMade |-> HeldWith(f, i)]
  <1> DEFINE Good == {n \in 0..MaxMade : \E f : f = [i \in 0..n |-> HeldWith(f, i)]}
             Bad  == (0..MaxMade) \ Good
  <1>1. MaxMade \in Nat
    BY ContainerAssumption
  <1>2. Bad = {}
    <2> SUFFICES ASSUME Bad # {} PROVE FALSE
      OBVIOUS
    <2>1. PICK n \in Bad : \A m \in Bad : n <= m
      <3>1. Bad \subseteq Nat
        BY <1>1
      <3> HIDE DEF Bad
      <3> QED
        BY <3>1, LeastNumber
    <2>2. n \in 0..MaxMade /\ ~\E f : f = [i \in 0..n |-> HeldWith(f, i)]
      BY <2>1
    <2>3. CASE n = 0
      <3> DEFINE f == [i \in 0..0 |-> {}]
      <3>1. f = [i \in 0..0 |-> HeldWith(f, i)]
        BY DEF HeldWith
      <3> QED
        BY <2>2, <2>3, <3>1
    <2>4. CASE n # 0
      <3>1. n - 1 \in Good
        BY <1>1, <2>1, <2>2, <2>4
      <3>2. PICK g : g = [i \in 0..(n - 1) |-> HeldWith(g, i)]
        BY <3>1
      <3> DEFINE f == [i \in 0..n |-> IF i = n THEN HeldWith(g, n) ELSE g[i]]
      <3>3. ASSUME NEW i \in 0..n PROVE f[i] = HeldWith(f, i)
        <4>1. i # 0 /\ dep[i] # 0 => dep[i] \in 0..(n - 1) /\ f[dep[i]] = g[dep[i]]
          BY <1>1, <2>2 DEF Backward, Instances
        <4>2. f[i] = HeldWith(g, i)
          <5>1. CASE i = n
            BY <5>1
          <5>2. CASE i # n
            <6>1. i \in 0..(n - 1)
              BY <2>2, <5>2
            <6> QED
              BY <3>2, <5>2, <6>1
          <5> QED
            BY <5>1, <5>2
        <4> QED
          BY <4>1, <4>2 DEF HeldWith
      <3>4. f = [i \in 0..n |-> HeldWith(f, i)]
        BY <3>3
      <3> QED
        BY <2>2, <3>4
    <2> QED
      BY <2>3, <2>4
  <1> QED
    BY <1>1, <1>2

LEMMA HeldDef ==
  ASSUME Backward, NEW i \in Instances
  PROVE  Held[i] = IF dep[i] = 0 THEN {} ELSE {dep[i]} \cup Held[dep[i]]
  <1>1. PICK f : f = [j \in 0..MaxMade |-> HeldWith(f, j)]
    BY HeldExists
  <1>2. Held = [j \in 0..MaxMade |->
                  IF j = 0 \/ dep[j] = 0 THEN {} ELSE {dep[j]} \cup Held[dep[j]]]
    BY <1>1 DEF Held, HeldWith
  <1>3. i \in 0..MaxMade /\ i # 0
    BY ContainerAssumption DEF Instances
  <1> QED
    BY <1>2, <1>3

-----------------------------------------------------------------------------
(* Captives.  Every instance has an origin, the lifetime its factory was   *)
(* called with: its home if it has one; what it was given comes from the   *)
(* same origin or from the container.                                      *)
Chain(s) ==
    /\ \A n \in 1..Len(s) : s[n].cache \in {NoLifetime, s[n].from}
    /\ \A n \in 1..(Len(s) - 1) : s[n + 1].from \in {s[n].from, Root}

(* A thread that is about to run a constructor has got the argument.       *)
ArgumentFits(o, s, i) ==
    s # <<>> /\ s[Len(s)].at = "add" /\ i # 0
        => i \in 1..made /\ o[i] \in {s[Len(s)].from, Root}

OriginInv(o) ==
    /\ \A i \in 1..made : home[i] # NoLifetime => o[i] = home[i]
    /\ \A i \in 1..made : dep[i] # 0 => dep[i] \in 1..(i - 1) /\ o[dep[i]] \in {o[i], Root}
    /\ \A i \in Instances : i > made => dep[i] = 0
    /\ \A t \in Threads : Chain(stack[t]) /\ ArgumentFits(o, stack[t], got[t])

Origins == [Instances -> Lifetimes]

CaptiveInv == \E o \in Origins : OriginInv(o)

LEMMA FirstOnes ==
  ASSUME NEW S, NEW s \in Seq(S), NEW k \in Nat, k < Len(s)
  PROVE  Len(SubSeq(s, 1, k)) = k /\ \A n \in 1..k : SubSeq(s, 1, k)[n] = s[n]
  <1>1. \A n \in 1..k : s[n] \in S
    BY ElementOfSeq, LenProperties
  <1>2. /\ Len(SubSeq(s, 1, k)) = IF 1 <= k THEN k - 1 + 1 ELSE 0
        /\ \A n \in 1..(k - 1 + 1) : SubSeq(s, 1, k)[n] = s[1 + n - 1]
    BY <1>1, SubSeqProperties
  <1>3. k - 1 + 1 = k /\ \A n \in 1..k : 1 + n - 1 = n
    OBVIOUS
  <1> QED
    BY <1>2, <1>3

LEMMA ChainPop ==
  ASSUME NEW s \in Seq(Frames), s # <<>>, Chain(s)
  PROVE  LET b == SubSeq(s, 1, Len(s) - 1)
         IN  Chain(b) /\ (b # <<>> => s[Len(s)].from \in {b[Len(b)].from, Root})
  <1> DEFINE b == SubSeq(s, 1, Len(s) - 1)
  <1>1. Len(s) \in Nat \ {0}
    BY EmptySeq
  <1>2. Len(b) = Len(s) - 1 /\ \A n \in 1..(Len(s) - 1) : b[n] = s[n]
    <2>1. PICK k \in Nat : k = Len(s) - 1
      BY <1>1
    <2> QED
      BY <2>1, FirstOnes
  <1>3. Chain(b)
    BY <1>1, <1>2 DEF Chain
  <1>4. ASSUME b # <<>> PROVE s[Len(s)].from \in {b[Len(b)].from, Root}
    <2>1. Len(s) - 1 \in 1..(Len(s) - 1)
      BY <1>1, <1>2, <1>4
    <2>2. s[(Len(s) - 1) + 1].from \in {s[Len(s) - 1].from, Root}
      BY <2>1 DEF Chain
    <2> QED
      BY <1>1, <1>2, <2>1, <2>2
  <1> QED
    BY <1>3, <1>4

LEMMA ChainPush ==
  ASSUME NEW s \in Seq(Frames), NEW f \in Frames, Chain(s), f.cache \in {NoLifetime, f.from},
         s # <<>> => f.from \in {s[Len(s)].from, Root}
  PROVE  LET a == Append(s, f)
         IN  Chain(a) /\ a # <<>> /\ a[Len(a)] = f
  <1> DEFINE a == Append(s, f)
  <1>1. Len(s) \in Nat /\ (s # <<>> => Len(s) # 0)
    BY EmptySeq
  <1>2. /\ Len(a) = Len(s) + 1 /\ a[Len(s) + 1] = f
        /\ \A n \in 1..Len(s) : a[n] = s[n]
    BY <1>1, AppendProperties
  <1>3. a # <<>>
    BY <1>1, <1>2
  <1>4. \A n \in 1..Len(a) : a[n].cache \in {NoLifetime, a[n].from}
    BY <1>1, <1>2 DEF Chain
  <1>5. ASSUME NEW n \in 1..(Len(a) - 1) PROVE a[n + 1].from \in {a[n].from, Root}
    <2>1. CASE n = Len(s)
      <3>1. s # <<>> /\ n \in 1..Len(s)
        BY <1>1, <1>2, <2>1
      <3> QED
        BY <1>2, <2>1, <3>1
    <2>2. CASE n # Len(s)
      <3>1. n \in 1..(Len(s) - 1) /\ n + 1 \in 1..Len(s) /\ n \in 1..Len(s)
        BY <1>1, <1>2, <2>2
      <3> QED
        BY <1>2, <3>1 DEF Chain
    <2> QED
      BY <2>1, <2>2
  <1> QED
    BY <1>2, <1>3, <1>4, <1>5 DEF Chain

LEMMA FrameForFits ==
  ASSUME NEW y \in Types, NEW l \in Lifetimes
  PROVE  LET f == FrameFor(y, l)
         IN  /\ f \in Frames /\ f.at # "add"
             /\ f.cache \in {NoLifetime, f.from} /\ f.from \in {l, Root}
  <1>1. Lives[y] \in {"transient", "singleton", "perScope"}
    BY ContainerAssumption
  <1>2. /\ CacheFor(y, l) \in {NoLifetime, FactoryLifetime(y, l)}
        /\ FactoryLifetime(y, l) \in {l, Root}
    BY <1>1 DEF CacheFor, FactoryLifetime
  <1>3. FrameFor(y, l) \in Frames
    BY FrameForSound DEF Sound
  <1> QED
    BY <1>2, <1>3 DEF FrameFor

(* The stack of thread t, which is not empty, its top and what is below.   *)
LEMMA TopChain ==
  ASSUME IInv, NEW o, OriginInv(o), NEW t \in Threads, stack[t] # <<>>
  PROVE  /\ Top(t) \in Frames /\ Below(t) \in Seq(Frames)
         /\ Top(t).cache \in {NoLifetime, Top(t).from}
         /\ Chain(Below(t))
         /\ Below(t) # <<>> => Top(t).from \in {Below(t)[Len(Below(t))].from, Root}
  <1>1. stack[t] \in Seq(Frames) /\ Chain(stack[t])
    BY DEF IInv, TypeOK, OriginInv
  <1>2. Top(t) \in Frames /\ Below(t) \in Seq(Frames)
    BY <1>1, PopFrames DEF Top, Below
  <1>3. Top(t).cache \in {NoLifetime, Top(t).from}
    <2>1. Len(stack[t]) \in 1..Len(stack[t])
      BY <1>1, EmptySeq
    <2> QED
      BY <1>1, <2>1 DEF Chain, Top
  <1> QED
    BY <1>1, <1>2, <1>3, ChainPop DEF Top, Below

(* What the thread on top got fits the frame below it.                     *)
LEMMA Popped ==
  ASSUME IInv, NEW o, OriginInv(o), NEW t \in Threads, stack[t] # <<>>,
         NEW i \in 1..made, o[i] \in {Top(t).from, Root}
  PROVE  ArgumentFits(o, Below(t), i)
  BY TopChain DEF ArgumentFits

-----------------------------------------------------------------------------
LEMMA OriginMoves ==
  ASSUME IInv, NEW o, OriginInv(o), NEW t \in Threads, NEW s, stack' = [stack EXCEPT ![t] = s],
         Chain(s), ArgumentFits(o, s, got'[t]), \A u \in Threads \ {t} : got'[u] = got[u],
         UNCHANGED <<made, dep, home>>
  PROVE  OriginInv(o)'
  <1>1. \A u \in Threads : stack'[u] = IF u = t THEN s ELSE stack[u]
    BY DEF IInv, TypeOK
  <1>2. \A u \in Threads : Chain(stack'[u]) /\ ArgumentFits(o, stack'[u], got'[u])
    BY <1>1 DEF OriginInv
  <1> QED
    BY <1>2 DEF OriginInv, ArgumentFits

LEMMA EmptyChain == Chain(<<>>)
  BY DEF Chain

(* A thread gets an instance of the cache its top frame looks into.        *)
LEMMA LookFindsOrigin ==
  ASSUME IInv, NEW o, OriginInv(o), NEW t \in Threads, LookFinds(t)
  PROVE  OriginInv(o)'
  <1> DEFINE i == cache[Top(t).cache][Top(t).type]
  <1>1. /\ stack[t] # <<>> /\ i # 0 /\ Top(t).at = "look"
        /\ stack' = [stack EXCEPT ![t] = Below(t)] /\ got' = [got EXCEPT ![t] = i]
        /\ UNCHANGED <<made, dep, home>>
    BY DEF LookFinds, Resolved
  <1>2. Top(t) \in Sound
    BY <1>1, TopBelow DEF IInv
  <1>3. Top(t).cache \in Lifetimes /\ Top(t).type \in Types /\ Top(t).cache # NoLifetime
    BY <1>1, <1>2 DEF Sound, Frames
  <1>4. i \in 1..made /\ home[i] = Top(t).cache
    BY <1>1, <1>3 DEF IInv, CacheInv
  <1>5. o[i] = Top(t).from
    BY <1>1, <1>3, <1>4, TopChain DEF OriginInv
  <1>6. got'[t] = i /\ \A u \in Threads \ {t} : got'[u] = got[u]
    BY <1>1 DEF IInv, TypeOK
  <1> QED
    BY <1>1, <1>4, <1>5, <1>6, TopChain, Popped, OriginMoves

(* Steps that only start a call or move on in one.                         *)
LEMMA CallOrigin ==
  ASSUME IInv, NEW o, OriginInv(o), NEW t \in Threads,
         \/ \E y \in Types, l \in Lifetimes : GetService(t, y, l)
         \/ LookMisses(t) \/ BuildArgument(t) \/ BuildThrows(t)
  PROVE  OriginInv(o)'
  <1>1. ASSUME NEW y \in Types, NEW l \in Lifetimes, GetService(t, y, l)
        PROVE  OriginInv(o)'
    <2>1. Chain(<<FrameFor(y, l)>>)
      BY FrameForFits DEF Chain
    <2>2. got'[t] = 0 /\ \A u \in Threads \ {t} : got'[u] = got[u]
      BY <1>1 DEF GetService, IInv, TypeOK
    <2>3. ArgumentFits(o, <<FrameFor(y, l)>>, got'[t])
      BY <2>2 DEF ArgumentFits
    <2> QED
      BY <1>1, <2>1, <2>2, <2>3, OriginMoves DEF GetService
  <1>2. CASE LookMisses(t)
    <2> DEFINE f == [Top(t) EXCEPT !.at = "build"]
               s == Append(Below(t), f)
    <2>1. /\ stack[t] # <<>> /\ stack' = [stack EXCEPT ![t] = s]
          /\ UNCHANGED <<got, made, dep, home>>
      BY <1>2 DEF LookMisses
    <2>2. f \in Frames /\ f.at = "build" /\ f.from = Top(t).from /\ f.cache = Top(t).cache
      BY <2>1, TopChain DEF Frames
    <2>3. Chain(s) /\ s # <<>> /\ s[Len(s)] = f
      BY <2>1, <2>2, TopChain, ChainPush
    <2>4. ArgumentFits(o, s, got'[t])
      BY <2>2, <2>3 DEF ArgumentFits
    <2> QED
      BY <2>1, <2>3, <2>4, OriginMoves
  <1>3. CASE BuildArgument(t)
    <2> DEFINE f == [Top(t) EXCEPT !.at = "add"]
               g == FrameFor(Dep[Top(t).type], Top(t).from)
               r == Append(Below(t), f)
               s == Append(r, g)
    <2>1. /\ stack[t] # <<>> /\ Dep[Top(t).type] \in Types
          /\ stack' = [stack EXCEPT ![t] = s]
          /\ UNCHANGED <<got, made, dep, home>>
      BY <1>3 DEF BuildArgument
    <2>2. f \in Frames /\ f.from = Top(t).from /\ f.cache = Top(t).cache
      BY <2>1, TopChain DEF Frames
    <2>3. Chain(r) /\ r # <<>> /\ r[Len(r)] = f /\ r \in Seq(Frames)
      BY <2>1, <2>2, TopChain, ChainPush, PushFrame
    <2>4. Top(t).from \in Lifetimes
      BY <2>1, TopChain DEF Frames
    <2>5. /\ g \in Frames /\ g.at # "add"
          /\ g.cache \in {NoLifetime, g.from} /\ g.from \in {f.from, Root}
      BY <2>1, <2>2, <2>4, FrameForFits
    <2> HIDE DEF f, g, r
    <2>6. Chain(s) /\ s # <<>> /\ s[Len(s)] = g
      BY <2>3, <2>5, ChainPush
    <2>7. ArgumentFits(o, s, got'[t])
      BY <2>5, <2>6 DEF ArgumentFits
    <2> HIDE DEF s
    <2> QED
      BY <2>1, <2>6, <2>7, OriginMoves
  <1>4. CASE BuildThrows(t)
    <2>1. got'[t] = 0 /\ \A u \in Threads \ {t} : got'[u] = got[u]
      BY <1>4 DEF BuildThrows, IInv, TypeOK
    <2>2. ArgumentFits(o, <<>>, got'[t])
      BY DEF ArgumentFits
    <2> QED
      BY <1>4, <2>1, <2>2, EmptyChain, OriginMoves DEF BuildThrows
  <1> QED
    BY <1>1, <1>2, <1>3, <1>4

(* The new instance has the origin of the frame that made it, and that of  *)
(* its argument fits.                                                      *)
LEMMA BuildOrigin ==
  ASSUME IInv, NEW o \in Origins, OriginInv(o), NEW t \in Threads,
         BuildTransient(t) \/ BuildCached(t)
  PROVE  CaptiveInv'
  <1>1. Constructs(t) /\ stack[t] # <<>>
    BY DEF BuildTransient, BuildCached, Constructs
  <1>2. /\ Top(t) \in Frames /\ Top(t).from \in Lifetimes /\ Top(t).type \in Types
        /\ Top(t).cache \in {NoLifetime, Top(t).from}
        /\ Chain(Below(t))
    BY <1>1, TopChain DEF Frames
  <1>3. PICK p \in Origins : p = [o EXCEPT ![made + 1] = Top(t).from]
    BY <1>2 DEF Origins
  <1>4. /\ made + 1 \in Instances /\ made' = made + 1 /\ made \in Nat
        /\ 1..made \subseteq Instances
    <2>1. made \in 0..MaxMade /\ MaxMade \in Nat
      BY ContainerAssumption DEF IInv, TypeOK
    <2> QED
      BY <1>1, <2>1, ConstructsInv DEF Instances
  <1>5. p[made + 1] = Top(t).from /\ \A i \in 1..made : p[i] = o[i]
    BY <1>3, <1>4 DEF Origins
  <1>6. /\ home'[made + 1] = Top(t).cache
        /\ \A i \in 1..made : home'[i] = home[i]
    BY <1>1, ConstructsInv
  <1>7. /\ dep'[made + 1] = IF Top(t).at = "add" THEN got[t] ELSE 0
        /\ \A i \in Instances \ {made + 1} : dep'[i] = dep[i]
    <2>1. dep' = [dep EXCEPT ![made + 1] = IF Top(t).at = "add" THEN got[t] ELSE 0]
      BY <1>1 DEF Constructs
    <2>2. dep \in [Instances -> Instances \cup {0}]
      BY DEF IInv, TypeOK
    <2> QED
      BY <1>4, <2>1, <2>2
  <1>8. dep'[made + 1] # 0
           => dep'[made + 1] \in 1..made /\ o[dep'[made + 1]] \in {Top(t).from, Root}
    <2>1. ArgumentFits(o, stack[t], got[t])
      BY DEF OriginInv
    <2>2. Top(t).at = "add" /\ got[t] # 0
             => got[t] \in 1..made /\ o[got[t]] \in {Top(t).from, Root}
      BY <1>1, <2>1 DEF ArgumentFits, Top
    <2> QED
      BY <1>7, <2>2
  <1>9. \A i \in 1..made' : i = made + 1 \/ i \in 1..made
    BY <1>4
  <1>10. \A i \in 1..made' : home'[i] # NoLifetime => p[i] = home'[i]
    BY <1>2, <1>5, <1>6, <1>9 DEF OriginInv
  <1>11. \A i \in 1..made' : dep'[i] # 0 => dep'[i] \in 1..(i - 1) /\ p[dep'[i]] \in {p[i], Root}
    <2>1. ASSUME NEW i \in 1..made, dep'[i] # 0
          PROVE  dep'[i] \in 1..(i - 1) /\ p[dep'[i]] \in {p[i], Root}
      <3>1. dep'[i] = dep[i]
        <4>1. i \in Instances \ {made + 1}
          BY <1>4
        <4> QED
          BY <1>7, <4>1
      <3>2. dep[i] \in 1..(i - 1) /\ o[dep[i]] \in {o[i], Root}
        BY <2>1, <3>1 DEF OriginInv
      <3>3. dep[i] \in 1..made
        BY <1>4, <3>2
      <3> QED
        BY <1>5, <3>1, <3>2, <3>3
    <2>2. dep'[made + 1] # 0
             => dep'[made + 1] \in 1..((made + 1) - 1) /\ p[dep'[made + 1]] \in {p[made + 1], Root}
      BY <1>4, <1>5, <1>8
    <2> QED
      BY <1>9, <2>1, <2>2
  <1>12. \A i \in Instances : i > made' => dep'[i] = 0
    <2>1. ASSUME NEW i \in Instances, i > made' PROVE dep'[i] = 0
      <3>1. i > made /\ i \in Instances \ {made + 1}
        BY <1>4, <2>1 DEF Instances
      <3> QED
        BY <1>7, <3>1 DEF OriginInv
    <2> QED
      BY <2>1
  <1>13. \A u \in Threads : Chain(stack'[u])
    BY <1>2 DEF BuildTransient, BuildCached, Resolved, IInv, TypeOK, OriginInv
  <1>14. got'[t] \in 1..made' /\ p[got'[t]] \in {Top(t).from, Root}
    <2>1. CASE BuildTransient(t)
      BY <1>4, <1>5, <2>1 DEF BuildTransient, IInv, TypeOK
    <2>2. CASE BuildCached(t)
      <3> DEFINE l == Top(t).cache
                 y == Top(t).type
      <3>1. l # NoLifetime /\ l \in Lifetimes /\ y \in Types
        BY <1>2, <2>2 DEF BuildCached
      <3>2. got'[t] = Winner(l, y)
        BY <2>2 DEF BuildCached, Resolved, IInv, TypeOK
      <3>3. CASE cache[l][y] = 0
        BY <1>4, <1>5, <3>2, <3>3 DEF Winner
      <3>4. CASE cache[l][y] # 0
        <4>1. cache[l][y] \in 1..made /\ home[cache[l][y]] = l
          BY <3>1, <3>4 DEF IInv, CacheInv
        <4>2. o[cache[l][y]] = Top(t).from
          BY <1>2, <3>1, <4>1 DEF OriginInv
        <4> QED
          BY <1>4, <1>5, <3>2, <3>4, <4>1, <4>2 DEF Winner
      <3> QED
        BY <3>3, <3>4
    <2> QED
      BY <2>1, <2>2
  <1>15. ASSUME NEW u \in Threads PROVE ArgumentFits(p, stack[u], got[u])'
    <2>1. CASE u = t
      <3>1. stack'[t] = Below(t)
        BY DEF BuildTransient, BuildCached, Resolved, IInv, TypeOK
      <3>2. Below(t) # <<>> => p[got'[t]] \in {Below(t)[Len(Below(t))].from, Root}
        BY <1>1, <1>14, TopChain
      <3> QED
        BY <1>14, <2>1, <3>1, <3>2 DEF ArgumentFits
    <2>2. CASE u # t
      <3>1. stack'[u] = stack[u] /\ got'[u] = got[u]
        BY <2>2 DEF BuildTransient, BuildCached, Resolved, IInv, TypeOK
      <3>2. ArgumentFits(o, stack[u], got[u])
        BY DEF OriginInv
      <3> QED
        BY <1>4, <1>5, <3>1, <3>2 DEF ArgumentFits
    <2> QED
      BY <2>1, <2>2
  <1>16. OriginInv(p)'
    BY <1>10, <1>11, <1>12, <1>13, <1>15 DEF OriginInv
  <1> QED
    BY <1>16 DEF CaptiveInv

LEMMA NextCaptive == IInv /\ CaptiveInv /\ [Next]_vars => CaptiveInv'
  <1> SUFFICES ASSUME IInv, CaptiveInv, [Next]_vars PROVE CaptiveInv'
    OBVIOUS
  <1>1. PICK o \in Origins : OriginInv(o)
    BY DEF CaptiveInv
  <1>2. ASSUME UNCHANGED <<made, dep, home, stack, got>> PROVE CaptiveInv'
    <2>1. OriginInv(o)'
      BY <1>1, <1>2 DEF OriginInv, ArgumentFits
    <2> QED
      BY <2>1 DEF CaptiveInv
  <1>3. ASSUME NEW l \in Lifetimes, Dispose(l) \/ DisposeStep(l) PROVE CaptiveInv'
    BY <1>2, <1>3 DEF Dispose, DisposeStep, DisposeInstance, DisposeReturns
  <1>4. CASE UNCHANGED vars
    BY <1>2, <1>4 DEF vars
  <1>5. ASSUME NEW t \in Threads,
               ResolveStep(t) \/ \E y \in Types, l \in Lifetimes : GetService(t, y, l)
        PROVE  CaptiveInv'
    <2>1. CASE BuildTransient(t) \/ BuildCached(t)
      BY <1>1, <2>1, BuildOrigin
    <2>2. CASE ~(BuildTransient(t) \/ BuildCached(t))
      <3>1. OriginInv(o)'
        BY <1>1, <1>5, <2>2, LookFindsOrigin, CallOrigin DEF ResolveStep
      <3> QED
        BY <3>1 DEF CaptiveInv
    <2> QED
      BY <2>1, <2>2
  <1> QED
    BY <1>3, <1>4, <1>5 DEF Next, Rest

LEMMA InitCaptive == Init => CaptiveInv
  <1> SUFFICES ASSUME Init PROVE CaptiveInv
    OBVIOUS
  <1>1. PICK o \in Origins : o = [i \in Instances |-> Root]
    BY DEF Origins, Lifetimes
  <1>2. OriginInv(o)
    BY EmptyChain, ContainerAssumption DEF Init, OriginInv, ArgumentFits, Instances
  <1> QED
    BY <1>2 DEF CaptiveInv

(* What is held, directly or not, comes from the holder's origin or from   *)
(* the container: shown of the first instance that would not be so.        *)
LEMMA HeldOrigin ==
  ASSUME TypeOK, NEW o, OriginInv(o)
  PROVE  \A i \in 1..made : \A d \in Held[i] : d \in 1..made /\ o[d] \in {o[i], Root}
  <1> DEFINE Bad == {i \in 1..made : ~\A d \in Held[i] : d \in 1..made /\ o[d] \in {o[i], Root}}
  <1>1. made \in Nat /\ 1..made \subseteq Instances
    BY ContainerAssumption DEF TypeOK, Instances
  <1>2. Backward
    <2>1. ASSUME NEW i \in Instances PROVE dep[i] < i
      <3>1. CASE dep[i] = 0
        BY <3>1 DEF Instances
      <3>2. CASE dep[i] # 0
        <4>1. i \in 1..made
          BY <1>1, <3>2 DEF OriginInv, Instances
        <4> QED
          BY <1>1, <3>2, <4>1 DEF OriginInv
      <3> QED
        BY <3>1, <3>2
    <2> QED
      BY <2>1 DEF Backward, TypeOK
  <1>3. SUFFICES ASSUME Bad # {} PROVE FALSE
    OBVIOUS
  <1>4. PICK i \in Bad : \A j \in Bad : i <= j
    <2>1. Bad \subseteq Nat
      BY <1>1
    <2> HIDE DEF Bad
    <2> QED
      BY <1>3, <2>1, LeastNumber
  <1>5. i \in 1..made /\ i \in Instances
    BY <1>1, <1>4
  <1>6. Held[i] = IF dep[i] = 0 THEN {} ELSE {dep[i]} \cup Held[dep[i]]
    BY <1>2, <1>5, HeldDef
  <1>7. dep[i] # 0
    BY <1>4, <1>6
  <1>8. dep[i] \in 1..(i - 1) /\ o[dep[i]] \in {o[i], Root}
    BY <1>5, <1>7 DEF OriginInv
  <1>9. dep[i] \in 1..made /\ dep[i] \notin Bad
    BY <1>1, <1>4, <1>5, <1>8
  <1>10. \A d \in Held[dep[i]] : d \in 1..made /\ o[d] \in {o[dep[i]], Root}
    BY <1>9
  <1>11. \A d \in Held[i] : d \in 1..made /\ o[d] \in {o[i], Root}
    BY <1>6, <1>7, <1>8, <1>9, <1>10
  <1> QED
    BY <1>4, <1>11

(* NoCaptive: a factory goes on with the lifetime that caches the service, *)
(* so nothing the container or a scope keeps holds, through any chain of   *)
(* constructor arguments, an instance of a scope that is not its own.      *)
THEOREM NothingIsCaptive == Spec => []NoCaptive
  <1>1. IInv /\ CaptiveInv => NoCaptive
    <2> SUFFICES ASSUME IInv, CaptiveInv, NEW i \in 1..made, home[i] # NoLifetime,
                        NEW d \in Held[i], home[d] \in Scopes
                 PROVE  home[d] = home[i]
      BY DEF NoCaptive
    <2>1. PICK o \in Origins : OriginInv(o)
      BY DEF CaptiveInv
    <2>2. d \in 1..made /\ o[d] \in {o[i], Root}
      BY <2>1, HeldOrigin DEF IInv
    <2>3. home[d] # NoLifetime /\ home[d] # Root
      BY ContainerAssumption DEF Lifetimes
    <2> QED
      BY <2>1, <2>2, <2>3 DEF OriginInv
  <1> QED
    BY InitCaptive, NextCaptive, IInvHolds, <1>1, PTL DEF Spec
=============================================================================

------------------------ MODULE PthreadBridgeProofs ------------------------
(* Theorems about PthreadBridge, for any processes, threads, functions,    *)
(* kinds of mutexes and depth of calls.                                    *)
EXTENDS PthreadBridge, TLAPS

\* What the invariant says of one call that is not resolving.
CallOK(c) ==
    /\ c.pc \in {"load", "takeover", "claim"} => c.sought = 0
    /\ c.pc \in {"type", "kind", "cas", "clear", "native"} => resolver_status.state = "ready"
    /\ c.pc = "takeover" => c.seen.state = "running" /\ c.seen.pid # self
    /\ c.pc \in {"type", "kind", "cas", "clear"} => c.mutex
    /\ c.pc = "cas" => c.kind = static /\ static \in Convertible
    /\ c.pc = "clear" => type = static
    /\ c.pc = "native" /\ c.mutex => type = static

----------------------------------------------------------------------------
\* A call begins in a thread that may be in one more.
LEMMA NoCallType == NoCall \in Calls
BY BridgeAssumption, PidsAssumption
   DEF NoCall, Calls, BridgeLabels, Uninitialized, Status, Statuses

\* An innermost call has a level and its type.
LEMMA InnermostType ==
    ASSUME BridgeTypeOK, NEW t \in Threads, NEW label, At(t, label)
    PROVE  /\ depth[t] \in Levels /\ Innermost(t) \in Calls
           /\ Innermost(t) = calls[t][depth[t]] /\ Innermost(t).pc = label
BY BridgeAssumption, PidsAssumption DEF BridgeTypeOK, At, Innermost, Levels

\* Every step keeps the types.
LEMMA TypeInductive == BridgeTypeOK /\ [BridgeNext]_bridgeVars => BridgeTypeOK'
<1> SUFFICES ASSUME BridgeTypeOK, [BridgeNext]_bridgeVars PROVE BridgeTypeOK'
  OBVIOUS
<1> USE BridgeAssumption, PidsAssumption
<1>1. ASSUME NEW t \in Threads, NEW label, At(t, label), NEW c \in Calls, Becomes(t, c)
      PROVE  /\ calls' \in [Threads -> [Levels -> Calls]]
             /\ depth' \in [Threads -> 0..MaxDepth]
  BY <1>1, InnermostType DEF BridgeTypeOK, Becomes
<1>2. ASSUME NEW t \in Threads, NEW label, At(t, label), NEW to \in BridgeLabels, GoTo(t, to)
      PROVE  /\ calls' \in [Threads -> [Levels -> Calls]]
             /\ depth' \in [Threads -> 0..MaxDepth]
  <2>1. [Innermost(t) EXCEPT !.pc = to] \in Calls
    BY <1>2, InnermostType DEF Calls
  <2> QED
    BY <1>1, <1>2, <2>1 DEF GoTo
<1>3. ASSUME NEW t \in Threads, NEW label, At(t, label), BridgeReturn(t)
      PROVE  /\ calls' \in [Threads -> [Levels -> Calls]]
             /\ depth' \in [Threads -> 0..MaxDepth]
  BY <1>3, InnermostType, NoCallType DEF BridgeTypeOK, BridgeReturn, Levels
<1>4. ASSUME NEW t \in Threads, NEW mutex \in BOOLEAN, Begin(t, mutex)
      PROVE  BridgeTypeOK'
  <2>1. [NoCall EXCEPT !.pc = "load", !.mutex = mutex] \in Calls
    BY NoCallType DEF Calls, BridgeLabels
  <2>2. depth[t] + 1 \in Levels
    BY <1>4 DEF Begin, BridgeTypeOK, Levels
  <2> QED
    BY <1>4, <2>1, <2>2 DEF Begin, BridgeTypeOK, process, bridgeMemory, fixed, Levels
<1>5. ASSUME NEW t \in Threads, Proceed(t) \/ Retry(t), NEW label, At(t, label)
      PROVE  /\ calls' \in [Threads -> [Levels -> Calls]]
             /\ depth' \in [Threads -> 0..MaxDepth]
  <2>1. PICK to \in {"type", "native", "load"} :
          Becomes(t, [NoCall EXCEPT !.pc = to, !.mutex = Innermost(t).mutex])
    BY <1>5 DEF Proceed, Retry
  <2>2. [NoCall EXCEPT !.pc = to, !.mutex = Innermost(t).mutex] \in Calls
    BY <1>5, InnermostType, NoCallType DEF Calls, BridgeLabels
  <2> QED
    BY <1>1, <1>5, <2>1, <2>2
<1>6. ASSUME NEW t \in Threads, BridgeStep(t) PROVE BridgeTypeOK'
  <2>1. CASE LoadReady(t)
    BY <2>1, <1>5 DEF LoadReady, BridgeTypeOK, process, bridgeMemory, fixed
  <2>2. CASE LoadFailed(t)
    BY <2>2, <1>3 DEF LoadFailed, BridgeTypeOK, process, bridgeMemory, fixed
  <2>3. CASE LoadReentered(t)
    BY <2>3, <1>3 DEF LoadReentered, BridgeTypeOK, process, bridgeMemory, fixed
  <2>4. CASE LoadForeign(t)
    <3>1. Innermost(t) \in Calls
      BY <2>4, InnermostType DEF LoadForeign
    <3>2. [Innermost(t) EXCEPT !.pc = "takeover", !.seen = resolver_status] \in Calls
      BY <3>1 DEF Calls, BridgeLabels, BridgeTypeOK
    <3> QED
      BY <2>4, <3>2, <1>1 DEF LoadForeign, BridgeTypeOK, process, bridgeMemory, fixed
  <2>5. CASE LoadUninitialized(t)
    BY <2>5, <1>2
       DEF LoadUninitialized, BridgeLabels, BridgeTypeOK, process, bridgeMemory, fixed
  <2>6. CASE Takeover(t)
    BY <2>6, <1>5 DEF Takeover, BridgeTypeOK, process, fixed, Statuses, Uninitialized, Status
  <2>7. CASE Claim(t)
    <3>1. CASE ClaimWins(t)
      <4>1. Running \in Statuses
        BY DEF BridgeTypeOK, Running, Status, Statuses
      <4> QED
        BY <3>1, <4>1, <1>2 DEF ClaimWins, BridgeLabels, BridgeTypeOK, process, fixed
    <3>2. CASE ClaimFails(t)
      BY <3>2, <1>5 DEF ClaimFails, BridgeTypeOK, process, bridgeMemory, fixed
    <3> QED
      BY <2>7, <3>1, <3>2 DEF Claim
  <2>8. CASE Mark(t)
    BY <2>8, <1>2 DEF Mark, BridgeLabels, BridgeTypeOK, process, fixed
  <2>9. CASE Dlsym(t)
    <3>1. [Innermost(t) EXCEPT !.sought = Innermost(t).sought + 1] \in Calls
      BY <2>9, InnermostType DEF Dlsym, Calls
    <3> QED
      BY <2>9, <3>1, <1>1 DEF Dlsym, BridgeTypeOK, process, fixed
  <2>10. CASE Unmark(t)
    BY <2>10, <1>2 DEF Unmark, BridgeLabels, BridgeTypeOK, process, fixed
  <2>11. CASE Publish(t)
    BY <2>11, <1>3, <1>5 DEF Publish, BridgeTypeOK, process, fixed, Statuses, Status
  <2>12. CASE LoadType(t)
    BY <2>12, <1>2 DEF LoadType, BridgeLabels, BridgeTypeOK, process, bridgeMemory, fixed
  <2>13. CASE LoadKind(t)
    <3>1. Innermost(t) \in Calls
      BY <2>13, InnermostType DEF LoadKind
    <3>2. [Innermost(t) EXCEPT !.pc = "cas", !.kind = kind] \in Calls
      BY <3>1 DEF Calls, BridgeLabels, BridgeTypeOK
    <3> QED
      BY <2>13, <3>2, <1>1, <1>2, <1>3
         DEF LoadKind, BridgeLabels, BridgeTypeOK, process, bridgeMemory, fixed
  <2>14. CASE CasType(t)
    <3>1. Innermost(t).kind \in Kinds
      BY <2>14, InnermostType DEF CasType, Calls
    <3> QED
      BY <2>14, <3>1, <1>2 DEF CasType, BridgeLabels, BridgeTypeOK, process, fixed
  <2>15. CASE ClearKind(t)
    BY <2>15, <1>2 DEF ClearKind, BridgeLabels, BridgeTypeOK, process, fixed
  <2>16. CASE Native(t)
    BY <2>16, <1>3 DEF Native, BridgeTypeOK, process, bridgeMemory, fixed
  <2> QED
    BY <1>6, <2>1, <2>2, <2>3, <2>4, <2>5, <2>6, <2>7, <2>8, <2>9, <2>10, <2>11, <2>12,
       <2>13, <2>14, <2>15, <2>16 DEF BridgeStep
<1>7. ASSUME NEW t \in Threads, NEW pid \in Pids, BridgeFork(t, pid) PROVE BridgeTypeOK'
  BY <1>7, NoCallType DEF BridgeFork, BridgeTypeOK, fixed
<1>8. CASE UNCHANGED bridgeVars
  BY <1>8 DEF bridgeVars, process, bridgeMemory, fixed, BridgeTypeOK
<1> QED
  BY <1>4, <1>6, <1>7, <1>8 DEF BridgeNext, Calling, BridgeCall, Reenter, Signal

\* The state of the bridge has its type.
THEOREM TypeCorrect == BridgeSpec => []BridgeTypeOK
<1>1. BridgeInit => BridgeTypeOK
  BY BridgeAssumption, PidsAssumption, NoCallType
     DEF BridgeInit, BridgeTypeOK, Statuses, Uninitialized, Status
<1> QED
  BY <1>1, TypeInductive, PTL DEF BridgeSpec

----------------------------------------------------------------------------
\* What becomes of the calls when the innermost goes on as c, or ends: there is
\* none above it.
LEMMA NoCallKept ==
    ASSUME BridgeTypeOK, NoCallAbove, NEW t \in Threads, NEW label, At(t, label), NEW c,
           Becomes(t, c) \/ (BridgeReturn(t) /\ c = NoCall)
    PROVE  /\ NoCallAbove'
           /\ calls' = [calls EXCEPT ![t][depth[t]] = c]
           /\ \A u \in Threads, m \in Levels :
                calls'[u][m] = IF u = t /\ m = depth[t] THEN c ELSE calls[u][m]
<1>1. depth[t] \in Levels
  BY InnermostType
<1>2. calls' = [calls EXCEPT ![t][depth[t]] = c]
  BY DEF Becomes, BridgeReturn
<1>3. \A u \in Threads, m \in Levels :
        calls'[u][m] = IF u = t /\ m = depth[t] THEN c ELSE calls[u][m]
  BY <1>1, <1>2 DEF BridgeTypeOK
<1>4. /\ \A u \in Threads : u # t => depth'[u] = depth[u]
      /\ depth'[t] = depth[t] \/ (depth'[t] = depth[t] - 1 /\ c = NoCall)
  <2>1. CASE Becomes(t, c)
    BY <2>1 DEF Becomes
  <2>2. CASE BridgeReturn(t) /\ c = NoCall
    BY <2>2 DEF BridgeReturn, BridgeTypeOK
  <2> QED
    BY <2>1, <2>2
<1>5. ASSUME NEW u \in Threads, NEW m \in Levels, m > depth'[u]
      PROVE  calls'[u][m] = NoCall
  <2>1. depth[t] \in Nat /\ m \in Nat
    BY BridgeAssumption, PidsAssumption DEF BridgeTypeOK, Levels
  <2>2. CASE u # t
    BY <2>2, <1>3, <1>4, <1>5 DEF NoCallAbove
  <2>3. CASE u = t
    BY <2>1, <2>3, <1>3, <1>4, <1>5 DEF NoCallAbove
  <2> QED
    BY <2>2, <2>3
<1> QED
  BY <1>2, <1>3, <1>5 DEF NoCallAbove

\* A step of a call that is not resolving, and that changes nothing shared.
LEMMA LocalStep ==
    ASSUME BridgeInv, BridgeTypeOK', NoCallAbove', UNCHANGED <<process, bridgeMemory, fixed>>,
           NEW t \in Threads, NEW l \in Levels, NEW c,
           calls' = [calls EXCEPT ![t][l] = c], CallOK(c),
           calls[t][l].pc \notin {"mark", "dlsym", "publish"},
           c.pc \notin {"mark", "dlsym", "publish"}
    PROVE  BridgeInv'
<1> USE DEF BridgeInv
<1>1. \A u \in Threads, m \in Levels :
        calls'[u][m] = IF u = t /\ m = l THEN c ELSE calls[u][m]
  BY DEF BridgeTypeOK
<1>2. \A u \in Threads, m \in Levels :
        /\ Resolving(u, m)' <=> Resolving(u, m)
        /\ Resolving(u, m)' => calls'[u][m] = calls[u][m]
        /\ calls[u][m].pc = "dlsym" => calls'[u][m].pc = "dlsym"
  BY <1>1 DEF Resolving
<1>3. /\ self' = self /\ used' = used /\ resolver_status' = resolver_status
      /\ pointers' = pointers /\ resolver_active' = resolver_active
      /\ type' = type /\ kind' = kind /\ absent' = absent /\ static' = static
      /\ Running' = Running
  BY DEF process, bridgeMemory, fixed, Running, Status
<1>4. OneResolver' /\ ResolverRuns' /\ WaitedForResolves' /\ ActiveResolves'
  <2>1. OneResolver'
    BY <1>2 DEF OneResolver
  <2>2. ResolverRuns' /\ WaitedForResolves'
    BY <1>2, <1>3 DEF ResolverRuns, WaitedForResolves
  <2>3. ActiveResolves'
    BY <1>2, <1>3 DEF ActiveResolves
  <2> QED
    BY <2>1, <2>2, <2>3
<1>5. SoughtFound'
  BY <1>1, <1>2, <1>3 DEF SoughtFound, CallOK, Resolving
<1>6. StatusPidUsed' /\ ReadyComplete' /\ MutexWords'
  BY <1>3 DEF StatusPidUsed, ReadyComplete, MutexWords
<1>7. BeyondReady' /\ StatusForeign'
  BY <1>1, <1>3 DEF CallOK, BeyondReady, StatusForeign
<1>8. MutexCalls'
  BY <1>1, <1>3 DEF CallOK, MutexCalls
<1> QED
  BY <1>4, <1>5, <1>6, <1>7, <1>8

\* The steps that a call takes on its own, but for its beginning.
LEMMA OwnSteps ==
    ASSUME BridgeInv, BridgeTypeOK', NEW t \in Threads,
           \/ LoadReady(t) \/ LoadFailed(t) \/ LoadReentered(t) \/ LoadForeign(t)
           \/ LoadUninitialized(t) \/ ClaimFails(t)
           \/ LoadType(t) \/ LoadKind(t) \/ Native(t)
    PROVE  BridgeInv'
<1>1. BridgeTypeOK /\ NoCallAbove
  BY DEF BridgeInv
<1>2. UNCHANGED <<process, bridgeMemory, fixed>>
  BY DEF LoadReady, LoadFailed, LoadReentered, LoadForeign, LoadUninitialized, ClaimFails,
         LoadType, LoadKind, Native
<1>3. ASSUME NEW label \in BridgeLabels \ {"mark", "dlsym", "publish"}, At(t, label),
             NEW c, Becomes(t, c) \/ (BridgeReturn(t) /\ c = NoCall),
             c.pc \notin {"mark", "dlsym", "publish"}, CallOK(c)
      PROVE  BridgeInv'
  <2>1. depth[t] \in Levels /\ calls[t][depth[t]].pc \notin {"mark", "dlsym", "publish"}
    BY <1>1, <1>3, InnermostType
  <2>2. NoCallAbove' /\ calls' = [calls EXCEPT ![t][depth[t]] = c]
    BY <1>1, <1>3, NoCallKept
  <2> QED
    BY <1>2, <1>3, <2>1, <2>2, LocalStep
<1>4. ASSUME NEW label \in BridgeLabels \ {"mark", "dlsym", "publish"}, At(t, label), BridgeReturn(t)
      PROVE  BridgeInv'
  <2>1. CallOK(NoCall) /\ NoCall.pc \notin {"mark", "dlsym", "publish"}
    BY DEF NoCall, CallOK
  <2> QED
    BY <1>3, <1>4, <2>1
<1>5. ASSUME NEW label, At(t, label)
      PROVE  /\ Innermost(t) = calls[t][depth[t]] /\ depth[t] \in Levels
             /\ Innermost(t) \in Calls /\ Innermost(t).pc = label
  BY <1>1, <1>5, InnermostType
<1>6. CASE LoadReady(t)
  <2> DEFINE c == [NoCall EXCEPT !.pc = IF Innermost(t).mutex THEN "type" ELSE "native",
                                !.mutex = Innermost(t).mutex]
  <2>1. At(t, "load") /\ Becomes(t, c) /\ resolver_status.state = "ready"
    BY <1>6 DEF LoadReady, Proceed
  <2>2. CallOK(c) /\ c.pc \notin {"mark", "dlsym", "publish"}
    BY <2>1 DEF CallOK, NoCall
  <2> QED
    BY <2>1, <2>2, <1>3 DEF BridgeLabels
<1>7. CASE LoadFailed(t) \/ LoadReentered(t) \/ Native(t)
  BY <1>4, <1>7 DEF LoadFailed, LoadReentered, Native, BridgeLabels
<1>8. CASE LoadForeign(t)
  <2> DEFINE c == [Innermost(t) EXCEPT !.pc = "takeover", !.seen = resolver_status]
  <2>1. At(t, "load") /\ Becomes(t, c)
    BY <1>8 DEF LoadForeign
  <2>2. CallOK(c) /\ c.pc \notin {"mark", "dlsym", "publish"}
    BY <1>8, <2>1, <1>5 DEF CallOK, Calls, LoadForeign, BridgeInv, SoughtFound
  <2> QED
    BY <2>1, <2>2, <1>3 DEF BridgeLabels
<1>9. CASE LoadUninitialized(t)
  <2> DEFINE c == [Innermost(t) EXCEPT !.pc = "claim"]
  <2>1. At(t, "load") /\ Becomes(t, c)
    BY <1>9 DEF LoadUninitialized, GoTo
  <2>2. CallOK(c) /\ c.pc \notin {"mark", "dlsym", "publish"}
    BY <2>1, <1>5 DEF CallOK, Calls, BridgeInv, SoughtFound
  <2> QED
    BY <2>1, <2>2, <1>3 DEF BridgeLabels
<1>10. CASE ClaimFails(t)
  <2> DEFINE c == [NoCall EXCEPT !.pc = "load", !.mutex = Innermost(t).mutex]
  <2>1. At(t, "claim") /\ Becomes(t, c)
    BY <1>10 DEF ClaimFails, Retry
  <2>2. CallOK(c) /\ c.pc \notin {"mark", "dlsym", "publish"}
    BY DEF CallOK, NoCall
  <2> QED
    BY <2>1, <2>2, <1>3 DEF BridgeLabels
<1>11. CASE LoadType(t)
  <2> DEFINE c == [Innermost(t) EXCEPT !.pc = IF type # 0 THEN "native" ELSE "kind"]
  <2>1. At(t, "type") /\ Becomes(t, c)
    BY <1>11 DEF LoadType, GoTo
  <2>2. CallOK(c) /\ c.pc \notin {"mark", "dlsym", "publish"}
    BY <2>1, <1>5 DEF CallOK, Calls, BridgeInv, BeyondReady, MutexWords, MutexCalls
  <2> QED
    BY <2>1, <2>2, <1>3 DEF BridgeLabels
<1>12. CASE LoadKind(t)
  <2>1. At(t, "kind")
    BY <1>12 DEF LoadKind
  <2>2. CASE BridgeReturn(t)
    BY <2>1, <2>2, <1>4 DEF BridgeLabels
  <2>3. CASE kind = 0 /\ GoTo(t, "native")
    <3> DEFINE c == [Innermost(t) EXCEPT !.pc = "native"]
    <3>1. CallOK(c) /\ c.pc \notin {"mark", "dlsym", "publish"}
      BY <2>1, <2>3, <1>5 DEF CallOK, Calls, BridgeInv, BeyondReady, MutexWords
    <3> QED
      BY <2>1, <2>3, <3>1, <1>3 DEF BridgeLabels, GoTo
  <2>4. CASE /\ kind \in Convertible
             /\ Becomes(t, [Innermost(t) EXCEPT !.pc = "cas", !.kind = kind])
    <3> DEFINE c == [Innermost(t) EXCEPT !.pc = "cas", !.kind = kind]
    <3>1. CallOK(c) /\ c.pc \notin {"mark", "dlsym", "publish"}
      BY <2>1, <2>4, <1>5
         DEF CallOK, Calls, Convertible, BridgeInv, BeyondReady, MutexWords, MutexCalls
    <3> QED
      BY <2>1, <2>4, <3>1, <1>3 DEF BridgeLabels
  <2> QED
    BY <1>12, <2>2, <2>3, <2>4 DEF LoadKind
<1> QED
  BY <1>6, <1>7, <1>8, <1>9, <1>10, <1>11, <1>12

\* A call begins, from the program, from dlsym or from a signal handler.
LEMMA BeginStep ==
    ASSUME BridgeInv, BridgeTypeOK', NEW t \in Threads, NEW mutex \in BOOLEAN, Begin(t, mutex)
    PROVE  BridgeInv'
<1> DEFINE c == [NoCall EXCEPT !.pc = "load", !.mutex = mutex]
           l == depth[t] + 1
<1>1. /\ BridgeTypeOK /\ NoCallAbove /\ depth[t] \in Nat /\ l \in Levels
      /\ calls' = [calls EXCEPT ![t][l] = c] /\ depth' = [depth EXCEPT ![t] = l]
      /\ UNCHANGED <<process, bridgeMemory, fixed>>
  BY BridgeAssumption, PidsAssumption DEF BridgeInv, BridgeTypeOK, Begin, Levels
<1>2. NoCallAbove'
  <2>1. \A u \in Threads, m \in Levels :
          calls'[u][m] = IF u = t /\ m = l THEN c ELSE calls[u][m]
    BY <1>1 DEF BridgeTypeOK
  <2>2. \A u \in Threads : depth'[u] = IF u = t THEN l ELSE depth[u]
    BY <1>1 DEF BridgeTypeOK
  <2>3. ASSUME NEW u \in Threads, NEW m \in Levels, m > depth'[u]
        PROVE  calls'[u][m] = NoCall
    <3>1. CASE u # t
      BY <2>1, <2>2, <2>3, <3>1, <1>1 DEF NoCallAbove
    <3>2. CASE u = t
      <4>1. m \in Nat /\ m > depth[t] /\ m # l
        BY <1>1, <2>2, <2>3, <3>2 DEF Levels
      <4> QED
        BY <2>1, <4>1, <3>2, <1>1 DEF NoCallAbove
    <3> QED
      BY <3>1, <3>2
  <2> QED
    BY <2>3 DEF NoCallAbove
<1>3. calls[t][l] = NoCall
  BY <1>1 DEF NoCallAbove, Levels
<1>4. /\ CallOK(c) /\ c.pc \notin {"mark", "dlsym", "publish"}
      /\ calls[t][l].pc \notin {"mark", "dlsym", "publish"}
  BY <1>3 DEF CallOK, NoCall
<1> HIDE DEF c, l
<1> QED
  BY <1>1, <1>2, <1>4, LocalStep

\* The status of another process is replaced: nobody is resolving in this one.
LEMMA TakeoverStep ==
    ASSUME BridgeInv, BridgeTypeOK', NEW t \in Threads, Takeover(t)
    PROVE  BridgeInv'
<1> DEFINE c == [NoCall EXCEPT !.pc = "load", !.mutex = Innermost(t).mutex]
<1>1. /\ BridgeTypeOK /\ NoCallAbove /\ At(t, "takeover") /\ Becomes(t, c)
      /\ UNCHANGED <<process, pointers, resolver_active, type, kind, fixed>>
      /\ resolver_status' = IF resolver_status = Innermost(t).seen THEN Uninitialized
                            ELSE resolver_status
  BY DEF BridgeInv, Takeover, Retry
<1>2. /\ depth[t] \in Levels /\ Innermost(t) = calls[t][depth[t]]
      /\ Innermost(t).pc = "takeover" /\ Innermost(t) \in Calls
  BY <1>1, InnermostType
<1>3. /\ NoCallAbove' /\ calls' = [calls EXCEPT ![t][depth[t]] = c]
      /\ \A u \in Threads, m \in Levels :
           calls'[u][m] = IF u = t /\ m = depth[t] THEN c ELSE calls[u][m]
  BY <1>1, NoCallKept
<1>4. /\ c.pc = "load" /\ c.sought = 0
      /\ Innermost(t).seen.state = "running" /\ Innermost(t).seen.pid # self
  BY <1>2 DEF NoCall, BridgeInv, StatusForeign
<1>5. CASE resolver_status # Innermost(t).seen
  <2>1. UNCHANGED <<process, bridgeMemory, fixed>>
    BY <1>1, <1>5 DEF bridgeMemory
  <2>2. CallOK(c) /\ c.pc \notin {"mark", "dlsym", "publish"}
    BY <1>4 DEF CallOK
  <2> HIDE DEF c
  <2> QED
    BY <1>2, <1>3, <2>1, <2>2, LocalStep
<1>6. CASE resolver_status = Innermost(t).seen
  <2>1. /\ self' = self /\ used' = used /\ pointers' = pointers
        /\ resolver_active' = resolver_active /\ type' = type /\ kind' = kind
        /\ absent' = absent /\ static' = static
        /\ resolver_status' = Uninitialized /\ resolver_status # Running
    BY <1>1, <1>4, <1>6 DEF process, fixed, Running, Status
  <2>2. \A u \in Threads, m \in Levels : ~Resolving(u, m) /\ ~Resolving(u, m)'
    BY <1>3, <1>4, <2>1 DEF BridgeInv, ResolverRuns, Resolving
  <2>3. OneResolver' /\ ResolverRuns' /\ WaitedForResolves'
    BY <2>1, <2>2
       DEF OneResolver, ResolverRuns, WaitedForResolves, Running, Uninitialized, Status
  <2>4. ActiveResolves'
    BY <2>1, <2>2 DEF ActiveResolves, Resolving, BridgeInv
  <2>5. SoughtFound'
    BY <1>3, <1>4, <2>1, <2>2 DEF SoughtFound, BridgeInv, Resolving
  <2>6. StatusPidUsed' /\ ReadyComplete' /\ MutexWords'
    BY <2>1 DEF StatusPidUsed, ReadyComplete, MutexWords, BridgeInv, Uninitialized, Status
  <2>7. BeyondReady' /\ StatusForeign' /\ MutexCalls'
    BY <1>3, <1>4, <1>6, <2>1 DEF BeyondReady, StatusForeign, MutexCalls, BridgeInv
  <2> QED
    BY <1>3, <2>3, <2>4, <2>5, <2>6, <2>7 DEF BridgeInv
<1> QED
  BY <1>5, <1>6

\* The claim: nobody is resolving yet, and the caller is from now on.
LEMMA ClaimStep ==
    ASSUME BridgeInv, BridgeTypeOK', NEW t \in Threads, ClaimWins(t)
    PROVE  BridgeInv'
<1> DEFINE c == [Innermost(t) EXCEPT !.pc = "mark"]
<1>1. /\ BridgeTypeOK /\ NoCallAbove /\ At(t, "claim") /\ Becomes(t, c)
      /\ resolver_status = Uninitialized /\ resolver_status' = Running
      /\ UNCHANGED <<process, pointers, resolver_active, type, kind, fixed>>
  BY DEF BridgeInv, ClaimWins, GoTo
<1>2. /\ depth[t] \in Levels /\ Innermost(t) = calls[t][depth[t]]
      /\ Innermost(t).pc = "claim" /\ Innermost(t) \in Calls
  BY <1>1, InnermostType
<1>3. /\ NoCallAbove'
      /\ \A u \in Threads, m \in Levels :
           calls'[u][m] = IF u = t /\ m = depth[t] THEN c ELSE calls[u][m]
  BY <1>1, NoCallKept
<1>4. c.pc = "mark" /\ c.sought = 0
  BY <1>2 DEF Calls, BridgeInv, SoughtFound
<1> HIDE DEF c
<1>5. /\ self' = self /\ used' = used /\ pointers' = pointers
      /\ resolver_active' = resolver_active /\ type' = type /\ kind' = kind
      /\ absent' = absent /\ static' = static /\ Running' = Running
      /\ resolver_status # Running /\ resolver_status.state = "uninitialized"
      /\ Running.state = "running" /\ Running.pid = self
  BY <1>1 DEF process, fixed, Running, Uninitialized, Status
<1>6. \A u \in Threads, m \in Levels :
        /\ ~Resolving(u, m)
        /\ Resolving(u, m)' <=> u = t /\ m = depth[t]
  BY <1>3, <1>4, <1>5 DEF BridgeInv, ResolverRuns, Resolving
<1>7. OneResolver' /\ ResolverRuns' /\ WaitedForResolves'
  BY <1>1, <1>2, <1>5, <1>6 DEF OneResolver, ResolverRuns, WaitedForResolves
<1>8. ActiveResolves'
  BY <1>5, <1>6 DEF ActiveResolves, Resolving, BridgeInv
<1>9. SoughtFound'
  <2>1. \A f \in Functions : ~(f <= 0)
    BY DEF Functions
  <2> QED
    BY <1>3, <1>4, <1>5, <1>6, <2>1 DEF SoughtFound, BridgeInv, Resolving
<1>10. StatusPidUsed' /\ ReadyComplete' /\ MutexWords'
  BY <1>1, <1>5 DEF StatusPidUsed, ReadyComplete, MutexWords, BridgeInv, BridgeTypeOK
<1>11. BeyondReady' /\ StatusForeign'
  BY <1>3, <1>4, <1>5 DEF BeyondReady, StatusForeign, BridgeInv
<1>12. MutexCalls'
  BY <1>3, <1>4, <1>5 DEF MutexCalls, BridgeInv
<1> QED
  BY <1>3, <1>7, <1>8, <1>9, <1>10, <1>11, <1>12 DEF BridgeInv

\* The steps of the resolver between its claim and its result: it stays the only
\* one.
LEMMA ResolverSteps ==
    ASSUME BridgeInv, BridgeTypeOK', NEW t \in Threads, Mark(t) \/ Dlsym(t) \/ Unmark(t)
    PROVE  BridgeInv'
<1> DEFINE n == Innermost(t).sought
           c == IF Mark(t) THEN [Innermost(t) EXCEPT !.pc = "dlsym"]
                ELSE IF Unmark(t) THEN [Innermost(t) EXCEPT !.pc = "publish"]
                ELSE [Innermost(t) EXCEPT !.sought = n + 1]
<1>1. /\ BridgeTypeOK /\ NoCallAbove
      /\ UNCHANGED <<process, resolver_status, type, kind, fixed>>
      /\ At(t, "mark") \/ At(t, "dlsym")
  BY DEF BridgeInv, Mark, Dlsym, Unmark
<1>2. /\ depth[t] \in Levels /\ Innermost(t) = calls[t][depth[t]] /\ Innermost(t) \in Calls
      /\ Innermost(t).pc \in {"mark", "dlsym"}
      /\ Mark(t) => Innermost(t).pc = "mark" /\ Becomes(t, c)
      /\ Unmark(t) => Innermost(t).pc = "dlsym"
      /\ Dlsym(t) => Innermost(t).pc = "dlsym"
  BY <1>1, InnermostType DEF Mark, Dlsym, Unmark, At, GoTo
<1>3. ~Mark(t) /\ Unmark(t) => Becomes(t, c) /\ n = Count
  BY DEF Unmark, GoTo
<1>4. Dlsym(t) /\ ~Mark(t) /\ ~Unmark(t) => Becomes(t, c)
  BY DEF Dlsym
<1>5. Becomes(t, c)
  BY <1>2, <1>3, <1>4
<1>6. /\ Mark(t) => c.pc = "dlsym" /\ c.sought = n
      /\ ~Mark(t) /\ Unmark(t) => c.pc = "publish" /\ c.sought = n
      /\ ~Mark(t) /\ ~Unmark(t) => c.pc = "dlsym" /\ c.sought = n + 1
  BY <1>2 DEF Calls
<1> HIDE DEF c
<1>7. /\ NoCallAbove'
      /\ \A u \in Threads, m \in Levels :
           calls'[u][m] = IF u = t /\ m = depth[t] THEN c ELSE calls[u][m]
  BY <1>1, <1>5, NoCallKept
<1>8. /\ self' = self /\ used' = used /\ resolver_status' = resolver_status
      /\ type' = type /\ kind' = kind /\ absent' = absent /\ static' = static
      /\ Running' = Running
  BY <1>1 DEF process, fixed, Running, Status
<1>9. /\ resolver_status = Running
      /\ \A u \in Threads, m \in Levels :
           /\ Resolving(u, m) <=> u = t /\ m = depth[t]
           /\ Resolving(u, m)' <=> u = t /\ m = depth[t]
  BY <1>2, <1>6, <1>7 DEF BridgeInv, OneResolver, ResolverRuns, Resolving
<1>10. OneResolver' /\ ResolverRuns' /\ WaitedForResolves'
  BY <1>2, <1>8, <1>9 DEF OneResolver, ResolverRuns, WaitedForResolves
<1>11. /\ pointers \subseteq pointers' /\ pointers' \subseteq Functions
       /\ \A f \in Functions : f <= c.sought => f \in pointers' \cup absent
  <2>1. \A f \in Functions : f <= n => f \in pointers \cup absent
    BY <1>2, <1>9 DEF BridgeInv, SoughtFound
  <2>2. CASE Mark(t) \/ Unmark(t)
    <3>1. pointers' = pointers /\ c.sought = n
      BY <1>6, <2>2 DEF Mark, Unmark
    <3> QED
      BY <1>1, <2>1, <3>1 DEF BridgeTypeOK
  <2>3. CASE ~Mark(t) /\ ~Unmark(t)
    <3>1. /\ n + 1 \in Functions /\ c.sought = n + 1
          /\ pointers' = IF n + 1 \in absent THEN pointers ELSE pointers \cup {n + 1}
      BY <1>6, <2>3 DEF Dlsym
    <3>2. n \in Nat
      BY <1>2 DEF Calls, Functions
    <3>3. \A f \in Functions : f <= n + 1 => f <= n \/ f = n + 1
      BY <3>2 DEF Functions
    <3> QED
      BY <1>1, <2>1, <3>1, <3>3 DEF BridgeTypeOK
  <2> QED
    BY <2>2, <2>3
<1>12. SoughtFound'
  <2>1. c.pc \in {"dlsym", "publish"} /\ (c.pc = "publish" => c.sought = Count)
    BY <1>3, <1>6
  <2> QED
    BY <1>7, <1>8, <1>9, <1>11, <2>1 DEF BridgeInv, SoughtFound, Resolving
<1>13. ActiveResolves'
  <2>1. CASE ~Mark(t) /\ Unmark(t)
    <3>1. \A u \in Threads : resolver_active'[u] => u # t /\ resolver_active[u]
      BY <1>1, <2>1 DEF Unmark, BridgeTypeOK
    <3> QED
      BY <1>7, <3>1 DEF BridgeInv, ActiveResolves
  <2>2. CASE Mark(t) \/ ~Unmark(t)
    <3>1. c.pc = "dlsym"
      BY <1>6, <2>2
    <3>2. \A u \in Threads : resolver_active'[u] => u = t \/ resolver_active[u]
      BY <1>1, <2>2 DEF Mark, Dlsym, BridgeTypeOK
    <3> QED
      BY <1>2, <1>7, <3>1, <3>2 DEF BridgeInv, ActiveResolves
  <2> QED
    BY <2>1, <2>2
<1>14. StatusPidUsed' /\ ReadyComplete' /\ MutexWords'
  BY <1>8, <1>9 DEF BridgeInv, StatusPidUsed, ReadyComplete, MutexWords, Running, Status
<1>15. BeyondReady' /\ StatusForeign'
  BY <1>3, <1>6, <1>7, <1>8 DEF BridgeInv, BeyondReady, StatusForeign
<1>16. MutexCalls'
  BY <1>3, <1>6, <1>7, <1>8 DEF BridgeInv, MutexCalls
<1> QED
  BY <1>7, <1>10, <1>12, <1>13, <1>14, <1>15, <1>16 DEF BridgeInv

\* The result: nobody is resolving any more, and what was found is complete.
LEMMA PublishStep ==
    ASSUME BridgeInv, BridgeTypeOK', NEW t \in Threads, Publish(t)
    PROVE  BridgeInv'
<1> DEFINE c == IF absent = {}
                THEN [NoCall EXCEPT !.pc = IF Innermost(t).mutex THEN "type" ELSE "native",
                                    !.mutex = Innermost(t).mutex]
                ELSE NoCall
<1>1. /\ BridgeTypeOK /\ NoCallAbove /\ At(t, "publish")
      /\ Becomes(t, c) \/ (BridgeReturn(t) /\ c = NoCall)
      /\ UNCHANGED <<process, pointers, resolver_active, type, kind, fixed>>
      /\ resolver_status' = Status(IF absent = {} THEN "ready" ELSE "failed", self)
  BY DEF BridgeInv, Publish, Proceed
<1>2. /\ depth[t] \in Levels /\ Innermost(t) = calls[t][depth[t]]
      /\ Innermost(t).pc = "publish" /\ Innermost(t) \in Calls
  BY <1>1, InnermostType
<1>3. /\ absent = {} => c.pc = IF c.mutex THEN "type" ELSE "native"
      /\ absent # {} => c = NoCall
  BY DEF NoCall
<1> HIDE DEF c
<1>4. /\ NoCallAbove'
      /\ \A u \in Threads, m \in Levels :
           calls'[u][m] = IF u = t /\ m = depth[t] THEN c ELSE calls[u][m]
  BY <1>1, NoCallKept
<1>5. /\ self' = self /\ used' = used /\ pointers' = pointers
      /\ resolver_active' = resolver_active /\ type' = type /\ kind' = kind
      /\ absent' = absent /\ static' = static /\ Running' = Running
      /\ resolver_status'.pid = self
      /\ resolver_status'.state = IF absent = {} THEN "ready" ELSE "failed"
      /\ resolver_status' # Running
  BY <1>1 DEF process, fixed, Running, Status
<1>6. c.pc \in {"type", "native", "none"} /\ (c.pc # "none" => absent = {})
  BY <1>3 DEF NoCall
<1>7. /\ resolver_status = Running
      /\ \A u \in Threads, m \in Levels :
           /\ Resolving(u, m) <=> u = t /\ m = depth[t]
           /\ ~Resolving(u, m)'
  BY <1>2, <1>4, <1>6 DEF BridgeInv, OneResolver, ResolverRuns, Resolving
<1>8. OneResolver' /\ ResolverRuns' /\ WaitedForResolves'
  BY <1>5, <1>7 DEF OneResolver, ResolverRuns, WaitedForResolves
<1>9. ActiveResolves'
  BY <1>2, <1>5, <1>7 DEF BridgeInv, ActiveResolves, Resolving
<1>10. SoughtFound'
  BY <1>4, <1>6, <1>7 DEF BridgeInv, SoughtFound, Resolving
<1>11. absent = {} => pointers = Functions
  <2>1. \A f \in Functions : f <= Count => f \in pointers \cup absent
    BY <1>2, <1>7 DEF BridgeInv, SoughtFound
  <2>2. \A f \in Functions : f <= Count
    BY BridgeAssumption, PidsAssumption DEF Functions
  <2> QED
    BY <1>1, <2>1, <2>2 DEF BridgeTypeOK
<1>12. StatusPidUsed' /\ ReadyComplete' /\ MutexWords'
  BY <1>1, <1>5, <1>11 DEF BridgeInv, BridgeTypeOK, StatusPidUsed, ReadyComplete, MutexWords
<1>13. BeyondReady' /\ StatusForeign'
  <2>1. \A u \in Threads, m \in Levels :
          calls[u][m].pc \notin {"type", "kind", "cas", "clear", "native"}
    BY <1>7 DEF BridgeInv, BeyondReady, Running, Status
  <2> QED
    BY <1>4, <1>5, <1>6, <2>1 DEF BridgeInv, BeyondReady, StatusForeign
<1>14. MutexCalls'
  BY <1>3, <1>4, <1>5, <1>6 DEF BridgeInv, MutexCalls
<1> QED
  BY <1>4, <1>8, <1>9, <1>10, <1>12, <1>13, <1>14 DEF BridgeInv

\* The two stores that convert the mutex.
LEMMA MutexSteps ==
    ASSUME BridgeInv, BridgeTypeOK', NEW t \in Threads, CasType(t) \/ ClearKind(t)
    PROVE  BridgeInv'
<1> DEFINE label == IF CasType(t) THEN "cas" ELSE "clear"
           to == IF ~CasType(t) THEN "native" ELSE IF type = 0 THEN "clear" ELSE "type"
           c == [Innermost(t) EXCEPT !.pc = to]
<1>1. /\ BridgeTypeOK /\ NoCallAbove /\ At(t, label) /\ Becomes(t, c)
      /\ UNCHANGED <<process, resolver_status, pointers, resolver_active, fixed>>
      /\ label = "cas" => type' = (IF type = 0 THEN Innermost(t).kind ELSE type) /\ kind' = kind
      /\ label = "clear" => type' = type /\ kind' = 0
  BY DEF BridgeInv, CasType, ClearKind, GoTo
<1>2. label \in {"cas", "clear"} /\ to \in {"native", "clear", "type"}
  OBVIOUS
<1>3. /\ label = "clear" => to = "native"
      /\ label = "cas" => to = IF type = 0 THEN "clear" ELSE "type"
  OBVIOUS
<1> HIDE DEF label, to
<1>4. /\ depth[t] \in Levels /\ Innermost(t) = calls[t][depth[t]]
      /\ Innermost(t).pc = label /\ Innermost(t) \in Calls
  BY <1>1, InnermostType
<1>5. /\ NoCallAbove'
      /\ \A u \in Threads, m \in Levels :
           calls'[u][m] = IF u = t /\ m = depth[t] THEN c ELSE calls[u][m]
  BY <1>1, NoCallKept
<1>6. c.pc = to /\ c.mutex
  BY <1>2, <1>4 DEF Calls, BridgeInv, MutexCalls
<1> HIDE DEF c
<1>7. /\ self' = self /\ used' = used /\ resolver_status' = resolver_status
      /\ pointers' = pointers /\ resolver_active' = resolver_active
      /\ absent' = absent /\ static' = static /\ Running' = Running
  BY <1>1 DEF process, fixed, Running, Status
<1>8. \A u \in Threads, m \in Levels :
        /\ Resolving(u, m)' <=> Resolving(u, m)
        /\ Resolving(u, m) => calls'[u][m] = calls[u][m]
        /\ calls[u][m].pc = "dlsym" => calls'[u][m] = calls[u][m]
  BY <1>2, <1>4, <1>5, <1>6 DEF Resolving
<1>9. OneResolver' /\ ResolverRuns' /\ WaitedForResolves'
  BY <1>7, <1>8 DEF BridgeInv, OneResolver, ResolverRuns, WaitedForResolves
<1>10. ActiveResolves'
  BY <1>7, <1>8 DEF BridgeInv, ActiveResolves
<1>11. SoughtFound'
  BY <1>2, <1>5, <1>6, <1>7, <1>8 DEF BridgeInv, SoughtFound, Resolving
<1>12. StatusPidUsed' /\ ReadyComplete'
  BY <1>7 DEF BridgeInv, StatusPidUsed, ReadyComplete
<1>13. BeyondReady' /\ StatusForeign'
  BY <1>2, <1>4, <1>5, <1>6, <1>7 DEF BridgeInv, BeyondReady, StatusForeign
<1>14. /\ type' = static \/ type' = type
       /\ label = "cas" => static \in Convertible /\ static # 0
       /\ label = "cas" /\ type = 0 => type' = static
       /\ label = "cas" /\ type # 0 => type' = static
       /\ label = "clear" => type' = static
  BY <1>1, <1>2, <1>4 DEF BridgeInv, MutexCalls, MutexWords, Convertible
<1>15. MutexWords'
  BY <1>1, <1>2, <1>7, <1>14 DEF BridgeInv, MutexWords
<1>16. MutexCalls'
  <2>1. type' = static
    BY <1>2, <1>14
  <2> QED
    BY <2>1, <1>2, <1>5, <1>6, <1>7 DEF BridgeInv, MutexCalls
<1> QED
  BY <1>5, <1>9, <1>10, <1>11, <1>12, <1>13, <1>15, <1>16 DEF BridgeInv

\* In the child there are no calls, and the status is that of another process.
LEMMA ForkStep ==
    ASSUME BridgeInv, BridgeTypeOK', NEW t \in Threads, NEW pid \in Pids, BridgeFork(t, pid)
    PROVE  BridgeInv'
<1>1. /\ \A u \in Threads, m \in Levels : calls'[u][m] = NoCall
      /\ \A u \in Threads : ~resolver_active'[u]
      /\ self' = pid /\ pid \notin used /\ pid # 0 /\ used' = used \cup {pid}
      /\ resolver_status' = resolver_status /\ pointers' = pointers
      /\ type' = type /\ kind' = kind /\ absent' = absent /\ static' = static
  BY BridgeAssumption, PidsAssumption DEF BridgeFork, fixed
<1>2. \A u \in Threads, m \in Levels :
        /\ calls'[u][m].pc = "none" /\ calls'[u][m].sought = 0 /\ ~Resolving(u, m)'
  BY <1>1 DEF NoCall, Resolving
<1>3. resolver_status' # Running'
  BY <1>1 DEF BridgeInv, StatusPidUsed, Running, Status
<1>4. NoCallAbove' /\ OneResolver' /\ ResolverRuns' /\ WaitedForResolves' /\ ActiveResolves'
  BY <1>1, <1>2, <1>3
     DEF NoCallAbove, OneResolver, ResolverRuns, WaitedForResolves, ActiveResolves
<1>5. SoughtFound' /\ BeyondReady' /\ StatusForeign' /\ MutexCalls'
  BY <1>2 DEF SoughtFound, BeyondReady, StatusForeign, MutexCalls
<1>6. StatusPidUsed' /\ ReadyComplete' /\ MutexWords'
  BY <1>1 DEF BridgeInv, StatusPidUsed, ReadyComplete, MutexWords
<1> QED
  BY <1>4, <1>5, <1>6 DEF BridgeInv

\* The invariant holds at first and every step keeps it.
LEMMA InvariantInductive == BridgeInv /\ [BridgeNext]_bridgeVars => BridgeInv'
<1> SUFFICES ASSUME BridgeInv, [BridgeNext]_bridgeVars PROVE BridgeInv'
  OBVIOUS
<1>1. BridgeTypeOK'
  BY TypeInductive DEF BridgeInv
<1>2. ASSUME NEW t \in Threads, BridgeStep(t) PROVE BridgeInv'
  BY <1>1, <1>2, OwnSteps, TakeoverStep, ClaimStep, ResolverSteps, PublishStep, MutexSteps
     DEF BridgeStep, Claim
<1>3. ASSUME NEW t \in Threads, Calling(t) PROVE BridgeInv'
  BY <1>1, <1>3, BeginStep DEF Calling, BridgeCall, Reenter, Signal
<1>4. ASSUME NEW t \in Threads, NEW pid \in Pids, BridgeFork(t, pid) PROVE BridgeInv'
  BY <1>1, <1>4, ForkStep
<1>5. CASE UNCHANGED bridgeVars
  BY <1>5
     DEF bridgeVars, process, bridgeMemory, fixed, BridgeInv, BridgeTypeOK, StatusPidUsed, NoCallAbove,
              OneResolver, ResolverRuns, WaitedForResolves, ActiveResolves, SoughtFound,
              ReadyComplete, BeyondReady, StatusForeign, MutexWords, MutexCalls, Resolving,
              Running, Status
<1> QED
  BY <1>2, <1>3, <1>4, <1>5 DEF BridgeNext

----------------------------------------------------------------------------
\* The inductive invariant holds in every reachable state.
THEOREM Invariance == BridgeSpec => []BridgeInv
<1>1. BridgeInit => BridgeInv
  <2>1. BridgeInit => BridgeTypeOK
    BY BridgeAssumption, PidsAssumption, NoCallType
       DEF BridgeInit, BridgeTypeOK, Statuses, Uninitialized, Status
  <2>2. BridgeInit => \A t \in Threads, l \in Levels : calls[t][l] = NoCall
    BY DEF BridgeInit
  <2>3. BridgeInit => \A t \in Threads, l \in Levels :
                  calls[t][l].pc = "none" /\ calls[t][l].sought = 0 /\ ~Resolving(t, l)
    BY <2>2 DEF NoCall, Resolving
  <2>4. BridgeInit => resolver_status.state = "uninitialized" /\ resolver_status # Running
                /\ resolver_status.pid = 0
    BY DEF BridgeInit, Uninitialized, Running, Status
  <2> QED
    BY <2>1, <2>2, <2>3, <2>4
       DEF BridgeInit, BridgeInv, StatusPidUsed, NoCallAbove, OneResolver, ResolverRuns,
           WaitedForResolves, ActiveResolves, SoughtFound, ReadyComplete, BeyondReady,
           StatusForeign, MutexWords, MutexCalls
<1> QED
  BY <1>1, InvariantInductive, PTL DEF BridgeSpec

\* One call at a time resolves the functions.
THEOREM ResolverAlone == BridgeSpec => []OneResolver
BY Invariance, PTL DEF BridgeInv

\* Nobody waits for a resolver that is not there.
THEOREM ResolverThere == BridgeSpec => []WaitedForResolves
BY Invariance, PTL DEF BridgeInv

\* A native function is called when every pointer is set.
THEOREM ForwardSafe == BridgeSpec => []ForwardResolved
<1>1. BridgeInv => ForwardResolved
  BY DEF BridgeInv, ForwardResolved, BeyondReady, ReadyComplete
<1> QED
  BY <1>1, Invariance, PTL

\* A native function sees a static mutex converted.
THEOREM MutexSafe == BridgeSpec => []MutexTyped
<1>1. BridgeInv => MutexTyped
  BY DEF BridgeInv, MutexTyped, MutexCalls, MutexWords
<1> QED
  BY <1>1, Invariance, PTL

\* The outcome of the resolution is final.
THEOREM OutcomeFinal == BridgeSpec => StatusFinal
<1> DEFINE Final == resolver_status.state \in {"ready", "failed"}
                      => resolver_status' = resolver_status
<1>1. BridgeInv /\ [BridgeNext]_bridgeVars => Final
  <2> SUFFICES ASSUME BridgeInv, [BridgeNext]_bridgeVars, resolver_status.state \in {"ready", "failed"}
               PROVE  resolver_status' = resolver_status
    OBVIOUS
  <2>1. ASSUME NEW t \in Threads, BridgeStep(t) PROVE resolver_status' = resolver_status
    <3>1. ~Publish(t) /\ ~ClaimWins(t)
      <4>1. resolver_status # Running /\ resolver_status # Uninitialized
        BY DEF Running, Uninitialized, Status
      <4>2. Publish(t) => depth[t] \in Levels /\ calls[t][depth[t]].pc = "publish"
        BY InnermostType DEF BridgeInv, Publish
      <4> QED
        BY <4>1, <4>2 DEF BridgeInv, ResolverRuns, Resolving, ClaimWins
    <3>2. CASE Takeover(t)
      <4>1. /\ depth[t] \in Levels /\ Innermost(t) = calls[t][depth[t]]
            /\ Innermost(t).pc = "takeover"
        BY <3>2, InnermostType DEF BridgeInv, Takeover
      <4>2. resolver_status # Innermost(t).seen
        BY <4>1 DEF BridgeInv, StatusForeign
      <4> QED
        BY <3>2, <4>2 DEF Takeover
    <3>3. CASE ~Takeover(t)
      BY <2>1, <3>1, <3>3 DEF BridgeStep, LoadReady, LoadFailed, LoadReentered, LoadForeign,
         LoadUninitialized, Claim, ClaimFails, Mark, Dlsym, Unmark, LoadType, LoadKind, CasType,
         ClearKind, Native, bridgeMemory
    <3> QED
      BY <3>2, <3>3
  <2>2. ASSUME NEW t \in Threads, Calling(t) PROVE resolver_status' = resolver_status
    BY <2>2 DEF Calling, BridgeCall, Reenter, Signal, Begin, bridgeMemory
  <2>3. ASSUME NEW t \in Threads, NEW pid \in Pids, BridgeFork(t, pid)
        PROVE  resolver_status' = resolver_status
    BY <2>3 DEF BridgeFork
  <2> QED
    BY <2>1, <2>2, <2>3 DEF BridgeNext, bridgeVars, bridgeMemory
<1>2. Final => [Final]_bridgeVars
  OBVIOUS
<1> QED
  BY <1>1, <1>2, Invariance, PTL DEF BridgeSpec, StatusFinal

\* A call of the program fails only for an absent function or an unsupported mutex.
THEOREM OutermostRight == BridgeSpec => OutermostSucceeds
<1> DEFINE Ends(t) == calls[t] # calls'[t] /\ depth[t] = 1 /\ depth'[t] = 0 /\ self' = self
           Rightly(t) == \/ Innermost(t).pc = "native"
                         \/ absent # {}
                         \/ Innermost(t).mutex /\ static \notin {0} \cup Convertible
           Right == \A t \in Threads : Ends(t) => Rightly(t)
<1>1. BridgeInv /\ [BridgeNext]_bridgeVars => Right
  <2> SUFFICES ASSUME BridgeInv, [BridgeNext]_bridgeVars, NEW t \in Threads, Ends(t)
               PROVE  Rightly(t)
    OBVIOUS
  <2>1. \A u \in Threads : depth[u] \in Nat
    BY BridgeAssumption, PidsAssumption DEF BridgeInv, BridgeTypeOK
  <2>2. ASSUME NEW u \in Threads, BridgeStep(u) PROVE Rightly(t)
    <3>1. u = t /\ BridgeReturn(t)
      <4>1. depth' = depth \/ BridgeReturn(u)
        BY <2>2
           DEF BridgeStep, LoadReady, LoadFailed, LoadReentered, LoadForeign, LoadUninitialized,
           Takeover, Claim, ClaimWins, ClaimFails, Mark, Dlsym, Unmark, Publish, LoadType,
           LoadKind, CasType, ClearKind, Native, Proceed, Retry, GoTo, Becomes
      <4>2. depth'[t] # depth[t]
        OBVIOUS
      <4> QED
        BY <4>1, <4>2 DEF BridgeReturn, BridgeInv, BridgeTypeOK
    <3>2. depth' # depth
      OBVIOUS
    <3>3. ASSUME NEW label, At(t, label)
          PROVE  /\ 1 \in Levels /\ Innermost(t) = calls[t][1]
                 /\ calls[t][1].pc = label
      BY <3>3, InnermostType DEF BridgeInv
    <3>4. CASE LoadFailed(t)
      BY <3>4 DEF LoadFailed, BridgeInv, ReadyComplete
    <3>5. CASE LoadReentered(t)
      <4>1. PICK l \in Levels : calls[t][l].pc = "dlsym"
        BY <3>5 DEF LoadReentered, BridgeInv, ActiveResolves
      <4>2. l = 1
        BY <4>1 DEF BridgeInv, NoCallAbove, Levels, NoCall
      <4> QED
        BY <3>3, <3>5, <4>1, <4>2 DEF LoadReentered
    <3>6. CASE LoadKind(t)
      <4>1. Innermost(t).mutex
        BY <3>3, <3>6 DEF LoadKind, BridgeInv, MutexCalls
      <4>2. kind \notin {0} \cup Convertible
        BY <3>2, <3>6 DEF LoadKind, GoTo, Becomes
      <4> QED
        BY <4>1, <4>2 DEF BridgeInv, MutexWords
    <3>7. CASE Native(t)
      BY <3>7 DEF Native, At
    <3>8. CASE Publish(t)
      BY <3>2, <3>8 DEF Publish, Proceed, GoTo, Becomes
    <3> QED
      BY <2>2, <3>1, <3>2, <3>4, <3>5, <3>6, <3>7, <3>8 DEF BridgeStep, LoadReady, LoadForeign,
         LoadUninitialized, Takeover, Claim, ClaimWins, ClaimFails, Mark, Dlsym, Unmark,
         LoadType, CasType, ClearKind, Proceed, Retry, GoTo, Becomes
  <2>3. ASSUME NEW u \in Threads, Calling(u) PROVE FALSE
    <3>1. depth' = [depth EXCEPT ![u] = @ + 1]
      BY <2>3 DEF Calling, BridgeCall, Reenter, Signal, Begin
    <3> QED
      BY <2>1, <3>1 DEF BridgeInv, BridgeTypeOK
  <2>4. ASSUME NEW u \in Threads, NEW pid \in Pids, BridgeFork(u, pid) PROVE FALSE
    BY <2>4 DEF BridgeFork, BridgeInv, BridgeTypeOK
  <2> QED
    BY <2>2, <2>3, <2>4 DEF BridgeNext, bridgeVars
<1> HIDE DEF Right
<1>2. BridgeSpec => [][Right]_bridgeVars
  BY <1>1, Invariance, PTL DEF BridgeSpec
<1> QED
  BY <1>2 DEF Right, OutermostSucceeds

=============================================================================

------------------------- MODULE PthreadOnceProofs -------------------------
(* Proofs about PthreadOnce: the inductive invariant IndInv and the safety *)
(* properties that follow from it, for any number of processes and threads.*)
EXTENDS PthreadOnce, TLAPS

\* The steps of one thread: every step of Next but a fork.
ThreadStep(p, t) ==
    \/ Step(p, t) \/ Call(p, t) \/ Interrupted(p, t) \/ Cancel(p, t)

\* Every step keeps the state well-typed.
LEMMA TypeInvariant == TypeOK /\ [Next]_vars => TypeOK'
<1> SUFFICES ASSUME TypeOK, [Next]_vars PROVE TypeOK'
  OBVIOUS
<1> USE PidsAssumption DEF TypeOK, Words, Word, Labels, OnceInit, Done, InProgress
<1>1. CASE UNCHANGED vars
  BY <1>1 DEF vars
<1>2. ASSUME NEW p \in alive, NEW t \in Threads, ThreadStep(p, t)
      PROVE TypeOK'
  <2> USE DEF Go, Return, processes, memory, locals
  <2>1. CASE Call(p, t)
    BY <2>1 DEF Call
  <2>2. CASE FirstLoadDone(p, t)
    BY <2>2 DEF FirstLoadDone
  <2>3. CASE FirstLoadNotDone(p, t)
    BY <2>3 DEF FirstLoadNotDone
  <2>4. CASE GenLoadOwn(p, t)
    BY <2>4 DEF GenLoadOwn
  <2>5. CASE GenLoadForeign(p, t)
    BY <2>5 DEF GenLoadForeign
  <2>6. CASE GenRead(p, t)
    BY <2>6 DEF GenRead
  <2>7. CASE GenCasWins(p, t)
    BY <2>7 DEF GenCasWins
  <2>8. CASE GenCasFails(p, t)
    BY <2>8 DEF GenCasFails
  <2>9. CASE GenAdd(p, t)
    BY <2>9 DEF GenAdd
  <2>10. CASE GenPublish(p, t)
    BY <2>10 DEF GenPublish
  <2>11. CASE CtlLoadDone(p, t)
    BY <2>11 DEF CtlLoadDone
  <2>12. CASE CtlLoadBusy(p, t)
    BY <2>12 DEF CtlLoadBusy
  <2>13. CASE CtlLoadFree(p, t)
    BY <2>13 DEF CtlLoadFree
  <2>14. CASE CtlCasWins(p, t)
    BY <2>14 DEF CtlCasWins
  <2>15. CASE CtlCasFails(p, t)
    BY <2>15 DEF CtlCasFails
  <2>16. CASE InitReturns(p, t)
    BY <2>16 DEF InitReturns
  <2>17. CASE PublishDone(p, t)
    BY <2>17 DEF PublishDone
  <2>18. CASE Wake(p, t)
    BY <2>18 DEF Wake, WakeAll
  <2>19. CASE FutexSleeps(p, t)
    BY <2>19 DEF FutexSleeps
  <2>20. CASE FutexChanged(p, t)
    BY <2>20 DEF FutexChanged
  <2>21. CASE CancelWake(p, t)
    BY <2>21 DEF CancelWake, WakeAll
  <2>22. CASE Interrupted(p, t)
    BY <2>22 DEF Interrupted
  <2>23. CASE Cancel(p, t)
    BY <2>23 DEF Cancel
  <2> QED
    BY <1>2, <2>1, <2>2, <2>3, <2>4, <2>5, <2>6, <2>7, <2>8, <2>9, <2>10, <2>11, <2>12, <2>13, <2>14, <2>15, <2>16, <2>17, <2>18, <2>19, <2>20, <2>21, <2>22, <2>23
       DEF ThreadStep, Step, FirstLoad, GenLoad, GenCas, CtlLoad, CtlCas, FutexWait
<1>3. ASSUME NEW p \in alive, NEW t \in Threads, NEW q \in Pids, Fork(p, t, q)
      PROVE TypeOK'
  BY <1>3 DEF Fork
<1> QED
  BY <1>1, <1>2, <1>3 DEF Next, ProcessNext, ThreadStep

\* TypeOK is an invariant of pthread_once.
THEOREM TypeCorrect == Spec => []TypeOK
<1>1. Init => TypeOK
  BY PidsAssumption DEF Init, TypeOK, Words, Word, Labels, OnceInit
<1> QED
  BY <1>1, TypeInvariant, PTL DEF Spec

----------------------------------------------------------------------------
\* What a process's invariant depends on, besides alive and clean.
StateOf(r) == <<once_pid[r], once_generation[r], control[r], pc[r], seen[r],
                gen[r], cur[r], inits[r]>>

\* A thread's step touches its own process only.
LEMMA ThreadStepIsLocal ==
    ASSUME TypeOK, NEW p \in alive, NEW t \in Threads, ThreadStep(p, t),
           NEW r \in Pids, r # p
    PROVE  UNCHANGED <<alive, clean>> /\ UNCHANGED StateOf(r)
  BY DEF ThreadStep, Step, Call, FirstLoad, FirstLoadDone,
     FirstLoadNotDone, GenLoad, GenLoadOwn, GenLoadForeign, GenRead, GenCas,
     GenCasWins, GenCasFails, GenAdd, GenPublish, CtlLoad, CtlLoadDone,
     CtlLoadBusy, CtlLoadFree, CtlCas, CtlCasWins, CtlCasFails, InitReturns,
     PublishDone, Wake, WakeAll, FutexWait, FutexSleeps, FutexChanged,
     CancelWake, Interrupted, Cancel,
     Go, Return, TypeOK, StateOf, processes, memory, locals

\* The invariant of a process whose state does not change is kept, although the
\* set of processes may grow.
LEMMA UntouchedKeeps ==
    ASSUME NEW r \in alive, ProcessInv(r), UNCHANGED StateOf(r),
           alive \subseteq alive', r \in clean' => r \in clean
    PROVE  ProcessInv(r)'
  BY DEF StateOf, ProcessInv, PidKnown, OnePublisher, SeenForeign, GenKnown, WordIsOld,
     WordIsClaimed, CurMatches, SleeperWord, DoneAfterInit, CleanClaim, CleanCount,
     Claimants, Wakers

\* When init() returns in a clean process, it did not complete before.
LEMMA FirstCompletion ==
    ASSUME TypeOK, NEW p \in clean, NEW t \in Threads, pc[p][t] = "init",
           CleanClaim(p), CleanCount(p)
    PROVE  inits[p] = 0
<1>1. t \in Claimants(p)
  BY DEF Claimants
<1>2. control[p].state = "inprogress"
  BY <1>1 DEF CleanClaim, InProgress, Word
<1>3. \A u \in Threads : pc[p][u] # "publish"
  BY <1>1 DEF CleanClaim, Claimants
<1>4. inits[p] \in Nat
  BY DEF TypeOK
<1> QED
  BY <1>2, <1>3, <1>4 DEF CleanCount

\* A thread's step keeps the invariant of its process.
LEMMA OwnKeeps ==
    ASSUME TypeOK, NEW p \in alive, NEW t \in Threads, ThreadStep(p, t),
           ProcessInv(p), TypeOK'
    PROVE  ProcessInv(p)'
<1>a. p \in Nat /\ p > 0 /\ p \in Pids
  BY PidsAssumption DEF TypeOK
<1> USE DEF TypeOK, Words, Word, Labels, OnceInit, Done, InProgress, Go, Return,
        processes, memory, locals
<1> USE DEF ProcessInv, PidKnown, OnePublisher, SeenForeign, GenKnown, WordIsOld,
        WordIsClaimed, CurMatches, SleeperWord, DoneAfterInit, CleanClaim, CleanCount,
        Claimants, Wakers
<1>1. CASE Call(p, t)
  BY <1>a, <1>1 DEF Call
<1>2. CASE FirstLoadDone(p, t)
  <2>1. PidKnown(p)' /\ OnePublisher(p)' /\ SeenForeign(p)' /\ GenKnown(p)' /\ WordIsOld(p)'
    BY <1>a, <1>2 DEF FirstLoadDone
  <2>2. WordIsClaimed(p)' /\ CurMatches(p)' /\ SleeperWord(p)'
    BY <1>a, <1>2 DEF FirstLoadDone
  <2>3. DoneAfterInit(p)' /\ CleanClaim(p)' /\ CleanCount(p)'
    BY <1>a, <1>2 DEF FirstLoadDone
  <2> QED
    BY <2>1, <2>2, <2>3
<1>3. CASE FirstLoadNotDone(p, t)
  BY <1>a, <1>3 DEF FirstLoadNotDone
<1>4. CASE GenLoadOwn(p, t)
  BY <1>a, <1>4 DEF GenLoadOwn
<1>5. CASE GenLoadForeign(p, t)
  BY <1>a, <1>5 DEF GenLoadForeign
<1>6. CASE GenRead(p, t)
  BY <1>a, <1>6 DEF GenRead
<1>7. CASE GenCasWins(p, t)
  BY <1>a, <1>7 DEF GenCasWins
<1>8. CASE GenCasFails(p, t)
  BY <1>a, <1>8 DEF GenCasFails
<1>9. CASE GenAdd(p, t)
  BY <1>a, <1>9 DEF GenAdd
<1>10. CASE GenPublish(p, t)
  BY <1>a, <1>10 DEF GenPublish
<1>11. CASE CtlLoadDone(p, t)
  <2>1. PidKnown(p)' /\ OnePublisher(p)' /\ SeenForeign(p)' /\ GenKnown(p)' /\ WordIsOld(p)'
    BY <1>a, <1>11 DEF CtlLoadDone
  <2>2. WordIsClaimed(p)' /\ CurMatches(p)' /\ SleeperWord(p)'
    BY <1>a, <1>11 DEF CtlLoadDone
  <2>3. DoneAfterInit(p)' /\ CleanClaim(p)' /\ CleanCount(p)'
    BY <1>a, <1>11 DEF CtlLoadDone
  <2> QED
    BY <2>1, <2>2, <2>3
<1>12. CASE CtlLoadBusy(p, t)
  BY <1>a, <1>12 DEF CtlLoadBusy, Busy
<1>13. CASE CtlLoadFree(p, t)
  BY <1>a, <1>13 DEF CtlLoadFree, Busy
<1>14. CASE CtlCasWins(p, t)
  BY <1>a, <1>14 DEF CtlCasWins
<1>15. CASE CtlCasFails(p, t)
  BY <1>a, <1>15 DEF CtlCasFails
\* Nobody completed init() before: the word would say so, or another thread would
\* be about to publish, and t is the only claimant.
<1>16. CASE InitReturns(p, t)
  <2>1. p \in clean => inits[p] = 0
    BY <1>a, <1>16, FirstCompletion DEF InitReturns
  <2>2. PidKnown(p)' /\ OnePublisher(p)' /\ SeenForeign(p)' /\ GenKnown(p)'
    BY <1>a, <1>16 DEF InitReturns
  <2>3. WordIsOld(p)' /\ WordIsClaimed(p)' /\ CurMatches(p)' /\ SleeperWord(p)'
    BY <1>a, <1>16 DEF InitReturns
  <2>4. DoneAfterInit(p)'
    BY <1>a, <1>16 DEF InitReturns
  <2>5. CleanClaim(p)'
    BY <1>a, <1>16 DEF InitReturns
  <2>6. CleanCount(p)'
    BY <1>a, <1>16, <2>1 DEF InitReturns
  <2> QED
    BY <2>2, <2>3, <2>4, <2>5, <2>6
\* The word loses its claimant and stops being in progress in one step; whoever
\* sleeps on it now depends on t, which goes on to wake.
<1>17. CASE PublishDone(p, t)
  <2>1. control'[p] = Done /\ t \in Wakers(p)'
    BY <1>a, <1>17 DEF PublishDone
  <2>2. PidKnown(p)' /\ OnePublisher(p)' /\ SeenForeign(p)' /\ GenKnown(p)'
    BY <1>a, <1>17 DEF PublishDone
  <2>3. WordIsOld(p)' /\ WordIsClaimed(p)' /\ CurMatches(p)'
    BY <1>a, <1>17 DEF PublishDone
  <2>4. SleeperWord(p)'
    BY <2>1
  <2>5. DoneAfterInit(p)'
    BY <1>a, <1>17 DEF PublishDone
  <2>6. CleanClaim(p)'
    BY <1>a, <1>17 DEF PublishDone
  <2>7. CleanCount(p)'
    BY <1>a, <1>17 DEF PublishDone
  <2> QED
    BY <2>2, <2>3, <2>4, <2>5, <2>6, <2>7
\* Every sleeper goes around the loop; no other thread but t moves.
<1>18. CASE Wake(p, t)
  <2>1. PidKnown(p)' /\ OnePublisher(p)' /\ SeenForeign(p)'
    BY <1>a, <1>18 DEF Wake, WakeAll
  <2>2. GenKnown(p)' /\ WordIsOld(p)'
    BY <1>a, <1>18 DEF Wake, WakeAll
  <2>3. WordIsClaimed(p)'
    <3>1. Claimants(p)' = Claimants(p) /\ t \notin Claimants(p)
      BY <1>18 DEF Wake, WakeAll
    <3>2. \A u \in Claimants(p) : gen'[p][u] = gen[p][u]
      BY <1>a, <3>1, <1>18 DEF Wake
    <3> QED
      BY <1>a, <3>1, <3>2, <1>18 DEF Wake
  <2>4. CurMatches(p)' /\ SleeperWord(p)'
    BY <1>a, <1>18 DEF Wake, WakeAll
  <2>5. DoneAfterInit(p)' /\ CleanClaim(p)' /\ CleanCount(p)'
    BY <1>a, <1>18 DEF Wake, WakeAll
  <2> QED
    BY <2>1, <2>2, <2>3, <2>4, <2>5
<1>19. CASE FutexSleeps(p, t)
  BY <1>a, <1>19 DEF FutexSleeps
<1>20. CASE FutexChanged(p, t)
  BY <1>a, <1>20 DEF FutexChanged
<1>21. CASE CancelWake(p, t)
  <2>1. PidKnown(p)' /\ OnePublisher(p)' /\ SeenForeign(p)'
    BY <1>a, <1>21 DEF CancelWake, WakeAll
  <2>2. GenKnown(p)' /\ WordIsOld(p)'
    BY <1>a, <1>21 DEF CancelWake, WakeAll
  <2>3. WordIsClaimed(p)'
    <3>1. Claimants(p)' = Claimants(p) /\ t \notin Claimants(p)
      BY <1>21 DEF CancelWake, WakeAll
    <3> QED
      BY <1>a, <3>1, <1>21 DEF CancelWake
  <2>4. CurMatches(p)' /\ SleeperWord(p)'
    BY <1>a, <1>21 DEF CancelWake, WakeAll
  <2>5. DoneAfterInit(p)' /\ CleanClaim(p)' /\ CleanCount(p)'
    BY <1>a, <1>21 DEF CancelWake, WakeAll
  <2> QED
    BY <2>1, <2>2, <2>3, <2>4, <2>5
<1>22. CASE Interrupted(p, t)
  BY <1>a, <1>22 DEF Interrupted
<1>23. CASE Cancel(p, t)
  BY <1>a, <1>23 DEF Cancel
<1> QED
  BY <1>1, <1>2, <1>3, <1>4, <1>5, <1>6, <1>7, <1>8, <1>9, <1>10, <1>11, <1>12,
     <1>13, <1>14, <1>15, <1>16, <1>17, <1>18, <1>19, <1>20, <1>21, <1>22, <1>23
     DEF ThreadStep, Step, FirstLoad, GenLoad, GenCas, CtlLoad, CtlCas, FutexWait

\* The child of a fork starts with the invariant: its pid is new, so it owns
\* neither once_pid nor a generation, and its only thread is outside
\* pthread_once, or in init() of a process that is not clean.
LEMMA ChildStarts ==
    ASSUME TypeOK, UnusedIdle, NEW p \in alive, NEW t \in Threads, NEW q \in Pids,
           Fork(p, t, q), ProcessInv(p)
    PROVE  ProcessInv(q)'
<1>1. /\ q \in Nat /\ q > 0 /\ q \notin alive /\ q # p /\ p \in Pids /\ q \notin clean
      /\ \A r \in alive : r \in Nat /\ r > 0
  BY PidsAssumption DEF TypeOK, Fork
<1>2. /\ once_pid'[q] = once_pid[p] /\ once_generation'[q] = once_generation[p]
      /\ control'[q] = control[p] /\ inits'[q] = IF control[p].state = "done" THEN 1 ELSE 0
      /\ \A u \in Threads : pc'[q][u] = IF u = t THEN pc[p][t] ELSE "idle"
  BY <1>1 DEF TypeOK, UnusedIdle, Fork
<1>3. pc[p][t] \in {"idle", "init"} /\ (pc[p][t] # "idle" => q \notin clean')
  BY <1>1 DEF Fork
<1>4. once_pid'[q] \notin {q, -q} /\ PidKnown(q)'
  BY <1>1, <1>2 DEF ProcessInv, PidKnown, Fork, TypeOK
<1>5. OnePublisher(q)' /\ SeenForeign(q)' /\ GenKnown(q)' /\ CurMatches(q)' /\ SleeperWord(q)'
  BY <1>2, <1>3 DEF OnePublisher, SeenForeign, GenKnown, CurMatches, SleeperWord
<1>6. WordIsOld(q)'
  BY <1>2, <1>3 DEF WordIsOld, ProcessInv, TypeOK
<1>7. WordIsClaimed(q)'
  BY <1>4 DEF WordIsClaimed
<1>8. DoneAfterInit(q)'
  BY <1>2, <1>3 DEF DoneAfterInit, ProcessInv
<1>9. CleanClaim(q)' /\ CleanCount(q)'
  BY <1>2, <1>3 DEF CleanClaim, CleanCount, Claimants, Done, Word
<1> QED
  BY <1>4, <1>5, <1>6, <1>7, <1>8, <1>9 DEF ProcessInv

----------------------------------------------------------------------------
\* Every step keeps the inductive invariant.
LEMMA Inductive == IndInv /\ [Next]_vars => IndInv'
<1> SUFFICES ASSUME IndInv, [Next]_vars PROVE IndInv'
  OBVIOUS
<1>1. TypeOK /\ TypeOK'
  BY TypeInvariant DEF IndInv
<1>2. CASE UNCHANGED vars
  <2>1. \A r \in alive : UNCHANGED StateOf(r)
    BY <1>2 DEF vars, StateOf
  <2>2. \A r \in alive : ProcessInv(r)'
    BY <1>2, <2>1, UntouchedKeeps DEF vars, IndInv
  <2> QED
    BY <1>1, <1>2, <2>2 DEF vars, IndInv, UnusedIdle
<1>3. ASSUME NEW p \in alive, NEW t \in Threads, ThreadStep(p, t)
      PROVE IndInv'
  <2>1. UNCHANGED <<alive, clean>> /\ \A r \in Pids \ {p} : UNCHANGED StateOf(r)
    <3>1. UNCHANGED <<alive, clean>>
      BY <1>3 DEF ThreadStep, Step, Call, FirstLoad, FirstLoadDone,
         FirstLoadNotDone, GenLoad, GenLoadOwn, GenLoadForeign, GenRead, GenCas,
         GenCasWins, GenCasFails, GenAdd, GenPublish, CtlLoad, CtlLoadDone,
         CtlLoadBusy, CtlLoadFree, CtlCas, CtlCasWins, CtlCasFails, InitReturns,
         PublishDone, Wake, FutexWait, FutexSleeps, FutexChanged, CancelWake,
         Interrupted, Cancel, processes
    <3> QED
      BY <1>1, <1>3, <3>1, ThreadStepIsLocal
  <2>2. \A r \in alive \ {p} : ProcessInv(r)'
    BY <1>1, <2>1, UntouchedKeeps DEF IndInv, TypeOK
  <2>3. ProcessInv(p)'
    BY <1>1, <1>3, OwnKeeps DEF IndInv
  <2>4. UnusedIdle'
    BY <2>1 DEF IndInv, UnusedIdle, StateOf
  <2> QED
    BY <1>1, <2>1, <2>2, <2>3, <2>4 DEF IndInv
<1>4. ASSUME NEW p \in alive, NEW t \in Threads, NEW q \in Pids, Fork(p, t, q)
      PROVE IndInv'
  <2>1. /\ q \notin alive /\ alive' = alive \cup {q} /\ clean' \subseteq clean \cup {q}
        /\ \A r \in Pids \ {q} : UNCHANGED StateOf(r)
    BY <1>1, <1>4 DEF Fork, TypeOK, StateOf
  <2>2. \A r \in alive : ProcessInv(r)'
    BY <1>1, <2>1, UntouchedKeeps DEF IndInv, TypeOK
  <2>3. ProcessInv(q)'
    BY <1>1, <1>4, ChildStarts DEF IndInv
  <2>4. UnusedIdle'
    BY <2>1 DEF IndInv, UnusedIdle, StateOf
  <2> QED
    BY <1>1, <2>1, <2>2, <2>3, <2>4 DEF IndInv
<1> QED
  BY <1>2, <1>3, <1>4 DEF Next, ProcessNext, ThreadStep

\* The inductive invariant holds in every reachable state.
THEOREM Invariance == Spec => []IndInv
<1>1. Init => IndInv
  <2> SUFFICES ASSUME Init PROVE IndInv
    OBVIOUS
  <2>1. TypeOK
    BY PidsAssumption DEF Init, TypeOK, Words, Word, Labels, OnceInit
  <2>2. alive = {Root} /\ Root \in Nat /\ Root > 0
    BY PidsAssumption DEF Init
  <2>3. ProcessInv(Root)
    BY <2>2, PidsAssumption DEF Init, OnceInit, Word, InProgress,
     ProcessInv, PidKnown, OnePublisher, SeenForeign, GenKnown, WordIsOld,
     WordIsClaimed, CurMatches, SleeperWord, DoneAfterInit, CleanClaim, CleanCount,
     Claimants, Wakers
  <2> QED
    BY <2>1, <2>2, <2>3 DEF IndInv, UnusedIdle, Init
<1> QED
  BY <1>1, Inductive, PTL DEF Spec

----------------------------------------------------------------------------
\* In every process that was not forked out of a running init(), pthread_once
\* runs init() in one thread at a time, and it completes at most once.
THEOREM AtMostOnce == Spec => []InitOnce
<1>1. IndInv => InitOnce
  BY DEF IndInv, TypeOK, ProcessInv, CleanClaim, CleanCount, InitOnce
<1> QED
  BY <1>1, Invariance, PTL

\* No thread sleeps on the futex of a word that nobody will change and announce.
THEOREM NoForgottenSleeper == Spec => []SleeperHasWaker
<1>1. IndInv => SleeperHasWaker
  <2> SUFFICES ASSUME IndInv, NEW p \in alive, NEW t \in Threads,
                      pc[p][t] = "asleep", Wakers(p) = {}
               PROVE  /\ control[p] = cur[p][t]
                      /\ \E u \in Claimants(p) : InProgress(gen[p][u]) = control[p]
    BY DEF SleeperHasWaker
  <2>1. ProcessInv(p)
    BY DEF IndInv
  <2>2. control[p] = cur[p][t]
    BY <2>1 DEF ProcessInv, SleeperWord
  <2>3. cur[p][t] = InProgress(once_generation[p]) /\ once_pid[p] = p
    BY <2>1 DEF ProcessInv, CurMatches, GenKnown
  <2>4. PICK u \in Claimants(p) : gen[p][u] = once_generation[p]
    BY <2>1, <2>2, <2>3 DEF ProcessInv, WordIsClaimed
  <2> QED
    BY <2>2, <2>3, <2>4
<1> QED
  BY <1>1, Invariance, PTL

\* A call of pthread_once returns only after a completed init().
THEOREM NoEarlyReturn == Spec => ReturnAfterInit
<1>1. ASSUME IndInv, [Next]_vars, NEW p \in Pids, NEW t \in Threads,
             p \in alive, pc[p][t] # "idle", pc'[p][t] = "idle"
      PROVE  inits[p] >= 1
  <2>1. TypeOK /\ DoneAfterInit(p)
    BY <1>1 DEF IndInv, ProcessInv
  <2>2. ASSUME NEW r \in alive, NEW u \in Threads, ThreadStep(r, u)
        PROVE  inits[p] >= 1
    <3>1. r = p
      BY <1>1, <2>1, <2>2, ThreadStepIsLocal DEF StateOf
    <3>2. CASE FirstLoadDone(p, u) \/ CtlLoadDone(p, u)
      BY <2>1, <3>2 DEF FirstLoadDone, CtlLoadDone, DoneAfterInit
    <3>3. CASE Wake(p, u)
      BY <2>1, <3>3 DEF Wake, WakeAll, DoneAfterInit
    <3>4. CASE CancelWake(p, u)
      BY <1>1, <2>1, <3>4 DEF CancelWake, WakeAll, TypeOK
    <3>5. ASSUME NEW from, NEW to, Go(p, u, from, to), to # "idle"
          PROVE  FALSE
      BY <1>1, <2>1, <3>5 DEF Go, TypeOK
    <3>6. CASE Call(p, u) \/ FirstLoadNotDone(p, u) \/ GenLoad(p, u) \/ GenRead(p, u)
      BY <3>5, <3>6 DEF Call, FirstLoadNotDone, GenLoad, GenLoadOwn, GenLoadForeign,
         GenRead
    <3>7. CASE GenCas(p, u) \/ GenAdd(p, u) \/ GenPublish(p, u)
      BY <3>5, <3>7 DEF GenCas, GenCasWins, GenCasFails, GenAdd, GenPublish
    <3>8. CASE CtlLoadBusy(p, u) \/ CtlLoadFree(p, u) \/ CtlCas(p, u)
      BY <3>5, <3>8 DEF CtlLoadBusy, CtlLoadFree, CtlCas, CtlCasWins, CtlCasFails
    <3>9. CASE InitReturns(p, u) \/ PublishDone(p, u) \/ FutexWait(p, u)
               \/ Interrupted(p, u) \/ Cancel(p, u)
      BY <3>5, <3>9 DEF InitReturns, PublishDone, FutexWait, FutexSleeps,
         FutexChanged, Interrupted, Cancel
    <3> QED
      BY <2>2, <3>1, <3>2, <3>3, <3>4, <3>6, <3>7, <3>8, <3>9
         DEF ThreadStep, Step, FirstLoad, CtlLoad
  <2>3. ASSUME NEW r \in alive, NEW u \in Threads, NEW q \in Pids, Fork(r, u, q)
        PROVE  FALSE
    BY <1>1, <2>1, <2>3 DEF Fork, TypeOK
  <2>4. ~UNCHANGED vars
    BY <1>1 DEF vars
  <2> QED
    BY <1>1, <2>2, <2>3, <2>4 DEF Next, ProcessNext, ThreadStep
<1>2. IndInv /\ [Next]_vars =>
        [\A p \in Pids, t \in Threads :
            (p \in alive /\ pc[p][t] # "idle" /\ pc'[p][t] = "idle")
                => inits[p] >= 1]_vars
  BY <1>1
<1> QED
  BY <1>2, Invariance, PTL DEF Spec, ReturnAfterInit

\* In such a process DONE is the last value of the control word.
THEOREM DoneStays == Spec => DoneIsFinal
<1>1. ASSUME IndInv, [Next]_vars, NEW p \in clean, control[p].state = "done"
      PROVE  control'[p] = control[p]
  <2>1. TypeOK /\ p \in alive /\ CleanClaim(p) /\ CurMatches(p)
    BY <1>1 DEF IndInv, ProcessInv, TypeOK
  <2>2. Claimants(p) = {}
    BY <1>1, <2>1 DEF CleanClaim, InProgress, Word
  <2>3. ASSUME NEW r \in alive, NEW u \in Threads, ThreadStep(r, u)
        PROVE  control'[p] = control[p]
    <3>1. CASE r # p
      BY <2>1, <2>3, <3>1, ThreadStepIsLocal DEF StateOf, TypeOK
    <3>2. CASE r = p
      BY <1>1, <2>1, <2>2, <2>3, <3>2 DEF ThreadStep, Step, Call, FirstLoad,
         FirstLoadDone, FirstLoadNotDone, GenLoad, GenLoadOwn, GenLoadForeign,
         GenRead, GenCas, GenCasWins, GenCasFails, GenAdd, GenPublish, CtlLoad,
         CtlLoadDone, CtlLoadBusy, CtlLoadFree, CtlCas, CtlCasWins, CtlCasFails,
         InitReturns, PublishDone, Wake, WakeAll, FutexWait, FutexSleeps,
         FutexChanged, CancelWake, Interrupted, Cancel, Go, Return, CurMatches,
         Claimants, memory
    <3> QED
      BY <3>1, <3>2
  <2>4. ASSUME NEW r \in alive, NEW u \in Threads, NEW q \in Pids, Fork(r, u, q)
        PROVE  control'[p] = control[p]
    BY <2>1, <2>4 DEF Fork, TypeOK
  <2>5. CASE UNCHANGED vars
    BY <2>5 DEF vars
  <2> QED
    BY <1>1, <2>3, <2>4, <2>5 DEF Next, ProcessNext, ThreadStep
<1>2. IndInv /\ [Next]_vars =>
        [\A p \in clean : control[p].state = "done" => control'[p] = control[p]]_vars
  BY <1>1
<1> QED
  BY <1>2, Invariance, PTL DEF Spec, DoneIsFinal

----------------------------------------------------------------------------
(* pthread_once implements OnceContract.                                   *)

\* The state of the contract.
Dones == [p \in Pids |-> control[p].state = "done"]
Stages == [p \in Pids |-> [t \in Threads |-> Stage(pc[p][t])]]

\* One entry changes when every other keeps its value.
LEMMA OneStage ==
    ASSUME NEW p \in Pids, NEW t \in Threads, NEW x,
           \A q \in Pids, u \in Threads :
              Stage(pc[q][u])' = IF q = p /\ u = t THEN x ELSE Stage(pc[q][u])
    PROVE  Stages' = [Stages EXCEPT ![p][t] = x]
<1> DEFINE after == [q \in Pids |-> [u \in Threads |->
                        IF q = p /\ u = t THEN x ELSE Stage(pc[q][u])]]
<1>1. Stages' = after
  BY DEF Stages
<1>2. after = [Stages EXCEPT ![p][t] = x]
  <2>1. ASSUME NEW q \in Pids, q # p PROVE after[q] = Stages[q]
    BY <2>1 DEF Stages
  <2>2. after[p] = [Stages[p] EXCEPT ![t] = x]
    BY DEF Stages
  <2> QED
    BY <2>1, <2>2 DEF Stages
<1> QED
  BY <1>1, <1>2

\* A thread that goes on moves, or stays, in the contract; the others stay.
LEMMA StageMoves ==
    ASSUME TypeOK, NEW p \in alive, NEW t \in Threads, NEW from, NEW to,
           Go(p, t, from, to)
    PROVE  /\ Stages[p][t] = Stage(from)
           /\ Stages' = [Stages EXCEPT ![p][t] = Stage(to)]
<1>1. p \in Pids /\ pc[p][t] = from /\ pc' = [pc EXCEPT ![p][t] = to]
  BY DEF TypeOK, Go
<1>2. Stages[p][t] = Stage(from)
  BY <1>1 DEF Stages
<1>3. \A q \in Pids, u \in Threads :
         pc'[q][u] = IF q = p /\ u = t THEN to ELSE pc[q][u]
  BY <1>1 DEF TypeOK
<1>4. \A q \in Pids, u \in Threads :
         Stage(pc[q][u])' = IF q = p /\ u = t THEN Stage(to) ELSE Stage(pc[q][u])
  BY <1>3 DEF Stage
<1> QED
  BY <1>1, <1>2, <1>4, OneStage

\* Sleepers that are woken stay in pthread_once.
LEMMA StageWakes ==
    ASSUME TypeOK, NEW p \in alive, NEW t \in Threads, NEW from, NEW to,
           WakeAll(p, t, from, to)
    PROVE  /\ Stages[p][t] = Stage(from)
           /\ Stages' = [Stages EXCEPT ![p][t] = Stage(to)]
<1>1. p \in Pids /\ pc[p][t] = from
  BY DEF TypeOK, WakeAll
<1>2. Stages[p][t] = Stage(from)
  BY <1>1 DEF Stages
<1>3. \A q \in Pids, u \in Threads :
         pc'[q][u] = IF q = p /\ u = t THEN to
                     ELSE IF q = p /\ pc[p][u] = "asleep" THEN "gen_load" ELSE pc[q][u]
  BY <1>1 DEF TypeOK, WakeAll
<1>4. Stage("asleep") = Stage("gen_load")
  BY DEF Stage
<1>5. \A q \in Pids, u \in Threads :
         Stage(pc[q][u])' = IF q = p /\ u = t THEN Stage(to) ELSE Stage(pc[q][u])
  BY <1>3, <1>4 DEF Stage
<1> QED
  BY <1>1, <1>2, <1>5, OneStage

\* A thread that takes a step and stays at the same stage changes nothing that
\* the contract speaks of.
LEMMA StageStays ==
    ASSUME TypeOK, NEW p \in alive, NEW t \in Threads, NEW from, NEW to,
           Go(p, t, from, to), Stage(from) = Stage(to),
           UNCHANGED <<alive, clean, control>>
    PROVE  UNCHANGED Once!vars
<1>1. p \in Pids
  BY DEF TypeOK
<1>2. Stages' = [Stages EXCEPT ![p][t] = Stages[p][t]]
  BY StageMoves
<1>3. Stages' = Stages
  BY <1>1, <1>2 DEF Stages
<1> QED
  BY <1>3 DEF Once!vars, Stages

\* A thread's move in the contract, by a step that changes neither the set of
\* processes nor another thread.
LEMMA MoveMapped ==
    ASSUME TypeOK, NEW p \in alive, NEW t \in Threads, NEW from, NEW to,
           Go(p, t, from, to) \/ WakeAll(p, t, from, to), UNCHANGED processes
    PROVE  Once!Moves(p, t, Stage(from), Stage(to))
<1>1. p \in Pids
  BY DEF TypeOK
<1>2. Stages[p][t] = Stage(from) /\ Stages' = [Stages EXCEPT ![p][t] = Stage(to)]
  BY StageMoves, StageWakes
<1> QED
  BY <1>1, <1>2 DEF Once!Moves, processes, Stages

\* A store to the control word of p, as the contract sees it.
LEMMA StoreMapped ==
    ASSUME TypeOK, NEW p \in alive, NEW state, NEW g, NEW d \in BOOLEAN,
           control' = [control EXCEPT ![p] = Word(state, g)], d <=> state = "done"
    PROVE  Dones' = [Dones EXCEPT ![p] = d]
<1>1. p \in Pids
  BY DEF TypeOK
<1>2. \A q \in Pids : control'[q] = IF q = p THEN Word(state, g) ELSE control[q]
  BY <1>1 DEF TypeOK
<1>3. \A q \in Pids : (control'[q].state = "done") = IF q = p THEN d ELSE control[q].state = "done"
  BY <1>2 DEF Word
<1> QED
  BY <1>1, <1>3 DEF Dones

\* As long as a thread of a clean process is in init(), its word is not DONE.
LEMMA ClaimedIsNotDone ==
    ASSUME TypeOK, NEW p \in alive, ProcessInv(p), NEW t \in Claimants(p)
    PROVE  p \in clean => ~Dones[p]
<1>1. p \in Pids /\ (p \in clean => control[p] = InProgress(once_generation[p]))
  BY DEF TypeOK, ProcessInv, CleanClaim
<1>2. p \in clean => control[p].state # "done"
  BY <1>1 DEF InProgress, Word
<1> QED
  BY <1>1, <1>2 DEF Dones

\* The threads in init() are those that have claimed the word.
LEMMA InitialisingIsClaimants ==
    ASSUME TypeOK, NEW p \in alive
    PROVE  Once!Initialising(p) = Claimants(p)
<1>1. p \in Pids
  BY DEF TypeOK
<1>2. \A t \in Threads : Stage(pc[p][t]) = "init" <=> pc[p][t] \in {"init", "publish"}
  BY DEF Stage
<1> QED
  BY <1>1, <1>2 DEF Once!Initialising, Claimants

\* Every step of a thread is a step of the contract, or is not seen there.
LEMMA ThreadStepMapped ==
    ASSUME TypeOK, NEW p \in alive, ProcessInv(p), NEW t \in Threads, ThreadStep(p, t)
    PROVE  \/ UNCHANGED Once!vars
           \/ Once!Enter(p, t) \/ Once!Begin(p, t) \/ Once!Complete(p, t)
           \/ Once!Abandon(p, t) \/ Once!Return(p, t)
<1>p. p \in Pids
  BY DEF TypeOK
<1>d. Dones[p] <=> control[p].state = "done"
  BY <1>p DEF Dones
<1>1. CASE Call(p, t)
  <2>1. Once!Moves(p, t, Stage("idle"), Stage("first_load")) /\ UNCHANGED control
    BY <1>1, MoveMapped DEF Call, memory
  <2> QED
    BY <2>1 DEF Stage, Once!Enter
<1>2. CASE FirstLoadDone(p, t)
  <2>1. Once!Moves(p, t, Stage("first_load"), Stage("idle")) /\ UNCHANGED control
    BY <1>2, MoveMapped DEF FirstLoadDone, Return, memory
  <2>2. Once!Moves(p, t, "in", "out") /\ Dones[p]
    BY <2>1, <1>2, <1>d DEF Stage, FirstLoadDone
  <2> QED
    BY <2>1, <2>2 DEF Once!Return, Dones
<1>3. CASE CtlLoadDone(p, t)
  <2>1. Once!Moves(p, t, Stage("ctl_load"), Stage("idle")) /\ UNCHANGED control
    BY <1>3, MoveMapped DEF CtlLoadDone, Return, memory
  <2>2. Once!Moves(p, t, "in", "out") /\ Dones[p]
    BY <2>1, <1>3, <1>d DEF Stage, CtlLoadDone
  <2> QED
    BY <2>1, <2>2 DEF Once!Return, Dones
<1>4. CASE Wake(p, t)
  <2>1. Once!Moves(p, t, Stage("wake"), Stage("idle")) /\ UNCHANGED control
    BY <1>4, MoveMapped DEF Wake, memory
  <2> QED
    BY <2>1 DEF Stage, Once!Return
\* The compare-and-swap succeeds: the word is not the one that a claimant of a
\* clean process would have left there.
<1>5. CASE CtlCasWins(p, t)
  <2>1. /\ pc[p][t] = "ctl_cas" /\ control[p] = cur[p][t]
        /\ control' = [control EXCEPT ![p] = InProgress(gen[p][t])]
    BY <1>5 DEF CtlCasWins, Go
  <2>2. Once!Moves(p, t, Stage("ctl_cas"), Stage("init"))
    BY <1>5, MoveMapped DEF CtlCasWins
  <2>3. control[p].state # "done" /\ control[p] # InProgress(once_generation[p])
    BY <2>1 DEF ProcessInv, CurMatches
  <2>4. p \in clean => Claimants(p) = {}
    BY <2>3 DEF ProcessInv, CleanClaim
  <2>5. Dones' = [Dones EXCEPT ![p] = FALSE]
    <3>1. control' = [control EXCEPT ![p] = Word("inprogress", gen[p][t])]
      BY <2>1 DEF InProgress
    <3>2. FALSE <=> "inprogress" = "done"
      OBVIOUS
    <3> QED
      BY <3>1, <3>2, StoreMapped
  <2>6. Dones' = Dones
    BY <1>p, <2>3, <2>5 DEF Dones
  <2> QED
    BY <1>d, <2>2, <2>3, <2>4, <2>6, InitialisingIsClaimants DEF Stage, Once!Begin, Dones
<1>6. CASE PublishDone(p, t)
  <2>1. t \in Claimants(p) /\ control' = [control EXCEPT ![p] = Done]
    BY <1>6 DEF PublishDone, Go, Claimants
  <2>2. Once!Moves(p, t, Stage("publish"), Stage("wake"))
    BY <1>6, MoveMapped DEF PublishDone
  <2>3. Dones' = [Dones EXCEPT ![p] = TRUE]
    BY <2>1, StoreMapped DEF Done
  <2> QED
    BY <2>1, <2>2, <2>3, ClaimedIsNotDone DEF Stage, Once!Complete, Dones
<1>7. CASE Cancel(p, t)
  <2>1. t \in Claimants(p) /\ control' = [control EXCEPT ![p] = OnceInit]
    BY <1>7 DEF Cancel, Go, Claimants
  <2>2. Once!Moves(p, t, Stage("init"), Stage("cancel_wake"))
    BY <1>7, MoveMapped DEF Cancel
  <2>3. Dones' = [Dones EXCEPT ![p] = FALSE]
    BY <2>1, StoreMapped DEF OnceInit
  <2> QED
    BY <2>1, <2>2, <2>3, ClaimedIsNotDone DEF Stage, Once!Abandon, Dones
<1>8. CASE CancelWake(p, t)
  <2>1. UNCHANGED <<alive, clean, control>>
    BY <1>8 DEF CancelWake, processes, memory
  <2>2. Stages' = [Stages EXCEPT ![p][t] = Stage("dead")] /\ Stages[p][t] = Stage("cancel_wake")
    BY <1>8, StageWakes DEF CancelWake
  <2>3. Stages' = [Stages EXCEPT ![p][t] = Stages[p][t]]
    BY <2>2 DEF Stage
  <2>4. Stages' = Stages
    BY <1>p, <2>3 DEF Stages
  <2> QED
    BY <2>1, <2>4 DEF Once!vars, Stages
\* The steps of the search for the generation, of the loop and of the wait.
<1>9. ASSUME NEW from \in Labels, NEW to \in Labels, Go(p, t, from, to),
             Stage(from) = Stage(to), UNCHANGED <<alive, clean, control>>
      PROVE  UNCHANGED Once!vars
  BY <1>9, StageStays
<1>10. CASE FirstLoadNotDone(p, t) \/ GenLoad(p, t) \/ GenRead(p, t) \/ GenCas(p, t)
  BY <1>9, <1>10 DEF FirstLoadNotDone, GenLoad, GenLoadOwn, GenLoadForeign, GenRead,
     GenCas, GenCasWins, GenCasFails, processes, memory, Labels, Stage
<1>11. CASE GenAdd(p, t) \/ GenPublish(p, t) \/ CtlLoadBusy(p, t) \/ CtlLoadFree(p, t)
  BY <1>9, <1>11 DEF GenAdd, GenPublish, CtlLoadBusy, CtlLoadFree, processes, memory,
     Labels, Stage
<1>12. CASE CtlCasFails(p, t) \/ InitReturns(p, t) \/ FutexWait(p, t) \/ Interrupted(p, t)
  BY <1>9, <1>12 DEF CtlCasFails, InitReturns, FutexWait, FutexSleeps, FutexChanged,
     Interrupted, processes, memory, Labels, Stage
<1> QED
  BY <1>1, <1>2, <1>3, <1>4, <1>5, <1>6, <1>7, <1>8, <1>10, <1>11, <1>12
     DEF ThreadStep, Step, FirstLoad, CtlLoad, CtlCas

\* The fork of a process is the fork of the contract.
LEMMA ForkMapped ==
    ASSUME TypeOK, NEW p \in alive, NEW t \in Threads, NEW q \in Pids, Fork(p, t, q)
    PROVE  Once!Fork(p, t, q)
<1>1. /\ p \in Pids /\ q \notin alive /\ pc[p][t] \in {"idle", "init"}
      /\ alive' = alive \cup {q}
      /\ clean' = IF pc[p][t] = "idle" THEN clean \cup {q} ELSE clean
  BY DEF Fork, TypeOK
<1>2. Stages[p][t] = IF pc[p][t] = "idle" THEN "out" ELSE "init"
  BY <1>1 DEF Stages, Stage
<1>3. \A r \in Pids : control'[r] = IF r = q THEN control[p] ELSE control[r]
  BY <1>1 DEF Fork, TypeOK
<1>4. \A r \in Pids, u \in Threads :
         pc'[r][u] = IF r = q /\ u = t THEN pc[p][t] ELSE pc[r][u]
  BY <1>1 DEF Fork, TypeOK
<1>5. Dones' = [Dones EXCEPT ![q] = Dones[p]]
  BY <1>1, <1>3 DEF Dones
<1>6. \A r \in Pids, u \in Threads :
         Stage(pc[r][u])' = IF r = q /\ u = t THEN Stage(pc[p][t]) ELSE Stage(pc[r][u])
  BY <1>4 DEF Stage
<1>7. Stages' = [Stages EXCEPT ![q][t] = Stages[p][t]]
  BY <1>1, <1>2, <1>6, OneStage DEF Stages
<1> QED
  BY <1>1, <1>2, <1>5, <1>7 DEF Once!Fork, Dones, Stages

\* pthread_once, load by load and store by store, implements its contract, for
\* any number of processes and threads.
THEOREM ContractImplemented == Spec => OnceSpec
<1>1. ASSUME Init PROVE Once!Init
  <2>1. \A p \in Pids : control[p].state # "done"
    BY <1>1 DEF Init, OnceInit, Word
  <2>2. \A p \in Pids, t \in Threads : Stage(pc[p][t]) = "out"
    BY <1>1 DEF Init, Stage
  <2> QED
    BY <1>1, <2>1, <2>2 DEF Init, Once!Init
<1>2. ASSUME IndInv, [Next]_vars PROVE [Once!Next]_Once!vars
  <2>1. TypeOK /\ \A p \in alive : ProcessInv(p)
    BY <1>2 DEF IndInv
  <2>2. ASSUME NEW p \in alive, NEW t \in Threads, ThreadStep(p, t)
        PROVE  [Once!Next]_Once!vars
    BY <2>1, <2>2, ThreadStepMapped DEF Once!Next
  <2>3. ASSUME NEW p \in alive, NEW t \in Threads, NEW q \in Pids, Fork(p, t, q)
        PROVE  Once!Next
    BY <2>1, <2>3, ForkMapped DEF Once!Next
  <2>4. CASE UNCHANGED vars
    BY <2>4 DEF vars, Once!vars
  <2> QED
    BY <1>2, <2>2, <2>3, <2>4 DEF Next, ProcessNext, ThreadStep
<1> QED
  BY <1>1, <1>2, Invariance, PTL DEF Spec, OnceSpec, Once!Spec
=============================================================================

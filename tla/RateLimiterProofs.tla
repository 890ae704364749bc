-------------------------- MODULE RateLimiterProofs --------------------------
(***************************************************************************)
(* Proofs about RateLimiter, for any number of threads and any window.     *)
(* Inv is inductive: the sleep of acquire is bounded by it alone, and the  *)
(* permits of a window are accounted for by WindowBounded.  BurstInv adds  *)
(* how the window that is open and the stretch before it share out the     *)
(* permits of any stretch of time.                                         *)
(***************************************************************************)
EXTENDS RateLimiter, TLAPS

Inv == TypeOK /\ WindowBounded

\* What BurstBounded rests on, with total read at two times of the history.
\* Nothing is counted yet after the present.
Settled == \A i \in now + 1 .. MaxTime + 1 : total[i] = total[now + 1]

\* Of the window that is open, what was taken since any time of it and what
\* is left are together no more than a window, ...
OpenWindow ==
    \A a \in m_lastPermitsUpdateTime .. now + 1 :
        /\ total[now + 1] - total[a] + m_currentPermitsSize <= MaxPermits
        /\ \A b \in a .. now + 1 : total[b] - total[a] <= MaxPermits

\* ... and once it is over, nothing more is taken from it.
OverWindow ==
    now - m_lastPermitsUpdateTime >= WindowMS => total[now + 1] <= total[now]

\* Of the stretch before the window that is open, no more than one window.
LastWindow ==
    \A a \in 0 .. m_lastPermitsUpdateTime :
        m_lastPermitsUpdateTime <= a + WindowMS =>
            total[m_lastPermitsUpdateTime] - total[a] <= MaxPermits

BurstInv ==
    /\ Inv
    /\ ~AllowExceed => Settled /\ OpenWindow /\ OverWindow /\ LastWindow
    /\ BurstBounded

-----------------------------------------------------------------------------
\* A difference of times is a natural number.
LEMMA MinusNat == \A a, b \in Int : Minus(a, b) \in Nat
  BY LimiterConstants DEF Minus

\* acquire sleeps at least 1 ms and at most a window.
LEMMA SleepBounds ==
    ASSUME TypeOK, NEW time \in Nat
    PROVE  SleepMS(time) \in 1 .. WindowMS
<1>1. m_lastPermitsUpdateTime \in Int /\ time \in Int
  BY LimiterConstants DEF TypeOK
<1>2. Minus(time, m_lastPermitsUpdateTime) \in Nat
  BY <1>1, MinusNat, Zenon
<1>3. QED
  BY <1>2, LimiterConstants DEF SleepMS

\* A thread's record keeps its type.
LEMMA CallerFacts ==
    ASSUME TypeOK, NEW t \in Threads
    PROVE  /\ caller[t] \in Caller
           /\ \A pc \in {"idle", "try", "failed", "read", "sleep"}, time \in Nat :
                 Set(t, pc, time) => caller' \in [Threads -> Caller]
           /\ \A n \in Nat : ReturnWith(t, n) => caller' \in [Threads -> Caller]
<1>1. caller[t] \in Caller
  BY DEF TypeOK
<1>2. ASSUME NEW pc \in {"idle", "try", "failed", "read", "sleep"}, NEW time \in Nat,
             Set(t, pc, time)
      PROVE  caller' \in [Threads -> Caller]
  <2>1. [caller[t] EXCEPT !.pc = pc, !.time = time] \in Caller
    BY <1>1 DEF Caller
  <2>2. caller' = [caller EXCEPT ![t] = [caller[t] EXCEPT !.pc = pc, !.time = time]]
    BY <1>2 DEF Set, TypeOK
  <2>3. QED
    BY <2>1, <2>2 DEF TypeOK
<1>3. ASSUME NEW n \in Nat, ReturnWith(t, n)
      PROVE  caller' \in [Threads -> Caller]
  <2>1. [caller[t] EXCEPT !.pc = "idle", !.held = n, !.time = 0] \in Caller
    BY <1>1 DEF Caller
  <2>2. caller' = [caller EXCEPT ![t] =
                      [caller[t] EXCEPT !.pc = "idle", !.held = n, !.time = 0]]
    BY <1>3 DEF ReturnWith, TypeOK
  <2>3. QED
    BY <2>1, <2>2 DEF TypeOK
<1>4. QED
  BY <1>1, <1>2, <1>3

\* The history keeps its type.
LEMMA CountType ==
    ASSUME TypeOK, NEW n \in Int, Count(n)
    PROVE  total' \in [0 .. MaxTime + 1 -> Int]
  BY LimiterConstants DEF TypeOK, Count

\* The permits before a request are those of a window.
LEMMA AvailableFacts ==
    ASSUME Inv
    PROVE  /\ Available \in 0 .. MaxPermits
           /\ WindowOver \in BOOLEAN
           /\ ~WindowOver => Available = m_currentPermitsSize
           /\ WindowOver => Available = MaxPermits
  BY LimiterConstants DEF Inv, TypeOK, Available, WindowOver

\* The numbers that the permits of a window are reckoned with.
LEMMA Numbers ==
    ASSUME Inv
    PROVE  /\ MaxPermits \in Nat /\ m_currentPermitsSize \in 0 .. MaxPermits
           /\ granted \in Nat /\ returned \in Nat
           /\ granted + m_currentPermitsSize <= MaxPermits + returned
  BY LimiterConstants DEF Inv, TypeOK, WindowBounded

\* tryAcquire keeps the permits of the window accounted for.
LEMMA TryStep ==
    ASSUME Inv, NEW t \in Threads, NEW n \in Nat, NEW G, NEW R,
           TryAcquire(t, n, G, R), UNCHANGED now,
           caller' \in [Threads -> Caller], calls' \in Nat
    PROVE  Inv'
<1>0. now' \in 0 .. MaxTime
  BY DEF Inv, TypeOK
<1>1. m_lastPermitsUpdateTime' \in 0 .. now'
  BY LimiterConstants DEF TryAcquire, StartWindow, Inv, TypeOK
<1>2. CASE Available >= n /\ Take(n)
           /\ granted' = n + (IF WindowOver THEN 0 ELSE granted)
           /\ Count(n)
  <2>1. total' \in [0 .. MaxTime + 1 -> Int]
    BY <1>2, CountType DEF Inv
  <2>2. /\ m_currentPermitsSize' = Available - n
        /\ returned' = IF WindowOver THEN 0 ELSE returned
    BY <1>2 DEF TryAcquire, Take
  <2>3. /\ m_currentPermitsSize' \in 0 .. MaxPermits
        /\ granted' \in Nat /\ returned' \in Nat
        /\ granted' + m_currentPermitsSize' <= MaxPermits + returned'
    BY <1>2, <2>2, AvailableFacts, Numbers
  <2>4. QED
    BY <1>0, <1>1, <2>1, <2>3 DEF Inv, TypeOK, WindowBounded
<1>3. CASE Available < n /\ m_currentPermitsSize' = Available
           /\ granted' = (IF WindowOver THEN 0 ELSE granted) /\ UNCHANGED total
  <2>1. returned' = IF WindowOver THEN 0 ELSE returned
    BY DEF TryAcquire
  <2>2. /\ m_currentPermitsSize' \in 0 .. MaxPermits
        /\ granted' \in Nat /\ returned' \in Nat
        /\ granted' + m_currentPermitsSize' <= MaxPermits + returned'
    BY <1>3, <2>1, AvailableFacts, Numbers
  <2>3. total' \in [0 .. MaxTime + 1 -> Int]
    BY <1>3 DEF Inv, TypeOK
  <2>4. QED
    BY <1>0, <1>1, <2>2, <2>3 DEF Inv, TypeOK, WindowBounded
<1>4. QED
  BY <1>2, <1>3 DEF TryAcquire

\* Every step keeps the invariant.
LEMMA StepInv == Inv /\ [Next]_vars => Inv'
<1> USE LimiterConstants
<1> SUFFICES ASSUME Inv, [Next]_vars PROVE Inv'
  OBVIOUS
<1>1. CASE UNCHANGED vars
  BY <1>1 DEF vars, permits, history, Inv, TypeOK, WindowBounded
<1>2. CASE Tick
  BY <1>2 DEF Tick, permits, history, Inv, TypeOK, WindowBounded
<1>3. ASSUME NEW t \in Threads, NEW n \in Amounts,
             AcquireTooMany(t, n) \/ CallTryAcquire(t, n) \/ CallAcquire(t, n)
      PROVE  Inv'
  <2>1. n \in Nat /\ calls' \in Nat
    BY <1>3 DEF AcquireTooMany, CallTryAcquire, CallAcquire, Call, Inv, TypeOK
  <2>2. CASE AcquireTooMany(t, n)
    <3>1. caller' \in [Threads -> Caller]
      BY <2>2, CallerFacts DEF AcquireTooMany, Inv
    <3>2. total' \in [0 .. MaxTime + 1 -> Int]
      BY <2>1, <2>2, CountType DEF AcquireTooMany, Inv
    <3>3. QED
      BY <2>1, <2>2, <3>1, <3>2 DEF AcquireTooMany, permits, Inv, TypeOK, WindowBounded
  <2>3. CASE CallTryAcquire(t, n)
    <3>1. caller' \in [Threads -> Caller]
      BY <2>1, <2>3, CallerFacts DEF CallTryAcquire, TryAcquire, Inv
    <3>2. QED
      BY <2>1, <2>3, <3>1, TryStep DEF CallTryAcquire
  <2>4. CASE CallAcquire(t, n)
    <3>1. caller' \in [Threads -> Caller]
      <4> DEFINE asks == [caller[t] EXCEPT !.pc = "try", !.need = n, !.held = 0]
      <4>1. asks \in Caller
        BY <2>1, CallerFacts DEF Inv, Caller
      <4>2. caller \in [Threads -> Caller] /\ caller' = [caller EXCEPT ![t] = asks]
        BY <2>4 DEF CallAcquire, Inv, TypeOK
      <4> QED
        BY <4>1, <4>2
    <3>2. UNCHANGED <<now, permits, history>>
      BY <2>4 DEF CallAcquire
    <3>3. QED
      BY <2>1, <3>1, <3>2 DEF permits, history, Inv, TypeOK, WindowBounded
  <2>5. QED
    BY <1>3, <2>2, <2>3, <2>4
<1>4. ASSUME NEW t \in Threads, AcquireTries(t)
      PROVE  Inv'
  <2>1. caller[t].need \in Nat
    BY CallerFacts DEF Inv, Caller
  <2>2. caller' \in [Threads -> Caller]
    BY <1>4, <2>1, CallerFacts DEF AcquireTries, TryAcquire, Inv
  <2>3. QED
    BY <1>4, <2>1, <2>2, TryStep DEF AcquireTries, Inv, TypeOK
<1>5. ASSUME NEW t \in Threads, ReadsClock(t) \/ Sleeps(t) \/ Wakes(t)
      PROVE  Inv'
  <2>1. caller[t].time \in Nat /\ now \in Nat
    BY CallerFacts DEF Inv, TypeOK, Caller
  <2>2. SleepMS(caller[t].time) \in Nat
    BY <2>1, SleepBounds DEF Inv
  <2>3. caller' \in [Threads -> Caller]
    BY <1>5, <2>1, <2>2, CallerFacts DEF ReadsClock, Sleeps, Wakes, Inv
  <2>4. QED
    BY <1>5, <2>3
    DEF ReadsClock, Sleeps, Wakes, permits, history, Inv, TypeOK, WindowBounded
<1>6. ASSUME NEW t \in Threads, Rollback(t)
      PROVE  Inv'
  <2>1. caller[t].held \in Nat
    BY CallerFacts DEF Inv, Caller
  <2>2. caller' \in [Threads -> Caller]
    BY <1>6, CallerFacts DEF Rollback, Inv
  <2>3. total' \in [0 .. MaxTime + 1 -> Int]
    BY <1>6, <2>1, CountType DEF Rollback, Inv
  <2>4. /\ m_currentPermitsSize' \in 0 .. MaxPermits
        /\ m_currentPermitsSize' <= m_currentPermitsSize + caller[t].held
    <3>1. m_currentPermitsSize' = CappedPermits(caller[t].held)
      BY <1>6 DEF Rollback
    <3>2. QED
      BY <2>1, <3>1, Numbers DEF CappedPermits
  <2>5. returned' = returned + caller[t].held /\ granted' = granted
    BY <1>6 DEF Rollback
  <2>6. WindowBounded'
    BY <2>1, <2>4, <2>5, Numbers DEF WindowBounded
  <2>7. /\ now' \in 0 .. MaxTime /\ m_lastPermitsUpdateTime' \in 0 .. now'
        /\ calls' \in Nat
    BY <1>6 DEF Rollback, Inv, TypeOK
  <2>8. granted' \in Nat /\ returned' \in Nat
    BY <2>1, <2>5, Numbers
  <2>9. TypeOK'
    BY <2>2, <2>3, <2>4, <2>7, <2>8, Zenon DEF TypeOK
  <2>10. QED
    BY <2>6, <2>9 DEF Inv
<1>7. QED
  BY <1>1, <1>2, <1>3, <1>4, <1>5, <1>6 DEF Next

-----------------------------------------------------------------------------
\* The invariant holds in the initial state.
LEMMA InitInv == Init => Inv
  BY LimiterConstants DEF Init, Inv, TypeOK, Caller, WindowBounded

\* In every window, TimeWindowRateLimiter grants no more than
\* m_maxPermitsSize and what is rolled back in it, for any number of threads.
THEOREM WindowSafe == Spec => [](TypeOK /\ WindowBounded)
<1>1. Inv => TypeOK /\ WindowBounded
  BY DEF Inv
<1>2. QED
  BY InitInv, StepInv, <1>1, PTL DEF Spec

\* acquire never sleeps longer than a window, although it reads the time of
\* the window without the lock.
THEOREM SleepsAtMostAWindow == Spec => NoOversleep
<1>1. Inv /\ [Next]_vars =>
        [\A t \in Threads :
            caller[t].pc = "read" /\ caller'[t].pc = "sleep" =>
                caller'[t].time - now <= WindowMS]_vars
  <2> SUFFICES ASSUME Inv, Next, NEW t \in Threads,
                      caller[t].pc = "read", caller'[t].pc = "sleep"
               PROVE  caller'[t].time - now <= WindowMS
    OBVIOUS
  <2>1. caller[t].time \in Nat /\ now \in Nat
    BY CallerFacts DEF Inv, TypeOK, Caller
  <2>2. Sleeps(t)
    <3>0. caller \in [Threads -> Caller]
      BY DEF Inv, TypeOK
    <3>1. \A u \in Threads : \A pc, time : Set(u, pc, time) => u = t /\ pc = "sleep"
      BY <3>0 DEF Set, Caller
    <3>2. \A u \in Threads : \A n : ~ReturnWith(u, n)
      BY <3>0 DEF ReturnWith, Caller
    <3>3. \A u \in Threads, n \in Amounts : ~CallAcquire(u, n)
      BY <3>0 DEF CallAcquire, Caller
    <3>4. ~Tick
      BY DEF Tick
    <3>5. \A u \in Threads, n \in Amounts : ~AcquireTooMany(u, n) /\ ~CallTryAcquire(u, n)
      BY <3>2 DEF AcquireTooMany, CallTryAcquire, TryAcquire
    <3>6. \A u \in Threads : ~AcquireTries(u) /\ ~ReadsClock(u) /\ ~Wakes(u) /\ ~Rollback(u)
      BY <3>1, <3>2 DEF AcquireTries, TryAcquire, ReadsClock, Wakes, Rollback
    <3>7. PICK u \in Threads : Sleeps(u)
      BY <3>3, <3>4, <3>5, <3>6 DEF Next
    <3>8. QED
      BY <3>1, <3>7 DEF Sleeps
  <2>3. SleepMS(caller[t].time) \in 1 .. WindowMS
    BY <2>1, SleepBounds DEF Inv
  <2>4. caller'[t].time = now + SleepMS(caller[t].time)
    BY <2>2 DEF Sleeps, Set, Inv, TypeOK, Caller
  <2>5. QED
    BY <2>1, <2>3, <2>4, LimiterConstants
<1>2. QED
  BY InitInv, StepInv, <1>1, PTL DEF Spec, NoOversleep

-----------------------------------------------------------------------------
\* Neither clock wraps: a window is over when that many milliseconds passed.
LEMMA WindowOverIs ==
    ASSUME Inv
    PROVE  WindowOver <=> now - m_lastPermitsUpdateTime >= WindowMS
<1>1. now - m_lastPermitsUpdateTime \in 0 .. WordSize - 1
  BY LimiterConstants DEF Inv, TypeOK
<1>2. (now - m_lastPermitsUpdateTime) % WordSize = now - m_lastPermitsUpdateTime
  BY <1>1, LimiterConstants
<1>3. QED
  BY <1>2, Zenon DEF WindowOver, Minus

\* Two stretches that meet at the start of a window add up: f is a history,
\* last the start of the window and end the present.
LEMMA TwoWindows ==
    ASSUME NEW f, NEW last \in Nat, NEW end \in Nat, NEW M \in Nat, NEW W \in Nat,
           \A i \in 0 .. end : f[i] \in Int,
           \A a \in last .. end : \A b \in a .. end : f[b] - f[a] <= M,
           \A a \in 0 .. last : last <= a + W => f[last] - f[a] <= M,
           NEW from \in 0 .. end, NEW to \in last .. end,
           from <= to, to <= from + W
    PROVE  f[to] - f[from] <= 2 * M
<1>1. CASE from >= last
  BY <1>1
<1>2. CASE from < last
  <2>1. f[last] - f[from] <= M
    BY <1>2
  <2>2. f[to] - f[last] <= M
    OBVIOUS
  <2>3. QED
    BY <1>2, <2>1, <2>2
<1>3. QED
  BY <1>1, <1>2

\* The history as numbers.
LEMMA Clocks ==
    ASSUME Inv
    PROVE  /\ now \in 0 .. MaxTime /\ m_lastPermitsUpdateTime \in 0 .. now
           /\ \A i \in 0 .. MaxTime + 1 : total[i] \in Int
           /\ MaxPermits \in Nat /\ MaxTime \in Nat /\ WindowMS \in Nat \ {0}
           /\ m_currentPermitsSize \in 0 .. MaxPermits
  BY LimiterConstants DEF Inv, TypeOK

\* A step under m_mutex within a window: n permits are taken, or given back
\* when n is negative, and none are taken once the window is over.
LEMMA SameWindow ==
    ASSUME BurstInv, Inv', ~AllowExceed, NEW n \in Int, Count(n),
           now' = now, m_lastPermitsUpdateTime' = m_lastPermitsUpdateTime,
           m_currentPermitsSize' <= m_currentPermitsSize - n,
           WindowOver => n <= 0
    PROVE  BurstInv'
<1>1. /\ Inv /\ Settled /\ OpenWindow /\ OverWindow /\ LastWindow /\ BurstBounded
  BY DEF BurstInv
<1>2. /\ \A i \in 0 .. now : total'[i] = total[i]
      /\ \A i \in now + 1 .. MaxTime + 1 : total'[i] = total[i] + n
  BY <1>1, Clocks DEF Count
<1>3. m_currentPermitsSize' \in 0 .. MaxPermits
  BY DEF Inv, TypeOK
<1>4. Settled'
  BY <1>1, <1>2, Clocks DEF Settled
<1>5. OpenWindow'
  <2> SUFFICES ASSUME NEW a \in m_lastPermitsUpdateTime .. now + 1
               PROVE  /\ total'[now + 1] - total'[a] + m_currentPermitsSize' <= MaxPermits
                      /\ \A b \in a .. now + 1 : total'[b] - total'[a] <= MaxPermits
    BY Zenon DEF OpenWindow
  <2>1. total'[now + 1] = total[now + 1] + n
    BY <1>1, <1>2, Clocks
  <2>2. total'[now + 1] - total'[a] + m_currentPermitsSize' <= MaxPermits
    <3>1. CASE a = now + 1
      BY <1>1, <1>3, <2>1, <3>1, Clocks
    <3>2. CASE a \in m_lastPermitsUpdateTime .. now
      <4>1. total'[a] = total[a]
        BY <1>1, <1>2, <3>2, Clocks
      <4>2. total[now + 1] - total[a] + m_currentPermitsSize <= MaxPermits
        BY <1>1 DEF OpenWindow
      <4>3. total[a] \in Int /\ total[now + 1] \in Int
        BY <1>1, <3>2, Clocks
      <4>4. QED
        BY <1>1, <1>3, <2>1, <4>1, <4>2, <4>3, Clocks
    <3>3. QED
      BY <1>1, <3>1, <3>2, Clocks
  <2>3. ASSUME NEW b \in a .. now + 1 PROVE total'[b] - total'[a] <= MaxPermits
    <3>1. CASE b = now + 1
      <4>1. total'[b] \in Int /\ total'[a] \in Int
        BY <1>1, <1>2, <3>1, Clocks
      <4>2. QED
        BY <1>1, <1>3, <2>2, <3>1, <4>1, Clocks
    <3>2. CASE b \in a .. now
      <4>1. total'[a] = total[a] /\ total'[b] = total[b]
        BY <1>1, <1>2, <3>2, Clocks
      <4>2. QED
        BY <1>1, <4>1, Clocks DEF OpenWindow
    <3>3. QED
      BY <1>1, <3>1, <3>2, Clocks
  <2>4. QED
    BY <2>2, <2>3
<1>6. OverWindow'
  BY <1>1, <1>2, WindowOverIs, Clocks DEF OverWindow
<1>7. LastWindow'
  BY <1>1, <1>2, Clocks DEF LastWindow
<1>8. BurstBounded'
  <2> SUFFICES ASSUME NEW from \in 0 .. now + 1, NEW to \in 0 .. now + 1,
                      from <= to, to <= from + WindowMS
               PROVE  total'[to] - total'[from] <= 2 * MaxPermits
    BY DEF BurstBounded
  <2>1. CASE to >= m_lastPermitsUpdateTime
    <3>1. /\ \A i \in 0 .. now' + 1 : total'[i] \in Int
          /\ now' + 1 \in Nat /\ m_lastPermitsUpdateTime \in Nat /\ MaxPermits \in Nat /\ WindowMS \in Nat
          /\ to \in m_lastPermitsUpdateTime .. now' + 1 /\ from \in 0 .. now' + 1
      <4>1. /\ now \in Nat /\ now <= MaxTime /\ MaxTime \in Nat
            /\ m_lastPermitsUpdateTime \in Nat /\ MaxPermits \in Nat /\ WindowMS \in Nat
        BY <1>1, Clocks
      <4>2. \A i \in 0 .. MaxTime + 1 : total'[i] \in Int
        BY DEF Inv, TypeOK
      <4>3. QED
        BY <2>1, <4>1, <4>2
    <3>2. \A a \in m_lastPermitsUpdateTime .. now' + 1 : \A b \in a .. now' + 1 :
              total'[b] - total'[a] <= MaxPermits
      BY <1>1, <1>2, <1>5 DEF OpenWindow
    <3>3. \A a \in 0 .. m_lastPermitsUpdateTime : m_lastPermitsUpdateTime <= a + WindowMS =>
              total'[m_lastPermitsUpdateTime] - total'[a] <= MaxPermits
      BY <1>1, <1>2, <1>7 DEF LastWindow
    <3>4. QED
      BY <3>1, <3>2, <3>3, TwoWindows
  <2>2. CASE to < m_lastPermitsUpdateTime
    <3>1. total'[to] = total[to] /\ total'[from] = total[from]
      BY <1>1, <1>2, <2>2, Clocks
    <3>2. QED
      BY <1>1, <3>1, Clocks DEF BurstBounded
  <2>3. QED
    BY <1>1, <2>1, <2>2, Clocks
<1>9. QED
  BY <1>4, <1>5, <1>6, <1>7, <1>8 DEF BurstInv

\* The first request after the end of a window starts the next one.
LEMMA NewWindow ==
    ASSUME BurstInv, Inv', ~AllowExceed, NEW n \in Int, Count(n), WindowOver,
           now' = now, m_lastPermitsUpdateTime' = now,
           m_currentPermitsSize' <= MaxPermits - n
    PROVE  BurstInv'
<1>1. /\ Inv /\ Settled /\ OpenWindow /\ OverWindow /\ LastWindow /\ BurstBounded
  BY DEF BurstInv
<1>2. /\ \A i \in 0 .. now : total'[i] = total[i]
      /\ \A i \in now + 1 .. MaxTime + 1 : total'[i] = total[i] + n
  BY <1>1, Clocks DEF Count
<1>3. m_currentPermitsSize' \in 0 .. MaxPermits
  BY DEF Inv, TypeOK
<1>4. Settled'
  BY <1>1, <1>2, Clocks DEF Settled
<1>5. /\ now - m_lastPermitsUpdateTime >= WindowMS
      /\ total[now + 1] <= total[now]
  BY <1>1, WindowOverIs DEF OverWindow
<1>6. OpenWindow'
  <2>1. /\ total'[now] = total[now] /\ total'[now + 1] = total[now + 1] + n
        /\ total[now] \in Int /\ total[now + 1] \in Int
    BY <1>1, <1>2, Clocks
  <2>2. /\ total'[now + 1] - total'[now] + m_currentPermitsSize' <= MaxPermits
        /\ total'[now + 1] - total'[now + 1] + m_currentPermitsSize' <= MaxPermits
        /\ total'[now + 1] - total'[now] <= MaxPermits
        /\ total'[now] - total'[now] <= MaxPermits
        /\ total'[now + 1] - total'[now + 1] <= MaxPermits
    BY <1>1, <1>3, <1>5, <2>1, Clocks
  <2>3. \A a \in now .. now + 1 : a = now \/ a = now + 1
    BY <1>1, Clocks
  <2>4. QED
    BY <1>1, <2>2, <2>3, Clocks DEF OpenWindow
<1>7. OverWindow'
  BY <1>1, Clocks DEF OverWindow
<1>8. LastWindow'
  <2> SUFFICES ASSUME NEW a \in 0 .. now, now <= a + WindowMS
               PROVE  total'[now] - total'[a] <= MaxPermits
    BY DEF LastWindow
  <2>1. total'[now] = total[now] /\ total'[a] = total[a]
    BY <1>1, <1>2, Clocks
  <2>2. a \in m_lastPermitsUpdateTime .. now + 1 /\ now \in a .. now + 1
    BY <1>1, <1>5, Clocks
  <2>3. QED
    BY <1>1, <2>1, <2>2 DEF OpenWindow
<1>9. BurstBounded'
  <2> SUFFICES ASSUME NEW from \in 0 .. now + 1, NEW to \in 0 .. now + 1,
                      from <= to, to <= from + WindowMS
               PROVE  total'[to] - total'[from] <= 2 * MaxPermits
    BY DEF BurstBounded
  <2>1. CASE to >= now
    <3>0. /\ now' = now /\ now \in 0 .. MaxTime
          /\ \A i \in 0 .. MaxTime + 1 : total'[i] \in Int
      BY DEF Inv, TypeOK
    <3>1. /\ \A i \in 0 .. now' + 1 : total'[i] \in Int
          /\ now' + 1 \in Nat /\ now \in Nat /\ MaxPermits \in Nat /\ WindowMS \in Nat
          /\ to \in now .. now' + 1 /\ from \in 0 .. now' + 1
      BY <2>1, <3>0, LimiterConstants
    <3>2. \A a \in now .. now' + 1 : \A b \in a .. now' + 1 :
              total'[b] - total'[a] <= MaxPermits
      BY <1>1, <1>2, <1>6 DEF OpenWindow
    <3>3. \A a \in 0 .. now : now <= a + WindowMS =>
              total'[now] - total'[a] <= MaxPermits
      BY <1>1, <1>2, <1>8 DEF LastWindow
    <3>4. QED
      BY <3>1, <3>2, <3>3, TwoWindows
  <2>2. CASE to < now
    <3>1. total'[to] = total[to] /\ total'[from] = total[from]
      BY <1>1, <1>2, <2>2, Clocks
    <3>2. QED
      BY <1>1, <3>1, Clocks DEF BurstBounded
  <2>3. QED
    BY <1>1, <2>1, <2>2, Clocks
<1>10. QED
  BY <1>4, <1>6, <1>7, <1>8, <1>9 DEF BurstInv

\* Time passes.
LEMMA TickBurst ==
    ASSUME BurstInv, Inv', ~AllowExceed, Tick
    PROVE  BurstInv'
<1>1. /\ Inv /\ Settled /\ OpenWindow /\ OverWindow /\ LastWindow /\ BurstBounded
  BY DEF BurstInv
<1>2. /\ now' = now + 1 /\ now < MaxTime /\ total' = total
      /\ m_lastPermitsUpdateTime' = m_lastPermitsUpdateTime
      /\ m_currentPermitsSize' = m_currentPermitsSize
  BY DEF Tick, permits, history
<1>3. total[now + 2] = total[now + 1] /\ now' + 1 = now + 2
  BY <1>1, <1>2, Clocks DEF Settled
<1>4. Settled'
  BY <1>1, <1>2, Clocks DEF Settled
<1>5. OpenWindow'
  <2> SUFFICES ASSUME NEW a \in m_lastPermitsUpdateTime .. now + 2
               PROVE  /\ total[now + 2] - total[a] + m_currentPermitsSize <= MaxPermits
                      /\ \A b \in a .. now + 2 : total[b] - total[a] <= MaxPermits
    BY <1>2, <1>3 DEF OpenWindow
  <2>1. CASE a = now + 2
    BY <1>1, <1>2, <2>1, Clocks
  <2>2. CASE a \in m_lastPermitsUpdateTime .. now + 1
    <3>1. total[now + 2] - total[a] + m_currentPermitsSize <= MaxPermits
      BY <1>1, <1>3, <2>2 DEF OpenWindow
    <3>2. \A b \in a .. now + 1 : total[b] - total[a] <= MaxPermits
      BY <1>1, <2>2 DEF OpenWindow
    <3>3. total[now + 2] - total[a] <= MaxPermits
      BY <1>1, <1>3, <2>2, <3>2, Clocks
    <3>4. QED
      BY <1>1, <3>1, <3>2, <3>3, Clocks
  <2>3. QED
    BY <1>1, <2>1, <2>2, Clocks
<1>6. OverWindow'
  BY <1>1, <1>2, <1>3, Clocks DEF OverWindow
<1>7. LastWindow'
  BY <1>1, <1>2 DEF LastWindow
<1>8. BurstBounded'
  <2> SUFFICES ASSUME NEW from \in 0 .. now' + 1, NEW to \in 0 .. now' + 1,
                      from <= to, to <= from + WindowMS
               PROVE  total'[to] - total'[from] <= 2 * MaxPermits
    BY DEF BurstBounded
  <2>1. CASE to >= m_lastPermitsUpdateTime
    <3>1. /\ \A i \in 0 .. now' + 1 : total'[i] \in Int
          /\ now' + 1 \in Nat /\ m_lastPermitsUpdateTime \in Nat /\ MaxPermits \in Nat /\ WindowMS \in Nat
          /\ to \in m_lastPermitsUpdateTime .. now' + 1 /\ from \in 0 .. now' + 1
      BY <1>1, <1>2, <2>1, Clocks DEF Inv, TypeOK
    <3>2. \A a \in m_lastPermitsUpdateTime .. now' + 1 : \A b \in a .. now' + 1 :
              total'[b] - total'[a] <= MaxPermits
      BY <1>1, <1>2, <1>5 DEF OpenWindow
    <3>3. \A a \in 0 .. m_lastPermitsUpdateTime : m_lastPermitsUpdateTime <= a + WindowMS =>
              total'[m_lastPermitsUpdateTime] - total'[a] <= MaxPermits
      BY <1>1, <1>2, <1>7 DEF LastWindow
    <3>4. QED
      BY <3>1, <3>2, <3>3, TwoWindows
  <2>2. CASE to < m_lastPermitsUpdateTime
    BY <1>1, <1>2, <2>2, Clocks DEF BurstBounded
  <2>3. QED
    BY <1>1, <1>2, <2>1, <2>2, Clocks
<1>9. QED
  BY <1>4, <1>5, <1>6, <1>7, <1>8 DEF BurstInv

\* An unchanged history counts nothing.
LEMMA CountNothing ==
    ASSUME Inv, UNCHANGED total
    PROVE  Count(0)
<1>1. /\ DOMAIN total = 0 .. MaxTime + 1 /\ total = [i \in DOMAIN total |-> total[i]]
      /\ \A i \in 0 .. MaxTime + 1 : total[i] + 0 = total[i]
  BY DEF Inv, TypeOK
<1>2. QED
  BY <1>1 DEF Count

\* tryAcquire stays in its window or starts the next one.
LEMMA TryBurst ==
    ASSUME BurstInv, Inv', ~AllowExceed, NEW t \in Threads, NEW n \in Nat, NEW G, NEW R,
           TryAcquire(t, n, G, R), UNCHANGED now
    PROVE  BurstInv'
<1>1. Inv /\ n \in Int
  BY DEF BurstInv
<1>2. PICK k \in {0, n} : Count(k) /\ m_currentPermitsSize' = Available - k
  <2>1. CASE Take(n) /\ Count(n)
    BY <2>1 DEF Take
  <2>2. CASE m_currentPermitsSize' = Available /\ UNCHANGED total
    <3>1. Available - 0 = Available
      BY <1>1, AvailableFacts
    <3>2. QED
      BY <1>1, <2>2, <3>1, CountNothing
  <2>3. QED
    BY <2>1, <2>2 DEF TryAcquire
<1>3. k \in Int
  BY <1>1
<1>4. CASE WindowOver
  <2>1. m_currentPermitsSize' <= MaxPermits - k
    BY <1>1, <1>2, <1>3, <1>4, AvailableFacts, Clocks
  <2>2. m_lastPermitsUpdateTime' = now
    BY <1>4 DEF TryAcquire, StartWindow
  <2>3. QED
    BY <1>2, <1>3, <1>4, <2>1, <2>2, NewWindow
<1>5. CASE ~WindowOver
  <2>1. m_currentPermitsSize' <= m_currentPermitsSize - k
    BY <1>1, <1>2, <1>3, <1>5, AvailableFacts, Clocks
  <2>2. m_lastPermitsUpdateTime' = m_lastPermitsUpdateTime
    BY <1>5 DEF TryAcquire, StartWindow
  <2>3. QED
    BY <1>2, <1>3, <1>5, <2>1, <2>2, SameWindow
<1>6. QED
  BY <1>4, <1>5

\* A step that leaves the permits and the clock alone.
LEMMA QuietBurst ==
    ASSUME BurstInv, Inv', UNCHANGED <<now, permits, total>>
    PROVE  BurstInv'
  BY DEF BurstInv, Settled, OpenWindow, OverWindow, LastWindow, BurstBounded, permits

\* Every step keeps the invariant of the bursts.
LEMMA StepBurst == BurstInv /\ [Next]_vars => BurstInv'
<1> SUFFICES ASSUME BurstInv, [Next]_vars PROVE BurstInv'
  OBVIOUS
<1>0. Inv /\ Inv'
  BY StepInv DEF BurstInv
<1>1. CASE AllowExceed
  BY <1>0, <1>1 DEF BurstInv, BurstBounded
<1>2. CASE ~AllowExceed
  <2>1. CASE UNCHANGED vars
    BY <1>0, <2>1, QuietBurst DEF vars, history
  <2>2. CASE Tick
    BY <1>0, <1>2, <2>2, TickBurst
  <2>3. ASSUME NEW t \in Threads, NEW n \in Amounts, AcquireTooMany(t, n)
        PROVE  BurstInv'
    <3>1. Count(0) /\ UNCHANGED <<now, permits>>
      BY <1>2, <2>3 DEF AcquireTooMany
    <3>2. /\ now' = now /\ m_lastPermitsUpdateTime' = m_lastPermitsUpdateTime
          /\ m_currentPermitsSize' = m_currentPermitsSize
      BY <3>1 DEF permits
    <3>3. m_currentPermitsSize' <= m_currentPermitsSize - 0
      BY <1>0, <3>2, Clocks
    <3>4. QED
      BY <1>0, <1>2, <3>1, <3>2, <3>3, SameWindow
  <2>4. ASSUME NEW t \in Threads, NEW n \in Amounts, CallTryAcquire(t, n)
        PROVE  BurstInv'
    <3>1. n \in Nat
      BY LimiterConstants
    <3>2. QED
      BY <1>0, <1>2, <2>4, <3>1, TryBurst DEF CallTryAcquire
  <2>5. ASSUME NEW t \in Threads, AcquireTries(t)
        PROVE  BurstInv'
    <3>1. caller[t].need \in Nat
      BY <1>0, CallerFacts DEF Inv, Caller
    <3>2. QED
      BY <1>0, <1>2, <2>5, <3>1, TryBurst DEF AcquireTries
  <2>6. ASSUME NEW t \in Threads,
               (\E n \in Amounts : CallAcquire(t, n))
                   \/ ReadsClock(t) \/ Sleeps(t) \/ Wakes(t)
        PROVE  BurstInv'
    <3>1. UNCHANGED <<now, permits, total>>
      BY <2>6 DEF CallAcquire, ReadsClock, Sleeps, Wakes, history
    <3>2. QED
      BY <1>0, <3>1, QuietBurst
  <2>7. ASSUME NEW t \in Threads, Rollback(t)
        PROVE  BurstInv'
    <3> DEFINE n == 0 - caller[t].held
    <3>1. caller[t].held \in Nat
      BY <1>0, CallerFacts DEF Inv, Caller
    <3>2. n \in Int /\ n <= 0
      BY <3>1
    <3>3. /\ Count(n) /\ now' = now
          /\ m_lastPermitsUpdateTime' = m_lastPermitsUpdateTime
          /\ m_currentPermitsSize' = CappedPermits(caller[t].held)
      BY <2>7 DEF Rollback
    <3>4. m_currentPermitsSize' <= m_currentPermitsSize - n
      BY <1>0, <3>1, <3>3, Clocks DEF CappedPermits
    <3> HIDE DEF n
    <3>5. QED
      BY <1>0, <1>2, <3>2, <3>3, <3>4, SameWindow
  <2>8. QED
    BY <2>1, <2>2, <2>3, <2>4, <2>5, <2>6, <2>7 DEF Next
<1>3. QED
  BY <1>1, <1>2

\* In any stretch of time as long as a window, TimeWindowRateLimiter grants
\* no more, less what is rolled back, than two windows hold, for any number
\* of threads, any clock and any order of tryAcquire, acquire and rollback.
THEOREM BurstsBounded == Spec => []BurstBounded
<1>1. Init => BurstInv
  <2> SUFFICES ASSUME Init PROVE BurstInv
    OBVIOUS
  <2>1. Inv
    BY InitInv
  <2>2. /\ now = 0 /\ m_lastPermitsUpdateTime = 0 /\ m_currentPermitsSize = MaxPermits
        /\ \A i \in 0 .. MaxTime + 1 : total[i] = 0
    BY DEF Init
  <2>3. QED
    BY <2>1, <2>2, Clocks
    DEF BurstInv, Settled, OpenWindow, OverWindow, LastWindow, BurstBounded
<1>2. BurstInv => BurstBounded
  BY DEF BurstInv
<1>3. QED
  BY <1>1, <1>2, StepBurst, PTL DEF Spec
=============================================================================

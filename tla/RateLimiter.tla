----------------------------- MODULE RateLimiter -----------------------------
(***************************************************************************)
(* utilities/TimeWindowRateLimiter: permits of a time window, acquired and *)
(* rolled back by several threads.                                         *)
(*                                                                         *)
(* tryAcquire and rollback run under m_mutex and are one step each.        *)
(* acquire tries, and when it fails reads the clock and then, without the  *)
(* lock, m_lastPermitsUpdateTime, to find out how long to sleep.           *)
(***************************************************************************)
EXTENDS Integers

CONSTANTS Threads,       \* the callers
          MaxPermits,    \* m_maxPermitsSize
          WindowMS,      \* m_timeWindowMS
          AllowExceed,   \* m_allowExceedMaxPermitSize
          Amounts,       \* what callers ask for
          WordSize,      \* 2^64: the clock and the permits are unsigned words
          MaxTime,       \* bound of the clock
          MaxCalls       \* bound of the calls

ASSUME LimiterConstants ==
    /\ MaxPermits \in Nat /\ WindowMS \in Nat \ {0} /\ AllowExceed \in BOOLEAN
    /\ Amounts \subseteq Nat /\ MaxTime \in Nat /\ MaxCalls \in Nat
    /\ WordSize \in Nat /\ WordSize > MaxTime

VARIABLES
    now,                      \* utcSteadyTime()
    m_currentPermitsSize,
    m_lastPermitsUpdateTime,
    caller,                   \* what each thread does
    calls,                    \* calls so far
    granted, returned,        \* history: permits of this window
    total                     \* history: granted less rolled back before each time

permits == <<m_currentPermitsSize, m_lastPermitsUpdateTime>>
history == <<granted, returned, total>>
vars    == <<now, permits, caller, calls, history>>

-----------------------------------------------------------------------------
\* pc of a thread in acquire: "try", "failed" (tryAcquire was false), "read"
\* (the clock was read, as time) and "sleep" (until time).  held: permits
\* that the last call took and the thread may still roll back.
Caller ==
    [pc : {"idle", "try", "failed", "read", "sleep"}, need : Nat, time : Nat,
     held : Nat]

\* a - b in unsigned words.
Minus(a, b) == (a - b) % WordSize

Init ==
    /\ now = 0
    /\ m_currentPermitsSize = MaxPermits /\ m_lastPermitsUpdateTime = now
    /\ caller = [t \in Threads |-> [pc |-> "idle", need |-> 0, time |-> 0, held |-> 0]]
    /\ calls = 0
    /\ granted = 0 /\ returned = 0
    /\ total = [i \in 0 .. MaxTime + 1 |-> 0]

Set(t, pc, time) ==
    caller' = [caller EXCEPT ![t].pc = pc, ![t].time = time]

\* History: n more permits are out, from now on.
Count(n) ==
    total' = [i \in 0 .. MaxTime + 1 |-> IF i > now THEN total[i] + n ELSE total[i]]

\* A thread returns to its caller with n permits of the window.
ReturnWith(t, n) ==
    caller' = [caller EXCEPT ![t].pc = "idle", ![t].held = n, ![t].time = 0]

-----------------------------------------------------------------------------
WindowOver == Minus(now, m_lastPermitsUpdateTime) >= WindowMS

\* Permits before the request: a new window starts full.
Available == IF WindowOver THEN MaxPermits ELSE m_currentPermitsSize

\* Mutation: a new window is not dated.
RefillOnly == UNCHANGED m_lastPermitsUpdateTime

\* A new window is dated by its first request.
StartWindow ==
    m_lastPermitsUpdateTime' = IF WindowOver THEN now ELSE m_lastPermitsUpdateTime

\* Mutation: permits are granted and not taken.
GrantOnly(n) == m_currentPermitsSize' = Available

Take(n) == m_currentPermitsSize' = Available - n

\* tryAcquire(n) with n <= m_maxPermitsSize, under m_mutex.
TryAcquire(t, n, Granted, Refused) ==
    /\ StartWindow
    /\ returned' = IF WindowOver THEN 0 ELSE returned
    /\ \/ /\ Available >= n
          /\ Take(n)
          /\ granted' = n + IF WindowOver THEN 0 ELSE granted
          /\ Count(n)
          /\ Granted
       \/ /\ Available < n
          /\ m_currentPermitsSize' = Available
          /\ granted' = IF WindowOver THEN 0 ELSE granted
          /\ UNCHANGED total
          /\ Refused

Call(t) == caller[t].pc = "idle" /\ calls < MaxCalls /\ calls' = calls + 1

\* More than m_maxPermitsSize: both calls return without counting anything,
\* true or false as m_allowExceedMaxPermitSize says.
AcquireTooMany(t, n) ==
    /\ Call(t) /\ n > MaxPermits
    /\ Count(IF AllowExceed THEN n ELSE 0)
    /\ ReturnWith(t, 0)
    /\ UNCHANGED <<now, permits, granted, returned>>

CallTryAcquire(t, n) ==
    /\ Call(t) /\ n <= MaxPermits
    /\ TryAcquire(t, n, ReturnWith(t, n), ReturnWith(t, 0))
    /\ UNCHANGED now

CallAcquire(t, n) ==
    /\ Call(t) /\ n <= MaxPermits
    /\ caller' = [caller EXCEPT ![t].pc = "try", ![t].need = n, ![t].held = 0]
    /\ UNCHANGED <<now, permits, history>>

\* acquire: the condition of its loop.
AcquireTries(t) ==
    /\ caller[t].pc = "try"
    /\ TryAcquire(t, caller[t].need, ReturnWith(t, caller[t].need), Set(t, "failed", 0))
    /\ UNCHANGED <<now, calls>>

\* acquire: nowTimeMS = utcSteadyTime().
ReadsClock(t) ==
    /\ caller[t].pc = "failed"
    /\ Set(t, "read", now)
    /\ UNCHANGED <<now, permits, calls, history>>

\* Mutation: the time of the window is compared as a signed number.
SleepSigned(time) ==
    IF time - m_lastPermitsUpdateTime < WindowMS
    THEN WindowMS - (time - m_lastPermitsUpdateTime)
    ELSE 1

\* How long acquire sleeps when it read the clock at time: to the end of the
\* window, or 1 ms when another thread has started a window since.
SleepMS(time) ==
    LET tempTimeMS == Minus(time, m_lastPermitsUpdateTime)
    IN  IF tempTimeMS > 0 /\ tempTimeMS < WindowMS THEN WindowMS - tempTimeMS ELSE 1

\* acquire: reads m_lastPermitsUpdateTime without m_mutex and goes to sleep.
Sleeps(t) ==
    /\ caller[t].pc = "read"
    /\ Set(t, "sleep", now + SleepMS(caller[t].time))
    /\ UNCHANGED <<now, permits, calls, history>>

Wakes(t) ==
    /\ caller[t].pc = "sleep" /\ now >= caller[t].time
    /\ Set(t, "try", 0)
    /\ UNCHANGED <<now, permits, calls, history>>

CappedPermits(n) ==
    IF m_currentPermitsSize + n > MaxPermits THEN MaxPermits ELSE m_currentPermitsSize + n

\* rollback, under m_mutex, of what the thread acquired before.
Rollback(t) ==
    /\ caller[t].pc = "idle" /\ caller[t].held > 0
    /\ m_currentPermitsSize' = CappedPermits(caller[t].held)
    /\ returned' = returned + caller[t].held
    /\ Count(0 - caller[t].held)
    /\ ReturnWith(t, 0)
    /\ UNCHANGED <<now, m_lastPermitsUpdateTime, calls, granted>>

\* External: time passes.
Tick ==
    /\ now < MaxTime
    /\ now' = now + 1
    /\ UNCHANGED <<permits, caller, calls, history>>

Next ==
    \/ \E t \in Threads :
          \/ \E n \in Amounts :
                AcquireTooMany(t, n) \/ CallTryAcquire(t, n) \/ CallAcquire(t, n)
          \/ AcquireTries(t) \/ ReadsClock(t) \/ Sleeps(t) \/ Wakes(t) \/ Rollback(t)
    \/ Tick

Spec == Init /\ [][Next]_vars

-----------------------------------------------------------------------------
(* Properties.                                                             *)

\* The permits are between none and a full window, and a rollback, even of
\* permits of an earlier window, never lifts them above it.
TypeOK ==
    /\ now \in 0 .. MaxTime
    /\ m_currentPermitsSize \in 0 .. MaxPermits
    /\ m_lastPermitsUpdateTime \in 0 .. now
    /\ caller \in [Threads -> Caller]
    /\ calls \in Nat /\ granted \in Nat /\ returned \in Nat
    /\ total \in [0 .. MaxTime + 1 -> Int]

\* A window grants no more than m_maxPermitsSize and what was rolled back in
\* it, whatever threads acquire and roll back in between.
WindowBounded == granted + m_currentPermitsSize <= MaxPermits + returned

\* In any stretch of time of the length of a window, no more is granted, less
\* what is rolled back, than two windows hold: windows never start too early,
\* and a rollback after the end of its window gives nothing twice.
BurstBounded ==
    ~AllowExceed =>
        \A from, to \in 0 .. now + 1 :
            from <= to /\ to <= from + WindowMS =>
                total[to] - total[from] <= 2 * MaxPermits

\* acquire sleeps at most until the window it lost to is over, or 1 ms, plus
\* the time it took to read the two clocks: it never sleeps a window away
\* because another thread started one between the two reads.
NoOversleep ==
    [][\A t \in Threads :
          caller[t].pc = "read" /\ caller'[t].pc = "sleep" =>
              caller'[t].time - now <= WindowMS]_vars
=============================================================================

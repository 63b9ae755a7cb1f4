---------------------------- MODULE BotRateLimiter ----------------------------
(***************************************************************************)
(* BotRateLimiterService.tryAcquire for one bot: a counter per second of   *)
(* the clock in Redis, incremented by every call, with an expiry that the  *)
(* first call of the second sets.  A command waits without bound for a     *)
(* Redis that is away, as maxRetriesPerRequest is null.  What is done with *)
(* an allowed call, and when, is left to the worker.                       *)
(***************************************************************************)
EXTENDS Naturals, FiniteSets

CONSTANTS
    Calls,          \* calls of tryAcquire, each made once
    Max,            \* TELEGRAM_RATE_LIMIT_PER_SEC
    Second,         \* steps of the clock in a second
    EndOfTime,      \* bound: the last moment looked at
    MaxLosses       \* bound: times Redis comes back without its keys

ASSUME CallsAssumption == IsFiniteSet(Calls)
ASSUME MaxAssumption == Max \in Nat \ {0}
ASSUME ClockAssumption == Second \in Nat \ {0} /\ EndOfTime \in Nat
ASSUME LossesAssumption == MaxLosses \in Nat

VARIABLES
    now,
    count, expires, \* the key of each bucket: its value, 0 when absent, and
                    \* when it goes, Never before EXPIRE
    pc,             \* the call of tryAcquire each call awaits
    start,          \* when it read the clock
    \* History, which no guard but a bound reads.
    made, madeAt,   \* how often the key of a bucket was made, and when last:
                    \* the begin of its second before that
    losses          \* how often Redis lost its keys

historyVars == <<made, madeAt, losses>>
vars == <<now, count, expires, pc, start, historyVars>>

Moments == 0..EndOfTime

Never == EndOfTime + 3 * Second

Buckets == 0..(EndOfTime \div Second)

Steps == {"new", "incr", "expire", "allowed", "refused", "gone"}

\* Every variable has a value the code can give it.
TypeOK ==
    /\ now \in Moments
    /\ count \in [Buckets -> Nat]
    /\ expires \in [Buckets -> 0..Never]
    /\ pc \in [Calls -> Steps]
    /\ start \in [Calls -> Moments]
    /\ made \in [Buckets -> Nat]
    /\ madeAt \in [Buckets -> Moments]
    /\ losses \in 0..MaxLosses

Init ==
    /\ now = 0
    /\ count = [b \in Buckets |-> 0]
    /\ expires = [b \in Buckets |-> Never]
    /\ pc = [c \in Calls |-> "new"]
    /\ start = [c \in Calls |-> 0]
    /\ made = [b \in Buckets |-> 0]
    /\ madeAt = [b \in Buckets |-> b * Second]
    /\ losses = 0

Goto(c, step) == pc' = [pc EXCEPT ![c] = step]

\* Math.floor(Date.now() / 1000).
bucket(c) == start[c] \div Second

ReadClock(c) ==
    /\ pc[c] = "new"
    /\ start' = [start EXCEPT ![c] = now]
    /\ Goto(c, "incr")
    /\ UNCHANGED <<now, count, expires, historyVars>>

\* Mutant: the comparison is made with the count before the call.
IsAllowedLate(n) == n - 1 <= Max

IsAllowed(n) == n <= Max

\* Mutant: EXPIRE is left to a count that INCR never returns.
IsFirstNever(n) == n = 0

IsFirst(n) == n = 1

Verdict(n) == IF IsAllowed(n) THEN "allowed" ELSE "refused"

\* INCR makes a key that is not there.
NoteKey(b) ==
    IF count[b] = 0
    THEN /\ made' = [made EXCEPT ![b] = @ + 1]
         /\ madeAt' = [madeAt EXCEPT ![b] = now]
         /\ UNCHANGED losses
    ELSE UNCHANGED historyVars

Incr(c) ==
    LET b == bucket(c)
    IN  /\ pc[c] = "incr"
        /\ count' = [count EXCEPT ![b] = @ + 1]
        /\ Goto(c, IF IsFirst(count[b] + 1) THEN "expire"
                                          ELSE Verdict(count[b] + 1))
        /\ NoteKey(b)
        /\ UNCHANGED <<now, expires, start>>

\* Mutants: the key lives for one second; the time is given in milliseconds.
TtlOne == Second
TtlMillis == 2000 * Second

Ttl == 2 * Second

\* By the call that was answered 1; without effect if the key is lost.
Expire(c) ==
    LET b == bucket(c)
    IN  /\ pc[c] = "expire"
        /\ expires' = [expires EXCEPT ![b] = IF count[b] = 0 THEN @ ELSE now + Ttl]
        /\ Goto(c, Verdict(1))
        /\ UNCHANGED <<now, count, start, historyVars>>

\* A call rejects, or the process dies: the key may stay without an expiry.
CallFails(c) ==
    /\ pc[c] \in {"incr", "expire"}
    /\ Goto(c, "gone")
    /\ UNCHANGED <<now, count, expires, start, historyVars>>

\* Time passes, however long a command is on its way.
Tick ==
    /\ now < EndOfTime
    /\ now' = now + 1
    /\ count' = [b \in Buckets |-> IF expires[b] <= now' THEN 0 ELSE count[b]]
    /\ expires' = [b \in Buckets |-> IF expires[b] <= now' THEN Never
                                                           ELSE expires[b]]
    /\ UNCHANGED <<pc, start, historyVars>>

\* Redis comes back without the keys.
LoseKeys ==
    /\ losses < MaxLosses
    /\ losses' = losses + 1
    /\ count' = [b \in Buckets |-> 0]
    /\ expires' = [b \in Buckets |-> Never]
    /\ UNCHANGED <<now, pc, start, made, madeAt>>

Next ==
    \/ \E c \in Calls : ReadClock(c) \/ Incr(c) \/ Expire(c) \/ CallFails(c)
    \/ Tick
    \/ LoseKeys

Spec == Init /\ [][Next]_vars

-----------------------------------------------------------------------------
(***************************************************************************)
(* Properties.                                                             *)
(***************************************************************************)
\* Keys a bucket has had: one at first, one more for each two seconds from its
\* begin to the INCR that made the last, and for each loss.
Keys(b) == 1 + losses + (madeAt[b] - b * Second) \div (2 * Second)

\* A second of the clock is given Max calls for each of its keys: with commands
\* of any delay no key is made anew until the one before has had two seconds.
\* So it is Max alone as long as Redis keeps its keys and counts the calls of a
\* second before the next is over.
AllowedPerBucket ==
    \A b \in Buckets :
        Cardinality({c \in Calls : pc[c] = "allowed" /\ bucket(c) = b})
            <= Max * Keys(b)

\* A counter stays in Redis for ever only if the call that made it ended
\* before its EXPIRE.
KeysExpire ==
    \A b \in Buckets :
        count[b] > 0 => \/ expires[b] # Never
                        \/ \E c \in Calls : /\ pc[c] \in {"expire", "gone"}
                                            /\ bucket(c) = b
=============================================================================

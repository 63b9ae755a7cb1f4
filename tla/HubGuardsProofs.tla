--------------------------- MODULE HubGuardsProofs ---------------------------
(***************************************************************************)
(* The two guards beside the delivery: the limiter's promise for any       *)
(* number of calls, any limit, any length of a second, commands of any     *)
(* delay and any number of losses of Redis, and what the watchdog script   *)
(* tells, for any number of faults.                                        *)
(***************************************************************************)
EXTENDS MCHubGuards, FiniteSetTheorems, TLAPS

(***************************************************************************)
(* A moment lies in its bucket.                                            *)
(***************************************************************************)
LEMMA BucketOfMoment ==
    ASSUME NEW m \in Nat
    PROVE  /\ m \div Second \in Nat
           /\ (m \div Second) * Second <= m
           /\ m < (m \div Second) * Second + Second
BY ClockAssumption, SMTT(60)

LEMMA BucketsAreNat == Buckets \subseteq Nat
BY BucketOfMoment, ClockAssumption DEF Buckets

LEMMA MomentInBuckets ==
    ASSUME NEW m \in Moments PROVE m \div Second \in Buckets
BY ClockAssumption, SMTT(60) DEF Moments, Buckets

LEMMA BucketBegins ==
    ASSUME NEW b \in Buckets
    PROVE  b \in Nat /\ b * Second \in Nat /\ b * Second <= EndOfTime
<1>1. b \in Nat /\ b <= EndOfTime \div Second
    BY BucketOfMoment, ClockAssumption DEF Buckets
<1>2. (EndOfTime \div Second) * Second <= EndOfTime
    BY BucketOfMoment, ClockAssumption
<1>3. b * Second <= (EndOfTime \div Second) * Second
    BY <1>1, BucketOfMoment, ClockAssumption, SMTT(60)
<1>4. QED
    BY <1>1, <1>2, <1>3, BucketOfMoment, ClockAssumption, SMTT(30)

LEMMA TtlIsNat == Ttl \in Nat /\ Ttl > 0
BY ClockAssumption DEF Ttl

(***************************************************************************)
(* The strengthening.  A bucket is given Max calls for each key it had,    *)
(* for the calls a key lets through are among those it counts.  And its    *)
(* keys are apart: the one that is there was made when the ones before had *)
(* had two seconds each, unless they were lost, and lives two seconds      *)
(* itself.                                                                 *)
(***************************************************************************)
Passed(b) ==
    {c \in Calls : bucket(c) = b /\ pc[c] \in {"expire", "allowed"}}

StartsAreReached == \A c \in Calls : start[c] <= now

\* What the keys of b may have used up since its second began, and what the
\* losses have given back.
Used(b) == b * Second + Ttl * made[b]
Slack == Ttl * losses

AbsentKeys ==
    \A b \in Buckets :
        /\ count[b] = 0 => expires[b] = Never
        /\ made[b] = 0 => count[b] = 0 /\ madeAt[b] = b * Second

KeyIsApart(b) ==
    /\ b * Second <= madeAt[b] /\ madeAt[b] <= now
    /\ Used(b) <= madeAt[b] + Ttl + Slack
    /\ expires[b] # Never => Used(b) <= expires[b] + Slack
    /\ count[b] = 0 => Used(b) <= now + Slack

KeysAreApart == \A b \in Buckets : made[b] > 0 => KeyIsApart(b)

PassedPerKey(b) ==
    /\ Cardinality(Passed(b)) <= Max * made[b]
    /\ count[b] > 0 => Cardinality(Passed(b)) + Max <= Max * made[b] + count[b]

Inv ==
    /\ TypeOK
    /\ StartsAreReached
    /\ AbsentKeys
    /\ KeysAreApart
    /\ \A b \in Buckets : PassedPerKey(b)

LEMMA PassedIsFinite ==
    \A b \in Buckets : IsFiniteSet(Passed(b)) /\ Cardinality(Passed(b)) \in Nat
BY CallsAssumption, FS_Subset, FS_CardinalityType DEF Passed

LEMMA PassedShrinks ==
    ASSUME \A b \in Buckets : Passed(b)' \subseteq Passed(b)
    PROVE  \A b \in Buckets : /\ Cardinality(Passed(b)') \in Nat
                              /\ Cardinality(Passed(b)') <= Cardinality(Passed(b))
BY PassedIsFinite, FS_Subset, FS_CardinalityType

LEMMA UsedIsNat ==
    ASSUME TypeOK
    PROVE  Slack \in Nat /\ \A b \in Buckets : Used(b) \in Nat /\ Max * made[b] \in Nat
<1>1. losses \in Nat
    BY LossesAssumption DEF TypeOK
<1>2. ASSUME NEW m \in Nat, NEW n \in Nat PROVE m * n \in Nat
    BY <1>2
<1>3. \A b \in Buckets : made[b] \in Nat /\ b * Second \in Nat
    BY BucketBegins DEF TypeOK
<1>4. QED
    BY <1>1, <1>2, <1>3, TtlIsNat, MaxAssumption DEF Slack, Used

LEMMA InvInit == Init => Inv
<1> SUFFICES ASSUME Init PROVE Inv
    OBVIOUS
<1>1. TypeOK
    BY ClockAssumption, LossesAssumption, BucketBegins
       DEF Init, TypeOK, Moments, Steps, Never
<1>2. \A b \in Buckets : Passed(b) = {}
    BY DEF Init, Passed
<1>3. \A b \in Buckets : Cardinality(Passed(b)) = 0
    BY <1>2, FS_EmptySet
<1>4. StartsAreReached /\ AbsentKeys /\ KeysAreApart
    BY DEF Init, StartsAreReached, AbsentKeys, KeysAreApart
<1>5. \A b \in Buckets : PassedPerKey(b)
    BY <1>3, MaxAssumption DEF Init, PassedPerKey
<1>6. QED
    BY <1>1, <1>4, <1>5 DEF Inv

(***************************************************************************)
(* A step that makes no key and lets no call through.                      *)
(***************************************************************************)
LEMMA NothingPasses ==
    ASSUME Inv, UNCHANGED <<count, made>>,
           \A b \in Buckets : Passed(b)' \subseteq Passed(b)
    PROVE  \A b \in Buckets : PassedPerKey(b)'
BY PassedShrinks, PassedIsFinite, UsedIsNat, MaxAssumption
   DEF Inv, PassedPerKey, TypeOK

LEMMA ReadClockKeeps ==
    ASSUME Inv, NEW c \in Calls, ReadClock(c) PROVE Inv'
<1> USE DEF Inv, ReadClock, Goto, historyVars
<1>1. TypeOK'
    BY DEF TypeOK, Steps
<1>2. StartsAreReached'
    BY ClockAssumption DEF StartsAreReached, TypeOK, Moments
<1>3. AbsentKeys' /\ KeysAreApart'
    BY DEF AbsentKeys, KeysAreApart, KeyIsApart, Used, Slack
<1>4. \A b \in Buckets : Passed(b)' \subseteq Passed(b)
    BY DEF Passed, bucket, TypeOK
<1>5. QED
    BY <1>1, <1>2, <1>3, <1>4, NothingPasses

LEMMA CallFailsKeeps ==
    ASSUME Inv, NEW c \in Calls, CallFails(c) PROVE Inv'
<1> USE DEF Inv, CallFails, Goto, historyVars
<1>1. TypeOK'
    BY DEF TypeOK, Steps
<1>2. StartsAreReached' /\ AbsentKeys' /\ KeysAreApart'
    BY DEF StartsAreReached, AbsentKeys, KeysAreApart, KeyIsApart, Used, Slack
<1>3. \A b \in Buckets : Passed(b)' \subseteq Passed(b)
    BY DEF Passed, bucket, TypeOK
<1>4. QED
    BY <1>1, <1>2, <1>3, NothingPasses

(***************************************************************************)
(* INCR.  A call is let through by a count up to Max of the key it met.    *)
(***************************************************************************)
LEMMA IncrTypes ==
    ASSUME Inv, NEW c \in Calls, Incr(c)
    PROVE  TypeOK' /\ StartsAreReached'
<1> USE DEF Inv, Incr, Goto, NoteKey, historyVars
<1>1. bucket(c) \in Buckets
    BY MomentInBuckets DEF bucket, TypeOK
<1>2. pc' \in [Calls -> Steps]
    BY DEF TypeOK, Steps, Verdict
<1>3. /\ count' \in [Buckets -> Nat] /\ made' \in [Buckets -> Nat]
      /\ madeAt' \in [Buckets -> Moments] /\ losses' = losses
    BY <1>1 DEF TypeOK
<1>4. QED
    BY <1>2, <1>3 DEF TypeOK, StartsAreReached

LEMMA IncrApart ==
    ASSUME Inv, NEW c \in Calls, Incr(c)
    PROVE  AbsentKeys' /\ KeysAreApart'
<1> USE DEF Inv, Incr, NoteKey, historyVars
<1>1. PICK k \in Buckets : k = bucket(c)
    BY MomentInBuckets DEF bucket, TypeOK
<1>2. /\ now \in Nat /\ start[c] \in Nat /\ count[k] \in Nat /\ made[k] \in Nat
      /\ Ttl \in Nat /\ Slack \in Nat /\ Used(k) \in Nat /\ k * Second \in Nat
    BY ClockAssumption, TtlIsNat, UsedIsNat, BucketBegins DEF TypeOK, Moments
<1>3. /\ count'[k] = count[k] + 1 /\ expires' = expires /\ losses' = losses
      /\ Slack' = Slack
    BY <1>1 DEF TypeOK, Slack
<1>4. AbsentKeys'
    <2>1. ASSUME NEW b \in Buckets, b # k
          PROVE  count'[b] = count[b] /\ made'[b] = made[b] /\ madeAt'[b] = madeAt[b]
        BY <1>1, <2>1 DEF TypeOK
    <2>2. count'[k] # 0 /\ made'[k] # 0
        BY <1>1, <1>2, <1>3 DEF AbsentKeys, TypeOK
    <2>3. QED
        BY <1>3, <2>1, <2>2 DEF AbsentKeys
<1>5. ASSUME NEW b \in Buckets, b # k, made'[b] > 0 PROVE KeyIsApart(b)'
    <2>1. /\ count'[b] = count[b] /\ made'[b] = made[b] /\ madeAt'[b] = madeAt[b]
          /\ now' = now
        BY <1>1, <1>5 DEF TypeOK
    <2>2. KeyIsApart(b) /\ Used(b)' = Used(b)
        BY <1>5, <2>1 DEF KeysAreApart, Used, Ttl
    <2>3. QED
        BY <1>3, <2>1, <2>2 DEF KeyIsApart, Ttl
<1>6. CASE count[k] > 0
    <2>1. made[k] > 0 /\ UNCHANGED <<now, made, madeAt>> /\ Used(k)' = Used(k)
        BY <1>1, <1>2, <1>6 DEF AbsentKeys, Used, Ttl
    <2>2. KeyIsApart(k)
        BY <2>1 DEF KeysAreApart
    <2>3. KeyIsApart(k)'
        BY <1>2, <1>3, <2>1, <2>2 DEF KeyIsApart, Ttl
    <2>4. QED
        BY <1>4, <1>5, <2>3 DEF KeysAreApart
<1>7. CASE count[k] = 0
    <2>1. /\ made'[k] = made[k] + 1 /\ madeAt'[k] = now /\ now' = now
          /\ expires[k] = Never
        BY <1>1, <1>7 DEF AbsentKeys, TypeOK
    <2>2. Used(k)' = Used(k) + Ttl
        BY <1>2, <2>1, SMTT(30) DEF Used, Ttl
    <2>3. k * Second <= start[c] /\ start[c] <= now
        BY <1>1, <1>2, BucketOfMoment DEF bucket, StartsAreReached
    <2>4. Used(k) <= now + Slack
        <3>1. CASE made[k] > 0
            BY <1>7, <3>1 DEF KeysAreApart, KeyIsApart
        <3>2. CASE made[k] = 0
            <4>1. Used(k) = k * Second
                BY <1>2, <3>2 DEF Used
            <4>2. QED
                BY <1>2, <2>3, <4>1
        <3>3. QED
            BY <1>2, <3>1, <3>2
    <2>5. k * Second <= madeAt'[k] /\ madeAt'[k] <= now'
        BY <1>2, <2>1, <2>3
    <2>6. expires'[k] = Never' /\ count'[k] # 0
        BY <1>2, <1>3, <2>1 DEF Never
    <2>7. Used(k)' <= madeAt'[k] + Ttl' + Slack'
        BY <1>2, <1>3, <2>1, <2>2, <2>4 DEF Ttl
    <2>8. KeyIsApart(k)'
        BY <2>5, <2>6, <2>7 DEF KeyIsApart
    <2>9. QED
        BY <1>4, <1>5, <2>8 DEF KeysAreApart
<1>8. QED
    BY <1>2, <1>6, <1>7

LEMMA IncrPasses ==
    ASSUME Inv, NEW c \in Calls, Incr(c), NEW b \in Buckets
    PROVE  PassedPerKey(b)'
<1> USE DEF Inv, Incr, Goto, NoteKey, historyVars
<1>1. /\ count[b] \in Nat /\ made[b] \in Nat /\ Max \in Nat /\ Max > 0
      /\ Max * made[b] \in Nat /\ Cardinality(Passed(b)) \in Nat
    BY UsedIsNat, PassedIsFinite, MaxAssumption DEF TypeOK
<1>2. CASE bucket(c) # b
    <2>1. Passed(b)' = Passed(b)
        BY <1>2 DEF Passed, bucket, TypeOK
    <2>2. count'[b] = count[b] /\ made'[b] = made[b]
        BY <1>2 DEF TypeOK
    <2>3. QED
        BY <2>1, <2>2 DEF PassedPerKey
<1>3. CASE bucket(c) = b /\ pc'[c] \in {"expire", "allowed"}
    <2>1. Passed(b)' = Passed(b) \cup {c}
        BY <1>3 DEF Passed, bucket, TypeOK
    <2>2. Cardinality(Passed(b) \cup {c}) \in
            {Cardinality(Passed(b)), Cardinality(Passed(b)) + 1}
        BY PassedIsFinite, FS_AddElement
    <2>3. /\ Cardinality(Passed(b)') \in Nat
          /\ Cardinality(Passed(b)') <= Cardinality(Passed(b)) + 1
        BY <1>1, <2>1, <2>2
    <2>4. count'[b] = count[b] + 1 /\ count[b] + 1 <= Max
        BY <1>1, <1>3 DEF TypeOK, Verdict, IsFirst, IsAllowed
    <2>5. CASE count[b] = 0
        <3>1. made'[b] = made[b] + 1
            BY <1>3, <2>5 DEF TypeOK
        <3>2. Max * made'[b] = Max * made[b] + Max
            BY <1>1, <3>1
        <3>3. QED
            BY <1>1, <2>3, <2>4, <2>5, <3>2 DEF PassedPerKey
    <2>6. CASE count[b] # 0
        <3>1. made'[b] = made[b]
            BY <1>3, <2>6
        <3>2. QED
            BY <1>1, <2>3, <2>4, <2>6, <3>1 DEF PassedPerKey
    <2>7. QED
        BY <2>5, <2>6
<1>4. CASE bucket(c) = b /\ pc'[c] \notin {"expire", "allowed"}
    <2>1. Passed(b)' = Passed(b)
        BY <1>4 DEF Passed, bucket, TypeOK
    <2>2. count'[b] = count[b] + 1 /\ count[b] # 0 /\ made'[b] = made[b]
        BY <1>1, <1>4 DEF TypeOK, IsFirst
    <2>3. QED
        BY <1>1, <2>1, <2>2 DEF PassedPerKey
<1>5. QED
    BY <1>2, <1>3, <1>4

LEMMA IncrKeeps ==
    ASSUME Inv, NEW c \in Calls, Incr(c) PROVE Inv'
BY IncrTypes, IncrApart, IncrPasses DEF Inv, Incr

(***************************************************************************)
(* EXPIRE, the clock and the losses.                                       *)
(***************************************************************************)
LEMMA ExpireKeeps ==
    ASSUME Inv, NEW c \in Calls, Expire(c) PROVE Inv'
<1> DEFINE k == bucket(c)
<1> USE DEF Inv, Expire, Goto, historyVars
<1>1. k \in Buckets /\ now \in Nat /\ now <= EndOfTime
    BY MomentInBuckets, ClockAssumption DEF bucket, TypeOK, Moments
<1>2. now + Ttl \in 0..Never
    BY <1>1, ClockAssumption DEF Ttl, Never
<1>3. TypeOK'
    BY <1>1, <1>2 DEF TypeOK, Steps, Verdict
<1>4. StartsAreReached' /\ AbsentKeys'
    BY <1>1 DEF StartsAreReached, AbsentKeys, TypeOK
<1>5. ASSUME NEW b \in Buckets, made'[b] > 0 PROVE KeyIsApart(b)'
    <2>1. KeyIsApart(b) /\ Used(b)' = Used(b) /\ Slack' = Slack /\ Ttl' = Ttl
        BY <1>5 DEF KeysAreApart, Used, Slack, Ttl
    <2>2. madeAt[b] \in Nat /\ Used(b) \in Nat /\ Slack \in Nat
        BY UsedIsNat, ClockAssumption DEF TypeOK, Moments
    <2>3. expires'[b] = expires[b] \/ expires'[b] = now + Ttl
        BY <1>1 DEF TypeOK
    <2>4. Used(b) <= now + Ttl + Slack
        BY <1>1, <2>1, <2>2, TtlIsNat DEF KeyIsApart
    <2>5. expires'[b] # Never => Used(b) <= expires'[b] + Slack
        BY <1>1, <2>1, <2>2, <2>3, <2>4, TtlIsNat DEF KeyIsApart
    <2>6. QED
        BY <2>1, <2>5 DEF KeyIsApart, Never
<1>6. \A b \in Buckets : Passed(b)' \subseteq Passed(b)
    BY DEF Passed, bucket, TypeOK
<1>7. QED
    BY <1>3, <1>4, <1>5, <1>6, NothingPasses DEF KeysAreApart

LEMMA KeysGo ==
    ASSUME Inv, UNCHANGED <<pc, start, made>>,
           \A b \in Buckets : count'[b] \in {0, count[b]}
    PROVE  \A b \in Buckets : PassedPerKey(b)'
<1>1. \A b \in Buckets : Passed(b)' = Passed(b)
    BY DEF Passed, bucket
<1>2. QED
    BY <1>1 DEF Inv, PassedPerKey

LEMMA TickKeeps == ASSUME Inv, Tick PROVE Inv'
<1> USE DEF Inv, Tick, historyVars
<1>1. now \in Nat /\ now' = now + 1 /\ now' \in Moments
    BY ClockAssumption DEF TypeOK, Moments
<1>2. TypeOK'
    BY <1>1, ClockAssumption DEF TypeOK, Never
<1>3. StartsAreReached'
    BY <1>1, ClockAssumption DEF StartsAreReached, TypeOK, Moments
<1>4. AbsentKeys'
    BY DEF AbsentKeys, TypeOK, Never
<1>5. ASSUME NEW b \in Buckets, made'[b] > 0 PROVE KeyIsApart(b)'
    <2>1. KeyIsApart(b) /\ Used(b)' = Used(b) /\ Slack' = Slack /\ Ttl' = Ttl
        BY <1>5 DEF KeysAreApart, Used, Slack, Ttl
    <2>2. /\ madeAt[b] \in Nat /\ Used(b) \in Nat /\ Slack \in Nat
          /\ expires[b] \in Nat /\ madeAt' = madeAt
        BY UsedIsNat, ClockAssumption DEF TypeOK, Moments
    <2>3. madeAt[b] <= now' /\ Used(b) <= madeAt[b] + Ttl + Slack
        BY <1>1, <2>1, <2>2 DEF KeyIsApart
    <2>4. expires'[b] # Never => expires'[b] = expires[b]
        BY DEF TypeOK
    <2>5. Never' = Never /\ now' < Never
        BY <1>1, ClockAssumption DEF Never, Moments
    <2>6. CASE expires[b] <= now'
        <3>1. Used(b) <= now' + Slack
            BY <1>1, <2>1, <2>2, <2>5, <2>6, ClockAssumption DEF KeyIsApart
        <3>2. expires'[b] = Never
            BY <2>6 DEF TypeOK
        <3>3. QED
            BY <2>1, <2>2, <2>3, <2>5, <3>1, <3>2 DEF KeyIsApart
    <2>7. CASE ~(expires[b] <= now')
        <3>1. count'[b] = count[b] /\ expires'[b] = expires[b]
            BY <2>7 DEF TypeOK
        <3>2. count[b] = 0 => Used(b) <= now' + Slack
            BY <1>1, <2>1, <2>2 DEF KeyIsApart
        <3>3. QED
            BY <2>1, <2>2, <2>3, <2>5, <3>1, <3>2 DEF KeyIsApart
    <2>8. QED
        BY <2>6, <2>7
<1>6. \A b \in Buckets : count'[b] \in {0, count[b]}
    BY DEF TypeOK
<1>7. QED
    BY <1>2, <1>3, <1>4, <1>5, <1>6, KeysGo DEF KeysAreApart

LEMMA LoseKeysKeeps == ASSUME Inv, LoseKeys PROVE Inv'
<1> USE DEF Inv, LoseKeys
<1>1. TypeOK'
    BY LossesAssumption, ClockAssumption DEF TypeOK, Never
<1>2. StartsAreReached' /\ AbsentKeys'
    BY DEF StartsAreReached, AbsentKeys, TypeOK, Never
<1>3. ASSUME NEW b \in Buckets, made'[b] > 0 PROVE KeyIsApart(b)'
    <2>1. KeyIsApart(b) /\ Used(b)' = Used(b) /\ Ttl' = Ttl
        BY <1>3 DEF KeysAreApart, Used, Ttl
    <2>2. /\ madeAt[b] \in Nat /\ Used(b) \in Nat /\ Slack \in Nat
          /\ now \in Nat /\ losses \in Nat
        BY UsedIsNat, LossesAssumption, ClockAssumption DEF TypeOK, Moments
    <2>3. Slack' = Slack + Ttl
        BY <2>1, <2>2, TtlIsNat, SMTT(30) DEF Slack
    <2>4. expires'[b] = Never'
        BY DEF Never
    <2>5. QED
        BY <2>1, <2>2, <2>3, <2>4, TtlIsNat DEF KeyIsApart
<1>4. \A b \in Buckets : count'[b] \in {0, count[b]}
    OBVIOUS
<1>5. QED
    BY <1>1, <1>2, <1>3, <1>4, KeysGo DEF KeysAreApart

LEMMA StutterKeeps == ASSUME Inv, UNCHANGED vars PROVE Inv'
BY DEF Inv, vars, historyVars, TypeOK, StartsAreReached, AbsentKeys, KeysAreApart,
       KeyIsApart, PassedPerKey, Passed, bucket, Used, Slack

LEMMA InvStep == Inv /\ [Next]_vars => Inv'
BY ReadClockKeeps, IncrKeeps, ExpireKeeps, CallFailsKeeps, TickKeeps,
   LoseKeysKeeps, StutterKeeps DEF Next

THEOREM Invariance == Spec => []Inv
BY InvInit, InvStep, PTL DEF Spec

(***************************************************************************)
(* How many keys fit between the begin of a second and a moment.           *)
(***************************************************************************)
LEMMA KeysFit ==
    ASSUME NEW t \in Nat, t > 0, NEW d \in Nat, NEW n \in Int, t * n <= d
    PROVE  n <= d \div t
<1>1. d \div t \in Int /\ d < t * (d \div t) + t
    BY SMTT(60)
<1>2. SUFFICES ASSUME n >= d \div t + 1 PROVE FALSE
    BY <1>1
<1>3. t * n >= t * (d \div t + 1)
    BY <1>1, <1>2, SMTT(60)
<1>4. t * (d \div t + 1) = t * (d \div t) + t
    BY <1>1, SMTT(60)
<1>5. t * n \in Int /\ t * (d \div t) \in Int
    BY <1>1
<1>6. QED
    BY <1>1, <1>3, <1>4, <1>5

LEMMA KeysAreFew ==
    ASSUME Inv, NEW b \in Buckets
    PROVE  Keys(b) \in Nat /\ made[b] <= Keys(b)
<1> DEFINE d == madeAt[b] - b * Second
<1>1. /\ b * Second \in Nat /\ madeAt[b] \in Nat /\ made[b] \in Nat
      /\ losses \in Nat
    BY BucketBegins, ClockAssumption, LossesAssumption DEF Inv, TypeOK, Moments
<1>2. CASE made[b] = 0
    <2>1. d = 0
        BY <1>1, <1>2 DEF Inv, AbsentKeys
    <2>2. d \div (2 * Second) = 0
        BY <2>1, ClockAssumption
    <2>3. QED
        BY <1>1, <1>2, <2>2 DEF Keys
<1>3. CASE made[b] > 0
    <2>1. b * Second + Ttl * made[b] <= madeAt[b] + Ttl + Ttl * losses
        BY <1>3 DEF Inv, KeysAreApart, KeyIsApart, Used, Slack
    <2> DEFINE n == made[b] - 1 - losses
    <2>2. Ttl * n = Ttl * made[b] - Ttl - Ttl * losses
        BY <1>1, TtlIsNat, SMTT(30)
    <2>3. Ttl * n <= d
        BY <1>1, <2>1, <2>2, TtlIsNat
    <2>4. d \in Nat
        <3>1. made[b] >= 1
            BY <1>1, <1>3
        <3>2. b * Second <= madeAt[b]
            BY <1>3 DEF Inv, KeysAreApart, KeyIsApart
        <3>3. QED
            BY <1>1, <3>2
    <2>5. n <= d \div Ttl
        BY <1>1, <2>3, <2>4, TtlIsNat, KeysFit
    <2>6. d \div Ttl \in Nat
        BY <2>4, TtlIsNat, SMTT(30)
    <2>7. QED
        BY <1>1, <2>5, <2>6 DEF Keys, Ttl
<1>4. QED
    BY <1>1, <1>2, <1>3

\* Whatever the delay of its commands, and however often Redis loses its keys,
\* a second of the clock is given Max calls for each key it can have had.
THEOREM BucketsAreLimited == Spec => []AllowedPerBucket
<1>1. Inv => AllowedPerBucket
    <2>1. SUFFICES ASSUME Inv, NEW b \in Buckets
                   PROVE  Cardinality({c \in Calls : pc[c] = "allowed" /\ bucket(c) = b})
                            <= Max * Keys(b)
        BY DEF AllowedPerBucket
    <2>2. {c \in Calls : pc[c] = "allowed" /\ bucket(c) = b} \subseteq Passed(b)
        BY DEF Passed
    <2>3. Cardinality({c \in Calls : pc[c] = "allowed" /\ bucket(c) = b})
            <= Cardinality(Passed(b))
        BY <2>2, PassedIsFinite, FS_Subset
    <2>4. Cardinality({c \in Calls : pc[c] = "allowed" /\ bucket(c) = b}) \in Nat
        BY CallsAssumption, FS_Subset, FS_CardinalityType
    <2>5. Cardinality(Passed(b)) \in Nat /\ Cardinality(Passed(b)) <= Max * made[b]
        <3>1. PassedPerKey(b)
            BY <2>1 DEF Inv
        <3>2. QED
            BY <3>1, PassedIsFinite DEF PassedPerKey
    <2>6. /\ Max * made[b] \in Nat /\ Max * Keys(b) \in Nat
          /\ Max * made[b] <= Max * Keys(b)
        <3>1. Keys(b) \in Nat /\ made[b] <= Keys(b)
            BY <2>1, KeysAreFew
        <3>2. made[b] \in Nat
            BY <2>1 DEF Inv, TypeOK
        <3>3. QED
            BY <3>1, <3>2, MaxAssumption, SMTT(60)
    <2>7. QED
        BY <2>3, <2>4, <2>5, <2>6
<1>2. QED
    BY <1>1, Invariance, PTL

(***************************************************************************)
(* The expiry.  A call waits for its INCR, or for the EXPIRE it owes.      *)
(***************************************************************************)
Keeper(b) == \E c \in Calls : pc[c] \in {"expire", "gone"} /\ bucket(c) = b

LEMMA KeyStep ==
    ASSUME Inv, KeysExpire, [Next]_vars PROVE KeysExpire'
<1> SUFFICES ASSUME NEW b \in Buckets, count'[b] > 0, expires'[b] = Never
             PROVE  Keeper(b)'
    BY DEF KeysExpire, Keeper
<1>1. count[b] > 0 /\ expires[b] = Never => Keeper(b)
    BY DEF KeysExpire, Keeper
<1> USE DEF Inv, TypeOK
<1>2. ASSUME NEW c \in Calls, ReadClock(c) PROVE Keeper(b)'
    BY <1>1, <1>2 DEF ReadClock, Goto, Keeper, bucket
<1>3. ASSUME NEW c \in Calls, Incr(c) PROVE Keeper(b)'
    <2>1. CASE count[b] > 0
        BY <1>1, <1>3, <2>1 DEF Incr, Goto, Keeper, bucket
    <2>2. CASE count[b] = 0
        <3>1. bucket(c) = b
            BY <1>3, <2>2 DEF Incr
        <3>2. pc'[c] = "expire"
            BY <1>3, <2>2, <3>1 DEF Incr, Goto, IsFirst
        <3>3. bucket(c)' = b
            BY <1>3, <3>1 DEF Incr, bucket
        <3>4. QED
            BY <3>2, <3>3 DEF Keeper
    <2>3. QED
        BY <1>3, <2>1, <2>2 DEF Incr
<1>4. ASSUME NEW c \in Calls, Expire(c) PROVE Keeper(b)'
    <2>1. now + Ttl # Never
        BY ClockAssumption DEF Ttl, Never, Moments
    <2>2. bucket(c) # b
        BY <1>4, <2>1 DEF Expire
    <2>3. QED
        BY <1>1, <1>4, <2>2 DEF Expire, Goto, Keeper, bucket
<1>5. ASSUME NEW c \in Calls, CallFails(c) PROVE Keeper(b)'
    BY <1>1, <1>5 DEF CallFails, Goto, Keeper, bucket
<1>6. CASE Tick
    <2>1. ~(expires[b] <= now')
        BY <1>6 DEF Tick
    <2>2. count[b] > 0 /\ expires[b] = Never
        BY <1>6, <2>1 DEF Tick
    <2>3. QED
        BY <1>1, <1>6, <2>2 DEF Tick, Keeper, bucket
<1>7. CASE UNCHANGED vars
    BY <1>1, <1>7 DEF vars, Keeper, bucket
<1>8. CASE LoseKeys
    BY <1>8 DEF LoseKeys
<1>9. QED
    BY <1>2, <1>3, <1>4, <1>5, <1>6, <1>7, <1>8 DEF Next

\* A counter that never expires was made by a call that ended, or still is,
\* between INCR and EXPIRE.
THEOREM CountersExpire == Spec => []KeysExpire
<1>1. Init => KeysExpire
    BY DEF Init, KeysExpire
<1>2. QED
    BY <1>1, KeyStep, Invariance, PTL DEF Spec

\* Every variable keeps its type.
THEOREM LimiterTypeCorrect == Spec => []TypeOK
<1>1. Inv => TypeOK
    BY DEF Inv
<1>2. QED
    BY <1>1, Invariance, PTL

-----------------------------------------------------------------------------
(***************************************************************************)
(* The watchdog.  The script changes its file before it writes to the chat *)
(* and nothing in between looks at the chat, so that what the chat was     *)
(* told is told apart from what the file says by the pending message only. *)
(***************************************************************************)
Unsent == watchPc \in {"sendUp", "sendDown"}

ToldUnlessUnsent ==
    faults = 0 =>
        /\ ~Unsent => (told = "down" <=> file)
        /\ Unsent => (told = "down" <=> ~file)

WatchInv ==
    /\ Watch!TypeOK
    /\ watchPc = "sendDown" => file
    /\ ToldUnlessUnsent

LEMMA WatchInit == Watch!Init => WatchInv
<1> SUFFICES ASSUME Watch!Init PROVE WatchInv
    OBVIOUS
<1> USE DEF Watch!Init
<1>1. faults \in 0..MaxFaults
    BY FaultsAssumption
<1>2. Watch!TypeOK
    BY <1>1 DEF Watch!HubInit, Watch!TypeOK, Watch!HubTypeOK, Watch!Steps
<1>3. ToldUnlessUnsent
    BY DEF ToldUnlessUnsent, Unsent
<1>4. QED
    BY <1>2, <1>3 DEF WatchInv

LEMMA HubStep ==
    ASSUME WatchInv, Watch!Hub PROVE WatchInv'
BY DEF Watch!Hub, Watch!PostgresChanges, Watch!RedisChanges, Watch!Restart,
       Watch!Die, Watch!scriptVars, Watch!HubTypeOK, Watch!TypeOK, WatchInv,
       ToldUnlessUnsent, Unsent

LEMMA AskingStep ==
    ASSUME WatchInv,
           Watch!Ask \/ Watch!PingPostgres \/ Watch!PingRedis \/ Watch!NoAnswer
    PROVE  WatchInv'
BY DEF Watch!Ask, Watch!PingPostgres, Watch!PingRedis, Watch!NoAnswer,
       Watch!hubVars, Watch!HubTypeOK, Watch!TypeOK, Watch!Steps, WatchInv,
       ToldUnlessUnsent, Unsent

LEMMA TellingStep ==
    ASSUME WatchInv, Watch!SeeUp \/ Watch!SeeDown \/ Watch!Send
    PROVE  WatchInv'
<1> USE DEF Watch!SeeUp, Watch!SeeDown, Watch!Send, Watch!Message,
            Watch!FileAfterUp, Watch!FileAfterDown, WatchInv
<1>1. Watch!HubTypeOK' /\ (faults \in 0..MaxFaults)'
    BY DEF Watch!hubVars, Watch!HubTypeOK, Watch!TypeOK
<1>2. /\ watchPc' \in Watch!Steps /\ told' \in {"up", "down"}
      /\ file' \in BOOLEAN
      /\ watchPc' = "sendUp" => ~file'
      /\ watchPc' = "sendDown" => file'
    BY DEF Watch!TypeOK, Watch!Steps
<1>3. ToldUnlessUnsent'
    BY DEF Watch!TypeOK, ToldUnlessUnsent, Unsent
<1>4. QED
    BY <1>1, <1>2, <1>3 DEF Watch!TypeOK

LEMMA FaultStep ==
    ASSUME WatchInv, Watch!SendFails \/ Watch!Killed \/ Watch!FileLost
    PROVE  WatchInv'
<1> USE DEF Watch!SendFails, Watch!Killed, Watch!FileLost, WatchInv
<1>1. Watch!HubTypeOK'
    BY DEF Watch!hubVars, Watch!HubTypeOK, Watch!TypeOK
<1>2. (faults \in 0..MaxFaults)' /\ faults' # 0
    BY FaultsAssumption DEF Watch!Fault, Watch!TypeOK
<1>3. /\ watchPc' = "idle" /\ watchPc' \in Watch!Steps
      /\ told' \in {"up", "down"} /\ file' \in BOOLEAN
    BY DEF Watch!Message, Watch!TypeOK, Watch!Steps
<1>4. QED
    BY <1>1, <1>2, <1>3 DEF Watch!TypeOK, ToldUnlessUnsent

LEMMA WatchStutter == ASSUME WatchInv, UNCHANGED watchVars PROVE WatchInv'
BY DEF watchVars, Watch!HubTypeOK, Watch!TypeOK, WatchInv, ToldUnlessUnsent, Unsent

LEMMA WatchStep == WatchInv /\ [GuardsNext]_allVars => WatchInv'
<1> SUFFICES ASSUME WatchInv, [GuardsNext]_allVars PROVE WatchInv'
    OBVIOUS
<1>1. CASE Watch!Next
    BY <1>1, HubStep, AskingStep, TellingStep, FaultStep
       DEF Watch!Next, Watch!Script
<1>2. CASE UNCHANGED watchVars
    BY <1>2, WatchStutter
<1>3. QED
    BY <1>1, <1>2 DEF GuardsNext, LimiterRuns, WatchdogRuns, allVars, watchVars

(***************************************************************************)
(* Both together: a step of one leaves the other where it is.              *)
(***************************************************************************)
LEMMA LimiterAlone == GuardsSpec => Spec
<1>1. GuardsInit => Init
    BY DEF GuardsInit
<1>2. [GuardsNext]_allVars => [Next]_vars
    BY DEF GuardsNext, LimiterRuns, WatchdogRuns, allVars
<1>3. QED
    BY <1>1, <1>2, PTL DEF GuardsSpec, Spec

LEMMA WatchdogKeeps == GuardsSpec => []WatchInv
<1>1. GuardsInit => WatchInv
    BY WatchInit DEF GuardsInit
<1>2. QED
    BY <1>1, WatchStep, PTL DEF GuardsSpec

\* Limiter and watchdog keep their types, and the watchdog announces an end
\* only when its file is gone.
THEOREM GuardsTypeCorrect == GuardsSpec => []GuardsTypeOK
<1>1. WatchInv /\ TypeOK => GuardsTypeOK
    BY DEF WatchInv, GuardsTypeOK
<1>2. QED
    BY <1>1, LimiterAlone, LimiterTypeCorrect, WatchdogKeeps, PTL

\* However outages and runs of the script fall together, between two runs the
\* chat knows what the file says, as long as nothing was lost.
THEOREM ChatMatchesFile == GuardsSpec => []ToldMatchesFile
<1>1. WatchInv => ToldMatchesFile
    BY DEF WatchInv, ToldUnlessUnsent, Unsent, ToldMatchesFile, Watch!ToldMatchesFile
<1>2. QED
    BY <1>1, WatchdogKeeps, PTL
=============================================================================

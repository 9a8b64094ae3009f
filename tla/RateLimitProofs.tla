--------------------------- MODULE RateLimitProofs --------------------------
(***************************************************************************)
(* Proofs about the rate limiter: for any number of user agents and        *)
(* goroutines, any burst, and any length of the periods for which a bucket *)
(* is filled before it may be forgotten.                                   *)
(***************************************************************************)
EXTENDS RateLimit, TLAPS

(***************************************************************************)
(* What k requests cost.                                                   *)
(***************************************************************************)

Cost(k) == k * Second

LEMMA Costs ==
  /\ \A k \in Int : Cost(k) \in Int /\ Cost(k + 1) = Cost(k) + Second
  /\ Cost(1) = Second
BY RateLimitConstants DEF Cost

LEMMA Sizes ==
  /\ Burst \in Nat /\ Second \in Nat \ {0} /\ Full \in Nat /\ Full >= Second
  /\ Never \in Int /\ Never = -(Full + 1)
  /\ Idle \in Nat /\ MaxStall \in Nat /\ SweepEvery \in Nat \ {0} /\ MaxNow \in Nat
  /\ Idle >= Full + MaxStall
<1>1. Burst * Second >= Second /\ Burst * Second \in Nat
  BY RateLimitConstants
<1> QED
  BY <1>1, RateLimitConstants DEF Full, Never

\* The grants to an agent.
Log(q) == q \in Seq(Moments)

LEMMA MomentsAreNaturals ==
  /\ \A t \in Moments : t \in Int /\ 0 <= t
  /\ \A q : Log(q) =>
       /\ Len(q) \in Nat /\ DOMAIN q = 1 .. Len(q)
       /\ \A i \in 1 .. Len(q) : q[i] \in Moments /\ q[i] \in Int
<1>1. \A t \in Moments : t \in Int /\ 0 <= t
  BY Sizes DEF Moments
<1>2. ASSUME NEW q, Log(q)
      PROVE  /\ Len(q) \in Nat /\ DOMAIN q = 1 .. Len(q)
             /\ \A i \in 1 .. Len(q) : q[i] \in Moments
  BY <1>2 DEF Log
<1> QED
  BY <1>1, <1>2

Bucket == [tokens : 0 .. Full, last : Times]

\* What a bucket holds is between what it held and its rim.
LEMMA AdvanceBounds ==
  ASSUME NEW b \in Bucket, NEW t \in Moments
  PROVE  /\ Advance(b, t) \in Int /\ 0 <= Advance(b, t) /\ Advance(b, t) <= Full
         /\ t >= b.last => /\ Advance(b, t) <= b.tokens + t - b.last
                           /\ Advance(b, t) = b.tokens + t - b.last \/ Advance(b, t) = Full
<1>1. b.tokens \in Int /\ 0 <= b.tokens /\ b.tokens <= Full /\ b.last \in Int /\ t \in Int
  BY Sizes DEF Bucket, Times, Moments
<1> QED
  BY <1>1, Sizes DEF Advance

(***************************************************************************)
(* The grants to one agent, and the bucket it has.                         *)
(***************************************************************************)

\* From every grant on, no more than an empty bucket allows.
Spaced(q) ==
  Promise!Ordered(q) =>
    \A i \in DOMAIN q : Cost(Len(q) - i + 1) <= Full + q[Len(q)] - q[i]

\* The bucket has been used, last for the last grant.  What is gone from it has
\* gone since a grant before which it was full, and at least that since any.
Kept(q, b) ==
  /\ q # << >> /\ b.last = q[Len(q)]
  /\ Promise!Ordered(q) =>
       /\ \A i \in DOMAIN q : Cost(Len(q) - i + 1) <= Full + q[Len(q)] - q[i] - b.tokens
       /\ \E i \in DOMAIN q : Cost(Len(q) - i + 1) = Full + q[Len(q)] - q[i] - b.tokens

LEMMA KeptIsSpaced ==
  ASSUME NEW q, Log(q), NEW b \in Bucket, Kept(q, b)
  PROVE  Spaced(q)
<1> SUFFICES ASSUME Promise!Ordered(q), NEW i \in DOMAIN q
             PROVE  Cost(Len(q) - i + 1) <= Full + q[Len(q)] - q[i]
  BY DEF Spaced
<1>1. Cost(Len(q) - i + 1) <= Full + q[Len(q)] - q[i] - b.tokens
  BY DEF Kept
<1>2. Len(q) - i + 1 \in Int /\ q[Len(q)] \in Int /\ q[i] \in Int
  <2>1. Len(q) \in Nat /\ i \in 1 .. Len(q) /\ Len(q) \in 1 .. Len(q)
    BY MomentsAreNaturals
  <2> QED
    BY <2>1, MomentsAreNaturals
<1>3. b.tokens \in Int /\ b.tokens >= 0
  BY Sizes DEF Bucket
<1>4. Cost(Len(q) - i + 1) \in Int
  BY <1>2, Costs
<1> QED
  BY <1>1, <1>2, <1>3, <1>4, Sizes

LEMMA AppendOrdered ==
  ASSUME NEW q, Log(q), NEW t \in Moments, Promise!Ordered(Append(q, t))
  PROVE  Promise!Ordered(q) /\ \A i \in DOMAIN q : q[i] <= t
<1>1. \A i \in DOMAIN q : Append(q, t)[i] = q[i] /\ i \in DOMAIN Append(q, t)
                          /\ i <= Len(q) + 1
  BY DEF Log
<1>2. Len(q) + 1 \in DOMAIN Append(q, t) /\ Append(q, t)[Len(q) + 1] = t
  BY DEF Log
<1> QED
  BY <1>1, <1>2 DEF Promise!Ordered

LEMMA WholeSizes == Full \in Int /\ Second \in Int
BY Sizes

\* One more grant from a bucket that has been used.
LEMMA GrantUsed ==
  ASSUME NEW q, Log(q), NEW b \in Bucket, Kept(q, b), NEW t \in Moments,
         NEW left \in Nat, left = Advance(b, t) - Second
  PROVE  /\ Kept(Append(q, t), [tokens |-> left, last |-> t])
         /\ Promise!Ordered(Append(q, t)) => Promise!Fits(q, t)
<1> DEFINE p == Append(q, t)
           n == Len(q)
           c == [tokens |-> left, last |-> t]
<1>1. /\ Log(p) /\ Len(p) = n + 1 /\ p[n + 1] = t /\ DOMAIN p = 1 .. n + 1
      /\ \A i \in 1 .. n : p[i] = q[i]
      /\ DOMAIN q = 1 .. n /\ n \in Nat /\ n >= 1
  BY DEF Kept, Log
<1>2. p # << >> /\ c.last = p[Len(p)] /\ c.tokens = left
  BY <1>1
<1>3. ASSUME Promise!Ordered(p)
      PROVE  /\ \A i \in DOMAIN p : Cost(Len(p) - i + 1) <= Full + p[Len(p)] - p[i] - left
             /\ \E i \in DOMAIN p : Cost(Len(p) - i + 1) = Full + p[Len(p)] - p[i] - left
             /\ Promise!Fits(q, t)
  <2>1. Promise!Ordered(q) /\ t >= q[n] /\ q[n] = b.last
    BY <1>1, <1>3, AppendOrdered DEF Kept
  <2> DEFINE adv == Advance(b, t)
  <2>a. q[n] \in Moments /\ q[n] \in Int /\ t \in Int
    <3>1. n \in 1 .. Len(q)
      BY <1>1
    <3> QED
      BY <3>1, MomentsAreNaturals
  <2>b. b.tokens \in Int
    BY Sizes DEF Bucket
  <2>2. /\ adv \in Int /\ adv <= Full /\ adv <= b.tokens + t - q[n]
        /\ adv = b.tokens + t - q[n] \/ adv = Full
        /\ left = adv - Second /\ b.tokens \in Int /\ q[n] \in Int /\ t \in Int
    BY <2>1, <2>a, <2>b, AdvanceBounds
  <2> HIDE DEF adv
  <2>3. ASSUME NEW i \in 1 .. n
        PROVE  /\ Cost(n - i + 1) \in Int /\ Cost(n - i + 2) = Cost(n - i + 1) + Second
               /\ Cost(n - i + 1) <= Full + q[n] - q[i] - b.tokens
               /\ q[i] \in Int
    <3>1. n - i + 1 \in Int /\ (n - i + 1) + 1 = n - i + 2
      BY <1>1
    <3>2. q[i] \in Int
      BY MomentsAreNaturals
    <3>3. Cost(n - i + 1) <= Full + q[n] - q[i] - b.tokens
      BY <1>1, <2>1 DEF Kept
    <3>4. Cost(n - i + 1) \in Int /\ Cost((n - i + 1) + 1) = Cost(n - i + 1) + Second
      BY <3>1, Costs
    <3> QED
      BY <3>1, <3>2, <3>3, <3>4
  \* The costs since the last of p, and since an earlier one.
  <2>4. /\ Cost(Len(p) - (n + 1) + 1) = Second /\ p[Len(p)] = t /\ p[n + 1] = t
        /\ \A i \in 1 .. n : Cost(Len(p) - i + 1) = Cost(n - i + 2) /\ p[i] = q[i]
    <3>1. \A i \in 1 .. n : Len(p) - i + 1 = n - i + 2
      BY <1>1
    <3>2. Len(p) - (n + 1) + 1 = 1
      BY <1>1
    <3> QED
      BY <1>1, <3>1, <3>2, Costs
  <2>5. \A i \in DOMAIN p : Cost(Len(p) - i + 1) <= Full + p[Len(p)] - p[i] - left
    <3>1. ASSUME NEW i \in 1 .. n
          PROVE  Cost(n - i + 2) <= Full + t - q[i] - left
      <4> HIDE DEF n, p
      <4> QED
        BY <2>2, <2>3, WholeSizes
    <3>2. Second <= Full + t - t - left
      BY <2>2, WholeSizes
    <3> HIDE DEF n, p
    <3> QED
      BY <1>1, <2>4, <3>1, <3>2
  <2>6. \E i \in DOMAIN p : Cost(Len(p) - i + 1) = Full + p[Len(p)] - p[i] - left
    <3>1. CASE adv = Full
      <4>1. Second = Full + t - t - left
        BY <2>2, <3>1, WholeSizes
      <4> HIDE DEF n, p
      <4> QED
        BY <1>1, <2>4, <4>1
    <3>2. CASE adv = b.tokens + t - q[n]
      <4>1. PICK i \in 1 .. n : Cost(n - i + 1) = Full + q[n] - q[i] - b.tokens
        BY <1>1, <2>1 DEF Kept
      <4>2. Cost(n - i + 2) = Full + t - q[i] - left
        <5> HIDE DEF n, p
        <5> QED
          BY <2>2, <2>3, <3>2, <4>1, WholeSizes
      <4> HIDE DEF n, p
      <4> QED
        BY <1>1, <2>4, <4>2
    <3> QED
      BY <2>2, <3>1, <3>2
  <2>7. Promise!Fits(q, t)
    <3>1. ASSUME NEW i \in 1 .. n  PROVE (n - i + 2) * Second <= Burst * Second + t - q[i]
      <4>1. Cost(n - i + 2) <= Full + t - q[i]
        <5>1. adv >= Second
          BY <2>2, WholeSizes
        <5> HIDE DEF n, p
        <5> QED
          BY <2>2, <2>3, <5>1, WholeSizes
      <4> QED
        BY <4>1 DEF Cost, Full
    <3> QED
      BY <1>1, <3>1 DEF Promise!Fits
  <2> QED
    BY <2>5, <2>6, <2>7
<1> QED
  BY <1>2, <1>3 DEF Kept

\* By t the last of these grants is so long ago that its bucket would be full.
Filled(q, t) == q # << >> => q[Len(q)] + Full <= t

\* The first grant from a bucket, when the grants before it are so long ago that
\* the bucket they were from would be full.
LEMMA GrantFresh ==
  ASSUME NEW q, Log(q), Spaced(q), NEW b \in Bucket, b.last = Never, b.tokens = Full,
         NEW t \in Moments, Filled(q, t),
         NEW left \in Nat, left = Advance(b, t) - Second
  PROVE  /\ Kept(Append(q, t), [tokens |-> left, last |-> t])
         /\ Promise!Ordered(Append(q, t)) => Promise!Fits(q, t)
<1> DEFINE p == Append(q, t)
           n == Len(q)
           c == [tokens |-> left, last |-> t]
<1>1. /\ Log(p) /\ Len(p) = n + 1 /\ p[n + 1] = t /\ DOMAIN p = 1 .. n + 1
      /\ \A i \in 1 .. n : p[i] = q[i]
      /\ DOMAIN q = 1 .. n /\ n \in Nat /\ (n >= 1 => q # << >>)
  BY DEF Log
<1>2. p # << >> /\ c.last = p[Len(p)] /\ c.tokens = left
  <2>1. Len(p) # 0 /\ p[Len(p)] = t
    BY <1>1
  <2>2. c.last = t /\ c.tokens = left
    OBVIOUS
  <2> HIDE DEF p, c
  <2>3. p # << >>
    BY <2>1
  <2> QED
    BY <2>1, <2>2, <2>3
<1>3. left = Full - Second /\ t \in Int
  <2>1. t \in Int /\ 0 <= t
    BY MomentsAreNaturals
  <2> QED
    BY <2>1, Sizes DEF Advance
<1>4. ASSUME Promise!Ordered(p)
      PROVE  /\ \A i \in DOMAIN p : Cost(Len(p) - i + 1) <= Full + p[Len(p)] - p[i] - left
             /\ \E i \in DOMAIN p : Cost(Len(p) - i + 1) = Full + p[Len(p)] - p[i] - left
             /\ Promise!Fits(q, t)
  <2>1. Promise!Ordered(q)
    BY <1>4, AppendOrdered
  <2>2. ASSUME NEW i \in 1 .. n
        PROVE  /\ Cost(n - i + 1) \in Int /\ Cost(n - i + 2) = Cost(n - i + 1) + Second
               /\ Cost(n - i + 1) <= Full + q[n] - q[i] /\ q[n] + Full <= t
               /\ q[i] \in Int /\ q[n] \in Int
    <3>1. n - i + 1 \in Int /\ (n - i + 1) + 1 = n - i + 2 /\ n \in 1 .. n
      BY <1>1
    <3>2. q[i] \in Int /\ q[n] \in Int
      BY <3>1, MomentsAreNaturals
    <3>3. Cost(n - i + 1) <= Full + q[n] - q[i]
      BY <1>1, <2>1 DEF Spaced
    <3>4. Cost(n - i + 1) \in Int /\ Cost((n - i + 1) + 1) = Cost(n - i + 1) + Second
      BY <3>1, Costs
    <3>5. q[n] + Full <= t
      BY <1>1, <3>1 DEF Filled
    <3> QED
      BY <3>1, <3>2, <3>3, <3>4, <3>5
  <2>3. /\ Cost(Len(p) - (n + 1) + 1) = Second /\ p[Len(p)] = t /\ p[n + 1] = t
        /\ \A i \in 1 .. n : Cost(Len(p) - i + 1) = Cost(n - i + 2) /\ p[i] = q[i]
    <3>1. \A i \in 1 .. n : Len(p) - i + 1 = n - i + 2
      BY <1>1
    <3>2. Len(p) - (n + 1) + 1 = 1
      BY <1>1
    <3> QED
      BY <1>1, <3>1, <3>2, Costs
  <2>4. Second = Full + t - t - left
    BY <1>3, WholeSizes
  <2>5. ASSUME NEW i \in 1 .. n
        PROVE  Cost(n - i + 2) <= Full + t - q[i] - left /\ Cost(n - i + 2) <= Full + t - q[i]
    <3> HIDE DEF n, p
    <3>0. /\ Cost(n - i + 1) \in Int /\ q[i] \in Int /\ q[n] \in Int
          /\ Cost(n - i + 2) = Cost(n - i + 1) + Second
          /\ Cost(n - i + 1) <= Full + q[n] - q[i] /\ q[n] + Full <= t
      BY <2>2
    <3>1. Cost(n - i + 2) <= Second + t - q[i]
      BY <1>3, <3>0, WholeSizes
    <3>2. Full - left = Second /\ Second <= Full /\ left \in Int
      BY <1>3, Sizes
    <3>3. Cost(n - i + 2) \in Int /\ q[i] \in Int /\ t \in Int
      BY <1>3, <2>2, WholeSizes
    <3> QED
      BY <3>1, <3>2, <3>3, WholeSizes
  <2>6. /\ \A i \in DOMAIN p : Cost(Len(p) - i + 1) <= Full + p[Len(p)] - p[i] - left
        /\ \E i \in DOMAIN p : Cost(Len(p) - i + 1) = Full + p[Len(p)] - p[i] - left
    <3>1. Second <= Full + t - t - left
      BY <2>4, WholeSizes
    <3> HIDE DEF n, p
    <3> QED
      BY <1>1, <2>3, <2>4, <2>5, <3>1
  <2>7. Promise!Fits(q, t)
    <3>1. ASSUME NEW i \in 1 .. n  PROVE (n - i + 2) * Second <= Burst * Second + t - q[i]
      BY <2>5 DEF Cost, Full
    <3> QED
      BY <1>1, <3>1 DEF Promise!Fits
  <2> QED
    BY <2>6, <2>7
<1> QED
  BY <1>2, <1>4 DEF Kept

\* A bucket that refuses has granted as much as is allowed since it was full.
LEMMA RefuseUsed ==
  ASSUME NEW q, Log(q), NEW b \in Bucket, Kept(q, b), NEW t \in Moments,
         Advance(b, t) < Second, Promise!Ordered(Append(q, t))
  PROVE  ~Promise!Fits(q, t)
<1> DEFINE n == Len(q)
           adv == Advance(b, t)
<1>1. n \in Nat /\ n >= 1 /\ DOMAIN q = 1 .. n /\ n \in 1 .. n
  BY DEF Kept, Log
<1>2. Promise!Ordered(q) /\ t >= q[n] /\ q[n] = b.last /\ t \in Int /\ q[n] \in Int
  BY <1>1, AppendOrdered, MomentsAreNaturals DEF Kept
<1>3. b.tokens \in Int
  BY Sizes DEF Bucket
<1>4. adv = b.tokens + t - q[n] /\ adv < Second
  BY <1>2, AdvanceBounds, Sizes
<1>5. PICK i \in 1 .. n : Cost(n - i + 1) = Full + q[n] - q[i] - b.tokens
  BY <1>1, <1>2 DEF Kept
<1>6. /\ Cost(n - i + 1) \in Int /\ Cost(n - i + 2) = Cost(n - i + 1) + Second
      /\ q[i] \in Int
  <2>1. n - i + 1 \in Int /\ (n - i + 1) + 1 = n - i + 2
    BY <1>1
  <2>2. Cost(n - i + 1) \in Int /\ Cost((n - i + 1) + 1) = Cost(n - i + 1) + Second
    BY <2>1, Costs
  <2> QED
    BY <2>1, <2>2, MomentsAreNaturals
<1>7. Cost(n - i + 2) > Full + t - q[i]
  <2> HIDE DEF n, adv
  <2> QED
    BY <1>2, <1>3, <1>4, <1>5, <1>6, WholeSizes
<1>8. (n - i + 2) * Second > Burst * Second + t - q[i]
  BY <1>7 DEF Cost, Full
<1>9. (n - i + 2) * Second \in Int /\ Burst * Second + t - q[i] \in Int
  BY <1>1, <1>2, <1>6, Sizes
<1> QED
  BY <1>1, <1>8, <1>9 DEF Promise!Fits

(***************************************************************************)
(* Every variable has its type.                                            *)
(***************************************************************************)
Asked == [agent : Agents, bucket : DOMAIN buckets, since : Moments]
Timed == [agent : Agents, bucket : DOMAIN buckets, since : Moments, time : Moments]

\* What a slot holds goes with its next step.
Held(s) ==
  /\ pc[s] = "Idle" => call[s] = NoCall
  /\ pc[s] = "ReadClock" => call[s] \in Asked
  /\ pc[s] = "Reserve" => call[s] \in Timed

Types ==
  /\ now \in Moments
  /\ buckets \in Seq(Bucket)
  /\ DOMAIN visitors \subseteq Agents
  /\ visitors \in [DOMAIN visitors -> [bucket : DOMAIN buckets, lastSeen : Moments]]
  /\ sweepAt \in SweepEvery .. MaxNow + SweepEvery
  /\ pc \in [Slots -> {"Idle", "ReadClock", "Reserve"}]
  /\ DOMAIN call = Slots
  /\ \A s \in Slots : Held(s)
  /\ granted \in [Agents -> Seq(Moments)]

LEMMA TypesAreTypeOK == Types => TypeOK
<1> SUFFICES ASSUME Types  PROVE TypeOK
  OBVIOUS
<1>1. \A s \in Slots :
       CASE pc[s] = "Idle" -> call[s] = NoCall
         [] pc[s] = "ReadClock" ->
              call[s] \in [agent : Agents, bucket : DOMAIN buckets, since : Moments]
         [] pc[s] = "Reserve" ->
              call[s] \in [agent : Agents, bucket : DOMAIN buckets, since : Moments, time : Moments]
  BY DEF Types, Held, Asked, Timed
<1> QED
  BY <1>1 DEF Types, TypeOK, Bucket

LEMMA TypesInit == Init => Types
<1> SUFFICES ASSUME Init  PROVE Types
  OBVIOUS
<1>1. visitors = << >> /\ DOMAIN visitors = {}
  BY DEF Init
<1>2. visitors \in [DOMAIN visitors -> [bucket : DOMAIN buckets, lastSeen : Moments]]
  BY <1>1
<1>3. now \in Moments /\ sweepAt \in SweepEvery .. MaxNow + SweepEvery
  BY Sizes DEF Init, Moments
<1>4. buckets \in Seq(Bucket) /\ granted \in [Agents -> Seq(Moments)]
  BY DEF Init
<1>5. pc \in [Slots -> {"Idle", "ReadClock", "Reserve"}] /\ DOMAIN call = Slots
  BY DEF Init
<1>6. \A s \in Slots : Held(s)
  BY DEF Init, Held
<1> QED
  BY <1>1, <1>2, <1>3, <1>4, <1>5, <1>6 DEF Types

\* A step that moves one slot, and makes no bucket go away.
LEMMA OneSlotMoves ==
  ASSUME Types, NEW s \in Slots, NEW p \in {"Idle", "ReadClock", "Reserve"}, NEW c,
         DOMAIN buckets \subseteq DOMAIN buckets',
         pc' = [pc EXCEPT ![s] = p], call' = [call EXCEPT ![s] = c],
         /\ p = "Idle" => c = NoCall
         /\ p = "ReadClock" => c \in Asked'
         /\ p = "Reserve" => c \in Timed'
  PROVE  /\ pc' \in [Slots -> {"Idle", "ReadClock", "Reserve"}]
         /\ DOMAIN call' = Slots
         /\ \A r \in Slots : Held(r)'
<1>1. pc' \in [Slots -> {"Idle", "ReadClock", "Reserve"}] /\ DOMAIN call' = Slots
  BY DEF Types
<1>2. pc'[s] = p /\ call'[s] = c
  BY DEF Types
<1>3. ASSUME NEW r \in Slots, r # s  PROVE Held(r)'
  <2>1. pc'[r] = pc[r] /\ call'[r] = call[r] /\ Held(r)
    BY <1>3 DEF Types
  <2> QED
    BY <2>1 DEF Held, Asked, Timed
<1>4. Held(s)'
  BY <1>2 DEF Held
<1> QED
  BY <1>1, <1>3, <1>4

LEMMA TypesGetVisitor ==
  ASSUME Types, NEW s \in Slots, NEW a \in Agents, GetVisitor(s, a)
  PROVE  Types'
<1> DEFINE known == a \in DOMAIN visitors
           b == IF known THEN visitors[a].bucket ELSE Len(buckets) + 1
<1>1. /\ visitors' = WithEntry(visitors, a, [bucket |-> b, lastSeen |-> now])
      /\ buckets' = IF known THEN buckets ELSE Append(buckets, [tokens |-> Full, last |-> Never])
      /\ call' = [call EXCEPT ![s] = [agent |-> a, bucket |-> b, since |-> now]]
      /\ pc' = [pc EXCEPT ![s] = "ReadClock"]
      /\ UNCHANGED <<now, sweepAt, granted>>
  BY DEF GetVisitor
<1>2. [tokens |-> Full, last |-> Never] \in Bucket
  BY Sizes DEF Bucket, Times
<1>3. /\ buckets' \in Seq(Bucket) /\ DOMAIN buckets \subseteq DOMAIN buckets'
      /\ b \in DOMAIN buckets'
  <2>1. CASE known
    BY <1>1, <2>1 DEF Types
  <2>2. CASE ~known
    <3>1. buckets' = Append(buckets, [tokens |-> Full, last |-> Never]) /\ b = Len(buckets) + 1
      BY <1>1, <2>2
    <3> HIDE DEF b
    <3> QED
      BY <1>2, <3>1 DEF Types
  <2> QED
    BY <2>1, <2>2
<1>4. now \in Moments
  BY DEF Types
<1> HIDE DEF b, known
<1>5. /\ DOMAIN visitors' \subseteq Agents
      /\ visitors' \in [DOMAIN visitors' -> [bucket : DOMAIN buckets', lastSeen : Moments]]
  BY <1>1, <1>3, <1>4 DEF Types, WithEntry
<1>6. [agent |-> a, bucket |-> b, since |-> now] \in Asked'
  BY <1>3, <1>4 DEF Asked
<1>7. /\ pc' \in [Slots -> {"Idle", "ReadClock", "Reserve"}]
      /\ DOMAIN call' = Slots
      /\ \A r \in Slots : Held(r)'
  BY <1>1, <1>3, <1>6, OneSlotMoves
<1> QED
  BY <1>1, <1>3, <1>5, <1>7 DEF Types

LEMMA TypesReadClock ==
  ASSUME Types, NEW s \in Slots, ReadClock(s)
  PROVE  Types'
<1> DEFINE c == [agent |-> call[s].agent, bucket |-> call[s].bucket, since |-> call[s].since,
                 time |-> now]
<1>1. /\ pc[s] = "ReadClock" /\ call' = [call EXCEPT ![s] = c]
      /\ pc' = [pc EXCEPT ![s] = "Reserve"]
      /\ UNCHANGED <<now, visitors, buckets, sweepAt, granted>>
  BY DEF ReadClock
<1>2. call[s] \in Asked /\ now \in Moments
  BY <1>1 DEF Types, Held
<1>3. c \in Timed'
  BY <1>1, <1>2 DEF Asked, Timed
<1> HIDE DEF c
<1>4. /\ pc' \in [Slots -> {"Idle", "ReadClock", "Reserve"}]
      /\ DOMAIN call' = Slots
      /\ \A r \in Slots : Held(r)'
  BY <1>1, <1>3, OneSlotMoves
<1> QED
  BY <1>1, <1>4 DEF Types

\* What a slot that decides holds.
LEMMA Deciding ==
  ASSUME Types, NEW s \in Slots, pc[s] = "Reserve"
  PROVE  /\ call[s].agent \in Agents /\ call[s].bucket \in DOMAIN buckets
         /\ call[s].since \in Moments /\ call[s].time \in Moments
         /\ buckets[call[s].bucket] \in Bucket
         /\ granted[call[s].agent] \in Seq(Moments) /\ Log(granted[call[s].agent])
<1>1. call[s] \in Timed
  BY DEF Types, Held
<1>2. call[s].agent \in Agents /\ call[s].bucket \in DOMAIN buckets
  BY <1>1 DEF Timed
<1> QED
  BY <1>1, <1>2 DEF Types, Timed, Log

LEMMA TypesReserve ==
  ASSUME Types, NEW s \in Slots, Reserve(s)
  PROVE  Types'
<1> DEFINE c == call[s]
           tokens == Advance(buckets[c.bucket], c.time) - Second
<1>1. /\ pc[s] = "Reserve" /\ call' = [call EXCEPT ![s] = NoCall]
      /\ pc' = [pc EXCEPT ![s] = "Idle"] /\ UNCHANGED <<now, visitors, sweepAt>>
  BY DEF Reserve
<1>2. /\ c.agent \in Agents /\ c.bucket \in DOMAIN buckets /\ c.time \in Moments
      /\ buckets[c.bucket] \in Bucket /\ granted[c.agent] \in Seq(Moments)
  BY <1>1, Deciding
<1>3. /\ buckets' \in Seq(Bucket) /\ DOMAIN buckets' = DOMAIN buckets
      /\ granted' \in [Agents -> Seq(Moments)]
  <2>1. CASE tokens >= 0
    <3>1. /\ buckets' = [buckets EXCEPT ![c.bucket] = [tokens |-> tokens, last |-> c.time]]
          /\ granted' = [granted EXCEPT ![c.agent] = Append(@, c.time)]
      BY <2>1 DEF Reserve
    <3>2. tokens \in 0 .. Full
      BY <1>2, <2>1, AdvanceBounds, Sizes
    <3> HIDE DEF tokens
    <3>3. [tokens |-> tokens, last |-> c.time] \in Bucket
      BY <1>2, <3>2 DEF Bucket, Times
    <3>4. Append(granted[c.agent], c.time) \in Seq(Moments)
      BY <1>2
    <3> HIDE DEF c
    <3>5. buckets' \in Seq(Bucket) /\ DOMAIN buckets' = DOMAIN buckets
      BY <1>2, <3>1, <3>3 DEF Types
    <3> QED
      BY <1>2, <3>1, <3>4, <3>5 DEF Types
  <2>2. CASE ~(tokens >= 0)
    <3>1. UNCHANGED <<buckets, granted>>
      BY <2>2 DEF Reserve
    <3> QED
      BY <3>1 DEF Types
  <2> QED
    BY <2>1, <2>2
<1>4. /\ pc' \in [Slots -> {"Idle", "ReadClock", "Reserve"}]
      /\ DOMAIN call' = Slots
      /\ \A r \in Slots : Held(r)'
  BY <1>1, <1>3, OneSlotMoves
<1>5. visitors' \in [DOMAIN visitors' -> [bucket : DOMAIN buckets', lastSeen : Moments]]
  BY <1>1, <1>3 DEF Types
<1> QED
  BY <1>1, <1>3, <1>4, <1>5 DEF Types

LEMMA TypesCleanup ==
  ASSUME Types, CleanupVisitors
  PROVE  Types'
<1>1. /\ visitors' = Restrict(visitors, {a \in DOMAIN visitors : ~Forgotten(visitors[a])})
      /\ sweepAt' = now + SweepEvery /\ UNCHANGED <<now, buckets, pc, call, granted>>
  BY DEF CleanupVisitors
<1>2. /\ DOMAIN visitors' \subseteq Agents
      /\ visitors' \in [DOMAIN visitors' -> [bucket : DOMAIN buckets', lastSeen : Moments]]
  BY <1>1 DEF Types, Restrict
<1>3. sweepAt' \in SweepEvery .. MaxNow + SweepEvery
  BY <1>1, Sizes DEF Types, Moments
<1> QED
  BY <1>1, <1>2, <1>3 DEF Types, Held, Asked, Timed

LEMMA TypesTick ==
  ASSUME Types, Tick
  PROVE  Types'
<1>1. now' \in Moments
  BY Sizes DEF Types, Tick, Moments
<1> QED
  BY <1>1 DEF Types, Tick, Held, Asked, Timed

LEMMA TypesNext == Types /\ [Next]_vars => Types'
<1> SUFFICES ASSUME Types, [Next]_vars  PROVE Types'
  OBVIOUS
<1>1. CASE UNCHANGED vars
  BY <1>1 DEF Types, vars, Held, Asked, Timed
<1> QED
  BY <1>1, TypesGetVisitor, TypesReadClock, TypesReserve, TypesCleanup, TypesTick DEF Next

(***************************************************************************)
(* The clock, the sweep and the requests under way.                        *)
(***************************************************************************)

\* The sweep is not late, and has not missed a visitor.
Clock ==
  /\ now <= sweepAt + MaxStall /\ sweepAt <= now + SweepEvery
  /\ \A a \in DOMAIN visitors :
       visitors[a].lastSeen <= now /\ sweepAt - SweepEvery - visitors[a].lastSeen <= Idle

\* A request under way has the bucket its agent has in the map, where the agent
\* stays until the request is decided.
UnderWay(s) ==
  pc[s] # "Idle" =>
    LET c == call[s]
    IN /\ c.agent \in DOMAIN visitors /\ visitors[c.agent].bucket = c.bucket
       /\ c.since <= visitors[c.agent].lastSeen /\ now <= c.since + MaxStall
       /\ pc[s] = "Reserve" => c.since <= c.time /\ c.time <= now

OwnBuckets ==
  \A a, b \in DOMAIN visitors : visitors[a].bucket = visitors[b].bucket => a = b

LEMMA TypedVisitor ==
  ASSUME Types, NEW a \in DOMAIN visitors
  PROVE  /\ a \in Agents /\ visitors[a].bucket \in DOMAIN buckets
         /\ visitors[a].lastSeen \in Moments /\ visitors[a].lastSeen \in Int
         /\ buckets[visitors[a].bucket] \in Bucket
<1>1. a \in Agents /\ visitors[a] \in [bucket : DOMAIN buckets, lastSeen : Moments]
  BY DEF Types
<1>2. visitors[a].bucket \in DOMAIN buckets /\ visitors[a].lastSeen \in Moments
  BY <1>1
<1> QED
  BY <1>1, <1>2, MomentsAreNaturals DEF Types

LEMMA TypedClock ==
  ASSUME Types
  PROVE  now \in Int /\ 0 <= now /\ now \in Moments /\ sweepAt \in Int
BY Sizes, MomentsAreNaturals DEF Types

LEMMA TypedCall ==
  ASSUME Types, NEW s \in Slots, pc[s] # "Idle"
  PROVE  /\ call[s].agent \in Agents /\ call[s].bucket \in DOMAIN buckets
         /\ call[s].since \in Int /\ 0 <= call[s].since
         /\ pc[s] = "Reserve" => call[s].time \in Int /\ call[s].time \in Moments
<1>1. pc[s] = "ReadClock" \/ pc[s] = "Reserve"
  BY DEF Types
<1>2. CASE pc[s] = "ReadClock"
  <2>1. call[s] \in Asked
    BY <1>2 DEF Types, Held
  <2>2. call[s].agent \in Agents /\ call[s].bucket \in DOMAIN buckets /\ call[s].since \in Moments
    BY <2>1 DEF Asked
  <2> QED
    BY <1>2, <2>2, MomentsAreNaturals
<1>3. CASE pc[s] = "Reserve"
  BY <1>3, Deciding, MomentsAreNaturals
<1> QED
  BY <1>1, <1>2, <1>3

LEMMA ClockInit == Init => Clock /\ OwnBuckets /\ \A s \in Slots : UnderWay(s)
<1> SUFFICES ASSUME Init  PROVE Clock /\ OwnBuckets /\ \A s \in Slots : UnderWay(s)
  OBVIOUS
<1>1. DOMAIN visitors = {}
  BY DEF Init
<1>2. now = 0 /\ sweepAt = SweepEvery /\ \A s \in Slots : pc[s] = "Idle"
  BY DEF Init
<1> QED
  BY <1>1, <1>2, Sizes DEF Clock, OwnBuckets, UnderWay

\* What a request does to the map, when it has found its bucket.
LEMMA Found ==
  ASSUME Types, NEW s \in Slots, NEW a \in Agents, GetVisitor(s, a)
  PROVE  /\ DOMAIN visitors' = DOMAIN visitors \cup {a}
         /\ visitors'[a].lastSeen = now
         /\ visitors'[a].bucket = call'[s].bucket
         /\ a \in DOMAIN visitors => /\ visitors'[a].bucket = visitors[a].bucket
                                     /\ buckets' = buckets
         /\ a \notin DOMAIN visitors =>
              /\ visitors'[a].bucket \notin DOMAIN buckets
              /\ buckets'[visitors'[a].bucket] = [tokens |-> Full, last |-> Never]
         /\ \A i \in DOMAIN buckets : buckets'[i] = buckets[i]
         /\ \A d \in DOMAIN visitors : d # a => visitors'[d] = visitors[d]
         /\ pc'[s] = "ReadClock" /\ call'[s].agent = a /\ call'[s].since = now
         /\ \A r \in Slots : r # s => pc'[r] = pc[r] /\ call'[r] = call[r]
         /\ UNCHANGED <<now, sweepAt, granted>>
<1> DEFINE known == a \in DOMAIN visitors
           b == IF known THEN visitors[a].bucket ELSE Len(buckets) + 1
           v == [bucket |-> b, lastSeen |-> now]
<1>1. /\ visitors' = WithEntry(visitors, a, v)
      /\ buckets' = IF known THEN buckets ELSE Append(buckets, [tokens |-> Full, last |-> Never])
      /\ call' = [call EXCEPT ![s] = [agent |-> a, bucket |-> b, since |-> now]]
      /\ pc' = [pc EXCEPT ![s] = "ReadClock"]
      /\ UNCHANGED <<now, sweepAt, granted>>
  BY DEF GetVisitor
<1>2. v.bucket = b /\ v.lastSeen = now
  OBVIOUS
<1>3. /\ ~known => b \notin DOMAIN buckets
      /\ ~known => buckets'[b] = [tokens |-> Full, last |-> Never]
      /\ \A i \in DOMAIN buckets : buckets'[i] = buckets[i]
  BY <1>1 DEF Types
<1>4. known => b = visitors[a].bucket /\ buckets' = buckets
  BY <1>1
<1> HIDE DEF b, known, v
<1>5. /\ DOMAIN visitors' = DOMAIN visitors \cup {a} /\ visitors'[a] = v
      /\ \A d \in DOMAIN visitors : d # a => visitors'[d] = visitors[d]
  BY <1>1 DEF WithEntry
<1>6. /\ pc'[s] = "ReadClock" /\ call'[s] = [agent |-> a, bucket |-> b, since |-> now]
      /\ \A r \in Slots : r # s => pc'[r] = pc[r] /\ call'[r] = call[r]
  BY <1>1 DEF Types
<1>7. call'[s].agent = a /\ call'[s].bucket = b /\ call'[s].since = now
  BY <1>6
<1> QED
  BY <1>1, <1>2, <1>3, <1>4, <1>5, <1>6, <1>7 DEF known

Safe == Types /\ Clock /\ OwnBuckets /\ \A s \in Slots : UnderWay(s)

LEMMA SafeGetVisitor ==
  ASSUME Safe, NEW s \in Slots, NEW a \in Agents, GetVisitor(s, a)
  PROVE  Safe'
<1>1. Types /\ Types'
  BY TypesGetVisitor DEF Safe
<1>0. /\ DOMAIN visitors' = DOMAIN visitors \cup {a}
      /\ visitors'[a].lastSeen = now /\ visitors'[a].bucket = call'[s].bucket
      /\ a \in DOMAIN visitors => visitors'[a].bucket = visitors[a].bucket
      /\ a \notin DOMAIN visitors => visitors'[a].bucket \notin DOMAIN buckets
      /\ \A d \in DOMAIN visitors : d # a => visitors'[d] = visitors[d]
      /\ pc'[s] = "ReadClock" /\ call'[s].agent = a /\ call'[s].since = now
      /\ \A r \in Slots : r # s => pc'[r] = pc[r] /\ call'[r] = call[r]
      /\ now' = now /\ sweepAt' = sweepAt
  BY <1>1, Found
<1>2. Clock'
  <2>1. ASSUME NEW d \in DOMAIN visitors'
        PROVE  /\ visitors'[d].lastSeen <= now
               /\ sweepAt - SweepEvery - visitors'[d].lastSeen <= Idle
    <3>1. CASE d = a
      BY <1>1, <3>1, <1>0, TypedClock, Sizes DEF Safe, Clock
    <3>2. CASE d # a
      BY <1>1, <3>2, <1>0 DEF Safe, Clock
    <3> QED
      BY <3>1, <3>2
  <2> QED
    BY <1>1, <2>1, <1>0 DEF Safe, Clock
<1>3. OwnBuckets'
  <2> SUFFICES ASSUME NEW d \in DOMAIN visitors', NEW e \in DOMAIN visitors',
                      visitors'[d].bucket = visitors'[e].bucket, d # e
               PROVE  FALSE
    BY DEF OwnBuckets
  <2>1. \A x \in DOMAIN visitors : visitors'[x].bucket = visitors[x].bucket
    BY <1>1, <1>0
  <2>2. CASE d \in DOMAIN visitors /\ e \in DOMAIN visitors
    BY <2>1, <2>2 DEF Safe, OwnBuckets
  <2>3. \A x \in DOMAIN visitors : visitors'[x].bucket \in DOMAIN buckets
    BY <1>1, <2>1, TypedVisitor
  <2> QED
    BY <1>0, <2>2, <2>3
<1>4. ASSUME NEW r \in Slots  PROVE UnderWay(r)'
  <2>1. CASE r = s
    BY <1>1, <2>1, <1>0, TypedClock, Sizes DEF UnderWay
  <2>2. CASE r # s
    <3> SUFFICES ASSUME pc[r] # "Idle"  PROVE UnderWay(r)'
      BY <1>1, <2>2, <1>0 DEF UnderWay
    <3>1. /\ call[r].agent \in DOMAIN visitors
          /\ visitors[call[r].agent].bucket = call[r].bucket
          /\ call[r].since <= visitors[call[r].agent].lastSeen
          /\ now <= call[r].since + MaxStall
          /\ pc[r] = "Reserve" => call[r].since <= call[r].time /\ call[r].time <= now
      BY DEF Safe, UnderWay
    <3>2. call[r].since <= now
      BY <1>1, <3>1, TypedVisitor, TypedCall, TypedClock DEF Safe, Clock
    <3>3. /\ call[r].agent \in DOMAIN visitors'
          /\ visitors'[call[r].agent].bucket = call[r].bucket
          /\ call[r].since <= visitors'[call[r].agent].lastSeen
      BY <1>1, <3>1, <3>2, <1>0
    <3>4. pc'[r] = pc[r] /\ call'[r] = call[r] /\ now' = now
      BY <1>1, <2>2, <1>0
    <3> QED
      BY <3>1, <3>3, <3>4 DEF UnderWay
  <2> QED
    BY <2>1, <2>2
<1> QED
  BY <1>1, <1>2, <1>3, <1>4 DEF Safe

LEMMA SafeReadClock ==
  ASSUME Safe, NEW s \in Slots, ReadClock(s)
  PROVE  Safe'
<1> DEFINE c == [agent |-> call[s].agent, bucket |-> call[s].bucket, since |-> call[s].since,
                 time |-> now]
<1>1. Types /\ Types'
  BY TypesReadClock DEF Safe
<1>2. /\ pc[s] = "ReadClock" /\ pc' = [pc EXCEPT ![s] = "Reserve"]
      /\ call' = [call EXCEPT ![s] = c]
      /\ UNCHANGED <<now, visitors, buckets, sweepAt, granted>>
  BY DEF ReadClock
<1>3. /\ pc'[s] = "Reserve" /\ call'[s] = c
      /\ \A r \in Slots : r # s => pc'[r] = pc[r] /\ call'[r] = call[r]
  BY <1>1, <1>2 DEF Types
<1>4. c.agent = call[s].agent /\ c.bucket = call[s].bucket /\ c.since = call[s].since /\ c.time = now
  OBVIOUS
<1> HIDE DEF c
<1>5. Clock' /\ OwnBuckets'
  BY <1>2 DEF Safe, Clock, OwnBuckets
<1>6. UnderWay(s)'
  <2>1. /\ call[s].agent \in DOMAIN visitors
        /\ visitors[call[s].agent].bucket = call[s].bucket
        /\ call[s].since <= visitors[call[s].agent].lastSeen
        /\ now <= call[s].since + MaxStall
    BY <1>2 DEF Safe, UnderWay
  <2>2. call[s].since <= now
    BY <1>1, <1>2, <2>1, TypedVisitor, TypedCall, TypedClock DEF Safe, Clock
  <2> QED
    BY <1>1, <1>2, <1>3, <1>4, <2>1, <2>2, TypedClock DEF UnderWay
<1>7. ASSUME NEW r \in Slots, r # s  PROVE UnderWay(r)'
  BY <1>2, <1>3, <1>7 DEF Safe, UnderWay
<1> QED
  BY <1>1, <1>5, <1>6, <1>7 DEF Safe

LEMMA SafeReserve ==
  ASSUME Safe, NEW s \in Slots, Reserve(s)
  PROVE  Safe'
<1>1. Types /\ Types'
  BY TypesReserve DEF Safe
<1>2. /\ pc' = [pc EXCEPT ![s] = "Idle"] /\ call' = [call EXCEPT ![s] = NoCall]
      /\ UNCHANGED <<now, visitors, sweepAt>>
  BY DEF Reserve
<1>3. Clock' /\ OwnBuckets'
  BY <1>2 DEF Safe, Clock, OwnBuckets
<1>4. ASSUME NEW r \in Slots  PROVE UnderWay(r)'
  <2>1. CASE r = s
    BY <1>1, <1>2, <2>1 DEF UnderWay, Types
  <2>2. CASE r # s
    <3>1. pc'[r] = pc[r] /\ call'[r] = call[r]
      BY <1>1, <1>2, <2>2 DEF Types
    <3> QED
      BY <1>2, <3>1 DEF Safe, UnderWay
  <2> QED
    BY <2>1, <2>2
<1> QED
  BY <1>1, <1>3, <1>4 DEF Safe

\* The sweep forgets no agent with a request under way.
LEMMA SafeCleanup ==
  ASSUME Safe, CleanupVisitors
  PROVE  Safe'
<1>1. Types /\ Types'
  BY TypesCleanup DEF Safe
<1>2. /\ visitors' = Restrict(visitors, {a \in DOMAIN visitors : ~Forgotten(visitors[a])})
      /\ sweepAt' = now + SweepEvery /\ UNCHANGED <<now, buckets, pc, call, granted>>
  BY DEF CleanupVisitors
<1>3. /\ DOMAIN visitors' = {a \in DOMAIN visitors : ~(now - visitors[a].lastSeen > Idle)}
      /\ \A a \in DOMAIN visitors' : visitors'[a] = visitors[a]
  BY <1>2 DEF Restrict, Forgotten
<1>4. Clock'
  <2>1. ASSUME NEW a \in DOMAIN visitors'
        PROVE  visitors[a].lastSeen <= now /\ now - visitors[a].lastSeen <= Idle
    BY <1>1, <1>3, TypedVisitor, TypedClock, Sizes DEF Safe, Clock
  <2> QED
    BY <1>1, <1>2, <1>3, <2>1, TypedClock, Sizes DEF Clock
<1>5. OwnBuckets'
  BY <1>3 DEF Safe, OwnBuckets
<1>6. ASSUME NEW r \in Slots  PROVE UnderWay(r)'
  <2> SUFFICES ASSUME pc[r] # "Idle"  PROVE UnderWay(r)'
    BY <1>2 DEF UnderWay
  <2>1. /\ call[r].agent \in DOMAIN visitors
        /\ call[r].since <= visitors[call[r].agent].lastSeen
        /\ now <= call[r].since + MaxStall
    BY DEF Safe, UnderWay
  <2>2. ~(now - visitors[call[r].agent].lastSeen > Idle)
    BY <1>1, <2>1, TypedVisitor, TypedCall, TypedClock, Sizes
  <2>3. call[r].agent \in DOMAIN visitors'
    BY <1>3, <2>1, <2>2
  <2> QED
    BY <1>2, <1>3, <2>3 DEF Safe, UnderWay
<1> QED
  BY <1>1, <1>4, <1>5, <1>6 DEF Safe

LEMMA SafeTick ==
  ASSUME Safe, Tick
  PROVE  Safe'
<1>1. Types /\ Types'
  BY TypesTick DEF Safe
<1>2. /\ now < sweepAt + MaxStall /\ now' = now + 1
      /\ \A s \in Slots : pc[s] # "Idle" => now < call[s].since + MaxStall
      /\ UNCHANGED <<visitors, buckets, sweepAt, pc, call, granted>>
  BY DEF Tick
<1>3. Clock'
  BY <1>1, <1>2, TypedClock, TypedVisitor, Sizes DEF Safe, Clock
<1>4. OwnBuckets'
  BY <1>2 DEF Safe, OwnBuckets
<1>5. ASSUME NEW r \in Slots  PROVE UnderWay(r)'
  BY <1>1, <1>2, TypedClock, TypedCall, Sizes DEF Safe, UnderWay
<1> QED
  BY <1>1, <1>3, <1>4, <1>5 DEF Safe

LEMMA SafeNext == Safe /\ [Next]_vars => Safe'
<1> SUFFICES ASSUME Safe, [Next]_vars  PROVE Safe'
  OBVIOUS
<1>1. CASE UNCHANGED vars
  <2>1. Types'
    BY TypesNext DEF Safe
  <2> QED
    BY <1>1, <2>1 DEF Safe, Clock, OwnBuckets, UnderWay, vars
<1> QED
  BY <1>1, SafeGetVisitor, SafeReadClock, SafeReserve, SafeCleanup, SafeTick DEF Next

(***************************************************************************)
(* What the buckets know of the grants.                                    *)
(***************************************************************************)

\* The last of these grants is no later than a request seen at t may be.
Recent(q, t) == q # << >> => q[Len(q)] <= t + MaxStall

\* An agent with a used bucket: the bucket tells its grants.  An agent with a
\* new bucket, or with none: its grants are so long ago that a full bucket is
\* what they would have left, whichever request under way is decided first.
Owes(a) ==
  LET q == granted[a]
  IN IF a \in DOMAIN visitors
     THEN LET b == buckets[visitors[a].bucket]
          IN /\ Recent(q, visitors[a].lastSeen)
             /\ b.last # Never => Kept(q, b)
             /\ b.last = Never =>
                  /\ b.tokens = Full /\ Spaced(q) /\ Filled(q, now)
                  /\ \A s \in Slots :
                       pc[s] # "Idle" /\ call[s].agent = a => Filled(q, call[s].since)
     ELSE Spaced(q) /\ Filled(q, now)

LEMMA LastGrant ==
  ASSUME NEW q, Log(q)
  PROVE  /\ q # << >> => q[Len(q)] \in Int
         /\ \A t \in Int, u \in Int : t <= u /\ Filled(q, t) => Filled(q, u)
         /\ \A t \in Int, u \in Int : t <= u /\ Recent(q, t) => Recent(q, u)
         /\ \A t \in Int : Filled(q, t) => Recent(q, t)
         /\ \A t \in Int, u \in Int : t + MaxStall + Full <= u /\ Recent(q, t) => Filled(q, u)
<1>1. ASSUME q # << >>  PROVE q[Len(q)] \in Int
  <2>1. Len(q) \in 1 .. Len(q)
    BY <1>1 DEF Log
  <2> QED
    BY <2>1, MomentsAreNaturals
<1> QED
  BY <1>1, Sizes DEF Filled, Recent

LEMMA NoGrants == Log(<< >>) /\ Spaced(<< >>) /\ \A t : Filled(<< >>, t)
BY DEF Log, Spaced, Filled

LEMMA OwesInit == Init => \A a \in Agents : Owes(a)
<1> SUFFICES ASSUME Init, NEW a \in Agents  PROVE Owes(a)
  OBVIOUS
<1>1. granted[a] = << >> /\ a \notin DOMAIN visitors
  BY DEF Init
<1> QED
  BY <1>1, NoGrants DEF Owes

LEMMA GrantsLogged ==
  ASSUME Types, NEW a \in Agents
  PROVE  Log(granted[a])
BY DEF Types, Log

Inv == Safe /\ \A a \in Agents : Owes(a)

LEMMA OwesGetVisitor ==
  ASSUME Inv, NEW s \in Slots, NEW a \in Agents, GetVisitor(s, a), NEW d \in Agents
  PROVE  Owes(d)'
<1>1. Types /\ Safe /\ Owes(d)
  BY DEF Inv, Safe
<1>2. /\ DOMAIN visitors' = DOMAIN visitors \cup {a}
      /\ visitors'[a].lastSeen = now
      /\ a \in DOMAIN visitors => visitors'[a].bucket = visitors[a].bucket /\ buckets' = buckets
      /\ a \notin DOMAIN visitors =>
           buckets'[visitors'[a].bucket] = [tokens |-> Full, last |-> Never]
      /\ \A i \in DOMAIN buckets : buckets'[i] = buckets[i]
      /\ \A e \in DOMAIN visitors : e # a => visitors'[e] = visitors[e]
      /\ pc'[s] = "ReadClock" /\ call'[s].agent = a /\ call'[s].since = now
      /\ \A r \in Slots : r # s => pc'[r] = pc[r] /\ call'[r] = call[r]
      /\ now' = now /\ granted' = granted
  BY <1>1, Found
<1> DEFINE q == granted[d]
<1>3. Log(q) /\ now \in Int
  BY <1>1, GrantsLogged, TypedClock
<1>4. CASE d # a
  <2>1. CASE d \in DOMAIN visitors
    <3>1. visitors'[d] = visitors[d] /\ d \in DOMAIN visitors'
      BY <1>2, <1>4, <2>1
    <3>2. buckets'[visitors[d].bucket] = buckets[visitors[d].bucket]
      BY <1>1, <1>2, <2>1, TypedVisitor
    <3>3. \A r \in Slots : pc'[r] # "Idle" /\ call'[r].agent = d =>
            pc[r] # "Idle" /\ call[r].agent = d /\ call'[r] = call[r]
      BY <1>2, <1>4
    <3> QED
      BY <1>1, <1>2, <2>1, <3>1, <3>2, <3>3 DEF Owes
  <2>2. CASE d \notin DOMAIN visitors
    BY <1>1, <1>2, <1>4, <2>2 DEF Owes
  <2> QED
    BY <2>1, <2>2
<1>5. CASE d = a /\ a \in DOMAIN visitors
  <2> DEFINE b == buckets[visitors[a].bucket]
  <2>1. /\ Recent(q, visitors[a].lastSeen)
        /\ b.last # Never => Kept(q, b)
        /\ b.last = Never =>
             /\ b.tokens = Full /\ Spaced(q) /\ Filled(q, now)
             /\ \A r \in Slots : pc[r] # "Idle" /\ call[r].agent = a => Filled(q, call[r].since)
    BY <1>1, <1>5 DEF Owes
  <2>2. Recent(q, now)
    <3>1. visitors[a].lastSeen \in Int /\ visitors[a].lastSeen <= now
      BY <1>1, <1>5, TypedVisitor DEF Safe, Clock
    <3> HIDE DEF q
    <3> QED
      BY <1>3, <2>1, <3>1, LastGrant
  <2>3. buckets'[visitors'[a].bucket] = b /\ a \in DOMAIN visitors'
    BY <1>2, <1>5
  <2>4. b.last = Never =>
          \A r \in Slots : pc'[r] # "Idle" /\ call'[r].agent = a => Filled(q, call'[r].since)
    BY <1>2, <2>1
  <2> QED
    BY <1>2, <1>5, <2>1, <2>2, <2>3, <2>4 DEF Owes
<1>6. CASE d = a /\ a \notin DOMAIN visitors
  <2>1. Spaced(q) /\ Filled(q, now)
    BY <1>1, <1>6 DEF Owes
  <2>2. Recent(q, now)
    BY <1>3, <2>1, LastGrant
  <2>3. \A r \in Slots : pc'[r] # "Idle" /\ call'[r].agent = a => r = s
    BY <1>1, <1>2, <1>6 DEF Safe, UnderWay
  <2>4. buckets'[visitors'[a].bucket].last = Never /\ buckets'[visitors'[a].bucket].tokens = Full
    BY <1>2, <1>6
  <2> QED
    BY <1>2, <1>6, <2>1, <2>2, <2>3, <2>4 DEF Owes
<1> QED
  BY <1>4, <1>5, <1>6

LEMMA OwesReadClock ==
  ASSUME Inv, NEW s \in Slots, ReadClock(s), NEW d \in Agents
  PROVE  Owes(d)'
<1> DEFINE c == [agent |-> call[s].agent, bucket |-> call[s].bucket, since |-> call[s].since,
                 time |-> now]
<1>1. Types /\ Owes(d)
  BY DEF Inv, Safe
<1>2. /\ pc[s] = "ReadClock" /\ pc' = [pc EXCEPT ![s] = "Reserve"]
      /\ call' = [call EXCEPT ![s] = c]
      /\ UNCHANGED <<now, visitors, buckets, sweepAt, granted>>
  BY DEF ReadClock
<1>3. c.agent = call[s].agent /\ c.since = call[s].since
  OBVIOUS
<1> HIDE DEF c
<1>4. \A r \in Slots : /\ pc'[r] # "Idle" => pc[r] # "Idle"
                       /\ call'[r].agent = call[r].agent /\ call'[r].since = call[r].since
  BY <1>1, <1>2, <1>3 DEF Types
<1> QED
  BY <1>1, <1>2, <1>4 DEF Owes

\* A grant: it keeps the promise, and the bucket tells it.
LEMMA Granting ==
  ASSUME Inv, NEW s \in Slots, pc[s] = "Reserve",
         Advance(buckets[call[s].bucket], call[s].time) - Second >= 0
  PROVE  LET c == call[s]
             q == granted[c.agent]
             left == Advance(buckets[c.bucket], c.time) - Second
         IN /\ Kept(Append(q, c.time), [tokens |-> left, last |-> c.time])
            /\ Promise!Ordered(Append(q, c.time)) => Promise!Fits(q, c.time)
<1> DEFINE c == call[s]
           q == granted[c.agent]
           b == buckets[c.bucket]
           left == Advance(b, c.time) - Second
           t == c.time
<1> SUFFICES /\ Kept(Append(q, t), [tokens |-> left, last |-> t])
             /\ Promise!Ordered(Append(q, t)) => Promise!Fits(q, t)
  OBVIOUS
<1>1. Types /\ Safe /\ c.agent \in Agents /\ t \in Moments /\ b \in Bucket /\ Log(q)
  BY Deciding DEF Inv, Safe
<1>2. Owes(c.agent) /\ c.agent \in DOMAIN visitors /\ visitors[c.agent].bucket = c.bucket
  BY <1>1 DEF Inv, Safe, UnderWay
<1>3. left \in Nat /\ left = Advance(b, t) - Second
  BY <1>1, AdvanceBounds, Sizes
<1>4. CASE b.last # Never
  <2>1. Kept(q, b)
    BY <1>2, <1>4 DEF Owes
  <2> HIDE DEF q, b, left, t
  <2> QED
    BY <1>1, <1>3, <2>1, GrantUsed
<1>5. CASE b.last = Never
  <2>1. b.tokens = Full /\ Spaced(q) /\ Filled(q, c.since)
    BY <1>2, <1>5 DEF Owes
  <2>2. c.since \in Int /\ t \in Int /\ c.since <= t
    BY <1>1, TypedCall, MomentsAreNaturals DEF Safe, UnderWay
  <2>3. Filled(q, t)
    <3> HIDE DEF q, c, t
    <3> QED
      BY <1>1, <2>1, <2>2, LastGrant
  <2> HIDE DEF q, b, left, t
  <2> QED
    BY <1>1, <1>3, <1>5, <2>1, <2>3, GrantFresh
<1> QED
  BY <1>4, <1>5

LEMMA OwesReserve ==
  ASSUME Inv, NEW s \in Slots, Reserve(s), NEW d \in Agents
  PROVE  Owes(d)'
<1> DEFINE c == call[s]
           q == granted[c.agent]
           left == Advance(buckets[c.bucket], c.time) - Second
<1>1. Types /\ Safe /\ Owes(d)
  BY DEF Inv, Safe
<1>2. /\ pc[s] = "Reserve" /\ pc' = [pc EXCEPT ![s] = "Idle"]
      /\ call' = [call EXCEPT ![s] = NoCall] /\ UNCHANGED <<now, visitors, sweepAt>>
  BY DEF Reserve
<1>3. \A r \in Slots : pc'[r] # "Idle" => pc[r] # "Idle" /\ call'[r] = call[r]
  BY <1>1, <1>2 DEF Types
<1>4. CASE ~(left >= 0)
  <2>1. buckets' = buckets /\ granted' = granted
    BY <1>4 DEF Reserve
  <2> QED
    BY <1>1, <1>2, <1>3, <2>1 DEF Owes
<1>5. CASE left >= 0
  <2>1. /\ buckets' = [buckets EXCEPT ![c.bucket] = [tokens |-> left, last |-> c.time]]
        /\ granted' = [granted EXCEPT ![c.agent] = Append(@, c.time)]
    BY <1>5 DEF Reserve
  <2>2. /\ c.agent \in DOMAIN visitors /\ visitors[c.agent].bucket = c.bucket
        /\ c.since <= visitors[c.agent].lastSeen /\ now <= c.since + MaxStall /\ c.time <= now
    BY <1>1, <1>2 DEF Safe, UnderWay
  <2>3. c.agent \in Agents /\ c.bucket \in DOMAIN buckets /\ c.time \in Moments /\ Log(q)
    BY <1>1, <1>2, Deciding
  <2>4. CASE d # c.agent
    <3>1. granted'[d] = granted[d]
      BY <1>1, <2>1, <2>4 DEF Types
    <3>2. ASSUME d \in DOMAIN visitors
          PROVE  buckets'[visitors[d].bucket] = buckets[visitors[d].bucket]
      <4>1. visitors[d].bucket # c.bucket
        BY <1>1, <2>2, <2>4, <3>2 DEF Safe, OwnBuckets
      <4> QED
        BY <1>1, <2>1, <3>2, <4>1, TypedVisitor DEF Types
    <3> QED
      BY <1>1, <1>2, <1>3, <3>1, <3>2 DEF Owes
  <2>5. CASE d = c.agent
    <3>1. /\ granted'[d] = Append(q, c.time)
          /\ buckets'[visitors[d].bucket] = [tokens |-> left, last |-> c.time]
      BY <1>1, <2>1, <2>2, <2>3, <2>5 DEF Types
    <3>2. Kept(Append(q, c.time), [tokens |-> left, last |-> c.time])
      BY <1>2, <1>5, Granting
    <3>3. c.time # Never
      BY <2>3, Sizes, MomentsAreNaturals
    <3>4. Recent(Append(q, c.time), visitors[d].lastSeen)
      <4>1. Len(Append(q, c.time)) = Len(q) + 1 /\ Append(q, c.time)[Len(q) + 1] = c.time
        BY <2>3 DEF Log
      <4>2. c.time <= visitors[d].lastSeen + MaxStall
        BY <1>1, <1>2, <2>2, <2>5, TypedVisitor, TypedCall, TypedClock, Sizes
      <4> QED
        BY <4>1, <4>2 DEF Recent
    <3>5. d \in DOMAIN visitors' /\ visitors' = visitors
      BY <1>2, <2>2, <2>5
    <3> HIDE DEF q, left, c
    <3> QED
      BY <3>1, <3>2, <3>3, <3>4, <3>5 DEF Owes
  <2> QED
    BY <2>4, <2>5
<1> QED
  BY <1>4, <1>5

\* An agent is forgotten when its bucket would be full again.
LEMMA OwesCleanup ==
  ASSUME Inv, CleanupVisitors, NEW d \in Agents
  PROVE  Owes(d)'
<1> DEFINE q == granted[d]
<1>1. Types /\ Safe /\ Owes(d) /\ Log(q) /\ now \in Int
  BY GrantsLogged, TypedClock DEF Inv, Safe
<1>2. /\ visitors' = Restrict(visitors, {a \in DOMAIN visitors : ~Forgotten(visitors[a])})
      /\ UNCHANGED <<now, buckets, pc, call, granted>>
  BY DEF CleanupVisitors
<1>3. /\ DOMAIN visitors' = {a \in DOMAIN visitors : ~(now - visitors[a].lastSeen > Idle)}
      /\ \A a \in DOMAIN visitors' : visitors'[a] = visitors[a]
  BY <1>2 DEF Restrict, Forgotten
<1>4. CASE d \in DOMAIN visitors'
  BY <1>1, <1>2, <1>3, <1>4 DEF Owes
<1>5. CASE d \notin DOMAIN visitors
  BY <1>1, <1>2, <1>3, <1>5 DEF Owes
<1>6. CASE d \in DOMAIN visitors /\ d \notin DOMAIN visitors'
  <2>1. now - visitors[d].lastSeen > Idle /\ visitors[d].lastSeen \in Int
    BY <1>1, <1>3, <1>6, TypedVisitor
  <2>2. Recent(q, visitors[d].lastSeen)
    BY <1>1, <1>6 DEF Owes
  <2>3. Filled(q, now)
    <3>1. visitors[d].lastSeen + MaxStall + Full <= now
      BY <1>1, <2>1, Sizes
    <3> HIDE DEF q
    <3> QED
      BY <1>1, <2>1, <2>2, <3>1, LastGrant
  <2>4. Spaced(q)
    <3> DEFINE b == buckets[visitors[d].bucket]
    <3>1. b \in Bucket
      BY <1>1, <1>6, TypedVisitor
    <3>2. Kept(q, b) \/ Spaced(q)
      BY <1>1, <1>6 DEF Owes
    <3> QED
      BY <1>1, <3>1, <3>2, KeptIsSpaced
  <2> QED
    BY <1>2, <1>6, <2>3, <2>4 DEF Owes
<1> QED
  BY <1>4, <1>5, <1>6

LEMMA OwesTick ==
  ASSUME Inv, Tick, NEW d \in Agents
  PROVE  Owes(d)'
<1>1. Types /\ Owes(d) /\ Log(granted[d]) /\ now \in Int
  BY GrantsLogged, TypedClock DEF Inv, Safe
<1>2. now' = now + 1 /\ UNCHANGED <<visitors, buckets, sweepAt, pc, call, granted>>
  BY DEF Tick
<1>3. Filled(granted[d], now) => Filled(granted[d], now')
  BY <1>1, <1>2, LastGrant
<1> QED
  BY <1>1, <1>2, <1>3 DEF Owes

LEMMA InvNext == Inv /\ [Next]_vars => Inv'
<1> SUFFICES ASSUME Inv, [Next]_vars  PROVE Inv'
  OBVIOUS
<1>1. Safe'
  BY SafeNext DEF Inv
<1>2. ASSUME NEW d \in Agents  PROVE Owes(d)'
  <2>1. CASE UNCHANGED vars
    BY <2>1 DEF Inv, Owes, vars
  <2> QED
    BY <2>1, OwesGetVisitor, OwesReadClock, OwesReserve, OwesCleanup, OwesTick DEF Next
<1> QED
  BY <1>1, <1>2 DEF Inv

(***************************************************************************)
(* The theorems.                                                           *)
(***************************************************************************)

\* In every reachable state a bucket tells the grants of its agent, and a
\* forgotten agent has none that a full bucket would not allow
\* (ratelimit.go:82-112).
THEOREM Invariant == Spec => []Inv
<1>1. Init => Inv
  BY TypesInit, ClockInit, OwesInit DEF Inv, Safe
<1>2. Inv /\ [Next]_vars => Inv'
  BY InvNext
<1> QED
  BY <1>1, <1>2, PTL DEF Spec

\* Every variable has its type (ratelimit.go:50-112, rate.go:337-381).
THEOREM TypeCorrect == Spec => []TypeOK
<1>1. Inv => TypeOK
  BY TypesAreTypeOK DEF Inv, Safe
<1> QED
  BY <1>1, Invariant, PTL

\* No agent stays in the map for longer than three minutes and one round of the
\* sweep (ratelimit.go:99-112).
THEOREM Forgets == Spec => []VisitorsForgotten
<1>1. Inv => VisitorsForgotten
  <2> SUFFICES ASSUME Inv, NEW a \in DOMAIN visitors
               PROVE  now - visitors[a].lastSeen <= Idle + SweepEvery + MaxStall
    BY DEF VisitorsForgotten
  <2> QED
    BY TypedVisitor, TypedClock, Sizes DEF Inv, Safe, Clock
<1> QED
  BY <1>1, Invariant, PTL

\* The limiter keeps its promise to every agent, however its requests
\* interleave and whenever it is forgotten (ratelimit.go:46-47, 82-112).
THEOREM Implements == Spec => KeepsPromise
<1>1. Init => Promise!Init
  BY DEF Init, Promise!Init
<1>2. Inv /\ [Next]_vars => [Promise!Next]_granted
  <2> SUFFICES ASSUME Inv, [Next]_vars, granted' # granted  PROVE Promise!Next
    OBVIOUS
  <2>1. PICK s \in Slots : Reserve(s)
    BY DEF Next, vars, GetVisitor, ReadClock, CleanupVisitors, Tick
  <2> DEFINE c == call[s]
             left == Advance(buckets[c.bucket], c.time) - Second
  <2>2. pc[s] = "Reserve" /\ left >= 0 /\ granted' = [granted EXCEPT ![c.agent] = Append(@, c.time)]
    BY <2>1 DEF Reserve
  <2>3. c.agent \in Agents /\ c.time \in Moments
    BY <2>2, Deciding DEF Inv, Safe
  <2>4. Promise!Ordered(Append(granted[c.agent], c.time)) =>
          Promise!Fits(granted[c.agent], c.time)
    BY <2>2, Granting
  <2>5. Promise!Grant(c.agent, c.time)
    BY <2>2, <2>4 DEF Promise!Grant
  <2> QED
    BY <2>3, <2>5 DEF Promise!Next
<1> QED
  BY <1>1, <1>2, Invariant, PTL DEF Spec, KeepsPromise, Promise!Spec

\* What rate.NewLimiter(1, RateLimit) allows is granted: while the grants of an
\* agent are in order, it is refused only what would be past Burst and one a
\* second (ratelimit.go:88, rate.go:337-381).
THEOREM RefusesNoLess == Spec => RefusesOnlyPastPromise
<1> DEFINE Due(s) == RefusesInOrder(s) => ~Promise!Fits(granted[call[s].agent], call[s].time)
<1>1. Inv /\ [Next]_vars => [\A s \in Slots : Due(s)]_vars
  <2> SUFFICES ASSUME Inv, Next, NEW s \in Slots, pc[s] = "Reserve", pc'[s] = "Idle",
                      granted' = granted,
                      Promise!Ordered(Append(granted[call[s].agent], call[s].time))
               PROVE  ~Promise!Fits(granted[call[s].agent], call[s].time)
    BY DEF RefusesInOrder
  <2> DEFINE c == call[s]
             q == granted[c.agent]
             b == buckets[c.bucket]
  <2>1. Types /\ Safe /\ c.agent \in Agents /\ c.time \in Moments /\ b \in Bucket /\ Log(q)
    BY Deciding DEF Inv, Safe
  <2>2. Reserve(s)
    <3>1. \A r \in Slots : GetVisitor(r, c.agent) \/ ReadClock(r) \/ Reserve(r) => r = s \/ pc'[s] = pc[s]
      BY <2>1 DEF Types, GetVisitor, ReadClock, Reserve
    <3>2. \A r \in Slots, a \in Agents : GetVisitor(r, a) => pc'[s] # "Idle"
      BY <2>1 DEF Types, GetVisitor
    <3>3. \A r \in Slots : ReadClock(r) => pc'[s] # "Idle"
      BY <2>1 DEF Types, ReadClock
    <3>4. ~CleanupVisitors /\ ~Tick
      BY DEF CleanupVisitors, Tick
    <3>5. \A r \in Slots : Reserve(r) => r = s
      BY <2>1, <3>1
    <3> QED
      BY <3>2, <3>3, <3>4, <3>5 DEF Next
  <2>3. ~(Advance(b, c.time) - Second >= 0)
    <3> SUFFICES ASSUME Advance(b, c.time) - Second >= 0  PROVE FALSE
      OBVIOUS
    <3>1. granted' = [granted EXCEPT ![c.agent] = Append(@, c.time)]
      BY <2>2 DEF Reserve
    <3>2. granted'[c.agent] = Append(q, c.time)
      BY <2>1, <3>1 DEF Types
    <3>3. Len(Append(q, c.time)) = Len(q) + 1 /\ Len(q) \in Nat
      BY <2>1 DEF Log
    <3> QED
      BY <3>2, <3>3
  <2>4. Owes(c.agent) /\ c.agent \in DOMAIN visitors /\ visitors[c.agent].bucket = c.bucket
    BY <2>1 DEF Inv, Safe, UnderWay
  <2>5. b.last # Never
    <3> SUFFICES ASSUME b.last = Never  PROVE FALSE
      OBVIOUS
    <3>1. b.tokens = Full
      BY <2>4 DEF Owes
    <3>2. c.time \in Int /\ 0 <= c.time
      BY <2>1, MomentsAreNaturals
    <3> HIDE DEF b, c
    <3>3. Advance(b, c.time) = Full
      BY <3>1, <3>2, Sizes DEF Advance
    <3> QED
      BY <2>3, <3>3, Sizes
  <2>6. Kept(q, b)
    BY <2>4, <2>5 DEF Owes
  <2>7. Advance(b, c.time) < Second
    BY <2>1, <2>3, AdvanceBounds, Sizes
  <2> HIDE DEF q, b
  <2> QED
    BY <2>1, <2>6, <2>7, RefuseUsed DEF q
<1> QED
  BY <1>1, Invariant, PTL DEF Spec, RefusesOnlyPastPromise
=============================================================================

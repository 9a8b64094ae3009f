----------------------------- MODULE RateLimit ------------------------------
(***************************************************************************)
(* The rate limiter of internal/interceptors/ratelimit.go over the token   *)
(* bucket of vendor/golang.org/x/time/rate/rate.go: one bucket per user    *)
(* agent, and a goroutine that forgets the agents it has not seen lately.  *)
(*                                                                         *)
(* Time is a count of ticks, Second of them to a second.  Tokens are       *)
(* counted in ticks too: a request costs Second, a tick brings 1, a bucket *)
(* holds Burst * Second.  A request takes three steps: it finds its bucket *)
(* under the mutex of the map, reads the clock, and decides under the      *)
(* mutex of the bucket.  Other requests and time may pass in between.      *)
(***************************************************************************)
EXTENDS Integers, Sequences, Functions

CONSTANTS
  Agents,      \* the values of User-Agent
  Slots,       \* the goroutines serving requests
  Burst,       \* RateLimit, 3 in the code
  Second,      \* ticks to a second
  Idle,        \* 3 minutes, in ticks
  SweepEvery,  \* 1 minute, in ticks
  MaxStall,    \* how long the scheduler may hold a goroutine up, in ticks
  MaxNow       \* bound: the last tick

\* Three minutes are more than it takes to fill a bucket, even for a goroutine
\* that is held up.
ASSUME RateLimitConstants ==
  /\ {Burst, Second, SweepEvery} \subseteq Nat \ {0}
  /\ {Idle, MaxStall, MaxNow} \subseteq Nat
  /\ Idle >= Burst * Second + MaxStall

VARIABLES
  now,       \* the clock
  visitors,  \* the map: agent -> its bucket and when it was last seen
  buckets,   \* the buckets made so far; a visitor points to one
  sweepAt,   \* when cleanupVisitors wakes up
  pc,        \* what each slot does next
  call,      \* agent, bucket and clock reading of each slot
  granted    \* history: per agent, the clock readings of the requests granted

vars == <<now, visitors, buckets, sweepAt, pc, call, granted>>

Moments == 0 .. MaxNow
Full == Burst * Second
NoCall == [agent |-> "None"]

\* The zero time.Time of a bucket that was never used.
Never == -(Full + 1)

-----------------------------------------------------------------------------
WithEntry(f, x, v) == [y \in DOMAIN f \cup {x} |-> IF y = x THEN v ELSE f[y]]

\* Fault: what flows over the rim is kept.
AdvanceUncapped(b, t) == b.tokens + (IF t < b.last THEN 0 ELSE t - b.last)

\* Fault: only whole seconds bring tokens.
AdvanceWholeSeconds(b, t) ==
  LET tokens == b.tokens + (IF t < b.last THEN 0 ELSE ((t - b.last) \div Second) * Second)
  IN IF tokens > Full THEN Full ELSE tokens

\* Limiter.advance: the tokens of bucket b at t; a t before its last one brings
\* none.
Advance(b, t) ==
  LET tokens == b.tokens + (IF t < b.last THEN 0 ELSE t - b.last)
  IN IF tokens > Full THEN Full ELSE tokens

\* Fault: a visitor is forgotten as soon as it is not seen.
ForgottenAtOnce(v) == now > v.lastSeen

\* Fault: a visitor is never forgotten.
NeverForgotten(v) == FALSE

\* time.Since(v.lastSeen) > 3*time.Minute
Forgotten(v) == now - v.lastSeen > Idle

-----------------------------------------------------------------------------
\* getVisitor: the bucket of the agent, or a new one.
GetVisitor(s, a) ==
  /\ pc[s] = "Idle"
  /\ LET known == a \in DOMAIN visitors
         b == IF known THEN visitors[a].bucket ELSE Len(buckets) + 1
     IN /\ visitors' = WithEntry(visitors, a, [bucket |-> b, lastSeen |-> now])
        /\ buckets' = IF known THEN buckets
                      ELSE Append(buckets, [tokens |-> Full, last |-> Never])
        /\ call' = [call EXCEPT ![s] = [agent |-> a, bucket |-> b, since |-> now]]
  /\ pc' = [pc EXCEPT ![s] = "ReadClock"]
  /\ UNCHANGED <<now, sweepAt, granted>>

\* Limiter.Allow: time.Now(), before the lock.
ReadClock(s) ==
  /\ pc[s] = "ReadClock"
  /\ call' = [call EXCEPT ![s] = [agent |-> @.agent, bucket |-> @.bucket, since |-> @.since,
                                  time |-> now]]
  /\ pc' = [pc EXCEPT ![s] = "Reserve"]
  /\ UNCHANGED <<now, visitors, buckets, sweepAt, granted>>

\* Limiter.reserveN for one token and no wait: a grant writes the bucket, its
\* time included, a refusal leaves it alone.
Reserve(s) ==
  LET c == call[s]
      b == buckets[c.bucket]
      tokens == Advance(b, c.time) - Second
  IN /\ pc[s] = "Reserve"
     /\ IF tokens >= 0
        THEN /\ buckets' = [buckets EXCEPT ![c.bucket] = [tokens |-> tokens, last |-> c.time]]
             /\ granted' = [granted EXCEPT ![c.agent] = Append(@, c.time)]
        ELSE UNCHANGED <<buckets, granted>>
     /\ pc' = [pc EXCEPT ![s] = "Idle"]
     /\ call' = [call EXCEPT ![s] = NoCall]
     /\ UNCHANGED <<now, visitors, sweepAt>>

\* One round of cleanupVisitors, under the mutex of the map.
CleanupVisitors ==
  /\ now >= sweepAt
  /\ visitors' = Restrict(visitors, {a \in DOMAIN visitors : ~Forgotten(visitors[a])})
  /\ sweepAt' = now + SweepEvery
  /\ UNCHANGED <<now, buckets, pc, call, granted>>

\* Time passes, unless a goroutine has been held up for as long as it may be.
Tick ==
  /\ now < MaxNow
  /\ now < sweepAt + MaxStall
  /\ \A s \in Slots : pc[s] # "Idle" => now < call[s].since + MaxStall
  /\ now' = now + 1
  /\ UNCHANGED <<visitors, buckets, sweepAt, pc, call, granted>>

-----------------------------------------------------------------------------
Init ==
  /\ now = 0
  /\ visitors = << >>
  /\ buckets = << >>
  /\ sweepAt = SweepEvery
  /\ pc = [s \in Slots |-> "Idle"]
  /\ call = [s \in Slots |-> NoCall]
  /\ granted = [a \in Agents |-> << >>]

Next ==
  \/ \E s \in Slots : (\E a \in Agents : GetVisitor(s, a)) \/ ReadClock(s) \/ Reserve(s)
  \/ CleanupVisitors
  \/ Tick

Spec == Init /\ [][Next]_vars

-----------------------------------------------------------------------------
(***************************************************************************)
(* Properties                                                              *)
(***************************************************************************)
Times == {Never} \cup Moments

\* Every variable has its type; a bucket holds no more than it can, and what a
\* slot holds goes with its next step.
TypeOK ==
  /\ now \in Moments
  /\ buckets \in Seq([tokens : 0 .. Full, last : Times])
  /\ DOMAIN visitors \subseteq Agents
  /\ visitors \in [DOMAIN visitors -> [bucket : DOMAIN buckets, lastSeen : Moments]]
  /\ sweepAt \in SweepEvery .. MaxNow + SweepEvery
  /\ pc \in [Slots -> {"Idle", "ReadClock", "Reserve"}]
  /\ \A s \in Slots :
       CASE pc[s] = "Idle" -> call[s] = NoCall
         [] pc[s] = "ReadClock" ->
              call[s] \in [agent : Agents, bucket : DOMAIN buckets, since : Moments]
         [] pc[s] = "Reserve" ->
              call[s] \in [agent : Agents, bucket : DOMAIN buckets, since : Moments, time : Moments]
  /\ granted \in [Agents -> Seq(Moments)]

Promise == INSTANCE RatePromise

\* The limiter keeps its promise, though buckets are forgotten and made anew
\* and requests of one agent interleave (ratelimit.go:46-47, 82-112).
KeepsPromise == Promise!Spec

\* Slot s refuses its request, the grants of its agent being in order.
RefusesInOrder(s) ==
  /\ pc[s] = "Reserve" /\ pc'[s] = "Idle" /\ granted' = granted
  /\ Promise!Ordered(Append(granted[call[s].agent], call[s].time))

\* What rate.NewLimiter(1, RateLimit) allows is granted: while grants are in
\* order, a request is refused only when one more at the moment it read the
\* clock would be past Burst and one a second (ratelimit.go:88, rate.go:337-381).
\* The comment at ratelimit.go:79 speaks of more, three a second.
RefusesOnlyPastPromise ==
  [][\A s \in Slots :
       RefusesInOrder(s) => ~Promise!Fits(granted[call[s].agent], call[s].time)]_vars

\* No agent stays in the map longer than three minutes and one round of the
\* sweep after its last request (ratelimit.go:99-112).
VisitorsForgotten ==
  \A a \in DOMAIN visitors : now - visitors[a].lastSeen <= Idle + SweepEvery + MaxStall

=============================================================================

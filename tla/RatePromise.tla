---------------------------- MODULE RatePromise -----------------------------
(***************************************************************************)
(* What the rate limiter promises each user agent: from the moment of one  *)
(* granted request to that of another, both included, at most Burst more   *)
(* are granted than there are whole seconds in between.  It is promised as *)
(* long as requests are granted in the order of their moments.             *)
(***************************************************************************)
EXTENDS Integers, Sequences

CONSTANTS
  Agents,  \* the user agents
  Burst,   \* requests granted at once
  Second,  \* clock ticks to a second
  Moments  \* the readings of the clock

VARIABLE granted  \* per agent: the moments of the requests granted to it

Ordered(q) == \A i, j \in DOMAIN q : i <= j => q[i] <= q[j]

\* One more request at t stays within the bound, from every earlier one on.
Fits(q, t) ==
  \A i \in DOMAIN q : (Len(q) - i + 2) * Second <= Burst * Second + t - q[i]

Grant(a, t) ==
  /\ Ordered(Append(granted[a], t)) => Fits(granted[a], t)
  /\ granted' = [granted EXCEPT ![a] = Append(@, t)]

Init == granted = [a \in Agents |-> << >>]
Next == \E a \in Agents, t \in Moments : Grant(a, t)
Spec == Init /\ [][Next]_granted
=============================================================================

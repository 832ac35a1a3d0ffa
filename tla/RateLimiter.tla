------------------------------ MODULE RateLimiter ------------------------------
(***************************************************************************)
(* The fixed-window limiter of pairing attempts, per client address        *)
(* (PairingRateLimiter, crates/agent/src/pairing.rs), as operators on its  *)
(* state, which the code changes under one mutex.                          *)
(***************************************************************************)
EXTENDS Maps, Naturals, FiniteSets

CONSTANTS
  Window,       \* the length of a window, in steps of the clock
  MaxTracked    \* MAX_TRACKED_IPS

ASSUME LimiterAssumption == Window \in Nat \ {0} /\ MaxTracked \in Nat

\* attempts: address -> how many in its window, and when that began; due is
\* when the next sweep is, at once in a new limiter (last_sweep is None).
NewLimiter == [attempts |-> EmptyMap, due |-> 0]

Attempt(count, first) == [count |-> count, first |-> first]

InWindow(a, now) == now - a.first < Window

Sweep(l, now) ==
  [attempts |-> Without(l.attempts, {ip \in DOMAIN l.attempts : ~InWindow(l.attempts[ip], now)}),
   due |-> now + Window]

Full(l) == Cardinality(DOMAIN l.attempts) >= MaxTracked

\* The sweeps of a check: once per window, and when a new address finds the
\* table full.
Swept(l, ip, now) ==
  LET regular == IF now >= l.due THEN Sweep(l, now) ELSE l
  IN IF ip \notin DOMAIN regular.attempts /\ Full(regular) THEN Sweep(regular, now) ELSE regular

\* A bug: the attempt that reaches the maximum does not count as one.
OneTooMany(l, ip, now, max) ==
  IF ip \notin DOMAIN l.attempts THEN ~Full(l)
  ELSE InWindow(l.attempts[ip], now) => l.attempts[ip].count <= max

\* check, once swept: an address that is new, or whose window is over, begins
\* one; within a window there are max attempts.
Allowed(l, ip, now, max) ==
  IF ip \notin DOMAIN l.attempts THEN ~Full(l)
  ELSE InWindow(l.attempts[ip], now) => l.attempts[ip].count < max

Counted(l, ip, now) ==
  [l EXCEPT !.attempts = With(@, ip,
     IF ip \in DOMAIN @ /\ InWindow(@[ip], now) THEN Attempt(@[ip].count + 1, @[ip].first)
     ELSE Attempt(1, now))]

Check(l, ip, now, max) ==
  LET s  == Swept(l, ip, now)
      ok == Allowed(s, ip, now, max)
  IN [allowed |-> ok, limiter |-> IF ok THEN Counted(s, ip, now) ELSE s]

\* record_success
Cleared(l, ip) == [l EXCEPT !.attempts = Without(@, {ip})]
===============================================================================

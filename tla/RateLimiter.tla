---------------------------- MODULE RateLimiter -----------------------------
(***************************************************************************)
(* SimpleRateLimitMiddleware: a log of admissions per client host and area *)
(* of the site, in the memory of each worker process.  dispatch does not   *)
(* await between looking at a bucket and appending to it, so one request   *)
(* is one step, on whichever worker it reaches.                            *)
(*                                                                         *)
(* FullOffByOne, ExpiredLate and RefuseAndCount are the faulty variants    *)
(* that the runs must tell from the code.                                  *)
(***************************************************************************)
EXTENDS Integers, Sequences

CONSTANTS
  Workers,  \* gunicorn worker processes
  Hosts,    \* client addresses
  Paths,    \* request paths
  Exempt,   \* those that end with /health/live or /health/ready
  Area,     \* Area[p]: path.split('/')[1:3], what the bucket key keeps of p
  Limit,    \* settings.rate_limit_requests
  Window,   \* settings.rate_limit_window_seconds
  MaxTime   \* bound on the clock

\* Neither setting is validated: zero is possible.
ASSUME SettingsAssumption ==
  /\ Limit \in Nat
  /\ Window \in Nat
  /\ MaxTime \in Nat

ASSUME PathsAssumption == Exempt \subseteq Paths

Keys == Hosts \X {Area[p] : p \in Paths}

VARIABLES
  now,      \* time.monotonic()
  buckets,  \* buckets[w][k]: the deque of worker w for key k
  admitted, \* history: every request of k that worker w let through
  answer    \* how dispatch answered the last request

vars == <<now, buckets, admitted, answer>>

Answer(code, w, h, p) == [code |-> code, worker |-> w, host |-> h, path |-> p, at |-> now]

-----------------------------------------------------------------------------
(* Operations.                                                             *)

ExpiredLate(time) == time < now - Window
Expired(time) == time <= now - Window

\* The popleft loop: it stops at the first entry that has not expired.
Pruned(b) ==
  LET n == CHOOSE n \in 0..Len(b) :
             /\ \A i \in 1..n : Expired(b[i])
             /\ n < Len(b) => ~Expired(b[n + 1])
  IN SubSeq(b, n + 1, Len(b))

FullOffByOne(b) == Len(b) > Limit
Full(b) == Len(b) >= Limit

Admit(w, h, p) ==
  LET k == <<h, Area[p]>> 
      b == Pruned(buckets[w][k]) IN
  /\ ~Full(b)
  /\ buckets' = [buckets EXCEPT ![w][k] = Append(b, now)]
  /\ admitted' = [admitted EXCEPT ![w][k] = Append(@, [at |-> now, path |-> p])]
  /\ answer' = Answer("passed", w, h, p)
  /\ UNCHANGED now

RefuseAndCount(w, h, p) ==
  LET k == <<h, Area[p]>>
      b == Pruned(buckets[w][k]) IN
  /\ Full(b)
  /\ buckets' = [buckets EXCEPT ![w][k] = Append(b, now)]
  /\ answer' = Answer("429", w, h, p)
  /\ UNCHANGED <<now, admitted>>

\* 429 with Retry-After: Window.
Refuse(w, h, p) ==
  LET k == <<h, Area[p]>>
      b == Pruned(buckets[w][k]) IN
  /\ Full(b)
  /\ buckets' = [buckets EXCEPT ![w][k] = b]
  /\ answer' = Answer("429", w, h, p)
  /\ UNCHANGED <<now, admitted>>

\* A health probe passes without a look at the buckets.
Probe(w, h, p) ==
  /\ answer' = Answer("passed", w, h, p)
  /\ UNCHANGED <<now, buckets, admitted>>

Tick ==
  /\ now < MaxTime
  /\ now' = now + 1
  /\ UNCHANGED <<buckets, admitted, answer>>

\* A worker that is started again begins with no buckets.
Restart(w) ==
  /\ buckets' = [buckets EXCEPT ![w] = [k \in Keys |-> << >>]]
  /\ admitted' = [admitted EXCEPT ![w] = [k \in Keys |-> << >>]]
  /\ answer' = [code |-> "none"]
  /\ UNCHANGED now

Init ==
  /\ now = 0
  /\ buckets = [w \in Workers |-> [k \in Keys |-> << >>]]
  /\ admitted = [w \in Workers |-> [k \in Keys |-> << >>]]
  /\ answer = [code |-> "none"]

Next ==
  \/ \E w \in Workers, h \in Hosts, p \in Paths \ Exempt : Admit(w, h, p) \/ Refuse(w, h, p)
  \/ \E w \in Workers, h \in Hosts, p \in Exempt : Probe(w, h, p)
  \/ Tick
  \/ \E w \in Workers : Restart(w)

Spec == Init /\ [][Next]_vars

-----------------------------------------------------------------------------
(* Properties.                                                             *)

Admission == [at : Nat, path : Paths]

\* Every variable has its type; no bucket outgrows Limit, whatever is refused.
TypeOK ==
  /\ now \in Nat
  /\ buckets \in [Workers -> [Keys -> Seq(Nat)]]
  /\ \A w \in Workers, k \in Keys : Len(buckets[w][k]) <= Limit
  /\ admitted \in [Workers -> [Keys -> Seq(Admission)]]

\* No worker lets more than Limit requests of a key through within any
\* Window, although the deque has forgotten the older ones.
WindowBound ==
  \A w \in Workers, k \in Keys :
    LET a == admitted[w][k] IN
    \A i \in DOMAIN a : i + Limit \in DOMAIN a => a[i].at + Window <= a[i + Limit].at

Log == INSTANCE SlidingWindow

\* The pruned deques decide every request as a count over all admissions
\* would: nothing is refused that should pass, nor let through that should be
\* refused.
CountsEveryAdmission == Log!Spec
=============================================================================

---------------------------- MODULE SlidingWindow ----------------------------
(***************************************************************************)
(* What a sliding-window rate limiter promises: a request is let through   *)
(* when fewer than Limit requests of its key were let through during the   *)
(* last Window, counted over everything its worker ever let through, and   *)
(* refused otherwise.  SimpleRateLimitMiddleware keeps less than that      *)
(* (RateLimiter) and is shown to decide the same.                          *)
(***************************************************************************)
EXTENDS Integers, Sequences, FiniteSets

CONSTANTS Workers, Hosts, Paths, Exempt, Area, Limit, Window, MaxTime

VARIABLES now, admitted, answer

vars == <<now, admitted, answer>>

Keys == Hosts \X {Area[p] : p \in Paths}

Answer(code, w, h, p) == [code |-> code, worker |-> w, host |-> h, path |-> p, at |-> now]

\* The admissions of key k that still count.
Recent(w, k) == {i \in DOMAIN admitted[w][k] : admitted[w][k][i].at + Window > now}

Admit(w, h, p) ==
  LET k == <<h, Area[p]>> IN
  /\ Cardinality(Recent(w, k)) < Limit
  /\ admitted' = [admitted EXCEPT ![w][k] = Append(@, [at |-> now, path |-> p])]
  /\ answer' = Answer("passed", w, h, p)
  /\ UNCHANGED now

Refuse(w, h, p) ==
  /\ Cardinality(Recent(w, <<h, Area[p]>>)) >= Limit
  /\ answer' = Answer("429", w, h, p)
  /\ UNCHANGED <<now, admitted>>

Probe(w, h, p) ==
  /\ answer' = Answer("passed", w, h, p)
  /\ UNCHANGED <<now, admitted>>

Tick ==
  /\ now < MaxTime
  /\ now' = now + 1
  /\ UNCHANGED <<admitted, answer>>

Restart(w) ==
  /\ admitted' = [admitted EXCEPT ![w] = [k \in Keys |-> << >>]]
  /\ answer' = [code |-> "none"]
  /\ UNCHANGED now

Init ==
  /\ now = 0
  /\ admitted = [w \in Workers |-> [k \in Keys |-> << >>]]
  /\ answer = [code |-> "none"]

Next ==
  \/ \E w \in Workers, h \in Hosts, p \in Paths \ Exempt : Admit(w, h, p) \/ Refuse(w, h, p)
  \/ \E w \in Workers, h \in Hosts, p \in Exempt : Probe(w, h, p)
  \/ Tick
  \/ \E w \in Workers : Restart(w)

Spec == Init /\ [][Next]_vars
=============================================================================

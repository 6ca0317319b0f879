----------------------------- MODULE BlobGateway -----------------------------
(***************************************************************************)
(* The gateway to the object storage backend: a ready flag that every       *)
(* request meets first, one readiness check at a time, at most one every    *)
(* retryEvery, and the marks of requests that met a broken backend.         *)
(***************************************************************************)
EXTENDS Integers, FiniteSets

CONSTANTS
  Requests,  \* the requests that use the gateway; each may come again
  Probers,   \* those to /storage/health, which probe the backend as well
  Retry,     \* retryEvery, in ticks
  MaxOutages \* how often the backend goes down

ASSUME GatewayAssumption ==
  Probers \subseteq Requests /\ Retry \in Nat \ {0} /\ MaxOutages \in Nat

VARIABLES
  up,       \* does the backend answer
  outages,  \* outages so far
  ready,    \* BlobGateway.ready
  inflight, \* BlobGateway.inflight
  lastErr,  \* is BlobGateway.lastErr set
  since,    \* ticks since lastAttempt, up to Retry; a zero time is long ago
  call      \* [Requests -> where the request is]

gateVars == <<ready, inflight, lastErr, since>>
gatewayVars == <<up, outages, gateVars, call>>

GatewayTypeOK ==
  /\ up \in BOOLEAN /\ outages \in 0..MaxOutages
  /\ ready \in BOOLEAN /\ inflight \in BOOLEAN /\ lastErr \in BOOLEAN
  /\ since \in 0..Retry
  /\ call \in [Requests -> {"idle", "checking", "found up", "found down", "using",
                            "broken", "served", "failed", "refused"}]

GatewayInit ==
  /\ up = TRUE /\ outages = 0
  /\ ready = FALSE /\ inflight = FALSE /\ lastErr = FALSE /\ since = Retry
  /\ call = [c \in Requests |-> "idle"]

Checking(c) == call[c] \in {"checking", "found up", "found down"}
Go(c, to) == call' = [call EXCEPT ![c] = to]

-----------------------------------------------------------------------------
(* EnsureReady, up to the unlock before the check.  dead: the context of the
   request is done. *)

Pass(c) ==
  /\ call[c] = "idle" /\ ready /\ Go(c, "using")
  /\ UNCHANGED <<up, outages, gateVars>>

(* A check is under way, or the last attempt is too recent. *)
Refuse(c) ==
  /\ call[c] = "idle" /\ ~ready /\ (inflight \/ since < Retry)
  /\ Go(c, "refused")
  /\ UNCHANGED <<up, outages, gateVars>>

StartBesides(c) ==
  /\ call[c] = "idle" /\ ~ready /\ since = Retry
  /\ inflight' = TRUE /\ since' = 0 /\ Go(c, "checking")
  /\ UNCHANGED <<up, outages, ready, lastErr>>

StartCheck(c) ==
  /\ call[c] = "idle" /\ ~ready /\ ~inflight /\ since = Retry
  /\ inflight' = TRUE /\ since' = 0 /\ Go(c, "checking")
  /\ UNCHANGED <<up, outages, ready, lastErr>>

(* Ensure has its answer; a dead context is an error like any other. *)
Observe(c, dead) ==
  /\ call[c] = "checking" /\ Go(c, IF up /\ ~dead THEN "found up" ELSE "found down")
  /\ UNCHANGED <<up, outages, gateVars>>

EndCheckKept(c) ==
  /\ call[c] \in {"found up", "found down"}
  /\ inflight' = (call[c] = "found down") /\ since' = 0
  /\ ready' = (call[c] = "found up") /\ lastErr' = (call[c] = "found down")
  /\ Go(c, IF call[c] = "found up" THEN "using" ELSE "refused")
  /\ UNCHANGED <<up, outages>>

(* The second critical section overwrites what was marked meanwhile. *)
EndCheck(c) ==
  /\ call[c] \in {"found up", "found down"}
  /\ inflight' = FALSE /\ since' = 0
  /\ ready' = (call[c] = "found up") /\ lastErr' = (call[c] = "found down")
  /\ Go(c, IF call[c] = "found up" THEN "using" ELSE "refused")
  /\ UNCHANGED <<up, outages>>

-----------------------------------------------------------------------------
(* The backend's call after the gate: Put, Get, Stat, Presign.  An ended
   context is passed on as such and marks nothing. *)
Use(c, dead) ==
  /\ call[c] = "using" /\ c \notin Probers
  /\ Go(c, IF dead THEN "failed" ELSE IF up THEN "served" ELSE "broken")
  /\ UNCHANGED <<up, outages, gateVars>>

(* Health probes whatever the gate said; every error of the probe counts. *)
Probe(c, dead) ==
  /\ call[c] \in {"using", "refused"} /\ c \in Probers
  /\ Go(c, IF up /\ ~dead THEN "served" ELSE "broken")
  /\ UNCHANGED <<up, outages, gateVars>>

MarkOnce(c) ==
  /\ call[c] = "broken"
  /\ ready' = (ready /\ outages > 1) /\ lastErr' = TRUE /\ since' = 0
  /\ Go(c, "failed")
  /\ UNCHANGED <<up, outages, inflight>>

(* markUnavailable, markNotReady *)
Mark(c) ==
  /\ call[c] = "broken"
  /\ ready' = FALSE /\ lastErr' = TRUE /\ since' = 0
  /\ Go(c, "failed")
  /\ UNCHANGED <<up, outages, inflight>>

Answer(c) ==
  /\ call[c] \in {"served", "failed"} \/ (call[c] = "refused" /\ c \notin Probers)
  /\ Go(c, "idle")
  /\ UNCHANGED <<up, outages, gateVars>>

GateStep(c, dead) ==
  \/ Pass(c) \/ Refuse(c) \/ StartCheck(c) \/ Observe(c, dead) \/ EndCheck(c)
  \/ Use(c, dead) \/ Probe(c, dead) \/ Mark(c)

-----------------------------------------------------------------------------
Tick ==
  /\ since < Retry /\ since' = since + 1
  /\ UNCHANGED <<up, outages, ready, inflight, lastErr, call>>

GoDown ==
  /\ up /\ outages < MaxOutages
  /\ up' = FALSE /\ outages' = outages + 1
  /\ UNCHANGED <<ready, inflight, lastErr, since, call>>

ComeUp ==
  /\ ~up /\ up' = TRUE
  /\ UNCHANGED <<outages, ready, inflight, lastErr, since, call>>

-----------------------------------------------------------------------------
(* One check at a time however many requests come, the flag that says so is
   always given back, and a request is never refused for a recent attempt
   that left no error behind. *)
OneCheckAtATime ==
  /\ inflight <=> \E c \in Requests : Checking(c)
  /\ \A c, d \in Requests : Checking(c) /\ Checking(d) => c = d
  /\ ~ready /\ ~inflight /\ since < Retry => lastErr

(* A backend that is up to stay is in use again, whatever was marked, checked
   and refused before: an attempt that failed is repeated. *)
ReadyAgain == <>[]up => <>[]ready

(* A backend that is down to stay is taken out of use, although a check that
   saw it up may end after the requests that saw it down have marked it. *)
OutageIsNoticed == <>[]~up => <>[]~ready

(* A request whose caller has gone says nothing of the backend: one that has
   always answered is never reported as broken.
   The code does not keep this (README, section 4). *)
GoneCallerIsNoOutage == outages = 0 => ~lastErr
=============================================================================

---------------------------- MODULE RateLimiter ----------------------------
(***************************************************************************)
(* The per-tenant rate limiter of p13-ai-gateway/gateway.py: TokenBucket,  *)
(* Gateway._bucket and the first lines of do_POST.                         *)
(*                                                                         *)
(* ThreadingHTTPServer runs every request in a thread of its own.  take()  *)
(* is atomic (the bucket's lock), _bucket() is not: it reads the shared    *)
(* dict, builds a bucket, and stores it, with other threads in between.    *)
(* A bucket object is named by the request whose thread built it.          *)
(*                                                                         *)
(* Tokens are counted in units, Unit of them to one request, so that a     *)
(* fractional capacity or refill is an integer here.  Time is a number of  *)
(* ticks; MaxNow bounds it.  Rounding of floats is not modelled.           *)
(***************************************************************************)
EXTENDS Integers, Sequences

CONSTANTS Requests,  \* requests, each served by a thread
          Names,     \* what an X-Tenant header, or its absence, says
          Header,    \* [Requests -> Names]
          Tenants,   \* keys of the dict of buckets
          Cut,       \* [Names -> Tenants], the first 64 characters, or "default"
          Cap,       \* --rate-capacity, in units
          Refill,    \* --rate-refill, units per tick
          Unit,      \* units one request consumes
          MaxNow,    \* bound on the clock
          NoBucket   \* dict.get() of an absent key

ASSUME LimiterConstants ==
  /\ Header \in [Requests -> Names] /\ Cut \in [Names -> Tenants]
  /\ Cap \in Nat /\ Refill \in Nat /\ Unit \in Nat \ {0} /\ MaxNow \in Nat
  /\ NoBucket \notin Requests

VARIABLES now,      \* time.monotonic()
          buckets,  \* the class-level dict, [Tenants -> bucket or NoBucket]
          tokens,   \* [bucket -> units], TokenBucket.tokens
          ts,       \* [bucket -> time], TokenBucket.ts
          step,     \* where each thread is in do_POST's limiter line
          b,        \* the thread's local variable b
          grants    \* history: the times of a bucket's successful takes

limiterVars == <<now, buckets, tokens, ts, step, b, grants>>

\* _tenant: names that differ only after the cut, or a name of "default" and no
\* header at all, are one tenant.
TenantOf == [r \in Requests |-> Cut[Header[r]]]

Steps == {"lookup", "build", "publish", "take", "granted", "refused"}

LimiterTypeOK ==
  /\ now \in 0..MaxNow
  /\ buckets \in [Tenants -> Requests \cup {NoBucket}]
  /\ tokens \in [Requests -> 0..Cap]
  /\ ts \in [Requests -> 0..MaxNow]
  /\ step \in [Requests -> Steps]
  /\ b \in [Requests -> Requests \cup {NoBucket}]
  /\ grants \in [Requests -> Seq(0..MaxNow)]

-----------------------------------------------------------------------------
LimiterInit ==
  /\ now = 0
  /\ buckets = [t \in Tenants |-> NoBucket]
  /\ tokens = [r \in Requests |-> Cap]
  /\ ts = [r \in Requests |-> 0]
  /\ step = [r \in Requests |-> "lookup"]
  /\ b = [r \in Requests |-> NoBucket]
  /\ grants = [r \in Requests |-> << >>]

MutLookupMisses(r) ==
  /\ step[r] = "lookup"
  /\ b' = [b EXCEPT ![r] = NoBucket]
  /\ step' = [step EXCEPT ![r] = "build"]
  /\ UNCHANGED <<now, buckets, tokens, ts, grants>>

\* b = self.buckets.get(tenant)
Lookup(r) ==
  LET found == buckets[TenantOf[r]] IN
  /\ step[r] = "lookup"
  /\ b' = [b EXCEPT ![r] = found]
  /\ step' = [step EXCEPT ![r] = IF found = NoBucket THEN "build" ELSE "take"]
  /\ UNCHANGED <<now, buckets, tokens, ts, grants>>

\* b = TokenBucket(cap, refill): a full bucket stamped with the current time
Build(r) ==
  /\ step[r] = "build"
  /\ tokens' = [tokens EXCEPT ![r] = Cap]
  /\ ts' = [ts EXCEPT ![r] = now]
  /\ b' = [b EXCEPT ![r] = r]
  /\ step' = [step EXCEPT ![r] = "publish"]
  /\ UNCHANGED <<now, buckets, grants>>

MutPublishToAll(r) ==
  /\ step[r] = "publish"
  /\ buckets' = [t \in Tenants |-> b[r]]
  /\ step' = [step EXCEPT ![r] = "take"]
  /\ UNCHANGED <<now, tokens, ts, b, grants>>

\* self.buckets[tenant] = b, whatever another thread has put there meanwhile
Publish(r) ==
  /\ step[r] = "publish"
  /\ buckets' = [buckets EXCEPT ![TenantOf[r]] = b[r]]
  /\ step' = [step EXCEPT ![r] = "take"]
  /\ UNCHANGED <<now, tokens, ts, b, grants>>

MutUncapped(x) == x
Capped(x) == IF x < Cap THEN x ELSE Cap

MutRefilledFromStart(k) == Capped(tokens[k] + now * Refill)

\* min(cap, tokens + (now - ts) * refill)
Refilled(k) == Capped(tokens[k] + (now - ts[k]) * Refill)

\* TokenBucket.take, atomic under the bucket's lock
Take(r) ==
  LET k == b[r] IN
  /\ step[r] = "take"
  /\ ts' = [ts EXCEPT ![k] = now]
  /\ \/ /\ Refilled(k) >= Unit
        /\ tokens' = [tokens EXCEPT ![k] = Refilled(k) - Unit]
        /\ grants' = [grants EXCEPT ![k] = Append(@, now)]
        /\ step' = [step EXCEPT ![r] = "granted"]
     \/ /\ Refilled(k) < Unit
        /\ tokens' = [tokens EXCEPT ![k] = Refilled(k)]
        /\ step' = [step EXCEPT ![r] = "refused"]
        /\ UNCHANGED grants
  /\ UNCHANGED <<now, buckets, b>>

LimiterStep(r) == Lookup(r) \/ Build(r) \/ Publish(r) \/ Take(r)

Tick == /\ now < MaxNow
        /\ now' = now + 1
        /\ UNCHANGED <<buckets, tokens, ts, step, b, grants>>

LimiterNext == Tick \/ \E r \in Requests : LimiterStep(r)

LimiterSpec == LimiterInit /\ [][LimiterNext]_limiterVars

-----------------------------------------------------------------------------
(* Properties *)

\* In every window of time a bucket grants at most its capacity and what is
\* refilled in the window: TokenBucket.take never mints or double-counts a
\* token, whichever threads call it and whenever.
WindowBound ==
  \A k \in Requests : \A i, j \in DOMAIN grants[k] :
    i <= j => Unit * (j - i + 1) <= Cap + Refill * (grants[k][j] - grants[k][i])

\* A thread draws from a bucket made for its own tenant, that is for the same
\* name up to the cut, also after two threads have overwritten each other's entry
\* ("buckets are per-tenant isolated", gateway.py docstring).
Isolated ==
  /\ \A r \in Requests : step[r] = "take" =>
       b[r] \in Requests /\ TenantOf[b[r]] = TenantOf[r]
  /\ \A t \in Tenants : buckets[t] # NoBucket => TenantOf[buckets[t]] = t

\* No thread of the tenant is between its failed lookup and its store.
Settled(t) ==
  /\ buckets[t] # NoBucket
  /\ \A r \in Requests : TenantOf[r] = t => step[r] \notin {"build", "publish"}

\* The unlocked check-then-set of _bucket can only replace a tenant's bucket
\* while first requests of that tenant are in flight: once they are through,
\* the tenant keeps one bucket for ever.
SettledForever ==
  [][\A t \in Tenants : Settled(t) => Settled(t)' /\ buckets'[t] = buckets[t]]_limiterVars

\* The lazy refill of take() answers exactly as a bucket topped up at every
\* tick would: nobody is refused a token that has been earned, nobody is
\* granted one that has not.
Eager == INSTANCE EagerBucket WITH
           Buckets <- Requests,
           level <- [k \in Requests |-> Refilled(k)],
           answer <- [r \in Requests |-> IF step[r] \in {"granted", "refused"}
                                         THEN step[r] ELSE "none"]
ImplementsEagerBucket == Eager!Spec

GrantedTo(t) == {r \in Requests : TenantOf[r] = t /\ step[r] = "granted"}
=============================================================================

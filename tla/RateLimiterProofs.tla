------------------------- MODULE RateLimiterProofs -------------------------
(* Theorems about RateLimiter, for every set of requests and tenants and  *)
(* every capacity, refill, unit and length of the run.                    *)
EXTENDS RateLimiter, TLAPS

(***************************************************************************)
(* Arithmetic that the later steps cite.                                   *)
(***************************************************************************)

\* A product of integers is one.
LEMMA Products ==
  ASSUME NEW x \in Int, NEW y \in Int
  PROVE  x * y \in Int /\ x * y = y * x
BY Z3

\* A refill over two adjacent spans of time is the refill over their sum.
LEMMA RefillAdds ==
  ASSUME NEW x \in Int, NEW y \in Int, NEW z \in Int
  PROVE  /\ (y - x) * Refill + (z - y) * Refill = (z - x) * Refill
         /\ Refill * (z - x) = (z - x) * Refill
         /\ x <= y => (y - x) * Refill >= 0
<1>1. Refill \in Nat BY LimiterConstants
<1> QED BY <1>1, Z3

\* One request more costs one unit more.
LEMMA UnitAdds ==
  ASSUME NEW x \in Int
  PROVE  Unit * (x + 1) = Unit * x + Unit /\ Unit * 1 = Unit /\ Unit * x \in Int
<1>1. Unit \in Nat BY LimiterConstants
<1> QED BY <1>1, Z3

\* Time passes from s to t: f, what is in the bucket then, is within the budget
\* of n units granted since g when tok was within it at s.
LEMMA BudgetGrows ==
  ASSUME NEW n \in Int, NEW tok \in Int, NEW f \in Int,
         NEW g \in Int, NEW s \in Int, NEW t \in Int,
         n + tok <= Cap + Refill * (s - g),
         f <= tok + (t - s) * Refill
  PROVE  n + f <= Cap + Refill * (t - g)
<1>1. Refill \in Int /\ Cap \in Int BY LimiterConstants
<1>2. /\ (s - g) * Refill + (t - s) * Refill = (t - g) * Refill
      /\ Refill * (t - g) = (t - g) * Refill
      /\ Refill * (s - g) = (s - g) * Refill
  BY RefillAdds
<1>3. /\ (s - g) * Refill \in Int /\ (t - s) * Refill \in Int
      /\ (t - g) * Refill \in Int
  BY <1>1, Products
<1> DEFINE p == (s - g) * Refill
           q == (t - s) * Refill
           w == (t - g) * Refill
<1>4. /\ n + tok <= Cap + p /\ f <= tok + q /\ p + q = w
      /\ p \in Int /\ q \in Int /\ w \in Int
  BY <1>2, <1>3
<1>5. n + f <= Cap + w
  <2> HIDE DEF p, q, w
  <2> QED BY <1>1, <1>4
<1> QED BY <1>2, <1>5

\* What take() computes stays between zero and the capacity.
LEMMA RefilledType ==
  ASSUME LimiterTypeOK, NEW k \in Requests, ts[k] <= now
  PROVE  /\ Refilled(k) \in 0..Cap
         /\ Refilled(k) <= tokens[k] + (now - ts[k]) * Refill
<1>1. /\ tokens[k] \in 0..Cap /\ ts[k] \in 0..MaxNow /\ now \in 0..MaxNow
      /\ Cap \in Nat /\ MaxNow \in Nat /\ Refill \in Nat
  BY LimiterConstants DEF LimiterTypeOK
<1>2. (now - ts[k]) * Refill \in Int /\ (now - ts[k]) * Refill >= 0
  BY <1>1, RefillAdds
<1> QED BY <1>1, <1>2 DEF Refilled, Capped

(***************************************************************************)
(* The inductive invariant.  Types alone do not bound a window of grants:  *)
(* one has to know what is left in the bucket since the first of them.     *)
(***************************************************************************)

\* A thread at take() holds a bucket, and of its own tenant.
OwnBucket ==
  /\ \A r \in Requests : step[r] \in {"publish", "take"} =>
       b[r] \in Requests /\ TenantOf[b[r]] = TenantOf[r]
  /\ \A t \in Tenants : buckets[t] # NoBucket => TenantOf[buckets[t]] = t

\* A bucket nobody has published or looked up has granted nothing: the object
\* a thread is about to build is fresh.
Fresh ==
  \A r \in Requests : step[r] \in {"lookup", "build"} =>
    /\ grants[r] = << >> /\ tokens[r] = Cap
    /\ \A q \in Requests : b[q] # r
    /\ \A t \in Tenants : buckets[t] # r

\* Stamps never run ahead of the clock, and grants never ahead of the stamp.
Stamped ==
  /\ \A k \in Requests : ts[k] <= now
  /\ \A k \in Requests : \A i \in DOMAIN grants[k] : grants[k][i] <= ts[k]

\* Counting from any grant on: the units granted and those still in the bucket
\* are within the capacity and the refill since that grant.
Budget ==
  \A k \in Requests : \A i \in DOMAIN grants[k] :
    Unit * (Len(grants[k]) - i + 1) + tokens[k]
      <= Cap + Refill * (ts[k] - grants[k][i])

LimiterInv ==
  LimiterTypeOK /\ OwnBucket /\ Fresh /\ Stamped /\ Budget /\ WindowBound

LEMMA LimiterInitially == LimiterInit => LimiterInv
<1> SUFFICES ASSUME LimiterInit PROVE LimiterInv
  OBVIOUS
<1> USE LimiterConstants DEF LimiterInit
<1>1. LimiterTypeOK BY DEF LimiterTypeOK, Steps
<1>2. OwnBucket /\ Fresh BY DEF OwnBucket, Fresh
<1>3. Stamped /\ Budget /\ WindowBound BY DEF Stamped, Budget, WindowBound
<1> QED BY <1>1, <1>2, <1>3 DEF LimiterInv

\* The heart of the matter: a take keeps the budget of its bucket.
LEMMA TakeKeepsBudget ==
  ASSUME LimiterInv, NEW r \in Requests, Take(r)
  PROVE  Stamped' /\ Budget' /\ WindowBound'
<1> DEFINE k == b[r]
<1>0. /\ k \in Requests /\ tokens[k] \in 0..Cap /\ ts[k] \in 0..MaxNow
      /\ now \in 0..MaxNow /\ ts[k] <= now /\ Cap \in Nat /\ MaxNow \in Nat
      /\ Unit \in Nat /\ Refill \in Nat
      /\ grants \in [Requests -> Seq(0..MaxNow)]
      /\ ts \in [Requests -> 0..MaxNow] /\ tokens \in [Requests -> 0..Cap]
  BY LimiterConstants DEF LimiterInv, LimiterTypeOK, OwnBucket, Stamped, Take
<1>1. Refilled(k) \in 0..Cap /\ Refilled(k) <= tokens[k] + (now - ts[k]) * Refill
  BY <1>0, RefilledType DEF LimiterInv
<1>2. /\ ts' = [ts EXCEPT ![k] = now] /\ now' = now
  BY DEF Take
<1> DEFINE g == grants[k]
<1>3. g \in Seq(0..MaxNow) /\ Len(g) \in Nat /\ DOMAIN g = 1..Len(g)
  BY <1>0
<1>4. ASSUME NEW i \in DOMAIN g
      PROVE  /\ g[i] \in 0..MaxNow /\ g[i] <= ts[k] /\ Len(g) - i + 1 \in Int
             /\ Unit * (Len(g) - i + 1) + Refilled(k) <= Cap + Refill * (now - g[i])
  <2>1. /\ Unit * (Len(g) - i + 1) + tokens[k] <= Cap + Refill * (ts[k] - g[i])
        /\ g[i] <= ts[k]
    BY <1>0 DEF LimiterInv, Budget, Stamped
  <2> HIDE DEF g, k
  <2>2. g[i] \in 0..MaxNow /\ Len(g) - i + 1 \in Int
    <3>1. i \in 1..Len(g) BY <1>3
    <3> DEFINE Times == 0..MaxNow
    <3>2. g[i] \in Times
      <4>1. g \in Seq(Times) BY <1>3
      <4> HIDE DEF Times
      <4> QED BY <3>1, <4>1
    <3>3. Len(g) - i + 1 \in Int BY <1>3, <3>1
    <3> QED BY <3>2, <3>3
  <2>3. /\ Unit * (Len(g) - i + 1) \in Int /\ tokens[k] \in Int /\ ts[k] \in Int
        /\ Refilled(k) \in Int /\ now \in Int /\ g[i] \in Int
    BY <1>0, <1>1, <2>2, UnitAdds
  <2>4. Unit * (Len(g) - i + 1) + Refilled(k) <= Cap + Refill * (now - g[i])
    BY <1>1, <2>1, <2>3, BudgetGrows
  <2> QED BY <2>1, <2>2, <2>4
<1>5. CASE Refilled(k) >= Unit /\ step' = [step EXCEPT ![r] = "granted"]
           /\ tokens' = [tokens EXCEPT ![k] = Refilled(k) - Unit]
           /\ grants' = [grants EXCEPT ![k] = Append(g, now)]
  <2> DEFINE h == Append(g, now)
  <2>1. /\ grants'[k] = h /\ tokens'[k] = Refilled(k) - Unit /\ ts'[k] = now
        /\ \A q \in Requests : q # k => /\ grants'[q] = grants[q]
                                        /\ tokens'[q] = tokens[q] /\ ts'[q] = ts[q]
    BY <1>0, <1>2, <1>5
  <2>2. /\ h \in Seq(0..MaxNow) /\ Len(h) = Len(g) + 1 /\ DOMAIN h = 1..Len(g) + 1
        /\ h[Len(g) + 1] = now /\ \A i \in 1..Len(g) : h[i] = g[i]
    BY <1>0, <1>3
  <2>3. ASSUME NEW i \in DOMAIN h
        PROVE  /\ h[i] \in 0..MaxNow /\ h[i] <= now
               /\ Unit * (Len(h) - i + 1) + (Refilled(k) - Unit) <= Cap + Refill * (now - h[i])
    <3>1. CASE i = Len(g) + 1
      <4>1. Len(h) - i + 1 = 1 /\ h[i] = now BY <2>2, <3>1, <1>3
      <4>2. Unit * 1 = Unit /\ Refill * (now - now) = 0 BY <1>0
      <4> HIDE DEF h, g, k
      <4> QED BY <1>0, <1>1, <4>1, <4>2
    <3>2. CASE i \in DOMAIN g
      <4>1. h[i] = g[i] /\ Len(h) - i + 1 = (Len(g) - i + 1) + 1 BY <2>2, <3>2, <1>3
      <4> DEFINE n == Len(g) - i + 1
      <4>2. /\ g[i] \in 0..MaxNow /\ g[i] <= ts[k] /\ n \in Int
            /\ Unit * n + Refilled(k) <= Cap + Refill * (now - g[i])
        BY <1>4, <3>2
      <4>3. Len(h) - i + 1 = n + 1 BY <4>1
      <4> HIDE DEF h, g, k, n
      <4>4. Unit * (n + 1) = Unit * n + Unit /\ Unit * n \in Int
        BY <4>2, UnitAdds
      <4>5. Refill * (now - g[i]) \in Int
        BY <1>0, <4>2, Products
      <4> DEFINE u == Unit * n
                 w == Refill * (now - g[i])
      <4>6. /\ Unit * (Len(h) - i + 1) = u + Unit /\ Refill * (now - h[i]) = w
            /\ u \in Int /\ w \in Int /\ u + Refilled(k) <= Cap + w
        BY <4>1, <4>2, <4>3, <4>4, <4>5
      <4>7. (u + Unit) + (Refilled(k) - Unit) <= Cap + w
        <5> HIDE DEF u, w
        <5> QED BY <1>0, <1>1, <4>6
      <4>8. h[i] \in 0..MaxNow /\ h[i] <= now
        <5>1. g[i] \in Int /\ ts[k] \in Int /\ now \in Int BY <1>0, <4>2
        <5>2. g[i] <= now BY <1>0, <4>2, <5>1
        <5> QED BY <4>1, <4>2, <5>2
      <4> QED BY <4>6, <4>7, <4>8
    <3>3. i = Len(g) + 1 \/ i \in DOMAIN g
      <4> HIDE DEF h, g, k
      <4> QED BY <2>2, <1>3
    <3> HIDE DEF h, g, k
    <3> QED BY <3>1, <3>2, <3>3
  <2>4. Stamped'
    <3> HIDE DEF h, g, k
    <3>1. /\ \A q \in Requests : ts[q] <= now
          /\ \A q \in Requests : \A i \in DOMAIN grants[q] : grants[q][i] <= ts[q]
      BY DEF LimiterInv, Stamped
    <3> QED BY <1>0, <1>2, <2>1, <2>3, <3>1 DEF Stamped
  <2>5. Budget'
    <3> SUFFICES ASSUME NEW q \in Requests, NEW i \in DOMAIN grants'[q]
                 PROVE  Unit * (Len(grants'[q]) - i + 1) + tokens'[q]
                          <= Cap + Refill * (ts'[q] - grants'[q][i])
      BY DEF Budget
    <3> HIDE DEF h, g, k
    <3>1. CASE q = k BY <2>1, <2>3, <3>1
    <3>2. CASE q # k BY <2>1, <3>2 DEF LimiterInv, Budget
    <3> QED BY <3>1, <3>2
  <2>6. WindowBound'
    <3> SUFFICES ASSUME NEW q \in Requests, NEW i \in DOMAIN grants'[q],
                        NEW j \in DOMAIN grants'[q], i <= j
                 PROVE  Unit * (j - i + 1)
                          <= Cap + Refill * (grants'[q][j] - grants'[q][i])
      BY DEF WindowBound
    <3>1. CASE q # k
      <4> HIDE DEF h, g, k
      <4> QED BY <2>1, <3>1 DEF LimiterInv, WindowBound
    <3>2. CASE q = k /\ j = Len(g) + 1
      <4>1. /\ Unit * (Len(h) - i + 1) + (Refilled(k) - Unit) <= Cap + Refill * (now - h[i])
            /\ h[j] = now /\ Len(h) = j
        BY <2>1, <2>2, <2>3, <3>2
      <4>2. i \in Int /\ j \in Int /\ h[i] \in Int
        <5>1. i \in 1..(Len(g) + 1) /\ j \in 1..(Len(g) + 1) /\ i \in DOMAIN h
          BY <2>1, <2>2, <3>2
        <5>2. i \in Int /\ j \in Int BY <1>3, <5>1
        <5>3. h[i] \in 0..MaxNow BY <2>3, <5>1
        <5> HIDE DEF h, g, k
        <5> QED BY <1>0, <5>2, <5>3
      <4> HIDE DEF h, g, k
      <4>3. Refill * (now - h[i]) \in Int /\ Unit * (j - i + 1) \in Int
        <5>1. now - h[i] \in Int /\ j - i + 1 \in Int /\ Refill \in Int
          BY <1>0, <4>2
        <5>2. Refill * (now - h[i]) \in Int BY <5>1, Products
        <5>3. Unit * (j - i + 1) \in Int BY <5>1, UnitAdds
        <5> QED BY <5>2, <5>3
      <4> DEFINE u == Unit * (j - i + 1)
                 w == Refill * (now - h[i])
      <4>4. u + (Refilled(k) - Unit) <= Cap + w /\ u \in Int /\ w \in Int
        BY <4>1, <4>3
      <4>5. u <= Cap + w
        <5> DEFINE v == Refilled(k)
        <5>1. v \in Int /\ Unit \in Int /\ Cap \in Int /\ v >= Unit BY <1>0, <1>1, <1>5
        <5>2. u + (v - Unit) <= Cap + w /\ u \in Int /\ w \in Int BY <4>4
        <5> HIDE DEF u, v, w
        <5> QED BY <5>1, <5>2
      <4> QED BY <2>1, <3>2, <4>1, <4>5
    <3>3. CASE q = k /\ j # Len(g) + 1
      <4>1. i \in DOMAIN g /\ j \in DOMAIN g /\ h[i] = g[i] /\ h[j] = g[j]
        BY <1>3, <2>1, <2>2, <3>3
      <4> QED BY <1>0, <2>1, <3>3, <4>1 DEF LimiterInv, WindowBound
    <3> QED BY <3>1, <3>2, <3>3
  <2> QED BY <2>4, <2>5, <2>6
<1>6. CASE Refilled(k) < Unit /\ step' = [step EXCEPT ![r] = "refused"]
           /\ tokens' = [tokens EXCEPT ![k] = Refilled(k)] /\ grants' = grants
  <2> HIDE DEF k
  <2>1. Stamped'
    BY <1>0, <1>2, <1>6 DEF LimiterInv, Stamped
  <2>2. Budget'
    <3> SUFFICES ASSUME NEW q \in Requests, NEW i \in DOMAIN grants[q]
                 PROVE  Unit * (Len(grants[q]) - i + 1) + tokens'[q]
                          <= Cap + Refill * (ts'[q] - grants[q][i])
      BY <1>6 DEF Budget
    <3>1. CASE q = k BY <1>0, <1>2, <1>4, <1>6, <3>1
    <3>2. CASE q # k BY <1>0, <1>2, <1>6, <3>2 DEF LimiterInv, Budget
    <3> QED BY <3>1, <3>2
  <2>3. WindowBound' BY <1>6 DEF LimiterInv, WindowBound
  <2> QED BY <2>1, <2>2, <2>3
<1> QED BY <1>5, <1>6 DEF Take

\* Only Take disturbs the budget; the other steps leave grants, and what the
\* published buckets hold, alone.
LEMMA LimiterStepInv == LimiterInv /\ [LimiterNext]_limiterVars => LimiterInv'
<1> SUFFICES ASSUME LimiterInv, [LimiterNext]_limiterVars PROVE LimiterInv'
  OBVIOUS
<1> USE LimiterConstants
<1>0. LimiterTypeOK /\ OwnBucket /\ Fresh /\ Stamped /\ Budget /\ WindowBound
  BY DEF LimiterInv
<1>1. ASSUME NEW r \in Requests, Lookup(r) PROVE LimiterInv'
  <2>1. TenantOf[r] \in Tenants BY DEF TenantOf
  <2>2. LimiterTypeOK' BY <1>0, <1>1, <2>1 DEF Lookup, LimiterTypeOK, Steps
  <2>3. OwnBucket' BY <1>0, <1>1, <2>1 DEF Lookup, LimiterTypeOK, OwnBucket
  <2>4. Fresh' BY <1>0, <1>1, <2>1 DEF Lookup, LimiterTypeOK, Fresh
  <2>5. Stamped' /\ Budget' /\ WindowBound'
    BY <1>0, <1>1 DEF Lookup, Stamped, Budget, WindowBound
  <2> QED BY <2>2, <2>3, <2>4, <2>5 DEF LimiterInv
<1>2. ASSUME NEW r \in Requests, Build(r) PROVE LimiterInv'
  <2>1. grants[r] = << >> BY <1>0, <1>2 DEF Build, Fresh
  <2>2. LimiterTypeOK' BY <1>0, <1>2 DEF Build, LimiterTypeOK, Steps
  <2>3. OwnBucket' BY <1>0, <1>2 DEF Build, LimiterTypeOK, OwnBucket
  <2>4. Fresh' BY <1>0, <1>2 DEF Build, LimiterTypeOK, Fresh
  <2>5. Stamped' BY <1>0, <1>2, <2>1 DEF Build, LimiterTypeOK, Stamped
  <2>6. Budget'
    <3> SUFFICES ASSUME NEW q \in Requests, NEW i \in DOMAIN grants[q]
                 PROVE  Unit * (Len(grants[q]) - i + 1) + tokens'[q]
                          <= Cap + Refill * (ts'[q] - grants[q][i])
      BY <1>2 DEF Build, Budget
    <3>1. q # r BY <2>1
    <3>2. tokens'[q] = tokens[q] /\ ts'[q] = ts[q]
      BY <1>0, <1>2, <3>1 DEF Build, LimiterTypeOK
    <3> QED BY <1>0, <3>2 DEF Budget
  <2>7. WindowBound' BY <1>0, <1>2 DEF Build, WindowBound
  <2> QED BY <2>2, <2>3, <2>4, <2>5, <2>6, <2>7 DEF LimiterInv
<1>3. ASSUME NEW r \in Requests, Publish(r) PROVE LimiterInv'
  <2>1. TenantOf[r] \in Tenants /\ b[r] \in Requests /\ TenantOf[b[r]] = TenantOf[r]
    BY <1>0, <1>3 DEF Publish, OwnBucket, TenantOf
  <2>2. LimiterTypeOK' BY <1>0, <1>3, <2>1 DEF Publish, LimiterTypeOK, Steps
  <2>3. OwnBucket' BY <1>0, <1>3, <2>1 DEF Publish, LimiterTypeOK, OwnBucket
  <2>4. Fresh' BY <1>0, <1>3, <2>1 DEF Publish, LimiterTypeOK, Fresh
  <2>5. Stamped' /\ Budget' /\ WindowBound'
    BY <1>0, <1>3 DEF Publish, Stamped, Budget, WindowBound
  <2> QED BY <2>2, <2>3, <2>4, <2>5 DEF LimiterInv
<1>4. ASSUME NEW r \in Requests, Take(r) PROVE LimiterInv'
  <2>1. b[r] \in Requests /\ ts[b[r]] <= now /\ now \in 0..MaxNow
    BY <1>0, <1>4 DEF Take, OwnBucket, Stamped, LimiterTypeOK
  <2>2. Refilled(b[r]) \in 0..Cap BY <1>0, <2>1, RefilledType
  <2>3. Refilled(b[r]) >= Unit => Refilled(b[r]) - Unit \in 0..Cap
    <3> DEFINE f == Refilled(b[r])
    <3>1. f \in 0..Cap BY <2>2
    <3> HIDE DEF f
    <3>2. f >= Unit => f - Unit \in 0..Cap BY <3>1
    <3> QED BY <3>2 DEF f
  <2>4. LimiterTypeOK'
    <3>1. now' \in 0..MaxNow /\ buckets' = buckets /\ b' = b
      BY <2>1, <1>4 DEF Take
    <3>2. tokens' \in [Requests -> 0..Cap]
      BY <1>0, <1>4, <2>2, <2>3 DEF Take, LimiterTypeOK
    <3>3. ts' \in [Requests -> 0..MaxNow]
      BY <1>0, <1>4, <2>1 DEF Take, LimiterTypeOK
    <3>4. step' \in [Requests -> Steps]
      BY <1>0, <1>4 DEF Take, LimiterTypeOK, Steps
    <3>5. grants' \in [Requests -> Seq(0..MaxNow)]
      <4> DEFINE Times == 0..MaxNow
      <4>1. grants \in [Requests -> Seq(Times)] /\ now \in Times
        BY <1>0 DEF LimiterTypeOK
      <4>2. \/ grants' = [grants EXCEPT ![b[r]] = Append(grants[b[r]], now)]
            \/ grants' = grants
        BY <1>4 DEF Take
      <4> HIDE DEF Times
      <4>3. Append(grants[b[r]], now) \in Seq(Times) BY <2>1, <4>1
      <4>4. grants' \in [Requests -> Seq(Times)] BY <2>1, <4>1, <4>2, <4>3
      <4> QED BY <4>4 DEF Times
    <3> QED BY <1>0, <3>1, <3>2, <3>3, <3>4, <3>5 DEF LimiterTypeOK
  <2>5. OwnBucket' BY <1>0, <1>4 DEF Take, LimiterTypeOK, OwnBucket
  <2>6. Fresh'
    <3>1. ASSUME NEW q \in Requests, step'[q] \in {"lookup", "build"}
          PROVE  /\ step[q] \in {"lookup", "build"} /\ grants'[q] = grants[q]
                 /\ tokens'[q] = tokens[q]
      <4>1. step[q] \in {"lookup", "build"} /\ step[q] # "take"
        BY <1>0, <1>4, <3>1 DEF Take, LimiterTypeOK
      <4>2. q # b[r] BY <1>0, <4>1 DEF Fresh
      <4> QED BY <1>0, <1>4, <4>1, <4>2 DEF Take, LimiterTypeOK
    <3> QED BY <1>0, <1>4, <3>1 DEF Take, Fresh
  <2>7. Stamped' /\ Budget' /\ WindowBound' BY <1>4, TakeKeepsBudget
  <2> QED BY <2>4, <2>5, <2>6, <2>7 DEF LimiterInv
<1>5. CASE Tick
  <2>1. LimiterTypeOK' BY <1>0, <1>5 DEF Tick, LimiterTypeOK
  <2>2. OwnBucket' /\ Fresh' BY <1>0, <1>5 DEF Tick, OwnBucket, Fresh
  <2>3. Stamped' BY <1>0, <1>5 DEF Tick, LimiterTypeOK, Stamped
  <2>4. Budget' /\ WindowBound' BY <1>0, <1>5 DEF Tick, Budget, WindowBound
  <2> QED BY <2>1, <2>2, <2>3, <2>4 DEF LimiterInv
<1>6. CASE UNCHANGED limiterVars
  <2>1. LimiterTypeOK' BY <1>0, <1>6 DEF limiterVars, LimiterTypeOK
  <2>2. OwnBucket' /\ Fresh' /\ Stamped' /\ Budget' /\ WindowBound'
    BY <1>0, <1>6 DEF limiterVars, OwnBucket, Fresh, Stamped, Budget, WindowBound
  <2> QED BY <2>1, <2>2 DEF LimiterInv
<1> QED BY <1>1, <1>2, <1>3, <1>4, <1>5, <1>6 DEF LimiterNext, LimiterStep

THEOREM LimiterInvariant == LimiterSpec => []LimiterInv
BY LimiterInitially, LimiterStepInv, PTL DEF LimiterSpec

\* The types of the limiter's state.
THEOREM LimiterTyping == LimiterSpec => []LimiterTypeOK
BY LimiterInvariant, PTL DEF LimiterInv

\* No window of time sees more grants from a bucket than its capacity and the
\* refill in the window (TokenBucket.take).
THEOREM LimiterWindow == LimiterSpec => []WindowBound
BY LimiterInvariant, PTL DEF LimiterInv

\* Buckets are isolated per tenant, also through the race in _bucket.
THEOREM LimiterIsolation == LimiterSpec => []Isolated
<1>1. LimiterInv => Isolated BY DEF LimiterInv, OwnBucket, Isolated
<1> QED BY <1>1, LimiterInvariant, PTL

\* Once a tenant's first requests have left _bucket, its bucket is never
\* replaced.
THEOREM LimiterSettles == LimiterSpec => SettledForever
<1> DEFINE Kept == \A t \in Tenants : Settled(t) => Settled(t)' /\ buckets'[t] = buckets[t]
<1>1. LimiterInv /\ [LimiterNext]_limiterVars => [Kept]_limiterVars
  <2> SUFFICES ASSUME LimiterInv, LimiterNext, NEW t \in Tenants, Settled(t)
               PROVE  Settled(t)' /\ buckets'[t] = buckets[t]
    OBVIOUS
  <2> USE LimiterConstants
  <2>0. step \in [Requests -> Steps] /\ buckets \in [Tenants -> Requests \cup {NoBucket}]
    BY DEF LimiterInv, LimiterTypeOK
  <2>1. ASSUME NEW r \in Requests, Lookup(r) PROVE Settled(t)' /\ buckets'[t] = buckets[t]
    BY <2>0, <2>1 DEF Lookup, Settled
  <2>2. ASSUME NEW r \in Requests, Build(r) PROVE Settled(t)' /\ buckets'[t] = buckets[t]
    BY <2>0, <2>2 DEF Build, Settled
  <2>3. ASSUME NEW r \in Requests, Publish(r) PROVE Settled(t)' /\ buckets'[t] = buckets[t]
    BY <2>0, <2>3 DEF Publish, Settled
  <2>4. ASSUME NEW r \in Requests, Take(r) PROVE Settled(t)' /\ buckets'[t] = buckets[t]
    BY <2>0, <2>4 DEF Take, Settled
  <2>5. CASE Tick BY <2>5 DEF Tick, Settled
  <2> QED BY <2>1, <2>2, <2>3, <2>4, <2>5 DEF LimiterNext, LimiterStep
<1> QED BY <1>1, LimiterInvariant, PTL DEF LimiterSpec, SettledForever

(***************************************************************************)
(* The lazy bucket implements the eager one.                               *)
(***************************************************************************)

\* One tick adds one refill to what take() would compute, below the capacity.
LEMMA TickTopsUp ==
  ASSUME LimiterInv, Tick, NEW k \in Requests
  PROVE  Refilled(k)' = Capped(Refilled(k) + Refill)
<1>1. /\ tokens[k] \in 0..Cap /\ ts[k] \in 0..MaxNow /\ now \in 0..MaxNow
      /\ Cap \in Nat /\ MaxNow \in Nat /\ Refill \in Nat
      /\ now' = now + 1 /\ tokens' = tokens /\ ts' = ts
  BY LimiterConstants DEF LimiterInv, LimiterTypeOK, Tick
<1>2. /\ (now + 1 - ts[k]) * Refill = (now - ts[k]) * Refill + Refill
      /\ (now - ts[k]) * Refill \in Int
  <2>1. now \in Int /\ ts[k] \in Int /\ Refill \in Int BY <1>1
  <2>2. ASSUME NEW x \in Int, NEW y \in Int, NEW z \in Int
        PROVE  (x + 1 - y) * z = (x - y) * z + z /\ (x - y) * z \in Int
    BY Z3
  <2> QED BY <2>1, <2>2
<1> DEFINE p == (now - ts[k]) * Refill
<1>3. /\ Refilled(k) = Capped(tokens[k] + p) /\ p \in Int
      /\ Refilled(k)' = Capped(tokens[k] + (p + Refill))
  <2>1. Refilled(k)' = Capped(tokens[k] + (now + 1 - ts[k]) * Refill)
    BY <1>1 DEF Refilled, Capped
  <2>2. (now + 1 - ts[k]) * Refill = p + Refill BY <1>2
  <2>3. Refilled(k)' = Capped(tokens[k] + (p + Refill)) BY <2>1, <2>2
  <2> QED BY <1>2, <2>3 DEF Refilled
<1> HIDE DEF p
<1> QED BY <1>1, <1>3 DEF Capped

\* A bucket stamped with the current time holds its tokens, no more, no less.
LEMMA JustStamped ==
  ASSUME NEW x \in 0..Cap, NEW t \in Int
  PROVE  Capped(x + (t - t) * Refill) = x
<1>1. Cap \in Nat /\ Refill \in Nat BY LimiterConstants
<1>2. (t - t) * Refill = 0 BY <1>1
<1>3. x + (t - t) * Refill = x BY <1>1, <1>2
<1> QED BY <1>1, <1>3 DEF Capped

\* RateLimiter implements EagerBucket: take() answers as a bucket refilled at
\* every tick would.
THEOREM LimiterRefinement == LimiterSpec => ImplementsEagerBucket
<1> USE LimiterConstants
<1> DEFINE lev == [k \in Requests |-> Refilled(k)]
           ans == [r \in Requests |-> IF step[r] \in {"granted", "refused"}
                                      THEN step[r] ELSE "none"]
<1>1. LimiterInit => Eager!Init
  <2> SUFFICES ASSUME LimiterInit PROVE Eager!Init
    OBVIOUS
  <2>1. \A k \in Requests : Refilled(k) = Cap
    BY JustStamped DEF LimiterInit, Refilled
  <2> QED BY <2>1 DEF LimiterInit, Eager!Init
<1>2. LimiterInv /\ [LimiterNext]_limiterVars => [Eager!Next]_(Eager!eagerVars)
  <2> SUFFICES ASSUME LimiterInv, [LimiterNext]_limiterVars
               PROVE  Eager!Next \/ UNCHANGED <<lev, ans>>
    BY DEF Eager!eagerVars
  <2>0. LimiterTypeOK /\ OwnBucket /\ Fresh /\ Stamped BY DEF LimiterInv
  <2>1. ASSUME NEW r \in Requests, Lookup(r) PROVE UNCHANGED <<lev, ans>>
    BY <2>0, <2>1 DEF Lookup, Refilled, LimiterTypeOK
  <2>2. ASSUME NEW r \in Requests, Build(r) PROVE UNCHANGED <<lev, ans>>
    <3>1. tokens[r] = Cap /\ tokens' = [tokens EXCEPT ![r] = Cap] /\ now' = now
          /\ ts' = [ts EXCEPT ![r] = now] /\ ts[r] <= now /\ ts[r] \in Int /\ now \in Int
      BY <2>0, <2>2 DEF Build, Fresh, Stamped, LimiterTypeOK
    <3>2. Refilled(r)' = Cap
      <4>1. tokens'[r] = Cap /\ ts'[r] = now BY <2>0, <3>1 DEF LimiterTypeOK
      <4>2. Refilled(r)' = Capped(Cap + (now - now) * Refill)
        BY <3>1, <4>1 DEF Refilled, Capped
      <4> QED BY <3>1, <4>2, JustStamped
    <3>3. Refilled(r) = Cap
      <4>1. (now - ts[r]) * Refill >= 0 /\ (now - ts[r]) * Refill \in Int
        BY <3>1, RefillAdds, Products
      <4> DEFINE p == (now - ts[r]) * Refill
      <4>2. Refilled(r) = Capped(Cap + p) BY <3>1 DEF Refilled
      <4>3. p >= 0 /\ p \in Int BY <4>1
      <4> HIDE DEF p
      <4> QED BY <4>2, <4>3 DEF Capped
    <3>4. ASSUME NEW q \in Requests, q # r PROVE Refilled(q)' = Refilled(q)
      <4>1. tokens'[q] = tokens[q] /\ ts'[q] = ts[q]
        BY <2>0, <3>1, <3>4 DEF LimiterTypeOK
      <4> QED BY <3>1, <4>1 DEF Refilled, Capped
    <3>5. UNCHANGED lev BY <3>2, <3>3, <3>4
    <3>6. UNCHANGED ans BY <2>0, <2>2 DEF Build, LimiterTypeOK
    <3> QED BY <3>5, <3>6
  <2>3. ASSUME NEW r \in Requests, Publish(r) PROVE UNCHANGED <<lev, ans>>
    BY <2>0, <2>3 DEF Publish, Refilled, LimiterTypeOK
  <2>4. ASSUME NEW r \in Requests, Take(r) PROVE Eager!Next
    <3>0. PICK k \in Requests : k = b[r]
      BY <2>0, <2>4 DEF Take, OwnBucket
    <3>1. Refilled(k) \in 0..Cap /\ now \in Int
      BY <2>0, RefilledType DEF Stamped, LimiterTypeOK
    <3>2. /\ ts' = [ts EXCEPT ![k] = now] /\ now' = now
          /\ ans[r] = "none" /\ step[r] = "take"
      BY <2>4, <3>0 DEF Take
    <3>3. ASSUME NEW q \in Requests, q # k, NEW x, tokens' = [tokens EXCEPT ![k] = x]
          PROVE  Refilled(q)' = Refilled(q)
      <4>1. tokens'[q] = tokens[q] /\ ts'[q] = ts[q]
        BY <2>0, <3>2, <3>3 DEF LimiterTypeOK
      <4> QED BY <3>2, <4>1 DEF Refilled, Capped
    <3>4. ASSUME NEW x \in 0..Cap, tokens' = [tokens EXCEPT ![k] = x]
          PROVE  lev' = [lev EXCEPT ![k] = x]
      <4>1. tokens'[k] = x /\ ts'[k] = now
        BY <2>0, <3>1, <3>2, <3>4 DEF LimiterTypeOK
      <4>2. Refilled(k)' = Capped(x + (now - now) * Refill)
        BY <3>2, <4>1 DEF Refilled, Capped
      <4>3. Refilled(k)' = x BY <3>1, <4>2, JustStamped
      <4> QED BY <3>3, <3>4, <4>3
    <3>5. CASE Refilled(k) >= Unit /\ tokens' = [tokens EXCEPT ![k] = Refilled(k) - Unit]
               /\ step' = [step EXCEPT ![r] = "granted"]
      <4>1. Refilled(k) - Unit \in 0..Cap
        <5> DEFINE f == Refilled(k)
        <5>1. f \in 0..Cap /\ f >= Unit BY <3>1, <3>5
        <5> HIDE DEF f
        <5>2. f - Unit \in 0..Cap BY <5>1
        <5> QED BY <5>2 DEF f
      <4>2. lev' = [lev EXCEPT ![k] = Refilled(k) - Unit] BY <3>4, <3>5, <4>1
      <4>3. ans' = [ans EXCEPT ![r] = "granted"]
        BY <2>0, <3>5 DEF LimiterTypeOK
      <4>4. lev[k] = Refilled(k) BY <3>1
      <4> QED BY <3>1, <3>2, <3>5, <4>2, <4>3, <4>4 DEF Eager!Next, Eager!Grant
    <3>6. CASE Refilled(k) < Unit /\ tokens' = [tokens EXCEPT ![k] = Refilled(k)]
               /\ step' = [step EXCEPT ![r] = "refused"]
      <4>1. lev' = [lev EXCEPT ![k] = Refilled(k)] BY <3>1, <3>4, <3>6
      <4>2. lev[k] = Refilled(k) /\ lev' = lev BY <3>1, <4>1
      <4>3. ans' = [ans EXCEPT ![r] = "refused"]
        BY <2>0, <3>6 DEF LimiterTypeOK
      <4> QED BY <3>1, <3>2, <3>6, <4>2, <4>3 DEF Eager!Next, Eager!Refuse
    <3> QED BY <2>4, <3>0, <3>5, <3>6 DEF Take
  <2>5. CASE Tick
    <3>1. \A k \in Requests : Refilled(k)' = Capped(Refilled(k) + Refill)
      BY <2>5, TickTopsUp
    <3>2. lev' = [k \in Requests |-> Eager!CappedAt(lev[k] + Refill)]
      BY <3>1 DEF Capped, Eager!CappedAt
    <3>3. UNCHANGED ans BY <2>5 DEF Tick
    <3> QED BY <3>2, <3>3 DEF Eager!Next, Eager!TopUp
  <2>6. CASE UNCHANGED limiterVars BY <2>6 DEF limiterVars, Refilled
  <2> QED BY <2>1, <2>2, <2>3, <2>4, <2>5, <2>6 DEF LimiterNext, LimiterStep
<1> QED BY <1>1, <1>2, LimiterInvariant, PTL
      DEF LimiterSpec, ImplementsEagerBucket, Eager!Spec
=============================================================================

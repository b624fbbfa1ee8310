---------------------------- MODULE LoginProofs -----------------------------
(***************************************************************************)
(* The two things that guard a login, each for every value of its          *)
(* constants: first the limits on how often one may try (Throttle), then the *)
(* login through Hydra's challenges (Bridge).                              *)
(***************************************************************************)
EXTENDS Bridge, Throttle, SequenceTheorems, FiniteSetTheorems, TLAPS

-----------------------------------------------------------------------------
(***************************************************************************)
(* The limits on logins, for any number of keys and concurrent logins and  *)
(* any settings.                                                           *)
(***************************************************************************)

Places == {"idle", "expire", "ttl", "is_locked", "authenticate"}

\* Lists of ages, oldest first, and which of them a window leaves behind.
Sorted(s) == \A i, j \in DOMAIN s : i < j => s[i] >= s[j]
Ages(window) == {s \in Seq(0..(2 * window + 1)) : Sorted(s)}
Old(s, window) == {i \in DOMAIN s : s[i] >= window}

-----------------------------------------------------------------------------
(***************************************************************************)
(* Lists of stamps.                                                        *)
(***************************************************************************)

\* The old stamps of a list are its first ones, and there are as many of them
\* as their number says.
LEMMA OldComeFirst ==
    ASSUME NEW w \in Nat, NEW s \in Ages(w)
    PROVE  /\ Cardinality(Old(s, w)) \in 0..Len(s) /\ IsFiniteSet(Old(s, w))
           /\ \A i \in 1..Len(s) : s[i] >= w <=> i <= Cardinality(Old(s, w))
<1> DEFINE O == Old(s, w)
           n == Cardinality(O)
<1>1. Len(s) \in Nat /\ DOMAIN s = 1..Len(s) /\ Sorted(s)
  BY DEF Ages
<1>2. \A i \in 1..Len(s) : s[i] \in Nat
  BY DEF Ages
<1>3. /\ \A j \in 0..Len(s) : IsFiniteSet(1..j) /\ Cardinality(1..j) = j
  BY <1>1, FS_Interval
<1>4. IsFiniteSet(O) /\ n \in Nat /\ n <= Len(s)
  <2>1. IsFiniteSet(1..Len(s)) /\ Cardinality(1..Len(s)) = Len(s) /\ O \subseteq 1..Len(s)
    BY <1>1, <1>3 DEF Old
  <2> QED
    BY <2>1, FS_Subset, FS_CardinalityType
<1>5. ASSUME NEW j \in O PROVE j \in 1..n
  <2>1. j \in 1..Len(s) /\ 1..j \subseteq O
    <3>1. j \in 1..Len(s) /\ s[j] >= w
      BY <1>1 DEF Old
    <3>2. ASSUME NEW i \in 1..j PROVE i \in 1..Len(s) /\ s[i] >= w
      <4>1. i \in 1..Len(s) /\ (i = j \/ i < j)
        BY <1>1, <3>1
      <4>2. i < j => s[i] >= s[j]
        BY <1>1, <3>1, <4>1 DEF Sorted
      <4> QED
        BY <1>2, <3>1, <4>1, <4>2
    <3> QED
      BY <1>1, <3>1, <3>2 DEF Old
  <2>2. Cardinality(1..j) <= n
    BY <1>4, <2>1, FS_Subset
  <2> QED
    BY <1>1, <1>3, <1>4, <2>1, <2>2
<1>6. O = 1..n
  <2>1. IsFiniteSet(1..n) /\ Cardinality(1..n) = n
    BY <1>1, <1>3, <1>4
  <2>2. O \subseteq 1..n
    BY <1>5
  <2> HIDE DEF O
  <2> QED
    BY <2>1, <2>2, FS_Subset
<1>7. ASSUME NEW i \in 1..Len(s) PROVE s[i] >= w <=> i <= n
  <2>1. i \in O <=> s[i] >= w
    BY <1>1 DEF Old
  <2> HIDE DEF O, n
  <2> QED
    BY <1>1, <1>4, <1>6, <2>1
<1> QED
  BY <1>1, <1>4, <1>7

\* Recent is the filter of the code: it drops the stamps that left the window
\* and keeps the others in their order.
LEMMA RecentFacts ==
    ASSUME NEW w \in Nat, NEW s \in Ages(w)
    PROVE  /\ Recent(s, w) \in Ages(w)
           /\ Len(Recent(s, w)) = Len(s) - Cardinality(Old(s, w))
           /\ \A i \in 1..Len(Recent(s, w)) :
                 Recent(s, w)[i] = s[i + Cardinality(Old(s, w))] /\ Recent(s, w)[i] < w
<1> DEFINE n == Cardinality(Old(s, w))
           R == SubSeq(s, n + 1, Len(s))
<1>1. n \in 0..Len(s) /\ \A i \in 1..Len(s) : s[i] >= w <=> i <= n
  BY OldComeFirst
<1>2. Len(s) \in Nat /\ DOMAIN s = 1..Len(s) /\ Sorted(s) /\ s \in Seq(0..(2 * w + 1))
  BY DEF Ages
<1>3. \A i \in 1..Len(s) : s[i] \in 0..(2 * w + 1)
  BY <1>2
<1>4. Recent(s, w) = R
  BY DEF Recent, Old
<1> HIDE DEF n
<1>5. /\ R \in Seq(0..(2 * w + 1)) /\ Len(R) = Len(s) - n /\ DOMAIN R = 1..(Len(s) - n)
      /\ \A i \in 1..(Len(s) - n) : R[i] = s[i + n]
  <2>1. \A l, m \in Nat : m \in 0..l =>
           /\ m + 1 \in 1..(l + 1) /\ l \in (m + 1) - 1 .. l /\ l - (m + 1) + 1 = l - m
           /\ \A i \in 1..(l - m) : (m + 1) + i - 1 = i + m
    OBVIOUS
  <2>2. n \in Nat
    BY <1>1, <1>2
  <2>3. /\ n + 1 \in 1..(Len(s) + 1) /\ Len(s) \in (n + 1) - 1 .. Len(s)
        /\ Len(s) - (n + 1) + 1 = Len(s) - n
        /\ \A i \in 1..(Len(s) - n) : (n + 1) + i - 1 = i + n
    BY ONLY <1>1, <1>2, <2>1, <2>2
  <2>4. /\ R \in Seq(0..(2 * w + 1)) /\ Len(R) = Len(s) - (n + 1) + 1
        /\ \A i \in 1..(Len(s) - (n + 1) + 1) : R[i] = s[(n + 1) + i - 1]
    <3>0. \A l, m \in Nat : m \in 0..l =>
             m + 1 \in Int /\ l \in Int /\ (m + 1 <= l \/ l - (m + 1) + 1 = 0)
      OBVIOUS
    <3>1. n + 1 \in Int /\ Len(s) \in Int /\ (n + 1 <= Len(s) \/ Len(s) - (n + 1) + 1 = 0)
      BY ONLY <1>1, <1>2, <2>2, <3>0
    <3>2. \A i \in (n + 1)..Len(s) : s[i] \in 0..(2 * w + 1)
      BY <1>2, <1>3, <2>2
    <3>3. /\ R \in Seq(0..(2 * w + 1))
          /\ Len(R) = IF n + 1 <= Len(s) THEN Len(s) - (n + 1) + 1 ELSE 0
          /\ \A i \in 1..(Len(s) - (n + 1) + 1) : R[i] = s[(n + 1) + i - 1]
      BY ONLY <3>1, <3>2, SubSeqProperties
    <3> HIDE DEF R
    <3> QED
      BY <3>1, <3>3
  <2> HIDE DEF R
  <2>5. DOMAIN R = 1..Len(R)
    BY <2>4
  <2> QED
    BY <2>3, <2>4, <2>5
<1> HIDE DEF R
<1>6. \A i \in 1..(Len(s) - n) : i + n \in 1..Len(s) /\ i + n > n
  BY <1>1, <1>2
<1>7. ASSUME NEW i \in 1..(Len(s) - n) PROVE R[i] < w
  <2>1. i + n \in 1..Len(s) /\ ~(i + n <= n) /\ R[i] = s[i + n]
    BY <1>1, <1>2, <1>5, <1>6
  <2>2. ~(s[i + n] >= w) /\ s[i + n] \in 0..(2 * w + 1)
    BY ONLY <1>1, <1>3, <2>1
  <2>3. \A x \in 0..(2 * w + 1) : ~(x >= w) => x < w
    OBVIOUS
  <2> QED
    BY ONLY <2>1, <2>2, <2>3
<1>8. ASSUME NEW i \in DOMAIN R, NEW j \in DOMAIN R, i < j PROVE R[i] >= R[j]
  <2>1. i \in 1..(Len(s) - n) /\ j \in 1..(Len(s) - n) /\ n \in Nat
    BY <1>1, <1>2, <1>5
  <2>2. R[i] = s[i + n] /\ R[j] = s[j + n] /\ i + n \in 1..Len(s) /\ j + n \in 1..Len(s)
    BY <1>5, <1>6, <2>1
  <2>3. i + n < j + n
    BY <1>2, <1>8, <2>1
  <2> QED
    BY <1>2, <2>2, <2>3 DEF Sorted
<1>9. R \in Ages(w)
  BY <1>5, <1>8 DEF Ages, Sorted
<1> QED
  BY <1>4, <1>5, <1>7, <1>9 DEF n

\* Consequences: nothing is dropped from a list without old stamps, something
\* from one that begins with an old stamp, and everything only if all are old.
LEMMA RecentLengths ==
    ASSUME NEW w \in Nat, NEW s \in Ages(w)
    PROVE  /\ Len(Recent(s, w)) \in 0..Len(s)
           /\ (\A i \in 1..Len(s) : s[i] < w) => Len(Recent(s, w)) = Len(s)
           /\ s # <<>> /\ s[1] >= w => Len(Recent(s, w)) < Len(s)
           /\ Recent(s, w) # <<>> => \E i \in DOMAIN s : s[i] < w
           /\ Len(Recent(Recent(s, w), w)) = Len(Recent(s, w))
<1>1. Len(s) \in Nat /\ DOMAIN s = 1..Len(s) /\ (s # <<>> => Len(s) > 0)
      /\ \A i \in 1..Len(s) : s[i] \in 0..(2 * w + 1)
  BY DEF Ages
<1>2. Cardinality(Old(s, w)) \in 0..Len(s)
  BY OldComeFirst
<1>3. Len(Recent(s, w)) \in 0..Len(s)
  BY <1>1, <1>2, RecentFacts
<1>4. ASSUME NEW t \in Ages(w), \A i \in 1..Len(t) : t[i] < w PROVE Len(Recent(t, w)) = Len(t)
  <2>1. DOMAIN t = 1..Len(t) /\ \A i \in 1..Len(t) : t[i] \in 0..(2 * w + 1)
    BY DEF Ages
  <2>2. Old(t, w) = {}
    BY <1>4, <2>1 DEF Old
  <2>3. Cardinality(Old(t, w)) = 0
    BY <2>2, FS_EmptySet
  <2>4. Len(t) \in Nat
    BY DEF Ages
  <2> QED
    BY <2>3, <2>4, RecentFacts
<1>5. ASSUME s # <<>>, s[1] >= w PROVE Len(Recent(s, w)) < Len(s)
  <2>1. 1 \in 1..Len(s)
    BY <1>1, <1>5
  <2>2. 1 <= Cardinality(Old(s, w))
    BY <1>5, <2>1, OldComeFirst
  <2>3. Len(Recent(s, w)) = Len(s) - Cardinality(Old(s, w))
    BY RecentFacts
  <2> QED
    BY ONLY <1>1, <1>2, <2>2, <2>3
<1>6. ASSUME Recent(s, w) # <<>> PROVE \E i \in DOMAIN s : s[i] < w
  <2>1. SUFFICES ASSUME \A i \in 1..Len(s) : s[i] >= w PROVE FALSE
    BY <1>1
  <2>2. Len(Recent(s, w)) # 0 /\ Len(Recent(s, w)) = Len(s) - Cardinality(Old(s, w))
    BY <1>6, RecentFacts DEF Ages
  <2>3. \A i \in 1..Len(s) : i <= Cardinality(Old(s, w))
    BY <2>1, OldComeFirst
  <2> QED
    BY ONLY <1>1, <1>2, <2>2, <2>3
<1>7. Len(Recent(Recent(s, w), w)) = Len(Recent(s, w))
  BY <1>4, RecentFacts
<1> QED
  BY <1>3, <1>4, <1>5, <1>6, <1>7

\* A stamp of now is added at the end: it counts, and nothing else changes.
LEMMA AppendNow ==
    ASSUME NEW w \in Nat \ {0}, NEW s \in Ages(w)
    PROVE  /\ Append(s, 0) \in Ages(w) /\ Len(Append(s, 0)) = Len(s) + 1
           /\ s # <<>> => Append(s, 0)[1] = s[1]
           /\ Len(Recent(Append(s, 0), w)) = Len(Recent(s, w)) + 1
<1> DEFINE t == Append(s, 0)
<1>1. /\ Len(s) \in Nat /\ DOMAIN s = 1..Len(s) /\ s \in Seq(0..(2 * w + 1)) /\ Sorted(s)
      /\ (s # <<>> => Len(s) > 0) /\ \A i \in 1..Len(s) : s[i] \in 0..(2 * w + 1)
  BY DEF Ages
<1>2. 0 \in 0..(2 * w + 1)
  OBVIOUS
<1>3. /\ t \in Seq(0..(2 * w + 1)) /\ Len(t) = Len(s) + 1
      /\ \A i \in 1..Len(s) : t[i] = s[i] /\ t[Len(s) + 1] = 0
  BY <1>1, <1>2, AppendProperties
<1>4. DOMAIN t = 1..(Len(s) + 1) /\ t[Len(s) + 1] = 0
  BY <1>1, <1>2, <1>3, AppendProperties
<1> HIDE DEF t
<1>5. ASSUME NEW i \in DOMAIN t, NEW j \in DOMAIN t, i < j PROVE t[i] >= t[j]
  <2>1. i \in 1..Len(s) /\ t[i] = s[i]
    BY <1>1, <1>3, <1>4, <1>5
  <2>2. CASE j = Len(s) + 1
    BY <1>1, <1>4, <2>1, <2>2
  <2>3. CASE j # Len(s) + 1
    <3>1. j \in 1..Len(s) /\ t[j] = s[j]
      BY <1>1, <1>3, <1>4, <2>3
    <3> QED
      BY <1>1, <1>5, <2>1, <3>1 DEF Sorted
  <2> QED
    BY <2>2, <2>3
<1>6. t \in Ages(w)
  BY <1>3, <1>5 DEF Ages, Sorted
<1>7. Old(t, w) = Old(s, w)
  <2>1. ~(t[Len(s) + 1] >= w)
    BY <1>4
  <2>2. ASSUME NEW i \in DOMAIN t, t[i] >= w PROVE i \in 1..Len(s)
    BY <1>1, <1>4, <2>1, <2>2
  <2> QED
    BY <1>1, <1>3, <1>4, <2>2 DEF Old
<1>8. Cardinality(Old(s, w)) \in 0..Len(s)
  BY OldComeFirst
<1>9. Len(Recent(t, w)) = Len(Recent(s, w)) + 1
  <2>1. Len(Recent(t, w)) = (Len(s) + 1) - Cardinality(Old(s, w))
    BY <1>3, <1>6, <1>7, RecentFacts
  <2>2. Len(Recent(s, w)) = Len(s) - Cardinality(Old(s, w))
    BY RecentFacts
  <2> QED
    BY ONLY <1>1, <1>8, <2>1, <2>2
<1> QED
  BY <1>1, <1>3, <1>6, <1>9 DEF t

\* Time passes: the list stays in order, and no stamp enters the window.
LEMMA AgesGrow ==
    ASSUME NEW w \in Nat, NEW s \in Ages(w), NEW t,
           t = [i \in DOMAIN s |-> Least(s[i] + 1, 2 * w + 1)]
    PROVE  /\ t \in Ages(w) /\ Len(t) = Len(s)
           /\ Len(Recent(t, w)) <= Len(Recent(s, w))
           /\ \A i \in 1..Len(s) : t[i] >= s[i] /\ (t[i] >= w \/ t[i] = s[i] + 1)
<1>1. /\ Len(s) \in Nat /\ DOMAIN s = 1..Len(s) /\ Sorted(s)
      /\ \A i \in 1..Len(s) : s[i] \in 0..(2 * w + 1)
  BY DEF Ages
<1>2. \A x \in 0..(2 * w + 1) :
         /\ Least(x + 1, 2 * w + 1) \in 0..(2 * w + 1) /\ Least(x + 1, 2 * w + 1) >= x
         /\ Least(x + 1, 2 * w + 1) >= w \/ Least(x + 1, 2 * w + 1) = x + 1
         /\ \A y \in 0..(2 * w + 1) : x >= y => Least(x + 1, 2 * w + 1) >= Least(y + 1, 2 * w + 1)
  BY DEF Least
<1>3. \A i \in 1..Len(s) : t[i] = Least(s[i] + 1, 2 * w + 1) /\ t[i] \in 0..(2 * w + 1)
  BY <1>1, <1>2
<1>4. t \in Seq(0..(2 * w + 1)) /\ Len(t) = Len(s) /\ DOMAIN t = 1..Len(s)
  <2>1. t \in [1..Len(s) -> 0..(2 * w + 1)]
    BY <1>1, <1>3
  <2>2. t \in Seq(0..(2 * w + 1))
    BY <1>1, <2>1, SeqDef
  <2> QED
    BY <1>1, <2>1, <2>2, LenProperties
<1>5. Sorted(t)
  BY <1>1, <1>2, <1>3, <1>4 DEF Sorted
<1>6. t \in Ages(w)
  BY <1>4, <1>5 DEF Ages
<1>7. \A i \in 1..Len(s) : t[i] >= s[i] /\ (t[i] >= w \/ t[i] = s[i] + 1)
  BY <1>1, <1>2, <1>3
<1>8. Old(s, w) \subseteq Old(t, w)
  <2>1. \A x, y \in 0..(2 * w + 1) : x >= w /\ y >= x => y >= w
    OBVIOUS
  <2> QED
    BY <1>1, <1>3, <1>4, <1>7, <2>1 DEF Old
<1>9. /\ Cardinality(Old(s, w)) <= Cardinality(Old(t, w)) /\ IsFiniteSet(Old(t, w))
      /\ Cardinality(Old(s, w)) \in 0..Len(s) /\ Cardinality(Old(t, w)) \in 0..Len(t)
  BY <1>6, <1>8, OldComeFirst, FS_Subset
<1>10. Len(Recent(t, w)) = Len(s) - Cardinality(Old(t, w))
       /\ Len(Recent(s, w)) = Len(s) - Cardinality(Old(s, w))
  BY <1>4, <1>6, RecentFacts
<1>11. Len(Recent(t, w)) <= Len(Recent(s, w))
  BY ONLY <1>1, <1>4, <1>9, <1>10
<1> QED
  BY <1>4, <1>6, <1>7, <1>11

\* The empty list.
LEMMA NoStamps ==
    ASSUME NEW w \in Nat
    PROVE  <<>> \in Ages(w) /\ Len(Recent(<<>>, w)) = 0
<1>1. <<>> \in Ages(w)
  BY DEF Ages, Sorted
<1> QED
  BY <1>1, RecentLengths
-----------------------------------------------------------------------------
(***************************************************************************)
(* The inductive invariant.                                                *)
(***************************************************************************)
Ordered(store, window) ==
    /\ DOMAIN store \subseteq Keys /\ IsFiniteSet(DOMAIN store)
    /\ \A k \in DOMAIN store : store[k] \in Ages(window)

\* The dictionaries in memory.  A bucket never holds more than max_requests
\* stamps: one is added only where fewer are in the window.
MemoryInv ==
    /\ Ordered(buckets, window_seconds) /\ Ordered(attempts, lockout_seconds)
    /\ \A k \in DOMAIN buckets : Len(buckets[k]) <= max_requests
    /\ {rateIdle, lockIdle} \subseteq 0..cleanup_interval_seconds
    /\ backend = "redis" => buckets = Empty /\ attempts = Empty

\* The counters in Redis.  A failure counter has a life for as long as it
\* counts; a request counter gets one only after its first INCR.
RedisInv ==
    /\ hits \in [Keys -> 0..(max_requests + 1)] /\ hitsTtl \in [Keys -> 0..window_seconds]
    /\ fails \in [Keys -> Nat] /\ failsTtl \in [Keys -> 0..lockout_seconds]
    /\ \A k \in Keys : fails[k] > 0 <=> failsTtl[k] > 0
    /\ \A k \in Keys : hits[k] = 0 => hitsTtl[k] = 0
    /\ backend = "memory" => \A k \in Keys : hits[k] = 0 /\ fails[k] = 0

\* A login under way has one key.
LoginInv ==
    /\ backend \in {"memory", "redis"}
    /\ pc \in [Logins -> Places] /\ target \in [Logins -> SUBSET Keys]
    /\ \A r \in Logins : pc[r] = "idle" => target[r] = {}
    /\ \A r \in Logins : pc[r] # "idle" => \E k \in Keys : target[r] = {k}
    /\ backend = "memory" => \A r \in Logins : pc[r] \in {"idle", "authenticate"}
    /\ refused \subseteq {r \in Logins : pc[r] = "ttl"}

\* Who owes the EXPIRE of a counter: one login, and the counter has no life.
Owes(r, k) == pc[r] = "expire" /\ k \in target[r]
ExpireInv ==
    /\ orphaned \subseteq Keys
    /\ \A k \in Keys : hitsTtl[k] = 0 /\ hits[k] > 0 => k \in orphaned \/ \E r \in Logins : Owes(r, k)
    /\ \A k \in Keys, r \in Logins : Owes(r, k) => hits[k] > 0 /\ hitsTtl[k] = 0
    /\ \A k \in Keys, r, q \in Logins : Owes(r, k) /\ Owes(q, k) => r = q

\* What reset_at and its slack promise is kept.  In memory there is no slack,
\* and the oldest stamp leaves the window no later; in Redis, the counter ends
\* at that very moment.
Keeps(k, t) ==
    /\ backend = "memory" /\ k \in DOMAIN buckets /\ buckets[k] # <<>> =>
          buckets[k][1] + t >= window_seconds
    /\ backend = "redis" => t = hitsTtl[k] /\ (t = 0 => hits[k] = 0)
Promises == [left : 0..window_seconds, slack : 0..window_seconds]
Kept(k, p) == Keeps(k, Until(p)) /\ (backend = "memory" => p.slack = 0)
PromiseInv ==
    /\ promised \in [Keys -> SUBSET Promises]
    /\ \A k \in Keys : \A p \in promised[k] : Kept(k, p)
    /\ \A k \in Keys, r \in Logins : Owes(r, k) => promised[k] = {}
    /\ misled = {}

\* How long ago a refused login read the clock; nobody else's time counts.
SlackInv ==
    /\ elapsed \in [Logins -> 0..window_seconds]
    /\ \A r \in Logins \ refused : elapsed[r] = 0

\* Logins past the lockout check, which may yet count a failure.
Guessing(k) == {r \in Logins : pc[r] = "authenticate" /\ k \in target[r]}
GuessInv ==
    \A k \in Keys : Failures(k) + Cardinality(Guessing(k)) < max_login_attempts + Cardinality(Logins)

ThrottleInv == MemoryInv /\ RedisInv /\ LoginInv /\ ExpireInv /\ PromiseInv /\ SlackInv /\ GuessInv
-----------------------------------------------------------------------------
(***************************************************************************)
(* Dictionaries of stamps, requests and counts.                            *)
(***************************************************************************)

\* The settings are positive numbers.
LEMMA Settings ==
    /\ max_requests \in Nat \ {0} /\ window_seconds \in Nat \ {0}
    /\ max_login_attempts \in Nat \ {0} /\ lockout_seconds \in Nat \ {0}
    /\ cleanup_interval_seconds \in Nat \ {0} /\ max_keys \in Nat \ {0}
    /\ IsFiniteSet(Logins) /\ Cardinality(Logins) \in Nat
BY ThrottleAssumption, FS_CardinalityType

\* What is looked up in an ordered dictionary is a list in order.
LEMMA LookUp ==
    ASSUME NEW w \in Nat, NEW store, Ordered(store, w), NEW k
    PROVE  /\ Stamps(store, k) \in Ages(w)
           /\ k \in DOMAIN store => Stamps(store, k) = store[k]
           /\ k \notin DOMAIN store => Stamps(store, k) = <<>>
BY NoStamps DEF Ordered, Stamps

\* Some keys of a dictionary are kept.
LEMMA OnlySome ==
    ASSUME NEW w \in Nat, NEW store, Ordered(store, w), NEW S \in SUBSET DOMAIN store
    PROVE  /\ Ordered(Only(store, S), w) /\ DOMAIN Only(store, S) = S
           /\ \A k \in S : Only(store, S)[k] = store[k]
<1>1. DOMAIN Only(store, S) = S /\ \A k \in S : Only(store, S)[k] = store[k]
  BY DEF Only
<1>2. IsFiniteSet(S)
  BY FS_Subset DEF Ordered
<1> QED
  BY <1>1, <1>2 DEF Ordered

\* A list in order is stored.
LEMMA PutOrdered ==
    ASSUME NEW w \in Nat, NEW store, Ordered(store, w), NEW k \in Keys, NEW a \in Ages(w)
    PROVE  Ordered(Put(store, k, a), w)
<1>1. IsFiniteSet(DOMAIN store \cup {k})
  BY FS_AddElement DEF Ordered
<1> QED
  BY <1>1 DEF Ordered, Put

\* The clean-up keeps lists as they are, and a key that counts unless there
\* are more than max_keys young ones.
LEMMA CleanUp ==
    ASSUME NEW w \in Nat, NEW store, Ordered(store, w), NEW idle,
           NEW B \in _maybe_cleanup(store, idle, w)
    PROVE  /\ Ordered(B, w) /\ DOMAIN B \subseteq DOMAIN store
           /\ \A k \in DOMAIN B : B[k] = store[k]
           /\ Counting(store, w) \subseteq DOMAIN B \/ Cardinality(Young(store, w)) > max_keys
<1>1. CASE B = store
  BY <1>1 DEF Counting
<1> DEFINE Y == Young(store, w)
<1>2. CASE B # store
  <2>1. Y \in SUBSET DOMAIN store
    BY DEF Young
  <2>2. B \in Evicted(Only(store, Y))
    BY <1>2 DEF _maybe_cleanup, Young
  <2>3. /\ Ordered(Only(store, Y), w) /\ DOMAIN Only(store, Y) = Y
        /\ \A k \in Y : Only(store, Y)[k] = store[k]
    BY <2>1, OnlySome
  <2> HIDE DEF Y
  <2>4. CASE Cardinality(Y) <= max_keys
    <3>1. B = Only(store, Y)
      BY <2>2, <2>3, <2>4 DEF Evicted
    <3>2. ASSUME NEW k \in Counting(store, w) PROVE k \in Y
      <4>1. k \in DOMAIN store /\ store[k] \in Ages(w) /\ Recent(store[k], w) # <<>>
        BY DEF Counting, Ordered
      <4>2. PICK i \in DOMAIN store[k] : store[k][i] < w
        BY <4>1, RecentLengths
      <4>3. store[k][i] \in 0..(2 * w + 1)
        BY <4>1, <4>2 DEF Ages
      <4>4. \A x \in 0..(2 * w + 1) : x < w => x <= 2 * w
        OBVIOUS
      <4> QED
        BY <4>1, <4>2, <4>3, <4>4 DEF Y, Young
    <3> QED
      BY <2>1, <2>3, <3>1, <3>2
  <2>5. CASE ~(Cardinality(Y) <= max_keys)
    <3>1. PICK S \in SUBSET Y : B = Only(Only(store, Y), S)
      BY <2>2, <2>3, <2>5 DEF Evicted
    <3>2. /\ Ordered(B, w) /\ DOMAIN B = S
          /\ \A k \in S : B[k] = Only(store, Y)[k]
      BY <2>3, <3>1, OnlySome
    <3>3. Cardinality(Y) \in Nat
      BY <2>3, FS_CardinalityType DEF Ordered
    <3>4. Cardinality(Y) > max_keys
      BY <2>5, <3>3, Settings
    <3> QED
      BY <2>1, <2>3, <3>1, <3>2, <3>4 DEF Y
  <2> QED
    BY <2>4, <2>5
<1> QED
  BY <1>1, <1>2

\* How long ago the last clean-up was stays within its bound.
LEMMA IdleTimes ==
    ASSUME NEW idle \in 0..cleanup_interval_seconds
    PROVE  /\ Cleaned(idle) \in 0..cleanup_interval_seconds
           /\ Least(idle + 1, cleanup_interval_seconds) \in 0..cleanup_interval_seconds
BY Settings DEF Cleaned, Least

\* A promise, and what a moment later is left of it.
LEMMA PromiseFacts ==
    ASSUME NEW left \in 0..window_seconds, NEW slack \in 0..window_seconds
    PROVE  /\ Promise(left, slack) \in Promises
           /\ Promise(left, slack).left = left /\ Promise(left, slack).slack = slack
           /\ Until(Promise(left, slack)) = left + slack
BY DEF Promise, Promises, Until

\* The time left and the slack run out one after the other.
LEMMA NearerFacts ==
    ASSUME NEW p \in Promises
    PROVE  /\ Nearer(p) \in Promises /\ Until(p) \in Nat
           /\ Until(Nearer(p)) = OneLess(Until(p))
           /\ p.slack = 0 => Nearer(p).slack = 0
<1>1. p.left \in 0..window_seconds /\ p.slack \in 0..window_seconds
  BY DEF Promises
<1>2. CASE p.left > 0
  <2>1. p.left - 1 \in 0..window_seconds /\ Nearer(p) = Promise(p.left - 1, p.slack)
    BY <1>1, <1>2, Settings DEF Nearer
  <2>2. /\ Nearer(p) \in Promises /\ Until(Nearer(p)) = (p.left - 1) + p.slack
        /\ Nearer(p).slack = p.slack
    BY <1>1, <2>1, PromiseFacts
  <2> QED
    BY <1>1, <1>2, <2>2, Settings DEF Until, OneLess
<1>3. CASE ~(p.left > 0)
  <2>1. /\ 0 \in 0..window_seconds /\ OneLess(p.slack) \in 0..window_seconds
        /\ Nearer(p) = Promise(0, OneLess(p.slack)) /\ p.left = 0
    BY <1>1, <1>3, Settings DEF Nearer, OneLess
  <2>2. /\ Nearer(p) \in Promises /\ Until(Nearer(p)) = 0 + OneLess(p.slack)
        /\ Nearer(p).slack = OneLess(p.slack)
    BY <2>1, PromiseFacts
  <2> QED
    BY <1>1, <2>1, <2>2, Settings DEF Until, OneLess
<1> QED
  BY <1>2, <1>3

\* A step that refuses nobody leaves the slack alone.
LEMMA SlackFrame ==
    ASSUME ThrottleInv, UNCHANGED <<refused, elapsed>>
    PROVE  SlackInv'
BY DEF ThrottleInv, SlackInv

\* One login goes on to another step, or ends.
LEMMA LoginGoes ==
    ASSUME LoginInv, NEW r \in Logins, NEW step \in Places, NEW T, Go(r, step, T),
           step = "idle" => T = {}, step # "idle" => \E k \in Keys : T = {k},
           backend' = backend, backend = "memory" => step \in {"idle", "authenticate"},
           refused' \subseteq (refused \ {r}) \cup (IF step = "ttl" THEN {r} ELSE {})
    PROVE  /\ LoginInv' /\ pc'[r] = step /\ target'[r] = T
           /\ \A q \in Logins : q # r => pc'[q] = pc[q] /\ target'[q] = target[q]
<1>1. /\ pc'[r] = step /\ target'[r] = T
      /\ \A q \in Logins : q # r => pc'[q] = pc[q] /\ target'[q] = target[q]
  BY DEF LoginInv, Go
<1>2. T \in SUBSET Keys
  OBVIOUS
<1>3. pc' \in [Logins -> Places] /\ target' \in [Logins -> SUBSET Keys]
  BY <1>2 DEF LoginInv, Go
<1>4. refused' \subseteq {q \in Logins : pc'[q] = "ttl"}
  BY <1>1 DEF LoginInv
<1> QED
  BY <1>1, <1>3, <1>4 DEF LoginInv

\* The failures of a key, in memory and in Redis, are a number.
LEMMA FailuresFacts ==
    ASSUME ThrottleInv, NEW k \in Keys
    PROVE  Failures(k) \in Nat
<1>1. Len(Recent(Stamps(attempts, k), lockout_seconds)) \in Nat
  <2>1. Stamps(attempts, k) \in Ages(lockout_seconds)
    BY LookUp, Settings DEF ThrottleInv, MemoryInv
  <2>2. Recent(Stamps(attempts, k), lockout_seconds) \in Ages(lockout_seconds)
    BY <2>1, RecentFacts, Settings
  <2> QED
    BY <2>2 DEF Ages
<1> QED
  BY <1>1 DEF Failures, ThrottleInv, RedisInv

\* The bound on guesses is kept by a step that lets a login in below the
\* limit, one that forgets failures or ends logins, and one that counts the
\* failure of a login that was let in.
LEMMA GuessKept ==
    ASSUME ThrottleInv, NEW k \in Keys, Failures(k)' \in Nat,
           \/ Failures(k)' < max_login_attempts
           \/ Failures(k)' <= Failures(k) /\ Guessing(k)' \subseteq Guessing(k)
           \/ /\ Failures(k)' <= Failures(k) + 1
              /\ \E r \in Guessing(k) : Guessing(k)' \subseteq Guessing(k) \ {r}
    PROVE  Failures(k)' + Cardinality(Guessing(k)') < max_login_attempts + Cardinality(Logins)
<1> DEFINE F == Failures(k)
           G == Guessing(k)
           H == Guessing(k)'
<1>1. /\ F \in Nat /\ F + Cardinality(G) < max_login_attempts + Cardinality(Logins)
  BY FailuresFacts DEF ThrottleInv, GuessInv
<1>2. G \subseteq Logins /\ H \subseteq Logins
  BY DEF Guessing
<1>3. IsFiniteSet(G) /\ IsFiniteSet(H) /\ Cardinality(H) <= Cardinality(Logins)
  BY <1>2, FS_Subset, Settings
<1>4. Cardinality(G) \in Nat /\ Cardinality(H) \in Nat
  BY <1>3, FS_CardinalityType
<1>5. H \subseteq G => Cardinality(H) <= Cardinality(G)
  BY <1>3, FS_Subset
<1>6. ASSUME NEW r \in G, H \subseteq G \ {r} PROVE Cardinality(H) <= Cardinality(G) - 1
  <2>1. IsFiniteSet(G \ {r}) /\ Cardinality(G \ {r}) = Cardinality(G) - 1
    BY <1>3, FS_RemoveElement
  <2> QED
    BY <1>6, <2>1, FS_Subset
<1> HIDE DEF F, G, H
<1>7. CASE Failures(k)' < max_login_attempts
  BY <1>3, <1>4, <1>7, Settings DEF H
<1>8. CASE Failures(k)' <= Failures(k) /\ Guessing(k)' \subseteq Guessing(k)
  BY <1>1, <1>4, <1>5, <1>8, Settings DEF F, G, H
<1>9. CASE /\ Failures(k)' <= Failures(k) + 1
           /\ \E r \in Guessing(k) : Guessing(k)' \subseteq Guessing(k) \ {r}
  <2>1. Cardinality(H) <= Cardinality(G) - 1
    BY <1>6, <1>9 DEF G, H
  <2> QED
    BY <1>1, <1>4, <1>9, <2>1, Settings DEF F, G, H
<1> QED
  BY <1>7, <1>8, <1>9
\* No failure is counted or forgotten, and no login is let in.
LEMMA GuessFrame ==
    ASSUME ThrottleInv, UNCHANGED <<backend, attempts, fails>>, \A k \in Keys : Guessing(k)' \subseteq Guessing(k)
    PROVE  GuessInv'
<1> SUFFICES ASSUME NEW k \in Keys
             PROVE  Failures(k)' + Cardinality(Guessing(k)') < max_login_attempts + Cardinality(Logins)
  BY DEF GuessInv
<1>1. Failures(k)' = Failures(k)
  BY DEF Failures
<1>2. Failures(k) \in Nat
  BY FailuresFacts
<1> QED
  BY <1>1, <1>2, GuessKept

-----------------------------------------------------------------------------
(***************************************************************************)
(* The initial state, and the steps over the limiters in memory.           *)
(***************************************************************************)

\* Nothing is counted at first.
LEMMA ThrottleInitInv == ThrottleInit => ThrottleInv
<1> SUFFICES ASSUME ThrottleInit PROVE ThrottleInv
  OBVIOUS
<1>1. DOMAIN Empty = {} /\ IsFiniteSet({}) /\ \A w : Ordered(Empty, w)
  BY FS_EmptySet DEF Empty, Ordered
<1>2. MemoryInv
  BY <1>1, Settings DEF ThrottleInit, MemoryInv
<1>3. RedisInv
  BY Settings DEF ThrottleInit, RedisInv
<1>4. LoginInv
  BY DEF ThrottleInit, LoginInv, Places
<1>5. ExpireInv
  BY DEF ThrottleInit, ExpireInv, Owes
<1>6. PromiseInv /\ SlackInv
  BY Settings DEF ThrottleInit, PromiseInv, SlackInv, Owes
<1>7. ASSUME NEW k \in Keys
      PROVE  Failures(k) + Cardinality(Guessing(k)) < max_login_attempts + Cardinality(Logins)
  <2>1. Stamps(attempts, k) = <<>>
    BY <1>1 DEF ThrottleInit, Stamps
  <2>2. Failures(k) = 0
    BY <2>1, NoStamps, Settings DEF ThrottleInit, Failures
  <2>3. Guessing(k) = {}
    BY DEF ThrottleInit, Guessing
  <2>4. Cardinality(Guessing(k)) = 0
    BY <2>3, FS_EmptySet
  <2> QED
    BY <2>2, <2>4, Settings
<1> QED
  BY <1>2, <1>3, <1>4, <1>5, <1>6, <1>7 DEF ThrottleInv, GuessInv

\* check() refuses.  The oldest stamp is what reset_at was computed from, and
\* once it has come there is room in the bucket.
LEMMA RefusesStep ==
    ASSUME ThrottleInv, NEW r \in Logins, NEW k \in Keys, CheckRefuses(r, k)
    PROVE  ThrottleInv'
<1> DEFINE w == window_seconds
<1>1. PICK B \in _maybe_cleanup(buckets, rateIdle, w) :
         /\ Len(Recent(Stamps(B, k), w)) >= max_requests
         /\ buckets' = Put(B, k, Recent(Stamps(B, k), w))
         /\ promised' = [promised EXCEPT ![k] = {Promise(w - Recent(Stamps(B, k), w)[1], 0)}]
  BY DEF CheckRefuses
<1>2. /\ backend = "memory" /\ rateIdle' = Cleaned(rateIdle)
      /\ misled' = Misled(k)
      /\ UNCHANGED <<backend, attempts, lockIdle, hits, hitsTtl, fails, failsTtl>>
      /\ UNCHANGED <<pc, target, refused, elapsed, orphaned>>
  BY DEF CheckRefuses, redisVars, requestVars
<1>3. /\ Ordered(B, w) /\ DOMAIN B \subseteq DOMAIN buckets
      /\ \A j \in DOMAIN B : B[j] = buckets[j]
  BY CleanUp, Settings DEF ThrottleInv, MemoryInv
<1> DEFINE s == Stamps(B, k)
           live == Recent(s, w)
<1>4. /\ s \in Ages(w) /\ (k \in DOMAIN B => s = buckets[k]) /\ (k \notin DOMAIN B => s = <<>>)
  BY <1>3, LookUp, Settings
<1>5. live \in Ages(w) /\ Len(live) \in 0..Len(s) /\ \A i \in 1..Len(live) : live[i] < w
  BY <1>4, RecentFacts, RecentLengths, Settings
<1>6. Len(s) \in Nat /\ Len(s) <= max_requests
  <2>1. k \in DOMAIN B => Len(s) <= max_requests
    BY <1>3, <1>4 DEF ThrottleInv, MemoryInv
  <2>2. k \notin DOMAIN B => Len(s) = 0
    BY <1>4
  <2> QED
    BY <1>4, <2>1, <2>2, Settings DEF Ages
<1> HIDE DEF s, live
<1>7. /\ Ordered(buckets', w) /\ DOMAIN buckets' = DOMAIN B \cup {k} /\ buckets'[k] = live
      /\ \A j \in DOMAIN B : j # k => buckets'[j] = buckets[j]
  <2>1. buckets' = Put(B, k, live)
    BY <1>1 DEF s, live
  <2>2. window_seconds \in Nat
    BY Settings
  <2>3. Ordered(buckets', w)
    BY <1>3, <1>5, <2>1, <2>2, PutOrdered
  <2> QED
    BY <1>3, <2>1, <2>3 DEF Put
<1>8. MemoryInv'
  <2>1. \A j \in DOMAIN buckets' : Len(buckets'[j]) <= max_requests
    BY <1>3, <1>5, <1>6, <1>7, Settings DEF ThrottleInv, MemoryInv
  <2>2. rateIdle' \in 0..cleanup_interval_seconds
    BY <1>2, IdleTimes DEF ThrottleInv, MemoryInv
  <2> QED
    BY <1>2, <1>7, <2>1, <2>2 DEF ThrottleInv, MemoryInv
<1>9. RedisInv' /\ LoginInv' /\ ExpireInv'
  BY <1>2 DEF ThrottleInv, RedisInv, LoginInv, ExpireInv, Owes
<1>10. Len(live) >= max_requests /\ Len(live) > 0 /\ live[1] \in 0..(2 * w + 1) /\ live[1] < w
  <2>1. Len(live) >= max_requests /\ Len(live) \in Nat
    BY <1>1, <1>5, <1>6 DEF live, s
  <2>2. 1 \in 1..Len(live)
    BY <2>1, Settings
  <2> QED
    BY <1>5, <2>1, <2>2, Settings DEF Ages
<1>11. w - live[1] \in 0..w /\ live[1] + (w - live[1]) >= w
  BY <1>10, Settings
<1>12. ~\E p \in promised[k] : Until(p) = 0
  <2> SUFFICES ASSUME NEW p \in promised[k], Until(p) = 0 PROVE FALSE
    OBVIOUS
  <2>1. k \in DOMAIN buckets /\ buckets[k] # <<>> => buckets[k][1] + 0 >= w
    BY <1>2 DEF ThrottleInv, PromiseInv, Kept, Keeps
  <2>2. s # <<>> /\ k \in DOMAIN B
    BY <1>4, <1>5, <1>6, <1>10
  <2>3. s[1] \in Nat /\ s[1] >= w
    <3>1. s[1] \in 0..(2 * w + 1)
      <4>1. s \in Seq(0..(2 * w + 1)) /\ 1 \in 1..Len(s)
        BY <1>4, <1>5, <1>6, <1>10, Settings DEF Ages
      <4> QED
        BY <4>1, ElementOfSeq
    <3>2. s[1] + 0 >= w
      BY <1>3, <1>4, <2>1, <2>2
    <3> QED
      BY <3>1, <3>2, Settings
  <2>4. Len(live) < Len(s)
    BY <1>4, <2>2, <2>3, RecentLengths, Settings DEF live
  <2> QED
    BY <1>5, <1>6, <1>10, <2>4, Settings
<1>13. PromiseInv'
  <2>1. misled' = {}
    BY <1>2, <1>12 DEF ThrottleInv, PromiseInv, Misled
  <2>0. /\ Promise(w - live[1], 0) \in Promises /\ Until(Promise(w - live[1], 0)) = w - live[1]
        /\ Promise(w - live[1], 0).slack = 0
    <3>1. w - live[1] \in 0..window_seconds /\ 0 \in 0..window_seconds
      BY <1>11, Settings
    <3>2. (w - live[1]) + 0 = w - live[1]
      BY <1>11, Settings
    <3> HIDE DEF w
    <3> QED
      BY <3>1, <3>2, PromiseFacts
  <2>2. /\ promised' \in [Keys -> SUBSET Promises] /\ promised'[k] = {Promise(w - live[1], 0)}
        /\ \A j \in Keys : j # k => promised'[j] = promised[j]
    BY <1>1, <2>0 DEF ThrottleInv, PromiseInv, live, s
  <2>3. ASSUME NEW j \in Keys, NEW p \in promised'[j] PROVE Kept(j, p)'
    <3>1. CASE j = k
      BY <1>2, <1>7, <1>11, <2>0, <2>2, <2>3, <3>1 DEF Kept, Keeps
    <3>2. CASE j # k
      <4>1. Kept(j, p)
        BY <2>2, <2>3, <3>2 DEF ThrottleInv, PromiseInv
      <4> QED
        BY <1>2, <1>3, <1>7, <3>2, <4>1 DEF Kept, Keeps
    <3> QED
      BY <3>1, <3>2
  <2>4. \A j \in Keys, q \in Logins : ~Owes(q, j)'
    BY <1>2 DEF ThrottleInv, LoginInv, Owes
  <2> QED
    BY <2>1, <2>2, <2>3, <2>4 DEF PromiseInv
<1>14. GuessInv'
  BY <1>2, GuessFrame DEF Guessing
<1> QED
  BY <1>2, <1>8, <1>9, <1>13, <1>14, SlackFrame DEF ThrottleInv

\* check() allows: the bucket had room, and the login is let in only below
\* the limit on failures.
LEMMA AllowsStep ==
    ASSUME ThrottleInv, NEW r \in Logins, NEW k \in Keys, CheckAllows(r, k)
    PROVE  ThrottleInv'
<1> DEFINE w == window_seconds
<1>1. PICK B \in _maybe_cleanup(buckets, rateIdle, w) :
         /\ Len(Recent(Stamps(B, k), w)) < max_requests
         /\ buckets' = Put(B, k, Append(Recent(Stamps(B, k), w), 0))
  BY DEF CheckAllows
<1>2. /\ backend = "memory" /\ pc[r] = "idle" /\ rateIdle' = Cleaned(rateIdle)
      /\ promised' = [promised EXCEPT ![k] = {}]
      /\ IF is_locked(Len(Recent(Stamps(attempts, k), lockout_seconds)))
         THEN UNCHANGED <<pc, target>>
         ELSE Go(r, "authenticate", {k})
      /\ UNCHANGED <<backend, attempts, lockIdle, hits, hitsTtl, fails, failsTtl>>
      /\ UNCHANGED <<refused, elapsed, misled, orphaned>>
  BY DEF CheckAllows, redisVars
<1>3. /\ Ordered(B, w) /\ DOMAIN B \subseteq DOMAIN buckets
      /\ \A j \in DOMAIN B : B[j] = buckets[j]
  BY CleanUp, Settings DEF ThrottleInv, MemoryInv
<1> DEFINE live == Recent(Stamps(B, k), w)
           a == Append(live, 0)
<1>4. live \in Ages(w) /\ Len(live) \in Nat
  <2>1. Stamps(B, k) \in Ages(w)
    BY <1>3, LookUp, Settings
  <2>2. live \in Ages(w)
    BY <2>1, RecentFacts, Settings
  <2> HIDE DEF live
  <2> QED
    BY <2>2 DEF Ages
<1> HIDE DEF live
<1>5. a \in Ages(w) /\ Len(a) = Len(live) + 1
  BY <1>4, AppendNow, Settings
<1> HIDE DEF a
<1>6. Len(a) <= max_requests
  BY <1>1, <1>4, <1>5, Settings DEF live
<1>7. /\ Ordered(buckets', w) /\ DOMAIN buckets' = DOMAIN B \cup {k} /\ buckets'[k] = a
      /\ \A j \in DOMAIN B : j # k => buckets'[j] = buckets[j]
  <2>1. buckets' = Put(B, k, a)
    BY <1>1 DEF a, live
  <2>2. window_seconds \in Nat
    BY Settings
  <2>3. Ordered(buckets', w)
    BY <1>3, <1>5, <2>1, <2>2, PutOrdered
  <2> QED
    BY <1>3, <2>1, <2>3 DEF Put
<1>8. MemoryInv'
  <2>1. \A j \in DOMAIN buckets' : Len(buckets'[j]) <= max_requests
    BY <1>3, <1>6, <1>7 DEF ThrottleInv, MemoryInv
  <2>2. rateIdle' \in 0..cleanup_interval_seconds
    BY <1>2, IdleTimes DEF ThrottleInv, MemoryInv
  <2> QED
    BY <1>2, <1>7, <2>1, <2>2 DEF ThrottleInv, MemoryInv
<1>9. RedisInv'
  BY <1>2 DEF ThrottleInv, RedisInv
<1>10. LoginInv' /\ \/ UNCHANGED <<pc, target>>
                      \/ /\ Failures(k) < max_login_attempts
                         /\ pc'[r] = "authenticate" /\ target'[r] = {k}
                         /\ \A q \in Logins : q # r => pc'[q] = pc[q] /\ target'[q] = target[q]
  <2>1. CASE is_locked(Len(Recent(Stamps(attempts, k), lockout_seconds)))
    BY <1>2, <2>1 DEF ThrottleInv, LoginInv
  <2>2. CASE ~is_locked(Len(Recent(Stamps(attempts, k), lockout_seconds)))
    <3>1. "authenticate" \in Places /\ Go(r, "authenticate", {k}) /\ r \notin refused
      BY <1>2, <2>2 DEF Places, ThrottleInv, LoginInv
    <3>2. /\ LoginInv' /\ pc'[r] = "authenticate" /\ target'[r] = {k}
          /\ \A q \in Logins : q # r => pc'[q] = pc[q] /\ target'[q] = target[q]
      BY <1>2, <3>1, LoginGoes DEF ThrottleInv
    <3>3. ~(Failures(k) >= max_login_attempts) /\ Failures(k) \in Nat
      BY <1>2, <2>2, FailuresFacts DEF is_locked, Failures
    <3>4. Failures(k) < max_login_attempts
      BY <3>3, Settings
    <3> QED
      BY <3>2, <3>4
  <2> QED
    BY <2>1, <2>2
<1>11. \A j \in Keys, q \in Logins : ~Owes(q, j) /\ ~Owes(q, j)'
  BY <1>2, <1>10 DEF ThrottleInv, LoginInv, Owes
<1>12. ExpireInv'
  BY <1>2, <1>11 DEF ThrottleInv, ExpireInv
<1>13. PromiseInv'
  <2>1. /\ promised' \in [Keys -> SUBSET Promises] /\ promised'[k] = {}
        /\ \A j \in Keys : j # k => promised'[j] = promised[j]
    BY <1>2 DEF ThrottleInv, PromiseInv
  <2>2. ASSUME NEW j \in Keys, NEW p \in promised'[j] PROVE Kept(j, p)'
    <3>1. j # k /\ Kept(j, p)
      BY <2>1, <2>2 DEF ThrottleInv, PromiseInv
    <3> QED
      BY <1>2, <1>3, <1>7, <3>1 DEF Kept, Keeps
  <2> QED
    BY <1>2, <1>11, <2>1, <2>2 DEF ThrottleInv, PromiseInv
<1>14. GuessInv'
  <2>1. CASE UNCHANGED <<pc, target>>
    BY <1>2, <2>1, GuessFrame DEF Guessing
  <2>2. CASE /\ Failures(k) < max_login_attempts
             /\ pc'[r] = "authenticate" /\ target'[r] = {k}
             /\ \A q \in Logins : q # r => pc'[q] = pc[q] /\ target'[q] = target[q]
    <3> SUFFICES ASSUME NEW j \in Keys
                 PROVE  Failures(j)' + Cardinality(Guessing(j)')
                           < max_login_attempts + Cardinality(Logins)
      BY DEF GuessInv
    <3>1. Failures(j)' = Failures(j) /\ Failures(j) \in Nat
      BY <1>2, FailuresFacts DEF Failures
    <3>2. j # k => Guessing(j)' \subseteq Guessing(j)
      BY <2>2 DEF Guessing
    <3> QED
      BY <2>2, <3>1, <3>2, GuessKept
  <2> QED
    BY <1>10, <2>1, <2>2
<1> QED
  BY <1>2, <1>8, <1>9, <1>10, <1>12, <1>13, <1>14, SlackFrame DEF ThrottleInv
\* A step that leaves the rate limiter alone, and who owes an EXPIRE.
LEMMA LimiterFrame ==
    ASSUME ThrottleInv, UNCHANGED <<backend, buckets, hits, hitsTtl, promised, misled, orphaned>>,
           \A q \in Logins, j \in Keys : Owes(q, j)' <=> Owes(q, j)
    PROVE  ExpireInv' /\ PromiseInv'
<1>1. \A j \in Keys : \A p \in promised[j] : Kept(j, p)'
  BY DEF ThrottleInv, PromiseInv, Kept, Keeps
<1> QED
  BY <1>1 DEF ThrottleInv, ExpireInv, PromiseInv

\* A dictionary that lost some keys counts no more than before.
LEMMA FewerCount ==
    ASSUME NEW w \in Nat, NEW store, Ordered(store, w), NEW B, Ordered(B, w),
           DOMAIN B \subseteq DOMAIN store, \A k \in DOMAIN B : B[k] = store[k], NEW k
    PROVE  /\ Len(Recent(Stamps(B, k), w)) \in Nat
           /\ Len(Recent(Stamps(B, k), w)) <= Len(Recent(Stamps(store, k), w))
<1>1. /\ Stamps(store, k) \in Ages(w)
      /\ Stamps(B, k) = Stamps(store, k) \/ Stamps(B, k) = <<>>
  BY LookUp
<1>2. Len(Recent(Stamps(store, k), w)) \in Nat
  <2>1. Recent(Stamps(store, k), w) \in Ages(w)
    BY <1>1, RecentFacts
  <2> QED
    BY <2>1 DEF Ages
<1>3. Len(Recent(<<>>, w)) = 0
  BY NoStamps
<1> QED
  BY <1>1, <1>2, <1>3

\* A failure is counted, of a login that was let in.
LEMMA MemoryFailureStep ==
    ASSUME ThrottleInv, NEW r \in Logins, MemoryRecordFailedLogin(r)
    PROVE  ThrottleInv'
<1> DEFINE w == lockout_seconds
<1>1. PICK k \in target[r], A \in _maybe_cleanup(attempts, lockIdle, w) :
         attempts' = Put(A, k, Recent(Append(Stamps(A, k), 0), w))
  BY DEF MemoryRecordFailedLogin
<1>2. /\ backend = "memory" /\ pc[r] = "authenticate" /\ lockIdle' = Cleaned(lockIdle)
      /\ Go(r, "idle", {})
      /\ UNCHANGED <<backend, buckets, rateIdle, hits, hitsTtl, fails, failsTtl>>
      /\ UNCHANGED <<refused, elapsed, promised, misled, orphaned>>
  BY DEF MemoryRecordFailedLogin, redisVars, history
<1>3. k \in Keys /\ target[r] = {k} /\ r \notin refused
  BY <1>2 DEF ThrottleInv, LoginInv
<1>4. /\ Ordered(A, w) /\ DOMAIN A \subseteq DOMAIN attempts
      /\ \A j \in DOMAIN A : A[j] = attempts[j]
  BY CleanUp, Settings DEF ThrottleInv, MemoryInv
<1> DEFINE s == Stamps(A, k)
           live == Recent(Append(s, 0), w)
<1>5. s \in Ages(w)
  BY <1>4, LookUp, Settings
<1>6. Append(s, 0) \in Ages(w) /\ Len(live) = Len(Recent(s, w)) + 1
  BY <1>5, AppendNow, Settings
<1>7. live \in Ages(w) /\ Len(Recent(live, w)) = Len(live)
  BY <1>6, RecentFacts, RecentLengths, Settings
<1>8. attempts' = Put(A, k, live)
  BY <1>1
<1> HIDE DEF live
<1>9. Ordered(attempts', w)
  BY <1>3, <1>4, <1>7, <1>8, PutOrdered, Settings
<1>10. Stamps(attempts', k) = live /\ \A j : j # k => Stamps(attempts', j) = Stamps(A, j)
  BY <1>8 DEF Put, Stamps
<1>11. MemoryInv'
  <2>1. lockIdle' \in 0..cleanup_interval_seconds
    BY <1>2, IdleTimes DEF ThrottleInv, MemoryInv
  <2> QED
    BY <1>2, <1>9, <2>1 DEF ThrottleInv, MemoryInv
<1>12. RedisInv'
  BY <1>2 DEF ThrottleInv, RedisInv
<1>13. /\ LoginInv' /\ pc'[r] = "idle" /\ target'[r] = {}
       /\ \A q \in Logins : q # r => pc'[q] = pc[q] /\ target'[q] = target[q]
  <2>1. "idle" \in Places /\ refused' \subseteq refused \ {r}
    BY <1>2, <1>3 DEF Places
  <2> QED
    BY <1>2, <2>1, LoginGoes DEF ThrottleInv
<1>14. ExpireInv' /\ PromiseInv'
  <2>1. \A q \in Logins, j \in Keys : Owes(q, j)' <=> Owes(q, j)
    BY <1>2, <1>13 DEF Owes
  <2> QED
    BY <1>2, <2>1, LimiterFrame
<1>15. ASSUME NEW j \in Keys
       PROVE  Failures(j)' + Cardinality(Guessing(j)') < max_login_attempts + Cardinality(Logins)
  <2>1. /\ Len(Recent(Stamps(A, j), w)) \in Nat /\ Len(Recent(Stamps(A, j), w)) <= Failures(j)
    BY <1>2, <1>4, FewerCount, Settings DEF ThrottleInv, MemoryInv, Failures
  <2>2. Failures(j)' = Len(Recent(Stamps(attempts', j), w)) /\ Failures(j) \in Nat
    BY <1>2, FailuresFacts DEF Failures
  <2>3. Guessing(j)' \subseteq Guessing(j) \ {r}
    BY <1>13 DEF Guessing
  <2>4. CASE j = k
    <3>1. Failures(j)' = Len(Recent(s, w)) + 1
      BY <1>6, <1>7, <1>10, <2>2, <2>4 DEF live
    <3>2. r \in Guessing(j)
      BY <1>2, <1>3, <2>4 DEF Guessing
    <3> QED
      BY <2>1, <2>2, <2>3, <2>4, <3>1, <3>2, GuessKept
  <2>5. CASE j # k
    <3>1. Failures(j)' = Len(Recent(Stamps(A, j), w))
      BY <1>10, <2>2, <2>5
    <3> QED
      BY <2>1, <2>2, <2>3, <3>1, GuessKept
  <2> QED
    BY <2>4, <2>5
<1> QED
  BY <1>2, <1>11, <1>12, <1>13, <1>14, <1>15, SlackFrame DEF ThrottleInv, GuessInv

\* The password was right: the failures are forgotten.
LEMMA MemoryResetStep ==
    ASSUME ThrottleInv, NEW r \in Logins, MemoryReset(r)
    PROVE  ThrottleInv'
<1> DEFINE w == lockout_seconds
           S == DOMAIN attempts \ target[r]
<1>1. /\ backend = "memory" /\ pc[r] = "authenticate" /\ Go(r, "idle", {})
      /\ attempts' = Only(attempts, S)
      /\ UNCHANGED <<backend, buckets, rateIdle, lockIdle, hits, hitsTtl, fails, failsTtl>>
      /\ UNCHANGED <<refused, elapsed, promised, misled, orphaned>>
  BY DEF MemoryReset, redisVars, history
<1>2. Ordered(attempts, w) /\ r \notin refused
  BY <1>1 DEF ThrottleInv, MemoryInv, LoginInv
<1>3. /\ Ordered(attempts', w) /\ DOMAIN attempts' = S /\ \A j \in S : attempts'[j] = attempts[j]
  <2>1. Ordered(attempts', w)
    BY <1>1, <1>2, OnlySome, Settings
  <2> QED
    BY <1>1, <2>1 DEF Only
<1>4. MemoryInv' /\ RedisInv'
  BY <1>1, <1>3 DEF ThrottleInv, MemoryInv, RedisInv
<1>5. /\ LoginInv' /\ pc'[r] = "idle" /\ target'[r] = {}
      /\ \A q \in Logins : q # r => pc'[q] = pc[q] /\ target'[q] = target[q]
  <2>1. "idle" \in Places /\ refused' \subseteq refused \ {r}
    BY <1>1, <1>2 DEF Places
  <2> QED
    BY <1>1, <2>1, LoginGoes DEF ThrottleInv
<1>6. ExpireInv' /\ PromiseInv'
  <2>1. \A q \in Logins, j \in Keys : Owes(q, j)' <=> Owes(q, j)
    BY <1>1, <1>5 DEF Owes
  <2> QED
    BY <1>1, <2>1, LimiterFrame
<1>7. ASSUME NEW j \in Keys
      PROVE  Failures(j)' + Cardinality(Guessing(j)') < max_login_attempts + Cardinality(Logins)
  <2>1. DOMAIN attempts' \subseteq DOMAIN attempts /\ \A i \in DOMAIN attempts' : attempts'[i] = attempts[i]
    BY <1>3
  <2>2. Failures(j)' \in Nat /\ Failures(j)' <= Failures(j)
    BY <1>1, <1>2, <1>3, <2>1, FewerCount, Settings DEF Failures
  <2>3. Guessing(j)' \subseteq Guessing(j)
    BY <1>5 DEF Guessing
  <2> QED
    BY <2>2, <2>3, GuessKept
<1> QED
  BY <1>1, <1>4, <1>5, <1>6, <1>7, SlackFrame DEF ThrottleInv, GuessInv

-----------------------------------------------------------------------------
(***************************************************************************)
(* The steps over Redis.                                                   *)
(***************************************************************************)

\* The dictionaries in memory are left alone.
LEMMA MemoryFrame ==
    ASSUME ThrottleInv, UNCHANGED <<backend, memoryVars>>
    PROVE  MemoryInv' /\ UNCHANGED <<buckets, attempts>>
BY DEF ThrottleInv, MemoryInv, memoryVars

\* INCR.  Only the first of a window goes on to EXPIRE, and then nobody owes
\* one yet; above the limit, the counter is running, so no promise is due.
LEMMA IncrStep ==
    ASSUME ThrottleInv, NEW r \in Logins, NEW k \in Keys, incr(r, k)
    PROVE  ThrottleInv'
<1> DEFINE step == IF hits[k] = 0 THEN "expire" ELSE "ttl"
<1>1. /\ backend = "redis" /\ pc[r] = "idle" /\ Go(r, step, {k})
      /\ hits' = [hits EXCEPT ![k] = Least(hits[k] + 1, max_requests + 1)]
      /\ UNCHANGED <<backend, memoryVars, hitsTtl, fails, failsTtl, orphaned>>
      /\ IF hits[k] < max_requests
         THEN /\ promised' = [promised EXCEPT ![k] = {}] /\ refused' = refused /\ misled' = misled
              /\ elapsed' = elapsed
         ELSE /\ refused' = refused \cup {r} /\ promised' = promised /\ misled' = Misled(k)
              /\ \E delay \in 0..window_seconds : elapsed' = [elapsed EXCEPT ![r] = delay]
  BY DEF incr
<1>2. MemoryInv' /\ UNCHANGED <<buckets, attempts>>
  BY <1>1, MemoryFrame
<1>3. /\ hits[k] \in 0..(max_requests + 1) /\ hitsTtl[k] \in 0..window_seconds
      /\ (hits[k] = 0 => hitsTtl[k] = 0)
  BY DEF ThrottleInv, RedisInv
<1>4. Least(hits[k] + 1, max_requests + 1) \in 1..(max_requests + 1)
  BY <1>3, Settings DEF Least
<1>5. /\ hits' \in [Keys -> 0..(max_requests + 1)] /\ hits'[k] > 0
      /\ \A j \in Keys : j # k => hits'[j] = hits[j]
  BY <1>1, <1>4, Settings DEF ThrottleInv, RedisInv
<1>6. RedisInv'
  BY <1>1, <1>5 DEF ThrottleInv, RedisInv
<1>7. /\ LoginInv' /\ pc'[r] = step /\ target'[r] = {k}
      /\ \A q \in Logins : q # r => pc'[q] = pc[q] /\ target'[q] = target[q]
  <2>1. step \in Places /\ step # "idle"
    BY DEF Places
  <2>2. refused' \subseteq (refused \ {r}) \cup (IF step = "ttl" THEN {r} ELSE {})
    <3>1. r \notin refused
      BY <1>1 DEF ThrottleInv, LoginInv
    <3>2. hits[k] = 0 => hits[k] < max_requests
      BY Settings
    <3> QED
      BY <1>1, <3>1, <3>2
  <2>3. LoginInv /\ backend' = backend /\ backend # "memory" /\ Go(r, step, {k})
    BY <1>1 DEF ThrottleInv
  <2> HIDE DEF step
  <2> QED
    BY <2>1, <2>2, <2>3, LoginGoes
<1>8. \A q \in Logins, j \in Keys : Owes(q, j)' <=> Owes(q, j) \/ (q = r /\ j = k /\ hits[k] = 0)
  BY <1>1, <1>7 DEF Owes
<1>9. hits[k] = 0 => \A q \in Logins : ~Owes(q, k)
  BY <1>3 DEF ThrottleInv, ExpireInv
<1>10. ExpireInv'
  <2>1. ASSUME NEW j \in Keys, hitsTtl'[j] = 0, hits'[j] > 0
        PROVE  j \in orphaned' \/ \E q \in Logins : Owes(q, j)'
    <3>1. CASE j = k /\ hits[k] = 0
      BY <1>8, <3>1
    <3>2. CASE ~(j = k /\ hits[k] = 0)
      <4>1. hitsTtl[j] = 0 /\ hits[j] > 0
        BY <1>1, <1>3, <1>5, <2>1, <3>2
      <4> QED
        BY <1>1, <1>8, <4>1 DEF ThrottleInv, ExpireInv
    <3> QED
      BY <3>1, <3>2
  <2>2. ASSUME NEW j \in Keys, NEW q \in Logins, Owes(q, j)' PROVE hits'[j] > 0 /\ hitsTtl'[j] = 0
    BY <1>1, <1>3, <1>5, <1>8, <2>2 DEF ThrottleInv, ExpireInv
  <2>3. ASSUME NEW j \in Keys, NEW q \in Logins, NEW p \in Logins, Owes(q, j)', Owes(p, j)'
        PROVE  q = p
    BY <1>8, <1>9, <2>3 DEF ThrottleInv, ExpireInv
  <2> QED
    BY <1>1, <2>1, <2>2, <2>3 DEF ThrottleInv, ExpireInv
<1>11. PromiseInv'
  <2>1. /\ promised' \in [Keys -> SUBSET Promises]
        /\ \A j \in Keys : promised'[j] \subseteq promised[j]
        /\ hits[k] = 0 => promised'[k] = {}
    BY <1>1, Settings DEF ThrottleInv, PromiseInv
  <2>2. ASSUME NEW j \in Keys, NEW p \in promised'[j] PROVE Kept(j, p)'
    <3>1. Kept(j, p)
      BY <2>1, <2>2 DEF ThrottleInv, PromiseInv
    <3>2. j = k => hits[k] # 0
      BY <2>1, <2>2
    <3> QED
      BY <1>1, <1>5, <3>1, <3>2 DEF Kept, Keeps
  <2>3. misled' = {}
    <3>1. ASSUME NEW p \in promised[k], Until(p) = 0 PROVE hits[k] = 0
      BY <1>1, <3>1 DEF ThrottleInv, PromiseInv, Kept, Keeps
    <3> QED
      BY <1>1, <3>1, Settings DEF ThrottleInv, PromiseInv, Misled
  <2>4. ASSUME NEW j \in Keys, NEW q \in Logins, Owes(q, j)' PROVE promised'[j] = {}
    BY <1>8, <2>1, <2>4 DEF ThrottleInv, PromiseInv
  <2> QED
    BY <2>1, <2>2, <2>3, <2>4 DEF PromiseInv
<1>12. GuessInv'
  <2>1. \A j \in Keys : Guessing(j)' \subseteq Guessing(j)
    BY <1>7 DEF Guessing
  <2> QED
    BY <1>1, <1>2, <2>1, GuessFrame
<1>13. SlackInv'
  BY <1>1 DEF ThrottleInv, SlackInv
<1> QED
  BY <1>2, <1>6, <1>7, <1>10, <1>11, <1>12, <1>13 DEF ThrottleInv

\* EXPIRE: the counter gets its life, and nobody else owes it one.
LEMMA ExpireStep ==
    ASSUME ThrottleInv, NEW r \in Logins, expire(r)
    PROVE  ThrottleInv'
<1>1. /\ pc[r] = "expire" /\ Go(r, "ttl", target[r])
      /\ hitsTtl' = [k \in Keys |-> IF k \in target[r] THEN window_seconds ELSE hitsTtl[k]]
      /\ UNCHANGED <<backend, memoryVars, hits, fails, failsTtl, refused, elapsed>>
      /\ UNCHANGED <<promised, misled, orphaned>>
  BY DEF expire, history
<1>2. MemoryInv' /\ UNCHANGED <<buckets, attempts>>
  BY <1>1, MemoryFrame
<1>3. PICK k \in Keys : target[r] = {k}
  BY <1>1 DEF ThrottleInv, LoginInv
<1>4. Owes(r, k) /\ hits[k] > 0 /\ promised[k] = {} /\ r \notin refused /\ backend # "memory"
  BY <1>1, <1>3 DEF ThrottleInv, ExpireInv, PromiseInv, LoginInv, Owes
<1>5. /\ hitsTtl' \in [Keys -> 0..window_seconds] /\ hitsTtl'[k] = window_seconds
      /\ \A j \in Keys : j # k => hitsTtl'[j] = hitsTtl[j]
  BY <1>1, <1>3, Settings DEF ThrottleInv, RedisInv
<1>6. RedisInv'
  BY <1>1, <1>4, <1>5 DEF ThrottleInv, RedisInv
<1>7. /\ LoginInv' /\ pc'[r] = "ttl" /\ target'[r] = {k}
      /\ \A q \in Logins : q # r => pc'[q] = pc[q] /\ target'[q] = target[q]
  <2>1. /\ "ttl" \in Places /\ refused' \subseteq refused \ {r} /\ Go(r, "ttl", {k})
        /\ LoginInv /\ backend' = backend
    BY <1>1, <1>3, <1>4 DEF Places, ThrottleInv
  <2> QED
    BY <1>4, <2>1, LoginGoes
<1>8. \A q \in Logins, j \in Keys : Owes(q, j)' <=> Owes(q, j) /\ q # r
  BY <1>7 DEF Owes
<1>9. \A q \in Logins, j \in Keys : Owes(q, j)' => j # k
  BY <1>4, <1>8 DEF ThrottleInv, ExpireInv
<1>10. \A j \in Keys : Owes(r, j) => j = k
  BY <1>3 DEF Owes
<1>11. ExpireInv'
  <2>1. ASSUME NEW j \in Keys, hitsTtl'[j] = 0, hits'[j] > 0
        PROVE  j \in orphaned' \/ \E q \in Logins : Owes(q, j)'
    <3>1. j # k /\ hitsTtl[j] = 0 /\ hits[j] > 0
      BY <1>1, <1>5, <2>1, Settings
    <3> QED
      BY <1>1, <1>8, <1>10, <3>1 DEF ThrottleInv, ExpireInv
  <2> QED
    BY <1>1, <1>5, <1>8, <1>9, <2>1 DEF ThrottleInv, ExpireInv
<1>12. PromiseInv'
  <2>1. ASSUME NEW j \in Keys, NEW p \in promised'[j] PROVE Kept(j, p)'
    <3>1. j # k /\ Kept(j, p)
      BY <1>1, <1>4, <2>1 DEF ThrottleInv, PromiseInv
    <3> QED
      BY <1>1, <1>2, <1>5, <3>1 DEF Kept, Keeps
  <2> QED
    BY <1>1, <1>8, <2>1 DEF ThrottleInv, PromiseInv
<1>13. GuessInv'
  <2>1. \A j \in Keys : Guessing(j)' \subseteq Guessing(j)
    BY <1>7 DEF Guessing
  <2> QED
    BY <1>1, <1>2, <2>1, GuessFrame
<1> QED
  BY <1>1, <1>2, <1>6, <1>7, <1>11, <1>12, <1>13, SlackFrame DEF ThrottleInv

\* TTL: what a refusal promises, slack included, is the life of the counter,
\* or nothing.
LEMMA TtlStep ==
    ASSUME ThrottleInv, NEW r \in Logins, ttl(r)
    PROVE  ThrottleInv'
<1>1. /\ pc[r] = "ttl"
      /\ UNCHANGED <<backend, memoryVars, hits, hitsTtl, fails, failsTtl, misled, orphaned>>
      /\ \/ /\ promised' = [k \in Keys |->
                  IF k \in target[r] THEN ResetAt(hitsTtl[k], elapsed[r]) ELSE promised[k]]
            /\ refused' = refused \ {r} /\ elapsed' = [elapsed EXCEPT ![r] = 0]
            /\ Go(r, "idle", {})
         \/ /\ r \notin refused /\ refused' = refused /\ elapsed' = elapsed /\ promised' = promised
            /\ Go(r, "is_locked", target[r])
  BY DEF ttl, redisVars
<1>2. MemoryInv' /\ UNCHANGED <<buckets, attempts>>
  BY <1>1, MemoryFrame
<1>3. RedisInv' /\ LoginInv /\ backend = "redis"
  BY <1>1 DEF ThrottleInv, RedisInv, LoginInv
<1>4. PICK k \in Keys : target[r] = {k}
  BY <1>1 DEF ThrottleInv, LoginInv
<1>5. /\ LoginInv' /\ pc'[r] \in {"idle", "is_locked"}
      /\ \A q \in Logins : q # r => pc'[q] = pc[q] /\ target'[q] = target[q]
  <2>1. {"idle", "is_locked"} \subseteq Places /\ refused' \subseteq refused \ {r}
    BY <1>1 DEF Places
  <2>2. CASE Go(r, "idle", {})
    BY <1>1, <1>3, <2>1, <2>2, LoginGoes
  <2>3. CASE Go(r, "is_locked", target[r])
    BY <1>1, <1>3, <1>4, <2>1, <2>3, LoginGoes
  <2> QED
    BY <1>1, <2>2, <2>3
<1>6. \A q \in Logins, j \in Keys : Owes(q, j)' <=> Owes(q, j)
  BY <1>1, <1>5 DEF Owes
<1>7. ExpireInv'
  BY <1>1, <1>6 DEF ThrottleInv, ExpireInv
<1>0. ASSUME NEW j \in Keys
      PROVE  /\ ResetAt(hitsTtl[j], elapsed[r]) \subseteq Promises
             /\ hitsTtl[j] = 0 => ResetAt(hitsTtl[j], elapsed[r]) = {}
             /\ \A p \in ResetAt(hitsTtl[j], elapsed[r]) : Until(p) = hitsTtl[j] /\ hitsTtl[j] # 0
  <2> DEFINE life == hitsTtl[j]
             early == Least(elapsed[r], life)
  <2>1. life \in 0..window_seconds /\ elapsed[r] \in 0..window_seconds
    BY DEF ThrottleInv, RedisInv, SlackInv
  <2>2. /\ early \in 0..window_seconds /\ life - early \in 0..window_seconds
        /\ (life - early) + early = life
    BY <2>1, Settings DEF Least
  <2>3. ResetAt(life, elapsed[r]) = (IF life = 0 THEN {} ELSE {Promise(life - early, early)})
    BY DEF ResetAt
  <2> HIDE DEF life, early
  <2>4. Promise(life - early, early) \in Promises /\ Until(Promise(life - early, early)) = life
    BY <2>2, PromiseFacts
  <2>5. /\ ResetAt(life, elapsed[r]) \subseteq Promises
        /\ life = 0 => ResetAt(life, elapsed[r]) = {}
        /\ \A p \in ResetAt(life, elapsed[r]) : Until(p) = life /\ life # 0
    BY <2>3, <2>4
  <2> QED
    BY <2>5 DEF life
<1>8. /\ promised' \in [Keys -> SUBSET Promises]
      /\ \A j \in Keys : promised'[j] = promised[j] \/ promised'[j] = ResetAt(hitsTtl[j], elapsed[r])
  BY <1>0, <1>1 DEF ThrottleInv, PromiseInv
<1>9. PromiseInv'
  <2>1. ASSUME NEW j \in Keys, NEW p \in promised'[j] PROVE Kept(j, p)'
    <3>1. CASE p \in promised[j]
      BY <1>1, <1>2, <3>1 DEF ThrottleInv, PromiseInv, Kept, Keeps
    <3>2. CASE p \notin promised[j]
      <4>1. Until(p) = hitsTtl[j] /\ Until(p) # 0
        BY <1>0, <1>8, <2>1, <3>2
      <4> QED
        BY <1>1, <1>3, <4>1 DEF Kept, Keeps
    <3> QED
      BY <3>1, <3>2
  <2>2. ASSUME NEW j \in Keys, NEW q \in Logins, Owes(q, j)' PROVE promised'[j] = {}
    <3>1. promised[j] = {} /\ hitsTtl[j] = 0
      BY <1>6, <2>2 DEF ThrottleInv, PromiseInv, ExpireInv
    <3> QED
      BY <1>0, <1>8, <3>1
  <2> QED
    BY <1>1, <1>8, <2>1, <2>2 DEF ThrottleInv, PromiseInv
<1>10. GuessInv'
  <2>1. \A j \in Keys : Guessing(j)' \subseteq Guessing(j)
    BY <1>5 DEF Guessing
  <2> QED
    BY <1>1, <1>2, <2>1, GuessFrame
<1>11. SlackInv'
  BY <1>1, Settings DEF ThrottleInv, SlackInv
<1> QED
  BY <1>2, <1>3, <1>5, <1>7, <1>9, <1>10, <1>11 DEF ThrottleInv

\* The lockout check lets a login in below the limit only.
LEMMA IsLockedStep ==
    ASSUME ThrottleInv, NEW r \in Logins, IsLocked(r)
    PROVE  ThrottleInv'
<1>1. PICK k \in target[r] :
         IF is_locked(fails[k]) THEN Go(r, "idle", {}) ELSE Go(r, "authenticate", {k})
  BY DEF IsLocked
<1>2. /\ pc[r] = "is_locked"
      /\ UNCHANGED <<backend, memoryVars, hits, hitsTtl, fails, failsTtl, refused, elapsed>>
      /\ UNCHANGED <<promised, misled, orphaned>>
  BY DEF IsLocked, redisVars, history
<1>3. MemoryInv' /\ UNCHANGED <<buckets, attempts>>
  BY <1>2, MemoryFrame
<1>4. RedisInv' /\ LoginInv /\ backend = "redis" /\ k \in Keys /\ r \notin refused
  BY <1>2 DEF ThrottleInv, RedisInv, LoginInv
<1>5. /\ LoginInv' /\ \/ pc'[r] = "idle"
                        \/ /\ pc'[r] = "authenticate" /\ target'[r] = {k}
                           /\ fails[k] < max_login_attempts
      /\ \A q \in Logins : q # r => pc'[q] = pc[q] /\ target'[q] = target[q]
  <2>1. {"idle", "authenticate"} \subseteq Places /\ refused' \subseteq refused \ {r}
    BY <1>2, <1>4 DEF Places
  <2>2. CASE is_locked(fails[k])
    BY <1>1, <1>2, <1>4, <2>1, <2>2, LoginGoes
  <2>3. CASE ~is_locked(fails[k])
    <3>1. Go(r, "authenticate", {k})
      BY <1>1, <2>3
    <3>2. fails[k] \in Nat /\ ~(fails[k] >= max_login_attempts)
      BY <1>4, <2>3 DEF ThrottleInv, RedisInv, is_locked
    <3>3. fails[k] < max_login_attempts
      BY <3>2, Settings
    <3> QED
      BY <1>2, <1>4, <2>1, <3>1, <3>3, LoginGoes
  <2> QED
    BY <2>2, <2>3
<1>6. ExpireInv' /\ PromiseInv'
  <2>1. \A q \in Logins, j \in Keys : Owes(q, j)' <=> Owes(q, j)
    BY <1>2, <1>5 DEF Owes
  <2> QED
    BY <1>2, <1>3, <2>1, LimiterFrame
<1>7. ASSUME NEW j \in Keys
      PROVE  Failures(j)' + Cardinality(Guessing(j)') < max_login_attempts + Cardinality(Logins)
  <2>1. Failures(j)' = fails[j] /\ Failures(j) = fails[j] /\ Failures(j) \in Nat
    BY <1>2, <1>4, FailuresFacts DEF Failures
  <2>2. Guessing(j)' \subseteq Guessing(j) \/ (j = k /\ fails[k] < max_login_attempts)
    BY <1>5 DEF Guessing
  <2> QED
    BY <2>1, <2>2, GuessKept
<1> QED
  BY <1>2, <1>3, <1>4, <1>5, <1>6, <1>7, SlackFrame DEF ThrottleInv, GuessInv

\* A failure is counted, or the failures are forgotten.
LEMMA RedisFailureSteps ==
    ASSUME ThrottleInv, NEW r \in Logins, record_failed_login(r) \/ reset(r)
    PROVE  ThrottleInv'
<1>1. /\ backend = "redis" /\ pc[r] = "authenticate" /\ Go(r, "idle", {})
      /\ UNCHANGED <<backend, memoryVars, hits, hitsTtl, refused, elapsed>>
      /\ UNCHANGED <<promised, misled, orphaned>>
  BY DEF record_failed_login, reset, history
<1>2. MemoryInv' /\ UNCHANGED <<buckets, attempts>>
  BY <1>1, MemoryFrame
<1>3. LoginInv /\ r \notin refused
  BY <1>1 DEF ThrottleInv, LoginInv
<1>4. PICK k \in Keys : target[r] = {k}
  BY <1>1 DEF ThrottleInv, LoginInv
<1>5. /\ fails' \in [Keys -> Nat] /\ failsTtl' \in [Keys -> 0..lockout_seconds]
      /\ \A j \in Keys : fails'[j] > 0 <=> failsTtl'[j] > 0
      /\ \A j \in Keys : fails'[j] <= fails[j] \/ (j = k /\ fails'[j] <= fails[j] + 1)
  <2>1. CASE record_failed_login(r)
    <3>1. /\ fails' = [j \in Keys |-> IF j \in target[r] THEN fails[j] + 1 ELSE fails[j]]
          /\ failsTtl' = [j \in Keys |-> IF j \in target[r] /\ failsTtl[j] = 0
                                         THEN lockout_seconds ELSE failsTtl[j]]
      BY <2>1 DEF record_failed_login
    <3> QED
      BY <1>4, <3>1, Settings DEF ThrottleInv, RedisInv
  <2>2. CASE reset(r)
    <3>1. /\ fails' = [j \in Keys |-> IF j \in target[r] THEN 0 ELSE fails[j]]
          /\ failsTtl' = [j \in Keys |-> IF j \in target[r] THEN 0 ELSE failsTtl[j]]
      BY <2>2 DEF reset
    <3> QED
      BY <1>4, <3>1, Settings DEF ThrottleInv, RedisInv
  <2> QED
    BY <2>1, <2>2
<1>6. RedisInv'
  BY <1>1, <1>5 DEF ThrottleInv, RedisInv
<1>7. /\ LoginInv' /\ pc'[r] = "idle" /\ target'[r] = {}
      /\ \A q \in Logins : q # r => pc'[q] = pc[q] /\ target'[q] = target[q]
  <2>1. "idle" \in Places /\ refused' \subseteq refused \ {r}
    BY <1>1, <1>3 DEF Places
  <2> QED
    BY <1>1, <1>3, <2>1, LoginGoes
<1>8. ExpireInv' /\ PromiseInv'
  <2>1. \A q \in Logins, j \in Keys : Owes(q, j)' <=> Owes(q, j)
    BY <1>1, <1>7 DEF Owes
  <2> QED
    BY <1>1, <1>2, <2>1, LimiterFrame
<1>9. ASSUME NEW j \in Keys
      PROVE  Failures(j)' + Cardinality(Guessing(j)') < max_login_attempts + Cardinality(Logins)
  <2>1. Failures(j)' = fails'[j] /\ Failures(j) = fails[j] /\ Failures(j)' \in Nat
    BY <1>1, <1>5 DEF Failures
  <2>2. Guessing(j)' \subseteq Guessing(j) \ {r} /\ (j = k => r \in Guessing(j))
    BY <1>1, <1>4, <1>7 DEF Guessing
  <2> QED
    BY <1>5, <2>1, <2>2, GuessKept
<1> QED
  BY <1>1, <1>2, <1>6, <1>7, <1>8, <1>9, SlackFrame DEF ThrottleInv, GuessInv

-----------------------------------------------------------------------------
(***************************************************************************)
(* Faults and time.                                                        *)
(***************************************************************************)

\* A login dies; the EXPIRE it owed is lost.
LEMMA DieStep ==
    ASSUME ThrottleInv, NEW r \in Logins, LoginDies(r)
    PROVE  ThrottleInv'
<1>1. /\ pc[r] # "idle" /\ Go(r, "idle", {}) /\ refused' = refused \ {r}
      /\ elapsed' = [elapsed EXCEPT ![r] = 0]
      /\ orphaned' = (IF pc[r] = "expire" THEN orphaned \cup target[r] ELSE orphaned)
      /\ UNCHANGED <<backend, memoryVars, hits, hitsTtl, fails, failsTtl, promised, misled>>
  BY DEF LoginDies, redisVars
<1>2. MemoryInv' /\ UNCHANGED <<buckets, attempts>>
  BY <1>1, MemoryFrame
<1>3. RedisInv' /\ LoginInv
  BY <1>1 DEF ThrottleInv, RedisInv
<1>4. /\ LoginInv' /\ pc'[r] = "idle" /\ target'[r] = {}
      /\ \A q \in Logins : q # r => pc'[q] = pc[q] /\ target'[q] = target[q]
  <2>1. "idle" \in Places /\ refused' \subseteq refused \ {r}
    BY <1>1 DEF Places
  <2> QED
    BY <1>1, <1>3, <2>1, LoginGoes
<1>5. \A q \in Logins, j \in Keys : Owes(q, j)' <=> Owes(q, j) /\ q # r
  BY <1>4 DEF Owes
<1>6. /\ orphaned \subseteq orphaned' /\ orphaned' \subseteq Keys
      /\ \A j \in Keys : Owes(r, j) => j \in orphaned'
  BY <1>1 DEF ThrottleInv, ExpireInv, LoginInv, Owes
<1>7. ExpireInv'
  BY <1>1, <1>5, <1>6 DEF ThrottleInv, ExpireInv
<1>8. PromiseInv'
  <2>1. \A j \in Keys : \A p \in promised[j] : Kept(j, p)'
    BY <1>1, <1>2 DEF ThrottleInv, PromiseInv, Kept, Keeps
  <2> QED
    BY <1>1, <1>5, <2>1 DEF ThrottleInv, PromiseInv
<1>9. GuessInv'
  <2>1. \A j \in Keys : Guessing(j)' \subseteq Guessing(j)
    BY <1>4 DEF Guessing
  <2> QED
    BY <1>1, <1>2, <2>1, GuessFrame
<1>10. SlackInv'
  BY <1>1, Settings DEF ThrottleInv, SlackInv
<1> QED
  BY <1>2, <1>3, <1>4, <1>7, <1>8, <1>9, <1>10 DEF ThrottleInv

\* A dictionary grows older.
LEMMA OlderStore ==
    ASSUME NEW w \in Nat, NEW store, Ordered(store, w)
    PROVE  /\ Ordered(Older(store, w), w) /\ DOMAIN Older(store, w) = DOMAIN store
           /\ \A k \in DOMAIN store :
                 /\ Older(store, w)[k] \in Ages(w) /\ Len(Older(store, w)[k]) = Len(store[k])
                 /\ Len(Recent(Older(store, w)[k], w)) <= Len(Recent(store[k], w))
                 /\ \A i \in 1..Len(store[k]) : /\ Older(store, w)[k][i] >= store[k][i]
                                                /\ \/ Older(store, w)[k][i] >= w
                                                   \/ Older(store, w)[k][i] = store[k][i] + 1
<1>1. DOMAIN Older(store, w) = DOMAIN store
  BY DEF Older
<1>2. ASSUME NEW k \in DOMAIN store
      PROVE  /\ store[k] \in Ages(w)
             /\ Older(store, w)[k] = [i \in DOMAIN store[k] |-> Least(store[k][i] + 1, 2 * w + 1)]
  BY DEF Older, Ordered
<1>3. ASSUME NEW k \in DOMAIN store
      PROVE  /\ Older(store, w)[k] \in Ages(w) /\ Len(Older(store, w)[k]) = Len(store[k])
             /\ Len(Recent(Older(store, w)[k], w)) <= Len(Recent(store[k], w))
             /\ \A i \in 1..Len(store[k]) : /\ Older(store, w)[k][i] >= store[k][i]
                                            /\ \/ Older(store, w)[k][i] >= w
                                               \/ Older(store, w)[k][i] = store[k][i] + 1
  <2> DEFINE s == store[k]
             t == Older(store, w)[k]
  <2>1. s \in Ages(w) /\ t = [i \in DOMAIN s |-> Least(s[i] + 1, 2 * w + 1)]
    BY <1>2
  <2> HIDE DEF s, t
  <2>2. /\ t \in Ages(w) /\ Len(t) = Len(s) /\ Len(Recent(t, w)) <= Len(Recent(s, w))
        /\ \A i \in 1..Len(s) : t[i] >= s[i] /\ (t[i] >= w \/ t[i] = s[i] + 1)
    BY <2>1, AgesGrow
  <2> QED
    BY <2>2 DEF s, t
<1> QED
  BY <1>1, <1>3 DEF Ordered
\* Time passes.  Stamps, lives and promises grow older together.
LEMMA TickStep ==
    ASSUME ThrottleInv, Tick
    PROVE  ThrottleInv'
<1>1. /\ buckets' = Older(buckets, window_seconds) /\ attempts' = Older(attempts, lockout_seconds)
      /\ rateIdle' = Least(rateIdle + 1, cleanup_interval_seconds)
      /\ lockIdle' = Least(lockIdle + 1, cleanup_interval_seconds)
      /\ hits' = [k \in Keys |-> IF hitsTtl[k] = 1 THEN 0 ELSE hits[k]]
      /\ hitsTtl' = [k \in Keys |-> OneLess(hitsTtl[k])]
      /\ fails' = [k \in Keys |-> IF failsTtl[k] = 1 THEN 0 ELSE fails[k]]
      /\ failsTtl' = [k \in Keys |-> OneLess(failsTtl[k])]
      /\ elapsed' = [r \in Logins |-> IF r \in refused THEN Least(elapsed[r] + 1, window_seconds) ELSE 0]
      /\ promised' = [k \in Keys |-> {Nearer(p) : p \in promised[k]}]
      /\ UNCHANGED <<backend, pc, target, refused, misled, orphaned>>
  BY DEF Tick
<1>2. \A n \in Nat : /\ OneLess(n) \in Nat /\ OneLess(n) <= n /\ n <= OneLess(n) + 1
                     /\ OneLess(n) = 0 <=> n \in {0, 1}
  BY DEF OneLess
<1>3. /\ Ordered(buckets', window_seconds) /\ DOMAIN buckets' = DOMAIN buckets
      /\ \A k \in DOMAIN buckets :
            /\ buckets'[k] \in Ages(window_seconds) /\ Len(buckets'[k]) = Len(buckets[k])
            /\ \A i \in 1..Len(buckets[k]) : /\ buckets'[k][i] >= buckets[k][i]
                                             /\ \/ buckets'[k][i] >= window_seconds
                                                \/ buckets'[k][i] = buckets[k][i] + 1
  <2>1. window_seconds \in Nat /\ Ordered(buckets, window_seconds)
    BY Settings DEF ThrottleInv, MemoryInv
  <2> QED
    BY <1>1, <2>1, OlderStore
<1>4. /\ Ordered(attempts', lockout_seconds) /\ DOMAIN attempts' = DOMAIN attempts
      /\ \A k \in DOMAIN attempts :
            Len(Recent(attempts'[k], lockout_seconds)) <= Len(Recent(attempts[k], lockout_seconds))
  <2>1. lockout_seconds \in Nat /\ Ordered(attempts, lockout_seconds)
    BY Settings DEF ThrottleInv, MemoryInv
  <2> QED
    BY <1>1, <2>1, OlderStore
<1>5. MemoryInv'
  <2>1. {rateIdle', lockIdle'} \subseteq 0..cleanup_interval_seconds
    BY <1>1, IdleTimes DEF ThrottleInv, MemoryInv
  <2>2. \A k \in DOMAIN buckets' : Len(buckets'[k]) <= max_requests
    BY <1>3 DEF ThrottleInv, MemoryInv
  <2>3. \A w : Older(Empty, w) = Empty
    BY DEF Older, Empty
  <2>4. backend' = "redis" => buckets' = Empty /\ attempts' = Empty
    BY <1>1, <2>3 DEF ThrottleInv, MemoryInv
  <2> QED
    BY <1>3, <1>4, <2>1, <2>2, <2>4 DEF MemoryInv
<1>6. /\ hits' \in [Keys -> 0..(max_requests + 1)] /\ hitsTtl' \in [Keys -> 0..window_seconds]
      /\ fails' \in [Keys -> Nat] /\ failsTtl' \in [Keys -> 0..lockout_seconds]
  BY <1>1, <1>2, Settings DEF ThrottleInv, RedisInv
<1>7. \A k \in Keys :
         /\ hitsTtl[k] \in Nat /\ hitsTtl'[k] = OneLess(hitsTtl[k])
         /\ hits'[k] = (IF hitsTtl[k] = 1 THEN 0 ELSE hits[k])
         /\ failsTtl[k] \in Nat /\ failsTtl'[k] = OneLess(failsTtl[k])
         /\ fails'[k] = (IF failsTtl[k] = 1 THEN 0 ELSE fails[k])
  BY <1>1, Settings DEF ThrottleInv, RedisInv
<1>8. RedisInv'
  <2>1. ASSUME NEW k \in Keys
        PROVE  /\ fails'[k] > 0 <=> failsTtl'[k] > 0
               /\ hits'[k] = 0 => hitsTtl'[k] = 0
               /\ fails'[k] <= fails[k] /\ (backend = "memory" => hits'[k] = 0 /\ fails'[k] = 0)
    <3>1. /\ (fails[k] > 0 <=> failsTtl[k] > 0) /\ (hits[k] = 0 => hitsTtl[k] = 0)
          /\ fails[k] \in Nat /\ (backend = "memory" => hits[k] = 0 /\ fails[k] = 0)
      BY DEF ThrottleInv, RedisInv
    <3> QED
      BY <1>2, <1>7, <3>1
  <2> QED
    BY <1>1, <1>6, <2>1 DEF RedisInv
<1>9. LoginInv'
  BY <1>1 DEF ThrottleInv, LoginInv
<1>10. \A q \in Logins, j \in Keys : Owes(q, j)' <=> Owes(q, j)
  BY <1>1 DEF Owes
<1>11. ExpireInv'
  <2>1. ASSUME NEW k \in Keys, hitsTtl'[k] = 0, hits'[k] > 0 PROVE hitsTtl[k] = 0 /\ hits[k] > 0
    <3>1. hitsTtl[k] # 1
      BY <1>7, <2>1
    <3> QED
      BY <1>2, <1>7, <2>1, <3>1
  <2>2. ASSUME NEW k \in Keys, hits[k] > 0, hitsTtl[k] = 0 PROVE hits'[k] > 0 /\ hitsTtl'[k] = 0
    BY <1>2, <1>7, <2>2
  <2> QED
    BY <1>1, <1>10, <2>1, <2>2 DEF ThrottleInv, ExpireInv
<1>12. PromiseInv'
  <2>1. \A k \in Keys : /\ promised[k] \subseteq Promises
                        /\ promised'[k] = {Nearer(p) : p \in promised[k]}
    BY <1>1 DEF ThrottleInv, PromiseInv
  <2>2. \A k \in Keys : promised'[k] \subseteq Promises
    BY <2>1, NearerFacts
  <2>3. promised' \in [Keys -> SUBSET Promises]
    BY <1>1, <2>2
  <2>4. ASSUME NEW k \in Keys, NEW p \in promised'[k] PROVE Kept(k, p)'
    <3>0. PICK q \in promised[k] : p = Nearer(q)
      BY <2>1
    <3> DEFINE t == Until(q)
               u == Until(p)
    <3>1. u = OneLess(t) /\ t \in Nat /\ (q.slack = 0 => p.slack = 0)
      BY <2>1, <3>0, NearerFacts
    <3>2. Keeps(k, t) /\ t \in Nat /\ (backend = "memory" => q.slack = 0)
      BY <3>1 DEF ThrottleInv, PromiseInv, Kept
    <3> HIDE DEF t, u
    <3>3. ASSUME backend = "memory", k \in DOMAIN buckets, buckets'[k] # <<>>
          PROVE  buckets'[k][1] + u >= window_seconds
      <4>1. buckets[k] \in Ages(window_seconds) /\ buckets'[k] \in Ages(window_seconds)
        BY <1>3, <3>3 DEF ThrottleInv, MemoryInv, Ordered
      <4>2. 1 \in 1..Len(buckets[k]) /\ Len(buckets'[k]) = Len(buckets[k])
        <5>1. Len(buckets'[k]) # 0 /\ Len(buckets'[k]) \in Nat
          BY <3>3, <4>1 DEF Ages
        <5> QED
          BY <1>3, <3>3, <5>1
      <4>3. buckets[k] # <<>>
        BY <4>2
      <4>4. buckets[k][1] + t >= window_seconds
        BY <3>2, <3>3, <4>3 DEF Keeps
      <4>5. buckets[k][1] \in Nat /\ buckets'[k][1] \in Nat
        <5>1. /\ buckets[k] \in Seq(0..(2 * window_seconds + 1))
              /\ buckets'[k] \in Seq(0..(2 * window_seconds + 1))
          BY <4>1 DEF Ages
        <5>2. /\ buckets[k][1] \in 0..(2 * window_seconds + 1)
              /\ buckets'[k][1] \in 0..(2 * window_seconds + 1)
          BY <4>2, <5>1, ElementOfSeq
        <5> QED
          BY <5>2, Settings
      <4>6. buckets'[k][1] >= window_seconds \/ buckets'[k][1] = buckets[k][1] + 1
        BY <1>3, <3>3, <4>2
      <4>7. u \in Nat /\ t <= u + 1
        BY <1>2, <3>1, <3>2
      <4>8. \A a, b, c, d, e \in Nat : /\ b + d >= c /\ d <= e + 1 /\ (a >= c \/ a = b + 1) => a + e >= c
        OBVIOUS
      <4> QED
        BY ONLY <3>2, <4>4, <4>5, <4>6, <4>7, <4>8, Settings
    <3>4. ASSUME backend = "redis" PROVE u = hitsTtl'[k] /\ (u = 0 => hits'[k] = 0)
      <4>1. t = hitsTtl[k] /\ (t = 0 => hits[k] = 0)
        BY <3>2, <3>4 DEF Keeps
      <4>2. u = 0 => t \in {0, 1}
        BY <1>2, <3>1, <3>2
      <4> QED
        BY <1>7, <3>1, <4>1, <4>2
    <3>5. Keeps(k, u)'
      <4>1. UNCHANGED backend /\ DOMAIN buckets' = DOMAIN buckets
        BY <1>1, <1>3
      <4>2. u' = u
        BY DEF u
      <4> QED
        BY <3>3, <3>4, <4>1 DEF Keeps
    <3> QED
      BY <1>1, <3>1, <3>2, <3>5 DEF Kept, u
  <2>5. \A k \in Keys : promised[k] = {} => promised'[k] = {}
    BY <2>1
  <2> QED
    BY <1>1, <1>10, <2>3, <2>4, <2>5 DEF ThrottleInv, PromiseInv
<1>13. ASSUME NEW k \in Keys
       PROVE  Failures(k)' + Cardinality(Guessing(k)') < max_login_attempts + Cardinality(Logins)
  <2>1. Guessing(k)' = Guessing(k)
    BY <1>1 DEF Guessing
  <2>2. Failures(k) \in Nat
    BY FailuresFacts
  <2>3. Failures(k)' \in Nat /\ Failures(k)' <= Failures(k)
    <3>1. CASE backend = "memory"
      <4>1. /\ Failures(k)' = Len(Recent(Stamps(attempts', k), lockout_seconds))
            /\ Failures(k) = Len(Recent(Stamps(attempts, k), lockout_seconds))
        BY <1>1, <3>1 DEF Failures
      <4>2. Stamps(attempts', k) \in Ages(lockout_seconds)
        BY <1>4, LookUp, Settings
      <4>3. Recent(Stamps(attempts', k), lockout_seconds) \in Ages(lockout_seconds)
        BY <4>2, RecentFacts, Settings
      <4>4. Len(Recent(Stamps(attempts', k), lockout_seconds)) \in Nat
        BY <4>3 DEF Ages
      <4>5. CASE k \in DOMAIN attempts
        BY <1>4, <4>1, <4>4, <4>5 DEF Stamps
      <4>6. CASE k \notin DOMAIN attempts
        BY <1>4, <2>2, <4>1, <4>4, <4>6 DEF Stamps
      <4> QED
        BY <4>5, <4>6
    <3>2. CASE backend # "memory"
      <4>1. Failures(k)' = fails'[k] /\ Failures(k) = fails[k] /\ fails[k] \in Nat
        BY <1>1, <3>2 DEF Failures, ThrottleInv, RedisInv
      <4> QED
        BY <1>6, <1>7, <4>1
    <3> QED
      BY <3>1, <3>2
  <2> QED
    BY <2>1, <2>3, GuessKept
<1>14. SlackInv'
  <2>1. \A n \in 0..window_seconds : Least(n + 1, window_seconds) \in 0..window_seconds
    BY Settings DEF Least
  <2> QED
    BY <1>1, <2>1, Settings DEF ThrottleInv, SlackInv
<1> QED
  BY <1>5, <1>8, <1>9, <1>11, <1>12, <1>13, <1>14 DEF ThrottleInv, GuessInv

\* Every step keeps the invariant.
LEMMA ThrottleStepInv == ThrottleInv /\ [ThrottleNext]_throttleVars => ThrottleInv'
<1> SUFFICES ASSUME ThrottleInv, [ThrottleNext]_throttleVars PROVE ThrottleInv'
  OBVIOUS
<1>1. ASSUME NEW r \in Logins, NEW k \in Keys, CheckRefuses(r, k) PROVE ThrottleInv'
  BY <1>1, RefusesStep
<1>2. ASSUME NEW r \in Logins, NEW k \in Keys, CheckAllows(r, k) PROVE ThrottleInv'
  BY <1>2, AllowsStep
<1>3. ASSUME NEW r \in Logins, NEW k \in Keys, incr(r, k) PROVE ThrottleInv'
  BY <1>3, IncrStep
<1>4. ASSUME NEW r \in Logins, MemoryRecordFailedLogin(r) \/ MemoryReset(r) PROVE ThrottleInv'
  BY <1>4, MemoryFailureStep, MemoryResetStep
<1>5. ASSUME NEW r \in Logins, expire(r) \/ ttl(r) PROVE ThrottleInv'
  BY <1>5, ExpireStep, TtlStep
<1>6. ASSUME NEW r \in Logins, IsLocked(r) PROVE ThrottleInv'
  BY <1>6, IsLockedStep
<1>7. ASSUME NEW r \in Logins, record_failed_login(r) \/ reset(r) PROVE ThrottleInv'
  BY <1>7, RedisFailureSteps
<1>8. ASSUME NEW r \in Logins, LoginDies(r) PROVE ThrottleInv'
  BY <1>8, DieStep
<1>9. ASSUME Tick PROVE ThrottleInv'
  BY <1>9, TickStep
<1>10. CASE UNCHANGED throttleVars
  <2>1. /\ UNCHANGED <<backend, buckets, attempts, rateIdle, lockIdle, hits, hitsTtl, fails, failsTtl>>
        /\ UNCHANGED <<pc, target, refused, elapsed, promised, misled, orphaned>>
    BY <1>10 DEF throttleVars, memoryVars, redisVars, requestVars, history
  <2>2. MemoryInv' /\ RedisInv' /\ LoginInv'
    BY <2>1 DEF ThrottleInv, MemoryInv, RedisInv, LoginInv
  <2>3. ExpireInv' /\ PromiseInv'
    BY <2>1, LimiterFrame DEF Owes
  <2>4. GuessInv'
    BY <2>1, GuessFrame DEF Guessing
  <2> QED
    BY <2>1, <2>2, <2>3, <2>4, SlackFrame DEF ThrottleInv
<1> QED
  BY <1>1, <1>2, <1>3, <1>4, <1>5, <1>6, <1>7, <1>8, <1>9, <1>10 DEF ThrottleNext, Continue

-----------------------------------------------------------------------------
(***************************************************************************)
(* The theorems.                                                           *)
(***************************************************************************)

\* The inductive invariant holds in every reachable state.
THEOREM ThrottleInvariance == ThrottleSpec => []ThrottleInv
BY ThrottleInitInv, ThrottleStepInv, PTL DEF ThrottleSpec

\* The variables keep their shapes, stamps stay sorted, only the back end in
\* use holds data, and a counter without a life is one whose EXPIRE is to
\* come or was lost.
THEOREM ThrottleTypeCorrect == ThrottleSpec => []ThrottleTypeOK
<1>1. ASSUME ThrottleInv PROVE ThrottleTypeOK
  <2>1. StoreOK(buckets, window_seconds) /\ StoreOK(attempts, lockout_seconds)
    BY <1>1 DEF ThrottleInv, MemoryInv, Ordered, Ages, Sorted, StoreOK
  <2>2. ASSUME NEW r \in Logins
        PROVE  Cardinality(target[r]) = (IF pc[r] = "idle" THEN 0 ELSE 1)
    <3>1. CASE pc[r] = "idle"
      <4>1. target[r] = {}
        BY <1>1, <3>1 DEF ThrottleInv, LoginInv
      <4> QED
        BY <3>1, <4>1, FS_EmptySet
    <3>2. CASE pc[r] # "idle"
      <4>1. PICK k : target[r] = {k}
        BY <1>1, <3>2 DEF ThrottleInv, LoginInv
      <4> QED
        BY <3>2, <4>1, FS_Singleton
    <3> QED
      BY <3>1, <3>2
  <2>3. misled \cup orphaned \subseteq Keys
    BY <1>1 DEF ThrottleInv, ExpireInv, PromiseInv
  <2>4. \A k \in Keys : hitsTtl[k] = 0 /\ hits[k] > 0 =>
           k \in orphaned \/ \E r \in Logins : pc[r] = "expire" /\ k \in target[r]
    BY <1>1 DEF ThrottleInv, ExpireInv, Owes
  <2>5. /\ {rateIdle, lockIdle} \subseteq 0..cleanup_interval_seconds
        /\ backend = "redis" => buckets = Empty /\ attempts = Empty
    BY <1>1 DEF ThrottleInv, MemoryInv
  <2>6. /\ hits \in [Keys -> 0..(max_requests + 1)] /\ hitsTtl \in [Keys -> 0..window_seconds]
        /\ fails \in [Keys -> Nat] /\ failsTtl \in [Keys -> 0..lockout_seconds]
        /\ \A k \in Keys : fails[k] > 0 <=> failsTtl[k] > 0
        /\ backend = "memory" => \A k \in Keys : hits[k] = 0 /\ fails[k] = 0
        /\ backend = "memory" => \A k \in Keys : \A p \in promised[k] : p.slack = 0
    BY <1>1 DEF ThrottleInv, RedisInv, PromiseInv, Kept
  <2>7. /\ pc \in [Logins -> Places] /\ target \in [Logins -> SUBSET Keys]
        /\ refused \subseteq {r \in Logins : pc[r] = "ttl"}
        /\ promised \in [Keys -> SUBSET [left : 0..window_seconds, slack : 0..window_seconds]]
    BY <1>1 DEF ThrottleInv, LoginInv, PromiseInv, Promises
  <2>8. elapsed \in [Logins -> 0..window_seconds] /\ \A r \in Logins \ refused : elapsed[r] = 0
    BY <1>1 DEF ThrottleInv, SlackInv
  <2> QED
    BY <2>1, <2>2, <2>3, <2>4, <2>5, <2>6, <2>7, <2>8 DEF ThrottleTypeOK, Places
<1> QED
  BY <1>1, ThrottleInvariance, PTL

\* However logins interleave with the lockout, in memory or over Redis, a key
\* never collects more failures than the limit and one for each login that
\* may be under way.
THEOREM GuessesAreBounded == ThrottleSpec => []GuessBound
<1>1. ASSUME ThrottleInv, NEW k \in Keys PROVE Failures(k) < max_login_attempts + Cardinality(Logins)
  <2>1. Guessing(k) \subseteq Logins
    BY DEF Guessing
  <2>2. Cardinality(Guessing(k)) \in Nat
    BY <2>1, Settings, FS_Subset, FS_CardinalityType
  <2>3. /\ Failures(k) \in Nat
        /\ Failures(k) + Cardinality(Guessing(k)) < max_login_attempts + Cardinality(Logins)
    BY <1>1, FailuresFacts DEF ThrottleInv, GuessInv
  <2> QED
    BY <2>2, <2>3, Settings
<1>2. ThrottleInv => GuessBound
  BY <1>1 DEF GuessBound
<1> QED
  BY <1>2, ThrottleInvariance, PTL

\* Who comes back at the reset_at of the limiter in memory, before anyone else
\* with the key is let in, is let in; and so is who comes back at a reset_at
\* computed from a TTL and allows for the time check() had spent by then, by
\* which that reset_at is early.
THEOREM RefusalsAreHonest == ThrottleSpec => []RefusalIsHonest
<1>1. ThrottleInv => RefusalIsHonest
  BY DEF ThrottleInv, PromiseInv, RefusalIsHonest
<1> QED
  BY <1>1, ThrottleInvariance, PTL

\* The clean-up of the limiters in memory forgets a key that still counts
\* only when more than max_keys keys are younger than twice the window.
THEOREM CleanupsSpareCounting == ThrottleSpec => CleanupSparesCounting
<1> DEFINE Step ==
      /\ Counting(buckets, window_seconds) \subseteq DOMAIN buckets'
            \/ Cardinality(Young(buckets, window_seconds)) > max_keys
      /\ Counting(attempts, lockout_seconds) \subseteq DOMAIN attempts' \cup UNION {target[r] : r \in Logins}
            \/ Cardinality(Young(attempts, lockout_seconds)) > max_keys
<1>1. ASSUME ThrottleInv, ThrottleNext PROVE Step
  <2>1. /\ Counting(buckets, window_seconds) \subseteq DOMAIN buckets
        /\ Counting(attempts, lockout_seconds) \subseteq DOMAIN attempts
    BY DEF Counting
  <2>2. ASSUME NEW r \in Logins, NEW k \in Keys, CheckRefuses(r, k) \/ CheckAllows(r, k) PROVE Step
    <3>1. PICK B \in _maybe_cleanup(buckets, rateIdle, window_seconds) :
             \E a : buckets' = Put(B, k, a)
      BY <2>2 DEF CheckRefuses, CheckAllows
    <3>2. \/ Counting(buckets, window_seconds) \subseteq DOMAIN B
          \/ Cardinality(Young(buckets, window_seconds)) > max_keys
      BY <1>1, CleanUp, Settings DEF ThrottleInv, MemoryInv
    <3>3. DOMAIN B \subseteq DOMAIN buckets' /\ attempts' = attempts
      BY <2>2, <3>1 DEF Put, CheckRefuses, CheckAllows
    <3> QED
      BY <2>1, <3>2, <3>3
  <2>3. ASSUME NEW r \in Logins, MemoryRecordFailedLogin(r) PROVE Step
    <3>1. PICK k \in target[r], A \in _maybe_cleanup(attempts, lockIdle, lockout_seconds) :
             \E a : attempts' = Put(A, k, a)
      BY <2>3 DEF MemoryRecordFailedLogin
    <3>2. \/ Counting(attempts, lockout_seconds) \subseteq DOMAIN A
          \/ Cardinality(Young(attempts, lockout_seconds)) > max_keys
      BY <1>1, CleanUp, Settings DEF ThrottleInv, MemoryInv
    <3>3. DOMAIN A \subseteq DOMAIN attempts' /\ buckets' = buckets
      BY <2>3, <3>1 DEF Put, MemoryRecordFailedLogin
    <3> QED
      BY <2>1, <3>2, <3>3
  <2>4. ASSUME NEW r \in Logins, MemoryReset(r) PROVE Step
    <3>1. DOMAIN attempts' = DOMAIN attempts \ target[r] /\ buckets' = buckets
      BY <2>4 DEF MemoryReset, Only
    <3> QED
      BY <2>1, <3>1
  <2>5. ASSUME Tick PROVE Step
    <3>1. DOMAIN attempts' = DOMAIN attempts /\ DOMAIN buckets' = DOMAIN buckets
      BY <2>5 DEF Tick, Older
    <3> QED
      BY <2>1, <3>1
  <2>6. ASSUME UNCHANGED memoryVars PROVE Step
    BY <2>1, <2>6 DEF memoryVars
  <2>7. ASSUME NEW r \in Logins,
               \/ \E k \in Keys : incr(r, k)
               \/ expire(r) \/ ttl(r) \/ IsLocked(r) \/ record_failed_login(r) \/ reset(r) \/ LoginDies(r)
        PROVE  UNCHANGED memoryVars
    BY <2>7 DEF incr, expire, ttl, IsLocked, record_failed_login, reset, LoginDies
  <2> QED
    BY <1>1, <2>2, <2>3, <2>4, <2>5, <2>6, <2>7 DEF ThrottleNext, Continue
<1>2. ThrottleInv /\ [ThrottleNext]_throttleVars => [Step]_throttleVars
  BY <1>1
<1> QED
  BY <1>2, ThrottleInvariance, PTL DEF ThrottleSpec, CleanupSparesCounting

-----------------------------------------------------------------------------
(***************************************************************************)
(* Logins through Hydra are earned, for any number of users, flows,        *)
(* sessions and requests.  A login takes several calls, so what a request  *)
(* or a challenge carries from one to the next has to deserve, all along,  *)
(* the flow it is meant for.                                               *)
(***************************************************************************)

\* The acceptance a was earned in flow l, of which Hydra remembers the
\* subjects S, and the sessions it names are the subject's, by the owners o.
Deserves(a, l, S, o) ==
    /\ a.acr = "none" => a.sub \subseteq S
    /\ a.acr = "pwd" => a.entered = {l}
    /\ a.acr = "2fa" => a.entered \subseteq {l}
    /\ \A s \in a.ses : s \in Sessions /\ o[s] = a.sub /\ a.sub # {}

\* What Hydra was told about each flow.  Nothing, as long as the login
\* request is open.
FlowInv ==
    \A l \in Flows :
        /\ Deserves(grant[l], l, skip[l], owner)
        /\ stage[l] \in {"new", "login"} => grant[l] = Nobody /\ claims[l] = {}
        /\ claims[l] \subseteq grant[l].sub

\* A request under way is about one flow, which has begun.  An answer to the
\* login request deserves it; one to the consent request is about the subject
\* who logged in.
RequestInv ==
    \A r \in Requests : req[r].pc # "idle" =>
        \E l \in Flows :
            /\ req[r].flow = {l} /\ stage[l] # "new"
            /\ req[r].pc = "accept" => /\ req[r].with.sub # {}
                                       /\ Deserves(req[r].with, l, skip[l], owner)
            /\ req[r].pc = "grant" => /\ stage[l] # "login"
                                      /\ req[r].with.sub = grant[l].sub

\* A challenge that keeps a flow keeps one that has begun.
ChallengeInv == \A p \in pending : \A l \in p.flow : l \in Flows /\ stage[l] # "new"

Inv == TypeOK /\ FlowInv /\ RequestInv /\ ChallengeInv

-----------------------------------------------------------------------------
\* What the sets of at most one member have as members.
LEMMA AtMostOneFacts ==
    ASSUME NEW S
    PROVE  /\ {} \in AtMostOne(S) /\ \A x \in S : {x} \in AtMostOne(S)
           /\ \A T \in AtMostOne(S) : T \subseteq S /\ (T = {} \/ \E x \in S : T = {x})
BY DEF AtMostOne

\* Nobody deserves every flow, since nobody is logged in with it.
LEMMA NobodyFacts ==
    /\ Nobody \in Acceptance
    /\ \A l, S, o : Deserves(Nobody, l, S, o)
    /\ \A T \in AtMostOne(Users) : [Nobody EXCEPT !.sub = T] \in Acceptance
    /\ Nobody.sub = {} /\ Nobody.ses = {} /\ Nobody.acr = "none"
    /\ \A T : [Nobody EXCEPT !.sub = T].sub = T
    /\ \A T, l, o : Deserves([Nobody EXCEPT !.sub = T], l, T, o)
<1>1. /\ {} \in AtMostOne(Users) /\ {} \in AtMostOne(Sessions) /\ {} \in AtMostOne(Flows)
  BY AtMostOneFacts
<1> QED
  BY <1>1 DEF Nobody, Acceptance, Deserves

\* The login session of a user is added to a session id nobody had: what an
\* acceptance deserved before, it still deserves.
LEMMA DeservesKept ==
    ASSUME NEW a, NEW l, NEW S, NEW u \in Users, NEW s \in Sessions,
           TypeOK, persist_session(u, s), Deserves(a, l, S, owner)
    PROVE  Deserves(a, l, S, owner')
BY DEF Deserves, persist_session, TypeOK

\* A request under way has its flow.
LEMMA FlowFacts ==
    ASSUME Inv, NEW r \in Requests, req[r].pc # "idle"
    PROVE  /\ Flow(r) \in Flows /\ req[r].flow = {Flow(r)} /\ stage[Flow(r)] # "new"
           /\ req[r].pc = "accept" =>
                 /\ req[r].with.sub # {}
                 /\ Deserves(req[r].with, Flow(r), skip[Flow(r)], owner)
           /\ req[r].pc = "grant" => /\ stage[Flow(r)] # "login"
                                     /\ req[r].with.sub = grant[Flow(r)].sub
<1>1. PICK l \in Flows :
         /\ req[r].flow = {l} /\ stage[l] # "new"
         /\ req[r].pc = "accept" => /\ req[r].with.sub # {}
                                    /\ Deserves(req[r].with, l, skip[l], owner)
         /\ req[r].pc = "grant" => /\ stage[l] # "login"
                                   /\ req[r].with.sub = grant[l].sub
  BY DEF Inv, RequestInv
<1>2. \A m \in Flows : req[r].flow = {m} => m = l
  BY <1>1
<1>3. Flow(r) = l
  BY <1>1, <1>2 DEF Flow
<1> QED
  BY <1>1, <1>3

-----------------------------------------------------------------------------
(***************************************************************************)
(* The initial state, and one lemma for each kind of step.                 *)
(***************************************************************************)

\* The service and Hydra start with nothing to deserve.
LEMMA InitInv == Init => Inv
<1> SUFFICES ASSUME Init PROVE Inv
  OBVIOUS
<1>1. /\ {} \in AtMostOne(Users) /\ {} \in AtMostOne(Flows)
  BY AtMostOneFacts
<1>2. TypeOK
  BY <1>1, NobodyFacts DEF Init, TypeOK, Idle
<1>3. FlowInv
  BY NobodyFacts DEF Init, FlowInv
<1>4. RequestInv /\ ChallengeInv
  BY DEF Init, RequestInv, ChallengeInv, Idle
<1> QED
  BY <1>2, <1>3, <1>4 DEF Inv

\* Steps that touch neither a flow nor a session nor a request: the second
\* factor goes on or off, an account or a remembered browser goes, a
\* challenge is issued or expires.
LEMMA AsideSteps ==
    ASSUME Inv, UNCHANGED <<owner, stage, skip, grant, claims, req>>,
           \/ \E u \in Users : logout(u) \/ confirm_2fa(u) \/ disable_2fa(u) \/ delete_me(u)
           \/ \E u \in Users, L \in AtMostOne(Flows) : issue(u, L)
           \/ \E p \in pending : ChallengeExpires(p)
    PROVE  Inv'
<1>1. FlowInv' /\ RequestInv'
  BY DEF Inv, FlowInv, RequestInv
<1>2. /\ deleted' \subseteq Users /\ enrolled' \subseteq Users /\ remembered' \subseteq Users
      /\ pending' \subseteq [user : Users, flow : AtMostOne(Flows)]
  BY DEF Inv, TypeOK, logout, confirm_2fa, disable_2fa, delete_me, issue, ChallengeExpires,
         appVars, hydraVars
<1>3. TypeOK'
  BY <1>2 DEF Inv, TypeOK
<1>4. ChallengeInv'
  <2>1. CASE \E u \in Users, L \in AtMostOne(Flows) : issue(u, L)
    <3>1. PICK u \in Users, L \in AtMostOne(Flows) : issue(u, L)
      BY <2>1
    <3>2. L \subseteq Flows
      BY AtMostOneFacts
    <3> QED
      BY <3>1, <3>2 DEF Inv, ChallengeInv, issue
  <2>2. CASE \E p \in pending : ChallengeExpires(p)
    BY <2>2 DEF Inv, ChallengeInv, ChallengeExpires
  <2>3. CASE \E u \in Users : logout(u) \/ confirm_2fa(u) \/ disable_2fa(u) \/ delete_me(u)
    BY <2>3 DEF Inv, ChallengeInv, logout, confirm_2fa, disable_2fa, delete_me, appVars
  <2> QED
    BY <2>1, <2>2, <2>3
<1> QED
  BY <1>1, <1>3, <1>4 DEF Inv

\* Hydra opens a login request, or drops a request.  Nobody has yet been
\* shown a flow whose remembered subject changes.
LEMMA HydraSteps ==
    ASSUME Inv, NEW l \in Flows,
           \/ \E S \in AtMostOne(Users) : Authorize(l, S)
           \/ Lapse(l) \/ reject_consent_request(l)
    PROVE  Inv'
<1> DEFINE Other == \A m \in Flows \ {l} : stage'[m] = stage[m] /\ skip'[m] = skip[m]
<1>1. /\ UNCHANGED <<deleted, enrolled, owner, pending, grant, claims, remembered, req>>
      /\ Other
  BY DEF Authorize, Lapse, reject_consent_request, appVars, Inv, TypeOK
<1>2. /\ stage' \in [Flows -> {"new", "login", "consent", "granted", "void"}]
      /\ skip' \in [Flows -> AtMostOne(Users)]
  BY DEF Authorize, Lapse, reject_consent_request, Inv, TypeOK
<1>3. \/ stage[l] = "new" /\ stage'[l] = "login"
      \/ stage[l] \in {"login", "consent"} /\ stage'[l] = "void" /\ skip'[l] = skip[l]
  BY DEF Authorize, Lapse, reject_consent_request, Inv, TypeOK
<1> HIDE DEF Other
<1>4. TypeOK'
  BY <1>1, <1>2, <1>3 DEF Inv, TypeOK, Other
<1>5. FlowInv'
  <2> SUFFICES ASSUME NEW m \in Flows
               PROVE  /\ Deserves(grant[m], m, skip'[m], owner)
                      /\ stage'[m] \in {"new", "login"} => grant[m] = Nobody /\ claims[m] = {}
                      /\ claims[m] \subseteq grant[m].sub
    BY <1>1 DEF FlowInv
  <2>1. CASE m # l
    BY <2>1, <1>1 DEF Inv, FlowInv, Other
  <2>2. CASE m = l
    BY <2>2, <1>3, NobodyFacts DEF Inv, FlowInv
  <2> QED
    BY <2>1, <2>2
<1>6. RequestInv'
  <2> SUFFICES ASSUME NEW r \in Requests, req[r].pc # "idle"
               PROVE  \E m \in Flows :
                         /\ req[r].flow = {m} /\ stage'[m] # "new"
                         /\ req[r].pc = "accept" => /\ req[r].with.sub # {}
                                                    /\ Deserves(req[r].with, m, skip'[m], owner)
                         /\ req[r].pc = "grant" => /\ stage'[m] # "login"
                                                   /\ req[r].with.sub = grant[m].sub
    BY <1>1 DEF RequestInv
  <2> QED
    BY <1>1, <1>3, FlowFacts DEF Other
<1>7. ChallengeInv'
  BY <1>1, <1>3 DEF Inv, ChallengeInv, Other
<1> QED
  BY <1>4, <1>5, <1>6, <1>7 DEF Inv

\* A request takes its next step towards Hydra, or ends, or none does, while
\* sessions are created for whom they are created and challenges are used up.
LEMMA RequestSteps ==
    ASSUME Inv, UNCHANGED <<hydraVars, deleted, enrolled>>, pending' \subseteq pending,
           UNCHANGED owner \/ \E u \in Users, s \in Sessions : persist_session(u, s),
           \/ UNCHANGED req
           \/ \E r \in Requests : Done(r)
           \/ \E r \in Requests, l \in Flows, a \in Acceptance :
                 /\ To(r, "accept", l, a) /\ stage[l] # "new"
                 /\ a.sub # {} /\ Deserves(a, l, skip[l], owner')
           \/ \E r \in Requests, l \in Flows, a \in Acceptance :
                 /\ To(r, "grant", l, a) /\ stage[l] \notin {"new", "login"}
                 /\ a.sub = grant[l].sub
    PROVE  Inv'
<1>1. UNCHANGED <<stage, skip, grant, claims, remembered>>
  BY DEF hydraVars
<1>2. owner' \in [Sessions -> AtMostOne(Users)]
  <2>1. \A u \in Users : {u} \in AtMostOne(Users)
    BY AtMostOneFacts
  <2> QED
    BY <2>1 DEF Inv, TypeOK, persist_session
<1>3. \A a, l, S : Deserves(a, l, S, owner) => Deserves(a, l, S, owner')
  BY DeservesKept DEF Inv
<1>4. \A l \in Flows : {l} \in AtMostOne(Flows)
  BY AtMostOneFacts
<1>5. req' \in [Requests -> [pc : {"idle", "accept", "grant"}, flow : AtMostOne(Flows),
                             with : Acceptance]]
  <2>1. Idle \in [pc : {"idle", "accept", "grant"}, flow : AtMostOne(Flows), with : Acceptance]
    BY NobodyFacts, AtMostOneFacts DEF Idle
  <2> QED
    BY <1>4, <2>1 DEF Inv, TypeOK, Done, To
<1>6. TypeOK'
  BY <1>1, <1>2, <1>5 DEF Inv, TypeOK
<1>7. FlowInv' /\ ChallengeInv'
  BY <1>1, <1>3 DEF Inv, FlowInv, ChallengeInv
<1>8. RequestInv'
  <2> SUFFICES ASSUME NEW q \in Requests, req'[q].pc # "idle"
               PROVE  \E l \in Flows :
                         /\ req'[q].flow = {l} /\ stage[l] # "new"
                         /\ req'[q].pc = "accept" => /\ req'[q].with.sub # {}
                                                     /\ Deserves(req'[q].with, l, skip[l], owner')
                         /\ req'[q].pc = "grant" => /\ stage[l] # "login"
                                                    /\ req'[q].with.sub = grant[l].sub
    BY <1>1 DEF RequestInv
  <2>1. CASE req'[q] = req[q]
    BY <2>1, <1>3 DEF Inv, RequestInv
  <2>2. CASE req'[q] # req[q]
    BY <2>2 DEF Inv, TypeOK, Done, To, Idle
  <2> QED
    BY <2>1, <2>2
<1> QED
  BY <1>6, <1>7, <1>8 DEF Inv

\* Hydra takes the answer to a login request: the flow was open, so nothing
\* was granted or claimed before, and what is granted now was deserved.
LEMMA AcceptLoginStep ==
    ASSUME Inv, NEW r \in Requests, accept_login_request(r)
    PROVE  Inv'
<1> DEFINE f == Flow(r)
<1>1. /\ f \in Flows /\ req[r].pc = "accept" /\ stage[f] = "login" /\ req[r].with.sub # {}
      /\ Deserves(req[r].with, f, skip[f], owner)
  BY FlowFacts DEF accept_login_request
<1>2. /\ stage' = [stage EXCEPT ![f] = "consent"] /\ grant' = [grant EXCEPT ![f] = req[r].with]
      /\ req' = [req EXCEPT ![r] = Idle]
      /\ UNCHANGED <<deleted, enrolled, owner, pending, skip, claims>>
  BY DEF accept_login_request, Done, appVars
<1>3. req[r].with \in Acceptance /\ req[r].with.sub \subseteq Users
  <2>1. req[r].with \in Acceptance
    BY DEF Inv, TypeOK
  <2>2. req[r].with.sub \in AtMostOne(Users)
    BY <2>1 DEF Acceptance
  <2> QED
    BY <2>1, <2>2, AtMostOneFacts
<1>4. remembered' \subseteq Users
  BY <1>3 DEF accept_login_request, Inv, TypeOK
<1> HIDE DEF f
<1>5. TypeOK'
  <2>1. Idle \in [pc : {"idle", "accept", "grant"}, flow : AtMostOne(Flows), with : Acceptance]
    BY NobodyFacts, AtMostOneFacts DEF Idle
  <2> QED
    BY <1>1, <1>2, <1>3, <1>4, <2>1 DEF Inv, TypeOK
<1>6. FlowInv'
  <2>1. claims[f] = {}
    BY <1>1 DEF Inv, FlowInv
  <2> QED
    BY <1>1, <1>2, <2>1 DEF Inv, FlowInv, TypeOK
<1>7. RequestInv'
  <2> SUFFICES ASSUME NEW q \in Requests, req'[q].pc # "idle"
               PROVE  \E l \in Flows :
                         /\ req'[q].flow = {l} /\ stage'[l] # "new"
                         /\ req'[q].pc = "accept" => /\ req'[q].with.sub # {}
                                                     /\ Deserves(req'[q].with, l, skip[l], owner)
                         /\ req'[q].pc = "grant" => /\ stage'[l] # "login"
                                                    /\ req'[q].with.sub = grant'[l].sub
    BY <1>2 DEF RequestInv
  <2>1. q # r /\ req'[q] = req[q]
    BY <1>2 DEF Idle, Inv, TypeOK
  <2>2. \A l \in Flows : l # f => stage'[l] = stage[l] /\ grant'[l] = grant[l]
    BY <1>2 DEF Inv, TypeOK
  <2>3. stage'[f] = "consent"
    BY <1>1, <1>2 DEF Inv, TypeOK
  <2> QED
    BY <1>1, <2>1, <2>2, <2>3 DEF Inv, RequestInv
<1>8. ChallengeInv'
  BY <1>1, <1>2 DEF Inv, ChallengeInv, TypeOK
<1> QED
  BY <1>5, <1>6, <1>7, <1>8 DEF Inv

\* Hydra takes the answer to a consent request: the claims it was built from
\* are about the subject who logged in, who has not changed since.
LEMMA AcceptConsentStep ==
    ASSUME Inv, NEW r \in Requests, accept_consent_request(r)
    PROVE  Inv'
<1> DEFINE f == Flow(r)
<1>1. /\ f \in Flows /\ stage[f] = "consent" /\ req[r].with.sub = grant[f].sub
  BY FlowFacts DEF accept_consent_request
<1>2. /\ stage' = [stage EXCEPT ![f] = "granted"]
      /\ claims' = [claims EXCEPT ![f] = req[r].with.sub]
      /\ req' = [req EXCEPT ![r] = Idle]
      /\ UNCHANGED <<deleted, enrolled, owner, pending, skip, grant, remembered>>
  BY DEF accept_consent_request, Done, appVars
<1>3. req[r].with.sub \in AtMostOne(Users)
  BY DEF Inv, TypeOK, Acceptance
<1> HIDE DEF f
<1>4. TypeOK'
  <2>1. Idle \in [pc : {"idle", "accept", "grant"}, flow : AtMostOne(Flows), with : Acceptance]
    BY NobodyFacts, AtMostOneFacts DEF Idle
  <2> QED
    BY <1>1, <1>2, <1>3, <2>1 DEF Inv, TypeOK
<1>5. FlowInv'
  BY <1>1, <1>2 DEF Inv, FlowInv, TypeOK
<1>6. RequestInv'
  BY <1>1, <1>2 DEF Inv, RequestInv, TypeOK, Idle
<1>7. ChallengeInv'
  BY <1>1, <1>2 DEF Inv, ChallengeInv, TypeOK
<1> QED
  BY <1>4, <1>5, <1>6, <1>7 DEF Inv

\* The login pages: the acceptance they send was earned in the flow they
\* send it for.  A second factor goes to the flow its challenge keeps.
LEMMA LoginSteps ==
    ASSUME Inv, NEW r \in Requests, NEW l \in Flows,
           \/ login_form(r, l)
           \/ \E u \in Users, s \in Sessions : login_submit(r, l, u, s)
           \/ \E p \in pending, s \in Sessions : _submit_two_factor(r, l, p, s)
    PROVE  Inv'
<1>1. CASE login_form(r, l)
  <2> DEFINE a == [Nobody EXCEPT !.sub = skip[l]]
  <2>1. /\ a \in Acceptance /\ a.sub = skip[l] /\ Deserves(a, l, skip[l], owner)
    BY NobodyFacts DEF Inv, TypeOK
  <2>2. /\ To(r, "accept", l, a) /\ stage[l] # "new" /\ skip[l] # {}
        /\ UNCHANGED <<hydraVars, deleted, enrolled, pending, owner>>
    BY <1>1 DEF login_form, get_login_request, appVars
  <2> HIDE DEF a
  <2> QED
    BY <2>1, <2>2, RequestSteps
<1>2. CASE \E u \in Users, s \in Sessions : login_submit(r, l, u, s)
  <2>1. PICK u \in Users, s \in Sessions : login_submit(r, l, u, s)
    BY <1>2
  <2> DEFINE a == [sub |-> {u}, ses |-> {s}, acr |-> "pwd", entered |-> {l}]
  <2>2. a \in Acceptance /\ a.sub # {}
    BY AtMostOneFacts DEF Acceptance
  <2>3. /\ To(r, "accept", l, a) /\ stage[l] # "new" /\ persist_session(u, s)
        /\ UNCHANGED <<hydraVars, deleted, enrolled, pending>>
    BY <2>1 DEF login_submit
  <2>4. Deserves(a, l, skip[l], owner')
    BY <2>3 DEF Deserves, persist_session, Inv, TypeOK
  <2> HIDE DEF a
  <2> QED
    BY <2>2, <2>3, <2>4, RequestSteps
<1>3. CASE \E p \in pending, s \in Sessions : _submit_two_factor(r, l, p, s)
  <2>1. PICK p \in pending, s \in Sessions : _submit_two_factor(r, l, p, s)
    BY <1>3
  <2>2. PICK to \in (IF p.flow = {} THEN {l} ELSE p.flow) : To(r, "accept", to, Earned(p, s))
    BY <2>1 DEF _submit_two_factor
  <2>3. /\ p.user \in Users /\ p.flow \in AtMostOne(Flows)
    BY DEF Inv, TypeOK
  <2>4. to \in Flows /\ stage[to] # "new" /\ p.flow \subseteq {to}
    BY <2>1, <2>2, <2>3, AtMostOneFacts DEF _submit_two_factor, Inv, ChallengeInv
  <2>5. Earned(p, s) \in Acceptance /\ Earned(p, s).sub # {}
    BY <2>3, AtMostOneFacts DEF Acceptance, Earned
  <2>6. /\ persist_session(p.user, s) /\ pending' \subseteq pending
        /\ UNCHANGED <<hydraVars, deleted, enrolled>>
    BY <2>1 DEF _submit_two_factor, complete_2fa
  <2>7. Deserves(Earned(p, s), to, skip[to], owner')
    BY <2>4, <2>6 DEF Deserves, persist_session, Inv, TypeOK, Earned
  <2> QED
    BY <2>2, <2>3, <2>4, <2>5, <2>6, <2>7, RequestSteps
<1> QED
  BY <1>1, <1>2, <1>3

\* The consent pages: the claims are built from the grant of the flow itself.
LEMMA ConsentSteps ==
    ASSUME Inv, NEW r \in Requests, NEW l \in Flows, _accept_consent(r, l)
    PROVE  Inv'
<1> DEFINE a == [Nobody EXCEPT !.sub = grant[l].sub]
<1>1. grant[l].sub \in AtMostOne(Users)
  BY DEF Inv, TypeOK, Acceptance
<1>2. a \in Acceptance /\ a.sub = grant[l].sub
  BY <1>1, NobodyFacts
<1>3. /\ To(r, "grant", l, a) /\ stage[l] = "consent"
      /\ UNCHANGED <<hydraVars, deleted, enrolled, pending, owner>>
  BY DEF _accept_consent, build_claims, get_consent_request, appVars
<1> HIDE DEF a
<1> QED
  BY <1>2, <1>3, RequestSteps

\* What happens through the JSON API meanwhile, and a request that fails.
LEMMA OtherSteps ==
    ASSUME Inv,
           \/ \E r \in Requests : Die(r)
           \/ \E u \in Users, s \in Sessions : login(u, s)
           \/ \E p \in pending, s \in Sessions : complete_two_factor(p, s)
    PROVE  Inv'
<1>1. CASE \E r \in Requests : Die(r)
  BY <1>1, RequestSteps DEF Die, appVars
<1>2. CASE \E u \in Users, s \in Sessions : login(u, s)
  BY <1>2, RequestSteps DEF login
<1>3. CASE \E p \in pending, s \in Sessions : complete_two_factor(p, s)
  <2>1. PICK p \in pending, s \in Sessions : complete_two_factor(p, s)
    BY <1>3
  <2>2. p.user \in Users
    BY DEF Inv, TypeOK
  <2>3. /\ persist_session(p.user, s) /\ pending' \subseteq pending
        /\ UNCHANGED <<hydraVars, deleted, enrolled, req>>
    BY <2>1 DEF complete_two_factor, complete_2fa
  <2> QED
    BY <2>2, <2>3, RequestSteps
<1> QED
  BY <1>1, <1>2, <1>3

\* Every step keeps the invariant.
LEMMA StepInv == Inv /\ [Next]_vars => Inv'
<1> SUFFICES ASSUME Inv, [Next]_vars PROVE Inv'
  OBVIOUS
<1>1. ASSUME NEW l \in Flows, NEW S \in AtMostOne(Users), Authorize(l, S) PROVE Inv'
  BY <1>1, HydraSteps
<1>2. ASSUME NEW l \in Flows, Lapse(l) \/ reject_consent_request(l) PROVE Inv'
  BY <1>2, HydraSteps
<1>3. ASSUME NEW r \in Requests, accept_login_request(r) PROVE Inv'
  BY <1>3, AcceptLoginStep
<1>4. ASSUME NEW r \in Requests, accept_consent_request(r) PROVE Inv'
  BY <1>4, AcceptConsentStep
<1>5. ASSUME NEW r \in Requests, Die(r) PROVE Inv'
  BY <1>5, OtherSteps
<1>6. ASSUME NEW r \in Requests, NEW l \in Flows,
             login_form(r, l) \/ consent_form(r, l) \/ consent_submit(r, l)
      PROVE  Inv'
  BY <1>6, LoginSteps, ConsentSteps DEF consent_form, consent_submit
<1>7. ASSUME NEW r \in Requests, NEW l \in Flows, NEW u \in Users, NEW s \in Sessions,
             login_submit(r, l, u, s)
      PROVE  Inv'
  BY <1>7, LoginSteps
<1>8. ASSUME NEW r \in Requests, NEW l \in Flows, NEW p \in pending, NEW s \in Sessions,
             _submit_two_factor(r, l, p, s)
      PROVE  Inv'
  BY <1>8, LoginSteps
<1>9. ASSUME \/ \E u \in Users, L \in AtMostOne(Flows) : issue(u, L)
             \/ \E p \in pending : ChallengeExpires(p)
             \/ \E u \in Users : logout(u) \/ confirm_2fa(u) \/ disable_2fa(u) \/ delete_me(u)
      PROVE  Inv'
  <2>1. UNCHANGED <<owner, stage, skip, grant, claims, req>>
    BY <1>9 DEF issue, ChallengeExpires, logout, confirm_2fa, disable_2fa, delete_me,
                appVars, hydraVars
  <2> QED
    BY <1>9, <2>1, AsideSteps
<1>10. ASSUME \/ \E p \in pending, s \in Sessions : complete_two_factor(p, s)
              \/ \E u \in Users, s \in Sessions : login(u, s)
       PROVE  Inv'
  BY <1>10, OtherSteps
<1>11. CASE UNCHANGED vars
  BY <1>11 DEF vars, appVars, hydraVars, Inv, TypeOK, FlowInv, RequestInv, ChallengeInv
<1> QED
  BY <1>1, <1>2, <1>3, <1>4, <1>5, <1>6, <1>7, <1>8, <1>9, <1>10, <1>11 DEF Next

-----------------------------------------------------------------------------
(***************************************************************************)
(* The theorems.                                                           *)
(***************************************************************************)

\* Flows, requests and challenges carry only what was deserved: the inductive
\* invariant holds in every reachable state.
THEOREM Invariance == Spec => []Inv
BY InitInv, StepInv, PTL DEF Spec

\* The variables keep their shapes, and no consent or token is ever without
\* a subject.
THEOREM TypeCorrect == Spec => []TypeOK
<1>1. Inv => TypeOK
  BY DEF Inv
<1> QED
  BY <1>1, Invariance, PTL

\* Who is logged in to a flow earned it there: nobody completes the flow of
\* another browser, however forms, challenges, retries and Hydra's answers
\* interleave.
THEOREM LoginsAreEarned == Spec => []LoginIsEarned
<1>1. Inv => LoginIsEarned
  BY DEF Inv, FlowInv, Deserves, LoginIsEarned
<1> QED
  BY <1>1, Invariance, PTL
=============================================================================

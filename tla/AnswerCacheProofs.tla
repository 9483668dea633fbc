------------------------- MODULE AnswerCacheProofs -------------------------
(***************************************************************************)
(* Proofs about AnswerCache, for any threads, questions, answers, settings *)
(* and clock resolution.                                                   *)
(***************************************************************************)
EXTENDS AnswerCache, SequenceTheorems, TLAPS

-----------------------------------------------------------------------------
(* Whole seconds of a finer clock.                                         *)

(* Whole seconds, turned back into ticks, are no more than there were.     *)
LEMMA DivBelow ==
  ASSUME NEW n \in Nat, NEW d \in Nat \ {0}
  PROVE  /\ n \div d \in Nat /\ (n \div d) * d <= n
         /\ (n \div d) * d + d > n
<1>1. n = d * (n \div d) + (n % d) /\ n % d \in 0..(d - 1) /\ n \div d \in Int
      OBVIOUS
<1> PICK q : q = n \div d
    OBVIOUS
<1>2. q \in Int /\ n % d \in Int /\ n = d * q + (n % d) /\ 0 <= n % d /\ n % d < d
      BY <1>1
<1>3. d * q = q * d
      BY <1>2
<1>4. q >= 0
      BY <1>2
<1> QED
    BY <1>2, <1>3, <1>4

LEMMA DivMonotone ==
  ASSUME NEW m \in Nat, NEW n \in Nat, NEW d \in Nat \ {0}, m <= n
  PROVE  m \div d <= n \div d
<1> PICK p : p = m \div d
    OBVIOUS
<1> PICK q : q = n \div d
    OBVIOUS
<1>1. p \in Nat /\ q \in Nat /\ p * d <= m /\ q * d + d > n
      BY DivBelow
<1>2. p * d < q * d + d
      BY <1>1
<1>3. p < q + 1
      BY <1>1, <1>2
<1> QED
    BY <1>1, <1>3

-----------------------------------------------------------------------------
(* The OrderedDict, as a sequence: sound entries, one for each key, in the *)
(* order of their last use.                                                *)
Sound(e) ==
  /\ e \in Entries
  /\ Respects(e.ttl, e.limits)
  /\ e.expires_at = e.inserted_at + e.ttl * TicksPerSec

Ordered(s) ==
  /\ s \in Seq(Entries)
  /\ \A i \in 1..Len(s) : Sound(s[i]) /\ s[i].used_at <= clock
  /\ \A i, j \in 1..Len(s) : i < j => s[i].used_at <= s[j].used_at
  /\ \A i, j \in 1..Len(s) : s[i].key = s[j].key => i = j

LEMMA Capacity == capacity \in Nat \ {0}
BY CacheAssumption DEF capacity

(* del: the other entries keep their places relative to one another.       *)
LEMMA RemoveAtIs ==
  ASSUME NEW S, NEW s \in Seq(S), NEW p \in 1..Len(s)
  PROVE  /\ RemoveAt(s, p) \in Seq(S) /\ Len(RemoveAt(s, p)) = Len(s) - 1
         /\ \A i \in 1..(Len(s) - 1) :
              RemoveAt(s, p)[i] = IF i < p THEN s[i] ELSE s[i + 1]
<1> DEFINE a == SubSeq(s, 1, p - 1)
           b == SubSeq(s, p + 1, Len(s))
<1>0. Len(s) \in Nat /\ p \in Nat /\ p >= 1 /\ p <= Len(s) /\ \A i \in 1..Len(s) : s[i] \in S
      OBVIOUS
<1>1. a \in Seq(S) /\ Len(a) = p - 1 /\ \A i \in 1..(p - 1) : a[i] = s[i]
  <2>1. \A i \in 1..(p - 1) : s[i] \in S
        BY <1>0
  <2>2. 1 \in Int /\ p - 1 \in Int
        BY <1>0
  <2>3. /\ a \in Seq(S) /\ Len(a) = IF 1 <= p - 1 THEN (p - 1) - 1 + 1 ELSE 0
        /\ \A i \in 1..((p - 1) - 1 + 1) : a[i] = s[1 + i - 1]
        BY <2>1, <2>2, SubSeqProperties
  <2> HIDE DEF a
  <2> QED
      BY <1>0, <2>3
<1>2. b \in Seq(S) /\ Len(b) = Len(s) - p /\ \A i \in 1..(Len(s) - p) : b[i] = s[p + i]
  <2>1. \A i \in (p + 1)..Len(s) : s[i] \in S
        BY <1>0
  <2>2. p + 1 \in Int /\ Len(s) \in Int
        BY <1>0
  <2>3. /\ b \in Seq(S) /\ Len(b) = IF p + 1 <= Len(s) THEN Len(s) - (p + 1) + 1 ELSE 0
        /\ \A i \in 1..(Len(s) - (p + 1) + 1) : b[i] = s[(p + 1) + i - 1]
        BY <2>1, <2>2, SubSeqProperties
  <2> HIDE DEF b
  <2> QED
      BY <1>0, <2>3
<1>3. RemoveAt(s, p) = a \o b
      BY DEF RemoveAt
<1> HIDE DEF a, b
<1>4. /\ a \o b \in Seq(S) /\ Len(a \o b) = Len(a) + Len(b)
      /\ \A i \in 1..(Len(a) + Len(b)) :
           (a \o b)[i] = IF i <= Len(a) THEN a[i] ELSE b[i - Len(a)]
      BY <1>1, <1>2, ConcatProperties
<1>5. ASSUME NEW i \in 1..(Len(s) - 1)
      PROVE  (a \o b)[i] = IF i < p THEN s[i] ELSE s[i + 1]
  <2>1. CASE i < p
        BY <1>0, <1>1, <1>2, <1>4, <2>1
  <2>2. CASE ~(i < p)
    <3>1. i - (p - 1) \in 1..(Len(s) - p) /\ p + (i - (p - 1)) = i + 1
          BY <1>0, <2>2
    <3>2. (a \o b)[i] = b[i - (p - 1)]
          BY <1>0, <1>1, <1>2, <1>4, <2>2
    <3> QED
        BY <1>2, <2>2, <3>1, <3>2
  <2> QED
      BY <2>1, <2>2
<1> QED
    BY <1>0, <1>1, <1>2, <1>3, <1>4, <1>5

(* The position of a key that is cached.                                   *)
LEMMA PositionOf ==
  ASSUME data \in Seq(Entries), NEW k \in CachedKeys
  PROVE  Position(k) \in 1..Len(data) /\ data[Position(k)].key = k
<1>1. \E i \in DOMAIN data : data[i].key = k
      BY DEF CachedKeys
<1>2. Position(k) \in DOMAIN data /\ data[Position(k)].key = k
      BY <1>1 DEF Position
<1> QED
    BY <1>2

LEMMA WithoutIs ==
  ASSUME Ordered(data), NEW k
  PROVE  /\ Ordered(Without(k)) /\ Len(Without(k)) <= Len(data)
         /\ k \in CachedKeys => Len(Without(k)) < Len(data)
         /\ k \notin CachedKeys => Without(k) = data
         /\ \A i \in 1..Len(Without(k)) : Without(k)[i].key # k
         /\ \A e \in Range(Without(k)) : e \in Range(data)
         /\ \A e \in Range(data) : e.key # k => e \in Range(Without(k))
<1>0. data \in Seq(Entries) /\ Len(data) \in Nat /\ DOMAIN data = 1..Len(data)
      BY DEF Ordered
<1>1. CASE k \notin CachedKeys
      BY <1>0, <1>1 DEF Without, CachedKeys
<1>2. CASE k \in CachedKeys
  <2> PICK p : p = Position(k)
      OBVIOUS
  <2> PICK w : w = Without(k)
      OBVIOUS
  <2>1. p \in 1..Len(data) /\ data[p].key = k
        BY <1>0, <1>2, PositionOf
  <2>2. /\ w \in Seq(Entries) /\ Len(w) = Len(data) - 1
        /\ \A i \in 1..(Len(data) - 1) : w[i] = IF i < p THEN data[i] ELSE data[i + 1]
        BY <1>0, <1>2, <2>1, RemoveAtIs DEF Without
  <2>3. DOMAIN w = 1..Len(w)
        BY <2>2
  <2>4. ASSUME NEW i \in 1..Len(w)
        PROVE  \E m \in 1..Len(data) : w[i] = data[m] /\ m # p
        BY <1>0, <2>1, <2>2
  <2> DEFINE old(i) == IF i < p THEN i ELSE i + 1
  <2>12. \A i \in 1..Len(w) : old(i) \in 1..Len(data) /\ w[i] = data[old(i)]
        BY <1>0, <2>1, <2>2
  <2>13. \A i, j \in 1..Len(w) : i < j => old(i) < old(j)
        BY <1>0, <2>1, <2>2
  <2> HIDE DEF old
  <2>5. \A i \in 1..Len(w) : w[i].key # k /\ Sound(w[i]) /\ w[i].used_at <= clock
        BY <2>1, <2>4 DEF Ordered
  <2>6. ASSUME NEW i \in 1..Len(w), NEW j \in 1..Len(w), i < j
        PROVE  w[i].used_at <= w[j].used_at
    <3>1. /\ old(i) \in 1..Len(data) /\ old(j) \in 1..Len(data) /\ old(i) < old(j)
          /\ w[i] = data[old(i)] /\ w[j] = data[old(j)]
          BY <2>12, <2>13, <2>6
    <3> QED
        BY <3>1 DEF Ordered
  <2>7. ASSUME NEW i \in 1..Len(w), NEW j \in 1..Len(w), w[i].key = w[j].key
        PROVE  i = j
    <3>1. /\ old(i) \in 1..Len(data) /\ old(j) \in 1..Len(data)
          /\ w[i] = data[old(i)] /\ w[j] = data[old(j)]
          /\ i < j => old(i) < old(j)
          /\ j < i => old(j) < old(i)
          BY <2>12, <2>13
    <3>2. old(i) = old(j)
          BY <2>7, <3>1 DEF Ordered
    <3> QED
        BY <1>0, <2>2, <3>1, <3>2
  <2>8. ASSUME NEW m \in 1..Len(data), data[m].key # k
        PROVE  \E i \in 1..Len(w) : w[i] = data[m]
    <3>1. m # p
          BY <2>1, <2>8
    <3>2. CASE m < p
      <4>1. m \in 1..Len(w) /\ w[m] = data[m]
            BY <1>0, <2>1, <2>2, <3>2
      <4> QED
          BY <4>1
    <3>3. CASE m > p
      <4>1. m - 1 \in 1..Len(w) /\ w[m - 1] = data[m]
            BY <1>0, <2>1, <2>2, <3>3
      <4> QED
          BY <4>1
    <3> QED
        BY <1>0, <2>1, <3>1, <3>2, <3>3
  <2>9. Ordered(w)
        BY <2>2, <2>5, <2>6, <2>7 DEF Ordered
  <2>10. \A e \in Range(w) : e \in Range(data)
        BY <1>0, <2>3, <2>4 DEF Range
  <2>11. \A e \in Range(data) : e.key # k => e \in Range(w)
        BY <1>0, <2>3, <2>8 DEF Range
  <2> QED
      BY <1>0, <1>2, <2>2, <2>5, <2>9, <2>10, <2>11
<1> QED
    BY <1>1, <1>2

(* The entry used last goes to the end.                                    *)
LEMMA AppendIs ==
  ASSUME clock \in Nat, NEW s, Ordered(s), NEW e, Sound(e), e.used_at = clock,
         \A i \in 1..Len(s) : s[i].key # e.key, NEW a, a = Append(s, e)
  PROVE  /\ Ordered(a) /\ Len(a) = Len(s) + 1 /\ a[Len(s) + 1] = e
         /\ \A i \in 1..Len(s) : a[i] = s[i]
<1>0. s \in Seq(Entries) /\ e \in Entries /\ Len(s) \in Nat
      BY DEF Ordered, Sound
<1>1. /\ a \in Seq(Entries) /\ Len(a) = Len(s) + 1 /\ a[Len(s) + 1] = e
      /\ \A i \in 1..Len(s) : a[i] = s[i]
      BY <1>0
<1>2. \A i \in 1..(Len(s) + 1) : i \in 1..Len(s) \/ i = Len(s) + 1
      BY <1>0
<1>3. \A i \in 1..Len(a) : Sound(a[i]) /\ a[i].used_at <= clock
      BY <1>1, <1>2 DEF Ordered
<1>4. ASSUME NEW i \in 1..Len(a), NEW j \in 1..Len(a), i < j
      PROVE  a[i].used_at <= a[j].used_at
  <2>1. i \in 1..Len(s)
        BY <1>0, <1>1, <1>4
  <2>2. CASE j = Len(s) + 1
        BY <1>1, <1>3, <2>2
  <2>3. CASE j \in 1..Len(s)
        BY <1>1, <1>4, <2>1, <2>3 DEF Ordered
  <2> QED
      BY <1>1, <1>2, <2>2, <2>3
<1>5. \A i, j \in 1..Len(a) : a[i].key = a[j].key => i = j
      BY <1>1, <1>2 DEF Ordered
<1> QED
    BY <1>1, <1>3, <1>4, <1>5 DEF Ordered

(* popitem(last=False): what is left are the last ones.                    *)
LEMMA TrimIs ==
  ASSUME NEW s, Ordered(s)
  PROVE  /\ Ordered(Trim(s)) /\ Len(Trim(s)) <= capacity
         /\ Len(s) <= capacity => Trim(s) = s
         /\ Len(s) > capacity =>
              \A i \in (Len(s) - capacity + 1)..Len(s) : s[i] \in Range(Trim(s))
         /\ Len(s) > capacity =>
              \A e \in Range(Trim(s)) : \E i \in (Len(s) - capacity + 1)..Len(s) : e = s[i]
<1>0. capacity \in Nat \ {0} /\ s \in Seq(Entries) /\ Len(s) \in Nat
      BY Capacity DEF Ordered
<1>1. CASE Len(s) <= capacity
      BY <1>0, <1>1 DEF Trim
<1>2. CASE Len(s) > capacity
  <2> PICK r : r = Trim(s)
      OBVIOUS
  <2> PICK m : m = Len(s) - capacity + 1
      OBVIOUS
  <2>1. r = SubSeq(s, m, Len(s)) /\ m \in 1..Len(s)
        BY <1>0, <1>2 DEF Trim
  <2>2. \A i \in m..Len(s) : s[i] \in Entries
        BY <1>0, <2>1
  <2>3. /\ r \in Seq(Entries) /\ Len(r) = IF m <= Len(s) THEN Len(s) - m + 1 ELSE 0
        /\ \A i \in 1..(Len(s) - m + 1) : r[i] = s[m + i - 1]
        BY <1>0, <2>1, <2>2, SubSeqProperties
  <2> DEFINE old(i) == m + i - 1
  <2>4. /\ Len(r) = capacity /\ DOMAIN r = 1..Len(r)
        /\ \A i \in 1..Len(r) : r[i] = s[m + i - 1]
        BY <1>0, <1>2, <2>1, <2>3
  <2>5. \A i, j \in 1..Len(r) : /\ r[i] = s[old(i)]
                                /\ old(i) \in m..Len(s) /\ old(i) \in 1..Len(s)
                                /\ i < j => old(i) < old(j)
                                /\ old(i) = old(j) => i = j
        BY <1>0, <2>1, <2>4
  <2> HIDE DEF old
  <2>6. Ordered(r)
    <3>1. \A i \in 1..Len(r) : Sound(r[i]) /\ r[i].used_at <= clock
          BY <2>5 DEF Ordered
    <3>2. \A i, j \in 1..Len(r) : i < j => r[i].used_at <= r[j].used_at
          BY <2>5 DEF Ordered
    <3>3. \A i, j \in 1..Len(r) : r[i].key = r[j].key => i = j
          BY <2>5 DEF Ordered
    <3> QED
        BY <2>3, <3>1, <3>2, <3>3 DEF Ordered
  <2>7. ASSUME NEW i \in m..Len(s) PROVE s[i] \in Range(r)
    <3>1. i - m + 1 \in 1..Len(r) /\ m + (i - m + 1) - 1 = i
          BY <1>0, <1>2, <2>1, <2>4
    <3>2. r[i - m + 1] = s[i]
          BY <2>4, <3>1
    <3> QED
        BY <2>4, <3>1, <3>2 DEF Range
  <2>8. \A e \in Range(r) : \E i \in m..Len(s) : e = s[i]
        BY <2>4, <2>5 DEF Range
  <2> QED
      BY <1>0, <1>2, <2>4, <2>6, <2>7, <2>8
<1> QED
    BY <1>0, <1>1, <1>2

-----------------------------------------------------------------------------
(* The cache and the query threads.                                        *)
ThreadOK(t) ==
  /\ pc[t] # "idle" => key[t] \in Keys /\ settings[t] \in TtlSettings
  /\ pc[t] = "hit" => Sound(held[t]) /\ held[t].expires_at > now[t]
  /\ pc[t] = "set" => Sound(held[t]) /\ held[t].key = key[t]

ThreadsTyped ==
  /\ DOMAIN pc = Threads /\ DOMAIN key = Threads
  /\ now \in [Threads -> Nat] /\ DOMAIN held = Threads /\ DOMAIN settings = Threads

CacheInv ==
  /\ clock \in Nat /\ published \in TtlSettings
  /\ Ordered(data) /\ Len(data) <= capacity
  /\ ThreadsTyped
  /\ \A t \in Threads : ThreadOK(t)

(* A step of one thread.                                                   *)
LEMMA ThreadAlone ==
  ASSUME CacheInv, NEW t \in Threads, ThreadsTyped', ThreadOK(t)',
         \A u \in Threads \ {t} : /\ pc'[u] = pc[u] /\ key'[u] = key[u]
                                 /\ now'[u] = now[u] /\ held'[u] = held[u]
                                 /\ settings'[u] = settings[u]
  PROVE  \A u \in Threads : ThreadOK(u)'
<1> TAKE u \in Threads
<1>1. CASE u = t
      BY <1>1
<1>2. CASE u # t
      BY <1>2 DEF CacheInv, ThreadOK, Sound
<1> QED
    BY <1>1, <1>2

LEMMA AnsweredThreads ==
  ASSUME CacheInv, NEW t \in Threads, Answered(t)
  PROVE  ThreadsTyped' /\ \A u \in Threads : ThreadOK(u)'
<1>1. /\ pc' = [pc EXCEPT ![t] = "idle"] /\ key' = [key EXCEPT ![t] = NoKey]
      /\ now' = [now EXCEPT ![t] = 0] /\ held' = [held EXCEPT ![t] = NoEntry]
      /\ settings' = [settings EXCEPT ![t] = NoSettings]
      BY DEF Answered
<1>2. ThreadsTyped'
      BY <1>1 DEF CacheInv, ThreadsTyped
<1>3. pc'[t] = "idle"
      BY <1>1 DEF CacheInv, ThreadsTyped
<1>4. ThreadOK(t)'
      BY <1>3 DEF ThreadOK
<1> QED
    BY <1>1, <1>2, <1>4, ThreadAlone DEF CacheInv, ThreadsTyped

LEMMA OrderedKept ==
  ASSUME NEW s, Ordered(s), clock \in Nat, clock' \in Nat, clock <= clock'
  PROVE  Ordered(s)'
<1>1. \A i \in 1..Len(s) : s[i].used_at \in Nat
      BY DEF Ordered, Sound, Entries
<1> QED
    BY <1>1 DEF Ordered, Sound

LEMMA BeginGetKeeps ==
  ASSUME CacheInv, NEW t \in Threads, NEW k \in Keys, BeginGet(t, k)
  PROVE  CacheInv'
<1>1. /\ pc' = [pc EXCEPT ![t] = "get"] /\ key' = [key EXCEPT ![t] = k]
      /\ now' = [now EXCEPT ![t] = clock] /\ UNCHANGED <<held, data, clock, published>>
      /\ settings' = [settings EXCEPT ![t] = published]
      BY DEF BeginGet, ThreadFrame
<1>2. ThreadsTyped'
      BY <1>1 DEF CacheInv, ThreadsTyped
<1>3. pc'[t] = "get" /\ key'[t] = k /\ settings'[t] \in TtlSettings
      BY <1>1 DEF CacheInv, ThreadsTyped
<1>4. ThreadOK(t)'
      BY <1>3 DEF ThreadOK
<1>5. \A u \in Threads : ThreadOK(u)'
      BY <1>1, <1>2, <1>4, ThreadAlone DEF CacheInv, ThreadsTyped
<1> QED
    BY <1>1, <1>2, <1>5 DEF CacheInv, Ordered, Sound

LEMMA GetMissKeeps ==
  ASSUME CacheInv, NEW t \in Threads, GetMiss(t)
  PROVE  CacheInv'
<1> PICK w : w = Without(key[t])
    OBVIOUS
<1>1. /\ pc' = [pc EXCEPT ![t] = "forward"] /\ now' = [now EXCEPT ![t] = 0]
      /\ UNCHANGED <<key, settings, held, clock, published>> /\ data' = w /\ pc[t] = "get"
      BY DEF GetMiss, ThreadFrame
<1>2. ThreadsTyped'
      BY <1>1 DEF CacheInv, ThreadsTyped
<1>3. pc'[t] = "forward" /\ key'[t] \in Keys /\ settings'[t] \in TtlSettings
      BY <1>1 DEF CacheInv, ThreadsTyped, ThreadOK
<1>4. ThreadOK(t)'
      BY <1>3 DEF ThreadOK
<1>5. \A u \in Threads : ThreadOK(u)'
      BY <1>1, <1>2, <1>4, ThreadAlone DEF CacheInv, ThreadsTyped
<1>6. Ordered(w) /\ Len(w) <= Len(data)
      BY WithoutIs DEF CacheInv
<1>7. Len(w) \in Nat /\ Len(data) \in Nat /\ capacity \in Nat
      BY <1>6, Capacity DEF CacheInv, Ordered
<1>8. Len(w) <= capacity
      BY <1>6, <1>7 DEF CacheInv
<1> QED
    BY <1>1, <1>2, <1>5, <1>6, <1>8 DEF CacheInv, Ordered, Sound

LEMMA GetHitKeeps ==
  ASSUME CacheInv, NEW t \in Threads, GetHit(t)
  PROVE  CacheInv'
<1>k. PICK k : k = key[t]
      OBVIOUS
<1>w. PICK w : w = Without(k)
      OBVIOUS
<1>o. PICK o : o = EntryOf(k)
      OBVIOUS
<1>e. PICK e : e = [o EXCEPT !.used_at = clock]
      OBVIOUS
<1>d. PICK d : d = Append(w, e)
      OBVIOUS
<1>1. /\ pc' = [pc EXCEPT ![t] = "hit"] /\ held' = [held EXCEPT ![t] = o]
      /\ UNCHANGED <<key, now, settings, clock, published>> /\ data' = d /\ pc[t] = "get"
      /\ k \in CachedKeys /\ ~(o.expires_at <= now[t])
      BY <1>k, <1>w, <1>o, <1>e, <1>d DEF GetHit, ThreadFrame, Expired
<1>2. ThreadsTyped'
      BY <1>1 DEF CacheInv, ThreadsTyped
<1>3. Sound(o) /\ o.key = k
      BY <1>o, <1>1, PositionOf DEF CacheInv, Ordered, EntryOf
<1>4. clock \in Nat /\ now[t] \in Nat /\ o.expires_at \in Nat
      BY <1>3 DEF CacheInv, ThreadsTyped, Sound, Entries
<1>5. Sound(e) /\ e.key = k /\ e.used_at = clock
      BY <1>e, <1>3, <1>4 DEF Sound, Entries
<1>6. ThreadOK(t)'
  <2>1. pc'[t] = "hit" /\ held'[t] = o /\ key'[t] \in Keys /\ now'[t] = now[t]
        /\ settings'[t] \in TtlSettings
        BY <1>1 DEF CacheInv, ThreadsTyped, ThreadOK
  <2> QED
      BY <1>1, <1>3, <1>4, <2>1 DEF ThreadOK, Sound
<1>7. \A u \in Threads : ThreadOK(u)'
      BY <1>1, <1>2, <1>6, ThreadAlone DEF CacheInv, ThreadsTyped
<1>8. /\ Ordered(w) /\ Len(w) < Len(data)
      /\ \A i \in 1..Len(w) : w[i].key # k
      BY <1>w, <1>1, WithoutIs DEF CacheInv
<1>12. \A i \in 1..Len(w) : w[i].key # e.key
      BY <1>5, <1>8
<1>9. Ordered(d) /\ Len(d) = Len(w) + 1
      BY <1>4, <1>5, <1>8, <1>12, <1>d, AppendIs
<1>10. Len(w) \in Nat /\ Len(data) \in Nat /\ capacity \in Nat
      BY <1>8, Capacity DEF CacheInv, Ordered
<1>11. Len(data') <= capacity
      BY <1>1, <1>8, <1>9, <1>10 DEF CacheInv
<1> QED
    BY <1>1, <1>2, <1>7, <1>9, <1>11 DEF CacheInv, Ordered, Sound

(* _compute_ttl: a lifetime that is stored respects the limits.            *)
LEMMA ComputeTtl ==
  ASSUME NEW a \in Answers, NEW limits \in TtlSettings, ~(compute_ttl(a, limits) <= 0)
  PROVE  compute_ttl(a, limits) \in Nat /\ Respects(compute_ttl(a, limits), limits)
<1>1. a.ttl \in Nat /\ compute_ttl(a, limits) = clamp(a.ttl, limits)
      BY CacheAssumption DEF compute_ttl
<1>2. limits.cache_min_ttl \in Int /\ limits.cache_max_ttl \in Int
      BY CacheAssumption
<1> QED
    BY <1>1, <1>2 DEF clamp, Greatest, Least, Respects

LEMMA ReceiveKeeps ==
  ASSUME CacheInv, NEW t \in Threads, NEW a \in Answers, Receive(t, a)
  PROVE  CacheInv'
<1>0. UNCHANGED <<data, clock, published>> /\ pc[t] = "forward" /\ settings[t] \in TtlSettings
      BY DEF Receive, ThreadFrame, CacheInv, ThreadOK
<1>1. ThreadsTyped' /\ \A u \in Threads : ThreadOK(u)'
  <2>1. CASE compute_ttl(a, settings[t]) <= 0
    <3>1. Answered(t)
          BY <2>1 DEF Receive
    <3> QED
        BY <3>1, AnsweredThreads
  <2>2. CASE ~(compute_ttl(a, settings[t]) <= 0)
    <3> PICK n : n = compute_ttl(a, settings[t])
        OBVIOUS
    <3> PICK e : e = [key |-> key[t], inserted_at |-> clock, ttl |-> n,
                      expires_at |-> clock + n * TicksPerSec, limits |-> settings[t],
                      epoch |-> 0, used_at |-> 0]
        OBVIOUS
    <3>1. /\ held' = [held EXCEPT ![t] = e] /\ pc' = [pc EXCEPT ![t] = "set"]
          /\ UNCHANGED <<key, now, settings>>
          BY <2>2 DEF Receive
    <3>2. n \in Nat /\ Respects(n, settings[t])
          BY <1>0, <2>2, ComputeTtl
    <3>3. clock \in Nat /\ TicksPerSec \in Nat /\ key[t] \in Keys
          BY <1>0, CacheAssumption DEF CacheInv, ThreadOK
    <3>4. n * TicksPerSec \in Nat
          BY <3>2, <3>3
    <3>5. Sound(e) /\ e.key = key[t]
      <4>1. e \in Entries
            BY <1>0, <3>2, <3>3, <3>4 DEF Entries
      <4> QED
          BY <3>2, <4>1 DEF Sound
    <3>6. ThreadsTyped'
          BY <3>1 DEF CacheInv, ThreadsTyped
    <3>7. ThreadOK(t)'
      <4>1. pc'[t] = "set" /\ held'[t] = e /\ key'[t] = key[t] /\ settings'[t] = settings[t]
            BY <3>1 DEF CacheInv, ThreadsTyped
      <4> QED
          BY <1>0, <3>3, <3>5, <4>1 DEF ThreadOK, Sound
    <3> QED
        BY <3>1, <3>6, <3>7, ThreadAlone DEF CacheInv, ThreadsTyped
  <2> QED
      BY <2>1, <2>2
<1> QED
    BY <1>0, <1>1 DEF CacheInv, Ordered, Sound

(* What a store makes of the cache, before it is trimmed.                  *)
Stored(t) ==
  Append(Without(key[t]), [held[t] EXCEPT !.epoch = requests, !.used_at = clock])

LEMMA StoredIs ==
  ASSUME CacheInv, requests \in Nat, NEW t \in Threads, pc[t] = "set"
  PROVE  /\ Ordered(Stored(t)) /\ Len(Stored(t)) = Len(Without(key[t])) + 1
         /\ Stored(t)[Len(Stored(t))].key = key[t]
         /\ Stored(t)[Len(Stored(t))].epoch = requests
         /\ \A i \in 1..Len(Without(key[t])) : Stored(t)[i] = Without(key[t])[i]
<1>w. PICK w : w = Without(key[t])
      OBVIOUS
<1>e. PICK e : e = [held[t] EXCEPT !.epoch = requests, !.used_at = clock]
      OBVIOUS
<1>1. Sound(held[t]) /\ held[t].key = key[t] /\ clock \in Nat
      BY DEF CacheInv, ThreadOK
<1>2. Sound(e) /\ e.key = key[t] /\ e.used_at = clock /\ e.epoch = requests
      BY <1>e, <1>1 DEF Sound, Entries
<1>3. Ordered(w) /\ \A i \in 1..Len(w) : w[i].key # key[t]
      BY <1>w, WithoutIs DEF CacheInv
<1>5. \A i \in 1..Len(w) : w[i].key # e.key
      BY <1>2, <1>3
<1>d. PICK d : d = Append(w, e)
      OBVIOUS
<1>4. /\ Ordered(d) /\ Len(d) = Len(w) + 1 /\ d[Len(w) + 1] = e
      /\ \A i \in 1..Len(w) : d[i] = w[i]
  <2>1. clock \in Nat /\ Ordered(w) /\ Sound(e) /\ e.used_at = clock
        BY <1>1, <1>2, <1>3
  <2>2. Ordered(d) /\ Len(d) = Len(w) + 1
        BY <2>1, <1>5, <1>d, AppendIs
  <2>3. d[Len(w) + 1] = e /\ \A i \in 1..Len(w) : d[i] = w[i]
        BY <2>1, <1>d DEF Ordered, Sound
  <2> QED
      BY <2>2, <2>3
<1> QED
    BY <1>w, <1>e, <1>d, <1>2, <1>4 DEF Stored

LEMMA StoreKeeps ==
  ASSUME CacheInv, requests \in Nat, NEW t \in Threads, Store(t)
  PROVE  CacheInv'
<1> PICK s : s = Stored(t)
    OBVIOUS
<1>1. pc[t] = "set" /\ data' = Trim(s) /\ Answered(t) /\ UNCHANGED <<clock, published>>
      BY DEF Store, ThreadFrame, Stored
<1>2. ThreadsTyped' /\ \A u \in Threads : ThreadOK(u)'
      BY <1>1, AnsweredThreads
<1>3. Ordered(Trim(s)) /\ Len(Trim(s)) <= capacity
      BY <1>1, StoredIs, TrimIs
<1> QED
    BY <1>1, <1>2, <1>3 DEF CacheInv, Ordered, Sound

(* The other steps: the clock, the flusher, the mirror.                    *)
LEMMA OthersKeep ==
  ASSUME CacheInv, UNCHANGED threadVars, clock' \in Nat, clock <= clock',
         data' = data \/ data' = <<>>, published' \in TtlSettings
  PROVE  CacheInv'
<1>1. UNCHANGED <<pc, key, now, settings, held>>
      BY DEF threadVars
<1>2. ThreadsTyped' /\ \A t \in Threads : ThreadOK(t)'
      BY <1>1 DEF CacheInv, ThreadsTyped, ThreadOK, Sound
<1>3. Ordered(data)' /\ Len(data') <= capacity
  <2>1. CASE data' = data
    <3> PICK s : s = data
        OBVIOUS
    <3>1. Ordered(s)'
          BY OrderedKept DEF CacheInv
    <3> QED
        BY <2>1, <3>1 DEF CacheInv, Ordered, Sound
  <2>2. CASE data' = <<>>
    <3>1. Len(<<>>) = 0 /\ <<>> \in Seq(Entries) /\ 1..0 = {}
          OBVIOUS
    <3> QED
        BY <2>2, <3>1, Capacity DEF Ordered
  <2> QED
      BY <2>1, <2>2
<1> QED
    BY <1>2, <1>3 DEF CacheInv

LEMMA CacheStep == CacheInv /\ requests \in Nat /\ [Next]_vars => CacheInv'
<1> SUFFICES ASSUME CacheInv, requests \in Nat, [Next]_vars PROVE CacheInv'
    OBVIOUS
<1>1. ASSUME NEW t \in Threads, Query(t) PROVE CacheInv'
  <2>1. CASE \E k \in Keys : BeginGet(t, k)
        BY <2>1, BeginGetKeeps
  <2>2. CASE \E a \in Answers : Receive(t, a)
        BY <2>2, ReceiveKeeps
  <2>3. CASE GetMiss(t) \/ GetHit(t) \/ Store(t)
        BY <2>3, GetMissKeeps, GetHitKeeps, StoreKeeps
  <2>4. CASE ServeHit(t)
    <3>1. Answered(t) /\ UNCHANGED <<data, clock, published>>
          BY <2>4 DEF ServeHit, ThreadFrame
    <3>2. ThreadsTyped' /\ \A u \in Threads : ThreadOK(u)'
          BY <3>1, AnsweredThreads
    <3> QED
        BY <3>1, <3>2 DEF CacheInv, Ordered, Sound
  <2> QED
      BY <1>1, <2>1, <2>2, <2>3, <2>4 DEF Query
<1>2. CASE Tick \/ Reload
  <2>1. /\ UNCHANGED <<data, threadVars>> /\ clock' \in Nat /\ clock <= clock'
        /\ published' \in TtlSettings
        BY <1>2 DEF Tick, Reload, CacheInv
  <2> QED
      BY <2>1, OthersKeep
<1>3. CASE RequestFlush \/ Flusher \/ PollFails \/ Mirror \/ UNCHANGED vars
  <2>1. UNCHANGED <<clock, published, threadVars>> /\ (data' = data \/ data' = <<>>)
        BY <1>3 DEF RequestFlush, Flusher, PollFails, Mirror, BootFlusher, Poll, Compare,
             FlusherFrame, BeginSnapshot, TakeSnapshot, RecordMirror, RecordFails,
             MirrorFrame, vars
  <2> QED
      BY <2>1, OthersKeep DEF CacheInv
<1> QED
    BY <1>1, <1>2, <1>3 DEF Next

-----------------------------------------------------------------------------
(* The flusher.  Requests of different seconds are stored under growing    *)
(* numbers; a poll finds the number of a request it has not honoured       *)
(* greater than the one it saw last.                                       *)
FlushTyped ==
  /\ requests \in Nat /\ swallowed \in Nat /\ seen \in Nat /\ honoured \in Nat
  /\ requested \in Int /\ last_seen \in Int /\ polled \in Int
  /\ fpc \in {"boot", "idle", "polled"}

FlushOrder ==
  /\ NoRequest <= last_seen /\ last_seen <= requested
  /\ NoRequest <= polled /\ polled <= requested
  /\ requested <= Second
  /\ honoured <= seen /\ seen <= requests
  /\ swallowed <= requests
  /\ fpc = "boot" => /\ last_seen = NoRequest /\ swallowed = 0 /\ seen = 0 /\ honoured = 0
                     /\ requests > 0 => requested > NoRequest
  /\ fpc = "idle" => /\ seen = honoured
                     /\ requests > swallowed /\ requests > honoured => requested > last_seen
  /\ fpc = "polled" => /\ last_seen <= polled
                       /\ requests > swallowed /\ requests > seen => requested > polled
                       /\ seen > honoured => polled > last_seen

FlushInv == FlushTyped /\ (DistinctSeconds => FlushOrder /\ FlushHonoured)

LEMMA SecondIs == ASSUME clock \in Nat PROVE Second \in Nat
BY CacheAssumption, DivBelow DEF Second

(* What the cache loses or keeps carries its epoch along.                  *)
LEMMA EpochsKept ==
  ASSUME CacheInv, FlushInv, DistinctSeconds, honoured' = honoured,
         \A e \in Range(data') : \/ \E o \in Range(data) : e.epoch = o.epoch
                                 \/ e.epoch = requests
  PROVE  FlushHonoured'
<1>1. \A i \in DOMAIN data' : data'[i] \in Range(data')
      BY DEF Range
<1>2. \A o \in Range(data) : o.epoch >= honoured
      BY DEF Range, FlushInv, FlushHonoured
<1>3. requests >= honoured
      BY DEF FlushInv, FlushTyped, FlushOrder
<1> QED
    BY <1>1, <1>2, <1>3 DEF FlushHonoured

LEMMA QueryEpochs ==
  ASSUME CacheInv, requests \in Nat, NEW t \in Threads, Query(t)
  PROVE  \A e \in Range(data') : \/ \E o \in Range(data) : e.epoch = o.epoch
                                 \/ e.epoch = requests
<1>0. Ordered(data)
      BY DEF CacheInv
<1>1. CASE data' = data
      BY <1>1
<1>2. CASE GetMiss(t)
      BY <1>0, <1>2, WithoutIs DEF GetMiss
<1>3. CASE GetHit(t)
  <2>k. PICK k : k = key[t]
        OBVIOUS
  <2>w. PICK w : w = Without(k)
        OBVIOUS
  <2>o. PICK o : o = EntryOf(k)
        OBVIOUS
  <2>e. PICK e : e = [o EXCEPT !.used_at = clock]
        OBVIOUS
  <2>1. data' = Append(w, e) /\ k \in CachedKeys
        BY <1>3, <2>k, <2>w, <2>o, <2>e DEF GetHit
  <2>2. o \in Range(data) /\ o \in Entries
        BY <1>0, <2>1, <2>o, PositionOf DEF EntryOf, Ordered, Range
  <2>3. e.epoch = o.epoch /\ e \in Entries
        BY <2>2, <2>e DEF Entries, CacheInv
  <2>4. w \in Seq(Entries) /\ \A x \in Range(w) : x \in Range(data)
        BY <1>0, <2>w, WithoutIs DEF Ordered
  <2>5. \A x \in Range(data') : x \in Range(w) \/ x = e
    <3>1. /\ DOMAIN data' = 1..(Len(w) + 1) /\ data'[Len(w) + 1] = e
          /\ \A i \in 1..Len(w) : data'[i] = w[i]
          /\ DOMAIN w = 1..Len(w) /\ Len(w) \in Nat
          BY <2>1, <2>3, <2>4
    <3>2. \A i \in 1..(Len(w) + 1) : i \in 1..Len(w) \/ i = Len(w) + 1
          BY <3>1
    <3> QED
        BY <3>1, <3>2 DEF Range
  <2> QED
      BY <2>2, <2>3, <2>4, <2>5
<1>4. CASE Store(t)
  <2>s. PICK s : s = Stored(t)
        OBVIOUS
  <2>w. PICK w : w = Without(key[t])
        OBVIOUS
  <2>1. pc[t] = "set" /\ data' = Trim(s)
        BY <1>4, <2>s DEF Store, Stored
  <2>2. /\ Ordered(s) /\ Len(s) = Len(w) + 1 /\ s[Len(s)].epoch = requests
        /\ \A i \in 1..Len(w) : s[i] = w[i]
        BY <2>1, <2>s, <2>w, StoredIs
  <2>3. Ordered(w) /\ \A x \in Range(w) : x \in Range(data)
        BY <1>0, <2>w, WithoutIs
  <2>4. \A i \in 1..Len(s) : s[i].epoch = requests \/ s[i] \in Range(data)
    <3>1. Len(w) \in Nat /\ DOMAIN w = 1..Len(w)
          BY <2>3 DEF Ordered
    <3>2. \A i \in 1..Len(s) : i \in 1..Len(w) \/ i = Len(s)
          BY <2>2, <3>1
    <3>3. \A i \in 1..Len(w) : w[i] \in Range(w)
          BY <3>1 DEF Range
    <3> QED
        BY <2>2, <2>3, <3>2, <3>3
  <2>5. \A e \in Range(data') : \E i \in 1..Len(s) : e = s[i]
    <3>1. capacity \in Nat \ {0} /\ Len(s) \in Nat /\ DOMAIN s = 1..Len(s)
          BY <2>2, Capacity DEF Ordered
    <3>2. CASE Len(s) <= capacity
      <4>1. data' = s
            BY <2>1, <2>2, <3>2, TrimIs
      <4> QED
          BY <3>1, <4>1 DEF Range
    <3>3. CASE Len(s) > capacity
      <4>1. \A e \in Range(data') : \E i \in (Len(s) - capacity + 1)..Len(s) : e = s[i]
            BY <2>1, <2>2, <3>3, TrimIs
      <4>2. \A i \in (Len(s) - capacity + 1)..Len(s) : i \in 1..Len(s)
            BY <3>1, <3>3
      <4> QED
          BY <4>1, <4>2
    <3> QED
        BY <3>1, <3>2, <3>3
  <2> QED
      BY <2>4, <2>5
<1> QED
    BY <1>1, <1>2, <1>3, <1>4 DEF Query, BeginGet, ServeHit, Receive

LEMMA FlushStep == FlushInv /\ CacheInv /\ [Next]_vars => FlushInv'
<1> SUFFICES ASSUME FlushInv, CacheInv, [Next]_vars PROVE FlushInv'
    OBVIOUS
<1>0. /\ requests \in Nat /\ seen \in Nat /\ honoured \in Nat /\ requested \in Int
      /\ swallowed \in Nat
      /\ last_seen \in Int /\ polled \in Int /\ clock \in Nat /\ Second \in Nat
      BY SecondIs DEF FlushInv, FlushTyped, CacheInv
<1>1. ASSUME NEW t \in Threads, Query(t) PROVE FlushInv'
  <2>1. UNCHANGED <<clock, requests, swallowed, seen, honoured, requested, last_seen, polled, fpc>>
        BY <1>1 DEF Query, BeginGet, GetMiss, GetHit, ServeHit, Receive, Store,
             ThreadFrame, flushVars
  <2>2. FlushTyped' /\ (FlushOrder => FlushOrder')
        BY <2>1 DEF FlushInv, FlushTyped, FlushOrder, Second
  <2>3. DistinctSeconds => FlushHonoured'
        BY <1>0, <1>1, <2>1, QueryEpochs, EpochsKept
  <2> QED
      BY <2>2, <2>3 DEF FlushInv
<1>2. CASE Tick
  <2>1. /\ clock' = clock + 1 /\ data' = data
        /\ UNCHANGED <<requests, swallowed, seen, honoured, requested, last_seen, polled, fpc>>
        BY <1>2 DEF Tick, flushVars
  <2>2. Second <= Second' /\ Second' \in Nat
    <3> PICK c : c = clock'
        OBVIOUS
    <3>1. c \in Nat /\ clock <= c
          BY <1>0, <2>1
    <3>2. Second' = c \div TicksPerSec
          BY DEF Second
    <3> QED
        BY <1>0, <3>1, <3>2, CacheAssumption, DivBelow, DivMonotone DEF Second
  <2>3. FlushTyped' /\ (FlushOrder => FlushOrder')
        BY <1>0, <2>1, <2>2 DEF FlushInv, FlushTyped, FlushOrder
  <2> QED
      BY <2>1, <2>3 DEF FlushInv, FlushHonoured
<1>3. CASE RequestFlush
  <2>1. /\ requests' = requests + 1 /\ requested' = Second
        /\ DistinctSeconds => requested # Second
        /\ UNCHANGED <<clock, data, last_seen, fpc, polled, swallowed, seen, honoured>>
        BY <1>3 DEF RequestFlush
  <2>2. FlushTyped'
        BY <1>0, <2>1 DEF FlushInv, FlushTyped
  <2>3. Second' = Second
        BY <2>1 DEF Second
  <2>4. DistinctSeconds => FlushOrder'
        BY <1>0, <2>1, <2>3 DEF FlushInv, FlushOrder, NoRequest
  <2> QED
      BY <2>1, <2>2, <2>4 DEF FlushInv, FlushHonoured
<1>4. CASE BootFlusher
  <2>1. /\ fpc = "boot" /\ fpc' = "idle"
        /\ \/ last_seen' = requested /\ swallowed' = requests
           \/ UNCHANGED <<last_seen, swallowed>>
        /\ UNCHANGED <<clock, data, requests, requested, polled, seen, honoured>>
        BY <1>4 DEF BootFlusher, FlusherFrame
  <2>2. FlushTyped'
        BY <1>0, <2>1 DEF FlushInv, FlushTyped
  <2>3. Second' = Second
        BY <2>1 DEF Second
  <2>4. DistinctSeconds => FlushOrder'
        BY <1>0, <2>1, <2>3 DEF FlushInv, FlushOrder, NoRequest
  <2> QED
      BY <2>1, <2>2, <2>4 DEF FlushInv, FlushHonoured
<1>5. CASE Poll
  <2>1. /\ fpc = "idle" /\ fpc' = "polled" /\ polled' = requested
        /\ seen' = IF requests > swallowed THEN requests ELSE seen
        /\ UNCHANGED <<clock, data, requests, requested, last_seen, swallowed, honoured>>
        BY <1>5 DEF Poll, Found, FlusherFrame
  <2>2. FlushTyped'
        BY <1>0, <2>1 DEF FlushInv, FlushTyped
  <2>3. Second' = Second
        BY <2>1 DEF Second
  <2>4. DistinctSeconds => FlushOrder'
        BY <1>0, <2>1, <2>3 DEF FlushInv, FlushOrder, NoRequest
  <2> QED
      BY <2>1, <2>2, <2>4 DEF FlushInv, FlushHonoured
<1>6. CASE Compare
  <2>1. /\ fpc = "polled" /\ fpc' = "idle" /\ honoured' = seen
        /\ UNCHANGED <<clock, requests, requested, polled, swallowed, seen>>
        BY <1>6 DEF Compare, FlusherFrame
  <2>2. Second' = Second
        BY <2>1 DEF Second
  <2>3. CASE polled # NoRequest /\ polled # last_seen
    <3>1. data' = <<>> /\ last_seen' = polled
          BY <1>6, <2>3 DEF Compare
    <3>2. FlushTyped'
          BY <1>0, <2>1, <3>1 DEF FlushInv, FlushTyped
    <3>3. DistinctSeconds => FlushOrder'
          BY <1>0, <2>1, <2>2, <3>1 DEF FlushInv, FlushOrder
    <3> QED
        BY <3>1, <3>2, <3>3 DEF FlushInv, FlushHonoured
  <2>4. CASE ~(polled # NoRequest /\ polled # last_seen)
    <3>1. data' = data /\ last_seen' = last_seen
          BY <1>6, <2>4 DEF Compare
    <3>2. FlushTyped'
          BY <1>0, <2>1, <3>1 DEF FlushInv, FlushTyped
    <3>3. DistinctSeconds => polled = last_seen /\ seen = honoured
          BY <1>0, <2>1, <2>4 DEF FlushInv, FlushOrder, NoRequest
    <3>4. DistinctSeconds => FlushOrder'
          BY <1>0, <2>1, <2>2, <3>1, <3>3 DEF FlushInv, FlushOrder
    <3> QED
        BY <2>1, <3>1, <3>2, <3>3, <3>4 DEF FlushInv, FlushHonoured
  <2> QED
      BY <2>3, <2>4
<1>7. CASE Reload \/ PollFails \/ Mirror \/ UNCHANGED vars
  <2>1. UNCHANGED <<clock, data, requests, swallowed, seen, honoured, requested, last_seen, polled,
                    fpc>>
        BY <1>7 DEF Reload, PollFails, Mirror, FlusherFrame, BeginSnapshot, TakeSnapshot,
             RecordMirror, RecordFails, MirrorFrame, flushVars, vars
  <2> QED
      BY <2>1 DEF FlushInv, FlushTyped, FlushOrder, Second, FlushHonoured
<1> QED
    BY <1>1, <1>2, <1>3, <1>4, <1>5, <1>6, <1>7 DEF Next, Flusher

(* The cache, its threads and the flusher, in every reachable state.       *)
THEOREM CacheInvariant == Spec => [](CacheInv /\ FlushInv)
<1>1. Init => CacheInv /\ FlushInv
  <2> SUFFICES ASSUME Init PROVE CacheInv /\ FlushInv
      OBVIOUS
  <2>1. Len(<<>>) = 0 /\ <<>> \in Seq(Entries) /\ 1..0 = {} /\ DOMAIN <<>> = {}
        OBVIOUS
  <2>2. Ordered(data) /\ Len(data) <= capacity
        BY <2>1, Capacity DEF Init, Ordered
  <2>3. ThreadsTyped /\ \A t \in Threads : ThreadOK(t)
        BY DEF Init, ThreadsTyped, ThreadOK
  <2>4. clock = 0 /\ Second \in Nat
        BY SecondIs DEF Init
  <2>5. FlushTyped /\ FlushOrder /\ FlushHonoured
        BY <2>1, <2>4 DEF Init, FlushTyped, FlushOrder, FlushHonoured, NoRequest, Earlier
  <2> QED
      BY <2>2, <2>3, <2>4, <2>5 DEF Init, CacheInv, FlushInv
<1>2. FlushInv => requests \in Nat
      BY DEF FlushInv, FlushTyped
<1>3. CacheInv /\ FlushInv /\ [Next]_vars => (CacheInv /\ FlushInv)'
      BY <1>2, CacheStep, FlushStep
<1> QED
    BY <1>1, <1>3, PTL DEF Spec

(* DnsCache: however the gets, sets and clears of any threads interleave,  *)
(* one entry per question, no more than the capacity, and lifetimes that   *)
(* respect the limits their query was given, whatever integers these are   *)
(* and however often a reload replaces them.                               *)
THEOREM ShapeTheorem == Spec => []CacheShape
<1>1. CacheInv => CacheShape
  <2> SUFFICES ASSUME CacheInv PROVE CacheShape
      OBVIOUS
  <2>1. DOMAIN data = 1..Len(data)
        BY DEF CacheInv, Ordered
  <2> QED
      BY <2>1 DEF CacheInv, Ordered, Sound, CacheShape
<1> QED
    BY <1>1, CacheInvariant, PTL

(* The flush protocol: as long as no two requests fall into one second,    *)
(* nothing stored before a request is left once a poll after it is over.   *)
(* (With two in one second it fails: the run cache_flush_race.)            *)
THEOREM FlushTheorem == DistinctSeconds => (Spec => []FlushHonoured)
<1> SUFFICES ASSUME DistinctSeconds PROVE Spec => []FlushHonoured
    OBVIOUS
<1>1. FlushInv => FlushHonoured
      BY DEF FlushInv
<1> QED
    BY <1>1, CacheInvariant, PTL

-----------------------------------------------------------------------------
(* A reply carries whole seconds: never more than the entry has left.      *)
LEMMA RemainingIs ==
  ASSUME NEW e, e.expires_at \in Nat, NEW at \in Nat
  PROVE  /\ Remaining(e, at) \in Nat
         /\ e.expires_at > at => at + Remaining(e, at) * TicksPerSec <= e.expires_at
         /\ Remaining(e, at) > 0 => e.expires_at > at
<1>0. TicksPerSec \in Nat \ {0}
      BY CacheAssumption
<1>1. CASE e.expires_at <= at
      BY <1>1 DEF Remaining
<1>2. CASE ~(e.expires_at <= at)
  <2>1. Remaining(e, at) = (e.expires_at - at) \div TicksPerSec /\ e.expires_at - at \in Nat
        BY <1>2 DEF Remaining
  <2>2. PICK n \in Nat : n = e.expires_at - at
        BY <2>1
  <2>3. Remaining(e, at) \in Nat /\ Remaining(e, at) * TicksPerSec <= n
        BY <1>0, <2>1, <2>2, DivBelow
  <2>4. PICK x : x = Remaining(e, at) * TicksPerSec
        OBVIOUS
  <2>5. x \in Int
        BY <1>0, <2>3, <2>4
  <2> QED
      BY <1>2, <2>2, <2>3, <2>4, <2>5
<1> QED
    BY <1>1, <1>2

(* DnsCache.get and the reply made of it: an answer from the cache was     *)
(* live when its lookup began, and the TTL it carries ends no later than   *)
(* the lifetime it was stored with.                                        *)
THEOREM LifetimeTheorem == Spec => ServedWithinLifetime
<1> DEFINE Served(t) ==
             /\ held[t].expires_at > now[t]
             /\ ReplyTtl(t) >= 0
             /\ ReplyTtl(t) > 0 =>
                  clock + ReplyTtl(t) * TicksPerSec
                    <= held[t].inserted_at + held[t].ttl * TicksPerSec
<1>1. ASSUME CacheInv, NEW t \in Threads, ServeHit(t) PROVE Served(t)
  <2>1. Sound(held[t]) /\ held[t].expires_at > now[t] /\ clock \in Nat
        BY <1>1 DEF CacheInv, ThreadOK, ServeHit
  <2>2. /\ held[t].expires_at \in Nat
        /\ held[t].expires_at = held[t].inserted_at + held[t].ttl * TicksPerSec
        BY <2>1 DEF Sound, Entries
  <2>3. PICK n : n = ReplyTtl(t)
        OBVIOUS
  <2>4. /\ n \in Nat
        /\ n > 0 => held[t].expires_at > clock
        /\ held[t].expires_at > clock => clock + n * TicksPerSec <= held[t].expires_at
        BY <2>1, <2>2, <2>3, RemainingIs DEF ReplyTtl
  <2>5. n > 0 => clock + n * TicksPerSec <= held[t].expires_at
        BY <2>4
  <2>6. n >= 0
        BY <2>4
  <2> QED
      BY <2>1, <2>2, <2>3, <2>5, <2>6
<1> HIDE DEF Served
<1>2. CacheInv => [\A t \in Threads : ServeHit(t) => Served(t)]_vars
      BY <1>1
<1>3. Spec => [][\A t \in Threads : ServeHit(t) => Served(t)]_vars
      BY <1>2, CacheInvariant, PTL
<1> QED
    BY <1>3 DEF ServedWithinLifetime, Served

(* DnsCache.set: when a store pushes an answer out, the cache was full and *)
(* nothing it keeps was used less recently.                                *)
THEOREM EvictionTheorem == Spec => EvictsLeastRecentlyUsed
<1> DEFINE Evicts(t) ==
             \A e \in Range(data) : e.key \notin CachedKeys' =>
               /\ Len(data) = capacity
               /\ \A f \in Range(data') : f.used_at >= e.used_at
<1>1. ASSUME CacheInv, requests \in Nat, NEW t \in Threads, Store(t) PROVE Evicts(t)
  <2> SUFFICES ASSUME NEW e \in Range(data), e.key \notin CachedKeys'
               PROVE  /\ Len(data) = capacity
                      /\ \A f \in Range(data') : f.used_at >= e.used_at
      OBVIOUS
  <2>s. PICK s : s = Stored(t)
        OBVIOUS
  <2>w. PICK w : w = Without(key[t])
        OBVIOUS
  <2>1. pc[t] = "set" /\ data' = Trim(s)
        BY <1>1, <2>s DEF Store, Stored
  <2>2. /\ Ordered(s) /\ Len(s) = Len(w) + 1 /\ s[Len(s)].key = key[t]
        /\ \A i \in 1..Len(w) : s[i] = w[i]
        BY <1>1, <2>1, <2>s, <2>w, StoredIs
  <2>3. /\ Ordered(w) /\ Len(w) <= Len(data)
        /\ key[t] \in CachedKeys => Len(w) < Len(data)
        /\ key[t] \notin CachedKeys => w = data
        /\ e.key # key[t] => e \in Range(w)
        BY <1>1, <2>w, WithoutIs DEF CacheInv
  <2>4. /\ capacity \in Nat \ {0} /\ Len(s) \in Nat /\ Len(w) \in Nat /\ Len(data) \in Nat
        /\ DOMAIN w = 1..Len(w) /\ DOMAIN s = 1..Len(s) /\ Len(data) <= capacity
        /\ data \in Seq(Entries)
        BY <1>1, <2>2, <2>3, Capacity DEF Ordered, CacheInv
  <2>5. \A f \in Range(data') : f.key \in CachedKeys'
        BY DEF Range, CachedKeys
  <2>6. e \notin Range(data')
        BY <2>5
  <2>7. s[Len(s)] \in Range(data')
    <3>1. Len(s) \in 1..Len(s)
          BY <2>2, <2>4
    <3>2. CASE Len(s) <= capacity
      <4>1. data' = s
            BY <2>1, <2>2, <3>2, TrimIs
      <4> QED
          BY <2>4, <3>1, <4>1 DEF Range
    <3>3. CASE Len(s) > capacity
      <4>1. Len(s) \in (Len(s) - capacity + 1)..Len(s)
            BY <2>4, <3>3
      <4> QED
          BY <2>1, <2>2, <3>3, <4>1, TrimIs
    <3> QED
        BY <2>4, <3>2, <3>3
  <2>8. PICK i \in 1..Len(w) : e = w[i]
    <3>1. e.key # key[t]
          BY <2>2, <2>5, <2>7
    <3> QED
        BY <2>3, <2>4, <3>1 DEF Range
  <2>9. i \in 1..Len(s) /\ e = s[i]
        BY <2>2, <2>4, <2>8
  <2>10. Len(s) > capacity
    <3>1. CASE Len(s) <= capacity
      <4>1. data' = s
            BY <2>1, <2>2, <3>1, TrimIs
      <4> QED
          BY <2>4, <2>6, <2>9, <4>1 DEF Range
    <3> QED
        BY <2>4, <3>1
  <2>11. Len(data) = capacity /\ Len(s) = capacity + 1
        BY <2>2, <2>3, <2>4, <2>10
  <2>12. i < Len(s) - capacity + 1
    <3>1. i \in (Len(s) - capacity + 1)..Len(s) => e \in Range(data')
          BY <2>1, <2>2, <2>9, <2>10, TrimIs
    <3> QED
        BY <2>4, <2>6, <2>9, <3>1
  <2>13. ASSUME NEW f \in Range(data') PROVE f.used_at >= e.used_at
    <3>1. PICK j \in (Len(s) - capacity + 1)..Len(s) : f = s[j]
          BY <2>1, <2>2, <2>10, TrimIs
    <3>2. j \in 1..Len(s) /\ i < j
          BY <2>4, <2>9, <2>10, <2>12
    <3>3. s[i].used_at <= s[j].used_at
          BY <2>2, <2>9, <3>2 DEF Ordered
    <3>4. s[i] \in Entries /\ s[j] \in Entries
          BY <2>2, <2>9, <3>2 DEF Ordered
    <3> QED
        BY <2>9, <3>1, <3>3, <3>4 DEF Entries
  <2> QED
      BY <2>11, <2>13
<1> HIDE DEF Evicts
<1>2. CacheInv /\ FlushInv => [\A t \in Threads : Store(t) => Evicts(t)]_vars
      BY <1>1 DEF FlushInv, FlushTyped
<1>3. Spec => [][\A t \in Threads : Store(t) => Evicts(t)]_vars
      BY <1>2, CacheInvariant, PTL
<1> QED
    BY <1>3 DEF EvictsLeastRecentlyUsed, Evicts

-----------------------------------------------------------------------------
(* The mirror: its rows are dated from a clock read before the cache.      *)
MirrorInv ==
  /\ mnow \in Nat
  /\ \A r \in rows \cup mirror : r.expires_at <= r.entry.expires_at

LEMMA MirrorStep == MirrorInv /\ CacheInv /\ [Next]_vars => MirrorInv'
<1> SUFFICES ASSUME MirrorInv, CacheInv, [Next]_vars PROVE MirrorInv'
    OBVIOUS
<1>1. CASE TakeSnapshot
  <2>1. PICK at \in mnow..clock :
          rows' = {Row(e, at) : e \in {f \in Range(data) : f.expires_at > at}}
        BY <1>1 DEF TakeSnapshot
  <2>2. at \in Nat /\ mnow \in Nat /\ mnow <= at /\ UNCHANGED <<mnow, mirror>>
        BY <1>1, <2>1 DEF TakeSnapshot, MirrorInv, CacheInv
  <2>3. ASSUME NEW e \in Range(data), e.expires_at > at
        PROVE  Row(e, at).expires_at <= Row(e, at).entry.expires_at
    <3>1. e.expires_at \in Nat
      <4>1. data \in Seq(Entries)
            BY DEF CacheInv, Ordered
      <4>2. e \in Entries
            BY <4>1 DEF Range
      <4> QED
          BY <4>2 DEF Entries
    <3>2. PICK n : n = Remaining(e, at) * TicksPerSec
          OBVIOUS
    <3>3. n \in Nat /\ at + n <= e.expires_at
          BY <2>2, <2>3, <3>1, <3>2, RemainingIs, CacheAssumption
    <3>4. Row(e, at).expires_at = mnow + n /\ Row(e, at).entry = e
          BY <3>2 DEF Row
    <3> QED
        BY <2>2, <3>1, <3>3, <3>4
  <2> QED
      BY <2>1, <2>2, <2>3 DEF MirrorInv
<1>2. CASE BeginSnapshot
      BY <1>2 DEF BeginSnapshot, MirrorInv, CacheInv
<1>3. CASE RecordMirror \/ RecordFails
      BY <1>3 DEF RecordMirror, RecordFails, MirrorInv
<1>4. CASE (\E t \in Threads : Query(t)) \/ Tick \/ Reload \/ RequestFlush \/ Flusher \/ PollFails
           \/ UNCHANGED vars
  <2>1. UNCHANGED <<mirror, mnow, rows>>
        BY <1>4 DEF Query, BeginGet, GetMiss, GetHit, ServeHit, Receive, Store, ThreadFrame,
             Tick, Reload, RequestFlush, Flusher, BootFlusher, Poll, Compare, PollFails,
             FlusherFrame, mirrorVars, vars
  <2> QED
      BY <2>1 DEF MirrorInv
<1> QED
    BY <1>1, <1>2, <1>3, <1>4 DEF Next, Mirror

(* build_cache_snapshot: whatever time passes between the readings of the  *)
(* two clocks and of the cache, no row of the mirror claims a longer life  *)
(* than the entry has.                                                     *)
THEOREM MirrorTheorem == Spec => []MirrorNeverOverstates
<1>1. Init => MirrorInv
      BY DEF Init, MirrorInv
<1>2. MirrorInv => MirrorNeverOverstates
      BY DEF MirrorInv, MirrorNeverOverstates
<1> QED
    BY <1>1, <1>2, CacheInvariant, MirrorStep, PTL DEF Spec

-----------------------------------------------------------------------------
(* The types that the arguments above do not need.                         *)
Seconds == Nat \cup {NoRequest, Earlier}

ThreadRange ==
  /\ pc \in [Threads -> {"idle", "get", "hit", "forward", "set"}]
  /\ key \in [Threads -> Keys \cup {NoKey}]
  /\ settings \in [Threads -> TtlSettings \cup {NoSettings}]
  /\ held \in [Threads -> Entries \cup {NoEntry}]

FlushRange ==
  /\ clock \in 0..MaxTime /\ failures \in Nat /\ reloads \in Nat
  /\ requested \in Seconds /\ last_seen \in Seconds /\ polled \in Seconds

MirrorRange ==
  /\ mpc \in {"idle", "clock", "rows"} /\ snapshots \in Nat
  /\ \A r \in mirror \cup rows : r.entry \in Entries /\ r.expires_at \in Nat

(* A thread's entry comes from the cache or was made by set().             *)
LEMMA ThreadRangeStep ==
  ASSUME ThreadRange, CacheInv, CacheInv', [Next]_vars
  PROVE  ThreadRange'
<1>1. ASSUME NEW t \in Threads, Answered(t) PROVE ThreadRange'
      BY <1>1 DEF Answered, ThreadRange
<1>2. ASSUME NEW t \in Threads, NEW k \in Keys, BeginGet(t, k) PROVE ThreadRange'
      BY <1>2 DEF BeginGet, ThreadRange, CacheInv
<1>3. ASSUME NEW t \in Threads, GetMiss(t) PROVE ThreadRange'
      BY <1>3 DEF GetMiss, ThreadRange
<1>4. ASSUME NEW t \in Threads, NEW e, NEW place \in {"hit", "set"},
             pc' = [pc EXCEPT ![t] = place], held' = [held EXCEPT ![t] = e],
             UNCHANGED <<key, settings>>
      PROVE  ThreadRange'
  <2>1. pc'[t] = place /\ held'[t] = e
        BY <1>4 DEF ThreadRange
  <2>2. Sound(held[t])'
        BY <1>4, <2>1 DEF CacheInv, ThreadOK
  <2>3. e \in Entries
        BY <2>1, <2>2 DEF Sound
  <2> QED
      BY <1>4, <2>3 DEF ThreadRange
<1>5. ASSUME NEW t \in Threads, GetHit(t) PROVE ThreadRange'
  <2>1. /\ pc' = [pc EXCEPT ![t] = "hit"] /\ held' = [held EXCEPT ![t] = EntryOf(key[t])]
        /\ UNCHANGED <<key, settings>>
        BY <1>5 DEF GetHit
  <2> QED
      BY <1>4, <2>1
<1>6. ASSUME NEW t \in Threads, NEW a \in Answers, Receive(t, a) PROVE ThreadRange'
  <2>1. CASE Answered(t)
        BY <1>1, <2>1
  <2>2. CASE ~Answered(t)
    <3>1. PICK e : /\ held' = [held EXCEPT ![t] = e] /\ pc' = [pc EXCEPT ![t] = "set"]
                   /\ UNCHANGED <<key, settings>>
          BY <1>6, <2>2 DEF Receive
    <3> QED
        BY <1>4, <3>1
  <2> QED
      BY <2>1, <2>2
<1>7. CASE Tick \/ Reload \/ RequestFlush \/ Flusher \/ PollFails \/ Mirror \/ UNCHANGED vars
  <2>1. UNCHANGED <<pc, key, settings, held>>
        BY <1>7 DEF Tick, Reload, RequestFlush, Flusher, BootFlusher, Poll, Compare, PollFails,
             FlusherFrame, Mirror, BeginSnapshot, TakeSnapshot, RecordMirror, RecordFails,
             MirrorFrame, threadVars, vars
  <2> QED
      BY <2>1 DEF ThreadRange
<1> QED
    BY <1>1, <1>2, <1>3, <1>5, <1>6, <1>7 DEF Next, Query, ServeHit, Store

LEMMA FlushRangeStep ==
  ASSUME FlushRange, CacheInv, [Next]_vars
  PROVE  FlushRange'
<1>0. Second \in Nat /\ MaxTime \in Nat
      BY SecondIs, CacheAssumption DEF CacheInv
<1>1. CASE Tick
  <2>1. clock < MaxTime /\ clock' = clock + 1
        /\ UNCHANGED <<reloads, failures, requested, last_seen, polled>>
        BY <1>1 DEF Tick, flushVars
  <2> QED
      BY <1>0, <2>1 DEF FlushRange
<1>2. CASE RequestFlush
  <2>1. requested' = Second /\ UNCHANGED <<clock, reloads, failures, last_seen, polled>>
        BY <1>2 DEF RequestFlush
  <2> QED
      BY <1>0, <2>1 DEF FlushRange, Seconds
<1>3. CASE Flusher \/ PollFails
  <2>1. /\ UNCHANGED <<clock, reloads, requested>>
        /\ failures' = failures \/ failures' = failures + 1
        /\ last_seen' \in {last_seen, requested, polled} /\ polled' \in {polled, requested}
        BY <1>3 DEF Flusher, BootFlusher, Poll, Compare, PollFails, FlusherFrame
  <2> QED
      BY <2>1 DEF FlushRange
<1>4. CASE (\E t \in Threads : Query(t)) \/ Reload \/ Mirror \/ UNCHANGED vars
  <2>1. /\ UNCHANGED <<clock, failures, requested, last_seen, polled>>
        /\ reloads' = reloads \/ reloads' = reloads + 1
        BY <1>4 DEF Query, BeginGet, GetMiss, GetHit, ServeHit, Receive, Store, ThreadFrame,
             Reload, Mirror, BeginSnapshot, TakeSnapshot, RecordMirror, RecordFails,
             MirrorFrame, flushVars, vars
  <2> QED
      BY <2>1 DEF FlushRange
<1> QED
    BY <1>1, <1>2, <1>3, <1>4 DEF Next

LEMMA MirrorRangeStep ==
  ASSUME MirrorRange, MirrorInv, CacheInv, [Next]_vars
  PROVE  MirrorRange'
<1>1. CASE TakeSnapshot
  <2>1. PICK at \in mnow..clock :
          rows' = {Row(e, at) : e \in {f \in Range(data) : f.expires_at > at}}
        BY <1>1 DEF TakeSnapshot
  <2>2. at \in Nat /\ mnow \in Nat /\ TicksPerSec \in Nat
        BY <2>1, CacheAssumption DEF MirrorInv, CacheInv
  <2>3. mpc' = "rows" /\ UNCHANGED <<mirror, snapshots>>
        BY <1>1 DEF TakeSnapshot
  <2>4. ASSUME NEW e \in Range(data)
        PROVE  Row(e, at).entry \in Entries /\ Row(e, at).expires_at \in Nat
    <3>1. data \in Seq(Entries)
          BY DEF CacheInv, Ordered
    <3>2. e \in Entries
          BY <3>1 DEF Range
    <3>3. PICK n : n = Remaining(e, at)
          OBVIOUS
    <3>4. n \in Nat
      <4>1. e.expires_at \in Nat
            BY <3>2 DEF Entries
      <4> QED
          BY <2>2, <3>3, <4>1, RemainingIs
    <3>5. n * TicksPerSec \in Nat
          BY <2>2, <3>4
    <3>6. Row(e, at).entry = e /\ Row(e, at).expires_at = mnow + n * TicksPerSec
          BY <3>3 DEF Row
    <3> QED
        BY <2>2, <3>2, <3>5, <3>6
  <2>5. \A r \in rows' : r.entry \in Entries /\ r.expires_at \in Nat
        BY <2>1, <2>4
  <2> QED
      BY <2>3, <2>5 DEF MirrorRange
<1>2. CASE BeginSnapshot \/ RecordMirror \/ RecordFails
      BY <1>2 DEF BeginSnapshot, RecordMirror, RecordFails, MirrorRange
<1>3. CASE (\E t \in Threads : Query(t)) \/ Tick \/ Reload \/ RequestFlush \/ Flusher \/ PollFails
           \/ UNCHANGED vars
  <2>1. UNCHANGED <<mirror, mpc, rows, snapshots>>
        BY <1>3 DEF Query, BeginGet, GetMiss, GetHit, ServeHit, Receive, Store, ThreadFrame,
             Tick, Reload, RequestFlush, Flusher, BootFlusher, Poll, Compare, PollFails,
             FlusherFrame, mirrorVars, vars
  <2> QED
      BY <2>1 DEF MirrorRange
<1> QED
    BY <1>1, <1>2, <1>3 DEF Next, Mirror

(* Every variable keeps its type: the dictionary and the threads have      *)
(* whole entries for questions that were asked, and the rows of the mirror *)
(* are made from such entries.                                             *)
THEOREM TypeTheorem == Spec => []TypeOK
<1>1. Init => MirrorInv /\ ThreadRange /\ FlushRange /\ MirrorRange
      BY CacheAssumption DEF Init, MirrorInv, ThreadRange, FlushRange, MirrorRange, Seconds
<1>2. CacheInv /\ FlushInv /\ MirrorInv /\ ThreadRange /\ FlushRange /\ MirrorRange => TypeOK
      BY DEF CacheInv, Ordered, ThreadsTyped, FlushInv, FlushTyped, MirrorInv, ThreadRange,
             FlushRange, MirrorRange, Seconds, TypeOK
<1> QED
    BY <1>1, <1>2, CacheInvariant, MirrorStep, ThreadRangeStep, FlushRangeStep,
       MirrorRangeStep, PTL DEF Spec
=============================================================================

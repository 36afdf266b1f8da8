--------------------------- MODULE SharedStateProofs ---------------------------
(***************************************************************************)
(* Proofs about what the threads of a process share without a transaction: *)
(* the window of a rate limit (Throttle) and the vector index with its     *)
(* documents (EmbeddingCache), for any number of requests and processes.   *)
(***************************************************************************)
EXTENDS Throttle, EmbeddingCache, FiniteSetTheorems, SequenceTheorems,
        WellFoundedInduction, TLAPS

-----------------------------------------------------------------------------
(* Windows: sequences of ages, the oldest first *)

Sorted(s) == \A i, j \in 1..Len(s) : i <= j => s[i] >= s[j]

Events(s) == s \in Seq(Age) /\ Sorted(s)

\* Nothing in it has expired.
Fresh(s) == Events(s) /\ \A i \in 1..Len(s) : s[i] < Window

\* After a wait the first k events of s have expired, and no other.
Splits(s, wait, k) ==
  /\ k \in 0..Len(s)
  /\ \A i \in 1..k : s[i] + wait >= Window
  /\ \A i \in (k + 1)..Len(s) : s[i] + wait < Window

LEMMA SplitExists ==
  ASSUME NEW s, Events(s), NEW wait \in Nat
  PROVE  \E k : Splits(s, wait, k)
<1> DEFINE T == {m \in Nat : /\ m \in 1..(Len(s) + 1)
                             /\ m <= Len(s) => s[m] + wait < Window}
<1>1. /\ Len(s) \in Nat /\ \A i \in 1..Len(s) : s[i] \in Nat
      /\ Window \in Nat
  BY LenProperties, ElementOfSeq, ThrottleAssumption
     DEF Events, Age
<1>2. Len(s) + 1 \in T
  BY <1>1
<1>3. PICK m \in T : \A n \in T : ~ (<<n, m>> \in OpToRel(<, Nat))
  <2>1. T \subseteq Nat /\ T # {}
    BY <1>2
  <2> HIDE DEF T
  <2> QED
    BY <2>1, WFMin, NatLessThanWellFounded
<1>4. m \in 1..(Len(s) + 1) /\ (m <= Len(s) => s[m] + wait < Window)
  OBVIOUS
<1>5. \A n \in 1..(m - 1) : s[n] + wait >= Window
  <2> SUFFICES ASSUME NEW n \in 1..(m - 1), s[n] + wait < Window PROVE FALSE
    BY <1>1, <1>4
  <2>1. n \in T
    BY <1>1, <1>4
  <2>2. <<n, m>> \in OpToRel(<, Nat)
    BY <1>1, <1>4 DEF OpToRel
  <2> QED
    BY <1>3, <2>1, <2>2
<1>6. ASSUME NEW i \in m..Len(s)
      PROVE  s[i] + wait < Window
  <2>1. s[i] <= s[m]
    BY <1>1, <1>4 DEF Events, Sorted
  <2> QED
    BY <1>1, <1>4, <2>1
<1>7. Splits(s, wait, m - 1)
  BY <1>1, <1>4, <1>5, <1>6 DEF Splits
<1> QED
  BY <1>7

\* What remains after a wait is what the split leaves.
LEMMA RemainingIs ==
  ASSUME NEW s, Events(s), NEW wait \in Nat,
         NEW k, Splits(s, wait, k)
  PROVE  Remaining(s, wait) = SubSeq(s, k + 1, Len(s))
<1>1. /\ Len(s) \in Nat /\ DOMAIN s = 1..Len(s)
      /\ \A i \in 1..Len(s) : s[i] \in Nat
      /\ Window \in Nat /\ k \in 0..Len(s)
  BY LenProperties, ElementOfSeq, ThrottleAssumption
     DEF Events, Age, Splits
<1>2. Expired(s, wait) = 1..k
  BY <1>1 DEF Expired, Splits
<1>3. Cardinality(1..k) = k
  BY <1>1, FS_Interval
<1> QED
  BY <1>2, <1>3 DEF Remaining

\* The live events are the last ones, and they are all that have not expired.
LEMMA LiveIs ==
  ASSUME NEW s, Events(s)
  PROVE  \E k \in 0..Len(s) :
           /\ Fresh(Live(s))
           /\ Len(Live(s)) = Len(s) - k
           /\ \A i \in 1..(Len(s) - k) : Live(s)[i] = s[k + i]
           /\ \A i \in 1..k : s[i] = Window
           /\ k = 0 => Live(s) = s
<1>1. PICK k : Splits(s, 0, k)
  BY SplitExists
<1> DEFINE live == SubSeq(s, k + 1, Len(s))
<1>2. Live(s) = live
  <2>1. Remaining(s, 0) = live
    <3>1. 0 \in Nat
      OBVIOUS
    <3> HIDE DEF live
    <3>2. Remaining(s, 0) = SubSeq(s, k + 1, Len(s))
      BY <1>1, <3>1, RemainingIs
    <3> QED
      BY <3>2 DEF live
  <2> QED
    BY <2>1 DEF Live
<1>3. /\ Len(s) \in Nat /\ s \in Seq(Age) /\ Window \in Nat
      /\ \A i \in 1..Len(s) : s[i] \in 0..Window
      /\ k \in 0..Len(s)
  BY <1>1, LenProperties, ElementOfSeq, ThrottleAssumption
     DEF Events, Age, Splits
<1>4. /\ live \in Seq(Age) /\ Len(live) = Len(s) - k
      /\ \A i \in 1..(Len(s) - k) : live[i] = s[k + i]
  <2>1. \A i \in (k + 1)..Len(s) : s[i] \in Age
    BY <1>3 DEF Age
  <2>2. /\ live \in Seq(Age)
        /\ Len(live) = IF k + 1 <= Len(s) THEN Len(s) - (k + 1) + 1 ELSE 0
        /\ \A i \in 1 .. Len(s) - (k + 1) + 1 : live[i] = s[(k + 1) + i - 1]
    BY <1>3, <2>1, SubSeqProperties
  <2>3. Len(live) = Len(s) - k
    BY <1>3, <2>2
  <2>4. ASSUME NEW i \in 1..(Len(s) - k)
        PROVE  live[i] = s[k + i]
    <3>1. i \in 1 .. Len(s) - (k + 1) + 1 /\ (k + 1) + i - 1 = k + i
      BY <1>3
    <3> QED
      BY <2>2, <3>1
  <2> HIDE DEF live
  <2> QED
    BY <2>2, <2>3, <2>4
<1> HIDE DEF live
<1>5. Fresh(live)
  <2>1. Sorted(live)
    BY <1>3, <1>4 DEF Events, Sorted
  <2>2. \A i \in 1..Len(live) : live[i] < Window
    BY <1>1, <1>3, <1>4 DEF Splits
  <2> QED
    BY <1>4, <2>1, <2>2 DEF Fresh, Events
<1>6. \A i \in 1..k : s[i] = Window
  BY <1>1, <1>3 DEF Splits
<1>7. k = 0 => live = s
  BY <1>3, SubSeqFull DEF live
<1> QED
  BY <1>2, <1>3, <1>4, <1>5, <1>6, <1>7

LEMMA LiveOfFresh ==
  ASSUME NEW s, Fresh(s)
  PROVE  Live(s) = s
<1>1. Events(s) /\ Len(s) \in Nat /\ Window \in Nat
  BY LenProperties, ThrottleAssumption DEF Fresh, Events
<1>2. PICK k \in 0..Len(s) :
        (\A i \in 1..k : s[i] = Window) /\ (k = 0 => Live(s) = s)
  BY <1>1, LiveIs
<1>3. k = 0
  BY <1>1, <1>2 DEF Fresh
<1> QED
  BY <1>2, <1>3

LEMMA EmptyIsFresh == Fresh(<<>>)
<1>1. <<>> \in Seq(Age) /\ Len(<<>>) = 0
  BY EmptySeq
<1> QED
  BY <1>1 DEF Fresh, Events, Sorted

LEMMA AppendIsFresh ==
  ASSUME NEW s, Fresh(s)
  PROVE  Fresh(Append(s, 0))
<1> DEFINE longer == Append(s, 0)
<1>1. 0 \in Age /\ s \in Seq(Age) /\ Len(s) \in Nat /\ Window \in Nat \ {0}
      /\ \A i \in 1..Len(s) : s[i] \in 0..Window
  BY LenProperties, ElementOfSeq, ThrottleAssumption DEF Fresh, Events, Age
<1>2. /\ longer \in Seq(Age) /\ Len(longer) = Len(s) + 1
      /\ \A i \in 1..Len(s) : longer[i] = s[i]
      /\ longer[Len(s) + 1] = 0
  BY <1>1, AppendProperties
<1> HIDE DEF longer
<1>3. Sorted(longer)
  <2> SUFFICES ASSUME NEW i \in 1..Len(longer), NEW j \in 1..Len(longer), i <= j
               PROVE  longer[i] >= longer[j]
    BY DEF Sorted
  <2>1. CASE j <= Len(s)
    BY <1>1, <1>2, <2>1 DEF Fresh, Events, Sorted
  <2>2. CASE j = Len(s) + 1
    <3>1. longer[i] \in Nat
      BY <1>1, <1>2
    <3> QED
      BY <1>2, <2>2, <3>1
  <2> QED
    BY <1>1, <1>2, <2>1, <2>2
<1>4. \A i \in 1..Len(longer) : longer[i] < Window
  <2> SUFFICES ASSUME NEW i \in 1..Len(longer) PROVE longer[i] < Window
    OBVIOUS
  <2>1. i \in 1..Len(s) \/ i = Len(s) + 1
    BY <1>1, <1>2
  <2> QED
    BY <1>1, <1>2, <2>1 DEF Fresh
<1>5. Fresh(longer)
  BY <1>2, <1>3, <1>4 DEF Fresh, Events
<1> QED
  BY <1>5 DEF longer

LEMMA OlderIs ==
  ASSUME NEW s, Events(s)
  PROVE  /\ Events(Older(s)) /\ Len(Older(s)) = Len(s)
         /\ \A i \in 1..Len(s) :
              Older(s)[i] = IF s[i] < Window THEN s[i] + 1 ELSE Window
<1>1. /\ s \in Seq(Age) /\ Len(s) \in Nat /\ DOMAIN s = 1..Len(s)
      /\ Window \in Nat
      /\ \A i \in 1..Len(s) : s[i] \in 0..Window
  BY LenProperties, ElementOfSeq, ThrottleAssumption DEF Events, Age
<1> DEFINE older == [i \in 1..Len(s) |->
                       IF s[i] < Window THEN s[i] + 1 ELSE Window]
<1>2. Older(s) = older
  BY <1>1 DEF Older
<1>3. /\ older \in Seq(Age) /\ Len(older) = Len(s)
      /\ \A i \in 1..Len(s) :
           older[i] = IF s[i] < Window THEN s[i] + 1 ELSE Window
  <2>1. \A i \in 1..Len(s) :
          (IF s[i] < Window THEN s[i] + 1 ELSE Window) \in Age
    BY <1>1 DEF Age
  <2> QED
    BY <1>1, <2>1, IsASeq
<1> HIDE DEF older
<1>4. Sorted(older)
  <2> SUFFICES ASSUME NEW i \in 1..Len(s), NEW j \in 1..Len(s), i <= j
               PROVE  older[i] >= older[j]
    BY <1>3 DEF Sorted
  <2>1. s[i] >= s[j] /\ s[i] \in 0..Window /\ s[j] \in 0..Window
    BY <1>1 DEF Events, Sorted
  <2> QED
    BY <1>1, <1>3, <2>1
<1> QED
  BY <1>2, <1>3, <1>4 DEF Events

\* record keeps the newest events.
LEMMA KeptIs ==
  ASSUME NEW s, Events(s), NEW store
  PROVE  \E k \in 0..Len(s) :
           /\ Events(Kept(store, s)) /\ Len(Kept(store, s)) = Len(s) - k
           /\ \A i \in 1..(Len(s) - k) : Kept(store, s)[i] = s[k + i]
           /\ k > 0 => Len(Kept(store, s)) = Limit
           /\ store = "memory" => Len(Kept(store, s)) <= Limit
<1>1. /\ s \in Seq(Age) /\ Len(s) \in Nat /\ Limit \in Nat
      /\ \A i \in 1..Len(s) : s[i] \in Age
  BY LenProperties, ElementOfSeq, ThrottleAssumption DEF Events
<1>2. CASE store = "memory" /\ Len(s) > Limit
  <2> DEFINE k == Len(s) - Limit
             newest == SubSeq(s, k + 1, Len(s))
  <2>1. k \in 0..Len(s) /\ Len(s) - k = Limit /\ Kept(store, s) = newest
    BY <1>1, <1>2 DEF Kept
  <2>2. /\ newest \in Seq(Age)
        /\ Len(newest) = IF k + 1 <= Len(s) THEN Len(s) - (k + 1) + 1 ELSE 0
        /\ \A i \in 1 .. Len(s) - (k + 1) + 1 : newest[i] = s[(k + 1) + i - 1]
    <3>1. \A i \in (k + 1)..Len(s) : s[i] \in Age
      BY <1>1, <2>1
    <3>2. k + 1 \in Int /\ Len(s) \in Int
      BY <1>1
    <3> HIDE DEF k
    <3> QED
      BY <3>1, <3>2, SubSeqProperties
  <2> HIDE DEF k, newest
  <2>3. Len(newest) = Limit
    BY <1>1, <2>1, <2>2
  <2>4. \A i \in 1..Limit : newest[i] = s[k + i]
    <3> SUFFICES ASSUME NEW i \in 1..Limit PROVE newest[i] = s[k + i]
      OBVIOUS
    <3>1. i \in 1 .. Len(s) - (k + 1) + 1 /\ (k + 1) + i - 1 = k + i
      BY <1>1, <2>1
    <3> QED
      BY <2>2, <3>1
  <2>5. Sorted(newest)
    BY <1>1, <2>1, <2>3, <2>4 DEF Sorted, Events
  <2> QED
    BY <1>1, <2>1, <2>2, <2>3, <2>4, <2>5 DEF Events
<1>3. CASE ~(store = "memory" /\ Len(s) > Limit)
  <2>1. Kept(store, s) = s
    BY <1>3 DEF Kept
  <2> QED
    BY <1>1, <1>3, <2>1
<1> QED
  BY <1>2, <1>3

-----------------------------------------------------------------------------
(* The newest events of the window and of the history agree *)

Agree(b, a) ==
  \A j \in 0..(Limit - 1) : j < Len(a) =>
    j < Len(b) /\ b[Len(b) - j] = a[Len(a) - j]

LEMMA AgreeLive ==
  ASSUME NEW b, NEW a, Events(b), Fresh(a), Agree(b, a)
  PROVE  Agree(Live(b), a)
<1>1. PICK k \in 0..Len(b) :
        /\ Len(Live(b)) = Len(b) - k
        /\ \A i \in 1..(Len(b) - k) : Live(b)[i] = b[k + i]
        /\ \A i \in 1..k : b[i] = Window
  BY LiveIs
<1>2. Len(a) \in Nat /\ Len(b) \in Nat /\ Limit \in Nat /\ Window \in Nat
  BY LenProperties, ThrottleAssumption DEF Fresh, Events
<1> SUFFICES ASSUME NEW j \in 0..(Limit - 1), j < Len(a)
             PROVE  j < Len(Live(b)) /\ Live(b)[Len(Live(b)) - j] = a[Len(a) - j]
  BY DEF Agree
<1>3. j < Len(b) /\ b[Len(b) - j] = a[Len(a) - j] /\ a[Len(a) - j] < Window
  BY <1>2 DEF Agree, Fresh
<1>4. Len(b) - j \notin 1..k
  <2> SUFFICES ASSUME Len(b) - j \in 1..k PROVE FALSE
    OBVIOUS
  <2>1. a[Len(a) - j] = Window
    BY <1>1, <1>3
  <2> QED
    BY <1>2, <1>3, <2>1
<1>5. Len(b) - k - j \in 1..(Len(b) - k) /\ k + (Len(b) - k - j) = Len(b) - j
  BY <1>1, <1>2, <1>3, <1>4
<1> QED
  BY <1>1, <1>2, <1>3, <1>5

LEMMA AgreeAppend ==
  ASSUME NEW b, NEW a, Events(b), Events(a), Agree(b, a)
  PROVE  Agree(Append(b, 0), Append(a, 0))
<1>1. 0 \in Age /\ Limit \in Nat /\ Len(a) \in Nat /\ Len(b) \in Nat
  BY LenProperties, ThrottleAssumption DEF Age, Events
<1> DEFINE b1 == Append(b, 0)
           a1 == Append(a, 0)
<1>2. /\ Len(b1) = Len(b) + 1 /\ b1[Len(b) + 1] = 0
      /\ \A i \in 1..Len(b) : b1[i] = b[i]
      /\ Len(a1) = Len(a) + 1 /\ a1[Len(a) + 1] = 0
      /\ \A i \in 1..Len(a) : a1[i] = a[i]
  BY <1>1, AppendProperties DEF Events
<1> HIDE DEF b1, a1
<1>3. ASSUME NEW j \in 0..(Limit - 1), j < Len(a1)
      PROVE  j < Len(b1) /\ b1[Len(b1) - j] = a1[Len(a1) - j]
  <2>1. CASE j = 0
    BY <1>1, <1>2, <2>1
  <2>2. CASE j > 0
    <3>1. j - 1 \in 0..(Limit - 1) /\ j - 1 < Len(a)
      BY <1>1, <1>2, <1>3, <2>2
    <3>2. j - 1 < Len(b) /\ b[Len(b) - (j - 1)] = a[Len(a) - (j - 1)]
      BY <3>1 DEF Agree
    <3>3. /\ Len(b1) - j = Len(b) - (j - 1) /\ Len(b) - (j - 1) \in 1..Len(b)
          /\ Len(a1) - j = Len(a) - (j - 1) /\ Len(a) - (j - 1) \in 1..Len(a)
      BY <1>1, <1>2, <3>1, <3>2
    <3> QED
      BY <1>1, <1>2, <3>1, <3>2, <3>3
  <2> QED
    BY <2>1, <2>2
<1>4. Agree(b1, a1)
  BY <1>3 DEF Agree
<1> QED
  BY <1>4 DEF b1, a1

LEMMA AgreeKept ==
  ASSUME NEW b, NEW a, Events(b), Events(a), Agree(b, a),
         NEW store
  PROVE  Agree(Kept(store, b), a)
<1>1. PICK k \in 0..Len(b) :
        /\ Len(Kept(store, b)) = Len(b) - k
        /\ \A i \in 1..(Len(b) - k) : Kept(store, b)[i] = b[k + i]
        /\ k > 0 => Len(Kept(store, b)) = Limit
  BY KeptIs
<1>2. Len(a) \in Nat /\ Len(b) \in Nat /\ Limit \in Nat
  BY LenProperties, ThrottleAssumption DEF Events
<1> SUFFICES ASSUME NEW j \in 0..(Limit - 1), j < Len(a)
             PROVE  j < Len(Kept(store, b)) /\ Kept(store, b)[Len(Kept(store, b)) - j] = a[Len(a) - j]
  BY DEF Agree
<1>3. j < Len(b) /\ b[Len(b) - j] = a[Len(a) - j]
  BY DEF Agree
<1>4. j < Len(Kept(store, b))
  BY <1>1, <1>2, <1>3
<1>5. Len(b) - k - j \in 1..(Len(b) - k) /\ k + (Len(b) - k - j) = Len(b) - j
  BY <1>1, <1>2, <1>4
<1> QED
  BY <1>1, <1>2, <1>3, <1>4, <1>5

LEMMA AgreeOlder ==
  ASSUME NEW b, NEW a, Events(b), Events(a), Agree(b, a)
  PROVE  Agree(Older(b), Live(Older(a)))
<1>1. /\ Events(Older(a)) /\ Len(Older(a)) = Len(a)
      /\ Len(Older(b)) = Len(b)
      /\ \A i \in 1..Len(a) :
           Older(a)[i] = IF a[i] < Window THEN a[i] + 1 ELSE Window
      /\ \A i \in 1..Len(b) :
           Older(b)[i] = IF b[i] < Window THEN b[i] + 1 ELSE Window
  BY OlderIs
<1>2. PICK k \in 0..Len(a) :
        /\ Len(Live(Older(a))) = Len(a) - k
        /\ \A i \in 1..(Len(a) - k) : Live(Older(a))[i] = Older(a)[k + i]
  BY <1>1, LiveIs
<1>3. Len(a) \in Nat /\ Len(b) \in Nat /\ Limit \in Nat
  BY LenProperties, ThrottleAssumption DEF Events
<1> DEFINE live == Live(Older(a))
<1> SUFFICES ASSUME NEW j \in 0..(Limit - 1), j < Len(live)
             PROVE  /\ j < Len(Older(b))
                    /\ Older(b)[Len(Older(b)) - j] = live[Len(live) - j]
  BY DEF Agree
<1>4. j < Len(a) /\ j < Len(b) /\ b[Len(b) - j] = a[Len(a) - j]
  BY <1>2, <1>3 DEF Agree
<1>5. /\ Len(a) - k - j \in 1..(Len(a) - k) /\ k + (Len(a) - k - j) = Len(a) - j
      /\ Len(a) - j \in 1..Len(a) /\ Len(b) - j \in 1..Len(b)
  BY <1>2, <1>3, <1>4
<1>6. live[Len(live) - j] = Older(a)[Len(a) - j]
  BY <1>2, <1>5
<1> QED
  BY <1>1, <1>4, <1>5, <1>6

\* A window with room left has seen fewer than Limit of what is in the history.
LEMMA RoomMeansRoom ==
  ASSUME NEW b, NEW a, Events(b), Fresh(a), Agree(b, a), ~Spent(b)
  PROVE  Len(a) < Limit
<1>1. Len(a) \in Nat /\ Limit \in Nat /\ Len(Live(b)) \in Nat
  BY LiveIs, LenProperties, ThrottleAssumption DEF Fresh, Events
<1>2. Len(Live(b)) < Limit
  BY <1>1 DEF Spent
<1>3. Agree(Live(b), a)
  BY AgreeLive
<1> SUFFICES ASSUME Len(a) >= Limit PROVE FALSE
  BY <1>1
<1>4. Limit - 1 \in 0..(Limit - 1) /\ Limit - 1 < Len(a)
  BY <1>1, ThrottleAssumption
<1>5. Limit - 1 < Len(Live(b))
  BY <1>3, <1>4 DEF Agree
<1> QED
  BY <1>1, <1>2, <1>5

-----------------------------------------------------------------------------
(* The inductive invariant of the limiter *)

\* The requests that may still record an event in s without another look at what
\* s holds: those that are about to, those that have passed a check (in memory
\* only as long as no client is set), and those that check in memory although
\* the client may be set before they record.
Pending(s) ==
  {w \in Workers :
     \/ worker[w].at = "recording" /\ worker[w].via = s
     \/ worker[w].at = "passed" /\ (s = "redis" \/ client # "redis")
     \/ worker[w].at = "checking" /\ worker[w].via = "memory" /\ s = "redis"}

\* Each of them will record one event at most, and no request passes a check when
\* the history of the store has Limit events.
Budget(s) ==
  Len(admitted[s]) + Cardinality(Pending(s)) < Limit + Cardinality(Workers)

\* A request that works in Redis has seen the client.
ViaIsSet(w) ==
  worker[w].at \in {"checking", "recording", "clearing"}
    /\ worker[w].via = "redis" => client = "redis"

\* Without an outage the client, once set, stays and is answered, and Redis holds
\* nothing before it is set.
UpInv ==
  /\ client = "redis" => reachable
  /\ client # "redis" => window["redis"] = <<>> /\ admitted["redis"] = <<>>
  /\ \A w \in Workers : ViaIsSet(w)
  /\ \A s \in Stores : Agree(window[s], admitted[s]) /\ Budget(s)

LimiterInv ==
  /\ TypeOK
  /\ \A s \in Stores : Sorted(window[s]) /\ Fresh(admitted[s])
  /\ ~everDown => UpInv

LEMMA InvEvents ==
  ASSUME LimiterInv, NEW s \in Stores
  PROVE  /\ Events(window[s]) /\ Events(admitted[s]) /\ Fresh(admitted[s])
         /\ Live(admitted[s]) = admitted[s]
         /\ Len(admitted[s]) \in Nat /\ Len(window[s]) \in Nat
<1>1. window[s] \in Seq(Age) /\ admitted[s] \in Seq(Age)
  BY DEF LimiterInv, TypeOK
<1> QED
  BY <1>1, LiveOfFresh, LenProperties DEF LimiterInv, Events, Fresh

LEMMA PendingIsFinite ==
  ASSUME NEW s
  PROVE  /\ Cardinality(Pending(s)) \in Nat /\ Cardinality(Pending(s)') \in Nat
         /\ Cardinality(Workers) \in Nat
         /\ Cardinality(Pending(s)) <= Cardinality(Workers)
         /\ Cardinality(Pending(s)') <= Cardinality(Workers)
         /\ Pending(s)' \subseteq Pending(s)
              => Cardinality(Pending(s)') <= Cardinality(Pending(s))
<1>1. Pending(s) \in SUBSET Workers /\ Pending(s)' \in SUBSET Workers
  BY DEF Pending
<1>2. IsFiniteSet(Workers)
  BY ThrottleAssumption
<1>3. IsFiniteSet(Pending(s))
  BY <1>1, <1>2, FS_Subset
<1> QED
  BY <1>1, <1>2, <1>3, FS_Subset, FS_CardinalityType

\* A store that has seen fewer than Limit events is within its budget whoever is
\* pending; and it stays within it when nobody joins those who are.
LEMMA RoomIsBudget ==
  ASSUME NEW s \in Stores, Len(admitted'[s]) \in Nat, Len(admitted'[s]) < Limit
  PROVE  Budget(s)'
<1>1. Limit \in Nat
  BY ThrottleAssumption
<1> QED
  BY <1>1, PendingIsFinite DEF Budget

LEMMA BudgetStays ==
  ASSUME NEW s \in Stores, Budget(s), Len(admitted[s]) \in Nat,
         admitted'[s] = admitted[s], Pending(s)' \subseteq Pending(s)
  PROVE  Budget(s)'
<1>1. Limit \in Nat
  BY ThrottleAssumption
<1> QED
  BY <1>1, PendingIsFinite DEF Budget

LEMMA InitLimiterInv == Init => LimiterInv
<1> SUFFICES ASSUME Init PROVE LimiterInv
  OBVIOUS
<1>1. /\ Len(<<>>) = 0 /\ <<>> \in Seq(Age)
      /\ \A s \in Stores : window[s] = <<>> /\ admitted[s] = <<>>
  BY EmptySeq DEF Init
<1>2. Limit \in Nat \ {0} /\ MaxSwitches \in Nat
  BY ThrottleAssumption
<1>3. TypeOK
  <2>1. window \in [Stores -> Seq(Age)] /\ admitted \in [Stores -> Seq(Age)]
    BY <1>1 DEF Init
  <2>2. Len(window["memory"]) <= Limit
    BY <1>1, <1>2 DEF Stores
  <2>3. worker \in [Workers -> [at : Stage, via : Stores]]
    BY DEF Init, Stage, Stores
  <2> QED
    BY <1>2, <2>1, <2>2, <2>3 DEF Init, TypeOK, Stores
<1>4. \A s \in Stores : Sorted(window[s]) /\ Fresh(admitted[s])
  BY <1>1, EmptyIsFresh DEF Fresh, Events
<1>5. ASSUME NEW s \in Stores PROVE Agree(window[s], admitted[s]) /\ Budget(s)
  <2>1. Pending(s) = {}
    BY DEF Init, Pending
  <2> QED
    BY <1>1, <1>2, <2>1, FS_EmptySet, PendingIsFinite DEF Agree, Budget
<1>6. UpInv
  <2>1. window["redis"] = <<>> /\ admitted["redis"] = <<>>
    BY <1>1 DEF Stores
  <2>2. client # "redis" /\ \A w \in Workers : ViaIsSet(w)
    BY DEF Init, ViaIsSet
  <2> QED
    BY <1>5, <2>1, <2>2 DEF UpInv
<1> QED
  BY <1>3, <1>4, <1>6 DEF LimiterInv

\* A step that leaves what the stores hold alone: somebody learns a store, or the
\* client is found or set.
LEMMA StoresKept ==
  ASSUME LimiterInv, TypeOK',
         UNCHANGED <<window, admitted, reachable, switches>>,
         ~everDown =>
           /\ client' = "redis" => reachable
           /\ client = "redis" => client' = "redis"
           /\ \A w \in Workers : ViaIsSet(w)'
           /\ \A s \in Stores :
                Pending(s)' \subseteq Pending(s) \/ admitted[s] = <<>>
  PROVE  LimiterInv'
<1>1. \A s \in Stores : Sorted(window[s])' /\ Fresh(admitted[s])'
  BY DEF LimiterInv
<1>2. ASSUME ~everDown PROVE UpInv'
  <2>1. UpInv
    BY <1>2 DEF LimiterInv
  <2>2. ASSUME NEW s \in Stores PROVE Agree(window[s], admitted[s])' /\ Budget(s)'
    <3>1. Len(admitted[s]) \in Nat
      BY InvEvents
    <3>2. CASE Pending(s)' \subseteq Pending(s)
      BY <2>1, <3>1, <3>2, BudgetStays DEF UpInv, Agree
    <3>3. CASE admitted[s] = <<>>
      <4>1. Len(admitted'[s]) = 0 /\ 0 < Limit
        BY <3>3, EmptySeq, ThrottleAssumption
      <4> QED
        BY <2>1, <4>1, RoomIsBudget DEF UpInv, Agree
    <3> QED
      BY <1>2, <3>2, <3>3
  <2> QED
    BY <1>2, <2>1, <2>2 DEF UpInv
<1> QED
  BY <1>1, <1>2 DEF LimiterInv, everDown

\* The step of one request that reads or sets where the window is: nobody becomes
\* pending in a store that holds anything.
LEMMA ResolvingJoins ==
  ASSUME LimiterInv, ~everDown, NEW w \in Workers, NEW s \in Stores,
         \/ FindUnresolved(w) \/ MarkResolved(w) \/ Connect(w)
         \/ StartCheck(w) \/ StartRecord(w) \/ StartClear(w)
  PROVE  \/ Pending(s)' \subseteq Pending(s)
         \/ window[s] = <<>> /\ admitted[s] = <<>>
<1>1. \A v \in Workers \ {w} : worker'[v] = worker[v]
  BY DEF FindUnresolved, MarkResolved, Connect, StartCheck, StartRecord,
         StartClear, Turns, LimiterInv, TypeOK
<1>2. CASE FindUnresolved(w) \/ MarkResolved(w) \/ Connect(w)
  <2>1. worker'[w].at \in {"idle", "unresolved", "connecting"}
    BY <1>2 DEF FindUnresolved, MarkResolved, Connect, LimiterInv, TypeOK
  <2>2. client = "redis" => client' = "redis"
    BY <1>2 DEF FindUnresolved, MarkResolved, Connect, LimiterInv, UpInv
  <2> QED
    BY <1>1, <2>1, <2>2 DEF Pending
<1>3. CASE StartCheck(w)
  <2>1. /\ worker'[w].at = "checking" /\ worker'[w].via = client
        /\ client' = client
    BY <1>3 DEF StartCheck, Turns, LimiterInv, TypeOK
  <2>2. CASE client = "redis" \/ s = "memory"
    BY <1>1, <2>1, <2>2 DEF Pending
  <2>3. CASE client # "redis" /\ s # "memory"
    BY <2>3 DEF LimiterInv, UpInv, Stores
  <2> QED
    BY <2>2, <2>3
<1>4. CASE StartRecord(w) \/ StartClear(w)
  <2>1. /\ worker'[w].at \in {"recording", "clearing"}
        /\ worker'[w].via = client /\ worker[w].at = "passed"
        /\ client' = client
    BY <1>4 DEF StartRecord, StartClear, Turns, LimiterInv, TypeOK
  <2> QED
    BY <1>1, <2>1 DEF Pending, Stores
<1> QED
  BY <1>2, <1>3, <1>4

LEMMA ResolvingKeepsInv ==
  ASSUME LimiterInv, NEW w \in Workers,
         \/ FindUnresolved(w) \/ MarkResolved(w) \/ Connect(w)
         \/ StartCheck(w) \/ StartRecord(w) \/ StartClear(w)
  PROVE  LimiterInv'
<1> USE DEF LimiterInv, TypeOK, Stage
<1>1. /\ UNCHANGED <<window, admitted, reachable, switches, backend>>
      /\ \A v \in Workers \ {w} : worker'[v] = worker[v]
      /\ worker' \in [Workers -> [at : Stage, via : Stores]]
      /\ client' \in {"unresolved"} \cup Stores
  <2>1. CASE FindUnresolved(w)
    BY <2>1 DEF FindUnresolved
  <2>2. CASE MarkResolved(w)
    BY <2>2 DEF MarkResolved, Stores
  <2>3. CASE Connect(w)
    BY <2>3 DEF Connect, Stores
  <2>4. CASE StartCheck(w) \/ StartRecord(w) \/ StartClear(w)
    <3>1. client \in Stores
      BY <2>4 DEF StartCheck, StartRecord, StartClear, Turns
    <3>2. PICK to \in Stage : worker' = [worker EXCEPT ![w] = [at |-> to, via |-> client]]
      BY <2>4 DEF StartCheck, StartRecord, StartClear, Turns
    <3> QED
      BY <2>4, <3>1, <3>2 DEF StartCheck, StartRecord, StartClear, Turns
  <2> QED
    BY <2>1, <2>2, <2>3, <2>4
<1> HIDE DEF LimiterInv, TypeOK, Stage
<1>2. TypeOK'
  BY <1>1 DEF LimiterInv, TypeOK
<1>3. ASSUME ~everDown
      PROVE  /\ client' = "redis" => reachable
             /\ client = "redis" => client' = "redis"
  BY <1>3
  DEF FindUnresolved, MarkResolved, Connect, StartCheck, StartRecord,
      StartClear, Turns, LimiterInv, UpInv
<1>4. ASSUME ~everDown PROVE ViaIsSet(w)'
  BY <1>4
  DEF FindUnresolved, MarkResolved, Connect, StartCheck, StartRecord,
      StartClear, Turns, LimiterInv, UpInv, ViaIsSet, TypeOK
<1>5. ASSUME ~everDown, NEW v \in Workers PROVE ViaIsSet(v)'
  <2>1. CASE v = w
    BY <1>4, <1>5, <2>1
  <2>2. CASE v # w
    BY <1>1, <1>3, <1>5, <2>2 DEF LimiterInv, UpInv, ViaIsSet
  <2> QED
    BY <2>1, <2>2
<1>6. ASSUME ~everDown, NEW s \in Stores
      PROVE  Pending(s)' \subseteq Pending(s) \/ admitted[s] = <<>>
  BY <1>6, ResolvingJoins
<1> QED
  BY <1>1, <1>2, <1>3, <1>5, <1>6, StoresKept

\* A step that leaves a window as it was or without its expired events.
LEMMA Pruned ==
  ASSUME LimiterInv, NEW s \in Stores,
         NEW b, b = window[s] \/ b = Live(window[s]),
         window' = [window EXCEPT ![s] = b]
  PROVE  /\ window' \in [Stores -> Seq(Age)]
         /\ Len(window'["memory"]) <= Limit
         /\ \A x \in Stores : Sorted(window'[x])
         /\ window["redis"] = <<>> => window'["redis"] = <<>>
         /\ \A x \in Stores : Agree(window[x], admitted[x])
                                => Agree(window'[x], admitted[x])
<1>1. Events(window[s]) /\ Fresh(admitted[s]) /\ Len(window[s]) \in Nat
  BY InvEvents
<1>2. PICK k \in 0..Len(window[s]) :
        Fresh(Live(window[s])) /\ Len(Live(window[s])) = Len(window[s]) - k
  BY <1>1, LiveIs
<1>3. Events(b) /\ Len(b) <= Len(window[s]) /\ Len(b) \in Nat
  BY <1>1, <1>2 DEF Fresh
<1>4. window \in [Stores -> Seq(Age)] /\ Len(window["memory"]) <= Limit
      /\ Limit \in Nat /\ Len(window["memory"]) \in Nat
  BY InvEvents, ThrottleAssumption DEF LimiterInv, TypeOK, Stores
<1>5. Len(window'["memory"]) <= Limit
  BY <1>1, <1>3, <1>4 DEF Stores
<1>6. window["redis"] = <<>> => window'["redis"] = <<>>
  BY <1>4, EmptyIsFresh, LiveOfFresh DEF Stores
<1>7. Agree(window[s], admitted[s]) => Agree(b, admitted[s])
  BY <1>1, AgreeLive
<1> QED
  BY <1>3, <1>4, <1>5, <1>6, <1>7 DEF Events, LimiterInv

LEMMA PassKeepsInv ==
  ASSUME LimiterInv, NEW w \in Workers, Pass(w)
  PROVE  LimiterInv'
<1>1. PICK s \in Stores : s = worker[w].via
  BY DEF LimiterInv, TypeOK
<1>2. /\ worker[w].at = "checking"
      /\ Reaches(s) => ~Spent(window[s])
      /\ worker' = [worker EXCEPT ![w].at = "passed"]
      /\ UNCHANGED <<backend, client, reachable, admitted, switches>>
  BY <1>1 DEF Pass
<1>3. PICK b : /\ b = window[s] \/ b = Live(window[s])
               /\ window' = [window EXCEPT ![s] = b]
  BY <1>1 DEF Pass
<1>4. worker' \in [Workers -> [at : Stage, via : Stores]]
      /\ worker'[w].at = "passed" /\ worker'[w].via = s
      /\ \A v \in Workers \ {w} : worker'[v] = worker[v]
  BY <1>1, <1>2 DEF LimiterInv, TypeOK, Stage
<1>5. TypeOK'
  BY <1>2, <1>3, <1>4, Pruned DEF LimiterInv, TypeOK
<1>6. \A x \in Stores : Sorted(window[x])' /\ Fresh(admitted[x])'
  BY <1>2, <1>3, Pruned DEF LimiterInv
<1>7. ASSUME ~everDown PROVE UpInv'
  <2>1. UpInv
    BY <1>7 DEF LimiterInv
  <2>2. \A v \in Workers : ViaIsSet(v)'
    BY <1>2, <1>4, <2>1 DEF UpInv, ViaIsSet
  <2>3. \A x \in Stores : Agree(window[x], admitted[x])'
    BY <1>2, <1>3, <2>1, Pruned DEF UpInv
  <2>4. s = "redis" => client = "redis"
    BY <1>1, <1>2, <2>1 DEF UpInv, ViaIsSet
  <2>5. ~Spent(window[s])
    BY <1>1, <1>2, <2>1, <2>4 DEF UpInv, Reaches, Stores
  <2>6. ASSUME NEW x \in Stores PROVE Budget(x)'
    <3>1. CASE x = s
      <4>1. Len(admitted[x]) < Limit /\ Len(admitted[x]) \in Nat
        BY <2>1, <2>5, <3>1, InvEvents, RoomMeansRoom DEF UpInv
      <4> QED
        BY <1>2, <4>1, RoomIsBudget
    <3>2. CASE x # s
      <4>1. Pending(x)' \subseteq Pending(x)
        BY <1>1, <1>2, <1>4, <2>4, <3>2 DEF Pending, Stores
      <4> QED
        BY <1>2, <2>1, <4>1, InvEvents, BudgetStays DEF UpInv
    <3> QED
      BY <3>1, <3>2
  <2>7. client' # "redis" => window'["redis"] = <<>> /\ admitted'["redis"] = <<>>
    BY <1>2, <1>3, <2>1, Pruned DEF UpInv
  <2> QED
    BY <1>2, <2>1, <2>2, <2>3, <2>6, <2>7 DEF UpInv
<1> QED
  BY <1>2, <1>5, <1>6, <1>7 DEF LimiterInv, everDown

LEMMA RefuseKeepsInv ==
  ASSUME LimiterInv, NEW w \in Workers, Refuse(w)
  PROVE  LimiterInv'
<1>1. PICK s \in Stores : s = worker[w].via
  BY DEF LimiterInv, TypeOK
<1>2. /\ worker' = [worker EXCEPT ![w].at = "idle"]
      /\ window' = [window EXCEPT ![s] = Live(window[s])]
      /\ UNCHANGED <<backend, client, reachable, admitted, switches>>
  BY <1>1 DEF Refuse, Checked
<1>3. worker' \in [Workers -> [at : Stage, via : Stores]]
      /\ worker'[w].at = "idle" /\ \A v \in Workers \ {w} : worker'[v] = worker[v]
  BY <1>2 DEF LimiterInv, TypeOK, Stage
<1>4. TypeOK'
  BY <1>2, <1>3, Pruned DEF LimiterInv, TypeOK
<1>5. \A x \in Stores : Sorted(window[x])' /\ Fresh(admitted[x])'
  BY <1>2, Pruned DEF LimiterInv
<1>6. ASSUME ~everDown PROVE UpInv'
  <2>1. UpInv
    BY <1>6 DEF LimiterInv
  <2>2. \A x \in Stores : Pending(x)' \subseteq Pending(x)
    BY <1>2, <1>3 DEF Pending
  <2>3. \A x \in Stores : Budget(x)'
    BY <1>2, <2>1, <2>2, InvEvents, BudgetStays DEF UpInv
  <2>4. \A v \in Workers : ViaIsSet(v)'
    BY <1>2, <1>3, <2>1 DEF UpInv, ViaIsSet
  <2> QED
    BY <1>2, <2>1, <2>3, <2>4, Pruned DEF UpInv
<1> QED
  BY <1>2, <1>4, <1>5, <1>6 DEF LimiterInv, everDown

\* A request that has recorded is no longer pending in its store, and joins no
\* other.
LEMMA DoneIsNotPending ==
  ASSUME LimiterInv, NEW w \in Workers, NEW s \in Stores,
         worker[w].at = "recording", worker[w].via = s,
         worker' = [worker EXCEPT ![w].at = "idle"], client' = client
  PROVE  /\ worker' \in [Workers -> [at : Stage, via : Stores]]
         /\ \A v \in Workers : ViaIsSet(v) => ViaIsSet(v)'
         /\ Cardinality(Pending(s)') = Cardinality(Pending(s)) - 1
         /\ \A x \in Stores : Pending(x)' \subseteq Pending(x)
<1>1. worker' \in [Workers -> [at : Stage, via : Stores]]
      /\ worker'[w].at = "idle" /\ \A v \in Workers \ {w} : worker'[v] = worker[v]
  BY DEF LimiterInv, TypeOK, Stage
<1>2. Pending(s)' = Pending(s) \ {w} /\ w \in Pending(s)
  BY <1>1 DEF Pending
<1>3. IsFiniteSet(Pending(s))
  <2>1. Pending(s) \in SUBSET Workers
    BY DEF Pending
  <2> QED
    BY <2>1, ThrottleAssumption, FS_Subset
<1>4. Cardinality(Pending(s)') = Cardinality(Pending(s)) - 1
  BY <1>2, <1>3, FS_RemoveElement
<1>5. \A x \in Stores : Pending(x)' \subseteq Pending(x)
  BY <1>1 DEF Pending
<1> QED
  BY <1>1, <1>4, <1>5 DEF ViaIsSet

LEMMA RecordKeepsInv ==
  ASSUME LimiterInv, NEW w \in Workers, Record(w)
  PROVE  LimiterInv'
<1>1. PICK s \in Stores : s = worker[w].via
  BY DEF LimiterInv, TypeOK
<1> DEFINE longer == Append(Live(window[s]), 0)
<1>2. PICK b : /\ b = IF Reaches(s) THEN Kept(s, longer) ELSE window[s]
               /\ window' = [window EXCEPT ![s] = b]
  BY <1>1 DEF Record
<1>3. /\ worker[w].at = "recording"
      /\ worker' = [worker EXCEPT ![w].at = "idle"]
      /\ admitted' = [admitted EXCEPT ![s] = Append(Live(admitted[s]), 0)]
      /\ UNCHANGED <<backend, client, reachable, switches>>
  BY <1>1 DEF Record
<1>4. Events(window[s]) /\ Fresh(admitted[s]) /\ Events(admitted[s])
      /\ Live(admitted[s]) = admitted[s]
  BY InvEvents
<1>5. /\ window \in [Stores -> Seq(Age)] /\ admitted \in [Stores -> Seq(Age)]
      /\ Limit \in Nat /\ Len(admitted[s]) \in Nat
      /\ Len(window["memory"]) <= Limit
  BY InvEvents, ThrottleAssumption DEF LimiterInv, TypeOK
<1>6. Fresh(Live(window[s])) /\ Events(Live(window[s]))
  BY <1>4, LiveIs DEF Fresh
<1>7. Fresh(longer) /\ Events(longer)
  BY <1>6, AppendIsFresh DEF Fresh
<1>8. /\ Events(Kept(s, longer))
      /\ s = "memory" => Len(Kept(s, longer)) <= Limit
  BY <1>7, KeptIs
<1>9. Events(b) /\ (s = "memory" => Len(b) <= Limit)
  BY <1>2, <1>4, <1>5, <1>8
<1>10. Fresh(Append(admitted[s], 0)) /\ Events(Append(admitted[s], 0))
  BY <1>4, AppendIsFresh DEF Fresh
<1>11. /\ window'[s] = b /\ admitted'[s] = Append(admitted[s], 0)
       /\ \A x \in Stores \ {s} : window'[x] = window[x] /\ admitted'[x] = admitted[x]
       /\ window' \in [Stores -> Seq(Age)] /\ admitted' \in [Stores -> Seq(Age)]
  BY <1>2, <1>3, <1>4, <1>5, <1>9, <1>10 DEF Events
<1>12. TypeOK'
  <2>1. Len(window'["memory"]) <= Limit
    BY <1>5, <1>9, <1>11 DEF Stores
  <2> QED
    BY <1>1, <1>3, <1>11, <2>1, DoneIsNotPending DEF LimiterInv, TypeOK
<1>13. \A x \in Stores : Sorted(window[x])' /\ Fresh(admitted[x])'
  BY <1>9, <1>10, <1>11 DEF LimiterInv, Events
<1>14. ASSUME ~everDown PROVE UpInv'
  <2>1. UpInv
    BY <1>14 DEF LimiterInv
  <2>2. (s = "redis" => client = "redis") /\ Reaches(s)
    BY <1>1, <1>3, <2>1 DEF UpInv, ViaIsSet, Reaches, Stores
  <2>3. Agree(longer, Append(admitted[s], 0))
    BY <1>4, <1>6, <2>1, AgreeLive, AgreeAppend DEF UpInv
  <2>4. Agree(window'[s], admitted'[s])
    <3>1. Agree(Kept(s, longer), Append(admitted[s], 0))
      <4> HIDE DEF longer
      <4> QED
        BY <1>7, <1>10, <2>3, AgreeKept
    <3> QED
      BY <1>2, <1>11, <2>2, <3>1
  <2>5. Len(admitted'[s]) = Len(admitted[s]) + 1
    <3>1. 0 \in Age /\ admitted[s] \in Seq(Age)
      BY <1>4, ThrottleAssumption DEF Events, Age
    <3> QED
      BY <1>11, <3>1, AppendProperties
  <2>6. Budget(s)'
    <3>1. Cardinality(Pending(s)') = Cardinality(Pending(s)) - 1
      BY <1>1, <1>3, DoneIsNotPending
    <3>2. Budget(s)
      BY <2>1 DEF UpInv
    <3> QED
      BY <1>5, <2>5, <3>1, <3>2, PendingIsFinite DEF Budget
  <2>7. ASSUME NEW x \in Stores \ {s}
        PROVE  Agree(window[x], admitted[x])' /\ Budget(x)'
    <3>1. Pending(x)' \subseteq Pending(x)
      BY <1>1, <1>3, DoneIsNotPending
    <3>2. Budget(x)'
      BY <1>11, <2>1, <3>1, InvEvents, BudgetStays DEF UpInv
    <3> QED
      BY <1>11, <2>1, <3>2 DEF UpInv
  <2>8. \A x \in Stores : Agree(window[x], admitted[x])' /\ Budget(x)'
    BY <2>4, <2>6, <2>7
  <2>9. \A v \in Workers : ViaIsSet(v)'
    BY <1>1, <1>3, <2>1, DoneIsNotPending DEF UpInv
  <2>10. client' # "redis" => window'["redis"] = <<>> /\ admitted'["redis"] = <<>>
    BY <1>3, <1>11, <2>1, <2>2 DEF UpInv, Stores
  <2> QED
    BY <1>3, <2>1, <2>8, <2>9, <2>10 DEF UpInv
<1> QED
  BY <1>3, <1>12, <1>13, <1>14 DEF LimiterInv, everDown

LEMMA ClearKeepsInv ==
  ASSUME LimiterInv, NEW w \in Workers, Clear(w)
  PROVE  LimiterInv'
<1>1. PICK s \in Stores : s = worker[w].via
  BY DEF LimiterInv, TypeOK
<1>2. PICK b, a :
        /\ b = (IF Reaches(s) THEN <<>> ELSE window[s])
        /\ a = (IF Reaches(s) THEN <<>> ELSE admitted[s])
        /\ window' = [window EXCEPT ![s] = b]
        /\ admitted' = [admitted EXCEPT ![s] = a]
  BY <1>1 DEF Clear
<1>3. /\ worker[w].at = "clearing"
      /\ UNCHANGED <<backend, client, reachable, switches>>
      /\ worker' \in [Workers -> [at : Stage, via : Stores]]
      /\ worker'[w].at \in {"clearing", "idle"} /\ worker'[w].via = "memory"
      /\ \A v \in Workers \ {w} : worker'[v] = worker[v]
  BY <1>1 DEF Clear, LimiterInv, TypeOK, Stage, Stores
<1>4. Len(<<>>) = 0 /\ Fresh(<<>>) /\ Events(<<>>) /\ Limit \in Nat \ {0}
  BY EmptyIsFresh, EmptySeq, ThrottleAssumption DEF Fresh
<1>5. window \in [Stores -> Seq(Age)] /\ admitted \in [Stores -> Seq(Age)]
      /\ Len(window["memory"]) <= Limit
      /\ Events(window[s]) /\ Fresh(admitted[s])
  BY InvEvents DEF LimiterInv, TypeOK
<1>6. /\ window'[s] = b /\ admitted'[s] = a
      /\ \A x \in Stores \ {s} : window'[x] = window[x] /\ admitted'[x] = admitted[x]
      /\ Events(b) /\ Fresh(a) /\ Events(a)
  BY <1>2, <1>4, <1>5 DEF Fresh
<1>7. TypeOK'
  <2>1. window' \in [Stores -> Seq(Age)] /\ admitted' \in [Stores -> Seq(Age)]
    BY <1>2, <1>5, <1>6 DEF Events
  <2>2. Len(window'["memory"]) <= Limit
    BY <1>2, <1>4, <1>5, <1>6 DEF Stores
  <2> QED
    BY <1>3, <2>1, <2>2 DEF LimiterInv, TypeOK
<1>8. \A x \in Stores : Sorted(window[x])' /\ Fresh(admitted[x])'
  BY <1>6 DEF LimiterInv, Events
<1>9. ASSUME ~everDown PROVE UpInv'
  <2>1. UpInv
    BY <1>9 DEF LimiterInv
  <2>2. (s = "redis" => client = "redis") /\ Reaches(s)
    BY <1>1, <1>3, <2>1 DEF UpInv, ViaIsSet, Reaches, Stores
  <2>3. Agree(window'[s], admitted'[s]) /\ Budget(s)'
    <3>1. window'[s] = <<>> /\ admitted'[s] = <<>>
      BY <1>2, <1>6, <2>2
    <3>2. Budget(s)'
      BY <1>4, <3>1, RoomIsBudget
    <3> QED
      BY <1>4, <3>1, <3>2 DEF Agree
  <2>4. ASSUME NEW x \in Stores \ {s}
        PROVE  Agree(window[x], admitted[x])' /\ Budget(x)'
    <3>1. Pending(x)' \subseteq Pending(x)
      BY <1>3 DEF Pending
    <3>2. Budget(x)'
      BY <1>6, <2>1, <3>1, InvEvents, BudgetStays DEF UpInv
    <3> QED
      BY <1>6, <2>1, <3>2 DEF UpInv
  <2>5. \A x \in Stores : Agree(window[x], admitted[x])' /\ Budget(x)'
    BY <2>3, <2>4
  <2>6. \A v \in Workers : ViaIsSet(v)'
    BY <1>3, <2>1 DEF UpInv, ViaIsSet
  <2>7. client' # "redis" => window'["redis"] = <<>> /\ admitted'["redis"] = <<>>
    BY <1>3, <1>6, <2>1, <2>2 DEF UpInv, Stores
  <2> QED
    BY <1>3, <2>1, <2>5, <2>6, <2>7 DEF UpInv
<1> QED
  BY <1>3, <1>7, <1>8, <1>9 DEF LimiterInv, everDown

LEMMA TickKeepsInv ==
  ASSUME LimiterInv, Tick
  PROVE  LimiterInv'
<1>1. /\ \A s \in Stores : /\ window'[s] = Older(window[s])
                           /\ admitted'[s] = Live(Older(admitted[s]))
      /\ window' = [s \in Stores |-> Older(window[s])]
      /\ admitted' = [s \in Stores |-> Live(Older(admitted[s]))]
      /\ UNCHANGED <<backend, client, reachable, worker, switches>>
  BY DEF Tick
<1>2. ASSUME NEW s \in Stores
      PROVE  /\ Events(window'[s]) /\ Len(window'[s]) = Len(window[s])
             /\ Fresh(admitted'[s])
             /\ Len(admitted'[s]) \in Nat /\ Len(admitted'[s]) <= Len(admitted[s])
             /\ Agree(window[s], admitted[s]) => Agree(window'[s], admitted'[s])
  <2>1. Events(window[s]) /\ Events(admitted[s]) /\ Len(admitted[s]) \in Nat
    BY InvEvents
  <2>2. /\ Events(Older(window[s])) /\ Len(Older(window[s])) = Len(window[s])
        /\ Events(Older(admitted[s])) /\ Len(Older(admitted[s])) = Len(admitted[s])
    BY <2>1, OlderIs
  <2>3. PICK k \in 0..Len(Older(admitted[s])) :
          /\ Fresh(admitted'[s])
          /\ Len(admitted'[s]) = Len(Older(admitted[s])) - k
    BY <1>1, <2>2, LiveIs
  <2>4. Agree(window[s], admitted[s]) => Agree(window'[s], admitted'[s])
    BY <1>1, <2>1, AgreeOlder
  <2> QED
    BY <1>1, <2>1, <2>2, <2>3, <2>4
<1>3. TypeOK'
  <2>1. window' \in [Stores -> Seq(Age)] /\ admitted' \in [Stores -> Seq(Age)]
    BY <1>1, <1>2 DEF Events, Fresh
  <2> QED
    BY <1>1, <1>2, <2>1 DEF LimiterInv, TypeOK, Stores
<1>4. ASSUME ~everDown PROVE UpInv'
  <2>1. UpInv
    BY <1>4 DEF LimiterInv
  <2>2. ASSUME NEW s \in Stores PROVE Budget(s)'
    <3>1. Pending(s)' = Pending(s) /\ Budget(s)
      BY <1>1, <2>1 DEF Pending, UpInv
    <3>2. Limit \in Nat /\ Len(admitted[s]) \in Nat
      BY InvEvents, ThrottleAssumption
    <3> QED
      BY <1>2, <3>1, <3>2, PendingIsFinite DEF Budget
  <2>3. ASSUME client # "redis"
        PROVE  window'["redis"] = <<>> /\ admitted'["redis"] = <<>>
    <3>1. window["redis"] = <<>> /\ admitted["redis"] = <<>> /\ "redis" \in Stores
      BY <2>1, <2>3 DEF UpInv, Stores
    <3>2. Len(window'["redis"]) = 0 /\ window'["redis"] \in Seq(Age)
      BY <1>2, <3>1, EmptySeq DEF Events
    <3>3. Len(admitted'["redis"]) = 0 /\ admitted'["redis"] \in Seq(Age)
      BY <1>2, <3>1, EmptySeq DEF Events, Fresh
    <3> QED
      BY <3>2, <3>3, EmptySeq
  <2>4. \A v \in Workers : ViaIsSet(v)'
    BY <1>1, <2>1 DEF UpInv, ViaIsSet
  <2> QED
    BY <1>1, <1>2, <2>1, <2>2, <2>3, <2>4 DEF UpInv
<1> QED
  BY <1>1, <1>2, <1>3, <1>4 DEF LimiterInv, everDown, Events

LEMMA SwitchKeepsInv ==
  ASSUME LimiterInv, Switch
  PROVE  LimiterInv'
<1>1. switches' \in 0..MaxSwitches /\ switches' > 0
  BY ThrottleAssumption DEF Switch, LimiterInv, TypeOK
<1> QED
  BY <1>1 DEF Switch, LimiterInv, TypeOK, everDown

LEMMA NextLimiterInv == LimiterInv /\ [Next]_vars => LimiterInv'
<1> SUFFICES ASSUME LimiterInv, [Next]_vars PROVE LimiterInv'
  OBVIOUS
<1>1. CASE UNCHANGED vars
  <2>1. TypeOK' /\ UNCHANGED <<window, admitted, reachable, switches, client, worker>>
    BY <1>1 DEF vars, LimiterInv, TypeOK
  <2>2. ~everDown => /\ client' = "redis" => reachable
                     /\ \A w \in Workers : ViaIsSet(w)'
                     /\ \A s \in Stores : Pending(s)' \subseteq Pending(s)
    BY <2>1 DEF LimiterInv, UpInv, ViaIsSet, Pending
  <2> QED
    BY <2>1, <2>2, StoresKept
<1>2. CASE Next
  BY <1>2, ResolvingKeepsInv, PassKeepsInv, RefuseKeepsInv, RecordKeepsInv,
     ClearKeepsInv, TickKeepsInv, SwitchKeepsInv DEF Next
<1> QED
  BY <1>1, <1>2

LEMMA LimiterInvariance == Spec => []LimiterInv
BY InitLimiterInv, NextLimiterInv, PTL DEF Spec


-----------------------------------------------------------------------------
(* Theorems about the limiter *)

\* Windows and history keep their shape; the memory backend stores no more than
\* Limit events for a key.
THEOREM WindowTypeCorrect == Spec => []TypeOK
<1>1. LimiterInv => TypeOK
  BY DEF LimiterInv
<1> QED
  BY <1>1, LimiterInvariance, PTL

\* Without an outage the budget of a store is exceeded by less than the number of
\* requests that can be in progress, for any limit, window and number of requests
\* and whatever the lazy connection to Redis interleaves with.
THEOREM AdmissionAlwaysBounded == Spec => []AdmissionBound
<1>1. LimiterInv => AdmissionBound
  <2> SUFFICES ASSUME LimiterInv, ~everDown, NEW s \in Stores
               PROVE  Len(Live(admitted[s])) < Limit + Cardinality(Workers)
    BY DEF AdmissionBound, WithinBudget
  <2>1. /\ Live(admitted[s]) = admitted[s] /\ Len(admitted[s]) \in Nat
        /\ Limit \in Nat
    BY InvEvents, ThrottleAssumption
  <2>2. Budget(s)
    BY DEF LimiterInv, UpInv
  <2> QED
    BY <2>1, <2>2, PendingIsFinite DEF Budget
<1> QED
  BY <1>1, LimiterInvariance, PTL

\* The announced seconds reach at least as far as the ticks they are computed from:
\* truncated to whole seconds, and one more.
LEMMA SecondsReach ==
  ASSUME NEW ticks \in Nat
  PROVE  SecondsUntil(ticks) * Second \in Nat /\ SecondsUntil(ticks) * Second >= ticks
<1> DEFINE q == ticks \div Second
<1>1. Second \in Nat \ {0}
  BY ThrottleAssumption
<1>2. q \in Nat /\ ticks < Second * (q + 1)
  BY <1>1
<1>3. SecondsUntil(ticks) = q + 1
  BY <1>2 DEF SecondsUntil
<1> HIDE DEF q
<1>4. (q + 1) * Second = Second * (q + 1) /\ Second * (q + 1) \in Nat
  BY <1>1, <1>2
<1> QED
  BY <1>2, <1>3, <1>4

\* After the seconds that a refusal announces, at least the event that they were
\* computed from has expired, and the memory backend has no more than Limit of them:
\* for every number of ticks in a second, that is for every fraction that the
\* truncation to whole seconds cuts off.
THEOREM RetryAfterAlwaysSuffices == Spec => []RetryAfterSuffices
<1>1. LimiterInv => RetryAfterSuffices
  <2> DEFINE events == window["memory"]
             wait == RetryAfter(events) * Second
  <2> SUFFICES ASSUME LimiterInv, Spent(events)
               PROVE  Len(Remaining(events, wait)) < Limit
    BY DEF RetryAfterSuffices
  <2>1. /\ Events(events) /\ Len(events) \in Nat /\ Len(events) <= Limit
        /\ Limit \in Nat /\ Limit > 0 /\ Len(Live(events)) >= Limit
        /\ Window \in Nat
    BY InvEvents, ThrottleAssumption DEF LimiterInv, TypeOK, Stores, Spent
  <2>2. RetryAfter(events) = SecondsUntil(Window - Head(Live(events)))
    BY DEF RetryAfter
  <2> HIDE DEF events
  <2>3. PICK k \in 0..Len(events) :
          /\ Len(Live(events)) = Len(events) - k
          /\ k = 0 => Live(events) = events
          /\ Fresh(Live(events))
    BY <2>1, LiveIs
  <2>4. k = 0 /\ Live(events) = events /\ Len(events) = Limit /\ Fresh(events)
    BY <2>1, <2>3
  <2>5. events[1] \in Nat /\ events[1] < Window
    BY <2>1, <2>4, ElementOfSeq DEF Events, Fresh, Age
  <2>6. Head(Live(events)) = events[1]
    BY <2>1, <2>4 DEF Events
  <2>7. Window - events[1] \in Nat
    BY <2>1, <2>5
  <2>8. wait \in Nat /\ wait >= Window - events[1]
    BY <2>2, <2>6, <2>7, SecondsReach
  <2> HIDE DEF wait
  <2>9. PICK gone : Splits(events, wait, gone)
    BY <2>1, <2>8, SplitExists
  <2>10. gone \in 1..Len(events)
    BY <2>1, <2>4, <2>5, <2>8, <2>9 DEF Splits
  <2>11. Remaining(events, wait) = SubSeq(events, gone + 1, Len(events))
    BY <2>1, <2>8, <2>9, RemainingIs
  <2>12. Len(SubSeq(events, gone + 1, Len(events))) = Len(events) - gone
    <3>1. \A i \in (gone + 1)..Len(events) : events[i] \in Age
      BY <2>1, <2>10, ElementOfSeq DEF Events
    <3>2. Len(SubSeq(events, gone + 1, Len(events))) =
            IF gone + 1 <= Len(events) THEN Len(events) - (gone + 1) + 1 ELSE 0
      BY <2>1, <2>10, <3>1, SubSeqProperties
    <3> QED
      BY <2>1, <2>10, <3>2
  <2> QED
    BY <2>1, <2>10, <2>11, <2>12
<1> QED
  BY <1>1, LimiterInvariance, PTL

-----------------------------------------------------------------------------
(* How long a lockout lasts *)

\* A lockout ends when the Limit-th newest event expires: the wait until then.
LapsesIn(events) == Window - events[Len(events) - Limit + 1]

\* Each request that may still record may renew the lockout once.
LockoutLeft(s) == Window * Cardinality(Pending(s)) + LapsesIn(window[s])

GetsShorter ==
  \A s \in Stores : Spent(window[s]) /\ Spent(window[s])' /\ ~everDown' =>
    /\ LockoutLeft(s) \in 1..(Window * (Cardinality(Workers) + 1))
    /\ LockoutLeft(s)' <= LockoutLeft(s)
    /\ Tick => LockoutLeft(s)' < LockoutLeft(s)

\* A window is spent if its Limit-th newest event has not expired.
LEMMA SpentIs ==
  ASSUME NEW s, Events(s), Spent(s)
  PROVE  /\ Limit \in Nat \ {0} /\ Len(s) \in Nat /\ Len(s) >= Limit
         /\ s[Len(s) - Limit + 1] \in 0..(Window - 1)
         /\ LapsesIn(s) \in 1..Window
         /\ Spent(Live(s)) => LapsesIn(Live(s)) = LapsesIn(s)
<1>1. Len(s) \in Nat /\ Limit \in Nat /\ Window \in Nat \ {0} /\ Limit > 0
      /\ \A i \in 1..Len(s) : s[i] \in Nat
  BY LenProperties, ElementOfSeq, ThrottleAssumption DEF Events, Age
<1>2. PICK k \in 0..Len(s) :
        /\ Fresh(Live(s))
        /\ Len(Live(s)) = Len(s) - k
        /\ \A i \in 1..(Len(s) - k) : Live(s)[i] = s[k + i]
  BY LiveIs
<1>3. Len(s) - k >= Limit
  BY <1>2 DEF Spent
<1> DEFINE i == Len(s) - k - Limit + 1
<1>4. i \in 1..(Len(s) - k) /\ k + i = Len(s) - Limit + 1 /\ k + i \in 1..Len(s)
  BY <1>1, <1>2, <1>3
<1>5. Live(s)[i] = s[Len(s) - Limit + 1] /\ Live(s)[i] < Window
  BY <1>2, <1>4 DEF Fresh
<1>6. s[Len(s) - Limit + 1] \in 0..(Window - 1)
  BY <1>1, <1>4, <1>5
<1>7. Len(Live(s)) - Limit + 1 = i
  BY <1>2
<1> QED
  BY <1>1, <1>2, <1>3, <1>5, <1>6, <1>7 DEF LapsesIn

\* While a store is spent nobody becomes pending in it, and only a request that
\* records there, or time, changes when the lockout lapses.
LEMMA SpentStep ==
  ASSUME LimiterInv, Next, ~everDown, ~everDown', NEW s \in Stores,
         Spent(window[s]), Spent(window'[s]), ~Tick,
         ~ \E w \in Workers : Record(w) /\ worker[w].via = s
  PROVE  /\ Pending(s)' \subseteq Pending(s)
         /\ window'[s] = window[s] \/ window'[s] = Live(window[s])
<1>1. UpInv /\ window \in [Stores -> Seq(Age)]
  BY DEF LimiterInv, TypeOK
<1>2. window[s] # <<>> /\ window'[s] # <<>>
  <2>1. ~Spent(<<>>)
    BY EmptyIsFresh, LiveOfFresh, EmptySeq, ThrottleAssumption DEF Spent
  <2> QED
    BY <2>1
<1>3. ASSUME NEW w \in Workers,
             \/ FindUnresolved(w) \/ MarkResolved(w) \/ Connect(w)
             \/ StartCheck(w) \/ StartRecord(w) \/ StartClear(w)
      PROVE  Pending(s)' \subseteq Pending(s) /\ window'[s] = window[s]
  <2>1. Pending(s)' \subseteq Pending(s)
    BY <1>2, <1>3, ResolvingJoins
  <2> QED
    BY <1>3, <2>1 DEF FindUnresolved, MarkResolved, Connect, StartCheck,
                      StartRecord, StartClear, Turns
<1>4. ASSUME NEW w \in Workers,
             Pass(w) \/ Refuse(w) \/ Record(w) \/ Clear(w)
      PROVE  /\ \A v \in Workers \ {w} : worker'[v] = worker[v]
             /\ worker[w].via \in Stores /\ client' = client
             /\ worker[w].via = "redis" => client = "redis" /\ reachable
             /\ worker[w].via # s => window'[s] = window[s]
  <2>1. /\ \A v \in Workers \ {w} : worker'[v] = worker[v]
        /\ worker[w].via \in Stores /\ client' = client
    BY <1>4 DEF Pass, Refuse, Record, Clear, LimiterInv, TypeOK
  <2>2. worker[w].at \in {"checking", "recording", "clearing"}
    BY <1>4 DEF Pass, Refuse, Record, Clear
  <2>3. worker[w].via = "redis" => client = "redis" /\ reachable
    BY <1>1, <2>2 DEF UpInv, ViaIsSet
  <2>4. worker[w].via # s => window'[s] = window[s]
    BY <1>1, <1>4, <2>1 DEF Pass, Refuse, Record, Clear
  <2> QED
    BY <2>1, <2>3, <2>4
<1>5. ASSUME NEW w \in Workers, Pass(w)
      PROVE  Pending(s)' \subseteq Pending(s) /\ window'[s] = window[s]
  <2>1. worker'[w].at = "passed" /\ worker[w].at = "checking"
    BY <1>5 DEF Pass, LimiterInv, TypeOK
  <2>2. worker[w].via # s
    BY <1>4, <1>5 DEF Pass, Reaches, Stores
  <2>3. Pending(s)' \subseteq Pending(s)
    BY <1>4, <1>5, <2>1, <2>2 DEF Pending, Stores
  <2> QED
    BY <1>4, <1>5, <2>2, <2>3
<1>6. ASSUME NEW w \in Workers, Refuse(w)
      PROVE  /\ Pending(s)' \subseteq Pending(s)
             /\ window'[s] = window[s] \/ window'[s] = Live(window[s])
  <2>1. worker'[w].at = "idle"
    BY <1>6 DEF Refuse, LimiterInv, TypeOK
  <2>2. Pending(s)' \subseteq Pending(s)
    BY <1>4, <1>6, <2>1 DEF Pending
  <2>3. worker[w].via = s => window'[s] = Live(window[s])
    BY <1>1, <1>6 DEF Refuse, Checked
  <2> QED
    BY <1>4, <1>6, <2>2, <2>3
<1>7. ASSUME NEW w \in Workers, Record(w) \/ Clear(w)
      PROVE  Pending(s)' \subseteq Pending(s) /\ window'[s] = window[s]
  <2>1. worker'[w].at \in {"clearing", "idle"}
    BY <1>7 DEF Record, Clear, LimiterInv, TypeOK
  <2>2. Pending(s)' \subseteq Pending(s)
    BY <1>4, <1>7, <2>1 DEF Pending
  <2>3. worker[w].via # s
    <3>1. CASE Record(w)
      BY <3>1
    <3>2. CASE Clear(w)
      BY <1>1, <1>2, <1>4, <3>2 DEF Clear, Reaches, Stores
    <3> QED
      BY <1>7, <3>1, <3>2
  <2> QED
    BY <1>4, <1>7, <2>2, <2>3
<1>8. ~Switch
  BY ThrottleAssumption DEF Switch, everDown, LimiterInv, TypeOK
<1> QED
  BY <1>3, <1>5, <1>6, <1>7, <1>8 DEF Next

LEMMA NextGetsShorter == LimiterInv /\ Next => GetsShorter
<1> SUFFICES ASSUME LimiterInv, Next, NEW s \in Stores,
                    Spent(window[s]), Spent(window[s])', ~everDown'
             PROVE  /\ LockoutLeft(s) \in 1..(Window * (Cardinality(Workers) + 1))
                    /\ LockoutLeft(s)' <= LockoutLeft(s)
                    /\ Tick => LockoutLeft(s)' < LockoutLeft(s)
  BY DEF GetsShorter
<1>1. LimiterInv'
  BY NextLimiterInv
<1>2. Events(window[s]) /\ Events(window'[s])
  <2>1. Events(window[s]) /\ Events(window[s])'
    BY <1>1, InvEvents DEF LimiterInv, TypeOK, Events
  <2> QED
    BY <2>1 DEF Events, Sorted
<1>3. Spent(window'[s])
  BY DEF Spent, Live, Remaining, Expired
<1>4. PICK e \in 1..Window : e = LapsesIn(window[s])
  BY <1>2, SpentIs
<1>5. PICK f \in 1..Window : f = LapsesIn(window'[s])
  BY <1>2, <1>3, SpentIs
<1>6. PICK c \in Nat, d \in Nat, n \in Nat :
        /\ c = Cardinality(Pending(s)) /\ d = Cardinality(Pending(s)')
        /\ n = Cardinality(Workers) /\ c <= n
        /\ Pending(s)' \subseteq Pending(s) => d <= c
  BY PendingIsFinite
<1>7. Window \in Nat \ {0} /\ Limit \in Nat \ {0}
  BY <1>2, SpentIs, ThrottleAssumption
<1>8. LockoutLeft(s) = Window * c + e /\ LockoutLeft(s)' = Window * d + f
  BY <1>4, <1>5, <1>6 DEF LockoutLeft, LapsesIn
<1>9. Window * c + e \in 1..(Window * (n + 1))
  <2>1. PICK m \in Nat : n = c + m
    <3>1. n - c \in Nat /\ n = c + (n - c)
      BY <1>6
    <3> QED
      BY <3>1
  <2>2. Window * (n + 1) = Window * c + Window * m + Window
    BY <1>6, <1>7, <2>1
  <2>3. Window * c \in Nat /\ Window * m \in Nat /\ Window * (n + 1) \in Nat
    BY <1>6, <1>7, <2>1
  <2> QED
    BY <1>7, <2>2, <2>3
<1>10. ~everDown
  BY ThrottleAssumption
  DEF Next, FindUnresolved, MarkResolved, Connect, StartCheck, StartRecord,
      StartClear, Turns, Pass, Refuse, Record, Clear, Tick, Switch, everDown,
      LimiterInv, TypeOK
<1>11. ASSUME NEW w \in Workers, Record(w), worker[w].via = s
       PROVE  Window * d + f < Window * c + e
  <2>1. d = c - 1
    BY <1>6, <1>11, DoneIsNotPending DEF Record
  <2>2. Window * d + Window = Window * c
    BY <1>6, <1>7, <2>1
  <2>3. Window * d \in Nat /\ Window * c \in Nat
    BY <1>6, <1>7
  <2> QED
    BY <1>7, <2>2, <2>3
<1>12. ASSUME ~Tick, ~ \E w \in Workers : Record(w) /\ worker[w].via = s
       PROVE  Window * d + f <= Window * c + e
  <2>1. /\ Pending(s)' \subseteq Pending(s)
        /\ window'[s] = window[s] \/ window'[s] = Live(window[s])
    BY <1>3, <1>10, <1>12, SpentStep
  <2>2. e = f
    BY <1>2, <1>3, <1>4, <1>5, <2>1, SpentIs
  <2>3. PICK m \in Nat : c = d + m
    <3>1. c - d \in Nat /\ c = d + (c - d)
      BY <1>6, <2>1
    <3> QED
      BY <3>1
  <2>4. Window * c = Window * d + Window * m
    BY <1>6, <1>7, <2>3
  <2>5. Window * c \in Nat /\ Window * d \in Nat /\ Window * m \in Nat
    BY <1>6, <1>7, <2>3
  <2> QED
    BY <2>2, <2>4, <2>5
<1>13. ASSUME Tick
       PROVE  c = d /\ f = e - 1
  <2>1. window'[s] = Older(window[s]) /\ Pending(s)' = Pending(s)
    BY <1>13 DEF Tick, Pending
  <2> DEFINE i == Len(window[s]) - Limit + 1
  <2>2. /\ Len(window'[s]) = Len(window[s]) /\ i \in 1..Len(window[s])
        /\ window[s][i] \in 0..(Window - 1)
        /\ window'[s][i] = IF window[s][i] < Window THEN window[s][i] + 1 ELSE Window
    <3>1. /\ Limit \in Nat \ {0} /\ Len(window[s]) \in Nat
          /\ Len(window[s]) >= Limit /\ window[s][i] \in 0..(Window - 1)
      BY <1>2, SpentIs
    <3>2. i \in 1..Len(window[s])
      BY <3>1
    <3>3. /\ Len(Older(window[s])) = Len(window[s])
          /\ \A j \in 1..Len(window[s]) : Older(window[s])[j] =
               IF window[s][j] < Window THEN window[s][j] + 1 ELSE Window
      BY <1>2, OlderIs
    <3> QED
      BY <2>1, <3>1, <3>2, <3>3
  <2>3. e = Window - window[s][i] /\ f = Window - window'[s][i]
    BY <1>4, <1>5, <2>2 DEF LapsesIn
  <2> HIDE DEF i
  <2>4. window'[s][i] = window[s][i] + 1
    BY <1>7, <2>2
  <2>5. f = e - 1
    BY <1>7, <2>2, <2>3, <2>4
  <2>6. c = d
    BY <1>6, <2>1
  <2> QED
    BY <2>5, <2>6
<1>14. \/ Window * d + f < Window * c + e
       \/ Window * d + f <= Window * c + e /\ ~Tick
  <2>1. Window * c \in Int
    BY <1>6, <1>7
  <2>2. CASE Tick
    BY <1>13, <2>1, <2>2
  <2>3. CASE ~Tick
    BY <1>11, <1>12, <2>3
  <2> QED
    BY <2>2, <2>3
<1>15. Window * c + e \in Nat /\ Window * d + f \in Nat
  BY <1>6, <1>7
<1> QED
  BY <1>6, <1>8, <1>9, <1>14, <1>15

\* Without an outage, the lockout of a store lasts no longer than the window for
\* every request that was on its way to record there when it began, and once more:
\* no refused request extends it, each of those others at most once, and time
\* shortens it.
THEOREM LockoutsAlwaysGetShorter == Spec => [][GetsShorter]_vars
<1>1. LimiterInv /\ [Next]_vars => [GetsShorter]_vars
  BY NextGetsShorter
<1> QED
  BY <1>1, LimiterInvariance, PTL DEF Spec

-----------------------------------------------------------------------------
(* The vector index: what a thread has when it is in a phase *)

Writing == {"saving2", "saving3", "saving4"}
Building == {"building", "publishing", "saving1"} \cup Writing
Holding == {"reading", "pairing", "publishing", "saving1"} \cup Writing
Searched == {"scored", "answered", "empty"}

\* A thread has what its phase works with.  An empty global is met by nobody who
\* has found it filled: only a restart empties it, and ends all threads.
Equipped(t) ==
  /\ thread[t].phase \in Holding => thread[t].held \in Built
  /\ thread[t].phase \in {"saving2", "saving4"} => thread[t].written \in Built
  /\ thread[t].phase \in {"pairing", "publishing"} => index[Home[t]] # None
  /\ thread[t].phase \in {"saving1", "searching"} \cup Writing \cup Searched =>
       index[Home[t]] # None /\ documents[Home[t]] # None
  /\ thread[t].phase \in Searched => thread[t].scores # None
  /\ thread[t].phase = "answered" => thread[t].found # None

CacheInv == CacheTypeOK /\ \A t \in Threads : Equipped(t)

\* The fields of a thread after its step; the other threads do not move.
Becomes(t, phase, held, scores, found) ==
  /\ thread' \in [Threads -> Thread]
  /\ thread'[t].phase = phase /\ thread'[t].held = held
  /\ thread'[t].scores = scores /\ thread'[t].found = found
  /\ \A u \in Threads \ {t} : thread'[u] = thread[u]

LEMMA GoesBecomes ==
  ASSUME CacheTypeOK, NEW t \in Threads, NEW phase \in Phase, Goes(t, phase)
  PROVE  Becomes(t, phase, thread[t].held, thread[t].scores, thread[t].found)
BY DEF CacheTypeOK, Goes, Becomes, Thread

LEMMA HoldsBecomes ==
  ASSUME CacheTypeOK, NEW t \in Threads, NEW phase \in Phase, NEW held \in Built,
         Holds(t, phase, held)
  PROVE  Becomes(t, phase, held, thread[t].scores, thread[t].found)
BY DEF CacheTypeOK, Holds, Becomes, Thread

LEMMA WritesBecomes ==
  ASSUME CacheTypeOK, NEW t \in Threads, NEW phase \in Phase, NEW what \in Built,
         Writes(t, phase, what)
  PROVE  /\ Becomes(t, phase, thread[t].held, thread[t].scores, thread[t].found)
         /\ thread'[t].written = what
BY DEF CacheTypeOK, Writes, Becomes, Thread

LEMMA IdleBecomes ==
  ASSUME CacheTypeOK, NEW t \in Threads, thread' = [thread EXCEPT ![t] = Idle]
  PROVE  Becomes(t, "idle", None, None, None)
BY DEF CacheTypeOK, Idle, Becomes, Thread, Phase

\* The others stay equipped, and the one that moves is left to show.
LEMMA OthersStayEquipped ==
  ASSUME CacheInv, NEW t \in Threads, NEW phase, NEW held, NEW scores, NEW found,
         Becomes(t, phase, held, scores, found),
         \A p \in Processes : index[p] # None => index'[p] # None,
         \A p \in Processes : documents[p] # None => documents'[p] # None,
         Equipped(t)'
  PROVE  \A u \in Threads : Equipped(u)'
<1> SUFFICES ASSUME NEW u \in Threads \ {t} PROVE Equipped(u)'
  OBVIOUS
<1>1. thread'[u] = thread[u] /\ Home[u] \in Processes /\ Equipped(u)
  BY CacheAssumption DEF Becomes, CacheInv
<1> QED
  BY <1>1 DEF Equipped

\* The facts about the constants that the steps need.
LEMMA CacheFacts ==
  ASSUME CacheTypeOK, NEW t \in Threads
  PROVE  /\ Home[t] \in Processes /\ Setting(t) \in Built
         /\ thread[t] \in Thread
         /\ thread[t].phase \in Phase /\ thread[t].held \in Built \cup {None}
         /\ thread[t].scores \in Built \cup {None}
         /\ thread[t].found \in Documents \cup {None}
         /\ index[Home[t]] \in Built \cup {None}
         /\ documents[Home[t]] \in Documents \cup {None}
         /\ None \notin Built /\ None \notin Documents /\ Torn \notin Built
         /\ Torn # None
         /\ \A c \in Built : c.signature \in Signatures /\ c.docs \in Documents
BY CacheAssumption DEF CacheTypeOK, Setting, Thread, Built

LEMMA EnsureIndexKeepsInv ==
  ASSUME CacheInv, NEW t \in Threads, EnsureIndex(t)
  PROVE  CacheInv'
<1>1. CacheTypeOK /\ Equipped(t)
  BY DEF CacheInv
<1> DEFINE phase == IF Ready(t) THEN "searching"
                    ELSE IF FilesExist THEN "loading" ELSE "building"
<1>2. Becomes(t, phase, thread[t].held, thread[t].scores, thread[t].found)
  <2>1. phase \in Phase /\ Goes(t, phase)
    BY DEF Phase, EnsureIndex
  <2> HIDE DEF phase
  <2> QED
    BY <1>1, <2>1, GoesBecomes
<1>3. UNCHANGED <<setting, index, documents, indexFile, docsFile, history>>
  BY DEF EnsureIndex
<1>4. CacheTypeOK'
  BY <1>1, <1>2, <1>3 DEF CacheTypeOK, Becomes, history
<1>5. Equipped(t)'
  BY <1>1, <1>2, <1>3
     DEF Equipped, Becomes, Ready, Holding, Writing, Searched
<1> QED
  BY <1>2, <1>3, <1>4, <1>5, OthersStayEquipped DEF CacheInv

LEMMA LoadDocumentsKeepsInv ==
  ASSUME CacheInv, NEW t \in Threads, LoadDocuments(t)
  PROVE  CacheInv'
<1>1. CacheTypeOK /\ Equipped(t)
  BY DEF CacheInv
<1>2. UNCHANGED <<setting, index, documents, indexFile, docsFile, history>>
  BY DEF LoadDocuments
<1>3. \/ /\ docsFile \in Built
         /\ Becomes(t, "reading", docsFile, thread[t].scores, thread[t].found)
      \/ Becomes(t, "building", thread[t].held, thread[t].scores, thread[t].found)
  <2>1. {"reading", "building"} \subseteq Phase
    BY DEF Phase
  <2> QED
    BY <1>1, <2>1, GoesBecomes, HoldsBecomes DEF LoadDocuments, Matches
<1>4. CacheTypeOK' /\ Equipped(t)'
  BY <1>1, <1>2, <1>3
     DEF CacheTypeOK, Equipped, Becomes, Holding, Writing, Searched, history
<1> QED
  BY <1>2, <1>3, <1>4, OthersStayEquipped DEF CacheInv

LEMMA LoadIndexKeepsInv ==
  ASSUME CacheInv, NEW t \in Threads, LoadIndex(t)
  PROVE  CacheInv'
<1>1. CacheTypeOK /\ Equipped(t) /\ Home[t] \in Processes
  BY CacheFacts DEF CacheInv
<1>2. UNCHANGED <<setting, documents, indexFile, docsFile, history>>
  BY DEF LoadIndex
<1> DEFINE held == thread[t].held
           scores == thread[t].scores
           found == thread[t].found
<1>3. \/ /\ indexFile \in Built /\ index' = [index EXCEPT ![Home[t]] = indexFile]
         /\ Becomes(t, "pairing", held, scores, found)
      \/ index' = index /\ Becomes(t, "building", held, scores, found)
  <2>1. {"pairing", "building"} \subseteq Phase
    BY DEF Phase
  <2> QED
    BY <1>1, <2>1, GoesBecomes DEF LoadIndex
<1>4. CacheTypeOK'
  BY <1>1, <1>2, <1>3 DEF CacheTypeOK, Becomes, history
<1>5. index'[Home[t]] = index[Home[t]] \/ index'[Home[t]] \in Built
  BY <1>1, <1>3 DEF CacheTypeOK
<1>6. thread[t].held \in Built
  BY <1>1 DEF LoadIndex, At, Equipped, Holding
<1>7. Equipped(t)'
  BY <1>1, <1>2, <1>3, <1>6, CacheFacts
     DEF CacheTypeOK, Equipped, Becomes, Holding, Writing, Searched
<1>8. \A p \in Processes : index[p] # None => index'[p] # None
  BY <1>1, <1>3, CacheFacts DEF CacheTypeOK
<1> QED
  BY <1>2, <1>3, <1>4, <1>7, <1>8, OthersStayEquipped DEF CacheInv

LEMMA AssignDocumentsKeepsInv ==
  ASSUME CacheInv, NEW t \in Threads, AssignDocuments(t)
  PROVE  CacheInv'
<1>1. CacheTypeOK /\ Equipped(t) /\ Home[t] \in Processes
  BY CacheFacts DEF CacheInv
<1>2. /\ UNCHANGED <<setting, index, indexFile, docsFile, history>>
      /\ documents' = [documents EXCEPT ![Home[t]] = thread[t].held.docs]
  BY DEF AssignDocuments
<1>3. Becomes(t, "searching", thread[t].held, thread[t].scores, thread[t].found)
  BY <1>1, GoesBecomes DEF AssignDocuments, Phase
<1>4. /\ index[Home[t]] # None
      /\ thread[t].held.docs \in Documents /\ thread[t].held.docs # None
  BY <1>1, CacheFacts DEF AssignDocuments, At, Equipped, Holding
<1>5. CacheTypeOK'
  BY <1>1, <1>2, <1>3, <1>4 DEF CacheTypeOK, Becomes, history
<1>6. Equipped(t)'
  BY <1>1, <1>2, <1>3, <1>4
     DEF CacheTypeOK, Equipped, Becomes, Holding, Writing, Searched
<1>7. \A p \in Processes : documents[p] # None => documents'[p] # None
  BY <1>1, <1>2, <1>4 DEF CacheTypeOK
<1> QED
  BY <1>2, <1>3, <1>5, <1>6, <1>7, OthersStayEquipped DEF CacheInv

LEMMA BuildIndexKeepsInv ==
  ASSUME CacheInv, NEW t \in Threads, BuildIndex(t)
  PROVE  CacheInv'
<1>1. CacheTypeOK /\ Equipped(t) /\ Home[t] \in Processes /\ Setting(t) \in Built
      /\ Setting(t) # None
  BY CacheFacts DEF CacheInv
<1>2. /\ UNCHANGED <<setting, documents, indexFile, docsFile, history>>
      /\ index' = [index EXCEPT ![Home[t]] = Setting(t)]
  BY DEF BuildIndex
<1>3. Becomes(t, "publishing", Setting(t), thread[t].scores, thread[t].found)
  BY <1>1, HoldsBecomes DEF BuildIndex, Phase
<1>4. CacheTypeOK'
  BY <1>1, <1>2, <1>3 DEF CacheTypeOK, Becomes, history
<1>5. Equipped(t)'
  BY <1>1, <1>2, <1>3
     DEF CacheTypeOK, Equipped, Becomes, Holding, Writing, Searched
<1>6. \A p \in Processes : index[p] # None => index'[p] # None
  BY <1>1, <1>2 DEF CacheTypeOK
<1> QED
  BY <1>2, <1>3, <1>4, <1>5, <1>6, OthersStayEquipped DEF CacheInv

LEMMA PublishDocumentsKeepsInv ==
  ASSUME CacheInv, NEW t \in Threads, PublishDocuments(t)
  PROVE  CacheInv'
<1>1. CacheTypeOK /\ Equipped(t) /\ Home[t] \in Processes
  BY CacheFacts DEF CacheInv
<1>2. /\ UNCHANGED <<setting, index, indexFile, docsFile, history>>
      /\ documents' = [documents EXCEPT ![Home[t]] = thread[t].held.docs]
  BY DEF PublishDocuments
<1>3. Becomes(t, "saving1", thread[t].held, thread[t].scores, thread[t].found)
  BY <1>1, GoesBecomes DEF PublishDocuments, Phase
<1>4. /\ index[Home[t]] # None /\ thread[t].held \in Built
      /\ thread[t].held.docs \in Documents /\ thread[t].held.docs # None
  BY <1>1, CacheFacts DEF PublishDocuments, At, Equipped, Holding
<1>5. CacheTypeOK'
  BY <1>1, <1>2, <1>3, <1>4 DEF CacheTypeOK, Becomes, history
<1>6. Equipped(t)'
  BY <1>1, <1>2, <1>3, <1>4
     DEF CacheTypeOK, Equipped, Becomes, Holding, Writing, Searched
<1>7. \A p \in Processes : documents[p] # None => documents'[p] # None
  BY <1>1, <1>2, <1>4 DEF CacheTypeOK
<1> QED
  BY <1>2, <1>3, <1>5, <1>6, <1>7, OthersStayEquipped DEF CacheInv

\* The steps of _save_cache change the files only, from one saving phase to the next.
LEMMA SaveStep ==
  ASSUME CacheInv, NEW t \in Threads, NEW phase,
         Becomes(t, phase, thread[t].held, thread[t].scores, thread[t].found),
         thread[t].phase \in {"saving1"} \cup Writing,
         phase \in {"searching"} \cup Writing,
         phase \in {"saving2", "saving4"} => thread'[t].written \in Built,
         UNCHANGED <<setting, index, documents, history>>,
         indexFile' \in Built \cup {None, Torn}, docsFile' \in Built \cup {None, Torn}
  PROVE  CacheInv'
<1>1. CacheTypeOK /\ Equipped(t)
  BY DEF CacheInv
<1>2. CacheTypeOK'
  BY <1>1 DEF CacheTypeOK, Becomes, history
<1>3. Equipped(t)'
  BY <1>1 DEF Equipped, Becomes, Holding, Writing, Searched
<1> QED
  BY <1>2, <1>3, OthersStayEquipped DEF CacheInv

\* What the steps of _save_cache do to their thread and to the files.
LEMMA SaveBecomes ==
  ASSUME CacheInv, NEW t \in Threads
  PROVE
  /\ StartIndexFile(t) =>
       /\ index[Home[t]] \in Built /\ thread'[t].written = index[Home[t]]
       /\ Becomes(t, "saving2", thread[t].held, thread[t].scores, thread[t].found)
  /\ FinishIndexFile(t) =>
       /\ thread[t].written \in Built /\ indexFile' = thread[t].written
       /\ Becomes(t, "saving3", thread[t].held, thread[t].scores, thread[t].found)
  /\ StartDocumentsFile(t) =>
       /\ thread'[t].written \in Built
       /\ thread'[t].written.signature = thread[t].held.signature
       /\ thread'[t].written.docs = documents[Home[t]]
       /\ Becomes(t, "saving4", thread[t].held, thread[t].scores, thread[t].found)
  /\ FinishDocumentsFile(t) =>
       /\ thread[t].written \in Built /\ docsFile' = thread[t].written
       /\ Becomes(t, "searching", thread[t].held, thread[t].scores, thread[t].found)
<1>1. CacheTypeOK /\ Equipped(t) /\ Home[t] \in Processes
  BY CacheFacts DEF CacheInv
<1>2. {"saving2", "saving3", "saving4", "searching"} \subseteq Phase
  BY DEF Phase
<1>3. ASSUME StartIndexFile(t)
      PROVE  /\ index[Home[t]] \in Built /\ thread'[t].written = index[Home[t]]
             /\ Becomes(t, "saving2", thread[t].held, thread[t].scores, thread[t].found)
  <2>1. index[Home[t]] \in Built
    BY <1>1, <1>3, CacheFacts DEF StartIndexFile, At, Equipped
  <2>2. Writes(t, "saving2", index[Home[t]])
    BY <1>3 DEF StartIndexFile
  <2> QED
    BY <1>1, <1>2, <2>1, <2>2, WritesBecomes
<1>4. ASSUME FinishIndexFile(t)
      PROVE  /\ thread[t].written \in Built /\ indexFile' = thread[t].written
             /\ Becomes(t, "saving3", thread[t].held, thread[t].scores, thread[t].found)
  BY <1>1, <1>2, <1>4, GoesBecomes DEF FinishIndexFile, At, Equipped
<1>5. ASSUME StartDocumentsFile(t)
      PROVE  /\ thread'[t].written \in Built
             /\ thread'[t].written.signature = thread[t].held.signature
             /\ thread'[t].written.docs = documents[Home[t]]
             /\ Becomes(t, "saving4", thread[t].held, thread[t].scores, thread[t].found)
  <2> DEFINE what == [signature |-> thread[t].held.signature,
                      docs |-> documents[Home[t]]]
  <2>1. documents[Home[t]] \in Documents /\ thread[t].held.signature \in Signatures
    BY <1>1, <1>5, CacheFacts DEF StartDocumentsFile, At, Equipped, Holding, Writing
  <2>2. what \in Built /\ Writes(t, "saving4", what)
    BY <1>5, <2>1 DEF StartDocumentsFile, Built
  <2>3. what.signature = thread[t].held.signature /\ what.docs = documents[Home[t]]
    OBVIOUS
  <2> HIDE DEF what
  <2> QED
    BY <1>1, <1>2, <2>2, <2>3, WritesBecomes
<1>6. ASSUME FinishDocumentsFile(t)
      PROVE  /\ thread[t].written \in Built /\ docsFile' = thread[t].written
             /\ Becomes(t, "searching", thread[t].held, thread[t].scores, thread[t].found)
  BY <1>1, <1>2, <1>6, GoesBecomes DEF FinishDocumentsFile, At, Equipped
<1> QED
  BY <1>3, <1>4, <1>5, <1>6

LEMMA SaveCacheKeepsInv ==
  ASSUME CacheInv, NEW t \in Threads,
         \/ StartIndexFile(t) \/ FinishIndexFile(t)
         \/ StartDocumentsFile(t) \/ FinishDocumentsFile(t)
  PROVE  CacheInv'
<1>1. CacheTypeOK
  BY DEF CacheInv
<1>2. CASE StartIndexFile(t)
  BY <1>1, <1>2, SaveStep, SaveBecomes DEF StartIndexFile, At, Writing, CacheTypeOK
<1>3. CASE FinishIndexFile(t)
  BY <1>1, <1>3, SaveStep, SaveBecomes DEF FinishIndexFile, At, Writing, CacheTypeOK
<1>4. CASE StartDocumentsFile(t)
  BY <1>1, <1>4, SaveStep, SaveBecomes
     DEF StartDocumentsFile, At, Writing, CacheTypeOK
<1>5. CASE FinishDocumentsFile(t)
  BY <1>1, <1>5, SaveStep, SaveBecomes
     DEF FinishDocumentsFile, At, Writing, CacheTypeOK
<1> QED
  BY <1>2, <1>3, <1>4, <1>5

LEMMA EndKeepsInv ==
  ASSUME CacheInv, NEW t \in Threads, Fails(t) \/ NextSearch(t)
  PROVE  CacheInv'
<1>1. CacheTypeOK
  BY DEF CacheInv
<1>2. /\ UNCHANGED <<setting, index, documents, indexFile, docsFile, returned>>
      /\ broken' \in {broken, TRUE}
      /\ thread' = [thread EXCEPT ![t] = Idle]
  BY DEF Fails, NextSearch, history
<1>3. Becomes(t, "idle", None, None, None)
  BY <1>1, <1>2, IdleBecomes
<1>4. CacheTypeOK'
  BY <1>1, <1>2, <1>3 DEF CacheTypeOK, Becomes
<1>5. Equipped(t)'
  BY <1>3 DEF Equipped, Becomes, Holding, Writing, Searched
<1> QED
  BY <1>2, <1>3, <1>4, <1>5, OthersStayEquipped DEF CacheInv

\* What SearchIndex and PickDocuments do to their thread.
LEMMA SearchBecomes ==
  ASSUME CacheTypeOK, NEW t \in Threads, SearchIndex(t)
  PROVE  \E phase \in {"scored", "empty"} :
           Becomes(t, phase, thread[t].held, index[Home[t]], thread[t].found)
<1> DEFINE searched == index[Home[t]]
           phase == IF /\ searched # None
                       /\ Dimension[searched.signature] = Dimension[Setting(t).signature]
                    THEN "scored" ELSE "empty"
<1>1. phase \in {"scored", "empty"} /\ searched \in Built \cup {None}
  BY CacheFacts
<1>2. thread' = [thread EXCEPT ![t].phase = phase, ![t].scores = searched]
  BY DEF SearchIndex
<1> HIDE DEF phase, searched
<1>3. Becomes(t, phase, thread[t].held, searched, thread[t].found)
  BY <1>1, <1>2 DEF CacheTypeOK, Becomes, Thread, Phase
<1> QED
  BY <1>1, <1>3 DEF searched

LEMMA PickBecomes ==
  ASSUME CacheTypeOK, NEW t \in Threads, PickDocuments(t)
  PROVE  Becomes(t, "answered", thread[t].held, thread[t].scores, documents[Home[t]])
<1> DEFINE picked == documents[Home[t]]
<1>1. picked \in Documents \cup {None}
  BY CacheFacts
<1>2. thread' = [thread EXCEPT ![t].phase = "answered", ![t].found = picked]
  BY DEF PickDocuments
<1> HIDE DEF picked
<1>3. Becomes(t, "answered", thread[t].held, thread[t].scores, picked)
  BY <1>1, <1>2 DEF CacheTypeOK, Becomes, Thread, Phase
<1> QED
  BY <1>3 DEF picked

LEMMA SearchKeepsInv ==
  ASSUME CacheInv, NEW t \in Threads, SearchIndex(t) \/ PickDocuments(t)
  PROVE  CacheInv'
<1>1. CacheTypeOK /\ Equipped(t)
  BY DEF CacheInv
<1>2. UNCHANGED <<setting, index, documents, indexFile, docsFile, history>>
  BY DEF SearchIndex, PickDocuments
<1>3. index[Home[t]] # None /\ documents[Home[t]] # None
  BY <1>1 DEF SearchIndex, PickDocuments, At, Equipped, Searched
<1>4. \E phase, scores, found :
        /\ phase \in {"scored", "empty", "answered"}
        /\ Becomes(t, phase, thread[t].held, scores, found)
        /\ scores # None /\ (phase = "answered" => found # None)
  <2>1. CASE SearchIndex(t)
    BY <1>1, <1>3, <2>1, SearchBecomes
  <2>2. CASE PickDocuments(t)
    <3>1. /\ Becomes(t, "answered", thread[t].held, thread[t].scores, documents[Home[t]])
          /\ thread[t].scores # None /\ documents[Home[t]] # None
      BY <1>1, <1>3, <2>2, PickBecomes DEF PickDocuments, At, Equipped, Searched
    <3> QED
      BY <3>1
  <2> QED
    BY <2>1, <2>2
<1>5. CacheTypeOK'
  BY <1>1, <1>2, <1>4 DEF CacheTypeOK, Becomes, history
<1>6. Equipped(t)'
  BY <1>2, <1>3, <1>4 DEF Equipped, Becomes, Holding, Writing, Searched
<1> QED
  BY <1>2, <1>4, <1>5, <1>6, OthersStayEquipped DEF CacheInv

LEMMA RestartKeepsInv ==
  ASSUME CacheInv, NEW p \in Processes, NEW new \in Built, Restart(p, new)
  PROVE  CacheInv'
<1>1. CacheTypeOK'
  <2>1. Idle \in Thread
    BY DEF Idle, Thread, Phase
  <2>2. thread' \in [Threads -> Thread]
    BY <2>1 DEF Restart, CacheInv, CacheTypeOK
  <2>3. broken' \in BOOLEAN /\ returned' \in BOOLEAN
    BY DEF Restart, CacheInv, CacheTypeOK
  <2> QED
    BY <2>2, <2>3 DEF Restart, CacheInv, CacheTypeOK
<1>2. ASSUME NEW t \in Threads
      PROVE  Equipped(t)'
  <2>1. CASE Home[t] = p
    BY <2>1 DEF Restart, Equipped, Idle, Holding, Writing, Searched
  <2>2. CASE Home[t] # p
    BY <2>2, CacheFacts DEF Restart, CacheInv, CacheTypeOK, Equipped
  <2> QED
    BY <2>1, <2>2
<1> QED
  BY <1>1, <1>2 DEF CacheInv

LEMMA InitCacheInv == CacheInit => CacheInv
<1> SUFFICES ASSUME CacheInit PROVE CacheInv
  OBVIOUS
<1>1. Idle \in Thread
  BY DEF Idle, Thread, Phase
<1>2. CacheTypeOK
  BY <1>1 DEF CacheInit, CacheTypeOK
<1>3. \A t \in Threads : Equipped(t)
  BY DEF CacheInit, Idle, Equipped, Holding, Writing, Searched
<1> QED
  BY <1>2, <1>3 DEF CacheInv

LEMMA NextCacheInv == CacheInv /\ [CacheNext]_cacheVars => CacheInv'
<1> SUFFICES ASSUME CacheInv, [CacheNext]_cacheVars PROVE CacheInv'
  OBVIOUS
<1>1. CASE UNCHANGED cacheVars
  BY <1>1 DEF cacheVars, history, CacheInv, CacheTypeOK, Equipped
<1>2. CASE CacheNext
  BY <1>2, EnsureIndexKeepsInv, LoadDocumentsKeepsInv, LoadIndexKeepsInv,
     AssignDocumentsKeepsInv, BuildIndexKeepsInv, PublishDocumentsKeepsInv,
     SaveCacheKeepsInv, EndKeepsInv, SearchKeepsInv, RestartKeepsInv DEF CacheNext
<1> QED
  BY <1>1, <1>2

LEMMA CacheInvariance == CacheSpec => []CacheInv
BY InitCacheInv, NextCacheInv, PTL DEF CacheSpec

-----------------------------------------------------------------------------
(* Theorems about the vector index *)

\* The globals and the files are always empty or an index and its documents; a
\* torn file is never taken for one.
THEOREM CacheTypeCorrect == CacheSpec => []CacheTypeOK
<1>1. CacheInv => CacheTypeOK
  BY DEF CacheInv
<1> QED
  BY <1>1, CacheInvariance, PTL

\* No search runs into an empty global, however many threads and processes fill
\* the globals and the files, and whatever is killed.
THEOREM SearchesAlwaysSomething == CacheSpec => []SearchesSomething
<1>1. CacheInv => SearchesSomething
  BY DEF CacheInv, Equipped, SearchesSomething, At, Searched
<1> QED
  BY <1>1, CacheInvariance, PTL

-----------------------------------------------------------------------------
(* One process: what it has indexed, as long as no build is cut short *)

\* What a thread holds, has searched or has answered with comes from c, and a
\* thread between the two files finds no other index in the first.
Follows(t, c) ==
  /\ thread[t].phase \in Holding => thread[t].held = c
  /\ thread[t].phase \in {"saving2", "saving4"} => thread[t].written = c
  /\ thread[t].phase \in {"reading"} \cup Writing => indexFile \in {c, Torn}
  /\ thread[t].phase \in Searched => thread[t].scores = c
  /\ thread[t].phase = "answered" => thread[t].found = c.docs

\* The process works with c since it was started.  Either c is what it was
\* started with, or both files hold c and nobody has a reason to build.
Origin(p, c) ==
  \/ c = setting[p]
  \/ /\ docsFile = c /\ indexFile = c
     /\ \A t \in Threads : thread[t].phase \notin Building

\* Files that the process would load hold c.
LoadsOnly(c) ==
  docsFile \in Built /\ docsFile.signature = c.signature =>
    docsFile = c /\ indexFile \in {c, Torn}

Content(p, c) ==
  /\ c \in Built /\ c.signature = setting[p].signature
  /\ Origin(p, c)
  /\ index[p] \in {None, c} /\ documents[p] \in {None, c.docs}
  /\ LoadsOnly(c)
  /\ \A t \in Threads : Follows(t, c)

\* Files that differ, or one that is torn, are being written.
Finished ==
  /\ docsFile \in Built /\ indexFile # docsFile =>
       \E t \in Threads : thread[t].phase \in Writing
  /\ indexFile = Torn => \E t \in Threads : thread[t].phase = "saving2"

ContentInv(p) == ~broken => Finished /\ \E c \in Built : Content(p, c)

\* What is left to show of a step of thread t.
LEMMA ContentStep ==
  ASSUME CacheTypeOK, NEW p, Processes = {p}, NEW c, Content(p, c),
         NEW t \in Threads, NEW phase, NEW held, NEW scores, NEW found,
         Becomes(t, phase, held, scores, found), setting' = setting,
         index'[p] \in {None, c}, documents'[p] \in {None, c.docs},
         indexFile' \in {indexFile, c, Torn},
         phase \in Building => thread[t].phase \in Building \/ c = setting[p],
         \/ c = setting[p]
         \/ docsFile' = docsFile /\ indexFile' = indexFile,
         LoadsOnly(c)', Follows(t, c)'
  PROVE  Content(p, c)'
<1>1. Origin(p, c)'
  BY DEF Content, Origin, Becomes
<1>2. \A u \in Threads : Follows(u, c)'
  <2> SUFFICES ASSUME NEW u \in Threads \ {t} PROVE Follows(u, c)'
    OBVIOUS
  <2>1. thread'[u] = thread[u] /\ Follows(u, c)
    BY DEF Becomes, Content
  <2> QED
    BY <2>1 DEF Follows
<1> QED
  BY <1>1, <1>2 DEF Content

\* A step that neither writes a file nor is one of _save_cache.
LEMMA FinishedStep ==
  ASSUME Finished, NEW t \in Threads, NEW phase, NEW held, NEW scores, NEW found,
         Becomes(t, phase, held, scores, found), thread[t].phase \notin Writing,
         UNCHANGED <<indexFile, docsFile>>
  PROVE  Finished'
<1>1. \A u \in Threads : thread[u].phase \in Writing => thread'[u] = thread[u]
  BY DEF Becomes
<1> QED
  BY <1>1 DEF Finished, Writing

\* The actions that assign no global and write no file.
LEMMA QuietKeepsContent ==
  ASSUME CacheInv, NEW p, Processes = {p}, NEW t \in Threads, NEW c,
         Content(p, c), Finished,
         \/ EnsureIndex(t) \/ LoadDocuments(t) \/ SearchIndex(t)
         \/ PickDocuments(t) \/ NextSearch(t)
  PROVE  Content(p, c)' /\ Finished'
<1>1. CacheTypeOK /\ Equipped(t) /\ Home[t] = p /\ Follows(t, c)
  BY CacheFacts DEF CacheInv, Content
<1>2. /\ c \in Built /\ Origin(p, c) /\ LoadsOnly(c) /\ c # None
      /\ c.signature = setting[p].signature /\ None \notin Built
      /\ index[p] \in {None, c} /\ documents[p] \in {None, c.docs}
  BY <1>1, CacheFacts DEF Content
<1>3. UNCHANGED <<setting, index, documents, indexFile, docsFile, history>>
  BY DEF EnsureIndex, LoadDocuments, SearchIndex, PickDocuments, NextSearch
<1>4. LoadsOnly(c)' /\ thread[t].phase \notin Writing
  BY <1>2, <1>3 DEF LoadsOnly, EnsureIndex, LoadDocuments, SearchIndex,
     PickDocuments, NextSearch, At, Writing
<1>5. \E phase, held, scores, found :
        /\ Becomes(t, phase, held, scores, found)
        /\ phase \in Building => c = setting[p]
        /\ Follows(t, c)'
  <2>1. CASE EnsureIndex(t)
    <3> DEFINE phase == IF Ready(t) THEN "searching"
                        ELSE IF FilesExist THEN "loading" ELSE "building"
    <3>1. phase \in Phase /\ Goes(t, phase)
      BY <2>1 DEF Phase, EnsureIndex
    <3>2. phase = "building" => ~FilesExist
      OBVIOUS
    <3>3. phase \in {"searching", "loading", "building"}
      OBVIOUS
    <3> HIDE DEF phase
    <3>4. Becomes(t, phase, thread[t].held, thread[t].scores, thread[t].found)
      BY <1>1, <3>1, GoesBecomes
    <3>5. phase \in Building => c = setting[p]
      BY <1>2, <3>2, <3>3 DEF Origin, FilesExist, Building, Writing
    <3>6. Follows(t, c)'
      BY <3>3, <3>4 DEF Becomes, Follows, Holding, Writing, Searched
    <3> QED
      BY <3>4, <3>5, <3>6
  <2>2. CASE LoadDocuments(t) /\ Matches(t)
    <3>1. docsFile = c /\ indexFile \in {c, Torn}
      BY <1>1, <1>2, <2>2 DEF Matches, Setting, LoadsOnly
    <3>2. Becomes(t, "reading", docsFile, thread[t].scores, thread[t].found)
      BY <1>1, <2>2, HoldsBecomes DEF LoadDocuments, Matches, Phase
    <3>3. Follows(t, c)'
      BY <1>3, <3>1, <3>2 DEF Becomes, Follows, Holding, Writing, Searched
    <3> QED
      BY <3>2, <3>3 DEF Building, Writing
  <2>3. CASE LoadDocuments(t) /\ ~Matches(t)
    <3>1. c = setting[p]
      BY <1>1, <1>2, <2>3 DEF Matches, Setting, Origin
    <3>2. Becomes(t, "building", thread[t].held, thread[t].scores, thread[t].found)
      BY <1>1, <2>3, GoesBecomes DEF LoadDocuments, Phase
    <3>3. Follows(t, c)'
      BY <3>2 DEF Becomes, Follows, Holding, Writing, Searched
    <3> QED
      BY <3>1, <3>2, <3>3
  <2>4. CASE SearchIndex(t)
    <3>1. index[p] = c
      BY <1>1, <1>2, <2>4 DEF SearchIndex, At, Equipped
    <3>2. PICK phase \in {"scored", "empty"} :
            Becomes(t, phase, thread[t].held, c, thread[t].found)
      BY <1>1, <2>4, <3>1, SearchBecomes
    <3>3. Follows(t, c)'
      BY <3>2 DEF Becomes, Follows, Holding, Writing, Searched
    <3> QED
      BY <3>2, <3>3 DEF Building, Writing
  <2>5. CASE PickDocuments(t)
    <3>1. documents[p] = c.docs /\ thread[t].scores = c
      BY <1>1, <1>2, <2>5 DEF PickDocuments, At, Equipped, Follows, Searched
    <3>2. Becomes(t, "answered", thread[t].held, c, c.docs)
      BY <1>1, <2>5, <3>1, PickBecomes
    <3>3. Follows(t, c)'
      BY <3>2 DEF Becomes, Follows, Holding, Writing, Searched
    <3> QED
      BY <3>2, <3>3 DEF Building, Writing
  <2>6. CASE NextSearch(t)
    <3>1. Becomes(t, "idle", None, None, None)
      BY <1>1, <2>6, IdleBecomes DEF NextSearch
    <3>2. Follows(t, c)'
      BY <3>1 DEF Becomes, Follows, Holding, Writing, Searched
    <3> QED
      BY <3>1, <3>2 DEF Building, Writing
  <2> QED
    BY <2>1, <2>2, <2>3, <2>4, <2>5, <2>6
<1> QED
  BY <1>1, <1>2, <1>3, <1>4, <1>5, ContentStep, FinishedStep

\* The actions that assign a global.
LEMMA AssignKeepsContent ==
  ASSUME CacheInv, NEW p, Processes = {p}, NEW t \in Threads, NEW c,
         Content(p, c), Finished,
         LoadIndex(t) \/ AssignDocuments(t) \/ BuildIndex(t) \/ PublishDocuments(t)
  PROVE  Content(p, c)' /\ Finished'
<1>1. CacheTypeOK /\ Equipped(t) /\ Home[t] = p /\ Follows(t, c)
  BY CacheFacts DEF CacheInv, Content
<1>2. /\ c \in Built /\ Origin(p, c) /\ LoadsOnly(c) /\ Torn \notin Built
      /\ c.signature = setting[p].signature /\ setting[p] \in Built
      /\ index[p] \in {None, c} /\ documents[p] \in {None, c.docs}
  BY <1>1, CacheFacts DEF Content, Setting
<1>3. UNCHANGED <<setting, indexFile, docsFile, history>>
  BY DEF LoadIndex, AssignDocuments, BuildIndex, PublishDocuments
<1>4. LoadsOnly(c)' /\ thread[t].phase \notin Writing
  BY <1>2, <1>3 DEF LoadsOnly, LoadIndex, AssignDocuments, BuildIndex,
     PublishDocuments, At, Writing
<1>5. thread[t].phase \in Building => c = setting[p]
  BY <1>2 DEF Origin
<1>6. /\ index'[p] \in {None, c} /\ documents'[p] \in {None, c.docs}
      /\ \E phase, held, scores, found :
           /\ Becomes(t, phase, held, scores, found)
           /\ phase \in Building => c = setting[p]
           /\ Follows(t, c)'
  <2>1. CASE LoadIndex(t) /\ indexFile \in Built
    <3>1. indexFile = c /\ thread[t].held = c
      BY <1>1, <1>2, <2>1 DEF LoadIndex, At, Follows, Holding
    <3>2. index'[p] \in {None, c} /\ documents' = documents
      BY <1>1, <2>1, <3>1 DEF LoadIndex, CacheTypeOK
    <3>3. Becomes(t, "pairing", thread[t].held, thread[t].scores, thread[t].found)
      BY <1>1, <2>1, GoesBecomes DEF LoadIndex, Phase
    <3>4. Follows(t, c)'
      BY <3>1, <3>3 DEF Becomes, Follows, Holding, Writing, Searched
    <3> QED
      BY <1>2, <3>2, <3>3, <3>4 DEF Building, Writing
  <2>2. CASE LoadIndex(t) /\ indexFile \notin Built
    <3>1. c = setting[p]
      BY <1>2, <2>2 DEF Origin
    <3>2. UNCHANGED <<index, documents>>
      BY <2>2 DEF LoadIndex
    <3>3. Becomes(t, "building", thread[t].held, thread[t].scores, thread[t].found)
      BY <1>1, <2>2, GoesBecomes DEF LoadIndex, Phase
    <3>4. Follows(t, c)'
      BY <3>3 DEF Becomes, Follows, Holding, Writing, Searched
    <3> QED
      BY <1>2, <3>1, <3>2, <3>3, <3>4
  <2>3. CASE AssignDocuments(t)
    <3>1. thread[t].held = c
      BY <1>1, <2>3 DEF AssignDocuments, At, Follows, Holding
    <3>2. documents'[p] \in {None, c.docs} /\ index' = index
      BY <1>1, <2>3, <3>1 DEF AssignDocuments, CacheTypeOK
    <3>3. Becomes(t, "searching", thread[t].held, thread[t].scores, thread[t].found)
      BY <1>1, <2>3, GoesBecomes DEF AssignDocuments, Phase
    <3>4. Follows(t, c)'
      BY <3>3 DEF Becomes, Follows, Holding, Writing, Searched
    <3> QED
      BY <1>2, <3>2, <3>3, <3>4 DEF Building, Writing
  <2>4. CASE BuildIndex(t)
    <3>1. c = setting[p] /\ Setting(t) = c
      BY <1>1, <1>5, <2>4 DEF BuildIndex, At, Building, Setting
    <3>2. index'[p] \in {None, c} /\ documents' = documents
      BY <1>1, <2>4, <3>1 DEF BuildIndex, CacheTypeOK
    <3>3. Becomes(t, "publishing", c, thread[t].scores, thread[t].found)
      BY <1>1, <1>2, <2>4, <3>1, HoldsBecomes DEF BuildIndex, Phase
    <3>4. Follows(t, c)'
      BY <3>3 DEF Becomes, Follows, Holding, Writing, Searched
    <3> QED
      BY <1>2, <3>1, <3>2, <3>3, <3>4
  <2>5. CASE PublishDocuments(t)
    <3>1. thread[t].held = c /\ c = setting[p]
      BY <1>1, <1>5, <2>5 DEF PublishDocuments, At, Follows, Holding, Building
    <3>2. documents'[p] \in {None, c.docs} /\ index' = index
      BY <1>1, <2>5, <3>1 DEF PublishDocuments, CacheTypeOK
    <3>3. Becomes(t, "saving1", thread[t].held, thread[t].scores, thread[t].found)
      BY <1>1, <2>5, GoesBecomes DEF PublishDocuments, Phase
    <3>4. Follows(t, c)'
      BY <3>1, <3>3 DEF Becomes, Follows, Holding, Writing, Searched
    <3> QED
      BY <1>2, <3>1, <3>2, <3>3, <3>4
  <2> QED
    BY <2>1, <2>2, <2>3, <2>4, <2>5
<1> QED
  BY <1>1, <1>2, <1>3, <1>4, <1>6, ContentStep, FinishedStep

\* The actions that write the files.
LEMMA SaveKeepsContent ==
  ASSUME CacheInv, NEW p, Processes = {p}, NEW t \in Threads, NEW c,
         Content(p, c), Finished,
         \/ StartIndexFile(t) \/ FinishIndexFile(t)
         \/ StartDocumentsFile(t) \/ FinishDocumentsFile(t)
  PROVE  Content(p, c)' /\ Finished'
<1>1. CacheTypeOK /\ Equipped(t) /\ Home[t] = p /\ Follows(t, c)
  BY CacheFacts DEF CacheInv, Content
<1>2. /\ c \in Built /\ Origin(p, c) /\ LoadsOnly(c) /\ Torn \notin Built
      /\ index[p] \in {None, c} /\ documents[p] \in {None, c.docs}
  BY <1>1, CacheFacts DEF Content
<1>3. UNCHANGED <<setting, index, documents, history>>
  BY DEF StartIndexFile, FinishIndexFile, StartDocumentsFile, FinishDocumentsFile
<1>4. thread[t].phase \in {"saving1"} \cup Writing
  BY DEF StartIndexFile, FinishIndexFile, StartDocumentsFile, FinishDocumentsFile,
     At, Writing
<1>5. c = setting[p] /\ index[p] = c /\ documents[p] = c.docs /\ thread[t].held = c
  BY <1>1, <1>2, <1>4 DEF Origin, Equipped, Follows, Holding, Building
<1> DEFINE Goto(phase) ==
      Becomes(t, phase, thread[t].held, thread[t].scores, thread[t].found)
<1>6. CASE StartIndexFile(t)
  <2>1. indexFile' = Torn /\ docsFile' = docsFile
    BY <1>6 DEF StartIndexFile
  <2>2. Goto("saving2") /\ thread'[t].written = c
    BY <1>1, <1>5, <1>6, SaveBecomes
  <2>3. LoadsOnly(c)' /\ Follows(t, c)'
    BY <1>2, <1>5, <2>1, <2>2
       DEF LoadsOnly, Becomes, Follows, Holding, Writing, Searched
  <2>4. Content(p, c)'
    BY <1>1, <1>2, <1>3, <1>5, <2>1, <2>2, <2>3, ContentStep
  <2>5. Finished'
    BY <2>2 DEF Finished, Becomes, Writing
  <2> QED
    BY <2>4, <2>5
<1>7. CASE FinishIndexFile(t)
  <2>1. indexFile' = c /\ docsFile' = docsFile
    BY <1>1, <1>7 DEF FinishIndexFile, At, Follows
  <2>2. Goto("saving3")
    BY <1>7, SaveBecomes
  <2>3. LoadsOnly(c)' /\ Follows(t, c)'
    BY <1>2, <1>5, <2>1, <2>2
       DEF LoadsOnly, Becomes, Follows, Holding, Writing, Searched
  <2>4. Content(p, c)'
    BY <1>1, <1>2, <1>3, <1>5, <2>1, <2>2, <2>3, ContentStep
  <2>5. Finished'
    BY <1>2, <2>1, <2>2 DEF Finished, Becomes, Writing
  <2> QED
    BY <2>4, <2>5
<1>8. CASE StartDocumentsFile(t)
  <2>1. indexFile' = indexFile /\ docsFile' = Torn
    BY <1>8 DEF StartDocumentsFile
  <2>2. Goto("saving4") /\ thread[t].phase = "saving3" /\ thread'[t].written = c
    BY <1>1, <1>2, <1>5, <1>8, SaveBecomes DEF StartDocumentsFile, At, Built
  <2>3. LoadsOnly(c)' /\ Follows(t, c)'
    BY <1>1, <1>2, <1>5, <2>1, <2>2
       DEF LoadsOnly, Becomes, Follows, Holding, Writing, Searched
  <2>4. Content(p, c)'
    BY <1>1, <1>2, <1>3, <1>5, <2>1, <2>2, <2>3, ContentStep
  <2>5. Finished'
    BY <1>2, <2>1, <2>2 DEF Finished, Becomes, Writing
  <2> QED
    BY <2>4, <2>5
<1>9. CASE FinishDocumentsFile(t)
  <2>1. indexFile' = indexFile /\ docsFile' = c
    BY <1>1, <1>9 DEF FinishDocumentsFile, At, Follows
  <2>2. Goto("searching") /\ thread[t].phase = "saving4" /\ indexFile \in {c, Torn}
    BY <1>1, <1>9, SaveBecomes DEF FinishDocumentsFile, At, Follows, Writing
  <2>3. LoadsOnly(c)' /\ Follows(t, c)'
    BY <1>2, <1>5, <2>1, <2>2
       DEF LoadsOnly, Becomes, Follows, Holding, Writing, Searched
  <2>4. Content(p, c)'
    BY <1>1, <1>2, <1>3, <1>5, <2>1, <2>2, <2>3, ContentStep DEF Building, Writing
  <2>5. Finished'
    <3>1. indexFile = Torn => \E u \in Threads : thread'[u].phase = "saving2"
      BY <2>2 DEF Finished, Becomes
    <3> QED
      BY <2>1, <2>2, <3>1 DEF Finished, Writing
  <2> QED
    BY <2>4, <2>5
<1> QED
  BY <1>6, <1>7, <1>8, <1>9

LEMMA RestartKeepsContent ==
  ASSUME CacheInv, NEW p, Processes = {p}, NEW new \in Built, Restart(p, new),
         ContentInv(p)
  PROVE  ContentInv(p)'
<1> SUFFICES ASSUME ~broken' PROVE Finished' /\ \E c \in Built : Content(p, c)'
  BY DEF ContentInv
<1>1. CacheTypeOK /\ \A t \in Threads : Home[t] = p
  BY CacheFacts DEF CacheInv
<1>2. ~broken /\ \A t \in Threads : thread[t].phase = "idle"
  BY <1>1 DEF Restart, At
<1>3. /\ docsFile \in Built => indexFile = docsFile
      /\ indexFile # Torn
  BY <1>2 DEF ContentInv, Finished, Writing
<1>4. /\ UNCHANGED <<indexFile, docsFile>> /\ setting'[p] = new
      /\ index'[p] = None /\ documents'[p] = None
      /\ \A t \in Threads : thread'[t] = Idle
  BY <1>1 DEF Restart, CacheTypeOK
<1>5. Finished'
  BY <1>3, <1>4 DEF Finished
<1>6. \A c : \A t \in Threads : Follows(t, c)'
  BY <1>4 DEF Follows, Idle, Holding, Writing, Searched
<1>7. CASE docsFile \in Built /\ docsFile.signature = new.signature
  <2>1. PICK c \in Built : c = docsFile
    BY <1>7
  <2>2. Content(p, c)'
    BY <1>3, <1>4, <1>6, <1>7, <2>1
       DEF Content, Origin, LoadsOnly, Idle, Building, Writing
  <2> QED
    BY <1>5, <2>2
<1>8. CASE ~(docsFile \in Built /\ docsFile.signature = new.signature)
  <2>1. Content(p, new)'
    BY <1>4, <1>6, <1>8 DEF Content, Origin, LoadsOnly
  <2> QED
    BY <1>5, <2>1
<1> QED
  BY <1>7, <1>8

LEMMA InitContentInv ==
  ASSUME NEW p, Processes = {p}, CacheInit
  PROVE  ContentInv(p)
<1>1. setting[p] \in Built /\ None \notin Built /\ Torn # None
  BY CacheAssumption DEF CacheInit
<1>2. Content(p, setting[p])
  BY <1>1 DEF CacheInit, Content, Origin, LoadsOnly, Follows, Idle, Holding, Writing,
     Searched
<1>3. Finished
  BY <1>1 DEF CacheInit, Finished
<1> QED
  BY <1>1, <1>2, <1>3 DEF ContentInv

LEMMA NextContentInv ==
  ASSUME NEW p, Processes = {p}, CacheInv, ContentInv(p), [CacheNext]_cacheVars
  PROVE  ContentInv(p)'
<1>1. CASE UNCHANGED cacheVars
  BY <1>1 DEF cacheVars, history, ContentInv, Content, Origin, LoadsOnly, Follows,
     Finished
<1>2. ASSUME NEW t \in Threads, Fails(t)
      PROVE  ContentInv(p)'
  BY <1>2 DEF Fails, ContentInv
<1>3. ASSUME NEW new \in Built, Restart(p, new)
      PROVE  ContentInv(p)'
  BY <1>3, RestartKeepsContent
<1>4. ASSUME NEW t \in Threads,
             \/ EnsureIndex(t) \/ LoadDocuments(t) \/ LoadIndex(t)
             \/ AssignDocuments(t) \/ BuildIndex(t) \/ PublishDocuments(t)
             \/ StartIndexFile(t) \/ FinishIndexFile(t)
             \/ StartDocumentsFile(t) \/ FinishDocumentsFile(t)
             \/ SearchIndex(t) \/ PickDocuments(t) \/ NextSearch(t)
      PROVE  ContentInv(p)'
  <2> SUFFICES ASSUME ~broken' PROVE Finished' /\ \E c \in Built : Content(p, c)'
    BY DEF ContentInv
  <2>1. ~broken
    BY <1>4 DEF EnsureIndex, LoadDocuments, LoadIndex, AssignDocuments, BuildIndex,
       PublishDocuments, StartIndexFile, FinishIndexFile, StartDocumentsFile,
       FinishDocumentsFile, SearchIndex, PickDocuments, NextSearch, history
  <2>2. PICK c \in Built : Content(p, c)
    BY <2>1 DEF ContentInv
  <2>3. Finished
    BY <2>1 DEF ContentInv
  <2> QED
    BY <1>4, <2>2, <2>3, QuietKeepsContent, AssignKeepsContent, SaveKeepsContent
<1> QED
  BY <1>1, <1>2, <1>3, <1>4 DEF CacheNext

-----------------------------------------------------------------------------
(* One process: whose vectors there are, as long as no earlier model comes back *)

\* What the process has loaded, built or searched is of its own model.
OwnModel(p, t) ==
  /\ thread[t].phase \in Holding =>
       thread[t].held.signature = setting[p].signature
  /\ thread[t].phase \in {"saving2", "saving4"} =>
       thread[t].written.signature = setting[p].signature
  /\ thread[t].phase \in {"reading"} \cup Writing =>
       (indexFile \in Built => indexFile.signature = setting[p].signature)
  /\ thread[t].phase \in Searched =>
       thread[t].scores.signature = setting[p].signature

\* The files are of no later model than the process's, and the documents, which
\* are written last, of no later one than the index.
NoNewer(p) ==
  /\ index[p] # None => index[p].signature = setting[p].signature
  /\ docsFile \in Built => docsFile.signature <= setting[p].signature
  /\ indexFile \in Built => indexFile.signature <= setting[p].signature
  /\ docsFile \in Built /\ indexFile \in Built =>
       docsFile.signature <= indexFile.signature

ModelInv(p) == ~returned => NoNewer(p) /\ \A t \in Threads : OwnModel(p, t)

\* What is left to show of a step of thread t.
LEMMA ModelStep ==
  ASSUME NEW p, NEW t \in Threads, NEW phase, NEW held, NEW scores, NEW found,
         \A u \in Threads : OwnModel(p, u),
         Becomes(t, phase, held, scores, found), setting' = setting,
         \/ indexFile' = indexFile
         \/ indexFile' \in Built => indexFile'.signature = setting[p].signature,
         OwnModel(p, t)'
  PROVE  \A u \in Threads : OwnModel(p, u)'
<1> SUFFICES ASSUME NEW u \in Threads \ {t} PROVE OwnModel(p, u)'
  OBVIOUS
<1>1. thread'[u] = thread[u] /\ OwnModel(p, u)
  BY DEF Becomes
<1> QED
  BY <1>1 DEF OwnModel

LEMMA LoadKeepsModel ==
  ASSUME CacheInv, NEW p, Processes = {p}, NEW t \in Threads,
         NoNewer(p), \A u \in Threads : OwnModel(p, u),
         EnsureIndex(t) \/ LoadDocuments(t) \/ LoadIndex(t) \/ AssignDocuments(t)
  PROVE  NoNewer(p)' /\ \A u \in Threads : OwnModel(p, u)'
<1>1. CacheTypeOK /\ Equipped(t) /\ Home[t] = p /\ OwnModel(p, t)
  BY CacheFacts DEF CacheInv
<1>2. UNCHANGED <<setting, indexFile, docsFile, history>>
  BY DEF EnsureIndex, LoadDocuments, LoadIndex, AssignDocuments
<1>3. /\ setting[p].signature \in Nat /\ None \notin Built
      /\ \A c \in Built : c.signature \in Nat
  BY <1>1, CacheFacts, CacheAssumption DEF Setting
<1> DEFINE Goto(phase) ==
      Becomes(t, phase, thread[t].held, thread[t].scores, thread[t].found)
<1>4. CASE EnsureIndex(t)
  <2> DEFINE phase == IF Ready(t) THEN "searching"
                      ELSE IF FilesExist THEN "loading" ELSE "building"
  <2>1. phase \in Phase /\ Goes(t, phase) /\ index' = index
    BY <1>4 DEF Phase, EnsureIndex
  <2>2. phase \in {"searching", "loading", "building"}
    OBVIOUS
  <2> HIDE DEF phase
  <2>3. Goto(phase)
    BY <1>1, <2>1, GoesBecomes
  <2>4. OwnModel(p, t)'
    BY <2>2, <2>3 DEF Becomes, OwnModel, Holding, Writing, Searched
  <2> QED
    BY <1>2, <2>1, <2>3, <2>4, ModelStep DEF NoNewer
<1>5. CASE LoadDocuments(t) /\ Matches(t)
  <2>1. Becomes(t, "reading", docsFile, thread[t].scores, thread[t].found)
    BY <1>1, <1>5, HoldsBecomes DEF LoadDocuments, Matches, Phase
  <2>2. /\ docsFile.signature = setting[p].signature
        /\ indexFile \in Built => indexFile.signature = setting[p].signature
    BY <1>1, <1>3, <1>5 DEF Matches, Setting, NoNewer
  <2>3. OwnModel(p, t)'
    BY <1>2, <2>1, <2>2 DEF Becomes, OwnModel, Holding, Writing, Searched
  <2> QED
    BY <1>2, <1>5, <2>1, <2>3, ModelStep DEF NoNewer, LoadDocuments
<1>6. CASE LoadDocuments(t) /\ ~Matches(t)
  <2>1. Goto("building")
    BY <1>1, <1>6, GoesBecomes DEF LoadDocuments, Phase
  <2>2. OwnModel(p, t)'
    BY <2>1 DEF Becomes, OwnModel, Holding, Writing, Searched
  <2> QED
    BY <1>2, <1>6, <2>1, <2>2, ModelStep DEF NoNewer, LoadDocuments
<1>7. CASE LoadIndex(t) /\ indexFile \in Built
  <2>1. Goto("pairing") /\ index'[p] = indexFile
    BY <1>1, <1>7, GoesBecomes DEF LoadIndex, Phase, CacheTypeOK
  <2>2. /\ indexFile.signature = setting[p].signature
        /\ thread[t].held.signature = setting[p].signature
    BY <1>1, <1>7 DEF LoadIndex, At, OwnModel, Holding
  <2>3. OwnModel(p, t)'
    BY <1>2, <2>1, <2>2 DEF Becomes, OwnModel, Holding, Writing, Searched
  <2>4. NoNewer(p)'
    BY <1>2, <2>1, <2>2 DEF NoNewer
  <2> QED
    BY <1>2, <2>1, <2>3, <2>4, ModelStep
<1>8. CASE LoadIndex(t) /\ indexFile \notin Built
  <2>1. Goto("building") /\ index' = index
    BY <1>1, <1>8, GoesBecomes DEF LoadIndex, Phase
  <2>2. OwnModel(p, t)'
    BY <2>1 DEF Becomes, OwnModel, Holding, Writing, Searched
  <2> QED
    BY <1>2, <2>1, <2>2, ModelStep DEF NoNewer
<1>9. CASE AssignDocuments(t)
  <2>1. Goto("searching") /\ index' = index
    BY <1>1, <1>9, GoesBecomes DEF AssignDocuments, Phase
  <2>2. OwnModel(p, t)'
    BY <2>1 DEF Becomes, OwnModel, Holding, Writing, Searched
  <2> QED
    BY <1>2, <2>1, <2>2, ModelStep DEF NoNewer
<1> QED
  BY <1>4, <1>5, <1>6, <1>7, <1>8, <1>9

LEMMA BuildKeepsModel ==
  ASSUME CacheInv, NEW p, Processes = {p}, NEW t \in Threads,
         NoNewer(p), \A u \in Threads : OwnModel(p, u),
         BuildIndex(t) \/ PublishDocuments(t)
  PROVE  NoNewer(p)' /\ \A u \in Threads : OwnModel(p, u)'
<1>1. CacheTypeOK /\ Home[t] = p /\ OwnModel(p, t) /\ Setting(t) = setting[p]
      /\ setting[p] \in Built
  BY CacheFacts DEF CacheInv, Setting
<1>2. UNCHANGED <<setting, indexFile, docsFile, history>>
  BY DEF BuildIndex, PublishDocuments
<1>3. CASE BuildIndex(t)
  <2>1. /\ Becomes(t, "publishing", setting[p], thread[t].scores, thread[t].found)
        /\ index'[p] = setting[p]
    BY <1>1, <1>3, HoldsBecomes DEF BuildIndex, Phase, CacheTypeOK
  <2>2. OwnModel(p, t)'
    BY <1>2, <2>1 DEF Becomes, OwnModel, Holding, Writing, Searched
  <2> QED
    BY <1>2, <2>1, <2>2, ModelStep DEF NoNewer
<1>4. CASE PublishDocuments(t)
  <2>1. /\ Becomes(t, "saving1", thread[t].held, thread[t].scores, thread[t].found)
        /\ index' = index /\ thread[t].phase = "publishing"
    BY <1>1, <1>4, GoesBecomes DEF PublishDocuments, Phase, At
  <2>2. OwnModel(p, t)'
    BY <1>1, <1>2, <2>1 DEF Becomes, OwnModel, Holding, Writing, Searched
  <2> QED
    BY <1>2, <2>1, <2>2, ModelStep DEF NoNewer
<1> QED
  BY <1>3, <1>4

LEMMA SaveKeepsModel ==
  ASSUME CacheInv, NEW p, Processes = {p}, NEW t \in Threads,
         NoNewer(p), \A u \in Threads : OwnModel(p, u),
         \/ StartIndexFile(t) \/ FinishIndexFile(t)
         \/ StartDocumentsFile(t) \/ FinishDocumentsFile(t)
  PROVE  NoNewer(p)' /\ \A u \in Threads : OwnModel(p, u)'
<1>1. CacheTypeOK /\ Equipped(t) /\ Home[t] = p /\ OwnModel(p, t)
  BY CacheFacts DEF CacheInv
<1>2. UNCHANGED <<setting, index, documents, history>>
  BY DEF StartIndexFile, FinishIndexFile, StartDocumentsFile, FinishDocumentsFile
<1>3. /\ setting[p].signature \in Nat /\ Torn \notin Built
      /\ \A c \in Built : c.signature \in Nat
  BY <1>1, CacheFacts, CacheAssumption DEF Setting
<1>4. thread[t].phase \in {"saving1"} \cup Writing
  BY DEF StartIndexFile, FinishIndexFile, StartDocumentsFile, FinishDocumentsFile,
     At, Writing
<1>5. /\ thread[t].held \in Built /\ index[p] # None
      /\ thread[t].held.signature = setting[p].signature
  BY <1>1, <1>4 DEF Equipped, OwnModel, Holding
<1>6. index[p].signature = setting[p].signature
  BY <1>5 DEF NoNewer
<1>7. \/ /\ docsFile' = docsFile
         /\ indexFile' = Torn \/ indexFile'.signature = setting[p].signature
      \/ docsFile' = Torn /\ indexFile' = indexFile
      \/ /\ docsFile'.signature = setting[p].signature /\ indexFile' = indexFile
         /\ thread[t].phase = "saving4"
  BY <1>1 DEF StartIndexFile, FinishIndexFile, StartDocumentsFile,
     FinishDocumentsFile, At, OwnModel
<1>8. NoNewer(p)'
  <2>1. CASE /\ docsFile' = docsFile
             /\ indexFile' = Torn \/ indexFile'.signature = setting[p].signature
    BY <1>2, <1>3, <1>6, <2>1 DEF NoNewer
  <2>2. CASE docsFile' = Torn /\ indexFile' = indexFile
    BY <1>2, <1>3, <2>2 DEF NoNewer
  <2>3. CASE /\ docsFile'.signature = setting[p].signature /\ indexFile' = indexFile
             /\ thread[t].phase = "saving4"
    <3>1. indexFile \in Built => indexFile.signature = setting[p].signature
      BY <1>1, <2>3 DEF OwnModel, Writing
    <3> QED
      BY <1>2, <1>3, <2>3, <3>1 DEF NoNewer
  <2> QED
    BY <1>7, <2>1, <2>2, <2>3
<1>9. PICK phase \in {"searching"} \cup Writing :
        /\ Becomes(t, phase, thread[t].held, thread[t].scores, thread[t].found)
        /\ phase = "saving2" => indexFile' = Torn
        /\ phase # "saving2" => thread[t].phase \in Writing
        /\ phase \in {"saving2", "saving4"} =>
             thread'[t].written.signature = setting[p].signature
  <2>1. CASE StartIndexFile(t)
    BY <1>1, <1>6, <2>1, SaveBecomes DEF StartIndexFile, Writing
  <2>2. CASE FinishIndexFile(t)
    BY <2>2, SaveBecomes DEF FinishIndexFile, At, Writing
  <2>3. CASE StartDocumentsFile(t)
    BY <1>5, <2>3, SaveBecomes DEF StartDocumentsFile, At, Writing
  <2>4. CASE FinishDocumentsFile(t)
    BY <2>4, SaveBecomes DEF FinishDocumentsFile, At, Writing
  <2> QED
    BY <2>1, <2>2, <2>3, <2>4
<1>10. OwnModel(p, t)'
  BY <1>1, <1>2, <1>3, <1>5, <1>7, <1>9
     DEF Becomes, OwnModel, Holding, Writing, Searched
<1>11. \/ indexFile' = indexFile
       \/ indexFile' \in Built => indexFile'.signature = setting[p].signature
  BY <1>3, <1>7
<1> QED
  BY <1>2, <1>8, <1>9, <1>10, <1>11, ModelStep

LEMMA SearchKeepsModel ==
  ASSUME CacheInv, NEW p, Processes = {p}, NEW t \in Threads,
         NoNewer(p), \A u \in Threads : OwnModel(p, u),
         SearchIndex(t) \/ PickDocuments(t) \/ NextSearch(t) \/ Fails(t)
  PROVE  NoNewer(p)' /\ \A u \in Threads : OwnModel(p, u)'
<1>1. CacheTypeOK /\ Equipped(t) /\ Home[t] = p /\ OwnModel(p, t)
  BY CacheFacts DEF CacheInv
<1>2. UNCHANGED <<setting, index, indexFile, docsFile>>
  BY DEF SearchIndex, PickDocuments, NextSearch, Fails
<1>3. NoNewer(p)'
  BY <1>2 DEF NoNewer
<1>4. CASE SearchIndex(t)
  <2>1. index[p].signature = setting[p].signature
    BY <1>1, <1>4 DEF SearchIndex, At, Equipped, NoNewer
  <2>2. PICK phase \in {"scored", "empty"} :
          Becomes(t, phase, thread[t].held, index[p], thread[t].found)
    BY <1>1, <1>4, SearchBecomes
  <2>3. OwnModel(p, t)'
    BY <1>2, <2>1, <2>2 DEF Becomes, OwnModel, Holding, Writing, Searched
  <2> QED
    BY <1>2, <1>3, <2>2, <2>3, ModelStep
<1>5. CASE PickDocuments(t)
  <2>1. Becomes(t, "answered", thread[t].held, thread[t].scores, documents[p])
    BY <1>1, <1>5, PickBecomes
  <2>2. OwnModel(p, t)'
    BY <1>1, <1>2, <1>5, <2>1
       DEF PickDocuments, At, Becomes, OwnModel, Holding, Writing, Searched
  <2> QED
    BY <1>2, <1>3, <2>1, <2>2, ModelStep
<1>6. CASE NextSearch(t) \/ Fails(t)
  <2>1. Becomes(t, "idle", None, None, None)
    BY <1>1, <1>6, IdleBecomes DEF NextSearch, Fails
  <2>2. OwnModel(p, t)'
    BY <2>1 DEF Becomes, OwnModel, Holding, Writing, Searched
  <2> QED
    BY <1>2, <1>3, <2>1, <2>2, ModelStep
<1> QED
  BY <1>4, <1>5, <1>6

LEMMA NextModelInv ==
  ASSUME NEW p, Processes = {p}, CacheInv, ModelInv(p), [CacheNext]_cacheVars
  PROVE  ModelInv(p)'
<1>1. CASE UNCHANGED cacheVars
  BY <1>1 DEF cacheVars, history, ModelInv, NoNewer, OwnModel
<1>2. ASSUME NEW new \in Built, Restart(p, new)
      PROVE  ModelInv(p)'
  <2> SUFFICES ASSUME ~returned' PROVE NoNewer(p)' /\ \A t \in Threads : OwnModel(p, t)'
    BY DEF ModelInv
  <2>1. /\ ~returned /\ ~(new.signature < setting[p].signature)
        /\ UNCHANGED <<indexFile, docsFile>> /\ setting'[p] = new /\ index'[p] = None
        /\ \A t \in Threads : thread'[t] = Idle
    BY <1>2, CacheFacts DEF Restart, CacheInv, CacheTypeOK
  <2>2. /\ setting[p] \in Built
        /\ \A c \in Built : c.signature \in Nat
    BY CacheAssumption DEF CacheInv, CacheTypeOK, Built
  <2>3. NoNewer(p)'
    BY <2>1, <2>2 DEF ModelInv, NoNewer
  <2>4. \A t \in Threads : OwnModel(p, t)'
    BY <2>1 DEF OwnModel, Idle, Holding, Writing, Searched
  <2> QED
    BY <2>3, <2>4
<1>3. ASSUME NEW t \in Threads,
             \/ EnsureIndex(t) \/ LoadDocuments(t) \/ LoadIndex(t)
             \/ AssignDocuments(t) \/ BuildIndex(t) \/ PublishDocuments(t)
             \/ StartIndexFile(t) \/ FinishIndexFile(t)
             \/ StartDocumentsFile(t) \/ FinishDocumentsFile(t)
             \/ SearchIndex(t) \/ PickDocuments(t) \/ NextSearch(t) \/ Fails(t)
      PROVE  ModelInv(p)'
  <2> SUFFICES ASSUME ~returned'
               PROVE  NoNewer(p)' /\ \A u \in Threads : OwnModel(p, u)'
    BY DEF ModelInv
  <2>1. ~returned
    BY <1>3 DEF EnsureIndex, LoadDocuments, LoadIndex, AssignDocuments, BuildIndex,
       PublishDocuments, StartIndexFile, FinishIndexFile, StartDocumentsFile,
       FinishDocumentsFile, SearchIndex, PickDocuments, NextSearch, Fails, history
  <2>2. NoNewer(p) /\ \A u \in Threads : OwnModel(p, u)
    BY <2>1 DEF ModelInv
  <2> QED
    BY <1>3, <2>2, LoadKeepsModel, BuildKeepsModel, SaveKeepsModel, SearchKeepsModel
<1> QED
  BY <1>1, <1>2, <1>3 DEF CacheNext

-----------------------------------------------------------------------------
(* Theorems about one process and the files it alone uses *)

\* With any number of threads, restarts with other models and documents, and
\* torn files: as long as no build was cut short, an answer's passages are those
\* of the documents whose vectors were searched.
THEOREM AnswersAlwaysFromIndexedDocuments ==
  ASSUME NEW p, Processes = {p}
  PROVE  CacheSpec => []AnswersFromIndexedDocuments
<1>1. CacheInit => ContentInv(p)
  BY InitContentInv
<1>2. CacheInv /\ ContentInv(p) /\ [CacheNext]_cacheVars => ContentInv(p)'
  BY NextContentInv
<1>3. ContentInv(p) => AnswersFromIndexedDocuments
  BY DEF ContentInv, Content, Follows, AnswersFromIndexedDocuments, At, Searched
<1> QED
  BY <1>1, <1>2, <1>3, CacheInvariance, PTL DEF CacheSpec

\* A question is compared with vectors of the process's own model, unless a build
\* was cut short and an earlier model came back: either alone does no harm.
THEOREM ScoresAlwaysWithOwnModel ==
  ASSUME NEW p, Processes = {p}
  PROVE  CacheSpec => []ScoresWithOwnModel
<1>1. CacheInit => ContentInv(p) /\ ModelInv(p)
  <2>1. CacheInit => ModelInv(p)
    BY CacheAssumption DEF CacheInit, ModelInv, NoNewer, OwnModel, Idle, Holding,
       Writing, Searched
  <2> QED
    BY <2>1, InitContentInv
<1>2. CacheInv /\ ContentInv(p) /\ ModelInv(p) /\ [CacheNext]_cacheVars
        => ContentInv(p)' /\ ModelInv(p)'
  BY NextContentInv, NextModelInv
<1>3. CacheInv /\ ContentInv(p) /\ ModelInv(p) => ScoresWithOwnModel
  <2> SUFFICES ASSUME CacheInv, ContentInv(p), ModelInv(p), ~(broken /\ returned),
                      NEW t \in Threads, At(t, "scored") \/ At(t, "empty")
               PROVE  /\ thread[t].scores # None
                      /\ thread[t].scores.signature = Setting(t).signature
    BY DEF ScoresWithOwnModel
  <2>1. Home[t] = p /\ thread[t].scores # None /\ thread[t].phase \in Searched
    BY CacheFacts DEF CacheInv, Equipped, At, Searched
  <2>2. CASE ~broken
    BY <2>1, <2>2 DEF ContentInv, Content, Follows, Setting
  <2>3. CASE ~returned
    BY <2>1, <2>3 DEF ModelInv, OwnModel, Setting
  <2> QED
    BY <2>1, <2>2, <2>3
<1> QED
  BY <1>1, <1>2, <1>3, CacheInvariance, PTL DEF CacheSpec
=============================================================================

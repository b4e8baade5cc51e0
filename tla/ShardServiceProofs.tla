------------------------- MODULE ShardServiceProofs -------------------------
(***************************************************************************)
(* ShardInv is inductive for any number of calls and models, and with it   *)
(* every step of the service is a step of the register, or none.           *)
(***************************************************************************)
EXTENDS ShardService, SequenceTheorems, TLAPS

Waiting(q) == {q[i] : i \in DOMAIN q}

Distinct(q) == \A i, j \in DOMAIN q : q[i] = q[j] => i = j

\* The lock after a change: nobody is lost, nobody is passed over.
LEMMA HandOverAgrees ==
  ASSUME NEW H \in SUBSET Call, NEW q \in Seq(Call),
         Compatible(H),
         H \cap Waiting(q) = {},
         Distinct(q),
         HandOver(H, q)
  PROVE  /\ holders' \in SUBSET Call
         /\ queue' \in Seq(Call)
         /\ Compatible(holders')
         /\ holders' \cap Waiting(queue') = {}
         /\ Distinct(queue')
         /\ holders' \cup Waiting(queue') = H \cup Waiting(q)
         /\ H \subseteq holders'
         /\ queue' # <<>> => ~Compatible(holders' \cup {queue'[1]})
<1>1. PICK n \in 0 .. Len(q) :
        /\ Compatible(H \cup First(q, n))
        /\ n < Len(q) => ~Compatible(H \cup First(q, n + 1))
        /\ holders' = H \cup First(q, n)
        /\ queue' = SubSeq(q, n + 1, Len(q))
  BY DEF HandOver
<1>2. /\ Len(q) \in Nat /\ DOMAIN q = 1 .. Len(q)
      /\ \A i \in 1 .. Len(q) : q[i] \in Call
  OBVIOUS
<1>3. /\ queue' \in Seq(Call)
      /\ Len(queue') = Len(q) - n
      /\ DOMAIN queue' = 1 .. Len(q) - n
      /\ \A i \in 1 .. Len(q) - n : queue'[i] = q[n + i]
  <2> DEFINE s == SubSeq(q, n + 1, Len(q))
  <2>1. n + 1 \in Int /\ Len(q) \in Int /\ n \in Nat /\ n <= Len(q)
    BY <1>2
  <2>2. \A i \in n + 1 .. Len(q) : q[i] \in Call
    BY <1>2, <2>1
  <2>3. /\ s \in Seq(Call)
        /\ Len(s) = IF n + 1 <= Len(q) THEN Len(q) - (n + 1) + 1 ELSE 0
        /\ \A i \in 1 .. Len(q) - (n + 1) + 1 : s[i] = q[(n + 1) + i - 1]
    BY <2>1, <2>2, SubSeqProperties
  <2> HIDE DEF s
  <2>4. Len(s) = Len(q) - n /\ \A i \in 1 .. Len(q) - n : s[i] = q[n + i]
    BY <2>1, <2>3
  <2>5. DOMAIN s = 1 .. Len(s)
    BY <2>3
  <2>6. queue' = s
    BY <1>1 DEF s
  <2> QED
    BY <2>3, <2>4, <2>5, <2>6
<1>4. \A c : c \in First(q, n) <=> \E i \in 1 .. n : c = q[i]
  BY DEF First
<1>5. holders' \in SUBSET Call /\ H \subseteq holders' /\ Compatible(holders')
  BY <1>1, <1>2, <1>4
<1> DEFINE L == Len(q)
           r == queue'
<1>a. /\ L \in Nat /\ n \in Nat /\ n <= L
      /\ DOMAIN q = 1 .. L
      /\ r \in Seq(Call) /\ Len(r) = L - n /\ DOMAIN r = 1 .. L - n
      /\ \A i \in 1 .. L - n : r[i] = q[n + i]
  BY <1>2, <1>3
<1>b. \A i \in 1 .. L - n : n + i \in 1 .. L
  BY <1>a
<1> HIDE DEF L, r
<1>6. holders' \cap Waiting(r) = {}
  <2> SUFFICES ASSUME NEW i \in 1 .. L - n PROVE r[i] \notin holders'
    BY <1>a DEF Waiting
  <2>1. r[i] = q[n + i] /\ n + i \in DOMAIN q
    BY <1>a, <1>b
  <2>2. q[n + i] \notin H
    BY <2>1 DEF Waiting
  <2>3. ASSUME q[n + i] \in First(q, n) PROVE FALSE
    <3>1. PICK k \in 1 .. n : q[n + i] = q[k]
      BY <1>4, <2>3
    <3>2. k \in DOMAIN q /\ k # n + i
      BY <1>a
    <3> QED
      BY <2>1, <3>1, <3>2 DEF Distinct
  <2> QED
    BY <1>1, <2>1, <2>2, <2>3
<1>7. Distinct(r)
  <2> SUFFICES ASSUME NEW i \in 1 .. L - n, NEW j \in 1 .. L - n, r[i] = r[j] PROVE i = j
    BY <1>a DEF Distinct
  <2>1. /\ q[n + i] = q[n + j]
        /\ n + i \in DOMAIN q /\ n + j \in DOMAIN q
    BY <1>a, <1>b
  <2>2. n + i = n + j
    BY <2>1 DEF Distinct
  <2> QED
    BY <2>2, <1>a
<1>8. holders' \cup Waiting(r) = H \cup Waiting(q)
  <2>1. ASSUME NEW i \in 1 .. L PROVE q[i] \in holders' \cup Waiting(r)
    <3>1. CASE i <= n
      BY <3>1, <1>1, <1>4, <1>a
    <3>2. CASE i > n
      <4>1. i - n \in 1 .. L - n /\ n + (i - n) = i
        BY <3>2, <1>a
      <4>2. i - n \in DOMAIN r /\ r[i - n] = q[i]
        BY <4>1, <1>a
      <4> QED
        BY <4>2 DEF Waiting
    <3> QED
      BY <3>1, <3>2, <1>a
  <2>2. \A i \in DOMAIN r : r[i] \in Waiting(q)
    BY <1>a, <1>b DEF Waiting
  <2>3. First(q, n) \subseteq Waiting(q)
    <3>1. \A i \in 1 .. n : i \in DOMAIN q
      BY <1>a
    <3> QED
      BY <1>4, <3>1 DEF Waiting
  <2>4. Waiting(r) \subseteq Waiting(q)
    BY <2>2 DEF Waiting
  <2>5. Waiting(q) \subseteq holders' \cup Waiting(r)
    BY <2>1, <1>a DEF Waiting
  <2> QED
    BY <1>1, <2>3, <2>4, <2>5
<1>9. ASSUME r # <<>> PROVE ~Compatible(holders' \cup {r[1]})
  <2>0. Len(r) # 0
    BY <1>9, <1>a, EmptySeq
  <2>1. n < L /\ 1 \in 1 .. L - n
    BY <1>a, <2>0
  <2>2. r[1] = q[n + 1]
    BY <1>a, <2>1
  <2>3. First(q, n + 1) = First(q, n) \cup {q[n + 1]}
    <3>1. 1 .. n + 1 = (1 .. n) \cup {n + 1}
      BY <1>a
    <3> QED
      BY <3>1 DEF First
  <2>4. ~Compatible(H \cup First(q, n + 1))
    BY <1>1, <2>1 DEF L
  <2>5. H \cup First(q, n + 1) = holders' \cup {r[1]}
    BY <1>1, <2>2, <2>3
  <2> QED
    BY <2>4, <2>5
<1> QED
  BY <1>5, <1>6, <1>7, <1>8, <1>9, <1>a DEF r

LEMMA AppendAgrees ==
  ASSUME NEW q \in Seq(Call), Distinct(q), NEW c \in Call, c \notin Waiting(q)
  PROVE  /\ Append(q, c) \in Seq(Call)
         /\ Distinct(Append(q, c))
         /\ Waiting(Append(q, c)) = Waiting(q) \cup {c}
<1> DEFINE r == Append(q, c)
           L == Len(q)
<1>1. /\ L \in Nat /\ DOMAIN q = 1 .. L
      /\ r \in Seq(Call) /\ DOMAIN r = 1 .. L + 1
      /\ \A i \in 1 .. L : r[i] = q[i]
      /\ r[L + 1] = c
  BY AppendProperties, LenProperties
<1> HIDE DEF r, L
<1>2. Distinct(r)
  <2> SUFFICES ASSUME NEW i \in 1 .. L + 1, NEW j \in 1 .. L + 1, r[i] = r[j] PROVE i = j
    BY <1>1 DEF Distinct
  <2>1. CASE i <= L /\ j <= L
    BY <2>1, <1>1 DEF Distinct
  <2>2. CASE i = L + 1 /\ j <= L
    BY <2>2, <1>1 DEF Waiting
  <2>3. CASE i <= L /\ j = L + 1
    BY <2>3, <1>1 DEF Waiting
  <2> QED
    BY <2>1, <2>2, <2>3, <1>1
<1>3. Waiting(r) = Waiting(q) \cup {c}
  <2>1. 1 .. L + 1 = (1 .. L) \cup {L + 1}
    BY <1>1
  <2> QED
    BY <1>1, <2>1 DEF Waiting
<1> QED
  BY <1>1, <1>2, <1>3 DEF r

LEMMA RemoveAgrees ==
  ASSUME NEW q \in Seq(Call), Distinct(q), NEW k \in DOMAIN q
  PROVE  /\ RemoveAt(q, k) \in Seq(Call)
         /\ Distinct(RemoveAt(q, k))
         /\ Waiting(RemoveAt(q, k)) = Waiting(q) \ {q[k]}
<1> DEFINE r == RemoveAt(q, k)
           L == Len(q)
           a == SubSeq(q, 1, k - 1)
           b == SubSeq(q, k + 1, L)
<1>1. /\ L \in Nat /\ DOMAIN q = 1 .. L
      /\ \A i \in 1 .. L : q[i] \in Call
  BY LenProperties, ElementOfSeq
<1>2. k \in 1 .. L /\ k - 1 \in Int /\ k + 1 \in Int /\ L \in Int
  BY <1>1
<1>3. /\ a \in Seq(Call)
      /\ Len(a) = IF 1 <= k - 1 THEN (k - 1) - 1 + 1 ELSE 0
      /\ \A i \in 1 .. (k - 1) - 1 + 1 : a[i] = q[1 + i - 1]
  <2>1. \A i \in 1 .. k - 1 : q[i] \in Call
    BY <1>1, <1>2
  <2> QED
    BY <2>1, <1>2, SubSeqProperties
<1>4. /\ b \in Seq(Call)
      /\ Len(b) = IF k + 1 <= L THEN L - (k + 1) + 1 ELSE 0
      /\ \A i \in 1 .. L - (k + 1) + 1 : b[i] = q[(k + 1) + i - 1]
  <2>1. \A i \in k + 1 .. L : q[i] \in Call
    BY <1>1, <1>2
  <2> QED
    BY <2>1, <1>2, SubSeqProperties
<1>5. r = a \o b
  BY DEF RemoveAt
<1> HIDE DEF r, a, b, L
<1>6. /\ Len(a) = k - 1 /\ Len(b) = L - k
      /\ \A i \in 1 .. k - 1 : a[i] = q[i]
      /\ \A i \in 1 .. L - k : b[i] = q[k + i]
  <2>1. (k - 1) - 1 + 1 = k - 1 /\ L - (k + 1) + 1 = L - k
    BY <1>2
  <2>2. Len(a) = k - 1 /\ Len(b) = L - k
    BY <1>2, <1>3, <1>4
  <2>3. ASSUME NEW i \in 1 .. k - 1 PROVE a[i] = q[i]
    <3>1. 1 + i - 1 = i
      BY <1>2
    <3> QED
      BY <2>1, <3>1, <1>3
  <2>4. ASSUME NEW i \in 1 .. L - k PROVE b[i] = q[k + i]
    <3>1. (k + 1) + i - 1 = k + i
      BY <1>2
    <3> QED
      BY <2>1, <3>1, <1>4
  <2> QED
    BY <2>2, <2>3, <2>4
<1>7. /\ r \in Seq(Call) /\ Len(r) = Len(a) + Len(b)
      /\ \A i \in 1 .. Len(a) + Len(b) : r[i] = IF i <= Len(a) THEN a[i] ELSE b[i - Len(a)]
  BY <1>3, <1>4, <1>5, ConcatProperties
<1>8. /\ DOMAIN r = 1 .. L - 1
      /\ \A i \in 1 .. L - 1 : r[i] = IF i < k THEN q[i] ELSE q[i + 1]
  <2>1. DOMAIN r = 1 .. L - 1
    BY <1>2, <1>6, <1>7, LenProperties
  <2>2. ASSUME NEW i \in 1 .. L - 1, i < k PROVE r[i] = q[i]
    <3>1. i \in 1 .. k - 1 /\ i \in 1 .. Len(a) + Len(b) /\ i <= Len(a)
      BY <1>2, <1>6, <2>2
    <3> QED
      BY <3>1, <1>6, <1>7
  <2>3. ASSUME NEW i \in 1 .. L - 1, ~(i < k) PROVE r[i] = q[i + 1]
    <3>1. /\ i - (k - 1) \in 1 .. L - k /\ k + (i - (k - 1)) = i + 1
          /\ i \in 1 .. Len(a) + Len(b) /\ ~(i <= Len(a))
      BY <1>2, <1>6, <2>3
    <3> QED
      BY <3>1, <1>6, <1>7
  <2> QED
    BY <2>1, <2>2, <2>3
<1>9. Distinct(r)
  <2> SUFFICES ASSUME NEW i \in 1 .. L - 1, NEW j \in 1 .. L - 1, r[i] = r[j] PROVE i = j
    BY <1>8 DEF Distinct
  <2> DEFINE f(x) == IF x < k THEN x ELSE x + 1
  <2>1. /\ f(i) \in 1 .. L /\ f(j) \in 1 .. L
        /\ r[i] = q[f(i)] /\ r[j] = q[f(j)]
    BY <1>2, <1>8
  <2>2. f(i) = f(j)
    BY <2>1, <1>1 DEF Distinct
  <2> QED
    BY <2>2, <1>2
<1>10. Waiting(r) = Waiting(q) \ {q[k]}
  <2>1. ASSUME NEW i \in 1 .. L - 1 PROVE r[i] \in Waiting(q) \ {q[k]}
    <3>1. CASE i < k
      BY <3>1, <1>1, <1>2, <1>8 DEF Distinct, Waiting
    <3>2. CASE ~(i < k)
      <4>1. i + 1 \in 1 .. L /\ i + 1 # k
        BY <3>2, <1>2
      <4> QED
        BY <3>2, <4>1, <1>1, <1>2, <1>8 DEF Distinct, Waiting
    <3> QED
      BY <3>1, <3>2
  <2>2. ASSUME NEW i \in 1 .. L, i # k PROVE q[i] \in Waiting(r)
    <3>1. CASE i < k
      <4>1. i \in 1 .. L - 1
        BY <3>1, <1>2
      <4> QED
        BY <3>1, <4>1, <1>8 DEF Waiting
    <3>2. CASE ~(i < k)
      <4>1. i - 1 \in 1 .. L - 1 /\ ~(i - 1 < k) /\ (i - 1) + 1 = i
        BY <3>2, <2>2, <1>2
      <4>2. r[i - 1] = q[i]
        BY <4>1, <1>8
      <4> QED
        BY <4>1, <4>2, <1>8 DEF Waiting
    <3> QED
      BY <3>1, <3>2
  <2>3. Waiting(r) \subseteq Waiting(q) \ {q[k]}
    BY <2>1, <1>8 DEF Waiting
  <2>4. Waiting(q) \ {q[k]} \subseteq Waiting(r)
    BY <2>2, <1>1 DEF Waiting
  <2> QED
    BY <2>3, <2>4
<1> QED
  BY <1>7, <1>9, <1>10 DEF r

-----------------------------------------------------------------------------
(* The lock and the places of the calls.                                    *)

\* LockAgrees with the queue as a set.
LockForm ==
  /\ Compatible(holders)
  /\ holders \cap Waiting(queue) = {}
  /\ Distinct(queue)
  /\ queue # <<>> => ~Compatible(holders \cup {queue[1]})
  /\ \A c \in holders : pc[c] = "lock" \/ Passes(c)
  /\ \A c \in Waiting(queue) : pc[c] = "lock"
  /\ \A c \in Call :
       /\ pc[c] = "lock" => c \in holders \cup Waiting(queue)
       /\ Passes(c) => c \in holders

LEMMA LockForms ==
  /\ LockAgrees <=> LockForm
  /\ LockAgrees' <=> LockForm'
<1>1. LockAgrees <=> LockForm
  BY DEF LockAgrees, LockForm, Waiting, Distinct
<1>2. LockAgrees' <=> LockForm'
  BY DEF LockAgrees, LockForm, Waiting, Distinct
<1> QED
  BY <1>1, <1>2

\* A call goes to another place and the lock changes with it: what has to agree is
\* only what concerns this call.
LEMMA LockChange ==
  ASSUME LockForm, holders \in SUBSET Call, queue \in Seq(Call), NEW c \in Call,
         holders' \in SUBSET Call, queue' \in Seq(Call),
         Compatible(holders'),
         holders' \cap Waiting(queue') = {},
         Distinct(queue'),
         queue' # <<>> => ~Compatible(holders' \cup {queue'[1]}),
         \A d \in Call \ {c} : pc'[d] = pc[d] /\ op'[d] = op[d],
         op'[c] = op[c] \/ c \notin holders' \cup Waiting(queue'),
         (holders' \cup Waiting(queue')) \ {c} = (holders \cup Waiting(queue)) \ {c},
         holders \ {c} \subseteq holders',
         c \in holders' => pc'[c] = "lock" \/ Passes(c)',
         c \in Waiting(queue') => pc'[c] = "lock",
         pc'[c] = "lock" => c \in holders' \cup Waiting(queue'),
         Passes(c)' => c \in holders'
  PROVE  LockForm'
<1>1. Waiting(queue) \subseteq Call /\ Waiting(queue') \subseteq Call
  BY DEF Waiting
<1>2. \A d \in holders' \cup Waiting(queue') : op'[d] = op[d]
  BY <1>1
<1>3. Compatible(holders)'
  BY <1>2 DEF Compatible, Writes
<1>4. ASSUME queue' # <<>> PROVE ~Compatible(holders \cup {queue[1]})'
  <2>1. queue'[1] \in Waiting(queue')
    BY <1>4, EmptySeq, LenProperties DEF Waiting
  <2>2. \A d \in holders' \cup {queue'[1]} : op'[d] = op[d]
    BY <1>2, <2>1
  <2> QED
    BY <1>4, <2>2 DEF Compatible, Writes
<1>5. \A d \in Call \ {c} : Passes(d)' <=> Passes(d)
  BY DEF Passes
<1>6. \A d \in holders' : pc'[d] = "lock" \/ Passes(d)'
  BY <1>1, <1>5 DEF LockForm
<1>7. \A d \in Waiting(queue') : pc'[d] = "lock"
  BY <1>1 DEF LockForm
<1>8. \A d \in Call :
        /\ pc'[d] = "lock" => d \in holders' \cup Waiting(queue')
        /\ Passes(d)' => d \in holders'
  BY <1>1, <1>5 DEF LockForm
<1>9. Waiting(queue)' = Waiting(queue') /\ Distinct(queue)' = Distinct(queue')
  BY DEF Waiting, Distinct
<1> QED
  BY <1>3, <1>4, <1>6, <1>7, <1>8, <1>9 DEF LockForm

LEMMA LockUntouched ==
  ASSUME LockForm, holders \in SUBSET Call, queue \in Seq(Call), NEW c \in Call,
         UNCHANGED lockVars,
         pc[c] # "lock", ~Passes(c), pc'[c] # "lock", ~Passes(c)',
         \A d \in Call \ {c} : pc'[d] = pc[d] /\ op'[d] = op[d]
  PROVE  LockForm'
<1>1. c \notin holders /\ c \notin Waiting(queue)
  BY DEF LockForm
<1> QED
  BY <1>1, LockChange DEF lockVars, LockForm

LEMMA LockGivenUp ==
  ASSUME LockForm, holders \in SUBSET Call, queue \in Seq(Call), NEW c \in holders,
         Unlock(c),
         pc'[c] # "lock", ~Passes(c)',
         \A d \in Call \ {c} : pc'[d] = pc[d] /\ op'[d] = op[d]
  PROVE  LockForm' /\ holders' \in SUBSET Call /\ queue' \in Seq(Call)
<1> DEFINE H == holders \ {c}
<1>1. H \in SUBSET Call /\ H \cap Waiting(queue) = {} /\ Distinct(queue)
  BY DEF LockForm
<1>2. Compatible(H)
  BY DEF LockForm, Compatible
<1>3. HandOver(H, queue)
  BY DEF Unlock
<1> HIDE DEF H
<1>4. /\ holders' \in SUBSET Call
      /\ queue' \in Seq(Call)
      /\ Compatible(holders')
      /\ holders' \cap Waiting(queue') = {}
      /\ Distinct(queue')
      /\ holders' \cup Waiting(queue') = H \cup Waiting(queue)
      /\ H \subseteq holders'
      /\ queue' # <<>> => ~Compatible(holders' \cup {queue'[1]})
  BY <1>1, <1>2, <1>3, HandOverAgrees
<1>5. c \notin holders' \cup Waiting(queue')
  BY <1>4 DEF H, LockForm
<1>6. (holders' \cup Waiting(queue')) \ {c} = (holders \cup Waiting(queue)) \ {c}
  BY <1>4 DEF H
<1> QED
  BY <1>4, <1>5, <1>6, LockChange DEF H

\* Request: a place at the end of the queue, or the lock at once.
LEMMA LockRequested ==
  ASSUME LockForm, holders \in SUBSET Call, queue \in Seq(Call), NEW c \in Call,
         HandOver(holders, Append(queue, c)),
         pc[c] # "lock", ~Passes(c), pc'[c] = "lock",
         \A d \in Call \ {c} : pc'[d] = pc[d],
         op' = op
  PROVE  LockForm' /\ holders' \in SUBSET Call /\ queue' \in Seq(Call)
<1> DEFINE q == Append(queue, c)
<1>1. c \notin holders \cup Waiting(queue)
  BY DEF LockForm
<1>2. q \in Seq(Call) /\ Distinct(q) /\ Waiting(q) = Waiting(queue) \cup {c}
  BY <1>1, AppendAgrees DEF LockForm
<1> HIDE DEF q
<1>3. Compatible(holders) /\ holders \cap Waiting(q) = {}
  BY <1>1, <1>2 DEF LockForm
<1>4. HandOver(holders, q)
  BY DEF q
<1>5. /\ holders' \in SUBSET Call
      /\ queue' \in Seq(Call)
      /\ Compatible(holders')
      /\ holders' \cap Waiting(queue') = {}
      /\ Distinct(queue')
      /\ holders' \cup Waiting(queue') = holders \cup Waiting(q)
      /\ holders \subseteq holders'
      /\ queue' # <<>> => ~Compatible(holders' \cup {queue'[1]})
  BY <1>2, <1>3, <1>4, HandOverAgrees
<1>6. ~Passes(c)'
  BY DEF Passes
<1> QED
  BY <1>1, <1>2, <1>5, <1>6, LockChange

\* Cancel: the lock is given up, or the place in the queue.
LEMMA LockCancelled ==
  ASSUME LockForm, holders \in SUBSET Call, queue \in Seq(Call), NEW c \in Call,
         IF c \in holders
           THEN Unlock(c)
           ELSE \E i \in DOMAIN queue : queue[i] = c /\ HandOver(holders, RemoveAt(queue, i)),
         pc'[c] = "idle",
         \A d \in Call \ {c} : pc'[d] = pc[d] /\ op'[d] = op[d]
  PROVE  LockForm' /\ holders' \in SUBSET Call /\ queue' \in Seq(Call)
<1>0. ~Passes(c)'
  BY DEF Passes
<1>1. CASE c \in holders
  BY <1>0, <1>1, LockGivenUp
<1>2. CASE c \notin holders
  <2>1. PICK i \in DOMAIN queue : queue[i] = c /\ HandOver(holders, RemoveAt(queue, i))
    BY <1>2
  <2> DEFINE q == RemoveAt(queue, i)
  <2>2. q \in Seq(Call) /\ Distinct(q) /\ Waiting(q) = Waiting(queue) \ {c}
    BY <2>1, RemoveAgrees DEF LockForm
  <2>3. HandOver(holders, q)
    BY <2>1
  <2> HIDE DEF q
  <2>4. Compatible(holders) /\ holders \cap Waiting(q) = {}
    BY <2>2 DEF LockForm
  <2>5. /\ holders' \in SUBSET Call
        /\ queue' \in Seq(Call)
        /\ Compatible(holders')
        /\ holders' \cap Waiting(queue') = {}
        /\ Distinct(queue')
        /\ holders' \cup Waiting(queue') = holders \cup Waiting(q)
        /\ holders \subseteq holders'
        /\ queue' # <<>> => ~Compatible(holders' \cup {queue'[1]})
    BY <2>2, <2>3, <2>4, HandOverAgrees
  <2>6. c \notin holders' \cup Waiting(queue')
    BY <1>2, <2>2, <2>5
  <2>7. (holders' \cup Waiting(queue')) \ {c} = (holders \cup Waiting(queue)) \ {c}
    BY <2>2, <2>5
  <2> QED
    BY <1>0, <2>5, <2>6, <2>7, LockChange
<1> QED
  BY <1>1, <1>2

LEMMA LockStep ==
  ASSUME ShardTypeOK, LockForm, CallsAgree,
         NEW c \in Call, Begin(c) \/ CallStep(c) \/ Cancel(c)
  PROVE  LockForm' /\ holders' \in SUBSET Call /\ queue' \in Seq(Call)
<1> USE DEF ShardTypeOK
<1>1. holders \in SUBSET Call /\ queue \in Seq(Call)
  OBVIOUS
<1>2. CASE \/ Begin(c)
           \/ HaveBackend(c) \/ StartBackend(c) \/ BackendStarts(c) \/ BackendFails(c)
           \/ OpenModel(c) \/ LoadFails(c) \/ ModelLoaded(c) \/ CreateCell(c) \/ FindCell(c)
           \/ GenerateEnds(c) \/ Reply(c)
  <2>1. UNCHANGED lockVars
    BY <1>2 DEF Begin, HaveBackend, StartBackend, BackendStarts, BackendFails, OpenModel,
                LoadFails, ModelLoaded, CreateCell, FindCell, GenerateEnds, Reply, lockVars
  <2>2. \A d \in Call \ {c} : pc'[d] = pc[d] /\ op'[d] = op[d]
    BY <1>2 DEF Begin, HaveBackend, StartBackend, BackendStarts, BackendFails, OpenModel,
                LoadFails, ModelLoaded, CreateCell, FindCell, GenerateEnds, Reply, Go, Ends
  <2>3. pc[c] # "lock" /\ ~Passes(c) /\ pc'[c] # "lock"
    BY <1>2 DEF Begin, HaveBackend, StartBackend, BackendStarts, BackendFails, OpenModel,
                LoadFails, ModelLoaded, CreateCell, FindCell, GenerateEnds, Reply, Go, Ends,
                Passes, AfterBackend
  <2>4. ~Passes(c)'
    <3>1. CASE ModelLoaded(c)
      <4>1. op[c] # "pass" /\ op' = op
        BY <3>1 DEF ModelLoaded, CallsAgree, Owns
      <4> QED
        BY <4>1 DEF Passes
    <3>2. CASE ~ModelLoaded(c)
      <4>1. pc'[c] # "compute"
        BY <1>2, <3>2 DEF Begin, HaveBackend, StartBackend, BackendStarts, BackendFails,
               OpenModel, LoadFails, CreateCell, FindCell, GenerateEnds, Reply, Go, Ends,
               AfterBackend
      <4> QED
        BY <4>1 DEF Passes
    <3> QED
      BY <3>1, <3>2
  <2> QED
    BY <1>1, <2>1, <2>2, <2>3, <2>4, LockUntouched DEF lockVars
<1>3. CASE Request(c)
  BY <1>1, <1>3, LockRequested DEF Request, Go, Passes
<1>4. CASE Replace(c) \/ NoShardLoaded(c) \/ PassEnds(c)
  <2>1. c \in holders
    BY <1>4 DEF Replace, NoShardLoaded, PassEnds, LockForm, Passes
  <2>2. Unlock(c)
    BY <1>4 DEF Replace, NoShardLoaded, PassEnds
  <2>3. pc'[c] = "reply" /\ \A d \in Call \ {c} : pc'[d] = pc[d] /\ op'[d] = op[d]
    BY <1>4 DEF Replace, NoShardLoaded, PassEnds, Ends, Go
  <2> QED
    BY <1>1, <2>1, <2>2, <2>3, LockGivenUp DEF Passes
<1>5. CASE EnterPass(c)
  <2>1. /\ c \in holders /\ ~Writes(c) /\ holders' = holders /\ queue' = queue /\ op' = op
        /\ pc'[c] = "compute" /\ \A d \in Call \ {c} : pc'[d] = pc[d]
    BY <1>5 DEF EnterPass, Go
  <2>2. c \notin Waiting(queue) /\ Passes(c)'
    BY <2>1 DEF LockForm, Passes, Writes
  <2> QED
    BY <1>1, <2>1, <2>2, LockChange DEF LockForm
<1>6. CASE Cancel(c)
  <2>1. pc'[c] = "idle" /\ \A d \in Call \ {c} : pc'[d] = pc[d] /\ op'[d] = op[d]
    BY <1>6 DEF Cancel, Go
  <2> QED
    BY <1>1, <1>6, <2>1, LockCancelled DEF Cancel
<1> QED
  BY <1>2, <1>3, <1>4, <1>5, <1>6 DEF CallStep

-----------------------------------------------------------------------------
(* Types, memory and calls.                                                 *)

LEMMA TypeStep ==
  ASSUME ShardTypeOK, holders' \in SUBSET Call, queue' \in Seq(Call),
         NEW c \in Call, Begin(c) \/ CallStep(c) \/ Cancel(c)
  PROVE  ShardTypeOK'
<1> USE DEF ShardTypeOK
<1>1. CASE Begin(c)
  <2>1. PICK o \in Ops : op' = [op EXCEPT ![c] = o]
    BY <1>1 DEF Begin
  <2> QED
    BY <1>1, <2>1 DEF Begin, Go
<1>2. CASE HaveBackend(c) \/ StartBackend(c) \/ BackendStarts(c) \/ BackendFails(c)
  BY <1>2 DEF HaveBackend, StartBackend, BackendStarts, BackendFails, Go, Ends, AfterBackend
<1>3. CASE OpenModel(c)
  BY <1>3 DEF OpenModel, Go
<1>4. CASE LoadFails(c) \/ ModelLoaded(c) \/ CreateCell(c)
  BY <1>4 DEF LoadFails, ModelLoaded, CreateCell, Go, Ends
<1>5. CASE FindCell(c) \/ Request(c)
  BY <1>5 DEF FindCell, Request, Go, Ends
<1>6. CASE Replace(c) \/ EnterPass(c) \/ NoShardLoaded(c)
  BY <1>6 DEF Replace, EnterPass, NoShardLoaded, Go, Ends
<1>7. CASE PassEnds(c) \/ GenerateEnds(c)
  BY <1>7 DEF PassEnds, GenerateEnds, Go, Ends
<1>8. CASE Reply(c) \/ Cancel(c)
  BY <1>8 DEF Reply, Cancel, Go
<1> QED
  BY <1>1, <1>2, <1>3, <1>4, <1>5, <1>6, <1>7, <1>8 DEF CallStep

\* Where a call may be, for what it was called, and whether it has a model.
Place(c) ==
  /\ pc[c] = "idle" <=> op[c] = "none"
  /\ pc[c] \in {"backend", "init"} => op[c] # "unload"
  /\ pc[c] \in {"open", "loading", "create"} => op[c] \in {"load", "generate"}
  /\ pc[c] = "create" => op[c] = "load"
  /\ pc[c] \in {"cell", "request", "lock"} => op[c] # "generate"
  /\ pc[c] = "cell" => op[c] # "load"
  /\ pc[c] = "compute" => op[c] \in {"pass", "generate"}
  /\ Owns(c) <=> \/ pc[c] \in {"loading", "create"}
                 \/ pc[c] \in {"request", "lock"} /\ op[c] = "load"
                 \/ pc[c] = "compute" /\ op[c] = "generate"
  /\ op[c] = "pass" /\ ~Passes(c) => mine[c] = NoModel
  /\ pc[c] \in {"request", "lock"} \/ Passes(c) => cell
  /\ pc[c] = "init" => backend = "starting"

OneStarts == \A c, d \in Call : pc[c] = "init" /\ pc[d] = "init" => c = d

LEMMA Places ==
  /\ CallsAgree <=> OneStarts /\ \A c \in Call : Place(c)
  /\ CallsAgree' <=> OneStarts' /\ \A c \in Call : Place(c)'
<1>1. CallsAgree <=> OneStarts /\ \A c \in Call : Place(c)
  BY DEF CallsAgree, OneStarts, Place
<1>2. CallsAgree' <=> OneStarts' /\ \A c \in Call : Place(c)'
  BY DEF CallsAgree, OneStarts, Place
<1> QED
  BY <1>1, <1>2

\* What a step of c leaves alone.
LEMMA OthersStay ==
  ASSUME ShardTypeOK, NEW c \in Call, Begin(c) \/ CallStep(c) \/ Cancel(c),
         NEW d \in Call, d # c
  PROVE  /\ pc'[d] = pc[d] /\ op'[d] = op[d] /\ mine'[d] = mine[d] /\ failed'[d] = failed[d]
         /\ cell => cell'
<1> USE DEF ShardTypeOK
<1>1. CASE \/ Begin(c) \/ HaveBackend(c) \/ StartBackend(c) \/ BackendStarts(c)
           \/ BackendFails(c) \/ OpenModel(c) \/ LoadFails(c) \/ ModelLoaded(c)
  BY <1>1 DEF Begin, HaveBackend, StartBackend, BackendStarts, BackendFails, OpenModel,
              LoadFails, ModelLoaded, Go, Ends
<1>2. CASE \/ CreateCell(c) \/ FindCell(c) \/ Request(c) \/ Replace(c) \/ EnterPass(c)
           \/ NoShardLoaded(c)
  BY <1>2 DEF CreateCell, FindCell, Request, Replace, EnterPass, NoShardLoaded, Go, Ends
<1>3. CASE PassEnds(c) \/ GenerateEnds(c) \/ Reply(c) \/ Cancel(c)
  BY <1>3 DEF PassEnds, GenerateEnds, Reply, Cancel, Go, Ends
<1> QED
  BY <1>1, <1>2, <1>3 DEF CallStep

LEMMA CallsStep ==
  ASSUME ShardTypeOK, CallsAgree, NEW c \in Call, Begin(c) \/ CallStep(c) \/ Cancel(c)
  PROVE  CallsAgree'
<1> USE SlotAssumption
<1>1. OneStarts /\ Place(c)
  BY Places
<1>2. /\ \A d \in Call \ {c} : pc[d] = "init" => backend = "starting"
      /\ pc'[c] = "init" => \/ pc[c] = "init" /\ backend' = backend
                            \/ backend = "none" /\ backend' = "starting"
      /\ backend = "starting" => backend' = "starting" \/ pc[c] = "init"
  <2>1. \A d \in Call : pc[d] = "init" => backend = "starting"
    BY Places DEF Place
  <2>2. CASE Begin(c)
    BY <2>1, <2>2 DEF Begin, Go, ShardTypeOK
  <2>3. CASE HaveBackend(c) \/ StartBackend(c) \/ BackendStarts(c) \/ BackendFails(c)
    BY <2>1, <2>3 DEF HaveBackend, StartBackend, BackendStarts, BackendFails, Go, Ends,
                AfterBackend, ShardTypeOK
  <2>4. CASE \/ OpenModel(c) \/ LoadFails(c) \/ ModelLoaded(c) \/ CreateCell(c) \/ FindCell(c)
             \/ Request(c)
    BY <2>1, <2>4 DEF OpenModel, LoadFails, ModelLoaded, CreateCell, FindCell, Request, Go,
                Ends, ShardTypeOK
  <2>5. CASE \/ Replace(c) \/ EnterPass(c) \/ NoShardLoaded(c) \/ PassEnds(c)
             \/ GenerateEnds(c) \/ Reply(c) \/ Cancel(c)
    BY <2>1, <2>5 DEF Replace, EnterPass, NoShardLoaded, PassEnds, GenerateEnds, Reply,
                Cancel, Go, Ends, ShardTypeOK
  <2> QED
    BY <2>1, <2>2, <2>3, <2>4, <2>5 DEF CallStep
<1>3. \A d \in Call \ {c} : /\ pc'[d] = pc[d] /\ op'[d] = op[d] /\ mine'[d] = mine[d]
                            /\ cell => cell'
  BY OthersStay
<1>4. OneStarts'
  BY <1>1, <1>2, <1>3 DEF OneStarts
<1>5. ASSUME NEW d \in Call, d # c PROVE Place(d)'
  <2>1. Place(d) /\ (pc[d] = "init" => backend' = "starting")
    BY <1>1, <1>2, <1>5, Places DEF OneStarts, Place
  <2> QED
    BY <1>3, <1>5, <2>1 DEF Place, Owns, Passes
<1>6. Place(c)'
  <2> USE <1>1 DEF ShardTypeOK, Place, Owns, Passes
  <2>1. CASE Begin(c)
    BY <2>1 DEF Begin, Go, Ops
  <2>2. CASE HaveBackend(c) \/ StartBackend(c)
    BY <2>2 DEF HaveBackend, StartBackend, Go, AfterBackend, Ops
  <2>3. CASE BackendStarts(c) \/ BackendFails(c)
    BY <2>3 DEF BackendStarts, BackendFails, Go, Ends, AfterBackend, Ops
  <2>4. CASE OpenModel(c)
    BY <2>4 DEF OpenModel, Go
  <2>5. CASE LoadFails(c)
    BY <2>5 DEF LoadFails, Go, Ends
  <2>6. CASE ModelLoaded(c) \/ CreateCell(c)
    BY <2>6 DEF ModelLoaded, CreateCell, Go
  <2>7. CASE FindCell(c) \/ Request(c)
    BY <2>7 DEF FindCell, Request, Go, Ends
  <2>8. CASE Replace(c) \/ NoShardLoaded(c)
    BY <2>8 DEF Replace, NoShardLoaded, Go, Ends, Writes
  <2>9. CASE EnterPass(c)
    BY <2>9 DEF EnterPass, Go, Writes
  <2>10. CASE PassEnds(c) \/ GenerateEnds(c)
    BY <2>10 DEF PassEnds, GenerateEnds, Go, Ends
  <2>11. CASE Reply(c) \/ Cancel(c)
    BY <2>11 DEF Reply, Cancel, Go
  <2> QED
    BY <2>1, <2>2, <2>3, <2>4, <2>5, <2>6, <2>7, <2>8, <2>9, <2>10, <2>11 DEF CallStep
<1> QED
  BY <1>4, <1>5, <1>6, Places

\* The models, as far as they are not c's.
OthersAgree(c) ==
  \A d \in Call \ {c} :
    /\ Owns(d)' <=> Owns(d)
    /\ Passes(d)' <=> Passes(d)
    /\ mine'[d] = mine[d]

\* Neither memory nor shard nor the model of c changes.
LEMMA MemoryUntouched ==
  ASSUME MemoryAccounted, NEW c \in Call, OthersAgree(c),
         UNCHANGED <<memory, shard>>, mine'[c] = mine[c],
         Owns(c)' <=> Owns(c), ~Passes(c)'
  PROVE  MemoryAccounted'
BY DEF MemoryAccounted, OthersAgree

\* c gives up its model, if it has one.
LEMMA ModelGivenUp ==
  ASSUME ShardTypeOK, MemoryAccounted, NEW c \in Call, OthersAgree(c),
         Owns(c) \/ mine[c] = NoModel,
         memory' = memory \ {mine[c]}, shard' = shard,
         ~Owns(c)', ~Passes(c)'
  PROVE  MemoryAccounted'
<1>1. \A d \in Call : Owns(d)' => d # c /\ Owns(d) /\ mine'[d] = mine[d]
  BY DEF OthersAgree
<1>2. \A m \in Slot : m \in memory' <=> m \in memory /\ m # mine[c]
  OBVIOUS
<1>3. ASSUME NEW m \in Slot
      PROVE  m \in memory' <=> m = shard \/ \E d \in Call : Owns(d)' /\ mine'[d] = m
  <2>1. CASE Owns(c) /\ m = mine[c]
    BY <1>1, <1>2, <2>1 DEF MemoryAccounted
  <2>2. CASE ~(Owns(c) /\ m = mine[c])
    <3>1. m \in memory' <=> m \in memory
      BY <1>2, <2>2, SlotAssumption
    <3>2. \A d \in Call : Owns(d) /\ mine[d] = m => d # c /\ Owns(d)' /\ mine'[d] = m
      BY <2>2 DEF OthersAgree
    <3> QED
      BY <1>1, <3>1, <3>2 DEF MemoryAccounted
  <2> QED
    BY <2>1, <2>2
<1> QED
  BY <1>1, <1>3 DEF MemoryAccounted, OthersAgree

LEMMA MemoryStep ==
  ASSUME ShardTypeOK, LockForm, MemoryAccounted, CallsAgree,
         NEW c \in Call, Begin(c) \/ CallStep(c) \/ Cancel(c)
  PROVE  MemoryAccounted'
<1> USE SlotAssumption
<1>1. Place(c)
  BY Places
<1>2. OthersAgree(c)
  <2> SUFFICES ASSUME NEW d \in Call, d # c
               PROVE  pc'[d] = pc[d] /\ op'[d] = op[d] /\ mine'[d] = mine[d]
    BY DEF OthersAgree, Owns, Passes
  <2> QED
    BY OthersStay
<1>3. CASE \/ Begin(c) \/ HaveBackend(c) \/ StartBackend(c) \/ BackendStarts(c)
           \/ BackendFails(c)
  <2>1. UNCHANGED <<memory, shard, mine>>
    BY <1>3 DEF Begin, HaveBackend, StartBackend, BackendStarts, BackendFails
  <2>2. mine[c] = NoModel
    BY <1>1, <1>3 DEF Place, Owns, Passes, Begin, HaveBackend, StartBackend, BackendStarts,
                      BackendFails
  <2>3. pc'[c] # "compute"
    BY <1>3 DEF Begin, HaveBackend, StartBackend, BackendStarts, BackendFails, Go, Ends,
                AfterBackend, ShardTypeOK
  <2> QED
    BY <1>2, <2>1, <2>2, <2>3, MemoryUntouched DEF Owns, Passes
<1>4. CASE ModelLoaded(c) \/ CreateCell(c) \/ FindCell(c) \/ Request(c) \/ NoShardLoaded(c)
  <2>1. UNCHANGED <<memory, shard, mine, op>>
    BY <1>4 DEF ModelLoaded, CreateCell, FindCell, Request, NoShardLoaded
  <2>2. ~Passes(c)'
    <3>1. CASE ModelLoaded(c)
      BY <1>1, <2>1, <3>1 DEF ModelLoaded, Place, Passes
    <3>2. CASE CreateCell(c) \/ FindCell(c) \/ Request(c) \/ NoShardLoaded(c)
      BY <3>2 DEF CreateCell, FindCell, Request, NoShardLoaded, Go, Ends, Passes, ShardTypeOK
    <3> QED
      BY <1>4, <3>1, <3>2
  <2> QED
    BY <1>2, <2>1, <2>2, MemoryUntouched DEF Owns
<1>5. CASE Reply(c)
  <2>1. UNCHANGED <<memory, shard, mine>> /\ pc[c] = "reply" /\ pc'[c] = "idle"
    BY <1>5 DEF Reply, Go, ShardTypeOK
  <2>2. mine[c] = NoModel
    BY <1>1, <2>1 DEF Place, Owns, Passes
  <2> QED
    BY <1>2, <2>1, <2>2, MemoryUntouched DEF Owns, Passes
<1>6. CASE OpenModel(c)
  <2>1. PICK m \in Slot \ memory : /\ mine' = [mine EXCEPT ![c] = m]
                                   /\ memory' = memory \cup {m}
    BY <1>6 DEF OpenModel
  <2>2. /\ shard' = shard /\ op' = op /\ pc'[c] = "loading"
        /\ mine'[c] = m /\ op[c] # "pass"
    BY <1>1, <1>6, <2>1 DEF OpenModel, Go, ShardTypeOK, Place
  <2>3. Owns(c)' /\ ~Passes(c)' /\ ~Owns(c)
    BY <1>1, <1>6, <2>1, <2>2 DEF Owns, Passes, OpenModel, Place
  <2>4. m # shard /\ \A d \in Call : Owns(d) => mine[d] # m
    BY <2>1 DEF MemoryAccounted
  <2> QED
    BY <1>2, <2>1, <2>2, <2>3, <2>4 DEF MemoryAccounted, OthersAgree
<1>7. CASE LoadFails(c) \/ GenerateEnds(c) \/ Cancel(c)
  <2>1. /\ memory' = memory \ {mine[c]} /\ shard' = shard /\ mine'[c] = NoModel
        /\ pc'[c] # "compute"
    BY <1>7 DEF LoadFails, GenerateEnds, Cancel, Go, Ends, ShardTypeOK
  <2>2. Owns(c) \/ mine[c] = NoModel
    BY <1>1, <1>7 DEF Place, Owns, Passes, LoadFails, GenerateEnds, Cancel
  <2> QED
    BY <1>2, <2>1, <2>2, ModelGivenUp DEF Owns, Passes
<1>8. CASE Replace(c)
  <2>1. /\ pc[c] = "lock" /\ c \in holders /\ Writes(c)
        /\ shard' = mine[c] /\ memory' = memory \ {shard}
        /\ mine'[c] = NoModel /\ pc'[c] = "reply"
    BY <1>8 DEF Replace, Ends, Go, ShardTypeOK
  <2>2. \A d \in Call : ~Passes(d)
    BY <2>1 DEF LockForm, Compatible, Passes
  <2>3. ~Owns(c)' /\ \A d \in Call : ~Passes(d)'
    BY <1>2, <2>1, <2>2 DEF Owns, Passes, OthersAgree
  <2>4. Owns(c) <=> mine[c] # NoModel
    BY <2>1 DEF Owns, Writes
  <2>5. ASSUME NEW m \in Slot
        PROVE  m \in memory' <=> m = shard' \/ \E d \in Call : Owns(d)' /\ mine'[d] = m
    <3>1. m \in memory' <=> m # shard /\ m \in memory
      BY <2>1
    <3>2. m \in memory' <=> \E d \in Call : Owns(d) /\ mine[d] = m
      BY <3>1 DEF MemoryAccounted
    <3>3. m = shard' <=> Owns(c) /\ mine[c] = m
      BY <2>1, <2>4
    <3> QED
      BY <1>2, <2>3, <3>2, <3>3 DEF OthersAgree
  <2>6. \A d \in Call : Owns(d)' => d # c /\ Owns(d) /\ mine'[d] = mine[d] /\ mine[d] # NoModel
    BY <1>2, <2>3 DEF OthersAgree, Owns
  <2>7. \A d \in Call : Owns(d)' => mine'[d] # shard'
    BY <2>1, <2>4, <2>6 DEF MemoryAccounted
  <2>8. \A d, e \in Call : Owns(d)' /\ Owns(e)' /\ mine'[d] = mine'[e] => d = e
    BY <2>6 DEF MemoryAccounted
  <2> QED
    BY <2>3, <2>5, <2>7, <2>8 DEF MemoryAccounted
<1>9. CASE EnterPass(c)
  <2>1. /\ UNCHANGED <<memory, shard>> /\ shard # NoModel /\ mine'[c] = shard
        /\ op' = op /\ op[c] = "pass"
    BY <1>9 DEF EnterPass, Writes, ShardTypeOK
  <2>2. ~Owns(c) /\ ~Owns(c)'
    BY <2>1 DEF Owns
  <2> QED
    BY <1>2, <2>1, <2>2 DEF MemoryAccounted, OthersAgree
<1>10. CASE PassEnds(c)
  <2>1. /\ UNCHANGED <<memory, shard>> /\ op' = op /\ op[c] = "pass" /\ pc'[c] = "reply"
    BY <1>10 DEF PassEnds, Ends, Go, ShardTypeOK
  <2>2. ~Owns(c) /\ ~Owns(c)' /\ ~Passes(c)'
    BY <2>1 DEF Owns, Passes
  <2> QED
    BY <1>2, <2>1, <2>2 DEF MemoryAccounted, OthersAgree
<1> QED
  BY <1>3, <1>4, <1>5, <1>6, <1>7, <1>8, <1>9, <1>10 DEF CallStep

\* The shard changes only in a cell that is there.
LEMMA CellStep ==
  ASSUME ShardTypeOK, CallsAgree, NothingWithoutCell,
         NEW c \in Call, Begin(c) \/ CallStep(c) \/ Cancel(c)
  PROVE  NothingWithoutCell'
<1>1. Place(c)
  BY Places
<1>2. CASE Replace(c)
  BY <1>1, <1>2 DEF Replace, Place, NothingWithoutCell
<1>3. CASE ~Replace(c)
  <2>1. CASE Begin(c) \/ Cancel(c)
    BY <2>1 DEF Begin, Cancel, NothingWithoutCell
  <2>2. CASE \/ HaveBackend(c) \/ StartBackend(c) \/ BackendStarts(c) \/ BackendFails(c)
             \/ OpenModel(c) \/ LoadFails(c) \/ ModelLoaded(c) \/ CreateCell(c)
    BY <2>2 DEF HaveBackend, StartBackend, BackendStarts, BackendFails, OpenModel, LoadFails,
                ModelLoaded, CreateCell, NothingWithoutCell
  <2>3. CASE \/ FindCell(c) \/ Request(c) \/ EnterPass(c) \/ NoShardLoaded(c) \/ PassEnds(c)
             \/ GenerateEnds(c) \/ Reply(c)
    BY <2>3 DEF FindCell, Request, EnterPass, NoShardLoaded, PassEnds, GenerateEnds, Reply,
                NothingWithoutCell
  <2> QED
    BY <1>3, <2>1, <2>2, <2>3 DEF CallStep
<1> QED
  BY <1>2, <1>3

-----------------------------------------------------------------------------
LEMMA ShardInvInit == ShardInit => ShardInv
<1> SUFFICES ASSUME ShardInit PROVE ShardInv
  OBVIOUS
<1> USE DEF ShardInit
<1>1. ShardTypeOK
  <2>1. holders \in SUBSET Call /\ queue \in Seq(Call) /\ memory \in SUBSET Slot
    BY EmptySeq
  <2> QED
    BY <2>1 DEF ShardTypeOK
<1>2. LockAgrees
  BY DEF LockAgrees, Compatible, Passes
<1>3. MemoryAccounted
  BY SlotAssumption DEF MemoryAccounted, Owns, Passes
<1>4. CallsAgree
  BY DEF CallsAgree, Owns, Passes
<1> QED
  BY <1>1, <1>2, <1>3, <1>4 DEF ShardInv, NothingWithoutCell

LEMMA ShardInvStep == ShardInv /\ [ShardNext]_shardVars => ShardInv'
<1> SUFFICES ASSUME ShardInv, [ShardNext]_shardVars PROVE ShardInv'
  OBVIOUS
<1>1. CASE UNCHANGED shardVars
  BY <1>1 DEF shardVars, ShardInv, ShardTypeOK, LockAgrees, MemoryAccounted, CallsAgree,
              NothingWithoutCell, Compatible, Writes, Passes, Owns
<1>2. ASSUME NEW c \in Call, Begin(c) \/ CallStep(c) \/ Cancel(c) PROVE ShardInv'
  <2>1. ShardTypeOK /\ LockForm /\ MemoryAccounted /\ CallsAgree /\ NothingWithoutCell
    BY LockForms DEF ShardInv
  <2>2. LockForm' /\ holders' \in SUBSET Call /\ queue' \in Seq(Call)
    BY <1>2, <2>1, LockStep
  <2>3. ShardTypeOK'
    BY <1>2, <2>1, <2>2, TypeStep
  <2>4. CallsAgree'
    BY <1>2, <2>1, CallsStep
  <2>5. MemoryAccounted'
    BY <1>2, <2>1, MemoryStep
  <2>6. NothingWithoutCell'
    BY <1>2, <2>1, CellStep
  <2> QED
    BY <2>2, <2>3, <2>4, <2>5, <2>6, LockForms DEF ShardInv
<1> QED
  BY <1>1, <1>2 DEF ShardNext

\* ShardInv holds whatever number of calls load, use and unload the shard, whatever
\* number of models fits into memory, and whichever call fails or is dropped while it
\* waits (load_shard_model, unload_current_shard, run_forward_pass).
THEOREM ShardCorrect == ShardSpec => []ShardInv
<1>1. ShardInit => ShardInv
  BY ShardInvInit
<1>2. ShardInv /\ [ShardNext]_shardVars => ShardInv'
  BY ShardInvStep
<1> QED
  BY <1>1, <1>2, PTL DEF ShardSpec

-----------------------------------------------------------------------------
(* The register.                                                            *)

View(c) == [op |-> op[c], status |-> Status(c),
            uses |-> IF Passes(c) THEN mine[c] ELSE NoModel]

Views == [c \in Call |-> View(c)]

LEMMA StatusIs ==
  ASSUME NEW c \in Call
  PROVE  /\ pc[c] = "idle" => Status(c) = "idle"
         /\ pc[c] = "reply" /\ failed[c] => Status(c) = "failed"
         /\ pc[c] = "reply" /\ ~failed[c] => Status(c) = "done"
         /\ pc[c] \notin {"idle", "reply"} /\ Passes(c) => Status(c) = "using"
         /\ pc[c] \notin {"idle", "reply"} /\ ~Passes(c) => Status(c) = "called"
BY DEF Status

LEMMA StatusIsNext ==
  ASSUME NEW c \in Call
  PROVE  /\ pc'[c] = "idle" => Status(c)' = "idle"
         /\ pc'[c] = "reply" /\ failed'[c] => Status(c)' = "failed"
         /\ pc'[c] = "reply" /\ ~failed'[c] => Status(c)' = "done"
         /\ pc'[c] \notin {"idle", "reply"} /\ Passes(c)' => Status(c)' = "using"
         /\ pc'[c] \notin {"idle", "reply"} /\ ~Passes(c)' => Status(c)' = "called"
BY DEF Status

LEMMA ViewsChange ==
  ASSUME ShardTypeOK, NEW c \in Call, Begin(c) \/ CallStep(c) \/ Cancel(c)
  PROVE  Views' = [Views EXCEPT ![c] = View(c)']
<1>1. ASSUME NEW d \in Call, d # c PROVE View(d)' = View(d)
  <2>1. pc'[d] = pc[d] /\ op'[d] = op[d] /\ mine'[d] = mine[d] /\ failed'[d] = failed[d]
    BY <1>1, OthersStay
  <2> QED
    BY <2>1 DEF View, Status, Passes
<1> QED
  BY <1>1 DEF Views

LEMMA IsInvoke ==
  ASSUME NEW c \in Call, NEW o \in Ops, shard' = shard,
         View(c) = [op |-> "none", status |-> "idle", uses |-> NoModel],
         Views' = [Views EXCEPT ![c] = [op |-> o, status |-> "called", uses |-> NoModel]]
  PROVE  Register!Invoke(c)
BY DEF Register!Invoke, Register!Idle, Views, View, Ops

LEMMA IsWrite ==
  ASSUME NEW c \in Call, NEW o \in {"load", "unload"},
         View(c) = [op |-> o, status |-> "called", uses |-> NoModel],
         Views' = [Views EXCEPT ![c] = [op |-> o, status |-> "done", uses |-> NoModel]],
         \A d \in Call : Status(d) # "using",
         shard' \in IF o = "load" THEN Slot \ {shard} ELSE {NoModel}
  PROVE  Register!Write(c)
BY DEF Register!Write, Register!InUse, Views, View

LEMMA IsUse ==
  ASSUME NEW c \in Call, shard' = shard, shard # NoModel,
         View(c) = [op |-> "pass", status |-> "called", uses |-> NoModel],
         Views' = [Views EXCEPT ![c] = [op |-> "pass", status |-> "using", uses |-> shard]]
  PROVE  Register!Use(c)
BY DEF Register!Use, Views, View

LEMMA IsFinish ==
  ASSUME NEW c \in Call, NEW o, shard' = shard,
         View(c) \in {[op |-> "pass", status |-> "using", uses |-> shard],
                     [op |-> "generate", status |-> "called", uses |-> NoModel]},
         View(c).op = o,
         Views' = [Views EXCEPT ![c] = [op |-> o, status |-> "done", uses |-> NoModel]]
  PROVE  Register!Finish(c)
BY DEF Register!Finish, Views, View

LEMMA IsFail ==
  ASSUME NEW c \in Call, NEW o, NEW s \in {"called", "using"}, NEW u, shard' = shard,
         View(c) = [op |-> o, status |-> s, uses |-> u],
         Views' = [Views EXCEPT ![c] = [op |-> o, status |-> "failed", uses |-> NoModel]]
  PROVE  Register!Fail(c)
BY DEF Register!Fail, Views, View

LEMMA IsReturn ==
  ASSUME NEW c \in Call, NEW o, NEW s \in {"called", "done", "failed"}, NEW u, shard' = shard,
         View(c) = [op |-> o, status |-> s, uses |-> u],
         Views' = [Views EXCEPT ![c] = [op |-> "none", status |-> "idle", uses |-> NoModel]]
  PROVE  Register!Return(c)
BY DEF Register!Return, Register!Idle, Views, View

\* Every step of a call is a step of the register, or none.
LEMMA RegisterStep ==
  ASSUME ShardInv, NEW c \in Call, Begin(c) \/ CallStep(c) \/ Cancel(c)
  PROVE  Register!RegisterNext \/ UNCHANGED <<shard, Views>>
<1> DEFINE Called(o) == [op |-> o, status |-> "called", uses |-> NoModel]
           Failed(o) == [op |-> o, status |-> "failed", uses |-> NoModel]
           Done(o) == [op |-> o, status |-> "done", uses |-> NoModel]
           Idle == [op |-> "none", status |-> "idle", uses |-> NoModel]
<1>1. ShardTypeOK /\ LockForm /\ MemoryAccounted /\ Place(c) /\ NothingWithoutCell
  BY LockForms, Places DEF ShardInv
<1>2. Views' = [Views EXCEPT ![c] = View(c)']
  BY <1>1, ViewsChange
<1>3. /\ pc[c] \in {"backend", "init", "open", "loading", "create", "cell", "request", "lock"}
           => View(c) = Called(op[c])
      /\ pc'[c] \in {"backend", "init", "open", "loading", "create", "cell", "request", "lock"}
           => View(c)' = Called(op'[c])
      /\ pc'[c] = "reply" /\ failed'[c] => View(c)' = Failed(op'[c])
      /\ pc'[c] = "reply" /\ ~failed'[c] => View(c)' = Done(op'[c])
  BY StatusIs, StatusIsNext DEF View, Passes
<1>4. ASSUME shard' = shard, View(c)' = View(c) PROVE UNCHANGED <<shard, Views>>
  <2>1. Views[c] = View(c) /\ Views = [d \in Call |-> View(d)]
    BY DEF Views
  <2> QED
    BY <1>2, <1>4, <2>1
<1>5. CASE Begin(c)
  <2>1. PICK o \in Ops : op' = [op EXCEPT ![c] = o]
    BY <1>5 DEF Begin
  <2>2. /\ pc[c] = "idle" /\ op[c] = "none" /\ op'[c] = o /\ shard' = shard
        /\ pc'[c] \in {"cell", "backend"}
    BY <1>1, <1>5, <2>1 DEF Begin, Go, ShardTypeOK, Place
  <2>3. View(c) = Idle /\ View(c)' = Called(o)
    BY <1>3, <2>2, StatusIs DEF View, Passes
  <2>4. Register!Invoke(c)
    BY <1>2, <2>2, <2>3, IsInvoke
  <2> QED
    BY <2>4 DEF Register!RegisterNext
<1>6. CASE \/ HaveBackend(c) \/ StartBackend(c) \/ BackendStarts(c) \/ OpenModel(c)
           \/ CreateCell(c) \/ Request(c) \/ (FindCell(c) /\ cell)
  <2>1. /\ pc[c] \in {"backend", "init", "open", "loading", "create", "cell", "request", "lock"}
        /\ op' = op /\ shard' = shard
    BY <1>6 DEF HaveBackend, StartBackend, BackendStarts, OpenModel, CreateCell, FindCell,
                Request
  <2>2. pc'[c] \in {"backend", "init", "open", "loading", "create", "cell", "request", "lock"}
    BY <1>1, <1>6 DEF HaveBackend, StartBackend, BackendStarts, OpenModel, CreateCell,
                      FindCell, Request, Go, AfterBackend, ShardTypeOK
  <2> QED
    BY <1>3, <1>4, <2>1, <2>2
<1>7. CASE ModelLoaded(c)
  <2>1. /\ pc[c] = "loading" /\ op' = op /\ shard' = shard /\ op[c] # "pass"
        /\ pc'[c] \in {"create", "compute"}
    BY <1>1, <1>7 DEF ModelLoaded, Go, ShardTypeOK, Place
  <2>2. View(c)' = Called(op[c])
    BY <2>1, StatusIsNext DEF View, Passes
  <2> QED
    BY <1>3, <1>4, <2>1, <2>2
<1>8. CASE \/ BackendFails(c) \/ LoadFails(c) \/ NoShardLoaded(c)
           \/ FindCell(c) /\ ~cell /\ op[c] = "pass"
  <2>1. /\ pc[c] \in {"init", "open", "loading", "cell", "lock"}
        /\ op' = op /\ shard' = shard /\ pc'[c] = "reply" /\ failed'[c]
    BY <1>1, <1>8 DEF BackendFails, LoadFails, NoShardLoaded, FindCell, Ends, Go, ShardTypeOK
  <2>2. View(c) = Called(op[c]) /\ View(c)' = Failed(op[c])
    BY <1>3, <2>1
  <2>3. Register!Fail(c)
    BY <1>2, <2>1, <2>2, IsFail
  <2> QED
    BY <2>3 DEF Register!RegisterNext
<1>9. CASE FindCell(c) /\ ~cell /\ op[c] # "pass"
  <2>1. /\ pc[c] = "cell" /\ op' = op /\ shard' = shard /\ pc'[c] = "reply" /\ ~failed'[c]
        /\ op[c] = "unload"
    BY <1>1, <1>9 DEF FindCell, Ends, Go, ShardTypeOK, Place, Ops
  <2>2. View(c) = Called("unload") /\ View(c)' = Done("unload")
    BY <1>3, <2>1
  <2>3. \A d \in Call : Status(d) # "using"
    <3>1. \A d \in Call : ~Passes(d)
      BY <1>9, Places DEF Place, ShardInv
    <3> QED
      BY <3>1 DEF Status
  <2>4. shard' \in {NoModel}
    BY <1>1, <1>9, <2>1 DEF NothingWithoutCell
  <2>5. Register!Write(c)
    BY <1>2, <2>2, <2>3, <2>4, IsWrite
  <2> QED
    BY <2>5 DEF Register!RegisterNext
<1>10. CASE Replace(c)
  <2>1. /\ pc[c] = "lock" /\ op' = op /\ pc'[c] = "reply" /\ ~failed'[c]
        /\ shard' = mine[c] /\ c \in holders /\ Writes(c)
    BY <1>1, <1>10 DEF Replace, Ends, Go, ShardTypeOK
  <2>2. op[c] \in {"load", "unload"}
    BY <1>1, <2>1 DEF Writes, Place, ShardTypeOK, Ops
  <2>3. View(c) = Called(op[c]) /\ View(c)' = Done(op[c])
    BY <1>3, <2>1
  <2>4. \A d \in Call : Status(d) # "using"
    <3>1. \A d \in Call : ~Passes(d)
      BY <1>1, <2>1 DEF LockForm, Compatible, Passes
    <3> QED
      BY <3>1 DEF Status
  <2>5. shard' \in IF op[c] = "load" THEN Slot \ {shard} ELSE {NoModel}
    BY <1>1, <2>1, <2>2 DEF Place, Owns, MemoryAccounted, ShardTypeOK
  <2>6. Register!Write(c)
    BY <1>2, <2>2, <2>3, <2>4, <2>5, IsWrite
  <2> QED
    BY <2>6 DEF Register!RegisterNext
<1>11. CASE EnterPass(c)
  <2>1. /\ pc[c] = "lock" /\ op[c] = "pass" /\ op' = op /\ shard' = shard /\ shard # NoModel
        /\ pc'[c] = "compute" /\ mine'[c] = shard
    BY <1>1, <1>11 DEF EnterPass, Writes, Go, ShardTypeOK
  <2>2. View(c)' = [op |-> "pass", status |-> "using", uses |-> shard]
    BY <2>1, StatusIsNext DEF View, Passes
  <2>3. Register!Use(c)
    BY <1>2, <1>3, <2>1, <2>2, IsUse
  <2> QED
    BY <2>3 DEF Register!RegisterNext
<1>12. CASE PassEnds(c) \/ GenerateEnds(c)
  <2>1. /\ pc[c] = "compute" /\ op[c] \in {"pass", "generate"} /\ op' = op /\ shard' = shard
        /\ pc'[c] = "reply" /\ failed'[c] \in BOOLEAN
    BY <1>1, <1>12 DEF PassEnds, GenerateEnds, Ends, Go, ShardTypeOK
  <2>2. View(c) = IF op[c] = "pass" THEN [op |-> "pass", status |-> "using", uses |-> shard]
                                    ELSE Called("generate")
    <3>1. CASE op[c] = "pass"
      <4>1. Passes(c) /\ mine[c] = shard
        BY <1>1, <2>1, <3>1 DEF Passes, MemoryAccounted
      <4> QED
        BY <2>1, <3>1, <4>1, StatusIs DEF View
    <3>2. CASE op[c] = "generate"
      BY <2>1, <3>2, StatusIs DEF View, Passes
    <3> QED
      BY <2>1, <3>1, <3>2
  <2>3. CASE failed'[c]
    <3>1. View(c)' = Failed(op[c])
      BY <1>3, <2>1, <2>3
    <3>2. Register!Fail(c)
      BY <1>2, <2>1, <2>2, <3>1, IsFail
    <3> QED
      BY <3>2 DEF Register!RegisterNext
  <2>4. CASE ~failed'[c]
    <3>1. View(c)' = Done(op[c])
      BY <1>3, <2>1, <2>4
    <3>2. View(c) \in {[op |-> "pass", status |-> "using", uses |-> shard], Called("generate")}
      BY <2>1, <2>2
    <3>3. View(c).op = op[c]
      BY DEF View
    <3>4. Register!Finish(c)
      BY <1>2, <2>1, <3>1, <3>2, <3>3, IsFinish
    <3> QED
      BY <3>4 DEF Register!RegisterNext
  <2> QED
    BY <2>3, <2>4
<1>13. CASE Reply(c) \/ Cancel(c)
  <2>1. /\ pc[c] \in {"reply", "lock"} /\ shard' = shard /\ pc'[c] = "idle" /\ op'[c] = "none"
    BY <1>1, <1>13 DEF Reply, Cancel, Go, ShardTypeOK
  <2>2. View(c)' = Idle
    BY <2>1, StatusIsNext DEF View, Passes
  <2>3. PICK s \in {"called", "done", "failed"} :
          View(c) = [op |-> op[c], status |-> s, uses |-> NoModel]
    <3>1. CASE pc[c] = "lock"
      BY <1>3, <3>1
    <3>2. CASE pc[c] = "reply"
      BY <3>2, StatusIs DEF View, Passes
    <3> QED
      BY <2>1, <3>1, <3>2
  <2>4. Register!Return(c)
    BY <1>2, <2>1, <2>2, <2>3, IsReturn
  <2> QED
    BY <2>4 DEF Register!RegisterNext
<1> QED
  BY <1>5, <1>6, <1>7, <1>8, <1>9, <1>10, <1>11, <1>12, <1>13 DEF CallStep

\* A call takes effect at one moment, or not at all, and a pass keeps its shard,
\* whatever number of calls there are and whichever of them fail or are dropped.
THEOREM RegisterRefined == ShardSpec => RegisterImplemented
<1>1. ShardInit => Register!RegisterInit
  BY DEF ShardInit, Register!RegisterInit, Register!Idle, Status, Passes
<1>2. ShardInv /\ [ShardNext]_shardVars => [Register!RegisterNext]_<<shard, Views>>
  <2>1. CASE UNCHANGED shardVars
    BY <2>1 DEF shardVars, Views, View, Status, Passes
  <2>2. ASSUME ShardInv, NEW c \in Call, Begin(c) \/ CallStep(c) \/ Cancel(c)
        PROVE  Register!RegisterNext \/ UNCHANGED <<shard, Views>>
    BY <2>2, RegisterStep
  <2> QED
    BY <2>1, <2>2 DEF ShardNext
<1>3. ShardInv /\ [ShardNext]_shardVars =>
        [Register!RegisterNext]_<<shard, [c \in Call |->
                    [op |-> op[c], status |-> Status(c),
                     uses |-> IF Passes(c) THEN mine[c] ELSE NoModel]]>>
  BY <1>2 DEF Views, View
<1> QED
  BY <1>1, <1>3, ShardCorrect, PTL DEF ShardSpec, RegisterImplemented, Register!RegisterSpec
=============================================================================
